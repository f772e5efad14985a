----------------------------- MODULE CrudHandler -----------------------------
(***************************************************************************)
(* CrudHandler::handle_request (src/src/crud_handler.cc) as the worker     *)
(* threads of server_main.cc run it.  Each request gets a CrudHandler of   *)
(* its own, but all of them hold the same MockFilesystem, and no lock is   *)
(* taken: between any two calls on the store another thread may run.  One  *)
(* action is one call on the store with the thread-local code up to the    *)
(* next one, so the interleavings are exactly those of whole store calls.  *)
(* Calls that overlap are undefined behaviour of std::unordered_map, which *)
(* only makes matters worse than they are here.                            *)
(*                                                                         *)
(* A client is a connection with at most one request in progress.  The     *)
(* server has at least four threads, so up to four clients each have one.  *)
(***************************************************************************)
EXTENDS CrudRequest

VARIABLES
  data_,   \* the store every handler shares
  pc,      \* pc[c]: where the thread that serves client c is
  req,     \* req[c]: the request it serves
  new_id,  \* new_id[c]: the id handle_post allocated
  ids,     \* ids[c]: what handle_list has left to visit
  hits,    \* hits[c]: filtered_ids of handle_list
  resp,    \* resp[c]: the last response client c got
  alive    \* FALSE once an exception has ended the process

vars == <<data_, pc, req, new_id, ids, hits, resp, alive>>
local == <<req, new_id, ids, hits>>

PC == {"idle", "handle_request", "post_alloc", "post_write",
       "get_exists", "get_read", "put_exists", "put_write",
       "delete_exists", "delete_erase", "list_ids", "list_read"}

Init ==
  /\ data_ = reset
  /\ pc = [c \in Client |-> "idle"]
  /\ req = [c \in Client |-> NONE]
  /\ new_id = [c \in Client |-> NONE]
  /\ ids = [c \in Client |-> {}]
  /\ hits = [c \in Client |-> {}]
  /\ resp = [c \in Client |-> NONE]
  /\ alive = TRUE

At(c, label) == alive /\ pc[c] = label

Goto(c, label) ==
  /\ pc' = [pc EXCEPT ![c] = label]
  /\ UNCHANGED <<resp, alive>>

(* The handler returns response a, and its locals go. *)
Return(c, a) ==
  /\ pc' = [pc EXCEPT ![c] = "idle"]
  /\ req' = [req EXCEPT ![c] = NONE]
  /\ new_id' = [new_id EXCEPT ![c] = NONE]
  /\ ids' = [ids EXCEPT ![c] = {}]
  /\ hits' = [hits EXCEPT ![c] = {}]
  /\ resp' = [resp EXCEPT ![c] = a]
  /\ UNCHANGED alive

(* Nothing between read_entity and the lambda each std::thread runs        *)
(* catches an exception: std::terminate ends the process.                  *)
Throw ==
  /\ alive' = FALSE
  /\ UNCHANGED <<data_, pc, local, resp>>

Receive(c, r) ==
  /\ At(c, "idle")
  /\ req' = [req EXCEPT ![c] = r]
  /\ Goto(c, "handle_request")
  /\ UNCHANGED <<data_, new_id, ids, hits>>

Dispatch(r) ==
  CASE r.method = "POST" -> "post_alloc"
    [] r.method = "GET" -> IF has_id(r.path) THEN "get_exists" ELSE "list_ids"
    [] r.method = "PUT" -> "put_exists"
    [] r.method = "DELETE" -> "delete_exists"

handle_request(c) ==
  /\ At(c, "handle_request")
  /\ \/ BadRequest(req[c]) /\ Return(c, Status(400))
     \/ /\ ~BadRequest(req[c])
        /\ req[c].method = "OTHER"
        /\ Return(c, Status(501))
     \/ /\ ~BadRequest(req[c])
        /\ req[c].method # "OTHER"
        /\ Goto(c, Dispatch(req[c]))
        /\ UNCHANGED local
  /\ UNCHANGED data_

(* next_entity_id, and the catch that turns its overflow_error into a 500. *)
handle_post_alloc(c) ==
  LET e == entity(req[c]) IN
  /\ At(c, "post_alloc")
  /\ \/ free_ids(data_, e) = {} /\ Return(c, Status(500))
     \/ /\ free_ids(data_, e) # {}
        /\ new_id' = [new_id EXCEPT ![c] = next_entity_id(data_, e)]
        /\ Goto(c, "post_write")
        /\ UNCHANGED <<req, ids, hits>>
  /\ UNCHANGED data_

(* write_entity of the only store there is never fails, so the 500 that    *)
(* handle_post and handle_put answer to a failed write is not reachable.   *)
handle_post_write(c) ==
  /\ At(c, "post_write")
  /\ data_' = write_entity(data_, entity(req[c]), new_id[c], req[c].body)
  /\ Return(c, Created(new_id[c]))

(* entity_exists, the first call of handle_get, handle_put, handle_delete. *)
Exists(c, from, to) ==
  LET exists == entity_exists(data_, entity(req[c]), id(req[c])) IN
  /\ At(c, from)
  /\ \/ ~exists /\ Return(c, Status(404))
     \/ exists /\ Goto(c, to) /\ UNCHANGED local
  /\ UNCHANGED data_

(* Mutants: the entity_exists check is missing. *)
Unchecked(c, from, to) ==
  At(c, from) /\ Goto(c, to) /\ UNCHANGED <<data_, local>>
put_unchecked(c) == Unchecked(c, "put_exists", "put_write")
delete_unchecked(c) == Unchecked(c, "delete_exists", "delete_erase")

handle_get_exists(c) == Exists(c, "get_exists", "get_read")

handle_put_exists(c) == Exists(c, "put_exists", "put_write")

handle_delete_exists(c) == Exists(c, "delete_exists", "delete_erase")

(* read_entity throws if the entity has gone since entity_exists. *)
handle_get_read(c) ==
  LET exists == entity_exists(data_, entity(req[c]), id(req[c])) IN
  /\ At(c, "get_read")
  /\ \/ ~exists /\ Throw
     \/ /\ exists
        /\ Return(c, Payload(read_entity(data_, entity(req[c]), id(req[c]))))
        /\ UNCHANGED data_

handle_put_write(c) ==
  /\ At(c, "put_write")
  /\ data_' = write_entity(data_, entity(req[c]), id(req[c]), req[c].body)
  /\ Return(c, Payload(req[c].body))

(* Mutant: a code that the other handlers never use. *)
delete_no_content(c) ==
  /\ At(c, "delete_erase")
  /\ data_' = delete_entity(data_, entity(req[c]), id(req[c]))
  /\ Return(c, Status(204))

(* delete_entity returns false if the entity has gone since entity_exists. *)
handle_delete_erase(c) ==
  LET exists == entity_exists(data_, entity(req[c]), id(req[c])) IN
  /\ At(c, "delete_erase")
  /\ data_' = delete_entity(data_, entity(req[c]), id(req[c]))
  /\ Return(c, Status(IF exists THEN 200 ELSE 500))

handle_list_ids(c) ==
  LET found == list_entity_ids(data_, entity(req[c])) IN
  /\ At(c, "list_ids")
  /\ \/ (filtered(req[c]) => found = {}) /\ Return(c, Listing(found))
     \/ /\ filtered(req[c])
        /\ found # {}
        /\ ids' = [ids EXCEPT ![c] = found]
        /\ Goto(c, "list_read")
        /\ UNCHANGED <<req, new_id, hits>>
  /\ UNCHANGED data_

(* Mutant: a turn that does not advance when the entity does not match. *)
list_read_stuck(c, i) ==
  LET e == entity(req[c])
      hit == matches(req[c], read_entity(data_, e, i))
  IN
  /\ At(c, "list_read")
  /\ i \in ids[c]
  /\ \/ ~entity_exists(data_, e, i) /\ Throw
     \/ entity_exists(data_, e, i) /\ ~hit /\ UNCHANGED vars
     \/ /\ entity_exists(data_, e, i) /\ hit
        /\ \/ ids[c] = {i} /\ Return(c, Listing(hits[c] \cup {i}))
           \/ /\ ids[c] # {i}
              /\ ids' = [ids EXCEPT ![c] = @ \ {i}]
              /\ hits' = [hits EXCEPT ![c] = @ \cup {i}]
              /\ Goto(c, "list_read")
              /\ UNCHANGED <<req, new_id>>
        /\ UNCHANGED data_

(* One turn of the filter loop, on any id left: the order is that of an    *)
(* unordered_map.  read_entity throws if the entity has gone since         *)
(* list_entity_ids.                                                        *)
handle_list_read(c, i) ==
  LET e == entity(req[c])
      found == hits[c] \cup (IF matches(req[c], read_entity(data_, e, i))
                             THEN {i} ELSE {})
  IN
  /\ At(c, "list_read")
  /\ i \in ids[c]
  /\ \/ ~entity_exists(data_, e, i) /\ Throw
     \/ /\ entity_exists(data_, e, i)
        /\ \/ ids[c] = {i} /\ Return(c, Listing(found))
           \/ /\ ids[c] # {i}
              /\ ids' = [ids EXCEPT ![c] = @ \ {i}]
              /\ hits' = [hits EXCEPT ![c] = found]
              /\ Goto(c, "list_read")
              /\ UNCHANGED <<req, new_id>>
        /\ UNCHANGED data_

Step(c) ==
  \/ handle_request(c)
  \/ handle_post_alloc(c) \/ handle_post_write(c)
  \/ handle_get_exists(c) \/ handle_get_read(c)
  \/ handle_put_exists(c) \/ handle_put_write(c)
  \/ handle_delete_exists(c) \/ handle_delete_erase(c)
  \/ handle_list_ids(c) \/ \E i \in Id : handle_list_read(c, i)

Next == \E c \in Client : Step(c) \/ \E r \in Requests[c] : Receive(c, r)

Spec == Init /\ [][Next]_vars
-----------------------------------------------------------------------------
(* Type invariant: the store, the threads' local state and the responses   *)
(* of CrudHandler keep their types; an idle thread has no request.         *)
TypeOK ==
  /\ data_ \in Store
  /\ pc \in [Client -> PC]
  /\ req \in [Client -> Request \cup {NONE}]
  /\ new_id \in [Client -> Id \cup {NONE}]
  /\ ids \in [Client -> SUBSET Id]
  /\ hits \in [Client -> SUBSET Id]
  /\ resp \in [Client -> Response \cup {NONE}]
  /\ alive \in BOOLEAN

(* Whatever the threads do, every id in the store is one next_entity_id    *)
(* printed.  handle_put writes under the id of the path, any string, and   *)
(* next_entity_id skips what std::stoi cannot read and takes "1x" for 1:   *)
(* an id that entered the store any other way would break the allocation.  *)
(* It cannot, because handle_put asks entity_exists first, and a DELETE in *)
(* between brings back only an id that had been allocated.                 *)
CanonicalIds == \A e \in Entity : list_entity_ids(data_, e) \subseteq Numeral

(* No request ends the process: whatever runs concurrently, read_entity    *)
(* finds what entity_exists or list_entity_ids saw (README.md: a missing   *)
(* entity is answered 404 Not Found).                                      *)
NoUncaughtException == alive

(* handle_post never stores over an existing entity: "IDs are unique       *)
(* within an entity type" (README.md), so the id next_entity_id chose is   *)
(* still free when write_entity stores under it.                           *)
PostNeverOverwrites ==
  [][\A c \in Client : handle_post_write(c)
       => ~entity_exists(data_, entity(req[c]), new_id[c])]_vars

(* handle_put only updates: the entity it checked for is still there when  *)
(* write_entity stores the new body (README.md: PUT "Updates an existing   *)
(* entity"), so one that was deleted does not come back.                   *)
PutNeverCreates ==
  [][\A c \in Client : handle_put_write(c)
       => entity_exists(data_, entity(req[c]), id(req[c]))]_vars

(* Every request is answered, or an exception has ended the process: no    *)
(* handler path of handle_request loops or gets stuck, the filter loop of  *)
(* handle_list included.                                                   *)
Answered == \A c \in Client : pc[c] # "idle" ~> pc[c] = "idle" \/ ~alive

(***************************************************************************)
(* The service as its clients see it.  Two requests conflict if running    *)
(* them at the same time can give an answer no serial order gives: two     *)
(* POSTs of one type draw the same id, a DELETE empties the entity another *)
(* request has checked for, and a filtered LIST reads entity by entity.    *)
(***************************************************************************)
Conflict(r, s) ==
  /\ entity(r) = entity(s)
  /\ \/ r.method = "POST" /\ s.method = "POST"
     \/ /\ r.method = "DELETE"
        /\ s.method \in {"GET", "PUT", "DELETE"}
        /\ has_id(r.path) /\ has_id(s.path) /\ id(r) = id(s)
     \/ /\ r.method = "GET" /\ ~has_id(r.path) /\ filtered(r)
        /\ s.method \in {"POST", "PUT", "DELETE"}

ConflictFree ==
  \A c, d \in Client : c # d =>
    \A r \in Requests[c], s \in Requests[d] : ~Conflict(r, s)

Api == INSTANCE CrudApi WITH store <- data_, ask <- req, answer <- resp

(* The handlers implement the atomic service of CrudApi: each request of   *)
(* CrudHandler takes effect at one instant, the last of its calls on the   *)
(* store, with the response the service gives there.                       *)
RefinesApi == Api!Spec
=============================================================================
