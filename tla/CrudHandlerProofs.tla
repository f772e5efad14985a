-------------------------- MODULE CrudHandlerProofs --------------------------
(***************************************************************************)
(* Proofs about CrudHandler and its races (CrudRaces), for any clients,    *)
(* requests, store and INT_MAX.                                            *)
(***************************************************************************)
EXTENDS CrudRaces, WellFoundedInduction, TLAPS

(* A path that CrudHandler::parse_entity_and_id_from_path accepts names an *)
(* entity type, and an id where has_id_out is set.                         *)
LEMMA RequestParts ==
  ASSUME NEW r \in Request, ~BadRequest(r)
  PROVE  /\ entity(r) \in Entity
         /\ has_id(r.path) => id(r) \in Id
         /\ r.body \in Data
         /\ r.method \in Method
<1> DEFINE p == r.path
<1>1. p \in Path /\ r.body \in Data /\ r.method \in Method
  BY DEF Request
<1>2. parse_entity_and_id_from_path(p)
  BY DEF BadRequest
<1>3. p.segs[1] \in EntityPart
  BY <1>1 DEF Path
<1>4. ASSUME has_id(p) PROVE p.segs[2] \in IdPart
  <2>1. CASE \E e \in EntityPart : p.segs = <<e>>
    <3>1. PICK e \in EntityPart : p.segs = <<e>>
      BY <2>1
    <3>2. Len(p.segs) = 2
      BY <1>4 DEF has_id
    <3> QED
      BY <3>1, <3>2
  <2>2. CASE \E e \in EntityPart, i \in IdPart : p.segs = <<e, i>>
    BY <2>2
  <2>3. CASE \E e \in EntityPart, i, j \in IdPart : p.segs = <<e, i, j>>
    BY <2>3
  <2> QED
    BY <1>1, <2>1, <2>2, <2>3 DEF Path
<1> QED
  BY <1>1, <1>2, <1>3, <1>4
  DEF parse_entity_and_id_from_path, entity, id, has_id, EntityPart, IdPart

(* next_entity_id returns the numeral of a candidate that is free: its     *)
(* loop stops at the first integer from 1 up that used_ids does not hold.  *)
LEMMA NextIdFree ==
  ASSUME NEW d, NEW e, free_ids(d, e) # {}
  PROVE  \E n \in free_ids(d, e) : next_entity_id(d, e) = to_string[n]
<1> DEFINE S == free_ids(d, e)
<1>1. S \subseteq Nat
  BY IntMaxAssumption DEF free_ids
<1>2. PICK n \in S : \A m \in S : <<m, n>> \notin OpToRel(<, Nat)
  BY <1>1, WFMin, NatLessThanWellFounded
<1>3. ASSUME NEW m \in S PROVE n <= m
  <2>1. ~(m < n)
    BY <1>1, <1>2 DEF OpToRel
  <2> QED
    BY <1>1, <2>1
<1>4. Min(S) \in S
  BY <1>3 DEF Min
<1> QED
  BY <1>4 DEF next_entity_id

(* The same, as what the allocation relies on: the new id is a numeral and *)
(* no entity of type e has it.                                             *)
LEMMA NextIdUnused ==
  ASSUME NEW d \in Store, NEW e \in Entity, free_ids(d, e) # {}
  PROVE  /\ next_entity_id(d, e) \in Numeral
         /\ next_entity_id(d, e) \in Id
         /\ ~entity_exists(d, e, next_entity_id(d, e))
<1>1. PICK n \in free_ids(d, e) : next_entity_id(d, e) = to_string[n]
  BY NextIdFree
<1>2. n \in 1..INT_MAX /\ n \notin used_ids(d, e)
  BY <1>1 DEF free_ids
<1>3. to_string[n] \in Id /\ stoi[to_string[n]] = n
  BY <1>2, NumeralAssumption
<1>4. ~entity_exists(d, e, to_string[n])
  BY <1>2, <1>3 DEF used_ids, list_entity_ids, entity_exists
<1> QED
  BY <1>1, <1>2, <1>3, <1>4 DEF Numeral

-----------------------------------------------------------------------------
(* The request that a thread serves at a label of its handler. *)
Serves(label, r) ==
  /\ label \in {"post_alloc", "post_write"} => r.method = "POST"
  /\ label \in {"get_exists", "get_read"} => r.method = "GET" /\ has_id(r.path)
  /\ label \in {"put_exists", "put_write"} => r.method = "PUT" /\ has_id(r.path)
  /\ label \in {"delete_exists", "delete_erase"}
       => r.method = "DELETE" /\ has_id(r.path)
  /\ label \in {"list_ids", "list_read"} => r.method = "GET" /\ ~has_id(r.path)
  /\ label = "list_read" => filtered(r)
  /\ label \notin {"idle", "handle_request"} => ~BadRequest(r)

(* The handler's locals are what its label promises. *)
LocalsOK ==
  \A c \in Client :
    /\ IF pc[c] = "idle" THEN req[c] = NONE ELSE req[c] \in Requests[c]
    /\ Serves(pc[c], req[c])
    /\ pc[c] = "post_write" => new_id[c] \in Numeral
    /\ pc[c] = "put_write" => id(req[c]) \in Numeral

IInv == TypeOK /\ LocalsOK /\ CanonicalIds

LEMMA NumeralIsId == Numeral \subseteq Id
  BY NumeralAssumption DEF Numeral

(* Responses the handler builds from parts of the right type. *)
LEMMA ResponseType ==
  /\ \A code \in {200, 404, 400, 500, 501} : Status(code) \in Response
  /\ \A v \in Data : Payload(v) \in Response
  /\ \A i \in Id : Created(i) \in Response
  /\ \A S \in SUBSET Id : Listing(S) \in Response
  BY DEF Status, Payload, Created, Listing, Response

LEMMA InitIInv == Init => IInv
<1> SUFFICES ASSUME Init PROVE IInv
  OBVIOUS
<1> QED
  BY DEF Init, IInv, TypeOK, LocalsOK, CanonicalIds, Serves, Store, reset,
         PC, list_entity_ids

LEMMA RequestIsRequest ==
  ASSUME NEW c \in Client, NEW r \in Requests[c] PROVE r \in Request
  BY RequestsAssumption

(* A return leaves the other threads' locals alone and clears its own. *)
LEMMA ReturnIInv ==
  ASSUME IInv, NEW c \in Client, NEW a \in Response, Return(c, a),
         data_' \in Store, CanonicalIds'
  PROVE  IInv'
<1>1. TypeOK'
  BY DEF IInv, TypeOK, Return, PC
<1>2. LocalsOK'
  <2> SUFFICES ASSUME NEW d \in Client
      PROVE /\ IF pc'[d] = "idle" THEN req'[d] = NONE ELSE req'[d] \in Requests[d]
            /\ Serves(pc'[d], req'[d])
            /\ pc'[d] = "post_write" => new_id'[d] \in Numeral
            /\ pc'[d] = "put_write" => id(req'[d]) \in Numeral
    BY DEF LocalsOK
  <2>1. CASE d = c
    <3>1. pc'[d] = "idle" /\ req'[d] = NONE
      BY <2>1 DEF IInv, TypeOK, Return
    <3> QED
      BY <3>1 DEF Serves
  <2>2. CASE d # c
    <3>1. pc'[d] = pc[d] /\ req'[d] = req[d] /\ new_id'[d] = new_id[d]
      BY <2>2 DEF IInv, TypeOK, Return
    <3> QED
      BY <3>1 DEF IInv, LocalsOK
  <2> QED
    BY <2>1, <2>2
<1> QED
  BY <1>1, <1>2 DEF IInv

(* A step to another label keeps the invariant if the locals it sets fit   *)
(* that label.                                                             *)
LEMMA GotoIInv ==
  ASSUME IInv, NEW c \in Client, NEW label \in PC \ {"idle"}, Goto(c, label),
         req' \in [Client -> Request \cup {NONE}], req'[c] \in Requests[c],
         new_id' \in [Client -> Id \cup {NONE}],
         \A d \in Client \ {c} : req'[d] = req[d] /\ new_id'[d] = new_id[d],
         ids' \in [Client -> SUBSET Id], hits' \in [Client -> SUBSET Id],
         data_' = data_,
         Serves(label, req'[c]),
         label = "post_write" => new_id'[c] \in Numeral,
         label = "put_write" => id(req'[c]) \in Numeral
  PROVE  IInv'
<1>1. TypeOK'
  BY DEF IInv, TypeOK, Goto
<1>2. LocalsOK'
  <2> SUFFICES ASSUME NEW d \in Client
      PROVE /\ IF pc'[d] = "idle" THEN req'[d] = NONE ELSE req'[d] \in Requests[d]
            /\ Serves(pc'[d], req'[d])
            /\ pc'[d] = "post_write" => new_id'[d] \in Numeral
            /\ pc'[d] = "put_write" => id(req'[d]) \in Numeral
    BY DEF LocalsOK
  <2>1. CASE d = c
    <3>1. pc'[d] = label
      BY <2>1 DEF IInv, TypeOK, Goto
    <3> QED
      BY <2>1, <3>1
  <2>2. CASE d # c
    <3>1. pc'[d] = pc[d] /\ req'[d] = req[d] /\ new_id'[d] = new_id[d]
      BY <2>2 DEF IInv, TypeOK, Goto
    <3> QED
      BY <3>1 DEF IInv, LocalsOK
  <2> QED
    BY <2>1, <2>2
<1>3. CanonicalIds'
  BY DEF IInv, CanonicalIds
<1> QED
  BY <1>1, <1>2, <1>3 DEF IInv

(* Writing under a numeral, and deleting, keep the store well formed and   *)
(* its ids canonical.                                                      *)
LEMMA WriteCanonical ==
  ASSUME TypeOK, CanonicalIds, NEW e \in Entity, NEW i \in Numeral, NEW v \in Data,
         data_' = write_entity(data_, e, i, v)
  PROVE  data_' \in Store /\ CanonicalIds'
<1>1. i \in Id
  BY NumeralIsId
<1>2. data_' \in Store
  BY <1>1 DEF TypeOK, Store, write_entity
<1>3. ASSUME NEW f \in Entity, NEW j \in Id, data_'[f][j] # NONE, j # i
      PROVE  data_[f][j] # NONE
  BY <1>1, <1>3 DEF TypeOK, Store, write_entity
<1> QED
  BY <1>2, <1>3 DEF CanonicalIds, list_entity_ids

LEMMA DeleteCanonical ==
  ASSUME TypeOK, CanonicalIds, NEW e \in Entity, NEW i \in Id,
         data_' = delete_entity(data_, e, i)
  PROVE  data_' \in Store /\ CanonicalIds'
<1>1. data_' \in Store
  BY DEF TypeOK, Store, delete_entity
<1>2. ASSUME NEW f \in Entity, NEW j \in Id, data_'[f][j] # NONE
      PROVE  data_[f][j] # NONE
  BY <1>2 DEF TypeOK, Store, delete_entity
<1> QED
  BY <1>1, <1>2 DEF CanonicalIds, list_entity_ids

(* At a label of its handler a thread has a request the label serves. *)
LEMMA AtLabel ==
  ASSUME IInv, NEW c \in Client, NEW label, label # "idle", At(c, label)
  PROVE  /\ req[c] \in Request
         /\ req[c] \in Requests[c]
         /\ Serves(label, req[c])
         /\ label = "post_write" => new_id[c] \in Numeral
         /\ label = "put_write" => id(req[c]) \in Numeral
         /\ label # "handle_request" => /\ entity(req[c]) \in Entity
                                        /\ req[c].body \in Data
                                        /\ has_id(req[c].path) => id(req[c]) \in Id
<1>1. pc[c] = label
  BY DEF At
<1>2. req[c] \in Requests[c] /\ Serves(label, req[c])
  BY <1>1 DEF IInv, LocalsOK
<1>3. req[c] \in Request
  BY <1>2, RequestIsRequest
<1>4. label # "handle_request" => ~BadRequest(req[c])
  BY <1>2 DEF Serves
<1> QED
  BY <1>1, <1>2, <1>3, <1>4, RequestParts DEF IInv, LocalsOK

(* A thread that returns without changing the store. *)
LEMMA AnswerIInv ==
  ASSUME IInv, NEW c \in Client, NEW a \in Response, Return(c, a), data_' = data_
  PROVE  IInv'
<1>1. data_' \in Store /\ CanonicalIds'
  BY DEF IInv, TypeOK, CanonicalIds
<1> QED
  BY <1>1, ReturnIInv

LEMMA ThrowIInv == ASSUME IInv, Throw PROVE IInv'
  BY DEF IInv, TypeOK, LocalsOK, CanonicalIds, Throw, local

(* A thread that moves on within one handler without touching its locals. *)
LEMMA MoveIInv ==
  ASSUME IInv, NEW c \in Client, NEW label \in PC \ {"idle", "post_write"},
         Goto(c, label), UNCHANGED <<data_, req, new_id>>,
         req[c] \in Requests[c],
         ids' \in [Client -> SUBSET Id], hits' \in [Client -> SUBSET Id],
         Serves(label, req[c]),
         label = "put_write" => id(req[c]) \in Numeral
  PROVE  IInv'
  BY GotoIInv DEF IInv, TypeOK

(* Dispatch sends a request that passed the checks to the handler for it. *)
LEMMA DispatchServes ==
  ASSUME NEW r \in Request, ~BadRequest(r), r.method # "OTHER"
  PROVE  /\ Dispatch(r) \in PC \ {"idle", "handle_request", "post_write", "put_write"}
         /\ Serves(Dispatch(r), r)
<1>1. r.method \in {"GET", "POST", "PUT", "DELETE"}
  BY DEF Request, Method
<1>2. CASE r.method = "POST"
  BY <1>2 DEF Dispatch, Serves, PC
<1>3. CASE r.method = "GET" /\ has_id(r.path)
  BY <1>3 DEF Dispatch, Serves, PC
<1>4. CASE r.method = "GET" /\ ~has_id(r.path)
  BY <1>4 DEF Dispatch, Serves, PC
<1>5. CASE r.method = "PUT"
  BY <1>5 DEF Dispatch, Serves, PC, BadRequest
<1>6. CASE r.method = "DELETE"
  BY <1>6 DEF Dispatch, Serves, PC, BadRequest
<1> QED
  BY <1>1, <1>2, <1>3, <1>4, <1>5, <1>6

(* The three handlers that begin with entity_exists.  What exists has a    *)
(* canonical id.                                                           *)
LEMMA ExistsIInv ==
  ASSUME IInv, NEW c \in Client, NEW from, NEW to, Exists(c, from, to),
         <<from, to>> \in {<<"get_exists", "get_read">>,
                           <<"put_exists", "put_write">>,
                           <<"delete_exists", "delete_erase">>}
  PROVE  IInv'
<1>1. from # "idle" /\ from # "handle_request" /\ At(c, from)
  BY DEF Exists
<1>2. /\ req[c] \in Requests[c] /\ Serves(from, req[c])
      /\ entity(req[c]) \in Entity
      /\ has_id(req[c].path) => id(req[c]) \in Id
  BY <1>1, AtLabel
<1>3. CASE Return(c, Status(404)) /\ data_' = data_
  BY <1>3, AnswerIInv, ResponseType
<1>4. CASE /\ entity_exists(data_, entity(req[c]), id(req[c]))
           /\ Goto(c, to) /\ UNCHANGED <<data_, local>>
  <2>1. has_id(req[c].path) /\ Serves(to, req[c])
    BY <1>2 DEF Serves
  <2>2. id(req[c]) \in Numeral
    BY <1>2, <1>4, <2>1 DEF IInv, CanonicalIds, list_entity_ids, entity_exists
  <2>3. ids' \in [Client -> SUBSET Id] /\ hits' \in [Client -> SUBSET Id]
    BY <1>4 DEF IInv, TypeOK, local
  <2> QED
    BY <1>2, <1>4, <2>1, <2>2, <2>3, MoveIInv DEF PC, local
<1> QED
  BY <1>3, <1>4 DEF Exists

(* Every step of a thread keeps the invariant: one case per action. *)
LEMMA StepIInv ==
  ASSUME IInv, NEW c \in Client, Step(c) PROVE IInv'
<1> DEFINE r == req[c]
<1>1. CASE handle_request(c)
  <2> USE <1>1 DEF handle_request
  <2>1. r \in Request /\ r \in Requests[c]
    BY AtLabel
  <2>2. CASE Return(c, Status(400)) /\ data_' = data_
    BY <2>2, AnswerIInv, ResponseType
  <2>3. CASE Return(c, Status(501)) /\ data_' = data_
    BY <2>3, AnswerIInv, ResponseType
  <2>4. CASE /\ ~BadRequest(r) /\ r.method # "OTHER"
             /\ Goto(c, Dispatch(r)) /\ UNCHANGED <<data_, local>>
    <3>1. ids' \in [Client -> SUBSET Id] /\ hits' \in [Client -> SUBSET Id]
      BY <2>4 DEF IInv, TypeOK, local
    <3> QED
      BY <2>1, <2>4, <3>1, DispatchServes, MoveIInv DEF local
  <2> QED
    BY <2>2, <2>3, <2>4
<1>2. CASE handle_post_alloc(c)
  <2> DEFINE e == entity(r)
  <2>1. /\ r \in Requests[c] /\ Serves("post_alloc", r) /\ e \in Entity
    BY <1>2, AtLabel DEF handle_post_alloc
  <2>2. CASE Return(c, Status(500)) /\ data_' = data_
    BY <2>2, AnswerIInv, ResponseType
  <2>3. CASE /\ free_ids(data_, e) # {}
             /\ new_id' = [new_id EXCEPT ![c] = next_entity_id(data_, e)]
             /\ Goto(c, "post_write")
             /\ UNCHANGED <<data_, req, ids, hits>>
    <3>1. next_entity_id(data_, e) \in Numeral \cap Id
      BY <2>1, <2>3, NextIdUnused DEF IInv, TypeOK
    <3>2. /\ new_id' \in [Client -> Id \cup {NONE}]
          /\ new_id'[c] \in Numeral
          /\ \A d \in Client \ {c} : new_id'[d] = new_id[d]
      BY <2>3, <3>1 DEF IInv, TypeOK
    <3>3. Serves("post_write", r)
      BY <2>1 DEF Serves
    <3>4. /\ req' \in [Client -> Request \cup {NONE}]
          /\ ids' \in [Client -> SUBSET Id] /\ hits' \in [Client -> SUBSET Id]
      BY <2>3 DEF IInv, TypeOK
    <3> QED
      BY <2>1, <2>3, <3>2, <3>3, <3>4, GotoIInv DEF PC
  <2> QED
    BY <1>2, <2>2, <2>3 DEF handle_post_alloc
<1>3. CASE handle_post_write(c)
  <2>1. entity(r) \in Entity /\ r.body \in Data /\ new_id[c] \in Numeral
    BY <1>3, AtLabel DEF handle_post_write
  <2>2. data_' \in Store /\ CanonicalIds'
    BY <1>3, <2>1, WriteCanonical DEF handle_post_write, IInv
  <2>3. Created(new_id[c]) \in Response
    BY <2>1, ResponseType, NumeralIsId
  <2> QED
    BY <1>3, <2>2, <2>3, ReturnIInv DEF handle_post_write
<1>4. CASE handle_get_exists(c)
  BY <1>4, ExistsIInv DEF handle_get_exists
<1>5. CASE handle_get_read(c)
  <2>1. entity(r) \in Entity /\ id(r) \in Id
    BY <1>5, AtLabel DEF handle_get_read, Serves
  <2>2. CASE Throw
    BY <2>2, ThrowIInv
  <2>3. CASE /\ entity_exists(data_, entity(r), id(r))
             /\ Return(c, Payload(read_entity(data_, entity(r), id(r))))
             /\ data_' = data_
    <3>1. read_entity(data_, entity(r), id(r)) \in Data
      BY <2>1, <2>3 DEF IInv, TypeOK, Store, entity_exists, read_entity
    <3> QED
      BY <2>3, <3>1, AnswerIInv, ResponseType
  <2> QED
    BY <1>5, <2>2, <2>3 DEF handle_get_read
<1>6. CASE handle_put_exists(c)
  BY <1>6, ExistsIInv DEF handle_put_exists
<1>7. CASE handle_put_write(c)
  <2>1. entity(r) \in Entity /\ r.body \in Data /\ id(r) \in Numeral
    BY <1>7, AtLabel DEF handle_put_write
  <2>2. data_' \in Store /\ CanonicalIds'
    BY <1>7, <2>1, WriteCanonical DEF handle_put_write, IInv
  <2> QED
    BY <1>7, <2>1, <2>2, ReturnIInv, ResponseType DEF handle_put_write
<1>8. CASE handle_delete_exists(c)
  BY <1>8, ExistsIInv DEF handle_delete_exists
<1>9. CASE handle_delete_erase(c)
  <2>1. entity(r) \in Entity /\ id(r) \in Id
    BY <1>9, AtLabel DEF handle_delete_erase, Serves
  <2>2. data_' \in Store /\ CanonicalIds'
    BY <1>9, <2>1, DeleteCanonical DEF handle_delete_erase, IInv
  <2> QED
    BY <1>9, <2>2, ReturnIInv, ResponseType DEF handle_delete_erase
<1>10. CASE handle_list_ids(c)
  <2> DEFINE found == list_entity_ids(data_, entity(r))
  <2>1. r \in Requests[c] /\ Serves("list_ids", r)
    BY <1>10, AtLabel DEF handle_list_ids
  <2>2. found \in SUBSET Id
    BY DEF list_entity_ids
  <2>3. CASE Return(c, Listing(found)) /\ data_' = data_
    BY <2>2, <2>3, AnswerIInv, ResponseType
  <2>4. CASE /\ filtered(r)
             /\ ids' = [ids EXCEPT ![c] = found]
             /\ Goto(c, "list_read")
             /\ UNCHANGED <<data_, req, new_id, hits>>
    <3>1. Serves("list_read", r)
      BY <2>1, <2>4 DEF Serves
    <3>2. ids' \in [Client -> SUBSET Id] /\ hits' \in [Client -> SUBSET Id]
      BY <2>2, <2>4 DEF IInv, TypeOK
    <3> QED
      BY <2>1, <2>4, <3>1, <3>2, MoveIInv DEF PC
  <2> QED
    BY <1>10, <2>3, <2>4 DEF handle_list_ids
<1>11. CASE \E i \in Id : handle_list_read(c, i)
  <2>1. PICK i \in Id : handle_list_read(c, i)
    BY <1>11
  <2> DEFINE found == hits[c] \cup
               (IF matches(r, read_entity(data_, entity(r), i)) THEN {i} ELSE {})
  <2>2. r \in Requests[c] /\ Serves("list_read", r)
    BY <2>1, AtLabel DEF handle_list_read
  <2>3. found \in SUBSET Id
    BY DEF IInv, TypeOK
  <2>4. CASE Throw
    BY <2>4, ThrowIInv
  <2>5. CASE Return(c, Listing(found)) /\ data_' = data_
    BY <2>3, <2>5, AnswerIInv, ResponseType
  <2>6. CASE /\ ids' = [ids EXCEPT ![c] = @ \ {i}]
             /\ hits' = [hits EXCEPT ![c] = found]
             /\ Goto(c, "list_read")
             /\ UNCHANGED <<data_, req, new_id>>
    <3>1. ids' \in [Client -> SUBSET Id] /\ hits' \in [Client -> SUBSET Id]
      BY <2>3, <2>6 DEF IInv, TypeOK
    <3> QED
      BY <2>2, <2>6, <3>1, MoveIInv DEF PC
  <2> QED
    BY <2>1, <2>4, <2>5, <2>6 DEF handle_list_read
<1> QED
  BY <1>1, <1>2, <1>3, <1>4, <1>5, <1>6, <1>7, <1>8, <1>9, <1>10, <1>11 DEF Step

LEMMA ReceiveIInv ==
  ASSUME IInv, NEW c \in Client, NEW r \in Requests[c], Receive(c, r) PROVE IInv'
<1>1. r \in Request
  BY RequestIsRequest
<1>2. /\ req' \in [Client -> Request \cup {NONE}] /\ req'[c] = r
      /\ \A d \in Client \ {c} : req'[d] = req[d]
  BY <1>1 DEF Receive, IInv, TypeOK
<1>3. /\ new_id' \in [Client -> Id \cup {NONE}] /\ new_id' = new_id
      /\ ids' \in [Client -> SUBSET Id] /\ hits' \in [Client -> SUBSET Id]
  BY DEF Receive, IInv, TypeOK
<1>4. Serves("handle_request", r)
  BY DEF Serves
<1> QED
  BY <1>2, <1>3, <1>4, GotoIInv DEF Receive, PC

(* Type correctness and, with it, that the store of CrudHandler never      *)
(* holds an id that MockFilesystem::next_entity_id did not print.          *)
THEOREM Invariance == Spec => []IInv
<1>1. IInv /\ [Next]_vars => IInv'
  <2> SUFFICES ASSUME IInv, [Next]_vars PROVE IInv'
    OBVIOUS
  <2>1. CASE Next
    BY <2>1, StepIInv, ReceiveIInv DEF Next
  <2>2. CASE UNCHANGED vars
    BY <2>2 DEF IInv, TypeOK, LocalsOK, CanonicalIds, vars
  <2> QED
    BY <2>1, <2>2
<1> QED
  BY InitIInv, <1>1, PTL DEF Spec

(* CrudHandler keeps its types. *)
THEOREM TypeCorrectness == Spec => []TypeOK
  BY Invariance, PTL DEF IInv

(* The allocation of MockFilesystem::next_entity_id sees every id that is  *)
(* stored, whatever the threads interleave: PUT cannot bring in an id of   *)
(* the client's own making.                                                *)
THEOREM IdsStayCanonical == Spec => []CanonicalIds
  BY Invariance, PTL DEF IInv
-----------------------------------------------------------------------------
(***************************************************************************)
(* What the unlocked store of CrudHandler still guarantees: a thread that  *)
(* no other disturbs serves its request as the atomic service of CrudApi   *)
(* would, and threads whose requests do not conflict never disturb one     *)
(* another.                                                                *)
(***************************************************************************)
(* What a thread found in the store still holds when it acts on it. *)
Held(c) ==
  LET r == req[c]
      e == entity(r)
  IN
  /\ pc[c] = "post_write" => ~entity_exists(data_, e, new_id[c])
  /\ pc[c] \in {"get_read", "put_write", "delete_erase"}
       => entity_exists(data_, e, id(r))
  /\ pc[c] = "list_read" =>
       /\ ids[c] \subseteq list_entity_ids(data_, e)
       /\ hits[c] = {i \in list_entity_ids(data_, e) \ ids[c] :
                       matches(r, data_[e][i])}

(* hits is empty until the filter loop of handle_list starts. *)
NoHitsYet == \A c \in Client : pc[c] # "list_read" => hits[c] = {}

HInv == alive /\ NoHitsYet /\ \A c \in Client : Held(c)

LEMMA InitHInv == Init => HInv
  BY DEF Init, HInv, Held, NoHitsYet

(* A change of one entry of the store leaves thread c undisturbed unless   *)
(* it fills the id c allocated, empties the one c checked for, or is of    *)
(* the type c is listing.                                                  *)
LEMMA Undisturbed ==
  ASSUME IInv, NEW c \in Client, Held(c),
         pc'[c] = pc[c], req'[c] = req[c], new_id'[c] = new_id[c],
         ids'[c] = ids[c], hits'[c] = hits[c],
         NEW f \in Entity, NEW j \in Id, NEW w \in Data \cup {NONE},
         data_' = [data_ EXCEPT ![f][j] = w],
         \/ pc[c] # "post_write"
         \/ f # entity(req[c]) \/ j # new_id[c] \/ w = NONE,
         \/ pc[c] \notin {"get_read", "put_write", "delete_erase"}
         \/ f # entity(req[c]) \/ j # id(req[c]) \/ w # NONE,
         pc[c] # "list_read" \/ f # entity(req[c])
  PROVE  Held(c)'
<1> DEFINE e == entity(req[c])
<1>0. data_ \in Store /\ new_id[c] \in Id \cup {NONE}
  BY DEF IInv, TypeOK
<1>1. \A g \in Entity, i \in Id :
        data_'[g][i] = IF g = f /\ i = j THEN w ELSE data_[g][i]
  BY <1>0 DEF Store
<1>2. \A g \in Entity : g # f => data_'[g] = data_[g]
  BY <1>0 DEF Store
<1>3. pc[c] \notin {"idle", "handle_request"} =>
        e \in Entity /\ (has_id(req[c].path) => id(req[c]) \in Id)
  <2>1. pc[c] \notin {"idle", "handle_request"} =>
          req[c] \in Request /\ ~BadRequest(req[c])
    BY RequestIsRequest DEF IInv, LocalsOK, Serves
  <2> QED
    BY <2>1, RequestParts
<1>4. CASE pc[c] = "post_write"
  <2>1. e \in Entity /\ new_id[c] \in Id
    BY <1>3, <1>4, NumeralIsId DEF IInv, LocalsOK
  <2> QED
    BY <1>1, <1>4, <2>1 DEF Held, entity_exists
<1>5. CASE pc[c] \in {"get_read", "put_write", "delete_erase"}
  <2>1. e \in Entity /\ id(req[c]) \in Id
    BY <1>3, <1>5 DEF IInv, LocalsOK, Serves
  <2> QED
    BY <1>1, <1>5, <2>1, NoneAssumption DEF Held, entity_exists
<1>6. CASE pc[c] = "list_read"
  <2>1. data_'[e] = data_[e]
    BY <1>2, <1>3, <1>6
  <2> QED
    BY <1>6, <2>1 DEF Held, list_entity_ids
<1> QED
  BY <1>4, <1>5, <1>6 DEF Held

(* The call that thread d makes next leaves alone what c relies on. *)
Harmless(d, c) ==
  entity(req[c]) = entity(req[d]) =>
    /\ pc[c] = "post_write" =>
         /\ pc[d] # "post_write"
         /\ pc[d] = "put_write" => entity_exists(data_, entity(req[d]), id(req[d]))
    /\ pc[c] \in {"get_read", "put_write", "delete_erase"} /\ pc[d] = "delete_erase"
         => id(req[c]) # id(req[d])
    /\ pc[c] = "list_read" => pc[d] \notin {"post_write", "put_write", "delete_erase"}

(* A thread changes no other's locals. *)
LEMMA OthersLocals ==
  ASSUME IInv, NEW c \in Client, NEW d \in Client, c # d, Step(d)
  PROVE  /\ pc'[c] = pc[c] /\ req'[c] = req[c] /\ new_id'[c] = new_id[c]
         /\ ids'[c] = ids[c] /\ hits'[c] = hits[c]
  BY DEF IInv, TypeOK, Step, handle_request, handle_post_alloc, handle_post_write,
         handle_get_exists, handle_get_read, handle_put_exists, handle_put_write,
         handle_delete_exists, handle_delete_erase, handle_list_ids,
         handle_list_read, Exists, Return, Goto, Throw, local

(* Three calls change the store, and only at their labels. *)
LEMMA Writers ==
  ASSUME NEW d \in Client, Step(d)
  PROVE  \/ handle_post_write(d) \/ handle_put_write(d) \/ handle_delete_erase(d)
         \/ data_' = data_
  BY DEF Step, handle_request, handle_post_alloc, handle_get_exists, handle_get_read,
         handle_put_exists, handle_delete_exists, handle_list_ids, handle_list_read,
         Exists, Throw

(* A harmless step of another thread leaves what c found as it was. *)
LEMMA OthersHeld ==
  ASSUME IInv, NEW c \in Client, NEW d \in Client, c # d, Held(c), Step(d),
         Harmless(d, c) \/ data_' = data_
  PROVE  Held(c)'
<1> DEFINE r == req[c]
           s == req[d]
<1>1. /\ pc'[c] = pc[c] /\ req'[c] = req[c] /\ new_id'[c] = new_id[c]
      /\ ids'[c] = ids[c] /\ hits'[c] = hits[c]
  BY OthersLocals
<1>2. CASE data_' = data_
  BY <1>1, <1>2 DEF Held
<1>3. CASE Harmless(d, c) /\ handle_post_write(d)
  <2>1. /\ entity(s) \in Entity /\ s.body \in Data /\ new_id[d] \in Id
    BY <1>3, AtLabel, NumeralIsId DEF handle_post_write
  <2>2. pc[c] \in {"post_write", "list_read"} => entity(s) # entity(r)
    BY <1>3 DEF Harmless, handle_post_write, At
  <2>3. data_' = [data_ EXCEPT ![entity(s)][new_id[d]] = s.body] /\ s.body # NONE
    BY <1>3, <2>1, NoneAssumption DEF handle_post_write, write_entity
  <2> QED
    BY <1>1, <2>1, <2>2, <2>3, Undisturbed
<1>4. CASE Harmless(d, c) /\ handle_put_write(d)
  <2>1. /\ entity(s) \in Entity /\ s.body \in Data /\ id(s) \in Id
    BY <1>4, AtLabel, NumeralIsId DEF handle_put_write
  <2>2. /\ pc[c] = "list_read" => entity(s) # entity(r)
        /\ pc[c] = "post_write" =>
             entity(s) # entity(r) \/ entity_exists(data_, entity(s), id(s))
    BY <1>4 DEF Harmless, handle_put_write, At
  <2>3. data_' = [data_ EXCEPT ![entity(s)][id(s)] = s.body] /\ s.body # NONE
    BY <1>4, <2>1, NoneAssumption DEF handle_put_write, write_entity
  <2>4. pc[c] = "post_write" => entity(s) # entity(r) \/ id(s) # new_id[c]
    BY <2>2 DEF Held
  <2> QED
    BY <1>1, <2>1, <2>2, <2>3, <2>4, Undisturbed
<1>5. CASE Harmless(d, c) /\ handle_delete_erase(d)
  <2>1. entity(s) \in Entity /\ id(s) \in Id
    BY <1>5, AtLabel DEF handle_delete_erase, Serves
  <2>2. /\ pc[c] = "list_read" => entity(s) # entity(r)
        /\ pc[c] \in {"get_read", "put_write", "delete_erase"}
             => entity(s) # entity(r) \/ id(s) # id(r)
    BY <1>5 DEF Harmless, handle_delete_erase, At
  <2>3. data_' = [data_ EXCEPT ![entity(s)][id(s)] = NONE]
    BY <1>5 DEF handle_delete_erase, delete_entity
  <2> QED
    BY <1>1, <2>1, <2>2, <2>3, Undisturbed
<1> QED
  BY <1>2, <1>3, <1>4, <1>5, Writers

(* hits stays empty outside the filter loop. *)
LEMMA StepNoHits ==
  ASSUME IInv, NoHitsYet, NEW d \in Client, Step(d)
  PROVE  NoHitsYet'
<1>1. ASSUME NEW c \in Client, c # d PROVE pc'[c] # "list_read" => hits'[c] = {}
  BY <1>1, OthersLocals DEF NoHitsYet
<1>2. pc'[d] # "list_read" => hits'[d] = {}
  BY DEF NoHitsYet, IInv, TypeOK, Step, handle_request, handle_post_alloc,
         handle_post_write, handle_get_exists, handle_get_read, handle_put_exists,
         handle_put_write, handle_delete_exists, handle_delete_erase,
         handle_list_ids, handle_list_read, Exists, Return, Goto, Throw, local, At
<1> QED
  BY <1>1, <1>2 DEF NoHitsYet

(* A thread that returns, or that has nothing to hold at its next label. *)
LEMMA ReturnHeld ==
  ASSUME IInv, alive, NEW c \in Client, NEW a, Return(c, a)
  PROVE  alive' /\ Held(c)'
  BY DEF IInv, TypeOK, Held, Return

LEMMA GotoHeld ==
  ASSUME IInv, alive, NEW c \in Client, NEW label, Goto(c, label),
         label \in PC \ {"post_write", "get_read", "put_write", "delete_erase",
                         "list_read"}
  PROVE  alive' /\ Held(c)'
  BY DEF IInv, TypeOK, Held, Goto

(* Only a thread of a process that runs takes a step. *)
LEMMA StepAlive == ASSUME NEW c \in Client, Step(c) PROVE alive
  BY DEF Step, handle_request, handle_post_alloc, handle_post_write, Exists,
         handle_get_exists, handle_get_read, handle_put_exists, handle_put_write,
         handle_delete_exists, handle_delete_erase, handle_list_ids,
         handle_list_read, At

(* What a thread finds in the store at one call holds after that call. *)
LEMMA OwnHeld ==
  ASSUME IInv, NoHitsYet, NEW c \in Client, Held(c), Step(c)
  PROVE  alive' /\ Held(c)'
<1> DEFINE r == req[c]
           e == entity(r)
<1>0. alive
  BY StepAlive
<1> USE <1>0
<1>1. CASE handle_request(c)
  <2>1. r \in Request
    BY <1>1, AtLabel DEF handle_request
  <2> QED
    BY <1>1, <2>1, ReturnHeld, GotoHeld, DispatchServes
    DEF handle_request, At, local, Dispatch, Request, Method, PC
<1>2. CASE handle_post_alloc(c)
  <2>1. e \in Entity
    BY <1>2, AtLabel DEF handle_post_alloc
  <2>2. CASE Return(c, Status(500))
    BY <2>2, ReturnHeld
  <2>3. CASE /\ free_ids(data_, e) # {}
             /\ new_id' = [new_id EXCEPT ![c] = next_entity_id(data_, e)]
             /\ Goto(c, "post_write")
             /\ UNCHANGED <<data_, req, ids, hits>>
    <3>1. ~entity_exists(data_, e, next_entity_id(data_, e))
      BY <2>1, <2>3, NextIdUnused DEF IInv, TypeOK
    <3>2. pc'[c] = "post_write" /\ new_id'[c] = next_entity_id(data_, e) /\ alive'
      BY <2>3 DEF IInv, TypeOK, Goto
    <3> QED
      BY <2>3, <3>1, <3>2 DEF Held
  <2> QED
    BY <1>2, <2>2, <2>3 DEF handle_post_alloc
<1>3. CASE handle_post_write(c) \/ handle_put_write(c) \/ handle_delete_erase(c)
  BY <1>3, ReturnHeld DEF handle_post_write, handle_put_write, handle_delete_erase
<1>4. CASE handle_get_exists(c) \/ handle_put_exists(c) \/ handle_delete_exists(c)
  <2>1. PICK from \in {"get_exists", "put_exists", "delete_exists"},
             to \in {"get_read", "put_write", "delete_erase"} : Exists(c, from, to)
    BY <1>4 DEF handle_get_exists, handle_put_exists, handle_delete_exists
  <2>2. CASE Return(c, Status(404))
    BY <2>2, ReturnHeld
  <2>3. CASE /\ entity_exists(data_, e, id(r)) /\ Goto(c, to)
             /\ UNCHANGED <<data_, local>>
    <3>1. pc'[c] = to /\ alive'
      BY <2>1, <2>3 DEF IInv, TypeOK, Goto
    <3> QED
      BY <2>1, <2>3, <3>1 DEF Held, local
  <2> QED
    BY <2>1, <2>2, <2>3 DEF Exists
<1>5. CASE handle_get_read(c)
  <2>1. entity_exists(data_, e, id(r))
    BY <1>5 DEF Held, handle_get_read, At
  <2> QED
    BY <1>5, <2>1, ReturnHeld DEF handle_get_read
<1>6. CASE handle_list_ids(c)
  <2> DEFINE found == list_entity_ids(data_, e)
  <2>1. CASE Return(c, Listing(found))
    BY <2>1, ReturnHeld
  <2>2. CASE /\ ids' = [ids EXCEPT ![c] = found] /\ Goto(c, "list_read")
             /\ UNCHANGED <<data_, req, new_id, hits>>
    <3>1. pc'[c] = "list_read" /\ alive' /\ hits'[c] = {} /\ ids'[c] = found
      BY <1>6, <2>2 DEF IInv, TypeOK, Goto, NoHitsYet, handle_list_ids, At
    <3> QED
      BY <2>2, <3>1 DEF Held
  <2> QED
    BY <1>6, <2>1, <2>2 DEF handle_list_ids
<1>7. CASE \E i \in Id : handle_list_read(c, i)
  <2>1. PICK i \in Id : handle_list_read(c, i)
    BY <1>7
  <2> DEFINE found == hits[c] \cup
               (IF matches(r, read_entity(data_, e, i)) THEN {i} ELSE {})
  <2>2. /\ ids[c] \subseteq list_entity_ids(data_, e) /\ i \in ids[c]
        /\ hits[c] = {k \in list_entity_ids(data_, e) \ ids[c] :
                        matches(r, data_[e][k])}
    BY <2>1 DEF Held, handle_list_read, At
  <2>3. entity_exists(data_, e, i)
    BY <2>2 DEF list_entity_ids, entity_exists
  <2>4. CASE Return(c, Listing(found))
    BY <2>4, ReturnHeld
  <2>5. CASE /\ ids' = [ids EXCEPT ![c] = @ \ {i}]
             /\ hits' = [hits EXCEPT ![c] = found]
             /\ Goto(c, "list_read")
             /\ UNCHANGED <<data_, req, new_id>>
    <3>1. pc'[c] = "list_read" /\ alive' /\ hits'[c] = found /\ ids'[c] = ids[c] \ {i}
      BY <2>5 DEF IInv, TypeOK, Goto
    <3>2. found = {k \in list_entity_ids(data_, e) \ ids'[c] :
                     matches(r, data_[e][k])}
      BY <2>2, <3>1 DEF read_entity
    <3> QED
      BY <2>2, <2>5, <3>1, <3>2 DEF Held
  <2> QED
    BY <2>1, <2>3, <2>4, <2>5 DEF handle_list_read
<1> QED
  BY <1>1, <1>2, <1>3, <1>4, <1>5, <1>6, <1>7 DEF Step

(* A new request finds nothing yet, and changes nothing for the others. *)
LEMMA ReceiveHeld ==
  ASSUME IInv, NoHitsYet, NEW c \in Client, NEW r \in Requests[c], Receive(c, r)
  PROVE  NoHitsYet' /\ \A d \in Client : (Held(d) => Held(d)')
<1>1. ASSUME NEW d \in Client
      PROVE (Held(d) => Held(d)') /\ (pc'[d] # "list_read" => hits'[d] = {})
  BY DEF IInv, TypeOK, NoHitsYet, Held, Receive, Goto, At
<1> QED
  BY <1>1 DEF NoHitsYet

(* Threads whose requests do not conflict do each other no harm. *)
LEMMA ConflictFreeHarmless ==
  ASSUME ConflictFree, IInv, HInv, NEW c \in Client, NEW d \in Client, c # d
  PROVE  Harmless(d, c)
<1>1. ASSUME NEW x \in Client, pc[x] \in Relying
      PROVE  req[x] \in Requests[x] /\ Serves(pc[x], req[x])
  BY <1>1 DEF IInv, LocalsOK, Relying
<1>2. pc[c] \in Relying /\ pc[d] \in Relying
        => ~Conflict(req[c], req[d]) /\ ~Conflict(req[d], req[c])
  BY <1>1 DEF ConflictFree
<1>3. pc[d] = "put_write" => entity_exists(data_, entity(req[d]), id(req[d]))
  BY DEF HInv, Held
<1> QED
  BY <1>1, <1>2, <1>3 DEF Harmless, Conflict, Serves, Relying

LEMMA NextHInv ==
  ASSUME ConflictFree, IInv, HInv, [Next]_vars PROVE HInv'
<1>1. ASSUME NEW d \in Client, Step(d) PROVE HInv'
  <2>1. alive' /\ Held(d)'
    BY <1>1, OwnHeld DEF HInv
  <2>2. ASSUME NEW c \in Client, c # d PROVE Held(c)'
    BY <1>1, <2>2, ConflictFreeHarmless, OthersHeld DEF HInv
  <2> QED
    BY <1>1, <2>1, <2>2, StepNoHits DEF HInv
<1>2. ASSUME NEW c \in Client, NEW r \in Requests[c], Receive(c, r) PROVE HInv'
  BY <1>2, ReceiveHeld DEF HInv, Receive, Goto
<1>3. CASE UNCHANGED vars
  BY <1>3 DEF HInv, NoHitsYet, Held, vars
<1> QED
  BY <1>1, <1>2, <1>3 DEF Next

(* Clients whose requests do not conflict keep what their threads found in *)
(* the store of CrudHandler until they have acted on it.                   *)
THEOREM HeldInvariance == ASSUME ConflictFree PROVE Spec => [](IInv /\ HInv)
<1>1. Init => HInv
  BY InitHInv
<1>2. IInv /\ HInv /\ [Next]_vars => HInv'
  BY NextHInv
<1> QED
  BY <1>1, <1>2, Invariance, PTL DEF Spec

(* Without conflicting requests CrudHandler never lets an exception out:   *)
(* every read_entity finds the entity that was checked for or listed.      *)
THEOREM ConflictFreeNoException ==
  ASSUME ConflictFree PROVE Spec => []NoUncaughtException
<1>1. HInv => NoUncaughtException
  BY DEF HInv, NoUncaughtException
<1> QED
  BY <1>1, HeldInvariance, PTL

(* Without conflicting requests no POST of CrudHandler overwrites: the id  *)
(* MockFilesystem::next_entity_id chose is still free at write_entity.     *)
THEOREM ConflictFreePost ==
  ASSUME ConflictFree PROVE Spec => PostNeverOverwrites
<1>1. HInv => \A c \in Client : handle_post_write(c)
                => ~entity_exists(data_, entity(req[c]), new_id[c])
  BY DEF HInv, Held, handle_post_write, At
<1> QED
  BY <1>1, HeldInvariance, PTL DEF PostNeverOverwrites

-----------------------------------------------------------------------------
(* When next_entity_id finds no candidate, every numeral is an id in use:  *)
(* the 500 of handle_post is an overflow, never a misread id.              *)
LEMMA OverflowIsFull ==
  ASSUME IInv, NEW e \in Entity, free_ids(data_, e) = {}
  PROVE  \A i \in Numeral : entity_exists(data_, e, i)
<1> SUFFICES ASSUME NEW n \in 1..INT_MAX
             PROVE  entity_exists(data_, e, to_string[n])
  BY DEF Numeral
<1>1. PICK i \in list_entity_ids(data_, e) : stoi[i] = n
  BY DEF free_ids, used_ids
<1>2. PICK m \in 1..INT_MAX : i = to_string[m]
  BY <1>1 DEF IInv, CanonicalIds, Numeral
<1>3. m = n
  BY <1>1, <1>2, NumeralAssumption
<1> QED
  BY <1>1, <1>2, <1>3 DEF list_entity_ids, entity_exists

(* The service's vocabulary, through the INSTANCE, is the handler's. *)
LEMMA ApiVocabulary ==
  /\ Api!reset = reset
  /\ Api!Numeral = Numeral
  /\ \A r : /\ Api!entity(r) = entity(r)
            /\ Api!id(r) = id(r)
            /\ Api!BadRequest(r) <=> BadRequest(r)
            /\ Api!has_id(r.path) <=> has_id(r.path)
            /\ \A v : Api!matches(r, v) <=> matches(r, v)
  /\ \A d, e : Api!list_entity_ids(d, e) = list_entity_ids(d, e)
  /\ \A d, e, i : /\ Api!entity_exists(d, e, i) <=> entity_exists(d, e, i)
                  /\ Api!delete_entity(d, e, i) = delete_entity(d, e, i)
                  /\ \A v : Api!write_entity(d, e, i, v) = write_entity(d, e, i, v)
  /\ \A x : /\ Api!Status(x) = Status(x)
            /\ Api!Payload(x) = Payload(x)
            /\ Api!Created(x) = Created(x)
            /\ Api!Listing(x) = Listing(x)
  BY DEF Api!reset, reset, Api!Numeral, Numeral, Api!entity, entity, Api!id, id,
         Api!BadRequest, BadRequest, Api!has_id, has_id, Api!matches, matches,
         Api!parse_entity_and_id_from_path, parse_entity_and_id_from_path,
         Api!list_entity_ids, list_entity_ids, Api!entity_exists, entity_exists,
         Api!delete_entity, delete_entity, Api!write_entity, write_entity,
         Api!Status, Status, Api!Payload, Payload, Api!Created, Created,
         Api!Listing, Listing

(* A return is the service's answer. *)
LEMMA ReturnAnswers ==
  ASSUME NEW c \in Client, NEW a, Return(c, a) PROVE Api!Answer(c, a)
  BY DEF Return, Api!Answer

(* A thread that only moves on is a stutter of the service. *)
LEMMA GotoStutters ==
  ASSUME NEW c \in Client, NEW label, Goto(c, label), UNCHANGED <<data_, req>>
  PROVE  UNCHANGED Api!vars
  BY DEF Goto, Api!vars

(* Every step of a thread serves its request or is a stutter: one case per *)
(* action, the linearization point the last call on the store.             *)
LEMMA StepServes ==
  ASSUME IInv, NEW c \in Client, Held(c), Step(c)
  PROVE  (req[c] # NONE /\ Api!Serve(c, req[c])) \/ UNCHANGED Api!vars
<1> DEFINE r == req[c]
           e == entity(r)
<1>0. pc[c] # "idle"
  BY DEF Step, handle_request, handle_post_alloc, handle_post_write, Exists,
         handle_get_exists, handle_get_read, handle_put_exists, handle_put_write,
         handle_delete_exists, handle_delete_erase, handle_list_ids,
         handle_list_read, At
<1>a. r \in Request /\ r # NONE /\ Serves(pc[c], r)
  BY <1>0, RequestIsRequest, RequestsAssumption DEF IInv, LocalsOK
<1> USE ApiVocabulary
<1>1. CASE handle_request(c)
  <2>1. CASE BadRequest(r) /\ Return(c, Status(400)) /\ data_' = data_
    BY <1>a, <2>1, ReturnAnswers DEF Api!Serve, Api!Reject
  <2>2. CASE ~BadRequest(r) /\ r.method = "OTHER" /\ Return(c, Status(501)) /\ data_' = data_
    BY <1>a, <2>2, ReturnAnswers DEF Api!Serve, Api!Reject
  <2>3. CASE Goto(c, Dispatch(r)) /\ UNCHANGED <<data_, local>>
    BY <2>3, GotoStutters DEF local
  <2> QED
    BY <1>1, <2>1, <2>2, <2>3 DEF handle_request
<1>2. CASE handle_post_alloc(c)
  <2>1. /\ e \in Entity /\ ~BadRequest(r) /\ r.method = "POST"
    BY <1>2, <1>a, AtLabel DEF handle_post_alloc, Serves, At
  <2>2. CASE free_ids(data_, e) = {} /\ Return(c, Status(500)) /\ data_' = data_
    <3>1. Api!Create(c, r)
      BY <2>1, <2>2, OverflowIsFull, ReturnAnswers DEF Api!Create
    <3> QED
      BY <1>a, <2>1, <3>1 DEF Api!Serve
  <2>3. CASE Goto(c, "post_write") /\ UNCHANGED <<req, data_>>
    BY <2>3, GotoStutters
  <2> QED
    BY <1>2, <2>2, <2>3 DEF handle_post_alloc
<1>3. CASE handle_post_write(c)
  <2>1. /\ ~BadRequest(r) /\ r.method = "POST" /\ new_id[c] \in Numeral
    BY <1>3, <1>a, AtLabel DEF handle_post_write, Serves, At
  <2>2. ~entity_exists(data_, e, new_id[c])
    BY <1>3 DEF Held, handle_post_write, At
  <2>3. Api!Create(c, r)
    BY <1>3, <2>1, <2>2, ReturnAnswers DEF handle_post_write, Api!Create
  <2> QED
    BY <1>a, <2>1, <2>3 DEF Api!Serve
<1>4. CASE handle_get_exists(c) \/ handle_put_exists(c) \/ handle_delete_exists(c)
  <2>1. PICK from \in {"get_exists", "put_exists", "delete_exists"},
             to \in {"get_read", "put_write", "delete_erase"} : Exists(c, from, to)
    BY <1>4 DEF handle_get_exists, handle_put_exists, handle_delete_exists
  <2>2. CASE /\ ~entity_exists(data_, e, id(r)) /\ Return(c, Status(404))
             /\ data_' = data_
    <3>1. Api!Missing(c, r)
      BY <2>2, ReturnAnswers DEF Api!Missing
    <3>2. ~BadRequest(r) /\ has_id(r.path) /\ r.method \in {"GET", "PUT", "DELETE"}
      BY <1>a, <2>1 DEF Exists, At, Serves
    <3> QED
      BY <1>a, <3>1, <3>2 DEF Api!Serve
  <2>3. CASE Goto(c, to) /\ UNCHANGED <<data_, local>>
    BY <2>3, GotoStutters DEF local
  <2> QED
    BY <2>1, <2>2, <2>3 DEF Exists
<1>5. CASE handle_get_read(c)
  <2>1. ~BadRequest(r) /\ has_id(r.path) /\ r.method = "GET"
    BY <1>5, <1>a DEF handle_get_read, Serves, At
  <2>2. entity_exists(data_, e, id(r))
    BY <1>5 DEF Held, handle_get_read, At
  <2>3. Api!Read(c, r)
    BY <1>5, <2>2, ReturnAnswers DEF handle_get_read, Api!Read, read_entity
  <2> QED
    BY <1>a, <2>1, <2>3 DEF Api!Serve
<1>6. CASE handle_put_write(c)
  <2>1. ~BadRequest(r) /\ r.method = "PUT"
    BY <1>6, <1>a DEF handle_put_write, Serves, At
  <2>2. entity_exists(data_, e, id(r))
    BY <1>6 DEF Held, handle_put_write, At
  <2>3. Api!Update(c, r)
    BY <1>6, <2>2, ReturnAnswers DEF handle_put_write, Api!Update
  <2> QED
    BY <1>a, <2>1, <2>3 DEF Api!Serve
<1>7. CASE handle_delete_erase(c)
  <2>1. ~BadRequest(r) /\ r.method = "DELETE"
    BY <1>7, <1>a DEF handle_delete_erase, Serves, At
  <2>2. entity_exists(data_, e, id(r))
    BY <1>7 DEF Held, handle_delete_erase, At
  <2>3. Api!Delete(c, r)
    BY <1>7, <2>2, ReturnAnswers DEF handle_delete_erase, Api!Delete
  <2> QED
    BY <1>a, <2>1, <2>3 DEF Api!Serve
<1>8. CASE handle_list_ids(c)
  <2> DEFINE found == list_entity_ids(data_, e)
  <2>1. ~BadRequest(r) /\ r.method = "GET" /\ ~has_id(r.path)
    BY <1>8, <1>a DEF handle_list_ids, Serves, At
  <2>2. CASE /\ filtered(r) => found = {}
             /\ Return(c, Listing(found)) /\ data_' = data_
    <3>1. found = {i \in found : matches(r, data_[e][i])}
      BY <2>2 DEF filtered, matches
    <3>2. Api!List(c, r)
      BY <2>2, <3>1, ReturnAnswers DEF Api!List
    <3> QED
      BY <1>a, <2>1, <3>2 DEF Api!Serve
  <2>3. CASE Goto(c, "list_read") /\ UNCHANGED <<data_, req>>
    BY <2>3, GotoStutters
  <2> QED
    BY <1>8, <2>2, <2>3 DEF handle_list_ids
<1>9. CASE \E i \in Id : handle_list_read(c, i)
  <2>1. PICK i \in Id : handle_list_read(c, i)
    BY <1>9
  <2> DEFINE found == hits[c] \cup
               (IF matches(r, read_entity(data_, e, i)) THEN {i} ELSE {})
  <2>2. ~BadRequest(r) /\ r.method = "GET" /\ ~has_id(r.path)
    BY <2>1, <1>a DEF handle_list_read, Serves, At
  <2>3. /\ ids[c] \subseteq list_entity_ids(data_, e) /\ i \in ids[c]
        /\ hits[c] = {k \in list_entity_ids(data_, e) \ ids[c] :
                        matches(r, data_[e][k])}
    BY <2>1 DEF Held, handle_list_read, At
  <2>4. entity_exists(data_, e, i)
    BY <2>3 DEF list_entity_ids, entity_exists
  <2>5. CASE ids[c] = {i} /\ Return(c, Listing(found)) /\ data_' = data_
    <3>1. found = {k \in list_entity_ids(data_, e) : matches(r, data_[e][k])}
      BY <2>3, <2>5 DEF read_entity
    <3>2. Api!List(c, r)
      BY <2>5, <3>1, ReturnAnswers DEF Api!List
    <3> QED
      BY <1>a, <2>2, <3>2 DEF Api!Serve
  <2>6. CASE Goto(c, "list_read") /\ UNCHANGED <<data_, req>>
    BY <2>6, GotoStutters
  <2> QED
    BY <2>1, <2>4, <2>5, <2>6 DEF handle_list_read
<1> QED
  BY <1>1, <1>2, <1>3, <1>4, <1>5, <1>6, <1>7, <1>8, <1>9 DEF Step

(* A request that is received is one that the service is asked. *)
LEMMA ReceiveAsks ==
  ASSUME IInv, NEW c \in Client, NEW r \in Requests[c], Receive(c, r)
  PROVE  Api!Next
<1>1. Api!Ask(c, r)
  BY DEF Receive, At, Goto, IInv, LocalsOK, Api!Ask
<1> QED
  BY <1>1 DEF Api!Next

(* Clients whose requests do not conflict, a single client among them, see *)
(* the atomic service: CrudHandler, without a lock, implements CrudApi.    *)
THEOREM Linearizable == ASSUME ConflictFree PROVE Spec => RefinesApi
<1>1. Init => Api!Init
  BY ApiVocabulary DEF Init, Api!Init
<1>2. IInv /\ HInv /\ [Next]_vars => [Api!Next]_Api!vars
  <2> SUFFICES ASSUME IInv, HInv, [Next]_vars PROVE [Api!Next]_Api!vars
    OBVIOUS
  <2>1. CASE \E c \in Client : Step(c)
    BY <2>1, StepServes DEF HInv, Api!Next
  <2>2. ASSUME NEW c \in Client, NEW r \in Requests[c], Receive(c, r)
        PROVE Api!Next
    BY <2>2, ReceiveAsks
  <2>3. CASE UNCHANGED vars
    BY <2>3 DEF vars, Api!vars
  <2> QED
    BY <2>1, <2>2, <2>3 DEF Next
<1> QED
  BY <1>1, <1>2, HeldInvariance, PTL DEF Spec, RefinesApi, Api!Spec
-----------------------------------------------------------------------------
(***************************************************************************)
(* The races.  The invariant says what the history is worth: a thread that *)
(* no other has disturbed still holds what it found.  It is inductive only *)
(* for all threads at once: a PUT is harmless to a POST because the PUT is *)
(* itself undisturbed.                                                     *)
(***************************************************************************)
RInv == NoHitsYet /\ stale \in [Client -> BOOLEAN]
        /\ \A c \in Client : stale[c] \/ Held(c)

(* The history of CrudRaces only watches CrudHandler. *)
LEMMA RaceIsSpec == RaceSpec => Spec
<1>1. RaceInit => Init
  BY DEF RaceInit
<1>2. [RaceNext]_<<vars, stale>> => [Next]_vars
  BY DEF RaceNext, Next, vars
<1> QED
  BY <1>1, <1>2, PTL DEF RaceSpec, Spec

LEMMA NotDisturbing ==
  ASSUME RInv, NEW c \in Client, NEW d \in Client, c # d, ~Disturbs(d, c)
  PROVE  Harmless(d, c)
<1>1. pc[d] = "put_write" =>
        stale[d] \/ entity_exists(data_, entity(req[d]), id(req[d]))
  BY DEF RInv, Held
<1> QED
  BY <1>1 DEF Disturbs, Harmless

LEMMA NextRInv == ASSUME IInv, RInv, [RaceNext]_<<vars, stale>> PROVE RInv'
<1>1. ASSUME NEW d \in Client, Watch(d), Step(d) PROVE RInv'
  <2>1. stale' \in [Client -> BOOLEAN]
    BY <1>1 DEF Watch, RInv
  <2>2. ASSUME NEW c \in Client, ~stale'[c] PROVE Held(c)'
    <3>1. \/ pc'[c] \notin Relying
          \/ ~stale[c] /\ (data_' = data_ \/ ~Disturbs(d, c))
      BY <1>1, <2>2 DEF Watch
    <3>2. CASE pc'[c] \notin Relying
      BY <3>2 DEF Held, Relying
    <3>3. CASE ~stale[c] /\ (data_' = data_ \/ ~Disturbs(d, c)) /\ c # d
      BY <1>1, <3>3, NotDisturbing, OthersHeld DEF RInv
    <3>4. CASE ~stale[c] /\ c = d
      BY <1>1, <3>4, OwnHeld DEF RInv
    <3> QED
      BY <3>1, <3>2, <3>3, <3>4
  <2> QED
    BY <1>1, <2>1, <2>2, StepNoHits DEF RInv
<1>2. ASSUME NEW d \in Client, NEW r \in Requests[d], Receive(d, r), Watch(d)
      PROVE  RInv'
  <2>1. data_' = data_
    BY <1>2 DEF Receive
  <2>2. stale' \in [Client -> BOOLEAN]
    BY <1>2 DEF Watch, RInv
  <2>3. ASSUME NEW c \in Client, ~stale'[c] PROVE Held(c)'
    <3>1. pc'[c] \notin Relying \/ ~stale[c]
      BY <1>2, <2>3 DEF Watch
    <3>2. CASE pc'[c] \notin Relying
      BY <3>2 DEF Held, Relying
    <3>3. CASE ~stale[c]
      BY <1>2, <3>3, ReceiveHeld DEF RInv
    <3> QED
      BY <3>1, <3>2, <3>3
  <2> QED
    BY <1>2, <2>2, <2>3, ReceiveHeld DEF RInv
<1>3. CASE UNCHANGED <<vars, stale>>
  BY <1>3 DEF RInv, NoHitsYet, Held, vars
<1> QED
  BY <1>1, <1>2, <1>3 DEF RaceNext

(* A thread of CrudHandler that no other has disturbed serves its request  *)
(* as the atomic service, for any clients and any requests: every crash,   *)
(* every entity that is overwritten or comes back and every failed DELETE  *)
(* is due to a change that another thread made between two of its calls.   *)
THEOREM OnlyRacesDepart == RaceSpec => ServedUnlessDisturbed
<1> DEFINE A == \/ Api!Next /\ UNCHANGED alive
                \/ \E c \in Client : stale[c] /\ Step(c)
<1>1. RaceInit => RInv
  BY InitHInv DEF RaceInit, RInv, HInv
<1>2. RaceInit => Api!Init
  BY ApiVocabulary DEF RaceInit, Init, Api!Init
<1>3. IInv /\ RInv /\ [RaceNext]_<<vars, stale>> => RInv'
  BY NextRInv
<1>4. IInv /\ RInv /\ [RaceNext]_<<vars, stale>> => [A]_<<Api!vars, alive>>
  <2> SUFFICES ASSUME IInv, RInv, [RaceNext]_<<vars, stale>>
               PROVE  [A]_<<Api!vars, alive>>
    OBVIOUS
  <2>1. ASSUME NEW d \in Client, Step(d), ~stale[d] PROVE [A]_<<Api!vars, alive>>
    <3>1. (req[d] # NONE /\ Api!Serve(d, req[d])) \/ UNCHANGED Api!vars
      BY <2>1, StepServes DEF RInv
    <3>2. alive /\ alive'
      BY <2>1, OwnHeld, StepAlive DEF RInv
    <3>3. alive \in BOOLEAN /\ alive' \in BOOLEAN
      BY <2>1, StepIInv DEF IInv, TypeOK
    <3>4. UNCHANGED alive
      BY <3>2, <3>3
    <3> QED
      BY <3>1, <3>4 DEF Api!Next
  <2>2. ASSUME NEW d \in Client, NEW r \in Requests[d], Receive(d, r)
        PROVE  A
    BY <2>2, ReceiveAsks DEF Receive, Goto
  <2>3. CASE UNCHANGED <<vars, stale>>
    BY <2>3 DEF vars, Api!vars
  <2> QED
    BY <2>1, <2>2, <2>3 DEF RaceNext
<1> QED
  BY <1>1, <1>2, <1>3, <1>4, RaceIsSpec, Invariance, PTL
  DEF RaceSpec, ServedUnlessDisturbed
=============================================================================
