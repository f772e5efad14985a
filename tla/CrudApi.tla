------------------------------- MODULE CrudApi -------------------------------
(***************************************************************************)
(* What the CRUD service promises (README.md, "CRUD API Handler"): every   *)
(* request is served at one instant between the moment it is received and  *)
(* the moment it is answered.  A created entity gets an id that no stored  *)
(* entity of its type has; which one is left open.                         *)
(***************************************************************************)
EXTENDS CrudRequest

VARIABLES
  store,   \* the entities
  ask,     \* ask[c]: the request client c waits for, NONE if none
  answer   \* answer[c]: the last response client c got, NONE at first

vars == <<store, ask, answer>>

Init ==
  /\ store = reset
  /\ ask = [c \in Client |-> NONE]
  /\ answer = [c \in Client |-> NONE]

Ask(c, r) ==
  /\ ask[c] = NONE
  /\ ask' = [ask EXCEPT ![c] = r]
  /\ UNCHANGED <<store, answer>>

Answer(c, a) ==
  /\ ask' = [ask EXCEPT ![c] = NONE]
  /\ answer' = [answer EXCEPT ![c] = a]

Reject(c, r) ==
  /\ \/ BadRequest(r) /\ Answer(c, Status(400))
     \/ ~BadRequest(r) /\ r.method = "OTHER" /\ Answer(c, Status(501))
  /\ UNCHANGED store

Create(c, r) ==
  LET e == entity(r) IN
  \/ \E i \in Numeral :
       /\ ~entity_exists(store, e, i)
       /\ store' = write_entity(store, e, i, r.body)
       /\ Answer(c, Created(i))
  \/ /\ \A i \in Numeral : entity_exists(store, e, i)
     /\ Answer(c, Status(500))
     /\ UNCHANGED store

Missing(c, r) ==
  /\ ~entity_exists(store, entity(r), id(r))
  /\ Answer(c, Status(404))
  /\ UNCHANGED store

Read(c, r) ==
  /\ entity_exists(store, entity(r), id(r))
  /\ Answer(c, Payload(store[entity(r)][id(r)]))
  /\ UNCHANGED store

Update(c, r) ==
  /\ entity_exists(store, entity(r), id(r))
  /\ store' = write_entity(store, entity(r), id(r), r.body)
  /\ Answer(c, Payload(r.body))

Delete(c, r) ==
  /\ entity_exists(store, entity(r), id(r))
  /\ store' = delete_entity(store, entity(r), id(r))
  /\ Answer(c, Status(200))

List(c, r) ==
  /\ Answer(c, Listing({i \in list_entity_ids(store, entity(r)) :
                          matches(r, store[entity(r)][i])}))
  /\ UNCHANGED store

Serve(c, r) ==
  \/ Reject(c, r)
  \/ /\ ~BadRequest(r)
     /\ \/ r.method = "POST" /\ Create(c, r)
        \/ r.method = "GET" /\ has_id(r.path) /\ (Missing(c, r) \/ Read(c, r))
        \/ r.method = "GET" /\ ~has_id(r.path) /\ List(c, r)
        \/ r.method = "PUT" /\ (Missing(c, r) \/ Update(c, r))
        \/ r.method = "DELETE" /\ (Missing(c, r) \/ Delete(c, r))

Next ==
  \E c \in Client :
    \/ \E r \in Requests[c] : Ask(c, r)
    \/ ask[c] # NONE /\ Serve(c, ask[c])

Spec == Init /\ [][Next]_vars
=============================================================================
