------------------------------ MODULE CrudRaces ------------------------------
(***************************************************************************)
(* CrudHandler with the history of its races: for each thread, whether     *)
(* another one has changed, between two of its calls on the store of       *)
(* src/src/mock_filesystem.cc, what it learned from the first.  The        *)
(* history only watches: without it, the behaviours are CrudHandler's.     *)
(***************************************************************************)
EXTENDS CrudHandler

VARIABLE stale   \* stale[c]: what the thread of client c found has changed

(* The labels at which a handler relies on what an earlier call told it:   *)
(* that an id is free, that an entity exists, or which entities there are. *)
Relying == {"post_write", "get_read", "put_write", "delete_erase", "list_read"}

(* The call that thread d makes next bears on what c relies on.  A POST is *)
(* disturbed by another POST, and by a PUT of an entity that has gone; a   *)
(* PUT of one that is there takes no id.                                   *)
Disturbs(d, c) ==
  /\ c # d /\ entity(req[c]) = entity(req[d])
  /\ \/ /\ pc[c] = "post_write"
        /\ pc[d] = "post_write" \/ (pc[d] = "put_write" /\ stale[d])
     \/ /\ pc[c] \in {"get_read", "put_write", "delete_erase"}
        /\ pc[d] = "delete_erase" /\ id(req[c]) = id(req[d])
     \/ /\ pc[c] = "list_read"
        /\ pc[d] \in {"post_write", "put_write", "delete_erase"}

Watch(d) ==
  stale' = [c \in Client |->
    pc'[c] \in Relying /\ (stale[c] \/ (data_' # data_ /\ Disturbs(d, c)))]

RaceInit == Init /\ stale = [c \in Client |-> FALSE]

RaceNext ==
  \E d \in Client : /\ Step(d) \/ \E r \in Requests[d] : Receive(d, r)
                    /\ Watch(d)

RaceSpec == RaceInit /\ [][RaceNext]_<<vars, stale>>

(* A worker thread that has started a handler keeps running it: nothing in *)
(* it blocks.  Clients owe nothing.                                        *)
RaceFairSpec == RaceSpec /\ \A d \in Client : WF_<<vars, stale>>(Step(d) /\ Watch(d))
-----------------------------------------------------------------------------
(* Whatever the clients ask at the same time, CrudHandler departs from the *)
(* atomic service of CrudApi only in the step of a thread whose finding    *)
(* another one has changed: without a lock, a GET or a filtered LIST ends  *)
(* the process, a PUT brings an entity back and a DELETE answers 500 only  *)
(* if a DELETE of that entity (for the LIST, any change of the type) took  *)
(* effect since the check, and a POST overwrites only if another POST, or  *)
(* a PUT that itself was too late, did.  Everything else is served as if   *)
(* alone.                                                                  *)
ServedUnlessDisturbed ==
  /\ Api!Init
  /\ [][\/ Api!Next /\ UNCHANGED alive
        \/ \E c \in Client : stale[c] /\ Step(c)]_<<Api!vars, alive>>
=============================================================================
