------------------------------- MODULE Server -------------------------------
(***************************************************************************)
(* The accept loop of src/src/server.cc, the io_service with its queue of  *)
(* completion handlers, and the threads of server_main.cc that run them.   *)
(* A handler may block: SleepHandler keeps its thread for seconds.         *)
(*                                                                         *)
(* A session is reduced to its chain of operations, one at a time, each    *)
(* started by the completion of the one before; module Session has the     *)
(* rest.  A request comes in one read.                                     *)
(***************************************************************************)
EXTENDS Integers, Sequences, FiniteSets

CONSTANTS
  Thread,       \* the threads of thread_pool
  Client,
  Sleeper,      \* the clients whose requests are routed to SleepHandler
  MaxErrors,    \* bound: failures of async_accept
  NONE

ASSUME ServerAssumption ==
  /\ IsFiniteSet(Thread) /\ Thread # {} /\ IsFiniteSet(Client)
  /\ Sleeper \subseteq Client /\ NONE \notin Client
  /\ MaxErrors \in Nat

VARIABLES
  backlog,    \* connections that wait in the kernel
  gone,       \* clients that have closed their connection
  waiting,    \* clients that have sent a request and not had the answer
  accepting,  \* outstanding async_accept
  errors,     \* failures of async_accept so far
  op,         \* op[c]: the outstanding operation of c's session
  ready,      \* the queue of the io_service: completion handlers to run
  pc,         \* pc[t]: what thread t is about to do
  session     \* session[t]: whose session it does it for

clients == <<backlog, gone, waiting>>
vars == <<clients, accepting, errors, op, ready, pc, session>>

(* A completion handler: whose session, and what it begins with, which is  *)
(* handle_accept without and with an error, handle_read, handle_write, or  *)
(* either of these with an error.                                          *)
Handler ==
  [h : {"start", "handle", "rearm", "leave"}, c : Client]
  \cup [h : {"again"}, c : {NONE}]

Label == {"idle", "start", "again", "handle", "asleep", "write", "late", "rearm", "leave"}

(* The constructor of Server calls start_accept before a thread runs. *)
Init ==
  /\ backlog = <<>> /\ gone = {} /\ waiting = {}
  /\ accepting = 1 /\ errors = 0
  /\ op = [c \in Client |-> "new"]
  /\ ready = <<>>
  /\ pc = [t \in Thread |-> "idle"]
  /\ session = [t \in Thread |-> NONE]
-----------------------------------------------------------------------------
(* The clients.  A client has one connection and sends its next request    *)
(* when it has the answer to the last.  It may leave at any time.          *)

Connect(c) ==
  /\ op[c] = "new"
  /\ op' = [op EXCEPT ![c] = "none"]
  /\ backlog' = Append(backlog, c)
  /\ UNCHANGED <<gone, waiting, accepting, errors, ready, pc, session>>

Ask(c) ==
  /\ op[c] # "new" /\ c \notin gone \cup waiting
  /\ waiting' = waiting \cup {c}
  /\ UNCHANGED <<backlog, gone, accepting, errors, op, ready, pc, session>>

Leave(c) ==
  /\ op[c] # "new" /\ c \notin gone
  /\ gone' = gone \cup {c}
  /\ UNCHANGED <<backlog, waiting, accepting, errors, op, ready, pc, session>>
-----------------------------------------------------------------------------
(* The io_service puts the handler of a completed operation at the end of  *)
(* its queue; a thread in run() that has nothing to do takes the first.    *)

Post(h, c) == ready' = Append(ready, [h |-> h, c |-> c])

AcceptComplete ==
  /\ accepting > 0 /\ backlog # <<>>
  /\ accepting' = accepting - 1
  /\ Post("start", Head(backlog))
  /\ backlog' = Tail(backlog)
  /\ UNCHANGED <<gone, waiting, errors, op, pc, session>>

(* Mutant: the error code is not looked at. *)
AcceptError_ignored ==
  /\ accepting > 0 /\ errors < MaxErrors
  /\ accepting' = accepting - 1
  /\ errors' = errors + 1
  /\ Post("start", NONE)
  /\ UNCHANGED <<clients, op, pc, session>>

(* Too many open files, say: the connection stays in the backlog.          *)
(* handle_accept does not start the session it was given then.             *)
AcceptError ==
  /\ accepting > 0 /\ errors < MaxErrors
  /\ accepting' = accepting - 1
  /\ errors' = errors + 1
  /\ Post("again", NONE)
  /\ UNCHANGED <<clients, op, pc, session>>

ReadComplete(c) ==
  /\ op[c] = "read"
  /\ \/ c \in waiting /\ Post("handle", c)
     \/ c \in gone /\ Post("leave", c)
  /\ op' = [op EXCEPT ![c] = "none"]
  /\ UNCHANGED <<clients, accepting, errors, pc, session>>

WriteComplete(c) ==
  /\ op[c] = "write"
  /\ \/ /\ c \notin gone
        /\ waiting' = waiting \ {c}
        /\ Post("rearm", c)
     \/ c \in gone /\ Post("leave", c) /\ UNCHANGED waiting
  /\ op' = [op EXCEPT ![c] = "none"]
  /\ UNCHANGED <<backlog, gone, accepting, errors, pc, session>>

Complete ==
  AcceptComplete \/ AcceptError \/ \E c \in Client : ReadComplete(c) \/ WriteComplete(c)

run(t) ==
  /\ pc[t] = "idle" /\ ready # <<>>
  /\ pc' = [pc EXCEPT ![t] = Head(ready).h]
  /\ session' = [session EXCEPT ![t] = Head(ready).c]
  /\ ready' = Tail(ready)
  /\ UNCHANGED <<clients, accepting, errors, op>>
-----------------------------------------------------------------------------
(* The completion handlers. *)

At(t, label) == pc[t] = label

Goto(t, label) == pc' = [pc EXCEPT ![t] = label]

Return(t) == Goto(t, "idle") /\ session' = [session EXCEPT ![t] = NONE]

(* async_read_some and async_write of the session. *)
Begin(c, o) == op' = [op EXCEPT ![c] = o]

(* handle_accept without an error: new_session->start() ...                *)
handle_accept_start(t) ==
  /\ At(t, "start")
  /\ Begin(session[t], "read")
  /\ Goto(t, "again")
  /\ UNCHANGED <<clients, accepting, errors, ready, session>>

(* Mutant: it returns after an error. *)
start_accept_unless_error(t) ==
  /\ At(t, "again")
  /\ accepting' = IF session[t] = NONE THEN accepting ELSE accepting + 1
  /\ Return(t)
  /\ UNCHANGED <<clients, errors, op, ready>>

(* ... and, after an error too, start_accept(). *)
start_accept(t) ==
  /\ At(t, "again")
  /\ accepting' = accepting + 1
  /\ Return(t)
  /\ UNCHANGED <<clients, errors, op, ready>>

(* Mutant: the next read is started before the request is handled. *)
handle_read_rearms(t) ==
  /\ At(t, "handle")
  /\ Goto(t, IF session[t] \in Sleeper THEN "asleep" ELSE "write")
  /\ Begin(session[t], "read")
  /\ UNCHANGED <<clients, accepting, errors, ready, session>>

(* handle_read up to the handler.  SleepHandler blocks the thread. *)
handle_read(t) ==
  /\ At(t, "handle")
  /\ Goto(t, IF session[t] \in Sleeper THEN "asleep" ELSE "write")
  /\ UNCHANGED <<clients, accepting, errors, op, ready, session>>

(* this_thread::sleep_for is over. *)
sleep_for(t) ==
  /\ At(t, "asleep")
  /\ Goto(t, "write")
  /\ UNCHANGED <<clients, accepting, errors, op, ready, session>>

(* handle_read starts the write and has some lines left to run. *)
handle_read_write(t) ==
  /\ At(t, "write")
  /\ Begin(session[t], "write")
  /\ Goto(t, "late")
  /\ UNCHANGED <<clients, accepting, errors, ready, session>>

(* The end of handle_read; handle_read or handle_write with an error. *)
handle_read_return(t) ==
  /\ pc[t] \in {"late", "leave"}
  /\ Return(t)
  /\ UNCHANGED <<clients, accepting, errors, op, ready>>

(* Mutant: one request per connection, the read is not armed again. *)
handle_write_once(t) ==
  /\ At(t, "rearm")
  /\ Return(t)
  /\ UNCHANGED <<clients, accepting, errors, op, ready>>

handle_write(t) ==
  /\ At(t, "rearm")
  /\ Begin(session[t], "read")
  /\ Return(t)
  /\ UNCHANGED <<clients, accepting, errors, ready>>

Step(t) ==
  \/ handle_accept_start(t) \/ start_accept(t) \/ handle_read(t) \/ sleep_for(t)
  \/ handle_read_write(t) \/ handle_read_return(t) \/ handle_write(t)

Next ==
  \/ \E c \in Client : Connect(c) \/ Ask(c) \/ Leave(c)
  \/ Complete
  \/ \E t \in Thread : run(t) \/ Step(t)

Spec == Init /\ [][Next]_vars

(* A thread goes on with what it does, and a sleep ends.  The threads in   *)
(* run() notice what has completed, and one of them that waits is woken    *)
(* for a handler in the queue.  Clients owe nothing.                       *)
FairSpec ==
  /\ Spec
  /\ \A t \in Thread : WF_vars(Step(t))
  /\ WF_vars(\E t \in Thread : run(t))
  /\ WF_vars(AcceptComplete)
  /\ \A c \in Client : WF_vars(ReadComplete(c)) /\ WF_vars(WriteComplete(c))
-----------------------------------------------------------------------------
(* Type invariant of the loop, the queue and the pool: no handler runs for *)
(* a session that was not accepted.                                        *)
TypeOK ==
  /\ backlog \in Seq(Client) /\ gone \subseteq Client /\ waiting \subseteq Client
  /\ accepting \in Nat /\ errors \in 0..MaxErrors
  /\ op \in [Client -> {"new", "none", "read", "write"}]
  /\ ready \in Seq(Handler)
  /\ pc \in [Thread -> Label]
  /\ session \in [Thread -> Client \cup {NONE}]
  /\ \A t \in Thread : pc[t] \notin {"idle", "again"} => session[t] # NONE

(* Queue entries and threads with the accept loop in hand. *)
QueuedAccepts == {i \in DOMAIN ready : ready[i].h \in {"start", "again"}}
RunningAccepts == {t \in Thread : pc[t] \in {"start", "again"}}

(* The server is always about to accept, once: an async_accept is          *)
(* outstanding, or its handler is queued, or one thread runs the handler   *)
(* and has still to call start_accept, and never two of these, whether     *)
(* accepts succeed or fail and however many threads there are.             *)
OneAccept ==
  /\ accepting \in {0, 1}
  /\ accepting = 1 <=> QueuedAccepts = {} /\ RunningAccepts = {}
  /\ QueuedAccepts = {} \/ RunningAccepts = {}
  /\ \A i, j \in QueuedAccepts : i = j
  /\ \A t, u \in RunningAccepts : t = u

Asleep == {t \in Thread : pc[t] = "asleep"}

(* One connection blocks at most one thread, though two may run handlers   *)
(* of its session: a request is not handled before the one before it has   *)
(* been answered.                                                          *)
OneSleepEach == \A t, u \in Asleep : session[t] = session[u] => t = u

(* There is a thread that is not blocked in a handler, to run what others  *)
(* need ("without blocking other requests", README.md).                    *)
SomeoneAwake == Asleep # Thread

(* Whoever connects is accepted in the end, whatever errors async_accept   *)
(* has met before and however many of the others' requests sleep: every    *)
(* handle_accept, a failed one too, ends in start_accept.                  *)
Accepted == \A c \in Client :
  (\E i \in DOMAIN backlog : backlog[i] = c) ~> (op[c] = "read")

(* Whoever asks is answered, or has left, for the first request of a       *)
(* connection and for every later one: handle_write arms the next read     *)
(* after each answer, and no mix of sleeping handlers, failed accepts and  *)
(* clients that leave takes a session off its chain of operations.         *)
Served == \A c \in Client : c \in waiting ~> (c \notin waiting \/ c \in gone)
=============================================================================
