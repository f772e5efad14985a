---------------------------- MODULE ServerProofs ----------------------------
(***************************************************************************)
(* Proofs about Server, for any number of threads, clients and errors.     *)
(***************************************************************************)
EXTENDS Server, FiniteSetTheorems, TLAPS

(* What the functions of the standard library do to a queue, by places. *)
LEMMA AppendPlaces ==
  ASSUME NEW S, NEW s \in Seq(S), NEW e \in S
  PROVE  /\ Append(s, e) \in Seq(S)
         /\ Len(s) \in Nat
         /\ DOMAIN s = 1..Len(s)
         /\ DOMAIN Append(s, e) = 1..(Len(s) + 1)
         /\ Append(s, e)[Len(s) + 1] = e
         /\ \A i \in 1..Len(s) : Append(s, e)[i] = s[i]
  OBVIOUS

LEMMA TailPlaces ==
  ASSUME NEW S, NEW s \in Seq(S), s # <<>>
  PROVE  /\ Tail(s) \in Seq(S)
         /\ Head(s) \in S
         /\ Len(s) \in Nat /\ Len(s) >= 1
         /\ DOMAIN s = 1..Len(s)
         /\ Head(s) = s[1]
         /\ DOMAIN Tail(s) = 1..(Len(s) - 1)
         /\ \A i \in 1..(Len(s) - 1) : Tail(s)[i] = s[i + 1]
  OBVIOUS
-----------------------------------------------------------------------------
(* Post keeps the queue a queue of handlers. *)
LEMMA PostType ==
  ASSUME TypeOK, NEW h, NEW c, [h |-> h, c |-> c] \in Handler, Post(h, c)
  PROVE  ready' \in Seq(Handler)
  BY AppendPlaces DEF TypeOK, Post

(* The handlers that there are. *)
LEMMA Handlers ==
  /\ \A c \in Client, h \in {"start", "handle", "rearm", "leave"} : [h |-> h, c |-> c] \in Handler
  /\ [h |-> "again", c |-> NONE] \in Handler
  BY DEF Handler

LEMMA TypeInit == ASSUME Init PROVE TypeOK
  BY ServerAssumption DEF Init, TypeOK, Label

LEMMA TypeStep == ASSUME TypeOK, [Next]_vars PROVE TypeOK'
<1> USE ServerAssumption DEF TypeOK, Label
<1>1. CASE UNCHANGED vars
  BY <1>1 DEF vars, clients
<1>2. ASSUME NEW c \in Client, Connect(c) PROVE TypeOK'
  BY <1>2 DEF Connect
<1>3. ASSUME NEW c \in Client, Ask(c) PROVE TypeOK'
  BY <1>3 DEF Ask
<1>4. ASSUME NEW c \in Client, Leave(c) PROVE TypeOK'
  BY <1>4 DEF Leave
<1>5. CASE AcceptComplete
  <2>1. Head(backlog) \in Client /\ Tail(backlog) \in Seq(Client)
    BY <1>5, TailPlaces DEF AcceptComplete
  <2>2. ready' \in Seq(Handler)
    BY <1>5, <2>1, PostType, Handlers DEF AcceptComplete
  <2> QED
    BY <1>5, <2>1, <2>2 DEF AcceptComplete
<1>6. CASE AcceptError
  <2>1. ready' \in Seq(Handler)
    BY <1>6, PostType, Handlers DEF AcceptError
  <2> QED
    BY <1>6, <2>1 DEF AcceptError, clients
<1>7. ASSUME NEW c \in Client, ReadComplete(c) PROVE TypeOK'
  <2>1. ready' \in Seq(Handler)
    BY <1>7, PostType, Handlers DEF ReadComplete
  <2> QED
    BY <1>7, <2>1 DEF ReadComplete, clients
<1>8. ASSUME NEW c \in Client, WriteComplete(c) PROVE TypeOK'
  <2>1. ready' \in Seq(Handler)
    BY <1>8, PostType, Handlers DEF WriteComplete
  <2> QED
    BY <1>8, <2>1 DEF WriteComplete
<1>9. ASSUME NEW t \in Thread, run(t) PROVE TypeOK'
  <2>1. Head(ready) \in Handler /\ Tail(ready) \in Seq(Handler)
    BY <1>9, TailPlaces DEF run
  <2>2. /\ Head(ready).h \in {"start", "handle", "rearm", "leave", "again"}
        /\ Head(ready).c \in Client \cup {NONE}
        /\ Head(ready).h # "again" => Head(ready).c # NONE
    BY <2>1 DEF Handler
  <2> QED
    BY <1>9, <2>1, <2>2 DEF run, clients
<1>10. ASSUME NEW t \in Thread, Step(t) PROVE TypeOK'
  <2>1. CASE handle_accept_start(t)
    BY <2>1 DEF handle_accept_start, At, Goto, Begin, clients
  <2>2. CASE start_accept(t)
    BY <2>2 DEF start_accept, At, Goto, Return, clients
  <2>3. CASE handle_read(t)
    BY <2>3 DEF handle_read, At, Goto, clients
  <2>4. CASE sleep_for(t)
    BY <2>4 DEF sleep_for, At, Goto, clients
  <2>5. CASE handle_read_write(t)
    BY <2>5 DEF handle_read_write, At, Goto, Begin, clients
  <2>6. CASE handle_read_return(t)
    BY <2>6 DEF handle_read_return, Goto, Return, clients
  <2>7. CASE handle_write(t)
    BY <2>7 DEF handle_write, At, Goto, Begin, Return, clients
  <2> QED
    BY <1>10, <2>1, <2>2, <2>3, <2>4, <2>5, <2>6, <2>7 DEF Step
<1> QED
  BY <1>1, <1>2, <1>3, <1>4, <1>5, <1>6, <1>7, <1>8, <1>9, <1>10 DEF Next, Complete

(* The queue, the pool and the accept loop keep their types, and no        *)
(* handler of server.cc or session.cc runs for a session that handle_accept *)
(* was not given.                                                          *)
THEOREM TypeCorrectness == Spec => []TypeOK
  BY TypeInit, TypeStep, PTL DEF Spec
-----------------------------------------------------------------------------
AcceptHandler == {"start", "again"}

(* What Post does to the handlers of accepts in the queue. *)
LEMMA PostAccepts ==
  ASSUME TypeOK, NEW h, NEW c, [h |-> h, c |-> c] \in Handler, Post(h, c)
  PROVE  QueuedAccepts' = IF h \in AcceptHandler THEN QueuedAccepts \cup {Len(ready) + 1}
                          ELSE QueuedAccepts
<1>1. ready \in Seq(Handler) /\ ready' = Append(ready, [h |-> h, c |-> c])
  BY DEF TypeOK, Post
<1>2. /\ Len(ready) \in Nat /\ DOMAIN ready = 1..Len(ready)
      /\ DOMAIN ready' = 1..(Len(ready) + 1)
      /\ ready'[Len(ready) + 1].h = h
      /\ \A i \in 1..Len(ready) : ready'[i] = ready[i]
  BY <1>1, AppendPlaces
<1> QED
  BY <1>2 DEF QueuedAccepts, AcceptHandler

(* What run does to the accepts in the queue and in the pool. *)
LEMMA RunAccepts ==
  ASSUME TypeOK, OneAccept, NEW t \in Thread, run(t)
  PROVE  OneAccept'
<1>1. ready \in Seq(Handler) /\ ready # <<>> /\ ready' = Tail(ready) /\ accepting' = accepting
  BY DEF TypeOK, run
<1>2. /\ Len(ready) \in Nat /\ Len(ready) >= 1 /\ DOMAIN ready = 1..Len(ready)
      /\ Head(ready) = ready[1]
      /\ DOMAIN ready' = 1..(Len(ready) - 1)
      /\ \A i \in 1..(Len(ready) - 1) : ready'[i] = ready[i + 1]
  BY <1>1, TailPlaces
<1>3. \A i \in DOMAIN ready' : i \in QueuedAccepts' <=> i + 1 \in QueuedAccepts
  BY <1>2 DEF QueuedAccepts
<1>4. pc[t] = "idle" /\ pc' = [pc EXCEPT ![t] = ready[1].h]
  BY <1>2 DEF run
<1>5. CASE ready[1].h \in AcceptHandler
  <2>1. 1 \in QueuedAccepts
    BY <1>2, <1>5 DEF QueuedAccepts, AcceptHandler
  <2>2. accepting = 0 /\ RunningAccepts = {} /\ \A i \in QueuedAccepts : i = 1
    BY <2>1 DEF OneAccept
  <2>3. QueuedAccepts' = {}
    BY <1>2, <1>3, <2>2 DEF QueuedAccepts
  <2>4. RunningAccepts' = {t}
    BY <1>4, <1>5, <2>2 DEF RunningAccepts, AcceptHandler, TypeOK
  <2> QED
    BY <1>1, <2>2, <2>3, <2>4 DEF OneAccept
<1>6. CASE ready[1].h \notin AcceptHandler
  <2>1. RunningAccepts' = RunningAccepts
    BY <1>4, <1>6 DEF RunningAccepts, AcceptHandler, TypeOK
  <2>2. 1 \notin QueuedAccepts
    BY <1>6 DEF QueuedAccepts, AcceptHandler
  <2>3. \A i \in QueuedAccepts : i \in Int /\ i - 1 \in QueuedAccepts'
    <3> SUFFICES ASSUME NEW i \in QueuedAccepts PROVE i \in Int /\ i - 1 \in QueuedAccepts'
      OBVIOUS
    <3>1. i \in 2..Len(ready) /\ ready[i].h \in AcceptHandler
      BY <1>2, <2>2 DEF QueuedAccepts, AcceptHandler
    <3>2. i - 1 \in DOMAIN ready' /\ ready'[i - 1] = ready[i]
      BY <1>2, <3>1
    <3> QED
      BY <3>1, <3>2 DEF QueuedAccepts, AcceptHandler
  <2>4. \A i \in QueuedAccepts' : i \in Int /\ i + 1 \in QueuedAccepts
    BY <1>2, <1>3 DEF QueuedAccepts
  <2>5. QueuedAccepts' = {} <=> QueuedAccepts = {}
    BY <2>3, <2>4
  <2>6. ASSUME NEW i \in QueuedAccepts', NEW j \in QueuedAccepts' PROVE i = j
    <3>1. i + 1 = j + 1
      BY <2>4 DEF OneAccept
    <3> QED
      BY <2>4, <3>1
  <2> QED
    BY <1>1, <2>1, <2>5, <2>6 DEF OneAccept
<1> QED
  BY <1>5, <1>6

(* A step that changes neither the outstanding accepts nor who has the     *)
(* loop in hand.                                                           *)
LEMMA AcceptUnchanged ==
  ASSUME OneAccept, accepting' = accepting, QueuedAccepts' = QueuedAccepts,
         RunningAccepts' = RunningAccepts
  PROVE  OneAccept'
  BY DEF OneAccept

LEMMA AcceptStep == ASSUME TypeOK, OneAccept, [Next]_vars PROVE OneAccept'
<1>1. CASE UNCHANGED vars
  BY <1>1 DEF vars, OneAccept, QueuedAccepts, RunningAccepts
<1>2. ASSUME NEW c \in Client, Connect(c) \/ Ask(c) \/ Leave(c) PROVE OneAccept'
  BY <1>2 DEF Connect, Ask, Leave, OneAccept, QueuedAccepts, RunningAccepts
<1>3. CASE AcceptComplete \/ AcceptError
  <2>1. accepting = 1 /\ accepting' = 0 /\ pc' = pc
    BY <1>3 DEF AcceptComplete, AcceptError, OneAccept
  <2>2. QueuedAccepts = {} /\ RunningAccepts = {} /\ RunningAccepts' = {}
    BY <2>1 DEF OneAccept, RunningAccepts
  <2>3. CASE AcceptComplete
    <3>1. Head(backlog) \in Client
      BY <2>3, TailPlaces DEF AcceptComplete, TypeOK
    <3>2. QueuedAccepts' = {Len(ready) + 1}
      BY <2>2, <2>3, <3>1, Handlers, PostAccepts DEF AcceptComplete, AcceptHandler
    <3> QED
      BY <2>1, <2>2, <3>2 DEF OneAccept
  <2>4. CASE AcceptError
    <3>1. QueuedAccepts' = {Len(ready) + 1}
      BY <2>2, <2>4, Handlers, PostAccepts DEF AcceptError, AcceptHandler
    <3> QED
      BY <2>1, <2>2, <3>1 DEF OneAccept
  <2> QED
    BY <1>3, <2>3, <2>4
<1>4. ASSUME NEW c \in Client, ReadComplete(c) \/ WriteComplete(c) PROVE OneAccept'
  <2>1. accepting' = accepting /\ RunningAccepts' = RunningAccepts
    BY <1>4 DEF ReadComplete, WriteComplete, RunningAccepts
  <2>2. PICK h \in {"handle", "rearm", "leave"} : Post(h, c)
    BY <1>4 DEF ReadComplete, WriteComplete
  <2>3. QueuedAccepts' = QueuedAccepts
    BY <2>2, Handlers, PostAccepts DEF AcceptHandler
  <2> QED
    BY <2>1, <2>3, AcceptUnchanged
<1>5. ASSUME NEW t \in Thread, run(t) PROVE OneAccept'
  BY <1>5, RunAccepts
<1>6. ASSUME NEW t \in Thread, handle_accept_start(t) PROVE OneAccept'
  <2>1. accepting' = accepting /\ QueuedAccepts' = QueuedAccepts
    BY <1>6 DEF handle_accept_start, QueuedAccepts
  <2>2. RunningAccepts' = RunningAccepts
    BY <1>6 DEF handle_accept_start, At, Goto, RunningAccepts, TypeOK
  <2> QED
    BY <2>1, <2>2, AcceptUnchanged
<1>7. ASSUME NEW t \in Thread, start_accept(t) PROVE OneAccept'
  <2>1. t \in RunningAccepts
    BY <1>7 DEF start_accept, At, RunningAccepts
  <2>2. accepting = 0 /\ QueuedAccepts = {} /\ RunningAccepts = {t}
    BY <2>1 DEF OneAccept
  <2>3. accepting' = 1 /\ QueuedAccepts' = {}
    BY <1>7, <2>2 DEF start_accept, QueuedAccepts
  <2>4. RunningAccepts' = {}
    BY <1>7, <2>2 DEF start_accept, At, Return, Goto, RunningAccepts, TypeOK
  <2> QED
    BY <2>3, <2>4 DEF OneAccept
<1>8. ASSUME NEW t \in Thread,
             handle_read(t) \/ sleep_for(t) \/ handle_read_write(t)
             \/ handle_read_return(t) \/ handle_write(t)
      PROVE  OneAccept'
  <2>1. accepting' = accepting /\ QueuedAccepts' = QueuedAccepts
    BY <1>8 DEF handle_read, sleep_for, handle_read_write, handle_read_return, handle_write,
                QueuedAccepts
  <2>2. /\ pc[t] \notin AcceptHandler
        /\ \E l \in Label \ AcceptHandler : pc' = [pc EXCEPT ![t] = l]
    BY <1>8 DEF handle_read, sleep_for, handle_read_write, handle_read_return, handle_write,
                At, Goto, Return, AcceptHandler, Label
  <2>3. RunningAccepts' = RunningAccepts
    BY <2>2 DEF RunningAccepts, AcceptHandler, TypeOK
  <2> QED
    BY <2>1, <2>3, AcceptUnchanged
<1> QED
  BY <1>1, <1>2, <1>3, <1>4, <1>5, <1>6, <1>7, <1>8 DEF Next, Complete, Step

(* Whatever fails and however many threads run the io_service, the server  *)
(* is about to accept exactly once: start_accept follows every             *)
(* handle_accept, and nothing else calls it.                               *)
THEOREM AlwaysAccepting == Spec => []OneAccept
<1>1. Init => OneAccept
  BY DEF Init, OneAccept, QueuedAccepts, RunningAccepts
<1> QED
  BY <1>1, AcceptStep, TypeCorrectness, PTL DEF Spec
-----------------------------------------------------------------------------
(***************************************************************************)
(* One chain of operations per session.  Its session is in one place only: *)
(* the backlog, an outstanding operation, the queue, or a thread that has  *)
(* still to start its next operation.  A thread that has done that, at     *)
(* "late" or "again", has let go of it.                                    *)
(***************************************************************************)
Busy == {"start", "handle", "asleep", "write", "rearm", "leave"}
Holding(t, c) == pc[t] \in Busy /\ session[t] = c

Nowhere(c) ==
  /\ \A i \in DOMAIN backlog : backlog[i] # c
  /\ \A i \in DOMAIN ready : ready[i].c # c
  /\ \A t \in Thread : ~Holding(t, c)

OneChain(c) ==
  /\ op[c] # "none" => Nowhere(c)
  /\ \A i, j \in DOMAIN backlog : backlog[i] = c /\ backlog[j] = c => i = j
  /\ \A i, j \in DOMAIN ready : ready[i].c = c /\ ready[j].c = c => i = j
  /\ \A t, u \in Thread : Holding(t, c) /\ Holding(u, c) => t = u
  /\ \A i \in DOMAIN backlog, j \in DOMAIN ready : ~(backlog[i] = c /\ ready[j].c = c)
  /\ \A i \in DOMAIN backlog, t \in Thread : ~(backlog[i] = c /\ Holding(t, c))
  /\ \A i \in DOMAIN ready, t \in Thread : ~(ready[i].c = c /\ Holding(t, c))

Chains == \A c \in Client : OneChain(c)

(* Only SleepHandler blocks. *)
SleepersSleep == \A t \in Asleep : session[t] \in Sleeper

(* What is in hand of c's session after a step of thread t that changes    *)
(* nothing else.                                                           *)
LEMMA ChainStep ==
  ASSUME TypeOK, Chains, NEW t \in Thread, Step(t) PROVE Chains'
<1> SUFFICES ASSUME NEW c \in Client PROVE OneChain(c)'
  BY DEF Chains
<1>0. OneChain(c) /\ backlog' = backlog /\ ready' = ready
  BY DEF Chains, Step, handle_accept_start, start_accept, handle_read, sleep_for,
         handle_read_write, handle_read_return, handle_write, clients
<1>1. \A u \in Thread : u # t => (Holding(u, c)' <=> Holding(u, c))
  BY DEF TypeOK, Step, handle_accept_start, start_accept, handle_read, sleep_for,
         handle_read_write, handle_read_return, handle_write, At, Goto, Return, Holding
<1>2. CASE Holding(t, c) /\ ~Holding(t, c)'
  <2>1. \A u \in Thread : ~Holding(u, c)'
    BY <1>0, <1>1, <1>2 DEF OneChain
  <2>2. Nowhere(c)'
    BY <1>0, <1>2, <2>1 DEF OneChain, Nowhere
  <2> QED
    BY <1>0, <2>1, <2>2 DEF OneChain, Nowhere
<1>3. CASE Holding(t, c)' <=> Holding(t, c)
  <2>1. \A u \in Thread : Holding(u, c)' <=> Holding(u, c)
    BY <1>1, <1>3
  <2>2. op'[c] = op[c]
    BY <1>3 DEF TypeOK, Step, handle_accept_start, start_accept, handle_read, sleep_for,
         handle_read_write, handle_read_return, handle_write, At, Goto, Return, Begin,
         Holding, Busy
  <2> QED
    BY <1>0, <2>1, <2>2 DEF OneChain, Nowhere
<1>4. ~(Holding(t, c)' /\ ~Holding(t, c))
  BY DEF TypeOK, Step, handle_accept_start, start_accept, handle_read, sleep_for,
         handle_read_write, handle_read_return, handle_write, At, Goto, Return, Holding, Busy
<1> QED
  BY <1>2, <1>3, <1>4

(* run moves the first handler of the queue to a thread. *)
LEMMA ChainRun ==
  ASSUME TypeOK, Chains, NEW t \in Thread, run(t) PROVE Chains'
<1> SUFFICES ASSUME NEW c \in Client PROVE OneChain(c)'
  BY DEF Chains
<1>0. OneChain(c) /\ backlog' = backlog /\ op' = op
  BY DEF Chains, run, clients
<1>1. ready \in Seq(Handler) /\ ready # <<>> /\ ready' = Tail(ready)
  BY DEF TypeOK, run
<1>2. /\ Len(ready) \in Nat /\ Len(ready) >= 1 /\ DOMAIN ready = 1..Len(ready)
      /\ Head(ready) = ready[1] /\ ready[1] \in Handler
      /\ DOMAIN ready' = 1..(Len(ready) - 1)
      /\ \A i \in 1..(Len(ready) - 1) : ready'[i] = ready[i + 1]
  BY <1>1, TailPlaces
<1>3. \A u \in Thread : Holding(u, c)' <=> Holding(u, c) \/ (u = t /\ ready[1].c = c)
  <2>1. /\ pc[t] = "idle" /\ pc' = [pc EXCEPT ![t] = ready[1].h]
        /\ session' = [session EXCEPT ![t] = ready[1].c]
    BY <1>2 DEF run
  <2>2. ready[1].c = c => ready[1].h \in Busy
    BY <1>2, ServerAssumption DEF Handler, Busy
  <2> QED
    BY <2>1, <2>2 DEF TypeOK, Holding, Busy
<1>4. \A i \in DOMAIN ready' : i + 1 \in DOMAIN ready /\ ready'[i] = ready[i + 1] /\ i + 1 # 1
  BY <1>2
<1>5. 1 \in DOMAIN ready
  BY <1>2
<1>6. \A i, j \in DOMAIN ready' : i + 1 = j + 1 => i = j
  BY <1>2
<1>7. CASE ready[1].c = c
  <2>1. \A i \in DOMAIN ready' : ready'[i].c # c
    BY <1>0, <1>4, <1>5, <1>7 DEF OneChain
  <2>2. op[c] = "none"
    BY <1>0, <1>5, <1>7 DEF OneChain, Nowhere
  <2>3. \A u \in Thread : Holding(u, c)' <=> u = t
    BY <1>0, <1>3, <1>5, <1>7 DEF OneChain
  <2>4. \A i \in DOMAIN backlog : backlog[i] # c
    BY <1>0, <1>5, <1>7 DEF OneChain
  <2> QED
    BY <1>0, <2>1, <2>2, <2>3, <2>4 DEF OneChain
<1>8. CASE ready[1].c # c
  <2>1. \A u \in Thread : Holding(u, c)' <=> Holding(u, c)
    BY <1>3, <1>8
  <2>2. \A i, j \in DOMAIN ready' : ready'[i].c = c /\ ready'[j].c = c => i = j
    BY <1>0, <1>4, <1>6 DEF OneChain
  <2>3. op[c] # "none" => Nowhere(c)'
    BY <1>0, <1>4, <2>1 DEF OneChain, Nowhere
  <2> QED
    BY <1>0, <1>4, <2>1, <2>2, <2>3 DEF OneChain
<1> QED
  BY <1>7, <1>8

(* A handler of c's session is posted when the session was nowhere. *)
LEMMA ChainPost ==
  ASSUME TypeOK, Chains, NEW c \in Client, NEW h \in {"start", "handle", "rearm", "leave"},
         Post(h, c), pc' = pc, session' = session,
         op' = [op EXCEPT ![c] = "none"],
         \A i \in DOMAIN backlog' : backlog'[i] # c,
         \A i \in DOMAIN ready : ready[i].c # c,
         \A t \in Thread : ~Holding(t, c),
         NEW n \in {0, 1},
         \A i \in DOMAIN backlog' :
           i \in Nat /\ i + n \in DOMAIN backlog /\ backlog'[i] = backlog[i + n]
  PROVE  Chains'
<1>1. ready \in Seq(Handler) /\ ready' = Append(ready, [h |-> h, c |-> c])
  BY DEF TypeOK, Post
<1>2. /\ Len(ready) \in Nat /\ DOMAIN ready = 1..Len(ready)
      /\ DOMAIN ready' = 1..(Len(ready) + 1)
      /\ ready'[Len(ready) + 1].c = c
      /\ \A i \in 1..Len(ready) : ready'[i] = ready[i]
  BY <1>1, Handlers, AppendPlaces
<1>3. \A u \in Thread, d \in Client : Holding(u, d)' <=> Holding(u, d)
  BY DEF Holding
<1>4. OneChain(c)'
  <2>1. op'[c] = "none"
    BY DEF TypeOK
  <2>2. \A i \in DOMAIN ready' : ready'[i].c = c => i = Len(ready) + 1
    BY <1>2
  <2> QED
    BY <1>3, <2>1, <2>2 DEF OneChain
<1>5. ASSUME NEW d \in Client, d # c PROVE OneChain(d)'
  <2>1. OneChain(d) /\ op'[d] = op[d]
    BY <1>5 DEF Chains, TypeOK
  <2>2. \A i \in DOMAIN ready' : ready'[i].c = d => i \in DOMAIN ready /\ ready[i].c = d
    BY <1>2, <1>5
  <2>3. \A i \in DOMAIN backlog' : i + n \in DOMAIN backlog /\ backlog'[i] = backlog[i + n]
    OBVIOUS
  <2>4. ASSUME NEW i \in DOMAIN backlog', NEW j \in DOMAIN backlog', i + n = j + n PROVE i = j
    <3>1. i \in Nat /\ j \in Nat
      OBVIOUS
    <3> QED
      BY <2>4, <3>1
  <2>5. op[d] # "none" => Nowhere(d)'
    BY <1>3, <2>1, <2>2, <2>3 DEF OneChain, Nowhere
  <2>6. \A i, j \in DOMAIN backlog' : backlog'[i] = d /\ backlog'[j] = d => i = j
    BY <2>1, <2>3, <2>4 DEF OneChain
  <2>7. \A i, j \in DOMAIN ready' : ready'[i].c = d /\ ready'[j].c = d => i = j
    BY <2>1, <2>2 DEF OneChain
  <2>8. \A i \in DOMAIN backlog', j \in DOMAIN ready' : ~(backlog'[i] = d /\ ready'[j].c = d)
    BY <2>1, <2>2, <2>3 DEF OneChain
  <2> QED
    BY <1>3, <2>1, <2>2, <2>3, <2>5, <2>6, <2>7, <2>8 DEF OneChain
<1> QED
  BY <1>4, <1>5 DEF Chains

LEMMA ChainsInvariant == ASSUME TypeOK, Chains, [Next]_vars PROVE Chains'
<1>1. CASE UNCHANGED vars
  BY <1>1 DEF vars, clients, Chains, OneChain, Nowhere, Holding
<1>2. ASSUME NEW c \in Client, Connect(c) PROVE Chains'
  <2> SUFFICES ASSUME NEW d \in Client PROVE OneChain(d)'
    BY DEF Chains
  <2>1. OneChain(d) /\ (d # c => op'[d] = op[d]) /\ op[c] = "new" /\ op'[c] = "none"
    BY <1>2 DEF Chains, Connect, TypeOK
  <2>2. backlog \in Seq(Client) /\ backlog' = Append(backlog, c)
    BY <1>2 DEF Connect, TypeOK
  <2>3. /\ Len(backlog) \in Nat /\ DOMAIN backlog = 1..Len(backlog)
        /\ DOMAIN backlog' = 1..(Len(backlog) + 1)
        /\ backlog'[Len(backlog) + 1] = c
        /\ \A i \in 1..Len(backlog) : backlog'[i] = backlog[i]
    BY <2>2, AppendPlaces
  <2>4. ready' = ready /\ \A u \in Thread : Holding(u, d)' <=> Holding(u, d)
    BY <1>2 DEF Connect, Holding
  <2>5. CASE d = c
    <3>1. Nowhere(d)
      BY <2>1, <2>5 DEF OneChain
    <3>2. \A i \in DOMAIN backlog' : backlog'[i] = d => i = Len(backlog) + 1
      BY <2>3, <3>1 DEF Nowhere
    <3> QED
      BY <2>1, <2>4, <2>5, <3>1, <3>2 DEF OneChain, Nowhere
  <2>6. CASE d # c
    <3>1. \A i \in DOMAIN backlog' : backlog'[i] = d => i \in DOMAIN backlog /\ backlog[i] = d
      BY <2>3, <2>6
    <3> QED
      BY <2>1, <2>4, <2>6, <3>1 DEF OneChain, Nowhere
  <2> QED
    BY <2>5, <2>6
<1>3. ASSUME NEW c \in Client, Ask(c) \/ Leave(c) PROVE Chains'
  BY <1>3 DEF Ask, Leave, Chains, OneChain, Nowhere, Holding
<1>4. CASE AcceptComplete
  <2>1. backlog \in Seq(Client) /\ backlog # <<>> /\ backlog' = Tail(backlog)
    BY <1>4 DEF AcceptComplete, TypeOK
  <2>2. PICK c \in Client : c = Head(backlog)
    BY <2>1, TailPlaces
  <2>3. /\ Len(backlog) \in Nat /\ Len(backlog) >= 1 /\ DOMAIN backlog = 1..Len(backlog)
        /\ c = backlog[1]
        /\ DOMAIN backlog' = 1..(Len(backlog) - 1)
        /\ \A i \in 1..(Len(backlog) - 1) : backlog'[i] = backlog[i + 1]
    BY <2>1, <2>2, TailPlaces
  <2>4. OneChain(c) /\ 1 \in DOMAIN backlog
    BY <2>3 DEF Chains
  <2>5. op[c] = "none" /\ (\A i \in DOMAIN ready : ready[i].c # c)
        /\ \A t \in Thread : ~Holding(t, c)
    BY <2>3, <2>4 DEF OneChain, Nowhere
  <2>6. op' = [op EXCEPT ![c] = "none"]
    BY <1>4, <2>5 DEF AcceptComplete, TypeOK
  <2>7. \A i \in DOMAIN backlog' :
          i \in Nat /\ i + 1 # 1 /\ i + 1 \in DOMAIN backlog /\ backlog'[i] = backlog[i + 1]
    BY <2>3
  <2>8. \A i \in DOMAIN backlog' : backlog'[i] # c
    BY <2>3, <2>4, <2>7 DEF OneChain
  <2>9. Post("start", c) /\ pc' = pc /\ session' = session
    BY <1>4, <2>2 DEF AcceptComplete
  <2> QED
    BY <2>5, <2>6, <2>7, <2>8, <2>9, ChainPost
<1>5. CASE AcceptError
  <2> SUFFICES ASSUME NEW c \in Client PROVE OneChain(c)'
    BY DEF Chains
  <2>1. /\ OneChain(c) /\ backlog' = backlog /\ op' = op /\ pc' = pc /\ session' = session
        /\ ready \in Seq(Handler) /\ ready' = Append(ready, [h |-> "again", c |-> NONE])
    BY <1>5 DEF AcceptError, Post, Chains, TypeOK, clients
  <2>2. /\ Len(ready) \in Nat /\ DOMAIN ready = 1..Len(ready)
        /\ DOMAIN ready' = 1..(Len(ready) + 1)
        /\ ready'[Len(ready) + 1].c = NONE
        /\ \A i \in 1..Len(ready) : ready'[i] = ready[i]
    BY <2>1, Handlers, AppendPlaces
  <2>3. \A i \in DOMAIN ready' : ready'[i].c = c => i \in DOMAIN ready /\ ready[i].c = c
    BY <2>2, ServerAssumption
  <2>4. \A u \in Thread : Holding(u, c)' <=> Holding(u, c)
    BY <2>1 DEF Holding
  <2> QED
    BY <2>1, <2>3, <2>4 DEF OneChain, Nowhere
<1>6. ASSUME NEW c \in Client, ReadComplete(c) \/ WriteComplete(c) PROVE Chains'
  <2>1. Nowhere(c)
    BY <1>6 DEF ReadComplete, WriteComplete, Chains, OneChain
  <2>2. backlog' = backlog /\ pc' = pc /\ session' = session /\ op' = [op EXCEPT ![c] = "none"]
    BY <1>6 DEF ReadComplete, WriteComplete, clients
  <2>3. PICK h \in {"start", "handle", "rearm", "leave"} : Post(h, c)
    BY <1>6 DEF ReadComplete, WriteComplete
  <2>4. \A i \in DOMAIN backlog' :
          i \in Nat /\ i + 0 \in DOMAIN backlog /\ backlog'[i] = backlog[i + 0]
    BY <2>2 DEF TypeOK
  <2> QED
    BY <2>1, <2>2, <2>3, <2>4, ChainPost DEF Nowhere
<1>7. ASSUME NEW t \in Thread, run(t) PROVE Chains'
  BY <1>7, ChainRun
<1>8. ASSUME NEW t \in Thread, Step(t) PROVE Chains'
  BY <1>8, ChainStep
<1> QED
  BY <1>1, <1>2, <1>3, <1>4, <1>5, <1>6, <1>7, <1>8 DEF Next, Complete

LEMMA ChainsAlways == Spec => []Chains
<1>1. Init => Chains
  BY ServerAssumption DEF Init, Chains, OneChain, Nowhere, Holding, Busy
<1> QED
  BY <1>1, ChainsInvariant, TypeCorrectness, PTL DEF Spec

(* However many threads there are, a connection keeps at most one of them  *)
(* in SleepHandler: handle_read has let go of the session's chain only     *)
(* after the handler has returned.                                         *)
THEOREM OneThreadPerSleeper == Spec => []OneSleepEach
<1>1. TypeOK /\ Chains => OneSleepEach
  <2> SUFFICES ASSUME TypeOK, Chains, NEW t \in Asleep, NEW u \in Asleep,
                      session[t] = session[u]
               PROVE  t = u
    BY DEF OneSleepEach
  <2>1. PICK c \in Client : c = session[t]
    BY DEF TypeOK, Asleep
  <2>2. Holding(t, c) /\ Holding(u, c)
    BY <2>1 DEF Asleep, Holding, Busy
  <2> QED
    BY <2>1, <2>2 DEF Chains, OneChain, Asleep
<1> QED
  BY <1>1, ChainsAlways, TypeCorrectness, PTL

LEMMA SleepersStep == ASSUME TypeOK, SleepersSleep, [Next]_vars PROVE SleepersSleep'
<1> USE DEF SleepersSleep, Asleep, TypeOK
<1>1. CASE pc' = pc /\ session' = session
  BY <1>1
<1>2. ASSUME NEW t \in Thread, run(t) PROVE SleepersSleep'
  <2>1. Head(ready) \in Handler
    BY <1>2, TailPlaces DEF run
  <2>2. Head(ready).h # "asleep"
    BY <2>1 DEF Handler
  <2> QED
    BY <1>2, <2>2 DEF run
<1>3. ASSUME NEW t \in Thread, Step(t) PROVE SleepersSleep'
  BY <1>3 DEF Step, handle_accept_start, start_accept, handle_read, sleep_for,
     handle_read_write, handle_read_return, handle_write, At, Goto, Return
<1> QED
  BY <1>1, <1>2, <1>3 DEF Next, Complete, Connect, Ask, Leave, AcceptComplete, AcceptError,
     ReadComplete, WriteComplete, vars

(* With more threads than clients that ask SleepHandler, some thread is    *)
(* never blocked: as many sleepers as threads, which main() does not       *)
(* prevent, are the only way to stop the server for everybody.             *)
THEOREM EnoughThreads ==
  ASSUME Cardinality(Sleeper) < Cardinality(Thread)
  PROVE  Spec => []SomeoneAwake
<1>1. Init => SleepersSleep
  BY DEF Init, SleepersSleep, Asleep
<1>2. Spec => []SleepersSleep
  BY <1>1, SleepersStep, TypeCorrectness, PTL DEF Spec
<1>3. SleepersSleep /\ OneSleepEach => SomeoneAwake
  <2> SUFFICES ASSUME SleepersSleep, OneSleepEach, Asleep = Thread PROVE FALSE
    BY DEF SomeoneAwake
  <2> DEFINE f == [t \in Thread |-> session[t]]
  <2>1. f \in [Thread -> Sleeper] /\ \A t, u \in Thread : f[t] = f[u] => t = u
    BY DEF SleepersSleep, OneSleepEach
  <2>2. IsFiniteSet(Sleeper) /\ IsFiniteSet(Thread)
    BY ServerAssumption, FS_Subset
  <2> HIDE DEF f
  <2>3. \E t, u \in Thread : t # u /\ f[t] = f[u]
    BY <2>1, <2>2, FS_PigeonHole
  <2> QED
    BY <2>1, <2>3
<1> QED
  BY <1>2, <1>3, OneThreadPerSleeper, PTL
=============================================================================
