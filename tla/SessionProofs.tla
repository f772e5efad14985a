---------------------------- MODULE SessionProofs ----------------------------
(***************************************************************************)
(* Proofs about Session, for any number of threads, requests of any shape, *)
(* any sizes of reads and responses.                                       *)
(***************************************************************************)
EXTENDS Session, FiniteSetTheorems, TLAPS

(* The part of the types that the counting argument needs. *)
CountersOK ==
  /\ reads \in Nat /\ writes \in Nat /\ refs \in Int
  /\ eof \in BOOLEAN
  /\ pc \in [Thread -> Label]

IInv == CountersOK /\ OneOperation /\ RefsExact

(* 1 for a label at which a frame has still to start the next operation. *)
Holds(label) == IF label \in {"idle", "clear", "return"} THEN 0 ELSE 1

(* 1 for a label at which there is a frame. *)
Runs(label) == IF label = "idle" THEN 0 ELSE 1

(* Adding or removing one element changes the size of a set of threads as  *)
(* membership says.                                                        *)
LEMMA SetSize ==
  ASSUME NEW S \in SUBSET Thread, NEW T \in SUBSET Thread, NEW t \in Thread,
         \A u \in Thread : u # t => (u \in S <=> u \in T)
  PROVE  /\ Cardinality(S) \in Nat
         /\ Cardinality(T) = Cardinality(S) + (IF t \in T THEN 1 ELSE 0)
                                            - (IF t \in S THEN 1 ELSE 0)
<1>1. IsFiniteSet(S) /\ IsFiniteSet(T)
  BY SessionAssumption, FS_Subset
<1>2. Cardinality(S) \in Nat /\ Cardinality(T) \in Nat
  BY <1>1, FS_CardinalityType
<1>3. CASE t \in T /\ t \notin S
  <2>1. T = S \cup {t}
    BY <1>3
  <2> QED
    BY <1>1, <1>2, <1>3, <2>1, FS_AddElement
<1>4. CASE t \notin T /\ t \in S
  <2>1. T = S \ {t}
    BY <1>4
  <2> QED
    BY <1>1, <1>2, <1>4, <2>1, FS_RemoveElement
<1>5. CASE t \in T <=> t \in S
  <2>1. T = S
    BY <1>5
  <2> QED
    BY <1>2, <1>5, <2>1
<1> QED
  BY <1>3, <1>4, <1>5

(* When thread t goes from one label to another, the two counts change by  *)
(* what the labels say.                                                    *)
LEMMA GotoCounts ==
  ASSUME CountersOK, NEW t \in Thread, NEW label \in Label, Goto(t, label)
  PROVE  /\ pc' \in [Thread -> Label]
         /\ Cardinality(Holder) \in Nat
         /\ Cardinality(Active) \in Nat
         /\ Cardinality(Holder') = Cardinality(Holder) + Holds(label) - Holds(pc[t])
         /\ Cardinality(Active') = Cardinality(Active) + Runs(label) - Runs(pc[t])
<1>1. /\ pc' \in [Thread -> Label] /\ pc'[t] = label
      /\ \A u \in Thread : u # t => pc'[u] = pc[u]
  BY DEF CountersOK, Goto
<1>2. /\ Holder \in SUBSET Thread /\ Holder' \in SUBSET Thread
      /\ \A u \in Thread : u # t => (u \in Holder <=> u \in Holder')
      /\ t \in Holder <=> Holds(pc[t]) = 1
      /\ t \in Holder' <=> Holds(label) = 1
  BY <1>1 DEF Holder, Holds
<1>3. /\ Active \in SUBSET Thread /\ Active' \in SUBSET Thread
      /\ \A u \in Thread : u # t => (u \in Active <=> u \in Active')
      /\ t \in Active <=> Runs(pc[t]) = 1
      /\ t \in Active' <=> Runs(label) = 1
  BY <1>1 DEF Active, Runs
<1>4. /\ Cardinality(Holder) \in Nat
      /\ Cardinality(Holder') = Cardinality(Holder) + (IF t \in Holder' THEN 1 ELSE 0)
                                                   - (IF t \in Holder THEN 1 ELSE 0)
  BY <1>2, SetSize
<1>5. /\ Cardinality(Active) \in Nat
      /\ Cardinality(Active') = Cardinality(Active) + (IF t \in Active' THEN 1 ELSE 0)
                                                   - (IF t \in Active THEN 1 ELSE 0)
  BY <1>3, SetSize
<1> QED
  BY <1>1, <1>2, <1>3, <1>4, <1>5 DEF Holds, Runs

(* The whole counting argument: a step of thread t keeps the invariant if  *)
(* what it adds to the outstanding operations, to the frames and to the    *)
(* shared_ptrs balances.  Only after eof may the next operation be left    *)
(* unstarted.                                                              *)
LEMMA Balance ==
  ASSUME IInv, NEW t \in Thread, NEW label \in Label, Goto(t, label),
         NEW i \in {-1, 0, 1}, NEW j \in {-1, 0, 1}, NEW k \in {-1, 0, 1},
         reads' = reads + i, writes' = writes + j, refs' = refs + k,
         reads' \in Nat, writes' \in Nat, eof' = eof,
         k = i + j + Runs(label) - Runs(pc[t]),
         \/ i + j + Holds(label) - Holds(pc[t]) = 0
         \/ i + j + Holds(label) - Holds(pc[t]) = -1 /\ eof
  PROVE  IInv'
<1> DEFINE h == Cardinality(Holder)
           a == Cardinality(Active)
<1>1. /\ pc' \in [Thread -> Label] /\ h \in Nat /\ a \in Nat
      /\ h' = h + Holds(label) - Holds(pc[t])
      /\ a' = a + Runs(label) - Runs(pc[t])
  BY GotoCounts DEF IInv
<1>2. CountersOK'
  BY <1>1 DEF IInv, CountersOK
<1>3. RefsExact'
  BY <1>1 DEF IInv, CountersOK, RefsExact, Runs
<1>4. OneOperation'
  BY <1>1 DEF IInv, CountersOK, OneOperation, Holds
<1> QED
  BY <1>2, <1>3, <1>4 DEF IInv

LEMMA InitIInv == Init => IInv
<1> SUFFICES ASSUME Init PROVE IInv
  OBVIOUS
<1>1. Holder = {} /\ Active = {}
  BY DEF Init, Holder, Active
<1>2. Cardinality(Holder) = 0 /\ Cardinality(Active) = 0
  BY <1>1, FS_EmptySet
<1>3. CountersOK
  <2>1. reads = 1 /\ writes = 0 /\ refs = 1 /\ eof = FALSE
    BY DEF Init
  <2>2. pc \in [Thread -> Label]
    BY DEF Init, Label
  <2>3. eof \in BOOLEAN
    BY <2>1
  <2> QED
    BY <2>1, <2>2, <2>3 DEF CountersOK
<1>4. OneOperation /\ RefsExact
  BY <1>2 DEF Init, OneOperation, RefsExact
<1> QED
  BY <1>3, <1>4 DEF IInv

(* A step that touches neither the counters nor the frames. *)
LEMMA QuietIInv ==
  ASSUME IInv, UNCHANGED <<reads, writes, pc, refs>>,
         eof' = eof \/ eof' = TRUE
  PROVE  IInv'
  BY DEF IInv, CountersOK, OneOperation, RefsExact, Holder, Active

(* A step of a frame to a label at which it still holds the token. *)
LEMMA MoveIInv ==
  ASSUME IInv, NEW t \in Thread, NEW label \in Label, Goto(t, label),
         Holds(label) = 1, Holds(pc[t]) = 1,
         UNCHANGED <<reads, writes, refs, eof>>
  PROVE  IInv'
<1>1. /\ reads' = reads + 0 /\ writes' = writes + 0 /\ refs' = refs + 0
      /\ reads' \in Nat /\ writes' \in Nat
  BY DEF IInv, CountersOK
<1>2. /\ 0 = 0 + 0 + Runs(label) - Runs(pc[t])
      /\ 0 + 0 + Holds(label) - Holds(pc[t]) = 0
  BY DEF Runs, Holds
<1> QED
  BY <1>1, <1>2, Balance

(* A handler starts: the token passes from the operation to its frame, or  *)
(* is dropped when the operation failed.                                   *)
LEMMA DispatchIInv ==
  ASSUME IInv, NEW t \in Thread, Dispatch(t) PROVE IInv'
<1>1. pc[t] = "idle" /\ eof' = eof
  BY DEF Dispatch, ReadComplete, ReadError, handle_write, WriteError, At, client
<1>2. CASE \E n \in 1..max_length : ReadComplete(t, n)
  <2>1. /\ Goto(t, "append") /\ reads' = reads + (-1) /\ writes' = writes + 0
        /\ refs' = refs + 0 /\ reads' \in Nat /\ writes' \in Nat
    BY <1>2 DEF ReadComplete, IInv, CountersOK
  <2>2. /\ 0 = (-1) + 0 + Runs("append") - Runs(pc[t])
        /\ (-1) + 0 + Holds("append") - Holds(pc[t]) = 0
    BY <1>1 DEF Runs, Holds
  <2> QED
    BY <1>1, <2>1, <2>2, Balance DEF Label
<1>3. CASE ReadError(t)
  <2>1. /\ Goto(t, "return") /\ reads' = reads + (-1) /\ writes' = writes + 0
        /\ refs' = refs + 0 /\ reads' \in Nat /\ writes' \in Nat /\ eof
    BY <1>3 DEF ReadError, IInv, CountersOK
  <2>2. /\ 0 = (-1) + 0 + Runs("return") - Runs(pc[t])
        /\ (-1) + 0 + Holds("return") - Holds(pc[t]) = -1
    BY <1>1 DEF Runs, Holds
  <2> QED
    BY <1>1, <2>1, <2>2, Balance DEF Label
<1>4. CASE handle_write(t)
  <2>1. /\ Goto(t, "rearm") /\ reads' = reads + 0 /\ writes' = writes + (-1)
        /\ refs' = refs + 0 /\ reads' \in Nat /\ writes' \in Nat
    BY <1>4 DEF handle_write, IInv, CountersOK
  <2>2. /\ 0 = 0 + (-1) + Runs("rearm") - Runs(pc[t])
        /\ 0 + (-1) + Holds("rearm") - Holds(pc[t]) = 0
    BY <1>1 DEF Runs, Holds
  <2> QED
    BY <1>1, <2>1, <2>2, Balance DEF Label
<1>5. CASE WriteError(t)
  <2>1. /\ Goto(t, "return") /\ reads' = reads + 0 /\ writes' = writes + (-1)
        /\ refs' = refs + 0 /\ reads' \in Nat /\ writes' \in Nat /\ eof
    BY <1>5 DEF WriteError, IInv, CountersOK
  <2>2. /\ 0 = 0 + (-1) + Runs("return") - Runs(pc[t])
        /\ 0 + (-1) + Holds("return") - Holds(pc[t]) = -1
    BY <1>1 DEF Runs, Holds
  <2> QED
    BY <1>1, <2>1, <2>2, Balance DEF Label
<1> QED
  BY <1>2, <1>3, <1>4, <1>5 DEF Dispatch

(* A frame returns: its shared_ptr goes with it. *)
LEMMA LeaveIInv ==
  ASSUME IInv, NEW t \in Thread, Leave(t), pc[t] \in {"clear", "return"},
         UNCHANGED <<reads, writes, eof>>
  PROVE  IInv'
<1>1. /\ Goto(t, "idle") /\ reads' = reads + 0 /\ writes' = writes + 0
      /\ refs' = refs + (-1) /\ reads' \in Nat /\ writes' \in Nat
  BY DEF Leave, IInv, CountersOK
<1>2. /\ -1 = 0 + 0 + Runs("idle") - Runs(pc[t])
      /\ 0 + 0 + Holds("idle") - Holds(pc[t]) = 0
  BY DEF Runs, Holds
<1> QED
  BY <1>1, <1>2, Balance DEF Label

(* Every step inside handle_read and handle_write: one case per action. *)
LEMMA StepIInv ==
  ASSUME IInv, NEW t \in Thread, Step(t) PROVE IInv'
<1>1. CASE handle_read_append(t)
  BY <1>1, MoveIInv DEF handle_read_append, At, Holds, Label, client
<1>2. CASE handle_read_check(t)
  BY <1>2, MoveIInv DEF handle_read_check, Respond, At, Holds, Label, client
<1>3. CASE handle_read_parse(t)
  BY <1>3, MoveIInv DEF handle_read_parse, Respond, At, Holds, Label, client
<1>4. CASE handle_read_measure(t)
  BY <1>4, MoveIInv DEF handle_read_measure, At, Holds, Label, client
<1>5. CASE handle_read_handle(t)
  <2>1. CASE Goto(t, "write")
    BY <1>5, <2>1, MoveIInv DEF handle_read_handle, At, Holds, Label, client
  <2>2. CASE UNCHANGED pc
    BY <1>5, <2>2, QuietIInv DEF handle_read_handle, client
  <2> QED
    BY <1>5, <2>1, <2>2 DEF handle_read_handle, Respond
<1>6. CASE handle_read_write(t)
  <2>1. /\ Goto(t, "clear") /\ pc[t] = "write" /\ reads' = reads + 0
        /\ writes' = writes + 1 /\ refs' = refs + 1 /\ eof' = eof
        /\ reads' \in Nat /\ writes' \in Nat
    BY <1>6 DEF handle_read_write, At, client, IInv, CountersOK
  <2>2. /\ 1 = 0 + 1 + Runs("clear") - Runs(pc[t])
        /\ 0 + 1 + Holds("clear") - Holds(pc[t]) = 0
    BY <2>1 DEF Runs, Holds
  <2> QED
    BY <2>1, <2>2, Balance DEF Label
<1>7. CASE handle_read_clear(t)
  BY <1>7, LeaveIInv DEF handle_read_clear, At, client
<1>8. CASE Rearm(t)
  <2>1. /\ Goto(t, "return") /\ pc[t] = "rearm" /\ reads' = reads + 1
        /\ writes' = writes + 0 /\ refs' = refs + 1 /\ eof' = eof
        /\ reads' \in Nat /\ writes' \in Nat
    BY <1>8 DEF Rearm, At, client, IInv, CountersOK
  <2>2. /\ 1 = 1 + 0 + Runs("return") - Runs(pc[t])
        /\ 1 + 0 + Holds("return") - Holds(pc[t]) = 0
    BY <2>1 DEF Runs, Holds
  <2> QED
    BY <2>1, <2>2, Balance DEF Label
<1>9. CASE Return(t)
  BY <1>9, LeaveIInv DEF Return, At, client
<1> QED
  BY <1>1, <1>2, <1>3, <1>4, <1>5, <1>6, <1>7, <1>8, <1>9 DEF Step

(* The counting invariant of the Session: one token, and one shared_ptr    *)
(* for each operation and each frame.                                      *)
THEOREM Invariance == Spec => []IInv
<1>1. IInv /\ [Next]_vars => IInv'
  <2> SUFFICES ASSUME IInv, [Next]_vars PROVE IInv'
    OBVIOUS
  <2>1. CASE ClientSend
    BY <2>1, QuietIInv DEF ClientSend, frame
  <2>2. CASE ClientClose
    BY <2>2, QuietIInv DEF ClientClose, frame
  <2>3. CASE SendPart
    BY <2>3, QuietIInv DEF SendPart, frame, client
  <2>4. CASE \E t \in Thread : Dispatch(t) \/ Step(t)
    BY <2>4, DispatchIInv, StepIInv
  <2>5. CASE UNCHANGED vars
    BY <2>5, QuietIInv DEF vars, frame, client
  <2> QED
    BY <2>1, <2>2, <2>3, <2>4, <2>5 DEF Next
<1> QED
  BY InitIInv, <1>1, PTL DEF Spec

(* However many threads run handle_read and handle_write, a Session has    *)
(* never two operations on its socket, nor an operation while a frame has  *)
(* still to start one, and an open one is never without either.            *)
THEOREM OneOperationAtATime == Spec => []OneOperation
  BY Invariance, PTL DEF IInv

(* shared_from_this() keeps the Session alive exactly as long as some      *)
(* operation or handler of it is left.                                     *)
THEOREM LifetimeIsExact == Spec => []RefsExact
  BY Invariance, PTL DEF IInv
-----------------------------------------------------------------------------
(***************************************************************************)
(* Types.  That refs never goes below 0 is the counting invariant's.       *)
(***************************************************************************)

(* A frame that has parsed has a request. *)
Parsed == \A t \in Thread : pc[t] \in {"measure", "handle"} => request[t] \in HttpRequest

LEMMA InitTypes == Init => TypeOK /\ Parsed
<1> SUFFICES ASSUME Init PROVE TypeOK /\ Parsed
  OBVIOUS
<1>1. sent \in Nat \X Nat /\ eof \in BOOLEAN /\ crashed \in BOOLEAN
  BY DEF Init
<1>2. wr \in [response : HttpResponse \cup {NONE}, left : Nat,
             owner : Thread \cup {NONE}, intact : BOOLEAN]
  BY DEF Init
<1>3. pc \in [Thread -> Label] /\ Parsed
  BY DEF Init, Label, Parsed
<1> QED
  BY <1>1, <1>2, <1>3 DEF Init, TypeOK

(* What HttpRequest::parse makes of the buffer is a request with all of it *)
(* as its raw text.                                                        *)
LEMMA ParseType ==
  ASSUME TypeOK, NEW r \in parse(buffer_) PROVE r \in HttpRequest
<1>1. buffer_ \in Seq(Nat \X Nat)
  BY DEF TypeOK, Request
<1>2. \A i \in Request : shape[i].cl \in {"none", "bad", "num"}
        /\ shape[i].content_length \in 0..(SIZE_MOD - 1)
        /\ shape[i].valid \in BOOLEAN /\ shape[i].throws \in BOOLEAN
  BY SessionAssumption DEF TypeOK
<1>3. CASE \E i \in Request : r = [cl |-> shape[i].cl,
              content_length |-> shape[i].content_length, valid |-> shape[i].valid,
              throws |-> shape[i].throws, raw |-> buffer_]
  BY <1>1, <1>2, <1>3 DEF HttpRequest
<1>4. CASE \E l \in {"none", "bad", "num"}, v, x \in BOOLEAN,
             n \in {shape[i].content_length : i \in Request} :
              r = [cl |-> l, content_length |-> n, valid |-> v, throws |-> x,
                   raw |-> buffer_]
  <2>1. PICK l \in {"none", "bad", "num"}, v, x \in BOOLEAN,
             n \in {shape[i].content_length : i \in Request} :
              r = [cl |-> l, content_length |-> n, valid |-> v, throws |-> x,
                   raw |-> buffer_]
    BY <1>4
  <2>2. n \in 0..(SIZE_MOD - 1)
    BY <1>2
  <2> QED
    BY <1>1, <2>1, <2>2 DEF HttpRequest
<1>5. CASE \E i \in Request : Headed(buffer_, i)
  BY <1>3, <1>5 DEF parse
<1>6. CASE ~\E i \in Request : Headed(buffer_, i)
  BY <1>4, <1>6 DEF parse
<1> QED
  BY <1>5, <1>6

LEMMA ResponseTypes ==
  /\ BadRequest \in HttpResponse
  /\ \A r \in HttpRequest : Handled(r) \in HttpResponse
  BY DEF BadRequest, Handled, HttpRequest, HttpResponse

(* The client, and the socket. *)
LEMMA ClientTypes ==
  ASSUME TypeOK, Parsed, ClientSend \/ ClientClose PROVE TypeOK' /\ Parsed'
<1>1. CASE ClientSend
  <2> DEFINE u == IF Complete(sent) THEN <<sent[1] + 1, 1>> ELSE <<sent[1], sent[2] + 1>>
  <2>0. sent[1] \in Nat /\ sent[2] \in Nat
    BY DEF TypeOK
  <2>1. u \in Nat \X Nat /\ u[1] \in Request /\ u[2] \in Nat /\ sent' = u
        /\ net' = Append(net, u) /\ u = <<u[1], u[2]>>
    BY <1>1, <2>0 DEF ClientSend
  <2> HIDE DEF u
  <2>2. net' \in Seq(Request \X Nat)
    BY <2>1 DEF TypeOK
  <2> QED
    BY <1>1, <2>1, <2>2 DEF ClientSend, TypeOK, Parsed, frame
<1>2. CASE ClientClose
  BY <1>2 DEF ClientClose, TypeOK, Parsed, frame
<1> QED
  BY <1>1, <1>2

LEMMA DeliverType ==
  ASSUME TypeOK, NEW w, w.response \in HttpResponse \cup {NONE}, Deliver(w)
  PROVE  got' \in Seq(HttpResponse \cup {NONE})
  BY DEF Deliver, TypeOK

LEMMA SendPartTypes == ASSUME TypeOK, Parsed, SendPart PROVE TypeOK' /\ Parsed'
<1>1. PICK ok \in BOOLEAN : wr' = [wr EXCEPT !.left = @ - 1, !.intact = @ /\ ok]
  BY DEF SendPart
<1> DEFINE i == wr.intact /\ ok
           w == [wr EXCEPT !.left = wr.left - 1]
<1>4. \/ wr' = [w EXCEPT !.intact = TRUE]
      \/ wr' = [w EXCEPT !.intact = FALSE]
  <2>1. i \in BOOLEAN /\ wr' = [w EXCEPT !.intact = i]
    BY <1>1, Zenon
  <2> QED
    BY <2>1, Zenon
<1>5. w \in [response : HttpResponse \cup {NONE}, left : Nat,
            owner : Thread \cup {NONE}, intact : BOOLEAN]
  <2>1. wr.left > 0
    BY Zenon DEF SendPart
  <2>2. wr \in [response : HttpResponse \cup {NONE}, left : Nat,
               owner : Thread \cup {NONE}, intact : BOOLEAN]
    BY DEF TypeOK
  <2> HIDE DEF i
  <2> QED
    BY <2>1, <2>2
<1> HIDE DEF w
<1>2. wr' \in [response : HttpResponse \cup {NONE}, left : Nat,
              owner : Thread \cup {NONE}, intact : BOOLEAN]
  BY <1>4, <1>5
<1>3. got' \in Seq(HttpResponse \cup {NONE})
  BY <1>2, DeliverType DEF SendPart
<1> QED
  BY <1>2, <1>3 DEF SendPart, TypeOK, Parsed, frame, client

(* A frame moves on to label, and the rest keeps its type. *)
LEMMA GotoTypes ==
  ASSUME TypeOK, Parsed, NEW t \in Thread, NEW label \in Label, Goto(t, label),
         \A u \in Thread : u # t => request'[u] = request[u],
         label \in {"measure", "handle"} => request'[t] \in HttpRequest
  PROVE  pc' \in [Thread -> Label] /\ Parsed'
  BY DEF TypeOK, Parsed, Goto

LEMMA DispatchTypes ==
  ASSUME TypeOK, Parsed, NEW t \in Thread, Dispatch(t) PROVE TypeOK' /\ Parsed'
<1>1. CASE \E n \in 1..max_length : ReadComplete(t, n)
  <2>1. PICK n \in 1..max_length : ReadComplete(t, n)
    BY <1>1
  <2>2. n \in Nat \ {0} /\ n <= Len(net) /\ net \in Seq(Request \X Nat)
    BY <2>1, SessionAssumption DEF ReadComplete, TypeOK
  <2>3. data_' \in Seq(Request \X Nat) /\ net' \in Seq(Request \X Nat)
    BY <2>1, <2>2 DEF ReadComplete
  <2>4. reads' \in Nat
    BY <2>1 DEF ReadComplete, TypeOK
  <2>5. pc' \in [Thread -> Label] /\ Parsed'
    BY <2>1, GotoTypes DEF ReadComplete, Label
  <2> QED
    BY <2>1, <2>3, <2>4, <2>5 DEF ReadComplete, TypeOK
<1>2. CASE ReadError(t) \/ handle_write(t) \/ WriteError(t)
  <2>1. reads' \in Nat /\ writes' \in Nat
    BY <1>2 DEF ReadError, handle_write, WriteError, TypeOK
  <2>2. pc' \in [Thread -> Label] /\ Parsed'
    BY <1>2, GotoTypes DEF ReadError, handle_write, WriteError, Label
  <2> QED
    BY <1>2, <2>1, <2>2 DEF ReadError, handle_write, WriteError, TypeOK, client
<1> QED
  BY <1>1, <1>2 DEF Dispatch

(* A frame returns. *)
LEMMA LeaveTypes ==
  ASSUME TypeOK, Parsed, NEW t \in Thread, Leave(t), refs' \in Nat
  PROVE  /\ pc' \in [Thread -> Label] /\ Parsed' /\ refs' \in Nat
         /\ request' \in [Thread -> HttpRequest \cup {NONE}]
         /\ response' \in [Thread -> HttpResponse \cup {NONE}]
         /\ wr' \in [response : HttpResponse \cup {NONE}, left : Nat,
                     owner : Thread \cup {NONE}, intact : BOOLEAN]
<1>1. pc' \in [Thread -> Label] /\ Parsed'
  BY GotoTypes DEF Leave, Label, TypeOK
<1>2. /\ request' \in [Thread -> HttpRequest \cup {NONE}]
      /\ response' \in [Thread -> HttpResponse \cup {NONE}]
  BY DEF Leave, TypeOK
<1>3. wr' \in [response : HttpResponse \cup {NONE}, left : Nat,
              owner : Thread \cup {NONE}, intact : BOOLEAN]
  BY DEF Leave, TypeOK
<1> QED
  BY <1>1, <1>2, <1>3

LEMMA StepTypes ==
  ASSUME TypeOK, Parsed, refs' \in Nat, NEW t \in Thread, Step(t)
  PROVE  TypeOK' /\ Parsed'
<1>1. CASE handle_read_append(t)
  <2>1. pc' \in [Thread -> Label] /\ Parsed'
    BY <1>1, GotoTypes DEF handle_read_append, Label
  <2>2. buffer_' \in Seq(Request \X Nat)
    BY <1>1 DEF handle_read_append, TypeOK
  <2> QED
    BY <1>1, <2>1, <2>2 DEF handle_read_append, TypeOK, client
<1>2. CASE handle_read_check(t)
  <2>1. pc' \in [Thread -> Label] /\ Parsed'
    BY <1>2, GotoTypes DEF handle_read_check, Respond, Label
  <2>2. response' \in [Thread -> HttpResponse \cup {NONE}]
    BY <1>2, ResponseTypes DEF handle_read_check, Respond, TypeOK
  <2> QED
    BY <1>2, <2>1, <2>2 DEF handle_read_check, TypeOK, client
<1>3. CASE handle_read_parse(t)
  <2>1. CASE UNCHANGED <<request, response>> /\ Goto(t, "rearm")
    <3>1. pc' \in [Thread -> Label] /\ Parsed'
      BY <2>1, GotoTypes DEF Label
    <3> QED
      BY <1>3, <2>1, <3>1 DEF handle_read_parse, TypeOK, client
  <2>2. ASSUME NEW r \in parse(buffer_), request' = [request EXCEPT ![t] = r],
               \/ Respond(t, BadRequest)
               \/ Goto(t, "measure") /\ UNCHANGED response
               \/ Goto(t, "handle") /\ UNCHANGED response
        PROVE  TypeOK' /\ Parsed'
    <3>1. r \in HttpRequest
      BY ParseType
    <3>2. request' \in [Thread -> HttpRequest \cup {NONE}] /\ request'[t] = r
          /\ \A u \in Thread : u # t => request'[u] = request[u]
      BY <2>2, <3>1 DEF TypeOK
    <3>3. pc' \in [Thread -> Label] /\ Parsed'
      BY <2>2, <3>1, <3>2, GotoTypes DEF Respond, Label
    <3>4. response' \in [Thread -> HttpResponse \cup {NONE}]
      BY <2>2, ResponseTypes DEF Respond, TypeOK
    <3> QED
      BY <1>3, <3>2, <3>3, <3>4 DEF handle_read_parse, TypeOK, client
  <2> QED
    BY <1>3, <2>1, <2>2 DEF handle_read_parse
<1>4. CASE handle_read_measure(t)
  <2>1. pc' \in [Thread -> Label] /\ Parsed'
    BY <1>4, GotoTypes DEF handle_read_measure, Parsed, At, Label
  <2> QED
    BY <1>4, <2>1 DEF handle_read_measure, TypeOK, client
<1>5. CASE handle_read_handle(t)
  <2>1. request[t] \in HttpRequest
    BY <1>5 DEF handle_read_handle, At, Parsed
  <2>2. response' \in [Thread -> HttpResponse \cup {NONE}]
    BY <1>5, <2>1, ResponseTypes DEF handle_read_handle, Respond, TypeOK
  <2>3. pc' \in [Thread -> Label] /\ Parsed'
    <3>1. CASE Goto(t, "write")
      BY <1>5, <3>1, GotoTypes DEF handle_read_handle, Label
    <3>2. CASE UNCHANGED pc
      BY <1>5, <3>2 DEF handle_read_handle, TypeOK, Parsed
    <3> QED
      BY <1>5, <3>1, <3>2 DEF handle_read_handle, Respond
  <2>4. crashed' \in BOOLEAN
    BY <1>5 DEF handle_read_handle, TypeOK
  <2> QED
    BY <1>5, <2>2, <2>3, <2>4 DEF handle_read_handle, TypeOK, client
<1>6. CASE handle_read_write(t)
  <2>1. PICK p \in Parts : \E k \in 0..p :
          wr' = [response |-> response[t], left |-> p - k, owner |-> t, intact |-> TRUE]
    BY <1>6 DEF handle_read_write
  <2>2. PICK k \in 0..p :
          wr' = [response |-> response[t], left |-> p - k, owner |-> t, intact |-> TRUE]
    BY <2>1
  <2>3. wr' \in [response : HttpResponse \cup {NONE}, left : Nat,
                owner : Thread \cup {NONE}, intact : BOOLEAN]
    BY <2>2, SessionAssumption DEF TypeOK
  <2>4. got' \in Seq(HttpResponse \cup {NONE})
    BY <1>6, <2>3, DeliverType DEF handle_read_write
  <2>5. pc' \in [Thread -> Label] /\ Parsed'
    BY <1>6, GotoTypes DEF handle_read_write, Label
  <2> QED
    BY <1>6, <2>3, <2>4, <2>5 DEF handle_read_write, TypeOK, client
<1>7. CASE handle_read_clear(t)
  <2>1. Leave(t) /\ buffer_' \in Seq(Request \X Nat)
    BY <1>7 DEF handle_read_clear
  <2> QED
    BY <1>7, <2>1, LeaveTypes DEF handle_read_clear, TypeOK, client
<1>8. CASE Rearm(t)
  <2>1. pc' \in [Thread -> Label] /\ Parsed'
    BY <1>8, GotoTypes DEF Rearm, Label
  <2> QED
    BY <1>8, <2>1 DEF Rearm, TypeOK, client
<1>9. CASE Return(t)
  BY <1>9, LeaveTypes DEF Return, TypeOK, client
<1> QED
  BY <1>1, <1>2, <1>3, <1>4, <1>5, <1>6, <1>7, <1>8, <1>9 DEF Step

(* The counts are numbers, so a count of shared_ptrs that is exact is one. *)
LEMMA RefsNat == ASSUME IInv PROVE refs \in Nat
<1>1. Active \in SUBSET Thread
  BY DEF Active
<1>2. Cardinality(Active) \in Nat
  BY <1>1, SessionAssumption, FS_Subset, FS_CardinalityType
<1> QED
  BY <1>2 DEF IInv, CountersOK, RefsExact

LEMMA TypeInvariance == Spec => [](TypeOK /\ Parsed)
<1>1. TypeOK /\ Parsed /\ (refs \in Nat)' /\ [Next]_vars => TypeOK' /\ Parsed'
  <2> SUFFICES ASSUME TypeOK, Parsed, refs' \in Nat, [Next]_vars PROVE TypeOK' /\ Parsed'
    OBVIOUS
  <2>2. CASE ClientSend \/ ClientClose
    BY <2>2, ClientTypes
  <2>3. CASE SendPart
    BY <2>3, SendPartTypes
  <2>4. CASE \E t \in Thread : Dispatch(t) \/ Step(t)
    BY <2>4, DispatchTypes, StepTypes
  <2>5. CASE UNCHANGED vars
    BY <2>5 DEF vars, frame, client, TypeOK, Parsed
  <2> QED
    BY <2>2, <2>3, <2>4, <2>5 DEF Next
<1>2. IInv => refs \in Nat
  BY RefsNat
<1> QED
  BY InitTypes, <1>1, <1>2, Invariance, PTL DEF Spec

(* Every variable of Session keeps its type, whatever the client sends:    *)
(* above all, refs never falls below 0, and a frame of handle_read that    *)
(* handles a request has parsed one.                                       *)
THEOREM TypeCorrectness == Spec => []TypeOK
  BY TypeInvariance, PTL
=============================================================================
