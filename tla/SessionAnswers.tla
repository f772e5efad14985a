--------------------------- MODULE SessionAnswers ---------------------------
(***************************************************************************)
(* Proofs about what a Session answers to a client as in GoodClient, for   *)
(* any number of threads and requests, bodies of any length, reads that    *)
(* cut them anywhere, and responses sent in any number of parts.           *)
(***************************************************************************)
EXTENDS SessionProofs

(* s is units a + 1 to b of request i. *)
IsRun(s, i, a, b) ==
  s \in Seq(Nat \X Nat) /\ Len(s) = b - a /\ \A k \in 1..Len(s) : s[k] = <<i, a + k>>

(* A response is not yet sent in full. *)
Writing == writes > 0 /\ wr.left > 0

(***************************************************************************)
(* Between two requests: what was sent has been answered, or the answer is *)
(* on its way, and nothing of it is left but in the buffer that a late     *)
(* frame is about to clear.                                                *)
(***************************************************************************)
Between ==
  /\ Complete(sent) /\ net = <<>>
  /\ \A t \in Thread : pc[t] \in {"idle", "clear", "rearm", "return"}
  /\ \A t, u \in Thread : pc[t] = "clear" /\ pc[u] = "clear" => t = u
  /\ (\A t \in Thread : pc[t] # "clear") => buffer_ = <<>>
  /\ Writing => sent[1] \in Request /\ wr.response = Expected(sent[1])
  /\ ~eof => Len(got) = IF Writing THEN sent[1] - 1 ELSE sent[1]

(* What a frame of handle_read knows of request i, a units of which are in *)
(* the buffer.                                                             *)
FrameOK(t, i, a) ==
  /\ pc[t] # "clear"
  /\ pc[t] \in {"check", "parse", "measure", "handle", "write"} => a >= 1
  /\ pc[t] \in {"measure", "handle"} =>
       request[t] = [cl |-> shape[i].cl, content_length |-> shape[i].content_length,
                     valid |-> shape[i].valid, throws |-> shape[i].throws,
                     raw |-> buffer_]
  /\ pc[t] = "measure" => shape[i].cl = "num"
  /\ pc[t] = "handle" => shape[i].cl # "bad"
  /\ pc[t] \in {"handle", "write"} => a = size(i)
  /\ pc[t] = "write" => response[t] = Expected(i)

(* Where the units of request i are: a in the buffer, up to b in data_     *)
(* while a frame is about to append them, the others on the way.           *)
Received(i, a, b) ==
  /\ a \in Nat /\ b \in Nat /\ a <= b /\ b <= sent[2]
  /\ IsRun(buffer_, i, 0, a) /\ IsRun(net, i, b, sent[2])
  /\ \/ a = b /\ \A t \in Thread : pc[t] # "append"
     \/ a < b /\ IsRun(data_, i, a, b) /\ \E t \in Thread : pc[t] = "append"
  /\ \A t \in Thread : FrameOK(t, i, a)

(***************************************************************************)
(* The last request is being received: every unit of it that was sent is   *)
(* in its place, and all the requests before have their answers.           *)
(***************************************************************************)
Receiving ==
  /\ sent[1] \in Request /\ sent[2] \in 1..size(sent[1])
  /\ \E a, b \in Nat : Received(sent[1], a, b)
  /\ ~Writing
  /\ ~eof => Len(got) = sent[1] - 1

AInv == AnswersMatch /\ (Between \/ Receiving)
-----------------------------------------------------------------------------
(* Sequences of units. *)

LEMMA RunEmpty == ASSUME NEW i, NEW a \in Nat PROVE IsRun(<<>>, i, a, a)
  BY DEF IsRun

LEMMA ConcatPlaces ==
  ASSUME NEW s \in Seq(Nat \X Nat), NEW t \in Seq(Nat \X Nat)
  PROVE  /\ s \o t \in Seq(Nat \X Nat) /\ Len(s \o t) = Len(s) + Len(t)
         /\ \A k \in 1..Len(s) : (s \o t)[k] = s[k]
         /\ \A k \in 1..Len(t) : (s \o t)[Len(s) + k] = t[k]
  OBVIOUS

(* buffer_ \o data_ *)
LEMMA RunConcat ==
  ASSUME NEW i, NEW a \in Nat, NEW b \in Nat, NEW c \in Nat, a <= b, b <= c,
         NEW s, NEW t, IsRun(s, i, a, b), IsRun(t, i, b, c)
  PROVE  IsRun(s \o t, i, a, c)
<1>1. /\ s \in Seq(Nat \X Nat) /\ t \in Seq(Nat \X Nat)
      /\ Len(s) = b - a /\ Len(t) = c - b
      /\ \A k \in 1..(b - a) : s[k] = <<i, a + k>>
      /\ \A k \in 1..(c - b) : t[k] = <<i, b + k>>
  BY DEF IsRun
<1>2. PICK r : r = s \o t
  OBVIOUS
<1>3. /\ r \in Seq(Nat \X Nat) /\ Len(r) = c - a
      /\ \A k \in 1..(b - a) : r[k] = s[k]
      /\ \A k \in 1..(c - b) : r[b - a + k] = t[k]
  <2>1. /\ r \in Seq(Nat \X Nat) /\ Len(r) = Len(s) + Len(t)
        /\ \A k \in 1..Len(s) : r[k] = s[k]
        /\ \A k \in 1..Len(t) : r[Len(s) + k] = t[k]
    <3>1. s \in Seq(Nat \X Nat) /\ t \in Seq(Nat \X Nat)
      BY <1>1
    <3> QED
      BY <1>2, <3>1, ConcatPlaces
  <2>2. (b - a) + (c - b) = c - a
    OBVIOUS
  <2> QED
    BY <1>1, <2>1, <2>2
<1>4. ASSUME NEW k \in 1..(c - a) PROVE r[k] = <<i, a + k>>
  <2>0. k \in 1..(b - a) \/ k - (b - a) \in 1..(c - b)
    OBVIOUS
  <2>1. CASE k \in 1..(b - a)
    BY <1>1, <1>3, <2>1
  <2>2. CASE k - (b - a) \in 1..(c - b)
    <3>1. PICK l \in 1..(c - b) : l = k - (b - a)
      BY <2>2
    <3>2. b + l = a + k /\ b - a + l = k
      BY <3>1
    <3> QED
      BY <1>1, <1>3, <3>2
  <2> QED
    BY <2>0, <2>1, <2>2, Zenon
<1> QED
  BY <1>2, <1>3, <1>4 DEF IsRun

LEMMA RunRest ==
  ASSUME NEW S, NEW s \in Seq(S), NEW n \in 0..Len(s)
  PROVE  /\ SubSeq(s, n + 1, Len(s)) \in Seq(S) /\ Len(SubSeq(s, n + 1, Len(s))) = Len(s) - n
         /\ \A k \in 1..(Len(s) - n) : SubSeq(s, n + 1, Len(s))[k] = s[n + 1 + k - 1]
  OBVIOUS

(* async_read_some takes the first n. *)
LEMMA RunSplit ==
  ASSUME NEW i, NEW b \in Nat, NEW c \in Nat, NEW n \in Nat, b + n <= c,
         NEW s, IsRun(s, i, b, c)
  PROVE  /\ IsRun(SubSeq(s, 1, n), i, b, b + n)
         /\ IsRun(SubSeq(s, n + 1, Len(s)), i, b + n, c)
<1>1. /\ s \in Seq(Nat \X Nat) /\ Len(s) = c - b /\ Len(s) \in Nat
      /\ \A k \in 1..Len(s) : s[k] = <<i, b + k>>
  BY DEF IsRun
<1>2. IsRun(SubSeq(s, 1, n), i, b, b + n)
  <2>1. PICK t : t = SubSeq(s, 1, n)
    OBVIOUS
  <2>2. t \in Seq(Nat \X Nat) /\ Len(t) = n /\ \A k \in 1..n : t[k] = s[k]
    BY <1>1, <2>1
  <2>3. b + n - b = n /\ \A k \in 1..n : k \in 1..Len(s)
    BY <1>1
  <2>4. PICK d \in Nat : d = b + n
    OBVIOUS
  <2>5. Len(t) = d - b /\ \A k \in 1..Len(t) : t[k] = <<i, b + k>>
    <3>1. Len(t) = d - b /\ Len(t) = n
      BY <2>2, <2>4
    <3>2. ASSUME NEW k \in 1..n PROVE t[k] = <<i, b + k>>
      <4>1. k \in 1..Len(s)
        BY <2>3
      <4> QED
        BY <1>1, <2>2, <4>1
    <3> QED
      BY <3>1, <3>2
  <2>6. IsRun(t, i, b, d)
    BY <2>2, <2>5 DEF IsRun
  <2> QED
    BY <2>1, <2>4, <2>6
<1>3. IsRun(SubSeq(s, n + 1, Len(s)), i, b + n, c)
  <2>1. PICK t : t = SubSeq(s, n + 1, Len(s))
    OBVIOUS
  <2>2. /\ t \in Seq(Nat \X Nat) /\ Len(t) = c - (b + n)
        /\ \A k \in 1..Len(t) : t[k] = s[n + k]
    <3>1. PICK l \in Nat : l = Len(s) /\ n <= l /\ l - n = c - (b + n)
      BY <1>1
    <3>2. /\ t \in Seq(Nat \X Nat) /\ Len(t) = l - n
          /\ \A k \in 1..(l - n) : t[k] = s[n + 1 + k - 1]
      <4>1. n \in 0..Len(s)
        BY <1>1
      <4> QED
        BY <1>1, <2>1, <3>1, <4>1, RunRest
    <3>3. \A k \in 1..(l - n) : n + 1 + k - 1 = n + k
      OBVIOUS
    <3> QED
      BY <3>1, <3>2, <3>3
  <2>3. ASSUME NEW k \in 1..Len(t) PROVE t[k] = <<i, b + n + k>>
    <3>1. n + k \in 1..Len(s) /\ b + (n + k) = b + n + k
      BY <1>1, <2>2
    <3> QED
      BY <1>1, <2>2, <3>1
  <2> QED
    BY <2>1, <2>2, <2>3 DEF IsRun
<1> QED
  BY <1>2, <1>3

(* The client sends one more. *)
LEMMA RunAppend ==
  ASSUME NEW i \in Nat, NEW b \in Nat, NEW c \in Nat, b <= c,
         NEW s, IsRun(s, i, b, c)
  PROVE  IsRun(Append(s, <<i, c + 1>>), i, b, c + 1)
<1>1. /\ s \in Seq(Nat \X Nat) /\ Len(s) = c - b /\ Len(s) \in Nat
      /\ \A k \in 1..Len(s) : s[k] = <<i, b + k>>
  BY DEF IsRun
<1>2. PICK l, r : l = Len(s) /\ r = Append(s, <<i, c + 1>>)
  OBVIOUS
<1>3. /\ r \in Seq(Nat \X Nat) /\ Len(r) = l + 1 /\ r[l + 1] = <<i, c + 1>>
      /\ \A k \in 1..l : r[k] = s[k]
  BY <1>1, <1>2
<1>4. /\ l + 1 = c + 1 - b /\ b + (l + 1) = c + 1
      /\ \A k \in 1..(l + 1) : k \in 1..l \/ k = l + 1
  BY <1>1, <1>2
<1>5. \A k \in 1..(l + 1) : r[k] = <<i, b + k>>
  BY <1>1, <1>2, <1>3, <1>4
<1>6. IsRun(r, i, b, c + 1)
  BY <1>3, <1>4, <1>5 DEF IsRun
<1> QED
  BY <1>2, <1>6

LEMMA ShapeFacts ==
  ASSUME GoodClient, TypeOK, NEW i \in Request
  PROVE  /\ shape[i].hdr = 1 /\ shape[i].term = "crlf"
         /\ shape[i].cl \in {"none", "bad", "num"}
         /\ shape[i].content_length \in Nat
         /\ shape[i].body = IF shape[i].cl = "num" THEN shape[i].content_length ELSE 0
         /\ size(i) \in Nat /\ size(i) = 1 + shape[i].body
         /\ i \in Nat \ {0}
<1>1. shape[i] \in Shape
  BY DEF TypeOK
<1>2. /\ shape[i].hdr = 1 /\ shape[i].term = "crlf"
      /\ shape[i].body = IF shape[i].cl = "num" THEN shape[i].content_length ELSE 0
  BY <1>1 DEF GoodClient
<1>3. /\ shape[i].body \in Nat /\ shape[i].cl \in {"none", "bad", "num"}
      /\ shape[i].content_length \in 0..(SIZE_MOD - 1)
  BY <1>1, SessionAssumption
<1> QED
  BY <1>2, <1>3, SessionAssumption DEF size, Request

(* A buffer that holds all of request i is the request. *)
LEMMA RunWhole ==
  ASSUME GoodClient, TypeOK, NEW i \in Request, NEW s, IsRun(s, i, 0, size(i))
  PROVE  s = units(i)
<1>1. size(i) \in Nat
  BY ShapeFacts
<1> QED
  BY <1>1 DEF IsRun, units

(* What handle_read finds in a buffer that begins with the header of i. *)
LEMMA BufferFacts ==
  ASSUME GoodClient, TypeOK, NEW i \in Request, NEW a \in Nat, a >= 1,
         IsRun(buffer_, i, 0, a)
  PROVE  /\ ~check_malformed_request(buffer_)
         /\ detect_http_request(buffer_)
         /\ body_received(buffer_) = a - 1
         /\ parse(buffer_) = {[cl |-> shape[i].cl,
              content_length |-> shape[i].content_length, valid |-> shape[i].valid,
              throws |-> shape[i].throws, raw |-> buffer_]}
<1>1. /\ buffer_ \in Seq(Nat \X Nat) /\ Len(buffer_) = a /\ DOMAIN buffer_ = 1..a
      /\ \A k \in 1..a : buffer_[k] = <<i, k>>
  BY DEF IsRun
<1>2. \A k \in 1..a : crlf(buffer_[k]) <=> k = 1
  BY <1>1, ShapeFacts DEF crlf
<1>3. has_crlfcrlf(buffer_)
  BY <1>1, <1>2 DEF has_crlfcrlf
<1>4. ~check_malformed_request(buffer_) /\ detect_http_request(buffer_)
  BY <1>1, <1>3 DEF check_malformed_request, detect_http_request
<1>5. body_received(buffer_) = a - 1
  <2> DEFINE ends == {n \in DOMAIN buffer_ :
                        IF has_crlfcrlf(buffer_) THEN crlf(buffer_[n]) ELSE lf(buffer_[n])}
  <2>1. ends = {1}
    BY <1>1, <1>2, <1>3
  <2> HIDE DEF ends
  <2>2. (CHOOSE n \in ends : \A m \in ends : n <= m) = 1
    BY <2>1
  <2>3. Len(buffer_) - (CHOOSE n \in ends : \A m \in ends : n <= m) = a - 1
    BY <1>1, <2>2
  <2> QED
    BY <2>1, <2>3 DEF body_received, ends
<1>6. \A j \in Request : Headed(buffer_, j) <=> j = i
  BY <1>1, ShapeFacts DEF Headed
<1>7. {j \in Request : Headed(buffer_, j)} = {i}
  BY <1>6
<1>8. parse(buffer_) = {[cl |-> shape[i].cl,
        content_length |-> shape[i].content_length, valid |-> shape[i].valid,
        throws |-> shape[i].throws, raw |-> buffer_]}
  BY <1>6, <1>7 DEF parse
<1> QED
  BY <1>4, <1>5, <1>8
-----------------------------------------------------------------------------
(* Facts that the steps share. *)

(* A frame that has still to start an operation is alone. *)
LEMMA OneHolder ==
  ASSUME IInv, NEW t \in Thread, pc[t] \notin {"idle", "clear", "return"}
  PROVE  /\ reads = 0 /\ writes = 0
         /\ \A u \in Thread : u # t => pc[u] \in {"idle", "clear", "return"}
<1>1. Holder \in SUBSET Thread /\ t \in Holder
  BY DEF Holder
<1>2. IsFiniteSet(Holder)
  BY <1>1, SessionAssumption, FS_Subset
<1>3. IsFiniteSet(Holder \ {t}) /\ Cardinality(Holder \ {t}) = Cardinality(Holder) - 1
  BY <1>1, <1>2, FS_RemoveElement
<1>4. Cardinality(Holder) \in Nat /\ Cardinality(Holder \ {t}) \in Nat
  BY <1>2, <1>3, FS_CardinalityType
<1>5. reads = 0 /\ writes = 0 /\ Cardinality(Holder \ {t}) = 0
  BY <1>3, <1>4 DEF IInv, CountersOK, OneOperation
<1>6. Holder \ {t} = {}
  BY <1>3, <1>5, FS_EmptySet
<1> QED
  BY <1>5, <1>6 DEF Holder

LEMMA SameAnswers == ASSUME AnswersMatch, UNCHANGED <<shape, got>> PROVE AnswersMatch'
  BY DEF AnswersMatch, Expected, units, size

(* The answer to the last request, or what became of it, is added. *)
LEMMA NewAnswer ==
  ASSUME TypeOK, AnswersMatch, shape' = shape, NEW i \in Request, Len(got) = i - 1,
         NEW x, x = NONE \/ x = Expected(i), got' = Append(got, x)
  PROVE  AnswersMatch' /\ Len(got') = i
<1>1. got \in Seq(HttpResponse \cup {NONE}) /\ i \in Nat
  BY DEF TypeOK, Request
<1>2. \A n \in Request : Expected(n)' = Expected(n)
  BY DEF Expected, units, size
<1>3. Len(got') = i /\ DOMAIN got' = 1..i /\ got'[i] = x
      /\ \A n \in 1..(i - 1) : n \in DOMAIN got /\ got'[n] = got[n]
  BY <1>1
<1>4. ASSUME NEW n \in DOMAIN got', got'[n] # NONE
      PROVE  n \in Request /\ got'[n] = Expected(n)
  <2>1. n = i \/ n \in 1..(i - 1)
    BY <1>1, <1>3
  <2> QED
    BY <1>3, <1>4, <2>1 DEF AnswersMatch
<1> QED
  BY <1>2, <1>3, <1>4 DEF AnswersMatch, Request

(* The end of a frame changes nothing of the response but its owner. *)
LEMMA LeaveWrites ==
  ASSUME TypeOK, NEW t \in Thread, Leave(t), writes' = writes
  PROVE  (Writing' <=> Writing) /\ wr'.response = wr.response
  BY DEF TypeOK, Leave, Writing
-----------------------------------------------------------------------------
(* Steps from Between. *)

LEMMA BetweenSend ==
  ASSUME GoodClient, TypeOK, AnswersMatch, Between, ClientSend PROVE Receiving'
<1>1. PICK i \in Nat : i = sent[1] + 1
  BY DEF TypeOK
<1>2. /\ sent' = <<i, 1>> /\ i \in Request /\ net' = Append(<<>>, <<i, 1>>)
      /\ sent[1] - Len(got) < MaxInFlight /\ ~eof
      /\ \A t \in Thread : pc[t] = "idle"
  BY <1>1 DEF Between, ClientSend, GoodClient
<1>3. UNCHANGED <<shape, eof, got, buffer_, writes, wr, pc, request, response>>
  BY DEF ClientSend, frame
<1>4. Len(got) \in Nat /\ MaxInFlight \in Nat /\ MaxInFlight <= 1 /\ sent[1] \in Nat
  BY SessionAssumption DEF TypeOK, GoodClient
<1>5. ~Writing /\ Len(got) = i - 1
  BY <1>1, <1>2, <1>4 DEF Between
<1>6. 1 \in 1..size(i) /\ size(i)' = size(i)
  BY <1>2, <1>3, ShapeFacts DEF size
<1>7. buffer_ = <<>> /\ IsRun(<<>>, i, 0, 0)
  BY <1>2, RunEmpty DEF Between
<1>8. IsRun(net', i, 0, 1)
  <2>1. net' = << <<i, 1>> >> /\ <<i, 1>> \in Nat \X Nat
    BY <1>2
  <2> QED
    BY <2>1 DEF IsRun
<1>9. \A t \in Thread : FrameOK(t, i, 0)' /\ pc'[t] # "append"
  BY <1>2, <1>3 DEF FrameOK
<1>10. sent'[1] = i /\ sent'[2] = 1
  BY <1>2
<1>11. Received(i, 0, 0)'
  BY <1>3, <1>7, <1>8, <1>9, <1>10 DEF Received
<1> QED
  BY <1>2, <1>3, <1>5, <1>6, <1>10, <1>11 DEF Receiving, Writing

LEMMA BetweenPart ==
  ASSUME GoodClient, TypeOK, AnswersMatch, Between, SendPart
  PROVE  AnswersMatch' /\ Between'
<1>1. PICK i : i = sent[1]
  OBVIOUS
<1>2. Writing /\ ~eof /\ i \in Request /\ wr.response = Expected(i) /\ Len(got) = i - 1
  BY <1>1, Zenon DEF SendPart, Writing, Between
<1>3. UNCHANGED <<shape, sent, net, eof, buffer_, writes, pc>>
  BY Zenon DEF SendPart, client, frame
<1>4. wr'.left = wr.left - 1 /\ wr'.response = wr.response
  <2>1. PICK x : wr' = [[wr EXCEPT !.left = wr.left - 1] EXCEPT !.intact = x]
    BY Zenon DEF SendPart
  <2>2. wr \in [response : HttpResponse \cup {NONE}, left : Nat,
               owner : Thread \cup {NONE}, intact : BOOLEAN]
    BY DEF TypeOK
  <2> QED
    BY <2>1, <2>2
<1>5. Deliver(wr') /\ wr.left \in Nat \ {0} /\ writes > 0
  <2>1. Deliver(wr') /\ wr.left > 0 /\ writes > 0
    BY Zenon DEF SendPart
  <2> QED
    BY <2>1 DEF TypeOK
<1>6. Expected(i)' = Expected(i)
  BY <1>3 DEF Expected, units, size
<1>7. CASE wr.left = 1
  <2>1. PICK x : (x = NONE \/ x = Expected(i)) /\ got' = Append(got, x)
    BY <1>2, <1>4, <1>5, <1>7 DEF Deliver
  <2>2. AnswersMatch' /\ Len(got') = i
    BY <1>2, <1>3, <2>1, NewAnswer
  <2>3. ~Writing'
    BY <1>4, <1>7 DEF Writing
  <2> QED
    BY <1>1, <1>3, <2>2, <2>3 DEF Between, Complete, size
<1>8. CASE wr.left > 1
  <2>1. got' = got
    BY <1>4, <1>5, <1>8 DEF Deliver
  <2>2. Writing'
    BY <1>3, <1>4, <1>5, <1>8 DEF Writing
  <2>3. AnswersMatch'
    BY <1>3, <2>1, SameAnswers
  <2> QED
    BY <1>1, <1>2, <1>3, <1>4, <1>6, <2>1, <2>2, <2>3 DEF Between, Complete, size
<1> QED
  BY <1>5, <1>7, <1>8

(* Nothing is there to be read, and no frame is in the middle of           *)
(* handle_read.                                                            *)
LEMMA BetweenDispatch ==
  ASSUME TypeOK, AnswersMatch, Between, NEW t \in Thread, Dispatch(t)
  PROVE  AnswersMatch' /\ Between'
<1>1. ~\E n \in 1..max_length : ReadComplete(t, n)
  <2>1. Len(net) = 0
    BY DEF Between
  <2> QED
    BY <2>1, SessionAssumption DEF ReadComplete
<1>2. ReadError(t) \/ handle_write(t) \/ WriteError(t)
  BY <1>1 DEF Dispatch
<1>3. UNCHANGED <<shape, sent, net, eof, got, buffer_, wr>>
  BY <1>2 DEF ReadError, handle_write, WriteError, client
<1>4. \E l \in {"rearm", "return"} : Goto(t, l)
  BY <1>2 DEF ReadError, handle_write, WriteError
<1>5. /\ pc'[t] \in {"rearm", "return"} /\ \A u \in Thread : u # t => pc'[u] = pc[u]
      /\ pc[t] = "idle"
  BY <1>2, <1>4 DEF Goto, TypeOK, ReadError, handle_write, WriteError, At
<1>6. (Writing' => Writing) /\ (~eof => (Writing' <=> Writing))
  BY <1>2, <1>3 DEF ReadError, handle_write, WriteError, Writing, TypeOK
<1> QED
  BY <1>3, <1>5, <1>6, SameAnswers DEF Between, Complete, size, Expected, units

LEMMA BetweenStep ==
  ASSUME TypeOK, AnswersMatch, Between, NEW t \in Thread, Step(t)
  PROVE  AnswersMatch' /\ Between'
<1>1. handle_read_clear(t) \/ Rearm(t) \/ Return(t)
  <2>1. pc[t] \in {"idle", "clear", "rearm", "return"}
    BY DEF Between
  <2> QED
    BY <2>1 DEF Step, At, handle_read_append, handle_read_check, handle_read_parse,
       handle_read_measure, handle_read_handle, handle_read_write
<1>2. UNCHANGED <<shape, sent, net, eof, got, writes>>
  BY <1>1 DEF handle_read_clear, Rearm, Return, client
<1>3. (Writing' <=> Writing) /\ wr'.response = wr.response
  <2>1. CASE Rearm(t)
    BY <2>1 DEF Rearm, Writing
  <2>2. CASE handle_read_clear(t) \/ Return(t)
    BY <1>2, <2>2, LeaveWrites DEF handle_read_clear, Return
  <2> QED
    BY <1>1, <2>1, <2>2
<1>4. /\ pc'[t] \in {"idle", "return"} /\ \A u \in Thread : u # t => pc'[u] = pc[u]
  BY <1>1 DEF handle_read_clear, Rearm, Return, Leave, Goto, TypeOK
<1>5. (\A u \in Thread : pc'[u] # "clear") => buffer_' = <<>>
  <2>1. CASE handle_read_clear(t)
    BY <2>1 DEF handle_read_clear
  <2>2. CASE Rearm(t) \/ Return(t)
    <3>1. buffer_' = buffer_ /\ pc[t] # "clear"
      BY <2>2 DEF Rearm, Return, At
    <3> QED
      BY <1>4, <3>1 DEF Between
  <2> QED
    BY <1>1, <2>1, <2>2
<1> QED
  BY <1>2, <1>3, <1>4, <1>5, SameAnswers DEF Between, Complete, size, Expected, units
-----------------------------------------------------------------------------
(* Steps from Receiving. *)

(* The frames and the places of the units, after a step of a frame that    *)
(* starts or ends but is not in the middle of handle_read.                 *)
LEMMA ReceivingQuiet ==
  ASSUME Receiving, UNCHANGED <<shape, sent, net, eof, got, data_, buffer_>>,
         \A u \in Thread :
           \/ <<pc'[u], request'[u], response'[u]>> = <<pc[u], request[u], response[u]>>
           \/ pc'[u] \in {"idle", "rearm", "return"} /\ pc[u] # "append",
         Writing' => Writing
  PROVE  Receiving'
<1>1. PICK i : i = sent[1]
  OBVIOUS
<1>2. PICK a \in Nat, b \in Nat : Received(i, a, b)
  BY <1>1 DEF Receiving
<1>3. \A u \in Thread : FrameOK(u, i, a)'
  BY <1>2 DEF Received, FrameOK, Expected, units, size
<1>4. Received(i, a, b)'
  BY <1>2, <1>3 DEF Received
<1> QED
  BY <1>1, <1>4 DEF Receiving, size

LEMMA ReceivingClose ==
  ASSUME Receiving, ClientClose PROVE Receiving'
<1>1. PICK i : i = sent[1]
  OBVIOUS
<1>2. PICK a \in Nat, b \in Nat : Received(i, a, b)
  BY <1>1 DEF Receiving
<1>3. UNCHANGED <<shape, sent, net, got, data_, buffer_, writes, wr, pc, request, response>>
      /\ eof' = TRUE
  BY DEF ClientClose, frame
<1>4. Received(i, a, b)'
  BY <1>2, <1>3 DEF Received, FrameOK, Expected, units, size
<1> QED
  BY <1>1, <1>3, <1>4 DEF Receiving, Writing, size

LEMMA BetweenClose == ASSUME Between, ClientClose PROVE Between'
<1>1. UNCHANGED <<shape, sent, net, got, data_, buffer_, writes, wr, pc>> /\ eof' = TRUE
  BY DEF ClientClose, frame
<1> QED
  BY <1>1 DEF Between, Writing, Complete, Expected, units, size

(* The rest of the request; no other may begin before the answer. *)
LEMMA ReceivingSend ==
  ASSUME GoodClient, TypeOK, Receiving, ClientSend PROVE Receiving'
<1>1. PICK i : i = sent[1]
  OBVIOUS
<1>2. PICK a \in Nat, b \in Nat : Received(i, a, b)
  BY <1>1 DEF Receiving
<1>3. PICK c \in Nat : c = sent[2] /\ c >= 1 /\ c <= size(i)
  BY <1>1 DEF Receiving, TypeOK
<1>4. i \in Request /\ i \in Nat /\ size(i) \in Nat
  BY <1>1, ShapeFacts DEF Receiving
<1>5. sent = <<i, c>>
  BY <1>1, <1>3 DEF TypeOK
<1>6. UNCHANGED <<shape, eof, got, data_, buffer_, writes, wr, pc, request, response>> /\ ~eof
  BY DEF ClientSend, frame
<1>7. ~Complete(sent)
  <2> SUFFICES ASSUME Complete(sent) PROVE FALSE
    OBVIOUS
  <2>1. sent[1] - Len(got) < MaxInFlight
    BY DEF ClientSend
  <2>2. Len(got) = i - 1 /\ MaxInFlight \in Nat /\ MaxInFlight <= 1
    BY <1>1, <1>6, SessionAssumption DEF Receiving, GoodClient
  <2> QED
    BY <1>1, <1>4, <2>1, <2>2
<1>8. sent' = <<i, c + 1>> /\ net' = Append(net, <<i, c + 1>>)
  BY <1>5, <1>7 DEF ClientSend
<1>9. c + 1 \in 1..size(i) /\ size(i)' = size(i)
  <2>1. i # 0 /\ c # size(i)
    BY <1>4, <1>5, <1>7 DEF Complete, Request
  <2>2. size(i)' = size(i)
    BY <1>6 DEF size
  <2> QED
    BY <1>3, <1>4, <2>1, <2>2
<1>10. IsRun(net', i, b, c + 1)
  BY <1>2, <1>3, <1>4, <1>8, RunAppend DEF Received
<1>11. \A t \in Thread : FrameOK(t, i, a)'
  BY <1>2, <1>6 DEF Received, FrameOK, Expected, units, size
<1>12. sent'[1] = i /\ sent'[2] = c + 1
  BY <1>8
<1>13. Received(i, a, b)'
  <2>1. a <= b /\ b <= c + 1 /\ IsRun(buffer_', i, 0, a)
    BY <1>2, <1>3, <1>6 DEF Received
  <2>2. \/ a = b /\ \A t \in Thread : pc'[t] # "append"
        \/ a < b /\ IsRun(data_', i, a, b) /\ \E t \in Thread : pc'[t] = "append"
    BY <1>2, <1>6 DEF Received
  <2> QED
    BY <1>10, <1>11, <1>12, <2>1, <2>2 DEF Received
<1> QED
  BY <1>1, <1>4, <1>6, <1>9, <1>12, <1>13 DEF Receiving, Writing

(* async_read_some takes units on the way; the frame that was given them   *)
(* is the only one in handle_read.                                         *)
LEMMA ReceivingRead ==
  ASSUME GoodClient, TypeOK, IInv, IInv', Receiving,
         NEW t \in Thread, NEW n \in 1..max_length, ReadComplete(t, n)
  PROVE  Receiving'
<1>1. PICK i : i = sent[1]
  OBVIOUS
<1>2. PICK a \in Nat, b \in Nat : Received(i, a, b)
  BY <1>1 DEF Receiving
<1>3. PICK c \in Nat : c = sent[2]
  BY DEF TypeOK
<1>4. /\ UNCHANGED <<shape, sent, eof, got, buffer_, writes, wr, request, response>>
      /\ n \in Nat \ {0} /\ n <= Len(net)
      /\ data_' = SubSeq(net, 1, n) /\ net' = SubSeq(net, n + 1, Len(net))
  BY SessionAssumption DEF ReadComplete
<1>5. pc'[t] = "append" /\ \A u \in Thread : u # t => pc'[u] = pc[u]
  BY DEF ReadComplete, Goto, TypeOK
<1>6. reads > 0
  BY DEF ReadComplete
<1>7. \A u \in Thread : pc[u] \in {"idle", "clear", "return"}
  BY <1>6, OneHolder
<1>8. a = b /\ b + n <= c /\ IsRun(net, i, b, c)
  <2>1. a = b /\ IsRun(net, i, b, c)
    BY <1>2, <1>3, <1>7 DEF Received
  <2>2. Len(net) = c - b
    BY <2>1 DEF IsRun
  <2> QED
    BY <1>4, <2>1, <2>2
<1>9. IsRun(data_', i, b, b + n) /\ IsRun(net', i, b + n, c)
  BY <1>4, <1>8, RunSplit
<1>10. \A u \in Thread : FrameOK(u, i, a)'
  BY <1>2, <1>4, <1>5, <1>7 DEF Received, FrameOK
<1>11. Received(i, a, b + n)'
  <2>1. IsRun(buffer_', i, 0, a) /\ sent'[2] = c
    BY <1>2, <1>3, <1>4 DEF Received
  <2>2. b + n \in Nat /\ a < b + n /\ a <= b + n
    BY <1>4, <1>8
  <2> QED
    BY <1>5, <1>8, <1>9, <1>10, <2>1, <2>2 DEF Received
<1> QED
  BY <1>1, <1>4, <1>11 DEF Receiving, Writing, size

LEMMA ReceivingDispatch ==
  ASSUME GoodClient, TypeOK, IInv, IInv', AnswersMatch, Receiving,
         NEW t \in Thread, Dispatch(t)
  PROVE  AnswersMatch' /\ Receiving'
<1>1. CASE \E n \in 1..max_length : ReadComplete(t, n)
  BY <1>1, ReceivingRead, SameAnswers DEF ReadComplete
<1>2. CASE ReadError(t) \/ handle_write(t) \/ WriteError(t)
  <2>1. UNCHANGED <<shape, sent, net, eof, got, data_, buffer_, wr, request, response>>
    BY <1>2 DEF ReadError, handle_write, WriteError, client
  <2>2. \A u \in Thread : \/ pc'[u] = pc[u]
                          \/ pc'[u] \in {"idle", "rearm", "return"} /\ pc[u] # "append"
    BY <1>2 DEF ReadError, handle_write, WriteError, At, Goto, TypeOK
  <2>3. Writing' => Writing
    BY <1>2, <2>1 DEF ReadError, handle_write, WriteError, Writing, TypeOK
  <2>4. \A u \in Thread :
          \/ <<pc'[u], request'[u], response'[u]>> = <<pc[u], request[u], response[u]>>
          \/ pc'[u] \in {"idle", "rearm", "return"} /\ pc[u] # "append"
    BY <2>1, <2>2
  <2>5. Receiving'
    BY <2>1, <2>3, <2>4, ReceivingQuiet
  <2> QED
    BY <2>1, <2>5, SameAnswers
<1> QED
  BY <1>1, <1>2 DEF Dispatch

(* The frame that runs handle_read moves on: the others are not in it. *)
LEMMA ReceivingMove ==
  ASSUME TypeOK, IInv, Receiving, UNCHANGED <<shape, sent, net, eof, got, buffer_, writes, wr>>,
         NEW t \in Thread, pc[t] \notin {"idle", "clear", "return", "append"},
         NEW label, Goto(t, label), label # "append",
         NEW a \in Nat, NEW b \in Nat, Received(sent[1], a, b), FrameOK(t, sent[1], a)'
  PROVE  Receiving'
<1>1. PICK i : i = sent[1]
  OBVIOUS
<1>2. pc'[t] = label /\ \A u \in Thread : u # t => pc'[u] = pc[u]
  BY DEF Goto, TypeOK
<1>3. \A u \in Thread : u # t => pc[u] \in {"idle", "clear", "return"}
  BY OneHolder
<1>4. \A u \in Thread : pc[u] # "append" /\ pc'[u] # "append"
  BY <1>2, <1>3
<1>5. a = b
  BY <1>4 DEF Received
<1>6. \A u \in Thread : FrameOK(u, i, a)'
  BY <1>1, <1>2, <1>3 DEF Received, FrameOK
<1>7. Received(i, a, b)'
  BY <1>1, <1>4, <1>5, <1>6 DEF Received
<1> QED
  BY <1>1, <1>7 DEF Receiving, Writing, size

LEMMA ReceivingAppend ==
  ASSUME TypeOK, IInv, Receiving, NEW t \in Thread, handle_read_append(t)
  PROVE  Receiving'
<1>1. PICK i : i = sent[1]
  OBVIOUS
<1>2. PICK a \in Nat, b \in Nat : Received(i, a, b)
  BY <1>1 DEF Receiving
<1>3. /\ UNCHANGED <<shape, sent, net, eof, got, writes, wr, request, response>>
      /\ buffer_' = buffer_ \o data_ /\ pc[t] = "append"
  BY DEF handle_read_append, At, client
<1>4. pc'[t] = "check" /\ \A u \in Thread : u # t => pc'[u] = pc[u]
  BY DEF handle_read_append, Goto, TypeOK
<1>5. \A u \in Thread : u # t => pc[u] \in {"idle", "clear", "return"}
  BY <1>3, OneHolder
<1>6. a < b /\ IsRun(data_, i, a, b) /\ IsRun(buffer_, i, 0, a)
  BY <1>2, <1>3 DEF Received
<1>7. IsRun(buffer_', i, 0, b)
  BY <1>3, <1>6, RunConcat
<1>8. \A u \in Thread : FrameOK(u, i, b)'
  BY <1>2, <1>4, <1>5, <1>6 DEF Received, FrameOK
<1>9. \A u \in Thread : pc'[u] # "append"
  BY <1>4, <1>5
<1>10. Received(i, b, b)'
  BY <1>2, <1>3, <1>7, <1>8, <1>9 DEF Received
<1> QED
  BY <1>1, <1>3, <1>10 DEF Receiving, Writing, size

(* A request with its header is neither malformed nor unfinished. *)
LEMMA ReceivingCheck ==
  ASSUME GoodClient, TypeOK, IInv, Receiving, NEW t \in Thread, handle_read_check(t)
  PROVE  Receiving'
<1>1. PICK a \in Nat, b \in Nat : Received(sent[1], a, b)
  BY DEF Receiving
<1>2. /\ UNCHANGED <<shape, sent, net, eof, got, buffer_, writes, wr>> /\ pc[t] = "check"
  BY DEF handle_read_check, At, client
<1>3. a >= 1 /\ IsRun(buffer_, sent[1], 0, a) /\ sent[1] \in Request
  BY <1>1, <1>2 DEF Received, FrameOK, Receiving
<1>4. Goto(t, "parse")
  BY <1>3, BufferFacts DEF handle_read_check
<1>5. FrameOK(t, sent[1], a)'
  BY <1>3, <1>4 DEF FrameOK, Goto, TypeOK
<1> QED
  BY <1>1, <1>2, <1>4, <1>5, ReceivingMove

LEMMA ReceivingParse ==
  ASSUME GoodClient, TypeOK, IInv, Receiving, NEW t \in Thread, handle_read_parse(t)
  PROVE  Receiving'
<1>1. PICK a \in Nat, b \in Nat : Received(sent[1], a, b)
  BY DEF Receiving
<1>2. PICK i : i = sent[1]
  OBVIOUS
<1>3. /\ UNCHANGED <<shape, sent, net, eof, got, buffer_, writes, wr>> /\ pc[t] = "parse"
  BY DEF handle_read_parse, At, client
<1>4. a >= 1 /\ IsRun(buffer_, i, 0, a) /\ i \in Request
  BY <1>1, <1>2, <1>3 DEF Received, FrameOK, Receiving
<1> DEFINE r == [cl |-> shape[i].cl, content_length |-> shape[i].content_length,
                 valid |-> shape[i].valid, throws |-> shape[i].throws, raw |-> buffer_]
<1>5. detect_http_request(buffer_) /\ parse(buffer_) = {r}
  BY <1>4, BufferFacts
<1>6. r.cl = shape[i].cl /\ r' = r
  BY <1>3
<1> HIDE DEF r
<1>7. /\ request' = [request EXCEPT ![t] = r]
      /\ \/ shape[i].cl = "bad" /\ Respond(t, BadRequest)
         \/ shape[i].cl = "num" /\ Goto(t, "measure")
         \/ shape[i].cl = "none" /\ Goto(t, "handle")
  BY <1>5, <1>6 DEF handle_read_parse
<1>8. request'[t] = r
  BY <1>7 DEF TypeOK
<1>9. a <= size(i) /\ (shape[i].cl # "num" => a = size(i))
  <2>1. a \in Nat /\ b \in Nat /\ a <= b /\ b <= sent[2] /\ sent[2] \in Nat /\ sent[2] <= size(i)
    BY <1>1, <1>2 DEF Received, Receiving, TypeOK
  <2>2. size(i) \in Nat /\ (shape[i].cl # "num" => size(i) = 1)
    BY <1>4, ShapeFacts
  <2> QED
    BY <1>4, <2>1, <2>2
<1>10. CASE shape[i].cl = "bad"
  <2>1. Goto(t, "write") /\ response'[t] = BadRequest
    BY <1>7, <1>10 DEF Respond, TypeOK
  <2>2. Expected(i)' = BadRequest /\ size(i)' = size(i)
    BY <1>3, <1>10 DEF Expected, size, BadRequest
  <2>3. FrameOK(t, i, a)'
    BY <1>4, <1>9, <1>10, <2>1, <2>2 DEF FrameOK, Goto, TypeOK
  <2> QED
    BY <1>1, <1>2, <1>3, <2>1, <2>3, ReceivingMove
<1>11. CASE shape[i].cl = "num"
  <2>1. Goto(t, "measure")
    BY <1>7, <1>11
  <2>2. FrameOK(t, i, a)'
    BY <1>3, <1>4, <1>6, <1>8, <1>11, <2>1 DEF FrameOK, Goto, TypeOK, r
  <2> QED
    BY <1>1, <1>2, <1>3, <2>1, <2>2, ReceivingMove
<1>12. CASE shape[i].cl = "none"
  <2>1. Goto(t, "handle")
    BY <1>7, <1>12
  <2>2. FrameOK(t, i, a)'
    BY <1>3, <1>4, <1>6, <1>8, <1>9, <1>12, <2>1 DEF FrameOK, Goto, TypeOK, r, size
  <2> QED
    BY <1>1, <1>2, <1>3, <2>1, <2>2, ReceivingMove
<1> QED
  BY <1>7, <1>10, <1>11, <1>12

(* The body is measured in full: nothing of it is on the way when it is    *)
(* handled.                                                                *)
LEMMA ReceivingMeasure ==
  ASSUME GoodClient, TypeOK, IInv, Receiving, NEW t \in Thread, handle_read_measure(t)
  PROVE  Receiving'
<1>1. PICK a \in Nat, b \in Nat : Received(sent[1], a, b)
  BY DEF Receiving
<1>2. PICK i : i = sent[1]
  OBVIOUS
<1>3. /\ UNCHANGED <<shape, sent, net, eof, got, buffer_, writes, wr, request, response>>
      /\ pc[t] = "measure"
  BY DEF handle_read_measure, At, client
<1>4. /\ a >= 1 /\ IsRun(buffer_, i, 0, a) /\ i \in Request /\ shape[i].cl = "num"
      /\ request[t] = [cl |-> shape[i].cl, content_length |-> shape[i].content_length,
                       valid |-> shape[i].valid, throws |-> shape[i].throws,
                       raw |-> buffer_]
  BY <1>1, <1>2, <1>3 DEF Received, FrameOK, Receiving
<1>5. body_received(buffer_) = a - 1 /\ request[t].content_length = shape[i].body
  BY <1>4, BufferFacts, ShapeFacts
<1>6. size(i) = 1 + shape[i].body /\ shape[i].body \in Nat
  BY <1>4, ShapeFacts
<1>7. a <= size(i) /\ size(i)' = size(i)
  BY <1>1, <1>2, <1>3, <1>6 DEF Received, Receiving, TypeOK, size
<1>8. CASE Goto(t, "rearm")
  <2>1. FrameOK(t, i, a)'
    BY <1>8 DEF FrameOK, Goto, TypeOK
  <2> QED
    BY <1>1, <1>2, <1>3, <1>8, <2>1, ReceivingMove
<1>9. CASE Goto(t, "handle") /\ body_received(buffer_) >= request[t].content_length
  <2>1. a = size(i)
    BY <1>5, <1>6, <1>7, <1>9
  <2>2. FrameOK(t, i, a)'
    BY <1>3, <1>4, <1>7, <1>9, <2>1 DEF FrameOK, Goto, TypeOK
  <2> QED
    BY <1>1, <1>2, <1>3, <1>9, <2>2, ReceivingMove
<1> QED
  BY <1>8, <1>9 DEF handle_read_measure

(* The answer is made from the request with all its units. *)
LEMMA ReceivingHandle ==
  ASSUME GoodClient, TypeOK, IInv, Receiving, NEW t \in Thread, handle_read_handle(t)
  PROVE  Receiving'
<1>1. PICK a \in Nat, b \in Nat : Received(sent[1], a, b)
  BY DEF Receiving
<1>2. PICK i : i = sent[1]
  OBVIOUS
<1>3. /\ UNCHANGED <<shape, sent, net, eof, got, data_, buffer_, writes, wr, request>>
      /\ pc[t] = "handle"
  BY DEF handle_read_handle, At, client
<1>4. /\ a >= 1 /\ a = size(i) /\ IsRun(buffer_, i, 0, a) /\ i \in Request
      /\ shape[i].cl # "bad"
      /\ request[t] = [cl |-> shape[i].cl, content_length |-> shape[i].content_length,
                       valid |-> shape[i].valid, throws |-> shape[i].throws,
                       raw |-> buffer_]
  BY <1>1, <1>2, <1>3 DEF Received, FrameOK, Receiving
<1>5. request[t].valid = shape[i].valid /\ request[t].raw = units(i)
  BY <1>4, RunWhole
<1>6. Expected(i)' = Expected(i) /\ size(i)' = size(i)
  BY <1>3 DEF Expected, units, size
<1>7. CASE UNCHANGED <<pc, response>>
  <2>1. \A u \in Thread :
          <<pc'[u], request'[u], response'[u]>> = <<pc[u], request[u], response[u]>>
    BY <1>3, <1>7
  <2>2. Writing' => Writing
    BY <1>3 DEF Writing
  <2> QED
    BY <1>3, <2>1, <2>2, ReceivingQuiet
<1>8. ASSUME NEW x, Respond(t, x), x = Expected(i) PROVE Receiving'
  <2>1. Goto(t, "write") /\ response'[t] = x
    BY <1>8 DEF Respond, TypeOK
  <2>2. FrameOK(t, i, a)'
    BY <1>4, <1>6, <1>8, <2>1 DEF FrameOK, Goto, TypeOK
  <2> QED
    BY <1>1, <1>2, <1>3, <2>1, <2>2, ReceivingMove
<1>9. CASE ~request[t].valid /\ Respond(t, BadRequest)
  <2>1. BadRequest = Expected(i)
    BY <1>5, <1>9 DEF Expected
  <2> QED
    BY <1>8, <1>9, <2>1
<1>10. CASE request[t].valid /\ Respond(t, Handled(request[t]))
  <2>1. Handled(request[t]) = Expected(i)
    BY <1>4, <1>5, <1>10 DEF Expected, Handled
  <2> QED
    BY <1>8, <1>10, <2>1
<1> QED
  BY <1>7, <1>9, <1>10 DEF handle_read_handle

(* The response is given to async_write, and perhaps sent at once. *)
LEMMA ReceivingWrite ==
  ASSUME GoodClient, TypeOK, IInv, AnswersMatch, Receiving,
         NEW t \in Thread, handle_read_write(t)
  PROVE  AnswersMatch' /\ Between'
<1>1. PICK a \in Nat, b \in Nat : Received(sent[1], a, b)
  BY DEF Receiving
<1>2. PICK i : i = sent[1]
  OBVIOUS
<1>3. /\ UNCHANGED <<shape, sent, net, eof, buffer_>> /\ pc[t] = "write"
      /\ writes' = writes + 1 /\ Deliver(wr')
  BY DEF handle_read_write, At, client
<1>4. /\ i \in Request /\ i \in Nat \ {0} /\ a = size(i) /\ response[t] = Expected(i)
      /\ ~eof => Len(got) = i - 1
  BY <1>1, <1>2, <1>3 DEF Received, FrameOK, Receiving, Request
<1>5. PICK p \in Parts : \E k \in 0..p :
        wr' = [response |-> response[t], left |-> p - k, owner |-> t, intact |-> TRUE]
  BY DEF handle_read_write
<1>16. PICK k \in 0..p :
        wr' = [response |-> response[t], left |-> p - k, owner |-> t, intact |-> TRUE]
  BY <1>5
<1>6. wr'.response = Expected(i) /\ wr'.left = p - k /\ p - k \in Nat /\ wr'.intact = TRUE
  BY <1>4, <1>16, SessionAssumption
<1>7. writes' = 1
  BY <1>3, OneHolder
<1>8. \A u \in Thread : u # t => pc[u] \in {"idle", "return"}
  BY <1>1, <1>3, OneHolder DEF Received, FrameOK
<1>9. pc'[t] = "clear" /\ \A u \in Thread : u # t => pc'[u] = pc[u]
  BY DEF handle_read_write, Goto, TypeOK
<1>10. Complete(sent) /\ net = <<>>
  <2>1. sent[2] = size(i) /\ b = sent[2] /\ size(i) \in Nat
    BY <1>1, <1>2, <1>4, ShapeFacts DEF Received, Receiving, TypeOK
  <2>2. Len(net) = 0 /\ net \in Seq(Nat \X Nat)
    BY <1>1, <2>1 DEF Received, IsRun
  <2> QED
    BY <1>2, <1>4, <2>1, <2>2 DEF Complete
<1>11. Complete(sent)' /\ Expected(i)' = Expected(i)
  BY <1>3, <1>10 DEF Complete, size, Expected, units
<1>12. (Writing' <=> p - k > 0)
  BY <1>6, <1>7 DEF Writing
<1>13. AnswersMatch' /\ (~eof => Len(got') = IF Writing' THEN i - 1 ELSE i)
  <2>1. CASE p - k > 0 \/ eof
    <3>1. got' = got
      BY <1>3, <1>6, <2>1 DEF Deliver
    <3> QED
      BY <1>3, <1>4, <1>12, <2>1, <3>1, SameAnswers
  <2>2. CASE ~(p - k > 0) /\ ~eof
    <3>1. got' = Append(got, Expected(i))
      BY <1>3, <1>6, <2>2 DEF Deliver
    <3> QED
      BY <1>3, <1>4, <1>12, <2>2, <3>1, NewAnswer
  <2> QED
    BY <2>1, <2>2
<1>14. \A u, v \in Thread : pc'[u] = "clear" /\ pc'[v] = "clear" => u = v
  BY <1>8, <1>9
<1>15. \A u \in Thread : pc'[u] \in {"idle", "clear", "rearm", "return"}
  BY <1>8, <1>9
<1> QED
  BY <1>2, <1>3, <1>4, <1>6, <1>9, <1>10, <1>11, <1>13, <1>14, <1>15 DEF Between

LEMMA ReceivingStep ==
  ASSUME GoodClient, TypeOK, IInv, AnswersMatch, Receiving, NEW t \in Thread, Step(t)
  PROVE  AnswersMatch' /\ (Between' \/ Receiving')
<1>1. CASE handle_read_append(t)
  BY <1>1, ReceivingAppend, SameAnswers DEF handle_read_append, client
<1>2. CASE handle_read_check(t)
  BY <1>2, ReceivingCheck, SameAnswers DEF handle_read_check, client
<1>3. CASE handle_read_parse(t)
  BY <1>3, ReceivingParse, SameAnswers DEF handle_read_parse, client
<1>4. CASE handle_read_measure(t)
  BY <1>4, ReceivingMeasure, SameAnswers DEF handle_read_measure, client
<1>5. CASE handle_read_handle(t)
  BY <1>5, ReceivingHandle, SameAnswers DEF handle_read_handle, client
<1>6. CASE handle_read_write(t)
  BY <1>6, ReceivingWrite
<1>7. ~handle_read_clear(t)
  BY DEF Receiving, Received, FrameOK, handle_read_clear, At
<1>8. CASE Rearm(t) \/ Return(t)
  <2>1. UNCHANGED <<shape, sent, net, eof, got, data_, buffer_, writes>>
    BY <1>8 DEF Rearm, Return, client
  <2>2. /\ pc[t] # "append" /\ pc'[t] \in {"idle", "return"}
        /\ \A u \in Thread : u # t =>
             <<pc'[u], request'[u], response'[u]>> = <<pc[u], request[u], response[u]>>
    BY <1>8 DEF Rearm, Return, Leave, At, Goto, TypeOK
  <2>3. Writing' => Writing
    <3>1. CASE Rearm(t)
      BY <3>1 DEF Rearm, Writing
    <3>2. CASE Return(t)
      BY <2>1, <3>2, LeaveWrites DEF Return
    <3> QED
      BY <1>8, <3>1, <3>2
  <2>4. Receiving'
    BY <2>1, <2>2, <2>3, ReceivingQuiet
  <2> QED
    BY <2>1, <2>4, SameAnswers
<1> QED
  BY <1>1, <1>2, <1>3, <1>4, <1>5, <1>6, <1>7, <1>8 DEF Step
-----------------------------------------------------------------------------
LEMMA InitAInv == ASSUME Init PROVE AInv
<1>1. AnswersMatch
  BY DEF Init, AnswersMatch
<1>2. Between
  BY DEF Init, Between, Complete, Writing
<1> QED
  BY <1>1, <1>2 DEF AInv

LEMMA NextAInv ==
  ASSUME GoodClient, TypeOK, IInv, IInv', AInv, [Next]_vars PROVE AInv'
<1>1. AnswersMatch /\ (Between \/ Receiving)
  BY DEF AInv
<1>2. CASE ClientSend
  BY <1>1, <1>2, BetweenSend, ReceivingSend, SameAnswers DEF ClientSend, AInv
<1>3. CASE ClientClose
  BY <1>1, <1>3, BetweenClose, ReceivingClose, SameAnswers DEF ClientClose, AInv
<1>4. CASE SendPart
  <2>1. ~Receiving
    BY <1>4, Zenon DEF SendPart, Receiving, Writing
  <2> QED
    BY <1>1, <1>4, <2>1, BetweenPart DEF AInv
<1>5. CASE \E t \in Thread : Dispatch(t)
  BY <1>1, <1>5, BetweenDispatch, ReceivingDispatch DEF AInv
<1>6. CASE \E t \in Thread : Step(t)
  BY <1>1, <1>6, BetweenStep, ReceivingStep DEF AInv
<1>7. CASE UNCHANGED vars
  <2>1. UNCHANGED <<shape, sent, net, eof, got, data_, buffer_, writes, wr, pc, request, response>>
    BY <1>7 DEF vars, client, frame
  <2>2. (Writing' <=> Writing) /\ AnswersMatch'
    BY <1>1, <2>1, SameAnswers DEF Writing
  <2>3. CASE Between
    BY <2>1, <2>2, <2>3 DEF AInv, Between, Complete, Expected, units, size
  <2>4. CASE Receiving
    <3>1. \A u \in Thread :
            <<pc'[u], request'[u], response'[u]>> = <<pc[u], request[u], response[u]>>
      BY <2>1
    <3> QED
      BY <2>1, <2>2, <2>4, <3>1, ReceivingQuiet DEF AInv
  <2> QED
    BY <1>1, <2>3, <2>4
<1> QED
  BY <1>2, <1>3, <1>4, <1>5, <1>6, <1>7 DEF Next

LEMMA AnswersInvariance == ASSUME GoodClient PROVE Spec => [](IInv /\ AInv)
<1>1. Init => AInv
  BY InitAInv
<1>2. TypeOK /\ IInv /\ IInv' /\ AInv /\ [Next]_vars => AInv'
  BY NextAInv
<1> QED
  BY <1>1, <1>2, Invariance, TypeCorrectness, PTL DEF Spec

(* A client that waits for its answers gets them, in order: the n-th       *)
(* response that handle_read writes is the answer to the n-th request,     *)
(* made from all of its bytes and no others, on one connection with any    *)
(* number of requests, however reads cut them and threads share the work.  *)
THEOREM AnswersInOrder == ASSUME GoodClient PROVE Spec => []AnswersMatch
<1>1. AInv => AnswersMatch
  BY DEF AInv
<1> QED
  BY <1>1, AnswersInvariance, PTL
=============================================================================
