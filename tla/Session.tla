------------------------------- MODULE Session -------------------------------
(***************************************************************************)
(* One connection: the Session object of src/src/session.cc, the client at *)
(* the other end, and the threads of server_main.cc that run its           *)
(* completion handlers.  io_service hands a completed operation to any     *)
(* thread that is not busy, and no strand orders the handlers of one       *)
(* session: handle_write, and the handle_read it arms, may run while the   *)
(* handle_read that started the write is still in its last lines.          *)
(*                                                                         *)
(* Bytes are abstracted to units: unit <<i, k>> is the k-th piece of the   *)
(* client's i-th request, its header first and then its body.  The header  *)
(* terminator ends the last piece of the header and is not itself split.   *)
(***************************************************************************)
EXTENDS Integers, FiniteSets, Sequences

CONSTANTS
  Thread,        \* the worker threads
  MaxRequests,   \* bound: requests of the client
  MaxInFlight,   \* how many it sends before it waits for an answer
  Patient,       \* it begins a request only when no handler is running
  max_length,    \* size of data_
  SIZE_MOD,      \* 2^64: size_t arithmetic wraps
  Shape,         \* what the requests may look like
  Parts,         \* sizes of a response, in pieces the socket takes at once
  NONE           \* no thread, no value

ASSUME SessionAssumption ==
  /\ MaxRequests \in Nat /\ MaxInFlight \in Nat /\ Patient \in BOOLEAN
  /\ max_length \in Nat \ {0} /\ SIZE_MOD \in Nat \ {0}
  /\ Parts \subseteq Nat \ {0}
  /\ IsFiniteSet(Thread) /\ NONE \notin Thread
  /\ Shape \subseteq
       [hdr : Nat \ {0},             \* pieces of the header
        term : {"crlf", "lf"},       \* CRLFCRLF, or LFLF
        body : Nat,                  \* pieces of the body
        cl : {"none", "bad", "num"}, \* Content-Length: absent, unreadable, read
        content_length : 0..(SIZE_MOD - 1),
        valid : BOOLEAN,             \* HttpRequest::is_valid
        throws : BOOLEAN]            \* the handler lets an exception out

VARIABLES
  shape,     \* shape[i]: the client's i-th request
  sent,      \* the last unit the client sent
  net,       \* units sent and not yet received
  eof,       \* the client has closed the connection
  got,       \* the responses the client received
  data_,     \* the array async_read_some fills
  buffer_,   \* what is accumulated of the request
  reads,     \* outstanding async_read_some
  writes,    \* outstanding async_write
  wr,        \* the response being written
  pc,        \* pc[t]: where thread t is in handle_read or handle_write
  request,   \* request[t]: the HttpRequest of t's handle_read
  response,  \* response[t]: its response_str
  refs,      \* shared_ptrs to the session
  crashed    \* an exception ended the process

client == <<shape, sent, net, eof>>
frame == <<pc, request, response>>
vars == <<client, got, data_, buffer_, reads, writes, wr, frame, refs, crashed>>

Request == 1..MaxRequests

Label == {"idle", "append", "check", "parse", "measure", "handle", "write",
          "clear", "rearm", "return"}

(* Session::start, called by Server::handle_accept, arms the first read;   *)
(* the accept handler's own shared_ptr is then dropped.                    *)
Init ==
  /\ shape \in [Request -> Shape]
  /\ sent = <<0, 0>>
  /\ net = <<>>
  /\ eof = FALSE
  /\ got = <<>>
  /\ data_ = <<>>
  /\ buffer_ = <<>>
  /\ reads = 1
  /\ writes = 0
  /\ wr = [response |-> NONE, left |-> 0, owner |-> NONE, intact |-> TRUE]
  /\ pc = [t \in Thread |-> "idle"]
  /\ request = [t \in Thread |-> NONE]
  /\ response = [t \in Thread |-> NONE]
  /\ refs = 1
  /\ crashed = FALSE

-----------------------------------------------------------------------------
(* The client. *)

size(i) == shape[i].hdr + shape[i].body

units(i) == [k \in 1..size(i) |-> <<i, k>>]

Complete(u) == u = <<0, 0>> \/ (u[1] # 0 /\ u[2] = size(u[1]))

(* It sends its requests in order, piece by piece, and begins one only     *)
(* while fewer than MaxInFlight are unanswered.  A patient one is slower   *)
(* than the last lines of the handlers of the request before.              *)
ClientSend ==
  LET u == IF Complete(sent) THEN <<sent[1] + 1, 1>> ELSE <<sent[1], sent[2] + 1>> IN
  /\ ~crashed /\ ~eof
  /\ u[1] \in Request
  /\ u[2] = 1 => sent[1] - Len(got) < MaxInFlight
  /\ u[2] = 1 /\ Patient => \A t \in Thread : pc[t] = "idle"
  /\ sent' = u
  /\ net' = Append(net, u)
  /\ UNCHANGED <<shape, eof, got, data_, buffer_, reads, writes, wr, frame, refs, crashed>>

ClientClose ==
  /\ ~crashed /\ ~eof
  /\ eof' = TRUE
  /\ UNCHANGED <<shape, sent, net, got, data_, buffer_, reads, writes, wr, frame, refs, crashed>>

-----------------------------------------------------------------------------
(* What handle_read reads off buffer_. *)

crlf(u) == shape[u[1]].term = "crlf" /\ u[2] = shape[u[1]].hdr
lf(u) == shape[u[1]].term = "lf" /\ u[2] = shape[u[1]].hdr

has_crlfcrlf(b) == \E n \in DOMAIN b : crlf(b[n])

check_malformed_request(b) == b = <<>> \/ ~has_crlfcrlf(b)

detect_http_request(b) == has_crlfcrlf(b) \/ \E n \in DOMAIN b : lf(b[n])

(* The header of request i is at the front of b. *)
Headed(b, i) ==
  LET h == shape[i].hdr IN Len(b) >= h /\ \A k \in 1..h : b[k] = <<i, k>>

(* HttpRequest::parse of b, with get_header("Content-Length") and          *)
(* is_valid: the request at the front, with all of b as its raw text.  A   *)
(* buffer that does not start with a header may parse as anything.         *)
parse(b) ==
  IF \E i \in Request : Headed(b, i)
  THEN {[cl |-> shape[i].cl, content_length |-> shape[i].content_length,
         valid |-> shape[i].valid, throws |-> shape[i].throws, raw |-> b] :
          i \in {j \in Request : Headed(b, j)}}
  ELSE {[cl |-> l, content_length |-> n, valid |-> v, throws |-> x, raw |-> b] :
          l \in {"none", "bad", "num"}, v, x \in BOOLEAN,
          n \in {shape[i].content_length : i \in Request}}

(* buffer_.size() - body_start, in size_t: body_start is behind the first  *)
(* CRLFCRLF or, when another thread has cleared that away, the first LFLF; *)
(* without either, header_end + 2 has wrapped to 1.                        *)
body_received(b) ==
  LET ends == {n \in DOMAIN b : IF has_crlfcrlf(b) THEN crlf(b[n]) ELSE lf(b[n])}
  IN  IF ends = {} THEN (Len(b) - 1) % SIZE_MOD
      ELSE Len(b) - (CHOOSE n \in ends : \A m \in ends : n <= m)

(* Mutant: the status code is left at its default. *)
BadRequest_unset == [code |-> 0, raw |-> <<>>]

BadRequest == [code |-> 400, raw |-> <<>>]

(* What a route's handler answers is a function of the request.  "200"     *)
(* stands for its answer and raw for what it is the answer to, which is    *)
(* also what EchoHandler sends back.                                       *)
Handled(r) == [code |-> 200, raw |-> r.raw]

-----------------------------------------------------------------------------
(* The completion handlers. *)

At(t, label) == ~crashed /\ pc[t] = label

Goto(t, label) == pc' = [pc EXCEPT ![t] = label]

(* The bound handler of a completed operation moves to the thread that     *)
(* runs it, with its shared_ptr.                                           *)
ReadComplete(t, n) ==
  /\ At(t, "idle")
  /\ reads > 0
  /\ n \in 1..max_length /\ n <= Len(net)
  /\ data_' = SubSeq(net, 1, n)
  /\ net' = SubSeq(net, n + 1, Len(net))
  /\ reads' = reads - 1
  /\ Goto(t, "append")
  /\ UNCHANGED <<shape, sent, eof, got, buffer_, writes, wr, request, response, refs, crashed>>

(* Mutant: the read is armed again whatever the error. *)
ReadError_retry(t) ==
  /\ At(t, "idle")
  /\ reads > 0 /\ eof
  /\ reads' = reads - 1
  /\ Goto(t, "rearm")
  /\ UNCHANGED <<client, got, data_, buffer_, writes, wr, request, response, refs, crashed>>

(* handle_read with an error does nothing. *)
ReadError(t) ==
  /\ At(t, "idle")
  /\ reads > 0 /\ eof
  /\ reads' = reads - 1
  /\ Goto(t, "return")
  /\ UNCHANGED <<client, got, data_, buffer_, writes, wr, request, response, refs, crashed>>

handle_read_append(t) ==
  /\ At(t, "append")
  /\ buffer_' = buffer_ \o data_
  /\ Goto(t, "check")
  /\ UNCHANGED <<client, got, data_, reads, writes, wr, request, response, refs, crashed>>

Respond(t, a) ==
  /\ response' = [response EXCEPT ![t] = a]
  /\ Goto(t, "write")

handle_read_check(t) ==
  /\ At(t, "check")
  /\ \/ check_malformed_request(buffer_) /\ Respond(t, BadRequest)
     \/ ~check_malformed_request(buffer_) /\ Goto(t, "parse") /\ UNCHANGED response
  /\ UNCHANGED <<client, got, data_, buffer_, reads, writes, wr, request, refs, crashed>>

(* detect_http_request sees what check_malformed_request saw, unless       *)
(* another thread has cleared the buffer in between.                       *)
handle_read_parse(t) ==
  /\ At(t, "parse")
  /\ \/ /\ ~detect_http_request(buffer_)
        /\ Goto(t, "rearm")
        /\ UNCHANGED <<request, response>>
     \/ /\ detect_http_request(buffer_)
        /\ \E r \in parse(buffer_) :
             /\ request' = [request EXCEPT ![t] = r]
             /\ \/ r.cl = "bad" /\ Respond(t, BadRequest)
                \/ r.cl = "num" /\ Goto(t, "measure") /\ UNCHANGED response
                \/ r.cl = "none" /\ Goto(t, "handle") /\ UNCHANGED response
  /\ UNCHANGED <<client, got, data_, buffer_, reads, writes, wr, refs, crashed>>

(* Mutants: the return after async_read_some is missing; "<=" for "<". *)
measure_falls_through(t) ==
  /\ At(t, "measure")
  /\ Goto(t, "handle")
  /\ IF body_received(buffer_) < request[t].content_length
     THEN reads' = reads + 1 /\ refs' = refs + 1
     ELSE UNCHANGED <<reads, refs>>
  /\ UNCHANGED <<client, got, data_, buffer_, writes, wr, request, response, crashed>>
measure_waits_for_more(t) ==
  /\ At(t, "measure")
  /\ \/ body_received(buffer_) <= request[t].content_length /\ Goto(t, "rearm")
     \/ body_received(buffer_) > request[t].content_length /\ Goto(t, "handle")
  /\ UNCHANGED <<client, got, data_, buffer_, reads, writes, wr, request, response, refs, crashed>>

handle_read_measure(t) ==
  /\ At(t, "measure")
  /\ \/ body_received(buffer_) < request[t].content_length /\ Goto(t, "rearm")
     \/ body_received(buffer_) >= request[t].content_length /\ Goto(t, "handle")
  /\ UNCHANGED <<client, got, data_, buffer_, reads, writes, wr, request, response, refs, crashed>>

(* is_valid, match_handler and handle_request.  No exception is caught     *)
(* between here and the thread's lambda.                                   *)
handle_read_handle(t) ==
  /\ At(t, "handle")
  /\ \/ ~request[t].valid /\ Respond(t, BadRequest) /\ UNCHANGED crashed
     \/ /\ request[t].valid /\ ~request[t].throws
        /\ Respond(t, Handled(request[t])) /\ UNCHANGED crashed
     \/ /\ request[t].valid /\ request[t].throws
        /\ crashed' = TRUE
        /\ UNCHANGED <<pc, response>>
  /\ UNCHANGED <<client, got, data_, buffer_, reads, writes, wr, request, refs>>

(* The client has the whole response once its last piece is sent. *)
Deliver(w) ==
  got' = IF w.left > 0 \/ eof THEN got
         ELSE Append(got, IF w.intact THEN w.response ELSE NONE)

(* Mutant: the handler is bound to this instead of shared_from_this(). *)
write_raw_this(t) ==
  /\ At(t, "write")
  /\ \E p \in Parts : \E k \in 0..p :
       wr' = [response |-> response[t], left |-> p - k, owner |-> t, intact |-> TRUE]
  /\ Deliver(wr')
  /\ writes' = writes + 1
  /\ Goto(t, "clear")
  /\ UNCHANGED <<client, data_, buffer_, reads, request, response, refs, crashed>>

(* async_write sends at once what the socket takes, any number k of the    *)
(* pieces, and leaves the rest to the io_service.                          *)
handle_read_write(t) ==
  /\ At(t, "write")
  /\ \E p \in Parts : \E k \in 0..p :
       wr' = [response |-> response[t], left |-> p - k, owner |-> t, intact |-> TRUE]
  /\ Deliver(wr')
  /\ writes' = writes + 1
  /\ refs' = refs + 1
  /\ Goto(t, "clear")
  /\ UNCHANGED <<client, data_, buffer_, reads, request, response, crashed>>

(* The frame ends: its shared_ptr and its locals go, response_str with     *)
(* them, whether or not the write is over.                                 *)
Leave(t) ==
  /\ Goto(t, "idle")
  /\ refs' = refs - 1
  /\ request' = [request EXCEPT ![t] = NONE]
  /\ response' = [response EXCEPT ![t] = NONE]
  /\ wr' = IF wr.owner = t THEN [wr EXCEPT !.owner = NONE] ELSE wr

(* Mutant: buffer_.clear() is missing. *)
leave_uncleared(t) ==
  At(t, "clear") /\ Leave(t) /\ UNCHANGED <<client, got, data_, buffer_, reads, writes, crashed>>

handle_read_clear(t) ==
  /\ At(t, "clear")
  /\ buffer_' = <<>>
  /\ Leave(t)
  /\ UNCHANGED <<client, got, data_, reads, writes, crashed>>

(* async_read_some, in handle_read and in handle_write. *)
Rearm(t) ==
  /\ At(t, "rearm")
  /\ reads' = reads + 1
  /\ refs' = refs + 1
  /\ Goto(t, "return")
  /\ UNCHANGED <<client, got, data_, buffer_, writes, wr, request, response, crashed>>

Return(t) ==
  /\ At(t, "return")
  /\ Leave(t)
  /\ UNCHANGED <<client, got, data_, buffer_, reads, writes, crashed>>

(* A later piece of the response leaves the memory that async_write was    *)
(* given, which is gone once the frame that owned it is: anything may be   *)
(* sent then, the right bytes included.                                    *)
SendPart ==
  /\ ~crashed
  /\ writes > 0 /\ wr.left > 0 /\ ~eof
  /\ \E ok \in IF wr.owner = NONE THEN BOOLEAN ELSE {TRUE} :
       wr' = [wr EXCEPT !.left = @ - 1, !.intact = @ /\ ok]
  /\ Deliver(wr')
  /\ UNCHANGED <<client, data_, buffer_, reads, writes, frame, refs, crashed>>

handle_write(t) ==
  /\ At(t, "idle")
  /\ writes > 0 /\ wr.left = 0
  /\ writes' = writes - 1
  /\ Goto(t, "rearm")
  /\ UNCHANGED <<client, got, data_, buffer_, reads, wr, request, response, refs, crashed>>

(* handle_write with an error does nothing: the session is not read again. *)
WriteError(t) ==
  /\ At(t, "idle")
  /\ writes > 0 /\ wr.left > 0 /\ eof
  /\ writes' = writes - 1
  /\ Goto(t, "return")
  /\ UNCHANGED <<client, got, data_, buffer_, reads, wr, request, response, refs, crashed>>

Dispatch(t) ==
  \/ \E n \in 1..max_length : ReadComplete(t, n)
  \/ ReadError(t) \/ handle_write(t) \/ WriteError(t)

Step(t) ==
  \/ handle_read_append(t) \/ handle_read_check(t) \/ handle_read_parse(t)
  \/ handle_read_measure(t) \/ handle_read_handle(t) \/ handle_read_write(t)
  \/ handle_read_clear(t) \/ Rearm(t) \/ Return(t)

Next ==
  \/ ClientSend \/ ClientClose \/ SendPart
  \/ \E t \in Thread : Dispatch(t) \/ Step(t)

Spec == Init /\ [][Next]_vars

(* A thread that runs a handler goes on with it; io_service::run hands a   *)
(* completed operation to some thread that waits; the client reads what it *)
(* is sent or closes.  It owes no request.                                 *)
FairSpec ==
  /\ Spec
  /\ \A t \in Thread : WF_vars(Step(t))
  /\ WF_vars(\E t \in Thread : Dispatch(t))
  /\ WF_vars(SendPart)
-----------------------------------------------------------------------------
HttpRequest == [cl : {"none", "bad", "num"}, content_length : 0..(SIZE_MOD - 1),
                valid : BOOLEAN, throws : BOOLEAN, raw : Seq(Nat \X Nat)]

HttpResponse == [code : {200, 400}, raw : Seq(Nat \X Nat)]

(* Type invariant of the session, its frames and its client. *)
TypeOK ==
  /\ shape \in [Request -> Shape]
  /\ sent \in Nat \X Nat
  /\ net \in Seq(Request \X Nat)
  /\ eof \in BOOLEAN
  /\ got \in Seq(HttpResponse \cup {NONE})
  /\ data_ \in Seq(Request \X Nat)
  /\ buffer_ \in Seq(Request \X Nat)
  /\ reads \in Nat /\ writes \in Nat
  /\ wr \in [response : HttpResponse \cup {NONE}, left : Nat,
             owner : Thread \cup {NONE}, intact : BOOLEAN]
  /\ pc \in [Thread -> Label]
  /\ request \in [Thread -> HttpRequest \cup {NONE}]
  /\ response \in [Thread -> HttpResponse \cup {NONE}]
  /\ refs \in Nat
  /\ crashed \in BOOLEAN

(* The threads whose frame has still to start the next operation. *)
Holder == {t \in Thread : pc[t] \notin {"idle", "clear", "return"}}

Active == {t \in Thread : pc[t] # "idle"}

(* The session is always either waiting for exactly one operation on its   *)
(* socket or in exactly one handler that will start the next: it never     *)
(* reads into data_ while a handle_read still needs it, never has two      *)
(* writes interleave on the socket, and is never forgotten while the       *)
(* connection is open, on any path through handle_read and handle_write.   *)
OneOperation ==
  LET n == reads + writes + Cardinality(Holder) IN n <= 1 /\ (~eof => n = 1)

(* Every pending operation and every running handler of the session holds  *)
(* one shared_ptr to it and nothing else does: the Session object is not   *)
(* destroyed under a handler, and is destroyed when the last one returns   *)
(* ("All async callbacks capture shared_from_this()", README.md).          *)
RefsExact == refs = reads + writes + Cardinality(Active)

(* The n-th request that a client sends as it should. *)
Expected(i) ==
  IF shape[i].cl = "bad" \/ ~shape[i].valid THEN BadRequest
  ELSE Handled([raw |-> units(i)])

(* A client that keep-alive works for: it waits for the answer, and for    *)
(* the handlers, and its header, which arrives in one piece, announces the *)
(* body that follows.                                                      *)
GoodClient ==
  /\ Patient /\ MaxInFlight <= 1
  /\ \A s \in Shape : /\ s.hdr = 1 /\ s.term = "crlf"
                      /\ s.body = IF s.cl = "num" THEN s.content_length ELSE 0

(* What handle_read answers to each request is the answer to that request, *)
(* made from all of it: header and body, however the bytes arrived, and    *)
(* nothing of any other request.  (NONE: see ResponseIntact.)              *)
AnswersMatch ==
  \A n \in DOMAIN got : got[n] # NONE =>
    n \in Request /\ got[n] = Expected(n)

(* The bytes of the response are those of response_str: async_write never  *)
(* reads it after the handle_read that owns it has returned.               *)
ResponseIntact == \A n \in DOMAIN got : got[n] # NONE

(* A request that has been sent is answered, unless the client has left or *)
(* a handler ended the process: handle_read neither waits for bytes that   *)
(* are there nor drops them.                                               *)
Arrived(i) == sent[1] > i \/ sent = <<i, size(i)>>
Answered ==
  \A i \in Request : Arrived(i) ~> (Len(got) >= i \/ eof \/ crashed)

(* A client that leaves takes its session with it: every handler returns   *)
(* and the last shared_ptr to the Session goes.                            *)
Freed == eof ~> (refs = 0 \/ crashed)
=============================================================================
