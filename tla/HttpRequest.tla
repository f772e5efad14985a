----------------------------- MODULE HttpRequest -----------------------------
(***************************************************************************)
(* HttpRequest::parse and is_valid (src/src/http_request.cc): a request,   *)
(* which Session has found to be complete, from its text.                  *)
(***************************************************************************)
EXTENDS Text

VARIABLES
  pc,             \* where handle_read is with the request
  raw_request_,
  at,             \* what the stream has still to read begins here
  method_, path_, version_,
  pairs,          \* what query_stream has still to read
  query_params_, headers_, body_

http == <<raw_request_, at, method_, path_, version_, pairs, query_params_, headers_, body_>>

HttpInit ==
  /\ raw_request_ = <<>> /\ at = 1
  /\ method_ = <<>> /\ path_ = <<>> /\ version_ = <<>>
  /\ pairs = <<>> /\ query_params_ = <<>> /\ headers_ = <<>> /\ body_ = <<>>

(* The HttpRequest goes out of scope. *)
HttpReset ==
  /\ raw_request_' = <<>> /\ at' = 1
  /\ method_' = <<>> /\ path_' = <<>> /\ version_' = <<>>
  /\ pairs' = <<>> /\ query_params_' = <<>> /\ headers_' = <<>> /\ body_' = <<>>

Receive(text) ==
  /\ pc = "idle" /\ pc' = "line"
  /\ raw_request_' = text
  /\ UNCHANGED <<at, method_, path_, version_, pairs, query_params_, headers_, body_>>

(* operator>> skips blanks, newlines too, from place p on, and then reads  *)
(* up to the next blank.                                                   *)
Skip(s, p) ==
  CHOOSE i \in p..(Len(s) + 1) :
    (i <= Len(s) => s[i] \notin Blank) /\ \A j \in p..(i - 1) : s[j] \in Blank
Read(s, p) ==
  CHOOSE i \in p..(Len(s) + 1) :
    (i <= Len(s) => s[i] \in Blank) /\ \A j \in p..(i - 1) : s[j] \notin Blank

(* Method, path and version are three words, on one line or not; the rest  *)
(* of the line of the third is skipped.                                    *)
parse_request_line ==
  LET s == raw_request_
      m == Skip(s, 1)
      p == Skip(s, Read(s, m))
      v == Skip(s, Read(s, p))
      w == SubSeq(s, p, Read(s, p) - 1)
  IN
  /\ pc = "line"
  /\ \/ v > Len(s) /\ pc' = "parsed" /\ UNCHANGED http
     \/ /\ v <= Len(s)
        /\ method_' = SubSeq(s, m, Read(s, m) - 1)
        /\ path_' = w /\ pairs' = After(w, "?")
        /\ version_' = SubSeq(s, v, Read(s, v) - 1)
        /\ at' = v + Find(Drop(s, v - 1), "nl")
        /\ pc' = "headers"
        /\ UNCHANGED <<raw_request_, query_params_, headers_, body_>>

(* Mutant: the value begins at the last "=". *)
pair_last_equals ==
  LET pair == Upto(pairs, "&")
      e == Latest({i \in DOMAIN pair : pair[i] = "="} \cup {0})
  IN
  /\ pc = "headers" /\ pairs # <<>>
  /\ pairs' = After(pairs, "&")
  /\ query_params_' = IF e = 0 THEN query_params_
       ELSE Assign(query_params_, Upto(pair, "="), Drop(pair, e))
  /\ UNCHANGED <<pc, raw_request_, at, method_, path_, version_, headers_, body_>>

(* A turn of the loop of parse_path_and_query. *)
parse_path_and_query ==
  LET pair == Upto(pairs, "&") IN
  /\ pc = "headers" /\ pairs # <<>>
  /\ pairs' = After(pairs, "&")
  /\ query_params_' = IF Find(pair, "=") > Len(pair) THEN query_params_
       ELSE Assign(query_params_, Upto(pair, "="), After(pair, "="))
  /\ UNCHANGED <<pc, raw_request_, at, method_, path_, version_, headers_, body_>>

(* Mutant: the return is not removed. *)
line_at_cr == Upto(Drop(raw_request_, at - 1), "nl")

(* The line that getline reads, without a return at its end. *)
line_at ==
  LET s == Upto(Drop(raw_request_, at - 1), "nl")
  IN  IF s # <<>> /\ s[Len(s)] = "cr" THEN SubSeq(s, 1, Len(s) - 1) ELSE s

(* A turn of the loop over header lines.  An empty line ends it, as the    *)
(* end of the text does; a line without a colon is ignored.                *)
parse_header ==
  /\ pc = "headers" /\ pairs = <<>>
  /\ at' = at + Find(Drop(raw_request_, at - 1), "nl")
  /\ pc' = IF at > Len(raw_request_) \/ line_at = <<>> THEN "body" ELSE pc
  /\ headers_' = IF Find(line_at, ":") > Len(line_at) THEN headers_
       ELSE Assign(headers_, Upto(line_at, ":"), Trim(After(line_at, ":"), Blank))
  /\ UNCHANGED <<raw_request_, method_, path_, version_, pairs, query_params_, body_>>

(* Each line of the body gets a newline, and the last newline is removed:  *)
(* one that was there at the end is gone.                                  *)
parse_body ==
  LET rest_ == Drop(raw_request_, at - 1) IN
  /\ pc = "body"
  /\ body_' = IF rest_ # <<>> /\ rest_[Len(rest_)] = "nl"
              THEN SubSeq(rest_, 1, Len(rest_) - 1) ELSE rest_
  /\ pc' = "parsed"
  /\ UNCHANGED <<raw_request_, at, method_, path_, version_, pairs, query_params_, headers_>>

HttpParse == parse_request_line \/ parse_path_and_query \/ parse_header \/ parse_body

(* The path, a word, has no blanks to look for. *)
is_valid ==
  /\ version_ = <<"HTTP/1.1">>
  /\ \E m \in {"GET", "POST", "PUT", "DELETE"} : method_ = <<m>>
  /\ path_ # <<>> /\ path_[1] = "/"
  /\ \E i \in 0..Len(raw_request_) :
       StartsWith(Drop(raw_request_, i), <<"cr", "nl", "cr", "nl">>)
-----------------------------------------------------------------------------
(* m has the value of the last of the pieces X that set a key, for each    *)
(* key: key, sign, value.  c[x] is the text of piece x, v[x] its value.    *)
LastWins(m, X, c, sign, v) ==
  LET setting == {x \in X : Find(c[x], sign) <= Len(c[x])} IN
  /\ DOMAIN m = {Upto(c[x], sign) : x \in setting}
  /\ \A x \in setting :
       (\A y \in setting : Upto(c[y], sign) = Upto(c[x], sign) => y[1] <= x[1])
         => m[Upto(c[x], sign)] = v[x]

(* The words of s, by where they begin and end. *)
Words(s) ==
  {x \in (DOMAIN s) \X (DOMAIN s) :
     /\ x[1] <= x[2]
     /\ x[1] = 1 \/ s[x[1] - 1] \in Blank
     /\ x[2] = Len(s) \/ s[x[2] + 1] \in Blank
     /\ \A k \in x[1]..x[2] : s[k] \notin Blank}

FirstWords(s, m, p, v) ==
  /\ {m, p, v} \subseteq Words(s) /\ m[1] < p[1] /\ p[1] < v[1]
  /\ \A w \in Words(s) : w[1] < v[1] => w \in {m, p}

(* The lines of s without the return of a CRLF, and the values in them. *)
Lines(s) ==
  [x \in Cuts(s, "nl") |->
     LET t == Cut(s, x) IN
     IF t # <<>> /\ t[Len(t)] = "cr" THEN SubSeq(t, 1, Len(t) - 1) ELSE t]

Values(s) == [x \in Cuts(s, "nl") |-> Trim(After(Lines(s)[x], ":"), Blank)]

(* The lines after the one in which place n is, and the empty ones of them. *)
LinesAfter(s, n) == {x \in Cuts(s, "nl") : n < x[1]}
EmptyAfter(s, n) == {x \in LinesAfter(s, n) : Lines(s)[x] = <<>>}

(* t is what follows the first of the lines empty, less one newline at the *)
(* end, and nothing if there is none.                                      *)
BodyIs(t, s, empty) ==
  \/ empty = {} /\ t = <<>>
  \/ \E first \in empty :
       LET tail == Drop(s, first[2] + 1) IN
       /\ \A y \in empty : first[1] <= y[1]
       /\ \/ t \o <<"nl">> = tail
          \/ t = tail /\ (tail = <<>> \/ tail[Len(tail)] # "nl")

(* Method, path and version are the first three words of the text, if it   *)
(* has three.  Every line after the one with the version, up to the first  *)
(* empty line, ended by CRLF or LF, and nothing else is in headers_, the   *)
(* last of a name with its value trimmed; the body is the text after that  *)
(* line, less one newline at the end, and nothing without such a line.     *)
RequestExact ==
  LET s == raw_request_ IN
  pc = "parsed" =>
    \/ /\ ~ \E m, p, v \in Words(s) : FirstWords(s, m, p, v)
       /\ method_ = <<>> /\ path_ = <<>> /\ version_ = <<>>
    \/ \E m, p, v \in Words(s) :
         LET empty == EmptyAfter(s, v[1])
             fields == {x \in LinesAfter(s, v[1]) : \A y \in empty : x[1] < y[1]}
         IN
         /\ FirstWords(s, m, p, v)
         /\ method_ = Cut(s, m) /\ path_ = Cut(s, p) /\ version_ = Cut(s, v)
         /\ LastWins(headers_, fields, Lines(s), ":", Values(s))
         /\ BodyIs(body_, s, empty)

(* The query is cut at "&" and each pair at its first "="; of several      *)
(* values for a key the last counts.                                       *)
QueryExact ==
  LET query == After(path_, "?")
      c == [x \in Cuts(query, "&") |-> Cut(query, x)]
      v == [x \in Cuts(query, "&") |-> After(c[x], "=")]
  IN  pc = "parsed" => LastWins(query_params_, Cuts(query, "&"), c, "=", v)
=============================================================================
