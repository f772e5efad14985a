--------------------------- MODULE WebServerProofs ---------------------------
(***************************************************************************)
(* Proofs about WebServer, for every configuration file and every request. *)
(***************************************************************************)
EXTENDS WebServer, ConfigTextProofs, HttpRequestProofs

(***************************************************************************)
(* load_from_nginx_config: its loop invariant, for the statements before   *)
(* next.                                                                   *)
(***************************************************************************)
Block == blocks[server_block]
Before == {i \in DOMAIN Block : i < next}

PortSoFar ==
  LET listens == {i \in Before : Valued(Block[i], "listen")} IN
  port_ = IF listens = {} THEN 8080 ELSE stoi(Block[Latest(listens)].tokens[2])

(* Map m has the routes of the places S of block B: for each path the      *)
(* block of its last location.                                             *)
RoutesOf(m, bs, B, S) ==
  /\ \A i \in S : IsRoute(B[i]) => B[i].tokens[2] \in DOMAIN m
  /\ \A p \in DOMAIN m : \E i \in S :
       /\ IsRoute(B[i]) /\ B[i].tokens[2] = p
       /\ m[p] = parse_handler_config(bs[B[i].child])
       /\ \A j \in S : IsRoute(B[j]) /\ B[j].tokens[2] = p => j <= i

RoutesSoFar == RoutesOf(routes_, blocks, Block, Before)

LoadOK ==
  /\ loaded \in {"no", "loading", "loaded", "failed"}
  /\ loaded # "no" => parsed = "valid"
  /\ port_ \in Int /\ next \in Nat \ {0}
  /\ loaded = "no" => next = 1 /\ port_ = 8080 /\ routes_ = <<>>
  /\ loaded \in {"loading", "loaded"} =>
       server_block \in DOMAIN blocks /\ PortSoFar /\ RoutesSoFar
  /\ loaded = "loaded" => next > Len(Block) /\ port_ > 0

LEMMA LoadInit == ASSUME ConfigInit PROVE LoadOK
  BY DEF ConfigInit, LoadOK

LEMMA ParseBeforeLoad == ASSUME LoadOK, ParserNext, UNCHANGED config PROVE LoadOK'
<1>1. parsed # "valid"
  BY DEF ParserNext, open_file, ParseToken, initial_whitespace, comment, normal, end_of_file,
         quote, Getting, Scanning, Parse, parse_error, parse_comment, parse_normal,
         parse_statement_end, parse_start_block, parse_end_block, parse_eof, Token
<1> QED
  BY <1>1 DEF LoadOK, config

LEMMA FindServerStep == ASSUME ParserInv, LoadOK, find_server PROVE LoadOK'
<1>1. /\ parsed' = parsed /\ blocks' = blocks /\ next' = next /\ port_' = port_ /\ routes_' = routes_
      /\ parsed = "valid" /\ next = 1 /\ port_ = 8080 /\ routes_ = <<>>
  BY DEF find_server, parser, tree, LoadOK
<1>2. CASE loaded' = "failed"
  BY <1>1, <1>2 DEF LoadOK
<1>3. CASE loaded' # "failed"
  <2>1. PICK i \in DOMAIN blocks[1] : /\ loaded' = "loading" /\ server_block' = blocks[1][i].child
                                     /\ blocks[1][i].child # 0
    BY <1>3 DEF find_server
  <2>2. 1 \in DOMAIN blocks
    <3>1. 1 \in DOMAIN config_stack /\ config_stack[1] = 1
      BY TopFacts DEF ParserInv, TreeOK
    <3> QED
      BY <3>1 DEF ParserInv, TreeOK
  <2>3. server_block' \in DOMAIN blocks
    <3>1. StatementOK(blocks[1][i], 1, Len(blocks))
      BY <2>1, <2>2, TopFacts DEF BlocksOK
    <3> QED
      BY <2>1, <3>1, TopFacts DEF StatementOK
  <2>4. Block' \in Seq(Statement)
    BY <1>1, <2>3 DEF Block, ParserInv, ParserTypes
  <2>5. Before' = {}
    BY <1>1, <2>4 DEF Before
  <2>6. PortSoFar' /\ RoutesSoFar'
    BY <1>1, <2>5 DEF PortSoFar, RoutesSoFar, RoutesOf
  <2> QED
    BY <1>1, <2>1, <2>3, <2>6 DEF LoadOK
<1> QED
  BY <1>2, <1>3

(* What the statements of the server block are. *)
LEMMA BlockFacts ==
  ASSUME ParserInv, server_block \in DOMAIN blocks
  PROVE  /\ Block \in Seq(Statement) /\ Len(Block) \in Nat /\ DOMAIN Block = 1..Len(Block)
         /\ \A i \in DOMAIN Block : StatementOK(Block[i], server_block, Len(blocks))
<1>1. blocks \in Seq(Seq(Statement))
  BY DEF ParserInv, ParserTypes
<1>2. Block \in Seq(Statement)
  BY <1>1 DEF Block
<1> QED
  BY <1>2, TopFacts DEF BlocksOK, Block

LEMMA LoadStatementStep == ASSUME ParserInv, LoadOK, load_statement PROVE LoadOK'
<1> DEFINE s == Block[next]
<1>1. /\ loaded = "loading" /\ next \in Nat \ {0} /\ next <= Len(Block) /\ next' = next + 1
      /\ UNCHANGED <<parsed, blocks, server_block>> /\ parsed = "valid"
      /\ server_block \in DOMAIN blocks /\ PortSoFar /\ RoutesSoFar /\ port_ \in Int
  BY DEF load_statement, Block, LoadOK, parser, tree
<1>2. /\ port_' = IF Valued(s, "listen") /\ stoi(s.tokens[2]) # NONE
                  THEN stoi(s.tokens[2]) ELSE port_
      /\ loaded' = IF Valued(s, "listen") /\ stoi(s.tokens[2]) = NONE THEN "failed" ELSE loaded
      /\ routes_' = IF IsRoute(s)
                    THEN Assign(routes_, s.tokens[2], parse_handler_config(blocks[s.child]))
                    ELSE routes_
  BY DEF load_statement, Block
<1>3. Block' = Block /\ next \in DOMAIN Block
  BY <1>1, BlockFacts DEF Block
<1>4. Before' = Before \cup {next} /\ \A i \in Before : i < next /\ i \in Nat
  BY <1>1, <1>3, BlockFacts DEF Before
<1>5. port_' \in Int
  BY <1>1, <1>2, NumberAssumption DEF stoi
<1>6. ASSUME loaded' # "failed" PROVE PortSoFar'
  <2> DEFINE L == {i \in Before : Valued(Block[i], "listen")}
             M == {i \in Before \cup {next} : Valued(Block[i], "listen")}
  <2>1. port_ = IF L = {} THEN 8080 ELSE stoi(Block[Latest(L)].tokens[2])
    BY <1>1 DEF PortSoFar
  <2>2. SUFFICES port_' = IF M = {} THEN 8080 ELSE stoi(Block[Latest(M)].tokens[2])
    BY <1>3, <1>4 DEF PortSoFar, Valued, Named
  <2>3. CASE Valued(s, "listen")
    <3>1. next \in M /\ \A j \in M : j <= next
      BY <1>1, <1>4, <2>3
    <3> HIDE DEF M
    <3>2. Latest(M) \in M /\ \A j \in M : j <= Latest(M)
      BY <3>1 DEF Latest
    <3>3. next <= Latest(M) /\ Latest(M) <= next /\ (Latest(M) \in Before \/ Latest(M) = next)
      BY <3>1, <3>2 DEF M
    <3>4. Latest(M) = next
      BY <1>1, <1>4, <3>3
    <3> QED
      BY <1>2, <1>6, <2>3, <3>1, <3>4
  <2>4. CASE ~Valued(s, "listen")
    <3>1. M = L
      BY <2>4
    <3> QED
      BY <1>2, <2>1, <2>4, <3>1
  <2> QED
    BY <2>3, <2>4
<1>7. RoutesSoFar'
  <2> DEFINE S == Before \cup {next}
             m == routes_'
  <2>1. SUFFICES RoutesOf(m, blocks, Block, S)
    BY <1>1, <1>3, <1>4 DEF RoutesSoFar
  <2>2. RoutesOf(routes_, blocks, Block, Before)
    BY <1>1 DEF RoutesSoFar
  <2>3. CASE ~IsRoute(s)
    <3>1. m = routes_
      BY <1>2, <2>3
    <3>2. \A i \in S : IsRoute(Block[i]) => i \in Before
      BY <2>3
    <3> HIDE DEF m
    <3>3. \A i \in S : IsRoute(Block[i]) => Block[i].tokens[2] \in DOMAIN m
      BY <2>2, <3>1, <3>2 DEF RoutesOf
    <3>4. ASSUME NEW p \in DOMAIN m
          PROVE  \E i \in S :
                   /\ IsRoute(Block[i]) /\ Block[i].tokens[2] = p
                   /\ m[p] = parse_handler_config(blocks[Block[i].child])
                   /\ \A j \in S : IsRoute(Block[j]) /\ Block[j].tokens[2] = p => j <= i
      BY <2>2, <3>1, <3>2 DEF RoutesOf
    <3> QED
      BY <3>3, <3>4 DEF RoutesOf
  <2>4. CASE IsRoute(s)
    <3> DEFINE k == s.tokens[2]
               v == parse_handler_config(blocks[s.child])
    <3>1. /\ DOMAIN m = DOMAIN routes_ \cup {k}
          /\ \A p \in DOMAIN routes_ \cup {k} : m[p] = IF p = k THEN v ELSE routes_[p]
      BY <1>2, <2>4 DEF Assign
    <3> HIDE DEF m
    <3>2. \A i \in S : IsRoute(Block[i]) => Block[i].tokens[2] \in DOMAIN m
      BY <2>2, <3>1 DEF RoutesOf
    <3>3. ASSUME NEW p \in DOMAIN m
          PROVE  \E i \in S :
                   /\ IsRoute(Block[i]) /\ Block[i].tokens[2] = p
                   /\ m[p] = parse_handler_config(blocks[Block[i].child])
                   /\ \A j \in S : IsRoute(Block[j]) /\ Block[j].tokens[2] = p => j <= i
      <4>1. CASE p = k
        <5>1. next \in S /\ \A j \in S : j <= next
          BY <1>1, <1>4
        <5>2. m[p] = v
          BY <3>1, <4>1
        <5> QED
          BY <2>4, <4>1, <5>1, <5>2
      <4>2. CASE p # k
        <5>1. p \in DOMAIN routes_ /\ m[p] = routes_[p]
          BY <3>1, <4>2
        <5>2. PICK i \in Before :
                /\ IsRoute(Block[i]) /\ Block[i].tokens[2] = p
                /\ routes_[p] = parse_handler_config(blocks[Block[i].child])
                /\ \A j \in Before : IsRoute(Block[j]) /\ Block[j].tokens[2] = p => j <= i
          BY <2>2, <5>1 DEF RoutesOf
        <5>3. i \in S /\ \A j \in S : Block[j].tokens[2] = p => j \in Before
          BY <4>2
        <5> QED
          BY <5>1, <5>2, <5>3
      <4> QED
        BY <4>1, <4>2
    <3> QED
      BY <3>2, <3>3 DEF RoutesOf
  <2> QED
    BY <2>3, <2>4
<1>8. loaded' \in {"loading", "failed"}
  BY <1>1, <1>2
<1> QED
  BY <1>1, <1>5, <1>6, <1>7, <1>8 DEF LoadOK

LEMMA LoadReturnStep == ASSUME ParserInv, LoadOK, load_return PROVE LoadOK'
<1>1. /\ UNCHANGED <<parsed, blocks, server_block, next, port_, routes_>>
      /\ loaded = "loading" /\ next > Len(Block)
      /\ loaded' = "failed" \/ (loaded' = "loaded" /\ port_ > 0)
  BY DEF load_return, parser, tree, Block
<1>2. PortSoFar' = PortSoFar /\ RoutesSoFar' = RoutesSoFar
  BY <1>1 DEF PortSoFar, RoutesSoFar, RoutesOf, Before, Block, IsRoute, Valued, Named,
     parse_handler_config, Setting
<1> QED
  BY <1>1, <1>2 DEF LoadOK, Block
-----------------------------------------------------------------------------
(***************************************************************************)
(* A request.  The loop of match_handler keeps the longest route among     *)
(* those it has seen.                                                      *)
(***************************************************************************)
Unrouted == {"idle", "line", "headers", "body", "parsed"}
Chosen == {"file", "sanitize", "terminated"}

LongestSoFar ==
  /\ todo \subseteq DOMAIN routes_
  /\ prefix_match \in DOMAIN routes_ \cup {<<>>}
  /\ StartsWith(path_, prefix_match)
  /\ \A r \in DOMAIN routes_ \ todo : StartsWith(path_, r) => Len(r) <= Len(prefix_match)

RequestOK ==
  /\ pc \in Unrouted \cup Chosen \cup {"match"}
  /\ raw_request_ \in Word /\ path_ \in Word
  /\ rest \in Word /\ parts \in Seq(Word)
  /\ prefix_match \in Word /\ max_len = Len(prefix_match)
  /\ pc \in Unrouted => prefix_match = <<>>
  /\ pc \in Chosen \cup {"match"} => LongestSoFar
  /\ pc \in Chosen => todo = {}
  /\ pc \in {"file", "sanitize"} => handler.type = <<"StaticHandler">>
  /\ Contained

Phases ==
  /\ main = "running" => loaded = "loaded" /\ listening = port_ % 65536
  /\ pc # "idle" => main = "running"

IInv == ParserInv /\ LoadOK /\ RequestOK /\ Phases

LEMMA RequestInitOK == ASSUME RequestInit PROVE RequestOK
  BY DEF RequestInit, HttpInit, RequestOK, Unrouted, Chosen, Word, Contained

(* The paths of the routes are words, and not empty. *)
LEMMA RouteWords ==
  ASSUME ParserInv, LoadOK, loaded = "loaded"
  PROVE  \A r \in DOMAIN routes_ : r \in Word /\ r # <<>>
<1> SUFFICES ASSUME NEW r \in DOMAIN routes_ PROVE r \in Word /\ r # <<>>
  OBVIOUS
<1>1. PICK i \in Before : IsRoute(Block[i]) /\ Block[i].tokens[2] = r
  BY DEF LoadOK, RoutesSoFar, RoutesOf
<1>2. StatementOK(Block[i], server_block, Len(blocks))
  BY BlockFacts DEF LoadOK, Before
<1>3. Block[i].tokens \in Seq(Word) /\ 2 \in DOMAIN Block[i].tokens
  BY <1>1, <1>2 DEF StatementOK, Statement, IsRoute, Valued
<1> QED
  BY <1>1, <1>2, <1>3 DEF StatementOK

(* An answer ends the request. *)
LEMMA AnswerOK == ASSUME NEW n, Answer(n) PROVE RequestOK'
  BY DEF Answer, HttpReset, RequestOK, Unrouted, Chosen, Word, Contained

(* A step inside HttpRequest: only the path matters here. *)
LEMMA HttpStep ==
  ASSUME RequestOK, HttpParse, UNCHANGED <<parser, config, locals, code, dirs>>
  PROVE  RequestOK'
<1>1. /\ pc \in Unrouted /\ pc' \in Unrouted /\ raw_request_' = raw_request_
      /\ pc' # "terminated"
  BY DEF RequestOK, HttpParse, parse_request_line, parse_path_and_query, parse_header,
         parse_body, http, Unrouted
<1>2. path_' \in Word
  <2>1. CASE parse_request_line
    <3> DEFINE s == raw_request_
               m == Skip(s, 1)
               p == Skip(s, Read(s, m))
    <3>1. s \in Seq(Unit) /\ Len(s) \in Nat
      BY DEF RequestOK, Word
    <3>2. m \in 1..(Len(s) + 1)
      BY <3>1, StreamRange
    <3> HIDE DEF m
    <3>3. Read(s, m) \in 1..(Len(s) + 1)
      BY <3>1, <3>2, StreamRange
    <3>4. p \in 1..(Len(s) + 1)
      BY <3>1, <3>3, StreamRange
    <3> HIDE DEF p
    <3>5. Read(s, p) \in p..(Len(s) + 1)
      BY <3>1, <3>4, StreamRange
    <3>6. p \in Nat \ {0} /\ Read(s, p) - 1 \in 0..Len(s)
      BY <3>1, <3>4, <3>5
    <3>7. SubSeq(s, p, Read(s, p) - 1) \in Word
      BY <3>1, <3>6, Pieces DEF Word
    <3>8. path_' = path_ \/ path_' = SubSeq(s, p, Read(s, p) - 1)
      BY <2>1 DEF parse_request_line, http, p, m
    <3> QED
      BY <3>7, <3>8 DEF RequestOK
  <2>2. CASE parse_path_and_query \/ parse_header \/ parse_body
    BY <2>2 DEF parse_path_and_query, parse_header, parse_body, RequestOK
  <2> QED
    BY <2>1, <2>2 DEF HttpParse
<1> QED
  BY <1>1, <1>2 DEF RequestOK, locals, Unrouted, Chosen, Contained

LEMMA MatchStep ==
  ASSUME ParserInv, LoadOK, RequestOK, loaded = "loaded", NEW r \in todo, match_handler(r)
  PROVE  RequestOK'
<1>1. /\ pc = "match" /\ pc' = "match" /\ todo' = todo \ {r}
      /\ UNCHANGED <<routes_, http, code, rest, parts, dirs>>
      /\ IF StartsWith(path_, r) /\ Len(r) > max_len
         THEN max_len' = Len(r) /\ prefix_match' = r
         ELSE UNCHANGED <<max_len, prefix_match>>
  BY DEF match_handler, At, Goto, config
<1>2. LongestSoFar /\ r \in DOMAIN routes_ /\ r \in Word
  BY <1>1, RouteWords DEF RequestOK, LongestSoFar
<1>3. path_' = path_ /\ raw_request_' = raw_request_
  BY <1>1 DEF http
<1>4. prefix_match \in Word /\ max_len = Len(prefix_match) /\ Len(prefix_match) \in Nat
      /\ Len(r) \in Nat
  BY <1>2 DEF RequestOK, Word
<1>5. /\ prefix_match' \in Word /\ max_len' = Len(prefix_match')
      /\ StartsWith(path_, prefix_match')
      /\ prefix_match' \in DOMAIN routes_ \cup {<<>>}
      /\ Len(prefix_match') \in Nat /\ Len(prefix_match) <= Len(prefix_match')
      /\ StartsWith(path_, r) => Len(r) <= Len(prefix_match')
  BY <1>1, <1>2, <1>4 DEF LongestSoFar
<1>6. ASSUME NEW q \in DOMAIN routes_ \ todo', StartsWith(path_, q)
      PROVE  Len(q) <= Len(prefix_match')
  <2>1. CASE q = r
    BY <1>5, <1>6, <2>1
  <2>2. CASE q # r
    <3>1. q \in DOMAIN routes_ \ todo /\ q \in Word
      BY <1>1, <2>2, RouteWords
    <3>2. Len(q) <= Len(prefix_match) /\ Len(q) \in Nat
      BY <1>2, <1>6, <3>1 DEF LongestSoFar, Word
    <3> QED
      BY <1>4, <1>5, <3>2
  <2> QED
    BY <2>1, <2>2
<1>7. LongestSoFar'
  <2>1. todo' \subseteq DOMAIN routes_
    BY <1>1, <1>2 DEF LongestSoFar
  <2> QED
    BY <1>1, <1>3, <1>5, <1>6, <2>1 DEF LongestSoFar, StartsWith
<1> QED
  BY <1>1, <1>3, <1>5, <1>7 DEF RequestOK, Unrouted, Chosen, Contained

(* A step to another place in the handlers that keeps what was chosen. *)
LEMMA ChosenStep ==
  ASSUME RequestOK, pc \in {"match", "file", "sanitize"}, todo = {},
         UNCHANGED <<routes_, http, todo, max_len, prefix_match>>,
         pc' \in Chosen, pc' # "terminated" => handler.type = <<"StaticHandler">>,
         rest' \in Word, parts' \in Seq(Word), Contained'
  PROVE  RequestOK'
<1>1. LongestSoFar
  BY DEF RequestOK, Chosen
<1>2. LongestSoFar' /\ UNCHANGED <<raw_request_, path_>>
  BY <1>1 DEF LongestSoFar, StartsWith, http
<1>3. handler' = handler
  BY DEF handler
<1> QED
  BY <1>2, <1>3 DEF RequestOK, Chosen, Unrouted

(* An exception leaves all but pc and code as they are. *)
LEMMA ThrowOK ==
  ASSUME RequestOK, pc \in {"match", "sanitize"}, todo = {}, NEW e, Throw(e),
         UNCHANGED routes_
  PROVE  RequestOK'
<1>1. UNCHANGED <<http, todo, max_len, prefix_match, rest, parts>> /\ pc' = "terminated"
  BY DEF Throw, locals
<1>2. Contained' /\ rest' \in Word /\ parts' \in Seq(Word)
  BY <1>1 DEF RequestOK, Contained
<1> QED
  BY <1>1, <1>2, ChosenStep DEF Chosen

LEMMA CreateStep ==
  ASSUME RequestOK,
         create_simple \/ create_crud \/ create_sleep \/ create_not_found
         \/ create_static_rootless \/ create_static
  PROVE  RequestOK'
<1>1. CASE create_simple \/ create_not_found \/ create_static_rootless
  BY <1>1, AnswerOK DEF create_simple, create_not_found, create_static_rootless
<1>2. ASSUME NEW t, Creating({t})
      PROVE  /\ pc = "match" /\ todo = {} /\ UNCHANGED routes_ /\ handler.type = <<t>>
             /\ \A e : Throw(e) => RequestOK'
  <2>1. pc = "match" /\ todo = {} /\ UNCHANGED routes_ /\ handler.type = <<t>>
    BY <1>2 DEF Creating, At, config
  <2> QED
    BY <2>1, ThrowOK
<1>3. CASE create_crud
  BY <1>2, <1>3, AnswerOK DEF create_crud
<1>4. CASE create_sleep
  BY <1>2, <1>4, AnswerOK DEF create_sleep
<1>5. CASE create_static
  <2>1. Creating({"StaticHandler"})
    BY <1>5 DEF create_static
  <2>2. CASE Goto("file") /\ UNCHANGED locals
    <3>1. /\ pc = "match" /\ todo = {} /\ pc' = "file" /\ handler.type = <<"StaticHandler">>
          /\ UNCHANGED <<routes_, http, todo, max_len, prefix_match, rest, parts>>
      BY <1>2, <2>1, <2>2 DEF Goto, locals
    <3>2. Contained' /\ rest' \in Word /\ parts' \in Seq(Word)
      BY <3>1 DEF RequestOK, Contained
    <3> QED
      BY <3>1, <3>2, ChosenStep DEF Chosen
  <2> QED
    BY <1>2, <1>5, <2>1, <2>2 DEF create_static
<1> QED
  BY <1>1, <1>3, <1>4, <1>5

LEMMA RelativeType ==
  ASSUME path_ \in Word, prefix_match \in Word PROVE relative_path \in Word
<1> DEFINE p == Upto(path_, "?")
<1>1. p \in Seq(Unit) /\ <<>> \in Seq(Unit)
  BY UptoFirst DEF Word
<1> HIDE DEF p
<1>2. ASSUME StartsWith(p, prefix_match) PROVE Drop(p, Len(prefix_match)) \in Word
  <2>1. Len(prefix_match) + 1 \in Nat \ {0} /\ Len(p) \in 0..Len(p)
    BY <1>1 DEF Word
  <2> QED
    BY <1>1, <2>1, Pieces DEF Word, Drop
<1> QED
  BY <1>1, <1>2 DEF relative_path, erase_query, p, Word

LEMMA FileStep ==
  ASSUME RequestOK,
         file_relative \/ sanitize_path \/ file_missing \/ file_error
         \/ file_unsupported \/ file_open
  PROVE  RequestOK'
<1>1. CASE file_missing \/ file_unsupported \/ file_open
  BY <1>1, AnswerOK DEF file_missing, file_unsupported, file_open
<1>2. CASE file_relative
  <2>1. /\ pc = "file" /\ todo = {} /\ pc' = "sanitize" /\ rest' = relative_path
        /\ handler.type = <<"StaticHandler">>
        /\ UNCHANGED <<routes_, http, todo, max_len, prefix_match, parts>>
    BY <1>2 DEF file_relative, At, Goto, config, RequestOK, Chosen
  <2>2. Contained' /\ rest' \in Word /\ parts' \in Seq(Word)
    BY <2>1, RelativeType DEF RequestOK, Contained
  <2> QED
    BY <2>1, <2>2, ChosenStep DEF Chosen
<1>3. CASE sanitize_path
  <2> DEFINE part == Upto(rest, "/")
  <2>1. /\ pc = "sanitize" /\ todo = {} /\ pc' = "sanitize" /\ rest' = After(rest, "/")
        /\ handler.type = <<"StaticHandler">>
        /\ parts' = IF part \in Dropped THEN parts ELSE Append(parts, part)
        /\ UNCHANGED <<routes_, http, todo, max_len, prefix_match>>
    BY <1>3 DEF sanitize_path, At, Goto, config, RequestOK, Chosen
  <2>2. rest \in Seq(Unit) /\ parts \in Seq(Word)
    BY DEF RequestOK, Word
  <2>3. part \in Word /\ \A j \in DOMAIN part : part[j] # "/"
    BY <2>2, UptoFirst DEF Word
  <2>4. rest' \in Word
    BY <2>1, <2>2, AfterType DEF Word
  <2> HIDE DEF part
  <2>5. parts' \in Seq(Word) /\ Contained'
    <3>1. CASE part \in Dropped
      BY <2>1, <2>2, <3>1 DEF RequestOK, Contained
    <3>2. CASE part \notin Dropped
      <4>1. /\ parts' \in Seq(Word) /\ Len(parts) \in Nat /\ DOMAIN parts = 1..Len(parts)
            /\ DOMAIN parts' = 1..(Len(parts) + 1) /\ parts'[Len(parts) + 1] = part
            /\ \A i \in 1..Len(parts) : parts'[i] = parts[i]
        BY <2>1, <2>2, <2>3, <3>2, AppendWord
      <4>2. ASSUME NEW i \in DOMAIN parts'
            PROVE  parts'[i] \notin Dropped /\ \A j \in DOMAIN parts'[i] : parts'[i][j] # "/"
        <5>1. CASE i = Len(parts) + 1
          BY <2>3, <3>2, <4>1, <5>1
        <5>2. CASE i # Len(parts) + 1
          <6>1. i \in DOMAIN parts /\ parts'[i] = parts[i]
            BY <4>1, <5>2
          <6> QED
            BY <6>1 DEF RequestOK, Contained
        <5> QED
          BY <5>1, <5>2
      <4> QED
        BY <4>1, <4>2 DEF Contained, Dropped
    <3> QED
      BY <3>1, <3>2
  <2> QED
    BY <2>1, <2>4, <2>5, ChosenStep DEF Chosen
<1>4. CASE file_error
  <2>1. pc = "sanitize" /\ todo = {} /\ Throw("filesystem_error") /\ UNCHANGED routes_
    BY <1>4 DEF file_error, At, config, RequestOK, Chosen
  <2> QED
    BY <2>1, ThrowOK
<1> QED
  BY <1>1, <1>2, <1>3, <1>4

(* Somebody removes a root. *)
LEMMA RemoveRootOK == ASSUME RequestOK, RemoveRoot PROVE RequestOK'
<1>1. UNCHANGED <<pc, http, todo, max_len, prefix_match, rest, parts, code, routes_>>
  BY DEF RemoveRoot, request, locals, config
<1>2. handler' = handler
  BY <1>1 DEF handler
<1>3. LongestSoFar' = LongestSoFar /\ Contained' = Contained
      /\ UNCHANGED <<raw_request_, path_>>
  BY <1>1 DEF LongestSoFar, Contained, StartsWith, http
<1> QED
  BY <1>1, <1>2, <1>3 DEF RequestOK

LEMMA ReceiveOK ==
  ASSUME RequestOK, NEW m \in Messages, Receive(m), UNCHANGED locals PROVE RequestOK'
<1>1. /\ pc = "idle" /\ pc' = "line" /\ raw_request_' \in Word /\ path_' = path_
      /\ UNCHANGED <<todo, max_len, prefix_match, rest, parts>>
  BY MessagesAssumption DEF Receive, locals, Word
<1> QED
  BY <1>1 DEF RequestOK, Unrouted, Chosen, Contained

LEMMA HandleStep ==
  ASSUME ParserInv, LoadOK, loaded = "loaded", RequestOK, Handle PROVE RequestOK'
<1>1. CASE malformed
  BY <1>1, AnswerOK DEF malformed
<1>2. CASE match_all
  <2>1. /\ pc = "parsed" /\ pc' = "match" /\ todo' = DOMAIN routes_ /\ prefix_match = <<>>
        /\ UNCHANGED <<http, routes_, max_len, prefix_match, rest, parts>>
    BY <1>2 DEF match_all, At, Goto, config, RequestOK, Unrouted
  <2>2. path_' = path_ /\ raw_request_' = raw_request_
    BY <2>1 DEF http
  <2>3. StartsWith(path_, <<>>)
    BY DEF StartsWith, RequestOK, Word
  <2>4. LongestSoFar'
    BY <2>1, <2>2, <2>3 DEF LongestSoFar, StartsWith
  <2> QED
    BY <2>1, <2>2, <2>4 DEF RequestOK, Unrouted, Chosen, Contained
<1>3. ASSUME NEW r \in todo, match_handler(r) PROVE RequestOK'
  BY <1>3, MatchStep
<1> QED
  BY <1>1, <1>2, <1>3, CreateStep, FileStep DEF Handle
-----------------------------------------------------------------------------
LEMMA InitIInv == ASSUME Init PROVE IInv
<1>1. ParserInv
  BY ParserInitInv DEF Init
<1>2. LoadOK /\ RequestOK /\ Phases
  BY LoadInit, RequestInitOK DEF Init, Phases, RequestInit
<1> QED
  BY <1>1, <1>2 DEF IInv

(* The configuration does not change any more once it is loaded, and a     *)
(* step that does not concern a part leaves its invariant.                 *)
LEMMA ParserAlone == ASSUME ParserInv, UNCHANGED parser PROVE ParserInv'
<1>1. UNCHANGED <<file, pos, state, token, token_type>> /\ UNCHANGED tree
  BY DEF parser, scanner
<1>2. ParserTypes'
  BY <1>1 DEF ParserInv, ParserTypes, tree
<1> QED
  BY <1>1, <1>2, TreeAlone DEF ParserInv, WordsOK

LEMMA LoadAlone == ASSUME LoadOK, UNCHANGED <<parser, config>> PROVE LoadOK'
<1>1. UNCHANGED <<parsed, blocks, loaded, server_block, next, port_, routes_>>
  BY DEF parser, tree, config
<1>2. Block' = Block /\ Before' = Before
  BY <1>1 DEF Block, Before
<1>3. PortSoFar' = PortSoFar /\ RoutesSoFar' = RoutesSoFar
  BY <1>1, <1>2 DEF PortSoFar, RoutesSoFar, Valued, Named
<1> QED
  BY <1>1, <1>2, <1>3 DEF LoadOK

LEMMA RequestIdle ==
  ASSUME RequestOK, pc = "idle", UNCHANGED <<request, dirs>> PROVE RequestOK'
  BY DEF RequestOK, request, http, locals, Unrouted, Chosen, Contained

LEMMA NextIInv == ASSUME IInv, [Next]_vars PROVE IInv'
<1> USE DEF IInv
<1>1. CASE UNCHANGED vars
  <2>1. UNCHANGED <<parser, config>> /\ UNCHANGED <<request, dirs, main, listening>>
    BY <1>1 DEF vars
  <2>2. ParserInv' /\ LoadOK'
    BY <2>1, ParserAlone, LoadAlone
  <2>3. RequestOK'
    <3>1. UNCHANGED <<pc, http, todo, max_len, prefix_match, rest, parts, code, routes_, dirs>>
      BY <2>1 DEF request, locals, config
    <3>2. handler' = handler /\ UNCHANGED <<raw_request_, path_>>
      BY <3>1 DEF handler, http
    <3>3. LongestSoFar' = LongestSoFar /\ Contained' = Contained
      BY <3>1, <3>2 DEF LongestSoFar, Contained, StartsWith
    <3> QED
      BY <3>1, <3>2, <3>3 DEF RequestOK
  <2> QED
    BY <2>1, <2>2, <2>3 DEF Phases, request, config
<1>2. CASE Startup
  <2>1. CASE ParserNext /\ UNCHANGED <<config, request, dirs, main, listening>>
    <3>1. parsed # "valid"
      BY <2>1 DEF ParserNext, open_file, ParseToken, initial_whitespace, comment, normal,
         end_of_file, quote, Getting, Scanning, Parse, parse_error, parse_comment, parse_normal,
         parse_statement_end, parse_start_block, parse_end_block, parse_eof, Token
    <3>2. loaded # "loaded" /\ pc = "idle"
      BY <3>1 DEF LoadOK, Phases
    <3> QED
      BY <2>1, <3>2, ParserStep, ParseBeforeLoad, RequestIdle DEF Phases, request, config
  <2>2. CASE ConfigNext /\ UNCHANGED <<request, dirs, main, listening>>
    <3>1. loaded # "loaded" /\ UNCHANGED parser
      BY <2>2 DEF ConfigNext, find_server, load_statement, load_return
    <3>2. pc = "idle" /\ main # "running"
      BY <3>1 DEF Phases
    <3>3. LoadOK'
      BY <2>2, FindServerStep, LoadStatementStep, LoadReturnStep DEF ConfigNext
    <3> QED
      BY <2>2, <3>1, <3>2, <3>3, ParserAlone, RequestIdle DEF Phases, request
  <2>3. CASE exit \/ start
    <3>1. /\ main = "starting" /\ UNCHANGED <<parser, config, request, dirs>>
          /\ main' = "running" => loaded = "loaded" /\ listening' = port_ % 65536
      BY <2>3 DEF exit, start
    <3>2. pc = "idle"
      BY <3>1 DEF Phases
    <3> QED
      BY <3>1, <3>2, ParserAlone, LoadAlone, RequestIdle DEF Phases, request, config
  <2> QED
    BY <1>2, <2>1, <2>2, <2>3 DEF Startup
<1>3. CASE Serve
  <2>1. main = "running" /\ loaded = "loaded" /\ UNCHANGED <<main, listening>>
    BY <1>3 DEF Serve, Phases
  <2>2. UNCHANGED <<parser, config>>
    BY <1>3 DEF Serve, Parsing, Handle, malformed, match_all, match_handler, create_simple,
       create_crud, create_sleep, create_not_found, create_static_rootless, create_static,
       file_relative, sanitize_path, file_missing, file_error, file_unsupported, file_open,
       Creating, At
  <2>3. RequestOK'
    BY <1>3, <2>1, HttpStep, HandleStep DEF Serve, Parsing
  <2> QED
    BY <2>1, <2>2, <2>3, ParserAlone, LoadAlone DEF Phases, config
<1>4. CASE Environment
  <2>1. /\ main = "running" /\ loaded = "loaded" /\ UNCHANGED <<main, listening>>
        /\ UNCHANGED <<parser, config>>
    BY <1>4 DEF Environment, Phases, RemoveRoot
  <2>2. RequestOK'
    BY <1>4, RemoveRootOK, ReceiveOK DEF Environment
  <2> QED
    BY <2>1, <2>2, ParserAlone, LoadAlone DEF Phases, config
<1> QED
  BY <1>1, <1>2, <1>3, <1>4 DEF Next

LEMMA AlwaysIInv == Spec => []IInv
  BY InitIInv, NextIInv, PTL DEF Spec

(* Whatever the file holds, NginxConfigParser::Parse never takes top() or  *)
(* pop() of an empty stack or back() of an empty block, and never replaces *)
(* a child block.                                                          *)
THEOREM ParserNeverAstray == Spec => []TreeOK
<1>1. IInv => TreeOK
  BY DEF IInv, ParserInv
<1> QED
  BY <1>1, AlwaysIInv, PTL

(* A step of the program is one of the parser, or leaves it alone. *)
LEMMA ParserOrNot == ASSUME [Next]_vars PROVE UNCHANGED parser \/ ParserNext
<1>1. ConfigNext \/ RemoveRoot => UNCHANGED parser
  BY DEF ConfigNext, find_server, load_statement, load_return, RemoveRoot
<1>2. Handle => \E l : At(l)
  BY DEF Handle, malformed, match_all, match_handler, create_simple, create_crud, create_sleep,
     create_not_found, create_static_rootless, create_static, Creating, file_relative,
     sanitize_path, file_missing, file_error, file_unsupported, file_open
<1>3. Handle => UNCHANGED parser
  BY <1>2 DEF At
<1> QED
  BY <1>1, <1>3 DEF Next, Startup, exit, start, Serve, Parsing, Environment, vars

LEMMA ScanNext == ASSUME IInv, ScanInv, [Next]_vars PROVE ScanInv'
<1>1. CASE UNCHANGED parser
  BY <1>1, ScanAlone DEF parser, scanner
<1>2. CASE ParserNext
  BY <1>2, ScanInvStep DEF IInv
<1> QED
  BY <1>1, <1>2, ParserOrNot

LEMMA GrammarNext == ASSUME IInv, ScanInv, GrammarInv, [Next]_vars PROVE GrammarInv'
<1>1. CASE UNCHANGED parser
  BY <1>1, GrammarAlone DEF parser, scanner
<1>2. CASE ParserNext
  BY <1>2, GrammarInvStep DEF IInv
<1> QED
  BY <1>1, <1>2, ParserOrNot

LEMMA TextNext == ASSUME IInv, ScanInv, TextInv, [Next]_vars PROVE TextInv'
<1>1. CASE UNCHANGED parser
  BY <1>1, TextAlone DEF parser, scanner
<1>2. CASE ParserNext
  BY <1>2, TextInvStep DEF IInv
<1> QED
  BY <1>1, <1>2, ParserOrNot

LEMMA AlwaysScanInv == Spec => []ScanInv
<1>1. Init => ScanInv
  BY ScanInitInv DEF Init
<1>2. IInv /\ ScanInv /\ [Next]_vars => ScanInv'
  BY ScanNext
<1> QED
  BY <1>1, <1>2, AlwaysIInv, PTL DEF Spec

(* ParseToken drops, doubles or moves no unit of a configuration file but  *)
(* the blanks between tokens, whatever the file.                           *)
THEOREM NothingLost == Spec => []Lossless
<1>1. ScanInv => Lossless
  BY DEF ScanInv
<1> QED
  BY <1>1, AlwaysScanInv, PTL

(* Whatever the file, Parse accepts the configurations of the grammar and  *)
(* no others, and stops at the first token that no configuration can go on *)
(* with.                                                                   *)
THEOREM AcceptsTheGrammar == Spec => []GrammarExact
<1>1. Init => GrammarInv
  BY GrammarInitInv DEF Init
<1>2. IInv /\ ScanInv /\ GrammarInv /\ [Next]_vars => GrammarInv'
  BY GrammarNext
<1>3. GrammarInv => GrammarExact
  BY DEF GrammarInv
<1> QED
  BY <1>1, <1>2, <1>3, AlwaysIInv, AlwaysScanInv, PTL DEF Spec

(* Whatever the file, the tree that Parse builds of one that it accepts is *)
(* printed by ToString as the tokens of the file, in their order: no word  *)
(* goes to another statement and no block to another parent.               *)
THEOREM PrintsWhatItRead == Spec => []TreeFaithful
<1>1. Init => TextInv
  BY TextInitInv DEF Init
<1>2. IInv /\ ScanInv /\ TextInv /\ [Next]_vars => TextInv'
  BY TextNext
<1>3. TextInv => TreeFaithful
  BY DEF TextInv
<1> QED
  BY <1>1, <1>2, <1>3, AlwaysIInv, AlwaysScanInv, PTL DEF Spec

(* Whatever the request, sanitize_path lets no part through that is empty, *)
(* a dot or two, or holds a slash.                                         *)
THEOREM NeverAboveRoot == Spec => []Contained
<1>1. IInv => Contained
  BY DEF IInv, RequestOK
<1> QED
  BY <1>1, AlwaysIInv, PTL

(* For every file and every request, PathRouter::match_handler chooses the *)
(* longest location of the server block, in whatever order the map of      *)
(* routes is walked, and of several with one path the last.                *)
THEOREM RoutesAsConfigured == Spec => []RoutedAsConfigured
<1>1. ASSUME IInv PROVE RoutedAsConfigured
  <2> SUFFICES ASSUME pc \in {"match", "file", "sanitize"}, todo = {}
               PROVE  \/ prefix_match = <<>> /\ Candidates = {}
                      \/ \E i \in Candidates :
                           /\ prefix_match = Block[i].tokens[2]
                           /\ handler = parse_handler_config(blocks[Block[i].child])
                           /\ \A j \in Candidates :
                                LET p == Block[j].tokens[2] IN
                                Len(p) <= Len(prefix_match) /\ (p = prefix_match => j <= i)
    BY DEF RoutedAsConfigured, Block
  <2>1. /\ loaded = "loaded" /\ LongestSoFar /\ RoutesSoFar
        /\ server_block \in DOMAIN blocks /\ next > Len(Block) /\ next \in Nat
    BY <1>1 DEF IInv, Phases, LoadOK, RequestOK, Chosen
  <2>2. Before = DOMAIN Block
    BY <1>1, <2>1, BlockFacts DEF Before, IInv
  <2>3. \A j \in Candidates : /\ j \in Before /\ IsRoute(Block[j])
                              /\ StartsWith(path_, Block[j].tokens[2])
    BY <2>2 DEF Candidates, Block
  <2>4. \A j \in Candidates : /\ Block[j].tokens[2] \in DOMAIN routes_
                              /\ Len(Block[j].tokens[2]) <= Len(prefix_match)
    BY <2>1, <2>3 DEF RoutesSoFar, RoutesOf, LongestSoFar
  <2>5. CASE prefix_match = <<>>
    <3>1. ASSUME NEW j \in Candidates PROVE FALSE
      <4>1. Block[j].tokens[2] \in Word /\ Block[j].tokens[2] # <<>>
        BY <1>1, <2>1, <2>4, RouteWords DEF IInv
      <4>2. Len(Block[j].tokens[2]) <= 0
        BY <2>4, <2>5
      <4> QED
        BY <4>1, <4>2 DEF Word
    <3> QED
      BY <2>5, <3>1
  <2>6. CASE prefix_match # <<>>
    <3>1. prefix_match \in DOMAIN routes_ /\ StartsWith(path_, prefix_match)
      BY <2>1, <2>6 DEF LongestSoFar
    <3>2. PICK i \in Before :
            /\ IsRoute(Block[i]) /\ Block[i].tokens[2] = prefix_match
            /\ routes_[prefix_match] = parse_handler_config(blocks[Block[i].child])
            /\ \A j \in Before : IsRoute(Block[j]) /\ Block[j].tokens[2] = prefix_match => j <= i
      BY <2>1, <3>1 DEF RoutesSoFar, RoutesOf
    <3>3. i \in Candidates
      BY <2>2, <3>1, <3>2 DEF Candidates, Block
    <3> QED
      BY <2>3, <2>4, <3>2, <3>3 DEF handler
  <2> QED
    BY <2>5, <2>6
<1> QED
  BY <1>1, AlwaysIInv, PTL

(* For every file, a server that runs listens on the last port its server  *)
(* block names, or on 8080, through both conversions, unless that is above *)
(* 65535.                                                                  *)
THEOREM ListensAsConfigured == Spec => []PortExact
<1>1. ASSUME IInv PROVE PortExact
  <2> SUFFICES ASSUME main = "running" PROVE PortExact
    BY DEF PortExact
  <2>1. /\ loaded = "loaded" /\ listening = port_ % 65536 /\ port_ \in Int /\ port_ > 0
        /\ PortSoFar /\ server_block \in DOMAIN blocks /\ next > Len(Block) /\ next \in Nat
    BY <1>1 DEF IInv, Phases, LoadOK
  <2>2. Before = DOMAIN Block
    BY <1>1, <2>1, BlockFacts DEF Before, IInv
  <2>3. port_ = IF Listens = {} THEN 8080 ELSE stoi(Block[Latest(Listens)].tokens[2])
    BY <2>1, <2>2 DEF PortSoFar, Listens, Block
  <2>4. port_ < 65536 => listening = port_
    BY <2>1
  <2> QED
    BY <2>1, <2>3, <2>4 DEF PortExact, Block
<1> QED
  BY <1>1, AlwaysIInv, PTL
-----------------------------------------------------------------------------
(***************************************************************************)
(* sanitize_path: the parts kept are the pieces of the relative path that  *)
(* have been read, up to place p.                                          *)
(***************************************************************************)
Keeps(f, ps, s, p) ==
  /\ \A i \in DOMAIN ps : ps[i] = Cut(s, f[i]) /\ f[i][1] <= p
  /\ \A i, j \in DOMAIN ps : i < j => f[i][1] < f[j][1]
  /\ \A x \in Cuts(s, "/") :
       x[1] <= p => Cut(s, x) \in Dropped \/ \E i \in DOMAIN ps : f[i] = x

PartsOf(ps, s, p) == \E f \in [DOMAIN ps -> Cuts(s, "/")] : Keeps(f, ps, s, p)

NamedOK ==
  /\ pc \notin {"sanitize", "terminated"} => parts = <<>>
  /\ pc = "sanitize" =>
       \E p : /\ Broken(relative_path, "/", p) /\ rest = Drop(relative_path, p)
              /\ PartsOf(parts, relative_path, p)

LEMMA NothingKept == ASSUME NEW s PROVE PartsOf(<<>>, s, 0)
<1>1. DOMAIN <<>> = {}
  OBVIOUS
<1>2. \A x \in Cuts(s, "/") : ~(x[1] <= 0)
  BY DEF Cuts
<1>3. PICK f : f = [x \in DOMAIN <<>> |-> x]
  OBVIOUS
<1>4. Keeps(f, <<>>, s, 0)
  BY <1>1, <1>2 DEF Keeps
<1>5. f \in [DOMAIN <<>> -> Cuts(s, "/")]
  BY <1>1, <1>3
<1> QED
  BY <1>4, <1>5 DEF PartsOf

LEMMA KeepNext ==
  ASSUME NEW s \in Word, NEW ps \in Seq(Word), NEW p, Broken(s, "/", p),
         p <= Len(s), PartsOf(ps, s, p)
  PROVE  \E q : /\ Broken(s, "/", q) /\ After(Drop(s, p), "/") = Drop(s, q)
                /\ PartsOf(IF Upto(Drop(s, p), "/") \in Dropped THEN ps
                           ELSE Append(ps, Upto(Drop(s, p), "/")), s, q)
<1>0. PICK n, part, qs :
        /\ n = Find(Drop(s, p), "/") /\ part = Upto(Drop(s, p), "/")
        /\ qs = IF part \in Dropped THEN ps ELSE Append(ps, part)
  OBVIOUS
<1> SUFFICES Broken(s, "/", p + n) /\ After(Drop(s, p), "/") = Drop(s, p + n)
             /\ PartsOf(qs, s, p + n)
  BY <1>0
<1> DEFINE z == <<p + 1, p + n - 1>>
<1>1. /\ n \in 1..(Len(s) - p + 1) /\ part = Cut(s, z) /\ z \in Cuts(s, "/")
      /\ \A y \in Cuts(s, "/") : y[1] <= p \/ y = z \/ y[1] > p + n
      /\ Broken(s, "/", p + n) /\ After(Drop(s, p), "/") = Drop(s, p + n)
  BY <1>0, NextCut DEF Word
<1>2. z[1] = p + 1 /\ p \in Nat /\ n \in Nat /\ p + 1 <= p + n
  BY <1>1 DEF Broken
<1> HIDE DEF z
<1>3. PICK f \in [DOMAIN ps -> Cuts(s, "/")] : Keeps(f, ps, s, p)
  BY DEF PartsOf
<1>4. \A y \in Cuts(s, "/") : y[1] \in Int /\ (y[1] <= p => y[1] <= p + n)
  BY <1>2 DEF Cuts
<1>5. ASSUME NEW y \in Cuts(s, "/"), y[1] <= p + n PROVE y[1] <= p \/ y = z
  <2>1. y[1] \in Int
    BY <1>4
  <2>2. ~(y[1] > p + n)
    BY <1>2, <1>5, <2>1
  <2> QED
    BY <1>1, <2>2
<1>6. CASE part \in Dropped
  <2>1. qs = ps
    BY <1>0, <1>6
  <2>2. Keeps(f, ps, s, p + n)
    <3>1. \A i \in DOMAIN ps : ps[i] = Cut(s, f[i]) /\ f[i][1] <= p + n
      BY <1>3, <1>4 DEF Keeps
    <3>2. ASSUME NEW x \in Cuts(s, "/"), x[1] <= p + n
          PROVE  Cut(s, x) \in Dropped \/ \E i \in DOMAIN ps : f[i] = x
      BY <1>1, <1>3, <1>5, <1>6, <3>2 DEF Keeps
    <3> QED
      BY <1>3, <3>1, <3>2 DEF Keeps
  <2> QED
    BY <1>1, <1>3, <2>1, <2>2 DEF PartsOf
<1>7. CASE part \notin Dropped
  <2> DEFINE N == Len(ps) + 1
             g == [i \in 1..N |-> IF i = N THEN z ELSE f[i]]
  <2>1. /\ Len(ps) \in Nat /\ DOMAIN ps = 1..Len(ps) /\ DOMAIN qs = 1..N
        /\ qs[N] = part /\ \A i \in 1..Len(ps) : qs[i] = ps[i]
    <3>1. part \in Word
      BY <1>0, UptoFirst, DropFacts DEF Word, Broken
    <3> QED
      BY <1>0, <1>7, <3>1
  <2>2. g \in [DOMAIN qs -> Cuts(s, "/")] /\ g[N] = z /\ \A i \in DOMAIN ps : g[i] = f[i]
    BY <1>1, <2>1
  <2>3. \A i \in DOMAIN qs : i = N \/ (i \in DOMAIN ps /\ i < N)
    BY <2>1
  <2>4. N \in DOMAIN qs /\ N \in Nat /\ \A i \in DOMAIN ps : i \in DOMAIN qs /\ i \in Nat /\ i < N
    BY <2>1
  <2> HIDE DEF g, N
  <2>5. ASSUME NEW i \in DOMAIN qs PROVE qs[i] = Cut(s, g[i]) /\ g[i][1] <= p + n
    <3>1. CASE i = N
      BY <1>1, <1>2, <2>1, <2>2, <3>1
    <3>2. CASE i \in DOMAIN ps
      BY <1>3, <1>4, <2>1, <2>2, <3>2 DEF Keeps
    <3> QED
      BY <2>3, <3>1, <3>2
  <2>6. ASSUME NEW i \in DOMAIN qs, NEW j \in DOMAIN qs, i < j PROVE g[i][1] < g[j][1]
    <3>1. i \in DOMAIN ps
      BY <2>3, <2>4, <2>6
    <3>2. CASE j = N
      <4>1. g[i] = f[i] /\ f[i] \in Cuts(s, "/") /\ f[i][1] <= p /\ g[j][1] = p + 1
        BY <1>2, <1>3, <2>2, <3>1, <3>2 DEF Keeps
      <4> QED
        BY <1>2, <1>4, <4>1
    <3>3. CASE j \in DOMAIN ps
      BY <1>3, <2>2, <2>6, <3>1, <3>3 DEF Keeps
    <3> QED
      BY <2>3, <3>2, <3>3
  <2>7. ASSUME NEW x \in Cuts(s, "/"), x[1] <= p + n
        PROVE  Cut(s, x) \in Dropped \/ \E i \in DOMAIN qs : g[i] = x
    <3>1. CASE x[1] <= p
      BY <1>3, <2>2, <2>4, <3>1 DEF Keeps
    <3>2. CASE x = z
      BY <2>2, <2>4, <3>2
    <3> QED
      BY <1>5, <2>7, <3>1, <3>2
  <2>8. Keeps(g, qs, s, p + n)
    BY <2>5, <2>6, <2>7 DEF Keeps
  <2> QED
    BY <1>1, <2>2, <2>8 DEF PartsOf
<1> QED
  BY <1>1, <1>6, <1>7

LEMMA NamedNext == ASSUME IInv, NamedOK, [Next]_vars PROVE NamedOK'
<1> USE DEF IInv
<1>1. path_ \in Word /\ prefix_match \in Word /\ parts \in Seq(Word)
  BY DEF RequestOK
<1>2. ASSUME pc' \notin {"sanitize", "terminated"}, parts' = <<>> PROVE NamedOK'
  BY <1>2 DEF NamedOK
<1>3. ASSUME pc' = "terminated" PROVE NamedOK'
  BY <1>3 DEF NamedOK
<1>4. ASSUME NEW n, Answer(n) PROVE NamedOK'
  BY <1>2, <1>4 DEF Answer
<1>5. ASSUME NEW e, Throw(e) PROVE NamedOK'
  BY <1>3, <1>5 DEF Throw
<1>6. ASSUME UNCHANGED <<pc, path_, prefix_match, parts, rest>> PROVE NamedOK'
  <2>1. relative_path' = relative_path
    BY <1>6 DEF relative_path, erase_query
  <2> QED
    BY <1>6, <2>1 DEF NamedOK
<1>7. CASE UNCHANGED request
  BY <1>6, <1>7 DEF request, http, locals
<1>8. CASE Serve /\ Parsing
  BY <1>2, <1>8 DEF Parsing, HttpParse, parse_request_line, parse_path_and_query, parse_header,
     parse_body, locals, NamedOK
<1>9. CASE Environment /\ ~RemoveRoot
  BY <1>2, <1>9 DEF Environment, Receive, locals, NamedOK
<1>10. CASE file_relative
  <2>1. /\ pc' = "sanitize" /\ parts' = <<>> /\ rest' = relative_path
        /\ UNCHANGED <<path_, prefix_match>>
    BY <1>10 DEF file_relative, At, Goto, http, NamedOK
  <2>2. relative_path' = relative_path
    BY <2>1 DEF relative_path, erase_query
  <2>3. relative_path \in Seq(Unit)
    BY <1>1, RelativeType DEF Word
  <2>4. Broken(relative_path, "/", 0) /\ Drop(relative_path, 0) = relative_path
    BY <2>3 DEF Broken, Drop
  <2> QED
    BY <2>1, <2>2, <2>4, NothingKept DEF NamedOK
<1>11. CASE sanitize_path
  <2>1. PICK s : s = relative_path
    OBVIOUS
  <2>2. /\ pc = "sanitize" /\ pc' = "sanitize" /\ rest # <<>> /\ rest' = After(rest, "/")
        /\ parts' = IF Upto(rest, "/") \in Dropped THEN parts ELSE Append(parts, Upto(rest, "/"))
        /\ UNCHANGED <<path_, prefix_match>>
    BY <1>11 DEF sanitize_path, At, Goto, http
  <2>3. relative_path' = s
    BY <2>1, <2>2 DEF relative_path, erase_query
  <2>4. s \in Seq(Unit) /\ s \in Word
    BY <1>1, <2>1, RelativeType DEF Word
  <2>5. PICK p : Broken(s, "/", p) /\ rest = Drop(s, p) /\ PartsOf(parts, s, p)
    BY <2>1, <2>2 DEF NamedOK
  <2>6. p <= Len(s)
    <3>1. SUFFICES ASSUME ~(p <= Len(s)) PROVE FALSE
      OBVIOUS
    <3>2. p \in Nat /\ p >= Len(s)
      BY <2>4, <2>5, <3>1 DEF Broken
    <3> QED
      BY <2>2, <2>4, <2>5, <3>2, DropAll
  <2>7. \E q : /\ Broken(s, "/", q) /\ After(Drop(s, p), "/") = Drop(s, q)
               /\ PartsOf(IF Upto(Drop(s, p), "/") \in Dropped THEN parts
                          ELSE Append(parts, Upto(Drop(s, p), "/")), s, q)
    BY <1>1, <2>4, <2>5, <2>6, KeepNext
  <2>8. \E q : /\ Broken(s, "/", q) /\ rest' = Drop(s, q) /\ PartsOf(parts', s, q)
    BY <2>2, <2>5, <2>7, Zenon
  <2> QED
    BY <2>2, <2>3, <2>8 DEF NamedOK
<1>12. CASE match_all \/ (\E r \in todo : match_handler(r)) \/ create_static
  <2>1. CASE create_static /\ \A e : ~Throw(e)
    BY <1>2, <2>1 DEF create_static, Creating, At, Goto, locals, NamedOK
  <2>2. CASE match_all \/ \E r \in todo : match_handler(r)
    BY <1>2, <2>2 DEF match_all, match_handler, At, Goto, NamedOK
  <2> QED
    BY <1>5, <1>12, <2>1, <2>2
<1>13. CASE Handle
  <2>1. CASE malformed \/ create_simple \/ create_crud \/ create_sleep \/ create_not_found
             \/ create_static_rootless
    BY <1>4, <1>5, <2>1 DEF malformed, create_simple, create_crud, create_sleep,
       create_not_found, create_static_rootless
  <2>2. CASE file_missing \/ file_error \/ file_unsupported \/ file_open
    BY <1>4, <1>5, <2>2 DEF file_missing, file_error, file_unsupported, file_open
  <2> QED
    BY <1>10, <1>11, <1>12, <1>13, <2>1, <2>2 DEF Handle
<1>14. Startup \/ RemoveRoot \/ UNCHANGED vars => UNCHANGED request
  BY DEF Startup, exit, start, RemoveRoot, vars
<1> QED
  BY <1>7, <1>8, <1>9, <1>13, <1>14 DEF Next, Serve

(* A route without a "?" that a path begins with is also the beginning of  *)
(* the path without its query.                                             *)
LEMMA RelativeNamed ==
  ASSUME path_ \in Word, prefix_match \in Word, StartsWith(path_, prefix_match),
         Find(prefix_match, "?") > Len(prefix_match)
  PROVE  relative_path = Drop(erase_query(path_), Len(prefix_match))
<1> DEFINE e == Find(path_, "?")
           L == Len(prefix_match)
           q == Upto(path_, "?")
<1>1. path_ \in Seq(Unit) /\ prefix_match \in Seq(Unit) /\ L \in Nat /\ Len(path_) \in Nat
  BY DEF Word
<1>2. e \in 1..(Len(path_) + 1) /\ (e <= Len(path_) => path_[e] = "?")
  BY <1>1, FindFirst
<1>3. \A j \in 1..L : prefix_match[j] # "?"
  BY <1>1, FindFirst
<1>4. L <= Len(path_) /\ \A j \in 1..L : path_[j] = prefix_match[j]
  BY <1>1 DEF StartsWith
<1> HIDE DEF e, L
<1>5. ~(e <= L)
  BY <1>1, <1>2, <1>3, <1>4
<1>6. q = SubSeq(path_, 1, e - 1)
  BY DEF Upto, e
<1> HIDE DEF q
<1>7. q \in Seq(Unit) /\ Len(q) = e - 1 /\ \A j \in 1..(e - 1) : q[j] = path_[j]
  BY <1>1, <1>2, <1>6
<1>8. L <= Len(q) /\ \A j \in 1..L : q[j] = prefix_match[j]
  BY <1>1, <1>2, <1>4, <1>5, <1>7
<1>9. SubSeq(q, 1, L) = prefix_match
  <2>1. /\ SubSeq(q, 1, L) \in Seq(Unit) /\ Len(SubSeq(q, 1, L)) = L
        /\ \A j \in 1..L : SubSeq(q, 1, L)[j] = q[j]
    BY <1>1, <1>7, <1>8
  <2> QED
    BY <1>1, <1>8, <2>1, SeqEqual DEF L
<1> QED
  BY <1>8, <1>9 DEF relative_path, erase_query, StartsWith, L, q

(* Whatever the path of a request, FileHandler opens the file it names:    *)
(* sanitize_path keeps every piece between slashes, in order, and leaves   *)
(* out no other than empty ones, "." and "..".                             *)
THEOREM OpensWhatIsNamed == Spec => []FileNamed
<1>1. Init => NamedOK
  BY DEF Init, RequestInit, NamedOK
<1>2. ASSUME IInv, NamedOK PROVE FileNamed
  <2> DEFINE s == Drop(erase_query(path_), Len(prefix_match))
  <2> SUFFICES ASSUME pc = "sanitize", rest = <<>>, Find(prefix_match, "?") > Len(prefix_match)
               PROVE  \E f \in [DOMAIN parts -> Cuts(s, "/")] :
                        /\ \A i \in DOMAIN parts : parts[i] = Cut(s, f[i])
                        /\ \A i, j \in DOMAIN parts : i < j => f[i][1] < f[j][1]
                        /\ \A x \in Cuts(s, "/") :
                             Cut(s, x) \in Dropped \/ \E i \in DOMAIN parts : f[i] = x
    BY DEF FileNamed
  <2>1. path_ \in Word /\ prefix_match \in Word /\ StartsWith(path_, prefix_match)
    BY <1>2 DEF IInv, RequestOK, Chosen, LongestSoFar
  <2>2. relative_path = s
    BY <2>1, RelativeNamed
  <2>3. s \in Seq(Unit)
    BY <2>1, <2>2, RelativeType DEF Word
  <2> HIDE DEF s
  <2>4. PICK p : Broken(s, "/", p) /\ rest = Drop(s, p) /\ PartsOf(parts, s, p)
    BY <1>2, <2>2 DEF NamedOK
  <2>5. \A y \in Cuts(s, "/") : y[1] <= p \/ Cut(s, y) = <<>>
    BY <2>3, <2>4, LastCut DEF Broken
  <2>6. PICK f \in [DOMAIN parts -> Cuts(s, "/")] : Keeps(f, parts, s, p)
    BY <2>4 DEF PartsOf
  <2> QED
    BY <2>5, <2>6 DEF Keeps, Dropped
<1> QED
  BY <1>1, <1>2, NamedNext, AlwaysIInv, PTL DEF Spec
-----------------------------------------------------------------------------
(***************************************************************************)
(* A request is parsed before anything else looks at it, and forgotten     *)
(* with its answer.                                                        *)
(***************************************************************************)
LEMMA HttpNext == ASSUME IInv, QueryOK, LinesOK, [Next]_vars PROVE QueryOK' /\ LinesOK'
<1>1. raw_request_ \in Seq(Unit)
  BY DEF IInv, RequestOK, Word
<1>2. CASE UNCHANGED request
  BY <1>2, HttpAlone DEF request
<1>3. CASE Serve /\ Parsing
  BY <1>1, <1>3, HttpParseStep DEF Parsing
<1>4. CASE Environment /\ ~RemoveRoot
  <2>1. /\ pc = "idle" /\ pc' = "line"
        /\ UNCHANGED <<method_, path_, version_, query_params_, headers_>>
    BY <1>4 DEF Environment, Receive
  <2> QED
    BY <2>1, HttpBlank DEF QueryOK, LinesOK
<1>5. ASSUME NEW n, Answer(n) PROVE QueryOK' /\ LinesOK'
  BY <1>5, HttpBlank DEF Answer, HttpReset
<1>6. CASE pc' \in Chosen \cup {"match"}
  BY <1>6, HttpElsewhere DEF Chosen
<1>7. CASE Handle
  BY <1>5, <1>6, <1>7 DEF Handle, malformed, match_all, match_handler, create_simple,
     create_crud, create_sleep, create_not_found, create_static_rootless, create_static,
     file_relative, sanitize_path, file_missing, file_error, file_unsupported, file_open,
     Throw, Goto, Chosen
<1>8. Startup \/ RemoveRoot \/ UNCHANGED vars => UNCHANGED request
  BY DEF Startup, exit, start, RemoveRoot, vars
<1> QED
  BY <1>2, <1>3, <1>4, <1>7, <1>8 DEF Next, Serve

LEMMA AlwaysHttp == Spec => [](QueryExact /\ RequestExact)
<1>1. Init => QueryOK /\ LinesOK
  BY DEF Init, RequestInit, HttpInit, QueryOK, LinesOK, RequestExact
<1>2. QueryOK /\ LinesOK => QueryExact /\ RequestExact
  BY HttpExact
<1>3. IInv /\ QueryOK /\ LinesOK /\ [Next]_vars => (QueryOK /\ LinesOK)'
  BY HttpNext
<1> QED
  BY <1>1, <1>2, <1>3, AlwaysIInv, PTL DEF Spec

(* For every text, HttpRequest::parse finds the first three words, the     *)
(* header lines after them and the body, with CRLF, LF, both, or no empty  *)
(* line at all.                                                            *)
THEOREM ParsesExactly == Spec => []RequestExact
  BY AlwaysHttp, PTL

(* For every path, parse_path_and_query takes the pairs of the query and   *)
(* their last values.                                                      *)
THEOREM QueriesExactly == Spec => []QueryExact
  BY AlwaysHttp, PTL
=============================================================================
