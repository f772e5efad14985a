---------------------------- MODULE ConfigParser ----------------------------
(***************************************************************************)
(* NginxConfigParser (src/src/config_parser.cc): the automaton ParseToken  *)
(* that cuts a configuration file into tokens, and the loop of Parse that  *)
(* checks their order and builds the tree of statements.                   *)
(***************************************************************************)
EXTENDS Text

CONSTANTS
  Unit,    \* characters and words
  Files,   \* the texts the configuration file may hold
  NONE

Quote == {"'", "\""}

Punctuation == [c \in {"{", "}", ";"} |->
  CASE c = "{" -> "start_block" [] c = "}" -> "end_block" [] OTHER -> "statement_end"]

TokenType == {"start", "normal", "start_block", "end_block", "comment",
              "statement_end", "eof", "error"}

ASSUME FilesAssumption == Files \subseteq Seq(Unit) /\ NONE \notin TokenType

(* The states of ParseToken.  The two quote states go by their quote. *)
TokenParserState == {"initial_whitespace", "comment", "normal"} \cup Quote

VARIABLES
  file,             \* the text of the file
  pos,              \* the next unit to get
  state,            \* of ParseToken
  token,            \* *value of ParseToken, then token of Parse
  token_type,       \* what ParseToken returned; NONE while it runs
  last_token_type,
  open_block,
  config_stack,     \* blocks that are open, by their place in blocks
  blocks,           \* every NginxConfig: its statements_
  printed,          \* the tokens Parse has printed, and where each ends
  parsed            \* "unopened", "parsing", or what Parse returned

scanner == <<pos, state, token, token_type, printed>>
tree == <<last_token_type, open_block, config_stack, blocks>>
parser == <<file, scanner, tree, parsed>>

(* A statement's child_block_ is a place in blocks, 0 for nullptr. *)
ParserInit ==
  /\ file \in Files /\ pos = 1
  /\ state = "initial_whitespace" /\ token = <<>> /\ token_type = NONE
  /\ last_token_type = "start" /\ open_block = 0
  /\ config_stack = <<1>> /\ blocks = << <<>> >>
  /\ printed = <<>> /\ parsed = "unopened"

open_file ==
  /\ parsed = "unopened"
  /\ parsed' \in {"parsing", "invalid"}
  /\ UNCHANGED <<file, scanner, tree>>
-----------------------------------------------------------------------------
(* ParseToken, one action for each state: what it does with a unit. *)

unit == file[pos]

Scanning(s) == parsed = "parsing" /\ token_type = NONE /\ state = s

Getting(s) == Scanning(s) /\ pos <= Len(file) /\ UNCHANGED <<file, tree, parsed>>

(* continue, in state s and with *value v *)
Continue(s, v) ==
  /\ state' = s /\ token' = v
  /\ UNCHANGED <<token_type, printed>>

(* return t, which Parse prints with the value; e is the place of the last *)
(* unit of it, noted for Lossless                                          *)
Found(t, v, e) ==
  /\ token_type' = t /\ token' = v
  /\ printed' = Append(printed, [type |-> t, value |-> v, end |-> e])
  /\ UNCHANGED state

initial_whitespace ==
  /\ Getting("initial_whitespace")
  /\ \/ unit \in DOMAIN Punctuation /\ Found(Punctuation[unit], <<unit>>, pos)
     \/ unit = "#" /\ Continue("comment", <<unit>>)
     \/ unit \in Quote /\ Continue(unit, <<unit>>)
     \/ unit \in Blank /\ Continue(state, token)
     \/ unit \notin DOMAIN Punctuation \cup {"#"} \cup Quote \cup Blank
        /\ Continue("normal", Append(token, unit))
  /\ pos' = pos + 1

quote(q) ==
  /\ Getting(q)
  /\ \/ unit = q /\ Found("normal", Append(token, unit), pos)
     \/ unit # q /\ Continue(q, Append(token, unit))
  /\ pos' = pos + 1

comment ==
  /\ Getting("comment")
  /\ \/ unit \in {"nl", "cr"} /\ Found("comment", token, pos - 1)
     \/ unit \notin {"nl", "cr"} /\ Continue("comment", Append(token, unit))
  /\ pos' = pos + 1

(* Mutant: the delimiter is not put back. *)
normal_no_unget ==
  /\ Getting("normal")
  /\ \/ unit \in {"sp", "nl"} \cup DOMAIN Punctuation
        /\ Found("normal", token, pos - 1) /\ pos' = pos + 1
     \/ unit \in Quote /\ Found("error", token, pos - 1) /\ UNCHANGED pos
     \/ unit \notin {"sp", "nl"} \cup DOMAIN Punctuation \cup Quote
        /\ Continue("normal", Append(token, unit)) /\ pos' = pos + 1

(* unget() takes the get() back.  A carriage return is not a delimiter. *)
normal ==
  /\ Getting("normal")
  /\ \/ unit \in {"sp", "nl"} \cup DOMAIN Punctuation
        /\ Found("normal", token, pos - 1) /\ UNCHANGED pos
     \/ unit \in Quote /\ Found("error", token, pos - 1) /\ UNCHANGED pos
     \/ unit \notin {"sp", "nl"} \cup DOMAIN Punctuation \cup Quote
        /\ Continue("normal", Append(token, unit)) /\ pos' = pos + 1

(* Mutant: a comment needs an end of line. *)
end_of_file_no_comment ==
  /\ Scanning(state) /\ pos > Len(file) /\ state # "comment"
  /\ Found(IF state \in Quote THEN "error" ELSE "eof", token, pos - 1)
  /\ UNCHANGED <<file, pos, tree, parsed>>

(* The end of the file.  A word that is not yet ended is printed with this *)
(* token, and Parse drops it.                                              *)
end_of_file ==
  /\ Scanning(state) /\ pos > Len(file)
  /\ Found(IF state \in Quote THEN "error" ELSE "eof", token, pos - 1)
  /\ UNCHANGED <<file, pos, tree, parsed>>
-----------------------------------------------------------------------------
(* The loop of Parse, one action for each type of token. *)

Token(t) == parsed = "parsing" /\ token_type = t /\ UNCHANGED <<file, pos, printed>>

(* The next turn of the loop has a new token. *)
Turn ==
  /\ token' = <<>> /\ token_type' = NONE /\ state' = "initial_whitespace"
  /\ UNCHANGED parsed

Return(v) == parsed' = v /\ UNCHANGED <<token, token_type, state, tree>>
Break == Return("invalid")

top == config_stack[Len(config_stack)]
back == Len(blocks[top])

parse_error == Token("error") /\ Break

parse_comment == Token("comment") /\ Turn /\ UNCHANGED tree

parse_normal ==
  LET b == blocks[top] IN
  /\ Token("normal")
  /\ blocks' = [blocks EXCEPT ![top] =
       IF last_token_type = "normal"
       THEN [b EXCEPT ![back].tokens = Append(b[back].tokens, token)]
       ELSE Append(b, [tokens |-> <<token>>, child |-> 0])]
  /\ last_token_type' = token_type
  /\ Turn
  /\ UNCHANGED <<open_block, config_stack>>

parse_statement_end ==
  /\ Token("statement_end")
  /\ \/ last_token_type # "normal" /\ Break
     \/ /\ last_token_type = "normal"
        /\ last_token_type' = token_type
        /\ Turn
        /\ UNCHANGED <<open_block, config_stack, blocks>>

(* Mutant: a block may follow a block. *)
start_block_after_block ==
  /\ Token("start_block")
  /\ \/ last_token_type \notin {"normal", "end_block"} /\ Break
     \/ /\ last_token_type \in {"normal", "end_block"}
        /\ open_block' = open_block + 1
        /\ blocks' = Append([blocks EXCEPT ![top][back].child = Len(blocks) + 1], <<>>)
        /\ config_stack' = Append(config_stack, Len(blocks) + 1)
        /\ last_token_type' = token_type
        /\ Turn

parse_start_block ==
  /\ Token("start_block")
  /\ \/ last_token_type # "normal" /\ Break
     \/ /\ last_token_type = "normal"
        /\ open_block' = open_block + 1
        /\ blocks' = Append([blocks EXCEPT ![top][back].child = Len(blocks) + 1], <<>>)
        /\ config_stack' = Append(config_stack, Len(blocks) + 1)
        /\ last_token_type' = token_type
        /\ Turn

EndsBlock == last_token_type \in {"statement_end", "start_block", "end_block"}

(* Mutant: the count of open blocks is not kept. *)
end_block_uncounted ==
  /\ Token("end_block")
  /\ \/ (~EndsBlock \/ open_block < 1) /\ Break
     \/ /\ EndsBlock /\ open_block >= 1
        /\ config_stack' = SubSeq(config_stack, 1, Len(config_stack) - 1)
        /\ last_token_type' = token_type
        /\ Turn
        /\ UNCHANGED <<open_block, blocks>>

parse_end_block ==
  /\ Token("end_block")
  /\ \/ (~EndsBlock \/ open_block < 1) /\ Break
     \/ /\ EndsBlock /\ open_block >= 1
        /\ open_block' = open_block - 1
        /\ config_stack' = SubSeq(config_stack, 1, Len(config_stack) - 1)
        /\ last_token_type' = token_type
        /\ Turn
        /\ UNCHANGED blocks

(* Mutant: blocks may be left open. *)
eof_anywhere ==
  /\ Token("eof")
  /\ \/ last_token_type \notin {"statement_end", "end_block", "start"} /\ Break
     \/ last_token_type \in {"statement_end", "end_block", "start"} /\ Return("valid")

parse_eof ==
  /\ Token("eof")
  /\ \/ last_token_type \notin {"statement_end", "end_block", "start"} /\ Break
     \/ /\ last_token_type \in {"statement_end", "end_block", "start"}
        /\ Return(IF Len(config_stack) = 1 THEN "valid" ELSE "invalid")

ParseToken ==
  \/ initial_whitespace \/ comment \/ normal \/ end_of_file
  \/ \E q \in Quote : quote(q)

Parse ==
  \/ parse_error \/ parse_comment \/ parse_normal \/ parse_statement_end
  \/ parse_start_block \/ parse_end_block \/ parse_eof

ParserNext == open_file \/ ParseToken \/ Parse
-----------------------------------------------------------------------------
(* No token leads Parse into undefined behaviour: top() and pop() find a   *)
(* block that main() does not own, back() a statement, reset() a           *)
(* statement that has no child yet, and tokens_[0], which ServerConfig     *)
(* reads unchecked, is there in every statement.  Each open block is the   *)
(* child of the last statement of the one around it.                       *)
TreeOK ==
  /\ open_block = Len(config_stack) - 1
  /\ config_stack # <<>> /\ config_stack[1] = 1
  /\ \A i \in DOMAIN config_stack : config_stack[i] \in DOMAIN blocks
  /\ \A i \in 1..(Len(config_stack) - 1) :
       LET b == blocks[config_stack[i]] IN
       b # <<>> /\ b[Len(b)].child = config_stack[i + 1]
  /\ last_token_type = "normal" => blocks[top] # <<>> /\ blocks[top][back].child = 0
  /\ \A b \in DOMAIN blocks : \A i \in DOMAIN blocks[b] :
       blocks[b][i].tokens # <<>>
       /\ (blocks[b][i].child = 0 \/ blocks[b][i].child \in (b + 1)..Len(blocks))

(* The pieces of the file that were printed, and the one being collected. *)
Slices ==
  IF token_type = NONE
  THEN Append(printed, [type |-> NONE, value |-> token, end |-> pos - 1])
  ELSE printed

begin(t) == t.end - Len(t.value) + 1

(* No unit of the file but blanks is lost, altered or read twice, in       *)
(* words, quotes or comments: each piece is what the file has in its       *)
(* place, the pieces are in order and apart, and only blanks are between   *)
(* them.  It is about ParseToken: a last word that nothing ends counts as  *)
(* read, with the end of file, though Parse then drops it.                 *)
Lossless ==
  /\ \A i \in DOMAIN Slices : LET t == Slices[i] IN
       /\ begin(t) >= 1 /\ t.end < pos
       /\ t.value = SubSeq(file, begin(t), t.end)
  /\ \A i, j \in DOMAIN Slices : i < j => Slices[i].end < begin(Slices[j])
  /\ \A p \in 1..(pos - 1) :
       file[p] \in Blank \/ \E i \in DOMAIN Slices : p \in begin(Slices[i])..Slices[i].end
=============================================================================
