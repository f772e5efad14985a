------------------------- MODULE ConfigParserProofs -------------------------
(***************************************************************************)
(* Proofs about ConfigParser, for files of any length.                     *)
(***************************************************************************)
EXTENDS ConfigGrammar, WellFoundedInduction, TLAPS

Word == Seq(Unit)
Statement == [tokens : Seq(Word), child : Nat]

ParserTypes ==
  /\ file \in Word /\ pos \in Nat \ {0}
  /\ state \in TokenParserState /\ token \in Word
  /\ blocks \in Seq(Seq(Statement))
  /\ config_stack \in Seq(Nat) /\ open_block \in Int

(* A word is not empty: ParseToken leaves initial_whitespace with a unit.  *)
WordsOK ==
  /\ token_type = NONE /\ state # "initial_whitespace" => token # <<>>
  /\ token_type = "normal" => token # <<>>
  /\ \A b \in DOMAIN blocks : \A i \in DOMAIN blocks[b] : \A j \in DOMAIN blocks[b][i].tokens :
       blocks[b][i].tokens[j] # <<>>

(* A block was opened before the ones inside it. *)
StackGrows == \A i, j \in DOMAIN config_stack : i < j => config_stack[i] < config_stack[j]

ParserInv == ParserTypes /\ WordsOK /\ StackGrows /\ TreeOK

LEMMA ParserInitInv == ASSUME ParserInit PROVE ParserInv
<1>1. ParserTypes
  BY FilesAssumption DEF ParserInit, ParserTypes, TokenParserState, Word, Statement
<1>2. WordsOK
  BY FilesAssumption DEF ParserInit, WordsOK, TokenType
<1>3. StackGrows
  BY DEF ParserInit, StackGrows
<1>4. TreeOK
  BY DEF ParserInit, TreeOK, top, back
<1> QED
  BY <1>1, <1>2, <1>3, <1>4 DEF ParserInv

(* A step that leaves the tree alone. *)
LEMMA TreeAlone ==
  ASSUME ParserInv, UNCHANGED tree, ParserTypes',
         token_type' = NONE /\ state' # "initial_whitespace" => token' # <<>>,
         token_type' = "normal" => token' # <<>>
  PROVE  ParserInv'
<1>1. WordsOK'
  BY DEF ParserInv, WordsOK, tree
<1>2. StackGrows'
  BY DEF ParserInv, StackGrows, tree
<1>3. TreeOK'
  BY DEF ParserInv, TreeOK, tree, top, back
<1> QED
  BY <1>1, <1>2, <1>3 DEF ParserInv

LEMMA AppendWord ==
  ASSUME NEW S, NEW s \in Seq(S), NEW e \in S
  PROVE  /\ Append(s, e) \in Seq(S) /\ Append(s, e) # <<>>
         /\ Len(s) \in Nat /\ DOMAIN s = 1..Len(s) /\ Len(Append(s, e)) = Len(s) + 1
         /\ DOMAIN Append(s, e) = 1..(Len(s) + 1)
         /\ Append(s, e)[Len(s) + 1] = e
         /\ \A i \in 1..Len(s) : Append(s, e)[i] = s[i]
  OBVIOUS

LEMMA ScanStep == ASSUME ParserInv, ParseToken PROVE ParserInv'
<1> DEFINE Scanned ==
      /\ pos' \in Nat \ {0} /\ state' \in TokenParserState /\ token' \in Word
      /\ token_type' = NONE /\ state' # "initial_whitespace" => token' # <<>>
      /\ token_type' = "normal" => token' # <<>>
<1>1. UNCHANGED <<file, tree, parsed>> /\ token_type = NONE
  BY DEF ParseToken, initial_whitespace, comment, normal, end_of_file, quote, Getting, Scanning
<1>2. /\ file \in Word /\ pos \in Nat \ {0} /\ state \in TokenParserState /\ token \in Word
      /\ state # "initial_whitespace" => token # <<>>
  BY <1>1 DEF ParserInv, ParserTypes, WordsOK
<1>3. ASSUME pos <= Len(file)
      PROVE  /\ <<unit>> \in Word /\ <<unit>> # <<>>
             /\ Append(token, unit) \in Word /\ Append(token, unit) # <<>>
  <2>1. unit \in Unit
    BY <1>2, <1>3 DEF Word, unit
  <2> QED
    BY <1>2, <2>1, AppendWord DEF Word
<1>4. "normal" # NONE /\ "comment" # NONE /\ "error" # NONE /\ "eof" # NONE
  BY FilesAssumption DEF TokenType
<1>5. ASSUME NEW s \in TokenParserState, NEW v \in Word, v # <<>> \/ s = "initial_whitespace",
             Continue(s, v), pos' \in Nat \ {0}
      PROVE  Scanned
  <2>1. state' = s /\ token' = v /\ token_type' = NONE
    BY <1>1, <1>5 DEF Continue
  <2> QED
    BY <1>4, <1>5, <2>1
<1>6. ASSUME NEW t, NEW v \in Word, NEW e, t # NONE, t = "normal" => v # <<>>,
             Found(t, v, e), pos' \in Nat \ {0}
      PROVE  Scanned
  <2>1. state' = state /\ token' = v /\ token_type' = t
    BY <1>6 DEF Found
  <2> QED
    BY <1>2, <1>6, <2>1
<1>7. Scanned
  <2>1. CASE initial_whitespace
    <3>1. pos <= Len(file) /\ pos' \in Nat \ {0} /\ state = "initial_whitespace"
      BY <1>2, <2>1 DEF initial_whitespace, Getting, Scanning
    <3>2. CASE unit \in DOMAIN Punctuation /\ Found(Punctuation[unit], <<unit>>, pos)
      <4>1. Punctuation[unit] # "normal" /\ Punctuation[unit] # NONE
        BY <3>2, FilesAssumption DEF Punctuation, TokenType
      <4> QED
        BY <1>3, <1>6, <3>1, <3>2, <4>1
    <3>3. CASE unit = "#" /\ Continue("comment", <<unit>>)
      <4>1. "comment" \in TokenParserState
        BY DEF TokenParserState
      <4> QED
        BY <1>3, <1>5, <3>1, <3>3, <4>1
    <3>4. CASE unit \in Quote /\ Continue(unit, <<unit>>)
      <4>1. unit \in TokenParserState
        BY <3>4 DEF TokenParserState
      <4> QED
        BY <1>3, <1>5, <3>1, <3>4, <4>1
    <3>5. CASE unit \in Blank /\ Continue(state, token)
      BY <1>2, <1>5, <3>1, <3>5
    <3>6. CASE Continue("normal", Append(token, unit))
      <4>1. "normal" \in TokenParserState
        BY DEF TokenParserState
      <4> QED
        BY <1>3, <1>5, <3>1, <3>6, <4>1
    <3> QED
      BY <2>1, <3>2, <3>3, <3>4, <3>5, <3>6 DEF initial_whitespace
  <2>2. ASSUME NEW q \in Quote, quote(q) PROVE Scanned
    <3>1. pos <= Len(file) /\ pos' \in Nat \ {0} /\ q \in TokenParserState
      BY <1>2, <2>2 DEF quote, Getting, TokenParserState
    <3>2. CASE Found("normal", Append(token, unit), pos)
      BY <1>3, <1>4, <1>6, <3>1, <3>2
    <3>3. CASE Continue(q, Append(token, unit))
      BY <1>3, <1>5, <3>1, <3>3
    <3> QED
      BY <2>2, <3>2, <3>3 DEF quote
  <2>3. CASE comment
    <3>1. pos <= Len(file) /\ pos' \in Nat \ {0} /\ "comment" \in TokenParserState
      BY <1>2, <2>3 DEF comment, Getting, TokenParserState
    <3>2. CASE Found("comment", token, pos - 1)
      BY <1>2, <1>4, <1>6, <3>1, <3>2
    <3>3. CASE Continue("comment", Append(token, unit))
      BY <1>3, <1>5, <3>1, <3>3
    <3> QED
      BY <2>3, <3>2, <3>3 DEF comment
  <2>4. CASE normal
    <3>1. /\ pos <= Len(file) /\ pos' \in Nat \ {0} /\ token # <<>>
          /\ "normal" \in TokenParserState
      BY <1>2, <2>4 DEF normal, Getting, Scanning, TokenParserState
    <3>2. CASE Found("normal", token, pos - 1) \/ Found("error", token, pos - 1)
      BY <1>2, <1>4, <1>6, <3>1, <3>2
    <3>3. CASE Continue("normal", Append(token, unit))
      BY <1>3, <1>5, <3>1, <3>3
    <3> QED
      BY <2>4, <3>2, <3>3 DEF normal
  <2>5. CASE end_of_file
    <3>1. pos' = pos /\ (Found("error", token, pos - 1) \/ Found("eof", token, pos - 1))
      BY <2>5 DEF end_of_file
    <3> QED
      BY <1>2, <1>4, <1>6, <3>1
  <2> QED
    BY <2>1, <2>2, <2>3, <2>4, <2>5 DEF ParseToken
<1>9. ParserTypes'
  BY <1>1, <1>7 DEF ParserInv, ParserTypes, tree
<1> QED
  BY <1>1, <1>7, <1>9, TreeAlone
-----------------------------------------------------------------------------
(* The loop of Parse. *)

(* Statement s of block b, as WordsOK and TreeOK want it, n blocks in all. *)
StatementOK(s, b, n) ==
  /\ s \in Statement
  /\ s.tokens # <<>> /\ \A j \in DOMAIN s.tokens : s.tokens[j] # <<>>
  /\ s.child = 0 \/ s.child \in (b + 1)..n

BlocksOK == \A b \in DOMAIN blocks : \A i \in DOMAIN blocks[b] :
  StatementOK(blocks[b][i], b, Len(blocks))

(* What the invariant says where Parse works. *)
LEMMA TopFacts ==
  ASSUME ParserInv
  PROVE  /\ Len(config_stack) \in Nat /\ Len(config_stack) >= 1
         /\ DOMAIN config_stack = 1..Len(config_stack)
         /\ Len(blocks) \in Nat /\ DOMAIN blocks = 1..Len(blocks)
         /\ top \in DOMAIN blocks
         /\ blocks[top] \in Seq(Statement)
         /\ \A i \in 1..(Len(config_stack) - 1) : config_stack[i] # top
         /\ BlocksOK
<1>1. /\ config_stack \in Seq(Nat) /\ config_stack # <<>> /\ blocks \in Seq(Seq(Statement))
  BY DEF ParserInv, ParserTypes, TreeOK
<1>2. /\ Len(config_stack) \in Nat /\ Len(config_stack) >= 1
      /\ DOMAIN config_stack = 1..Len(config_stack)
      /\ Len(blocks) \in Nat /\ DOMAIN blocks = 1..Len(blocks)
  BY <1>1
<1>3. Len(config_stack) \in DOMAIN config_stack
  BY <1>2
<1>4. top \in DOMAIN blocks
  BY <1>3 DEF ParserInv, TreeOK, top
<1>5. blocks[top] \in Seq(Statement)
  BY <1>1, <1>4
<1>6. ASSUME NEW i \in 1..(Len(config_stack) - 1) PROVE config_stack[i] # top
  <2>1. i \in DOMAIN config_stack /\ i < Len(config_stack)
    BY <1>2
  <2>2. config_stack[i] < config_stack[Len(config_stack)]
    BY <1>3, <2>1 DEF ParserInv, StackGrows
  <2>3. config_stack[i] \in Nat /\ config_stack[Len(config_stack)] \in Nat
    BY <1>1, <1>3, <2>1
  <2> QED
    BY <2>2, <2>3 DEF top
<1>7. BlocksOK
  <2> SUFFICES ASSUME NEW b \in DOMAIN blocks, NEW i \in DOMAIN blocks[b]
               PROVE  StatementOK(blocks[b][i], b, Len(blocks))
    BY DEF BlocksOK
  <2>1. blocks[b][i] \in Statement
    BY <1>1
  <2> QED
    BY <2>1 DEF ParserInv, WordsOK, TreeOK, StatementOK
<1> QED
  BY <1>2, <1>4, <1>5, <1>6, <1>7

(* The parts of the invariant that are about the tree. *)
TreeTypes ==
  blocks \in Seq(Seq(Statement)) /\ config_stack \in Seq(Nat) /\ open_block \in Int

StackOK ==
  /\ open_block = Len(config_stack) - 1
  /\ config_stack # <<>> /\ config_stack[1] = 1
  /\ \A i \in DOMAIN config_stack : config_stack[i] \in DOMAIN blocks
  /\ \A i \in 1..(Len(config_stack) - 1) :
       /\ blocks[config_stack[i]] # <<>>
       /\ blocks[config_stack[i]][Len(blocks[config_stack[i]])].child = config_stack[i + 1]

LastOK == last_token_type = "normal" => blocks[top] # <<>> /\ blocks[top][back].child = 0

LEMMA TreeParts == ASSUME ParserInv PROVE TreeTypes /\ StackOK /\ LastOK
  BY DEF ParserInv, ParserTypes, TreeOK, TreeTypes, StackOK, LastOK

(* The next turn of the loop, with a tree that is again in order. *)
LEMMA TurnInv ==
  ASSUME ParserInv, Turn, UNCHANGED <<file, pos>>,
         TreeTypes', BlocksOK', StackGrows', StackOK', LastOK'
  PROVE  ParserInv'
<1>1. token' = <<>> /\ token_type' = NONE /\ state' = "initial_whitespace"
  BY DEF Turn
<1>2. ParserTypes'
  BY <1>1 DEF ParserInv, ParserTypes, TreeTypes, TokenParserState, Word
<1>3. WordsOK'
  <2>1. token_type' # "normal"
    BY <1>1, FilesAssumption DEF TokenType
  <2> QED
    BY <1>1, <2>1 DEF WordsOK, BlocksOK, StatementOK
<1>4. TreeOK'
  BY DEF TreeOK, BlocksOK, StatementOK, StackOK, LastOK
<1> QED
  BY <1>2, <1>3, <1>4 DEF ParserInv

LEMMA NormalStep == ASSUME ParserInv, parse_normal PROVE ParserInv'
<1> DEFINE B == blocks[top]
           X == IF last_token_type = "normal"
                THEN [B EXCEPT ![back].tokens = Append(@, token)]
                ELSE Append(B, [tokens |-> <<token>>, child |-> 0])
<1>1. /\ Turn /\ UNCHANGED <<file, pos, open_block, config_stack>>
      /\ blocks' = [blocks EXCEPT ![top] = X] /\ last_token_type' = "normal"
      /\ token \in Word /\ token # <<>>
  <2>1. Turn /\ UNCHANGED <<file, pos, open_block, config_stack>> /\ token_type = "normal"
    BY DEF parse_normal, Token
  <2>2. last_token_type' = "normal"
    BY <2>1 DEF parse_normal
  <2>3. blocks' = [blocks EXCEPT ![top] = X]
    BY DEF parse_normal
  <2>4. token \in Word /\ token # <<>>
    BY <2>1 DEF ParserInv, ParserTypes, WordsOK
  <2> QED
    BY <2>1, <2>2, <2>3, <2>4
<1>2. B \in Seq(Statement) /\ \A i \in DOMAIN B : StatementOK(B[i], top, Len(blocks))
  BY TopFacts DEF BlocksOK
<1>3. /\ X \in Seq(Statement) /\ X # <<>> /\ X[Len(X)].child = 0
      /\ \A i \in DOMAIN X : StatementOK(X[i], top, Len(blocks))
  <2>1. CASE last_token_type = "normal"
    <3>1. B # <<>> /\ B[Len(B)].child = 0
      BY <2>1 DEF ParserInv, TreeOK, back
    <3>2. Len(B) \in DOMAIN B /\ DOMAIN B = 1..Len(B) /\ Len(B) \in Nat
      BY <1>2, <3>1
    <3> DEFINE s == [B[Len(B)] EXCEPT !.tokens = Append(@, token)]
    <3>3. X = [B EXCEPT ![Len(B)] = s]
      BY <2>1, <3>2 DEF back
    <3>4. StatementOK(B[Len(B)], top, Len(blocks)) /\ B[Len(B)].tokens \in Seq(Word)
      BY <1>2, <3>2 DEF StatementOK, Statement
    <3>5. s \in Statement /\ s.tokens = Append(B[Len(B)].tokens, token) /\ s.child = 0
      <4>1. Append(B[Len(B)].tokens, token) \in Seq(Word)
        BY <1>1, <3>4, AppendWord
      <4> QED
        BY <3>1, <3>4, <4>1 DEF StatementOK, Statement
    <3>6. s.tokens # <<>> /\ \A j \in DOMAIN s.tokens : s.tokens[j] # <<>>
      <4> DEFINE w == B[Len(B)].tokens
      <4>1. \A j \in DOMAIN w : w[j] # <<>>
        BY <3>4 DEF StatementOK
      <4>2. w \in Seq(Word)
        BY <3>4
      <4> HIDE DEF w, s, X, B
      <4>3. /\ Append(w, token) # <<>> /\ Len(w) \in Nat /\ DOMAIN w = 1..Len(w)
            /\ DOMAIN Append(w, token) = 1..(Len(w) + 1)
            /\ Append(w, token)[Len(w) + 1] = token
            /\ \A i \in 1..Len(w) : Append(w, token)[i] = w[i]
        BY <1>1, <4>2, AppendWord
      <4>4. \A j \in 1..(Len(w) + 1) : Append(w, token)[j] # <<>>
        BY <1>1, <4>1, <4>3
      <4> QED
        BY <3>5, <4>3, <4>4 DEF w, s
    <3>7. StatementOK(s, top, Len(blocks))
      BY <3>5, <3>6 DEF StatementOK
    <3> HIDE DEF s, X, B
    <3>8. X \in Seq(Statement) /\ DOMAIN X = DOMAIN B /\ Len(X) = Len(B) /\ X[Len(B)] = s
          /\ \A i \in DOMAIN B : i # Len(B) => X[i] = B[i]
      BY <1>2, <3>2, <3>3, <3>5
    <3>9. X # <<>>
      BY <3>2, <3>8
    <3> QED
      BY <1>2, <3>2, <3>5, <3>7, <3>8, <3>9
  <2>2. CASE last_token_type # "normal"
    <3> DEFINE s == [tokens |-> <<token>>, child |-> 0]
    <3>1. X = Append(B, s)
      BY <2>2
    <3>2. StatementOK(s, top, Len(blocks)) /\ s.child = 0 /\ s \in Statement
      BY <1>1 DEF StatementOK, Statement
    <3> HIDE DEF s, X, B
    <3>3. /\ X \in Seq(Statement) /\ X # <<>>
          /\ Len(B) \in Nat /\ DOMAIN B = 1..Len(B) /\ Len(X) = Len(B) + 1
          /\ DOMAIN X = 1..(Len(B) + 1) /\ X[Len(B) + 1] = s
          /\ \A i \in 1..Len(B) : X[i] = B[i]
      BY <1>2, <3>1, <3>2, AppendWord
    <3> QED
      BY <1>2, <3>2, <3>3
  <2> QED
    BY <2>1, <2>2
<1> HIDE DEF X, B
<1>4. /\ blocks' \in Seq(Seq(Statement)) /\ DOMAIN blocks' = DOMAIN blocks
      /\ Len(blocks') = Len(blocks) /\ blocks'[top] = X
      /\ \A b \in DOMAIN blocks : b # top => blocks'[b] = blocks[b]
  BY <1>1, <1>3, TopFacts DEF ParserInv, ParserTypes
<1>5. BlocksOK'
  BY <1>3, <1>4, TopFacts DEF BlocksOK
<1>6. StackGrows' /\ top' = top
  BY <1>1 DEF ParserInv, StackGrows, top
<1>7. TreeTypes' /\ LastOK'
  BY <1>1, <1>3, <1>4, <1>6, TreeParts DEF TreeTypes, LastOK, back
<1>8. ASSUME NEW i \in 1..(Len(config_stack) - 1)
      PROVE  blocks'[config_stack[i]] = blocks[config_stack[i]]
  <2>1. i \in DOMAIN config_stack /\ config_stack[i] # top
    BY TopFacts
  <2> QED
    BY <1>4, <2>1, TreeParts DEF StackOK
<1>9. StackOK'
  BY <1>1, <1>4, <1>8, TreeParts DEF StackOK
<1> QED
  BY <1>1, <1>5, <1>6, <1>7, <1>9, TurnInv

(* Parse leaves the tree and the token alone when it returns, the tree     *)
(* alone at a comment or the end of a statement.                           *)
LEMMA ReturnInv == ASSUME ParserInv, NEW v, Return(v), UNCHANGED <<file, pos>> PROVE ParserInv'
<1>1. UNCHANGED <<token, token_type, state, tree>>
  BY DEF Return
<1>2. ParserTypes'
  BY <1>1 DEF ParserInv, ParserTypes, tree
<1> QED
  BY <1>1, <1>2, TreeAlone DEF ParserInv, WordsOK

LEMMA QuietTurn ==
  ASSUME ParserInv, Turn, UNCHANGED <<file, pos, open_block, config_stack, blocks>>,
         last_token_type' \in {last_token_type, "statement_end"}
  PROVE  ParserInv'
<1>1. BlocksOK' /\ StackGrows'
  BY TopFacts DEF ParserInv, StackGrows, BlocksOK
<1>2. TreeTypes' /\ StackOK'
  BY TreeParts DEF TreeTypes, StackOK
<1>3. LastOK'
  BY TreeParts DEF LastOK, top, back
<1> QED
  BY <1>1, <1>2, <1>3, TurnInv

LEMMA StartBlockStep ==
  ASSUME ParserInv, parse_start_block, last_token_type = "normal" PROVE ParserInv'
<1> DEFINE B == blocks[top]
           s == [B[Len(B)] EXCEPT !.child = Len(blocks) + 1]
           X == [B EXCEPT ![Len(B)] = s]
           Y == [blocks EXCEPT ![top] = X]
<1>1. /\ Turn /\ UNCHANGED <<file, pos>> /\ last_token_type' = "start_block"
      /\ open_block' = open_block + 1
      /\ config_stack' = Append(config_stack, Len(blocks) + 1)
  BY DEF parse_start_block, Token
<1>2. blocks' = Append(Y, <<>>)
  BY DEF parse_start_block, back
<1>3. /\ B \in Seq(Statement) /\ B # <<>> /\ top \in DOMAIN blocks /\ Len(blocks) \in Nat
      /\ \A i \in DOMAIN B : StatementOK(B[i], top, Len(blocks))
  BY TopFacts DEF BlocksOK, ParserInv, TreeOK
<1>4. /\ X \in Seq(Statement) /\ X # <<>> /\ X[Len(X)].child = Len(blocks) + 1
      /\ \A i \in DOMAIN X : StatementOK(X[i], top, Len(blocks) + 1)
  <2>1. Len(B) \in DOMAIN B /\ DOMAIN B = 1..Len(B) /\ Len(B) \in Nat
    BY <1>3
  <2>2. top \in Nat /\ top <= Len(blocks)
    BY TopFacts
  <2>3. StatementOK(B[Len(B)], top, Len(blocks))
    BY <1>3, <2>1
  <2>4. s \in Statement /\ s.tokens = B[Len(B)].tokens /\ s.child = Len(blocks) + 1
    <3>1. B[Len(B)] \in Statement /\ Len(blocks) + 1 \in Nat
      BY <1>3, <2>3 DEF StatementOK
    <3> HIDE DEF B
    <3> QED
      BY <3>1 DEF Statement
  <2>5. StatementOK(s, top, Len(blocks) + 1)
    BY <1>3, <2>2, <2>3, <2>4 DEF StatementOK
  <2>6. ASSUME NEW i \in DOMAIN B PROVE StatementOK(B[i], top, Len(blocks) + 1)
    BY <1>3, <2>2 DEF StatementOK, Statement
  <2> HIDE DEF s, B
  <2>7. X \in Seq(Statement) /\ DOMAIN X = DOMAIN B /\ Len(X) = Len(B) /\ X[Len(B)] = s
        /\ \A i \in DOMAIN B : i # Len(B) => X[i] = B[i]
    BY <1>3, <2>1, <2>4
  <2> HIDE DEF X
  <2>8. X # <<>>
    BY <2>1, <2>7
  <2> QED
    BY <2>1, <2>4, <2>5, <2>6, <2>7, <2>8
<1> HIDE DEF X, B, s
<1>5. /\ Y \in Seq(Seq(Statement)) /\ Len(Y) = Len(blocks) /\ Y[top] = X
      /\ \A b \in DOMAIN blocks : b # top => Y[b] = blocks[b]
  BY <1>4, TopFacts DEF ParserInv, ParserTypes
<1> HIDE DEF Y
<1>6. /\ blocks' \in Seq(Seq(Statement)) /\ Len(blocks') = Len(blocks) + 1
      /\ DOMAIN blocks' = 1..(Len(blocks) + 1)
      /\ blocks'[Len(blocks) + 1] = <<>>
      /\ blocks'[top] = X
      /\ \A b \in DOMAIN blocks : b # top => blocks'[b] = blocks[b]
  <2>1. <<>> \in Seq(Statement)
    OBVIOUS
  <2>2. /\ blocks' \in Seq(Seq(Statement)) /\ Len(blocks') = Len(Y) + 1
        /\ DOMAIN blocks' = 1..(Len(Y) + 1)
        /\ blocks'[Len(Y) + 1] = <<>>
        /\ \A i \in 1..Len(Y) : blocks'[i] = Y[i]
    BY <1>2, <1>5, <2>1, AppendWord
  <2> QED
    BY <1>5, <2>2, TopFacts
<1>7. BlocksOK'
  <2> SUFFICES ASSUME NEW b \in 1..(Len(blocks) + 1), NEW i \in DOMAIN blocks'[b]
               PROVE  StatementOK(blocks'[b][i], b, Len(blocks) + 1)
    BY <1>6 DEF BlocksOK
  <2>1. CASE b = Len(blocks) + 1
    BY <1>6, <2>1
  <2>2. CASE b = top
    BY <1>4, <1>6, <2>2
  <2>3. CASE b \in DOMAIN blocks /\ b # top
    <3>1. StatementOK(blocks[b][i], b, Len(blocks)) /\ blocks'[b] = blocks[b]
      BY <1>6, <2>3, TopFacts DEF BlocksOK
    <3> QED
      BY <1>3, <3>1 DEF StatementOK, Statement
  <2> QED
    BY <1>3, <2>1, <2>2, <2>3, TopFacts
<1>8. /\ config_stack' \in Seq(Nat) /\ Len(config_stack') = Len(config_stack) + 1
      /\ DOMAIN config_stack' = 1..(Len(config_stack) + 1)
      /\ config_stack'[Len(config_stack) + 1] = Len(blocks) + 1
      /\ \A i \in 1..Len(config_stack) : config_stack'[i] = config_stack[i]
  BY <1>1, <1>3, AppendWord DEF ParserInv, ParserTypes
<1>9. /\ open_block \in Int /\ open_block = Len(config_stack) - 1
      /\ config_stack # <<>> /\ config_stack[1] = 1
      /\ \A i \in 1..Len(config_stack) : config_stack[i] \in 1..Len(blocks)
      /\ \A i \in 1..(Len(config_stack) - 1) :
           /\ blocks[config_stack[i]] # <<>>
           /\ blocks[config_stack[i]][Len(blocks[config_stack[i]])].child = config_stack[i + 1]
  BY TopFacts DEF ParserInv, ParserTypes, TreeOK
<1>10. StackGrows'
  <2> SUFFICES ASSUME NEW i \in 1..(Len(config_stack) + 1), NEW j \in 1..(Len(config_stack) + 1),
                      i < j
               PROVE  config_stack'[i] < config_stack'[j]
    BY <1>8 DEF StackGrows
  <2>1. CASE j = Len(config_stack) + 1
    <3>1. i \in 1..Len(config_stack)
      BY <2>1, TopFacts
    <3> QED
      BY <1>3, <1>8, <1>9, <2>1, <3>1
  <2>2. CASE j # Len(config_stack) + 1
    <3>1. i \in DOMAIN config_stack /\ j \in DOMAIN config_stack
      BY <2>2, TopFacts
    <3> QED
      BY <1>8, <3>1, TopFacts DEF ParserInv, StackGrows
  <2> QED
    BY <2>1, <2>2
<1>11. /\ config_stack' # <<>> /\ config_stack'[1] = 1 /\ open_block' \in Int
       /\ open_block' = Len(config_stack') - 1
       /\ \A i \in DOMAIN config_stack' : config_stack'[i] \in DOMAIN blocks'
  <2>1. Len(config_stack) \in Nat /\ Len(config_stack) >= 1
    BY TopFacts
  <2>2. config_stack'[1] = 1 /\ config_stack' # <<>>
    BY <1>8, <1>9, <2>1
  <2>3. open_block' \in Int /\ open_block' = Len(config_stack') - 1
    BY <1>1, <1>8, <1>9, <2>1
  <2>4. ASSUME NEW i \in DOMAIN config_stack' PROVE config_stack'[i] \in DOMAIN blocks'
    <3>1. i \in 1..Len(config_stack) \/ i = Len(config_stack) + 1
      BY <1>8, <2>1
    <3> QED
      BY <1>3, <1>6, <1>8, <1>9, <3>1
  <2> QED
    BY <2>2, <2>3, <2>4
<1>12. ASSUME NEW i \in 1..(Len(config_stack') - 1)
       PROVE  /\ blocks'[config_stack'[i]] # <<>>
              /\ blocks'[config_stack'[i]][Len(blocks'[config_stack'[i]])].child
                   = config_stack'[i + 1]
  <2>1. CASE i = Len(config_stack)
    <3>1. config_stack'[i] = top
      BY <1>8, <2>1, TopFacts DEF top
    <3> QED
      BY <1>4, <1>6, <1>8, <2>1, <3>1
  <2>2. CASE i # Len(config_stack)
    <3>0. Len(config_stack) \in Nat /\ i \in 1..(Len(config_stack) + 1 - 1)
      BY <1>8, TopFacts
    <3>1. i \in 1..(Len(config_stack) - 1) /\ i \in 1..Len(config_stack)
          /\ i + 1 \in 1..Len(config_stack)
      BY <2>2, <3>0
    <3>2. blocks'[config_stack[i]] = blocks[config_stack[i]]
      BY <1>6, <1>9, <3>1, TopFacts
    <3> QED
      BY <1>8, <1>9, <3>1, <3>2
  <2> QED
    BY <2>1, <2>2
<1>13. StackOK'
  BY <1>11, <1>12 DEF StackOK
<1>14. TreeTypes' /\ LastOK'
  BY <1>1, <1>6, <1>8, <1>11 DEF TreeTypes, LastOK
<1> QED
  BY <1>1, <1>7, <1>10, <1>13, <1>14, TurnInv

LEMMA FrontPlaces ==
  ASSUME NEW S, NEW s \in Seq(S), NEW n \in 0..Len(s)
  PROVE  /\ SubSeq(s, 1, n) \in Seq(S) /\ Len(SubSeq(s, 1, n)) = n
         /\ \A i \in 1..n : SubSeq(s, 1, n)[i] = s[i]
  OBVIOUS

LEMMA EndBlockStep ==
  ASSUME ParserInv, parse_end_block, EndsBlock, open_block >= 1 PROVE ParserInv'
<1> DEFINE n == Len(config_stack) - 1
<1>1. /\ Turn /\ UNCHANGED <<file, pos, blocks>> /\ last_token_type' = "end_block"
      /\ open_block' = open_block - 1
      /\ config_stack' = SubSeq(config_stack, 1, n)
  <2>1. open_block \in Int
    BY DEF ParserInv, ParserTypes
  <2> QED
    BY <2>1 DEF parse_end_block, Token
<1>2. config_stack \in Seq(Nat) /\ open_block \in Int /\ open_block = n
  BY TreeParts DEF TreeTypes, StackOK
<1>3. n \in Nat \ {0} /\ Len(config_stack) = n + 1 /\ DOMAIN config_stack = 1..(n + 1)
  BY <1>2, TopFacts
<1> HIDE DEF n
<1>4. n \in 0..Len(config_stack)
  BY <1>3
<1>5. /\ config_stack' \in Seq(Nat) /\ Len(config_stack') = n
      /\ \A i \in 1..n : config_stack'[i] = config_stack[i]
  BY <1>1, <1>2, <1>4, FrontPlaces
<1>6. DOMAIN config_stack' = 1..n /\ 1 \in 1..n /\ \A i \in 1..n : i \in DOMAIN config_stack
  BY <1>3, <1>5
<1>7. StackGrows'
  BY <1>5, <1>6 DEF ParserInv, StackGrows
<1>8. BlocksOK'
  BY <1>1, TopFacts DEF BlocksOK
<1>9. TreeTypes' /\ LastOK'
  BY <1>1, <1>2, <1>5, TreeParts DEF TreeTypes, LastOK
<1>10. StackOK'
  <2>1. open_block' = Len(config_stack') - 1 /\ config_stack'[1] = 1 /\ config_stack' # <<>>
    BY <1>1, <1>2, <1>3, <1>5, <1>6, TreeParts DEF StackOK
  <2>2. \A i \in DOMAIN config_stack' : config_stack'[i] \in DOMAIN blocks'
    BY <1>1, <1>5, <1>6, TreeParts DEF StackOK
  <2>3. ASSUME NEW i \in 1..(Len(config_stack') - 1)
        PROVE  /\ blocks'[config_stack'[i]] # <<>>
               /\ blocks'[config_stack'[i]][Len(blocks'[config_stack'[i]])].child
                    = config_stack'[i + 1]
    <3>1. i \in 1..n /\ i + 1 \in 1..n /\ i \in 1..(Len(config_stack) - 1)
      BY <1>3, <1>5
    <3> QED
      BY <1>1, <1>5, <3>1, TreeParts DEF StackOK
  <2> QED
    BY <2>1, <2>2, <2>3 DEF StackOK
<1> QED
  BY <1>1, <1>7, <1>8, <1>9, <1>10, TurnInv

LEMMA ParserStep == ASSUME ParserInv, ParserNext PROVE ParserInv'
<1>1. CASE open_file
  <2>1. ParserTypes' /\ UNCHANGED tree /\ UNCHANGED <<token_type, state, token>>
    BY <1>1 DEF open_file, ParserInv, ParserTypes, scanner, tree
  <2> QED
    BY <2>1, TreeAlone DEF ParserInv, WordsOK
<1>2. CASE ParseToken
  BY <1>2, ScanStep
<1>3. CASE parse_error
  BY <1>3, ReturnInv DEF parse_error, Token, Break
<1>4. CASE parse_comment
  BY <1>4, QuietTurn DEF parse_comment, Token, tree
<1>5. CASE parse_normal
  BY <1>5, NormalStep
<1>6. CASE parse_statement_end
  BY <1>6, QuietTurn, ReturnInv DEF parse_statement_end, Token, Break
<1>7. CASE parse_start_block
  <2>1. CASE last_token_type = "normal"
    BY <1>7, <2>1, StartBlockStep
  <2>2. CASE last_token_type # "normal"
    BY <1>7, <2>2, ReturnInv DEF parse_start_block, Token, Break
  <2> QED
    BY <2>1, <2>2
<1>8. CASE parse_end_block
  <2>1. CASE EndsBlock /\ open_block >= 1
    BY <1>8, <2>1, EndBlockStep
  <2>2. CASE ~(EndsBlock /\ open_block >= 1)
    BY <1>8, <2>2, ReturnInv DEF parse_end_block, Token, Break
  <2> QED
    BY <2>1, <2>2
<1>9. CASE parse_eof
  BY <1>9, ReturnInv DEF parse_eof, Token, Break
<1> QED
  BY <1>1, <1>2, <1>3, <1>4, <1>5, <1>6, <1>7, <1>8, <1>9 DEF ParserNext, Parse
-----------------------------------------------------------------------------
(* What the scanner does with the units of the file. *)

Piece == [type : TokenType \cup {NONE}, value : Word, end : Nat]

(* Lossless, of the pieces s and of the first n - 1 units of f. *)
LaidOut(f, s, n) ==
  /\ \A i \in DOMAIN s :
       begin(s[i]) >= 1 /\ s[i].end < n /\ s[i].value = SubSeq(f, begin(s[i]), s[i].end)
  /\ \A i, j \in DOMAIN s : i < j => s[i].end < begin(s[j])
  /\ \A p \in 1..(n - 1) :
       f[p] \in Blank \/ \E i \in DOMAIN s : p \in begin(s[i])..s[i].end

(* The same, of the pieces s and one more, with value v and its end at e. *)
Apart(f, s, n) ==
  /\ \A i \in DOMAIN s :
       begin(s[i]) >= 1 /\ s[i].end < n /\ s[i].value = SubSeq(f, begin(s[i]), s[i].end)
  /\ \A i, j \in DOMAIN s : i < j => s[i].end < begin(s[j])

Placed(f, s, v, e, n) ==
  /\ e - Len(v) + 1 >= 1 /\ e < n /\ v = SubSeq(f, e - Len(v) + 1, e)
  /\ \A i \in DOMAIN s : s[i].end < e - Len(v) + 1

Covered(f, s, v, e, n) ==
  \A p \in 1..(n - 1) :
    \/ f[p] \in Blank \/ p \in (e - Len(v) + 1)..e
    \/ \E i \in DOMAIN s : p \in begin(s[i])..s[i].end

LaidOutWith(f, s, v, e, n) ==
  Apart(f, s, n) /\ Placed(f, s, v, e, n) /\ Covered(f, s, v, e, n)

LEMMA LosslessParts == Lossless <=> LaidOut(file, Slices, pos)
  BY DEF Lossless, LaidOut

LEMMA LaidOutAppend ==
  ASSUME NEW f, NEW n, NEW s \in Seq(Piece), NEW t \in Piece
  PROVE  LaidOut(f, Append(s, t), n) <=> LaidOutWith(f, s, t.value, t.end, n)
<1>1. /\ Len(s) \in Nat /\ DOMAIN s = 1..Len(s) /\ DOMAIN Append(s, t) = 1..(Len(s) + 1)
      /\ Append(s, t)[Len(s) + 1] = t /\ \A i \in 1..Len(s) : Append(s, t)[i] = s[i]
  BY AppendWord
<1> PICK l, a : l \in Nat /\ l = Len(s) /\ a = Append(s, t)
  BY <1>1
<1>2. /\ DOMAIN s = 1..l /\ DOMAIN a = 1..(l + 1)
      /\ a[l + 1] = t /\ \A i \in 1..l : a[i] = s[i]
  BY <1>1
<1>3. begin(t) = t.end - Len(t.value) + 1
  BY DEF begin
<1>4. ASSUME LaidOut(f, a, n) PROVE LaidOutWith(f, s, t.value, t.end, n)
  <2>1. ASSUME NEW p \in 1..(n - 1), f[p] \notin Blank
        PROVE  \/ p \in (t.end - Len(t.value) + 1)..t.end
               \/ \E i \in DOMAIN s : p \in begin(s[i])..s[i].end
    <3>1. PICK i \in 1..(l + 1) : p \in begin(a[i])..a[i].end
      BY <1>2, <1>4, <2>1 DEF LaidOut
    <3> QED
      BY <1>2, <1>3, <3>1
  <2>2. /\ \A i \in 1..l : begin(s[i]) >= 1 /\ s[i].end < n
                             /\ s[i].value = SubSeq(f, begin(s[i]), s[i].end)
        /\ \A i, j \in 1..l : i < j => s[i].end < begin(s[j])
    BY <1>2, <1>4 DEF LaidOut
  <2>3. /\ begin(t) >= 1 /\ t.end < n /\ t.value = SubSeq(f, begin(t), t.end)
        /\ \A i \in 1..l : s[i].end < begin(t)
    BY <1>2, <1>4 DEF LaidOut
  <2> QED
    BY <1>2, <1>3, <2>1, <2>2, <2>3 DEF LaidOutWith, Apart, Placed, Covered
<1>5. ASSUME LaidOutWith(f, s, t.value, t.end, n) PROVE LaidOut(f, a, n)
  <2>1. ASSUME NEW i \in 1..(l + 1)
        PROVE  begin(a[i]) >= 1 /\ a[i].end < n /\ a[i].value = SubSeq(f, begin(a[i]), a[i].end)
    BY <1>2, <1>3, <1>5 DEF LaidOutWith, Apart, Placed, Covered
  <2>2. ASSUME NEW i \in 1..(l + 1), NEW j \in 1..(l + 1), i < j PROVE a[i].end < begin(a[j])
    <3>1. i \in 1..l /\ (j \in 1..l \/ j = l + 1)
      BY <2>2
    <3> QED
      BY <1>2, <1>3, <1>5, <2>2, <3>1 DEF LaidOutWith, Apart, Placed, Covered
  <2>3. ASSUME NEW p \in 1..(n - 1), f[p] \notin Blank
        PROVE  \E i \in 1..(l + 1) : p \in begin(a[i])..a[i].end
    <3>1. l + 1 \in 1..(l + 1) /\ \A i \in 1..l : i \in 1..(l + 1)
      OBVIOUS
    <3> QED
      BY <1>2, <1>3, <1>5, <2>3, <3>1 DEF LaidOutWith, Apart, Placed, Covered
  <2> QED
    BY <1>2, <2>1, <2>2, <2>3 DEF LaidOut
<1> QED
  BY <1>4, <1>5

LEMMA PieceEnds ==
  ASSUME NEW s \in Seq(Piece) PROVE \A i \in DOMAIN s : s[i].end \in Nat
<1>1. \A i \in DOMAIN s : s[i] \in Piece
  OBVIOUS
<1> QED
  BY <1>1 DEF Piece

(* Nothing is being collected yet. *)
LEMMA LaidOutNew ==
  ASSUME NEW f \in Word, NEW n \in Nat \ {0}, NEW s \in Seq(Piece), LaidOut(f, s, n)
  PROVE  LaidOutWith(f, s, <<>>, n - 1, n)
<1>1. <<>> = SubSeq(f, n, n - 1) /\ Len(<<>>) = 0
  BY DEF Word
<1>2. \A i \in DOMAIN s : s[i].end \in Nat /\ s[i].end < n
  BY PieceEnds DEF LaidOut
<1> QED
  BY <1>1, <1>2 DEF LaidOut, LaidOutWith, Apart, Placed, Covered

(* A blank is passed over: before a piece, or after it. *)
LEMMA LaidOutBlank ==
  ASSUME NEW f \in Word, NEW n \in Nat \ {0}, NEW s \in Seq(Piece), NEW v \in Word,
         LaidOutWith(f, s, v, n - 1, n), f[n] \in Blank
  PROVE  /\ LaidOutWith(f, s, v, n - 1, n + 1)
         /\ v = <<>> => LaidOutWith(f, s, v, n, n + 1)
<1>0. \A i \in DOMAIN s : s[i].end \in Nat
  BY PieceEnds
<1>1. LaidOutWith(f, s, v, n - 1, n + 1)
  <2>1. \A p \in 1..(n + 1 - 1) : p = n \/ p \in 1..(n - 1)
    OBVIOUS
  <2> QED
    BY <1>0, <2>1 DEF LaidOutWith, Apart, Placed, Covered
<1>2. ASSUME v = <<>> PROVE LaidOutWith(f, s, v, n, n + 1)
  <2>1. <<>> = SubSeq(f, n + 1, n) /\ Len(<<>>) = 0
    BY DEF Word
  <2>2. \A p \in 1..(n + 1 - 1) : p = n \/ p \in 1..(n - 1)
    OBVIOUS
  <2> QED
    BY <1>0, <1>2, <2>1, <2>2 DEF LaidOutWith, Apart, Placed, Covered
<1> QED
  BY <1>1, <1>2

LEMMA SubSeqPlaces ==
  ASSUME NEW f \in Word, NEW b \in Int, NEW c \in 0..Len(f), b >= 1, b <= c + 1
  PROVE  /\ SubSeq(f, b, c) \in Seq(Unit) /\ Len(SubSeq(f, b, c)) = c - b + 1
         /\ \A i \in 1..(c - b + 1) : SubSeq(f, b, c)[i] = f[b + i - 1]
  BY DEF Word

(* A unit is added to the piece. *)
LEMMA LaidOutUnit ==
  ASSUME NEW f \in Word, NEW n \in 1..Len(f), NEW s \in Seq(Piece), NEW v \in Word,
         LaidOutWith(f, s, v, n - 1, n)
  PROVE  LaidOutWith(f, s, Append(v, f[n]), n, n + 1)
<1>1. /\ Len(f) \in Nat /\ Len(v) \in Nat /\ Len(Append(v, f[n])) = Len(v) + 1 /\ n \in Nat
      /\ f[n] \in Unit
  BY DEF Word
<1>2. PICK b \in Int : b = n - Len(v)
  BY <1>1
<1>3. /\ b >= 1 /\ v = SubSeq(f, b, n - 1) /\ b <= n
      /\ n - 1 - Len(v) + 1 = b /\ n - Len(Append(v, f[n])) + 1 = b
  BY <1>1, <1>2 DEF LaidOutWith, Apart, Placed, Covered
<1>4. Append(v, f[n]) = SubSeq(f, b, n)
  <2>1. PICK l, x, y : l \in Nat /\ l = Len(v) /\ x = Append(v, f[n]) /\ y = SubSeq(f, b, n)
    BY <1>1
  <2>2. /\ y \in Seq(Unit) /\ Len(y) = n - b + 1 /\ \A i \in 1..(n - b + 1) : y[i] = f[b + i - 1]
    <3>1. n \in 0..Len(f) /\ b <= n + 1
      BY <1>1, <1>3
    <3> QED
      BY <1>3, <2>1, <3>1, SubSeqPlaces
  <2>3. \A i \in 1..l : v[i] = f[b + i - 1]
    <3>1. n - 1 \in 0..Len(f) /\ b <= n - 1 + 1 /\ n - 1 - b + 1 = l
      BY <1>1, <1>2, <1>3, <2>1
    <3> QED
      BY <1>3, <3>1, SubSeqPlaces
  <2>4. /\ x \in Seq(Unit) /\ Len(x) = l + 1 /\ x[l + 1] = f[n] /\ \A i \in 1..l : x[i] = v[i]
    BY <1>1, <2>1, AppendWord DEF Word
  <2>5. l + 1 = n - b + 1 /\ b + (l + 1) - 1 = n
    BY <1>1, <1>2, <2>1
  <2>6. \A i \in 1..(l + 1) : x[i] = y[i]
    <3>1. \A i \in 1..(l + 1) : i \in 1..l \/ i = l + 1
      BY <2>1
    <3> QED
      BY <2>2, <2>3, <2>4, <2>5, <3>1
  <2>7. x = y
    BY <2>2, <2>4, <2>5, <2>6
  <2> QED
    BY <2>1, <2>7
<1>5. \A i \in DOMAIN s : s[i].end \in Nat
  BY PieceEnds
<1>6. \A p \in 1..(n + 1 - 1) : p \in b..n \/ (p \in 1..(n - 1) /\ p \notin b..(n - 1))
  BY <1>1, <1>3
<1>7. /\ \A i \in DOMAIN s :
             begin(s[i]) >= 1 /\ s[i].end < n + 1 /\ s[i].value = SubSeq(f, begin(s[i]), s[i].end)
      /\ \A i, j \in DOMAIN s : i < j => s[i].end < begin(s[j])
      /\ \A i \in DOMAIN s : s[i].end < b
  <2>1. /\ \A i \in DOMAIN s : begin(s[i]) >= 1 /\ s[i].end < n
                                /\ s[i].value = SubSeq(f, begin(s[i]), s[i].end)
        /\ \A i, j \in DOMAIN s : i < j => s[i].end < begin(s[j])
        /\ \A i \in DOMAIN s : s[i].end < n - 1 - Len(v) + 1
    BY DEF LaidOutWith, Apart, Placed, Covered
  <2>2. \A i \in DOMAIN s : s[i].end < n + 1
    BY <1>1, <1>5, <2>1
  <2> QED
    BY <1>3, <2>1, <2>2
<1>8. \A p \in 1..(n + 1 - 1) :
        f[p] \in Blank \/ p \in b..n \/ \E i \in DOMAIN s : p \in begin(s[i])..s[i].end
  <2>1. \A p \in 1..(n - 1) :
          \/ f[p] \in Blank \/ p \in b..(n - 1)
          \/ \E i \in DOMAIN s : p \in begin(s[i])..s[i].end
    <3>1. \A p \in 1..(n - 1) :
            \/ f[p] \in Blank \/ p \in (n - 1 - Len(v) + 1)..(n - 1)
            \/ \E i \in DOMAIN s : p \in begin(s[i])..s[i].end
      BY DEF LaidOutWith, Apart, Placed, Covered
    <3> QED
      BY <1>3, <3>1
  <2> QED
    BY <1>6, <2>1
<1>9. n - Len(Append(v, f[n])) + 1 >= 1 /\ n < n + 1
  BY <1>1, <1>3
<1>10. Apart(f, s, n + 1)
  BY <1>7, Zenon DEF Apart
<1>11. Placed(f, s, Append(v, f[n]), n, n + 1)
  BY <1>3, <1>4, <1>7, <1>9, Zenon DEF Placed
<1>12. Covered(f, s, Append(v, f[n]), n, n + 1)
  <2>1. \A p \in 1..(n + 1 - 1) :
          \/ f[p] \in Blank \/ p \in (n - Len(Append(v, f[n])) + 1)..n
          \/ \E i \in DOMAIN s : p \in begin(s[i])..s[i].end
    BY <1>3, <1>8
  <2> QED
    BY <2>1 DEF Covered
<1> QED
  BY <1>10, <1>11, <1>12 DEF LaidOutWith

ScanInv ==
  /\ printed \in Seq(Piece)
  /\ token_type = NONE /\ state = "initial_whitespace" => token = <<>>
  /\ Lossless

LEMMA ScanInitInv == ASSUME ParserInit PROVE ScanInv
<1>1. file \in Word /\ printed = <<>> /\ token = <<>> /\ pos = 1 /\ token_type = NONE
  BY FilesAssumption DEF ParserInit, Word
<1>2. printed \in Seq(Piece)
  BY <1>1
<1>3. LaidOutWith(file, printed, <<>>, 1 - 1, 1)
  <2>1. <<>> \in Seq(Piece) /\ DOMAIN <<>> = {} /\ 1..(1 - 1) = {}
    OBVIOUS
  <2>2. LaidOut(file, <<>>, 1) /\ 1 \in Nat \ {0}
    BY <2>1 DEF LaidOut
  <2> QED
    BY <1>1, <2>1, <2>2, LaidOutNew
<1>4. [type |-> NONE, value |-> <<>>, end |-> 1 - 1] \in Piece
  BY DEF Piece, Word
<1>5. LaidOut(file, Append(printed, [type |-> NONE, value |-> <<>>, end |-> 1 - 1]), 1)
  BY <1>2, <1>3, <1>4, LaidOutAppend
<1> QED
  BY <1>1, <1>2, <1>5, LosslessParts DEF ScanInv, Slices

LEMMA NewPiece ==
  ASSUME NEW v \in Word, NEW n \in Nat \ {0}
  PROVE  [type |-> NONE, value |-> v, end |-> n - 1] \in Piece
  BY DEF Piece

(* While a piece is collected. *)
LEMMA Collected ==
  ASSUME ParserInv, ScanInv, token_type = NONE
  PROVE  /\ file \in Word /\ pos \in Nat \ {0} /\ token \in Word /\ printed \in Seq(Piece)
         /\ LaidOutWith(file, printed, token, pos - 1, pos)
<1>1. file \in Word /\ pos \in Nat \ {0} /\ token \in Word /\ printed \in Seq(Piece)
  BY DEF ParserInv, ParserTypes, ScanInv
<1>2. [type |-> NONE, value |-> token, end |-> pos - 1] \in Piece
  BY <1>1, NewPiece
<1> QED
  BY <1>1, <1>2, LosslessParts, LaidOutAppend DEF ScanInv, Slices

(* ParseToken goes on with a piece, or returns it. *)
LEMMA ContinueScan ==
  ASSUME ParserInv', token_type' = NONE, printed' \in Seq(Piece),
         LaidOutWith(file', printed', token', pos' - 1, pos'),
         state' = "initial_whitespace" => token' = <<>>
  PROVE  ScanInv'
<1>1. token' \in Word /\ pos' \in Nat \ {0}
  BY DEF ParserInv, ParserTypes
<1>2. [type |-> NONE, value |-> token', end |-> pos' - 1] \in Piece
  BY <1>1, NewPiece
<1>3. LaidOut(file', Append(printed', [type |-> NONE, value |-> token', end |-> pos' - 1]), pos')
  BY <1>2, LaidOutAppend
<1>4. Slices' = Append(printed', [type |-> NONE, value |-> token', end |-> pos' - 1])
  BY DEF Slices
<1>5. LaidOut(file', Slices', pos')
  BY <1>3, <1>4
<1>6. Lossless'
  BY <1>5 DEF Lossless, LaidOut
<1> QED
  BY <1>6 DEF ScanInv

LEMMA FoundScan ==
  ASSUME NEW t \in TokenType, NEW v \in Word, NEW e \in Nat, Found(t, v, e),
         printed \in Seq(Piece), LaidOutWith(file', printed, v, e, pos')
  PROVE  ScanInv'
<1>1. [type |-> t, value |-> v, end |-> e] \in Piece
  BY DEF Piece
<1>2. printed' = Append(printed, [type |-> t, value |-> v, end |-> e]) /\ token_type' = t
  BY DEF Found
<1>3. LaidOut(file', printed', pos')
  BY <1>1, <1>2, LaidOutAppend
<1>4. token_type' # NONE
  BY <1>2, FilesAssumption
<1>5. Lossless'
  BY <1>3, <1>4 DEF Lossless, LaidOut, Slices
<1>6. printed' \in Seq(Piece)
  BY <1>1, <1>2, AppendWord
<1> QED
  BY <1>4, <1>5, <1>6 DEF ScanInv

LEMMA ScanKeeps == ASSUME ParserInv, ScanInv, ParseToken PROVE ScanInv'
<1>1. file' = file /\ token_type = NONE /\ ParserInv'
  BY ScanStep DEF ParseToken, initial_whitespace, comment, normal, end_of_file, quote, Getting, Scanning
<1>2. /\ file \in Word /\ pos \in Nat \ {0} /\ token \in Word /\ printed \in Seq(Piece)
      /\ LaidOutWith(file, printed, token, pos - 1, pos)
  BY <1>1, Collected
<1>3. /\ pos + 1 - 1 = pos /\ pos \in Nat /\ pos - 1 \in Nat /\ Len(file) \in Nat
      /\ state = "initial_whitespace" => token = <<>>
  BY <1>1, <1>2 DEF ScanInv, Word
<1>4. ASSUME NEW s, s # "initial_whitespace", Continue(s, Append(token, unit)),
             pos <= Len(file), pos' = pos + 1
      PROVE  ScanInv'
  <2>1. LaidOutWith(file, printed, Append(token, unit), pos, pos + 1)
    BY <1>2, <1>4, LaidOutUnit DEF unit
  <2>2. token' = Append(token, unit) /\ printed' = printed /\ token_type' = NONE /\ state' = s
    BY <1>1, <1>4 DEF Continue
  <2> QED
    BY <1>1, <1>2, <1>3, <1>4, <2>1, <2>2, ContinueScan
<1>5. ASSUME NEW t \in TokenType, Found(t, Append(token, unit), pos), pos <= Len(file), pos' = pos + 1
      PROVE  ScanInv'
  <2>1. LaidOutWith(file, printed, Append(token, unit), pos, pos + 1) /\ pos \in 1..Len(file)
    BY <1>2, <1>5, LaidOutUnit DEF unit
  <2>2. Append(token, unit) \in Word
    BY <1>2, <2>1 DEF Word, unit
  <2> QED
    BY <1>1, <1>2, <1>3, <1>5, <2>1, <2>2, FoundScan
<1>6. ASSUME NEW t \in TokenType, Found(t, token, pos - 1), pos' = pos PROVE ScanInv'
  BY <1>1, <1>2, <1>3, <1>6, FoundScan
<1>7. ASSUME state = "initial_whitespace" PROVE <<unit>> = Append(token, unit)
  BY <1>3, <1>7
<1>8. CASE initial_whitespace
  <2>1. pos <= Len(file) /\ pos' = pos + 1 /\ state = "initial_whitespace"
    BY <1>8 DEF initial_whitespace, Getting, Scanning
  <2>2. CASE unit \in DOMAIN Punctuation /\ Found(Punctuation[unit], <<unit>>, pos)
    <3>1. Punctuation[unit] \in TokenType
      BY <2>2 DEF Punctuation, TokenType
    <3> QED
      BY <1>5, <1>7, <2>1, <2>2, <3>1
  <2>3. CASE unit = "#" /\ Continue("comment", <<unit>>)
    BY <1>4, <1>7, <2>1, <2>3
  <2>4. CASE unit \in Quote /\ Continue(unit, <<unit>>)
    <3>1. unit # "initial_whitespace"
      BY <2>4 DEF Quote
    <3> QED
      BY <1>4, <1>7, <2>1, <2>4, <3>1
  <2>5. CASE unit \in Blank /\ Continue(state, token)
    <3>1. token' = <<>> /\ token = <<>> /\ printed' = printed /\ token_type' = NONE
      BY <1>1, <1>3, <2>1, <2>5 DEF Continue
    <3>2. LaidOutWith(file, printed, token, pos, pos + 1)
      BY <1>2, <2>5, <3>1, LaidOutBlank DEF unit
    <3> QED
      BY <1>1, <1>2, <1>3, <2>1, <3>1, <3>2, ContinueScan
  <2>6. CASE Continue("normal", Append(token, unit))
    BY <1>4, <2>1, <2>6
  <2> QED
    BY <1>8, <2>2, <2>3, <2>4, <2>5, <2>6 DEF initial_whitespace
<1>9. ASSUME NEW q \in Quote, quote(q) PROVE ScanInv'
  <2>1. pos <= Len(file) /\ pos' = pos + 1 /\ q # "initial_whitespace" /\ "normal" \in TokenType
    BY <1>9 DEF quote, Getting, Quote, TokenType
  <2> QED
    BY <1>4, <1>5, <1>9, <2>1 DEF quote
<1>10. CASE comment
  <2>1. pos <= Len(file) /\ pos' = pos + 1 /\ "comment" \in TokenType
    BY <1>10 DEF comment, Getting, TokenType
  <2>2. CASE unit \in {"nl", "cr"} /\ Found("comment", token, pos - 1)
    <3>1. LaidOutWith(file, printed, token, pos - 1, pos + 1)
      BY <1>2, <2>2, LaidOutBlank DEF unit, Blank
    <3> QED
      BY <1>1, <1>2, <1>3, <2>1, <2>2, <3>1, FoundScan
  <2>3. CASE Continue("comment", Append(token, unit))
    BY <1>4, <2>1, <2>3
  <2> QED
    BY <1>10, <2>2, <2>3 DEF comment
<1>11. CASE normal
  <2>1. pos <= Len(file) /\ "normal" \in TokenType /\ "error" \in TokenType
    BY <1>11 DEF normal, Getting, TokenType
  <2> QED
    BY <1>4, <1>6, <1>11, <2>1 DEF normal
<1>12. CASE end_of_file
  <2>1. "eof" \in TokenType /\ "error" \in TokenType
    BY DEF TokenType
  <2> QED
    BY <1>6, <1>12, <2>1 DEF end_of_file
<1> QED
  BY <1>8, <1>9, <1>10, <1>11, <1>12 DEF ParseToken

(* Parse leaves the pieces alone; its next turn collects a new one. *)
LEMMA ScanAlone ==
  ASSUME ScanInv, UNCHANGED <<file, pos, printed, token, token_type, state>> PROVE ScanInv'
<1>1. Slices' = Slices
  BY DEF Slices
<1>2. Lossless'
  BY <1>1 DEF ScanInv, Lossless
<1> QED
  BY <1>2 DEF ScanInv

LEMMA TurnScan ==
  ASSUME ParserInv, ScanInv, ParserInv', token_type # NONE, Turn, UNCHANGED <<file, pos, printed>>
  PROVE  ScanInv'
<1>1. file \in Word /\ pos \in Nat \ {0} /\ printed \in Seq(Piece)
  BY DEF ParserInv, ParserTypes, ScanInv
<1>2. LaidOut(file, printed, pos)
  BY LosslessParts DEF ScanInv, Slices
<1>3. LaidOutWith(file, printed, <<>>, pos - 1, pos)
  BY <1>1, <1>2, LaidOutNew
<1> QED
  BY <1>1, <1>3, ContinueScan DEF Turn

LEMMA ScanInvStep == ASSUME ParserInv, ScanInv, ParserNext PROVE ScanInv'
<1>1. CASE open_file
  BY <1>1, ScanAlone DEF open_file, scanner
<1>2. CASE ParseToken
  BY <1>2, ScanKeeps
<1>3. CASE Parse
  <2>1. UNCHANGED <<file, pos, printed>> /\ token_type \in TokenType
    BY <1>3 DEF Parse, parse_error, parse_comment, parse_normal, parse_statement_end,
                parse_start_block, parse_end_block, parse_eof, Token, TokenType
  <2>2. Turn \/ \E v : Return(v)
    BY <1>3 DEF Parse, parse_error, parse_comment, parse_normal, parse_statement_end,
                parse_start_block, parse_end_block, parse_eof, Break
  <2>3. token_type # NONE
    BY <2>1, FilesAssumption
  <2> QED
    BY <2>1, <2>2, <2>3, ParserStep, TurnScan, ScanAlone DEF Return
<1> QED
  BY <1>1, <1>2, <1>3 DEF ParserNext
-----------------------------------------------------------------------------
(* Induction, down from n and up from a. *)

LEMMA Downward ==
  ASSUME NEW n \in Nat, NEW G,
         \A i \in 1..n : (\A p \in (i + 1)..n : p \in G) => i \in G
  PROVE  \A i \in 1..n : i \in G
<1> DEFINE T == {d \in Nat : d < n /\ n - d \notin G}
<1> SUFFICES ASSUME T # {} PROVE FALSE
  <2>1. ASSUME NEW i \in 1..n, i \notin G PROVE n - i \in T
    <3>1. n - i \in Nat /\ n - i < n /\ n - (n - i) = i
      OBVIOUS
    <3> QED
      BY <2>1, <3>1
  <2> QED
    BY <2>1
<1>1. T \in SUBSET Nat
  OBVIOUS
<1>2. PICK d \in T : \A y \in T : ~(<<y, d>> \in OpToRel(<, Nat))
  BY <1>1, NatLessThanWellFounded, WFMin
<1>3. d \in Nat /\ d < n /\ n - d \notin G
  OBVIOUS
<1>4. ASSUME NEW p \in (n - d + 1)..n PROVE p \in G
  <2>1. n - p \in Nat /\ n - p < d /\ n - p < n /\ n - (n - p) = p
    BY <1>3
  <2>2. n - p \notin T
    BY <1>2, <1>3, <2>1 DEF OpToRel
  <2> QED
    BY <2>1, <2>2
<1>5. n - d \in 1..n
  BY <1>3
<1> QED
  BY <1>3, <1>4, <1>5

LEMMA Upward ==
  ASSUME NEW a \in Nat, NEW b \in Nat, NEW G,
         \A p \in a..b : (\A r \in a..(p - 1) : r \in G) => p \in G
  PROVE  \A p \in a..b : p \in G
<1> DEFINE T == {p \in Nat : p \in a..b /\ p \notin G}
<1> SUFFICES ASSUME T # {} PROVE FALSE
  OBVIOUS
<1>1. T \in SUBSET Nat
  OBVIOUS
<1>2. PICK p \in T : \A y \in T : ~(<<y, p>> \in OpToRel(<, Nat))
  BY <1>1, NatLessThanWellFounded, WFMin
<1>3. p \in Nat /\ p \in a..b /\ p \notin G
  OBVIOUS
<1>4. ASSUME NEW r \in a..(p - 1) PROVE r \in G
  <2>1. r \in Nat /\ r < p /\ r \in a..b
    BY <1>3
  <2>2. r \notin T
    BY <1>2, <1>3, <2>1 DEF OpToRel
  <2> QED
    BY <2>1, <2>2
<1> QED
  BY <1>3, <1>4

(* The first place after a that is in S. *)
LEMMA FirstPlace ==
  ASSUME NEW a \in Nat, NEW b \in Nat, NEW S, b \in S, a <= b
  PROVE  \E p \in a..b : p \in S /\ \A r \in a..(p - 1) : r \notin S
<1> SUFFICES ASSUME \A p \in a..b : p \in S => \E r \in a..(p - 1) : r \in S PROVE FALSE
  OBVIOUS
<1> DEFINE G == {p \in a..b : p \notin S}
<1>1. ASSUME NEW p \in a..b, \A r \in a..(p - 1) : r \in G PROVE p \in G
  BY <1>1
<1> HIDE DEF G
<1>2. \A p \in a..b : p \in G
  BY <1>1, Upward
<1> QED
  BY <1>2 DEF G
-----------------------------------------------------------------------------
(* The grammar is defined: Ends(k) is as its recursion says. *)

Rule(k, c, i) == {i} \cup UNION {c[m + 1] : m \in {m \in i..Len(k) : Item(k, c, i, m)}}

Table(k, c) == c = [i \in 1..(Len(k) + 1) |-> Rule(k, c, i)]

LEMMA RuleLocal ==
  ASSUME NEW k, Len(k) \in Nat, NEW i \in 1..(Len(k) + 1), NEW c, NEW d,
         \A p \in (i + 1)..(Len(k) + 1) : c[p] = d[p]
  PROVE  Rule(k, c, i) = Rule(k, d, i)
<1>1. ASSUME NEW m \in i..Len(k)
      PROVE  c[m + 1] = d[m + 1] /\ (Item(k, c, i, m) <=> Item(k, d, i, m))
  <2>1. \A n \in i..m : n + 1 \in (i + 1)..(Len(k) + 1)
    OBVIOUS
  <2>2. m \in i..m /\ \A n \in (i + 1)..m : n \in i..m
    OBVIOUS
  <2> QED
    BY <2>1, <2>2 DEF Item
<1>2. {m \in i..Len(k) : Item(k, c, i, m)} = {m \in i..Len(k) : Item(k, d, i, m)}
  BY <1>1
<1> QED
  BY <1>1, <1>2 DEF Rule

LEMMA TableExists == ASSUME NEW k, Len(k) \in Nat PROVE \E c : Table(k, c)
<1> DEFINE N == Len(k) + 1
           Solves(c, i) == /\ c = [x \in 1..N |-> c[x]]
                           /\ \A p \in i..N : c[p] = Rule(k, c, p)
           G == {i \in 1..N : \E c : Solves(c, i)}
<1>1. ASSUME NEW i \in 1..N, \A p \in (i + 1)..N : p \in G PROVE i \in G
  <2>1. PICK c : c = [x \in 1..N |-> c[x]] /\ \A p \in (i + 1)..N : c[p] = Rule(k, c, p)
    <3>1. CASE i = N
      <4> DEFINE e == [x \in 1..N |-> {}]
      <4>1. e = [x \in 1..N |-> e[x]] /\ \A p \in (i + 1)..N : e[p] = Rule(k, e, p)
        BY <3>1
      <4> QED
        BY <4>1
    <3>2. CASE i # N
      <4>1. i + 1 \in (i + 1)..N
        BY <3>2
      <4> QED
        BY <1>1, <4>1
    <3> QED
      BY <3>1, <3>2
  <2> DEFINE d == [x \in 1..N |-> IF x = i THEN Rule(k, c, i) ELSE c[x]]
  <2>2. d = [x \in 1..N |-> d[x]] /\ d[i] = Rule(k, c, i) /\ \A p \in (i + 1)..N : d[p] = c[p]
    OBVIOUS
  <2> HIDE DEF d
  <2>3. ASSUME NEW p \in i..N PROVE d[p] = Rule(k, d, p)
    <3>1. \A x \in (p + 1)..(Len(k) + 1) : c[x] = d[x]
      <4>1. \A x \in (p + 1)..(Len(k) + 1) : x \in (i + 1)..N
        OBVIOUS
      <4> QED
        BY <2>2, <4>1
    <3>2. Rule(k, c, p) = Rule(k, d, p)
      BY <3>1, RuleLocal
    <3>3. CASE p = i
      BY <2>2, <3>2, <3>3
    <3>4. CASE p \in (i + 1)..N
      BY <2>1, <2>2, <3>2, <3>4
    <3> QED
      BY <3>3, <3>4
  <2>4. Solves(d, i)
    BY <2>2, <2>3
  <2> QED
    BY <2>4
<1>2. N \in Nat /\ 1 \in 1..N
  OBVIOUS
<1> HIDE DEF G, N
<1>3. \A i \in 1..N : i \in G
  BY <1>1, <1>2, Downward
<1>4. PICK c : Solves(c, 1)
  BY <1>2, <1>3 DEF G
<1>5. c = [i \in 1..N |-> Rule(k, c, i)]
  BY <1>4
<1> QED
  BY <1>5 DEF Table, N

LEMMA EndsIs ==
  ASSUME NEW k, Len(k) \in Nat
  PROVE  \A i \in 1..(Len(k) + 1) : \A j :
           j \in Ends(k)[i] <=>
             j = i \/ \E m \in i..Len(k) : Item(k, Ends(k), i, m) /\ j \in Ends(k)[m + 1]
<1>1. Ends(k) = CHOOSE e : Table(k, e)
  BY DEF Ends, Table, Rule
<1>2. Table(k, Ends(k))
  BY <1>1, TableExists
<1>3. \A i \in 1..(Len(k) + 1) : Ends(k)[i] = Rule(k, Ends(k), i)
  BY <1>2 DEF Table
<1> QED
  BY <1>3 DEF Rule
-----------------------------------------------------------------------------
(***************************************************************************)
(* Parse as an automaton on types of tokens: its state is the last type    *)
(* but comments, and the number of open blocks.  A run has the states      *)
(* after each of the first q tokens.                                       *)
(***************************************************************************)
Allowed(l, d, t) ==
  \/ t \in {"normal", "comment"}
  \/ t \in {"statement_end", "start_block"} /\ l = "normal"
  \/ t = "end_block" /\ l \in {"statement_end", "start_block", "end_block"} /\ d >= 1

LastAfter(l, t) == IF t = "comment" THEN l ELSE t

DepthAfter(d, t) ==
  CASE t = "start_block" -> d + 1 [] t = "end_block" -> d - 1 [] OTHER -> d

Kinds == {"start", "normal", "statement_end", "start_block", "end_block"}

Run(k, q, L, D) ==
  /\ L[0] = "start" /\ D[0] = 0
  /\ \A p \in 0..q : L[p] \in Kinds /\ D[p] \in 0..p /\ (L[p] = "start" => D[p] = 0)
  /\ \A p \in 1..q : /\ Allowed(L[p - 1], D[p - 1], k[p])
                     /\ L[p] = LastAfter(L[p - 1], k[p])
                     /\ D[p] = DepthAfter(D[p - 1], k[p])

(* What the automaton does at place p. *)
StepAt(k, L, D, p) ==
  /\ L[p - 1] \in Kinds /\ L[p] \in Kinds /\ D[p - 1] \in Nat /\ D[p] \in Nat
  /\ \/ k[p] = "normal" /\ L[p] = "normal" /\ D[p] = D[p - 1]
     \/ k[p] = "comment" /\ L[p] = L[p - 1] /\ D[p] = D[p - 1]
     \/ /\ k[p] = "statement_end" /\ L[p - 1] = "normal" /\ L[p] = "statement_end"
        /\ D[p] = D[p - 1]
     \/ /\ k[p] = "start_block" /\ L[p - 1] = "normal" /\ L[p] = "start_block"
        /\ D[p] = D[p - 1] + 1
     \/ /\ k[p] = "end_block" /\ L[p - 1] \in {"statement_end", "start_block", "end_block"}
        /\ L[p] = "end_block" /\ D[p] = D[p - 1] - 1

LEMMA RunAt ==
  ASSUME NEW k, NEW q \in Nat, NEW L, NEW D, Run(k, q, L, D)
  PROVE  \A p \in 1..q : StepAt(k, L, D, p)
<1> SUFFICES ASSUME NEW p \in 1..q PROVE StepAt(k, L, D, p)
  OBVIOUS
<1>1. p \in 0..q /\ p - 1 \in 0..q
  OBVIOUS
<1>2. L[p - 1] \in Kinds /\ L[p] \in Kinds /\ D[p - 1] \in Nat /\ D[p] \in Nat
  BY <1>1 DEF Run
<1>3. /\ Allowed(L[p - 1], D[p - 1], k[p])
      /\ L[p] = LastAfter(L[p - 1], k[p])
      /\ D[p] = DepthAfter(D[p - 1], k[p])
  BY DEF Run
<1> QED
  BY <1>2, <1>3 DEF Allowed, LastAfter, DepthAfter, StepAt

LEMMA RunPrefix ==
  ASSUME NEW k, NEW z, NEW q \in Nat, NEW L, NEW D, Run(k, q, L, D),
         \A p \in 1..q : z[p] = k[p]
  PROVE  Run(z, q, L, D)
  BY DEF Run

LEMMA RunNext ==
  ASSUME NEW k, NEW q \in Nat, NEW L, NEW D, Run(k, q, L, D), Allowed(L[q], D[q], k[q + 1])
  PROVE  \E M, E : /\ Run(k, q + 1, M, E)
                   /\ M[q + 1] = LastAfter(L[q], k[q + 1])
                   /\ E[q + 1] = DepthAfter(D[q], k[q + 1])
<1> DEFINE l == LastAfter(L[q], k[q + 1])
           d == DepthAfter(D[q], k[q + 1])
<1>1. L[q] \in Kinds /\ D[q] \in 0..q /\ (L[q] = "start" => D[q] = 0)
  BY DEF Run
<1>2. l \in Kinds /\ d \in 0..(q + 1) /\ (l = "start" => d = 0)
  BY <1>1 DEF Allowed, LastAfter, DepthAfter, Kinds
<1> HIDE DEF l, d
<1>3. PICK M, E : /\ M = [p \in 0..(q + 1) |-> IF p = q + 1 THEN l ELSE L[p]]
                  /\ E = [p \in 0..(q + 1) |-> IF p = q + 1 THEN d ELSE D[p]]
  OBVIOUS
<1>4. /\ M[q + 1] = l /\ E[q + 1] = d
      /\ \A p \in 0..q : M[p] = L[p] /\ E[p] = D[p]
  BY <1>3
<1>5. /\ \A p \in 0..(q + 1) : p \in 0..q \/ p = q + 1
      /\ \A p \in 1..(q + 1) : p \in 1..q \/ p = q + 1
      /\ \A p \in 1..(q + 1) : p - 1 \in 0..q
      /\ \A p \in 1..q : p \in 0..q
      /\ 0 \in 0..q /\ q \in 0..q /\ q + 1 - 1 = q
  OBVIOUS
<1>6. \A p \in 0..(q + 1) : M[p] \in Kinds /\ E[p] \in 0..p /\ (M[p] = "start" => E[p] = 0)
  BY <1>2, <1>4, <1>5 DEF Run
<1>7. ASSUME NEW p \in 1..(q + 1)
      PROVE  /\ Allowed(M[p - 1], E[p - 1], k[p])
             /\ M[p] = LastAfter(M[p - 1], k[p])
             /\ E[p] = DepthAfter(E[p - 1], k[p])
  <2>1. CASE p = q + 1
    BY <1>4, <1>5, <2>1 DEF l, d
  <2>2. CASE p \in 1..q
    BY <1>4, <1>5, <2>2 DEF Run
  <2> QED
    BY <1>5, <2>1, <2>2
<1>8. M[0] = "start" /\ E[0] = 0
  BY <1>4, <1>5 DEF Run
<1> QED
  BY <1>4, <1>6, <1>7, <1>8 DEF Run, l, d
-----------------------------------------------------------------------------
(* The automaton goes through what the grammar derives. *)

(* The words of a statement. *)
WordsFrom(k, i, n) == k[i] = "normal" /\ \A h \in i..(n - 1) : k[h] \in {"normal", "comment"}

LEMMA RunWords ==
  ASSUME NEW k, NEW q \in Nat, NEW L, NEW D, Run(k, q, L, D)
  PROVE  \A i, n \in Nat : i >= 1 /\ n > i /\ n - 1 <= q /\ WordsFrom(k, i, n) =>
           L[n - 1] = "normal" /\ D[n - 1] = D[i - 1]
<1> SUFFICES ASSUME NEW i \in Nat, NEW n \in Nat, i >= 1, n > i, n - 1 <= q, WordsFrom(k, i, n)
             PROVE  L[n - 1] = "normal" /\ D[n - 1] = D[i - 1]
  OBVIOUS
<1> DEFINE G == {p \in Nat : L[p] = "normal" /\ D[p] = D[i - 1]}
<1>1. ASSUME NEW p \in i..(n - 1), \A r \in i..(p - 1) : r \in G PROVE p \in G
  <2>1. p \in 1..q /\ p \in Nat
    OBVIOUS
  <2>0. StepAt(k, L, D, p) /\ k[i] = "normal"
    BY <2>1, RunAt DEF WordsFrom
  <2>2. CASE p = i
    BY <2>0, <2>1, <2>2 DEF StepAt
  <2>3. CASE p # i
    <3>1. p - 1 \in i..(p - 1)
      BY <2>3
    <3>2. L[p - 1] = "normal" /\ D[p - 1] = D[i - 1]
      BY <1>1, <3>1
    <3>3. k[p] \in {"normal", "comment"}
      BY DEF WordsFrom
    <3> QED
      BY <2>0, <2>1, <3>2, <3>3 DEF StepAt
  <2> QED
    BY <2>2, <2>3
<1>2. n - 1 \in Nat /\ n - 1 \in i..(n - 1)
  OBVIOUS
<1> HIDE DEF G
<1>3. \A p \in i..(n - 1) : p \in G
  BY <1>1, <1>2, Upward
<1> QED
  BY <1>2, <1>3 DEF G

(* From place i, where the automaton expects a statement, to place j - 1,  *)
(* or to the last of q tokens: it is where it was, or could go on.         *)
Through(k, q, L, D, i, j) ==
  /\ j \in i..(Len(k) + 1)
  /\ i - 1 <= q /\ L[i - 1] # "normal" =>
       IF j - 1 <= q
       THEN D[j - 1] = D[i - 1] /\ L[j - 1] \in {L[i - 1], "statement_end", "end_block"}
       ELSE Allowed(L[q], D[q], k[q + 1])

LEMMA RunItem ==
  ASSUME NEW k, Len(k) \in Nat, NEW q \in 0..Len(k), NEW L, NEW D, Run(k, q, L, D), NEW c,
         NEW i \in 1..(Len(k) + 1), NEW m \in i..Len(k), Item(k, c, i, m),
         i - 1 <= q, L[i - 1] # "normal",
         \A x \in (i + 1)..(Len(k) + 1) : \A y \in c[x] : Through(k, q, L, D, x, y)
  PROVE  IF m <= q
         THEN D[m] = D[i - 1] /\ L[m] \in {L[i - 1], "statement_end", "end_block"}
         ELSE Allowed(L[q], D[q], k[q + 1])
<1>0. q \in Nat /\ Len(k) \in Nat /\ i \in Nat \ {0} /\ m \in Nat
  OBVIOUS
<1>3. \A p \in 1..q : StepAt(k, L, D, p)
  BY <1>0, RunAt
<1>1. CASE m = i /\ k[i] = "comment"
  <2>1. CASE m <= q
    <3>1. m \in 1..q
      BY <1>0, <2>1
    <3> QED
      BY <1>1, <1>3, <2>1, <3>1 DEF StepAt
  <2>2. CASE ~(m <= q)
    <3>1. q + 1 = i
      BY <1>0, <1>1, <2>2
    <3> QED
      BY <1>1, <2>2, <3>1 DEF Allowed
  <2> QED
    BY <2>1, <2>2
<1>2. ASSUME k[i] = "normal", NEW n \in (i + 1)..m,
             \A h \in i..(n - 1) : k[h] \in {"normal", "comment"},
             \/ n = m /\ k[n] = "statement_end"
             \/ k[n] = "start_block" /\ k[m] = "end_block" /\ m \in c[n + 1]
      PROVE  IF m <= q
             THEN D[m] = D[i - 1] /\ L[m] \in {L[i - 1], "statement_end", "end_block"}
             ELSE Allowed(L[q], D[q], k[q + 1])
  <2>0. n \in Nat /\ n >= i + 1 /\ n <= m /\ n - 1 \in i..(n - 1)
    OBVIOUS
  <2>1. CASE q < n - 1
    <3>1. q + 1 \in i..(n - 1) /\ ~(m <= q)
      BY <1>0, <2>0, <2>1
    <3> QED
      BY <1>2, <3>1 DEF Allowed
  <2>2. CASE q >= n - 1
    <3>1. L[n - 1] = "normal" /\ D[n - 1] = D[i - 1]
      <4>1. n - 1 <= q /\ n \in Nat /\ n > i /\ i >= 1
        BY <1>0, <2>0, <2>2
      <4>2. WordsFrom(k, i, n)
        BY <1>2 DEF WordsFrom
      <4> QED
        BY <1>0, <4>1, <4>2, RunWords
    <3>2. CASE q = n - 1
      <4>1. ~(m <= q) /\ q + 1 = n
        BY <1>0, <2>0, <3>2
      <4> QED
        BY <1>2, <3>1, <3>2, <4>1 DEF Allowed
    <3>3. CASE q # n - 1
      <4>0. n \in 1..q
        BY <1>0, <2>0, <2>2, <3>3
      <4>1. CASE n = m /\ k[n] = "statement_end"
        BY <1>0, <1>3, <3>1, <4>0, <4>1 DEF StepAt
      <4>2. CASE k[n] = "start_block" /\ k[m] = "end_block" /\ m \in c[n + 1]
        <5>1. L[n] = "start_block" /\ D[n] = D[i - 1] + 1 /\ D[i - 1] \in Nat
          BY <1>3, <3>1, <4>0, <4>2 DEF StepAt
        <5>2. n + 1 \in (i + 1)..(Len(k) + 1) /\ n + 1 - 1 = n /\ n <= q
          BY <1>0, <2>0, <4>0
        <5>3. Through(k, q, L, D, n + 1, m)
          BY <4>2, <5>2
        <5>4. /\ m >= n + 1
              /\ IF m - 1 <= q
                 THEN D[m - 1] = D[n] /\ L[m - 1] \in {L[n], "statement_end", "end_block"}
                 ELSE Allowed(L[q], D[q], k[q + 1])
          BY <5>1, <5>2, <5>3 DEF Through
        <5>5. CASE m <= q
          <6>1. m \in 1..q /\ m - 1 <= q
            BY <1>0, <5>5
          <6> QED
            <7>1. StepAt(k, L, D, m) /\ k[m] = "end_block"
              BY <1>3, <4>2, <6>1
            <7>2. L[m] = "end_block" /\ D[m] = D[m - 1] - 1 /\ D[m - 1] = D[i - 1] + 1
              BY <5>1, <5>4, <6>1, <7>1 DEF StepAt
            <7>3. D[m] = D[i - 1]
              BY <5>1, <7>2
            <7> QED
              BY <5>5, <7>2, <7>3
        <5>6. CASE q = m - 1
          <6>1. ~(m <= q) /\ q + 1 = m /\ m - 1 <= q
            BY <1>0, <5>6
          <6> QED
            BY <1>0, <4>2, <5>1, <5>4, <5>6, <6>1 DEF Allowed
        <5>7. CASE q < m - 1
          <6>1. ~(m <= q) /\ ~(m - 1 <= q)
            BY <1>0, <5>7
          <6> QED
            BY <5>4, <6>1
        <5> QED
          BY <1>0, <5>5, <5>6, <5>7
      <4> QED
        BY <1>2, <4>1, <4>2
    <3> QED
      BY <3>2, <3>3
  <2> QED
    BY <1>0, <2>0, <2>1, <2>2
<1> QED
  BY <1>1, <1>2 DEF Item

LEMMA ConfigRuns ==
  ASSUME NEW k, Len(k) \in Nat, NEW q \in 0..Len(k), NEW L, NEW D, Run(k, q, L, D)
  PROVE  \A i \in 1..(Len(k) + 1) : \A j \in Ends(k)[i] : Through(k, q, L, D, i, j)
<1> DEFINE G == {i \in Nat : \A j \in Ends(k)[i] : Through(k, q, L, D, i, j)}
<1>1. ASSUME NEW i \in 1..(Len(k) + 1), \A p \in (i + 1)..(Len(k) + 1) : p \in G PROVE i \in G
  <2> SUFFICES ASSUME NEW j \in Ends(k)[i] PROVE Through(k, q, L, D, i, j)
    OBVIOUS
  <2>0. \A x \in (i + 1)..(Len(k) + 1) : \A y \in Ends(k)[x] : Through(k, q, L, D, x, y)
    BY <1>1
  <2>1. CASE j = i
    BY <2>1 DEF Through
  <2>2. ASSUME NEW m \in i..Len(k), Item(k, Ends(k), i, m), j \in Ends(k)[m + 1]
        PROVE  Through(k, q, L, D, i, j)
    <3>1. m + 1 \in (i + 1)..(Len(k) + 1) /\ m + 1 - 1 = m /\ m \in Nat /\ q \in Nat
      OBVIOUS
    <3>2. Through(k, q, L, D, m + 1, j)
      BY <2>0, <2>2, <3>1
    <3>3. j \in (m + 1)..(Len(k) + 1) /\ j \in i..(Len(k) + 1)
      BY <3>2 DEF Through
    <3>4. ASSUME i - 1 <= q, L[i - 1] # "normal"
          PROVE  IF j - 1 <= q
                 THEN D[j - 1] = D[i - 1] /\ L[j - 1] \in {L[i - 1], "statement_end", "end_block"}
                 ELSE Allowed(L[q], D[q], k[q + 1])
      <4>1. IF m <= q
            THEN D[m] = D[i - 1] /\ L[m] \in {L[i - 1], "statement_end", "end_block"}
            ELSE Allowed(L[q], D[q], k[q + 1])
        BY <2>0, <2>2, <3>4, RunItem
      <4>2. CASE m <= q
        <5>1. L[m] # "normal"
          BY <3>4, <4>1, <4>2
        <5> QED
          BY <3>1, <3>2, <4>1, <4>2, <5>1 DEF Through
      <4>3. CASE ~(m <= q)
        <5>1. ~(j - 1 <= q)
          BY <3>1, <3>3, <4>3
        <5> QED
          BY <4>1, <4>3, <5>1
      <4> QED
        BY <4>2, <4>3
    <3> QED
      BY <3>3, <3>4 DEF Through
  <2> QED
    BY <2>1, <2>2, EndsIs
<1>2. Len(k) + 1 \in Nat
  OBVIOUS
<1> HIDE DEF G
<1>3. \A i \in 1..(Len(k) + 1) : i \in G
  BY <1>1, <1>2, Downward
<1> QED
  BY <1>3 DEF G
-----------------------------------------------------------------------------
(* The grammar derives what the automaton goes through, from a place where *)
(* it expects a statement to one where it does so again, in the same       *)
(* block.                                                                  *)
Closed(L, D, i, j) ==
  /\ L[i - 1] # "normal" /\ L[j - 1] # "normal" /\ D[j - 1] = D[i - 1]
  /\ \A p \in (i - 1)..(j - 1) : D[p] >= D[i - 1]

LEMMA RunDerives ==
  ASSUME NEW k, Len(k) \in Nat, NEW q \in 0..Len(k), NEW L, NEW D, Run(k, q, L, D)
  PROVE  \A i \in 1..(q + 1) : \A j \in i..(q + 1) : Closed(L, D, i, j) => j \in Ends(k)[i]
<1>0. q \in Nat /\ q + 1 \in Nat /\ q <= Len(k) /\ \A i \in 1..(q + 1) : i \in 1..(Len(k) + 1)
  OBVIOUS
<1>1. \A p \in 1..q : StepAt(k, L, D, p)
  BY <1>0, RunAt
<1>2. PICK E : E = Ends(k)
  OBVIOUS
<1>3. \A i \in 1..(q + 1) : \A j :
        j \in E[i] <=> j = i \/ \E m \in i..Len(k) : Item(k, E, i, m) /\ j \in E[m + 1]
  BY <1>0, <1>2, EndsIs
<1> DEFINE G == {i \in Nat : \A j \in i..(q + 1) : Closed(L, D, i, j) => j \in E[i]}
<1>4. ASSUME NEW i \in 1..(q + 1), \A p \in (i + 1)..(q + 1) : p \in G PROVE i \in G
  <2> SUFFICES ASSUME NEW j \in i..(q + 1), Closed(L, D, i, j), j # i PROVE j \in E[i]
    BY <1>3
  <2>1. /\ i \in Nat /\ j \in Nat /\ i >= 1 /\ i <= j - 1 /\ j - 1 <= q /\ j - 1 \in Nat
        /\ i \in 1..q /\ i \in i..Len(k)
    BY <1>0
  <2>2. /\ L[i - 1] # "normal" /\ L[j - 1] # "normal" /\ D[j - 1] = D[i - 1]
        /\ \A p \in (i - 1)..(j - 1) : D[p] >= D[i - 1]
    BY DEF Closed
  <2>3. PICK d : d = D[i - 1]
    OBVIOUS
  <2>4. StepAt(k, L, D, i) /\ d \in Nat
    BY <1>1, <2>1, <2>3 DEF StepAt
  <2>5. D[i] >= d
    BY <2>1, <2>2, <2>3
  <2>6. ASSUME NEW m \in i..(j - 1), Item(k, E, i, m), L[m] # "normal", D[m] = d PROVE j \in E[i]
    <3>1. m + 1 \in (i + 1)..(q + 1) /\ j \in (m + 1)..(q + 1) /\ m + 1 - 1 = m /\ m \in i..Len(k)
      BY <1>0, <2>1
    <3>2. Closed(L, D, m + 1, j)
      BY <2>1, <2>2, <2>3, <2>6, <3>1 DEF Closed
    <3>3. j \in E[m + 1]
      BY <1>4, <3>1, <3>2
    <3> QED
      BY <1>3, <2>6, <3>1, <3>3
  <2>7. k[i] \in {"comment", "normal"}
    BY <2>2, <2>3, <2>4, <2>5 DEF StepAt
  <2>8. CASE k[i] = "comment"
    <3>1. Item(k, E, i, i) /\ L[i] # "normal" /\ D[i] = d /\ i \in i..(j - 1)
      BY <2>1, <2>2, <2>3, <2>4, <2>8 DEF StepAt, Item
    <3> QED
      BY <2>6, <3>1
  <2>9. CASE k[i] = "normal"
    <3> DEFINE S == {p \in Nat : ~(L[p] = "normal" /\ D[p] = d)}
    <3>1. j - 1 \in S /\ L[i] = "normal" /\ D[i] = d
      BY <2>1, <2>2, <2>3, <2>4, <2>9 DEF StepAt
    <3>2. PICK n \in i..(j - 1) : n \in S /\ \A r \in i..(n - 1) : r \notin S
      BY <2>1, <3>1, FirstPlace
    <3>3. /\ n \in Nat /\ n # i /\ n - 1 \in i..(n - 1) /\ n \in 1..q /\ n \in (i + 1)..(j - 1)
          /\ \A r \in i..(n - 1) : r \in Nat /\ r \in 1..q
      BY <2>1, <3>1, <3>2
    <3>4. \A r \in i..(n - 1) : L[r] = "normal" /\ D[r] = d
      BY <3>2, <3>3
    <3>5. \A h \in i..(n - 1) : k[h] \in {"normal", "comment"}
      BY <1>1, <3>3, <3>4 DEF StepAt
    <3>6. StepAt(k, L, D, n) /\ L[n - 1] = "normal" /\ D[n - 1] = d
      BY <1>1, <3>3, <3>4
    <3>7. ~(L[n] = "normal" /\ D[n] = d)
      BY <3>2
    <3>8. \/ k[n] = "statement_end" /\ L[n] = "statement_end" /\ D[n] = d
          \/ k[n] = "start_block" /\ L[n] = "start_block" /\ D[n] = d + 1
      BY <3>6, <3>7 DEF StepAt
    <3> HIDE DEF S
    <3>9. CASE k[n] = "statement_end"
      <4>1. n \in (i + 1)..n /\ n \in i..(j - 1)
        BY <3>3
      <4>2. Item(k, E, i, n)
        BY <2>9, <3>5, <3>9, <4>1 DEF Item
      <4> QED
        BY <2>6, <3>8, <3>9, <4>1, <4>2
    <3>10. CASE k[n] = "start_block"
      <4>1. D[n] = d + 1 /\ L[n] = "start_block"
        BY <3>8, <3>10
      <4>2. PICK R : R = {p \in Nat : D[p] <= d}
        OBVIOUS
      <4>11. j - 1 \in R
        BY <2>1, <2>2, <2>3, <2>4, <4>2
      <4>14. PICK b \in Nat : b = j - 1
        BY <2>1
      <4>12. PICK a \in Nat : a = n + 1 /\ a <= b
        <5>1. n # j - 1
          BY <2>2, <2>3, <2>4, <4>1
        <5> QED
          BY <2>1, <3>3, <4>14, <5>1
      <4>13. PICK m \in a..b : m \in R /\ \A r \in a..(m - 1) : r \notin R
        <5>1. b \in R
          BY <4>11, <4>14
        <5> QED
          BY <4>12, <5>1, FirstPlace
      <4>3. /\ m \in (n + 1)..(j - 1) /\ D[m] <= d
            /\ \A r \in (n + 1)..(m - 1) : r \in Nat => ~(D[r] <= d)
        BY <4>2, <4>12, <4>13, <4>14
      <4>4. /\ m \in Nat /\ m \in 1..q /\ m \in (i - 1)..(j - 1) /\ m \in i..(j - 1) /\ n \in (i + 1)..m
            /\ \A r \in n..(m - 1) : r \in 1..q /\ r \in Nat /\ (r = n \/ r \in (n + 1)..(m - 1))
            /\ m - 1 \in n..(m - 1)
        BY <2>1, <3>3, <4>3
      <4>5. \A r \in n..(m - 1) : D[r] \in Nat /\ D[r] >= d + 1
        <5>1. \A r \in n..(m - 1) : D[r] \in Nat
          BY <1>1, <4>4 DEF StepAt
        <5> QED
          BY <2>4, <4>1, <4>3, <4>4, <5>1
      <4>6. D[m] <= d /\ D[m] >= d /\ D[m - 1] \in Nat /\ D[m - 1] >= d + 1
        <5>1. D[m] >= d
          BY <2>2, <2>3, <4>4
        <5>2. D[m - 1] \in Nat /\ D[m - 1] >= d + 1
          BY <4>4, <4>5
        <5> QED
          BY <4>3, <5>1, <5>2
      <4>7. StepAt(k, L, D, m)
        BY <1>1, <4>4
      <4>8. /\ k[m] = "end_block" /\ L[m] = "end_block" /\ D[m] = d /\ D[m - 1] = d + 1
            /\ L[m - 1] # "normal"
        <5>1. D[m] \in Nat /\ D[m] = d
          BY <2>4, <4>6, <4>7 DEF StepAt
        <5>2. D[m] < D[m - 1]
          BY <2>4, <4>6, <5>1
        <5>3. /\ k[m] = "end_block" /\ L[m] = "end_block" /\ D[m] = D[m - 1] - 1
              /\ L[m - 1] \in {"statement_end", "start_block", "end_block"}
          BY <4>6, <4>7, <5>1, <5>2 DEF StepAt
        <5> QED
          BY <4>6, <5>1, <5>3
      <4>9. m \in E[n + 1]
        <5>1. n + 1 \in (i + 1)..(q + 1) /\ m \in (n + 1)..(q + 1) /\ n + 1 - 1 = n
          BY <1>0, <2>1, <3>3, <4>3, <4>4
        <5>2. Closed(L, D, n + 1, m)
          BY <4>1, <4>5, <4>8, <5>1 DEF Closed
        <5> QED
          BY <1>4, <5>1, <5>2
      <4>10. Item(k, E, i, m)
        BY <2>9, <3>5, <3>10, <4>4, <4>8, <4>9 DEF Item
      <4> QED
        BY <2>6, <4>4, <4>8, <4>10
    <3> QED
      BY <3>8, <3>9, <3>10
  <2> QED
    BY <2>7, <2>8, <2>9
<1> HIDE DEF G
<1>5. \A i \in 1..(q + 1) : i \in G
  BY <1>0, <1>4, Downward
<1> QED
  BY <1>2, <1>5 DEF G
-----------------------------------------------------------------------------
(* What a configuration is, and what may become one. *)

LEMMA ConfigEnd ==
  ASSUME NEW k, NEW q \in Nat, Len(k) = q, NEW L, NEW D, Run(k, q, L, D)
  PROVE  /\ IsConfig(k) => D[q] = 0 /\ L[q] \in {"start", "statement_end", "end_block"}
         /\ D[q] = 0 /\ L[q] # "normal" => IsConfig(k)
<1>1. /\ Len(k) \in Nat /\ q \in 0..Len(k) /\ 1 \in 1..(q + 1) /\ q + 1 \in 1..(q + 1)
      /\ q + 1 - 1 = q /\ 1 - 1 = 0 /\ 0 <= q /\ q <= q
  OBVIOUS
<1>2. L[0] = "start" /\ D[0] = 0 /\ \A p \in 0..q : D[p] \in Nat
  BY DEF Run
<1>3. ASSUME IsConfig(k) PROVE D[q] = 0 /\ L[q] \in {"start", "statement_end", "end_block"}
  <2>1. q + 1 \in Ends(k)[1]
    BY <1>3 DEF IsConfig
  <2>2. Through(k, q, L, D, 1, q + 1)
    BY <1>1, <2>1, ConfigRuns
  <2> QED
    BY <1>1, <1>2, <2>2 DEF Through
<1>4. ASSUME D[q] = 0, L[q] # "normal" PROVE IsConfig(k)
  <2>1. Closed(L, D, 1, q + 1)
    BY <1>1, <1>2, <1>4 DEF Closed
  <2>2. q + 1 \in Ends(k)[1]
    BY <1>1, <2>1, RunDerives
  <2> QED
    BY <2>2 DEF IsConfig
<1> QED
  BY <1>3, <1>4

Extends(z, k, s, n) ==
  /\ Len(z) = Len(k) + Len(s) + n
  /\ \A p \in 1..Len(k) : z[p] = k[p]
  /\ \A p \in 1..Len(s) : z[Len(k) + p] = s[p]
  /\ \A p \in 1..n : z[Len(k) + Len(s) + p] = "end_block"

Ending(n) == [i \in 1..n |-> "end_block"]

LEMMA Extended ==
  ASSUME NEW k \in Seq(TokenType), NEW s \in Seq(TokenType), NEW n \in Nat
  PROVE  Extends(k \o s \o Ending(n), k, s, n)
<1>0. PICK z : z = k \o s \o Ending(n)
  OBVIOUS
<1>1. PICK e : e = Ending(n)
  OBVIOUS
<1>2. e \in Seq(TokenType) /\ Len(e) = n /\ \A p \in 1..n : e[p] = "end_block"
  BY <1>1 DEF TokenType, Ending
<1>3. PICK a : a = k \o s
  OBVIOUS
<1>4. /\ a \in Seq(TokenType) /\ Len(a) = Len(k) + Len(s)
      /\ \A p \in 1..Len(k) : a[p] = k[p]
      /\ \A p \in 1..Len(s) : a[Len(k) + p] = s[p]
  BY <1>3
<1>5. z = a \o e
  BY <1>0, <1>1, <1>3
<1>6. /\ Len(z) = Len(a) + n
      /\ \A p \in 1..Len(a) : z[p] = a[p]
      /\ \A p \in 1..n : z[Len(a) + p] = e[p]
  <2>1. /\ Len(z) = Len(a) + Len(e)
        /\ \A p \in 1..Len(a) : z[p] = a[p]
        /\ \A p \in 1..Len(e) : z[Len(a) + p] = e[p]
    <3>1. a \in Seq(TokenType) /\ e \in Seq(TokenType)
      BY <1>2, <1>4
    <3> QED
      BY <1>5, <3>1
  <2>2. Len(e) = n
    BY <1>2
  <2> QED
    BY <2>1, <2>2
<1>7. /\ \A p \in 1..Len(k) : p \in 1..Len(a)
      /\ \A p \in 1..Len(s) : Len(k) + p \in 1..Len(a)
  BY <1>4
<1> QED
  BY <1>0, <1>2, <1>4, <1>6, <1>7 DEF Extends

LEMMA EndingTypes ==
  ASSUME NEW s \in {<<>>, <<"statement_end">>} PROVE s \in Seq(TokenType) /\ Len(s) \in Nat
<1>1. "statement_end" \in TokenType
  BY DEF TokenType
<1>2. <<>> \in Seq(TokenType) /\ <<"statement_end">> \in Seq(TokenType)
  BY <1>1
<1> QED
  BY <1>2

(* No configuration goes on with a token the automaton refuses. *)
LEMMA Refused ==
  ASSUME NEW k \in Seq(TokenType), NEW q \in Nat, Len(k) = q + 1, NEW L, NEW D, Run(k, q, L, D),
         ~Allowed(L[q], D[q], k[q + 1])
  PROVE  ~Viable(k)
<1> SUFFICES ASSUME NEW s \in {<<>>, <<"statement_end">>}, NEW n \in 0..Len(k),
                    IsConfig(k \o s \o Ending(n))
             PROVE  FALSE
  BY DEF Viable, Ending
<1>1. PICK z : z = k \o s \o Ending(n)
  OBVIOUS
<1>0. n \in Nat
  OBVIOUS
<1>2. s \in Seq(TokenType) /\ Len(s) \in Nat
  BY EndingTypes
<1>11. Extends(z, k, s, n)
  BY <1>0, <1>1, <1>2, Extended
<1>3. Len(z) = Len(k) + Len(s) + n /\ \A p \in 1..Len(k) : z[p] = k[p]
  BY <1>11 DEF Extends
<1>4. PICK N \in Nat : N = Len(z)
  BY <1>0, <1>2, <1>3
<1>5. N >= q + 1 /\ q \in 0..N /\ 1 \in 1..(N + 1)
  BY <1>0, <1>2, <1>3, <1>4
<1>6. z[q + 1] = k[q + 1] /\ \A p \in 1..q : z[p] = k[p]
  BY <1>3
<1>7. Run(z, q, L, D)
  BY <1>6, RunPrefix
<1>8. N + 1 \in Ends(z)[1]
  BY <1>1, <1>4 DEF IsConfig
<1>9. Through(z, q, L, D, 1, N + 1)
  BY <1>4, <1>5, <1>7, <1>8, ConfigRuns
<1>10. L[0] = "start" /\ 1 - 1 = 0 /\ 0 <= q /\ ~(N + 1 - 1 <= q)
  BY <1>5 DEF Run
<1> QED
  BY <1>6, <1>9, <1>10 DEF Through

(* What the automaton has gone through, some configuration goes on with:   *)
(* the statement is ended and the blocks are closed.                       *)
Closes(z, t) == \E M, E : Run(z, t, M, E) /\ E[t] = 0 /\ M[t] # "normal"

LEMMA Closing ==
  ASSUME NEW z, NEW b \in Nat, NEW d \in Nat, NEW L, NEW D, Run(z, b, L, D),
         D[b] = d, L[b] # "normal", \A p \in 1..d : z[b + p] = "end_block"
  PROVE  Closes(z, b + d)
<1> DEFINE Good(x) == \E M, E : Run(z, b + x, M, E) /\ E[b + x] = d - x /\ M[b + x] # "normal"
           G == {x \in Nat : Good(x)}
<1>0. PICK a \in Nat : a = 0
  OBVIOUS
<1>1. ASSUME NEW x \in a..d, \A r \in a..(x - 1) : r \in G PROVE x \in G
  <2>0. x \in 0..d
    BY <1>0
  <2>1. CASE x = 0
    <3>1. b + x = b /\ d - x = d
      BY <2>1
    <3> QED
      BY <3>1
  <2>2. CASE x # 0
    <3>1. PICK y \in Nat : y = x - 1 /\ y \in a..(x - 1)
      BY <1>0, <2>0, <2>2
    <3>2. PICK t \in Nat : t = b + y
      OBVIOUS
    <3>3. PICK M, E : Run(z, t, M, E) /\ E[t] = d - y /\ M[t] # "normal"
      BY <1>1, <3>1, <3>2
    <3>4. t + 1 = b + x /\ x \in 1..d /\ d - y >= 1 /\ d - y - 1 = d - x /\ d - y # 0
      BY <2>0, <2>2, <3>1, <3>2
    <3>5. z[t + 1] = "end_block"
      BY <3>4
    <3>6. M[t] \in Kinds /\ (M[t] = "start" => E[t] = 0)
      BY <3>3 DEF Run
    <3>7. Allowed(M[t], E[t], z[t + 1])
      BY <3>3, <3>4, <3>5, <3>6 DEF Allowed, Kinds
    <3>8. PICK U, V : /\ Run(z, t + 1, U, V)
                      /\ U[t + 1] = LastAfter(M[t], z[t + 1])
                      /\ V[t + 1] = DepthAfter(E[t], z[t + 1])
      BY <3>3, <3>7, RunNext
    <3>9. U[t + 1] = "end_block" /\ V[t + 1] = d - x
      BY <3>3, <3>4, <3>5, <3>8 DEF LastAfter, DepthAfter
    <3> QED
      BY <3>4, <3>8, <3>9
  <2> QED
    BY <2>1, <2>2
<1>2. d \in a..d /\ d - d = 0
  BY <1>0
<1> HIDE DEF G
<1>3. \A x \in a..d : x \in G
  BY <1>1, Upward
<1>4. Good(d)
  BY <1>2, <1>3 DEF G
<1> QED
  BY <1>2, <1>4 DEF Closes

LEMMA GoesOn ==
  ASSUME NEW k \in Seq(TokenType), NEW q \in Nat, Len(k) = q, NEW L, NEW D, Run(k, q, L, D)
  PROVE  Viable(k)
<1>1. PICK d : d = D[q] /\ d \in 0..q /\ d \in Nat /\ L[q] \in Kinds
  BY DEF Run
<1>2. ASSUME NEW s \in {<<>>, <<"statement_end">>}, NEW z,
             z = k \o s \o Ending(d),
             NEW b \in Nat, b = q + Len(s), NEW M, NEW E, Run(z, b, M, E), E[b] = d, M[b] # "normal"
      PROVE  Viable(k)
  <2>1. s \in Seq(TokenType) /\ Len(s) \in Nat
    BY EndingTypes
  <2>6. Extends(z, k, s, d)
    BY <1>1, <1>2, <2>1, Extended
  <2>2. Len(z) = b + d /\ \A p \in 1..d : z[b + p] = "end_block"
    BY <1>2, <2>6 DEF Extends
  <2>7. Run(z, b, M, E) /\ E[b] = d /\ M[b] # "normal" /\ d \in Nat
    BY <1>1, <1>2
  <2>3. Closes(z, b + d)
    BY <2>2, <2>7, Closing
  <2>4. PICK t \in Nat : t = b + d
    BY <1>1
  <2>5. IsConfig(z)
    BY <2>2, <2>3, <2>4, ConfigEnd DEF Closes
  <2> QED
    BY <1>1, <1>2, <2>5 DEF Viable, Ending
<1>3. CASE L[q] # "normal"
  <2>1. PICK s : s = <<>>
    OBVIOUS
  <2>2. PICK z : z = k \o s \o Ending(d)
    OBVIOUS
  <2>3. s \in {<<>>, <<"statement_end">>} /\ s \in Seq(TokenType) /\ q = q + Len(s)
    BY <2>1
  <2>6. Extends(z, k, s, d)
    BY <1>1, <2>2, <2>3, Extended
  <2>4. \A p \in 1..q : z[p] = k[p]
    BY <2>6 DEF Extends
  <2>5. Run(z, q, L, D)
    BY <2>4, RunPrefix
  <2> QED
    BY <1>1, <1>2, <1>3, <2>2, <2>3, <2>5
<1>4. CASE L[q] = "normal"
  <2>1. PICK s : s = <<"statement_end">>
    OBVIOUS
  <2>2. PICK z : z = k \o s \o Ending(d)
    OBVIOUS
  <2>3. /\ s \in {<<>>, <<"statement_end">>} /\ s \in Seq(TokenType) /\ Len(s) = 1
        /\ s[1] = "statement_end" /\ 1 \in 1..1 /\ q + 1 \in Nat
    BY <2>1 DEF TokenType
  <2>9. Extends(z, k, s, d)
    BY <1>1, <2>2, <2>3, Extended
  <2>4. z[q + 1] = "statement_end" /\ \A p \in 1..q : z[p] = k[p]
    BY <2>3, <2>9 DEF Extends
  <2>5. Run(z, q, L, D)
    BY <2>4, RunPrefix
  <2>6. Allowed(L[q], D[q], z[q + 1])
    BY <1>4, <2>4 DEF Allowed
  <2>7. PICK M, E : /\ Run(z, q + 1, M, E)
                    /\ M[q + 1] = LastAfter(L[q], z[q + 1])
                    /\ E[q + 1] = DepthAfter(D[q], z[q + 1])
    BY <2>5, <2>6, RunNext
  <2>8. M[q + 1] # "normal" /\ E[q + 1] = d
    BY <1>1, <2>4, <2>7 DEF LastAfter, DepthAfter
  <2> QED
    BY <1>2, <2>2, <2>3, <2>7, <2>8
<1> QED
  BY <1>3, <1>4
-----------------------------------------------------------------------------
(* The automaton has gone through the first q of the types k, and Parse is *)
(* in its state.                                                           *)
Followed(k, q) ==
  \E L, D : Run(k, q, L, D) /\ L[q] = last_token_type /\ D[q] = open_block

(* The token that Parse looks at is the last one printed. *)
Following ==
  IF token_type = NONE
  THEN Followed(Types, Len(Types))
  ELSE Types # <<>> /\ Types[Len(Types)] = token_type /\ Followed(Types, Len(Types) - 1)

GrammarInv ==
  /\ Types \in Seq(TokenType)
  /\ parsed = "unopened" => Types = <<>>
  /\ parsed \in {"unopened", "parsing"} => Following
  /\ GrammarExact

LEMMA GrammarInitInv == ASSUME ParserInit PROVE GrammarInv
<1>1. /\ printed = <<>> /\ parsed = "unopened" /\ token_type = NONE
      /\ last_token_type = "start" /\ open_block = 0
  BY DEF ParserInit
<1>2. Types = <<>> /\ Types \in Seq(TokenType) /\ Len(Types) = 0
  BY <1>1 DEF Types
<1>3. Followed(Types, 0)
  <2>1. PICK L, D : L = [p \in 0..0 |-> "start"] /\ D = [p \in 0..0 |-> 0]
    OBVIOUS
  <2>2. Run(Types, 0, L, D) /\ L[0] = "start" /\ D[0] = 0
    BY <2>1 DEF Run, Kinds
  <2> QED
    BY <1>1, <2>2 DEF Followed
<1> QED
  BY <1>1, <1>2, <1>3 DEF GrammarInv, Following, GrammarExact

(* The tokens before the last. *)
LEMMA EarlierTypes ==
  ASSUME Types \in Seq(TokenType), Types # <<>>
  PROVE  \E q \in Nat : /\ Len(Types) = q + 1 /\ Len(Types) - 1 = q
                        /\ Earlier \in Seq(TokenType) /\ Len(Earlier) = q
                        /\ \A p \in 1..q : Earlier[p] = Types[p]
<1>1. PICK k \in Seq(TokenType) : k = Types
  OBVIOUS
<1>2. PICK q \in Nat : Len(k) = q + 1
  <2>1. Len(k) \in Nat /\ Len(k) # 0
    BY <1>1
  <2>2. Len(k) - 1 \in Nat /\ Len(k) = Len(k) - 1 + 1
    BY <2>1
  <2> QED
    BY <2>2
<1>3. Len(k) - 1 = q
  BY <1>2
<1>4. PICK e : e = SubSeq(k, 1, q)
  OBVIOUS
<1>5. e \in Seq(TokenType) /\ Len(e) = q /\ \A p \in 1..q : e[p] = k[p]
  BY <1>2, <1>4
<1>6. Earlier = e
  BY <1>1, <1>3, <1>4 DEF Earlier
<1> QED
  BY <1>1, <1>2, <1>3, <1>5, <1>6

LEMMA FoundGrammar ==
  ASSUME GrammarInv, parsed = "parsing", token_type = NONE, UNCHANGED <<tree, parsed>>,
         printed \in Seq(Piece), NEW t \in TokenType, NEW v, NEW e, Found(t, v, e)
  PROVE  GrammarInv'
<1>1. PICK k : k = Types
  OBVIOUS
<1>2. PICK z : z = Types'
  OBVIOUS
<1>3. k \in Seq(TokenType) /\ Len(k) \in Nat /\ Len(k) = Len(printed) /\ DOMAIN k = 1..Len(k)
  BY <1>1 DEF GrammarInv, Types
<1>4. z = Append(k, t)
  <2>1. printed' = Append(printed, [type |-> t, value |-> v, end |-> e])
    BY DEF Found
  <2>2. PICK r : r = [type |-> t, value |-> v, end |-> e]
    OBVIOUS
  <2>3. printed' = Append(printed, r) /\ r.type = t
    BY <2>1, <2>2
  <2>4. /\ DOMAIN printed' = 1..(Len(k) + 1) /\ printed'[Len(k) + 1] = r
        /\ \A i \in 1..Len(k) : printed'[i] = printed[i]
    <3>1. PICK S : S = Piece \cup {r}
      OBVIOUS
    <3>2. printed \in Seq(S) /\ r \in S
      BY <3>1
    <3> QED
      BY <1>3, <2>3, <3>2, AppendWord
  <2>5. z = [i \in 1..(Len(k) + 1) |-> printed'[i].type]
    BY <1>2, <2>4 DEF Types
  <2>6. \A i \in 1..(Len(k) + 1) : i \in 1..Len(k) \/ i = Len(k) + 1
    BY <1>3
  <2>7. \A i \in 1..Len(k) : k[i] = printed[i].type
    BY <1>1, <1>3 DEF Types
  <2>8. \A i \in 1..(Len(k) + 1) : printed'[i].type = Append(k, t)[i]
    BY <1>3, <2>3, <2>4, <2>6, <2>7, AppendWord
  <2>9. Append(k, t) = [i \in 1..(Len(k) + 1) |-> Append(k, t)[i]]
    <3>1. PICK a, n : a = Append(k, t) /\ n = Len(k) + 1
      OBVIOUS
    <3>2. a \in Seq(TokenType) /\ Len(a) = n /\ n \in Nat
      BY <1>3, <3>1, AppendWord
    <3>3. a \in [1..n -> TokenType]
      BY <3>2
    <3>4. a = [i \in 1..n |-> a[i]]
      BY <3>3
    <3> QED
      BY <3>1, <3>4
  <2> QED
    BY <2>5, <2>8, <2>9
<1>5. /\ z \in Seq(TokenType) /\ z # <<>> /\ Len(z) = Len(k) + 1 /\ z[Len(z)] = t
      /\ Len(z) - 1 = Len(k) /\ \A p \in 1..Len(k) : z[p] = k[p]
  BY <1>3, <1>4, AppendWord
<1>6. PICK L, D : Run(k, Len(k), L, D) /\ L[Len(k)] = last_token_type /\ D[Len(k)] = open_block
  BY <1>1 DEF GrammarInv, Following, Followed
<1>7. Run(z, Len(k), L, D)
  BY <1>3, <1>5, <1>6, RunPrefix
<1>8. L[Len(k)] = last_token_type' /\ D[Len(k)] = open_block'
  BY <1>6 DEF tree
<1>9. Followed(z, Len(k))'
  BY <1>7, <1>8 DEF Followed
<1>10. t # NONE /\ token_type' = t /\ parsed' = "parsing"
  BY FilesAssumption DEF Found
<1>11. Following'
  BY <1>2, <1>5, <1>9, <1>10 DEF Following
<1> QED
  BY <1>2, <1>5, <1>10, <1>11 DEF GrammarInv, GrammarExact

(* What Parse does with a token that the automaton allows. *)
LEMMA TurnGrammar ==
  ASSUME GrammarInv, parsed = "parsing", token_type # NONE, Turn, UNCHANGED printed,
         Allowed(last_token_type, open_block, token_type),
         last_token_type' = LastAfter(last_token_type, token_type),
         open_block' = DepthAfter(open_block, token_type)
  PROVE  GrammarInv'
<1>1. PICK k : k = Types
  OBVIOUS
<1>2. k = Types' /\ token_type' = NONE /\ parsed' = "parsing"
  BY <1>1 DEF Types, Turn
<1>3. /\ k \in Seq(TokenType) /\ k # <<>> /\ k[Len(k)] = token_type
      /\ Followed(k, Len(k) - 1)
  BY <1>1 DEF GrammarInv, Following
<1>4. PICK q \in Nat : Len(k) = q + 1 /\ Len(k) - 1 = q
  BY <1>1, <1>3, EarlierTypes
<1>5. PICK L, D : Run(k, q, L, D) /\ L[q] = last_token_type /\ D[q] = open_block
  BY <1>3, <1>4 DEF Followed
<1>6. k[q + 1] = token_type
  BY <1>3, <1>4
<1>7. Allowed(L[q], D[q], k[q + 1])
  BY <1>5, <1>6
<1>8. PICK M, E : /\ Run(k, q + 1, M, E)
                  /\ M[q + 1] = LastAfter(L[q], k[q + 1])
                  /\ E[q + 1] = DepthAfter(D[q], k[q + 1])
  BY <1>5, <1>7, RunNext
<1>9. M[q + 1] = last_token_type' /\ E[q + 1] = open_block'
  BY <1>5, <1>6, <1>8
<1>10. Followed(k, Len(k))'
  BY <1>4, <1>8, <1>9 DEF Followed
<1>11. Following'
  BY <1>2, <1>10 DEF Following
<1> QED
  BY <1>2, <1>3, <1>11 DEF GrammarInv, GrammarExact

LEMMA BreakGrammar ==
  ASSUME GrammarInv, parsed = "parsing", token_type # NONE, Break, UNCHANGED printed,
         \/ token_type = "error"
         \/ ~Allowed(last_token_type, open_block, token_type) /\ token_type # "eof"
  PROVE  GrammarInv'
<1>1. PICK k : k = Types
  OBVIOUS
<1>2. k = Types' /\ parsed' = "invalid" /\ Earlier' = Earlier
  BY <1>1 DEF Types, Earlier, Break, Return
<1>3. /\ k \in Seq(TokenType) /\ k # <<>> /\ k[Len(k)] = token_type
      /\ Followed(k, Len(k) - 1)
  BY <1>1 DEF GrammarInv, Following
<1>4. CASE token_type = "error"
  BY <1>2, <1>3, <1>4 DEF GrammarInv, GrammarExact
<1>5. CASE ~Allowed(last_token_type, open_block, token_type) /\ token_type # "eof"
  <2>1. PICK q \in Nat : /\ Len(k) = q + 1 /\ Len(k) - 1 = q
                         /\ Earlier \in Seq(TokenType) /\ Len(Earlier) = q
                         /\ \A p \in 1..q : Earlier[p] = k[p]
    BY <1>1, <1>3, EarlierTypes
  <2>2. PICK L, D : Run(k, q, L, D) /\ L[q] = last_token_type /\ D[q] = open_block
    BY <1>3, <2>1 DEF Followed
  <2>3. ~Allowed(L[q], D[q], k[q + 1])
    BY <1>3, <1>5, <2>1, <2>2
  <2>4. ~Viable(k)
    BY <1>3, <2>1, <2>2, <2>3, Refused
  <2>5. PICK e \in Seq(TokenType) : e = Earlier
    BY <2>1
  <2>6. Run(e, q, L, D)
    BY <2>1, <2>2, <2>5, RunPrefix
  <2>7. Viable(e)
    BY <2>1, <2>5, <2>6, GoesOn
  <2>8. GrammarExact'
    BY <1>2, <1>3, <1>5, <2>4, <2>5, <2>7 DEF GrammarExact
  <2> QED
    BY <1>2, <1>3, <2>8 DEF GrammarInv
<1> QED
  BY <1>4, <1>5

LEMMA EofGrammar == ASSUME ParserInv, GrammarInv, parse_eof PROVE GrammarInv'
<1>0. /\ parsed = "parsing" /\ token_type = "eof" /\ UNCHANGED printed
      /\ \/ /\ parsed' = "invalid"
            /\ \/ last_token_type \notin {"statement_end", "end_block", "start"}
               \/ Len(config_stack) # 1
         \/ /\ parsed' = "valid" /\ Len(config_stack) = 1
            /\ last_token_type \in {"statement_end", "end_block", "start"}
  BY DEF parse_eof, Token, Break, Return
<1>1. PICK k : k = Types
  OBVIOUS
<1>2. k = Types' /\ Earlier' = Earlier
  BY <1>0, <1>1 DEF Types, Earlier
<1>3. /\ k \in Seq(TokenType) /\ k # <<>> /\ k[Len(k)] = "eof"
      /\ Followed(k, Len(k) - 1)
  <2>1. token_type # NONE
    BY <1>0, FilesAssumption DEF TokenType
  <2> QED
    BY <1>0, <1>1, <2>1 DEF GrammarInv, Following
<1>4. PICK q \in Nat : /\ Len(k) = q + 1 /\ Len(k) - 1 = q
                       /\ Earlier \in Seq(TokenType) /\ Len(Earlier) = q
                       /\ \A p \in 1..q : Earlier[p] = k[p]
  BY <1>1, <1>3, EarlierTypes
<1>5. PICK L, D : Run(k, q, L, D) /\ L[q] = last_token_type /\ D[q] = open_block
  BY <1>3, <1>4 DEF Followed
<1>6. PICK e : e = Earlier
  OBVIOUS
<1>7. Run(e, q, L, D) /\ Len(e) = q
  BY <1>4, <1>5, <1>6, RunPrefix
<1>8. /\ IsConfig(e) => D[q] = 0 /\ L[q] \in {"start", "statement_end", "end_block"}
      /\ D[q] = 0 /\ L[q] # "normal" => IsConfig(e)
  BY <1>7, ConfigEnd
<1>9. open_block = 0 <=> Len(config_stack) = 1
  BY DEF ParserInv, ParserTypes, TreeOK
<1>10. (parsed' = "valid" => IsConfig(e)) /\ (parsed' = "invalid" => ~IsConfig(e))
  BY <1>0, <1>5, <1>8, <1>9
<1>11. GrammarExact'
  BY <1>2, <1>3, <1>6, <1>10 DEF GrammarExact
<1> QED
  BY <1>0, <1>2, <1>3, <1>11 DEF GrammarInv

LEMMA ParseGrammar == ASSUME ParserInv, GrammarInv, Parse PROVE GrammarInv'
<1>1. parsed = "parsing" /\ token_type \in TokenType /\ UNCHANGED printed
  BY DEF Parse, parse_error, parse_comment, parse_normal, parse_statement_end,
         parse_start_block, parse_end_block, parse_eof, Token, TokenType
<1>2. token_type # NONE
  BY <1>1, FilesAssumption
<1>3. CASE parse_error
  BY <1>1, <1>2, <1>3, BreakGrammar DEF parse_error, Token
<1>4. CASE parse_comment
  <2>1. token_type = "comment" /\ Turn /\ UNCHANGED tree
    BY <1>4 DEF parse_comment, Token
  <2> QED
    BY <1>1, <1>2, <2>1, TurnGrammar DEF Allowed, LastAfter, DepthAfter, tree
<1>5. CASE parse_normal
  <2>1. token_type = "normal" /\ Turn /\ last_token_type' = token_type /\ open_block' = open_block
    BY <1>5 DEF parse_normal, Token
  <2> QED
    BY <1>1, <1>2, <2>1, TurnGrammar DEF Allowed, LastAfter, DepthAfter
<1>6. CASE parse_statement_end
  <2>1. /\ token_type = "statement_end"
        /\ \/ last_token_type # "normal" /\ Break
           \/ /\ last_token_type = "normal" /\ last_token_type' = token_type
              /\ Turn /\ open_block' = open_block
    BY <1>6 DEF parse_statement_end, Token
  <2> QED
    BY <1>1, <1>2, <2>1, TurnGrammar, BreakGrammar DEF Allowed, LastAfter, DepthAfter
<1>7. CASE parse_start_block
  <2>1. /\ token_type = "start_block"
        /\ \/ last_token_type # "normal" /\ Break
           \/ /\ last_token_type = "normal" /\ last_token_type' = token_type
              /\ Turn /\ open_block' = open_block + 1
    BY <1>7 DEF parse_start_block, Token
  <2> QED
    BY <1>1, <1>2, <2>1, TurnGrammar, BreakGrammar DEF Allowed, LastAfter, DepthAfter
<1>8. CASE parse_end_block
  <2>1. /\ token_type = "end_block"
        /\ \/ (~EndsBlock \/ open_block < 1) /\ Break
           \/ /\ EndsBlock /\ open_block >= 1 /\ last_token_type' = token_type
              /\ Turn /\ open_block' = open_block - 1
    BY <1>8 DEF parse_end_block, Token
  <2>2. open_block \in Int
    BY DEF ParserInv, ParserTypes
  <2> QED
    BY <1>1, <1>2, <2>1, <2>2, TurnGrammar, BreakGrammar
       DEF Allowed, LastAfter, DepthAfter, EndsBlock
<1>9. CASE parse_eof
  BY <1>9, EofGrammar
<1> QED
  BY <1>3, <1>4, <1>5, <1>6, <1>7, <1>8, <1>9 DEF Parse

(* A step that leaves the parser, or what it has printed, alone. *)
LEMMA GrammarAlone ==
  ASSUME GrammarInv, UNCHANGED <<printed, token_type, tree, parsed>> PROVE GrammarInv'
<1>1. Types' = Types /\ Earlier' = Earlier
  BY DEF Types, Earlier
<1>2. \A k, q : Followed(k, q)' <=> Followed(k, q)
  BY DEF Followed, tree
<1>3. Following' <=> Following
  BY <1>1, <1>2 DEF Following
<1>4. GrammarExact'
  BY <1>1 DEF GrammarInv, GrammarExact
<1> QED
  BY <1>1, <1>3, <1>4 DEF GrammarInv

LEMMA GrammarInvStep == ASSUME ParserInv, ScanInv, GrammarInv, ParserNext PROVE GrammarInv'
<1>1. CASE open_file
  <2>1. /\ parsed = "unopened" /\ parsed' \in {"parsing", "invalid"}
        /\ UNCHANGED <<printed, token_type, tree>>
    BY <1>1 DEF open_file, scanner
  <2>2. Types' = Types /\ Types = <<>> /\ Following
    BY <2>1 DEF Types, GrammarInv
  <2>3. printed' = <<>>
    BY <2>1, <2>2 DEF ScanInv, Types
  <2>4. Following'
    BY <2>1, <2>2 DEF Following, Followed, tree
  <2> QED
    BY <2>1, <2>2, <2>3, <2>4 DEF GrammarInv, GrammarExact
<1>2. CASE ParseToken
  <2>1. parsed = "parsing" /\ token_type = NONE /\ UNCHANGED <<tree, parsed>>
    BY <1>2 DEF ParseToken, initial_whitespace, comment, normal, end_of_file, quote, Getting, Scanning
  <2>2. \/ \E s, v : Continue(s, v)
        \/ \E t \in TokenType : \E v, e : Found(t, v, e)
    <3>1. \A c \in DOMAIN Punctuation : Punctuation[c] \in TokenType
      BY DEF Punctuation, TokenType
    <3>2. {"normal", "comment", "error", "eof"} \subseteq TokenType
      BY DEF TokenType
    <3> QED
      BY <1>2, <3>1, <3>2 DEF ParseToken, initial_whitespace, comment, normal, end_of_file, quote
  <2>3. ASSUME NEW s, NEW v, Continue(s, v) PROVE GrammarInv'
    BY <2>1, <2>3, GrammarAlone DEF Continue
  <2>4. ASSUME NEW t \in TokenType, NEW v, NEW e, Found(t, v, e) PROVE GrammarInv'
    BY <2>1, <2>4, FoundGrammar DEF ScanInv
  <2> QED
    BY <2>2, <2>3, <2>4
<1>3. CASE Parse
  BY <1>3, ParseGrammar
<1> QED
  BY <1>1, <1>2, <1>3 DEF ParserNext
=============================================================================
