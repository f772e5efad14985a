---------------------------- MODULE ConfigGrammar ----------------------------
(***************************************************************************)
(* The grammar of a configuration, on a sequence k of types of tokens:     *)
(*     config    ::= (comment | statement)*                                *)
(*     statement ::= normal (normal | comment)*                            *)
(*                     (statement_end | start_block config end_block)      *)
(***************************************************************************)
EXTENDS ConfigParser

(* Tokens i to m are a comment or a statement, when ends[n] are the places *)
(* where a configuration that begins with token n may end.                 *)
Item(k, ends, i, m) ==
  \/ m = i /\ k[i] = "comment"
  \/ /\ k[i] = "normal"
     /\ \E n \in (i + 1)..m :
          /\ \A h \in i..(n - 1) : k[h] \in {"normal", "comment"}
          /\ \/ n = m /\ k[n] = "statement_end"
             \/ k[n] = "start_block" /\ k[m] = "end_block" /\ m \in ends[n + 1]

Ends(k) ==
  LET ends[i \in 1..(Len(k) + 1)] ==
        {i} \cup UNION {ends[m + 1] : m \in {m \in i..Len(k) : Item(k, ends, i, m)}}
  IN  ends

IsConfig(k) == Len(k) + 1 \in Ends(k)[1]

(* Some configuration begins with k: closing what is open makes one. *)
Viable(k) ==
  \E s \in {<<>>, <<"statement_end">>}, n \in 0..Len(k) :
    IsConfig(k \o s \o [i \in 1..n |-> "end_block"])

(* The types of the tokens of the file so far, and of those before the     *)
(* last.                                                                   *)
Types == [i \in DOMAIN printed |-> printed[i].type]
Earlier == SubSeq(Types, 1, Len(Types) - 1)
-----------------------------------------------------------------------------
(* Parse returns true for what the grammar derives and false for nothing   *)
(* else: it stops at the first token no configuration can go on with, or   *)
(* at an end of file that comes too soon.  The grammar is one of types: a  *)
(* last word that nothing ends is no token of its own, so that "a;b" is a  *)
(* configuration, as Parse has it.                                         *)
GrammarExact ==
  LET last == Types[Len(Types)] IN
  /\ parsed = "valid" => IsConfig(Earlier)
  /\ parsed = "invalid" /\ printed # <<>> /\ last = "eof" => ~IsConfig(Earlier)
  /\ parsed = "invalid" /\ printed # <<>> /\ last \notin {"eof", "error"} =>
       Viable(Earlier) /\ ~Viable(Types)
=============================================================================
