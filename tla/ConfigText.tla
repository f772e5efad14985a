----------------------------- MODULE ConfigText -----------------------------
(***************************************************************************)
(* NginxConfig::ToString (src/src/config_parser.cc), and what it is to     *)
(* give for a tree that Parse made.                                        *)
(***************************************************************************)
EXTENDS ConfigParser, SequencesExt

(* NginxConfig::ToString and NginxConfigStatement::ToString, by tokens.    *)
(* A child has a place after its parent's.                                 *)
ConfigToString ==
  LET text[b \in DOMAIN blocks] ==
        FlattenSeq([i \in DOMAIN blocks[b] |->
          LET s == blocks[b][i] IN
          s.tokens \o (IF s.child = 0 THEN << <<";">> >>
                       ELSE << <<"{">> >> \o text[s.child] \o << <<"}">> >>)])
  IN  text[1]

(* The words and the punctuation of the file so far. *)
TokensRead ==
  LET words[i \in 0..Len(printed)] ==
        IF i = 0 THEN <<>>
        ELSE IF printed[i].type \in {"comment", "eof"} THEN words[i - 1]
        ELSE Append(words[i - 1], printed[i].value)
  IN  words[Len(printed)]
-----------------------------------------------------------------------------
(* The tree of a file that was accepted holds every token, in its place:   *)
(* printed again it gives the tokens that were read, so Parse and ToString *)
(* agree on where blocks and statements end.  What ParseToken had of a     *)
(* word when the file ended is in neither.                                 *)
TreeFaithful == parsed = "valid" => ConfigToString = TokensRead
=============================================================================
