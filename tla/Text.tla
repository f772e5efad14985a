-------------------------------- MODULE Text --------------------------------
(***************************************************************************)
(* Texts, as the parsers of the server see them: sequences of units, which *)
(* are the characters the code looks at, and words, runs of characters it  *)
(* does not tell apart.  Units that follow each other are one text.  The   *)
(* operators are the functions of std::string that the code calls, and     *)
(* operator[] of std::map.                                                 *)
(***************************************************************************)
EXTENDS Integers, Sequences

(* "sp" is a blank or a tab, "nl" and "cr" end lines. *)
Blank == {"sp", "nl", "cr"}

Latest(S) == CHOOSE i \in S : \A j \in S : j <= i

(* find: the first place of u in s, one past the end when there is none. *)
Find(s, u) ==
  CHOOSE i \in 1..(Len(s) + 1) :
    (i <= Len(s) => s[i] = u) /\ \A j \in 1..(i - 1) : s[j] # u

(* substr and erase *)
Drop(s, n) == SubSeq(s, n + 1, Len(s))
Upto(s, u) == SubSeq(s, 1, Find(s, u) - 1)
After(s, u) == Drop(s, Find(s, u))

(* s.rfind(p, 0) == 0 *)
StartsWith(s, p) == Len(p) <= Len(s) /\ SubSeq(s, 1, Len(p)) = p

(* s without the blanks around it *)
Trim(s, blanks) ==
  LET solid == {k \in DOMAIN s : s[k] \notin blanks}
  IN  IF solid = {} THEN <<>>
      ELSE SubSeq(s, CHOOSE i \in solid : \A j \in solid : i <= j, Latest(solid))

(* The pieces of s between units u, by where they begin and end. *)
Cuts(s, u) ==
  {x \in (1..(Len(s) + 1)) \X (0..Len(s)) :
     /\ x[1] <= x[2] + 1
     /\ x[1] = 1 \/ s[x[1] - 1] = u
     /\ x[2] = Len(s) \/ s[x[2] + 1] = u
     /\ \A k \in x[1]..x[2] : s[k] # u}

Cut(s, x) == SubSeq(s, x[1], x[2])

(* m[k] = v *)
Assign(m, k, v) == [x \in DOMAIN m \cup {k} |-> IF x = k THEN v ELSE m[x]]
=============================================================================
