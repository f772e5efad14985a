-------------------------- MODULE ConfigTextProofs --------------------------
(***************************************************************************)
(* ToString of the tree that Parse made gives the tokens that it read, for *)
(* files of any length.                                                    *)
(***************************************************************************)
EXTENDS ConfigParserProofs, ConfigText, SequenceTheorems

(* Pieces of w between cuts, one after the other. *)
Flat(seqs, f) ==
  f = [i \in 1..Len(seqs) |-> IF i = 1 THEN seqs[i] ELSE f[i - 1] \o seqs[i]]

(* n pieces of w begin at the cuts a[1] to a[n], and end at a[n + 1]. *)
CutsOK(w, a, n) ==
  /\ 1 <= a[1]
  /\ \A i \in 1..(n + 1) : a[i] \in Nat /\ a[1] <= a[i] /\ a[i] <= Len(w) + 1
  /\ \A i \in 1..n : a[i] <= a[i + 1]

PieceAt(w, a, i) == SubSeq(w, a[i], a[i + 1] - 1)

IsCut(w, a, n, s) == /\ Len(s) = n /\ (n = 0 => s = <<>>)
                     /\ \A i \in 1..n : s[i] = PieceAt(w, a, i)

LEMMA CutsAt ==
  ASSUME NEW w, Len(w) \in Nat, NEW n \in Nat, NEW a, CutsOK(w, a, n), NEW i \in 1..n
  PROVE  /\ a[1] \in 1..(Len(w) + 1) /\ a[i] - 1 \in (a[1] - 1)..Len(w)
         /\ a[i + 1] - 1 \in (a[i] - 1)..Len(w) /\ a[i] - 1 + 1 = a[i]
         /\ a[1] \in Nat /\ a[i] \in Nat /\ a[i + 1] \in Nat
<1>1. i \in 1..(n + 1) /\ i + 1 \in 1..(n + 1) /\ 1 \in 1..(n + 1)
  OBVIOUS
<1>2. PICK m, p, q : m = a[1] /\ p = a[i] /\ q = a[i + 1]
  OBVIOUS
<1>3. /\ 1 <= m /\ m \in Nat /\ p \in Nat /\ q \in Nat /\ m <= p /\ p <= q /\ q <= Len(w) + 1
      /\ p <= Len(w) + 1
  BY <1>1, <1>2 DEF CutsOK
<1>4. /\ m \in 1..(Len(w) + 1) /\ p - 1 \in (m - 1)..Len(w)
      /\ q - 1 \in (p - 1)..Len(w) /\ p - 1 + 1 = p
  BY <1>3
<1> QED
  BY <1>2, <1>3, <1>4

LEMMA FlattenCut ==
  ASSUME NEW S, NEW w \in Seq(S), NEW n \in Nat, NEW a, CutsOK(w, a, n), NEW s, IsCut(w, a, n, s)
  PROVE  FlattenSeq(s) = SubSeq(w, a[1], a[n + 1] - 1)
<1>0. Len(w) \in Nat /\ Len(s) = n
  BY DEF IsCut
<1>1. CASE n = 0
  <2>1. a[1] - 1 < a[1] /\ a[1] \in Int /\ a[1] - 1 \in Int /\ n + 1 = 1
    BY <1>1 DEF CutsOK
  <2>2. SubSeq(w, a[1], a[1] - 1) = <<>>
    BY <2>1, SubSeqEmpty
  <2>3. s = <<>>
    BY <1>1 DEF IsCut
  <2> QED
    BY <1>0, <1>1, <2>1, <2>2, <2>3 DEF FlattenSeq
<1>2. CASE n # 0
  <2>1. PICK g : g = [i \in 1..n |-> SubSeq(w, a[1], a[i + 1] - 1)]
    OBVIOUS
  <2>2. ASSUME NEW i \in 1..n PROVE g[i] = IF i = 1 THEN s[i] ELSE g[i - 1] \o s[i]
    <3>0. s[i] = SubSeq(w, a[i], a[i + 1] - 1)
      BY DEF IsCut, PieceAt
    <3>1. CASE i = 1
      BY <2>1, <3>0, <3>1
    <3>2. CASE i # 1
      <4>1. i - 1 \in 1..n /\ i - 1 + 1 = i
        BY <3>2
      <4>2. g[i - 1] = SubSeq(w, a[1], a[i] - 1)
        BY <2>1, <4>1
      <4>3. /\ a[1] \in 1..(Len(w) + 1) /\ a[i] - 1 \in (a[1] - 1)..Len(w)
            /\ a[i + 1] - 1 \in (a[i] - 1)..Len(w) /\ a[i] - 1 + 1 = a[i]
        BY <1>0, CutsAt
      <4>4. SubSeq(w, a[1], a[i] - 1) \o SubSeq(w, a[i] - 1 + 1, a[i + 1] - 1)
              = SubSeq(w, a[1], a[i + 1] - 1)
        BY <4>3, ConcatAdjacentSubSeq
      <4>5. g[i] = SubSeq(w, a[1], a[i + 1] - 1)
        BY <2>1
      <4> QED
        BY <3>0, <3>2, <4>2, <4>3, <4>4, <4>5
    <3> QED
      BY <3>1, <3>2
  <2>3. Flat(s, g)
    <3>1. g = [i \in 1..n |-> g[i]]
      BY <2>1
    <3> QED
      BY <1>0, <2>2, <3>1 DEF Flat
  <2>4. PICK f : f = CHOOSE h : Flat(s, h)
    OBVIOUS
  <2>5. Flat(s, f)
    BY <2>3, <2>4
  <2>6. FlattenSeq(s) = f[n]
    BY <1>0, <1>2, <2>4 DEF FlattenSeq, Flat
  <2> DEFINE G == {i \in Nat : f[i] = g[i]}
  <2>10. PICK o \in Nat : o = 1
    OBVIOUS
  <2>7. ASSUME NEW i \in o..n, \A r \in o..(i - 1) : r \in G PROVE i \in G
    <3>0. i \in 1..n /\ i \in Nat
      BY <2>10
    <3>1. f[i] = IF i = 1 THEN s[i] ELSE f[i - 1] \o s[i]
      BY <1>0, <2>5, <3>0 DEF Flat
    <3>2. ASSUME i # 1 PROVE f[i - 1] = g[i - 1]
      <4>1. i - 1 \in o..(i - 1)
        BY <2>10, <3>0, <3>2
      <4> QED
        BY <2>7, <4>1
    <3>3. g[i] = IF i = 1 THEN s[i] ELSE g[i - 1] \o s[i]
      BY <2>2, <3>0
    <3>4. f[i] = g[i]
      BY <3>1, <3>2, <3>3
    <3> QED
      BY <3>0, <3>4
  <2> HIDE DEF G
  <2>8. \A i \in o..n : i \in G
    BY <2>7, Upward
  <2>9. n \in o..n /\ n \in 1..n
    BY <1>2, <2>10
  <2>11. g[n] = SubSeq(w, a[1], a[n + 1] - 1)
    BY <2>1, <2>9
  <2> QED
    BY <2>6, <2>8, <2>9, <2>11 DEF G
<1> QED
  BY <1>1, <1>2
-----------------------------------------------------------------------------
(***************************************************************************)
(* A layout of the tree on the tokens w: c[b][i] is the place where        *)
(* statement i of block b begins, c[b][n + 1] the one after its last.      *)
(***************************************************************************)
Layouts == [Nat -> [Nat -> Nat]]

(* The words of statement s are there from place p, and "{" if it has one. *)
Begins(w, c, s, p) ==
  /\ p \in Nat \ {0} /\ p + Len(s.tokens) <= Len(w) + 1
  /\ \A j \in 1..Len(s.tokens) : w[p + j - 1] = s.tokens[j]
  /\ s.child # 0 => /\ p + Len(s.tokens) <= Len(w) /\ w[p + Len(s.tokens)] = <<"{">>
                    /\ c[s.child][1] = p + Len(s.tokens) + 1

(* It ends before place q, with ";", or with "}" at the end e of its child. *)
Finishes(w, s, p, q, e) ==
  /\ q \in Nat /\ p <= q /\ q <= Len(w) + 1
  /\ s.child = 0 => q = p + Len(s.tokens) + 1 /\ w[p + Len(s.tokens)] = <<";">>
  /\ s.child # 0 => e \in 1..Len(w) /\ q = e + 1 /\ w[e] = <<"}">>

EndOf(B, c, b) == c[b][Len(B[b]) + 1]

(* What NginxConfigStatement::ToString prints, given the text of the child. *)
StatementText(s, t) ==
  s.tokens \o (IF s.child = 0 THEN << <<";">> >> ELSE << <<"{">> >> \o t \o << <<"}">> >>)

WordsAt(w, t, p) == p + Len(t) <= Len(w) + 1 /\ \A j \in 1..Len(t) : w[p + j - 1] = t[j]

LEMMA WordsText ==
  ASSUME NEW w \in Seq(Word), NEW t \in Seq(Word), NEW p \in Nat \ {0}, WordsAt(w, t, p)
  PROVE  SubSeq(w, p, p + Len(t) - 1) = t
<1>1. PICK n \in Nat : n = Len(t)
  OBVIOUS
<1>2. Len(w) \in Nat /\ \A i \in p..(p + n - 1) : i \in 1..Len(w)
  <2>1. p + n <= Len(w) + 1
    BY <1>1 DEF WordsAt
  <2> QED
    BY <2>1
<1>3. \A i \in p..(p + n - 1) : w[i] \in Word
  BY <1>2, ElementOfSeq
<1>4. PICK u : u = SubSeq(w, p, p + n - 1)
  OBVIOUS
<1>5. p \in Int /\ p + n - 1 \in Int /\ p + n - 1 - p + 1 = n /\ (p <= p + n - 1 <=> n # 0)
  BY <1>1
<1>6. /\ u \in Seq(Word) /\ Len(u) = (IF p <= p + n - 1 THEN p + n - 1 - p + 1 ELSE 0)
      /\ \A i \in 1..(p + n - 1 - p + 1) : u[i] = w[p + i - 1]
  BY <1>3, <1>4, <1>5, SubSeqProperties
<1>7. Len(u) = n /\ \A i \in 1..n : u[i] = w[p + i - 1]
  BY <1>5, <1>6
<1>8. \A i \in 1..Len(u) : u[i] = t[i]
  BY <1>1, <1>7 DEF WordsAt
<1>9. u = t
  BY <1>1, <1>6, <1>7, <1>8, SeqEqual
<1> QED
  BY <1>1, <1>4, <1>9

(* t is the text of its child. *)
ChildText(w, c, s, e, t) ==
  s.child # 0 => c[s.child][1] <= e /\ e \in Nat /\ t = SubSeq(w, c[s.child][1], e - 1)

LEMMA StatementIsText ==
  ASSUME NEW w \in Seq(Word), NEW c, NEW s \in Statement, NEW p, NEW q, NEW e, NEW t,
         Begins(w, c, s, p), Finishes(w, s, p, q, e), ChildText(w, c, s, e, t)
  PROVE  StatementText(s, t) = SubSeq(w, p, q - 1)
<1>0. Len(w) \in Nat
  OBVIOUS
<1>1. PICK k : k = s.tokens
  OBVIOUS
<1>2. PICK n : n = Len(k)
  OBVIOUS
<1>3. k \in Seq(Word) /\ n \in Nat
  BY <1>1, <1>2 DEF Statement
<1>4. p \in Nat \ {0} /\ p + n <= Len(w) + 1 /\ \A j \in 1..n : w[p + j - 1] = k[j]
  BY <1>1, <1>2 DEF Begins
<1>8. PICK m \in Nat : m = p + n
  BY <1>3, <1>4
<1>9. m <= Len(w) + 1 /\ p <= m /\ p \in Nat \ {0}
  <2>1. p \in Nat \ {0} /\ p + n <= Len(w) + 1
    BY <1>4
  <2> QED
    BY <1>3, <1>8, <2>1
<1>5. SubSeq(w, p, m - 1) = k
  <2>1. WordsAt(w, k, p)
    BY <1>2, <1>4 DEF WordsAt
  <2> QED
    BY <1>2, <1>3, <1>8, <1>9, <2>1, WordsText
<1>10. \A i \in 1..Len(w) : w[i] \in Word
  BY ElementOfSeq
<1>6. CASE s.child = 0
  <2>1. q = m + 1 /\ w[m] = <<";">> /\ q <= Len(w) + 1
    BY <1>1, <1>2, <1>6, <1>8 DEF Finishes
  <2>2. p \in 1..Len(w) /\ m \in p..Len(w) /\ q - 1 = m
    <3>1. q = m + 1 /\ q <= Len(w) + 1
      BY <2>1
    <3> QED
      BY <1>0, <1>9, <3>1
  <2>3. SubSeq(w, p, m) = SubSeq(w, p, m - 1) \o <<w[m]>>
    BY <2>2, SubSeqRecursiveSecond, Zenon
  <2>4. StatementText(s, t) = k \o << <<";">> >>
    BY <1>1, <1>6 DEF StatementText
  <2> QED
    BY <1>5, <2>1, <2>2, <2>3, <2>4
<1>7. CASE s.child # 0
  <2>1. PICK a : a = c[s.child][1]
    OBVIOUS
  <2>2. m <= Len(w) /\ w[m] = <<"{">> /\ a = m + 1
    BY <1>1, <1>2, <1>7, <1>8, <2>1 DEF Begins
  <2>3. q = e + 1 /\ w[e] = <<"}">> /\ q <= Len(w) + 1
    BY <1>7 DEF Finishes
  <2>4. a <= e /\ e \in Nat /\ t = SubSeq(w, a, e - 1)
    BY <1>7, <2>1 DEF ChildText
  <2>5. /\ p \in 1..(Len(w) + 1) /\ m - 1 \in (p - 1)..Len(w) /\ e \in (m - 1)..Len(w)
        /\ m - 1 + 1 = m /\ m \in 1..Len(w) /\ e \in m..Len(w) /\ e \in 1..Len(w)
        /\ a \in 1..Len(w) /\ e \in a..Len(w) /\ q - 1 = e
    <3>1. m <= Len(w) /\ a = m + 1 /\ q = e + 1 /\ q <= Len(w) + 1 /\ a <= e /\ e \in Nat
      BY <2>2, <2>3, <2>4
    <3> QED
      BY <1>0, <1>9, <3>1
  <2>6. SubSeq(w, p, m - 1) \o SubSeq(w, m - 1 + 1, e) = SubSeq(w, p, e)
    BY <2>5, ConcatAdjacentSubSeq
  <2>7. SubSeq(w, m, e) = <<w[m]>> \o SubSeq(w, m + 1, e)
    BY <2>5, SubSeqRecursiveFirst
  <2>8. SubSeq(w, a, e) = SubSeq(w, a, e - 1) \o <<w[e]>>
    BY <2>5, SubSeqRecursiveSecond, Zenon
  <2>9. SubSeq(w, p, e) = k \o (<< <<"{">> >> \o (t \o << <<"}">> >>))
    <3>1. SubSeq(w, p, e) = k \o SubSeq(w, m, e)
      BY <1>5, <2>5, <2>6
    <3>2. SubSeq(w, m, e) = << <<"{">> >> \o SubSeq(w, a, e)
      BY <2>2, <2>7
    <3>3. SubSeq(w, a, e) = t \o << <<"}">> >>
      BY <2>3, <2>4, <2>8
    <3> QED
      BY <3>1, <3>2, <3>3
  <2>10. << <<"{">> >> \o (t \o << <<"}">> >>) = << <<"{">> >> \o t \o << <<"}">> >>
    <3>1. PICK x, y \in Word : x = <<"{">> /\ y = <<"}">>
      BY <1>10, <2>2, <2>3, <2>5
    <3>5. <<x>> \in Seq(Word) /\ <<y>> \in Seq(Word)
      OBVIOUS
    <3>2. PICK xs, ys \in Seq(Word) : xs = <<x>> /\ ys = <<y>>
      BY <3>5
    <3>3. t \in Seq(Word)
      <4>1. a \in Int /\ e - 1 \in Int /\ \A i \in a..(e - 1) : i \in 1..Len(w)
        BY <1>0, <2>5
      <4>2. \A i \in a..(e - 1) : w[i] \in Word
        BY <1>10, <4>1
      <4> QED
        BY <2>4, <4>1, <4>2, SubSeqProperties
    <3>4. (xs \o t) \o ys = xs \o (t \o ys)
      BY <3>2, <3>3, ConcatAssociative
    <3> QED
      BY <3>1, <3>2, <3>4
  <2>11. StatementText(s, t) = k \o (<< <<"{">> >> \o t \o << <<"}">> >>)
    BY <1>1, <1>7 DEF StatementText
  <2> QED
    BY <2>5, <2>9, <2>10, <2>11
<1> QED
  BY <1>6, <1>7

(* Every statement of the tree is there, whole. *)
Whole(w, c) ==
  /\ \A b \in DOMAIN blocks :
       /\ CutsOK(w, c[b], Len(blocks[b]))
       /\ \A i \in DOMAIN blocks[b] : LET s == blocks[b][i] IN
            Begins(w, c, s, c[b][i]) /\ Finishes(w, s, c[b][i], c[b][i + 1], EndOf(blocks, c, s.child))
  /\ c[1][1] = 1 /\ EndOf(blocks, c, 1) = Len(w) + 1

TextRule(f, b) ==
  FlattenSeq([i \in DOMAIN blocks[b] |-> StatementText(blocks[b][i], f[blocks[b][i].child])])

IsText(f) == f = [b \in DOMAIN blocks |-> TextRule(f, b)]

LEMMA TreeShape ==
  ASSUME ParserInv
  PROVE  /\ Len(blocks) \in Nat /\ DOMAIN blocks = 1..Len(blocks) /\ 1 \in DOMAIN blocks
         /\ \A b \in DOMAIN blocks :
              /\ Len(blocks[b]) \in Nat /\ DOMAIN blocks[b] = 1..Len(blocks[b])
              /\ blocks[b] \in Seq(Statement)
              /\ \A i \in DOMAIN blocks[b] :
                   /\ blocks[b][i] \in Statement
                   /\ blocks[b][i].child # 0 => blocks[b][i].child \in (b + 1)..Len(blocks)
<1>1. blocks \in Seq(Seq(Statement))
  BY DEF ParserInv, ParserTypes
<1>2. Len(blocks) \in Nat /\ DOMAIN blocks = 1..Len(blocks)
  BY <1>1
<1>3. ASSUME NEW b \in DOMAIN blocks
      PROVE  /\ Len(blocks[b]) \in Nat /\ DOMAIN blocks[b] = 1..Len(blocks[b])
             /\ blocks[b] \in Seq(Statement)
             /\ \A i \in DOMAIN blocks[b] :
                  /\ blocks[b][i] \in Statement
                  /\ blocks[b][i].child # 0 => blocks[b][i].child \in (b + 1)..Len(blocks)
  <2>1. blocks[b] \in Seq(Statement)
    BY <1>1
  <2>2. /\ Len(blocks[b]) \in Nat /\ DOMAIN blocks[b] = 1..Len(blocks[b])
        /\ \A i \in DOMAIN blocks[b] : blocks[b][i] \in Statement
    BY <2>1
  <2>3. \A i \in DOMAIN blocks[b] :
          blocks[b][i].child # 0 => blocks[b][i].child \in (b + 1)..Len(blocks)
    BY DEF ParserInv, TreeOK
  <2> QED
    BY <2>1, <2>2, <2>3
<1>4. 1 \in DOMAIN blocks
  <2>1. config_stack[1] \in DOMAIN blocks /\ config_stack[1] = 1
    <3>1. 1 \in DOMAIN config_stack
      BY DEF ParserInv, ParserTypes, TreeOK
    <3> QED
      BY <3>1 DEF ParserInv, TreeOK
  <2> QED
    BY <2>1
<1> QED
  BY <1>2, <1>3, <1>4

LEMMA TextWhole ==
  ASSUME ParserInv, NEW w \in Seq(Word), NEW c, Whole(w, c) PROVE ConfigToString = w
<1>1. PICK g : g = [b \in DOMAIN blocks |-> SubSeq(w, c[b][1], EndOf(blocks, c, b) - 1)]
  OBVIOUS
<1>2. ASSUME NEW b \in DOMAIN blocks PROVE g[b] = TextRule(g, b)
  <2>1. PICK n \in Nat : n = Len(blocks[b]) /\ DOMAIN blocks[b] = 1..n
    BY TreeShape
  <2>2. PICK x : x = [i \in DOMAIN blocks[b] |-> StatementText(blocks[b][i], g[blocks[b][i].child])]
    OBVIOUS
  <2>3. CutsOK(w, c[b], n)
    BY <2>1 DEF Whole
  <2>4. ASSUME NEW i \in 1..n PROVE x[i] = PieceAt(w, c[b], i)
    <3>1. PICK s \in Statement : s = blocks[b][i]
      BY <2>1, TreeShape
    <3>2. Begins(w, c, s, c[b][i]) /\ Finishes(w, s, c[b][i], c[b][i + 1], EndOf(blocks, c, s.child))
      BY <2>1, <3>1 DEF Whole
    <3>3. ASSUME s.child # 0
          PROVE  /\ c[s.child][1] <= EndOf(blocks, c, s.child) /\ EndOf(blocks, c, s.child) \in Nat
                 /\ g[s.child] = SubSeq(w, c[s.child][1], EndOf(blocks, c, s.child) - 1)
      <4>1. s.child \in DOMAIN blocks
        <5>1. s.child \in (b + 1)..Len(blocks) /\ b \in 1..Len(blocks)
          BY <2>1, <3>1, <3>3, TreeShape
        <5> QED
          BY <5>1, TreeShape
      <4>2. PICK m \in Nat : m = Len(blocks[s.child])
        BY <4>1, TreeShape
      <4>3. CutsOK(w, c[s.child], m) /\ m + 1 \in 1..(m + 1)
        BY <4>1, <4>2 DEF Whole
      <4>4. c[s.child][1] <= c[s.child][m + 1] /\ c[s.child][m + 1] \in Nat
        BY <4>3 DEF CutsOK
      <4> QED
        BY <1>1, <4>1, <4>2, <4>4 DEF EndOf
    <3>4. StatementText(s, g[s.child]) = SubSeq(w, c[b][i], c[b][i + 1] - 1)
      <4>1. PICK p, q, e, t : /\ p = c[b][i] /\ q = c[b][i + 1] /\ e = EndOf(blocks, c, s.child)
                              /\ t = g[s.child]
        OBVIOUS
      <4>2. Begins(w, c, s, p) /\ Finishes(w, s, p, q, e)
        BY <3>2, <4>1
      <4>3. ChildText(w, c, s, e, t)
        BY <3>3, <4>1 DEF ChildText
      <4>4. StatementText(s, t) = SubSeq(w, p, q - 1)
        BY <4>2, <4>3, StatementIsText
      <4> QED
        BY <4>1, <4>4
    <3>5. x[i] = StatementText(s, g[s.child])
      BY <2>1, <2>2, <3>1
    <3> QED
      BY <3>4, <3>5 DEF PieceAt
  <2>5. IsCut(w, c[b], n, x)
    <3>1. x = [i \in 1..n |-> StatementText(blocks[b][i], g[blocks[b][i].child])]
      BY <2>1, <2>2, Zenon
    <3>2. Len(x) = n
      BY <3>1
    <3>3. n = 0 => x = <<>>
      BY <3>1
    <3> QED
      BY <2>4, <3>2, <3>3 DEF IsCut
  <2>6. FlattenSeq(x) = SubSeq(w, c[b][1], c[b][n + 1] - 1)
    BY <2>3, <2>5, FlattenCut
  <2> QED
    BY <1>1, <2>1, <2>2, <2>6 DEF TextRule, EndOf
<1>3. IsText(g)
  <2>1. g = [b \in DOMAIN blocks |-> g[b]]
    BY <1>1
  <2> QED
    BY <1>2, <2>1 DEF IsText
<1>4. PICK f : f = CHOOSE h : IsText(h)
  OBVIOUS
<1>5. IsText(f)
  BY <1>3, <1>4
<1>6. ConfigToString = f[1]
  BY <1>4 DEF ConfigToString, IsText, TextRule, StatementText
<1>7. PICK n \in Nat : n = Len(blocks) /\ DOMAIN blocks = 1..n
  BY TreeShape
<1> DEFINE G == {b \in Nat : f[b] = g[b]}
<1>8. ASSUME NEW b \in 1..n, \A r \in (b + 1)..n : r \in G PROVE b \in G
  <2>1. ASSUME NEW i \in DOMAIN blocks[b]
        PROVE  StatementText(blocks[b][i], f[blocks[b][i].child])
                 = StatementText(blocks[b][i], g[blocks[b][i].child])
    <3>1. PICK s : s = blocks[b][i]
      OBVIOUS
    <3>2. ASSUME s.child # 0 PROVE f[s.child] = g[s.child]
      <4>1. s.child \in (b + 1)..n
        BY <1>7, <3>1, <3>2, TreeShape
      <4> QED
        BY <1>8, <4>1
    <3>3. StatementText(s, f[s.child]) = StatementText(s, g[s.child])
      BY <3>2 DEF StatementText
    <3> QED
      BY <3>1, <3>3
  <2>2. TextRule(f, b) = TextRule(g, b)
    BY <2>1 DEF TextRule
  <2>3. f[b] = g[b]
    BY <1>2, <1>5, <1>7, <2>2 DEF IsText
  <2> QED
    BY <2>3
<1> HIDE DEF G
<1>9. \A b \in 1..n : b \in G
  BY <1>8, Downward
<1>10. 1 \in 1..n
  BY <1>7, TreeShape
<1>11. f[1] = g[1]
  BY <1>9, <1>10 DEF G
<1>12. g[1] = SubSeq(w, 1, Len(w))
  <2>1. c[1][1] = 1 /\ EndOf(blocks, c, 1) = Len(w) + 1
    BY DEF Whole
  <2>2. EndOf(blocks, c, 1) - 1 = Len(w)
    BY <2>1
  <2> QED
    BY <1>1, <2>1, <2>2, TreeShape
<1> QED
  BY <1>6, <1>11, <1>12, SubSeqFull
-----------------------------------------------------------------------------
(***************************************************************************)
(* A tree that is being built: the blocks of A are on config_stack, and    *)
(* the last statement of those of O has not ended.                         *)
(***************************************************************************)
Ended(w, A, s, p, q, e) == Finishes(w, s, p, q, e) /\ s.child \notin A

Held(B, A, O, w, c, b, i) ==
  /\ Begins(w, c, B[b][i], c[b][i]) /\ c[b][1] <= c[b][i]
  /\ \/ b \in O /\ i = Len(B[b])
     \/ Ended(w, A, B[b][i], c[b][i], c[b][i + 1], EndOf(B, c, B[b][i].child))

Laying(B, A, O, w, c) ==
  \A b \in DOMAIN B : /\ c[b][1] \in 1..(Len(w) + 1)
                      /\ \A i \in DOMAIN B[b] : Held(B, A, O, w, c, b, i)

ChildrenOK(B) ==
  /\ B \in Seq(Seq(Statement))
  /\ \A b \in DOMAIN B : \A i \in DOMAIN B[b] :
       B[b][i].child = 0 \/ B[b][i].child \in (b + 1)..Len(B)

Recut(c, d, t, k, v) ==
  /\ d \in Layouts /\ d[t][k] = v
  /\ \A b, i \in Nat : b # t \/ i # k => d[b][i] = c[b][i]

LEMMA CanRecut ==
  ASSUME NEW c \in Layouts, NEW t \in Nat, NEW k \in Nat, NEW v \in Nat
  PROVE  \E d : Recut(c, d, t, k, v)
<1>1. PICK r : r = [c[t] EXCEPT ![k] = v]
  OBVIOUS
<1>2. PICK d : d = [c EXCEPT ![t] = r]
  OBVIOUS
<1>3. r \in [Nat -> Nat] /\ r[k] = v /\ \A i \in Nat : i # k => r[i] = c[t][i]
  BY <1>1 DEF Layouts
<1>4. d \in Layouts /\ d[t] = r /\ \A b \in Nat : b # t => d[b] = c[b]
  BY <1>2, <1>3 DEF Layouts
<1>5. Recut(c, d, t, k, v)
  BY <1>3, <1>4 DEF Recut
<1> QED
  BY <1>5

(* What is there stays when a word is added to w. *)
LEMMA BeginsGrown ==
  ASSUME NEW w \in Seq(Word), NEW x \in Word, NEW c, NEW d, NEW s \in Statement, NEW p,
         Begins(w, c, s, p), s.child # 0 => d[s.child][1] = c[s.child][1]
  PROVE  Begins(Append(w, x), d, s, p)
<1>1. PICK z : z = Append(w, x)
  OBVIOUS
<1>2. PICK n \in Nat : n = Len(s.tokens)
  BY DEF Statement
<1>3. PICK m \in Nat : m = Len(w)
  OBVIOUS
<1>4. Len(z) = m + 1 /\ \A j \in 1..m : z[j] = w[j]
  BY <1>1, <1>3, AppendWord
<1>5. p \in Nat \ {0} /\ p + n <= m + 1
  BY <1>2, <1>3 DEF Begins
<1>6. p + n <= m + 1 + 1 /\ \A j \in 1..n : p + j - 1 \in 1..m
  BY <1>5
<1>7. \A j \in 1..n : z[p + j - 1] = s.tokens[j]
  <2>1. \A j \in 1..n : w[p + j - 1] = s.tokens[j]
    BY <1>2 DEF Begins
  <2> QED
    BY <1>4, <1>6, <2>1
<1>8. ASSUME s.child # 0
      PROVE  p + n <= m + 1 /\ z[p + n] = <<"{">> /\ d[s.child][1] = p + n + 1
  <2>1. p + n <= m /\ w[p + n] = <<"{">> /\ c[s.child][1] = p + n + 1
    BY <1>2, <1>3, <1>8 DEF Begins
  <2>2. p + n \in 1..m /\ p + n <= m + 1
    <3>1. p + n <= m /\ p \in Nat \ {0}
      BY <1>5, <2>1
    <3> QED
      BY <3>1
  <2> QED
    BY <1>4, <1>8, <2>1, <2>2
<1>9. Begins(z, d, s, p)
  BY <1>2, <1>4, <1>5, <1>6, <1>7, <1>8 DEF Begins
<1> QED
  BY <1>1, <1>9

LEMMA FinishesGrown ==
  ASSUME NEW w \in Seq(Word), NEW x \in Word, NEW s \in Statement, NEW p \in Nat \ {0},
         NEW q, NEW e, Finishes(w, s, p, q, e)
  PROVE  Finishes(Append(w, x), s, p, q, e)
<1>1. PICK z : z = Append(w, x)
  OBVIOUS
<1>2. PICK n \in Nat : n = Len(s.tokens)
  BY DEF Statement
<1>3. PICK m \in Nat : m = Len(w)
  OBVIOUS
<1>4. Len(z) = m + 1 /\ \A j \in 1..m : z[j] = w[j]
  BY <1>1, <1>3, AppendWord
<1>5. q \in Nat /\ p <= q /\ q <= m + 1
  BY <1>3 DEF Finishes
<1>9. q <= m + 1 + 1
  BY <1>5
<1>6. ASSUME s.child = 0 PROVE q = p + n + 1 /\ z[p + n] = <<";">>
  <2>1. q = p + n + 1 /\ w[p + n] = <<";">>
    BY <1>2, <1>6 DEF Finishes
  <2>2. p + n \in 1..m
    <3>1. p + n + 1 <= m + 1
      BY <1>5, <2>1
    <3> QED
      BY <3>1
  <2> QED
    BY <1>4, <2>1, <2>2
<1>7. ASSUME s.child # 0 PROVE e \in 1..(m + 1) /\ q = e + 1 /\ z[e] = <<"}">>
  <2>1. e \in 1..m /\ q = e + 1 /\ w[e] = <<"}">>
    BY <1>3, <1>7 DEF Finishes
  <2>2. e \in 1..m
    BY <2>1
  <2>3. e \in 1..(m + 1)
    BY <2>2
  <2> QED
    BY <1>4, <2>1, <2>3
<1>8. Finishes(z, s, p, q, e)
  BY <1>2, <1>4, <1>5, <1>6, <1>7, <1>9 DEF Finishes
<1> QED
  BY <1>1, <1>8

(* A statement that the step leaves alone is held still. *)
LEMMA HeldGrown ==
  ASSUME NEW w \in Seq(Word), NEW x \in Word, NEW c, NEW d, NEW B, NEW C, NEW A, NEW E,
         NEW O, NEW P, NEW b, NEW i, B[b][i] \in Statement, Held(B, A, O, w, c, b, i),
         C[b][i] = B[b][i], d[b][i] = c[b][i], d[b][1] = c[b][1],
         B[b][i].child # 0 => d[B[b][i].child][1] = c[B[b][i].child][1],
         b \in O /\ i = Len(B[b]) => b \in P /\ i = Len(C[b]),
         B[b][i].child \notin A =>
           /\ B[b][i].child \notin E
           /\ (b \in O /\ i = Len(B[b])) \/ d[b][i + 1] = c[b][i + 1]
           /\ B[b][i].child # 0 => EndOf(C, d, B[b][i].child) = EndOf(B, c, B[b][i].child)
  PROVE  Held(C, E, P, Append(w, x), d, b, i)
<1>1. PICK s \in Statement : s = B[b][i]
  OBVIOUS
<1>2. PICK p : p = c[b][i]
  OBVIOUS
<1>3. PICK z : z = Append(w, x)
  OBVIOUS
<1>4. Begins(w, c, s, p) /\ p \in Nat \ {0} /\ d[b][1] <= p
  BY <1>1, <1>2 DEF Held, Begins
<1>5. Begins(z, d, s, p)
  BY <1>1, <1>3, <1>4, BeginsGrown
<1>6. CASE b \in O /\ i = Len(B[b])
  BY <1>1, <1>2, <1>3, <1>4, <1>5, <1>6 DEF Held
<1>7. CASE ~(b \in O /\ i = Len(B[b]))
  <2>1. PICK q, e : q = c[b][i + 1] /\ e = EndOf(B, c, s.child)
    OBVIOUS
  <2>2. Finishes(w, s, p, q, e) /\ s.child \notin A
    BY <1>1, <1>2, <1>7, <2>1 DEF Held, Ended
  <2>3. Finishes(z, s, p, q, e)
    BY <1>3, <1>4, <2>2, FinishesGrown
  <2>4. PICK f : f = EndOf(C, d, s.child)
    OBVIOUS
  <2>5. s.child # 0 => e = f
    BY <1>1, <2>1, <2>2, <2>4
  <2>6. Finishes(z, s, p, q, f)
    BY <2>3, <2>5 DEF Finishes
  <2>7. d[b][i + 1] = q /\ s.child \notin E
    BY <1>1, <1>7, <2>1, <2>2
  <2>8. Ended(z, E, C[b][i], d[b][i], d[b][i + 1], EndOf(C, d, C[b][i].child))
    BY <1>1, <1>2, <2>4, <2>6, <2>7 DEF Ended
  <2> QED
    BY <1>1, <1>2, <1>3, <1>4, <1>5, <2>8 DEF Held
<1> QED
  BY <1>6, <1>7

LEMMA PlaceFacts ==
  ASSUME NEW B, ChildrenOK(B), NEW b \in DOMAIN B
  PROVE  /\ b \in Nat \ {0} /\ Len(B) \in Nat /\ b <= Len(B) /\ DOMAIN B = 1..Len(B)
         /\ Len(B[b]) \in Nat /\ DOMAIN B[b] = 1..Len(B[b]) /\ B[b] \in Seq(Statement)
         /\ \A i \in DOMAIN B[b] : /\ i \in Nat \ {0} /\ i + 1 \in Nat \ {0}
                                   /\ B[b][i] \in Statement /\ B[b][i].child \in Nat
                                   /\ B[b][i].child # 0 => B[b][i].child \in DOMAIN B
                                   /\ B[b][i].child # b
<1>1. Len(B) \in Nat /\ DOMAIN B = 1..Len(B) /\ B[b] \in Seq(Statement)
  BY DEF ChildrenOK
<1>2. b \in Nat \ {0} /\ b <= Len(B)
  BY <1>1
<1>3. Len(B[b]) \in Nat /\ DOMAIN B[b] = 1..Len(B[b])
  BY <1>1
<1>4. ASSUME NEW i \in DOMAIN B[b]
      PROVE  /\ i \in Nat \ {0} /\ i + 1 \in Nat \ {0}
             /\ B[b][i] \in Statement /\ B[b][i].child \in Nat
             /\ B[b][i].child # 0 => B[b][i].child \in DOMAIN B
             /\ B[b][i].child # b
  <2>1. i \in Nat \ {0} /\ i + 1 \in Nat \ {0}
    BY <1>3
  <2>2. PICK s : s = B[b][i]
    OBVIOUS
  <2>3. s \in Statement
    BY <1>1, <2>2
  <2>4. s.child \in Nat
    BY <2>3 DEF Statement
  <2>5. s.child = 0 \/ s.child \in (b + 1)..Len(B)
    BY <2>2 DEF ChildrenOK
  <2>6. (s.child # 0 => s.child \in 1..Len(B)) /\ s.child # b
    BY <1>2, <2>4, <2>5
  <2> QED
    BY <1>1, <2>1, <2>2, <2>3, <2>4, <2>6
<1> QED
  BY <1>1, <1>2, <1>3, <1>4

Growing(B, A, O, w, c) ==
  /\ w \in Seq(Word) /\ c \in Layouts /\ ChildrenOK(B)
  /\ O \subseteq A /\ Laying(B, A, O, w, c)

LastOf(B, O, t, n) == t \in O /\ t \in DOMAIN B /\ n \in DOMAIN B[t] /\ n = Len(B[t])

(* In the layout d, which is like c before, block t reaches to the end. *)
ReachesEnd(B, A, O, w, c, d, t) ==
  /\ d \in Layouts /\ Laying(B, A, O, w, d)
  /\ EndOf(B, d, t) = Len(w) + 1 /\ d[1][1] = c[1][1]

(* The statement ends with the token x. *)
EndsWith(B, A, E, w, c, t, n, x) ==
  /\ E \subseteq A /\ x \in Word /\ B[t][n].child \notin E
  /\ Finishes(Append(w, x), B[t][n], c[t][n], Len(w) + 2, EndOf(B, c, B[t][n].child))

(* A statement that ends: parse_statement_end and parse_end_block. *)
LEMMA StatementEnds ==
  ASSUME NEW B, NEW A, NEW O, NEW w, NEW c, Growing(B, A, O, w, c),
         NEW t, NEW n, LastOf(B, O, t, n),
         NEW E, NEW x, EndsWith(B, A, E, w, c, t, n, x)
  PROVE  \E d : ReachesEnd(B, E, O \ {t}, Append(w, x), c, d, t)
<1> USE DEF Growing, LastOf, EndsWith
<1>1. PICK v \in Nat : v = Len(w) + 2
  OBVIOUS
<1>2. /\ t \in Nat /\ n \in Nat \ {0} /\ n + 1 \in Nat \ {0} /\ n + 1 # 1
      /\ B[t][n].child # t
  BY PlaceFacts
<1>3. PICK d : Recut(c, d, t, n + 1, v)
  BY <1>2, CanRecut
<1>4. /\ d \in Layouts /\ d[t][n + 1] = v
      /\ \A b, i \in Nat : b # t \/ i # n + 1 => d[b][i] = c[b][i]
  BY <1>3 DEF Recut
<1>5. \A b \in Nat : d[b][1] = c[b][1]
  BY <1>2, <1>4
<1>6. ASSUME NEW b \in DOMAIN B, NEW i \in DOMAIN B[b]
      PROVE  Held(B, E, O \ {t}, Append(w, x), d, b, i)
  <2>1. Held(B, A, O, w, c, b, i)
    BY DEF Laying
  <2>2. /\ b \in Nat /\ i \in Nat /\ i + 1 \in Nat /\ i \in 1..Len(B[b]) /\ Len(B[b]) \in Nat
        /\ B[b][i] \in Statement /\ B[b][i].child \in Nat
    BY PlaceFacts
  <2>3. d[b][i] = c[b][i] /\ d[b][1] = c[b][1]
    <3>1. b # t \/ i # n + 1
      BY <2>2
    <3> QED
      BY <1>4, <1>5, <2>2, <3>1
  <2>4. d[B[b][i].child][1] = c[B[b][i].child][1]
    BY <1>5, <2>2
  <2>5. CASE b = t /\ i = n
    <3>1. PICK s \in Statement : s = B[t][n]
      BY <2>2, <2>5
    <3>2. PICK y : y = s.child
      OBVIOUS
    <3>3. EndOf(B, d, y) = EndOf(B, c, y)
      <4>1. y # t /\ y \in Nat /\ (y = 0 \/ y \in DOMAIN B)
        BY <3>1, <3>2, PlaceFacts
      <4>2. y # 0 => Len(B[y]) + 1 \in Nat
        BY <4>1, PlaceFacts
      <4> QED
        BY <1>4, <4>1, <4>2 DEF EndOf
    <3>4. Begins(Append(w, x), d, s, c[t][n])
      BY <2>1, <2>4, <2>5, <3>1, BeginsGrown DEF Held
    <3>5. Finishes(Append(w, x), s, d[t][n], d[t][n + 1], EndOf(B, d, y))
      BY <1>1, <1>4, <2>3, <2>5, <3>1, <3>2, <3>3
    <3>6. c[t][1] <= c[t][n]
      BY <2>1, <2>5 DEF Held
    <3> QED
      BY <2>3, <2>5, <3>1, <3>2, <3>4, <3>5, <3>6 DEF Held, Ended
  <2>6. CASE ~(b = t /\ i = n)
    <3>1. b \in O /\ i = Len(B[b]) => b \in O \ {t} /\ i = Len(B[b])
      BY <2>6
    <3>2. ASSUME B[b][i].child \notin A
          PROVE  /\ B[b][i].child \notin E
                 /\ (b \in O /\ i = Len(B[b])) \/ d[b][i + 1] = c[b][i + 1]
                 /\ B[b][i].child # 0 => EndOf(B, d, B[b][i].child) = EndOf(B, c, B[b][i].child)
      <4>1. b # t \/ i + 1 # n + 1
        BY <1>2, <2>2, <2>6
      <4>2. PICK y : y = B[b][i].child
        OBVIOUS
      <4>3. y # t /\ y \notin E
        BY <3>2, <4>2
      <4>4. ASSUME y # 0 PROVE EndOf(B, d, y) = EndOf(B, c, y)
        <5>1. y \in DOMAIN B /\ y \in Nat
          BY <4>2, <4>4, PlaceFacts
        <5>2. Len(B[y]) + 1 \in Nat
          BY <5>1, PlaceFacts
        <5> QED
          BY <1>4, <4>3, <5>1, <5>2 DEF EndOf
      <4> QED
        BY <1>4, <2>2, <4>1, <4>2, <4>3, <4>4
    <3> QED
      BY <2>1, <2>2, <2>3, <2>4, <3>1, <3>2, HeldGrown
  <2> QED
    BY <2>5, <2>6
<1>7. Len(Append(w, x)) = Len(w) + 1 /\ Len(w) \in Nat
  BY AppendWord
<1>8. ASSUME NEW b \in DOMAIN B PROVE d[b][1] \in 1..(Len(Append(w, x)) + 1)
  <2>1. c[b][1] \in 1..(Len(w) + 1) /\ b \in Nat
    BY PlaceFacts DEF Laying
  <2>2. c[b][1] \in 1..(Len(w) + 1 + 1)
    BY <1>7, <2>1
  <2> QED
    BY <1>5, <1>7, <2>1, <2>2
<1>9. Laying(B, E, O \ {t}, Append(w, x), d)
  BY <1>6, <1>8 DEF Laying
<1>10. EndOf(B, d, t) = v /\ d[1][1] = c[1][1]
  BY <1>4, <1>5 DEF EndOf
<1>11. v = Len(Append(w, x)) + 1
  BY <1>1, <1>7
<1> QED
  BY <1>4, <1>9, <1>10, <1>11 DEF ReachesEnd

(* Statement n of block t becomes s, and the others of B stay. *)
Changed(B, C, t, n, s) ==
  /\ \A b \in DOMAIN B : b # t => C[b] = B[b]
  /\ Len(C[t]) = Len(B[t]) /\ DOMAIN C[t] = DOMAIN B[t]
  /\ C[t][n] = s /\ \A i \in DOMAIN B[t] : i # n => C[t][i] = B[t][i]

(* The words of the statement are the last of w. *)
WordsReach(B, w, c, t, n) == c[t][n] + Len(B[t][n].tokens) = Len(w) + 1

(* The statement, which has no block, gets the word x. *)
Joined(B, C, t, n, s, x) ==
  /\ Changed(B, C, t, n, s) /\ DOMAIN C = DOMAIN B /\ x \in Word
  /\ s.tokens = Append(B[t][n].tokens, x) /\ s.child = 0 /\ B[t][n].child = 0

(* A word of the statement that has not ended: parse_normal. *)
LEMMA WordJoins ==
  ASSUME NEW B, NEW A, NEW O, NEW w, NEW c, Growing(B, A, O, w, c),
         NEW t, NEW n, LastOf(B, O, t, n), WordsReach(B, w, c, t, n),
         NEW C, NEW s, NEW x, Joined(B, C, t, n, s, x)
  PROVE  Laying(C, A, O, Append(w, x), c) /\ c[t][n] + Len(s.tokens) = Len(w) + 2
<1> USE DEF Growing, LastOf, WordsReach, Joined
<1>1. PICK z : z = Append(w, x)
  OBVIOUS
<1>2. PICK m \in Nat : m = Len(w)
  OBVIOUS
<1>3. Len(z) = m + 1 /\ z[m + 1] = x /\ \A j \in 1..m : z[j] = w[j]
  BY <1>1, <1>2, AppendWord
<1>4. PICK u \in Seq(Word) : u = B[t][n].tokens
  BY PlaceFacts DEF Statement
<1>5. PICK k \in Nat : k = Len(u)
  OBVIOUS
<1>6. PICK p : p = c[t][n]
  OBVIOUS
<1>7. Begins(w, c, B[t][n], p) /\ c[t][1] <= p
  BY <1>6 DEF Laying, Held
<1>8. p \in Nat \ {0} /\ p + k = m + 1
  BY <1>2, <1>4, <1>5, <1>6, <1>7 DEF Begins
<1>9. /\ Len(s.tokens) = k + 1 /\ s.tokens[k + 1] = x
      /\ \A j \in 1..k : s.tokens[j] = u[j]
  BY <1>4, <1>5, AppendWord
<1>10. ASSUME NEW j \in 1..(k + 1) PROVE z[p + j - 1] = s.tokens[j]
  <2> HIDE DEF Growing, LastOf, WordsReach, Joined
  <2>1. CASE j = k + 1
    <3>1. p + j - 1 = m + 1
      BY <1>8, <2>1
    <3> QED
      BY <1>3, <1>9, <2>1, <3>1
  <2>2. CASE j # k + 1
    <3>1. j \in 1..k /\ p + j - 1 \in 1..m
      BY <1>8, <2>2
    <3>2. w[p + j - 1] = u[j]
      BY <1>4, <1>5, <1>7, <3>1 DEF Begins
    <3> QED
      BY <1>3, <1>9, <3>1, <3>2
  <2> QED
    BY <2>1, <2>2
<1>11. p + (k + 1) = m + 2 /\ p + (k + 1) <= m + 1 + 1
  BY <1>8
<1>12. Begins(z, c, s, p)
  BY <1>3, <1>8, <1>9, <1>10, <1>11 DEF Begins
<1>13. ASSUME NEW b \in DOMAIN B, NEW i \in DOMAIN B[b] PROVE Held(C, A, O, z, c, b, i)
  <2>1. CASE b = t /\ i = n
    BY <1>6, <1>7, <1>12, <2>1 DEF Held, Changed
  <2>2. CASE ~(b = t /\ i = n)
    <3>1. Held(B, A, O, w, c, b, i) /\ B[b][i] \in Statement
      BY PlaceFacts DEF Laying
    <3>2. C[b][i] = B[b][i] /\ Len(C[b]) = Len(B[b])
      BY <2>2 DEF Changed
    <3>3. ASSUME B[b][i].child \notin A, B[b][i].child # 0
          PROVE  EndOf(C, c, B[b][i].child) = EndOf(B, c, B[b][i].child)
      <4>1. PICK y : y = B[b][i].child
        OBVIOUS
      <4>2. y \in DOMAIN B /\ y # t
        BY <3>3, <4>1, PlaceFacts
      <4> QED
        BY <4>1, <4>2 DEF EndOf, Changed
    <3> QED
      BY <1>1, <3>1, <3>2, <3>3, HeldGrown
  <2> QED
    BY <2>1, <2>2
<1>14. ASSUME NEW b \in DOMAIN B PROVE c[b][1] \in 1..(Len(z) + 1)
  <2>1. c[b][1] \in 1..(m + 1)
    BY <1>2 DEF Laying
  <2>2. c[b][1] \in 1..(m + 1 + 1)
    BY <2>1
  <2> QED
    BY <1>3, <2>2
<1>15. \A b \in DOMAIN B : DOMAIN C[b] = DOMAIN B[b]
  BY DEF Changed
<1>16. Laying(C, A, O, z, c)
  BY <1>13, <1>14, <1>15 DEF Laying
<1> QED
  BY <1>1, <1>2, <1>6, <1>9, <1>11, <1>16

(* The last statement of block t, which is open, has ended at the end of w. *)
Resting(B, A, O, w, c, t) ==
  t \in A /\ t \notin O /\ t \in DOMAIN B /\ EndOf(B, c, t) = Len(w) + 1

(* Block t gets the statement s, of the word x. *)
Started(B, C, t, n, s, x) ==
  /\ DOMAIN C = DOMAIN B /\ \A b \in DOMAIN B : b # t => C[b] = B[b]
  /\ n \in Nat /\ n = Len(B[t]) + 1 /\ Len(C[t]) = n /\ DOMAIN C[t] = 1..n
  /\ C[t][n] = s /\ \A i \in DOMAIN B[t] : C[t][i] = B[t][i]
  /\ x \in Word /\ s.tokens = <<x>> /\ s.child = 0

(* A word that begins a statement: parse_normal. *)
LEMMA StatementStarts ==
  ASSUME NEW B, NEW A, NEW O, NEW w, NEW c, Growing(B, A, O, w, c),
         NEW t, Resting(B, A, O, w, c, t),
         NEW C, NEW n, NEW s, NEW x, Started(B, C, t, n, s, x)
  PROVE  Laying(C, A, O \cup {t}, Append(w, x), c) /\ c[t][n] + Len(s.tokens) = Len(w) + 2
<1> USE DEF Growing, Resting, Started
<1>1. PICK z : z = Append(w, x)
  OBVIOUS
<1>2. PICK m \in Nat : m = Len(w)
  OBVIOUS
<1>3. Len(z) = m + 1 /\ z[m + 1] = x
  BY <1>1, <1>2, AppendWord
<1>4. c[t][n] = m + 1 /\ c[t][1] \in 1..(m + 1)
  BY <1>2 DEF EndOf, Laying
<1>5. Begins(z, c, s, m + 1) /\ m + 1 + Len(s.tokens) = m + 2
  <2>1. Len(s.tokens) = 1 /\ s.tokens[1] = x /\ \A j \in 1..1 : j = 1
    OBVIOUS
  <2>2. m + 1 + 1 - 1 = m + 1 /\ m + 1 \in Nat \ {0} /\ m + 1 + 1 <= m + 1 + 1 /\ m + 1 + 1 = m + 2
    OBVIOUS
  <2>3. \A j \in 1..1 : z[m + 1 + j - 1] = s.tokens[j]
    BY <1>3, <2>1, <2>2
  <2> QED
    BY <1>3, <2>1, <2>2, <2>3 DEF Begins
<1>6. c[t][1] <= m + 1
  <2>1. PICK a : a = c[t][1]
    OBVIOUS
  <2>2. a \in 1..(m + 1)
    BY <1>4, <2>1
  <2>3. a <= m + 1
    BY <2>2
  <2> QED
    BY <2>1, <2>3
<1>7. Held(C, A, O \cup {t}, z, c, t, n)
  BY <1>4, <1>5, <1>6 DEF Held
<1>8. ASSUME NEW b \in DOMAIN B, NEW i \in DOMAIN B[b] PROVE Held(C, A, O \cup {t}, z, c, b, i)
  <2>1. Held(B, A, O, w, c, b, i) /\ B[b][i] \in Statement
    BY PlaceFacts DEF Laying
  <2>2. C[b][i] = B[b][i] /\ (b \in O => Len(C[b]) = Len(B[b]))
    OBVIOUS
  <2>3. ASSUME B[b][i].child \notin A, B[b][i].child # 0
        PROVE  EndOf(C, c, B[b][i].child) = EndOf(B, c, B[b][i].child)
    <3>1. PICK y : y = B[b][i].child
      OBVIOUS
    <3>2. y \in DOMAIN B /\ y # t
      BY <2>3, <3>1, PlaceFacts
    <3> QED
      BY <3>1, <3>2 DEF EndOf
  <2> QED
    BY <1>1, <2>1, <2>2, <2>3, HeldGrown
<1>9. ASSUME NEW b \in DOMAIN B PROVE c[b][1] \in 1..(Len(z) + 1)
  <2>1. c[b][1] \in 1..(m + 1)
    BY <1>2 DEF Laying
  <2>2. c[b][1] \in 1..(m + 1 + 1)
    BY <2>1
  <2> QED
    BY <1>3, <2>2
<1>10. ASSUME NEW b \in DOMAIN C, NEW i \in DOMAIN C[b] PROVE Held(C, A, O \cup {t}, z, c, b, i)
  <2>1. CASE b = t
    <3>1. i \in DOMAIN B[t] \/ i = n
      <4>1. DOMAIN B[t] = 1..Len(B[t]) /\ Len(B[t]) \in Nat
        BY PlaceFacts
      <4>2. i \in 1..n
        BY <2>1
      <4> QED
        BY <4>1, <4>2
    <3> QED
      BY <1>7, <1>8, <2>1, <3>1
  <2>2. CASE b # t
    BY <1>8, <2>2
  <2> QED
    BY <2>1, <2>2
<1>11. Laying(C, A, O \cup {t}, z, c)
  BY <1>9, <1>10 DEF Laying
<1> QED
  BY <1>1, <1>2, <1>4, <1>5, <1>11

(* The tokens of punctuation, by name. *)
Semicolon(x) == x = <<";">>
OpeningBrace(x) == x = <<"{">>
ClosingBrace(x) == x = <<"}">>

(* The statement gets a block, which is new. *)
Opened(B, C, t, n, s, a) ==
  /\ Changed(B, C, t, n, s) /\ a = Len(B) + 1 /\ DOMAIN C = 1..a /\ C[a] = <<>>
  /\ s \in Statement /\ s.tokens = B[t][n].tokens /\ s.child = a

(* A statement gets a block: parse_start_block. *)
LEMMA BlockOpens ==
  ASSUME NEW B, NEW A, NEW O, NEW w, NEW c, Growing(B, A, O, w, c),
         NEW t, NEW n, LastOf(B, O, t, n), WordsReach(B, w, c, t, n),
         NEW a \in Nat, NEW C, NEW s, Opened(B, C, t, n, s, a),
         NEW x \in Word, OpeningBrace(x)
  PROVE  \E d : ReachesEnd(C, A \cup {a}, O, Append(w, x), c, d, a)
<1> USE DEF Growing, LastOf, WordsReach
<1>1. PICK z : z = Append(w, x)
  OBVIOUS
<1>2. PICK m \in Nat : m = Len(w)
  OBVIOUS
<1>3. Len(z) = m + 1 /\ z[m + 1] = x /\ \A j \in 1..m : z[j] = w[j]
  BY <1>1, <1>2, AppendWord
<1>0. Changed(B, C, t, n, s) /\ s.tokens = B[t][n].tokens /\ s.child = a /\ s \in Statement
  BY DEF Opened
<1>4. /\ a \notin DOMAIN B /\ a \in Nat \ {0, 1} /\ \A b \in DOMAIN C : b \in DOMAIN B \/ b = a
      /\ DOMAIN B \subseteq DOMAIN C /\ a # t
  <2>1. DOMAIN B = 1..Len(B) /\ Len(B) \in Nat /\ t \in 1..Len(B)
    BY PlaceFacts
  <2> QED
    BY <2>1 DEF Opened
<1>5. PICK d : Recut(c, d, a, 1, m + 2)
  BY CanRecut
<1>6. d \in Layouts /\ d[a][1] = m + 2 /\ \A b, i \in Nat : b # a => d[b][i] = c[b][i]
  BY <1>5 DEF Recut
<1>7. PICK u \in Seq(Word) : u = B[t][n].tokens
  BY PlaceFacts DEF Statement
<1>8. PICK k \in Nat : k = Len(u)
  OBVIOUS
<1>9. PICK p : p = c[t][n]
  OBVIOUS
<1>10. Begins(w, c, B[t][n], p) /\ c[t][1] <= p
  BY <1>9 DEF Laying, Held
<1>11. p \in Nat \ {0} /\ p + k = m + 1
  BY <1>2, <1>7, <1>8, <1>9, <1>10 DEF Begins
<1>12. ASSUME NEW j \in 1..k PROVE z[p + j - 1] = s.tokens[j]
  <2>1. p + j - 1 \in 1..m
    BY <1>11
  <2>2. w[p + j - 1] = u[j]
    BY <1>7, <1>8, <1>10 DEF Begins
  <2> QED
    BY <1>0, <1>3, <1>7, <2>1, <2>2
<1>13. p + k <= m + 1 /\ p + k <= m + 1 + 1 /\ p + k + 1 = m + 2
  BY <1>11
<1>14. Begins(z, d, s, p)
  BY <1>0, <1>3, <1>6, <1>7, <1>8, <1>11, <1>12, <1>13 DEF Begins, OpeningBrace
<1>15. ASSUME NEW b \in DOMAIN B, NEW i \in DOMAIN B[b] PROVE Held(C, A \cup {a}, O, z, d, b, i)
  <2>0. b \in Nat /\ i \in Nat /\ i + 1 \in Nat /\ b # a /\ n \in Nat /\ t \in Nat
    BY <1>4, PlaceFacts
  <2>1. CASE b = t /\ i = n
    <3>1. d[t][n] = p /\ d[t][1] = c[t][1] /\ C[t][n] = s /\ Len(C[t]) = n
      BY <1>0, <1>4, <1>6, <1>9, <2>0 DEF Changed
    <3> QED
      BY <1>10, <1>14, <2>1, <3>1 DEF Held
  <2>2. CASE ~(b = t /\ i = n)
    <3>1. Held(B, A, O, w, c, b, i) /\ B[b][i] \in Statement
      BY PlaceFacts DEF Laying
    <3>2. C[b][i] = B[b][i] /\ Len(C[b]) = Len(B[b])
      BY <1>0, <2>2 DEF Changed
    <3>3. d[b][i] = c[b][i] /\ d[b][1] = c[b][1] /\ d[b][i + 1] = c[b][i + 1]
      BY <1>6, <2>0
    <3>4. PICK y : y = B[b][i].child
      OBVIOUS
    <3>5. y \in Nat /\ (y # 0 => y \in DOMAIN B) /\ y # a
      BY <1>4, <3>4, PlaceFacts
    <3>6. d[y][1] = c[y][1]
      BY <1>6, <3>5
    <3>7. ASSUME y \notin A, y # 0 PROVE EndOf(C, d, y) = EndOf(B, c, y)
      <4>1. y \in DOMAIN B /\ y # t
        BY <3>5, <3>7
      <4>2. C[y] = B[y] /\ Len(B[y]) + 1 \in Nat
        BY <1>0, <4>1, PlaceFacts DEF Changed
      <4> QED
        BY <1>6, <3>5, <4>2 DEF EndOf
    <3>8. y \notin A => y \notin A \cup {a}
      BY <3>5
    <3> QED
      BY <1>1, <3>1, <3>2, <3>3, <3>4, <3>6, <3>7, <3>8, HeldGrown
  <2> QED
    BY <2>1, <2>2
<1>16. ASSUME NEW b \in DOMAIN C PROVE d[b][1] \in 1..(Len(z) + 1)
  <2>1. CASE b = a
    <3>1. m + 2 \in 1..(m + 1 + 1)
      OBVIOUS
    <3> QED
      BY <1>3, <1>6, <2>1, <3>1
  <2>2. CASE b \in DOMAIN B
    <3>1. c[b][1] \in 1..(m + 1) /\ b \in Nat /\ b # a
      BY <1>2, <1>4, <2>2, PlaceFacts DEF Laying
    <3>2. c[b][1] \in 1..(m + 1 + 1)
      BY <3>1
    <3> QED
      BY <1>3, <1>6, <3>1, <3>2
  <2> QED
    BY <1>4, <2>1, <2>2
<1>17. ASSUME NEW b \in DOMAIN C, NEW i \in DOMAIN C[b] PROVE Held(C, A \cup {a}, O, z, d, b, i)
  <2>1. b # a
    BY DEF Opened
  <2>2. b \in DOMAIN B /\ i \in DOMAIN B[b]
    BY <1>0, <1>4, <2>1 DEF Changed
  <2> QED
    BY <1>15, <2>2
<1>18. Laying(C, A \cup {a}, O, z, d)
  BY <1>16, <1>17 DEF Laying
<1>19. EndOf(C, d, a) = m + 2 /\ d[1][1] = c[1][1]
  BY <1>4, <1>6 DEF EndOf, Opened
<1>20. m + 2 = Len(z) + 1
  BY <1>3
<1> QED
  BY <1>1, <1>6, <1>18, <1>19, <1>20 DEF ReachesEnd
-----------------------------------------------------------------------------
(* The steps of Parse. *)

Stack(S) == {S[k] : k \in DOMAIN S}

OpenIn(S, l) == IF l = "normal" THEN Stack(S) ELSE Stack(S) \ {S[Len(S)]}

(* The last of the words is the last that the tree has got. *)
AtEnd(B, t, l, w, c) ==
  IF l = "normal" THEN c[t][Len(B[t])] + Len(B[t][Len(B[t])].tokens) = Len(w) + 1
                  ELSE EndOf(B, c, t) = Len(w) + 1

LaidBy(B, S, l, w, c) ==
  /\ c \in Layouts /\ Laying(B, Stack(S), OpenIn(S, l), w, c)
  /\ c[1][1] = 1 /\ AtEnd(B, S[Len(S)], l, w, c)

(* The tree holds the words w, each in its place. *)
Laid(B, S, l, w) == w \in Seq(Word) /\ \E c : LaidBy(B, S, l, w, c)

LEMMA StackFacts ==
  ASSUME ParserInv
  PROVE  /\ ChildrenOK(blocks)
         /\ top \in Stack(config_stack) /\ top = config_stack[Len(config_stack)]
         /\ Stack(config_stack) \subseteq DOMAIN blocks /\ 0 \notin Stack(config_stack)
         /\ OpenIn(config_stack, last_token_type) \subseteq Stack(config_stack)
<1>1. ChildrenOK(blocks)
  BY TreeShape DEF ChildrenOK, ParserInv, ParserTypes
<1>2. top \in Stack(config_stack) /\ top = config_stack[Len(config_stack)]
  <2>1. Len(config_stack) \in DOMAIN config_stack
    BY TopFacts
  <2> QED
    BY <2>1 DEF Stack, top
<1>3. Stack(config_stack) \subseteq DOMAIN blocks
  BY TreeParts DEF Stack, StackOK
<1>4. 0 \notin DOMAIN blocks
  BY TopFacts
<1> QED
  BY <1>1, <1>2, <1>3, <1>4 DEF OpenIn

(* When nothing is open the tree is whole. *)
LEMMA LaidWhole ==
  ASSUME ParserInv, NEW w, Laid(blocks, config_stack, last_token_type, w),
         Len(config_stack) = 1, last_token_type # "normal"
  PROVE  ConfigToString = w
<1>1. PICK c : LaidBy(blocks, config_stack, last_token_type, w, c)
  BY DEF Laid
<1>2. w \in Seq(Word) /\ Len(w) \in Nat
  BY DEF Laid
<1>3. DOMAIN config_stack = 1..1 /\ config_stack[1] = 1
  BY TopFacts, TreeParts DEF StackOK
<1>4. Stack(config_stack) = {1}
  BY <1>3 DEF Stack
<1>5. OpenIn(config_stack, last_token_type) = {}
  BY <1>3, <1>4 DEF OpenIn
<1>6. /\ Laying(blocks, {1}, {}, w, c) /\ c[1][1] = 1 /\ EndOf(blocks, c, 1) = Len(w) + 1
      /\ c \in Layouts
  BY <1>1, <1>3, <1>4, <1>5 DEF LaidBy, AtEnd
<1>7. ASSUME NEW b \in DOMAIN blocks, NEW i \in DOMAIN blocks[b]
      PROVE  /\ Begins(w, c, blocks[b][i], c[b][i]) /\ c[b][1] <= c[b][i]
             /\ Finishes(w, blocks[b][i], c[b][i], c[b][i + 1], EndOf(blocks, c, blocks[b][i].child))
  BY <1>6 DEF Laying, Held, Ended
<1>8. ASSUME NEW b \in DOMAIN blocks PROVE CutsOK(w, c[b], Len(blocks[b]))
  <2>1. PICK n \in Nat : n = Len(blocks[b]) /\ DOMAIN blocks[b] = 1..n
    BY TreeShape
  <2>2. PICK a : a = c[b]
    OBVIOUS
  <2>3. a \in [Nat -> Nat]
    BY <1>6, <2>2, StackFacts, PlaceFacts DEF Layouts
  <2>4. a[1] \in 1..(Len(w) + 1)
    BY <1>6, <2>2 DEF Laying
  <2>5. ASSUME NEW i \in 1..n
        PROVE  a[1] <= a[i] /\ a[i] <= a[i + 1] /\ a[i + 1] <= Len(w) + 1
    BY <1>7, <2>1, <2>2 DEF Finishes
  <2>6. ASSUME NEW i \in 1..(n + 1)
        PROVE  a[i] \in Nat /\ a[1] <= a[i] /\ a[i] <= Len(w) + 1
    <3>1. CASE i = 1
      <4>1. PICK v \in Nat : v = a[1]
        BY <2>3
      <4>2. v \in 1..(Len(w) + 1)
        BY <2>4, <4>1
      <4>3. v <= v /\ v <= Len(w) + 1
        BY <1>2, <4>2
      <4> QED
        BY <3>1, <4>1, <4>3
    <3>2. CASE i # 1
      <4>1. PICK j \in 1..n : i = j + 1
        <5>1. i - 1 \in 1..n /\ i = i - 1 + 1
          BY <3>2
        <5> QED
          BY <5>1
      <4>2. PICK v, p, q \in Nat : v = a[1] /\ p = a[j] /\ q = a[i]
        <5>1. j \in Nat /\ i \in Nat /\ 1 \in Nat
          BY <4>1
        <5> QED
          BY <2>3, <5>1
      <4>3. v <= p /\ p <= q /\ q <= Len(w) + 1
        BY <2>5, <4>1, <4>2
      <4>4. v <= q
        BY <4>3
      <4> QED
        BY <4>2, <4>3, <4>4
    <3> QED
      BY <3>1, <3>2
  <2>7. 1 <= a[1]
    <3>1. PICK v : v = a[1]
      OBVIOUS
    <3>2. v \in 1..(Len(w) + 1)
      BY <2>4, <3>1
    <3>3. 1 <= v
      BY <1>2, <3>2
    <3> QED
      BY <3>1, <3>3
  <2> QED
    BY <2>1, <2>2, <2>5, <2>6, <2>7 DEF CutsOK
<1>9. Whole(w, c)
  BY <1>6, <1>7, <1>8 DEF Whole
<1> QED
  BY <1>2, <1>9, TextWhole

LEMMA CommentLaid ==
  ASSUME NEW w, Laid(blocks, config_stack, last_token_type, w), UNCHANGED tree
  PROVE  Laid(blocks', config_stack', last_token_type', w)
  BY DEF tree

LEMMA NormalLaid ==
  ASSUME ParserInv, NEW w, Laid(blocks, config_stack, last_token_type, w), parse_normal
  PROVE  Laid(blocks', config_stack', last_token_type', Append(w, token))
<1>1. PICK c : LaidBy(blocks, config_stack, last_token_type, w, c)
  BY DEF Laid
<1>2. w \in Seq(Word) /\ Len(w) \in Nat
  BY DEF Laid
<1>3. token \in Word /\ config_stack' = config_stack /\ last_token_type' = "normal"
  BY DEF parse_normal, Token, ParserInv, ParserTypes
<1>4. PICK B, C, A, O, t : /\ B = blocks /\ C = blocks' /\ A = Stack(config_stack)
                           /\ O = OpenIn(config_stack, last_token_type) /\ t = top
  OBVIOUS
<1>5. /\ ChildrenOK(B) /\ t \in A /\ t \in DOMAIN B /\ O \subseteq A
      /\ t = config_stack[Len(config_stack)] /\ B \in Seq(Seq(Statement))
  BY <1>4, StackFacts, TreeParts DEF TreeTypes
<1>6. c \in Layouts /\ Laying(B, A, O, w, c) /\ c[1][1] = 1 /\ AtEnd(B, t, last_token_type, w, c)
  BY <1>1, <1>4, <1>5 DEF LaidBy
<1>7. PICK m \in Nat : m = Len(B[t]) /\ DOMAIN B[t] = 1..m /\ B[t] \in Seq(Statement)
  BY <1>5, PlaceFacts
<1>8. PICK z : z = Append(w, token)
  OBVIOUS
<1>9. z \in Seq(Word) /\ Len(z) = Len(w) + 1 /\ Len(w) + 2 = Len(w) + 1 + 1
  BY <1>2, <1>3, <1>8, AppendWord
<1>10. SUFFICES /\ Laying(C, A, A, z, c)
                /\ c[t][Len(C[t])] + Len(C[t][Len(C[t])].tokens) = Len(w) + 2
  <2>1. AtEnd(C, t, "normal", z, c)
    BY <1>9, <1>10 DEF AtEnd
  <2>2. OpenIn(config_stack, "normal") = A
    BY <1>4 DEF OpenIn
  <2>3. LaidBy(C, config_stack, "normal", z, c)
    BY <1>4, <1>5, <1>6, <1>10, <2>1, <2>2 DEF LaidBy
  <2> QED
    BY <1>3, <1>4, <1>8, <1>9, <2>3 DEF Laid
<1>11. CASE last_token_type = "normal"
  <2>1. PICK s : s = [B[t][m] EXCEPT !.tokens = Append(B[t][m].tokens, token)]
    OBVIOUS
  <2>2. m \in DOMAIN B[t] /\ B[t][m].child = 0 /\ B[t][m] \in Statement
    <3>1. B[t] # <<>> /\ B[t][m].child = 0
      BY <1>4, <1>7, <1>11, TreeParts DEF LastOK, back
    <3>2. m # 0
      BY <1>7, <3>1
    <3> QED
      BY <1>7, <3>1, <3>2
  <2>3. s.tokens = Append(B[t][m].tokens, token) /\ s.child = 0 /\ s \in Statement
    <3>1. B[t][m].tokens \in Seq(Word)
      BY <2>2 DEF Statement
    <3>2. Append(B[t][m].tokens, token) \in Seq(Word)
      BY <1>3, <3>1, AppendWord
    <3> QED
      BY <2>1, <2>2, <3>2 DEF Statement
  <2>4. PICK X : X = [B[t] EXCEPT ![m] = s]
    OBVIOUS
  <2>5. C = [B EXCEPT ![t] = X]
    BY <1>4, <1>7, <1>11, <2>1, <2>4 DEF parse_normal, back
  <2>6. /\ X \in Seq(Statement) /\ DOMAIN X = DOMAIN B[t] /\ Len(X) = m /\ X[m] = s
        /\ \A i \in DOMAIN B[t] : i # m => X[i] = B[t][i]
    BY <1>7, <2>2, <2>3, <2>4
  <2>7. DOMAIN C = DOMAIN B /\ C[t] = X /\ \A b \in DOMAIN B : b # t => C[b] = B[b]
    BY <1>5, <2>5
  <2>8. Changed(B, C, t, m, s)
    BY <1>7, <2>6, <2>7 DEF Changed
  <2>9. O = A /\ c[t][m] + Len(B[t][m].tokens) = Len(w) + 1
    BY <1>4, <1>6, <1>7, <1>11 DEF OpenIn, AtEnd
  <2>10. Laying(C, A, O, z, c) /\ c[t][m] + Len(s.tokens) = Len(w) + 2
    <3>1. Growing(B, A, O, w, c)
      BY <1>2, <1>5, <1>6 DEF Growing
    <3>2. LastOf(B, O, t, m)
      BY <1>5, <1>7, <2>2, <2>9 DEF LastOf
    <3>3. WordsReach(B, w, c, t, m)
      BY <2>9 DEF WordsReach
    <3>4. Joined(B, C, t, m, s, token)
      BY <1>3, <2>2, <2>3, <2>7, <2>8 DEF Joined
    <3> QED
      BY <1>8, <3>1, <3>2, <3>3, <3>4, WordJoins
  <2> QED
    BY <2>6, <2>7, <2>9, <2>10
<1>12. CASE last_token_type # "normal"
  <2>1. PICK s : s = [tokens |-> <<token>>, child |-> 0]
    OBVIOUS
  <2>2. s \in Statement /\ s.tokens = <<token>> /\ s.child = 0
    BY <1>3, <2>1 DEF Statement
  <2>3. PICK X : X = Append(B[t], s)
    OBVIOUS
  <2>4. C = [B EXCEPT ![t] = X]
    BY <1>4, <1>12, <2>1, <2>3 DEF parse_normal
  <2>5. PICK n \in Nat : n = m + 1
    OBVIOUS
  <2>6. DOMAIN X = 1..n /\ Len(X) = n /\ X[n] = s /\ \A i \in DOMAIN B[t] : X[i] = B[t][i]
    BY <1>7, <2>2, <2>3, <2>5, AppendWord
  <2>7. DOMAIN C = DOMAIN B /\ C[t] = X /\ \A b \in DOMAIN B : b # t => C[b] = B[b]
    BY <1>5, <2>4
  <2>8. t \notin O /\ A = O \cup {t} /\ EndOf(B, c, t) = Len(w) + 1
    BY <1>4, <1>5, <1>6, <1>12 DEF OpenIn, AtEnd
  <2>9. Laying(C, A, O \cup {t}, z, c) /\ c[t][n] + Len(s.tokens) = Len(w) + 2
    <3>1. Growing(B, A, O, w, c)
      BY <1>2, <1>5, <1>6 DEF Growing
    <3>2. Started(B, C, t, n, s, token)
      BY <1>3, <1>7, <2>2, <2>5, <2>6, <2>7 DEF Started
    <3>3. Resting(B, A, O, w, c, t)
      BY <1>5, <2>8 DEF Resting
    <3> QED
      BY <1>8, <3>1, <3>2, <3>3, StatementStarts
  <2> QED
    BY <2>6, <2>7, <2>8, <2>9
<1> QED
  BY <1>11, <1>12

LEMMA StatementEndLaid ==
  ASSUME ParserInv, NEW w, Laid(blocks, config_stack, last_token_type, w),
         last_token_type = "normal", last_token_type' = "statement_end",
         UNCHANGED <<config_stack, blocks>>, Semicolon(token)
  PROVE  Laid(blocks', config_stack', last_token_type', Append(w, token))
<1>1. PICK c : LaidBy(blocks, config_stack, last_token_type, w, c)
  BY DEF Laid
<1>2. w \in Seq(Word) /\ Len(w) \in Nat /\ token \in Word
  BY DEF Laid, ParserInv, ParserTypes
<1>3. PICK B, A, t : B = blocks /\ A = Stack(config_stack) /\ t = top
  OBVIOUS
<1>4. /\ ChildrenOK(B) /\ t \in A /\ t \in DOMAIN B /\ 0 \notin A
      /\ t = config_stack[Len(config_stack)]
  BY <1>3, StackFacts
<1>5. PICK n : n = Len(B[t])
  OBVIOUS
<1>6. /\ c \in Layouts /\ Laying(B, A, A, w, c) /\ c[1][1] = 1
      /\ c[t][n] + Len(B[t][n].tokens) = Len(w) + 1
  BY <1>1, <1>3, <1>4, <1>5 DEF LaidBy, OpenIn, AtEnd
<1>7. n \in DOMAIN B[t] /\ B[t][n].child = 0 /\ B[t][n] \in Statement
  <2>1. B[t] # <<>> /\ B[t][n].child = 0 /\ B[t] \in Seq(Statement)
    BY <1>3, <1>5, TreeParts, TopFacts DEF LastOK, back
  <2> QED
    BY <1>5, <2>1
<1>8. PICK z : z = Append(w, token)
  OBVIOUS
<1>9. z \in Seq(Word) /\ Len(z) = Len(w) + 1 /\ z[Len(w) + 1] = token
  BY <1>2, <1>8, AppendWord
<1>10. Finishes(z, B[t][n], c[t][n], Len(w) + 2, EndOf(B, c, B[t][n].child))
  <2>1. PICK p : p = c[t][n]
    OBVIOUS
  <2>2. PICK k \in Nat : k = Len(B[t][n].tokens)
    BY <1>7 DEF Statement
  <2>3. PICK m \in Nat : m = Len(w)
    BY <1>2
  <2>4. p \in Nat \ {0}
    BY <1>4, <1>6, <1>7, <2>1 DEF Laying, Held, Begins
  <2>5. p + k = m + 1
    BY <1>6, <2>1, <2>2, <2>3
  <2>6. m + 2 \in Nat /\ p <= m + 2 /\ m + 2 <= m + 1 + 1 /\ m + 2 = p + k + 1
    BY <2>4, <2>5
  <2>7. z[p + k] = <<";">> /\ Len(z) = m + 1
    BY <1>9, <2>3, <2>5 DEF Semicolon
  <2>8. Finishes(z, B[t][n], p, m + 2, EndOf(B, c, B[t][n].child))
    BY <1>7, <2>2, <2>6, <2>7 DEF Finishes
  <2> QED
    BY <2>1, <2>3, <2>8
<1>12. PICK d : ReachesEnd(B, A, A \ {t}, Append(w, token), c, d, t)
  <2>1. Growing(B, A, A, w, c) /\ LastOf(B, A, t, n)
    BY <1>2, <1>4, <1>5, <1>6, <1>7 DEF Growing, LastOf
  <2>2. EndsWith(B, A, A, w, c, t, n, token)
    BY <1>2, <1>4, <1>7, <1>8, <1>10 DEF EndsWith
  <2> QED
    BY <2>1, <2>2, StatementEnds
<1>13. LaidBy(B, config_stack, "statement_end", z, d)
  <2>1. OpenIn(config_stack, "statement_end") = A \ {t}
    BY <1>3, <1>4 DEF OpenIn
  <2>2. AtEnd(B, t, "statement_end", z, d)
    BY <1>8, <1>12 DEF AtEnd, ReachesEnd
  <2> QED
    BY <1>3, <1>4, <1>6, <1>8, <1>12, <2>1, <2>2 DEF LaidBy, ReachesEnd
<1> QED
  BY <1>3, <1>8, <1>9, <1>13 DEF Laid

LEMMA StartBlockLaid ==
  ASSUME ParserInv, NEW w, Laid(blocks, config_stack, last_token_type, w),
         parse_start_block, last_token_type = "normal", OpeningBrace(token)
  PROVE  Laid(blocks', config_stack', last_token_type', Append(w, token))
<1>1. PICK c : LaidBy(blocks, config_stack, last_token_type, w, c)
  BY DEF Laid
<1>2. w \in Seq(Word) /\ Len(w) \in Nat /\ token \in Word
  BY DEF Laid, ParserInv, ParserTypes
<1>3. PICK B, C, A, t : B = blocks /\ C = blocks' /\ A = Stack(config_stack) /\ t = top
  OBVIOUS
<1>4. /\ ChildrenOK(B) /\ t \in A /\ t \in DOMAIN B /\ A \subseteq DOMAIN B
      /\ t = config_stack[Len(config_stack)] /\ B \in Seq(Seq(Statement))
  BY <1>3, StackFacts, TreeParts DEF TreeTypes
<1>5. PICK n : n = Len(B[t])
  OBVIOUS
<1>6. c \in Layouts /\ Laying(B, A, A, w, c) /\ c[1][1] = 1 /\ WordsReach(B, w, c, t, n)
  BY <1>1, <1>3, <1>4, <1>5 DEF LaidBy, OpenIn, AtEnd, WordsReach
<1>7. n \in DOMAIN B[t] /\ B[t][n] \in Statement /\ B[t] \in Seq(Statement)
  <2>1. B[t] # <<>> /\ B[t] \in Seq(Statement)
    BY <1>3, TreeParts, TopFacts DEF LastOK
  <2> QED
    BY <1>5, <2>1
<1>8. PICK a \in Nat : a = Len(B) + 1
  BY <1>4, PlaceFacts
<1>9. /\ last_token_type' = "start_block" /\ config_stack' = Append(config_stack, a)
  BY <1>3, <1>8 DEF parse_start_block, Token
<1>10. PICK s : s = [B[t][n] EXCEPT !.child = a]
  OBVIOUS
<1>11. s \in Statement /\ s.tokens = B[t][n].tokens /\ s.child = a
  BY <1>7, <1>10 DEF Statement
<1>12. PICK X : X = [B[t] EXCEPT ![n] = s]
  OBVIOUS
<1>13. /\ X \in Seq(Statement) /\ DOMAIN X = DOMAIN B[t] /\ Len(X) = n /\ X[n] = s
       /\ \A i \in DOMAIN B[t] : i # n => X[i] = B[t][i]
  BY <1>5, <1>7, <1>11, <1>12
<1>14. PICK Y : Y = [B EXCEPT ![t] = X]
  OBVIOUS
<1>15. /\ Y \in Seq(Seq(Statement)) /\ Len(Y) = Len(B) /\ DOMAIN Y = DOMAIN B /\ Y[t] = X
       /\ \A b \in DOMAIN B : b # t => Y[b] = B[b]
  BY <1>4, <1>13, <1>14
<1>16. C = Append(Y, <<>>)
  BY <1>3, <1>5, <1>8, <1>10, <1>12, <1>14 DEF parse_start_block, back
<1>17. /\ DOMAIN C = 1..a /\ C[a] = <<>> /\ \A b \in DOMAIN B : C[b] = Y[b]
  <2>1. <<>> \in Seq(Statement)
    OBVIOUS
  <2>2. DOMAIN Y = 1..Len(Y)
    BY <1>15
  <2> QED
    BY <1>8, <1>15, <1>16, <2>1, <2>2, AppendWord
<1>18. Changed(B, C, t, n, s)
  BY <1>4, <1>5, <1>13, <1>15, <1>17 DEF Changed
<1>19. Opened(B, C, t, n, s, a)
  BY <1>8, <1>11, <1>17, <1>18 DEF Opened
<1>20. Growing(B, A, A, w, c) /\ LastOf(B, A, t, n)
  BY <1>2, <1>4, <1>5, <1>6, <1>7 DEF Growing, LastOf
<1>21. PICK d : ReachesEnd(C, A \cup {a}, A, Append(w, token), c, d, a)
  BY <1>2, <1>6, <1>19, <1>20, BlockOpens
<1>22. a \notin A
  <2>1. a \notin DOMAIN B
    <3>1. DOMAIN B = 1..Len(B) /\ Len(B) \in Nat
      BY <1>4
    <3> QED
      BY <1>8, <3>1
  <2> QED
    BY <1>4, <2>1
<1>23. Stack(config_stack') = A \cup {a} /\ config_stack'[Len(config_stack')] = a
  <2>1. PICK S \in Seq(Nat) : S = config_stack
    BY TreeParts DEF TreeTypes
  <2>2. PICK k \in Nat : k = Len(S)
    OBVIOUS
  <2>3. PICK T : T = config_stack'
    OBVIOUS
  <2>4. /\ DOMAIN S = 1..k /\ DOMAIN T = 1..(k + 1) /\ T[k + 1] = a /\ Len(T) = k + 1
        /\ \A i \in 1..k : T[i] = S[i]
    BY <1>9, <2>1, <2>2, <2>3, AppendWord
  <2>5. \A i \in 1..(k + 1) : i \in 1..k \/ i = k + 1
    OBVIOUS
  <2>6. 1..k \subseteq 1..(k + 1) /\ k + 1 \in 1..(k + 1)
    OBVIOUS
  <2>7. Stack(T) = Stack(S) \cup {a}
    BY <2>4, <2>5, <2>6 DEF Stack
  <2> QED
    BY <1>3, <2>1, <2>3, <2>4, <2>7
<1>24. PICK z : z = Append(w, token)
  OBVIOUS
<1>25. z \in Seq(Word)
  BY <1>2, <1>24, AppendWord
<1>26. LaidBy(C, config_stack', "start_block", z, d)
  <2>1. OpenIn(config_stack', "start_block") = A
    BY <1>22, <1>23 DEF OpenIn
  <2>2. AtEnd(C, a, "start_block", z, d)
    BY <1>21, <1>24 DEF AtEnd, ReachesEnd
  <2> QED
    BY <1>6, <1>21, <1>23, <1>24, <2>1, <2>2 DEF LaidBy, ReachesEnd
<1> QED
  BY <1>3, <1>9, <1>24, <1>25, <1>26 DEF Laid

LEMMA EndBlockLaid ==
  ASSUME ParserInv, NEW w, Laid(blocks, config_stack, last_token_type, w),
         parse_end_block, EndsBlock, open_block >= 1, ClosingBrace(token)
  PROVE  Laid(blocks', config_stack', last_token_type', Append(w, token))
<1>1. PICK c : LaidBy(blocks, config_stack, last_token_type, w, c)
  BY DEF Laid
<1>2. w \in Seq(Word) /\ Len(w) \in Nat /\ token \in Word
  BY DEF Laid, ParserInv, ParserTypes
<1>3. PICK B, A, t : B = blocks /\ A = Stack(config_stack) /\ t = top
  OBVIOUS
<1>4. /\ ChildrenOK(B) /\ t \in A /\ t \in DOMAIN B /\ A \subseteq DOMAIN B /\ 0 \notin A
      /\ t = config_stack[Len(config_stack)]
  BY <1>3, StackFacts
<1>5. PICK S \in Seq(Nat) : S = config_stack
  BY TreeParts DEF TreeTypes
<1>6. PICK k \in Nat \ {0} : Len(S) = k + 1 /\ Len(S) - 1 = k /\ DOMAIN S = 1..(k + 1)
  <2>1. open_block \in Int /\ open_block = Len(S) - 1 /\ open_block >= 1
    BY <1>5, TreeParts DEF TreeTypes, StackOK
  <2>2. Len(S) \in Nat /\ DOMAIN S = 1..Len(S)
    OBVIOUS
  <2>3. Len(S) - 1 \in Nat \ {0} /\ Len(S) = Len(S) - 1 + 1
    BY <2>1, <2>2
  <2> QED
    BY <2>2, <2>3
<1>7. PICK T : T = config_stack'
  OBVIOUS
<1>8. T = SubSeq(S, 1, k) /\ last_token_type' = "end_block" /\ blocks' = B
  <2>1. open_block \in Int
    BY DEF ParserInv, ParserTypes
  <2> QED
    BY <1>3, <1>5, <1>6, <1>7, <2>1 DEF parse_end_block, Token
<1>9. T \in Seq(Nat) /\ Len(T) = k /\ DOMAIN T = 1..k /\ \A i \in 1..k : T[i] = S[i]
  <2>1. k \in 0..Len(S)
    BY <1>6
  <2>2. T \in Seq(Nat) /\ Len(T) = k /\ \A i \in 1..k : T[i] = S[i]
    BY <1>8, <2>1, FrontPlaces
  <2> QED
    BY <2>2
<1>10. PICK u : u = S[k]
  OBVIOUS
<1>11. u \in A /\ u # t /\ u = T[Len(T)]
  <2>1. k \in 1..(Len(S) - 1) /\ k \in DOMAIN S /\ k \in 1..k
    BY <1>6
  <2>2. u # t
    BY <1>3, <1>5, <1>10, <2>1, TopFacts
  <2> QED
    BY <1>3, <1>5, <1>9, <1>10, <2>1, <2>2 DEF Stack
<1>12. Stack(T) = A \ {t}
  <2>1. \A i \in 1..k : S[i] # t
    BY <1>3, <1>5, <1>6, TopFacts
  <2>2. S[k + 1] = t
    BY <1>4, <1>5, <1>6
  <2>3. (\A i \in 1..(k + 1) : i \in 1..k \/ i = k + 1) /\ 1..k \subseteq 1..(k + 1)
    OBVIOUS
  <2> QED
    BY <1>3, <1>5, <1>6, <1>9, <2>1, <2>2, <2>3 DEF Stack
<1>13. PICK n : n = Len(B[u])
  OBVIOUS
<1>14. n \in DOMAIN B[u] /\ B[u][n].child = t /\ B[u][n] \in Statement
  <2>1. k \in 1..(Len(S) - 1)
    BY <1>6
  <2>2. B[u] # <<>> /\ B[u][n].child = S[k + 1]
    BY <1>3, <1>5, <1>10, <1>13, <2>1, TreeParts DEF StackOK
  <2>3. B[u] \in Seq(Statement)
    BY <1>4, <1>11, PlaceFacts
  <2>4. n \in DOMAIN B[u] /\ B[u][n] \in Statement
    BY <1>13, <2>2, <2>3
  <2> QED
    BY <1>4, <1>5, <1>6, <2>2, <2>4
<1>15. /\ c \in Layouts /\ Laying(B, A, A \ {t}, w, c) /\ c[1][1] = 1
       /\ EndOf(B, c, t) = Len(w) + 1
  <2>1. last_token_type # "normal"
    BY DEF EndsBlock
  <2> QED
    BY <1>1, <1>3, <1>4, <2>1 DEF LaidBy, OpenIn, AtEnd
<1>16. PICK z : z = Append(w, token)
  OBVIOUS
<1>17. z \in Seq(Word) /\ Len(z) = Len(w) + 1 /\ z[Len(w) + 1] = token
  BY <1>2, <1>16, AppendWord
<1>18. Finishes(z, B[u][n], c[u][n], Len(w) + 2, EndOf(B, c, B[u][n].child))
  <2>1. PICK p : p = c[u][n]
    OBVIOUS
  <2>2. PICK h \in Nat : h = Len(B[u][n].tokens)
    BY <1>14 DEF Statement
  <2>3. PICK m \in Nat : m = Len(w)
    BY <1>2
  <2>4. B[u][n].child # 0
    BY <1>4, <1>14
  <2>5. Begins(w, c, B[u][n], p)
    BY <1>4, <1>11, <1>14, <1>15, <2>1 DEF Laying, Held
  <2>6. p \in Nat \ {0} /\ p + h <= m
    BY <2>2, <2>3, <2>4, <2>5 DEF Begins
  <2>7. m + 2 \in Nat /\ p <= m + 2 /\ m + 2 <= m + 1 + 1 /\ m + 2 = m + 1 + 1 /\ m + 1 \in 1..(m + 1)
    BY <2>6
  <2>8. Len(z) = m + 1 /\ z[m + 1] = <<"}">>
    BY <1>17, <2>3 DEF ClosingBrace
  <2>9. Finishes(z, B[u][n], p, m + 2, m + 1)
    BY <2>4, <2>7, <2>8 DEF Finishes
  <2> QED
    BY <1>14, <1>15, <2>1, <2>3, <2>9
<1>19. PICK d : ReachesEnd(B, A \ {t}, (A \ {t}) \ {u}, Append(w, token), c, d, u)
  <2>1. Growing(B, A, A \ {t}, w, c) /\ LastOf(B, A \ {t}, u, n)
    BY <1>2, <1>4, <1>11, <1>13, <1>14, <1>15 DEF Growing, LastOf
  <2>2. EndsWith(B, A, A \ {t}, w, c, u, n, token)
    BY <1>2, <1>14, <1>16, <1>18 DEF EndsWith
  <2> QED
    BY <2>1, <2>2, StatementEnds
<1>20. LaidBy(B, T, "end_block", z, d)
  <2>1. OpenIn(T, "end_block") = (A \ {t}) \ {u}
    BY <1>11, <1>12 DEF OpenIn
  <2>2. AtEnd(B, u, "end_block", z, d)
    BY <1>16, <1>19 DEF AtEnd, ReachesEnd
  <2> QED
    BY <1>11, <1>12, <1>15, <1>16, <1>19, <2>1, <2>2 DEF LaidBy, ReachesEnd
<1> QED
  BY <1>7, <1>8, <1>16, <1>17, <1>20 DEF Laid
-----------------------------------------------------------------------------
(* The words of the file, and the invariant. *)

WordRule(P, ws, i) ==
  IF i = 0 THEN <<>>
  ELSE IF P[i].type \in {"comment", "eof"} THEN ws[i - 1]
  ELSE Append(ws[i - 1], P[i].value)

WordTable(P, ws) == ws = [i \in 0..Len(P) |-> WordRule(P, ws, i)]

LEMMA WordsAre ==
  ASSUME printed \in Seq(Piece), NEW ws, WordTable(printed, ws)
  PROVE  TokensRead = ws[Len(printed)]
<1>1. PICK n \in Nat : n = Len(printed)
  OBVIOUS
<1>2. PICK f : f = CHOOSE h : WordTable(printed, h)
  OBVIOUS
<1>3. WordTable(printed, f)
  BY <1>2
<1>4. TokensRead = f[n]
  BY <1>1, <1>2 DEF TokensRead, WordTable, WordRule
<1>5. PICK o \in Nat : o = 0
  OBVIOUS
<1> DEFINE G == {i \in Nat : f[i] = ws[i]}
<1>6. ASSUME NEW i \in o..n, \A r \in o..(i - 1) : r \in G PROVE i \in G
  <2>1. i \in 0..Len(printed) /\ i \in Nat
    BY <1>1, <1>5
  <2>2. f[i] = WordRule(printed, f, i) /\ ws[i] = WordRule(printed, ws, i)
    BY <1>3, <2>1 DEF WordTable
  <2>3. i # 0 => f[i - 1] = ws[i - 1]
    <3>1. ASSUME i # 0 PROVE i - 1 \in o..(i - 1)
      BY <1>5, <2>1, <3>1
    <3> QED
      BY <1>6, <3>1
  <2>4. f[i] = ws[i]
    BY <2>2, <2>3 DEF WordRule
  <2> QED
    BY <2>1, <2>4
<1> HIDE DEF G
<1>7. \A i \in o..n : i \in G
  BY <1>6, Upward
<1>8. n \in o..n
  BY <1>5
<1>9. f[n] = ws[n]
  BY <1>7, <1>8 DEF G
<1> QED
  BY <1>1, <1>4, <1>9

LEMMA TableGrows ==
  ASSUME NEW S, NEW P \in Seq(S), NEW r \in S, NEW ws, WordTable(P, ws)
  PROVE  \E zs : WordTable(Append(P, r), zs) /\ zs[Len(P)] = ws[Len(P)]
<1>1. PICK n \in Nat : n = Len(P)
  OBVIOUS
<1>2. PICK Q : Q = Append(P, r)
  OBVIOUS
<1>3. Len(Q) = n + 1 /\ \A i \in 1..n : Q[i] = P[i]
  BY <1>1, <1>2, AppendWord
<1>4. PICK zs : zs = [i \in 0..(n + 1) |-> IF i = n + 1 THEN WordRule(Q, ws, i) ELSE ws[i]]
  OBVIOUS
<1>5. zs[n + 1] = WordRule(Q, ws, n + 1) /\ \A i \in 0..n : zs[i] = ws[i]
  <2>1. n + 1 \in 0..(n + 1) /\ \A i \in 0..n : i \in 0..(n + 1) /\ i # n + 1
    OBVIOUS
  <2> QED
    BY <1>4, <2>1
<1>6. ASSUME NEW i \in 0..(n + 1) PROVE zs[i] = WordRule(Q, zs, i)
  <2>1. CASE i = n + 1
    <3>1. n + 1 - 1 \in 0..n /\ n + 1 # 0
      OBVIOUS
    <3>2. zs[n + 1 - 1] = ws[n + 1 - 1]
      BY <1>5, <3>1
    <3> QED
      BY <1>5, <2>1, <3>2 DEF WordRule
  <2>2. CASE i # n + 1
    <3>1. i \in 0..n
      BY <2>2
    <3>2. zs[i] = WordRule(P, ws, i)
      BY <1>1, <1>5, <3>1 DEF WordTable
    <3>3. i # 0 => i - 1 \in 0..n /\ i \in 1..n
      BY <3>1
    <3>4. i # 0 => zs[i - 1] = ws[i - 1] /\ Q[i] = P[i]
      BY <1>3, <1>5, <3>3
    <3> QED
      BY <3>2, <3>4 DEF WordRule
  <2> QED
    BY <2>1, <2>2
<1>7. zs = [i \in 0..(n + 1) |-> WordRule(Q, zs, i)]
  <2>1. zs = [i \in 0..(n + 1) |-> zs[i]]
    BY <1>4
  <2> QED
    BY <1>6, <2>1
<1>8. WordTable(Q, zs)
  BY <1>3, <1>7 DEF WordTable
<1>9. zs[n] = ws[n]
  BY <1>5
<1> QED
  BY <1>1, <1>2, <1>8, <1>9

(* A token of punctuation is the character that it stands for. *)
Punctuated(t, v) ==
  /\ t = "statement_end" => Semicolon(v)
  /\ t = "start_block" => OpeningBrace(v)
  /\ t = "end_block" => ClosingBrace(v)

LEMMA PunctuationIs == ASSUME NEW u \in DOMAIN Punctuation PROVE Punctuated(Punctuation[u], <<u>>)
<1>1. DOMAIN Punctuation = {"{", "}", ";"}
  BY DEF Punctuation
<1>2. CASE u = "{"
  <2>1. Punctuation["{"] = "start_block"
    BY DEF Punctuation
  <2>2. OpeningBrace(<<"{">>)
    BY DEF OpeningBrace
  <2> QED
    BY <1>2, <2>1, <2>2 DEF Punctuated
<1>3. CASE u = "}"
  <2>1. Punctuation["}"] = "end_block"
    BY DEF Punctuation
  <2>2. ClosingBrace(<<"}">>)
    BY DEF ClosingBrace
  <2> QED
    BY <1>3, <2>1, <2>2 DEF Punctuated
<1>4. CASE u = ";"
  <2>1. Punctuation[";"] = "statement_end"
    BY DEF Punctuation
  <2>2. Semicolon(<<";">>)
    BY DEF Semicolon
  <2> QED
    BY <1>4, <2>1, <2>2 DEF Punctuated
<1> QED
  BY <1>1, <1>2, <1>3, <1>4

(* The tree holds the words before the token that Parse looks at. *)
Reading(ws) ==
  IF token_type = NONE
  THEN Laid(blocks, config_stack, last_token_type, ws[Len(printed)])
  ELSE /\ printed # <<>> /\ printed[Len(printed)].type = token_type
       /\ printed[Len(printed)].value = token /\ Punctuated(token_type, token)
       /\ Laid(blocks, config_stack, last_token_type, ws[Len(printed) - 1])

TextInv ==
  /\ \E ws : WordTable(printed, ws) /\ (parsed \in {"unopened", "parsing"} => Reading(ws))
  /\ TreeFaithful

LEMMA TextInitInv == ASSUME ParserInit PROVE TextInv
<1>1. /\ blocks = << <<>> >> /\ config_stack = <<1>> /\ last_token_type = "start"
      /\ printed = <<>> /\ token_type = NONE /\ parsed = "unopened"
  BY DEF ParserInit
<1>2. PICK ws : ws = [i \in 0..0 |-> <<>>]
  OBVIOUS
<1>3. WordTable(printed, ws) /\ ws[Len(printed)] = <<>>
  <2>1. \A i \in 0..0 : WordRule(<<>>, ws, i) = <<>>
    BY DEF WordRule
  <2> QED
    BY <1>1, <1>2, <2>1 DEF WordTable
<1>4. PICK c : c = [b \in Nat |-> [i \in Nat |-> 1]]
  OBVIOUS
<1>5. c \in Layouts /\ c[1][1] = 1
  BY <1>4 DEF Layouts
<1>6. Laying(<< <<>> >>, {1}, {}, <<>>, c)
  BY <1>5 DEF Laying
<1>7. Stack(<<1>>) = {1} /\ OpenIn(<<1>>, "start") = {}
  BY DEF Stack, OpenIn
<1>8. AtEnd(<< <<>> >>, 1, "start", <<>>, c)
  BY <1>5 DEF AtEnd, EndOf
<1>9. LaidBy(<< <<>> >>, <<1>>, "start", <<>>, c)
  BY <1>5, <1>6, <1>7, <1>8 DEF LaidBy
<1>10. Laid(<< <<>> >>, <<1>>, "start", <<>>)
  BY <1>9 DEF Laid
<1>11. Reading(ws)
  BY <1>1, <1>3, <1>10 DEF Reading
<1> QED
  BY <1>1, <1>3, <1>11 DEF TextInv, TreeFaithful

LEMMA FoundText ==
  ASSUME TextInv, parsed = "parsing", token_type = NONE, UNCHANGED <<tree, parsed>>,
         printed \in Seq(Piece), NEW t \in TokenType, NEW v, NEW e, Found(t, v, e), Punctuated(t, v)
  PROVE  TextInv'
<1>1. PICK ws : WordTable(printed, ws) /\ Reading(ws)
  BY DEF TextInv
<1>2. PICK r : r = [type |-> t, value |-> v, end |-> e]
  OBVIOUS
<1>3. PICK S : S = Piece \cup {r}
  OBVIOUS
<1>4. PICK P \in Seq(S) : P = printed
  BY <1>3
<1>5. r \in S /\ r.type = t /\ r.value = v
  BY <1>2, <1>3
<1>6. PICK Q : Q = printed'
  OBVIOUS
<1>7. Q = Append(P, r)
  BY <1>2, <1>4, <1>6 DEF Found
<1>8. PICK n \in Nat : n = Len(P)
  OBVIOUS
<1>9. Q # <<>> /\ Len(Q) = n + 1 /\ Len(Q) - 1 = n /\ Q[Len(Q)] = r
  BY <1>5, <1>7, <1>8, AppendWord
<1>10. PICK zs : WordTable(Append(P, r), zs) /\ zs[Len(P)] = ws[Len(P)]
  BY <1>1, <1>4, <1>5, TableGrows
<1>11. Laid(blocks', config_stack', last_token_type', ws[n])
  BY <1>1, <1>4, <1>8 DEF Reading, tree
<1>12. token_type' = t /\ token' = v /\ t # NONE /\ parsed' = "parsing"
  BY FilesAssumption DEF Found
<1>13. Reading(zs)'
  BY <1>5, <1>6, <1>8, <1>9, <1>10, <1>11, <1>12 DEF Reading
<1> QED
  BY <1>6, <1>7, <1>10, <1>12, <1>13 DEF TextInv, TreeFaithful

(* What the words are when the last token is taken. *)
LEMMA LastWord ==
  ASSUME printed \in Seq(Piece), printed # <<>>, NEW ws, WordTable(printed, ws)
  PROVE  ws[Len(printed)] =
           IF printed[Len(printed)].type \in {"comment", "eof"} THEN ws[Len(printed) - 1]
           ELSE Append(ws[Len(printed) - 1], printed[Len(printed)].value)
<1>1. PICK n \in Nat : n = Len(printed)
  OBVIOUS
<1>2. n # 0 /\ n \in 0..n
  BY <1>1
<1>3. ws[n] = WordRule(printed, ws, n)
  BY <1>1, <1>2 DEF WordTable
<1> QED
  BY <1>1, <1>2, <1>3 DEF WordRule

Taken(w) == IF token_type \in {"comment", "eof"} THEN w ELSE Append(w, token)

Takes ==
  \A w : Laid(blocks, config_stack, last_token_type, w)
           => Laid(blocks', config_stack', last_token_type', Taken(w))

LEMMA TurnText ==
  ASSUME TextInv, parsed = "parsing", token_type # NONE, Turn, UNCHANGED printed,
         printed \in Seq(Piece), Takes
  PROVE  TextInv'
<1>1. PICK ws : WordTable(printed, ws) /\ Reading(ws)
  BY DEF TextInv
<1>2. /\ printed # <<>> /\ printed[Len(printed)].type = token_type
      /\ printed[Len(printed)].value = token
      /\ Laid(blocks, config_stack, last_token_type, ws[Len(printed) - 1])
  BY <1>1 DEF Reading
<1>3. ws[Len(printed)] = Taken(ws[Len(printed) - 1])
  BY <1>1, <1>2, LastWord DEF Taken
<1>4. Laid(blocks', config_stack', last_token_type', ws[Len(printed)])
  BY <1>2, <1>3 DEF Takes
<1>5. token_type' = NONE /\ parsed' = "parsing"
  BY DEF Turn
<1>6. Reading(ws)'
  BY <1>4, <1>5 DEF Reading
<1> QED
  BY <1>1, <1>5, <1>6 DEF TextInv, TreeFaithful

LEMMA TextSame == ASSUME UNCHANGED blocks PROVE ConfigToString' = ConfigToString
  BY DEF ConfigToString

LEMMA ReturnText ==
  ASSUME TextInv, NEW v, v \in {"valid", "invalid"}, Return(v), UNCHANGED printed,
         v = "valid" => ConfigToString = TokensRead
  PROVE  TextInv'
<1>1. PICK ws : WordTable(printed, ws)
  BY DEF TextInv
<1>2. parsed' = v /\ blocks' = blocks
  BY DEF Return, tree
<1>3. ConfigToString' = ConfigToString
  BY <1>2, TextSame
<1>4. printed' = printed /\ TokensRead' = TokensRead
  BY DEF TokensRead
<1>5. TreeFaithful'
  BY <1>2, <1>3, <1>4 DEF TreeFaithful
<1> QED
  BY <1>1, <1>2, <1>4, <1>5 DEF TextInv

LEMMA EofText ==
  ASSUME ParserInv, TextInv, parsed = "parsing", token_type = "eof", printed \in Seq(Piece),
         Len(config_stack) = 1, last_token_type # "normal"
  PROVE  ConfigToString = TokensRead
<1>0. token_type # NONE
  BY FilesAssumption DEF TokenType
<1>1. PICK ws : WordTable(printed, ws) /\ Reading(ws)
  BY DEF TextInv
<1>2. /\ printed # <<>> /\ printed[Len(printed)].type = "eof"
      /\ Laid(blocks, config_stack, last_token_type, ws[Len(printed) - 1])
  BY <1>0, <1>1 DEF Reading
<1>3. ws[Len(printed)] = ws[Len(printed) - 1]
  BY <1>1, <1>2, LastWord
<1>4. ConfigToString = ws[Len(printed) - 1]
  BY <1>2, LaidWhole
<1>5. TokensRead = ws[Len(printed)]
  BY <1>1, WordsAre
<1> QED
  BY <1>3, <1>4, <1>5

LEMMA ParseText == ASSUME ParserInv, ScanInv, TextInv, Parse PROVE TextInv'
<1>1. parsed = "parsing" /\ token_type \in TokenType /\ UNCHANGED printed
  BY DEF Parse, parse_error, parse_comment, parse_normal, parse_statement_end,
         parse_start_block, parse_end_block, parse_eof, Token, TokenType
<1>2. token_type # NONE /\ printed \in Seq(Piece)
  BY <1>1, FilesAssumption DEF ScanInv
<1>3. Punctuated(token_type, token)
  BY <1>1, <1>2 DEF TextInv, Reading
<1>4. ASSUME Break PROVE TextInv'
  BY <1>1, <1>4, ReturnText DEF Break
<1>5. CASE parse_error
  BY <1>4, <1>5 DEF parse_error
<1>6. CASE parse_comment
  <2>1. token_type = "comment" /\ Turn /\ UNCHANGED tree
    BY <1>6 DEF parse_comment, Token
  <2>2. Takes
    BY <2>1, CommentLaid DEF Takes, Taken
  <2> QED
    BY <1>1, <1>2, <2>1, <2>2, TurnText
<1>7. CASE parse_normal
  <2>1. token_type = "normal" /\ Turn
    BY <1>7 DEF parse_normal, Token
  <2>2. Takes
    BY <1>7, <2>1, NormalLaid DEF Takes, Taken
  <2> QED
    BY <1>1, <1>2, <2>1, <2>2, TurnText
<1>8. CASE parse_statement_end
  <2>1. CASE last_token_type # "normal"
    BY <1>4, <1>8, <2>1 DEF parse_statement_end
  <2>2. CASE last_token_type = "normal"
    <3>1. /\ token_type = "statement_end" /\ last_token_type' = "statement_end" /\ Turn
          /\ UNCHANGED <<config_stack, blocks>>
      BY <1>8, <2>2 DEF parse_statement_end, Token
    <3>2. Semicolon(token)
      BY <1>3, <3>1 DEF Punctuated
    <3>3. Takes
      BY <2>2, <3>1, <3>2, StatementEndLaid DEF Takes, Taken
    <3> QED
      BY <1>1, <1>2, <3>1, <3>3, TurnText
  <2> QED
    BY <2>1, <2>2
<1>9. CASE parse_start_block
  <2>1. CASE last_token_type # "normal"
    BY <1>4, <1>9, <2>1 DEF parse_start_block
  <2>2. CASE last_token_type = "normal"
    <3>1. token_type = "start_block" /\ Turn
      BY <1>9, <2>2 DEF parse_start_block, Token
    <3>2. OpeningBrace(token)
      BY <1>3, <3>1 DEF Punctuated
    <3>3. Takes
      BY <1>9, <2>2, <3>1, <3>2, StartBlockLaid DEF Takes, Taken
    <3> QED
      BY <1>1, <1>2, <3>1, <3>3, TurnText
  <2> QED
    BY <2>1, <2>2
<1>10. CASE parse_end_block
  <2>0. open_block \in Int
    BY DEF ParserInv, ParserTypes
  <2>1. CASE ~(EndsBlock /\ open_block >= 1)
    BY <1>4, <1>10, <2>1 DEF parse_end_block
  <2>2. CASE EndsBlock /\ open_block >= 1
    <3>1. token_type = "end_block" /\ Turn
      BY <1>10, <2>0, <2>2 DEF parse_end_block, Token
    <3>2. ClosingBrace(token)
      BY <1>3, <3>1 DEF Punctuated
    <3>3. Takes
      BY <1>10, <2>2, <3>1, <3>2, EndBlockLaid DEF Takes, Taken
    <3> QED
      BY <1>1, <1>2, <3>1, <3>3, TurnText
  <2> QED
    BY <2>1, <2>2
<1>11. CASE parse_eof
  <2>1. token_type = "eof"
    BY <1>11 DEF parse_eof, Token
  <2>2. \/ Return("invalid")
        \/ Return("valid") /\ Len(config_stack) = 1 /\ last_token_type # "normal"
    BY <1>11 DEF parse_eof, Break
  <2>3. CASE Return("invalid")
    BY <1>1, <2>3, ReturnText
  <2>4. CASE Return("valid") /\ Len(config_stack) = 1 /\ last_token_type # "normal"
    <3>1. ConfigToString = TokensRead
      BY <1>1, <1>2, <2>1, <2>4, EofText
    <3> QED
      BY <1>1, <2>4, <3>1, ReturnText
  <2> QED
    BY <2>2, <2>3, <2>4
<1> QED
  BY <1>5, <1>6, <1>7, <1>8, <1>9, <1>10, <1>11 DEF Parse

(* A step that leaves the tree, and what is printed, alone. *)
LEMMA TextAlone ==
  ASSUME TextInv, UNCHANGED <<printed, tree>>, parsed' \in {parsed, "parsing", "invalid"},
         parsed' = "parsing" => parsed \in {"unopened", "parsing"},
         \/ UNCHANGED <<token_type, token>>
         \/ token_type = NONE /\ token_type' = NONE
  PROVE  TextInv'
<1>1. PICK ws : WordTable(printed, ws) /\ (parsed \in {"unopened", "parsing"} => Reading(ws))
  BY DEF TextInv
<1>2. Reading(ws)' <=> Reading(ws)
  BY DEF Reading, tree
<1>3. ConfigToString' = ConfigToString /\ TokensRead' = TokensRead
  BY TextSame DEF TokensRead, tree
<1> QED
  BY <1>1, <1>2, <1>3 DEF TextInv, TreeFaithful

LEMMA TextInvStep == ASSUME ParserInv, ScanInv, TextInv, ParserNext PROVE TextInv'
<1>1. CASE open_file
  <2>1. /\ parsed = "unopened" /\ parsed' \in {"parsing", "invalid"}
        /\ UNCHANGED <<printed, token_type, token, tree>>
    BY <1>1 DEF open_file, scanner
  <2> QED
    BY <2>1, TextAlone
<1>2. CASE ParseToken
  <2>1. parsed = "parsing" /\ token_type = NONE /\ UNCHANGED <<tree, parsed>>
    BY <1>2 DEF ParseToken, initial_whitespace, comment, normal, end_of_file, quote, Getting, Scanning
  <2>2. \/ \E s, v : Continue(s, v)
        \/ unit \in DOMAIN Punctuation /\ Found(Punctuation[unit], <<unit>>, pos)
        \/ \E t \in {"normal", "comment", "error", "eof"} : \E v, e : Found(t, v, e)
    BY <1>2 DEF ParseToken, initial_whitespace, comment, normal, end_of_file, quote
  <2>3. ASSUME NEW s, NEW v, Continue(s, v) PROVE TextInv'
    BY <2>1, <2>3, TextAlone DEF Continue
  <2>4. CASE unit \in DOMAIN Punctuation /\ Found(Punctuation[unit], <<unit>>, pos)
    <3>1. Punctuated(Punctuation[unit], <<unit>>)
      BY <2>4, PunctuationIs
    <3>2. Punctuation[unit] \in TokenType
      BY <2>4 DEF Punctuation, TokenType
    <3> QED
      BY <2>1, <2>4, <3>1, <3>2, FoundText DEF ScanInv
  <2>5. ASSUME NEW t \in {"normal", "comment", "error", "eof"}, NEW v, NEW e, Found(t, v, e)
        PROVE  TextInv'
    <3>1. t \in TokenType /\ Punctuated(t, v)
      BY DEF TokenType, Punctuated
    <3> QED
      BY <2>1, <2>5, <3>1, FoundText DEF ScanInv
  <2> QED
    BY <2>2, <2>3, <2>4, <2>5
<1>3. CASE Parse
  BY <1>3, ParseText
<1> QED
  BY <1>1, <1>2, <1>3 DEF ParserNext
=============================================================================
