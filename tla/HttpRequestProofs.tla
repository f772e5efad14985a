-------------------------- MODULE HttpRequestProofs --------------------------
(***************************************************************************)
(* Proofs about HttpRequest, for requests of any length, with the lemmas   *)
(* about texts that they and the other proofs of the server need.          *)
(***************************************************************************)
EXTENDS HttpRequest, SequenceTheorems, WellFoundedInduction, TLAPS

(* A set of numbers has a least one. *)
LEMMA Least ==
  ASSUME NEW T \in SUBSET Nat, T # {}
  PROVE  \E x \in T : \A y \in T : x <= y
<1>1. PICK x \in T : \A y \in T : ~(<<y, x>> \in OpToRel(<, Nat))
  BY NatLessThanWellFounded, WFMin
<1>2. ASSUME NEW y \in T PROVE x <= y
  <2>1. ~(y < x)
    BY <1>1 DEF OpToRel
  <2> QED
    BY <2>1
<1> QED
  BY <1>2

(* find of std::string finds the first place, or none. *)
LEMMA FindFirst ==
  ASSUME NEW S, NEW s \in Seq(S), NEW u
  PROVE  /\ Find(s, u) \in 1..(Len(s) + 1)
         /\ Find(s, u) <= Len(s) => s[Find(s, u)] = u
         /\ \A j \in 1..(Find(s, u) - 1) : s[j] # u
<1> DEFINE T == {i \in 1..(Len(s) + 1) : i = Len(s) + 1 \/ s[i] = u}
<1>1. T \in SUBSET Nat /\ Len(s) + 1 \in T /\ Len(s) \in Nat
  OBVIOUS
<1>2. PICK i \in T : \A j \in T : i <= j
  BY <1>1, Least
<1>3. i \in 1..(Len(s) + 1) /\ (i <= Len(s) => s[i] = u)
  BY <1>1, <1>2
<1>4. ASSUME NEW j \in 1..(i - 1) PROVE s[j] # u
  <2>1. j \notin T /\ j \in 1..(Len(s) + 1)
    BY <1>1, <1>2, <1>3
  <2> QED
    BY <2>1
<1> HIDE DEF T
<1>5. \E k \in 1..(Len(s) + 1) :
        (k <= Len(s) => s[k] = u) /\ \A j \in 1..(k - 1) : s[j] # u
  BY <1>3, <1>4
<1> QED
  BY <1>5 DEF Find

(* Pieces of a text are texts. *)
LEMMA Pieces ==
  ASSUME NEW S, NEW s \in Seq(S), NEW m \in Nat \ {0}, NEW n \in 0..Len(s)
  PROVE  /\ SubSeq(s, m, n) \in Seq(S)
         /\ \A j \in DOMAIN SubSeq(s, m, n) :
              m + j - 1 \in m..n /\ SubSeq(s, m, n)[j] = s[m + j - 1]
  OBVIOUS

LEMMA UptoFirst ==
  ASSUME NEW S, NEW s \in Seq(S), NEW u
  PROVE  Upto(s, u) \in Seq(S) /\ \A j \in DOMAIN Upto(s, u) : Upto(s, u)[j] # u
<1> DEFINE f == Find(s, u)
<1>1. f \in 1..(Len(s) + 1) /\ \A j \in 1..(f - 1) : s[j] # u
  BY FindFirst
<1> HIDE DEF f
<1>2. f - 1 \in 0..Len(s) /\ Len(s) \in Nat
  BY <1>1
<1>3. /\ SubSeq(s, 1, f - 1) \in Seq(S)
      /\ \A j \in DOMAIN SubSeq(s, 1, f - 1) :
           1 + j - 1 \in 1..(f - 1) /\ SubSeq(s, 1, f - 1)[j] = s[1 + j - 1]
  BY <1>2, Pieces
<1> QED
  BY <1>1, <1>3 DEF Upto, f

LEMMA AfterType ==
  ASSUME NEW S, NEW s \in Seq(S), NEW u PROVE After(s, u) \in Seq(S)
<1>1. Find(s, u) + 1 \in Nat \ {0} /\ Len(s) \in 0..Len(s)
  BY FindFirst
<1> QED
  BY <1>1, Pieces DEF After, Drop

(* operator>> stays in the text: it skips nothing but blanks, and reads up *)
(* to a blank.                                                             *)
LEMMA StreamRange ==
  ASSUME NEW S, NEW s \in Seq(S), NEW p \in 1..(Len(s) + 1)
  PROVE  /\ Skip(s, p) \in p..(Len(s) + 1)
         /\ Skip(s, p) <= Len(s) => s[Skip(s, p)] \notin Blank
         /\ \A j \in p..(Skip(s, p) - 1) : s[j] \in Blank
         /\ Read(s, p) \in p..(Len(s) + 1)
         /\ Read(s, p) <= Len(s) => s[Read(s, p)] \in Blank
         /\ \A j \in p..(Read(s, p) - 1) : s[j] \notin Blank
<1>1. Len(s) \in Nat
  OBVIOUS
<1>2. /\ Skip(s, p) \in p..(Len(s) + 1)
      /\ Skip(s, p) <= Len(s) => s[Skip(s, p)] \notin Blank
      /\ \A j \in p..(Skip(s, p) - 1) : s[j] \in Blank
  <2> DEFINE T == {i \in p..(Len(s) + 1) : i = Len(s) + 1 \/ s[i] \notin Blank}
  <2>1. T \in SUBSET Nat /\ Len(s) + 1 \in T
    BY <1>1
  <2>2. PICK i \in T : \A j \in T : i <= j
    BY <2>1, Least
  <2>3. ASSUME NEW j \in p..(i - 1) PROVE s[j] \in Blank
    BY <1>1, <2>2
  <2>4. i \in p..(Len(s) + 1) /\ (i <= Len(s) => s[i] \notin Blank)
    BY <1>1
  <2> HIDE DEF T
  <2>5. \E k \in p..(Len(s) + 1) :
          (k <= Len(s) => s[k] \notin Blank) /\ \A j \in p..(k - 1) : s[j] \in Blank
    BY <2>3, <2>4
  <2> QED
    BY <2>5 DEF Skip
<1>3. /\ Read(s, p) \in p..(Len(s) + 1)
      /\ Read(s, p) <= Len(s) => s[Read(s, p)] \in Blank
      /\ \A j \in p..(Read(s, p) - 1) : s[j] \notin Blank
  <2> DEFINE T == {i \in p..(Len(s) + 1) : i = Len(s) + 1 \/ s[i] \in Blank}
  <2>1. T \in SUBSET Nat /\ Len(s) + 1 \in T
    BY <1>1
  <2>2. PICK i \in T : \A j \in T : i <= j
    BY <2>1, Least
  <2>3. ASSUME NEW j \in p..(i - 1) PROVE s[j] \notin Blank
    BY <1>1, <2>2
  <2>4. i \in p..(Len(s) + 1) /\ (i <= Len(s) => s[i] \in Blank)
    BY <1>1
  <2> HIDE DEF T
  <2>5. \E k \in p..(Len(s) + 1) :
          (k <= Len(s) => s[k] \in Blank) /\ \A j \in p..(k - 1) : s[j] \notin Blank
    BY <2>3, <2>4
  <2> QED
    BY <2>5 DEF Read
<1> QED
  BY <1>2, <1>3

(* What is left of a text. *)
LEMMA DropFacts ==
  ASSUME NEW S, NEW s \in Seq(S), NEW p \in 0..Len(s)
  PROVE  /\ Drop(s, p) \in Seq(S) /\ Len(Drop(s, p)) = Len(s) - p
         /\ \A j \in 1..(Len(s) - p) : Drop(s, p)[j] = s[p + j]
  BY DEF Drop

LEMMA DropAll == ASSUME NEW S, NEW s \in Seq(S), NEW p \in Nat, p >= Len(s)
                 PROVE  Drop(s, p) = <<>>
<1>1. Drop(s, p) \in Seq(S) /\ Len(Drop(s, p)) = 0
  BY DEF Drop
<1> QED
  BY <1>1

LEMMA FindNothing == ASSUME NEW u PROVE Find(<<>>, u) = 1
<1>1. <<>> \in Seq({u}) /\ Len(<<>>) = 0
  OBVIOUS
<1>2. Find(<<>>, u) \in 1..(Len(<<>>) + 1)
  BY <1>1, FindFirst
<1> QED
  BY <1>1, <1>2

(* A piece of what is left is a piece of the text. *)
LEMMA PieceOfRest ==
  ASSUME NEW S, NEW s \in Seq(S), NEW p \in 0..Len(s), NEW n \in 0..(Len(s) - p)
  PROVE  SubSeq(Drop(s, p), 1, n) = SubSeq(s, p + 1, p + n)
<1> DEFINE r == Drop(s, p)
<1>1. r \in Seq(S) /\ Len(r) = Len(s) - p /\ \A j \in 1..(Len(s) - p) : r[j] = s[p + j]
  BY DropFacts
<1> HIDE DEF r
<1>2. /\ SubSeq(r, 1, n) \in Seq(S) /\ Len(SubSeq(r, 1, n)) = n
      /\ \A i \in 1..n : SubSeq(r, 1, n)[i] = r[i]
  BY <1>1
<1>3. /\ SubSeq(s, p + 1, p + n) \in Seq(S) /\ Len(SubSeq(s, p + 1, p + n)) = n
      /\ \A i \in 1..n : SubSeq(s, p + 1, p + n)[i] = s[p + i]
  <2>1. p + 1 \in Nat \ {0} /\ p + n \in 0..Len(s) /\ Len(s) \in Nat
    OBVIOUS
  <2>2. Len(SubSeq(s, p + 1, p + n)) = n
    BY <2>1
  <2>3. ASSUME NEW i \in 1..n PROVE SubSeq(s, p + 1, p + n)[i] = s[p + i]
    <3>1. i \in DOMAIN SubSeq(s, p + 1, p + n) /\ p + 1 + i - 1 = p + i
      BY <2>1, <2>2
    <3> QED
      BY <2>1, <3>1, Pieces
  <2> QED
    BY <2>1, <2>2, <2>3, Pieces
<1>4. \A i \in 1..n : SubSeq(r, 1, n)[i] = SubSeq(s, p + 1, p + n)[i]
  BY <1>1, <1>2, <1>3
<1>5. SubSeq(r, 1, n) = SubSeq(s, p + 1, p + n)
  BY <1>2, <1>3, <1>4, SeqEqual
<1> QED
  BY <1>5 DEF r

LEMMA RestOfRest ==
  ASSUME NEW S, NEW s \in Seq(S), NEW p \in 0..Len(s), NEW n \in 0..(Len(s) - p + 1)
  PROVE  Drop(Drop(s, p), n) = Drop(s, p + n)
<1> DEFINE r == Drop(s, p)
<1>1. r \in Seq(S) /\ Len(r) = Len(s) - p /\ \A j \in 1..(Len(s) - p) : r[j] = s[p + j]
  BY DropFacts
<1> HIDE DEF r
<1>2. CASE n = Len(s) - p + 1
  <2>1. n \in Nat /\ n >= Len(r) /\ p + n \in Nat /\ p + n >= Len(s)
    BY <1>1, <1>2
  <2> QED
    BY <1>1, <2>1, DropAll DEF r
<1>3. CASE n # Len(s) - p + 1
  <2>1. n \in 0..Len(r) /\ p + n \in 0..Len(s) /\ Len(r) - n = Len(s) - (p + n)
    BY <1>1, <1>3
  <2>2. /\ Drop(r, n) \in Seq(S) /\ Len(Drop(r, n)) = Len(r) - n
        /\ \A j \in 1..(Len(r) - n) : Drop(r, n)[j] = r[n + j]
    BY <1>1, <2>1, DropFacts
  <2>3. /\ Drop(s, p + n) \in Seq(S) /\ Len(Drop(s, p + n)) = Len(s) - (p + n)
        /\ \A j \in 1..(Len(s) - (p + n)) : Drop(s, p + n)[j] = s[p + n + j]
    BY <2>1, DropFacts
  <2>4. ASSUME NEW j \in 1..(Len(r) - n) PROVE Drop(r, n)[j] = Drop(s, p + n)[j]
    <3>1. n + j \in 1..(Len(s) - p) /\ p + (n + j) = p + n + j
      BY <1>1, <2>1
    <3>2. r[n + j] = s[p + (n + j)]
      BY <1>1, <3>1
    <3> QED
      BY <2>1, <2>2, <2>3, <3>1, <3>2
  <2>5. Drop(r, n) = Drop(s, p + n)
    <3> HIDE DEF Drop
    <3> QED
      BY <2>1, <2>2, <2>3, <2>4, SeqEqual
  <2> QED
    BY <2>5 DEF r
<1> QED
  BY <1>2, <1>3

(***************************************************************************)
(* The loops with getline: after a separator, or at the beginning, the     *)
(* next piece of the text is read.                                         *)
(***************************************************************************)
Broken(s, u, p) == p \in 0..(Len(s) + 1) /\ (p = 0 \/ p = Len(s) + 1 \/ s[p] = u)

LEMMA NextCut ==
  ASSUME NEW S, NEW s \in Seq(S), NEW u, NEW p, Broken(s, u, p), p <= Len(s),
         NEW f, f = Find(Drop(s, p), u)
  PROVE  /\ f \in 1..(Len(s) - p + 1) /\ Broken(s, u, p + f)
         /\ Upto(Drop(s, p), u) = Cut(s, <<p + 1, p + f - 1>>)
         /\ After(Drop(s, p), u) = Drop(s, p + f)
         /\ <<p + 1, p + f - 1>> \in Cuts(s, u)
         /\ \A y \in Cuts(s, u) : y[1] <= p \/ y = <<p + 1, p + f - 1>> \/ y[1] > p + f
<1> DEFINE r == Drop(s, p)
<1>1. Len(s) \in Nat /\ p \in 0..Len(s) /\ (p = 0 \/ s[p] = u)
  BY DEF Broken
<1>2. r \in Seq(S) /\ Len(r) = Len(s) - p /\ \A j \in 1..(Len(s) - p) : r[j] = s[p + j]
  BY <1>1, DropFacts
<1>3. /\ f \in 1..(Len(r) + 1) /\ (f <= Len(r) => r[f] = u)
      /\ \A j \in 1..(f - 1) : r[j] # u
  BY <1>2, FindFirst
<1>4. Upto(r, u) = SubSeq(r, 1, f - 1) /\ After(r, u) = Drop(r, f)
  BY DEF Upto, After
<1> HIDE DEF r
<1>5. f \in 1..(Len(s) - p + 1) /\ f - 1 \in 0..(Len(s) - p) /\ p + (f - 1) = p + f - 1
  BY <1>1, <1>2, <1>3
<1>6. p + f \in 0..(Len(s) + 1) /\ (p + f = Len(s) + 1 \/ s[p + f] = u)
  <2>1. p + f \in 0..(Len(s) + 1)
    BY <1>1, <1>5
  <2>2. CASE f <= Len(r)
    <3>1. f \in 1..(Len(s) - p)
      BY <1>1, <1>2, <1>5, <2>2
    <3> QED
      BY <1>2, <1>3, <2>1, <2>2, <3>1
  <2>3. CASE ~(f <= Len(r))
    BY <1>1, <1>2, <1>5, <2>1, <2>3
  <2> QED
    BY <2>2, <2>3
<1>7. \A k \in (p + 1)..(p + f - 1) : s[k] # u
  <2> SUFFICES ASSUME NEW k \in (p + 1)..(p + f - 1) PROVE s[k] # u
    OBVIOUS
  <2>1. k - p \in 1..(f - 1) /\ k - p \in 1..(Len(s) - p) /\ p + (k - p) = k
    BY <1>1, <1>5
  <2> QED
    BY <1>2, <1>3, <2>1
<1>8. Upto(r, u) = Cut(s, <<p + 1, p + f - 1>>)
  <2>1. SubSeq(r, 1, f - 1) = SubSeq(s, p + 1, p + (f - 1))
    BY <1>1, <1>5, PieceOfRest DEF r
  <2> QED
    BY <1>4, <1>5, <2>1 DEF Cut
<1>9. After(r, u) = Drop(s, p + f)
  BY <1>1, <1>4, <1>5, RestOfRest DEF r
<1>10. <<p + 1, p + f - 1>> \in Cuts(s, u)
  <2> DEFINE x == <<p + 1, p + f - 1>>
  <2>1. x[1] = p + 1 /\ x[2] = p + f - 1 /\ x \in (1..(Len(s) + 1)) \X (0..Len(s))
    BY <1>1, <1>5
  <2> HIDE DEF x
  <2>2. x[1] <= x[2] + 1 /\ (x[1] = 1 \/ s[x[1] - 1] = u) /\ (x[2] = Len(s) \/ s[x[2] + 1] = u)
    <3>1. x[1] <= x[2] + 1 /\ x[1] - 1 = p /\ x[2] + 1 = p + f
      BY <1>1, <1>5, <2>1
    <3>2. x[2] = Len(s) \/ s[x[2] + 1] = u
      BY <1>1, <1>5, <1>6, <2>1, <3>1
    <3>3. x[1] = 1 \/ s[x[1] - 1] = u
      BY <1>1, <2>1, <3>1
    <3> QED
      BY <3>1, <3>2, <3>3
  <2>3. \A k \in x[1]..x[2] : s[k] # u
    BY <1>7, <2>1
  <2>4. x \in Cuts(s, u)
    BY <2>1, <2>2, <2>3 DEF Cuts
  <2> QED
    BY <2>4 DEF x
<1>11. ASSUME NEW y \in Cuts(s, u), y[1] > p, y[1] <= p + f
       PROVE  y = <<p + 1, p + f - 1>>
  <2>1. PICK a \in 1..(Len(s) + 1), b \in 0..Len(s) : y = <<a, b>>
    BY DEF Cuts
  <2>2. /\ a > p /\ a <= p + f /\ a <= b + 1 /\ (a = 1 \/ s[a - 1] = u)
        /\ (b = Len(s) \/ s[b + 1] = u) /\ \A k \in a..b : s[k] # u
    BY <1>11, <2>1 DEF Cuts
  <2>3. ASSUME a # p + 1 PROVE FALSE
    <3>1. a - 1 \in (p + 1)..(p + f - 1) /\ a # 1
      BY <1>1, <1>5, <2>2, <2>3
    <3> QED
      BY <1>7, <2>2, <3>1
  <2>4. ASSUME b < p + f - 1 PROVE FALSE
    <3>1. b + 1 \in (p + 1)..(p + f - 1) /\ b # Len(s)
      BY <1>1, <1>5, <2>2, <2>3, <2>4
    <3> QED
      BY <1>7, <2>2, <3>1
  <2>5. ASSUME b > p + f - 1 PROVE FALSE
    <3>1. p + f \in a..b /\ p + f # Len(s) + 1
      BY <1>1, <1>5, <2>2, <2>3, <2>5
    <3> QED
      BY <1>6, <2>2, <3>1
  <2>6. a = p + 1 /\ b = p + f - 1
    BY <1>1, <1>5, <2>3, <2>4, <2>5
  <2> QED
    BY <2>1, <2>6
<1>12. ASSUME NEW y \in Cuts(s, u)
       PROVE  y[1] <= p \/ y = <<p + 1, p + f - 1>> \/ y[1] > p + f
  <2>1. y[1] \in Int
    BY DEF Cuts
  <2>2. y[1] <= p \/ y[1] > p + f \/ (y[1] > p /\ y[1] <= p + f)
    BY <1>1, <1>5, <2>1
  <2> QED
    BY <1>11, <2>2
<1>13. Broken(s, u, p + f)
  BY <1>6 DEF Broken
<1> QED
  BY <1>5, <1>8, <1>9, <1>10, <1>12, <1>13 DEF r

(* When nothing is left, all pieces have been read but for an empty one. *)
LEMMA LastCut ==
  ASSUME NEW S, NEW s \in Seq(S), NEW u, NEW p \in 0..(Len(s) + 1), Drop(s, p) = <<>>
  PROVE  p >= Len(s) /\ \A y \in Cuts(s, u) : y[1] <= p \/ Cut(s, y) = <<>>
<1>1. p >= Len(s)
  BY DropFacts
<1>2. ASSUME NEW y \in Cuts(s, u), ~(y[1] <= p) PROVE Cut(s, y) = <<>>
  <2>1. /\ y[1] \in 1..(Len(s) + 1) /\ y[2] \in 0..Len(s)
    BY DEF Cuts
  <2>2. y[1] > y[2]
    BY <1>1, <1>2, <2>1
  <2>3. Cut(s, y) \in Seq(S) /\ Len(Cut(s, y)) = 0
    BY <2>1, <2>2 DEF Cut
  <2> QED
    BY <2>3
<1> QED
  BY <1>1, <1>2
-----------------------------------------------------------------------------
(***************************************************************************)
(* The request line: operator>> reads the words of the text in order.      *)
(***************************************************************************)
LEMMA NextWord ==
  ASSUME NEW S, NEW s \in Seq(S), NEW q \in 1..(Len(s) + 1), q = 1 \/ q = Len(s) + 1 \/ s[q] \in Blank,
         NEW i, i = Skip(s, q), NEW e, e = Read(s, i)
  PROVE  /\ i \in q..(Len(s) + 1) /\ e \in i..(Len(s) + 1)
         /\ e = 1 \/ e = Len(s) + 1 \/ s[e] \in Blank
         /\ i > Len(s) => \A w \in Words(s) : w[1] < q
         /\ i <= Len(s) => /\ e > i /\ <<i, e - 1>> \in Words(s)
                           /\ \A w \in Words(s) : w[1] < q \/ w = <<i, e - 1>> \/ w[1] >= e
<1>1. /\ Len(s) \in Nat /\ i \in q..(Len(s) + 1) /\ (i <= Len(s) => s[i] \notin Blank)
      /\ \A j \in q..(i - 1) : s[j] \in Blank
  <2>1. Len(s) \in Nat
    OBVIOUS
  <2> QED
    BY <2>1, StreamRange
<1>2. i \in 1..(Len(s) + 1)
  BY <1>1
<1>3. /\ e \in i..(Len(s) + 1) /\ (e <= Len(s) => s[e] \in Blank)
      /\ \A j \in i..(e - 1) : s[j] \notin Blank
  BY <1>2, StreamRange
<1>4. e = Len(s) + 1 \/ s[e] \in Blank
  BY <1>1, <1>2, <1>3
<1>5. ASSUME NEW w \in Words(s), ~(w[1] < q) PROVE ~(w[1] < i)
  <2>1. w[1] \in 1..Len(s) /\ w[1] \in w[1]..w[2]
    BY DEF Words
  <2>2. s[w[1]] \notin Blank
    BY <2>1 DEF Words
  <2>3. SUFFICES ASSUME w[1] < i PROVE FALSE
    OBVIOUS
  <2>4. w[1] \in q..(i - 1)
    BY <1>1, <1>5, <2>1, <2>3
  <2> QED
    BY <1>1, <2>2, <2>4
<1>6. ASSUME i > Len(s), NEW w \in Words(s) PROVE w[1] < q
  <2>1. w[1] \in 1..Len(s)
    BY DEF Words
  <2> QED
    BY <1>1, <1>5, <1>6, <2>1
<1>7. ASSUME i <= Len(s) PROVE e > i
  <2>1. e # i
    BY <1>1, <1>3, <1>7
  <2> QED
    BY <1>2, <1>3, <2>1
<1>8. ASSUME i <= Len(s) PROVE <<i, e - 1>> \in Words(s)
  <2> DEFINE x == <<i, e - 1>>
  <2>1. x[1] = i /\ x[2] = e - 1 /\ x \in (DOMAIN s) \X (DOMAIN s)
    BY <1>2, <1>3, <1>7, <1>8
  <2>2. i = 1 \/ s[i - 1] \in Blank
    <3>1. CASE i = q
      BY <1>1, <1>2, <1>8, <3>1
    <3>2. CASE i # q
      <4>1. i - 1 \in q..(i - 1)
        BY <1>1, <3>2
      <4> QED
        BY <1>1, <4>1
    <3> QED
      BY <3>1, <3>2
  <2>3. e - 1 = Len(s) \/ s[(e - 1) + 1] \in Blank
    <3>1. (e - 1) + 1 = e /\ (e = Len(s) + 1 => e - 1 = Len(s))
      BY <1>1, <1>3
    <3> QED
      BY <1>4, <3>1
  <2> HIDE DEF x
  <2>4. x \in Words(s)
    BY <1>2, <1>3, <1>7, <1>8, <2>1, <2>2, <2>3 DEF Words
  <2> QED
    BY <2>4 DEF x
<1>9. ASSUME i <= Len(s), NEW w \in Words(s), ~(w[1] < q), ~(w[1] >= e) PROVE w = <<i, e - 1>>
  <2>1. PICK a \in 1..Len(s), b \in 1..Len(s) : w = <<a, b>>
    BY DEF Words
  <2>2. /\ ~(a < q) /\ ~(a >= e) /\ ~(a < i) /\ a <= b /\ (a = 1 \/ s[a - 1] \in Blank)
        /\ (b = Len(s) \/ s[b + 1] \in Blank) /\ \A k \in a..b : s[k] \notin Blank
    BY <1>5, <1>9, <2>1 DEF Words
  <2>3. ASSUME a # i PROVE FALSE
    <3>1. a - 1 \in i..(e - 1) /\ a # 1
      BY <1>2, <1>3, <2>2, <2>3
    <3> QED
      BY <1>3, <2>2, <3>1
  <2>4. ASSUME b < e - 1 PROVE FALSE
    <3>1. b + 1 \in i..(e - 1) /\ b # Len(s)
      <4>1. Len(s) \in Nat /\ i \in Nat /\ e \in Nat /\ e <= Len(s) + 1
        BY <1>1, <1>2, <1>3
      <4>2. a = i /\ a <= b
        BY <2>2, <2>3
      <4> QED
        BY <2>4, <4>1, <4>2
    <3> QED
      BY <1>3, <2>2, <3>1
  <2>5. ASSUME b > e - 1 PROVE FALSE
    <3>1. e \in a..b /\ e <= Len(s)
      BY <1>2, <1>3, <2>2, <2>3, <2>5
    <3> QED
      BY <1>3, <2>2, <3>1
  <2>6. a = i /\ b = e - 1
    BY <1>2, <1>3, <2>3, <2>4, <2>5
  <2> QED
    BY <2>1, <2>6
<1>10. ASSUME i <= Len(s), NEW w \in Words(s) PROVE w[1] < q \/ w = <<i, e - 1>> \/ w[1] >= e
  BY <1>9, <1>10
<1> QED
  BY <1>1, <1>3, <1>4, <1>6, <1>7, <1>8, <1>10

(* The words of a text up to the third. *)
LEMMA ThreeWords ==
  ASSUME NEW S, NEW s \in Seq(S),
         NEW m, m = Skip(s, 1), NEW p, p = Skip(s, Read(s, m)), NEW v, v = Skip(s, Read(s, p))
  PROVE  /\ v \in 1..(Len(s) + 1)
         /\ v <= Len(s) =>
              FirstWords(s, <<m, Read(s, m) - 1>>, <<p, Read(s, p) - 1>>, <<v, Read(s, v) - 1>>)
         /\ v > Len(s) => ~ \E a, b, c \in Words(s) : FirstWords(s, a, b, c)
<1>1. PICK e1, e2, e3 : e1 = Read(s, m) /\ e2 = Read(s, p) /\ e3 = Read(s, v)
  OBVIOUS
<1> DEFINE M == <<m, e1 - 1>>
           P == <<p, e2 - 1>>
           V == <<v, e3 - 1>>
<1>0. Len(s) \in Nat /\ 1 \in 1..(Len(s) + 1) /\ \A w \in Words(s) : w[1] \in 1..Len(s)
  BY DEF Words
<1>2. /\ m \in 1..(Len(s) + 1) /\ e1 \in m..(Len(s) + 1)
      /\ e1 = 1 \/ e1 = Len(s) + 1 \/ s[e1] \in Blank
      /\ m > Len(s) => \A w \in Words(s) : w[1] < 1
      /\ m <= Len(s) => /\ e1 > m /\ M \in Words(s)
                        /\ \A w \in Words(s) : w[1] < 1 \/ w = M \/ w[1] >= e1
  BY <1>0, <1>1, NextWord
<1>3. e1 \in 1..(Len(s) + 1)
  BY <1>0, <1>2
<1>4. /\ p \in e1..(Len(s) + 1) /\ e2 \in p..(Len(s) + 1)
      /\ e2 = 1 \/ e2 = Len(s) + 1 \/ s[e2] \in Blank
      /\ p > Len(s) => \A w \in Words(s) : w[1] < e1
      /\ p <= Len(s) => /\ e2 > p /\ P \in Words(s)
                        /\ \A w \in Words(s) : w[1] < e1 \/ w = P \/ w[1] >= e2
  BY <1>1, <1>2, <1>3, NextWord
<1>5. e2 \in 1..(Len(s) + 1)
  BY <1>0, <1>3, <1>4
<1>6. /\ v \in e2..(Len(s) + 1) /\ e3 \in v..(Len(s) + 1)
      /\ v > Len(s) => \A w \in Words(s) : w[1] < e2
      /\ v <= Len(s) => /\ e3 > v /\ V \in Words(s)
                        /\ \A w \in Words(s) : w[1] < e2 \/ w = V \/ w[1] >= e3
  BY <1>1, <1>4, <1>5, NextWord
<1>7. M[1] = m /\ P[1] = p /\ V[1] = v
  OBVIOUS
<1> HIDE DEF M, P, V
<1>8. ASSUME v <= Len(s) PROVE FirstWords(s, M, P, V)
  <2>1. m <= Len(s) /\ p <= Len(s) /\ m < p /\ p < v
    BY <1>0, <1>2, <1>3, <1>4, <1>5, <1>6, <1>8
  <2>2. ASSUME NEW w \in Words(s), w[1] < v PROVE w \in {M, P}
    <3>1. w[1] \in 1..Len(s) /\ ~(w[1] < 1) /\ ~(w[1] >= e3)
      BY <1>0, <1>6, <1>8, <2>2
    <3>2. w[1] < e2
      BY <1>6, <1>7, <1>8, <2>2, <3>1
    <3>3. w[1] < e1 \/ w = P
      <4>1. ~(w[1] >= e2)
        BY <1>5, <3>1, <3>2
      <4> QED
        BY <1>4, <2>1, <4>1
    <3>4. w[1] < e1 => w = M
      <4>1. w[1] < e1 => ~(w[1] >= e1)
        BY <1>3, <3>1
      <4> QED
        BY <1>2, <2>1, <3>1, <4>1
    <3> QED
      BY <3>3, <3>4
  <2> QED
    BY <1>2, <1>4, <1>6, <1>7, <1>8, <2>1, <2>2 DEF FirstWords
<1>9. ASSUME v > Len(s), NEW a \in Words(s), NEW b \in Words(s), NEW c \in Words(s), FirstWords(s, a, b, c)
      PROVE  FALSE
  <2>1. /\ a[1] \in 1..Len(s) /\ b[1] \in 1..Len(s) /\ c[1] \in 1..Len(s)
        /\ a[1] < b[1] /\ b[1] < c[1]
    BY <1>0, <1>9 DEF FirstWords
  <2>2. ASSUME NEW w \in Words(s) PROVE w[1] = m \/ w[1] = p
    <3>1. w[1] \in 1..Len(s) /\ w[1] < e2
      BY <1>0, <1>6, <1>9
    <3>2. w[1] < e1 \/ w = P
      <4>1. CASE p <= Len(s)
        BY <1>4, <1>5, <3>1, <4>1
      <4>2. CASE p > Len(s)
        BY <1>4, <4>2
      <4> QED
        BY <1>0, <1>3, <1>4, <4>1, <4>2
    <3>3. w[1] < e1 => w = M
      <4>1. CASE m <= Len(s)
        BY <1>2, <1>3, <3>1, <4>1
      <4>2. CASE m > Len(s)
        BY <1>2, <3>1, <4>2
      <4> QED
        BY <1>0, <1>2, <4>1, <4>2
    <3> QED
      BY <1>7, <3>2, <3>3
  <2>3. (a[1] = m \/ a[1] = p) /\ (b[1] = m \/ b[1] = p) /\ (c[1] = m \/ c[1] = p)
    BY <2>2
  <2> QED
    BY <2>1, <2>3
<1>10. v \in 1..(Len(s) + 1)
  BY <1>0, <1>5, <1>6
<1> QED
  BY <1>1, <1>8, <1>9, <1>10 DEF M, P, V
-----------------------------------------------------------------------------
(***************************************************************************)
(* The maps: a piece that is read after others.                            *)
(***************************************************************************)
LEMMA LastWinsNothing == ASSUME NEW c, NEW sign, NEW v PROVE LastWins(<<>>, {}, c, sign, v)
  BY DEF LastWins

(* A piece without the sign changes nothing. *)
LEMMA LastWinsSkip ==
  ASSUME NEW m, NEW X, NEW Y, NEW c, NEW sign, NEW v, LastWins(m, X, c, sign, v), X \subseteq Y,
         \A y \in Y \ X : ~(Find(c[y], sign) <= Len(c[y]))
  PROVE  LastWins(m, Y, c, sign, v)
<1>1. {x \in Y : Find(c[x], sign) <= Len(c[x])} = {x \in X : Find(c[x], sign) <= Len(c[x])}
  OBVIOUS
<1> QED
  BY <1>1 DEF LastWins

(* A piece with the sign sets its key. *)
LEMMA LastWinsSet ==
  ASSUME NEW m, NEW X, NEW z, NEW c, NEW sign, NEW v, LastWins(m, X, c, sign, v),
         z[1] \in Int, \A x \in X : x[1] \in Int /\ x[1] < z[1],
         Find(c[z], sign) <= Len(c[z])
  PROVE  LastWins(Assign(m, Upto(c[z], sign), v[z]), X \cup {z}, c, sign, v)
<1> DEFINE K(x) == Upto(c[x], sign)
           sets == {x \in X : Find(c[x], sign) <= Len(c[x])}
           setz == {x \in X \cup {z} : Find(c[x], sign) <= Len(c[x])}
           n == Assign(m, K(z), v[z])
<1>1. setz = sets \cup {z} /\ \A x \in sets : x[1] \in Int /\ x[1] < z[1]
  OBVIOUS
<1>2. /\ DOMAIN m = {K(x) : x \in sets}
      /\ \A x \in sets : (\A y \in sets : K(y) = K(x) => y[1] <= x[1]) => m[K(x)] = v[x]
  BY DEF LastWins
<1>3. /\ DOMAIN n = DOMAIN m \cup {K(z)} /\ n[K(z)] = v[z]
      /\ \A k \in DOMAIN m : k # K(z) => n[k] = m[k]
  BY DEF Assign
<1> HIDE DEF n, sets, setz
<1>4. DOMAIN n = {K(x) : x \in setz}
  BY <1>1, <1>2, <1>3
<1>5. ASSUME NEW x \in setz, \A y \in setz : K(y) = K(x) => y[1] <= x[1] PROVE n[K(x)] = v[x]
  <2>1. CASE x = z
    BY <1>3, <2>1
  <2>2. CASE x # z
    <3>1. x \in sets /\ x[1] \in Int /\ x[1] < z[1] /\ z \in setz
      BY <1>1, <2>2
    <3>2. K(z) # K(x)
      BY <1>5, <3>1
    <3>3. \A y \in sets : K(y) = K(x) => y[1] <= x[1]
      BY <1>1, <1>5
    <3>4. m[K(x)] = v[x] /\ K(x) \in DOMAIN m
      BY <1>2, <3>1, <3>3
    <3> QED
      BY <1>3, <3>2, <3>4
  <2> QED
    BY <2>1, <2>2
<1> QED
  BY <1>4, <1>5 DEF LastWins, n, setz
-----------------------------------------------------------------------------
(***************************************************************************)
(* The query: the pairs up to place p are in query_params_.                *)
(***************************************************************************)
PairTexts(q) == [x \in Cuts(q, "&") |-> Cut(q, x)]
PairValues(q) == [x \in Cuts(q, "&") |-> After(PairTexts(q)[x], "=")]

PairsRead(m, q, p) ==
  LastWins(m, {x \in Cuts(q, "&") : x[1] <= p}, PairTexts(q), "=", PairValues(q))

SetPair(m, pair) == IF Find(pair, "=") > Len(pair) THEN m
                    ELSE Assign(m, Upto(pair, "="), After(pair, "="))

LEMMA QueryBegins == ASSUME NEW q PROVE PairsRead(<<>>, q, 0)
<1>1. {x \in Cuts(q, "&") : x[1] <= 0} = {}
  BY DEF Cuts
<1> QED
  BY <1>1, LastWinsNothing DEF PairsRead

LEMMA QueryNext ==
  ASSUME NEW S, NEW q \in Seq(S), NEW p, Broken(q, "&", p), p <= Len(q), NEW m, PairsRead(m, q, p)
  PROVE  \E r : /\ Broken(q, "&", r) /\ After(Drop(q, p), "&") = Drop(q, r)
                /\ PairsRead(SetPair(m, Upto(Drop(q, p), "&")), q, r)
<1>1. PICK n, pair, z : /\ n = Find(Drop(q, p), "&") /\ pair = Upto(Drop(q, p), "&")
                        /\ z = <<p + 1, p + n - 1>>
  OBVIOUS
<1>2. /\ n \in 1..(Len(q) - p + 1) /\ Broken(q, "&", p + n) /\ pair = Cut(q, z)
      /\ After(Drop(q, p), "&") = Drop(q, p + n) /\ z \in Cuts(q, "&")
      /\ \A y \in Cuts(q, "&") : y[1] <= p \/ y = z \/ y[1] > p + n
  BY <1>1, NextCut
<1>3. p \in Nat /\ n \in Nat /\ z[1] = p + 1 /\ p + 1 <= p + n
  BY <1>1, <1>2 DEF Broken
<1>4. PICK X, Y : /\ X = {x \in Cuts(q, "&") : x[1] <= p} /\ Y = {x \in Cuts(q, "&") : x[1] <= p + n}
  OBVIOUS
<1>5. \A y \in Cuts(q, "&") : y[1] \in Int
  BY DEF Cuts
<1>6. Y = X \cup {z}
  BY <1>2, <1>3, <1>4, <1>5
<1>7. PICK c, v : c = PairTexts(q) /\ v = PairValues(q)
  OBVIOUS
<1>8. c[z] = pair /\ v[z] = After(pair, "=")
  BY <1>2, <1>7 DEF PairTexts, PairValues
<1>9. LastWins(m, X, c, "=", v)
  BY <1>4, <1>7 DEF PairsRead
<1>10. pair \in Seq(S)
  <2>1. z[1] \in Nat \ {0} /\ z[2] \in 0..Len(q)
    BY <1>2 DEF Cuts
  <2> QED
    BY <1>2, <2>1, Pieces DEF Cut
<1>11. LastWins(SetPair(m, pair), Y, c, "=", v)
  <2>1. Find(pair, "=") \in Int /\ Len(pair) \in Int
    BY <1>10, FindFirst
  <2>2. CASE Find(pair, "=") > Len(pair)
    <3>1. \A y \in Y \ X : ~(Find(c[y], "=") <= Len(c[y]))
      BY <1>6, <1>8, <2>1, <2>2
    <3>2. LastWins(m, Y, c, "=", v)
      BY <1>6, <1>9, <3>1, LastWinsSkip
    <3> QED
      BY <2>2, <3>2 DEF SetPair
  <2>3. CASE ~(Find(pair, "=") > Len(pair))
    <3>1. Find(c[z], "=") <= Len(c[z])
      BY <1>8, <2>1, <2>3
    <3>2. z[1] \in Int /\ \A x \in X : x[1] \in Int /\ x[1] < z[1]
      BY <1>3, <1>4, <1>5
    <3>3. LastWins(Assign(m, Upto(c[z], "="), v[z]), X \cup {z}, c, "=", v)
      BY <1>9, <3>1, <3>2, LastWinsSet
    <3> QED
      BY <1>6, <1>8, <2>3, <3>3 DEF SetPair
  <2> QED
    BY <2>2, <2>3
<1>12. PairsRead(SetPair(m, pair), q, p + n)
  BY <1>4, <1>7, <1>11 DEF PairsRead
<1> QED
  BY <1>1, <1>2, <1>12

LEMMA QueryDone ==
  ASSUME NEW S, NEW q \in Seq(S), NEW p, Broken(q, "&", p), Drop(q, p) = <<>>,
         NEW m, PairsRead(m, q, p)
  PROVE  LastWins(m, Cuts(q, "&"), PairTexts(q), "=", PairValues(q))
<1>1. PICK X, c, v : X = {x \in Cuts(q, "&") : x[1] <= p} /\ c = PairTexts(q) /\ v = PairValues(q)
  OBVIOUS
<1>2. LastWins(m, X, c, "=", v) /\ X \subseteq Cuts(q, "&")
  BY <1>1 DEF PairsRead
<1>3. ASSUME NEW y \in Cuts(q, "&") \ X PROVE ~(Find(c[y], "=") <= Len(c[y]))
  <2>1. Cut(q, y) = <<>>
    BY <1>1, <1>3, LastCut DEF Broken
  <2>2. c[y] = <<>>
    BY <1>1, <2>1 DEF PairTexts
  <2> QED
    BY <2>2, FindNothing
<1>4. LastWins(m, Cuts(q, "&"), c, "=", v)
  BY <1>2, <1>3, LastWinsSkip
<1> QED
  BY <1>1, <1>4
-----------------------------------------------------------------------------
(***************************************************************************)
(* The headers: the lines after the request line, up to place p, are in    *)
(* headers_, and none of them is empty.                                    *)
(***************************************************************************)
HeadersRead(hs, s, n, p) ==
  /\ LastWins(hs, {x \in LinesAfter(s, n) : x[1] <= p}, Lines(s), ":", Values(s))
  /\ \A x \in LinesAfter(s, n) : x[1] <= p => Lines(s)[x] # <<>>

HeadersAll(hs, s, n) ==
  LastWins(hs, {x \in LinesAfter(s, n) : \A y \in EmptyAfter(s, n) : x[1] < y[1]},
           Lines(s), ":", Values(s))

(* The body begins after place p. *)
BodyAt(s, n, p) ==
  \/ EmptyAfter(s, n) = {} /\ p \in Nat /\ p >= Len(s)
  \/ \E first \in EmptyAfter(s, n) :
       (\A y \in EmptyAfter(s, n) : first[1] <= y[1]) /\ p = first[2] + 1

Stripped(t) == IF t # <<>> /\ t[Len(t)] = "cr" THEN SubSeq(t, 1, Len(t) - 1) ELSE t

NextLine(s, p) == Stripped(Upto(Drop(s, p), "nl"))
NextPlace(s, p) == p + Find(Drop(s, p), "nl")

SetHeader(hs, t) == IF Find(t, ":") > Len(t) THEN hs
                    ELSE Assign(hs, Upto(t, ":"), Trim(After(t, ":"), Blank))

LEMMA StrippedType == ASSUME NEW S, NEW t \in Seq(S) PROVE Stripped(t) \in Seq(S)
<1>1. CASE t # <<>>
  <2>1. Len(t) - 1 \in 0..Len(t)
    BY <1>1
  <2> QED
    BY <1>1, <2>1, Pieces DEF Stripped
<1>2. CASE t = <<>>
  BY <1>2 DEF Stripped
<1> QED
  BY <1>1, <1>2

LEMMA LineFacts ==
  ASSUME NEW S, NEW s \in Seq(S)
  PROVE  \A x \in Cuts(s, "nl") :
           /\ x[1] \in 1..(Len(s) + 1) /\ x[2] \in 0..Len(s)
           /\ Lines(s)[x] = Stripped(Cut(s, x)) /\ Lines(s)[x] \in Seq(S)
           /\ Values(s)[x] = Trim(After(Lines(s)[x], ":"), Blank)
<1> SUFFICES ASSUME NEW x \in Cuts(s, "nl")
             PROVE  /\ x[1] \in 1..(Len(s) + 1) /\ x[2] \in 0..Len(s)
                    /\ Lines(s)[x] = Stripped(Cut(s, x)) /\ Lines(s)[x] \in Seq(S)
                    /\ Values(s)[x] = Trim(After(Lines(s)[x], ":"), Blank)
  OBVIOUS
<1>1. x[1] \in 1..(Len(s) + 1) /\ x[2] \in 0..Len(s)
  BY DEF Cuts
<1>2. x[1] \in Nat \ {0}
  BY <1>1
<1>3. Cut(s, x) \in Seq(S)
  BY <1>1, <1>2, Pieces DEF Cut
<1>4. Lines(s)[x] = Stripped(Cut(s, x))
  BY DEF Lines, Stripped
<1>5. Values(s)[x] = Trim(After(Lines(s)[x], ":"), Blank)
  BY DEF Values
<1> QED
  BY <1>1, <1>3, <1>4, <1>5, StrippedType

LEMMA HeaderNext ==
  ASSUME NEW S, NEW s \in Seq(S), NEW n \in Nat, NEW p, Broken(s, "nl", p), p <= Len(s), n <= p,
         NEW hs, HeadersRead(hs, s, n, p)
  PROVE  /\ Broken(s, "nl", NextPlace(s, p)) /\ n <= NextPlace(s, p) /\ NextPlace(s, p) > p
         /\ NextLine(s, p) = <<>> => HeadersAll(hs, s, n) /\ BodyAt(s, n, NextPlace(s, p))
         /\ NextLine(s, p) # <<>> =>
              HeadersRead(SetHeader(hs, NextLine(s, p)), s, n, NextPlace(s, p))
<1>0. PICK t, r : t = NextLine(s, p) /\ r = NextPlace(s, p)
  OBVIOUS
<1>1. PICK f, z : /\ f = Find(Drop(s, p), "nl") /\ z = <<p + 1, p + f - 1>> /\ r = p + f
                  /\ t = Stripped(Upto(Drop(s, p), "nl"))
  BY <1>0 DEF NextLine, NextPlace
<1>2. /\ f \in 1..(Len(s) - p + 1) /\ Broken(s, "nl", r) /\ Upto(Drop(s, p), "nl") = Cut(s, z)
      /\ z \in Cuts(s, "nl") /\ \A y \in Cuts(s, "nl") : y[1] <= p \/ y = z \/ y[1] > r
  BY <1>1, NextCut
<1>3. /\ p \in Nat /\ f \in Nat /\ r \in Nat /\ z[1] = p + 1 /\ z[2] = p + f - 1 /\ p + 1 <= r
      /\ r = z[2] + 1
  BY <1>1, <1>2 DEF Broken
<1>4. PICK c, v, X, Y : /\ c = Lines(s) /\ v = Values(s)
                        /\ X = {x \in LinesAfter(s, n) : x[1] <= p}
                        /\ Y = {x \in LinesAfter(s, n) : x[1] <= r}
  OBVIOUS
<1>5. \A y \in LinesAfter(s, n) : y \in Cuts(s, "nl") /\ y[1] \in Int
  BY LineFacts DEF LinesAfter
<1>6. z \in LinesAfter(s, n)
  BY <1>2, <1>3 DEF LinesAfter
<1>7. Y = X \cup {z}
  BY <1>2, <1>3, <1>4, <1>5, <1>6
<1>8. c[z] = t /\ t \in Seq(S) /\ v[z] = Trim(After(t, ":"), Blank)
  BY <1>1, <1>2, <1>4, LineFacts
<1>9. LastWins(hs, X, c, ":", v) /\ \A x \in X : c[x] # <<>>
  BY <1>4 DEF HeadersRead
<1>10. ASSUME t = <<>> PROVE HeadersAll(hs, s, n) /\ BodyAt(s, n, r)
  <2>1. z \in EmptyAfter(s, n)
    BY <1>4, <1>6, <1>8, <1>10 DEF EmptyAfter
  <2>2. ASSUME NEW y \in EmptyAfter(s, n) PROVE z[1] <= y[1]
    <3>1. y \in LinesAfter(s, n) /\ y \notin X
      BY <1>4, <1>9 DEF EmptyAfter
    <3> QED
      BY <1>3, <1>4, <1>5, <3>1
  <2>3. {x \in LinesAfter(s, n) : \A y \in EmptyAfter(s, n) : x[1] < y[1]} = X
    <3>1. ASSUME NEW x \in LinesAfter(s, n), \A y \in EmptyAfter(s, n) : x[1] < y[1]
          PROVE  x \in X
      <4>1. x[1] < z[1]
        BY <2>1, <3>1
      <4> QED
        BY <1>3, <1>4, <1>5, <4>1
    <3>2. ASSUME NEW x \in X, NEW y \in EmptyAfter(s, n) PROVE x[1] < y[1]
      <4>1. y \in LinesAfter(s, n) /\ z[1] <= y[1] /\ x \in LinesAfter(s, n) /\ x[1] <= p
        BY <1>4, <2>2 DEF EmptyAfter
      <4> QED
        BY <1>3, <1>5, <4>1
    <3> QED
      BY <1>4, <3>1, <3>2
  <2>4. HeadersAll(hs, s, n)
    BY <1>4, <1>9, <2>3 DEF HeadersAll
  <2> QED
    BY <1>3, <2>1, <2>2, <2>4 DEF BodyAt
<1>11. ASSUME t # <<>> PROVE HeadersRead(SetHeader(hs, t), s, n, r)
  <2>1. Find(t, ":") \in Int /\ Len(t) \in Int
    BY <1>8, FindFirst
  <2>2. LastWins(SetHeader(hs, t), Y, c, ":", v)
    <3>1. CASE Find(t, ":") > Len(t)
      <4>1. \A y \in Y \ X : ~(Find(c[y], ":") <= Len(c[y]))
        BY <1>7, <1>8, <2>1, <3>1
      <4>2. LastWins(hs, Y, c, ":", v)
        BY <1>7, <1>9, <4>1, LastWinsSkip
      <4> QED
        BY <3>1, <4>2 DEF SetHeader
    <3>2. CASE ~(Find(t, ":") > Len(t))
      <4>1. Find(c[z], ":") <= Len(c[z])
        BY <1>8, <2>1, <3>2
      <4>2. z[1] \in Int /\ \A x \in X : x[1] \in Int /\ x[1] < z[1]
        BY <1>3, <1>4, <1>5
      <4>3. LastWins(Assign(hs, Upto(c[z], ":"), v[z]), X \cup {z}, c, ":", v)
        BY <1>9, <4>1, <4>2, LastWinsSet
      <4> QED
        BY <1>7, <1>8, <3>2, <4>3 DEF SetHeader
    <3> QED
      BY <3>1, <3>2
  <2>3. \A x \in Y : c[x] # <<>>
    BY <1>7, <1>8, <1>9, <1>11
  <2> QED
    BY <1>4, <2>2, <2>3 DEF HeadersRead
<1> QED
  BY <1>0, <1>2, <1>3, <1>10, <1>11

LEMMA HeaderEnd ==
  ASSUME NEW S, NEW s \in Seq(S), NEW n \in Nat, NEW p, p = Len(s) + 1,
         NEW hs, HeadersRead(hs, s, n, p)
  PROVE  HeadersAll(hs, s, n) /\ EmptyAfter(s, n) = {}
<1>1. \A y \in LinesAfter(s, n) : y[1] <= p
  BY LineFacts DEF LinesAfter
<1>2. EmptyAfter(s, n) = {}
  BY <1>1 DEF EmptyAfter, HeadersRead
<1>3. {x \in LinesAfter(s, n) : \A y \in EmptyAfter(s, n) : x[1] < y[1]}
        = {x \in LinesAfter(s, n) : x[1] <= p}
  BY <1>1, <1>2
<1> QED
  BY <1>2, <1>3 DEF HeadersAll, HeadersRead

(* The rest of the request line is skipped. *)
LEMMA HeaderBegins ==
  ASSUME NEW S, NEW s \in Seq(S), NEW v \in 1..Len(s),
         NEW a, a = v + Find(Drop(s, v - 1), "nl")
  PROVE  /\ a \in Nat \ {0} /\ Broken(s, "nl", a - 1) /\ v <= a - 1
         /\ HeadersRead(<<>>, s, v, a - 1)
<1>1. PICK f : f = Find(Drop(s, v - 1), "nl")
  OBVIOUS
<1>2. v - 1 \in 0..Len(s) /\ Len(s) \in Nat /\ (v - 1) + 1 = v
  OBVIOUS
<1>3. /\ Drop(s, v - 1) \in Seq(S) /\ Len(Drop(s, v - 1)) = Len(s) - (v - 1)
      /\ \A j \in 1..(Len(s) - (v - 1)) : Drop(s, v - 1)[j] = s[(v - 1) + j]
  BY <1>2, DropFacts
<1>4. /\ f \in 1..(Len(s) - (v - 1) + 1)
      /\ f <= Len(s) - (v - 1) => Drop(s, v - 1)[f] = "nl"
      /\ \A j \in 1..(f - 1) : Drop(s, v - 1)[j] # "nl"
  BY <1>1, <1>3, FindFirst
<1>5. a - 1 = v - 1 + f /\ a - 1 \in 0..(Len(s) + 1) /\ v <= a - 1 /\ a \in Nat \ {0}
  BY <1>1, <1>2, <1>4
<1>6. a - 1 = Len(s) + 1 \/ s[a - 1] = "nl"
  <2>1. CASE f <= Len(s) - (v - 1)
    BY <1>2, <1>3, <1>4, <1>5, <2>1
  <2>2. CASE ~(f <= Len(s) - (v - 1))
    BY <1>2, <1>4, <1>5, <2>2
  <2> QED
    BY <2>1, <2>2
<1>7. ASSUME NEW x \in LinesAfter(s, v), x[1] <= a - 1 PROVE FALSE
  <2>1. PICK b : b = x[1]
    OBVIOUS
  <2>2. b \in 1..(Len(s) + 1) /\ v < b /\ (b = 1 \/ s[b - 1] = "nl") /\ b <= a - 1
    BY <1>7, <2>1 DEF LinesAfter, Cuts
  <2>3. PICK j : j = b - v
    OBVIOUS
  <2>4. j \in 1..(f - 1) /\ j \in 1..(Len(s) - (v - 1)) /\ (v - 1) + j = b - 1 /\ b # 1
    BY <1>2, <1>4, <1>5, <2>2, <2>3
  <2>5. s[b - 1] # "nl"
    BY <1>3, <1>4, <2>4
  <2> QED
    BY <2>2, <2>4, <2>5
<1>8. {x \in LinesAfter(s, v) : x[1] <= a - 1} = {}
  BY <1>7
<1>9. HeadersRead(<<>>, s, v, a - 1)
  BY <1>8, LastWinsNothing DEF HeadersRead
<1> QED
  BY <1>5, <1>6, <1>9 DEF Broken
-----------------------------------------------------------------------------
(***************************************************************************)
(* The invariant of HttpRequest::parse.                                    *)
(***************************************************************************)
QueryOK ==
  LET q == After(path_, "?") IN
  /\ pc \in {"idle", "line"} => path_ = <<>> /\ query_params_ = <<>>
  /\ pc = "headers" => /\ q \in Seq({raw_request_[i] : i \in DOMAIN raw_request_})
                       /\ \E p : /\ Broken(q, "&", p) /\ pairs = Drop(q, p)
                                 /\ PairsRead(query_params_, q, p)
  /\ pc \in {"body", "parsed"} =>
       LastWins(query_params_, Cuts(q, "&"), PairTexts(q), "=", PairValues(q))

RequestLine(a, b, c) ==
  /\ FirstWords(raw_request_, a, b, c)
  /\ method_ = Cut(raw_request_, a) /\ path_ = Cut(raw_request_, b)
  /\ version_ = Cut(raw_request_, c)

LinesOK ==
  LET s == raw_request_ IN
  /\ pc \in {"idle", "line"} => method_ = <<>> /\ path_ = <<>> /\ version_ = <<>> /\ headers_ = <<>>
  /\ pc = "headers" => \E a, b, c \in Words(s) :
       /\ RequestLine(a, b, c) /\ at \in Nat \ {0} /\ c[1] <= at - 1 /\ Broken(s, "nl", at - 1)
       /\ HeadersRead(headers_, s, c[1], at - 1)
  /\ pc = "body" => \E a, b, c \in Words(s) :
       /\ RequestLine(a, b, c) /\ at \in Nat \ {0}
       /\ HeadersAll(headers_, s, c[1]) /\ BodyAt(s, c[1], at - 1)
  /\ RequestExact

(* Everywhere else nothing is claimed. *)
LEMMA HttpElsewhere ==
  ASSUME pc' \notin {"idle", "line", "headers", "body", "parsed"} PROVE QueryOK' /\ LinesOK'
  BY DEF QueryOK, LinesOK, RequestExact

LEMMA HttpBlank ==
  ASSUME pc' \in {"idle", "line"}, method_' = <<>>, path_' = <<>>, version_' = <<>>,
         query_params_' = <<>>, headers_' = <<>>
  PROVE  QueryOK' /\ LinesOK'
  BY DEF QueryOK, LinesOK, RequestExact

LEMMA HttpAlone ==
  ASSUME QueryOK, LinesOK, UNCHANGED <<pc, http>> PROVE QueryOK' /\ LinesOK'
<1>1. UNCHANGED <<pc, raw_request_, at, method_, path_, version_, pairs, query_params_,
                  headers_, body_>>
  BY DEF http
<1>2. QueryOK'
  BY <1>1 DEF QueryOK
<1>3. RequestExact' = RequestExact
  BY <1>1 DEF RequestExact
<1>4. LinesOK'
  BY <1>1, <1>3 DEF LinesOK, RequestLine
<1> QED
  BY <1>2, <1>4

(* A text without a query. *)
LEMMA NoQuery == LET q == After(<<>>, "?") IN
                 LastWins(<<>>, Cuts(q, "&"), PairTexts(q), "=", PairValues(q))
<1>1. <<>> \in Seq({"?"}) /\ Len(<<>>) = 0
  OBVIOUS
<1>2. PICK q : q = After(<<>>, "?")
  OBVIOUS
<1>3. q \in Seq({"?"}) /\ q = <<>> /\ Len(q) = 0
  <2>1. After(<<>>, "?") = Drop(<<>>, 1)
    BY FindNothing DEF After
  <2>2. Drop(<<>>, 1) = <<>>
    BY DEF Drop
  <2> QED
    BY <1>1, <1>2, <2>1, <2>2
<1>4. Broken(q, "&", 0) /\ Drop(q, 0) = <<>>
  BY <1>3 DEF Broken, Drop
<1>5. LastWins(<<>>, Cuts(q, "&"), PairTexts(q), "=", PairValues(q))
  BY <1>3, <1>4, QueryBegins, QueryDone
<1> QED
  BY <1>2, <1>5

LEMMA RequestLineStep ==
  ASSUME NEW S, raw_request_ \in Seq(S), QueryOK, LinesOK, parse_request_line
  PROVE  QueryOK' /\ LinesOK'
<1>1. PICK s, m, p, v : /\ s = raw_request_ /\ m = Skip(s, 1) /\ p = Skip(s, Read(s, m))
                        /\ v = Skip(s, Read(s, p))
  OBVIOUS
<1>2. pc = "line" /\ raw_request_' = s /\ s \in Seq(S)
  BY <1>1 DEF parse_request_line, http
<1>3. /\ method_ = <<>> /\ path_ = <<>> /\ version_ = <<>> /\ query_params_ = <<>>
      /\ headers_ = <<>>
  BY <1>2 DEF QueryOK, LinesOK
<1>4. /\ v \in 1..(Len(s) + 1)
      /\ v <= Len(s) =>
           FirstWords(s, <<m, Read(s, m) - 1>>, <<p, Read(s, p) - 1>>, <<v, Read(s, v) - 1>>)
      /\ v > Len(s) => ~ \E a, b, c \in Words(s) : FirstWords(s, a, b, c)
  BY <1>1, <1>2, ThreeWords
<1>5. CASE v > Len(s)
  <2>1. pc' = "parsed" /\ UNCHANGED http
    <3>1. ~(v <= Len(s))
      BY <1>2, <1>4, <1>5
    <3> QED
      BY <1>1, <3>1 DEF parse_request_line
  <2>2. UNCHANGED <<method_, path_, version_, query_params_>>
    BY <2>1 DEF http
  <2>3. RequestExact'
    BY <1>2, <1>3, <1>4, <1>5, <2>1, <2>2 DEF RequestExact
  <2> QED
    BY <1>3, <2>1, <2>2, <2>3, NoQuery DEF QueryOK, LinesOK
<1>6. CASE v <= Len(s)
  <2>1. PICK a, b, c : /\ a = <<m, Read(s, m) - 1>> /\ b = <<p, Read(s, p) - 1>>
                       /\ c = <<v, Read(s, v) - 1>>
    OBVIOUS
  <2>2. /\ method_' = Cut(s, a) /\ path_' = Cut(s, b) /\ version_' = Cut(s, c)
        /\ pairs' = After(path_', "?") /\ at' = v + Find(Drop(s, v - 1), "nl")
        /\ pc' = "headers" /\ UNCHANGED <<query_params_, headers_>>
    <3>1. ~(v > Len(s))
      BY <1>2, <1>4, <1>6
    <3>2. /\ a[1] = m /\ a[2] = Read(s, m) - 1 /\ b[1] = p /\ b[2] = Read(s, p) - 1
          /\ c[1] = v /\ c[2] = Read(s, v) - 1
      BY <2>1
    <3> QED
      BY <1>1, <3>1, <3>2 DEF parse_request_line, Cut
  <2>3. FirstWords(s, a, b, c) /\ c[1] = v
    BY <1>4, <1>6, <2>1
  <2>4. RequestLine(a, b, c)' /\ a \in Words(s) /\ b \in Words(s) /\ c \in Words(s)
    BY <1>2, <2>2, <2>3 DEF RequestLine, FirstWords
  <2>5. /\ at' \in Nat \ {0} /\ Broken(s, "nl", at' - 1) /\ v <= at' - 1
        /\ HeadersRead(<<>>, s, v, at' - 1)
    <3>1. v \in 1..Len(s)
      BY <1>4, <1>6
    <3> QED
      BY <1>2, <2>2, <3>1, HeaderBegins
  <2>6. LinesOK'
    BY <1>2, <1>3, <2>2, <2>3, <2>4, <2>5 DEF LinesOK, RequestExact
  <2>7. After(path_', "?") \in Seq({s[i] : i \in DOMAIN s})
    <3>1. b[1] \in 1..Len(s) /\ b[2] \in 1..Len(s)
      BY <1>2, <2>4 DEF Words
    <3>2. s \in Seq({s[i] : i \in DOMAIN s})
      BY <1>2
    <3>3. path_' \in Seq({s[i] : i \in DOMAIN s})
      BY <2>2, <3>1, <3>2, Pieces DEF Cut
    <3> QED
      BY <3>3, AfterType
  <2>8. PICK q : q = After(path_', "?")
    OBVIOUS
  <2>9. Broken(q, "&", 0) /\ Drop(q, 0) = q
    BY <2>7, <2>8 DEF Broken, Drop
  <2>10. QueryOK'
    BY <1>2, <1>3, <2>2, <2>7, <2>8, <2>9, QueryBegins DEF QueryOK
  <2> QED
    BY <2>6, <2>10
<1> QED
  BY <1>2, <1>4, <1>5, <1>6

LEMMA PairStep ==
  ASSUME QueryOK, LinesOK, parse_path_and_query PROVE QueryOK' /\ LinesOK'
<1>1. /\ pc = "headers" /\ pc' = "headers" /\ pairs # <<>> /\ pairs' = After(pairs, "&")
      /\ query_params_' = SetPair(query_params_, Upto(pairs, "&"))
      /\ UNCHANGED <<raw_request_, at, method_, path_, version_, headers_>>
  BY DEF parse_path_and_query, SetPair
<1>2. LinesOK'
  BY <1>1 DEF LinesOK, RequestLine, RequestExact
<1>3. PICK q, S : q = After(path_, "?") /\ S = {raw_request_[i] : i \in DOMAIN raw_request_}
  OBVIOUS
<1>4. q \in Seq(S) /\ \E p : /\ Broken(q, "&", p) /\ pairs = Drop(q, p)
                               /\ PairsRead(query_params_, q, p)
  BY <1>1, <1>3 DEF QueryOK
<1>5. PICK p : Broken(q, "&", p) /\ pairs = Drop(q, p) /\ PairsRead(query_params_, q, p)
  BY <1>4
<1>6. p <= Len(q)
  <2>1. SUFFICES ASSUME ~(p <= Len(q)) PROVE FALSE
    OBVIOUS
  <2>2. p \in Nat /\ p >= Len(q)
    BY <1>4, <1>5, <2>1 DEF Broken
  <2> QED
    BY <1>1, <1>4, <1>5, <2>2, DropAll
<1>7. \E r : /\ Broken(q, "&", r) /\ After(Drop(q, p), "&") = Drop(q, r)
             /\ PairsRead(SetPair(query_params_, Upto(Drop(q, p), "&")), q, r)
  BY <1>4, <1>5, <1>6, QueryNext
<1>8. \E r : Broken(q, "&", r) /\ pairs' = Drop(q, r) /\ PairsRead(query_params_', q, r)
  BY <1>1, <1>5, <1>7, Zenon
<1>9. QueryOK'
  BY <1>1, <1>3, <1>4, <1>8 DEF QueryOK
<1> QED
  BY <1>2, <1>9

LEMMA HeaderStep ==
  ASSUME NEW S, raw_request_ \in Seq(S), QueryOK, LinesOK, parse_header
  PROVE  QueryOK' /\ LinesOK'
<1>1. PICK s, t : s = raw_request_ /\ t = Stripped(Upto(Drop(s, at - 1), "nl"))
  OBVIOUS
<1>2. /\ pc = "headers" /\ pairs = <<>> /\ at' = at + Find(Drop(s, at - 1), "nl")
      /\ pc' = IF at > Len(s) \/ t = <<>> THEN "body" ELSE "headers"
      /\ headers_' = SetHeader(headers_, t)
      /\ raw_request_' = s /\ UNCHANGED <<method_, path_, version_, pairs, query_params_>>
  BY <1>1 DEF parse_header, line_at, Stripped, SetHeader
<1>3. QueryOK'
  <2>1. PICK q, U : q = After(path_, "?") /\ U = {raw_request_[i] : i \in DOMAIN raw_request_}
    OBVIOUS
  <2>2. q \in Seq(U) /\ \E p : /\ Broken(q, "&", p) /\ pairs = Drop(q, p)
                                 /\ PairsRead(query_params_, q, p)
    BY <1>2, <2>1 DEF QueryOK
  <2>3. LastWins(query_params_, Cuts(q, "&"), PairTexts(q), "=", PairValues(q))
    BY <1>2, <2>2, QueryDone
  <2> QED
    BY <1>1, <1>2, <2>1, <2>2, <2>3 DEF QueryOK
<1>4. PICK a \in Words(s), b \in Words(s), c \in Words(s) :
        /\ RequestLine(a, b, c) /\ at \in Nat \ {0} /\ c[1] <= at - 1 /\ Broken(s, "nl", at - 1)
        /\ HeadersRead(headers_, s, c[1], at - 1)
  BY <1>1, <1>2 DEF LinesOK
<1>5. s \in Seq(S) /\ Len(s) \in Nat /\ RequestLine(a, b, c)'
  BY <1>1, <1>2, <1>4 DEF RequestLine
<1>6. PICK n, p, r : n = c[1] /\ p = at - 1 /\ r = p + Find(Drop(s, p), "nl")
  OBVIOUS
<1>7. n \in Nat /\ p \in 0..(Len(s) + 1)
  BY <1>4, <1>5, <1>6 DEF Words, Broken
<1>8. CASE p <= Len(s)
  <2>1. /\ Broken(s, "nl", r) /\ n <= r /\ r > p
        /\ t = <<>> => HeadersAll(headers_, s, n) /\ BodyAt(s, n, r)
        /\ t # <<>> => HeadersRead(SetHeader(headers_, t), s, n, r)
    <3>1. Broken(s, "nl", p) /\ n <= p /\ HeadersRead(headers_, s, n, p)
      BY <1>4, <1>6
    <3>2. s \in Seq(S) /\ r = NextPlace(s, p) /\ t = NextLine(s, p)
      BY <1>1, <1>5, <1>6 DEF NextPlace, NextLine
    <3> QED
      BY <1>7, <1>8, <3>1, <3>2, HeaderNext
  <2>2. at' - 1 = r /\ at' \in Nat \ {0}
    <3>1. p \in 0..Len(s)
      BY <1>5, <1>7, <1>8
    <3>2. Drop(s, p) \in Seq(S)
      BY <1>5, <3>1, DropFacts
    <3>3. PICK f : f = Find(Drop(s, p), "nl")
      OBVIOUS
    <3>4. f \in 1..(Len(Drop(s, p)) + 1) /\ Len(Drop(s, p)) \in Nat
      BY <3>2, <3>3, FindFirst
    <3>5. f \in Nat /\ p \in Nat /\ at \in Nat /\ p = at - 1 /\ r = p + f /\ at' = at + f /\ at # 0
      BY <1>2, <1>4, <1>6, <3>1, <3>3, <3>4
    <3> QED
      BY <3>5
  <2>3. at > Len(s) => t = <<>>
    <3>1. SUFFICES ASSUME at > Len(s) PROVE t = <<>>
      OBVIOUS
    <3>2. Drop(s, p) = <<>>
      BY <1>4, <1>5, <1>6, <1>7, <3>1, DropAll
    <3>3. Upto(<<>>, "nl") = <<>>
      BY FindNothing DEF Upto
    <3> QED
      BY <1>1, <1>6, <3>2, <3>3 DEF Stripped
  <2>4. CASE t = <<>>
    <3>1. pc' = "body" /\ headers_' = headers_
      BY <1>2, <2>4, FindNothing DEF SetHeader
    <3> QED
      BY <1>2, <1>3, <1>5, <1>6, <2>1, <2>2, <2>4, <3>1 DEF LinesOK, RequestExact
  <2>5. CASE t # <<>>
    <3>1. pc' = "headers" /\ headers_' = SetHeader(headers_, t)
      BY <1>2, <2>3, <2>5
    <3> QED
      BY <1>2, <1>3, <1>5, <1>6, <2>1, <2>2, <2>5, <3>1 DEF LinesOK, RequestExact
  <2> QED
    BY <2>4, <2>5
<1>9. CASE ~(p <= Len(s))
  <2>1. p = Len(s) + 1 /\ at > Len(s)
    BY <1>4, <1>5, <1>6, <1>7, <1>9
  <2>2. HeadersAll(headers_, s, n) /\ EmptyAfter(s, n) = {}
    BY <1>4, <1>5, <1>6, <1>7, <2>1, HeaderEnd
  <2>3. Drop(s, p) = <<>>
    BY <1>5, <1>7, <2>1, DropAll
  <2>4. t = <<>> /\ r = p + 1
    BY <1>1, <1>6, <2>3, FindNothing DEF Upto, Stripped
  <2>5. /\ pc' = "body" /\ headers_' = headers_ /\ at' \in Nat \ {0}
        /\ at' - 1 \in Nat /\ at' - 1 >= Len(s)
    BY <1>2, <1>4, <1>5, <1>6, <1>7, <2>1, <2>3, <2>4, FindNothing DEF SetHeader
  <2>6. BodyAt(s, n, at' - 1)
    BY <2>2, <2>5 DEF BodyAt
  <2> QED
    BY <1>2, <1>3, <1>5, <1>6, <2>2, <2>5, <2>6 DEF LinesOK, RequestExact
<1> QED
  BY <1>8, <1>9

LEMMA Chop ==
  ASSUME NEW S, NEW t \in Seq(S), t # <<>>, t[Len(t)] = "nl"
  PROVE  SubSeq(t, 1, Len(t) - 1) \o <<"nl">> = t
<1>1. PICK L, u : L = Len(t) /\ u = SubSeq(t, 1, Len(t) - 1)
  OBVIOUS
<1>2. L \in Nat /\ L >= 1 /\ "nl" \in S
  BY <1>1
<1>3. u \in Seq(S) /\ Len(u) = L - 1 /\ \A i \in 1..(L - 1) : u[i] = t[i]
  BY <1>1, <1>2
<1>4. PICK w : w = u \o <<"nl">>
  OBVIOUS
<1>5. w \in Seq(S) /\ Len(w) = L /\ w[L] = "nl" /\ \A i \in 1..(L - 1) : w[i] = u[i]
  BY <1>2, <1>3, <1>4
<1>6. \A i \in 1..L : w[i] = t[i]
  BY <1>1, <1>2, <1>3, <1>5
<1>7. w = t
  BY <1>1, <1>5, <1>6, SeqEqual
<1> QED
  BY <1>1, <1>4, <1>7

LEMMA BodyStep ==
  ASSUME NEW S, raw_request_ \in Seq(S), QueryOK, LinesOK, parse_body
  PROVE  QueryOK' /\ LinesOK'
<1>1. PICK s, tail : s = raw_request_ /\ tail = Drop(s, at - 1)
  OBVIOUS
<1>2. /\ pc = "body" /\ pc' = "parsed" /\ raw_request_' = s /\ s \in Seq(S) /\ Len(s) \in Nat
      /\ body_' = IF tail # <<>> /\ tail[Len(tail)] = "nl"
                  THEN SubSeq(tail, 1, Len(tail) - 1) ELSE tail
      /\ UNCHANGED <<method_, path_, version_, query_params_, headers_>>
  BY <1>1 DEF parse_body
<1>3. QueryOK'
  BY <1>2 DEF QueryOK
<1>4. PICK a \in Words(s), b \in Words(s), c \in Words(s) :
        /\ RequestLine(a, b, c) /\ at \in Nat \ {0}
        /\ HeadersAll(headers_, s, c[1]) /\ BodyAt(s, c[1], at - 1)
  BY <1>1, <1>2 DEF LinesOK
<1>5. /\ FirstWords(s, a, b, c) /\ method_' = Cut(s, a) /\ path_' = Cut(s, b)
      /\ version_' = Cut(s, c)
  BY <1>1, <1>2, <1>4 DEF RequestLine
<1>6. PICK fields, empty :
        /\ empty = EmptyAfter(s, c[1])
        /\ fields = {x \in LinesAfter(s, c[1]) : \A y \in empty : x[1] < y[1]}
  OBVIOUS
<1>7. LastWins(headers_', fields, Lines(s), ":", Values(s))
  BY <1>2, <1>4, <1>6 DEF HeadersAll
<1>8. tail \in Seq(S)
  <2>1. at \in Nat \ {0} /\ at - 1 + 1 = at /\ Len(s) \in 0..Len(s)
    BY <1>2, <1>4
  <2> QED
    BY <1>1, <1>2, <2>1, Pieces DEF Drop
<1>9. \/ body_' \o <<"nl">> = tail
      \/ body_' = tail /\ (tail = <<>> \/ tail[Len(tail)] # "nl")
  BY <1>2, <1>8, Chop
<1>10. BodyIs(body_', s, empty)
  <2>1. CASE empty = {}
    <3>1. at - 1 \in Nat /\ at - 1 >= Len(s)
      BY <1>4, <1>6, <2>1 DEF BodyAt
    <3>2. tail = <<>>
      BY <1>1, <1>2, <3>1, DropAll
    <3> QED
      BY <1>2, <2>1, <3>2 DEF BodyIs
  <2>2. CASE empty # {}
    <3>1. PICK first \in empty : (\A y \in empty : first[1] <= y[1]) /\ at - 1 = first[2] + 1
      BY <1>4, <1>6, <2>2 DEF BodyAt
    <3>2. tail = Drop(s, first[2] + 1)
      BY <1>1, <3>1
    <3> QED
      BY <1>9, <3>1, <3>2 DEF BodyIs
  <2> QED
    BY <2>1, <2>2
<1>11. RequestExact'
  BY <1>2, <1>5, <1>6, <1>7, <1>10, Zenon DEF RequestExact
<1> QED
  BY <1>2, <1>3, <1>11 DEF LinesOK

LEMMA HttpParseStep ==
  ASSUME NEW S, raw_request_ \in Seq(S), QueryOK, LinesOK, HttpParse PROVE QueryOK' /\ LinesOK'
  BY RequestLineStep, PairStep, HeaderStep, BodyStep DEF HttpParse

LEMMA HttpExact == ASSUME QueryOK, LinesOK PROVE QueryExact /\ RequestExact
  BY DEF QueryOK, LinesOK, QueryExact, PairTexts, PairValues
=============================================================================
