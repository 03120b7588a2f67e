----------------------------- MODULE DataLemmas -----------------------------
(***************************************************************************)
(* Facts about numbers and sequences that the proofs of several modules    *)
(* rest on, in the form in which they are needed there.                    *)
(***************************************************************************)

EXTENDS Integers, SequencesExt, SequenceTheorems, WellFoundedInduction, TLAPS

(* A nonempty set of natural numbers has a least element: what makes the
   first match of an expression list a match. *)
LEMMA LeastExists ==
  ASSUME NEW S, S \subseteq Nat, S # {}
  PROVE  \E x \in S : \A y \in S : x <= y
<1> DEFINE R == {p \in Nat \X Nat : p[1] < p[2]}
<1>1. IsWellFoundedOn(R, Nat)
  <2>1. OpToRel(<, Nat) = R
    BY DEF OpToRel
  <2> QED BY <2>1, NatLessThanWellFounded, Zenon
<1>2. PICK x \in S : \A y \in S : ~(<<y, x>> \in R)
  BY <1>1, WFMin
<1>3. \A y \in S : x <= y
  <2> TAKE y \in S
  <2>1. <<y, x>> \in R <=> y < x
    OBVIOUS
  <2> QED BY <2>1, <1>2
<1> QED BY <1>2, <1>3

(* The elements of a sequence: what is read from a buffer is a token. *)
LEMMA InSeq ==
  ASSUME NEW S, NEW s \in Seq(S), NEW i \in DOMAIN s
  PROVE  s[i] \in S
BY ElementOfSeq, LenProperties

(* Explicit sequences: what is printed in one go. *)
LEMMA Listed ==
  ASSUME NEW S, NEW a \in S, NEW b \in S, NEW c \in S
  PROVE  <<a>> \in Seq(S) /\ <<a, b, c>> \in Seq(S)
OBVIOUS

(* Joining two sequences: what is appended to a buffer. *)
LEMMA Joined ==
  ASSUME NEW S, NEW s \in Seq(S), NEW t \in Seq(S)
  PROVE  /\ s \o t \in Seq(S)
         /\ Len(s) \in Nat /\ Len(t) \in Nat
         /\ Len(s \o t) = Len(s) + Len(t)
         /\ \A j \in 1..Len(s) : (s \o t)[j] = s[j]
         /\ \A j \in (Len(s) + 1)..(Len(s) + Len(t)) :
              (s \o t)[j] = t[j - Len(s)]
BY ConcatProperties, LenProperties

(* A part of a sequence: what is before or after a match. *)
LEMMA Cut ==
  ASSUME NEW S, NEW s \in Seq(S), NEW m \in Nat \ {0}, NEW n \in Int,
         n <= Len(s)
  PROVE  /\ SubSeq(s, m, n) \in Seq(S)
         /\ Len(SubSeq(s, m, n)) = IF m <= n THEN n - m + 1 ELSE 0
         /\ \A i \in 1..(n - m + 1) : SubSeq(s, m, n)[i] = s[m + i - 1]
<1>1. \A i \in m..n : s[i] \in S
  <2> TAKE i \in m..n
  <2>1. i \in 1..Len(s)
    BY LenProperties
  <2> QED BY <2>1, ElementOfSeq
<1> QED BY <1>1, SubSeqProperties

(* Changing an entry that may not be there: a history of a command. *)
LEMMA ExceptType ==
  ASSUME NEW S, NEW s \in Seq(S), NEW n, NEW r, n \in DOMAIN s => r \in S
  PROVE  [s EXCEPT ![n] = r] \in Seq(S)
<1>1. CASE n \in DOMAIN s
  BY <1>1, ExceptSeq, LenProperties
<1>2. CASE n \notin DOMAIN s
  <2>1. [s EXCEPT ![n] = r] = s
    BY <1>2
  <2> QED BY <2>1
<1> QED BY <1>1, <1>2

(* Cutting what two sequences make inside the first one: the next read of a
   buffer that more was appended to. *)
LEMMA CutJoined ==
  ASSUME NEW S, NEW s \in Seq(S), NEW t \in Seq(S), NEW k \in 0..Len(s)
  PROVE  /\ SubSeq(s, k + 1, Len(s)) \in Seq(S)
         /\ SubSeq(s \o t, 1, k) = SubSeq(s, 1, k)
         /\ SubSeq(s \o t, k + 1, Len(s \o t))
              = SubSeq(s, k + 1, Len(s)) \o t
<1> DEFINE st == s \o t
           a  == SubSeq(s, k + 1, Len(s))
           b  == SubSeq(st, k + 1, Len(st))
<1>1. /\ Len(s) \in Nat /\ Len(t) \in Nat /\ k \in Nat
      /\ k + 1 \in Nat \ {0} /\ Len(s) \in Int /\ Len(s) <= Len(s)
  BY LenProperties
<1>2. /\ st \in Seq(S) /\ Len(st) = Len(s) + Len(t)
      /\ \A j \in 1..Len(s) : st[j] = s[j]
      /\ \A j \in (Len(s) + 1)..(Len(s) + Len(t)) : st[j] = t[j - Len(s)]
  BY Joined
<1> HIDE DEF st
<1>3. /\ a \in Seq(S)
      /\ Len(a) = IF k + 1 <= Len(s) THEN Len(s) - (k + 1) + 1 ELSE 0
      /\ \A i \in 1..(Len(s) - (k + 1) + 1) : a[i] = s[(k + 1) + i - 1]
  BY <1>1, Cut
<1>4. /\ b \in Seq(S)
      /\ Len(b) = IF k + 1 <= Len(st) THEN Len(st) - (k + 1) + 1 ELSE 0
      /\ \A i \in 1..(Len(st) - (k + 1) + 1) : b[i] = st[(k + 1) + i - 1]
  <2>1. Len(st) \in Int /\ Len(st) <= Len(st)
    BY <1>1, <1>2
  <2> QED BY <2>1, <1>1, <1>2, Cut
<1> HIDE DEF a, b
<1>5. Len(a) = Len(s) - k /\ Len(b) = Len(s) + Len(t) - k
  BY <1>1, <1>2, <1>3, <1>4
<1>6. /\ a \o t \in Seq(S) /\ Len(a \o t) = Len(a) + Len(t)
      /\ \A j \in 1..Len(a) : (a \o t)[j] = a[j]
      /\ \A j \in (Len(a) + 1)..(Len(a) + Len(t)) :
           (a \o t)[j] = t[j - Len(a)]
  BY <1>3, Joined
<1>7. ASSUME NEW i \in 1..Len(b) PROVE b[i] = (a \o t)[i]
  <2>1. b[i] = st[k + i] /\ k + i \in 1..(Len(s) + Len(t))
    <3>1. i \in 1..(Len(st) - (k + 1) + 1) /\ (k + 1) + i - 1 = k + i
      BY <1>1, <1>2, <1>5
    <3> QED BY <3>1, <1>1, <1>2, <1>4, <1>5
  <2>2. CASE i <= Len(a)
    <3>1. i \in 1..Len(a) /\ k + i \in 1..Len(s)
          /\ i \in 1..(Len(s) - (k + 1) + 1) /\ (k + 1) + i - 1 = k + i
      BY <2>2, <1>1, <1>5
    <3> QED BY <3>1, <2>1, <1>2, <1>3, <1>6
  <2>3. CASE i > Len(a)
    <3>1. /\ i \in (Len(a) + 1)..(Len(a) + Len(t))
          /\ k + i \in (Len(s) + 1)..(Len(s) + Len(t))
          /\ k + i - Len(s) = i - Len(a)
      BY <2>3, <1>1, <1>5
    <3>2. st[k + i] = t[k + i - Len(s)]
      BY <3>1, <1>2
    <3>3. (a \o t)[i] = t[i - Len(a)]
      BY <3>1, <1>6
    <3> QED BY <3>1, <3>2, <3>3, <2>1
  <2> QED BY <2>2, <2>3, <1>1, <1>5
<1>8. b = a \o t
  <2>1. Len(b) = Len(a \o t)
    BY <1>1, <1>5, <1>6
  <2> QED BY <2>1, <1>4, <1>6, <1>7, SeqEqual
<1> DEFINE c == SubSeq(st, 1, k)
           d == SubSeq(s, 1, k)
<1>9. /\ c \in Seq(S) /\ Len(c) = (IF 1 <= k THEN k - 1 + 1 ELSE 0)
      /\ \A i \in 1..(k - 1 + 1) : c[i] = st[1 + i - 1]
  <2>1. 1 \in Nat \ {0} /\ k \in Int /\ k <= Len(st)
    BY <1>1, <1>2
  <2> QED BY <2>1, <1>2, Cut
<1>10. /\ d \in Seq(S) /\ Len(d) = (IF 1 <= k THEN k - 1 + 1 ELSE 0)
       /\ \A i \in 1..(k - 1 + 1) : d[i] = s[1 + i - 1]
  <2>1. 1 \in Nat \ {0} /\ k \in Int /\ k <= Len(s)
    BY <1>1
  <2> QED BY <2>1, Cut
<1> HIDE DEF c, d
<1>11. \A i \in 1..Len(c) : c[i] = d[i]
  BY <1>1, <1>2, <1>9, <1>10
<1>12. c = d
  BY <1>9, <1>10, <1>11, SeqEqual
<1> QED BY <1>3, <1>8, <1>12 DEF a, b, c, d, st

(* A sequence is what is up to a position and what is behind it. *)
LEMMA CutInTwo ==
  ASSUME NEW S, NEW s \in Seq(S), NEW k \in 0..Len(s)
  PROVE  /\ s = SubSeq(s, 1, k) \o SubSeq(s, k + 1, Len(s))
         /\ SubSeq(s, 1, k) \in Seq(S) /\ SubSeq(s, k + 1, Len(s)) \in Seq(S)
         /\ Len(SubSeq(s, 1, k)) = k
         /\ Len(SubSeq(s, k + 1, Len(s))) = Len(s) - k
         /\ \A i \in 1..k : SubSeq(s, 1, k)[i] = s[i]
         /\ \A i \in 1..(Len(s) - k) : SubSeq(s, k + 1, Len(s))[i] = s[k + i]
<1> DEFINE a == SubSeq(s, 1, k)
           b == SubSeq(s, k + 1, Len(s))
<1>1. Len(s) \in Nat /\ k \in Nat
  BY LenProperties
<1>2. /\ a \in Seq(S) /\ Len(a) = (IF 1 <= k THEN k - 1 + 1 ELSE 0)
      /\ \A i \in 1..(k - 1 + 1) : a[i] = s[1 + i - 1]
  <2>1. 1 \in Nat \ {0} /\ k \in Int /\ k <= Len(s)
    BY <1>1
  <2> QED BY <2>1, Cut
<1>3. /\ b \in Seq(S)
      /\ Len(b) = IF k + 1 <= Len(s) THEN Len(s) - (k + 1) + 1 ELSE 0
      /\ \A i \in 1..(Len(s) - (k + 1) + 1) : b[i] = s[(k + 1) + i - 1]
  <2>1. k + 1 \in Nat \ {0} /\ Len(s) \in Int /\ Len(s) <= Len(s)
    BY <1>1
  <2> QED BY <2>1, Cut
<1>4. a \o b = s
  <2>1. /\ 1 \in 1..(Len(s) + 1) /\ k \in (1 - 1)..Len(s)
        /\ Len(s) \in k..Len(s)
    BY <1>1
  <2>2. a \o b = SubSeq(s, 1, Len(s))
    BY <2>1, ConcatAdjacentSubSeq
  <2> QED BY <2>2, SubSeqFull
<1> HIDE DEF a, b
<1>5. /\ Len(a) = k /\ Len(b) = Len(s) - k
      /\ \A i \in 1..k : a[i] = s[i]
      /\ \A i \in 1..(Len(s) - k) : b[i] = s[k + i]
  <2>1. Len(a) = k /\ Len(b) = Len(s) - k
    BY <1>1, <1>2, <1>3
  <2>2. ASSUME NEW i \in 1..k PROVE a[i] = s[i]
    <3>1. i \in 1..(k - 1 + 1) /\ 1 + i - 1 = i
      BY <1>1
    <3> QED BY <3>1, <1>2
  <2>3. ASSUME NEW i \in 1..(Len(s) - k) PROVE b[i] = s[k + i]
    <3>1. i \in 1..(Len(s) - (k + 1) + 1) /\ (k + 1) + i - 1 = k + i
      BY <1>1
    <3> QED BY <3>1, <1>3
  <2> QED BY <2>1, <2>2, <2>3
<1> QED BY <1>2, <1>3, <1>4, <1>5 DEF a, b

(* The elements of parts and of sums. *)
LEMMA RangeParts ==
  ASSUME NEW S, NEW s \in Seq(S), NEW t \in Seq(S), NEW k \in 0..Len(s)
  PROVE  /\ Range(s \o t) = Range(s) \union Range(t)
         /\ Range(SubSeq(s, 1, k)) \subseteq Range(s)
         /\ Range(SubSeq(s, k + 1, Len(s))) \subseteq Range(s)
         /\ Range(s) \subseteq S
<1>1. Range(s \o t) = Range(s) \union Range(t)
  BY RangeConcatenation
<1>2. /\ SubSeq(s, 1, k) \in Seq(S) /\ SubSeq(s, k + 1, Len(s)) \in Seq(S)
      /\ s = SubSeq(s, 1, k) \o SubSeq(s, k + 1, Len(s))
  BY CutInTwo, Zenon
<1>3. Range(s) = Range(SubSeq(s, 1, k))
                 \union Range(SubSeq(s, k + 1, Len(s)))
  BY <1>2, RangeConcatenation
<1>4. Range(s) \subseteq S
  BY RangeOfSeq
<1> QED BY <1>1, <1>3, <1>4

(* Taking the first element off. *)
LEMMA TailFacts ==
  ASSUME NEW S, NEW s \in Seq(S), s # <<>>
  PROVE  /\ Len(s) \in Nat \ {0} /\ Head(s) = s[1] /\ s[1] \in S
         /\ Tail(s) \in Seq(S) /\ Len(Tail(s)) = Len(s) - 1
         /\ \A i \in 1..(Len(s) - 1) : Tail(s)[i] = s[i + 1]
<1>1. Len(s) \in Nat \ {0}
  BY EmptySeq
<1>2. 1 \in 1..Len(s) /\ Len(s) \in 1..Len(s)
  BY <1>1
<1>3. Head(s) = s[1]
  BY <1>2, HeadTailOfSubSeq, SubSeqFull
<1> QED BY <1>1, <1>2, <1>3, HeadTailProperties, ElementOfSeq

(* Sequences with the same positions are of the same length. *)
LEMMA SameLength ==
  ASSUME NEW S, NEW s \in Seq(S), NEW T, NEW t \in Seq(T),
         DOMAIN s = DOMAIN t
  PROVE  Len(s) = Len(t)
<1>1. /\ Len(s) \in Nat /\ Len(t) \in Nat
      /\ DOMAIN s = 1..Len(s) /\ DOMAIN t = 1..Len(t)
  BY LenProperties, SMTT(30)
<1> DEFINE m == Len(s)
           n == Len(t)
<1>2. m \in Nat /\ n \in Nat /\ 1..m = 1..n
  BY <1>1
<1> HIDE DEF m, n
<1>3. (m = 0 \/ m \in 1..m) /\ (n = 0 \/ n \in 1..n)
  BY <1>2
<1>4. (m = 0 \/ m \in 1..n) /\ (n = 0 \/ n \in 1..m)
  BY <1>2, <1>3, Zenon
<1>5. m = n
  BY <1>2, <1>4
<1> QED BY <1>5 DEF m, n

(* One element more: what is printed behind what was printed. *)
LEMMA Longer ==
  ASSUME NEW S, NEW s \in Seq(S), NEW e
  PROVE  /\ Len(s) \in Nat /\ Len(Append(s, e)) = Len(s) + 1
         /\ DOMAIN Append(s, e) = 1..(Len(s) + 1)
         /\ \A j \in 1..Len(s) : Append(s, e)[j] = s[j]
         /\ Append(s, e)[Len(s) + 1] = e
<1> DEFINE T == S \union {e}
<1>1. s \in Seq(T) /\ e \in T
  BY SeqMonotonic
<1> HIDE DEF T
<1>2. /\ Append(s, e) \in Seq(T) /\ Len(Append(s, e)) = Len(s) + 1
      /\ \A j \in 1..Len(s) : Append(s, e)[j] = s[j]
      /\ Append(s, e)[Len(s) + 1] = e
  BY <1>1, AppendProperties
<1>3. DOMAIN Append(s, e) = 1..Len(Append(s, e)) /\ Len(s) \in Nat
  BY <1>1, <1>2, LenProperties
<1> QED BY <1>2, <1>3

-----------------------------------------------------------------------------
(* Sequences of sequences: what a channel of chunks holds. *)

(* Induction along the numbers up to n, with a set for the property. *)
LEMMA UpTo ==
  ASSUME NEW n \in Nat, NEW A, 0 \in A,
         \A i \in 0..(n - 1) : i \in A => i + 1 \in A
  PROVE  \A i \in 0..n : i \in A
<1> DEFINE T == {i \in 0..n : i \notin A}
<1>1. SUFFICES ASSUME T # {} PROVE FALSE
  OBVIOUS
<1>2. PICK k \in T : \A j \in T : k <= j
  <2>1. T \subseteq Nat
    OBVIOUS
  <2> HIDE DEF T
  <2> QED BY <1>1, <2>1, LeastExists
<1>3. k \in 0..n /\ k \notin A /\ k # 0
  BY <1>2
<1>4. k - 1 \in 0..(n - 1) /\ k - 1 \in 0..n /\ k - 1 \notin T
  BY <1>2, <1>3
<1>5. k - 1 \in A /\ (k - 1) + 1 = k
  BY <1>3, <1>4
<1> QED BY <1>3, <1>4, <1>5

(* The partial results of FlattenSeq. *)
Joins(S, q, n, f) ==
  /\ f \in [0..n -> Seq(S)] /\ f[0] = <<>>
  /\ \A i \in 1..n : f[i] = f[i - 1] \o q[i]

(* FlattenSeq joins the elements of a sequence one after the other. *)
LEMMA FlattenJoins ==
  ASSUME NEW S, NEW q \in Seq(Seq(S))
  PROVE  \E f : Joins(S, q, Len(q), f) /\ FlattenSeq(q) = f[Len(q)]
<1> DEFINE n == Len(q)
           A == {k \in 0..n : \E f : Joins(S, q, k, f)}
<1>1. n \in Nat /\ \A i \in 1..n : q[i] \in Seq(S)
  BY LenProperties, ElementOfSeq
<1> HIDE DEF n
<1>2. 0 \in A
  <2> DEFINE e == [i \in 0..0 |-> <<>>]
  <2>1. e \in [0..0 -> Seq(S)] /\ e[0] = <<>>
    BY EmptySeq
  <2>2. Joins(S, q, 0, e)
    BY <2>1 DEF Joins
  <2> QED BY <2>2, <1>1
<1>3. ASSUME NEW k \in 0..(n - 1), k \in A PROVE k + 1 \in A
  <2>1. PICK f : Joins(S, q, k, f)
    BY <1>3
  <2> DEFINE g == [i \in 0..(k + 1) |-> IF i <= k THEN f[i]
                                       ELSE f[k] \o q[k + 1]]
  <2>2. /\ f \in [0..k -> Seq(S)] /\ f[0] = <<>>
        /\ \A i \in 1..k : f[i] = f[i - 1] \o q[i]
    BY <2>1 DEF Joins
  <2>3. k \in Nat /\ k + 1 \in 1..n /\ k + 1 \in 0..n /\ ~(k + 1 <= k)
    BY <1>1
  <2>4. f[k] \o q[k + 1] \in Seq(S)
    BY <2>2, <2>3, <1>1, ConcatProperties
  <2>5. g \in [0..(k + 1) -> Seq(S)] /\ g[0] = <<>>
    BY <2>2, <2>3, <2>4
  <2>6. ASSUME NEW i \in 1..(k + 1) PROVE g[i] = g[i - 1] \o q[i]
    <3>1. i \in 0..(k + 1) /\ i - 1 \in 0..(k + 1) /\ i - 1 <= k
          /\ i \in Nat
      BY <2>3
    <3>2. g[i - 1] = f[i - 1] /\ g[i] = IF i <= k THEN f[i]
                                       ELSE f[k] \o q[k + 1]
      BY <3>1
    <3> HIDE DEF g
    <3>3. CASE i <= k
      <4>1. i \in 1..k
        BY <3>1, <3>3, <2>3
      <4> QED BY <4>1, <3>2, <3>3, <2>2
    <3>4. CASE ~(i <= k)
      <4>1. i = k + 1 /\ i - 1 = k
        BY <3>1, <3>4, <2>3
      <4> QED BY <4>1, <3>2, <3>4
    <3> QED BY <3>3, <3>4
  <2>7. Joins(S, q, k + 1, g)
    BY <2>5, <2>6 DEF Joins
  <2> QED BY <2>3, <2>7
<1>4. n \in A
  <2>1. \A i \in 0..n : i \in A
    BY <1>1, <1>2, <1>3, UpTo
  <2> QED BY <2>1, <1>1
<1>5. PICK f : Joins(S, q, n, f)
  BY <1>4
<1>6. /\ f \in [0..n -> Seq(S)] /\ f[0] = <<>>
      /\ \A i \in 1..n : f[i] = f[i - 1] \o q[i]
  BY <1>5 DEF Joins
<1>7. CASE n = 0
  <2>1. q = <<>>
    BY <1>7, EmptySeq DEF n
  <2>2. FlattenSeq(q) = q
    BY <1>7 DEF FlattenSeq, n
  <2> QED BY <2>1, <2>2, <1>5, <1>6, <1>7 DEF n
<1>8. CASE n # 0
  <2> DEFINE R(g) == [i \in 1..n |-> IF i = 1 THEN q[i] ELSE g[i - 1] \o q[i]]
             flat == CHOOSE g : g = R(g)
             h == [i \in 1..n |-> f[i]]
  <2>1. h = R(h)
    <3>1. ASSUME NEW i \in 1..n
          PROVE  f[i] = IF i = 1 THEN q[i] ELSE h[i - 1] \o q[i]
      <4>1. CASE i = 1
        <5>1. f[1] = <<>> \o q[1] /\ q[1] \in Seq(S)
          <6>1. 1 \in 1..n /\ 1 - 1 = 0
            BY <4>1
          <6> QED BY <6>1, <1>1, <1>6
        <5> QED BY <5>1, <4>1, ConcatEmptySeq
      <4>2. CASE i # 1
        <5>1. i - 1 \in 1..n
          BY <4>2, <1>1
        <5> QED BY <5>1, <4>2, <1>6
      <4> QED BY <4>1, <4>2
    <3> HIDE DEF h
    <3>2. h = [i \in 1..n |-> f[i]]
      BY DEF h
    <3> QED BY <3>1, <3>2
  <2>2. flat = R(flat)
    BY <2>1
  <2>3. FlattenSeq(q) = flat[n]
    BY <1>8 DEF FlattenSeq, n
  <2> HIDE DEF flat, h
  <2>4. \A i \in 1..n :
          flat[i] = IF i = 1 THEN q[i] ELSE flat[i - 1] \o q[i]
    BY <2>2
  <2> DEFINE B == {i \in 0..n : i = 0 \/ flat[i] = f[i]}
  <2>5. 0 \in B
    BY <1>1
  <2>6. ASSUME NEW i \in 0..(n - 1), i \in B PROVE i + 1 \in B
    <3>1. i + 1 \in 1..n /\ i + 1 \in 0..n /\ (i + 1) - 1 = i
      BY <1>1
    <3>2. CASE i = 0
      <4>1. flat[1] = q[1] /\ f[1] = <<>> \o q[1] /\ q[1] \in Seq(S)
        <5>1. 1 \in 1..n /\ 1 - 1 = 0
          BY <3>1, <3>2
        <5> QED BY <5>1, <2>4, <1>1, <1>6
      <4> QED BY <4>1, <3>1, <3>2, ConcatEmptySeq
    <3>3. CASE i # 0
      <4>1. i + 1 # 1 /\ flat[i] = f[i]
        BY <3>3, <2>6, <1>1
      <4>2. flat[i + 1] = flat[i] \o q[i + 1] /\ f[i + 1] = f[i] \o q[i + 1]
        BY <4>1, <3>1, <2>4, <1>6
      <4> QED BY <4>1, <4>2, <3>1
    <3> QED BY <3>2, <3>3
  <2>7. n \in B
    <3>1. \A i \in 0..n : i \in B
      BY <1>1, <2>5, <2>6, UpTo
    <3> QED BY <3>1, <1>1
  <2> QED BY <2>3, <2>7, <1>5, <1>8 DEF n
<1> QED BY <1>7, <1>8

(* Nothing is joined of nothing. *)
LEMMA FlattenEmpty == FlattenSeq(<<>>) = <<>>
BY DEF FlattenSeq

(* What is sent last comes out last. *)
LEMMA FlattenAppend ==
  ASSUME NEW S, NEW q \in Seq(Seq(S)), NEW x \in Seq(S)
  PROVE  /\ FlattenSeq(q) \in Seq(S)
         /\ FlattenSeq(Append(q, x)) = FlattenSeq(q) \o x
<1> DEFINE n == Len(q)
           p == Append(q, x)
<1>1. /\ n \in Nat /\ p \in Seq(Seq(S)) /\ Len(p) = n + 1
      /\ p[n + 1] = x /\ \A i \in 1..n : p[i] = q[i]
  BY LenProperties, AppendProperties
<1>2. PICK f : Joins(S, q, n, f) /\ FlattenSeq(q) = f[n]
  BY FlattenJoins
<1>3. PICK g : Joins(S, p, n + 1, g) /\ FlattenSeq(p) = g[n + 1]
  BY <1>1, FlattenJoins
<1> HIDE DEF n, p
<1>4. /\ f[0] = <<>> /\ \A i \in 1..n : f[i] = f[i - 1] \o q[i]
      /\ f[n] \in Seq(S)
  <2>1. n \in 0..n
    BY <1>1
  <2> QED BY <2>1, <1>2 DEF Joins
<1>5. g[0] = <<>> /\ \A i \in 1..(n + 1) : g[i] = g[i - 1] \o p[i]
  BY <1>3 DEF Joins
<1> DEFINE A == {i \in 0..n : f[i] = g[i]}
<1>6. 0 \in A
  BY <1>1, <1>4, <1>5
<1>7. ASSUME NEW i \in 0..(n - 1), i \in A PROVE i + 1 \in A
  <2>1. i + 1 \in 1..n /\ i + 1 \in 1..(n + 1) /\ i + 1 \in 0..n
        /\ (i + 1) - 1 = i
    BY <1>1
  <2>2. f[i + 1] = f[i] \o q[i + 1] /\ g[i + 1] = g[i] \o p[i + 1]
    BY <2>1, <1>4, <1>5
  <2> QED BY <2>1, <2>2, <1>1, <1>7
<1>8. f[n] = g[n]
  <2>1. \A i \in 0..n : i \in A
    <3> HIDE DEF A
    <3> QED BY <1>1, <1>6, <1>7, UpTo
  <2>2. n \in A
    BY <2>1, <1>1
  <2> QED BY <2>2
<1>9. g[n + 1] = g[n] \o x
  <2>1. n \in Nat
    BY <1>1
  <2>2. n + 1 \in 1..(n + 1) /\ (n + 1) - 1 = n
    BY ONLY <2>1
  <2> QED BY <2>2, <1>1, <1>5
<1> QED BY <1>2, <1>3, <1>4, <1>8, <1>9 DEF n, p

LEMMA FlattenType ==
  ASSUME NEW S, NEW q \in Seq(Seq(S))
  PROVE  FlattenSeq(q) \in Seq(S)
BY FlattenAppend, EmptySeq

(* What is taken first was in front. *)
LEMMA FlattenTail ==
  ASSUME NEW S, NEW q \in Seq(Seq(S)), q # <<>>
  PROVE  /\ Head(q) \in Seq(S) /\ Tail(q) \in Seq(Seq(S))
         /\ FlattenSeq(Tail(q)) \in Seq(S)
         /\ FlattenSeq(q) = Head(q) \o FlattenSeq(Tail(q))
<1> DEFINE n == Len(q)
           p == Tail(q)
<1>1. /\ n \in Nat /\ n > 0 /\ p \in Seq(Seq(S)) /\ Len(p) = n - 1
      /\ \A i \in 1..(n - 1) : p[i] = q[i + 1]
      /\ Head(q) = q[1] /\ \A i \in 1..n : q[i] \in Seq(S)
  BY LenProperties, HeadTailProperties, EmptySeq, ElementOfSeq
<1>2. PICK f : Joins(S, q, n, f) /\ FlattenSeq(q) = f[n]
  BY FlattenJoins
<1>3. PICK g : Joins(S, p, n - 1, g) /\ FlattenSeq(p) = g[n - 1]
  BY <1>1, FlattenJoins
<1> HIDE DEF n, p
<1>4. f[0] = <<>> /\ \A i \in 1..n : f[i] = f[i - 1] \o q[i]
  BY <1>1, <1>2 DEF Joins
<1>5. /\ g[0] = <<>> /\ \A i \in 1..(n - 1) : g[i] = g[i - 1] \o p[i]
      /\ \A i \in 0..(n - 1) : g[i] \in Seq(S)
  BY <1>1, <1>3 DEF Joins
<1> DEFINE A == {i \in 0..(n - 1) : f[i + 1] = q[1] \o g[i]}
<1>6. 0 \in A
  <2>1. 1 \in 1..n /\ 0 \in 0..(n - 1) /\ 0 + 1 = 1 /\ 1 - 1 = 0
    BY <1>1
  <2>2. f[1] = <<>> \o q[1] /\ q[1] \in Seq(S)
    BY <2>1, <1>1, <1>4
  <2>3. <<>> \o q[1] = q[1] /\ q[1] \o <<>> = q[1]
    BY <2>2, ConcatEmptySeq
  <2> QED BY <2>1, <2>2, <2>3, <1>5
<1>7. ASSUME NEW i \in 0..(n - 2), i \in A PROVE i + 1 \in A
  <2>1. /\ i \in 0..(n - 1) /\ i + 1 \in 1..(n - 1) /\ i + 1 \in 0..(n - 1)
        /\ (i + 1) - 1 = i /\ (i + 1) + 1 \in 1..n
        /\ ((i + 1) + 1) - 1 = i + 1 /\ 1 \in 1..n
    BY <1>1
  <2>2. /\ f[(i + 1) + 1] = f[i + 1] \o q[(i + 1) + 1]
        /\ g[i + 1] = g[i] \o p[i + 1] /\ p[i + 1] = q[(i + 1) + 1]
        /\ f[i + 1] = q[1] \o g[i]
    BY <2>1, <1>1, <1>4, <1>5, <1>7
  <2>3. q[1] \in Seq(S) /\ g[i] \in Seq(S) /\ q[(i + 1) + 1] \in Seq(S)
    BY <2>1, <1>1, <1>5
  <2> DEFINE a == q[1]
             b == g[i]
             c == q[(i + 1) + 1]
  <2>4. a \in Seq(S) /\ b \in Seq(S) /\ c \in Seq(S)
    BY <2>3
  <2> HIDE DEF a, b, c
  <2>5. (a \o b) \o c = a \o (b \o c)
    BY ONLY <2>4
  <2>6. f[(i + 1) + 1] = q[1] \o g[i + 1]
    BY <2>2, <2>5 DEF a, b, c
  <2> QED BY <2>1, <2>6
<1>8. f[n] = q[1] \o g[n - 1]
  <2>1. \A i \in 0..(n - 1) : i \in A
    <3>1. n - 1 \in Nat /\ (n - 1) - 1 = n - 2
      BY <1>1
    <3> QED BY <3>1, <1>6, <1>7, UpTo
  <2>2. n - 1 \in 0..(n - 1) /\ (n - 1) + 1 = n
    BY <1>1
  <2> QED BY <2>1, <2>2
<1>9. g[n - 1] \in Seq(S)
  <2>1. n - 1 \in 0..(n - 1)
    BY <1>1
  <2> QED BY <2>1, <1>5
<1> QED
  <2>1. Head(q) \in Seq(S) /\ p \in Seq(Seq(S))
    BY <1>1
  <2> QED BY <2>1, <1>1, <1>2, <1>3, <1>8, <1>9 DEF p

(* What a sequence of phrases comes to, when F says what each one does. *)
Through(F, q) == FlattenSeq([k \in DOMAIN q |-> F[q[k]]])
Tells(F, P, S) == F \in [P -> Seq(S)]

LEMMA ThroughAppend ==
  ASSUME NEW S, NEW P, NEW F, Tells(F, P, S), NEW q \in Seq(P), NEW x \in P
  PROVE  /\ Through(F, q) \in Seq(S)
         /\ Through(F, Append(q, x)) = Through(F, q) \o F[x]
<1> DEFINE m == [k \in DOMAIN q |-> F[q[k]]]
           p == Append(q, x)
           n == [k \in DOMAIN p |-> F[p[k]]]
<1>1. /\ p \in Seq(P) /\ Len(p) = Len(q) + 1 /\ Len(q) \in Nat
      /\ p[Len(q) + 1] = x /\ \A k \in 1..Len(q) : p[k] = q[k]
      /\ DOMAIN q = 1..Len(q) /\ DOMAIN p = 1..(Len(q) + 1)
      /\ \A k \in 1..Len(q) : q[k] \in P
      /\ F \in [P -> Seq(S)]
  BY AppendProperties, LenProperties, ElementOfSeq DEF Tells
<1> HIDE DEF p
<1>2. /\ m \in [1..Len(q) -> Seq(S)] /\ n \in [1..(Len(q) + 1) -> Seq(S)]
  <2>1. \A k \in 1..(Len(q) + 1) : p[k] \in P
    BY <1>1, ElementOfSeq
  <2> QED BY <1>1, <2>1
<1>3. m \in Seq(Seq(S)) /\ n \in Seq(Seq(S)) /\ Len(m) = Len(q)
      /\ Len(n) = Len(q) + 1
  BY <1>1, <1>2, SeqDef, LenProperties
<1>4. /\ n[Len(q) + 1] = F[x] /\ F[x] \in Seq(S)
      /\ \A k \in 1..Len(q) : n[k] = m[k]
  BY <1>1
<1> HIDE DEF m, n
<1>5. n = Append(m, F[x])
  <2> DEFINE a == Append(m, F[x])
  <2>1. /\ a \in Seq(Seq(S)) /\ Len(a) = Len(m) + 1 /\ a[Len(m) + 1] = F[x]
        /\ \A k \in 1..Len(m) : a[k] = m[k]
    BY <1>3, <1>4, AppendProperties
  <2> HIDE DEF a
  <2>2. \A k \in 1..(Len(q) + 1) : n[k] = a[k]
    <3> DEFINE l == Len(q)
    <3>1. /\ l \in Nat /\ a[l + 1] = F[x] /\ n[l + 1] = F[x]
          /\ \A k \in 1..l : n[k] = m[k] /\ a[k] = m[k]
      BY <1>1, <1>3, <1>4, <2>1
    <3> HIDE DEF l
    <3>2. ASSUME NEW k \in 1..(l + 1) PROVE n[k] = a[k]
      <4>1. k \in 1..l \/ k = l + 1
        BY <3>1
      <4> QED BY <4>1, <3>1
    <3> QED BY <3>2 DEF l
  <2>3. n = a
    BY <1>3, <2>1, <2>2, SeqEqual
  <2> QED BY <2>3 DEF a
<1>6. FlattenSeq(m) \in Seq(S) /\ FlattenSeq(n) = FlattenSeq(m) \o F[x]
  BY <1>3, <1>4, <1>5, FlattenAppend
<1> QED BY <1>6 DEF Through, m, n, p

LEMMA ThroughNone ==
  ASSUME NEW F
  PROVE  Through(F, <<>>) = <<>>
<1>1. [k \in DOMAIN <<>> |-> F[<<>>[k]]] = <<>>
  OBVIOUS
<1> QED BY <1>1, FlattenEmpty DEF Through

LEMMA ThroughTail ==
  ASSUME NEW S, NEW P, NEW F, Tells(F, P, S), NEW q \in Seq(P), q # <<>>
  PROVE  /\ Head(q) \in P /\ Tail(q) \in Seq(P) /\ F[Head(q)] \in Seq(S)
         /\ Through(F, Tail(q)) \in Seq(S)
         /\ Through(F, q) = F[Head(q)] \o Through(F, Tail(q))
<1> DEFINE m == [k \in DOMAIN q |-> F[q[k]]]
           p == Tail(q)
           n == [k \in DOMAIN p |-> F[p[k]]]
           l == Len(q)
<1>1. /\ p \in Seq(P) /\ Len(p) = l - 1 /\ l \in Nat /\ l > 0
      /\ \A k \in 1..(l - 1) : p[k] = q[k + 1]
      /\ Head(q) = q[1] /\ Head(q) \in P /\ \A k \in 1..l : q[k] \in P
      /\ DOMAIN q = 1..l /\ DOMAIN p = 1..(l - 1) /\ F \in [P -> Seq(S)]
  BY HeadTailProperties, LenProperties, ElementOfSeq, EmptySeq DEF Tells
<1> HIDE DEF p, l
<1>2. m \in [1..l -> Seq(S)] /\ n \in [1..(l - 1) -> Seq(S)]
  <2>1. \A k \in 1..(l - 1) : p[k] \in P
    BY <1>1
  <2> QED BY <1>1, <2>1
<1>3. /\ m \in Seq(Seq(S)) /\ n \in Seq(Seq(S))
      /\ Len(m) = l /\ Len(n) = l - 1
  BY <1>1, <1>2, SeqDef, LenProperties
<1>4. m[1] = F[Head(q)] /\ \A k \in 1..(l - 1) : n[k] = m[k + 1]
  BY <1>1
<1> HIDE DEF m, n
<1>5. m # <<>> /\ Head(m) = m[1]
  BY <1>1, <1>3, EmptySeq, HeadTailProperties
<1>6. n = Tail(m)
  <2> DEFINE t == Tail(m)
  <2>1. /\ t \in Seq(Seq(S)) /\ Len(t) = l - 1
        /\ \A k \in 1..(l - 1) : t[k] = m[k + 1]
    BY <1>3, <1>5, HeadTailProperties
  <2> HIDE DEF t
  <2>2. \A k \in 1..(l - 1) : n[k] = t[k]
    BY <1>4, <2>1
  <2>3. n = t
    BY <1>3, <2>1, <2>2, SeqEqual
  <2> QED BY <2>3 DEF t
<1>7. /\ FlattenSeq(n) \in Seq(S)
      /\ FlattenSeq(m) = m[1] \o FlattenSeq(n)
  BY <1>3, <1>5, <1>6, FlattenTail
<1> QED BY <1>1, <1>4, <1>7 DEF Through, m, n, p

-----------------------------------------------------------------------------
(* Joined sequences, their prefixes and their heads. *)

(* A sequence is a prefix of what continues it. *)
LEMMA PrefixOfJoin ==
  ASSUME NEW S, NEW s \in Seq(S), NEW t \in Seq(S)
  PROVE  IsPrefix(s, s \o t) /\ (t # <<>> => IsStrictPrefix(s, s \o t))
<1>1. Len(s) \in Nat /\ Len(t) \in Nat /\ Len(s \o t) = Len(s) + Len(t)
  BY Joined
<1>2. SubSeq(s \o t, 1, Len(s)) = SubSeq(s, 1, Len(s))
  <2>1. Len(s) \in 0..Len(s)
    BY <1>1
  <2> QED BY <2>1, CutJoined
<1>3. IsPrefix(s, s \o t)
  BY <1>1, <1>2 DEF IsPrefix
<1>4. t # <<>> => Len(t) # 0
  BY EmptySeq
<1>5. t # <<>> => s # s \o t
  BY <1>1, <1>4
<1> QED BY <1>3, <1>5 DEF IsStrictPrefix

(* The first of five pieces is a prefix of the whole. *)
LEMMA FirstOfFive ==
  ASSUME NEW S, NEW p \in Seq(S), NEW q \in Seq(S), NEW r \in Seq(S),
         NEW t \in Seq(S), NEW u \in Seq(S)
  PROVE  IsPrefix(p, (((p \o q) \o r) \o t) \o u)
<1> DEFINE a == q \o r
           b == a \o t
           c == b \o u
<1>1. a \in Seq(S) /\ (p \o q) \o r = p \o a
  BY ONLY p \in Seq(S), q \in Seq(S), r \in Seq(S)
<1> HIDE DEF a
<1>2. b \in Seq(S) /\ (p \o a) \o t = p \o b
  BY ONLY <1>1, p \in Seq(S), t \in Seq(S), SMTT(30)
<1> HIDE DEF b
<1>3. c \in Seq(S) /\ (p \o b) \o u = p \o c
  BY ONLY <1>2, p \in Seq(S), u \in Seq(S), SMTT(30)
<1> HIDE DEF c
<1>4. (((p \o q) \o r) \o t) \o u = p \o c
  BY <1>1, <1>2, <1>3
<1> QED BY <1>3, <1>4, PrefixOfJoin

(* What is passed on was in front. *)
LEMMA MoveHead ==
  ASSUME NEW S, NEW g \in Seq(S), NEW s \in Seq(S), s # <<>>
  PROVE  /\ Append(g, Head(s)) \in Seq(S) /\ Tail(s) \in Seq(S)
         /\ Append(g, Head(s)) \o Tail(s) = g \o s
<1>1. /\ Head(s) \in S /\ Tail(s) \in Seq(S) /\ Len(s) \in Nat
      /\ Len(Tail(s)) = Len(s) - 1 /\ Len(s) > 0 /\ Head(s) = s[1]
      /\ \A k \in 1..Len(Tail(s)) : Tail(s)[k] = s[k + 1]
  BY HeadTailProperties, LenProperties, EmptySeq, ElementOfSeq
<1> DEFINE x == Head(s)
           t == Tail(s)
           h == Append(g, x)
           l == Len(g)
           m == Len(s)
<1>2. /\ h \in Seq(S) /\ Len(h) = l + 1 /\ h[l + 1] = x /\ l \in Nat
      /\ \A k \in 1..l : h[k] = g[k]
  BY <1>1, AppendProperties, LenProperties
<1>3. /\ t \in Seq(S) /\ Len(t) = m - 1 /\ m \in Nat /\ m > 0 /\ x = s[1]
      /\ \A k \in 1..(m - 1) : t[k] = s[k + 1]
  BY <1>1
<1> HIDE DEF x, t, h
<1>4. /\ g \o s \in Seq(S) /\ Len(g \o s) = l + m
      /\ \A k \in 1..l : (g \o s)[k] = g[k]
      /\ \A k \in (l + 1)..(l + m) : (g \o s)[k] = s[k - l]
  BY Joined, ConcatProperties
<1>5. /\ h \o t \in Seq(S) /\ Len(h \o t) = Len(h) + Len(t)
      /\ \A k \in 1..Len(h) : (h \o t)[k] = h[k]
      /\ \A k \in (Len(h) + 1)..(Len(h) + Len(t)) :
           (h \o t)[k] = t[k - Len(h)]
  <2>1. h \in Seq(S) /\ t \in Seq(S)
    BY <1>2, <1>3
  <2> QED BY ONLY <2>1, Joined, Zenon
<1> HIDE DEF l, m
<1>6. Len(h \o t) = Len(g \o s)
  BY <1>2, <1>3, <1>4, <1>5
<1>7. ASSUME NEW k \in 1..(l + m) PROVE (h \o t)[k] = (g \o s)[k]
  <2>1. CASE k <= l
    <3>1. k \in 1..l /\ k \in 1..(l + 1)
      BY <2>1, <1>2, <1>3
    <3> QED BY <3>1, <1>2, <1>4, <1>5
  <2>2. CASE k = l + 1
    <3>1. k \in 1..(l + 1) /\ k \in (l + 1)..(l + m) /\ k - l = 1
      BY <2>2, <1>2, <1>3
    <3> QED BY <3>1, <2>2, <1>2, <1>3, <1>4, <1>5
  <2>3. CASE k > l + 1
    <3>1. /\ k \in (l + 1)..(l + m) /\ k - (l + 1) \in 1..(m - 1)
          /\ k \in ((l + 1) + 1)..((l + 1) + (m - 1))
          /\ (k - (l + 1)) + 1 = k - l
      BY <2>3, <1>2, <1>3
    <3>2. Len(h) = l + 1 /\ Len(t) = m - 1
      BY <1>2, <1>3
    <3>3. (h \o t)[k] = t[k - (l + 1)]
      BY <3>1, <3>2, <1>5
    <3>4. t[k - (l + 1)] = s[(k - (l + 1)) + 1]
      BY <3>1, <1>3
    <3>5. (g \o s)[k] = s[k - l]
      BY <3>1, <1>4
    <3> QED BY <3>1, <3>3, <3>4, <3>5
  <2> QED
    <3>1. k <= l \/ k = l + 1 \/ k > l + 1
      BY <1>2, <1>3
    <3> QED BY <3>1, <2>1, <2>2, <2>3
<1>8. h \o t = g \o s
  BY <1>4, <1>5, <1>6, <1>7, SeqEqual
<1> QED BY <1>2, <1>3, <1>8 DEF h, t, x

(* The head of what is not empty is the head of the whole. *)
LEMMA HeadOfJoin ==
  ASSUME NEW S, NEW p \in Seq(S), NEW q \in Seq(S), p # <<>>
  PROVE  Head(p \o q) = Head(p) /\ Tail(p \o q) = Tail(p) \o q
<1> DEFINE w == p \o q
           t == Tail(p)
           u == Tail(w)
           m == Len(p)
           n == Len(q)
<1>1. /\ w \in Seq(S) /\ Len(w) = m + n /\ m \in Nat /\ n \in Nat /\ m > 0
      /\ \A k \in 1..m : w[k] = p[k]
      /\ \A k \in (m + 1)..(m + n) : w[k] = q[k - m]
  BY Joined, ConcatProperties, LenProperties, EmptySeq
<1> HIDE DEF w
<1>2. /\ t \in Seq(S) /\ Len(t) = m - 1 /\ Head(p) = p[1]
      /\ \A k \in 1..(m - 1) : t[k] = p[k + 1]
  BY HeadTailProperties
<1>3. /\ u \in Seq(S) /\ Len(u) = (m + n) - 1 /\ Head(w) = w[1]
      /\ \A k \in 1..((m + n) - 1) : u[k] = w[k + 1]
  <2>1. w # <<>>
    BY <1>1, EmptySeq
  <2> QED BY <1>1, <2>1, HeadTailProperties
<1> HIDE DEF t, u, m, n
<1>4. /\ t \o q \in Seq(S) /\ Len(t \o q) = (m - 1) + n
      /\ \A k \in 1..(m - 1) : (t \o q)[k] = t[k]
      /\ \A k \in m..((m - 1) + n) : (t \o q)[k] = q[k - (m - 1)]
  <2>1. /\ t \o q \in Seq(S) /\ Len(t \o q) = Len(t) + Len(q)
        /\ \A k \in 1..Len(t) : (t \o q)[k] = t[k]
        /\ \A k \in (Len(t) + 1)..(Len(t) + Len(q)) :
             (t \o q)[k] = q[k - Len(t)]
    <3>1. t \in Seq(S) /\ q \in Seq(S)
      BY <1>2
    <3> QED BY ONLY <3>1, Joined, Zenon
  <2>2. Len(t) = m - 1 /\ Len(q) = n /\ (m - 1) + 1 = m
    BY <1>1, <1>2 DEF n
  <2> QED BY <2>1, <2>2
<1>5. ASSUME NEW k \in 1..((m + n) - 1) PROVE u[k] = (t \o q)[k]
  <2>1. CASE k <= m - 1
    <3>1. k \in 1..(m - 1) /\ k + 1 \in 1..m
      BY <2>1, <1>1
    <3> QED BY <3>1, <1>1, <1>2, <1>3, <1>4
  <2>2. CASE k > m - 1
    <3>1. /\ k \in m..((m - 1) + n) /\ k + 1 \in (m + 1)..(m + n)
          /\ (k + 1) - m = k - (m - 1)
      BY <2>2, <1>1
    <3>2. w[k + 1] = q[(k + 1) - m]
      BY <3>1, <1>1
    <3>3. (t \o q)[k] = q[k - (m - 1)]
      BY <3>1, <1>4
    <3> QED BY <3>1, <3>2, <3>3, <1>3
  <2>3. k <= m - 1 \/ k > m - 1
    BY <1>1
  <2> QED BY <2>1, <2>2, <2>3
<1>6. u = t \o q
  <2>1. (m + n) - 1 = (m - 1) + n
    BY <1>1
  <2> QED BY <2>1, <1>3, <1>4, <1>5, SeqEqual
<1>7. Head(w) = Head(p)
  BY <1>1, <1>2, <1>3
<1> QED BY <1>6, <1>7 DEF w, t, u

---------------------------------------------------------------------------
\* Sequences of one or two elements.
LEMMA OneOrTwo ==
  ASSUME NEW S, NEW q \in Seq(S), NEW r \in Seq(S), Len(q) = Len(r),
         \/ Len(q) = 1 /\ q[1] = r[1]
         \/ Len(q) = 2 /\ q[1] = r[1] /\ q[2] = r[2]
  PROVE  q = r
<1>1. \A i \in 1..Len(q) : q[i] = r[i]
  OBVIOUS
<1> QED BY ONLY <1>1, SeqEqual, q \in Seq(S), r \in Seq(S), Len(q) = Len(r)

\* The second of two.
LEMMA Second ==
  ASSUME NEW l, NEW m
  PROVE  SubSeq(<<l, m>>, 2, 2) = <<m>>
<1> DEFINE S == {l, m}
<1>1. /\ Len(<<m>>) = 1 /\ <<m>>[1] = m /\ Len(<<l, m>>) = 2
      /\ <<l, m>>[2] = m /\ <<m>> \in Seq(S) /\ <<l, m>> \in Seq(S)
  OBVIOUS
<1>2. /\ SubSeq(<<l, m>>, 2, 2) \in Seq(S)
      /\ Len(SubSeq(<<l, m>>, 2, 2)) = 1
      /\ SubSeq(<<l, m>>, 2, 2)[1] = m
  BY <1>1, Cut
<1> QED BY ONLY <1>1, <1>2, OneOrTwo

\* What sequences of one or two elements are made of.
LEMMA OneAndTwo ==
  ASSUME NEW l, NEW m
  PROVE  /\ Len(<<>>) = 0 /\ Len(<<l>>) = 1 /\ Len(<<l, m>>) = 2
         /\ <<l>>[1] = l /\ <<l, m>>[1] = l /\ <<l, m>>[2] = m
         /\ SubSeq(<<l>>, 1, 1) = <<l>> /\ SubSeq(<<l>>, 2, 1) = <<>>
         /\ SubSeq(<<l, m>>, 1, 1) = <<l>> /\ SubSeq(<<l, m>>, 2, 2) = <<m>>
         /\ SubSeq(<<l, m>>, 1, 2) = <<l, m>> /\ SubSeq(<<l, m>>, 3, 2) = <<>>
         /\ <<>> \o <<l>> = <<l>> /\ <<l>> \o <<>> = <<l>>
         /\ <<l>> \o <<m>> = <<l, m>> /\ <<>> \o <<l, m>> = <<l, m>>
         /\ Append(<<>>, l) = <<l>>
         /\ Head(<<l>>) = l /\ Tail(<<l>>) = <<>>
         /\ <<l>> # <<>> /\ <<l, m>> # <<>>
<1> DEFINE S == {l, m}
<1>1. /\ Len(<<>>) = 0 /\ Len(<<l>>) = 1 /\ Len(<<l, m>>) = 2
      /\ <<l>>[1] = l /\ <<l, m>>[1] = l /\ <<l, m>>[2] = m
      /\ Len(<<m>>) = 1 /\ <<m>>[1] = m
  OBVIOUS
<1>2. <<>> \in Seq(S) /\ <<l>> \in Seq(S) /\ <<m>> \in Seq(S)
      /\ <<l, m>> \in Seq(S)
  OBVIOUS
<1>3. <<>> \o <<l>> = <<l>> /\ <<l>> \o <<>> = <<l>>
      /\ <<>> \o <<l, m>> = <<l, m>>
  BY ConcatEmptySeq, <1>2
<1> HIDE DEF S
<1>4. <<l>> \o <<m>> = <<l, m>>
  <2>1. /\ <<l>> \o <<m>> \in Seq(S) /\ Len(<<l>> \o <<m>>) = 2
        /\ (<<l>> \o <<m>>)[1] = l
    BY <1>2, ConcatProperties
  <2>2. (<<l>> \o <<m>>)[2] = m
    BY <1>2, ConcatProperties
  <2> QED BY ONLY <1>1, <1>2, <2>1, <2>2, OneOrTwo
<1>5. SubSeq(<<l>>, 1, 1) = <<l>> /\ SubSeq(<<l, m>>, 1, 2) = <<l, m>>
  BY <1>1, <1>2, SubSeqFull
<1>6. SubSeq(<<l>>, 2, 1) = <<>> /\ SubSeq(<<l, m>>, 3, 2) = <<>>
  BY <1>2, SubSeqEmpty
<1>7. SubSeq(<<l, m>>, 1, 1) = <<l>>
  <2>1. /\ SubSeq(<<l, m>>, 1, 1) \in Seq(S)
        /\ Len(SubSeq(<<l, m>>, 1, 1)) = 1
        /\ SubSeq(<<l, m>>, 1, 1)[1] = l
    BY <1>1, <1>2, Cut
  <2> QED BY ONLY <1>1, <1>2, <2>1, OneOrTwo
<1>8. SubSeq(<<l, m>>, 2, 2) = <<m>>
  BY Second
<1>9. Append(<<>>, l) = <<l>>
  BY <1>2, <1>3, AppendIsConcat DEF S
<1>10. Head(<<l>>) = l /\ Tail(<<l>>) = <<>>
  OBVIOUS
<1>11. <<l>> # <<>> /\ <<l, m>> # <<>>
  OBVIOUS
<1> QED BY <1>1, <1>3, <1>4, <1>5, <1>6, <1>7, <1>8, <1>9, <1>10, <1>11

\* What a portion of one element, or of two, leaves.
LEMMA Portion ==
  ASSUME NEW l, NEW w, w = <<l>>, NEW n \in 1..Len(w)
  PROVE  SubSeq(w, 1, n) = <<l>> /\ SubSeq(w, n + 1, Len(w)) = <<>>
<1>1. Len(w) = 1
  BY OneAndTwo
<1>2. n = 1 /\ n + 1 = 2
  BY <1>1
<1> QED BY <1>1, <1>2, OneAndTwo

\* The same for two.
LEMMA PortionOfTwo ==
  ASSUME NEW l, NEW m, NEW w, w = <<l, m>>, NEW n \in 1..Len(w)
  PROVE  \/ SubSeq(w, 1, n) = <<l>> /\ SubSeq(w, n + 1, Len(w)) = <<m>>
         \/ SubSeq(w, 1, n) = <<l, m>> /\ SubSeq(w, n + 1, Len(w)) = <<>>
<1>1. Len(w) = 2
  BY OneAndTwo
<1>2. CASE n = 1
  <2>1. n + 1 = 2
    BY <1>2
  <2>2. SubSeq(<<l, m>>, 1, 1) = <<l>>
    BY ONLY OneAndTwo
  <2>3. SubSeq(<<l, m>>, 2, 2) = <<m>>
    BY ONLY Second, Zenon
  <2> QED BY ONLY w = <<l, m>>, <1>1, <1>2, <2>1, <2>2, <2>3, Zenon
<1>3. CASE n = 2
  <2>1. n + 1 = 3
    BY <1>3
  <2>2. /\ SubSeq(<<l, m>>, 1, 2) = <<l, m>>
        /\ SubSeq(<<l, m>>, 3, 2) = <<>>
    BY OneAndTwo
  <2> QED BY ONLY w = <<l, m>>, <1>1, <1>3, <2>1, <2>2, Zenon
<1> QED BY <1>1, <1>2, <1>3

=============================================================================
