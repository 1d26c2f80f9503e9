---------------------------- MODULE Collections ----------------------------
(***************************************************************************)
(* Lemmas about sets of numbers and about the operators on sequences that  *)
(* the models use.                                                         *)
(***************************************************************************)
EXTENDS SequencesExt, FiniteSetTheorems, SequenceTheorems, TLAPS
-----------------------------------------------------------------------------
(***************************************************************************)
(* A finite nonempty set of integers has a least and a greatest element.   *)
(* FiniteSetsExt defines Min and Max by CHOOSE; these lemmas say that there*)
(* is something to choose.                                                 *)
(***************************************************************************)

\* A nonempty set of naturals has a least element.
LEMMA LessThanIsWellFounded ==
    ASSUME NEW T \in SUBSET Nat, T # {}
    PROVE  \E x \in T : \A y \in T : x <= y
<1> DEFINE LT == {ss \in Nat \X Nat : ss[1] < ss[2]}
<1>1. LT = OpToRel(<, Nat)
  BY Zenon DEF OpToRel
<1>2. IsWellFoundedOn(LT, Nat)
  BY <1>1, NatLessThanWellFounded, Zenon
<1>3. PICK x \in T : \A y \in T : ~ (<<y, x>> \in LT)
  <2> HIDE DEF LT
  <2> QED  BY <1>2, WFMin
<1>4. ASSUME NEW y \in T, y < x
      PROVE  FALSE
  <2>1. x \in Nat /\ y \in Nat
    OBVIOUS
  <2>2. <<y, x>> \in LT
    BY <2>1, <1>4
  <2> QED  BY <2>2, <1>3
<1>5. \A y \in T : x \in Nat /\ y \in Nat
  OBVIOUS
<1> QED  BY <1>4, <1>5

\* A finite nonempty set of integers has an upper bound in it: take a member
\* with the fewest members above it.
LEMMA UpperBoundExists ==
    ASSUME NEW S \in SUBSET Int, S # {}, IsFiniteSet(S)
    PROVE  \E x \in S : \A y \in S : x >= y
<1> DEFINE Above(x) == {y \in S : y > x}
           N == {Cardinality(Above(x)) : x \in S}
<1>0. \A x \in S : x \in Int
  OBVIOUS
<1>1. \A x \in S : IsFiniteSet(Above(x)) /\ Cardinality(Above(x)) \in Nat
  <2> TAKE x \in S
  <2>1. Above(x) \in SUBSET S
    OBVIOUS
  <2> QED  BY <2>1, FS_Subset, FS_CardinalityType
<1>2. PICK x \in S : \A z \in S : Cardinality(Above(x)) <= Cardinality(Above(z))
  <2>1. N \in SUBSET Nat /\ N # {}
    BY <1>1
  <2>2. PICK n \in N : \A m \in N : n <= m
    <3> HIDE DEF N
    <3> QED  BY <2>1, LessThanIsWellFounded
  <2> QED  BY <2>2
<1>3. ASSUME NEW y \in S, y > x
      PROVE  FALSE
  <2>1. \A z \in Above(y) : z \in Above(x)
    BY <1>0, <1>3
  <2>2. y \in Above(x) /\ y \notin Above(y)
    BY <1>0, <1>3
  <2>3. Cardinality(Above(y)) <= Cardinality(Above(x))
        /\ Cardinality(Above(y)) # Cardinality(Above(x))
    <3>1. IsFiniteSet(Above(x))
      BY <1>1
    <3>2. Above(y) \in SUBSET Above(x) /\ Above(y) # Above(x)
      BY <2>1, <2>2
    <3> HIDE DEF Above
    <3> QED  BY <3>1, <3>2, FS_Subset
  <2>4. Cardinality(Above(x)) <= Cardinality(Above(y))
        /\ Cardinality(Above(x)) \in Nat /\ Cardinality(Above(y)) \in Nat
    BY <1>1, <1>2
  <2> HIDE DEF Above
  <2> QED  BY <2>3, <2>4
<1>4. \A y \in S : x >= y
  BY <1>0, <1>3
<1> QED  BY <1>4

LEMMA MaxProperties ==
    ASSUME NEW S \in SUBSET Int, S # {}, IsFiniteSet(S)
    PROVE  Max(S) \in S /\ \A y \in S : y <= Max(S)
<1>1. PICK x \in S : \A y \in S : x >= y
  BY UpperBoundExists
<1>2. Max(S) \in S /\ \A y \in S : Max(S) >= y
  BY <1>1 DEF Max
<1> QED  BY <1>2

LEMMA MinProperties ==
    ASSUME NEW S \in SUBSET Int, S # {}, IsFiniteSet(S)
    PROVE  Min(S) \in S /\ \A y \in S : Min(S) <= y
<1> DEFINE f == [x \in S |-> 0 - x]
           T == {f[x] : x \in S}
<1>1. f \in Surjection(S, T)
  BY DEF Surjection
<1>2. IsFiniteSet(T)
  <2> HIDE DEF f, T
  <2> QED  BY <1>1, FS_Surjection
<1>3. T \in SUBSET Int /\ T # {}
  <2>1. \A x \in S : f[x] \in Int
    OBVIOUS
  <2> QED  BY <2>1
<1>4. PICK z \in T : \A y \in T : z >= y
  <2> HIDE DEF T
  <2> QED  BY <1>2, <1>3, UpperBoundExists
<1>5. PICK x \in S : z = 0 - x
  OBVIOUS
<1>6. \A y \in S : 0 - y \in T
  OBVIOUS
<1>7. \A y \in S : x <= y
  <2> TAKE y \in S
  <2>1. 0 - x >= 0 - y
    BY <1>4, <1>5, <1>6
  <2>2. x \in Int /\ y \in Int
    OBVIOUS
  <2> HIDE DEF T, f
  <2> QED  BY <2>1, <2>2
<1>8. Min(S) \in S /\ \A y \in S : Min(S) <= y
  BY <1>7 DEF Min
<1> QED  BY <1>8
-----------------------------------------------------------------------------
(* Where the elements of a list come from, index by index. *)

\* The list `new` is `old` with e at place q.
Spliced(old, new, q, e) ==
    /\ q \in 1 .. Len(old) + 1
    /\ Len(new) = Len(old) + 1
    /\ \A j \in 1 .. q - 1 : new[j] = old[j]
    /\ new[q] = e
    /\ \A j \in q + 1 .. Len(old) + 1 : new[j] = old[j - 1]

\* The list `new` is `old` without the element at place q.
Closed(old, new, q) ==
    /\ Len(new) = Len(old) - 1
    /\ \A j \in 1 .. q - 1 : new[j] = old[j]
    /\ \A j \in q .. Len(old) - 1 : new[j] = old[j + 1]

\* Where the elements of a list are once e is inserted at place i.
LEMMA InsertAtProperties ==
    ASSUME NEW S, NEW s \in Seq(S), NEW i \in 1 .. Len(s) + 1, NEW e \in S
    PROVE  InsertAt(s, i, e) \in Seq(S) /\ Spliced(s, InsertAt(s, i, e), i, e)
<1> DEFINE n == Len(s)
           l == SubSeq(s, 1, i - 1)
           m == l \o <<e>>
           r == SubSeq(s, i, n)
<1>1. n \in Nat /\ i \in Nat /\ 1 <= i /\ i <= n + 1 /\ s \in [1 .. n -> S]
  OBVIOUS
<1> HIDE DEF n
<1>2. /\ l \in Seq(S) /\ Len(l) = i - 1
      /\ \A j \in 1 .. i - 1 : l[j] = s[j]
  <2>1. \A j \in 1 .. i - 1 : s[j] \in S
    BY <1>1
  <2>2. /\ Len(l) = IF 1 <= i - 1 THEN (i - 1) - 1 + 1 ELSE 0
        /\ \A j \in 1 .. (i - 1) - 1 + 1 : l[j] = s[1 + j - 1]
        /\ l \in Seq(S)
    BY <1>1, <2>1, SubSeqProperties
  <2> HIDE DEF l
  <2>3. Len(l) = i - 1
    BY <1>1, <2>2
  <2>4. \A j \in 1 .. i - 1 : j \in 1 .. (i - 1) - 1 + 1 /\ 1 + j - 1 = j
    BY <1>1
  <2> QED  BY <2>2, <2>3, <2>4
<1>3. /\ r \in Seq(S) /\ Len(r) = n - i + 1
      /\ \A j \in 1 .. n - i + 1 : r[j] = s[i + j - 1]
  <2>1. \A j \in i .. n : s[j] \in S
    BY <1>1
  <2>2. /\ Len(r) = IF i <= n THEN n - i + 1 ELSE 0
        /\ \A j \in 1 .. n - i + 1 : r[j] = s[i + j - 1]
        /\ r \in Seq(S)
    BY <1>1, <2>1, SubSeqProperties
  <2> HIDE DEF r
  <2> QED  BY <1>1, <2>2
<1> HIDE DEF l, r
<1>4. /\ m \in Seq(S) /\ Len(m) = i
      /\ \A j \in 1 .. i - 1 : m[j] = s[j]
      /\ m[i] = e
  <2>1. <<e>> \in Seq(S) /\ Len(<<e>>) = 1 /\ <<e>>[1] = e
    OBVIOUS
  <2>2. /\ m \in Seq(S) /\ Len(m) = Len(l) + 1
        /\ \A j \in 1 .. Len(l) + 1 :
             m[j] = IF j <= Len(l) THEN l[j] ELSE <<e>>[j - Len(l)]
    BY <1>2, <2>1, ConcatProperties
  <2> HIDE DEF m
  <2>3. Len(m) = i /\ i - 1 + 1 = i /\ i - (i - 1) = 1
    BY <1>1, <1>2, <2>2
  <2>4. \A j \in 1 .. i : m[j] = IF j <= i - 1 THEN l[j] ELSE <<e>>[j - (i - 1)]
    BY <1>2, <2>2, <2>3
  <2>5. m[i] = <<e>>[i - (i - 1)]
    BY <1>1, <2>4
  <2>6. \A j \in 1 .. i - 1 : j \in 1 .. i /\ j <= i - 1
    BY <1>1
  <2> QED  BY <1>2, <2>1, <2>2, <2>3, <2>4, <2>5, <2>6
<1> HIDE DEF m
<1>5. InsertAt(s, i, e) = m \o r
  BY DEF InsertAt, m, l, r, n
<1>6. /\ m \o r \in Seq(S) /\ Len(m \o r) = n + 1
      /\ \A j \in 1 .. n + 1 : (m \o r)[j] = IF j <= i THEN m[j] ELSE r[j - i]
  <2>1. /\ m \o r \in Seq(S) /\ Len(m \o r) = Len(m) + Len(r)
        /\ \A j \in 1 .. Len(m) + Len(r) :
             (m \o r)[j] = IF j <= Len(m) THEN m[j] ELSE r[j - Len(m)]
    BY <1>3, <1>4, ConcatProperties
  <2>2. Len(m) + Len(r) = n + 1
    BY <1>1, <1>3, <1>4
  <2> QED  BY <1>4, <2>1, <2>2
<1>7. /\ \A j \in 1 .. i - 1 : (m \o r)[j] = s[j]
      /\ (m \o r)[i] = e
      /\ \A j \in i + 1 .. n + 1 : (m \o r)[j] = s[j - 1]
  <2>1. \A j \in 1 .. i - 1 : j \in 1 .. n + 1 /\ j <= i
    BY <1>1
  <2>2. i \in 1 .. n + 1 /\ i <= i
    BY <1>1
  <2>3. \A j \in i + 1 .. n + 1 : /\ j \in 1 .. n + 1 /\ ~(j <= i)
                                 /\ j - i \in 1 .. n - i + 1
                                 /\ i + (j - i) - 1 = j - 1
    BY <1>1
  <2>4. \A j \in i + 1 .. n + 1 : r[j - i] = s[j - 1]
    BY <1>3, <2>3
  <2> QED  BY <1>4, <1>6, <2>1, <2>2, <2>3, <2>4
<1> QED  BY <1>1, <1>5, <1>6, <1>7 DEF n, Spliced

\* There is a first place at or after p that is in T, or the end.
LEMMA FirstPlace ==
    ASSUME NEW n \in Nat, NEW p \in 1 .. n + 1, NEW T
    PROVE  \E q \in p .. n + 1 : /\ q \in 1 .. n => q \in T
                                 /\ \A r \in p .. q - 1 : r \notin T
<1> DEFINE C == {q \in p .. n + 1 : q = n + 1 \/ q \in T}
<1>1. C \in SUBSET Nat /\ n + 1 \in C
  OBVIOUS
<1>2. PICK q \in C : \A r \in C : q <= r
  <2> HIDE DEF C
  <2> QED  BY <1>1, LessThanIsWellFounded
<1>3. q \in p .. n + 1 /\ (q \in 1 .. n => q \in T)
  BY <1>2
<1>4. \A r \in p .. q - 1 : r \in p .. n + 1 /\ ~(q <= r)
  BY <1>3
<1>5. \A r \in p .. q - 1 : r \notin T
  BY <1>2, <1>4
<1> QED  BY <1>3, <1>5

\* Where the elements of a list are once the one at place i is removed.
LEMMA RemoveAtProperties ==
    ASSUME NEW S, NEW s \in Seq(S), NEW i \in 1 .. Len(s)
    PROVE  RemoveAt(s, i) \in Seq(S) /\ Closed(s, RemoveAt(s, i), i)
<1> DEFINE n == Len(s)
           l == SubSeq(s, 1, i - 1)
           r == SubSeq(s, i + 1, n)
<1>1. n \in Nat /\ i \in Nat /\ 1 <= i /\ i <= n /\ s \in [1 .. n -> S]
  OBVIOUS
<1> HIDE DEF n
<1>2. /\ l \in Seq(S) /\ Len(l) = i - 1
      /\ \A j \in 1 .. i - 1 : l[j] = s[j]
  <2>1. \A j \in 1 .. i - 1 : s[j] \in S
    BY <1>1
  <2>2. /\ Len(l) = IF 1 <= i - 1 THEN (i - 1) - 1 + 1 ELSE 0
        /\ \A j \in 1 .. (i - 1) - 1 + 1 : l[j] = s[1 + j - 1]
        /\ l \in Seq(S)
    BY <1>1, <2>1, SubSeqProperties
  <2> HIDE DEF l
  <2>3. Len(l) = i - 1
    BY <1>1, <2>2
  <2>4. \A j \in 1 .. i - 1 : j \in 1 .. (i - 1) - 1 + 1 /\ 1 + j - 1 = j
    BY <1>1
  <2> QED  BY <2>2, <2>3, <2>4
<1>3. /\ r \in Seq(S) /\ Len(r) = n - i
      /\ \A j \in 1 .. n - i : r[j] = s[i + j]
  <2>1. \A j \in i + 1 .. n : s[j] \in S
    BY <1>1
  <2>2. /\ Len(r) = IF i + 1 <= n THEN n - (i + 1) + 1 ELSE 0
        /\ \A j \in 1 .. n - (i + 1) + 1 : r[j] = s[(i + 1) + j - 1]
        /\ r \in Seq(S)
    BY <1>1, <2>1, SubSeqProperties
  <2> HIDE DEF r
  <2>3. Len(r) = n - i
    BY <1>1, <2>2
  <2>4. \A j \in 1 .. n - i : j \in 1 .. n - (i + 1) + 1 /\ (i + 1) + j - 1 = i + j
    BY <1>1
  <2> QED  BY <2>2, <2>3, <2>4
<1> HIDE DEF l, r
<1>4. /\ l \o r \in Seq(S) /\ Len(l \o r) = n - 1
      /\ \A j \in 1 .. n - 1 : (l \o r)[j] = IF j <= i - 1 THEN l[j] ELSE r[j - (i - 1)]
  <2>1. /\ l \o r \in Seq(S) /\ Len(l \o r) = Len(l) + Len(r)
        /\ \A j \in 1 .. Len(l) + Len(r) :
             (l \o r)[j] = IF j <= Len(l) THEN l[j] ELSE r[j - Len(l)]
    BY <1>2, <1>3, ConcatProperties
  <2>2. Len(l) + Len(r) = n - 1
    BY <1>1, <1>2, <1>3
  <2> QED  BY <1>2, <2>1, <2>2
<1>5. /\ \A j \in 1 .. i - 1 : (l \o r)[j] = s[j]
      /\ \A j \in i .. n - 1 : (l \o r)[j] = s[j + 1]
  <2>1. \A j \in 1 .. i - 1 : j \in 1 .. n - 1 /\ j <= i - 1
    BY <1>1
  <2>2. \A j \in i .. n - 1 : /\ j \in 1 .. n - 1 /\ ~(j <= i - 1)
                              /\ j - (i - 1) \in 1 .. n - i
                              /\ i + (j - (i - 1)) = j + 1
    BY <1>1
  <2> QED  BY <1>2, <1>3, <1>4, <2>1, <2>2
<1>6. RemoveAt(s, i) = l \o r
  BY DEF RemoveAt, l, r, n
<1> QED  BY <1>4, <1>5, <1>6 DEF n, Closed

\* A part of a list.
LEMMA PartOf ==
    ASSUME NEW S, NEW s \in Seq(S), NEW a \in Nat \ {0}, NEW b \in Nat,
           a <= b + 1, b <= Len(s)
    PROVE  /\ SubSeq(s, a, b) \in Seq(S)
           /\ Len(SubSeq(s, a, b)) = b - a + 1
           /\ \A j \in 1 .. b - a + 1 : SubSeq(s, a, b)[j] = s[a + j - 1]
<1> DEFINE r == SubSeq(s, a, b)
<1>1. \A j \in a .. b : s[j] \in S
  OBVIOUS
<1>2. /\ Len(r) = IF a <= b THEN b - a + 1 ELSE 0
      /\ \A j \in 1 .. b - a + 1 : r[j] = s[a + j - 1]
      /\ r \in Seq(S)
  BY <1>1, SubSeqProperties
<1> HIDE DEF r
<1>3. Len(r) = b - a + 1
  BY <1>2
<1> QED  BY <1>2, <1>3 DEF r

LEMMA FrontProperties ==
    ASSUME NEW S, NEW s \in Seq(S), Len(s) # 0
    PROVE  /\ Front(s) \in Seq(S) /\ Len(Front(s)) = Len(s) - 1
           /\ \A j \in 1 .. Len(s) - 1 : Front(s)[j] = s[j]
<1>1. Len(s) \in Nat /\ Len(s) >= 1 /\ Len(s) - 1 \in Nat
  OBVIOUS
<1>2. Front(s) = SubSeq(s, 1, Len(s) - 1)
  BY DEF Front
<1>3. PICK m \in Nat : m = Len(s) - 1
  BY <1>1
<1>4. /\ SubSeq(s, 1, m) \in Seq(S)
      /\ Len(SubSeq(s, 1, m)) = m - 1 + 1
      /\ \A j \in 1 .. m - 1 + 1 : SubSeq(s, 1, m)[j] = s[1 + j - 1]
  BY <1>1, <1>3, PartOf
<1>5. m - 1 + 1 = m /\ \A j \in 1 .. m : 1 + j - 1 = j
  BY <1>3
<1>6. \A j \in 1 .. m : SubSeq(s, 1, m)[j] = s[j]
  BY <1>4, <1>5
<1> QED  BY <1>2, <1>3, <1>4, <1>5, <1>6

LEMMA TailProperties ==
    ASSUME NEW S, NEW s \in Seq(S), Len(s) # 0
    PROVE  /\ Tail(s) \in Seq(S) /\ Len(Tail(s)) = Len(s) - 1
           /\ \A j \in 1 .. Len(s) - 1 : Tail(s)[j] = s[j + 1]
<1>1. Tail(s) \in Seq(S) /\ Len(Tail(s)) = Len(s) - 1
  OBVIOUS
<1>2. \A j \in 1 .. Len(s) - 1 : Tail(s)[j] = s[j + 1]
  BY <1>1
<1> QED  BY <1>1, <1>2

LEMMA ConsProperties ==
    ASSUME NEW S, NEW s \in Seq(S), NEW e \in S
    PROVE  /\ Cons(e, s) \in Seq(S) /\ Len(Cons(e, s)) = Len(s) + 1
           /\ Cons(e, s)[1] = e
           /\ \A j \in 2 .. Len(s) + 1 : Cons(e, s)[j] = s[j - 1]
<1>1. <<e>> \in Seq(S) /\ Len(<<e>>) = 1 /\ <<e>>[1] = e /\ Len(s) \in Nat
  OBVIOUS
<1>2. Cons(e, s) = <<e>> \o s
  BY DEF Cons
<1>3. /\ <<e>> \o s \in Seq(S) /\ Len(<<e>> \o s) = Len(<<e>>) + Len(s)
      /\ \A j \in 1 .. Len(<<e>>) + Len(s) :
           (<<e>> \o s)[j] = IF j <= Len(<<e>>) THEN <<e>>[j] ELSE s[j - Len(<<e>>)]
  BY <1>1, ConcatProperties
<1>4. Len(<<e>>) + Len(s) = Len(s) + 1
  BY <1>1
<1>5. \A j \in 1 .. Len(s) + 1 :
        (<<e>> \o s)[j] = IF j <= 1 THEN <<e>>[j] ELSE s[j - 1]
  BY <1>1, <1>3, <1>4
<1>6. (<<e>> \o s)[1] = e
  BY <1>1, <1>5
<1>7. \A j \in 2 .. Len(s) + 1 : (<<e>> \o s)[j] = s[j - 1]
  BY <1>1, <1>5
<1> QED  BY <1>2, <1>3, <1>4, <1>6, <1>7

\* e is an element of s.
Holds(s, e) == \E i \in 1 .. Len(s) : s[i] = e

\* No element of s is there twice.
Differ(s) == \A i, j \in 1 .. Len(s) : s[i] = s[j] => i = j

\* A list with one element more: its elements.
LEMMA SplicedElements ==
    ASSUME NEW S, NEW s \in Seq(S), NEW T, NEW t \in Seq(T), NEW q, NEW e, Spliced(s, t, q, e)
    PROVE  /\ Len(t) = Len(s) + 1 /\ Len(s) \in Nat
           /\ \A x : Holds(t, x) <=> x = e \/ Holds(s, x)
           /\ Differ(s) /\ ~Holds(s, e) => Differ(t)
<1>1. PICK n \in Nat : n = Len(s)
  OBVIOUS
<1>2. /\ q \in 1 .. n + 1 /\ Len(t) = n + 1 /\ \A j \in 1 .. q - 1 : t[j] = s[j]
      /\ t[q] = e /\ \A j \in q + 1 .. n + 1 : t[j] = s[j - 1]
  BY <1>1 DEF Spliced
<1>3. \A j \in 1 .. n + 1 : \/ j \in 1 .. q - 1 /\ j \in 1 .. n /\ t[j] = s[j]
                            \/ j = q /\ t[j] = e
                            \/ j \in q + 1 .. n + 1 /\ j - 1 \in 1 .. n /\ t[j] = s[j - 1]
  BY <1>2
<1> DEFINE From(j, x) == t[j] = s[x] /\ ((x = j /\ j < q) \/ (x = j - 1 /\ j > q))
<1>7. \A j \in 1 .. n + 1 : j # q => \E x \in 1 .. n : From(j, x)
  <2> TAKE j \in 1 .. n + 1
  <2> HAVE j # q
  <2>1. CASE j < q
    <3>1. j \in 1 .. n /\ t[j] = s[j]
      BY <1>2, <1>3, <2>1
    <3>2. From(j, j)
      BY <2>1, <3>1
    <3> HIDE DEF From
    <3> QED  BY <3>1, <3>2
  <2>2. CASE ~(j < q)
    <3>1. PICK x \in 1 .. n : x = j - 1 /\ t[j] = s[x] /\ j > q
      <4>1. j \in q + 1 .. n + 1 /\ j - 1 \in 1 .. n /\ j > q
        BY <1>2, <2>2
      <4>2. t[j] = s[j - 1]
        BY <1>2, <4>1
      <4> QED  BY <4>1, <4>2
    <3>2. From(j, x)
      BY <3>1
    <3> HIDE DEF From
    <3> QED  BY <3>2
  <2> QED  BY <2>1, <2>2
<1>4. \A j \in 1 .. n + 1 : t[j] = e \/ \E x \in 1 .. n : t[j] = s[x]
  BY <1>3
<1>5. ASSUME NEW x \in 1 .. n
      PROVE  \E j \in 1 .. n + 1 : t[j] = s[x]
  <2>1. CASE x < q
    <3>1. x \in 1 .. n + 1 /\ x \in 1 .. q - 1
      BY <1>2, <2>1
    <3> QED  BY <1>2, <3>1
  <2>2. CASE ~(x < q)
    <3>1. PICK j \in Nat : j = x + 1
      OBVIOUS
    <3>2. j \in 1 .. n + 1 /\ j \in q + 1 .. n + 1 /\ j - 1 = x
      BY <1>2, <2>2, <3>1
    <3>3. t[j] = s[j - 1]
      BY <1>2, <3>2
    <3> QED  BY <3>2, <3>3
  <2> QED  BY <2>1, <2>2
<1>6. ASSUME \A i, j \in 1 .. n : s[i] = s[j] => i = j, \A i \in 1 .. n : s[i] # e,
             NEW i \in 1 .. n + 1, NEW j \in 1 .. n + 1, t[i] = t[j]
      PROVE  i = j
  <2>1. CASE i = q
    BY <1>3, <1>6, <2>1
  <2>2. CASE j = q
    BY <1>3, <1>6, <2>2
  <2>3. CASE i # q /\ j # q
    <3>1. PICK x \in 1 .. n : From(i, x)
      BY <1>7, <2>3
    <3>2. PICK y \in 1 .. n : From(j, y)
      BY <1>7, <2>3
    <3>3. x = y
      BY <1>6, <3>1, <3>2
    <3> QED  BY <1>2, <3>1, <3>2, <3>3
  <2> QED  BY <2>1, <2>2, <2>3
<1>8. \A x : Holds(t, x) <=> x = e \/ Holds(s, x)
  <2> TAKE x
  <2>1. ASSUME Holds(t, x)
        PROVE  x = e \/ Holds(s, x)
    BY <1>1, <1>2, <1>4, <2>1 DEF Holds
  <2>2. ASSUME Holds(s, x)
        PROVE  Holds(t, x)
    BY <1>1, <1>2, <1>5, <2>2 DEF Holds
  <2>3. Holds(t, e)
    <3>1. q \in 1 .. Len(t) /\ t[q] = e
      BY <1>2
    <3> QED  BY <3>1 DEF Holds
  <2> QED  BY <2>1, <2>2, <2>3
<1>9. ASSUME Differ(s), ~Holds(s, e)
      PROVE  Differ(t)
  <2>1. \A i, j \in 1 .. n : s[i] = s[j] => i = j
    BY <1>1, <1>9 DEF Differ
  <2>2. \A i \in 1 .. n : s[i] # e
    BY <1>1, <1>9 DEF Holds
  <2>3. \A i, j \in 1 .. n + 1 : t[i] = t[j] => i = j
    BY <1>6, <2>1, <2>2
  <2> QED  BY <1>2, <2>3 DEF Differ
<1> QED  BY <1>1, <1>2, <1>8, <1>9

\* The same of a list with one element less.
LEMMA ClosedElements ==
    ASSUME NEW S, NEW s \in Seq(S), NEW t, NEW q \in 1 .. Len(s), Closed(s, t, q)
    PROVE  /\ Len(t) = Len(s) - 1 /\ Len(t) \in Nat
           /\ \A x : Holds(t, x) => Holds(s, x)
           /\ \A x : Holds(s, x) /\ x # s[q] => Holds(t, x)
           /\ Differ(s) => Differ(t) /\ ~Holds(t, s[q])
<1>1. PICK n \in Nat : n = Len(s)
  OBVIOUS
<1>2. /\ Len(t) = n - 1 /\ \A j \in 1 .. q - 1 : t[j] = s[j]
      /\ \A j \in q .. n - 1 : t[j] = s[j + 1] /\ q \in 1 .. n
  BY <1>1 DEF Closed
<1>3. \A j \in 1 .. n - 1 :
         \E x \in 1 .. n : x # q /\ t[j] = s[x] /\ ((x = j /\ j < q) \/ (x = j + 1 /\ j >= q))
  <2> TAKE j \in 1 .. n - 1
  <2>1. CASE j < q
    <3>1. j \in 1 .. q - 1 /\ j \in 1 .. n /\ j # q
      BY <1>1, <2>1
    <3>2. t[j] = s[j]
      BY <1>2, <3>1
    <3> QED  BY <2>1, <3>1, <3>2
  <2>2. CASE ~(j < q)
    <3>1. PICK x \in 1 .. n : x = j + 1 /\ j \in q .. n - 1 /\ x # q /\ j >= q
      BY <1>1, <2>2
    <3>2. t[j] = s[x]
      BY <1>2, <3>1
    <3> QED  BY <3>1, <3>2
  <2> QED  BY <2>1, <2>2
<1>4. ASSUME NEW x \in 1 .. n, x # q
      PROVE  \E j \in 1 .. n - 1 : t[j] = s[x]
  <2>1. CASE x < q
    <3>1. x \in 1 .. q - 1 /\ x \in 1 .. n - 1
      BY <1>1, <2>1
    <3> QED  BY <1>2, <3>1
  <2>2. CASE ~(x < q)
    <3>1. x - 1 \in q .. n - 1 /\ x - 1 \in 1 .. n - 1 /\ x - 1 + 1 = x
      BY <1>1, <1>4, <2>2
    <3> QED  BY <1>2, <3>1
  <2> QED  BY <2>1, <2>2
<1>5. ASSUME \A i, j \in 1 .. n : s[i] = s[j] => i = j,
             NEW i \in 1 .. n - 1, NEW j \in 1 .. n - 1, t[i] = t[j]
      PROVE  i = j
  <2>1. PICK x \in 1 .. n : t[i] = s[x] /\ ((x = i /\ i < q) \/ (x = i + 1 /\ i >= q))
    BY <1>3
  <2>2. PICK y \in 1 .. n : t[j] = s[y] /\ ((y = j /\ j < q) \/ (y = j + 1 /\ j >= q))
    BY <1>3
  <2>3. x = y
    BY <1>5, <2>1, <2>2
  <2> QED  BY <1>1, <2>1, <2>2, <2>3
<1>6. \A j \in 1 .. n - 1 : \E x \in 1 .. n : x # q /\ t[j] = s[x]
  BY <1>3, Zenon
<1>7. n - 1 \in Nat
  BY <1>1
<1>8. \A x : Holds(t, x) => Holds(s, x)
  BY <1>1, <1>2, <1>6 DEF Holds
<1>9. \A x : Holds(s, x) /\ x # s[q] => Holds(t, x)
  <2> SUFFICES ASSUME NEW x, Holds(s, x), x # s[q] PROVE Holds(t, x)
    OBVIOUS
  <2>1. PICK i \in 1 .. n : s[i] = x /\ i # q
    BY <1>1 DEF Holds
  <2> QED  BY <1>2, <1>4, <2>1 DEF Holds
<1>10. ASSUME Differ(s)
       PROVE  Differ(t) /\ ~Holds(t, s[q])
  <2>1. \A i, j \in 1 .. n : s[i] = s[j] => i = j
    BY <1>1, <1>10 DEF Differ
  <2>2. \A i, j \in 1 .. n - 1 : t[i] = t[j] => i = j
    BY <1>5, <2>1
  <2>3. ~Holds(t, s[q])
    <3> SUFFICES ASSUME Holds(t, s[q]) PROVE FALSE
      OBVIOUS
    <3>1. PICK j \in 1 .. n - 1 : t[j] = s[q]
      BY <1>2 DEF Holds
    <3>2. PICK x \in 1 .. n : x # q /\ t[j] = s[x]
      BY <1>6
    <3>3. q \in 1 .. n
      BY <1>1
    <3> QED  BY <2>1, <3>1, <3>2, <3>3
  <2> QED  BY <1>2, <2>2, <2>3 DEF Differ
<1> QED  BY <1>1, <1>2, <1>7, <1>8, <1>9, <1>10

\* A list with one element replaced.
Replaced(s, i, e) == [s EXCEPT ![i] = e]

LEMMA ReplacedProperties ==
    ASSUME NEW S, NEW s \in Seq(S), NEW i, NEW e \in S
    PROVE  Replaced(s, i, e) \in Seq(S) /\ Len(Replaced(s, i, e)) = Len(s)
<1> DEFINE t == Replaced(s, i, e)
<1>1. PICK n \in Nat : n = Len(s) /\ s \in [1 .. n -> S]
  OBVIOUS
<1>2. t \in [1 .. n -> S]
  BY <1>1 DEF Replaced
<1> HIDE DEF t
<1>3. t \in Seq(S) /\ Len(t) = Len(s)
  BY <1>1, <1>2
<1> QED  BY <1>3 DEF t

LEMMA SeqOfMore ==
    ASSUME NEW S, NEW T, S \subseteq T, NEW s \in Seq(S)
    PROVE  s \in Seq(T)
<1>1. PICK n \in Nat : n = Len(s) /\ s \in [1 .. n -> S]
  OBVIOUS
<1>2. s \in [1 .. n -> T]
  BY <1>1
<1> QED  BY <1>2

\* The list t has the elements of s but e.
Loses(s, t, e) ==
    Differ(t) /\ \A x : Holds(t, x) <=> (Holds(s, x) /\ x # e)

\* The list t has e and the elements of s.
Gains(s, t, e) ==
    Differ(t) /\ \A x : Holds(t, x) <=> (x = e \/ Holds(s, x))

LEMMA ClosedLoses ==
    ASSUME NEW S, NEW s \in Seq(S), NEW t, NEW q \in 1 .. Len(s), Closed(s, t, q), Differ(s)
    PROVE  Loses(s, t, s[q])
<1>1. PICK e : e = s[q]
  OBVIOUS
<1>2. /\ \A x : Holds(t, x) => Holds(s, x)
      /\ \A x : Holds(s, x) /\ x # e => Holds(t, x)
      /\ Differ(t) /\ ~Holds(t, e)
  BY <1>1, ClosedElements
<1> QED  BY <1>1, <1>2 DEF Loses

LEMMA SplicedGains ==
    ASSUME NEW S, NEW s \in Seq(S), NEW T, NEW t \in Seq(T), NEW q, NEW e, Spliced(s, t, q, e),
           Differ(s), ~Holds(s, e)
    PROVE  Gains(s, t, e)
<1>1. (\A x : Holds(t, x) <=> x = e \/ Holds(s, x)) /\ Differ(t)
  BY SplicedElements
<1> QED  BY <1>1 DEF Gains

LEMMA FrontElements ==
    ASSUME NEW S, NEW s \in Seq(S), Len(s) # 0
    PROVE  /\ Front(s) \in Seq(S) /\ Len(Front(s)) = Len(s) - 1
           /\ Last(s) = s[Len(s)] /\ Last(s) \in S /\ Holds(s, Last(s))
           /\ Closed(s, Front(s), Len(s))
           /\ Differ(s) => Loses(s, Front(s), Last(s))
<1>1. PICK n \in Nat \ {0} : n = Len(s)
  OBVIOUS
<1>2. PICK t : t = Front(s)
  OBVIOUS
<1>3. /\ t \in Seq(S) /\ Len(t) = n - 1
      /\ \A j \in 1 .. n - 1 : t[j] = s[j]
  BY <1>1, <1>2, FrontProperties
<1>4. Last(s) = s[n] /\ n \in 1 .. Len(s) /\ s[n] \in S
  BY <1>1 DEF Last
<1>5. Closed(s, t, n)
  <2>1. \A j \in n .. n - 1 : t[j] = s[j + 1]
    BY <1>1
  <2> QED  BY <1>1, <1>3, <2>1 DEF Closed
<1>6. Differ(s) => Loses(s, t, s[n])
  BY <1>4, <1>5, ClosedLoses
<1> QED  BY <1>1, <1>2, <1>3, <1>4, <1>5, <1>6 DEF Holds

LEMMA TailElements ==
    ASSUME NEW S, NEW s \in Seq(S), Len(s) # 0
    PROVE  /\ Tail(s) \in Seq(S) /\ Len(Tail(s)) = Len(s) - 1
           /\ Head(s) = s[1] /\ Head(s) \in S /\ Holds(s, Head(s)) /\ Closed(s, Tail(s), 1)
           /\ Differ(s) => Loses(s, Tail(s), Head(s))
<1>1. PICK n \in Nat \ {0} : n = Len(s)
  OBVIOUS
<1>2. PICK t : t = Tail(s)
  OBVIOUS
<1>3. /\ t \in Seq(S) /\ Len(t) = n - 1
      /\ \A j \in 1 .. n - 1 : t[j] = s[j + 1]
  BY <1>1, <1>2, TailProperties
<1>4. Head(s) = s[1] /\ 1 \in 1 .. Len(s) /\ s[1] \in S
  BY <1>1
<1>5. Closed(s, t, 1)
  <2>1. \A j \in 1 .. 1 - 1 : t[j] = s[j]
    BY <1>1
  <2> QED  BY <1>1, <1>3, <2>1 DEF Closed
<1>6. Differ(s) => Loses(s, t, s[1])
  BY <1>4, <1>5, ClosedLoses
<1> QED  BY <1>1, <1>2, <1>3, <1>4, <1>5, <1>6 DEF Holds

LEMMA ConsElements ==
    ASSUME NEW S, NEW s \in Seq(S), NEW e \in S
    PROVE  /\ Cons(e, s) \in Seq(S) /\ Len(Cons(e, s)) = Len(s) + 1
           /\ Spliced(s, Cons(e, s), 1, e)
           /\ Differ(s) /\ ~Holds(s, e) => Gains(s, Cons(e, s), e)
<1>1. PICK n \in Nat : n = Len(s)
  OBVIOUS
<1>2. PICK t : t = Cons(e, s)
  OBVIOUS
<1>3. /\ t \in Seq(S) /\ Len(t) = n + 1 /\ t[1] = e
      /\ \A j \in 2 .. n + 1 : t[j] = s[j - 1]
  <2>1. /\ Cons(e, s) \in Seq(S) /\ Len(Cons(e, s)) = Len(s) + 1
        /\ Cons(e, s)[1] = e
        /\ \A j \in 2 .. Len(s) + 1 : Cons(e, s)[j] = s[j - 1]
    BY ConsProperties
  <2> QED  BY <1>1, <1>2, <2>1
<1>4. Spliced(s, t, 1, e)
  <2>1. \A j \in 1 .. 1 - 1 : t[j] = s[j]
    BY <1>1
  <2>2. \A j \in 1 + 1 .. n + 1 : t[j] = s[j - 1]
    BY <1>3
  <2> QED  BY <1>1, <1>3, <2>1, <2>2 DEF Spliced
<1>5. Differ(s) /\ ~Holds(s, e) => Gains(s, t, e)
  BY <1>3, <1>4, SplicedGains
<1> QED  BY <1>1, <1>2, <1>3, <1>4, <1>5

LEMMA AppendElements ==
    ASSUME NEW S, NEW s \in Seq(S), NEW e \in S
    PROVE  /\ Append(s, e) \in Seq(S) /\ Len(Append(s, e)) = Len(s) + 1
           /\ Spliced(s, Append(s, e), Len(s) + 1, e)
           /\ Differ(s) /\ ~Holds(s, e) => Gains(s, Append(s, e), e)
<1>1. PICK n \in Nat : n = Len(s)
  OBVIOUS
<1>2. PICK t : t = Append(s, e)
  OBVIOUS
<1>3. /\ t \in Seq(S) /\ Len(t) = n + 1 /\ t[n + 1] = e
      /\ \A j \in 1 .. n : t[j] = s[j]
  BY <1>1, <1>2
<1>4. Spliced(s, t, n + 1, e)
  <2>1. \A j \in 1 .. (n + 1) - 1 : t[j] = s[j]
    BY <1>3
  <2>2. \A j \in (n + 1) + 1 .. n + 1 : t[j] = s[j - 1]
    BY <1>1
  <2> QED  BY <1>1, <1>3, <2>1, <2>2 DEF Spliced
<1>5. Differ(s) /\ ~Holds(s, e) => Gains(s, t, e)
  BY <1>3, <1>4, SplicedGains
<1> QED  BY <1>1, <1>2, <1>3, <1>4, <1>5

LEMMA RemoveElements ==
    ASSUME NEW S, NEW s \in Seq(S), NEW i \in 1 .. Len(s)
    PROVE  /\ RemoveAt(s, i) \in Seq(S) /\ Len(RemoveAt(s, i)) = Len(s) - 1
           /\ s[i] \in S /\ Holds(s, s[i])
           /\ Differ(s) => Loses(s, RemoveAt(s, i), s[i])
<1>1. PICK n \in Nat : n = Len(s)
  OBVIOUS
<1>2. PICK t : t = RemoveAt(s, i)
  OBVIOUS
<1>3. t \in Seq(S) /\ Closed(s, t, i)
  BY <1>2, RemoveAtProperties
<1>4. Len(t) = n - 1
  BY <1>1, <1>3 DEF Closed
<1>5. Differ(s) => Loses(s, t, s[i])
  BY <1>3, ClosedLoses
<1> QED  BY <1>1, <1>2, <1>3, <1>4, <1>5 DEF Holds

\* The list u is s and then t.
Follows(s, t, u) ==
    /\ \A j \in 1 .. Len(s) : u[j] = s[j]
    /\ \A j \in 1 .. Len(t) : u[Len(s) + j] = t[j]

\* The elements of two lists in one.
LEMMA JoinedElements ==
    ASSUME NEW S, NEW s \in Seq(S), NEW t \in Seq(S)
    PROVE  /\ s \o t \in Seq(S) /\ Len(s \o t) = Len(s) + Len(t)
           /\ Follows(s, t, s \o t)
           /\ \A x : Holds(s \o t, x) <=> (Holds(s, x) \/ Holds(t, x))
           /\ Differ(s) /\ Differ(t) /\ (\A x : ~(Holds(s, x) /\ Holds(t, x))) => Differ(s \o t)
<1>1. PICK m \in Nat, n \in Nat : m = Len(s) /\ n = Len(t)
  OBVIOUS
<1>2. PICK u : u = s \o t
  OBVIOUS
<1>3. u \in Seq(S) /\ Len(u) = m + n
  BY <1>1, <1>2
<1>4. \A j \in 1 .. m : u[j] = s[j]
  BY <1>1, <1>2
<1>5. \A j \in 1 .. n : u[m + j] = t[j]
  BY <1>1, <1>2
<1>6. ASSUME NEW j \in 1 .. m + n
      PROVE  \/ j \in 1 .. m /\ u[j] = s[j]
             \/ \E i \in 1 .. n : j = m + i /\ u[j] = t[i]
  <2>1. CASE j <= m
    BY <1>4, <2>1
  <2>2. CASE j > m
    <3>1. PICK i \in 1 .. n : j = m + i
      <4>1. j - m \in 1 .. n /\ j = m + (j - m)
        BY <1>1, <2>2
      <4> QED  BY <4>1
    <3> QED  BY <1>5, <3>1
  <2> QED  BY <2>1, <2>2
<1>7. ASSUME NEW x PROVE Holds(u, x) <=> (Holds(s, x) \/ Holds(t, x))
  <2>1. ASSUME Holds(u, x) PROVE Holds(s, x) \/ Holds(t, x)
    <3>1. PICK j \in 1 .. m + n : u[j] = x
      BY <1>3, <2>1 DEF Holds
    <3> QED  BY <1>1, <1>6, <3>1 DEF Holds
  <2>2. ASSUME Holds(s, x) PROVE Holds(u, x)
    <3>1. PICK j \in 1 .. m : s[j] = x
      BY <1>1, <2>2 DEF Holds
    <3>2. j \in 1 .. m + n /\ u[j] = x
      BY <1>1, <1>4, <3>1
    <3> QED  BY <1>3, <3>2 DEF Holds
  <2>3. ASSUME Holds(t, x) PROVE Holds(u, x)
    <3>1. PICK j \in 1 .. n : t[j] = x
      BY <1>1, <2>3 DEF Holds
    <3>2. m + j \in 1 .. m + n /\ u[m + j] = x
      BY <1>1, <1>5, <3>1
    <3> QED  BY <1>3, <3>2 DEF Holds
  <2> QED  BY <2>1, <2>2, <2>3
<1>8. ASSUME Differ(s), Differ(t), \A x : ~(Holds(s, x) /\ Holds(t, x))
      PROVE  Differ(u)
  <2> SUFFICES ASSUME NEW i \in 1 .. m + n, NEW j \in 1 .. m + n, u[i] = u[j]
               PROVE  i = j
    BY <1>3 DEF Differ
  <2>1. CASE i \in 1 .. m /\ u[i] = s[i] /\ j \in 1 .. m /\ u[j] = s[j]
    BY <1>1, <1>8, <2>1 DEF Differ
  <2>2. CASE (\E a \in 1 .. n : i = m + a /\ u[i] = t[a]) /\ (\E a \in 1 .. n : j = m + a /\ u[j] = t[a])
    BY <1>1, <1>8, <2>2 DEF Differ
  <2>3. CASE i \in 1 .. m /\ u[i] = s[i] /\ \E a \in 1 .. n : j = m + a /\ u[j] = t[a]
    <3>1. Holds(s, u[i]) /\ Holds(t, u[j])
      BY <1>1, <2>3 DEF Holds
    <3> QED  BY <1>8, <3>1
  <2>4. CASE j \in 1 .. m /\ u[j] = s[j] /\ \E a \in 1 .. n : i = m + a /\ u[i] = t[a]
    <3>1. Holds(s, u[j]) /\ Holds(t, u[i])
      BY <1>1, <2>4 DEF Holds
    <3> QED  BY <1>8, <3>1
  <2> QED  BY <1>6, <2>1, <2>2, <2>3, <2>4
<1>9. Follows(s, t, u)
  BY <1>1, <1>4, <1>5 DEF Follows
<1> QED  BY <1>1, <1>2, <1>3, <1>7, <1>8, <1>9
=============================================================================
