----------------------- MODULE BPTree_order_proofs -----------------------
(***************************************************************************)
(* The order of keys and leaves in the B+ tree of lab2: the ranges of keys *)
(* that searches take to the nodes, and that Put keeps them.               *)
(***************************************************************************)
EXTENDS BPTree_proofs

USE BPTreeAssumption
-----------------------------------------------------------------------------
(***************************************************************************)
(* A ghost gives every node the range of keys for which a search comes to  *)
(* it: from lo[n] up to, and without, hi[n].  In the middle of Put a node  *)
(* x may have given the upper part of its range to a new node q that has   *)
(* no parent yet.  When there is no such node, x is Null and q the root.   *)
(***************************************************************************)

\* Where the range of n ends as its parent sees it.
End(hi, x, q, n) == IF n = x THEN hi[q] ELSE hi[n]

Ascends(ks) == \A i, j \in 1 .. Len(ks) : i < j => ks[i] < ks[j]

\* The keys of leaf n are in its range.
Filed(h, lo, hi, n) ==
    /\ lo[n] < hi[n] /\ Ascends(h[n].keys)
    /\ \A i \in 1 .. Len(h[n].keys) : lo[n] <= h[n].keys[i] /\ h[n].keys[i] < hi[n]

\* After leaf n comes the leaf whose range begins where that of n ends.
Chained(h, lo, hi, top, n) ==
    /\ hi[n] = top => h[n].next = Null
    /\ hi[n] # top =>
        h[n].next \in DOMAIN h /\ h[h[n].next].leaf /\ lo[h[n].next] = hi[n]

\* The keys of n cut its range into those of its children.
Parted(h, lo, hi, x, q, n) ==
    LET kids == h[n].items
        ks   == h[n].keys
    IN  /\ Len(kids) = Len(ks) + 1 /\ h[n].next = Null
        /\ lo[kids[1]] = lo[n] /\ End(hi, x, q, kids[Len(kids)]) = hi[n]
        /\ \A i \in 1 .. Len(ks) : End(hi, x, q, kids[i]) = ks[i] /\ lo[kids[i + 1]] = ks[i]

\* No range reaches beyond that of the root, where all keys are.
Within(h, rt, lo, hi, x, q) ==
    /\ lo \in [DOMAIN h -> Int] /\ hi \in [DOMAIN h -> Int]
    /\ \A n \in DOMAIN h : lo[rt] <= lo[n] /\ hi[n] <= End(hi, x, q, rt)
    /\ \A k \in Keys : lo[rt] <= k /\ k < End(hi, x, q, rt)
    /\ q # rt => lo[q] = hi[x]

Ranged(h, rt, lo, hi, x, q) ==
    /\ Within(h, rt, lo, hi, x, q)
    /\ \A n \in DOMAIN h :
        /\ h[n].leaf => Filed(h, lo, hi, n) /\ Chained(h, lo, hi, End(hi, x, q, rt), n)
        /\ ~h[n].leaf => Parted(h, lo, hi, x, q, n)

Twins(h, rt, lv, x, q) ==
    /\ q = rt => x = Null
    /\ q # rt => x \in DOMAIN h /\ x # q /\ lv[x] = lv[q]

Ordered(h, rt, lv, lo, hi, x, q) ==
    /\ Typed(h) /\ Forest(h, {rt, q}, lv) /\ Twins(h, rt, lv, x, q)
    /\ Ranged(h, rt, lo, hi, x, q)

LEMMA KeysOf ==
    ASSUME NEW s, s \in Seq(Keys)
    PROVE  /\ Len(s) \in Nat /\ s \in Seq(Int)
           /\ \A i \in 1 .. Len(s) : s[i] \in Keys /\ s[i] \in Int
<1>1. Keys \subseteq Int
  OBVIOUS
<1>2. s \in Seq(Int)
  BY <1>1, SeqOfMore, Zenon
<1>3. \A i \in 1 .. Len(s) : s[i] \in Keys
  OBVIOUS
<1> QED  BY <1>1, <1>2, <1>3

LEMMA StepsAscend ==
    ASSUME NEW m \in Nat, NEW f, \A i \in 1 .. m : f[i] \in Int,
           \A i \in 1 .. m - 1 : f[i] < f[i + 1]
    PROVE  \A i, j \in 1 .. m : i < j => f[i] < f[j]
<1> SUFFICES ASSUME NEW i \in 1 .. m, NEW j \in 1 .. m, i < j, ~(f[i] < f[j]) PROVE FALSE
  OBVIOUS
<1> DEFINE Bad == {b \in 1 .. m : i < b /\ ~(f[i] < f[b])}
<1>1. Bad \in SUBSET Nat /\ Bad # {}
  OBVIOUS
<1>2. PICK b \in Bad : \A c \in Bad : b <= c
  <2> HIDE DEF Bad
  <2> QED  BY <1>1, LessThanIsWellFounded
<1>3. b \in 1 .. m /\ i < b /\ ~(f[i] < f[b])
  OBVIOUS
<1>4. PICK c \in 1 .. m - 1 : c + 1 = b
  <2>1. b - 1 \in 1 .. m - 1 /\ (b - 1) + 1 = b
    BY <1>3
  <2> QED  BY <2>1
<1>5. f[c] < f[b] /\ f[c] \in Int /\ f[b] \in Int /\ f[i] \in Int /\ c \in 1 .. m
  BY <1>3, <1>4
<1>6. c # i
  BY <1>3, <1>5
<1>7. c \notin Bad
  BY <1>2, <1>4
<1>8. f[i] < f[c]
  BY <1>3, <1>4, <1>5, <1>6, <1>7
<1> QED  BY <1>3, <1>5, <1>8

\* The range of a node, as a pair of integers.
LEMMA BoundsOf ==
    ASSUME NEW h, NEW rt, NEW lv, NEW lo, NEW hi, NEW x, NEW q,
           Ordered(h, rt, lv, lo, hi, x, q), NEW n \in DOMAIN h
    PROVE  /\ lo[n] \in Int /\ hi[n] \in Int /\ End(hi, x, q, n) \in Int
           /\ q \in DOMAIN h /\ rt \in DOMAIN h /\ lv[n] \in Nat
           /\ x # Null => /\ q # rt /\ x \in DOMAIN h /\ x # q /\ lv[x] = lv[q]
                          /\ lo[q] = hi[x]
<1>1. lo \in [DOMAIN h -> Int] /\ hi \in [DOMAIN h -> Int]
  BY DEF Ordered, Ranged, Within
<1>2. {rt, q} \subseteq DOMAIN h /\ lv \in [DOMAIN h -> Nat]
  BY DEF Ordered, Forest
<1>3. x # Null => q # rt /\ x \in DOMAIN h /\ x # q /\ lv[x] = lv[q] /\ lo[q] = hi[x]
  BY DEF Ordered, Twins, Ranged, Within
<1>4. End(hi, x, q, n) \in Int
  BY <1>1, <1>2 DEF End
<1> QED  BY <1>1, <1>2, <1>3, <1>4

\* The ranges of the children of n, in their order, make up that of n.
InParts(h, lo, hi, x, q, n) ==
    LET kids == h[n].items
        ks   == h[n].keys
    IN  /\ lo[n] < hi[n] /\ Ascends(ks)
        /\ \A i \in 1 .. Len(ks) : lo[n] < ks[i] /\ ks[i] < hi[n]
        /\ \A i \in 1 .. Len(kids) : lo[n] <= lo[kids[i]] /\ End(hi, x, q, kids[i]) <= hi[n]
        /\ \A i, j \in 1 .. Len(kids) : i < j => End(hi, x, q, kids[i]) <= lo[kids[j]]

LEMMA PartsInOrder ==
    ASSUME NEW h, NEW rt, NEW lv, NEW lo, NEW hi, NEW x, NEW q,
           Ordered(h, rt, lv, lo, hi, x, q), NEW n \in DOMAIN h, ~h[n].leaf,
           \A i \in 1 .. Len(h[n].items) : lo[h[n].items[i]] < End(hi, x, q, h[n].items[i])
    PROVE  InParts(h, lo, hi, x, q, n)
<1>1. PICK ks, kids : ks = h[n].keys /\ kids = h[n].items
  OBVIOUS
<1>2. ks \in Seq(Int) /\ kids \in Seq(DOMAIN h)
  <2>1. kids \in Seq(DOMAIN h)
    BY <1>1, BroodIs DEF Ordered
  <2>2. ks \in Seq(Keys) /\ Keys \subseteq Int
    BY <1>1 DEF Ordered, Typed, IsNode
  <2>3. ks \in Seq(Int)
    BY <2>2, SeqOfMore, Zenon
  <2> QED  BY <2>1, <2>3
<1>3. PICK c \in Nat : c = Len(ks)
  BY <1>2
<1>4. /\ Len(kids) = c + 1 /\ lo[kids[1]] = lo[n] /\ End(hi, x, q, kids[c + 1]) = hi[n]
      /\ \A i \in 1 .. c : End(hi, x, q, kids[i]) = ks[i] /\ lo[kids[i + 1]] = ks[i]
  BY <1>1, <1>3 DEF Ordered, Ranged, Parted
<1>5. \A i \in 1 .. c : ks[i] \in Int
  BY <1>2, <1>3
<1>6. \A i \in 1 .. c + 1 : lo[kids[i]] < End(hi, x, q, kids[i])
  BY <1>1, <1>4
<1>7. lo[n] \in Int /\ hi[n] \in Int
  BY BoundsOf
<1>8. \A i, j \in 1 .. c : i < j => ks[i] < ks[j]
  <2>1. \A i \in 1 .. c - 1 : ks[i] < ks[i + 1]
    <3> TAKE i \in 1 .. c - 1
    <3>1. i \in 1 .. c /\ i + 1 \in 1 .. c /\ i + 1 \in 1 .. c + 1
      OBVIOUS
    <3>2. lo[kids[i + 1]] = ks[i] /\ End(hi, x, q, kids[i + 1]) = ks[i + 1]
      BY <1>4, <3>1
    <3> QED  BY <1>6, <3>1, <3>2
  <2> QED  BY <1>5, <2>1, StepsAscend
<1>9. \A i \in 1 .. c : lo[n] < ks[i] /\ ks[i] < hi[n]
  <2> TAKE i \in 1 .. c
  <2>1. 1 \in 1 .. c /\ 1 \in 1 .. c + 1 /\ c \in 1 .. c /\ c + 1 \in 1 .. c + 1
    OBVIOUS
  <2>2. lo[n] < ks[1] /\ ks[c] < hi[n]
    BY <1>4, <1>6, <2>1
  <2>3. ks[1] <= ks[i] /\ ks[i] <= ks[c] /\ ks[i] \in Int /\ ks[1] \in Int /\ ks[c] \in Int
    BY <1>5, <1>8, <2>1
  <2> QED  BY <1>7, <2>2, <2>3
<1>10. lo[n] < hi[n]
  <2>1. CASE c = 0
    BY <1>4, <1>6, <2>1
  <2>2. CASE c # 0
    <3>1. 1 \in 1 .. c
      BY <2>2
    <3>2. lo[n] < ks[1] /\ ks[1] < hi[n] /\ ks[1] \in Int
      BY <1>5, <1>9, <3>1
    <3> QED  BY <1>7, <3>2
  <2> QED  BY <2>1, <2>2
<1>11. \A i \in 1 .. c + 1 : /\ i = 1 => lo[kids[i]] = lo[n]
                             /\ i # 1 => i - 1 \in 1 .. c /\ lo[kids[i]] = ks[i - 1]
                             /\ i = c + 1 => End(hi, x, q, kids[i]) = hi[n]
                             /\ i # c + 1 => i \in 1 .. c /\ End(hi, x, q, kids[i]) = ks[i]
  <2> TAKE i \in 1 .. c + 1
  <2>1. i # 1 => i - 1 \in 1 .. c /\ (i - 1) + 1 = i
    OBVIOUS
  <2>2. i # c + 1 => i \in 1 .. c
    OBVIOUS
  <2> QED  BY <1>4, <2>1, <2>2
<1>12. \A i \in 1 .. c + 1 : lo[n] <= lo[kids[i]] /\ End(hi, x, q, kids[i]) <= hi[n]
  <2> TAKE i \in 1 .. c + 1
  <2>1. lo[n] <= lo[kids[i]]
    <3>1. CASE i = 1
      BY <1>7, <1>11, <3>1
    <3>2. CASE i # 1
      <4>1. PICK j \in 1 .. c : lo[kids[i]] = ks[j]
        BY <1>11, <3>2
      <4> QED  BY <1>5, <1>7, <1>9, <4>1
    <3> QED  BY <3>1, <3>2
  <2>2. End(hi, x, q, kids[i]) <= hi[n]
    <3>1. CASE i = c + 1
      BY <1>7, <1>11, <3>1
    <3>2. CASE i # c + 1
      BY <1>5, <1>7, <1>9, <1>11, <3>2
    <3> QED  BY <3>1, <3>2
  <2> QED  BY <2>1, <2>2
<1>13. \A i, j \in 1 .. c + 1 : i < j => End(hi, x, q, kids[i]) <= lo[kids[j]]
  <2> TAKE i, j \in 1 .. c + 1
  <2> HAVE i < j
  <2>1. i \in 1 .. c /\ j - 1 \in 1 .. c /\ i <= j - 1
    OBVIOUS
  <2>2. End(hi, x, q, kids[i]) = ks[i] /\ lo[kids[j]] = ks[j - 1]
    BY <1>11, <2>1
  <2>3. ks[i] <= ks[j - 1]
    BY <1>5, <1>8, <2>1, SMTT(20)
  <2> QED  BY <2>2, <2>3
<1> QED  BY <1>1, <1>3, <1>4, <1>8, <1>9, <1>10, <1>12, <1>13, Zenon DEF InParts, Ascends

\* No range is empty, also as a parent sees it.
LEMMA RangesWide ==
    ASSUME NEW h, NEW rt, NEW lv, NEW lo, NEW hi, NEW x, NEW q,
           Ordered(h, rt, lv, lo, hi, x, q), NEW n \in DOMAIN h
    PROVE  lo[n] < hi[n] /\ hi[n] <= End(hi, x, q, n)
<1>1. Forest(h, {rt, q}, lv)
  BY DEF Ordered
<1> DEFINE Bad == {m \in DOMAIN h : ~(lo[m] < hi[m])}
<1>2. Bad = {}
  <2> SUFFICES ASSUME Bad # {} PROVE FALSE
    OBVIOUS
  <2>1. PICK m \in Bad : \A y \in Bad : lv[m] <= lv[y]
    <3>1. Bad \subseteq DOMAIN h
      OBVIOUS
    <3> HIDE DEF Bad
    <3> QED  BY <1>1, <3>1, Lowest
  <2>2. m \in DOMAIN h /\ ~(lo[m] < hi[m])
    OBVIOUS
  <2>3. ~h[m].leaf
    BY <2>2 DEF Ordered, Ranged, Filed
  <2>4. \A y \in DOMAIN h : lv[y] < lv[m] => lo[y] < hi[y]
    <3> TAKE y \in DOMAIN h
    <3> HAVE lv[y] < lv[m]
    <3>1. lv[y] \in Nat /\ lv[m] \in Nat
      BY <2>2, BoundsOf
    <3>2. ~(lv[m] <= lv[y])
      BY <3>1
    <3> QED  BY <2>1, <3>2
  <2> HIDE DEF Bad
  <2>5. ASSUME NEW i \in 1 .. Len(h[m].items)
        PROVE  lo[h[m].items[i]] < End(hi, x, q, h[m].items[i])
    <3>1. PICK c : c = h[m].items[i]
      OBVIOUS
    <3>2. c \in DOMAIN h /\ lv[c] < lv[m]
      <4>1. c \in DOMAIN h /\ lv[c] \in Nat /\ lv[m] \in Nat /\ lv[c] + 1 = lv[m]
        BY <1>1, <2>2, <2>3, <3>1, KidOf
      <4> QED  BY <4>1
    <3>3. lo[c] < hi[c] /\ lo[c] \in Int /\ hi[c] \in Int
      BY <2>4, <3>2, BoundsOf
    <3>4. CASE c # x
      BY <3>1, <3>3, <3>4 DEF End
    <3>5. CASE c = x
      <4>1. x # Null
        BY <3>2, <3>5 DEF Ordered, Typed, Null
      <4>2. q \in DOMAIN h /\ lv[x] = lv[q] /\ lo[q] = hi[x]
        BY <3>2, <4>1, BoundsOf
      <4>3. lo[q] < hi[q] /\ lo[q] \in Int /\ hi[q] \in Int
        BY <2>4, <3>2, <3>5, <4>2, BoundsOf
      <4>4. lo[c] < hi[q]
        BY <3>3, <3>5, <4>2, <4>3
      <4> QED  BY <3>1, <3>5, <4>4 DEF End
    <3> QED  BY <3>4, <3>5
  <2>6. InParts(h, lo, hi, x, q, m)
    BY <2>2, <2>3, <2>5, PartsInOrder
  <2> QED  BY <2>2, <2>6 DEF InParts
<1>3. \A m \in DOMAIN h : lo[m] < hi[m]
  BY <1>2
<1> HIDE DEF Bad
<1>4. lo[n] \in Int /\ hi[n] \in Int
  BY BoundsOf
<1>5. CASE n # x
  BY <1>3, <1>4, <1>5 DEF End
<1>6. CASE n = x
  <2>1. x # Null
    BY <1>6 DEF Ordered, Typed, Null
  <2>2. q \in DOMAIN h /\ lo[q] = hi[x]
    BY <2>1, BoundsOf
  <2>3. lo[q] < hi[q] /\ lo[q] \in Int /\ hi[q] \in Int
    BY <1>3, <2>2, BoundsOf
  <2> QED  BY <1>3, <1>4, <1>6, <2>2, <2>3 DEF End
<1> QED  BY <1>5, <1>6

LEMMA PartsOf ==
    ASSUME NEW h, NEW rt, NEW lv, NEW lo, NEW hi, NEW x, NEW q,
           Ordered(h, rt, lv, lo, hi, x, q), NEW n \in DOMAIN h, ~h[n].leaf
    PROVE  InParts(h, lo, hi, x, q, n)
<1>1. ASSUME NEW i \in 1 .. Len(h[n].items)
      PROVE  lo[h[n].items[i]] < End(hi, x, q, h[n].items[i])
  <2>1. PICK c : c = h[n].items[i]
    OBVIOUS
  <2>2. c \in DOMAIN h
    BY <2>1, KidOf DEF Ordered
  <2>3. lo[c] < hi[c] /\ hi[c] <= End(hi, x, q, c)
    BY <2>2, RangesWide
  <2>4. lo[c] \in Int /\ hi[c] \in Int /\ End(hi, x, q, c) \in Int
    BY <2>2, BoundsOf
  <2> QED  BY <2>1, <2>3, <2>4
<1> QED  BY <1>1, PartsInOrder

\* No node is above the root, and on its level at most its new sibling.
LEMMA RootsOnTop ==
    ASSUME NEW h, NEW rt, NEW lv, NEW x, NEW q, Typed(h), Forest(h, {rt, q}, lv),
           Twins(h, rt, lv, x, q), NEW c \in DOMAIN h
    PROVE  lv[c] <= lv[rt] /\ (lv[c] = lv[rt] => c \in {rt, q})
<1>1. rt \in DOMAIN h /\ lv \in [DOMAIN h -> Nat] /\ IsFiniteSet(DOMAIN h)
  BY DEF Forest, Typed
<1>2. PICK top \in Nat : /\ \A m \in DOMAIN h : lv[m] <= top
                         /\ \E m \in DOMAIN h : lv[m] = top
  BY <1>1, LevelsBounded
<1>3. ASSUME NEW m \in DOMAIN h, lv[m] = top
      PROVE  m \in {rt, q}
  <2> SUFFICES ASSUME m \notin {rt, q} PROVE FALSE
    OBVIOUS
  <2>1. PICK p \in DOMAIN h : lv[m] + 1 = lv[p]
    BY ParentOf
  <2>2. lv[p] <= top
    BY <1>2
  <2> QED  BY <1>3, <2>1, <2>2
<1>4. lv[rt] = top
  <2>1. PICK m \in DOMAIN h : lv[m] = top
    BY <1>2
  <2>2. CASE m = rt
    BY <2>1, <2>2
  <2>3. CASE m # rt
    <3>1. m = q /\ q # rt
      BY <1>3, <2>1, <2>3
    <3>2. x \in DOMAIN h /\ x # q /\ lv[x] = lv[q]
      BY <3>1 DEF Twins
    <3>3. x = rt
      BY <1>3, <2>1, <3>1, <3>2
    <3> QED  BY <2>1, <3>1, <3>2, <3>3
  <2> QED  BY <2>2, <2>3
<1> QED  BY <1>2, <1>3, <1>4

\* Two nodes on one level have nothing in common.
LEMMA RangesApart ==
    ASSUME NEW h, NEW rt, NEW lv, NEW lo, NEW hi, NEW x, NEW q,
           Ordered(h, rt, lv, lo, hi, x, q),
           NEW m \in DOMAIN h, NEW n \in DOMAIN h, m # n, lv[m] = lv[n]
    PROVE  hi[m] <= lo[n] \/ hi[n] <= lo[m]
<1>1. Forest(h, {rt, q}, lv) /\ lv \in [DOMAIN h -> Nat] /\ IsFiniteSet(DOMAIN h)
  BY DEF Ordered, Forest, Typed
<1> DEFINE Apart(a, b) == a # b /\ lv[a] = lv[b] => hi[a] <= lo[b] \/ hi[b] <= lo[a]
           Bad == {a \in DOMAIN h : \E b \in DOMAIN h : ~Apart(a, b)}
           L == {lv[a] : a \in Bad}
<1>2. Bad = {}
  <2> SUFFICES ASSUME Bad # {} PROVE FALSE
    OBVIOUS
  <2>1. L \in SUBSET Int /\ L # {}
    BY <1>1
  <2>2. IsFiniteSet(L)
    <3> DEFINE f == [a \in Bad |-> lv[a]]
    <3>1. f \in Surjection(Bad, L)
      BY DEF Surjection
    <3>2. IsFiniteSet(Bad)
      <4>1. Bad \subseteq DOMAIN h
        OBVIOUS
      <4> HIDE DEF Bad
      <4> QED  BY <1>1, <4>1, FS_Subset
    <3> HIDE DEF f, L
    <3> QED  BY <3>1, <3>2, FS_Surjection
  <2>3. PICK l \in L : \A y \in L : l >= y
    <3> HIDE DEF L
    <3> QED  BY <2>1, <2>2, UpperBoundExists
  <2>4. PICK a \in DOMAIN h, b \in DOMAIN h : ~Apart(a, b) /\ lv[a] = l
    BY <2>3
  <2>5. \A c, d \in DOMAIN h : lv[c] > l => Apart(c, d)
    <3> SUFFICES ASSUME NEW c \in DOMAIN h, NEW d \in DOMAIN h, lv[c] > l, ~Apart(c, d)
                 PROVE  FALSE
      OBVIOUS
    <3>1. lv[c] \in L
      OBVIOUS
    <3>2. l >= lv[c] /\ lv[c] \in Nat /\ l \in Nat
      BY <1>1, <2>3, <2>4, <3>1
    <3> QED  BY <3>2
  <2> HIDE DEF Bad, L, Apart
  <2>6. ASSUME NEW c \in DOMAIN h, NEW d \in DOMAIN h, c # d, lv[c] = l, lv[d] = l,
               c \notin {rt, q}, d \notin {rt, q}
        PROVE  End(hi, x, q, c) <= lo[d] \/ End(hi, x, q, d) <= lo[c]
    <3>1. PICK p, i : /\ p \in DOMAIN h /\ ~h[p].leaf /\ lv[c] + 1 = lv[p]
                      /\ i \in 1 .. Len(h[p].items) /\ h[p].items[i] = c
      BY <1>1, <2>6, ParentOf, SMTT(20)
    <3>2. PICK r, j : /\ r \in DOMAIN h /\ ~h[r].leaf /\ lv[d] + 1 = lv[r]
                      /\ j \in 1 .. Len(h[r].items) /\ h[r].items[j] = d
      BY <1>1, <2>6, ParentOf, SMTT(20)
    <3>3. InParts(h, lo, hi, x, q, p) /\ InParts(h, lo, hi, x, q, r)
      BY <3>1, <3>2, PartsOf
    <3>4. CASE p = r
      <4>1. i # j /\ i \in Int /\ j \in Int
        BY <2>6, <3>1, <3>2, <3>4
      <4>2. i < j => End(hi, x, q, c) <= lo[d]
        BY <3>1, <3>2, <3>3, <3>4 DEF InParts
      <4>3. j < i => End(hi, x, q, d) <= lo[c]
        BY <3>1, <3>2, <3>3, <3>4 DEF InParts
      <4> QED  BY <4>1, <4>2, <4>3
    <3>5. CASE p # r
      <4>1. lv[p] = lv[r] /\ lv[p] > l
        <5>1. l \in Nat
          BY <1>1, <2>4
        <5> QED  BY <2>6, <3>1, <3>2, <5>1
      <4>2. hi[p] <= lo[r] \/ hi[r] <= lo[p]
        BY <2>5, <3>1, <3>2, <3>5, <4>1 DEF Apart
      <4>3. /\ lo[p] <= lo[c] /\ End(hi, x, q, c) <= hi[p]
            /\ lo[r] <= lo[d] /\ End(hi, x, q, d) <= hi[r]
        BY <3>1, <3>2, <3>3 DEF InParts
      <4>4. /\ lo[p] \in Int /\ hi[p] \in Int /\ lo[r] \in Int /\ hi[r] \in Int
            /\ lo[c] \in Int /\ lo[d] \in Int
            /\ End(hi, x, q, c) \in Int /\ End(hi, x, q, d) \in Int
        BY <3>1, <3>2, BoundsOf
      <4> QED  BY <4>2, <4>3, <4>4
    <3> QED  BY <3>4, <3>5
  <2>7. ASSUME NEW c \in DOMAIN h, lv[c] = lv[rt]
        PROVE  c \in {rt, q}
    BY <1>1, <2>7, RootsOnTop DEF Ordered
  <2>8. hi[a] \in Int /\ lo[a] \in Int /\ hi[b] \in Int /\ lo[b] \in Int
    BY BoundsOf
  <2>9. a # b /\ lv[a] = l /\ lv[b] = l /\ ~(hi[a] <= lo[b] \/ hi[b] <= lo[a])
    BY <2>4 DEF Apart
  <2>10. \A c \in DOMAIN h : lo[c] < hi[c] /\ hi[c] <= End(hi, x, q, c) /\ lo[c] \in Int
                             /\ hi[c] \in Int /\ End(hi, x, q, c) \in Int
    BY RangesWide, BoundsOf
  <2>11. /\ rt \in DOMAIN h /\ q \in DOMAIN h
         /\ q # rt => x \in DOMAIN h /\ x # q /\ lv[x] = lv[q] /\ lo[q] = hi[x]
    BY <1>1 DEF Ordered, Forest, Twins, Ranged, Within
  <2>12. ASSUME NEW c \in DOMAIN h, NEW d \in DOMAIN h, c # d, lv[c] = l, lv[d] = l, c = rt
         PROVE  hi[c] <= lo[d]
    <3>1. d = q /\ q # rt
      BY <2>7, <2>12
    <3>2. x = rt
      BY <2>7, <2>11, <2>12, <3>1
    <3> QED  BY <2>10, <2>11, <2>12, <3>1, <3>2
  <2>13. ASSUME NEW d \in DOMAIN h, d # q, q # rt, lv[q] = l, lv[d] = l, d # rt
         PROVE  hi[q] <= lo[d] \/ hi[d] <= lo[q]
    <3>1. x \in DOMAIN h /\ x # q /\ lv[x] = l /\ lo[q] = hi[x]
      BY <2>11, <2>13
    <3>2. CASE d = x
      BY <2>10, <2>11, <3>1, <3>2
    <3>3. CASE d # x
      <4>1. x # rt
        BY <2>7, <2>13, <3>1
      <4>2. End(hi, x, q, x) <= lo[d] \/ End(hi, x, q, d) <= lo[x]
        BY <2>6, <2>13, <3>1, <3>3, <4>1
      <4>3. End(hi, x, q, x) = hi[q] /\ End(hi, x, q, d) = hi[d]
        BY <3>3 DEF End
      <4>4. lo[x] < hi[x] /\ lo[x] \in Int /\ hi[x] \in Int /\ hi[d] \in Int
        BY <2>10, <3>1
      <4> QED  BY <3>1, <4>2, <4>3, <4>4
    <3> QED  BY <3>2, <3>3
  <2>14. CASE a = rt
    BY <2>9, <2>12, <2>14
  <2>15. CASE b = rt
    BY <2>9, <2>12, <2>15
  <2>16. CASE a # rt /\ b # rt /\ a = q
    BY <2>9, <2>13, <2>16
  <2>17. CASE a # rt /\ b # rt /\ b = q
    BY <2>9, <2>13, <2>17
  <2>18. CASE a \notin {rt, q} /\ b \notin {rt, q}
    <3>1. End(hi, x, q, a) <= lo[b] \/ End(hi, x, q, b) <= lo[a]
      BY <2>6, <2>9, <2>18
    <3>2. hi[a] <= End(hi, x, q, a) /\ hi[b] <= End(hi, x, q, b)
      BY <2>10
    <3> QED  BY <2>8, <2>9, <2>10, <3>1, <3>2
  <2> QED  BY <2>14, <2>15, <2>16, <2>17, <2>18
<1>3. Apart(m, n)
  BY <1>2
<1> QED  BY <1>3

\* A leaf is known by where its range begins, or where it ends.
LEMMA LeafKnown ==
    ASSUME NEW h, NEW rt, NEW lv, NEW lo, NEW hi, NEW x, NEW q,
           Ordered(h, rt, lv, lo, hi, x, q),
           NEW m \in DOMAIN h, NEW n \in DOMAIN h, h[m].leaf, h[n].leaf
    PROVE  /\ lo[m] = lo[n] => m = n
           /\ hi[m] = hi[n] => m = n
           /\ \A k \in Int : lo[m] <= k /\ k < hi[m] /\ lo[n] <= k /\ k < hi[n] => m = n
<1>1. lv[m] = lv[n]
  BY DEF Ordered, Forest
<1>2. m # n => hi[m] <= lo[n] \/ hi[n] <= lo[m]
  BY <1>1, RangesApart
<1>3. /\ lo[m] < hi[m] /\ lo[n] < hi[n]
      /\ lo[m] \in Int /\ lo[n] \in Int /\ hi[m] \in Int /\ hi[n] \in Int
  BY RangesWide, BoundsOf
<1> QED  BY <1>2, <1>3

\* Down to every level some node begins where b does.
LEMMA StartsBelow ==
    ASSUME NEW h, NEW rt, NEW lv, NEW lo, NEW hi, NEW x, NEW q,
           Ordered(h, rt, lv, lo, hi, x, q),
           NEW b \in DOMAIN h, NEW l \in Nat, l <= lv[b]
    PROVE  \E d \in DOMAIN h : lv[d] = l /\ lo[d] = lo[b] /\ hi[d] <= hi[b]
<1>1. Forest(h, {rt, q}, lv)
  BY DEF Ordered
<1> DEFINE Bad == {c \in DOMAIN h : /\ l <= lv[c]
                                    /\ ~\E d \in DOMAIN h : lv[d] = l /\ lo[d] = lo[c] /\ hi[d] <= hi[c]}
<1> SUFFICES ASSUME Bad # {} PROVE FALSE
  OBVIOUS
<1>2. PICK m \in Bad : \A y \in Bad : lv[m] <= lv[y]
  <2>1. Bad \subseteq DOMAIN h
    OBVIOUS
  <2> HIDE DEF Bad
  <2> QED  BY <1>1, <2>1, Lowest
<1>3. /\ m \in DOMAIN h /\ l <= lv[m]
      /\ ~\E d \in DOMAIN h : lv[d] = l /\ lo[d] = lo[m] /\ hi[d] <= hi[m]
  OBVIOUS
<1>4. lv[m] \in Nat /\ lo[m] \in Int /\ hi[m] \in Int
  BY <1>3, BoundsOf
<1>5. lv[m] # l
  BY <1>3, <1>4
<1>6. ~h[m].leaf
  BY <1>1, <1>3, <1>4, <1>5 DEF Forest
<1>7. Len(h[m].items) \in Nat \ {0}
  BY <1>1, <1>3, <1>6, BroodIs
<1>8. PICK c : c = h[m].items[1]
  OBVIOUS
<1>9. c \in DOMAIN h /\ lv[c] + 1 = lv[m] /\ lv[c] \in Nat
  BY <1>1, <1>3, <1>6, <1>7, <1>8, KidOf
<1>10. lo[c] = lo[m]
  BY <1>3, <1>6, <1>8 DEF Ordered, Ranged, Parted
<1>11. hi[c] <= hi[m]
  <2>1. End(hi, x, q, c) <= hi[m]
    <3>1. InParts(h, lo, hi, x, q, m) /\ 1 \in 1 .. Len(h[m].items)
      BY <1>3, <1>6, <1>7, PartsOf
    <3> QED  BY <1>8, <3>1 DEF InParts
  <2>2. hi[c] <= End(hi, x, q, c) /\ hi[c] \in Int /\ End(hi, x, q, c) \in Int
    BY <1>9, RangesWide, BoundsOf
  <2> QED  BY <1>4, <2>1, <2>2
<1>12. c \notin Bad
  <2>1. ~(lv[m] <= lv[c])
    BY <1>4, <1>9
  <2> HIDE DEF Bad
  <2> QED  BY <1>2, <2>1
<1>13. l <= lv[c]
  BY <1>3, <1>4, <1>5, <1>9
<1>14. PICK d \in DOMAIN h : lv[d] = l /\ lo[d] = lo[c] /\ hi[d] <= hi[c]
  BY <1>9, <1>12, <1>13
<1>15. hi[d] <= hi[m]
  <2>1. hi[d] \in Int /\ hi[c] \in Int
    BY <1>9, BoundsOf
  <2> QED  BY <1>4, <1>11, <1>14, <2>1
<1> QED  BY <1>3, <1>10, <1>14, <1>15

\* No two nodes have a separator in common.
LEMMA SeparatorsApart ==
    ASSUME NEW h, NEW rt, NEW lv, NEW lo, NEW hi, NEW x, NEW q,
           Ordered(h, rt, lv, lo, hi, x, q),
           NEW m \in DOMAIN h, NEW n \in DOMAIN h, m # n, ~h[m].leaf, ~h[n].leaf,
           lv[m] <= lv[n],
           NEW i \in 1 .. Len(h[m].keys), NEW j \in 1 .. Len(h[n].keys)
    PROVE  h[m].keys[i] # h[n].keys[j]
<1> SUFFICES ASSUME h[m].keys[i] = h[n].keys[j] PROVE FALSE
  OBVIOUS
<1>1. PICK s : s = h[n].keys[j] /\ s = h[m].keys[i]
  OBVIOUS
<1>2. lo[m] < s /\ s < hi[m] /\ lo[n] < s /\ s < hi[n]
  <2>1. InParts(h, lo, hi, x, q, m) /\ InParts(h, lo, hi, x, q, n)
    BY PartsOf
  <2> QED  BY <1>1, <2>1 DEF InParts
<1>3. /\ lo[m] \in Int /\ hi[m] \in Int /\ lo[n] \in Int /\ hi[n] \in Int
      /\ lv[m] \in Nat /\ lv[n] \in Nat
  BY BoundsOf
<1>4. lv[m] # lv[n]
  <2> SUFFICES ASSUME lv[m] = lv[n] PROVE FALSE
    OBVIOUS
  <2>1. hi[m] <= lo[n] \/ hi[n] <= lo[m]
    BY RangesApart
  <2>2. s \in Int
    <3>1. PICK ks : ks = h[n].keys
      OBVIOUS
    <3>2. ks \in Seq(Keys)
      BY <3>1 DEF Ordered, Typed, IsNode
    <3>3. ks[j] \in Keys
      BY <3>1, <3>2
    <3> QED  BY <1>1, <3>1, <3>3
  <2> QED  BY <1>2, <1>3, <2>1, <2>2
<1>5. PICK b : b = h[n].items[j + 1]
  OBVIOUS
<1>6. lo[b] = s /\ j + 1 \in 1 .. Len(h[n].items)
  <2>1. lo[h[n].items[j + 1]] = h[n].keys[j] /\ Len(h[n].items) = Len(h[n].keys) + 1
    BY DEF Ordered, Ranged, Parted
  <2>2. h[n].keys \in Seq(Keys)
    BY DEF Ordered, Typed, IsNode
  <2> QED  BY <1>1, <1>5, <2>1, <2>2
<1>7. b \in DOMAIN h /\ lv[b] + 1 = lv[n] /\ lv[b] \in Nat
  BY <1>5, <1>6, KidOf DEF Ordered
<1>8. lv[m] <= lv[b]
  BY <1>3, <1>4, <1>7, SMTT(20)
<1>9. PICK d \in DOMAIN h : lv[d] = lv[m] /\ lo[d] = s
  <2>1. PICK l \in Nat : l = lv[m]
    BY <1>3
  <2>2. \E d \in DOMAIN h : lv[d] = l /\ lo[d] = lo[b] /\ hi[d] <= hi[b]
    BY <1>7, <1>8, <2>1, StartsBelow
  <2> QED  BY <1>6, <2>1, <2>2
<1>10. s \in Int /\ s < hi[d] /\ hi[d] \in Int
  BY <1>9, BoundsOf, RangesWide
<1>11. d # m
  BY <1>2, <1>3, <1>9, <1>10
<1>12. hi[d] <= lo[m] \/ hi[m] <= lo[d]
  BY <1>9, <1>11, RangesApart
<1> QED  BY <1>2, <1>3, <1>9, <1>10, <1>12

\* SeparatorsApart, on any two levels.
LEMMA KeysApart ==
    ASSUME NEW h, NEW rt, NEW lv, NEW lo, NEW hi, NEW x, NEW q,
           Ordered(h, rt, lv, lo, hi, x, q),
           NEW m \in DOMAIN h, NEW n \in DOMAIN h, m # n, ~h[m].leaf, ~h[n].leaf,
           NEW i \in 1 .. Len(h[m].keys), NEW j \in 1 .. Len(h[n].keys)
    PROVE  h[m].keys[i] # h[n].keys[j]
<1>1. lv[m] \in Nat /\ lv[n] \in Nat
  BY BoundsOf
<1>2. CASE lv[m] <= lv[n]
  BY <1>2, SeparatorsApart
<1>3. CASE lv[n] <= lv[m]
  BY <1>3, SeparatorsApart
<1> QED  BY <1>1, <1>2, <1>3
-----------------------------------------------------------------------------
(* RefreshInternalKeys raises separators, and the bounds that are equal to  *)
(* them.                                                                    *)

Moved(b, f) == [n \in DOMAIN b |-> f[b[n]]]

\* A bound stays, or becomes the first key of the leaf whose range it begins.
Raises(f, h, lo) ==
    /\ f \in [Int -> Int]
    /\ \A b \in Int :
        \/ f[b] = b
        \/ \E e \in DOMAIN h : h[e].leaf /\ lo[e] = b /\ f[b] = h[e].keys[1]

\* The separators of g are moved like the bounds.
MovedKeys(h, g, f) ==
    /\ DOMAIN g = DOMAIN h
    /\ \A m \in DOMAIN h :
        /\ g[m].leaf = h[m].leaf /\ g[m].items = h[m].items /\ g[m].next = h[m].next
        /\ h[m].leaf => g[m].keys = h[m].keys
        /\ ~h[m].leaf => /\ Len(g[m].keys) = Len(h[m].keys)
                         /\ \A i \in 1 .. Len(h[m].keys) : g[m].keys[i] = f[h[m].keys[i]]

\* What raising does to one bound.
LEMMA RaisedBound ==
    ASSUME NEW h, NEW rt, NEW lv, NEW lo, NEW hi, NEW x, NEW q,
           Ordered(h, rt, lv, lo, hi, x, q), LeavesFilled(h), NEW f, Raises(f, h, lo),
           NEW b \in Int
    PROVE  /\ f[b] \in Int /\ b <= f[b]
           /\ f[b] # b => \E e \in DOMAIN h :
                /\ h[e].leaf /\ lo[e] = b /\ f[b] = h[e].keys[1] /\ 1 \in 1 .. Len(h[e].keys)
                /\ f[b] \in Keys /\ f[b] < hi[e] /\ hi[e] \in Int
<1>1. f[b] \in Int
  BY DEF Raises
<1>2. CASE f[b] = b
  BY <1>1, <1>2
<1>3. CASE f[b] # b
  <2>1. PICK e \in DOMAIN h : h[e].leaf /\ lo[e] = b /\ f[b] = h[e].keys[1]
    BY <1>3 DEF Raises
  <2>2. PICK ks : ks = h[e].keys
    OBVIOUS
  <2>3. ks \in Seq(Keys) /\ ks # <<>>
    BY <2>1, <2>2 DEF LeavesFilled
  <2>4. 1 \in 1 .. Len(ks) /\ ks[1] \in Keys
    BY <2>3
  <2>5. lo[e] <= ks[1] /\ ks[1] < hi[e]
    BY <2>1, <2>2, <2>4 DEF Ordered, Ranged, Filed
  <2>6. hi[e] \in Int
    BY BoundsOf
  <2> QED  BY <1>1, <2>1, <2>2, <2>4, <2>5, <2>6
<1> QED  BY <1>2, <1>3

LEMMA RaisedRanges ==
    ASSUME NEW h, NEW rt, NEW lv, NEW lo, NEW hi, NEW x, NEW q,
           Ordered(h, rt, lv, lo, hi, x, q), LeavesFilled(h), NEW f, Raises(f, h, lo),
           f[lo[rt]] = lo[rt], NEW g, MovedKeys(h, g, f)
    PROVE  Ranged(g, rt, Moved(lo, f), Moved(hi, f), x, q)
<1> DEFINE l == Moved(lo, f)
           u == Moved(hi, f)
           top == End(hi, x, q, rt)
<1>1. /\ lo \in [DOMAIN h -> Int] /\ hi \in [DOMAIN h -> Int] /\ f \in [Int -> Int]
      /\ rt \in DOMAIN h /\ q \in DOMAIN h
  BY DEF Ordered, Ranged, Within, Forest, Raises
<1>2. \A m \in DOMAIN h : l[m] = f[lo[m]] /\ u[m] = f[hi[m]]
  BY <1>1 DEF Moved
<1>3. \A m \in DOMAIN h : End(u, x, q, m) = f[End(hi, x, q, m)]
  BY <1>1, <1>2 DEF End
<1>4. l \in [DOMAIN h -> Int] /\ u \in [DOMAIN h -> Int]
  BY <1>1 DEF Moved
<1>5. top \in Int /\ lo[rt] \in Int
  BY <1>1, BoundsOf
<1>6. \A m \in DOMAIN h : lo[m] < hi[m] /\ hi[m] <= top /\ lo[rt] <= lo[m]
  BY RangesWide DEF Ordered, Ranged, Within
<1>7. f[top] = top
  <2> SUFFICES ASSUME f[top] # top PROVE FALSE
    OBVIOUS
  <2>1. PICK e \in DOMAIN h : lo[e] = top
    BY <1>5, RaisedBound
  <2>2. lo[e] \in Int /\ hi[e] \in Int
    BY <1>1
  <2> QED  BY <1>5, <1>6, <2>1, <2>2
<1>8. \A m \in DOMAIN h : /\ u[m] <= top /\ lo[rt] <= l[m]
                          /\ u[m] = top => hi[m] = top
  <2> TAKE m \in DOMAIN h
  <2>1. lo[m] \in Int /\ hi[m] \in Int
    BY <1>1
  <2>2. lo[m] <= f[lo[m]] /\ f[lo[m]] \in Int
    BY <2>1, RaisedBound
  <2>3. lo[rt] <= l[m]
    BY <1>2, <1>5, <1>6, <2>1, <2>2
  <2>4. CASE f[hi[m]] = hi[m]
    BY <1>2, <1>6, <2>3, <2>4
  <2>5. CASE f[hi[m]] # hi[m]
    <3>1. PICK e \in DOMAIN h : f[hi[m]] < hi[e] /\ hi[e] \in Int
      BY <2>1, <2>5, RaisedBound
    <3>2. hi[e] <= top /\ f[hi[m]] \in Int
      BY <1>1, <1>6, <2>1
    <3>3. f[hi[m]] < top
      BY <1>5, <3>1, <3>2
    <3> QED  BY <1>2, <1>5, <2>3, <3>2, <3>3
  <2> QED  BY <2>4, <2>5
<1>9. l[rt] = lo[rt] /\ End(u, x, q, rt) = top
  BY <1>1, <1>2, <1>3, <1>7
<1>10. DOMAIN g = DOMAIN h
  BY DEF MovedKeys
<1>11. Within(g, rt, l, u, x, q)
  <2>1. \A k \in Keys : l[rt] <= k /\ k < End(u, x, q, rt)
    BY <1>9 DEF Ordered, Ranged, Within
  <2>2. q # rt => l[q] = u[x]
    <3>1. q # rt => lo[q] = hi[x] /\ x \in DOMAIN h
      BY DEF Ordered, Ranged, Within, Twins
    <3> QED  BY <1>1, <1>2, <3>1
  <2>3. \A m \in DOMAIN g : l[rt] <= l[m] /\ u[m] <= End(u, x, q, rt)
    BY <1>8, <1>9, <1>10
  <2> HIDE DEF l, u, top
  <2> QED  BY <1>4, <1>10, <2>1, <2>2, <2>3 DEF Within
<1> HIDE DEF l, u, top
<1>12. ASSUME NEW m \in DOMAIN h, h[m].leaf
       PROVE  Filed(g, l, u, m) /\ Chained(g, l, u, top, m)
  <2>1. PICK ks : ks = h[m].keys /\ ks = g[m].keys
    BY <1>12 DEF MovedKeys
  <2>2. ks \in Seq(Keys) /\ ks # <<>>
    BY <1>12, <2>1 DEF LeavesFilled
  <2>3. PICK c \in Nat \ {0} : c = Len(ks)
    BY <2>2
  <2>4. \A i \in 1 .. c : ks[i] \in Int
    <3>1. \A i \in 1 .. c : ks[i] \in Keys
      BY <2>2, <2>3
    <3> QED  BY <3>1
  <2>5. /\ \A i, j \in 1 .. c : i < j => ks[i] < ks[j]
        /\ \A i \in 1 .. c : lo[m] <= ks[i] /\ ks[i] < hi[m]
    BY <1>12, <2>1, <2>3 DEF Ordered, Ranged, Filed, Ascends
  <2>6. lo[m] \in Int /\ hi[m] \in Int /\ l[m] \in Int /\ u[m] \in Int
    BY <1>1, <1>4
  <2>7. \A i \in 1 .. c : l[m] <= ks[i]
    <3>1. CASE f[lo[m]] = lo[m]
      BY <1>2, <2>5, <3>1
    <3>2. CASE f[lo[m]] # lo[m]
      <4>1. PICK e \in DOMAIN h : h[e].leaf /\ lo[e] = lo[m] /\ f[lo[m]] = h[e].keys[1]
        BY <2>6, <3>2, RaisedBound
      <4>2. e = m
        BY <1>12, <4>1, LeafKnown
      <4>3. l[m] = ks[1]
        BY <1>2, <2>1, <4>1, <4>2
      <4>4. \A i \in 1 .. c : ks[1] <= ks[i]
        <5> TAKE i \in 1 .. c
        <5>1. 1 \in 1 .. c
          OBVIOUS
        <5>2. CASE i = 1
          BY <2>4, <5>1, <5>2
        <5>3. CASE i # 1
          <6>1. 1 < i
            BY <5>3
          <6> QED  BY <2>4, <2>5, <5>1, <6>1
        <5> QED  BY <5>2, <5>3
      <4> QED  BY <4>3, <4>4
    <3> QED  BY <3>1, <3>2
  <2>8. \A i \in 1 .. c : ks[i] < u[m]
    <3>1. hi[m] <= u[m]
      BY <1>2, <2>6, RaisedBound
    <3> QED  BY <2>4, <2>5, <2>6, <3>1
  <2>9. l[m] < u[m]
    <3>1. 1 \in 1 .. c
      OBVIOUS
    <3> QED  BY <2>4, <2>6, <2>7, <2>8, <3>1
  <2>10. Filed(g, l, u, m)
    BY <2>1, <2>3, <2>5, <2>7, <2>8, <2>9 DEF Filed, Ascends
  <2>11. Chained(h, lo, hi, top, m)
    BY <1>12 DEF Ordered, Ranged, top
  <2>12. g[m].next = h[m].next
    BY DEF MovedKeys
  <2>13. ASSUME u[m] = top
         PROVE  g[m].next = Null
    BY <1>8, <2>11, <2>12, <2>13 DEF Chained
  <2>14. ASSUME u[m] # top
         PROVE  g[m].next \in DOMAIN g /\ g[g[m].next].leaf /\ l[g[m].next] = u[m]
    <3>1. hi[m] # top
      BY <1>2, <1>7, <2>14
    <3>2. h[m].next \in DOMAIN h /\ h[h[m].next].leaf /\ lo[h[m].next] = hi[m]
      BY <2>11, <3>1 DEF Chained
    <3> QED  BY <1>2, <1>10, <2>12, <3>2 DEF MovedKeys
  <2> QED  BY <2>10, <2>13, <2>14 DEF Chained
<1>13. ASSUME NEW m \in DOMAIN h, ~h[m].leaf
       PROVE  Parted(g, l, u, x, q, m)
  <2>1. PICK kids, ks : kids = h[m].items /\ ks = h[m].keys
    OBVIOUS
  <2>2. PICK js : js = g[m].keys
    OBVIOUS
  <2>3. g[m].items = kids /\ g[m].next = h[m].next
    BY <2>1 DEF MovedKeys
  <2>4. Len(js) = Len(ks) /\ \A i \in 1 .. Len(ks) : js[i] = f[ks[i]]
    BY <1>13, <2>1, <2>2 DEF MovedKeys
  <2>5. /\ Len(kids) = Len(ks) + 1 /\ h[m].next = Null
        /\ lo[kids[1]] = lo[m] /\ End(hi, x, q, kids[Len(kids)]) = hi[m]
        /\ \A i \in 1 .. Len(ks) : End(hi, x, q, kids[i]) = ks[i] /\ lo[kids[i + 1]] = ks[i]
    BY <1>13, <2>1 DEF Ordered, Ranged, Parted
  <2>6. kids \in Seq(DOMAIN h) /\ kids # <<>>
    BY <1>13, <2>1, BroodIs DEF Ordered
  <2>7. PICK c \in Nat : c = Len(ks) /\ Len(kids) = c + 1
    <3>1. Len(kids) \in Nat /\ Len(kids) # 0
      BY <2>6
    <3>2. Len(ks) \in Nat
      <4>1. h[m].keys \in Seq(Keys)
        BY DEF Ordered, Typed, IsNode
      <4> QED  BY <2>1, <4>1
    <3> QED  BY <2>5, <3>2
  <2>8. \A i \in 1 .. c + 1 : kids[i] \in DOMAIN h
    BY <2>6, <2>7
  <2>9. l[kids[1]] = l[m] /\ End(u, x, q, kids[c + 1]) = u[m]
    <3>1. kids[1] \in DOMAIN h /\ kids[c + 1] \in DOMAIN h
      BY <2>8
    <3> QED  BY <1>2, <1>3, <2>5, <2>7, <3>1
  <2>10. \A i \in 1 .. c : End(u, x, q, kids[i]) = js[i] /\ l[kids[i + 1]] = js[i]
    <3> TAKE i \in 1 .. c
    <3>1. kids[i] \in DOMAIN h /\ kids[i + 1] \in DOMAIN h
      BY <2>8
    <3> QED  BY <1>2, <1>3, <2>4, <2>5, <2>7, <3>1
  <2> QED  BY <2>2, <2>3, <2>4, <2>5, <2>7, <2>9, <2>10 DEF Parted
<1>14. \A m \in DOMAIN g : /\ g[m].leaf => Filed(g, l, u, m) /\ Chained(g, l, u, top, m)
                           /\ ~g[m].leaf => Parted(g, l, u, x, q, m)
  BY <1>10, <1>12, <1>13 DEF MovedKeys
<1>15. Ranged(g, rt, l, u, x, q)
  BY <1>9, <1>11, <1>14 DEF Ranged
<1> QED  BY <1>15 DEF l, u

LEMMA RangesDescend ==
    ASSUME NEW h, NEW rt, NEW lv, NEW lo, NEW hi, NEW x, NEW q,
           Ordered(h, rt, lv, lo, hi, x, q)
    PROVE  Descends(h, lv, lo) /\ \E top \in Nat : \A m \in DOMAIN h : lv[m] < top
<1>1. Forest(h, {rt, q}, lv) /\ IsFiniteSet(DOMAIN h) /\ DOMAIN h # {}
  BY DEF Ordered, Typed, Forest
<1>2. lv \in [DOMAIN h -> Nat]
  BY <1>1 DEF Forest
<1>3. ASSUME NEW m \in DOMAIN h, ~h[m].leaf
      PROVE  /\ h[m].items # <<>>
             /\ h[m].items[1] \in DOMAIN h
             /\ lv[h[m].items[1]] < lv[m]
             /\ lo[h[m].items[1]] = lo[m]
  <2>1. h[m].items # <<>> /\ 1 \in 1 .. Len(h[m].items)
    BY <1>1, <1>3, BroodIs
  <2>2. PICK c : c = h[m].items[1]
    OBVIOUS
  <2>3. c \in DOMAIN h /\ lv[c] \in Nat /\ lv[m] \in Nat /\ lv[c] + 1 = lv[m]
    BY <1>1, <1>3, <2>1, <2>2, KidOf
  <2>4. lv[c] < lv[m]
    BY <2>3
  <2>5. lo[c] = lo[m]
    BY <1>3, <2>2 DEF Ordered, Ranged, Parted
  <2> QED  BY <2>1, <2>2, <2>3, <2>4, <2>5
<1>4. Descends(h, lv, lo)
  BY <1>2, <1>3 DEF Descends
<1>5. PICK t \in Nat : \A m \in DOMAIN h : lv[m] <= t
  BY <1>1, LevelsBounded
<1>6. t + 1 \in Nat /\ \A m \in DOMAIN h : lv[m] < t + 1
  BY <1>2, <1>5
<1> QED  BY <1>4, <1>6

\* There are ranges for the nodes of g; n's is from a to b.
Refitted(g, rt, lv, x, q, n, a, b) ==
    \E lo, hi : Ordered(g, rt, lv, lo, hi, x, q) /\ lo[n] = a /\ hi[n] = b

\* New separators for n that are the first keys of the leaves there.
LEMMA SeparatorsRaise ==
    ASSUME NEW h, NEW rt, NEW lv, NEW lo, NEW hi, NEW x, NEW q,
           Ordered(h, rt, lv, lo, hi, x, q), LeavesFilled(h),
           NEW n \in DOMAIN h, ~h[n].leaf, NEW ks, Separators(ks, h, lo, n),
           NEW g, g = [h EXCEPT ![n].keys = ks]
    PROVE  Refitted(g, rt, lv, x, q, n, lo[n], hi[n])
<1>1. PICK kids, js : kids = h[n].items /\ js = h[n].keys
  OBVIOUS
<1>2. js \in Seq(Keys) /\ ks \in Seq(Keys) /\ Len(ks) = Len(kids) - 1
  BY <1>1 DEF Ordered, Typed, IsNode, Separators
<1>3. PICK c \in Nat : c = Len(js) /\ c = Len(ks) /\ Len(kids) = c + 1
  <2>1. Len(kids) = Len(js) + 1
    BY <1>1 DEF Ordered, Ranged, Parted
  <2>2. Len(js) \in Nat
    BY <1>2, KeysOf
  <2>3. Len(ks) = Len(js)
    BY <1>2, <2>1, <2>2
  <2> QED  BY <2>1, <2>2, <2>3
<1>4. \A j \in 1 .. c : js[j] \in Int /\ ks[j] \in Int
  BY <1>2, <1>3, KeysOf
<1>5. InParts(h, lo, hi, x, q, n)
  BY PartsOf
<1>6. /\ \A i, j \in 1 .. c : i < j => js[i] < js[j]
      /\ \A j \in 1 .. c : lo[n] < js[j] /\ js[j] < hi[n]
  BY <1>1, <1>3, <1>5 DEF InParts, Ascends
<1>7. ASSUME NEW j \in 1 .. c
      PROVE  \E e \in DOMAIN h : h[e].leaf /\ lo[e] = js[j] /\ ks[j] = h[e].keys[1]
  <2>1. j \in 1 .. Len(kids) - 1
    BY <1>3
  <2>2. PICK e \in DOMAIN h : h[e].leaf /\ lo[e] = lo[kids[j + 1]] /\ ks[j] = h[e].keys[1]
    BY <1>1, <2>1 DEF Separators
  <2>3. lo[kids[j + 1]] = js[j]
    BY <1>1, <1>3 DEF Ordered, Ranged, Parted
  <2> QED  BY <2>2, <2>3
<1> DEFINE Here(b) == {j \in 1 .. c : js[j] = b}
           f == [b \in Int |-> IF Here(b) = {} THEN b ELSE ks[CHOOSE j \in Here(b) : TRUE]]
<1>8. \A b \in Int : \/ Here(b) = {} /\ f[b] = b
                     \/ \E j \in 1 .. c : js[j] = b /\ f[b] = ks[j]
  <2> TAKE b \in Int
  <2>1. CASE Here(b) = {}
    BY <2>1
  <2>2. CASE Here(b) # {}
    <3>1. PICK j : j = CHOOSE i \in Here(b) : TRUE
      OBVIOUS
    <3>2. j \in Here(b)
      BY <2>2, <3>1
    <3>3. f[b] = ks[j]
      BY <2>2, <3>1
    <3> QED  BY <3>2, <3>3
  <2> QED  BY <2>1, <2>2
<1>9. \A j \in 1 .. c : f[js[j]] = ks[j]
  <2> TAKE j \in 1 .. c
  <2>1. js[j] \in Int /\ j \in Here(js[j])
    BY <1>4
  <2>2. PICK i \in 1 .. c : js[i] = js[j] /\ f[js[j]] = ks[i]
    BY <1>8, <2>1
  <2>3. i = j
    BY <1>4, <1>6, <2>2
  <2> QED  BY <2>2, <2>3
<1>10. \A b \in Int : (\A j \in 1 .. c : js[j] # b) => f[b] = b
  BY <1>8
<1>11. Raises(f, h, lo)
  <2>1. \A b \in Int : f[b] \in Int
    BY <1>4, <1>8
  <2>2. f \in [Int -> Int]
    BY <2>1
  <2>3. ASSUME NEW b \in Int, f[b] # b
        PROVE  \E e \in DOMAIN h : h[e].leaf /\ lo[e] = b /\ f[b] = h[e].keys[1]
    <3>1. PICK j \in 1 .. c : js[j] = b /\ f[b] = ks[j]
      BY <1>8, <2>3
    <3> HIDE DEF f, At
    <3> QED  BY <1>7, <3>1
  <2> HIDE DEF f, At
  <2> QED  BY <2>2, <2>3 DEF Raises
<1> HIDE DEF f, At
<1>12. lo[n] \in Int /\ hi[n] \in Int /\ lo[rt] \in Int /\ lo[rt] <= lo[n]
  BY BoundsOf DEF Ordered, Ranged, Within
<1>13. f[lo[n]] = lo[n] /\ f[hi[n]] = hi[n] /\ f[lo[rt]] = lo[rt]
  <2>1. \A j \in 1 .. c : js[j] # lo[n] /\ js[j] # hi[n] /\ js[j] # lo[rt]
    BY <1>4, <1>6, <1>12
  <2> QED  BY <1>10, <1>12, <2>1
<1>14. /\ DOMAIN g = DOMAIN h /\ \A m \in DOMAIN h : m # n => g[m] = h[m]
       /\ g[n].leaf = h[n].leaf /\ g[n].items = h[n].items /\ g[n].next = h[n].next
       /\ g[n].parent = h[n].parent /\ g[n].keys = ks /\ DOMAIN g[n] = Fields
  <2>1. DOMAIN h[n] = Fields
    BY DEF Ordered, Typed, IsNode
  <2> QED  BY <2>1 DEF Fields
<1>15. MovedKeys(h, g, f)
  <2>1. ASSUME NEW m \in DOMAIN h, ~h[m].leaf
        PROVE  /\ Len(g[m].keys) = Len(h[m].keys)
               /\ \A i \in 1 .. Len(h[m].keys) : g[m].keys[i] = f[h[m].keys[i]]
    <3>1. CASE m = n
      BY <1>1, <1>3, <1>9, <1>14, <3>1, ZenonT(40)
    <3>2. CASE m # n
      <4>1. ASSUME NEW i \in 1 .. Len(h[m].keys)
            PROVE  f[h[m].keys[i]] = h[m].keys[i]
        <5>1. PICK ls : ls = h[m].keys
          OBVIOUS
        <5>2. ls \in Seq(Keys)
          BY <5>1 DEF Ordered, Typed, IsNode
        <5>3. ls[i] \in Keys
          BY <5>1, <5>2
        <5>4. ls[i] \in Int
          BY <5>3
        <5>5. \A j \in 1 .. c : js[j] # ls[i]
          <6> TAKE j \in 1 .. c
          <6>1. j \in 1 .. Len(h[n].keys)
            BY <1>1, <1>3
          <6>2. h[m].keys[i] # h[n].keys[j]
            BY <2>1, <3>2, <6>1, KeysApart
          <6> QED  BY <1>1, <5>1, <6>2
        <5> QED  BY <1>10, <5>1, <5>4, <5>5
      <4> QED  BY <1>14, <3>2, <4>1
    <3> QED  BY <3>1, <3>2
  <2>2. \A m \in DOMAIN h :
        /\ g[m].leaf = h[m].leaf /\ g[m].items = h[m].items /\ g[m].next = h[m].next
        /\ h[m].leaf => g[m].keys = h[m].keys
    BY <1>14
  <2> QED  BY <1>14, <2>1, <2>2 DEF MovedKeys
<1>16. Ranged(g, rt, Moved(lo, f), Moved(hi, f), x, q)
  BY <1>11, <1>13, <1>15, RaisedRanges
<1>17. Moved(lo, f)[n] = lo[n] /\ Moved(hi, f)[n] = hi[n]
  BY <1>13 DEF Moved, Ordered, Ranged, Within
<1>18. Typed(g)
  BY <1>2, <1>14 DEF Ordered, Typed, IsNode
<1>19. Forest(g, {rt, q}, lv)
  <2>1. \A m \in DOMAIN h : Keeps(h, g, {rt, q}, m)
    BY <1>14 DEF Keeps
  <2> QED  BY <1>14, <2>1, ForestKept DEF Ordered
<1>20. Twins(g, rt, lv, x, q)
  BY <1>14 DEF Ordered, Twins
<1> QED  BY <1>16, <1>17, <1>18, <1>19, <1>20 DEF Ordered, Refitted

LEMMA RefreshOrdered ==
    ASSUME NEW h, NEW rt, NEW lv, NEW lo, NEW hi, NEW x, NEW q,
           Ordered(h, rt, lv, lo, hi, x, q), LeavesFilled(h),
           NEW n \in DOMAIN h, NEW g, g = RefreshInternalKeys(h, n)
    PROVE  Refitted(g, rt, lv, x, q, n, lo[n], hi[n])
<1>1. CASE h[n].leaf
  <2>1. g = h
    BY <1>1 DEF RefreshInternalKeys
  <2> QED  BY <2>1 DEF Refitted
<1>2. CASE ~h[n].leaf
  <2>1. PICK top \in Nat : \A m \in DOMAIN h : lv[m] < top
    BY RangesDescend
  <2>2. Descends(h, lv, lo)
    BY RangesDescend
  <2>3. h[n].items \in Seq(DOMAIN h) /\ h[n].items # <<>>
    BY <1>2, BroodIs DEF Ordered
  <2>4. PICK ks : /\ Separators(ks, h, lo, n)
                  /\ g = [h EXCEPT ![n].keys = ks]
    BY <1>2, <2>1, <2>2, <2>3, RefreshIs
  <2> QED  BY <1>2, <2>4, SeparatorsRaise
<1> QED  BY <1>1, <1>2
-----------------------------------------------------------------------------
-----------------------------------------------------------------------------
(* Put *)

\* The ranges are those of a tree: no node is without its parent but the root.
Plain(h, rt, lv, lo, hi) == Ordered(h, rt, lv, lo, hi, Null, rt)

LEMMA PlainEnd ==
    ASSUME NEW h, NEW rt, NEW lv, NEW lo, NEW hi, Plain(h, rt, lv, lo, hi),
           NEW m \in DOMAIN h
    PROVE  End(hi, Null, rt, m) = hi[m] /\ m # Null
<1>1. m # Null
  BY DEF Plain, Ordered, Typed, Null
<1> QED  BY <1>1 DEF End

LEMMA PlainIs ==
    ASSUME NEW h, NEW rt, NEW lv, NEW lo, NEW hi, Plain(h, rt, lv, lo, hi)
    PROVE  /\ \A m \in DOMAIN h : /\ lo[m] \in Int /\ hi[m] \in Int /\ lo[m] < hi[m]
                                  /\ lo[rt] <= lo[m] /\ hi[m] <= hi[rt]
           /\ rt \in DOMAIN h /\ Forest(h, {rt}, lv) /\ Typed(h)
           /\ lv \in [DOMAIN h -> Nat]
           /\ lo \in [DOMAIN h -> Int] /\ hi \in [DOMAIN h -> Int]
           /\ \A k \in Keys : lo[rt] <= k /\ k < hi[rt]
<1>1. Ordered(h, rt, lv, lo, hi, Null, rt)
  BY DEF Plain
<1>2. {rt, rt} = {rt}
  OBVIOUS
<1>3. Forest(h, {rt}, lv) /\ Typed(h) /\ Ranged(h, rt, lo, hi, Null, rt)
  BY <1>1, <1>2 DEF Ordered
<1>4. rt \in DOMAIN h /\ lv \in [DOMAIN h -> Nat]
  BY <1>3 DEF Forest
<1>5. End(hi, Null, rt, rt) = hi[rt]
  BY <1>4, PlainEnd
<1>6. \A m \in DOMAIN h : lo[m] \in Int /\ hi[m] \in Int /\ lo[m] < hi[m]
  BY <1>1, BoundsOf, RangesWide
<1> QED  BY <1>3, <1>4, <1>5, <1>6 DEF Ranged, Within

LEMMA PlainLeaf ==
    ASSUME NEW h, NEW rt, NEW lv, NEW lo, NEW hi, Plain(h, rt, lv, lo, hi),
           NEW m \in DOMAIN h, h[m].leaf
    PROVE  /\ Filed(h, lo, hi, m) /\ Chained(h, lo, hi, hi[rt], m)
           /\ h[m].keys \in Seq(Keys) /\ h[m].items \in Seq(Values) /\ h[m].leaf = TRUE
<1>1. End(hi, Null, rt, rt) = hi[rt]
  <2>1. rt \in DOMAIN h
    BY PlainIs
  <2> QED  BY <2>1, PlainEnd
<1>2. Filed(h, lo, hi, m) /\ Chained(h, lo, hi, hi[rt], m)
  BY <1>1 DEF Plain, Ordered, Ranged
<1>3. h[m].keys \in Seq(Keys) /\ h[m].items \in Seq(Values) /\ h[m].leaf = TRUE
  BY DEF Plain, Ordered, Typed, IsNode
<1> QED  BY <1>2, <1>3

\* The keys ks cut the range from a to b into those of the nodes `kids`.
Bounded(lo, hi, kids, ks, d, a, b) ==
    /\ lo[kids[1]] = a /\ hi[kids[d + 1]] = b
    /\ \A j \in 1 .. d : hi[kids[j]] = ks[j] /\ lo[kids[j + 1]] = ks[j]

\* The bounds of the c + 1 children of internal node m.
Cuts(h, lo, hi, m, kids, ks, c) ==
    /\ kids = h[m].items /\ ks = h[m].keys /\ h[m].next = Null
    /\ Len(ks) = c /\ Len(kids) = c + 1
    /\ ks \in Seq(Keys) /\ kids \in Seq(DOMAIN h)
    /\ \A i \in 1 .. c : ks[i] \in Int
    /\ \A i \in 1 .. c + 1 : kids[i] \in DOMAIN h
    /\ Bounded(lo, hi, kids, ks, c, lo[m], hi[m])

LEMMA PlainInternal ==
    ASSUME NEW h, NEW rt, NEW lv, NEW lo, NEW hi, Plain(h, rt, lv, lo, hi),
           NEW m \in DOMAIN h, ~h[m].leaf
    PROVE  \E c \in Nat : Cuts(h, lo, hi, m, h[m].items, h[m].keys, c)
<1>1. PICK kids, js : kids = h[m].items /\ js = h[m].keys
  OBVIOUS
<1>2. /\ Len(kids) = Len(js) + 1 /\ h[m].next = Null
      /\ lo[kids[1]] = lo[m] /\ End(hi, Null, rt, kids[Len(kids)]) = hi[m]
      /\ \A i \in 1 .. Len(js) : End(hi, Null, rt, kids[i]) = js[i] /\ lo[kids[i + 1]] = js[i]
  BY <1>1 DEF Plain, Ordered, Ranged, Parted
<1>3. js \in Seq(Keys)
  BY <1>1 DEF Plain, Ordered, Typed, IsNode
<1>4. PICK c \in Nat : c = Len(js) /\ \A i \in 1 .. c : js[i] \in Int
  BY <1>3, KeysOf
<1>5. Forest(h, {rt}, lv)
  BY PlainIs
<1>6. kids \in Seq(DOMAIN h)
  BY <1>1, <1>5, BroodIs
<1>7. Len(kids) = c + 1
  BY <1>2, <1>4
<1>8. \A i \in 1 .. c + 1 : kids[i] \in DOMAIN h /\ End(hi, Null, rt, kids[i]) = hi[kids[i]]
  <2> TAKE i \in 1 .. c + 1
  <2>1. kids[i] \in DOMAIN h
    BY <1>6, <1>7
  <2> QED  BY <2>1, PlainEnd
<1>9. c + 1 \in 1 .. c + 1 /\ \A i \in 1 .. c : i \in 1 .. c + 1
  OBVIOUS
<1>10. Cuts(h, lo, hi, m, kids, js, c)
  BY <1>1, <1>2, <1>3, <1>4, <1>6, <1>7, <1>8, <1>9 DEF Cuts, Bounded
<1> QED  BY <1>1, <1>10

LEMMA PromotedInside ==
    ASSUME NEW h, NEW rt, NEW lv, NEW lo, NEW hi, Plain(h, rt, lv, lo, hi),
           NEW n \in DOMAIN h, NEW c \in Nat \ {0}, c + 1 <= Len(h[n].keys)
    PROVE  LET s == h[n].keys[c + 1] IN s \in Int /\ lo[n] < s /\ s < hi[n]
<1>1. PICK ks : ks = h[n].keys
  OBVIOUS
<1>2. ks \in Seq(Keys)
  BY <1>1, PlainIs DEF Typed, IsNode
<1>3. Len(ks) \in Nat /\ \A i \in 1 .. Len(ks) : ks[i] \in Int
  BY <1>2, KeysOf
<1>4. c + 1 \in 1 .. Len(ks) /\ 1 \in 1 .. Len(ks) /\ 1 < c + 1
  BY <1>1, <1>3
<1>5. lo[n] \in Int /\ hi[n] \in Int
  BY PlainIs
<1>6. CASE h[n].leaf
  <2>1. lo[n] <= ks[1] /\ ks[1] < ks[c + 1] /\ ks[c + 1] < hi[n]
    BY <1>1, <1>4, <1>6, PlainLeaf DEF Filed, Ascends
  <2> QED  BY <1>1, <1>3, <1>4, <1>5, <2>1
<1>7. CASE ~h[n].leaf
  <2>1. InParts(h, lo, hi, Null, rt, n)
    BY <1>7, PartsOf DEF Plain
  <2> QED  BY <1>1, <1>3, <1>4, <2>1 DEF InParts
<1> QED  BY <1>6, <1>7

\* The ranges after a node is split in two.
LEMMA CleftRanged ==
    ASSUME NEW h, NEW rt, NEW lv, NEW lo, NEW hi, Plain(h, rt, lv, lo, hi),
           NEW n \in DOMAIN h, NEW o, NEW r, NEW promoted, Cleft(h, n, o, r, promoted),
           NEW l, l = [m \in DOMAIN o |-> IF m = r THEN promoted ELSE lo[m]],
           NEW u, u = [m \in DOMAIN o |-> IF m = n THEN promoted
                                          ELSE IF m = r THEN hi[n] ELSE hi[m]]
    PROVE  Ranged(o, rt, l, u, n, r) /\ u[n] = promoted
<1> DEFINE w == IF h[n].leaf THEN 0 ELSE 1
<1>1. PICK c \in Nat \ {0}, e \in Nat \ {0}, v \in {0, 1} :
        /\ v = w /\ Len(h[n].keys) = c + w + e
        /\ Len(o[n].keys) = c /\ \A i \in 1 .. c : o[n].keys[i] = h[n].keys[i]
        /\ Len(o[r].keys) = e /\ \A i \in 1 .. e : o[r].keys[i] = h[n].keys[c + w + i]
        /\ Len(o[n].items) = c + w /\ \A i \in 1 .. c + w : o[n].items[i] = h[n].items[i]
        /\ Len(o[r].items) = e + w
        /\ \A i \in 1 .. e + w : o[r].items[i] = h[n].items[c + w + i]
        /\ promoted = h[n].keys[c + 1]
  <2>1. PICK c \in Nat \ {0}, e \in Nat \ {0}, v \in {0, 1} :
          CutAt(h, n, o, r, promoted, c, e, v)
    BY Zenon DEF Cleft
  <2>2. v = w
    BY <2>1, Zenon DEF CutAt
  <2>3. /\ v = w /\ Len(h[n].keys) = c + w + e
        /\ Len(o[n].keys) = c /\ \A i \in 1 .. c : o[n].keys[i] = h[n].keys[i]
        /\ Len(o[r].keys) = e /\ \A i \in 1 .. e : o[r].keys[i] = h[n].keys[c + w + i]
        /\ Len(o[n].items) = c + w /\ \A i \in 1 .. c + w : o[n].items[i] = h[n].items[i]
        /\ Len(o[r].items) = e + w
        /\ \A i \in 1 .. e + w : o[r].items[i] = h[n].items[c + w + i]
        /\ promoted = h[n].keys[c + 1]
    <3> HIDE DEF w
    <3> QED  BY <2>1, <2>2, ZenonT(40) DEF CutAt
  <2> HIDE DEF w
  <2> QED  BY <2>3, ZenonT(40)
<1> HIDE DEF w
<1>20. w = IF h[n].leaf THEN 0 ELSE 1
  BY DEF w
<1>2. /\ DOMAIN o = DOMAIN h \cup {r} /\ r \notin DOMAIN h
      /\ \A m \in DOMAIN h : m # n =>
          /\ o[m].leaf = h[m].leaf /\ o[m].keys = h[m].keys
          /\ o[m].items = h[m].items /\ o[m].next = h[m].next
      /\ o[n].leaf = h[n].leaf /\ o[r].leaf = h[n].leaf
      /\ o[n].next = (IF h[n].leaf THEN r ELSE Null) /\ o[r].next = h[n].next
  BY DEF Cleft
<1>3. promoted \in Int /\ lo[n] < promoted /\ promoted < hi[n]
  <2>1. c + 1 <= Len(h[n].keys)
    BY <1>1
  <2> QED  BY <1>1, <2>1, PromotedInside
<1>4. /\ \A m \in DOMAIN h : /\ lo[m] \in Int /\ hi[m] \in Int /\ lo[m] < hi[m]
                             /\ lo[rt] <= lo[m] /\ hi[m] <= hi[rt]
      /\ rt \in DOMAIN h
  BY PlainIs
<1>5. /\ \A m \in DOMAIN h : l[m] = lo[m] /\ End(u, n, r, m) = hi[m]
      /\ \A m \in DOMAIN h : m # n => u[m] = hi[m]
      /\ l[r] = promoted /\ u[n] = promoted /\ u[r] = hi[n] /\ n # r /\ rt # r
  BY <1>2, <1>4 DEF End
<1>6. l \in [DOMAIN o -> Int] /\ u \in [DOMAIN o -> Int]
  BY <1>2, <1>3, <1>4
<1>7. \A m \in DOMAIN o : lo[rt] <= l[m] /\ u[m] <= hi[rt]
  <2> TAKE m \in DOMAIN o
  <2>1. CASE m = r
    BY <1>3, <1>4, <1>5, <2>1
  <2>2. CASE m = n
    BY <1>3, <1>4, <1>5, <2>2
  <2>3. CASE m # r /\ m # n
    BY <1>2, <1>4, <1>5, <2>3
  <2> QED  BY <2>1, <2>2, <2>3
<1>8. Within(o, rt, l, u, n, r)
  <2>1. \A k \in Keys : lo[rt] <= k /\ k < hi[rt]
    BY PlainIs
  <2> QED  BY <1>4, <1>5, <1>6, <1>7, <2>1 DEF Within
<1>9. PICK top : top = hi[rt]
  OBVIOUS
<1>10. \A m \in DOMAIN h : h[m].leaf => Filed(h, lo, hi, m) /\ Chained(h, lo, hi, top, m)
  BY <1>9, PlainLeaf
<1>11. \A m \in DOMAIN h : h[m].leaf \in BOOLEAN /\ h[m].keys \in Seq(Keys)
  BY PlainIs DEF Typed, IsNode
<1>12. PICK ks : ks = h[n].keys
  OBVIOUS
<1>13. \A i \in 1 .. c + w + e : ks[i] \in Int
  BY <1>1, <1>11, <1>12, KeysOf
<1>14. ASSUME NEW m \in DOMAIN o, o[m].leaf
       PROVE  Filed(o, l, u, m) /\ Chained(o, l, u, top, m)
  <2>1. CASE m # n /\ m # r
    <3>1. m \in DOMAIN h /\ h[m].leaf /\ o[m].next = h[m].next /\ o[m].keys = h[m].keys
      BY <1>2, <1>14, <2>1
    <3>2. Filed(o, l, u, m)
      BY <1>5, <1>10, <2>1, <3>1 DEF Filed
    <3>3. u[m] # top => /\ o[m].next \in DOMAIN h /\ h[o[m].next].leaf
                        /\ lo[o[m].next] = u[m]
      BY <1>5, <1>10, <2>1, <3>1 DEF Chained
    <3>4. u[m] = top => o[m].next = Null
      BY <1>5, <1>10, <2>1, <3>1 DEF Chained
    <3> QED  BY <1>2, <1>5, <3>2, <3>3, <3>4 DEF Chained
  <2>2. CASE m = n
    <3>1. h[n].leaf /\ w = 0
      BY <1>2, <1>20, <1>14, <2>2
    <3>2. /\ \A i, j \in 1 .. c + e : i < j => ks[i] < ks[j]
          /\ \A i \in 1 .. c + e : lo[n] <= ks[i] /\ ks[i] < hi[n]
      <4>1. Len(ks) = c + e
        BY <1>1, <1>12, <3>1
      <4> QED  BY <1>10, <1>12, <3>1, <4>1 DEF Filed, Ascends
    <3>3. PICK js : js = o[n].keys
      OBVIOUS
    <3>4. Len(js) = c /\ \A i \in 1 .. c : js[i] = ks[i] /\ i \in 1 .. c + e /\ i < c + 1
      BY <1>1, <1>12, <3>3
    <3>5. c + 1 \in 1 .. c + e /\ promoted = ks[c + 1]
      <4>1. promoted = ks[c + 1]
        BY <1>1, <1>12, Zenon
      <4>2. c + 1 \in 1 .. c + e
        OBVIOUS
      <4> QED  BY <4>1, <4>2
    <3>6. \A i \in 1 .. c : l[n] <= js[i] /\ js[i] < u[n]
      BY <1>5, <3>2, <3>4, <3>5
    <3>7. \A i, j \in 1 .. c : i < j => js[i] < js[j]
      BY <3>2, <3>4
    <3>8. Filed(o, l, u, n)
      BY <1>3, <1>5, <3>3, <3>4, <3>6, <3>7 DEF Filed, Ascends
    <3>9. u[n] # top
      BY <1>3, <1>4, <1>5, <1>9
    <3>10. o[n].next = r /\ r \in DOMAIN o /\ o[r].leaf /\ l[r] = u[n]
      BY <1>2, <1>5, <3>1
    <3> QED  BY <2>2, <3>8, <3>9, <3>10 DEF Chained
  <2>3. CASE m = r
    <3>1. h[n].leaf /\ w = 0
      BY <1>2, <1>20, <1>14, <2>3
    <3>2. /\ \A i, j \in 1 .. c + e : i < j => ks[i] < ks[j]
          /\ \A i \in 1 .. c + e : lo[n] <= ks[i] /\ ks[i] < hi[n]
      <4>1. Len(ks) = c + e
        BY <1>1, <1>12, <3>1
      <4> QED  BY <1>10, <1>12, <3>1, <4>1 DEF Filed, Ascends
    <3>3. PICK js : js = o[r].keys
      OBVIOUS
    <3>4. Len(js) = e /\ \A i \in 1 .. e : js[i] = ks[c + i] /\ c + i \in 1 .. c + e
      BY <1>1, <1>12, <3>1, <3>3
    <3>5. c + 1 \in 1 .. c + e /\ promoted = ks[c + 1]
      BY <1>1, <1>12
    <3>6. \A i \in 1 .. e : l[r] <= js[i] /\ js[i] < u[r]
      <4> TAKE i \in 1 .. e
      <4>1. promoted <= ks[c + i]
        <5>1. CASE i = 1
          BY <1>3, <3>5, <5>1
        <5>2. CASE i # 1
          <6>1. c + 1 < c + i
            BY <5>2
          <6>2. ks[c + 1] < ks[c + i]
            BY <3>2, <3>4, <3>5, <6>1
          <6>3. ks[c + i] \in Int
            BY <1>13, <3>1, <3>4
          <6> QED  BY <1>3, <3>5, <6>2, <6>3
        <5> QED  BY <5>1, <5>2
      <4> QED  BY <1>5, <3>2, <3>4, <4>1
    <3>7. \A i, j \in 1 .. e : i < j => js[i] < js[j]
      <4> TAKE i, j \in 1 .. e
      <4> HAVE i < j
      <4>1. c + i < c + j
        OBVIOUS
      <4> QED  BY <3>2, <3>4, <4>1
    <3>8. Filed(o, l, u, r)
      BY <1>3, <1>5, <3>3, <3>4, <3>6, <3>7 DEF Filed, Ascends
    <3>9. u[r] # top => o[r].next \in DOMAIN h /\ h[o[r].next].leaf /\ lo[o[r].next] = u[r]
      BY <1>2, <1>5, <1>10, <3>1 DEF Chained
    <3>10. u[r] = top => o[r].next = Null
      BY <1>2, <1>5, <1>10, <3>1 DEF Chained
    <3>11. u[r] # top => /\ o[r].next \in DOMAIN o /\ o[o[r].next].leaf
                         /\ l[o[r].next] = u[r]
      BY <1>2, <1>5, <3>9
    <3> QED  BY <2>3, <3>8, <3>10, <3>11 DEF Chained
  <2> QED  BY <2>1, <2>2, <2>3
<1>15. ASSUME NEW m \in DOMAIN h, ~h[m].leaf
       PROVE  /\ Len(h[m].items) = Len(h[m].keys) + 1 /\ h[m].next = Null
              /\ Len(h[m].keys) \in Nat
              /\ \A i \in 1 .. Len(h[m].items) :
                    /\ l[h[m].items[i]] = lo[h[m].items[i]]
                    /\ End(u, n, r, h[m].items[i]) = hi[h[m].items[i]]
              /\ lo[h[m].items[1]] = lo[m] /\ hi[h[m].items[Len(h[m].items)]] = hi[m]
              /\ \A i \in 1 .. Len(h[m].keys) :
                    /\ hi[h[m].items[i]] = h[m].keys[i]
                    /\ lo[h[m].items[i + 1]] = h[m].keys[i]
  <2>1. PICK b \in Nat : Cuts(h, lo, hi, m, h[m].items, h[m].keys, b)
    BY <1>15, PlainInternal
  <2> QED  BY <1>5, <2>1 DEF Cuts, Bounded
<1>16. ASSUME NEW m \in DOMAIN o, ~o[m].leaf
       PROVE  Parted(o, l, u, n, r, m)
  <2>1. CASE m # n /\ m # r
    <3>1. /\ m \in DOMAIN h /\ ~h[m].leaf /\ o[m].next = h[m].next /\ o[m].keys = h[m].keys
          /\ o[m].items = h[m].items
      BY <1>2, <1>16, <2>1
    <3>2. PICK kids, js : kids = h[m].items /\ js = h[m].keys
      OBVIOUS
    <3>3. /\ Len(kids) = Len(js) + 1 /\ h[m].next = Null /\ Len(js) \in Nat
          /\ \A i \in 1 .. Len(kids) : l[kids[i]] = lo[kids[i]] /\ End(u, n, r, kids[i]) = hi[kids[i]]
          /\ lo[kids[1]] = lo[m] /\ hi[kids[Len(kids)]] = hi[m]
          /\ \A i \in 1 .. Len(js) : hi[kids[i]] = js[i] /\ lo[kids[i + 1]] = js[i]
      BY <1>15, <3>1, <3>2
    <3>4. /\ 1 \in 1 .. Len(kids) /\ Len(kids) \in 1 .. Len(kids)
          /\ \A i \in 1 .. Len(js) : i \in 1 .. Len(kids) /\ i + 1 \in 1 .. Len(kids)
      BY <3>3
    <3>5. l[m] = lo[m] /\ u[m] = hi[m]
      BY <1>5, <2>1, <3>1
    <3> QED  BY <3>1, <3>2, <3>3, <3>4, <3>5, SMTT(20) DEF Parted
  <2>2. CASE m = n \/ m = r
    <3>1. ~h[n].leaf /\ w = 1
      BY <1>2, <1>20, <1>16, <2>2
    <3>2. PICK kids : kids = h[n].items
      OBVIOUS
    <3>3. /\ Len(kids) = c + e + 2 /\ h[n].next = Null
          /\ \A i \in 1 .. c + e + 2 : l[kids[i]] = lo[kids[i]] /\ End(u, n, r, kids[i]) = hi[kids[i]]
          /\ lo[kids[1]] = lo[n] /\ hi[kids[c + e + 2]] = hi[n]
          /\ \A i \in 1 .. c + e + 1 : hi[kids[i]] = ks[i] /\ lo[kids[i + 1]] = ks[i]
      <4>1. Len(ks) = c + e + 1 /\ Len(kids) = Len(ks) + 1
        BY <1>1, <1>12, <1>15, <3>1, <3>2
      <4>2. Len(kids) = c + e + 2
        BY <4>1
      <4>3. PICK a \in Nat, b \in Nat : a = c + e + 1 /\ b = c + e + 2
        OBVIOUS
      <4>4. /\ h[n].next = Null
            /\ \A i \in 1 .. b : l[kids[i]] = lo[kids[i]] /\ End(u, n, r, kids[i]) = hi[kids[i]]
            /\ lo[kids[1]] = lo[n] /\ hi[kids[b]] = hi[n]
            /\ \A i \in 1 .. a : hi[kids[i]] = ks[i] /\ lo[kids[i + 1]] = ks[i]
        <5>1. /\ h[n].next = Null
              /\ \A i \in 1 .. Len(kids) : /\ l[kids[i]] = lo[kids[i]]
                                           /\ End(u, n, r, kids[i]) = hi[kids[i]]
              /\ lo[kids[1]] = lo[n] /\ hi[kids[Len(kids)]] = hi[n]
              /\ \A i \in 1 .. Len(ks) : hi[kids[i]] = ks[i] /\ lo[kids[i + 1]] = ks[i]
          <6>1. n \in DOMAIN h /\ ~h[n].leaf
            BY <3>1
          <6>2. /\ h[n].next = Null
                /\ \A i \in 1 .. Len(h[n].items) : /\ l[h[n].items[i]] = lo[h[n].items[i]]
                                                   /\ End(u, n, r, h[n].items[i]) = hi[h[n].items[i]]
                /\ lo[h[n].items[1]] = lo[n] /\ hi[h[n].items[Len(h[n].items)]] = hi[n]
                /\ \A i \in 1 .. Len(h[n].keys) : /\ hi[h[n].items[i]] = h[n].keys[i]
                                                  /\ lo[h[n].items[i + 1]] = h[n].keys[i]
            BY <1>15, <6>1, Zenon
          <6> QED  BY <1>12, <3>2, <6>2, Zenon
        <5> QED  BY <4>1, <4>2, <4>3, <5>1, Zenon
      <4> QED  BY <4>2, <4>3, <4>4
    <3>4. CASE m = n
      <4>1. PICK os, js : os = o[n].items /\ js = o[n].keys
        OBVIOUS
      <4>2. /\ Len(os) = c + 1 /\ \A i \in 1 .. c + 1 : os[i] = kids[i]
            /\ Len(js) = c /\ \A i \in 1 .. c : js[i] = ks[i]
        BY <1>1, <1>12, <3>1, <3>2, <4>1
      <4>3. /\ 1 \in 1 .. c + 1 /\ c + 1 \in 1 .. c + 1 /\ c + 1 \in 1 .. c + e + 1
            /\ \A i \in 1 .. c + 1 : i \in 1 .. c + e + 2
            /\ \A i \in 1 .. c : i \in 1 .. c + 1 /\ i + 1 \in 1 .. c + 1 /\ i \in 1 .. c + e + 1
        OBVIOUS
      <4>4. l[os[1]] = l[n] /\ End(u, n, r, os[c + 1]) = u[n]
        <5>1. os[1] = kids[1] /\ os[c + 1] = kids[c + 1] /\ promoted = ks[c + 1]
          BY <1>1, <1>12, <4>2, <4>3
        <5>2. l[kids[1]] = lo[kids[1]] /\ End(u, n, r, kids[c + 1]) = hi[kids[c + 1]]
          BY <3>3, <4>3
        <5>3. hi[kids[c + 1]] = ks[c + 1]
          BY <3>3, <4>3
        <5> QED  BY <1>5, <3>3, <5>1, <5>2, <5>3
      <4>5. \A i \in 1 .. c : End(u, n, r, os[i]) = js[i] /\ l[os[i + 1]] = js[i]
        <5> TAKE i \in 1 .. c
        <5>1. os[i] = kids[i] /\ os[i + 1] = kids[i + 1] /\ js[i] = ks[i]
          BY <4>2, <4>3
        <5>2. End(u, n, r, kids[i]) = hi[kids[i]] /\ l[kids[i + 1]] = lo[kids[i + 1]]
          BY <3>3, <4>3
        <5>3. hi[kids[i]] = ks[i] /\ lo[kids[i + 1]] = ks[i]
          BY <3>3, <4>3
        <5> QED  BY <5>1, <5>2, <5>3
      <4>6. o[n].next = Null
        BY <1>2, <3>1
      <4> QED  BY <3>4, <4>1, <4>2, <4>4, <4>5, <4>6 DEF Parted
    <3>5. CASE m = r
      <4>1. PICK os, js : os = o[r].items /\ js = o[r].keys
        OBVIOUS
      <4>2. /\ Len(os) = e + 1 /\ \A i \in 1 .. e + 1 : os[i] = kids[c + 1 + i]
            /\ Len(js) = e /\ \A i \in 1 .. e : js[i] = ks[c + 1 + i]
        BY <1>1, <1>12, <3>1, <3>2, <4>1
      <4>3. /\ 1 \in 1 .. e + 1 /\ e + 1 \in 1 .. e + 1 /\ c + 1 \in 1 .. c + e + 1
            /\ c + 1 + 1 = (c + 1) + 1 /\ c + 1 + (e + 1) = c + e + 2
            /\ \A i \in 1 .. e + 1 : c + 1 + i \in 1 .. c + e + 2
            /\ \A i \in 1 .. e : /\ i \in 1 .. e + 1 /\ i + 1 \in 1 .. e + 1
                                 /\ c + 1 + i \in 1 .. c + e + 1
                                 /\ c + 1 + (i + 1) = (c + 1 + i) + 1
        OBVIOUS
      <4>4. l[os[1]] = l[r] /\ End(u, n, r, os[e + 1]) = u[r]
        <5>1. os[1] = kids[(c + 1) + 1] /\ os[e + 1] = kids[c + e + 2] /\ promoted = ks[c + 1]
          BY <1>1, <1>12, <4>2, <4>3, SMTT(20)
        <5>2. (c + 1) + 1 \in 1 .. c + e + 2 /\ c + e + 2 \in 1 .. c + e + 2
          BY <4>3
        <5>3. /\ l[kids[(c + 1) + 1]] = lo[kids[(c + 1) + 1]]
              /\ End(u, n, r, kids[c + e + 2]) = hi[kids[c + e + 2]]
          BY <3>3, <5>2
        <5>4. lo[kids[(c + 1) + 1]] = ks[c + 1]
          BY <3>3, <4>3
        <5> QED  BY <1>5, <3>3, <5>1, <5>3, <5>4
      <4>5. \A i \in 1 .. e : End(u, n, r, os[i]) = js[i] /\ l[os[i + 1]] = js[i]
        <5> TAKE i \in 1 .. e
        <5>1. PICK a : a = c + 1 + i
          OBVIOUS
        <5>2. a \in 1 .. c + e + 1 /\ a \in 1 .. c + e + 2 /\ a + 1 \in 1 .. c + e + 2
          BY <4>3, <5>1
        <5>3. os[i] = kids[a] /\ os[i + 1] = kids[a + 1] /\ js[i] = ks[a]
          BY <4>2, <4>3, <5>1
        <5>4. End(u, n, r, kids[a]) = hi[kids[a]] /\ l[kids[a + 1]] = lo[kids[a + 1]]
          BY <3>3, <5>2
        <5>5. hi[kids[a]] = ks[a] /\ lo[kids[a + 1]] = ks[a]
          BY <3>3, <5>2
        <5> QED  BY <5>3, <5>4, <5>5
      <4>6. o[r].next = Null
        BY <1>2, <3>3
      <4>7. Len(os) = Len(js) + 1
        BY <4>2
      <4>8. /\ End(u, n, r, os[Len(os)]) = u[r]
            /\ \A i \in 1 .. Len(js) : End(u, n, r, os[i]) = js[i] /\ l[os[i + 1]] = js[i]
        BY <4>2, <4>4, <4>5, Zenon
      <4> QED  BY <3>5, <4>1, <4>4, <4>6, <4>7, <4>8, ZenonT(40) DEF Parted
    <3> QED  BY <2>2, <3>4, <3>5
  <2> QED  BY <2>1, <2>2
<1>17. End(u, n, r, rt) = top
  BY <1>4, <1>5, <1>9
<1> QED  BY <1>5, <1>8, <1>14, <1>16, <1>17 DEF Ranged

\* Entry <<a, b>> is in a leaf, or in some leaf of h.
Lists(node, a, b) == \E i \in 1 .. Len(node.keys) : node.keys[i] = a /\ node.items[i] = b

Has(h, a, b) == \E m \in DOMAIN h : h[m].leaf /\ Lists(h[m], a, b)

SameEntries(h, g) == \A a, b : Has(g, a, b) <=> Has(h, a, b)

\* The leaves of h are those of g, and have the same entries.
SameLeaves(h, g) ==
    /\ \A m \in DOMAIN h : h[m].leaf =>
        m \in DOMAIN g /\ g[m].leaf /\ g[m].keys = h[m].keys /\ g[m].items = h[m].items
    /\ \A m \in DOMAIN g : g[m].leaf => m \in DOMAIN h /\ h[m].leaf

LEMMA SameLeavesDo ==
    ASSUME NEW h, NEW g, SameLeaves(h, g)
    PROVE  SameEntries(h, g)
<1>1. ASSUME NEW a, NEW b, Has(g, a, b)
      PROVE  Has(h, a, b)
  <2>1. PICK m \in DOMAIN g : g[m].leaf /\ Lists(g[m], a, b)
    BY <1>1 DEF Has
  <2>2. m \in DOMAIN h /\ h[m].leaf /\ g[m].keys = h[m].keys /\ g[m].items = h[m].items
    BY <2>1 DEF SameLeaves
  <2>3. Lists(h[m], a, b)
    BY <2>1, <2>2 DEF Lists
  <2> QED  BY <2>2, <2>3 DEF Has
<1>2. ASSUME NEW a, NEW b, Has(h, a, b)
      PROVE  Has(g, a, b)
  <2>1. PICK m \in DOMAIN h : h[m].leaf /\ Lists(h[m], a, b)
    BY <1>2 DEF Has
  <2>2. m \in DOMAIN g /\ g[m].leaf /\ g[m].keys = h[m].keys /\ g[m].items = h[m].items
    BY <2>1 DEF SameLeaves
  <2>3. Lists(g[m], a, b)
    BY <2>1, <2>2 DEF Lists
  <2> QED  BY <2>2, <2>3 DEF Has
<1> QED  BY <1>1, <1>2 DEF SameEntries

LEMMA EntriesThrough ==
    ASSUME NEW h, NEW g, NEW x, SameEntries(h, g), SameEntries(g, x)
    PROVE  SameEntries(h, x)
BY DEF SameEntries

LEMMA RefreshSame ==
    ASSUME NEW h, NEW R, NEW lv, Typed(h), Forest(h, R, lv), LeavesFilled(h),
           NEW n \in DOMAIN h, NEW g, g = RefreshInternalKeys(h, n)
    PROVE  SameEntries(h, g)
<1>1. /\ DOMAIN g = DOMAIN h /\ \A m \in DOMAIN h : m # n => g[m] = h[m]
      /\ g[n].leaf = h[n].leaf
      /\ h[n].leaf => g = h
  BY Refreshed
<1>2. SameLeaves(h, g)
  BY <1>1 DEF SameLeaves
<1> QED  BY <1>2, SameLeavesDo

LEMMA CleftSame ==
    ASSUME NEW h, NEW n \in DOMAIN h, NEW o, NEW r, NEW promoted, Cleft(h, n, o, r, promoted)
    PROVE  SameEntries(h, o)
<1>1. /\ DOMAIN o = DOMAIN h \cup {r} /\ r \notin DOMAIN h
      /\ \A m \in DOMAIN h : m # n => /\ o[m].leaf = h[m].leaf /\ o[m].keys = h[m].keys
                                      /\ o[m].items = h[m].items
      /\ o[n].leaf = h[n].leaf /\ o[r].leaf = h[n].leaf
  BY DEF Cleft
<1>2. CASE ~h[n].leaf
  <2>1. SameLeaves(h, o)
    BY <1>1, <1>2 DEF SameLeaves
  <2> QED  BY <2>1, SameLeavesDo
<1>3. CASE h[n].leaf
  <2>0. PICK c \in Nat \ {0}, e \in Nat \ {0}, w \in {0, 1} :
          CutAt(h, n, o, r, promoted, c, e, w)
    BY Zenon DEF Cleft
  <2>1. /\ w = (IF h[n].leaf THEN 0 ELSE 1) /\ Len(h[n].keys) = c + w + e
        /\ Len(o[n].keys) = c /\ \A i \in 1 .. c : o[n].keys[i] = h[n].keys[i]
        /\ Len(o[r].keys) = e /\ \A i \in 1 .. e : o[r].keys[i] = h[n].keys[c + w + i]
        /\ Len(o[n].items) = c + w /\ \A i \in 1 .. c + w : o[n].items[i] = h[n].items[i]
        /\ Len(o[r].items) = e + w
        /\ \A i \in 1 .. e + w : o[r].items[i] = h[n].items[c + w + i]
    BY <2>0, Zenon DEF CutAt
  <2>2. w = 0 /\ Len(h[n].keys) = c + e
    BY <1>3, <2>1
  <2>3. ASSUME NEW a, NEW b
        PROVE  Lists(h[n], a, b) <=> Lists(o[n], a, b) \/ Lists(o[r], a, b)
    <3>1. ASSUME Lists(h[n], a, b)
          PROVE  Lists(o[n], a, b) \/ Lists(o[r], a, b)
      <4>1. PICK i \in 1 .. c + e : h[n].keys[i] = a /\ h[n].items[i] = b
        BY <2>2, <3>1 DEF Lists
      <4>2. CASE i <= c
        <5>1. i \in 1 .. c /\ i \in 1 .. c + w
          BY <2>2, <4>2
        <5> QED  BY <2>1, <4>1, <5>1 DEF Lists
      <4>3. CASE ~(i <= c)
        <5>1. PICK j \in 1 .. e : i = c + w + j
          <6>1. i - c \in 1 .. e /\ i = c + w + (i - c)
            BY <2>2, <4>3
          <6> QED  BY <6>1
        <5>2. j \in 1 .. e + w
          BY <2>2
        <5> QED  BY <2>1, <4>1, <5>1, <5>2 DEF Lists
      <4> QED  BY <4>2, <4>3
    <3>2. ASSUME Lists(o[n], a, b)
          PROVE  Lists(h[n], a, b)
      <4>1. PICK i \in 1 .. c : o[n].keys[i] = a /\ o[n].items[i] = b
        BY <2>1, <3>2 DEF Lists
      <4>2. i \in 1 .. c + w /\ i \in 1 .. c + e
        BY <2>2
      <4>3. h[n].keys[i] = a /\ h[n].items[i] = b
        BY <2>1, <4>1, <4>2
      <4> QED  BY <2>2, <4>2, <4>3 DEF Lists
    <3>3. ASSUME Lists(o[r], a, b)
          PROVE  Lists(h[n], a, b)
      <4>1. PICK i \in 1 .. e : o[r].keys[i] = a /\ o[r].items[i] = b
        BY <2>1, <3>3 DEF Lists
      <4>2. i \in 1 .. e + w /\ c + w + i \in 1 .. c + e
        BY <2>2
      <4>3. h[n].keys[c + w + i] = a /\ h[n].items[c + w + i] = b
        BY <2>1, <4>1, <4>2
      <4> QED  BY <2>2, <4>2, <4>3 DEF Lists
    <3> QED  BY <3>1, <3>2, <3>3
  <2>4. \A m \in DOMAIN h : m # n => \A a, b : Lists(o[m], a, b) <=> Lists(h[m], a, b)
    BY <1>1 DEF Lists
  <2>5. \A a, b : Has(o, a, b) => Has(h, a, b)
    BY <1>1, <1>3, <2>3, <2>4 DEF Has
  <2>6. \A a, b : Has(h, a, b) => Has(o, a, b)
    BY <1>1, <1>3, <2>3, <2>4 DEF Has
  <2> QED  BY <2>5, <2>6 DEF SameEntries
<1> QED  BY <1>2, <1>3

\* What a call of Insert for node n leaves is in order.
InOrder(r, rt, n) ==
    /\ r.right = Null => \E lo, hi : Ranged(r.heap, rt, lo, hi, Null, rt)
    /\ r.right # Null =>
        \E lo, hi : Ranged(r.heap, rt, lo, hi, n, r.right) /\ hi[n] = r.promoted

LEMMA OpenedInOrder ==
    ASSUME NEW h, NEW rt, NEW lv, NEW lo, NEW hi, Plain(h, rt, lv, lo, hi),
           NEW n \in DOMAIN h, NEW s, Opened(h, {rt}, lv, n, s), s.right # Null
    PROVE  InOrder(s, rt, n) /\ SameEntries(h, s.heap)
<1>1. PICK r, promoted : r = s.right /\ promoted = s.promoted
  OBVIOUS
<1>2. PICK o : /\ Cleft(h, n, o, r, promoted)
               /\ Typed(o) /\ LeavesFilled(o)
               /\ Forest(o, {rt} \cup {r}, LvWith(lv, r, lv[n]))
               /\ s.heap = RefreshInternalKeys(RefreshInternalKeys(o, n), r)
  BY <1>1 DEF Opened
<1>3. {rt} \cup {r} = {rt, r} /\ r \notin DOMAIN h /\ DOMAIN o = DOMAIN h \cup {r}
  BY <1>2 DEF Cleft
<1>4. PICK lw : lw = LvWith(lv, r, lv[n])
  OBVIOUS
<1>5. Forest(o, {rt, r}, lw)
  BY <1>2, <1>3, <1>4
<1>6. rt \in DOMAIN h /\ lv \in [DOMAIN h -> Nat] /\ lw[r] = lv[n] /\ lw[n] = lv[n]
  BY <1>3, <1>4, PlainIs DEF LvWith
<1>7. PICK l, u : Ranged(o, rt, l, u, n, r) /\ u[n] = promoted
  <2>1. PICK l, u : /\ l = [m \in DOMAIN o |-> IF m = r THEN promoted ELSE lo[m]]
                    /\ u = [m \in DOMAIN o |-> IF m = n THEN promoted
                                               ELSE IF m = r THEN hi[n] ELSE hi[m]]
    OBVIOUS
  <2>2. Ranged(o, rt, l, u, n, r) /\ u[n] = promoted
    BY <1>2, <2>1, CleftRanged
  <2> QED  BY <2>2
<1>8. Twins(o, rt, lw, n, r)
  BY <1>3, <1>6 DEF Twins
<1>9. Ordered(o, rt, lw, l, u, n, r)
  BY <1>2, <1>5, <1>7, <1>8 DEF Ordered
<1>10. PICK p, q : p = RefreshInternalKeys(o, n) /\ q = RefreshInternalKeys(p, r)
  OBVIOUS
<1>11. n \in DOMAIN o /\ r \in DOMAIN o
  BY <1>3
<1>12. Refitted(p, rt, lw, n, r, n, l[n], u[n])
  BY <1>2, <1>9, <1>10, <1>11, RefreshOrdered
<1>13. PICK l1, u1 : Ordered(p, rt, lw, l1, u1, n, r) /\ u1[n] = promoted
  BY <1>7, <1>12 DEF Refitted
<1>14. Typed(p) /\ Forest(p, {rt, r}, lw) /\ LeavesFilled(p) /\ DOMAIN p = DOMAIN o
  BY <1>2, <1>5, <1>10, <1>11, Refreshed
<1>15. Refitted(q, rt, lw, n, r, r, l1[r], u1[r])
  BY <1>10, <1>11, <1>13, <1>14, RefreshOrdered
<1>16. PICK l2, u2 : Ordered(q, rt, lw, l2, u2, n, r) /\ l2[r] = l1[r]
  BY <1>15 DEF Refitted
<1>17. r # rt
  BY <1>3, <1>6
<1>18. u2[n] = promoted
  BY <1>13, <1>16, <1>17 DEF Ordered, Ranged, Within
<1>19. s.heap = q
  BY <1>2, <1>10
<1>20. InOrder(s, rt, n)
  BY <1>1, <1>16, <1>18, <1>19 DEF InOrder, Ordered
<1>21. SameEntries(h, o) /\ SameEntries(o, p) /\ SameEntries(p, q)
  BY <1>2, <1>5, <1>10, <1>11, <1>14, CleftSame, RefreshSame
<1> QED  BY <1>19, <1>20, <1>21, EntriesThrough

LEMMA SplitIfFullInOrder ==
    ASSUME degree \in Int, NEW h, NEW rt, NEW lv, NEW lo, NEW hi, Plain(h, rt, lv, lo, hi),
           LeavesFilled(h), NEW n \in DOMAIN h, Counted(h, n), Len(h[n].keys) <= Degree
    PROVE  LET s == SplitIfFull(h, n) IN InOrder(s, rt, n) /\ SameEntries(h, s.heap)
<1>1. Degree \in Nat
  BY DegreeIs, Zenon
<1>2. Typed(h) /\ Forest(h, {rt}, lv)
  BY PlainIs
<1>3. Len(h[n].keys) \in Nat
  BY <1>2, KeysOf DEF Typed, IsNode
<1>4. CASE Len(h[n].keys) > Degree - 1
  <2>1. PICK s : s = Split(h, n)
    OBVIOUS
  <2>2. SplitIfFull(h, n) = s
    BY <1>4, <2>1 DEF SplitIfFull
  <2>3. Len(h[n].keys) = Degree
    BY <1>1, <1>3, <1>4
  <2>4. Opened(h, {rt}, lv, n, s) /\ Halved(h, {rt}, lv, n, s.heap, s.right, s.promoted)
    BY <1>2, <2>1, <2>3, SplitHalves
  <2>5. s.right # Null
    BY <2>4 DEF Halved, Null
  <2>6. InOrder(s, rt, n) /\ SameEntries(h, s.heap)
    BY <2>4, <2>5, OpenedInOrder
  <2> QED  BY <2>2, <2>6
<1>5. CASE ~(Len(h[n].keys) > Degree - 1)
  <2>1. PICK g : g = RefreshInternalKeys(h, n)
    OBVIOUS
  <2>2. SplitIfFull(h, n) = [heap |-> g, right |-> Null, promoted |-> 0]
    BY <1>5, <2>1 DEF SplitIfFull
  <2>3. Refitted(g, rt, lv, Null, rt, n, lo[n], hi[n])
    BY <2>1, RefreshOrdered DEF Plain
  <2>4. \E l, u : Ranged(g, rt, l, u, Null, rt)
    BY <2>3 DEF Refitted, Ordered
  <2>5. SameEntries(h, g)
    BY <1>2, <2>1, RefreshSame
  <2> QED  BY <2>2, <2>4, <2>5 DEF InOrder
<1> QED  BY <1>4, <1>5

\* The ranges of a tree are in order.
Sorted(h, rt, lo, hi) ==
    /\ lo \in [DOMAIN h -> Int] /\ hi \in [DOMAIN h -> Int] /\ rt \in DOMAIN h
    /\ \A n \in DOMAIN h : lo[rt] <= lo[n] /\ hi[n] <= hi[rt]
    /\ \A k \in Keys : lo[rt] <= k /\ k < hi[rt]
    /\ \A n \in DOMAIN h :
        /\ h[n].leaf => Filed(h, lo, hi, n) /\ Chained(h, lo, hi, hi[rt], n)
        /\ ~h[n].leaf => \E c \in Nat : Cuts(h, lo, hi, n, h[n].items, h[n].keys, c)

LEMMA PlainFrom ==
    ASSUME NEW h, NEW rt, NEW lv, NEW lo, NEW hi, Typed(h), Forest(h, {rt}, lv),
           Sorted(h, rt, lo, hi)
    PROVE  Plain(h, rt, lv, lo, hi)
<1>1. {rt, rt} = {rt}
  OBVIOUS
<1>2. Twins(h, rt, lv, Null, rt)
  BY DEF Twins
<1>3. \A m \in DOMAIN h : m # Null
  BY DEF Typed, Null
<1>4. \A m \in DOMAIN h : End(hi, Null, rt, m) = hi[m]
  BY <1>3 DEF End
<1>5. Within(h, rt, lo, hi, Null, rt)
  BY <1>4 DEF Sorted, Within
<1>6. ASSUME NEW m \in DOMAIN h, ~h[m].leaf
      PROVE  Parted(h, lo, hi, Null, rt, m)
  <2>1. PICK c \in Nat : Cuts(h, lo, hi, m, h[m].items, h[m].keys, c)
    BY <1>6 DEF Sorted
  <2>2. PICK kids, ks : kids = h[m].items /\ ks = h[m].keys
    OBVIOUS
  <2>3. /\ Len(kids) = c + 1 /\ Len(ks) = c /\ h[m].next = Null
        /\ \A i \in 1 .. c + 1 : kids[i] \in DOMAIN h
        /\ lo[kids[1]] = lo[m] /\ hi[kids[c + 1]] = hi[m]
        /\ \A i \in 1 .. c : hi[kids[i]] = ks[i] /\ lo[kids[i + 1]] = ks[i]
    BY <2>1, <2>2 DEF Cuts, Bounded
  <2>4. \A i \in 1 .. c + 1 : End(hi, Null, rt, kids[i]) = hi[kids[i]]
    BY <1>4, <2>3
  <2>5. c + 1 \in 1 .. c + 1 /\ \A i \in 1 .. c : i \in 1 .. c + 1
    OBVIOUS
  <2> QED  BY <2>2, <2>3, <2>4, <2>5 DEF Parted
<1>7. ASSUME NEW m \in DOMAIN h, h[m].leaf
      PROVE  Filed(h, lo, hi, m) /\ Chained(h, lo, hi, End(hi, Null, rt, rt), m)
  BY <1>4, <1>7 DEF Sorted
<1>8. Ranged(h, rt, lo, hi, Null, rt)
  BY <1>5, <1>6, <1>7, Zenon DEF Ranged
<1> QED  BY <1>1, <1>2, <1>8 DEF Plain, Ordered

LEMMA PlainSorted ==
    ASSUME NEW h, NEW rt, NEW lv, NEW lo, NEW hi, Plain(h, rt, lv, lo, hi)
    PROVE  Sorted(h, rt, lo, hi)
<1>1. \A m \in DOMAIN h : h[m].leaf => Filed(h, lo, hi, m) /\ Chained(h, lo, hi, hi[rt], m)
  BY PlainLeaf
<1>2. \A m \in DOMAIN h : ~h[m].leaf => \E c \in Nat : Cuts(h, lo, hi, m, h[m].items, h[m].keys, c)
  BY PlainInternal
<1>3. /\ \A m \in DOMAIN h : lo[rt] <= lo[m] /\ hi[m] <= hi[rt]
      /\ rt \in DOMAIN h /\ lo \in [DOMAIN h -> Int] /\ hi \in [DOMAIN h -> Int]
      /\ \A k \in Keys : lo[rt] <= k /\ k < hi[rt]
  BY PlainIs
<1> QED  BY <1>1, <1>2, <1>3, Zenon DEF Sorted

\* A leaf with other entries, whose keys are in its range.
LEMMA LeafChanged ==
    ASSUME NEW h, NEW rt, NEW lv, NEW lo, NEW hi, Plain(h, rt, lv, lo, hi),
           NEW n \in DOMAIN h, h[n].leaf, NEW g, DOMAIN g = DOMAIN h,
           \A m \in DOMAIN h : m # n => g[m] = h[m],
           IsNode(g[n]), g[n].leaf = TRUE, g[n].next = h[n].next, g[n].parent = h[n].parent,
           Filed(g, lo, hi, n)
    PROVE  Plain(g, rt, lv, lo, hi)
<1>1. Typed(h) /\ Forest(h, {rt}, lv) /\ Sorted(h, rt, lo, hi) /\ h[n].leaf = TRUE
  BY PlainIs, PlainSorted, PlainLeaf
<1>2. Typed(g)
  BY <1>1 DEF Typed
<1>3. Forest(g, {rt}, lv)
  <2>1. \A m \in DOMAIN h : Keeps(h, g, {rt}, m)
    BY <1>1, Zenon DEF Keeps
  <2> QED  BY <1>1, <2>1, ForestKept, Zenon
<1>4. \A m \in DOMAIN g : g[m].leaf = h[m].leaf /\ g[m].next = h[m].next
  BY <1>1
<1>5. ASSUME NEW m \in DOMAIN g, g[m].leaf
      PROVE  Filed(g, lo, hi, m) /\ Chained(g, lo, hi, hi[rt], m)
  <2>1. m \in DOMAIN h /\ h[m].leaf
    BY <1>4, <1>5
  <2>2. Filed(h, lo, hi, m) /\ Chained(h, lo, hi, hi[rt], m)
    BY <1>1, <2>1 DEF Sorted
  <2>3. Chained(g, lo, hi, hi[rt], m)
    BY <1>4, <2>1, <2>2 DEF Chained
  <2>4. CASE m # n
    <3>1. g[m] = h[m]
      BY <2>1, <2>4
    <3> QED  BY <2>2, <2>3, <3>1 DEF Filed
  <2> QED  BY <2>3, <2>4
<1>6. ASSUME NEW m \in DOMAIN g, ~g[m].leaf
      PROVE  \E c \in Nat : Cuts(g, lo, hi, m, g[m].items, g[m].keys, c)
  <2>1. m \in DOMAIN h /\ ~h[m].leaf /\ g[m] = h[m]
    BY <1>4, <1>6
  <2>2. PICK c \in Nat : Cuts(h, lo, hi, m, h[m].items, h[m].keys, c)
    BY <1>1, <2>1 DEF Sorted
  <2>3. Cuts(g, lo, hi, m, g[m].items, g[m].keys, c)
    BY <2>1, <2>2 DEF Cuts, Bounded
  <2> QED  BY <2>3
<1>7. Sorted(g, rt, lo, hi)
  BY <1>1, <1>5, <1>6, Zenon DEF Sorted
<1> QED  BY <1>2, <1>3, <1>7, PlainFrom

\* What becomes of the entries when those of leaf n for a key in its range do.
LEMMA LeafEntries ==
    ASSUME NEW h, NEW rt, NEW lv, NEW lo, NEW hi, Plain(h, rt, lv, lo, hi),
           NEW n \in DOMAIN h, h[n].leaf, NEW k \in Int, lo[n] <= k, k < hi[n],
           NEW g, DOMAIN g = DOMAIN h, \A m \in DOMAIN h : m # n => g[m] = h[m], g[n].leaf,
           \A a, b : a # k => (Lists(g[n], a, b) <=> Lists(h[n], a, b))
    PROVE  /\ \A b : Has(g, k, b) <=> Lists(g[n], k, b)
           /\ \A b : Has(h, k, b) <=> Lists(h[n], k, b)
           /\ \A a, b : a # k => (Has(g, a, b) <=> Has(h, a, b))
<1>1. ASSUME NEW m \in DOMAIN h, h[m].leaf, NEW b, Lists(h[m], k, b)
      PROVE  m = n
  <2>1. Filed(h, lo, hi, m)
    BY <1>1, PlainLeaf
  <2>2. lo[m] <= k /\ k < hi[m]
    BY <1>1, <2>1 DEF Filed, Lists
  <2>3. Ordered(h, rt, lv, lo, hi, Null, rt)
    BY DEF Plain
  <2> QED  BY <1>1, <2>2, <2>3, LeafKnown
<1>2. \A b : Has(g, k, b) <=> Lists(g[n], k, b)
  BY <1>1 DEF Has
<1>3. \A b : Has(h, k, b) <=> Lists(h[n], k, b)
  BY <1>1 DEF Has
<1>4. ASSUME NEW a, NEW b, a # k, NEW m \in DOMAIN h
      PROVE  g[m].leaf /\ Lists(g[m], a, b) <=> h[m].leaf /\ Lists(h[m], a, b)
  BY <1>4
<1>5. \A a, b : a # k => (Has(g, a, b) <=> Has(h, a, b))
  BY <1>4 DEF Has
<1> QED  BY <1>2, <1>3, <1>5

\* g has the entries of h, but for k that of v.
PutTo(h, g, k, v) ==
    /\ \A b : Has(g, k, b) <=> b = v
    /\ \A a, b : a # k => (Has(g, a, b) <=> Has(h, a, b))

\* k goes into ks at place `at`.
Fits(ks, k, at) ==
    (\A j \in 1 .. at - 1 : ks[j] < k) /\ (at \in 1 .. Len(ks) => ks[at] > k)

LEMMA SplicedAscends ==
    ASSUME NEW ks \in Seq(Int), Ascends(ks), NEW k \in Int, NEW at, Fits(ks, k, at),
           NEW js, Spliced(ks, js, at, k)
    PROVE  Ascends(js) /\ \A i \in 1 .. Len(js) : js[i] = k \/ \E j \in 1 .. Len(ks) : js[i] = ks[j]
<1>1. PICK c \in Nat : c = Len(ks)
  OBVIOUS
<1>2. /\ at \in 1 .. c + 1 /\ Len(js) = c + 1
      /\ \A j \in 1 .. at - 1 : js[j] = ks[j]
      /\ js[at] = k
      /\ \A j \in at + 1 .. c + 1 : js[j] = ks[j - 1]
  BY <1>1 DEF Spliced
<1> USE DEF Fits
<1>3. \A i \in 1 .. c : ks[i] \in Int
  BY <1>1
<1>4. \A i, j \in 1 .. c : i < j => ks[i] < ks[j]
  BY <1>1 DEF Ascends
<1>5. ASSUME NEW i \in 1 .. c + 1
      PROVE  \/ i < at /\ i \in 1 .. c /\ js[i] = ks[i] /\ js[i] < k
             \/ i = at /\ js[i] = k
             \/ i > at /\ i - 1 \in 1 .. c /\ js[i] = ks[i - 1] /\ js[i] > k
  <2>1. CASE i < at
    <3>1. i \in 1 .. at - 1 /\ i \in 1 .. c
      BY <1>2, <2>1
    <3> QED  BY <1>2, <2>1, <3>1
  <2>2. CASE i = at
    BY <1>2, <2>2
  <2>3. CASE i > at
    <3>1. i - 1 \in 1 .. c /\ i \in at + 1 .. c + 1 /\ at \in 1 .. c /\ (i - 1 = at \/ at < i - 1)
      BY <1>2, <2>3
    <3>2. ks[at] > k /\ ks[at] \in Int /\ ks[i - 1] \in Int /\ js[i] = ks[i - 1]
      BY <1>1, <1>2, <1>3, <3>1
    <3>3. ks[at] <= ks[i - 1]
      BY <1>4, <3>1, <3>2
    <3>4. js[i] > k
      BY <3>2, <3>3
    <3> QED  BY <2>3, <3>1, <3>2, <3>4
  <2> QED  BY <1>2, <2>1, <2>2, <2>3
<1>6. ASSUME NEW i \in 1 .. c + 1, NEW j \in 1 .. c + 1, i < j
      PROVE  js[i] < js[j]
  <2>1. CASE i < at /\ j < at
    <3>1. i \in 1 .. c /\ j \in 1 .. c /\ js[i] = ks[i] /\ js[j] = ks[j]
      BY <1>2, <1>5, <2>1
    <3> QED  BY <1>4, <1>6, <3>1
  <2>2. CASE i < at /\ j = at
    BY <1>5, <2>2
  <2>3. CASE i < at /\ j > at
    <3>1. i \in 1 .. c /\ js[i] = ks[i] /\ js[i] < k
      BY <1>2, <1>5, <2>3
    <3>2. j - 1 \in 1 .. c /\ js[j] = ks[j - 1] /\ js[j] > k
      BY <1>2, <1>5, <2>3
    <3>3. js[i] \in Int /\ js[j] \in Int
      BY <1>3, <3>1, <3>2
    <3> QED  BY <3>1, <3>2, <3>3
  <2>4. CASE i = at /\ j > at
    <3>1. js[i] = k /\ js[j] > k /\ js[j] \in Int
      BY <1>2, <1>3, <1>5, <2>4
    <3> QED  BY <3>1
  <2>5. CASE i > at /\ j > at
    <3>1. i - 1 \in 1 .. c /\ j - 1 \in 1 .. c /\ i - 1 < j - 1 /\ js[i] = ks[i - 1] /\ js[j] = ks[j - 1]
      BY <1>2, <1>5, <1>6, <2>5
    <3> QED  BY <1>4, <3>1
  <2> QED  BY <1>2, <1>6, <2>1, <2>2, <2>3, <2>4, <2>5
<1>7. Ascends(js)
  BY <1>2, <1>6 DEF Ascends
<1>8. \A i \in 1 .. c + 1 : js[i] = k \/ \E j \in 1 .. c : js[i] = ks[j]
  BY <1>5
<1> QED  BY <1>1, <1>2, <1>7, <1>8

\* The entries of two lists, the keys and the values.
Listed(ks, vs, a, b) == \E i \in 1 .. Len(ks) : ks[i] = a /\ vs[i] = b

LEMMA SplicedListed ==
    ASSUME NEW ks, NEW vs, NEW c \in Nat, Len(ks) = c, Len(vs) = c,
           NEW at, NEW k, NEW v, NEW js, NEW ws, Spliced(ks, js, at, k), Spliced(vs, ws, at, v),
           NEW a, NEW b
    PROVE  Listed(js, ws, a, b) <=> (a = k /\ b = v) \/ Listed(ks, vs, a, b)
<1>1. /\ at \in 1 .. c + 1 /\ Len(js) = c + 1
      /\ \A j \in 1 .. at - 1 : js[j] = ks[j] /\ ws[j] = vs[j]
      /\ js[at] = k /\ ws[at] = v
      /\ \A j \in at + 1 .. c + 1 : js[j] = ks[j - 1] /\ ws[j] = vs[j - 1]
  BY DEF Spliced
<1>2. ASSUME NEW i \in 1 .. c + 1, js[i] = a, ws[i] = b
      PROVE  (a = k /\ b = v) \/ Listed(ks, vs, a, b)
  <2>1. CASE i < at
    <3>1. i \in 1 .. at - 1 /\ i \in 1 .. c
      BY <1>1, <2>1
    <3> QED  BY <1>1, <1>2, <3>1 DEF Listed
  <2>2. CASE i = at
    BY <1>1, <1>2, <2>2
  <2>3. CASE i > at
    <3>1. i \in at + 1 .. c + 1 /\ i - 1 \in 1 .. c
      BY <1>1, <2>3
    <3> QED  BY <1>1, <1>2, <3>1 DEF Listed
  <2> QED  BY <1>1, <2>1, <2>2, <2>3
<1>3. ASSUME NEW i \in 1 .. c, ks[i] = a, vs[i] = b
      PROVE  Listed(js, ws, a, b)
  <2>1. CASE i < at
    <3>1. i \in 1 .. at - 1 /\ i \in 1 .. c + 1
      BY <1>1, <2>1
    <3> QED  BY <1>1, <1>3, <3>1 DEF Listed
  <2>2. CASE ~(i < at)
    <3>1. PICK j \in at + 1 .. c + 1 : j \in 1 .. c + 1 /\ j - 1 = i
      <4>1. i + 1 \in at + 1 .. c + 1 /\ i + 1 \in 1 .. c + 1 /\ (i + 1) - 1 = i
        BY <1>1, <2>2
      <4> QED  BY <4>1
    <3>2. js[j] = a /\ ws[j] = b
      BY <1>1, <1>3, <3>1
    <3> QED  BY <1>1, <3>1, <3>2 DEF Listed
  <2> QED  BY <2>1, <2>2
<1>4. a = k /\ b = v => Listed(js, ws, a, b)
  BY <1>1 DEF Listed
<1>5. Listed(js, ws, a, b) => (a = k /\ b = v) \/ Listed(ks, vs, a, b)
  BY <1>1, <1>2 DEF Listed
<1>6. Listed(ks, vs, a, b) => Listed(js, ws, a, b)
  BY <1>3 DEF Listed
<1> QED  BY <1>4, <1>5, <1>6

\* A key is in an ascending list once.
LEMMA AscendsOnce ==
    ASSUME NEW ks \in Seq(Int), Ascends(ks), NEW i \in 1 .. Len(ks), NEW j \in 1 .. Len(ks),
           ks[i] = ks[j]
    PROVE  i = j
<1>1. Len(ks) \in Nat /\ ks[i] \in Int /\ ks[j] \in Int
  OBVIOUS
<1>2. ~(ks[i] < ks[j]) /\ ~(ks[j] < ks[i])
  BY <1>1
<1> QED  BY <1>1, <1>2 DEF Ascends

LEMMA InsertInLeafInOrder ==
    ASSUME degree \in Int, NEW h, NEW rt, NEW lv, Tree(h, rt, lv),
           NEW lo, NEW hi, Plain(h, rt, lv, lo, hi),
           NEW n \in DOMAIN h, h[n].leaf, NEW k \in Keys, NEW v \in Values,
           lo[n] <= k, k < hi[n]
    PROVE  LET r == InsertInLeaf(h, n, k, v) IN InOrder(r, rt, n) /\ PutTo(h, r.heap, k, v)
<1>1. Typed(h) /\ Forest(h, {rt}, lv) /\ Balance(h, rt, {})
  BY DEF Tree
<1>2. /\ IsNode(h[n]) /\ DOMAIN h[n] = Fields /\ h[n].leaf = TRUE
      /\ h[n].keys \in Seq(Keys) /\ h[n].items \in Seq(Values)
  BY <1>1 DEF Typed, IsNode
<1>3. Counted(h, n) /\ Few(h, n)
  BY <1>1 DEF Balance
<1>4. PICK ks, vs : ks = h[n].keys /\ vs = h[n].items
  OBVIOUS
<1>5. ks \in Seq(Keys) /\ ks \in Seq(Int)
  BY <1>2, <1>4, KeysOf
<1>6. PICK c \in Nat : c = Len(ks) /\ Len(vs) = c
  BY <1>2, <1>3, <1>4 DEF Counted
<1>7. k \in Int /\ lo[n] \in Int /\ hi[n] \in Int
  BY PlainIs
<1>8. PICK at : /\ at = LowerBound(h[n], k) /\ at \in 1 .. c + 1
                /\ \A j \in 1 .. at - 1 : ks[j] < k
                /\ at \in 1 .. c => ks[at] >= k
  <2>1. /\ LowerBound(h[n], k) \in 1 .. Len(h[n].keys) + 1
        /\ \A j \in 1 .. LowerBound(h[n], k) - 1 : h[n].keys[j] < k
        /\ LowerBound(h[n], k) \in DOMAIN h[n].keys => h[n].keys[LowerBound(h[n], k)] >= k
    BY <1>4, <1>5, <1>7, LowerBoundIs
  <2>2. DOMAIN h[n].keys = 1 .. c
    BY <1>4, <1>5, <1>6
  <2> QED  BY <1>4, <1>6, <2>1, <2>2
<1>9. Filed(h, lo, hi, n)
  BY PlainLeaf
<1>10. Ascends(ks) /\ \A i \in 1 .. c : lo[n] <= ks[i] /\ ks[i] < hi[n]
  BY <1>4, <1>6, <1>9 DEF Filed
<1>11. ASSUME NEW g, DOMAIN g = DOMAIN h, \A m \in DOMAIN h : m # n => g[m] = h[m],
              IsNode(g[n]), g[n].leaf = TRUE, g[n].next = h[n].next, g[n].parent = h[n].parent,
              g[n].keys # <<>>, Filed(g, lo, hi, n),
              \A a, b : Lists(g[n], a, b) <=> IF a = k THEN b = v ELSE Lists(h[n], a, b)
       PROVE  Plain(g, rt, lv, lo, hi) /\ LeavesFilled(g) /\ PutTo(h, g, k, v)
  <2>1. Plain(g, rt, lv, lo, hi)
    BY <1>11, LeafChanged
  <2>2. LeavesFilled(g)
    <3>1. ASSUME NEW m \in DOMAIN h, m # n, g[m].leaf
          PROVE  g[m].keys \in Seq(Keys) /\ g[m].keys # <<>>
      <4>1. g[m] = h[m] /\ h[m].leaf
        BY <1>11, <3>1
      <4>2. m # rt
        <5> SUFFICES ASSUME m = rt PROVE FALSE
          OBVIOUS
        <5>1. ~h[rt].leaf
          BY <3>1, TreeFilled
        <5> QED  BY <4>1, <5>1
      <4> QED  BY <4>1, <4>2, TreeFilled
    <3> QED  BY <1>11, <3>1 DEF LeavesFilled, IsNode
  <2>3. \A a, b : a # k => (Lists(g[n], a, b) <=> Lists(h[n], a, b))
    BY <1>11
  <2>4. \A b : Lists(g[n], k, b) <=> b = v
    BY <1>11
  <2>5. PutTo(h, g, k, v)
    BY <1>7, <1>11, <2>3, <2>4, LeafEntries DEF PutTo
  <2> QED  BY <2>1, <2>2, <2>5
<1>12. CASE k \in ToSet(ks)
  <2>1. PICK g : g = [h EXCEPT ![n].items[at] = v]
    BY Zenon
  <2>2. InsertInLeaf(h, n, k, v) = [heap |-> g, right |-> Null, promoted |-> 0]
    BY <1>4, <1>8, <1>12, <2>1 DEF InsertInLeaf
  <2>3. PICK ws : ws = [vs EXCEPT ![at] = v] /\ ws \in Seq(Values) /\ Len(ws) = c
    <3>1. vs \in Seq(Values) /\ v \in Values
      BY <1>2, <1>4
    <3>2. Replaced(vs, at, v) \in Seq(Values) /\ Len(Replaced(vs, at, v)) = Len(vs)
      BY <3>1, ReplacedProperties
    <3> QED  BY <1>6, <3>2, Zenon DEF Replaced
  <2>4. /\ DOMAIN g = DOMAIN h /\ \A m \in DOMAIN h : m # n => g[m] = h[m]
        /\ DOMAIN g[n] = Fields /\ g[n].leaf = TRUE /\ g[n].keys = ks /\ g[n].items = ws
        /\ g[n].parent = h[n].parent /\ g[n].next = h[n].next
    <3>1. g = [h EXCEPT ![n] = [h[n] EXCEPT !.items = ws]]
      BY <1>4, <2>1, <2>3
    <3> QED  BY <1>2, <1>4, <3>1 DEF Fields
  <2>5. IsNode(g[n])
    BY <1>2, <1>4, <2>3, <2>4, Zenon DEF IsNode
  <2>6. g[n].keys # <<>>
    BY <1>12, <2>4 DEF ToSet
  <2>7. Filed(g, lo, hi, n)
    BY <1>4, <1>9, <2>4 DEF Filed
  <2>8. at \in 1 .. c /\ ks[at] = k
    <3>1. PICK j \in 1 .. c : ks[j] = k
      BY <1>5, <1>6, <1>12 DEF ToSet
    <3>2. ~(j < at)
      <4> SUFFICES ASSUME j < at PROVE FALSE
        OBVIOUS
      <4>1. j \in 1 .. at - 1
        BY <1>8, <3>1
      <4> QED  BY <1>7, <1>8, <3>1, <4>1
    <3>3. at \in 1 .. c /\ ks[at] >= k /\ ks[at] \in Int
      BY <1>5, <1>6, <1>8, <3>1, <3>2
    <3>4. CASE at = j
      BY <3>1, <3>3, <3>4
    <3>5. CASE at # j
      <4>1. ks[at] < ks[j]
        BY <1>6, <1>10, <3>1, <3>2, <3>3, <3>5 DEF Ascends
      <4> QED  BY <1>7, <3>1, <3>3, <4>1
    <3> QED  BY <3>4, <3>5
  <2>9. /\ \A i \in 1 .. c : i # at => ws[i] = vs[i]
        /\ ws[at] = v /\ \A i \in 1 .. c : ks[i] = k => i = at
    <3>1. \A i \in 1 .. c : ks[i] = k => i = at
      BY <1>5, <1>6, <1>10, <2>8, AscendsOnce
    <3>2. vs \in Seq(Values)
      BY <1>2, <1>4
    <3> QED  BY <1>6, <2>3, <2>8, <3>1, <3>2
  <2>10. ASSUME NEW a, NEW b
         PROVE  Lists(g[n], a, b) <=> IF a = k THEN b = v ELSE Lists(h[n], a, b)
    <3>1. Lists(g[n], a, b) <=> \E i \in 1 .. c : ks[i] = a /\ ws[i] = b
      BY <1>6, <2>4 DEF Lists
    <3>2. Lists(h[n], a, b) <=> \E i \in 1 .. c : ks[i] = a /\ vs[i] = b
      BY <1>4, <1>6 DEF Lists
    <3>3. CASE a = k
      BY <2>8, <2>9, <3>1, <3>3
    <3>4. CASE a # k
      <4>1. \A i \in 1 .. c : ks[i] = a => ws[i] = vs[i]
        BY <2>8, <2>9, <3>4
      <4> QED  BY <3>1, <3>2, <3>4, <4>1
    <3> QED  BY <3>3, <3>4
  <2>11. Plain(g, rt, lv, lo, hi) /\ PutTo(h, g, k, v)
    BY <1>11, <2>4, <2>5, <2>6, <2>7, <2>10
  <2>12. PICK r : r = [heap |-> g, right |-> Null, promoted |-> 0]
    BY Zenon
  <2>13. r.heap = g /\ r.right = Null
    BY <2>12
  <2>14. InOrder(r, rt, n)
    BY <2>11, <2>13 DEF InOrder, Plain, Ordered
  <2> QED  BY <2>2, <2>11, <2>12, <2>13, <2>14
<1>13. CASE k \notin ToSet(ks)
  <2>1. PICK g : g = [h EXCEPT ![n].keys = InsertAt(ks, at, k), ![n].items = InsertAt(vs, at, v)]
    BY Zenon
  <2>2. InsertInLeaf(h, n, k, v) = SplitIfFull(g, n)
    BY <1>4, <1>8, <1>13, <2>1 DEF InsertInLeaf
  <2>3. /\ InsertAt(ks, at, k) \in Seq(Keys) /\ Spliced(ks, InsertAt(ks, at, k), at, k)
        /\ InsertAt(vs, at, v) \in Seq(Values) /\ Spliced(vs, InsertAt(vs, at, v), at, v)
    <3>1. at \in 1 .. Len(ks) + 1 /\ at \in 1 .. Len(vs) + 1 /\ ks \in Seq(Keys) /\ vs \in Seq(Values)
      BY <1>2, <1>4, <1>6, <1>8
    <3> QED  BY <3>1, InsertAtProperties
  <2>4. PICK js, ws : /\ js = InsertAt(ks, at, k) /\ js \in Seq(Keys) /\ Len(js) = c + 1
                      /\ ws = InsertAt(vs, at, v) /\ ws \in Seq(Values) /\ Len(ws) = c + 1
                      /\ Spliced(ks, js, at, k) /\ Spliced(vs, ws, at, v)
    BY <1>6, <2>3 DEF Spliced
  <2>5. /\ DOMAIN g = DOMAIN h /\ \A m \in DOMAIN h : m # n => g[m] = h[m]
        /\ DOMAIN g[n] = Fields /\ g[n].leaf = TRUE /\ g[n].keys = js /\ g[n].items = ws
        /\ g[n].parent = h[n].parent /\ g[n].next = h[n].next
    <3>1. g = [h EXCEPT ![n].keys = js, ![n].items = ws]
      BY <2>1, <2>4
    <3> QED  BY <1>2, <3>1, Zenon DEF Fields
  <2>6. IsNode(g[n])
    BY <2>4, <2>5, Zenon DEF IsNode
  <2>7. js # <<>>
    <3>1. Len(js) # 0 /\ Len(<<>>) = 0
      BY <1>6, <2>4
    <3> QED  BY <3>1
  <2>8. \A j \in 1 .. c : ks[j] # k
    BY <1>5, <1>6, <1>13 DEF ToSet
  <2>9. at \in 1 .. Len(ks) => ks[at] > k
    <3> SUFFICES ASSUME at \in 1 .. Len(ks) PROVE ks[at] > k
      OBVIOUS
    <3>1. ks[at] >= k /\ ks[at] # k /\ ks[at] \in Int
      BY <1>5, <1>6, <1>8, <2>8
    <3> QED  BY <1>7, <3>1
  <2>10. Ascends(js) /\ \A i \in 1 .. c + 1 : js[i] = k \/ \E j \in 1 .. c : js[i] = ks[j]
    <3>1. /\ Ascends(js)
          /\ \A i \in 1 .. Len(js) : js[i] = k \/ \E j \in 1 .. Len(ks) : js[i] = ks[j]
      <4>1. ks \in Seq(Int) /\ Ascends(ks) /\ k \in Int /\ Spliced(ks, js, at, k)
        BY <1>5, <1>7, <1>10, <2>4
      <4>2. Fits(ks, k, at)
        BY <1>8, <2>9 DEF Fits
      <4> QED  BY <4>1, <4>2, SplicedAscends
    <3> QED  BY <1>6, <2>4, <3>1
  <2>11. Filed(g, lo, hi, n)
    <3>1. lo[n] < hi[n]
      BY <1>9 DEF Filed
    <3> QED  BY <1>10, <2>4, <2>5, <2>10, <3>1 DEF Filed
  <2>12. ASSUME NEW a, NEW b
         PROVE  Lists(g[n], a, b) <=> IF a = k THEN b = v ELSE Lists(h[n], a, b)
    <3>1. Lists(g[n], a, b) <=> Listed(js, ws, a, b)
      BY <2>5 DEF Lists, Listed
    <3>2. Lists(h[n], a, b) <=> Listed(ks, vs, a, b)
      BY <1>4 DEF Lists, Listed
    <3>3. Listed(js, ws, a, b) <=> (a = k /\ b = v) \/ Listed(ks, vs, a, b)
      BY <1>6, <2>4, SplicedListed
    <3>4. ~Listed(ks, vs, k, b)
      BY <1>6, <2>8 DEF Listed
    <3> QED  BY <3>1, <3>2, <3>3, <3>4
  <2>13. Plain(g, rt, lv, lo, hi) /\ LeavesFilled(g) /\ PutTo(h, g, k, v)
    BY <1>11, <2>5, <2>6, <2>7, <2>11, <2>12
  <2>14. Counted(g, n) /\ Len(g[n].keys) = c + 1
    BY <2>4, <2>5 DEF Counted
  <2>15. Degree \in Nat
    BY DegreeIs, Zenon
  <2>16. Len(g[n].keys) <= Degree
    BY <1>3, <1>4, <1>6, <2>14, <2>15 DEF Few
  <2>17. PICK s : s = SplitIfFull(g, n)
    OBVIOUS
  <2>18. InOrder(s, rt, n) /\ SameEntries(g, s.heap)
    BY <2>5, <2>13, <2>14, <2>16, <2>17, SplitIfFullInOrder
  <2>19. PutTo(h, s.heap, k, v)
    BY <2>13, <2>18 DEF PutTo, SameEntries
  <2> QED  BY <2>2, <2>17, <2>18, <2>19
<1> QED  BY <1>12, <1>13

\* The same as the parent of x sees it, which does not have q.
Divided(lo, hi, x, q, kids, ks, d, a, b) ==
    /\ lo[kids[1]] = a /\ End(hi, x, q, kids[d + 1]) = b
    /\ \A j \in 1 .. d : End(hi, x, q, kids[j]) = ks[j] /\ lo[kids[j + 1]] = ks[j]

\* The bounds of a list of nodes in which q follows c.
LEMMA LinkedCuts ==
    ASSUME NEW lo, NEW hi, NEW c, NEW q, NEW d \in Nat,
           NEW kids, NEW ks, NEW ls, NEW js, NEW i \in 1 .. d + 1,
           Len(kids) = d + 1, Len(ks) = d,
           Spliced(kids, ls, i + 1, q), Spliced(ks, js, i, hi[c]),
           Differ(kids), kids[i] = c,
           lo[q] = hi[c], NEW a, NEW b, Divided(lo, hi, c, q, kids, ks, d, a, b)
    PROVE  Bounded(lo, hi, ls, js, d + 1, a, b)
<1> USE DEF Divided
<1>1. /\ \A j \in 1 .. i : ls[j] = kids[j]
      /\ ls[i + 1] = q
      /\ \A j \in i + 2 .. d + 2 : ls[j] = kids[j - 1]
  <2>1. (i + 1) - 1 = i /\ (i + 1) + 1 = i + 2 /\ (d + 1) + 1 = d + 2
    OBVIOUS
  <2> QED  BY <2>1 DEF Spliced
<1>2. /\ \A j \in 1 .. i - 1 : js[j] = ks[j]
      /\ js[i] = hi[c]
      /\ \A j \in i + 1 .. d + 1 : js[j] = ks[j - 1]
  BY DEF Spliced
<1>3. \A j \in 1 .. d + 1 : j # i => End(hi, c, q, kids[j]) = hi[kids[j]]
  BY DEF End, Differ
<1>4. End(hi, c, q, kids[i]) = hi[q] /\ kids[i] = c
  BY DEF End
<1>5. lo[ls[1]] = a
  <2>1. 1 \in 1 .. i
    OBVIOUS
  <2> QED  BY <1>1, <2>1
<1>6. hi[ls[d + 2]] = b
  <2>1. CASE i = d + 1
    <3>1. i + 1 = d + 2
      BY <2>1
    <3> QED  BY <1>1, <1>4, <2>1, <3>1
  <2>2. CASE i # d + 1
    <3>1. d + 2 \in i + 2 .. d + 2 /\ (d + 2) - 1 = d + 1 /\ d + 1 \in 1 .. d + 1
      BY <2>2
    <3>2. ls[d + 2] = kids[d + 1]
      BY <1>1, <3>1
    <3> QED  BY <1>3, <2>2, <3>1, <3>2
  <2> QED  BY <2>1, <2>2
<1>7. ASSUME NEW j \in 1 .. d + 1
      PROVE  hi[ls[j]] = js[j]
  <2>1. CASE j < i
    <3>1. j \in 1 .. i /\ j \in 1 .. i - 1 /\ j \in 1 .. d
      BY <2>1
    <3>2. ls[j] = kids[j] /\ js[j] = ks[j]
      BY <1>1, <1>2, <3>1
    <3>3. hi[kids[j]] = ks[j]
      BY <1>3, <2>1, <3>1
    <3> QED  BY <3>2, <3>3
  <2>2. CASE j = i
    <3>1. j \in 1 .. i
      BY <2>2
    <3> QED  BY <1>1, <1>2, <1>4, <2>2, <3>1
  <2>3. CASE j = i + 1
    <3>1. j \in i + 1 .. d + 1 /\ j - 1 = i /\ i \in 1 .. d
      BY <2>3
    <3>2. js[j] = ks[i] /\ hi[q] = ks[i]
      BY <1>2, <1>4, <3>1
    <3> QED  BY <1>1, <2>3, <3>2
  <2>4. CASE j > i + 1
    <3>1. j \in i + 2 .. d + 2 /\ j \in i + 1 .. d + 1 /\ j - 1 \in 1 .. d /\ j - 1 # i
          /\ j - 1 \in 1 .. d + 1
      BY <2>4
    <3>2. ls[j] = kids[j - 1] /\ js[j] = ks[j - 1]
      BY <1>1, <1>2, <3>1
    <3>3. hi[kids[j - 1]] = ks[j - 1]
      BY <1>3, <3>1
    <3> QED  BY <3>2, <3>3
  <2> QED  BY <2>1, <2>2, <2>3, <2>4
<1>8. ASSUME NEW j \in 1 .. d + 1
      PROVE  lo[ls[j + 1]] = js[j]
  <2>1. CASE j < i
    <3>1. j + 1 \in 1 .. i /\ j \in 1 .. i - 1 /\ j \in 1 .. d
      BY <2>1
    <3> QED  BY <1>1, <1>2, <3>1
  <2>2. CASE j = i
    BY <1>1, <1>2, <2>2
  <2>3. CASE j > i
    <3>1. j + 1 \in i + 2 .. d + 2 /\ (j + 1) - 1 = j /\ j \in i + 1 .. d + 1
          /\ j - 1 \in 1 .. d /\ (j - 1) + 1 = j
      BY <2>3
    <3>2. ls[j + 1] = kids[j] /\ js[j] = ks[j - 1]
      BY <1>1, <1>2, <3>1
    <3>3. lo[kids[j]] = ks[j - 1]
      BY <3>1
    <3> QED  BY <3>2, <3>3
  <2> QED  BY <2>1, <2>2, <2>3
<1>9. (d + 1) + 1 = d + 2
  OBVIOUS
<1> QED  BY <1>5, <1>6, <1>7, <1>8, <1>9 DEF Bounded

LEMMA LinkInOrder ==
    ASSUME NEW g, NEW rt, NEW q, NEW lw, NEW lo, NEW hi, NEW c,
           Ordered(g, rt, lw, lo, hi, c, q), q # rt,
           NEW n \in DOMAIN g, ~g[n].leaf, NEW i \in 1 .. Len(g[n].items), g[n].items[i] = c,
           Counted(g, n), hi[c] \in Keys, NEW x, x = LinkIn(g, n, i, hi[c], q)
    PROVE  Plain(x, rt, lw, lo, hi)
<1>1. Typed(g) /\ Forest(g, {rt, q}, lw) /\ Ranged(g, rt, lo, hi, c, q)
  BY DEF Ordered
<1>2. c \in DOMAIN g /\ c \notin {rt, q} /\ lw[c] + 1 = lw[n] /\ c # n /\ g[c].parent = n
  BY <1>1, KidOf
<1>3. lw[q] = lw[c] /\ q \in DOMAIN g /\ rt \in DOMAIN g /\ lo[q] = hi[c]
  <2>1. c # Null
    BY <1>1, <1>2 DEF Typed, Null
  <2> QED  BY <2>1, BoundsOf
<1>4. q # n
  <2>1. lw[q] \in Nat /\ lw[n] \in Nat
    BY <1>1, <1>3 DEF Forest
  <2> QED  BY <1>2, <1>3, <2>1
<1>5. Typed(x) /\ Forest(x, {rt}, lw) /\ Linked(g, x, n, q)
  BY <1>1, <1>2, <1>3, LinkedIn
<1>6. PICK kids, ks : kids = g[n].items /\ ks = g[n].keys
  OBVIOUS
<1>7. kids \in Seq(DOMAIN g) /\ ks \in Seq(Keys) /\ \A j, k \in 1 .. Len(kids) : kids[j] = kids[k] => j = k
  BY <1>1, <1>6, BroodIs DEF Typed, IsNode
<1>8. PICK d \in Nat : d = Len(ks)
  BY <1>7
<1>9. Len(kids) = d + 1 /\ i \in 1 .. d + 1 /\ kids[i] = c
  BY <1>6, <1>8 DEF Counted
<1>10. PICK js, ls : /\ js = InsertAt(ks, i, hi[c]) /\ js \in Seq(Keys) /\ Spliced(ks, js, i, hi[c])
                     /\ ls = InsertAt(kids, i + 1, q) /\ ls \in Seq(DOMAIN g)
                     /\ Spliced(kids, ls, i + 1, q)
  <2>1. i \in 1 .. Len(ks) + 1 /\ i + 1 \in 1 .. Len(kids) + 1
    BY <1>8, <1>9
  <2> QED  BY <1>3, <1>7, <2>1, InsertAtProperties
<1>11. /\ DOMAIN x = DOMAIN g
       /\ \A m \in DOMAIN g : /\ x[m].next = g[m].next /\ x[m].leaf = g[m].leaf
                              /\ m # n => x[m].keys = g[m].keys /\ x[m].items = g[m].items
       /\ x[n].keys = js /\ x[n].items = ls
  <2>1. x = [g EXCEPT ![n].keys = js, ![n].items = ls, ![q].parent = n]
    BY <1>6, <1>10 DEF LinkIn
  <2>2. \A m \in DOMAIN g : DOMAIN g[m] = Fields
    BY <1>1 DEF Typed, IsNode
  <2>3. x[n] = [g[n] EXCEPT !.keys = js, !.items = ls] /\ x[q] = [g[q] EXCEPT !.parent = n]
    BY <1>3, <1>4, <2>1
  <2>4. DOMAIN x = DOMAIN g /\ \A m \in DOMAIN g : m \notin {n, q} => x[m] = g[m]
    BY <2>1
  <2>5. /\ x[n].keys = js /\ x[n].items = ls /\ x[n].next = g[n].next /\ x[n].leaf = g[n].leaf
        /\ x[q].keys = g[q].keys /\ x[q].items = g[q].items /\ x[q].next = g[q].next
        /\ x[q].leaf = g[q].leaf
    BY <1>3, <2>2, <2>3 DEF Fields
  <2> QED  BY <2>4, <2>5
<1>12. End(hi, c, q, rt) = hi[rt]
  BY <1>2 DEF End
<1>13. /\ lo \in [DOMAIN x -> Int] /\ hi \in [DOMAIN x -> Int] /\ rt \in DOMAIN x
       /\ \A m \in DOMAIN x : lo[rt] <= lo[m] /\ hi[m] <= hi[rt]
       /\ \A k \in Keys : lo[rt] <= k /\ k < hi[rt]
  BY <1>1, <1>3, <1>11, <1>12 DEF Ranged, Within
<1>14. ASSUME NEW m \in DOMAIN x, x[m].leaf
       PROVE  Filed(x, lo, hi, m) /\ Chained(x, lo, hi, hi[rt], m)
  <2>1. m \in DOMAIN g /\ g[m].leaf /\ m # n
    BY <1>11, <1>14
  <2>2. Filed(g, lo, hi, m) /\ Chained(g, lo, hi, hi[rt], m)
    BY <1>1, <1>12, <2>1 DEF Ranged
  <2>3. x[m].keys = g[m].keys /\ \A y \in DOMAIN g : x[y].next = g[y].next /\ x[y].leaf = g[y].leaf
    BY <1>11, <2>1
  <2> QED  BY <1>11, <2>1, <2>2, <2>3 DEF Filed, Chained
<1>15. ASSUME NEW m \in DOMAIN x, ~x[m].leaf, m # n
       PROVE  \E e \in Nat : Cuts(x, lo, hi, m, x[m].items, x[m].keys, e)
  <2>1. PICK ns, hs : ns = g[m].items /\ hs = g[m].keys
    OBVIOUS
  <2>2. m \in DOMAIN g /\ ~g[m].leaf /\ x[m].items = ns /\ x[m].keys = hs /\ x[m].next = g[m].next
    BY <1>11, <1>15, <2>1
  <2>3. /\ Len(ns) = Len(hs) + 1 /\ g[m].next = Null
        /\ lo[ns[1]] = lo[m] /\ End(hi, c, q, ns[Len(ns)]) = hi[m]
        /\ \A j \in 1 .. Len(hs) : End(hi, c, q, ns[j]) = hs[j] /\ lo[ns[j + 1]] = hs[j]
    BY <1>1, <2>1, <2>2 DEF Ranged, Parted
  <2>4. hs \in Seq(Keys) /\ ns \in Seq(DOMAIN g)
    BY <1>1, <2>1, <2>2, BroodIs DEF Typed, IsNode
  <2>5. PICK e \in Nat : e = Len(hs) /\ \A j \in 1 .. e : hs[j] \in Int
    BY <2>4, KeysOf
  <2>6. Len(ns) = e + 1
    BY <2>3, <2>5
  <2>7. \A j \in 1 .. e + 1 : ns[j] \in DOMAIN g /\ g[ns[j]].parent = m
    BY <1>1, <2>1, <2>2, <2>6, KidOf
  <2>8. \A j \in 1 .. e + 1 : ns[j] # c
    BY <1>2, <1>15, <2>7
  <2>9. \A j \in 1 .. e + 1 : End(hi, c, q, ns[j]) = hi[ns[j]]
    BY <2>8 DEF End
  <2>10. e + 1 \in 1 .. e + 1 /\ \A j \in 1 .. e : j \in 1 .. e + 1
    OBVIOUS
  <2>11. hi[ns[e + 1]] = hi[m] /\ \A j \in 1 .. e : hi[ns[j]] = hs[j] /\ lo[ns[j + 1]] = hs[j]
    BY <2>3, <2>5, <2>6, <2>9, <2>10
  <2>12. Cuts(x, lo, hi, m, ns, hs, e)
    BY <1>11, <2>2, <2>3, <2>4, <2>5, <2>6, <2>7, <2>11 DEF Cuts, Bounded
  <2> QED  BY <2>2, <2>12
<1>16. \E e \in Nat : Cuts(x, lo, hi, n, x[n].items, x[n].keys, e)
  <2>1. /\ g[n].next = Null
        /\ lo[kids[1]] = lo[n] /\ End(hi, c, q, kids[d + 1]) = hi[n]
        /\ \A j \in 1 .. d : End(hi, c, q, kids[j]) = ks[j] /\ lo[kids[j + 1]] = ks[j]
    BY <1>1, <1>6, <1>8, <1>9 DEF Ranged, Parted
  <2>2. Differ(kids) /\ kids[i] = c
    BY <1>7, <1>9 DEF Differ
  <2>3. /\ lo[ls[1]] = lo[n] /\ hi[ls[d + 2]] = hi[n]
        /\ \A j \in 1 .. d + 1 : hi[ls[j]] = js[j] /\ lo[ls[j + 1]] = js[j]
    <3>1. Divided(lo, hi, c, q, kids, ks, d, lo[n], hi[n])
      BY <2>1 DEF Divided
    <3>2. lo[q] = hi[c] /\ Len(kids) = d + 1 /\ Len(ks) = d /\ i \in 1 .. d + 1
      BY <1>3, <1>8, <1>9
    <3>3. Spliced(kids, ls, i + 1, q) /\ Spliced(ks, js, i, hi[c])
      BY <1>10
    <3>4. Bounded(lo, hi, ls, js, d + 1, lo[n], hi[n])
      BY <2>2, <3>1, <3>2, <3>3, LinkedCuts
    <3>5. (d + 1) + 1 = d + 2
      OBVIOUS
    <3> QED  BY <3>4, <3>5 DEF Bounded
  <2>4. Len(js) = d + 1 /\ Len(ls) = d + 2 /\ (d + 1) + 1 = d + 2 /\ d + 1 \in Nat
    BY <1>8, <1>9, <1>10 DEF Spliced
  <2>5. \A j \in 1 .. d + 1 : js[j] \in Int
    BY <1>10, <2>4, KeysOf
  <2>6. \A j \in 1 .. d + 2 : ls[j] \in DOMAIN g
    BY <1>10, <2>4
  <2>7. x[n].items = ls /\ x[n].keys = js /\ x[n].next = Null
    BY <1>11, <2>1
  <2>8. Cuts(x, lo, hi, n, ls, js, d + 1)
    BY <1>10, <1>11, <2>3, <2>4, <2>5, <2>6, <2>7 DEF Cuts, Bounded
  <2> QED  BY <2>4, <2>7, <2>8
<1>17. Sorted(x, rt, lo, hi)
  BY <1>13, <1>14, <1>15, <1>16, Zenon DEF Sorted
<1> QED  BY <1>5, <1>17, PlainFrom

\* Linking a node changes no entry.
LEMMA LinkInSame ==
    ASSUME NEW g, Typed(g), NEW q \in DOMAIN g, NEW n \in DOMAIN g, ~g[n].leaf, n # q,
           NEW x, Linked(g, x, n, q)
    PROVE  SameEntries(g, x)
<1>1. SameLeaves(g, x)
  BY DEF SameLeaves, Linked
<1> QED  BY <1>1, SameLeavesDo

LEMMA InsertInInternalInOrder ==
    ASSUME degree \in Int, NEW h, NEW rt, NEW lv, Tree(h, rt, lv),
           NEW n \in DOMAIN h, ~h[n].leaf, NEW i \in 1 .. Len(h[n].items), NEW r,
           Grown(h, rt, lv, h[n].items[i], r), InOrder(r, rt, h[n].items[i])
    PROVE  LET s == InsertInInternal(n, i, r)
           IN  InOrder(s, rt, n) /\ SameEntries(r.heap, s.heap)
<1>1. Typed(h) /\ Forest(h, {rt}, lv) /\ Balance(h, rt, {})
  BY DEF Tree
<1>2. PICK c \in DOMAIN h : /\ c = h[n].items[i] /\ c # n /\ c # rt
                            /\ lv[c] \in Nat /\ lv[n] \in Nat /\ lv[c] + 1 = lv[n]
  BY <1>1, KidOf
<1>3. PICK g : g = r.heap
  OBVIOUS
<1>4. /\ Typed(g) /\ LeavesFilled(g) /\ Balance(g, rt, {})
      /\ DOMAIN h \subseteq DOMAIN g
      /\ \A m \in DOMAIN h : lv[m] > lv[c] => g[m] = h[m]
  BY <1>2, <1>3 DEF Grown
<1>5. PICK lw :
        /\ \A m \in DOMAIN h : lw[m] = lv[m]
        /\ r.right = Null => Forest(g, {rt}, lw)
        /\ r.right # Null =>
            /\ Forest(g, {rt, r.right}, lw)
            /\ r.right \in DOMAIN g /\ r.right \notin DOMAIN h
            /\ lw[r.right] = lv[c] /\ r.promoted \in Keys
  BY <1>2, <1>3 DEF Grown
<1>6. g[n] = h[n] /\ n \in DOMAIN g /\ ~g[n].leaf /\ rt \in DOMAIN h
  BY <1>1, <1>2, <1>4 DEF Forest
<1>7. Counted(g, n) /\ Few(g, n) /\ Len(g[n].keys) \in Nat
  <2>1. g[n].keys \in Seq(Keys)
    BY <1>4, <1>6 DEF Typed, IsNode
  <2> QED  BY <1>4, <1>6, <2>1 DEF Balance
<1>8. Degree \in Nat
  BY DegreeIs, Zenon
<1>9. CASE r.right = Null
  <2>1. InsertInInternal(n, i, r) = SplitIfFull(g, n)
    BY <1>3, <1>9 DEF InsertInInternal
  <2>2. PICK lo, hi : Ranged(g, rt, lo, hi, Null, rt)
    BY <1>3, <1>9 DEF InOrder
  <2>3. {rt, rt} = {rt} /\ Twins(g, rt, lw, Null, rt)
    BY DEF Twins
  <2>4. Plain(g, rt, lw, lo, hi)
    BY <1>4, <1>5, <1>9, <2>2, <2>3 DEF Plain, Ordered
  <2>5. Len(g[n].keys) <= Degree
    BY <1>7, <1>8 DEF Few
  <2>6. PICK s : s = SplitIfFull(g, n)
    OBVIOUS
  <2>7. InOrder(s, rt, n) /\ SameEntries(g, s.heap)
    BY <1>4, <1>6, <1>7, <2>4, <2>5, <2>6, SplitIfFullInOrder
  <2> QED  BY <1>3, <2>1, <2>6, <2>7
<1>10. CASE r.right # Null
  <2>1. PICK q, key : q = r.right /\ key = r.promoted
    OBVIOUS
  <2>2. /\ Forest(g, {rt, q}, lw) /\ q \in DOMAIN g /\ q \notin DOMAIN h
        /\ lw[q] = lv[c] /\ key \in Keys
    BY <1>5, <1>10, <2>1
  <2>3. q # rt /\ q # n /\ q # c
    BY <1>2, <1>6, <2>2
  <2>4. lw[q] + 1 = lw[n] /\ lw[c] = lw[q]
    BY <1>2, <1>5, <2>2
  <2>5. PICK x : x = LinkIn(g, n, i, key, q)
    OBVIOUS
  <2>6. InsertInInternal(n, i, r) = SplitIfFull(x, n)
    BY <1>3, <1>10, <2>1, <2>5 DEF InsertInInternal, LinkIn
  <2>7. i \in 1 .. Len(g[n].items) /\ g[n].items[i] = c
    BY <1>2, <1>6
  <2>8. Typed(x) /\ Forest(x, {rt}, lw) /\ Linked(g, x, n, q)
    BY <1>4, <1>6, <1>7, <2>2, <2>3, <2>4, <2>5, <2>7, LinkedIn
  <2>9. PICK lo, hi : Ranged(g, rt, lo, hi, c, q) /\ hi[c] = key
    BY <1>2, <1>3, <1>10, <2>1 DEF InOrder
  <2>10. Twins(g, rt, lw, c, q)
    BY <1>2, <1>4, <2>3, <2>4 DEF Twins
  <2>11. Ordered(g, rt, lw, lo, hi, c, q)
    BY <1>4, <2>2, <2>9, <2>10 DEF Ordered
  <2>12. Plain(x, rt, lw, lo, hi)
    BY <1>6, <1>7, <2>2, <2>3, <2>5, <2>7, <2>9, <2>11, LinkInOrder
  <2>13. DOMAIN x = DOMAIN g /\ \A m \in DOMAIN g : m # n => x[m].leaf = g[m].leaf /\ x[m].keys = g[m].keys
    BY <2>8 DEF Linked
  <2>14. LeavesFilled(x)
    BY <1>4, <1>6, <2>8, <2>13 DEF LeavesFilled, Linked
  <2>15. Len(x[n].keys) <= Degree /\ Counted(x, n)
    BY <1>7, <1>8, <2>8 DEF Few, Linked
  <2>16. PICK s : s = SplitIfFull(x, n)
    OBVIOUS
  <2>17. InOrder(s, rt, n) /\ SameEntries(x, s.heap)
    BY <1>6, <2>12, <2>13, <2>14, <2>15, <2>16, SplitIfFullInOrder
  <2>18. SameEntries(g, x)
    BY <1>4, <1>6, <2>2, <2>3, <2>8, LinkInSame
  <2>19. SameEntries(g, s.heap)
    BY <2>17, <2>18, EntriesThrough
  <2> QED  BY <1>3, <2>6, <2>16, <2>17, <2>19
<1> QED  BY <1>9, <1>10

\* The child on the way to key k has k in its range.
LEMMA KidInRange ==
    ASSUME NEW h, NEW rt, NEW lv, NEW lo, NEW hi, Plain(h, rt, lv, lo, hi),
           NEW k \in Keys, NEW n \in DOMAIN h, ~h[n].leaf, lo[n] <= k, k < hi[n]
    PROVE  LET c == h[n].items[ChildIndex(h[n], k)]
           IN  c \in DOMAIN h /\ lo[c] <= k /\ k < hi[c]
<1>1. PICK i : i = ChildIndex(h[n], k)
  OBVIOUS
<1>2. PICK d \in Nat : Cuts(h, lo, hi, n, h[n].items, h[n].keys, d)
  BY PlainInternal
<1>3. PICK kids, ks : kids = h[n].items /\ ks = h[n].keys
  OBVIOUS
<1>4. /\ Len(ks) = d /\ ks \in Seq(Keys)
      /\ \A j \in 1 .. d : ks[j] \in Int
      /\ \A j \in 1 .. d + 1 : kids[j] \in DOMAIN h
      /\ lo[kids[1]] = lo[n] /\ hi[kids[d + 1]] = hi[n]
      /\ \A j \in 1 .. d : hi[kids[j]] = ks[j] /\ lo[kids[j + 1]] = ks[j]
  BY <1>2, <1>3 DEF Cuts, Bounded
<1>5. k \in Int /\ ks \in Seq(Int)
  BY <1>4, KeysOf
<1>6. /\ i \in 1 .. d + 1 /\ \A j \in 1 .. i - 1 : ks[j] <= k
      /\ i \in 1 .. d => ks[i] > k
  <2>1. /\ i \in 1 .. Len(ks) + 1 /\ \A j \in 1 .. i - 1 : ks[j] <= k
        /\ i \in DOMAIN ks => ks[i] > k
    BY <1>1, <1>3, <1>5, ChildIndexIs
  <2> QED  BY <1>4, <1>5, <2>1
<1>7. lo[kids[i]] <= k
  <2>1. CASE i = 1
    BY <1>4, <2>1
  <2>2. CASE i # 1
    <3>1. PICK j \in 1 .. d : j + 1 = i /\ j \in 1 .. i - 1
      <4>1. i - 1 \in 1 .. d /\ (i - 1) + 1 = i /\ i - 1 \in 1 .. i - 1
        BY <1>6, <2>2
      <4> QED  BY <4>1
    <3> QED  BY <1>4, <1>6, <3>1
  <2> QED  BY <2>1, <2>2
<1>8. k < hi[kids[i]]
  <2>1. CASE i = d + 1
    BY <1>4, <2>1
  <2>2. CASE i # d + 1
    <3>1. i \in 1 .. d
      BY <1>6, <2>2
    <3>2. ks[i] > k /\ hi[kids[i]] = ks[i] /\ ks[i] \in Int
      BY <1>4, <1>6, <3>1
    <3> QED  BY <1>5, <3>2
  <2> QED  BY <2>1, <2>2
<1>9. kids[i] \in DOMAIN h
  BY <1>4, <1>6
<1> QED  BY <1>1, <1>3, <1>7, <1>8, <1>9

\* What a call of Insert for a node leaves of a tree.
PutWell(h, rt, lv, n, r, k, v) ==
    /\ Grown(h, rt, lv, n, r) /\ InOrder(r, rt, n) /\ PutTo(h, r.heap, k, v)

LEMMA InsertInOrder ==
    ASSUME degree \in Int, NEW lv, Tree(heap, root, lv),
           NEW lo, NEW hi, Plain(heap, root, lv, lo, hi),
           NEW k \in Keys, NEW v \in Values
    PROVE  PutWell(heap, root, lv, root, Insert(heap, k, v), k, v)
<1>1. /\ Typed(heap) /\ Forest(heap, {root}, lv) /\ Balance(heap, root, {})
      /\ root \in DOMAIN heap /\ \A n \in DOMAIN heap : Counted(heap, n)
  BY Zenon DEF Tree, Forest, Balance
<1>2. PICK top \in Nat : DOMAIN heap = Under(heap, lv, top)
  <2>1. IsFiniteSet(DOMAIN heap) /\ DOMAIN heap # {}
    BY <1>1 DEF Typed
  <2>2. PICK l \in Nat : \A m \in DOMAIN heap : lv[m] <= l
    BY <1>1, <2>1, LevelsBounded
  <2>3. \A m \in DOMAIN heap : lv[m] < l + 1
    BY <1>1, <2>2 DEF Forest
  <2>4. DOMAIN heap = Under(heap, lv, l + 1)
    BY <2>3 DEF Under
  <2>5. l + 1 \in Nat
    OBVIOUS
  <2> QED  BY <2>4, <2>5
<1>3. PICK f : IsInsert(f, heap, k, v, DOMAIN heap) /\ Insert(heap, k, v) = f[root]
  <2> DEFINE g == CHOOSE f : IsInsert(f, heap, k, v, DOMAIN heap)
  <2>1. IsInsert(g, heap, k, v, DOMAIN heap)
    BY <1>1, <1>2, InsertExists
  <2>2. Insert(heap, k, v) = g[root]
    BY DEF Insert, IsInsert
  <2> HIDE DEF g
  <2> QED  BY <2>1, <2>2
<1>4. \A n \in DOMAIN heap :
        f[n] = LET i == ChildIndex(heap[n], k)
               IN  IF heap[n].leaf THEN InsertInLeaf(heap, n, k, v)
                   ELSE InsertInInternal(n, i, f[heap[n].items[i]])
  <2>1. f = [n \in DOMAIN heap |->
               LET i == ChildIndex(heap[n], k)
               IN  IF heap[n].leaf THEN InsertInLeaf(heap, n, k, v)
                   ELSE InsertInInternal(n, i, f[heap[n].items[i]])]
    BY <1>3 DEF IsInsert
  <2> QED  BY <2>1
<1> DEFINE Bad == {n \in DOMAIN heap : lo[n] <= k /\ k < hi[n]
                                       /\ ~PutWell(heap, root, lv, n, f[n], k, v)}
<1>5. Bad = {}
  <2> SUFFICES ASSUME Bad # {} PROVE FALSE
    OBVIOUS
  <2>1. PICK n \in Bad : \A x \in Bad : lv[n] <= lv[x]
    <3>1. Bad \subseteq DOMAIN heap
      OBVIOUS
    <3> HIDE DEF Bad
    <3> QED  BY <1>1, <3>1, Lowest
  <2>2. n \in DOMAIN heap /\ lo[n] <= k /\ k < hi[n] /\ ~PutWell(heap, root, lv, n, f[n], k, v)
    OBVIOUS
  <2>3. ~heap[n].leaf
    <3> SUFFICES ASSUME heap[n].leaf PROVE FALSE
      OBVIOUS
    <3>1. f[n] = InsertInLeaf(heap, n, k, v)
      BY <1>4, <2>2
    <3>2. PICK r : r = InsertInLeaf(heap, n, k, v)
      OBVIOUS
    <3>3. Grown(heap, root, lv, n, r)
      BY <2>2, <3>2, InsertInLeafGrows
    <3>4. InOrder(r, root, n) /\ PutTo(heap, r.heap, k, v)
      BY <2>2, <3>2, InsertInLeafInOrder
    <3> QED  BY <2>2, <3>1, <3>2, <3>3, <3>4 DEF PutWell
  <2>4. PICK i, c : i = ChildIndex(heap[n], k) /\ c = heap[n].items[i]
    OBVIOUS
  <2>5. /\ i \in 1 .. Len(heap[n].items)
        /\ c \in DOMAIN heap /\ lv[c] + 1 = lv[n] /\ lv[c] \in Nat /\ lv[n] \in Nat
    BY <1>1, <2>2, <2>3, <2>4, KidFor
  <2>6. lo[c] <= k /\ k < hi[c]
    BY <2>2, <2>3, <2>4, KidInRange
  <2>7. PutWell(heap, root, lv, c, f[c], k, v)
    <3>1. ~(lv[n] <= lv[c])
      BY <2>5
    <3>2. c \notin Bad
      <4> HIDE DEF Bad
      <4> QED  BY <2>1, <3>1
    <3> QED  BY <2>5, <2>6, <3>2
  <2>8. f[n] = InsertInInternal(n, i, f[c])
    BY <1>4, <2>2, <2>3, <2>4
  <2>9. PICK r, s : r = f[c] /\ s = InsertInInternal(n, i, r)
    OBVIOUS
  <2>10. Grown(heap, root, lv, c, r) /\ InOrder(r, root, c) /\ PutTo(heap, r.heap, k, v)
    BY <2>7, <2>9 DEF PutWell
  <2>11. Grown(heap, root, lv, n, s)
    BY <2>2, <2>3, <2>4, <2>5, <2>9, <2>10, InsertInInternalGrows
  <2>12. InOrder(s, root, n) /\ SameEntries(r.heap, s.heap)
    BY <2>2, <2>3, <2>4, <2>5, <2>9, <2>10, InsertInInternalInOrder
  <2>13. PutTo(heap, s.heap, k, v)
    BY <2>10, <2>12 DEF PutTo, SameEntries
  <2> QED  BY <2>2, <2>8, <2>9, <2>11, <2>12, <2>13 DEF PutWell
<1>6. lo[root] <= k /\ k < hi[root]
  BY PlainIs
<1>7. PutWell(heap, root, lv, root, f[root], k, v)
  BY <1>1, <1>5, <1>6
<1> QED  BY <1>3, <1>7

LEMMA TopInOrder ==
    ASSUME NEW g, NEW rt, NEW q, NEW lw, NEW lo, NEW hi,
           Ordered(g, rt, lw, lo, hi, rt, q), q # rt, hi[rt] \in Keys,
           NEW top \in Nat \ {0}, top \notin DOMAIN g,
           NEW x, x = TopOn(g, rt, q, top, hi[rt]),
           NEW l, l = [m \in DOMAIN x |-> IF m = top THEN lo[rt] ELSE lo[m]],
           NEW u, u = [m \in DOMAIN x |-> IF m = top THEN hi[q] ELSE hi[m]]
    PROVE  Sorted(x, top, l, u)
<1>1. Typed(g) /\ Forest(g, {rt, q}, lw) /\ Ranged(g, rt, lo, hi, rt, q)
  BY DEF Ordered
<1>2. lw[q] = lw[rt] /\ q \in DOMAIN g /\ rt \in DOMAIN g /\ lo[q] = hi[rt]
  <2>1. rt \in DOMAIN g
    BY <1>1 DEF Forest
  <2>2. rt # Null
    BY <1>1, <2>1 DEF Typed, Null
  <2> QED  BY <2>1, <2>2, BoundsOf
<1>3. Typed(x) /\ Topped(g, x, rt, q, top, hi[rt])
  BY <1>1, <1>2, TopAdded
<1>4. /\ DOMAIN x = DOMAIN g \cup {top}
      /\ \A m \in DOMAIN g : /\ x[m].leaf = g[m].leaf /\ x[m].keys = g[m].keys
                             /\ x[m].items = g[m].items
      /\ x[top].leaf = FALSE /\ x[top].keys = <<hi[rt]>> /\ x[top].items = <<rt, q>>
  BY <1>3 DEF Topped
<1>5. x[top].next = Null /\ \A m \in DOMAIN g : x[m].next = g[m].next
  <2>1. PICK b : b = [g EXCEPT ![rt].parent = top, ![q].parent = top]
    OBVIOUS
  <2>2. \A m \in DOMAIN g : DOMAIN g[m] = Fields
    BY <1>1 DEF Typed, IsNode
  <2>3. DOMAIN b = DOMAIN g /\ \A m \in DOMAIN g : b[m].next = g[m].next
    BY <1>2, <2>1, <2>2 DEF Fields
  <2>4. PICK node : node = [NewNode(FALSE) EXCEPT !.keys = <<hi[rt]>>, !.items = <<rt, q>>]
    OBVIOUS
  <2>5. node.next = Null
    BY <2>4 DEF NewNode
  <2>6. x = [m \in DOMAIN b \cup {top} |-> IF m = top THEN node ELSE b[m]]
    BY <2>1, <2>4 DEF TopOn, Store
  <2> QED  BY <2>3, <2>5, <2>6
<1>6. lo \in [DOMAIN g -> Int] /\ hi \in [DOMAIN g -> Int] /\ End(hi, rt, q, rt) = hi[q]
  BY <1>1 DEF Ranged, Within, End
<1>7. /\ l[top] = lo[rt] /\ u[top] = hi[q]
      /\ \A m \in DOMAIN g : l[m] = lo[m] /\ u[m] = hi[m]
  BY <1>4
<1>8. /\ \A m \in DOMAIN g : lo[rt] <= lo[m] /\ hi[m] <= hi[q]
      /\ \A k \in Keys : lo[rt] <= k /\ k < hi[q]
  BY <1>1, <1>6 DEF Ranged, Within
<1>9. /\ l \in [DOMAIN x -> Int] /\ u \in [DOMAIN x -> Int] /\ top \in DOMAIN x
      /\ \A m \in DOMAIN x : l[top] <= l[m] /\ u[m] <= u[top]
      /\ \A k \in Keys : l[top] <= k /\ k < u[top]
  BY <1>2, <1>4, <1>6, <1>7, <1>8
<1>10. ASSUME NEW m \in DOMAIN x, x[m].leaf
       PROVE  Filed(x, l, u, m) /\ Chained(x, l, u, u[top], m)
  <2>1. m \in DOMAIN g /\ g[m].leaf
    BY <1>4, <1>10
  <2>2. Filed(g, lo, hi, m) /\ Chained(g, lo, hi, hi[q], m)
    BY <1>1, <1>6, <2>1 DEF Ranged
  <2>3. Filed(x, l, u, m)
    BY <1>4, <1>7, <2>1, <2>2 DEF Filed
  <2>4. Chained(x, l, u, u[top], m)
    BY <1>4, <1>5, <1>7, <2>1, <2>2 DEF Chained
  <2> QED  BY <2>3, <2>4
<1>11. ASSUME NEW m \in DOMAIN x, ~x[m].leaf, m # top
       PROVE  \E e \in Nat : Cuts(x, l, u, m, x[m].items, x[m].keys, e)
  <2>1. PICK ns, hs : ns = g[m].items /\ hs = g[m].keys
    OBVIOUS
  <2>2. m \in DOMAIN g /\ ~g[m].leaf /\ x[m].items = ns /\ x[m].keys = hs /\ x[m].next = g[m].next
    BY <1>4, <1>5, <1>11, <2>1
  <2>3. /\ Len(ns) = Len(hs) + 1 /\ g[m].next = Null
        /\ lo[ns[1]] = lo[m] /\ End(hi, rt, q, ns[Len(ns)]) = hi[m]
        /\ \A j \in 1 .. Len(hs) : End(hi, rt, q, ns[j]) = hs[j] /\ lo[ns[j + 1]] = hs[j]
    BY <1>1, <2>1, <2>2 DEF Ranged, Parted
  <2>4. hs \in Seq(Keys) /\ ns \in Seq(DOMAIN g)
    BY <1>1, <2>1, <2>2, BroodIs DEF Typed, IsNode
  <2>5. PICK e \in Nat : e = Len(hs) /\ \A j \in 1 .. e : hs[j] \in Int
    BY <2>4, KeysOf
  <2>6. Len(ns) = e + 1
    BY <2>3, <2>5
  <2>7. \A j \in 1 .. e + 1 : ns[j] \in DOMAIN g /\ ns[j] # rt
    BY <1>1, <2>1, <2>2, <2>6, KidOf
  <2>8. \A j \in 1 .. e + 1 : End(hi, rt, q, ns[j]) = u[ns[j]] /\ l[ns[j]] = lo[ns[j]]
    BY <1>7, <2>7 DEF End
  <2>9. 1 \in 1 .. e + 1 /\ e + 1 \in 1 .. e + 1 /\ \A j \in 1 .. e : j \in 1 .. e + 1 /\ j + 1 \in 1 .. e + 1
    OBVIOUS
  <2>10. /\ l[ns[1]] = l[m] /\ u[ns[e + 1]] = u[m]
         /\ \A j \in 1 .. e : u[ns[j]] = hs[j] /\ l[ns[j + 1]] = hs[j]
    <3>1. l[m] = lo[m] /\ u[m] = hi[m]
      BY <1>7, <2>2
    <3>2. l[ns[1]] = l[m] /\ u[ns[e + 1]] = u[m]
      BY <2>3, <2>6, <2>8, <2>9, <3>1
    <3>3. \A j \in 1 .. e : u[ns[j]] = hs[j]
      BY <2>3, <2>5, <2>8, <2>9
    <3>4. \A j \in 1 .. e : l[ns[j + 1]] = hs[j]
      BY <2>3, <2>5, <2>8, <2>9
    <3> QED  BY <3>2, <3>3, <3>4
  <2>11. ns \in Seq(DOMAIN x) /\ \A j \in 1 .. e + 1 : ns[j] \in DOMAIN x
    BY <1>4, <2>4, <2>7, SeqOfMore
  <2>12. Cuts(x, l, u, m, ns, hs, e)
    BY <2>2, <2>3, <2>4, <2>5, <2>6, <2>10, <2>11 DEF Cuts, Bounded
  <2> QED  BY <2>2, <2>12
<1>12. \E e \in Nat : Cuts(x, l, u, top, x[top].items, x[top].keys, e)
  <2>1. PICK ns, hs : ns = <<rt, q>> /\ hs = <<hi[rt]>>
    OBVIOUS
  <2>2. /\ Len(ns) = 2 /\ Len(hs) = 1 /\ ns[1] = rt /\ ns[2] = q /\ hs[1] = hi[rt]
        /\ hs \in Seq(Keys) /\ ns \in Seq(DOMAIN x)
    BY <1>2, <1>4, <2>1
  <2>3. hi[rt] \in Int
    BY <1>2, <1>6
  <2>4. 1 \in Nat /\ 1 + 1 = 2 /\ 1 .. 1 = {1} /\ 1 .. 2 = {1, 2}
    OBVIOUS
  <2>5. x[top].next = Null /\ x[top].items = ns /\ x[top].keys = hs
    BY <1>4, <1>5, <2>1
  <2>6. /\ l[ns[1]] = l[top] /\ u[ns[2]] = u[top]
        /\ u[ns[1]] = hs[1] /\ l[ns[2]] = hs[1]
    BY <1>2, <1>7, <2>2
  <2>7. rt \in DOMAIN x /\ q \in DOMAIN x
    BY <1>2, <1>4
  <2>8. Cuts(x, l, u, top, ns, hs, 1)
    BY <2>2, <2>3, <2>4, <2>5, <2>6, <2>7 DEF Cuts, Bounded
  <2> QED  BY <2>4, <2>5, <2>8
<1> QED  BY <1>9, <1>10, <1>11, <1>12, Zenon DEF Sorted

\* A tree in which every key is found: the inductive invariant.
Searchable(h, rt) == \E lv, lo, hi : Tree(h, rt, lv) /\ Plain(h, rt, lv, lo, hi)

LEMMA SearchableFrom ==
    ASSUME NEW h, NEW rt, NEW lv, NEW lo, NEW hi, Tree(h, rt, lv), Sorted(h, rt, lo, hi)
    PROVE  Searchable(h, rt)
<1>1. Plain(h, rt, lv, lo, hi)
  BY PlainFrom DEF Tree
<1> QED  BY <1>1 DEF Searchable

LEMMA PutKeepsOrder ==
    ASSUME degree \in Int, Searchable(heap, root), NEW k \in Keys, NEW v \in Values, Put(k, v)
    PROVE  Searchable(heap', root') /\ PutTo(heap, heap', k, v)
<1>1. PICK lv, lo0, hi0 : Tree(heap, root, lv) /\ Plain(heap, root, lv, lo0, hi0)
  BY DEF Searchable
<1>2. PICK r : r = Insert(heap, k, v)
  OBVIOUS
<1>3. PutWell(heap, root, lv, root, r, k, v)
  BY <1>1, <1>2, InsertInOrder
<1>4. Grown(heap, root, lv, root, r) /\ InOrder(r, root, root) /\ PutTo(heap, r.heap, k, v)
  BY <1>3 DEF PutWell
<1>5. PICK lx : Tree(heap', root', lx)
  BY <1>1, PutKeepsTree
<1>6. PICK g, q, key : g = r.heap /\ q = r.right /\ key = r.promoted
  OBVIOUS
<1>7. PICK lw :
        /\ \A m \in DOMAIN heap : lw[m] = lv[m]
        /\ q = Null => Forest(g, {root}, lw)
        /\ q # Null =>
            /\ Forest(g, {root, q}, lw)
            /\ q \in DOMAIN g /\ q \notin DOMAIN heap
            /\ lw[q] = lv[root] /\ key \in Keys
  BY <1>4, <1>6 DEF Grown
<1>8. Typed(g) /\ DOMAIN heap \subseteq DOMAIN g /\ root \in DOMAIN heap
  BY <1>1, <1>4, <1>6 DEF Grown, Tree, Forest
<1>9. CASE q = Null
  <2>1. heap' = g /\ root' = root
    BY <1>2, <1>6, <1>9 DEF Put
  <2>2. PICK lo, hi : Ranged(g, root, lo, hi, Null, root)
    BY <1>4, <1>6, <1>9 DEF InOrder
  <2>3. {root, root} = {root} /\ Twins(g, root, lw, Null, root)
    BY DEF Twins
  <2>4. Plain(g, root, lw, lo, hi)
    BY <1>7, <1>8, <1>9, <2>2, <2>3 DEF Plain, Ordered
  <2>5. Sorted(g, root, lo, hi)
    BY <2>4, PlainSorted
  <2>6. Searchable(g, root)
    BY <1>5, <2>1, <2>5, SearchableFrom
  <2> QED  BY <1>4, <1>6, <2>1, <2>6
<1>10. CASE q # Null
  <2>1. PICK top : top = Fresh(g)
    OBVIOUS
  <2>2. top \in Nat \ {0} /\ top \notin DOMAIN g
    BY <1>8, <2>1, FreshIs DEF Typed
  <2>3. PICK x : x = TopOn(g, root, q, top, key)
    OBVIOUS
  <2>4. heap' = x /\ root' = top
    BY <1>2, <1>6, <1>10, <2>1, <2>3 DEF Put, TopOn
  <2>5. /\ Forest(g, {root, q}, lw) /\ q # root /\ lw[q] = lw[root] /\ key \in Keys
        /\ q \in DOMAIN g /\ root \in DOMAIN g
    BY <1>7, <1>8, <1>10
  <2>6. PICK lo, hi : Ranged(g, root, lo, hi, root, q) /\ hi[root] = key
    BY <1>4, <1>6, <1>10 DEF InOrder
  <2>7. Twins(g, root, lw, root, q)
    BY <2>5 DEF Twins
  <2>8. Ordered(g, root, lw, lo, hi, root, q)
    BY <1>8, <2>5, <2>6, <2>7 DEF Ordered
  <2>9. PICK l, u : /\ l = [m \in DOMAIN x |-> IF m = top THEN lo[root] ELSE lo[m]]
                    /\ u = [m \in DOMAIN x |-> IF m = top THEN hi[q] ELSE hi[m]]
    OBVIOUS
  <2>10. Sorted(x, top, l, u)
    BY <2>2, <2>3, <2>5, <2>6, <2>8, <2>9, TopInOrder
  <2>11. Searchable(x, top)
    BY <1>5, <2>4, <2>10, SearchableFrom
  <2>12. Topped(g, x, root, q, top, key)
    BY <1>8, <2>2, <2>3, <2>5, TopAdded
  <2>13. SameLeaves(g, x)
    BY <2>2, <2>12 DEF Topped, SameLeaves
  <2>14. SameEntries(g, x)
    BY <2>13, SameLeavesDo
  <2>15. PutTo(heap, x, k, v)
    BY <1>4, <1>6, <2>14 DEF PutTo, SameEntries
  <2> QED  BY <2>4, <2>11, <2>15
<1> QED  BY <1>9, <1>10
=============================================================================
