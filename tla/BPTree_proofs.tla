-------------------------- MODULE BPTree_proofs --------------------------
(***************************************************************************)
(* Theorems about the B+ tree of lab2.                                     *)
(***************************************************************************)
EXTENDS BPTree, Collections

USE BPTreeAssumption
-----------------------------------------------------------------------------
(* Searches in a node *)

LEMMA LowerBoundIs ==
    ASSUME NEW node, NEW k \in Int, node.keys \in Seq(Int)
    PROVE  LET i == LowerBound(node, k)
           IN  /\ i \in 1 .. Len(node.keys) + 1
               /\ \A j \in 1 .. i - 1 : node.keys[j] < k
               /\ i \in DOMAIN node.keys => node.keys[i] >= k
<1>1. PICK n \in Nat : n = Len(node.keys) /\ DOMAIN node.keys = 1 .. n
  OBVIOUS
<1> DEFINE T == {i \in 1 .. n : node.keys[i] >= k}
<1>2. PICK q \in 1 .. n + 1 : /\ q \in 1 .. n => q \in T
                              /\ \A r \in 1 .. q - 1 : r \notin T
  <2> HIDE DEF T
  <2>1. 1 \in 1 .. n + 1
    OBVIOUS
  <2> QED  BY <2>1, FirstPlace, Zenon
<1>3. \A j \in 1 .. q - 1 : node.keys[j] < k
  <2> TAKE j \in 1 .. q - 1
  <2>1. j \in 1 .. n /\ j \notin T
    BY <1>2
  <2>2. node.keys[j] \in Int
    BY <1>1, <2>1
  <2> QED  BY <2>1, <2>2
<1>4. q \in 1 .. Len(node.keys) + 1 /\ (q \in DOMAIN node.keys => node.keys[q] >= k)
  BY <1>1, <1>2
<1> QED  BY <1>3, <1>4, Zenon DEF LowerBound

LEMMA ChildIndexIs ==
    ASSUME NEW node, NEW k \in Int, node.keys \in Seq(Int)
    PROVE  LET i == ChildIndex(node, k)
           IN  /\ i \in 1 .. Len(node.keys) + 1
               /\ \A j \in 1 .. i - 1 : node.keys[j] <= k
               /\ i \in DOMAIN node.keys => node.keys[i] > k
<1>1. PICK n \in Nat : n = Len(node.keys) /\ DOMAIN node.keys = 1 .. n
  OBVIOUS
<1> DEFINE T == {i \in 1 .. n : node.keys[i] > k}
<1>2. PICK q \in 1 .. n + 1 : /\ q \in 1 .. n => q \in T
                              /\ \A r \in 1 .. q - 1 : r \notin T
  <2> HIDE DEF T
  <2>1. 1 \in 1 .. n + 1
    OBVIOUS
  <2> QED  BY <2>1, FirstPlace, Zenon
<1>3. \A j \in 1 .. q - 1 : node.keys[j] <= k
  <2> TAKE j \in 1 .. q - 1
  <2>1. j \in 1 .. n /\ j \notin T
    BY <1>2
  <2>2. node.keys[j] \in Int
    BY <1>1, <2>1
  <2> QED  BY <2>1, <2>2
<1>4. q \in 1 .. Len(node.keys) + 1 /\ (q \in DOMAIN node.keys => node.keys[q] > k)
  BY <1>1, <1>2
<1> QED  BY <1>3, <1>4, Zenon DEF ChildIndex

\* An address that is not in use.
LEMMA FreshIs ==
    ASSUME NEW h, IsFiniteSet(DOMAIN h)
    PROVE  Fresh(h) \in Nat \ {0} /\ Fresh(h) \notin DOMAIN h
<1>1. PICK c \in Nat : c = Cardinality(DOMAIN h)
  BY FS_CardinalityType
<1>2. \E n \in 1 .. c + 1 : n \notin DOMAIN h
  <2> SUFFICES ASSUME 1 .. c + 1 \subseteq DOMAIN h PROVE FALSE
    OBVIOUS
  <2>1. Cardinality(1 .. c + 1) <= c
    BY <1>1, FS_Subset
  <2>2. Cardinality(1 .. c + 1) = c + 1
    <3>1. 1 \in Int /\ c + 1 \in Int
      OBVIOUS
    <3>2. Cardinality(1 .. c + 1) = IF 1 > c + 1 THEN 0 ELSE c + 1 - 1 + 1
      BY <3>1, FS_Interval
    <3> QED  BY <3>2
  <2> QED  BY <2>1, <2>2
<1>3. Fresh(h) \in 1 .. c + 1 /\ Fresh(h) \notin DOMAIN h
  BY <1>1, <1>2 DEF Fresh
<1> QED  BY <1>3
-----------------------------------------------------------------------------
(* Recursion.  The functions go from a node to a child, so they are defined *)
(* on the nodes below any level if levels lv fall from a node to its first  *)
(* child, and from a node to every child.                                   *)

IsLeftmost(f, h, S) ==
    f = [m \in S |-> IF h[m].leaf \/ h[m].items = <<>> THEN m ELSE f[h[m].items[1]]]

\* Levels fall along first children, which start where their parents do.
Descends(h, lv, lo) ==
    /\ lv \in [DOMAIN h -> Nat]
    /\ \A m \in DOMAIN h : ~h[m].leaf =>
        /\ h[m].items # <<>>
        /\ h[m].items[1] \in DOMAIN h
        /\ lv[h[m].items[1]] < lv[m]
        /\ lo[h[m].items[1]] = lo[m]

Under(h, lv, l) == {m \in DOMAIN h : lv[m] < l}

LEMMA LeftmostStep ==
    ASSUME NEW h, NEW lv, NEW lo, Descends(h, lv, lo), NEW l \in Nat, NEW f,
           IsLeftmost(f, h, Under(h, lv, l))
    PROVE  \E g : IsLeftmost(g, h, Under(h, lv, l + 1))
<1> DEFINE Body(m, e) == IF h[m].leaf \/ h[m].items = <<>> THEN m ELSE e[h[m].items[1]]
           S == Under(h, lv, l)
           T == Under(h, lv, l + 1)
           g == [m \in T |-> Body(m, f)]
<1>1. f = [m \in S |-> Body(m, f)]
  BY DEF IsLeftmost
<1>2. ASSUME NEW m \in T
      PROVE  Body(m, g) = Body(m, f)
  <2>1. CASE h[m].leaf \/ h[m].items = <<>>
    BY <2>1
  <2>2. CASE ~(h[m].leaf \/ h[m].items = <<>>)
    <3>1. PICK c : c = h[m].items[1]
      OBVIOUS
    <3>2. c \in S /\ c \in T
      <4>1. m \in DOMAIN h /\ lv[m] < l + 1 /\ lv[m] \in Nat
        BY DEF Under, Descends
      <4>2. c \in DOMAIN h /\ lv[c] < lv[m] /\ lv[c] \in Nat
        BY <2>2, <3>1, <4>1 DEF Descends
      <4> QED  BY <4>1, <4>2 DEF Under
    <3>3. f[c] = Body(c, f)
      <4> HIDE DEF Body, S
      <4> QED  BY <1>1, <3>2
    <3>4. g[c] = Body(c, f)
      <4> HIDE DEF Body, T
      <4> QED  BY <3>2
    <3> HIDE DEF g, S, T
    <3> QED  BY <2>2, <3>1, <3>3, <3>4
  <2> QED  BY <2>1, <2>2
<1>3. g = [m \in T |-> Body(m, g)]
  <2> HIDE DEF Body, T
  <2> QED  BY <1>2
<1>4. IsLeftmost(g, h, T)
  <2> HIDE DEF g, T
  <2> QED  BY <1>3 DEF IsLeftmost
<1> QED  BY <1>4

LEMMA LeftmostExists ==
    ASSUME NEW h, NEW lv, NEW lo, Descends(h, lv, lo), NEW l \in Nat
    PROVE  \E f : IsLeftmost(f, h, Under(h, lv, l))
<1> DEFINE Bad == {i \in Nat : ~\E f : IsLeftmost(f, h, Under(h, lv, i))}
<1> SUFFICES ASSUME Bad # {} PROVE FALSE
  OBVIOUS
<1>1. PICK i \in Bad : \A j \in Bad : i <= j
  <2>1. Bad \in SUBSET Nat
    OBVIOUS
  <2> HIDE DEF Bad
  <2> QED  BY <2>1, LessThanIsWellFounded
<1>2. i \in Nat /\ ~\E f : IsLeftmost(f, h, Under(h, lv, i))
  OBVIOUS
<1>3. i # 0
  <2> SUFFICES ASSUME i = 0 PROVE FALSE
    OBVIOUS
  <2>1. Under(h, lv, 0) = {}
    BY DEF Under, Descends
  <2> DEFINE none == [m \in {} |-> 0]
  <2>2. none = [m \in {} |-> IF h[m].leaf \/ h[m].items = <<>> THEN m
                             ELSE none[h[m].items[1]]]
    OBVIOUS
  <2>3. IsLeftmost(none, h, {})
    <3> HIDE DEF none
    <3> QED  BY <2>2 DEF IsLeftmost
  <2> QED  BY <1>2, <2>1, <2>3, Zenon
<1>4. PICK j \in Nat : i = j + 1
  <2>1. i - 1 \in Nat /\ i = (i - 1) + 1
    BY <1>2, <1>3
  <2> QED  BY <2>1
<1>5. j \notin Bad
  BY <1>1, <1>4
<1>6. \E f : IsLeftmost(f, h, Under(h, lv, j))
  BY <1>5
<1> HIDE DEF Bad
<1> QED  BY <1>2, <1>4, <1>6, LeftmostStep

\* The leftmost leaf below a node starts where the node does.
LEMMA LeftmostLeafIs ==
    ASSUME NEW h, NEW lv, NEW lo, Descends(h, lv, lo), NEW top \in Nat,
           \A m \in DOMAIN h : lv[m] < top, NEW n \in DOMAIN h
    PROVE  LET leaf == LeftmostLeaf(h, n)
           IN  leaf \in DOMAIN h /\ h[leaf].leaf /\ lo[leaf] = lo[n]
<1>1. Under(h, lv, top) = DOMAIN h
  BY Zenon DEF Under
<1>2. PICK f : IsLeftmost(f, h, DOMAIN h) /\ LeftmostLeaf(h, n) = f[n]
  <2> DEFINE g == CHOOSE f : IsLeftmost(f, h, DOMAIN h)
  <2>1. IsLeftmost(g, h, DOMAIN h)
    BY <1>1, LeftmostExists
  <2>2. LeftmostLeaf(h, n) = g[n]
    BY DEF LeftmostLeaf, IsLeftmost
  <2> HIDE DEF g
  <2> QED  BY <2>1, <2>2
<1>3. \A m \in DOMAIN h :
        f[m] = IF h[m].leaf \/ h[m].items = <<>> THEN m ELSE f[h[m].items[1]]
  <2>1. f = [m \in DOMAIN h |-> IF h[m].leaf \/ h[m].items = <<>> THEN m
                                ELSE f[h[m].items[1]]]
    BY <1>2 DEF IsLeftmost
  <2> QED  BY <2>1
<1> DEFINE Right(m) == f[m] \in DOMAIN h /\ h[f[m]].leaf /\ lo[f[m]] = lo[m]
           Bad == {m \in DOMAIN h : ~Right(m)}
<1>4. Bad = {}
  <2> SUFFICES ASSUME Bad # {} PROVE FALSE
    OBVIOUS
  <2>1. PICK m \in Bad : \A x \in Bad : lv[m] <= lv[x]
    <3> DEFINE L == {lv[x] : x \in Bad}
    <3>1. L \in SUBSET Nat /\ L # {}
      BY DEF Descends
    <3>2. PICK i \in L : \A j \in L : i <= j
      <4> HIDE DEF L
      <4> QED  BY <3>1, LessThanIsWellFounded
    <3> QED  BY <3>2
  <2>2. m \in DOMAIN h /\ ~Right(m)
    OBVIOUS
  <2>3. ~h[m].leaf
    <3> SUFFICES ASSUME h[m].leaf PROVE FALSE
      OBVIOUS
    <3>1. f[m] = m
      BY <1>3, <2>2
    <3> QED  BY <2>2, <3>1
  <2>4. PICK c \in DOMAIN h : /\ c = h[m].items[1] /\ h[m].items # <<>>
                              /\ lv[c] < lv[m] /\ lo[c] = lo[m]
    BY <2>2, <2>3 DEF Descends
  <2>5. f[m] = f[c]
    BY <1>3, <2>2, <2>3, <2>4
  <2>6. c \notin Bad
    <3>1. lv[c] \in Nat /\ lv[m] \in Nat
      BY <2>2, <2>4 DEF Descends
    <3>2. ~(lv[m] <= lv[c])
      BY <2>4, <3>1
    <3> HIDE DEF Bad
    <3> QED  BY <2>1, <3>2
  <2>7. Right(c)
    BY <2>6
  <2> QED  BY <2>2, <2>4, <2>5, <2>7
<1>5. Right(n)
  BY <1>4
<1> QED  BY <1>2, <1>5
-----------------------------------------------------------------------------
(* Separators *)

LEMMA PickedRest ==
    ASSUME NEW s, NEW n \in Nat \ {0}
    PROVE  Picked(s, 2 .. n) = [j \in 1 .. n - 1 |-> s[j + 1]]
<1>1. Cardinality(2 .. n) = n - 1
  <2>1. 2 \in Int /\ n \in Int
    OBVIOUS
  <2>2. Cardinality(2 .. n) = IF 2 > n THEN 0 ELSE n - 2 + 1
    BY <2>1, FS_Interval
  <2> QED  BY <2>2
<1>2. \A i \in 2 .. n : Cardinality({m \in 2 .. n : m <= i}) = i - 1
  <2> TAKE i \in 2 .. n
  <2>1. {m \in 2 .. n : m <= i} = 2 .. i
    OBVIOUS
  <2>2. 2 \in Int /\ i \in Int
    OBVIOUS
  <2>3. Cardinality(2 .. i) = IF 2 > i THEN 0 ELSE i - 2 + 1
    BY <2>2, FS_Interval
  <2>4. Cardinality(2 .. i) = i - 1
    BY <2>3
  <2> QED  BY <2>1, <2>4, Zenon
<1> DEFINE nth(j) == CHOOSE i \in 2 .. n : Cardinality({m \in 2 .. n : m <= i}) = j
<1>3. ASSUME NEW j \in 1 .. n - 1
      PROVE  nth(j) = j + 1
  <2> DEFINE P(i) == Cardinality({m \in 2 .. n : m <= i}) = j
  <2>1. \A i \in 2 .. n : P(i) <=> i - 1 = j
    BY <1>2
  <2>2. j + 1 \in 2 .. n /\ \A i \in 2 .. n : i - 1 = j <=> i = j + 1
    OBVIOUS
  <2>3. j + 1 \in 2 .. n /\ \A i \in 2 .. n : P(i) <=> i = j + 1
    BY <2>1, <2>2
  <2> HIDE DEF P
  <2>4. (CHOOSE i \in 2 .. n : P(i)) = j + 1
    BY <2>3
  <2> QED  BY <2>4 DEF P
<1>4. Picked(s, 2 .. n) = [j \in 1 .. n - 1 |-> s[nth(j)]]
  BY <1>1 DEF Picked
<1> HIDE DEF nth
<1> QED  BY <1>3, <1>4

\* Leaves that have keys.
LeavesFilled(h) ==
    \A f \in DOMAIN h : h[f].leaf => h[f].keys \in Seq(Keys) /\ h[f].keys # <<>>

\* ks are the first keys of the leaves where the children of node n start, the
\* first child excepted.
Separators(ks, h, lo, n) ==
    LET kids == h[n].items
    IN  /\ ks \in Seq(Keys)
        /\ Len(ks) = Len(kids) - 1
        /\ \A j \in 1 .. Len(kids) - 1 :
            \E f \in DOMAIN h : /\ h[f].leaf /\ lo[f] = lo[kids[j + 1]]
                                /\ h[f].keys # <<>> /\ ks[j] = h[f].keys[1]

LEMMA RefreshIs ==
    ASSUME NEW h, NEW lv, NEW lo, Descends(h, lv, lo), NEW top \in Nat,
           \A m \in DOMAIN h : lv[m] < top, LeavesFilled(h),
           NEW n \in DOMAIN h, ~h[n].leaf,
           h[n].items \in Seq(DOMAIN h), h[n].items # <<>>
    PROVE  \E ks : /\ Separators(ks, h, lo, n)
                   /\ RefreshInternalKeys(h, n) = [h EXCEPT ![n].keys = ks]
<1> DEFINE kids == h[n].items
           least(i) == h[LeftmostLeaf(h, kids[i])].keys
           firsts == [i \in DOMAIN kids |-> least(i)[1]]
           full == {i \in 2 .. Len(kids) : least(i) # <<>>}
           ks == Picked(firsts, full)
<1>1. PICK c \in Nat \ {0} : c = Len(kids) /\ DOMAIN kids = 1 .. c
  OBVIOUS
<1>2. \A i \in 1 .. c : kids[i] \in DOMAIN h
  BY <1>1
<1>3. ASSUME NEW i \in 1 .. c
      PROVE  LET f == LeftmostLeaf(h, kids[i])
             IN  /\ f \in DOMAIN h /\ h[f].leaf /\ lo[f] = lo[kids[i]]
                 /\ h[f].keys \in Seq(Keys) /\ h[f].keys # <<>>
  <2>1. PICK x \in DOMAIN h : x = kids[i]
    BY <1>2
  <2>2. PICK f : f = LeftmostLeaf(h, x)
    OBVIOUS
  <2>3. f \in DOMAIN h /\ h[f].leaf /\ lo[f] = lo[x]
    BY <2>2, LeftmostLeafIs
  <2>4. h[f].keys \in Seq(Keys) /\ h[f].keys # <<>>
    BY <2>3 DEF LeavesFilled
  <2> QED  BY <2>1, <2>2, <2>3, <2>4
<1>4. full = 2 .. c
  <2>1. \A i \in 2 .. c : least(i) # <<>>
    BY <1>3
  <2> HIDE DEF least
  <2> QED  BY <1>1, <2>1
<1>5. RefreshInternalKeys(h, n) = [h EXCEPT ![n].keys = ks]
  BY DEF RefreshInternalKeys
<1>6. ks = [j \in 1 .. c - 1 |-> firsts[j + 1]]
  <2> HIDE DEF firsts, full
  <2> QED  BY <1>4, PickedRest, Zenon
<1>7. \A j \in 1 .. c - 1 : firsts[j + 1] = least(j + 1)[1]
  <2> HIDE DEF least
  <2> QED  BY <1>1
<1>8. \A j \in 1 .. c - 1 : least(j + 1)[1] \in Keys
  <2> TAKE j \in 1 .. c - 1
  <2>1. j + 1 \in 1 .. c
    OBVIOUS
  <2>2. least(j + 1) \in Seq(Keys) /\ least(j + 1) # <<>>
    BY <1>3, <2>1
  <2> HIDE DEF least
  <2> QED  BY <2>2
<1>9. ks \in Seq(Keys) /\ Len(ks) = c - 1 /\ \A j \in 1 .. c - 1 : ks[j] = least(j + 1)[1]
  <2> HIDE DEF ks, firsts, least
  <2>1. \A j \in 1 .. c - 1 : firsts[j + 1] \in Keys
    BY <1>7, <1>8
  <2>2. c - 1 \in Nat
    OBVIOUS
  <2>3. ks \in [1 .. c - 1 -> Keys]
    BY <1>6, <2>1
  <2>4. ks \in Seq(Keys) /\ Len(ks) = c - 1
    BY <2>2, <2>3
  <2> QED  BY <1>6, <1>7, <2>4
<1>10. \A j \in 1 .. c - 1 :
         \E f \in DOMAIN h : /\ h[f].leaf /\ lo[f] = lo[kids[j + 1]]
                             /\ h[f].keys # <<>> /\ ks[j] = h[f].keys[1]
  <2> TAKE j \in 1 .. c - 1
  <2>1. j + 1 \in 1 .. c
    OBVIOUS
  <2>2. ks[j] = least(j + 1)[1]
    <3> HIDE DEF ks, least
    <3> QED  BY <1>9
  <2> QED  BY <1>3, <2>1, <2>2, Zenon
<1>11. Separators(ks, h, lo, n)
  <2> HIDE DEF ks
  <2> QED  BY <1>1, <1>9, <1>10 DEF Separators
<1> QED  BY <1>5, <1>11, Zenon
-----------------------------------------------------------------------------
(***************************************************************************)
(* The shape of the trees in a heap.  Their roots are R: in the middle of  *)
(* a call a node may not have its parent yet, or not any more.  A ghost    *)
(* gives every node its level lv above the leaves.                         *)
(***************************************************************************)

Fields == {"leaf", "keys", "items", "next", "parent"}

IsNode(x) ==
    /\ DOMAIN x = Fields /\ x.leaf \in BOOLEAN /\ x.keys \in Seq(Keys)
    /\ x.leaf => x.items \in Seq(Values)

Typed(h) ==
    /\ IsFiniteSet(DOMAIN h) /\ DOMAIN h \subseteq Nat \ {0}
    /\ \A n \in DOMAIN h : IsNode(h[n])

\* The children of internal node n are different nodes a level below it that
\* know it, and no roots.
Brood(h, R, lv, n) ==
    /\ h[n].items \in Seq(DOMAIN h) /\ h[n].items # <<>>
    /\ \A i \in 1 .. Len(h[n].items) :
        /\ h[n].items[i] \notin R
        /\ h[h[n].items[i]].parent = n
        /\ lv[h[n].items[i]] + 1 = lv[n]
    /\ \A i, j \in 1 .. Len(h[n].items) : h[n].items[i] = h[n].items[j] => i = j

\* Node n is a child of its parent.
Hangs(h, n) ==
    /\ h[n].parent \in DOMAIN h /\ ~h[h[n].parent].leaf
    /\ \E i \in 1 .. Len(h[h[n].parent].items) : h[h[n].parent].items[i] = n

Forest(h, R, lv) ==
    /\ R \subseteq DOMAIN h /\ lv \in [DOMAIN h -> Nat]
    /\ \A n \in DOMAIN h :
        /\ h[n].leaf <=> lv[n] = 0
        /\ ~h[n].leaf => Brood(h, R, lv, n)
        /\ n \notin R => Hangs(h, n)

\* A heap that differs from h in the nodes S: the others are the same nodes with
\* the same children, and those of their children stay which S does not take.
Surgery(h, R, g, Q, S) ==
    /\ DOMAIN h \ S = DOMAIN g \ S
    /\ \A n \in DOMAIN h \ S : /\ g[n].leaf = h[n].leaf
                               /\ ~h[n].leaf => g[n].items = h[n].items
    /\ \A n \in DOMAIN h \ R : h[n].parent \notin S =>
        n \in DOMAIN g /\ n \notin Q /\ g[n].parent = h[n].parent
    /\ \A n \in DOMAIN g \ Q :
        \/ n \in DOMAIN h \ R /\ h[n].parent \notin S
        \/ g[n].parent \in S /\ Hangs(g, n)

LEMMA SurgeryKeepsForest ==
    ASSUME NEW h, NEW R, NEW lv, Forest(h, R, lv), NEW g, NEW Q, NEW S,
           Surgery(h, R, g, Q, S), Q \subseteq DOMAIN g,
           NEW lw \in [DOMAIN g -> Nat],
           \A n \in DOMAIN g : n \in DOMAIN h => lw[n] = lv[n],
           \A n \in DOMAIN g : n \in S =>
              (g[n].leaf <=> lw[n] = 0) /\ (~g[n].leaf => Brood(g, Q, lw, n))
    PROVE  Forest(g, Q, lw)
<1>1. ASSUME NEW n \in DOMAIN g, n \notin S
      PROVE  /\ n \in DOMAIN h /\ g[n].leaf = h[n].leaf /\ lw[n] = lv[n]
             /\ (g[n].leaf <=> lw[n] = 0)
             /\ ~g[n].leaf => g[n].items = h[n].items /\ Brood(h, R, lv, n)
  <2>1. n \in DOMAIN h
    BY <1>1 DEF Surgery
  <2>2. g[n].leaf = h[n].leaf /\ (~h[n].leaf => g[n].items = h[n].items)
    BY <1>1, <2>1 DEF Surgery
  <2> QED  BY <2>1, <2>2 DEF Forest
<1>2. ASSUME NEW n \in DOMAIN g, n \notin S, ~g[n].leaf
      PROVE  Brood(g, Q, lw, n)
  <2>1. n \in DOMAIN h /\ g[n].items = h[n].items /\ Brood(h, R, lv, n) /\ lw[n] = lv[n]
    BY <1>1, <1>2
  <2>2. PICK kids \in Seq(DOMAIN h) : kids = h[n].items /\ kids # <<>>
    BY <2>1 DEF Brood
  <2>3. PICK c \in Nat : c = Len(kids) /\ DOMAIN kids = 1 .. c
    OBVIOUS
  <2>4. ASSUME NEW i \in 1 .. c
        PROVE  /\ kids[i] \in DOMAIN g /\ kids[i] \notin Q /\ g[kids[i]].parent = n
               /\ lw[kids[i]] + 1 = lw[n]
    <3>1. kids[i] \in DOMAIN h /\ kids[i] \notin R /\ h[kids[i]].parent = n
          /\ lv[kids[i]] + 1 = lv[n]
      BY <2>1, <2>2, <2>3 DEF Brood
    <3>2. kids[i] \in DOMAIN g /\ kids[i] \notin Q /\ g[kids[i]].parent = n
      BY <1>2, <3>1 DEF Surgery
    <3> QED  BY <2>1, <3>1, <3>2
  <2>5. kids \in Seq(DOMAIN g)
    BY <2>2, <2>3, <2>4
  <2>6. \A i, j \in 1 .. c : kids[i] = kids[j] => i = j
    BY <2>1, <2>2, <2>3 DEF Brood
  <2> QED  BY <2>1, <2>2, <2>3, <2>4, <2>5, <2>6 DEF Brood
<1>3. ASSUME NEW n \in DOMAIN g, n \notin Q
      PROVE  Hangs(g, n)
  <2>1. CASE g[n].parent \in S /\ Hangs(g, n)
    BY <2>1
  <2>2. CASE n \in DOMAIN h \ R /\ h[n].parent \notin S
    <3>1. PICK p : p = h[n].parent
      OBVIOUS
    <3>2. p \in DOMAIN h /\ ~h[p].leaf /\ \E i \in 1 .. Len(h[p].items) : h[p].items[i] = n
      BY <2>2, <3>1 DEF Forest, Hangs
    <3>3. g[n].parent = p
      BY <2>2, <3>1 DEF Surgery
    <3>4. p \in DOMAIN g /\ g[p].leaf = h[p].leaf /\ g[p].items = h[p].items
      BY <2>2, <3>1, <3>2 DEF Surgery
    <3> QED  BY <3>2, <3>3, <3>4 DEF Hangs
  <2> QED  BY <1>3, <2>1, <2>2 DEF Surgery
<1>4. \A n \in DOMAIN g : (g[n].leaf <=> lw[n] = 0) /\ (~g[n].leaf => Brood(g, Q, lw, n))
  BY <1>1, <1>2
<1> QED  BY <1>3, <1>4 DEF Forest

\* What is known of a child.
LEMMA KidOf ==
    ASSUME NEW h, NEW R, NEW lv, Forest(h, R, lv), NEW n \in DOMAIN h, ~h[n].leaf,
           NEW i \in 1 .. Len(h[n].items)
    PROVE  LET c == h[n].items[i]
           IN  /\ c \in DOMAIN h /\ c \notin R /\ c # n /\ h[c].parent = n
               /\ lv[c] \in Nat /\ lv[n] \in Nat /\ lv[c] + 1 = lv[n]
<1>1. Brood(h, R, lv, n) /\ lv[n] \in Nat
  BY DEF Forest
<1>2. PICK c \in DOMAIN h : c = h[n].items[i]
  BY <1>1 DEF Brood
<1>3. c \notin R /\ h[c].parent = n /\ lv[c] + 1 = lv[n] /\ lv[c] \in Nat
  BY <1>1, <1>2 DEF Brood, Forest
<1>4. c # n
  BY <1>1, <1>3
<1> QED  BY <1>1, <1>2, <1>3, <1>4

LEMMA BroodIs ==
    ASSUME NEW h, NEW R, NEW lv, Forest(h, R, lv), NEW n \in DOMAIN h, ~h[n].leaf
    PROVE  /\ h[n].items \in Seq(DOMAIN h) /\ h[n].items # <<>>
           /\ Len(h[n].items) \in Nat \ {0}
           /\ \A i, j \in 1 .. Len(h[n].items) : h[n].items[i] = h[n].items[j] => i = j
<1>1. Brood(h, R, lv, n)
  BY DEF Forest
<1>2. h[n].items \in Seq(DOMAIN h) /\ h[n].items # <<>>
  BY <1>1 DEF Brood
<1>3. Len(h[n].items) \in Nat \ {0}
  BY <1>2
<1> QED  BY <1>1, <1>2, <1>3 DEF Brood

\* A parent's level is one above.
LEMMA ParentOf ==
    ASSUME NEW h, NEW R, NEW lv, Forest(h, R, lv), NEW n \in DOMAIN h, n \notin R
    PROVE  LET p == h[n].parent
           IN  /\ p \in DOMAIN h /\ ~h[p].leaf /\ p # n /\ lv[n] + 1 = lv[p]
               /\ lv[n] \in Nat /\ lv[p] \in Nat
               /\ \E i \in 1 .. Len(h[p].items) : h[p].items[i] = n
<1>1. PICK p : p = h[n].parent
  OBVIOUS
<1>2. p \in DOMAIN h /\ ~h[p].leaf /\ \E i \in 1 .. Len(h[p].items) : h[p].items[i] = n
  BY <1>1, Zenon DEF Forest, Hangs
<1>3. PICK i \in 1 .. Len(h[p].items) : h[p].items[i] = n
  BY <1>2
<1>4. p # n /\ lv[n] + 1 = lv[p] /\ lv[n] \in Nat /\ lv[p] \in Nat
  BY <1>2, <1>3, KidOf
<1> QED  BY <1>1, <1>2, <1>4

\* Node n keeps its place: all but its keys, the values of a leaf, the next leaf,
\* and the parent of a root.
Keeps(h, g, R, n) ==
    /\ g[n].leaf = h[n].leaf
    /\ n \notin R => g[n].parent = h[n].parent
    /\ ~h[n].leaf => g[n].items = h[n].items

LEMMA ForestKept ==
    ASSUME NEW h, NEW R, NEW lv, Forest(h, R, lv), NEW g, DOMAIN g = DOMAIN h,
           \A n \in DOMAIN h : Keeps(h, g, R, n)
    PROVE  Forest(g, R, lv)
<1>1. Surgery(h, R, g, R, {})
  BY DEF Surgery, Keeps
<1>2. R \subseteq DOMAIN g /\ lv \in [DOMAIN g -> Nat]
  BY DEF Forest
<1> QED  BY <1>1, <1>2, SurgeryKeepsForest

LEMMA LevelsBounded ==
    ASSUME NEW h, NEW R, NEW lv, Forest(h, R, lv), IsFiniteSet(DOMAIN h), DOMAIN h # {}
    PROVE  \E top \in Nat : /\ \A m \in DOMAIN h : lv[m] <= top
                            /\ \E m \in DOMAIN h : lv[m] = top
<1> DEFINE L == {lv[m] : m \in DOMAIN h}
<1>1. lv \in [DOMAIN h -> Nat]
  BY DEF Forest
<1>2. lv \in Surjection(DOMAIN h, L)
  BY <1>1 DEF Surjection
<1>3. IsFiniteSet(L) /\ L \in SUBSET Int /\ L # {}
  <2>1. L \in SUBSET Int /\ L # {}
    BY <1>1
  <2> HIDE DEF L
  <2> QED  BY <1>2, <2>1, FS_Surjection
<1>4. PICK x \in L : \A y \in L : x >= y
  <2> HIDE DEF L
  <2> QED  BY <1>3, UpperBoundExists
<1>5. x \in Nat /\ \A m \in DOMAIN h : lv[m] <= x
  BY <1>1, <1>4
<1>6. \E m \in DOMAIN h : lv[m] = x
  BY <1>4
<1> QED  BY <1>5, <1>6

\* A single root is above all other nodes.
LEMMA RootIsHighest ==
    ASSUME NEW h, NEW rt, NEW lv, Forest(h, {rt}, lv), IsFiniteSet(DOMAIN h)
    PROVE  /\ rt \in DOMAIN h /\ lv[rt] \in Nat
           /\ \A n \in DOMAIN h : n # rt => lv[n] < lv[rt]
<1>1. rt \in DOMAIN h /\ lv \in [DOMAIN h -> Nat]
  BY DEF Forest
<1>2. PICK top \in Nat : /\ \A m \in DOMAIN h : lv[m] <= top
                         /\ \E m \in DOMAIN h : lv[m] = top
  BY <1>1, LevelsBounded
<1>3. \A n \in DOMAIN h : n # rt => lv[n] # top
  <2> SUFFICES ASSUME NEW n \in DOMAIN h, n # rt, lv[n] = top PROVE FALSE
    OBVIOUS
  <2>1. PICK p \in DOMAIN h : lv[n] + 1 = lv[p]
    BY ParentOf
  <2>2. lv[p] <= top
    BY <1>2
  <2> QED  BY <2>1, <2>2
<1>4. lv[rt] = top
  BY <1>2, <1>3
<1>5. \A n \in DOMAIN h : n # rt => lv[n] < top
  BY <1>1, <1>2, <1>3
<1> QED  BY <1>1, <1>4, <1>5

\* Refreshing changes the keys of internal node n at most.
LEMMA Refreshed ==
    ASSUME NEW h, NEW R, NEW lv, Typed(h), Forest(h, R, lv), LeavesFilled(h),
           NEW n \in DOMAIN h, NEW g, g = RefreshInternalKeys(h, n)
    PROVE  /\ Typed(g) /\ Forest(g, R, lv) /\ LeavesFilled(g)
           /\ DOMAIN g = DOMAIN h /\ \A m \in DOMAIN h : m # n => g[m] = h[m]
           /\ g[n].leaf = h[n].leaf /\ g[n].items = h[n].items
           /\ g[n].parent = h[n].parent /\ g[n].next = h[n].next
           /\ h[n].leaf => g = h
           /\ ~h[n].leaf => Len(g[n].keys) = Len(g[n].items) - 1
<1>1. CASE h[n].leaf
  <2>1. g = h
    BY <1>1 DEF RefreshInternalKeys
  <2> QED  BY <1>1, <2>1, Zenon
<1>2. CASE ~h[n].leaf
  <2> DEFINE lo == [m \in DOMAIN h |-> 0]
  <2>1. Descends(h, lv, lo)
    <3>1. ASSUME NEW m \in DOMAIN h, ~h[m].leaf
          PROVE  /\ h[m].items # <<>> /\ h[m].items[1] \in DOMAIN h
                 /\ lv[h[m].items[1]] < lv[m] /\ lo[h[m].items[1]] = lo[m]
      <4>1. h[m].items # <<>> /\ 1 \in 1 .. Len(h[m].items)
        <5>1. Len(h[m].items) \in Nat \ {0} /\ h[m].items # <<>>
          BY <3>1, BroodIs
        <5> QED  BY <5>1
      <4>2. PICK c : c = h[m].items[1]
        OBVIOUS
      <4>3. /\ c \in DOMAIN h /\ lv[c] \in Nat /\ lv[m] \in Nat /\ lv[c] + 1 = lv[m]
        BY <3>1, <4>1, <4>2, KidOf
      <4> QED  BY <4>1, <4>2, <4>3
    <3> HIDE DEF lo
    <3>2. lv \in [DOMAIN h -> Nat]
      BY DEF Forest
    <3> QED  BY <3>1, <3>2 DEF Descends
  <2>2. PICK top \in Nat : \A m \in DOMAIN h : lv[m] < top
    <3>1. PICK x \in Nat : \A m \in DOMAIN h : lv[m] <= x
      BY LevelsBounded DEF Typed
    <3>2. lv \in [DOMAIN h -> Nat]
      BY DEF Forest
    <3>3. x + 1 \in Nat /\ \A m \in DOMAIN h : lv[m] < x + 1
      BY <3>1, <3>2
    <3> QED  BY <3>3
  <2>3. h[n].items \in Seq(DOMAIN h) /\ h[n].items # <<>>
    BY <1>2, BroodIs
  <2>4. PICK ks : Separators(ks, h, lo, n) /\ g = [h EXCEPT ![n].keys = ks]
    <3> HIDE DEF lo
    <3> QED  BY <1>2, <2>1, <2>2, <2>3, RefreshIs
  <2>5. ks \in Seq(Keys) /\ Len(ks) = Len(h[n].items) - 1
    BY <2>4 DEF Separators
  <2>6. DOMAIN g = DOMAIN h /\ \A m \in DOMAIN h : m # n => g[m] = h[m]
    BY <2>4
  <2>7. IsNode(h[n])
    BY DEF Typed
  <2>8. g[n] = [h[n] EXCEPT !.keys = ks]
    BY <2>4
  <2>9. /\ g[n].leaf = h[n].leaf /\ g[n].items = h[n].items
        /\ g[n].parent = h[n].parent /\ g[n].next = h[n].next /\ g[n].keys = ks
        /\ IsNode(g[n])
    BY <2>5, <2>7, <2>8 DEF IsNode, Fields
  <2>10. Typed(g)
    BY <2>6, <2>9 DEF Typed
  <2>11. Forest(g, R, lv)
    <3>1. \A m \in DOMAIN h : Keeps(h, g, R, m)
      BY <2>6, <2>9 DEF Keeps
    <3> QED  BY <2>6, <3>1, ForestKept
  <2>12. LeavesFilled(g)
    BY <1>2, <2>6, <2>9 DEF LeavesFilled
  <2> QED  BY <1>2, <2>5, <2>6, <2>9, <2>10, <2>11, <2>12
<1> QED  BY <1>1, <1>2
-----------------------------------------------------------------------------
(* How full a node may be *)

LEMMA DegreeIs ==
    ASSUME degree \in Int
    PROVE  \E half \in Nat \ {0} :
              /\ Degree \in Nat /\ Degree >= 3
              /\ Degree = 2 * half \/ Degree = 2 * half + 1
              /\ Degree \div 2 = half
              /\ MinKeys(TRUE) = half /\ MinKeys(FALSE) = Degree - half - 1
              /\ Degree - half - 1 >= 1
<1>1. Degree \in Nat /\ Degree >= 3
  BY DEF Degree
<1>2. PICK d \in Nat : d = Degree
  BY <1>1
<1>3. PICK half \in Nat : half = d \div 2 /\ (d = 2 * half \/ d = 2 * half + 1)
  <2>1. d \div 2 \in Nat /\ (d = 2 * (d \div 2) \/ d = 2 * (d \div 2) + 1)
    OBVIOUS
  <2> QED  BY <2>1
<1>4. half >= 1 /\ half \in Nat \ {0} /\ d - half - 1 >= 1
  BY <1>1, <1>2, <1>3
<1>5. (d + 1) \div 2 = d - half
  BY <1>2, <1>3
<1> HIDE DEF Degree
<1>6. MinKeys(TRUE) = half /\ MinKeys(FALSE) = d - half - 1
  BY <1>2, <1>3, <1>5 DEF MinKeys
<1> QED  BY <1>1, <1>2, <1>3, <1>4, <1>6, Zenon

\* A leaf has a value for every key, an internal node a child more than keys.
Counted(h, n) ==
    Len(h[n].items) = IF h[n].leaf THEN Len(h[n].keys) ELSE Len(h[n].keys) + 1

Few(h, n) == Len(h[n].keys) <= Degree - 1

Enough(h, n) == Len(h[n].keys) >= MinKeys(h[n].leaf)

\* The children of s get p as their parent, nothing else changes.
LEMMA AdoptIs ==
    ASSUME NEW h, Typed(h), NEW s, NEW p, NEW g, g = Adopt(h, s, p)
    PROVE  /\ Typed(g) /\ DOMAIN g = DOMAIN h
           /\ \A m \in DOMAIN h :
               /\ g[m].leaf = h[m].leaf /\ g[m].keys = h[m].keys
               /\ g[m].items = h[m].items /\ g[m].next = h[m].next
               /\ m \in ToSet(s) => g[m].parent = p
               /\ m \notin ToSet(s) => g[m] = h[m]
<1>1. g = [m \in DOMAIN h |-> IF m \in ToSet(s) THEN [h[m] EXCEPT !.parent = p] ELSE h[m]]
  BY DEF Adopt
<1>2. ASSUME NEW m \in DOMAIN h
      PROVE  /\ g[m].leaf = h[m].leaf /\ g[m].keys = h[m].keys
             /\ g[m].items = h[m].items /\ g[m].next = h[m].next
             /\ m \in ToSet(s) => g[m].parent = p
             /\ m \notin ToSet(s) => g[m] = h[m]
             /\ IsNode(g[m])
  <2>1. IsNode(h[m])
    BY DEF Typed
  <2>2. CASE m \in ToSet(s)
    <3>1. g[m] = [h[m] EXCEPT !.parent = p]
      BY <1>1, <2>2
    <3> QED  BY <2>1, <2>2, <3>1 DEF IsNode, Fields
  <2>3. CASE m \notin ToSet(s)
    <3>1. g[m] = h[m]
      BY <1>1, <2>3
    <3> QED  BY <2>1, <2>3, <3>1
  <2> QED  BY <2>2, <2>3
<1>3. DOMAIN g = DOMAIN h
  BY <1>1
<1>4. Typed(g)
  BY <1>2, <1>3 DEF Typed
<1> QED  BY <1>2, <1>3, <1>4
-----------------------------------------------------------------------------
(* Splitting a node *)

\* A node r with a level.
LvWith(lv, r, l) == [n \in DOMAIN lv \cup {r} |-> IF n = r THEN l ELSE lv[n]]

\* In g node n has kept the lower part of its keys and items, the upper part is in
\* a new node r, which is a root.  promoted is the key between them.
Halved(h, R, lv, n, g, r, promoted) ==
    /\ Typed(g) /\ LeavesFilled(g)
    /\ r \in Nat \ {0} /\ r \notin DOMAIN h /\ DOMAIN g = DOMAIN h \cup {r}
    /\ Forest(g, R \cup {r}, LvWith(lv, r, lv[n]))
    /\ g[n].leaf = h[n].leaf /\ g[n].parent = h[n].parent /\ g[r].leaf = h[n].leaf
    /\ \A m \in DOMAIN h : m # n =>
        /\ g[m].leaf = h[m].leaf /\ g[m].keys = h[m].keys /\ g[m].items = h[m].items
        /\ lv[m] >= lv[n] => g[m] = h[m]
    /\ \A m \in {n, r} : Counted(g, m) /\ Few(g, m) /\ Enough(g, m)
    /\ promoted \in Keys

\* Of the keys of h[n] the first c are in o[n], the last e in o[r], and u between them.
CutAt(h, n, o, r, promoted, c, e, u) ==
    /\ u = (IF h[n].leaf THEN 0 ELSE 1) /\ Len(h[n].keys) = c + u + e
    /\ Len(o[n].keys) = c /\ \A i \in 1 .. c : o[n].keys[i] = h[n].keys[i]
    /\ Len(o[r].keys) = e /\ \A i \in 1 .. e : o[r].keys[i] = h[n].keys[c + u + i]
    /\ Len(o[n].items) = c + u /\ \A i \in 1 .. c + u : o[n].items[i] = h[n].items[i]
    /\ Len(o[r].items) = e + u
    /\ \A i \in 1 .. e + u : o[r].items[i] = h[n].items[c + u + i]
    /\ promoted = h[n].keys[c + 1]

\* The heap of Split before its separators are refreshed: n has kept the first keys
\* and items of h[n] and r has the last; between those of two internal nodes is the
\* key that is promoted.
Cleft(h, n, o, r, promoted) ==
    /\ DOMAIN o = DOMAIN h \cup {r} /\ r \notin DOMAIN h
    /\ \A m \in DOMAIN h : m # n =>
        /\ o[m].leaf = h[m].leaf /\ o[m].keys = h[m].keys
        /\ o[m].items = h[m].items /\ o[m].next = h[m].next
    /\ o[n].leaf = h[n].leaf /\ o[r].leaf = h[n].leaf
    /\ o[n].next = (IF h[n].leaf THEN r ELSE Null) /\ o[r].next = h[n].next
    /\ \E c, e \in Nat \ {0}, u \in {0, 1} : CutAt(h, n, o, r, promoted, c, e, u)

Opened(h, R, lv, n, s) ==
    \E o : /\ Cleft(h, n, o, s.right, s.promoted)
           /\ Typed(o) /\ LeavesFilled(o)
           /\ Forest(o, R \cup {s.right}, LvWith(lv, s.right, lv[n]))
           /\ s.heap = RefreshInternalKeys(RefreshInternalKeys(o, n), s.right)

LEMMA SplitHalves ==
    ASSUME degree \in Int,
           NEW h, NEW R, NEW lv, Typed(h), Forest(h, R, lv), LeavesFilled(h),
           NEW n \in DOMAIN h, Counted(h, n), Len(h[n].keys) = Degree
    PROVE  LET s == Split(h, n)
           IN  /\ Halved(h, R, lv, n, s.heap, s.right, s.promoted)
               /\ Opened(h, R, lv, n, s)
<1> DEFINE node == h[n]
           mid == Len(node.keys) \div 2
           up == Promoted(node.leaf)
           r == Fresh(h)
           right == [NewNode(node.leaf) EXCEPT
                       !.keys  = SubSeq(node.keys, mid + 1 + up, Len(node.keys)),
                       !.items = SubSeq(node.items, mid + 1 + up, Len(node.items)),
                       !.next  = node.next]
           left == [node EXCEPT !.keys  = SubSeq(@, 1, mid),
                                !.items = SubSeq(@, 1, mid + up),
                                !.next  = IF node.leaf THEN r ELSE Null]
           both == Store([h EXCEPT ![n] = left], r, right)
           owned == IF node.leaf THEN both ELSE Adopt(both, right.items, r)
           once == RefreshInternalKeys(owned, n)
           twice == RefreshInternalKeys(once, r)
<1>1. /\ Split(h, n).heap = twice /\ Split(h, n).right = r
      /\ Split(h, n).promoted = node.keys[mid + 1]
  BY DEF Split
<1>2. PICK half \in Nat \ {0} :
              /\ Degree \in Nat /\ Degree >= 3
              /\ Degree = 2 * half \/ Degree = 2 * half + 1
              /\ Degree \div 2 = half
              /\ MinKeys(TRUE) = half /\ MinKeys(FALSE) = Degree - half - 1
              /\ Degree - half - 1 >= 1
  BY DegreeIs, Zenon
<1>3. PICK d \in Nat : d = Degree
  BY <1>2
<1>4. mid = half /\ Len(node.keys) = d
  BY <1>2, <1>3
<1>5. r \in Nat \ {0} /\ r \notin DOMAIN h
  BY FreshIs DEF Typed
<1>6. IsNode(h[n]) /\ up = (IF h[n].leaf THEN 0 ELSE 1)
  BY DEF Typed, Promoted
<1> HIDE DEF mid, up
<1>7. PICK lk, li, rk, ri :
        /\ lk = SubSeq(node.keys, 1, mid) /\ li = SubSeq(node.items, 1, mid + up)
        /\ rk = SubSeq(node.keys, mid + 1 + up, Len(node.keys))
        /\ ri = SubSeq(node.items, mid + 1 + up, Len(node.items))
  BY Zenon
<1>8. /\ DOMAIN left = Fields /\ left.leaf = h[n].leaf /\ left.keys = lk
      /\ left.items = li /\ left.parent = h[n].parent
      /\ DOMAIN right = Fields /\ right.leaf = h[n].leaf /\ right.keys = rk
      /\ right.items = ri
      /\ left.next = (IF h[n].leaf THEN r ELSE Null) /\ right.next = h[n].next
  <2>1. DOMAIN h[n] = Fields
    BY <1>6 DEF IsNode, Fields
  <2>2. left = [h[n] EXCEPT !.keys = lk, !.items = li, !.next = IF h[n].leaf THEN r ELSE Null]
    BY <1>7
  <2>3. right = [NewNode(h[n].leaf) EXCEPT !.keys = rk, !.items = ri, !.next = h[n].next]
    BY <1>7
  <2> HIDE DEF left, right
  <2> QED  BY <2>1, <2>2, <2>3 DEF Fields, NewNode
<1>9. PICK ks, is : ks = h[n].keys /\ is = h[n].items
  OBVIOUS
<1>10. ks \in Seq(Keys) /\ Len(ks) = d /\ d >= 3 /\ half \in Nat
       /\ (d = 2 * half \/ d = 2 * half + 1) /\ half >= 1
  BY <1>2, <1>3, <1>4, <1>6, <1>9 DEF IsNode, Fields
<1>11. PICK u \in {0, 1} : u = up /\ u = (IF h[n].leaf THEN 0 ELSE 1)
  BY <1>6
<1>12. /\ lk = SubSeq(ks, 1, half) /\ li = SubSeq(is, 1, half + u)
       /\ rk = SubSeq(ks, half + 1 + u, d) /\ ri = SubSeq(is, half + 1 + u, d + u)
       /\ Len(is) = d + u
  <2>1. Len(is) = d + u
    BY <1>4, <1>9, <1>10, <1>11 DEF Counted
  <2> QED  BY <1>4, <1>7, <1>9, <1>11, <2>1
<1>13. /\ lk \in Seq(Keys) /\ Len(lk) = half
       /\ rk \in Seq(Keys) /\ Len(rk) = d - half - u
       /\ \A j \in 1 .. half : lk[j] = ks[j]
       /\ \A j \in 1 .. d - half - u : rk[j] = ks[half + u + j]
  <2>1. 1 \in Nat \ {0} /\ half \in Nat /\ 1 <= half + 1 /\ half <= Len(ks)
    BY <1>10
  <2>2. /\ SubSeq(ks, 1, half) \in Seq(Keys) /\ Len(SubSeq(ks, 1, half)) = half - 1 + 1
        /\ \A j \in 1 .. half - 1 + 1 : SubSeq(ks, 1, half)[j] = ks[1 + j - 1]
    BY <1>10, <2>1, PartOf
  <2>3. PICK a \in Nat \ {0} : a = half + 1 + u
    BY <1>10, <1>11
  <2>4. a <= d + 1 /\ d <= Len(ks)
    BY <1>10, <1>11, <2>3
  <2>5. /\ SubSeq(ks, a, d) \in Seq(Keys) /\ Len(SubSeq(ks, a, d)) = d - a + 1
        /\ \A j \in 1 .. d - a + 1 : SubSeq(ks, a, d)[j] = ks[a + j - 1]
    BY <1>10, <2>4, PartOf
  <2>6. \A j \in 1 .. half : lk[j] = ks[j]
    BY <1>10, <1>12, <2>2
  <2>7. \A j \in 1 .. d - half - u : rk[j] = ks[half + u + j]
    <3> TAKE j \in 1 .. d - half - u
    <3>1. a + j - 1 = half + u + j /\ j \in 1 .. d - a + 1
      BY <1>10, <1>11, <2>3
    <3>2. rk = SubSeq(ks, a, d)
      BY <1>12, <2>3
    <3> QED  BY <2>5, <3>1, <3>2
  <2> QED  BY <1>10, <1>11, <1>12, <2>2, <2>3, <2>5, <2>6, <2>7
<1>14. ASSUME NEW T, is \in Seq(T)
       PROVE  /\ li \in Seq(T) /\ Len(li) = half + u
              /\ \A j \in 1 .. half + u : li[j] = is[j]
              /\ ri \in Seq(T) /\ Len(ri) = d - half
              /\ \A j \in 1 .. d - half : ri[j] = is[half + u + j]
  <2>0. half + 1 + u \in Nat \ {0} /\ half + u \in Nat /\ d + u \in Nat
    BY <1>10, <1>11
  <2>1. PICK a \in Nat \ {0}, b \in Nat, e \in Nat : a = half + 1 + u /\ b = half + u /\ e = d + u
    BY <2>0
  <2>2. 1 \in Nat \ {0} /\ 1 <= b + 1 /\ b <= Len(is) /\ a <= e + 1 /\ e <= Len(is)
    BY <1>10, <1>11, <1>12, <2>1
  <2>3. /\ SubSeq(is, 1, b) \in Seq(T) /\ Len(SubSeq(is, 1, b)) = b - 1 + 1
        /\ \A j \in 1 .. b - 1 + 1 : SubSeq(is, 1, b)[j] = is[1 + j - 1]
    BY <1>14, <2>2, PartOf
  <2>4. /\ SubSeq(is, a, e) \in Seq(T) /\ Len(SubSeq(is, a, e)) = e - a + 1
        /\ \A j \in 1 .. e - a + 1 : SubSeq(is, a, e)[j] = is[a + j - 1]
    BY <1>14, <2>2, PartOf
  <2>5. li = SubSeq(is, 1, b) /\ ri = SubSeq(is, a, e)
    BY <1>12, <2>1
  <2>6. b - 1 + 1 = half + u /\ e - a + 1 = d - half
    BY <1>10, <1>11, <2>1
  <2>7. \A j \in 1 .. half + u : li[j] = is[j]
    BY <2>3, <2>5, <2>6
  <2>8. \A j \in 1 .. d - half : ri[j] = is[half + u + j]
    <3> TAKE j \in 1 .. d - half
    <3>1. a + j - 1 = half + u + j /\ j \in 1 .. e - a + 1
      BY <1>10, <1>11, <2>1
    <3> QED  BY <2>4, <2>5, <3>1
  <2> QED  BY <2>3, <2>4, <2>5, <2>6, <2>7, <2>8, Zenon
<1>15. ri # <<>> /\ lk # <<>> /\ rk # <<>> /\ li # <<>>
  <2>1. Len(lk) # 0 /\ Len(rk) # 0 /\ Len(<<>>) = 0
    BY <1>2, <1>3, <1>10, <1>11, <1>13
  <2>2. is \in Seq(Values) \/ is \in Seq(DOMAIN h)
    <3>1. CASE h[n].leaf
      BY <1>6, <1>9, <3>1 DEF IsNode, Fields
    <3>2. CASE ~h[n].leaf
      BY <1>9, <3>2, BroodIs
    <3> QED  BY <3>1, <3>2
  <2>3. Len(ri) = d - half /\ Len(li) = half + u
    BY <1>14, <2>2
  <2>4. Len(ri) # 0 /\ Len(li) # 0
    BY <1>10, <1>11, <2>3
  <2> QED  BY <2>1, <2>4
<1>16. /\ DOMAIN both = DOMAIN h \cup {r}
       /\ both[n] = left /\ both[r] = right
       /\ \A m \in DOMAIN h : m # n => both[m] = h[m]
  BY <1>5 DEF Store
<1>17. Typed(both)
  <2>1. IsFiniteSet(DOMAIN both) /\ DOMAIN both \subseteq Nat \ {0}
    <3>1. IsFiniteSet(DOMAIN h \cup {r})
      BY FS_AddElement DEF Typed
    <3> QED  BY <1>5, <1>16, <3>1, ZenonT(40) DEF Typed
  <2>2. h[n].leaf => li \in Seq(Values) /\ ri \in Seq(Values)
    BY <1>6, <1>9, <1>14 DEF IsNode, Fields
  <2>3. IsNode(left) /\ IsNode(right)
    <3> HIDE DEF left, right
    <3>1. h[n].leaf \in BOOLEAN
      BY <1>6 DEF IsNode, Fields
    <3>2. IsNode(left)
      BY <1>8, <1>13, <2>2, <3>1 DEF IsNode, Fields
    <3>3. IsNode(right)
      BY <1>8, <1>13, <2>2, <3>1 DEF IsNode, Fields
    <3> QED  BY <3>2, <3>3
  <2>4. \A m \in DOMAIN both : IsNode(both[m])
    <3> HIDE DEF both, left, right
    <3> QED  BY <1>16, <2>3 DEF Typed
  <2> QED  BY <1>16, <2>1, <2>4, Zenon DEF Typed
<1> HIDE DEF both, left, right
<1>18. /\ Typed(owned) /\ DOMAIN owned = DOMAIN h \cup {r}
       /\ owned[n].leaf = h[n].leaf /\ owned[n].keys = lk /\ owned[n].items = li
       /\ owned[r].leaf = h[n].leaf /\ owned[r].keys = rk /\ owned[r].items = ri
       /\ owned[n].next = (IF h[n].leaf THEN r ELSE Null) /\ owned[r].next = h[n].next
       /\ \A m \in DOMAIN h : m # n =>
            /\ owned[m].leaf = h[m].leaf /\ owned[m].keys = h[m].keys
            /\ owned[m].items = h[m].items /\ owned[m].next = h[m].next
       /\ \A m \in DOMAIN h : h[n].leaf \/ m \notin ToSet(ri) =>
            owned[m].parent = h[m].parent /\ (m # n => owned[m] = h[m])
       /\ ~h[n].leaf => \A m \in ToSet(ri) \cap DOMAIN h : owned[m].parent = r
  <2>1. CASE h[n].leaf
    <3>1. owned = both
      BY <2>1
    <3> HIDE DEF owned
    <3>2. owned[n].leaf = h[n].leaf /\ owned[n].keys = lk /\ owned[n].items = li
          /\ owned[n].parent = h[n].parent
          /\ owned[n].next = (IF h[n].leaf THEN r ELSE Null)
      BY <1>8, <1>16, <3>1
    <3>3. owned[r].leaf = h[n].leaf /\ owned[r].keys = rk /\ owned[r].items = ri
          /\ owned[r].next = h[n].next
      BY <1>8, <1>16, <3>1
    <3>4. \A m \in DOMAIN h : m # n => owned[m] = h[m]
      BY <1>16, <3>1
    <3> QED  BY <1>16, <1>17, <2>1, <3>1, <3>2, <3>3, <3>4, Zenon
  <2>2. CASE ~h[n].leaf
    <3>1. owned = Adopt(both, ri, r)
      BY <1>8, <2>2
    <3>2. /\ Typed(owned) /\ DOMAIN owned = DOMAIN both
          /\ \A m \in DOMAIN both :
               /\ owned[m].leaf = both[m].leaf /\ owned[m].keys = both[m].keys
               /\ owned[m].items = both[m].items /\ owned[m].next = both[m].next
               /\ m \in ToSet(ri) => owned[m].parent = r
               /\ m \notin ToSet(ri) => owned[m] = both[m]
      <4> HIDE DEF owned
      <4> QED  BY <1>17, <3>1, AdoptIs
    <3> HIDE DEF owned
    <3> QED  BY <1>8, <1>16, <2>2, <3>2
  <2> QED  BY <2>1, <2>2
<1> HIDE DEF owned
<1>19. PICK lw : lw = LvWith(lv, r, lv[n])
  OBVIOUS
<1>20. /\ lw \in [DOMAIN owned -> Nat] /\ lw[r] = lv[n]
       /\ \A m \in DOMAIN h : lw[m] = lv[m]
  <2>1. lv \in [DOMAIN h -> Nat]
    BY DEF Forest
  <2>2. /\ DOMAIN lw = DOMAIN owned /\ lw[r] = lv[n]
        /\ \A m \in DOMAIN h : lw[m] = lv[m]
        /\ lw = [m \in DOMAIN owned |-> lw[m]]
    BY <1>5, <1>18, <1>19, <2>1 DEF LvWith
  <2>3. \A m \in DOMAIN owned : lw[m] \in Nat
    BY <1>18, <2>1, <2>2
  <2> QED  BY <2>2, <2>3
<1>21. Forest(owned, R \cup {r}, lw)
  <2>1. CASE h[n].leaf
    <3>1. Surgery(h, R, owned, R \cup {r}, {r})
      <4>1. \A m \in DOMAIN h \ R : h[m].parent \in DOMAIN h
        BY ParentOf
      <4>2. DOMAIN h \ {r} = DOMAIN owned \ {r}
        BY <1>5, <1>18
      <4>3. \A m \in DOMAIN h \ {r} : /\ owned[m].leaf = h[m].leaf
                                      /\ ~h[m].leaf => owned[m].items = h[m].items
        BY <1>18, <2>1, Zenon
      <4>4. \A m \in DOMAIN h \ R : /\ m \in DOMAIN owned /\ m \notin R \cup {r}
                                    /\ owned[m].parent = h[m].parent
        BY <1>5, <1>18, <2>1
      <4>5. \A m \in DOMAIN owned \ (R \cup {r}) :
              m \in DOMAIN h \ R /\ h[m].parent \notin {r}
        BY <1>5, <1>18, <4>1
      <4> QED  BY <4>2, <4>3, <4>4, <4>5 DEF Surgery
    <3>2. R \cup {r} \subseteq DOMAIN owned
      BY <1>18 DEF Forest
    <3>3. owned[r].leaf /\ lw[r] = 0
      BY <1>18, <1>20, <2>1 DEF Forest
    <3>4. \A m \in DOMAIN owned : m \in DOMAIN h => lw[m] = lv[m]
      BY <1>20
    <3>5. \A m \in DOMAIN owned : m \in {r} =>
              (owned[m].leaf <=> lw[m] = 0) /\ (~owned[m].leaf => Brood(owned, R \cup {r}, lw, m))
      BY <3>3
    <3>6. PICK Q, S : Q = R \cup {r} /\ S = {r}
      BY Zenon
    <3>7. /\ Surgery(h, R, owned, Q, S) /\ Q \subseteq DOMAIN owned
          /\ \A m \in DOMAIN owned : m \in S =>
              (owned[m].leaf <=> lw[m] = 0) /\ (~owned[m].leaf => Brood(owned, Q, lw, m))
      BY <3>1, <3>2, <3>5, <3>6, Zenon
    <3>8. Forest(owned, Q, lw)
      BY <1>20, <3>4, <3>7, SurgeryKeepsForest
    <3> QED  BY <3>6, <3>8
  <2>2. CASE ~h[n].leaf
    <3>1. /\ is \in Seq(DOMAIN h) /\ Len(is) = d + 1 /\ u = 1
          /\ \A i, j \in 1 .. d + 1 : is[i] = is[j] => i = j
      BY <1>9, <1>11, <1>12, <2>2, BroodIs, Zenon
    <3>2. \A j \in 1 .. d + 1 :
            /\ is[j] \in DOMAIN h /\ is[j] \notin R /\ is[j] # n /\ h[is[j]].parent = n
            /\ lv[is[j]] \in Nat /\ lv[n] \in Nat /\ lv[is[j]] + 1 = lv[n]
      <4> TAKE j \in 1 .. d + 1
      <4>1. j \in 1 .. Len(h[n].items)
        BY <1>9, <3>1
      <4> QED  BY <1>9, <2>2, <4>1, KidOf
    <3>3. /\ li \in Seq(DOMAIN h) /\ Len(li) = half + 1
          /\ \A j \in 1 .. half + 1 : li[j] = is[j]
          /\ ri \in Seq(DOMAIN h) /\ Len(ri) = d - half
          /\ \A j \in 1 .. d - half : ri[j] = is[half + 1 + j]
      BY <1>14, <3>1
    <3>4. \A j \in 1 .. half + 1 : j \in 1 .. d + 1
      BY <1>10
    <3>5. \A j \in 1 .. d - half : half + 1 + j \in 1 .. d + 1 /\ ~(half + 1 + j \in 1 .. half + 1)
      BY <1>10
    <3>6. ToSet(ri) = {ri[j] : j \in 1 .. d - half}
      <4>1. DOMAIN ri = 1 .. d - half
        BY <3>3
      <4> QED  BY <4>1 DEF ToSet
    <3>7. \A j \in 1 .. half + 1 : li[j] \notin ToSet(ri) /\ li[j] \in DOMAIN h
      <4> TAKE j \in 1 .. half + 1
      <4> SUFFICES ASSUME li[j] \in ToSet(ri) PROVE FALSE
        BY <3>3
      <4>1. PICK x \in 1 .. d - half : li[j] = ri[x]
        BY <3>6
      <4>2. is[j] = is[half + 1 + x]
        BY <3>3, <4>1, Zenon
      <4>3. j = half + 1 + x
        BY <3>1, <3>4, <3>5, <4>2
      <4> QED  BY <3>5, <4>3
    <3>8. \A m \in DOMAIN h \ R : h[m].parent # n => m \notin ToSet(ri)
      <4> SUFFICES ASSUME NEW m \in ToSet(ri) PROVE h[m].parent = n
        OBVIOUS
      <4>1. PICK j \in 1 .. d - half : m = ri[j]
        BY <3>6
      <4>2. m = is[half + 1 + j] /\ half + 1 + j \in 1 .. d + 1
        BY <3>3, <3>5, <4>1
      <4> QED  BY <3>2, <4>2
    <3>9. Brood(owned, R \cup {r}, lw, n)
      <4>1. \A i \in 1 .. half + 1 : /\ li[i] \in DOMAIN h /\ li[i] \notin R \cup {r}
                                     /\ owned[li[i]].parent = n /\ lw[li[i]] + 1 = lw[n]
        <5> TAKE i \in 1 .. half + 1
        <5>1. li[i] = is[i] /\ i \in 1 .. d + 1
          BY <3>3, <3>4
        <5>2. owned[li[i]].parent = h[li[i]].parent
          BY <1>18, <3>7
        <5> QED  BY <1>5, <1>20, <3>2, <5>1, <5>2
      <4>2. li \in Seq(DOMAIN owned) /\ li # <<>>
        BY <1>15, <1>18, <3>3
      <4>3. \A i, j \in 1 .. half + 1 : li[i] = li[j] => i = j
        BY <3>1, <3>3, <3>4
      <4> QED  BY <1>18, <3>3, <4>1, <4>2, <4>3 DEF Brood
    <3>10. Brood(owned, R \cup {r}, lw, r)
      <4>1. \A i \in 1 .. d - half : /\ ri[i] \in DOMAIN h /\ ri[i] \notin R \cup {r}
                                     /\ owned[ri[i]].parent = r /\ lw[ri[i]] + 1 = lw[r]
        <5> TAKE i \in 1 .. d - half
        <5>1. ri[i] = is[half + 1 + i] /\ half + 1 + i \in 1 .. d + 1
          BY <3>3, <3>5
        <5>2. ri[i] \in DOMAIN h /\ ri[i] \notin R /\ lv[ri[i]] + 1 = lv[n]
          BY <3>2, <5>1
        <5>3. owned[ri[i]].parent = r
          BY <1>18, <2>2, <3>6, <5>2
        <5> QED  BY <1>5, <1>20, <5>2, <5>3
      <4>2. ri \in Seq(DOMAIN owned) /\ ri # <<>>
        BY <1>15, <1>18, <3>3
      <4>3. \A i, j \in 1 .. d - half : ri[i] = ri[j] => i = j
        <5> TAKE i, j \in 1 .. d - half
        <5> HAVE ri[i] = ri[j]
        <5>1. half + 1 + i = half + 1 + j
          BY <3>1, <3>3, <3>5
        <5> QED  BY <5>1
      <4> QED  BY <1>18, <3>3, <4>1, <4>2, <4>3, Zenon DEF Brood
    <3>11. Surgery(h, R, owned, R \cup {r}, {n, r})
      <4>1. \A m \in DOMAIN h \ R : h[m].parent \in DOMAIN h
        BY ParentOf
      <4>2. DOMAIN h \ {n, r} = DOMAIN owned \ {n, r}
        BY <1>5, <1>18
      <4>3. \A m \in DOMAIN h \ {n, r} : /\ owned[m].leaf = h[m].leaf
                                         /\ ~h[m].leaf => owned[m].items = h[m].items
        BY <1>18
      <4>4. \A m \in DOMAIN h \ R : h[m].parent \notin {n, r} =>
               m \in DOMAIN owned /\ m \notin R \cup {r} /\ owned[m].parent = h[m].parent
        BY <1>5, <1>18, <3>8
      <4>5. ASSUME NEW m \in DOMAIN owned \ (R \cup {r}), h[m].parent \in {n, r}
            PROVE  owned[m].parent \in {n, r} /\ Hangs(owned, m)
        <5>1. m \in DOMAIN h \ R /\ h[m].parent = n
          BY <1>5, <1>18, <4>1, <4>5
        <5>2. PICK i \in 1 .. d + 1 : is[i] = m
          BY <1>9, <3>1, <5>1, ParentOf
        <5>3. CASE i \in 1 .. half + 1
          <6>1. li[i] = m /\ owned[m].parent = n
            <7>1. li[i] = m /\ m \notin ToSet(ri)
              BY <3>3, <3>7, <5>2, <5>3, Zenon
            <7> QED  BY <1>18, <5>1, <7>1
          <6> QED  BY <1>18, <2>2, <3>3, <5>3, <6>1, Zenon DEF Hangs
        <5>4. CASE ~(i \in 1 .. half + 1)
          <6>1. PICK x \in 1 .. d - half : i = half + 1 + x
            <7>1. i - half - 1 \in 1 .. d - half /\ i = half + 1 + (i - half - 1)
              BY <1>10, <5>4
            <7> QED  BY <7>1
          <6>2. ri[x] = m
            BY <3>3, <5>2, <6>1, Zenon
          <6>3. owned[m].parent = r
            BY <1>18, <2>2, <3>6, <5>1, <6>2
          <6> QED  BY <1>18, <2>2, <3>3, <6>2, <6>3 DEF Hangs
        <5> QED  BY <5>3, <5>4
      <4>6. ASSUME NEW m \in DOMAIN owned \ (R \cup {r}), h[m].parent \notin {n, r}
            PROVE  m \in DOMAIN h \ R
        BY <1>18, <4>6
      <4> QED  BY <4>2, <4>3, <4>4, <4>5, <4>6 DEF Surgery
    <3>12. R \cup {r} \subseteq DOMAIN owned
      BY <1>18 DEF Forest
    <3>13. ~owned[n].leaf /\ ~owned[r].leaf /\ lw[r] # 0 /\ lw[n] # 0
      BY <1>18, <1>20, <2>2 DEF Forest
    <3>14. \A m \in DOMAIN owned : m \in {n, r} =>
              (owned[m].leaf <=> lw[m] = 0) /\ (~owned[m].leaf => Brood(owned, R \cup {r}, lw, m))
      BY <3>9, <3>10, <3>13
    <3>15. \A m \in DOMAIN owned : m \in DOMAIN h => lw[m] = lv[m]
      BY <1>20
    <3>16. PICK Q, S : Q = R \cup {r} /\ S = {n, r}
      BY Zenon
    <3>17. /\ Surgery(h, R, owned, Q, S) /\ Q \subseteq DOMAIN owned
           /\ \A m \in DOMAIN owned : m \in S =>
               (owned[m].leaf <=> lw[m] = 0) /\ (~owned[m].leaf => Brood(owned, Q, lw, m))
      BY <3>11, <3>12, <3>14, <3>16, Zenon
    <3>18. Forest(owned, Q, lw)
      BY <1>20, <3>15, <3>17, SurgeryKeepsForest
    <3> QED  BY <3>16, <3>18
  <2> QED  BY <2>1, <2>2
<1>22. LeavesFilled(owned)
  BY <1>13, <1>15, <1>18 DEF LeavesFilled
<1>23. n \in DOMAIN owned /\ r \in DOMAIN owned
  BY <1>18
<1>24. /\ Typed(once) /\ Forest(once, R \cup {r}, lw) /\ LeavesFilled(once)
       /\ DOMAIN once = DOMAIN owned /\ \A m \in DOMAIN owned : m # n => once[m] = owned[m]
       /\ once[n].leaf = owned[n].leaf /\ once[n].items = owned[n].items
       /\ once[n].parent = owned[n].parent
       /\ owned[n].leaf => once = owned
       /\ ~owned[n].leaf => Len(once[n].keys) = Len(once[n].items) - 1
  BY <1>18, <1>21, <1>22, <1>23, Refreshed
<1> HIDE DEF once
<1>25. r \in DOMAIN once
  BY <1>23, <1>24
<1>26. /\ Typed(twice) /\ Forest(twice, R \cup {r}, lw) /\ LeavesFilled(twice)
       /\ DOMAIN twice = DOMAIN once /\ \A m \in DOMAIN once : m # r => twice[m] = once[m]
       /\ twice[r].leaf = once[r].leaf /\ twice[r].items = once[r].items
       /\ twice[r].parent = once[r].parent
       /\ once[r].leaf => twice = once
       /\ ~once[r].leaf => Len(twice[r].keys) = Len(twice[r].items) - 1
  BY <1>24, <1>25, Refreshed
<1> HIDE DEF twice
<1>27. n # r
  BY <1>5
<1>28. /\ twice[n].leaf = h[n].leaf /\ twice[n].parent = h[n].parent /\ twice[r].leaf = h[n].leaf
       /\ twice[n].items = li /\ twice[r].items = ri
  <2>1. owned[n].parent = h[n].parent
    <3>1. CASE h[n].leaf
      BY <1>18, <3>1
    <3>2. CASE ~h[n].leaf
      <4>1. n \notin ToSet(ri)
        <5>1. is \in Seq(DOMAIN h) /\ Len(is) = d + 1 /\ u = 1
          BY <1>9, <1>11, <1>12, <3>2, BroodIs
        <5>2. \A j \in 1 .. d + 1 : is[j] # n
          <6> TAKE j \in 1 .. d + 1
          <6>1. j \in 1 .. Len(h[n].items)
            BY <1>9, <5>1
          <6> QED  BY <1>9, <3>2, <6>1, KidOf
        <5>3. ri \in Seq(DOMAIN h) /\ Len(ri) = d - half
              /\ \A j \in 1 .. d - half : ri[j] = is[half + 1 + j]
          BY <1>14, <5>1
        <5>4. \A j \in 1 .. d - half : half + 1 + j \in 1 .. d + 1
          BY <1>10
        <5> QED  BY <5>2, <5>3, <5>4 DEF ToSet
      <4> QED  BY <1>18, <4>1
    <3> QED  BY <3>1, <3>2
  <2> QED  BY <1>18, <1>23, <1>24, <1>26, <1>27, <2>1
<1>29. ASSUME NEW m \in DOMAIN h, m # n
       PROVE  /\ twice[m].leaf = h[m].leaf /\ twice[m].keys = h[m].keys
              /\ twice[m].items = h[m].items
              /\ lv[m] >= lv[n] => twice[m] = h[m]
  <2>1. m # r /\ twice[m] = owned[m]
    BY <1>5, <1>18, <1>24, <1>26, <1>29
  <2>2. ASSUME lv[m] >= lv[n], ~h[n].leaf
        PROVE  m \notin ToSet(ri)
    <3>1. is \in Seq(DOMAIN h) /\ Len(is) = d + 1 /\ u = 1
      BY <1>9, <1>11, <1>12, <2>2, BroodIs
    <3>2. \A j \in 1 .. d + 1 : is[j] # m
      <4> TAKE j \in 1 .. d + 1
      <4>1. j \in 1 .. Len(h[n].items)
        BY <1>9, <3>1
      <4>2. lv[is[j]] \in Nat /\ lv[n] \in Nat /\ lv[is[j]] + 1 = lv[n]
        BY <1>9, <2>2, <4>1, KidOf
      <4> QED  BY <2>2, <4>2
    <3>3. ri \in Seq(DOMAIN h) /\ Len(ri) = d - half
          /\ \A j \in 1 .. d - half : ri[j] = is[half + 1 + j]
      BY <1>14, <3>1, Zenon
    <3>4. \A j \in 1 .. d - half : half + 1 + j \in 1 .. d + 1
      BY <1>10
    <3> QED  BY <3>2, <3>3, <3>4 DEF ToSet
  <2> QED  BY <1>18, <1>29, <2>1, <2>2
<1>30. /\ Len(li) = half + u /\ Len(ri) = d - half
       /\ (IF h[n].leaf THEN u = 0 ELSE u = 1)
  <2>1. is \in Seq(Values) \/ is \in Seq(DOMAIN h)
    <3>1. CASE h[n].leaf
      BY <1>6, <1>9, <3>1 DEF IsNode, Fields
    <3>2. CASE ~h[n].leaf
      BY <1>9, <3>2, BroodIs
    <3> QED  BY <3>1, <3>2
  <2> QED  BY <1>11, <1>14, <2>1
<1>31. Len(twice[n].keys) = half /\ Len(twice[r].keys) = d - half - u
  <2>1. CASE h[n].leaf
    <3>1. twice = owned
      BY <1>18, <1>24, <1>26, <2>1, Zenon
    <3> QED  BY <1>13, <1>18, <2>1, <3>1, Zenon
  <2>2. CASE ~h[n].leaf
    <3>1. Len(once[n].keys) = Len(li) - 1 /\ twice[n] = once[n]
      BY <1>18, <1>23, <1>24, <1>26, <1>27, <2>2
    <3>2. Len(twice[r].keys) = Len(ri) - 1
      BY <1>18, <1>23, <1>24, <1>26, <1>27, <2>2
    <3> QED  BY <1>10, <1>30, <2>2, <3>1, <3>2
  <2> QED  BY <2>1, <2>2
<1>32. /\ Counted(twice, n) /\ Counted(twice, r) /\ Few(twice, n) /\ Few(twice, r)
       /\ Enough(twice, n) /\ Enough(twice, r)
  <2>1. h[n].leaf \in BOOLEAN
    BY <1>6 DEF IsNode, Fields
  <2>2. CASE h[n].leaf
    <3>1. h[n].leaf = TRUE
      BY <2>1, <2>2
    <3>2. twice[n].leaf = TRUE /\ twice[r].leaf = TRUE
      BY <1>28, <3>1
    <3>3. /\ Len(twice[n].items) = half /\ Len(twice[n].keys) = half
          /\ Len(twice[r].items) = d - half /\ Len(twice[r].keys) = d - half
      BY <1>10, <1>28, <1>30, <1>31, <3>1
    <3>4. half <= d - 1 /\ d - half <= d - 1 /\ half >= half /\ d - half >= half
      BY <1>10
    <3> QED  BY <1>2, <1>3, <3>2, <3>3, <3>4, Zenon DEF Counted, Few, Enough
  <2>3. CASE ~h[n].leaf
    <3>1. h[n].leaf = FALSE
      BY <2>1, <2>3
    <3>2. twice[n].leaf = FALSE /\ twice[r].leaf = FALSE
      BY <1>28, <3>1
    <3>3. /\ Len(twice[n].items) = half + 1 /\ Len(twice[n].keys) = half
          /\ Len(twice[r].items) = d - half - 1 + 1 /\ Len(twice[r].keys) = d - half - 1
      BY <1>10, <1>28, <1>30, <1>31, <3>1
    <3>4. half <= d - 1 /\ d - half - 1 <= d - 1 /\ half >= d - half - 1
      BY <1>10
    <3>5. d - half - 1 >= d - half - 1
      BY <1>10
    <3>6. MinKeys(FALSE) = d - half - 1 /\ Degree = d
      <4>1. MinKeys(FALSE) = Degree - half - 1
        BY <1>2, Zenon
      <4> QED  BY <1>3, <4>1, Zenon
    <3> QED  BY <3>2, <3>3, <3>4, <3>5, <3>6, Zenon DEF Counted, Few, Enough
  <2> QED  BY <2>2, <2>3
<1>33. node.keys[mid + 1] \in Keys
  <2>1. half + 1 \in 1 .. d
    BY <1>10
  <2>2. ks[half + 1] \in Keys
    BY <1>10, <2>1
  <2>3. ks = node.keys /\ mid = half
    BY <1>4, <1>9
  <2> HIDE DEF node
  <2> QED  BY <2>2, <2>3
<1> HIDE DEF r
<1>34. Halved(h, R, lv, n, twice, r, node.keys[mid + 1])
  BY <1>5, <1>18, <1>19, <1>24, <1>26, <1>28, <1>29, <1>32, <1>33 DEF Halved
<1>35. Cleft(h, n, owned, r, node.keys[mid + 1])
  <2>1. PICK e \in Nat \ {0} : e = d - half - u
    <3>1. d - half - u \in Nat \ {0}
      BY <1>2, <1>3, <1>10, <1>11
    <3> QED  BY <3>1
  <2>2. d = half + u + e /\ d - half = e + u /\ d - half - u = e
    BY <1>10, <1>11, <2>1
  <2>3. is \in Seq(Values) \/ is \in Seq(DOMAIN h)
    <3>1. CASE h[n].leaf
      BY <1>6, <1>9, <3>1 DEF IsNode, Fields
    <3>2. CASE ~h[n].leaf
      BY <1>9, <3>2, BroodIs
    <3> QED  BY <3>1, <3>2
  <2>4. /\ Len(li) = half + u /\ \A j \in 1 .. half + u : li[j] = is[j]
        /\ Len(ri) = e + u /\ \A j \in 1 .. e + u : ri[j] = is[half + u + j]
    BY <1>14, <2>2, <2>3
  <2>5. /\ Len(lk) = half /\ \A j \in 1 .. half : lk[j] = ks[j]
        /\ Len(rk) = e /\ \A j \in 1 .. e : rk[j] = ks[half + u + j]
    BY <1>13, <2>2
  <2>6. node.keys[mid + 1] = ks[half + 1]
    BY <1>4, <1>9
  <2> HIDE DEF node
  <2>7. /\ u = (IF h[n].leaf THEN 0 ELSE 1) /\ Len(h[n].keys) = half + u + e
        /\ Len(owned[n].keys) = half /\ \A i \in 1 .. half : owned[n].keys[i] = h[n].keys[i]
        /\ Len(owned[r].keys) = e
        /\ \A i \in 1 .. e : owned[r].keys[i] = h[n].keys[half + u + i]
        /\ Len(owned[n].items) = half + u
        /\ \A i \in 1 .. half + u : owned[n].items[i] = h[n].items[i]
        /\ Len(owned[r].items) = e + u
        /\ \A i \in 1 .. e + u : owned[r].items[i] = h[n].items[half + u + i]
        /\ node.keys[mid + 1] = h[n].keys[half + 1]
    BY <1>9, <1>10, <1>11, <1>18, <2>2, <2>4, <2>5, <2>6, Zenon
  <2>8. half \in Nat \ {0}
    OBVIOUS
  <2>9. PICK promoted : promoted = node.keys[mid + 1]
    OBVIOUS
  <2>10. \E c, a \in Nat \ {0}, w \in {0, 1} : CutAt(h, n, owned, r, promoted, c, a, w)
    <3>1. CutAt(h, n, owned, r, promoted, half, e, u)
      BY <2>7, <2>9, Zenon DEF CutAt
    <3> QED  BY <2>8, <3>1
  <2>11. Cleft(h, n, owned, r, promoted)
    BY <1>5, <1>18, <2>10 DEF Cleft
  <2> QED  BY <2>9, <2>11
<1>36. PICK s : s = Split(h, n)
  OBVIOUS
<1>37. s.right = r /\ s.promoted = node.keys[mid + 1] /\ s.heap = twice
  BY <1>1, <1>36
<1>38. Opened(h, R, lv, n, s)
  <2>1. s.heap = RefreshInternalKeys(RefreshInternalKeys(owned, n), r)
    BY <1>37 DEF twice, once
  <2> HIDE DEF node
  <2> QED  BY <1>18, <1>19, <1>21, <1>22, <1>35, <1>37, <2>1 DEF Opened
<1> QED  BY <1>1, <1>34, <1>36, <1>38
-----------------------------------------------------------------------------
(* Put *)

\* All nodes but those of X are as full as they must be.
Balance(h, rt, X) ==
    \A m \in DOMAIN h \ X : Counted(h, m) /\ Few(h, m) /\ (m # rt => Enough(h, m))

\* What a call of Insert for node n makes of the heap h: the nodes above n are as
\* they were, and so is the place of n; a new right sibling has no parent yet.
Grown(h, rt, lv, n, r) ==
    /\ Typed(r.heap) /\ LeavesFilled(r.heap) /\ Balance(r.heap, rt, {})
    /\ DOMAIN h \subseteq DOMAIN r.heap
    /\ \A m \in DOMAIN h : lv[m] > lv[n] => r.heap[m] = h[m]
    /\ r.heap[n].leaf = h[n].leaf /\ r.heap[n].parent = h[n].parent
    /\ n = rt /\ ~h[n].leaf => Len(r.heap[n].keys) >= 1
    /\ \E lw :
        /\ \A m \in DOMAIN h : lw[m] = lv[m]
        /\ r.right = Null => Forest(r.heap, {rt}, lw)
        /\ r.right # Null =>
            /\ Forest(r.heap, {rt, r.right}, lw)
            /\ r.right \in DOMAIN r.heap /\ r.right \notin DOMAIN h
            /\ lw[r.right] = lv[n]
            /\ Enough(r.heap, n) /\ Enough(r.heap, r.right) /\ r.promoted \in Keys

LEMMA SplitIfFullGrows ==
    ASSUME degree \in Int,
           NEW h, NEW rt, NEW lv, Typed(h), Forest(h, {rt}, lv), LeavesFilled(h),
           NEW n \in DOMAIN h, Balance(h, rt, {n}),
           Counted(h, n), Len(h[n].keys) <= Degree, n # rt => Enough(h, n),
           n = rt /\ ~h[n].leaf => Len(h[n].keys) >= 1
    PROVE  Grown(h, rt, lv, n, SplitIfFull(h, n))
<1>1. PICK half \in Nat \ {0} :
              /\ Degree \in Nat /\ Degree >= 3
              /\ Degree = 2 * half \/ Degree = 2 * half + 1
              /\ Degree \div 2 = half
              /\ MinKeys(TRUE) = half /\ MinKeys(FALSE) = Degree - half - 1
              /\ Degree - half - 1 >= 1
  BY DegreeIs, Zenon
<1>2. PICK d \in Nat : d = Degree /\ d >= 3
  BY <1>1
<1>3. IsNode(h[n]) /\ h[n].keys \in Seq(Keys)
  BY DEF Typed, IsNode
<1>4. PICK c \in Nat : c = Len(h[n].keys)
  BY <1>3
<1>5. PICK b \in Nat : b = MinKeys(FALSE) /\ b >= 1
  <2>1. d - half - 1 \in Nat /\ d - half - 1 >= 1
    BY <1>1, <1>2
  <2>2. MinKeys(FALSE) = d - half - 1
    BY <1>1, <1>2, Zenon
  <2> QED  BY <2>1, <2>2, Zenon
<1>6. CASE c > d - 1
  <2>1. c = d
    BY <1>2, <1>4, <1>6
  <2>2. PICK s : s = Split(h, n)
    OBVIOUS
  <2>3. Halved(h, {rt}, lv, n, s.heap, s.right, s.promoted)
    BY <1>2, <1>4, <2>1, <2>2, SplitHalves, Zenon
  <2>4. SplitIfFull(h, n) = s
    BY <1>2, <1>4, <1>6, <2>2 DEF SplitIfFull
  <2>5. PICK g, r : g = s.heap /\ r = s.right
    OBVIOUS
  <2>6. /\ Typed(g) /\ LeavesFilled(g)
        /\ r \in Nat \ {0} /\ r \notin DOMAIN h /\ DOMAIN g = DOMAIN h \cup {r}
        /\ Forest(g, {rt} \cup {r}, LvWith(lv, r, lv[n]))
        /\ g[n].leaf = h[n].leaf /\ g[n].parent = h[n].parent /\ g[r].leaf = h[n].leaf
        /\ s.promoted \in Keys
    BY <2>3, <2>5 DEF Halved
  <2>7. \A m \in DOMAIN h : m # n =>
          /\ g[m].leaf = h[m].leaf /\ g[m].keys = h[m].keys /\ g[m].items = h[m].items
          /\ lv[m] >= lv[n] => g[m] = h[m]
    BY <2>3, <2>5 DEF Halved
  <2>8. /\ Counted(g, n) /\ Few(g, n) /\ Enough(g, n)
        /\ Counted(g, r) /\ Few(g, r) /\ Enough(g, r)
    BY <2>3, <2>5 DEF Halved
  <2>9. Balance(g, rt, {})
    <3>1. ASSUME NEW m \in DOMAIN h, m # n
          PROVE  Counted(g, m) /\ Few(g, m) /\ (m # rt => Enough(g, m))
      <4>1. Counted(h, m) /\ Few(h, m) /\ (m # rt => Enough(h, m))
        BY <3>1 DEF Balance
      <4> QED  BY <2>7, <3>1, <4>1, Zenon DEF Counted, Few, Enough
    <3> QED  BY <2>6, <2>8, <3>1 DEF Balance
  <2>10. \A m \in DOMAIN h : lv[m] > lv[n] => g[m] = h[m]
    <3> TAKE m \in DOMAIN h
    <3> HAVE lv[m] > lv[n]
    <3>1. lv[m] \in Nat /\ lv[n] \in Nat
      BY DEF Forest
    <3>2. m # n /\ lv[m] >= lv[n]
      BY <3>1
    <3> QED  BY <2>7, <3>2
  <2>11. ~h[n].leaf => Len(g[n].keys) >= 1
    <3> SUFFICES ASSUME ~h[n].leaf PROVE Len(g[n].keys) >= 1
      OBVIOUS
    <3>1. g[n].leaf = FALSE
      BY <1>3, <2>6 DEF IsNode
    <3>2. Len(g[n].keys) >= b
      BY <1>5, <2>8, <3>1, Zenon DEF Enough
    <3>3. g[n].keys \in Seq(Keys)
      BY <2>6 DEF Typed, IsNode
    <3>4. Len(g[n].keys) \in Nat
      BY <3>3
    <3>5. b >= 1
      BY <1>5, Zenon
    <3> QED  BY <3>2, <3>4, <3>5
  <2>12. PICK lw : lw = LvWith(lv, r, lv[n])
    OBVIOUS
  <2>13. lw[r] = lv[n] /\ \A m \in DOMAIN h : lw[m] = lv[m]
    <3>1. DOMAIN lv = DOMAIN h
      BY DEF Forest
    <3> QED  BY <2>6, <2>12, <3>1 DEF LvWith
  <2>14. {rt} \cup {r} = {rt, r}
    OBVIOUS
  <2>15. Forest(g, {rt, r}, lw)
    BY <2>6, <2>12, <2>14
  <2>16. r # Null
    BY <2>6 DEF Null
  <2> QED  BY <2>4, <2>5, <2>6, <2>8, <2>9, <2>10, <2>11, <2>13, <2>15, <2>16 DEF Grown
<1>7. CASE ~(c > d - 1)
  <2>1. PICK g : g = RefreshInternalKeys(h, n)
    OBVIOUS
  <2>2. SplitIfFull(h, n) = [heap |-> g, right |-> Null, promoted |-> 0]
    BY <1>2, <1>4, <1>7, <2>1 DEF SplitIfFull
  <2>3. /\ Typed(g) /\ Forest(g, {rt}, lv) /\ LeavesFilled(g)
        /\ DOMAIN g = DOMAIN h /\ \A m \in DOMAIN h : m # n => g[m] = h[m]
        /\ g[n].leaf = h[n].leaf /\ g[n].items = h[n].items
        /\ g[n].parent = h[n].parent /\ g[n].next = h[n].next
        /\ h[n].leaf => g = h
        /\ ~h[n].leaf => Len(g[n].keys) = Len(g[n].items) - 1
    BY <2>1, Refreshed
  <2>4. Len(g[n].keys) = c
    <3>1. CASE h[n].leaf
      BY <1>4, <2>3, <3>1
    <3>2. CASE ~h[n].leaf
      <4>1. Len(h[n].items) = c + 1
        BY <1>4, <3>2 DEF Counted
      <4> QED  BY <2>3, <3>2, <4>1
    <3> QED  BY <3>1, <3>2
  <2>5. Counted(g, n) /\ Few(g, n) /\ (n # rt => Enough(g, n))
    <3>1. Counted(g, n)
      BY <1>4, <2>3, <2>4 DEF Counted
    <3>2. Few(g, n)
      BY <1>2, <1>7, <2>4 DEF Few
    <3>3. n # rt => Enough(g, n)
      BY <1>4, <2>3, <2>4 DEF Enough
    <3> QED  BY <3>1, <3>2, <3>3
  <2>6. Balance(g, rt, {})
    <3>1. ASSUME NEW m \in DOMAIN h, m # n
          PROVE  Counted(g, m) /\ Few(g, m) /\ (m # rt => Enough(g, m))
      <4>1. Counted(h, m) /\ Few(h, m) /\ (m # rt => Enough(h, m))
        BY <3>1 DEF Balance
      <4> QED  BY <2>3, <3>1, <4>1 DEF Counted, Few, Enough
    <3> QED  BY <2>3, <2>5, <3>1 DEF Balance
  <2>7. \A m \in DOMAIN h : lv[m] > lv[n] => g[m] = h[m]
    <3> TAKE m \in DOMAIN h
    <3> HAVE lv[m] > lv[n]
    <3>1. lv[m] \in Nat /\ lv[n] \in Nat
      BY DEF Forest
    <3>2. m # n
      BY <3>1
    <3> QED  BY <2>3, <3>2
  <2>8. n = rt /\ ~h[n].leaf => Len(g[n].keys) >= 1
    BY <1>4, <2>4
  <2> QED  BY <2>2, <2>3, <2>6, <2>7, <2>8 DEF Grown
<1> QED  BY <1>2, <1>4, <1>6, <1>7

\* The tree between two calls.
Tree(h, rt, lv) ==
    /\ Typed(h) /\ Forest(h, {rt}, lv) /\ Balance(h, rt, {})
    /\ h[rt].parent = Null
    /\ ~h[rt].leaf => Len(h[rt].keys) >= 1

\* Where a node grows does not matter to what has been done above it.
LEMMA GrownOn ==
    ASSUME NEW h, NEW g, NEW rt, NEW lv, NEW lw, NEW n \in DOMAIN h, NEW r,
           Grown(g, rt, lw, n, r), DOMAIN h \subseteq DOMAIN g,
           \A m \in DOMAIN h : lw[m] = lv[m],
           \A m \in DOMAIN h : lv[m] > lv[n] => g[m] = h[m],
           g[n].leaf = h[n].leaf, g[n].parent = h[n].parent
    PROVE  Grown(h, rt, lv, n, r)
<1>1. /\ Typed(r.heap) /\ LeavesFilled(r.heap) /\ Balance(r.heap, rt, {})
      /\ DOMAIN g \subseteq DOMAIN r.heap
      /\ \A m \in DOMAIN g : lw[m] > lw[n] => r.heap[m] = g[m]
      /\ r.heap[n].leaf = g[n].leaf /\ r.heap[n].parent = g[n].parent
      /\ n = rt /\ ~g[n].leaf => Len(r.heap[n].keys) >= 1
  BY DEF Grown
<1>2. PICK lx :
        /\ \A m \in DOMAIN g : lx[m] = lw[m]
        /\ r.right = Null => Forest(r.heap, {rt}, lx)
        /\ r.right # Null =>
            /\ Forest(r.heap, {rt, r.right}, lx)
            /\ r.right \in DOMAIN r.heap /\ r.right \notin DOMAIN g
            /\ lx[r.right] = lw[n]
            /\ Enough(r.heap, n) /\ Enough(r.heap, r.right) /\ r.promoted \in Keys
  BY DEF Grown
<1>3. \A m \in DOMAIN h : lv[m] > lv[n] => r.heap[m] = h[m]
  BY <1>1
<1>4. /\ \A m \in DOMAIN h : lx[m] = lv[m]
      /\ r.right # Null => r.right \notin DOMAIN h /\ lx[r.right] = lv[n]
  BY <1>2
<1> QED  BY <1>1, <1>2, <1>3, <1>4 DEF Grown

\* Leaves have keys, an empty tree excepted.
LEMMA TreeFilled ==
    ASSUME degree \in Int, NEW h, NEW rt, NEW lv, Tree(h, rt, lv),
           NEW n \in DOMAIN h, h[n].leaf
    PROVE  /\ h[n].keys \in Seq(Keys)
           /\ n # rt => h[n].keys # <<>> /\ ~h[rt].leaf
<1>1. h[n].keys \in Seq(Keys) /\ h[n].leaf = TRUE
  BY DEF Tree, Typed, IsNode
<1> SUFFICES ASSUME n # rt PROVE h[n].keys # <<>> /\ ~h[rt].leaf
  BY <1>1
<1>2. Enough(h, n)
  BY DEF Tree, Balance
<1>3. PICK half \in Nat \ {0} : MinKeys(TRUE) = half
  BY DegreeIs, Zenon
<1>4. Len(h[n].keys) >= half
  BY <1>1, <1>2, <1>3, Zenon DEF Enough
<1>5. h[n].keys # <<>>
  <2>1. Len(<<>>) = 0
    OBVIOUS
  <2>2. half >= 1
    OBVIOUS
  <2> QED  BY <1>4, <2>1, <2>2
<1>6. ~h[rt].leaf
  <2>1. lv[rt] \in Nat /\ rt \in DOMAIN h /\ lv[n] < lv[rt] /\ lv[n] \in Nat
    BY RootIsHighest, Zenon DEF Tree, Typed, Forest
  <2>2. lv[rt] # 0
    BY <2>1
  <2> QED  BY <2>1, <2>2 DEF Tree, Forest
<1> QED  BY <1>5, <1>6

LEMMA InsertInLeafGrows ==
    ASSUME degree \in Int, NEW h, NEW rt, NEW lv, Tree(h, rt, lv),
           NEW n \in DOMAIN h, h[n].leaf, NEW k \in Keys, NEW v \in Values
    PROVE  Grown(h, rt, lv, n, InsertInLeaf(h, n, k, v))
<1>1. Typed(h) /\ Forest(h, {rt}, lv) /\ Balance(h, rt, {})
  BY DEF Tree
<1>2. /\ IsNode(h[n]) /\ DOMAIN h[n] = Fields /\ h[n].leaf = TRUE
      /\ h[n].keys \in Seq(Keys) /\ h[n].items \in Seq(Values)
  BY <1>1 DEF Typed, IsNode
<1>3. Counted(h, n) /\ Few(h, n) /\ (n # rt => Enough(h, n))
  BY <1>1 DEF Balance
<1>4. PICK ks, vs : ks = h[n].keys /\ vs = h[n].items
  OBVIOUS
<1>5. PICK c \in Nat : c = Len(ks) /\ Len(vs) = c
  BY <1>2, <1>3, <1>4 DEF Counted
<1>6. Keys \subseteq Int /\ k \in Int
  OBVIOUS
<1>7. PICK at : at = LowerBound(h[n], k) /\ at \in 1 .. c + 1
  <2>1. h[n].keys \in Seq(Int)
    BY <1>2, <1>6, SeqOfMore, Zenon
  <2>2. LowerBound(h[n], k) \in 1 .. Len(h[n].keys) + 1
    BY <1>6, <2>1, LowerBoundIs
  <2> QED  BY <1>4, <1>5, <2>2
<1>8. ASSUME NEW g, DOMAIN g = DOMAIN h, \A m \in DOMAIN h : m # n => g[m] = h[m],
             IsNode(g[n]), g[n].leaf = TRUE, g[n].parent = h[n].parent, g[n].keys # <<>>
      PROVE  /\ Typed(g) /\ Forest(g, {rt}, lv) /\ LeavesFilled(g) /\ Balance(g, rt, {n})
  <2>1. Typed(g)
    BY <1>1, <1>8 DEF Typed
  <2>2. Forest(g, {rt}, lv)
    <3>1. \A m \in DOMAIN h : Keeps(h, g, {rt}, m)
      BY <1>2, <1>8, Zenon DEF Keeps
    <3> QED  BY <1>1, <1>8, <3>1, ForestKept, Zenon
  <2>3. LeavesFilled(g)
    <3>1. ASSUME NEW m \in DOMAIN h, m # n, g[m].leaf
          PROVE  g[m].keys \in Seq(Keys) /\ g[m].keys # <<>>
      <4>1. g[m] = h[m] /\ h[m].leaf
        BY <1>8, <3>1
      <4>2. m # rt
        <5> SUFFICES ASSUME m = rt PROVE FALSE
          OBVIOUS
        <5>1. ~h[rt].leaf
          BY <3>1, TreeFilled
        <5> QED  BY <4>1, <5>1
      <4> QED  BY <4>1, <4>2, TreeFilled
    <3> QED  BY <1>8, <3>1 DEF LeavesFilled, IsNode
  <2>4. Balance(g, rt, {n})
    BY <1>1, <1>8 DEF Balance, Counted, Few, Enough
  <2> QED  BY <2>1, <2>2, <2>3, <2>4
<1>9. CASE k \in ToSet(ks)
  <2>1. PICK g : g = [h EXCEPT ![n].items[at] = v]
    BY Zenon
  <2>2. InsertInLeaf(h, n, k, v) = [heap |-> g, right |-> Null, promoted |-> 0]
    BY <1>4, <1>7, <1>9, <2>1 DEF InsertInLeaf
  <2>3. PICK ws : ws = [vs EXCEPT ![at] = v] /\ ws \in Seq(Values) /\ Len(ws) = c
    <3>1. vs \in Seq(Values) /\ v \in Values
      BY <1>2, <1>4
    <3>2. Replaced(vs, at, v) \in Seq(Values) /\ Len(Replaced(vs, at, v)) = Len(vs)
      BY <3>1, ReplacedProperties
    <3> QED  BY <1>5, <3>2, Zenon DEF Replaced
  <2>4. /\ DOMAIN g = DOMAIN h /\ \A m \in DOMAIN h : m # n => g[m] = h[m]
        /\ DOMAIN g[n] = Fields /\ g[n].leaf = TRUE /\ g[n].keys = ks /\ g[n].items = ws
        /\ g[n].parent = h[n].parent
    <3>1. g = [h EXCEPT ![n] = [h[n] EXCEPT !.items = ws]]
      BY <1>4, <2>1, <2>3
    <3> QED  BY <1>2, <1>4, <3>1 DEF Fields
  <2>5. IsNode(g[n])
    BY <1>2, <1>4, <2>3, <2>4, Zenon DEF IsNode
  <2>6. g[n].keys # <<>>
    BY <1>9, <2>4 DEF ToSet
  <2>7. /\ Typed(g) /\ Forest(g, {rt}, lv) /\ LeavesFilled(g) /\ Balance(g, rt, {n})
    BY <1>8, <2>4, <2>5, <2>6, Zenon
  <2>8. Counted(g, n) /\ Few(g, n) /\ (n # rt => Enough(g, n))
    BY <1>2, <1>3, <1>4, <1>5, <2>3, <2>4, Zenon DEF Counted, Few, Enough
  <2>9. Balance(g, rt, {})
    BY <2>7, <2>8 DEF Balance
  <2>10. \A m \in DOMAIN h : lv[m] > lv[n] => g[m] = h[m]
    <3> TAKE m \in DOMAIN h
    <3> HAVE lv[m] > lv[n]
    <3>1. lv[m] \in Nat /\ lv[n] \in Nat
      BY <1>1 DEF Forest
    <3>2. m # n
      BY <3>1
    <3> QED  BY <2>4, <3>2
  <2>11. PICK r : r = [heap |-> g, right |-> Null, promoted |-> 0]
    BY Zenon
  <2>12. r.heap = g /\ r.right = Null
    BY <2>11
  <2>13. g[n].leaf = h[n].leaf /\ h[n].leaf /\ DOMAIN h \subseteq DOMAIN g
    BY <1>2, <2>4, Zenon
  <2>14. Grown(h, rt, lv, n, r)
    BY <2>4, <2>7, <2>9, <2>10, <2>12, <2>13 DEF Grown
  <2> QED  BY <2>2, <2>11, <2>14
<1>10. CASE k \notin ToSet(ks)
  <2>1. PICK g : g = [h EXCEPT ![n].keys = InsertAt(ks, at, k), ![n].items = InsertAt(vs, at, v)]
    BY Zenon
  <2>2. InsertInLeaf(h, n, k, v) = SplitIfFull(g, n)
    BY <1>4, <1>7, <1>10, <2>1 DEF InsertInLeaf
  <2>3. /\ InsertAt(ks, at, k) \in Seq(Keys) /\ Spliced(ks, InsertAt(ks, at, k), at, k)
        /\ InsertAt(vs, at, v) \in Seq(Values) /\ Spliced(vs, InsertAt(vs, at, v), at, v)
    <3>1. at \in 1 .. Len(ks) + 1 /\ at \in 1 .. Len(vs) + 1 /\ ks \in Seq(Keys) /\ vs \in Seq(Values)
      BY <1>2, <1>4, <1>5, <1>7
    <3> QED  BY <3>1, InsertAtProperties
  <2>4. PICK js, ws : /\ js = InsertAt(ks, at, k) /\ js \in Seq(Keys) /\ Len(js) = c + 1
                      /\ ws = InsertAt(vs, at, v) /\ ws \in Seq(Values) /\ Len(ws) = c + 1
    BY <1>5, <2>3 DEF Spliced
  <2>5. /\ DOMAIN g = DOMAIN h /\ \A m \in DOMAIN h : m # n => g[m] = h[m]
        /\ DOMAIN g[n] = Fields /\ g[n].leaf = TRUE /\ g[n].keys = js /\ g[n].items = ws
        /\ g[n].parent = h[n].parent
    <3>1. g = [h EXCEPT ![n].keys = js, ![n].items = ws]
      BY <2>1, <2>4
    <3> QED  BY <1>2, <3>1, Zenon DEF Fields
  <2>6. IsNode(g[n])
    BY <2>4, <2>5, Zenon DEF IsNode
  <2>7. js # <<>>
    <3>1. Len(js) # 0 /\ Len(<<>>) = 0
      BY <1>5, <2>4
    <3> QED  BY <3>1
  <2>8. /\ Typed(g) /\ Forest(g, {rt}, lv) /\ LeavesFilled(g) /\ Balance(g, rt, {n})
    BY <1>8, <2>5, <2>6, <2>7, Zenon
  <2>9. Counted(g, n) /\ Len(g[n].keys) = c + 1
    BY <2>4, <2>5 DEF Counted
  <2>10. PICK half \in Nat \ {0} : MinKeys(TRUE) = half
    BY DegreeIs, Zenon
  <2>11. Degree \in Nat
    BY DegreeIs, Zenon
  <2>12. Len(g[n].keys) <= Degree
    BY <1>3, <1>4, <1>5, <2>9, <2>11 DEF Few
  <2>13. n # rt => Enough(g, n)
    <3> SUFFICES ASSUME n # rt PROVE Enough(g, n)
      OBVIOUS
    <3>1. c >= half
      BY <1>2, <1>3, <1>4, <1>5, <2>10, Zenon DEF Enough
    <3>2. c + 1 >= half
      BY <3>1
    <3> QED  BY <2>5, <2>9, <2>10, <3>2, Zenon DEF Enough
  <2>14. Grown(g, rt, lv, n, SplitIfFull(g, n))
    BY <2>5, <2>8, <2>9, <2>12, <2>13, SplitIfFullGrows
  <2>15. \A m \in DOMAIN h : lv[m] > lv[n] => g[m] = h[m]
    <3> TAKE m \in DOMAIN h
    <3> HAVE lv[m] > lv[n]
    <3>1. lv[m] \in Nat /\ lv[n] \in Nat
      BY <1>1 DEF Forest
    <3>2. m # n
      BY <3>1
    <3> QED  BY <2>5, <3>2
  <2>16. Grown(h, rt, lv, n, SplitIfFull(g, n))
    BY <1>2, <2>5, <2>14, <2>15, GrownOn, Zenon
  <2> QED  BY <2>2, <2>16
<1> QED  BY <1>9, <1>10

\* The new sibling q of a child of n becomes a child of n.
LinkIn(g, n, i, key, q) ==
    [g EXCEPT ![n].keys  = InsertAt(@, i, key),
              ![n].items = InsertAt(@, i + 1, q),
              ![q].parent = n]

Linked(g, x, n, q) ==
    /\ DOMAIN x = DOMAIN g
    /\ \A m \in DOMAIN g : m \notin {n, q} => x[m] = g[m]
    /\ x[q].leaf = g[q].leaf /\ x[q].keys = g[q].keys /\ x[q].items = g[q].items
    /\ x[n].leaf = g[n].leaf /\ x[n].parent = g[n].parent
    /\ Counted(x, n) /\ Len(x[n].keys) = Len(g[n].keys) + 1

LEMMA LinkedIn ==
    ASSUME NEW g, NEW rt, NEW q, NEW lw, Typed(g), Forest(g, {rt, q}, lw), q # rt,
           NEW n \in DOMAIN g, ~g[n].leaf, lw[q] + 1 = lw[n],
           NEW i \in 1 .. Len(g[n].items), NEW key \in Keys,
           Counted(g, n), NEW x, x = LinkIn(g, n, i, key, q)
    PROVE  Typed(x) /\ Forest(x, {rt}, lw) /\ Linked(g, x, n, q)
<1>1. q \in DOMAIN g /\ rt \in DOMAIN g /\ lw \in [DOMAIN g -> Nat]
  BY DEF Forest
<1>2. n # q
  BY <1>1
<1>3. IsNode(g[n]) /\ IsNode(g[q]) /\ g[n].leaf = FALSE
  BY <1>1 DEF Typed, IsNode
<1>24. DOMAIN g[n] = Fields /\ DOMAIN g[q] = Fields
  BY <1>3 DEF IsNode
<1>4. PICK ks \in Seq(Keys) : ks = g[n].keys
  BY <1>3 DEF IsNode
<1>5. PICK is \in Seq(DOMAIN g) :
         is = g[n].items /\ \A a, b \in 1 .. Len(is) : is[a] = is[b] => a = b
  BY BroodIs
<1>6. PICK c \in Nat : c = Len(ks) /\ Len(is) = c + 1
  <2>1. Len(ks) \in Nat
    BY <1>4
  <2>2. Len(g[n].items) = Len(g[n].keys) + 1
    BY DEF Counted
  <2> QED  BY <1>4, <1>5, <2>1, <2>2
<1>7. i \in 1 .. c + 1 /\ i + 1 \in 1 .. Len(is) + 1 /\ i \in 1 .. Len(ks) + 1
  BY <1>5, <1>6
<1>8. PICK js : /\ js = InsertAt(ks, i, key) /\ js \in Seq(Keys) /\ Len(js) = c + 1
  <2>1. InsertAt(ks, i, key) \in Seq(Keys) /\ Spliced(ks, InsertAt(ks, i, key), i, key)
    BY <1>7, InsertAtProperties
  <2>2. Len(InsertAt(ks, i, key)) = c + 1
    BY <1>6, <2>1 DEF Spliced
  <2> QED  BY <2>1, <2>2
<1>9. PICK os : /\ os = InsertAt(is, i + 1, q) /\ os \in Seq(DOMAIN g)
                /\ Spliced(is, os, i + 1, q)
  <2>1. InsertAt(is, i + 1, q) \in Seq(DOMAIN g)
        /\ Spliced(is, InsertAt(is, i + 1, q), i + 1, q)
    BY <1>1, <1>7, InsertAtProperties, Zenon
  <2> QED  BY <2>1
<1>10. \A a \in 1 .. c + 1 :
          /\ is[a] \in DOMAIN g /\ is[a] # q /\ is[a] # rt /\ is[a] # n
          /\ g[is[a]].parent = n /\ lw[is[a]] + 1 = lw[n]
  <2> TAKE a \in 1 .. c + 1
  <2>1. a \in 1 .. Len(g[n].items)
    BY <1>5, <1>6
  <2> QED  BY <1>5, <2>1, KidOf
<1>11. /\ Len(os) = c + 2 /\ Differ(os)
       /\ \A m : Holds(os, m) <=> m = q \/ Holds(is, m)
  <2>1. PICK y : y = i + 1
    OBVIOUS
  <2>2. Spliced(is, os, y, q) /\ os \in Seq(DOMAIN g) /\ is \in Seq(DOMAIN g)
    BY <1>9, <2>1
  <2>3. /\ Len(os) = Len(is) + 1
        /\ \A m : Holds(os, m) <=> m = q \/ Holds(is, m)
        /\ Differ(is) /\ ~Holds(is, q) => Differ(os)
    BY <2>2, SplicedElements
  <2>4. Differ(is) /\ ~Holds(is, q)
    BY <1>5, <1>6, <1>10 DEF Differ, Holds
  <2>5. Len(os) = c + 2
    BY <1>6, <2>3
  <2> QED  BY <2>3, <2>4, <2>5
<1>12. x = [g EXCEPT ![n].keys = js, ![n].items = os, ![q].parent = n]
  BY <1>4, <1>5, <1>8, <1>9 DEF LinkIn
<1>13. DOMAIN x = DOMAIN g /\ \A m \in DOMAIN g : m \notin {n, q} => x[m] = g[m]
  BY <1>12
<1>14. /\ DOMAIN x[q] = Fields /\ x[q].leaf = g[q].leaf /\ x[q].keys = g[q].keys
       /\ x[q].items = g[q].items /\ x[q].parent = n
  <2>1. PICK y : y = [g EXCEPT ![n].keys = js, ![n].items = os]
    BY Zenon
  <2>2. x = [y EXCEPT ![q].parent = n]
    BY <1>12, <2>1
  <2>3. y[q] = g[q] /\ q \in DOMAIN y
    BY <1>1, <1>2, <2>1
  <2>4. x[q] = [g[q] EXCEPT !.parent = n]
    BY <2>2, <2>3
  <2> QED  BY <1>24, <2>4 DEF Fields
<1>15. /\ DOMAIN x[n] = Fields /\ x[n].leaf = FALSE /\ x[n].keys = js
       /\ x[n].items = os /\ x[n].parent = g[n].parent
  <2>1. g[n].leaf = FALSE
    BY <1>3
  <2> QED  BY <1>2, <1>12, <1>24, <2>1, ZenonT(40) DEF Fields
<1>16. Typed(x)
  <2>1. IsNode(x[q]) /\ IsNode(x[n])
    BY <1>3, <1>8, <1>14, <1>15, Zenon DEF IsNode
  <2> QED  BY <1>13, <2>1 DEF Typed
<1>17. \A m \in DOMAIN g : /\ x[m].leaf = g[m].leaf
                           /\ m # q => x[m].parent = g[m].parent
                           /\ m # n => x[m].items = g[m].items
  BY <1>3, <1>13, <1>14, <1>15, Zenon
<1>18. Brood(x, {rt}, lw, n)
  <2>1. \A j \in 1 .. c + 2 : /\ os[j] # rt /\ x[os[j]].parent = n /\ lw[os[j]] + 1 = lw[n]
    <3> TAKE j \in 1 .. c + 2
    <3>1. CASE os[j] = q
      BY <1>14, <3>1
    <3>2. CASE os[j] # q
      <4>1. Holds(os, os[j])
        BY <1>11 DEF Holds
      <4>2. PICK a \in 1 .. c + 1 : os[j] = is[a]
        BY <1>6, <1>11, <3>2, <4>1, Zenon DEF Holds
      <4> QED  BY <1>10, <1>17, <4>2
    <3> QED  BY <3>1, <3>2
  <2>2. os # <<>>
    <3>1. Len(os) # 0 /\ Len(<<>>) = 0
      BY <1>6, <1>11
    <3> QED  BY <3>1
  <2>3. \A a, b \in 1 .. c + 2 : os[a] = os[b] => a = b
    BY <1>11 DEF Differ
  <2> QED  BY <1>9, <1>11, <1>13, <1>15, <2>1, <2>2, <2>3 DEF Brood
<1>19. PICK Q, S, R : Q = {rt} /\ S = {n} /\ R = {rt, q}
  BY Zenon
<1>20. \A m \in DOMAIN x : x[m].parent = n /\ (m = q \/ (g[m].parent = n /\ m # rt))
                           => Hangs(x, m)
  <2> SUFFICES ASSUME NEW m \in DOMAIN x, x[m].parent = n,
                      m = q \/ (g[m].parent = n /\ m # rt)
               PROVE  Hangs(x, m)
    OBVIOUS
  <2>1. Holds(os, m)
    <3>1. CASE m = q
      BY <1>11, <3>1
    <3>2. CASE m # q
      <4>1. m \in DOMAIN g /\ m \notin {rt, q} /\ g[m].parent = n
        BY <1>13, <3>2
      <4>2. PICK a \in 1 .. Len(g[n].items) : g[n].items[a] = m
        BY <4>1, ParentOf
      <4> QED  BY <1>5, <1>11, <4>2, ZenonT(40) DEF Holds
    <3> QED  BY <3>1, <3>2
  <2> QED  BY <1>13, <1>15, <2>1 DEF Hangs, Holds
<1>21. Surgery(g, R, x, Q, S)
  <2>1. DOMAIN g \ S = DOMAIN x \ S
    BY <1>13
  <2>2. \A m \in DOMAIN g \ S : x[m].leaf = g[m].leaf /\ (~g[m].leaf => x[m].items = g[m].items)
    BY <1>17, <1>19
  <2>3. \A m \in DOMAIN g \ R : m \in DOMAIN x /\ m \notin Q /\ x[m].parent = g[m].parent
    BY <1>13, <1>17, <1>19
  <2>4. ASSUME NEW m \in DOMAIN x \ Q
        PROVE  \/ m \in DOMAIN g \ R /\ g[m].parent \notin S
               \/ x[m].parent \in S /\ Hangs(x, m)
    <3>1. m \in DOMAIN g /\ m # rt
      BY <1>13, <1>19
    <3>2. CASE m = q
      <4>1. x[m].parent = n
        BY <1>14, <3>2
      <4> QED  BY <1>13, <1>19, <1>20, <3>1, <3>2, <4>1
    <3>3. CASE m # q /\ g[m].parent = n
      <4>1. x[m].parent = n
        BY <1>17, <3>1, <3>3
      <4> QED  BY <1>13, <1>19, <1>20, <3>1, <3>3, <4>1
    <3>4. CASE m # q /\ g[m].parent # n
      BY <1>19, <3>1, <3>4
    <3> QED  BY <3>2, <3>3, <3>4
  <2> QED  BY <2>1, <2>2, <2>3, <2>4 DEF Surgery
<1>22. Forest(x, {rt}, lw)
  <2>1. Forest(g, R, lw) /\ Q \subseteq DOMAIN x /\ lw \in [DOMAIN x -> Nat]
    BY <1>1, <1>13, <1>19
  <2>2. lw[n] # 0 /\ ~x[n].leaf
    BY <1>1, <1>15 DEF Forest
  <2>3. \A m \in DOMAIN x : m \in S =>
          (x[m].leaf <=> lw[m] = 0) /\ (~x[m].leaf => Brood(x, Q, lw, m))
    BY <1>18, <1>19, <2>2
  <2>4. Forest(x, Q, lw)
    BY <1>21, <2>1, <2>3, SurgeryKeepsForest, Zenon
  <2> QED  BY <1>19, <2>4
<1>23. Counted(x, n) /\ Len(x[n].keys) = Len(g[n].keys) + 1
  BY <1>4, <1>6, <1>8, <1>11, <1>15, SMTT(20) DEF Counted
<1>25. Linked(g, x, n, q)
  BY <1>3, <1>13, <1>14, <1>15, <1>23, Zenon DEF Linked
<1> QED  BY <1>16, <1>22, <1>25

LEMMA InsertInInternalGrows ==
    ASSUME degree \in Int, NEW h, NEW rt, NEW lv, Tree(h, rt, lv),
           NEW n \in DOMAIN h, ~h[n].leaf, NEW i \in 1 .. Len(h[n].items), NEW r,
           Grown(h, rt, lv, h[n].items[i], r)
    PROVE  Grown(h, rt, lv, n, InsertInInternal(n, i, r))
<1>1. Typed(h) /\ Forest(h, {rt}, lv) /\ Balance(h, rt, {})
  BY DEF Tree
<1>2. PICK c \in DOMAIN h : /\ c = h[n].items[i] /\ c # n /\ h[c].parent = n
                            /\ lv[c] \in Nat /\ lv[n] \in Nat /\ lv[c] + 1 = lv[n]
  BY <1>1, KidOf
<1>3. PICK g : g = r.heap
  OBVIOUS
<1>4. /\ Typed(g) /\ LeavesFilled(g) /\ Balance(g, rt, {})
      /\ DOMAIN h \subseteq DOMAIN g
      /\ \A m \in DOMAIN h : lv[m] > lv[c] => g[m] = h[m]
  BY <1>2, <1>3 DEF Grown
<1>5. PICK lw :
        /\ \A m \in DOMAIN h : lw[m] = lv[m]
        /\ r.right = Null => Forest(g, {rt}, lw)
        /\ r.right # Null =>
            /\ Forest(g, {rt, r.right}, lw)
            /\ r.right \in DOMAIN g /\ r.right \notin DOMAIN h
            /\ lw[r.right] = lv[c]
            /\ Enough(g, c) /\ Enough(g, r.right) /\ r.promoted \in Keys
  BY <1>2, <1>3 DEF Grown
<1>6. g[n] = h[n] /\ n \in DOMAIN g /\ ~g[n].leaf
  BY <1>2, <1>4
<1>7. \A m \in DOMAIN h : lv[m] > lv[n] => g[m] = h[m] /\ m # n
  <2> TAKE m \in DOMAIN h
  <2> HAVE lv[m] > lv[n]
  <2>1. lv[m] \in Nat
    BY <1>1 DEF Forest
  <2>2. lv[m] > lv[c] /\ m # n
    BY <1>2, <2>1
  <2> QED  BY <1>4, <2>2
<1>8. /\ Counted(g, n) /\ Few(g, n) /\ (n # rt => Enough(g, n))
      /\ g[n].keys \in Seq(Keys) /\ Len(g[n].keys) \in Nat /\ g[n].leaf = FALSE
  <2>1. g[n].keys \in Seq(Keys) /\ g[n].leaf = FALSE
    BY <1>4, <1>6 DEF Typed, IsNode
  <2> QED  BY <1>4, <1>6, <2>1 DEF Balance
<1>9. n = rt => Len(g[n].keys) >= 1
  BY <1>6 DEF Tree
<1>10. Degree \in Nat
  BY DegreeIs, Zenon
<1>11. CASE r.right = Null
  <2>1. InsertInInternal(n, i, r) = SplitIfFull(g, n)
    BY <1>3, <1>11 DEF InsertInInternal
  <2>2. Forest(g, {rt}, lw)
    BY <1>5, <1>11
  <2>3. Len(g[n].keys) <= Degree
    BY <1>8, <1>10 DEF Few
  <2>4. Balance(g, rt, {n})
    BY <1>4 DEF Balance
  <2>5. Grown(g, rt, lw, n, SplitIfFull(g, n))
    BY <1>4, <1>6, <1>8, <1>9, <2>2, <2>3, <2>4, SplitIfFullGrows
  <2>6. Grown(h, rt, lv, n, SplitIfFull(g, n))
    BY <1>4, <1>5, <1>6, <1>7, <2>5, GrownOn
  <2> QED  BY <2>1, <2>6
<1>12. CASE r.right # Null
  <2>1. PICK q, key : q = r.right /\ key = r.promoted
    OBVIOUS
  <2>2. /\ Forest(g, {rt, q}, lw) /\ q \in DOMAIN g /\ q \notin DOMAIN h
        /\ lw[q] = lv[c] /\ Enough(g, q) /\ key \in Keys
    BY <1>5, <1>12, <2>1
  <2>3. q # rt /\ q # n
    BY <1>1, <2>2 DEF Forest
  <2>4. lw[q] + 1 = lw[n]
    BY <1>2, <1>5, <2>2
  <2>5. PICK x : x = LinkIn(g, n, i, key, q)
    OBVIOUS
  <2>6. InsertInInternal(n, i, r) = SplitIfFull(x, n)
    BY <1>3, <1>12, <2>1, <2>5 DEF InsertInInternal, LinkIn
  <2>7. i \in 1 .. Len(g[n].items)
    BY <1>6
  <2>8. /\ Typed(x) /\ Forest(x, {rt}, lw) /\ DOMAIN x = DOMAIN g
        /\ \A m \in DOMAIN g : m \notin {n, q} => x[m] = g[m]
        /\ x[q].leaf = g[q].leaf /\ x[q].keys = g[q].keys /\ x[q].items = g[q].items
        /\ x[n].leaf = g[n].leaf /\ x[n].parent = g[n].parent
        /\ Counted(x, n) /\ Len(x[n].keys) = Len(g[n].keys) + 1
    <3>1. Typed(g) /\ Counted(g, n) /\ key \in Keys
      BY <1>4, <1>8, <2>2
    <3>2. n \in DOMAIN g /\ ~g[n].leaf /\ q # rt /\ Forest(g, {rt, q}, lw)
      BY <1>6, <2>2, <2>3
    <3>3. Typed(x) /\ Forest(x, {rt}, lw) /\ Linked(g, x, n, q)
      BY <2>4, <2>5, <2>7, <3>1, <3>2, LinkedIn, Zenon
    <3> QED  BY <3>3 DEF Linked
  <2>9. LeavesFilled(x)
    <3>1. \A m \in DOMAIN g : m # n => x[m].leaf = g[m].leaf /\ x[m].keys = g[m].keys
      BY <2>8
    <3> QED  BY <1>4, <1>6, <2>8, <3>1 DEF LeavesFilled
  <2>10. Balance(x, rt, {n})
    <3>1. \A m \in DOMAIN g : m # n => /\ x[m].leaf = g[m].leaf /\ x[m].keys = g[m].keys
                                       /\ x[m].items = g[m].items
      BY <2>8
    <3>2. \A m \in DOMAIN g : Counted(g, m) /\ Few(g, m) /\ (m # rt => Enough(g, m))
      BY <1>4 DEF Balance
    <3> QED  BY <2>8, <3>1, <3>2, Zenon DEF Balance, Counted, Few, Enough
  <2>11. Len(x[n].keys) <= Degree
    BY <1>8, <1>10, <2>8 DEF Few
  <2>12. n # rt => Enough(x, n)
    <3> SUFFICES ASSUME n # rt PROVE Enough(x, n)
      OBVIOUS
    <3>1. PICK b \in Nat : b = MinKeys(FALSE)
      <4>1. PICK half \in Nat \ {0} : /\ Degree \in Nat /\ Degree - half - 1 >= 1
                                      /\ MinKeys(FALSE) = Degree - half - 1
        BY DegreeIs, Zenon
      <4>2. PICK e : e = Degree - half - 1
        OBVIOUS
      <4>3. e \in Nat
        BY <4>1, <4>2
      <4> QED  BY <4>1, <4>2, <4>3, Zenon
    <3>2. Len(g[n].keys) >= b
      BY <1>8, <3>1, Zenon DEF Enough
    <3>3. Len(g[n].keys) + 1 >= b
      BY <1>8, <3>2
    <3> QED  BY <1>8, <2>8, <3>1, <3>3, Zenon DEF Enough
  <2>13. n = rt => Len(x[n].keys) >= 1
    BY <1>8, <2>8
  <2>14. n \in DOMAIN x
    BY <1>6, <2>8
  <2>15. Grown(x, rt, lw, n, SplitIfFull(x, n))
    BY <2>8, <2>9, <2>10, <2>11, <2>12, <2>13, <2>14, SplitIfFullGrows
  <2>16. \A m \in DOMAIN h : lv[m] > lv[n] => x[m] = h[m]
    BY <1>4, <1>7, <2>2, <2>8
  <2>17. x[n].leaf = h[n].leaf /\ x[n].parent = h[n].parent /\ DOMAIN h \subseteq DOMAIN x
    BY <1>4, <1>6, <2>8
  <2>18. Grown(h, rt, lv, n, SplitIfFull(x, n))
    BY <1>5, <2>15, <2>16, <2>17, GrownOn
  <2> QED  BY <2>6, <2>18
<1> QED  BY <1>11, <1>12

\* A set of nodes has a lowest one.
LEMMA Lowest ==
    ASSUME NEW h, NEW R, NEW lv, Forest(h, R, lv), NEW B, B \subseteq DOMAIN h, B # {}
    PROVE  \E m \in B : \A x \in B : lv[m] <= lv[x]
<1> DEFINE L == {lv[x] : x \in B}
<1>1. L \in SUBSET Nat /\ L # {}
  BY DEF Forest
<1>2. PICK i \in L : \A j \in L : i <= j
  <2> HIDE DEF L
  <2> QED  BY <1>1, LessThanIsWellFounded
<1> QED  BY <1>2

IsInsert(f, h, k, v, S) ==
    f = [n \in S |-> LET i == ChildIndex(h[n], k)
                     IN  IF h[n].leaf THEN InsertInLeaf(h, n, k, v)
                         ELSE InsertInInternal(n, i, f[h[n].items[i]])]

\* The child on the way to key k.
LEMMA KidFor ==
    ASSUME NEW h, NEW R, NEW lv, Typed(h), Forest(h, R, lv), NEW k \in Keys,
           NEW n \in DOMAIN h, ~h[n].leaf, Counted(h, n)
    PROVE  LET i == ChildIndex(h[n], k)
               c == h[n].items[i]
           IN  /\ i \in 1 .. Len(h[n].items) /\ i \in 1 .. Len(h[n].keys) + 1
               /\ c \in DOMAIN h /\ lv[c] + 1 = lv[n] /\ lv[c] \in Nat /\ lv[n] \in Nat
<1>1. h[n].keys \in Seq(Int) /\ k \in Int
  <2>1. h[n].keys \in Seq(Keys) /\ Keys \subseteq Int
    BY DEF Typed, IsNode
  <2> QED  BY <2>1, SeqOfMore, Zenon
<1>2. PICK i : i = ChildIndex(h[n], k)
  OBVIOUS
<1>3. i \in 1 .. Len(h[n].keys) + 1
  BY <1>1, <1>2, ChildIndexIs
<1>4. i \in 1 .. Len(h[n].items)
  BY <1>3 DEF Counted
<1>5. PICK c : c = h[n].items[i]
  OBVIOUS
<1>6. c \in DOMAIN h /\ lv[c] + 1 = lv[n] /\ lv[c] \in Nat /\ lv[n] \in Nat
  BY <1>4, <1>5, KidOf
<1> QED  BY <1>2, <1>3, <1>4, <1>5, <1>6

LEMMA InsertStep ==
    ASSUME NEW h, NEW R, NEW lv, Typed(h), Forest(h, R, lv), NEW k \in Keys, NEW v,
           \A n \in DOMAIN h : Counted(h, n),
           NEW l \in Nat, NEW f, IsInsert(f, h, k, v, Under(h, lv, l))
    PROVE  \E g : IsInsert(g, h, k, v, Under(h, lv, l + 1))
<1> DEFINE Body(m, e) == LET i == ChildIndex(h[m], k)
                         IN  IF h[m].leaf THEN InsertInLeaf(h, m, k, v)
                             ELSE InsertInInternal(m, i, e[h[m].items[i]])
           S == Under(h, lv, l)
           T == Under(h, lv, l + 1)
           g == [m \in T |-> Body(m, f)]
<1>1. f = [m \in S |-> Body(m, f)]
  BY DEF IsInsert
<1>2. ASSUME NEW m \in T
      PROVE  Body(m, g) = Body(m, f)
  <2>1. CASE h[m].leaf
    BY <2>1, Zenon
  <2>2. CASE ~h[m].leaf
    <3>1. PICK i, c : i = ChildIndex(h[m], k) /\ c = h[m].items[i]
      OBVIOUS
    <3>2. c \in S /\ c \in T
      <4>1. m \in DOMAIN h /\ lv[m] < l + 1
        BY DEF Under
      <4>2. c \in DOMAIN h /\ lv[c] + 1 = lv[m] /\ lv[c] \in Nat /\ lv[m] \in Nat
        BY <2>2, <3>1, <4>1, KidFor
      <4> QED  BY <4>1, <4>2 DEF Under
    <3>3. f[c] = Body(c, f)
      <4> HIDE DEF Body, S
      <4> QED  BY <1>1, <3>2
    <3>4. g[c] = Body(c, f)
      <4> HIDE DEF Body, T
      <4> QED  BY <3>2
    <3> HIDE DEF g, S, T
    <3> QED  BY <2>2, <3>1, <3>3, <3>4
  <2> QED  BY <2>1, <2>2, Zenon
<1>3. g = [m \in T |-> Body(m, g)]
  <2> HIDE DEF Body, T
  <2> QED  BY <1>2, Zenon
<1>4. IsInsert(g, h, k, v, T)
  <2> HIDE DEF g, T
  <2> QED  BY <1>3 DEF IsInsert
<1> QED  BY <1>4, Zenon

LEMMA InsertExists ==
    ASSUME NEW h, NEW R, NEW lv, Typed(h), Forest(h, R, lv), NEW k \in Keys, NEW v,
           \A n \in DOMAIN h : Counted(h, n), NEW l \in Nat
    PROVE  \E f : IsInsert(f, h, k, v, Under(h, lv, l))
<1> DEFINE Bad == {i \in Nat : ~\E f : IsInsert(f, h, k, v, Under(h, lv, i))}
<1> SUFFICES ASSUME Bad # {} PROVE FALSE
  OBVIOUS
<1>1. PICK i \in Bad : \A j \in Bad : i <= j
  <2>1. Bad \in SUBSET Nat
    OBVIOUS
  <2> HIDE DEF Bad
  <2> QED  BY <2>1, LessThanIsWellFounded
<1>2. i \in Nat /\ ~\E f : IsInsert(f, h, k, v, Under(h, lv, i))
  OBVIOUS
<1>3. i # 0
  <2> SUFFICES ASSUME i = 0 PROVE FALSE
    OBVIOUS
  <2>1. Under(h, lv, 0) = {}
    BY DEF Under, Forest
  <2> DEFINE none == [m \in {} |-> 0]
  <2>2. none = [n \in {} |-> LET j == ChildIndex(h[n], k)
                             IN  IF h[n].leaf THEN InsertInLeaf(h, n, k, v)
                                 ELSE InsertInInternal(n, j, none[h[n].items[j]])]
    OBVIOUS
  <2>3. IsInsert(none, h, k, v, {})
    <3> HIDE DEF none
    <3> QED  BY <2>2 DEF IsInsert
  <2> QED  BY <1>2, <2>1, <2>3, Zenon
<1>4. PICK j \in Nat : i = j + 1
  <2>1. i - 1 \in Nat /\ i = (i - 1) + 1
    BY <1>2, <1>3
  <2> QED  BY <2>1
<1>5. j \notin Bad
  BY <1>1, <1>4
<1>6. \E f : IsInsert(f, h, k, v, Under(h, lv, j))
  BY <1>5
<1> HIDE DEF Bad
<1> QED  BY <1>2, <1>4, <1>6, InsertStep

\* A call of Insert keeps the tree, but for a new sibling of the root.
LEMMA InsertGrows ==
    ASSUME degree \in Int, NEW lv, Tree(heap, root, lv),
           NEW k \in Keys, NEW v \in Values
    PROVE  Grown(heap, root, lv, root, Insert(heap, k, v))
<1>1. /\ Typed(heap) /\ Forest(heap, {root}, lv) /\ Balance(heap, root, {})
      /\ root \in DOMAIN heap /\ \A n \in DOMAIN heap : Counted(heap, n)
  BY Zenon DEF Tree, Forest, Balance
<1>2. PICK top \in Nat : DOMAIN heap = Under(heap, lv, top)
  <2>1. IsFiniteSet(DOMAIN heap) /\ DOMAIN heap # {}
    BY <1>1 DEF Typed
  <2>2. PICK l \in Nat : \A m \in DOMAIN heap : lv[m] <= l
    BY <1>1, <2>1, LevelsBounded
  <2>3. \A m \in DOMAIN heap : lv[m] < l + 1
    BY <1>1, <2>2 DEF Forest
  <2>4. DOMAIN heap = Under(heap, lv, l + 1)
    BY <2>3 DEF Under
  <2>5. l + 1 \in Nat
    OBVIOUS
  <2> QED  BY <2>4, <2>5
<1>3. PICK f : IsInsert(f, heap, k, v, DOMAIN heap) /\ Insert(heap, k, v) = f[root]
  <2> DEFINE g == CHOOSE f : IsInsert(f, heap, k, v, DOMAIN heap)
  <2>1. IsInsert(g, heap, k, v, DOMAIN heap)
    BY <1>1, <1>2, InsertExists
  <2>2. Insert(heap, k, v) = g[root]
    BY DEF Insert, IsInsert
  <2> HIDE DEF g
  <2> QED  BY <2>1, <2>2
<1>4. \A n \in DOMAIN heap :
        f[n] = LET i == ChildIndex(heap[n], k)
               IN  IF heap[n].leaf THEN InsertInLeaf(heap, n, k, v)
                   ELSE InsertInInternal(n, i, f[heap[n].items[i]])
  <2>1. f = [n \in DOMAIN heap |->
               LET i == ChildIndex(heap[n], k)
               IN  IF heap[n].leaf THEN InsertInLeaf(heap, n, k, v)
                   ELSE InsertInInternal(n, i, f[heap[n].items[i]])]
    BY <1>3 DEF IsInsert
  <2> QED  BY <2>1
<1> DEFINE Bad == {n \in DOMAIN heap : ~Grown(heap, root, lv, n, f[n])}
<1>5. Bad = {}
  <2> SUFFICES ASSUME Bad # {} PROVE FALSE
    OBVIOUS
  <2>1. PICK n \in Bad : \A x \in Bad : lv[n] <= lv[x]
    <3>1. Bad \subseteq DOMAIN heap
      OBVIOUS
    <3> HIDE DEF Bad
    <3> QED  BY <1>1, <3>1, Lowest
  <2>2. n \in DOMAIN heap /\ ~Grown(heap, root, lv, n, f[n])
    OBVIOUS
  <2>3. ~heap[n].leaf
    <3> SUFFICES ASSUME heap[n].leaf PROVE FALSE
      OBVIOUS
    <3>1. f[n] = InsertInLeaf(heap, n, k, v)
      BY <1>4, <2>2
    <3>2. Grown(heap, root, lv, n, InsertInLeaf(heap, n, k, v))
      BY <2>2, InsertInLeafGrows
    <3> QED  BY <2>2, <3>1, <3>2
  <2>4. PICK i, c : i = ChildIndex(heap[n], k) /\ c = heap[n].items[i]
    OBVIOUS
  <2>5. /\ i \in 1 .. Len(heap[n].items)
        /\ c \in DOMAIN heap /\ lv[c] + 1 = lv[n] /\ lv[c] \in Nat /\ lv[n] \in Nat
    BY <1>1, <2>2, <2>3, <2>4, KidFor
  <2>6. Grown(heap, root, lv, c, f[c])
    <3>1. ~(lv[n] <= lv[c])
      BY <2>5
    <3>2. c \notin Bad
      <4> HIDE DEF Bad
      <4> QED  BY <2>1, <3>1
    <3> QED  BY <2>5, <3>2
  <2>7. f[n] = InsertInInternal(n, i, f[c])
    BY <1>4, <2>2, <2>3, <2>4
  <2>8. PICK r : r = f[c]
    OBVIOUS
  <2>9. Grown(heap, root, lv, n, InsertInInternal(n, i, r))
    BY <2>2, <2>3, <2>4, <2>5, <2>6, <2>8, InsertInInternalGrows
  <2> QED  BY <2>2, <2>7, <2>8, <2>9
<1>6. Grown(heap, root, lv, root, f[root])
  BY <1>1, <1>5
<1> QED  BY <1>3, <1>6

\* A new root above the old one and its sibling q.
TopOn(g, rt, q, top, key) ==
    Store([g EXCEPT ![rt].parent = top, ![q].parent = top], top,
          [NewNode(FALSE) EXCEPT !.keys = <<key>>, !.items = <<rt, q>>])

Topped(g, x, rt, q, top, key) ==
    /\ DOMAIN x = DOMAIN g \cup {top}
    /\ \A m \in DOMAIN g : /\ x[m].leaf = g[m].leaf /\ x[m].keys = g[m].keys
                           /\ x[m].items = g[m].items
    /\ x[top].leaf = FALSE /\ x[top].keys = <<key>> /\ x[top].items = <<rt, q>>
    /\ x[top].parent = Null

LEMMA TopAdded ==
    ASSUME NEW g, NEW rt, NEW q, NEW lw, Typed(g), Forest(g, {rt, q}, lw), q # rt,
           lw[q] = lw[rt], NEW top \in Nat \ {0}, top \notin DOMAIN g, NEW key \in Keys,
           NEW x, x = TopOn(g, rt, q, top, key)
    PROVE  /\ Typed(x) /\ Forest(x, {top}, LvWith(lw, top, lw[rt] + 1))
           /\ Topped(g, x, rt, q, top, key)
<1>1. /\ rt \in DOMAIN g /\ q \in DOMAIN g /\ lw \in [DOMAIN g -> Nat]
      /\ lw[rt] \in Nat /\ rt # top /\ q # top
  BY DEF Forest
<1>2. PICK lx : lx = LvWith(lw, top, lw[rt] + 1)
  OBVIOUS
<1>3. /\ lx \in [DOMAIN g \cup {top} -> Nat] /\ lx[top] = lw[rt] + 1
      /\ \A m \in DOMAIN g : lx[m] = lw[m]
  BY <1>1, <1>2 DEF LvWith
<1>4. PICK y : y = [g EXCEPT ![rt].parent = top, ![q].parent = top]
  BY Zenon
<1>5. PICK node : node = [NewNode(FALSE) EXCEPT !.keys = <<key>>, !.items = <<rt, q>>]
  OBVIOUS
<1>6. x = Store(y, top, node)
  BY <1>4, <1>5 DEF TopOn
<1>7. /\ DOMAIN node = Fields /\ node.leaf = FALSE /\ node.keys = <<key>>
      /\ node.items = <<rt, q>> /\ node.parent = Null
  BY <1>5 DEF NewNode, Fields
<1>8. \A m \in DOMAIN g : DOMAIN g[m] = Fields
  BY DEF Typed, IsNode
<1>9. DOMAIN y = DOMAIN g /\ \A m \in DOMAIN g : m \notin {rt, q} => y[m] = g[m]
  BY <1>4
<1>10. y[rt] = [g[rt] EXCEPT !.parent = top] /\ y[q] = [g[q] EXCEPT !.parent = top]
  <2>1. PICK z : z = [g EXCEPT ![rt].parent = top]
    BY Zenon
  <2>2. y = [z EXCEPT ![q].parent = top]
    BY <1>4, <2>1
  <2>3. z[q] = g[q] /\ DOMAIN z = DOMAIN g /\ z[rt] = [g[rt] EXCEPT !.parent = top]
    BY <1>1, <2>1
  <2> QED  BY <1>1, <2>2, <2>3
<1>11. \A m \in {rt, q} : /\ DOMAIN y[m] = Fields /\ y[m].leaf = g[m].leaf
                          /\ y[m].keys = g[m].keys /\ y[m].items = g[m].items
                          /\ y[m].parent = top
  <2>1. DOMAIN g[rt] = Fields /\ DOMAIN g[q] = Fields
    BY <1>1, <1>8
  <2> QED  BY <1>10, <2>1 DEF Fields
<1>12. /\ DOMAIN x = DOMAIN g \cup {top} /\ x[top] = node
       /\ \A m \in DOMAIN g : x[m] = y[m]
  BY <1>6, <1>9 DEF Store
<1>13. Topped(g, x, rt, q, top, key)
  <2>1. \A m \in DOMAIN g : /\ x[m].leaf = g[m].leaf /\ x[m].keys = g[m].keys
                            /\ x[m].items = g[m].items
    BY <1>9, <1>11, <1>12
  <2> QED  BY <1>7, <1>12, <2>1 DEF Topped
<1>14. Typed(x)
  <2>1. IsFiniteSet(DOMAIN x)
    <3>1. IsFiniteSet(DOMAIN g)
      BY DEF Typed
    <3> QED  BY <1>12, <3>1, FS_AddElement
  <2>2. DOMAIN x \subseteq Nat \ {0}
    BY <1>12 DEF Typed
  <2>3. <<key>> \in Seq(Keys)
    OBVIOUS
  <2>4. IsNode(x[top])
    BY <1>7, <1>12, <2>3, Zenon DEF IsNode
  <2>5. ASSUME NEW m \in DOMAIN g PROVE IsNode(x[m])
    <3>1. IsNode(g[m])
      BY DEF Typed
    <3>2. x[m] = y[m]
      BY <1>12
    <3>3. CASE m \in {rt, q}
      BY <1>11, <3>1, <3>2, <3>3 DEF IsNode
    <3>4. CASE m \notin {rt, q}
      BY <1>9, <3>1, <3>2, <3>4
    <3> QED  BY <3>3, <3>4
  <2> QED  BY <1>12, <2>1, <2>2, <2>4, <2>5 DEF Typed
<1>15. PICK is : is = <<rt, q>>
  BY Zenon
<1>16. Brood(x, {top}, lx, top)
  <2>1. is \in Seq(DOMAIN x) /\ is # <<>> /\ Len(is) = 2 /\ is[1] = rt /\ is[2] = q
    BY <1>1, <1>12, <1>15
  <2>2. x[top].items = is
    BY <1>7, <1>12, <1>15
  <2>3. \A i \in 1 .. 2 : is[i] \in {rt, q}
    BY <2>1
  <2>4. \A m \in {rt, q} : m # top /\ x[m].parent = top /\ lx[m] + 1 = lx[top]
    BY <1>1, <1>3, <1>11, <1>12
  <2>5. \A i, j \in 1 .. 2 : is[i] = is[j] => i = j
    BY <2>1
  <2>6. \A i \in 1 .. 2 : is[i] # top /\ x[is[i]].parent = top /\ lx[is[i]] + 1 = lx[top]
    BY <2>3, <2>4
  <2>7. \A i \in 1 .. Len(is) : is[i] \notin {top} /\ x[is[i]].parent = top /\ lx[is[i]] + 1 = lx[top]
    BY <2>1, <2>6
  <2>8. \A i, j \in 1 .. Len(is) : is[i] = is[j] => i = j
    BY <2>1, <2>5
  <2>9. is \in Seq(DOMAIN x) /\ is # <<>>
    BY <2>1
  <2> QED  BY <2>2, <2>7, <2>8, <2>9, Zenon DEF Brood
<1>17. \A m \in {rt, q} : Hangs(x, m)
  <2>1. /\ x[top].leaf = FALSE /\ x[top].items = is /\ Len(is) = 2
        /\ is[1] = rt /\ is[2] = q
    BY <1>7, <1>12, <1>15
  <2>2. 1 \in 1 .. Len(is) /\ 2 \in 1 .. Len(is)
    BY <2>1
  <2>3. x[rt].parent = top /\ x[q].parent = top /\ top \in DOMAIN x
    BY <1>1, <1>11, <1>12
  <2> QED  BY <2>1, <2>2, <2>3 DEF Hangs
<1>18. PICK Q, R : Q = {top} /\ R = {rt, q}
  BY Zenon
<1>19. Surgery(g, R, x, Q, Q)
  <2>1. DOMAIN g \ Q = DOMAIN x \ Q
    BY <1>12, <1>18
  <2>2. \A m \in DOMAIN g \ Q : x[m].leaf = g[m].leaf /\ (~g[m].leaf => x[m].items = g[m].items)
    BY <1>13 DEF Topped
  <2>3. \A m \in DOMAIN g \ R : m \in DOMAIN x /\ m \notin Q /\ x[m].parent = g[m].parent
    BY <1>9, <1>12, <1>18
  <2>4. ASSUME NEW m \in DOMAIN x \ Q
        PROVE  \/ m \in DOMAIN g \ R /\ g[m].parent \notin Q
               \/ x[m].parent \in Q /\ Hangs(x, m)
    <3>1. m \in DOMAIN g
      BY <1>12, <1>18
    <3>2. CASE m \in R
      BY <1>11, <1>12, <1>17, <1>18, <3>1, <3>2
    <3>3. CASE m \notin R
      <4>1. g[m].parent \in DOMAIN g
        BY <1>18, <3>1, <3>3, ParentOf
      <4> QED  BY <1>18, <3>1, <3>3, <4>1
    <3> QED  BY <3>2, <3>3
  <2> QED  BY <2>1, <2>2, <2>3, <2>4 DEF Surgery
<1>20. Forest(x, {top}, lx)
  <2>1. Forest(g, R, lw) /\ Q \subseteq DOMAIN x /\ lx \in [DOMAIN x -> Nat]
    BY <1>3, <1>12, <1>18
  <2>2. lx[top] # 0 /\ ~x[top].leaf
    BY <1>1, <1>3, <1>7, <1>12
  <2>3. \A m \in DOMAIN x : m \in Q =>
          (x[m].leaf <=> lx[m] = 0) /\ (~x[m].leaf => Brood(x, Q, lx, m))
    BY <1>16, <1>18, <2>2
  <2>4. Forest(x, Q, lx)
    BY <1>3, <1>19, <2>1, <2>3, SurgeryKeepsForest
  <2> QED  BY <1>18, <2>4
<1> QED  BY <1>2, <1>13, <1>14, <1>20

LEMMA PutKeepsTree ==
    ASSUME degree \in Int, NEW lv, Tree(heap, root, lv),
           NEW k \in Keys, NEW v \in Values, Put(k, v)
    PROVE  \E lw : Tree(heap', root', lw)
<1>1. PICK r : r = Insert(heap, k, v)
  OBVIOUS
<1>2. Grown(heap, root, lv, root, r)
  BY <1>1, InsertGrows
<1>3. PICK g, q, key : g = r.heap /\ q = r.right /\ key = r.promoted
  OBVIOUS
<1>4. PICK lw :
        /\ \A m \in DOMAIN heap : lw[m] = lv[m]
        /\ q = Null => Forest(g, {root}, lw)
        /\ q # Null =>
            /\ Forest(g, {root, q}, lw)
            /\ q \in DOMAIN g /\ q \notin DOMAIN heap
            /\ lw[q] = lv[root]
            /\ Enough(g, root) /\ Enough(g, q) /\ key \in Keys
  BY <1>2, <1>3 DEF Grown
<1>5. /\ Typed(g) /\ Balance(g, root, {}) /\ DOMAIN heap \subseteq DOMAIN g
      /\ g[root].leaf = heap[root].leaf /\ g[root].parent = heap[root].parent
      /\ ~heap[root].leaf => Len(g[root].keys) >= 1
  BY <1>2, <1>3 DEF Grown
<1>6. root \in DOMAIN heap /\ heap[root].parent = Null
  BY DEF Tree, Forest
<1>7. CASE q = Null
  <2>1. heap' = g /\ root' = root
    BY <1>1, <1>3, <1>7 DEF Put
  <2>2. Tree(g, root, lw)
    BY <1>4, <1>5, <1>6, <1>7 DEF Tree
  <2> QED  BY <2>1, <2>2
<1>8. CASE q # Null
  <2>1. PICK top : top = Fresh(g)
    OBVIOUS
  <2>2. top \in Nat \ {0} /\ top \notin DOMAIN g
    BY <1>5, <2>1, FreshIs DEF Typed
  <2>3. PICK x : x = TopOn(g, root, q, top, key)
    OBVIOUS
  <2>4. heap' = x /\ root' = top
    BY <1>1, <1>3, <1>8, <2>1, <2>3 DEF Put, TopOn
  <2>5. /\ Forest(g, {root, q}, lw) /\ q # root /\ lw[q] = lw[root] /\ key \in Keys
        /\ Enough(g, root) /\ Enough(g, q)
    BY <1>4, <1>6, <1>8
  <2>6. PICK lx : lx = LvWith(lw, top, lw[root] + 1)
    OBVIOUS
  <2>7. Typed(x) /\ Forest(x, {top}, lx) /\ Topped(g, x, root, q, top, key)
    BY <1>5, <2>2, <2>3, <2>5, <2>6, TopAdded, Zenon
  <2>8. Balance(x, top, {})
    <3>1. \A m \in DOMAIN g : Counted(x, m) /\ Few(x, m) /\ Enough(x, m)
      <4>1. \A m \in DOMAIN g : Counted(g, m) /\ Few(g, m) /\ Enough(g, m)
        BY <1>5, <2>5 DEF Balance
      <4>2. \A m \in DOMAIN g : /\ x[m].leaf = g[m].leaf /\ x[m].keys = g[m].keys
                                /\ x[m].items = g[m].items
        BY <2>7 DEF Topped
      <4> QED  BY <4>1, <4>2, Zenon DEF Counted, Few, Enough
    <3>2. x[top].leaf = FALSE /\ Len(x[top].keys) = 1 /\ Len(x[top].items) = 2
      BY <2>7 DEF Topped
    <3>3. 1 <= Degree - 1
      <4>1. Degree \in Nat /\ Degree >= 3
        BY DegreeIs, Zenon
      <4> QED  BY <4>1
    <3>4. Counted(x, top) /\ Few(x, top)
      BY <3>2, <3>3 DEF Counted, Few
    <3>5. DOMAIN x = DOMAIN g \cup {top}
      BY <2>7 DEF Topped
    <3> QED  BY <3>1, <3>4, <3>5 DEF Balance
  <2>9. x[top].parent = Null /\ Len(x[top].keys) >= 1
    <3>1. x[top].parent = Null /\ Len(x[top].keys) = 1
      BY <2>7 DEF Topped
    <3> QED  BY <3>1
  <2>10. Tree(x, top, lx)
    BY <2>7, <2>8, <2>9 DEF Tree
  <2> QED  BY <2>4, <2>10
<1> QED  BY <1>7, <1>8
-----------------------------------------------------------------------------
(* Borrowing from a sibling *)

\* Nodes a, b and p with other keys and items.
ThreeNew(g, a, ka, ia, b, kb, ib, p, kp) ==
    [g EXCEPT ![a].keys = ka, ![a].items = ia, ![b].keys = kb, ![b].items = ib,
              ![p].keys = kp]

LEMMA ThreeNewIs ==
    ASSUME NEW g, Typed(g), NEW a \in DOMAIN g, NEW b \in DOMAIN g, NEW p \in DOMAIN g,
           a # b, a # p, b # p, NEW ka, NEW ia, NEW kb, NEW ib, NEW kp,
           NEW x, x = ThreeNew(g, a, ka, ia, b, kb, ib, p, kp)
    PROVE  /\ DOMAIN x = DOMAIN g
           /\ \A m \in DOMAIN g : /\ DOMAIN x[m] = Fields
                                  /\ x[m].leaf = g[m].leaf /\ x[m].parent = g[m].parent
                                  /\ x[m].next = g[m].next
                                  /\ m \notin {a, b, p} => x[m] = g[m]
           /\ x[a].keys = ka /\ x[a].items = ia /\ x[b].keys = kb /\ x[b].items = ib
           /\ x[p].keys = kp /\ x[p].items = g[p].items
<1>1. \A m \in DOMAIN g : DOMAIN g[m] = Fields
  BY DEF Typed, IsNode
<1>2. PICK y : y = [g EXCEPT ![a].keys = ka, ![a].items = ia]
  BY Zenon
<1>3. PICK z : z = [y EXCEPT ![b].keys = kb, ![b].items = ib]
  BY Zenon
<1>4. x = [z EXCEPT ![p].keys = kp]
  BY <1>2, <1>3 DEF ThreeNew
<1>5. /\ DOMAIN y = DOMAIN g /\ \A m \in DOMAIN g : m # a => y[m] = g[m]
      /\ y[a] = [g[a] EXCEPT !.keys = ka, !.items = ia]
  BY <1>2
<1>6. /\ DOMAIN z = DOMAIN g /\ \A m \in DOMAIN g : m # b => z[m] = y[m]
      /\ z[b] = [y[b] EXCEPT !.keys = kb, !.items = ib]
  BY <1>3, <1>5
<1>7. /\ DOMAIN x = DOMAIN g /\ \A m \in DOMAIN g : m # p => x[m] = z[m]
      /\ x[p] = [z[p] EXCEPT !.keys = kp]
  BY <1>4, <1>6
<1>8. /\ x[a] = [g[a] EXCEPT !.keys = ka, !.items = ia]
      /\ x[b] = [g[b] EXCEPT !.keys = kb, !.items = ib]
      /\ x[p] = [g[p] EXCEPT !.keys = kp]
      /\ \A m \in DOMAIN g : m \notin {a, b, p} => x[m] = g[m]
  BY <1>5, <1>6, <1>7, Zenon
<1>9. /\ DOMAIN x[a] = Fields /\ x[a].leaf = g[a].leaf /\ x[a].parent = g[a].parent
      /\ x[a].next = g[a].next /\ x[a].keys = ka /\ x[a].items = ia
  <2>1. DOMAIN g[a] = Fields
    BY <1>1
  <2> QED  BY <1>8, <2>1 DEF Fields
<1>10. /\ DOMAIN x[b] = Fields /\ x[b].leaf = g[b].leaf /\ x[b].parent = g[b].parent
       /\ x[b].next = g[b].next /\ x[b].keys = kb /\ x[b].items = ib
  <2>1. DOMAIN g[b] = Fields
    BY <1>1
  <2> QED  BY <1>8, <2>1 DEF Fields
<1>11. /\ DOMAIN x[p] = Fields /\ x[p].leaf = g[p].leaf /\ x[p].parent = g[p].parent
       /\ x[p].next = g[p].next /\ x[p].keys = kp /\ x[p].items = g[p].items
  <2>1. DOMAIN g[p] = Fields
    BY <1>1
  <2> QED  BY <1>8, <2>1 DEF Fields
<1> QED  BY <1>1, <1>7, <1>8, <1>9, <1>10, <1>11, ZenonT(40)

\* A child e of a moves to its sibling b.
Handed(g, a, b, e, ia, ib) ==
    /\ ia \in Seq(DOMAIN g) /\ ib \in Seq(DOMAIN g) /\ ia # <<>>
    /\ Holds(g[a].items, e)
    /\ \A x : Holds(ia, x) <=> (Holds(g[a].items, x) /\ x # e)
    /\ \A x : Holds(ib, x) <=> (x = e \/ Holds(g[b].items, x))
    /\ Differ(ia) /\ Differ(ib)

\* What a node has moved to another leaves as it was.
HandedOver(g, x, a, b, p, ka, ia, kb, ib, kp, lw) ==
    /\ DOMAIN x = DOMAIN g
    /\ \A m \in DOMAIN g : /\ x[m].leaf = g[m].leaf
                           /\ m \notin {a, b, p} => x[m].keys = g[m].keys /\ x[m].items = g[m].items
                           /\ m \notin {a, b, p} /\ lw[m] >= lw[b] => x[m] = g[m]
    /\ x[a].keys = ka /\ x[a].items = ia /\ x[b].keys = kb /\ x[b].items = ib
    /\ x[p].keys = kp /\ x[p].items = g[p].items /\ x[p].parent = g[p].parent

MayHand(g, rt, a, ka, ia, b, kb, ib, p, kp, e) ==
    /\ a \in DOMAIN g /\ b \in DOMAIN g /\ p \in DOMAIN g /\ a # rt /\ b # rt /\ a # b
    /\ g[a].parent = p /\ g[b].parent = p
    /\ ka \in Seq(Keys) /\ kb \in Seq(Keys) /\ kp \in Seq(Keys)
    /\ g[b].leaf => ia \in Seq(Values) /\ ib \in Seq(Values)
    /\ ~g[b].leaf => Handed(g, a, b, e, ia, ib)

LEMMA HandedOverIs ==
    ASSUME NEW g, NEW rt, NEW lw, Typed(g), Forest(g, {rt}, lw),
           NEW a, NEW b, NEW p, NEW ka, NEW kb, NEW kp, NEW ia, NEW ib, NEW e,
           MayHand(g, rt, a, ka, ia, b, kb, ib, p, kp, e),
           NEW x, x = Rotated(ThreeNew(g, a, ka, ia, b, kb, ib, p, kp), b, e)
    PROVE  /\ Typed(x) /\ Forest(x, {rt}, lw)
           /\ HandedOver(g, x, a, b, p, ka, ia, kb, ib, kp, lw)
<1>0. /\ a \in DOMAIN g /\ b \in DOMAIN g /\ p \in DOMAIN g /\ a # rt /\ b # rt /\ a # b
      /\ g[a].parent = p /\ g[b].parent = p
      /\ ka \in Seq(Keys) /\ kb \in Seq(Keys) /\ kp \in Seq(Keys)
      /\ g[b].leaf => ia \in Seq(Values) /\ ib \in Seq(Values)
      /\ ~g[b].leaf => Handed(g, a, b, e, ia, ib)
  BY DEF MayHand
<1> USE <1>0
<1>1. /\ lw \in [DOMAIN g -> Nat] /\ ~g[p].leaf /\ p # a /\ p # b
      /\ lw[a] + 1 = lw[p] /\ lw[b] + 1 = lw[p] /\ lw[a] = lw[b]
  <2>1. lw[a] + 1 = lw[p] /\ p # a /\ ~g[p].leaf /\ lw[a] \in Nat /\ lw[p] \in Nat
    BY ParentOf
  <2>2. lw[b] + 1 = lw[p] /\ p # b /\ lw[b] \in Nat
    BY ParentOf
  <2> QED  BY <2>1, <2>2 DEF Forest
<1>2. g[a].leaf = g[b].leaf /\ g[a].leaf \in BOOLEAN
  <2>1. g[a].leaf \in BOOLEAN /\ g[b].leaf \in BOOLEAN
    BY DEF Typed, IsNode
  <2>2. (g[a].leaf <=> lw[a] = 0) /\ (g[b].leaf <=> lw[b] = 0)
    BY DEF Forest
  <2> QED  BY <1>1, <2>1, <2>2
<1>3. PICK y : y = ThreeNew(g, a, ka, ia, b, kb, ib, p, kp)
  OBVIOUS
<1>4. /\ DOMAIN y = DOMAIN g
      /\ \A m \in DOMAIN g : /\ DOMAIN y[m] = Fields
                             /\ y[m].leaf = g[m].leaf /\ y[m].parent = g[m].parent
                             /\ m \notin {a, b, p} => y[m] = g[m]
      /\ y[a].keys = ka /\ y[a].items = ia /\ y[b].keys = kb /\ y[b].items = ib
      /\ y[p].keys = kp /\ y[p].items = g[p].items
  BY <1>1, <1>3, ThreeNewIs
<1>5. \A m \in DOMAIN g : IsNode(y[m])
  <2> SUFFICES ASSUME NEW m \in DOMAIN g PROVE IsNode(y[m])
    OBVIOUS
  <2>1. IsNode(g[m])
    BY DEF Typed
  <2>2. CASE m = a
    BY <1>2, <1>4, <2>1, <2>2 DEF IsNode
  <2>3. CASE m = b
    BY <1>4, <2>1, <2>3 DEF IsNode
  <2>4. CASE m = p
    BY <1>1, <1>4, <2>1, <2>4 DEF IsNode
  <2>5. CASE m \notin {a, b, p}
    BY <1>4, <2>1, <2>5
  <2> QED  BY <2>2, <2>3, <2>4, <2>5
<1>6. CASE g[b].leaf
  <2>1. x = y
    BY <1>3, <1>4, <1>6 DEF Rotated
  <2>2. Typed(x)
    BY <1>4, <1>5, <2>1 DEF Typed
  <2>3. Forest(x, {rt}, lw)
    <3>1. \A m \in DOMAIN g : ~g[m].leaf => m # a /\ m # b
      BY <1>2, <1>6, Zenon
    <3>2. \A m \in DOMAIN g : Keeps(g, x, {rt}, m)
      BY <1>4, <2>1, <3>1, Zenon DEF Keeps
    <3> QED  BY <1>4, <2>1, <3>2, ForestKept, Zenon
  <2>4. HandedOver(g, x, a, b, p, ka, ia, kb, ib, kp, lw)
    BY <1>4, <2>1 DEF HandedOver
  <2> QED  BY <2>2, <2>3, <2>4
<1>7. CASE ~g[b].leaf
  <2>1. x = [y EXCEPT ![e].parent = b]
    BY <1>3, <1>4, <1>7 DEF Rotated
  <2>2. Handed(g, a, b, e, ia, ib) /\ ~g[a].leaf
    BY <1>2, <1>7
  <2>3. PICK i \in 1 .. Len(g[a].items) : g[a].items[i] = e
    BY <2>2 DEF Handed, Holds
  <2>4. /\ e \in DOMAIN g /\ e # rt /\ e # a /\ g[e].parent = a
        /\ lw[e] \in Nat /\ lw[e] + 1 = lw[a]
    BY <2>2, <2>3, KidOf
  <2>5. e # b /\ e # p
    BY <1>1, <2>4
  <2>6. /\ DOMAIN x = DOMAIN g /\ \A m \in DOMAIN g : m # e => x[m] = y[m]
        /\ x[e] = [g[e] EXCEPT !.parent = b]
    BY <1>4, <2>1, <2>4, <2>5, Zenon
  <2>7. /\ DOMAIN x[e] = Fields /\ x[e].leaf = g[e].leaf /\ x[e].keys = g[e].keys
        /\ x[e].items = g[e].items /\ x[e].parent = b
    <3>1. DOMAIN g[e] = Fields
      BY <2>4 DEF Typed, IsNode
    <3> QED  BY <2>6, <3>1 DEF Fields
  <2>8. Typed(x)
    <3>1. IsNode(x[e])
      <4>1. IsNode(g[e])
        BY <2>4 DEF Typed
      <4> QED  BY <2>7, <4>1 DEF IsNode
    <3>2. \A m \in DOMAIN g : IsNode(x[m])
      BY <1>5, <2>6, <3>1, Zenon
    <3> QED  BY <2>6, <3>2, Zenon DEF Typed
  <2>9. \A m \in DOMAIN g : /\ x[m].leaf = g[m].leaf
                            /\ m # e => x[m].parent = g[m].parent
                            /\ m \notin {a, b, p} => x[m].items = g[m].items /\ x[m].keys = g[m].keys
                            /\ m \notin {a, b, p, e} => x[m] = g[m]
    <3> TAKE m \in DOMAIN g
    <3>1. CASE m = e
      BY <2>4, <2>7, <3>1
    <3>2. CASE m # e
      <4>1. x[m] = y[m]
        BY <2>6, <3>2
      <4>2. y[m].leaf = g[m].leaf /\ y[m].parent = g[m].parent /\ (m \notin {a, b, p} => y[m] = g[m])
        BY <1>4
      <4> QED  BY <3>2, <4>1, <4>2
    <3> QED  BY <3>1, <3>2
  <2>10. /\ x[a].keys = ka /\ x[a].items = ia /\ x[b].keys = kb /\ x[b].items = ib
         /\ x[p].keys = kp /\ x[p].items = g[p].items /\ x[p].parent = g[p].parent
    BY <1>4, <2>4, <2>5, <2>6
  <2>11. HandedOver(g, x, a, b, p, ka, ia, kb, ib, kp, lw)
    <3>1. \A m \in DOMAIN g : lw[m] >= lw[b] => m # e
      BY <1>1, <2>4
    <3> QED  BY <2>6, <2>9, <2>10, <3>1 DEF HandedOver
  <2>12. ASSUME NEW m, Holds(g[a].items, m) \/ Holds(g[b].items, m)
         PROVE  /\ m \in DOMAIN g /\ m # rt /\ lw[m] + 1 = lw[a]
                /\ m # a /\ m # b /\ m # p
                /\ g[m].parent \in {a, b}
                /\ Holds(g[a].items, m) => g[m].parent = a
                /\ Holds(g[b].items, m) => g[m].parent = b
    <3>1. CASE Holds(g[a].items, m)
      <4>1. PICK j \in 1 .. Len(g[a].items) : g[a].items[j] = m
        BY <3>1 DEF Holds
      <4>2. m \in DOMAIN g /\ m # rt /\ lw[m] + 1 = lw[a] /\ g[m].parent = a /\ lw[m] \in Nat
        BY <2>2, <4>1, KidOf
      <4>3. ~Holds(g[b].items, m)
        <5> SUFFICES ASSUME Holds(g[b].items, m) PROVE FALSE
          OBVIOUS
        <5>1. PICK q \in 1 .. Len(g[b].items) : g[b].items[q] = m
          BY DEF Holds
        <5>2. g[m].parent = b
          BY <1>7, <5>1, KidOf
        <5> QED  BY <4>2, <5>2
      <4> QED  BY <1>1, <4>2, <4>3
    <3>2. CASE Holds(g[b].items, m) /\ ~Holds(g[a].items, m)
      <4>1. PICK j \in 1 .. Len(g[b].items) : g[b].items[j] = m
        BY <3>2 DEF Holds
      <4>2. m \in DOMAIN g /\ m # rt /\ lw[m] + 1 = lw[b] /\ g[m].parent = b /\ lw[m] \in Nat
        BY <1>7, <4>1, KidOf
      <4> QED  BY <1>1, <3>2, <4>2
    <3> QED  BY <2>12, <3>1, <3>2
  <2>13. \A m : Holds(ia, m) => /\ m \in DOMAIN g /\ m # rt /\ lw[m] + 1 = lw[a] /\ x[m].parent = a
    <3> SUFFICES ASSUME NEW m, Holds(ia, m)
                 PROVE  /\ m \in DOMAIN g /\ m # rt /\ lw[m] + 1 = lw[a] /\ x[m].parent = a
      OBVIOUS
    <3>1. Holds(g[a].items, m) /\ m # e
      BY <2>2 DEF Handed
    <3> QED  BY <2>9, <2>12, <3>1
  <2>14. \A m : Holds(ib, m) => /\ m \in DOMAIN g /\ m # rt /\ lw[m] + 1 = lw[b] /\ x[m].parent = b
    <3> SUFFICES ASSUME NEW m, Holds(ib, m)
                 PROVE  /\ m \in DOMAIN g /\ m # rt /\ lw[m] + 1 = lw[b] /\ x[m].parent = b
      OBVIOUS
    <3>1. CASE m = e
      BY <1>1, <2>4, <2>7, <3>1
    <3>2. CASE m # e
      <4>1. Holds(g[b].items, m)
        BY <2>2, <3>2 DEF Handed
      <4> QED  BY <1>1, <2>9, <2>12, <3>2, <4>1
    <3> QED  BY <3>1, <3>2
  <2>15. Brood(x, {rt}, lw, a)
    <3>1. ia \in Seq(DOMAIN x) /\ ia # <<>> /\ Differ(ia)
      BY <2>2, <2>6 DEF Handed
    <3>2. \A j \in 1 .. Len(ia) : Holds(ia, ia[j])
      BY DEF Holds
    <3> QED  BY <2>10, <2>13, <3>1, <3>2 DEF Brood, Differ
  <2>16. Brood(x, {rt}, lw, b)
    <3>1. ib \in Seq(DOMAIN x) /\ Differ(ib) /\ Holds(ib, e)
      BY <2>2, <2>6 DEF Handed
    <3>2. \A j \in 1 .. Len(ib) : Holds(ib, ib[j])
      BY DEF Holds
    <3>3. ib # <<>>
      BY <3>1 DEF Holds
    <3> QED  BY <2>10, <2>14, <3>1, <3>2, <3>3 DEF Brood, Differ
  <2>17. PICK R, S : R = {rt} /\ S = {a, b}
    BY Zenon
  <2>18. Surgery(g, R, x, R, S)
    <3>1. DOMAIN g \ S = DOMAIN x \ S
      BY <2>6
    <3>2. \A m \in DOMAIN g \ S : x[m].leaf = g[m].leaf /\ (~g[m].leaf => x[m].items = g[m].items)
      BY <2>9, <2>10, <2>17
    <3>3. \A m \in DOMAIN g \ R : g[m].parent \notin S =>
            m \in DOMAIN x /\ m \notin R /\ x[m].parent = g[m].parent
      BY <2>4, <2>6, <2>9, <2>17
    <3>4. ASSUME NEW m \in DOMAIN x \ R
          PROVE  \/ m \in DOMAIN g \ R /\ g[m].parent \notin S
                 \/ x[m].parent \in S /\ Hangs(x, m)
      <4>1. m \in DOMAIN g /\ m # rt
        BY <2>6, <2>17
      <4>2. CASE g[m].parent \notin S
        BY <2>17, <4>1, <4>2
      <4>3. CASE g[m].parent \in S
        <5>1. PICK j \in 1 .. Len(g[g[m].parent].items) : g[g[m].parent].items[j] = m
          BY <4>1, ParentOf
        <5>2. CASE g[m].parent = a /\ m # e
          <6>1. Holds(g[a].items, m)
            BY <5>1, <5>2 DEF Holds
          <6>2. Holds(ia, m)
            BY <2>2, <5>2, <6>1 DEF Handed
          <6>3. x[m].parent = a /\ ~x[a].leaf /\ a \in DOMAIN x
            BY <2>2, <2>6, <2>9, <2>13, <6>2
          <6> QED  BY <2>10, <2>17, <6>2, <6>3 DEF Hangs, Holds
        <5>3. CASE g[m].parent = b \/ m = e
          <6>1. Holds(ib, m)
            <7>1. m # e => Holds(g[b].items, m)
              BY <5>1, <5>3 DEF Holds
            <7> QED  BY <2>2, <7>1 DEF Handed
          <6>2. x[m].parent = b /\ ~x[b].leaf /\ b \in DOMAIN x
            BY <1>7, <2>6, <2>9, <2>14, <6>1
          <6> QED  BY <2>10, <2>17, <6>1, <6>2 DEF Hangs, Holds
        <5> QED  BY <2>17, <4>3, <5>2, <5>3
      <4> QED  BY <4>2, <4>3
    <3> QED  BY <3>1, <3>2, <3>3, <3>4 DEF Surgery
  <2>19. Forest(x, {rt}, lw)
    <3>1. Forest(g, R, lw) /\ R \subseteq DOMAIN x /\ lw \in [DOMAIN x -> Nat]
      BY <1>1, <2>6, <2>17, Zenon DEF Forest
    <3>2. \A m \in S : x[m].leaf = FALSE /\ lw[m] # 0 /\ Brood(x, R, lw, m)
      <4>1. lw[a] # 0 /\ lw[b] # 0 /\ x[a].leaf = FALSE /\ x[b].leaf = FALSE
        <5>1. lw[a] # 0 /\ lw[b] # 0
          BY <1>7, <2>2, Zenon DEF Forest
        <5>2. x[a].leaf = g[a].leaf /\ x[b].leaf = g[b].leaf
          BY <2>9
        <5> QED  BY <1>2, <1>7, <2>2, <5>1, <5>2
      <4> QED  BY <2>15, <2>16, <2>17, <4>1
    <3>3. \A m \in DOMAIN x : m \in S =>
            (x[m].leaf <=> lw[m] = 0) /\ (~x[m].leaf => Brood(x, R, lw, m))
      BY <3>2
    <3>4. Forest(x, R, lw)
      BY <2>18, <3>1, <3>3, SurgeryKeepsForest, Zenon
    <3> QED  BY <2>17, <3>4
  <2> QED  BY <2>8, <2>11, <2>19
<1> QED  BY <1>6, <1>7
-----------------------------------------------------------------------------
(* Delete *)

LEMMA MinKeysIs ==
    ASSUME degree \in Int, NEW leaf \in BOOLEAN
    PROVE  \E b \in Nat \ {0}, d \in Nat :
              /\ b = MinKeys(leaf) /\ d = Degree - 1 /\ b <= d
              /\ leaf => b + b - 1 <= d
              /\ ~leaf => b + b <= d
<1>1. PICK half \in Nat \ {0}, n \in Nat :
        /\ n = Degree /\ n >= 3 /\ (n = 2 * half \/ n = 2 * half + 1)
        /\ MinKeys(TRUE) = half /\ MinKeys(FALSE) = n - half - 1
        /\ n - half - 1 >= 1
  BY DegreeIs, Zenon
<1>2. PICK d \in Nat : d = n - 1 /\ d = Degree - 1
  BY <1>1
<1>3. CASE leaf
  <2>1. half = MinKeys(leaf)
    BY <1>1, <1>3, Zenon
  <2>2. half <= d /\ half + half - 1 <= d
    BY <1>1, <1>2
  <2> QED  BY <1>2, <1>3, <2>1, <2>2, Zenon
<1>4. CASE ~leaf
  <2>1. PICK b \in Nat \ {0} : b = n - half - 1
    BY <1>1
  <2>2. b = MinKeys(leaf)
    BY <1>1, <1>4, <2>1, Zenon
  <2>3. b <= d /\ b + b <= d
    BY <1>1, <1>2, <2>1
  <2> QED  BY <1>2, <1>4, <2>2, <2>3
<1> QED  BY <1>3, <1>4

\* The same but for the next leaf.
Same(x, y) == x.leaf = y.leaf /\ x.keys = y.keys /\ x.items = y.items /\ x.parent = y.parent

\* In the middle of Delete: g is a tree of nodes of the tree h, on the levels that
\* they had; node x may miss a key; the other nodes not below it are unchanged.
Cut(h, g, rt, lv, x) ==
    /\ Typed(g) /\ DOMAIN g \subseteq DOMAIN h /\ x \in DOMAIN g
    /\ \E lw : (\A m \in DOMAIN g : lw[m] = lv[m]) /\ Forest(g, {rt}, lw)
    /\ Balance(g, rt, {x}) /\ Counted(g, x) /\ Few(g, x)
    /\ x # rt => Len(g[x].keys) + 1 >= MinKeys(g[x].leaf)
    /\ g[x].leaf = h[x].leaf /\ g[x].parent = h[x].parent
    /\ \A m \in DOMAIN h : m # x /\ lv[m] >= lv[x] => m \in DOMAIN g /\ Same(g[m], h[m])

\* The parent p of node c that misses a key.
CutBelow(h, g, rt, lv, c, p) ==
    /\ p = g[c].parent /\ p = h[c].parent /\ p \in DOMAIN h /\ p \in DOMAIN g
    /\ p # c /\ p # Null
    /\ Same(g[p], h[p]) /\ g[p].leaf = FALSE /\ lv[c] + 1 = lv[p]
    /\ lv[c] \in Nat /\ lv[p] \in Nat
    /\ Counted(g, p) /\ Few(g, p) /\ (p # rt => Enough(g, p))
    /\ Len(g[p].keys) >= 1 /\ Len(g[p].keys) \in Nat
    /\ Len(g[p].items) = Len(g[p].keys) + 1
    /\ g[p].keys \in Seq(Keys) /\ g[p].items \in Seq(DOMAIN g)

LEMMA CutParent ==
    ASSUME degree \in Int, NEW h, NEW rt, NEW lv, Tree(h, rt, lv),
           NEW g, NEW c, Cut(h, g, rt, lv, c), c # rt
    PROVE  CutBelow(h, g, rt, lv, c, g[c].parent)
<1>1. PICK p : p = g[c].parent
  OBVIOUS
<1>2. c \in DOMAIN g /\ c \in DOMAIN h /\ p = h[c].parent
  BY <1>1 DEF Cut
<1>3. Forest(h, {rt}, lv) /\ Typed(h)
  BY DEF Tree
<1>4. p \in DOMAIN h /\ ~h[p].leaf /\ p # c /\ lv[c] + 1 = lv[p] /\ lv[c] \in Nat /\ lv[p] \in Nat
  BY <1>2, <1>3, ParentOf
<1>5. p \in DOMAIN g /\ Same(g[p], h[p])
  <2>1. lv[p] >= lv[c]
    BY <1>4
  <2> QED  BY <1>4, <2>1 DEF Cut
<1>6. p # Null
  BY <1>3, <1>4 DEF Typed, Null
<1>7. g[p].leaf = FALSE /\ g[p].keys \in Seq(Keys) /\ Len(g[p].keys) \in Nat
  <2>1. IsNode(g[p])
    BY <1>5 DEF Cut, Typed
  <2> QED  BY <1>4, <1>5, <2>1 DEF IsNode, Same
<1>8. Counted(g, p) /\ Few(g, p) /\ (p # rt => Enough(g, p))
  BY <1>4, <1>5 DEF Cut, Balance
<1>9. Len(g[p].items) = Len(g[p].keys) + 1
  BY <1>7, <1>8 DEF Counted
<1>10. Len(g[p].keys) >= 1
  <2>1. CASE p = rt
    BY <1>5, <1>7, <2>1 DEF Tree, Same
  <2>2. CASE p # rt
    <3>1. PICK b \in Nat \ {0} : b = MinKeys(FALSE)
      BY MinKeysIs, Zenon
    <3>2. Len(g[p].keys) >= b
      BY <1>7, <1>8, <2>2, <3>1, Zenon DEF Enough
    <3>3. PICK n \in Nat : n = Len(g[p].keys)
      BY <1>7
    <3>4. n >= 1
      BY <3>2, <3>3
    <3> QED  BY <3>3, <3>4
  <2> QED  BY <2>1, <2>2
<1>11. g[p].items \in Seq(DOMAIN g)
  <2>1. PICK lw : Forest(g, {rt}, lw)
    BY DEF Cut
  <2> QED  BY <1>5, <1>7, <2>1, BroodIs
<1> QED  BY <1>1, <1>2, <1>4, <1>5, <1>6, <1>7, <1>8, <1>9, <1>10, <1>11 DEF CutBelow

\* Node c that misses a key gets one of its sibling a.
MayBorrow(g, rt, a, ka, ia, c, kc, ic, p, kp, e) ==
    /\ MayHand(g, rt, a, ka, ia, c, kc, ic, p, kp, e)
    /\ Underflows(g, c) /\ Len(g[a].keys) > MinKeys(g[c].leaf)
    /\ Len(ka) = Len(g[a].keys) - 1 /\ Len(ia) = Len(g[a].items) - 1
    /\ Len(kc) = Len(g[c].keys) + 1 /\ Len(ic) = Len(g[c].items) + 1
    /\ Len(kp) = Len(g[p].keys)

LEMMA BorrowedCut ==
    ASSUME degree \in Int, NEW h, NEW rt, NEW lv, Tree(h, rt, lv),
           NEW g, NEW c, Cut(h, g, rt, lv, c),
           NEW p, NEW a, NEW ka, NEW kc, NEW kp, NEW ia, NEW ic, NEW e,
           MayBorrow(g, rt, a, ka, ia, c, kc, ic, p, kp, e),
           NEW x, x = Rotated(ThreeNew(g, a, ka, ia, c, kc, ic, p, kp), c, e)
    PROVE  Cut(h, x, rt, lv, p)
<1>0. /\ a \in DOMAIN g /\ c \in DOMAIN g /\ p \in DOMAIN g /\ a # rt /\ c # rt /\ a # c
      /\ g[a].parent = p /\ p = g[c].parent
      /\ Underflows(g, c) /\ Len(g[a].keys) > MinKeys(g[c].leaf)
      /\ Len(ka) = Len(g[a].keys) - 1 /\ Len(ia) = Len(g[a].items) - 1
      /\ Len(kc) = Len(g[c].keys) + 1 /\ Len(ic) = Len(g[c].items) + 1
      /\ Len(kp) = Len(g[p].keys)
      /\ MayHand(g, rt, a, ka, ia, c, kc, ic, p, kp, e)
  BY DEF MayBorrow, MayHand
<1> USE <1>0
<1>1. /\ p = h[c].parent /\ p \in DOMAIN h /\ p \in DOMAIN g /\ p # c /\ Same(g[p], h[p])
      /\ g[p].leaf = FALSE /\ lv[c] + 1 = lv[p] /\ lv[c] \in Nat /\ lv[p] \in Nat
      /\ Counted(g, p) /\ Few(g, p) /\ (p # rt => Enough(g, p))
      /\ Len(g[p].keys) \in Nat
  <2>1. CutBelow(h, g, rt, lv, c, p)
    BY CutParent
  <2> QED  BY <2>1 DEF CutBelow
<1>2. /\ Typed(g) /\ DOMAIN g \subseteq DOMAIN h /\ c \in DOMAIN g
      /\ Balance(g, rt, {c}) /\ Counted(g, c) /\ Few(g, c)
      /\ Len(g[c].keys) + 1 >= MinKeys(g[c].leaf)
      /\ \A m \in DOMAIN h : m # c /\ lv[m] >= lv[c] => m \in DOMAIN g /\ Same(g[m], h[m])
  BY DEF Cut
<1>3. PICK lw : (\A m \in DOMAIN g : lw[m] = lv[m]) /\ Forest(g, {rt}, lw)
  BY DEF Cut
<1>4. /\ Typed(x) /\ Forest(x, {rt}, lw)
      /\ HandedOver(g, x, a, c, p, ka, ia, kc, ic, kp, lw)
  <2> HIDE <1>1, <1>2
  <2>1. Typed(g) /\ c \in DOMAIN g /\ p \in DOMAIN g
    BY <1>1, <1>2
  <2> QED  BY <1>3, <2>1, HandedOverIs, Zenon
<1>5. a # p /\ lv[a] = lv[c] /\ g[a].leaf = g[c].leaf /\ g[c].leaf \in BOOLEAN
  <2>1. lw[a] + 1 = lw[p] /\ a # p /\ lw[a] \in Nat
    BY <1>3, ParentOf
  <2>2. lw[a] = lw[c]
    BY <1>1, <1>2, <1>3, <2>1
  <2>3. (g[a].leaf <=> lw[a] = 0) /\ (g[c].leaf <=> lw[c] = 0)
    BY <1>2, <1>3 DEF Forest
  <2>4. g[a].leaf \in BOOLEAN /\ g[c].leaf \in BOOLEAN
    BY <1>2 DEF Typed, IsNode
  <2> QED  BY <1>2, <1>3, <2>1, <2>2, <2>3, <2>4, Zenon
<1>6. /\ DOMAIN x = DOMAIN g
      /\ \A m \in DOMAIN g : /\ x[m].leaf = g[m].leaf
                             /\ m \notin {a, c, p} => x[m].keys = g[m].keys /\ x[m].items = g[m].items
                             /\ m \notin {a, c, p} /\ lw[m] >= lw[c] => x[m] = g[m]
      /\ x[a].keys = ka /\ x[a].items = ia /\ x[c].keys = kc /\ x[c].items = ic
      /\ x[p].keys = kp /\ x[p].items = g[p].items /\ x[p].parent = g[p].parent
  BY <1>4 DEF HandedOver
<1>7. PICK b \in Nat \ {0}, d \in Nat : b = MinKeys(g[c].leaf) /\ d = Degree - 1 /\ b <= d
  BY <1>5, MinKeysIs, Zenon
<1>8. PICK u \in Nat, w \in Nat : u = Len(g[a].keys) /\ w = Len(g[c].keys)
  <2>1. g[a].keys \in Seq(Keys) /\ g[c].keys \in Seq(Keys)
    BY <1>2 DEF Typed, IsNode
  <2>2. Len(g[a].keys) \in Nat /\ Len(g[c].keys) \in Nat
    BY <2>1
  <2> QED  BY <2>2, Zenon
<1>9. Counted(x, a) /\ Few(x, a) /\ Enough(x, a)
  <2>1. Counted(g, a) /\ u <= d
    BY <1>2, <1>7, <1>8 DEF Balance, Few
  <2>2. x[a].leaf = g[a].leaf /\ Len(x[a].keys) = u - 1 /\ Len(x[a].items) = Len(g[a].items) - 1
    BY <1>6, <1>8, Zenon
  <2>3. u > b /\ MinKeys(x[a].leaf) = b
    BY <1>5, <1>7, <1>8, <2>2
  <2>4. Counted(x, a)
    BY <1>8, <2>1, <2>2, SMTT(20) DEF Counted
  <2>5. u - 1 <= d /\ u - 1 >= b
    BY <2>1, <2>3
  <2> QED  BY <1>7, <2>2, <2>3, <2>4, <2>5 DEF Few, Enough
<1>10. Counted(x, c) /\ Few(x, c) /\ Enough(x, c)
  <2>1. w < b /\ w + 1 >= b
    BY <1>2, <1>7, <1>8 DEF Underflows
  <2>2. /\ x[c].leaf = g[c].leaf /\ Len(x[c].keys) = w + 1
        /\ Len(x[c].items) = Len(g[c].items) + 1
    BY <1>2, <1>6, <1>8, Zenon
  <2>3. Counted(x, c)
    BY <1>2, <1>8, <2>2, Zenon DEF Counted
  <2>4. w + 1 <= d /\ w + 1 >= b
    BY <1>7, <2>1
  <2> QED  BY <1>7, <2>2, <2>3, <2>4 DEF Few, Enough
<1>11. Counted(x, p) /\ Few(x, p) /\ (p # rt => Enough(x, p))
  <2>1. x[p].leaf = g[p].leaf /\ Len(x[p].keys) = Len(g[p].keys) /\ x[p].items = g[p].items
    BY <1>1, <1>6, Zenon
  <2> QED  BY <1>1, <2>1, Zenon DEF Counted, Few, Enough
<1>12. Balance(x, rt, {p})
  <2> SUFFICES ASSUME NEW m \in DOMAIN g, m # p
               PROVE  Counted(x, m) /\ Few(x, m) /\ (m # rt => Enough(x, m))
    BY <1>6 DEF Balance
  <2>1. CASE m \in {a, c}
    BY <1>9, <1>10, <2>1
  <2>2. CASE m \notin {a, c, p}
    <3>1. x[m].leaf = g[m].leaf /\ x[m].keys = g[m].keys /\ x[m].items = g[m].items
      BY <1>6, <2>2
    <3>2. Counted(g, m) /\ Few(g, m) /\ (m # rt => Enough(g, m))
      BY <1>2, <2>2 DEF Balance
    <3> QED  BY <3>1, <3>2, Zenon DEF Counted, Few, Enough
  <2> QED  BY <2>1, <2>2
<1>13. p # rt => Len(x[p].keys) + 1 >= MinKeys(x[p].leaf)
  <2>1. PICK z \in Nat : z = Len(x[p].keys)
    BY <1>1, <1>6
  <2>2. PICK y \in Nat : y = MinKeys(x[p].leaf)
    <3>1. x[p].leaf \in BOOLEAN
      BY <1>1, <1>6, Zenon
    <3> QED  BY <3>1, MinKeysIs
  <2>3. p # rt => z >= y
    BY <1>11, <2>1, <2>2 DEF Enough
  <2> QED  BY <2>1, <2>2, <2>3
<1>14. \A m \in DOMAIN h : m # p /\ lv[m] >= lv[p] => m \in DOMAIN x /\ Same(x[m], h[m])
  <2> SUFFICES ASSUME NEW m \in DOMAIN h, m # p, lv[m] >= lv[p]
               PROVE  m \in DOMAIN x /\ Same(x[m], h[m])
    OBVIOUS
  <2>1. lv[m] \in Nat
    BY DEF Tree, Forest
  <2>2. m \notin {a, c, p} /\ lv[m] >= lv[c]
    BY <1>1, <1>5, <2>1, SMTT(20)
  <2>3. m \in DOMAIN g /\ Same(g[m], h[m])
    BY <1>2, <2>2
  <2>4. lw[m] >= lw[c]
    BY <1>2, <1>3, <2>2, <2>3
  <2> QED  BY <1>6, <2>2, <2>3, <2>4
<1>15. p \in DOMAIN x /\ x[p].leaf = h[p].leaf /\ x[p].parent = h[p].parent
  BY <1>1, <1>6, Zenon DEF Same
<1>16. DOMAIN x \subseteq DOMAIN h /\ \A m \in DOMAIN x : lw[m] = lv[m]
  BY <1>2, <1>3, <1>6
<1> QED  BY <1>4, <1>11, <1>12, <1>13, <1>14, <1>15, <1>16 DEF Cut

\* The sibling next to node c.
Beside(g, c, p, i, a, j) ==
    /\ p = g[c].parent /\ i \in 1 .. Len(g[p].items) /\ g[p].items[i] = c
    /\ j \in 1 .. Len(g[p].items) /\ a = g[p].items[j] /\ j # i

Siblings(g, rt, lw, c, p, a) ==
    /\ a \in DOMAIN g /\ p \in DOMAIN g /\ a # rt /\ a # c /\ g[a].parent = p
    /\ a # p /\ c # p /\ ~g[p].leaf /\ lw[a] = lw[c]
    /\ g[a].leaf = g[c].leaf /\ g[a].leaf \in BOOLEAN
    /\ g[a].leaf => g[a].items \in Seq(Values) /\ g[c].items \in Seq(Values)
    /\ ~g[a].leaf => /\ g[a].items \in Seq(DOMAIN g) /\ g[c].items \in Seq(DOMAIN g)
                     /\ Differ(g[a].items) /\ Differ(g[c].items)
                     /\ \A e : ~(Holds(g[a].items, e) /\ Holds(g[c].items, e))

LEMMA BesideIs ==
    ASSUME NEW g, NEW rt, NEW lw, Typed(g), Forest(g, {rt}, lw), NEW c \in DOMAIN g, c # rt,
           NEW p, NEW i, NEW a, NEW j, Beside(g, c, p, i, a, j)
    PROVE  Siblings(g, rt, lw, c, p, a)
<1>1. /\ p = g[c].parent /\ i \in 1 .. Len(g[p].items) /\ g[p].items[i] = c
      /\ j \in 1 .. Len(g[p].items) /\ a = g[p].items[j] /\ j # i
  BY DEF Beside
<1>2. p \in DOMAIN g /\ ~g[p].leaf /\ c # p /\ lw[c] + 1 = lw[p] /\ lw[c] \in Nat
  BY <1>1, ParentOf
<1>3. /\ a \in DOMAIN g /\ a # rt /\ a # p /\ g[a].parent = p /\ lw[a] \in Nat
      /\ lw[a] + 1 = lw[p]
  BY <1>1, <1>2, KidOf, SMTT(20)
<1>4. a # c
  <2>1. \A x, y \in 1 .. Len(g[p].items) : g[p].items[x] = g[p].items[y] => x = y
    BY <1>2, BroodIs
  <2> QED  BY <1>1, <2>1
<1>5. lw[a] = lw[c] /\ g[a].leaf = g[c].leaf /\ g[a].leaf \in BOOLEAN
  <2>1. g[a].leaf \in BOOLEAN /\ g[c].leaf \in BOOLEAN
    BY <1>3 DEF Typed, IsNode
  <2>2. (g[a].leaf <=> lw[a] = 0) /\ (g[c].leaf <=> lw[c] = 0)
    BY <1>3 DEF Forest
  <2>3. lw[a] = lw[c]
    BY <1>2, <1>3
  <2> QED  BY <2>1, <2>2, <2>3
<1>6. g[a].leaf => g[a].items \in Seq(Values) /\ g[c].items \in Seq(Values)
  BY <1>3, <1>5, Zenon DEF Typed, IsNode
<1>7. ASSUME ~g[a].leaf
      PROVE  /\ g[a].items \in Seq(DOMAIN g) /\ g[c].items \in Seq(DOMAIN g)
             /\ Differ(g[a].items) /\ Differ(g[c].items)
             /\ \A e : ~(Holds(g[a].items, e) /\ Holds(g[c].items, e))
  <2>1. \A m \in {a, c} :
          /\ g[m].items \in Seq(DOMAIN g)
          /\ \A x, y \in 1 .. Len(g[m].items) : g[m].items[x] = g[m].items[y] => x = y
    BY <1>3, <1>5, <1>7, BroodIs, Zenon
  <2>2. ASSUME NEW e, Holds(g[a].items, e), Holds(g[c].items, e) PROVE FALSE
    <3>1. PICK x \in 1 .. Len(g[a].items) : g[a].items[x] = e
      BY <2>2 DEF Holds
    <3>2. PICK y \in 1 .. Len(g[c].items) : g[c].items[y] = e
      BY <2>2 DEF Holds
    <3>3. g[e].parent = a
      BY <1>3, <1>7, <3>1, KidOf
    <3>4. g[e].parent = c
      BY <1>5, <1>7, <3>2, KidOf
    <3> QED  BY <1>4, <3>3, <3>4
  <2> QED  BY <2>1, <2>2 DEF Differ
<1> QED  BY <1>1, <1>2, <1>3, <1>4, <1>5, <1>6, <1>7 DEF Siblings

\* The sibling l on the left of c, child i of p, has lent its last entry.
LeftLent(g, x, rt, l, c, p, i) ==
    \E key, item, s, ka, ia, kc, ic, kp :
        /\ key = Last(g[l].keys) /\ item = Last(g[l].items)
        /\ s = IF g[c].leaf THEN key ELSE g[p].keys[i - 1]
        /\ ka = Front(g[l].keys) /\ ia = Front(g[l].items)
        /\ kc = Cons(s, g[c].keys) /\ ic = Cons(item, g[c].items)
        /\ kp = Replaced(g[p].keys, i - 1, key) /\ key \in Keys /\ s \in Keys
        /\ Len(g[l].keys) # 0 /\ Len(g[l].items) # 0
        /\ MayHand(g, rt, l, ka, ia, c, kc, ic, p, kp, item)
        /\ x = Rotated(ThreeNew(g, l, ka, ia, c, kc, ic, p, kp), c, item)

LEMMA LeftLends ==
    ASSUME degree \in Int, NEW h, NEW rt, NEW lv, Tree(h, rt, lv),
           NEW g, NEW c, Cut(h, g, rt, lv, c), c # rt, Underflows(g, c),
           NEW p, NEW i, NEW l, Beside(g, c, p, i, l, i - 1),
           Len(g[l].keys) > MinKeys(g[c].leaf)
    PROVE  LET x == BorrowFromLeft(g, c, i)
           IN  Cut(h, x, rt, lv, p) /\ LeftLent(g, x, rt, l, c, p, i)
<1>1. PICK lw : Forest(g, {rt}, lw) /\ Typed(g) /\ c \in DOMAIN g
  BY DEF Cut
<1>2. /\ p = g[c].parent /\ i \in 1 .. Len(g[p].items) /\ g[p].items[i] = c
      /\ i - 1 \in 1 .. Len(g[p].items) /\ l = g[p].items[i - 1]
  BY DEF Beside
<1>3. /\ l \in DOMAIN g /\ p \in DOMAIN g /\ l # rt /\ l # c /\ g[l].parent = p
      /\ l # p /\ c # p /\ g[l].leaf = g[c].leaf /\ g[l].leaf \in BOOLEAN
      /\ g[l].leaf => g[l].items \in Seq(Values) /\ g[c].items \in Seq(Values)
      /\ ~g[l].leaf => /\ g[l].items \in Seq(DOMAIN g) /\ g[c].items \in Seq(DOMAIN g)
                       /\ Differ(g[l].items) /\ Differ(g[c].items)
                       /\ \A e : ~(Holds(g[l].items, e) /\ Holds(g[c].items, e))
  <2>1. Siblings(g, rt, lw, c, p, l)
    BY <1>1, BesideIs
  <2> QED  BY <2>1 DEF Siblings
<1>4. Counted(g, l)
  BY <1>3 DEF Cut, Balance
<1>5. /\ g[l].keys \in Seq(Keys) /\ g[c].keys \in Seq(Keys) /\ g[p].keys \in Seq(Keys)
  BY <1>1, <1>3 DEF Typed, IsNode
<1>6. Len(g[l].keys) # 0 /\ Len(g[l].items) # 0
  <2>1. PICK b \in Nat \ {0}, n \in Nat : b = MinKeys(g[c].leaf) /\ n = Len(g[l].keys)
    <3>1. Len(g[l].keys) \in Nat
      BY <1>5
    <3> QED  BY <1>3, <3>1, MinKeysIs
  <2>2. n # 0 /\ n + 1 # 0
    BY <2>1
  <2> QED  BY <1>4, <2>1, <2>2 DEF Counted
<1>7. PICK key, item : key = Last(g[l].keys) /\ item = Last(g[l].items)
  OBVIOUS
<1>8. PICK ka : ka = Front(g[l].keys) /\ ka \in Seq(Keys) /\ Len(ka) = Len(g[l].keys) - 1
  BY <1>5, <1>6, FrontElements, Zenon
<1>9. key \in Keys
  BY <1>5, <1>6, <1>7, FrontElements
<1>10. PICK s, kc : s = (IF g[c].leaf THEN key ELSE g[p].keys[i - 1]) /\ kc = Cons(s, g[c].keys)
  OBVIOUS
<1>11. s \in Keys
  <2>1. CASE g[c].leaf
    BY <1>9, <1>10, <2>1
  <2>2. CASE ~g[c].leaf
    <3>1. Len(g[p].items) = Len(g[p].keys) + 1 /\ Len(g[p].keys) \in Nat
      <4>1. CutBelow(h, g, rt, lv, c, p)
        BY <1>2, CutParent
      <4> QED  BY <4>1 DEF CutBelow
    <3>2. i - 1 \in 1 .. Len(g[p].keys)
      BY <1>2, <3>1
    <3>3. g[p].keys[i - 1] \in Keys
      BY <1>5, <3>2
    <3> QED  BY <1>10, <2>2, <3>3
  <2> QED  BY <2>1, <2>2
<1>12. kc \in Seq(Keys) /\ Len(kc) = Len(g[c].keys) + 1
  BY <1>5, <1>10, <1>11, ConsElements, Zenon
<1>13. PICK kp : /\ kp = [g[p].keys EXCEPT ![i - 1] = key] /\ kp \in Seq(Keys)
                 /\ Len(kp) = Len(g[p].keys)
  <2>1. PICK ks, j, kp : ks = g[p].keys /\ j = i - 1 /\ kp = Replaced(ks, j, key)
    OBVIOUS
  <2>2. ks \in Seq(Keys)
    BY <1>5, <2>1
  <2>3. kp \in Seq(Keys) /\ Len(kp) = Len(ks)
    BY <1>9, <2>1, <2>2, ReplacedProperties
  <2> QED  BY <2>1, <2>3, Zenon DEF Replaced
<1>14. PICK ia, ic : ia = Front(g[l].items) /\ ic = Cons(item, g[c].items)
  OBVIOUS
<1>15. /\ Len(ia) = Len(g[l].items) - 1 /\ Len(ic) = Len(g[c].items) + 1
       /\ g[c].leaf => ia \in Seq(Values) /\ ic \in Seq(Values)
       /\ ~g[c].leaf => Handed(g, l, c, item, ia, ic)
  <2>1. CASE g[c].leaf
    <3>1. g[l].items \in Seq(Values) /\ g[c].items \in Seq(Values)
      BY <1>3, <2>1
    <3>2. ia \in Seq(Values) /\ Len(ia) = Len(g[l].items) - 1 /\ item \in Values
      BY <1>6, <1>7, <1>14, <3>1, FrontElements, Zenon
    <3>3. ic \in Seq(Values) /\ Len(ic) = Len(g[c].items) + 1
      BY <1>14, <3>1, <3>2, ConsElements, Zenon
    <3> QED  BY <2>1, <3>2, <3>3
  <2>2. CASE ~g[c].leaf
    <3>1. /\ g[l].items \in Seq(DOMAIN g) /\ g[c].items \in Seq(DOMAIN g)
          /\ Differ(g[l].items) /\ Differ(g[c].items)
          /\ \A e : ~(Holds(g[l].items, e) /\ Holds(g[c].items, e))
      BY <1>3, <2>2
    <3>2. /\ ia \in Seq(DOMAIN g) /\ Len(ia) = Len(g[l].items) - 1 /\ item \in DOMAIN g
          /\ Holds(g[l].items, item) /\ Loses(g[l].items, ia, item)
      BY <1>6, <1>7, <1>14, <3>1, FrontElements
    <3>3. ~Holds(g[c].items, item)
      BY <3>1, <3>2
    <3>4. /\ ic \in Seq(DOMAIN g) /\ Len(ic) = Len(g[c].items) + 1
          /\ Gains(g[c].items, ic, item)
      BY <1>14, <3>1, <3>2, <3>3, ConsElements, Zenon
    <3>5. ia # <<>>
      <4>1. PICK b \in Nat \ {0}, n \in Nat, y \in Nat :
                b = MinKeys(g[c].leaf) /\ n = Len(g[l].keys) /\ y = Len(g[l].items)
        <5>1. Len(g[l].keys) \in Nat /\ Len(g[l].items) \in Nat
          BY <1>5, <3>1
        <5> QED  BY <1>3, <5>1, MinKeysIs
      <4>2. n > b /\ y = n + 1
        BY <1>3, <1>4, <2>2, <4>1 DEF Counted
      <4>3. Len(ia) # 0
        BY <3>2, <4>1, <4>2
      <4> QED  BY <4>3
    <3>6. Handed(g, l, c, item, ia, ic)
      BY <3>2, <3>4, <3>5 DEF Handed, Gains, Loses
    <3> QED  BY <2>2, <3>2, <3>4, <3>6
  <2> QED  BY <2>1, <2>2
<1>16. PICK x : x = Rotated(ThreeNew(g, l, ka, ia, c, kc, ic, p, kp), c, item)
  OBVIOUS
<1>17. BorrowFromLeft(g, c, i) = x
  <2>1. BorrowFromLeft(g, c, i) =
          Rotated([g EXCEPT ![l].keys  = ka,
                            ![l].items = ia,
                            ![c].keys  = kc,
                            ![c].items = ic,
                            ![p].keys = kp], c, item)
    BY <1>1, <1>2, <1>3, <1>7, <1>8, <1>10, <1>13, <1>14, Zenon DEF BorrowFromLeft
  <2> QED  BY <1>16, <2>1 DEF ThreeNew
<1>18. MayHand(g, rt, l, ka, ia, c, kc, ic, p, kp, item)
  BY <1>1, <1>2, <1>3, <1>8, <1>12, <1>13, <1>15 DEF MayHand
<1>19. MayBorrow(g, rt, l, ka, ia, c, kc, ic, p, kp, item)
  BY <1>8, <1>12, <1>13, <1>15, <1>18 DEF MayBorrow
<1>20. Cut(h, x, rt, lv, p)
  BY <1>16, <1>19, BorrowedCut
<1>22. LeftLent(g, x, rt, l, c, p, i)
  <2>1. kp = Replaced(g[p].keys, i - 1, key)
    BY <1>13 DEF Replaced
  <2> QED  BY <1>6, <1>7, <1>8, <1>9, <1>10, <1>11, <1>14, <1>16, <1>18, <2>1, Zenon DEF LeftLent
<1> QED  BY <1>17, <1>20, <1>22, Zenon

LEMMA BorrowFromLeftCuts ==
    ASSUME degree \in Int, NEW h, NEW rt, NEW lv, Tree(h, rt, lv),
           NEW g, NEW c, Cut(h, g, rt, lv, c), c # rt, Underflows(g, c),
           NEW p, NEW i, NEW l, Beside(g, c, p, i, l, i - 1),
           Len(g[l].keys) > MinKeys(g[c].leaf)
    PROVE  Cut(h, BorrowFromLeft(g, c, i), rt, lv, p)
BY LeftLends, Zenon

\* The sibling r on the right of c has lent its first entry.
RightLent(g, x, rt, r, c, p, i) ==
    \E key, item, s, sep, ka, ia, kc, ic, kp :
        /\ key = Head(g[r].keys) /\ item = Head(g[r].items)
        /\ s = IF g[c].leaf THEN key ELSE g[p].keys[i]
        /\ sep = IF g[c].leaf THEN g[r].keys[2] ELSE key
        /\ ka = Tail(g[r].keys) /\ ia = Tail(g[r].items)
        /\ kc = Append(g[c].keys, s) /\ ic = Append(g[c].items, item)
        /\ kp = Replaced(g[p].keys, i, sep) /\ key \in Keys /\ s \in Keys /\ sep \in Keys
        /\ Len(g[r].keys) # 0 /\ Len(g[r].items) # 0 /\ 2 \in 1 .. Len(g[r].keys)
        /\ MayHand(g, rt, r, ka, ia, c, kc, ic, p, kp, item)
        /\ x = Rotated(ThreeNew(g, r, ka, ia, c, kc, ic, p, kp), c, item)

LEMMA RightLends ==
    ASSUME degree \in Int, NEW h, NEW rt, NEW lv, Tree(h, rt, lv),
           NEW g, NEW c, Cut(h, g, rt, lv, c), c # rt, Underflows(g, c),
           NEW p, NEW i, NEW r, Beside(g, c, p, i, r, i + 1),
           Len(g[r].keys) > MinKeys(g[c].leaf)
    PROVE  LET x == BorrowFromRight(g, c, i)
           IN  Cut(h, x, rt, lv, p) /\ RightLent(g, x, rt, r, c, p, i)
<1>1. PICK lw : Forest(g, {rt}, lw) /\ Typed(g) /\ c \in DOMAIN g
  BY DEF Cut
<1>2. /\ p = g[c].parent /\ i \in 1 .. Len(g[p].items) /\ g[p].items[i] = c
      /\ i + 1 \in 1 .. Len(g[p].items) /\ r = g[p].items[i + 1]
  BY DEF Beside
<1>3. /\ r \in DOMAIN g /\ p \in DOMAIN g /\ r # rt /\ r # c /\ g[r].parent = p
      /\ r # p /\ c # p /\ g[r].leaf = g[c].leaf /\ g[r].leaf \in BOOLEAN
      /\ g[r].leaf => g[r].items \in Seq(Values) /\ g[c].items \in Seq(Values)
      /\ ~g[r].leaf => /\ g[r].items \in Seq(DOMAIN g) /\ g[c].items \in Seq(DOMAIN g)
                       /\ Differ(g[r].items) /\ Differ(g[c].items)
                       /\ \A e : ~(Holds(g[r].items, e) /\ Holds(g[c].items, e))
  <2>1. Siblings(g, rt, lw, c, p, r)
    BY <1>1, BesideIs
  <2> QED  BY <2>1 DEF Siblings
<1>4. Counted(g, r)
  BY <1>3 DEF Cut, Balance
<1>5. /\ g[r].keys \in Seq(Keys) /\ g[c].keys \in Seq(Keys) /\ g[p].keys \in Seq(Keys)
  BY <1>1, <1>3 DEF Typed, IsNode
<1>6. Len(g[r].keys) # 0 /\ Len(g[r].items) # 0
  <2>1. PICK b \in Nat \ {0}, n \in Nat : b = MinKeys(g[c].leaf) /\ n = Len(g[r].keys)
    <3>1. Len(g[r].keys) \in Nat
      BY <1>5
    <3> QED  BY <1>3, <3>1, MinKeysIs
  <2>2. n # 0 /\ n + 1 # 0
    BY <2>1
  <2> QED  BY <1>4, <2>1, <2>2 DEF Counted
<1>7. PICK key, item : key = Head(g[r].keys) /\ item = Head(g[r].items)
  BY Zenon
<1>8. PICK ka : ka = Tail(g[r].keys) /\ ka \in Seq(Keys) /\ Len(ka) = Len(g[r].keys) - 1
  BY <1>5, <1>6, TailElements, Zenon
<1>9. key \in Keys
  BY <1>5, <1>6, <1>7, TailElements
<1>10. PICK s, kc : s = (IF g[c].leaf THEN key ELSE g[p].keys[i]) /\ kc = Append(g[c].keys, s)
  BY Zenon
<1>11. s \in Keys
  <2>1. CASE g[c].leaf
    BY <1>9, <1>10, <2>1
  <2>2. CASE ~g[c].leaf
    <3>1. Len(g[p].items) = Len(g[p].keys) + 1 /\ Len(g[p].keys) \in Nat
      <4>1. CutBelow(h, g, rt, lv, c, p)
        BY <1>2, CutParent
      <4> QED  BY <4>1 DEF CutBelow
    <3>2. i \in 1 .. Len(g[p].keys)
      BY <1>2, <3>1
    <3>3. g[p].keys[i] \in Keys
      BY <1>5, <3>2
    <3> QED  BY <1>10, <2>2, <3>3
  <2> QED  BY <2>1, <2>2
<1>12. kc \in Seq(Keys) /\ Len(kc) = Len(g[c].keys) + 1
  BY <1>5, <1>10, <1>11, AppendElements
<1>21. PICK sep : sep = (IF g[c].leaf THEN g[r].keys[2] ELSE key) /\ sep \in Keys
  <2>1. PICK b \in Nat \ {0}, n \in Nat : b = MinKeys(g[c].leaf) /\ n = Len(g[r].keys)
    <3>1. Len(g[r].keys) \in Nat
      BY <1>5
    <3> QED  BY <1>3, <3>1, MinKeysIs
  <2>2. 2 \in 1 .. n
    BY <1>3, <2>1
  <2>3. g[r].keys[2] \in Keys
    BY <1>5, <2>1, <2>2
  <2> QED  BY <1>9, <2>3
<1>13. PICK kp : /\ kp = [g[p].keys EXCEPT ![i] = sep] /\ kp \in Seq(Keys)
                 /\ Len(kp) = Len(g[p].keys)
  <2>1. PICK ks, j, kp : ks = g[p].keys /\ j = i /\ kp = Replaced(ks, j, sep)
    OBVIOUS
  <2>2. ks \in Seq(Keys)
    BY <1>5, <2>1
  <2>3. kp \in Seq(Keys) /\ Len(kp) = Len(ks)
    BY <1>21, <2>1, <2>2, ReplacedProperties
  <2> QED  BY <2>1, <2>3, Zenon DEF Replaced
<1>14. PICK ia, ic : ia = Tail(g[r].items) /\ ic = Append(g[c].items, item)
  BY Zenon
<1>15. /\ Len(ia) = Len(g[r].items) - 1 /\ Len(ic) = Len(g[c].items) + 1
       /\ g[c].leaf => ia \in Seq(Values) /\ ic \in Seq(Values)
       /\ ~g[c].leaf => Handed(g, r, c, item, ia, ic)
  <2>1. CASE g[c].leaf
    <3>1. g[r].items \in Seq(Values) /\ g[c].items \in Seq(Values)
      BY <1>3, <2>1
    <3>2. ia \in Seq(Values) /\ Len(ia) = Len(g[r].items) - 1 /\ item \in Values
      BY <1>6, <1>7, <1>14, <3>1, TailElements
    <3>3. ic \in Seq(Values) /\ Len(ic) = Len(g[c].items) + 1
      BY <1>14, <3>1, <3>2, AppendElements
    <3> QED  BY <2>1, <3>2, <3>3
  <2>2. CASE ~g[c].leaf
    <3>1. /\ g[r].items \in Seq(DOMAIN g) /\ g[c].items \in Seq(DOMAIN g)
          /\ Differ(g[r].items) /\ Differ(g[c].items)
          /\ \A e : ~(Holds(g[r].items, e) /\ Holds(g[c].items, e))
      BY <1>3, <2>2
    <3>2. /\ ia \in Seq(DOMAIN g) /\ Len(ia) = Len(g[r].items) - 1 /\ item \in DOMAIN g
          /\ Holds(g[r].items, item) /\ Loses(g[r].items, ia, item)
      BY <1>6, <1>7, <1>14, <3>1, TailElements, Zenon
    <3>3. ~Holds(g[c].items, item)
      BY <3>1, <3>2
    <3>4. /\ ic \in Seq(DOMAIN g) /\ Len(ic) = Len(g[c].items) + 1
          /\ Gains(g[c].items, ic, item)
      BY <1>14, <3>1, <3>2, <3>3, AppendElements
    <3>5. ia # <<>>
      <4>1. PICK b \in Nat \ {0}, n \in Nat, y \in Nat :
                b = MinKeys(g[c].leaf) /\ n = Len(g[r].keys) /\ y = Len(g[r].items)
        <5>1. Len(g[r].keys) \in Nat /\ Len(g[r].items) \in Nat
          BY <1>5, <3>1
        <5> QED  BY <1>3, <5>1, MinKeysIs
      <4>2. n > b /\ y = n + 1
        BY <1>3, <1>4, <2>2, <4>1 DEF Counted
      <4>3. Len(ia) # 0
        BY <3>2, <4>1, <4>2
      <4> QED  BY <4>3
    <3>6. Handed(g, r, c, item, ia, ic)
      BY <3>2, <3>4, <3>5 DEF Handed, Gains, Loses
    <3> QED  BY <2>2, <3>2, <3>4, <3>6
  <2> QED  BY <2>1, <2>2
<1>16. PICK x : x = Rotated(ThreeNew(g, r, ka, ia, c, kc, ic, p, kp), c, item)
  OBVIOUS
<1>17. BorrowFromRight(g, c, i) = x
  <2>1. BorrowFromRight(g, c, i) =
          Rotated([g EXCEPT ![r].keys  = ka,
                            ![r].items = ia,
                            ![c].keys  = kc,
                            ![c].items = ic,
                            ![p].keys = kp], c, item)
    BY <1>1, <1>2, <1>3, <1>7, <1>8, <1>10, <1>13, <1>14, <1>21, Zenon DEF BorrowFromRight
  <2> QED  BY <1>16, <2>1 DEF ThreeNew
<1>18. MayHand(g, rt, r, ka, ia, c, kc, ic, p, kp, item)
  BY <1>1, <1>2, <1>3, <1>8, <1>12, <1>13, <1>15 DEF MayHand
<1>19. MayBorrow(g, rt, r, ka, ia, c, kc, ic, p, kp, item)
  BY <1>8, <1>12, <1>13, <1>15, <1>18 DEF MayBorrow
<1>20. Cut(h, x, rt, lv, p)
  BY <1>16, <1>19, BorrowedCut
<1>22. RightLent(g, x, rt, r, c, p, i)
  <2>1. kp = Replaced(g[p].keys, i, sep)
    BY <1>13 DEF Replaced
  <2>2. 2 \in 1 .. Len(g[r].keys)
    <3>1. PICK b \in Nat \ {0}, n \in Nat : b = MinKeys(g[c].leaf) /\ n = Len(g[r].keys)
      <4>1. Len(g[r].keys) \in Nat
        BY <1>5
      <4> QED  BY <1>3, <4>1, MinKeysIs
    <3> QED  BY <3>1
  <2> QED  BY <1>6, <1>7, <1>8, <1>9, <1>10, <1>11, <1>14, <1>16, <1>18, <1>21, <2>1, <2>2, Zenon
           DEF RightLent
<1> QED  BY <1>17, <1>20, <1>22, Zenon

LEMMA BorrowFromRightCuts ==
    ASSUME degree \in Int, NEW h, NEW rt, NEW lv, Tree(h, rt, lv),
           NEW g, NEW c, Cut(h, g, rt, lv, c), c # rt, Underflows(g, c),
           NEW p, NEW i, NEW r, Beside(g, c, p, i, r, i + 1),
           Len(g[r].keys) > MinKeys(g[c].leaf)
    PROVE  Cut(h, BorrowFromRight(g, c, i), rt, lv, p)
BY RightLends, Zenon
-----------------------------------------------------------------------------
(* Merging with a sibling *)

\* Nodes l and p with other keys and items, l with another next leaf.
TwoNew(g, l, kl, il, nx, p, kp, ip) ==
    [g EXCEPT ![l].keys = kl, ![l].items = il, ![l].next = nx,
              ![p].keys = kp, ![p].items = ip]

LEMMA TwoNewIs ==
    ASSUME NEW g, Typed(g), NEW l \in DOMAIN g, NEW p \in DOMAIN g, l # p,
           NEW kl, NEW il, NEW nx, NEW kp, NEW ip,
           NEW x, x = TwoNew(g, l, kl, il, nx, p, kp, ip)
    PROVE  /\ DOMAIN x = DOMAIN g
           /\ \A m \in DOMAIN g : /\ DOMAIN x[m] = Fields
                                  /\ x[m].leaf = g[m].leaf /\ x[m].parent = g[m].parent
                                  /\ m \notin {l, p} => x[m] = g[m]
           /\ x[l].keys = kl /\ x[l].items = il /\ x[p].keys = kp /\ x[p].items = ip
<1>1. \A m \in DOMAIN g : DOMAIN g[m] = Fields
  BY DEF Typed, IsNode
<1>2. PICK y : y = [g EXCEPT ![l].keys = kl, ![l].items = il, ![l].next = nx]
  BY Zenon
<1>3. x = [y EXCEPT ![p].keys = kp, ![p].items = ip]
  BY <1>2 DEF TwoNew
<1>4. /\ DOMAIN y = DOMAIN g /\ \A m \in DOMAIN g : m # l => y[m] = g[m]
      /\ y[l] = [g[l] EXCEPT !.keys = kl, !.items = il, !.next = nx]
  BY <1>2
<1>5. /\ DOMAIN x = DOMAIN g /\ \A m \in DOMAIN g : m # p => x[m] = y[m]
      /\ x[p] = [y[p] EXCEPT !.keys = kp, !.items = ip]
  BY <1>3, <1>4
<1>6. /\ x[l] = [g[l] EXCEPT !.keys = kl, !.items = il, !.next = nx]
      /\ x[p] = [g[p] EXCEPT !.keys = kp, !.items = ip]
      /\ \A m \in DOMAIN g : m \notin {l, p} => x[m] = g[m]
  BY <1>4, <1>5, Zenon
<1>7. /\ DOMAIN x[l] = Fields /\ x[l].leaf = g[l].leaf /\ x[l].parent = g[l].parent
      /\ x[l].keys = kl /\ x[l].items = il
  <2>1. DOMAIN g[l] = Fields
    BY <1>1
  <2> QED  BY <1>6, <2>1 DEF Fields
<1>8. /\ DOMAIN x[p] = Fields /\ x[p].leaf = g[p].leaf /\ x[p].parent = g[p].parent
      /\ x[p].keys = kp /\ x[p].items = ip
  <2>1. DOMAIN g[p] = Fields
    BY <1>1
  <2> QED  BY <1>6, <2>1 DEF Fields
<1> QED  BY <1>1, <1>5, <1>6, <1>7, <1>8, Zenon

\* Node r is deleted; what it has goes to its sibling l if they are internal.
MergedBy(g, l, kl, il, nx, r, p, kp, ip) ==
    Free(IF g[l].leaf THEN TwoNew(g, l, kl, il, nx, p, kp, ip)
         ELSE Adopt(TwoNew(g, l, kl, il, nx, p, kp, ip), g[r].items, l), r)

MayMerge(g, rt, l, kl, il, r, p, kp, ip) ==
    /\ l \in DOMAIN g /\ r \in DOMAIN g /\ p \in DOMAIN g /\ l # rt /\ r # rt /\ l # r
    /\ g[l].parent = p /\ g[r].parent = p
    /\ kl \in Seq(Keys) /\ kp \in Seq(Keys)
    /\ g[l].leaf => il \in Seq(Values)
    /\ ~g[l].leaf => /\ il \in Seq(DOMAIN g) /\ Differ(il)
                     /\ \A x : Holds(il, x) <=> (Holds(g[l].items, x) \/ Holds(g[r].items, x))
    /\ ip \in Seq(DOMAIN g) /\ Loses(g[p].items, ip, r)

Merged(g, x, l, kl, il, r, p, kp, ip, lw) ==
    /\ DOMAIN x = DOMAIN g \ {r}
    /\ \A m \in DOMAIN x : /\ x[m].leaf = g[m].leaf
                           /\ m \notin {l, p} => x[m].keys = g[m].keys /\ x[m].items = g[m].items
                           /\ m \notin {l, p} /\ lw[m] >= lw[l] => x[m] = g[m]
    /\ x[l].keys = kl /\ x[l].items = il
    /\ x[p].keys = kp /\ x[p].items = ip /\ x[p].parent = g[p].parent

\* The nodes of x are a tree, on levels that they had.
Remains(x, rt, lw) ==
    \E lx : (\A m \in DOMAIN x : lx[m] = lw[m]) /\ Forest(x, {rt}, lx)

LEMMA MergedIs ==
    ASSUME NEW g, NEW rt, NEW lw, Typed(g), Forest(g, {rt}, lw),
           NEW l, NEW r, NEW p, NEW kl, NEW il, NEW nx, NEW kp, NEW ip,
           MayMerge(g, rt, l, kl, il, r, p, kp, ip),
           NEW x, x = MergedBy(g, l, kl, il, nx, r, p, kp, ip)
    PROVE  /\ Typed(x) /\ Merged(g, x, l, kl, il, r, p, kp, ip, lw)
           /\ Remains(x, rt, lw)
<1>0. /\ l \in DOMAIN g /\ r \in DOMAIN g /\ p \in DOMAIN g /\ l # rt /\ r # rt /\ l # r
      /\ g[l].parent = p /\ g[r].parent = p
      /\ kl \in Seq(Keys) /\ kp \in Seq(Keys)
      /\ g[l].leaf => il \in Seq(Values)
      /\ ~g[l].leaf => /\ il \in Seq(DOMAIN g) /\ Differ(il)
                       /\ \A z : Holds(il, z) <=> (Holds(g[l].items, z) \/ Holds(g[r].items, z))
      /\ ip \in Seq(DOMAIN g) /\ Loses(g[p].items, ip, r)
  BY DEF MayMerge
<1>1. /\ lw \in [DOMAIN g -> Nat] /\ ~g[p].leaf /\ p # l /\ p # r
      /\ lw[l] + 1 = lw[p] /\ lw[r] + 1 = lw[p] /\ lw[l] = lw[r]
      /\ Holds(g[p].items, l) /\ Holds(g[p].items, r)
  <2>1. /\ lw[l] + 1 = lw[p] /\ p # l /\ ~g[p].leaf /\ lw[l] \in Nat /\ lw[p] \in Nat
        /\ \E i \in 1 .. Len(g[p].items) : g[p].items[i] = l
    <3>1. l \in DOMAIN g /\ l \notin {rt} /\ p = g[l].parent
      BY <1>0
    <3> QED  BY <3>1, ParentOf
  <2>2. /\ lw[r] + 1 = lw[p] /\ p # r /\ lw[r] \in Nat
        /\ \E i \in 1 .. Len(g[p].items) : g[p].items[i] = r
    <3>1. r \in DOMAIN g /\ r \notin {rt} /\ p = g[r].parent
      BY <1>0
    <3> QED  BY <3>1, ParentOf
  <2> QED  BY <2>1, <2>2, SMTT(20) DEF Forest, Holds
<1>2. g[l].leaf = g[r].leaf /\ g[l].leaf \in BOOLEAN
  <2>1. g[l].leaf \in BOOLEAN /\ g[r].leaf \in BOOLEAN
    BY <1>0 DEF Typed, IsNode
  <2>2. (g[l].leaf <=> lw[l] = 0) /\ (g[r].leaf <=> lw[r] = 0)
    BY <1>0 DEF Forest
  <2> QED  BY <1>1, <2>1, <2>2
<1>3. PICK y : y = TwoNew(g, l, kl, il, nx, p, kp, ip)
  OBVIOUS
<1>4. /\ DOMAIN y = DOMAIN g
      /\ \A m \in DOMAIN g : /\ DOMAIN y[m] = Fields
                             /\ y[m].leaf = g[m].leaf /\ y[m].parent = g[m].parent
                             /\ m \notin {l, p} => y[m] = g[m]
      /\ y[l].keys = kl /\ y[l].items = il /\ y[p].keys = kp /\ y[p].items = ip
  BY <1>0, <1>1, <1>3, TwoNewIs
<1>5. Typed(y)
  <2>1. \A m \in DOMAIN g : IsNode(y[m])
    <3> SUFFICES ASSUME NEW m \in DOMAIN g PROVE IsNode(y[m])
      OBVIOUS
    <3>1. IsNode(g[m])
      BY DEF Typed
    <3>2. CASE m = l
      BY <1>0, <1>4, <3>1, <3>2 DEF IsNode
    <3>3. CASE m = p
      BY <1>0, <1>1, <1>4, <3>1, <3>3 DEF IsNode
    <3>4. CASE m \notin {l, p}
      BY <1>4, <3>1, <3>4
    <3> QED  BY <3>2, <3>3, <3>4
  <2> QED  BY <1>4, <2>1 DEF Typed
<1>6. PICK z : z = (IF g[l].leaf THEN y ELSE Adopt(y, g[r].items, l))
  OBVIOUS
<1>7. \A m : m \in ToSet(g[r].items) <=> Holds(g[r].items, m)
  <2>1. \E S : g[r].items \in Seq(S)
    <3>1. CASE g[r].leaf
      BY <1>0, <3>1 DEF Typed, IsNode
    <3>2. CASE ~g[r].leaf
      BY <1>0, <3>2, BroodIs, Zenon
    <3> QED  BY <3>1, <3>2
  <2>2. DOMAIN g[r].items = 1 .. Len(g[r].items)
    BY <2>1
  <2> QED  BY <2>2 DEF Holds, ToSet
<1>8. /\ Typed(z) /\ DOMAIN z = DOMAIN g
      /\ \A m \in DOMAIN g :
          /\ z[m].leaf = y[m].leaf /\ z[m].keys = y[m].keys /\ z[m].items = y[m].items
          /\ ~g[l].leaf /\ Holds(g[r].items, m) => z[m].parent = l
          /\ g[l].leaf \/ ~Holds(g[r].items, m) => z[m] = y[m]
  <2>1. CASE g[l].leaf
    BY <1>4, <1>5, <1>6, <2>1
  <2>2. CASE ~g[l].leaf
    <3>1. PICK s : s = g[r].items
      OBVIOUS
    <3>2. z = Adopt(y, s, l)
      BY <1>6, <2>2, <3>1
    <3>3. /\ Typed(z) /\ DOMAIN z = DOMAIN y
          /\ \A m \in DOMAIN y :
              /\ z[m].leaf = y[m].leaf /\ z[m].keys = y[m].keys
              /\ z[m].items = y[m].items
              /\ m \in ToSet(s) => z[m].parent = l
              /\ m \notin ToSet(s) => z[m] = y[m]
      BY <1>5, <3>2, AdoptIs
    <3> QED  BY <1>4, <1>7, <2>2, <3>1, <3>3
  <2> QED  BY <2>1, <2>2
<1>9. x = Free(z, r)
  BY <1>3, <1>6 DEF MergedBy
<1>10. DOMAIN x = DOMAIN g \ {r} /\ \A m \in DOMAIN x : x[m] = z[m]
  BY <1>8, <1>9 DEF Free
<1>11. Typed(x)
  <2>1. IsFiniteSet(DOMAIN g)
    BY DEF Typed
  <2>2. IsFiniteSet(DOMAIN x)
    BY <1>10, <2>1, FS_RemoveElement
  <2> QED  BY <1>8, <1>10, <2>2 DEF Typed
\* The children of the two nodes.
<1>12. ASSUME ~g[l].leaf, NEW m, Holds(g[l].items, m) \/ Holds(g[r].items, m)
       PROVE  /\ m \in DOMAIN x /\ m # rt /\ lw[m] + 1 = lw[l] /\ lw[m] \in Nat
              /\ m # l /\ m # p /\ x[m].parent = l
  <2>1. ASSUME NEW n \in {l, r}, Holds(g[n].items, m)
        PROVE  /\ m \in DOMAIN g /\ m # rt /\ lw[m] + 1 = lw[l] /\ lw[m] \in Nat /\ g[m].parent = n
    <3>1. PICK j \in 1 .. Len(g[n].items) : g[n].items[j] = m
      BY <2>1 DEF Holds
    <3>2. n \in DOMAIN g /\ ~g[n].leaf /\ lw[n] = lw[l]
      BY <1>0, <1>1, <1>2, <1>12, Zenon
    <3>3. m \in DOMAIN g /\ m # rt /\ lw[m] + 1 = lw[n] /\ lw[m] \in Nat /\ g[m].parent = n
      BY <3>1, <3>2, KidOf
    <3> QED  BY <3>2, <3>3
  <2>2. m \in DOMAIN g /\ m # rt /\ lw[m] + 1 = lw[l] /\ lw[m] \in Nat
    BY <1>12, <2>1
  <2>3. m # l /\ m # p /\ m # r
    BY <1>1, <2>2
  <2>4. m \in DOMAIN x /\ x[m] = z[m]
    BY <1>10, <2>2, <2>3
  <2>5. CASE Holds(g[r].items, m)
    BY <1>8, <1>12, <2>2, <2>3, <2>4, <2>5
  <2>6. CASE ~Holds(g[r].items, m)
    <3>1. g[m].parent = l
      BY <1>12, <2>1, <2>6
    <3>2. z[m] = y[m]
      BY <1>8, <2>2, <2>6
    <3> QED  BY <1>4, <2>2, <2>3, <2>4, <3>1, <3>2
  <2> QED  BY <2>5, <2>6
\* The others.
<1>13. ASSUME NEW m \in DOMAIN x, m # rt, g[m].parent \notin {l, r}
       PROVE  x[m].parent = g[m].parent
  <2>1. m \in DOMAIN g /\ x[m] = z[m]
    BY <1>10
  <2>2. g[l].leaf \/ ~Holds(g[r].items, m)
    <3> SUFFICES ASSUME ~g[l].leaf, Holds(g[r].items, m) PROVE FALSE
      OBVIOUS
    <3>1. PICK j \in 1 .. Len(g[r].items) : g[r].items[j] = m
      BY DEF Holds
    <3>2. g[m].parent = r
      BY <1>0, <1>2, <3>1, KidOf
    <3> QED  BY <1>13, <3>2
  <2>3. z[m] = y[m]
    BY <1>8, <2>1, <2>2
  <2> QED  BY <1>4, <2>1, <2>3
<1>14. /\ l \in DOMAIN x /\ p \in DOMAIN x
       /\ x[l].leaf = g[l].leaf /\ x[p].leaf = FALSE
       /\ x[l].keys = kl /\ x[l].items = il /\ x[p].keys = kp /\ x[p].items = ip
  <2>1. l \in DOMAIN x /\ p \in DOMAIN x
    BY <1>0, <1>1, <1>10
  <2>2. g[p].leaf = FALSE
    <3>1. g[p].leaf \in BOOLEAN
      BY <1>0 DEF Typed, IsNode
    <3> QED  BY <1>1, <3>1
  <2> QED  BY <1>0, <1>4, <1>8, <1>10, <2>1, <2>2
<1>15. x[p].parent = g[p].parent /\ x[l].parent = p
  <2>1. \A n \in {l, p} : g[l].leaf \/ ~Holds(g[r].items, n)
    BY <1>12
  <2> QED  BY <1>0, <1>4, <1>8, <1>10, <1>14, <2>1
<1>16. Merged(g, x, l, kl, il, r, p, kp, ip, lw)
  <2>1. \A m \in DOMAIN x : /\ x[m].leaf = g[m].leaf
                            /\ m \notin {l, p} => x[m].keys = g[m].keys /\ x[m].items = g[m].items
    BY <1>4, <1>8, <1>10
  <2>2. ASSUME NEW m \in DOMAIN x, m \notin {l, p}, lw[m] >= lw[l]
        PROVE  x[m] = g[m]
    <3>1. g[l].leaf \/ ~Holds(g[r].items, m)
      BY <1>1, <1>0, <1>12, <2>2
    <3> QED  BY <1>4, <1>8, <1>10, <2>2, <3>1
  <2> QED  BY <1>10, <1>14, <1>15, <2>1, <2>2 DEF Merged
<1>17. PICK lx : lx = [m \in DOMAIN x |-> lw[m]]
  BY Zenon
<1>18. lx \in [DOMAIN x -> Nat] /\ \A m \in DOMAIN x : lx[m] = lw[m]
  BY <1>1, <1>10, <1>17
<1>19. ASSUME ~g[l].leaf PROVE Brood(x, {rt}, lx, l)
  <2>1. /\ il \in Seq(DOMAIN g) /\ Differ(il)
        /\ \A n : Holds(il, n) <=> (Holds(g[l].items, n) \/ Holds(g[r].items, n))
    BY <1>0, <1>19
  <2>2. \A j \in 1 .. Len(il) : Holds(il, il[j])
    BY DEF Holds
  <2>3. \A j \in 1 .. Len(il) :
          il[j] \in DOMAIN x /\ il[j] # rt /\ x[il[j]].parent = l /\ lx[il[j]] + 1 = lx[l]
    BY <1>12, <1>14, <1>18, <1>19, <2>1, <2>2
  <2>4. il \in Seq(DOMAIN x)
    <3>1. PICK n \in Nat : n = Len(il) /\ il \in [1 .. n -> DOMAIN g]
      BY <2>1
    <3>2. il \in [1 .. n -> DOMAIN x]
      BY <2>3, <3>1
    <3> QED  BY <3>2
  <2>5. il # <<>>
    <3>1. PICK e : Holds(g[l].items, e)
      <4>1. Len(g[l].items) \in Nat \ {0}
        BY <1>0, <1>19, BroodIs
      <4>2. 1 \in 1 .. Len(g[l].items)
        BY <4>1
      <4> QED  BY <4>2, Zenon DEF Holds
    <3> QED  BY <2>1, <3>1 DEF Holds
  <2> QED  BY <1>14, <2>1, <2>3, <2>4, <2>5 DEF Brood, Differ
<1>20. ASSUME NEW m, Holds(ip, m)
       PROVE  m \in DOMAIN x /\ m # rt /\ x[m].parent = p /\ lx[m] + 1 = lx[p]
  <2>1. Holds(g[p].items, m) /\ m # r
    BY <1>0, <1>20 DEF Loses
  <2>2. PICK j \in 1 .. Len(g[p].items) : g[p].items[j] = m
    BY <2>1 DEF Holds
  <2>3. m \in DOMAIN g /\ m # rt /\ g[m].parent = p /\ lw[m] + 1 = lw[p]
    BY <1>0, <1>1, <2>2, KidOf
  <2>4. m \in DOMAIN x
    BY <1>10, <2>1, <2>3
  <2>5. x[m].parent = p
    BY <1>1, <1>13, <2>3, <2>4
  <2> QED  BY <1>14, <1>18, <2>3, <2>4, <2>5
<1>21. Brood(x, {rt}, lx, p)
  <2>1. \A j \in 1 .. Len(ip) : Holds(ip, ip[j])
    BY DEF Holds
  <2>2. \A j \in 1 .. Len(ip) :
          ip[j] \in DOMAIN x /\ ip[j] # rt /\ x[ip[j]].parent = p /\ lx[ip[j]] + 1 = lx[p]
    BY <1>20, <2>1
  <2>3. ip \in Seq(DOMAIN x)
    <3>1. PICK n \in Nat : n = Len(ip) /\ ip \in [1 .. n -> DOMAIN g]
      BY <1>0
    <3>2. ip \in [1 .. n -> DOMAIN x]
      BY <2>2, <3>1
    <3> QED  BY <3>2
  <2>4. ip # <<>>
    <3>1. Holds(ip, l)
      BY <1>0, <1>1 DEF Loses
    <3> QED  BY <3>1 DEF Holds
  <2>5. Differ(ip)
    BY <1>0 DEF Loses
  <2> QED  BY <1>14, <2>2, <2>3, <2>4, <2>5 DEF Brood, Differ
<1>22. PICK R, S : R = {rt} /\ S = {l, r, p}
  BY Zenon
<1>23. Surgery(g, R, x, R, S)
  <2>1. DOMAIN g \ S = DOMAIN x \ S
    BY <1>10, <1>22
  <2>2. \A m \in DOMAIN g \ S : x[m].leaf = g[m].leaf /\ (~g[m].leaf => x[m].items = g[m].items)
    BY <1>16, <1>22, <2>1 DEF Merged
  <2>3. ASSUME NEW m \in DOMAIN g \ R, g[m].parent \notin S
        PROVE  m \in DOMAIN x /\ m \notin R /\ x[m].parent = g[m].parent
    <3>1. m \in DOMAIN x
      BY <1>0, <1>10, <1>22, <2>3
    <3> QED  BY <1>13, <1>22, <2>3, <3>1
  <2>4. ASSUME NEW m \in DOMAIN x \ R
        PROVE  \/ m \in DOMAIN g \ R /\ g[m].parent \notin S
               \/ x[m].parent \in S /\ Hangs(x, m)
    <3>1. m \in DOMAIN g /\ m # rt /\ m # r
      BY <1>10, <1>22
    <3>2. CASE g[m].parent \notin S
      BY <1>22, <3>1, <3>2
    <3>3. CASE g[m].parent \in S
      <4>1. ~g[g[m].parent].leaf /\ Holds(g[g[m].parent].items, m)
        BY <3>1, ParentOf DEF Holds
      <4>2. CASE g[m].parent = p
        <5>1. Holds(ip, m)
          BY <1>0, <3>1, <4>1, <4>2 DEF Loses
        <5>2. x[m].parent = p
          BY <1>20, <5>1
        <5> QED  BY <1>14, <1>22, <5>1, <5>2 DEF Hangs, Holds
      <4>3. CASE g[m].parent \in {l, r}
        <5>1. ~g[l].leaf
          BY <1>2, <4>1, <4>3
        <5>2. Holds(il, m)
          BY <1>0, <4>1, <4>3, <5>1
        <5>3. x[m].parent = l
          BY <1>12, <4>1, <4>3, <5>1
        <5> QED  BY <1>14, <1>22, <5>1, <5>2, <5>3 DEF Hangs, Holds
      <4> QED  BY <1>22, <3>3, <4>2, <4>3
    <3> QED  BY <3>2, <3>3
  <2> QED  BY <2>1, <2>2, <2>3, <2>4 DEF Surgery
<1>24. Forest(x, {rt}, lx)
  <2>1. Forest(g, R, lw) /\ R \subseteq DOMAIN x
    <3>1. rt \in DOMAIN g
      BY DEF Forest
    <3> QED  BY <1>0, <1>10, <1>22, <3>1
  <2>2. lx[p] # 0
    BY <1>0, <1>1, <1>14, <1>18 DEF Forest
  <2>3. x[l].leaf <=> lx[l] = 0
    BY <1>0, <1>14, <1>18 DEF Forest
  <2>4. r \notin DOMAIN x
    BY <1>10
  <2>5. ASSUME NEW m \in DOMAIN x, m \in S
        PROVE  (x[m].leaf <=> lx[m] = 0) /\ (~x[m].leaf => Brood(x, R, lx, m))
    <3>1. CASE m = p
      BY <1>14, <1>21, <1>22, <2>2, <3>1
    <3>2. CASE m = l
      BY <1>14, <1>19, <1>22, <2>3, <3>2
    <3> QED  BY <1>22, <2>4, <2>5, <3>1, <3>2
  <2>6. \A m \in DOMAIN x : m \in DOMAIN g => lx[m] = lw[m]
    BY <1>18
  <2>7. Forest(x, R, lx)
    BY <1>18, <1>23, <2>1, <2>5, <2>6, SurgeryKeepsForest
  <2> QED  BY <1>22, <2>7
<1> QED  BY <1>11, <1>16, <1>18, <1>24 DEF Remains

\* Child i of p has become one with the next.
MergedInto(g, x, rt, l, r, p, i) ==
    \E mid, kl, il, nx, kp, ip :
        /\ mid = Between(g, p, i) /\ kl = g[l].keys \o mid \o g[r].keys
        /\ il = g[l].items \o g[r].items /\ nx = g[r].next
        /\ kp = RemoveAt(g[p].keys, i) /\ ip = RemoveAt(g[p].items, i + 1)
        /\ MayMerge(g, rt, l, kl, il, r, p, kp, ip)
        /\ x = MergedBy(g, l, kl, il, nx, r, p, kp, ip)

\* Node c that misses a key becomes one with its sibling, which has none to spare.
LEMMA Merges ==
    ASSUME degree \in Int, NEW h, NEW rt, NEW lv, Tree(h, rt, lv),
           NEW g, NEW c, Cut(h, g, rt, lv, c), c # rt, Underflows(g, c),
           NEW p, NEW a, NEW i, NEW l, NEW r, l = g[p].items[i], r = g[p].items[i + 1],
           \/ c = l /\ a = r /\ Beside(g, c, p, i, a, i + 1)
           \/ c = r /\ a = l /\ Beside(g, c, p, i + 1, a, i),
           ~(Len(g[a].keys) > MinKeys(g[c].leaf))
    PROVE  Cut(h, Merge(g, p, i), rt, lv, p) /\ MergedInto(g, Merge(g, p, i), rt, l, r, p, i)
<1>1. PICK lw : (\A m \in DOMAIN g : lw[m] = lv[m]) /\ Forest(g, {rt}, lw)
  BY DEF Cut
<1>2. /\ Typed(g) /\ DOMAIN g \subseteq DOMAIN h /\ c \in DOMAIN g
      /\ Balance(g, rt, {c}) /\ Counted(g, c) /\ Few(g, c)
      /\ Len(g[c].keys) + 1 >= MinKeys(g[c].leaf)
      /\ \A m \in DOMAIN h : m # c /\ lv[m] >= lv[c] => m \in DOMAIN g /\ Same(g[m], h[m])
  BY DEF Cut
<1>3. /\ p = g[c].parent /\ i \in 1 .. Len(g[p].items) /\ i + 1 \in 1 .. Len(g[p].items)
      /\ {l, r} = {a, c}
  BY DEF Beside
<1>4. Siblings(g, rt, lw, c, p, a)
  <2>1. PICK x, y : Beside(g, c, p, x, a, y)
    OBVIOUS
  <2> QED  BY <1>1, <1>2, <2>1, BesideIs
<1>5. /\ a \in DOMAIN g /\ p \in DOMAIN g /\ a # rt /\ a # c /\ g[a].parent = p
      /\ a # p /\ c # p /\ ~g[p].leaf /\ lw[a] = lw[c]
      /\ g[a].leaf = g[c].leaf /\ g[a].leaf \in BOOLEAN
      /\ g[a].leaf => g[a].items \in Seq(Values) /\ g[c].items \in Seq(Values)
      /\ ~g[a].leaf => /\ g[a].items \in Seq(DOMAIN g) /\ g[c].items \in Seq(DOMAIN g)
                       /\ Differ(g[a].items) /\ Differ(g[c].items)
                       /\ \A e : ~(Holds(g[a].items, e) /\ Holds(g[c].items, e))
  BY <1>4, Zenon DEF Siblings
<1>6. /\ l \in DOMAIN g /\ r \in DOMAIN g /\ l # rt /\ r # rt /\ l # r
      /\ g[l].parent = p /\ g[r].parent = p /\ g[l].leaf = g[r].leaf /\ g[c].leaf = g[l].leaf
      /\ g[l].leaf \in BOOLEAN
      /\ g[l].leaf => g[l].items \in Seq(Values) /\ g[r].items \in Seq(Values)
      /\ ~g[l].leaf => /\ g[l].items \in Seq(DOMAIN g) /\ g[r].items \in Seq(DOMAIN g)
                       /\ Differ(g[l].items) /\ Differ(g[r].items)
                       /\ \A e : ~(Holds(g[l].items, e) /\ Holds(g[r].items, e))
  <2>1. CASE c = l /\ a = r
    BY <1>2, <1>3, <1>5, <2>1, Zenon
  <2>2. CASE c = r /\ a = l
    BY <1>2, <1>3, <1>5, <2>2, Zenon
  <2> QED  BY <2>1, <2>2
<1>7. /\ p = h[c].parent /\ p \in DOMAIN h /\ Same(g[p], h[p])
      /\ g[p].leaf = FALSE /\ lv[c] + 1 = lv[p] /\ lv[c] \in Nat /\ lv[p] \in Nat
      /\ Counted(g, p) /\ Few(g, p) /\ (p # rt => Enough(g, p))
      /\ Len(g[p].keys) \in Nat /\ Len(g[p].items) = Len(g[p].keys) + 1
      /\ g[p].keys \in Seq(Keys) /\ g[p].items \in Seq(DOMAIN g)
  <2>1. CutBelow(h, g, rt, lv, c, p)
    BY <1>3, CutParent
  <2> QED  BY <2>1 DEF CutBelow
<1>8. g[l].keys \in Seq(Keys) /\ g[r].keys \in Seq(Keys)
  BY <1>2, <1>6 DEF Typed, IsNode
<1>9. PICK b \in Nat \ {0}, d \in Nat :
        /\ b = MinKeys(g[l].leaf) /\ d = Degree - 1 /\ b <= d
        /\ g[l].leaf => b + b - 1 <= d
        /\ ~g[l].leaf => b + b <= d
  BY <1>6, MinKeysIs
<1>10. PICK u \in Nat, w \in Nat : /\ u = Len(g[l].keys) /\ w = Len(g[r].keys)
                                   /\ u + w + 1 = b + b
  <2>1. PICK x \in Nat, y \in Nat : x = Len(g[l].keys) /\ y = Len(g[r].keys)
    BY <1>8
  <2>2. Enough(g, a)
    BY <1>2, <1>5 DEF Balance
  <2>3. Len(g[a].keys) >= b /\ ~(Len(g[a].keys) > b) /\ Len(g[c].keys) < b /\ Len(g[c].keys) + 1 >= b
    BY <1>2, <1>5, <1>6, <1>9, <2>2 DEF Enough, Underflows
  <2>4. CASE c = l /\ a = r
    <3>1. y >= b /\ ~(y > b) /\ x < b /\ x + 1 >= b
      BY <2>1, <2>3, <2>4
    <3>2. x + y + 1 = b + b
      BY <3>1
    <3> QED  BY <2>1, <3>2, Zenon
  <2>5. CASE c = r /\ a = l
    <3>1. x >= b /\ ~(x > b) /\ y < b /\ y + 1 >= b
      BY <2>1, <2>3, <2>5
    <3>2. x + y + 1 = b + b
      BY <3>1
    <3> QED  BY <2>1, <3>2, Zenon
  <2> QED  BY <2>4, <2>5
<1>11. i \in 1 .. Len(g[p].keys)
  BY <1>3, <1>7
<1>38. PICK mid : mid = Between(g, p, i)
  OBVIOUS
<1>12. mid \in Seq(Keys) /\ Len(mid) = IF g[l].leaf THEN 0 ELSE 1
  <2>1. g[p].keys[i] \in Keys
    BY <1>7, <1>11
  <2>2. mid = IF g[l].leaf THEN <<>> ELSE <<g[p].keys[i]>>
    BY <1>38 DEF Between
  <2>3. CASE g[l].leaf
    <3>1. <<>> \in Seq(Keys) /\ Len(<<>>) = 0
      OBVIOUS
    <3> QED  BY <2>2, <2>3, <3>1
  <2>4. CASE ~g[l].leaf
    <3>1. PICK z \in Keys : z = g[p].keys[i]
      BY <2>1, Zenon
    <3>2. <<z>> \in Seq(Keys) /\ Len(<<z>>) = 1
      OBVIOUS
    <3> QED  BY <2>2, <2>4, <3>1, <3>2
  <2> QED  BY <2>3, <2>4
<1>13. PICK kl : kl = g[l].keys \o mid \o g[r].keys
  BY Zenon
<1>14. kl \in Seq(Keys) /\ Len(kl) = u + Len(mid) + w
  <2>1. PICK s \in Seq(Keys), t \in Seq(Keys) : s = g[l].keys /\ t = g[r].keys
    BY <1>8
  <2>2. mid \in Seq(Keys) /\ Len(s) = u /\ Len(t) = w
    BY <1>10, <1>12, <2>1
  <2>5. PICK k : k = s \o mid
    BY Zenon
  <2>3. k \in Seq(Keys) /\ Len(k) = u + Len(mid)
    <3>1. s \o mid \in Seq(Keys) /\ Len(s \o mid) = Len(s) + Len(mid)
      BY <2>2, JoinedElements
    <3> QED  BY <2>2, <2>5, <3>1
  <2>4. k \o t \in Seq(Keys) /\ Len(k \o t) = u + Len(mid) + w
    BY <2>2, <2>3, JoinedElements, Zenon
  <2> QED  BY <1>13, <2>1, <2>4, <2>5, Zenon
<1>15. PICK il : il = g[l].items \o g[r].items
  BY Zenon
<1>16. /\ g[l].leaf => il \in Seq(Values)
       /\ ~g[l].leaf => /\ il \in Seq(DOMAIN g) /\ Differ(il)
                        /\ \A x : Holds(il, x) <=> (Holds(g[l].items, x) \/ Holds(g[r].items, x))
       /\ Len(il) = Len(g[l].items) + Len(g[r].items)
  <2>1. CASE g[l].leaf
    <3>1. PICK s \in Seq(Values), t \in Seq(Values) : s = g[l].items /\ t = g[r].items
      BY <1>6, <2>1
    <3>2. s \o t \in Seq(Values) /\ Len(s \o t) = Len(s) + Len(t)
      BY JoinedElements
    <3> QED  BY <1>15, <2>1, <3>1, <3>2, Zenon
  <2>2. CASE ~g[l].leaf
    <3>1. PICK s \in Seq(DOMAIN g), t \in Seq(DOMAIN g) :
            /\ s = g[l].items /\ t = g[r].items /\ Differ(s) /\ Differ(t)
            /\ \A e : ~(Holds(s, e) /\ Holds(t, e))
      BY <1>6, <2>2
    <3>2. /\ s \o t \in Seq(DOMAIN g) /\ Len(s \o t) = Len(s) + Len(t)
          /\ \A x : Holds(s \o t, x) <=> (Holds(s, x) \/ Holds(t, x))
      BY JoinedElements
    <3>3. Differ(s \o t)
      BY <3>1, JoinedElements
    <3> QED  BY <1>15, <2>2, <3>1, <3>2, <3>3, Zenon
  <2> QED  BY <2>1, <2>2, Zenon
<1>17. PICK kp : kp = RemoveAt(g[p].keys, i) /\ kp \in Seq(Keys) /\ Len(kp) = Len(g[p].keys) - 1
  BY <1>7, <1>11, RemoveElements, Zenon
<1>18. PICK ip : /\ ip = RemoveAt(g[p].items, i + 1) /\ ip \in Seq(DOMAIN g)
                 /\ Len(ip) = Len(g[p].items) - 1 /\ Loses(g[p].items, ip, r)
  <2>1. PICK s, j : s = g[p].items /\ j = i + 1
    OBVIOUS
  <2>2. s \in Seq(DOMAIN g) /\ j \in 1 .. Len(s) /\ s[j] = r
    BY <1>3, <1>7, <2>1
  <2>3. Differ(s)
    BY <1>1, <1>5, <2>1, BroodIs DEF Differ
  <2>4. /\ RemoveAt(s, j) \in Seq(DOMAIN g) /\ Len(RemoveAt(s, j)) = Len(s) - 1
        /\ Loses(s, RemoveAt(s, j), r)
    BY <2>2, <2>3, RemoveElements
  <2> QED  BY <2>1, <2>4
<1>19. PICK nx, x : nx = g[r].next /\ x = MergedBy(g, l, kl, il, nx, r, p, kp, ip)
  OBVIOUS
<1>20. Merge(g, p, i) = x
  <2>1. Merge(g, p, i) =
          LET y == [g EXCEPT ![l].keys = kl, ![l].items = il, ![l].next = nx,
                             ![p].keys = kp, ![p].items = ip]
          IN  Free(IF g[l].leaf THEN y ELSE Adopt(y, g[r].items, l), r)
    <3>1. l \in DOMAIN g /\ p \in DOMAIN g /\ l # p
      BY <1>3, <1>5, <1>6
    <3> QED  BY <1>13, <1>15, <1>17, <1>18, <1>19, <1>38, <3>1, ZenonT(40) DEF Merge
  <2> QED  BY <1>19, <2>1, Zenon DEF MergedBy, TwoNew
<1>21. MayMerge(g, rt, l, kl, il, r, p, kp, ip)
  BY <1>5, <1>6, <1>14, <1>16, <1>17, <1>18 DEF MayMerge
<1>22. /\ Typed(x) /\ Merged(g, x, l, kl, il, r, p, kp, ip, lw)
       /\ Remains(x, rt, lw)
  <2>1. Forest(g, {rt}, lw) /\ Typed(g)
    BY <1>1, <1>2
  <2> QED  BY <1>19, <1>21, <2>1, MergedIs
<1>23. /\ DOMAIN x = DOMAIN g \ {r}
       /\ \A m \in DOMAIN x : /\ x[m].leaf = g[m].leaf
                              /\ m \notin {l, p} => x[m].keys = g[m].keys /\ x[m].items = g[m].items
                              /\ m \notin {l, p} /\ lw[m] >= lw[l] => x[m] = g[m]
       /\ x[l].keys = kl /\ x[l].items = il
       /\ x[p].keys = kp /\ x[p].items = ip /\ x[p].parent = g[p].parent
  BY <1>22 DEF Merged
<1>24. p # l /\ p # r /\ l \in DOMAIN x /\ p \in DOMAIN x
  BY <1>3, <1>5, <1>6, <1>23, Zenon
<1>25. Counted(x, l) /\ Few(x, l) /\ Enough(x, l)
  <2>1. Counted(g, l) /\ Counted(g, r)
    BY <1>2, <1>3, <1>5, <1>6 DEF Balance
  <2>2. x[l].leaf = g[l].leaf /\ Len(x[l].items) = Len(g[l].items) + Len(g[r].items)
    BY <1>16, <1>23, <1>24, Zenon
  <2>3. CASE g[l].leaf
    <3>1. Len(x[l].keys) = u + w
      <4>1. Len(mid) = 0 /\ Len(kl) = u + Len(mid) + w /\ x[l].keys = kl
        BY <1>12, <1>14, <1>23, <2>3
      <4> QED  BY <4>1
    <3>2. u + w <= d /\ u + w >= b
      <4>1. b + b - 1 <= d /\ u + w + 1 = b + b
        BY <1>9, <1>10, <2>3, Zenon
      <4> QED  BY <4>1
    <3>3. Len(x[l].items) = u + w
      BY <1>6, <1>10, <2>1, <2>2, <2>3 DEF Counted
    <3> QED  BY <1>9, <2>2, <2>3, <3>1, <3>2, <3>3, Zenon DEF Counted, Few, Enough
  <2>4. CASE ~g[l].leaf
    <3>1. Len(x[l].keys) = u + w + 1
      <4>1. Len(mid) = 1 /\ Len(kl) = u + Len(mid) + w /\ x[l].keys = kl
        BY <1>12, <1>14, <1>23, <2>4
      <4> QED  BY <4>1
    <3>2. u + w + 1 <= d /\ u + w + 1 >= b
      <4>1. b + b <= d /\ u + w + 1 = b + b
        BY <1>9, <1>10, <2>4, Zenon
      <4> QED  BY <4>1
    <3>3. Len(x[l].items) = u + w + 1 + 1
      <4>1. Len(g[l].items) = u + 1 /\ Len(g[r].items) = w + 1
        BY <1>6, <1>10, <2>1, <2>4 DEF Counted
      <4> QED  BY <2>2, <4>1
    <3> QED  BY <1>9, <2>2, <2>4, <3>1, <3>2, <3>3, Zenon DEF Counted, Few, Enough
  <2> QED  BY <2>3, <2>4
<1>26. PICK n \in Nat : n + 1 = Len(g[p].keys) /\ Len(x[p].keys) = n /\ Len(x[p].items) = n + 1
  <2>1. PICK y \in Nat : y = Len(g[p].keys)
    BY <1>7
  <2>2. y - 1 \in Nat /\ (y - 1) + 1 = y
    BY <1>11, <2>1
  <2>3. PICK n \in Nat : n = y - 1 /\ n + 1 = y
    BY <2>2
  <2>4. Len(kp) = n /\ Len(ip) = n + 1
    <3>1. Len(kp) = y - 1 /\ Len(ip) = (y + 1) - 1
      BY <1>7, <1>17, <1>18, <2>1
    <3> QED  BY <2>3, <3>1, SMTT(20)
  <2> QED  BY <1>23, <2>1, <2>3, <2>4
<1>27. x[p].leaf = FALSE
  BY <1>7, <1>23, <1>24, Zenon
<1>28. Counted(x, p)
  BY <1>26, <1>27 DEF Counted
<1>29. Few(x, p)
  <2>1. n + 1 <= d
    BY <1>7, <1>9, <1>26, Zenon DEF Few
  <2>2. n <= d
    BY <2>1
  <2> QED  BY <1>9, <1>26, <2>2 DEF Few
<1>30. p # rt => Len(x[p].keys) + 1 >= MinKeys(x[p].leaf)
  BY <1>7, <1>26, <1>27, Zenon DEF Enough
<1>31. Balance(x, rt, {p})
  <2> SUFFICES ASSUME NEW m \in DOMAIN x, m # p
               PROVE  Counted(x, m) /\ Few(x, m) /\ (m # rt => Enough(x, m))
    BY DEF Balance
  <2>1. CASE m = l
    BY <1>25, <2>1
  <2>2. CASE m # l
    <3>1. x[m].leaf = g[m].leaf /\ x[m].keys = g[m].keys /\ x[m].items = g[m].items
      BY <1>23, <2>2
    <3>2. m \in DOMAIN g /\ m # c
      BY <1>3, <1>23, <2>2, Zenon
    <3>3. Counted(g, m) /\ Few(g, m) /\ (m # rt => Enough(g, m))
      BY <1>2, <3>2 DEF Balance
    <3> QED  BY <3>1, <3>3 DEF Counted, Few, Enough
  <2> QED  BY <2>1, <2>2
<1>32. \A m \in DOMAIN h : m # p /\ lv[m] >= lv[p] => m \in DOMAIN x /\ Same(x[m], h[m])
  <2> SUFFICES ASSUME NEW m \in DOMAIN h, m # p, lv[m] >= lv[p]
               PROVE  m \in DOMAIN x /\ Same(x[m], h[m])
    OBVIOUS
  <2>1. lv[m] \in Nat
    BY Zenon DEF Tree, Forest
  <2>2. lv[l] = lv[c] /\ lv[r] = lv[c]
    BY <1>1, <1>2, <1>3, <1>5, <1>6
  <2>3. m \notin {l, r, p} /\ m # c /\ lv[m] >= lv[c] /\ lv[m] >= lv[l]
    <3>1. m \notin {l, r} /\ m # c
      <4> SUFFICES ASSUME lv[m] = lv[c] PROVE FALSE
        BY <1>3, <2>2, Zenon
      <4> QED  BY <1>7
    <3>2. lv[m] >= lv[c]
      BY <1>7, <2>1
    <3> QED  BY <2>2, <3>1, <3>2
  <2>4. m \in DOMAIN g /\ Same(g[m], h[m])
    BY <1>2, <2>3
  <2>5. lw[m] >= lw[l]
    BY <1>1, <1>6, <2>3, <2>4
  <2> QED  BY <1>23, <2>3, <2>4, <2>5
<1>33. x[p].leaf = h[p].leaf /\ x[p].parent = h[p].parent
  BY <1>7, <1>23, <1>27, Zenon DEF Same
<1>34. DOMAIN x \subseteq DOMAIN h
  BY <1>2, <1>23
<1>35. PICK lx : (\A m \in DOMAIN x : lx[m] = lw[m]) /\ Forest(x, {rt}, lx)
  BY <1>22 DEF Remains
<1>36. \A m \in DOMAIN x : lx[m] = lv[m]
  BY <1>1, <1>23, <1>35
<1>37. Cut(h, x, rt, lv, p)
  BY <1>22, <1>24, <1>28, <1>29, <1>30, <1>31, <1>32, <1>33, <1>34, <1>35, <1>36 DEF Cut
<1>39. MergedInto(g, x, rt, l, r, p, i)
  BY <1>13, <1>15, <1>17, <1>18, <1>19, <1>21, <1>38, Zenon DEF MergedInto
<1> QED  BY <1>20, <1>37, <1>39, Zenon

LEMMA MergeCuts ==
    ASSUME degree \in Int, NEW h, NEW rt, NEW lv, Tree(h, rt, lv),
           NEW g, NEW c, Cut(h, g, rt, lv, c), c # rt, Underflows(g, c),
           NEW p, NEW a, NEW i, NEW l, NEW r, l = g[p].items[i], r = g[p].items[i + 1],
           \/ c = l /\ a = r /\ Beside(g, c, p, i, a, i + 1)
           \/ c = r /\ a = l /\ Beside(g, c, p, i + 1, a, i),
           ~(Len(g[a].keys) > MinKeys(g[c].leaf))
    PROVE  Cut(h, Merge(g, p, i), rt, lv, p)
BY Merges, Zenon
-----------------------------------------------------------------------------
(* Underflow *)

LEMMA FixUnderflowCuts ==
    ASSUME degree \in Int, NEW h, NEW rt, NEW lv, Tree(h, rt, lv),
           NEW g, NEW c, Cut(h, g, rt, lv, c), c # rt, Underflows(g, c),
           NEW p, p = g[c].parent, NEW i \in 1 .. Len(g[p].items), g[p].items[i] = c
    PROVE  Cut(h, FixUnderflow(g, c, i), rt, lv, p)
<1>1. /\ p # Null /\ g[p].items \in Seq(DOMAIN g)
      /\ Len(g[p].keys) >= 1 /\ Len(g[p].keys) \in Nat
      /\ Len(g[p].items) = Len(g[p].keys) + 1
  <2>1. CutBelow(h, g, rt, lv, c, p)
    BY CutParent
  <2> QED  BY <2>1 DEF CutBelow
<1>2. PICK n \in Nat : n = Len(g[p].items) /\ n >= 2 /\ DOMAIN g[p].items = 1 .. n
  BY <1>1
<1> DEFINE Rich(j) == /\ j \in 1 .. n
                      /\ Len(g[g[p].items[j]].keys) > MinKeys(g[c].leaf)
<1>3. FixUnderflow(g, c, i) =
        CASE p = Null                  -> g
          [] p # Null /\ Rich(i - 1)   -> BorrowFromLeft(g, c, i)
          [] p # Null /\ ~Rich(i - 1) /\ Rich(i + 1) -> BorrowFromRight(g, c, i)
          [] OTHER -> IF i > 1 THEN Merge(g, p, i - 1)
                      ELSE IF i < Len(g[p].items) THEN Merge(g, p, i) ELSE g
  BY <1>2 DEF FixUnderflow
<1>4. i \in 1 .. n
  BY <1>2
<1>5. CASE Rich(i - 1)
  <2>1. FixUnderflow(g, c, i) = BorrowFromLeft(g, c, i)
    <3> HIDE DEF Rich
    <3> QED  BY <1>1, <1>3, <1>5
  <2>2. PICK l : l = g[p].items[i - 1] /\ i - 1 \in 1 .. n /\ Len(g[l].keys) > MinKeys(g[c].leaf)
    BY <1>5
  <2>3. Beside(g, c, p, i, l, i - 1)
    BY <1>2, <2>2 DEF Beside
  <2>4. Cut(h, BorrowFromLeft(g, c, i), rt, lv, p)
    BY <2>2, <2>3, BorrowFromLeftCuts
  <2> QED  BY <2>1, <2>4
<1>6. CASE ~Rich(i - 1) /\ Rich(i + 1)
  <2>1. FixUnderflow(g, c, i) = BorrowFromRight(g, c, i)
    <3> HIDE DEF Rich
    <3> QED  BY <1>1, <1>3, <1>6, Zenon
  <2>2. PICK r : r = g[p].items[i + 1] /\ i + 1 \in 1 .. n /\ Len(g[r].keys) > MinKeys(g[c].leaf)
    BY <1>6
  <2>3. Beside(g, c, p, i, r, i + 1)
    BY <1>2, <2>2 DEF Beside
  <2>4. Cut(h, BorrowFromRight(g, c, i), rt, lv, p)
    BY <2>2, <2>3, BorrowFromRightCuts, Zenon
  <2> QED  BY <2>1, <2>4
<1>7. CASE ~Rich(i - 1) /\ ~Rich(i + 1)
  <2>1. FixUnderflow(g, c, i) = IF i > 1 THEN Merge(g, p, i - 1)
                                ELSE IF i < Len(g[p].items) THEN Merge(g, p, i) ELSE g
    <3> HIDE DEF Rich
    <3> QED  BY <1>1, <1>3, <1>7
  <2>2. CASE i > 1
    <3>1. PICK j \in 1 .. n : j = i - 1 /\ j + 1 = i
      BY <1>4, <2>2
    <3>2. PICK l : l = g[p].items[j] /\ ~(Len(g[l].keys) > MinKeys(g[c].leaf))
      BY <1>7, <3>1, Zenon
    <3>3. Beside(g, c, p, j + 1, l, j)
      BY <1>2, <1>4, <3>1, <3>2 DEF Beside
    <3>4. c = g[p].items[j + 1]
      BY <3>1
    <3>5. Cut(h, Merge(g, p, j), rt, lv, p)
      BY <3>2, <3>3, <3>4, MergeCuts, Zenon
    <3> QED  BY <2>1, <2>2, <3>1, <3>5
  <2>3. CASE ~(i > 1)
    <3>1. i = 1 /\ i < Len(g[p].items) /\ i + 1 \in 1 .. n
      BY <1>2, <1>4, <2>3
    <3>2. PICK r : r = g[p].items[i + 1] /\ ~(Len(g[r].keys) > MinKeys(g[c].leaf))
      BY <1>7, <3>1
    <3>3. Beside(g, c, p, i, r, i + 1)
      BY <1>2, <1>4, <3>1, <3>2 DEF Beside
    <3>4. Cut(h, Merge(g, p, i), rt, lv, p)
      BY <3>2, <3>3, MergeCuts
    <3> QED  BY <2>1, <2>3, <3>1, <3>4
  <2> QED  BY <2>2, <2>3
<1> QED  BY <1>5, <1>6, <1>7
-----------------------------------------------------------------------------
(* The calls of DeleteFromNode *)

\* What a call of DeleteFromNode for node n makes of the tree h: n misses a key at
\* most, or n has taken one from a sibling, and then their parent may miss one.
Shrunk(h, rt, lv, n, r) ==
    \/ /\ Cut(h, r.heap, rt, lv, n)
       /\ r.empty => h[n].leaf /\ r.deleted
       /\ ~r.deleted /\ n # rt => Enough(r.heap, n)
    \/ /\ n # rt /\ ~h[n].leaf /\ ~r.empty
       /\ Cut(h, r.heap, rt, lv, h[n].parent)

LEMMA Uncut ==
    ASSUME degree \in Int, NEW h, NEW rt, NEW lv, Tree(h, rt, lv), NEW n \in DOMAIN h
    PROVE  Cut(h, h, rt, lv, n)
<1>1. Typed(h) /\ Forest(h, {rt}, lv) /\ Balance(h, rt, {})
  BY DEF Tree
<1>2. Counted(h, n) /\ Few(h, n) /\ (n # rt => Enough(h, n)) /\ Balance(h, rt, {n})
  BY <1>1 DEF Balance
<1>3. n # rt => Len(h[n].keys) + 1 >= MinKeys(h[n].leaf)
  <2>1. IsNode(h[n])
    BY <1>1 DEF Typed
  <2>2. PICK b \in Nat : b = MinKeys(h[n].leaf)
    BY <2>1, MinKeysIs DEF IsNode
  <2>3. PICK x \in Nat : x = Len(h[n].keys)
    BY <2>1 DEF IsNode
  <2>4. n # rt => x >= b
    BY <1>2, <2>2, <2>3 DEF Enough
  <2> QED  BY <2>2, <2>3, <2>4
<1> QED  BY <1>1, <1>2, <1>3 DEF Cut, Same

LEMMA DeleteFromLeafShrinks ==
    ASSUME degree \in Int, NEW h, NEW rt, NEW lv, Tree(h, rt, lv),
           NEW n \in DOMAIN h, h[n].leaf, NEW k \in Keys
    PROVE  Shrunk(h, rt, lv, n, DeleteFromLeaf(h, n, k))
<1>1. Typed(h) /\ Forest(h, {rt}, lv) /\ Balance(h, rt, {})
  BY DEF Tree
<1>2. /\ DOMAIN h[n] = Fields /\ h[n].leaf = TRUE
      /\ h[n].keys \in Seq(Keys) /\ h[n].items \in Seq(Values)
  BY <1>1 DEF Typed, IsNode
<1>3. PICK ks \in Seq(Keys), vs \in Seq(Values) : ks = h[n].keys /\ vs = h[n].items
  BY <1>2
<1>4. PICK c \in Nat : c = Len(ks) /\ c = Len(vs) /\ DOMAIN ks = 1 .. c
  <2>1. Len(h[n].items) = Len(h[n].keys)
    BY <1>1, <1>2 DEF Balance, Counted
  <2>2. Len(ks) \in Nat /\ DOMAIN ks = 1 .. Len(ks)
    OBVIOUS
  <2> QED  BY <1>3, <2>1, <2>2
<1>5. CASE k \notin ToSet(ks)
  <2>1. DeleteFromLeaf(h, n, k) =
          [heap |-> h, empty |-> FALSE, deleted |-> FALSE, stale |-> FALSE]
    BY <1>3, <1>5 DEF DeleteFromLeaf
  <2>2. Cut(h, h, rt, lv, n)
    BY Uncut
  <2>3. n # rt => Enough(h, n)
    BY <1>1 DEF Balance
  <2> QED  BY <2>1, <2>2, <2>3 DEF Shrunk
<1>6. CASE k \in ToSet(ks)
  <2>1. PICK at : at = LowerBound(h[n], k)
    OBVIOUS
  <2>2. at \in 1 .. c
    <3>1. h[n].keys \in Seq(Int) /\ k \in Int
      <4>1. Keys \subseteq Int
        OBVIOUS
      <4> QED  BY <1>2, <4>1, SeqOfMore, Zenon
    <3>2. at \in 1 .. Len(h[n].keys) + 1 /\ \A j \in 1 .. at - 1 : h[n].keys[j] < k
      BY <2>1, <3>1, LowerBoundIs
    <3>3. PICK j \in 1 .. c : ks[j] = k
      BY <1>4, <1>6 DEF ToSet
    <3>4. ~(j \in 1 .. at - 1)
      <4> SUFFICES ASSUME j \in 1 .. at - 1 PROVE FALSE
        OBVIOUS
      <4>1. k < k
        BY <1>3, <3>2, <3>3
      <4> QED  BY <3>1, <4>1
    <3>5. at \in 1 .. c + 1
      BY <1>3, <1>4, <3>2
    <3> QED  BY <3>4, <3>5
  <2>3. PICK kx, vx : kx = RemoveAt(ks, at) /\ vx = RemoveAt(vs, at)
    OBVIOUS
  <2>4. kx \in Seq(Keys) /\ Len(kx) = c - 1 /\ vx \in Seq(Values) /\ Len(vx) = c - 1
    BY <1>4, <2>2, <2>3, RemoveElements
  <2>5. PICK g : g = [h EXCEPT ![n].keys = kx, ![n].items = vx]
    BY Zenon
  <2>6. PICK r : /\ r = DeleteFromLeaf(h, n, k)
                 /\ r.heap = g /\ r.deleted = TRUE
    <3>1. k \in ToSet(h[n].keys)
      BY <1>3, <1>6
    <3>2. g = [h EXCEPT ![n].keys = RemoveAt(@, at), ![n].items = RemoveAt(@, at)]
      BY <1>3, <2>3, <2>5
    <3>3. PICK e : e = (g[n].keys = <<>>)
      OBVIOUS
    <3>4. DeleteFromLeaf(h, n, k) = [heap |-> g, empty |-> e, deleted |-> TRUE, stale |-> FALSE]
      BY <2>1, <3>1, <3>2, <3>3, Zenon DEF DeleteFromLeaf
    <3> QED  BY <3>4
  <2>7. /\ DOMAIN g = DOMAIN h /\ \A m \in DOMAIN h : m # n => g[m] = h[m]
        /\ DOMAIN g[n] = Fields /\ g[n].leaf = TRUE /\ g[n].keys = kx /\ g[n].items = vx
        /\ g[n].parent = h[n].parent
    BY <1>2, <2>5, Zenon DEF Fields
  <2>8. Typed(g)
    <3>1. IsNode(g[n])
      BY <2>4, <2>7, Zenon DEF IsNode
    <3> QED  BY <1>1, <2>7, <3>1 DEF Typed
  <2>9. Forest(g, {rt}, lv)
    <3>1. \A m \in DOMAIN h : Keeps(h, g, {rt}, m)
      BY <1>2, <2>7, Zenon DEF Keeps
    <3> QED  BY <1>1, <2>7, <3>1, ForestKept, Zenon
  <2>10. Balance(g, rt, {n})
    <3>1. \A m \in DOMAIN h : m # n => Counted(g, m) /\ Few(g, m) /\ (m # rt => Enough(g, m))
      BY <1>1, <2>7 DEF Balance, Counted, Few, Enough
    <3> QED  BY <2>7, <3>1 DEF Balance
  <2>11. PICK x \in Nat : x = c - 1 /\ x + 1 = c
    <3>1. c - 1 \in Nat
      BY <2>2
    <3> QED  BY <3>1
  <2>12. Len(g[n].keys) = x /\ Len(g[n].items) = x
    BY <2>4, <2>7, <2>11
  <2>13. Counted(g, n)
    BY <2>7, <2>12 DEF Counted
  <2>14. Few(g, n)
    <3>1. PICK d \in Nat : d = Degree - 1
      BY MinKeysIs, Zenon
    <3>2. c <= d
      BY <1>1, <1>3, <1>4, <3>1 DEF Balance, Few
    <3>3. x <= d
      BY <2>11, <3>2
    <3> QED  BY <2>12, <3>1, <3>3 DEF Few
  <2>15. n # rt => Len(g[n].keys) + 1 >= MinKeys(g[n].leaf)
    <3>1. n # rt => c >= MinKeys(TRUE)
      BY <1>1, <1>2, <1>3, <1>4, Zenon DEF Balance, Enough
    <3> QED  BY <2>7, <2>11, <2>12, <3>1, Zenon
  <2>16. Cut(h, g, rt, lv, n)
    BY <1>2, <2>7, <2>8, <2>9, <2>10, <2>13, <2>14, <2>15, Zenon DEF Cut, Same
  <2> QED  BY <1>2, <2>6, <2>16 DEF Shrunk
<1> QED  BY <1>3, <1>5, <1>6

\* Taking a leaf out of the chain changes the next leaf of one at most.
LEMMA DetachIs ==
    ASSUME NEW g, Typed(g), NEW c, NEW y, y = DetachLeafFromChain(g, c)
    PROVE  Typed(y) /\ DOMAIN y = DOMAIN g /\ \A m \in DOMAIN g : Same(y[m], g[m])
<1>1. y = g \/ \E q : y = [g EXCEPT ![q].next = g[c].next]
  BY Zenon DEF DetachLeafFromChain
<1>2. CASE y = g
  BY <1>2 DEF Same
<1>3. ASSUME NEW q, y = [g EXCEPT ![q].next = g[c].next]
      PROVE  Typed(y) /\ DOMAIN y = DOMAIN g /\ \A m \in DOMAIN g : Same(y[m], g[m])
  <2>1. DOMAIN y = DOMAIN g /\ \A m \in DOMAIN g : m # q => y[m] = g[m]
    BY <1>3
  <2>2. ASSUME q \in DOMAIN g
        PROVE  DOMAIN y[q] = Fields /\ Same(y[q], g[q]) /\ IsNode(g[q])
    <3>1. y[q] = [g[q] EXCEPT !.next = g[c].next]
      BY <1>3, <2>2
    <3>2. DOMAIN g[q] = Fields /\ IsNode(g[q])
      BY <2>2 DEF Typed, IsNode
    <3> QED  BY <3>1, <3>2 DEF Same, Fields
  <2>3. \A m \in DOMAIN g : Same(y[m], g[m])
    BY <2>1, <2>2 DEF Same
  <2>4. \A m \in DOMAIN g : IsNode(y[m])
    <3> SUFFICES ASSUME NEW m \in DOMAIN g PROVE IsNode(y[m])
      OBVIOUS
    <3>1. IsNode(g[m]) /\ Same(y[m], g[m])
      BY <2>3 DEF Typed
    <3>2. DOMAIN y[m] = Fields
      BY <2>1, <2>2, <3>1 DEF IsNode
    <3> QED  BY <3>1, <3>2 DEF IsNode, Same
  <2> QED  BY <2>1, <2>3, <2>4 DEF Typed
<1> QED  BY <1>1, <1>2, <1>3

\* Node n has lost a child, its keys are as they were.
Thinned(h, x, rt, lv, n) ==
    /\ Typed(x) /\ DOMAIN x \subseteq DOMAIN h /\ n \in DOMAIN x
    /\ Remains(x, rt, lv) /\ Balance(x, rt, {n})
    /\ x[n].leaf = h[n].leaf /\ x[n].parent = h[n].parent
    /\ x[n].keys = h[n].keys /\ Len(x[n].items) = Len(h[n].items) - 1
    /\ \A m \in DOMAIN h : m # n /\ lv[m] >= lv[n] => m \in DOMAIN x /\ Same(x[m], h[m])

LEMMA RemoveChildIs ==
    ASSUME degree \in Int, NEW h, NEW rt, NEW lv, Tree(h, rt, lv),
           NEW n \in DOMAIN h, ~h[n].leaf, NEW i \in 1 .. Len(h[n].items),
           NEW c, c = h[n].items[i], h[c].leaf, NEW g, Cut(h, g, rt, lv, c)
    PROVE  Thinned(h, RemoveChild(g, n, i), rt, lv, n)
<1>1. /\ Typed(g) /\ DOMAIN g \subseteq DOMAIN h /\ c \in DOMAIN g
      /\ Balance(g, rt, {c}) /\ g[c].leaf = h[c].leaf
      /\ \A m \in DOMAIN h : m # c /\ lv[m] >= lv[c] => m \in DOMAIN g /\ Same(g[m], h[m])
  BY DEF Cut
<1>2. PICK lw : (\A m \in DOMAIN g : lw[m] = lv[m]) /\ Forest(g, {rt}, lw)
  BY DEF Cut
<1>3. c # rt /\ c # n /\ h[c].parent = n /\ lv[c] \in Nat /\ lv[n] \in Nat /\ lv[c] + 1 = lv[n]
  <2>1. Forest(h, {rt}, lv)
    BY DEF Tree
  <2> QED  BY <2>1, KidOf
<1>4. n \in DOMAIN g /\ Same(g[n], h[n]) /\ ~g[n].leaf
  <2>1. lv[n] >= lv[c]
    BY <1>3
  <2>2. n \in DOMAIN g /\ Same(g[n], h[n])
    BY <1>1, <1>3, <2>1
  <2> QED  BY <2>2 DEF Same
<1>5. c = g[n].items[i] /\ i \in 1 .. Len(g[n].items) /\ g[n].items = h[n].items
  BY <1>4 DEF Same
<1>6. g[n].items \in Seq(DOMAIN g) /\ Differ(g[n].items) /\ Len(g[n].items) \in Nat
  BY <1>2, <1>4, BroodIs DEF Differ
<1>7. PICK ix : /\ ix = RemoveAt(g[n].items, i) /\ ix \in Seq(DOMAIN g)
                /\ Len(ix) = Len(g[n].items) - 1 /\ Loses(g[n].items, ix, c)
  BY <1>5, <1>6, RemoveElements
<1>8. Len(ix) # 0
  <2>1. Counted(h, n) /\ (n # rt => Enough(h, n)) /\ IsNode(h[n])
    BY DEF Tree, Balance, Typed
  <2>2. h[n].leaf = FALSE /\ Len(h[n].keys) \in Nat
    BY <2>1 DEF IsNode
  <2>3. PICK y \in Nat : y = Len(h[n].keys) /\ Len(h[n].items) = y + 1
    BY <2>1, <2>2 DEF Counted
  <2>4. y >= 1
    <3>1. CASE n = rt
      BY <2>3, <3>1 DEF Tree
    <3>2. CASE n # rt
      <4>1. PICK b \in Nat \ {0} : b = MinKeys(FALSE)
        BY MinKeysIs, Zenon
      <4>2. y >= b
        BY <2>1, <2>2, <2>3, <3>2, <4>1, Zenon DEF Enough
      <4> QED  BY <4>2
    <3> QED  BY <3>1, <3>2
  <2>5. Len(ix) = y + 1 - 1
    BY <1>5, <1>7, <2>3
  <2> QED  BY <2>4, <2>5
<1>9. PICK d : d = DetachLeafFromChain(g, c)
  OBVIOUS
<1>10. Typed(d) /\ DOMAIN d = DOMAIN g /\ \A m \in DOMAIN g : Same(d[m], g[m])
  BY <1>1, <1>9, DetachIs
<1>11. PICK y : y = [d EXCEPT ![n].items = ix]
  BY Zenon
<1>12. RemoveChild(g, n, i) = Free(y, c)
  <2>1. d[n].items = g[n].items
    BY <1>4, <1>10 DEF Same
  <2>2. y = [d EXCEPT ![n].items = RemoveAt(@, i)]
    BY <1>7, <1>11, <2>1
  <2> QED  BY <1>1, <1>5, <1>9, <2>2, Zenon DEF RemoveChild
<1>13. PICK x : x = Free(y, c)
  OBVIOUS
<1>14. DOMAIN x = DOMAIN g \ {c} /\ \A m \in DOMAIN x : m # n => x[m] = d[m]
  BY <1>10, <1>11, <1>13 DEF Free
<1>15. /\ n \in DOMAIN x /\ DOMAIN x[n] = Fields /\ x[n].leaf = g[n].leaf /\ x[n].keys = g[n].keys
       /\ x[n].items = ix /\ x[n].parent = g[n].parent
  <2>1. n \in DOMAIN x /\ x[n] = y[n]
    BY <1>3, <1>4, <1>10, <1>11, <1>13 DEF Free
  <2>2. y[n] = [d[n] EXCEPT !.items = ix]
    BY <1>4, <1>10, <1>11
  <2>3. DOMAIN d[n] = Fields
    BY <1>4, <1>10 DEF Typed, IsNode
  <2>4. /\ DOMAIN y[n] = Fields /\ y[n].leaf = d[n].leaf /\ y[n].keys = d[n].keys
        /\ y[n].items = ix /\ y[n].parent = d[n].parent
    BY <2>2, <2>3 DEF Fields
  <2> QED  BY <1>4, <1>10, <2>1, <2>4 DEF Same
<1>16. \A m \in DOMAIN x : m # n => Same(x[m], g[m])
  BY <1>10, <1>14
<1>17. Typed(x)
  <2>1. IsFiniteSet(DOMAIN x)
    <3>1. IsFiniteSet(DOMAIN g)
      BY <1>1 DEF Typed
    <3>2. PICK D : D = DOMAIN g
      OBVIOUS
    <3>3. IsFiniteSet(D \ {c})
      BY <3>1, <3>2, FS_RemoveElement, Zenon
    <3> QED  BY <1>14, <3>2, <3>3
  <2>2. IsNode(x[n])
    <3>1. IsNode(g[n])
      BY <1>1, <1>4 DEF Typed
    <3> QED  BY <1>4, <1>15, <3>1 DEF IsNode
  <2>3. \A m \in DOMAIN x : IsNode(x[m])
    BY <1>10, <1>14, <2>2 DEF Typed
  <2>4. DOMAIN x \subseteq Nat \ {0}
    BY <1>1, <1>14 DEF Typed
  <2> QED  BY <2>1, <2>3, <2>4 DEF Typed
<1>18. \A m \in DOMAIN x : x[m].leaf = g[m].leaf /\ x[m].parent = g[m].parent /\ x[m].keys = g[m].keys
  BY <1>15, <1>16 DEF Same
<1>19. PICK lx : lx = [m \in DOMAIN x |-> lw[m]]
  BY Zenon
<1>20. lx \in [DOMAIN x -> Nat] /\ \A m \in DOMAIN x : lx[m] = lw[m]
  BY <1>2, <1>14, <1>19 DEF Forest
<1>21. ASSUME NEW m, Holds(ix, m)
       PROVE  m \in DOMAIN x /\ m # rt /\ x[m].parent = n /\ lx[m] + 1 = lx[n]
  <2>1. Holds(g[n].items, m) /\ m # c
    BY <1>7, <1>21 DEF Loses
  <2>2. PICK j \in 1 .. Len(g[n].items) : g[n].items[j] = m
    BY <2>1 DEF Holds
  <2>3. m \in DOMAIN g /\ m # rt /\ g[m].parent = n /\ lw[m] + 1 = lw[n]
    BY <1>2, <1>4, <2>2, KidOf
  <2>4. m \in DOMAIN x
    BY <1>14, <2>1, <2>3
  <2> QED  BY <1>15, <1>18, <1>20, <2>3, <2>4
<1>22. Brood(x, {rt}, lx, n)
  <2>1. \A j \in 1 .. Len(ix) : Holds(ix, ix[j])
    BY DEF Holds
  <2>2. \A j \in 1 .. Len(ix) :
          ix[j] \in DOMAIN x /\ ix[j] # rt /\ x[ix[j]].parent = n /\ lx[ix[j]] + 1 = lx[n]
    BY <1>21, <2>1
  <2>3. ix \in Seq(DOMAIN x)
    <3>1. PICK z \in Nat : z = Len(ix) /\ ix \in [1 .. z -> DOMAIN g]
      BY <1>7
    <3>2. ix \in [1 .. z -> DOMAIN x]
      BY <2>2, <3>1
    <3> QED  BY <3>2
  <2>4. ix # <<>>
    BY <1>8
  <2>5. Differ(ix)
    BY <1>7 DEF Loses
  <2> QED  BY <1>15, <2>2, <2>3, <2>4, <2>5 DEF Brood, Differ
<1>23. PICK R, S : R = {rt} /\ S = {n, c}
  BY Zenon
<1>24. Surgery(g, R, x, R, S)
  <2>1. DOMAIN g \ S = DOMAIN x \ S
    BY <1>14, <1>23
  <2>2. \A m \in DOMAIN g \ S : x[m].leaf = g[m].leaf /\ (~g[m].leaf => x[m].items = g[m].items)
    BY <1>16, <1>23, <2>1 DEF Same
  <2>3. ASSUME NEW m \in DOMAIN g \ R, g[m].parent \notin S
        PROVE  m \in DOMAIN x /\ m \notin R /\ x[m].parent = g[m].parent
    <3>1. m # c
      <4>1. g[c].parent = n
        BY <1>2, <1>4, <1>5, KidOf
      <4> QED  BY <1>23, <2>3, <4>1
    <3> QED  BY <1>14, <1>18, <1>23, <2>3, <3>1
  <2>4. ASSUME NEW m \in DOMAIN x \ R
        PROVE  \/ m \in DOMAIN g \ R /\ g[m].parent \notin S
               \/ x[m].parent \in S /\ Hangs(x, m)
    <3>1. m \in DOMAIN g /\ m # rt /\ m # c
      BY <1>14, <1>23
    <3>2. CASE g[m].parent \notin S
      BY <1>23, <3>1, <3>2
    <3>3. CASE g[m].parent \in S
      <4>1. ~g[g[m].parent].leaf /\ Holds(g[g[m].parent].items, m)
        BY <1>2, <3>1, ParentOf DEF Holds
      <4>2. g[m].parent = n
        BY <1>1, <1>23, <3>3, <4>1, Zenon
      <4>3. Holds(ix, m)
        BY <1>7, <3>1, <4>1, <4>2 DEF Loses
      <4>4. x[m].parent = n
        BY <1>21, <4>3
      <4> QED  BY <1>4, <1>15, <1>23, <4>3, <4>4 DEF Hangs, Holds
    <3> QED  BY <3>2, <3>3
  <2> QED  BY <2>1, <2>2, <2>3, <2>4 DEF Surgery
<1>25. Forest(x, {rt}, lx)
  <2>1. Forest(g, R, lw) /\ R \subseteq DOMAIN x
    <3>1. rt \in DOMAIN g
      BY <1>2 DEF Forest
    <3> QED  BY <1>2, <1>3, <1>14, <1>23, <3>1
  <2>2. lx[n] # 0
    BY <1>2, <1>4, <1>15, <1>20 DEF Forest
  <2>3. c \notin DOMAIN x
    BY <1>14
  <2>4. ASSUME NEW m \in DOMAIN x, m \in S
        PROVE  (x[m].leaf <=> lx[m] = 0) /\ (~x[m].leaf => Brood(x, R, lx, m))
    <3>1. m = n
      BY <1>23, <2>3, <2>4
    <3> QED  BY <1>4, <1>15, <1>22, <1>23, <2>2, <3>1
  <2>5. \A m \in DOMAIN x : m \in DOMAIN g => lx[m] = lw[m]
    BY <1>20
  <2>6. Forest(x, R, lx)
    BY <1>20, <1>24, <2>1, <2>4, <2>5, SurgeryKeepsForest
  <2> QED  BY <1>23, <2>6
<1>26. Remains(x, rt, lv)
  <2>1. \A m \in DOMAIN x : lx[m] = lv[m]
    BY <1>2, <1>14, <1>20
  <2> QED  BY <1>25, <2>1 DEF Remains
<1>27. Balance(x, rt, {n})
  <2> SUFFICES ASSUME NEW m \in DOMAIN x, m # n
               PROVE  Counted(x, m) /\ Few(x, m) /\ (m # rt => Enough(x, m))
    BY DEF Balance
  <2>1. x[m].leaf = g[m].leaf /\ x[m].keys = g[m].keys /\ x[m].items = g[m].items
    BY <1>16 DEF Same
  <2>2. Counted(g, m) /\ Few(g, m) /\ (m # rt => Enough(g, m))
    BY <1>1, <1>14 DEF Balance
  <2> QED  BY <2>1, <2>2 DEF Counted, Few, Enough
<1>28. \A m \in DOMAIN h : m # n /\ lv[m] >= lv[n] => m \in DOMAIN x /\ Same(x[m], h[m])
  <2> SUFFICES ASSUME NEW m \in DOMAIN h, m # n, lv[m] >= lv[n]
               PROVE  m \in DOMAIN x /\ Same(x[m], h[m])
    OBVIOUS
  <2>1. lv[m] \in Nat
    BY DEF Tree, Forest
  <2>2. lv[m] >= lv[c] /\ m # c
    BY <1>3, <2>1
  <2>3. m \in DOMAIN g /\ Same(g[m], h[m])
    BY <1>1, <2>2
  <2>4. m \in DOMAIN x /\ Same(x[m], g[m])
    BY <1>14, <1>16, <2>2, <2>3
  <2> QED  BY <2>3, <2>4 DEF Same
<1>29. /\ x[n].leaf = h[n].leaf /\ x[n].parent = h[n].parent
       /\ x[n].keys = h[n].keys /\ Len(x[n].items) = Len(h[n].items) - 1
  BY <1>4, <1>5, <1>7, <1>15 DEF Same
<1>30. Thinned(h, x, rt, lv, n)
  BY <1>1, <1>14, <1>15, <1>17, <1>26, <1>27, <1>28, <1>29 DEF Thinned
<1> QED  BY <1>12, <1>13, <1>30

\* Node n may have too many or too few keys, or the wrong ones; it has enough
\* children.
Trimmed(h, g, rt, lv, n) ==
    /\ Typed(g) /\ DOMAIN g \subseteq DOMAIN h /\ n \in DOMAIN g
    /\ Remains(g, rt, lv) /\ Balance(g, rt, {n})
    /\ g[n].leaf = h[n].leaf /\ g[n].parent = h[n].parent
    /\ Len(g[n].items) <= Degree /\ (n # rt => Len(g[n].items) >= MinKeys(FALSE))
    /\ \A m \in DOMAIN h : m # n /\ lv[m] >= lv[n] => m \in DOMAIN g /\ Same(g[m], h[m])

LEMMA CutIsTrimmed ==
    ASSUME degree \in Int, NEW h, NEW rt, NEW lv, NEW n, h[n].leaf = FALSE,
           NEW g, Cut(h, g, rt, lv, n)
    PROVE  Trimmed(h, g, rt, lv, n)
<1>1. n \in DOMAIN g /\ Typed(g) /\ g[n].leaf = FALSE
  BY DEF Cut
<1>2. PICK c \in Nat : c = Len(g[n].keys)
  BY <1>1 DEF Typed, IsNode
<1>3. Len(g[n].items) = c + 1
  BY <1>1, <1>2 DEF Cut, Counted
<1>4. n # rt => c + 1 >= MinKeys(FALSE)
  BY <1>1, <1>2, Zenon DEF Cut
<1>5. c + 1 <= Degree
  <2>1. c <= Degree - 1
    BY <1>2 DEF Cut, Few
  <2>2. Degree \in Nat
    BY DegreeIs, Zenon
  <2> QED  BY <2>1, <2>2
<1>6. Remains(g, rt, lv)
  BY DEF Cut, Remains
<1> QED  BY <1>3, <1>4, <1>5, <1>6, Zenon DEF Cut, Trimmed

LEMMA ThinnedIsTrimmed ==
    ASSUME degree \in Int, NEW h, NEW rt, NEW lv, Tree(h, rt, lv), NEW n \in DOMAIN h,
           ~h[n].leaf, NEW g, Thinned(h, g, rt, lv, n)
    PROVE  /\ Trimmed(h, g, rt, lv, n) /\ (n # rt => ~Underflows(g, n))
           /\ g[n].items # <<>>
<1>1. h[n].leaf = FALSE /\ h[n].keys \in Seq(Keys)
  BY DEF Tree, Typed, IsNode
<1>2. PICK c \in Nat : c = Len(h[n].keys)
  BY <1>1
<1>3. Len(h[n].items) = c + 1
  BY <1>1, <1>2 DEF Tree, Balance, Counted
<1>4. Len(g[n].items) = c
  <2>1. Len(g[n].items) = c + 1 - 1
    BY <1>3 DEF Thinned
  <2> QED  BY <2>1
<1>5. PICK b \in Nat \ {0} : b = MinKeys(FALSE)
  BY MinKeysIs, Zenon
<1>6. n # rt => c >= b
  BY <1>1, <1>2, <1>5, Zenon DEF Tree, Balance, Enough
<1>7. c <= Degree
  <2>1. c <= Degree - 1
    BY <1>2 DEF Tree, Balance, Few
  <2>2. Degree \in Nat
    BY DegreeIs, Zenon
  <2> QED  BY <2>1, <2>2
<1>8. g[n].leaf = FALSE /\ Len(g[n].keys) = c
  BY <1>1, <1>2 DEF Thinned
<1>9. n # rt => ~Underflows(g, n)
  <2> SUFFICES ASSUME n # rt PROVE ~(Len(g[n].keys) < MinKeys(FALSE))
    BY <1>8, Zenon DEF Underflows
  <2>1. c >= b
    BY <1>6
  <2>2. ~(c < b)
    BY <2>1
  <2> QED  BY <1>5, <1>8, <2>2, Zenon
<1>10. g[n].items # <<>>
  <2>1. PICK lw : Forest(g, {rt}, lw) /\ n \in DOMAIN g
    BY DEF Thinned, Remains
  <2> QED  BY <1>8, <2>1, BroodIs
<1> QED  BY <1>4, <1>5, <1>6, <1>7, <1>9, <1>10, Zenon DEF Thinned, Trimmed

\* Its leaves have keys.
LEMMA TrimmedFilled ==
    ASSUME degree \in Int, NEW h, NEW rt, NEW lv, NEW n, h[n].leaf = FALSE,
           NEW g, Trimmed(h, g, rt, lv, n)
    PROVE  LeavesFilled(g)
<1>1. /\ Typed(g) /\ n \in DOMAIN g /\ Remains(g, rt, lv) /\ Balance(g, rt, {n})
      /\ g[n].leaf = FALSE
  BY Zenon DEF Trimmed
<1>2. PICK lw : Forest(g, {rt}, lw)
  BY <1>1 DEF Remains
<1> SUFFICES ASSUME NEW f \in DOMAIN g, g[f].leaf
             PROVE  g[f].keys \in Seq(Keys) /\ g[f].keys # <<>>
  BY DEF LeavesFilled
<1>3. g[f].leaf = TRUE /\ g[f].keys \in Seq(Keys)
  BY <1>1 DEF Typed, IsNode
<1>4. f # n
  BY <1>1
<1>5. f # rt
  <2> SUFFICES ASSUME f = rt PROVE FALSE
    OBVIOUS
  <2>1. lw[f] = 0 /\ lw[n] # 0 /\ lw[n] \in Nat
    BY <1>1, <1>2 DEF Forest
  <2>2. lw[n] < lw[rt]
    BY <1>1, <1>2, <1>4, RootIsHighest, Zenon DEF Typed
  <2> QED  BY <2>1, <2>2
<1>6. Enough(g, f)
  BY <1>1, <1>4, <1>5 DEF Balance
<1>7. PICK half \in Nat \ {0} : MinKeys(TRUE) = half
  BY DegreeIs, Zenon
<1>8. Len(g[f].keys) >= half
  BY <1>3, <1>6, <1>7, Zenon DEF Enough
<1>9. half >= 1 /\ Len(<<>>) = 0
  OBVIOUS
<1> QED  BY <1>3, <1>8, <1>9

\* Node n has the keys that its children call for.
Settled(h, g, x, rt, lv, n) ==
    /\ Cut(h, x, rt, lv, n)
    /\ x[n].leaf = FALSE /\ Len(x[n].keys) = Len(g[n].items) - 1

LEMMA RefreshedCut ==
    ASSUME degree \in Int, NEW h, NEW rt, NEW lv, Tree(h, rt, lv), NEW n \in DOMAIN h,
           h[n].leaf = FALSE, NEW g, Trimmed(h, g, rt, lv, n),
           NEW x, x = RefreshInternalKeys(g, n)
    PROVE  Settled(h, g, x, rt, lv, n)
<1>1. /\ Typed(g) /\ DOMAIN g \subseteq DOMAIN h /\ n \in DOMAIN g
      /\ Remains(g, rt, lv) /\ Balance(g, rt, {n})
      /\ g[n].leaf = FALSE /\ g[n].parent = h[n].parent
      /\ Len(g[n].items) <= Degree /\ (n # rt => Len(g[n].items) >= MinKeys(FALSE))
      /\ \A m \in DOMAIN h : m # n /\ lv[m] >= lv[n] => m \in DOMAIN g /\ Same(g[m], h[m])
  BY Zenon DEF Trimmed
<1>2. PICK lw : (\A m \in DOMAIN g : lw[m] = lv[m]) /\ Forest(g, {rt}, lw)
  BY <1>1 DEF Remains
<1>3. LeavesFilled(g)
  BY TrimmedFilled
<1>4. /\ Typed(x) /\ Forest(x, {rt}, lw) /\ DOMAIN x = DOMAIN g
      /\ \A m \in DOMAIN g : m # n => x[m] = g[m]
      /\ x[n].leaf = FALSE /\ x[n].items = g[n].items /\ x[n].parent = g[n].parent
      /\ Len(x[n].keys) = Len(x[n].items) - 1
  BY <1>1, <1>2, <1>3, Refreshed
<1>5. Balance(x, rt, {n})
  <2> SUFFICES ASSUME NEW m \in DOMAIN x, m # n
               PROVE  Counted(x, m) /\ Few(x, m) /\ (m # rt => Enough(x, m))
    BY DEF Balance
  <2>1. x[m] = g[m] /\ m \in DOMAIN g
    BY <1>4
  <2>2. Counted(g, m) /\ Few(g, m) /\ (m # rt => Enough(g, m))
    BY <1>1, <2>1 DEF Balance
  <2> QED  BY <2>1, <2>2 DEF Counted, Few, Enough
<1>6. PICK c \in Nat \ {0} : c = Len(g[n].items)
  BY <1>1, <1>2, BroodIs
<1>7. Len(x[n].items) = c /\ Len(x[n].keys) = c - 1
  BY <1>4, <1>6
<1>8. Counted(x, n)
  <2>1. c = c - 1 + 1
    OBVIOUS
  <2> QED  BY <1>4, <1>7, <2>1 DEF Counted
<1>9. Few(x, n)
  <2>1. PICK d \in Nat : d = Degree
    BY DegreeIs, Zenon
  <2>2. c <= d
    BY <1>1, <1>6, <2>1
  <2>3. c - 1 <= d - 1
    BY <2>2
  <2> QED  BY <1>7, <2>1, <2>3 DEF Few
<1>10. n # rt => Len(x[n].keys) + 1 >= MinKeys(x[n].leaf)
  <2> SUFFICES ASSUME n # rt PROVE Len(x[n].keys) + 1 >= MinKeys(FALSE)
    BY <1>4, Zenon
  <2>1. PICK b \in Nat : b = MinKeys(FALSE)
    BY MinKeysIs, Zenon
  <2>2. c >= b
    BY <1>1, <1>6, <2>1, Zenon
  <2>3. c - 1 + 1 >= b
    BY <2>2
  <2> QED  BY <1>7, <2>1, <2>3, Zenon
<1>11. \A m \in DOMAIN h : m # n /\ lv[m] >= lv[n] => m \in DOMAIN x /\ Same(x[m], h[m])
  BY <1>1, <1>4
<1>12. \A m \in DOMAIN x : lw[m] = lv[m]
  BY <1>2, <1>4
<1>13. DOMAIN x \subseteq DOMAIN h /\ n \in DOMAIN x /\ x[n].leaf = h[n].leaf
       /\ x[n].parent = h[n].parent
  BY <1>1, <1>4, Zenon
<1>14. Cut(h, x, rt, lv, n)
  BY <1>4, <1>5, <1>8, <1>9, <1>10, <1>11, <1>12, <1>13 DEF Cut
<1> QED  BY <1>4, <1>14 DEF Settled

SelfSettled(h, g, lv, n, found, stale) ==
    \E x : /\ Settled(h, g, x, root, lv, n)
           /\ FixSelf(g, n, found, stale) =
                [heap |-> x, empty |-> FALSE, deleted |-> found, stale |-> stale]

LEMMA FixSelfTrims ==
    ASSUME degree \in Int, NEW h, NEW lv, Tree(h, root, lv), NEW n \in DOMAIN h,
           h[n].leaf = FALSE, NEW g, Trimmed(h, g, root, lv, n),
           NEW found, NEW stale, n # root => ~Underflows(g, n)
    PROVE  SelfSettled(h, g, lv, n, found, stale)
<1>1. g[n].items # <<>>
  <2>1. n \in DOMAIN g /\ g[n].leaf = FALSE
    BY DEF Trimmed
  <2>2. PICK lw : Forest(g, {root}, lw)
    BY DEF Trimmed, Remains
  <2> QED  BY <2>1, <2>2, BroodIs
<1>2. PICK x : x = RefreshInternalKeys(g, n)
  OBVIOUS
<1>3. FixSelf(g, n, found, stale) =
        [heap |-> x, empty |-> FALSE, deleted |-> found, stale |-> stale]
  BY <1>1, <1>2 DEF FixSelf
<1>4. Settled(h, g, x, root, lv, n)
  BY <1>2, RefreshedCut, Zenon
<1> QED  BY <1>3, <1>4, Zenon DEF SelfSettled

LEMMA FixSelfShrinks ==
    ASSUME degree \in Int, NEW h, NEW lv, Tree(h, root, lv), NEW n \in DOMAIN h,
           h[n].leaf = FALSE, NEW g, Cut(h, g, root, lv, n),
           NEW found, NEW stale
    PROVE  Shrunk(h, root, lv, n, FixSelf(g, n, found, stale))
<1>1. PICK r : r = FixSelf(g, n, found, stale)
  OBVIOUS
<1>2. n \in DOMAIN g /\ g[n].leaf = FALSE /\ Typed(g) /\ g[n].parent = h[n].parent
  BY DEF Cut
<1>3. CASE n # root /\ Underflows(g, n)
  <2>1. PICK p, s : p = g[n].parent /\ s = CHOOSE i \in DOMAIN g[p].items : g[p].items[i] = n
    OBVIOUS
  <2>2. g[p].items \in Seq(DOMAIN g) /\ \E i \in 1 .. Len(g[p].items) : g[p].items[i] = n
    <3>1. PICK lw : Forest(g, {root}, lw)
      BY DEF Cut
    <3>2. p \in DOMAIN g /\ ~g[p].leaf /\ \E i \in 1 .. Len(g[p].items) : g[p].items[i] = n
      BY <1>2, <1>3, <2>1, <3>1, ParentOf
    <3> QED  BY <3>1, <3>2, BroodIs
  <2>3. s \in 1 .. Len(g[p].items) /\ g[p].items[s] = n
    <3>1. DOMAIN g[p].items = 1 .. Len(g[p].items)
      BY <2>2
    <3> QED  BY <2>1, <2>2, <3>1, Zenon
  <2>4. r = [heap |-> FixUnderflow(g, n, s), empty |-> FALSE, deleted |-> found, stale |-> stale]
    BY <1>1, <1>3, <2>1 DEF FixSelf
  <2>5. Cut(h, FixUnderflow(g, n, s), root, lv, p)
    BY <1>3, <2>1, <2>3, FixUnderflowCuts, Zenon
  <2> QED  BY <1>1, <1>2, <1>3, <2>1, <2>4, <2>5 DEF Shrunk
<1>4. CASE ~(n # root /\ Underflows(g, n))
  <2>1. Trimmed(h, g, root, lv, n)
    BY CutIsTrimmed, Zenon
  <2>2. Settled(h, g, r.heap, root, lv, n) /\ r.empty = FALSE /\ r.deleted = found
    <3>1. n # root => ~Underflows(g, n)
      BY <1>4
    <3>2. SelfSettled(h, g, lv, n, found, stale)
      BY <2>1, <3>1, FixSelfTrims, Zenon
    <3> QED  BY <1>1, <3>2 DEF SelfSettled
  <2>3. /\ Cut(h, r.heap, root, lv, n)
        /\ r.heap[n].leaf = FALSE /\ Len(r.heap[n].keys) = Len(g[n].items) - 1
    BY <2>2 DEF Settled
  <2>4. n # root => Enough(r.heap, n)
    <3> SUFFICES ASSUME n # root PROVE Len(r.heap[n].keys) >= MinKeys(FALSE)
      BY <2>3, Zenon DEF Enough
    <3>1. PICK c \in Nat : c = Len(g[n].keys)
      BY <1>2 DEF Typed, IsNode
    <3>2. Len(g[n].items) = c + 1
      BY <1>2, <3>1 DEF Cut, Counted
    <3>3. PICK b \in Nat : b = MinKeys(FALSE)
      BY MinKeysIs, Zenon
    <3>4. ~(c < b)
      BY <1>2, <1>4, <3>1, <3>3, Zenon DEF Underflows
    <3>5. Len(r.heap[n].keys) = c + 1 - 1
      BY <2>3, <3>2
    <3>6. c + 1 - 1 >= b
      BY <3>4
    <3> QED  BY <3>3, <3>5, <3>6, Zenon
  <2> QED  BY <1>1, <2>2, <2>3, <2>4 DEF Shrunk
<1> QED  BY <1>3, <1>4

\* Enough is the opposite of underflow.
LEMMA EnoughIs ==
    ASSUME degree \in Int, NEW g, Typed(g), NEW m \in DOMAIN g
    PROVE  Enough(g, m) <=> ~Underflows(g, m)
<1>1. PICK b, x \in Nat : x = Len(g[m].keys) /\ b = MinKeys(g[m].leaf) /\ b \in Nat
  <2>1. g[m].leaf \in BOOLEAN /\ Len(g[m].keys) \in Nat
    BY DEF Typed, IsNode
  <2> QED  BY <2>1, MinKeysIs
<1>2. x >= b <=> ~(x < b)
  BY <1>1
<1> QED  BY <1>1, <1>2 DEF Enough, Underflows

\* A node that misses no key does not concern its parent.
LEMMA CutAbove ==
    ASSUME degree \in Int, NEW h, NEW rt, NEW lv, Tree(h, rt, lv),
           NEW g, NEW c, Cut(h, g, rt, lv, c), c # rt, Enough(g, c),
           NEW n, n = g[c].parent
    PROVE  Cut(h, g, rt, lv, n)
<1>1. CutBelow(h, g, rt, lv, c, n)
  BY CutParent
<1>2. /\ n \in DOMAIN h /\ n \in DOMAIN g /\ Same(g[n], h[n]) /\ g[n].leaf = FALSE
      /\ lv[c] + 1 = lv[n] /\ lv[c] \in Nat /\ lv[n] \in Nat
      /\ Counted(g, n) /\ Few(g, n) /\ (n # rt => Enough(g, n))
      /\ Len(g[n].keys) \in Nat
  BY <1>1 DEF CutBelow
<1>3. Balance(g, rt, {n})
  <2> SUFFICES ASSUME NEW m \in DOMAIN g, m # n
               PROVE  Counted(g, m) /\ Few(g, m) /\ (m # rt => Enough(g, m))
    BY DEF Balance
  <2>1. CASE m = c
    BY <2>1 DEF Cut
  <2>2. CASE m # c
    BY <2>2 DEF Cut, Balance
  <2> QED  BY <2>1, <2>2
<1>4. n # rt => Len(g[n].keys) + 1 >= MinKeys(g[n].leaf)
  <2> SUFFICES ASSUME n # rt PROVE Len(g[n].keys) + 1 >= MinKeys(FALSE)
    BY <1>2, Zenon
  <2>1. PICK x \in Nat : x = Len(g[n].keys)
    BY <1>2, Zenon
  <2>2. PICK b \in Nat : b = MinKeys(FALSE)
    BY MinKeysIs, Zenon
  <2>3. x >= b
    BY <1>2, <2>1, <2>2, Zenon DEF Enough
  <2>4. x + 1 >= b
    BY <2>3
  <2> QED  BY <2>1, <2>2, <2>4, Zenon
<1>5. \A m \in DOMAIN h : m # n /\ lv[m] >= lv[n] => m \in DOMAIN g /\ Same(g[m], h[m])
  <2> SUFFICES ASSUME NEW m \in DOMAIN h, m # n, lv[m] >= lv[n]
               PROVE  m \in DOMAIN g /\ Same(g[m], h[m])
    OBVIOUS
  <2>1. lv[m] \in Nat
    BY DEF Tree, Forest
  <2>2. lv[m] >= lv[c] /\ m # c
    BY <1>2, <2>1
  <2> QED  BY <2>2 DEF Cut
<1>6. g[n].leaf = h[n].leaf /\ g[n].parent = h[n].parent
  BY <1>2 DEF Same
<1> QED  BY <1>2, <1>3, <1>4, <1>5, <1>6 DEF Cut

LEMMA DeleteFromInternalShrinks ==
    ASSUME degree \in Int, NEW h, NEW lv, Tree(h, root, lv), NEW n \in DOMAIN h,
           ~h[n].leaf, NEW i \in 1 .. Len(h[n].items), NEW c, c = h[n].items[i],
           NEW r, Shrunk(h, root, lv, c, r)
    PROVE  Shrunk(h, root, lv, n, DeleteFromInternal(n, i, r))
<1>1. /\ c \in DOMAIN h /\ c # root /\ c # n /\ h[c].parent = n
      /\ lv[c] \in Nat /\ lv[n] \in Nat /\ lv[c] + 1 = lv[n]
  <2>1. Forest(h, {root}, lv)
    BY DEF Tree
  <2>2. /\ c \in DOMAIN h /\ c \notin {root} /\ c # n /\ h[c].parent = n
        /\ lv[c] \in Nat /\ lv[n] \in Nat /\ lv[c] + 1 = lv[n]
    BY <2>1, KidOf
  <2> QED  BY <2>2
<1>2. h[n].leaf = FALSE
  BY DEF Tree, Typed, IsNode
<1>3. PICK g : g = r.heap
  OBVIOUS
<1> DEFINE Past == r.deleted /\ ~r.empty /\ i > Len(g[n].items)
           Fixed == CASE r.empty -> RemoveChild(g, n, i)
                      [] r.deleted /\ ~r.empty /\ ~Past /\ Underflows(g, g[n].items[i])
                           -> FixUnderflow(g, g[n].items[i], i)
                      [] OTHER -> g
<1>4. PICK y, s : y = Fixed /\ s = (r.stale \/ Past)
  OBVIOUS
<1>5. DeleteFromInternal(n, i, r) = FixSelf(y, n, r.deleted, s)
  BY <1>3, <1>4 DEF DeleteFromInternal
<1>6. CASE r.empty
  <2>1. Cut(h, g, root, lv, c) /\ h[c].leaf /\ r.deleted
    BY <1>3, <1>6 DEF Shrunk
  <2>2. y = RemoveChild(g, n, i)
    BY <1>4, <1>6
  <2>3. Thinned(h, y, root, lv, n)
    BY <2>1, <2>2, RemoveChildIs
  <2>4. Trimmed(h, y, root, lv, n) /\ (n # root => ~Underflows(y, n))
    BY <2>3, ThinnedIsTrimmed
  <2>5. SelfSettled(h, y, lv, n, r.deleted, s)
    BY <1>2, <2>4, FixSelfTrims, Zenon
  <2>6. PICK x : /\ Settled(h, y, x, root, lv, n)
                 /\ FixSelf(y, n, r.deleted, s) =
                      [heap |-> x, empty |-> FALSE, deleted |-> r.deleted, stale |-> s]
    BY <2>5, Zenon DEF SelfSettled
  <2>7. Cut(h, x, root, lv, n)
    BY <2>6 DEF Settled
  <2>8. PICK z : /\ z = DeleteFromInternal(n, i, r)
                 /\ z.heap = x /\ z.empty = FALSE /\ z.deleted = r.deleted
    BY <1>5, <2>6
  <2>9. z.deleted /\ ~z.empty
    BY <2>1, <2>8
  <2> QED  BY <2>7, <2>8, <2>9 DEF Shrunk
<1>7. CASE ~r.empty
  <2>1. Cut(h, y, root, lv, n)
    <3>1. CASE Cut(h, g, root, lv, c) /\ (~r.deleted => Enough(g, c))
      <4>1. n = g[c].parent /\ CutBelow(h, g, root, lv, c, n) /\ Typed(g) /\ c \in DOMAIN g
        <5>1. n = g[c].parent /\ Typed(g) /\ c \in DOMAIN g
          BY <1>1, <3>1 DEF Cut
        <5> QED  BY <1>1, <3>1, <5>1, CutParent, Zenon
      <4>2. g[n].items = h[n].items /\ g[n].items[i] = c /\ i \in 1 .. Len(g[n].items)
        BY <4>1, Zenon DEF CutBelow, Same
      <4>3. ~Past
        <5>1. Len(g[n].items) \in Nat
          <6>1. g[n].items \in Seq(DOMAIN g)
            BY <4>1, Zenon DEF CutBelow
          <6> QED  BY <6>1
        <5>2. ~(i > Len(g[n].items))
          BY <4>2, <5>1
        <5> QED  BY <5>2
      <4>4. CASE r.deleted /\ Underflows(g, c)
        <5>1. y = FixUnderflow(g, c, i)
          <6> HIDE DEF Past
          <6> QED  BY <1>4, <1>7, <4>2, <4>3, <4>4
        <5> QED  BY <1>1, <3>1, <4>1, <4>2, <4>4, <5>1, FixUnderflowCuts, Zenon
      <4>5. CASE ~(r.deleted /\ Underflows(g, c))
        <5>1. y = g
          <6> HIDE DEF Past
          <6> QED  BY <1>4, <1>7, <4>2, <4>5
        <5>2. Enough(g, c)
          BY <3>1, <4>1, <4>5, EnoughIs, Zenon
        <5> QED  BY <1>1, <3>1, <4>1, <5>1, <5>2, CutAbove, Zenon
      <4> QED  BY <4>4, <4>5
    <3>2. CASE Cut(h, g, root, lv, n)
      <4>1. PICK lw : Forest(g, {root}, lw)
        BY <3>2 DEF Cut
      <4>2. n \in DOMAIN g /\ ~g[n].leaf /\ Typed(g) /\ Balance(g, root, {n})
        BY <1>2, <3>2 DEF Cut
      <4>3. ~Past /\ r.deleted => ~Underflows(g, g[n].items[i])
        <5> SUFFICES ASSUME ~Past, r.deleted PROVE ~Underflows(g, g[n].items[i])
          OBVIOUS
        <5>1. Len(g[n].items) \in Nat
          BY <4>1, <4>2, BroodIs
        <5>2. ~(i > Len(g[n].items))
          BY <1>7
        <5>3. i \in 1 .. Len(g[n].items)
          BY <5>1, <5>2
        <5>4. PICK d : d = g[n].items[i]
          OBVIOUS
        <5>5. d \in DOMAIN g /\ d \notin {root} /\ d # n
          BY <4>1, <4>2, <5>3, <5>4, KidOf
        <5>6. Enough(g, d)
          BY <4>2, <5>5 DEF Balance
        <5> QED  BY <4>2, <5>4, <5>5, <5>6, EnoughIs
      <4>4. y = g
        <5> HIDE DEF Past
        <5> QED  BY <1>4, <1>7, <4>3
      <4> QED  BY <3>2, <4>4
    <3> QED  BY <1>1, <1>3, <3>1, <3>2 DEF Shrunk
  <2> QED  BY <1>2, <1>5, <2>1, FixSelfShrinks, Zenon
<1> QED  BY <1>6, <1>7

IsDelete(f, h, k, S) ==
    f = [n \in S |-> LET i == ChildIndex(h[n], k)
                     IN  IF h[n].leaf THEN DeleteFromLeaf(h, n, k)
                         ELSE DeleteFromInternal(n, i, f[h[n].items[i]])]

LEMMA DeleteStep ==
    ASSUME NEW h, NEW R, NEW lv, Typed(h), Forest(h, R, lv), NEW k \in Keys,
           \A n \in DOMAIN h : Counted(h, n),
           NEW l \in Nat, NEW f, IsDelete(f, h, k, Under(h, lv, l))
    PROVE  \E g : IsDelete(g, h, k, Under(h, lv, l + 1))
<1> DEFINE Body(m, e) == LET i == ChildIndex(h[m], k)
                         IN  IF h[m].leaf THEN DeleteFromLeaf(h, m, k)
                             ELSE DeleteFromInternal(m, i, e[h[m].items[i]])
           S == Under(h, lv, l)
           T == Under(h, lv, l + 1)
           g == [m \in T |-> Body(m, f)]
<1>1. f = [m \in S |-> Body(m, f)]
  BY DEF IsDelete
<1>2. ASSUME NEW m \in T
      PROVE  Body(m, g) = Body(m, f)
  <2>1. CASE h[m].leaf
    BY <2>1
  <2>2. CASE ~h[m].leaf
    <3>1. PICK i, c : i = ChildIndex(h[m], k) /\ c = h[m].items[i]
      OBVIOUS
    <3>2. c \in S /\ c \in T
      <4>1. m \in DOMAIN h /\ lv[m] < l + 1
        BY DEF Under
      <4>2. c \in DOMAIN h /\ lv[c] + 1 = lv[m] /\ lv[c] \in Nat /\ lv[m] \in Nat
        BY <2>2, <3>1, <4>1, KidFor
      <4> QED  BY <4>1, <4>2 DEF Under
    <3>3. f[c] = Body(c, f)
      <4> HIDE DEF Body, S
      <4> QED  BY <1>1, <3>2
    <3>4. g[c] = Body(c, f)
      <4> HIDE DEF Body, T
      <4> QED  BY <3>2
    <3> HIDE DEF g, S, T
    <3> QED  BY <2>2, <3>1, <3>3, <3>4
  <2> QED  BY <2>1, <2>2, Zenon
<1>3. g = [m \in T |-> Body(m, g)]
  <2> HIDE DEF Body, T
  <2> QED  BY <1>2, Zenon
<1>4. IsDelete(g, h, k, T)
  <2> HIDE DEF g, T
  <2> QED  BY <1>3 DEF IsDelete
<1> QED  BY <1>4, Zenon

LEMMA DeleteExists ==
    ASSUME NEW h, NEW R, NEW lv, Typed(h), Forest(h, R, lv), NEW k \in Keys,
           \A n \in DOMAIN h : Counted(h, n), NEW l \in Nat
    PROVE  \E f : IsDelete(f, h, k, Under(h, lv, l))
<1> DEFINE Bad == {i \in Nat : ~\E f : IsDelete(f, h, k, Under(h, lv, i))}
<1> SUFFICES ASSUME Bad # {} PROVE FALSE
  OBVIOUS
<1>1. PICK i \in Bad : \A j \in Bad : i <= j
  <2>1. Bad \in SUBSET Nat
    OBVIOUS
  <2> HIDE DEF Bad
  <2> QED  BY <2>1, LessThanIsWellFounded
<1>2. i \in Nat /\ ~\E f : IsDelete(f, h, k, Under(h, lv, i))
  OBVIOUS
<1>3. i # 0
  <2> SUFFICES ASSUME i = 0 PROVE FALSE
    OBVIOUS
  <2>1. Under(h, lv, 0) = {}
    BY DEF Under, Forest
  <2> DEFINE none == [m \in {} |-> 0]
  <2>2. none = [n \in {} |-> LET j == ChildIndex(h[n], k)
                             IN  IF h[n].leaf THEN DeleteFromLeaf(h, n, k)
                                 ELSE DeleteFromInternal(n, j, none[h[n].items[j]])]
    OBVIOUS
  <2>3. IsDelete(none, h, k, {})
    <3> HIDE DEF none
    <3> QED  BY <2>2 DEF IsDelete
  <2> QED  BY <1>2, <2>1, <2>3, Zenon
<1>4. PICK j \in Nat : i = j + 1
  <2>1. i - 1 \in Nat /\ i = (i - 1) + 1
    BY <1>2, <1>3
  <2> QED  BY <2>1
<1>5. j \notin Bad
  BY <1>1, <1>4
<1>6. \E f : IsDelete(f, h, k, Under(h, lv, j))
  BY <1>5
<1> HIDE DEF Bad
<1> QED  BY <1>2, <1>4, <1>6, DeleteStep

\* A call of DeleteFromNode for the root keeps the tree, but the root may have
\* too few keys.
LEMMA DeleteShrinks ==
    ASSUME degree \in Int, NEW lv, Tree(heap, root, lv), NEW k \in Keys
    PROVE  Shrunk(heap, root, lv, root, DeleteFromNode(heap, k))
<1>1. /\ Typed(heap) /\ Forest(heap, {root}, lv) /\ Balance(heap, root, {})
      /\ root \in DOMAIN heap /\ \A n \in DOMAIN heap : Counted(heap, n)
  BY Zenon DEF Tree, Forest, Balance
<1>2. PICK top \in Nat : DOMAIN heap = Under(heap, lv, top)
  <2>1. IsFiniteSet(DOMAIN heap) /\ DOMAIN heap # {}
    BY <1>1 DEF Typed
  <2>2. PICK l \in Nat : \A m \in DOMAIN heap : lv[m] <= l
    BY <1>1, <2>1, LevelsBounded
  <2>3. \A m \in DOMAIN heap : lv[m] < l + 1
    BY <1>1, <2>2 DEF Forest
  <2>4. DOMAIN heap = Under(heap, lv, l + 1)
    BY <2>3 DEF Under
  <2>5. l + 1 \in Nat
    OBVIOUS
  <2> QED  BY <2>4, <2>5
<1>3. PICK f : IsDelete(f, heap, k, DOMAIN heap) /\ DeleteFromNode(heap, k) = f[root]
  <2> DEFINE g == CHOOSE f : IsDelete(f, heap, k, DOMAIN heap)
  <2>1. IsDelete(g, heap, k, DOMAIN heap)
    BY <1>1, <1>2, DeleteExists
  <2>2. DeleteFromNode(heap, k) = g[root]
    BY DEF DeleteFromNode, IsDelete
  <2> HIDE DEF g
  <2> QED  BY <2>1, <2>2
<1>4. \A n \in DOMAIN heap :
        f[n] = LET i == ChildIndex(heap[n], k)
               IN  IF heap[n].leaf THEN DeleteFromLeaf(heap, n, k)
                   ELSE DeleteFromInternal(n, i, f[heap[n].items[i]])
  <2>1. f = [n \in DOMAIN heap |->
               LET i == ChildIndex(heap[n], k)
               IN  IF heap[n].leaf THEN DeleteFromLeaf(heap, n, k)
                   ELSE DeleteFromInternal(n, i, f[heap[n].items[i]])]
    BY <1>3 DEF IsDelete
  <2> QED  BY <2>1
<1> DEFINE Bad == {n \in DOMAIN heap : ~Shrunk(heap, root, lv, n, f[n])}
<1>5. Bad = {}
  <2> SUFFICES ASSUME Bad # {} PROVE FALSE
    OBVIOUS
  <2>1. PICK n \in Bad : \A x \in Bad : lv[n] <= lv[x]
    <3>1. Bad \subseteq DOMAIN heap
      OBVIOUS
    <3> HIDE DEF Bad
    <3> QED  BY <1>1, <3>1, Lowest
  <2>2. n \in DOMAIN heap /\ ~Shrunk(heap, root, lv, n, f[n])
    OBVIOUS
  <2>3. ~heap[n].leaf
    <3> SUFFICES ASSUME heap[n].leaf PROVE FALSE
      OBVIOUS
    <3>1. f[n] = DeleteFromLeaf(heap, n, k)
      BY <1>4, <2>2
    <3>2. Shrunk(heap, root, lv, n, DeleteFromLeaf(heap, n, k))
      BY <2>2, DeleteFromLeafShrinks
    <3> QED  BY <2>2, <3>1, <3>2
  <2>4. PICK i, c : i = ChildIndex(heap[n], k) /\ c = heap[n].items[i]
    OBVIOUS
  <2>5. /\ i \in 1 .. Len(heap[n].items)
        /\ c \in DOMAIN heap /\ lv[c] + 1 = lv[n] /\ lv[c] \in Nat /\ lv[n] \in Nat
    BY <1>1, <2>2, <2>3, <2>4, KidFor
  <2>6. Shrunk(heap, root, lv, c, f[c])
    <3>1. ~(lv[n] <= lv[c])
      BY <2>5
    <3>2. c \notin Bad
      <4> HIDE DEF Bad
      <4> QED  BY <2>1, <3>1
    <3> QED  BY <2>5, <3>2
  <2>7. f[n] = DeleteFromInternal(n, i, f[c])
    BY <1>4, <2>2, <2>3, <2>4
  <2>8. PICK r : r = f[c]
    OBVIOUS
  <2>9. Shrunk(heap, root, lv, n, DeleteFromInternal(n, i, r))
    BY <2>2, <2>3, <2>4, <2>5, <2>6, <2>8, DeleteFromInternalShrinks
  <2> QED  BY <2>2, <2>7, <2>8, <2>9
<1>6. Shrunk(heap, root, lv, root, f[root])
  BY <1>1, <1>5
<1> QED  BY <1>3, <1>6
-----------------------------------------------------------------------------
(* The root *)

\* A root with one child gives way to it.
Lowered(g, rt, kid) == Free([g EXCEPT ![kid].parent = Null], rt)

LEMMA LoweredIs ==
    ASSUME degree \in Int, NEW g, NEW rt, NEW lw, Typed(g), Forest(g, {rt}, lw),
           Balance(g, rt, {}), ~g[rt].leaf, Len(g[rt].items) = 1,
           NEW kid, kid = g[rt].items[1], NEW x, x = Lowered(g, rt, kid)
    PROVE  \E lx : Tree(x, kid, lx)
<1>1. lw \in [DOMAIN g -> Nat] /\ rt \in DOMAIN g
  BY DEF Forest
<1>2. kid \in DOMAIN g /\ kid \notin {rt} /\ g[kid].parent = rt
  <2>1. 1 \in 1 .. Len(g[rt].items)
    OBVIOUS
  <2> QED  BY <1>1, <2>1, KidOf
<1>3. PICK y : y = [g EXCEPT ![kid].parent = Null]
  BY Zenon
<1>4. DOMAIN x = DOMAIN g \ {rt} /\ \A m \in DOMAIN x : x[m] = y[m]
  BY <1>3, Zenon DEF Lowered, Free
<1>5. /\ \A m \in DOMAIN x : m # kid => x[m] = g[m]
      /\ kid \in DOMAIN x /\ x[kid].parent = Null /\ IsNode(x[kid])
      /\ x[kid].leaf = g[kid].leaf /\ x[kid].keys = g[kid].keys /\ x[kid].items = g[kid].items
  <2>1. IsNode(g[kid]) /\ DOMAIN g[kid] = Fields
    BY <1>2 DEF Typed, IsNode
  <2>2. y[kid] = [g[kid] EXCEPT !.parent = Null]
    BY <1>2, <1>3
  <2>3. /\ y[kid].parent = Null /\ DOMAIN y[kid] = Fields
        /\ y[kid].leaf = g[kid].leaf /\ y[kid].keys = g[kid].keys
        /\ y[kid].items = g[kid].items
    BY <2>1, <2>2 DEF Fields
  <2>4. kid \in DOMAIN x /\ x[kid] = y[kid]
    BY <1>2, <1>4
  <2>5. IsNode(x[kid])
    BY <2>1, <2>3, <2>4 DEF IsNode
  <2>6. \A m \in DOMAIN x : m # kid => x[m] = g[m]
    BY <1>3, <1>4
  <2> QED  BY <2>3, <2>4, <2>5, <2>6
<1>6. Typed(x)
  <2>1. IsFiniteSet(DOMAIN x)
    <3>1. PICK D : D = DOMAIN g
      OBVIOUS
    <3>2. IsFiniteSet(D \ {rt})
      BY <3>1, FS_RemoveElement DEF Typed
    <3> QED  BY <1>4, <3>1, <3>2
  <2>2. \A m \in DOMAIN x : IsNode(x[m])
    BY <1>4, <1>5 DEF Typed
  <2>3. DOMAIN x \subseteq Nat \ {0}
    BY <1>4 DEF Typed
  <2> QED  BY <2>1, <2>2, <2>3 DEF Typed
<1>7. PICK lx : lx = [m \in DOMAIN x |-> lw[m]]
  BY Zenon
<1>8. lx \in [DOMAIN x -> Nat] /\ \A m \in DOMAIN x : lx[m] = lw[m]
  BY <1>1, <1>4, <1>7
<1>9. PICK R, Q : R = {rt} /\ Q = {kid}
  BY Zenon
<1>10. \A m \in DOMAIN g : m # rt /\ m # kid => g[m].parent # rt
  <2> SUFFICES ASSUME NEW m \in DOMAIN g, m # rt, m # kid, g[m].parent = rt PROVE FALSE
    OBVIOUS
  <2>1. \E i \in 1 .. Len(g[rt].items) : g[rt].items[i] = m
    BY ParentOf
  <2>2. g[rt].items[1] = m
    BY <2>1
  <2> QED  BY <2>2
<1>11. Surgery(g, R, x, Q, R)
  <2>1. DOMAIN g \ R = DOMAIN x \ R
    BY <1>4, <1>9, Zenon
  <2>2. \A m \in DOMAIN g \ R : x[m].leaf = g[m].leaf /\ (~g[m].leaf => x[m].items = g[m].items)
    BY <1>4, <1>5, <1>9
  <2>3. \A m \in DOMAIN g \ R : g[m].parent \notin R =>
          m \in DOMAIN x /\ m \notin Q /\ x[m].parent = g[m].parent
    BY <1>2, <1>4, <1>5, <1>9
  <2>4. \A m \in DOMAIN x \ Q : m \in DOMAIN g \ R /\ g[m].parent \notin R
    BY <1>4, <1>9, <1>10
  <2> QED  BY <2>1, <2>2, <2>3, <2>4 DEF Surgery
<1>12. Forest(x, {kid}, lx)
  <2>1. Forest(g, R, lw) /\ Q \subseteq DOMAIN x
    BY <1>5, <1>9
  <2>2. \A m \in DOMAIN x : m \in DOMAIN g => lx[m] = lw[m]
    BY <1>8
  <2>3. \A m \in DOMAIN x : m \notin R
    BY <1>4, <1>9
  <2>4. Forest(x, Q, lx)
    BY <1>8, <1>11, <2>1, <2>2, <2>3, SurgeryKeepsForest
  <2> QED  BY <1>9, <2>4
<1>13. \A m \in DOMAIN x : Counted(x, m) /\ Few(x, m) /\ Enough(x, m)
  <2> SUFFICES ASSUME NEW m \in DOMAIN x PROVE Counted(x, m) /\ Few(x, m) /\ Enough(x, m)
    OBVIOUS
  <2>1. x[m].leaf = g[m].leaf /\ x[m].keys = g[m].keys /\ x[m].items = g[m].items
    BY <1>5
  <2>2. Counted(g, m) /\ Few(g, m) /\ Enough(g, m)
    BY <1>4 DEF Balance
  <2> QED  BY <2>1, <2>2 DEF Counted, Few, Enough
<1>14. Balance(x, kid, {})
  BY <1>13 DEF Balance
<1>15. ~x[kid].leaf => Len(x[kid].keys) >= 1
  <2> SUFFICES ASSUME ~x[kid].leaf PROVE Len(x[kid].keys) >= 1
    OBVIOUS
  <2>1. x[kid].leaf = FALSE /\ Len(x[kid].keys) \in Nat
    BY <1>5 DEF IsNode
  <2>2. PICK n \in Nat : n = Len(x[kid].keys)
    BY <2>1
  <2>3. PICK b \in Nat \ {0} : b = MinKeys(FALSE)
    BY MinKeysIs, Zenon
  <2>4. n >= b
    BY <1>5, <1>13, <2>1, <2>2, <2>3, Zenon DEF Enough
  <2>5. n >= 1
    BY <2>4
  <2> QED  BY <2>2, <2>5
<1>16. Tree(x, kid, lx)
  BY <1>5, <1>6, <1>12, <1>14, <1>15 DEF Tree
<1> QED  BY <1>16

LEMMA ShrunkRootIs ==
    ASSUME degree \in Int, NEW h, NEW lv, Tree(h, root, lv),
           NEW g, Cut(h, g, root, lv, root), NEW t, t = ShrunkRoot(g)
    PROVE  \E lw : Tree(t.heap, t.root, lw)
<1>1. Typed(g) /\ root \in DOMAIN g /\ Balance(g, root, {root}) /\ Counted(g, root) /\ Few(g, root)
  BY DEF Cut
<1>2. PICK lw : Forest(g, {root}, lw)
  BY DEF Cut
<1>3. g[root].parent = Null
  BY DEF Cut, Tree
<1>4. Balance(g, root, {})
  BY <1>1 DEF Balance
<1>5. CASE g[root].leaf \/ Len(g[root].items) > 1
  <2>1. t = [heap |-> g, root |-> root]
    <3>1. PICK kids : kids = g[root].items
      OBVIOUS
    <3>2. t = CASE g[root].leaf \/ Len(kids) > 1 -> [heap |-> g, root |-> root]
                [] ~g[root].leaf /\ Len(kids) = 1 ->
                   [heap |-> Free([g EXCEPT ![kids[1]].parent = Null], root), root |-> kids[1]]
                [] OTHER -> [heap |-> [g EXCEPT ![root] = NewNode(TRUE)], root |-> root]
      BY <3>1, Zenon DEF ShrunkRoot
    <3>3. ASSUME ~g[root].leaf, Len(kids) = 1 PROVE FALSE
      <4>1. PICK n : n = Len(g[root].items) /\ n > 1
        BY <1>5, <3>3
      <4>2. n = 1
        BY <3>1, <3>3, <4>1
      <4> QED  BY <4>1, <4>2
    <3>4. g[root].leaf \/ Len(kids) > 1
      BY <1>5, <3>1
    <3> QED  BY <3>2, <3>3, <3>4, Zenon
  <2>2. ~g[root].leaf => Len(g[root].keys) >= 1
    <3> SUFFICES ASSUME ~g[root].leaf PROVE Len(g[root].keys) >= 1
      OBVIOUS
    <3>1. PICK n \in Nat : n = Len(g[root].keys)
      BY <1>1 DEF Typed, IsNode
    <3>2. n + 1 > 1
      BY <1>1, <1>5, <3>1 DEF Counted
    <3>3. n >= 1
      BY <3>2
    <3> QED  BY <3>1, <3>3
  <2>3. Tree(g, root, lw)
    BY <1>1, <1>2, <1>3, <1>4, <2>2 DEF Tree
  <2> QED  BY <2>1, <2>3
<1>6. CASE ~g[root].leaf /\ ~(Len(g[root].items) > 1)
  <2>1. Len(g[root].items) = 1
    <3>1. PICK n \in Nat \ {0} : n = Len(g[root].items)
      BY <1>1, <1>2, <1>6, BroodIs
    <3>2. ~(n > 1)
      BY <1>6, <3>1
    <3>3. n = 1
      BY <3>2
    <3> QED  BY <3>1, <3>3
  <2>2. PICK kid, x : kid = g[root].items[1] /\ x = Lowered(g, root, kid)
    OBVIOUS
  <2>3. t = [heap |-> x, root |-> kid]
    BY <1>6, <2>1, <2>2 DEF ShrunkRoot, Lowered
  <2>4. \E lx : Tree(x, kid, lx)
    BY <1>1, <1>2, <1>4, <1>6, <2>1, <2>2, LoweredIs
  <2> QED  BY <2>3, <2>4
<1> QED  BY <1>5, <1>6

LEMMA DeleteKeepsTree ==
    ASSUME degree \in Int, NEW lv, Tree(heap, root, lv), NEW k \in Keys, Delete(k)
    PROVE  \E lw : Tree(heap', root', lw)
<1>1. PICK r, t : r = DeleteFromNode(heap, k) /\ t = ShrunkRoot(r.heap)
  OBVIOUS
<1>2. Cut(heap, r.heap, root, lv, root)
  <2>1. Shrunk(heap, root, lv, root, r)
    BY <1>1, DeleteShrinks
  <2> QED  BY <2>1 DEF Shrunk
<1>3. PICK g : g = r.heap
  OBVIOUS
<1>4. \E lw : Tree(t.heap, t.root, lw)
  BY <1>1, <1>2, <1>3, ShrunkRootIs
<1>5. (heap' = t.heap /\ root' = t.root) \/ (heap' = heap /\ root' = root)
  BY <1>1 DEF Delete
<1> QED  BY <1>4, <1>5
-----------------------------------------------------------------------------
(* The levels *)

\* The nodes at depth i.
At(lv, i) == {n \in DOMAIN heap : lv[n] + i = lv[root]}

LEMMA NextLevel ==
    ASSUME NEW lv, Tree(heap, root, lv), NEW i \in Nat
    PROVE  UNION {ToSet(heap[n].items) : n \in {n \in At(lv, i) : ~heap[n].leaf}}
              = At(lv, i + 1)
<1>1. Forest(heap, {root}, lv) /\ root \in DOMAIN heap /\ lv \in [DOMAIN heap -> Nat]
  BY Zenon DEF Tree, Forest
<1>2. ASSUME NEW n \in At(lv, i), ~heap[n].leaf, NEW m \in ToSet(heap[n].items)
      PROVE  m \in At(lv, i + 1)
  <2>1. n \in DOMAIN heap /\ lv[n] + i = lv[root]
    BY DEF At
  <2>2. heap[n].items \in Seq(DOMAIN heap)
    BY <1>1, <1>2, <2>1, BroodIs
  <2>3. PICK j \in 1 .. Len(heap[n].items) : heap[n].items[j] = m
    BY <2>2 DEF ToSet
  <2>4. m \in DOMAIN heap /\ lv[m] \in Nat /\ lv[n] \in Nat /\ lv[m] + 1 = lv[n]
    BY <1>1, <1>2, <2>1, <2>3, KidOf
  <2>5. lv[m] + (i + 1) = lv[root]
    BY <2>1, <2>4
  <2> QED  BY <2>4, <2>5 DEF At
<1>3. ASSUME NEW m \in At(lv, i + 1)
      PROVE  \E n \in At(lv, i) : ~heap[n].leaf /\ m \in ToSet(heap[n].items)
  <2>1. m \in DOMAIN heap /\ lv[m] + (i + 1) = lv[root] /\ lv[m] \in Nat /\ lv[root] \in Nat
    BY <1>1 DEF At
  <2>2. m \notin {root}
    BY <2>1
  <2>3. PICK n : n = heap[m].parent
    OBVIOUS
  <2>4. /\ n \in DOMAIN heap /\ ~heap[n].leaf /\ lv[m] + 1 = lv[n]
        /\ \E j \in 1 .. Len(heap[n].items) : heap[n].items[j] = m
    BY <1>1, <2>1, <2>2, <2>3, ParentOf
  <2>5. n \in At(lv, i)
    <3>1. PICK x, y \in Nat : x = lv[m] /\ y = lv[root]
      BY <2>1
    <3>2. x + (i + 1) = y /\ lv[n] = x + 1
      BY <2>1, <2>4, <3>1
    <3>3. (x + 1) + i = y
      BY <3>2
    <3> QED  BY <2>4, <3>1, <3>2, <3>3 DEF At
  <2>6. heap[n].items \in Seq(DOMAIN heap)
    BY <1>1, <2>4, BroodIs
  <2>7. m \in ToSet(heap[n].items)
    BY <2>4, <2>6 DEF ToSet
  <2> QED  BY <2>4, <2>5, <2>7
<1> QED  BY <1>2, <1>3

LEMMA LevelIs ==
    ASSUME NEW lv, Tree(heap, root, lv), NEW d \in Nat
    PROVE  Level(d) = At(lv, d)
<1>1. /\ Forest(heap, {root}, lv) /\ root \in DOMAIN heap /\ lv \in [DOMAIN heap -> Nat]
      /\ IsFiniteSet(DOMAIN heap)
  BY Zenon DEF Tree, Forest, Typed
<1> DEFINE Is(f) == f = [i \in 0 .. d |->
                IF i = 0 THEN {root}
                ELSE UNION {ToSet(heap[n].items) : n \in {n \in f[i - 1] : ~heap[n].leaf}}]
           level == CHOOSE f : Is(f)
           at == [i \in 0 .. d |-> At(lv, i)]
<1>2. At(lv, 0) = {root}
  <2>1. \A n \in DOMAIN heap : n # root => lv[n] < lv[root]
    BY <1>1, RootIsHighest
  <2>2. \A n \in DOMAIN heap : lv[n] + 0 = lv[root] <=> n = root
    BY <1>1, <2>1
  <2> QED  BY <1>1, <2>2 DEF At
<1>3. \A i \in 0 .. d : i # 0 => i - 1 \in Nat /\ i - 1 \in 0 .. d /\ i - 1 + 1 = i
  OBVIOUS
<1>4. Is(at)
  <2>1. ASSUME NEW i \in 0 .. d, i # 0
        PROVE  UNION {ToSet(heap[n].items) : n \in {n \in at[i - 1] : ~heap[n].leaf}}
                  = At(lv, i)
    <3>1. PICK j \in Nat : j = i - 1 /\ j \in 0 .. d /\ j + 1 = i
      BY <1>3, <2>1
    <3>2. at[j] = At(lv, j)
      BY <3>1
    <3> HIDE DEF at
    <3>3. UNION {ToSet(heap[n].items) : n \in {n \in at[j] : ~heap[n].leaf}}
            = At(lv, j + 1)
      BY <3>2, NextLevel
    <3> QED  BY <3>1, <3>3
  <2>2. at = [i \in 0 .. d |->
                IF i = 0 THEN {root}
                ELSE UNION {ToSet(heap[n].items) : n \in {n \in at[i - 1] : ~heap[n].leaf}}]
    BY <1>2, <2>1, Zenon
  <2> HIDE DEF at
  <2> QED  BY <2>2, Zenon
<1>5. Is(level)
  <2> HIDE DEF Is, at
  <2> QED  BY <1>4
<1>6. \A i \in 0 .. d :
        level[i] = IF i = 0 THEN {root}
                   ELSE UNION {ToSet(heap[n].items) : n \in {n \in level[i - 1] : ~heap[n].leaf}}
  <2> HIDE DEF level
  <2> QED  BY <1>5, Zenon
<1>7. Level(d) = level[d]
  BY DEF Level
<1> HIDE DEF level, Is, at
<1> DEFINE Bad == {i \in 0 .. d : level[i] # At(lv, i)}
<1>8. Bad = {}
  <2> SUFFICES ASSUME Bad # {} PROVE FALSE
    OBVIOUS
  <2>1. PICK i \in Bad : \A j \in Bad : i <= j
    <3>1. Bad \in SUBSET Nat
      OBVIOUS
    <3> HIDE DEF Bad
    <3> QED  BY <3>1, LessThanIsWellFounded
  <2>2. i \in 0 .. d /\ level[i] # At(lv, i)
    OBVIOUS
  <2>3. i # 0
    BY <1>2, <1>6, <2>2, Zenon
  <2>4. PICK j \in Nat : j = i - 1 /\ j \in 0 .. d /\ j + 1 = i
    BY <1>3, <2>2, <2>3
  <2>5. level[j] = At(lv, j)
    <3>1. j \notin Bad
      <4>1. ~(i <= j)
        BY <2>2, <2>4
      <4> HIDE DEF Bad
      <4> QED  BY <2>1, <4>1
    <3> QED  BY <2>4, <3>1
  <2>6. level[i] = UNION {ToSet(heap[n].items) : n \in {n \in level[j] : ~heap[n].leaf}}
    BY <1>6, <2>2, <2>3, <2>4, Zenon
  <2>7. level[i] = At(lv, j + 1)
    BY <2>5, <2>6, NextLevel
  <2> QED  BY <2>2, <2>4, <2>7
<1>9. d \in 0 .. d
  OBVIOUS
<1> QED  BY <1>7, <1>8, <1>9

\* There are nodes on all levels below the root's, so there are enough depths.
LEMMA RootIsLow ==
    ASSUME NEW lv, Tree(heap, root, lv)
    PROVE  /\ Cardinality(DOMAIN heap) \in Nat /\ lv[root] \in Nat
           /\ lv[root] <= Cardinality(DOMAIN heap)
<1>1. /\ Forest(heap, {root}, lv) /\ root \in DOMAIN heap /\ lv \in [DOMAIN heap -> Nat]
      /\ IsFiniteSet(DOMAIN heap)
  BY Zenon DEF Tree, Forest, Typed
<1>2. PICK top \in Nat : top = lv[root]
  BY <1>1
<1> DEFINE Inhabited(l) == \E n \in DOMAIN heap : lv[n] = l
           Bad == {i \in 0 .. top : ~Inhabited(top - i)}
<1>3. Bad = {}
  <2> SUFFICES ASSUME Bad # {} PROVE FALSE
    OBVIOUS
  <2>1. PICK i \in Bad : \A j \in Bad : i <= j
    <3>1. Bad \in SUBSET Nat
      OBVIOUS
    <3> HIDE DEF Bad
    <3> QED  BY <3>1, LessThanIsWellFounded
  <2>2. i \in 0 .. top /\ ~Inhabited(top - i)
    OBVIOUS
  <2>3. i # 0
    <3> SUFFICES ASSUME i = 0 PROVE FALSE
      OBVIOUS
    <3>1. top - i = top
      BY <2>2
    <3> QED  BY <1>1, <1>2, <2>2, <3>1
  <2>4. PICK j \in 0 .. top : j + 1 = i
    <3>1. i - 1 \in 0 .. top /\ (i - 1) + 1 = i
      BY <2>2, <2>3
    <3> QED  BY <3>1
  <2>5. Inhabited(top - j)
    <3>1. j \notin Bad
      <4>1. ~(i <= j)
        BY <2>4
      <4> HIDE DEF Bad
      <4> QED  BY <2>1, <4>1
    <3> HIDE DEF Inhabited
    <3> QED  BY <3>1
  <2>6. PICK n \in DOMAIN heap : lv[n] = top - j
    BY <2>5
  <2>7. lv[n] # 0
    BY <2>2, <2>4, <2>6
  <2>8. ~heap[n].leaf
    BY <1>1, <2>7 DEF Forest
  <2>9. 1 \in 1 .. Len(heap[n].items)
    <3>1. Len(heap[n].items) \in Nat \ {0}
      BY <1>1, <2>8, BroodIs
    <3> QED  BY <3>1
  <2>10. PICK c : c = heap[n].items[1]
    OBVIOUS
  <2>11. c \in DOMAIN heap /\ lv[c] \in Nat /\ lv[n] \in Nat /\ lv[c] + 1 = lv[n]
    BY <1>1, <2>8, <2>9, <2>10, KidOf
  <2>12. lv[c] = top - i
    BY <2>2, <2>4, <2>6, <2>11
  <2> QED  BY <2>2, <2>11, <2>12
<1> DEFINE L == {lv[n] : n \in DOMAIN heap}
<1>4. 0 .. top \subseteq L
  <2> SUFFICES ASSUME NEW l \in 0 .. top PROVE \E n \in DOMAIN heap : lv[n] = l
    OBVIOUS
  <2>1. PICK i \in 0 .. top : top - i = l
    <3>1. top - l \in 0 .. top /\ top - (top - l) = l
      OBVIOUS
    <3> QED  BY <3>1
  <2>2. Inhabited(top - i)
    <3> HIDE DEF Inhabited
    <3> QED  BY <1>3
  <2> QED  BY <2>1, <2>2
<1>5. lv \in Surjection(DOMAIN heap, L)
  BY <1>1 DEF Surjection
<1> HIDE DEF L
<1>6. IsFiniteSet(L) /\ Cardinality(L) <= Cardinality(DOMAIN heap)
  BY <1>1, <1>5, FS_Surjection
<1>7. Cardinality(0 .. top) <= Cardinality(L)
  BY <1>4, <1>6, FS_Subset
<1>8. Cardinality(0 .. top) = top + 1
  <2>1. 0 \in Int /\ top \in Int
    OBVIOUS
  <2>2. Cardinality(0 .. top) = IF 0 > top THEN 0 ELSE top - 0 + 1
    BY <2>1, FS_Interval
  <2> QED  BY <2>2
<1>9. PICK a, b \in Nat : a = Cardinality(L) /\ b = Cardinality(DOMAIN heap)
  BY <1>1, <1>6, FS_CardinalityType
<1>10. top + 1 <= a /\ a <= b
  BY <1>6, <1>7, <1>8, <1>9
<1>11. top <= b
  BY <1>10
<1> QED  BY <1>2, <1>9, <1>11
-----------------------------------------------------------------------------
(* The theorems *)

\* The inductive invariant: the heap is one tree, as full as it must be.
TreeInv == degree \in Degrees /\ \E lv : Tree(heap, root, lv)

LEMMA InitIsTree ==
    ASSUME Init
    PROVE  TreeInv
<1>1. degree \in Degrees /\ degree \in Int
  BY BPTreeAssumption DEF Init
<1>2. PICK h : h = heap /\ h = [n \in {1} |-> NewNode(TRUE)]
  BY Zenon DEF Init
<1>3. DOMAIN h = {1} /\ h[1] = NewNode(TRUE) /\ root = 1
  BY <1>2 DEF Init
<1>4. /\ DOMAIN h[1] = Fields /\ h[1].leaf = TRUE /\ h[1].keys = <<>> /\ h[1].items = <<>>
      /\ h[1].parent = Null
  BY <1>3 DEF NewNode, Fields
<1>5. Typed(h)
  <2>1. IsFiniteSet({1})
    BY FS_Singleton, Zenon
  <2>2. IsNode(h[1])
    <3>1. <<>> \in Seq(Keys) /\ <<>> \in Seq(Values)
      OBVIOUS
    <3>2. h[1].leaf \in BOOLEAN
      BY <1>4, Zenon
    <3> QED  BY <1>4, <3>1, <3>2 DEF IsNode
  <2>3. {1} \subseteq Nat \ {0}
    OBVIOUS
  <2> QED  BY <1>3, <2>1, <2>2, <2>3, Zenon DEF Typed
<1>6. PICK lv : lv = [n \in {1} |-> 0]
  BY Zenon
<1>7. Forest(h, {1}, lv)
  BY <1>3, <1>4, <1>6, Zenon DEF Forest
<1>8. Counted(h, 1) /\ Few(h, 1)
  <2>1. Len(h[1].keys) = 0 /\ Len(h[1].items) = 0
    BY <1>4
  <2>2. PICK d \in Nat : d = Degree - 1
    BY <1>1, MinKeysIs, Zenon
  <2> QED  BY <1>4, <2>1, <2>2 DEF Counted, Few
<1>9. Balance(h, 1, {})
  BY <1>3, <1>8 DEF Balance
<1>10. Tree(h, 1, lv)
  BY <1>4, <1>5, <1>7, <1>9 DEF Tree
<1> QED  BY <1>1, <1>2, <1>3, <1>10 DEF TreeInv

LEMMA NextKeepsTree ==
    ASSUME TreeInv, [Next]_vars
    PROVE  TreeInv'
<1>1. degree \in Degrees /\ degree \in Int
  BY BPTreeAssumption DEF TreeInv
<1>2. PICK lv : Tree(heap, root, lv)
  BY DEF TreeInv
<1>3. degree' = degree
  BY DEF Next, vars
<1>4. \E lw : Tree(heap', root', lw)
  <2>1. ASSUME NEW k \in KeysFor(degree), NEW v \in ValuesOf(k), Put(k, v)
        PROVE  \E lw : Tree(heap', root', lw)
    <3>1. k \in Keys
      BY <1>1 DEF Keys
    <3>2. v \in Values
      BY <3>1 DEF Values
    <3> QED  BY <1>1, <1>2, <2>1, <3>1, <3>2, PutKeepsTree
  <2>2. ASSUME NEW k \in KeysFor(degree), Delete(k)
        PROVE  \E lw : Tree(heap', root', lw)
    <3>1. k \in Keys
      BY <1>1 DEF Keys
    <3> QED  BY <1>1, <1>2, <2>2, <3>1, DeleteKeepsTree
  <2>3. CASE UNCHANGED vars
    BY <1>2, <2>3 DEF vars
  <2> QED  BY <2>1, <2>2, <2>3 DEF Next
<1>5. ASSUME NEW lw, Tree(heap', root', lw)
      PROVE  Tree(heap, root, lw)'
  BY <1>3, <1>5 DEF Tree, Balance, Counted, Few, Enough, MinKeys, Degree
<1> QED  BY <1>1, <1>3, <1>4, <1>5 DEF TreeInv

LEMMA AlwaysTree == Spec => []TreeInv
<1>1. Init => TreeInv
  BY InitIsTree
<1>2. TreeInv /\ [Next]_vars => TreeInv'
  BY NextKeepsTree
<1> QED  BY <1>1, <1>2, PTL DEF Spec

LEMMA TreeHasParents ==
    ASSUME TreeInv
    PROVE  ParentsAreRight
<1>1. PICK lv : Tree(heap, root, lv)
  BY DEF TreeInv
<1>2. Forest(heap, {root}, lv) /\ heap[root].parent = Null
  BY <1>1 DEF Tree
<1>3. ASSUME NEW n \in Internal, NEW m \in ToSet(heap[n].items)
      PROVE  heap[m].parent = n
  <2>1. n \in DOMAIN heap /\ ~heap[n].leaf
    BY DEF Internal
  <2>2. heap[n].items \in Seq(DOMAIN heap)
    BY <1>2, <2>1, BroodIs
  <2>3. PICK j \in 1 .. Len(heap[n].items) : heap[n].items[j] = m
    BY <2>2 DEF ToSet
  <2> QED  BY <1>2, <2>1, <2>3, KidOf
<1> QED  BY <1>2, <1>3 DEF ParentsAreRight

LEMMA TreeIsBalanced ==
    ASSUME TreeInv
    PROVE  Balanced
<1>1. degree \in Int
  BY BPTreeAssumption DEF TreeInv
<1>2. PICK lv : Tree(heap, root, lv)
  BY DEF TreeInv
<1>3. Typed(heap) /\ Forest(heap, {root}, lv) /\ Balance(heap, root, {}) /\ lv \in [DOMAIN heap -> Nat]
  BY <1>2, Zenon DEF Tree, Forest
<1>4. ASSUME NEW d \in Depths, NEW m \in Level(d), NEW n \in Level(d)
      PROVE  heap[m].leaf = heap[n].leaf
  <2>1. d \in Nat
    <3>1. Cardinality(DOMAIN heap) \in Nat
      BY <1>2, RootIsLow
    <3> QED  BY <3>1 DEF Depths
  <2>2. m \in At(lv, d) /\ n \in At(lv, d)
    BY <1>2, <2>1, LevelIs
  <2>3. m \in DOMAIN heap /\ n \in DOMAIN heap /\ lv[m] + d = lv[root] /\ lv[n] + d = lv[root]
    BY <2>2 DEF At
  <2>4. lv[m] = lv[n]
    <3>1. PICK x, y \in Nat : x = lv[m] /\ y = lv[n]
      BY <1>3, <2>3
    <3>2. x + d = y + d
      BY <2>3, <3>1
    <3>3. x = y
      BY <2>1, <3>2
    <3> QED  BY <3>1, <3>3
  <2>5. heap[m].leaf \in BOOLEAN /\ heap[n].leaf \in BOOLEAN
    BY <1>3, <2>3 DEF Typed, IsNode
  <2>6. heap[m].leaf <=> heap[n].leaf
    BY <1>3, <2>3, <2>4 DEF Forest
  <2> QED  BY <2>5, <2>6
<1>5. ASSUME NEW n \in DOMAIN heap
      PROVE  /\ Len(heap[n].keys) <= Degree - 1
             /\ n # root => ~Underflows(heap, n)
             /\ ~heap[n].leaf => Len(heap[n].items) = Len(heap[n].keys) + 1
  <2>1. Counted(heap, n) /\ Few(heap, n) /\ (n # root => Enough(heap, n))
    BY <1>3 DEF Balance
  <2>2. n # root => ~Underflows(heap, n)
    BY <1>1, <1>3, <2>1, EnoughIs
  <2> QED  BY <2>1, <2>2 DEF Counted, Few
<1> QED  BY <1>4, <1>5 DEF Balanced

LEMMA TreeIsAll ==
    ASSUME TreeInv
    PROVE  NothingLeaks
<1>1. PICK lv : Tree(heap, root, lv)
  BY DEF TreeInv
<1>2. Forest(heap, {root}, lv) /\ lv \in [DOMAIN heap -> Nat] /\ Typed(heap)
  BY <1>1, Zenon DEF Tree, Forest
<1>3. PICK top, b \in Nat : top = lv[root] /\ b = Cardinality(DOMAIN heap) /\ top <= b
  BY <1>1, RootIsLow
<1>4. Depths = 0 .. b
  BY <1>3 DEF Depths
<1>5. \A d \in 0 .. b : Level(d) = At(lv, d)
  BY <1>1, LevelIs
<1>6. ASSUME NEW n \in DOMAIN heap
      PROVE  n \in Reachable
  <2>1. PICK l \in Nat : l = lv[n] /\ l <= top
    <3>1. lv[n] \in Nat /\ lv[root] \in Nat
      BY <1>2, RootIsHighest, Zenon DEF Typed
    <3>2. n # root => lv[n] < lv[root]
      BY <1>2, RootIsHighest, Zenon DEF Typed
    <3> QED  BY <1>3, <3>1, <3>2
  <2>2. PICK d \in 0 .. b : l + d = top
    <3>1. top - l \in 0 .. b /\ l + (top - l) = top
      BY <1>3, <2>1
    <3> QED  BY <3>1
  <2>3. n \in At(lv, d)
    BY <1>3, <2>1, <2>2 DEF At
  <2> QED  BY <1>4, <1>5, <2>3 DEF Reachable
<1>7. ASSUME NEW n \in Reachable
      PROVE  n \in DOMAIN heap
  <2>1. PICK d \in 0 .. b : n \in Level(d)
    BY <1>4 DEF Reachable
  <2> QED  BY <1>5, <2>1 DEF At
<1> QED  BY <1>6, <1>7 DEF NothingLeaks

\* However nodes split, lend and merge, the parent of every child is the node that
\* has it.
THEOREM ParentsAlwaysRight == Spec => []ParentsAreRight
<1>1. TreeInv => ParentsAreRight
  BY TreeHasParents
<1> QED  BY <1>1, AlwaysTree, PTL

\* After every call all leaves are equally deep, every node but the root has MinKeys
\* keys or more, and none has more than the degree allows.
THEOREM StaysBalanced == Spec => []Balanced
<1>1. TreeInv => Balanced
  BY TreeIsBalanced
<1> QED  BY <1>1, AlwaysTree, PTL

\* No call leaves a node allocated that is not in the tree.
THEOREM NeverLeaks == Spec => []NothingLeaks
<1>1. TreeInv => NothingLeaks
  BY TreeIsAll
<1> QED  BY <1>1, AlwaysTree, PTL
=============================================================================
