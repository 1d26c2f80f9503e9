---------------------- MODULE BPTree_search_proofs ----------------------
(***************************************************************************)
(* Delete keeps the order of keys and leaves in the B+ tree of lab2 too,   *)
(* so the tree is a map, and its searches and scans find every entry.      *)
(***************************************************************************)
EXTENDS BPTree_order_proofs

USE BPTreeAssumption
-----------------------------------------------------------------------------
(* Bounds of changed lists of children *)

\* Other bounds l and u agree with lo and hi on a list of nodes.
Agree(lo, hi, l, u, kids) == \A j \in 1 .. Len(kids) : l[kids[j]] = lo[kids[j]] /\ u[kids[j]] = hi[kids[j]]

LEMMA BoundedAgain ==
    ASSUME NEW lo, NEW hi, NEW l, NEW u, NEW kids, NEW ks, NEW d \in Nat, NEW a, NEW b,
           Len(kids) = d + 1, Agree(lo, hi, l, u, kids), Bounded(lo, hi, kids, ks, d, a, b)
    PROVE  Bounded(l, u, kids, ks, d, a, b)
<1>1. 1 \in 1 .. d + 1 /\ d + 1 \in 1 .. d + 1 /\ \A j \in 1 .. d : j \in 1 .. d + 1 /\ j + 1 \in 1 .. d + 1
  OBVIOUS
<1>2. \A j \in 1 .. d + 1 : l[kids[j]] = lo[kids[j]] /\ u[kids[j]] = hi[kids[j]]
  BY DEF Agree
<1> QED  BY <1>1, <1>2 DEF Bounded

\* The last child goes.
LEMMA BoundedFront ==
    ASSUME NEW lo, NEW hi, NEW kids, NEW ks, NEW d \in Nat, NEW c, c = d + 1, NEW f, f = d + 2,
           NEW a, NEW b, Len(kids) = f, Len(ks) = c, Bounded(lo, hi, kids, ks, c, a, b),
           NEW ls, NEW js, Closed(kids, ls, f), Closed(ks, js, c)
    PROVE  Bounded(lo, hi, ls, js, d, a, ks[c])
<1>1. (d + 2) - 1 = d + 1 /\ (d + 1) - 1 = d /\ (d + 1) + 1 = d + 2 /\ d + 1 \in 1 .. d + 1
  OBVIOUS
<1>2. \A j \in 1 .. d + 1 : ls[j] = kids[j]
  BY <1>1 DEF Closed
<1>3. \A j \in 1 .. d : js[j] = ks[j]
  BY <1>1 DEF Closed
<1>4. 1 \in 1 .. d + 1 /\ \A j \in 1 .. d : j \in 1 .. d + 1 /\ j + 1 \in 1 .. d + 1
  OBVIOUS
<1>5. /\ lo[kids[1]] = a /\ hi[kids[d + 2]] = b
      /\ \A j \in 1 .. d + 1 : hi[kids[j]] = ks[j] /\ lo[kids[j + 1]] = ks[j]
  BY <1>1 DEF Bounded
<1>6. lo[ls[1]] = a /\ hi[ls[d + 1]] = ks[d + 1]
  BY <1>1, <1>2, <1>4, <1>5
<1>7. \A j \in 1 .. d : hi[ls[j]] = js[j] /\ lo[ls[j + 1]] = js[j]
  BY <1>2, <1>3, <1>4, <1>5
<1> QED  BY <1>6, <1>7 DEF Bounded

\* The first child goes.
LEMMA BoundedTail ==
    ASSUME NEW lo, NEW hi, NEW kids, NEW ks, NEW d \in Nat, NEW c, c = d + 1, NEW f, f = d + 2,
           NEW a, NEW b, Len(kids) = f, Len(ks) = c, Bounded(lo, hi, kids, ks, c, a, b),
           NEW ls, NEW js, Closed(kids, ls, 1), Closed(ks, js, 1)
    PROVE  Bounded(lo, hi, ls, js, d, ks[1], b)
<1>1. (d + 2) - 1 = d + 1 /\ (d + 1) - 1 = d /\ (d + 1) + 1 = d + 2 /\ 1 \in 1 .. d + 1
  OBVIOUS
<1>2. \A j \in 1 .. d + 1 : ls[j] = kids[j + 1]
  BY <1>1 DEF Closed
<1>3. \A j \in 1 .. d : js[j] = ks[j + 1]
  BY <1>1 DEF Closed
<1>4. 1 + 1 = 2 /\ d + 1 \in 1 .. d + 1 /\ \A j \in 1 .. d : j \in 1 .. d + 1 /\ j + 1 \in 1 .. d + 1
  OBVIOUS
<1>5. /\ lo[kids[1]] = a /\ hi[kids[d + 2]] = b
      /\ \A j \in 1 .. d + 1 : hi[kids[j]] = ks[j] /\ lo[kids[j + 1]] = ks[j]
  BY <1>1 DEF Bounded
<1>6. lo[ls[1]] = ks[1] /\ hi[ls[d + 1]] = b
  BY <1>1, <1>2, <1>4, <1>5
<1>7. \A j \in 1 .. d : hi[ls[j]] = js[j] /\ lo[ls[j + 1]] = js[j]
  BY <1>2, <1>3, <1>4, <1>5
<1> QED  BY <1>6, <1>7 DEF Bounded

\* Node e comes first.
LEMMA BoundedCons ==
    ASSUME NEW lo, NEW hi, NEW kids, NEW ks, NEW d \in Nat, NEW a, NEW b,
           Len(kids) = d + 1, Len(ks) = d, Bounded(lo, hi, kids, ks, d, a, b),
           NEW e, hi[e] = a, NEW ls, NEW js, Spliced(kids, ls, 1, e), Spliced(ks, js, 1, a),
           NEW c, c = d + 1
    PROVE  Bounded(lo, hi, ls, js, c, lo[e], b)
<1>1. /\ ls[1] = e /\ \A j \in 2 .. d + 2 : ls[j] = kids[j - 1]
      /\ js[1] = a /\ \A j \in 2 .. d + 1 : js[j] = ks[j - 1]
  <2>1. (d + 1) + 1 = d + 2 /\ 1 + 1 = 2
    OBVIOUS
  <2> QED  BY <2>1 DEF Spliced
<1>2. hi[ls[d + 2]] = b
  <2>1. d + 2 \in 2 .. d + 2 /\ (d + 2) - 1 = d + 1
    OBVIOUS
  <2> QED  BY <1>1, <2>1 DEF Bounded
<1>3. ASSUME NEW j \in 1 .. d + 1
      PROVE  hi[ls[j]] = js[j] /\ lo[ls[j + 1]] = js[j]
  <2>1. CASE j = 1
    <3>1. 2 \in 2 .. d + 2 /\ 2 - 1 = 1 /\ j + 1 = 2
      BY <2>1
    <3>2. ls[2] = kids[1]
      BY <1>1, <3>1
    <3> QED  BY <1>1, <2>1, <3>1, <3>2 DEF Bounded
  <2>2. CASE j # 1
    <3>1. PICK i \in 1 .. d : /\ i = j - 1 /\ j \in 2 .. d + 1 /\ j \in 2 .. d + 2 /\ j + 1 \in 2 .. d + 2
                              /\ (j + 1) - 1 = i + 1
      <4>1. j - 1 \in 1 .. d
        BY <2>2
      <4>2. j \in 2 .. d + 1 /\ j \in 2 .. d + 2 /\ j + 1 \in 2 .. d + 2 /\ (j + 1) - 1 = (j - 1) + 1
        BY <2>2
      <4> QED  BY <4>1, <4>2
    <3>2. ls[j] = kids[i] /\ ls[j + 1] = kids[i + 1] /\ js[j] = ks[i]
      BY <1>1, <3>1
    <3> QED  BY <3>2 DEF Bounded
  <2> QED  BY <2>1, <2>2
<1>4. (d + 1) + 1 = d + 2
  OBVIOUS
<1> QED  BY <1>1, <1>2, <1>3, <1>4 DEF Bounded

\* Node e comes last.
LEMMA BoundedAppend ==
    ASSUME NEW lo, NEW hi, NEW kids, NEW ks, NEW d \in Nat, NEW a, NEW b,
           Len(kids) = d + 1, Len(ks) = d, Bounded(lo, hi, kids, ks, d, a, b),
           NEW e, lo[e] = b, NEW ls, NEW js, NEW c, c = d + 1, NEW f, f = d + 2,
           Spliced(kids, ls, f, e), Spliced(ks, js, c, b)
    PROVE  Bounded(lo, hi, ls, js, c, a, hi[e])
<1>1. /\ ls[d + 2] = e /\ \A j \in 1 .. d + 1 : ls[j] = kids[j]
      /\ js[d + 1] = b /\ \A j \in 1 .. d : js[j] = ks[j]
  <2>1. (d + 1) + 1 = d + 2 /\ (d + 2) - 1 = d + 1 /\ (d + 1) - 1 = d
    OBVIOUS
  <2> QED  BY <2>1 DEF Spliced
<1>2. lo[ls[1]] = a
  BY <1>1 DEF Bounded
<1>3. ASSUME NEW j \in 1 .. d + 1
      PROVE  hi[ls[j]] = js[j] /\ lo[ls[j + 1]] = js[j]
  <2>1. CASE j = d + 1
    <3>1. j + 1 = d + 2
      BY <2>1
    <3> QED  BY <1>1, <2>1, <3>1 DEF Bounded
  <2>2. CASE j # d + 1
    <3>1. j \in 1 .. d /\ j + 1 \in 1 .. d + 1
      BY <2>2
    <3> QED  BY <1>1, <3>1 DEF Bounded
  <2> QED  BY <2>1, <2>2
<1>4. (d + 1) + 1 = d + 2
  OBVIOUS
<1> QED  BY <1>1, <1>2, <1>3, <1>4 DEF Bounded

\* Two lists in one.
LEMMA BoundedJoin ==
    ASSUME NEW lo, NEW hi, NEW S, NEW T, NEW a, NEW b, NEW e,
           NEW k1 \in Seq(S), NEW s1 \in Seq(T), NEW d1 \in Nat, Len(k1) = d1 + 1, Len(s1) = d1,
           NEW k2 \in Seq(S), NEW s2 \in Seq(T), NEW d2 \in Nat, Len(k2) = d2 + 1, Len(s2) = d2,
           e \in T, Bounded(lo, hi, k1, s1, d1, a, e), Bounded(lo, hi, k2, s2, d2, e, b)
    PROVE  Bounded(lo, hi, k1 \o k2, s1 \o <<e>> \o s2, d1 + d2 + 1, a, b)
<1>1. PICK k, s : k = k1 \o k2 /\ s = s1 \o <<e>> \o s2
  OBVIOUS
<1>2. \A j \in 1 .. d1 + 1 : k[j] = k1[j]
  BY <1>1, JoinedElements DEF Follows
<1>3. \A j \in 1 .. d2 + 1 : k[d1 + 1 + j] = k2[j]
  <2>1. Follows(k1, k2, k)
    BY <1>1, JoinedElements
  <2>2. \A j \in 1 .. Len(k2) : k[Len(k1) + j] = k2[j]
    BY <2>1, Zenon DEF Follows
  <2> QED  BY <2>2
<1>4. PICK t \in Seq(T) : /\ t = s1 \o <<e>> /\ Len(t) = d1 + 1 /\ t[d1 + 1] = e
                          /\ \A j \in 1 .. d1 : t[j] = s1[j]
  <2>1. PICK o : o = <<e>> /\ o \in Seq(T) /\ Len(o) = 1 /\ o[1] = e
    <3>1. <<e>> \in Seq(T) /\ Len(<<e>>) = 1 /\ <<e>>[1] = e
      OBVIOUS
    <3> QED  BY <3>1
  <2>2. /\ s1 \o o \in Seq(T) /\ Len(s1 \o o) = d1 + 1 /\ (s1 \o o)[d1 + 1] = e
        /\ \A j \in 1 .. d1 : (s1 \o o)[j] = s1[j]
    BY <2>1, JoinedElements DEF Follows
  <2> QED  BY <2>1, <2>2
<1>5. \A j \in 1 .. d1 + 1 : s[j] = t[j]
  BY <1>1, <1>4, JoinedElements DEF Follows
<1>11. \A j \in 1 .. d2 : s[d1 + 1 + j] = s2[j]
  <2>1. Follows(t, s2, s)
    BY <1>1, <1>4, JoinedElements
  <2>2. \A j \in 1 .. Len(s2) : s[Len(t) + j] = s2[j]
    BY <2>1, Zenon DEF Follows
  <2> QED  BY <1>4, <2>2
<1>12. s[d1 + 1] = e /\ \A j \in 1 .. d1 : s[j] = s1[j]
  <2>1. d1 + 1 \in 1 .. d1 + 1 /\ \A j \in 1 .. d1 : j \in 1 .. d1 + 1
    OBVIOUS
  <2> QED  BY <1>4, <1>5, <2>1
<1>13. 1 \in 1 .. d1 + 1
  OBVIOUS
<1>6. /\ lo[k1[1]] = a /\ hi[k1[d1 + 1]] = e /\ lo[k2[1]] = e /\ hi[k2[d2 + 1]] = b
      /\ \A j \in 1 .. d1 : hi[k1[j]] = s1[j] /\ lo[k1[j + 1]] = s1[j]
      /\ \A j \in 1 .. d2 : hi[k2[j]] = s2[j] /\ lo[k2[j + 1]] = s2[j]
  BY DEF Bounded
<1>7. lo[k[1]] = a
  BY <1>2, <1>6, <1>13
<1>8. hi[k[(d1 + d2 + 1) + 1]] = b
  <2>1. (d1 + d2 + 1) + 1 = d1 + 1 + (d2 + 1) /\ d2 + 1 \in 1 .. d2 + 1
    OBVIOUS
  <2> QED  BY <1>3, <1>6, <2>1
<1>9. ASSUME NEW j \in 1 .. d1 + d2 + 1
      PROVE  hi[k[j]] = s[j] /\ lo[k[j + 1]] = s[j]
  <2>1. CASE j <= d1
    <3>1. j \in 1 .. d1 /\ j \in 1 .. d1 + 1 /\ j + 1 \in 1 .. d1 + 1
      BY <2>1
    <3> QED  BY <1>2, <1>6, <1>12, <3>1
  <2>2. CASE j = d1 + 1
    <3>1. j \in 1 .. d1 + 1 /\ j + 1 = d1 + 1 + 1 /\ 1 \in 1 .. d2 + 1
      BY <2>2
    <3>2. k[j] = k1[d1 + 1] /\ k[j + 1] = k2[1]
      BY <1>2, <1>3, <2>2, <3>1
    <3> QED  BY <1>6, <1>12, <2>2, <3>2
  <2>3. CASE j > d1 + 1
    <3>1. PICK i \in 1 .. d2 : j = d1 + 1 + i
      <4>1. j - (d1 + 1) \in 1 .. d2 /\ j = d1 + 1 + (j - (d1 + 1))
        BY <2>3
      <4> QED  BY <4>1
    <3>2. i \in 1 .. d2 + 1 /\ i + 1 \in 1 .. d2 + 1 /\ j + 1 = d1 + 1 + (i + 1)
      BY <3>1
    <3>3. k[j] = k2[i] /\ k[j + 1] = k2[i + 1] /\ s[j] = s2[i]
      BY <1>3, <1>11, <3>1, <3>2
    <3> QED  BY <1>6, <3>1, <3>3
  <2> QED  BY <2>1, <2>2, <2>3
<1>10. Bounded(lo, hi, k, s, d1 + d2 + 1, a, b)
  BY <1>7, <1>8, <1>9 DEF Bounded
<1> QED  BY <1>1, <1>10

\* The bound between children j and j + 1 becomes e.
Shifted(lo, hi, l, u, kids, j, e) ==
    \A i \in 1 .. Len(kids) : /\ l[kids[i]] = IF i = j + 1 THEN e ELSE lo[kids[i]]
                              /\ u[kids[i]] = IF i = j THEN e ELSE hi[kids[i]]

LEMMA BoundedMoved ==
    ASSUME NEW lo, NEW hi, NEW l, NEW u, NEW kids, NEW ks, NEW T, ks \in Seq(T),
           NEW d \in Nat, NEW a, NEW b, Len(kids) = d + 1, Len(ks) = d,
           Bounded(lo, hi, kids, ks, d, a, b), NEW j \in 1 .. d, NEW e,
           Shifted(lo, hi, l, u, kids, j, e), NEW js, js = Replaced(ks, j, e)
    PROVE  Bounded(l, u, kids, js, d, a, b)
<1>1. \A i \in 1 .. d : js[i] = IF i = j THEN e ELSE ks[i]
  BY DEF Replaced
<1>2. \A i \in 1 .. d + 1 : /\ l[kids[i]] = IF i = j + 1 THEN e ELSE lo[kids[i]]
                            /\ u[kids[i]] = IF i = j THEN e ELSE hi[kids[i]]
  BY DEF Shifted
<1>3. l[kids[1]] = a
  <2>1. 1 \in 1 .. d + 1 /\ 1 # j + 1
    OBVIOUS
  <2> QED  BY <1>2, <2>1 DEF Bounded
<1>4. u[kids[d + 1]] = b
  <2>1. d + 1 \in 1 .. d + 1 /\ d + 1 # j
    OBVIOUS
  <2> QED  BY <1>2, <2>1 DEF Bounded
<1>5. ASSUME NEW i \in 1 .. d
      PROVE  u[kids[i]] = js[i] /\ l[kids[i + 1]] = js[i]
  <2>1. i \in 1 .. d + 1 /\ i + 1 \in 1 .. d + 1 /\ (i + 1 = j + 1 <=> i = j)
    OBVIOUS
  <2>2. hi[kids[i]] = ks[i] /\ lo[kids[i + 1]] = ks[i]
    BY DEF Bounded
  <2> QED  BY <1>1, <1>2, <2>1, <2>2
<1> QED  BY <1>3, <1>4, <1>5 DEF Bounded

\* Of children j and j + 1 one is left, with the ranges of both.
Fused(lo, hi, l, u, kids, ls, j) ==
    \A i \in 1 .. Len(ls) : /\ l[ls[i]] = lo[kids[IF i <= j THEN i ELSE i + 1]]
                            /\ u[ls[i]] = hi[kids[IF i < j THEN i ELSE i + 1]]

LEMMA BoundedFused ==
    ASSUME NEW lo, NEW hi, NEW l, NEW u, NEW kids, NEW ks, NEW ls, NEW js,
           NEW d \in Nat, NEW a, NEW b, Len(ks) = d + 1, Len(ls) = d + 1,
           Bounded(lo, hi, kids, ks, d + 1, a, b), NEW j \in 1 .. d + 1,
           Fused(lo, hi, l, u, kids, ls, j), Closed(ks, js, j)
    PROVE  Bounded(l, u, ls, js, d, a, b)
<1>1. (d + 1) + 1 = d + 2 /\ (d + 1) - 1 = d /\ 1 \in 1 .. d + 1 /\ d + 1 \in 1 .. d + 1
  OBVIOUS
<1>2. /\ \A i \in 1 .. j - 1 : js[i] = ks[i]
      /\ \A i \in j .. d : js[i] = ks[i + 1]
  BY <1>1 DEF Closed
<1>3. /\ lo[kids[1]] = a /\ hi[kids[d + 2]] = b
      /\ \A i \in 1 .. d + 1 : hi[kids[i]] = ks[i] /\ lo[kids[i + 1]] = ks[i]
  BY <1>1 DEF Bounded
<1>4. \A i \in 1 .. d + 1 : /\ i <= j => l[ls[i]] = lo[kids[i]]
                            /\ ~(i <= j) => l[ls[i]] = lo[kids[i + 1]]
                            /\ i < j => u[ls[i]] = hi[kids[i]]
                            /\ ~(i < j) => u[ls[i]] = hi[kids[i + 1]]
  BY DEF Fused
<1>5. l[ls[1]] = a
  <2>1. 1 <= j
    OBVIOUS
  <2> QED  BY <1>1, <1>3, <1>4, <2>1
<1>6. u[ls[d + 1]] = b
  <2>1. ~(d + 1 < j)
    OBVIOUS
  <2> QED  BY <1>1, <1>3, <1>4, <2>1
<1>7. ASSUME NEW i \in 1 .. d
      PROVE  u[ls[i]] = js[i] /\ l[ls[i + 1]] = js[i]
  <2>1. i \in 1 .. d + 1 /\ i + 1 \in 1 .. d + 1
    OBVIOUS
  <2>2. CASE i < j
    <3>1. i \in 1 .. j - 1 /\ i + 1 <= j
      BY <2>2
    <3> QED  BY <1>2, <1>3, <1>4, <2>1, <2>2, <3>1
  <2>3. CASE ~(i < j)
    <3>1. i \in j .. d /\ ~(i + 1 <= j)
      BY <2>3
    <3>2. u[ls[i]] = hi[kids[i + 1]] /\ l[ls[i + 1]] = lo[kids[(i + 1) + 1]] /\ js[i] = ks[i + 1]
      BY <1>2, <1>4, <2>1, <2>3, <3>1
    <3> QED  BY <1>3, <2>1, <3>2
  <2> QED  BY <2>2, <2>3
<1> QED  BY <1>5, <1>6, <1>7 DEF Bounded

\* Where the bounds and the nodes of x are not those of g.
Altered(g, rt, lo, hi, x, l, u, S) ==
    /\ DOMAIN x \subseteq DOMAIN g /\ rt \in DOMAIN x
    /\ l \in [DOMAIN x -> Int] /\ u \in [DOMAIN x -> Int]
    /\ l[rt] = lo[rt] /\ u[rt] = hi[rt]
    /\ \A m \in DOMAIN x : x[m].leaf = g[m].leaf /\ lo[rt] <= l[m] /\ u[m] <= hi[rt]
    /\ \A m \in DOMAIN x : m \notin S =>
        /\ x[m].keys = g[m].keys /\ x[m].items = g[m].items /\ x[m].next = g[m].next
        /\ l[m] = lo[m] /\ u[m] = hi[m]
        /\ \A e \in DOMAIN g : g[m].leaf /\ g[e].leaf /\ lo[e] = hi[m] => e \in DOMAIN x /\ l[e] = lo[e]
    /\ \A m \in DOMAIN g : \/ m \in DOMAIN x /\ l[m] = lo[m] /\ u[m] = hi[m]
                           \/ g[m].parent \in S

\* The keys and children of an internal node are as its bounds say.
Portioned(x, l, u, m) ==
    /\ x[m].next = Null
    /\ \E c \in Nat : /\ Len(x[m].keys) = c /\ Len(x[m].items) = c + 1
                      /\ Bounded(l, u, x[m].items, x[m].keys, c, l[m], u[m])

LEMMA CutsFrom ==
    ASSUME NEW x, NEW rt, NEW lx, Typed(x), Forest(x, {rt}, lx), NEW m \in DOMAIN x, ~x[m].leaf,
           NEW l, NEW u, Portioned(x, l, u, m)
    PROVE  \E c \in Nat : Cuts(x, l, u, m, x[m].items, x[m].keys, c)
<1>1. PICK c \in Nat : /\ Len(x[m].keys) = c /\ Len(x[m].items) = c + 1
                       /\ Bounded(l, u, x[m].items, x[m].keys, c, l[m], u[m])
  BY DEF Portioned
<1>2. PICK kids, ks : kids = x[m].items /\ ks = x[m].keys
  OBVIOUS
<1>3. kids \in Seq(DOMAIN x) /\ ks \in Seq(Keys) /\ x[m].next = Null
  BY <1>2, BroodIs DEF Typed, IsNode, Portioned
<1>4. \A i \in 1 .. c : ks[i] \in Int
  BY <1>1, <1>2, <1>3, KeysOf
<1>5. \A i \in 1 .. c + 1 : kids[i] \in DOMAIN x
  BY <1>1, <1>2, <1>3
<1>6. Cuts(x, l, u, m, kids, ks, c)
  BY <1>1, <1>2, <1>3, <1>4, <1>5 DEF Cuts
<1> QED  BY <1>2, <1>6

\* It is enough to look at the nodes that are not as they were.
LEMMA SortedAfter ==
    ASSUME NEW g, NEW rt, NEW lv, NEW lo, NEW hi, Plain(g, rt, lv, lo, hi),
           NEW x, NEW lx, Typed(x), Forest(x, {rt}, lx),
           NEW l, NEW u, NEW S, Altered(g, rt, lo, hi, x, l, u, S),
           \A m \in S \cap DOMAIN x : x[m].leaf => Filed(x, l, u, m) /\ Chained(x, l, u, u[rt], m),
           \A m \in S \cap DOMAIN x : ~x[m].leaf => Portioned(x, l, u, m)
    PROVE  Sorted(x, rt, l, u)
<1>1. /\ \A m \in DOMAIN g : lo[m] \in Int /\ hi[m] \in Int
      /\ \A k \in Keys : lo[rt] <= k /\ k < hi[rt]
      /\ Forest(g, {rt}, lv) /\ Typed(g)
  BY PlainIs
<1>2. ASSUME NEW m \in DOMAIN x, x[m].leaf, m \notin S
      PROVE  Filed(x, l, u, m) /\ Chained(x, l, u, u[rt], m)
  <2>1. /\ m \in DOMAIN g /\ g[m].leaf /\ x[m].keys = g[m].keys /\ x[m].next = g[m].next
        /\ l[m] = lo[m] /\ u[m] = hi[m] /\ u[rt] = hi[rt]
        /\ \A e \in DOMAIN g : g[m].leaf /\ g[e].leaf /\ lo[e] = hi[m] => e \in DOMAIN x /\ l[e] = lo[e]
    BY <1>2 DEF Altered
  <2>2. Filed(g, lo, hi, m) /\ Chained(g, lo, hi, hi[rt], m)
    BY <2>1, PlainLeaf
  <2>3. Filed(x, l, u, m)
    BY <2>1, <2>2 DEF Filed
  <2>4. hi[m] = hi[rt] => x[m].next = Null
    BY <2>1, <2>2 DEF Chained
  <2>5. ASSUME hi[m] # hi[rt]
        PROVE  x[m].next \in DOMAIN x /\ x[x[m].next].leaf /\ l[x[m].next] = u[m]
    <3>1. PICK e : e = g[m].next
      OBVIOUS
    <3>2. e \in DOMAIN g /\ g[e].leaf /\ lo[e] = hi[m]
      BY <2>2, <2>5, <3>1 DEF Chained
    <3>3. e \in DOMAIN x /\ l[e] = lo[e] /\ x[e].leaf = g[e].leaf
      BY <2>1, <3>2 DEF Altered
    <3> QED  BY <2>1, <3>1, <3>2, <3>3
  <2> QED  BY <2>1, <2>3, <2>4, <2>5 DEF Chained
<1>3. ASSUME NEW m \in DOMAIN x, ~x[m].leaf, m \notin S
      PROVE  Portioned(x, l, u, m)
  <2>1. PICK kids, ks : kids = g[m].items /\ ks = g[m].keys
    OBVIOUS
  <2>2. /\ m \in DOMAIN g /\ ~g[m].leaf /\ x[m].keys = ks /\ x[m].items = kids /\ x[m].next = g[m].next
        /\ l[m] = lo[m] /\ u[m] = hi[m]
    BY <1>3, <2>1 DEF Altered
  <2>3. PICK c \in Nat : Cuts(g, lo, hi, m, kids, ks, c)
    BY <2>1, <2>2, PlainInternal
  <2>4. /\ Len(ks) = c /\ Len(kids) = c + 1 /\ g[m].next = Null
        /\ Bounded(lo, hi, kids, ks, c, lo[m], hi[m])
    BY <2>3 DEF Cuts
  <2>5. Agree(lo, hi, l, u, kids)
    <3>1. ASSUME NEW j \in 1 .. Len(kids)
          PROVE  l[kids[j]] = lo[kids[j]] /\ u[kids[j]] = hi[kids[j]]
      <4>1. PICK e : e = kids[j]
        OBVIOUS
      <4>2. e \in DOMAIN g /\ g[e].parent = m
        BY <1>1, <2>1, <2>2, <4>1, KidOf
      <4> QED  BY <1>3, <4>1, <4>2 DEF Altered
    <3> QED  BY <3>1 DEF Agree
  <2>6. Bounded(l, u, kids, ks, c, l[m], u[m])
    BY <2>2, <2>4, <2>5, BoundedAgain
  <2> QED  BY <2>2, <2>4, <2>6 DEF Portioned
<1>4. \A m \in DOMAIN x : x[m].leaf => Filed(x, l, u, m) /\ Chained(x, l, u, u[rt], m)
  BY <1>2
<1>5. \A m \in DOMAIN x : ~x[m].leaf => \E c \in Nat : Cuts(x, l, u, m, x[m].items, x[m].keys, c)
  BY <1>3, CutsFrom
<1>6. /\ l \in [DOMAIN x -> Int] /\ u \in [DOMAIN x -> Int] /\ rt \in DOMAIN x
      /\ \A m \in DOMAIN x : l[rt] <= l[m] /\ u[m] <= u[rt]
      /\ \A k \in Keys : l[rt] <= k /\ k < u[rt]
  BY <1>1 DEF Altered
<1> QED  BY <1>4, <1>5, <1>6, Zenon DEF Sorted

-----------------------------------------------------------------------------
(* Borrowing *)

\* f and s are children j and j + 1 of p, separated by b.
Adjacent(g, p, j, f, s, b) ==
    /\ p \in DOMAIN g /\ g[p].leaf = FALSE /\ j \in 1 .. Len(g[p].keys)
    /\ f = g[p].items[j] /\ s = g[p].items[j + 1] /\ b = g[p].keys[j]

LEMMA AdjacentIs ==
    ASSUME NEW g, NEW rt, NEW lv, NEW lo, NEW hi, Plain(g, rt, lv, lo, hi),
           NEW p, NEW j, NEW f, NEW s, NEW b, Adjacent(g, p, j, f, s, b)
    PROVE  /\ f \in DOMAIN g /\ s \in DOMAIN g /\ f # s /\ f # p /\ s # p /\ f # rt /\ s # rt
           /\ g[f].parent = p /\ g[s].parent = p /\ g[f].leaf = g[s].leaf
           /\ hi[f] = b /\ lo[s] = b /\ b \in Int /\ b \in Keys
           /\ lo[f] < b /\ b < hi[s] /\ hi[s] <= hi[rt] /\ lo[rt] <= lo[f]
<1>1. /\ \A m \in DOMAIN g : lo[m] \in Int /\ hi[m] \in Int /\ lo[m] < hi[m]
                             /\ lo[rt] <= lo[m] /\ hi[m] <= hi[rt]
      /\ Forest(g, {rt}, lv) /\ Typed(g)
  BY PlainIs
<1>2. PICK kids, ks : kids = g[p].items /\ ks = g[p].keys
  OBVIOUS
<1>3. p \in DOMAIN g /\ ~g[p].leaf /\ j \in 1 .. Len(ks) /\ f = kids[j] /\ s = kids[j + 1] /\ b = ks[j]
  BY <1>2 DEF Adjacent
<1>4. PICK d \in Nat : Cuts(g, lo, hi, p, kids, ks, d)
  BY <1>2, <1>3, PlainInternal
<1>5. /\ Len(ks) = d /\ Len(kids) = d + 1 /\ ks \in Seq(Keys)
      /\ Bounded(lo, hi, kids, ks, d, lo[p], hi[p])
  BY <1>4 DEF Cuts
<1>6. j \in 1 .. d /\ j \in 1 .. Len(kids) /\ j + 1 \in 1 .. Len(kids) /\ j # j + 1
  BY <1>3, <1>5
<1>7. /\ f \in DOMAIN g /\ f \notin {rt} /\ f # p /\ g[f].parent = p
      /\ lv[f] \in Nat /\ lv[p] \in Nat /\ lv[f] + 1 = lv[p]
  BY <1>1, <1>2, <1>3, <1>6, KidOf
<1>8. /\ s \in DOMAIN g /\ s \notin {rt} /\ s # p /\ g[s].parent = p
      /\ lv[s] \in Nat /\ lv[p] \in Nat /\ lv[s] + 1 = lv[p]
  BY <1>1, <1>2, <1>3, <1>6, KidOf
<1>9. f # s
  BY <1>1, <1>2, <1>3, <1>6, BroodIs
<1>10. g[f].leaf = g[s].leaf
  <2>1. lv[f] = lv[s]
    BY <1>7, <1>8
  <2>2. (g[f].leaf <=> lv[f] = 0) /\ (g[s].leaf <=> lv[s] = 0)
    BY <1>1, <1>7, <1>8 DEF Forest
  <2>3. g[f].leaf \in BOOLEAN /\ g[s].leaf \in BOOLEAN
    BY <1>1, <1>7, <1>8 DEF Typed, IsNode
  <2> QED  BY <2>1, <2>2, <2>3, Zenon
<1>11. hi[f] = b /\ lo[s] = b
  BY <1>3, <1>5, <1>6 DEF Bounded
<1>12. b \in Keys
  BY <1>3, <1>5
<1> QED  BY <1>1, <1>7, <1>8, <1>9, <1>10, <1>11, <1>12

\* Of two leaves side by side the first is followed by the second.
LEMMA NextLeaf ==
    ASSUME NEW g, NEW rt, NEW lv, NEW lo, NEW hi, Plain(g, rt, lv, lo, hi),
           NEW f \in DOMAIN g, NEW s \in DOMAIN g, g[f].leaf, g[s].leaf, hi[f] = lo[s]
    PROVE  g[f].next = s
<1>1. /\ \A m \in DOMAIN g : lo[m] \in Int /\ hi[m] \in Int /\ lo[m] < hi[m] /\ hi[m] <= hi[rt]
      /\ rt \in DOMAIN g
  BY PlainIs
<1>2. hi[f] # hi[rt]
  <2>1. PICK a, b, d \in Int : a = lo[s] /\ b = hi[s] /\ d = hi[rt] /\ a < b /\ b <= d
    BY <1>1
  <2> QED  BY <2>1
<1>3. PICK e : e = g[f].next /\ e \in DOMAIN g /\ g[e].leaf /\ lo[e] = lo[s]
  <2>1. Chained(g, lo, hi, hi[rt], f)
    BY PlainLeaf
  <2> QED  BY <1>2, <2>1 DEF Chained
<1>4. e = s
  BY <1>3, LeafKnown DEF Plain
<1> QED  BY <1>3, <1>4

\* The bound between two neighbours moves to t.
Rebounded(lo, hi, l, u, f, s, t) ==
    l = [lo EXCEPT ![s] = t] /\ u = [hi EXCEPT ![f] = t]

LEMMA ReboundedIs ==
    ASSUME NEW g, NEW rt, NEW lv, NEW lo, NEW hi, Plain(g, rt, lv, lo, hi),
           NEW f \in DOMAIN g, NEW s \in DOMAIN g, f # s, NEW t \in Int,
           NEW l, NEW u, Rebounded(lo, hi, l, u, f, s, t)
    PROVE  /\ l \in [DOMAIN g -> Int] /\ u \in [DOMAIN g -> Int]
           /\ l[s] = t /\ u[f] = t /\ l[f] = lo[f] /\ u[s] = hi[s]
           /\ \A m \in DOMAIN g : (m # s => l[m] = lo[m]) /\ (m # f => u[m] = hi[m])
<1>1. lo \in [DOMAIN g -> Int] /\ hi \in [DOMAIN g -> Int]
  BY PlainIs
<1> QED  BY <1>1 DEF Rebounded

\* x is g but for the keys and items of f, s and p.
Lent(g, x, p, f, s, j, t) ==
    /\ DOMAIN x = DOMAIN g
    /\ \A m \in DOMAIN g : /\ x[m].leaf = g[m].leaf /\ x[m].next = g[m].next
                           /\ m \notin {f, s, p} => x[m].keys = g[m].keys /\ x[m].items = g[m].items
    /\ x[p].items = g[p].items /\ x[p].keys = Replaced(g[p].keys, j, t)

LEMMA LentAltered ==
    ASSUME NEW g, NEW rt, NEW lv, NEW lo, NEW hi, Plain(g, rt, lv, lo, hi),
           NEW p, NEW j, NEW f, NEW s, NEW b, Adjacent(g, p, j, f, s, b),
           NEW t \in Int, lo[f] < t, t < hi[s], NEW x, Lent(g, x, p, f, s, j, t),
           NEW l, NEW u, Rebounded(lo, hi, l, u, f, s, t)
    PROVE  Altered(g, rt, lo, hi, x, l, u, {f, s, p})
<1>1. /\ \A m \in DOMAIN g : lo[m] \in Int /\ hi[m] \in Int /\ lo[m] < hi[m]
                             /\ lo[rt] <= lo[m] /\ hi[m] <= hi[rt]
      /\ rt \in DOMAIN g
  BY PlainIs
<1>2. /\ f \in DOMAIN g /\ s \in DOMAIN g /\ f # s /\ f # p /\ s # p /\ f # rt /\ s # rt
      /\ g[f].parent = p /\ g[s].parent = p /\ g[f].leaf = g[s].leaf /\ hi[f] = b /\ lo[s] = b
  BY AdjacentIs
<1>3. /\ l \in [DOMAIN g -> Int] /\ u \in [DOMAIN g -> Int] /\ l[s] = t /\ u[f] = t
      /\ \A m \in DOMAIN g : (m # s => l[m] = lo[m]) /\ (m # f => u[m] = hi[m])
  BY <1>2, ReboundedIs
<1>4. DOMAIN x = DOMAIN g
  BY DEF Lent
<1>5. ASSUME NEW m \in DOMAIN g
      PROVE  lo[rt] <= l[m] /\ u[m] <= hi[rt]
  <2>1. PICK a, d, e, i \in Int : a = lo[rt] /\ d = hi[rt] /\ e = lo[f] /\ i = hi[s]
    BY <1>1, <1>2
  <2>2. a <= e /\ i <= d /\ e < t /\ t < i
    BY <1>1, <1>2, <2>1
  <2>3. a <= t /\ t <= d
    BY <2>1, <2>2
  <2> QED  BY <1>1, <1>3, <2>1, <2>3
<1>6. ASSUME NEW m \in DOMAIN g, m \notin {f, s, p}, NEW e \in DOMAIN g, g[m].leaf, g[e].leaf,
             lo[e] = hi[m]
      PROVE  l[e] = lo[e]
  <2>1. e # s
    <3>1. SUFFICES ASSUME e = s PROVE FALSE
      OBVIOUS
    <3>2. hi[m] = hi[f] /\ g[f].leaf
      BY <1>2, <1>6, <3>1
    <3>3. m = f
      BY <1>2, <1>6, <3>2, LeafKnown DEF Plain
    <3> QED  BY <1>6, <3>3
  <2> QED  BY <1>3, <2>1
<1>7. \A m \in DOMAIN x : m \notin {f, s, p} =>
        /\ x[m].keys = g[m].keys /\ x[m].items = g[m].items /\ x[m].next = g[m].next
        /\ l[m] = lo[m] /\ u[m] = hi[m]
  BY <1>3, <1>4 DEF Lent
<1>8. \A m \in DOMAIN g : \/ m \in DOMAIN x /\ l[m] = lo[m] /\ u[m] = hi[m]
                          \/ g[m].parent \in {f, s, p}
  BY <1>2, <1>3, <1>4
<1>9. l[rt] = lo[rt] /\ u[rt] = hi[rt]
  BY <1>1, <1>2, <1>3
<1>10. \A m \in DOMAIN x : x[m].leaf = g[m].leaf
  BY DEF Lent
<1> QED  BY <1>1, <1>3, <1>4, <1>5, <1>6, <1>7, <1>8, <1>9, <1>10 DEF Altered

\* The parent of the two.
LEMMA LentParent ==
    ASSUME NEW g, NEW rt, NEW lv, NEW lo, NEW hi, Plain(g, rt, lv, lo, hi),
           NEW p, NEW j, NEW f, NEW s, NEW b, Adjacent(g, p, j, f, s, b),
           NEW t \in Int, NEW x, Lent(g, x, p, f, s, j, t),
           NEW l, NEW u, Rebounded(lo, hi, l, u, f, s, t)
    PROVE  Portioned(x, l, u, p)
<1>1. Forest(g, {rt}, lv) /\ Typed(g)
  BY PlainIs
<1>2. /\ f \in DOMAIN g /\ s \in DOMAIN g /\ f # s /\ f # p /\ s # p
  BY AdjacentIs
<1>3. \A m \in DOMAIN g : (m # s => l[m] = lo[m]) /\ (m # f => u[m] = hi[m])
  BY <1>2, ReboundedIs
<1>13. l[s] = t /\ u[f] = t
  BY <1>2, ReboundedIs
<1>4. PICK kids, ks, js : kids = g[p].items /\ ks = g[p].keys /\ js = Replaced(ks, j, t)
  OBVIOUS
<1>5. p \in DOMAIN g /\ ~g[p].leaf /\ j \in 1 .. Len(ks) /\ f = kids[j] /\ s = kids[j + 1]
  BY <1>4 DEF Adjacent
<1>6. x[p].items = kids /\ x[p].keys = js /\ x[p].next = g[p].next
  BY <1>4, <1>5 DEF Lent
<1>7. PICK d \in Nat : Cuts(g, lo, hi, p, kids, ks, d)
  BY <1>4, <1>5, PlainInternal
<1>8. /\ Len(ks) = d /\ Len(kids) = d + 1 /\ ks \in Seq(Keys) /\ g[p].next = Null
      /\ Bounded(lo, hi, kids, ks, d, lo[p], hi[p])
  BY <1>7 DEF Cuts
<1>9. Shifted(lo, hi, l, u, kids, j, t)
  <2>1. ASSUME NEW i \in 1 .. Len(kids)
        PROVE  /\ l[kids[i]] = IF i = j + 1 THEN t ELSE lo[kids[i]]
               /\ u[kids[i]] = IF i = j THEN t ELSE hi[kids[i]]
    <3>1. PICK e : e = kids[i] /\ e \in DOMAIN g
      BY <1>1, <1>4, <1>5, KidOf
    <3>2. j \in 1 .. Len(kids) /\ j + 1 \in 1 .. Len(kids)
      BY <1>5, <1>8
    <3>3. (i = j + 1 <=> e = s) /\ (i = j <=> e = f)
      BY <1>1, <1>4, <1>5, <3>1, <3>2, BroodIs
    <3> QED  BY <1>3, <1>13, <3>1, <3>3
  <2> QED  BY <2>1 DEF Shifted
<1>10. Bounded(l, u, kids, js, d, lo[p], hi[p])
  <2>1. j \in 1 .. d
    BY <1>5, <1>8
  <2> QED  BY <1>4, <1>8, <1>9, <2>1, BoundedMoved
<1>11. Len(js) = d
  BY <1>4, <1>8 DEF Replaced
<1>12. l[p] = lo[p] /\ u[p] = hi[p]
  BY <1>2, <1>3, <1>5
<1> QED  BY <1>6, <1>8, <1>10, <1>11, <1>12 DEF Portioned

\* Leaves side by side lend.
LEMMA LentLeaves ==
    ASSUME NEW g, NEW rt, NEW lv, NEW lo, NEW hi, Plain(g, rt, lv, lo, hi),
           NEW p, NEW j, NEW f, NEW s, NEW b, Adjacent(g, p, j, f, s, b), g[f].leaf = TRUE,
           NEW t \in Int, lo[f] < t, t < hi[s], NEW x, Lent(g, x, p, f, s, j, t),
           NEW l, NEW u, Rebounded(lo, hi, l, u, f, s, t)
    PROVE  Chained(x, l, u, u[rt], f) /\ Chained(x, l, u, u[rt], s)
<1>1. /\ \A m \in DOMAIN g : lo[m] \in Int /\ hi[m] \in Int /\ lo[m] < hi[m] /\ hi[m] <= hi[rt]
      /\ rt \in DOMAIN g
  BY PlainIs
<1>2. /\ f \in DOMAIN g /\ s \in DOMAIN g /\ f # s /\ f # rt /\ s # rt
      /\ g[f].leaf = g[s].leaf /\ hi[f] = lo[s]
  <2>1. /\ f \in DOMAIN g /\ s \in DOMAIN g /\ f # s /\ f # p /\ s # p /\ f # rt /\ s # rt
        /\ g[f].parent = p /\ g[s].parent = p /\ g[f].leaf = g[s].leaf /\ hi[f] = b /\ lo[s] = b
    BY AdjacentIs
  <2> QED  BY <2>1
<1>3. /\ l[s] = t /\ u[f] = t /\ u[s] = hi[s]
      /\ \A m \in DOMAIN g : (m # s => l[m] = lo[m]) /\ (m # f => u[m] = hi[m])
  BY <1>2, ReboundedIs
<1>4. u[rt] = hi[rt]
  BY <1>1, <1>2, <1>3
<1>5. /\ DOMAIN x = DOMAIN g
      /\ \A m \in DOMAIN g : x[m].leaf = g[m].leaf /\ x[m].next = g[m].next
  BY DEF Lent
<1>6. Chained(x, l, u, u[rt], f)
  <2>1. g[f].next = s
    BY <1>2, NextLeaf
  <2>2. t # hi[rt]
    <3>1. PICK a, d \in Int : a = hi[s] /\ d = hi[rt] /\ a <= d /\ t < a
      BY <1>1, <1>2
    <3> QED  BY <3>1
  <2> QED  BY <1>2, <1>3, <1>4, <1>5, <2>1, <2>2 DEF Chained
<1>7. Chained(x, l, u, u[rt], s)
  <2>1. Chained(g, lo, hi, hi[rt], s)
    BY <1>2, PlainLeaf
  <2>2. ASSUME hi[s] # hi[rt]
        PROVE  x[s].next \in DOMAIN x /\ x[x[s].next].leaf /\ l[x[s].next] = u[s]
    <3>1. PICK e : e = g[s].next /\ e \in DOMAIN g /\ g[e].leaf /\ lo[e] = hi[s]
      BY <2>1, <2>2 DEF Chained
    <3>2. e # s
      <4>1. lo[s] < hi[s] /\ lo[s] \in Int /\ hi[s] \in Int
        BY <1>1, <1>2
      <4> QED  BY <3>1, <4>1
    <3> QED  BY <1>2, <1>3, <1>5, <3>1, <3>2
  <2>3. hi[s] = hi[rt] => x[s].next = Null
    BY <1>2, <1>5, <2>1 DEF Chained
  <2> QED  BY <1>3, <1>4, <2>2, <2>3 DEF Chained
<1> QED  BY <1>6, <1>7

\* A node whose bound has moved is as it should be.
Fit(x, l, u, m) ==
    /\ x[m].leaf => Filed(x, l, u, m)
    /\ ~x[m].leaf => \E c \in Nat : /\ Len(x[m].keys) = c /\ Len(x[m].items) = c + 1
                                    /\ Bounded(l, u, x[m].items, x[m].keys, c, l[m], u[m])

LEMMA LentSorted ==
    ASSUME NEW g, NEW rt, NEW lv, NEW lo, NEW hi, Plain(g, rt, lv, lo, hi),
           NEW p, NEW j, NEW f, NEW s, NEW b, Adjacent(g, p, j, f, s, b),
           NEW t \in Int, lo[f] < t, t < hi[s], NEW x, Lent(g, x, p, f, s, j, t),
           Typed(x), Forest(x, {rt}, lv),
           NEW l, NEW u, Rebounded(lo, hi, l, u, f, s, t), Fit(x, l, u, f), Fit(x, l, u, s)
    PROVE  Sorted(x, rt, l, u)
<1>1. Altered(g, rt, lo, hi, x, l, u, {f, s, p})
  BY LentAltered
<1>2. /\ f \in DOMAIN g /\ s \in DOMAIN g /\ g[f].leaf = g[s].leaf /\ p \in DOMAIN g
      /\ g[p].leaf = FALSE
  <2>1. f \in DOMAIN g /\ s \in DOMAIN g /\ g[f].leaf = g[s].leaf
    <3>1. /\ f \in DOMAIN g /\ s \in DOMAIN g /\ f # s /\ f # p /\ s # p /\ f # rt /\ s # rt
          /\ g[f].parent = p /\ g[s].parent = p /\ g[f].leaf = g[s].leaf /\ hi[f] = b /\ lo[s] = b
      BY AdjacentIs
    <3> QED  BY <3>1
  <2> QED  BY <2>1 DEF Adjacent
<1>3. DOMAIN x = DOMAIN g /\ \A m \in DOMAIN g : x[m].leaf = g[m].leaf /\ x[m].next = g[m].next
  BY DEF Lent
<1>4. ASSUME NEW m \in {f, s, p} \cap DOMAIN x, x[m].leaf
      PROVE  Filed(x, l, u, m) /\ Chained(x, l, u, u[rt], m)
  <2>1. m \in {f, s} /\ g[f].leaf
    BY <1>2, <1>3, <1>4
  <2>2. Filed(x, l, u, m)
    BY <1>4, <2>1 DEF Fit
  <2>4. g[f].leaf = TRUE
    BY <1>2, <2>1, PlainLeaf
  <2>3. Chained(x, l, u, u[rt], f) /\ Chained(x, l, u, u[rt], s)
    BY <2>4, LentLeaves
  <2> QED  BY <2>1, <2>2, <2>3
<1>5. ASSUME NEW m \in {f, s, p} \cap DOMAIN x, ~x[m].leaf
      PROVE  Portioned(x, l, u, m)
  <2>1. CASE m = p
    BY <2>1, LentParent
  <2>2. CASE m # p
    <3>1. m \in {f, s} /\ Fit(x, l, u, m) /\ m \in DOMAIN g /\ ~g[m].leaf
      BY <1>2, <1>3, <1>5, <2>2
    <3>2. g[m].next = Null
      <4>1. PICK c \in Nat : Cuts(g, lo, hi, m, g[m].items, g[m].keys, c)
        BY <3>1, PlainInternal
      <4> QED  BY <4>1 DEF Cuts
    <3>3. x[m].next = Null
      BY <1>3, <3>1, <3>2
    <3> QED  BY <1>5, <3>1, <3>3 DEF Fit, Portioned
  <2> QED  BY <2>1, <2>2
<1>6. \A m \in {f, s, p} \cap DOMAIN x : x[m].leaf => Filed(x, l, u, m) /\ Chained(x, l, u, u[rt], m)
  BY <1>4
<1>7. \A m \in {f, s, p} \cap DOMAIN x : ~x[m].leaf => Portioned(x, l, u, m)
  BY <1>5
<1> QED  BY <1>1, <1>6, <1>7, SortedAfter

LEMMA ClosedAscends ==
    ASSUME NEW ks \in Seq(Int), Ascends(ks), NEW q \in 1 .. Len(ks), NEW js, Closed(ks, js, q)
    PROVE  /\ Ascends(js) /\ Len(js) + 1 = Len(ks)
           /\ \A i \in 1 .. Len(js) : \E j \in 1 .. Len(ks) : j # q /\ js[i] = ks[j]
<1>1. PICK c \in Nat : c = Len(ks) /\ c - 1 \in Nat
  <2>1. Len(ks) \in Nat /\ Len(ks) - 1 \in Nat
    OBVIOUS
  <2> QED  BY <2>1
<1>2. /\ Len(js) = c - 1
      /\ \A j \in 1 .. q - 1 : js[j] = ks[j]
      /\ \A j \in q .. c - 1 : js[j] = ks[j + 1]
  BY <1>1 DEF Closed
<1>3. \A i, j \in 1 .. c : i < j => ks[i] < ks[j]
  BY <1>1 DEF Ascends
<1>4. ASSUME NEW i \in 1 .. c - 1
      PROVE  \E j \in 1 .. c : /\ j # q /\ js[i] = ks[j]
                               /\ (i < q => j = i) /\ (~(i < q) => j = i + 1)
  <2>1. CASE i < q
    <3>1. i \in 1 .. q - 1 /\ i \in 1 .. c /\ i # q
      BY <1>1, <2>1
    <3> QED  BY <1>2, <2>1, <3>1
  <2>2. CASE ~(i < q)
    <3>1. i \in q .. c - 1 /\ i + 1 \in 1 .. c /\ i + 1 # q
      BY <1>1, <2>2
    <3> QED  BY <1>2, <2>2, <3>1
  <2> QED  BY <2>1, <2>2
<1>5. ASSUME NEW i \in 1 .. c - 1, NEW j \in 1 .. c - 1, i < j
      PROVE  js[i] < js[j]
  <2>1. PICK y \in 1 .. c : js[i] = ks[y] /\ (i < q => y = i) /\ (~(i < q) => y = i + 1)
    BY <1>4
  <2>2. PICK z \in 1 .. c : js[j] = ks[z] /\ (j < q => z = j) /\ (~(j < q) => z = j + 1)
    BY <1>4
  <2>3. y < z
    BY <1>1, <1>5, <2>1, <2>2, SMTT(20)
  <2> QED  BY <1>3, <2>1, <2>2, <2>3
<1>6. Ascends(js)
  BY <1>2, <1>5 DEF Ascends
<1>7. \A i \in 1 .. Len(js) : \E j \in 1 .. Len(ks) : j # q /\ js[i] = ks[j]
  BY <1>1, <1>2, <1>4
<1> QED  BY <1>1, <1>2, <1>6, <1>7

LEMMA ClosedListed ==
    ASSUME NEW ks, NEW vs, NEW c \in Nat, Len(ks) = c, Len(vs) = c, NEW q \in 1 .. c,
           NEW js, NEW ws, Closed(ks, js, q), Closed(vs, ws, q), NEW a, NEW b
    PROVE  Listed(ks, vs, a, b) <=> (a = ks[q] /\ b = vs[q]) \/ Listed(js, ws, a, b)
<1>1. /\ Len(js) = c - 1
      /\ \A j \in 1 .. q - 1 : js[j] = ks[j] /\ ws[j] = vs[j]
      /\ \A j \in q .. c - 1 : js[j] = ks[j + 1] /\ ws[j] = vs[j + 1]
  BY DEF Closed
<1>2. ASSUME NEW i \in 1 .. c - 1, js[i] = a, ws[i] = b
      PROVE  Listed(ks, vs, a, b)
  <2>1. CASE i < q
    <3>1. i \in 1 .. q - 1 /\ i \in 1 .. c
      BY <2>1
    <3> QED  BY <1>1, <1>2, <3>1 DEF Listed
  <2>2. CASE ~(i < q)
    <3>1. i \in q .. c - 1 /\ i + 1 \in 1 .. c
      BY <2>2
    <3> QED  BY <1>1, <1>2, <3>1 DEF Listed
  <2> QED  BY <2>1, <2>2
<1>3. ASSUME NEW i \in 1 .. c, ks[i] = a, vs[i] = b, i # q
      PROVE  Listed(js, ws, a, b)
  <2>1. CASE i < q
    <3>1. i \in 1 .. q - 1 /\ i \in 1 .. c - 1
      BY <2>1
    <3> QED  BY <1>1, <1>3, <3>1 DEF Listed
  <2>2. CASE ~(i < q)
    <3>1. PICK j \in q .. c - 1 : j \in 1 .. c - 1 /\ j + 1 = i
      <4>1. i - 1 \in q .. c - 1 /\ i - 1 \in 1 .. c - 1 /\ (i - 1) + 1 = i
        BY <1>3, <2>2
      <4> QED  BY <4>1
    <3>2. js[j] = a /\ ws[j] = b
      BY <1>1, <1>3, <3>1
    <3> QED  BY <1>1, <3>1, <3>2 DEF Listed
  <2> QED  BY <2>1, <2>2
<1>4. a = ks[q] /\ b = vs[q] => Listed(ks, vs, a, b)
  BY DEF Listed
<1>5. Listed(js, ws, a, b) => Listed(ks, vs, a, b)
  BY <1>1, <1>2 DEF Listed
<1>6. Listed(ks, vs, a, b) => (a = ks[q] /\ b = vs[q]) \/ Listed(js, ws, a, b)
  BY <1>3 DEF Listed
<1> QED  BY <1>4, <1>5, <1>6

\* Entry <<a, b>> is in a leaf of the nodes S.
HasIn(h, S, a, b) == \E m \in S \cap DOMAIN h : h[m].leaf /\ Lists(h[m], a, b)

\* The leaves that are not in S are the same, the entries of the others are as well.
SameBut(h, g, S) ==
    /\ \A m \in DOMAIN h : h[m].leaf /\ m \notin S =>
        m \in DOMAIN g /\ g[m].leaf /\ g[m].keys = h[m].keys /\ g[m].items = h[m].items
    /\ \A m \in DOMAIN g : g[m].leaf /\ m \notin S => m \in DOMAIN h /\ h[m].leaf
    /\ \A a, b : HasIn(g, S, a, b) <=> HasIn(h, S, a, b)

LEMMA SameButSame ==
    ASSUME NEW h, NEW g, NEW S, SameBut(h, g, S)
    PROVE  SameEntries(h, g)
<1>1. ASSUME NEW a, NEW b, Has(g, a, b)
      PROVE  Has(h, a, b)
  <2>1. PICK m \in DOMAIN g : g[m].leaf /\ Lists(g[m], a, b)
    BY <1>1 DEF Has
  <2>2. CASE m \in S
    <3>1. HasIn(h, S, a, b)
      BY <2>1, <2>2 DEF HasIn, SameBut
    <3> QED  BY <3>1 DEF HasIn, Has
  <2>3. CASE m \notin S
    <3>1. m \in DOMAIN h /\ h[m].leaf /\ g[m].keys = h[m].keys /\ g[m].items = h[m].items
      BY <2>1, <2>3 DEF SameBut
    <3>2. Lists(h[m], a, b)
      BY <2>1, <3>1 DEF Lists
    <3> QED  BY <3>1, <3>2 DEF Has
  <2> QED  BY <2>2, <2>3
<1>2. ASSUME NEW a, NEW b, Has(h, a, b)
      PROVE  Has(g, a, b)
  <2>1. PICK m \in DOMAIN h : h[m].leaf /\ Lists(h[m], a, b)
    BY <1>2 DEF Has
  <2>2. CASE m \in S
    <3>1. HasIn(g, S, a, b)
      BY <2>1, <2>2 DEF HasIn, SameBut
    <3> QED  BY <3>1 DEF HasIn, Has
  <2>3. CASE m \notin S
    <3>1. m \in DOMAIN g /\ g[m].leaf /\ g[m].keys = h[m].keys /\ g[m].items = h[m].items
      BY <2>1, <2>3 DEF SameBut
    <3>2. Lists(g[m], a, b)
      BY <2>1, <3>1 DEF Lists
    <3> QED  BY <3>1, <3>2 DEF Has
  <2> QED  BY <2>2, <2>3
<1> QED  BY <1>1, <1>2 DEF SameEntries

\* Leaf a gives its entry at place q to leaf b, where it comes to place r.
LEMMA EntryMoves ==
    ASSUME NEW g, NEW x, DOMAIN x = DOMAIN g, NEW a \in DOMAIN g, NEW b \in DOMAIN g, a # b,
           g[a].leaf = TRUE, g[b].leaf = TRUE, x[a].leaf = TRUE, x[b].leaf = TRUE,
           NEW c \in Nat, Len(g[a].keys) = c, Len(g[a].items) = c, NEW q \in 1 .. c,
           NEW d \in Nat, Len(g[b].keys) = d, Len(g[b].items) = d, NEW r,
           Closed(g[a].keys, x[a].keys, q), Closed(g[a].items, x[a].items, q),
           Spliced(g[b].keys, x[b].keys, r, g[a].keys[q]),
           Spliced(g[b].items, x[b].items, r, g[a].items[q]),
           NEW y, NEW z
    PROVE  HasIn(x, {a, b}, y, z) <=> HasIn(g, {a, b}, y, z)
<1>1. \A h : DOMAIN h = DOMAIN g /\ h[a].leaf = TRUE /\ h[b].leaf = TRUE =>
        (HasIn(h, {a, b}, y, z) <=> \/ Listed(h[a].keys, h[a].items, y, z)
                                    \/ Listed(h[b].keys, h[b].items, y, z))
  BY DEF HasIn, Listed, Lists
<1>2. /\ HasIn(x, {a, b}, y, z) <=> \/ Listed(x[a].keys, x[a].items, y, z)
                                    \/ Listed(x[b].keys, x[b].items, y, z)
      /\ HasIn(g, {a, b}, y, z) <=> \/ Listed(g[a].keys, g[a].items, y, z)
                                    \/ Listed(g[b].keys, g[b].items, y, z)
  BY <1>1
<1>3. Listed(g[a].keys, g[a].items, y, z) <=>
        (y = g[a].keys[q] /\ z = g[a].items[q]) \/ Listed(x[a].keys, x[a].items, y, z)
  BY ClosedListed
<1>4. Listed(x[b].keys, x[b].items, y, z) <=>
        (y = g[a].keys[q] /\ z = g[a].items[q]) \/ Listed(g[b].keys, g[b].items, y, z)
  BY SplicedListed
<1> QED  BY <1>2, <1>3, <1>4

LEMMA HandedNext ==
    ASSUME NEW g, Typed(g), NEW a \in DOMAIN g, NEW b \in DOMAIN g, NEW p \in DOMAIN g,
           a # b, a # p, b # p, NEW ka, NEW ia, NEW kb, NEW ib, NEW kp, NEW e,
           NEW x, x = Rotated(ThreeNew(g, a, ka, ia, b, kb, ib, p, kp), b, e)
    PROVE  \A m \in DOMAIN g : x[m].next = g[m].next
<1>1. PICK y : y = ThreeNew(g, a, ka, ia, b, kb, ib, p, kp)
  OBVIOUS
<1>2. DOMAIN y = DOMAIN g /\ \A m \in DOMAIN g : DOMAIN y[m] = Fields /\ y[m].next = g[m].next
  BY <1>1, ThreeNewIs
<1>3. CASE y[b].leaf
  BY <1>1, <1>2, <1>3 DEF Rotated
<1>4. CASE ~y[b].leaf
  <2>1. x = [y EXCEPT ![e].parent = b]
    BY <1>1, <1>4 DEF Rotated
  <2>2. \A m \in DOMAIN g : m # e => x[m] = y[m]
    BY <1>2, <2>1
  <2>3. ASSUME e \in DOMAIN g
        PROVE  x[e].next = y[e].next
    <3>1. x[e] = [y[e] EXCEPT !.parent = b] /\ DOMAIN y[e] = Fields
      BY <1>2, <2>1, <2>3
    <3> QED  BY <3>1 DEF Fields
  <2> QED  BY <1>2, <2>2, <2>3
<1> QED  BY <1>3, <1>4

Hands(g, x, rt, a, ka, ia, b, kb, ib, p, kp, e) ==
    /\ MayHand(g, rt, a, ka, ia, b, kb, ib, p, kp, e)
    /\ x = Rotated(ThreeNew(g, a, ka, ia, b, kb, ib, p, kp), b, e)

Gave(g, x, rt, lv, a, ka, ia, b, kb, ib, p, f, s, j, t) ==
    /\ Lent(g, x, p, f, s, j, t) /\ Typed(x) /\ Forest(x, {rt}, lv)
    /\ x[a].keys = ka /\ x[a].items = ia /\ x[b].keys = kb /\ x[b].items = ib

\* What the node that lends has is handed over: neighbours f and s of which one is a.
LEMMA HandedLent ==
    ASSUME NEW g, NEW rt, NEW lv, NEW lo, NEW hi, Plain(g, rt, lv, lo, hi),
           NEW p, NEW j, NEW f, NEW s, NEW w, Adjacent(g, p, j, f, s, w),
           NEW a, NEW b, (a = f /\ b = s) \/ (a = s /\ b = f), NEW t, NEW kp, kp = Replaced(g[p].keys, j, t),
           NEW ka, NEW ia, NEW kb, NEW ib, NEW e, NEW x,
           Hands(g, x, rt, a, ka, ia, b, kb, ib, p, kp, e)
    PROVE  Gave(g, x, rt, lv, a, ka, ia, b, kb, ib, p, f, s, j, t)
<1>7. /\ MayHand(g, rt, a, ka, ia, b, kb, ib, p, kp, e)
      /\ x = Rotated(ThreeNew(g, a, ka, ia, b, kb, ib, p, kp), b, e)
  BY DEF Hands
<1>1. Forest(g, {rt}, lv) /\ Typed(g)
  BY PlainIs
<1>2. /\ f \in DOMAIN g /\ s \in DOMAIN g /\ f # s /\ f # p /\ s # p /\ f # rt /\ s # rt
      /\ g[f].parent = p /\ g[s].parent = p /\ g[f].leaf = g[s].leaf /\ p \in DOMAIN g
  <2>1. /\ f \in DOMAIN g /\ s \in DOMAIN g /\ f # s /\ f # p /\ s # p /\ f # rt /\ s # rt
        /\ g[f].parent = p /\ g[s].parent = p /\ g[f].leaf = g[s].leaf /\ hi[f] = w /\ lo[s] = w
    BY AdjacentIs
  <2> QED  BY <2>1 DEF Adjacent
<1>3. Typed(x) /\ Forest(x, {rt}, lv) /\ HandedOver(g, x, a, b, p, ka, ia, kb, ib, kp, lv)
  BY <1>1, <1>7, HandedOverIs
<1>4. \A m \in DOMAIN g : x[m].next = g[m].next
  <2>1. a \in DOMAIN g /\ b \in DOMAIN g /\ a # p /\ b # p
    BY <1>2
  <2> QED  BY <1>1, <1>2, <1>7, <2>1, HandedNext
<1>5. {a, b, p} = {f, s, p}
  OBVIOUS
<1>6. Lent(g, x, p, f, s, j, t)
  BY <1>3, <1>4, <1>5 DEF Lent, HandedOver
<1> QED  BY <1>3, <1>6 DEF HandedOver, Gave

\* The nodes `kids` are children of f and s.
KidsOfBoth(g, f, s, kids) ==
    \A e : Holds(kids, e) => Holds(g[f].items, e) \/ Holds(g[s].items, e)

LEMMA KidsAgree ==
    ASSUME NEW g, NEW rt, NEW lv, NEW lo, NEW hi, Plain(g, rt, lv, lo, hi),
           NEW p, NEW j, NEW f, NEW s, NEW w, Adjacent(g, p, j, f, s, w), g[f].leaf = FALSE,
           NEW t \in Int, NEW l, NEW u, Rebounded(lo, hi, l, u, f, s, t),
           NEW kids, KidsOfBoth(g, f, s, kids)
    PROVE  Agree(lo, hi, l, u, kids)
<1>1. Forest(g, {rt}, lv)
  BY PlainIs
<1>2. /\ f \in DOMAIN g /\ s \in DOMAIN g /\ f # s /\ f # p /\ s # p /\ f # rt /\ s # rt
      /\ g[f].parent = p /\ g[s].parent = p /\ g[f].leaf = g[s].leaf /\ hi[f] = w /\ lo[s] = w
  BY AdjacentIs
<1>3. \A m \in DOMAIN g : (m # s => l[m] = lo[m]) /\ (m # f => u[m] = hi[m])
  BY <1>2, ReboundedIs
<1>4. ASSUME NEW i \in 1 .. Len(kids)
      PROVE  l[kids[i]] = lo[kids[i]] /\ u[kids[i]] = hi[kids[i]]
  <2>1. PICK e : e = kids[i]
    OBVIOUS
  <2>2. Holds(g[f].items, e) \/ Holds(g[s].items, e)
    <3>1. Holds(kids, e)
      BY <2>1 DEF Holds
    <3> QED  BY <3>1 DEF KidsOfBoth
  <2>3. PICK m : m \in {f, s} /\ Holds(g[m].items, e)
    BY <2>2
  <2>4. PICK y \in 1 .. Len(g[m].items) : g[m].items[y] = e
    BY <2>3 DEF Holds
  <2>5. m \in DOMAIN g /\ ~g[m].leaf
    BY <1>2, <2>3
  <2>6. e \in DOMAIN g /\ g[e].parent = m
    BY <1>1, <2>4, <2>5, KidOf
  <2>7. e # f /\ e # s
    BY <1>2, <2>3, <2>6
  <2> QED  BY <1>3, <2>1, <2>6, <2>7
<1> QED  BY <1>4 DEF Agree

\* The ranges in x are in order.
Graded(x, rt) == \E l, u : Sorted(x, rt, l, u)

\* A node is as it should be, by its bounds before.
LEMMA FitInternal ==
    ASSUME NEW x, NEW m, x[m].leaf = FALSE, NEW lo, NEW hi, NEW l, NEW u,
           NEW kids, NEW ks, kids = x[m].items, ks = x[m].keys,
           NEW d \in Nat, Len(ks) = d, Len(kids) = d + 1,
           Agree(lo, hi, l, u, kids), Bounded(lo, hi, kids, ks, d, l[m], u[m])
    PROVE  Fit(x, l, u, m)
<1>1. Bounded(l, u, kids, ks, d, l[m], u[m])
  BY BoundedAgain
<1> QED  BY <1>1 DEF Fit

\* The left sibling of child c has lent.
LeftPlace(g, p, i, l, c, w) == Adjacent(g, p, i - 1, l, c, w) /\ i \in Int

LEMMA LeafLentLeft ==
    ASSUME NEW g, NEW rt, NEW lv, NEW lo, NEW hi, Plain(g, rt, lv, lo, hi),
           NEW p, NEW i, NEW l, NEW c, NEW w, LeftPlace(g, p, i, l, c, w),
           Counted(g, l), Counted(g, c), 1 < Len(g[l].keys), g[c].leaf = TRUE,
           NEW x, LeftLent(g, x, rt, l, c, p, i)
    PROVE  Graded(x, rt) /\ SameEntries(g, x)
<1>1. PICK key, item, s, ka, ia, kc, ic, kp :
        /\ key = Last(g[l].keys) /\ item = Last(g[l].items)
        /\ s = IF g[c].leaf THEN key ELSE g[p].keys[i - 1]
        /\ ka = Front(g[l].keys) /\ ia = Front(g[l].items)
        /\ kc = Cons(s, g[c].keys) /\ ic = Cons(item, g[c].items)
        /\ kp = Replaced(g[p].keys, i - 1, key) /\ key \in Keys /\ s \in Keys
        /\ Len(g[l].keys) # 0 /\ Len(g[l].items) # 0
        /\ MayHand(g, rt, l, ka, ia, c, kc, ic, p, kp, item)
        /\ x = Rotated(ThreeNew(g, l, ka, ia, c, kc, ic, p, kp), c, item)
  BY DEF LeftLent
<1>2. Adjacent(g, p, i - 1, l, c, w)
  BY DEF LeftPlace
<1>3. /\ l \in DOMAIN g /\ c \in DOMAIN g /\ l # c /\ l # p /\ c # p /\ l # rt /\ c # rt
      /\ g[l].parent = p /\ g[c].parent = p /\ g[l].leaf = g[c].leaf /\ hi[l] = w /\ lo[c] = w
      /\ w \in Int /\ lo[l] < w /\ w < hi[c]
  BY <1>2, AdjacentIs
<1>4. /\ g[l].keys \in Seq(Keys) /\ g[l].items \in Seq(Values)
      /\ g[c].keys \in Seq(Keys) /\ g[c].items \in Seq(Values)
      /\ Filed(g, lo, hi, l) /\ Filed(g, lo, hi, c)
  BY <1>3, PlainLeaf
<1>5. PICK a, b \in Nat : /\ a = Len(g[l].keys) /\ a = Len(g[l].items) /\ a > 1
                          /\ b = Len(g[c].keys) /\ b = Len(g[c].items)
  <2>1. Len(g[l].keys) \in Nat /\ Len(g[c].keys) \in Nat
    BY <1>4
  <2>2. Len(g[l].items) = Len(g[l].keys) /\ Len(g[c].items) = Len(g[c].keys)
    BY <1>3 DEF Counted
  <2> QED  BY <2>1, <2>2
<1>6. a \in 1 .. a /\ 1 \in 1 .. a /\ 1 < a
  BY <1>5
<1>7. /\ key = g[l].keys[a] /\ Closed(g[l].keys, ka, a)
      /\ item = g[l].items[a] /\ Closed(g[l].items, ia, a) /\ item \in Values
  BY <1>1, <1>4, <1>5, FrontElements
<1>8. s = key /\ Spliced(g[c].keys, kc, 1, key) /\ Spliced(g[c].items, ic, 1, item)
  <2>1. s = key
    BY <1>1
  <2>2. Spliced(g[c].keys, Cons(key, g[c].keys), 1, key)
    BY <1>1, <1>4, ConsElements
  <2>3. Spliced(g[c].items, Cons(item, g[c].items), 1, item)
    BY <1>4, <1>7, ConsElements
  <2> QED  BY <1>1, <2>1, <2>2, <2>3
<1>9. /\ Lent(g, x, p, l, c, i - 1, key) /\ Typed(x) /\ Forest(x, {rt}, lv)
      /\ x[l].keys = ka /\ x[l].items = ia /\ x[c].keys = kc /\ x[c].items = ic
  <2>1. PICK j : j = i - 1
    OBVIOUS
  <2>2. Adjacent(g, p, j, l, c, w) /\ kp = Replaced(g[p].keys, j, key)
    BY <1>1, <1>2, <2>1
  <2>3. /\ Lent(g, x, p, l, c, j, key) /\ Typed(x) /\ Forest(x, {rt}, lv)
        /\ x[l].keys = ka /\ x[l].items = ia /\ x[c].keys = kc /\ x[c].items = ic
    <3>1. Hands(g, x, rt, l, ka, ia, c, kc, ic, p, kp, item)
      BY <1>1 DEF Hands
    <3>2. Gave(g, x, rt, lv, l, ka, ia, c, kc, ic, p, l, c, j, key)
      BY <2>2, <3>1, HandedLent
    <3> QED  BY <3>2 DEF Gave
  <2> QED  BY <2>1, <2>3
<1>10. PICK sk, sc : /\ sk = g[l].keys /\ sc = g[c].keys /\ sk \in Seq(Int) /\ sc \in Seq(Int)
                     /\ Len(sk) = a /\ Len(sc) = b
  BY <1>4, <1>5, KeysOf
<1>11. key \in Int
  BY <1>1
<1>12. /\ Ascends(sk) /\ lo[l] < key /\ key < w
       /\ \A j \in 1 .. a : lo[l] <= sk[j] /\ sk[j] < w
  <2>1. Ascends(sk) /\ \A j \in 1 .. a : lo[l] <= sk[j] /\ sk[j] < w
    BY <1>3, <1>4, <1>10 DEF Filed
  <2>2. sk[1] < sk[a]
    BY <1>6, <1>10, <2>1 DEF Ascends
  <2>3. lo[l] \in Int
    BY <1>3, PlainIs
  <2>4. lo[l] < key
    <3>1. PICK y, z \in Int : y = sk[1] /\ z = lo[l] /\ z <= y /\ y < key
      BY <1>6, <1>7, <1>10, <2>1, <2>2, <2>3
    <3> QED  BY <1>11, <3>1
  <2> QED  BY <1>6, <1>7, <1>10, <2>1, <2>4
<1>13. key < hi[c] /\ hi[c] \in Int
  <2>1. hi[c] \in Int
    BY <1>3, PlainIs
  <2> QED  BY <1>3, <1>11, <1>12, <2>1
<1>14. PICK l1, u1 : Rebounded(lo, hi, l1, u1, l, c, key)
  BY DEF Rebounded
<1>15. /\ l1[c] = key /\ u1[l] = key /\ l1[l] = lo[l] /\ u1[c] = hi[c]
  BY <1>3, <1>11, <1>14, ReboundedIs
<1>16. /\ Ascends(ka) /\ Len(ka) + 1 = a
       /\ \A y \in 1 .. Len(ka) : \E z \in 1 .. a : z # a /\ ka[y] = sk[z]
  <2>1. Closed(sk, ka, a) /\ a \in 1 .. Len(sk)
    BY <1>6, <1>7, <1>10
  <2>2. /\ Ascends(ka) /\ Len(ka) + 1 = Len(sk)
        /\ \A y \in 1 .. Len(ka) : \E z \in 1 .. Len(sk) : z # a /\ ka[y] = sk[z]
    <3>1. sk \in Seq(Int) /\ Ascends(sk)
      BY <1>10, <1>12, Zenon
    <3> QED  BY <2>1, <3>1, ClosedAscends
  <2> QED  BY <1>10, <2>2, Zenon
<1>17. Filed(x, l1, u1, l)
  <2>1. ASSUME NEW y \in 1 .. Len(ka)
        PROVE  lo[l] <= ka[y] /\ ka[y] < key
    <3>1. PICK z \in 1 .. a : z # a /\ ka[y] = sk[z]
      BY <1>16
    <3>2. z < a
      BY <3>1
    <3>3. sk[z] < sk[a]
      BY <1>6, <1>10, <1>12, <3>2 DEF Ascends
    <3> QED  BY <1>7, <1>10, <1>12, <3>1, <3>3
  <2> QED  BY <1>9, <1>12, <1>15, <1>16, <2>1 DEF Filed
<1>18. Filed(x, l1, u1, c)
  <2>1. Ascends(sc) /\ \A y \in 1 .. b : w <= sc[y] /\ sc[y] < hi[c]
    BY <1>3, <1>4, <1>10 DEF Filed
  <2>2. ASSUME NEW y \in 1 .. b
        PROVE  key < sc[y]
    <3>1. sc[y] \in Int /\ w <= sc[y]
      BY <1>10, <2>1
    <3> QED  BY <1>3, <1>11, <1>12, <3>1
  <2>3. Fits(sc, key, 1)
    BY <1>10, <2>2 DEF Fits
  <2>4. /\ Ascends(kc)
        /\ \A y \in 1 .. Len(kc) : kc[y] = key \/ \E z \in 1 .. Len(sc) : kc[y] = sc[z]
    <3>1. sc \in Seq(Int) /\ Ascends(sc) /\ Spliced(sc, kc, 1, key)
      BY <1>8, <1>10, <2>1, Zenon
    <3>2. key \in Int
      BY <1>11
    <3> QED  BY <2>3, <3>1, <3>2, SplicedAscends, SMTT(20)
  <2>5. ASSUME NEW y \in 1 .. Len(kc)
        PROVE  key <= kc[y] /\ kc[y] < hi[c]
    <3>1. CASE kc[y] = key
      BY <1>11, <1>13, <3>1
    <3>2. CASE \E z \in 1 .. Len(sc) : kc[y] = sc[z]
      <4>1. PICK z \in 1 .. b : kc[y] = sc[z]
        BY <1>10, <3>2
      <4>2. sc[z] \in Int /\ key < sc[z] /\ sc[z] < hi[c]
        BY <1>10, <2>1, <2>2
      <4> QED  BY <1>11, <4>1, <4>2
    <3> QED  BY <2>4, <3>1, <3>2
  <2> QED  BY <1>9, <1>13, <1>15, <2>4, <2>5 DEF Filed
<1>19. DOMAIN x = DOMAIN g /\ \A m \in DOMAIN g : x[m].leaf = g[m].leaf
  BY <1>9 DEF Lent
<1>20. Sorted(x, rt, l1, u1)
  <2>1. Fit(x, l1, u1, l) /\ Fit(x, l1, u1, c)
    BY <1>3, <1>17, <1>18, <1>19 DEF Fit
  <2> QED  BY <1>2, <1>9, <1>11, <1>12, <1>13, <1>14, <2>1, LentSorted
<1>21. SameBut(g, x, {l, c})
  <2>1. ASSUME NEW y, NEW z
        PROVE  HasIn(x, {l, c}, y, z) <=> HasIn(g, {l, c}, y, z)
    BY <1>3, <1>5, <1>6, <1>7, <1>8, <1>9, <1>19, EntryMoves
  <2>2. ASSUME NEW m \in DOMAIN g, g[m].leaf, m \notin {l, c}
        PROVE  x[m].keys = g[m].keys /\ x[m].items = g[m].items
    <3>1. m # p
      BY <1>2, <2>2 DEF Adjacent
    <3> QED  BY <1>9, <2>2, <3>1 DEF Lent
  <2> QED  BY <1>19, <2>1, <2>2 DEF SameBut
<1> QED  BY <1>20, <1>21, SameButSame DEF Graded

LEMMA InternalLentLeft ==
    ASSUME NEW g, NEW rt, NEW lv, NEW lo, NEW hi, Plain(g, rt, lv, lo, hi),
           NEW p, NEW i, NEW l, NEW c, NEW w, LeftPlace(g, p, i, l, c, w), g[c].leaf = FALSE,
           NEW x, LeftLent(g, x, rt, l, c, p, i)
    PROVE  Graded(x, rt) /\ SameEntries(g, x)
<1>1. PICK key, item, s, ka, ia, kc, ic, kp :
        /\ key = Last(g[l].keys) /\ item = Last(g[l].items)
        /\ s = IF g[c].leaf THEN key ELSE g[p].keys[i - 1]
        /\ ka = Front(g[l].keys) /\ ia = Front(g[l].items)
        /\ kc = Cons(s, g[c].keys) /\ ic = Cons(item, g[c].items)
        /\ kp = Replaced(g[p].keys, i - 1, key) /\ key \in Keys /\ s \in Keys
        /\ Len(g[l].keys) # 0 /\ Len(g[l].items) # 0
        /\ MayHand(g, rt, l, ka, ia, c, kc, ic, p, kp, item)
        /\ x = Rotated(ThreeNew(g, l, ka, ia, c, kc, ic, p, kp), c, item)
  BY DEF LeftLent
<1>2. PICK j : /\ j = i - 1 /\ Adjacent(g, p, j, l, c, w) /\ kp = Replaced(g[p].keys, j, key)
               /\ s = g[p].keys[j]
  BY <1>1 DEF LeftPlace
<1>3. /\ l \in DOMAIN g /\ c \in DOMAIN g /\ l # c /\ l # p /\ c # p /\ l # rt /\ c # rt
      /\ g[l].parent = p /\ g[c].parent = p /\ g[l].leaf = g[c].leaf /\ hi[l] = w /\ lo[c] = w
      /\ w \in Int /\ lo[l] < w /\ w < hi[c]
  BY <1>2, AdjacentIs
<1>4. s = w
  BY <1>2 DEF Adjacent
<1>5. PICK kl, sl, kd, sd : kl = g[l].items /\ sl = g[l].keys /\ kd = g[c].items /\ sd = g[c].keys
  OBVIOUS
<1>6. PICK d0 \in Nat : Cuts(g, lo, hi, l, kl, sl, d0)
  BY <1>3, <1>5, PlainInternal
<1>7. PICK d \in Nat : /\ Len(sl) = d + 1 /\ Len(kl) = d + 2 /\ sl \in Seq(Keys) /\ kl \in Seq(DOMAIN g)
                       /\ Bounded(lo, hi, kl, sl, d + 1, lo[l], w)
  <2>1. /\ Len(sl) = d0 /\ Len(kl) = d0 + 1 /\ sl \in Seq(Keys) /\ kl \in Seq(DOMAIN g)
        /\ Bounded(lo, hi, kl, sl, d0, lo[l], hi[l])
    BY <1>6 DEF Cuts
  <2>2. d0 # 0
    BY <1>1, <1>5, <2>1
  <2>3. PICK d \in Nat : d0 = d + 1
    <3>1. d0 - 1 \in Nat /\ d0 = (d0 - 1) + 1
      BY <2>2
    <3> QED  BY <3>1
  <2>4. Len(kl) = d + 2
    BY <2>1, <2>3
  <2> QED  BY <1>3, <2>1, <2>3, <2>4
<1>8. PICK b \in Nat : Cuts(g, lo, hi, c, kd, sd, b)
  BY <1>3, <1>5, PlainInternal
<1>9. /\ Len(sd) = b /\ Len(kd) = b + 1 /\ sd \in Seq(Keys) /\ kd \in Seq(DOMAIN g)
      /\ Bounded(lo, hi, kd, sd, b, w, hi[c])
  BY <1>3, <1>8 DEF Cuts
<1>10. d + 1 \in 1 .. d + 1 /\ d + 2 \in 1 .. d + 2 /\ d + 1 # 0 /\ d + 2 # 0
  BY SMTT(20)
<1>11. key = sl[d + 1] /\ Closed(sl, ka, d + 1) /\ item = kl[d + 2] /\ Closed(kl, ia, d + 2)
       /\ item \in DOMAIN g
  <2>1. /\ Last(sl) = sl[Len(sl)] /\ Closed(sl, Front(sl), Len(sl))
    BY <1>7, <1>10, FrontElements
  <2>2. /\ Last(kl) = kl[Len(kl)] /\ Closed(kl, Front(kl), Len(kl)) /\ Last(kl) \in DOMAIN g
    BY <1>7, <1>10, FrontElements
  <2> QED  BY <1>1, <1>5, <1>7, <2>1, <2>2
<1>12. Spliced(sd, kc, 1, w) /\ Spliced(kd, ic, 1, item)
  <2>1. Spliced(sd, Cons(w, sd), 1, w)
    <3>1. w \in Keys
      BY <1>1, <1>4
    <3> QED  BY <1>9, <3>1, ConsElements
  <2>2. Spliced(kd, Cons(item, kd), 1, item)
    BY <1>9, <1>11, ConsElements
  <2> QED  BY <1>1, <1>4, <1>5, <2>1, <2>2
<1>13. /\ Lent(g, x, p, l, c, j, key) /\ Typed(x) /\ Forest(x, {rt}, lv)
       /\ x[l].keys = ka /\ x[l].items = ia /\ x[c].keys = kc /\ x[c].items = ic
  <2>1. Hands(g, x, rt, l, ka, ia, c, kc, ic, p, kp, item)
    BY <1>1 DEF Hands
  <2>2. Gave(g, x, rt, lv, l, ka, ia, c, kc, ic, p, l, c, j, key)
    BY <1>2, <2>1, HandedLent
  <2> QED  BY <2>2 DEF Gave
<1>14. key \in Int /\ lo[l] < key /\ key < w
  <2>1. Ordered(g, rt, lv, lo, hi, Null, rt) /\ ~g[l].leaf
    BY <1>3 DEF Plain
  <2>2. InParts(g, lo, hi, Null, rt, l)
    BY <1>3, <2>1, PartsOf
  <2>3. lo[l] < sl[d + 1] /\ sl[d + 1] < hi[l]
    BY <1>5, <1>7, <1>10, <2>2 DEF InParts
  <2> QED  BY <1>1, <1>3, <1>11, <2>3
<1>15. key < hi[c] /\ hi[c] \in Int
  <2>1. hi[c] \in Int
    BY <1>3, PlainIs
  <2> QED  BY <1>3, <1>14, <2>1
<1>16. PICK l1, u1 : Rebounded(lo, hi, l1, u1, l, c, key)
  BY DEF Rebounded
<1>17. /\ l1[c] = key /\ u1[l] = key /\ l1[l] = lo[l] /\ u1[c] = hi[c]
  BY <1>3, <1>14, <1>16, ReboundedIs
<1>18. /\ Bounded(lo, hi, ia, ka, d, lo[l], key) /\ lo[item] = key /\ hi[item] = w
  <2>1. PICK d1, d2 : d1 = d + 1 /\ d2 = d + 2
    OBVIOUS
  <2>2. /\ Len(kl) = d2 /\ Len(sl) = d1 /\ Bounded(lo, hi, kl, sl, d1, lo[l], w)
        /\ Closed(kl, ia, d2) /\ Closed(sl, ka, d1)
    BY <1>7, <1>11, <2>1
  <2>4. PICK a : a = lo[l]
    OBVIOUS
  <2>5. Bounded(lo, hi, kl, sl, d1, a, w)
    BY <2>2, <2>4
  <2>3. Bounded(lo, hi, ia, ka, d, a, sl[d1])
    BY <2>1, <2>2, <2>5, BoundedFront
  <2>6. lo[kl[d2]] = sl[d1] /\ hi[kl[d2]] = w
    <3>1. d1 \in 1 .. d1 /\ d1 + 1 = d2
      BY <2>1
    <3> QED  BY <2>5, <3>1 DEF Bounded
  <2> QED  BY <1>11, <2>1, <2>3, <2>4, <2>6
<1>19. PICK b1 \in Nat : b1 = b + 1 /\ Bounded(lo, hi, ic, kc, b1, key, hi[c])
  <2>1. PICK b1 \in Nat : b1 = b + 1
    OBVIOUS
  <2>2. Bounded(lo, hi, ic, kc, b1, lo[item], hi[c])
    BY <1>9, <1>12, <1>18, <2>1, BoundedCons
  <2> QED  BY <1>18, <2>1, <2>2
<1>20. KidsOfBoth(g, l, c, ia) /\ KidsOfBoth(g, l, c, ic)
  <2>1. Handed(g, l, c, item, ia, ic)
    BY <1>1 DEF MayHand
  <2> QED  BY <2>1 DEF Handed, KidsOfBoth
<1>21. Agree(lo, hi, l1, u1, ia) /\ Agree(lo, hi, l1, u1, ic)
  <2>1. g[l].leaf = FALSE
    BY <1>3
  <2> QED  BY <1>2, <1>14, <1>16, <1>20, <2>1, KidsAgree
<1>22. DOMAIN x = DOMAIN g /\ \A m \in DOMAIN g : x[m].leaf = g[m].leaf
  BY <1>13 DEF Lent
<1>23. Fit(x, l1, u1, l)
  <2>1. x[l].leaf = FALSE /\ Len(ka) = d /\ Len(ia) = d + 1
    BY <1>3, <1>7, <1>11, <1>22 DEF Closed
  <2> QED  BY <1>13, <1>17, <1>18, <1>21, <2>1, FitInternal
<1>24. Fit(x, l1, u1, c)
  <2>1. x[c].leaf = FALSE /\ Len(kc) = b + 1 /\ Len(ic) = (b + 1) + 1
    BY <1>3, <1>9, <1>12, <1>22 DEF Spliced
  <2>3. Len(kc) = b1 /\ Len(ic) = b1 + 1 /\ Bounded(lo, hi, ic, kc, b1, l1[c], u1[c])
    BY <1>17, <1>19, <2>1
  <2> QED  BY <1>13, <1>21, <2>1, <2>3, FitInternal
<1>25. Sorted(x, rt, l1, u1)
  BY <1>2, <1>13, <1>14, <1>15, <1>16, <1>23, <1>24, LentSorted
<1>26. SameLeaves(g, x)
  <2>1. ASSUME NEW m \in DOMAIN g, g[m].leaf
        PROVE  x[m].keys = g[m].keys /\ x[m].items = g[m].items
    <3>1. m \notin {l, c, p}
      BY <1>2, <1>3, <2>1 DEF Adjacent
    <3> QED  BY <1>13, <3>1 DEF Lent
  <2> QED  BY <1>22, <2>1 DEF SameLeaves
<1> QED  BY <1>25, <1>26, SameLeavesDo DEF Graded

LEMMA LeafLentRight ==
    ASSUME NEW g, NEW rt, NEW lv, NEW lo, NEW hi, Plain(g, rt, lv, lo, hi),
           NEW p, NEW i, NEW r, NEW c, NEW w, Adjacent(g, p, i, c, r, w),
           Counted(g, r), Counted(g, c), g[c].leaf = TRUE,
           NEW x, RightLent(g, x, rt, r, c, p, i)
    PROVE  Graded(x, rt) /\ SameEntries(g, x)
<1>1. PICK key, item, s, sep, ka, ia, kc, ic, kp :
        /\ key = Head(g[r].keys) /\ item = Head(g[r].items)
        /\ s = IF g[c].leaf THEN key ELSE g[p].keys[i]
        /\ sep = IF g[c].leaf THEN g[r].keys[2] ELSE key
        /\ ka = Tail(g[r].keys) /\ ia = Tail(g[r].items)
        /\ kc = Append(g[c].keys, s) /\ ic = Append(g[c].items, item)
        /\ kp = Replaced(g[p].keys, i, sep) /\ key \in Keys /\ s \in Keys /\ sep \in Keys
        /\ Len(g[r].keys) # 0 /\ Len(g[r].items) # 0 /\ 2 \in 1 .. Len(g[r].keys)
        /\ MayHand(g, rt, r, ka, ia, c, kc, ic, p, kp, item)
        /\ x = Rotated(ThreeNew(g, r, ka, ia, c, kc, ic, p, kp), c, item)
  BY DEF RightLent
<1>3. /\ c \in DOMAIN g /\ r \in DOMAIN g /\ c # r /\ c # p /\ r # p /\ c # rt /\ r # rt
      /\ g[c].parent = p /\ g[r].parent = p /\ g[c].leaf = g[r].leaf /\ hi[c] = w /\ lo[r] = w
      /\ w \in Int /\ lo[c] < w /\ w < hi[r]
  BY AdjacentIs
<1>4. /\ g[r].keys \in Seq(Keys) /\ g[r].items \in Seq(Values)
      /\ g[c].keys \in Seq(Keys) /\ g[c].items \in Seq(Values)
      /\ Filed(g, lo, hi, r) /\ Filed(g, lo, hi, c)
  BY <1>3, PlainLeaf
<1>5. PICK a, b \in Nat : /\ a = Len(g[r].keys) /\ a = Len(g[r].items) /\ a > 1
                          /\ b = Len(g[c].keys) /\ b = Len(g[c].items)
  <2>1. Len(g[r].keys) \in Nat /\ Len(g[c].keys) \in Nat
    BY <1>4, SMTT(20)
  <2>2. Len(g[r].items) = Len(g[r].keys) /\ Len(g[c].items) = Len(g[c].keys)
    BY <1>3, Zenon DEF Counted
  <2>3. Len(g[r].keys) > 1
    BY <1>1, <2>1
  <2> QED  BY <2>1, <2>2, <2>3
<1>6. 1 \in 1 .. a /\ 2 \in 1 .. a /\ 1 < 2
  BY <1>5
<1>10. PICK sk, sc : /\ sk = g[r].keys /\ sc = g[c].keys /\ sk \in Seq(Int) /\ sc \in Seq(Int)
                     /\ Len(sk) = a /\ Len(sc) = b
  BY <1>4, <1>5, KeysOf
<1>7. /\ key = sk[1] /\ Closed(sk, ka, 1) /\ sep = sk[2]
      /\ item = g[r].items[1] /\ Closed(g[r].items, ia, 1) /\ item \in Values
  <2>1. Head(g[r].keys) = g[r].keys[1] /\ Closed(g[r].keys, Tail(g[r].keys), 1)
    BY <1>1, <1>4, TailElements, Zenon
  <2>2. /\ Head(g[r].items) = g[r].items[1] /\ Closed(g[r].items, Tail(g[r].items), 1)
        /\ Head(g[r].items) \in Values
    BY <1>1, <1>4, TailElements, Zenon
  <2> QED  BY <1>1, <1>10, <2>1, <2>2
<1>8. s = key /\ Spliced(sc, kc, b + 1, key) /\ Spliced(g[c].items, ic, b + 1, item)
  <2>1. s = key
    BY <1>1, Zenon
  <2>2. Spliced(g[c].keys, Append(g[c].keys, key), Len(g[c].keys) + 1, key)
    BY <1>1, <1>4, AppendElements
  <2>3. Spliced(g[c].items, Append(g[c].items, item), Len(g[c].items) + 1, item)
    BY <1>4, <1>7, AppendElements
  <2> QED  BY <1>1, <1>5, <1>10, <2>1, <2>2, <2>3, Zenon
<1>9. /\ Lent(g, x, p, c, r, i, sep) /\ Typed(x) /\ Forest(x, {rt}, lv)
      /\ x[r].keys = ka /\ x[r].items = ia /\ x[c].keys = kc /\ x[c].items = ic
  <2>1. Hands(g, x, rt, r, ka, ia, c, kc, ic, p, kp, item) /\ kp = Replaced(g[p].keys, i, sep)
    BY <1>1 DEF Hands
  <2>2. Gave(g, x, rt, lv, r, ka, ia, c, kc, ic, p, c, r, i, sep)
    BY <2>1, HandedLent, Zenon
  <2> QED  BY <2>2, Zenon DEF Gave
<1>11. key \in Int /\ sep \in Int
  BY <1>1
<1>12. /\ Ascends(sk) /\ w <= key /\ key < sep /\ sep < hi[r] /\ hi[r] \in Int
       /\ \A j \in 1 .. a : w <= sk[j] /\ sk[j] < hi[r]
  <2>1. Ascends(sk) /\ \A j \in 1 .. a : w <= sk[j] /\ sk[j] < hi[r]
    BY <1>3, <1>4, <1>10 DEF Filed
  <2>2. sk[1] < sk[2]
    BY <1>6, <1>10, <2>1 DEF Ascends
  <2>3. hi[r] \in Int
    BY <1>3, PlainIs
  <2> QED  BY <1>6, <1>7, <2>1, <2>2, <2>3
<1>13. lo[c] < sep /\ lo[c] < key /\ lo[c] \in Int
  <2>1. lo[c] \in Int
    BY <1>3, PlainIs
  <2> QED  BY <1>3, <1>11, <1>12, <2>1
<1>14. PICK l1, u1 : Rebounded(lo, hi, l1, u1, c, r, sep)
  BY DEF Rebounded
<1>15. /\ l1[r] = sep /\ u1[c] = sep /\ l1[c] = lo[c] /\ u1[r] = hi[r]
  BY <1>3, <1>11, <1>14, ReboundedIs
<1>16. /\ Ascends(ka) /\ Len(ka) + 1 = a
       /\ \A y \in 1 .. Len(ka) : \E z \in 1 .. a : z # 1 /\ ka[y] = sk[z]
  <2>1. Closed(sk, ka, 1) /\ 1 \in 1 .. Len(sk)
    BY <1>6, <1>7, <1>10
  <2>2. /\ Ascends(ka) /\ Len(ka) + 1 = Len(sk)
        /\ \A y \in 1 .. Len(ka) : \E z \in 1 .. Len(sk) : z # 1 /\ ka[y] = sk[z]
    <3>1. sk \in Seq(Int) /\ Ascends(sk)
      BY <1>10, <1>12, Zenon
    <3> QED  BY <2>1, <3>1, ClosedAscends
  <2> QED  BY <1>10, <2>2, Zenon
<1>17. Filed(x, l1, u1, r)
  <2>1. ASSUME NEW y \in 1 .. Len(ka)
        PROVE  sep <= ka[y] /\ ka[y] < hi[r]
    <3>1. PICK z \in 1 .. a : z # 1 /\ ka[y] = sk[z]
      BY <1>16
    <3>2. z = 2 \/ 2 < z
      BY <3>1
    <3>3. z = 2 \/ sk[2] < sk[z]
      BY <1>6, <1>10, <1>12, <3>2 DEF Ascends
    <3>4. sk[z] \in Int
      BY <1>10
    <3> QED  BY <1>7, <1>11, <1>12, <3>1, <3>3, <3>4
  <2> QED  BY <1>9, <1>12, <1>15, <1>16, <2>1 DEF Filed
<1>18. Filed(x, l1, u1, c)
  <2>1. Ascends(sc) /\ \A y \in 1 .. b : lo[c] <= sc[y] /\ sc[y] < w
    BY <1>3, <1>4, <1>10 DEF Filed
  <2>2. ASSUME NEW y \in 1 .. b
        PROVE  sc[y] < key
    <3>1. sc[y] \in Int /\ sc[y] < w
      BY <1>10, <2>1
    <3> QED  BY <1>3, <1>11, <1>12, <3>1
  <2>6. PICK at : at = b + 1 /\ (\A y \in 1 .. at - 1 : y \in 1 .. b) /\ at \notin 1 .. b
    OBVIOUS
  <2>3. Fits(sc, key, at)
    BY <1>10, <2>2, <2>6 DEF Fits
  <2>7. Spliced(sc, kc, at, key)
    BY <1>8, <2>6
  <2>4. /\ Ascends(kc)
        /\ \A y \in 1 .. Len(kc) : kc[y] = key \/ \E z \in 1 .. Len(sc) : kc[y] = sc[z]
    <3>1. sc \in Seq(Int) /\ Ascends(sc)
      BY <1>10, <2>1, Zenon
    <3>2. key \in Int
      BY <1>11
    <3> QED  BY <2>3, <2>7, <3>1, <3>2, SplicedAscends, SMTT(20)
  <2>5. ASSUME NEW y \in 1 .. Len(kc)
        PROVE  lo[c] <= kc[y] /\ kc[y] < sep
    <3>1. CASE kc[y] = key
      BY <1>11, <1>12, <1>13, <3>1
    <3>2. CASE \E z \in 1 .. Len(sc) : kc[y] = sc[z]
      <4>1. PICK z \in 1 .. b : kc[y] = sc[z]
        BY <1>10, <3>2
      <4>2. sc[z] \in Int /\ sc[z] < key /\ lo[c] <= sc[z]
        BY <1>10, <2>1, <2>2
      <4> QED  BY <1>11, <1>12, <4>1, <4>2
    <3> QED  BY <2>4, <3>1, <3>2
  <2> QED  BY <1>9, <1>13, <1>15, <2>4, <2>5 DEF Filed
<1>19. DOMAIN x = DOMAIN g /\ \A m \in DOMAIN g : x[m].leaf = g[m].leaf
  BY <1>9 DEF Lent
<1>20. Sorted(x, rt, l1, u1)
  <2>1. Fit(x, l1, u1, r) /\ Fit(x, l1, u1, c)
    BY <1>3, <1>17, <1>18, <1>19 DEF Fit
  <2> QED  BY <1>9, <1>11, <1>12, <1>13, <1>14, <2>1, LentSorted
<1>21. SameBut(g, x, {r, c})
  <2>3. PICK at : at = b + 1
    OBVIOUS
  <2>4. /\ Closed(g[r].keys, x[r].keys, 1) /\ Closed(g[r].items, x[r].items, 1)
        /\ Spliced(g[c].keys, x[c].keys, at, g[r].keys[1])
        /\ Spliced(g[c].items, x[c].items, at, g[r].items[1])
    BY <1>7, <1>8, <1>9, <1>10, <2>3
  <2>1. ASSUME NEW y, NEW z
        PROVE  HasIn(x, {r, c}, y, z) <=> HasIn(g, {r, c}, y, z)
    BY <1>3, <1>5, <1>6, <1>19, <2>4, EntryMoves
  <2>2. ASSUME NEW m \in DOMAIN g, g[m].leaf, m \notin {r, c}
        PROVE  x[m].keys = g[m].keys /\ x[m].items = g[m].items
    <3>1. m # p
      BY <2>2 DEF Adjacent
    <3> QED  BY <1>9, <2>2, <3>1 DEF Lent
  <2> QED  BY <1>19, <2>1, <2>2 DEF SameBut
<1> QED  BY <1>20, <1>21, SameButSame, Zenon DEF Graded

LEMMA InternalLentRight ==
    ASSUME NEW g, NEW rt, NEW lv, NEW lo, NEW hi, Plain(g, rt, lv, lo, hi),
           NEW p, NEW i, NEW r, NEW c, NEW w, Adjacent(g, p, i, c, r, w), g[c].leaf = FALSE,
           NEW x, RightLent(g, x, rt, r, c, p, i)
    PROVE  Graded(x, rt) /\ SameEntries(g, x)
<1>1. PICK key, item, s, sep, ka, ia, kc, ic, kp :
        /\ key = Head(g[r].keys) /\ item = Head(g[r].items)
        /\ s = IF g[c].leaf THEN key ELSE g[p].keys[i]
        /\ sep = IF g[c].leaf THEN g[r].keys[2] ELSE key
        /\ ka = Tail(g[r].keys) /\ ia = Tail(g[r].items)
        /\ kc = Append(g[c].keys, s) /\ ic = Append(g[c].items, item)
        /\ kp = Replaced(g[p].keys, i, sep) /\ key \in Keys /\ s \in Keys /\ sep \in Keys
        /\ Len(g[r].keys) # 0 /\ Len(g[r].items) # 0 /\ 2 \in 1 .. Len(g[r].keys)
        /\ MayHand(g, rt, r, ka, ia, c, kc, ic, p, kp, item)
        /\ x = Rotated(ThreeNew(g, r, ka, ia, c, kc, ic, p, kp), c, item)
  BY DEF RightLent
<1>2. sep = key /\ kp = Replaced(g[p].keys, i, key)
  BY <1>1, Zenon
<1>3. /\ c \in DOMAIN g /\ r \in DOMAIN g /\ c # r /\ c # p /\ r # p /\ c # rt /\ r # rt
      /\ g[c].parent = p /\ g[r].parent = p /\ g[c].leaf = g[r].leaf /\ hi[c] = w /\ lo[r] = w
      /\ w \in Int /\ lo[c] < w /\ w < hi[r]
  <2>1. /\ c \in DOMAIN g /\ r \in DOMAIN g /\ c # r /\ c # p /\ r # p /\ c # rt /\ r # rt
        /\ g[c].parent = p /\ g[r].parent = p /\ g[c].leaf = g[r].leaf
        /\ hi[c] = w /\ lo[r] = w /\ w \in Int /\ w \in Keys
        /\ lo[c] < w /\ w < hi[r] /\ hi[r] <= hi[rt] /\ lo[rt] <= lo[c]
    BY AdjacentIs, SMTT(20)
  <2> QED  BY <2>1, Zenon
<1>4. s = w
  BY <1>1, Zenon DEF Adjacent
<1>5. PICK kl, sl, kd, sd : kl = g[r].items /\ sl = g[r].keys /\ kd = g[c].items /\ sd = g[c].keys
  OBVIOUS
<1>6. PICK d0 \in Nat : Cuts(g, lo, hi, r, kl, sl, d0)
  BY <1>3, <1>5, PlainInternal
<1>7. PICK d \in Nat, d1 \in Nat, d2 \in Nat :
        /\ d1 = d + 1 /\ d2 = d + 2
        /\ Len(sl) = d1 /\ Len(kl) = d2 /\ sl \in Seq(Keys) /\ kl \in Seq(DOMAIN g)
        /\ Bounded(lo, hi, kl, sl, d1, w, hi[r])
  <2>1. /\ Len(sl) = d0 /\ Len(kl) = d0 + 1 /\ sl \in Seq(Keys) /\ kl \in Seq(DOMAIN g)
        /\ Bounded(lo, hi, kl, sl, d0, lo[r], hi[r])
    BY <1>6, Zenon DEF Cuts
  <2>2. d0 # 0
    BY <1>1, <1>5, <2>1
  <2>3. PICK d \in Nat : d0 = d + 1
    <3>1. d0 - 1 \in Nat /\ d0 = (d0 - 1) + 1
      BY <2>2
    <3> QED  BY <3>1
  <2>4. Len(kl) = d + 2
    BY <2>1, <2>3
  <2> QED  BY <1>3, <2>1, <2>3, <2>4
<1>8. PICK b \in Nat : Cuts(g, lo, hi, c, kd, sd, b)
  BY <1>3, <1>5, PlainInternal
<1>9. /\ Len(sd) = b /\ Len(kd) = b + 1 /\ sd \in Seq(Keys) /\ kd \in Seq(DOMAIN g)
      /\ Bounded(lo, hi, kd, sd, b, lo[c], w)
  BY <1>3, <1>8 DEF Cuts
<1>10. PICK b1 \in Nat, b2 \in Nat : b1 = b + 1 /\ b2 = b + 2 /\ b1 + 1 = b2
  <2>1. b + 1 \in Nat /\ (b + 1) + 1 = b + 2
    BY SMTT(20)
  <2> QED  BY <2>1
<1>11. key = sl[1] /\ Closed(sl, ka, 1) /\ item = kl[1] /\ Closed(kl, ia, 1) /\ item \in DOMAIN g
  <2>1. Head(sl) = sl[1] /\ Closed(sl, Tail(sl), 1)
    BY <1>1, <1>5, <1>7, TailElements, Zenon
  <2>2. /\ Head(kl) = kl[1] /\ Closed(kl, Tail(kl), 1) /\ Head(kl) \in DOMAIN g
    BY <1>1, <1>5, <1>7, TailElements, Zenon
  <2> QED  BY <1>1, <1>5, <2>1, <2>2, Zenon
<1>12. Spliced(sd, kc, b1, w) /\ Spliced(kd, ic, b2, item)
  <2>1. Spliced(sd, Append(sd, w), Len(sd) + 1, w)
    <3>1. w \in Keys
      BY <1>1, <1>4
    <3> QED  BY <1>9, <3>1, AppendElements
  <2>2. Spliced(kd, Append(kd, item), Len(kd) + 1, item)
    BY <1>9, <1>11, AppendElements
  <2>3. Len(sd) + 1 = b1 /\ Len(kd) + 1 = b2
    BY <1>9, <1>10
  <2> QED  BY <1>1, <1>4, <1>5, <2>1, <2>2, <2>3
<1>13. /\ Lent(g, x, p, c, r, i, key) /\ Typed(x) /\ Forest(x, {rt}, lv)
       /\ x[r].keys = ka /\ x[r].items = ia /\ x[c].keys = kc /\ x[c].items = ic
  <2>1. Hands(g, x, rt, r, ka, ia, c, kc, ic, p, kp, item)
    BY <1>1 DEF Hands
  <2>2. Gave(g, x, rt, lv, r, ka, ia, c, kc, ic, p, c, r, i, key)
    BY <1>2, <2>1, HandedLent
  <2> QED  BY <2>2, Zenon DEF Gave
<1>14. key \in Int /\ w < key /\ key < hi[r]
  <2>1. Ordered(g, rt, lv, lo, hi, Null, rt) /\ ~g[r].leaf
    BY <1>3 DEF Plain
  <2>2. InParts(g, lo, hi, Null, rt, r)
    BY <1>3, <2>1, PartsOf
  <2>3. 1 \in 1 .. Len(sl)
    BY <1>7
  <2>4. lo[r] < sl[1] /\ sl[1] < hi[r]
    BY <1>5, <2>2, <2>3 DEF InParts
  <2> QED  BY <1>1, <1>3, <1>11, <2>4
<1>15. lo[c] < key
  <2>1. lo[c] \in Int
    BY <1>3, PlainIs
  <2> QED  BY <1>3, <1>14, <2>1
<1>16. PICK l1, u1 : Rebounded(lo, hi, l1, u1, c, r, key)
  BY DEF Rebounded
<1>17. /\ l1[r] = key /\ u1[c] = key /\ l1[c] = lo[c] /\ u1[r] = hi[r]
  BY <1>3, <1>14, <1>16, ReboundedIs
<1>18. Bounded(lo, hi, ia, ka, d, key, hi[r])
  <2>1. PICK a : a = hi[r] /\ Bounded(lo, hi, kl, sl, d1, w, a)
    BY <1>7
  <2>2. Bounded(lo, hi, ia, ka, d, sl[1], a)
    BY <1>7, <1>11, <2>1, BoundedTail
  <2> QED  BY <1>11, <2>1, <2>2
<1>27. lo[item] = w /\ hi[item] = key
  <2>1. 1 \in 1 .. d1
    BY <1>7
  <2> QED  BY <1>7, <1>11, <2>1 DEF Bounded
<1>19. Bounded(lo, hi, ic, kc, b1, lo[c], key)
  <2>1. PICK a : a = lo[c] /\ Bounded(lo, hi, kd, sd, b, a, w)
    BY <1>9
  <2>2. Bounded(lo, hi, ic, kc, b1, a, hi[item])
    BY <1>9, <1>10, <1>12, <1>27, <2>1, BoundedAppend
  <2> QED  BY <1>27, <2>1, <2>2
<1>20. KidsOfBoth(g, c, r, ia) /\ KidsOfBoth(g, c, r, ic)
  <2>1. Handed(g, r, c, item, ia, ic)
    BY <1>1 DEF MayHand
  <2> QED  BY <2>1 DEF Handed, KidsOfBoth
<1>21. Agree(lo, hi, l1, u1, ia) /\ Agree(lo, hi, l1, u1, ic)
  BY <1>14, <1>16, <1>20, KidsAgree
<1>22. DOMAIN x = DOMAIN g /\ \A m \in DOMAIN g : x[m].leaf = g[m].leaf
  BY <1>13 DEF Lent
<1>23. Fit(x, l1, u1, r)
  <2>1. x[r].leaf = FALSE
    BY <1>3, <1>22
  <2>2. Len(ka) = d /\ Len(ia) = d + 1
    BY <1>7, <1>11 DEF Closed
  <2> QED  BY <1>13, <1>17, <1>18, <1>21, <2>1, <2>2, FitInternal
<1>24. Fit(x, l1, u1, c)
  <2>1. x[c].leaf = FALSE
    BY <1>3, <1>22
  <2>2. Len(kc) = b1 /\ Len(ic) = b1 + 1
    BY <1>9, <1>10, <1>12 DEF Spliced
  <2> QED  BY <1>13, <1>17, <1>19, <1>21, <2>1, <2>2, FitInternal
<1>25. Sorted(x, rt, l1, u1)
  BY <1>13, <1>14, <1>15, <1>16, <1>23, <1>24, LentSorted
<1>26. SameLeaves(g, x)
  <2>1. ASSUME NEW m \in DOMAIN g, g[m].leaf
        PROVE  x[m].keys = g[m].keys /\ x[m].items = g[m].items
    <3>1. m \notin {c, r, p}
      BY <1>3, <2>1 DEF Adjacent
    <3> QED  BY <1>13, <3>1 DEF Lent
  <2> QED  BY <1>22, <2>1 DEF SameLeaves
<1> QED  BY <1>25, <1>26, SameLeavesDo, Zenon DEF Graded

-----------------------------------------------------------------------------
(* Merging *)

\* Child l of p has taken the place of itself and the next child, r.
Absorbed(g, x, p, j, l, r) ==
    /\ DOMAIN x = DOMAIN g \ {r}
    /\ \A m \in DOMAIN x : /\ x[m].leaf = g[m].leaf /\ (m # l => x[m].next = g[m].next)
                           /\ m \notin {l, p} => x[m].keys = g[m].keys /\ x[m].items = g[m].items
    /\ x[l].next = g[r].next
    /\ Closed(g[p].keys, x[p].keys, j) /\ Closed(g[p].items, x[p].items, j + 1)

\* The range of l becomes that of both.
Widened(x, lo, hi, l, r, b, t) ==
    /\ b = [m \in DOMAIN x |-> lo[m]]
    /\ t = [m \in DOMAIN x |-> IF m = l THEN hi[r] ELSE hi[m]]

LEMMA AbsorbedAltered ==
    ASSUME NEW g, NEW rt, NEW lv, NEW lo, NEW hi, Plain(g, rt, lv, lo, hi),
           NEW p, NEW j, NEW l, NEW r, NEW w, Adjacent(g, p, j, l, r, w),
           NEW x, Absorbed(g, x, p, j, l, r), NEW b, NEW t, Widened(x, lo, hi, l, r, b, t)
    PROVE  Altered(g, rt, lo, hi, x, b, t, {l, p})
<1>1. /\ \A m \in DOMAIN g : lo[m] \in Int /\ hi[m] \in Int /\ lo[rt] <= lo[m] /\ hi[m] <= hi[rt]
      /\ rt \in DOMAIN g
  BY PlainIs
<1>2. /\ l \in DOMAIN g /\ r \in DOMAIN g /\ l # r /\ l # p /\ r # p /\ l # rt /\ r # rt
      /\ g[l].parent = p /\ g[r].parent = p /\ g[l].leaf = g[r].leaf /\ hi[l] = w /\ lo[r] = w
  BY AdjacentIs
<1>3. DOMAIN x = DOMAIN g \ {r}
  BY DEF Absorbed
<1>4. \A m \in DOMAIN x : b[m] = lo[m] /\ (m # l => t[m] = hi[m])
  BY DEF Widened
<1>5. t[l] = hi[r]
  BY <1>2, <1>3 DEF Widened
<1>6. b \in [DOMAIN x -> Int] /\ t \in [DOMAIN x -> Int]
  BY <1>1, <1>2, <1>3 DEF Widened
<1>7. \A m \in DOMAIN x : x[m].leaf = g[m].leaf /\ lo[rt] <= b[m] /\ t[m] <= hi[rt]
  <2>1. ASSUME NEW m \in DOMAIN x
        PROVE  lo[rt] <= b[m] /\ t[m] <= hi[rt]
    BY <1>1, <1>2, <1>3, <1>4, <1>5
  <2> QED  BY <2>1 DEF Absorbed
<1>8. \A m \in DOMAIN x : m \notin {l, p} =>
        /\ x[m].keys = g[m].keys /\ x[m].items = g[m].items /\ x[m].next = g[m].next
        /\ b[m] = lo[m] /\ t[m] = hi[m]
  BY <1>4 DEF Absorbed
<1>9. ASSUME NEW m \in DOMAIN x, m \notin {l, p}, NEW e \in DOMAIN g, g[m].leaf, g[e].leaf,
             lo[e] = hi[m]
      PROVE  e \in DOMAIN x /\ b[e] = lo[e]
  <2>1. e # r
    <3>1. SUFFICES ASSUME e = r PROVE FALSE
      OBVIOUS
    <3>2. hi[m] = hi[l] /\ g[l].leaf
      BY <1>2, <1>9, <3>1
    <3>3. m = l
      BY <1>2, <1>3, <1>9, <3>2, LeafKnown DEF Plain
    <3> QED  BY <1>9, <3>3
  <2> QED  BY <1>3, <1>4, <2>1
<1>10. \A m \in DOMAIN g : \/ m \in DOMAIN x /\ b[m] = lo[m] /\ t[m] = hi[m]
                           \/ g[m].parent \in {l, p}
  BY <1>2, <1>3, <1>4
<1>11. rt \in DOMAIN x /\ b[rt] = lo[rt] /\ t[rt] = hi[rt] /\ DOMAIN x \subseteq DOMAIN g
  BY <1>1, <1>2, <1>3, <1>4
<1> QED  BY <1>6, <1>7, <1>8, <1>9, <1>10, <1>11 DEF Altered

LEMMA AbsorbedParent ==
    ASSUME NEW g, NEW rt, NEW lv, NEW lo, NEW hi, Plain(g, rt, lv, lo, hi),
           NEW p, NEW j, NEW l, NEW r, NEW w, Adjacent(g, p, j, l, r, w),
           NEW x, Absorbed(g, x, p, j, l, r), NEW b, NEW t, Widened(x, lo, hi, l, r, b, t)
    PROVE  Portioned(x, b, t, p)
<1>1. Forest(g, {rt}, lv)
  BY PlainIs
<1>2. /\ l \in DOMAIN g /\ r \in DOMAIN g /\ l # r /\ l # p /\ r # p /\ l # rt /\ r # rt
      /\ g[l].parent = p /\ g[r].parent = p /\ g[l].leaf = g[r].leaf /\ hi[l] = w /\ lo[r] = w
  BY AdjacentIs
<1>3. DOMAIN x = DOMAIN g \ {r}
  BY DEF Absorbed
<1>4. \A m \in DOMAIN x : b[m] = lo[m] /\ (m # l => t[m] = hi[m])
  BY DEF Widened
<1>5. t[l] = hi[r]
  BY <1>2, <1>3 DEF Widened
<1>6. PICK kids, ks, ls, js : kids = g[p].items /\ ks = g[p].keys /\ ls = x[p].items /\ js = x[p].keys
  OBVIOUS
<1>7. /\ p \in DOMAIN g /\ ~g[p].leaf /\ j \in 1 .. Len(ks) /\ l = kids[j] /\ r = kids[j + 1]
  BY <1>6 DEF Adjacent
<1>8. PICK d0 \in Nat : Cuts(g, lo, hi, p, kids, ks, d0)
  BY <1>6, <1>7, PlainInternal
<1>9. /\ Len(ks) = d0 /\ Len(kids) = d0 + 1 /\ g[p].next = Null
      /\ Bounded(lo, hi, kids, ks, d0, lo[p], hi[p]) /\ \A i \in 1 .. d0 + 1 : kids[i] \in DOMAIN g
  BY <1>8 DEF Cuts
<1>10. PICK d \in Nat : d0 = d + 1
  <2>1. d0 - 1 \in Nat /\ d0 = (d0 - 1) + 1
    BY <1>7, <1>9
  <2> QED  BY <2>1
<1>11. j \in 1 .. d + 1 /\ Len(kids) = d + 2 /\ Len(ks) = d + 1
  BY <1>7, <1>9, <1>10
<1>12. Closed(ks, js, j) /\ Closed(kids, ls, j + 1)
  BY <1>6 DEF Absorbed
<1>13. Len(ls) = d + 1 /\ Len(js) = d
  BY <1>11, <1>12 DEF Closed
<1>14. \A y, z \in 1 .. d + 2 : kids[y] = kids[z] => y = z
  BY <1>1, <1>6, <1>7, <1>11, BroodIs
<1>15. Fused(lo, hi, b, t, kids, ls, j)
  <2>1. ASSUME NEW i \in 1 .. d + 1
        PROVE  /\ b[ls[i]] = lo[kids[IF i <= j THEN i ELSE i + 1]]
               /\ t[ls[i]] = hi[kids[IF i < j THEN i ELSE i + 1]]
    <3>1. CASE i <= j
      <4>1. i \in 1 .. (j + 1) - 1 /\ i \in 1 .. d + 2 /\ j + 1 \in 1 .. d + 2 /\ i # j + 1
            /\ j \in 1 .. d + 2
        BY <1>11, <3>1
      <4>2. ls[i] = kids[i]
        BY <1>12, <4>1 DEF Closed
      <4>3. kids[i] # r /\ kids[i] \in DOMAIN g
        <5>1. i \in 1 .. d0 + 1
          BY <1>10, <4>1
        <5> QED  BY <1>7, <1>9, <1>14, <4>1, <5>1
      <4>4. kids[i] \in DOMAIN x
        BY <1>3, <4>3
      <4>5. i < j => kids[i] # l
        BY <1>7, <1>14, <4>1, <1>11
      <4>6. CASE i < j
        BY <1>4, <3>1, <4>2, <4>4, <4>5, <4>6
      <4>7. CASE ~(i < j)
        <5>1. i = j
          BY <1>11, <3>1, <4>7
        <5>2. ls[i] = l /\ kids[i + 1] = r
          BY <1>7, <4>2, <5>1
        <5>3. b[ls[i]] = lo[kids[i]]
          BY <1>4, <4>2, <4>4
        <5>4. t[ls[i]] = hi[kids[i + 1]]
          BY <1>5, <5>2
        <5>5. (IF i <= j THEN i ELSE i + 1) = i /\ (IF i < j THEN i ELSE i + 1) = i + 1
          BY <3>1, <4>7
        <5> QED  BY <5>3, <5>4, <5>5
      <4> QED  BY <4>6, <4>7
    <3>2. CASE ~(i <= j)
      <4>1. /\ i \in j + 1 .. Len(kids) - 1 /\ i + 1 \in 1 .. d + 2 /\ j \in 1 .. d + 2
            /\ j + 1 \in 1 .. d + 2 /\ i + 1 # j /\ i + 1 # j + 1 /\ ~(i < j) /\ i + 1 \in 1 .. d0 + 1
        BY <1>10, <1>11, <3>2
      <4>2. ls[i] = kids[i + 1]
        BY <1>12, <4>1 DEF Closed
      <4>3. kids[i + 1] # r /\ kids[i + 1] # l /\ kids[i + 1] \in DOMAIN g
        BY <1>7, <1>9, <1>14, <4>1
      <4>4. kids[i + 1] \in DOMAIN x
        BY <1>3, <4>3
      <4> QED  BY <1>4, <3>2, <4>1, <4>2, <4>3, <4>4
    <3> QED  BY <3>1, <3>2
  <2> QED  BY <1>13, <2>1 DEF Fused
<1>16. p \in DOMAIN x /\ b[p] = lo[p] /\ t[p] = hi[p] /\ x[p].next = g[p].next
  <2>1. p \in DOMAIN x
    BY <1>2, <1>3, <1>7
  <2> QED  BY <1>2, <1>4, <2>1 DEF Absorbed
<1>17. Bounded(b, t, ls, js, d, b[p], t[p])
  <2>1. PICK d1 : d1 = d + 1
    OBVIOUS
  <2>2. Bounded(lo, hi, kids, ks, d + 1, lo[p], hi[p])
    BY <1>9, <1>10
  <2>3. PICK y, z : y = lo[p] /\ z = hi[p]
    OBVIOUS
  <2>4. Bounded(b, t, ls, js, d, y, z)
    BY <1>11, <1>12, <1>13, <1>15, <2>2, <2>3, BoundedFused
  <2> QED  BY <1>16, <2>3, <2>4
<1> QED  BY <1>6, <1>9, <1>13, <1>16, <1>17 DEF Portioned

LEMMA AbsorbedChained ==
    ASSUME NEW g, NEW rt, NEW lv, NEW lo, NEW hi, Plain(g, rt, lv, lo, hi),
           NEW p, NEW j, NEW l, NEW r, NEW w, Adjacent(g, p, j, l, r, w), g[l].leaf = TRUE,
           NEW x, Absorbed(g, x, p, j, l, r), NEW b, NEW t, Widened(x, lo, hi, l, r, b, t)
    PROVE  Chained(x, b, t, t[rt], l)
<1>1. /\ \A m \in DOMAIN g : lo[m] \in Int /\ hi[m] \in Int /\ lo[m] < hi[m]
      /\ rt \in DOMAIN g
  BY PlainIs
<1>2. /\ l \in DOMAIN g /\ r \in DOMAIN g /\ l # r /\ l # p /\ r # p /\ l # rt /\ r # rt
      /\ g[l].parent = p /\ g[r].parent = p /\ g[l].leaf = g[r].leaf /\ hi[l] = w /\ lo[r] = w
  BY AdjacentIs
<1>3. DOMAIN x = DOMAIN g \ {r} /\ x[l].next = g[r].next
  BY DEF Absorbed
<1>4. \A m \in DOMAIN x : b[m] = lo[m] /\ (m # l => t[m] = hi[m]) /\ x[m].leaf = g[m].leaf
  BY DEF Widened, Absorbed
<1>5. t[l] = hi[r] /\ t[rt] = hi[rt]
  BY <1>1, <1>2, <1>3 DEF Widened
<1>6. Chained(g, lo, hi, hi[rt], r)
  BY <1>2, PlainLeaf
<1>7. ASSUME hi[r] # hi[rt]
      PROVE  x[l].next \in DOMAIN x /\ x[x[l].next].leaf /\ b[x[l].next] = t[l]
  <2>1. PICK e : e = g[r].next /\ e \in DOMAIN g /\ g[e].leaf /\ lo[e] = hi[r]
    BY <1>6, <1>7 DEF Chained
  <2>2. e # r
    <3>1. lo[r] \in Int /\ hi[r] \in Int /\ lo[r] < hi[r]
      BY <1>1, <1>2
    <3> QED  BY <2>1, <3>1
  <2>3. e \in DOMAIN x
    BY <1>3, <2>1, <2>2
  <2> QED  BY <1>3, <1>4, <1>5, <2>1, <2>3
<1>8. hi[r] = hi[rt] => x[l].next = Null
  BY <1>3, <1>6 DEF Chained
<1> QED  BY <1>5, <1>7, <1>8 DEF Chained

LEMMA AbsorbedSorted ==
    ASSUME NEW g, NEW rt, NEW lv, NEW lo, NEW hi, Plain(g, rt, lv, lo, hi),
           NEW p, NEW j, NEW l, NEW r, NEW w, Adjacent(g, p, j, l, r, w),
           NEW x, Absorbed(g, x, p, j, l, r), NEW lx, Typed(x), Forest(x, {rt}, lx),
           NEW b, NEW t, Widened(x, lo, hi, l, r, b, t), Fit(x, b, t, l)
    PROVE  Sorted(x, rt, b, t)
<1>1. Altered(g, rt, lo, hi, x, b, t, {l, p})
  BY AbsorbedAltered
<1>2. /\ l \in DOMAIN g /\ r \in DOMAIN g /\ l # r /\ l # p /\ r # p /\ l # rt /\ r # rt
      /\ g[l].parent = p /\ g[r].parent = p /\ g[l].leaf = g[r].leaf /\ hi[l] = w /\ lo[r] = w
  BY AdjacentIs
<1>3. g[p].leaf = FALSE /\ DOMAIN x = DOMAIN g \ {r} /\ x[l].next = g[r].next
      /\ \A m \in DOMAIN x : x[m].leaf = g[m].leaf
  BY DEF Absorbed, Adjacent
<1>4. ASSUME NEW m \in {l, p} \cap DOMAIN x, x[m].leaf
      PROVE  Filed(x, b, t, m) /\ Chained(x, b, t, t[rt], m)
  <2>1. m = l /\ g[l].leaf
    BY <1>2, <1>3, <1>4
  <2>2. Filed(x, b, t, m)
    BY <1>4, <2>1 DEF Fit
  <2>3. g[l].leaf = TRUE
    BY <1>2, <2>1, PlainLeaf
  <2>4. Chained(x, b, t, t[rt], l)
    BY <2>3, AbsorbedChained
  <2> QED  BY <2>1, <2>2, <2>4
<1>5. ASSUME NEW m \in {l, p} \cap DOMAIN x, ~x[m].leaf
      PROVE  Portioned(x, b, t, m)
  <2>1. CASE m = p
    BY <2>1, AbsorbedParent
  <2>2. CASE m # p
    <3>1. m = l /\ ~g[r].leaf
      BY <1>2, <1>3, <1>5, <2>2
    <3>2. g[r].next = Null
      <4>1. PICK c \in Nat : Cuts(g, lo, hi, r, g[r].items, g[r].keys, c)
        BY <1>2, <3>1, PlainInternal
      <4> QED  BY <4>1 DEF Cuts
    <3> QED  BY <1>3, <1>5, <3>1, <3>2 DEF Fit, Portioned
  <2> QED  BY <2>1, <2>2
<1>6. \A m \in {l, p} \cap DOMAIN x : x[m].leaf => Filed(x, b, t, m) /\ Chained(x, b, t, t[rt], m)
  BY <1>4
<1>7. \A m \in {l, p} \cap DOMAIN x : ~x[m].leaf => Portioned(x, b, t, m)
  BY <1>5
<1> QED  BY <1>1, <1>6, <1>7, SortedAfter

LEMMA PlaceInTwo ==
    ASSUME NEW c \in Nat, NEW d \in Nat, NEW j \in 1 .. c + d
    PROVE  j \in 1 .. c \/ \E y \in 1 .. d : j = c + y
<1>1. CASE j <= c
  BY <1>1
<1>2. CASE j > c
  <2>1. j - c \in 1 .. d /\ j = c + (j - c)
    BY <1>2
  <2> QED  BY <2>1
<1> QED  BY <1>1, <1>2

LEMMA JoinedFollows ==
    ASSUME NEW S, NEW s \in Seq(S), NEW t \in Seq(S), NEW u, u = s \o t
    PROVE  Follows(s, t, u) /\ Len(u) = Len(s) + Len(t) /\ u \in Seq(S)
BY JoinedElements

LEMMA JoinedPlainly ==
    ASSUME NEW S, NEW s \in Seq(S), NEW t \in Seq(S), NEW u, u = s \o <<>> \o t
    PROVE  Follows(s, t, u) /\ Len(u) = Len(s) + Len(t)
<1>1. PICK e \in Seq(S) : e = <<>> /\ Len(e) = 0
  <2>1. <<>> \in Seq(S) /\ Len(<<>>) = 0
    OBVIOUS
  <2> QED  BY <2>1, Zenon
<1>2. PICK k : k = s \o e
  OBVIOUS
<1>3. Follows(s, e, k) /\ Len(k) = Len(s) + Len(e) /\ k \in Seq(S)
  <2> HIDE <1>1
  <2>1. Follows(s, e, s \o e) /\ Len(s \o e) = Len(s) + Len(e) /\ s \o e \in Seq(S)
    BY JoinedElements
  <2> QED  BY <1>2, <2>1
<1>4. u = k \o t
  BY <1>1, <1>2
<1>5. Follows(k, t, u) /\ Len(u) = Len(k) + Len(t)
  <2>1. Follows(k, t, k \o t) /\ Len(k \o t) = Len(k) + Len(t)
    BY <1>3, JoinedElements
  <2> QED  BY <1>4, <2>1
<1>6. PICK n \in Nat : n = Len(s)
  OBVIOUS
<1>7. Len(k) = n
  BY <1>1, <1>3, <1>6
<1>8. \A j \in 1 .. n : u[j] = s[j]
  BY <1>3, <1>5, <1>6, <1>7 DEF Follows
<1> QED  BY <1>5, <1>6, <1>7, <1>8 DEF Follows

LEMMA JoinedListed ==
    ASSUME NEW ks, NEW vs, NEW ts, NEW us, NEW c \in Nat, NEW d \in Nat,
           Len(ks) = c, Len(vs) = c, Len(ts) = d, Len(us) = d, NEW js, NEW ws,
           Follows(ks, ts, js), Follows(vs, us, ws), Len(js) = c + d, NEW a, NEW b
    PROVE  Listed(js, ws, a, b) <=> Listed(ks, vs, a, b) \/ Listed(ts, us, a, b)
<1>1. /\ \A j \in 1 .. c : js[j] = ks[j] /\ ws[j] = vs[j]
      /\ \A j \in 1 .. d : js[c + j] = ts[j] /\ ws[c + j] = us[j]
  BY DEF Follows
<1>2. \A j \in 1 .. c : j \in 1 .. c + d
  OBVIOUS
<1>3. \A j \in 1 .. d : c + j \in 1 .. c + d
  OBVIOUS
<1>4. ASSUME NEW j \in 1 .. c + d, js[j] = a, ws[j] = b
      PROVE  Listed(ks, vs, a, b) \/ Listed(ts, us, a, b)
  <2>1. j \in 1 .. c \/ \E y \in 1 .. d : j = c + y
    BY PlaceInTwo
  <2>2. CASE j \in 1 .. c
    BY <1>1, <1>4, <2>2 DEF Listed
  <2>3. CASE \E y \in 1 .. d : j = c + y
    BY <1>1, <1>4, <2>3, ZenonT(40) DEF Listed
  <2> QED  BY <2>1, <2>2, <2>3
<1>5. Listed(ks, vs, a, b) => Listed(js, ws, a, b)
  BY <1>1, <1>2 DEF Listed
<1>6. Listed(ts, us, a, b) => Listed(js, ws, a, b)
  BY <1>1, <1>3 DEF Listed
<1> QED  BY <1>4, <1>5, <1>6 DEF Listed

\* The elements of js are those of ks and ts.
Comes(ks, ts, js) ==
    \A j \in 1 .. Len(js) : \/ \E y \in 1 .. Len(ks) : js[j] = ks[y]
                            \/ \E y \in 1 .. Len(ts) : js[j] = ts[y]

\* The first list is below w, the second is not.
LEMMA JoinedAscends ==
    ASSUME NEW ks \in Seq(Int), NEW ts \in Seq(Int), Ascends(ks), Ascends(ts), NEW w \in Int,
           \A j \in 1 .. Len(ks) : ks[j] < w, \A j \in 1 .. Len(ts) : w <= ts[j],
           NEW js, Follows(ks, ts, js), Len(js) = Len(ks) + Len(ts)
    PROVE  Ascends(js) /\ Comes(ks, ts, js)
<1>1. PICK c, d \in Nat : c = Len(ks) /\ d = Len(ts)
  OBVIOUS
<1>2. /\ \A j \in 1 .. c : js[j] = ks[j] /\ ks[j] \in Int /\ ks[j] < w
      /\ \A j \in 1 .. d : js[c + j] = ts[j] /\ ts[j] \in Int /\ w <= ts[j]
  BY <1>1 DEF Follows
<1>3. /\ \A i, j \in 1 .. c : i < j => ks[i] < ks[j]
      /\ \A i, j \in 1 .. d : i < j => ts[i] < ts[j]
  BY <1>1 DEF Ascends
<1>4. ASSUME NEW i \in 1 .. c + d, NEW j \in 1 .. c + d, i < j
      PROVE  js[i] < js[j]
  <2>1. CASE i \in 1 .. c /\ j \in 1 .. c
    BY <1>2, <1>3, <1>4, <2>1
  <2>2. ASSUME NEW z \in 1 .. d, j = c + z, i \in 1 .. c
        PROVE  js[i] < js[j]
    <3>1. js[i] \in Int /\ js[i] < w /\ js[j] \in Int /\ w <= js[j]
      BY <1>2, <2>2
    <3> QED  BY <3>1
  <2>3. ASSUME NEW y \in 1 .. d, i = c + y, NEW z \in 1 .. d, j = c + z
        PROVE  js[i] < js[j]
    <3>1. y < z
      BY <1>4, <2>3
    <3>2. ts[y] < ts[z]
      BY <1>3, <3>1
    <3> QED  BY <1>2, <2>3, <3>2
  <2>4. i \in 1 .. c \/ \E y \in 1 .. d : i = c + y
    BY PlaceInTwo
  <2>5. j \in 1 .. c \/ \E y \in 1 .. d : j = c + y
    BY PlaceInTwo
  <2>6. CASE \E y \in 1 .. d : i = c + y
    <3>1. j \notin 1 .. c
      BY <1>4, <2>6
    <3> QED  BY <2>3, <2>5, <2>6, <3>1
  <2> QED  BY <2>1, <2>2, <2>4, <2>5, <2>6
<1>5. ASSUME NEW j \in 1 .. c + d
      PROVE  \/ \E y \in 1 .. c : js[j] = ks[y]
             \/ \E y \in 1 .. d : js[j] = ts[y]
  <2>1. j \in 1 .. c \/ \E y \in 1 .. d : j = c + y
    BY PlaceInTwo
  <2> QED  BY <1>2, <2>1
<1> QED  BY <1>1, <1>4, <1>5 DEF Ascends, Comes

LEMMA MergedNext ==
    ASSUME NEW g, Typed(g), NEW l \in DOMAIN g, NEW p \in DOMAIN g, l # p, NEW r, r # l,
           NEW kl, NEW il, NEW nx, NEW kp, NEW ip,
           NEW x, x = MergedBy(g, l, kl, il, nx, r, p, kp, ip)
    PROVE  /\ \A m \in DOMAIN g \ {r} : m # l => x[m].next = g[m].next
           /\ x[l].next = nx
<1>1. PICK y : y = TwoNew(g, l, kl, il, nx, p, kp, ip)
  OBVIOUS
<1>2. PICK z : z = IF g[l].leaf THEN y ELSE Adopt(y, g[r].items, l)
  OBVIOUS
<1>3. DOMAIN y = DOMAIN g /\ \A m \in DOMAIN g : DOMAIN y[m] = Fields
  BY <1>1, TwoNewIs
<1>4. /\ \A m \in DOMAIN g : m # l => y[m].next = g[m].next
      /\ y[l].next = nx
  <2>1. PICK v : v = [g EXCEPT ![l].keys = kl, ![l].items = il, ![l].next = nx]
    BY Zenon
  <2>2. y = [v EXCEPT ![p].keys = kp, ![p].items = ip]
    BY <1>1, <2>1 DEF TwoNew
  <2>3. /\ DOMAIN v = DOMAIN g /\ \A m \in DOMAIN g : m # l => v[m] = g[m]
        /\ v[l] = [g[l] EXCEPT !.keys = kl, !.items = il, !.next = nx]
    BY <2>1
  <2>4. /\ \A m \in DOMAIN g : m # p => y[m] = v[m]
        /\ y[p] = [v[p] EXCEPT !.keys = kp, !.items = ip]
    BY <2>2, <2>3
  <2>5. DOMAIN g[l] = Fields /\ DOMAIN g[p] = Fields
    BY DEF Typed, IsNode
  <2>6. v[l].next = nx
    BY <2>3, <2>5 DEF Fields
  <2>7. y[p].next = g[p].next
    BY <2>3, <2>4, <2>5 DEF Fields
  <2> QED  BY <2>3, <2>4, <2>6, <2>7
<1>5. DOMAIN z = DOMAIN g /\ \A m \in DOMAIN g : z[m].next = y[m].next
  <2>1. CASE g[l].leaf
    BY <1>2, <1>3, <2>1
  <2>2. CASE ~g[l].leaf
    <3>1. z = [m \in DOMAIN y |-> IF m \in ToSet(g[r].items) THEN [y[m] EXCEPT !.parent = l] ELSE y[m]]
      BY <1>2, <2>2 DEF Adopt
    <3>2. ASSUME NEW m \in DOMAIN g
          PROVE  z[m].next = y[m].next
      <4>1. [y[m] EXCEPT !.parent = l].next = y[m].next
        BY <1>3 DEF Fields
      <4> QED  BY <1>3, <3>1, <4>1
    <3> QED  BY <1>3, <3>1, <3>2
  <2> QED  BY <2>1, <2>2
<1>6. x = [m \in DOMAIN z \ {r} |-> z[m]]
  BY <1>1, <1>2, Zenon DEF MergedBy, Free
<1> QED  BY <1>4, <1>5, <1>6

\* What a tree that merged two neighbours is.
Whole(x, rt) == Typed(x) /\ \E lx : Forest(x, {rt}, lx)

Joined(g, x, rt, p, i, l, r) ==
    /\ Absorbed(g, x, p, i, l, r) /\ Whole(x, rt)
    /\ x[l].keys = g[l].keys \o Between(g, p, i) \o g[r].keys
    /\ x[l].items = g[l].items \o g[r].items

LEMMA MergedAbsorbed ==
    ASSUME NEW g, NEW rt, NEW lv, NEW lo, NEW hi, Plain(g, rt, lv, lo, hi),
           NEW p, NEW i, NEW l, NEW r, NEW w, Adjacent(g, p, i, l, r, w),
           NEW x, MergedInto(g, x, rt, l, r, p, i)
    PROVE  Joined(g, x, rt, p, i, l, r)
<1>1. PICK mid, kl, il, nx, kp, ip :
        /\ mid = Between(g, p, i) /\ kl = g[l].keys \o mid \o g[r].keys
        /\ il = g[l].items \o g[r].items /\ nx = g[r].next
        /\ kp = RemoveAt(g[p].keys, i) /\ ip = RemoveAt(g[p].items, i + 1)
        /\ MayMerge(g, rt, l, kl, il, r, p, kp, ip)
        /\ x = MergedBy(g, l, kl, il, nx, r, p, kp, ip)
  BY DEF MergedInto
<1>2. /\ l \in DOMAIN g /\ r \in DOMAIN g /\ l # r /\ l # p /\ r # p
      /\ g[l].leaf = g[r].leaf /\ hi[l] = w /\ lo[r] = w
  BY AdjacentIs
<1>3. p \in DOMAIN g /\ g[p].leaf = FALSE /\ i \in 1 .. Len(g[p].keys)
  BY DEF Adjacent
<1>4. Forest(g, {rt}, lv) /\ Typed(g)
  BY PlainIs
<1>5. Typed(x) /\ Merged(g, x, l, kl, il, r, p, kp, ip, lv) /\ Remains(x, rt, lv)
  BY <1>1, <1>4, MergedIs
<1>6. /\ \A m \in DOMAIN g \ {r} : m # l => x[m].next = g[m].next
      /\ x[l].next = nx
  BY <1>1, <1>2, <1>3, <1>4, MergedNext, SMTT(20)
<1>7. /\ Closed(g[p].keys, kp, i) /\ Closed(g[p].items, ip, i + 1)
  <2>1. PICK ks, kids : ks = g[p].keys /\ kids = g[p].items
    OBVIOUS
  <2>2. PICK d \in Nat : Cuts(g, lo, hi, p, kids, ks, d)
    BY <1>3, <2>1, PlainInternal
  <2>3. Len(ks) = d /\ Len(kids) = d + 1 /\ ks \in Seq(Keys) /\ kids \in Seq(DOMAIN g)
    BY <2>2 DEF Cuts
  <2>4. i \in 1 .. Len(ks)
    BY <1>3, <2>1
  <2>5. PICK j : j = i + 1 /\ j \in 1 .. Len(kids)
    BY <2>3, <2>4
  <2>6. Closed(ks, RemoveAt(ks, i), i)
    BY <2>3, <2>4, RemoveAtProperties
  <2>7. Closed(kids, RemoveAt(kids, j), j)
    BY <2>3, <2>5, RemoveAtProperties, Zenon
  <2> QED  BY <1>1, <2>1, <2>5, <2>6, <2>7
<1>8. Absorbed(g, x, p, i, l, r)
  BY <1>1, <1>5, <1>6, <1>7, ZenonT(40) DEF Merged, Absorbed
<1>9. Whole(x, rt)
  BY <1>5 DEF Remains, Whole
<1> QED  BY <1>1, <1>5, <1>8, <1>9, Zenon DEF Merged, Joined

LEMMA LeavesMerged ==
    ASSUME NEW g, NEW rt, NEW lv, NEW lo, NEW hi, Plain(g, rt, lv, lo, hi),
           NEW p, NEW i, NEW l, NEW r, NEW w, Adjacent(g, p, i, l, r, w),
           Counted(g, l), Counted(g, r), g[l].leaf = TRUE,
           NEW x, MergedInto(g, x, rt, l, r, p, i)
    PROVE  Graded(x, rt) /\ SameEntries(g, x)
<1>1. /\ l \in DOMAIN g /\ r \in DOMAIN g /\ l # r /\ l # p /\ r # p
      /\ g[l].leaf = g[r].leaf /\ hi[l] = w /\ lo[r] = w /\ w \in Int /\ lo[l] < w /\ w < hi[r]
  BY AdjacentIs
<1>2. /\ Absorbed(g, x, p, i, l, r) /\ Whole(x, rt)
      /\ x[l].keys = g[l].keys \o Between(g, p, i) \o g[r].keys
      /\ x[l].items = g[l].items \o g[r].items
  <2>1. Joined(g, x, rt, p, i, l, r)
    BY MergedAbsorbed
  <2> QED  BY <2>1 DEF Joined
<1>3. /\ g[l].keys \in Seq(Keys) /\ g[l].items \in Seq(Values)
      /\ g[r].keys \in Seq(Keys) /\ g[r].items \in Seq(Values)
      /\ Filed(g, lo, hi, l) /\ Filed(g, lo, hi, r)
  BY <1>1, PlainLeaf
<1>4. PICK kl, vl, kr, vr : /\ kl = g[l].keys /\ vl = g[l].items /\ kr = g[r].keys /\ vr = g[r].items
                            /\ kl \in Seq(Keys) /\ kr \in Seq(Keys)
                            /\ vl \in Seq(Values) /\ vr \in Seq(Values)
  BY <1>3
<1>5. /\ kl \in Seq(Int) /\ \A j \in 1 .. Len(kl) : kl[j] \in Int
      /\ kr \in Seq(Int) /\ \A j \in 1 .. Len(kr) : kr[j] \in Int
  BY <1>4, KeysOf
<1>6. PICK c, d \in Nat : c = Len(kl) /\ c = Len(vl) /\ d = Len(kr) /\ d = Len(vr)
  <2>1. Len(kl) \in Nat /\ Len(kr) \in Nat
    BY <1>4
  <2>2. Len(vl) = Len(kl) /\ Len(vr) = Len(kr)
    BY <1>1, <1>4 DEF Counted
  <2> QED  BY <2>1, <2>2
<1>7. PICK js : js = x[l].keys /\ Follows(kl, kr, js) /\ Len(js) = c + d
  <2>1. Between(g, p, i) = <<>>
    BY DEF Between, Adjacent
  <2>2. kl \in Seq(Keys) /\ kr \in Seq(Keys)
    BY <1>4
  <2>3. x[l].keys = kl \o <<>> \o kr
    BY <1>2, <1>4, <2>1
  <2>4. Follows(kl, kr, x[l].keys) /\ Len(x[l].keys) = Len(kl) + Len(kr)
    BY <2>2, <2>3, JoinedPlainly
  <2> QED  BY <1>6, <2>4
<1>8. PICK ws : ws = x[l].items /\ Follows(vl, vr, ws)
  <2>1. vl \in Seq(Values) /\ vr \in Seq(Values)
    BY <1>4
  <2>2. PICK ws : ws = vl \o vr
    OBVIOUS
  <2>3. Follows(vl, vr, ws)
    BY <2>1, <2>2, JoinedFollows
  <2> QED  BY <1>2, <1>4, <2>2, <2>3
<1>9. /\ Ascends(kl) /\ \A j \in 1 .. c : lo[l] <= kl[j] /\ kl[j] < w
      /\ Ascends(kr) /\ \A j \in 1 .. d : w <= kr[j] /\ kr[j] < hi[r]
  BY <1>1, <1>3, <1>4, <1>6 DEF Filed
<1>10. /\ Ascends(js)
       /\ \A j \in 1 .. c + d : \/ \E y \in 1 .. c : js[j] = kl[y]
                                \/ \E y \in 1 .. d : js[j] = kr[y]
  <2>1. /\ \A j \in 1 .. Len(kl) : kl[j] < w
        /\ \A j \in 1 .. Len(kr) : w <= kr[j]
        /\ Len(js) = Len(kl) + Len(kr)
    BY <1>6, <1>7, <1>9
  <2>3. w \in Int /\ Ascends(kl) /\ Ascends(kr) /\ Follows(kl, kr, js)
    BY <1>1, <1>7, <1>9
  <2>2. /\ Ascends(js)
        /\ \A j \in 1 .. Len(js) : \/ \E y \in 1 .. Len(kl) : js[j] = kl[y]
                                   \/ \E y \in 1 .. Len(kr) : js[j] = kr[y]
    <3>1. kl \in Seq(Int) /\ kr \in Seq(Int)
      BY <1>5
    <3>2. Ascends(js) /\ Comes(kl, kr, js)
      BY <2>1, <2>3, <3>1, JoinedAscends
    <3> QED  BY <3>2 DEF Comes
  <2> QED  BY <1>6, <1>7, <2>2
<1>11. PICK b, t : Widened(x, lo, hi, l, r, b, t)
  BY DEF Widened
<1>12. DOMAIN x = DOMAIN g \ {r} /\ \A m \in DOMAIN x : x[m].leaf = g[m].leaf
  BY <1>2 DEF Absorbed
<1>13. l \in DOMAIN x /\ b[l] = lo[l] /\ t[l] = hi[r]
  <2>1. DOMAIN x = DOMAIN g \ {r}
    BY <1>12
  <2>2. l \in DOMAIN x /\ l # r
    BY <1>1, <2>1
  <2> QED  BY <1>11, <2>2 DEF Widened
<1>14. Filed(x, b, t, l)
  <2>1. lo[l] \in Int /\ hi[r] \in Int
    BY <1>1, PlainIs
  <2>2. ASSUME NEW j \in 1 .. c + d
        PROVE  lo[l] <= js[j] /\ js[j] < hi[r]
    <3>1. CASE \E y \in 1 .. c : js[j] = kl[y]
      <4>1. PICK y \in 1 .. c : js[j] = kl[y]
        BY <3>1
      <4>2. kl[y] \in Int /\ lo[l] <= kl[y] /\ kl[y] < w
        <5>1. kl[y] \in Int
          BY <1>5, <1>6
        <5> QED  BY <1>9, <5>1
      <4> QED  BY <1>1, <2>1, <4>1, <4>2
    <3>2. CASE \E y \in 1 .. d : js[j] = kr[y]
      <4>1. PICK y \in 1 .. d : js[j] = kr[y]
        BY <3>2
      <4>2. kr[y] \in Int /\ w <= kr[y] /\ kr[y] < hi[r]
        <5>1. kr[y] \in Int
          BY <1>5, <1>6
        <5> QED  BY <1>9, <5>1
      <4> QED  BY <1>1, <2>1, <4>1, <4>2
    <3> QED  BY <1>10, <3>1, <3>2
  <2>3. lo[l] < hi[r]
    BY <1>1, <2>1
  <2> QED  BY <1>7, <1>10, <1>13, <2>2, <2>3 DEF Filed
<1>15. Sorted(x, rt, b, t)
  <2>1. Fit(x, b, t, l)
    BY <1>12, <1>13, <1>14 DEF Fit
  <2>2. Typed(x) /\ \E lx : Forest(x, {rt}, lx)
    BY <1>2 DEF Whole
  <2> QED  BY <1>2, <1>11, <2>1, <2>2, AbsorbedSorted
<1>16. SameBut(g, x, {l, r})
  <2>1. ASSUME NEW y, NEW z
        PROVE  HasIn(x, {l, r}, y, z) <=> HasIn(g, {l, r}, y, z)
    <3>1. Listed(js, ws, y, z) <=> Listed(kl, vl, y, z) \/ Listed(kr, vr, y, z)
      <4>1. /\ Len(kl) = c /\ Len(vl) = c /\ Len(kr) = d /\ Len(vr) = d
            /\ Follows(kl, kr, js) /\ Follows(vl, vr, ws) /\ Len(js) = c + d
        BY <1>6, <1>7, <1>8
      <4> QED  BY <4>1, JoinedListed
    <3>2. HasIn(x, {l, r}, y, z) <=> Listed(js, ws, y, z)
      BY <1>7, <1>8, <1>12, <1>13 DEF HasIn, Lists, Listed
    <3>3. HasIn(g, {l, r}, y, z) <=> Listed(kl, vl, y, z) \/ Listed(kr, vr, y, z)
      BY <1>1, <1>4 DEF HasIn, Lists, Listed
    <3> QED  BY <3>1, <3>2, <3>3
  <2>2. ASSUME NEW m \in DOMAIN g, g[m].leaf, m \notin {l, r}
        PROVE  m \in DOMAIN x /\ x[m].leaf /\ x[m].keys = g[m].keys /\ x[m].items = g[m].items
    <3>1. m # p /\ m \in DOMAIN x
      BY <1>12, <2>2 DEF Adjacent
    <3> QED  BY <1>2, <2>2, <3>1 DEF Absorbed
  <2>3. \A m \in DOMAIN x : x[m].leaf /\ m \notin {l, r} => m \in DOMAIN g /\ g[m].leaf
    BY <1>12
  <2> QED  BY <2>1, <2>2, <2>3 DEF SameBut
<1> QED  BY <1>15, <1>16, SameButSame DEF Graded

LEMMA InternalsMerged ==
    ASSUME NEW g, NEW rt, NEW lv, NEW lo, NEW hi, Plain(g, rt, lv, lo, hi),
           NEW p, NEW i, NEW l, NEW r, NEW w, Adjacent(g, p, i, l, r, w), g[l].leaf = FALSE,
           NEW x, MergedInto(g, x, rt, l, r, p, i)
    PROVE  Graded(x, rt) /\ SameEntries(g, x)
<1>1. /\ l \in DOMAIN g /\ r \in DOMAIN g /\ l # r /\ l # p /\ r # p
      /\ g[l].parent = p /\ g[r].parent = p
      /\ g[l].leaf = g[r].leaf /\ hi[l] = w /\ lo[r] = w /\ w \in Keys
  BY AdjacentIs
<1>2. /\ Absorbed(g, x, p, i, l, r) /\ Whole(x, rt)
      /\ x[l].keys = g[l].keys \o Between(g, p, i) \o g[r].keys
      /\ x[l].items = g[l].items \o g[r].items
  <2>1. Joined(g, x, rt, p, i, l, r)
    BY MergedAbsorbed
  <2> QED  BY <2>1 DEF Joined
<1>3. PICK kl, sl, kr, sr : kl = g[l].items /\ sl = g[l].keys /\ kr = g[r].items /\ sr = g[r].keys
  OBVIOUS
<1>4. PICK a \in Nat : Cuts(g, lo, hi, l, kl, sl, a)
  BY <1>1, <1>3, PlainInternal
<1>5. PICK b \in Nat : Cuts(g, lo, hi, r, kr, sr, b)
  BY <1>1, <1>3, PlainInternal
<1>6. /\ Len(sl) = a /\ Len(kl) = a + 1 /\ sl \in Seq(Keys) /\ kl \in Seq(DOMAIN g)
      /\ Bounded(lo, hi, kl, sl, a, lo[l], w)
  BY <1>1, <1>4 DEF Cuts
<1>7. /\ Len(sr) = b /\ Len(kr) = b + 1 /\ sr \in Seq(Keys) /\ kr \in Seq(DOMAIN g)
      /\ Bounded(lo, hi, kr, sr, b, w, hi[r])
  BY <1>1, <1>5 DEF Cuts
<1>8. PICK js, ls : js = x[l].keys /\ ls = x[l].items
  OBVIOUS
<1>9. js = sl \o <<w>> \o sr /\ ls = kl \o kr
  <2>1. Between(g, p, i) = <<w>>
    BY DEF Between, Adjacent
  <2> QED  BY <1>2, <1>3, <1>8, <2>1
<1>10. Bounded(lo, hi, ls, js, a + b + 1, lo[l], hi[r])
  <2>1. PICK y, z : y = lo[l] /\ z = hi[r]
    OBVIOUS
  <2>2. Bounded(lo, hi, kl \o kr, sl \o <<w>> \o sr, a + b + 1, y, z)
    BY <1>1, <1>6, <1>7, <2>1, BoundedJoin, Zenon
  <2> QED  BY <1>9, <2>1, <2>2
<1>11. PICK d \in Nat : d = a + b + 1 /\ Len(js) = d /\ Len(ls) = d + 1
  <2>1. PICK m : m = <<w>> /\ m \in Seq(Keys) /\ Len(m) = 1
    <3>1. <<w>> \in Seq(Keys) /\ Len(<<w>>) = 1
      BY <1>1
    <3> QED  BY <3>1, Zenon
  <2>2. PICK k : k = sl \o m
    OBVIOUS
  <2>3. k \in Seq(Keys) /\ Len(k) = a + 1
    <3>1. sl \in Seq(Keys)
      BY <1>6
    <3>2. k \in Seq(Keys) /\ Len(k) = Len(sl) + Len(m)
      BY <2>1, <2>2, <3>1, JoinedFollows
    <3> QED  BY <1>6, <2>1, <3>2
  <2>4. Len(js) = a + 1 + b
    <3>1. sr \in Seq(Keys) /\ js = k \o sr
      BY <1>7, <1>9, <2>1, <2>2
    <3>3. k \in Seq(Keys)
      BY <2>3
    <3>2. Len(js) = Len(k) + Len(sr)
      BY <3>1, <3>3, JoinedFollows
    <3> QED  BY <1>7, <2>3, <3>2
  <2>5. Len(ls) = (a + 1) + (b + 1)
    <3>1. kl \in Seq(DOMAIN g) /\ kr \in Seq(DOMAIN g)
      BY <1>6, <1>7
    <3>2. Len(ls) = Len(kl) + Len(kr)
      BY <1>9, <3>1, JoinedFollows
    <3> QED  BY <1>6, <1>7, <3>2
  <2>6. PICK d \in Nat : d = a + b + 1
    OBVIOUS
  <2>7. a + 1 + b = d /\ (a + 1) + (b + 1) = d + 1
    BY <2>6
  <2> QED  BY <2>4, <2>5, <2>6, <2>7
<1>12. PICK l1, u1 : Widened(x, lo, hi, l, r, l1, u1)
  BY DEF Widened
<1>13. DOMAIN x = DOMAIN g \ {r} /\ \A m \in DOMAIN x : x[m].leaf = g[m].leaf
  BY <1>2 DEF Absorbed
<1>14. /\ l \in DOMAIN x /\ l1[l] = lo[l] /\ u1[l] = hi[r]
       /\ \A m \in DOMAIN x : l1[m] = lo[m] /\ (m # l => u1[m] = hi[m])
  <2>1. l \in DOMAIN x /\ l # r
    BY <1>1, <1>13
  <2> QED  BY <1>12, <2>1 DEF Widened
<1>15. Agree(lo, hi, l1, u1, ls)
  <2>1. ASSUME NEW e, Holds(kl, e) \/ Holds(kr, e)
        PROVE  e \in DOMAIN g /\ e # l /\ e # r
    <3>1. Typed(g) /\ Forest(g, {rt}, lv)
      BY PlainIs
    <3>2. PICK m \in {l, r} : \E j \in 1 .. Len(g[m].items) : g[m].items[j] = e
      BY <1>3, <2>1 DEF Holds
    <3>3. PICK j \in 1 .. Len(g[m].items) : g[m].items[j] = e
      BY <3>2
    <3>4. m \in DOMAIN g /\ ~g[m].leaf
      BY <1>1
    <3>5. e \in DOMAIN g /\ g[e].parent = m
      BY <3>1, <3>3, <3>4, KidOf
    <3> QED  BY <1>1, <3>5
  <2>2. \A e : Holds(ls, e) <=> (Holds(kl, e) \/ Holds(kr, e))
    <3>1. kl \in Seq(DOMAIN g) /\ kr \in Seq(DOMAIN g)
      BY <1>6, <1>7
    <3>2. \A e : Holds(kl \o kr, e) <=> (Holds(kl, e) \/ Holds(kr, e))
      BY <3>1, JoinedElements
    <3> QED  BY <1>9, <3>2
  <2>3. ASSUME NEW j \in 1 .. Len(ls)
        PROVE  l1[ls[j]] = lo[ls[j]] /\ u1[ls[j]] = hi[ls[j]]
    <3>1. PICK e : e = ls[j]
      OBVIOUS
    <3>2. Holds(ls, e)
      BY <3>1 DEF Holds
    <3>3. e \in DOMAIN x /\ e # l
      BY <1>13, <2>1, <2>2, <3>2
    <3> QED  BY <1>14, <3>1, <3>3
  <2> QED  BY <2>3 DEF Agree
<1>16. Fit(x, l1, u1, l)
  <2>1. x[l].leaf = FALSE
    BY <1>13, <1>14
  <2>2. Bounded(lo, hi, ls, js, d, l1[l], u1[l])
    BY <1>10, <1>11, <1>14
  <2> QED  BY <1>8, <1>11, <1>15, <2>1, <2>2, FitInternal
<1>17. Sorted(x, rt, l1, u1)
  <2>1. Typed(x) /\ \E lx : Forest(x, {rt}, lx)
    BY <1>2 DEF Whole
  <2> QED  BY <1>2, <1>12, <1>16, <2>1, AbsorbedSorted
<1>18. SameLeaves(g, x)
  <2>1. ASSUME NEW m \in DOMAIN g, g[m].leaf
        PROVE  m \in DOMAIN x /\ x[m].leaf /\ x[m].keys = g[m].keys /\ x[m].items = g[m].items
    <3>1. m \notin {l, r, p}
      BY <1>1, <2>1 DEF Adjacent
    <3> QED  BY <1>2, <1>13, <2>1, <3>1 DEF Absorbed
  <2> QED  BY <1>13, <2>1 DEF SameLeaves
<1> QED  BY <1>17, <1>18, SameLeavesDo DEF Graded

-----------------------------------------------------------------------------
(* Underflow *)

\* x has the entries of g, and is in order.
Kept(g, x, rt) == Graded(x, rt) /\ SameEntries(g, x)

LEMMA LentLeft ==
    ASSUME NEW g, NEW rt, NEW lv, NEW lo, NEW hi, Plain(g, rt, lv, lo, hi),
           NEW p, NEW i, NEW l, NEW c, NEW w, LeftPlace(g, p, i, l, c, w),
           Counted(g, l), Counted(g, c), 1 < Len(g[l].keys), g[c].leaf \in BOOLEAN,
           NEW x, LeftLent(g, x, rt, l, c, p, i)
    PROVE  Kept(g, x, rt)
<1>1. CASE g[c].leaf = TRUE
  BY <1>1, LeafLentLeft, Zenon DEF Kept
<1>2. CASE g[c].leaf = FALSE
  BY <1>2, InternalLentLeft, Zenon DEF Kept
<1> QED  BY <1>1, <1>2

LEMMA LentRight ==
    ASSUME NEW g, NEW rt, NEW lv, NEW lo, NEW hi, Plain(g, rt, lv, lo, hi),
           NEW p, NEW i, NEW r, NEW c, NEW w, Adjacent(g, p, i, c, r, w),
           Counted(g, r), Counted(g, c), g[c].leaf \in BOOLEAN,
           NEW x, RightLent(g, x, rt, r, c, p, i)
    PROVE  Kept(g, x, rt)
<1>1. CASE g[c].leaf = TRUE
  BY <1>1, LeafLentRight, Zenon DEF Kept
<1>2. CASE g[c].leaf = FALSE
  BY <1>2, InternalLentRight, Zenon DEF Kept
<1> QED  BY <1>1, <1>2

LEMMA MergeKeeps ==
    ASSUME NEW g, NEW rt, NEW lv, NEW lo, NEW hi, Plain(g, rt, lv, lo, hi),
           NEW p, NEW i, NEW l, NEW r, NEW w, Adjacent(g, p, i, l, r, w),
           Counted(g, l), Counted(g, r), g[l].leaf \in BOOLEAN,
           NEW x, MergedInto(g, x, rt, l, r, p, i)
    PROVE  Kept(g, x, rt)
<1>1. CASE g[l].leaf = TRUE
  BY <1>1, LeavesMerged, Zenon DEF Kept
<1>2. CASE g[l].leaf = FALSE
  BY <1>2, InternalsMerged, Zenon DEF Kept
<1> QED  BY <1>1, <1>2

\* The nodes in the middle of Delete have ranges.
LEMMA CutPlain ==
    ASSUME NEW h, NEW rt, NEW lv, NEW g, NEW c, Cut(h, g, rt, lv, c), Graded(g, rt)
    PROVE  \E lw, lo, hi : Plain(g, rt, lw, lo, hi) /\ \A m \in DOMAIN g : lw[m] = lv[m]
<1>1. PICK lw : (\A m \in DOMAIN g : lw[m] = lv[m]) /\ Forest(g, {rt}, lw)
  BY DEF Cut
<1>2. PICK lo, hi : Sorted(g, rt, lo, hi)
  BY DEF Graded
<1>3. Typed(g)
  BY DEF Cut
<1>4. Plain(g, rt, lw, lo, hi)
  BY <1>1, <1>2, <1>3, PlainFrom
<1> QED  BY <1>1, <1>4, Zenon

LEMMA CutCounted ==
    ASSUME NEW h, NEW rt, NEW lv, NEW g, NEW c, Cut(h, g, rt, lv, c), NEW m \in DOMAIN g
    PROVE  Counted(g, m) /\ g[m].leaf \in BOOLEAN
<1>1. Balance(g, rt, {c}) /\ Counted(g, c) /\ Typed(g)
  BY DEF Cut
<1>2. m # c => Counted(g, m)
  BY <1>1 DEF Balance
<1> QED  BY <1>1, <1>2 DEF Typed, IsNode

LEMMA BesideAdjacent ==
    ASSUME NEW g, NEW p \in DOMAIN g, g[p].leaf = FALSE, Len(g[p].keys) \in Nat,
           Len(g[p].items) = Len(g[p].keys) + 1,
           NEW j, j \in 1 .. Len(g[p].items), j + 1 \in 1 .. Len(g[p].items)
    PROVE  Adjacent(g, p, j, g[p].items[j], g[p].items[j + 1], g[p].keys[j])
<1>1. j \in 1 .. Len(g[p].keys)
  BY SMTT(20)
<1> QED  BY <1>1 DEF Adjacent

LEMMA FixUnderflowKeeps ==
    ASSUME degree \in Int, NEW h, NEW rt, NEW lv, Tree(h, rt, lv),
           NEW g, NEW c, Cut(h, g, rt, lv, c), c # rt, Underflows(g, c), Graded(g, rt),
           NEW p, p = g[c].parent, NEW i \in 1 .. Len(g[p].items), g[p].items[i] = c
    PROVE  Kept(g, FixUnderflow(g, c, i), rt)
<1>1. /\ p # Null /\ p \in DOMAIN g /\ g[p].leaf = FALSE /\ g[p].items \in Seq(DOMAIN g)
      /\ Len(g[p].keys) >= 1 /\ Len(g[p].keys) \in Nat
      /\ Len(g[p].items) = Len(g[p].keys) + 1
  <2>1. CutBelow(h, g, rt, lv, c, p)
    BY CutParent
  <2> QED  BY <2>1 DEF CutBelow
<1>2. PICK n \in Nat : n = Len(g[p].items) /\ n >= 2 /\ DOMAIN g[p].items = 1 .. n
  BY <1>1
<1> DEFINE Rich(j) == /\ j \in 1 .. n
                      /\ Len(g[g[p].items[j]].keys) > MinKeys(g[c].leaf)
<1>3. FixUnderflow(g, c, i) =
        CASE p = Null                  -> g
          [] p # Null /\ Rich(i - 1)   -> BorrowFromLeft(g, c, i)
          [] p # Null /\ ~Rich(i - 1) /\ Rich(i + 1) -> BorrowFromRight(g, c, i)
          [] OTHER -> IF i > 1 THEN Merge(g, p, i - 1)
                      ELSE IF i < Len(g[p].items) THEN Merge(g, p, i) ELSE g
  BY <1>2 DEF FixUnderflow
<1>4. i \in 1 .. n
  BY <1>2
<1>8. PICK lw, lo, hi : Plain(g, rt, lw, lo, hi)
  BY CutPlain
<1>9. c \in DOMAIN g
  BY DEF Cut
<1>10. \A j \in 1 .. n : LET m == g[p].items[j]
                         IN  m \in DOMAIN g /\ Counted(g, m) /\ g[m].leaf \in BOOLEAN
  <2>1. ASSUME NEW j \in 1 .. n
        PROVE  g[p].items[j] \in DOMAIN g
    BY <1>1, <1>2
  <2> QED  BY <2>1, CutCounted
<1>11. Counted(g, c) /\ g[c].leaf \in BOOLEAN
  BY <1>9, CutCounted
<1>12. \A j \in 1 .. n : j + 1 \in 1 .. n =>
         Adjacent(g, p, j, g[p].items[j], g[p].items[j + 1], g[p].keys[j])
  BY <1>1, <1>2, BesideAdjacent
<1>5. CASE Rich(i - 1)
  <2>1. FixUnderflow(g, c, i) = BorrowFromLeft(g, c, i)
    <3> HIDE DEF Rich
    <3> QED  BY <1>1, <1>3, <1>5
  <2>2. PICK l : l = g[p].items[i - 1] /\ i - 1 \in 1 .. n /\ Len(g[l].keys) > MinKeys(g[c].leaf)
    BY <1>5
  <2>3. Beside(g, c, p, i, l, i - 1)
    BY <1>2, <2>2 DEF Beside
  <2>4. LeftLent(g, BorrowFromLeft(g, c, i), rt, l, c, p, i)
    BY <2>2, <2>3, LeftLends
  <2>5. PICK w : LeftPlace(g, p, i, l, c, w)
    <3>1. PICK j \in 1 .. n : j = i - 1 /\ j + 1 = i
      BY <1>4, <2>2
    <3>2. Adjacent(g, p, j, l, c, g[p].keys[j])
      BY <1>4, <1>12, <2>2, <3>1, Zenon
    <3>3. i \in Int
      BY <1>4
    <3> QED  BY <3>1, <3>2, <3>3 DEF LeftPlace
  <2>6. 1 < Len(g[l].keys)
    <3>1. PICK b \in Nat \ {0} : b = MinKeys(g[c].leaf)
      BY <1>11, MinKeysIs
    <3>2. Len(g[l].keys) \in Nat
      <4>1. l \in DOMAIN g
        BY <1>10, <2>2, Zenon
      <4> QED  BY <4>1 DEF Cut, Typed, IsNode
    <3> QED  BY <2>2, <3>1, <3>2, SMTT(20)
  <2>7. Counted(g, l)
    BY <1>10, <2>2
  <2>8. Kept(g, BorrowFromLeft(g, c, i), rt)
    BY <1>8, <1>11, <2>4, <2>5, <2>6, <2>7, LentLeft
  <2> QED  BY <2>1, <2>8
<1>6. CASE ~Rich(i - 1) /\ Rich(i + 1)
  <2>1. FixUnderflow(g, c, i) = BorrowFromRight(g, c, i)
    <3> HIDE DEF Rich
    <3> QED  BY <1>1, <1>3, <1>6, Zenon
  <2>2. PICK r : r = g[p].items[i + 1] /\ i + 1 \in 1 .. n /\ Len(g[r].keys) > MinKeys(g[c].leaf)
    BY <1>6
  <2>3. Beside(g, c, p, i, r, i + 1)
    BY <1>2, <2>2 DEF Beside
  <2>4. RightLent(g, BorrowFromRight(g, c, i), rt, r, c, p, i)
    BY <2>2, <2>3, RightLends, Zenon
  <2>5. PICK w : Adjacent(g, p, i, c, r, w)
    BY <1>4, <1>12, <2>2, Zenon
  <2>7. Counted(g, r)
    BY <1>10, <2>2
  <2>8. Kept(g, BorrowFromRight(g, c, i), rt)
    BY <1>8, <1>11, <2>4, <2>5, <2>7, LentRight
  <2> QED  BY <2>1, <2>8
<1>7. CASE ~Rich(i - 1) /\ ~Rich(i + 1)
  <2>1. FixUnderflow(g, c, i) = IF i > 1 THEN Merge(g, p, i - 1)
                                ELSE IF i < Len(g[p].items) THEN Merge(g, p, i) ELSE g
    <3> HIDE DEF Rich
    <3> QED  BY <1>1, <1>3, <1>7
  <2>2. CASE i > 1
    <3>1. PICK j \in 1 .. n : j = i - 1 /\ j + 1 = i
      BY <1>4, <2>2
    <3>2. PICK l : l = g[p].items[j] /\ ~(Len(g[l].keys) > MinKeys(g[c].leaf))
      BY <1>7, <3>1, Zenon
    <3>3. Beside(g, c, p, j + 1, l, j)
      BY <1>2, <1>4, <3>1, <3>2 DEF Beside
    <3>4. c = g[p].items[j + 1]
      BY <3>1
    <3>5. MergedInto(g, Merge(g, p, j), rt, l, c, p, j)
      BY <3>2, <3>3, <3>4, Merges, Zenon
    <3>6. Adjacent(g, p, j, l, c, g[p].keys[j])
      BY <1>4, <1>12, <3>1, <3>2, Zenon
    <3>7. Counted(g, l) /\ g[l].leaf \in BOOLEAN
      BY <1>10, <3>2
    <3>8. Kept(g, Merge(g, p, j), rt)
      BY <1>8, <1>11, <3>5, <3>6, <3>7, MergeKeeps
    <3> QED  BY <2>1, <2>2, <3>1, <3>8
  <2>3. CASE ~(i > 1)
    <3>1. i = 1 /\ i < Len(g[p].items) /\ i + 1 \in 1 .. n
      BY <1>2, <1>4, <2>3
    <3>2. PICK r : r = g[p].items[i + 1] /\ ~(Len(g[r].keys) > MinKeys(g[c].leaf))
      BY <1>7, <3>1
    <3>3. Beside(g, c, p, i, r, i + 1)
      BY <1>2, <1>4, <3>1, <3>2 DEF Beside
    <3>4. MergedInto(g, Merge(g, p, i), rt, c, r, p, i)
      BY <3>2, <3>3, Merges
    <3>5. Adjacent(g, p, i, c, r, g[p].keys[i])
      BY <1>4, <1>12, <3>1, <3>2, Zenon
    <3>6. Counted(g, r)
      BY <1>10, <3>1, <3>2
    <3>7. Kept(g, Merge(g, p, i), rt)
      BY <1>8, <1>11, <3>4, <3>5, <3>6, MergeKeeps
    <3> QED  BY <2>1, <2>3, <3>1, <3>7
  <2> QED  BY <2>2, <2>3
<1> QED  BY <1>5, <1>6, <1>7

-----------------------------------------------------------------------------
(* The chain of leaves *)

IsChain(f, h, n, most) ==
    f = [i \in 0 .. most |-> IF i = 0 THEN n
                             ELSE IF f[i - 1] = Null THEN Null ELSE h[f[i - 1]].next]

LEMMA ChainStep ==
    ASSUME NEW h, NEW n, NEW j \in Nat, NEW f, IsChain(f, h, n, j)
    PROVE  \E g : IsChain(g, h, n, j + 1)
<1> DEFINE Body(i, e) == IF i = 0 THEN n ELSE IF e[i - 1] = Null THEN Null ELSE h[e[i - 1]].next
           g == [i \in 0 .. j + 1 |-> Body(i, f)]
<1>1. f = [i \in 0 .. j |-> Body(i, f)]
  BY DEF IsChain
<1>2. ASSUME NEW i \in 0 .. j + 1
      PROVE  Body(i, g) = Body(i, f)
  <2>1. CASE i = 0
    BY <2>1
  <2>2. CASE i # 0
    <3>1. PICK y : y = i - 1 /\ y \in 0 .. j /\ y \in 0 .. j + 1
      BY <2>2
    <3>2. f[y] = Body(y, f)
      <4> HIDE DEF Body
      <4> QED  BY <1>1, <3>1
    <3>3. g[y] = Body(y, f)
      <4> HIDE DEF Body
      <4> QED  BY <3>1
    <3> HIDE DEF g
    <3> QED  BY <2>2, <3>1, <3>2, <3>3
  <2> QED  BY <2>1, <2>2, Zenon
<1>3. g = [i \in 0 .. j + 1 |-> Body(i, g)]
  <2> HIDE DEF Body
  <2> QED  BY <1>2
<1>4. IsChain(g, h, n, j + 1)
  <2> HIDE DEF g
  <2> QED  BY <1>3 DEF IsChain
<1> QED  BY <1>4

LEMMA ChainExists ==
    ASSUME NEW h, NEW n, NEW most \in Nat
    PROVE  \E f : IsChain(f, h, n, most)
<1> DEFINE Bad == {i \in Nat : ~\E f : IsChain(f, h, n, i)}
<1> SUFFICES ASSUME Bad # {} PROVE FALSE
  OBVIOUS
<1>1. PICK i \in Bad : \A j \in Bad : i <= j
  <2>1. Bad \in SUBSET Nat
    OBVIOUS
  <2> HIDE DEF Bad
  <2> QED  BY <2>1, LessThanIsWellFounded
<1>2. i \in Nat /\ ~\E f : IsChain(f, h, n, i)
  OBVIOUS
<1>3. i # 0
  <2> SUFFICES ASSUME i = 0 PROVE FALSE
    OBVIOUS
  <2> DEFINE g == [y \in 0 .. 0 |-> n]
  <2>1. g = [y \in 0 .. 0 |-> IF y = 0 THEN n
                              ELSE IF g[y - 1] = Null THEN Null ELSE h[g[y - 1]].next]
    OBVIOUS
  <2>2. IsChain(g, h, n, 0)
    <3> HIDE DEF g
    <3> QED  BY <2>1 DEF IsChain
  <2> QED  BY <1>2, <2>2, Zenon
<1>4. PICK j \in Nat : i = j + 1
  <2>1. i - 1 \in Nat /\ i = (i - 1) + 1
    BY <1>2, <1>3
  <2> QED  BY <2>1
<1>5. j \notin Bad
  BY <1>1, <1>4
<1>6. \E f : IsChain(f, h, n, j)
  BY <1>5
<1> HIDE DEF Bad
<1> QED  BY <1>2, <1>4, <1>6, ChainStep

\* The nodes of the chain, place by place.
LEMMA ChainIs ==
    ASSUME NEW h, NEW n, NEW most \in Nat, most = Cardinality(DOMAIN h)
    PROVE  \E f : /\ f[0] = n
                  /\ \A i \in 1 .. most : f[i] = IF f[i - 1] = Null THEN Null ELSE h[f[i - 1]].next
                  /\ Chain(h, n) = {f[i] : i \in 0 .. most} \ {Null}
<1> DEFINE f == CHOOSE f : IsChain(f, h, n, most)
<1>1. IsChain(f, h, n, most)
  BY ChainExists
<1>2. Chain(h, n) = {f[i] : i \in 0 .. most} \ {Null}
  BY DEF Chain, IsChain
<1> HIDE DEF f
<1>3. f = [i \in 0 .. most |-> IF i = 0 THEN n
                               ELSE IF f[i - 1] = Null THEN Null ELSE h[f[i - 1]].next]
  BY <1>1 DEF IsChain
<1>4. \A i \in 0 .. most : f[i] = IF i = 0 THEN n
                                  ELSE IF f[i - 1] = Null THEN Null ELSE h[f[i - 1]].next
  BY <1>3, Zenon
<1>5. f[0] = n
  <2>1. 0 \in 0 .. most
    OBVIOUS
  <2> QED  BY <1>4, <2>1
<1>6. \A i \in 1 .. most : f[i] = IF f[i - 1] = Null THEN Null ELSE h[f[i - 1]].next
  <2>1. \A i \in 1 .. most : i \in 0 .. most /\ i # 0
    OBVIOUS
  <2> QED  BY <1>4, <2>1
<1> QED  BY <1>2, <1>5, <1>6

\* Leaf a begins where b is.
LeafAt(g, lo, a, b) == a \in DOMAIN g /\ g[a].leaf = TRUE /\ lo[a] = b

LEMMA FirstLeaf ==
    ASSUME NEW g, NEW rt, NEW lv, NEW lo, NEW hi, Plain(g, rt, lv, lo, hi), NEW n \in DOMAIN g,
           NEW a, a = LeftmostLeaf(g, n)
    PROVE  LeafAt(g, lo, a, lo[n])
<1>1. Descends(g, lv, lo) /\ \E top \in Nat : \A m \in DOMAIN g : lv[m] < top
  BY RangesDescend DEF Plain
<1>3. a \in DOMAIN g /\ g[a].leaf /\ lo[a] = lo[n]
  BY <1>1, LeftmostLeafIs
<1>4. g[a].leaf = TRUE
  BY <1>3, PlainLeaf
<1> QED  BY <1>3, <1>4 DEF LeafAt

\* The leaf after leaf m, which begins no later than leaf q.
LEMMA NextTowards ==
    ASSUME NEW g, NEW rt, NEW lv, NEW lo, NEW hi, Plain(g, rt, lv, lo, hi),
           NEW q \in DOMAIN g, g[q].leaf = TRUE, NEW m \in DOMAIN g, g[m].leaf = TRUE,
           m # q, lo[m] <= lo[q], NEW n, n = g[m].next
    PROVE  LeafAt(g, lo, n, hi[m]) /\ lo[n] <= lo[q] /\ lo[m] < lo[n]
<1>1. lv[m] = lv[q]
  <2>1. Forest(g, {rt}, lv)
    BY PlainIs
  <2> QED  BY <2>1 DEF Forest
<1>2. hi[m] <= lo[q] \/ hi[q] <= lo[m]
  BY <1>1, RangesApart DEF Plain
<1>3. /\ lo[m] \in Int /\ hi[m] \in Int /\ lo[q] \in Int /\ hi[q] \in Int /\ hi[rt] \in Int
      /\ lo[m] < hi[m] /\ lo[q] < hi[q] /\ hi[q] <= hi[rt]
  BY PlainIs
<1>4. hi[m] <= lo[q] /\ hi[m] # hi[rt]
  BY <1>2, <1>3
<1>5. Chained(g, lo, hi, hi[rt], m)
  BY PlainLeaf
<1>6. n \in DOMAIN g /\ g[n].leaf /\ lo[n] = hi[m]
  BY <1>4, <1>5 DEF Chained
<1>7. g[n].leaf = TRUE
  BY <1>6, PlainLeaf
<1>8. lo[n] <= lo[q] /\ lo[m] < lo[n]
  BY <1>3, <1>4, <1>6
<1> QED  BY <1>6, <1>7, <1>8 DEF LeafAt

\* A property of the places of a chain.
LEMMA Onwards ==
    ASSUME NEW most \in Nat, NEW P, 0 \in P, \A i \in 0 .. most - 1 : i \in P => i + 1 \in P
    PROVE  0 .. most \subseteq P
<1> DEFINE Bad == {i \in Nat : i \in 0 .. most /\ i \notin P}
<1> SUFFICES ASSUME Bad # {} PROVE FALSE
  OBVIOUS
<1>1. PICK i \in Bad : \A j \in Bad : i <= j
  <2>1. Bad \in SUBSET Nat
    OBVIOUS
  <2> HIDE DEF Bad
  <2> QED  BY <2>1, LessThanIsWellFounded
<1>2. i \in Nat /\ i <= most /\ i \notin P /\ i # 0
  OBVIOUS
<1>3. PICK j \in Nat : i = j + 1
  <2>1. i - 1 \in Nat /\ i = (i - 1) + 1
    BY <1>2
  <2> QED  BY <2>1
<1>4. j \notin Bad
  BY <1>1, <1>3
<1>5. j \in P /\ j \in 0 .. most - 1
  BY <1>2, <1>3, <1>4
<1> QED  BY <1>2, <1>3, <1>5

LEMMA ChainHas ==
    ASSUME NEW g, NEW rt, NEW lv, NEW lo, NEW hi, Plain(g, rt, lv, lo, hi),
           NEW q \in DOMAIN g, g[q].leaf = TRUE
    PROVE  LET leaves == Chain(g, LeftmostLeaf(g, rt))
           IN  leaves \subseteq DOMAIN g /\ q \in leaves
<1>1. PICK a : /\ a = LeftmostLeaf(g, rt)
               /\ a \in DOMAIN g /\ g[a].leaf = TRUE /\ lo[a] = lo[rt]
  <2>1. rt \in DOMAIN g
    BY PlainIs
  <2>2. PICK a : a = LeftmostLeaf(g, rt)
    OBVIOUS
  <2>3. LeafAt(g, lo, a, lo[rt])
    BY <2>1, <2>2, FirstLeaf
  <2> QED  BY <2>2, <2>3 DEF LeafAt
<1>2. IsFiniteSet(DOMAIN g) /\ Null \notin DOMAIN g
  <2>1. Typed(g)
    BY PlainIs
  <2> QED  BY <2>1 DEF Typed, Null
<1>3. PICK most \in Nat : most = Cardinality(DOMAIN g)
  BY <1>2, FS_CardinalityType
<1>4. PICK f : /\ f[0] = a
               /\ \A i \in 1 .. most : f[i] = IF f[i - 1] = Null THEN Null ELSE g[f[i - 1]].next
               /\ Chain(g, a) = {f[i] : i \in 0 .. most} \ {Null}
  BY <1>3, ChainIs
<1>5. \A i \in 0 .. most - 1 : f[i + 1] = IF f[i] = Null THEN Null ELSE g[f[i]].next
  <2> SUFFICES ASSUME NEW i \in 0 .. most - 1
               PROVE  f[i + 1] = IF f[i] = Null THEN Null ELSE g[f[i]].next
    OBVIOUS
  <2>1. PICK y : y = i + 1 /\ y \in 1 .. most /\ y - 1 = i
    OBVIOUS
  <2>2. f[y] = IF f[y - 1] = Null THEN Null ELSE g[f[y - 1]].next
    BY <1>4, <2>1
  <2> QED  BY <2>1, <2>2
<1>6. ASSUME NEW i \in 0 .. most
      PROVE  f[i] = Null \/ (f[i] \in DOMAIN g /\ g[f[i]].leaf = TRUE)
  <2> DEFINE P == {j \in Nat : f[j] = Null \/ (f[j] \in DOMAIN g /\ g[f[j]].leaf = TRUE)}
  <2>1. 0 \in P
    BY <1>1, <1>4
  <2>2. ASSUME NEW j \in 0 .. most - 1, j \in P
        PROVE  j + 1 \in P
    <3>1. CASE f[j] = Null
      BY <1>5, <3>1
    <3>2. CASE f[j] \in DOMAIN g /\ g[f[j]].leaf = TRUE
      <4>1. PICK m \in DOMAIN g : m = f[j] /\ g[m].leaf = TRUE /\ m # Null
        BY <1>2, <3>2
      <4>2. PICK z : z = f[j + 1] /\ z = g[m].next
        BY <1>5, <4>1
      <4>3. Chained(g, lo, hi, hi[rt], m)
        BY <4>1, PlainLeaf
      <4>4. z = Null \/ (z \in DOMAIN g /\ g[z].leaf)
        BY <4>2, <4>3 DEF Chained
      <4>5. z \in DOMAIN g /\ g[z].leaf => g[z].leaf = TRUE
        BY PlainLeaf
      <4>6. f[j + 1] = Null \/ (f[j + 1] \in DOMAIN g /\ g[f[j + 1]].leaf = TRUE)
        BY <4>2, <4>4, <4>5
      <4>7. j + 1 \in Nat
        OBVIOUS
      <4> QED  BY <4>6, <4>7
    <3> QED  BY <2>2, <3>1, <3>2
  <2>3. 0 .. most \subseteq P
    <3> HIDE DEF P
    <3> QED  BY <2>1, <2>2, Onwards
  <2> QED  BY <2>3
<1>7. Chain(g, a) \subseteq DOMAIN g
  BY <1>4, <1>6
<1>8. ASSUME \A i \in 0 .. most : f[i] # q
      PROVE  FALSE
  <2> DEFINE P == {j \in Nat : f[j] \in DOMAIN g /\ g[f[j]].leaf = TRUE /\ lo[f[j]] <= lo[q]}
  <2>1. 0 \in P
    <3>1. lo[a] <= lo[q]
      BY <1>1, PlainIs
    <3> QED  BY <1>1, <1>4, <3>1
  <2>2. ASSUME NEW j \in 0 .. most - 1, j \in P
        PROVE  j + 1 \in P /\ lo[f[j]] < lo[f[j + 1]]
    <3>1. PICK m \in DOMAIN g : m = f[j] /\ g[m].leaf = TRUE /\ lo[m] <= lo[q] /\ m # Null
      BY <1>2, <2>2
    <3>2. m # q
      <4>1. j \in 0 .. most
        OBVIOUS
      <4> QED  BY <1>8, <3>1, <4>1
    <3>3. PICK z : z = f[j + 1] /\ z = g[m].next
      BY <1>5, <3>1
    <3> HIDE DEF P
    <3>4. z \in DOMAIN g /\ g[z].leaf = TRUE /\ lo[z] <= lo[q] /\ lo[m] < lo[z]
      <4>1. LeafAt(g, lo, z, hi[m])
        BY <3>1, <3>2, <3>3, NextTowards
      <4>3. lo[z] <= lo[q]
        BY <3>1, <3>2, <3>3, NextTowards
      <4>4. lo[m] < lo[z]
        BY <3>1, <3>2, <3>3, NextTowards
      <4> QED  BY <4>1, <4>3, <4>4 DEF LeafAt
    <3>5. f[j + 1] \in DOMAIN g /\ g[f[j + 1]].leaf = TRUE /\ lo[f[j + 1]] <= lo[q]
      BY <3>3, <3>4
    <3>6. j + 1 \in Nat
      OBVIOUS
    <3>7. lo[f[j]] < lo[f[j + 1]]
      BY <3>1, <3>3, <3>4
    <3> QED  BY <3>5, <3>6, <3>7 DEF P
  <2>3. 0 .. most \subseteq P
    <3> HIDE DEF P
    <3> QED  BY <2>1, <2>2, Onwards
  <2> DEFINE e == [i \in 1 .. most + 1 |-> lo[f[i - 1]]]
             w == [i \in 1 .. most + 1 |-> f[i - 1]]
  <2>4. ASSUME NEW i \in 1 .. most + 1
        PROVE  e[i] \in Int /\ w[i] \in DOMAIN g /\ e[i] = lo[w[i]]
    <3>1. PICK j : j = i - 1 /\ j \in 0 .. most
      OBVIOUS
    <3>2. f[j] \in DOMAIN g
      BY <2>3, <3>1
    <3>3. lo[f[j]] \in Int
      BY <3>2, PlainIs
    <3>4. e[i] = lo[f[j]] /\ w[i] = f[j]
      BY <3>1
    <3> QED  BY <3>2, <3>3, <3>4
  <2>5. ASSUME NEW i \in 1 .. (most + 1) - 1
        PROVE  e[i] < e[i + 1]
    <3>1. PICK j : j = i - 1 /\ j \in 0 .. most - 1 /\ j + 1 = i /\ j \in P
      BY <2>3
    <3>2. lo[f[j]] < lo[f[j + 1]]
      <4> HIDE DEF P
      <4> QED  BY <2>2, <3>1
    <3>3. i \in 1 .. most + 1 /\ i + 1 \in 1 .. most + 1 /\ (i + 1) - 1 = i
      OBVIOUS
    <3> QED  BY <3>1, <3>2, <3>3
  <2>6. \A i, j \in 1 .. most + 1 : i < j => e[i] < e[j]
    <3> HIDE DEF e, w
    <3>1. PICK c \in Nat : c = most + 1
      OBVIOUS
    <3> QED  BY <2>4, <2>5, <3>1, StepsAscend
  <2>7. w \in [1 .. most + 1 -> DOMAIN g]
    BY <2>4
  <2>8. \E i, j \in 1 .. most + 1 : i # j /\ w[i] = w[j]
    <3>1. IsFiniteSet(1 .. most + 1) /\ Cardinality(1 .. most + 1) = most + 1
      BY FS_Interval
    <3> HIDE DEF w
    <3> QED  BY <1>2, <1>3, <2>7, <3>1, FS_PigeonHole
  <2>9. PICK i, j \in 1 .. most + 1 : i # j /\ w[i] = w[j]
    BY <2>8
  <2>10. e[i] = e[j] /\ e[i] \in Int
    BY <2>4, <2>9
  <2>11. i < j \/ j < i
    BY <2>9
  <2> HIDE DEF e, w
  <2> QED  BY <2>6, <2>10, <2>11
<1>9. q \in Chain(g, a)
  <2>1. PICK i \in 0 .. most : f[i] = q
    BY <1>8
  <2> QED  BY <1>2, <1>4, <2>1
<1> QED  BY <1>1, <1>7, <1>9

\* A node of g whose range ends where that of leaf c begins.
EndsAt(g, lo, hi, m, c) == g[m].leaf /\ hi[m] = lo[c]

\* Leaf c is no longer the next one of any.
Skipped(g, d, lo, hi, c) ==
    /\ DOMAIN d = DOMAIN g
    /\ \A m \in DOMAIN g : /\ Same(d[m], g[m])
                           /\ EndsAt(g, lo, hi, m, c) => d[m].next = g[c].next
                           /\ ~EndsAt(g, lo, hi, m, c) => d[m].next = g[m].next

LEMMA BeforeLeaf ==
    ASSUME NEW g, NEW rt, NEW lv, NEW lo, NEW hi, Plain(g, rt, lv, lo, hi),
           NEW c \in DOMAIN g, g[c].leaf = TRUE, NEW m \in DOMAIN g
    PROVE  EndsAt(g, lo, hi, m, c) <=> g[m].next = c
<1>1. ASSUME EndsAt(g, lo, hi, m, c)
      PROVE  g[m].next = c
  BY <1>1, NextLeaf DEF EndsAt
<1>2. ASSUME g[m].next = c
      PROVE  EndsAt(g, lo, hi, m, c)
  <2>1. c # Null
    BY PlainEnd
  <2>2. g[m].leaf
    <3> SUFFICES ASSUME ~g[m].leaf PROVE FALSE
      OBVIOUS
    <3>1. PICK d \in Nat : Cuts(g, lo, hi, m, g[m].items, g[m].keys, d)
      BY PlainInternal
    <3> QED  BY <1>2, <2>1, <3>1 DEF Cuts
  <2>3. Chained(g, lo, hi, hi[rt], m)
    BY <2>2, PlainLeaf
  <2> QED  BY <1>2, <2>1, <2>2, <2>3 DEF Chained, EndsAt
<1> QED  BY <1>1, <1>2

LEMMA DetachSkips ==
    ASSUME NEW g, NEW lv, NEW lo, NEW hi, Plain(g, root, lv, lo, hi),
           NEW c \in DOMAIN g, g[c].leaf = TRUE, NEW d, d = DetachLeafFromChain(g, c)
    PROVE  Skipped(g, d, lo, hi, c)
<1>0. \A m \in DOMAIN g : EndsAt(g, lo, hi, m, c) <=> g[m].next = c
  <2> SUFFICES ASSUME NEW m \in DOMAIN g
               PROVE  EndsAt(g, lo, hi, m, c) <=> g[m].next = c
    OBVIOUS
  <2>1. g[m].next = c => EndsAt(g, lo, hi, m, c)
    BY BeforeLeaf
  <2>2. EndsAt(g, lo, hi, m, c) => g[m].next = c
    BY NextLeaf DEF EndsAt
  <2> QED  BY <2>1, <2>2
<1> DEFINE leaves == Chain(g, LeftmostLeaf(g, root))
           before == {m \in leaves : g[m].next = c}
<1>1. \A m \in DOMAIN g : EndsAt(g, lo, hi, m, c) => m \in before
  <2> SUFFICES ASSUME NEW m \in DOMAIN g, EndsAt(g, lo, hi, m, c)
               PROVE  m \in before
    OBVIOUS
  <2>1. g[m].next = c
    BY <1>0
  <2>2. g[m].leaf = TRUE
    BY PlainLeaf DEF EndsAt
  <2>3. m \in leaves
    BY <2>2, ChainHas
  <2> QED  BY <2>1, <2>3
<1>2. \A m \in before : m \in DOMAIN g /\ EndsAt(g, lo, hi, m, c)
  <2>1. leaves \subseteq DOMAIN g
    BY ChainHas
  <2> QED  BY <2>1, <1>0
<1>3. \A m, q \in before : m = q
  <2> SUFFICES ASSUME NEW m \in before, NEW q \in before
               PROVE  m = q
    OBVIOUS
  <2> HIDE DEF before
  <2>1. m \in DOMAIN g /\ g[m].leaf /\ q \in DOMAIN g /\ g[q].leaf /\ hi[m] = hi[q]
    BY <1>2 DEF EndsAt
  <2> QED  BY <2>1, LeafKnown DEF Plain
<1>4. DOMAIN d = DOMAIN g /\ \A m \in DOMAIN g : Same(d[m], g[m])
  <2>1. Typed(g)
    BY PlainIs
  <2> QED  BY <2>1, DetachIs
<1>5. d = IF before = {} THEN g
          ELSE LET prev == CHOOSE m \in before : TRUE IN [g EXCEPT ![prev].next = g[c].next]
  BY DEF DetachLeafFromChain
<1> HIDE DEF before
<1>6. CASE before = {}
  BY <1>1, <1>4, <1>5, <1>6 DEF Skipped
<1>7. CASE before # {}
  <2>1. PICK prev \in before : d = [g EXCEPT ![prev].next = g[c].next]
    BY <1>5, <1>7
  <2>2. prev \in DOMAIN g /\ EndsAt(g, lo, hi, prev, c)
    BY <1>2
  <2>3. ASSUME NEW m \in DOMAIN g, EndsAt(g, lo, hi, m, c)
        PROVE  d[m].next = g[c].next
    <3>1. m = prev
      BY <1>1, <1>3, <2>3
    <3>2. "next" \in DOMAIN g[m]
      <4>1. Typed(g)
        BY PlainIs
      <4> QED  BY <4>1 DEF Typed, IsNode, Fields
    <3> QED  BY <2>1, <3>1, <3>2
  <2>4. ASSUME NEW m \in DOMAIN g, ~EndsAt(g, lo, hi, m, c)
        PROVE  d[m].next = g[m].next
    <3>1. m # prev
      BY <2>2, <2>4
    <3> QED  BY <2>1, <3>1
  <2> QED  BY <1>4, <2>3, <2>4 DEF Skipped
<1> QED  BY <1>6, <1>7

-----------------------------------------------------------------------------
(* An empty leaf goes *)

\* Leaf c, child i of n, is gone, and so is key j of n.
Removed(g, z, lo, hi, n, i, c, j) ==
    /\ DOMAIN z = DOMAIN g \ {c}
    /\ \A m \in DOMAIN z : /\ z[m].leaf = g[m].leaf
                           /\ EndsAt(g, lo, hi, m, c) => z[m].next = g[c].next
                           /\ ~EndsAt(g, lo, hi, m, c) => z[m].next = g[m].next
                           /\ m # n => z[m].keys = g[m].keys /\ z[m].items = g[m].items
    /\ Closed(g[n].keys, z[n].keys, j) /\ Closed(g[n].items, z[n].items, i)

\* The leaf on its left takes its range.
LEMMA RemovedRight ==
    ASSUME NEW g, NEW rt, NEW lv, NEW lo, NEW hi, Plain(g, rt, lv, lo, hi),
           NEW n, NEW j, NEW l, NEW c, NEW w, Adjacent(g, n, j, l, c, w), g[c].leaf = TRUE,
           NEW z, NEW lz, Typed(z), Forest(z, {rt}, lz),
           Removed(g, z, lo, hi, n, j + 1, c, j)
    PROVE  Graded(z, rt)
<1>1. /\ l \in DOMAIN g /\ c \in DOMAIN g /\ l # c /\ l # n /\ c # n /\ n \in DOMAIN g
      /\ hi[l] = w /\ lo[c] = w /\ g[l].leaf = g[c].leaf /\ lo[l] < w /\ w < hi[c] /\ w \in Int
  <2>1. n \in DOMAIN g
    BY DEF Adjacent
  <2> QED  BY <2>1, AdjacentIs
<1>2. g[l].leaf = TRUE /\ EndsAt(g, lo, hi, l, c)
  BY <1>1 DEF EndsAt
<1>3. \A m \in DOMAIN g : EndsAt(g, lo, hi, m, c) => m = l
  <2> SUFFICES ASSUME NEW m \in DOMAIN g, EndsAt(g, lo, hi, m, c)
               PROVE  m = l
    OBVIOUS
  <2>1. g[m].leaf /\ hi[m] = hi[l] /\ g[l].leaf
    BY <1>1, <1>2 DEF EndsAt
  <2> QED  BY <1>1, <2>1, LeafKnown DEF Plain
<1>4. Absorbed(g, z, n, j, l, c)
  <2>1. \A m \in DOMAIN z : m \in DOMAIN g /\ (m # l => ~EndsAt(g, lo, hi, m, c))
    BY <1>3 DEF Removed
  <2>2. z[l].next = g[c].next
    BY <1>1, <1>2 DEF Removed
  <2>3. \A m \in DOMAIN z : /\ z[m].leaf = g[m].leaf /\ (m # l => z[m].next = g[m].next)
                            /\ m \notin {l, n} => z[m].keys = g[m].keys /\ z[m].items = g[m].items
    BY <2>1 DEF Removed
  <2> QED  BY <2>2, <2>3 DEF Removed, Absorbed
<1> DEFINE b == [m \in DOMAIN z |-> lo[m]]
           t == [m \in DOMAIN z |-> IF m = l THEN hi[c] ELSE hi[m]]
<1>5. Widened(z, lo, hi, l, c, b, t)
  BY DEF Widened
<1>6. l \in DOMAIN z /\ b[l] = lo[l] /\ t[l] = hi[c] /\ z[l].keys = g[l].keys /\ z[l].leaf = g[l].leaf
  BY <1>1 DEF Removed
<1>7. Fit(z, b, t, l)
  <2>1. Filed(g, lo, hi, l)
    BY <1>1, <1>2, PlainLeaf
  <2>2. /\ lo[l] \in Int /\ hi[l] \in Int /\ hi[c] \in Int
        /\ \A i \in 1 .. Len(g[l].keys) : g[l].keys[i] \in Int
    <3>1. g[l].keys \in Seq(Keys)
      BY <1>1, <1>2, PlainLeaf
    <3>2. \A i \in 1 .. Len(g[l].keys) : g[l].keys[i] \in Int
      BY <3>1, KeysOf
    <3> QED  BY <1>1, <3>2, PlainIs
  <2> HIDE DEF b, t
  <2>3. ASSUME NEW i \in 1 .. Len(g[l].keys)
        PROVE  b[l] <= z[l].keys[i] /\ z[l].keys[i] < t[l]
    BY <1>1, <1>6, <2>1, <2>2 DEF Filed
  <2>4. b[l] < t[l] /\ Ascends(z[l].keys)
    BY <1>1, <1>6, <2>1, <2>2 DEF Filed
  <2>5. Filed(z, b, t, l)
    BY <1>6, <2>3, <2>4 DEF Filed
  <2> QED  BY <1>2, <1>6, <2>5 DEF Fit
<1> HIDE DEF b, t
<1>8. Sorted(z, rt, b, t)
  BY <1>4, <1>5, <1>7, AbsorbedSorted
<1> QED  BY <1>8, Zenon DEF Graded

\* Without a leaf on its left the one on its right does.
Inherited(z, lo, hi, c, r, b, t) ==
    /\ b = [m \in DOMAIN z |-> IF m = r THEN lo[c] ELSE lo[m]]
    /\ t = [m \in DOMAIN z |-> hi[m]]

LEMMA RemovedAltered ==
    ASSUME NEW g, NEW rt, NEW lv, NEW lo, NEW hi, Plain(g, rt, lv, lo, hi),
           NEW n, NEW c, NEW r, NEW w, Adjacent(g, n, 1, c, r, w), g[c].leaf = TRUE,
           NEW z, Removed(g, z, lo, hi, n, 1, c, 1), rt \in DOMAIN z,
           NEW b, NEW t, Inherited(z, lo, hi, c, r, b, t),
           NEW S, S = {r, n} \cup {m \in DOMAIN z : EndsAt(g, lo, hi, m, c)}
    PROVE  Altered(g, rt, lo, hi, z, b, t, S)
<1>1. /\ r \in DOMAIN g /\ c \in DOMAIN g /\ r # c /\ r # n /\ c # n /\ r # rt /\ c # rt
      /\ g[c].parent = n /\ g[r].parent = n
      /\ hi[c] = w /\ lo[r] = w /\ g[c].leaf = g[r].leaf /\ lo[c] < w /\ w < hi[r] /\ w \in Int
      /\ lo[rt] <= lo[c]
  BY AdjacentIs
<1>2. DOMAIN z = DOMAIN g \ {c}
  BY DEF Removed
<1>3. \A m \in DOMAIN g : lo[m] \in Int /\ hi[m] \in Int /\ lo[rt] <= lo[m] /\ hi[m] <= hi[rt]
  BY PlainIs
<1>4. b \in [DOMAIN z -> Int] /\ t \in [DOMAIN z -> Int] /\ b[rt] = lo[rt] /\ t[rt] = hi[rt]
  BY <1>1, <1>2, <1>3 DEF Inherited
<1>5. \A m \in DOMAIN z : z[m].leaf = g[m].leaf /\ lo[rt] <= b[m] /\ t[m] <= hi[rt]
  BY <1>1, <1>2, <1>3 DEF Removed, Inherited
<1>6. ASSUME NEW m \in DOMAIN z, m \notin S
      PROVE  /\ z[m].keys = g[m].keys /\ z[m].items = g[m].items /\ z[m].next = g[m].next
             /\ b[m] = lo[m] /\ t[m] = hi[m]
             /\ \A e \in DOMAIN g : g[m].leaf /\ g[e].leaf /\ lo[e] = hi[m] =>
                    e \in DOMAIN z /\ b[e] = lo[e]
  <2>1. m # r /\ m # n /\ ~EndsAt(g, lo, hi, m, c) /\ m \in DOMAIN g /\ m # c
    BY <1>2, <1>6
  <2>2. z[m].keys = g[m].keys /\ z[m].items = g[m].items /\ z[m].next = g[m].next
    BY <2>1 DEF Removed
  <2>3. ASSUME NEW e \in DOMAIN g, g[m].leaf, g[e].leaf, lo[e] = hi[m]
        PROVE  e \in DOMAIN z /\ b[e] = lo[e]
    <3>1. e # c
      BY <2>1, <2>3 DEF EndsAt
    <3>2. e # r
      <4> SUFFICES ASSUME e = r PROVE FALSE
        OBVIOUS
      <4>1. hi[m] = hi[c]
        BY <1>1, <2>3
      <4>2. m = c
        <5>1. g[c].leaf
          OBVIOUS
        <5> QED  BY <5>1, <1>1, <2>1, <2>3, <4>1, LeafKnown DEF Plain
      <4> QED  BY <2>1, <4>2
    <3> QED  BY <1>2, <3>1, <3>2 DEF Inherited
  <2> QED  BY <2>1, <2>2, <2>3 DEF Inherited
<1>7. ASSUME NEW m \in DOMAIN g
      PROVE  \/ m \in DOMAIN z /\ b[m] = lo[m] /\ t[m] = hi[m]
             \/ g[m].parent \in S
  BY <1>1, <1>2 DEF Inherited
<1> QED  BY <1>1, <1>2, <1>4, <1>5, <1>6, <1>7 DEF Altered

\* The leaf on the right, and the one that is now before it.
LEMMA RemovedChained ==
    ASSUME NEW g, NEW rt, NEW lv, NEW lo, NEW hi, Plain(g, rt, lv, lo, hi),
           NEW n, NEW c, NEW r, NEW w, Adjacent(g, n, 1, c, r, w), g[c].leaf = TRUE,
           NEW z, Removed(g, z, lo, hi, n, 1, c, 1), rt \in DOMAIN z,
           NEW b, NEW t, Inherited(z, lo, hi, c, r, b, t),
           NEW m \in DOMAIN z, m = r \/ EndsAt(g, lo, hi, m, c)
    PROVE  Filed(z, b, t, m) /\ Chained(z, b, t, t[rt], m)
<1>1. /\ r \in DOMAIN g /\ c \in DOMAIN g /\ r # c /\ r # n /\ c # n /\ r # rt /\ c # rt
      /\ hi[c] = w /\ lo[r] = w /\ g[c].leaf = g[r].leaf /\ lo[c] < w /\ w < hi[r] /\ w \in Int
      /\ lo[rt] <= lo[c] /\ hi[r] <= hi[rt]
  BY AdjacentIs
<1>2. DOMAIN z = DOMAIN g \ {c} /\ m \in DOMAIN g /\ m # c /\ g[n].leaf = FALSE
  BY DEF Removed, Adjacent
<1>3. \A x \in DOMAIN g : lo[x] \in Int /\ hi[x] \in Int /\ lo[x] < hi[x] /\ hi[x] <= hi[rt]
  BY PlainIs
<1>4. g[m].leaf = TRUE /\ m # n
  <2>1. g[m].leaf
    BY <1>1 DEF EndsAt
  <2> QED  BY <1>2, <2>1, PlainLeaf
<1>5. /\ z[m].keys = g[m].keys /\ z[m].leaf = TRUE
      /\ EndsAt(g, lo, hi, m, c) => z[m].next = g[c].next
      /\ ~EndsAt(g, lo, hi, m, c) => z[m].next = g[m].next
  BY <1>4 DEF Removed
<1>6. t[m] = hi[m] /\ t[rt] = hi[rt] /\ b[m] \in Int /\ b[m] <= lo[m] /\ r \in DOMAIN z
  BY <1>1, <1>2, <1>3 DEF Inherited
<1>7. Filed(z, b, t, m)
  <2>1. Filed(g, lo, hi, m)
    BY <1>2, <1>4, PlainLeaf
  <2>2. \A i \in 1 .. Len(g[m].keys) : g[m].keys[i] \in Int
    <3>1. g[m].keys \in Seq(Keys)
      BY <1>2, <1>4, PlainLeaf
    <3> QED  BY <3>1, KeysOf
  <2>3. lo[m] \in Int /\ hi[m] \in Int
    BY <1>2, <1>3
  <2>4. ASSUME NEW i \in 1 .. Len(z[m].keys)
        PROVE  b[m] <= z[m].keys[i] /\ z[m].keys[i] < t[m]
    <3>1. g[m].keys[i] \in Int /\ lo[m] <= g[m].keys[i] /\ g[m].keys[i] < hi[m]
      BY <1>5, <2>1, <2>2 DEF Filed
    <3> QED  BY <1>5, <1>6, <2>3, <3>1
  <2>5. b[m] < t[m] /\ Ascends(z[m].keys)
    BY <1>5, <1>6, <2>1, <2>3 DEF Filed
  <2> QED  BY <2>4, <2>5 DEF Filed
<1>8. CASE EndsAt(g, lo, hi, m, c)
  <2>1. hi[m] = lo[c] /\ hi[m] # hi[rt]
    BY <1>1, <1>3, <1>8 DEF EndsAt
  <2>2. g[c].next = r
    <3>1. g[r].leaf /\ g[c].leaf
      BY <1>1
    <3> QED  BY <1>1, <3>1, NextLeaf
  <2>3. z[r].leaf /\ b[r] = lo[c]
    BY <1>1, <1>6 DEF Removed, Inherited
  <2> QED  BY <1>5, <1>6, <1>7, <1>8, <2>1, <2>2, <2>3 DEF Chained
<1>9. CASE ~EndsAt(g, lo, hi, m, c)
  <2>1. m = r
    BY <1>9
  <2>2. Chained(g, lo, hi, hi[rt], r)
    BY <1>1, PlainLeaf
  <2>3. hi[r] = hi[rt] => z[r].next = Null
    BY <1>5, <1>9, <2>1, <2>2 DEF Chained
  <2>4. ASSUME hi[r] # hi[rt]
        PROVE  z[r].next \in DOMAIN z /\ z[z[r].next].leaf /\ b[z[r].next] = hi[r]
    <3>1. PICK e : e = g[r].next
      OBVIOUS
    <3>2. e \in DOMAIN g /\ g[e].leaf /\ lo[e] = hi[r]
      BY <2>2, <2>4, <3>1 DEF Chained
    <3>3. e # c /\ e # r
      BY <1>1, <1>3, <3>2
    <3>4. e \in DOMAIN z /\ b[e] = hi[r]
      BY <1>2, <3>2, <3>3 DEF Inherited
    <3>5. z[e].leaf
      BY <3>2, <3>4 DEF Removed
    <3> QED  BY <1>5, <1>9, <2>1, <3>1, <3>4, <3>5
  <2> QED  BY <1>6, <1>7, <2>1, <2>3, <2>4 DEF Chained
<1> QED  BY <1>8, <1>9

LEMMA RemovedParent ==
    ASSUME NEW g, NEW rt, NEW lv, NEW lo, NEW hi, Plain(g, rt, lv, lo, hi),
           NEW n, NEW c, NEW r, NEW w, Adjacent(g, n, 1, c, r, w), g[c].leaf = TRUE,
           NEW z, Removed(g, z, lo, hi, n, 1, c, 1),
           NEW b, NEW t, Inherited(z, lo, hi, c, r, b, t)
    PROVE  Portioned(z, b, t, n)
<1>1. /\ r \in DOMAIN g /\ c \in DOMAIN g /\ r # c /\ r # n /\ c # n /\ r # rt /\ c # rt
      /\ hi[c] = w /\ lo[r] = w /\ g[c].leaf = g[r].leaf
  BY AdjacentIs
<1>2. n \in DOMAIN g /\ g[n].leaf = FALSE /\ c = g[n].items[1] /\ r = g[n].items[1 + 1]
      /\ 1 \in 1 .. Len(g[n].keys)
  BY DEF Adjacent
<1>3. PICK e \in Nat : Cuts(g, lo, hi, n, g[n].items, g[n].keys, e)
  BY <1>2, PlainInternal
<1>4. PICK kids, ks :
      /\ kids = g[n].items /\ ks = g[n].keys /\ g[n].next = Null
      /\ Len(ks) = e /\ Len(kids) = e + 1 /\ \A i \in 1 .. e + 1 : kids[i] \in DOMAIN g
      /\ Bounded(lo, hi, kids, ks, e, lo[n], hi[n])
  BY <1>3 DEF Cuts
<1>5. PICK d \in Nat : e = d + 1
  <2>1. e - 1 \in Nat /\ e = (e - 1) + 1
    BY <1>2, <1>4
  <2> QED  BY <2>1
<1>6. PICK ls, js : ls = z[n].items /\ js = z[n].keys
  OBVIOUS
<1>7. Closed(kids, ls, 1) /\ Closed(ks, js, 1)
  BY <1>4, <1>6 DEF Removed
<1>8. Len(ls) = d + 1 /\ Len(js) = d
  BY <1>4, <1>5, <1>7 DEF Closed
<1>9. \A i \in 1 .. d + 1 : ls[i] = kids[i + 1]
  BY <1>4, <1>5, <1>7 DEF Closed
<1>10. \A i, j \in 1 .. d + 2 : kids[i] = kids[j] => i = j
  <2>1. Forest(g, {rt}, lv)
    BY PlainIs
  <2>2. \A i, j \in 1 .. Len(g[n].items) : g[n].items[i] = g[n].items[j] => i = j
    BY <1>2, <2>1, BroodIs
  <2> QED  BY <1>4, <1>5, <2>2
<1>11. Fused(lo, hi, b, t, kids, ls, 1)
  <2> SUFFICES ASSUME NEW i \in 1 .. d + 1
               PROVE  /\ b[ls[i]] = lo[kids[IF i <= 1 THEN i ELSE i + 1]]
                      /\ t[ls[i]] = hi[kids[IF i < 1 THEN i ELSE i + 1]]
    BY <1>8 DEF Fused
  <2>1. PICK y : y = i + 1 /\ y \in 1 .. d + 2 /\ y # 1 /\ ls[i] = kids[y]
    BY <1>9
  <2>2. kids[y] \in DOMAIN z
    <3>1. kids[y] \in DOMAIN g
      BY <1>4, <1>5, <2>1
    <3>2. kids[y] # c
      <4>1. 1 \in 1 .. d + 2
        OBVIOUS
      <4> QED  BY <1>2, <1>4, <1>10, <2>1, <4>1
    <3> QED  BY <3>1, <3>2 DEF Removed
  <2>3. t[kids[y]] = hi[kids[y]]
    BY <2>2 DEF Inherited
  <2>4. CASE i = 1
    <3>1. kids[y] = r /\ kids[1] = c
      BY <1>2, <1>4, <2>1, <2>4
    <3>2. b[kids[y]] = lo[c]
      BY <2>2, <3>1 DEF Inherited
    <3> QED  BY <2>1, <2>3, <2>4, <3>1, <3>2
  <2>5. CASE i # 1
    <3>1. kids[y] # r
      <4>1. 2 \in 1 .. d + 2 /\ r = kids[2] /\ y # 2
        BY <1>2, <1>4, <2>1, <2>5
      <4> QED  BY <1>10, <2>1, <4>1
    <3>2. b[kids[y]] = lo[kids[y]]
      BY <2>2, <3>1 DEF Inherited
    <3>3. ~(i <= 1) /\ ~(i < 1)
      BY <2>5
    <3> QED  BY <2>1, <2>3, <3>2, <3>3
  <2> QED  BY <2>4, <2>5
<1>12. Bounded(b, t, ls, js, d, lo[n], hi[n])
  <2>1. Bounded(lo, hi, kids, ks, d + 1, lo[n], hi[n]) /\ Len(ks) = d + 1
    BY <1>4, <1>5
  <2>2. 1 \in 1 .. d + 1
    OBVIOUS
  <2> QED  BY <1>7, <1>8, <1>11, <2>1, <2>2, BoundedFused
<1>13. n \in DOMAIN z /\ b[n] = lo[n] /\ t[n] = hi[n]
  BY <1>1, <1>2 DEF Removed, Inherited
<1>14. z[n].next = Null
  <2>1. ~EndsAt(g, lo, hi, n, c)
    BY <1>2 DEF EndsAt
  <2> QED  BY <1>4, <1>13, <2>1 DEF Removed
<1> QED  BY <1>6, <1>8, <1>12, <1>13, <1>14 DEF Portioned

LEMMA RemovedFirst ==
    ASSUME NEW g, NEW rt, NEW lv, NEW lo, NEW hi, Plain(g, rt, lv, lo, hi),
           NEW n, NEW c, NEW r, NEW w, Adjacent(g, n, 1, c, r, w), g[c].leaf = TRUE,
           NEW z, NEW lz, Typed(z), Forest(z, {rt}, lz), Removed(g, z, lo, hi, n, 1, c, 1)
    PROVE  Graded(z, rt)
<1>0. PICK b, t, S : /\ Inherited(z, lo, hi, c, r, b, t)
                     /\ S = {r, n} \cup {m \in DOMAIN z : EndsAt(g, lo, hi, m, c)}
  BY DEF Inherited
<1>1. rt \in DOMAIN z
  BY DEF Forest
<1>2. Altered(g, rt, lo, hi, z, b, t, S)
  BY <1>0, <1>1, RemovedAltered
<1>3. ASSUME NEW m \in S \cap DOMAIN z, m # n
      PROVE  Filed(z, b, t, m) /\ Chained(z, b, t, t[rt], m)
  <2>1. m \in DOMAIN z /\ (m = r \/ EndsAt(g, lo, hi, m, c))
    BY <1>0, <1>3
  <2> QED  BY <1>0, <1>1, <2>1, RemovedChained
<1>4. Portioned(z, b, t, n)
  BY <1>0, RemovedParent
<1>5. ~z[n].leaf /\ \A m \in S \cap DOMAIN z : m # n => z[m].leaf
  <2>1. n \in DOMAIN g /\ g[n].leaf = FALSE /\ n # c /\ g[c].leaf = g[r].leaf
    <3>1. c # n /\ g[c].leaf = g[r].leaf
      BY AdjacentIs
    <3> QED  BY <3>1 DEF Adjacent
  <2> QED  BY <1>0, <2>1 DEF Removed, EndsAt
<1>6. Sorted(z, rt, b, t)
  <2>1. \A m \in S \cap DOMAIN z : z[m].leaf => Filed(z, b, t, m) /\ Chained(z, b, t, t[rt], m)
    BY <1>3, <1>5
  <2>2. \A m \in S \cap DOMAIN z : ~z[m].leaf => Portioned(z, b, t, m)
    BY <1>4, <1>5
  <2> QED  BY <1>2, <2>1, <2>2, SortedAfter
<1> QED  BY <1>6, Zenon DEF Graded

\* What keys node n has had does not matter when they are refreshed.
LEMMA RefreshAnyway ==
    ASSUME NEW y, NEW rt, NEW ly, Typed(y), Forest(y, {rt}, ly), LeavesFilled(y),
           NEW n \in DOMAIN y, y[n].leaf = FALSE, NEW js,
           NEW z, z = [y EXCEPT ![n].keys = js], Typed(z), Forest(z, {rt}, ly), Graded(z, rt)
    PROVE  Graded(RefreshInternalKeys(y, n), rt)
<1>1. PICK lo, hi : Sorted(z, rt, lo, hi)
  BY DEF Graded
<1>2. Plain(z, rt, ly, lo, hi)
  BY <1>1, PlainFrom
<1>3. Descends(z, ly, lo) /\ \E top \in Nat : \A m \in DOMAIN z : ly[m] < top
  BY <1>2, RangesDescend DEF Plain
<1>4. "keys" \in DOMAIN y[n] /\ DOMAIN y[n] = Fields
  BY DEF Typed, IsNode, Fields
<1>5. /\ DOMAIN z = DOMAIN y /\ \A m \in DOMAIN y : m # n => z[m] = y[m]
      /\ z[n].leaf = y[n].leaf /\ z[n].items = y[n].items
  BY <1>4 DEF Fields
<1>6. \A m \in DOMAIN y : z[m].leaf = y[m].leaf /\ z[m].items = y[m].items
  BY <1>5
<1>7. Descends(y, ly, lo)
  BY <1>3, <1>5, <1>6 DEF Descends
<1>8. PICK top \in Nat : \A m \in DOMAIN y : ly[m] < top
  BY <1>3, <1>5
<1>9. y[n].items \in Seq(DOMAIN y) /\ y[n].items # <<>> /\ ~y[n].leaf
  BY BroodIs
<1>10. PICK ks : /\ Separators(ks, y, lo, n)
                 /\ RefreshInternalKeys(y, n) = [y EXCEPT ![n].keys = ks]
  BY <1>7, <1>8, <1>9, RefreshIs, SMTT(20)
<1>11. \A m \in DOMAIN y : y[m].leaf => z[m].keys = y[m].keys
  BY <1>5
<1>12. Separators(ks, z, lo, n)
  <2>1. PICK kids, d : kids = y[n].items /\ kids = z[n].items /\ d = Len(kids) - 1
    BY <1>6
  <2>2. /\ ks \in Seq(Keys) /\ Len(ks) = d
        /\ \A j \in 1 .. d : \E f \in DOMAIN y : /\ y[f].leaf /\ lo[f] = lo[kids[j + 1]]
                                                 /\ y[f].keys # <<>> /\ ks[j] = y[f].keys[1]
    <3>1. /\ ks \in Seq(Keys) /\ Len(ks) = Len(y[n].items) - 1
          /\ \A j \in 1 .. Len(y[n].items) - 1 :
                \E f \in DOMAIN y : /\ y[f].leaf /\ lo[f] = lo[y[n].items[j + 1]]
                                    /\ y[f].keys # <<>> /\ ks[j] = y[f].keys[1]
      BY <1>10, Zenon DEF Separators
    <3>2. kids = y[n].items /\ d = Len(y[n].items) - 1
      BY <2>1
    <3> QED  BY <3>1, <3>2
  <2>3. ASSUME NEW j \in 1 .. d
        PROVE  \E f \in DOMAIN z : /\ z[f].leaf /\ lo[f] = lo[kids[j + 1]]
                                   /\ z[f].keys # <<>> /\ ks[j] = z[f].keys[1]
    <3>1. PICK f \in DOMAIN y : /\ y[f].leaf /\ lo[f] = lo[kids[j + 1]]
                                /\ y[f].keys # <<>> /\ ks[j] = y[f].keys[1]
      BY <2>2
    <3>2. f \in DOMAIN z /\ z[f].leaf /\ z[f].keys = y[f].keys
      BY <1>5, <1>6, <1>11, <3>1
    <3> QED  BY <3>1, <3>2
  <2>4. ks \in Seq(Keys) /\ Len(ks) = Len(kids) - 1
    BY <2>1, <2>2, Zenon
  <2>5. \A j \in 1 .. Len(kids) - 1 :
            \E f \in DOMAIN z : /\ z[f].leaf /\ lo[f] = lo[kids[j + 1]]
                                /\ z[f].keys # <<>> /\ ks[j] = z[f].keys[1]
    BY <2>1, <2>3, Zenon
  <2>6. kids = z[n].items
    BY <2>1
  <2> HIDE <2>1
  <2> QED  BY <2>4, <2>5, <2>6, ZenonT(40) DEF Separators
<1>13. [y EXCEPT ![n].keys = ks] = [z EXCEPT ![n].keys = ks]
  <2>1. [[y[n] EXCEPT !.keys = js] EXCEPT !.keys = ks] = [y[n] EXCEPT !.keys = ks]
    BY <1>4 DEF Fields
  <2> QED  BY <2>1
<1>14. LeavesFilled(z)
  BY <1>5, <1>6, <1>11 DEF LeavesFilled
<1>15. PICK x : x = RefreshInternalKeys(y, n) /\ x = [z EXCEPT ![n].keys = ks]
  BY <1>10, <1>13
<1>16. n \in DOMAIN z /\ ~z[n].leaf
  BY <1>5
<1>17. Refitted(x, rt, ly, Null, rt, n, lo[n], hi[n])
  <2>1. Ordered(z, rt, ly, lo, hi, Null, rt)
    BY <1>2 DEF Plain
  <2>2. x = [z EXCEPT ![n].keys = ks]
    BY <1>15
  <2> QED  BY <1>12, <1>14, <1>16, <2>1, <2>2, SeparatorsRaise
<1>18. PICK l, u : Plain(x, rt, ly, l, u)
  BY <1>17 DEF Refitted, Plain
<1>19. Graded(x, rt)
  BY <1>18, PlainSorted, Zenon DEF Graded
<1> QED  BY <1>15, <1>19

LEMMA ChildRemoved ==
    ASSUME NEW g, NEW lv, NEW lo, NEW hi, Plain(g, root, lv, lo, hi),
           NEW n \in DOMAIN g, g[n].leaf = FALSE, NEW i, i \in 1 .. Len(g[n].items),
           NEW c \in DOMAIN g, c = g[n].items[i], c # n, g[c].leaf = TRUE,
           NEW j, NEW ks, Closed(g[n].keys, ks, j),
           NEW y, y = RemoveChild(g, n, i), NEW z, z = [y EXCEPT ![n].keys = ks]
    PROVE  Removed(g, z, lo, hi, n, i, c, j)
<1>1. PICK d : d = DetachLeafFromChain(g, c)
  OBVIOUS
<1>2. Skipped(g, d, lo, hi, c)
  BY <1>1, DetachSkips
<1>3. Typed(g) /\ Typed(d) /\ DOMAIN d = DOMAIN g
  <2>1. Typed(g)
    BY PlainIs
  <2> QED  BY <1>1, <2>1, DetachIs
<1>4. PICK ix : ix = RemoveAt(g[n].items, i) /\ Closed(g[n].items, ix, i)
  <2>1. g[n].items \in Seq(DOMAIN g)
    <3>1. Forest(g, {root}, lv)
      BY PlainIs
    <3> QED  BY <3>1, BroodIs
  <2> QED  BY <2>1, RemoveAtProperties
<1>5. y = Free([d EXCEPT ![n].items = ix], c)
  <2>1. y = Free([d EXCEPT ![n].items = RemoveAt(@, i)], c)
    BY <1>1, Zenon DEF RemoveChild
  <2>2. d[n].items = g[n].items
    BY <1>2 DEF Skipped, Same
  <2> QED  BY <1>4, <2>1, <2>2
<1>6. DOMAIN y = DOMAIN g \ {c} /\ \A m \in DOMAIN y : m # n => y[m] = d[m]
  BY <1>3, <1>5 DEF Free
<1>7. DOMAIN d[n] = Fields
  BY <1>3 DEF Typed, IsNode
<1>8. y[n] = [d[n] EXCEPT !.items = ix] /\ n \in DOMAIN y
  BY <1>3, <1>5, <1>6 DEF Free
<1>9. z[n] = [[d[n] EXCEPT !.items = ix] EXCEPT !.keys = ks]
  BY <1>8
<1>10. z[n].keys = ks /\ z[n].items = ix /\ z[n].leaf = d[n].leaf /\ z[n].next = d[n].next
  BY <1>7, <1>9, ZenonT(40) DEF Fields
<1>11. DOMAIN z = DOMAIN g \ {c} /\ \A m \in DOMAIN z : m # n => z[m] = d[m]
  BY <1>6
<1>12. \A m \in DOMAIN z : /\ z[m].leaf = d[m].leaf /\ z[m].next = d[m].next
                           /\ m # n => z[m].keys = d[m].keys /\ z[m].items = d[m].items
  BY <1>10, <1>11
<1>13. \A m \in DOMAIN z : m \in DOMAIN g
  BY <1>11
<1> QED  BY <1>2, <1>4, <1>10, <1>11, <1>12, <1>13 DEF Removed, Skipped, Same

\* An empty leaf that is gone leaves the entries as they were.
LEMMA RemovedSame ==
    ASSUME NEW g, NEW x, NEW n, NEW c \in DOMAIN g, Len(g[c].keys) = 0,
           g[n].leaf = FALSE, DOMAIN x = DOMAIN g \ {c},
           \A m \in DOMAIN x : x[m].leaf = g[m].leaf
                               /\ (m # n => x[m].keys = g[m].keys /\ x[m].items = g[m].items)
    PROVE  SameEntries(g, x)
<1>1. \A a, b : ~HasIn(g, {c}, a, b)
  BY DEF HasIn, Lists
<1>2. \A a, b : ~HasIn(x, {c}, a, b)
  BY DEF HasIn
<1>3. \A a, b : HasIn(x, {c}, a, b) <=> HasIn(g, {c}, a, b)
  BY <1>1, <1>2
<1>4. SameBut(g, x, {c})
  <2>1. \A m \in DOMAIN g : g[m].leaf /\ m \notin {c} =>
          m \in DOMAIN x /\ x[m].leaf /\ x[m].keys = g[m].keys /\ x[m].items = g[m].items
    OBVIOUS
  <2>2. \A m \in DOMAIN x : x[m].leaf /\ m \notin {c} => m \in DOMAIN g /\ g[m].leaf
    OBVIOUS
  <2> QED  BY <1>3, <2>1, <2>2, Zenon DEF SameBut
<1> QED  BY <1>4, SameButSame

\* Key j of n goes along with its child i, which is leaf c.
Parting(g, n, i, c, j) ==
    /\ c = g[n].items[i] /\ i \in 1 .. Len(g[n].items) /\ j \in 1 .. Len(g[n].keys)
    /\ (i = j + 1 \/ (i = 1 /\ j = 1))

LEMMA PartingIs ==
    ASSUME NEW g, NEW n \in DOMAIN g, Len(g[n].keys) \in Nat, Len(g[n].keys) >= 1,
           Len(g[n].items) = Len(g[n].keys) + 1,
           NEW i \in 1 .. Len(g[n].items), NEW c, c = g[n].items[i]
    PROVE  \E j \in Int : Parting(g, n, i, c, j)
<1>1. PICK d \in Nat : d = Len(g[n].keys) /\ Len(g[n].items) = d + 1 /\ i \in 1 .. d + 1 /\ d >= 1
  OBVIOUS
<1>2. CASE i = 1
  <2>1. 1 \in 1 .. d /\ 1 \in Int
    BY <1>1
  <2>2. Parting(g, n, i, c, 1)
    BY <1>1, <1>2, <2>1 DEF Parting
  <2> QED  BY <2>1, <2>2
<1>3. CASE i # 1
  <2>1. PICK j \in Int : j \in 1 .. d /\ i = j + 1
    <3>1. i - 1 \in 1 .. d /\ i = (i - 1) + 1 /\ i - 1 \in Int
      BY <1>1, <1>3
    <3> QED  BY <3>1
  <2>2. Parting(g, n, i, c, j)
    BY <1>1, <2>1 DEF Parting
  <2> QED  BY <2>2
<1> QED  BY <1>2, <1>3

LEMMA RemovedGraded ==
    ASSUME NEW g, NEW rt, NEW lv, NEW lo, NEW hi, Plain(g, rt, lv, lo, hi),
           NEW n \in DOMAIN g, g[n].leaf = FALSE, Len(g[n].keys) \in Nat,
           Len(g[n].items) = Len(g[n].keys) + 1,
           NEW i, NEW c, NEW j \in Int, Parting(g, n, i, c, j), g[c].leaf = TRUE,
           NEW z, NEW lz, Typed(z), Forest(z, {rt}, lz), Removed(g, z, lo, hi, n, i, c, j)
    PROVE  Graded(z, rt)
<1>1. c = g[n].items[i] /\ j \in 1 .. Len(g[n].keys) /\ (i = j + 1 \/ (i = 1 /\ j = 1))
  BY DEF Parting
<1>2. CASE i = j + 1
  <2>1. PICK l, w : l = g[n].items[j] /\ w = g[n].keys[j]
    OBVIOUS
  <2>2. Adjacent(g, n, j, l, c, w)
    BY <1>1, <1>2, <2>1 DEF Adjacent
  <2>3. Removed(g, z, lo, hi, n, j + 1, c, j)
    BY <1>2
  <2> QED  BY <2>2, <2>3, RemovedRight
<1>3. CASE i = 1 /\ j = 1
  <2>1. PICK r, w : r = g[n].items[1 + 1] /\ w = g[n].keys[1]
    OBVIOUS
  <2>2. Adjacent(g, n, 1, c, r, w)
    BY <1>1, <1>3, <2>1 DEF Adjacent
  <2>3. Removed(g, z, lo, hi, n, 1, c, 1)
    BY <1>3
  <2> QED  BY <2>2, <2>3, RemovedFirst
<1> QED  BY <1>1, <1>2, <1>3

LEMMA RemoveChildKeeps ==
    ASSUME degree \in Int, NEW h, NEW lv, Tree(h, root, lv),
           NEW n \in DOMAIN h, h[n].leaf = FALSE, NEW i \in 1 .. Len(h[n].items),
           NEW c, c = h[n].items[i], h[c].leaf = TRUE, NEW g, Cut(h, g, root, lv, c),
           Graded(g, root), Len(g[c].keys) = 0
    PROVE  Kept(g, RefreshInternalKeys(RemoveChild(g, n, i), n), root)
<1>1. c \in DOMAIN h /\ c # root /\ c # n /\ h[c].parent = n
  <2>1. Forest(h, {root}, lv)
    BY DEF Tree
  <2>2. c \in DOMAIN h /\ c \notin {root} /\ c # n /\ h[c].parent = n
    BY <2>1, KidOf
  <2> QED  BY <2>2
<1>2. n = g[c].parent /\ c \in DOMAIN g /\ g[c].leaf = TRUE /\ Typed(g)
  BY <1>1 DEF Cut
<1>3. CutBelow(h, g, root, lv, c, n)
  BY <1>1, <1>2, CutParent, Zenon
<1>4. /\ n \in DOMAIN g /\ g[n].leaf = FALSE /\ Len(g[n].keys) >= 1 /\ Len(g[n].keys) \in Nat
      /\ Len(g[n].items) = Len(g[n].keys) + 1 /\ g[n].items = h[n].items
      /\ g[n].keys \in Seq(Keys)
  BY <1>3, Zenon DEF CutBelow, Same
<1>5. c = g[n].items[i] /\ i \in 1 .. Len(g[n].items)
  BY <1>4
<1>6. PICK j \in Int : Parting(g, n, i, c, j)
  BY <1>4, <1>5, PartingIs
<1>7. PICK lw, lo, hi : Plain(g, root, lw, lo, hi)
  BY CutPlain
<1>8. PICK ks : ks \in Seq(Keys) /\ Closed(g[n].keys, ks, j)
  <2>1. j \in 1 .. Len(g[n].keys)
    BY <1>6 DEF Parting
  <2> QED  BY <1>4, <2>1, RemoveAtProperties
<1>9. PICK y, z : y = RemoveChild(g, n, i) /\ z = [y EXCEPT ![n].keys = ks]
  BY Zenon
<1>10. Removed(g, z, lo, hi, n, i, c, j)
  BY <1>1, <1>2, <1>4, <1>5, <1>7, <1>8, <1>9, ChildRemoved, Zenon
<1>11. Thinned(h, y, root, lv, n)
  BY <1>9, RemoveChildIs
<1>12. PICK ly : Forest(y, {root}, ly)
  BY <1>11 DEF Thinned, Remains
<1>13. Typed(y) /\ n \in DOMAIN y /\ y[n].leaf = FALSE
  BY <1>11 DEF Thinned
<1>14. LeavesFilled(y)
  <2>1. Trimmed(h, y, root, lv, n)
    BY <1>11, ThinnedIsTrimmed
  <2> QED  BY <2>1, TrimmedFilled
<1>15. /\ DOMAIN z = DOMAIN y /\ \A m \in DOMAIN y : m # n => z[m] = y[m]
       /\ DOMAIN z[n] = Fields /\ z[n].leaf = FALSE /\ z[n].items = y[n].items
       /\ z[n].parent = y[n].parent /\ z[n].keys = ks
  <2>1. z[n] = [y[n] EXCEPT !.keys = ks]
    BY <1>9, <1>13
  <2>2. DOMAIN y[n] = Fields
    BY <1>13 DEF Typed, IsNode
  <2> QED  BY <1>9, <1>13, <2>1, <2>2 DEF Fields
<1>16. Typed(z)
  <2>1. \A m \in DOMAIN z : IsNode(z[m])
    BY <1>8, <1>13, <1>15 DEF Typed, IsNode
  <2> QED  BY <1>13, <1>15, <2>1 DEF Typed
<1>17. Forest(z, {root}, ly)
  <2>1. \A m \in DOMAIN y : Keeps(y, z, {root}, m)
    BY <1>13, <1>15, Zenon DEF Keeps
  <2> QED  BY <1>12, <1>15, <2>1, ForestKept
<1>18. Graded(z, root)
  BY <1>2, <1>4, <1>6, <1>7, <1>10, <1>16, <1>17, RemovedGraded, Zenon
<1>19. PICK x : x = RefreshInternalKeys(y, n)
  OBVIOUS
<1>20. Graded(x, root)
  <2>1. z = [y EXCEPT ![n].keys = ks]
    BY <1>9
  <2> QED  BY <1>12, <1>13, <1>14, <1>16, <1>17, <1>18, <1>19, <2>1, RefreshAnyway
<1>21. /\ DOMAIN x = DOMAIN y /\ \A m \in DOMAIN y : m # n => x[m] = y[m]
       /\ x[n].leaf = FALSE
  <2>1. /\ DOMAIN x = DOMAIN y /\ \A m \in DOMAIN y : m # n => x[m] = y[m]
        /\ x[n].leaf = y[n].leaf
    BY <1>12, <1>13, <1>14, <1>19, Refreshed, SMTT(20)
  <2> QED  BY <1>13, <2>1, Zenon
<1>22. SameEntries(g, x)
  <2>1. DOMAIN x = DOMAIN g \ {c}
    BY <1>10, <1>15, <1>21 DEF Removed
  <2>2. ASSUME NEW m \in DOMAIN x
        PROVE  x[m].leaf = g[m].leaf /\ (m # n => x[m].keys = g[m].keys /\ x[m].items = g[m].items)
    <3>1. CASE m = n
      BY <1>4, <1>21, <3>1
    <3>2. CASE m # n
      <4>1. x[m] = z[m] /\ m \in DOMAIN z
        BY <1>15, <1>21, <3>2
      <4> QED  BY <1>10, <3>2, <4>1 DEF Removed
    <3> QED  BY <3>1, <3>2
  <2> QED  BY <1>2, <1>4, <2>1, <2>2, RemovedSame, ZenonT(40)
<1> QED  BY <1>9, <1>19, <1>20, <1>22 DEF Kept

-----------------------------------------------------------------------------
(* The calls of DeleteFromNode *)

\* g has the entries of h, but none for k; found: h has one.
Erased(h, g, k, found) ==
    /\ \A b : ~Has(g, k, b)
    /\ \A a, b : a # k => (Has(g, a, b) <=> Has(h, a, b))
    /\ found \in BOOLEAN /\ (found <=> \E b : Has(h, k, b))

\* What a call of DeleteFromNode for node n leaves of a tree.
DelWell(h, rt, n, r, k) ==
    /\ Graded(r.heap, rt) /\ Erased(h, r.heap, k, r.deleted)
    /\ r.empty => Len(r.heap[n].keys) = 0

LEMMA DeleteFromLeafInOrder ==
    ASSUME degree \in Int, NEW h, NEW rt, NEW lv, Tree(h, rt, lv),
           NEW lo, NEW hi, Plain(h, rt, lv, lo, hi),
           NEW n \in DOMAIN h, h[n].leaf, NEW k \in Keys, lo[n] <= k, k < hi[n]
    PROVE  DelWell(h, rt, n, DeleteFromLeaf(h, n, k), k)
<1>1. Typed(h) /\ Forest(h, {rt}, lv) /\ Balance(h, rt, {})
  BY DEF Tree
<1>2. /\ IsNode(h[n]) /\ DOMAIN h[n] = Fields /\ h[n].leaf = TRUE
      /\ h[n].keys \in Seq(Keys) /\ h[n].items \in Seq(Values)
  BY <1>1 DEF Typed, IsNode
<1>3. Counted(h, n)
  BY <1>1 DEF Balance
<1>4. PICK ks, vs : ks = h[n].keys /\ vs = h[n].items
  OBVIOUS
<1>5. ks \in Seq(Keys) /\ ks \in Seq(Int)
  BY <1>2, <1>4, KeysOf
<1>6. PICK c \in Nat : c = Len(ks) /\ Len(vs) = c
  BY <1>2, <1>3, <1>4 DEF Counted
<1>7. k \in Int /\ lo[n] \in Int /\ hi[n] \in Int
  BY PlainIs
<1>8. PICK at : /\ at = LowerBound(h[n], k) /\ at \in 1 .. c + 1
                /\ \A j \in 1 .. at - 1 : ks[j] < k
                /\ at \in 1 .. c => ks[at] >= k
  <2>1. /\ LowerBound(h[n], k) \in 1 .. Len(h[n].keys) + 1
        /\ \A j \in 1 .. LowerBound(h[n], k) - 1 : h[n].keys[j] < k
        /\ LowerBound(h[n], k) \in DOMAIN h[n].keys => h[n].keys[LowerBound(h[n], k)] >= k
    BY <1>4, <1>5, <1>7, LowerBoundIs
  <2>2. DOMAIN h[n].keys = 1 .. c
    BY <1>4, <1>5, <1>6
  <2> QED  BY <1>4, <1>6, <2>1, <2>2
<1>9. Filed(h, lo, hi, n)
  BY PlainLeaf
<1>10. Ascends(ks) /\ \A i \in 1 .. c : lo[n] <= ks[i] /\ ks[i] < hi[n]
  BY <1>4, <1>6, <1>9 DEF Filed
<1>11. CASE k \notin ToSet(ks)
  <2>1. PICK r : /\ r = DeleteFromLeaf(h, n, k)
                 /\ r = [heap |-> h, empty |-> FALSE, deleted |-> FALSE, stale |-> FALSE]
    BY <1>4, <1>11 DEF DeleteFromLeaf
  <2>2. \A b : ~Lists(h[n], k, b)
    <3>1. \A j \in 1 .. c : ks[j] # k
      BY <1>5, <1>6, <1>11 DEF ToSet
    <3> QED  BY <1>4, <1>6, <3>1 DEF Lists
  <2>3. \A b : Has(h, k, b) <=> Lists(h[n], k, b)
    BY <1>7, LeafEntries
  <2>4. \A b : ~Has(h, k, b)
    BY <2>2, <2>3
  <2>5. r.heap = h /\ r.empty = FALSE /\ r.deleted = FALSE
    BY <2>1
  <2>6. Erased(h, r.heap, k, r.deleted)
    BY <2>4, <2>5 DEF Erased
  <2>7. Graded(r.heap, rt)
    BY <2>5, PlainSorted DEF Graded
  <2>8. DelWell(h, rt, n, r, k)
    BY <2>5, <2>6, <2>7 DEF DelWell
  <2> QED  BY <2>1, <2>8
<1>12. CASE k \in ToSet(ks)
  <2>1. at \in 1 .. c /\ ks[at] = k
    <3>1. PICK j \in 1 .. c : ks[j] = k
      BY <1>5, <1>6, <1>12 DEF ToSet
    <3>2. ~(j < at)
      <4> SUFFICES ASSUME j < at PROVE FALSE
        OBVIOUS
      <4>1. j \in 1 .. at - 1
        BY <1>8, <3>1
      <4> QED  BY <1>7, <1>8, <3>1, <4>1
    <3>3. at \in 1 .. c /\ ks[at] >= k /\ ks[at] \in Int
      BY <1>5, <1>6, <1>8, <3>1, <3>2
    <3>4. CASE at = j
      BY <3>1, <3>3, <3>4
    <3>5. CASE at # j
      <4>1. ks[at] < ks[j]
        BY <1>6, <1>10, <3>1, <3>2, <3>3, <3>5 DEF Ascends
      <4> QED  BY <1>7, <3>1, <3>3, <4>1
    <3> QED  BY <3>4, <3>5
  <2>2. /\ RemoveAt(ks, at) \in Seq(Keys) /\ Closed(ks, RemoveAt(ks, at), at)
        /\ RemoveAt(vs, at) \in Seq(Values) /\ Closed(vs, RemoveAt(vs, at), at)
    <3>1. ks \in Seq(Keys) /\ at \in 1 .. Len(ks) /\ vs \in Seq(Values) /\ at \in 1 .. Len(vs)
      BY <1>2, <1>4, <1>6, <2>1
    <3> QED  BY <3>1, RemoveAtProperties
  <2>3. PICK kx, vx : /\ kx = RemoveAt(ks, at) /\ kx \in Seq(Keys) /\ Closed(ks, kx, at)
                      /\ vx = RemoveAt(vs, at) /\ vx \in Seq(Values) /\ Closed(vs, vx, at)
    BY <2>2
  <2>4. PICK g : g = [h EXCEPT ![n].keys = kx, ![n].items = vx]
    BY Zenon
  <2>5. PICK r : /\ r = DeleteFromLeaf(h, n, k)
                 /\ r.heap = g /\ r.deleted = TRUE /\ r.empty = (g[n].keys = <<>>)
    <3>1. k \in ToSet(h[n].keys)
      BY <1>4, <1>12
    <3>2. g = [h EXCEPT ![n].keys = RemoveAt(@, at), ![n].items = RemoveAt(@, at)]
      BY <1>4, <2>3, <2>4
    <3>3. PICK e : e = (g[n].keys = <<>>)
      OBVIOUS
    <3>4. DeleteFromLeaf(h, n, k) = [heap |-> g, empty |-> e, deleted |-> TRUE, stale |-> FALSE]
      BY <1>8, <3>1, <3>2, <3>3, Zenon DEF DeleteFromLeaf
    <3> QED  BY <3>3, <3>4
  <2>6. /\ DOMAIN g = DOMAIN h /\ \A m \in DOMAIN h : m # n => g[m] = h[m]
        /\ DOMAIN g[n] = Fields /\ g[n].leaf = TRUE /\ g[n].keys = kx /\ g[n].items = vx
        /\ g[n].parent = h[n].parent /\ g[n].next = h[n].next
    BY <1>2, <2>4, Zenon DEF Fields
  <2>7. IsNode(g[n])
    BY <2>3, <2>6, Zenon DEF IsNode
  <2>8. /\ Ascends(kx) /\ Len(kx) + 1 = c
        /\ \A i \in 1 .. Len(kx) : \E j \in 1 .. c : j # at /\ kx[i] = ks[j]
    <3>1. ks \in Seq(Int) /\ Ascends(ks) /\ at \in 1 .. Len(ks) /\ Closed(ks, kx, at)
      BY <1>5, <1>6, <1>10, <2>1, <2>3
    <3>2. /\ Ascends(kx) /\ Len(kx) + 1 = Len(ks)
          /\ \A i \in 1 .. Len(kx) : \E j \in 1 .. Len(ks) : j # at /\ kx[i] = ks[j]
      BY <3>1, ClosedAscends
    <3> QED  BY <1>6, <3>2
  <2>9. Filed(g, lo, hi, n)
    <3>1. lo[n] < hi[n]
      BY <1>9 DEF Filed
    <3> QED  BY <1>10, <2>6, <2>8, <3>1 DEF Filed
  <2>10. Plain(g, rt, lv, lo, hi)
    BY <2>6, <2>7, <2>9, LeafChanged
  <2>11. \A i \in 1 .. Len(kx) : kx[i] # k
    <3>1. \A j \in 1 .. c : ks[j] = k => j = at
      BY <1>5, <1>6, <1>10, <2>1, AscendsOnce
    <3> QED  BY <2>8, <3>1
  <2>12. ASSUME NEW a, NEW b, a # k
         PROVE  Lists(g[n], a, b) <=> Lists(h[n], a, b)
    <3>1. Lists(g[n], a, b) <=> Listed(kx, vx, a, b)
      BY <2>6 DEF Lists, Listed
    <3>2. Lists(h[n], a, b) <=> Listed(ks, vs, a, b)
      BY <1>4 DEF Lists, Listed
    <3>3. Listed(ks, vs, a, b) <=> (a = ks[at] /\ b = vs[at]) \/ Listed(kx, vx, a, b)
      BY <1>6, <2>1, <2>3, ClosedListed
    <3> QED  BY <2>1, <2>12, <3>1, <3>2, <3>3
  <2>13. /\ \A b : Has(g, k, b) <=> Lists(g[n], k, b)
         /\ \A b : Has(h, k, b) <=> Lists(h[n], k, b)
         /\ \A a, b : a # k => (Has(g, a, b) <=> Has(h, a, b))
    BY <1>7, <2>6, <2>12, LeafEntries
  <2>14. \A b : ~Lists(g[n], k, b)
    BY <2>6, <2>11 DEF Lists
  <2>15. Lists(h[n], k, vs[at])
    BY <1>4, <1>6, <2>1 DEF Lists
  <2>16. Erased(h, r.heap, k, r.deleted)
    BY <2>5, <2>13, <2>14, <2>15 DEF Erased
  <2>17. Graded(r.heap, rt)
    BY <2>5, <2>10, PlainSorted DEF Graded
  <2>18. r.empty => Len(r.heap[n].keys) = 0
    <3>1. r.empty => g[n].keys = <<>>
      BY <2>5, Zenon
    <3>2. g[n].keys = <<>> => Len(g[n].keys) = 0
      OBVIOUS
    <3> QED  BY <2>5, <3>1, <3>2, Zenon
  <2> QED  BY <2>5, <2>16, <2>17, <2>18 DEF DelWell
<1> QED  BY <1>11, <1>12

LEMMA RefreshKeeps ==
    ASSUME NEW g, NEW rt, NEW lv, NEW lo, NEW hi, Plain(g, rt, lv, lo, hi), LeavesFilled(g),
           NEW n \in DOMAIN g, NEW x, x = RefreshInternalKeys(g, n)
    PROVE  Kept(g, x, rt)
<1>1. Ordered(g, rt, lv, lo, hi, Null, rt) /\ Typed(g) /\ Forest(g, {rt}, lv)
  BY PlainIs DEF Plain
<1>2. Refitted(x, rt, lv, Null, rt, n, lo[n], hi[n])
  BY <1>1, RefreshOrdered
<1>3. PICK l, u : Ordered(x, rt, lv, l, u, Null, rt)
  BY <1>2 DEF Refitted
<1>4. Plain(x, rt, lv, l, u)
  BY <1>3 DEF Plain
<1>5. Graded(x, rt)
  BY <1>4, PlainSorted DEF Graded
<1>6. SameEntries(g, x)
  BY <1>1, RefreshSame
<1> QED  BY <1>5, <1>6 DEF Kept

\* The end of DeleteFromNode changes no entry.
SelfKept(g, r, found) ==
    Kept(g, r.heap, root) /\ r.empty = FALSE /\ r.deleted = found

LEMMA FixSelfKeeps ==
    ASSUME degree \in Int, NEW h, NEW lv, Tree(h, root, lv), NEW n \in DOMAIN h,
           h[n].leaf = FALSE, NEW g, Cut(h, g, root, lv, n), Graded(g, root),
           NEW found, NEW stale, NEW r, r = FixSelf(g, n, found, stale)
    PROVE  SelfKept(g, r, found)
<1>1. n \in DOMAIN g /\ g[n].leaf = FALSE /\ Typed(g)
  BY DEF Cut
<1>2. CASE n # root /\ Underflows(g, n)
  <2>1. PICK p, s : p = g[n].parent /\ s = CHOOSE i \in DOMAIN g[p].items : g[p].items[i] = n
    OBVIOUS
  <2>2. g[p].items \in Seq(DOMAIN g) /\ \E i \in 1 .. Len(g[p].items) : g[p].items[i] = n
    <3>1. PICK lw : Forest(g, {root}, lw)
      BY DEF Cut
    <3>2. p \in DOMAIN g /\ ~g[p].leaf /\ \E i \in 1 .. Len(g[p].items) : g[p].items[i] = n
      BY <1>1, <1>2, <2>1, <3>1, ParentOf
    <3> QED  BY <3>1, <3>2, BroodIs
  <2>3. s \in 1 .. Len(g[p].items) /\ g[p].items[s] = n
    <3>1. DOMAIN g[p].items = 1 .. Len(g[p].items)
      BY <2>2
    <3> QED  BY <2>1, <2>2, <3>1, Zenon
  <2>4. r = [heap |-> FixUnderflow(g, n, s), empty |-> FALSE, deleted |-> found, stale |-> stale]
    BY <1>2, <2>1 DEF FixSelf
  <2>5. Kept(g, FixUnderflow(g, n, s), root)
    BY <1>2, <2>1, <2>3, FixUnderflowKeeps, Zenon
  <2> QED  BY <2>4, <2>5 DEF SelfKept
<1>3. CASE ~(n # root /\ Underflows(g, n))
  <2>1. g[n].items # <<>>
    <3>1. PICK lw : Forest(g, {root}, lw)
      BY DEF Cut
    <3> QED  BY <1>1, <3>1, BroodIs
  <2>2. PICK x : x = RefreshInternalKeys(g, n)
    OBVIOUS
  <2>3. r = [heap |-> x, empty |-> FALSE, deleted |-> found, stale |-> stale]
    BY <1>3, <2>1, <2>2 DEF FixSelf
  <2>4. Trimmed(h, g, root, lv, n)
    BY CutIsTrimmed, Zenon
  <2>5. LeavesFilled(g)
    BY <2>4, TrimmedFilled
  <2>6. PICK lw, lo, hi : Plain(g, root, lw, lo, hi)
    BY CutPlain
  <2>7. Kept(g, x, root)
    BY <1>1, <2>2, <2>5, <2>6, RefreshKeeps
  <2> QED  BY <2>3, <2>7 DEF SelfKept
<1> QED  BY <1>2, <1>3

LEMMA ErasedThrough ==
    ASSUME NEW h, NEW g, NEW k, NEW found, Erased(h, g, k, found), NEW x, SameEntries(g, x)
    PROVE  Erased(h, x, k, found)
BY DEF Erased, SameEntries

LEMMA KeptAsIs ==
    ASSUME NEW g, NEW rt, Graded(g, rt)
    PROVE  Kept(g, g, rt)
BY DEF Kept, SameEntries

LEMMA DeleteFromInternalInOrder ==
    ASSUME degree \in Int, NEW h, NEW lv, Tree(h, root, lv), NEW n \in DOMAIN h,
           ~h[n].leaf, NEW i \in 1 .. Len(h[n].items), NEW c, c = h[n].items[i],
           NEW r, Shrunk(h, root, lv, c, r), NEW k, DelWell(h, root, c, r, k)
    PROVE  DelWell(h, root, n, DeleteFromInternal(n, i, r), k)
<1>1. /\ c \in DOMAIN h /\ c # root /\ c # n /\ h[c].parent = n
      /\ lv[c] \in Nat /\ lv[n] \in Nat /\ lv[c] + 1 = lv[n]
  <2>1. Forest(h, {root}, lv)
    BY DEF Tree
  <2>2. /\ c \in DOMAIN h /\ c \notin {root} /\ c # n /\ h[c].parent = n
        /\ lv[c] \in Nat /\ lv[n] \in Nat /\ lv[c] + 1 = lv[n]
    BY <2>1, KidOf
  <2> QED  BY <2>2
<1>2. h[n].leaf = FALSE
  BY DEF Tree, Typed, IsNode
<1>3. PICK g : g = r.heap
  OBVIOUS
<1> DEFINE Past == r.deleted /\ ~r.empty /\ i > Len(g[n].items)
           Fixed == CASE r.empty -> RemoveChild(g, n, i)
                      [] r.deleted /\ ~r.empty /\ ~Past /\ Underflows(g, g[n].items[i])
                           -> FixUnderflow(g, g[n].items[i], i)
                      [] OTHER -> g
<1>4. PICK y, s : y = Fixed /\ s = (r.stale \/ Past)
  OBVIOUS
<1>5. DeleteFromInternal(n, i, r) = FixSelf(y, n, r.deleted, s)
  BY <1>3, <1>4 DEF DeleteFromInternal
<1>9. Graded(g, root) /\ Erased(h, g, k, r.deleted)
  BY <1>3 DEF DelWell
<1>6. CASE r.empty
  <2>1. Cut(h, g, root, lv, c) /\ h[c].leaf /\ r.deleted
    BY <1>3, <1>6 DEF Shrunk
  <2>2. y = RemoveChild(g, n, i)
    BY <1>4, <1>6
  <2>3. Thinned(h, y, root, lv, n)
    BY <2>1, <2>2, RemoveChildIs
  <2>4. Trimmed(h, y, root, lv, n) /\ (n # root => ~Underflows(y, n))
    BY <2>3, ThinnedIsTrimmed
  <2>5. y[n].items # <<>>
    BY <2>3, ThinnedIsTrimmed
  <2>6. PICK x, z : /\ x = RefreshInternalKeys(y, n) /\ z = DeleteFromInternal(n, i, r)
                    /\ z = [heap |-> x, empty |-> FALSE, deleted |-> r.deleted, stale |-> s]
    BY <1>5, <2>4, <2>5 DEF FixSelf
  <2>7. h[c].leaf = TRUE /\ Len(g[c].keys) = 0
    <3>1. h[c].leaf \in BOOLEAN
      BY <1>1 DEF Tree, Typed, IsNode
    <3> QED  BY <1>3, <1>6, <1>9, <2>1, <3>1 DEF DelWell
  <2>8. Kept(g, x, root)
    BY <1>2, <1>9, <2>1, <2>2, <2>6, <2>7, RemoveChildKeeps
  <2>9. Erased(h, x, k, r.deleted)
    BY <1>9, <2>8, ErasedThrough DEF Kept
  <2> QED  BY <2>6, <2>8, <2>9 DEF DelWell, Kept
<1>7. CASE ~r.empty
  <2>1. Cut(h, y, root, lv, n) /\ Kept(g, y, root)
    <3>1. CASE Cut(h, g, root, lv, c) /\ (~r.deleted => Enough(g, c))
      <4>1. n = g[c].parent /\ CutBelow(h, g, root, lv, c, n) /\ Typed(g) /\ c \in DOMAIN g
        <5>1. n = g[c].parent /\ Typed(g) /\ c \in DOMAIN g
          BY <1>1, <3>1 DEF Cut
        <5> QED  BY <1>1, <3>1, <5>1, CutParent, Zenon
      <4>2. g[n].items = h[n].items /\ g[n].items[i] = c /\ i \in 1 .. Len(g[n].items)
        BY <4>1, Zenon DEF CutBelow, Same
      <4>3. ~Past
        <5>1. Len(g[n].items) \in Nat
          <6>1. g[n].items \in Seq(DOMAIN g)
            BY <4>1, Zenon DEF CutBelow
          <6> QED  BY <6>1
        <5>2. ~(i > Len(g[n].items))
          BY <4>2, <5>1
        <5> QED  BY <5>2
      <4>4. CASE r.deleted /\ Underflows(g, c)
        <5>1. y = FixUnderflow(g, c, i)
          <6> HIDE DEF Past
          <6> QED  BY <1>4, <1>7, <4>2, <4>3, <4>4
        <5>2. Cut(h, y, root, lv, n)
          BY <1>1, <3>1, <4>1, <4>2, <4>4, <5>1, FixUnderflowCuts, Zenon
        <5>3. Kept(g, y, root)
          BY <1>1, <1>9, <3>1, <4>1, <4>2, <4>4, <5>1, FixUnderflowKeeps, Zenon
        <5> QED  BY <5>2, <5>3
      <4>5. CASE ~(r.deleted /\ Underflows(g, c))
        <5>1. y = g
          <6> HIDE DEF Past
          <6> QED  BY <1>4, <1>7, <4>2, <4>5
        <5>2. Enough(g, c)
          BY <3>1, <4>1, <4>5, EnoughIs, Zenon
        <5>3. Cut(h, y, root, lv, n)
          BY <1>1, <3>1, <4>1, <5>1, <5>2, CutAbove, Zenon
        <5> QED  BY <1>9, <5>1, <5>3, KeptAsIs, Zenon
      <4> QED  BY <4>4, <4>5
    <3>2. CASE Cut(h, g, root, lv, n)
      <4>1. PICK lw : Forest(g, {root}, lw)
        BY <3>2 DEF Cut
      <4>2. n \in DOMAIN g /\ ~g[n].leaf /\ Typed(g) /\ Balance(g, root, {n})
        BY <1>2, <3>2 DEF Cut
      <4>3. ~Past /\ r.deleted => ~Underflows(g, g[n].items[i])
        <5> SUFFICES ASSUME ~Past, r.deleted PROVE ~Underflows(g, g[n].items[i])
          OBVIOUS
        <5>1. Len(g[n].items) \in Nat
          BY <4>1, <4>2, BroodIs
        <5>2. ~(i > Len(g[n].items))
          BY <1>7
        <5>3. i \in 1 .. Len(g[n].items)
          BY <5>1, <5>2
        <5>4. PICK d : d = g[n].items[i]
          OBVIOUS
        <5>5. d \in DOMAIN g /\ d \notin {root} /\ d # n
          BY <4>1, <4>2, <5>3, <5>4, KidOf
        <5>6. Enough(g, d)
          BY <4>2, <5>5 DEF Balance
        <5> QED  BY <4>2, <5>4, <5>5, <5>6, EnoughIs
      <4>4. y = g
        <5> HIDE DEF Past
        <5> QED  BY <1>4, <1>7, <4>3
      <4> QED  BY <1>9, <3>2, <4>4, KeptAsIs, Zenon
    <3> QED  BY <1>1, <1>3, <3>1, <3>2 DEF Shrunk
  <2>2. Graded(y, root) /\ Erased(h, y, k, r.deleted)
    BY <1>9, <2>1, ErasedThrough DEF Kept
  <2>3. PICK z : z = FixSelf(y, n, r.deleted, s)
    OBVIOUS
  <2>4. SelfKept(y, z, r.deleted)
    BY <1>2, <2>1, <2>2, <2>3, FixSelfKeeps
  <2>5. Erased(h, z.heap, k, r.deleted)
    BY <2>2, <2>4, ErasedThrough DEF SelfKept, Kept
  <2> QED  BY <1>5, <2>3, <2>4, <2>5 DEF DelWell, SelfKept, Kept
<1> QED  BY <1>6, <1>7

LEMMA DeleteInOrder ==
    ASSUME degree \in Int, NEW lv, Tree(heap, root, lv),
           NEW lo, NEW hi, Plain(heap, root, lv, lo, hi), NEW k \in Keys
    PROVE  LET r == DeleteFromNode(heap, k)
           IN  Shrunk(heap, root, lv, root, r) /\ DelWell(heap, root, root, r, k)
<1>1. /\ Typed(heap) /\ Forest(heap, {root}, lv) /\ Balance(heap, root, {})
      /\ root \in DOMAIN heap /\ \A n \in DOMAIN heap : Counted(heap, n)
  BY Zenon DEF Tree, Forest, Balance
<1>2. PICK top \in Nat : DOMAIN heap = Under(heap, lv, top)
  <2>1. IsFiniteSet(DOMAIN heap) /\ DOMAIN heap # {}
    BY <1>1 DEF Typed
  <2>2. PICK l \in Nat : \A m \in DOMAIN heap : lv[m] <= l
    BY <1>1, <2>1, LevelsBounded
  <2>3. \A m \in DOMAIN heap : lv[m] < l + 1
    BY <1>1, <2>2 DEF Forest
  <2>4. DOMAIN heap = Under(heap, lv, l + 1)
    BY <2>3 DEF Under
  <2>5. l + 1 \in Nat
    OBVIOUS
  <2> QED  BY <2>4, <2>5
<1>3. PICK f : IsDelete(f, heap, k, DOMAIN heap) /\ DeleteFromNode(heap, k) = f[root]
  <2> DEFINE g == CHOOSE f : IsDelete(f, heap, k, DOMAIN heap)
  <2>1. IsDelete(g, heap, k, DOMAIN heap)
    BY <1>1, <1>2, DeleteExists
  <2>2. DeleteFromNode(heap, k) = g[root]
    BY DEF DeleteFromNode, IsDelete
  <2> HIDE DEF g
  <2> QED  BY <2>1, <2>2
<1>4. \A n \in DOMAIN heap :
        f[n] = LET i == ChildIndex(heap[n], k)
               IN  IF heap[n].leaf THEN DeleteFromLeaf(heap, n, k)
                   ELSE DeleteFromInternal(n, i, f[heap[n].items[i]])
  <2>1. f = [n \in DOMAIN heap |->
               LET i == ChildIndex(heap[n], k)
               IN  IF heap[n].leaf THEN DeleteFromLeaf(heap, n, k)
                   ELSE DeleteFromInternal(n, i, f[heap[n].items[i]])]
    BY <1>3 DEF IsDelete
  <2> QED  BY <2>1
<1> DEFINE Well(n) == /\ Shrunk(heap, root, lv, n, f[n])
                      /\ DelWell(heap, root, n, f[n], k)
           Bad == {n \in DOMAIN heap : lo[n] <= k /\ k < hi[n] /\ ~Well(n)}
<1>5. Bad = {}
  <2> SUFFICES ASSUME Bad # {} PROVE FALSE
    OBVIOUS
  <2>1. PICK n \in Bad : \A x \in Bad : lv[n] <= lv[x]
    <3>1. Bad \subseteq DOMAIN heap
      OBVIOUS
    <3> HIDE DEF Bad
    <3> QED  BY <1>1, <3>1, Lowest
  <2>2. n \in DOMAIN heap /\ lo[n] <= k /\ k < hi[n] /\ ~Well(n)
    OBVIOUS
  <2>3. ~heap[n].leaf
    <3> SUFFICES ASSUME heap[n].leaf PROVE FALSE
      OBVIOUS
    <3>1. f[n] = DeleteFromLeaf(heap, n, k)
      BY <1>4, <2>2
    <3>2. Shrunk(heap, root, lv, n, DeleteFromLeaf(heap, n, k))
      BY <2>2, DeleteFromLeafShrinks
    <3>3. DelWell(heap, root, n, DeleteFromLeaf(heap, n, k), k)
      BY <2>2, DeleteFromLeafInOrder
    <3> QED  BY <2>2, <3>1, <3>2, <3>3
  <2>4. PICK i, c : i = ChildIndex(heap[n], k) /\ c = heap[n].items[i]
    OBVIOUS
  <2>5. /\ i \in 1 .. Len(heap[n].items)
        /\ c \in DOMAIN heap /\ lv[c] + 1 = lv[n] /\ lv[c] \in Nat /\ lv[n] \in Nat
    BY <1>1, <2>2, <2>3, <2>4, KidFor
  <2>6. lo[c] <= k /\ k < hi[c]
    BY <2>2, <2>3, <2>4, KidInRange
  <2>7. Well(c)
    <3>1. ~(lv[n] <= lv[c])
      BY <2>5
    <3>2. c \notin Bad
      <4> HIDE DEF Bad
      <4> QED  BY <2>1, <3>1
    <3> QED  BY <2>5, <2>6, <3>2
  <2>8. f[n] = DeleteFromInternal(n, i, f[c])
    BY <1>4, <2>2, <2>3, <2>4
  <2>9. PICK r : r = f[c]
    OBVIOUS
  <2>10. Shrunk(heap, root, lv, c, r) /\ DelWell(heap, root, c, r, k)
    BY <2>7, <2>9
  <2>11. Shrunk(heap, root, lv, n, DeleteFromInternal(n, i, r))
    BY <2>2, <2>3, <2>4, <2>5, <2>10, DeleteFromInternalShrinks
  <2>12. DelWell(heap, root, n, DeleteFromInternal(n, i, r), k)
    BY <2>2, <2>3, <2>4, <2>5, <2>10, DeleteFromInternalInOrder
  <2> QED  BY <2>2, <2>8, <2>9, <2>11, <2>12
<1>6. lo[root] <= k /\ k < hi[root]
  BY PlainIs
<1>7. Well(root)
  BY <1>1, <1>5, <1>6
<1> QED  BY <1>3, <1>7

\* A root with one child gives way to it.
LEMMA LoweredInOrder ==
    ASSUME NEW g, NEW rt, NEW lw, NEW lo, NEW hi, Plain(g, rt, lw, lo, hi),
           g[rt].leaf = FALSE, Len(g[rt].items) = 1, Len(g[rt].keys) = 0,
           NEW kid, kid = g[rt].items[1], NEW x, x = Lowered(g, rt, kid),
           NEW lx, Tree(x, kid, lx)
    PROVE  Searchable(x, kid) /\ SameEntries(g, x)
<1>1. rt \in DOMAIN g /\ Forest(g, {rt}, lw) /\ Typed(g)
  BY PlainIs
<1>2. kid \in DOMAIN g /\ kid # rt
  BY <1>1, KidOf
<1>3. lo[kid] = lo[rt] /\ hi[kid] = hi[rt]
  <2>1. PICK c \in Nat : Cuts(g, lo, hi, rt, g[rt].items, g[rt].keys, c)
    BY <1>1, PlainInternal
  <2>2. c = 0
    BY <2>1 DEF Cuts
  <2> QED  BY <2>1, <2>2 DEF Cuts, Bounded
<1>4. DOMAIN x = DOMAIN g \ {rt}
  BY DEF Lowered, Free
<1>5. \A m \in DOMAIN x : /\ x[m].leaf = g[m].leaf /\ x[m].keys = g[m].keys
                          /\ x[m].items = g[m].items /\ x[m].next = g[m].next
  <2>1. PICK y : y = [g EXCEPT ![kid].parent = Null]
    OBVIOUS
  <2>2. \A m \in DOMAIN g : /\ y[m].leaf = g[m].leaf /\ y[m].keys = g[m].keys
                            /\ y[m].items = g[m].items /\ y[m].next = g[m].next
    BY <2>1
  <2>3. \A m \in DOMAIN x : x[m] = y[m]
    BY <2>1 DEF Lowered, Free
  <2> QED  BY <1>4, <2>2, <2>3
<1>6. PICK l, u : l = [m \in DOMAIN x |-> lo[m]] /\ u = [m \in DOMAIN x |-> hi[m]]
  OBVIOUS
<1>7. /\ l \in [DOMAIN x -> Int] /\ u \in [DOMAIN x -> Int] /\ kid \in DOMAIN x
      /\ \A m \in DOMAIN x : l[m] = lo[m] /\ u[m] = hi[m] /\ l[kid] <= l[m] /\ u[m] <= u[kid]
      /\ \A k \in Keys : l[kid] <= k /\ k < u[kid]
  <2>1. \A m \in DOMAIN g : lo[m] \in Int /\ hi[m] \in Int /\ lo[rt] <= lo[m] /\ hi[m] <= hi[rt]
    BY PlainIs
  <2>2. \A k \in Keys : lo[rt] <= k /\ k < hi[rt]
    BY PlainIs
  <2>3. kid \in DOMAIN x
    BY <1>2, <1>4
  <2> QED  BY <1>3, <1>4, <1>6, <2>1, <2>2, <2>3
<1>8. ASSUME NEW m \in DOMAIN x, x[m].leaf
      PROVE  Filed(x, l, u, m) /\ Chained(x, l, u, u[kid], m)
  <2>1. m \in DOMAIN g /\ g[m].leaf
    BY <1>4, <1>5, <1>8
  <2>2. Filed(g, lo, hi, m) /\ Chained(g, lo, hi, hi[rt], m)
    BY <2>1, PlainLeaf
  <2>3. Filed(x, l, u, m)
    BY <1>5, <1>7, <2>2 DEF Filed
  <2>4. CASE hi[m] = hi[rt]
    <3>1. u[m] = u[kid]
      BY <1>3, <1>7, <2>4
    <3>2. x[m].next = Null
      BY <1>5, <2>2, <2>4 DEF Chained
    <3>3. Chained(x, l, u, u[kid], m)
      BY <3>1, <3>2, Zenon DEF Chained
    <3> QED  BY <2>3, <3>3
  <2>5. CASE hi[m] # hi[rt]
    <3>1. PICK n : n = g[m].next /\ n \in DOMAIN g /\ g[n].leaf /\ lo[n] = hi[m]
      BY <2>2, <2>5 DEF Chained
    <3>2. n \in DOMAIN x
      BY <1>4, <3>1
    <3> QED  BY <1>3, <1>5, <1>7, <2>3, <2>5, <3>1, <3>2 DEF Chained
  <2> QED  BY <2>3, <2>4, <2>5
<1>9. ASSUME NEW m \in DOMAIN x, ~x[m].leaf
      PROVE  \E c \in Nat : Cuts(x, l, u, m, x[m].items, x[m].keys, c)
  <2>1. m \in DOMAIN g /\ ~g[m].leaf
    BY <1>4, <1>5, <1>9
  <2>2. PICK c \in Nat : Cuts(g, lo, hi, m, g[m].items, g[m].keys, c)
    BY <2>1, PlainInternal
  <2>3. PICK kids, ks : kids = g[m].items /\ ks = g[m].keys
    OBVIOUS
  <2>4. /\ g[m].next = Null /\ Len(ks) = c /\ Len(kids) = c + 1
        /\ Bounded(lo, hi, kids, ks, c, lo[m], hi[m])
    BY <2>2, <2>3 DEF Cuts
  <2>5. x[m].items \in Seq(DOMAIN x)
    BY <1>9, BroodIs DEF Tree
  <2>6. \A j \in 1 .. Len(kids) : kids[j] \in DOMAIN x
    BY <1>5, <2>3, <2>5
  <2>7. Agree(lo, hi, l, u, kids)
    BY <1>7, <2>6 DEF Agree
  <2>8. Bounded(l, u, kids, ks, c, lo[m], hi[m])
    BY <2>4, <2>7, BoundedAgain, Zenon
  <2>9. Portioned(x, l, u, m)
    BY <1>5, <1>7, <2>3, <2>4, <2>8 DEF Portioned
  <2>10. Typed(x) /\ Forest(x, {kid}, lx)
    BY DEF Tree
  <2> QED  BY <1>9, <2>9, <2>10, CutsFrom
<1>10. Sorted(x, kid, l, u)
  BY <1>7, <1>8, <1>9 DEF Sorted
<1>11. SameLeaves(g, x)
  BY <1>4, <1>5 DEF SameLeaves
<1> QED  BY <1>10, <1>11, SearchableFrom, SameLeavesDo

LEMMA ShrunkRootInOrder ==
    ASSUME degree \in Int, NEW h, NEW lv, Tree(h, root, lv),
           NEW g, Cut(h, g, root, lv, root), Graded(g, root), NEW t, t = ShrunkRoot(g)
    PROVE  Searchable(t.heap, t.root) /\ SameEntries(g, t.heap)
<1>1. Typed(g) /\ root \in DOMAIN g /\ Balance(g, root, {root}) /\ Counted(g, root)
  BY DEF Cut
<1>2. PICK lw, lo, hi : Plain(g, root, lw, lo, hi)
  BY CutPlain
<1>3. PICK lx : Tree(t.heap, t.root, lx)
  BY ShrunkRootIs
<1>4. CASE g[root].leaf \/ Len(g[root].items) > 1
  <2>1. t = [heap |-> g, root |-> root]
    <3>1. PICK kids : kids = g[root].items
      OBVIOUS
    <3>2. t = CASE g[root].leaf \/ Len(kids) > 1 -> [heap |-> g, root |-> root]
                [] ~g[root].leaf /\ Len(kids) = 1 ->
                   [heap |-> Free([g EXCEPT ![kids[1]].parent = Null], root), root |-> kids[1]]
                [] OTHER -> [heap |-> [g EXCEPT ![root] = NewNode(TRUE)], root |-> root]
      BY <3>1, Zenon DEF ShrunkRoot
    <3>3. ASSUME ~g[root].leaf, Len(kids) = 1 PROVE FALSE
      <4>1. PICK n : n = Len(g[root].items) /\ n > 1
        BY <1>4, <3>3
      <4>2. n = 1
        BY <3>1, <3>3, <4>1
      <4> QED  BY <4>1, <4>2
    <3>4. g[root].leaf \/ Len(kids) > 1
      BY <1>4, <3>1
    <3> QED  BY <3>2, <3>3, <3>4, Zenon
  <2>2. t.heap = g /\ t.root = root
    BY <2>1
  <2>3. Tree(g, root, lx)
    BY <1>3, <2>2
  <2>4. Sorted(g, root, lo, hi)
    BY <1>2, PlainSorted
  <2>5. Searchable(g, root)
    BY <2>3, <2>4, SearchableFrom
  <2>6. SameEntries(g, g)
    BY DEF SameEntries
  <2> QED  BY <2>2, <2>5, <2>6
<1>5. CASE ~g[root].leaf /\ ~(Len(g[root].items) > 1)
  <2>1. Len(g[root].items) = 1
    <3>1. PICK n \in Nat \ {0} : n = Len(g[root].items)
      BY <1>1, <1>2, <1>5, PlainIs, BroodIs
    <3>2. ~(n > 1)
      BY <1>5, <3>1
    <3>3. n = 1
      BY <3>2
    <3> QED  BY <3>1, <3>3
  <2>2. PICK kid, x : kid = g[root].items[1] /\ x = Lowered(g, root, kid)
    OBVIOUS
  <2>3. t = [heap |-> x, root |-> kid]
    BY <1>5, <2>1, <2>2 DEF ShrunkRoot, Lowered
  <2>4. t.heap = x /\ t.root = kid
    BY <2>3
  <2>5. g[root].leaf = FALSE
    BY <1>1, <1>5 DEF Typed, IsNode
  <2>6. Len(g[root].keys) = 0
    <3>1. PICK n \in Nat : n = Len(g[root].keys)
      BY <1>1 DEF Typed, IsNode
    <3>2. Len(g[root].items) = n + 1
      BY <1>1, <2>5, <3>1 DEF Counted
    <3>3. n = 0
      <4>1. n + 1 = 1
        BY <2>1, <3>2, Zenon
      <4> QED  BY <4>1
    <3> QED  BY <3>1, <3>3
  <2>7. Searchable(x, kid) /\ SameEntries(g, x)
    BY <1>2, <1>3, <2>1, <2>2, <2>4, <2>5, <2>6, LoweredInOrder
  <2> QED  BY <2>4, <2>7
<1> QED  BY <1>4, <1>5

\* Delete either ends the process, or erases its key and says whether it was there.
DeleteDoes(k) ==
    \/ UNCHANGED <<heap, root, done>>
    \/ Searchable(heap', root') /\ \E found :
         Erased(heap, heap', k, found) /\ done' = [key |-> k, val |-> Absent, found |-> found]

LEMMA DeleteKeepsOrder ==
    ASSUME degree \in Int, Searchable(heap, root), NEW k \in Keys, Delete(k)
    PROVE  DeleteDoes(k)
<1>1. PICK lv, lo, hi : Tree(heap, root, lv) /\ Plain(heap, root, lv, lo, hi)
  BY DEF Searchable
<1>2. PICK r, t, g, found : /\ r = DeleteFromNode(heap, k) /\ g = r.heap
                            /\ t = ShrunkRoot(g) /\ found = r.deleted
  OBVIOUS
<1>3. Shrunk(heap, root, lv, root, r) /\ DelWell(heap, root, root, r, k)
  BY <1>1, <1>2, DeleteInOrder
<1>4. Cut(heap, g, root, lv, root)
  BY <1>2, <1>3 DEF Shrunk
<1>5. Graded(g, root) /\ Erased(heap, g, k, found)
  BY <1>2, <1>3 DEF DelWell
<1>6. Searchable(t.heap, t.root) /\ SameEntries(g, t.heap)
  BY <1>1, <1>2, <1>4, <1>5, ShrunkRootInOrder
<1>7. Erased(heap, t.heap, k, found)
  BY <1>5, <1>6, ErasedThrough
<1>8. \/ UNCHANGED <<heap, root, done>>
      \/ heap' = t.heap /\ root' = t.root /\ done' = [key |-> k, val |-> Absent, found |-> found]
  BY <1>2 DEF Delete
<1> QED  BY <1>6, <1>7, <1>8 DEF DeleteDoes

-----------------------------------------------------------------------------
(* What the steps do *)

LEMMA KeysBetween == \E a, b \in Int : a < b /\ \A k \in Keys : a <= k /\ k < b
<1>1. CASE Keys = {}
  <2>1. 0 \in Int /\ 1 \in Int /\ 0 < 1
    OBVIOUS
  <2> QED  BY <1>1, <2>1
<1>2. CASE Keys # {}
  <2>1. Keys \in SUBSET Int /\ IsFiniteSet(Keys)
    OBVIOUS
  <2>2. PICK u \in Keys : \A y \in Keys : u >= y
    BY <1>2, <2>1, UpperBoundExists
  <2>3. PICK l \in Keys : \A y \in Keys : l <= y
    BY <1>2, <2>1, MinProperties
  <2>4. u \in Int /\ l \in Int /\ l <= u
    BY <2>1, <2>2, <2>3
  <2>5. PICK b \in Int : b = u + 1
    BY <2>4
  <2>6. l < b
    BY <2>4, <2>5
  <2>7. \A k \in Keys : l <= k /\ k < b
    <3> SUFFICES ASSUME NEW k \in Keys PROVE l <= k /\ k < b
      OBVIOUS
    <3>1. k \in Int /\ l <= k /\ u >= k
      BY <2>1, <2>2, <2>3
    <3> QED  BY <2>4, <2>5, <3>1
  <2> QED  BY <2>4, <2>5, <2>6, <2>7
<1> QED  BY <1>1, <1>2

LEMMA InitSearchable ==
    ASSUME Init
    PROVE  Searchable(heap, root) /\ \A a, b : ~Has(heap, a, b)
<1>1. PICK lv : Tree(heap, root, lv)
  BY InitIsTree DEF TreeInv
<1>2. DOMAIN heap = {root} /\ heap[root] = NewNode(TRUE)
  BY Zenon DEF Init
<1>3. /\ heap[root].leaf = TRUE /\ heap[root].keys = <<>> /\ heap[root].next = Null
      /\ Len(heap[root].keys) = 0
  BY <1>2 DEF NewNode
<1>4. PICK a, b \in Int : a < b /\ \A k \in Keys : a <= k /\ k < b
  BY KeysBetween
<1>5. PICK lo, hi : lo = [n \in {root} |-> a] /\ hi = [n \in {root} |-> b]
  OBVIOUS
<1>6. lo \in [DOMAIN heap -> Int] /\ hi \in [DOMAIN heap -> Int] /\ lo[root] = a /\ hi[root] = b
  BY <1>2, <1>5
<1>7. Filed(heap, lo, hi, root)
  BY <1>3, <1>4, <1>6 DEF Filed, Ascends
<1>8. Chained(heap, lo, hi, hi[root], root)
  BY <1>3 DEF Chained
<1>9. Sorted(heap, root, lo, hi)
  <2>1. \A n \in DOMAIN heap : n = root
    BY <1>2
  <2>2. root \in DOMAIN heap
    BY <1>2
  <2>3. \A n \in DOMAIN heap : lo[root] <= lo[n] /\ hi[n] <= hi[root]
    BY <1>4, <1>6, <2>1
  <2>4. \A k \in Keys : lo[root] <= k /\ k < hi[root]
    BY <1>4, <1>6
  <2> QED  BY <1>3, <1>6, <1>7, <1>8, <2>1, <2>2, <2>3, <2>4, Zenon DEF Sorted
<1>10. ASSUME NEW x, NEW y
       PROVE  ~Has(heap, x, y)
  <2>1. ~Lists(heap[root], x, y)
    <3>1. ~\E i \in 1 .. 0 : TRUE
      OBVIOUS
    <3> QED  BY <1>3, <3>1, Zenon DEF Lists
  <2> QED  BY <1>2, <2>1, Zenon DEF Has
<1> QED  BY <1>1, <1>9, <1>10, SearchableFrom

\* The inductive invariant: every key has its place in the one tree there is.
SearchInv == degree \in Degrees /\ Searchable(heap, root)

\* What a step does to the entries.
Stepped ==
    \/ UNCHANGED <<heap, root, done>>
    \/ \E k \in Keys, v \in Values :
        PutTo(heap, heap', k, v) /\ done' = [key |-> k, val |-> v, found |-> FALSE]
    \/ \E k \in Keys : \E found :
        Erased(heap, heap', k, found) /\ done' = [key |-> k, val |-> Absent, found |-> found]

LEMMA NextSearchable ==
    ASSUME SearchInv, [Next]_vars
    PROVE  SearchInv' /\ Stepped
<1>1. degree \in Degrees /\ degree \in Int /\ Searchable(heap, root)
  BY BPTreeAssumption DEF SearchInv
<1>2. degree' = degree
  BY DEF Next, vars
<1>3. Searchable(heap', root') /\ Stepped
  <2>1. ASSUME NEW k \in KeysFor(degree), NEW v \in ValuesOf(k), Put(k, v)
        PROVE  Searchable(heap', root') /\ Stepped
    <3>1. k \in Keys
      BY <1>1 DEF Keys
    <3>2. v \in Values
      BY <3>1 DEF Values
    <3>3. Searchable(heap', root') /\ PutTo(heap, heap', k, v)
      BY <1>1, <2>1, <3>1, <3>2, PutKeepsOrder
    <3>4. done' = [key |-> k, val |-> v, found |-> FALSE]
      BY <2>1 DEF Put
    <3> QED  BY <3>1, <3>2, <3>3, <3>4, Zenon DEF Stepped
  <2>2. ASSUME NEW k \in KeysFor(degree), Delete(k)
        PROVE  Searchable(heap', root') /\ Stepped
    <3>1. k \in Keys
      BY <1>1 DEF Keys
    <3>2. DeleteDoes(k)
      BY <1>1, <2>2, <3>1, DeleteKeepsOrder
    <3>3. CASE UNCHANGED <<heap, root, done>>
      BY <1>1, <3>3 DEF Stepped
    <3>4. CASE ~UNCHANGED <<heap, root, done>>
      BY <3>1, <3>2, <3>4, Zenon DEF DeleteDoes, Stepped
    <3> QED  BY <3>3, <3>4
  <2>3. CASE UNCHANGED vars
    BY <1>1, <2>3 DEF vars, Stepped
  <2> QED  BY <2>1, <2>2, <2>3 DEF Next
<1>4. ASSUME NEW lw, NEW l, NEW u, Tree(heap', root', lw), Plain(heap', root', lw, l, u)
      PROVE  (Tree(heap, root, lw) /\ Plain(heap, root, lw, l, u))'
  BY <1>2, <1>4 DEF Tree, Balance, Counted, Few, Enough, MinKeys, Degree
<1>5. SearchInv'
  <2>1. PICK lw, l, u : Tree(heap', root', lw) /\ Plain(heap', root', lw, l, u)
    BY <1>3 DEF Searchable
  <2> QED  BY <1>1, <1>2, <1>4, <2>1 DEF SearchInv, Searchable
<1> QED  BY <1>3, <1>5

LEMMA AlwaysSearchable == Spec => [](SearchInv)
<1>1. Init => SearchInv
  BY InitSearchable DEF Init, SearchInv
<1>2. SearchInv /\ [Next]_vars => SearchInv'
  BY NextSearchable
<1> QED  BY <1>1, <1>2, PTL DEF Spec

Recorded ==
    /\ done # <<>> => done.key \in Keys /\ done.val \in Values \cup {Absent}
    /\ fate \in {"sound", "stale", "dead"}

LEMMA NextRecorded ==
    ASSUME SearchInv, Recorded, [Next]_vars
    PROVE  Recorded'
<1>1. done' # <<>> => done'.key \in Keys /\ done'.val \in Values \cup {Absent}
  <2>1. Stepped
    BY NextSearchable
  <2>2. CASE done' = done
    BY <2>2 DEF Recorded
  <2>3. ASSUME NEW k \in Keys, NEW v \in Values \cup {Absent}, NEW found,
               done' = [key |-> k, val |-> v, found |-> found]
        PROVE  done'.key \in Keys /\ done'.val \in Values \cup {Absent}
    BY <2>3
  <2> QED  BY <2>1, <2>2, <2>3 DEF Stepped
<1>2. fate' \in {"sound", "stale", "dead"}
  <2>1. ASSUME NEW k, NEW v, Put(k, v) PROVE fate' = "sound"
    BY <2>1 DEF Put
  <2>2. ASSUME NEW k, Delete(k) PROVE fate' \in {"sound", "stale", "dead"}
    BY <2>2 DEF Delete
  <2>3. CASE UNCHANGED vars
    BY <2>3 DEF vars, Recorded
  <2> QED  BY <2>1, <2>2, <2>3 DEF Next
<1> QED  BY <1>1, <1>2 DEF Recorded

LEMMA SearchableTyped ==
    ASSUME SearchInv, Recorded
    PROVE  TypeOK
<1>1. PICK lv, lo, hi : Tree(heap, root, lv) /\ Plain(heap, root, lv, lo, hi)
  BY DEF SearchInv, Searchable
<1>2. Typed(heap) /\ Forest(heap, {root}, lv) /\ root \in DOMAIN heap /\ heap[root].parent = Null
  BY <1>1, PlainIs DEF Tree
<1>3. ASSUME NEW n \in DOMAIN heap
      PROVE  /\ heap[n].keys \in Seq(Keys)
             /\ heap[n].leaf => heap[n].items \in Seq(Values)
             /\ ~heap[n].leaf => heap[n].items \in Seq(DOMAIN heap)
             /\ {heap[n].next, heap[n].parent} \subseteq DOMAIN heap \cup {Null}
  <2>1. heap[n].keys \in Seq(Keys) /\ (heap[n].leaf => heap[n].items \in Seq(Values))
    BY <1>2 DEF Typed, IsNode
  <2>2. ~heap[n].leaf => heap[n].items \in Seq(DOMAIN heap)
    BY <1>2, BroodIs
  <2>3. heap[n].parent \in DOMAIN heap \cup {Null}
    BY <1>2, ParentOf
  <2>4. heap[n].next \in DOMAIN heap \cup {Null}
    <3>1. CASE heap[n].leaf
      <4>1. Chained(heap, lo, hi, hi[root], n)
        BY <1>1, <3>1, PlainLeaf
      <4> QED  BY <4>1 DEF Chained
    <3>2. CASE ~heap[n].leaf
      <4>1. \E c \in Nat : Cuts(heap, lo, hi, n, heap[n].items, heap[n].keys, c)
        BY <1>1, <3>2, PlainInternal
      <4> QED  BY <4>1 DEF Cuts
    <3> QED  BY <3>1, <3>2
  <2> QED  BY <2>1, <2>2, <2>3, <2>4
<1> QED  BY <1>2, <1>3 DEF TypeOK, Recorded

\* Through all splits, borrowings and merges the pointers of every node are null or
\* lead to nodes that are allocated, leaves hold values and internal nodes nodes.
THEOREM StaysTyped == Spec => []TypeOK
<1>1. Init => Recorded
  BY DEF Init, Recorded
<1>2. SearchInv /\ Recorded /\ [Next]_vars => Recorded'
  BY NextRecorded
<1>3. SearchInv /\ Recorded => TypeOK
  BY SearchableTyped
<1> QED  BY <1>1, <1>2, <1>3, AlwaysSearchable, PTL DEF Spec

-----------------------------------------------------------------------------
(* The map *)

\* A key is in the tree once.
LEMMA OneEntry ==
    ASSUME NEW h, NEW rt, NEW lv, NEW lo, NEW hi, Plain(h, rt, lv, lo, hi), NEW k,
           NEW b, Has(h, k, b), NEW d, Has(h, k, d)
    PROVE  b = d
<1>1. PICK m \in DOMAIN h : h[m].leaf /\ Lists(h[m], k, b)
  BY DEF Has
<1>2. PICK n \in DOMAIN h : h[n].leaf /\ Lists(h[n], k, d)
  BY DEF Has
<1>3. /\ h[m].keys \in Seq(Keys) /\ Filed(h, lo, hi, m)
      /\ h[n].keys \in Seq(Keys) /\ Filed(h, lo, hi, n)
  BY <1>1, <1>2, PlainLeaf
<1>4. PICK i \in 1 .. Len(h[m].keys) : h[m].keys[i] = k /\ h[m].items[i] = b
  BY <1>1 DEF Lists
<1>5. PICK j \in 1 .. Len(h[n].keys) : h[n].keys[j] = k /\ h[n].items[j] = d
  BY <1>2 DEF Lists
<1>6. k \in Int /\ lo[m] <= k /\ k < hi[m] /\ lo[n] <= k /\ k < hi[n]
  <2>1. k \in Int
    BY <1>3, <1>4, KeysOf
  <2> QED  BY <1>3, <1>4, <1>5, <2>1 DEF Filed
<1>7. m = n
  <2>1. Ordered(h, rt, lv, lo, hi, Null, rt)
    BY DEF Plain
  <2> QED  BY <1>1, <1>2, <1>6, <2>1, LeafKnown
<1>8. i = j
  <2>1. h[m].keys \in Seq(Int) /\ Ascends(h[m].keys)
    BY <1>3, KeysOf DEF Filed
  <2> QED  BY <1>4, <1>5, <1>7, <2>1, AscendsOnce
<1> QED  BY <1>4, <1>5, <1>7, <1>8

\* m is the map that the entries of h make up.
MapIs(h, m) ==
    /\ m = [k \in Keys |-> m[k]]
    /\ \A k \in Keys : /\ \A b : Has(h, k, b) => m[k] = b
                       /\ (\A b : ~Has(h, k, b)) => m[k] = Absent

LEMMA HasIs ==
    ASSUME NEW h, Typed(h), \A n \in DOMAIN h : Counted(h, n), NEW a, NEW b, Has(h, a, b)
    PROVE  a \in Keys /\ b \in Values /\ b # Absent
<1>1. PICK m \in DOMAIN h : h[m].leaf /\ Lists(h[m], a, b)
  BY DEF Has
<1>2. h[m].keys \in Seq(Keys) /\ h[m].items \in Seq(Values)
  BY <1>1 DEF Typed, IsNode
<1>3. Len(h[m].items) = Len(h[m].keys)
  BY <1>1 DEF Counted
<1>4. PICK i \in 1 .. Len(h[m].keys) : h[m].keys[i] = a /\ h[m].items[i] = b
  BY <1>1 DEF Lists
<1>5. a \in Keys
  BY <1>2, <1>4
<1>6. i \in 1 .. Len(h[m].items)
  BY <1>3, <1>4
<1>7. b \in Values
  BY <1>2, <1>4, <1>6
<1> QED  BY <1>5, <1>7

LEMMA PairsAre ==
    ASSUME NEW n \in DOMAIN heap, heap[n].keys \in Seq(Keys), NEW e
    PROVE  e \in ToSet(Pairs(n)) <=> \E a, b : Lists(heap[n], a, b) /\ e = <<a, b>>
<1>1. PICK d \in Nat : d = Len(heap[n].keys) /\ DOMAIN heap[n].keys = 1 .. d
  OBVIOUS
<1>2. Pairs(n) = [i \in 1 .. d |-> <<heap[n].keys[i], heap[n].items[i]>>]
  BY <1>1 DEF Pairs
<1>3. e \in ToSet(Pairs(n)) <=> \E i \in 1 .. d : e = <<heap[n].keys[i], heap[n].items[i]>>
  BY <1>2 DEF ToSet
<1> QED  BY <1>1, <1>3 DEF Lists

LEMMA StoredAre ==
    ASSUME Typed(heap), NEW e
    PROVE  e \in Stored <=> \E a, b : Has(heap, a, b) /\ e = <<a, b>>
<1>1. e \in Stored <=> \E n \in DOMAIN heap : heap[n].leaf /\ e \in ToSet(Pairs(n))
  BY DEF Stored
<1>2. ASSUME NEW n \in DOMAIN heap
      PROVE  e \in ToSet(Pairs(n)) <=> \E a, b : Lists(heap[n], a, b) /\ e = <<a, b>>
  <2>1. heap[n].keys \in Seq(Keys)
    BY DEF Typed, IsNode
  <2> QED  BY <2>1, PairsAre
<1> QED  BY <1>1, <1>2, Zenon DEF Has

LEMMA ContentsAre ==
    ASSUME SearchInv
    PROVE  MapIs(heap, Contents)
<1>1. PICK lv, lo, hi : Tree(heap, root, lv) /\ Plain(heap, root, lv, lo, hi)
  BY DEF SearchInv, Searchable
<1>2. Typed(heap)
  BY <1>1 DEF Tree
<1>3. PICK S : S = Stored /\ \A e : e \in S <=> \E a, b : Has(heap, a, b) /\ e = <<a, b>>
  BY <1>2, StoredAre
<1> DEFINE Of(k) == {e \in S : e[1] = k}
<1>4. Contents = [k \in Keys |-> IF Of(k) = {} THEN Absent ELSE (CHOOSE e \in Of(k) : TRUE)[2]]
  BY <1>3 DEF Contents
<1>5. ASSUME NEW k \in Keys, NEW b, Has(heap, k, b)
      PROVE  Contents[k] = b
  <2>1. Of(k) # {} /\ \A e \in Of(k) : e[2] = b
    <3>1. <<k, b>> \in Of(k)
      BY <1>3, <1>5
    <3>2. ASSUME NEW e \in Of(k) PROVE e[2] = b
      <4>1. PICK x, y : Has(heap, x, y) /\ e = <<x, y>>
        BY <1>3
      <4>2. x = k
        BY <4>1
      <4> QED  BY <1>1, <1>5, <4>1, <4>2, OneEntry
    <3> QED  BY <3>1, <3>2
  <2> HIDE DEF Of
  <2>2. (CHOOSE e \in Of(k) : TRUE) \in Of(k)
    BY <2>1
  <2> QED  BY <1>4, <2>1, <2>2
<1>6. ASSUME NEW k \in Keys, \A b : ~Has(heap, k, b)
      PROVE  Contents[k] = Absent
  <2>1. Of(k) = {}
    <3> SUFFICES ASSUME NEW e \in Of(k) PROVE FALSE
      OBVIOUS
    <3>1. PICK x, y : Has(heap, x, y) /\ e = <<x, y>>
      BY <1>3
    <3>2. x = k
      BY <3>1
    <3> QED  BY <1>6, <3>1, <3>2
  <2> HIDE DEF Of
  <2> QED  BY <1>4, <2>1
<1>7. Contents = [k \in Keys |-> Contents[k]]
  <2> HIDE DEF Of
  <2> QED  BY <1>4
<1> QED  BY <1>5, <1>6, <1>7 DEF MapIs

LEMMA PutMaps ==
    ASSUME NEW h, NEW g, NEW m, NEW w, MapIs(h, m), MapIs(g, w),
           NEW k \in Keys, NEW v, PutTo(h, g, k, v)
    PROVE  w = [m EXCEPT ![k] = v]
<1>1. w[k] = v
  BY DEF MapIs, PutTo
<1>2. ASSUME NEW a \in Keys, a # k
      PROVE  w[a] = m[a]
  <2>1. \A b : Has(g, a, b) <=> Has(h, a, b)
    BY <1>2 DEF PutTo
  <2>2. CASE \E b : Has(h, a, b)
    BY <2>1, <2>2 DEF MapIs
  <2>3. CASE \A b : ~Has(h, a, b)
    BY <2>1, <2>3 DEF MapIs
  <2> QED  BY <2>2, <2>3
<1>3. m = [a \in Keys |-> m[a]] /\ w = [a \in Keys |-> w[a]]
  BY DEF MapIs
<1> QED  BY <1>1, <1>2, <1>3

LEMMA ErasedMaps ==
    ASSUME NEW h, NEW g, NEW m, NEW w, MapIs(h, m), MapIs(g, w),
           NEW k \in Keys, NEW found, Erased(h, g, k, found), \A b : Has(h, k, b) => b # Absent
    PROVE  w = [m EXCEPT ![k] = Absent] /\ found = (m[k] # Absent)
<1>1. w[k] = Absent
  BY DEF MapIs, Erased
<1>2. ASSUME NEW a \in Keys, a # k
      PROVE  w[a] = m[a]
  <2>1. \A b : Has(g, a, b) <=> Has(h, a, b)
    BY <1>2 DEF Erased
  <2>2. CASE \E b : Has(h, a, b)
    BY <2>1, <2>2 DEF MapIs
  <2>3. CASE \A b : ~Has(h, a, b)
    BY <2>1, <2>3 DEF MapIs
  <2> QED  BY <2>2, <2>3
<1>3. m = [a \in Keys |-> m[a]] /\ w = [a \in Keys |-> w[a]]
  BY DEF MapIs
<1>4. w = [m EXCEPT ![k] = Absent]
  BY <1>1, <1>2, <1>3
<1>5. found <=> m[k] # Absent
  <2>1. CASE \E b : Has(h, k, b)
    BY <2>1 DEF MapIs, Erased
  <2>2. CASE \A b : ~Has(h, k, b)
    BY <2>2 DEF MapIs, Erased
  <2> QED  BY <2>1, <2>2
<1>6. found = (m[k] # Absent)
  BY <1>5, Zenon DEF Erased
<1> QED  BY <1>4, <1>6

LEMMA InitIsMap ==
    ASSUME Init, MapIs(heap, Contents)
    PROVE  OM!Init
<1>1. \A a, b : ~Has(heap, a, b)
  BY InitSearchable
<1>2. \A k \in Keys : Contents[k] = Absent
  BY <1>1 DEF MapIs
<1>3. Contents = [k \in Keys |-> Contents[k]]
  BY DEF MapIs
<1>4. Contents = [k \in Keys |-> Absent]
  BY <1>2, <1>3
<1> QED  BY <1>4 DEF OM!Init, Init

LEMMA NextIsMap ==
    ASSUME SearchInv, [Next]_vars, MapIs(heap, Contents), MapIs(heap', Contents')
    PROVE  [OM!Next]_(OM!vars)
<1>1. Stepped
  BY NextSearchable
<1>2. CASE UNCHANGED <<heap, root, done>>
  <2>1. Contents' = Contents
    BY <1>2 DEF Contents, Stored, Pairs
  <2> QED  BY <1>2, <2>1 DEF OM!vars
<1>3. ASSUME NEW k \in Keys, NEW v \in Values, PutTo(heap, heap', k, v),
             done' = [key |-> k, val |-> v, found |-> FALSE]
      PROVE  OM!Next
  <2>1. Contents' = [Contents EXCEPT ![k] = v]
    BY <1>3, PutMaps
  <2>2. OM!Put(k, v)
    BY <1>3, <2>1 DEF OM!Put, OM!Returned
  <2> QED  BY <2>2 DEF OM!Next
<1>4. ASSUME NEW k \in Keys, NEW found, Erased(heap, heap', k, found),
             done' = [key |-> k, val |-> Absent, found |-> found]
      PROVE  OM!Next
  <2>1. PICK lv : Tree(heap, root, lv)
    BY DEF SearchInv, Searchable
  <2>2. Typed(heap) /\ \A n \in DOMAIN heap : Counted(heap, n)
    BY <2>1 DEF Tree, Balance
  <2>3. \A b : Has(heap, k, b) => b # Absent
    BY <2>2, HasIs
  <2>4. Contents' = [Contents EXCEPT ![k] = Absent] /\ found = (Contents[k] # Absent)
    BY <1>4, <2>3, ErasedMaps
  <2>5. OM!Delete(k)
    <3>1. found = (TRUE /\ Contents[k] # Absent)
      BY <2>4
    <3>2. done' = [key |-> k, val |-> Absent, found |-> (TRUE /\ Contents[k] # Absent)]
      BY <1>4, <3>1
    <3> QED  BY <2>4, <3>2 DEF OM!Delete, OM!Returned
  <2> QED  BY <2>5 DEF OM!Next
<1> QED  BY <1>1, <1>2, <1>3, <1>4 DEF Stepped

\* The tree is a map: a Put or a Delete changes the entry of its key and no other,
\* however nodes split, lend and merge, and Delete says whether there was one.
THEOREM TreeIsOrderedMap == Spec => ImplementsOrderedMap
<1>1. SearchInv => MapIs(heap, Contents)
  BY ContentsAre
<1>2. Init /\ MapIs(heap, Contents) => OM!Init
  BY InitIsMap
<1>3. SearchInv /\ [Next]_vars /\ MapIs(heap, Contents) /\ MapIs(heap, Contents)'
        => [OM!Next]_(OM!vars)
  BY NextIsMap
<1> QED  BY <1>1, <1>2, <1>3, AlwaysSearchable, PTL DEF Spec, ImplementsOrderedMap, OM!Spec

-----------------------------------------------------------------------------
(* Searches *)

IsFind(f, h, k, S) ==
    f = [n \in S |-> IF h[n].leaf THEN n ELSE f[h[n].items[ChildIndex(h[n], k)]]]

LEMMA FindStep ==
    ASSUME NEW h, NEW R, NEW lv, Typed(h), Forest(h, R, lv), NEW k \in Keys,
           \A n \in DOMAIN h : Counted(h, n),
           NEW l \in Nat, NEW f, IsFind(f, h, k, Under(h, lv, l))
    PROVE  \E g : IsFind(g, h, k, Under(h, lv, l + 1))
<1> DEFINE Body(m, e) == IF h[m].leaf THEN m ELSE e[h[m].items[ChildIndex(h[m], k)]]
           S == Under(h, lv, l)
           T == Under(h, lv, l + 1)
           g == [m \in T |-> Body(m, f)]
<1>1. f = [m \in S |-> Body(m, f)]
  BY DEF IsFind
<1>2. ASSUME NEW m \in T
      PROVE  Body(m, g) = Body(m, f)
  <2>1. CASE h[m].leaf
    BY <2>1
  <2>2. CASE ~h[m].leaf
    <3>1. PICK i, c : i = ChildIndex(h[m], k) /\ c = h[m].items[i]
      OBVIOUS
    <3>2. c \in S /\ c \in T
      <4>1. m \in DOMAIN h /\ lv[m] < l + 1
        BY DEF Under
      <4>2. c \in DOMAIN h /\ lv[c] + 1 = lv[m] /\ lv[c] \in Nat /\ lv[m] \in Nat
        <5>1. Counted(h, m)
          BY <4>1
        <5> HIDE DEF Body, S, T, g
        <5> QED  BY <2>2, <3>1, <4>1, <5>1, KidFor
      <4> QED  BY <4>1, <4>2 DEF Under
    <3>3. f[c] = Body(c, f)
      <4> HIDE DEF Body, S
      <4> QED  BY <1>1, <3>2
    <3>4. g[c] = Body(c, f)
      <4> HIDE DEF Body, T
      <4> QED  BY <3>2
    <3> HIDE DEF g, S, T
    <3> QED  BY <2>2, <3>1, <3>3, <3>4
  <2> QED  BY <2>1, <2>2, Zenon
<1>3. g = [m \in T |-> Body(m, g)]
  <2> HIDE DEF Body, T
  <2> QED  BY <1>2
<1>4. IsFind(g, h, k, T)
  <2> HIDE DEF g, T
  <2> QED  BY <1>3 DEF IsFind
<1> QED  BY <1>4

LEMMA FindExists ==
    ASSUME NEW h, NEW R, NEW lv, Typed(h), Forest(h, R, lv), NEW k \in Keys,
           \A n \in DOMAIN h : Counted(h, n), NEW l \in Nat
    PROVE  \E f : IsFind(f, h, k, Under(h, lv, l))
<1> DEFINE Bad == {i \in Nat : ~\E f : IsFind(f, h, k, Under(h, lv, i))}
<1> SUFFICES ASSUME Bad # {} PROVE FALSE
  OBVIOUS
<1>1. PICK i \in Bad : \A j \in Bad : i <= j
  <2>1. Bad \in SUBSET Nat
    OBVIOUS
  <2> HIDE DEF Bad
  <2> QED  BY <2>1, LessThanIsWellFounded
<1>2. i \in Nat /\ ~\E f : IsFind(f, h, k, Under(h, lv, i))
  OBVIOUS
<1>3. i # 0
  <2> SUFFICES ASSUME i = 0 PROVE FALSE
    OBVIOUS
  <2>1. Under(h, lv, 0) = {}
    BY DEF Under, Forest
  <2> DEFINE none == [m \in {} |-> 0]
  <2>2. none = [n \in {} |-> IF h[n].leaf THEN n ELSE none[h[n].items[ChildIndex(h[n], k)]]]
    OBVIOUS
  <2>3. IsFind(none, h, k, {})
    <3> HIDE DEF none
    <3> QED  BY <2>2 DEF IsFind
  <2> QED  BY <1>2, <2>1, <2>3, Zenon
<1>4. PICK j \in Nat : i = j + 1
  <2>1. i - 1 \in Nat /\ i = (i - 1) + 1
    BY <1>2, <1>3
  <2> QED  BY <2>1
<1>5. j \notin Bad
  BY <1>1, <1>4
<1>6. \E f : IsFind(f, h, k, Under(h, lv, j))
  BY <1>5
<1> HIDE DEF Bad
<1> QED  BY <1>2, <1>4, <1>6, FindStep

\* Leaf n is where key k belongs.
Home(lo, hi, n, k) ==
    n \in DOMAIN heap /\ heap[n].leaf = TRUE /\ lo[n] <= k /\ k < hi[n]

LEMMA FindLeafIs ==
    ASSUME NEW lv, Tree(heap, root, lv), NEW lo, NEW hi, Plain(heap, root, lv, lo, hi),
           NEW k \in Keys
    PROVE  Home(lo, hi, FindLeaf(k), k)
<1>1. /\ Typed(heap) /\ Forest(heap, {root}, lv) /\ Balance(heap, root, {})
      /\ root \in DOMAIN heap /\ \A n \in DOMAIN heap : Counted(heap, n)
  BY Zenon DEF Tree, Forest, Balance
<1>2. PICK top \in Nat : DOMAIN heap = Under(heap, lv, top)
  <2>1. IsFiniteSet(DOMAIN heap) /\ DOMAIN heap # {}
    BY <1>1 DEF Typed
  <2>2. PICK l \in Nat : \A m \in DOMAIN heap : lv[m] <= l
    BY <1>1, <2>1, LevelsBounded
  <2>3. \A m \in DOMAIN heap : lv[m] < l + 1
    BY <1>1, <2>2 DEF Forest
  <2>4. DOMAIN heap = Under(heap, lv, l + 1)
    BY <2>3 DEF Under
  <2>5. l + 1 \in Nat
    OBVIOUS
  <2> QED  BY <2>4, <2>5
<1>3. PICK f : IsFind(f, heap, k, DOMAIN heap) /\ FindLeaf(k) = f[root]
  <2> DEFINE g == CHOOSE f : IsFind(f, heap, k, DOMAIN heap)
  <2>1. IsFind(g, heap, k, DOMAIN heap)
    BY <1>1, <1>2, FindExists
  <2>2. FindLeaf(k) = g[root]
    BY DEF FindLeaf, IsFind
  <2> HIDE DEF g
  <2> QED  BY <2>1, <2>2
<1>4. \A n \in DOMAIN heap :
        f[n] = IF heap[n].leaf THEN n ELSE f[heap[n].items[ChildIndex(heap[n], k)]]
  <2>1. f = [n \in DOMAIN heap |->
               IF heap[n].leaf THEN n ELSE f[heap[n].items[ChildIndex(heap[n], k)]]]
    BY <1>3 DEF IsFind
  <2> QED  BY <2>1
<1> DEFINE Bad == {n \in DOMAIN heap : lo[n] <= k /\ k < hi[n] /\ ~Home(lo, hi, f[n], k)}
<1>5. Bad = {}
  <2> SUFFICES ASSUME Bad # {} PROVE FALSE
    OBVIOUS
  <2>1. PICK n \in Bad : \A x \in Bad : lv[n] <= lv[x]
    <3>1. Bad \subseteq DOMAIN heap
      OBVIOUS
    <3> HIDE DEF Bad
    <3> QED  BY <1>1, <3>1, Lowest
  <2>2. n \in DOMAIN heap /\ lo[n] <= k /\ k < hi[n] /\ ~Home(lo, hi, f[n], k)
    OBVIOUS
  <2>3. ~heap[n].leaf
    <3> SUFFICES ASSUME heap[n].leaf PROVE FALSE
      OBVIOUS
    <3>1. f[n] = n
      BY <1>4, <2>2
    <3>2. heap[n].leaf = TRUE
      BY <1>1, <2>2 DEF Typed, IsNode
    <3> QED  BY <2>2, <3>1, <3>2 DEF Home
  <2>4. PICK c : c = heap[n].items[ChildIndex(heap[n], k)]
    OBVIOUS
  <2>5. c \in DOMAIN heap /\ lv[c] + 1 = lv[n] /\ lv[c] \in Nat /\ lv[n] \in Nat
    BY <1>1, <2>2, <2>3, <2>4, KidFor
  <2>6. lo[c] <= k /\ k < hi[c]
    BY <2>2, <2>3, <2>4, KidInRange
  <2>7. Home(lo, hi, f[c], k)
    <3>1. ~(lv[n] <= lv[c])
      BY <2>5
    <3>2. c \notin Bad
      <4> HIDE DEF Bad
      <4> QED  BY <2>1, <3>1
    <3> QED  BY <2>5, <2>6, <3>2
  <2>8. f[n] = f[c]
    BY <1>4, <2>2, <2>3, <2>4
  <2> QED  BY <2>2, <2>7, <2>8
<1>6. lo[root] <= k /\ k < hi[root]
  BY PlainIs
<1>7. Home(lo, hi, f[root], k)
  BY <1>1, <1>5, <1>6
<1> QED  BY <1>3, <1>7

\* Get finds what there is for its key.
LEMMA GetFinds ==
    ASSUME NEW lv, Tree(heap, root, lv), NEW lo, NEW hi, Plain(heap, root, lv, lo, hi),
           NEW k \in Keys, NEW v
    PROVE  v \in ToSet(Get(k)) <=> Has(heap, k, v)
<1>1. PICK n : n = FindLeaf(k) /\ Home(lo, hi, n, k)
  BY FindLeafIs
<1>2. n \in DOMAIN heap /\ heap[n].leaf /\ lo[n] <= k /\ k < hi[n] /\ k \in Int
  BY <1>1 DEF Home
<1>3. Has(heap, k, v) <=> Lists(heap[n], k, v)
  BY <1>2, LeafEntries
<1>4. PICK ks, vs : ks = heap[n].keys /\ vs = heap[n].items
  OBVIOUS
<1>5. ks \in Seq(Keys) /\ ks \in Seq(Int) /\ Ascends(ks)
  <2>1. heap[n].keys \in Seq(Keys) /\ Filed(heap, lo, hi, n)
    BY <1>2, PlainLeaf
  <2> QED  BY <1>4, <2>1, KeysOf DEF Filed
<1>6. PICK c \in Nat : c = Len(ks) /\ DOMAIN ks = 1 .. c
  BY <1>5
<1>7. PICK at : /\ at = LowerBound(heap[n], k) /\ at \in 1 .. c + 1
                /\ \A j \in 1 .. at - 1 : ks[j] < k
                /\ at \in 1 .. c => ks[at] >= k
  <2>1. heap[n].keys \in Seq(Int)
    BY <1>4, <1>5
  <2> QED  BY <1>2, <1>4, <1>6, <2>1, LowerBoundIs
<1>8. CASE at \in 1 .. c /\ ks[at] = k
  <2>1. Get(k) = <<vs[at]>>
    BY <1>1, <1>4, <1>6, <1>7, <1>8 DEF Get
  <2>2. v \in ToSet(Get(k)) <=> v = vs[at]
    BY <2>1 DEF ToSet
  <2>3. \A i \in 1 .. c : ks[i] = k => i = at
    BY <1>5, <1>6, <1>8, AscendsOnce
  <2>4. Lists(heap[n], k, v) <=> v = vs[at]
    BY <1>4, <1>6, <1>8, <2>3 DEF Lists
  <2> QED  BY <1>3, <2>2, <2>4
<1>9. CASE ~(at \in 1 .. c /\ ks[at] = k)
  <2>1. Get(k) = <<>>
    BY <1>1, <1>4, <1>6, <1>7, <1>9 DEF Get
  <2>2. v \notin ToSet(Get(k))
    BY <2>1 DEF ToSet
  <2>3. ASSUME NEW i \in 1 .. c, ks[i] = k PROVE FALSE
    <3>1. \A j \in 1 .. c : ks[j] \in Int
      BY <1>5, <1>6
    <3>2. ~(i < at)
      <4> SUFFICES ASSUME i < at PROVE FALSE
        OBVIOUS
      <4>1. i \in 1 .. at - 1
        BY <1>7
      <4> QED  BY <1>2, <1>7, <2>3, <4>1
    <3>3. at \in 1 .. c /\ at # i
      BY <1>7, <1>9, <2>3, <3>2
    <3>4. ks[at] < ks[i] /\ ks[at] >= k
      BY <1>5, <1>6, <1>7, <3>2, <3>3 DEF Ascends
    <3> QED  BY <1>2, <2>3, <3>1, <3>3, <3>4
  <2>4. ~Lists(heap[n], k, v)
    BY <1>4, <1>6, <2>3 DEF Lists
  <2> QED  BY <1>3, <2>2, <2>4
<1> QED  BY <1>8, <1>9

\* The elements of s at p, .., q.
Stretch(s, p, q) == [j \in 1 .. q - p + 1 |-> s[p + j - 1]]

LEMMA PickedRange ==
    ASSUME NEW s, NEW p \in Nat \ {0}, NEW q \in Nat, p <= q + 1
    PROVE  Picked(s, p .. q) = Stretch(s, p, q)
<1>1. Cardinality(p .. q) = q - p + 1
  <2>1. p \in Int /\ q \in Int
    OBVIOUS
  <2>2. Cardinality(p .. q) = IF p > q THEN 0 ELSE q - p + 1
    BY <2>1, FS_Interval
  <2> QED  BY <2>2
<1>2. \A i \in p .. q : Cardinality({m \in p .. q : m <= i}) = i - p + 1
  <2> TAKE i \in p .. q
  <2>1. {m \in p .. q : m <= i} = p .. i
    OBVIOUS
  <2>2. p \in Int /\ i \in Int
    OBVIOUS
  <2>3. Cardinality(p .. i) = IF p > i THEN 0 ELSE i - p + 1
    BY <2>2, FS_Interval
  <2>4. Cardinality(p .. i) = i - p + 1
    BY <2>3
  <2> QED  BY <2>1, <2>4, Zenon
<1> DEFINE nth(j) == CHOOSE i \in p .. q : Cardinality({m \in p .. q : m <= i}) = j
<1>3. ASSUME NEW j \in 1 .. q - p + 1
      PROVE  nth(j) = p + j - 1
  <2> DEFINE P(i) == Cardinality({m \in p .. q : m <= i}) = j
  <2>1. \A i \in p .. q : P(i) <=> i - p + 1 = j
    BY <1>2
  <2>2. p + j - 1 \in p .. q /\ \A i \in p .. q : i - p + 1 = j <=> i = p + j - 1
    OBVIOUS
  <2>3. p + j - 1 \in p .. q /\ \A i \in p .. q : P(i) <=> i = p + j - 1
    BY <2>1, <2>2
  <2> HIDE DEF P
  <2>4. (CHOOSE i \in p .. q : P(i)) = p + j - 1
    BY <2>3
  <2> QED  BY <2>4 DEF P
<1>4. Picked(s, p .. q) = [j \in 1 .. q - p + 1 |-> s[nth(j)]]
  BY <1>1 DEF Picked
<1> HIDE DEF nth
<1> QED  BY <1>3, <1>4 DEF Stretch

LEMMA FunctionIsSeq ==
    ASSUME NEW S, NEW m \in Nat, NEW s \in [1 .. m -> S]
    PROVE  s \in Seq(S)
OBVIOUS

\* The indices between two bounds.
LEMMA RangeOf ==
    ASSUME NEW ks \in Seq(Int), Ascends(ks), NEW a \in Int, NEW b \in Int
    PROVE  \E p \in Nat \ {0}, q \in Nat :
              /\ p <= q + 1 /\ q <= Len(ks)
              /\ \A i \in 1 .. Len(ks) : i \in p .. q <=> ks[i] >= a /\ ks[i] <= b
<1>1. PICK c \in Nat : c = Len(ks)
  OBVIOUS
<1>2. \A i \in 1 .. c : ks[i] \in Int
  BY <1>1
<1>3. \A i, j \in 1 .. c : i < j => ks[i] < ks[j]
  BY <1>1 DEF Ascends
<1> DEFINE Over(x) == {i \in 1 .. c : ks[i] >= x}
<1>4. PICK p \in 1 .. c + 1 : /\ p \in 1 .. c => p \in Over(a)
                              /\ \A r \in 1 .. p - 1 : r \notin Over(a)
  <2> HIDE DEF Over
  <2>1. 1 \in 1 .. c + 1
    OBVIOUS
  <2> QED  BY <2>1, FirstPlace
<1> DEFINE Past == {i \in 1 .. c : ks[i] > b}
<1>5. PICK u \in p .. c + 1 : /\ u \in 1 .. c => u \in Past
                              /\ \A r \in p .. u - 1 : r \notin Past
  <2> HIDE DEF Past
  <2> QED  BY FirstPlace
<1>6. PICK q \in Nat : u = q + 1
  <2>1. u - 1 \in Nat /\ u = (u - 1) + 1
    BY <1>4, <1>5
  <2> QED  BY <2>1
<1>7. p <= q + 1 /\ q <= c /\ p \in Nat \ {0}
  BY <1>1, <1>4, <1>5, <1>6
<1>8. ASSUME NEW i \in 1 .. c
      PROVE  i \in p .. q <=> ks[i] >= a /\ ks[i] <= b
  <2>1. CASE i < p
    <3>1. ~(ks[i] >= a)
      BY <1>4, <2>1
    <3> QED  BY <2>1, <3>1
  <2>2. CASE p <= i /\ i <= q
    <3>1. p \in 1 .. c /\ ks[p] >= a
      BY <1>4, <1>7, <2>2
    <3>2. ks[i] >= ks[p]
      BY <1>2, <1>3, <2>2, <3>1
    <3>3. ~(ks[i] > b)
      BY <1>5, <1>6, <2>2
    <3> QED  BY <1>2, <2>2, <3>1, <3>2, <3>3
  <2>3. CASE i > q
    <3>1. u \in 1 .. c /\ ks[u] > b
      BY <1>5, <1>6, <2>3
    <3>2. u <= i
      BY <1>6, <2>3
    <3>3. ks[i] >= ks[u]
      BY <1>2, <1>3, <3>1, <3>2
    <3>4. ~(ks[i] <= b)
      BY <1>2, <3>1, <3>3
    <3> QED  BY <1>7, <2>3, <3>4
  <2> QED  BY <1>7, <2>1, <2>2, <2>3
<1> QED  BY <1>1, <1>7, <1>8

\* The keys of entries in order.
Climbs(s) == \A i, j \in 1 .. Len(s) : i < j => s[i][1] < s[j][1]

\* The entries of leaf n from a to b, in their order.
Scraped(s, n, a, b) ==
    /\ s \in Seq(Keys \X Values) /\ Climbs(s)
    /\ \A k, v : Holds(s, <<k, v>>) <=> Lists(heap[n], k, v) /\ a <= k /\ k <= b

LEMMA LeafScraped ==
    ASSUME NEW n \in DOMAIN heap, heap[n].keys \in Seq(Keys), heap[n].items \in Seq(Values),
           Len(heap[n].items) = Len(heap[n].keys), Ascends(heap[n].keys),
           NEW a \in Int, NEW b \in Int
    PROVE  Scraped(Picked(Pairs(n), InRange(n, a, b)), n, a, b)
<1>1. PICK ks, vs : ks = heap[n].keys /\ vs = heap[n].items
  OBVIOUS
<1>2. PICK c \in Nat : c = Len(ks) /\ DOMAIN ks = 1 .. c /\ c = Len(vs)
  BY <1>1
<1>3. ks \in Seq(Int) /\ \A i \in 1 .. c : ks[i] \in Keys /\ ks[i] \in Int
  BY <1>1, <1>2, KeysOf
<1>4. \A i \in 1 .. c : vs[i] \in Values
  BY <1>1, <1>2
<1>5. \A i, j \in 1 .. c : i < j => ks[i] < ks[j]
  BY <1>1, <1>2 DEF Ascends
<1>6. PICK p \in Nat \ {0}, q \in Nat :
        /\ p <= q + 1 /\ q <= c
        /\ \A i \in 1 .. c : i \in p .. q <=> ks[i] >= a /\ ks[i] <= b
  <2>1. ks \in Seq(Int) /\ Ascends(ks)
    BY <1>1, <1>3
  <2>2. \E p \in Nat \ {0}, q \in Nat :
              /\ p <= q + 1 /\ q <= Len(ks)
              /\ \A i \in 1 .. Len(ks) : i \in p .. q <=> ks[i] >= a /\ ks[i] <= b
    BY <2>1, RangeOf
  <2> QED  BY <1>2, <2>2
<1>7. InRange(n, a, b) = p .. q
  <2>1. InRange(n, a, b) = {i \in 1 .. c : ks[i] >= a /\ \A j \in 1 .. i : ks[j] <= b}
    BY <1>1, <1>2 DEF InRange
  <2>2. ASSUME NEW i \in 1 .. c
        PROVE  (ks[i] >= a /\ \A j \in 1 .. i : ks[j] <= b) <=> ks[i] >= a /\ ks[i] <= b
    <3>1. ASSUME ks[i] <= b, NEW j \in 1 .. i PROVE ks[j] <= b
      <4>1. j \in 1 .. c /\ (j = i \/ ks[j] < ks[i])
        BY <1>5
      <4> QED  BY <1>3, <3>1, <4>1
    <3> QED  BY <3>1
  <2>3. \A i \in p .. q : i \in 1 .. c
    BY <1>6
  <2> QED  BY <1>6, <2>1, <2>2, <2>3
<1>8. Pairs(n) = [i \in 1 .. c |-> <<ks[i], vs[i]>>]
  BY <1>1, <1>2 DEF Pairs
<1>9. PICK m \in Nat, s \in {Picked(Pairs(n), InRange(n, a, b))} :
        m = q - p + 1 /\ s = [j \in 1 .. m |-> Pairs(n)[p + j - 1]]
  <2>1. q - p + 1 \in Nat
    BY <1>6
  <2>0. PICK m \in Nat : m = q - p + 1
    BY <2>1
  <2>2. PICK t, u : t = Pairs(n) /\ m = q - p + 1 /\ u = Stretch(t, p, q)
    BY <2>0
  <2>3. Picked(t, p .. q) = u
    BY <1>6, <2>2, PickedRange
  <2>4. u = [j \in 1 .. m |-> t[p + j - 1]]
    BY <2>2 DEF Stretch
  <2>5. Picked(Pairs(n), InRange(n, a, b)) = u
    BY <1>7, <2>2, <2>3
  <2>6. u = [j \in 1 .. m |-> Pairs(n)[p + j - 1]]
    BY <2>2, <2>4
  <2> QED  BY <2>0, <2>5, <2>6, Zenon
<1>10. \A j \in 1 .. m : p + j - 1 \in p .. q /\ p + j - 1 \in 1 .. c
  BY <1>6, <1>9
<1>11. s = [j \in 1 .. m |-> <<ks[p + j - 1], vs[p + j - 1]>>]
  BY <1>8, <1>9, <1>10
<1>12. s \in Seq(Keys \X Values) /\ Len(s) = m
  <2>1. \A j \in 1 .. m : <<ks[p + j - 1], vs[p + j - 1]>> \in Keys \X Values
    BY <1>3, <1>4, <1>10
  <2>2. \A j \in 1 .. m : s[j] \in Keys \X Values
    BY <1>11, <2>1
  <2>3. s = [j \in 1 .. m |-> s[j]] /\ m \in Nat
    BY <1>11
  <2>4. s \in [1 .. m -> Keys \X Values]
    BY <2>2, <2>3
  <2> HIDE DEF Pairs
  <2>5. s \in Seq(Keys \X Values)
    BY <2>4, FunctionIsSeq
  <2> QED  BY <2>3, <2>5
<1>13. Climbs(s)
  <2> SUFFICES ASSUME NEW i \in 1 .. m, NEW j \in 1 .. m, i < j
               PROVE  s[i][1] < s[j][1]
    BY <1>12 DEF Climbs
  <2>1. s[i][1] = ks[p + i - 1] /\ s[j][1] = ks[p + j - 1]
    BY <1>11
  <2>2. p + i - 1 < p + j - 1
    OBVIOUS
  <2> QED  BY <1>5, <1>10, <2>1, <2>2
<1>14. ASSUME NEW k, NEW v
       PROVE  Holds(s, <<k, v>>) <=> Lists(heap[n], k, v) /\ a <= k /\ k <= b
  <2>1. ASSUME Holds(s, <<k, v>>)
        PROVE  Lists(heap[n], k, v) /\ a <= k /\ k <= b
    <3>1. PICK j \in 1 .. m : s[j] = <<k, v>>
      BY <1>12, <2>1 DEF Holds
    <3>2. PICK i \in 1 .. c : i = p + j - 1 /\ i \in p .. q
      BY <1>10
    <3>3. ks[i] = k /\ vs[i] = v
      BY <1>11, <3>1, <3>2
    <3>4. ks[i] >= a /\ ks[i] <= b
      BY <1>6, <3>2
    <3> QED  BY <1>1, <1>2, <1>3, <3>3, <3>4 DEF Lists
  <2>2. ASSUME Lists(heap[n], k, v), a <= k, k <= b
        PROVE  Holds(s, <<k, v>>)
    <3>1. PICK i \in 1 .. c : ks[i] = k /\ vs[i] = v
      BY <1>1, <1>2, <2>2 DEF Lists
    <3>2. ks[i] >= a /\ ks[i] <= b
      BY <1>3, <2>2, <3>1
    <3>3. i \in p .. q
      BY <1>6, <3>2
    <3>4. PICK j \in 1 .. m : p + j - 1 = i
      <4>1. i - p + 1 \in 1 .. m /\ p + (i - p + 1) - 1 = i
        BY <1>9, <3>3
      <4> QED  BY <4>1
    <3>5. s[j] = <<k, v>>
      BY <1>11, <3>1, <3>4
    <3> QED  BY <1>12, <3>5 DEF Holds
  <2> QED  BY <2>1, <2>2
<1> QED  BY <1>9, <1>12, <1>13, <1>14 DEF Scraped

-----------------------------------------------------------------------------
(* Scans go along the leaves; ranks fall from a node to the next *)

IsScan(f, a, b, S) ==
    f = [n \in S |->
            IF n = Null THEN <<>>
            ELSE Picked(Pairs(n), InRange(n, a, b))
                 \o IF \E i \in DOMAIN heap[n].keys : heap[n].keys[i] > b THEN <<>>
                    ELSE f[heap[n].next]]

RanksFall(rk) ==
    /\ rk \in [DOMAIN heap \cup {Null} -> Nat]
    /\ \A n \in DOMAIN heap : n # Null => heap[n].next \in DOMAIN rk /\ rk[heap[n].next] < rk[n]

Behind(rk, l) == {n \in DOMAIN rk : rk[n] < l}

LEMMA ScanStep ==
    ASSUME NEW rk, RanksFall(rk), NEW a, NEW b, NEW l \in Nat, NEW f,
           IsScan(f, a, b, Behind(rk, l))
    PROVE  \E g : IsScan(g, a, b, Behind(rk, l + 1))
<1> DEFINE Body(m, e) ==
             IF m = Null THEN <<>>
             ELSE Picked(Pairs(m), InRange(m, a, b))
                  \o IF \E i \in DOMAIN heap[m].keys : heap[m].keys[i] > b THEN <<>>
                     ELSE e[heap[m].next]
           S == Behind(rk, l)
           T == Behind(rk, l + 1)
           g == [m \in T |-> Body(m, f)]
<1>1. f = [m \in S |-> Body(m, f)]
  BY DEF IsScan
<1>2. ASSUME NEW m \in T
      PROVE  Body(m, g) = Body(m, f)
  <2>1. CASE m = Null
    BY <2>1, Zenon
  <2>2. CASE m # Null
    <3>1. PICK c : c = heap[m].next
      OBVIOUS
    <3>2. c \in S /\ c \in T
      <4>1. m \in DOMAIN rk /\ rk[m] < l + 1 /\ m \in DOMAIN heap
        BY <2>2 DEF Behind, RanksFall
      <4>2. c \in DOMAIN rk /\ rk[c] < rk[m] /\ rk[c] \in Nat /\ rk[m] \in Nat
        BY <2>2, <3>1, <4>1 DEF RanksFall
      <4> QED  BY <4>1, <4>2 DEF Behind
    <3>3. f[c] = Body(c, f)
      <4> HIDE DEF Body, S
      <4> QED  BY <1>1, <3>2
    <3>4. g[c] = Body(c, f)
      <4> HIDE DEF Body, T
      <4> QED  BY <3>2
    <3>5. g[heap[m].next] = f[heap[m].next]
      <4> HIDE DEF Body, T, g
      <4> QED  BY <3>1, <3>3, <3>4
    <3> HIDE DEF g, S, T
    <3> QED  BY <3>5, Zenon
  <2> QED  BY <2>1, <2>2, Zenon
<1>3. g = [m \in T |-> Body(m, g)]
  <2> HIDE DEF Body, T
  <2> QED  BY <1>2
<1>4. IsScan(g, a, b, T)
  <2> HIDE DEF g, T
  <2> QED  BY <1>3 DEF IsScan
<1> QED  BY <1>4

LEMMA ScanExists ==
    ASSUME NEW rk, RanksFall(rk), NEW a, NEW b, NEW l \in Nat
    PROVE  \E f : IsScan(f, a, b, Behind(rk, l))
<1> DEFINE Bad == {i \in Nat : ~\E f : IsScan(f, a, b, Behind(rk, i))}
<1> SUFFICES ASSUME Bad # {} PROVE FALSE
  OBVIOUS
<1>1. PICK i \in Bad : \A j \in Bad : i <= j
  <2>1. Bad \in SUBSET Nat
    OBVIOUS
  <2> HIDE DEF Bad
  <2> QED  BY <2>1, LessThanIsWellFounded
<1>2. i \in Nat /\ ~\E f : IsScan(f, a, b, Behind(rk, i))
  OBVIOUS
<1>3. i # 0
  <2> SUFFICES ASSUME i = 0 PROVE FALSE
    OBVIOUS
  <2>1. Behind(rk, 0) = {}
    BY DEF Behind, RanksFall
  <2>2. \E f : IsScan(f, a, b, {})
    <3> DEFINE none == [m \in {} |-> 0]
    <3>1. none = [n \in {} |->
            IF n = Null THEN <<>>
            ELSE Picked(Pairs(n), InRange(n, a, b))
                 \o IF \E j \in DOMAIN heap[n].keys : heap[n].keys[j] > b THEN <<>>
                    ELSE none[heap[n].next]]
      OBVIOUS
    <3>2. IsScan(none, a, b, {})
      <4> HIDE DEF none
      <4> QED  BY <3>1 DEF IsScan
    <3> QED  BY <3>2
  <2> QED  BY <1>2, <2>1, <2>2, Zenon
<1>4. PICK j \in Nat : i = j + 1
  <2>1. i - 1 \in Nat /\ i = (i - 1) + 1
    BY <1>2, <1>3
  <2> QED  BY <2>1
<1>5. j \notin Bad
  BY <1>1, <1>4
<1>6. \E f : IsScan(f, a, b, Behind(rk, j))
  BY <1>5
<1> HIDE DEF Bad
<1> QED  BY <1>2, <1>4, <1>6, ScanStep

\* The next leaf starts where leaf n ends; the last ends where the root does.
From(lo, hi, n) == IF n = Null THEN hi[root] ELSE lo[n]

Onward(lo, hi, n) ==
    LET m == heap[n].next
    IN  (m = Null \/ (m \in DOMAIN heap /\ heap[m].leaf)) /\ From(lo, hi, m) = hi[n]

LEMMA NextOf ==
    ASSUME NEW lv, NEW lo, NEW hi, Plain(heap, root, lv, lo, hi), NEW n \in DOMAIN heap
    PROVE  /\ n # Null
           /\ heap[n].leaf => Onward(lo, hi, n)
           /\ ~heap[n].leaf => heap[n].next = Null
<1>1. Null \notin DOMAIN heap /\ n # Null
  <2>1. Typed(heap)
    BY PlainIs
  <2> QED  BY <2>1 DEF Typed, Null
<1>2. ASSUME heap[n].leaf PROVE Onward(lo, hi, n)
  <2>1. Chained(heap, lo, hi, hi[root], n)
    BY <1>2, PlainLeaf
  <2>2. CASE hi[n] = hi[root]
    BY <2>1, <2>2 DEF Chained, Onward, From
  <2>3. CASE hi[n] # hi[root]
    <3>1. heap[n].next \in DOMAIN heap /\ heap[heap[n].next].leaf /\ lo[heap[n].next] = hi[n]
      BY <2>1, <2>3 DEF Chained
    <3>2. heap[n].next # Null
      BY <1>1, <3>1
    <3> QED  BY <3>1, <3>2 DEF Onward, From
  <2> QED  BY <2>2, <2>3
<1>3. ASSUME ~heap[n].leaf PROVE heap[n].next = Null
  <2>1. \E c \in Nat : Cuts(heap, lo, hi, n, heap[n].items, heap[n].keys, c)
    BY <1>3, PlainInternal
  <2> QED  BY <2>1 DEF Cuts
<1> QED  BY <1>1, <1>2, <1>3

\* What is left to the end of the last leaf from where a node starts.
LEMMA RanksAre ==
    ASSUME NEW lv, NEW lo, NEW hi, Plain(heap, root, lv, lo, hi)
    PROVE  \E rk : \E top \in Nat : RanksFall(rk) /\ DOMAIN heap \cup {Null} = Behind(rk, top)
<1>1. /\ \A m \in DOMAIN heap : /\ lo[m] \in Int /\ hi[m] \in Int /\ lo[m] < hi[m]
                                /\ lo[root] <= lo[m] /\ hi[m] <= hi[root]
      /\ root \in DOMAIN heap
  BY PlainIs, Zenon
<1>2. PICK x, y \in Int : x = lo[root] /\ y = hi[root] /\ x < y
  BY <1>1
<1> DEFINE D == DOMAIN heap \cup {Null}
           rk == [n \in D |-> IF n = Null THEN 0 ELSE y - lo[n]]
<1>3. ASSUME NEW n \in DOMAIN heap
      PROVE  /\ n # Null /\ rk[n] = y - lo[n] /\ rk[n] \in Nat /\ rk[n] <= y - x
             /\ heap[n].next \in D /\ rk[heap[n].next] < rk[n]
  <2>1. n # Null /\ (heap[n].leaf => Onward(lo, hi, n)) /\ (~heap[n].leaf => heap[n].next = Null)
    BY NextOf
  <2>2. lo[n] \in Int /\ hi[n] \in Int /\ lo[n] < hi[n] /\ x <= lo[n] /\ hi[n] <= y
    BY <1>1, <1>2
  <2>3. rk[n] = y - lo[n]
    BY <2>1
  <2>4. rk[n] \in Nat /\ rk[n] <= y - x /\ 0 < rk[n]
    BY <1>2, <2>2, <2>3
  <2>5. CASE heap[n].next = Null
    <3>1. rk[heap[n].next] = 0 /\ heap[n].next \in D
      BY <2>5
    <3> HIDE DEF rk, D
    <3> QED  BY <2>1, <2>3, <2>4, <3>1
  <2>6. CASE heap[n].next # Null
    <3>1. PICK c \in DOMAIN heap : c = heap[n].next /\ c # Null /\ lo[c] = hi[n]
      BY <2>1, <2>6 DEF Onward, From
    <3>2. rk[c] = y - hi[n] /\ c \in D
      BY <3>1
    <3>3. y - hi[n] < y - lo[n]
      BY <1>2, <2>2
    <3> HIDE DEF rk, D
    <3> QED  BY <2>1, <2>3, <2>4, <3>1, <3>2, <3>3
  <2> QED  BY <2>5, <2>6
<1>4. rk[Null] = 0 /\ Null \in D
  OBVIOUS
<1>5. DOMAIN rk = D /\ rk = [n \in D |-> rk[n]]
  OBVIOUS
<1>6. PICK top \in Nat : top = y - x + 1
  <2>1. y - x + 1 \in Nat
    BY <1>2
  <2> QED  BY <2>1
<1> HIDE DEF rk
<1>7. \A n \in D : rk[n] \in Nat /\ rk[n] < top
  BY <1>2, <1>3, <1>4, <1>6
<1>8. RanksFall(rk)
  BY <1>3, <1>5, <1>7 DEF RanksFall
<1>9. D = Behind(rk, top)
  BY <1>5, <1>7 DEF Behind
<1> QED  BY <1>8, <1>9

\* The scan, by what it does in a node.
LEMMA ScanIs ==
    ASSUME NEW lv, NEW lo, NEW hi, Plain(heap, root, lv, lo, hi), NEW a, NEW b
    PROVE  \E f : /\ IsScan(f, a, b, DOMAIN heap \cup {Null})
                  /\ RangeScan(a, b) = IF a > b THEN <<>> ELSE f[FindLeaf(a)]
<1> DEFINE g == CHOOSE f : IsScan(f, a, b, DOMAIN heap \cup {Null})
<1>1. IsScan(g, a, b, DOMAIN heap \cup {Null})
  <2>1. PICK rk : \E top \in Nat : RanksFall(rk) /\ DOMAIN heap \cup {Null} = Behind(rk, top)
    BY RanksAre
  <2>2. PICK top \in Nat : RanksFall(rk) /\ DOMAIN heap \cup {Null} = Behind(rk, top)
    BY <2>1
  <2>3. \E f : IsScan(f, a, b, Behind(rk, top))
    BY <2>2, ScanExists
  <2> QED  BY <2>2, <2>3
<1>2. RangeScan(a, b) = IF a > b THEN <<>> ELSE g[FindLeaf(a)]
  BY DEF RangeScan, IsScan
<1> HIDE DEF g
<1> QED  BY <1>1, <1>2

\* s has, in order, the entries of the tree from w and a on to b.
Scanned(s, a, b, w) ==
    /\ s \in Seq(Keys \X Values) /\ Climbs(s)
    /\ \A k, v : Holds(s, <<k, v>>) <=> Has(heap, k, v) /\ w <= k /\ a <= k /\ k <= b

\* The entries of a leaf are those of its range.
LEMMA LeafHas ==
    ASSUME NEW lv, NEW lo, NEW hi, Plain(heap, root, lv, lo, hi),
           NEW n \in DOMAIN heap, heap[n].leaf, NEW k, NEW v
    PROVE  Lists(heap[n], k, v) <=> k \in Keys /\ Has(heap, k, v) /\ lo[n] <= k /\ k < hi[n]
<1>1. Filed(heap, lo, hi, n) /\ heap[n].keys \in Seq(Keys)
  BY PlainLeaf
<1>2. ASSUME Lists(heap[n], k, v)
      PROVE  k \in Keys /\ Has(heap, k, v) /\ lo[n] <= k /\ k < hi[n]
  <2>1. PICK i \in 1 .. Len(heap[n].keys) : heap[n].keys[i] = k
    BY <1>2 DEF Lists
  <2>2. k \in Keys
    BY <1>1, <2>1, KeysOf
  <2>3. lo[n] <= k /\ k < hi[n]
    BY <1>1, <2>1 DEF Filed
  <2>4. Has(heap, k, v)
    BY <1>2 DEF Has
  <2> QED  BY <2>2, <2>3, <2>4
<1>3. ASSUME k \in Keys, Has(heap, k, v), lo[n] <= k, k < hi[n]
      PROVE  Lists(heap[n], k, v)
  <2>1. k \in Int
    BY <1>3
  <2> QED  BY <1>3, <2>1, LeafEntries
<1> QED  BY <1>2, <1>3

\* No entry is beyond the range of the root.
LEMMA NothingScanned ==
    ASSUME NEW lv, Tree(heap, root, lv), NEW lo, NEW hi, Plain(heap, root, lv, lo, hi),
           NEW a, NEW b
    PROVE  Scanned(<<>>, a, b, hi[root])
<1>1. Typed(heap) /\ \A n \in DOMAIN heap : Counted(heap, n)
  BY DEF Tree, Balance
<1>2. ASSUME NEW k, NEW v, Has(heap, k, v) PROVE ~(hi[root] <= k)
  <2>1. k \in Keys
    BY <1>1, <1>2, HasIs
  <2>2. k < hi[root] /\ hi[root] \in Int /\ k \in Int
    BY <2>1, PlainIs
  <2> QED  BY <2>2
<1>3. \A e : ~Holds(<<>>, e)
  BY DEF Holds
<1>4. Climbs(<<>>)
  BY DEF Climbs
<1>5. <<>> \in Seq(Keys \X Values)
  OBVIOUS
<1> QED  BY <1>2, <1>3, <1>4, <1>5 DEF Scanned

\* Entries that come after others with smaller keys.
LEMMA ClimbsOn ==
    ASSUME NEW S, NEW s \in Seq(S), NEW t \in Seq(S), Climbs(s), Climbs(t),
           \A i \in 1 .. Len(s), j \in 1 .. Len(t) : s[i][1] < t[j][1]
    PROVE  Climbs(s \o t)
<1>1. PICK u : u = s \o t
  OBVIOUS
<1>2. Follows(s, t, u) /\ Len(u) = Len(s) + Len(t)
  <2>1. s \in Seq(S) /\ t \in Seq(S) /\ u = s \o t
    BY <1>1
  <2> QED  BY <2>1, JoinedElements, Zenon
<1>3. PICK c, d \in Nat : c = Len(s) /\ d = Len(t)
  OBVIOUS
<1>4. /\ \A i \in 1 .. c : u[i] = s[i]
      /\ \A i \in 1 .. d : u[c + i] = t[i]
  BY <1>2, <1>3 DEF Follows
<1>5. ASSUME NEW i \in 1 .. c + d, NEW j \in 1 .. c + d, i < j
      PROVE  u[i][1] < u[j][1]
  <2>1. CASE j \in 1 .. c
    <3>1. i \in 1 .. c
      BY <1>5, <2>1
    <3> QED  BY <1>3, <1>4, <1>5, <2>1, <3>1 DEF Climbs
  <2>2. CASE j \notin 1 .. c
    <3>1. PICK y \in 1 .. d : j = c + y
      BY <2>2, PlaceInTwo
    <3>2. CASE i \in 1 .. c
      BY <1>3, <1>4, <3>1, <3>2
    <3>3. CASE i \notin 1 .. c
      <4>1. PICK x \in 1 .. d : i = c + x
        BY <3>3, PlaceInTwo
      <4>2. x < y
        BY <1>5, <3>1, <4>1
      <4>3. t[x][1] < t[y][1]
        BY <1>3, <4>2 DEF Climbs
      <4> QED  BY <1>4, <3>1, <4>1, <4>3
    <3> QED  BY <3>2, <3>3
  <2> QED  BY <2>1, <2>2
<1>6. Climbs(u)
  BY <1>2, <1>3, <1>5 DEF Climbs
<1> QED  BY <1>1, <1>6

\* A scan that leaves in leaf n has no more to come.
LEMMA ScanLeaves ==
    ASSUME NEW lv, Tree(heap, root, lv), NEW lo, NEW hi, Plain(heap, root, lv, lo, hi),
           NEW n \in DOMAIN heap, heap[n].leaf, NEW a \in Int, NEW b \in Int,
           NEW s, Scraped(s, n, a, b),
           NEW i \in DOMAIN heap[n].keys, heap[n].keys[i] > b
    PROVE  Scanned(s \o <<>>, a, b, lo[n])
<1>1. Typed(heap) /\ \A m \in DOMAIN heap : Counted(heap, m)
  BY DEF Tree, Balance
<1>2. s \in Seq(Keys \X Values) /\ Climbs(s) /\ s \o <<>> = s
  BY DEF Scraped
<1>3. PICK w \in Int, x \in Int : w = heap[n].keys[i] /\ x = hi[n] /\ w < x /\ b < w
  <2>1. Filed(heap, lo, hi, n) /\ heap[n].keys \in Seq(Keys) /\ hi[n] \in Int
    BY PlainLeaf, PlainIs
  <2>2. i \in 1 .. Len(heap[n].keys) /\ heap[n].keys[i] \in Int
    BY <2>1, KeysOf
  <2> QED  BY <2>1, <2>2 DEF Filed
<1>4. ASSUME NEW k, NEW v
      PROVE  Holds(s, <<k, v>>) <=> Has(heap, k, v) /\ lo[n] <= k /\ a <= k /\ k <= b
  <2>1. Holds(s, <<k, v>>) <=> Lists(heap[n], k, v) /\ a <= k /\ k <= b
    BY DEF Scraped
  <2>2. Lists(heap[n], k, v) <=> k \in Keys /\ Has(heap, k, v) /\ lo[n] <= k /\ k < hi[n]
    BY LeafHas
  <2>3. Has(heap, k, v) => k \in Keys /\ k \in Int
    BY <1>1, HasIs
  <2>4. k \in Int /\ k <= b => k < hi[n]
    BY <1>3
  <2> QED  BY <2>1, <2>2, <2>3, <2>4
<1> QED  BY <1>2, <1>4 DEF Scanned

\* A scan that goes on to the next leaf.
LEMMA ScanGoesOn ==
    ASSUME NEW lv, Tree(heap, root, lv), NEW lo, NEW hi, Plain(heap, root, lv, lo, hi),
           NEW n \in DOMAIN heap, heap[n].leaf, NEW a \in Int, NEW b \in Int,
           NEW s, Scraped(s, n, a, b), NEW t, Scanned(t, a, b, hi[n])
    PROVE  Scanned(s \o t, a, b, lo[n])
<1>1. Typed(heap) /\ \A m \in DOMAIN heap : Counted(heap, m)
  BY DEF Tree, Balance
<1>2. PICK S : S = Keys \X Values
  OBVIOUS
<1>3. s \in Seq(S) /\ Climbs(s) /\ t \in Seq(S) /\ Climbs(t)
  BY <1>2 DEF Scraped, Scanned
<1>4. \A k, v : Holds(s, <<k, v>>) <=> Lists(heap[n], k, v) /\ a <= k /\ k <= b
  BY DEF Scraped
<1>5. \A k, v : Holds(t, <<k, v>>) <=> Has(heap, k, v) /\ hi[n] <= k /\ a <= k /\ k <= b
  BY DEF Scanned
<1>6. PICK x \in Int, y \in Int : x = lo[n] /\ y = hi[n] /\ x < y
  <2>1. lo[n] \in Int /\ hi[n] \in Int /\ lo[n] < hi[n]
    BY PlainIs
  <2> QED  BY <2>1
<1>7. ASSUME NEW k, NEW v
      PROVE  Lists(heap[n], k, v) <=> k \in Keys /\ Has(heap, k, v) /\ x <= k /\ k < y
  BY <1>6, LeafHas
<1>8. \A k, v : Has(heap, k, v) => k \in Keys /\ k \in Int
  BY <1>1, HasIs
<1>9. PICK u : u = s \o t /\ u \in Seq(S) /\ \A e : Holds(u, e) <=> (Holds(s, e) \/ Holds(t, e))
  <2>1. /\ s \o t \in Seq(S)
        /\ \A e : Holds(s \o t, e) <=> (Holds(s, e) \/ Holds(t, e))
    BY <1>3, JoinedElements, Zenon
  <2> QED  BY <2>1
<1>10. ASSUME NEW k, NEW v
       PROVE  Holds(u, <<k, v>>) <=> Has(heap, k, v) /\ lo[n] <= k /\ a <= k /\ k <= b
  <2>1. Holds(s, <<k, v>>) <=> k \in Keys /\ Has(heap, k, v) /\ x <= k /\ k < y /\ a <= k /\ k <= b
    BY <1>4, <1>7
  <2>2. Holds(t, <<k, v>>) <=> Has(heap, k, v) /\ y <= k /\ a <= k /\ k <= b
    BY <1>5, <1>6
  <2>3. CASE Has(heap, k, v)
    <3>1. k \in Keys /\ k \in Int
      BY <1>8, <2>3
    <3>2. x <= k <=> (x <= k /\ k < y) \/ y <= k
      BY <1>6, <3>1
    <3> QED  BY <1>6, <1>9, <2>1, <2>2, <2>3, <3>1, <3>2
  <2>4. CASE ~Has(heap, k, v)
    BY <1>9, <2>1, <2>2, <2>4
  <2> QED  BY <2>3, <2>4
<1>11. ASSUME NEW i \in 1 .. Len(s), NEW j \in 1 .. Len(t)
       PROVE  s[i][1] < t[j][1]
  <2>1. PICK k, v : s[i] = <<k, v>>
    BY <1>2, <1>3, ElementOfSeq
  <2>2. PICK p, q : t[j] = <<p, q>>
    BY <1>2, <1>3, ElementOfSeq
  <2>3. Holds(s, <<k, v>>) /\ Holds(t, <<p, q>>)
    BY <2>1, <2>2 DEF Holds
  <2>4. k \in Keys /\ k < y
    BY <1>4, <1>7, <2>3
  <2>5. p \in Int /\ y <= p
    BY <1>5, <1>6, <1>8, <2>3
  <2>6. k < p
    <3>1. k \in Int
      BY <2>4
    <3> QED  BY <1>6, <2>4, <2>5, <3>1
  <2> QED  BY <2>1, <2>2, <2>6
<1>12. Climbs(u)
  BY <1>3, <1>9, <1>11, ClimbsOn
<1> QED  BY <1>2, <1>9, <1>10, <1>12 DEF Scanned

\* From leaf n on, or from the end.
Starts(n) == n = Null \/ (n \in DOMAIN heap /\ heap[n].leaf)

\* A scan from leaf n on has what comes from there.
LEMMA ScanFrom ==
    ASSUME NEW lv, Tree(heap, root, lv), NEW lo, NEW hi, Plain(heap, root, lv, lo, hi),
           NEW a \in Int, NEW b \in Int, NEW f, IsScan(f, a, b, DOMAIN heap \cup {Null}),
           NEW n, Starts(n)
    PROVE  Scanned(f[n], a, b, From(lo, hi, n))
<1>1. PICK rk, D : /\ RanksFall(rk) /\ D = DOMAIN heap \cup {Null} /\ DOMAIN rk = D
                   /\ \A m \in D : rk[m] \in Nat
  <2>1. PICK rk : \E top \in Nat : RanksFall(rk) /\ DOMAIN heap \cup {Null} = Behind(rk, top)
    BY RanksAre
  <2> QED  BY <2>1 DEF RanksFall
<1> DEFINE Good(m) == Scanned(f[m], a, b, From(lo, hi, m))
           Bad == {m \in D : Starts(m) /\ ~Good(m)}
           Ranks == {rk[m] : m \in Bad}
<1>2. n \in D
  BY <1>1 DEF Starts
<1> SUFFICES ASSUME Bad # {} PROVE FALSE
  BY <1>2
<1>3. PICK m \in Bad : \A x \in Bad : rk[m] <= rk[x]
  <2>1. Ranks \in SUBSET Nat /\ Ranks # {}
    <3> HIDE DEF Good
    <3> QED  BY <1>1
  <2>2. PICK r \in Ranks : \A x \in Ranks : r <= x
    <3> HIDE DEF Ranks
    <3> QED  BY <2>1, LessThanIsWellFounded
  <2>3. PICK m \in Bad : r = rk[m]
    <3> HIDE DEF Bad
    <3> QED  OBVIOUS
  <2>4. \A x \in Bad : rk[x] \in Ranks
    <3> HIDE DEF Bad
    <3> QED  OBVIOUS
  <2> HIDE DEF Bad, Ranks
  <2> QED  BY <2>2, <2>3, <2>4
<1>4. m \in D /\ Starts(m) /\ ~Good(m)
  <2> HIDE DEF Good
  <2> QED  OBVIOUS
<1>5. f[m] = IF m = Null THEN <<>>
             ELSE Picked(Pairs(m), InRange(m, a, b))
                  \o IF \E i \in DOMAIN heap[m].keys : heap[m].keys[i] > b THEN <<>>
                     ELSE f[heap[m].next]
  <2> DEFINE Body(x, e) ==
               IF x = Null THEN <<>>
               ELSE Picked(Pairs(x), InRange(x, a, b))
                    \o IF \E i \in DOMAIN heap[x].keys : heap[x].keys[i] > b THEN <<>>
                       ELSE e[heap[x].next]
  <2>1. f = [x \in D |-> Body(x, f)]
    BY <1>1 DEF IsScan
  <2>2. f[m] = Body(m, f)
    <3> HIDE DEF Body, Bad
    <3> QED  BY <1>4, <2>1
  <2> QED  BY <2>2
<1>6. CASE m = Null
  <2>1. f[m] = <<>> /\ From(lo, hi, m) = hi[root]
    BY <1>5, <1>6 DEF From
  <2> QED  BY <1>4, <2>1, NothingScanned
<1>7. CASE m # Null
  <2>1. m \in DOMAIN heap /\ heap[m].leaf /\ From(lo, hi, m) = lo[m]
    BY <1>4, <1>7 DEF Starts, From
  <2>2. PICK s : s = Picked(Pairs(m), InRange(m, a, b)) /\ Scraped(s, m, a, b)
    <3>1. /\ heap[m].keys \in Seq(Keys) /\ heap[m].items \in Seq(Values)
          /\ Ascends(heap[m].keys)
      BY <2>1, PlainLeaf DEF Filed
    <3>2. Len(heap[m].items) = Len(heap[m].keys)
      BY <2>1 DEF Tree, Balance, Counted
    <3> QED  BY <2>1, <3>1, <3>2, LeafScraped
  <2>3. CASE \E i \in DOMAIN heap[m].keys : heap[m].keys[i] > b
    <3>1. f[m] = s \o <<>>
      BY <1>5, <1>7, <2>2, <2>3
    <3>2. Scanned(s \o <<>>, a, b, lo[m])
      BY <2>1, <2>2, <2>3, ScanLeaves
    <3> QED  BY <1>4, <2>1, <3>1, <3>2
  <2>4. CASE ~\E i \in DOMAIN heap[m].keys : heap[m].keys[i] > b
    <3>1. PICK c : c = heap[m].next
      OBVIOUS
    <3>2. f[m] = s \o f[c]
      BY <1>5, <1>7, <2>2, <2>4, <3>1
    <3>3. Starts(c) /\ From(lo, hi, c) = hi[m]
      BY <2>1, <3>1, NextOf DEF Onward, Starts
    <3>4. Scanned(f[c], a, b, hi[m])
      <4>1. c \in D /\ rk[c] \in Nat /\ rk[m] \in Nat /\ rk[c] < rk[m]
        BY <1>1, <1>4, <1>7, <2>1, <3>1 DEF RanksFall
      <4>2. ~(rk[m] <= rk[c])
        BY <4>1
      <4>3. c \notin Bad
        <5> HIDE DEF Bad
        <5> QED  BY <1>3, <4>2
      <4> QED  BY <3>3, <4>1, <4>3
    <3>5. Scanned(s \o f[c], a, b, lo[m])
      BY <2>1, <2>2, <3>4, ScanGoesOn
    <3> QED  BY <1>4, <2>1, <3>2, <3>5
  <2> QED  BY <2>3, <2>4
<1> QED  BY <1>6, <1>7

\* s has, in order, the entries from a to b.
Served(s, a, b) ==
    /\ s \in Seq(Keys \X Values) /\ Climbs(s)
    /\ \A k, v : Holds(s, <<k, v>>) <=> Has(heap, k, v) /\ a <= k /\ k <= b

LEMMA ScanServes ==
    ASSUME NEW lv, Tree(heap, root, lv), NEW lo, NEW hi, Plain(heap, root, lv, lo, hi),
           NEW a \in Keys, NEW b \in Keys
    PROVE  Served(RangeScan(a, b), a, b)
<1>1. PICK f : /\ IsScan(f, a, b, DOMAIN heap \cup {Null})
               /\ RangeScan(a, b) = IF a > b THEN <<>> ELSE f[FindLeaf(a)]
  BY ScanIs
<1>2. a \in Int /\ b \in Int
  OBVIOUS
<1>3. Typed(heap) /\ \A n \in DOMAIN heap : Counted(heap, n)
  BY DEF Tree, Balance
<1>4. \A k, v : Has(heap, k, v) => k \in Keys /\ k \in Int
  BY <1>3, HasIs
<1>5. CASE a > b
  <2>1. RangeScan(a, b) = <<>>
    BY <1>1, <1>5
  <2>2. \A e : ~Holds(<<>>, e)
    BY DEF Holds
  <2>3. <<>> \in Seq(Keys \X Values) /\ Climbs(<<>>)
    BY DEF Climbs
  <2>4. ASSUME NEW k, NEW v, Has(heap, k, v), a <= k, k <= b PROVE FALSE
    <3>1. k \in Int
      BY <1>4, <2>4
    <3> QED  BY <1>2, <1>5, <2>4, <3>1
  <2> QED  BY <2>1, <2>2, <2>3, <2>4 DEF Served
<1>6. CASE ~(a > b)
  <2>1. PICK n : n = FindLeaf(a) /\ Home(lo, hi, n, a)
    BY FindLeafIs
  <2>2. n \in DOMAIN heap /\ heap[n].leaf /\ lo[n] <= a /\ lo[n] \in Int
    BY <2>1, PlainIs DEF Home
  <2>3. n # Null
    BY <2>2, NextOf
  <2>4. Starts(n) /\ From(lo, hi, n) = lo[n]
    BY <2>2, <2>3 DEF Starts, From
  <2>5. PICK s : s = f[n] /\ s = RangeScan(a, b)
    BY <1>1, <1>6, <2>1
  <2>6. Scanned(s, a, b, lo[n])
    BY <1>1, <1>2, <2>4, <2>5, ScanFrom
  <2>7. ASSUME NEW k, NEW v
        PROVE  Holds(s, <<k, v>>) <=> Has(heap, k, v) /\ a <= k /\ k <= b
    <3>1. Holds(s, <<k, v>>) <=> Has(heap, k, v) /\ lo[n] <= k /\ a <= k /\ k <= b
      BY <2>6 DEF Scanned
    <3>2. Has(heap, k, v) /\ a <= k => lo[n] <= k
      BY <1>2, <1>4, <2>2
    <3> QED  BY <3>1, <3>2
  <2> QED  BY <2>5, <2>6, <2>7 DEF Served, Scanned
<1> QED  BY <1>5, <1>6

\* Every entry is in the tree.
LEMMA EntriesAre ==
    ASSUME SearchInv, NEW e
    PROVE  e \in Entries <=> \E a, b : Has(heap, a, b) /\ e = <<a, b>>
<1>1. TreeInv /\ Typed(heap)
  BY DEF SearchInv, Searchable, TreeInv, Tree
<1>2. DOMAIN heap = Reachable
  BY <1>1, TreeIsAll DEF NothingLeaks
<1>3. Entries = Stored
  BY <1>2 DEF Entries, Stored
<1> QED  BY <1>1, <1>3, StoredAre

LEMMA GetsAgree ==
    ASSUME SearchInv, NEW k \in Keys
    PROVE  {e[2] : e \in {e \in Entries : e[1] = k}} = ToSet(Get(k))
<1>1. PICK lv, lo, hi : Tree(heap, root, lv) /\ Plain(heap, root, lv, lo, hi)
  BY DEF SearchInv, Searchable
<1>2. PICK E : E = Entries /\ \A e : e \in E <=> \E a, b : Has(heap, a, b) /\ e = <<a, b>>
  BY EntriesAre
<1>3. PICK G : G = ToSet(Get(k)) /\ \A v : v \in G <=> Has(heap, k, v)
  BY <1>1, GetFinds
<1>4. ASSUME NEW v
      PROVE  v \in {e[2] : e \in {e \in E : e[1] = k}} <=> Has(heap, k, v)
  <2>1. ASSUME Has(heap, k, v)
        PROVE  v \in {e[2] : e \in {e \in E : e[1] = k}}
    <3>1. <<k, v>> \in E /\ <<k, v>>[1] = k /\ <<k, v>>[2] = v
      BY <1>2, <2>1
    <3> QED  BY <3>1
  <2>2. ASSUME NEW e \in E, e[1] = k, e[2] = v
        PROVE  Has(heap, k, v)
    BY <1>2, <2>2
  <2> QED  BY <2>1, <2>2
<1> QED  BY <1>2, <1>3, <1>4

\* A scan has the entries of its range, in order.
Read(s, entries, a, b) ==
    /\ ToSet(s) = {e \in entries : e[1] \in a .. b}
    /\ \A i, j \in DOMAIN s : i < j => s[i][1] < s[j][1]

LEMMA ScansAgree ==
    ASSUME SearchInv, NEW a \in Keys, NEW b \in Keys
    PROVE  Read(RangeScan(a, b), Entries, a, b)
<1>1. PICK lv, lo, hi : Tree(heap, root, lv) /\ Plain(heap, root, lv, lo, hi)
  BY DEF SearchInv, Searchable
<1>2. PICK E : E = Entries /\ \A e : e \in E <=> \E k, v : Has(heap, k, v) /\ e = <<k, v>>
  BY EntriesAre
<1>3. PICK s : s = RangeScan(a, b) /\ Served(s, a, b)
  BY <1>1, ScanServes
<1>4. /\ s \in Seq(Keys \X Values) /\ Climbs(s)
      /\ \A k, v : Holds(s, <<k, v>>) <=> Has(heap, k, v) /\ a <= k /\ k <= b
  BY <1>3 DEF Served
<1>5. DOMAIN s = 1 .. Len(s)
  BY <1>4
<1>6. \A i, j \in DOMAIN s : i < j => s[i][1] < s[j][1]
  BY <1>4, <1>5 DEF Climbs
<1>7. \A k, v : Has(heap, k, v) => k \in Int
  <2>1. Typed(heap) /\ \A n \in DOMAIN heap : Counted(heap, n)
    BY <1>1 DEF Tree, Balance
  <2> QED  BY <2>1, HasIs
<1>8. a \in Int /\ b \in Int
  OBVIOUS
<1>9. ASSUME NEW e
      PROVE  e \in ToSet(s) <=> e \in E /\ e[1] \in a .. b
  <2>1. e \in ToSet(s) <=> Holds(s, e)
    BY <1>5 DEF ToSet, Holds
  <2>2. ASSUME Holds(s, e)
        PROVE  e \in E /\ e[1] \in a .. b
    <3>1. PICK i \in 1 .. Len(s) : s[i] = e
      BY <2>2 DEF Holds
    <3>2. PICK k, v : e = <<k, v>>
      BY <1>4, <3>1, ElementOfSeq
    <3>3. Has(heap, k, v) /\ a <= k /\ k <= b
      BY <1>4, <2>2, <3>2
    <3>4. e \in E /\ e[1] = k
      BY <1>2, <3>2, <3>3
    <3>5. k \in Int
      BY <1>7, <3>3
    <3>6. k \in a .. b
      BY <1>8, <3>3, <3>5
    <3> QED  BY <3>4, <3>6
  <2>3. ASSUME e \in E, e[1] \in a .. b
        PROVE  Holds(s, e)
    <3>1. PICK k, v : Has(heap, k, v) /\ e = <<k, v>>
      BY <1>2, <2>3
    <3>2. k \in a .. b
      BY <2>3, <3>1
    <3>3. a <= k /\ k <= b
      BY <1>8, <3>2
    <3> QED  BY <1>4, <3>1, <3>3
  <2> QED  BY <2>1, <2>2, <2>3
<1> QED  BY <1>2, <1>3, <1>6, <1>9 DEF Read

LEMMA SearchableReads ==
    ASSUME SearchInv
    PROVE  ReadsFindEverything
BY GetsAgree, ScansAgree DEF ReadsFindEverything, Read

\* After any calls a search for a key finds its entry wherever it has been moved, and
\* a scan along the next pointers meets every entry of its range once, in order.
THEOREM ReadsAlwaysFind == Spec => []ReadsFindEverything
<1>1. SearchInv => ReadsFindEverything
  BY SearchableReads
<1> QED  BY <1>1, AlwaysSearchable, PTL
=========================================================================
