---------------------------- MODULE MemDB_proofs ----------------------------
(***************************************************************************)
(* Theorems about the InMemoryDB of lab2 over skip lists, for every set of *)
(* keys and values, every size of a memtable and any number of writes: it  *)
(* implements an ordered map, its two reads agree, and its memtables are   *)
(* replaced exactly when the next entry does not fit.                      *)
(***************************************************************************)
EXTENDS MemDB, Collections

USE MemDBAssumption

Vals == Values \cup {Tombstone}
-----------------------------------------------------------------------------
(* The search *)

\* Sequence numbers stay below Int64Max, so the search looks at keys alone.
LEMMA SearchTest ==
    ASSUME NEW x \in Node, NEW key \in Keys
    PROVE  /\ x.key \in Int /\ key \in Int
           /\ Less(x.key, x.seq, key, Int64Max) <=> x.key < key
<1>1. x.key \in Int /\ key \in Int /\ x.seq \in Nat /\ x.seq <= Int64Max
  <2>1. x.key \in Keys /\ key \in Keys /\ x.seq \in 1 .. MaxWrites
    BY DEF Node
  <2>2. Keys \subseteq Int
    OBVIOUS
  <2>3. \A i \in 1 .. MaxWrites : i \in Nat /\ i <= Int64Max
    OBVIOUS
  <2> QED  BY <2>1, <2>2, <2>3
<1> QED  BY <1>1 DEF Less

\* What the search returns: the first place whose key is not smaller.
Found(list, key, q) ==
    /\ q \in 1 .. Len(list) + 1
    /\ q \in 1 .. Len(list) => list[q].key >= key
    /\ \A r \in 1 .. q - 1 : list[r].key < key

LEMMA FoundOnce ==
    ASSUME NEW list \in Seq(Node), NEW key \in Keys, NEW p, NEW q,
           Found(list, key, p), Found(list, key, q)
    PROVE  p = q
<1>1. /\ Len(list) \in Nat /\ key \in Int
      /\ \A i \in 1 .. Len(list) : list[i].key \in Int
  <2>1. \A i \in 1 .. Len(list) : list[i] \in Node
    OBVIOUS
  <2> QED  BY <2>1, SearchTest
<1>2. p \in 1 .. Len(list) + 1 /\ q \in 1 .. Len(list) + 1
  BY DEF Found
<1>3. ASSUME p < q
      PROVE  FALSE
  <2>1. p \in 1 .. Len(list) /\ p \in 1 .. q - 1
    BY <1>1, <1>2, <1>3
  <2> QED  BY <1>1, <2>1 DEF Found
<1>4. ASSUME q < p
      PROVE  FALSE
  <2>1. q \in 1 .. Len(list) /\ q \in 1 .. p - 1
    BY <1>1, <1>2, <1>4
  <2> QED  BY <1>1, <2>1 DEF Found
<1> QED  BY <1>1, <1>2, <1>3, <1>4

LEMMA SearchFinds ==
    ASSUME NEW list \in Seq(Node), NEW key \in Keys
    PROVE  Found(list, key, FindGreaterOrEqual(list, key))
<1> DEFINE n == Len(list)
           T == {i \in 1 .. n : ~Less(list[i].key, list[i].seq, key, Int64Max)}
<1>1. /\ n \in Nat /\ DOMAIN list = 1 .. n /\ key \in Int
      /\ \A i \in 1 .. n : /\ list[i].key \in Int
                           /\ i \in T <=> list[i].key >= key
  <2>1. \A i \in 1 .. n : list[i] \in Node
    OBVIOUS
  <2>2. \A i \in 1 .. n : /\ list[i].key \in Int /\ key \in Int
                          /\ Less(list[i].key, list[i].seq, key, Int64Max)
                               <=> list[i].key < key
    BY <2>1, SearchTest
  <2> QED  BY <2>2
<1>2. \E q \in 1 .. n + 1 : /\ q \in 1 .. n => q \in T
                            /\ \A r \in 1 .. q - 1 : r \notin T
  <2> HIDE DEF T
  <2>1. 1 \in 1 .. n + 1
    BY <1>1
  <2> QED  BY <1>1, <2>1, FirstPlace
<1>3. \A q \in 1 .. n + 1 : \A r \in 1 .. q - 1 : r \in 1 .. n
  BY <1>1
<1> HIDE DEF n
<1>4. \E q \in 1 .. n + 1 :
         /\ q \in DOMAIN list => ~Less(list[q].key, list[q].seq, key, Int64Max)
         /\ \A r \in 1 .. q - 1 :
              ~ ~Less(list[r].key, list[r].seq, key, Int64Max)
  BY <1>1, <1>2, <1>3
<1> DEFINE f == FindGreaterOrEqual(list, key)
<1>5. /\ f \in 1 .. n + 1
      /\ f \in DOMAIN list => ~Less(list[f].key, list[f].seq, key, Int64Max)
      /\ \A r \in 1 .. f - 1 :
           ~ ~Less(list[r].key, list[r].seq, key, Int64Max)
  BY <1>4 DEF FindGreaterOrEqual, FirstFrom, n
<1> HIDE DEF f
<1>6. /\ f \in 1 .. n => list[f].key >= key
      /\ \A r \in 1 .. f - 1 : list[r].key < key
  BY <1>1, <1>3, <1>5
<1> QED  BY <1>5, <1>6 DEF Found, f, n

LEMMA SearchIs ==
    ASSUME NEW list \in Seq(Node), NEW key \in Keys, NEW q, Found(list, key, q)
    PROVE  FindGreaterOrEqual(list, key) = q
  BY SearchFinds, FoundOnce
-----------------------------------------------------------------------------
(* The insertion *)

NewNode(t, key, val) == [key |-> key, seq |-> t.next_seq_, val |-> val]

LEMMA InsertSplices ==
    ASSUME NEW t \in MemTable, NEW key \in Keys, NEW val \in Vals,
           t.next_seq_ <= MaxWrites
    PROVE  LET u == Insert(t, key, val)
           IN  /\ u \in MemTable
               /\ u.next_seq_ = t.next_seq_ + 1
               /\ u.size_bytes = t.size_bytes /\ u.immutable = t.immutable
               /\ \E q : /\ Found(t.list, key, q)
                         /\ Spliced(t.list, u.list, q, NewNode(t, key, val))
<1>1. t.list \in Seq(Node) /\ t.next_seq_ \in Nat \ {0}
  BY DEF MemTable
<1>2. NewNode(t, key, val) \in Node
  <2>1. t.next_seq_ \in 1 .. MaxWrites
    BY <1>1
  <2> QED  BY <2>1 DEF Node, NewNode, Vals
<1>3. PICK q : q = FindGreaterOrEqual(t.list, key) /\ Found(t.list, key, q)
  BY <1>1, SearchFinds
<1>4. PICK new : /\ new = InsertAt(t.list, q, NewNode(t, key, val))
                 /\ new \in Seq(Node)
                 /\ Spliced(t.list, new, q, NewNode(t, key, val))
  <2>1. PICK e \in Node : e = NewNode(t, key, val)
    BY <1>2
  <2>2. q \in 1 .. Len(t.list) + 1
    BY <1>3 DEF Found
  <2>3. PICK new : new = InsertAt(t.list, q, e)
    OBVIOUS
  <2>4. PICK old \in Seq(Node) : old = t.list
    BY <1>1
  <2>5. q \in 1 .. Len(old) + 1
    BY <2>2, <2>4
  <2>6. InsertAt(old, q, e) \in Seq(Node) /\ Spliced(old, InsertAt(old, q, e), q, e)
    BY <2>5, InsertAtProperties
  <2> QED  BY <2>1, <2>3, <2>4, <2>6
<1>5. Insert(t, key, val) = [t EXCEPT !.list = new, !.next_seq_ = t.next_seq_ + 1]
  BY <1>3, <1>4 DEF Insert, NewNode
<1>6. PICK m \in Nat \ {0} : m = t.next_seq_ + 1
  BY <1>1
<1>7. PICK u : u = [t EXCEPT !.list = new, !.next_seq_ = m]
  OBVIOUS
<1>8. /\ u \in MemTable
      /\ u.next_seq_ = m /\ u.list = new
      /\ u.size_bytes = t.size_bytes /\ u.immutable = t.immutable
  BY <1>4, <1>7 DEF MemTable
<1> QED  BY <1>3, <1>4, <1>5, <1>6, <1>7, <1>8

\* The entry of the place found, if it has the key.
LEMMA LatestIs ==
    ASSUME NEW t, t.list \in Seq(Node), NEW key \in Keys, NEW q,
           Found(t.list, key, q)
    PROVE  /\ q \in 1 .. Len(t.list) /\ t.list[q].key = key
                => GetLatestEntry(t, key) = <<t.list[q].val>>
           /\ ~(q \in 1 .. Len(t.list) /\ t.list[q].key = key)
                => GetLatestEntry(t, key) = <<>>
<1>1. FindGreaterOrEqual(t.list, key) = q
  BY SearchIs
<1>2. DOMAIN t.list = 1 .. Len(t.list)
  OBVIOUS
<1> QED  BY <1>1, <1>2 DEF GetLatestEntry

\* An entry is in a sequence of its own, or there is none.
LEMMA LatestType ==
    ASSUME NEW t, t.list \in Seq(Node), NEW key \in Keys
    PROVE  \/ GetLatestEntry(t, key) = <<>>
           \/ \E val \in Vals : /\ GetLatestEntry(t, key) = <<val>>
                                /\ GetLatestEntry(t, key)[1] = val
                                /\ GetLatestEntry(t, key) # <<>>
<1> DEFINE q == FindGreaterOrEqual(t.list, key)
<1>1. Found(t.list, key, q)
  BY SearchFinds
<1> HIDE DEF q
<1>2. CASE q \in 1 .. Len(t.list) /\ t.list[q].key = key
  <2>1. t.list[q] \in Node
    BY <1>2
  <2>2. GetLatestEntry(t, key) = <<t.list[q].val>>
    BY <1>1, <1>2, LatestIs
  <2>3. t.list[q].val \in Vals
    BY <2>1 DEF Node, Vals
  <2> QED  BY <2>2, <2>3
<1>3. CASE ~(q \in 1 .. Len(t.list) /\ t.list[q].key = key)
  BY <1>1, <1>3, LatestIs
<1> QED  BY <1>2, <1>3

\* The new entry is the latest of its key, and hides no entry of another.
LEMMA SplicedLatest ==
    ASSUME NEW old \in Seq(Node), NEW new \in Seq(Node), NEW key \in Keys,
           NEW q, Found(old, key, q),
           NEW e \in Node, e.key = key, Spliced(old, new, q, e),
           NEW t, t.list = old, NEW u, u.list = new,
           NEW k \in Keys
    PROVE  GetLatestEntry(u, k) = IF k = key THEN <<e.val>>
                                  ELSE GetLatestEntry(t, k)
<1> DEFINE n == Len(old)
           p == FindGreaterOrEqual(old, k)
<1>1. /\ n \in Nat /\ q \in 1 .. n + 1 /\ Len(new) = n + 1
      /\ key \in Int /\ k \in Int
      /\ \A j \in 1 .. n : old[j].key \in Int
  <2>1. \A j \in 1 .. n : old[j] \in Node
    OBVIOUS
  <2>2. \A j \in 1 .. n : old[j].key \in Int
    BY <2>1, SearchTest
  <2>3. key \in Int /\ k \in Int
    OBVIOUS
  <2> QED  BY <2>2, <2>3 DEF Spliced
<1>2. /\ \A j \in 1 .. q - 1 : new[j] = old[j]
      /\ new[q] = e
      /\ \A j \in q + 1 .. n + 1 : new[j] = old[j - 1]
  BY DEF Spliced
<1>3. Found(old, k, p)
  BY SearchFinds
<1> HIDE DEF p
<1>4. /\ p \in 1 .. n + 1
      /\ p \in 1 .. n => old[p].key >= k
      /\ \A r \in 1 .. p - 1 : old[r].key < k
  BY <1>3 DEF Found
<1>5. /\ q \in 1 .. n => old[q].key >= key
      /\ \A r \in 1 .. q - 1 : old[r].key < key
  BY DEF Found
<1> HIDE DEF n
<1>6. CASE k = key
  <2>1. \A r \in 1 .. q - 1 : new[r].key < key
    BY <1>2, <1>5
  <2>2. Found(new, key, q)
    BY <1>1, <1>2, <2>1 DEF Found
  <2>3. q \in 1 .. Len(new) /\ new[q].key = key /\ new[q].val = e.val
    BY <1>1, <1>2
  <2> QED  BY <1>6, <2>2, <2>3, LatestIs
<1>7. CASE k < key /\ p < q
  <2>1. p \in 1 .. q - 1 /\ p \in 1 .. n /\ p \in 1 .. n + 1 /\ new[p] = old[p]
    BY <1>1, <1>2, <1>4, <1>7
  <2>2. \A r \in 1 .. p - 1 : r \in 1 .. q - 1
    BY <1>1, <1>4, <1>7
  <2>3. \A r \in 1 .. p - 1 : new[r].key < k
    BY <1>2, <1>4, <2>2
  <2>4. Found(new, k, p)
    BY <1>1, <1>4, <2>1, <2>3 DEF Found
  <2>5. p \in 1 .. Len(new)
    BY <1>1, <2>1
  <2>6. CASE old[p].key = k
    <3>1. GetLatestEntry(t, k) = <<old[p].val>>
      BY <1>3, <2>1, <2>6, LatestIs DEF n
    <3>2. GetLatestEntry(u, k) = <<new[p].val>>
      BY <2>1, <2>4, <2>5, <2>6, LatestIs
    <3> QED  BY <1>1, <1>7, <2>1, <3>1, <3>2
  <2>7. CASE old[p].key # k
    <3>1. GetLatestEntry(t, k) = <<>>
      BY <1>3, <2>1, <2>7, LatestIs DEF n
    <3>2. GetLatestEntry(u, k) = <<>>
      BY <2>1, <2>4, <2>5, <2>7, LatestIs
    <3> QED  BY <1>1, <1>7, <3>1, <3>2
  <2> QED  BY <2>6, <2>7
<1>8. CASE k < key /\ ~(p < q)
  <2>1. p = q
    <3>1. ASSUME q < p PROVE FALSE
      <4>1. q \in 1 .. p - 1 /\ q \in 1 .. n
        BY <1>1, <1>4, <3>1
      <4> QED  BY <1>1, <1>4, <1>5, <1>8, <4>1
    <3> QED  BY <1>1, <1>4, <1>8, <3>1
  <2>2. \A r \in 1 .. q - 1 : new[r].key < k
    BY <1>2, <1>4, <2>1
  <2>3. Found(new, k, q)
    BY <1>1, <1>2, <1>8, <2>2 DEF Found
  <2>4. new[q].key # k
    BY <1>1, <1>2, <1>8
  <2>5. ~(p \in 1 .. n /\ old[p].key = k)
    BY <1>1, <1>5, <1>8, <2>1
  <2>6. GetLatestEntry(u, k) = <<>>
    BY <2>3, <2>4, LatestIs
  <2>7. GetLatestEntry(t, k) = <<>>
    BY <1>3, <2>5, LatestIs DEF n
  <2> QED  BY <1>1, <1>8, <2>6, <2>7
<1>9. CASE k > key
  <2>1. p >= q
    <3>1. ASSUME p < q PROVE FALSE
      <4>1. p \in 1 .. q - 1 /\ p \in 1 .. n
        BY <1>1, <1>4, <3>1
      <4> QED  BY <1>1, <1>4, <1>5, <1>9, <4>1
    <3> QED  BY <1>1, <1>4, <3>1
  <2>2. p + 1 \in 1 .. n + 1 + 1 /\ p + 1 - 1 = p
    BY <1>1, <1>4
  <2>3. ASSUME NEW r \in 1 .. p + 1 - 1
        PROVE  new[r].key < k
    <3>1. CASE r < q
      <4>1. r \in 1 .. q - 1 /\ r \in 1 .. p - 1
        BY <1>1, <1>4, <2>1, <3>1
      <4> QED  BY <1>2, <1>4, <4>1
    <3>2. CASE r = q
      BY <1>1, <1>2, <1>9, <3>2
    <3>3. CASE r > q
      <4>1. r \in q + 1 .. n + 1 /\ r - 1 \in 1 .. p - 1
        BY <1>1, <1>4, <3>3
      <4> QED  BY <1>2, <1>4, <4>1
    <3> QED  BY <1>1, <1>4, <3>1, <3>2, <3>3
  <2>4. p \in 1 .. n <=> p + 1 \in 1 .. n + 1
    BY <1>1, <1>4
  <2>5. p \in 1 .. n => new[p + 1] = old[p]
    <3>1. p \in 1 .. n => p + 1 \in q + 1 .. n + 1
      BY <1>1, <2>1
    <3> QED  BY <1>2, <2>2, <3>1
  <2>6. Found(new, k, p + 1)
    BY <1>1, <1>4, <2>2, <2>3, <2>4, <2>5 DEF Found
  <2>7. CASE p \in 1 .. n /\ old[p].key = k
    <3>1. GetLatestEntry(t, k) = <<old[p].val>>
      BY <1>3, <2>7, LatestIs DEF n
    <3>2. GetLatestEntry(u, k) = <<new[p + 1].val>>
      BY <1>1, <2>4, <2>5, <2>6, <2>7, LatestIs
    <3> QED  BY <1>1, <1>9, <2>5, <2>7, <3>1, <3>2
  <2>8. CASE ~(p \in 1 .. n /\ old[p].key = k)
    <3>1. GetLatestEntry(t, k) = <<>>
      BY <1>3, <2>8, LatestIs DEF n
    <3>2. ~(p + 1 \in 1 .. Len(new) /\ new[p + 1].key = k)
      BY <1>1, <2>4, <2>5, <2>8
    <3>3. GetLatestEntry(u, k) = <<>>
      BY <2>6, <3>2, LatestIs
    <3> QED  BY <1>1, <1>9, <3>1, <3>3
  <2> QED  BY <2>7, <2>8
<1>10. k = key \/ k < key \/ k > key
  BY <1>1
<1> QED  BY <1>6, <1>7, <1>8, <1>9, <1>10

\* The keys of a list ascend.
Ascends(list) == \A i, j \in 1 .. Len(list) : i < j => list[i].key <= list[j].key

LEMMA SplicedAscends ==
    ASSUME NEW old \in Seq(Node), NEW new, NEW key \in Keys, NEW q, NEW e,
           Found(old, key, q), e.key = key, Spliced(old, new, q, e),
           Ascends(old)
    PROVE  Ascends(new)
<1> DEFINE n == Len(old)
<1>1. /\ n \in Nat /\ q \in 1 .. n + 1 /\ Len(new) = n + 1 /\ key \in Int
      /\ \A j \in 1 .. n : old[j].key \in Int
  <2>1. \A j \in 1 .. n : old[j] \in Node
    OBVIOUS
  <2>2. \A j \in 1 .. n : old[j].key \in Int
    BY <2>1, SearchTest
  <2>3. key \in Int
    OBVIOUS
  <2> QED  BY <2>2, <2>3 DEF Spliced
<1>2. /\ \A j \in 1 .. q - 1 : new[j] = old[j]
      /\ new[q] = e
      /\ \A j \in q + 1 .. n + 1 : new[j] = old[j - 1]
  BY DEF Spliced
<1>3. /\ q \in 1 .. n => old[q].key >= key
      /\ \A r \in 1 .. q - 1 : old[r].key < key
  BY DEF Found
<1>4. \A i, j \in 1 .. n : i < j => old[i].key <= old[j].key
  BY DEF Ascends
<1> HIDE DEF n
<1>5. \A j \in q .. n : old[j].key >= key
  <2> TAKE j \in q .. n
  <2>1. q \in 1 .. n /\ j \in 1 .. n /\ (q < j \/ q = j)
    BY <1>1
  <2> QED  BY <1>1, <1>3, <1>4, <2>1
<1>6. ASSUME NEW i \in 1 .. n + 1, NEW j \in 1 .. n + 1, i < j
      PROVE  new[i].key <= new[j].key
  <2>1. CASE j < q
    <3>1. i \in 1 .. q - 1 /\ j \in 1 .. q - 1 /\ i \in 1 .. n /\ j \in 1 .. n
      BY <1>1, <1>6, <2>1
    <3> QED  BY <1>2, <1>4, <1>6, <3>1
  <2>2. CASE j = q
    <3>1. i \in 1 .. q - 1 /\ i \in 1 .. n
      BY <1>1, <1>6, <2>2
    <3> QED  BY <1>1, <1>2, <1>3, <2>2, <3>1
  <2>3. CASE j > q
    <3>1. j \in q + 1 .. n + 1 /\ j - 1 \in q .. n /\ j - 1 \in 1 .. n
      BY <1>1, <2>3
    <3>2. CASE i < q
      <4>1. i \in 1 .. q - 1 /\ i \in 1 .. n
        BY <1>1, <3>2
      <4>2. new[i] = old[i] /\ new[j] = old[j - 1]
        BY <1>2, <3>1, <4>1
      <4>3. old[i].key < key /\ key <= old[j - 1].key
        BY <1>1, <1>3, <1>5, <3>1, <4>1
      <4>4. old[i].key \in Int /\ old[j - 1].key \in Int /\ key \in Int
        BY <1>1, <3>1, <4>1
      <4>5. old[i].key <= old[j - 1].key
        BY <4>3, <4>4
      <4> QED  BY <4>2, <4>5
    <3>3. CASE i = q
      BY <1>1, <1>2, <1>5, <3>1, <3>3
    <3>4. CASE i > q
      <4>1. i \in q + 1 .. n + 1 /\ i - 1 \in 1 .. n /\ i - 1 < j - 1
        BY <1>1, <1>6, <3>4
      <4> QED  BY <1>2, <1>4, <3>1, <4>1
    <3> QED  BY <1>1, <3>2, <3>3, <3>4
  <2> QED  BY <1>1, <2>1, <2>2, <2>3
<1> QED  BY <1>1, <1>6 DEF Ascends
-----------------------------------------------------------------------------
(* The bytes of a list *)

\* A union of finitely many finite sets is finite.
LEMMA FiniteUnion ==
    ASSUME NEW n \in Nat, NEW f, \A i \in 1 .. n : IsFiniteSet(f[i])
    PROVE  IsFiniteSet(UNION {f[i] : i \in 1 .. n})
<1> DEFINE S == {f[i] : i \in 1 .. n}
           g == [i \in 1 .. n |-> f[i]]
<1>1. g \in Surjection(1 .. n, S)
  BY DEF Surjection
<1>2. IsFiniteSet(1 .. n)
  BY FS_Interval
<1> HIDE DEF g
<1>3. \A T \in S : IsFiniteSet(T)
  OBVIOUS
<1> HIDE DEF S
<1>4. IsFiniteSet(S)
  BY <1>1, <1>2, FS_Surjection
<1>5. IsFiniteSet(UNION S)
  BY <1>3, <1>4, FS_UNION
<1> QED  BY <1>5 DEF S

LEMMA EntryBytesType ==
    ASSUME NEW val \in Vals
    PROVE  EntryBytes(val) \in Nat \ {0}
  BY DEF EntryBytes, Vals

\* One cell for every byte of a list.
Cells(list) == UNION {{i} \X (1 .. EntryBytes(list[i].val)) : i \in DOMAIN list}

\* The cells of the entry at place i, as pairs.
LEMMA CellIs ==
    ASSUME NEW list \in Seq(Node), NEW c
    PROVE  c \in Cells(list) <=>
             \E i \in 1 .. Len(list) : \E b \in 1 .. EntryBytes(list[i].val) : c = <<i, b>>
  BY DEF Cells

LEMMA NodeBytes ==
    ASSUME NEW x \in Node
    PROVE  EntryBytes(x.val) \in Nat \ {0}
<1>1. x.val \in Vals
  BY DEF Node, Vals
<1> QED  BY <1>1, EntryBytesType

LEMMA CellsFinite ==
    ASSUME NEW list \in Seq(Node)
    PROVE  IsFiniteSet(Cells(list)) /\ BytesOf(list) = Cardinality(Cells(list))
           /\ BytesOf(list) \in Nat
<1> DEFINE n == Len(list)
           f == [i \in 1 .. n |-> {i} \X (1 .. EntryBytes(list[i].val))]
<1>1. n \in Nat /\ DOMAIN list = 1 .. n
  OBVIOUS
<1>2. ASSUME NEW i \in 1 .. n
      PROVE  IsFiniteSet(f[i])
  <2>1. list[i] \in Node
    BY <1>1
  <2>2. EntryBytes(list[i].val) \in Int
    BY <2>1, NodeBytes
  <2>3. IsFiniteSet(1 .. EntryBytes(list[i].val))
    BY <2>2, FS_Interval
  <2>4. IsFiniteSet({i})
    BY FS_Singleton
  <2>5. IsFiniteSet({i} \X (1 .. EntryBytes(list[i].val)))
    BY <2>3, <2>4, FS_Product
  <2> QED  BY <2>5
<1>3. Cells(list) = UNION {f[i] : i \in 1 .. n}
  BY <1>1 DEF Cells
<1> HIDE DEF f, n
<1>4. IsFiniteSet(UNION {f[i] : i \in 1 .. n})
  BY <1>1, <1>2, FiniteUnion
<1>5. BytesOf(list) = Cardinality(Cells(list))
  BY DEF BytesOf, Cells
<1> QED  BY <1>3, <1>4, <1>5, FS_CardinalityType

\* The cells of the old list, those from place q on moved up by one, and the
\* cells of the new entry.
LEMMA SplicedBytes ==
    ASSUME NEW old \in Seq(Node), NEW new \in Seq(Node), NEW q, NEW e \in Node,
           Spliced(old, new, q, e)
    PROVE  BytesOf(new) = BytesOf(old) + EntryBytes(e.val)
<1> DEFINE n == Len(old)
           B(x) == EntryBytes(x.val)
           up(i) == IF i < q THEN i ELSE i + 1
           h == [c \in Cells(old) |-> <<up(c[1]), c[2]>>]
           A == {q} \X (1 .. B(e))
           R == Cells(new) \ A
<1>1. /\ n \in Nat /\ q \in 1 .. n + 1 /\ Len(new) = n + 1
      /\ \A j \in 1 .. q - 1 : new[j] = old[j]
      /\ new[q] = e
      /\ \A j \in q + 1 .. n + 1 : new[j] = old[j - 1]
  BY DEF Spliced
<1> HIDE DEF n
<1>2. \A i \in 1 .. n : up(i) \in 1 .. n + 1 /\ up(i) # q /\ new[up(i)] = old[i]
  <2> TAKE i \in 1 .. n
  <2>1. CASE i < q
    <3>1. i \in 1 .. q - 1 /\ i \in 1 .. n + 1 /\ up(i) = i /\ i # q
      BY <1>1, <2>1
    <3> HIDE DEF up
    <3> QED  BY <1>1, <3>1
  <2>2. CASE ~(i < q)
    <3>1. /\ i + 1 \in q + 1 .. n + 1 /\ i + 1 \in 1 .. n + 1
          /\ up(i) = i + 1 /\ i + 1 # q /\ i + 1 - 1 = i
      BY <1>1, <2>2
    <3> HIDE DEF up
    <3> QED  BY <1>1, <3>1
  <2> QED  BY <2>1, <2>2
<1>3. \A j \in 1 .. n + 1 : j # q => \E i \in 1 .. n : up(i) = j
  <2> TAKE j \in 1 .. n + 1
  <2> HAVE j # q
  <2>1. CASE j < q
    <3>1. j \in 1 .. n /\ up(j) = j
      BY <1>1, <2>1
    <3> QED  BY <3>1
  <2>2. CASE j > q
    <3>1. j - 1 \in 1 .. n /\ ~(j - 1 < q) /\ j - 1 + 1 = j
      BY <1>1, <2>2
    <3>2. up(j - 1) = j
      BY <3>1
    <3> QED  BY <3>1, <3>2
  <2> QED  BY <1>1, <2>1, <2>2
<1>4. \A i, j \in 1 .. n : up(i) = up(j) => i = j
  BY <1>1
<1> HIDE DEF up
<1>5. /\ \A c : c \in Cells(old) <=>
                  \E i \in 1 .. n : \E b \in 1 .. B(old[i]) : c = <<i, b>>
      /\ \A c : c \in Cells(new) <=>
                  \E i \in 1 .. n + 1 : \E b \in 1 .. B(new[i]) : c = <<i, b>>
  <2>1. \A c : c \in Cells(old) <=>
                  \E i \in 1 .. Len(old) : \E b \in 1 .. B(old[i]) : c = <<i, b>>
    BY CellIs
  <2>2. \A c : c \in Cells(new) <=>
                  \E i \in 1 .. Len(new) : \E b \in 1 .. B(new[i]) : c = <<i, b>>
    BY CellIs
  <2> QED  BY <1>1, <2>1, <2>2 DEF n
<1> HIDE DEF B
<1>6. h \in Bijection(Cells(old), R)
  <2>1. ASSUME NEW i \in 1 .. n, NEW b \in 1 .. B(old[i])
        PROVE  <<i, b>> \in Cells(old) /\ h[<<i, b>>] = <<up(i), b>>
    <3>1. <<i, b>> \in Cells(old)
      BY <1>5
    <3> QED  BY <3>1
  <2>2. ASSUME NEW i \in 1 .. n, NEW b \in 1 .. B(old[i])
        PROVE  <<up(i), b>> \in R
    <3>1. up(i) \in 1 .. n + 1 /\ up(i) # q /\ b \in 1 .. B(new[up(i)])
      BY <1>2
    <3>2. <<up(i), b>> \in Cells(new)
      BY <1>5, <3>1
    <3> QED  BY <3>1, <3>2
  <2>3. ASSUME NEW c \in R
        PROVE  \E d \in Cells(old) : h[d] = c
    <3>1. PICK j \in 1 .. n + 1 : \E b \in 1 .. B(new[j]) : c = <<j, b>>
      BY <1>5
    <3>2. PICK b \in 1 .. B(new[j]) : c = <<j, b>>
      BY <3>1
    <3>3. j # q
      BY <1>1, <3>2
    <3>4. PICK i \in 1 .. n : up(i) = j
      BY <1>3, <3>3
    <3>5. b \in 1 .. B(old[i])
      BY <1>2, <3>4
    <3> QED  BY <2>1, <3>2, <3>4, <3>5
  <2>4. h \in [Cells(old) -> R]
    <3>1. ASSUME NEW c \in Cells(old)
          PROVE  h[c] \in R
      <4>1. PICK i \in 1 .. n : \E b \in 1 .. B(old[i]) : c = <<i, b>>
        BY <1>5
      <4>2. PICK b \in 1 .. B(old[i]) : c = <<i, b>>
        BY <4>1
      <4> QED  BY <2>1, <2>2, <4>2
    <3> HIDE DEF R
    <3> QED  BY <3>1
  <2>5. ASSUME NEW c \in Cells(old), NEW d \in Cells(old), h[c] = h[d]
        PROVE  c = d
    <3>1. PICK i \in 1 .. n : \E b \in 1 .. B(old[i]) : c = <<i, b>>
      BY <1>5
    <3>2. PICK j \in 1 .. n : \E a \in 1 .. B(old[j]) : d = <<j, a>>
      BY <1>5
    <3>3. PICK b \in 1 .. B(old[i]) : c = <<i, b>>
      BY <3>1
    <3>4. PICK a \in 1 .. B(old[j]) : d = <<j, a>>
      BY <3>2
    <3>5. h[c] = <<up(i), b>> /\ h[d] = <<up(j), a>>
      BY <2>1, <3>3, <3>4
    <3>6. up(i) = up(j) /\ a = b
      BY <2>5, <3>5
    <3> QED  BY <1>4, <3>3, <3>4, <3>6
  <2> HIDE DEF h, R
  <2> QED  BY <2>3, <2>4, <2>5 DEF Bijection, Injection, Surjection, IsInjective
<1>7. IsFiniteSet(A) /\ Cardinality(A) = B(e) /\ B(e) \in Nat
  <2>1. B(e) \in Nat
    BY NodeBytes DEF B
  <2>2. IsFiniteSet(1 .. B(e)) /\ Cardinality(1 .. B(e)) = B(e)
    BY <2>1, FS_Interval
  <2>3. IsFiniteSet({q}) /\ Cardinality({q}) = 1
    BY FS_Singleton
  <2>4. IsFiniteSet(A) /\ Cardinality(A) = Cardinality({q}) * Cardinality(1 .. B(e))
    BY <2>2, <2>3, FS_Product
  <2> QED  BY <2>1, <2>2, <2>3, <2>4
<1>8. IsFiniteSet(R) /\ Cardinality(R) = Cardinality(Cells(old))
  <2>1. ExistsBijection(Cells(old), R)
    BY <1>6 DEF ExistsBijection
  <2> QED  BY <2>1, CellsFinite, FS_Bijection
<1>9. Cells(new) = A \cup R /\ A \cap R = {}
  <2>1. ASSUME NEW c \in A PROVE c \in Cells(new)
    <3>1. PICK b \in 1 .. B(e) : c = <<q, b>>
      OBVIOUS
    <3>2. q \in 1 .. n + 1 /\ b \in 1 .. B(new[q])
      BY <1>1
    <3> QED  BY <1>5, <3>1, <3>2
  <2> QED  BY <2>1
<1> HIDE DEF A, R
<1>10. Cardinality(Cells(new)) = Cardinality(A) + Cardinality(R)
  <2>1. Cardinality(A \cup R) = Cardinality(A) + Cardinality(R) - Cardinality({})
    BY <1>7, <1>8, <1>9, FS_Union
  <2>2. Cardinality({}) = 0 /\ Cardinality(A) \in Nat /\ Cardinality(R) \in Nat
    BY <1>7, <1>8, FS_EmptySet, FS_CardinalityType
  <2> QED  BY <1>9, <2>1, <2>2
<1>11. /\ BytesOf(old) = Cardinality(Cells(old)) /\ BytesOf(old) \in Nat
       /\ BytesOf(new) = Cardinality(Cells(new))
  BY CellsFinite
<1> QED  BY <1>7, <1>8, <1>10, <1>11 DEF B
-----------------------------------------------------------------------------
(* A memtable *)

\* No number up to the length of the list is left out.
Numbered(list) == \A n \in 1 .. Len(list) : \E i \in 1 .. Len(list) : list[i].seq = n

\* A memtable as the calls leave it.
Good(t) ==
    /\ t \in MemTable
    /\ Ascends(t.list)
    /\ t.next_seq_ = Len(t.list) + 1
    /\ Numbered(t.list)
    /\ \A i \in DOMAIN t.list : t.list[i].seq < t.next_seq_
    /\ t.size_bytes = BytesOf(t.list)

WriteInto(t, key, val) ==
    [Insert(t, key, val) EXCEPT !.size_bytes = @ + EntryBytes(val)]

LEMMA NewIsGood == Good(NewMemTable) /\ NewMemTable.immutable = FALSE
<1>1. PICK none \in Seq(Node) : none = <<>> /\ Len(none) = 0 /\ DOMAIN none = {}
  <2>1. <<>> \in Seq(Node) /\ Len(<<>>) = 0
    OBVIOUS
  <2>2. DOMAIN <<>> = {}
    OBVIOUS
  <2> QED  BY <2>1, <2>2
<1>2. BytesOf(none) = 0
  <2>1. Cells(none) = {}
    BY <1>1 DEF Cells
  <2> QED  BY <2>1, CellsFinite, FS_EmptySet
<1>3. NewMemTable \in MemTable
  BY <1>1 DEF NewMemTable, MemTable
<1>4. /\ NewMemTable.list = none /\ NewMemTable.next_seq_ = 1
      /\ NewMemTable.size_bytes = 0 /\ NewMemTable.immutable = FALSE
  BY <1>1 DEF NewMemTable
<1>5. Ascends(none)
  BY <1>1 DEF Ascends
<1>6. PICK t : t = NewMemTable
  OBVIOUS
<1>7. /\ t \in MemTable /\ t.list = none /\ t.next_seq_ = 1 /\ t.size_bytes = 0
      /\ Len(t.list) = 0 /\ DOMAIN t.list = {}
  BY <1>1, <1>3, <1>4, <1>6
<1>8. Ascends(t.list) /\ t.size_bytes = BytesOf(t.list)
  BY <1>2, <1>5, <1>7
<1>9. t.next_seq_ = Len(t.list) + 1 /\ Numbered(t.list)
  BY <1>7 DEF Numbered
<1>10. Good(t)
  BY <1>7, <1>8, <1>9 DEF Good
<1> QED  BY <1>4, <1>6, <1>10

\* The nodes of the new list are those of the old one, and e.
LEMMA SplicedNodes ==
    ASSUME NEW old \in Seq(Node), NEW new, NEW q, NEW e, Spliced(old, new, q, e)
    PROVE  /\ \A i \in 1 .. Len(new) :
                new[i] = e \/ \E j \in 1 .. Len(old) : new[i] = old[j]
           /\ \A j \in 1 .. Len(old) : \E i \in 1 .. Len(new) : new[i] = old[j]
           /\ \E i \in 1 .. Len(new) : new[i] = e
<1>1. PICK n \in Nat : n = Len(old)
  OBVIOUS
<1>2. /\ q \in 1 .. n + 1 /\ Len(new) = n + 1
      /\ \A j \in 1 .. q - 1 : new[j] = old[j]
      /\ new[q] = e
      /\ \A j \in q + 1 .. n + 1 : new[j] = old[j - 1]
  BY <1>1 DEF Spliced
<1>3. ASSUME NEW i \in 1 .. n + 1
      PROVE  new[i] = e \/ \E j \in 1 .. n : new[i] = old[j]
  <2>1. CASE i < q
    <3>1. i \in 1 .. q - 1 /\ i \in 1 .. n
      BY <1>2, <2>1
    <3> QED  BY <1>2, <3>1
  <2>2. CASE i = q
    BY <1>2, <2>2
  <2>3. CASE i > q
    <3>1. i \in q + 1 .. n + 1 /\ i - 1 \in 1 .. n
      BY <1>2, <2>3
    <3> QED  BY <1>2, <3>1
  <2> QED  BY <1>2, <2>1, <2>2, <2>3
<1>4. ASSUME NEW j \in 1 .. n
      PROVE  \E i \in 1 .. n + 1 : new[i] = old[j]
  <2>1. CASE j < q
    <3>1. j \in 1 .. q - 1 /\ j \in 1 .. n + 1
      BY <1>2, <2>1
    <3> QED  BY <1>2, <3>1
  <2>2. CASE j >= q
    <3>1. j + 1 \in q + 1 .. n + 1 /\ j + 1 \in 1 .. n + 1 /\ j + 1 - 1 = j
      BY <1>2, <2>2
    <3>2. new[j + 1] = old[j + 1 - 1]
      BY <1>2, <3>1
    <3>3. new[j + 1] = old[j]
      BY <3>1, <3>2
    <3> QED  BY <3>1, <3>3
  <2> QED  BY <1>2, <2>1, <2>2
<1> QED  BY <1>1, <1>2, <1>3, <1>4

LEMMA WriteIntoIsGood ==
    ASSUME NEW t, Good(t), NEW key \in Keys, NEW val \in Vals,
           t.next_seq_ <= MaxWrites
    PROVE  LET u == WriteInto(t, key, val)
           IN  /\ Good(u)
               /\ u.immutable = t.immutable
               /\ u.size_bytes = t.size_bytes + EntryBytes(val)
               /\ \E q : /\ Found(t.list, key, q)
                         /\ Spliced(t.list, u.list, q, NewNode(t, key, val))
<1>1. /\ t \in MemTable /\ t.list \in Seq(Node)
      /\ t.next_seq_ \in Nat /\ t.size_bytes \in Nat
  BY DEF Good, MemTable
<1>2. PICK w : w = Insert(t, key, val)
  OBVIOUS
<1>3. /\ w \in MemTable
      /\ w.next_seq_ = t.next_seq_ + 1
      /\ w.size_bytes = t.size_bytes /\ w.immutable = t.immutable
      /\ \E q : /\ Found(t.list, key, q)
                /\ Spliced(t.list, w.list, q, NewNode(t, key, val))
  BY <1>1, <1>2, InsertSplices
<1>4. PICK e \in Node : /\ e = NewNode(t, key, val)
                        /\ e.key = key /\ e.val = val /\ e.seq = t.next_seq_
  <2>1. t.next_seq_ \in 1 .. MaxWrites
    BY <1>1 DEF Good, MemTable
  <2>2. NewNode(t, key, val) \in Node
    BY <2>1 DEF NewNode, Node, Vals
  <2> QED  BY <2>2 DEF NewNode
<1>5. PICK q : Found(t.list, key, q) /\ Spliced(t.list, w.list, q, e)
  BY <1>3, <1>4
<1>6. w.list \in Seq(Node)
  BY <1>3 DEF MemTable
<1>7. EntryBytes(val) \in Nat
  BY EntryBytesType
<1>8. PICK s \in Nat : s = w.size_bytes + EntryBytes(val)
  BY <1>1, <1>3, <1>7
<1>9. PICK u : u = WriteInto(t, key, val)
  OBVIOUS
<1>10. /\ u \in MemTable
       /\ u.list = w.list /\ u.next_seq_ = w.next_seq_
       /\ u.size_bytes = s /\ u.immutable = w.immutable
  <2>1. u = [w EXCEPT !.size_bytes = s]
    BY <1>2, <1>8, <1>9 DEF WriteInto
  <2> QED  BY <1>3, <2>1 DEF MemTable
<1>11. Ascends(u.list)
  BY <1>1, <1>4, <1>5, <1>10, SplicedAscends DEF Good
<1>12. u.next_seq_ = Len(u.list) + 1
  <2>1. Len(w.list) = Len(t.list) + 1
    BY <1>5 DEF Spliced
  <2> QED  BY <1>3, <1>10, <2>1 DEF Good
<1>13. ASSUME NEW i \in DOMAIN u.list
       PROVE  u.list[i].seq < u.next_seq_
  <2>1. i \in 1 .. Len(w.list) /\ u.list[i] = w.list[i]
    BY <1>6, <1>10
  <2>2. w.list[i] = e \/ \E j \in 1 .. Len(t.list) : w.list[i] = t.list[j]
    <3>1. \A x \in 1 .. Len(w.list) :
            w.list[x] = e \/ \E j \in 1 .. Len(t.list) : w.list[x] = t.list[j]
      <4>1. PICK old \in Seq(Node) : old = t.list
        BY <1>1
      <4>2. PICK new : new = w.list
        OBVIOUS
      <4>3. Spliced(old, new, q, e)
        BY <1>5, <4>1, <4>2
      <4>4. \A x \in 1 .. Len(new) :
              new[x] = e \/ \E j \in 1 .. Len(old) : new[x] = old[j]
        BY <4>3, SplicedNodes
      <4> QED  BY <4>1, <4>2, <4>4
    <3> QED  BY <2>1, <3>1
  <2>3. ASSUME NEW j \in 1 .. Len(t.list)
        PROVE  t.list[j].seq < t.next_seq_ /\ t.list[j].seq \in Nat
    <3>1. j \in DOMAIN t.list /\ t.list[j] \in Node
      BY <1>1
    <3>2. t.list[j].seq \in 1 .. MaxWrites
      BY <3>1 DEF Node
    <3> QED  BY <3>1, <3>2 DEF Good
  <2>4. w.list[i].seq \in Nat /\ w.list[i].seq <= t.next_seq_
    <3>1. e.seq \in Nat /\ e.seq <= t.next_seq_
      BY <1>1, <1>4
    <3>2. ASSUME NEW j \in 1 .. Len(t.list), w.list[i] = t.list[j]
          PROVE  w.list[i].seq \in Nat /\ w.list[i].seq <= t.next_seq_
      <4>1. t.list[j].seq < t.next_seq_ /\ t.list[j].seq \in Nat
        BY <2>3
      <4> QED  BY <1>1, <3>2, <4>1
    <3> QED  BY <2>2, <3>1, <3>2
  <2> QED  BY <1>1, <1>3, <1>10, <2>1, <2>4
<1>14. u.size_bytes = BytesOf(u.list)
  <2>1. BytesOf(w.list) = BytesOf(t.list) + EntryBytes(e.val)
    BY <1>1, <1>5, <1>6, SplicedBytes
  <2> QED  BY <1>3, <1>4, <1>8, <1>10, <2>1 DEF Good
<1>15. Numbered(u.list)
  <2>1. PICK old \in Seq(Node) : old = t.list
    BY <1>1
  <2>2. PICK new : new = w.list
    OBVIOUS
  <2>3. Spliced(old, new, q, e)
    BY <1>5, <2>1, <2>2
  <2>4. /\ \A j \in 1 .. Len(old) : \E i \in 1 .. Len(new) : new[i] = old[j]
        /\ \E i \in 1 .. Len(new) : new[i] = e
    BY <2>3, SplicedNodes
  <2>5. Numbered(old) /\ t.next_seq_ = Len(old) + 1
    BY <2>1 DEF Good
  <2>6. Len(new) = Len(old) + 1 /\ Len(old) \in Nat
    BY <2>3 DEF Spliced
  <2>7. ASSUME NEW n \in 1 .. Len(new)
        PROVE  \E i \in 1 .. Len(new) : new[i].seq = n
    <3>1. n \in 1 .. Len(old) \/ n = t.next_seq_
      BY <2>5, <2>6
    <3>2. CASE n \in 1 .. Len(old)
      <4>1. PICK j \in 1 .. Len(old) : old[j].seq = n
        BY <2>5, <3>2 DEF Numbered
      <4>2. PICK i \in 1 .. Len(new) : new[i] = old[j]
        BY <2>4
      <4> QED  BY <4>1, <4>2
    <3>3. CASE n = t.next_seq_
      BY <1>4, <2>4, <3>3
    <3> QED  BY <3>1, <3>2, <3>3
  <2>8. Numbered(new)
    BY <2>7 DEF Numbered
  <2> QED  BY <1>10, <2>2, <2>8
<1>16. Good(u)
  BY <1>10, <1>11, <1>12, <1>13, <1>14, <1>15 DEF Good
<1> QED  BY <1>3, <1>4, <1>5, <1>8, <1>9, <1>10, <1>16
-----------------------------------------------------------------------------
(* The memtables *)

\* Every memtable is good, and all but the last are immutable.
AllGood(ls) ==
    /\ ls \in Seq(MemTable) /\ Len(ls) \in Nat \ {0}
    /\ \A p \in 1 .. Len(ls) : Good(ls[p]) /\ ls[p].immutable = (p < Len(ls))

\* A memtable is within its limit, or has one entry.
Within(t) ==
    /\ t.size_bytes = BytesOf(t.list)
    /\ t.size_bytes <= max_memtable_bytes \/ Len(t.list) = 1

\* The first entry of the list did not fit into a memtable of so many bytes.
Overflows(bytes, list) ==
    \E i \in DOMAIN list :
        list[i].seq = 1 /\ bytes + EntryBytes(list[i].val) > max_memtable_bytes

AllFull(ls) ==
    \A p \in DOMAIN ls :
        /\ Within(ls[p])
        /\ p < Len(ls) => Overflows(ls[p].size_bytes, ls[p + 1].list)

\* What a write makes of the memtables ls: the new entry goes to table t, which
\* is the last one, or a new one behind it.
Wrote(ls, ms, key, val) ==
    \E t :
        /\ Good(t) /\ t.immutable = FALSE /\ t.next_seq_ <= MaxWrites
        /\ ms[Len(ms)] = WriteInto(t, key, val)
        /\ \A p \in 1 .. Len(ls) - 1 : ms[p] = ls[p]
        /\ \/ /\ Len(ms) = Len(ls) /\ t = ls[Len(ls)]
              /\ t.size_bytes + EntryBytes(val) <= max_memtable_bytes
           \/ /\ Len(ms) = Len(ls) + 1 /\ t = NewMemTable
              /\ ms[Len(ls)] = [ls[Len(ls)] EXCEPT !.immutable = TRUE]
              /\ ls[Len(ls)].size_bytes + EntryBytes(val) > max_memtable_bytes

LEMMA Sealed ==
    ASSUME NEW t, Good(t)
    PROVE  LET u == [t EXCEPT !.immutable = TRUE]
           IN  /\ Good(u) /\ u.immutable = TRUE
               /\ u.list = t.list /\ u.size_bytes = t.size_bytes
<1>1. PICK u : u = [t EXCEPT !.immutable = TRUE]
  OBVIOUS
<1>2. t \in MemTable
  BY DEF Good
<1>3. /\ u \in MemTable /\ u.immutable = TRUE /\ u.list = t.list
      /\ u.size_bytes = t.size_bytes /\ u.next_seq_ = t.next_seq_
  BY <1>1, <1>2 DEF MemTable
<1>4. Good(u)
  BY <1>3 DEF Good
<1> QED  BY <1>1, <1>3, <1>4

LEMMA WroteIsGood ==
    ASSUME NEW ls, AllGood(ls), NEW ms \in Seq(MemTable),
           NEW key \in Keys, NEW val \in Vals, Wrote(ls, ms, key, val)
    PROVE  AllGood(ms)
<1>1. PICK n \in Nat \ {0} : n = Len(ls)
  BY DEF AllGood
<1>2. PICK t :
        /\ Good(t) /\ t.immutable = FALSE /\ t.next_seq_ <= MaxWrites
        /\ ms[Len(ms)] = WriteInto(t, key, val)
        /\ \A p \in 1 .. n - 1 : ms[p] = ls[p]
        /\ \/ Len(ms) = n
           \/ Len(ms) = n + 1 /\ ms[n] = [ls[n] EXCEPT !.immutable = TRUE]
  BY <1>1 DEF Wrote
<1>3. \A p \in 1 .. n : Good(ls[p]) /\ ls[p].immutable = (p < n)
  BY <1>1 DEF AllGood
<1>4. Good(ms[Len(ms)]) /\ ms[Len(ms)].immutable = FALSE
  BY <1>2, WriteIntoIsGood
<1>5. \A p \in 1 .. n - 1 : Good(ms[p]) /\ ms[p].immutable = TRUE
  <2> TAKE p \in 1 .. n - 1
  <2>1. p \in 1 .. n /\ p < n
    BY <1>1
  <2> QED  BY <1>2, <1>3, <2>1
<1>6. CASE Len(ms) = n
  <2>1. ASSUME NEW p \in 1 .. n
        PROVE  Good(ms[p]) /\ ms[p].immutable = (p < n)
    <3>1. CASE p < n
      <4>1. p \in 1 .. n - 1
        BY <1>1, <3>1
      <4> QED  BY <1>5, <3>1, <4>1
    <3>2. CASE p = n
      <4>1. (p < n) = FALSE
        BY <1>1, <3>2
      <4>2. Good(ms[p]) /\ ms[p].immutable = FALSE
        BY <1>4, <1>6, <3>2
      <4> QED  BY <4>1, <4>2, Zenon
    <3> QED  BY <1>1, <3>1, <3>2
  <2> QED  BY <1>1, <1>6, <2>1 DEF AllGood
<1>7. CASE Len(ms) = n + 1 /\ ms[n] = [ls[n] EXCEPT !.immutable = TRUE]
  <2>1. Good(ms[n]) /\ ms[n].immutable = TRUE
    <3>1. n \in 1 .. n
      BY <1>1
    <3>2. Good(ls[n])
      BY <1>3, <3>1
    <3> QED  BY <1>7, <3>2, Sealed
  <2>2. ASSUME NEW p \in 1 .. n + 1
        PROVE  Good(ms[p]) /\ ms[p].immutable = (p < n + 1)
    <3>1. CASE p < n
      <4>1. p \in 1 .. n - 1 /\ p < n + 1
        BY <1>1, <3>1
      <4> QED  BY <1>5, <3>1, <4>1
    <3>2. CASE p = n
      <4>1. p < n + 1
        BY <1>1, <3>2
      <4> QED  BY <2>1, <3>2, <4>1
    <3>3. CASE p = n + 1
      <4>1. (p < n + 1) = FALSE
        BY <1>1, <3>3
      <4>2. Good(ms[p]) /\ ms[p].immutable = FALSE
        BY <1>4, <1>7, <3>3
      <4> QED  BY <4>1, <4>2, Zenon
    <3> QED  BY <1>1, <3>1, <3>2, <3>3
  <2>3. n + 1 \in Nat \ {0}
    BY <1>1
  <2> QED  BY <1>7, <2>2, <2>3 DEF AllGood
<1> QED  BY <1>2, <1>6, <1>7

LEMMA WroteIsFull ==
    ASSUME NEW ls, AllGood(ls), AllFull(ls), NEW ms, AllGood(ms),
           NEW key \in Keys, NEW val \in Vals, Wrote(ls, ms, key, val)
    PROVE  AllFull(ms)
<1>1. PICK n \in Nat \ {0} : n = Len(ls)
  BY DEF AllGood
<1>2. PICK t :
        /\ Good(t) /\ t.immutable = FALSE /\ t.next_seq_ <= MaxWrites
        /\ ms[Len(ms)] = WriteInto(t, key, val)
        /\ \A p \in 1 .. n - 1 : ms[p] = ls[p]
        /\ \/ /\ Len(ms) = n /\ t = ls[n]
              /\ t.size_bytes + EntryBytes(val) <= max_memtable_bytes
           \/ /\ Len(ms) = n + 1 /\ t = NewMemTable
              /\ ms[n] = [ls[n] EXCEPT !.immutable = TRUE]
              /\ ls[n].size_bytes + EntryBytes(val) > max_memtable_bytes
  BY <1>1 DEF Wrote
<1>3. PICK u : u = ms[Len(ms)]
  OBVIOUS
<1>4. PICK q : /\ Good(u) /\ u.size_bytes = t.size_bytes + EntryBytes(val)
               /\ Spliced(t.list, u.list, q, NewNode(t, key, val))
  BY <1>2, <1>3, WriteIntoIsGood
<1>5. t.list \in Seq(Node) /\ u.list \in Seq(Node)
  BY <1>2, <1>4 DEF Good, MemTable
<1>6. \A p \in 1 .. n : Within(ls[p])
                        /\ (p < n => Overflows(ls[p].size_bytes, ls[p + 1].list))
  <2>1. DOMAIN ls = 1 .. n
    BY <1>1 DEF AllGood
  <2> QED  BY <1>1, <2>1 DEF AllFull
<1>7. \A p \in 1 .. n - 1 : Within(ms[p])
  <2>1. \A p \in 1 .. n - 1 : p \in 1 .. n
    BY <1>1
  <2> QED  BY <1>2, <1>6, <2>1
<1>8. \A p \in 1 .. n - 2 : Overflows(ms[p].size_bytes, ms[p + 1].list)
  <2>1. \A p \in 1 .. n - 2 : /\ p \in 1 .. n - 1 /\ p + 1 \in 1 .. n - 1
                              /\ p \in 1 .. n /\ p < n
    BY <1>1
  <2> QED  BY <1>2, <1>6, <2>1
<1>9. n - 1 \in 1 .. n => Overflows(ms[n - 1].size_bytes, ls[n].list)
  <2> HAVE n - 1 \in 1 .. n
  <2>1. n - 1 < n /\ n - 1 + 1 = n /\ n - 1 \in 1 .. n - 1
    BY <1>1
  <2> QED  BY <1>2, <1>6, <2>1
<1>10. CASE Len(ms) = n /\ t = ls[n]
            /\ t.size_bytes + EntryBytes(val) <= max_memtable_bytes
  <2>1. Within(ms[n])
    BY <1>3, <1>4, <1>10 DEF Within, Good
  <2>2. n - 1 \in 1 .. n => Overflows(ms[n - 1].size_bytes, ms[n].list)
    <3> HAVE n - 1 \in 1 .. n
    <3>1. PICK j \in DOMAIN t.list :
            /\ t.list[j].seq = 1
            /\ ms[n - 1].size_bytes + EntryBytes(t.list[j].val) > max_memtable_bytes
      BY <1>9, <1>10 DEF Overflows
    <3>2. j \in 1 .. Len(t.list)
      BY <1>5, <3>1
    <3>3. PICK i \in 1 .. Len(u.list) : u.list[i] = t.list[j]
      BY <1>4, <1>5, <3>2, SplicedNodes
    <3>4. i \in DOMAIN u.list
      BY <1>5, <3>3
    <3> QED  BY <1>3, <1>10, <3>1, <3>3, <3>4 DEF Overflows
  <2>3. ASSUME NEW p \in DOMAIN ms
        PROVE  /\ Within(ms[p])
               /\ p < Len(ms) => Overflows(ms[p].size_bytes, ms[p + 1].list)
    <3>1. p \in 1 .. n
      BY <1>10 DEF AllGood
    <3>2. CASE p = n
      BY <1>1, <1>10, <2>1, <3>2
    <3>3. CASE p = n - 1
      <4>1. p \in 1 .. n - 1 /\ p + 1 = n
        BY <1>1, <3>1, <3>3
      <4> QED  BY <1>7, <2>2, <3>1, <3>3, <4>1
    <3>4. CASE p < n - 1
      <4>1. p \in 1 .. n - 1 /\ p \in 1 .. n - 2
        BY <1>1, <3>1, <3>4
      <4> QED  BY <1>7, <1>8, <4>1
    <3> QED  BY <1>1, <3>1, <3>2, <3>3, <3>4
  <2> QED  BY <2>3 DEF AllFull
<1>11. CASE /\ Len(ms) = n + 1 /\ t = NewMemTable
            /\ ms[n] = [ls[n] EXCEPT !.immutable = TRUE]
            /\ ls[n].size_bytes + EntryBytes(val) > max_memtable_bytes
  <2>1. ms[n].list = ls[n].list /\ ms[n].size_bytes = ls[n].size_bytes
    <3>1. n \in 1 .. n
      BY <1>1
    <3>2. Good(ls[n])
      BY <1>1, <3>1 DEF AllGood
    <3> QED  BY <1>11, <3>2, Sealed
  <2>2. Within(ms[n])
    <3>1. Within(ls[n])
      BY <1>1, <1>6
    <3> QED  BY <2>1, <3>1 DEF Within
  <2>3. Within(ms[n + 1])
    <3>1. Len(t.list) = 0
      BY <1>11 DEF NewMemTable
    <3>2. Len(u.list) = 1
      BY <1>4, <3>1 DEF Spliced
    <3> QED  BY <1>3, <1>4, <1>11, <3>2 DEF Within, Good
  <2>4. Overflows(ms[n].size_bytes, ms[n + 1].list)
    <3>1. PICK i \in 1 .. Len(u.list) : u.list[i] = NewNode(t, key, val)
      BY <1>4, <1>5, SplicedNodes
    <3>2. u.list[i].seq = 1 /\ u.list[i].val = val
      BY <1>11, <3>1 DEF NewNode, NewMemTable
    <3>3. i \in DOMAIN u.list
      BY <1>5, <3>1
    <3> QED  BY <1>3, <1>11, <2>1, <3>2, <3>3 DEF Overflows
  <2>5. ASSUME NEW p \in DOMAIN ms
        PROVE  /\ Within(ms[p])
               /\ p < Len(ms) => Overflows(ms[p].size_bytes, ms[p + 1].list)
    <3>1. p \in 1 .. n + 1
      BY <1>11 DEF AllGood
    <3>2. CASE p = n + 1
      BY <1>1, <1>11, <2>3, <3>2
    <3>3. CASE p = n
      BY <2>2, <2>4, <3>3
    <3>4. CASE p = n - 1
      <4>1. p \in 1 .. n - 1 /\ p \in 1 .. n /\ p + 1 = n
        BY <1>1, <3>1, <3>4
      <4> QED  BY <1>7, <1>9, <2>1, <3>4, <4>1
    <3>5. CASE p < n - 1
      <4>1. p \in 1 .. n - 1 /\ p \in 1 .. n - 2
        BY <1>1, <3>1, <3>5
      <4> QED  BY <1>7, <1>8, <4>1
    <3> QED  BY <1>1, <3>1, <3>2, <3>3, <3>4, <3>5
  <2> QED  BY <2>5 DEF AllFull
<1> QED  BY <1>2, <1>10, <1>11
-----------------------------------------------------------------------------
(* The database *)

LEMMA LayersAre ==
    ASSUME NEW old \in Seq(MemTable), NEW t \in MemTable
    PROVE  /\ Append(old, t) \in Seq(MemTable)
           /\ Len(old) \in Nat
           /\ Len(Append(old, t)) = Len(old) + 1
           /\ \A p \in 1 .. Len(old) : Append(old, t)[p] = old[p]
           /\ Append(old, t)[Len(old) + 1] = t
<1>1. Len(old) \in Nat
  OBVIOUS
<1> QED  BY <1>1, AppendProperties

\* The mutable memtable has no more entries than there are nodes.
LEMMA NodesBound ==
    ASSUME mutable_ \in MemTable, immutables_ \in Seq(MemTable)
    PROVE  /\ Cardinality(Nodes) \in Nat
           /\ Len(mutable_.list) <= Cardinality(Nodes)
<1>1. PICK n \in Nat : n = Len(Layers)
  BY LayersAre DEF Layers
<1>2. /\ DOMAIN Layers = 1 .. n /\ n \in 1 .. n /\ Layers[n] = mutable_
      /\ \A p \in 1 .. n : Layers[p] \in MemTable
  <2>1. Layers \in Seq(MemTable) /\ n = Len(immutables_) + 1
        /\ Len(immutables_) \in Nat /\ Layers[Len(immutables_) + 1] = mutable_
    BY <1>1, LayersAre DEF Layers
  <2>2. n \in 1 .. n /\ Layers[n] = mutable_
    BY <2>1
  <2>3. DOMAIN Layers = 1 .. n /\ \A p \in 1 .. n : Layers[p] \in MemTable
    <3>1. PICK ls \in Seq(MemTable) : ls = Layers
      BY <2>1
    <3>2. DOMAIN ls = 1 .. Len(ls) /\ \A p \in 1 .. Len(ls) : ls[p] \in MemTable
      OBVIOUS
    <3> QED  BY <1>1, <3>1, <3>2
  <2> QED  BY <2>2, <2>3
<1> DEFINE f == [p \in 1 .. n |-> {p} \X DOMAIN Layers[p].list]
           L == mutable_.list
           T == {n} \X (1 .. Len(L))
<1>3. ASSUME NEW p \in 1 .. n
      PROVE  IsFiniteSet(f[p])
  <2>1. Layers[p].list \in Seq(Node)
    BY <1>2 DEF MemTable
  <2>2. DOMAIN Layers[p].list = 1 .. Len(Layers[p].list) /\ Len(Layers[p].list) \in Nat
    BY <2>1
  <2>3. IsFiniteSet(DOMAIN Layers[p].list)
    BY <2>2, FS_Interval
  <2>4. IsFiniteSet({p})
    BY FS_Singleton
  <2>5. IsFiniteSet({p} \X DOMAIN Layers[p].list)
    BY <2>3, <2>4, FS_Product
  <2> QED  BY <2>5
<1>4. Nodes = UNION {f[p] : p \in 1 .. n}
  BY <1>2 DEF Nodes
<1>5. L \in Seq(Node) /\ Len(L) \in Nat /\ DOMAIN L = 1 .. Len(L)
  <2>1. L \in Seq(Node)
    BY DEF MemTable
  <2> HIDE DEF L
  <2> QED  BY <2>1
<1>6. T \in SUBSET Nodes
  <2>1. f[n] = {n} \X DOMAIN L
    BY <1>2
  <2> HIDE DEF f, L
  <2> QED  BY <1>2, <1>4, <1>5, <2>1
<1> HIDE DEF f, L
<1>7. IsFiniteSet(Nodes)
  BY <1>1, <1>3, <1>4, FiniteUnion
<1>8. Cardinality(T) = Len(L)
  <2>1. PICK m \in Nat : m = Len(L)
    BY <1>5
  <2>2. IsFiniteSet(1 .. m) /\ Cardinality(1 .. m) = m
    BY FS_Interval
  <2>3. IsFiniteSet({n}) /\ Cardinality({n}) = 1
    BY FS_Singleton
  <2>4. Cardinality({n} \X (1 .. m)) = 1 * m
    BY <2>2, <2>3, FS_Product
  <2>5. 1 * m = m
    OBVIOUS
  <2> QED  BY <2>1, <2>4, <2>5
<1> HIDE DEF T
<1>9. Cardinality(T) <= Cardinality(Nodes) /\ Cardinality(Nodes) \in Nat
  BY <1>6, <1>7, FS_Subset, FS_CardinalityType
<1> QED  BY <1>8, <1>9 DEF L

Inv ==
    /\ mutable_ \in MemTable
    /\ immutables_ \in Seq(MemTable)
    /\ done # <<>> => done.key \in Keys /\ done.val \in Vals
    /\ AllGood(Layers)
    /\ AllFull(Layers)

LEMMA InitInv == Init => Inv
<1> SUFFICES ASSUME Init PROVE Inv
  OBVIOUS
<1>1. Good(mutable_) /\ mutable_.immutable = FALSE /\ mutable_ = NewMemTable
  BY NewIsGood DEF Init
<1>2. mutable_ \in MemTable
  BY <1>1 DEF Good
<1>3. immutables_ \in Seq(MemTable) /\ Len(immutables_) = 0
  BY DEF Init
<1>4. Layers \in Seq(MemTable) /\ Len(Layers) = 1 /\ Layers[1] = mutable_
  BY <1>2, <1>3, LayersAre DEF Layers
<1>5. \A p \in 1 .. 1 : p = 1 /\ (p < 1) = FALSE
  OBVIOUS
<1>6. AllGood(Layers)
  <2>1. \A p \in 1 .. 1 : Layers[p].immutable = (p < 1)
    BY <1>1, <1>4, <1>5, Zenon
  <2>2. \A p \in 1 .. 1 : Good(Layers[p])
    BY <1>1, <1>4, <1>5
  <2> QED  BY <1>4, <2>1, <2>2 DEF AllGood
<1>7. AllFull(Layers)
  <2>1. mutable_.size_bytes = 0 /\ mutable_.size_bytes <= max_memtable_bytes
    BY <1>1 DEF NewMemTable
  <2>2. Within(mutable_)
    BY <1>1, <2>1 DEF Within, Good
  <2>3. DOMAIN Layers = 1 .. 1
    BY <1>4
  <2> QED  BY <1>4, <1>5, <2>2, <2>3 DEF AllFull
<1> QED  BY <1>2, <1>3, <1>6, <1>7 DEF Inv, Init

\* A write has room for one more sequence number, and does to the memtables
\* what Wrote says.
LEMMA WriteStep ==
    ASSUME Inv, NEW key \in Keys, NEW val \in Vals, Write(key, val)
    PROVE  /\ mutable_' \in MemTable /\ immutables_' \in Seq(MemTable)
           /\ Layers' \in Seq(MemTable)
           /\ Wrote(Layers, Layers', key, val)
<1>1. PICK n \in Nat : n = Len(immutables_) + 1
  BY DEF Inv
<1>2. /\ Layers \in Seq(MemTable) /\ Len(Layers) = n /\ Layers[n] = mutable_
      /\ \A p \in 1 .. n - 1 : Layers[p] = immutables_[p]
      /\ n - 1 = Len(immutables_) /\ n >= 1
  <2>1. n - 1 = Len(immutables_) /\ n >= 1
    BY <1>1 DEF Inv
  <2> QED  BY <1>1, <2>1, LayersAre DEF Layers, Inv
<1>3. Good(mutable_) /\ mutable_.immutable = FALSE
  <2>1. n \in 1 .. n /\ (n < n) = FALSE
    BY <1>2
  <2>2. Good(Layers[n]) /\ Layers[n].immutable = (n < n)
    BY <1>2, <2>1 DEF Inv, AllGood
  <2> QED  BY <1>2, <2>1, <2>2, Zenon
<1>4. mutable_.next_seq_ <= MaxWrites /\ 1 <= MaxWrites
  <2>1. Cardinality(Nodes) \in Nat /\ Len(mutable_.list) <= Cardinality(Nodes)
    BY NodesBound DEF Inv
  <2>2. Cardinality(Nodes) < MaxWrites
    BY DEF Write
  <2>3. mutable_.next_seq_ = Len(mutable_.list) + 1 /\ Len(mutable_.list) \in Nat
    BY <1>3 DEF Good, MemTable
  <2> QED  BY <2>1, <2>2, <2>3
<1>5. CASE ~TooFull(EntryBytes(val))
  <2>1. immutables_' = immutables_ /\ mutable_' = WriteInto(mutable_, key, val)
    BY <1>5 DEF Write, InsertIn, WriteInto
  <2>2. Good(mutable_')
    BY <1>3, <1>4, <2>1, WriteIntoIsGood
  <2>3. mutable_' \in MemTable /\ immutables_' \in Seq(MemTable)
    BY <2>1, <2>2 DEF Good, Inv
  <2>4. /\ Layers' \in Seq(MemTable) /\ Len(Layers') = n /\ Layers'[n] = mutable_'
        /\ \A p \in 1 .. n - 1 : Layers'[p] = immutables_[p]
    BY <1>1, <1>2, <2>1, <2>3, LayersAre DEF Layers
  <2>5. mutable_.size_bytes + EntryBytes(val) <= max_memtable_bytes
    <3>1. mutable_.size_bytes \in Nat /\ EntryBytes(val) \in Nat
      BY EntryBytesType DEF Inv, MemTable
    <3> QED  BY <1>5, <3>1 DEF TooFull
  <2>6. Wrote(Layers, Layers', key, val)
    <3>1. \A p \in 1 .. n - 1 : Layers'[p] = Layers[p]
      BY <1>2, <2>4
    <3> QED  BY <1>2, <1>3, <1>4, <2>1, <2>4, <2>5, <3>1 DEF Wrote
  <2> QED  BY <2>3, <2>4, <2>6
<1>6. CASE TooFull(EntryBytes(val))
  <2>1. PICK s : s = [mutable_ EXCEPT !.immutable = TRUE]
    OBVIOUS
  <2>2. /\ immutables_' = Append(immutables_, s)
        /\ mutable_' = WriteInto(NewMemTable, key, val)
    BY <1>6, <2>1 DEF Write, InsertIn, WriteInto
  <2>3. s \in MemTable
    BY <1>3, <2>1, Sealed DEF Good
  <2>4. Good(mutable_') /\ NewMemTable.next_seq_ <= MaxWrites
    <3>1. NewMemTable.next_seq_ = 1
      BY DEF NewMemTable
    <3> QED  BY <1>4, <2>2, <3>1, NewIsGood, WriteIntoIsGood
  <2>5. mutable_' \in MemTable
    BY <2>4 DEF Good
  <2>6. /\ immutables_' \in Seq(MemTable) /\ Len(immutables_') = n
        /\ \A p \in 1 .. n - 1 : immutables_'[p] = immutables_[p]
        /\ immutables_'[n] = s
    BY <1>1, <1>2, <2>2, <2>3, LayersAre DEF Inv
  <2>7. /\ Layers' \in Seq(MemTable) /\ Len(Layers') = n + 1
        /\ Layers'[n + 1] = mutable_'
        /\ \A p \in 1 .. n : Layers'[p] = immutables_'[p]
    BY <2>5, <2>6, LayersAre DEF Layers
  <2>8. mutable_.size_bytes + EntryBytes(val) > max_memtable_bytes
    BY <1>6 DEF TooFull
  <2>9. Wrote(Layers, Layers', key, val)
    <3>1. \A p \in 1 .. n - 1 : p \in 1 .. n /\ Layers'[p] = Layers[p]
      <4>1. \A p \in 1 .. n - 1 : p \in 1 .. n
        BY <1>1
      <4> QED  BY <1>2, <2>6, <2>7, <4>1
    <3>2. Layers'[n] = [Layers[n] EXCEPT !.immutable = TRUE]
      <4>1. n \in 1 .. n
        BY <1>2
      <4> QED  BY <1>2, <2>1, <2>6, <2>7, <4>1
    <3>3. Good(NewMemTable) /\ NewMemTable.immutable = FALSE
      BY NewIsGood
    <3> QED  BY <1>2, <2>2, <2>4, <2>7, <2>8, <3>1, <3>2, <3>3 DEF Wrote
  <2> QED  BY <2>5, <2>6, <2>7, <2>9
<1> QED  BY <1>5, <1>6

\* Every step is a write of some value, or of a tombstone.
LEMMA NextWrites ==
    ASSUME Next
    PROVE  \E key \in Keys, val \in Vals : Write(key, val)
  BY DEF Next, Put, Delete, Vals

LEMMA NextInv ==
    ASSUME Inv, [Next]_vars
    PROVE  Inv'
<1>1. CASE UNCHANGED vars
  BY <1>1 DEF Inv, vars, Layers
<1>2. CASE Next
  <2>1. PICK key \in Keys, val \in Vals : Write(key, val)
    BY <1>2, NextWrites
  <2>2. /\ mutable_' \in MemTable /\ immutables_' \in Seq(MemTable)
        /\ Layers' \in Seq(MemTable)
        /\ Wrote(Layers, Layers', key, val)
    BY <2>1, WriteStep
  <2>3. AllGood(Layers) /\ AllFull(Layers)
    BY DEF Inv
  <2>4. AllGood(Layers')
    BY <2>2, <2>3, WroteIsGood
  <2>5. AllFull(Layers')
    BY <2>2, <2>3, <2>4, WroteIsFull
  <2>6. done'.key \in Keys /\ done'.val \in Vals
    BY <2>1 DEF Write
  <2>7. AllGood(Layers)' /\ AllFull(Layers)'
    BY <2>4, <2>5 DEF AllGood, AllFull
  <2> QED  BY <2>2, <2>6, <2>7 DEF Inv
<1> QED  BY <1>1, <1>2

LEMMA SpecInv == Spec => []Inv
  BY InitInv, NextInv, PTL DEF Spec

\* Every value has its type; the numbers of the entries of a memtable are those
\* from 1 to their count, each once; all memtables but the mutable one are
\* immutable.
THEOREM Types == Spec => []TypeOK
<1>1. ASSUME Inv PROVE TypeOK
  <2>1. AllGood(Layers) /\ DOMAIN Layers = 1 .. Len(Layers)
    BY <1>1 DEF Inv, AllGood
  <2>2. \A p \in DOMAIN Layers :
          /\ Layers[p].immutable = (p < Len(Layers))
          /\ Good(Layers[p])
    BY <2>1 DEF AllGood
  <2>3. ASSUME NEW p \in DOMAIN Layers
        PROVE  /\ Layers[p].next_seq_ = Len(Layers[p].list) + 1
               /\ {Layers[p].list[i].seq : i \in DOMAIN Layers[p].list}
                    = 1 .. Len(Layers[p].list)
    <3>1. PICK t : t = Layers[p]
      OBVIOUS
    <3>2. PICK list \in Seq(Node) : list = t.list
      BY <2>2, <3>1 DEF Good, MemTable
    <3>3. /\ t.next_seq_ = Len(list) + 1 /\ Numbered(list)
          /\ \A i \in DOMAIN list : list[i].seq < Len(list) + 1
      BY <2>2, <3>1, <3>2 DEF Good
    <3>4. DOMAIN list = 1 .. Len(list) /\ Len(list) \in Nat
      BY <3>2
    <3>5. ASSUME NEW i \in DOMAIN list
          PROVE  list[i].seq \in Nat /\ list[i].seq >= 1
      <4>1. list[i] \in Node
        BY <3>2
      <4>2. list[i].seq \in 1 .. MaxWrites
        BY <4>1 DEF Node
      <4> QED  BY <4>2
    <3>6. \A i \in DOMAIN list : list[i].seq \in 1 .. Len(list)
      BY <3>3, <3>4, <3>5
    <3>7. {list[i].seq : i \in DOMAIN list} = 1 .. Len(list)
      BY <3>3, <3>4, <3>6 DEF Numbered
    <3> QED  BY <3>1, <3>2, <3>3, <3>7
  <2> QED  BY <1>1, <2>2, <2>3 DEF TypeOK, Inv, Vals
<1> QED  BY <1>1, SpecInv, PTL

\* A memtable is replaced when the next entry does not fit, and not before: each
\* stays within its bytes unless one entry alone is larger, and the first entry
\* of the next one would have taken it over them.
THEOREM MemTablesFillUp == Spec => []MemTablesAreFull
<1>1. ASSUME Inv PROVE MemTablesAreFull
  BY <1>1 DEF Inv, AllFull, Within, Overflows, MemTablesAreFull
<1> QED  BY <1>1, SpecInv, PTL
-----------------------------------------------------------------------------
(* What Get returns *)

\* Memtable p of ls is the newest that has an entry of k, and val is what it says.
Decides(ls, p, k, val) ==
    /\ p \in 1 .. Len(ls)
    /\ GetLatestEntry(ls[p], k) = <<val>>
    /\ \A q \in p + 1 .. Len(ls) : GetLatestEntry(ls[q], k) = <<>>

\* No memtable has an entry of k.
Unknown(ls, k) == \A p \in 1 .. Len(ls) : GetLatestEntry(ls[p], k) = <<>>

\* Get, of the memtables ls.
Answer(ls, key) ==
    CHOOSE val \in Values \cup {Tombstone} :
        \/ \E p \in DOMAIN ls :
                /\ /\ GetLatestEntry(ls[p], key) # <<>>
                   /\ \A q \in p + 1 .. Len(ls) :
                        ~(GetLatestEntry(ls[q], key) # <<>>)
                /\ GetLatestEntry(ls[p], key) = <<val>>
        \/ /\ val = Tombstone
           /\ \A p \in DOMAIN ls : ~(GetLatestEntry(ls[p], key) # <<>>)

LEMMA GetIsAnswer ==
    \A key : Get(key) = Answer(Layers, key) /\ Get(key)' = Answer(Layers', key)
<1> TAKE key
<1>1. Get(key) = Answer(Layers, key)
  BY DEF Get, Answer, StopsAt, Has
<1>2. Get(key)' = Answer(Layers', key)
  BY DEF Get, Answer, StopsAt, Has
<1> QED  BY <1>1, <1>2

\* Some memtable decides a key, or none knows it.
LEMMA SomeDecides ==
    ASSUME NEW ls, AllGood(ls), NEW k \in Keys
    PROVE  \/ Unknown(ls, k)
           \/ \E p \in 1 .. Len(ls), val \in Vals : Decides(ls, p, k, val)
<1>1. PICK n \in Nat : n = Len(ls)
  BY DEF AllGood
<1> DEFINE H == {p \in 1 .. n : GetLatestEntry(ls[p], k) # <<>>}
<1>2. CASE H = {}
  BY <1>1, <1>2 DEF Unknown
<1>3. CASE H # {}
  <2>1. H \in SUBSET (1 .. n) /\ H \in SUBSET Int /\ IsFiniteSet(1 .. n)
    BY FS_Interval
  <2>2. IsFiniteSet(H)
    <3> HIDE DEF H
    <3> QED  BY <2>1, FS_Subset
  <2>3. PICK p \in H : \A q \in H : p >= q
    <3> HIDE DEF H
    <3> QED  BY <1>3, <2>1, <2>2, UpperBoundExists
  <2>4. \A q \in p + 1 .. n : GetLatestEntry(ls[q], k) = <<>>
    <3>1. \A q \in p + 1 .. n : q \in 1 .. n /\ ~(p >= q)
      BY <2>3
    <3> QED  BY <2>3, <3>1
  <2>5. ls[p].list \in Seq(Node)
    BY <1>1, <2>3 DEF AllGood, Good, MemTable
  <2>6. PICK val \in Vals : GetLatestEntry(ls[p], k) = <<val>>
    BY <2>3, <2>5, LatestType
  <2> QED  BY <1>1, <2>3, <2>4, <2>6 DEF Decides
<1> QED  BY <1>2, <1>3

LEMMA OneDecides ==
    ASSUME NEW ls, Len(ls) \in Nat, NEW k,
           NEW p, NEW val, Decides(ls, p, k, val),
           NEW q, NEW other, Decides(ls, q, k, other)
    PROVE  val = other
<1>1. PICK n \in Nat : n = Len(ls)
  OBVIOUS
<1>2. p \in 1 .. n /\ q \in 1 .. n
  BY <1>1 DEF Decides
<1>3. GetLatestEntry(ls[p], k) = <<val>> /\ GetLatestEntry(ls[q], k) = <<other>>
  BY DEF Decides
<1>4. \A v : <<v>> # <<>> /\ <<v>>[1] = v
  OBVIOUS
<1>5. ASSUME p < q PROVE FALSE
  <2>1. q \in p + 1 .. n
    BY <1>2, <1>5
  <2>2. GetLatestEntry(ls[q], k) = <<>>
    BY <1>1, <2>1 DEF Decides
  <2> QED  BY <1>3, <1>4, <2>2
<1>6. ASSUME q < p PROVE FALSE
  <2>1. p \in q + 1 .. n
    BY <1>2, <1>6
  <2>2. GetLatestEntry(ls[p], k) = <<>>
    BY <1>1, <2>1 DEF Decides
  <2> QED  BY <1>3, <1>4, <2>2
<1>7. p = q
  BY <1>2, <1>5, <1>6
<1> QED  BY <1>3, <1>4, <1>7

LEMMA AnswerIs ==
    ASSUME NEW ls, AllGood(ls), NEW k \in Keys
    PROVE  /\ \A p \in 1 .. Len(ls), val \in Vals :
                Decides(ls, p, k, val) => Answer(ls, k) = val
           /\ Unknown(ls, k) => Answer(ls, k) = Tombstone
<1> DEFINE Is(val) ==
             \/ \E p \in DOMAIN ls :
                    /\ /\ GetLatestEntry(ls[p], k) # <<>>
                       /\ \A q \in p + 1 .. Len(ls) :
                            ~(GetLatestEntry(ls[q], k) # <<>>)
                    /\ GetLatestEntry(ls[p], k) = <<val>>
             \/ /\ val = Tombstone
                /\ \A p \in DOMAIN ls : ~(GetLatestEntry(ls[p], k) # <<>>)
<1>1. DOMAIN ls = 1 .. Len(ls) /\ Len(ls) \in Nat
  BY DEF AllGood
<1>2. \A v : <<v>> # <<>>
  OBVIOUS
<1>3. \A val : Is(val) <=> \/ \E p \in 1 .. Len(ls) : Decides(ls, p, k, val)
                           \/ val = Tombstone /\ Unknown(ls, k)
  BY <1>1, <1>2 DEF Decides, Unknown
<1>4. Answer(ls, k) = CHOOSE val \in Vals : Is(val)
  BY DEF Answer, Vals
<1> HIDE DEF Is
<1>5. ASSUME NEW p \in 1 .. Len(ls), NEW val \in Vals, Decides(ls, p, k, val)
      PROVE  Answer(ls, k) = val
  <2>1. Answer(ls, k) \in Vals /\ Is(Answer(ls, k))
    BY <1>3, <1>4, <1>5
  <2>2. ~Unknown(ls, k)
    BY <1>2, <1>5 DEF Unknown, Decides
  <2>3. PICK q \in 1 .. Len(ls) : Decides(ls, q, k, Answer(ls, k))
    BY <1>3, <2>1, <2>2
  <2> QED  BY <1>1, <1>5, <2>3, OneDecides
<1>6. ASSUME Unknown(ls, k)
      PROVE  Answer(ls, k) = Tombstone
  <2>1. Is(Tombstone) /\ Tombstone \in Vals
    BY <1>3, <1>6 DEF Vals
  <2>2. Is(Answer(ls, k))
    BY <1>4, <2>1
  <2>3. \A p \in 1 .. Len(ls) : \A v : ~Decides(ls, p, k, v)
    BY <1>2, <1>6 DEF Unknown, Decides
  <2> QED  BY <1>3, <2>2, <2>3
<1> QED  BY <1>5, <1>6

\* After a write the last memtable has the entry written; of every other key all
\* say what they said, and a new memtable says nothing.
LEMMA WroteLatest ==
    ASSUME NEW ls, AllGood(ls), NEW ms, AllGood(ms),
           NEW key \in Keys, NEW val \in Vals, Wrote(ls, ms, key, val)
    PROVE  /\ Len(ms) >= Len(ls)
           /\ GetLatestEntry(ms[Len(ms)], key) = <<val>>
           /\ \A k \in Keys : k # key =>
                /\ \A p \in 1 .. Len(ls) :
                     GetLatestEntry(ms[p], k) = GetLatestEntry(ls[p], k)
                /\ \A p \in Len(ls) + 1 .. Len(ms) : GetLatestEntry(ms[p], k) = <<>>
<1>1. PICK n \in Nat \ {0} : n = Len(ls)
  BY DEF AllGood
<1>2. PICK t :
        /\ Good(t) /\ t.immutable = FALSE /\ t.next_seq_ <= MaxWrites
        /\ ms[Len(ms)] = WriteInto(t, key, val)
        /\ \A p \in 1 .. n - 1 : ms[p] = ls[p]
        /\ \/ Len(ms) = n /\ t = ls[n]
           \/ /\ Len(ms) = n + 1 /\ t = NewMemTable
              /\ ms[n] = [ls[n] EXCEPT !.immutable = TRUE]
  BY <1>1 DEF Wrote
<1>3. PICK u : u = ms[Len(ms)]
  OBVIOUS
<1>4. PICK q : /\ Good(u) /\ Found(t.list, key, q)
               /\ Spliced(t.list, u.list, q, NewNode(t, key, val))
  BY <1>2, <1>3, WriteIntoIsGood
<1>5. t.list \in Seq(Node) /\ u.list \in Seq(Node) /\ t.next_seq_ \in Nat \ {0}
  BY <1>2, <1>4 DEF Good, MemTable
<1>6. PICK e \in Node : e = NewNode(t, key, val) /\ e.key = key /\ e.val = val
  <2>1. t.next_seq_ \in 1 .. MaxWrites
    BY <1>2, <1>5
  <2>2. NewNode(t, key, val) \in Node
    BY <2>1 DEF NewNode, Node, Vals
  <2> QED  BY <2>2 DEF NewNode
<1>7. \A k \in Keys : GetLatestEntry(u, k) = IF k = key THEN <<val>>
                                             ELSE GetLatestEntry(t, k)
  <2>1. PICK old \in Seq(Node) : old = t.list
    BY <1>5
  <2>2. PICK new \in Seq(Node) : new = u.list
    BY <1>5
  <2>3. Spliced(old, new, q, e) /\ Found(old, key, q)
    BY <1>4, <1>6, <2>1, <2>2
  <2>4. \A k \in Keys : GetLatestEntry(u, k) = IF k = key THEN <<e.val>>
                                               ELSE GetLatestEntry(t, k)
    BY <1>6, <2>1, <2>2, <2>3, SplicedLatest
  <2> QED  BY <1>6, <2>4
<1>8. CASE Len(ms) = n /\ t = ls[n]
  <2>1. ASSUME NEW k \in Keys, k # key, NEW p \in 1 .. n
        PROVE  GetLatestEntry(ms[p], k) = GetLatestEntry(ls[p], k)
    <3>1. CASE p = n
      BY <1>3, <1>7, <1>8, <2>1, <3>1
    <3>2. CASE p < n
      <4>1. p \in 1 .. n - 1
        BY <1>1, <3>2
      <4> QED  BY <1>2, <4>1
    <3> QED  BY <1>1, <3>1, <3>2
  <2>2. \A p \in n + 1 .. n : FALSE
    BY <1>1
  <2>3. Len(ms) >= n
    BY <1>1, <1>8
  <2> QED  BY <1>1, <1>3, <1>7, <1>8, <2>1, <2>2, <2>3
<1>9. CASE /\ Len(ms) = n + 1 /\ t = NewMemTable
           /\ ms[n] = [ls[n] EXCEPT !.immutable = TRUE]
  <2>1. ms[n].list = ls[n].list
    <3>1. Good(ls[n])
      BY <1>1 DEF AllGood
    <3> QED  BY <1>9, <3>1, Sealed
  <2>2. ASSUME NEW k \in Keys, k # key, NEW p \in 1 .. n
        PROVE  GetLatestEntry(ms[p], k) = GetLatestEntry(ls[p], k)
    <3>1. CASE p = n
      BY <2>1, <3>1 DEF GetLatestEntry
    <3>2. CASE p < n
      <4>1. p \in 1 .. n - 1
        BY <1>1, <3>2
      <4> QED  BY <1>2, <4>1
    <3> QED  BY <1>1, <3>1, <3>2
  <2>3. \A k \in Keys : GetLatestEntry(t, k) = <<>>
    <3> TAKE k \in Keys
    <3>1. Len(t.list) = 0
      BY <1>9 DEF NewMemTable
    <3>2. Found(t.list, k, 1)
      BY <3>1 DEF Found
    <3>3. ~(1 \in 1 .. Len(t.list))
      BY <3>1
    <3> QED  BY <1>5, <3>2, <3>3, LatestIs
  <2>4. \A p \in n + 1 .. n + 1 : p = n + 1
    BY <1>1
  <2>5. Len(ms) >= n
    BY <1>1, <1>9
  <2>6. \A k \in Keys : k # key => GetLatestEntry(ms[n + 1], k) = <<>>
    BY <1>3, <1>7, <1>9, <2>3
  <2> QED  BY <1>1, <1>3, <1>7, <1>9, <2>2, <2>4, <2>5, <2>6
<1> QED  BY <1>2, <1>8, <1>9

LEMMA WroteAnswer ==
    ASSUME NEW ls, AllGood(ls), NEW ms, AllGood(ms),
           NEW key \in Keys, NEW val \in Vals, Wrote(ls, ms, key, val),
           NEW k \in Keys
    PROVE  Answer(ms, k) = IF k = key THEN val ELSE Answer(ls, k)
<1>1. PICK n \in Nat \ {0} : n = Len(ls)
  BY DEF AllGood
<1>2. PICK m \in Nat \ {0} : m = Len(ms)
  BY DEF AllGood
<1>3. /\ m >= n
      /\ GetLatestEntry(ms[m], key) = <<val>>
      /\ k # key =>
           /\ \A p \in 1 .. n : GetLatestEntry(ms[p], k) = GetLatestEntry(ls[p], k)
           /\ \A p \in n + 1 .. m : GetLatestEntry(ms[p], k) = <<>>
  BY <1>1, <1>2, WroteLatest
<1>4. CASE k = key
  <2>1. m \in 1 .. m /\ \A q \in m + 1 .. m : FALSE
    BY <1>2
  <2>2. Decides(ms, m, k, val)
    BY <1>2, <1>3, <1>4, <2>1 DEF Decides
  <2> QED  BY <1>2, <1>4, <2>1, <2>2, AnswerIs
<1>5. CASE k # key /\ Unknown(ls, k)
  <2>1. Unknown(ms, k)
    <3>1. ASSUME NEW p \in 1 .. m
          PROVE  GetLatestEntry(ms[p], k) = <<>>
      <4>1. p \in 1 .. n \/ p \in n + 1 .. m
        BY <1>1, <1>2
      <4> QED  BY <1>1, <1>3, <1>5, <4>1 DEF Unknown
    <3> QED  BY <1>2, <3>1 DEF Unknown
  <2> QED  BY <1>5, <2>1, AnswerIs
<1>6. ASSUME k # key, NEW p \in 1 .. n, NEW v \in Vals, Decides(ls, p, k, v)
      PROVE  Answer(ms, k) = Answer(ls, k)
  <2>1. p \in 1 .. m
    BY <1>1, <1>2, <1>3
  <2>2. GetLatestEntry(ms[p], k) = <<v>>
    BY <1>3, <1>6 DEF Decides
  <2>3. ASSUME NEW q \in p + 1 .. m
        PROVE  GetLatestEntry(ms[q], k) = <<>>
    <3>1. (q \in p + 1 .. n /\ q \in 1 .. n) \/ q \in n + 1 .. m
      BY <1>1, <1>2
    <3> QED  BY <1>1, <1>3, <1>6, <3>1 DEF Decides
  <2>4. Decides(ms, p, k, v)
    BY <1>2, <2>1, <2>2, <2>3 DEF Decides
  <2> QED  BY <1>1, <1>2, <1>6, <2>1, <2>4, AnswerIs
<1> QED  BY <1>1, <1>4, <1>5, <1>6, SomeDecides

LEMMA InitRefines == Init => OM!Init
<1> SUFFICES ASSUME Init PROVE OM!Init
  OBVIOUS
<1>1. AllGood(Layers)
  BY InitInv DEF Inv
<1>2. Len(Layers) = 1 /\ Layers[1] = NewMemTable
  <2>1. NewMemTable \in MemTable
    BY NewIsGood DEF Good
  <2>2. immutables_ \in Seq(MemTable) /\ Len(immutables_) = 0
    BY DEF Init
  <2>3. mutable_ = NewMemTable
    BY DEF Init
  <2> QED  BY <2>1, <2>2, <2>3, LayersAre DEF Layers
<1>3. ASSUME NEW k \in Keys
      PROVE  Get(k) = Tombstone
  <2>1. PICK list \in Seq(Node) : list = NewMemTable.list /\ Len(list) = 0
    BY NewIsGood DEF Good, MemTable, NewMemTable
  <2>2. Found(list, k, 1) /\ ~(1 \in 1 .. Len(list))
    BY <2>1 DEF Found
  <2>3. GetLatestEntry(NewMemTable, k) = <<>>
    BY <2>1, <2>2, LatestIs
  <2>4. Unknown(Layers, k)
    BY <1>2, <2>3 DEF Unknown
  <2> QED  BY <1>1, <2>4, AnswerIs, GetIsAnswer
<1>4. [k \in Keys |-> Get(k)] = [k \in Keys |-> Tombstone]
  BY <1>3
<1> QED  BY <1>4 DEF OM!Init, Init

LEMMA NextRefines ==
    ASSUME Inv, Inv', [Next]_vars
    PROVE  [OM!Next]_(OM!vars)
<1> DEFINE map == [k \in Keys |-> Get(k)]
<1>1. CASE UNCHANGED vars
  <2>1. Layers' = Layers /\ done' = done
    BY <1>1 DEF vars, Layers
  <2>2. \A k : Get(k)' = Get(k)
    BY <2>1, GetIsAnswer
  <2>3. map' = map
    BY <2>2
  <2> QED  BY <2>1, <2>3 DEF OM!vars
<1>2. ASSUME NEW key \in Keys, NEW val \in Vals, Write(key, val)
      PROVE  map' = [map EXCEPT ![key] = val]
  <2>1. Wrote(Layers, Layers', key, val)
    BY <1>2, WriteStep
  <2>2. AllGood(Layers)
    BY DEF Inv
  <2>3. AllGood(Layers')
    BY DEF Inv, AllGood
  <2>4. \A k \in Keys : Answer(Layers', k) = IF k = key THEN val
                                             ELSE Answer(Layers, k)
    BY <2>1, <2>2, <2>3, WroteAnswer
  <2>5. \A k \in Keys : Get(k)' = IF k = key THEN val ELSE Get(k)
    BY <2>4, GetIsAnswer
  <2>6. map' = [k \in Keys |-> IF k = key THEN val ELSE Get(k)]
    BY <2>5
  <2> QED  BY <2>6
<1>3. ASSUME NEW key \in Keys, NEW val \in Values, Put(key, val)
      PROVE  OM!Next
  <2>1. val \in Vals /\ Write(key, val)
    BY <1>3 DEF Put, Vals
  <2>2. map' = [map EXCEPT ![key] = val]
    BY <1>2, <2>1
  <2>3. done' = [key |-> key, val |-> val, found |-> FALSE]
    BY <2>1 DEF Write
  <2>4. OM!Put(key, val)
    BY <2>2, <2>3 DEF OM!Put, OM!Returned
  <2> QED  BY <2>4 DEF OM!Next
<1>4. ASSUME NEW key \in Keys, Delete(key)
      PROVE  OM!Next
  <2>1. Tombstone \in Vals /\ Write(key, Tombstone)
    BY <1>4 DEF Delete, Vals
  <2>2. map' = [map EXCEPT ![key] = Tombstone]
    BY <1>2, <2>1
  <2>3. done' = [key |-> key, val |-> Tombstone, found |-> FALSE]
    BY <2>1 DEF Write
  <2>4. OM!Delete(key)
    BY <2>2, <2>3 DEF OM!Delete, OM!Returned
  <2> QED  BY <2>4 DEF OM!Next
<1> QED  BY <1>1, <1>3, <1>4 DEF Next

\* What Get returns is a map that every Put and Delete changes at its key alone,
\* across any number of memtables that each number their entries from 1.
THEOREM IsOrderedMap == Spec => ImplementsOrderedMap
<1>1. Inv /\ Inv' /\ [Next]_vars => [OM!Next]_(OM!vars)
  BY NextRefines
<1> QED  BY <1>1, InitRefines, SpecInv, PTL DEF Spec, ImplementsOrderedMap, OM!Spec
-----------------------------------------------------------------------------
(* What RangeScan returns *)

\* The scan of one memtable has the latest entry of every key in range.
LEMMA EntriesAre ==
    ASSUME NEW t, Good(t), NEW a \in Keys, NEW b \in Keys
    PROVE  LET E == RangeScanEntries(t, a, b)
           IN  /\ DOMAIN E = {k \in Keys : /\ a <= k /\ k <= b
                                           /\ GetLatestEntry(t, k) # <<>>}
               /\ \A k \in DOMAIN E : GetLatestEntry(t, k) = <<E[k]>>
<1>1. PICK list \in Seq(Node) : list = t.list
  BY DEF Good, MemTable
<1>2. PICK n \in Nat : n = Len(list)
  OBVIOUS
<1>3. /\ DOMAIN list = 1 .. n /\ a \in Int /\ b \in Int
      /\ \A k \in Keys : k \in Int
      /\ \A i \in 1 .. n : list[i].key \in Keys /\ list[i].key \in Int
  <2>1. a \in Int /\ b \in Int /\ \A k \in Keys : k \in Int
    OBVIOUS
  <2>2. \A i \in 1 .. n : list[i] \in Node
    BY <1>2
  <2>3. \A i \in 1 .. n : list[i].key \in Keys
    BY <2>2 DEF Node
  <2>4. DOMAIN list = 1 .. n
    BY <1>2
  <2> QED  BY <2>1, <2>3, <2>4
<1>4. \A i, j \in 1 .. n : i < j => list[i].key <= list[j].key
  BY <1>1, <1>2 DEF Good, Ascends
<1> DEFINE from == FindGreaterOrEqual(list, a)
           past == FirstFrom(list, from, LAMBDA x : x.key > b)
           At(k) == {p \in from .. past - 1 : list[p].key = k}
           E == RangeScanEntries(t, a, b)
<1>5. Found(list, a, from)
  BY SearchFinds
<1>6. /\ DOMAIN E = {list[p].key : p \in from .. past - 1}
      /\ \A k \in DOMAIN E : E[k] = list[Min(At(k))].val
  BY <1>1 DEF RangeScanEntries
<1> HIDE DEF from, E
<1>7. /\ from \in 1 .. n + 1
      /\ from \in 1 .. n => list[from].key >= a
      /\ \A r \in 1 .. from - 1 : list[r].key < a
  BY <1>2, <1>5 DEF Found
<1>8. /\ past \in from .. n + 1
      /\ past \in 1 .. n => list[past].key > b
      /\ \A r \in from .. past - 1 : ~(list[r].key > b)
  <2> DEFINE T == {i \in 1 .. n : list[i].key > b}
  <2>1. \E q \in from .. n + 1 : /\ q \in 1 .. n => q \in T
                                 /\ \A r \in from .. q - 1 : r \notin T
    <3> HIDE DEF T
    <3>1. from \in 1 .. n + 1
      BY <1>7
    <3>2. \A p \in 1 .. n + 1 :
            \E q \in p .. n + 1 : /\ q \in 1 .. n => q \in T
                                  /\ \A r \in p .. q - 1 : r \notin T
      BY FirstPlace
    <3> QED  BY <3>1, <3>2
  <2>2. \A q \in from .. n + 1 : \A r \in from .. q - 1 : r \in 1 .. n
    BY <1>7
  <2>3. \E q \in from .. n + 1 : /\ q \in DOMAIN list => list[q].key > b
                                 /\ \A r \in from .. q - 1 : ~(list[r].key > b)
    BY <1>3, <2>1, <2>2
  <2>4. /\ past \in from .. n + 1
        /\ past \in DOMAIN list => list[past].key > b
        /\ \A r \in from .. past - 1 : ~(list[r].key > b)
    BY <1>2, <2>3 DEF FirstFrom
  <2> QED  BY <1>3, <2>4
<1> HIDE DEF past
<1>9. from \in Int /\ past \in Int /\ 1 <= from /\ past <= n + 1
  BY <1>7, <1>8
<1>10. ASSUME NEW p \in from .. past - 1
       PROVE  p \in 1 .. n /\ a <= list[p].key /\ list[p].key <= b
  <2>1. p \in 1 .. n
    BY <1>9
  <2>2. from \in 1 .. n /\ (from < p \/ from = p)
    BY <1>9, <2>1
  <2>3. list[from].key <= list[p].key /\ list[from].key \in Int
        /\ list[p].key \in Int
    BY <1>3, <1>4, <2>1, <2>2
  <2>4. a <= list[p].key
    BY <1>3, <1>7, <2>2, <2>3
  <2>5. list[p].key <= b
    BY <1>3, <1>8, <2>3
  <2> QED  BY <2>1, <2>4, <2>5
<1>11. ASSUME NEW p \in 1 .. n, a <= list[p].key, list[p].key <= b
       PROVE  p \in from .. past - 1
  <2>1. ~(p < from)
    <3>1. p < from => p \in 1 .. from - 1
      BY <1>9
    <3> QED  BY <1>3, <1>7, <1>11, <3>1
  <2>2. ~(past <= p)
    <3> SUFFICES ASSUME past <= p PROVE FALSE
      OBVIOUS
    <3>1. past \in 1 .. n /\ (past < p \/ past = p)
      BY <1>8, <1>9
    <3>2. list[past].key <= list[p].key
      BY <1>3, <1>4, <3>1
    <3> QED  BY <1>3, <1>8, <1>11, <3>1, <3>2
  <2> QED  BY <1>9, <2>1, <2>2
<1>12. ASSUME NEW k \in DOMAIN E
       PROVE  /\ k \in Keys /\ a <= k /\ k <= b
              /\ GetLatestEntry(t, k) = <<E[k]>>
  <2>1. PICK p \in from .. past - 1 : k = list[p].key
    BY <1>6
  <2>2. p \in 1 .. n /\ k \in Keys /\ k \in Int /\ a <= k /\ k <= b
    BY <1>3, <1>10, <2>1
  <2>3. At(k) \in SUBSET Int /\ At(k) # {} /\ IsFiniteSet(At(k))
    <3>1. At(k) \in SUBSET (from .. past - 1) /\ p \in At(k)
      BY <2>1
    <3>2. IsFiniteSet(from .. past - 1)
      BY <1>9, FS_Interval
    <3>3. IsFiniteSet(At(k))
      <4> HIDE DEF At
      <4> QED  BY <3>1, <3>2, FS_Subset
    <3> QED  BY <3>1, <3>3
  <2>4. PICK m \in At(k) : m = Min(At(k)) /\ \A q \in At(k) : m <= q
    <3> HIDE DEF At
    <3> QED  BY <2>3, MinProperties
  <2>5. m \in from .. past - 1 /\ m \in 1 .. n /\ list[m].key = k
    BY <1>10, <2>4
  <2>6. ASSUME NEW r \in 1 .. m - 1
        PROVE  list[r].key < k
    <3>1. r \in 1 .. n /\ r < m
      BY <2>5
    <3>2. list[r].key <= k /\ list[r].key \in Int
      BY <1>3, <1>4, <2>5, <3>1
    <3>3. list[r].key # k
      <4> SUFFICES ASSUME list[r].key = k PROVE FALSE
        OBVIOUS
      <4>1. r \in from .. past - 1
        BY <1>11, <2>2, <3>1
      <4>2. r \in At(k)
        BY <4>1
      <4>3. m <= r
        BY <2>4, <4>2
      <4> QED  BY <2>5, <3>1, <4>3
    <3> QED  BY <2>2, <3>2, <3>3
  <2>7. Found(list, k, m)
    BY <1>2, <2>2, <2>5, <2>6 DEF Found
  <2>8. GetLatestEntry(t, k) = <<list[m].val>>
    BY <1>1, <1>2, <2>2, <2>5, <2>7, LatestIs
  <2>9. E[k] = list[m].val
    BY <1>6, <2>4
  <2> QED  BY <2>2, <2>8, <2>9
<1>13. ASSUME NEW k \in Keys, a <= k, k <= b, GetLatestEntry(t, k) # <<>>
       PROVE  k \in DOMAIN E
  <2>1. PICK q : Found(list, k, q)
    BY SearchFinds
  <2>2. q \in 1 .. n /\ list[q].key = k
    BY <1>1, <1>2, <1>13, <2>1, LatestIs
  <2>3. q \in from .. past - 1
    BY <1>11, <1>13, <2>2
  <2> QED  BY <1>6, <2>2, <2>3
<1>14. \A v : <<v>> # <<>>
  OBVIOUS
<1>15. DOMAIN E = {k \in Keys : /\ a <= k /\ k <= b
                                /\ GetLatestEntry(t, k) # <<>>}
  BY <1>12, <1>13, <1>14
<1> QED  BY <1>12, <1>15 DEF E

\* The loop over the memtables in s: every key any of them has, with the entry
\* of the newest that has it.
OverAll(ls, a, b, s) ==
    LET E(p) == RangeScanEntries(ls[p], a, b)
    IN  [k \in UNION {DOMAIN E(p) : p \in s} |->
            E(Max({p \in s : k \in DOMAIN E(p)}))[k]]

\* A set of places has a last one.
LEMMA LastPlace ==
    ASSUME NEW n \in Nat, NEW T \in SUBSET (1 .. n), T # {}
    PROVE  /\ Max(T) \in T /\ \A p \in T : p <= Max(T)
           /\ Min(T) \in T /\ \A p \in T : Min(T) <= p
           /\ IsFiniteSet(T)
<1>1. T \in SUBSET Int
  OBVIOUS
<1>2. IsFiniteSet(1 .. n)
  BY FS_Interval
<1>3. IsFiniteSet(T)
  BY <1>2, FS_Subset
<1> QED  BY <1>1, <1>3, MaxProperties, MinProperties

\* One turn of the loop: the oldest memtable of s comes last.
LEMMA OverAllStep ==
    ASSUME NEW ls, NEW a, NEW b, NEW n \in Nat, NEW s \in SUBSET (1 .. n), s # {}
    PROVE  OverAll(ls, a, b, s)
             = Over(OverAll(ls, a, b, s \ {Min(s)}), RangeScanEntries(ls[Min(s)], a, b))
<1> DEFINE E(p) == RangeScanEntries(ls[p], a, b)
           With(S, k) == {p \in S : k \in DOMAIN E(p)}
<1>1. PICK m \in s : m = Min(s) /\ \A p \in s : m <= p
  BY LastPlace
<1>2. PICK r : r = s \ {m}
  OBVIOUS
<1>3. /\ s \in SUBSET (1 .. n) /\ r \in SUBSET (1 .. n)
      /\ \A p : p \in s <=> p \in r \/ p = m
      /\ \A p \in r : p > m
  <2>1. \A p \in r : p \in 1 .. n /\ m \in 1 .. n /\ p # m /\ m <= p
    BY <1>1, <1>2
  <2>2. \A p \in r : p > m
    BY <2>1
  <2> QED  BY <1>1, <1>2, <2>2
<1>4. PICK all : all = OverAll(ls, a, b, s)
  OBVIOUS
<1>5. PICK decided : decided = OverAll(ls, a, b, r)
  OBVIOUS
<1>6. /\ all = [k \in DOMAIN all |-> all[k]]
      /\ DOMAIN all = UNION {DOMAIN E(p) : p \in s}
      /\ \A k \in DOMAIN all : all[k] = E(Max(With(s, k)))[k]
  BY <1>4 DEF OverAll
<1>7. /\ DOMAIN decided = UNION {DOMAIN E(p) : p \in r}
      /\ \A k \in DOMAIN decided : decided[k] = E(Max(With(r, k)))[k]
  BY <1>5 DEF OverAll
<1> HIDE DEF E
<1>8. DOMAIN all = DOMAIN decided \cup DOMAIN E(m)
  BY <1>3, <1>6, <1>7
<1>9. ASSUME NEW k \in DOMAIN decided
      PROVE  all[k] = decided[k]
  <2>1. With(r, k) # {} /\ With(r, k) \in SUBSET (1 .. n)
    BY <1>3, <1>7
  <2>2. With(s, k) # {} /\ With(s, k) \in SUBSET (1 .. n)
    BY <1>3, <2>1
  <2>3. PICK x \in With(r, k) : x = Max(With(r, k)) /\ \A p \in With(r, k) : p <= x
    <3> HIDE DEF With
    <3> QED  BY <2>1, LastPlace
  <2>4. PICK y \in With(s, k) : y = Max(With(s, k)) /\ \A p \in With(s, k) : p <= y
    <3> HIDE DEF With
    <3> QED  BY <2>2, LastPlace
  <2>5. x \in With(s, k) /\ x <= y /\ x > m /\ x \in 1 .. n /\ y \in 1 .. n /\ m \in 1 .. n
    BY <1>3, <2>3, <2>4
  <2>6. y # m
    BY <2>5
  <2>7. y \in With(r, k)
    BY <1>3, <2>4, <2>6
  <2>8. y <= x
    BY <2>3, <2>7
  <2>9. x = y
    BY <2>5, <2>8
  <2>10. k \in DOMAIN all
    BY <1>8
  <2> QED  BY <1>6, <1>7, <2>3, <2>4, <2>9, <2>10
<1>10. ASSUME NEW k \in DOMAIN E(m), k \notin DOMAIN decided
       PROVE  all[k] = E(m)[k]
  <2>1. \A p \in r : k \notin DOMAIN E(p)
    BY <1>7, <1>10
  <2>2. With(s, k) = {m}
    BY <1>3, <2>1
  <2>3. m \in 1 .. n
    BY <1>1
  <2>4. Max({m}) = m
    <3>1. {m} \in SUBSET (1 .. n) /\ {m} # {}
      BY <2>3
    <3>2. Max({m}) \in {m}
      BY <3>1, LastPlace
    <3> QED  BY <3>2
  <2>5. k \in DOMAIN all
    BY <1>8
  <2> HIDE DEF With
  <2> QED  BY <1>6, <2>2, <2>4, <2>5
<1>11. all = Over(decided, E(m))
  <2>1. \A k \in DOMAIN all : all[k] = IF k \in DOMAIN decided THEN decided[k]
                                       ELSE E(m)[k]
    BY <1>8, <1>9, <1>10
  <2>2. all = [k \in DOMAIN all |-> IF k \in DOMAIN decided THEN decided[k]
                                    ELSE E(m)[k]]
    BY <1>6, <2>1
  <2> QED  BY <1>8, <2>2 DEF Over
<1> QED  BY <1>1, <1>2, <1>4, <1>5, <1>11 DEF E

\* What the definition of the loop says of the sets s of memtables gone through.
IsLoop(iter, ls, a, b, S) ==
    iter = [s \in SUBSET S |->
               IF s = {} THEN [k \in {} |-> Tombstone]
               ELSE LET x == Min(s)
                    IN  Decided(iter[s \ {x}], RangeScanEntries(ls[x], a, b))]

\* One turn of it.
Turn(iter, ls, a, b, s) ==
    iter[s] = IF s = {} THEN [k \in {} |-> Tombstone]
              ELSE Over(iter[s \ {Min(s)}], RangeScanEntries(ls[Min(s)], a, b))

LEMMA LoopStep ==
    ASSUME NEW iter, NEW ls, NEW a, NEW b, NEW S, IsLoop(iter, ls, a, b, S),
           NEW s \in SUBSET S
    PROVE  Turn(iter, ls, a, b, s)
  BY DEF IsLoop, Decided, Turn

LEMMA LoopExists ==
    ASSUME NEW ls, NEW a, NEW b, NEW n \in Nat
    PROVE  \E iter : IsLoop(iter, ls, a, b, 1 .. n)
<1> DEFINE G(s) == OverAll(ls, a, b, s)
           g == [s \in SUBSET (1 .. n) |-> G(s)]
<1>1. ASSUME NEW s \in SUBSET (1 .. n)
      PROVE  G(s) = IF s = {} THEN [k \in {} |-> Tombstone]
                    ELSE LET x == Min(s)
                         IN  Decided(g[s \ {x}], RangeScanEntries(ls[x], a, b))
  <2>1. CASE s = {}
    <3>1. G({}) = [k \in {} |-> Tombstone]
      BY DEF OverAll
    <3> QED  BY <2>1, <3>1
  <2>2. CASE s # {}
    <3>1. G(s) = Over(G(s \ {Min(s)}), RangeScanEntries(ls[Min(s)], a, b))
      BY <2>2, OverAllStep
    <3>2. s \ {Min(s)} \in SUBSET (1 .. n)
      OBVIOUS
    <3>3. g[s \ {Min(s)}] = G(s \ {Min(s)})
      BY <3>2
    <3> HIDE DEF g, G
    <3> QED  BY <2>2, <3>1, <3>3 DEF Decided
  <2> QED  BY <2>1, <2>2
<1>2. g = [s \in SUBSET (1 .. n) |->
              IF s = {} THEN [k \in {} |-> Tombstone]
              ELSE LET x == Min(s)
                   IN  Decided(g[s \ {x}], RangeScanEntries(ls[x], a, b))]
  BY <1>1
<1>3. IsLoop(g, ls, a, b, 1 .. n)
  <2> HIDE DEF g
  <2> QED  BY <1>2 DEF IsLoop
<1> QED  BY <1>3

\* There is one such function: of two, take the least set they differ in.
LEMMA LoopIs ==
    ASSUME NEW ls, NEW a, NEW b, NEW n \in Nat, NEW iter,
           IsLoop(iter, ls, a, b, 1 .. n)
    PROVE  iter[1 .. n] = OverAll(ls, a, b, 1 .. n)
<1> DEFINE Wrong == {s \in SUBSET (1 .. n) : iter[s] # OverAll(ls, a, b, s)}
           Sizes == {Cardinality(s) : s \in Wrong}
<1> SUFFICES ASSUME Wrong # {} PROVE FALSE
  <2>1. (1 .. n) \in SUBSET (1 .. n)
    OBVIOUS
  <2> QED  BY <2>1
<1>0. \A s \in SUBSET (1 .. n) : Turn(iter, ls, a, b, s)
  <2> HIDE DEF Wrong, Sizes
  <2> QED  BY LoopStep
<1>1. \A s \in SUBSET (1 .. n) : IsFiniteSet(s) /\ Cardinality(s) \in Nat
  <2> HIDE DEF Wrong, Sizes
  <2> TAKE s \in SUBSET (1 .. n)
  <2>1. IsFiniteSet(1 .. n)
    BY FS_Interval
  <2>2. IsFiniteSet(s)
    BY <2>1, FS_Subset
  <2> QED  BY <2>2, FS_CardinalityType
<1>2. PICK s \in Wrong : \A r \in Wrong : Cardinality(s) <= Cardinality(r)
  <2>1. Sizes \in SUBSET Nat /\ Sizes # {}
    BY <1>1
  <2>2. PICK c \in Sizes : \A d \in Sizes : c <= d
    <3> HIDE DEF Sizes
    <3> QED  BY <2>1, LessThanIsWellFounded
  <2> QED  BY <2>2
<1>3. s \in SUBSET (1 .. n) /\ iter[s] # OverAll(ls, a, b, s)
  BY <1>2
<1>4. \A q \in SUBSET (1 .. n) : q \notin Wrong => iter[q] = OverAll(ls, a, b, q)
  OBVIOUS
<1> HIDE DEF Wrong, Sizes
<1>5. s # {}
  <2> SUFFICES ASSUME s = {} PROVE FALSE
    OBVIOUS
  <2>1. iter[s] = [k \in {} |-> Tombstone]
    BY <1>0, <1>3 DEF Turn
  <2>2. OverAll(ls, a, b, {}) = [k \in {} |-> Tombstone]
    BY DEF OverAll
  <2> QED  BY <1>3, <2>1, <2>2
<1>6. PICK x \in s : x = Min(s)
  BY <1>3, <1>5, LastPlace
<1>7. PICK r \in SUBSET (1 .. n) : r = s \ {x}
  BY <1>3
<1>8. Cardinality(r) < Cardinality(s)
  <2>1. Cardinality(r) = Cardinality(s) - 1 /\ Cardinality(s) \in Nat
    BY <1>1, <1>3, <1>6, <1>7, FS_RemoveElement
  <2> QED  BY <2>1
<1>9. iter[r] = OverAll(ls, a, b, r)
  <2>1. r \notin Wrong
    <3>1. ~(Cardinality(s) <= Cardinality(r))
      BY <1>1, <1>3, <1>8
    <3> QED  BY <1>2, <3>1
  <2> QED  BY <1>4, <1>7, <2>1
<1>10. iter[s] = Over(iter[r], RangeScanEntries(ls[x], a, b))
  <2>1. iter[s] = IF s = {} THEN [k \in {} |-> Tombstone]
                  ELSE Over(iter[s \ {Min(s)}], RangeScanEntries(ls[Min(s)], a, b))
    BY <1>0, <1>3 DEF Turn
  <2> QED  BY <1>5, <1>6, <1>7, <2>1
<1>11. OverAll(ls, a, b, s) = Over(OverAll(ls, a, b, r), RangeScanEntries(ls[x], a, b))
  <2>1. OverAll(ls, a, b, s)
          = Over(OverAll(ls, a, b, s \ {Min(s)}), RangeScanEntries(ls[Min(s)], a, b))
    BY <1>3, <1>5, OverAllStep
  <2> QED  BY <1>6, <1>7, <2>1
<1> QED  BY <1>3, <1>9, <1>10, <1>11

\* What the scan returns of what the loop has decided.
Live(decided) == [k \in {k \in DOMAIN decided : decided[k] # Tombstone} |-> decided[k]]

LEMMA ScanIs ==
    ASSUME NEW a, NEW b, NEW n \in Nat, DOMAIN Layers = 1 .. n
    PROVE  RangeScan(a, b) = Live(OverAll(Layers, a, b, 1 .. n))
<1> DEFINE loop == CHOOSE iter : IsLoop(iter, Layers, a, b, 1 .. n)
<1>1. RangeScan(a, b) = Live(loop[1 .. n])
  BY DEF RangeScan, FoldRight, MapThenFoldSet, IsLoop, Live
<1>2. IsLoop(loop, Layers, a, b, 1 .. n)
  BY LoopExists
<1> HIDE DEF loop
<1> QED  BY <1>1, <1>2, LoopIs

\* Every key in range that some memtable has is decided, by its newest entry.
Answers(D, ls, a, b) ==
    /\ DOMAIN D = {k \in Keys : a <= k /\ k <= b /\ ~Unknown(ls, k)}
    /\ \A k \in DOMAIN D : D[k] = Answer(ls, k)

LEMMA OverAllAnswers ==
    ASSUME NEW ls, AllGood(ls), NEW a \in Keys, NEW b \in Keys
    PROVE  Answers(OverAll(ls, a, b, 1 .. Len(ls)), ls, a, b)
<1>1. PICK n \in Nat : n = Len(ls)
  BY DEF AllGood
<1> DEFINE E(p) == RangeScanEntries(ls[p], a, b)
           With(k) == {p \in 1 .. n : k \in DOMAIN E(p)}
<1>2. PICK D : D = OverAll(ls, a, b, 1 .. n)
  OBVIOUS
<1>3. /\ DOMAIN D = UNION {DOMAIN E(p) : p \in 1 .. n}
      /\ \A k \in DOMAIN D : D[k] = E(Max(With(k)))[k]
  BY <1>2 DEF OverAll
<1>4. \A p \in 1 .. n :
        /\ DOMAIN E(p) = {k \in Keys : /\ a <= k /\ k <= b
                                       /\ GetLatestEntry(ls[p], k) # <<>>}
        /\ \A k \in DOMAIN E(p) : GetLatestEntry(ls[p], k) = <<E(p)[k]>>
  <2>1. \A p \in 1 .. n : Good(ls[p])
    BY <1>1 DEF AllGood
  <2> QED  BY <2>1, EntriesAre
<1> HIDE DEF E
<1>5. DOMAIN D = {k \in Keys : a <= k /\ k <= b /\ ~Unknown(ls, k)}
  <2>1. \A k : k \in DOMAIN D <=> \E p \in 1 .. n : k \in DOMAIN E(p)
    BY <1>3
  <2>2. \A k : k \in DOMAIN D <=>
                 \E p \in 1 .. n : /\ k \in Keys /\ a <= k /\ k <= b
                                   /\ GetLatestEntry(ls[p], k) # <<>>
    <3>1. \A p \in 1 .. n : \A k :
            k \in DOMAIN E(p) <=> /\ k \in Keys /\ a <= k /\ k <= b
                                  /\ GetLatestEntry(ls[p], k) # <<>>
      BY <1>4
    <3> QED  BY <2>1, <3>1
  <2>3. \A k : ~Unknown(ls, k) <=>
                 \E p \in 1 .. n : GetLatestEntry(ls[p], k) # <<>>
    BY <1>1 DEF Unknown
  <2> QED  BY <2>2, <2>3
<1>6. ASSUME NEW k \in DOMAIN D
      PROVE  D[k] = Answer(ls, k)
  <2>1. k \in Keys /\ a <= k /\ k <= b
    BY <1>5
  <2>2. With(k) # {} /\ With(k) \in SUBSET (1 .. n)
    BY <1>3
  <2>3. PICK p \in With(k) : p = Max(With(k)) /\ \A q \in With(k) : q <= p
    <3> HIDE DEF With
    <3> QED  BY <2>2, LastPlace
  <2>4. p \in 1 .. n /\ k \in DOMAIN E(p) /\ D[k] = E(p)[k]
    BY <1>3, <2>3
  <2>5. GetLatestEntry(ls[p], k) = <<D[k]>>
    BY <1>4, <2>4
  <2>6. ASSUME NEW q \in p + 1 .. n
        PROVE  GetLatestEntry(ls[q], k) = <<>>
    <3>1. q \in 1 .. n /\ ~(q <= p)
      BY <2>4
    <3>2. k \notin DOMAIN E(q)
      BY <2>3, <3>1
    <3> QED  BY <1>4, <2>1, <3>1, <3>2
  <2>7. Decides(ls, p, k, D[k])
    BY <1>1, <2>4, <2>5, <2>6 DEF Decides
  <2>8. D[k] \in Vals
    <3>1. ls[p].list \in Seq(Node)
      BY <1>1, <2>4 DEF AllGood, Good, MemTable
    <3>2. PICK v \in Vals : GetLatestEntry(ls[p], k) = <<v>>
      <4>1. \A w : <<w>> # <<>>
        OBVIOUS
      <4> QED  BY <2>1, <2>5, <3>1, <4>1, LatestType
    <3>3. \A w, x : <<w>> = <<x>> => w = x
      OBVIOUS
    <3> QED  BY <2>5, <3>2, <3>3
  <2> QED  BY <1>1, <2>1, <2>4, <2>7, <2>8, AnswerIs
<1> QED  BY <1>1, <1>2, <1>5, <1>6 DEF Answers

\* Get, which stops at the newest memtable that has the key, and RangeScan, which
\* goes through all of them, say the same of every key in every range.
THEOREM ReadsAgree == Spec => []GetAgreesWithRangeScan
<1>1. ASSUME Inv, NEW a \in Keys, NEW b \in Keys
      PROVE  RangeScan(a, b)
               = [k \in {k \in Keys \cap a .. b : Get(k) # Tombstone} |-> Get(k)]
  <2>1. AllGood(Layers)
    BY <1>1 DEF Inv
  <2>2. PICK n \in Nat : n = Len(Layers) /\ DOMAIN Layers = 1 .. n
    BY <2>1 DEF AllGood
  <2>3. PICK D : D = OverAll(Layers, a, b, 1 .. n)
    OBVIOUS
  <2>4. /\ DOMAIN D = {k \in Keys : a <= k /\ k <= b /\ ~Unknown(Layers, k)}
        /\ \A k \in DOMAIN D : D[k] = Get(k)
    <3>1. Answers(OverAll(Layers, a, b, 1 .. Len(Layers)), Layers, a, b)
      BY <1>1, <2>1, OverAllAnswers
    <3>2. Answers(D, Layers, a, b)
      BY <2>2, <2>3, <3>1
    <3> QED  BY <3>2, GetIsAnswer DEF Answers
  <2>5. \A k \in Keys : Unknown(Layers, k) => Get(k) = Tombstone
    BY <2>1, AnswerIs, GetIsAnswer
  <2>6. \A k \in Keys : k \in a .. b <=> a <= k /\ k <= b
    <3>1. a \in Int /\ b \in Int /\ \A k \in Keys : k \in Int
      OBVIOUS
    <3> QED  BY <3>1
  <2>7. {k \in DOMAIN D : D[k] # Tombstone}
          = {k \in Keys \cap a .. b : Get(k) # Tombstone}
    <3>1. \A k \in Keys : k \in Keys \cap a .. b <=> a <= k /\ k <= b
      BY <2>6
    <3>2. \A k : k \in DOMAIN D /\ D[k] # Tombstone
                   <=> k \in Keys \cap a .. b /\ Get(k) # Tombstone
      BY <2>4, <2>5, <3>1
    <3> QED  BY <3>2
  <2>8. \A k \in {k \in Keys \cap a .. b : Get(k) # Tombstone} : D[k] = Get(k)
    BY <2>4, <2>7
  <2>9. Live(D) = [k \in {k \in Keys \cap a .. b : Get(k) # Tombstone} |-> Get(k)]
    BY <2>7, <2>8 DEF Live
  <2> QED  BY <2>2, <2>3, <2>9, ScanIs
<1>2. ASSUME Inv PROVE GetAgreesWithRangeScan
  BY <1>1, <1>2 DEF GetAgreesWithRangeScan
<1> QED  BY <1>2, SpecInv, PTL
=============================================================================
