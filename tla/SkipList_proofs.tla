-------------------------- MODULE SkipList_proofs --------------------------
(***************************************************************************)
(* Theorems about the skip list of lab3 for every number of levels, every  *)
(* choice of heights, every set of keys and values and every order of      *)
(* calls: its levels stay linked, its reads and writes are those of        *)
(* MemTable, and its destructor frees everything.                          *)
(***************************************************************************)
EXTENDS SkipList, TLAPS

(***************************************************************************)
(* The inductive invariant.                                                *)
(***************************************************************************)

\* What the nodes hold.
NodesOK ==
    /\ \A a \in DOMAIN heap : ~IsHead(a) =>
         /\ heap[a].key \in Keys
         /\ heap[a].seq \in Seqs
         /\ a[2] = 0 => heap[a].val \in Values \cup {Tombstone}
    /\ pc \notin {"free", "gone"} => \A l \in Levels : HeadAt(l) \in DOMAIN heap

\* One version of a key is the newest.
IsNewest(n, k) == n \in Versions(k) /\ \A b \in Versions(k) : b[1] <= n[1]

HaveNewest == \A k \in Keys : Versions(k) # {} => \E n \in Versions(k) : IsNewest(n, k)

\* The numbers the list gives itself do not outrun its insertions.
NumbersOK ==
    /\ towers <= MaxTowers
    /\ nextSeq <= towers + 1 \/ (pc = "find" /\ call.op = "write" /\ nextSeq <= towers + 2)
    /\ pc = "find" /\ call.op = "write" => towers < MaxTowers

\* The arguments of the call in progress.
CallOK ==
    /\ pc \in {"find", "link", "scan", "skip"} =>
         /\ call.key \in Keys
         /\ call.last \in Keys
         /\ call.op \in {"write", "get", "scan"}
    /\ pc = "link" => call.op = "write"
    /\ pc \in {"scan", "skip"} => call.op = "scan"
    /\ call.op = "write" => call.seq \in Seqs /\ call.val \in Values \cup {Tombstone}
    /\ call.op = "get" => call.last = call.key

\* A node that the key sought belongs behind, in its level.
Smaller(p) == IsHead(p) \/ heap[p].key < call.key

\* The last of them in level l is the one recorded for it.
Behind(l) ==
    /\ update[l] \in DOMAIN heap
    /\ update[l][2] = l
    /\ Smaller(update[l])
    /\ heap[update[l]].next # Null => heap[heap[update[l]].next].key >= call.key

Finding ==
    pc = "find" =>
        /\ lvl = 0 /\ down = Null /\ out = <<>>
        /\ x \in DOMAIN heap
        /\ x[2] = level
        /\ Smaller(x)
        /\ call.op = "write" => \A l \in Levels : l > level => Behind(l)

\* The tower being inserted is there up to, and without, level lvl.
LinkingOK ==
    pc = "link" =>
        /\ towers > 0
        /\ lvl < height
        /\ \A l \in Levels : l >= lvl => Behind(l)
        /\ \A l \in Levels : <<towers, l>> \in DOMAIN heap <=> l < lvl
        /\ down = IF lvl = 0 THEN Null ELSE <<towers, lvl - 1>>
        /\ lvl > 0 => heap[down].key = call.key

\* The newest version of each key in S that has one, as the scan shows it.
Newests(S) ==
    {EntryOf(Newest(k)) : k \in {j \in S : Versions(j) # {} /\ ~Hidden(Newest(j))}}

\* The scan has collected the keys in S, in order.
Collected(S) ==
    /\ {out[i] : i \in DOMAIN out} = Newests(S)
    /\ \A i, j \in DOMAIN out : i < j => out[i].key < out[j].key

Bottom(a) == a \in DOMAIN heap /\ a[2] = 0 /\ ~IsHead(a)

\* At the outer loop of a scan x is the newest node of its key, and what was
\* collected are the keys before it.
Scanning ==
    pc = "scan" =>
        /\ x # Null =>
             /\ Bottom(x)
             /\ heap[x].key >= call.key
             /\ IsNewest(x, heap[x].key)
        /\ Collected({k \in Keys : /\ call.key <= k /\ k <= call.last
                                   /\ x = Null \/ k < heap[x].key})

\* At the inner loop every node of a larger key is still to come.
Skipping ==
    pc = "skip" =>
        /\ current \in Keys /\ call.key <= current /\ current <= call.last
        /\ x # Null => Bottom(x) /\ heap[x].key >= current
        /\ \A b \in DOMAIN heap : Bottom(b) /\ heap[b].key > current =>
             x # Null /\ (b = x \/ Before(x, b))
        /\ Collected({k \in Keys : call.key <= k /\ k <= current})

\* The destructor has freed the levels above that of x, and the nodes before x.
FreeingAt(a) ==
    /\ \A b \in DOMAIN heap : b[2] <= a[2] /\ (b[2] = a[2] => b = a \/ Before(a, b))
    /\ \A l \in Levels : l < a[2] => HeadAt(l) \in DOMAIN heap

Freeing ==
    /\ pc = "free" /\ x # Null =>
         /\ FreeingAt(x)
         /\ down = IF x[2] = 0 THEN Null ELSE HeadAt(x[2] - 1)
    /\ pc = "free" /\ x = Null /\ down # Null =>
         down = HeadAt(down[2]) /\ FreeingAt(down)
    /\ pc = "free" /\ x = Null /\ down = Null => DOMAIN heap = {}
    /\ pc = "gone" => DOMAIN heap = {}

ListInv == TypeOK /\ NodesOK /\ LevelsLinked /\ HaveNewest /\ NumbersOK /\ CallOK

\* Between calls there are no locals.
Idle ==
    /\ pc = "idle" => lvl = 0 /\ down = Null /\ out = <<>>
    /\ pc \in {"idle", "free", "gone"} => update = NoUpdate /\ call = NoCall

Inv ==
    /\ ListInv
    /\ Idle
    /\ Finding
    /\ LinkingOK
    /\ Scanning
    /\ Skipping
    /\ Freeing
    /\ AnswersAscend

(***************************************************************************)
(* Addresses and the order of a level.                                     *)
(***************************************************************************)

LEMMA LevelsType ==
    /\ MaxLevel \in Nat \ {0}
    /\ \A l : l \in Levels <=> l \in Nat /\ l < MaxLevel
BY SkipListAssumption DEF MaxLevel, Levels

LEMMA AddressParts ==
    ASSUME TypeOK, NEW a \in DOMAIN heap
    PROVE  /\ a[1] \in Nat /\ a[1] <= towers
           /\ a[2] \in Levels
           /\ a = <<a[1], a[2]>>
           /\ a # Null
           /\ heap[a] \in Node
           /\ heap[a].key \in Int
<1>1. a \in (0 .. towers) \X Levels /\ towers \in Nat
  BY DEF TypeOK
<1>2. a[1] \in Nat /\ a[1] <= towers /\ a[2] \in Levels /\ a = <<a[1], a[2]>>
  BY <1>1
<1>3. a \in Nat \X Int
  BY <1>2, LevelsType
<1>4. a # Null
  BY <1>3, SkipListAssumption
<1>5. heap[a] \in Node
  BY DEF TypeOK
<1> QED  BY <1>2, <1>4, <1>5 DEF Node

LEMMA HeadParts ==
    ASSUME NEW l \in Levels
    PROVE  /\ HeadAt(l)[1] = 0 /\ HeadAt(l)[2] = l
           /\ IsHead(HeadAt(l))
           /\ HeadAt(l) # Null
<1>1. HeadAt(l) \in Nat \X Int
  BY LevelsType DEF HeadAt
<1>2. HeadAt(l) # Null
  BY <1>1, SkipListAssumption
<1> QED  BY <1>2 DEF HeadAt, IsHead

\* What a next pointer says, read off the invariant.
LEMMA NextFacts ==
    ASSUME TypeOK, LevelsLinked, NEW a \in DOMAIN heap
    PROVE  /\ heap[a].next # Null =>
                /\ heap[a].next \in DOMAIN heap
                /\ heap[a].next[2] = a[2]
                /\ Before(a, heap[a].next)
                /\ ~IsHead(heap[a].next)
           /\ \A b \in DOMAIN heap : b[2] = a[2] /\ Before(a, b) =>
                heap[a].next # Null /\ (b = heap[a].next \/ Before(heap[a].next, b))
BY DEF LevelsLinked, NextIsFirstAfter, Before

LEMMA DownFacts ==
    ASSUME TypeOK, LevelsLinked, NEW a \in DOMAIN heap
    PROVE  /\ a[2] = 0 <=> heap[a].down = Null
           /\ a[2] # 0 => /\ heap[a].down = <<a[1], a[2] - 1>>
                          /\ heap[a].down \in DOMAIN heap
                          /\ heap[a].down[2] = a[2] - 1
                          /\ heap[heap[a].down].key = heap[a].key
                          /\ IsHead(a) <=> IsHead(heap[a].down)
<1>1. CASE a[2] = 0
  BY <1>1 DEF LevelsLinked, DownIsCopy
<1>2. CASE a[2] # 0
  <2>1. heap[a].down = <<a[1], a[2] - 1>> /\ heap[a].down \in DOMAIN heap
        /\ heap[heap[a].down].key = heap[a].key
    BY <1>2 DEF LevelsLinked, DownIsCopy
  <2>2. heap[a].down # Null
    BY <2>1, AddressParts
  <2> QED  BY <1>2, <2>1, <2>2 DEF IsHead
<1> QED  BY <1>1, <1>2

\* Two nodes of a level are the same or one is before the other.
LEMMA BeforeTotal ==
    ASSUME TypeOK, NEW a \in DOMAIN heap, NEW b \in DOMAIN heap, a[2] = b[2]
    PROVE  a = b \/ Before(a, b) \/ Before(b, a)
<1>1. /\ a = <<a[1], a[2]>> /\ b = <<b[1], b[2]>>
      /\ a[1] \in Nat /\ b[1] \in Nat
      /\ heap[a].key \in Int /\ heap[b].key \in Int
  BY AddressParts
<1>2. CASE a[1] = b[1]
  BY <1>1, <1>2
<1>3. CASE a[1] # b[1]
  BY <1>1, <1>3 DEF Before, IsHead
<1> QED  BY <1>2, <1>3

LEMMA BeforeStrict ==
    ASSUME TypeOK, NEW a \in DOMAIN heap, NEW b \in DOMAIN heap, Before(a, b)
    PROVE  a # b /\ ~Before(b, a)
<1>1. a[1] \in Nat /\ b[1] \in Nat /\ heap[a].key \in Int /\ heap[b].key \in Int
  BY AddressParts
<1> QED  BY <1>1 DEF Before, IsHead

\* Steps that leave the nodes alone leave alone what is said of them only.
LEMMA SameHeap ==
    ASSUME LevelsLinked, HaveNewest, UNCHANGED heap
    PROVE  LevelsLinked' /\ HaveNewest'
<1>1. LevelsLinked'
  BY DEF LevelsLinked, NextIsFirstAfter, DownIsCopy, Before
<1>2. HaveNewest'
  BY DEF HaveNewest, IsNewest, Versions
<1> QED  BY <1>1, <1>2

\* There is one newest version.
LEMMA NewestIs ==
    ASSUME NEW S, NEW n \in S,
           \A b \in S : b[1] \in Nat /\ b = <<b[1], 0>>,
           \A b \in S : b[1] <= n[1]
    PROVE  NewestOf(S) = n
<1>1. \E a \in S : \A b \in S : b[1] <= a[1]
  OBVIOUS
<1>2. NewestOf(S) \in S /\ \A b \in S : b[1] <= NewestOf(S)[1]
  BY <1>1 DEF NewestOf
<1>3. NewestOf(S)[1] = n[1]
  BY <1>2
<1> QED  BY <1>2, <1>3

LEMMA NewestOfKey ==
    ASSUME TypeOK, NEW k, NEW n, IsNewest(n, k)
    PROVE  Newest(k) = n
<1>1. \A b \in Versions(k) : b[1] \in Nat /\ b = <<b[1], 0>>
  BY AddressParts DEF Versions
<1> QED  BY <1>1, NewestIs DEF IsNewest, Newest

(***************************************************************************)
(* The search compares keys only: the number sought is the largest.        *)
(***************************************************************************)

LEMMA LessIsSmaller ==
    ASSUME ListInv, pc = "find", NEW n \in DOMAIN heap, ~IsHead(n)
    PROVE  Less(heap[n].key, heap[n].seq, call.key, Int64Max) <=> heap[n].key < call.key
<1>1. heap[n].key \in Int /\ heap[n].seq \in Seqs
  BY AddressParts DEF ListInv, NodesOK
<1>2. heap[n].seq \in Int /\ heap[n].seq <= Int64Max /\ Int64Max \in Int
  <2>1. Int64Max \in Int /\ MaxTowers \in Nat /\ MaxTowers <= Int64Max
        /\ \A s \in GivenSeqs : s \in Int /\ s <= Int64Max
    BY SkipListAssumption
  <2>2. heap[n].seq \in GivenSeqs \/ heap[n].seq \in 1 .. MaxTowers
    BY <1>1 DEF Seqs
  <2> QED  BY <2>1, <2>2
<1>3. call.key \in Int
  BY SkipListAssumption DEF ListInv, CallOK
<1> QED  BY <1>1, <1>2, <1>3 DEF Less

\* The search goes right exactly if the next node has a smaller key.
LEMMA GoesRightOK ==
    ASSUME ListInv, pc = "find", x \in DOMAIN heap
    PROVE  /\ GoesRight => /\ heap[x].next \in DOMAIN heap
                           /\ heap[x].next[2] = x[2]
                           /\ Smaller(heap[x].next)
           /\ ~GoesRight /\ heap[x].next # Null =>
                heap[heap[x].next].key >= call.key
<1>1. heap[x].next # Null => /\ heap[x].next \in DOMAIN heap
                             /\ heap[x].next[2] = x[2]
                             /\ ~IsHead(heap[x].next)
                             /\ heap[heap[x].next].key \in Int
  BY NextFacts, AddressParts DEF ListInv
<1>2. call.key \in Int
  BY SkipListAssumption DEF ListInv, CallOK
<1>3. heap[x].next # Null =>
        (GoesRight <=> heap[heap[x].next].key < call.key)
  BY <1>1, LessIsSmaller DEF GoesRight
<1>4. GoesRight => heap[x].next # Null
  BY DEF GoesRight
<1> QED  BY <1>1, <1>2, <1>3, <1>4 DEF Smaller

(***************************************************************************)
(* The steps, one lemma each.                                              *)
(***************************************************************************)

LEMMA InitInv == Init => Inv
<1> SUFFICES ASSUME Init
             PROVE  Inv
  OBVIOUS
<1>1. DOMAIN heap = {0} \X Levels
  BY DEF Init
<1>2. \A a \in DOMAIN heap : /\ a[1] = 0 /\ a[2] \in Levels /\ IsHead(a)
                             /\ a = HeadAt(a[2]) /\ a \in Address
  BY <1>1, LevelsType DEF HeadAt, IsHead, Address
<1>3. \A l \in Levels : HeadAt(l) \in DOMAIN heap
  BY <1>1 DEF HeadAt
<1>4. \A a \in DOMAIN heap : a[2] # 0 => a[2] - 1 \in Levels
  BY <1>2, LevelsType
<1>5. \A a \in DOMAIN heap :
        heap[a] = [key |-> 0, seq |-> 0, val |-> EmptyString, next |-> Null,
                   down |-> IF a[2] = 0 THEN Null ELSE HeadAt(a[2] - 1)]
  BY DEF Init
<1>6. \A a \in DOMAIN heap : heap[a] \in Node
  <2> TAKE a \in DOMAIN heap
  <2>1. (IF a[2] = 0 THEN Null ELSE HeadAt(a[2] - 1)) \in Pointer
    BY <1>2, <1>3, <1>4 DEF Pointer
  <2> QED  BY <1>5, <2>1 DEF Node, Contents, Pointer
<1>7. heap \in [DOMAIN heap -> Node]
  BY <1>6 DEF Init
<1>8. 0 \in Levels
  BY LevelsType
<1>9. NoUpdate \in [Levels -> DOMAIN heap \cup {Null}]
  BY DEF NoUpdate
<1>10. TypeOK
  <2>1. \A a \in DOMAIN heap : {heap[a].next, heap[a].down} \subseteq DOMAIN heap \cup {Null}
    BY <1>3, <1>4, <1>5
  <2>2. NoCall \in Call
    BY DEF NoCall, Contents, Call
  <2>3. DOMAIN heap \subseteq (0 .. towers) \X Levels
    BY <1>1 DEF Init
  <2>4. height \in 0 .. MaxLevel /\ lvl \in Levels /\ level \in Levels
    BY <1>8, LevelsType DEF Init
  <2>5. NoCall.op = "none"
    BY DEF NoCall
  <2> QED  BY <1>7, <1>9, <2>1, <2>2, <2>3, <2>4, <2>5 DEF Init, TypeOK
<1>11. LevelsLinked
  <2>1. NextIsFirstAfter
    BY <1>2, <1>5 DEF NextIsFirstAfter, Before
  <2>2. DownIsCopy
    BY <1>2, <1>3, <1>4, <1>5 DEF DownIsCopy, HeadAt
  <2> QED  BY <2>1, <2>2 DEF LevelsLinked
<1>12. NodesOK /\ NumbersOK
  BY <1>2, <1>3, SkipListAssumption DEF NodesOK, NumbersOK, Init
<1>13. CallOK /\ AnswersAscend
  BY DEF CallOK, AnswersAscend, Init, NoCall
<1>14. HaveNewest
  BY <1>2 DEF HaveNewest, Versions
<1> QED  BY <1>10, <1>11, <1>12, <1>13, <1>14
         DEF Inv, ListInv, Idle, Finding, LinkingOK, Scanning, Skipping, Freeing, Init

\* A call enters the search with its arguments at the top head.
LEMMA StartFindInv ==
    ASSUME Inv, pc = "idle", NEW c, StartFind(c),
           c \in Call, c.op \in {"write", "get", "scan"},
           c.key \in Keys, c.last \in Keys,
           c.op = "get" => c.last = c.key,
           c.op = "write" => /\ towers < MaxTowers
                             /\ c.seq \in Seqs
                             /\ c.val \in Values \cup {Tombstone},
           nextSeq' \in Nat \ {0},
           nextSeq' <= towers + 1 \/ (c.op = "write" /\ nextSeq' <= towers + 2)
    PROVE  Inv'
<1>1. /\ MaxLevel - 1 \in Levels
      /\ \A l \in Levels : ~(l > MaxLevel - 1)
      /\ HeadAt(MaxLevel - 1) \in DOMAIN heap
  BY LevelsType DEF Inv, ListInv, NodesOK
<1>2. /\ HeadAt(MaxLevel - 1)[2] = MaxLevel - 1
      /\ IsHead(HeadAt(MaxLevel - 1))
  BY <1>1, HeadParts
<1>3. TypeOK'
  <2>1. NoUpdate \in [Levels -> DOMAIN heap \cup {Null}]
    BY DEF NoUpdate
  <2> QED  BY <1>1, <2>1 DEF Inv, ListInv, StartFind, TypeOK, linking, scanning
<1>4. LevelsLinked' /\ HaveNewest'
  BY SameHeap DEF Inv, ListInv, StartFind
<1>5. NodesOK' /\ NumbersOK' /\ CallOK'
  <2>1. NodesOK'
    BY DEF Inv, ListInv, StartFind, NodesOK
  <2>2. NumbersOK'
    BY DEF Inv, ListInv, StartFind, NumbersOK
  <2>3. CallOK'
    BY DEF StartFind, CallOK
  <2> QED  BY <2>1, <2>2, <2>3
<1>6. Finding'
  BY <1>1, <1>2 DEF Inv, Idle, Finding, StartFind, Smaller, linking, scanning
<1>7. AnswersAscend'
  BY DEF StartFind, AnswersAscend
<1> QED  BY <1>3, <1>4, <1>5, <1>6, <1>7
         DEF Inv, ListInv, Idle, StartFind, LinkingOK, Scanning, Skipping, Freeing

LEMMA WriteInv ==
    ASSUME Inv, NEW k \in Keys, NEW s \in Seqs, NEW v \in Values \cup {Tombstone},
           Write(k, s, v), nextSeq' \in {nextSeq, nextSeq + 1}
    PROVE  Inv'
<1> DEFINE c == [op |-> "write", key |-> k, last |-> k, seq |-> s, val |-> v,
                 live |-> FALSE]
<1>1. StartFind(c) /\ pc = "idle" /\ towers < MaxTowers
  BY DEF Write
<1>2. k \in Int
  BY SkipListAssumption
<1>3. c \in Call
  BY <1>2 DEF Contents, Call
<1>4. nextSeq' \in Nat \ {0} /\ nextSeq' <= towers + 2
  BY <1>1 DEF Inv, ListInv, TypeOK, NumbersOK
<1> QED  BY <1>1, <1>3, <1>4, StartFindInv

LEMMA ReadInv ==
    ASSUME Inv, NEW a \in Keys, NEW b \in Keys, NEW live \in BOOLEAN,
           Lookup(a, live) \/ RangeScan(a, b, live)
    PROVE  Inv'
<1>1. a \in Int /\ b \in Int
  BY SkipListAssumption
<1>2. nextSeq \in Nat \ {0} /\ (pc = "idle" => nextSeq <= towers + 1)
  BY DEF Inv, ListInv, TypeOK, NumbersOK
<1>3. CASE Lookup(a, live)
  <2> DEFINE c == ReadCall("get", a, a, live)
  <2>1. StartFind(c) /\ pc = "idle" /\ UNCHANGED nextSeq
    BY <1>3 DEF Lookup
  <2>2. c \in Call
    BY <1>1 DEF ReadCall, Contents, Call
  <2>3. c.op = "get" /\ c.key = a /\ c.last = a
    BY DEF ReadCall
  <2> HIDE DEF c
  <2> QED  BY <1>2, <2>1, <2>2, <2>3, StartFindInv
<1>4. CASE RangeScan(a, b, live) /\ ~(a > b)
  <2> DEFINE c == ReadCall("scan", a, b, live)
  <2>1. StartFind(c) /\ pc = "idle" /\ UNCHANGED nextSeq
    BY <1>4 DEF RangeScan
  <2>2. c \in Call
    BY <1>1 DEF ReadCall, Contents, Call
  <2>3. c.op = "scan" /\ c.key = a /\ c.last = b
    BY DEF ReadCall
  <2> HIDE DEF c
  <2> QED  BY <1>2, <2>1, <2>2, <2>3, StartFindInv
<1>5. CASE RangeScan(a, b, live) /\ a > b
  <2>1. /\ answer' = <<>> /\ pc = "idle"
        /\ UNCHANGED <<heap, towers, nextSeq, pc, call, x, level, update, height,
                       lvl, down, current, out>>
    BY <1>5 DEF RangeScan, linking, scanning
  <2>2. TypeOK'
    BY <2>1 DEF Inv, ListInv, TypeOK
  <2>3. LevelsLinked' /\ HaveNewest'
    BY <2>1, SameHeap DEF Inv, ListInv
  <2>4. NodesOK' /\ NumbersOK' /\ CallOK' /\ AnswersAscend'
    BY <2>1 DEF Inv, ListInv, NodesOK, NumbersOK, CallOK, AnswersAscend
  <2> QED  BY <2>1, <2>2, <2>3, <2>4
           DEF Inv, ListInv, Idle, Finding, LinkingOK, Scanning, Skipping, Freeing
<1> QED  BY <1>3, <1>4, <1>5

\* A search step changes nothing but where it is.
LEMMA FindRightInv ==
    ASSUME Inv, FindRight
    PROVE  Inv'
<1>1. /\ pc = "find" /\ GoesRight /\ x' = heap[x].next
      /\ UNCHANGED <<heap, towers, nextSeq, pc, call, level, update, height, lvl,
                     down, current, out, answer>>
  BY DEF FindRight, linking, scanning
<1>2. x \in DOMAIN heap /\ x[2] = level /\ ListInv
  BY <1>1 DEF Inv, Finding
<1>3. x' \in DOMAIN heap /\ x'[2] = level /\ Smaller(x')
  BY <1>1, <1>2, GoesRightOK
<1>4. ListInv'
  <2>1. TypeOK'
    BY <1>1, <1>2, <1>3 DEF ListInv, TypeOK
  <2>2. LevelsLinked' /\ HaveNewest'
    BY <1>1, <1>2, SameHeap DEF ListInv
  <2>3. NodesOK' /\ NumbersOK' /\ CallOK'
    BY <1>1, <1>2 DEF ListInv, NodesOK, NumbersOK, CallOK
  <2> QED  BY <2>1, <2>2, <2>3 DEF ListInv
<1>5. Finding'
  <2>1. Smaller(x)'
    BY <1>1, <1>3 DEF Smaller
  <2>2. \A l \in Levels : Behind(l) => Behind(l)'
    BY <1>1 DEF Behind, Smaller
  <2> QED  BY <1>1, <1>2, <1>3, <2>1, <2>2 DEF Inv, Finding
<1>6. AnswersAscend'
  BY <1>1 DEF Inv, AnswersAscend
<1> QED  BY <1>1, <1>4, <1>5, <1>6
         DEF Inv, Idle, LinkingOK, Scanning, Skipping, Freeing

\* Where a level ends, x is the node to insert behind.
LEMMA LevelEnds ==
    ASSUME Inv, pc = "find", ~GoesRight, call.op = "write",
           update' = [update EXCEPT ![level] = x],
           UNCHANGED <<heap, call>>
    PROVE  /\ update' \in [Levels -> DOMAIN heap \cup {Null}]
           /\ \A l \in Levels : l >= level => Behind(l)'
<1>1. /\ x \in DOMAIN heap /\ x[2] = level /\ Smaller(x) /\ ListInv
      /\ \A l \in Levels : l > level => Behind(l)
      /\ level \in Levels
  BY DEF Inv, ListInv, Idle, Finding, TypeOK
<1>2. heap[x].next # Null => heap[heap[x].next].key >= call.key
  BY <1>1, GoesRightOK
<1>3. update \in [Levels -> DOMAIN heap \cup {Null}]
  BY <1>1 DEF ListInv, TypeOK
<1>4. update'[level] = x /\ \A l \in Levels : l # level => update'[l] = update[l]
  BY <1>1, <1>3
<1>5. ASSUME NEW l \in Levels, l >= level
      PROVE  Behind(l)'
  <2>1. CASE l = level
    BY <1>1, <1>2, <1>4, <2>1 DEF Behind, Smaller
  <2>2. CASE l # level
    <3>1. Behind(l)
      BY <1>1, <1>5, <2>2, LevelsType
    <3> QED  BY <1>4, <2>2, <3>1 DEF Behind, Smaller
  <2> QED  BY <2>1, <2>2
<1> QED  BY <1>1, <1>3, <1>5

LEMMA FindDownInv ==
    ASSUME Inv, FindDown
    PROVE  Inv'
<1>1. /\ pc = "find" /\ ~GoesRight /\ heap[x].down # Null
      /\ x' = heap[x].down /\ level' = level - 1
      /\ update' = IF call.op = "write" THEN [update EXCEPT ![level] = x] ELSE update
      /\ UNCHANGED <<heap, towers, nextSeq, pc, call, height, lvl, down, current,
                     out, answer>>
  BY DEF FindDown, linking, scanning
<1>2. x \in DOMAIN heap /\ x[2] = level /\ Smaller(x) /\ ListInv /\ level \in Levels
  BY <1>1 DEF Inv, ListInv, TypeOK, Finding
<1>3. /\ x' \in DOMAIN heap /\ x'[2] = level - 1 /\ Smaller(x')
      /\ level - 1 \in Levels
  <2>1. x[2] # 0
    BY <1>1, <1>2, DownFacts DEF ListInv
  <2>2. /\ x' \in DOMAIN heap /\ x'[2] = x[2] - 1 /\ heap[x'].key = heap[x].key
        /\ IsHead(x) <=> IsHead(x')
    BY <1>1, <1>2, <2>1, DownFacts DEF ListInv
  <2> QED  BY <1>2, <2>1, <2>2, LevelsType DEF Smaller
<1>4. /\ update' \in [Levels -> DOMAIN heap \cup {Null}]
      /\ call.op = "write" => \A l \in Levels : l > level' => Behind(l)'
  <2>1. CASE call.op = "write"
    <3>1. /\ update' \in [Levels -> DOMAIN heap \cup {Null}]
          /\ \A l \in Levels : l >= level => Behind(l)'
      BY <1>1, <2>1, LevelEnds
    <3> QED  BY <1>1, <1>2, <3>1, LevelsType
  <2>2. CASE call.op # "write"
    BY <1>1, <1>2, <2>2 DEF ListInv, TypeOK
  <2> QED  BY <2>1, <2>2
<1>5. ListInv'
  <2>1. TypeOK'
    BY <1>1, <1>2, <1>3, <1>4 DEF ListInv, TypeOK
  <2>2. LevelsLinked' /\ HaveNewest'
    BY <1>1, <1>2, SameHeap DEF ListInv
  <2>3. NodesOK' /\ NumbersOK' /\ CallOK'
    BY <1>1, <1>2 DEF ListInv, NodesOK, NumbersOK, CallOK
  <2> QED  BY <2>1, <2>2, <2>3 DEF ListInv
<1>6. Finding'
  <2>1. Smaller(x)'
    BY <1>1, <1>3 DEF Smaller
  <2> QED  BY <1>1, <1>3, <1>4, <2>1 DEF Inv, Finding
<1>7. AnswersAscend'
  BY <1>1 DEF Inv, AnswersAscend
<1> QED  BY <1>1, <1>5, <1>6, <1>7
         DEF Inv, Idle, LinkingOK, Scanning, Skipping, Freeing

LEMMA FoundToWriteInv ==
    ASSUME Inv, FoundToWrite
    PROVE  Inv'
<1>1. /\ pc = "find" /\ ~GoesRight /\ heap[x].down = Null /\ call.op = "write"
      /\ update' = [update EXCEPT ![level] = x]
      /\ height' \in 1 .. MaxLevel
      /\ towers' = towers + 1
      /\ pc' = "link"
      /\ UNCHANGED <<heap, nextSeq, call, x, level, lvl, down, current, out, answer>>
  BY DEF FoundToWrite, FoundAt, RandomLevel, scanning
<1>2. x \in DOMAIN heap /\ x[2] = level /\ ListInv /\ level \in Levels
  BY <1>1 DEF Inv, ListInv, TypeOK, Finding
<1>3. level = 0
  BY <1>1, <1>2, DownFacts DEF ListInv
<1>4. /\ update' \in [Levels -> DOMAIN heap \cup {Null}]
      /\ \A l \in Levels : Behind(l)'
  BY <1>1, <1>3, LevelEnds, LevelsType
<1>5. lvl = 0 /\ down = Null
  BY <1>1 DEF Inv, Finding
<1>6. \A l \in Levels : <<towers + 1, l>> \notin DOMAIN heap
  <2> SUFFICES ASSUME NEW l \in Levels, <<towers + 1, l>> \in DOMAIN heap
               PROVE  FALSE
    OBVIOUS
  <2>1. <<towers + 1, l>>[1] <= towers
    BY <1>2, AddressParts DEF ListInv
  <2> QED  BY <1>2, <2>1 DEF ListInv, TypeOK
<1>7. ListInv'
  <2>1. DOMAIN heap \subseteq (0 .. towers') \X Levels
    BY <1>1, <1>2 DEF ListInv, TypeOK
  <2>2. TypeOK'
    <3>1. height' \in 0 .. MaxLevel /\ towers' \in Nat
      <4>1. towers \in Nat
        BY <1>2 DEF ListInv, TypeOK
      <4> QED  BY <1>1, <4>1, LevelsType
    <3> QED  BY <1>1, <1>2, <1>4, <2>1, <3>1 DEF ListInv, TypeOK
  <2>3. LevelsLinked' /\ HaveNewest'
    BY <1>1, <1>2, SameHeap DEF ListInv
  <2>4. NodesOK' /\ CallOK'
    <3>1. NodesOK'
      BY <1>1, <1>2 DEF ListInv, NodesOK
    <3>2. CallOK'
      BY <1>1, <1>2 DEF ListInv, CallOK
    <3> QED  BY <3>1, <3>2
  <2>5. NumbersOK'
    <3>1. towers \in Nat /\ nextSeq \in Nat /\ NumbersOK
      BY <1>2 DEF ListInv, TypeOK
    <3>2. /\ pc = "find" /\ call.op = "write" /\ pc' = "link"
          /\ towers' = towers + 1 /\ nextSeq' = nextSeq
      BY <1>1
    <3> QED  BY <3>1, <3>2, SkipListAssumption DEF NumbersOK
  <2> QED  BY <2>2, <2>3, <2>4, <2>5 DEF ListInv
<1>8. LinkingOK'
  <2>1. towers' > 0 /\ lvl' < height'
    BY <1>1, <1>2, <1>5, LevelsType DEF ListInv, TypeOK
  <2>2. \A l \in Levels : <<towers', l>> \in DOMAIN heap' <=> l < lvl'
    BY <1>1, <1>5, <1>6, LevelsType
  <2> QED  BY <1>1, <1>4, <1>5, <2>1, <2>2 DEF LinkingOK
<1>9. AnswersAscend'
  BY <1>1 DEF Inv, AnswersAscend
<1> QED  BY <1>1, <1>7, <1>8, <1>9
         DEF Inv, Idle, Finding, Scanning, Skipping, Freeing

\* At the end of the search the next node is the first whose key is not
\* smaller, and the newest of its key.
LEMMA SearchEnd ==
    ASSUME Inv, FoundAt
    PROVE  /\ x \in DOMAIN heap
           /\ heap[x].next # Null =>
                /\ Bottom(heap[x].next)
                /\ heap[heap[x].next].key >= call.key
                /\ IsNewest(heap[x].next, heap[heap[x].next].key)
           /\ \A k \in Int : k >= call.key /\ Versions(k) # {} =>
                heap[x].next # Null /\ heap[heap[x].next].key <= k
<1> DEFINE n == heap[x].next
<1>1. /\ pc = "find" /\ ~GoesRight /\ heap[x].down = Null
      /\ x \in DOMAIN heap /\ Smaller(x) /\ ListInv
      /\ call.key \in Int
  BY SkipListAssumption DEF Inv, ListInv, CallOK, Finding, FoundAt
<1>2. x[2] = 0
  BY <1>1, DownFacts DEF ListInv
<1>3. n # Null => /\ n \in DOMAIN heap /\ n[2] = 0 /\ ~IsHead(n) /\ Before(x, n)
                  /\ heap[n].key \in Int
  BY <1>1, <1>2, NextFacts, AddressParts DEF ListInv
<1>4. n # Null => heap[n].key >= call.key
  BY <1>1, GoesRightOK
<1>5. ASSUME NEW k \in Int, k >= call.key, NEW b \in Versions(k)
      PROVE  n # Null /\ (b = n \/ Before(n, b))
  <2>1. b \in DOMAIN heap /\ b[2] = 0 /\ ~IsHead(b) /\ heap[b].key = k
    BY DEF Versions
  <2>2. Before(x, b)
    <3>1. heap[x].key \in Int
      BY <1>1, AddressParts DEF ListInv
    <3> QED  BY <1>1, <1>5, <2>1, <3>1 DEF Smaller, Before
  <2> QED  BY <1>1, <1>2, <2>1, <2>2, NextFacts DEF ListInv
<1>6. ASSUME NEW k \in Int, k >= call.key, NEW b \in Versions(k)
      PROVE  n # Null /\ heap[n].key <= k
  <2>1. n # Null /\ (b = n \/ Before(n, b)) /\ heap[b].key = k
    BY <1>5, <1>6 DEF Versions
  <2> QED  BY <1>3, <2>1 DEF Before
<1>7. n # Null => Bottom(n) /\ IsNewest(n, heap[n].key)
  <2> SUFFICES ASSUME n # Null
               PROVE  Bottom(n) /\ IsNewest(n, heap[n].key)
    OBVIOUS
  <2>1. n \in Versions(heap[n].key)
    BY <1>3 DEF Versions
  <2>2. ASSUME NEW b \in Versions(heap[n].key)
        PROVE  b[1] <= n[1]
    <3>1. b = n \/ Before(n, b)
      BY <1>3, <1>4, <1>5
    <3>2. b \in DOMAIN heap /\ heap[b].key = heap[n].key
      BY DEF Versions
    <3>3. b[1] \in Nat /\ n[1] \in Nat
      BY <1>1, <1>3, <3>2, AddressParts DEF ListInv
    <3> QED  BY <1>3, <3>1, <3>2, <3>3 DEF Before
  <2> QED  BY <1>3, <2>1, <2>2 DEF Bottom, IsNewest
<1> QED  BY <1>1, <1>4, <1>6, <1>7

\* A call returns.
LEMMA ReturnInv ==
    ASSUME Inv, Return, pc \in {"find", "link", "scan", "skip"},
           TypeOK => /\ heap' \in [DOMAIN heap' -> Node]
                     /\ DOMAIN heap' \subseteq (0 .. towers) \X Levels
                     /\ \A a \in DOMAIN heap' :
                          {heap'[a].next, heap'[a].down} \subseteq DOMAIN heap' \cup {Null},
           NodesOK', LevelsLinked', HaveNewest',
           UNCHANGED <<towers, nextSeq>>,
           nextSeq <= towers + 1,
           answer' \in Seq(Entry), AnswersAscend'
    PROVE  Inv'
<1>1. TypeOK /\ NumbersOK
  BY DEF Inv, ListInv
<1>2. TypeOK'
  <2>1. NoCall \in Call
    BY DEF NoCall, Contents, Call
  <2>2. NoUpdate \in [Levels -> DOMAIN heap' \cup {Null}]
    BY DEF NoUpdate
  <2>3. 0 \in Levels /\ 0 \in 0 .. MaxLevel /\ 0 \in Int /\ <<>> \in Seq(Entry)
    BY LevelsType
  <2> QED  BY <1>1, <2>1, <2>2, <2>3 DEF TypeOK, Return
<1>3. NumbersOK'
  BY <1>1 DEF NumbersOK, Return
<1>4. CallOK'
  BY DEF CallOK, Return, NoCall
<1> QED  BY <1>2, <1>3, <1>4
         DEF Inv, ListInv, Idle, Finding, LinkingOK, Scanning, Skipping, Freeing, Return

\* What a reader copies of a node that it found.
LEMMA EntryType ==
    ASSUME ListInv, NEW n, Bottom(n)
    PROVE  EntryOf(n) \in Entry /\ EntryOf(n).key = heap[n].key
BY DEF ListInv, NodesOK, Bottom, EntryOf, Entry

LEMMA FoundByGetInv ==
    ASSUME Inv, FoundByGet
    PROVE  Inv'
<1> DEFINE n == heap[x].next
<1>1. /\ FoundAt /\ pc = "find" /\ call.op = "get" /\ Return /\ ListInv
      /\ answer' = IF n # Null /\ heap[n].key = call.key /\ ~Hidden(n)
                   THEN <<EntryOf(n)>> ELSE <<>>
      /\ UNCHANGED <<heap, towers, nextSeq>>
  BY DEF FoundByGet, FoundAt, Inv
<1>2. n # Null => Bottom(n)
  BY <1>1, SearchEnd
<1>3. n # Null => EntryOf(n) \in Entry
  BY <1>1, <1>2, EntryType
<1> HIDE DEF n
<1>4. answer' \in Seq(Entry) /\ AnswersAscend'
  <2>1. CASE answer' = <<>>
    BY <2>1 DEF AnswersAscend
  <2>2. CASE answer' = <<EntryOf(n)>> /\ n # Null
    BY <1>3, <2>2 DEF AnswersAscend
  <2> QED  BY <1>1, <2>1, <2>2
<1>5. NodesOK' /\ LevelsLinked' /\ HaveNewest'
  <2>1. NodesOK'
    BY <1>1 DEF ListInv, NodesOK, Return
  <2> QED  BY <1>1, <2>1, SameHeap DEF ListInv
<1>6. nextSeq <= towers + 1
  BY <1>1 DEF ListInv, NumbersOK
<1> QED  BY <1>1, <1>4, <1>5, <1>6, ReturnInv DEF TypeOK

\* What a scan collects, key by key.
LEMMA NewestsOf ==
    ASSUME ListInv, NEW S \in SUBSET Keys,
           NEW k \in Keys, NEW n, IsNewest(n, k)
    PROVE  Newests(S \cup {k}) = Newests(S) \cup (IF Hidden(n) THEN {} ELSE {EntryOf(n)})
<1>1. Newest(k) = n /\ Versions(k) # {}
  BY NewestOfKey DEF ListInv, IsNewest
<1> QED  BY <1>1 DEF Newests

LEMMA NewestKeys ==
    ASSUME ListInv, NEW S \in SUBSET Keys, NEW e \in Newests(S)
    PROVE  e.key \in S
<1>1. PICK k \in S : Versions(k) # {} /\ e = EntryOf(Newest(k))
  BY DEF Newests
<1>2. PICK n \in Versions(k) : IsNewest(n, k)
  BY <1>1 DEF ListInv, HaveNewest
<1>3. Newest(k) = n
  BY <1>2, NewestOfKey DEF ListInv
<1> QED  BY <1>1, <1>2, <1>3 DEF Versions, EntryOf

\* Keys without a version add nothing.
LEMMA NewestsSame ==
    ASSUME NEW S \in SUBSET Keys, NEW T \in SUBSET Keys, S \subseteq T,
           \A k \in T \ S : Versions(k) = {}
    PROVE  Newests(S) = Newests(T)
BY DEF Newests

LEMMA CollectedSame ==
    ASSUME NEW S, Collected(S), UNCHANGED <<heap, call, out>>
    PROVE  Collected(S)'
<1>1. Newests(S)' = Newests(S)
  BY DEF Newests, Newest, Versions, Hidden, EntryOf
<1> QED  BY <1>1 DEF Collected

LEMMA FoundByScanInv ==
    ASSUME Inv, FoundByScan
    PROVE  Inv'
<1>1. /\ FoundAt /\ pc = "find" /\ call.op = "scan" /\ ListInv
      /\ x' = heap[x].next /\ pc' = "scan"
      /\ UNCHANGED <<heap, towers, nextSeq, call, level, update, height, lvl, down,
                     current, out, answer>>
  BY DEF FoundByScan, FoundAt, Inv, linking, scanning
<1>2. /\ x' # Null => /\ Bottom(x') /\ heap[x'].key >= call.key
                      /\ IsNewest(x', heap[x'].key)
      /\ \A k \in Int : k >= call.key /\ Versions(k) # {} =>
           x' # Null /\ heap[x'].key <= k
  BY <1>1, SearchEnd
<1>3. ListInv'
  <2>1. TypeOK'
    BY <1>1, <1>2 DEF ListInv, TypeOK, Bottom
  <2>2. LevelsLinked' /\ HaveNewest'
    BY <1>1, SameHeap DEF ListInv
  <2>3. NodesOK' /\ NumbersOK' /\ CallOK'
    BY <1>1 DEF ListInv, NodesOK, NumbersOK, CallOK
  <2> QED  BY <2>1, <2>2, <2>3 DEF ListInv
<1>4. Scanning'
  <2>1. PICK S : S = {k \in Keys : /\ call.key <= k /\ k <= call.last
                                   /\ x' = Null \/ k < heap[x'].key}
    OBVIOUS
  <2>2. \A k \in S : Versions(k) = {}
    <3>1. x' # Null => heap[x'].key \in Int
      BY <1>1, <1>2, AddressParts DEF ListInv, Bottom
    <3>2. \A k \in Keys : k \in Int
      BY SkipListAssumption
    <3>3. call.key \in Int
      BY <1>1, <3>2 DEF ListInv, CallOK
    <3> QED  BY <1>2, <2>1, <3>1, <3>2, <3>3
  <2>3. Collected(S)
    <3>1. Newests(S) = {} /\ out = <<>>
      BY <1>1, <2>2 DEF Newests, Inv, Finding
    <3> QED  BY <3>1 DEF Collected
  <2>4. Collected(S)'
    BY <1>1, <2>3, CollectedSame
  <2>5. (x # Null => Bottom(x) /\ heap[x].key >= call.key /\ IsNewest(x, heap[x].key))'
    BY <1>1, <1>2 DEF Bottom, IsNewest, Versions
  <2> QED  BY <1>1, <2>1, <2>4, <2>5 DEF Scanning
<1>5. AnswersAscend'
  BY <1>1 DEF Inv, AnswersAscend
<1> QED  BY <1>1, <1>3, <1>4, <1>5
         DEF Inv, Idle, Finding, LinkingOK, Skipping, Freeing

\* The keys of a scan's call are integers, and so are those of nodes.
LEMMA ScanKeys ==
    ASSUME ListInv, pc \in {"scan", "skip"}
    PROVE  /\ call.key \in Int /\ call.last \in Int /\ call.op = "scan"
           /\ \A k \in Keys : k \in Int
           /\ \A a : Bottom(a) => /\ a \in DOMAIN heap /\ heap[a].key \in Keys
                                  /\ heap[a].key \in Int
                                  /\ a # Null
BY SkipListAssumption, AddressParts DEF ListInv, CallOK, NodesOK, Bottom

LEMMA ScanKeyInv ==
    ASSUME Inv, ScanKey
    PROVE  Inv'
<1>1. /\ pc = "scan" /\ x # Null /\ heap[x].key <= call.last /\ ListInv
      /\ out' = IF Hidden(x) THEN out ELSE Append(out, EntryOf(x))
      /\ current' = heap[x].key /\ pc' = "skip"
      /\ UNCHANGED <<heap, towers, nextSeq, call, x, level, update, height, lvl,
                     down, answer>>
  BY DEF ScanKey, InRange, Inv, linking
<1>2. /\ Bottom(x) /\ heap[x].key >= call.key /\ IsNewest(x, heap[x].key)
      /\ heap[x].key \in Keys /\ heap[x].key \in Int
      /\ call.key \in Int /\ call.last \in Int
  BY <1>1, ScanKeys DEF Inv, Scanning
<1>3. EntryOf(x) \in Entry /\ EntryOf(x).key = heap[x].key
  BY <1>1, <1>2, EntryType
<1>4. PICK S : S = {k \in Keys : /\ call.key <= k /\ k <= call.last
                                 /\ x = Null \/ k < heap[x].key}
  OBVIOUS
<1>5. Collected(S) /\ S \in SUBSET Keys
  BY <1>1, <1>4 DEF Inv, Scanning
<1>6. PICK T : T = S \cup {heap[x].key}
  OBVIOUS
<1>7. T = {k \in Keys : call.key <= k /\ k <= heap[x].key}
  <2>1. \A k \in Keys : k \in Int
    BY SkipListAssumption
  <2> QED  BY <1>1, <1>2, <1>4, <1>6, <2>1
<1>8. out \in Seq(Entry) /\ \A i \in DOMAIN out : out[i].key < heap[x].key
  <2>1. out \in Seq(Entry)
    BY <1>1 DEF ListInv, TypeOK
  <2>2. ASSUME NEW i \in DOMAIN out
        PROVE  out[i].key < heap[x].key
    <3>1. out[i] \in Newests(S)
      BY <1>5 DEF Collected
    <3>2. out[i].key \in S
      BY <1>1, <1>5, <3>1, NewestKeys
    <3> QED  BY <1>1, <1>4, <3>2
  <2> QED  BY <2>1, <2>2
<1>9. out' \in Seq(Entry)
  BY <1>1, <1>3, <1>8
<1>10. Collected(T)'
  <2>1. Newests(T)' = Newests(T)
    BY <1>1 DEF Newests, Newest, Versions, Hidden, EntryOf
  <2>2. Newests(T) = Newests(S) \cup (IF Hidden(x) THEN {} ELSE {EntryOf(x)})
    BY <1>1, <1>2, <1>5, <1>6, NewestsOf
  <2>3. CASE Hidden(x)
    BY <1>1, <1>5, <2>1, <2>2, <2>3 DEF Collected
  <2>4. CASE ~Hidden(x)
    <3>1. out' = Append(out, EntryOf(x))
      BY <1>1, <2>4
    <3>2. /\ DOMAIN out = 1 .. Len(out) /\ Len(out) \in Nat
          /\ DOMAIN out' = 1 .. Len(out) + 1
          /\ \A i \in DOMAIN out : out'[i] = out[i]
          /\ out'[Len(out) + 1] = EntryOf(x)
      BY <1>3, <1>8, <3>1
    <3>3. {out'[i] : i \in DOMAIN out'} = {out[i] : i \in DOMAIN out} \cup {EntryOf(x)}
      BY <3>2
    <3>4. \A i, j \in DOMAIN out' : i < j => out'[i].key < out'[j].key
      <4> TAKE i, j \in DOMAIN out'
      <4> HAVE i < j
      <4>1. i \in DOMAIN out
        BY <3>2
      <4>2. CASE j \in DOMAIN out
        BY <1>5, <3>2, <4>1, <4>2 DEF Collected
      <4>3. CASE j = Len(out) + 1
        BY <1>3, <1>8, <3>2, <4>1, <4>3
      <4> QED  BY <3>2, <4>2, <4>3
    <3> QED  BY <1>5, <2>1, <2>2, <2>4, <3>3, <3>4 DEF Collected
  <2> QED  BY <2>3, <2>4
<1>11. ListInv'
  <2>1. TypeOK'
    BY <1>1, <1>2, <1>9 DEF ListInv, TypeOK
  <2>2. LevelsLinked' /\ HaveNewest'
    BY <1>1, SameHeap DEF ListInv
  <2>3. NodesOK' /\ NumbersOK' /\ CallOK'
    BY <1>1 DEF ListInv, NodesOK, NumbersOK, CallOK
  <2> QED  BY <2>1, <2>2, <2>3 DEF ListInv
<1>12. Skipping'
  <2>1. ASSUME NEW b \in DOMAIN heap, Bottom(b), heap[b].key > heap[x].key
        PROVE  Before(x, b)
    BY <2>1 DEF Bottom, Before
  <2>2. \A b \in DOMAIN heap' : (Bottom(b) /\ heap[b].key > current)' =>
          Before(x, b)'
    BY <1>1, <2>1 DEF Bottom, Before
  <2>3. T = {k \in Keys : call'.key <= k /\ k <= current'}
    BY <1>1, <1>7
  <2>4. Bottom(x)' /\ heap'[x'].key >= current'
    BY <1>1, <1>2 DEF Bottom
  <2> QED  BY <1>1, <1>2, <1>10, <2>2, <2>3, <2>4 DEF Skipping
<1>13. AnswersAscend'
  BY <1>1 DEF Inv, AnswersAscend
<1> QED  BY <1>1, <1>11, <1>12, <1>13
         DEF Inv, Idle, Finding, LinkingOK, Scanning, Freeing

LEMMA SkipOlderInv ==
    ASSUME Inv, SkipOlder
    PROVE  Inv'
<1>1. /\ pc = "skip" /\ ListInv
      /\ IF x # Null /\ heap[x].key = current
         THEN x' = heap[x].next /\ pc' = "skip"
         ELSE pc' = "scan" /\ x' = x
      /\ UNCHANGED <<heap, towers, nextSeq, call, level, update, height, lvl, down,
                     current, out, answer>>
  BY DEF SkipOlder, Inv, linking, scanning
<1>2. /\ current \in Keys /\ call.key <= current /\ current <= call.last
      /\ current \in Int /\ call.key \in Int /\ call.last \in Int
      /\ x # Null => /\ Bottom(x) /\ heap[x].key >= current
                     /\ x \in DOMAIN heap /\ heap[x].key \in Int
      /\ \A b \in DOMAIN heap : Bottom(b) /\ heap[b].key > current =>
           x # Null /\ (b = x \/ Before(x, b))
  BY <1>1, ScanKeys DEF Inv, Skipping
<1>3. PICK T : T = {k \in Keys : call.key <= k /\ k <= current}
  OBVIOUS
<1>4. Collected(T) /\ T \in SUBSET Keys
  BY <1>1, <1>3 DEF Inv, Skipping
<1>5. LevelsLinked' /\ NodesOK' /\ NumbersOK' /\ CallOK' /\ HaveNewest' /\ AnswersAscend'
  <2>1. LevelsLinked' /\ HaveNewest'
    BY <1>1, SameHeap DEF ListInv
  <2>2. NodesOK' /\ NumbersOK' /\ CallOK'
    BY <1>1 DEF ListInv, NodesOK, NumbersOK, CallOK
  <2> QED  BY <1>1, <2>1, <2>2 DEF Inv, AnswersAscend
<1>6. CASE x # Null /\ heap[x].key = current
  <2>1. x' = heap[x].next /\ pc' = "skip"
    BY <1>1, <1>6
  <2>2. x' # Null => /\ x' \in DOMAIN heap /\ x'[2] = 0 /\ ~IsHead(x')
                     /\ Before(x, x')
    BY <1>1, <1>2, <1>6, <2>1, NextFacts DEF ListInv, Bottom
  <2>3. x' # Null => Bottom(x') /\ heap[x'].key >= current
    BY <1>2, <1>6, <2>2, ScanKeys, <1>1 DEF Bottom, Before
  <2>4. ASSUME NEW b \in DOMAIN heap, Bottom(b), heap[b].key > current
        PROVE  x' # Null /\ (b = x' \/ Before(x', b))
    <3>1. Before(x, b) /\ b[2] = x[2]
      BY <1>2, <1>6, <2>4 DEF Bottom
    <3> QED  BY <1>1, <1>2, <1>6, <2>1, <3>1, NextFacts DEF ListInv
  <2>5. Skipping'
    <3>1. Collected(T)'
      BY <1>1, <1>4, CollectedSame
    <3>2. (x # Null => Bottom(x) /\ heap[x].key >= current)'
      BY <1>1, <2>3 DEF Bottom
    <3>3. (\A b \in DOMAIN heap : Bottom(b) /\ heap[b].key > current =>
             x # Null /\ (b = x \/ Before(x, b)))'
      BY <1>1, <2>4 DEF Bottom, Before
    <3> QED  BY <1>1, <1>2, <1>3, <3>1, <3>2, <3>3 DEF Skipping
  <2>6. TypeOK'
    BY <1>1, <2>2 DEF ListInv, TypeOK
  <2> QED  BY <1>1, <1>5, <2>1, <2>5, <2>6
           DEF Inv, ListInv, Idle, Finding, LinkingOK, Scanning, Freeing
<1>7. CASE ~(x # Null /\ heap[x].key = current)
  <2>1. pc' = "scan" /\ x' = x
    BY <1>1, <1>7
  <2>2. x # Null => heap[x].key > current
    BY <1>2, <1>7
  <2>3. x # Null => IsNewest(x, heap[x].key)
    <3> SUFFICES ASSUME x # Null
                 PROVE  IsNewest(x, heap[x].key)
      OBVIOUS
    <3>1. x \in Versions(heap[x].key)
      BY <1>2 DEF Bottom, Versions
    <3>2. ASSUME NEW b \in Versions(heap[x].key)
          PROVE  b[1] <= x[1]
      <4>1. b \in DOMAIN heap /\ Bottom(b) /\ heap[b].key = heap[x].key
        BY DEF Versions, Bottom
      <4>2. b = x \/ Before(x, b)
        BY <1>2, <2>2, <4>1
      <4>3. b[1] \in Nat /\ x[1] \in Nat
        BY <1>1, <1>2, <4>1, AddressParts DEF ListInv
      <4> QED  BY <1>2, <4>1, <4>2, <4>3 DEF Before, Bottom
    <3> QED  BY <3>1, <3>2 DEF IsNewest
  <2>4. PICK S : S = {k \in Keys : /\ call.key <= k /\ k <= call.last
                                   /\ x = Null \/ k < heap[x].key}
    OBVIOUS
  <2>5. T \subseteq S /\ S \in SUBSET Keys
    <3>1. \A k \in Keys : k \in Int
      BY SkipListAssumption
    <3> QED  BY <1>2, <1>3, <2>2, <2>4, <3>1
  <2>6. \A k \in S \ T : Versions(k) = {}
    <3> SUFFICES ASSUME NEW k \in S \ T, NEW b \in Versions(k)
                 PROVE  FALSE
      OBVIOUS
    <3>1. b \in DOMAIN heap /\ Bottom(b) /\ heap[b].key = k /\ k \in Int
      BY <2>5, SkipListAssumption DEF Versions, Bottom
    <3>2. k > current
      BY <1>2, <1>3, <2>4, <3>1
    <3>3. x # Null /\ (b = x \/ Before(x, b))
      BY <1>2, <3>1, <3>2
    <3>4. heap[x].key <= k
      BY <1>2, <3>1, <3>3 DEF Before, Bottom
    <3> QED  BY <1>2, <2>4, <3>1, <3>3, <3>4
  <2>7. Collected(S)'
    <3>1. Newests(T) = Newests(S)
      BY <1>4, <2>5, <2>6, NewestsSame
    <3>2. Collected(S)
      BY <1>4, <3>1 DEF Collected
    <3> QED  BY <1>1, <3>2, CollectedSame
  <2>8. Scanning'
    <3>1. (x # Null => Bottom(x) /\ heap[x].key >= call.key /\ IsNewest(x, heap[x].key))'
      BY <1>1, <1>2, <2>1, <2>3 DEF Bottom, IsNewest, Versions
    <3> QED  BY <1>1, <2>1, <2>4, <2>7, <3>1 DEF Scanning
  <2>9. TypeOK'
    BY <1>1, <2>1 DEF ListInv, TypeOK
  <2> QED  BY <1>1, <1>5, <2>1, <2>8, <2>9
           DEF Inv, ListInv, Idle, Finding, LinkingOK, Skipping, Freeing
<1> QED  BY <1>6, <1>7

\* A scan that is done has collected every key in its range.
LEMMA ScanDoneInv ==
    ASSUME Inv, ScanDone
    PROVE  Inv' /\ Collected({k \in Keys : call.key <= k /\ k <= call.last})
<1>1. /\ pc = "scan" /\ ~InRange /\ answer' = out /\ Return /\ ListInv
      /\ UNCHANGED <<heap, towers, nextSeq>>
  BY DEF ScanDone, Inv
<1>2. {k \in Keys : /\ call.key <= k /\ k <= call.last
                    /\ x = Null \/ k < heap[x].key}
      = {k \in Keys : call.key <= k /\ k <= call.last}
  <2>1. x # Null => heap[x].key \in Int /\ heap[x].key > call.last
    BY <1>1, ScanKeys DEF Inv, Scanning, InRange
  <2>2. call.last \in Int /\ \A k \in Keys : k \in Int
    BY <1>1, ScanKeys
  <2> QED  BY <2>1, <2>2
<1>3. Collected({k \in Keys : call.key <= k /\ k <= call.last})
  BY <1>1, <1>2 DEF Inv, Scanning
<1>4. answer' \in Seq(Entry) /\ AnswersAscend'
  BY <1>1, <1>3 DEF ListInv, TypeOK, Collected, AnswersAscend
<1>5. NodesOK' /\ LevelsLinked' /\ HaveNewest'
  <2>1. NodesOK'
    BY <1>1 DEF ListInv, NodesOK, Return
  <2> QED  BY <1>1, <2>1, SameHeap DEF ListInv
<1>6. nextSeq <= towers + 1
  BY <1>1 DEF ListInv, NumbersOK
<1> QED  BY <1>1, <1>3, <1>4, <1>5, <1>6, ReturnInv DEF TypeOK

(***************************************************************************)
(* The insertion of a node.                                                *)
(***************************************************************************)

\* A node between p and what followed it, where every node up to p belongs
\* before it and every node after p behind it.
LEMMA LinkHeap ==
    ASSUME Inv, Link
    PROVE  /\ heap' \in [DOMAIN heap' -> Node]
           /\ DOMAIN heap' \subseteq (0 .. towers) \X Levels
           /\ \A a \in DOMAIN heap' :
                {heap'[a].next, heap'[a].down} \subseteq DOMAIN heap' \cup {Null}
           /\ DOMAIN heap' = DOMAIN heap \cup {<<towers, lvl>>}
           /\ <<towers, lvl>> \notin DOMAIN heap
           /\ heap'[<<towers, lvl>>].key = call.key
           /\ heap'[<<towers, lvl>>].seq = call.seq
           /\ lvl = 0 => heap'[<<towers, lvl>>].val = call.val
           /\ \A a \in DOMAIN heap : /\ heap'[a].key = heap[a].key
                                     /\ heap'[a].seq = heap[a].seq
                                     /\ heap'[a].val = heap[a].val
           /\ \A a \in DOMAIN heap : a # Prev => heap'[a].next = heap[a].next
           /\ LevelsLinked'
<1>a. PICK p, f, n : p = update[lvl] /\ f = heap[p].next /\ n = <<towers, lvl>>
  OBVIOUS
<1> DEFINE new == [key |-> call.key, seq |-> call.seq,
                   val |-> IF lvl = 0 \/ call.val = Tombstone THEN call.val
                           ELSE EmptyString,
                   next |-> f, down |-> down]
<1>1. /\ pc = "link" /\ ListInv /\ TypeOK
      /\ heap' = [a \in DOMAIN heap \cup {n} |->
                    IF a = n THEN new
                    ELSE IF a = p THEN [heap[a] EXCEPT !.next = n]
                    ELSE heap[a]]
      /\ UNCHANGED <<towers, nextSeq>>
  BY <1>a DEF Link, Prev, Follower, Inv, ListInv
<1>2. /\ towers \in Nat /\ towers > 0 /\ lvl \in Levels /\ lvl \in Nat
      /\ p \in DOMAIN heap /\ p[2] = lvl /\ Smaller(p)
      /\ f # Null => heap[f].key >= call.key
      /\ n \notin DOMAIN heap
      /\ down = IF lvl = 0 THEN Null ELSE <<towers, lvl - 1>>
      /\ lvl > 0 => <<towers, lvl - 1>> \in DOMAIN heap /\ heap[down].key = call.key
  <2>1. lvl \in Levels /\ towers \in Nat
    BY <1>1 DEF TypeOK
  <2>2. lvl > 0 => lvl - 1 \in Levels /\ lvl - 1 < lvl
    BY <2>1, LevelsType
  <2> QED  BY <1>a, <1>1, <2>1, <2>2, LevelsType DEF Inv, LinkingOK, Behind
<1>3. /\ call.key \in Int /\ call.key \in Keys /\ call.seq \in Seqs
      /\ call.val \in Values \cup {Tombstone}
  BY <1>1, SkipListAssumption DEF ListInv, CallOK
<1>4. /\ f \in DOMAIN heap \cup {Null}
      /\ f # Null => /\ f[2] = lvl /\ Before(p, f) /\ ~IsHead(f)
      /\ \A b \in DOMAIN heap : b[2] = lvl /\ Before(p, b) =>
           f # Null /\ (b = f \/ Before(f, b))
  BY <1>a, <1>1, <1>2, NextFacts DEF ListInv
<1>5. /\ n[1] = towers /\ n[2] = lvl /\ ~IsHead(n) /\ n # p
      /\ n # Null
      /\ n \in (0 .. towers) \X Levels /\ n \in Address
  <2>1. n \in Nat \X Int /\ n = <<towers, lvl>>
    BY <1>a, <1>2
  <2>2. n # Null
    BY <2>1, SkipListAssumption
  <2> QED  BY <1>2, <2>1, <2>2 DEF IsHead, Address
<1>6. heap[p] \in Node /\ \A a \in DOMAIN heap : heap[a] \in Node
  BY <1>1, <1>2 DEF TypeOK
<1>7. [heap[p] EXCEPT !.next = n] \in Node
      /\ [heap[p] EXCEPT !.next = n].next = n
      /\ [heap[p] EXCEPT !.next = n].key = heap[p].key
      /\ [heap[p] EXCEPT !.next = n].seq = heap[p].seq
      /\ [heap[p] EXCEPT !.next = n].val = heap[p].val
      /\ [heap[p] EXCEPT !.next = n].down = heap[p].down
  BY <1>5, <1>6 DEF Node, Pointer
<1>8. new \in Node /\ new.key = call.key /\ new.seq = call.seq
      /\ (lvl = 0 => new.val = call.val) /\ new.next = f /\ new.down = down
  <2>1. f \in Pointer /\ down \in Pointer
    <3>1. \A a \in DOMAIN heap : a \in Address
      BY <1>1 DEF TypeOK, Address
    <3> QED  BY <1>2, <1>4, <3>1 DEF Pointer
  <2>2. call.seq \in Int
    <3>1. \A s \in GivenSeqs : s \in Int
      BY SkipListAssumption
    <3>a. MaxTowers \in Int
      BY SkipListAssumption
    <3>2. call.seq \in GivenSeqs \/ call.seq \in 1 .. MaxTowers
      BY <1>3 DEF Seqs
    <3> QED  BY <3>1, <3>a, <3>2
  <2>3. (IF lvl = 0 \/ call.val = Tombstone THEN call.val ELSE EmptyString) \in Contents
    BY <1>3 DEF Contents
  <2> QED  BY <1>3, <2>1, <2>2, <2>3 DEF Node
<1> HIDE DEF new
<1>9. /\ DOMAIN heap' = DOMAIN heap \cup {n}
      /\ heap'[n] = new
      /\ heap'[p] = [heap[p] EXCEPT !.next = n]
      /\ \A a \in DOMAIN heap : a # p => heap'[a] = heap[a]
      /\ \A a \in DOMAIN heap \cup {n} : heap'[a] \in Node
  BY <1>1, <1>2, <1>5, <1>6, <1>7, <1>8
<1>10. /\ \A a \in DOMAIN heap : /\ heap'[a].key = heap[a].key
                                 /\ heap'[a].seq = heap[a].seq
                                 /\ heap'[a].val = heap[a].val
                                 /\ heap'[a].down = heap[a].down
       /\ heap'[p].next = n
       /\ \A a \in DOMAIN heap : a # p => heap'[a].next = heap[a].next
       /\ heap'[n].next = f /\ heap'[n].key = call.key /\ heap'[n].down = down
       /\ heap'[n].seq = call.seq /\ (lvl = 0 => heap'[n].val = call.val)
  BY <1>7, <1>8, <1>9
<1>11. heap' \in [DOMAIN heap' -> Node]
  BY <1>1, <1>9
<1>12. DOMAIN heap' \subseteq (0 .. towers) \X Levels
  BY <1>1, <1>5, <1>9 DEF TypeOK
<1>13. \A a \in DOMAIN heap' :
         {heap'[a].next, heap'[a].down} \subseteq DOMAIN heap' \cup {Null}
  <2>1. \A a \in DOMAIN heap :
          {heap[a].next, heap[a].down} \subseteq DOMAIN heap \cup {Null}
    BY <1>1 DEF TypeOK
  <2>2. down \in DOMAIN heap \cup {Null}
    BY <1>1 DEF TypeOK
  <2>3. {heap'[n].next, heap'[n].down} \subseteq DOMAIN heap \cup {Null}
    BY <1>4, <1>10, <2>2
  <2>4. ASSUME NEW a \in DOMAIN heap
        PROVE  {heap'[a].next, heap'[a].down} \subseteq DOMAIN heap \cup {n, Null}
    <3>1. heap'[a].next \in {heap[a].next, n} /\ heap'[a].down = heap[a].down
      BY <1>10
    <3> QED  BY <2>1, <3>1
  <2> QED  BY <1>9, <2>3, <2>4
<1>14. \A a, b \in DOMAIN heap : Before(a, b)' <=> Before(a, b)
  BY <1>10 DEF Before
<1>15. \A a \in DOMAIN heap : a[2] = lvl => (Before(a, n)' <=> Smaller(a))
  <2> TAKE a \in DOMAIN heap
  <2>1. a[1] <= towers /\ a[1] \in Nat
    BY <1>1, AddressParts
  <2> QED  BY <1>2, <1>3, <1>5, <1>10, <2>1 DEF Before, Smaller
<1>16. \A b \in DOMAIN heap : b[2] = lvl => (Before(n, b)' <=> ~Smaller(b))
  <2> SUFFICES ASSUME NEW b \in DOMAIN heap, b[2] = lvl
               PROVE  Before(n, b)' <=> ~Smaller(b)
    OBVIOUS
  <2>1. b[1] <= towers /\ b[1] \in Nat /\ b = <<b[1], b[2]>> /\ heap[b].key \in Int
    BY <1>1, AddressParts
  <2>2. b[1] # towers
    BY <1>a, <1>2, <2>1
  <2> QED  BY <1>2, <1>3, <1>5, <1>10, <2>1, <2>2 DEF Before, Smaller
<1>17. ~Before(n, n)'
  BY <1>2, <1>3, <1>5, <1>10 DEF Before
<1>18. f # Null => f \in DOMAIN heap /\ ~Smaller(f)
  <2>1. f # Null => f \in DOMAIN heap /\ heap[f].key \in Int
    BY <1>1, <1>4, AddressParts
  <2> QED  BY <1>2, <1>3, <1>4, <2>1 DEF Smaller
<1>19. \A b \in DOMAIN heap : b[2] = lvl /\ ~Smaller(b) =>
         f # Null /\ (b = f \/ Before(f, b))
  <2> TAKE b \in DOMAIN heap
  <2> HAVE b[2] = lvl /\ ~Smaller(b)
  <2>1. heap[b].key \in Int /\ heap[p].key \in Int
    BY <1>1, <1>2, AddressParts
  <2>2. Before(p, b)
    BY <1>2, <1>3, <2>1 DEF Smaller, Before
  <2> QED  BY <1>4, <2>2
<1>20. NextIsFirstAfter'
  <2> SUFFICES ASSUME NEW a \in DOMAIN heap', NEW h, h = heap'[a].next
               PROVE  /\ h # Null => h \in DOMAIN heap' /\ h[2] = a[2] /\ Before(a, h)'
                      /\ \A b \in DOMAIN heap' :
                           b[2] = a[2] /\ Before(a, b)' =>
                             h # Null /\ (b = h \/ Before(h, b)')
    BY DEF NextIsFirstAfter
  <2>1. CASE a = n
    BY <1>4, <1>5, <1>9, <1>10, <1>14, <1>16, <1>17, <1>18, <1>19, <2>1
  <2>2. CASE a = p
    <3>1. heap'[a].next = n /\ n \in DOMAIN heap' /\ n[2] = a[2] /\ Before(a, n)'
      BY <1>2, <1>5, <1>9, <1>10, <1>15, <2>2
    <3>2. ASSUME NEW b \in DOMAIN heap', b[2] = a[2], Before(a, b)', b # n
          PROVE  Before(n, b)'
      <4>1. b \in DOMAIN heap /\ Before(p, b) /\ b[2] = lvl
        BY <1>2, <1>9, <1>14, <2>2, <3>2
      <4>2. f # Null /\ (b = f \/ Before(f, b))
        BY <1>4, <4>1
      <4>3. ~Smaller(b)
        <5>1. heap[b].key \in Int /\ heap[f].key \in Int
          BY <1>1, <1>18, <4>1, <4>2, AddressParts
        <5> QED  BY <1>3, <1>18, <4>2, <5>1 DEF Smaller, Before
      <4> QED  BY <1>16, <4>1, <4>3
    <3> QED  BY <1>5, <3>1, <3>2
  <2>3. CASE a # n /\ a # p
    <3>1. a \in DOMAIN heap /\ heap'[a].next = heap[a].next
      BY <1>9, <1>10, <2>3
    <3>a. PICK g : g = heap[a].next
      OBVIOUS
    <3>2. /\ g # Null => g \in DOMAIN heap /\ g[2] = a[2] /\ Before(a, g) /\ ~IsHead(g)
          /\ \A b \in DOMAIN heap : b[2] = a[2] /\ Before(a, b) =>
               g # Null /\ (b = g \/ Before(g, b))
      BY <1>1, <3>1, <3>a, NextFacts DEF ListInv
    <3>3. ASSUME n[2] = a[2], Before(a, n)'
          PROVE  g # Null /\ Before(g, n)'
      <4>1. Smaller(a) /\ a[2] = lvl
        BY <1>5, <1>15, <3>1, <3>3
      <4>2. Before(a, p) \/ Before(p, a)
        BY <1>1, <1>2, <2>3, <3>1, <4>1, BeforeTotal
      <4>3. CASE Before(p, a)
        <5>1. f # Null /\ (a = f \/ Before(f, a))
          BY <1>4, <3>1, <4>1, <4>3
        <5>2. heap[a].key \in Int /\ heap[f].key \in Int
          BY <1>1, <1>18, <3>1, <5>1, AddressParts
        <5> QED  BY <1>3, <1>18, <4>1, <5>1, <5>2 DEF Smaller, Before
      <4>4. CASE Before(a, p)
        <5>1. g # Null /\ (p = g \/ Before(g, p))
          BY <1>2, <3>2, <4>1, <4>4
        <5>2. heap[g].key \in Int /\ heap[p].key \in Int
          BY <1>1, <1>2, <3>2, <5>1, AddressParts
        <5>3. Smaller(g)
          BY <1>2, <1>3, <3>2, <5>1, <5>2 DEF Smaller, Before
        <5> QED  BY <1>15, <3>2, <4>1, <5>1, <5>3
      <4> QED  BY <4>2, <4>3, <4>4
    <3>4. heap'[a].next = g
      BY <3>1, <3>a
    <3> QED  BY <1>9, <1>14, <3>1, <3>2, <3>3, <3>4
  <2> QED  BY <2>1, <2>2, <2>3
<1>21. DownIsCopy'
  <2> SUFFICES ASSUME NEW a \in DOMAIN heap'
               PROVE  IF a[2] = 0 THEN heap'[a].down = Null
                      ELSE /\ heap'[a].down = <<a[1], a[2] - 1>>
                           /\ heap'[a].down \in DOMAIN heap'
                           /\ heap'[heap'[a].down].key = heap'[a].key
    BY DEF DownIsCopy
  <2>1. CASE a \in DOMAIN heap
    <3>1. heap'[a].down = heap[a].down /\ heap'[a].key = heap[a].key
      BY <1>10, <2>1
    <3>2. CASE a[2] = 0
      BY <1>1, <2>1, <3>1, <3>2 DEF ListInv, LevelsLinked, DownIsCopy
    <3>3. CASE a[2] # 0
      <4>1. /\ heap[a].down = <<a[1], a[2] - 1>> /\ heap[a].down \in DOMAIN heap
            /\ heap[heap[a].down].key = heap[a].key
        BY <1>1, <2>1, <3>3 DEF ListInv, LevelsLinked, DownIsCopy
      <4> QED  BY <1>9, <1>10, <3>1, <3>3, <4>1
    <3> QED  BY <3>2, <3>3
  <2>2. CASE a = n
    BY <1>2, <1>5, <1>9, <1>10, <2>2
  <2> QED  BY <1>9, <2>1, <2>2
<1>22. LevelsLinked'
  BY <1>20, <1>21 DEF LevelsLinked
<1> QED  BY <1>2, <1>9, <1>10, <1>11, <1>12, <1>13, <1>22, <1>a DEF Prev

\* The bottom node of a tower is the newest version of its key, and the nodes
\* above it are no versions.
LEMMA LinkVersions ==
    ASSUME Inv, Link, NEW k, NEW n, n = <<towers, lvl>>
    PROVE  /\ lvl = 0 /\ k = call.key =>
                /\ Versions(k)' = Versions(k) \cup {n}
                /\ IsNewest(n, k)'
           /\ ~(lvl = 0 /\ k = call.key) =>
                /\ Versions(k)' = Versions(k)
                /\ \A m : IsNewest(m, k) => IsNewest(m, k)'
<1>a. n = <<towers, lvl>>
  OBVIOUS
<1>1. /\ DOMAIN heap' = DOMAIN heap \cup {n}
      /\ n \notin DOMAIN heap
      /\ heap'[n].key = call.key
      /\ \A a \in DOMAIN heap : heap'[a].key = heap[a].key
  BY <1>a, LinkHeap
<1>2. n[1] = towers /\ n[2] = lvl /\ ~IsHead(n) /\ TypeOK
  <2>1. towers > 0 /\ pc = "link" /\ TypeOK
    BY DEF Inv, ListInv, Link, LinkingOK
  <2> QED  BY <1>a, <2>1 DEF IsHead, TypeOK
<1>3. \A b \in Versions(k) : b \in DOMAIN heap /\ b[1] <= towers /\ b[1] \in Nat
  BY <1>2, AddressParts DEF Versions
<1>4. CASE lvl = 0 /\ k = call.key
  <2>1. Versions(k)' = Versions(k) \cup {n}
    BY <1>1, <1>2, <1>4 DEF Versions
  <2>2. towers \in Nat
    BY <1>2 DEF TypeOK
  <2>3. n \in Versions(k)' /\ \A b \in Versions(k)' : b[1] <= n[1]
    BY <1>2, <1>3, <2>1, <2>2
  <2>4. IsNewest(n, k)'
    BY <2>3 DEF IsNewest
  <2> QED  BY <1>4, <2>1, <2>4
<1>5. CASE ~(lvl = 0 /\ k = call.key)
  <2>1. Versions(k)' = Versions(k)
    BY <1>1, <1>2, <1>5 DEF Versions
  <2> QED  BY <1>5, <2>1 DEF IsNewest
<1> QED  BY <1>4, <1>5

LEMMA LinkInv ==
    ASSUME Inv, Link
    PROVE  Inv'
<1>a. PICK n : n = <<towers, lvl>>
  OBVIOUS
<1>1. /\ pc = "link" /\ ListInv /\ TypeOK /\ call.op = "write"
      /\ call.key \in Keys /\ call.seq \in Seqs /\ call.val \in Values \cup {Tombstone}
      /\ UNCHANGED <<towers, nextSeq, answer>>
      /\ towers > 0 /\ towers \in Nat /\ lvl \in Levels /\ lvl \in Nat
  BY LevelsType DEF Link, Inv, ListInv, CallOK, LinkingOK, TypeOK
<1>2. /\ heap' \in [DOMAIN heap' -> Node]
      /\ DOMAIN heap' \subseteq (0 .. towers) \X Levels
      /\ \A a \in DOMAIN heap' :
           {heap'[a].next, heap'[a].down} \subseteq DOMAIN heap' \cup {Null}
      /\ DOMAIN heap' = DOMAIN heap \cup {n}
      /\ n \notin DOMAIN heap
      /\ heap'[n].key = call.key /\ heap'[n].seq = call.seq
      /\ lvl = 0 => heap'[n].val = call.val
      /\ \A a \in DOMAIN heap : /\ heap'[a].key = heap[a].key
                                /\ heap'[a].seq = heap[a].seq
                                /\ heap'[a].val = heap[a].val
      /\ \A a \in DOMAIN heap : a # update[lvl] => heap'[a].next = heap[a].next
      /\ LevelsLinked'
  BY <1>a, LinkHeap DEF Prev
<1>3. n[1] = towers /\ n[2] = lvl /\ ~IsHead(n)
  BY <1>a, <1>1 DEF IsHead
<1>4. NodesOK'
  <2>1. ASSUME NEW a \in DOMAIN heap', ~IsHead(a)
        PROVE  /\ heap'[a].key \in Keys
               /\ heap'[a].seq \in Seqs
               /\ a[2] = 0 => heap'[a].val \in Values \cup {Tombstone}
    <3>1. CASE a = n
      BY <1>1, <1>2, <1>3, <3>1
    <3>2. CASE a \in DOMAIN heap
      BY <1>1, <1>2, <2>1, <3>2 DEF ListInv, NodesOK
    <3> QED  BY <1>2, <3>1, <3>2
  <2>2. \A l \in Levels : HeadAt(l) \in DOMAIN heap'
    BY <1>1, <1>2 DEF ListInv, NodesOK
  <2> QED  BY <2>1, <2>2 DEF NodesOK
<1>5. HaveNewest'
  <2> SUFFICES ASSUME NEW k \in Keys, Versions(k)' # {}
               PROVE  \E m \in Versions(k)' : IsNewest(m, k)'
    BY DEF HaveNewest
  <2>1. CASE lvl = 0 /\ k = call.key
    BY <1>a, <2>1, LinkVersions
  <2>2. CASE ~(lvl = 0 /\ k = call.key)
    <3>1. Versions(k)' = Versions(k) /\ \A m : IsNewest(m, k) => IsNewest(m, k)'
      BY <1>a, <2>2, LinkVersions
    <3> QED  BY <1>1, <3>1 DEF ListInv, HaveNewest
  <2> QED  BY <2>1, <2>2
<1>6. nextSeq <= towers + 1 /\ answer \in Seq(Entry)
  BY <1>1 DEF ListInv, NumbersOK, TypeOK
<1>7. AnswersAscend'
  BY <1>1 DEF Inv, AnswersAscend
<1>8. CASE ~(lvl + 1 < height)
  <2>1. Return
    BY <1>8 DEF Link
  <2> QED  BY <1>1, <1>2, <1>4, <1>5, <1>6, <1>7, <2>1, ReturnInv
<1>9. CASE lvl + 1 < height
  <2>1. /\ lvl' = lvl + 1 /\ down' = n
        /\ UNCHANGED <<pc, call, x, level, update, height, current, out>>
    BY <1>a, <1>9 DEF Link, scanning
  <2>2. lvl + 1 \in Levels
    <3>1. height \in 0 .. MaxLevel
      BY <1>1 DEF TypeOK
    <3> QED  BY <1>1, <1>9, <3>1, LevelsType
  <2>3. TypeOK'
    BY <1>1, <1>2, <2>1, <2>2 DEF TypeOK
  <2>4. NumbersOK' /\ CallOK'
    BY <1>1, <2>1 DEF ListInv, NumbersOK, CallOK
  <2>5. LinkingOK'
    <3>1. ASSUME NEW l \in Levels, l >= lvl + 1
          PROVE  Behind(l)'
      <4>1. Behind(l) /\ Behind(lvl) /\ l # lvl
        BY <1>1, <3>1, LevelsType DEF Inv, LinkingOK
      <4>2. update[l] # update[lvl]
        BY <4>1 DEF Behind
      <4>3. /\ update[l] \in DOMAIN heap /\ update'[l] = update[l] /\ call' = call
            /\ heap'[update[l]].next = heap[update[l]].next
        BY <1>2, <2>1, <4>1, <4>2 DEF Behind
      <4>4. heap[update[l]].next # Null => heap[update[l]].next \in DOMAIN heap
        BY <1>1, <4>3 DEF TypeOK
      <4> QED  BY <1>2, <4>1, <4>3, <4>4 DEF Behind, Smaller
    <3>2. ASSUME NEW l \in Levels
          PROVE  <<towers, l>> \in DOMAIN heap' <=> l < lvl + 1
      <4>1. <<towers, l>> \in DOMAIN heap <=> l < lvl
        BY <1>1 DEF Inv, LinkingOK
      <4>2. <<towers, l>> = n <=> l = lvl
        BY <1>a
      <4> QED  BY <1>1, <1>2, <4>1, <4>2, LevelsType
    <3>3. down' = <<towers, lvl>> /\ heap'[down'].key = call.key
      BY <1>a, <1>2, <2>1
    <3> QED  BY <1>1, <1>9, <2>1, <3>1, <3>2, <3>3 DEF LinkingOK
  <2> QED  BY <1>1, <1>2, <1>4, <1>5, <1>7, <2>1, <2>3, <2>4, <2>5
           DEF Inv, ListInv, Idle, Finding, Scanning, Skipping, Freeing
<1> QED  BY <1>8, <1>9

(***************************************************************************)
(* The destructor.                                                         *)
(***************************************************************************)

LEMMA DestroyInv ==
    ASSUME Inv, Destroy
    PROVE  Inv'
<1>a. PICK h : h = HeadAt(MaxLevel - 1)
  OBVIOUS
<1>1. /\ pc = "idle" /\ pc' = "free" /\ ListInv /\ TypeOK
      /\ x' = h /\ down' = heap[h].down
      /\ UNCHANGED <<heap, towers, nextSeq, call, level, update, height, lvl, current,
                     out, answer>>
  BY <1>a DEF Destroy, Inv, ListInv, scanning
<1>2. /\ MaxLevel - 1 \in Levels /\ h \in DOMAIN heap /\ IsHead(h)
      /\ h[1] = 0 /\ h[2] = MaxLevel - 1 /\ h # Null
  BY <1>a, <1>1, LevelsType, HeadParts DEF ListInv, NodesOK
<1>3. FreeingAt(h)'
  <2>1. ASSUME NEW b \in DOMAIN heap
        PROVE  b[2] <= h[2] /\ (b[2] = h[2] => b = h \/ Before(h, b)')
    <3>1. b[2] \in Levels /\ b = <<b[1], b[2]>>
      BY <1>1, AddressParts
    <3>2. IsHead(b) /\ b[2] = h[2] => b = h
      BY <1>a, <3>1, <1>2 DEF IsHead, HeadAt
    <3> QED  BY <1>2, <3>1, <3>2, LevelsType DEF Before
  <2> QED  BY <1>1, <2>1 DEF FreeingAt, ListInv, NodesOK
<1>4. down' = (IF h[2] = 0 THEN Null ELSE HeadAt(h[2] - 1)) /\ down' \in DOMAIN heap \cup {Null}
  BY <1>1, <1>2, DownFacts DEF ListInv, HeadAt
<1>5. ListInv'
  <2>1. TypeOK'
    BY <1>1, <1>2, <1>4 DEF TypeOK
  <2>2. LevelsLinked' /\ HaveNewest'
    BY <1>1, SameHeap DEF ListInv
  <2>3. NodesOK' /\ NumbersOK' /\ CallOK'
    BY <1>1 DEF ListInv, NodesOK, NumbersOK, CallOK
  <2> QED  BY <2>1, <2>2, <2>3 DEF ListInv
<1>6. Freeing'
  BY <1>1, <1>2, <1>3, <1>4 DEF Freeing
<1>7. AnswersAscend' /\ Idle'
  BY <1>1 DEF Inv, Idle, AnswersAscend
<1> QED  BY <1>1, <1>5, <1>6, <1>7
         DEF Inv, Finding, LinkingOK, Scanning, Skipping

\* The node freed is the first of those left, so none of them refers to it.
LEMMA FreeNodeInv ==
    ASSUME Inv, FreeNode
    PROVE  Inv'
<1>a. PICK n : n = x
  OBVIOUS
<1>1. /\ pc = "free" /\ n # Null /\ ListInv /\ TypeOK
      /\ heap' = [a \in DOMAIN heap \ {n} |-> heap[a]]
      /\ x' = heap[n].next
      /\ UNCHANGED <<towers, nextSeq, pc, call, level, update, height, lvl, down,
                     current, out, answer>>
  BY <1>a DEF FreeNode, Inv, ListInv, linking, scanning
<1>2. /\ n \in DOMAIN heap
      /\ \A b \in DOMAIN heap : b[2] <= n[2] /\ (b[2] = n[2] => b = n \/ Before(n, b))
      /\ \A l \in Levels : l < n[2] => HeadAt(l) \in DOMAIN heap
      /\ down = IF n[2] = 0 THEN Null ELSE HeadAt(n[2] - 1)
      /\ n[2] \in Levels /\ n[2] \in Nat
      /\ update = NoUpdate /\ call = NoCall
  <2>1. n \in DOMAIN heap
    BY <1>a, <1>1 DEF TypeOK
  <2>2. n[2] \in Levels /\ n[2] \in Nat
    BY <1>1, <2>1, AddressParts, LevelsType
  <2> QED  BY <1>a, <1>1, <2>1, <2>2 DEF Inv, Idle, Freeing, FreeingAt
<1>3. /\ DOMAIN heap' = DOMAIN heap \ {n}
      /\ \A a \in DOMAIN heap' : heap'[a] = heap[a]
  BY <1>1
<1>4. \A a, b \in DOMAIN heap' : Before(a, b)' <=> Before(a, b)
  BY <1>3 DEF Before
<1>5. ASSUME NEW a \in DOMAIN heap'
      PROVE  heap[a].next # n /\ heap[a].down # n
  <2>1. a \in DOMAIN heap /\ a # n
    BY <1>3
  <2>2. heap[a].next # n
    <3> SUFFICES ASSUME heap[a].next = n
                 PROVE  FALSE
      OBVIOUS
    <3>1. n[2] = a[2] /\ Before(a, n)
      BY <1>1, <2>1, NextFacts DEF ListInv
    <3>2. Before(n, a)
      BY <1>2, <2>1, <3>1
    <3> QED  BY <1>1, <1>2, <2>1, <3>1, <3>2, BeforeStrict
  <2>3. heap[a].down # n
    <3> SUFFICES ASSUME heap[a].down = n
                 PROVE  FALSE
      OBVIOUS
    <3>1. n[2] = a[2] - 1
      BY <1>1, <2>1, DownFacts DEF ListInv
    <3>2. a[2] <= n[2] /\ a[2] \in Nat
      BY <1>1, <1>2, <2>1, AddressParts, LevelsType
    <3> QED  BY <1>2, <3>1, <3>2
  <2> QED  BY <2>2, <2>3
<1>6. /\ x' # Null => x' \in DOMAIN heap' /\ x'[2] = n[2] /\ Before(n, x')
      /\ \A b \in DOMAIN heap' : b[2] = n[2] =>
           x' # Null /\ (b = x' \/ Before(x', b))
  <2>1. x' # Null => x' \in DOMAIN heap /\ x'[2] = n[2] /\ Before(n, x')
    BY <1>1, <1>2, NextFacts DEF ListInv
  <2>2. x' # Null => x' # n
    BY <1>1, <1>2, <2>1, BeforeStrict
  <2>3. ASSUME NEW b \in DOMAIN heap', b[2] = n[2]
        PROVE  x' # Null /\ (b = x' \/ Before(x', b))
    <3>1. b \in DOMAIN heap /\ Before(n, b)
      BY <1>2, <1>3, <2>3
    <3> QED  BY <1>1, <1>2, <2>3, <3>1, NextFacts DEF ListInv
  <2> QED  BY <1>3, <2>1, <2>2, <2>3
<1>7. /\ down # Null => down \in DOMAIN heap' /\ down = HeadAt(n[2] - 1) /\ n[2] # 0
                        /\ n[2] - 1 \in Levels
      /\ \A l \in Levels : l < n[2] => HeadAt(l) \in DOMAIN heap'
  <2>1. \A l \in Levels : l < n[2] => HeadAt(l) \in DOMAIN heap'
    BY <1>2, <1>3, HeadParts, LevelsType
  <2>2. n[2] # 0 => n[2] - 1 \in Levels
    BY <1>2, LevelsType
  <2> QED  BY <1>2, <2>1, <2>2
<1>8. TypeOK'
  <2>1. heap' \in [DOMAIN heap' -> Node]
    BY <1>1 DEF TypeOK
  <2>2. \A a \in DOMAIN heap' :
          {heap'[a].next, heap'[a].down} \subseteq DOMAIN heap' \cup {Null}
    BY <1>1, <1>3, <1>5 DEF TypeOK
  <2>3. update' \in [Levels -> DOMAIN heap' \cup {Null}]
    BY <1>1, <1>2 DEF NoUpdate
  <2>4. {x', down'} \subseteq DOMAIN heap' \cup {Null}
    BY <1>1, <1>6, <1>7
  <2>5. DOMAIN heap' \subseteq (0 .. towers) \X Levels
    BY <1>1, <1>3 DEF TypeOK
  <2> QED  BY <1>1, <2>1, <2>2, <2>3, <2>4, <2>5 DEF TypeOK
<1>9. NextIsFirstAfter'
  <2> SUFFICES ASSUME NEW a \in DOMAIN heap', NEW h, h = heap'[a].next
               PROVE  /\ h # Null => h \in DOMAIN heap' /\ h[2] = a[2] /\ Before(a, h)'
                      /\ \A b \in DOMAIN heap' :
                           b[2] = a[2] /\ Before(a, b)' =>
                             h # Null /\ (b = h \/ Before(h, b)')
    BY DEF NextIsFirstAfter
  <2>1. a \in DOMAIN heap /\ h = heap[a].next /\ h # n
    BY <1>3, <1>5
  <2>2. /\ h # Null => h \in DOMAIN heap /\ h[2] = a[2] /\ Before(a, h)
        /\ \A b \in DOMAIN heap : b[2] = a[2] /\ Before(a, b) =>
             h # Null /\ (b = h \/ Before(h, b))
    BY <1>1, <2>1, NextFacts DEF ListInv
  <2> QED  BY <1>3, <1>4, <2>1, <2>2
<1>10. DownIsCopy'
  <2> SUFFICES ASSUME NEW a \in DOMAIN heap'
               PROVE  IF a[2] = 0 THEN heap'[a].down = Null
                      ELSE /\ heap'[a].down = <<a[1], a[2] - 1>>
                           /\ heap'[a].down \in DOMAIN heap'
                           /\ heap'[heap'[a].down].key = heap'[a].key
    BY DEF DownIsCopy
  <2>1. a \in DOMAIN heap /\ heap'[a] = heap[a] /\ heap[a].down # n
    BY <1>3, <1>5
  <2>2. IF a[2] = 0 THEN heap[a].down = Null
        ELSE /\ heap[a].down = <<a[1], a[2] - 1>>
             /\ heap[a].down \in DOMAIN heap
             /\ heap[heap[a].down].key = heap[a].key
    BY <1>1, <2>1 DEF ListInv, LevelsLinked, DownIsCopy
  <2> QED  BY <1>3, <2>1, <2>2
<1>11. HaveNewest'
  <2> SUFFICES ASSUME NEW k \in Keys, Versions(k)' # {}
               PROVE  \E m \in Versions(k)' : IsNewest(m, k)'
    BY DEF HaveNewest
  <2>1. Versions(k)' = Versions(k) \ {n}
    BY <1>3 DEF Versions
  <2>2. PICK m \in Versions(k) : IsNewest(m, k)
    BY <1>1, <2>1 DEF ListInv, HaveNewest
  <2>3. CASE m # n
    BY <2>1, <2>2, <2>3 DEF IsNewest
  <2>4. CASE m = n
    <3>1. n[2] = 0 /\ ~IsHead(n) /\ heap[n].key = k
      BY <2>2, <2>4 DEF Versions
    <3>2. ASSUME NEW b \in Versions(k)'
          PROVE  x' \in Versions(k)' /\ b[1] <= x'[1]
      <4>1. b \in DOMAIN heap' /\ b[2] = n[2] /\ heap[b].key = k /\ ~IsHead(b)
        BY <1>3, <2>1, <3>1 DEF Versions
      <4>2. x' # Null /\ (b = x' \/ Before(x', b))
        BY <1>6, <4>1
      <4>3. x' \in DOMAIN heap' /\ x'[2] = 0 /\ Before(n, x') /\ x' \in DOMAIN heap
        BY <1>3, <1>6, <3>1, <4>2
      <4>4. /\ x'[1] \in Nat /\ b[1] \in Nat /\ heap[x'].key \in Int
            /\ heap[n].key \in Int
        BY <1>1, <1>2, <1>3, <4>1, <4>3, AddressParts
      <4>5. ~IsHead(x') /\ heap[x'].key = k
        BY <3>1, <4>1, <4>2, <4>3, <4>4 DEF Before
      <4>6. x' \in Versions(k) /\ x' # n
        BY <1>3, <4>3, <4>5 DEF Versions
      <4> QED  BY <2>1, <4>1, <4>2, <4>4, <4>5, <4>6 DEF Before
    <3>3. PICK y : y = x'
      OBVIOUS
    <3>4. y \in Versions(k)' /\ \A b \in Versions(k)' : b[1] <= y[1]
      BY <3>2, <3>3
    <3> QED  BY <3>4 DEF IsNewest
  <2> QED  BY <2>3, <2>4
<1>12. NodesOK' /\ NumbersOK' /\ CallOK'
  <2>1. NodesOK'
    BY <1>1, <1>3 DEF ListInv, NodesOK
  <2>2. NumbersOK' /\ CallOK'
    BY <1>1 DEF ListInv, NumbersOK, CallOK
  <2> QED  BY <2>1, <2>2
<1>13. Freeing'
  <2>a. PICK y : y = x'
    OBVIOUS
  <2>1. CASE y # Null
    <3>1. FreeingAt(y)'
      BY <1>2, <1>3, <1>4, <1>6, <1>7, <2>a, <2>1 DEF FreeingAt
    <3> QED  BY <1>1, <1>2, <1>6, <2>a, <2>1, <3>1 DEF Freeing
  <2>2. CASE y = Null
    <3>1. \A b \in DOMAIN heap' : b[2] < n[2] /\ b[2] \in Nat
      <4> TAKE b \in DOMAIN heap'
      <4>1. b[2] \in Nat /\ b[2] <= n[2] /\ b[2] # n[2]
        BY <1>1, <1>2, <1>3, <1>6, <2>a, <2>2, AddressParts, LevelsType
      <4> QED  BY <1>2, <4>1
    <3>2. CASE down = Null
      <4>1. n[2] = 0
        BY <1>2, <3>2, HeadParts, LevelsType
      <4>2. ASSUME NEW b \in DOMAIN heap'
            PROVE  FALSE
        <5>1. b[2] < 0 /\ b[2] \in Nat
          BY <3>1, <4>1
        <5> QED  BY <5>1
      <4>3. DOMAIN heap' = {}
        BY <4>2
      <4> QED  BY <1>1, <2>a, <2>2, <3>2, <4>3 DEF Freeing
    <3>3. CASE down # Null
      <4>a. PICK h : h = down
        OBVIOUS
      <4>1. /\ h = HeadAt(n[2] - 1) /\ h \in DOMAIN heap' /\ n[2] # 0
            /\ h[1] = 0 /\ h[2] = n[2] - 1 /\ IsHead(h)
        BY <1>7, <3>3, <4>a, HeadParts
      <4>2. ASSUME NEW b \in DOMAIN heap'
            PROVE  b[2] <= h[2] /\ (b[2] = h[2] => b = h \/ Before(h, b)')
        <5>1. b[2] < n[2] /\ b[2] \in Nat /\ b = <<b[1], b[2]>>
          BY <1>1, <1>3, <3>1, AddressParts
        <5>2. IsHead(b) /\ b[2] = h[2] => b = h
          BY <4>1, <5>1 DEF IsHead, HeadAt
        <5> QED  BY <1>2, <4>1, <5>1, <5>2 DEF Before
      <4>3. \A l \in Levels : l < h[2] => HeadAt(l) \in DOMAIN heap'
        BY <1>2, <1>7, <4>1, LevelsType
      <4>4. FreeingAt(h)'
        BY <4>2, <4>3 DEF FreeingAt
      <4>5. h = HeadAt(h[2])
        BY <4>1
      <4> QED  BY <1>1, <2>a, <2>2, <3>3, <4>a, <4>4, <4>5 DEF Freeing
    <3> QED  BY <3>2, <3>3
  <2> QED  BY <2>1, <2>2
<1>14. AnswersAscend' /\ Idle'
  BY <1>1 DEF Inv, Idle, AnswersAscend
<1>15. LevelsLinked'
  BY <1>9, <1>10 DEF LevelsLinked
<1> QED  BY <1>1, <1>8, <1>11, <1>12, <1>13, <1>14, <1>15
         DEF Inv, ListInv, Finding, LinkingOK, Scanning, Skipping

LEMMA FreeLevelInv ==
    ASSUME Inv, FreeLevelBelow
    PROVE  Inv'
<1>1. /\ pc = "free" /\ x = Null /\ ListInv /\ TypeOK
      /\ IF down # Null
         THEN x' = down /\ down' = heap[down].down /\ pc' = "free"
         ELSE pc' = "gone" /\ x' = x /\ down' = down
      /\ UNCHANGED <<heap, towers, nextSeq, call, level, update, height, lvl,
                     current, out, answer>>
  BY DEF FreeLevelBelow, Inv, ListInv, scanning
<1>2. /\ down # Null => down = HeadAt(down[2]) /\ FreeingAt(down)
      /\ down = Null => DOMAIN heap = {}
  BY <1>1 DEF Inv, Freeing
<1>3. down # Null => /\ down \in DOMAIN heap
                     /\ down[2] \in Levels
                     /\ heap[down].down \in DOMAIN heap \cup {Null}
                     /\ heap[down].down = IF down[2] = 0 THEN Null
                                          ELSE HeadAt(down[2] - 1)
  <2> SUFFICES ASSUME down # Null
               PROVE  /\ down \in DOMAIN heap
                      /\ down[2] \in Levels
                      /\ heap[down].down \in DOMAIN heap \cup {Null}
                      /\ heap[down].down = IF down[2] = 0 THEN Null
                                           ELSE HeadAt(down[2] - 1)
    OBVIOUS
  <2>1. down \in DOMAIN heap
    BY <1>1 DEF TypeOK
  <2>2. down[2] \in Levels
    BY <1>1, <2>1, AddressParts
  <2>3. down[1] = 0
    BY <1>2, <2>2, HeadParts
  <2> QED  BY <1>1, <2>1, <2>2, <2>3, DownFacts DEF ListInv, HeadAt
<1>4. ListInv'
  <2>1. TypeOK'
    BY <1>1, <1>3 DEF TypeOK
  <2>2. LevelsLinked' /\ HaveNewest'
    BY <1>1, SameHeap DEF ListInv
  <2>3. NodesOK' /\ NumbersOK' /\ CallOK'
    BY <1>1 DEF ListInv, NodesOK, NumbersOK, CallOK
  <2> QED  BY <2>1, <2>2, <2>3 DEF ListInv
<1>5. Freeing'
  <2>1. CASE down = Null
    BY <1>1, <1>2, <2>1 DEF Freeing
  <2>2. CASE down # Null
    <3>1. FreeingAt(x)'
      BY <1>1, <1>2, <2>2 DEF FreeingAt, Before
    <3> QED  BY <1>1, <1>3, <2>2, <3>1 DEF Freeing
  <2> QED  BY <2>1, <2>2
<1>6. AnswersAscend' /\ Idle'
  BY <1>1 DEF Inv, Idle, AnswersAscend
<1> QED  BY <1>1, <1>4, <1>5, <1>6
         DEF Inv, Finding, LinkingOK, Scanning, Skipping

(***************************************************************************)
(* The theorems.                                                           *)
(***************************************************************************)

LEMMA StutterInv ==
    ASSUME Inv, UNCHANGED vars
    PROVE  Inv'
<1>1. UNCHANGED <<heap, towers, nextSeq, pc, call, x, level, update, height, lvl,
                  down, current, out, answer>>
  BY DEF vars, linking, scanning
<1>2. ListInv'
  <2>1. LevelsLinked' /\ HaveNewest'
    BY <1>1, SameHeap DEF Inv, ListInv
  <2>2. TypeOK' /\ NodesOK' /\ NumbersOK' /\ CallOK'
    BY <1>1 DEF Inv, ListInv, TypeOK, NodesOK, NumbersOK, CallOK
  <2> QED  BY <2>1, <2>2 DEF ListInv
<1>3. Idle' /\ AnswersAscend'
  BY <1>1 DEF Inv, Idle, AnswersAscend
<1>4. Finding' /\ LinkingOK'
  BY <1>1 DEF Inv, Finding, LinkingOK, Behind, Smaller
<1>5. \A S : Collected(S) => Collected(S)'
  BY <1>1, CollectedSame
<1>6. Scanning'
  BY <1>1, <1>5 DEF Inv, Scanning, Bottom, IsNewest, Versions
<1>7. Skipping'
  BY <1>1, <1>5 DEF Inv, Skipping, Bottom, Before
<1>8. Freeing'
  BY <1>1 DEF Inv, Freeing, FreeingAt, Before
<1> QED  BY <1>2, <1>3, <1>4, <1>6, <1>7, <1>8 DEF Inv

LEMMA WritesInv ==
    ASSUME Inv, NEW k \in Keys,
           \/ \E v \in Values, s \in GivenSeqs : PutWithSequence(k, v, s)
           \/ \E v \in Values : Put(k, v)
           \/ \E s \in GivenSeqs : DeleteWithSequence(k, s)
           \/ Delete(k)
    PROVE  Inv'
<1>1. pc = "idle" /\ towers < MaxTowers => nextSeq \in Seqs
  <2>1. /\ nextSeq \in Nat \ {0} /\ towers \in Nat
        /\ pc = "idle" => nextSeq <= towers + 1
    BY DEF Inv, ListInv, TypeOK, NumbersOK
  <2>2. MaxTowers \in Nat
    BY SkipListAssumption
  <2>3. pc = "idle" /\ towers < MaxTowers => nextSeq \in 1 .. MaxTowers
    BY <2>1, <2>2
  <2> QED  BY <2>3 DEF Seqs
<1>2. ASSUME NEW v \in Values, NEW s \in GivenSeqs, PutWithSequence(k, v, s)
      PROVE  Inv'
  <2>1. s \in Seqs /\ v \in Values \cup {Tombstone}
    BY DEF Seqs
  <2> QED  BY <1>2, <2>1, WriteInv DEF PutWithSequence
<1>3. ASSUME NEW v \in Values, Put(k, v)
      PROVE  Inv'
  <2>1. v \in Values \cup {Tombstone} /\ nextSeq \in Seqs
    BY <1>1, <1>3 DEF Put, Write
  <2>2. PICK s : s = nextSeq
    OBVIOUS
  <2> QED  BY <1>3, <2>1, <2>2, WriteInv DEF Put
<1>4. ASSUME NEW s \in GivenSeqs, DeleteWithSequence(k, s)
      PROVE  Inv'
  <2>1. s \in Seqs
    BY DEF Seqs
  <2> QED  BY <1>4, <2>1, WriteInv DEF DeleteWithSequence
<1>5. ASSUME Delete(k)
      PROVE  Inv'
  <2>1. nextSeq \in Seqs
    BY <1>1, <1>5 DEF Delete, Write
  <2>2. PICK s : s = nextSeq
    OBVIOUS
  <2> QED  BY <1>5, <2>1, <2>2, WriteInv DEF Delete
<1> QED  BY <1>2, <1>3, <1>4, <1>5

LEMMA NextInv ==
    ASSUME Inv, [Next]_vars
    PROVE  Inv'
<1>1. CASE \E k \in Keys : \/ \E v \in Values, s \in GivenSeqs : PutWithSequence(k, v, s)
                           \/ \E v \in Values : Put(k, v)
                           \/ \E s \in GivenSeqs : DeleteWithSequence(k, s)
                           \/ Delete(k)
  BY <1>1, WritesInv
<1>2. CASE \E a \in Keys, live \in BOOLEAN : Lookup(a, live)
  BY <1>2, ReadInv
<1>3. CASE \E a, b \in Keys, live \in BOOLEAN : RangeScan(a, b, live)
  BY <1>3, ReadInv
<1>4. CASE Internal
  BY <1>4, FindRightInv, FindDownInv, FoundToWriteInv, FoundByGetInv, FoundByScanInv,
     LinkInv, ScanKeyInv, SkipOlderInv, ScanDoneInv, FreeNodeInv, FreeLevelInv
     DEF Internal
<1>5. CASE Destroy
  BY <1>5, DestroyInv
<1>6. CASE UNCHANGED vars
  BY <1>6, StutterInv
<1> QED  BY <1>1, <1>2, <1>3, <1>4, <1>5, <1>6 DEF Next

LEMMA InvAlways == Spec => []Inv
<1>1. Init => Inv
  BY InitInv
<1>2. Inv /\ [Next]_vars => Inv'
  BY NextInv
<1> QED  BY <1>1, <1>2, PTL DEF Spec

\* Every variable has its type, and no pointer dangles: what the call in progress
\* and the nodes refer to is allocated, in the destructor too
\* (lab3/skiplist.cc:7-181).
THEOREM ListTypes == Spec => []TypeOK
<1>1. Inv => TypeOK
  BY DEF Inv, ListInv
<1> QED  BY <1>1, InvAlways, PTL

\* At every step of an insertion of any height, and of the destructor, the levels
\* are linked in order and each node to its copy below (lab3/skiplist.cc:80-95).
THEOREM ListLinked == Spec => []LevelsLinked
<1>1. Inv => LevelsLinked
  BY DEF Inv, ListInv
<1> QED  BY <1>1, InvAlways, PTL

\* What a read returns ascends by key, each key once (lab3/skiplist.cc:143-181).
THEOREM ListAscends == Spec => []AnswersAscend
<1>1. Inv => AnswersAscend
  BY DEF Inv
<1> QED  BY <1>1, InvAlways, PTL

\* The destructor frees every node and every head (lab3/skiplist.cc:19-32).
THEOREM ListFreed == Spec => []EverythingFreed
<1>1. Inv => EverythingFreed
  BY DEF Inv, Freeing, EverythingFreed
<1> QED  BY <1>1, InvAlways, PTL

(***************************************************************************)
(* The list implements MemTable: a write takes effect when the bottom node *)
(* of its tower is linked, a read when it returns.                         *)
(***************************************************************************)

\* The entries of the last answer, as MemTable has them.
Answered == {answer[i] : i \in DOMAIN answer}

Alive == pc \notin {"free", "gone"}

\* What the table says of a key, read off the nodes.
LEMMA TableAt ==
    ASSUME Inv, Alive, NEW k \in Keys
    PROVE  /\ Versions(k) = {} => Table[k] = [present |-> FALSE]
           /\ \A n : IsNewest(n, k) =>
                /\ Table[k] = [present |-> TRUE, seq |-> heap[n].seq, val |-> heap[n].val]
                /\ Newest(k) = n
                /\ heap[n].key = k
<1>1. Versions(k) = {} => Table[k] = [present |-> FALSE]
  BY DEF Table
<1>2. ASSUME NEW n, IsNewest(n, k)
      PROVE  /\ Table[k] = [present |-> TRUE, seq |-> heap[n].seq, val |-> heap[n].val]
             /\ Newest(k) = n
             /\ heap[n].key = k
  <2>1. Newest(k) = n /\ Versions(k) # {} /\ heap[n].key = k
    BY <1>2, NewestOfKey DEF Inv, ListInv, IsNewest, Versions
  <2> QED  BY <2>1 DEF Table, Alive
<1> QED  BY <1>1, <1>2

\* A step that leaves the nodes alone and keeps the list alive.
LEMMA TableSame ==
    ASSUME Alive, Alive', UNCHANGED heap
    PROVE  Table' = Table
<1>1. \A k \in Keys : Versions(k)' = Versions(k) /\ Newest(k)' = Newest(k)
  BY DEF Versions, Newest
<1> QED  BY <1>1 DEF Table, Alive

\* What a scan collects is what MemTable reads.
LEMMA ReadsTable ==
    ASSUME Inv, Alive, NEW a \in Int, NEW b \in Int
    PROVE  Newests({k \in Keys : a <= k /\ k <= b})
           = {MT!EntryOf(k) : k \in {j \in (a .. b) \cap Keys :
                Table[j].present /\ (call.live => Table[j].val # Tombstone)}}
<1>1. PICK S : S = {k \in Keys : a <= k /\ k <= b}
  OBVIOUS
<1>2. (a .. b) \cap Keys = S
  <2>1. \A k \in Keys : k \in Int
    BY SkipListAssumption
  <2> QED  BY <1>1, <2>1
<1>3. ASSUME NEW k \in S
      PROVE  /\ Versions(k) # {} /\ ~Hidden(Newest(k)) <=>
                  Table[k].present /\ (call.live => Table[k].val # Tombstone)
             /\ Versions(k) # {} => MT!EntryOf(k) = EntryOf(Newest(k))
  <2>1. k \in Keys
    BY <1>1
  <2>2. CASE Versions(k) = {}
    BY <2>1, <2>2, TableAt
  <2>3. CASE Versions(k) # {}
    <3>1. PICK n : IsNewest(n, k)
      BY <2>1, <2>3 DEF Inv, ListInv, HaveNewest
    <3>2. /\ Table[k] = [present |-> TRUE, seq |-> heap[n].seq, val |-> heap[n].val]
          /\ Newest(k) = n /\ heap[n].key = k
      BY <2>1, <3>1, TableAt
    <3> QED  BY <2>3, <3>2 DEF Hidden, EntryOf, MT!EntryOf
  <2> QED  BY <2>2, <2>3
<1>4. Newests(S) = {MT!EntryOf(k) : k \in {j \in S :
                Table[j].present /\ (call.live => Table[j].val # Tombstone)}}
  BY <1>3 DEF Newests
<1> QED  BY <1>1, <1>2, <1>4

LEMMA NewestOfKeyNext ==
    ASSUME TypeOK', NEW k, NEW n, IsNewest(n, k)'
    PROVE  Newest(k)' = n
<1>1. PICK V : V = Versions(k)'
  OBVIOUS
<1>2. \A b \in V : b[1] \in Nat /\ b = <<b[1], 0>>
  BY <1>1 DEF TypeOK, Versions
<1>3. n \in V /\ \A b \in V : b[1] <= n[1]
  BY <1>1 DEF IsNewest
<1>4. NewestOf(V) = n
  BY <1>2, <1>3, NewestIs
<1> QED  BY <1>1, <1>4 DEF Newest, NewestOf

\* The refined variables of a step that begins a call.
LEMMA BeginStep ==
    ASSUME Alive, Alive', UNCHANGED heap, answer' = <<>>
    PROVE  MT!Begin
<1>1. Table' = Table
  BY TableSame
<1>2. {answer'[i] : i \in DOMAIN answer'} = {}
  OBVIOUS
<1> QED  BY <1>1, <1>2 DEF MT!Begin

LEMMA InsertStep ==
    ASSUME Inv, Link
    PROVE  MT!Next \/ UNCHANGED MT!vars
<1>a. PICK n : n = <<towers, lvl>>
  OBVIOUS
<1>1. /\ pc = "link" /\ Inv' /\ ListInv /\ Alive /\ Alive' /\ answer' = answer
      /\ call.key \in Keys /\ call.seq \in Seqs /\ call.val \in Values \cup {Tombstone}
  <2>1. pc' \in {"link", "idle"}
    BY DEF Link, Return
  <2> QED  BY <2>1, LinkInv DEF Link, Inv, ListInv, CallOK, Alive
<1>2. /\ heap'[n].key = call.key /\ heap'[n].seq = call.seq
      /\ lvl = 0 => heap'[n].val = call.val
      /\ \A a \in DOMAIN heap : /\ heap'[a].seq = heap[a].seq
                                /\ heap'[a].val = heap[a].val
  BY <1>a, LinkHeap
<1>3. ASSUME NEW k \in Keys, ~(lvl = 0 /\ k = call.key)
      PROVE  Table'[k] = Table[k]
  <2>1. Versions(k)' = Versions(k) /\ \A m : IsNewest(m, k) => IsNewest(m, k)'
    BY <1>a, <1>3, LinkVersions
  <2>2. CASE Versions(k) = {}
    BY <1>1, <2>1, <2>2 DEF Table, Alive
  <2>3. CASE Versions(k) # {}
    <3>1. PICK m : IsNewest(m, k)
      BY <1>1, <2>3 DEF ListInv, HaveNewest
    <3>2. IsNewest(m, k)' /\ m \in DOMAIN heap
      BY <2>1, <3>1 DEF IsNewest, Versions
    <3>3. Newest(k) = m
      BY <1>1, <3>1, NewestOfKey DEF ListInv
    <3>4. Newest(k)' = m
      BY <1>1, <3>2, NewestOfKeyNext DEF Inv, ListInv
    <3> QED  BY <1>1, <1>2, <2>1, <2>3, <3>2, <3>3, <3>4 DEF Table, Alive
  <2> QED  BY <2>2, <2>3
<1>4. CASE lvl # 0
  <2>1. Table' = Table
    BY <1>3, <1>4 DEF Table
  <2> QED  BY <1>1, <2>1 DEF MT!vars
<1>5. CASE lvl = 0
  <2>a. PICK k, sq, v : k = call.key /\ sq = call.seq /\ v = call.val
    OBVIOUS
  <2>1. IsNewest(n, k)' /\ Versions(k)' # {}
    BY <1>a, <1>5, <2>a, LinkVersions DEF IsNewest
  <2>2. Newest(k)' = n
    BY <1>1, <2>1, NewestOfKeyNext DEF Inv, ListInv
  <2>3. Table'[k] = [present |-> TRUE, seq |-> sq, val |-> v]
    BY <1>1, <1>2, <1>5, <2>a, <2>1, <2>2 DEF Table, Alive
  <2>4. Table' = [Table EXCEPT ![k] = [present |-> TRUE, seq |-> sq, val |-> v]]
    BY <1>1, <1>3, <2>a, <2>3 DEF Table
  <2>5. MT!Insert(k, sq, v)
    BY <1>1, <2>4 DEF MT!Insert
  <2> QED  BY <1>1, <2>a, <2>5 DEF MT!Next
<1> QED  BY <1>4, <1>5

LEMMA GetStep ==
    ASSUME Inv, FoundByGet
    PROVE  MT!Next
<1>a. PICK n, k, live : n = heap[x].next /\ k = call.key /\ live = call.live
  OBVIOUS
<1>1. /\ FoundAt /\ Alive /\ Alive' /\ UNCHANGED heap /\ ListInv
      /\ k \in Keys /\ k \in Int /\ live \in BOOLEAN
      /\ answer' = IF n # Null /\ heap[n].key = k /\ ~Hidden(n)
                   THEN <<EntryOf(n)>> ELSE <<>>
  <2>1. call \in Call => call.live \in BOOLEAN
    BY DEF Call
  <2> QED  BY <1>a, <2>1, SkipListAssumption
           DEF FoundByGet, FoundAt, Return, Alive, Inv, ListInv, TypeOK, CallOK
<1>2. /\ n # Null => Bottom(n) /\ heap[n].key >= k /\ IsNewest(n, heap[n].key)
      /\ Versions(k) # {} => n # Null /\ heap[n].key <= k
  BY <1>a, <1>1, SearchEnd
<1>3. {answer'[i] : i \in DOMAIN answer'} = Newests({k})
  <2>1. CASE n # Null /\ heap[n].key = k
    <3>1. Newests({} \cup {k}) = Newests({}) \cup (IF Hidden(n) THEN {} ELSE {EntryOf(n)})
      BY <1>1, <1>2, <2>1, NewestsOf
    <3>2. Newests({}) = {} /\ {} \cup {k} = {k}
      BY DEF Newests
    <3>3. CASE Hidden(n)
      <4>1. DOMAIN answer' = {}
        BY <1>1, <3>3
      <4> QED  BY <3>1, <3>2, <3>3, <4>1
    <3>4. CASE ~Hidden(n)
      <4>1. DOMAIN answer' = {1} /\ answer'[1] = EntryOf(n)
        BY <1>1, <2>1, <3>4
      <4> QED  BY <3>1, <3>2, <3>4, <4>1
    <3> QED  BY <3>3, <3>4
  <2>2. CASE ~(n # Null /\ heap[n].key = k)
    <3>1. Versions(k) = {}
      <4>1. n # Null => heap[n].key \in Int
        BY <1>1, <1>2, AddressParts DEF ListInv, Bottom
      <4> QED  BY <1>1, <1>2, <2>2, <4>1
    <3>2. Newests({k}) = {}
      BY <3>1 DEF Newests
    <3>3. DOMAIN answer' = {}
      BY <1>1, <2>2
    <3> QED  BY <3>2, <3>3
  <2> QED  BY <2>1, <2>2
<1>4. {j \in Keys : k <= j /\ j <= k} = {k}
  <2>1. \A j \in Keys : j \in Int
    BY SkipListAssumption
  <2>2. \A j \in Int : k <= j /\ j <= k <=> j = k
    BY <1>1
  <2>3. \A j \in Keys : k <= j /\ j <= k <=> j = k
    BY <2>1, <2>2
  <2> QED  BY <1>1, <2>3
<1>5. Table' = Table
  BY <1>1, TableSame
<1>b. {answer'[i] : i \in DOMAIN answer'}
      = {MT!EntryOf(i) : i \in {j \in (k .. k) \cap Keys :
           Table[j].present /\ (call.live => Table[j].val # Tombstone)}}
  BY <1>1, <1>3, <1>4, ReadsTable
<1>6. MT!Read(k .. k, live)
  BY <1>a, <1>b, <1>5 DEF MT!Read
<1> QED  BY <1>1, <1>6 DEF MT!Next

LEMMA ScanStep ==
    ASSUME Inv, ScanDone
    PROVE  MT!Next
<1>a. PICK a, b, live : a = call.key /\ b = call.last /\ live = call.live
  OBVIOUS
<1>1. /\ Alive /\ Alive' /\ UNCHANGED heap /\ answer' = out
      /\ a \in Keys /\ b \in Keys /\ a \in Int /\ b \in Int /\ live \in BOOLEAN
  <2>1. call \in Call => call.live \in BOOLEAN
    BY DEF Call
  <2> QED  BY <1>a, <2>1, SkipListAssumption
           DEF ScanDone, Return, Alive, Inv, ListInv, TypeOK, CallOK
<1>2. {answer'[i] : i \in DOMAIN answer'} = Newests({k \in Keys : a <= k /\ k <= b})
  BY <1>a, <1>1, ScanDoneInv DEF Collected
<1>3. Table' = Table
  BY <1>1, TableSame
<1>b. {answer'[i] : i \in DOMAIN answer'}
      = {MT!EntryOf(k) : k \in {j \in (a .. b) \cap Keys :
           Table[j].present /\ (call.live => Table[j].val # Tombstone)}}
  BY <1>1, <1>2, ReadsTable
<1>4. MT!Read(a .. b, live)
  BY <1>a, <1>b, <1>3 DEF MT!Read
<1> QED  BY <1>1, <1>4 DEF MT!Next

\* Steps the table does not see.
LEMMA HiddenStep ==
    ASSUME Inv, FindRight \/ FindDown \/ FoundToWrite \/ FoundByScan \/ ScanKey \/ SkipOlder
    PROVE  UNCHANGED MT!vars
<1>1. Alive /\ Alive' /\ UNCHANGED heap /\ answer' = answer
  BY DEF FindRight, FindDown, FoundToWrite, FoundByScan, FoundAt, ScanKey, SkipOlder, Alive
<1>2. Table' = Table
  BY <1>1, TableSame
<1> QED  BY <1>1, <1>2 DEF MT!vars

LEMMA FreeStep ==
    ASSUME FreeNode \/ FreeLevelBelow
    PROVE  UNCHANGED MT!vars
<1>1. ~Alive /\ ~Alive' /\ answer' = answer
  BY DEF FreeNode, FreeLevelBelow, Alive
<1>2. Table' = Table
  BY <1>1 DEF Table, Alive
<1> QED  BY <1>1, <1>2 DEF MT!vars

LEMMA CallStep ==
    ASSUME Inv,
           \/ \E k \in Keys, v \in Values, s \in GivenSeqs : PutWithSequence(k, v, s)
           \/ \E k \in Keys, v \in Values : Put(k, v)
           \/ \E k \in Keys, s \in GivenSeqs : DeleteWithSequence(k, s)
           \/ \E k \in Keys : Delete(k)
           \/ \E k \in Keys, live \in BOOLEAN : Lookup(k, live)
           \/ \E a, b \in Keys, live \in BOOLEAN : RangeScan(a, b, live)
    PROVE  MT!Next
<1>1. Alive /\ Alive' /\ UNCHANGED heap /\ answer' = <<>>
  BY DEF PutWithSequence, Put, DeleteWithSequence, Delete, Write, Lookup, RangeScan,
         StartFind, Alive
<1> QED  BY <1>1, BeginStep DEF MT!Next

LEMMA DestroyStep ==
    ASSUME Destroy
    PROVE  MT!Next
<1>1. ~Alive' /\ answer' = answer
  BY DEF Destroy, Alive
<1>2. Table' = [k \in Keys |-> MT!Absent]
  BY <1>1 DEF Table, Alive, MT!Absent
<1> QED  BY <1>1, <1>2 DEF MT!Drop, MT!Next

\* The skip list is a table: writes in any order and with any sequence numbers
\* add the version that every later read of the key returns, reads return that of
\* every key asked for and nothing else (lab3/skiplist.cc:51-181).
THEOREM ListIsMemTable == Spec => ImplementsMemTable
<1>1. Init => MT!Init
  <2> SUFFICES ASSUME Init
               PROVE  MT!Init
    OBVIOUS
  <2>1. \A a \in DOMAIN heap : IsHead(a)
    BY DEF Init, IsHead
  <2>2. \A k \in Keys : Versions(k) = {}
    BY <2>1 DEF Versions
  <2>3. Table = [k \in Keys |-> MT!Absent]
    BY <2>2 DEF Table, MT!Absent
  <2>4. {answer[i] : i \in DOMAIN answer} = {}
    BY DEF Init
  <2> QED  BY <2>3, <2>4 DEF MT!Init
<1>2. Inv /\ [Next]_vars => [MT!Next]_(MT!vars)
  <2> SUFFICES ASSUME Inv, [Next]_vars
               PROVE  MT!Next \/ UNCHANGED MT!vars
    OBVIOUS
  <2>1. CASE Internal
    BY <2>1, HiddenStep, GetStep, ScanStep, InsertStep, FreeStep DEF Internal
  <2>2. CASE Destroy
    BY <2>2, DestroyStep
  <2>3. CASE UNCHANGED vars
    <3>1. UNCHANGED <<heap, pc, answer>>
      BY <2>3 DEF vars
    <3>2. Table' = Table
      BY <3>1 DEF Table, Versions, Newest
    <3> QED  BY <3>1, <3>2 DEF MT!vars
  <2>4. CASE \/ \E k \in Keys, v \in Values, s \in GivenSeqs : PutWithSequence(k, v, s)
             \/ \E k \in Keys, v \in Values : Put(k, v)
             \/ \E k \in Keys, s \in GivenSeqs : DeleteWithSequence(k, s)
             \/ \E k \in Keys : Delete(k)
             \/ \E k \in Keys, live \in BOOLEAN : Lookup(k, live)
             \/ \E a, b \in Keys, live \in BOOLEAN : RangeScan(a, b, live)
    BY <2>4, CallStep
  <2> QED  BY <2>1, <2>2, <2>3, <2>4 DEF Next
<1> QED  BY <1>1, <1>2, InvAlways, PTL DEF Spec, ImplementsMemTable, MT!Spec
=============================================================================
