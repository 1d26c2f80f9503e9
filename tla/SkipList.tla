------------------------------ MODULE SkipList ------------------------------
(***************************************************************************)
(* The skip list of lab3 (lab3/skiplist.cc), the container of a memtable:  *)
(* levels of linked nodes, each node with a pointer to the next one of its *)
(* level and one down to its own copy a level below.  Updates are out of   *)
(* place: every Put and Delete inserts a tower of nodes, in front of the   *)
(* towers of its key, and none is removed before the list is destroyed.    *)
(*                                                                         *)
(* A step is one turn of a loop of the code.  pc is the loop:              *)
(*   idle   between two calls                                              *)
(*   find   FindGreaterOrEqual                                             *)
(*   link   the insertion, one level after the other from the bottom       *)
(*   scan   the loop of a range scan over the keys                         *)
(*   skip   the loop inside it over the older nodes of a key               *)
(*   free   the destructor                                                 *)
(*   gone   after it                                                       *)
(* A node's address is <<tower, level>>: operator new returns addresses    *)
(* not in use, whatever they are.  The heads are tower 0.                  *)
(***************************************************************************)
EXTENDS Integers, Sequences

CONSTANTS
    Keys,           \* the ints in play
    Values,         \* the values put
    Tombstone,      \* stands for a node's tombstone flag
    EmptyString,    \* std::string(), the value of nodes above the bottom
    Null,           \* nullptr
    max_level,      \* the constructor's argument
    GivenSeqs,      \* the sequence numbers callers give
    Int64Max,       \* std::numeric_limits<int64_t>::max()
    MaxTowers       \* bound: insertions

ASSUME SkipListAssumption ==
    /\ Keys \subseteq Int
    /\ Tombstone \notin Values \cup {EmptyString}
    /\ Null \notin Nat \X Int
    /\ max_level \in Int
    /\ Int64Max \in Int
    /\ MaxTowers \in Nat /\ MaxTowers <= Int64Max
    /\ GivenSeqs \subseteq {s \in Int : s <= Int64Max}

VARIABLES
    heap,       \* the nodes allocated
    towers,     \* how many towers were inserted: names the nodes
    nextSeq,    \* next_seq_
    pc,         \* the loop the call in progress is in
    call,       \* its arguments
    x,          \* the node it looks at
    level,      \* the level of x
    update,     \* for each level, the node to insert behind
    height,     \* node_level
    lvl,        \* the level to link next
    down,       \* the node linked last
    current,    \* current_key of a scan
    out,        \* what the scan has collected
    answer      \* what the last read returned

linking == <<height, lvl, down>>
scanning == <<current, out>>
vars == <<heap, towers, nextSeq, pc, call, x, level, update, linking, scanning, answer>>

MaxLevel == IF max_level < 1 THEN 1 ELSE max_level

Levels == 0 .. MaxLevel - 1
Address == Nat \X Levels
Pointer == Address \cup {Null}
Contents == Values \cup {Tombstone, EmptyString}
Seqs == GivenSeqs \cup 1 .. MaxTowers

Node == [key : Int, seq : Int, val : Contents, next : Pointer, down : Pointer]

Entry == [key : Keys, seq : Seqs, val : Values \cup {Tombstone}]

\* The arguments of a call: a key, or the first and last of a scan; what is
\* written, in a write; whether tombstones are left out, in a read.
Call == [op : {"none", "write", "get", "scan"}, key : Int, last : Int,
         seq : Seqs \cup {1}, val : Contents, live : BOOLEAN]

HeadAt(l) == <<0, l>>

IsHead(a) == a[1] = 0

NoCall == [op |-> "none", key |-> 0, last |-> 0, seq |-> 1, val |-> Tombstone,
           live |-> FALSE]

ReadCall(op, a, b, live) ==
    [op |-> op, key |-> a, last |-> b, seq |-> 1, val |-> Tombstone, live |-> live]

NoUpdate == [l \in Levels |-> Null]

\* A tower of heads, whose keys are never looked at.
Init ==
    /\ heap = [a \in {0} \X Levels |->
                 [key |-> 0, seq |-> 0, val |-> EmptyString, next |-> Null,
                  down |-> IF a[2] = 0 THEN Null ELSE HeadAt(a[2] - 1)]]
    /\ towers = 0
    /\ nextSeq = 1
    /\ pc = "idle"
    /\ call = NoCall
    /\ x = Null
    /\ level = 0
    /\ update = NoUpdate
    /\ height = 0
    /\ lvl = 0
    /\ down = Null
    /\ current = 0
    /\ out = <<>>
    /\ answer = <<>>

\* A call returns: its locals are gone.
Return ==
    /\ pc' = "idle"
    /\ call' = NoCall
    /\ x' = Null
    /\ level' = 0
    /\ update' = NoUpdate
    /\ height' = 0
    /\ lvl' = 0
    /\ down' = Null
    /\ current' = 0
    /\ out' = <<>>
----------------------------------------------------------------------------
(* Calls *)

\* The start of FindGreaterOrEqual(c.key, Int64Max, ...), at the top head.  The
\* answer of the call before is the caller's by now.
StartFind(c) ==
    /\ call' = c
    /\ x' = HeadAt(MaxLevel - 1)
    /\ level' = MaxLevel - 1
    /\ update' = NoUpdate
    /\ pc' = "find"
    /\ answer' = <<>>
    /\ UNCHANGED <<heap, towers, linking, scanning>>

Write(k, s, v) ==
    /\ pc = "idle"
    /\ towers < MaxTowers
    /\ StartFind([op |-> "write", key |-> k, last |-> k, seq |-> s, val |-> v,
                  live |-> FALSE])

PutWithSequence(k, v, s) == Write(k, s, v) /\ UNCHANGED nextSeq

Put(k, v) == Write(k, nextSeq, v) /\ nextSeq' = nextSeq + 1

DeleteWithSequence(k, s) == Write(k, s, Tombstone) /\ UNCHANGED nextSeq

Delete(k) == Write(k, nextSeq, Tombstone) /\ nextSeq' = nextSeq + 1

\* GetLatest, or with `live` Get, which takes a tombstone for no entry.
Lookup(k, live) ==
    /\ pc = "idle"
    /\ StartFind(ReadCall("get", k, k, live))
    /\ UNCHANGED nextSeq

\* RangeScanLatest, or with `live` RangeScan, which leaves out tombstones.
RangeScan(a, b, live) ==
    /\ pc = "idle"
    /\ IF a > b
       THEN /\ answer' = <<>>
            /\ UNCHANGED <<heap, towers, pc, call, x, level, update, linking, scanning>>
       ELSE StartFind(ReadCall("scan", a, b, live))
    /\ UNCHANGED nextSeq
----------------------------------------------------------------------------
(* FindGreaterOrEqual *)

\* Plausible bug: of equal keys the smaller sequence number goes first.
LessAscending(a_key, a_seq, b_key, b_seq) ==
    IF a_key # b_key THEN a_key < b_key ELSE a_seq < b_seq

\* Key ascending, then sequence number descending.
Less(a_key, a_seq, b_key, b_seq) ==
    IF a_key # b_key THEN a_key < b_key ELSE a_seq > b_seq

\* x->next comes before every node of the key sought.
GoesRight ==
    LET n == heap[x].next
    IN  n # Null /\ Less(heap[n].key, heap[n].seq, call.key, Int64Max)

FindRight ==
    /\ pc = "find"
    /\ GoesRight
    /\ x' = heap[x].next
    /\ UNCHANGED <<heap, towers, nextSeq, pc, call, level, update, linking, scanning, answer>>

\* A level is done: it is recorded for an insertion, and the search goes on a
\* level below.
FindDown ==
    /\ pc = "find"
    /\ ~GoesRight
    /\ heap[x].down # Null
    /\ update' = IF call.op = "write" THEN [update EXCEPT ![level] = x] ELSE update
    /\ x' = heap[x].down
    /\ level' = level - 1
    /\ UNCHANGED <<heap, towers, nextSeq, pc, call, linking, scanning, answer>>

FoundAt == pc = "find" /\ ~GoesRight /\ heap[x].down = Null

\* Plausible bug: the coin is tossed once more than there are levels.
RandomLevelTooHigh == 1 .. MaxLevel + 1

\* The coin may show any height (its probability p_ is between 0 and 1).
RandomLevel == 1 .. MaxLevel

\* A write goes on with a height.
FoundToWrite ==
    /\ FoundAt
    /\ call.op = "write"
    /\ update' = [update EXCEPT ![level] = x]
    /\ height' \in RandomLevel
    /\ towers' = towers + 1
    /\ pc' = "link"
    /\ UNCHANGED <<heap, nextSeq, call, x, level, lvl, down, scanning, answer>>

\* The entry of node n as readers copy it, and whether they leave it out.
EntryOf(n) == [key |-> heap[n].key, seq |-> heap[n].seq, val |-> heap[n].val]

Hidden(n) == call.live /\ heap[n].val = Tombstone

\* A lookup ends at the first node that is not smaller.
FoundByGet ==
    /\ FoundAt
    /\ call.op = "get"
    /\ LET n == heap[x].next
       IN  answer' = IF n # Null /\ heap[n].key = call.key /\ ~Hidden(n)
                     THEN <<EntryOf(n)>> ELSE <<>>
    /\ Return
    /\ UNCHANGED <<heap, towers, nextSeq>>

\* A scan starts there.
FoundByScan ==
    /\ FoundAt
    /\ call.op = "scan"
    /\ x' = heap[x].next
    /\ pc' = "scan"
    /\ UNCHANGED <<heap, towers, nextSeq, call, level, update, linking, scanning, answer>>
----------------------------------------------------------------------------
(* Insertion *)

\* Plausible bug: every node of the tower goes behind the same node.
PrevAtBottom == update[0]

\* The node the next one of the tower goes behind.
Prev == update[lvl]

\* What n->next is set to: prev->next, before that is set to n.
Follower == heap[Prev].next

\* One turn of the loop: a new node between Prev and what followed it.
Link ==
    /\ pc = "link"
    /\ LET n   == <<towers, lvl>>
           new == [key |-> call.key, seq |-> call.seq,
                   val |-> IF lvl = 0 \/ call.val = Tombstone THEN call.val
                           ELSE EmptyString,
                   next |-> Follower, down |-> down]
       IN  /\ heap' = [a \in DOMAIN heap \cup {n} |->
                         IF a = n THEN new
                         ELSE IF a = Prev THEN [heap[a] EXCEPT !.next = n]
                         ELSE heap[a]]
           /\ IF lvl + 1 < height
              THEN /\ lvl' = lvl + 1
                   /\ down' = n
                   /\ UNCHANGED <<pc, call, x, level, update, height, scanning>>
              ELSE Return
    /\ UNCHANGED <<towers, nextSeq, answer>>
----------------------------------------------------------------------------
(* The loops of RangeScan and RangeScanLatest *)

InRange == x # Null /\ heap[x].key <= call.last

ScanKey ==
    /\ pc = "scan"
    /\ InRange
    /\ out' = IF Hidden(x) THEN out ELSE Append(out, EntryOf(x))
    /\ current' = heap[x].key
    /\ pc' = "skip"
    /\ UNCHANGED <<heap, towers, nextSeq, call, x, level, update, linking, answer>>

\* Plausible bug: the loop over the older nodes does not advance.
SkipNothing ==
    /\ pc = "skip"
    /\ pc' = IF x # Null /\ heap[x].key = current THEN pc ELSE "scan"
    /\ UNCHANGED <<heap, towers, nextSeq, call, x, level, update, linking, scanning, answer>>

\* Plausible bug: only one older node of the key is passed over.
SkipOnce ==
    /\ pc = "skip"
    /\ x' = heap[x].next
    /\ pc' = "scan"
    /\ UNCHANGED <<heap, towers, nextSeq, call, level, update, linking, scanning, answer>>

SkipOlder ==
    /\ pc = "skip"
    /\ IF x # Null /\ heap[x].key = current
       THEN x' = heap[x].next /\ UNCHANGED pc
       ELSE pc' = "scan" /\ UNCHANGED x
    /\ UNCHANGED <<heap, towers, nextSeq, call, level, update, linking, scanning, answer>>

ScanDone ==
    /\ pc = "scan"
    /\ ~InRange
    /\ answer' = out
    /\ Return
    /\ UNCHANGED <<heap, towers, nextSeq>>
----------------------------------------------------------------------------
(* The destructor: x is `node`, down is `next_level` *)

Destroy ==
    /\ pc = "idle"
    /\ x' = HeadAt(MaxLevel - 1)
    /\ down' = heap[HeadAt(MaxLevel - 1)].down
    /\ pc' = "free"
    /\ UNCHANGED <<heap, towers, nextSeq, call, level, update, height, lvl, scanning, answer>>

\* Plausible bug: the nodes are freed, and the heads are not.
FreeNodeNotHead ==
    /\ pc = "free"
    /\ x # Null
    /\ heap' = IF IsHead(x) THEN heap ELSE [a \in DOMAIN heap \ {x} |-> heap[a]]
    /\ x' = heap[x].next
    /\ UNCHANGED <<towers, nextSeq, pc, call, level, update, linking, scanning, answer>>

FreeNode ==
    /\ pc = "free"
    /\ x # Null
    /\ heap' = [a \in DOMAIN heap \ {x} |-> heap[a]]
    /\ x' = heap[x].next
    /\ UNCHANGED <<towers, nextSeq, pc, call, level, update, linking, scanning, answer>>

FreeLevelBelow ==
    /\ pc = "free"
    /\ x = Null
    /\ IF down # Null
       THEN x' = down /\ down' = heap[down].down /\ UNCHANGED pc
       ELSE pc' = "gone" /\ UNCHANGED <<x, down>>
    /\ UNCHANGED <<heap, towers, nextSeq, call, level, update, height, lvl, scanning, answer>>
----------------------------------------------------------------------------
\* What the code goes on to do once a call is in progress.
Internal ==
    \/ FindRight
    \/ FindDown
    \/ FoundToWrite
    \/ FoundByGet
    \/ FoundByScan
    \/ Link
    \/ ScanKey
    \/ SkipOlder
    \/ ScanDone
    \/ FreeNode
    \/ FreeLevelBelow

Next ==
    \/ \E k \in Keys, v \in Values, s \in GivenSeqs : PutWithSequence(k, v, s)
    \/ \E k \in Keys, v \in Values : Put(k, v)
    \/ \E k \in Keys, s \in GivenSeqs : DeleteWithSequence(k, s)
    \/ \E k \in Keys : Delete(k)
    \/ \E k \in Keys, live \in BOOLEAN : Lookup(k, live)
    \/ \E a, b \in Keys, live \in BOOLEAN : RangeScan(a, b, live)
    \/ Internal
    \/ Destroy

Spec == Init /\ [][Next]_vars

\* The code runs: a call in progress is never suspended for ever.
FairSpec == Spec /\ WF_vars(Internal)
----------------------------------------------------------------------------
(* Properties *)

\* Every variable has its type, and every pointer of a node and of the call in
\* progress is null or the address of a node that is allocated.
TypeOK ==
    /\ heap \in [DOMAIN heap -> Node]
    /\ DOMAIN heap \subseteq (0 .. towers) \X Levels
    /\ \A a \in DOMAIN heap : {heap[a].next, heap[a].down} \subseteq DOMAIN heap \cup {Null}
    /\ towers \in Nat
    /\ nextSeq \in Nat \ {0}
    /\ pc \in {"idle", "find", "link", "scan", "skip", "free", "gone"}
    /\ call \in Call
    /\ {x, down} \subseteq DOMAIN heap \cup {Null}
    /\ level \in Levels
    /\ update \in [Levels -> DOMAIN heap \cup {Null}]
    /\ height \in 0 .. MaxLevel
    /\ lvl \in Levels
    /\ current \in Int
    /\ out \in Seq(Entry)
    /\ answer \in Seq(Entry)

\* The order of the nodes of one level: the head, then ascending keys, and the
\* towers of one key from the newest to the oldest.
Before(a, b) ==
    /\ ~IsHead(b)
    /\ \/ IsHead(a)
       \/ heap[a].key < heap[b].key
       \/ heap[a].key = heap[b].key /\ a[1] > b[1]

\* The next node is the first of those that come after.
NextIsFirstAfter ==
    \A a \in DOMAIN heap :
        LET n == heap[a].next
        IN  /\ n # Null => n \in DOMAIN heap /\ n[2] = a[2] /\ Before(a, n)
            /\ \A b \in DOMAIN heap :
                 b[2] = a[2] /\ Before(a, b) => n # Null /\ (b = n \/ Before(n, b))

\* The node down is the copy one level below.
DownIsCopy ==
    \A a \in DOMAIN heap :
        IF a[2] = 0 THEN heap[a].down = Null
        ELSE /\ heap[a].down = <<a[1], a[2] - 1>>
             /\ heap[a].down \in DOMAIN heap
             /\ heap[heap[a].down].key = heap[a].key

\* Every node is linked to the one that follows it in its level, and to its copy
\* a level below: no insertion cuts a node off, links one twice or puts one out
\* of order, whatever the heights, and the destructor has not freed what a
\* remaining node refers to.
LevelsLinked == NextIsFirstAfter /\ DownIsCopy

\* The bottom nodes of the towers of key k.
Versions(k) == {a \in DOMAIN heap : ~IsHead(a) /\ a[2] = 0 /\ heap[a].key = k}

\* The version of k inserted last.
NewestOf(S) == CHOOSE a \in S : \A b \in S : b[1] <= a[1]

Newest(k) == NewestOf(Versions(k))

\* What the list holds; nothing, once it is being destroyed.
Table ==
    [k \in Keys |->
        IF pc \in {"free", "gone"} \/ Versions(k) = {} THEN [present |-> FALSE]
        ELSE [present |-> TRUE, seq |-> heap[Newest(k)].seq, val |-> heap[Newest(k)].val]]

MT == INSTANCE MemTable WITH
        Vals   <- Values \cup {Tombstone},
        table  <- Table,
        answer <- {answer[i] : i \in DOMAIN answer}

\* The list implements a table: writes add the version that every later read
\* returns, whichever sequence numbers callers give, and reads return the newest
\* version of every key asked for and nothing else.
ImplementsMemTable == MT!Spec

\* A read returns each key once, in ascending order.
AnswersAscend ==
    \A i, j \in DOMAIN answer : i < j => answer[i].key < answer[j].key

\* The destructor frees every node, once each, and the heads too.
EverythingFreed == pc = "gone" => DOMAIN heap = {}

\* Every call returns, the destructor too.
CallsReturn == pc \notin {"idle", "gone"} ~> pc \in {"idle", "gone"}
=============================================================================
