------------------------------ MODULE BPTree ------------------------------
(***************************************************************************)
(* The B+ tree of lab2 (lab2/bptree/bptree.cc), the container of its       *)
(* second InMemoryDB.  The tree is a heap of nodes linked by children,     *)
(* parent and next pointers; Put and Delete are one step each.  The        *)
(* recursion in them is a recursive function on the nodes: a call goes     *)
(* down before it changes anything, so all its frames find their child in  *)
(* the heap that the call started with.                                    *)
(*                                                                         *)
(* Indices count from 1.  keys[i] separates children i and i+1.            *)
(***************************************************************************)
EXTENDS Integers, SequencesExt

CONSTANTS
    Degrees,        \* settings of options.bptree_degree in use
    KeysFor(_),     \* the ints the client uses, for each of them
    ValuesOf(_),    \* the values it puts for a key
    Absent          \* the value of a key that is not there

Keys == UNION {KeysFor(d) : d \in Degrees}

Values == UNION {ValuesOf(k) : k \in Keys}

ASSUME BPTreeAssumption ==
    Degrees \subseteq Int /\ Keys \subseteq Int /\ IsFiniteSet(Keys) /\ Absent \notin Values

VARIABLES
    degree,     \* options.bptree_degree: the most children a node may have
    heap,       \* the nodes allocated, by address
    root,       \* root_
    done,       \* the last call that returned: its arguments, its result
    fate        \* "sound"; "stale" when the last Delete read a freed node and
                \* went on; "dead" when that ended the process
vars == <<degree, heap, root, done, fate>>

Null == 0

\* The constructor raises a smaller degree to 3.
Degree == IF degree < 3 THEN 3 ELSE degree

MinKeys(leaf) == IF leaf THEN Degree \div 2 ELSE (Degree + 1) \div 2 - 1
----------------------------------------------------------------------------
(* Nodes *)

\* items are the values of a leaf, the children of an internal node.
NewNode(leaf) ==
    [leaf |-> leaf, keys |-> <<>>, items |-> <<>>, next |-> Null, parent |-> Null]

\* An address that is not in use.
Fresh(h) == CHOOSE n \in 1 .. Cardinality(DOMAIN h) + 1 : n \notin DOMAIN h

\* The heap with `node` at address n.
Store(h, n, node) == [m \in DOMAIN h \cup {n} |-> IF m = n THEN node ELSE h[m]]

\* Plausible bug: nothing is deleted.
FreeForgotten(h, n) == h

Free(h, n) == [m \in DOMAIN h \ {n} |-> h[m]]

\* The nodes of a sequence get p as their parent.
Adopt(h, ns, p) ==
    LET moved == ToSet(ns)
    IN  [m \in DOMAIN h |-> IF m \in moved THEN [h[m] EXCEPT !.parent = p] ELSE h[m]]

\* std::lower_bound in a node.
LowerBound(node, k) ==
    CHOOSE i \in 1 .. Len(node.keys) + 1 :
        /\ \A j \in 1 .. i - 1 : node.keys[j] < k
        /\ i \in DOMAIN node.keys => node.keys[i] >= k

\* Plausible bug: a key equal to a separator is looked for on its left.
ChildIndexOnLeft(node, k) == LowerBound(node, k)

\* std::upper_bound in a node.
ChildIndex(node, k) ==
    CHOOSE i \in 1 .. Len(node.keys) + 1 :
        /\ \A j \in 1 .. i - 1 : node.keys[j] <= k
        /\ i \in DOMAIN node.keys => node.keys[i] > k

LeftmostLeaf(h, n) ==
    LET leftmost[m \in DOMAIN h] ==
            IF h[m].leaf \/ h[m].items = <<>> THEN m ELSE leftmost[h[m].items[1]]
    IN  leftmost[n]

\* The leaves from n on, by their next pointers.
Chain(h, n) ==
    LET most == Cardinality(DOMAIN h)
        nth[i \in 0 .. most] ==
            IF i = 0 THEN n
            ELSE IF nth[i - 1] = Null THEN Null ELSE h[nth[i - 1]].next
    IN  {nth[i] : i \in 0 .. most} \ {Null}

\* The elements of s at the indices in `at`, in their order.
Picked(s, at) ==
    [j \in 1 .. Cardinality(at) |->
        s[CHOOSE i \in at : Cardinality({m \in at : m <= i}) = j]]

\* Separators become the smallest keys of the subtrees on their right.
RefreshInternalKeys(h, n) ==
    LET kids     == h[n].items
        least(i) == h[LeftmostLeaf(h, kids[i])].keys
        firsts   == [i \in DOMAIN kids |-> least(i)[1]]
    IN  IF h[n].leaf THEN h
        ELSE [h EXCEPT ![n].keys =
                Picked(firsts, {i \in 2 .. Len(kids) : least(i) # <<>>})]
----------------------------------------------------------------------------
(* Put *)

\* Plausible bug: the promoted key leaves a leaf too, as in a B tree.
PromotedOutOf(leaf) == 1

\* A leaf keeps the key that is promoted, an internal node does not.
Promoted(leaf) == IF leaf THEN 0 ELSE 1

\* An overfull node gives its upper half to a new right sibling.
Split(h, n) ==
    LET node  == h[n]
        mid   == Len(node.keys) \div 2
        up    == Promoted(node.leaf)
        r     == Fresh(h)
        right == [NewNode(node.leaf) EXCEPT
                    !.keys  = SubSeq(node.keys, mid + 1 + up, Len(node.keys)),
                    !.items = SubSeq(node.items, mid + 1 + up, Len(node.items)),
                    !.next  = node.next]
        left  == [node EXCEPT !.keys  = SubSeq(@, 1, mid),
                              !.items = SubSeq(@, 1, mid + up),
                              !.next  = IF node.leaf THEN r ELSE Null]
        both  == Store([h EXCEPT ![n] = left], r, right)
        owned == IF node.leaf THEN both ELSE Adopt(both, right.items, r)
    IN  [heap     |-> RefreshInternalKeys(RefreshInternalKeys(owned, n), r),
         right    |-> r,
         promoted |-> node.keys[mid + 1]]

\* The end of Insert in a node that has grown.
SplitIfFull(h, n) ==
    IF Len(h[n].keys) > Degree - 1
    THEN Split(h, n)
    ELSE [heap |-> RefreshInternalKeys(h, n), right |-> Null, promoted |-> 0]

\* Insert in a leaf.  right is Null when the node was not split.
InsertInLeaf(h, n, k, v) ==
    LET at == LowerBound(h[n], k)
    IN  IF k \in ToSet(h[n].keys)
        THEN [heap |-> [h EXCEPT ![n].items[at] = v], right |-> Null, promoted |-> 0]
        ELSE SplitIfFull([h EXCEPT ![n].keys  = InsertAt(@, at, k),
                                   ![n].items = InsertAt(@, at, v)], n)

\* Insert in an internal node, when the call for its child i has returned r.
InsertInInternal(n, i, r) ==
    IF r.right = Null
    THEN SplitIfFull(r.heap, n)
    ELSE SplitIfFull([r.heap EXCEPT ![n].keys  = InsertAt(@, i, r.promoted),
                                    ![n].items = InsertAt(@, i + 1, r.right),
                                    ![r.right].parent = n], n)

Insert(h, k, v) ==
    LET insert[n \in DOMAIN h] ==
            LET i == ChildIndex(h[n], k)
            IN  IF h[n].leaf THEN InsertInLeaf(h, n, k, v)
                ELSE InsertInInternal(n, i, insert[h[n].items[i]])
    IN  insert[root]

Put(k, v) ==
    LET r   == Insert(heap, k, v)
        top == Fresh(r.heap)
    IN  /\ fate # "dead"
        /\ IF r.right = Null
           THEN heap' = r.heap /\ UNCHANGED root
           ELSE /\ root' = top
                /\ heap' = Store([r.heap EXCEPT ![root].parent = top,
                                                ![r.right].parent = top], top,
                                 [NewNode(FALSE) EXCEPT
                                    !.keys  = <<r.promoted>>,
                                    !.items = <<root, r.right>>])
        /\ fate' = "sound"
        /\ done' = [key |-> k, val |-> v, found |-> FALSE]
----------------------------------------------------------------------------
(* Underflow: c is child i of its parent *)

Underflows(h, n) == Len(h[n].keys) < MinKeys(h[n].leaf)

\* Plausible bug: a child that moves keeps its parent.
RotatedOnly(h, c, item) == h

\* A child that has moved to c gets it as its parent.
Rotated(h, c, item) == IF h[c].leaf THEN h ELSE [h EXCEPT ![item].parent = c]

\* The last entry of the left sibling moves over, internally by rotation.
BorrowFromLeft(h, c, i) ==
    LET p     == h[c].parent
        l     == h[p].items[i - 1]
        key   == Last(h[l].keys)
        item  == Last(h[l].items)
        moved == [h EXCEPT ![l].keys  = Front(@),
                           ![l].items = Front(@),
                           ![c].keys  = Cons(IF h[c].leaf THEN key
                                             ELSE h[p].keys[i - 1], @),
                           ![c].items = Cons(item, @),
                           ![p].keys[i - 1] = key]
    IN  Rotated(moved, c, item)

\* The first entry of the right sibling moves over, internally by rotation.
BorrowFromRight(h, c, i) ==
    LET p     == h[c].parent
        r     == h[p].items[i + 1]
        key   == Head(h[r].keys)
        item  == Head(h[r].items)
        moved == [h EXCEPT ![r].keys  = Tail(@),
                           ![r].items = Tail(@),
                           ![c].keys  = Append(@, IF h[c].leaf THEN key
                                                  ELSE h[p].keys[i]),
                           ![c].items = Append(@, item),
                           ![p].keys[i] = IF h[c].leaf THEN h[r].keys[2] ELSE key]
    IN  Rotated(moved, c, item)

\* Plausible bug: no separator comes down, as between two leaves.
NothingBetween(h, p, i) == <<>>

\* The separator between two internal nodes that merge comes down.
Between(h, p, i) == IF h[h[p].items[i]].leaf THEN <<>> ELSE <<h[p].keys[i]>>

\* Child i + 1 of p is appended to child i and deleted.
Merge(h, p, i) ==
    LET l      == h[p].items[i]
        r      == h[p].items[i + 1]
        merged == [h EXCEPT ![l].keys  = @ \o Between(h, p, i) \o h[r].keys,
                            ![l].items = @ \o h[r].items,
                            ![l].next  = h[r].next,
                            ![p].keys  = RemoveAt(@, i),
                            ![p].items = RemoveAt(@, i + 1)]
    IN  Free(IF h[l].leaf THEN merged ELSE Adopt(merged, h[r].items, l), r)

FixUnderflow(h, c, i) ==
    LET p       == h[c].parent
        rich(j) == /\ j \in DOMAIN h[p].items
                   /\ Len(h[h[p].items[j]].keys) > MinKeys(h[c].leaf)
    IN  CASE p = Null                  -> h
          [] p # Null /\ rich(i - 1)   -> BorrowFromLeft(h, c, i)
          [] p # Null /\ ~rich(i - 1) /\ rich(i + 1) -> BorrowFromRight(h, c, i)
          [] OTHER -> IF i > 1 THEN Merge(h, p, i - 1)
                      ELSE IF i < Len(h[p].items) THEN Merge(h, p, i) ELSE h
----------------------------------------------------------------------------
(* Delete *)

\* Plausible bug: the leaf stays in the chain.
DetachForgotten(h, leaf) == h

\* The leaf before it in the chain, if any, skips the leaf.
DetachLeafFromChain(h, leaf) ==
    LET before == {m \in Chain(h, LeftmostLeaf(h, root)) : h[m].next = leaf}
    IN  IF before = {} THEN h
        ELSE LET prev == CHOOSE m \in before : TRUE
             IN  [h EXCEPT ![prev].next = h[leaf].next]

\* Child i of n, which is empty, goes.
RemoveChild(h, n, i) ==
    LET c == h[n].items[i]
        d == IF h[c].leaf THEN DetachLeafFromChain(h, c) ELSE h
    IN  Free([d EXCEPT ![n].items = RemoveAt(@, i)], c)

\* The end of DeleteFromNode in an internal node.
FixSelf(h, n, found, stale) ==
    LET siblings == h[h[n].parent].items
        self     == CHOOSE i \in DOMAIN siblings : siblings[i] = n
        result(g, e) == [heap |-> g, empty |-> e, deleted |-> found, stale |-> stale]
    IN  IF n # root /\ Underflows(h, n)
        THEN result(FixUnderflow(h, n, self), FALSE)
        ELSE IF h[n].items = <<>> THEN result(h, TRUE)
             ELSE result(RefreshInternalKeys(h, n), FALSE)

\* DeleteFromNode in a leaf.  empty: the parent must remove it.
DeleteFromLeaf(h, n, k) ==
    LET at  == LowerBound(h[n], k)
        cut == [h EXCEPT ![n].keys  = RemoveAt(@, at),
                         ![n].items = RemoveAt(@, at)]
    IN  IF k \in ToSet(h[n].keys)
        THEN [heap |-> cut, empty |-> cut[n].keys = <<>>, deleted |-> TRUE, stale |-> FALSE]
        ELSE [heap |-> h, empty |-> FALSE, deleted |-> FALSE, stale |-> FALSE]

\* DeleteFromNode in an internal node, when the call for its child i has returned
\* r.  stale: a frame looked again at that child, which had merged itself into its
\* left sibling as the last child: children[idx] is one past the end and still
\* the address of the freed node.  Here the garbage reads as a node that does not
\* underflow.
DeleteFromInternal(n, i, r) ==
    LET g    == r.heap
        past == r.deleted /\ ~r.empty /\ i > Len(g[n].items)
    IN  FixSelf(CASE r.empty -> RemoveChild(g, n, i)
                  [] r.deleted /\ ~r.empty /\ ~past /\ Underflows(g, g[n].items[i])
                       -> FixUnderflow(g, g[n].items[i], i)
                  [] OTHER -> g,
                n, r.deleted, r.stale \/ past)

DeleteFromNode(h, k) ==
    LET delete[n \in DOMAIN h] ==
            LET i == ChildIndex(h[n], k)
            IN  IF h[n].leaf THEN DeleteFromLeaf(h, n, k)
                ELSE DeleteFromInternal(n, i, delete[h[n].items[i]])
    IN  delete[root]

\* A root without children gives way to an empty leaf, a root with one child to
\* that child.
ShrunkRoot(h) ==
    LET kids == h[root].items
    IN  CASE h[root].leaf \/ Len(kids) > 1 -> [heap |-> h, root |-> root]
          [] ~h[root].leaf /\ Len(kids) = 1 ->
                [heap |-> Free([h EXCEPT ![kids[1]].parent = Null], root), root |-> kids[1]]
          [] OTHER -> [heap |-> [h EXCEPT ![root] = NewNode(TRUE)], root |-> root]

\* What the freed node's memory reads as is up to the allocator: the call goes
\* on, or the garbage in it ends the process.
Delete(k) ==
    LET r == DeleteFromNode(heap, k)
        t == ShrunkRoot(r.heap)
    IN  /\ fate # "dead"
        /\ \/ /\ heap' = t.heap
              /\ root' = t.root
              /\ done' = [key |-> k, val |-> Absent, found |-> r.deleted]
              /\ fate' = IF r.stale THEN "stale" ELSE "sound"
           \/ /\ r.stale
              /\ fate' = "dead"
              /\ UNCHANGED <<heap, root, done>>
----------------------------------------------------------------------------
Init ==
    /\ degree \in Degrees
    /\ heap = [n \in {1} |-> NewNode(TRUE)]
    /\ root = 1
    /\ done = <<>>
    /\ fate = "sound"

Next ==
    /\ \E k \in KeysFor(degree) : Delete(k) \/ \E v \in ValuesOf(k) : Put(k, v)
    /\ UNCHANGED degree

Spec == Init /\ [][Next]_vars
----------------------------------------------------------------------------
(* Reads *)

FindLeaf(k) ==
    LET find[n \in DOMAIN heap] ==
            IF heap[n].leaf THEN n ELSE find[heap[n].items[ChildIndex(heap[n], k)]]
    IN  find[root]

\* The entries of a leaf.
Pairs(n) == [i \in DOMAIN heap[n].keys |-> <<heap[n].keys[i], heap[n].items[i]>>]

\* <<value>>, or <<>> when Get returns false.
Get(k) ==
    LET leaf == heap[FindLeaf(k)]
        at   == LowerBound(leaf, k)
    IN  IF at \in DOMAIN leaf.keys /\ leaf.keys[at] = k THEN <<leaf.items[at]>>
        ELSE <<>>

\* What the loop of RangeScan takes of leaf n: it leaves at the first key beyond b.
InRange(n, a, b) ==
    LET keys == heap[n].keys
    IN  {i \in DOMAIN keys : keys[i] >= a /\ \A j \in 1 .. i : keys[j] <= b}

RangeScan(a, b) ==
    LET scan[n \in DOMAIN heap \cup {Null}] ==
            IF n = Null THEN <<>>
            ELSE Picked(Pairs(n), InRange(n, a, b))
                 \o IF \E i \in DOMAIN heap[n].keys : heap[n].keys[i] > b THEN <<>>
                    ELSE scan[heap[n].next]
    IN  IF a > b THEN <<>> ELSE scan[FindLeaf(a)]
----------------------------------------------------------------------------
(* What the tree holds, read off its children alone, for the properties *)

\* The nodes at a depth.
Level(d) ==
    LET level[i \in 0 .. d] ==
            IF i = 0 THEN {root}
            ELSE UNION {ToSet(heap[n].items) : n \in {n \in level[i - 1] : ~heap[n].leaf}}
    IN  level[d]

Depths == 0 .. Cardinality(DOMAIN heap)

Reachable == UNION {Level(d) : d \in Depths}

Entries == UNION {ToSet(Pairs(n)) : n \in {n \in Reachable : heap[n].leaf}}

\* The entries of all leaves, in the tree or not.
Stored == UNION {ToSet(Pairs(n)) : n \in {n \in DOMAIN heap : heap[n].leaf}}

\* The value of every key, in whichever leaf it is.
Contents ==
    LET stored == Stored
        of(k)  == {e \in stored : e[1] = k}
    IN  [k \in Keys |-> IF of(k) = {} THEN Absent ELSE (CHOOSE e \in of(k) : TRUE)[2]]

OM == INSTANCE OrderedMap WITH map <- Contents, Reports <- TRUE
----------------------------------------------------------------------------
(* Properties *)

Internal == {n \in DOMAIN heap : ~heap[n].leaf}

\* Types; every pointer is null or to a node that is allocated.
TypeOK ==
    /\ root \in DOMAIN heap
    /\ done # <<>> => done.key \in Keys /\ done.val \in Values \cup {Absent}
    /\ fate \in {"sound", "stale", "dead"}
    /\ \A n \in DOMAIN heap :
        /\ heap[n].keys \in Seq(Keys)
        /\ heap[n].leaf => heap[n].items \in Seq(Values)
        /\ ~heap[n].leaf => heap[n].items \in Seq(DOMAIN heap)
        /\ {heap[n].next, heap[n].parent} \subseteq DOMAIN heap \cup {Null}

\* The tree is a map: a call changes the entry it is about as it was asked to,
\* its splits, borrowings and merges change no entry, and Delete says whether it
\* removed one.
ImplementsOrderedMap == OM!Spec

\* Every key can be found by the separators from the root, and the entries of
\* any range come in order along the leaves from the leaf of its first key.
ReadsFindEverything ==
    LET entries == Entries
    IN  /\ \A k \in Keys : {e[2] : e \in {e \in entries : e[1] = k}} = ToSet(Get(k))
        /\ \A a, b \in Keys :
            LET scan == RangeScan(a, b)
            IN  /\ ToSet(scan) = {e \in entries : e[1] \in a .. b}
                /\ \A i, j \in DOMAIN scan : i < j => scan[i][1] < scan[j][1]

\* bptree.cc:358: a node other than the root keeps MinKeys keys; it never has
\* more than Degree - 1; all leaves are equally deep.
Balanced ==
    /\ \A d \in Depths : \A m, n \in Level(d) : heap[m].leaf = heap[n].leaf
    /\ \A n \in DOMAIN heap :
        /\ Len(heap[n].keys) <= Degree - 1
        /\ n # root => ~Underflows(heap, n)
        /\ ~heap[n].leaf => Len(heap[n].items) = Len(heap[n].keys) + 1

\* The parent of every child is the node that has it; FixUnderflow finds the
\* siblings of a node by nothing else.
ParentsAreRight ==
    /\ heap[root].parent = Null
    /\ \A n \in Internal : \A m \in ToSet(heap[n].items) : heap[m].parent = n

\* Every node that is allocated is in the tree, so the destructor frees it.
NothingLeaks == DOMAIN heap = Reachable

\* bptree.cc:244: after a deletion in a child that child is examined again.
ChildIsStillThere == fate = "sound"
============================================================================
