------------------------------- MODULE MemDB -------------------------------
(***************************************************************************)
(* The InMemoryDB of lab2 over skip lists (lab2/skiplist/memdb.cc and      *)
(* skiplist.cc): a memtable that is written to, and the full ones behind   *)
(* it, which are only read and never leave memory.  Every memtable numbers *)
(* its own entries from 1, so only the order of the memtables says which   *)
(* of two entries in different ones is newer.                              *)
(*                                                                         *)
(* A list is the bottom level of its skip list, from the head on: the      *)
(* levels above only shorten the way to a node (module SkipList).  The     *)
(* code is sequential and its reads change nothing: Put and Delete are a   *)
(* step each, the reads are operators.                                     *)
(***************************************************************************)
EXTENDS Integers, SequencesExt

CONSTANTS
    Keys,               \* the ints in play
    Values,             \* the values put
    Tombstone,          \* stands for a node's tombstone flag
    KeyBytes,           \* sizeof(int)
    ValueBytes(_),      \* value.size()
    max_memtable_bytes, \* options_.max_memtable_bytes
    Int64Max,           \* std::numeric_limits<int64_t>::max()
    MaxWrites           \* bound: writes of the client

ASSUME MemDBAssumption ==
    /\ Keys \subseteq Int
    /\ Tombstone \notin Values
    /\ KeyBytes \in Nat \ {0}
    /\ \A v \in Values : ValueBytes(v) \in Nat
    /\ max_memtable_bytes \in Nat
    /\ MaxWrites \in Nat /\ Int64Max \in Nat /\ MaxWrites <= Int64Max

VARIABLES
    mutable_,       \* the memtable written to
    immutables_,    \* the memtables before it, oldest first
    done            \* the last call that returned

vars == <<mutable_, immutables_, done>>

Node == [key : Keys, seq : 1 .. MaxWrites, val : Values \cup {Tombstone}]

MemTable == [list : Seq(Node), next_seq_ : Nat \ {0}, size_bytes : Nat,
             immutable : BOOLEAN]

NewMemTable == [list |-> <<>>, next_seq_ |-> 1, size_bytes |-> 0, immutable |-> FALSE]

Init == mutable_ = NewMemTable /\ immutables_ = <<>> /\ done = <<>>

\* All memtables, oldest first.
Layers == Append(immutables_, mutable_)
----------------------------------------------------------------------------
(* The skip list *)

\* Key ascending, then sequence number descending.
Less(a_key, a_seq, b_key, b_seq) ==
    IF a_key # b_key THEN a_key < b_key ELSE a_seq > b_seq

\* The first place at or after p whose node satisfies Test, or the end.
FirstFrom(list, p, Test(_)) ==
    CHOOSE q \in p .. Len(list) + 1 :
        /\ q \in DOMAIN list => Test(list[q])
        /\ \A r \in p .. q - 1 : ~Test(list[r])

\* The place of the first node that is not smaller than (key, Int64Max).
FindGreaterOrEqual(list, key) ==
    FirstFrom(list, 1, LAMBDA n : ~Less(n.key, n.seq, key, Int64Max))

\* Plausible bug: the number is not counted up.
InsertUncounted(t, key, val) ==
    [t EXCEPT !.list = InsertAt(@, FindGreaterOrEqual(@, key),
                                [key |-> key, seq |-> t.next_seq_, val |-> val])]

\* Put or Delete of the list: a new node where the search ends.
Insert(t, key, val) ==
    [t EXCEPT !.list = InsertAt(@, FindGreaterOrEqual(@, key),
                                [key |-> key, seq |-> t.next_seq_, val |-> val]),
              !.next_seq_ = @ + 1]

\* The latest entry of key, a tombstone as well, or <<>>.
GetLatestEntry(t, key) ==
    LET p == FindGreaterOrEqual(t.list, key)
    IN  IF p \in DOMAIN t.list /\ t.list[p].key = key THEN <<t.list[p].val>> ELSE <<>>

\* Every key from a to b that the list has, with the first node of it.  With
\* a > b the loop ends where it starts, which the code decides before it.
RangeScanEntries(t, a, b) ==
    LET list == t.list
        from == FindGreaterOrEqual(list, a)
        past == FirstFrom(list, from, LAMBDA n : n.key > b)
        At(k) == {p \in from .. past - 1 : list[p].key = k}
    IN  [k \in {list[p].key : p \in from .. past - 1} |-> list[Min(At(k))].val]
----------------------------------------------------------------------------
(* The database *)

EntryBytes(val) == KeyBytes + IF val = Tombstone THEN 0 ELSE ValueBytes(val)

\* Plausible bug: a memtable that would just be full is taken for too full.
TooFullWhenFull(bytes) == mutable_.size_bytes + bytes >= max_memtable_bytes

\* The test of EnsureMutableCapacity.
TooFull(bytes) == mutable_.size_bytes + bytes > max_memtable_bytes

\* The new entry, and its bytes, go to memtable t.
InsertIn(t, key, val) ==
    mutable_' = [Insert(t, key, val) EXCEPT !.size_bytes = @ + EntryBytes(val)]

\* The nodes of all memtables.
Nodes == UNION {{p} \X DOMAIN Layers[p].list : p \in DOMAIN Layers}

\* EnsureMutableCapacity, and the insertion.
Write(key, val) ==
    /\ Cardinality(Nodes) < MaxWrites
    /\ IF TooFull(EntryBytes(val))
       THEN /\ immutables_' = Append(immutables_, [mutable_ EXCEPT !.immutable = TRUE])
            /\ InsertIn(NewMemTable, key, val)
       ELSE /\ InsertIn(mutable_, key, val)
            /\ UNCHANGED immutables_
    /\ done' = [key |-> key, val |-> val, found |-> FALSE]

Put(key, value) == Write(key, value)

Delete(key) == Write(key, Tombstone)

Next == \E key \in Keys : Delete(key) \/ \E value \in Values : Put(key, value)

Spec == Init /\ [][Next]_vars

\* Whether memtable p has an entry of key.
Has(p, key) == GetLatestEntry(Layers[p], key) # <<>>

\* Plausible bug: the immutables are searched from the front, before the mutable.
StopsAtOldest(p, key) == Has(p, key) /\ \A q \in 1 .. p - 1 : ~Has(q, key)

\* The search for key, from the newest memtable on, stops at memtable p.
StopsAt(p, key) == Has(p, key) /\ \A q \in p + 1 .. Len(Layers) : ~Has(q, key)

\* The value of key, Tombstone when Get returns false.
Get(key) ==
    CHOOSE val \in Values \cup {Tombstone} :
        \/ \E p \in DOMAIN Layers :
                StopsAt(p, key) /\ GetLatestEntry(Layers[p], key) = <<val>>
        \/ val = Tombstone /\ \A p \in DOMAIN Layers : ~Has(p, key)

\* Keys decided by a newer memtable keep what it said.
Over(decided, entries) ==
    [k \in DOMAIN decided \cup DOMAIN entries |->
        IF k \in DOMAIN decided THEN decided[k] ELSE entries[k]]

\* Plausible bug: a tombstone does not decide its key.
DecidedByValues(decided, entries) ==
    Over([k \in {k \in DOMAIN decided : decided[k] # Tombstone} |-> decided[k]],
         entries)

\* The loop over one memtable.
Decided(decided, entries) == Over(decided, entries)

\* The live keys from a to b and their values, newest memtable first.
RangeScan(a, b) ==
    LET none    == [k \in {} |-> Tombstone]
        decided == FoldRight(LAMBDA t, d : Decided(d, RangeScanEntries(t, a, b)),
                             Layers, none)
    IN  [k \in {k \in DOMAIN decided : decided[k] # Tombstone} |-> decided[k]]
----------------------------------------------------------------------------
(* Properties *)

\* Types; a list numbers its entries from 1 on, each number is used once and
\* none is left out; only the memtables behind the mutable one are immutable.
TypeOK ==
    /\ mutable_ \in MemTable
    /\ immutables_ \in Seq(MemTable)
    /\ done # <<>> => done.key \in Keys /\ done.val \in Values \cup {Tombstone}
    /\ \A p \in DOMAIN Layers :
        LET t == Layers[p]
        IN  /\ t.immutable = (p < Len(Layers))
            /\ t.next_seq_ = Len(t.list) + 1
            /\ {t.list[i].seq : i \in DOMAIN t.list} = 1 .. Len(t.list)

OM == INSTANCE OrderedMap WITH
        Absent  <- Tombstone,
        Reports <- FALSE,
        map     <- [k \in Keys |-> Get(k)]

\* What Get returns is a map: a write sets its key to what was asked for and
\* changes no other, across any number of memtables, each of which numbers its
\* entries from 1 again.
ImplementsOrderedMap == OM!Spec

\* The two read paths agree: Get stops at the newest memtable that has the key,
\* RangeScan goes through all of them and remembers which keys are decided.
GetAgreesWithRangeScan ==
    \A a, b \in Keys :
        RangeScan(a, b) = [k \in {k \in Keys \cap a .. b : Get(k) # Tombstone} |-> Get(k)]

\* The bytes of the nodes of a list, all versions of a key counted.
BytesOf(list) ==
    Cardinality(UNION {{i} \X (1 .. EntryBytes(list[i].val)) : i \in DOMAIN list})

\* memdb.h:12: a memtable becomes immutable when an entry would take it over
\* max_memtable_bytes, and at no other time.  It stays within them, unless one
\* entry alone is larger, and the entry that came next did not fit.
MemTablesAreFull ==
    \A p \in DOMAIN Layers :
        LET t == Layers[p]
        IN  /\ t.size_bytes = BytesOf(t.list)
            /\ t.size_bytes <= max_memtable_bytes \/ Len(t.list) = 1
            /\ p < Len(Layers) =>
                 \E i \in DOMAIN Layers[p + 1].list :
                    LET next == Layers[p + 1].list[i]
                    IN  /\ next.seq = 1
                        /\ t.size_bytes + EntryBytes(next.val) > max_memtable_bytes
============================================================================
