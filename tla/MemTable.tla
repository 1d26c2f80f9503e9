------------------------------ MODULE MemTable ------------------------------
(***************************************************************************)
(* What a memtable promises its database, with no tower, level or pointer  *)
(* in it: a table that gives each key the version stored of it last, and   *)
(* reads that return what the table holds at the moment they return.       *)
(***************************************************************************)
EXTENDS Integers

CONSTANTS
    Keys,       \* the keys stored
    Vals,       \* what is stored for a key, the tombstone included
    Tombstone,  \* marks a deleted key
    Seqs        \* the sequence numbers stored

VARIABLES
    table,      \* the version of each key stored last
    answer      \* the entries the last read returned

vars == <<table, answer>>

\* A key nothing was stored for.
Absent == [present |-> FALSE]

Version == [present : {TRUE}, seq : Seqs, val : Vals]

\* The entry of k as a read returns it.
EntryOf(k) == [key |-> k, seq |-> table[k].seq, val |-> table[k].val]

Init == /\ table = [k \in Keys |-> Absent]
        /\ answer = {}

\* A call begins, and the last answer is used up.
Begin == answer' = {} /\ UNCHANGED table

\* Put or Delete, with the number of the caller or of the memtable.
Insert(k, s, v) ==
    /\ table' = [table EXCEPT ![k] = [present |-> TRUE, seq |-> s, val |-> v]]
    /\ UNCHANGED answer

\* A read of the keys in S, with the tombstones among them or without.
Read(S, live) ==
    /\ answer' = {EntryOf(k) : k \in {j \in S \cap Keys :
                    table[j].present /\ (live => table[j].val # Tombstone)}}
    /\ UNCHANGED table

\* The memtable is destroyed.
Drop ==
    /\ table' = [k \in Keys |-> Absent]
    /\ UNCHANGED answer

Next == \/ Begin
        \/ \E k \in Keys, s \in Seqs, v \in Vals : Insert(k, s, v)
        \/ \E a, b \in Keys, live \in BOOLEAN : Read(a .. b, live)
        \/ Drop

Spec == Init /\ [][Next]_vars
=============================================================================
