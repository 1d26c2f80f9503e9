------------------------------ MODULE KVStore ------------------------------
(***************************************************************************)
(* What the database of lab3 promises its client, with no memtable or file *)
(* in it: a map from keys to values in which every key has one durable     *)
(* value and some newer versions that a crash may lose.  A write adds the  *)
(* newest version of its key, the store may make the versions of a key     *)
(* durable up to any of them, and a crash keeps of every key its durable   *)
(* value or a newer one: nothing is invented, nothing durable is lost, and *)
(* no value older than a durable one ever comes back.                      *)
(***************************************************************************)
EXTENDS Naturals

CONSTANTS
    Keys,       \* the keys
    Values,     \* the values written
    Absent      \* the value of a key that has none

VARIABLES
    dur,        \* dur[k]: the durable value of k
    pend        \* pend[k]: the newer versions of k, each with its age

vars == <<dur, pend>>

Content == Values \cup {Absent}

Version == [seq : Nat, val : Content]

TypeOK == /\ dur \in [Keys -> Content]
          /\ pend \in [Keys -> SUBSET Version]

\* The newest of a set of versions, unless it is empty.
Newest(S) == {e \in S : \A f \in S : f.seq <= e.seq}

\* The value a read of k returns.
Current(k) ==
    IF pend[k] = {} THEN dur[k] ELSE (CHOOSE e \in Newest(pend[k]) : TRUE).val

Init == /\ dur = [k \in Keys |-> Absent]
        /\ pend = [k \in Keys |-> {}]

\* Put or Delete, with a number larger than any before.  A version that is not
\* durable yet may be overwritten.
Write(k, v) ==
    /\ \E kept \in {pend[k], pend[k] \ Newest(pend[k])}, e \in pend'[k] :
         /\ e \in [seq : Nat, val : {v}]
         /\ \A f \in pend[k] : f.seq < e.seq
         /\ pend' = [pend EXCEPT ![k] = kept \cup {e}]
    /\ UNCHANGED dur

\* The versions of every key become durable up to some one, or to none.
Harden ==
    /\ DOMAIN dur' = Keys
    /\ DOMAIN pend' = Keys
    /\ \A k \in Keys :
         \/ dur'[k] = dur[k] /\ pend'[k] = pend[k]
         \/ \E e \in pend[k] : /\ dur'[k] = e.val
                               /\ pend'[k] = {f \in pend[k] : f.seq > e.seq}

\* A crash, or a close: what is not durable by then is lost.
Crash ==
    /\ DOMAIN dur' = Keys
    /\ pend' = [k \in Keys |-> {}]
    /\ \A k \in Keys : dur'[k] \in {dur[k]} \cup {e.val : e \in pend[k]}

Next == \/ \E k \in Keys, v \in Content : Write(k, v)
        \/ Harden
        \/ Crash

Spec == Init /\ [][Next]_vars
============================================================================
