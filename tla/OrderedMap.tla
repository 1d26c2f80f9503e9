---------------------------- MODULE OrderedMap ----------------------------
(***************************************************************************)
(* What the in-memory databases of lab2 promise: a map from keys to values *)
(* in which every call does what its caller asked for, and nothing else.   *)
(* The Delete of one of them also says whether the key was there.          *)
(***************************************************************************)
CONSTANTS
    Keys, Values,
    Absent,     \* the value of a key that is not there
    Reports     \* whether Delete says whether the key was there

VARIABLES
    map,        \* the value of every key
    done        \* the last call that returned: its key, the value put or, for
                \* a Delete, Absent, and what a Delete returned

vars == <<map, done>>

Returned(k, v, found) == [key |-> k, val |-> v, found |-> found]

Init == map = [k \in Keys |-> Absent] /\ done = <<>>

Put(k, v) ==
    /\ done' = Returned(k, v, FALSE)
    /\ map' = [map EXCEPT ![k] = v]

Delete(k) ==
    /\ done' = Returned(k, Absent, Reports /\ map[k] # Absent)
    /\ map' = [map EXCEPT ![k] = Absent]

Next == \E k \in Keys : Delete(k) \/ \E v \in Values : Put(k, v)

Spec == Init /\ [][Next]_vars
============================================================================
