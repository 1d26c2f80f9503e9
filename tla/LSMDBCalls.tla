----------------------------- MODULE LSMDBCalls -----------------------------
(***************************************************************************)
(* LSMDB as the client of one call sees it.  A Put or Delete is many steps *)
(* of LSMDB, some of which create, merge and remove files with the entries *)
(* of other keys.  The history variable `before` records what Get answered *)
(* when the call in progress began, so that the end of the call can be     *)
(* compared with its beginning.  It is only written, never read, by the    *)
(* steps, so the behaviours are those of LSMDB.                            *)
(***************************************************************************)
EXTENDS LSMDB

VARIABLE before     \* Get of every key when the call in progress began

callVars == <<vars, before>>

InCall == pc \notin {"closed", "idle"}

\* What the client gets for every key.
Answers == [k \in Keys |-> Get(k)]

NoAnswers == [k \in Keys |-> Tombstone]

\* What Get answered when the call began that makes the step from this state.
AtStart == IF InCall THEN before ELSE Answers

CallsInit == Init /\ before = NoAnswers

CallsNext == Next /\ before' = IF InCall' THEN AtStart ELSE NoAnswers

CallsSpec == CallsInit /\ [][CallsNext]_callVars
----------------------------------------------------------------------------
(* Properties *)

\* The call that writes v to k returns, at once or after the flush loop.
Returns(k, v) ==
    /\ (FinishWrite /\ op = [key |-> k, val |-> v]) \/ Write(k, v)
    /\ pc' = "idle"

\* An exception ends the call in progress.
Throws == InCall /\ pc' = "idle" /\ ~FinishWrite

\* A Put or Delete happens wholly or not at all.  When it returns, Get answers
\* for its key what was written, and for every other key what it answered when
\* the call began, whatever the call flushed, merged and removed meanwhile.
\* When an exception ends it, in a flush, before its compaction or in it, Get
\* answers for every key what it answered when the call began.
WritesAreAtomic ==
    [][/\ \A k \in Keys, v \in Values \cup {Tombstone} :
            Returns(k, v) => Answers' = [AtStart EXCEPT ![k] = v]
       /\ Throws => Answers' = AtStart]_callVars
============================================================================
