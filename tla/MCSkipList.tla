----------------------------- MODULE MCSkipList -----------------------------
(***************************************************************************)
(* SkipList on a small instance.  The number callers give may be larger    *)
(* than one the list gives later on, so that a newer node of a key has the *)
(* smaller number.                                                         *)
(***************************************************************************)
EXTENDS SkipList

CONSTANTS v1, empty

MCKeys == 1 .. 2
=============================================================================
