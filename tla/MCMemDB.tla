------------------------------ MODULE MCMemDB ------------------------------
(***************************************************************************)
(* MemDB on a small instance.  A memtable of 12 bytes is just full with a  *)
(* put of `small` and a delete, or with three deletes, and `big` is larger *)
(* than a memtable.                                                        *)
(***************************************************************************)
EXTENDS MemDB

CONSTANTS small, big

MCKeys == 1 .. 3

MCValueBytes(v) == IF v = big THEN 16 ELSE 4
============================================================================
