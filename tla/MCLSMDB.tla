------------------------------ MODULE MCLSMDB ------------------------------
(***************************************************************************)
(* LSMDB on small instances.  Keys are 1..2 and sizes are those of the     *)
(* tests of lab3/db_test.cc: 4-byte keys, 4-byte values, a memtable of 12  *)
(* bytes, so that a memtable holds one put, or a put and a delete, or      *)
(* three deletes.                                                          *)
(***************************************************************************)
EXTENDS LSMDB, TLC

CONSTANTS v1, v2,       \* values of 4 characters, no white space
          big,          \* a value longer than a memtable
          spaced,       \* "v1 v2": a value with white space in it
          cut,          \* a value whose end is missing
          empty         \* ""

MCValues == {v1, v2, big, spaced, cut, empty}

\* Only a value with white space is not read back as written.
MCFirstToken(v) == IF v = spaced THEN v1 ELSE v

\* Every proper prefix of a value, of which there are the empty one and others.
MCValuePrefixes(v) == IF v \in {v1, v2} THEN {cut, empty} ELSE {}

MCValueBytes(v) == CASE v \in {Tombstone, empty} -> 0
                     [] v = big -> 16
                     [] v = spaced -> 5
                     [] OTHER -> 4

\* Neighbouring keys share a bit, so that the filter of two keys may seem to
\* have the one between them; and bits lie in the first two bytes.
MCSimpleHash(k, i) == IF k >= 0 /\ i >= 0 THEN 6 + k + i ELSE 0

\* What is read behind the end of a filter: any bits will do.
MCBeyond(i) == i % 2 = 0

\* The two ordinary values are interchangeable (used without liveness only).
ValueSymmetry == Permutations({v1, v2})
============================================================================
