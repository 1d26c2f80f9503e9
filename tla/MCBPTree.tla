------------------------------ MODULE MCBPTree ------------------------------
(***************************************************************************)
(* BPTree on small instances.  The addresses of the nodes mean nothing to  *)
(* the code, so the view takes states that differ in them only for one:    *)
(* it shows a child as a whole and not by its address, a parent by         *)
(* whether it is the right one, a next leaf by its keys, which are those   *)
(* of no other leaf.  A pointer that is wrong is shown as it is.  It also  *)
(* counts the nodes, in the tree or not.  The values of a leaf are not in  *)
(* it, which the code moves and never looks at; no two keys have a value   *)
(* in common, so that a value that comes to a wrong key is seen.  Nor is   *)
(* the last call, which is only there for the abstract map.                *)
(***************************************************************************)
EXTENDS BPTree

\* At degree 3 nine keys make four levels; at degree 4 ten make three, and the
\* read of a freed node.
MCKeysFor(d) == IF d = 3 THEN 1 .. 9 ELSE 1 .. 10

\* Some puts overwrite a value with another one.
MCValuesOf(k) == IF k \in {3, 6} THEN {k, -k} ELSE {k}

\* What can be seen of node n, which is a child of p.
RECURSIVE Seen(_, _)
Seen(n, p) ==
    <<heap[n].keys,
      IF heap[n].leaf THEN Len(heap[n].items)
      ELSE [i \in DOMAIN heap[n].items |-> Seen(heap[n].items[i], n)],
      IF heap[n].next \in DOMAIN heap THEN heap[heap[n].next].keys
      ELSE <<-1, heap[n].next>>,
      IF heap[n].parent = p THEN -1 ELSE heap[n].parent>>

TreeView == <<degree, Seen(root, Null), Cardinality(DOMAIN heap), fate>>
=============================================================================
