------------------------------ MODULE MapTree -------------------------------
(***************************************************************************)
(* A tree of cache/ beside the map it stands for: what AVLMap, BTreeMap,   *)
(* BPlusMap and SkipListMap have in common.  Each call changes tree and    *)
(* map together, and whatever the tree has to repair after it leaves the   *)
(* map alone.                                                              *)
(***************************************************************************)
EXTENDS Integers, FiniteSets, Sequences

CONSTANT Nil

VARIABLES
  tree,   \* which one it is
  order,  \* of the B-tree, or the degree of the B+ tree
  map,    \* what its caller has put and removed
  root, node, size, work

vars == <<tree, order, map, root, node, size, work>>

\* What is put under a key: a value of its own, and another one under 1.
Given(k) == IF k = 1 THEN {0, 1} ELSE {k}

KeyOf(n) == IF n = Nil THEN Nil ELSE node[n].key
=============================================================================
