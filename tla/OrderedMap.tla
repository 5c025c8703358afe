----------------------------- MODULE OrderedMap -----------------------------
(***************************************************************************)
(* What the trees of cache/ promise: a map from keys to values that is     *)
(* asked in the order of its keys.  A function from all keys, with Nil for *)
(* those that are not in it.                                               *)
(***************************************************************************)
EXTENDS Integers, FiniteSetsExt

Seqs == INSTANCE SequencesExt

CONSTANTS Key, Nil

VARIABLE map

Init == map = [k \in Key |-> Nil]

Put(k, v) == map' = [map EXCEPT ![k] = v]

Remove(k) == map' = [map EXCEPT ![k] = Nil]

Clear == map' = [k \in Key |-> Nil]

Keys == {k \in Key : map[k] # Nil}

\* The greatest key of the map up to k.
Floor(k) == LET below == {j \in Keys : j <= k} IN IF below = {} THEN Nil ELSE Max(below)

\* The least key above k, the greatest below it.
After(k) == LET above == {j \in Keys : j > k} IN IF above = {} THEN Nil ELSE Min(above)
Before(k) == LET below == {j \in Keys : j < k} IN IF below = {} THEN Nil ELSE Max(below)

\* The values from k on, in the order of their keys.
From(k) ==
  LET keys == Seqs!SetToSortSeq({j \in Keys : j >= k}, <)
  IN [i \in DOMAIN keys |-> map[keys[i]]]
=============================================================================
