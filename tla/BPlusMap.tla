------------------------------ MODULE BPlusMap ------------------------------
(***************************************************************************)
(* The B+ tree beside its map.                                             *)
(***************************************************************************)
EXTENDS MapTree

CONSTANTS
  PKeys, PAddr,
  Degrees  \* the degrees it may have

P == INSTANCE BPlusTree WITH Key <- PKeys, Value <- PKeys \cup {0}, Addr <- PAddr, M <- order
PMap == INSTANCE OrderedMap WITH Key <- PKeys

BPlusInit == tree = "bplus" /\ order \in Degrees /\ PMap!Init /\ P!Init

\* What a leaf that borrowed from the right one does is not followed: its keys
\* and its records are no longer the same.
BPlusNext ==
  /\ tree = "bplus" /\ UNCHANGED <<tree, order>>
  /\ "borrowRight" \notin work.since
  /\ \/ \E k \in PKeys : \E v \in Given(k) : P!Put(k, v) /\ PMap!Put(k, v)
     \/ \E k \in PKeys : P!RemoveKey(k) /\ PMap!Remove(k)
     \/ P!Clear /\ PMap!Clear
     \/ (P!Split \/ P!Rebalance) /\ UNCHANGED map

-----------------------------------------------------------------------------
Size == Cardinality(PMap!Keys)

\* The leaf for a key has its record exactly when it was put and not removed, with
\* its last value, and Size counts the records, which a Remove does last.
\* Get answers with it if the key is not one of an inner root: there it takes
\* the place in the root for that in the leaf.
BPlusIsTheMap ==
  tree = "bplus" /\ "borrowRight" \notin work.since =>
    /\ size = IF work.op \in {"rebalance", "panicked"} THEN Size + 1 ELSE Size
    /\ \A k \in PKeys :
         /\ map[k] = IF P!Has(k) THEN P!Record(k).value ELSE Nil
         /\ size = 0 \/ P!IsLeaf(root) \/ ~P!FoundAt(node[root].keys, k) => P!Get(k) = map[k]

\* Nodes keep their types, and between two calls the root has the greatest key of
\* each leaf, and a leaf the keys of its records, no more than the degree and, beside
\* others, no fewer than the half of it.
BPlusShape ==
  tree = "bplus" /\ "borrowRight" \notin work.since =>
    P!TypeOK /\ (work.op = "none" => P!Shape)

\* Until leaves are merged, the chain has the records of the map in order: Range from
\* a key of the root gives the values from there on, and Prev is the way back.
BPlusChain ==
  tree = "bplus" /\ work.op = "none" /\ work.since = {} /\ root # Nil =>
    /\ P!Linked
    /\ ~P!IsLeaf(root) =>
         \A i \in DOMAIN node[root].keys :
           LET k == node[root].keys[i] IN P!RangeFrom(k) = PMap!From(k)
=============================================================================
