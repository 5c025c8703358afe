------------------------------ MODULE BTreeMap ------------------------------
(***************************************************************************)
(* The B-tree beside its map.                                              *)
(***************************************************************************)
EXTENDS MapTree

CONSTANTS
  BKeys, BAddr,
  Orders  \* the orders it may have

B == INSTANCE BTree WITH Key <- BKeys, Value <- BKeys \cup {0}, Addr <- BAddr, M <- order
BMap == INSTANCE OrderedMap WITH Key <- BKeys

BTreeInit == tree = "btree" /\ order \in Orders /\ BMap!Init /\ B!Init

BTreeNext ==
  /\ tree = "btree" /\ UNCHANGED <<tree, order>>
  /\ \/ \E k \in BKeys : \E v \in Given(k) : B!Put(k, v) /\ BMap!Put(k, v)
     \/ \E k \in BKeys : B!RemoveKey(k) /\ BMap!Remove(k)
     \/ B!Clear /\ BMap!Clear
     \/ (B!Split \/ B!Rebalance) /\ UNCHANGED map

-----------------------------------------------------------------------------
\* Get finds the keys that were put and not removed, with their last value,
\* between two calls and, except while entries move between siblings, between
\* the steps of a call; and Size counts them.
BTreeIsTheMap ==
  tree = "btree" =>
    /\ size = Cardinality(BMap!Keys)
    /\ work.op # "rebalance" => \A k \in BKeys : B!Get(k) = map[k]

\* Nodes keep their types, and the points 1 to 5 of the comment on BTree hold after
\* any sequence of calls.
BTreeShape == tree = "btree" => B!TypeOK /\ B!Shape
=============================================================================
