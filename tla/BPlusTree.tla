----------------------------- MODULE BPlusTree -----------------------------
(***************************************************************************)
(* The B+ tree of cache/bplustree: leaves with keys and records, in a      *)
(* chain, and above them a root with the greatest key of each leaf.  Only  *)
(* leaves are ever split, into the root if there is one above them, so the *)
(* root grows with the tree and is the only inner node.                    *)
(*                                                                         *)
(* A call has the lock to its end; here it is a first step and, where it   *)
(* may split, borrow or merge, a second.  Nodes and their Leaf are one.    *)
(* Records that a leaf taken out of the tree has left are not followed.    *)
(***************************************************************************)
EXTENDS Integers, FiniteSets, SequencesExt

CONSTANTS
  Key,    \* integers
  Value,
  Addr,   \* addresses of nodes
  Nil

VARIABLES
  root,  \* BPlusTree.Root
  node,  \* the nodes by address
  size,  \* BPlusTree.size
  work,  \* what the call in progress has still to do, and a history variable:
         \* what has been done to this tree since it was empty
  M      \* maxDegree, which never changes: the most keys of a leaf, at least 2

vars == <<root, node, size, work, M>>

Blank == [children |-> <<>>, keys |-> <<>>, records |-> <<>>, prev |-> Nil, next |-> Nil]
Idle == [op |-> "none", at |-> Nil, key |-> Nil, since |-> {}]

TypeOK ==
  /\ root \in Addr \cup {Nil}
  /\ node \in [Addr -> [children : Seq(Addr), keys : Seq(Key),
                        records : Seq([key : Key, value : Value]),
                        prev : Addr \cup {Nil}, next : Addr \cup {Nil}]]
  /\ size \in Nat
  /\ work \in [op : {"none", "split", "rebalance", "panicked"}, at : Addr \cup {Nil},
               key : Key \cup {Nil}, since : SUBSET {"borrowRight", "merge"}]

Init == root = Nil /\ node = [n \in Addr |-> Blank] /\ size = 0 /\ work = Idle

MinKey == (M + 1) \div 2
Middle == M \div 2 + 1  \* how many keys the left half of a leaf has

IsLeaf(n) == node[n].children = <<>>

\* No node of the tree, and of no chain that begins there.
Free ==
  LET used == IF root = Nil THEN {} ELSE {root} \cup Range(node[root].children)
  IN {n \in Addr \ used : \A m \in used : n # node[m].prev /\ n # node[m].next}
New == CHOOSE n \in Free : TRUE
NewBut(ns) == CHOOSE n \in Free \ ns : TRUE

-----------------------------------------------------------------------------
(* Search.  Positions count from 1 here.                                   *)

\* searchNode and searchLeaf: the binary search for k in ks, which may find keys
\* that are out of order.
Search(ks, k) ==
  LET at[low \in Nat, high \in Nat] ==
        LET mid == (low + high) \div 2 IN
        CASE low > high   -> low
          [] ks[mid] < k  -> at[mid + 1, high]
          [] ks[mid] > k  -> at[low, mid - 1]
          [] ks[mid] = k  -> mid
  IN at[1, Len(ks)]

FoundAt(ks, k) == Search(ks, k) \in DOMAIN ks /\ ks[Search(ks, k)] = k

RecordKeys(n) == [i \in DOMAIN node[n].records |-> node[n].records[i].key]

\* Above the greatest key the last child is meant.
Within(i, n) == IF i > Len(node[n].keys) THEN Len(node[n].keys) ELSE i

\* searchRecursively: the leaf for k.
LeafOf(k) ==
  IF IsLeaf(root) THEN root
  ELSE node[root].children[Within(Search(node[root].keys, k), root)]

\* The record of k in the leaf for it, which Put changes and Remove removes.
Has(k) == size # 0 /\ FoundAt(RecordKeys(LeafOf(k)), k)
Record(k) == node[LeafOf(k)].records[Search(RecordKeys(LeafOf(k)), k)]

\* Where a leaf and its greatest key are in the root.
Index(n) == SelectInSeq(node[root].children, LAMBDA m : m = n)

\* Get takes the place of k in the root, if it is there, for its place in the leaf.
Get(k) ==
  LET n == LeafOf(k)
      i == Search(node[root].keys, k)
  IN IF size = 0 THEN Nil
     ELSE IF ~IsLeaf(root) /\ FoundAt(node[root].keys, k)
     THEN IF i \in DOMAIN node[n].records THEN node[n].records[i].value ELSE "panic"
     ELSE IF Has(k) THEN Record(k).value ELSE Nil

\* The values of the records from the leaf n on, as the chain has them.
Chain(n) ==
  LET from[m \in Addr \cup {Nil}, d \in Nat] ==
        IF m = Nil \/ d = 0 THEN <<>>
        ELSE [i \in DOMAIN node[m].records |-> node[m].records[i].value]
               \o from[node[m].next, d - 1]
  IN from[n, Cardinality(Addr)]

\* Range: the values from k on.  It finds the keys that are in the root only.
RangeFrom(k) ==
  IF size = 0 \/ IsLeaf(root) \/ ~FoundAt(node[root].keys, k) THEN <<>>
  ELSE LET n == LeafOf(k) IN
       IF ~FoundAt(RecordKeys(n), k) THEN <<>>
       ELSE SubSeq(Chain(n), Search(RecordKeys(n), k), Len(Chain(n)))

-----------------------------------------------------------------------------
(* Put.                                                                    *)

PutFirst(k, v) ==
  /\ work.op = "none" /\ root = Nil
  /\ root' = New
  /\ node' = [node EXCEPT ![New].keys = <<k>>, ![New].records = <<[key |-> k, value |-> v]>>]
  /\ size' = 1
  /\ UNCHANGED work

PutExisting(k, v) ==
  /\ work.op = "none" /\ root # Nil
  /\ LET n == LeafOf(k) IN
       /\ FoundAt(RecordKeys(n), k)
       /\ node' = [node EXCEPT ![n].records[Search(RecordKeys(n), k)] =
                     [key |-> k, value |-> v]]
  /\ UNCHANGED <<root, size, work>>

\* The greatest key of a leaf may be a new one, and is then in the root too.
PutNew(k, v) ==
  /\ work.op = "none" /\ root # Nil
  /\ LET n == LeafOf(k)
         i == Search(RecordKeys(n), k)
         put == [node EXCEPT ![n].keys = InsertAt(@, i, k),
                             ![n].records = InsertAt(@, i, [key |-> k, value |-> v])]
     IN /\ ~FoundAt(RecordKeys(n), k)
        /\ node' = IF n # root /\ node[root].keys[Index(n)] < k
                   THEN [put EXCEPT ![root].keys[Index(n)] = k] ELSE put
        /\ work' = [work EXCEPT !.op = "split", !.at = n]
  /\ size' = size + 1
  /\ UNCHANGED root

Done == work' = [work EXCEPT !.op = "none", !.at = Nil, !.key = Nil]

SplitNone ==
  /\ work.op = "split" /\ Len(node[work.at].keys) <= M
  /\ Done
  /\ UNCHANGED <<root, node, size>>

\* The two halves of leaf n, at addresses l and r.
LeftHalf(n, r) ==
  [node[n] EXCEPT !.keys = SubSeq(@, 1, Middle), !.records = SubSeq(@, 1, Middle), !.next = r]
RightHalf(n, l) ==
  [node[n] EXCEPT !.keys = SubSeq(@, Middle + 1, Len(@)),
                  !.records = SubSeq(@, Middle + 1, Len(@)), !.prev = l]

SplitRoot ==
  /\ work.op = "split" /\ Len(node[work.at].keys) > M /\ work.at = root
  /\ LET l == New
         r == NewBut({l})
         top == NewBut({l, r})
     IN /\ root' = top
        /\ node' = [node EXCEPT ![l] = LeftHalf(root, r), ![r] = RightHalf(root, l),
                                ![top] = [Blank EXCEPT !.children = <<l, r>>,
                                  !.keys = <<Last(LeftHalf(root, r).keys),
                                             Last(RightHalf(root, l).keys)>>],
                                ![root] = Blank]
  /\ Done
  /\ UNCHANGED size

\* appendKey: a key above all the others goes before the last one.
WithKey(ks, k) ==
  IF FoundAt(ks, k) THEN ks
  ELSE InsertAt(ks, IF Search(ks, k) > Len(ks) THEN Len(ks) ELSE Search(ks, k), k)

\* Bug: the leaves beside the one that is split go on pointing to it.
RelinkedNot(nodes, n, l, r) == nodes

\* The leaves before and after n point to l and r.
Relinked(nodes, n, l, r) ==
  [a \in Addr |->
     [nodes[a] EXCEPT !.next = IF a = node[n].prev THEN l ELSE @,
                      !.prev = IF a = node[n].next THEN r ELSE @]]

SplitNonRoot ==
  /\ work.op = "split" /\ Len(node[work.at].keys) > M /\ work.at # root
  /\ LET n == work.at
         l == New
         r == NewBut({l})
         max == Last(LeftHalf(n, r).keys)
         keys == WithKey(WithKey(node[root].keys, max), Last(RightHalf(n, l).keys))
         i == IF Search(keys, max) > Len(keys) THEN Len(keys) ELSE Search(keys, max)
     IN node' = Relinked(
          [node EXCEPT ![l] = LeftHalf(n, r), ![r] = RightHalf(n, l), ![n] = Blank,
                       ![root].keys = keys,
                       ![root].children = InsertAt([@ EXCEPT ![i] = l], i + 1, r)], n, l, r)
  /\ Done
  /\ UNCHANGED <<root, size>>

-----------------------------------------------------------------------------
(* Remove.  A key that is not there changes nothing.                       *)

\* Bug: the root keeps the greatest key that a leaf had.
ReplacedNot(nodes, n, old, new) == nodes

\* replaceParentKeyRecursively: the key of leaf n in the root, if it is old.
Replaced(nodes, n, old, new) ==
  LET i == SelectInSeq(nodes[root].children, LAMBDA m : m = n) IN
    IF i # 0 /\ nodes[root].keys[i] = old
    THEN [nodes EXCEPT ![root].keys[i] = new] ELSE nodes

\* From the leaf that is the root nothing has to be borrowed.
RemoveKey(k) ==
  /\ work.op = "none" /\ Has(k)
  /\ LET n == LeafOf(k)
         i == Search(RecordKeys(n), k)
         left == RemoveAt(node[n].keys, i)
         deleted == [node EXCEPT ![n].keys = left, ![n].records = RemoveAt(@, i)]
     IN IF n = root
        THEN node' = deleted /\ size' = size - 1 /\ UNCHANGED work
        ELSE /\ node' = IF left = <<>> THEN deleted
                        ELSE Replaced(deleted, n, node[n].keys[i], Last(left))
             /\ work' = [work EXCEPT !.op = "rebalance", !.at = n,
                                     !.key = IF left = <<>> THEN Nil ELSE Last(left)]
             /\ UNCHANGED size
  /\ UNCHANGED root

Short(n) == work.op = "rebalance" /\ work.at = n /\ Len(node[n].keys) < MinKey /\ work.key # Nil

\* The last key of a leaf is gone: the siblings are looked for with nil.
RemovePanic ==
  /\ work.op = "rebalance" /\ work.key = Nil
  /\ work' = [work EXCEPT !.op = "panicked"]
  /\ UNCHANGED <<root, node, size>>

SiblingAt(i) == IF i \in DOMAIN node[root].children THEN node[root].children[i] ELSE Nil
Place == Search(node[root].keys, work.key)
LeftSibling == SiblingAt(Place - 1)
RightSibling == SiblingAt(Place + 1)
Rich(n) == n # Nil /\ Len(node[n].keys) > MinKey

\* Remove returns, having done one of these to the tree.
Removed(done) ==
  /\ work' = [Idle EXCEPT !.since = work.since \cup done]
  /\ size' = size - 1
  /\ UNCHANGED root

RebalanceNone ==
  /\ work.op = "rebalance" /\ Len(node[work.at].keys) >= MinKey
  /\ Removed({})
  /\ UNCHANGED node

BorrowLeft ==
  \E n \in Addr :
    /\ Short(n) /\ Rich(LeftSibling)
    /\ LET left == LeftSibling IN
         node' = [node EXCEPT ![n].keys = <<Last(node[left].keys)>> \o @,
                              ![n].records = <<Last(node[left].records)>> \o @,
                              ![left].keys = Front(@), ![left].records = Front(@),
                              ![root].keys[Place - 1] = Last(Front(node[left].keys))]
    /\ Removed({})

\* Of the right sibling n gets the first key and the last record.
BorrowRight ==
  \E n \in Addr :
    /\ Short(n) /\ ~Rich(LeftSibling) /\ Rich(RightSibling)
    /\ LET right == RightSibling
           k == Head(node[right].keys)
           borrowed == [node EXCEPT ![n].keys = Append(@, k),
                                    ![n].records = Append(@, Last(node[right].records)),
                                    ![right].keys = Tail(@), ![right].records = Front(@)]
       IN node' = IF Index(n) # 0 /\ node[root].keys[Index(n)] < k
                  THEN [borrowed EXCEPT ![root].keys[Index(n)] = k] ELSE borrowed
    /\ Removed({"borrowRight"})

\* The nodes when from, a sibling of n at place i, has gone into n, with the key at
\* place j of the root; n has the given keys and records then.
Merged(n, from, i, j, keys, records) ==
  Replaced([node EXCEPT ![n].keys = keys, ![n].records = records, ![from] = Blank,
                        ![root].keys = RemoveAt(@, j), ![root].children = RemoveAt(@, i)],
           n, node[root].keys[j], Last(keys))

\* The leaf after the merged one goes on pointing back to the one that is gone.
MergeRight ==
  \E n \in Addr :
    /\ Short(n) /\ ~Rich(LeftSibling) /\ ~Rich(RightSibling) /\ RightSibling # Nil
    /\ LET right == RightSibling IN
         node' = [Merged(n, right, Place + 1, Place, node[n].keys \o node[right].keys,
                         node[n].records \o node[right].records)
                    EXCEPT ![n].next = node[right].next]
    /\ Removed({"merge"})

\* Bug: the records of the left leaf come after the others.
MergeLeftSwapped ==
  \E n \in Addr :
    /\ Short(n) /\ ~Rich(LeftSibling) /\ RightSibling = Nil /\ LeftSibling # Nil
    /\ LET left == LeftSibling IN
         node' = [Merged(n, left, Place - 1, Place - 1, node[left].keys \o node[n].keys,
                         node[n].records \o node[left].records)
                    EXCEPT ![n].prev = node[left].prev]
    /\ Removed({"merge"})

\* The leaf before goes on pointing to the one that is gone.
MergeLeft ==
  \E n \in Addr :
    /\ Short(n) /\ ~Rich(LeftSibling) /\ RightSibling = Nil /\ LeftSibling # Nil
    /\ LET left == LeftSibling IN
         node' = [Merged(n, left, Place - 1, Place - 1, node[left].keys \o node[n].keys,
                         node[left].records \o node[n].records)
                    EXCEPT ![n].prev = node[left].prev]
    /\ Removed({"merge"})

\* The only leaf below the root stays there.
Alone ==
  /\ work.op = "rebalance" /\ Short(work.at) /\ LeftSibling = Nil /\ RightSibling = Nil
  /\ Removed({})
  /\ UNCHANGED node

Clear ==
  /\ work.op = "none"
  /\ root' = Nil /\ size' = 0
  /\ node' = [n \in Addr |-> Blank]
  /\ work' = Idle

-----------------------------------------------------------------------------
(* Shape.                                                                  *)

Leaves == IF IsLeaf(root) THEN <<root>> ELSE node[root].children

Shape ==
  root # Nil =>
    /\ \A i \in DOMAIN Leaves : LET n == Leaves[i] IN
         /\ node[n].keys = RecordKeys(n)
         /\ Len(node[n].keys) <= M /\ (Len(Leaves) > 1 => Len(node[n].keys) >= MinKey)
         /\ \A j \in DOMAIN node[n].keys : j > 1 => node[n].keys[j - 1] < node[n].keys[j]
    /\ ~IsLeaf(root) =>
         node[root].keys = [i \in DOMAIN Leaves |-> Last(node[Leaves[i]].keys)]

\* The leaves are a chain in their order.
Linked ==
  root # Nil => \A i \in DOMAIN Leaves :
    /\ node[Leaves[i]].next = IF i = Len(Leaves) THEN Nil ELSE Leaves[i + 1]
    /\ node[Leaves[i]].prev = IF i = 1 THEN Nil ELSE Leaves[i - 1]

-----------------------------------------------------------------------------
Put(k, v) == PutFirst(k, v) \/ PutExisting(k, v) \/ PutNew(k, v)
Split == SplitNone \/ SplitRoot \/ SplitNonRoot
Rebalance ==
  \/ RebalanceNone \/ RemovePanic \/ Alone
  \/ BorrowLeft \/ BorrowRight \/ MergeRight \/ MergeLeft

Next ==
  /\ \/ \E k \in Key : RemoveKey(k) \/ \E v \in Value : Put(k, v)
     \/ Split \/ Rebalance \/ Clear
  /\ UNCHANGED M

Spec == Init /\ [][Next]_vars
=============================================================================
