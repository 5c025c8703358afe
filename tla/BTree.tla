-------------------------------- MODULE BTree --------------------------------
(***************************************************************************)
(* The B-tree of cache/btree: nodes with a parent, entries in order and one *)
(* child more than entries, or none.                                       *)
(*                                                                         *)
(* A call is a first step, down to the node it changes, and then one step  *)
(* for each node that is split, or that borrows or merges, up the tree.    *)
(* There is one caller: Put has the lock, but Remove takes none, and two   *)
(* goroutines are kept apart by nothing if one of them removes.            *)
(***************************************************************************)
EXTENDS Integers, FiniteSets, SequencesExt

CONSTANTS
  Key,    \* integers
  Value,
  Addr,   \* addresses of nodes
  Nil

VARIABLES
  root,  \* BTree.Root
  node,  \* the nodes by address
  size,  \* BTree.size
  work,  \* what the call in progress has still to do
  M      \* BTree.m, which never changes: the most children of a node, at least 3

vars == <<root, node, size, work, M>>

Entry == [key : Key, value : Value]
Node == [parent : Addr \cup {Nil}, children : Seq(Addr), entries : Seq(Entry)]

Blank == [parent |-> Nil, children |-> <<>>, entries |-> <<>>]
Idle == [op |-> "none", at |-> Nil, key |-> Nil, leaf |-> FALSE]

TypeOK ==
  /\ root \in Addr \cup {Nil}
  /\ node \in [Addr -> Node]
  /\ size \in Nat
  /\ work \in [op : {"none", "split", "rebalance"}, at : Addr \cup {Nil},
               key : Key \cup {Nil}, leaf : BOOLEAN]

Init == root = Nil /\ node = [n \in Addr |-> Blank] /\ size = 0 /\ work = Idle

MaxEntries == M - 1
MinEntries == (M + 1) \div 2 - 1
Middle == (M - 1) \div 2

IsLeaf(n) == node[n].children = <<>>

-----------------------------------------------------------------------------
(* Search.  Positions count from 1 here.                                   *)

KeyAt(n, i) == node[n].entries[i].key

\* Where k is in node n, or would be: what the binary search finds in entries
\* that are in order.
Position(n, k) == 1 + Cardinality({i \in DOMAIN node[n].entries : KeyAt(n, i) < k})

Found(n, k) == \E i \in DOMAIN node[n].entries : KeyAt(n, i) = k

\* The node that has k, or the leaf that would.
Where(k) ==
  LET way[d \in Nat] ==
        IF d = 0 THEN root
        ELSE LET n == way[d - 1] IN
             IF Found(n, k) \/ IsLeaf(n) THEN n ELSE node[n].children[Position(n, k)]
  IN way[Cardinality(Addr)]

Get(k) ==
  IF root = Nil \/ ~Found(Where(k), k) THEN Nil
  ELSE node[Where(k)].entries[Position(Where(k), k)].value

Rightmost(n) ==
  LET way[d \in Nat] ==
        IF d = 0 THEN n
        ELSE LET m == way[d - 1] IN IF IsLeaf(m) THEN m ELSE Last(node[m].children)
  IN way[Cardinality(Addr)]

Free == {n \in Addr : n # root /\ node[n] = Blank}
New == CHOOSE n \in Free : TRUE
NewBut(ns) == CHOOSE n \in Free \ ns : TRUE

\* setParent: the nodes of the sequence ns have the parent p.
WithParent(nodes, ns, p) ==
  [n \in Range(ns) |-> [nodes[n] EXCEPT !.parent = p]] @@ nodes

-----------------------------------------------------------------------------
(* Put.                                                                    *)

\* n may have an entry too many.
Splitting(n) == [Idle EXCEPT !.op = "split", !.at = n]

PutFirst(k, v) ==
  /\ work.op = "none" /\ root = Nil
  /\ root' = New
  /\ node' = [node EXCEPT ![New].entries = <<[key |-> k, value |-> v]>>]
  /\ size' = 1
  /\ UNCHANGED work

PutExisting(k, v) ==
  /\ work.op = "none" /\ root # Nil
  /\ LET n == Where(k) IN
       /\ Found(n, k)
       /\ node' = [node EXCEPT ![n].entries[Position(n, k)] = [key |-> k, value |-> v]]
  /\ UNCHANGED <<root, size, work>>

PutNew(k, v) ==
  /\ work.op = "none" /\ root # Nil
  /\ LET n == Where(k) IN
       /\ ~Found(n, k)
       /\ node' = [node EXCEPT ![n].entries =
                     InsertAt(@, Position(n, k), [key |-> k, value |-> v])]
       /\ work' = Splitting(n)
  /\ size' = size + 1
  /\ UNCHANGED root

\* The first of the two halves of node n, and the second, for the parent p.
LeftHalf(n, p) ==
  [parent |-> p, entries |-> SubSeq(node[n].entries, 1, Middle),
   children |-> IF IsLeaf(n) THEN <<>> ELSE SubSeq(node[n].children, 1, Middle + 1)]
RightHalf(n, p) ==
  [parent |-> p, entries |-> SubSeq(node[n].entries, Middle + 2, Len(node[n].entries)),
   children |-> IF IsLeaf(n) THEN <<>>
                ELSE SubSeq(node[n].children, Middle + 2, Len(node[n].children))]

\* The nodes when left and right have taken the place of n.
Halved(n, left, right, p) ==
  [WithParent(WithParent(node, LeftHalf(n, p).children, left), RightHalf(n, p).children, right)
     EXCEPT ![n] = Blank, ![left] = LeftHalf(n, p), ![right] = RightHalf(n, p)]

SplitNone ==
  /\ work.op = "split" /\ Len(node[work.at].entries) <= MaxEntries
  /\ work' = Idle
  /\ UNCHANGED <<root, node, size>>

Oversize(n) == work.op = "split" /\ work.at = n /\ Len(node[n].entries) > MaxEntries

SplitRoot ==
  /\ Oversize(root)
  /\ LET left == New
         right == NewBut({left})
         top == NewBut({left, right})
     IN /\ root' = top
        /\ node' = [Halved(root, left, right, top) EXCEPT
             ![top] = [parent |-> Nil, children |-> <<left, right>>,
                       entries |-> <<node[root].entries[Middle + 1]>>]]
  /\ work' = Idle
  /\ UNCHANGED size

\* The entry in the middle goes to the parent, which may have too many then.
SplitNonRoot ==
  \E n \in Addr \ {root} :
    /\ Oversize(n)
    /\ LET left == New
           right == NewBut({left})
           p == node[n].parent
           e == node[n].entries[Middle + 1]
           at == Position(p, e.key)
           raised == [Halved(n, left, right, p) EXCEPT
             ![p].entries = InsertAt(@, at, e),
             ![p].children = InsertAt([@ EXCEPT ![at] = left], at + 1, right)]
       IN /\ node' = raised
          /\ work' = Splitting(p)
    /\ UNCHANGED <<root, size>>

-----------------------------------------------------------------------------
(* Remove.  A key that is not there changes nothing.                       *)

RemoveLeaf(k) ==
  /\ work.op = "none" /\ root # Nil
  /\ LET n == Where(k) IN
       /\ Found(n, k) /\ IsLeaf(n)
       /\ node' = [node EXCEPT ![n].entries = RemoveAt(@, Position(n, k))]
       /\ work' = [op |-> "rebalance", at |-> n, key |-> k, leaf |-> TRUE]
  /\ size' = size - 1
  /\ UNCHANGED root

\* The greatest entry on the left of k takes its place, and leaves its leaf.
RemoveInternal(k) ==
  /\ work.op = "none" /\ root # Nil
  /\ LET n == Where(k)
         leaf == Rightmost(node[n].children[Position(n, k)])
         e == Last(node[leaf].entries)
     IN /\ Found(n, k) /\ ~IsLeaf(n)
        /\ node' = [node EXCEPT ![n].entries[Position(n, k)] = e, ![leaf].entries = Front(@)]
        /\ work' = [op |-> "rebalance", at |-> leaf, key |-> e.key, leaf |-> FALSE]
  /\ size' = size - 1
  /\ UNCHANGED root

\* Place of the node that has lost an entry among the children of its parent,
\* looked for by a key it had.
Place(n) == Position(node[n].parent, work.key)

SiblingAt(n, i) ==
  IF node[n].parent # Nil /\ i \in DOMAIN node[node[n].parent].children
  THEN node[node[n].parent].children[i] ELSE Nil
LeftSibling(n) == IF node[n].parent = Nil THEN Nil ELSE SiblingAt(n, Place(n) - 1)
RightSibling(n) == IF node[n].parent = Nil THEN Nil ELSE SiblingAt(n, Place(n) + 1)

\* Bug: a sibling gives an entry it needs.
RichAtMinimum(n) == n # Nil /\ Len(node[n].entries) >= MinEntries

Rich(n) == n # Nil /\ Len(node[n].entries) > MinEntries

\* rebalance is at n, which has too few entries.
Short(n) ==
  work.op = "rebalance" /\ work.at = n /\ n # Nil /\ Len(node[n].entries) < MinEntries

\* rebalance returns, here or, with at = Nil, when an earlier step was its last.
\* Only the removal from a leaf looks at the root then.
Return ==
  /\ work.op = "rebalance"
  /\ work.at # Nil => Len(node[work.at].entries) >= MinEntries
  /\ IF work.leaf /\ node[root].entries = <<>>
     THEN root' = Nil /\ node' = [node EXCEPT ![root] = Blank]
     ELSE UNCHANGED <<root, node>>
  /\ work' = Idle
  /\ UNCHANGED size

BorrowLeft ==
  \E n \in Addr :
    /\ Short(n) /\ Rich(LeftSibling(n))
    /\ LET p == node[n].parent
           left == LeftSibling(n)
           i == Place(n) - 1
           moved == IF IsLeaf(left) THEN <<>> ELSE <<Last(node[left].children)>>
       IN node' = [WithParent(node, moved, n) EXCEPT
            ![n].entries = <<node[p].entries[i]>> \o @,
            ![n].children = moved \o @,
            ![p].entries[i] = Last(node[left].entries),
            ![left].entries = Front(@),
            ![left].children = IF moved = <<>> THEN @ ELSE Front(@)]
    /\ work' = [work EXCEPT !.at = Nil]
    /\ UNCHANGED <<root, size>>

BorrowRight ==
  \E n \in Addr :
    /\ Short(n) /\ ~Rich(LeftSibling(n)) /\ Rich(RightSibling(n))
    /\ LET p == node[n].parent
           right == RightSibling(n)
           i == Place(n)
           moved == IF IsLeaf(right) THEN <<>> ELSE <<Head(node[right].children)>>
       IN node' = [WithParent(node, moved, n) EXCEPT
            ![n].entries = Append(@, node[p].entries[i]),
            ![n].children = @ \o moved,
            ![p].entries[i] = Head(node[right].entries),
            ![right].entries = Tail(@),
            ![right].children = IF moved = <<>> THEN @ ELSE Tail(@)]
    /\ work' = [work EXCEPT !.at = Nil]
    /\ UNCHANGED <<root, size>>

\* Bug: a merge stops at the parent.
GoOnNever(nodes, n, key) ==
  /\ root' = root /\ node' = nodes
  /\ work' = [work EXCEPT !.at = Nil]

\* After a merge into n: n is the root if its parent was and is empty now;
\* otherwise the parent may have too few.
GoOn(nodes, n, key) ==
  LET p == nodes[n].parent IN
    IF p = root /\ nodes[root].entries = <<>>
    THEN /\ root' = n
         /\ node' = [nodes EXCEPT ![n].parent = Nil, ![p] = Blank]
         /\ work' = [work EXCEPT !.at = Nil]
    ELSE /\ root' = root /\ node' = nodes
         /\ work' = [work EXCEPT !.at = p, !.key = key]

\* The nodes when from, a sibling of n, has gone into n with entry i of their
\* parent; n has the given entries and children then.
Merged(n, from, i, entries, children) ==
  LET p == node[n].parent IN
    [WithParent(node, node[from].children, n) EXCEPT
       ![n].entries = entries, ![n].children = children, ![from] = Blank,
       ![p].entries = RemoveAt(@, i),
       ![p].children = RemoveAt(@, IF from = RightSibling(n) THEN i + 1 ELSE i)]

MergeRight ==
  \E n \in Addr :
    /\ Short(n) /\ ~Rich(LeftSibling(n)) /\ ~Rich(RightSibling(n)) /\ RightSibling(n) # Nil
    /\ LET right == RightSibling(n)
           i == Place(n)
           e == node[node[n].parent].entries[i]
       IN GoOn(Merged(n, right, i, Append(node[n].entries, e) \o node[right].entries,
                      node[n].children \o node[right].children), n, e.key)
    /\ UNCHANGED size

MergeLeft ==
  \E n \in Addr :
    /\ Short(n) /\ ~Rich(LeftSibling(n)) /\ RightSibling(n) = Nil /\ LeftSibling(n) # Nil
    /\ LET left == LeftSibling(n)
           i == Place(n) - 1
           e == node[node[n].parent].entries[i]
       IN GoOn(Merged(n, left, i, Append(node[left].entries, e) \o node[n].entries,
                      node[left].children \o node[n].children), n, e.key)
    /\ UNCHANGED size

\* The root may have too few.
Alone ==
  \E n \in Addr :
    /\ Short(n) /\ LeftSibling(n) = Nil /\ RightSibling(n) = Nil
    /\ GoOn(node, n, work.key)
    /\ UNCHANGED size

Clear ==
  /\ work.op = "none"
  /\ root' = Nil /\ size' = 0
  /\ node' = [n \in Addr |-> Blank]
  /\ UNCHANGED work

-----------------------------------------------------------------------------
Put(k, v) == PutFirst(k, v) \/ PutExisting(k, v) \/ PutNew(k, v)
RemoveKey(k) == RemoveLeaf(k) \/ RemoveInternal(k)
Split == SplitNone \/ SplitRoot \/ SplitNonRoot
Rebalance == Return \/ BorrowLeft \/ BorrowRight \/ MergeRight \/ MergeLeft \/ Alone

Next ==
  /\ \/ \E k \in Key : RemoveKey(k) \/ \E v \in Value : Put(k, v)
     \/ Split \/ Rebalance \/ Clear
  /\ UNCHANGED M

Spec == Init /\ [][Next]_vars

-----------------------------------------------------------------------------
(* Properties of the tree between two calls.                               *)

InUse == Addr \ Free

\* The nodes from n to the root.
Depth(n) ==
  LET up[d \in Nat] ==
        IF d = 0 THEN n
        ELSE IF up[d - 1] = Nil THEN Nil ELSE node[up[d - 1]].parent
  IN Cardinality({d \in 0 .. Cardinality(Addr) : up[d] # Nil})

\* Points 1 to 5 of the comment on BTree: how many children and keys a node has,
\* and leaves all at one depth; and each child has the node for its parent.
Shape ==
  work.op = "none" =>
    /\ \A n \in InUse :
         /\ Len(node[n].entries) \in (IF n = root THEN 1 ELSE MinEntries) .. MaxEntries
         /\ ~IsLeaf(n) => Len(node[n].children) = Len(node[n].entries) + 1
         /\ \A i \in DOMAIN node[n].children : node[node[n].children[i]].parent = n
         /\ node[n].parent = Nil <=> n = root
    /\ \A m, n \in InUse : IsLeaf(m) /\ IsLeaf(n) => Depth(m) = Depth(n)
=============================================================================
