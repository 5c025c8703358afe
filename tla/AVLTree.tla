------------------------------ MODULE AVLTree ------------------------------
(***************************************************************************)
(* The AVL tree of cache/avltree: nodes with a parent and two children,    *)
(* balanced by b, the height of the right child less that of the left.     *)
(*                                                                         *)
(* A call is a first step down to where a node is linked or unlinked, and  *)
(* then one step for each frame of the recursion that returns true and so  *)
(* has its node repaired.  There is one caller: the tree has no lock.      *)
(***************************************************************************)
EXTENDS Integers, FiniteSets, SequencesExt

CONSTANTS
  Key,    \* integers
  Value,
  Addr,   \* addresses of nodes, as many as there are keys
  Nil

VARIABLES
  root,  \* AvlTree.Root
  node,  \* the nodes by address
  size,  \* AvlTree.size
  fix    \* what the call in progress has still to repair

vars == <<root, node, size, fix>>

Side == 0 .. 1

\* A frame of the recursion: the node it is at, and the child it went to.
Frame == [of : Addr, side : Side]

Blank ==
  [key |-> Nil, value |-> Nil, parent |-> Nil, children |-> [a \in Side |-> Nil], b |-> 0]
Idle == [op |-> "none", path |-> <<>>]

TypeOK ==
  /\ root \in Addr \cup {Nil}
  /\ node \in [Addr -> [key : Key \cup {Nil}, value : Value \cup {Nil}, parent : Addr \cup {Nil},
                        children : [Side -> Addr \cup {Nil}], b : -1 .. 1]]
  /\ size \in Nat
  /\ fix \in [op : {"none", "put", "remove", "panic"}, path : Seq(Frame)]

Init == root = Nil /\ node = [n \in Addr |-> Blank] /\ size = 0 /\ fix = Idle

-----------------------------------------------------------------------------
(* Places.  A path from the root names the pointer at its end: &avl.Root,  *)
(* or the child pointer of its last frame.                                 *)

At(path) == IF path = <<>> THEN root ELSE node[Last(path).of].children[Last(path).side]

Towards(k, q) == IF k < node[q].key THEN 0 ELSE 1

\* The way to k, or to where it would be, a step at a time.
Further(k, path) ==
  LET q == At(path) IN
  IF q = Nil \/ node[q].key = k THEN path
  ELSE Append(path, [of |-> q, side |-> Towards(k, q)])
Path(k) ==
  LET way[n \in Nat] == IF n = 0 THEN <<>> ELSE Further(k, way[n - 1])
  IN way[Cardinality(Addr)]

\* From the end of path to the least node below it, a step at a time.
Lesser(path) ==
  IF node[At(path)].children[0] = Nil THEN path
  ELSE Append(path, [of |-> At(path), side |-> 0])
MinPath(path) ==
  LET way[n \in Nat] == IF n = 0 THEN path ELSE Lesser(way[n - 1])
  IN way[Cardinality(Addr)]

\* The pointer at the end of path becomes x; the nodes are nodes.
Store(nodes, path, x) ==
  IF path = <<>> THEN root' = x /\ node' = nodes
  ELSE /\ node' = [nodes EXCEPT ![Last(path).of].children[Last(path).side] = x]
       /\ root' = root

\* The frames of path have yet to repair their nodes.
Unwind(op, path) == IF path = <<>> THEN Idle ELSE [op |-> op, path |-> path]

Free == {n \in Addr : node[n] = Blank}
InUse == Addr \ Free
New == CHOOSE n \in Free : TRUE

-----------------------------------------------------------------------------
(* Rotations of nodes at s, which is too high on the side c.               *)

Direction(a) == 2 * a - 1
SideOf(c) == (c + 1) \div 2

\* The child r of s takes the place of s, and s that of the inner child of r.
Swing(nodes, c, s) ==
  LET a == SideOf(c)
      r == nodes[s].children[a]
  IN [nodes EXCEPT ![s].children[a] = nodes[r].children[1 - a], ![s].parent = r,
                   ![r].children[1 - a] = s, ![r].parent = nodes[s].parent]

\* Bug: the child that changes its parent is not told.
RotateForgets(nodes, c, s) == Swing(nodes, c, s)

Rotate(nodes, c, s) ==
  LET a == SideOf(c)
      inner == nodes[nodes[s].children[a]].children[1 - a]
      turned == Swing(nodes, c, s)
  IN IF inner = Nil THEN turned ELSE [turned EXCEPT ![inner].parent = s]

SingleRotate(nodes, c, s) ==
  LET r == nodes[s].children[SideOf(c)]
  IN [Rotate(nodes, c, s) EXCEPT ![s].b = 0, ![r].b = 0]

\* The child of s turns inwards first, and its inner child p is that of s.
Bent(nodes, c, s) ==
  LET r == nodes[s].children[SideOf(c)]
      p == nodes[r].children[1 - SideOf(c)]
  IN [Rotate(nodes, -c, r) EXCEPT ![s].children[SideOf(c)] = p]

\* Bug: the balance of r and s as after a single rotation.
DoubleRotateLevel(nodes, c, s) ==
  LET r == nodes[s].children[SideOf(c)]
      p == nodes[r].children[1 - SideOf(c)]
  IN [Rotate(Bent(nodes, c, s), c, s) EXCEPT ![s].b = 0, ![r].b = 0, ![p].b = 0]

\* The inner grandchild p of s takes the place of s.
DoubleRotate(nodes, c, s) ==
  LET r == nodes[s].children[SideOf(c)]
      p == nodes[r].children[1 - SideOf(c)]
      low == nodes[p].b
  IN [Rotate(Bent(nodes, c, s), c, s) EXCEPT
        ![s].b = IF low = c THEN -c ELSE 0,
        ![r].b = IF low = -c THEN c ELSE 0,
        ![p].b = 0]

\* s is too high on the side c, and its child there leans to the outside, or to
\* the inside; up is the way to s.
Repair(c, s, up) ==
  LET r == node[s].children[SideOf(c)]
  IN IF node[r].b = c THEN Store(SingleRotate(node, c, s), up, r)
     ELSE Store(DoubleRotate(node, c, s), up, node[r].children[1 - SideOf(c)])

-----------------------------------------------------------------------------
(* Put.                                                                    *)

PutExisting(k, v) ==
  /\ fix.op = "none"
  /\ At(Path(k)) # Nil
  /\ node' = [node EXCEPT ![At(Path(k))].value = v]
  /\ UNCHANGED <<root, size, fix>>

PutNew(k, v) ==
  /\ fix.op = "none"
  /\ At(Path(k)) = Nil /\ Free # {}
  /\ LET path == Path(k)
         n == New
         parent == IF path = <<>> THEN Nil ELSE Last(path).of
     IN /\ Store([node EXCEPT ![n] = [Blank EXCEPT !.key = k, !.value = v, !.parent = parent]],
                 path, n)
        /\ fix' = Unwind("put", path)
  /\ size' = size + 1

\* The frame that repairs now: its node, and the side that has become the
\* higher one.
Current == Last(fix.path).of
Heavy == IF fix.op = "put" THEN Direction(Last(fix.path).side) ELSE -Direction(Last(fix.path).side)
Up == Front(fix.path)
Balance == node[Current].b

\* One side of Current was higher by one, and is level or higher by two.
Returns(b) == node' = [node EXCEPT ![Current].b = b] /\ root' = root

\* Current itself is higher: its parent goes on.
PutHigher ==
  /\ fix.op = "put" /\ Balance = 0
  /\ Returns(Heavy)
  /\ fix' = Unwind("put", Up)
  /\ UNCHANGED size

PutLevel ==
  /\ fix.op = "put" /\ Balance = -Heavy
  /\ Returns(0)
  /\ fix' = Idle
  /\ UNCHANGED size

\* putFix looks at Children[(c+1/2)]: that is Children[c].
PutRotate ==
  /\ fix.op = "put" /\ Balance = Heavy /\ Heavy = 1
  /\ Repair(Heavy, Current, Up)
  /\ fix' = Idle
  /\ UNCHANGED size

PutPanic ==
  /\ fix.op = "put" /\ Balance = Heavy /\ Heavy = -1
  /\ fix' = [fix EXCEPT !.op = "panic"]
  /\ UNCHANGED <<root, node, size>>

-----------------------------------------------------------------------------
(* Remove.  A key that is not there changes nothing.                       *)

\* The node at the end of path, whose child on the side a is nil, gives its
\* place to the other child.
Spliced(nodes, path, a) ==
  LET q == At(path)
      child == nodes[q].children[1 - a]
      gone == [nodes EXCEPT ![q] = Blank]
  IN IF child = Nil THEN gone ELSE [gone EXCEPT ![child].parent = nodes[q].parent]

RemoveNode(k) ==
  /\ fix.op = "none"
  /\ LET path == Path(k)
         q == At(path)
     IN /\ q # Nil /\ node[q].children[1] = Nil
        /\ Store(Spliced(node, path, 1), path, node[q].children[0])
        /\ fix' = Unwind("remove", path)
  /\ size' = size - 1

\* The least node of the right subtree gives its key and value, and goes.
RemoveMin(k) ==
  /\ fix.op = "none"
  /\ LET path == Path(k)
         q == At(path)
         down == MinPath(Append(path, [of |-> q, side |-> 1]))
         least == At(down)
         moved == [node EXCEPT ![q].key = node[least].key, ![q].value = node[least].value]
     IN /\ q # Nil /\ node[q].children[1] # Nil
        /\ Store(Spliced(moved, down, 0), down, node[least].children[1])
        /\ fix' = Unwind("remove", down)
  /\ size' = size - 1

\* Current has its height still.
RemoveHigher ==
  /\ fix.op = "remove" /\ Balance = 0
  /\ Returns(Heavy)
  /\ fix' = Idle
  /\ UNCHANGED size

\* Current is lower: its parent goes on.
RemoveLevel ==
  /\ fix.op = "remove" /\ Balance = -Heavy
  /\ Returns(0)
  /\ fix' = Unwind("remove", Up)
  /\ UNCHANGED size

Sibling == node[Current].children[SideOf(Heavy)]

RemoveRotateLevel ==
  /\ fix.op = "remove" /\ Balance = Heavy /\ node[Sibling].b = 0
  /\ Store([Rotate(node, Heavy, Current) EXCEPT ![Sibling].b = -Heavy], Up, Sibling)
  /\ fix' = Idle
  /\ UNCHANGED size

RemoveRotate ==
  /\ fix.op = "remove" /\ Balance = Heavy /\ node[Sibling].b # 0
  /\ Repair(Heavy, Current, Up)
  /\ fix' = Unwind("remove", Up)
  /\ UNCHANGED size

Clear ==
  /\ fix.op = "none"
  /\ root' = Nil /\ size' = 0
  /\ node' = [n \in Addr |-> Blank]
  /\ UNCHANGED fix

-----------------------------------------------------------------------------
(* What does not change the tree.                                          *)

Get(k) == LET n == At(Path(k)) IN IF n = Nil THEN Nil ELSE node[n].value

\* A turn of the loop of Floor: the node it is at, and the best one so far.
FloorTurn(k, now) ==
  IF now.at = Nil THEN now
  ELSE IF node[now.at].key = k THEN [at |-> Nil, floor |-> now.at]
  ELSE [at |-> node[now.at].children[Towards(k, now.at)],
        floor |-> IF k < node[now.at].key THEN now.floor ELSE now.at]
Floor(k) ==
  LET loop[i \in Nat] == IF i = 0 THEN [at |-> root, floor |-> Nil] ELSE FloorTurn(k, loop[i - 1])
  IN loop[Cardinality(Addr)].floor

\* From n by children[a] to the end.
Farther(n, a) == IF node[n].children[a] = Nil THEN n ELSE node[n].children[a]
Farthest(n, a) ==
  LET way[i \in Nat] == IF i = 0 THEN n ELSE Farther(way[i - 1], a)
  IN way[Cardinality(Addr)]

\* Left and Right.
Bottom(a) == IF root = Nil THEN Nil ELSE Farthest(root, a)

\* walk1(a): the neighbour of n in order, by way of the parents.
Higher(n, a) ==
  LET p == node[n].parent IN IF p # Nil /\ node[p].children[a] = n THEN p ELSE n
Walk(n, a) ==
  LET climb[i \in Nat] == IF i = 0 THEN n ELSE Higher(climb[i - 1], a)
  IN IF node[n].children[a] # Nil THEN Farthest(node[n].children[a], 1 - a)
     ELSE node[climb[Cardinality(Addr)]].parent

-----------------------------------------------------------------------------
Put(k, v) == PutExisting(k, v) \/ PutNew(k, v)
RemoveKey(k) == RemoveNode(k) \/ RemoveMin(k)
PutFix == PutHigher \/ PutLevel \/ PutRotate \/ PutPanic
RemoveFix == RemoveHigher \/ RemoveLevel \/ RemoveRotateLevel \/ RemoveRotate

Next ==
  \/ \E k \in Key : RemoveKey(k) \/ \E v \in Value : Put(k, v)
  \/ PutFix \/ RemoveFix \/ Clear

Spec == Init /\ [][Next]_vars

-----------------------------------------------------------------------------
(* Properties of the tree between two calls.                               *)

\* The heights of the nodes, if those of their children are h.
Above(h) ==
  [n \in Addr \cup {Nil} |->
     IF n = Nil THEN 0
     ELSE LET l == h[node[n].children[0]]
              r == h[node[n].children[1]]
          IN 1 + IF l > r THEN l ELSE r]
Height(n) ==
  LET h[d \in Nat] == IF d = 0 THEN [m \in Addr \cup {Nil} |-> 0] ELSE Above(h[d - 1])
  IN h[Cardinality(Addr)][n]

\* After any sequence of Puts and Removes every node has its balance (avltree.go's
\* b, kept by putFix and removeFix).
Balanced ==
  fix.op = "none" =>
    \A n \in InUse :
      node[n].b = Height(node[n].children[1]) - Height(node[n].children[0])
=============================================================================
