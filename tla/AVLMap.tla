------------------------------- MODULE AVLMap -------------------------------
(***************************************************************************)
(* The AVL tree beside its map.                                            *)
(***************************************************************************)
EXTENDS MapTree

CONSTANTS AVLKeys, AVLAddr

ASSUME AVLAssumption ==
  /\ AVLKeys \subseteq Int /\ Nil \notin AVLKeys \cup {0} \cup AVLAddr
  /\ IsFiniteSet(AVLAddr)

AVL == INSTANCE AVLTree WITH Key <- AVLKeys, Value <- AVLKeys \cup {0}, Addr <- AVLAddr, fix <- work
AMap == INSTANCE OrderedMap WITH Key <- AVLKeys

AVLInit == tree = "avl" /\ order = 2 /\ AMap!Init /\ AVL!Init

AVLNext ==
  /\ tree = "avl" /\ UNCHANGED <<tree, order>>
  /\ \/ \E k \in AVLKeys : \E v \in Given(k) : AVL!Put(k, v) /\ AMap!Put(k, v)
     \/ \E k \in AVLKeys : AVL!RemoveKey(k) /\ AMap!Remove(k)
     \/ AVL!Clear /\ AMap!Clear
     \/ (AVL!PutFix \/ AVL!RemoveFix) /\ UNCHANGED map

AVLSpec == AVLInit /\ [][AVLNext]_vars

-----------------------------------------------------------------------------
AVLInOrder ==
  /\ \A k \in AVLKeys : KeyOf(AVL!Floor(k)) = AMap!Floor(k)
  /\ \A n \in AVL!InUse :
       /\ KeyOf(AVL!Walk(n, 1)) = AMap!After(node[n].key)
       /\ KeyOf(AVL!Walk(n, 0)) = AMap!Before(node[n].key)
  /\ \A k \in AMap!Keys :
       /\ KeyOf(AVL!Bottom(0)) <= k
       /\ KeyOf(AVL!Bottom(1)) >= k

\* At every moment, in the middle of a rotation or a repair too, Get finds the
\* keys that were put and not removed, with their last value, and Size counts
\* them; and between two calls Floor, Left, Right, and Next and Prev, which go by the
\* parents that rotations and removals have changed, answer in the order of the keys.
AVLIsTheMap ==
  tree = "avl" =>
    /\ size = Cardinality(AMap!Keys) /\ \A k \in AVLKeys : AVL!Get(k) = map[k]
    /\ work.op = "none" => AVLInOrder

\* Nodes keep their types, and between two calls, after any sequence of them, each
\* node has the balance of its subtrees' heights: -1, 0 or 1 (what putFix and
\* removeFix make of avltree.go's b).
AVLBalanced == tree = "avl" => AVL!TypeOK /\ AVL!Balanced
=============================================================================
