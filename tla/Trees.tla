------------------------------- MODULE Trees --------------------------------
(***************************************************************************)
(* The trees of cache/, each beside the map it stands for.  A behaviour is *)
(* that of one tree.                                                       *)
(***************************************************************************)
EXTENDS AVLMap, BTreeMap, BPlusMap, SkipListMap

Init == AVLInit \/ BTreeInit \/ BPlusInit \/ SkipListInit

Next == AVLNext \/ BTreeNext \/ BPlusNext \/ SkipListNext

Spec == Init /\ [][Next]_vars

\* A state up to the names of the addresses, for TLC: nodes are told apart by
\* what they hold.  The chain of the B+ tree counts up to the first merge.
Name(n) ==
  IF n = Nil THEN <<Nil>> ELSE IF tree = "avl" THEN <<node[n].key>>
  ELSE IF tree = "btree" THEN node[n].entries
  ELSE IF tree = "bplus" THEN node[n].records ELSE <<node[n].key, work.doubled>>
Children(n) == [i \in DOMAIN node[n].children |-> Name(node[n].children[i])]
AVLView ==
  <<work.op, [i \in DOMAIN work.path |-> <<Name(work.path[i].of), work.path[i].side>>],
    {<<Name(n), node[n].value, node[n].b, Name(node[n].parent),
       Name(node[n].children[0]), Name(node[n].children[1])>> : n \in AVL!InUse}>>
BView ==
  <<work.op, work.key, work.leaf, work.at = Nil, Name(work.at),
    {<<Name(n), Name(node[n].parent), Children(n)>> :
       n \in {m \in BAddr : m = root \/ node[m].entries # <<>> \/ node[m].children # <<>>}}>>
PView ==
  IF root = Nil THEN <<>>
  ELSE <<work.op, work.key, work.since, work.at = Nil, Name(work.at), node[root].keys, Children(root),
         [i \in DOMAIN node[root].children |->
            LET n == node[root].children[i] IN
              <<node[n].keys, IF "merge" \in work.since THEN {} ELSE
                              <<Name(node[n].prev), Name(node[n].next)>> >>]>>
SView ==
  LET Names(lanes) == [i \in DOMAIN lanes |-> Name(lanes[i])] IN
  <<size, Names(root.start), Names(root.end),
    work.op, Name(work.elem), work.index, Name(work.current),
    {<<Name(n), node[n].value, node[n].level, Name(node[n].prev), Names(node[n].next)>> : n \in S!InUse}>>
View ==
  <<tree, order, map,
    CASE tree = "avl"   -> <<size, Name(root), AVLView>>
      [] tree = "btree" -> <<size, Name(root), BView>>
      [] tree = "bplus" -> <<size, Name(root), PView>>
      [] tree = "skip"  -> SView>>
=============================================================================
