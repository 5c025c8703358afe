---------------------------- MODULE SkipListMap -----------------------------
(***************************************************************************)
(* The skip list beside its map, which an Insert changes when it begins:   *)
(* root is the list, size its curMaxLevel and work its insert.             *)
(***************************************************************************)
EXTENDS MapTree

CONSTANTS SKeys, SAddr, MaxLevel

ASSUME SkipListAssumption ==
  /\ SKeys \subseteq Int /\ Nil \notin SKeys \cup {0} \cup SAddr
  /\ MaxLevel \in Nat \ {0}

S == INSTANCE SkipList WITH Key <- SKeys, Value <- SKeys \cup {0}, Addr <- SAddr,
       list <- root, curMaxLevel <- size, insert <- work
SMap == INSTANCE OrderedMap WITH Key <- SKeys

SkipListInit == tree = "skip" /\ order = 2 /\ SMap!Init /\ S!Init

\* What a list does that has a key twice is not followed.
SkipListNext ==
  /\ tree = "skip" /\ UNCHANGED <<tree, order>>
  /\ \/ \E k \in SKeys : \E v \in Given(k) : ~work.doubled /\ S!Insert(k, v) /\ SMap!Put(k, v)
     \/ S!Step /\ UNCHANGED map

SkipListSpec == SkipListInit /\ [][SkipListNext]_vars

-----------------------------------------------------------------------------
\* As long as no key is inserted twice, after each Insert the elements are those that
\* were inserted, with their values, and every lane has those of its level in order.
SkipListInOrder ==
  tree = "skip" =>
    /\ S!TypeOK
    /\ work.op = "none" /\ ~work.doubled =>
         /\ {<<node[n].key, node[n].value>> : n \in S!InUse} = {<<k, map[k]>> : k \in SMap!Keys}
         /\ \A i \in S!Lanes : S!Laid(i)
=============================================================================
