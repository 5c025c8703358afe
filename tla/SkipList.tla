------------------------------ MODULE SkipList ------------------------------
(***************************************************************************)
(* The skip list of cache/list/skiplist.go: elements in order of their     *)
(* keys, in a lane for each level up to their own.  Insert is the only     *)
(* operation: Delete is empty and Find finds nothing.  A key that is there *)
(* makes a second element, which loses its place in lane 0 (doubled).      *)
(***************************************************************************)
EXTENDS Integers

CONSTANTS
  Key,      \* integers
  Value,
  Addr,     \* addresses of elements
  Nil,
  MaxLevel  \* maxLevel, 25 in the code

VARIABLES
  list,         \* SkipList.start and SkipList.end
  curMaxLevel,
  node,         \* the elements by address
  insert        \* the locals of the Insert in progress

vars == <<list, curMaxLevel, node, insert>>

Lanes == 0..MaxLevel - 1
NoLanes == [i \in Lanes |-> Nil]
Blank == [level |-> 0, key |-> Nil, value |-> Nil, prev |-> Nil, next |-> NoLanes]
Idle == [op |-> "none", elem |-> Nil, first |-> FALSE, last |-> FALSE,
         index |-> 0, current |-> Nil, doubled |-> FALSE]

TypeOK ==
  LET Place == Addr \cup {Nil} IN
  /\ list \in [start : [Lanes -> Place], end : [Lanes -> Place]]
  /\ curMaxLevel \in Lanes
  /\ node \in [Addr -> [level : Lanes, key : Key \cup {Nil}, value : Value \cup {Nil},
                        prev : Place, next : [Lanes -> Place]]]
  /\ insert \in [op : {"none", "search", "link"}, elem : Place, first : BOOLEAN,
                 last : BOOLEAN, index : Lanes, current : Place, doubled : BOOLEAN]

Init ==
  /\ list = [start |-> NoLanes, end |-> NoLanes]
  /\ curMaxLevel = 0
  /\ node = [n \in Addr |-> Blank]
  /\ insert = Idle

InUse == {n \in Addr : node[n].key # Nil}
New == CHOOSE n \in Addr \ InUse : TRUE
Empty == list.start[0] = Nil

-----------------------------------------------------------------------------
\* generateLevel may give every level, of which one above the present greatest is
\* the most that is taken.
Capped(level) == IF level > curMaxLevel THEN curMaxLevel + 1 ELSE level

\* findEntryIndex: the highest lane that begins before k, or else that of the element.
EntryIndex(k, level) ==
  LET entries == {i \in 0..IF level > curMaxLevel THEN level ELSE curMaxLevel :
                    (list.start[i] # Nil /\ k > node[list.start[i]].key) \/ i <= level}
  IN CHOOSE i \in entries : \A j \in entries : j <= i

Insert(k, v) ==
  /\ insert.op = "none" /\ InUse # Addr
  /\ \E generated \in Lanes :
       LET level == Capped(generated)
           first == Empty \/ k < node[list.start[0]].key
           last == Empty \/ k > node[list.end[0]].key
       IN /\ curMaxLevel' = IF level > curMaxLevel THEN level ELSE curMaxLevel
          /\ node' = [node EXCEPT ![New] = [Blank EXCEPT !.level = level, !.key = k, !.value = v]]
          /\ insert' = [op |-> IF first \/ last THEN "link" ELSE "search", elem |-> New,
                        first |-> first, last |-> last, index |-> EntryIndex(k, level),
                        current |-> Nil, doubled |-> \E n \in InUse : node[n].key = k]
  /\ UNCHANGED list

Elem == node[insert.elem]
NextNode ==
  IF insert.current = Nil THEN list.start[insert.index]
  ELSE node[insert.current].next[insert.index]

\* The search goes on along the lane.
Right ==
  /\ insert.op = "search" /\ NextNode # Nil /\ Elem.key > node[NextNode].key
  /\ insert' = [insert EXCEPT !.current = NextNode]
  /\ UNCHANGED <<list, curMaxLevel, node>>

GoDown ==
  insert' = IF insert.index = 0 THEN [insert EXCEPT !.op = "link", !.current = Nil]
            ELSE [insert EXCEPT !.index = @ - 1]

Before ==
  insert.index <= Elem.level /\ (NextNode # Nil => Elem.key < node[NextNode].key)

\* Bug: the element after the new one is still told the one before it.
BetweenNextOnly ==
  /\ insert.op = "search" /\ Before
  /\ LET i == insert.index IN
       node' = [n \in Addr |->
         [node[n] EXCEPT
            !.next[i] = IF n = insert.elem THEN NextNode
                        ELSE IF n = insert.current THEN insert.elem ELSE @,
            !.prev = IF i = 0 /\ n = insert.elem THEN insert.current ELSE @]]
  /\ GoDown
  /\ UNCHANGED <<list, curMaxLevel>>

\* The place in this lane is between current and the next element.
Between ==
  /\ insert.op = "search" /\ Before
  /\ LET i == insert.index IN
       node' = [n \in Addr |->
         [node[n] EXCEPT
            !.next[i] = IF n = insert.elem THEN NextNode
                        ELSE IF n = insert.current THEN insert.elem ELSE @,
            !.prev = IF i # 0 THEN @
                     ELSE IF n = insert.elem THEN insert.current
                     ELSE IF n = NextNode THEN insert.elem ELSE @]]
  /\ GoDown
  /\ UNCHANGED <<list, curMaxLevel>>

\* A lane above the element's, or one in which its key comes next.
Down ==
  /\ insert.op = "search" /\ ~Before
  /\ NextNode # Nil => Elem.key <= node[NextNode].key
  /\ GoDown
  /\ UNCHANGED <<list, curMaxLevel, node>>

\* The lanes of the element that it begins, and, when the last loop is over,
\* those that it ends.
Begins(i) ==
  i <= Elem.level /\ (list.start[i] = Nil \/ Elem.key < node[list.start[i]].key)
Follows == insert.last /\ ~insert.first
Ends(i) ==
  i <= Elem.level /\ (Follows \/ IF Begins(i) THEN list.start[i] = Nil ELSE Elem.next[i] = Nil)

\* The last loop, whose turns are each about a lane of their own.
Link ==
  /\ insert.op = "link"
  /\ list' = [start |-> [i \in Lanes |-> IF Begins(i) THEN insert.elem ELSE list.start[i]],
              end |-> [i \in Lanes |-> IF Ends(i) THEN insert.elem ELSE list.end[i]]]
  /\ node' = [n \in Addr |->
       [node[n] EXCEPT
          !.next = [i \in Lanes |->
             IF n = insert.elem /\ Begins(i) /\ ~Follows THEN list.start[i]
             ELSE IF Follows /\ i <= Elem.level /\ n = list.end[i] THEN insert.elem ELSE @[i]],
          !.prev = IF n = insert.elem /\ Follows THEN list.end[0]
                   ELSE IF n = list.start[0] /\ Begins(0) THEN insert.elem ELSE @]]
  /\ insert' = [Idle EXCEPT !.doubled = insert.doubled]
  /\ UNCHANGED curMaxLevel

Step == Right \/ Between \/ Down \/ Link

Next == Step \/ \E k \in Key, v \in Value : Insert(k, v)

Spec == Init /\ [][Next]_vars

-----------------------------------------------------------------------------
\* n is the element of S with the least key, or with the greatest: Nil if there is none.
IsFirst(n, S) == IF S = {} THEN n = Nil ELSE n \in S /\ \A m \in S : node[n].key <= node[m].key
IsLast(n, S)  == IF S = {} THEN n = Nil ELSE n \in S /\ \A m \in S : node[n].key >= node[m].key

\* Lane i has the elements of level i and above in the order of their keys: from
\* start, each has the next of them, up to end, and in lane 0 the one before it.
Laid(i) ==
  LET lane == {n \in InUse : node[n].level >= i} IN
  /\ IsFirst(list.start[i], lane) /\ IsLast(list.end[i], lane)
  /\ \A n \in lane :
       /\ IsFirst(node[n].next[i], {m \in lane : node[m].key > node[n].key})
       /\ i = 0 => IsLast(node[n].prev, {m \in lane : node[m].key < node[n].key})
=============================================================================
