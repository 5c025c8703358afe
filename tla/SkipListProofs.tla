---------------------------- MODULE SkipListProofs ----------------------------
(***************************************************************************)
(* The skip list of SkipListMap, for any keys, addresses and levels: every   *)
(* Insert leaves every lane in the order of the keys.                      *)
(***************************************************************************)
EXTENDS SkipListMap, WellFoundedInduction, TLAPS

-----------------------------------------------------------------------------
(* The natural numbers are well-founded: a set of them has a least element, *)
(* and one that is bounded a greatest.                                      *)

LEMMA LeastNat ==
  ASSUME NEW T, T \subseteq Nat, T # {}
  PROVE  \E x \in T : \A y \in T : x <= y
<1>1. PICK R : R = OpToRel(<, Nat)
  OBVIOUS
<1>2. \A x, y \in Nat : <<y, x>> \in R <=> y < x
  BY <1>1 DEF OpToRel
<1>3. IsWellFoundedOn(R, Nat)
  BY <1>1, NatLessThanWellFounded
<1>4. PICK x \in T : \A y \in T : ~(<<y, x>> \in R)
  BY <1>3, WFMin
<1>5. ASSUME NEW y \in T PROVE x <= y
  <2>1. x \in Nat /\ y \in Nat
    OBVIOUS
  <2>2. ~(y < x)
    BY <1>2, <1>4, <2>1
  <2>. QED  BY <2>1, <2>2
<1>. QED  BY <1>4, <1>5

LEMMA GreatestNat ==
  ASSUME NEW b \in Nat, NEW T, T \subseteq 0..b, T # {}
  PROVE  \E x \in T : \A y \in T : y <= x
<1>1. PICK D : D = {d \in 0..b : b - d \in T}
  OBVIOUS
<1>2. D \subseteq Nat /\ D # {}
  <2>1. PICK x \in T : TRUE
    OBVIOUS
  <2>2. x \in 0..b /\ b - x \in 0..b /\ b - (b - x) = x
    OBVIOUS
  <2>. QED  BY <1>1, <2>1, <2>2
<1>3. PICK d \in D : \A c \in D : d <= c
  BY <1>2, LeastNat
<1>4. ASSUME NEW y \in T PROVE y <= b - d
  <2>1. y \in 0..b /\ b - y \in 0..b /\ b - (b - y) = y
    OBVIOUS
  <2>2. b - y \in D
    BY <1>1, <2>1
  <2>3. d <= b - y /\ d \in 0..b
    BY <1>1, <1>3, <2>2
  <2>. QED  BY <2>1, <2>3
<1>. QED  BY <1>1, <1>4

-----------------------------------------------------------------------------
(* A lane: the elements of X whose level, by lv, is i or above, in the      *)
(* order of their keys, by ky.                                              *)

\* x is the first of them, or the last; Nil when there is none.
FirstIn(x, X, i, lv, ky) ==
  IF x = Nil THEN \A m \in X : lv[m] < i
  ELSE x \in X /\ lv[x] >= i /\ \A m \in X : lv[m] >= i => ky[x] <= ky[m]
LastIn(x, X, i, lv, ky) ==
  IF x = Nil THEN \A m \in X : lv[m] < i
  ELSE x \in X /\ lv[x] >= i /\ \A m \in X : lv[m] >= i => ky[m] <= ky[x]

\* x is the one after n, or before it.
NextIn(x, n, X, i, lv, ky) ==
  IF x = Nil THEN \A m \in X : lv[m] >= i => ky[m] <= ky[n]
  ELSE /\ x \in X /\ lv[x] >= i /\ ky[n] < ky[x]
       /\ \A m \in X : lv[m] >= i /\ ky[n] < ky[m] => ky[x] <= ky[m]
PrevIn(x, n, X, i, lv, ky) ==
  IF x = Nil THEN \A m \in X : lv[m] >= i => ky[n] <= ky[m]
  ELSE /\ x \in X /\ lv[x] >= i /\ ky[x] < ky[n]
       /\ \A m \in X : lv[m] >= i /\ ky[m] < ky[n] => ky[m] <= ky[x]

\* Distinct keys, and levels.
Keyed(X, lv, ky) ==
  /\ Nil \notin X
  /\ \A n \in X : lv[n] \in Nat /\ ky[n] \in Int
  /\ \A m, n \in X : ky[m] = ky[n] => m = n

\* An element that has no part in a lane changes nothing there.
LEMMA Apart ==
  ASSUME NEW X, NEW e, NEW lv, NEW ky, NEW i \in Nat, Keyed(X \cup {e}, lv, ky), lv[e] < i
  PROVE  /\ \A x : FirstIn(x, X, i, lv, ky) <=> FirstIn(x, X \cup {e}, i, lv, ky)
         /\ \A x : LastIn(x, X, i, lv, ky) <=> LastIn(x, X \cup {e}, i, lv, ky)
         /\ \A n \in X : \A x : NextIn(x, n, X, i, lv, ky) <=> NextIn(x, n, X \cup {e}, i, lv, ky)
         /\ \A n \in X : \A x : PrevIn(x, n, X, i, lv, ky) <=> PrevIn(x, n, X \cup {e}, i, lv, ky)
BY DEF FirstIn, LastIn, NextIn, PrevIn, Keyed

\* A new element e between c and x, or before all others, in lane i.
LEMMA PutBetween ==
  ASSUME NEW X, NEW e, NEW lv, NEW ky, NEW i \in Nat, Keyed(X \cup {e}, lv, ky), e \notin X,
         lv[e] >= i, NEW c, NEW x,
         IF c = Nil THEN FirstIn(x, X, i, lv, ky)
         ELSE c \in X /\ lv[c] >= i /\ ky[c] < ky[e] /\ NextIn(x, c, X, i, lv, ky),
         x = Nil \/ ky[e] < ky[x]
  PROVE  /\ NextIn(x, e, X \cup {e}, i, lv, ky)
         /\ PrevIn(c, e, X \cup {e}, i, lv, ky)
         /\ c # Nil => NextIn(e, c, X \cup {e}, i, lv, ky)
         /\ x # Nil => PrevIn(e, x, X \cup {e}, i, lv, ky)
         /\ \A n \in X \ {c} : \A y : lv[n] >= i /\ NextIn(y, n, X, i, lv, ky) => NextIn(y, n, X \cup {e}, i, lv, ky)
         /\ \A n \in X \ {x} : \A y : lv[n] >= i /\ PrevIn(y, n, X, i, lv, ky) => PrevIn(y, n, X \cup {e}, i, lv, ky)
<1> USE DEF Keyed
<1>1. \A m \in X : lv[m] >= i => ky[m] # ky[e]
  OBVIOUS
<1>2. ASSUME NEW m \in X, lv[m] >= i, ky[m] < ky[e]
      PROVE  c # Nil /\ ky[m] <= ky[c]
  BY <1>2 DEF FirstIn, NextIn
<1>3. ASSUME NEW m \in X, lv[m] >= i, ky[e] < ky[m]
      PROVE  x # Nil /\ ky[x] <= ky[m]
  BY <1>3 DEF FirstIn, NextIn
<1>4. x # Nil => x \in X /\ lv[x] >= i
  BY DEF FirstIn, NextIn
<1>5. NextIn(x, e, X \cup {e}, i, lv, ky)
  BY <1>3, <1>4 DEF NextIn
<1>6. PrevIn(c, e, X \cup {e}, i, lv, ky)
  BY <1>1, <1>2 DEF PrevIn
<1>7. c # Nil => NextIn(e, c, X \cup {e}, i, lv, ky)
  BY <1>1, <1>2 DEF NextIn
<1>8. x # Nil => PrevIn(e, x, X \cup {e}, i, lv, ky)
  BY <1>1, <1>3, <1>4 DEF PrevIn
<1>9. ASSUME NEW n \in X \ {c}, NEW y, lv[n] >= i, NextIn(y, n, X, i, lv, ky)
      PROVE  NextIn(y, n, X \cup {e}, i, lv, ky)
  <2>1. CASE ky[e] < ky[n]
    BY <1>9, <2>1 DEF NextIn
  <2>2. CASE ky[n] < ky[e]
    <3>1. c \in X /\ lv[c] >= i /\ ky[n] < ky[c] /\ ky[c] < ky[e]
      BY <1>2, <1>9, <2>2
    <3>2. y # Nil /\ ky[y] <= ky[c] /\ y \in X
      BY <1>9, <3>1 DEF NextIn
    <3>. QED  BY <1>9, <3>1, <3>2 DEF NextIn
  <2>. QED  BY <1>1, <1>9, <2>1, <2>2
<1>10. ASSUME NEW n \in X \ {x}, NEW y, lv[n] >= i, PrevIn(y, n, X, i, lv, ky)
       PROVE  PrevIn(y, n, X \cup {e}, i, lv, ky)
  <2>1. CASE ky[n] < ky[e]
    BY <1>10, <2>1 DEF PrevIn
  <2>2. CASE ky[e] < ky[n]
    <3>1. x \in X /\ lv[x] >= i /\ ky[x] < ky[n] /\ ky[e] < ky[x]
      BY <1>3, <1>4, <1>10, <2>2
    <3>2. y # Nil /\ ky[x] <= ky[y] /\ y \in X
      BY <1>10, <3>1 DEF PrevIn
    <3>. QED  BY <1>10, <3>1, <3>2 DEF PrevIn
  <2>. QED  BY <1>1, <1>10, <2>1, <2>2
<1>. QED  BY <1>5, <1>6, <1>7, <1>8, <1>9, <1>10

\* A new element after all others.
LEMMA PutLast ==
  ASSUME NEW X, NEW e, NEW lv, NEW ky, NEW i \in Nat, Keyed(X \cup {e}, lv, ky), e \notin X,
         lv[e] >= i, NEW c, LastIn(c, X, i, lv, ky), \A n \in X : lv[n] >= i => ky[n] < ky[e]
  PROVE  /\ NextIn(Nil, e, X \cup {e}, i, lv, ky)
         /\ PrevIn(c, e, X \cup {e}, i, lv, ky)
         /\ c # Nil => NextIn(e, c, X \cup {e}, i, lv, ky)
         /\ \A n \in X \ {c} : \A y : lv[n] >= i /\ NextIn(y, n, X, i, lv, ky) => NextIn(y, n, X \cup {e}, i, lv, ky)
         /\ \A n \in X : \A y : lv[n] >= i /\ PrevIn(y, n, X, i, lv, ky) => PrevIn(y, n, X \cup {e}, i, lv, ky)
<1>1. c # Nil => c \in X /\ lv[c] >= i /\ NextIn(Nil, c, X, i, lv, ky) /\ ky[c] < ky[e]
  BY DEF LastIn, NextIn
<1>2. c = Nil => FirstIn(Nil, X, i, lv, ky)
  BY DEF LastIn, FirstIn
<1>3. \A n \in X : n # Nil
  BY DEF Keyed
<1>. QED  BY <1>1, <1>2, <1>3, PutBetween

\* What another choice of levels and keys elsewhere does not change.
LEMMA SameKeys ==
  ASSUME NEW X, NEW i, NEW lv, NEW ky, NEW lw, NEW kw, Nil \notin X,
         \A n \in X : lv[n] = lw[n] /\ ky[n] = kw[n]
  PROVE  /\ \A x : FirstIn(x, X, i, lv, ky) <=> FirstIn(x, X, i, lw, kw)
         /\ \A x : LastIn(x, X, i, lv, ky) <=> LastIn(x, X, i, lw, kw)
         /\ \A n \in X : \A x : NextIn(x, n, X, i, lv, ky) <=> NextIn(x, n, X, i, lw, kw)
         /\ \A n \in X : \A x : PrevIn(x, n, X, i, lv, ky) <=> PrevIn(x, n, X, i, lw, kw)
BY DEF FirstIn, LastIn, NextIn, PrevIn

\* The beginning of a lane that has the new element, and its end.
LEMMA PutFirst ==
  ASSUME NEW X, NEW e, NEW lv, NEW ky, NEW i \in Nat, Keyed(X \cup {e}, lv, ky), e \notin X,
         lv[e] >= i, NEW x, FirstIn(x, X, i, lv, ky)
  PROVE  FirstIn(IF x = Nil \/ ky[e] < ky[x] THEN e ELSE x, X \cup {e}, i, lv, ky)
BY DEF FirstIn, Keyed

LEMMA PutEnd ==
  ASSUME NEW X, NEW e, NEW lv, NEW ky, NEW i \in Nat, Keyed(X \cup {e}, lv, ky), e \notin X,
         lv[e] >= i, NEW x, LastIn(x, X, i, lv, ky)
  PROVE  /\ (\A n \in X : lv[n] >= i => ky[n] < ky[e]) => LastIn(e, X \cup {e}, i, lv, ky)
         /\ (\E n \in X : lv[n] >= i /\ ky[e] < ky[n]) => LastIn(x, X \cup {e}, i, lv, ky)
BY DEF LastIn, Keyed

-----------------------------------------------------------------------------
(* The invariant.  The lanes are in order without the element of the Insert *)
(* in progress, and, as far as the search has come down, with it.           *)

lv == [n \in SAddr |-> node[n].level]
ky == [n \in SAddr |-> node[n].key]

\* The elements without the one of the Insert in progress.
Old == S!InUse \ {work.elem}

\* The search has found the place in lane i; it has found them all.
Searched == work.op = "link" /\ ~work.first /\ ~work.last
Done(i) == IF work.op = "search" THEN i > work.index ELSE Searched
With(i) == IF Done(i) THEN S!InUse ELSE Old

Elements ==
  /\ work.op = "none" <=> work.elem = Nil
  /\ work.elem \in S!InUse \cup {Nil}
  /\ \A m, n \in S!InUse : ky[m] = ky[n] => m = n

Contents ==
  /\ \A n \in S!InUse : map[ky[n]] = node[n].value /\ node[n].value # Nil
  /\ \A k \in SKeys : map[k] # Nil => \E n \in S!InUse : ky[n] = k

Bounds ==
  \A i \in S!Lanes : FirstIn(root.start[i], Old, i, lv, ky) /\ LastIn(root.end[i], Old, i, lv, ky)

Nexts ==
  \A i \in S!Lanes :
    /\ \A n \in Old : lv[n] >= i => NextIn(node[n].next[i], n, With(i), i, lv, ky)
    /\ work.elem # Nil /\ lv[work.elem] >= i =>
         IF Done(i) THEN NextIn(node[work.elem].next[i], work.elem, S!InUse, i, lv, ky)
         ELSE node[work.elem].next[i] = Nil

Prevs ==
  /\ \A n \in Old : PrevIn(node[n].prev, n, IF Searched THEN S!InUse ELSE Old, 0, lv, ky)
  /\ work.elem # Nil =>
       IF Searched THEN PrevIn(node[work.elem].prev, work.elem, S!InUse, 0, lv, ky)
       ELSE node[work.elem].prev = Nil

Search ==
  /\ work.elem # Nil =>
       /\ work.first <=> \A n \in Old : ky[work.elem] < ky[n]
       /\ work.last <=> \A n \in Old : ky[n] < ky[work.elem]
  /\ work.op = "search" =>
       /\ ~work.first /\ ~work.last
       /\ work.current # Nil =>
            work.current \in Old /\ lv[work.current] >= work.index /\ ky[work.current] < ky[work.elem]

Typed == tree = "skip" /\ S!TypeOK /\ map \in [SKeys -> SKeys \cup {0, Nil}]

Ordered == Elements /\ Contents /\ Bounds /\ Nexts /\ Prevs /\ Search

LInv == Typed /\ (~work.doubled => Ordered)

-----------------------------------------------------------------------------
(* Types.                                                                   *)

LEMMA ElementTypes ==
  ASSUME Typed
  PROVE  /\ \A n \in SAddr : lv[n] = node[n].level /\ ky[n] = node[n].key /\ lv[n] \in Nat
         /\ S!InUse \subseteq SAddr
         /\ \A n \in S!InUse : ky[n] \in SKeys /\ ky[n] \in Int
         /\ Nil \notin S!InUse
         /\ S!Lanes \subseteq Nat /\ 0 \in S!Lanes
         /\ Elements => Keyed(S!InUse, lv, ky)
<1>1. \A n \in SAddr : node[n] \in [level : S!Lanes, key : SKeys \cup {Nil}, value : (SKeys \cup {0}) \cup {Nil},
                        prev : SAddr \cup {Nil}, next : [S!Lanes -> SAddr \cup {Nil}]]
  BY DEF Typed, S!TypeOK
<1>2. S!Lanes \subseteq Nat /\ 0 \in S!Lanes
  BY SkipListAssumption DEF S!Lanes
<1>3. \A n \in SAddr : lv[n] = node[n].level /\ ky[n] = node[n].key /\ lv[n] \in Nat
  BY <1>1, <1>2 DEF lv, ky
<1>4. S!InUse \subseteq SAddr /\ Nil \notin S!InUse
  BY SkipListAssumption DEF S!InUse
<1>5. \A n \in S!InUse : ky[n] \in SKeys /\ ky[n] \in Int
  BY <1>1, <1>3, SkipListAssumption DEF S!InUse
<1>6. Elements => Keyed(S!InUse, lv, ky)
  BY <1>3, <1>4, <1>5 DEF Elements, Keyed
<1>. QED  BY <1>2, <1>3, <1>4, <1>5, <1>6

LEMMA GreatestLane ==
  ASSUME NEW b \in Nat, NEW T, T \subseteq 0..b, T # {}
  PROVE  /\ (CHOOSE x \in T : \A y \in T : y <= x) \in T
         /\ \A y \in T : y <= (CHOOSE x \in T : \A z \in T : z <= x)
BY GreatestNat

\* Where an Insert enters: at its level or above, in a lane there is.
LEMMA Entry ==
  ASSUME Typed, NEW k \in SKeys, NEW generated \in S!Lanes
  PROVE  /\ S!Capped(generated) \in S!Lanes
         /\ S!EntryIndex(k, S!Capped(generated)) \in S!Lanes
         /\ S!EntryIndex(k, S!Capped(generated)) >= S!Capped(generated)
         /\ (IF S!Capped(generated) > size THEN S!Capped(generated) ELSE size) \in S!Lanes
<1>1. PICK level : level = S!Capped(generated)
  OBVIOUS
<1>2. size \in S!Lanes
  BY DEF Typed, S!TypeOK
<1>3. level \in S!Lanes
  BY <1>1, <1>2, SkipListAssumption DEF S!Capped, S!Lanes
<1>4. PICK b : b = IF level > size THEN level ELSE size
  OBVIOUS
<1>5. b \in S!Lanes /\ b \in Nat /\ level \in 0..b /\ level \in Nat
  BY <1>2, <1>3, <1>4, SkipListAssumption DEF S!Lanes
<1>6. PICK T : T = {i \in 0..b : (root.start[i] # Nil /\ k > node[root.start[i]].key) \/ i <= level}
  OBVIOUS
<1>7. T \subseteq 0..b /\ level \in T
  BY <1>5, <1>6
<1>8. S!EntryIndex(k, level) = CHOOSE i \in T : \A j \in T : j <= i
  BY <1>4, <1>6 DEF S!EntryIndex
<1>9. S!EntryIndex(k, level) \in T /\ level <= S!EntryIndex(k, level)
  BY <1>5, <1>7, <1>8, GreatestLane
<1>10. S!EntryIndex(k, level) \in S!Lanes /\ S!EntryIndex(k, level) >= level
  <2>1. PICK x \in 0..b : x = S!EntryIndex(k, level)
    BY <1>7, <1>9
  <2>2. x \in S!Lanes /\ x >= level
    BY <1>5, <1>9, <2>1, SkipListAssumption DEF S!Lanes
  <2>. QED  BY <2>1, <2>2
<1>. QED  BY <1>1, <1>3, <1>4, <1>5, <1>10

LEMMA TypedInit == SkipListInit => Typed
<1> SUFFICES ASSUME SkipListInit PROVE Typed
  OBVIOUS
<1>1. 0 \in S!Lanes /\ S!NoLanes \in [S!Lanes -> SAddr \cup {Nil}]
  BY SkipListAssumption DEF S!Lanes, S!NoLanes
<1>2. map \in [SKeys -> SKeys \cup {0, Nil}]
  BY DEF SkipListInit, SMap!Init
<1>. QED  BY <1>1, <1>2 DEF SkipListInit, Typed, S!Init, S!TypeOK, S!Blank, S!Idle

LEMMA TypedInsert ==
  ASSUME Typed, NEW k \in SKeys, NEW v \in Given(k), S!Insert(k, v), SMap!Put(k, v), tree' = tree
  PROVE  Typed'
<1>1. v \in SKeys \cup {0} /\ k # Nil
  BY SkipListAssumption DEF Given
<1>2. map' \in [SKeys -> SKeys \cup {0, Nil}]
  BY <1>1, SkipListAssumption DEF Typed, SMap!Put
<1>3. S!New \in SAddr
  BY DEF S!Insert, S!New, S!InUse
<1>4. PICK generated \in S!Lanes :
        LET level == S!Capped(generated)
            first == S!Empty \/ k < node[root.start[0]].key
            last == S!Empty \/ k > node[root.end[0]].key
        IN /\ size' = IF level > size THEN level ELSE size
           /\ node' = [node EXCEPT ![S!New] = [S!Blank EXCEPT !.level = level, !.key = k, !.value = v]]
           /\ work' = [op |-> IF first \/ last THEN "link" ELSE "search", elem |-> S!New,
                        first |-> first, last |-> last, index |-> S!EntryIndex(k, level),
                        current |-> Nil, doubled |-> \E n \in S!InUse : node[n].key = k]
  BY DEF S!Insert
<1>5. S!NoLanes \in [S!Lanes -> SAddr \cup {Nil}]
  BY DEF S!NoLanes
<1>6. size' \in S!Lanes
  BY <1>4, Entry
<1>7. [S!Blank EXCEPT !.level = S!Capped(generated), !.key = k, !.value = v]
        \in [level : S!Lanes, key : SKeys \cup {Nil}, value : (SKeys \cup {0}) \cup {Nil},
             prev : SAddr \cup {Nil}, next : [S!Lanes -> SAddr \cup {Nil}]]
  BY <1>1, <1>5, Entry DEF S!Blank
<1>8. node' \in [SAddr -> [level : S!Lanes, key : SKeys \cup {Nil}, value : (SKeys \cup {0}) \cup {Nil},
                        prev : SAddr \cup {Nil}, next : [S!Lanes -> SAddr \cup {Nil}]]]
  BY <1>3, <1>4, <1>7 DEF Typed, S!TypeOK
<1>9. work' \in [op : {"none", "search", "link"}, elem : SAddr \cup {Nil}, first : BOOLEAN,
                 last : BOOLEAN, index : S!Lanes, current : SAddr \cup {Nil}, doubled : BOOLEAN]
  BY <1>3, <1>4, Entry
<1>10. root' = root
  BY DEF S!Insert
<1>. QED  BY <1>2, <1>6, <1>8, <1>9, <1>10 DEF Typed, S!TypeOK

LEMMA TypedGoDown ==
  ASSUME Typed, S!GoDown
  PROVE  work' \in [op : {"none", "search", "link"}, elem : SAddr \cup {Nil}, first : BOOLEAN,
                 last : BOOLEAN, index : S!Lanes, current : SAddr \cup {Nil}, doubled : BOOLEAN]
<1>1. work \in [op : {"none", "search", "link"}, elem : SAddr \cup {Nil}, first : BOOLEAN,
                 last : BOOLEAN, index : S!Lanes, current : SAddr \cup {Nil}, doubled : BOOLEAN]
  BY DEF Typed, S!TypeOK
<1>2. work.index \in S!Lanes /\ (work.index # 0 => work.index - 1 \in S!Lanes)
  BY <1>1, SkipListAssumption DEF S!Lanes
<1>3. CASE work.index = 0
  BY <1>1, <1>3 DEF S!GoDown
<1>4. CASE work.index # 0
  BY <1>1, <1>2, <1>4 DEF S!GoDown
<1>. QED  BY <1>3, <1>4

LEMMA NextNodeType == Typed => S!NextNode \in SAddr \cup {Nil}
BY DEF Typed, S!TypeOK, S!NextNode

LEMMA TypedBetween ==
  ASSUME Typed, S!Between, tree' = tree, map' = map
  PROVE  Typed'
<1>1. PICK x \in SAddr \cup {Nil} : x = S!NextNode
  BY NextNodeType
<1>2. work \in [op : {"none", "search", "link"}, elem : SAddr \cup {Nil}, first : BOOLEAN,
                 last : BOOLEAN, index : S!Lanes, current : SAddr \cup {Nil}, doubled : BOOLEAN]
  BY DEF Typed, S!TypeOK
<1>3. PICK i \in S!Lanes : i = work.index
  BY <1>2
<1>4. node' = [n \in SAddr |->
         [node[n] EXCEPT
            !.next[i] = IF n = work.elem THEN x ELSE IF n = work.current THEN work.elem ELSE @,
            !.prev = IF i # 0 THEN @
                     ELSE IF n = work.elem THEN work.current
                     ELSE IF n = x THEN work.elem ELSE @]]
  BY <1>1, <1>3 DEF S!Between
<1>5. \A n \in SAddr : node[n] \in [level : S!Lanes, key : SKeys \cup {Nil}, value : (SKeys \cup {0}) \cup {Nil},
                        prev : SAddr \cup {Nil}, next : [S!Lanes -> SAddr \cup {Nil}]]
  BY DEF Typed, S!TypeOK
<1>6. node' \in [SAddr -> [level : S!Lanes, key : SKeys \cup {Nil}, value : (SKeys \cup {0}) \cup {Nil},
                        prev : SAddr \cup {Nil}, next : [S!Lanes -> SAddr \cup {Nil}]]]
  <2>1. work.elem \in SAddr \cup {Nil} /\ work.current \in SAddr \cup {Nil}
    BY <1>2
  <2>2. ASSUME NEW n \in SAddr
        PROVE  node'[n] \in [level : S!Lanes, key : SKeys \cup {Nil}, value : (SKeys \cup {0}) \cup {Nil},
                        prev : SAddr \cup {Nil}, next : [S!Lanes -> SAddr \cup {Nil}]]
    <3>1. PICK y \in SAddr \cup {Nil} :
            y = IF n = work.elem THEN x ELSE IF n = work.current THEN work.elem ELSE node[n].next[i]
      BY <1>5, <2>1
    <3>2. PICK z \in SAddr \cup {Nil} :
            z = IF i # 0 THEN node[n].prev
                ELSE IF n = work.elem THEN work.current ELSE IF n = x THEN work.elem ELSE node[n].prev
      BY <1>5, <2>1
    <3>3. node'[n] = [node[n] EXCEPT !.next[i] = y, !.prev = z]
      BY <1>4, <3>1, <3>2, <1>5
    <3>4. PICK lanes \in [S!Lanes -> SAddr \cup {Nil}] : lanes = [node[n].next EXCEPT ![i] = y]
      BY <1>5
    <3>5. node'[n] = [node[n] EXCEPT !.next = lanes, !.prev = z]
      BY <1>5, <3>3, <3>4
    <3>. QED  BY <1>5, <3>5
  <2>3. node' = [n \in SAddr |-> node'[n]]
    BY <1>4
  <2>. QED  BY <2>2, <2>3
<1>7. root' = root /\ size' = size
  BY DEF S!Between
<1>8. S!GoDown
  BY DEF S!Between
<1>. QED  BY <1>6, <1>7, <1>8, TypedGoDown DEF Typed, S!TypeOK

LEMMA TypedLink ==
  ASSUME Typed, S!Link, tree' = tree, map' = map
  PROVE  Typed'
<1>1. work.elem \in SAddr \cup {Nil} /\ work.doubled \in BOOLEAN
  BY DEF Typed, S!TypeOK
<1>2. \A i \in S!Lanes : root.start[i] \in SAddr \cup {Nil} /\ root.end[i] \in SAddr \cup {Nil}
  BY DEF Typed, S!TypeOK
<1>3. 0 \in S!Lanes
  BY ElementTypes
<1>4. root' \in [start : [S!Lanes -> SAddr \cup {Nil}], end : [S!Lanes -> SAddr \cup {Nil}]]
  BY <1>1, <1>2 DEF S!Link
<1>5. \A n \in SAddr : node[n] \in [level : S!Lanes, key : SKeys \cup {Nil}, value : (SKeys \cup {0}) \cup {Nil},
                        prev : SAddr \cup {Nil}, next : [S!Lanes -> SAddr \cup {Nil}]]
  BY DEF Typed, S!TypeOK
<1>6. node' = [n \in SAddr |->
       [node[n] EXCEPT
          !.next = [i \in S!Lanes |->
             IF n = work.elem /\ S!Begins(i) /\ ~S!Follows THEN root.start[i]
             ELSE IF S!Follows /\ i <= S!Elem.level /\ n = root.end[i] THEN work.elem ELSE @[i]],
          !.prev = IF n = work.elem /\ S!Follows THEN root.end[0]
                   ELSE IF n = root.start[0] /\ S!Begins(0) THEN work.elem ELSE @]]
  BY DEF S!Link
<1>7. ASSUME NEW n \in SAddr
      PROVE  node'[n] \in [level : S!Lanes, key : SKeys \cup {Nil}, value : (SKeys \cup {0}) \cup {Nil},
                        prev : SAddr \cup {Nil}, next : [S!Lanes -> SAddr \cup {Nil}]]
  <2>1. [i \in S!Lanes |->
             IF n = work.elem /\ S!Begins(i) /\ ~S!Follows THEN root.start[i]
             ELSE IF S!Follows /\ i <= S!Elem.level /\ n = root.end[i] THEN work.elem ELSE node[n].next[i]]
          \in [S!Lanes -> SAddr \cup {Nil}]
    BY <1>1, <1>2, <1>5
  <2>2. (IF n = work.elem /\ S!Follows THEN root.end[0]
         ELSE IF n = root.start[0] /\ S!Begins(0) THEN work.elem ELSE node[n].prev) \in SAddr \cup {Nil}
    BY <1>1, <1>2, <1>3, <1>5
  <2>. QED  BY <1>5, <1>6, <2>1, <2>2
<1>8. node' \in [SAddr -> [level : S!Lanes, key : SKeys \cup {Nil}, value : (SKeys \cup {0}) \cup {Nil},
                        prev : SAddr \cup {Nil}, next : [S!Lanes -> SAddr \cup {Nil}]]]
  BY <1>6, <1>7
<1>9. work' \in [op : {"none", "search", "link"}, elem : SAddr \cup {Nil}, first : BOOLEAN,
                 last : BOOLEAN, index : S!Lanes, current : SAddr \cup {Nil}, doubled : BOOLEAN]
  BY <1>1, <1>3 DEF S!Link, S!Idle
<1>10. size' = size
  BY DEF S!Link
<1>. QED  BY <1>4, <1>8, <1>9, <1>10 DEF Typed, S!TypeOK

LEMMA TypedNext == Typed /\ [SkipListNext]_vars => Typed'
<1> SUFFICES ASSUME Typed, [SkipListNext]_vars PROVE Typed'
  OBVIOUS
<1>1. CASE UNCHANGED vars
  BY <1>1 DEF vars, Typed, S!TypeOK
<1>2. ASSUME NEW k \in SKeys, NEW v \in Given(k), S!Insert(k, v), SMap!Put(k, v), tree' = tree
      PROVE  Typed'
  BY <1>2, TypedInsert
<1>3. CASE S!Right /\ UNCHANGED <<tree, map>>
  <2>1. S!NextNode \in SAddr \cup {Nil}
    BY NextNodeType
  <2>. QED  BY <1>3, <2>1 DEF Typed, S!TypeOK, S!Right
<1>4. CASE S!Between /\ UNCHANGED <<tree, map>>
  BY <1>4, TypedBetween
<1>5. CASE S!Down /\ UNCHANGED <<tree, map>>
  BY <1>5, TypedGoDown DEF S!Down, Typed, S!TypeOK
<1>6. CASE S!Link /\ UNCHANGED <<tree, map>>
  BY <1>6, TypedLink
<1>. QED  BY <1>1, <1>2, <1>3, <1>4, <1>5, <1>6 DEF SkipListNext, S!Step

-----------------------------------------------------------------------------
(* The steps of the search.                                                 *)

LEMMA SameElements ==
  ASSUME \A n \in SAddr : node'[n].level = node[n].level /\ node'[n].key = node[n].key
                            /\ node'[n].value = node[n].value,
         map' = map
  PROVE  /\ lv' = lv /\ ky' = ky /\ S!InUse' = S!InUse
         /\ Contents => Contents'
<1>1. lv' = lv
  BY DEF lv
<1>2. ky' = ky
  BY DEF ky
<1>3. S!InUse' = S!InUse /\ S!InUse \subseteq SAddr
  BY DEF S!InUse
<1>4. Contents => Contents'
  BY <1>2, <1>3 DEF Contents
<1>. QED  BY <1>1, <1>2, <1>3, <1>4

\* What the search knows of lane index: c is before the new element, and x after c.
LEMMA AtIndex ==
  ASSUME Typed, Ordered, work.op = "search"
  PROVE  /\ work.elem \in S!InUse /\ work.elem # Nil /\ work.elem \notin Old
         /\ S!InUse = Old \cup {work.elem} /\ Old \subseteq S!InUse
         /\ Keyed(Old \cup {work.elem}, lv, ky)
         /\ work.index \in S!Lanes /\ work.index \in Nat
         /\ ~Done(work.index) /\ ~Searched
         /\ IF work.current = Nil THEN FirstIn(S!NextNode, Old, work.index, lv, ky)
            ELSE /\ work.current \in Old /\ lv[work.current] >= work.index
                 /\ ky[work.current] < ky[work.elem]
                 /\ NextIn(S!NextNode, work.current, Old, work.index, lv, ky)
         /\ S!NextNode # Nil => S!NextNode \in Old /\ lv[S!NextNode] >= work.index
         /\ S!Elem.key = ky[work.elem] /\ S!Elem.level = lv[work.elem]
         /\ S!NextNode # Nil => node[S!NextNode].key = ky[S!NextNode]
<1>1. work.elem \in S!InUse /\ work.elem # Nil
  BY ElementTypes DEF Ordered, Elements
<1>2. work.elem \notin Old /\ S!InUse = Old \cup {work.elem} /\ Old \subseteq S!InUse
  BY <1>1 DEF Old
<1>3. Keyed(Old \cup {work.elem}, lv, ky)
  BY <1>2, ElementTypes DEF Ordered
<1>4. work.index \in S!Lanes /\ work.index \in Nat
  BY ElementTypes DEF Typed, S!TypeOK
<1>5. ~Done(work.index) /\ ~Searched
  BY <1>4 DEF Done, Searched
<1>6. work.current = Nil => FirstIn(S!NextNode, Old, work.index, lv, ky)
  BY <1>4 DEF S!NextNode, Ordered, Bounds
<1>7. work.current # Nil =>
        /\ work.current \in Old /\ lv[work.current] >= work.index
        /\ ky[work.current] < ky[work.elem]
        /\ NextIn(S!NextNode, work.current, Old, work.index, lv, ky)
  BY <1>4, <1>5 DEF S!NextNode, Ordered, Search, Nexts, With
<1>8. S!NextNode # Nil => S!NextNode \in Old /\ lv[S!NextNode] >= work.index
  BY <1>6, <1>7 DEF FirstIn, NextIn
<1>9. S!Elem.key = ky[work.elem] /\ S!Elem.level = lv[work.elem]
  BY <1>1, ElementTypes DEF S!Elem
<1>10. S!NextNode # Nil => node[S!NextNode].key = ky[S!NextNode]
  BY <1>2, <1>8, ElementTypes
<1>. QED  BY <1>1, <1>2, <1>3, <1>4, <1>5, <1>6, <1>7, <1>8, <1>9, <1>10

LEMMA OrderedRight ==
  ASSUME Typed, Ordered, S!Right, map' = map
  PROVE  Ordered'
<1>1. PICK x : x = S!NextNode
  OBVIOUS
<1>2. work.op = "search" /\ x # Nil /\ S!Elem.key > node[x].key
  BY <1>1 DEF S!Right
<1>3. work' = [work EXCEPT !.current = x] /\ root' = root /\ node' = node
  BY <1>1 DEF S!Right
<1>4. /\ work'.op = work.op /\ work'.elem = work.elem /\ work'.first = work.first
      /\ work'.last = work.last /\ work'.index = work.index /\ work'.current = x
  BY <1>3 DEF Typed, S!TypeOK
<1>5. lv' = lv /\ ky' = ky /\ S!InUse' = S!InUse /\ Contents'
  BY <1>3, SameElements DEF Ordered
<1>6. Old' = Old /\ Searched' = Searched /\ \A i : Done(i)' = Done(i)
  BY <1>4, <1>5 DEF Old, Searched, Done
<1>7. \A i : With(i)' = With(i)
  BY <1>5, <1>6 DEF With
<1>8. Elements'
  BY <1>4, <1>5 DEF Ordered, Elements
<1>9. S!Lanes' = S!Lanes
  BY DEF S!Lanes
<1>10. Bounds'
  BY <1>3, <1>5, <1>6, <1>9 DEF Ordered, Bounds
<1>11. Nexts'
  BY <1>3, <1>4, <1>5, <1>6, <1>7, <1>9 DEF Ordered, Nexts
<1>12. Prevs'
  BY <1>3, <1>4, <1>5, <1>6 DEF Ordered, Prevs
<1>13. x \in Old /\ lv[x] >= work.index /\ ky[x] < ky[work.elem]
  <2>1. x \in Old /\ lv[x] >= work.index /\ ky[work.elem] > ky[x]
    BY <1>1, <1>2, AtIndex
  <2>2. x \in S!InUse /\ work.elem \in S!InUse
    BY <1>2, <2>1, AtIndex
  <2>. QED  BY <2>1, <2>2, ElementTypes
<1>14. Search'
  BY <1>2, <1>4, <1>5, <1>6, <1>13 DEF Ordered, Search
<1>. QED  BY <1>5, <1>8, <1>10, <1>11, <1>12, <1>14 DEF Ordered

\* What the next lane down is, or the end of the search.
LEMMA GoneDown ==
  ASSUME Typed, Ordered, work.op = "search", S!GoDown,
         \A n \in SAddr : node'[n].level = node[n].level /\ node'[n].key = node[n].key
                            /\ node'[n].value = node[n].value,
         root' = root, map' = map
  PROVE  /\ work'.elem = work.elem
         /\ lv' = lv /\ ky' = ky /\ S!InUse' = S!InUse /\ Old' = Old
         /\ \A i \in S!Lanes : Done(i)' <=> Done(i) \/ i = work.index
         /\ Searched' <=> work.index = 0
         /\ Elements' /\ Contents' /\ Bounds' /\ Search'
<1>1. work.index \in S!Lanes /\ work.index \in Nat
  BY AtIndex
<1>2. /\ work'.elem = work.elem /\ work'.first = work.first /\ work'.last = work.last
      /\ work.index = 0 => work'.op = "link"
      /\ work.index # 0 => work'.op = "search" /\ work'.index = work.index - 1 /\ work'.current = work.current
  BY DEF S!GoDown, Typed, S!TypeOK
<1>3. lv' = lv /\ ky' = ky /\ S!InUse' = S!InUse /\ Contents'
  BY SameElements DEF Ordered
<1>4. Old' = Old
  BY <1>2, <1>3 DEF Old
<1>5. ~work.first /\ ~work.last
  BY DEF Ordered, Search
<1>6. Searched' <=> work.index = 0
  BY <1>2, <1>5 DEF Searched
<1>7. \A i \in S!Lanes : i \in Nat
  BY ElementTypes
<1>8. \A i \in S!Lanes : Done(i)' <=> Done(i) \/ i = work.index
  <2>1. CASE work.index = 0
    BY <1>2, <1>6, <1>7, <2>1 DEF Done
  <2>2. CASE work.index # 0
    BY <1>1, <1>2, <1>7, <2>2 DEF Done
  <2>. QED  BY <2>1, <2>2
<1>9. Elements'
  BY <1>2, <1>3 DEF Ordered, Elements
<1>10. Bounds'
  BY <1>3, <1>4 DEF Ordered, Bounds, S!Lanes
<1>11. Search'
  <2>1. work.current # Nil => work.current \in Old /\ lv[work.current] \in Nat
    BY AtIndex, ElementTypes
  <2>2. CASE work.index = 0
    BY <1>2, <1>3, <1>4, <2>2 DEF Ordered, Search
  <2>3. CASE work.index # 0
    BY <1>1, <1>2, <1>3, <1>4, <2>1, <2>3 DEF Ordered, Search
  <2>. QED  BY <2>2, <2>3
<1>. QED  BY <1>2, <1>3, <1>4, <1>6, <1>8, <1>9, <1>10, <1>11

LEMMA OrderedDown ==
  ASSUME Typed, Ordered, S!Down, map' = map
  PROVE  Ordered'
<1>1. work.op = "search" /\ ~S!Before /\ (S!NextNode # Nil => S!Elem.key <= node[S!NextNode].key)
  BY DEF S!Down
<1>2. S!GoDown /\ root' = root /\ node' = node
  BY DEF S!Down
<1>3. /\ work'.elem = work.elem
      /\ lv' = lv /\ ky' = ky /\ S!InUse' = S!InUse /\ Old' = Old
      /\ \A i \in S!Lanes : Done(i)' <=> Done(i) \/ i = work.index
      /\ Searched' <=> work.index = 0
      /\ Elements' /\ Contents' /\ Bounds' /\ Search'
  BY <1>1, <1>2, GoneDown
<1>4. PICK e \in S!InUse : e = work.elem
  BY <1>1, AtIndex
<1>5. PICK i \in S!Lanes : i = work.index
  BY <1>1, AtIndex
<1>6. lv[e] < i /\ i # 0
  <2>1. lv[e] \in Nat /\ i \in Nat
    BY <1>4, <1>5, ElementTypes
  <2>2. S!NextNode # Nil => ky[e] < ky[S!NextNode]
    BY <1>1, <1>4, AtIndex DEF Keyed
  <2>3. S!NextNode # Nil => S!Elem.key < node[S!NextNode].key
    BY <1>1, <1>4, <2>2, AtIndex
  <2>4. ~(i <= S!Elem.level)
    BY <1>1, <1>5, <2>3 DEF S!Before
  <2>5. ~(i <= lv[e])
    BY <1>1, <1>4, <2>4, AtIndex
  <2>. QED  BY <2>1, <2>5
<1>7. ASSUME NEW n \in Old, NEW y
      PROVE  NextIn(y, n, Old, i, lv, ky) <=> NextIn(y, n, S!InUse, i, lv, ky)
  <2>1. Keyed(Old \cup {e}, lv, ky) /\ S!InUse = Old \cup {e} /\ i \in Nat
    BY <1>1, <1>4, <1>5, AtIndex
  <2>. QED  BY <1>6, <2>1, Apart
<1>8. Nexts'
  <2>1. ASSUME NEW j \in S!Lanes, NEW n \in Old, lv[n] >= j
        PROVE  NextIn(node[n].next[j], n, With(j)', j, lv, ky)
    <3>1. NextIn(node[n].next[j], n, With(j), j, lv, ky)
      BY <2>1 DEF Ordered, Nexts
    <3>2. CASE j = i
      BY <1>3, <1>5, <1>7, <3>1, <3>2 DEF With
    <3>3. CASE j # i
      BY <1>3, <1>5, <3>1, <3>3 DEF With
    <3>. QED  BY <3>2, <3>3
  <2>2. ASSUME NEW j \in S!Lanes, lv[e] >= j
        PROVE  IF Done(j)' THEN NextIn(node[e].next[j], e, S!InUse, j, lv, ky)
               ELSE node[e].next[j] = Nil
    <3>1. j # i
      <4>1. lv[e] \in Nat /\ i \in Nat /\ j \in Nat
        BY <1>4, <1>5, ElementTypes
      <4>. QED  BY <1>6, <2>2, <4>1
    <3>. QED  BY <1>1, <1>3, <1>4, <1>5, <2>2, <3>1, AtIndex DEF Ordered, Nexts
  <2>3. S!Lanes' = S!Lanes
    BY DEF S!Lanes
  <2>. QED  BY <1>2, <1>3, <1>4, <2>1, <2>2, <2>3 DEF Nexts
<1>9. Prevs'
  BY <1>1, <1>2, <1>3, <1>5, <1>6, AtIndex DEF Ordered, Prevs
<1>. QED  BY <1>3, <1>8, <1>9 DEF Ordered

LEMMA OrderedBetween ==
  ASSUME Typed, Ordered, S!Between, map' = map
  PROVE  Ordered'
<1>1. work.op = "search" /\ S!Before /\ S!GoDown /\ root' = root
  BY DEF S!Between
<1>2. PICK e \in S!InUse : e = work.elem /\ e # Nil /\ e \notin Old /\ S!InUse = Old \cup {e}
                             /\ Keyed(Old \cup {e}, lv, ky)
  BY <1>1, AtIndex
<1>3. PICK i \in S!Lanes : i = work.index
  BY <1>1, AtIndex
<1>4. PICK x : x = S!NextNode
  OBVIOUS
<1>5. PICK c : c = work.current
  OBVIOUS
<1>6. e \in SAddr /\ Old \subseteq SAddr /\ Nil \notin Old /\ i \in Nat
  BY <1>2, <1>3, ElementTypes
<1>7. /\ IF c = Nil THEN FirstIn(x, Old, i, lv, ky)
         ELSE c \in Old /\ lv[c] >= i /\ ky[c] < ky[e] /\ NextIn(x, c, Old, i, lv, ky)
      /\ x # Nil => x \in Old /\ lv[x] >= i
      /\ ~Done(i) /\ ~Searched
  BY <1>1, <1>2, <1>3, <1>4, <1>5, AtIndex
<1>8. lv[e] >= i /\ (x = Nil \/ ky[e] < ky[x])
  <2>1. lv[e] \in Nat
    BY <1>6, ElementTypes
  <2>. QED  BY <1>1, <1>2, <1>3, <1>4, <1>6, <2>1, AtIndex DEF S!Before
<1>9. node' = [n \in SAddr |->
         [node[n] EXCEPT
            !.next[i] = IF n = e THEN x ELSE IF n = c THEN e ELSE @,
            !.prev = IF i # 0 THEN @ ELSE IF n = e THEN c ELSE IF n = x THEN e ELSE @]]
  BY <1>2, <1>3, <1>4, <1>5 DEF S!Between
<1>10. \A n \in SAddr : node[n] \in [level : S!Lanes, key : SKeys \cup {Nil}, value : (SKeys \cup {0}) \cup {Nil},
                        prev : SAddr \cup {Nil}, next : [S!Lanes -> SAddr \cup {Nil}]]
  BY DEF Typed, S!TypeOK
<1>11. ASSUME NEW n \in SAddr
       PROVE  /\ node'[n].level = node[n].level /\ node'[n].key = node[n].key
              /\ node'[n].value = node[n].value
              /\ \A j \in S!Lanes : j # i => node'[n].next[j] = node[n].next[j]
              /\ node'[n].next[i] = IF n = e THEN x ELSE IF n = c THEN e ELSE node[n].next[i]
              /\ node'[n].prev = IF i # 0 THEN node[n].prev ELSE IF n = e THEN c
                                 ELSE IF n = x THEN e ELSE node[n].prev
  BY <1>9, <1>10
<1>12. /\ work'.elem = work.elem
       /\ lv' = lv /\ ky' = ky /\ S!InUse' = S!InUse /\ Old' = Old
       /\ \A j \in S!Lanes : Done(j)' <=> Done(j) \/ j = work.index
       /\ Searched' <=> work.index = 0
       /\ Elements' /\ Contents' /\ Bounds' /\ Search'
  BY <1>1, <1>11, GoneDown
<1>13. /\ NextIn(x, e, Old \cup {e}, i, lv, ky)
       /\ PrevIn(c, e, Old \cup {e}, i, lv, ky)
       /\ c # Nil => NextIn(e, c, Old \cup {e}, i, lv, ky)
       /\ x # Nil => PrevIn(e, x, Old \cup {e}, i, lv, ky)
       /\ \A n \in Old \ {c} : \A y : lv[n] >= i /\ NextIn(y, n, Old, i, lv, ky) => NextIn(y, n, Old \cup {e}, i, lv, ky)
       /\ \A n \in Old \ {x} : \A y : lv[n] >= i /\ PrevIn(y, n, Old, i, lv, ky) => PrevIn(y, n, Old \cup {e}, i, lv, ky)
  BY <1>2, <1>6, <1>7, <1>8, PutBetween
<1>14. Nexts'
  <2>1. ASSUME NEW j \in S!Lanes, NEW n \in Old, lv[n] >= j
        PROVE  NextIn(node'[n].next[j], n, With(j)', j, lv, ky)
    <3>1. NextIn(node[n].next[j], n, With(j), j, lv, ky)
      BY <2>1 DEF Ordered, Nexts
    <3>2. n # e /\ n \in SAddr
      BY <1>2, <1>6
    <3>3. CASE j = i
      <4>1. With(j) = Old /\ With(j)' = Old \cup {e}
        BY <1>2, <1>3, <1>7, <1>12, <3>3 DEF With
      <4>2. CASE n = c
        <5>1. c # Nil /\ node'[n].next[j] = e
          BY <1>6, <1>11, <3>2, <3>3, <4>2
        <5>. QED  BY <1>13, <3>3, <4>1, <4>2, <5>1
      <4>3. CASE n # c
        <5>1. node'[n].next[j] = node[n].next[j]
          BY <1>11, <3>2, <3>3, <4>3
        <5>. QED  BY <1>13, <2>1, <3>1, <3>3, <4>1, <4>3, <5>1
      <4>. QED  BY <4>2, <4>3
    <3>4. CASE j # i
      BY <1>3, <1>11, <1>12, <3>1, <3>2, <3>4 DEF With
    <3>. QED  BY <3>3, <3>4
  <2>2. ASSUME NEW j \in S!Lanes, lv[e] >= j
        PROVE  IF Done(j)' THEN NextIn(node'[e].next[j], e, S!InUse, j, lv, ky)
               ELSE node'[e].next[j] = Nil
    <3>1. CASE j = i
      BY <1>2, <1>3, <1>6, <1>11, <1>12, <1>13, <3>1
    <3>2. CASE j # i
      <4>1. IF Done(j) THEN NextIn(node[e].next[j], e, S!InUse, j, lv, ky) ELSE node[e].next[j] = Nil
        BY <1>2, <2>2 DEF Ordered, Nexts
      <4>. QED  BY <1>3, <1>6, <1>11, <1>12, <3>2, <4>1
    <3>. QED  BY <3>1, <3>2
  <2>3. S!Lanes' = S!Lanes
    BY DEF S!Lanes
  <2>. QED  BY <1>2, <1>12, <2>1, <2>2, <2>3 DEF Nexts
<1>15. Prevs'
  <2>1. /\ \A n \in Old : PrevIn(node[n].prev, n, Old, 0, lv, ky)
        /\ node[e].prev = Nil
    BY <1>2, <1>7 DEF Ordered, Prevs
  <2>2. CASE i # 0
    BY <1>2, <1>3, <1>6, <1>11, <1>12, <2>1, <2>2 DEF Prevs
  <2>3. CASE i = 0
    <3>1. Searched' /\ node'[e].prev = c
      BY <1>3, <1>6, <1>11, <1>12, <2>3
    <3>2. ASSUME NEW n \in Old
          PROVE  PrevIn(node'[n].prev, n, Old \cup {e}, 0, lv, ky)
      <4>1. n # e /\ n \in SAddr /\ lv[n] >= 0
        BY <1>2, <1>6, ElementTypes
      <4>2. CASE n = x
        <5>1. node'[n].prev = e /\ x # Nil
          BY <1>6, <1>11, <2>3, <4>1, <4>2
        <5>. QED  BY <1>13, <2>3, <4>2, <5>1
      <4>3. CASE n # x
        <5>1. node'[n].prev = node[n].prev
          BY <1>11, <2>3, <4>1, <4>3
        <5>. QED  BY <1>13, <2>1, <2>3, <4>1, <4>3, <5>1
      <4>. QED  BY <4>2, <4>3
    <3>. QED  BY <1>2, <1>12, <1>13, <2>3, <3>1, <3>2 DEF Prevs
  <2>. QED  BY <2>2, <2>3
<1>. QED  BY <1>12, <1>14, <1>15 DEF Ordered

-----------------------------------------------------------------------------
(* The last loop.                                                           *)

\* What is in lane i when it comes to it: nothing of the new element e, unless the
\* search has been there.
LEMMA AtLink ==
  ASSUME Typed, Ordered, work.op = "link"
  PROVE  /\ work.elem \in S!InUse /\ work.elem # Nil /\ work.elem \notin Old
         /\ S!InUse = Old \cup {work.elem} /\ Old \subseteq S!InUse
         /\ Keyed(Old \cup {work.elem}, lv, ky)
         /\ S!Elem.key = ky[work.elem] /\ S!Elem.level = lv[work.elem]
         /\ \A i \in S!Lanes : Done(i) <=> Searched
         /\ Searched <=> ~work.first /\ ~work.last
         /\ S!Follows <=> work.last /\ ~work.first
         /\ \A i \in S!Lanes : S!Begins(i) <=>
              i <= lv[work.elem] /\ (root.start[i] = Nil \/ ky[work.elem] < ky[root.start[i]])
         /\ \A i \in S!Lanes : FirstIn(root.start[i], Old, i, lv, ky) /\ LastIn(root.end[i], Old, i, lv, ky)
<1>1. work.elem \in S!InUse /\ work.elem # Nil
  BY ElementTypes DEF Ordered, Elements
<1>2. work.elem \notin Old /\ S!InUse = Old \cup {work.elem} /\ Old \subseteq S!InUse
  BY <1>1 DEF Old
<1>3. Keyed(Old \cup {work.elem}, lv, ky)
  BY <1>2, ElementTypes DEF Ordered
<1>4. S!Elem.key = ky[work.elem] /\ S!Elem.level = lv[work.elem]
  BY <1>1, ElementTypes DEF S!Elem
<1>5. \A i \in S!Lanes : Done(i) <=> Searched
  BY DEF Done
<1>6. Searched <=> ~work.first /\ ~work.last
  BY DEF Searched
<1>7. S!Follows <=> work.last /\ ~work.first
  BY DEF S!Follows
<1>8. \A i \in S!Lanes : FirstIn(root.start[i], Old, i, lv, ky) /\ LastIn(root.end[i], Old, i, lv, ky)
  BY DEF Ordered, Bounds
<1>9. \A i \in S!Lanes : root.start[i] = Nil \/ node[root.start[i]].key = ky[root.start[i]]
  BY <1>2, <1>8, ElementTypes DEF FirstIn
<1>10. \A i \in S!Lanes : S!Begins(i) <=>
              i <= lv[work.elem] /\ (root.start[i] = Nil \/ ky[work.elem] < ky[root.start[i]])
  BY <1>4, <1>9 DEF S!Begins
<1>. QED  BY <1>1, <1>2, <1>3, <1>4, <1>5, <1>6, <1>7, <1>8, <1>10

\* The step, with a name for the new element.
LEMMA LinkStep ==
  ASSUME Typed, Ordered, S!Link, map' = map, NEW e, e = work.elem
  PROVE  /\ \A i \in S!Lanes :
              /\ root'.start[i] = IF S!Begins(i) THEN e ELSE root.start[i]
              /\ root'.end[i] = IF S!Ends(i) THEN e ELSE root.end[i]
              /\ S!Ends(i) <=> i <= lv[e] /\ (S!Follows \/ IF S!Begins(i) THEN root.start[i] = Nil
                                                          ELSE node[e].next[i] = Nil)
         /\ \A n \in SAddr :
              /\ \A i \in S!Lanes :
                   node'[n].next[i] =
                     IF n = e /\ S!Begins(i) /\ ~S!Follows THEN root.start[i]
                     ELSE IF S!Follows /\ i <= lv[e] /\ n = root.end[i] THEN e ELSE node[n].next[i]
              /\ node'[n].prev = IF n = e /\ S!Follows THEN root.end[0]
                                 ELSE IF n = root.start[0] /\ S!Begins(0) THEN e ELSE node[n].prev
         /\ work'.op = "none" /\ work'.elem = Nil
         /\ lv' = lv /\ ky' = ky /\ S!InUse' = S!InUse /\ Old' = S!InUse
         /\ Elements' /\ Contents'
         /\ \A i \in S!Lanes : With(i)' = S!InUse
<1>1. work.op = "link"
  BY DEF S!Link
<1>2. S!Elem.level = lv[e]
  BY <1>1, AtLink
<1>3. \A n \in SAddr : node[n] \in [level : S!Lanes, key : SKeys \cup {Nil}, value : (SKeys \cup {0}) \cup {Nil},
                        prev : SAddr \cup {Nil}, next : [S!Lanes -> SAddr \cup {Nil}]]
  BY DEF Typed, S!TypeOK
<1>4. root' = [start |-> [i \in S!Lanes |-> IF S!Begins(i) THEN e ELSE root.start[i]],
              end |-> [i \in S!Lanes |-> IF S!Ends(i) THEN e ELSE root.end[i]]]
  BY DEF S!Link
<1>5. ASSUME NEW i \in S!Lanes
      PROVE  /\ root'.start[i] = IF S!Begins(i) THEN e ELSE root.start[i]
             /\ root'.end[i] = IF S!Ends(i) THEN e ELSE root.end[i]
             /\ S!Ends(i) <=> i <= lv[e] /\ (S!Follows \/ IF S!Begins(i) THEN root.start[i] = Nil
                                                          ELSE node[e].next[i] = Nil)
  <2>1. root'.start[i] = (IF S!Begins(i) THEN e ELSE root.start[i])
        /\ root'.end[i] = (IF S!Ends(i) THEN e ELSE root.end[i])
    BY <1>4
  <2>2. S!Ends(i) <=> i <= lv[e] /\ (S!Follows \/ IF S!Begins(i) THEN root.start[i] = Nil
                                                          ELSE node[e].next[i] = Nil)
    <3>1. S!Elem.next[i] = node[e].next[i]
      BY DEF S!Elem
    <3>. QED  BY <1>2, <3>1 DEF S!Ends
  <2>. QED  BY <2>1, <2>2
<1>6. node' = [n \in SAddr |->
       [node[n] EXCEPT
          !.next = [i \in S!Lanes |->
             IF n = e /\ S!Begins(i) /\ ~S!Follows THEN root.start[i]
             ELSE IF S!Follows /\ i <= lv[e] /\ n = root.end[i] THEN e ELSE @[i]],
          !.prev = IF n = e /\ S!Follows THEN root.end[0]
                   ELSE IF n = root.start[0] /\ S!Begins(0) THEN e ELSE @]]
  BY <1>2 DEF S!Link
<1>7. ASSUME NEW n \in SAddr
      PROVE  /\ node'[n].level = node[n].level /\ node'[n].key = node[n].key
             /\ node'[n].value = node[n].value
             /\ \A i \in S!Lanes :
                   node'[n].next[i] =
                     IF n = e /\ S!Begins(i) /\ ~S!Follows THEN root.start[i]
                     ELSE IF S!Follows /\ i <= lv[e] /\ n = root.end[i] THEN e ELSE node[n].next[i]
             /\ node'[n].prev = IF n = e /\ S!Follows THEN root.end[0]
                                ELSE IF n = root.start[0] /\ S!Begins(0) THEN e ELSE node[n].prev
  BY <1>3, <1>6
<1>8. work'.op = "none" /\ work'.elem = Nil
  BY DEF S!Link, S!Idle
<1>9. lv' = lv /\ ky' = ky /\ S!InUse' = S!InUse /\ Contents'
  BY <1>7, SameElements DEF Ordered
<1>10. Old' = S!InUse
  BY <1>8, <1>9, ElementTypes DEF Old
<1>11. Elements'
  BY <1>8, <1>9 DEF Ordered, Elements
<1>12. \A i \in S!Lanes : With(i)' = S!InUse
  BY <1>9, <1>10 DEF With
<1>. QED  BY <1>5, <1>7, <1>8, <1>9, <1>10, <1>11, <1>12

\* A lane when the new element is in it: its beginning, its end and its order.
LaneIn(i, start, end, next, X, levels, keys) ==
  /\ FirstIn(start, X, i, levels, keys) /\ LastIn(end, X, i, levels, keys)
  /\ \A n \in X : levels[n] >= i => NextIn(next[n], n, X, i, levels, keys)

\* A lane above the new element.
LEMMA LaneAbove ==
  ASSUME NEW X, NEW e, NEW l, NEW k, NEW i \in Nat, Keyed(X \cup {e}, l, k), l[e] < i,
         NEW start, FirstIn(start, X, i, l, k), NEW end, LastIn(end, X, i, l, k),
         NEW next, \A n \in X : l[n] >= i => NextIn(next[n], n, X, i, l, k)
  PROVE  LaneIn(i, start, end, next, X \cup {e}, l, k)
<1>1. FirstIn(start, X \cup {e}, i, l, k) /\ LastIn(end, X \cup {e}, i, l, k)
  BY Apart
<1>2. \A n \in X : l[n] >= i => NextIn(next[n], n, X \cup {e}, i, l, k)
  BY Apart
<1>3. ~(l[e] >= i)
  BY DEF Keyed
<1>. QED  BY <1>1, <1>2, <1>3 DEF LaneIn

\* A lane that the new element begins.
LEMMA LaneBegun ==
  ASSUME NEW X, NEW e, NEW l, NEW k, NEW i \in Nat, Keyed(X \cup {e}, l, k), e \notin X, l[e] >= i,
         NEW start, FirstIn(start, X, i, l, k), NEW end, LastIn(end, X, i, l, k),
         start = Nil \/ k[e] < k[start],
         NEW next, next[e] = start, \A n \in X : l[n] >= i => NextIn(next[n], n, X, i, l, k)
  PROVE  LaneIn(i, e, IF start = Nil THEN e ELSE end, next, X \cup {e}, l, k)
<1>1. FirstIn(e, X \cup {e}, i, l, k)
  BY PutFirst DEF FirstIn, Keyed
<1>2. LastIn(IF start = Nil THEN e ELSE end, X \cup {e}, i, l, k)
  <2>1. CASE start = Nil
    <3>1. \A n \in X : ~(l[n] >= i)
      BY <2>1 DEF FirstIn, Keyed
    <3>. QED  BY <2>1, <3>1, PutEnd
  <2>2. CASE start # Nil
    <3>1. start \in X /\ l[start] >= i /\ k[e] < k[start]
      BY <2>2 DEF FirstIn
    <3>. QED  BY <2>2, <3>1, PutEnd
  <2>. QED  BY <2>1, <2>2
<1>3. Nil \notin X
  BY DEF Keyed
<1>4. /\ NextIn(start, e, X \cup {e}, i, l, k)
      /\ \A n \in X \ {Nil} : \A y : l[n] >= i /\ NextIn(y, n, X, i, l, k) => NextIn(y, n, X \cup {e}, i, l, k)
  BY PutBetween
<1>5. \A n \in X : l[n] >= i => NextIn(next[n], n, X \cup {e}, i, l, k)
  BY <1>3, <1>4
<1>. QED  BY <1>1, <1>2, <1>4, <1>5 DEF LaneIn

\* A lane that it ends, as it is after all others.
LEMMA LaneEnded ==
  ASSUME NEW X, NEW e, NEW l, NEW k, NEW i \in Nat, Keyed(X \cup {e}, l, k), e \notin X, l[e] >= i,
         NEW start, FirstIn(start, X, i, l, k), NEW end, LastIn(end, X, i, l, k),
         \A n \in X : k[n] < k[e],
         NEW next, next[e] = Nil, end # Nil => next[end] = e,
         \A n \in X \ {end} : l[n] >= i => NextIn(next[n], n, X, i, l, k),
         NEW s, s = IF start = Nil \/ k[e] < k[start] THEN e ELSE start
  PROVE  LaneIn(i, s, e, next, X \cup {e}, l, k)
<1>1. FirstIn(s, X \cup {e}, i, l, k)
  BY PutFirst
<1>2. LastIn(e, X \cup {e}, i, l, k)
  BY PutEnd
<1>3. \A n \in X : l[n] >= i => k[n] < k[e]
  OBVIOUS
<1>4. /\ NextIn(Nil, e, X \cup {e}, i, l, k)
      /\ end # Nil => NextIn(e, end, X \cup {e}, i, l, k)
      /\ \A n \in X \ {end} : \A y : l[n] >= i /\ NextIn(y, n, X, i, l, k) => NextIn(y, n, X \cup {e}, i, l, k)
  BY <1>3, PutLast
<1>5. Nil \notin X
  BY DEF Keyed
<1>6. \A n \in X : l[n] >= i => NextIn(next[n], n, X \cup {e}, i, l, k)
  BY <1>4, <1>5
<1>. QED  BY <1>1, <1>2, <1>4, <1>6 DEF LaneIn

\* A lane in which the search has found its place.
LEMMA LaneSearched ==
  ASSUME NEW X, NEW e, NEW l, NEW k, NEW i \in Nat, Keyed(X \cup {e}, l, k), e \notin X, l[e] >= i,
         NEW start, FirstIn(start, X, i, l, k), NEW end, LastIn(end, X, i, l, k),
         NEW x, NextIn(x, e, X \cup {e}, i, l, k),
         NEW next, next[e] = IF start = Nil \/ k[e] < k[start] THEN start ELSE x,
         \A n \in X : l[n] >= i => NextIn(next[n], n, X \cup {e}, i, l, k),
         NEW s, s = IF start = Nil \/ k[e] < k[start] THEN e ELSE start,
         NEW t, t = IF start = Nil \/ (~(k[e] < k[start]) /\ x = Nil) THEN e ELSE end
  PROVE  LaneIn(i, s, t, next, X \cup {e}, l, k)
<1>1. FirstIn(s, X \cup {e}, i, l, k)
  <2>1. FirstIn(IF start = Nil \/ k[e] < k[start] THEN e ELSE start, X \cup {e}, i, l, k)
    BY PutFirst
  <2>. QED  BY <2>1
<1>2. Nil \notin X /\ \A n \in X : k[n] \in Int /\ l[n] \in Nat /\ k[n] # k[e]
  BY DEF Keyed
<1>3. k[e] \in Int /\ l[e] \in Nat
  BY DEF Keyed
<1>4. CASE start = Nil \/ k[e] < k[start]
  <2>1. LastIn(IF start = Nil THEN e ELSE end, X \cup {e}, i, l, k)
    <3>1. CASE start = Nil
      <4>1. \A n \in X : ~(l[n] >= i)
        BY <1>2, <3>1 DEF FirstIn
      <4>. QED  BY <3>1, <4>1, PutEnd
    <3>2. CASE start # Nil
      <4>1. start \in X /\ l[start] >= i /\ k[e] < k[start]
        BY <1>4, <3>2 DEF FirstIn
      <4>. QED  BY <3>2, <4>1, PutEnd
    <3>. QED  BY <3>1, <3>2
  <2>2. NextIn(start, e, X \cup {e}, i, l, k)
    <3>1. start = Nil \/ k[e] < k[start]
      BY <1>4
    <3>. QED  BY <3>1, PutBetween
  <2>. QED  BY <1>1, <1>4, <2>1, <2>2 DEF LaneIn
<1>5. CASE ~(start = Nil \/ k[e] < k[start])
  <2>1. LastIn(IF x = Nil THEN e ELSE end, X \cup {e}, i, l, k)
    <3>1. CASE x = Nil
      <4>1. \A n \in X : l[n] >= i => k[n] < k[e]
        BY <1>2, <1>3, <3>1 DEF NextIn
      <4>. QED  BY <3>1, <4>1, PutEnd
    <3>2. CASE x # Nil
      <4>1. x \in X /\ l[x] >= i /\ k[e] < k[x]
        BY <1>3, <3>2 DEF NextIn
      <4>. QED  BY <3>2, <4>1, PutEnd
    <3>. QED  BY <3>1, <3>2
  <2>. QED  BY <1>1, <1>5, <2>1 DEF LaneIn
<1>. QED  BY <1>4, <1>5

LEMMA OrderedLink ==
  ASSUME Typed, Ordered, S!Link, map' = map
  PROVE  Ordered'
<1>1. work.op = "link"
  BY DEF S!Link
<1>2. PICK e \in S!InUse : e = work.elem /\ e # Nil /\ e \notin Old /\ S!InUse = Old \cup {e}
                             /\ Keyed(Old \cup {e}, lv, ky)
  BY <1>1, AtLink
<1>3. e \in SAddr /\ Old \subseteq SAddr /\ Nil \notin Old
  BY <1>2, ElementTypes
<1>4. /\ \A i \in S!Lanes :
              /\ root'.start[i] = IF S!Begins(i) THEN e ELSE root.start[i]
              /\ root'.end[i] = IF S!Ends(i) THEN e ELSE root.end[i]
              /\ S!Ends(i) <=> i <= lv[e] /\ (S!Follows \/ IF S!Begins(i) THEN root.start[i] = Nil
                                                          ELSE node[e].next[i] = Nil)
      /\ \A n \in SAddr :
              /\ \A i \in S!Lanes :
                   node'[n].next[i] =
                     IF n = e /\ S!Begins(i) /\ ~S!Follows THEN root.start[i]
                     ELSE IF S!Follows /\ i <= lv[e] /\ n = root.end[i] THEN e ELSE node[n].next[i]
              /\ node'[n].prev = IF n = e /\ S!Follows THEN root.end[0]
                                 ELSE IF n = root.start[0] /\ S!Begins(0) THEN e ELSE node[n].prev
      /\ work'.op = "none" /\ work'.elem = Nil
      /\ lv' = lv /\ ky' = ky /\ S!InUse' = S!InUse /\ Old' = S!InUse
      /\ Elements' /\ Contents'
      /\ \A i \in S!Lanes : With(i)' = S!InUse
  BY <1>2, LinkStep
<1>5. /\ \A i \in S!Lanes : S!Begins(i) <=>
           i <= lv[e] /\ (root.start[i] = Nil \/ ky[e] < ky[root.start[i]])
      /\ S!Follows <=> work.last /\ ~work.first
      /\ Searched <=> ~work.first /\ ~work.last
      /\ \A i \in S!Lanes : FirstIn(root.start[i], Old, i, lv, ky) /\ LastIn(root.end[i], Old, i, lv, ky)
  BY <1>1, <1>2, AtLink
<1>6. /\ work.first <=> \A n \in Old : ky[e] < ky[n]
      /\ work.last <=> \A n \in Old : ky[n] < ky[e]
  BY <1>2 DEF Ordered, Search
<1>7. \A i \in S!Lanes : i \in Nat /\ lv[e] \in Nat
  BY <1>3, ElementTypes
<1>8. /\ \A i \in S!Lanes : \A n \in Old : lv[n] >= i =>
           NextIn(node[n].next[i], n, IF Searched THEN Old \cup {e} ELSE Old, i, lv, ky)
      /\ \A i \in S!Lanes : lv[e] >= i =>
           IF Searched THEN NextIn(node[e].next[i], e, Old \cup {e}, i, lv, ky)
           ELSE node[e].next[i] = Nil
      /\ \A n \in Old : PrevIn(node[n].prev, n, IF Searched THEN Old \cup {e} ELSE Old, 0, lv, ky)
      /\ IF Searched THEN PrevIn(node[e].prev, e, Old \cup {e}, 0, lv, ky) ELSE node[e].prev = Nil
  <2>1. \A i \in S!Lanes : Done(i) <=> Searched
    BY <1>1, AtLink
  <2>. QED  BY <1>2, <2>1 DEF Ordered, Nexts, Prevs, With
<1>9. ASSUME NEW i \in S!Lanes, NEW next, next = [n \in SAddr |-> node'[n].next[i]]
      PROVE  LaneIn(i, root'.start[i], root'.end[i], next, Old \cup {e}, lv, ky)
  <2>1. PICK start : start = root.start[i] /\ FirstIn(start, Old, i, lv, ky)
    BY <1>5
  <2>2. PICK end : end = root.end[i] /\ LastIn(end, Old, i, lv, ky)
    BY <1>5
  <2>3. i \in Nat /\ lv[e] \in Nat /\ \A n \in Old : lv[n] \in Nat
    BY <1>3, <1>7, ElementTypes
  <2>4. \A n \in SAddr : next[n] =
                     IF n = e /\ S!Begins(i) /\ ~S!Follows THEN start
                     ELSE IF S!Follows /\ i <= lv[e] /\ n = end THEN e ELSE node[n].next[i]
    BY <1>4, <1>9, <2>1, <2>2
  <2>5. end = Nil \/ end \in Old
    BY <2>2 DEF LastIn
  <2>6. root'.start[i] = (IF S!Begins(i) THEN e ELSE start) /\ root'.end[i] = (IF S!Ends(i) THEN e ELSE end)
    BY <1>4, <2>1, <2>2
  <2>7. CASE lv[e] < i
    <3>1. ~S!Begins(i) /\ ~S!Ends(i)
      BY <1>4, <1>5, <2>3, <2>7
    <3>2. \A n \in Old : next[n] = node[n].next[i]
      BY <1>2, <1>3, <2>3, <2>4, <2>7
    <3>3. ASSUME NEW n \in Old, lv[n] >= i PROVE NextIn(next[n], n, Old, i, lv, ky)
      <4>1. NextIn(next[n], n, Old, i, lv, ky) \/ NextIn(next[n], n, Old \cup {e}, i, lv, ky)
        BY <1>8, <3>2, <3>3
      <4>2. \A m \in Old : \A y : NextIn(y, m, Old, i, lv, ky) <=> NextIn(y, m, Old \cup {e}, i, lv, ky)
        BY <1>2, <2>3, <2>7, Apart
      <4>. QED  BY <4>1, <4>2
    <3>4. LaneIn(i, start, end, next, Old \cup {e}, lv, ky)
      BY <1>2, <2>1, <2>2, <2>3, <2>7, <3>3, LaneAbove
    <3>. QED  BY <2>6, <3>1, <3>4
  <2>8. CASE lv[e] >= i /\ work.first
    <3>1. S!Begins(i) /\ ~S!Follows
      BY <1>5, <1>6, <2>1, <2>3, <2>8 DEF FirstIn
    <3>2. S!Ends(i) <=> start = Nil
      BY <1>4, <2>1, <2>3, <2>8, <3>1
    <3>3. start = Nil \/ ky[e] < ky[start]
      BY <1>5, <2>1, <3>1
    <3>4. next[e] = start /\ \A n \in Old : next[n] = node[n].next[i]
      BY <1>2, <1>3, <2>4, <3>1
    <3>5. \A n \in Old : lv[n] >= i => NextIn(next[n], n, Old, i, lv, ky)
      BY <1>5, <1>8, <2>8, <3>4
    <3>6. LaneIn(i, e, IF start = Nil THEN e ELSE end, next, Old \cup {e}, lv, ky)
      BY <1>2, <2>1, <2>2, <2>3, <2>8, <3>3, <3>4, <3>5, LaneBegun
    <3>. QED  BY <2>6, <3>1, <3>2, <3>6
  <2>9. CASE lv[e] >= i /\ ~work.first /\ work.last
    <3>1. S!Follows /\ ~Searched /\ S!Ends(i)
      BY <1>4, <1>5, <2>3, <2>9
    <3>2. S!Begins(i) <=> start = Nil \/ ky[e] < ky[start]
      BY <1>5, <2>1, <2>3, <2>9
    <3>3. next[e] = Nil
      BY <1>2, <1>3, <1>8, <2>4, <2>5, <2>9, <3>1
    <3>4. end # Nil => next[end] = e
      BY <1>3, <2>3, <2>4, <2>5, <2>9, <3>1
    <3>5. ASSUME NEW n \in Old \ {end}, lv[n] >= i PROVE NextIn(next[n], n, Old, i, lv, ky)
      BY <1>2, <1>3, <1>8, <2>4, <3>1, <3>5
    <3>6. \A n \in Old : ky[n] < ky[e]
      BY <1>6, <2>9
    <3>7. PICK s : s = IF start = Nil \/ ky[e] < ky[start] THEN e ELSE start
      OBVIOUS
    <3>8. LaneIn(i, s, e, next, Old \cup {e}, lv, ky)
      BY <1>2, <2>1, <2>2, <2>3, <2>9, <3>3, <3>4, <3>5, <3>6, <3>7, LaneEnded
    <3>. QED  BY <2>6, <3>1, <3>2, <3>7, <3>8
  <2>10. CASE lv[e] >= i /\ ~work.first /\ ~work.last
    <3>1. ~S!Follows /\ Searched
      BY <1>5, <2>10
    <3>2. S!Begins(i) <=> start = Nil \/ ky[e] < ky[start]
      BY <1>5, <2>1, <2>3, <2>10
    <3>3. PICK x : x = node[e].next[i] /\ NextIn(x, e, Old \cup {e}, i, lv, ky)
      BY <1>8, <2>10, <3>1
    <3>4. S!Ends(i) <=> start = Nil \/ (~(ky[e] < ky[start]) /\ x = Nil)
      BY <1>4, <2>1, <2>3, <2>10, <3>1, <3>2, <3>3
    <3>5. next[e] = IF start = Nil \/ ky[e] < ky[start] THEN start ELSE x
      BY <1>3, <2>4, <3>1, <3>2, <3>3
    <3>6. ASSUME NEW n \in Old, lv[n] >= i PROVE NextIn(next[n], n, Old \cup {e}, i, lv, ky)
      BY <1>2, <1>3, <1>8, <2>4, <3>1, <3>6
    <3>7. PICK s : s = IF start = Nil \/ ky[e] < ky[start] THEN e ELSE start
      OBVIOUS
    <3>8. PICK t : t = IF start = Nil \/ (~(ky[e] < ky[start]) /\ x = Nil) THEN e ELSE end
      OBVIOUS
    <3>9. LaneIn(i, s, t, next, Old \cup {e}, lv, ky)
      BY <1>2, <2>1, <2>2, <2>3, <2>10, <3>3, <3>5, <3>6, <3>7, <3>8, LaneSearched
    <3>. QED  BY <2>6, <3>2, <3>4, <3>7, <3>8, <3>9
  <2>. QED  BY <2>3, <2>7, <2>8, <2>9, <2>10
<1>10. Bounds' /\ Nexts'
  <2>1. ASSUME NEW i \in S!Lanes
        PROVE  /\ FirstIn(root'.start[i], S!InUse, i, lv, ky) /\ LastIn(root'.end[i], S!InUse, i, lv, ky)
               /\ \A n \in S!InUse : lv[n] >= i => NextIn(node'[n].next[i], n, S!InUse, i, lv, ky)
    <3>1. PICK next : next = [n \in SAddr |-> node'[n].next[i]]
      OBVIOUS
    <3>2. LaneIn(i, root'.start[i], root'.end[i], next, Old \cup {e}, lv, ky)
      BY <1>9, <3>1
    <3>3. \A n \in S!InUse : next[n] = node'[n].next[i]
      BY <1>2, <1>3, <3>1
    <3>. QED  BY <1>2, <3>2, <3>3 DEF LaneIn
  <2>2. S!Lanes' = S!Lanes
    BY DEF S!Lanes
  <2>. QED  BY <1>4, <2>1, <2>2 DEF Bounds, Nexts
<1>11. Prevs'
  <2>1. ~Searched'
    BY <1>4 DEF Searched
  <2>2. ASSUME NEW n \in Old \cup {e} PROVE PrevIn(node'[n].prev, n, Old \cup {e}, 0, lv, ky)
    <3>1. 0 \in S!Lanes /\ lv[e] >= 0 /\ n \in SAddr /\ lv[n] >= 0 /\ \A m \in Old : lv[m] >= 0 /\ lv[m] \in Nat /\ ky[m] \in Int
      BY <1>2, <1>3, ElementTypes
    <3>2. PICK start : start = root.start[0] /\ FirstIn(start, Old, 0, lv, ky)
      BY <1>5, <3>1
    <3>3. PICK end : end = root.end[0] /\ LastIn(end, Old, 0, lv, ky)
      BY <1>5, <3>1
    <3>4. S!Begins(0) <=> start = Nil \/ ky[e] < ky[start]
      BY <1>5, <3>1, <3>2
    <3>5. node'[n].prev = IF n = e /\ S!Follows THEN end
                          ELSE IF n = start /\ S!Begins(0) THEN e ELSE node[n].prev
      BY <1>4, <3>1, <3>2, <3>3
    <3>6. start = Nil \/ start \in Old
      BY <3>2 DEF FirstIn
    <3>7. CASE work.first
      <4>1. S!Begins(0) /\ ~S!Follows /\ ~Searched /\ (start = Nil \/ ky[e] < ky[start])
        BY <1>5, <1>6, <3>4, <3>6, <3>7
      <4>2. /\ PrevIn(Nil, e, Old \cup {e}, 0, lv, ky)
            /\ start # Nil => PrevIn(e, start, Old \cup {e}, 0, lv, ky)
            /\ \A m \in Old \ {start} : \A y : lv[m] >= 0 /\ PrevIn(y, m, Old, 0, lv, ky) => PrevIn(y, m, Old \cup {e}, 0, lv, ky)
        BY <1>2, <3>1, <3>2, <4>1, PutBetween
      <4>3. CASE n = e
        BY <1>2, <1>8, <3>5, <3>6, <4>1, <4>2, <4>3
      <4>4. CASE n # e /\ n = start
        BY <1>3, <3>5, <4>1, <4>2, <4>4
      <4>5. CASE n # e /\ n # start
        BY <1>8, <3>1, <3>5, <4>1, <4>2, <4>5
      <4>. QED  BY <4>3, <4>4, <4>5
    <3>8. CASE ~work.first /\ work.last
      <4>1. S!Follows /\ ~Searched /\ \A m \in Old : ky[m] < ky[e]
        BY <1>5, <1>6, <3>8
      <4>2. ~S!Begins(0)
        <5>1. PICK m \in Old : ~(ky[e] < ky[m])
          BY <1>6, <3>8
        <5>2. start \in Old
          BY <3>1, <3>2, <3>6, <5>1 DEF FirstIn
        <5>3. start # Nil /\ ky[start] < ky[e] /\ ky[start] \in Int
          BY <1>3, <3>1, <4>1, <5>2
        <5>4. ky[e] \in Int
          BY <1>2 DEF Keyed
        <5>. QED  BY <3>4, <5>3, <5>4
      <4>3. /\ PrevIn(end, e, Old \cup {e}, 0, lv, ky)
            /\ \A m \in Old : \A y : lv[m] >= 0 /\ PrevIn(y, m, Old, 0, lv, ky) => PrevIn(y, m, Old \cup {e}, 0, lv, ky)
        BY <1>2, <3>1, <3>3, <4>1, PutLast
      <4>. QED  BY <1>8, <3>1, <3>5, <4>1, <4>2, <4>3
    <3>9. CASE ~work.first /\ ~work.last
      <4>1. Searched /\ ~S!Follows
        BY <1>5, <3>9
      <4>2. ~S!Begins(0)
        <5>1. PICK m \in Old : ~(ky[e] < ky[m])
          BY <1>6, <3>9
        <5>2. m # e /\ ky[m] \in Int /\ ky[e] \in Int /\ ky[m] # ky[e]
          BY <1>2 DEF Keyed
        <5>3. start \in Old /\ ky[start] <= ky[m] /\ start # Nil
          BY <1>3, <3>1, <3>2, <3>6, <5>1 DEF FirstIn
        <5>4. ky[start] \in Int
          BY <3>1, <5>3
        <5>. QED  BY <3>4, <5>1, <5>2, <5>3, <5>4
      <4>. QED  BY <1>8, <3>5, <4>1, <4>2
    <3>. QED  BY <3>7, <3>8, <3>9
  <2>. QED  BY <1>2, <1>4, <2>1, <2>2 DEF Prevs
<1>12. Search'
  BY <1>4 DEF Search
<1>. QED  BY <1>4, <1>10, <1>11, <1>12 DEF Ordered

-----------------------------------------------------------------------------
(* The beginning of an Insert.                                              *)

LEMMA OrderedInsert ==
  ASSUME Typed, Ordered, NEW k \in SKeys, NEW v \in Given(k), S!Insert(k, v), SMap!Put(k, v),
         ~work'.doubled
  PROVE  Ordered'
<1>1. work.op = "none" /\ work.elem = Nil /\ S!InUse # SAddr
  BY DEF S!Insert, Ordered, Elements
<1>2. Old = S!InUse /\ S!InUse \subseteq SAddr /\ Nil \notin S!InUse /\ Keyed(S!InUse, lv, ky)
  BY <1>1, ElementTypes DEF Old, Ordered
<1>3. PICK e \in SAddr \ S!InUse : e = S!New
  BY <1>1, <1>2 DEF S!New
<1>4. PICK generated \in S!Lanes :
        LET level == S!Capped(generated)
            first == S!Empty \/ k < node[root.start[0]].key
            last == S!Empty \/ k > node[root.end[0]].key
        IN /\ size' = IF level > size THEN level ELSE size
           /\ node' = [node EXCEPT ![e] = [S!Blank EXCEPT !.level = level, !.key = k, !.value = v]]
           /\ work' = [op |-> IF first \/ last THEN "link" ELSE "search", elem |-> e,
                        first |-> first, last |-> last, index |-> S!EntryIndex(k, level),
                        current |-> Nil, doubled |-> \E n \in S!InUse : node[n].key = k]
  BY <1>3 DEF S!Insert
<1>5. PICK level \in S!Lanes : level = S!Capped(generated) /\ S!EntryIndex(k, level) >= level
                                 /\ S!EntryIndex(k, level) \in S!Lanes
  BY Entry
<1>6. PICK index \in S!Lanes : index = S!EntryIndex(k, level) /\ index >= level
  BY <1>5
<1>7. /\ node' = [node EXCEPT ![e] = [S!Blank EXCEPT !.level = level, !.key = k, !.value = v]]
      /\ work'.op = IF work'.first \/ work'.last THEN "link" ELSE "search"
      /\ work'.elem = e /\ work'.index = index /\ work'.current = Nil
      /\ work'.first <=> S!Empty \/ k < node[root.start[0]].key
      /\ work'.last <=> S!Empty \/ k > node[root.end[0]].key
      /\ \A n \in S!InUse : node[n].key # k
  BY <1>4, <1>5, <1>6
<1>8. root' = root
  BY DEF S!Insert
<1>9. e # Nil /\ k # Nil /\ k \in Int /\ v # Nil
  BY SkipListAssumption DEF Given
<1>10. node \in [SAddr -> [level : S!Lanes, key : SKeys \cup {Nil}, value : (SKeys \cup {0}) \cup {Nil},
                        prev : SAddr \cup {Nil}, next : [S!Lanes -> SAddr \cup {Nil}]]]
  BY DEF Typed, S!TypeOK
<1>11. /\ node'[e].level = level /\ node'[e].key = k /\ node'[e].value = v /\ node'[e].prev = Nil
       /\ \A i \in S!Lanes : node'[e].next[i] = Nil
       /\ \A n \in SAddr : n # e => node'[n] = node[n]
  BY <1>7, <1>10 DEF S!Blank, S!NoLanes
<1>12. /\ lv'[e] = level /\ ky'[e] = k
       /\ \A n \in S!InUse : lv'[n] = lv[n] /\ ky'[n] = ky[n]
  BY <1>2, <1>3, <1>11 DEF lv, ky
<1>13. S!InUse' = S!InUse \cup {e}
  BY <1>3, <1>9, <1>11 DEF S!InUse
<1>14. Old' = S!InUse
  BY <1>3, <1>7, <1>13 DEF Old
<1>15. PICK l, q : l = lv' /\ q = ky'
  OBVIOUS
<1>16. \A n \in S!InUse : ky[n] = node[n].key /\ ky[n] # k /\ lv[n] \in Nat /\ ky[n] \in Int
  BY <1>2, <1>7, ElementTypes
<1>17. Keyed(S!InUse \cup {e}, l, q)
  BY <1>2, <1>5, <1>9, <1>12, <1>15, <1>16, ElementTypes DEF Keyed
<1>18. \A i \in S!Lanes : i \in Nat
  BY ElementTypes
<1>19. ASSUME NEW i \in S!Lanes
       PROVE  /\ \A x : FirstIn(x, S!InUse, i, lv, ky) <=> FirstIn(x, S!InUse, i, l, q)
              /\ \A x : LastIn(x, S!InUse, i, lv, ky) <=> LastIn(x, S!InUse, i, l, q)
              /\ \A n \in S!InUse : \A x : NextIn(x, n, S!InUse, i, lv, ky) <=> NextIn(x, n, S!InUse, i, l, q)
              /\ \A n \in S!InUse : \A x : PrevIn(x, n, S!InUse, i, lv, ky) <=> PrevIn(x, n, S!InUse, i, l, q)
  <2>1. \A n \in S!InUse : lv[n] = l[n] /\ ky[n] = q[n]
    BY <1>12, <1>15
  <2>. QED  BY <1>2, <2>1, SameKeys
<1>20. Elements'
  BY <1>2, <1>7, <1>9, <1>12, <1>13, <1>16 DEF Elements, Ordered
<1>21. Contents'
  <2>1. \A j \in SKeys : map'[j] = IF j = k THEN v ELSE map[j]
    BY SkipListAssumption DEF Typed, SMap!Put
  <2>2. \A n \in S!InUse : ky[n] \in SKeys /\ ky[n] # k /\ node'[n].value = node[n].value
    BY <1>2, <1>3, <1>11, <1>16, ElementTypes, SkipListAssumption
  <2>3. k \in SKeys /\ S!InUse' = S!InUse \cup {e} /\ e \notin S!InUse /\ node'[e].value = v
    BY <1>3, <1>11, <1>13, SkipListAssumption
  <2>4. \A n \in S!InUse : map[ky[n]] = node[n].value /\ node[n].value # Nil
    BY DEF Contents, Ordered
  <2>5. \A j \in SKeys : map[j] # Nil => \E n \in S!InUse : ky[n] = j
    BY DEF Contents, Ordered
  <2>6. ASSUME NEW n \in S!InUse' PROVE map'[ky'[n]] = node'[n].value /\ node'[n].value # Nil
    <3>1. CASE n = e
      BY <1>9, <1>12, <2>1, <2>3, <3>1
    <3>2. CASE n \in S!InUse
      BY <1>12, <2>1, <2>2, <2>4, <3>2
    <3>. QED  BY <2>3, <3>1, <3>2
  <2>7. ASSUME NEW j \in SKeys, map'[j] # Nil PROVE \E n \in S!InUse' : ky'[n] = j
    <3>1. CASE j = k
      BY <1>12, <2>3, <3>1
    <3>2. CASE j # k
      BY <1>12, <2>1, <2>3, <2>5, <2>7, <3>2
    <3>. QED  BY <3>1, <3>2
  <2>. QED  BY <2>6, <2>7 DEF Contents
<1>22. Bounds'
  <2>1. S!Lanes' = S!Lanes
    BY DEF S!Lanes
  <2>2. \A i \in S!Lanes : FirstIn(root.start[i], S!InUse, i, lv, ky) /\ LastIn(root.end[i], S!InUse, i, lv, ky)
    BY <1>2 DEF Ordered, Bounds
  <2>. QED  BY <1>8, <1>14, <1>15, <1>19, <2>1, <2>2 DEF Bounds
<1>23. ~Searched'
  BY <1>7 DEF Searched
<1>24. \A i \in S!Lanes : Done(i)' => i > level
  BY <1>5, <1>6, <1>7, <1>18, <1>23 DEF Done
<1>25. Nexts'
  <2>1. ASSUME NEW i \in S!Lanes, NEW n \in S!InUse, l[n] >= i
        PROVE  NextIn(node'[n].next[i], n, With(i)', i, l, q)
    <3>1. node'[n].next[i] = node[n].next[i]
      BY <1>2, <1>3, <1>11
    <3>2. lv[n] >= i /\ With(i) = S!InUse
      BY <1>2, <1>12, <1>15, <2>1 DEF With
    <3>3. NextIn(node[n].next[i], n, S!InUse, i, lv, ky)
      BY <1>2, <3>2 DEF Ordered, Nexts
    <3>4. NextIn(node[n].next[i], n, S!InUse, i, l, q)
      BY <1>19, <3>3
    <3>5. CASE Done(i)'
      <4>1. l[e] < i /\ i \in Nat
        BY <1>5, <1>12, <1>15, <1>18, <1>24, <3>5
      <4>2. With(i)' = S!InUse \cup {e}
        BY <1>13, <3>5 DEF With
      <4>3. NextIn(node[n].next[i], n, S!InUse \cup {e}, i, l, q)
        BY <1>17, <3>4, <4>1, Apart
      <4>. QED  BY <3>1, <4>2, <4>3
    <3>6. CASE ~Done(i)'
      BY <1>14, <3>1, <3>4, <3>6 DEF With
    <3>. QED  BY <3>5, <3>6
  <2>2. ASSUME NEW i \in S!Lanes, l[e] >= i
        PROVE  ~Done(i)' /\ node'[e].next[i] = Nil
    BY <1>5, <1>11, <1>12, <1>15, <1>18, <1>24, <2>2
  <2>3. S!Lanes' = S!Lanes
    BY DEF S!Lanes
  <2>. QED  BY <1>7, <1>14, <1>15, <2>1, <2>2, <2>3 DEF Nexts
<1>26. Prevs'
  <2>1. ASSUME NEW n \in S!InUse PROVE PrevIn(node'[n].prev, n, S!InUse, 0, l, q)
    <3>1. node'[n].prev = node[n].prev /\ 0 \in S!Lanes
      BY <1>2, <1>3, <1>11, ElementTypes
    <3>2. PrevIn(node[n].prev, n, S!InUse, 0, lv, ky)
      BY <1>2 DEF Ordered, Prevs
    <3>. QED  BY <1>19, <3>1, <3>2
  <2>. QED  BY <1>7, <1>11, <1>14, <1>15, <1>23, <2>1 DEF Prevs
<1>27. Search'
  <2>1. 0 \in S!Lanes /\ FirstIn(root.start[0], S!InUse, 0, lv, ky) /\ LastIn(root.end[0], S!InUse, 0, lv, ky)
    BY <1>2, ElementTypes DEF Ordered, Bounds
  <2>2. \A n \in S!InUse : lv[n] >= 0
    BY <1>16
  <2>3. S!Empty <=> S!InUse = {}
    BY <1>2, <1>16, <2>1, <2>2 DEF S!Empty, FirstIn
  <2>4. work'.first <=> \A n \in S!InUse : k < ky[n]
    <3>1. CASE S!InUse = {}
      BY <1>7, <2>3, <3>1
    <3>2. CASE S!InUse # {}
      <4>1. root.start[0] \in S!InUse /\ \A n \in S!InUse : ky[root.start[0]] <= ky[n]
        BY <2>1, <2>2, <2>3, <3>2 DEF FirstIn, S!Empty
      <4>. QED  BY <1>7, <1>9, <1>16, <2>3, <3>2, <4>1
    <3>. QED  BY <3>1, <3>2
  <2>5. work'.last <=> \A n \in S!InUse : ky[n] < k
    <3>1. CASE S!InUse = {}
      BY <1>7, <2>3, <3>1
    <3>2. CASE S!InUse # {}
      <4>1. root.end[0] \in S!InUse /\ \A n \in S!InUse : ky[n] <= ky[root.end[0]]
        <5>1. root.end[0] # Nil
          BY <1>16, <2>1, <3>2 DEF LastIn
        <5>. QED  BY <2>1, <2>2, <5>1 DEF LastIn
      <4>. QED  BY <1>7, <1>9, <1>16, <2>3, <3>2, <4>1
    <3>. QED  BY <3>1, <3>2
  <2>. QED  BY <1>7, <1>12, <1>14, <2>4, <2>5 DEF Search
<1>. QED  BY <1>20, <1>21, <1>22, <1>25, <1>26, <1>27 DEF Ordered

-----------------------------------------------------------------------------
(* The theorem.                                                             *)

LEMMA OrderedInit == SkipListInit => LInv
<1> SUFFICES ASSUME SkipListInit PROVE LInv
  OBVIOUS
<1>1. Typed
  BY TypedInit
<1>2. /\ root = [start |-> S!NoLanes, end |-> S!NoLanes]
      /\ work.op = "none" /\ work.elem = Nil
      /\ node = [n \in SAddr |-> S!Blank]
      /\ map = [k \in SKeys |-> Nil]
  BY DEF SkipListInit, SMap!Init, S!Init, S!Idle
<1>3. S!InUse = {} /\ Old = {}
  BY <1>2 DEF S!InUse, S!Blank, Old
<1>4. \A i \in S!Lanes : root.start[i] = Nil /\ root.end[i] = Nil
  BY <1>2 DEF S!NoLanes
<1>5. Elements /\ Contents
  BY <1>2, <1>3 DEF Elements, Contents
<1>6. Bounds
  BY <1>3, <1>4 DEF Bounds, FirstIn, LastIn
<1>7. Nexts /\ Prevs /\ Search
  BY <1>2, <1>3 DEF Nexts, Prevs, Search
<1>. QED  BY <1>1, <1>5, <1>6, <1>7 DEF LInv, Ordered

LEMMA OrderedNext == LInv /\ [SkipListNext]_vars => LInv'
<1> SUFFICES ASSUME LInv, [SkipListNext]_vars, ~work'.doubled PROVE Ordered'
  BY TypedNext DEF LInv
<1>1. Typed
  BY DEF LInv
<1>2. CASE UNCHANGED vars
  <2>1. work' = work /\ root' = root /\ node' = node /\ map' = map /\ S!Lanes' = S!Lanes
    BY <1>2 DEF vars, S!Lanes
  <2>2. Ordered
    BY <2>1 DEF LInv
  <2>3. lv' = lv /\ ky' = ky /\ S!InUse' = S!InUse /\ Contents'
    BY <2>1, <2>2, SameElements DEF Ordered
  <2>4. Old' = Old /\ Searched' = Searched /\ \A i : Done(i)' = Done(i)
    BY <2>1, <2>3 DEF Old, Searched, Done
  <2>5. \A i : With(i)' = With(i)
    BY <2>3, <2>4 DEF With
  <2>6. Elements' /\ Bounds'
    BY <2>1, <2>2, <2>3, <2>4 DEF Ordered, Elements, Bounds
  <2>7. Nexts' /\ Prevs' /\ Search'
    BY <2>1, <2>2, <2>3, <2>4, <2>5 DEF Ordered, Nexts, Prevs, Search
  <2>. QED  BY <2>3, <2>6, <2>7 DEF Ordered
<1>3. ASSUME NEW k \in SKeys, NEW v \in Given(k), ~work.doubled, S!Insert(k, v), SMap!Put(k, v)
      PROVE  Ordered'
  BY <1>1, <1>3, OrderedInsert DEF LInv
<1>4. CASE S!Right /\ UNCHANGED map
  <2>1. ~work.doubled
    BY <1>4 DEF S!Right, Typed, S!TypeOK, LInv
  <2>. QED  BY <1>1, <1>4, <2>1, OrderedRight DEF LInv
<1>5. CASE S!Between /\ UNCHANGED map
  <2>1. ~work.doubled
    BY <1>5 DEF S!Between, S!GoDown, Typed, S!TypeOK, LInv
  <2>. QED  BY <1>1, <1>5, <2>1, OrderedBetween DEF LInv
<1>6. CASE S!Down /\ UNCHANGED map
  <2>1. ~work.doubled
    BY <1>6 DEF S!Down, S!GoDown, Typed, S!TypeOK, LInv
  <2>. QED  BY <1>1, <1>6, <2>1, OrderedDown DEF LInv
<1>7. CASE S!Link /\ UNCHANGED map
  <2>1. ~work.doubled
    BY <1>7 DEF S!Link, S!Idle, Typed, S!TypeOK, LInv
  <2>. QED  BY <1>1, <1>7, <2>1, OrderedLink DEF LInv
<1>. QED  BY <1>2, <1>3, <1>4, <1>5, <1>6, <1>7 DEF SkipListNext, S!Step

\* What the invariant says of a lane when no Insert is in progress.
LEMMA LaneLaid ==
  ASSUME Typed, Ordered, work.op = "none", NEW i \in S!Lanes
  PROVE  S!Laid(i)
<1>1. Old = S!InUse /\ S!InUse \subseteq SAddr /\ Nil \notin S!InUse
  BY ElementTypes DEF Old, Ordered, Elements
<1>2. PICK lane : lane = {n \in S!InUse : node[n].level >= i}
  OBVIOUS
<1>3. \A n \in S!InUse : lv[n] = node[n].level /\ ky[n] = node[n].key /\ lv[n] \in Nat /\ ky[n] \in Int
  BY <1>1, ElementTypes
<1>4. i \in Nat /\ lane \subseteq S!InUse /\ \A n \in S!InUse : n \in lane <=> lv[n] >= i
  BY <1>2, <1>3, ElementTypes
<1>5. FirstIn(root.start[i], S!InUse, i, lv, ky) /\ LastIn(root.end[i], S!InUse, i, lv, ky)
  BY <1>1 DEF Ordered, Bounds
<1>6. ASSUME NEW n \in lane PROVE NextIn(node[n].next[i], n, S!InUse, i, lv, ky)
  BY <1>1, <1>4, <1>6 DEF Ordered, Nexts, With
<1>7. ASSUME NEW n \in lane, i = 0 PROVE PrevIn(node[n].prev, n, S!InUse, i, lv, ky)
  BY <1>1, <1>4, <1>7 DEF Ordered, Prevs
<1>8. S!IsFirst(root.start[i], lane) /\ S!IsLast(root.end[i], lane)
  BY <1>1, <1>3, <1>4, <1>5 DEF FirstIn, LastIn, S!IsFirst, S!IsLast
<1>9. ASSUME NEW n \in lane
      PROVE  S!IsFirst(node[n].next[i], {m \in lane : node[m].key > node[n].key})
  BY <1>1, <1>3, <1>4, <1>6 DEF NextIn, S!IsFirst
<1>10. ASSUME NEW n \in lane, i = 0
       PROVE  S!IsLast(node[n].prev, {m \in lane : node[m].key < node[n].key})
  BY <1>1, <1>3, <1>4, <1>7, <1>10 DEF PrevIn, S!IsLast
<1>. QED  BY <1>2, <1>8, <1>9, <1>10 DEF S!Laid

LEMMA InOrder == LInv => SkipListInOrder
<1> SUFFICES ASSUME LInv PROVE SkipListInOrder
  OBVIOUS
<1>1. Typed /\ S!TypeOK
  BY DEF LInv, Typed
<1>2. ASSUME work.op = "none", ~work.doubled
      PROVE  /\ {<<node[n].key, node[n].value>> : n \in S!InUse} =
                  {<<k, map[k]>> : k \in SMap!Keys}
             /\ \A i \in S!Lanes : S!Laid(i)
  <2>1. Ordered
    BY <1>2 DEF LInv
  <2>2. \A i \in S!Lanes : S!Laid(i)
    BY <1>1, <1>2, <2>1, LaneLaid
  <2>3. \A n \in S!InUse : node[n].key = ky[n] /\ ky[n] \in SKeys
    BY <1>1, ElementTypes
  <2>6. SMap!Keys = {k \in SKeys : map[k] # Nil}
    BY DEF SMap!Keys
  <2>4. {<<node[n].key, node[n].value>> : n \in S!InUse} \subseteq {<<k, map[k]>> : k \in SMap!Keys}
    <3>1. ASSUME NEW n \in S!InUse
          PROVE  node[n].key \in SMap!Keys /\ node[n].value = map[node[n].key]
      BY <2>1, <2>3, <2>6, SkipListAssumption DEF Ordered, Contents
    <3>. QED  BY <3>1
  <2>5. {<<k, map[k]>> : k \in SMap!Keys} \subseteq {<<node[n].key, node[n].value>> : n \in S!InUse}
    BY <2>1, <2>3, <2>6 DEF Ordered, Contents
  <2>. QED  BY <2>2, <2>4, <2>5
<1>. QED  BY <1>1, <1>2 DEF SkipListInOrder

\* Whatever is inserted, in any order and whatever levels are generated, no key twice:
\* between two Inserts each lane of the list has the elements of its level in the order
\* of their keys, from start to end and in lane 0 back again, and they are the map
\* (SkipList.Insert and findEntryIndex).
THEOREM SkipListOrder == SkipListSpec => []SkipListInOrder
<1>1. LInv /\ [SkipListNext]_vars => LInv'
  BY OrderedNext
<1>. QED  BY OrderedInit, InOrder, <1>1, PTL DEF SkipListSpec
=============================================================================
