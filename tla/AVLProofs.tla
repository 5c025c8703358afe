------------------------------- MODULE AVLProofs -------------------------------
(***************************************************************************)
(* What Put and Remove of the AVL tree of AVLMap keep, and what its calls  *)
(* answer, for any keys and addresses.  The nodes are a tree in the order  *)
(* of their keys, each with the height that its children give it, but for  *)
(* the one that a call in progress has still to repair; and the tree has   *)
(* the keys and values of the map of OrderedMap.                           *)
(***************************************************************************)
EXTENDS AVLTreeProofs

-----------------------------------------------------------------------------
(* A way is kept by a change that its frames do not see: those are in use   *)
(* still, and have the same below their children.                           *)

LEMMA WayKept ==
  ASSUME NEW U, NEW rt, NEW C, NEW D, NEW up, Way(U, rt, C, D, up), D \in [Nodes -> SUBSET U],
         \A n \in U : n \notin D[C[n][0]] /\ n \notin D[C[n][1]],
         NEW U2, NEW rt2, NEW C2, NEW D2,
         up # <<>> => rt2 = rt,
         \A i \in 1 .. Len(up) :
           /\ up[i].of \in U2
           /\ \A d \in 0 .. 1 :
                /\ ~(up[i].of = Lowest(up) /\ d = Turn(up)) => C2[up[i].of][d] = C[up[i].of][d]
                /\ \A m \in U2 : m \in D[C[up[i].of][d]] => m \in D2[C2[up[i].of][d]]
  PROVE  Way(U2, rt2, C2, D2, up)
<1>1. up \in Seq(Steps) /\ Len(up) \in Nat
  BY DEF Way
<1>2. \A i \in 1 .. Len(up) : up[i].of \in U /\ up[i].side \in 0 .. 1
  <2>1. \A i \in 1 .. Len(up) : up[i].of \in U
    BY DEF Way
  <2>2. \A i \in 1 .. Len(up) : up[i] \in Steps
    BY <1>1
  <2>. QED  BY <2>1, <2>2 DEF Steps
<1>3. up # <<>> => Lowest(up) = up[Len(up)].of /\ Turn(up) = up[Len(up)].side /\ Len(up) \in 1 .. Len(up)
  BY <1>1, EmptySeq DEF Lowest, Turn
<1>4. up # <<>> => up[1].of = rt2
  BY DEF Way
<1>5. ASSUME NEW i \in 1 .. Len(up) - 1 PROVE C2[up[i].of][up[i].side] = up[i + 1].of
  <2>1. i \in 1 .. Len(up) /\ Len(up) \in 1 .. Len(up) /\ i < Len(up) /\ up # <<>>
    BY <1>1, EmptySeq
  <2>2. up[Len(up)].of \in D[C[up[i].of][up[i].side]]
    BY <2>1 DEF Way
  <2>3. up[i].of \notin D[C[up[i].of][up[i].side]]
    BY <1>2, <2>1
  <2>4. up[i].of # Lowest(up)
    BY <1>3, <2>1, <2>2, <2>3
  <2>5. C2[up[i].of][up[i].side] = C[up[i].of][up[i].side]
    BY <1>2, <2>1, <2>4
  <2>6. C[up[i].of][up[i].side] = up[i + 1].of
    BY DEF Way
  <2>. QED  BY <2>5, <2>6
<1>6. ASSUME NEW i \in 1 .. Len(up), NEW j \in 1 .. Len(up), i < j
      PROVE  up[j].of \in D2[C2[up[i].of][up[i].side]]
  <2>1. up[j].of \in D[C[up[i].of][up[i].side]]
    BY <1>6 DEF Way
  <2>2. up[j].of \in U2 /\ up[i].side \in 0 .. 1
    BY <1>2
  <2>. QED  BY <2>1, <2>2
<1>7. \A i \in 1 .. Len(up) : up[i].of \in U2
  OBVIOUS
<1>. QED  BY <1>1, <1>4, <1>5, <1>6, <1>7 DEF Way

-----------------------------------------------------------------------------
(* While a call repairs the tree, one node has the height and balance that  *)
(* it had when its child on one side was of another height.                 *)

\* The node q, if any, has its height from g for its child on the side sd; the others
\* have theirs from their children.
Torn(U, C, B, H, q, sd, g) ==
  /\ Heights(H)
  /\ \A n \in U : n # q => Flat(n, C, B, H)
  /\ q # Nil => FlatWith(q, C, B, H, sd, g)

\* The heights of the nodes and of their children are natural numbers.
LEMMA HeightsOf ==
  ASSUME NEW U, NEW rt, NEW C, NEW P, NEW D, Tree(U, rt, C, P, D), NEW H, Heights(H)
  PROVE  /\ \A n \in U : \A d \in 0 .. 1 : H[C[n][d]] \in Nat /\ C[n][d] \in U \cup {Nil}
         /\ \A n \in U : n # Nil /\ H[n] \in Nat
<1>1. U \subseteq AVLAddr
  BY DEF Tree, Typed
<1>2. \A n \in U : \A d \in 0 .. 1 : C[n][d] \in U \cup {Nil}
  BY DEF Tree, Parted
<1>. QED  BY <1>1, <1>2, NilApart DEF Heights, Nodes

\* A node whose child has the height it expects is like the others.
LEMMA TornMends ==
  ASSUME NEW U, NEW rt, NEW C, NEW P, NEW D, Tree(U, rt, C, P, D),
         NEW q \in U \cup {Nil}, NEW sd \in 0 .. 1, NEW B, NEW H, NEW g,
         Torn(U, C, B, H, q, sd, g), g = H[There(rt, C, q, sd)]
  PROVE  Torn(U, C, B, H, Nil, 0, 0)
<1>1. \A n \in U : H[C[n][0]] \in Nat /\ H[C[n][1]] \in Nat /\ n # Nil
  BY HeightsOf DEF Torn
<1>2. q # Nil => Flat(q, C, B, H)
  <2>1. q # Nil => FlatWith(q, C, B, H, sd, H[C[q][sd]])
    BY DEF Torn, There
  <2>2. q # Nil => H[C[q][0]] \in Nat /\ H[C[q][1]] \in Nat
    BY <1>1
  <2>. QED  BY <2>1, <2>2, FlatSides
<1>. QED  BY <1>1, <1>2 DEF Torn

\* The node gets the height and balance of its children's heights, and its parent has
\* those that go with the height it had.
LEMMA Regrown ==
  ASSUME NEW U, NEW rt, NEW C, NEW P, NEW D, Tree(U, rt, C, P, D),
         NEW q \in U \cup {Nil}, NEW sd \in 0 .. 1, NEW s \in U, There(rt, C, q, sd) = s,
         NEW a \in 0 .. 1, NEW B, NEW B2, NEW H, NEW g, Torn(U, C, B, H, s, a, g),
         \A n \in U : n # s => B2[n] = B[n], B2[s] = H[C[s][1]] - H[C[s][0]]
  PROVE  \E H2 : /\ H2[s] = 1 + Larger(H[C[s][0]], H[C[s][1]])
                 /\ Torn(U, C, B2, H2, q, sd, H[s])
<1>1. PICK h : h = 1 + Larger(H[C[s][0]], H[C[s][1]])
  OBVIOUS
<1>2. PICK H2 : H2 = [H EXCEPT ![s] = h]
  OBVIOUS
<1>3. Heights(H) /\ \A n \in U : n # s => Flat(n, C, B, H)
  BY DEF Torn
<1>4. /\ \A n \in U : \A d \in 0 .. 1 : H[C[n][d]] \in Nat /\ C[n][d] \in U \cup {Nil}
      /\ \A n \in U : n # Nil /\ H[n] \in Nat
  BY <1>3, HeightsOf
<1>5. h \in Nat
  BY <1>1, <1>4 DEF Larger
<1>6. s \in Nodes /\ U \subseteq AVLAddr /\ s # Nil
  BY <1>4 DEF Nodes, Tree, Typed
<1>7. Heights(H2) /\ H2[s] = h /\ \A n \in Nodes : n # s => H2[n] = H[n]
  BY <1>2, <1>3, <1>5, <1>6 DEF Heights
<1>8. \A n \in U : \A d \in 0 .. 1 : C[n][d] = s => n = q /\ d = sd
  <2>1. CASE q = Nil
    <3>1. rt = s
      BY <2>1 DEF There
    <3>. QED  BY <1>6, <3>1, OneParent
  <2>2. CASE q # Nil
    <3>1. C[q][sd] = s /\ q \in U
      BY <2>2 DEF There
    <3>. QED  BY <1>6, <3>1, OneParent
  <2>. QED  BY <2>1, <2>2
<1>9. \A n \in U : \A d \in 0 .. 1 : ~(n = q /\ d = sd) => H2[C[n][d]] = H[C[n][d]]
  BY <1>4, <1>6, <1>7, <1>8 DEF Nodes
<1>10. ASSUME NEW n \in U, n # q, n # s PROVE Flat(n, C, B2, H2)
  <2>1. H2[C[n][0]] = H[C[n][0]] /\ H2[C[n][1]] = H[C[n][1]] /\ H2[n] = H[n] /\ B2[n] = B[n]
    BY <1>6, <1>7, <1>9, <1>10 DEF Nodes
  <2>2. Flat(n, C, B, H)
    BY <1>3, <1>10
  <2>. QED  BY <2>1, <2>2 DEF Flat
<1>11. s # q
  BY ParentIs
<1>12. Flat(s, C, B2, H2)
  <2>1. H2[C[s][0]] = H[C[s][0]] /\ H2[C[s][1]] = H[C[s][1]] /\ H2[s] = h
    BY <1>7, <1>9, <1>11
  <2>. QED  BY <1>1, <2>1 DEF Flat
<1>13. q # Nil => FlatWith(q, C, B2, H2, sd, H[s])
  <2>1. SUFFICES ASSUME q # Nil PROVE FlatWith(q, C, B2, H2, sd, H[s])
    OBVIOUS
  <2>2. q \in U /\ C[q][sd] = s
    BY <2>1 DEF There
  <2>3. Flat(q, C, B, H)
    BY <1>3, <1>11, <2>2
  <2>4. FlatWith(q, C, B, H, sd, H[s])
    BY <1>4, <2>2, <2>3, FlatSides
  <2>5. PICK o : o = 1 - sd
    OBVIOUS
  <2>6. o \in 0 .. 1 /\ o # sd
    BY <2>5
  <2>7. H2[C[q][o]] = H[C[q][o]] /\ H2[q] = H[q] /\ B2[q] = B[q]
    BY <1>6, <1>7, <1>9, <1>11, <2>2, <2>6 DEF Nodes
  <2>. QED  BY <2>4, <2>5, <2>7 DEF FlatWith
<1>14. Torn(U, C, B2, H2, q, sd, H[s])
  <2>1. \A n \in U : n # q => Flat(n, C, B2, H2)
    BY <1>10, <1>12
  <2>. QED  BY <1>7, <1>13, <2>1 DEF Torn
<1>. QED  BY <1>1, <1>7, <1>14

-----------------------------------------------------------------------------
(* The tree in memory and the map that it stands for.                       *)

\* Each node has its key's value in the map, and each key of the map a node.
Content(U, K, V, mp) ==
  /\ mp \in [AVLKeys -> AVLKeys \cup {0} \cup {Nil}]
  /\ \A n \in U : mp[K[n]] = V[n] /\ V[n] # Nil
  /\ \A k \in AVLKeys : mp[k] # Nil => \E n \in U : K[n] = k

\* The nodes of memory nd that are in use, U, are a tree in order; D has what is below
\* each.
Sound(U, rt, nd, D, mp) ==
  /\ nd \in [AVLAddr -> Record]
  /\ U = {n \in AVLAddr : nd[n].key # Nil}
  /\ \A n \in AVLAddr : n \notin U => Clean(nd[n])
  /\ Tree(U, rt, Kids(nd), Parents(nd), D)
  /\ Ordered(U, Kids(nd), Names(nd), D)
  /\ Content(U, Names(nd), Worth(nd), mp)

\* A rotation leaves the memory a tree in order with the same content.
LEMMA SoundTurned ==
  ASSUME NEW U, NEW rt, NEW nd, NEW D, NEW mp, Sound(U, rt, nd, D, mp),
         NEW C, NEW P, C = Kids(nd), P = Parents(nd),
         NEW q \in U \cup {Nil}, NEW sd \in 0 .. 1, NEW s \in U, There(rt, C, q, sd) = s,
         NEW a \in 0 .. 1, NEW r, r = C[s][a], r # Nil,
         NEW nd2 \in [AVLAddr -> Record], Keeps(nd, nd2),
         Turned(rt, C, P, s, a, q, sd, Kids(nd2), Parents(nd2)),
         \A n \in AVLAddr : n \notin U => nd2[n].b = nd[n].b
  PROVE  Sound(U, RootWith(rt, q, r), nd2, TurnedD(C, D, s, a), mp)
<1>1. PICK C2, P2, K, K2, V, V2, D2 :
        /\ C2 = Kids(nd2) /\ P2 = Parents(nd2) /\ K = Names(nd) /\ K2 = Names(nd2)
        /\ V = Worth(nd) /\ V2 = Worth(nd2) /\ D2 = TurnedD(C, D, s, a)
  OBVIOUS
<1>2. /\ nd \in [AVLAddr -> Record] /\ U = {n \in AVLAddr : nd[n].key # Nil}
      /\ \A n \in AVLAddr : n \notin U => Clean(nd[n])
      /\ Tree(U, rt, C, P, D) /\ Ordered(U, C, K, D) /\ Content(U, K, V, mp)
  BY <1>1 DEF Sound
<1>3. Tree(U, RootWith(rt, q, r), C2, P2, D2) /\ TurnedRoles(U, C, D, s, a, C2, D2)
  BY <1>1, <1>2, TurnedTree
<1>4. D \in [Nodes -> SUBSET U] /\ U \subseteq Nodes /\ U \subseteq AVLAddr
  BY <1>2 DEF Tree, Typed, Nodes
<1>5. Ordered(U, C2, K, D2)
  BY <1>2, <1>3, <1>4, TurnedOrder
<1>6. K2 = K /\ V2 = V
  <2>1. \A n \in AVLAddr : nd2[n].key = nd[n].key /\ nd2[n].value = nd[n].value
    BY DEF Keeps
  <2>. QED  BY <1>1, <2>1 DEF Names, Worth
<1>7. U = {n \in AVLAddr : nd2[n].key # Nil}
  BY <1>2 DEF Keeps
<1>8. ASSUME NEW n \in AVLAddr, n \notin U PROVE Clean(nd2[n])
  <2>1. Clean(nd[n]) /\ nd2[n].key = nd[n].key /\ nd2[n].value = nd[n].value /\ nd2[n].b = nd[n].b
    BY <1>2, <1>8 DEF Keeps
  <2>2. /\ r \in U /\ C[r][1 - a] \in U \cup {Nil} /\ n # Nil
    <3>1. C[r][1 - a] \in U \cup {Nil} /\ r \in U
      BY <1>3, <1>2, PartSides DEF TurnedRoles
    <3>. QED  BY <1>8, <3>1, NilApart
  <2>3. n # s /\ n # r /\ n # q /\ n # C[r][1 - a]
    BY <1>8, <2>2
  <2>4. (\A d \in 0 .. 1 : C2[n][d] = C[n][d]) /\ P2[n] = P[n]
    BY <1>1, <2>3 DEF Turned
  <2>5. /\ nd2[n].children = C2[n] /\ nd[n].children = C[n]
        /\ nd2[n].parent = P2[n] /\ nd[n].parent = P[n]
    BY <1>1, <1>2, Memory
  <2>. QED  BY <2>1, <2>4, <2>5 DEF Clean
<1>. QED  BY <1>1, <1>2, <1>3, <1>5, <1>6, <1>7, <1>8 DEF Sound

\* A way whose frames are not below a rotation goes on to be one.
LEMMA WayTurned ==
  ASSUME NEW U, NEW rt, NEW C, NEW P, NEW D, Tree(U, rt, C, P, D),
         NEW q \in U \cup {Nil}, NEW sd \in 0 .. 1, NEW s \in U, NEW a \in 0 .. 1,
         There(rt, C, q, sd) = s, NEW r, r = C[s][a], r # Nil,
         NEW C2, NEW P2, Turned(rt, C, P, s, a, q, sd, C2, P2),
         NEW up, Way(U, rt, C, D, up), \A i \in 1 .. Len(up) : up[i].of \notin D[s],
         q = Nil => up = <<>>,
         (\A i \in 1 .. Len(up) : up[i].of # q) \/ (q = Lowest(up) /\ sd = Turn(up))
  PROVE  Way(U, RootWith(rt, q, r), C2, TurnedD(C, D, s, a), up)
<1>1. PICK D2 : D2 = TurnedD(C, D, s, a)
  OBVIOUS
<1>2. TurnedRoles(U, C, D, s, a, C2, D2)
  BY <1>1, TurnedTree
<1>3. s \in D[s] /\ r \in D[s] /\ r \in U
  BY <1>2 DEF TurnedRoles
<1>4. D \in [Nodes -> SUBSET U] /\ U \subseteq AVLAddr
  BY DEF Tree, Typed
<1>5. \A n \in U : n \notin D[C[n][0]] /\ n \notin D[C[n][1]]
  BY DEF Tree, Parted
<1>6. \A n \in U : n # s /\ n # r => \A d \in 0 .. 1 : D2[C2[n][d]] = D[C[n][d]]
  BY <1>2 DEF TurnedRoles
<1>7. \A n \in U : n # s /\ n # r => \A d \in 0 .. 1 : ~(n = q /\ d = sd) => C2[n][d] = C[n][d]
  BY <1>4 DEF Turned
<1>8. up # <<>> => RootWith(rt, q, r) = rt
  BY DEF RootWith
<1>9. \A i \in 1 .. Len(up) :
        /\ up[i].of \in U
        /\ \A d \in 0 .. 1 :
             /\ ~(up[i].of = Lowest(up) /\ d = Turn(up)) => C2[up[i].of][d] = C[up[i].of][d]
             /\ \A m \in U : m \in D[C[up[i].of][d]] => m \in D2[C2[up[i].of][d]]
  <2>1. \A i \in 1 .. Len(up) : up[i].of \in U /\ up[i].of # s /\ up[i].of # r
    BY <1>3 DEF Way
  <2>2. \A i \in 1 .. Len(up) : \A d \in 0 .. 1 : D2[C2[up[i].of][d]] = D[C[up[i].of][d]]
    BY <1>6, <2>1
  <2>3. \A i \in 1 .. Len(up) : \A d \in 0 .. 1 :
           ~(up[i].of = Lowest(up) /\ d = Turn(up)) => C2[up[i].of][d] = C[up[i].of][d]
    BY <1>7, <2>1
  <2>. QED  BY <2>1, <2>2, <2>3
<1>10. Way(U, RootWith(rt, q, r), C2, D2, up)
  BY <1>4, <1>5, <1>8, <1>9, WayKept
<1>. QED  BY <1>1, <1>10

\* k has the value v, and the other keys have what they had.
Assigned(mp, mp2, k, v) == mp2 = [mp EXCEPT ![k] = v]

\* With a node for a new key the content is that of the map with the key.
LEMMA ContentLinked ==
  ASSUME NEW U, NEW K, NEW V, NEW mp, Content(U, K, V, mp), Distinct(U, K),
         NEW x, x \notin U, NEW k \in AVLKeys, NEW v \in AVLKeys \cup {0}, k \notin {K[n] : n \in U},
         NEW K2, NEW V2, Renamed(U, K, K2, x, k), Renamed(U, V, V2, x, v),
         NEW mp2, Assigned(mp, mp2, k, v)
  PROVE  Content(Joined(U, x), K2, V2, mp2)
<1>. SUFFICES Content(U \cup {x}, K2, V2, mp2)
  BY DEF Joined
<1>0. /\ mp2 = [mp EXCEPT ![k] = v] /\ K2[x] = k /\ V2[x] = v
      /\ \A n \in U : K2[n] = K[n] /\ V2[n] = V[n] /\ K[n] # k
  BY DEF Assigned, Renamed
<1>1. mp \in [AVLKeys -> AVLKeys \cup {0} \cup {Nil}] /\ v # Nil
  BY AVLAssumption DEF Content
<1>2. /\ mp2 \in [AVLKeys -> AVLKeys \cup {0} \cup {Nil}]
      /\ \A j \in AVLKeys : mp2[j] = IF j = k THEN v ELSE mp[j]
  BY <1>0, <1>1
<1>3. ASSUME NEW n \in U \cup {x} PROVE mp2[K2[n]] = V2[n] /\ V2[n] # Nil
  <2>1. CASE n = x
    BY <1>0, <1>1, <1>2, <2>1
  <2>2. CASE n # x
    <3>1. n \in U /\ K[n] \in AVLKeys /\ mp[K[n]] = V[n] /\ V[n] # Nil
      BY <1>3, <2>2 DEF Content, Distinct
    <3>. QED  BY <1>0, <1>2, <3>1
  <2>. QED  BY <2>1, <2>2
<1>4. ASSUME NEW j \in AVLKeys, mp2[j] # Nil PROVE \E n \in U \cup {x} : K2[n] = j
  <2>1. CASE j = k
    BY <1>0, <2>1
  <2>2. CASE j # k
    <3>1. PICK n \in U : K[n] = j
      BY <1>2, <1>4, <2>2 DEF Content
    <3>. QED  BY <1>0, <3>1
  <2>. QED  BY <2>1, <2>2
<1>. QED  BY <1>2, <1>3, <1>4 DEF Content

\* x goes; the key of z does, which is x, or takes the key and value of x.
Moved(U, K, K2, x, z) ==
  /\ \A n \in U : n # x /\ n # z => K2[n] = K[n]
  /\ z # x => K2[z] = K[x]

\* Without a node the content is that of the map without its key.
LEMMA ContentSpliced ==
  ASSUME NEW U, NEW K, NEW V, NEW mp, Content(U, K, V, mp), Distinct(U, K),
         NEW x \in U, NEW z \in U, NEW K2, NEW V2, Moved(U, K, K2, x, z), Moved(U, V, V2, x, z),
         NEW mp2, Assigned(mp, mp2, K[z], Nil)
  PROVE  Content(Without(U, x), K2, V2, mp2)
<1>. SUFFICES Content(U \ {x}, K2, V2, mp2)
  BY DEF Without
<1>0. /\ mp2 = [mp EXCEPT ![K[z]] = Nil]
      /\ \A n \in U : n # x /\ n # z => K2[n] = K[n] /\ V2[n] = V[n]
      /\ z # x => K2[z] = K[x] /\ V2[z] = V[x]
  BY DEF Assigned, Moved
<1>1. /\ mp \in [AVLKeys -> AVLKeys \cup {0} \cup {Nil}]
      /\ \A n \in U : mp[K[n]] = V[n] /\ V[n] # Nil /\ K[n] \in AVLKeys
      /\ \A m, n \in U : K[m] = K[n] => m = n
  BY DEF Content, Distinct
<1>2. /\ mp2 \in [AVLKeys -> AVLKeys \cup {0} \cup {Nil}]
      /\ \A j \in AVLKeys : mp2[j] = IF j = K[z] THEN Nil ELSE mp[j]
  BY <1>0, <1>1
<1>3. ASSUME NEW n \in U \ {x} PROVE mp2[K2[n]] = V2[n] /\ V2[n] # Nil
  <2>1. CASE n = z
    <3>1. K[x] # K[z] /\ K2[n] = K[x] /\ V2[n] = V[x]
      BY <1>0, <1>1, <1>3, <2>1
    <3>. QED  BY <1>1, <1>2, <3>1
  <2>2. CASE n # z
    <3>1. K[n] # K[z] /\ K2[n] = K[n] /\ V2[n] = V[n]
      BY <1>0, <1>1, <1>3, <2>2
    <3>. QED  BY <1>1, <1>2, <3>1
  <2>. QED  BY <2>1, <2>2
<1>4. ASSUME NEW j \in AVLKeys, mp2[j] # Nil PROVE \E n \in U \ {x} : K2[n] = j
  <2>1. j # K[z] /\ mp[j] # Nil
    BY <1>2, <1>4
  <2>2. PICK n \in U : K[n] = j
    BY <2>1 DEF Content
  <2>3. CASE n = x
    BY <1>0, <2>1, <2>2, <2>3
  <2>4. CASE n # x
    BY <1>0, <2>1, <2>2, <2>4
  <2>. QED  BY <2>3, <2>4
<1>. QED  BY <1>2, <1>3, <1>4 DEF Content

\* Linking a node whose key fits leaves the memory a tree in order, with the key in it.
LEMMA SoundLinked ==
  ASSUME NEW U, NEW rt, NEW nd, NEW D, NEW mp, Sound(U, rt, nd, D, mp),
         NEW C, NEW P, NEW K, C = Kids(nd), P = Parents(nd), K = Names(nd),
         NEW q \in U \cup {Nil}, NEW sd \in 0 .. 1, There(rt, C, q, sd) = Nil,
         NEW x \in AVLAddr, x \notin U, NEW k \in AVLKeys, NEW v \in AVLKeys \cup {0},
         Fits(U, C, K, D, q, sd, k),
         NEW nd2, NEW rt2, Grown(nd, nd2, rt, C, P, x, q, sd, k, v, rt2),
         NEW mp2, Assigned(mp, mp2, k, v)
  PROVE  Sound(Joined(U, x), rt2, nd2, LinkedD(D, x, q), mp2)
<1>0. /\ nd2 \in [AVLAddr -> Record] /\ rt2 = RootWith(rt, q, x)
      /\ Linked(C, P, x, q, sd, Kids(nd2), Parents(nd2)) /\ nd2[x].key = k /\ nd2[x].value = v
      /\ \A n \in AVLAddr : n # x =>
           nd2[n].key = nd[n].key /\ nd2[n].value = nd[n].value /\ nd2[n].b = nd[n].b
  BY DEF Grown
<1>1. PICK C2, P2, K2, V, V2, D2, W :
        /\ C2 = Kids(nd2) /\ P2 = Parents(nd2) /\ K2 = Names(nd2)
        /\ V = Worth(nd) /\ V2 = Worth(nd2) /\ D2 = LinkedD(D, x, q) /\ W = Joined(U, x)
  OBVIOUS
<1>2. /\ nd \in [AVLAddr -> Record] /\ U = {n \in AVLAddr : nd[n].key # Nil}
      /\ \A n \in AVLAddr : n \notin U => Clean(nd[n])
      /\ Tree(U, rt, C, P, D) /\ Ordered(U, C, K, D) /\ Content(U, K, V, mp)
  BY <1>1 DEF Sound
<1>3. Linked(C, P, x, q, sd, C2, P2)
  BY <1>0, <1>1
<1>4. Tree(W, RootWith(rt, q, x), C2, P2, D2) /\ LinkedBelow(U, C, D, x, q, sd, C2)
  <2>1. Tree(U, rt, C, P, D)
    BY <1>2
  <2>2. /\ Tree(Joined(U, x), RootWith(rt, q, x), C2, P2, LinkedD(D, x, q))
        /\ LinkedBelow(U, C, D, x, q, sd, C2)
    BY <1>3, <2>1, LinkedTree
  <2>. QED  BY <1>1, <2>2
<1>5. D \in [Nodes -> SUBSET U] /\ U \subseteq Nodes /\ U \subseteq AVLAddr /\ D[Nil] = {}
  BY <1>2 DEF Tree, Typed, Nodes
<1>6. /\ \A n \in AVLAddr : K[n] = nd[n].key /\ V[n] = nd[n].value /\ C[n] = nd[n].children /\ P[n] = nd[n].parent
      /\ \A n \in AVLAddr : K2[n] = nd2[n].key /\ V2[n] = nd2[n].value
      /\ \A n \in AVLAddr : C2[n] = nd2[n].children /\ P2[n] = nd2[n].parent
  BY <1>0, <1>1, <1>2, Memory
<1>7. Renamed(U, K, K2, x, k) /\ Renamed(U, V, V2, x, v)
  BY <1>0, <1>5, <1>6 DEF Renamed
<1>8. Ordered(W, C2, K2, D2)
  <2>1. C2[x][0] = Nil /\ C2[x][1] = Nil
    BY <1>3 DEF Linked
  <2>2. Parted(U, C, D) /\ Ordered(U, C, K, D)
    BY <1>2 DEF Tree
  <2>3. Ordered(Joined(U, x), C2, K2, LinkedD(D, x, q))
    BY <1>4, <1>5, <1>7, <2>1, <2>2, LinkedOrder
  <2>. QED  BY <1>1, <2>3
<1>9. Content(W, K2, V2, mp2)
  <2>1. Distinct(U, K) /\ Content(U, K, V, mp)
    BY <1>2 DEF Ordered
  <2>2. k \notin {K[n] : n \in U}
    BY DEF Fits
  <2>3. Content(Joined(U, x), K2, V2, mp2)
    BY <1>7, <2>1, <2>2, ContentLinked
  <2>. QED  BY <1>1, <2>3
<1>10. W = {n \in AVLAddr : nd2[n].key # Nil}
  <2>1. k # Nil
    BY NilApart
  <2>. QED  BY <1>0, <1>1, <1>2, <2>1 DEF Joined
<1>11. ASSUME NEW n \in AVLAddr, n \notin W PROVE Clean(nd2[n])
  <2>1. Clean(nd[n]) /\ nd2[n].key = nd[n].key /\ nd2[n].value = nd[n].value /\ nd2[n].b = nd[n].b
    BY <1>0, <1>1, <1>2, <1>11 DEF Joined
  <2>2. n # q /\ n # x
    BY <1>1, <1>11, NilApart DEF Joined
  <2>3. (\A d \in 0 .. 1 : C2[n][d] = C[n][d]) /\ P2[n] = P[n]
    BY <1>3, <2>2 DEF Linked
  <2>. QED  BY <1>6, <2>1, <2>3 DEF Clean
<1>. QED  BY <1>0, <1>1, <1>4, <1>8, <1>9, <1>10, <1>11 DEF Sound

\* The way to where a node is linked is one still.
LEMMA WayLinked ==
  ASSUME NEW U, NEW rt, NEW C, NEW P, NEW D, Tree(U, rt, C, P, D),
         NEW path, Way(U, rt, C, D, path), NEW q, NEW sd, q = Lowest(path), sd = Turn(path),
         There(rt, C, q, sd) = Nil, NEW x \in AVLAddr, x \notin U,
         NEW C2, NEW P2, Linked(C, P, x, q, sd, C2, P2)
  PROVE  Way(Joined(U, x), RootWith(rt, q, x), C2, LinkedD(D, x, q), path)
<1>1. PICK D2, U2 : D2 = LinkedD(D, x, q) /\ U2 = Joined(U, x)
  OBVIOUS
<1>2. q \in U \cup {Nil} /\ sd \in 0 .. 1 /\ (path = <<>> <=> q = Nil)
  BY WayEnds
<1>3. LinkedBelow(U, C, D, x, q, sd, C2)
  BY <1>2, LinkedTree
<1>4. D \in [Nodes -> SUBSET U] /\ U \subseteq AVLAddr
  BY DEF Tree, Typed
<1>5. \A n \in U : n \notin D[C[n][0]] /\ n \notin D[C[n][1]]
  BY DEF Tree, Parted
<1>6. path # <<>> => RootWith(rt, q, x) = rt
  BY <1>2 DEF RootWith
<1>7. \A n \in U : \A d \in 0 .. 1 : ~(n = q /\ d = sd) => C2[n][d] = C[n][d]
  BY <1>4 DEF Linked
<1>8. \A n \in U : \A d \in 0 .. 1 : \A m \in U2 : m \in D[C[n][d]] => m \in D2[C2[n][d]]
  BY <1>1, <1>3 DEF LinkedBelow
<1>9. \A i \in 1 .. Len(path) : path[i].of \in U
  BY DEF Way
<1>10. \A i \in 1 .. Len(path) :
         /\ path[i].of \in U2
         /\ \A d \in 0 .. 1 :
              /\ ~(path[i].of = Lowest(path) /\ d = Turn(path)) => C2[path[i].of][d] = C[path[i].of][d]
              /\ \A m \in U2 : m \in D[C[path[i].of][d]] => m \in D2[C2[path[i].of][d]]
  <2>1. U \subseteq U2
    BY <1>1 DEF Joined
  <2>. QED  BY <1>7, <1>8, <1>9, <2>1
<1>11. Way(U2, RootWith(rt, q, x), C2, D2, path)
  BY <1>4, <1>5, <1>6, <1>10, WayKept
<1>. QED  BY <1>1, <1>11

\* A node that is linked has the height 1, where its parent counts on 0.
LEMMA LinkedHeights ==
  ASSUME NEW U, NEW rt, NEW C, NEW P, NEW D, Tree(U, rt, C, P, D),
         NEW q \in U \cup {Nil}, NEW sd \in 0 .. 1, There(rt, C, q, sd) = Nil,
         NEW x \in AVLAddr, x \notin U, NEW C2, NEW P2, Linked(C, P, x, q, sd, C2, P2),
         NEW H, NEW B, NEW B2, Torn(U, C, B, H, Nil, 0, 0),
         \A n \in U : B2[n] = B[n], B2[x] = 0
  PROVE  \E H2 : H2[x] = 1 /\ Torn(Joined(U, x), C2, B2, H2, q, sd, 0)
<1>1. PICK H2 : H2 = [H EXCEPT ![x] = 1]
  OBVIOUS
<1>2. Heights(H) /\ U \subseteq AVLAddr
  BY DEF Torn, Tree, Typed
<1>3. /\ \A n \in U : \A d \in 0 .. 1 : H[C[n][d]] \in Nat /\ C[n][d] \in U \cup {Nil}
      /\ \A n \in U : n # Nil /\ H[n] \in Nat
  BY <1>2, HeightsOf
<1>4. x \in Nodes /\ x # Nil /\ x # q
  BY NilApart DEF Nodes
<1>5. Heights(H2) /\ H2[x] = 1 /\ \A n \in Nodes : n # x => H2[n] = H[n]
  BY <1>1, <1>2, <1>4 DEF Heights
<1>6. \A n \in U : Flat(n, C, B, H)
  BY <1>3 DEF Torn
<1>7. \A n \in U : \A d \in 0 .. 1 : ~(n = q /\ d = sd) => C2[n][d] = C[n][d] /\ H2[C2[n][d]] = H[C[n][d]]
  <2>1. \A n \in U : \A d \in 0 .. 1 : ~(n = q /\ d = sd) => C2[n][d] = C[n][d]
    BY <1>2 DEF Linked
  <2>2. \A n \in U : \A d \in 0 .. 1 : C[n][d] \in Nodes /\ C[n][d] # x
    BY <1>2, <1>3, <1>4 DEF Nodes
  <2>. QED  BY <1>5, <2>1, <2>2
<1>8. ASSUME NEW n \in U, n # q PROVE Flat(n, C2, B2, H2)
  <2>1. H2[C2[n][0]] = H[C[n][0]] /\ H2[C2[n][1]] = H[C[n][1]] /\ H2[n] = H[n] /\ B2[n] = B[n]
    BY <1>2, <1>5, <1>7, <1>8 DEF Nodes
  <2>. QED  BY <1>6, <2>1 DEF Flat
<1>9. Flat(x, C2, B2, H2)
  <2>1. C2[x][0] = Nil /\ C2[x][1] = Nil /\ H2[Nil] = 0
    BY <1>5 DEF Linked, Heights
  <2>. QED  BY <1>5, <2>1 DEF Flat, Larger
<1>10. q # Nil => FlatWith(q, C2, B2, H2, sd, 0)
  <2>1. SUFFICES ASSUME q # Nil PROVE FlatWith(q, C2, B2, H2, sd, 0)
    OBVIOUS
  <2>2. q \in U /\ C[q][sd] = Nil
    BY <2>1 DEF There
  <2>3. Flat(q, C, B, H) /\ H[Nil] = 0
    BY <1>2, <1>6, <2>2 DEF Heights
  <2>4. FlatWith(q, C, B, H, sd, H[C[q][sd]])
    BY <1>3, <2>2, <2>3, FlatSides
  <2>5. PICK o : o = 1 - sd
    OBVIOUS
  <2>6. o \in 0 .. 1 /\ o # sd
    BY <2>5
  <2>7. H2[C2[q][o]] = H[C[q][o]] /\ H2[q] = H[q] /\ B2[q] = B[q]
    BY <1>2, <1>4, <1>5, <1>7, <2>2, <2>6 DEF Nodes
  <2>. QED  BY <2>2, <2>3, <2>4, <2>5, <2>7 DEF FlatWith
<1>11. Torn(Joined(U, x), C2, B2, H2, q, sd, 0)
  <2>1. \A n \in Joined(U, x) : n # q => Flat(n, C2, B2, H2)
    BY <1>8, <1>9 DEF Joined
  <2>. QED  BY <1>5, <1>10, <2>1 DEF Torn
<1>. QED  BY <1>5, <1>11

\* x goes, and z, if it is another node, gets its key and value.
Yields(U, K, nd, nd2, x, z) ==
  /\ \A n \in AVLAddr : n # x /\ n # z => nd2[n].key = nd[n].key /\ nd2[n].value = nd[n].value
  /\ \A n \in AVLAddr : n # x => nd2[n].b = nd[n].b
  /\ z # x => /\ nd2[z].key = nd[x].key /\ nd2[z].value = nd[x].value
              /\ \A m \in U : m # x /\ m # z => (K[m] < K[x] <=> K[m] < K[z])

\* Unlinking a node, after its key and value moved to z or as it is, leaves the memory a tree in
\* order, without the key of z.
LEMMA SoundSpliced ==
  ASSUME NEW U, NEW rt, NEW nd, NEW D, NEW mp, Sound(U, rt, nd, D, mp),
         NEW C, NEW P, NEW K, C = Kids(nd), P = Parents(nd), K = Names(nd),
         NEW q \in U \cup {Nil}, NEW sd \in 0 .. 1, NEW x \in U, There(rt, C, q, sd) = x,
         NEW a \in 0 .. 1, C[x][a] = Nil, NEW y, y = C[x][1 - a],
         NEW nd2 \in [AVLAddr -> Record], Spliced(rt, C, P, x, a, q, sd, Kids(nd2), Parents(nd2)),
         Clean(nd2[x]), NEW z \in U,
         Yields(U, K, nd, nd2, x, z),
         NEW mp2, Assigned(mp, mp2, K[z], Nil)
  PROVE  Sound(Without(U, x), RootWith(rt, q, y), nd2, SplicedD(D, x), mp2)
<1>1. PICK C2, P2, K2, V, V2, D2, W :
        /\ C2 = Kids(nd2) /\ P2 = Parents(nd2) /\ K2 = Names(nd2)
        /\ V = Worth(nd) /\ V2 = Worth(nd2) /\ D2 = SplicedD(D, x) /\ W = Without(U, x)
  OBVIOUS
<1>2. /\ nd \in [AVLAddr -> Record] /\ U = {n \in AVLAddr : nd[n].key # Nil}
      /\ \A n \in AVLAddr : n \notin U => Clean(nd[n])
      /\ Tree(U, rt, C, P, D) /\ Ordered(U, C, K, D) /\ Content(U, K, V, mp)
  BY <1>1 DEF Sound
<1>3. Spliced(rt, C, P, x, a, q, sd, C2, P2)
  BY <1>1
<1>4. Tree(W, RootWith(rt, q, y), C2, P2, D2) /\ SplicedBelow(U, C, D, x, C2)
  <2>1. Tree(U, rt, C, P, D)
    BY <1>2
  <2>2. /\ Tree(Without(U, x), RootWith(rt, q, y), C2, P2, SplicedD(D, x))
        /\ SplicedBelow(U, C, D, x, C2)
    BY <1>3, <2>1, SplicedTree
  <2>. QED  BY <1>1, <2>2
<1>5. D \in [Nodes -> SUBSET U] /\ U \subseteq Nodes /\ U \subseteq AVLAddr
  BY <1>2 DEF Tree, Typed, Nodes
<1>6. Ordered(W, C2, K, D2)
  <2>1. Ordered(U, C, K, D) /\ D \in [Nodes -> SUBSET U] /\ U \subseteq Nodes
    BY <1>2, <1>5
  <2>2. Ordered(Without(U, x), C2, K, SplicedD(D, x))
    BY <1>4, <2>1, SplicedOrder
  <2>. QED  BY <1>1, <2>2
<1>7. /\ \A n \in AVLAddr : K[n] = nd[n].key /\ V[n] = nd[n].value /\ C[n] = nd[n].children /\ P[n] = nd[n].parent
      /\ \A n \in AVLAddr : K2[n] = nd2[n].key /\ V2[n] = nd2[n].value
      /\ \A n \in AVLAddr : C2[n] = nd2[n].children /\ P2[n] = nd2[n].parent
  BY <1>1, <1>2, Memory
<1>8. Moved(U, K, K2, x, z) /\ Moved(U, V, V2, x, z)
  BY <1>5, <1>7 DEF Moved, Yields
<1>9. Distinct(U, K)
  BY <1>2 DEF Ordered
<1>10. Ordered(W, C2, K2, D2)
  <2>1. CASE z = x
    <3>1. \A n \in W : K2[n] = K[n]
      BY <1>1, <1>8, <2>1 DEF Moved, Without
    <3>2. \A n \in W : D2[C2[n][0]] \subseteq W /\ D2[C2[n][1]] \subseteq W /\ D2[n] \subseteq W
      <4>1. D2 \in [Nodes -> SUBSET W] /\ C2 \in [AVLAddr -> [0 .. 1 -> Nodes]] /\ W \subseteq AVLAddr
        BY <1>4 DEF Tree, Typed
      <4>. QED  BY <4>1 DEF Nodes
    <3>3. Distinct(W, K2)
      BY <1>6, <3>1 DEF Ordered, Distinct
    <3>4. Sorted(W, C2, K2, D2)
      BY <1>6, <3>1, <3>2 DEF Ordered, Sorted
    <3>5. Convex(W, K2, D2)
      BY <1>6, <3>1, <3>2 DEF Ordered, Convex
    <3>. QED  BY <3>3, <3>4, <3>5 DEF Ordered
  <2>2. CASE z # x
    <3>1. PICK k : k = K[x]
      OBVIOUS
    <3>2. k \in AVLKeys /\ z \in W /\ W \subseteq Nodes /\ D2 \in [Nodes -> SUBSET W]
      BY <1>1, <1>4, <1>5, <1>9, <2>2, <3>1 DEF Distinct, Tree, Typed, Without
    <3>3. \A m \in W : m # z => K[m] # k /\ (K[m] < k <=> K[m] < K[z])
      BY <1>1, <1>9, <2>2, <3>1 DEF Distinct, Without, Yields
    <3>4. \A m \in W : K2[m] = IF m = z THEN k ELSE K[m]
      BY <1>1, <1>8, <2>2, <3>1 DEF Moved, Without
    <3>. QED  BY <1>4, <1>6, <3>2, <3>3, <3>4, RekeyOrder
  <2>. QED  BY <2>1, <2>2
<1>11. Content(W, K2, V2, mp2)
  <2>1. Content(U, K, V, mp)
    BY <1>2
  <2>2. Content(Without(U, x), K2, V2, mp2)
    BY <1>8, <1>9, <2>1, ContentSpliced
  <2>. QED  BY <1>1, <2>2
<1>12. W = {n \in AVLAddr : nd2[n].key # Nil}
  <2>1. nd2[x].key = Nil
    BY DEF Clean
  <2>2. nd2[z].key # Nil \/ z = x
    BY <1>2 DEF Yields
  <2>3. \A n \in AVLAddr : n # x => (nd2[n].key # Nil <=> n \in U)
    BY <1>2, <2>2 DEF Yields
  <2>. QED  BY <1>1, <1>5, <2>1, <2>3 DEF Without
<1>13. ASSUME NEW n \in AVLAddr, n \notin W PROVE Clean(nd2[n])
  <2>1. CASE n = x
    BY <2>1
  <2>2. CASE n # x
    <3>1. n \notin U
      BY <1>1, <1>13, <2>2 DEF Without
    <3>2. Clean(nd[n]) /\ nd2[n].key = nd[n].key /\ nd2[n].value = nd[n].value /\ nd2[n].b = nd[n].b
      BY <1>2, <2>2, <3>1 DEF Yields
    <3>3. y \in U \cup {Nil}
      <4>1. PICK o : o = 1 - a
        OBVIOUS
      <4>2. (o = 0 \/ o = 1) /\ y = C[x][o]
        BY <4>1
      <4>. QED  BY <1>2, <4>2 DEF Tree, Parted
    <3>4. n # q /\ n # y
      BY <3>1, <3>3, NilApart
    <3>5. (\A d \in 0 .. 1 : C2[n][d] = C[n][d]) /\ P2[n] = P[n]
      BY <1>3, <2>2, <3>4 DEF Spliced
    <3>. QED  BY <1>7, <3>2, <3>5 DEF Clean
  <2>. QED  BY <2>1, <2>2
<1>. QED  BY <1>1, <1>4, <1>10, <1>11, <1>12, <1>13 DEF Sound

\* The way to where a node was unlinked is one still, and ends at what took its place.
LEMMA WaySpliced ==
  ASSUME NEW U, NEW rt, NEW C, NEW P, NEW D, Tree(U, rt, C, P, D),
         NEW path, Way(U, rt, C, D, path), NEW q, NEW sd, q = Lowest(path), sd = Turn(path),
         NEW x \in U, There(rt, C, q, sd) = x, NEW a \in 0 .. 1, C[x][a] = Nil, NEW y, y = C[x][1 - a],
         NEW C2, NEW P2, Spliced(rt, C, P, x, a, q, sd, C2, P2)
  PROVE  /\ Way(Without(U, x), RootWith(rt, q, y), C2, SplicedD(D, x), path)
         /\ There(RootWith(rt, q, y), C2, q, sd) = y
<1>1. PICK D2, U2 : D2 = SplicedD(D, x) /\ U2 = Without(U, x)
  OBVIOUS
<1>2. q \in U \cup {Nil} /\ sd \in 0 .. 1 /\ (path = <<>> <=> q = Nil)
  BY WayEnds
<1>3. Tree(U2, RootWith(rt, q, y), C2, P2, D2) /\ SplicedBelow(U, C, D, x, C2)
  BY <1>1, <1>2, SplicedTree
<1>4. D \in [Nodes -> SUBSET U] /\ U \subseteq AVLAddr
  BY DEF Tree, Typed
<1>5. \A n \in U : n \notin D[C[n][0]] /\ n \notin D[C[n][1]]
  BY DEF Tree, Parted
<1>6. path # <<>> => RootWith(rt, q, y) = rt
  BY <1>2 DEF RootWith
<1>7. \A n \in U : n # x => \A d \in 0 .. 1 : ~(n = q /\ d = sd) => C2[n][d] = C[n][d]
  BY <1>4 DEF Spliced
<1>8. \A n \in U : n # x => \A d \in 0 .. 1 : \A m \in U2 : m \in D[C[n][d]] => m \in D2[C2[n][d]]
  BY <1>1, <1>3 DEF SplicedBelow, Without
<1>9. \A i \in 1 .. Len(path) : path[i].of \in U
  BY DEF Way
<1>10. q # x /\ (q # Nil => q \notin D[x]) /\ x \in D[x]
  BY <1>2, ParentIs, UpOf DEF Tree, Parted
<1>11. \A i \in 1 .. Len(path) : path[i].of # x
  <2>1. SUFFICES ASSUME NEW i \in 1 .. Len(path), path[i].of = x PROVE FALSE
    OBVIOUS
  <2>2. path # <<>> /\ path \in Seq(Steps) /\ Len(path) \in Nat
    BY EmptySeq DEF Way
  <2>3. path[Len(path)].of = q /\ Len(path) \in 1 .. Len(path)
    BY <2>2 DEF Lowest
  <2>4. i < Len(path)
    BY <1>10, <2>1, <2>2, <2>3
  <2>5. q \in D[C[x][path[i].side]]
    BY <2>1, <2>3, <2>4 DEF Way
  <2>6. path[i].side \in 0 .. 1
    <3>1. path[i] \in Steps
      BY <2>1, <2>2
    <3>. QED  BY <3>1 DEF Steps
  <2>7. D[C[x][path[i].side]] \subseteq D[x]
    <3>1. D[x] = {x} \cup D[C[x][0]] \cup D[C[x][1]]
      BY DEF Tree, Parted
    <3>2. path[i].side = 0 \/ path[i].side = 1
      BY <2>6
    <3>. QED  BY <3>1, <3>2
  <2>8. q # Nil
    BY <1>2, <2>2
  <2>. QED  BY <1>10, <2>5, <2>7, <2>8
<1>12. \A i \in 1 .. Len(path) :
         /\ path[i].of \in U2
         /\ \A d \in 0 .. 1 :
              /\ ~(path[i].of = Lowest(path) /\ d = Turn(path)) => C2[path[i].of][d] = C[path[i].of][d]
              /\ \A m \in U2 : m \in D[C[path[i].of][d]] => m \in D2[C2[path[i].of][d]]
  <2>1. \A i \in 1 .. Len(path) : path[i].of \in U /\ path[i].of # x
    BY <1>9, <1>11
  <2>2. \A i \in 1 .. Len(path) : \A d \in 0 .. 1 :
           ~(path[i].of = q /\ d = sd) => C2[path[i].of][d] = C[path[i].of][d]
    BY <1>7, <2>1
  <2>3. \A i \in 1 .. Len(path) : \A d \in 0 .. 1 :
           \A m \in U2 : m \in D[C[path[i].of][d]] => m \in D2[C2[path[i].of][d]]
    BY <1>8, <2>1
  <2>4. \A i \in 1 .. Len(path) : path[i].of \in U2
    BY <1>1, <2>1 DEF Without
  <2>. QED  BY <2>2, <2>3, <2>4
<1>13. Way(U2, RootWith(rt, q, y), C2, D2, path)
  BY <1>4, <1>5, <1>6, <1>12, WayKept
<1>14. There(RootWith(rt, q, y), C2, q, sd) = y
  BY <1>2, <1>4, <1>10 DEF There, RootWith, Spliced
<1>. QED  BY <1>1, <1>13, <1>14

\* Where a node was unlinked the height is one less than its parent counts on.
LEMMA SplicedHeights ==
  ASSUME NEW U, NEW rt, NEW C, NEW P, NEW D, Tree(U, rt, C, P, D),
         NEW q \in U \cup {Nil}, NEW sd \in 0 .. 1, NEW x \in U, There(rt, C, q, sd) = x,
         NEW a \in 0 .. 1, C[x][a] = Nil, NEW y, y = C[x][1 - a],
         NEW C2, NEW P2, Spliced(rt, C, P, x, a, q, sd, C2, P2),
         NEW H, NEW B, NEW B2, Torn(U, C, B, H, Nil, 0, 0),
         \A n \in U : n # x => B2[n] = B[n]
  PROVE  \A g : g = H[y] + 1 => Torn(Without(U, x), C2, B2, H, q, sd, g)
<1>1. Heights(H) /\ U \subseteq AVLAddr
  BY DEF Torn, Tree, Typed
<1>2. /\ \A n \in U : \A d \in 0 .. 1 : H[C[n][d]] \in Nat /\ C[n][d] \in U \cup {Nil}
      /\ \A n \in U : n # Nil /\ H[n] \in Nat
  BY <1>1, HeightsOf
<1>3. \A n \in U : Flat(n, C, B, H)
  BY <1>2 DEF Torn
<1>4. \A n \in U : n # x => \A d \in 0 .. 1 : ~(n = q /\ d = sd) => C2[n][d] = C[n][d]
  BY <1>1 DEF Spliced
<1>5. ASSUME NEW n \in U \ {x}, n # q PROVE Flat(n, C2, B2, H)
  <2>1. C2[n][0] = C[n][0] /\ C2[n][1] = C[n][1] /\ B2[n] = B[n] /\ Flat(n, C, B, H)
    BY <1>3, <1>4, <1>5
  <2>. QED  BY <2>1 DEF Flat
<1>6. H[x] = H[y] + 1
  <2>1. PICK o : o = 1 - a
    OBVIOUS
  <2>2. ((a = 0 /\ o = 1) \/ (a = 1 /\ o = 0)) /\ y = C[x][o] /\ H[C[x][a]] = 0
    BY <1>1, <2>1 DEF Heights
  <2>3. H[x] = 1 + Larger(H[C[x][0]], H[C[x][1]]) /\ H[y] \in Nat
    BY <1>2, <1>3, <2>2 DEF Flat
  <2>. QED  BY <2>2, <2>3 DEF Larger
<1>7. q # Nil => FlatWith(q, C2, B2, H, sd, H[y] + 1)
  <2>1. SUFFICES ASSUME q # Nil PROVE FlatWith(q, C2, B2, H, sd, H[y] + 1)
    OBVIOUS
  <2>2. q \in U /\ C[q][sd] = x /\ q # x
    BY <2>1, ParentIs DEF There
  <2>3. FlatWith(q, C, B, H, sd, H[C[q][sd]])
    BY <1>2, <1>3, <2>2, FlatSides
  <2>4. PICK o : o = 1 - sd
    OBVIOUS
  <2>5. C2[q][o] = C[q][o] /\ B2[q] = B[q]
    BY <1>4, <2>2, <2>4
  <2>. QED  BY <1>6, <2>2, <2>3, <2>4, <2>5 DEF FlatWith
<1>8. \A n \in U \ {x} : n # q => Flat(n, C2, B2, H)
  BY <1>5
<1>. QED  BY <1>1, <1>7, <1>8 DEF Torn, Without

-----------------------------------------------------------------------------
(* The invariant: the nodes are a tree in order, and the call in progress   *)
(* has a way to repair, at whose lowest node the heights are torn.          *)

\* A Put has raised the child x of q, and a Remove has lowered it.
PutTorn(U, C, B, H, q, sd, x) ==
  Torn(U, C, B, H, q, sd, H[x] - 1) /\ x # Nil /\ (B[x] # 0 \/ H[x] = 1)
RemoveTorn(U, C, B, H, q, sd, x) == Torn(U, C, B, H, q, sd, H[x] + 1)

Working(U, rt, C, D, B, H, wk) ==
  /\ wk \in [op : {"none", "put", "remove", "panic"}, path : Seq(Steps)]
  /\ Way(U, rt, C, D, wk.path)
  /\ wk.op = "none" <=> wk.path = <<>>
  /\ wk.op = "none" => Torn(U, C, B, H, Nil, 0, 0)
  /\ wk.op = "put" => PutTorn(U, C, B, H, Lowest(wk.path), Turn(wk.path), End(rt, C, wk.path))
  /\ wk.op = "remove" => RemoveTorn(U, C, B, H, Lowest(wk.path), Turn(wk.path), End(rt, C, wk.path))

Held(U, D, H) ==
  /\ Sound(U, root, node, D, map) /\ size = Cardinality(U)
  /\ Working(U, root, Kids(node), D, Leans(node), H, work)

AInv == \E U, D, H : Held(U, D, H)

\* Nothing is left to repair.
LEMMA WorkEnds ==
  ASSUME NEW U, NEW rt, NEW C, NEW D, NEW B, NEW H, Torn(U, C, B, H, Nil, 0, 0)
  PROVE  Working(U, rt, C, D, B, H, AVL!Idle)
<1>1. PICK wk, none : wk = AVL!Idle /\ none = <<>>
  OBVIOUS
<1>2. wk = [op |-> "none", path |-> none]
  BY <1>1 DEF AVL!Idle
<1>3. none \in Seq(Steps) /\ Len(none) = 0
  BY <1>1
<1>4. Way(U, rt, C, D, none)
  BY <1>1, <1>3 DEF Way
<1>5. wk.op = "none" /\ wk.path = none
  BY <1>2
<1>6. wk \in [op : {"none", "put", "remove", "panic"}, path : Seq(Steps)]
  BY <1>2, <1>3
<1>7. Working(U, rt, C, D, B, H, wk)
  BY <1>1, <1>4, <1>5, <1>6 DEF Working
<1>. QED  BY <1>1, <1>7

\* Without a frame above, the top has nothing to repair.
LEMMA TornAtTop ==
  ASSUME NEW U, NEW C, NEW B, NEW H, NEW sd, NEW g, Torn(U, C, B, H, Nil, sd, g)
  PROVE  Torn(U, C, B, H, Nil, 0, 0)
BY DEF Torn

\* A Put that has raised a child goes on with its parent, if there is one.
LEMMA PutUnwinds ==
  ASSUME NEW U, NEW rt, NEW C, NEW P, NEW D, Tree(U, rt, C, P, D), NEW up, Way(U, rt, C, D, up),
         NEW B, NEW H, PutTorn(U, C, B, H, Lowest(up), Turn(up), End(rt, C, up))
  PROVE  Working(U, rt, C, D, B, H, AVL!Unwind("put", up))
<1>1. up \in Seq(Steps) /\ (up = <<>> <=> Lowest(up) = Nil)
  BY WayEnds
<1>2. CASE up = <<>>
  <2>1. AVL!Unwind("put", up) = AVL!Idle
    BY <1>2 DEF AVL!Unwind
  <2>2. PICK g, sd : g = H[End(rt, C, up)] - 1 /\ sd = Turn(up)
    OBVIOUS
  <2>3. Torn(U, C, B, H, Nil, sd, g)
    BY <1>1, <1>2, <2>2 DEF PutTorn
  <2>4. Torn(U, C, B, H, Nil, 0, 0)
    BY <2>3, TornAtTop
  <2>. QED  BY <2>1, <2>4, WorkEnds
<1>3. CASE up # <<>>
  <2>1. PICK wk : wk = AVL!Unwind("put", up)
    OBVIOUS
  <2>2. wk = [op |-> "put", path |-> up]
    BY <1>3, <2>1 DEF AVL!Unwind
  <2>3. wk.op = "put" /\ wk.path = up /\ wk \in [op : {"none", "put", "remove", "panic"}, path : Seq(Steps)]
    BY <1>1, <2>2
  <2>4. Working(U, rt, C, D, B, H, wk)
    BY <1>3, <2>3 DEF Working
  <2>. QED  BY <2>1, <2>4
<1>. QED  BY <1>2, <1>3

\* A Remove that has lowered a child goes on with its parent, if there is one.
LEMMA RemoveUnwinds ==
  ASSUME NEW U, NEW rt, NEW C, NEW P, NEW D, Tree(U, rt, C, P, D), NEW up, Way(U, rt, C, D, up),
         NEW B, NEW H, RemoveTorn(U, C, B, H, Lowest(up), Turn(up), End(rt, C, up))
  PROVE  Working(U, rt, C, D, B, H, AVL!Unwind("remove", up))
<1>1. up \in Seq(Steps) /\ (up = <<>> <=> Lowest(up) = Nil)
  BY WayEnds
<1>2. CASE up = <<>>
  <2>1. AVL!Unwind("remove", up) = AVL!Idle
    BY <1>2 DEF AVL!Unwind
  <2>2. PICK g, sd : g = H[End(rt, C, up)] + 1 /\ sd = Turn(up)
    OBVIOUS
  <2>3. Torn(U, C, B, H, Nil, sd, g)
    BY <1>1, <1>2, <2>2 DEF RemoveTorn
  <2>4. Torn(U, C, B, H, Nil, 0, 0)
    BY <2>3, TornAtTop
  <2>. QED  BY <2>1, <2>4, WorkEnds
<1>3. CASE up # <<>>
  <2>1. PICK wk : wk = AVL!Unwind("remove", up)
    OBVIOUS
  <2>2. wk = [op |-> "remove", path |-> up]
    BY <1>3, <2>1 DEF AVL!Unwind
  <2>3. wk.op = "remove" /\ wk.path = up /\ wk \in [op : {"none", "put", "remove", "panic"}, path : Seq(Steps)]
    BY <1>1, <2>2
  <2>4. Working(U, rt, C, D, B, H, wk)
    BY <1>3, <2>3 DEF Working
  <2>. QED  BY <2>1, <2>4
<1>. QED  BY <1>2, <1>3

\* The three ways in which a repair of a node goes on: g is the height that the node
\* had, and t what is in its place.
LEMMA Mended ==
  ASSUME NEW U, NEW rt, NEW C, NEW P, NEW D, Tree(U, rt, C, P, D), NEW up, Way(U, rt, C, D, up),
         NEW B, NEW H, NEW g, Torn(U, C, B, H, Lowest(up), Turn(up), g),
         NEW t, t = End(rt, C, up)
  PROVE  /\ g = H[t] => Working(U, rt, C, D, B, H, AVL!Idle)
         /\ g = H[t] - 1 /\ t # Nil /\ (B[t] # 0 \/ H[t] = 1)
              => Working(U, rt, C, D, B, H, AVL!Unwind("put", up))
         /\ g = H[t] + 1 => Working(U, rt, C, D, B, H, AVL!Unwind("remove", up))
<1>1. Lowest(up) \in U \cup {Nil} /\ Turn(up) \in 0 .. 1
  BY WayEnds
<1>2. ASSUME g = H[t] PROVE Working(U, rt, C, D, B, H, AVL!Idle)
  <2>1. PICK q, sd : q = Lowest(up) /\ sd = Turn(up)
    OBVIOUS
  <2>2. q \in U \cup {Nil} /\ sd \in 0 .. 1 /\ Torn(U, C, B, H, q, sd, g) /\ g = H[There(rt, C, q, sd)]
    BY <1>1, <1>2, <2>1 DEF End
  <2>3. Torn(U, C, B, H, Nil, 0, 0)
    BY <2>2, TornMends
  <2>. QED  BY <2>3, WorkEnds
<1>3. ASSUME g = H[t] - 1, t # Nil, B[t] # 0 \/ H[t] = 1
      PROVE  Working(U, rt, C, D, B, H, AVL!Unwind("put", up))
  <2>1. PutTorn(U, C, B, H, Lowest(up), Turn(up), End(rt, C, up))
    BY <1>3 DEF PutTorn
  <2>. QED  BY <2>1, PutUnwinds
<1>4. ASSUME g = H[t] + 1 PROVE Working(U, rt, C, D, B, H, AVL!Unwind("remove", up))
  <2>1. RemoveTorn(U, C, B, H, Lowest(up), Turn(up), End(rt, C, up))
    BY <1>4 DEF RemoveTorn
  <2>. QED  BY <2>1, RemoveUnwinds
<1>. QED  BY <1>2, <1>3, <1>4

\* What the frame at work sees.
Seen(U, D, C, P, s, a, up, q, sd) ==
  /\ Tree(U, root, C, P, D) /\ node \in [AVLAddr -> Record]
  /\ C = Kids(node) /\ P = Parents(node)
  /\ s = AVL!Current /\ up = AVL!Up /\ q = Lowest(up) /\ sd = Turn(up)
  /\ s \in U /\ a \in 0 .. 1 /\ q \in U \cup {Nil} /\ sd \in 0 .. 1
  /\ Way(U, root, C, D, up) /\ There(root, C, q, sd) = s
  /\ \A i \in 1 .. Len(up) : up[i].of \notin D[s]
  /\ AVL!Balance = Leans(node)[s]
  /\ AVL!Heavy = IF work.op = "put" THEN Dir(a) ELSE -Dir(a)
  /\ s = Lowest(work.path) /\ a = Turn(work.path) /\ End(root, C, work.path) = C[s][a]

\* While a call repairs the tree, what its frame sees is there.
LEMMA SeenIs ==
  ASSUME NEW U, NEW D, NEW H, Held(U, D, H), work.op # "none"
  PROVE  \E C, P, s, a, up, q, sd : Seen(U, D, C, P, s, a, up, q, sd)
<1>1. PICK C, P, path, up : C = Kids(node) /\ P = Parents(node) /\ path = work.path /\ up = AVL!Up
  OBVIOUS
<1>2. PICK s, a, q, sd : s = Lowest(path) /\ a = Turn(path) /\ q = Lowest(up) /\ sd = Turn(up)
  OBVIOUS
<1>3. Tree(U, root, C, P, D) /\ node \in [AVLAddr -> Record]
  BY <1>1 DEF Held, Sound
<1>4. path # <<>> /\ Way(U, root, C, D, path)
  BY <1>1 DEF Held, Working
<1>5. path \in Seq(Steps) /\ Len(path) \in Nat /\ s \in U \cup {Nil} /\ a \in 0 .. 1 /\ s # Nil
  BY <1>2, <1>3, <1>4, WayEnds
<1>6. up = Shorter(path)
  BY <1>1 DEF AVL!Up, AVL!Front, Shorter
<1>7. /\ Way(U, root, C, D, up) /\ End(root, C, up) = Lowest(path)
      /\ \A i \in 1 .. Len(up) : up[i] = path[i] /\ up[i].of \notin D[Lowest(path)]
  BY <1>3, <1>4, <1>6, WayBack
<1>8. q \in U \cup {Nil} /\ sd \in 0 .. 1
  BY <1>2, <1>3, <1>7, WayEnds
<1>9. PICK f : f = path[Len(path)]
  OBVIOUS
<1>10. AVL!Last(path) = f
  BY <1>9 DEF AVL!Last
<1>11. s = f.of /\ a = f.side
  BY <1>2, <1>4, <1>9 DEF Lowest, Turn
<1>12. AVL!Current = s
  BY <1>1, <1>10, <1>11 DEF AVL!Current
<1>13. AVL!Heavy = IF work.op = "put" THEN Dir(a) ELSE -Dir(a)
  <2>1. AVL!Heavy = IF work.op = "put" THEN AVL!Direction(a) ELSE -AVL!Direction(a)
    BY <1>1, <1>10, <1>11 DEF AVL!Heavy
  <2>. QED  BY <1>5, <2>1, Sides
<1>14. AVL!Balance = Leans(node)[s]
  <2>1. s \in AVLAddr
    BY <1>3, <1>5 DEF Tree, Typed
  <2>. QED  BY <1>3, <1>12, <2>1, Memory DEF AVL!Balance
<1>15. End(root, C, path) = C[s][a]
  BY <1>2, <1>5 DEF End, There
<1>16. There(root, C, q, sd) = s
  BY <1>2, <1>7 DEF End
<1>17. s \in U /\ \A i \in 1 .. Len(up) : up[i].of \notin D[s]
  BY <1>2, <1>5, <1>7
<1>18. Seen(U, D, C, P, s, a, up, q, sd)
  BY <1>1, <1>2, <1>3, <1>5, <1>7, <1>8, <1>12, <1>13, <1>14, <1>15, <1>16, <1>17 DEF Seen
<1>. QED  BY <1>18

-----------------------------------------------------------------------------
(* The repairs that turn nothing.                                           *)

\* The invariant, from what its parts are after a step.
LEMMA StillHeld ==
  ASSUME NEW U, NEW D, NEW H, Sound(U, root', node', D, map'), size' = Cardinality(U),
         Working(U, root', Kids(node'), D, Leans(node'), H, work')
  PROVE  AInv'
BY DEF AInv, Held

\* The balance of s becomes b.
Leant(U, B, B2, s, b) == B2[s] = b /\ \A n \in U : n # s => B2[n] = B[n]

\* A balance that is assigned leaves the memory a tree in order.
LEMMA LeanSound ==
  ASSUME NEW U, NEW rt, NEW nd, NEW D, NEW mp, Sound(U, rt, nd, D, mp), NEW s \in U, NEW b \in -1 .. 1
  PROVE  /\ Sound(U, rt, Leaning(nd, s, b), D, mp) /\ Kids(Leaning(nd, s, b)) = Kids(nd)
         /\ Leant(U, Leans(nd), Leans(Leaning(nd, s, b)), s, b)
<1>0. PICK nd2 : nd2 = Leaning(nd, s, b)
  OBVIOUS
<1>1. /\ nd \in [AVLAddr -> Record] /\ U = {n \in AVLAddr : nd[n].key # Nil}
      /\ \A n \in AVLAddr : n \notin U => Clean(nd[n])
      /\ Tree(U, rt, Kids(nd), Parents(nd), D) /\ Ordered(U, Kids(nd), Names(nd), D)
      /\ Content(U, Names(nd), Worth(nd), mp)
  BY DEF Sound
<1>2. s \in AVLAddr
  BY <1>1
<1>3. /\ nd2 \in [AVLAddr -> Record]
      /\ \A n \in AVLAddr : /\ nd2[n].key = nd[n].key /\ nd2[n].value = nd[n].value
                            /\ nd2[n].parent = nd[n].parent /\ nd2[n].children = nd[n].children
                            /\ nd2[n].b = IF n = s THEN b ELSE nd[n].b
  <2>1. /\ Leaning(nd, s, b) \in [AVLAddr -> Record]
        /\ \A n \in AVLAddr :
             /\ Leaning(nd, s, b)[n].key = nd[n].key /\ Leaning(nd, s, b)[n].value = nd[n].value
             /\ Leaning(nd, s, b)[n].parent = nd[n].parent
             /\ Leaning(nd, s, b)[n].children = nd[n].children
             /\ Leaning(nd, s, b)[n].b = IF n = s THEN b ELSE nd[n].b
    <3>1. nd \in [AVLAddr -> Record]
      BY <1>1
    <3>. QED  BY <1>2, <3>1, LeaningIs
  <2>. QED  BY <1>0, <2>1
<1>4. Kids(nd2) = Kids(nd) /\ Parents(nd2) = Parents(nd) /\ Names(nd2) = Names(nd) /\ Worth(nd2) = Worth(nd)
  BY <1>3 DEF Kids, Parents, Names, Worth
<1>5. U = {n \in AVLAddr : nd2[n].key # Nil}
  BY <1>1, <1>3
<1>6. \A n \in AVLAddr : n \notin U => Clean(nd2[n])
  BY <1>1, <1>3 DEF Clean
<1>7. Sound(U, rt, nd2, D, mp)
  BY <1>1, <1>3, <1>4, <1>5, <1>6 DEF Sound
<1>8. Leans(nd2)[s] = b /\ \A n \in U : n # s => Leans(nd2)[n] = Leans(nd)[n]
  <2>1. \A n \in AVLAddr : Leans(nd2)[n] = nd2[n].b /\ Leans(nd)[n] = nd[n].b
    BY DEF Leans
  <2>2. U \subseteq AVLAddr
    BY <1>1
  <2>. QED  BY <1>2, <1>3, <2>1, <2>2
<1>. QED  BY <1>0, <1>4, <1>7, <1>8 DEF Leant

\* The balance that goes with the heights of the children.
Level(C, H, s, b) == b = H[C[s][1]] - H[C[s][0]]

\* Current gets the balance that goes with its children's heights.
LEMMA LeanStep ==
  ASSUME NEW U, NEW D, NEW H, Held(U, D, H), NEW C, NEW P, NEW s, NEW a, NEW up, NEW q, NEW sd,
         Seen(U, D, C, P, s, a, up, q, sd), NEW g, Torn(U, C, Leans(node), H, s, a, g),
         NEW b \in -1 .. 1, AVL!Returns(b), Level(C, H, s, b), UNCHANGED map
  PROVE  \E H2 : /\ Sound(U, root', node', D, map') /\ Kids(node') = C
                 /\ Tree(U, root', C, Parents(node'), D) /\ Way(U, root', C, D, up)
                 /\ End(root', C, up) = s /\ Leans(node')[s] = b
                 /\ H2[s] = 1 + Larger(H[C[s][0]], H[C[s][1]])
                 /\ Torn(U, C, Leans(node'), H2, Lowest(up), Turn(up), H[s])
<1>1. Sound(U, root, node, D, map) /\ s \in U /\ C = Kids(node)
  BY DEF Held, Seen
<1>2. PICK nd2 : nd2 = node'
  OBVIOUS
<1>3. nd2 = Leaning(node, s, b) /\ root' = root
  BY <1>2 DEF AVL!Returns, Seen, Leaning
<1>4. /\ Sound(U, root, nd2, D, map) /\ Kids(nd2) = Kids(node)
      /\ Leans(nd2)[s] = b /\ \A n \in U : n # s => Leans(nd2)[n] = Leans(node)[n]
  <2>1. /\ Sound(U, root, Leaning(node, s, b), D, map) /\ Kids(Leaning(node, s, b)) = Kids(node)
        /\ Leant(U, Leans(node), Leans(Leaning(node, s, b)), s, b)
    BY <1>1, LeanSound
  <2>. QED  BY <1>3, <2>1 DEF Leant
<1>5. Tree(U, root, C, Parents(nd2), D)
  BY <1>1, <1>4 DEF Sound
<1>6. PICK B, B2 : B = Leans(node) /\ B2 = Leans(nd2)
  OBVIOUS
<1>7. /\ Tree(U, root, C, P, D) /\ q \in U \cup {Nil} /\ sd \in 0 .. 1 /\ There(root, C, q, sd) = s
      /\ a \in 0 .. 1 /\ Torn(U, C, B, H, s, a, g) /\ \A n \in U : n # s => B2[n] = B[n]
      /\ B2[s] = H[C[s][1]] - H[C[s][0]]
  BY <1>4, <1>6 DEF Seen, Level
<1>8. PICK H2 : H2[s] = 1 + Larger(H[C[s][0]], H[C[s][1]]) /\ Torn(U, C, B2, H2, q, sd, H[s])
  BY <1>1, <1>7, Regrown
<1>9. Way(U, root, C, D, up) /\ End(root, C, up) = s /\ q = Lowest(up) /\ sd = Turn(up)
  BY DEF Seen, End
<1>. QED  BY <1>1, <1>2, <1>3, <1>4, <1>5, <1>6, <1>8, <1>9

\* The heights of a node's children in its balance and its height.
LEMMA Weights ==
  ASSUME NEW U, NEW rt, NEW C, NEW P, NEW D, Tree(U, rt, C, P, D), NEW B, NEW H, NEW g,
         NEW s \in U, NEW a \in 0 .. 1, Torn(U, C, B, H, s, a, g)
  PROVE  \E hx, hy \in Nat :
           /\ hx = H[C[s][a]] /\ hy = H[C[s][1 - a]]
           /\ H[C[s][1]] - H[C[s][0]] = IF a = 1 THEN hx - hy ELSE hy - hx
           /\ Larger(H[C[s][0]], H[C[s][1]]) = Larger(hx, hy)
           /\ B[s] = IF a = 1 THEN g - hy ELSE hy - g
           /\ H[s] = 1 + Larger(g, hy) /\ H[s] \in Nat
<1>1. /\ Heights(H) /\ \A d \in 0 .. 1 : H[C[s][d]] \in Nat
      /\ s # Nil /\ H[s] \in Nat
  BY HeightsOf DEF Torn
<1>2. PICK o : o = 1 - a
  OBVIOUS
<1>3. (a = 0 /\ o = 1) \/ (a = 1 /\ o = 0)
  BY <1>2
<1>4. FlatWith(s, C, B, H, a, g)
  BY <1>1 DEF Torn
<1>5. PICK hx, hy : hx = H[C[s][a]] /\ hy = H[C[s][o]]
  OBVIOUS
<1>6. hx \in Nat /\ hy \in Nat
  BY <1>1, <1>3, <1>5
<1>7. B[s] = (IF a = 1 THEN g - hy ELSE hy - g) /\ H[s] = 1 + Larger(g, hy)
  BY <1>2, <1>4, <1>5 DEF FlatWith
<1>8. H[C[s][1]] - H[C[s][0]] = IF a = 1 THEN hx - hy ELSE hy - hx
  BY <1>3, <1>5
<1>9. Larger(H[C[s][0]], H[C[s][1]]) = Larger(hx, hy)
  BY <1>3, <1>5, <1>6 DEF Larger
<1>. QED  BY <1>1, <1>2, <1>5, <1>6, <1>7, <1>8, <1>9

\* Put goes on upwards when the subtree has become higher.
LEMMA PutHigherStep ==
  ASSUME AInv, AVL!PutHigher, UNCHANGED map
  PROVE  AInv'
<1>1. PICK U, D, H : Held(U, D, H)
  BY DEF AInv
<1>2. PICK C, P, s, a, up, q, sd : Seen(U, D, C, P, s, a, up, q, sd)
  BY <1>1, SeenIs DEF AVL!PutHigher
<1>3. PICK B, x, g : B = Leans(node) /\ x = C[s][a] /\ g = H[x] - 1
  OBVIOUS
<1>4. Torn(U, C, B, H, s, a, g) /\ Tree(U, root, C, P, D) /\ s \in U /\ a \in 0 .. 1
  BY <1>1, <1>2, <1>3 DEF AVL!PutHigher, Held, Working, PutTorn, Seen
<1>5. PICK hx, hy \in Nat :
        /\ hx = H[C[s][a]] /\ hy = H[C[s][1 - a]]
        /\ H[C[s][1]] - H[C[s][0]] = IF a = 1 THEN hx - hy ELSE hy - hx
        /\ Larger(H[C[s][0]], H[C[s][1]]) = Larger(hx, hy)
        /\ B[s] = IF a = 1 THEN g - hy ELSE hy - g
        /\ H[s] = 1 + Larger(g, hy) /\ H[s] \in Nat
  BY <1>4, Weights
<1>6. B[s] = 0 /\ AVL!Heavy = Dir(a) /\ up = AVL!Up
  BY <1>2, <1>3 DEF AVL!PutHigher, Seen
<1>7. g = hx - 1 /\ g = hy
  BY <1>3, <1>5, <1>6
<1>8. PICK b : b = Dir(a)
  OBVIOUS
<1>9. b \in -1 .. 1 /\ b # 0 /\ b = H[C[s][1]] - H[C[s][0]]
  BY <1>4, <1>5, <1>7, <1>8 DEF Dir
<1>10. AVL!Returns(b)
  BY <1>6, <1>8 DEF AVL!PutHigher
<1>11. PICK H2 : /\ Sound(U, root', node', D, map') /\ Kids(node') = C
                 /\ Tree(U, root', C, Parents(node'), D) /\ Way(U, root', C, D, up)
                 /\ End(root', C, up) = s /\ Leans(node')[s] = b
                 /\ H2[s] = 1 + Larger(H[C[s][0]], H[C[s][1]])
                 /\ Torn(U, C, Leans(node'), H2, Lowest(up), Turn(up), H[s])
  <2>1. Level(C, H, s, b)
    BY <1>9 DEF Level
  <2>2. Torn(U, C, Leans(node), H, s, a, g) /\ b \in -1 .. 1
    BY <1>3, <1>4, <1>9
  <2>. QED  BY <1>1, <1>2, <1>10, <2>1, <2>2, LeanStep
<1>12. H[s] = H2[s] - 1
  BY <1>5, <1>7, <1>11 DEF Larger
<1>13. s # Nil
  BY <1>4, NilApart DEF Tree, Typed
<1>14. PICK rt2, P2, B2, h : rt2 = root' /\ P2 = Parents(node') /\ B2 = Leans(node') /\ h = H[s]
  OBVIOUS
<1>15. /\ Tree(U, rt2, C, P2, D) /\ Way(U, rt2, C, D, up) /\ s = End(rt2, C, up)
       /\ Torn(U, C, B2, H2, Lowest(up), Turn(up), h) /\ h = H2[s] - 1 /\ s # Nil /\ B2[s] # 0
  BY <1>9, <1>11, <1>12, <1>13, <1>14
<1>16. Working(U, rt2, C, D, B2, H2, AVL!Unwind("put", up))
  BY <1>15, Mended
<1>17. work' = AVL!Unwind("put", up) /\ size' = Cardinality(U)
  BY <1>1, <1>6 DEF AVL!PutHigher, Held
<1>18. Working(U, root', Kids(node'), D, Leans(node'), H2, work')
  BY <1>11, <1>14, <1>16, <1>17
<1>. QED  BY <1>11, <1>17, <1>18, StillHeld

\* Put is done when the subtree has become level.
LEMMA PutLevelStep ==
  ASSUME AInv, AVL!PutLevel, UNCHANGED map
  PROVE  AInv'
<1>1. PICK U, D, H : Held(U, D, H)
  BY DEF AInv
<1>2. PICK C, P, s, a, up, q, sd : Seen(U, D, C, P, s, a, up, q, sd)
  BY <1>1, SeenIs DEF AVL!PutLevel
<1>3. PICK B, x, g : B = Leans(node) /\ x = C[s][a] /\ g = H[x] - 1
  OBVIOUS
<1>4. Torn(U, C, B, H, s, a, g) /\ Tree(U, root, C, P, D) /\ s \in U /\ a \in 0 .. 1
  BY <1>1, <1>2, <1>3 DEF AVL!PutLevel, Held, Working, PutTorn, Seen
<1>5. PICK hx, hy \in Nat :
        /\ hx = H[C[s][a]] /\ hy = H[C[s][1 - a]]
        /\ H[C[s][1]] - H[C[s][0]] = IF a = 1 THEN hx - hy ELSE hy - hx
        /\ Larger(H[C[s][0]], H[C[s][1]]) = Larger(hx, hy)
        /\ B[s] = IF a = 1 THEN g - hy ELSE hy - g
        /\ H[s] = 1 + Larger(g, hy) /\ H[s] \in Nat
  BY <1>4, Weights
<1>6. B[s] = -Dir(a) /\ up = AVL!Up
  BY <1>2, <1>3 DEF AVL!PutLevel, Seen
<1>7. g = hx - 1 /\ hx = hy
  BY <1>3, <1>4, <1>5, <1>6 DEF Dir
<1>8. PICK b : b = 0
  OBVIOUS
<1>9. b \in -1 .. 1 /\ b = H[C[s][1]] - H[C[s][0]]
  BY <1>4, <1>5, <1>7, <1>8
<1>10. AVL!Returns(b)
  BY <1>6, <1>8 DEF AVL!PutLevel
<1>11. PICK H2 : /\ Sound(U, root', node', D, map') /\ Kids(node') = C
                 /\ Tree(U, root', C, Parents(node'), D) /\ Way(U, root', C, D, up)
                 /\ End(root', C, up) = s /\ Leans(node')[s] = b
                 /\ H2[s] = 1 + Larger(H[C[s][0]], H[C[s][1]])
                 /\ Torn(U, C, Leans(node'), H2, Lowest(up), Turn(up), H[s])
  <2>1. Level(C, H, s, b)
    BY <1>9 DEF Level
  <2>2. Torn(U, C, Leans(node), H, s, a, g) /\ b \in -1 .. 1
    BY <1>3, <1>4, <1>9
  <2>. QED  BY <1>1, <1>2, <1>10, <2>1, <2>2, LeanStep
<1>12. H[s] = H2[s]
  BY <1>5, <1>7, <1>11 DEF Larger
<1>14. PICK rt2, P2, B2, h : rt2 = root' /\ P2 = Parents(node') /\ B2 = Leans(node') /\ h = H[s]
  OBVIOUS
<1>15. /\ Tree(U, rt2, C, P2, D) /\ Way(U, rt2, C, D, up) /\ s = End(rt2, C, up)
       /\ Torn(U, C, B2, H2, Lowest(up), Turn(up), h) /\ h = H2[s]
  BY <1>11, <1>12, <1>14
<1>16. Working(U, rt2, C, D, B2, H2, AVL!Idle)
  BY <1>15, Mended
<1>17. work' = AVL!Idle /\ size' = Cardinality(U)
  BY <1>1 DEF AVL!PutLevel, Held
<1>18. Working(U, root', Kids(node'), D, Leans(node'), H2, work')
  BY <1>11, <1>14, <1>16, <1>17
<1>. QED  BY <1>11, <1>17, <1>18, StillHeld

\* Remove is done when the subtree has kept its height.
LEMMA RemoveHigherStep ==
  ASSUME AInv, AVL!RemoveHigher, UNCHANGED map
  PROVE  AInv'
<1>1. PICK U, D, H : Held(U, D, H)
  BY DEF AInv
<1>2. PICK C, P, s, a, up, q, sd : Seen(U, D, C, P, s, a, up, q, sd)
  BY <1>1, SeenIs DEF AVL!RemoveHigher
<1>3. PICK B, x, g : B = Leans(node) /\ x = C[s][a] /\ g = H[x] + 1
  OBVIOUS
<1>4. Torn(U, C, B, H, s, a, g) /\ Tree(U, root, C, P, D) /\ s \in U /\ a \in 0 .. 1
  BY <1>1, <1>2, <1>3 DEF AVL!RemoveHigher, Held, Working, RemoveTorn, Seen
<1>5. PICK hx, hy \in Nat :
        /\ hx = H[C[s][a]] /\ hy = H[C[s][1 - a]]
        /\ H[C[s][1]] - H[C[s][0]] = IF a = 1 THEN hx - hy ELSE hy - hx
        /\ Larger(H[C[s][0]], H[C[s][1]]) = Larger(hx, hy)
        /\ B[s] = IF a = 1 THEN g - hy ELSE hy - g
        /\ H[s] = 1 + Larger(g, hy) /\ H[s] \in Nat
  BY <1>4, Weights
<1>6. B[s] = 0 /\ AVL!Heavy = -Dir(a) /\ up = AVL!Up
  BY <1>2, <1>3 DEF AVL!RemoveHigher, Seen
<1>7. g = hx + 1 /\ g = hy
  BY <1>3, <1>5, <1>6
<1>8. PICK b : b = -Dir(a)
  OBVIOUS
<1>9. b \in -1 .. 1 /\ b = H[C[s][1]] - H[C[s][0]]
  <2>1. b = IF a = 1 THEN -1 ELSE 1
    BY <1>8 DEF Dir
  <2>2. H[C[s][1]] - H[C[s][0]] = IF a = 1 THEN -1 ELSE 1
    BY <1>5, <1>7
  <2>. QED  BY <2>1, <2>2
<1>10. AVL!Returns(b)
  BY <1>6, <1>8 DEF AVL!RemoveHigher
<1>11. PICK H2 : /\ Sound(U, root', node', D, map') /\ Kids(node') = C
                 /\ Tree(U, root', C, Parents(node'), D) /\ Way(U, root', C, D, up)
                 /\ End(root', C, up) = s /\ Leans(node')[s] = b
                 /\ H2[s] = 1 + Larger(H[C[s][0]], H[C[s][1]])
                 /\ Torn(U, C, Leans(node'), H2, Lowest(up), Turn(up), H[s])
  <2>1. Level(C, H, s, b)
    BY <1>9 DEF Level
  <2>2. Torn(U, C, Leans(node), H, s, a, g) /\ b \in -1 .. 1
    BY <1>3, <1>4, <1>9
  <2>. QED  BY <1>1, <1>2, <1>10, <2>1, <2>2, LeanStep
<1>12. H[s] = H2[s]
  BY <1>5, <1>7, <1>11 DEF Larger
<1>14. PICK rt2, P2, B2, h : rt2 = root' /\ P2 = Parents(node') /\ B2 = Leans(node') /\ h = H[s]
  OBVIOUS
<1>15. /\ Tree(U, rt2, C, P2, D) /\ Way(U, rt2, C, D, up) /\ s = End(rt2, C, up)
       /\ Torn(U, C, B2, H2, Lowest(up), Turn(up), h) /\ h = H2[s]
  BY <1>11, <1>12, <1>14
<1>16. Working(U, rt2, C, D, B2, H2, AVL!Idle)
  BY <1>15, Mended
<1>17. work' = AVL!Idle /\ size' = Cardinality(U)
  BY <1>1 DEF AVL!RemoveHigher, Held
<1>18. Working(U, root', Kids(node'), D, Leans(node'), H2, work')
  BY <1>11, <1>14, <1>16, <1>17
<1>. QED  BY <1>11, <1>17, <1>18, StillHeld

\* Remove goes on upwards when the subtree has become level, and lower.
LEMMA RemoveLevelStep ==
  ASSUME AInv, AVL!RemoveLevel, UNCHANGED map
  PROVE  AInv'
<1>1. PICK U, D, H : Held(U, D, H)
  BY DEF AInv
<1>2. PICK C, P, s, a, up, q, sd : Seen(U, D, C, P, s, a, up, q, sd)
  BY <1>1, SeenIs DEF AVL!RemoveLevel
<1>3. PICK B, x, g : B = Leans(node) /\ x = C[s][a] /\ g = H[x] + 1
  OBVIOUS
<1>4. Torn(U, C, B, H, s, a, g) /\ Tree(U, root, C, P, D) /\ s \in U /\ a \in 0 .. 1
  BY <1>1, <1>2, <1>3 DEF AVL!RemoveLevel, Held, Working, RemoveTorn, Seen
<1>5. PICK hx, hy \in Nat :
        /\ hx = H[C[s][a]] /\ hy = H[C[s][1 - a]]
        /\ H[C[s][1]] - H[C[s][0]] = IF a = 1 THEN hx - hy ELSE hy - hx
        /\ Larger(H[C[s][0]], H[C[s][1]]) = Larger(hx, hy)
        /\ B[s] = IF a = 1 THEN g - hy ELSE hy - g
        /\ H[s] = 1 + Larger(g, hy) /\ H[s] \in Nat
  BY <1>4, Weights
<1>6. B[s] = Dir(a) /\ up = AVL!Up
  <2>1. B[s] = -(-Dir(a)) /\ up = AVL!Up
    BY <1>2, <1>3 DEF AVL!RemoveLevel, Seen
  <2>2. PICK d : d = Dir(a)
    OBVIOUS
  <2>3. d \in Int
    BY <2>2 DEF Dir
  <2>. QED  BY <2>1, <2>2, <2>3
<1>7. g = hx + 1 /\ hx = hy
  BY <1>3, <1>4, <1>5, <1>6 DEF Dir
<1>8. PICK b : b = 0
  OBVIOUS
<1>9. b \in -1 .. 1 /\ b = H[C[s][1]] - H[C[s][0]]
  BY <1>4, <1>5, <1>7, <1>8
<1>10. AVL!Returns(b)
  BY <1>6, <1>8 DEF AVL!RemoveLevel
<1>11. PICK H2 : /\ Sound(U, root', node', D, map') /\ Kids(node') = C
                 /\ Tree(U, root', C, Parents(node'), D) /\ Way(U, root', C, D, up)
                 /\ End(root', C, up) = s /\ Leans(node')[s] = b
                 /\ H2[s] = 1 + Larger(H[C[s][0]], H[C[s][1]])
                 /\ Torn(U, C, Leans(node'), H2, Lowest(up), Turn(up), H[s])
  <2>1. Level(C, H, s, b)
    BY <1>9 DEF Level
  <2>2. Torn(U, C, Leans(node), H, s, a, g) /\ b \in -1 .. 1
    BY <1>3, <1>4, <1>9
  <2>. QED  BY <1>1, <1>2, <1>10, <2>1, <2>2, LeanStep
<1>12. H[s] = H2[s] + 1
  BY <1>5, <1>7, <1>11 DEF Larger
<1>14. PICK rt2, P2, B2, h : rt2 = root' /\ P2 = Parents(node') /\ B2 = Leans(node') /\ h = H[s]
  OBVIOUS
<1>15. /\ Tree(U, rt2, C, P2, D) /\ Way(U, rt2, C, D, up) /\ s = End(rt2, C, up)
       /\ Torn(U, C, B2, H2, Lowest(up), Turn(up), h) /\ h = H2[s] + 1
  BY <1>11, <1>12, <1>14
<1>16. Working(U, rt2, C, D, B2, H2, AVL!Unwind("remove", up))
  BY <1>15, Mended
<1>17. work' = AVL!Unwind("remove", up) /\ size' = Cardinality(U)
  BY <1>1, <1>6 DEF AVL!RemoveLevel, Held
<1>18. Working(U, root', Kids(node'), D, Leans(node'), H2, work')
  BY <1>11, <1>14, <1>16, <1>17
<1>. QED  BY <1>11, <1>17, <1>18, StillHeld

-----------------------------------------------------------------------------
(* The repairs that turn nodes.                                             *)

\* Nodes that are not in use keep their balance.
OutsideLeans(U, nd, nd2) == \A n \in AVLAddr : n \notin U => nd2[n].b = nd[n].b

\* A rotation that is stored leaves a tree in order, and the way to where it was.
LEMMA RotationSound ==
  ASSUME NEW U, NEW D, NEW nd, NEW mp, Sound(U, root, nd, D, mp),
         NEW C, NEW P, C = Kids(nd), P = Parents(nd), NEW up, Way(U, root, C, D, up),
         NEW s \in U, End(root, C, up) = s, \A i \in 1 .. Len(up) : up[i].of \notin D[s],
         NEW a \in 0 .. 1, NEW r, r = C[s][a], r # Nil,
         NEW nd2, Swung(nd, nd2, s, a), AVL!Store(nd2, up, r), OutsideLeans(U, nd, nd2)
  PROVE  /\ Sound(U, root', node', TurnedD(C, D, s, a), mp)
         /\ Way(U, root', Kids(node'), TurnedD(C, D, s, a), up)
         /\ End(root', Kids(node'), up) = r
         /\ Turned(root, C, P, s, a, Lowest(up), Turn(up), Kids(node'), Parents(node'))
         /\ SameLeans(nd2, node')
<1>1. nd \in [AVLAddr -> Record] /\ Tree(U, root, C, P, D)
  BY DEF Sound
<1>2. /\ up \in Seq(Steps) /\ Lowest(up) \in U \cup {Nil} /\ Turn(up) \in 0 .. 1
      /\ (up = <<>> <=> Lowest(up) = Nil)
  BY <1>1, WayEnds
<1>3. PICK q, sd, nd3, rt2, C3, P3 :
        /\ q = Lowest(up) /\ sd = Turn(up) /\ nd3 = node' /\ rt2 = RootWith(root, q, r)
        /\ C3 = Kids(nd3) /\ P3 = Parents(nd3)
  OBVIOUS
<1>4. /\ node' \in [AVLAddr -> Record] /\ root' = RootWith(root, q, r)
      /\ Keeps(nd, node')
      /\ Turned(root, C, P, s, a, q, sd, Kids(node'), Parents(node'))
      /\ SameLeans(nd2, node')
  <2>1. Rotated(nd, nd2, root, s, a, q, sd, r, root', node')
    BY <1>1, <1>2, <1>3, RotationStep
  <2>. QED  BY <2>1 DEF Rotated
<1>5. /\ q \in U \cup {Nil} /\ sd \in 0 .. 1 /\ There(root, C, q, sd) = s /\ nd3 \in [AVLAddr -> Record]
      /\ Keeps(nd, nd3) /\ Turned(root, C, P, s, a, q, sd, C3, P3) /\ (q = Nil => up = <<>>)
  BY <1>2, <1>3, <1>4 DEF End
<1>6. \A n \in AVLAddr : n \notin U => nd3[n].b = nd[n].b
  <2>1. \A n \in AVLAddr : Leans(nd3)[n] = nd3[n].b
    BY DEF Leans
  <2>. QED  BY <1>3, <1>4, <2>1 DEF OutsideLeans, SameLeans
<1>7. Sound(U, RootWith(root, q, r), nd3, TurnedD(C, D, s, a), mp)
  <2>1. Turned(root, C, P, s, a, q, sd, Kids(nd3), Parents(nd3))
    BY <1>3, <1>5
  <2>. QED  BY <1>5, <1>6, <2>1, SoundTurned
<1>8. Way(U, RootWith(root, q, r), C3, TurnedD(C, D, s, a), up)
  BY <1>1, <1>3, <1>5, WayTurned
<1>9. There(RootWith(root, q, r), C3, q, sd) = r
  <2>1. CASE q = Nil
    BY <2>1 DEF There, RootWith
  <2>2. CASE q # Nil
    <3>1. q # s /\ q # C[s][a] /\ q \in Nodes
      BY <1>1, <1>5, Apart
    <3>2. q \in AVLAddr
      BY <2>2, <3>1 DEF Nodes
    <3>3. C3[q][sd] = r
      BY <1>5, <3>1, <3>2 DEF Turned
    <3>. QED  BY <2>2, <3>3 DEF There
  <2>. QED  BY <2>1, <2>2
<1>10. End(root', Kids(node'), up) = r
  BY <1>3, <1>4, <1>9 DEF End
<1>. QED  BY <1>3, <1>4, <1>7, <1>8, <1>10

\* The child r of s on the side o is higher by two than the other.
TwoHigher(C, H, s, o, r) == H[r] = H[C[s][1 - o]] + 2

\* s and r get the balances b and d.
Rebalanced(U, B, B2, s, b, r, d) ==
  B2[s] = b /\ B2[r] = d /\ \A n \in U : n # s /\ n # r => B2[n] = B[n]

\* What the repair leaves: t, with the height h, where there was the height g.
Regained(U, C, B, q, sd, t, h, g) == \E H2 : H2[t] = h /\ Torn(U, C, B, H2, q, sd, g)

\* What a single rotation leaves of the heights, when s was torn.
LEMMA SingleTorn ==
  ASSUME NEW U, NEW rt, NEW C, NEW P, NEW D, Tree(U, rt, C, P, D),
         NEW q \in U \cup {Nil}, NEW sd \in 0 .. 1, NEW s \in U, NEW o \in 0 .. 1,
         There(rt, C, q, sd) = s, NEW r, r = C[s][o], r # Nil,
         NEW C2, NEW P2, Turned(rt, C, P, s, o, q, sd, C2, P2),
         NEW H, NEW B, NEW B2, NEW a, NEW g, Torn(U, C, B, H, s, a, g),
         B[r] = Dir(o), TwoHigher(C, H, s, o, r), Rebalanced(U, B, B2, s, 0, r, 0)
  PROVE  Regained(U, C2, B2, q, sd, r, H[r], H[s])
<1>1. /\ Heights(H) /\ (\A n \in U : n # s => Flat(n, C, B, H))
      /\ H[r] = H[C[s][1 - o]] + 2
      /\ B2[s] = 0 /\ B2[r] = 0 /\ (\A n \in U : n # s /\ n # r => B2[n] = B[n])
  BY DEF Torn, TwoHigher, Rebalanced
<1>2. \E H2 : /\ Heights(H2) /\ H2[r] = H[r]
              /\ \A n \in U : n # q => Flat(n, C2, B2, H2)
              /\ q # Nil => FlatWith(q, C2, B2, H2, sd, H[s])
  BY <1>1, SingleHeights, SMTT(60)
<1>. QED  BY <1>2 DEF Regained, Torn

\* What the rotation of a level child leaves of the heights, when s was torn.
LEMMA LevelTorn ==
  ASSUME NEW U, NEW rt, NEW C, NEW P, NEW D, Tree(U, rt, C, P, D),
         NEW q \in U \cup {Nil}, NEW sd \in 0 .. 1, NEW s \in U, NEW o \in 0 .. 1,
         There(rt, C, q, sd) = s, NEW r, r = C[s][o], r # Nil,
         NEW C2, NEW P2, Turned(rt, C, P, s, o, q, sd, C2, P2),
         NEW H, NEW B, NEW B2, NEW a, NEW g, Torn(U, C, B, H, s, a, g),
         B[r] = 0, TwoHigher(C, H, s, o, r), NEW b, b = Dir(o), NEW d, d = -Dir(o),
         Rebalanced(U, B, B2, s, b, r, d), NEW h, h = H[r] + 1
  PROVE  Regained(U, C2, B2, q, sd, r, h, H[s])
<1>1. /\ Heights(H) /\ (\A n \in U : n # s => Flat(n, C, B, H))
      /\ H[r] = H[C[s][1 - o]] + 2
      /\ B2[s] = Dir(o) /\ B2[r] = -Dir(o) /\ (\A n \in U : n # s /\ n # r => B2[n] = B[n])
  BY DEF Torn, TwoHigher, Rebalanced
<1>2. \E H2 : /\ Heights(H2) /\ H2[r] = H[r] + 1
              /\ \A n \in U : n # q => Flat(n, C2, B2, H2)
              /\ q # Nil => FlatWith(q, C2, B2, H2, sd, H[s])
  BY <1>1, LevelHeights, SMTT(60)
<1>. QED  BY <1>2 DEF Regained, Torn

\* The double rotation: p is above s and r.
LEMMA DoubleTorn ==
  ASSUME NEW U, NEW rt, NEW C, NEW P, NEW D, NEW q, NEW sd, NEW s, NEW o, NEW r, NEW p,
         NEW C1, NEW P1, Bends(U, rt, C, P, D, q, sd, s, o, r, p, C1, P1),
         NEW C2, NEW P2, Turned(rt, C1, P1, s, o, q, sd, C2, P2),
         NEW H, NEW B, NEW B2, NEW a, NEW g, Torn(U, C, B, H, s, a, g), B[p] \in -1 .. 1,
         B[r] = -Dir(o), TwoHigher(C, H, s, o, r),
         B2[s] = IF B[p] = Dir(o) THEN -Dir(o) ELSE 0,
         B2[r] = IF B[p] = -Dir(o) THEN Dir(o) ELSE 0,
         B2[p] = 0,
         \A n \in U : n # s /\ n # r /\ n # p => B2[n] = B[n]
  PROVE  Regained(U, C2, B2, q, sd, p, H[r], H[s])
<1>1. /\ Heights(H) /\ (\A n \in U : n # s => Flat(n, C, B, H))
      /\ H[r] = H[C[s][1 - o]] + 2
  BY DEF Torn, TwoHigher
<1>2. \E H2 : /\ Heights(H2) /\ H2[p] = H[r]
              /\ \A n \in U : n # q => Flat(n, C2, B2, H2)
              /\ q # Nil => FlatWith(q, C2, B2, H2, sd, H[s])
  BY <1>1, DoubleHeights
<1>. QED  BY <1>2 DEF Regained, Torn

\* The side o of s is higher by two, and its child there does not stand level: when it
\* is repaired, what is in its place has the height that the child had.
Leaves(U, up, h, g) ==
  \E D2, H2, t :
    /\ Sound(U, root', node', D2, map) /\ Way(U, root', Kids(node'), D2, up)
    /\ t = End(root', Kids(node'), up) /\ t # Nil /\ H2[t] = h
    /\ Torn(U, Kids(node'), Leans(node'), H2, Lowest(up), Turn(up), g)

\* A single rotation repairs the node at work.
LEMMA SingleStep ==
  ASSUME NEW U, NEW D, NEW H, Held(U, D, H), NEW C, NEW P, NEW s, NEW a, NEW up, NEW q, NEW sd,
         Seen(U, D, C, P, s, a, up, q, sd), NEW g, Torn(U, C, Leans(node), H, s, a, g),
         NEW o \in 0 .. 1, NEW r, r = C[s][o], r # Nil, TwoHigher(C, H, s, o, r),
         Leans(node)[r] = Dir(o), AVL!Store(AVL!SingleRotate(node, Dir(o), s), up, r)
  PROVE  Leaves(U, up, H[r], H[s])
<1>1. /\ Sound(U, root, node, D, map) /\ node \in [AVLAddr -> Record] /\ C = Kids(node) /\ P = Parents(node)
      /\ Tree(U, root, C, P, D) /\ Way(U, root, C, D, up) /\ s \in U /\ There(root, C, q, sd) = s
      /\ q \in U \cup {Nil} /\ sd \in 0 .. 1 /\ q = Lowest(up) /\ sd = Turn(up) /\ End(root, C, up) = s
      /\ \A i \in 1 .. Len(up) : up[i].of \notin D[s]
  BY DEF Held, Seen, End
<1>2. PICK nd2 : nd2 = AVL!SingleRotate(node, Dir(o), s)
  OBVIOUS
<1>3. Swung(node, nd2, s, o) /\ \A n \in AVLAddr : nd2[n].b = IF n = s \/ n = r THEN 0 ELSE node[n].b
  BY <1>1, <1>2, SingleIs
<1>4. r \in U /\ s # r /\ U \subseteq AVLAddr
  <2>1. C[s][o] \in U /\ C[s][o] # s
    BY <1>1, Apart
  <2>. QED  BY <1>1, <2>1 DEF Tree, Typed
<1>5. OutsideLeans(U, node, nd2)
  BY <1>1, <1>3, <1>4 DEF OutsideLeans
<1>6. AVL!Store(nd2, up, r)
  BY <1>2
<1>7. /\ Sound(U, root', node', TurnedD(C, D, s, o), map)
      /\ Way(U, root', Kids(node'), TurnedD(C, D, s, o), up)
      /\ End(root', Kids(node'), up) = r
      /\ Turned(root, C, P, s, o, Lowest(up), Turn(up), Kids(node'), Parents(node'))
      /\ SameLeans(nd2, node')
  BY <1>1, <1>3, <1>5, <1>6, RotationSound
<1>8. PICK B, B2, C2, P2 : B = Leans(node) /\ B2 = Leans(node') /\ C2 = Kids(node') /\ P2 = Parents(node')
  OBVIOUS
<1>9. \A n \in AVLAddr : B2[n] = nd2[n].b /\ B[n] = node[n].b
  BY <1>7, <1>8 DEF SameLeans, Leans
<1>10. /\ B[r] = Dir(o) /\ Rebalanced(U, B, B2, s, 0, r, 0) /\ Torn(U, C, B, H, s, a, g)
       /\ Turned(root, C, P, s, o, q, sd, C2, P2)
  BY <1>1, <1>3, <1>4, <1>7, <1>8, <1>9 DEF Rebalanced
<1>11. Regained(U, C2, B2, q, sd, r, H[r], H[s])
  BY <1>1, <1>10, SingleTorn
<1>. QED  BY <1>1, <1>7, <1>8, <1>11 DEF Leaves, Regained

\* The rotation of a level child repairs the node at work.
LEMMA LevelStep ==
  ASSUME NEW U, NEW D, NEW H, Held(U, D, H), NEW C, NEW P, NEW s, NEW a, NEW up, NEW q, NEW sd,
         Seen(U, D, C, P, s, a, up, q, sd), NEW g, Torn(U, C, Leans(node), H, s, a, g),
         NEW o \in 0 .. 1, NEW r, r = C[s][o], r # Nil, TwoHigher(C, H, s, o, r),
         Leans(node)[s] = Dir(o), Leans(node)[r] = 0, NEW b \in -1 .. 1, b = -Dir(o),
         AVL!Store(Leaning(AVL!Rotate(node, Dir(o), s), r, b), up, r),
         NEW h, h = H[r] + 1
  PROVE  Leaves(U, up, h, H[s])
<1>1. /\ Sound(U, root, node, D, map) /\ node \in [AVLAddr -> Record] /\ C = Kids(node) /\ P = Parents(node)
      /\ Tree(U, root, C, P, D) /\ Way(U, root, C, D, up) /\ s \in U /\ There(root, C, q, sd) = s
      /\ q \in U \cup {Nil} /\ sd \in 0 .. 1 /\ q = Lowest(up) /\ sd = Turn(up) /\ End(root, C, up) = s
      /\ \A i \in 1 .. Len(up) : up[i].of \notin D[s]
  BY DEF Held, Seen, End
<1>2. PICK nd2 : nd2 = Leaning(AVL!Rotate(node, Dir(o), s), r, b)
  OBVIOUS
<1>3. Swung(node, nd2, s, o) /\ \A n \in AVLAddr : nd2[n].b = IF n = r THEN b ELSE node[n].b
  BY <1>1, <1>2, LevelIs
<1>4. r \in U /\ s # r /\ U \subseteq AVLAddr
  <2>1. C[s][o] \in U /\ C[s][o] # s
    BY <1>1, Apart
  <2>. QED  BY <1>1, <2>1 DEF Tree, Typed
<1>5. OutsideLeans(U, node, nd2)
  BY <1>1, <1>3, <1>4 DEF OutsideLeans
<1>6. AVL!Store(nd2, up, r)
  BY <1>2
<1>7. /\ Sound(U, root', node', TurnedD(C, D, s, o), map)
      /\ Way(U, root', Kids(node'), TurnedD(C, D, s, o), up)
      /\ End(root', Kids(node'), up) = r
      /\ Turned(root, C, P, s, o, Lowest(up), Turn(up), Kids(node'), Parents(node'))
      /\ SameLeans(nd2, node')
  BY <1>1, <1>3, <1>5, <1>6, RotationSound
<1>8. PICK B, B2, C2, P2 : B = Leans(node) /\ B2 = Leans(node') /\ C2 = Kids(node') /\ P2 = Parents(node')
  OBVIOUS
<1>9. \A n \in AVLAddr : B2[n] = nd2[n].b /\ B[n] = node[n].b
  BY <1>7, <1>8 DEF SameLeans, Leans
<1>10. PICK d : d = Dir(o)
  OBVIOUS
<1>11. /\ B[r] = 0 /\ Rebalanced(U, B, B2, s, d, r, b) /\ Torn(U, C, B, H, s, a, g)
       /\ Turned(root, C, P, s, o, q, sd, C2, P2)
  BY <1>1, <1>3, <1>4, <1>7, <1>8, <1>9, <1>10 DEF Rebalanced
<1>12. Regained(U, C2, B2, q, sd, r, h, H[s])
  BY <1>1, <1>10, <1>11, LevelTorn
<1>. QED  BY <1>1, <1>7, <1>8, <1>12 DEF Leaves, Regained

\* A double rotation repairs the node at work.
LEMMA DoubleStep ==
  ASSUME NEW U, NEW D, NEW H, Held(U, D, H), NEW C, NEW P, NEW s, NEW a, NEW up, NEW q, NEW sd,
         Seen(U, D, C, P, s, a, up, q, sd), NEW g, Torn(U, C, Leans(node), H, s, a, g),
         NEW o \in 0 .. 1, NEW r, r = C[s][o], r # Nil, TwoHigher(C, H, s, o, r),
         Leans(node)[r] = -Dir(o), NEW p, p = C[r][1 - o], p # Nil,
         AVL!Store(AVL!DoubleRotate(node, Dir(o), s), up, p)
  PROVE  Leaves(U, up, H[r], H[s])
<1>1. /\ Sound(U, root, node, D, map) /\ node \in [AVLAddr -> Record] /\ C = Kids(node) /\ P = Parents(node)
      /\ Tree(U, root, C, P, D) /\ Way(U, root, C, D, up) /\ s \in U /\ There(root, C, q, sd) = s
      /\ q \in U \cup {Nil} /\ sd \in 0 .. 1 /\ q = Lowest(up) /\ sd = Turn(up)
      /\ \A i \in 1 .. Len(up) : up[i].of \notin D[s]
  BY DEF Held, Seen
<1>2. PICK nd2, e : nd2 = AVL!DoubleRotate(node, Dir(o), s) /\ e = 1 - o
  OBVIOUS
<1>3. PICK nd1 \in [AVLAddr -> Record] :
        /\ Keeps(node, nd1) /\ \A n \in AVLAddr : nd1[n].b = node[n].b
        /\ Bends(U, root, C, P, D, q, sd, s, o, r, p, Kids(nd1), Parents(nd1))
        /\ Swung(nd1, nd2, s, o)
        /\ \A n \in AVLAddr :
             nd2[n].b = IF n = s THEN IF node[p].b = Dir(o) THEN -Dir(o) ELSE 0
                        ELSE IF n = r THEN IF node[p].b = -Dir(o) THEN Dir(o) ELSE 0
                        ELSE IF n = p THEN 0 ELSE node[n].b
  BY <1>1, <1>2, DoubleIs, SMTT(60)
<1>4. PICK C1, P1, D1 : C1 = Kids(nd1) /\ P1 = Parents(nd1) /\ D1 = TurnedD(C, D, r, e)
  OBVIOUS
<1>5. Bends(U, root, C, P, D, q, sd, s, o, r, p, C1, P1) /\ Turned(root, C, P, r, e, s, o, C1, P1)
  BY <1>2, <1>3, <1>4 DEF Bends
<1>6. Bent(U, root, C, D, q, sd, s, o, r, p, C1, P1)
  BY <1>5, DoubleTree
<1>7. /\ r \in U /\ p \in U /\ e \in 0 .. 1 /\ There(root, C, s, o) = r /\ Tree(U, root, C1, P1, D1)
      /\ There(root, C1, q, sd) = s /\ C1[s][o] = p /\ s # r /\ s # p /\ r # p
  BY <1>2, <1>4, <1>6 DEF Bent
<1>8. U \subseteq AVLAddr /\ s \in Nodes /\ s # Nil /\ s \in D[s] /\ D[r] \subseteq D[s]
  <2>1. U \subseteq AVLAddr /\ s \in D[s] /\ D[s] = {s} \cup D[C[s][0]] \cup D[C[s][1]]
    BY <1>1 DEF Tree, Typed, Parted
  <2>2. D[r] \subseteq D[s]
    BY <2>1
  <2>. QED  BY <1>1, <2>1, <2>2, NilApart DEF Nodes
<1>9. Sound(U, root, nd1, D1, map)
  <2>1. s \in U \cup {Nil} /\ p = C[r][e] /\ \A n \in AVLAddr : n \notin U => nd1[n].b = node[n].b
    BY <1>1, <1>2, <1>3
  <2>2. Turned(root, C, P, r, e, s, o, Kids(nd1), Parents(nd1))
    BY <1>4, <1>5
  <2>3. /\ Sound(U, root, node, D, map) /\ C = Kids(node) /\ P = Parents(node) /\ o \in 0 .. 1
        /\ r \in U /\ There(root, C, s, o) = r /\ e \in 0 .. 1 /\ p # Nil
        /\ nd1 \in [AVLAddr -> Record] /\ Keeps(node, nd1)
    BY <1>1, <1>3, <1>7
  <2>4. Sound(U, RootWith(root, s, p), nd1, TurnedD(C, D, r, e), map)
    BY ONLY <2>1, <2>2, <2>3, SoundTurned, SMTT(60)
  <2>. QED  BY <1>4, <1>8, <2>4 DEF RootWith
<1>10. Way(U, root, C1, D1, up)
  <2>1. s \in U \cup {Nil} /\ p = C[r][e]
    BY <1>1, <1>2
  <2>2. \A i \in 1 .. Len(up) : up[i].of \notin D[r] /\ up[i].of # s
    BY <1>1, <1>8
  <2>3. Way(U, RootWith(root, s, p), C1, TurnedD(C, D, r, e), up)
    BY <1>1, <1>5, <1>7, <1>8, <2>1, <2>2, WayTurned
  <2>. QED  BY <1>4, <1>8, <2>3 DEF RootWith
<1>11. \A i \in 1 .. Len(up) : up[i].of \notin D1[s]
  <2>1. D1[s] = D[s]
    BY <1>2, <1>4, <1>7, <1>8 DEF TurnedD
  <2>. QED  BY <1>1, <2>1
<1>12. OutsideLeans(U, nd1, nd2) /\ AVL!Store(nd2, up, p) /\ End(root, C1, up) = s
  BY <1>1, <1>2, <1>3, <1>7 DEF OutsideLeans, End
<1>13. /\ Sound(U, root', node', TurnedD(C1, D1, s, o), map)
       /\ Way(U, root', Kids(node'), TurnedD(C1, D1, s, o), up)
       /\ End(root', Kids(node'), up) = p
       /\ Turned(root, C1, P1, s, o, Lowest(up), Turn(up), Kids(node'), Parents(node'))
       /\ SameLeans(nd2, node')
  <2>1. /\ Sound(U, root, nd1, D1, map) /\ C1 = Kids(nd1) /\ P1 = Parents(nd1) /\ Way(U, root, C1, D1, up)
        /\ s \in U /\ End(root, C1, up) = s /\ (\A i \in 1 .. Len(up) : up[i].of \notin D1[s])
        /\ o \in 0 .. 1 /\ p = C1[s][o] /\ p # Nil /\ Swung(nd1, nd2, s, o) /\ AVL!Store(nd2, up, p)
        /\ OutsideLeans(U, nd1, nd2)
    BY <1>1, <1>3, <1>4, <1>7, <1>9, <1>10, <1>11, <1>12
  <2>. QED  BY ONLY <2>1, RotationSound, SMTT(60)
<1>14. PICK B, B2, C2, P2 : B = Leans(node) /\ B2 = Leans(node') /\ C2 = Kids(node') /\ P2 = Parents(node')
  OBVIOUS
<1>15. \A n \in AVLAddr : B2[n] = nd2[n].b /\ B[n] = node[n].b
  BY <1>13, <1>14 DEF SameLeans, Leans
<1>16. /\ B[r] = -Dir(o) /\ Torn(U, C, B, H, s, a, g) /\ B[p] \in -1 .. 1
       /\ B2[s] = (IF B[p] = Dir(o) THEN -Dir(o) ELSE 0)
       /\ B2[r] = (IF B[p] = -Dir(o) THEN Dir(o) ELSE 0)
       /\ B2[p] = 0
       /\ (\A n \in U : n # s /\ n # r /\ n # p => B2[n] = B[n])
       /\ Turned(root, C1, P1, s, o, q, sd, C2, P2)
  <2>1. B[p] \in -1 .. 1
    BY <1>1, <1>7, <1>8, <1>15 DEF Record
  <2>2. s \in AVLAddr /\ r \in AVLAddr /\ p \in AVLAddr /\ s # r /\ s # p /\ r # p
    BY <1>1, <1>7, <1>8
  <2>3. B2[s] = IF B[p] = Dir(o) THEN -Dir(o) ELSE 0
    BY <1>3, <1>15, <2>2
  <2>4. B2[r] = IF B[p] = -Dir(o) THEN Dir(o) ELSE 0
    BY <1>3, <1>15, <2>2
  <2>5. B2[p] = 0 /\ \A n \in U : n # s /\ n # r /\ n # p => B2[n] = B[n]
    <3>1. B2[p] = 0
      BY <1>3, <1>8, <1>15, <2>2
    <3>2. ASSUME NEW n \in U, n # s, n # r, n # p PROVE B2[n] = B[n]
      BY <1>3, <1>8, <1>15, <2>2, <3>2
    <3>. QED  BY <3>1, <3>2
  <2>6. Turned(root, C1, P1, s, o, q, sd, C2, P2)
    BY <1>1, <1>13, <1>14
  <2>. QED  BY <1>14, <2>1, <2>3, <2>4, <2>5, <2>6
<1>17. Regained(U, C2, B2, q, sd, p, H[r], H[s])
  BY <1>5, <1>16, DoubleTorn
<1>. QED  BY <1>1, <1>13, <1>14, <1>17 DEF Leaves, Regained

\* Repair, whichever rotation it takes.
LEMMA RepairStep ==
  ASSUME NEW U, NEW D, NEW H, Held(U, D, H), NEW C, NEW P, NEW s, NEW a, NEW up, NEW q, NEW sd,
         Seen(U, D, C, P, s, a, up, q, sd), NEW g, Torn(U, C, Leans(node), H, s, a, g),
         NEW o \in 0 .. 1, NEW r, r = C[s][o], r # Nil, TwoHigher(C, H, s, o, r),
         Leans(node)[r] # 0, NEW c, c = Dir(o), AVL!Repair(c, s, up)
  PROVE  Leaves(U, up, H[r], H[s])
<1>1. /\ node \in [AVLAddr -> Record] /\ C = Kids(node) /\ Tree(U, root, C, P, D) /\ s \in U
      /\ There(root, C, q, sd) = s /\ q \in U \cup {Nil} /\ sd \in 0 .. 1
  BY DEF Seen
<1>2. r \in U /\ r # s /\ U \subseteq AVLAddr
  <2>1. C[s][o] \in U /\ C[s][o] # s
    BY <1>1, Apart
  <2>. QED  BY <1>1, <2>1 DEF Tree, Typed
<1>3. AVL!SideOf(c) = o /\ c \in {-1, 1}
  BY Sides
<1>4. node[s].children[AVL!SideOf(c)] = r /\ Leans(node)[r] = node[r].b /\ node[r].b \in -1 .. 1
  BY <1>1, <1>2, <1>3, Memory DEF Record
<1>5. CASE node[r].b = c
  <2>1. AVL!Store(AVL!SingleRotate(node, c, s), up, r)
    BY <1>4, <1>5 DEF AVL!Repair
  <2>2. AVL!Store(AVL!SingleRotate(node, Dir(o), s), up, r) /\ Leans(node)[r] = Dir(o)
    BY <1>4, <1>5, <2>1
  <2>. QED  BY <2>2, SingleStep
<1>6. CASE node[r].b # c
  <2>1. PICK p : p = C[r][1 - o]
    OBVIOUS
  <2>2. node[r].children[1 - AVL!SideOf(c)] = p
    BY <1>1, <1>2, <1>3, <2>1, Memory
  <2>3. AVL!Store(AVL!DoubleRotate(node, c, s), up, p)
    BY <1>4, <1>6, <2>2 DEF AVL!Repair
  <2>4. node[r].b = -c
    BY <1>3, <1>4, <1>6
  <2>5. AVL!Store(AVL!DoubleRotate(node, Dir(o), s), up, p) /\ Leans(node)[r] = -Dir(o)
    BY <1>4, <2>3, <2>4
  <2>6. p # Nil
    <3>1. Flat(r, C, Leans(node), H) /\ Heights(H)
      BY <1>2 DEF Torn
    <3>2. H[C[r][0]] \in Nat /\ H[C[r][1]] \in Nat /\ H[Nil] = 0
      BY <1>1, <1>2, <3>1, HeightsOf DEF Heights
    <3>3. Leans(node)[r] = H[C[r][1]] - H[C[r][0]]
      BY <3>1 DEF Flat
    <3>4. o = 0 \/ o = 1
      OBVIOUS
    <3>5. CASE o = 0
      BY <2>1, <2>5, <3>2, <3>3, <3>5 DEF Dir
    <3>6. CASE o = 1
      BY <2>1, <2>5, <3>2, <3>3, <3>6 DEF Dir
    <3>. QED  BY <3>4, <3>5, <3>6
  <2>. QED  BY <2>1, <2>5, <2>6, DoubleStep
<1>. QED  BY <1>5, <1>6

\* Leaves, and what is to be repaired after it.
LEMMA LeavesIs ==
  ASSUME NEW U, NEW up, NEW h, NEW g, Leaves(U, up, h, g), UNCHANGED map, size' = Cardinality(U)
  PROVE  /\ g = h /\ work' = AVL!Idle => AInv'
         /\ g = h + 1 /\ work' = AVL!Unwind("remove", up) => AInv'
<1>1. PICK D2, H2, t :
        /\ Sound(U, root', node', D2, map) /\ Way(U, root', Kids(node'), D2, up)
        /\ t = End(root', Kids(node'), up) /\ t # Nil /\ H2[t] = h
        /\ Torn(U, Kids(node'), Leans(node'), H2, Lowest(up), Turn(up), g)
  BY DEF Leaves
<1>2. PICK rt2, C2, P2, B2, nd2 :
        /\ rt2 = root' /\ C2 = Kids(node') /\ P2 = Parents(node') /\ B2 = Leans(node') /\ nd2 = node'
  OBVIOUS
<1>3. Tree(U, rt2, C2, P2, D2)
  BY <1>1, <1>2 DEF Sound
<1>4. Way(U, rt2, C2, D2, up) /\ t = End(rt2, C2, up) /\ Torn(U, C2, B2, H2, Lowest(up), Turn(up), g)
  BY <1>1, <1>2
<1>5. Sound(U, root', node', D2, map')
  BY <1>1
<1>6. ASSUME g = h, work' = AVL!Idle PROVE AInv'
  <2>1. Working(U, rt2, C2, D2, B2, H2, AVL!Idle)
    BY <1>1, <1>3, <1>4, <1>6, Mended
  <2>2. Working(U, root', Kids(node'), D2, Leans(node'), H2, work')
    BY <1>2, <1>6, <2>1
  <2>. QED  BY <1>5, <2>2, StillHeld
<1>7. ASSUME g = h + 1, work' = AVL!Unwind("remove", up) PROVE AInv'
  <2>1. Working(U, rt2, C2, D2, B2, H2, AVL!Unwind("remove", up))
    BY <1>1, <1>3, <1>4, <1>7, Mended
  <2>2. Working(U, root', Kids(node'), D2, Leans(node'), H2, work')
    BY <1>2, <1>7, <2>1
  <2>. QED  BY <1>5, <2>2, StillHeld
<1>. QED  BY <1>6, <1>7

\* Put is done when it has rotated.
LEMMA PutRotateStep ==
  ASSUME AInv, AVL!PutRotate, UNCHANGED map
  PROVE  AInv'
<1>1. PICK U, D, H : Held(U, D, H)
  BY DEF AInv
<1>2. PICK C, P, s, a, up, q, sd : Seen(U, D, C, P, s, a, up, q, sd)
  BY <1>1, SeenIs DEF AVL!PutRotate
<1>3. PICK B, x, g : B = Leans(node) /\ x = C[s][a] /\ g = H[x] - 1
  OBVIOUS
<1>4. /\ Torn(U, C, B, H, s, a, g) /\ Tree(U, root, C, P, D) /\ s \in U /\ a \in 0 .. 1
      /\ x # Nil /\ (B[x] # 0 \/ H[x] = 1)
  BY <1>1, <1>2, <1>3 DEF AVL!PutRotate, Held, Working, PutTorn, Seen
<1>5. PICK hx, hy \in Nat :
        /\ hx = H[C[s][a]] /\ hy = H[C[s][1 - a]]
        /\ H[C[s][1]] - H[C[s][0]] = IF a = 1 THEN hx - hy ELSE hy - hx
        /\ Larger(H[C[s][0]], H[C[s][1]]) = Larger(hx, hy)
        /\ B[s] = IF a = 1 THEN g - hy ELSE hy - g
        /\ H[s] = 1 + Larger(g, hy) /\ H[s] \in Nat
  BY <1>4, Weights
<1>6. B[s] = AVL!Heavy /\ AVL!Heavy = Dir(a) /\ up = AVL!Up /\ s = AVL!Current
  BY <1>2, <1>3 DEF AVL!PutRotate, Seen
<1>7. g = hx - 1 /\ hx = hy + 2 /\ H[s] = hx
  <2>1. g = hx - 1
    BY <1>3, <1>5
  <2>2. a = 0 \/ a = 1
    BY <1>4
  <2>3. g = hy + 1
    BY <1>5, <1>6, <2>1, <2>2 DEF Dir
  <2>. QED  BY <1>5, <2>1, <2>3 DEF Larger
<1>8. TwoHigher(C, H, s, a, x) /\ B[x] # 0
  BY <1>3, <1>4, <1>5, <1>7 DEF TwoHigher
<1>9. PICK c : c = Dir(a)
  OBVIOUS
<1>10. AVL!Repair(c, s, up)
  BY <1>6, <1>9 DEF AVL!PutRotate
<1>11. Leaves(U, up, H[x], H[s])
  <2>1. Torn(U, C, Leans(node), H, s, a, g) /\ Leans(node)[x] # 0
    BY <1>3, <1>4, <1>8
  <2>. QED  BY <1>1, <1>2, <1>3, <1>4, <1>8, <1>9, <1>10, <2>1, RepairStep
<1>12. H[s] = H[x] /\ work' = AVL!Idle /\ size' = Cardinality(U)
  BY <1>1, <1>3, <1>5, <1>7 DEF AVL!PutRotate, Held
<1>13. PICK h, j : h = H[x] /\ j = H[s]
  OBVIOUS
<1>. QED  BY <1>11, <1>12, <1>13, LeavesIs

\* A Put that has to rotate on the left panics, and leaves the nodes as they are.
LEMMA PutPanicStep ==
  ASSUME AInv, AVL!PutPanic, UNCHANGED map
  PROVE  AInv'
<1>1. PICK U, D, H : Held(U, D, H)
  BY DEF AInv
<1>2. /\ work' = [work EXCEPT !.op = "panic"] /\ work.op = "put"
      /\ root' = root /\ node' = node /\ size' = size /\ map' = map
  BY DEF AVL!PutPanic
<1>3. PICK C, B, wk : C = Kids(node) /\ B = Leans(node) /\ wk = work'
  OBVIOUS
<1>4. Working(U, root, C, D, B, H, work) /\ Sound(U, root, node, D, map) /\ size = Cardinality(U)
  BY <1>1, <1>3 DEF Held
<1>5. /\ wk \in [op : {"none", "put", "remove", "panic"}, path : Seq(Steps)]
      /\ wk.op = "panic" /\ wk.path = work.path
  BY <1>2, <1>3, <1>4 DEF Working
<1>6. Working(U, root, C, D, B, H, wk)
  BY <1>2, <1>4, <1>5 DEF Working
<1>7. Working(U, root', Kids(node'), D, Leans(node'), H, work')
  BY <1>2, <1>3, <1>6
<1>. QED  BY <1>2, <1>4, <1>7, StillHeld

\* What the side that a Remove has lowered says of the other, o, whose child is r.
LEMMA RemoveSees ==
  ASSUME NEW U, NEW D, NEW H, Held(U, D, H), NEW C, NEW P, NEW s, NEW a, NEW up, NEW q, NEW sd,
         Seen(U, D, C, P, s, a, up, q, sd), work.op = "remove", AVL!Balance = AVL!Heavy
  PROVE  \E o, r, c, g :
           /\ o \in 0 .. 1 /\ r = C[s][o] /\ r # Nil /\ c = Dir(o) /\ AVL!Heavy = c /\ AVL!Sibling = r
           /\ Torn(U, C, Leans(node), H, s, a, g) /\ TwoHigher(C, H, s, o, r)
           /\ H[s] = H[r] + 1 /\ Leans(node)[s] = c /\ node[r].b = Leans(node)[r]
           /\ H[r] \in Nat
<1>1. PICK B, x, g, o, r : B = Leans(node) /\ x = C[s][a] /\ g = H[x] + 1 /\ o = 1 - a /\ r = C[s][o]
  OBVIOUS
<1>2. /\ Torn(U, C, B, H, s, a, g) /\ Tree(U, root, C, P, D) /\ s \in U /\ a \in 0 .. 1
      /\ q \in U \cup {Nil} /\ sd \in 0 .. 1 /\ There(root, C, q, sd) = s
      /\ C = Kids(node) /\ node \in [AVLAddr -> Record] /\ s = AVL!Current
  BY <1>1 DEF Held, Working, RemoveTorn, Seen
<1>3. PICK hx, hy \in Nat :
        /\ hx = H[C[s][a]] /\ hy = H[C[s][1 - a]]
        /\ H[C[s][1]] - H[C[s][0]] = IF a = 1 THEN hx - hy ELSE hy - hx
        /\ Larger(H[C[s][0]], H[C[s][1]]) = Larger(hx, hy)
        /\ B[s] = IF a = 1 THEN g - hy ELSE hy - g
        /\ H[s] = 1 + Larger(g, hy) /\ H[s] \in Nat
  BY <1>2, Weights
<1>4. AVL!Heavy = -Dir(a) /\ B[s] = -Dir(a)
  BY <1>1 DEF Seen
<1>5. o \in 0 .. 1 /\ Dir(o) = -Dir(a) /\ 1 - o = a /\ AVL!SideOf(Dir(o)) = o
  BY <1>1, <1>2, Sides
<1>6. g = hx + 1 /\ hy = hx + 2 /\ H[s] = hy + 1
  <2>1. g = hx + 1
    BY <1>1, <1>3
  <2>2. a = 0 \/ a = 1
    BY <1>2
  <2>3. hy = g + 1
    BY <1>3, <1>4, <2>1, <2>2 DEF Dir
  <2>. QED  BY <1>3, <2>1, <2>3 DEF Larger
<1>7. H[r] = hy /\ TwoHigher(C, H, s, o, r)
  BY <1>1, <1>3, <1>5, <1>6 DEF TwoHigher
<1>8. r # Nil
  BY <1>2, <1>6, <1>7 DEF Torn, Heights
<1>9. r \in U /\ s \in AVLAddr /\ r \in AVLAddr
  BY <1>1, <1>2, <1>5, <1>8, Apart
<1>10. AVL!Sibling = r /\ node[r].b = Leans(node)[r]
  <2>1. node[s].children = C[s] /\ Leans(node)[r] = node[r].b
    BY <1>2, <1>9, Memory
  <2>. QED  BY <1>1, <1>2, <1>4, <1>5, <2>1 DEF AVL!Sibling
<1>. QED  BY <1>1, <1>2, <1>4, <1>5, <1>6, <1>7, <1>8, <1>10

\* Remove goes on upwards when it has rotated.
LEMMA RemoveRotateStep ==
  ASSUME AInv, AVL!RemoveRotate, UNCHANGED map
  PROVE  AInv'
<1>1. PICK U, D, H : Held(U, D, H)
  BY DEF AInv
<1>2. PICK C, P, s, a, up, q, sd : Seen(U, D, C, P, s, a, up, q, sd)
  BY <1>1, SeenIs DEF AVL!RemoveRotate
<1>3. PICK o, r, c, g :
        /\ o \in 0 .. 1 /\ r = C[s][o] /\ r # Nil /\ c = Dir(o) /\ AVL!Heavy = c /\ AVL!Sibling = r
        /\ Torn(U, C, Leans(node), H, s, a, g) /\ TwoHigher(C, H, s, o, r)
        /\ H[s] = H[r] + 1 /\ Leans(node)[s] = c /\ node[r].b = Leans(node)[r]
        /\ H[r] \in Nat
  BY <1>1, <1>2, RemoveSees DEF AVL!RemoveRotate
<1>4. AVL!Repair(c, s, up) /\ Leans(node)[r] # 0
  BY <1>2, <1>3 DEF AVL!RemoveRotate, Seen
<1>5. Leaves(U, up, H[r], H[s])
  BY <1>1, <1>2, <1>3, <1>4, RepairStep
<1>6. work' = AVL!Unwind("remove", up) /\ size' = Cardinality(U)
  BY <1>1, <1>2 DEF AVL!RemoveRotate, Held, Seen
<1>7. PICK h, j : h = H[r] /\ j = H[s]
  OBVIOUS
<1>. QED  BY <1>3, <1>5, <1>6, <1>7, LeavesIs

\* Remove is done when it has rotated a child that stood level.
LEMMA RemoveRotateLevelStep ==
  ASSUME AInv, AVL!RemoveRotateLevel, UNCHANGED map
  PROVE  AInv'
<1>1. PICK U, D, H : Held(U, D, H)
  BY DEF AInv
<1>2. PICK C, P, s, a, up, q, sd : Seen(U, D, C, P, s, a, up, q, sd)
  BY <1>1, SeenIs DEF AVL!RemoveRotateLevel
<1>3. PICK o, r, c, g :
        /\ o \in 0 .. 1 /\ r = C[s][o] /\ r # Nil /\ c = Dir(o) /\ AVL!Heavy = c /\ AVL!Sibling = r
        /\ Torn(U, C, Leans(node), H, s, a, g) /\ TwoHigher(C, H, s, o, r)
        /\ H[s] = H[r] + 1 /\ Leans(node)[s] = c /\ node[r].b = Leans(node)[r]
        /\ H[r] \in Nat
  BY <1>1, <1>2, RemoveSees DEF AVL!RemoveRotateLevel
<1>4. PICK b, h : b = -c /\ h = H[r] + 1
  OBVIOUS
<1>5. b \in -1 .. 1 /\ b = -Dir(o)
  BY <1>3, <1>4, Sides
<1>6. s = AVL!Current /\ up = AVL!Up
  BY <1>2 DEF Seen
<1>7. AVL!Store(Leaning(AVL!Rotate(node, Dir(o), s), r, b), up, r) /\ Leans(node)[r] = 0
  <2>1. AVL!Store(Leaning(AVL!Rotate(node, c, s), r, -c), up, r) /\ node[r].b = 0
    BY <1>3, <1>6 DEF AVL!RemoveRotateLevel, Leaning
  <2>. QED  BY <1>3, <1>4, <2>1
<1>8. Leaves(U, up, h, H[s])
  <2>1. Leans(node)[s] = Dir(o)
    BY <1>3
  <2>. QED  BY <1>1, <1>2, <1>3, <1>4, <1>5, <1>7, <2>1, LevelStep
<1>9. work' = AVL!Idle /\ size' = Cardinality(U)
  BY <1>1, <1>2 DEF AVL!RemoveRotateLevel, Held, Seen
<1>10. PICK j : j = H[s]
  OBVIOUS
<1>. QED  BY <1>3, <1>4, <1>8, <1>9, <1>10, LeavesIs

-----------------------------------------------------------------------------
(* The calls.                                                               *)

\* What Path(k) finds, between two calls or while one repairs the tree.
Found(U, D, C, P, K, k, path, q, sd, e) ==
  /\ node \in [AVLAddr -> Record] /\ C = Kids(node) /\ P = Parents(node) /\ K = Names(node)
  /\ Tree(U, root, C, P, D) /\ Ordered(U, C, K, D)
  /\ path = AVL!Path(k) /\ path \in Seq(Steps) /\ Way(U, root, C, D, path)
  /\ q = Lowest(path) /\ sd = Turn(path) /\ q \in U \cup {Nil} /\ sd \in 0 .. 1
  /\ e = There(root, C, q, sd) /\ e = End(root, C, path) /\ e \in U \cup {Nil} /\ AVL!At(path) = e
  /\ Searching(U, C, K, D, q, sd, e, k)
  /\ e = Nil \/ K[e] = k

\* Path finds the node of a key, or where it would be.
LEMMA FoundIs ==
  ASSUME NEW U, NEW D, NEW H, Held(U, D, H), NEW k \in AVLKeys
  PROVE  \E C, P, K, path, q, sd, e : Found(U, D, C, P, K, k, path, q, sd, e)
<1>1. PICK C, P, K, path, q, sd, e :
        /\ C = Kids(node) /\ P = Parents(node) /\ K = Names(node) /\ path = AVL!Path(k)
        /\ q = Lowest(path) /\ sd = Turn(path) /\ e = End(root, C, path)
  OBVIOUS
<1>2. node \in [AVLAddr -> Record] /\ Tree(U, root, C, P, D) /\ Ordered(U, C, K, D)
  BY <1>1 DEF Held, Sound
<1>3. Way(U, root, C, D, path) /\ Searching(U, C, K, D, q, sd, e, k) /\ (e = Nil \/ K[e] = k)
  <2>1. /\ Way(U, root, C, D, path)
        /\ Searching(U, C, K, D, Lowest(path), Turn(path), End(root, C, path), k)
        /\ End(root, C, path) = Nil \/ K[End(root, C, path)] = k
    BY <1>1, <1>2, PathIs
  <2>. QED  BY <1>1, <2>1
<1>4. path \in Seq(Steps) /\ q \in U \cup {Nil} /\ sd \in 0 .. 1 /\ e \in U \cup {Nil}
  BY <1>1, <1>2, <1>3, WayEnds
<1>5. e = There(root, C, q, sd)
  BY <1>1 DEF End
<1>6. AVL!At(path) = e
  BY <1>1, <1>2, <1>4, AtIs
<1>7. Found(U, D, C, P, K, k, path, q, sd, e)
  BY <1>1, <1>2, <1>3, <1>4, <1>5, <1>6 DEF Found
<1>. QED  BY <1>7

\* The nodes that are in use are finitely many.
LEMMA SizeIs ==
  ASSUME NEW U, NEW rt, NEW C, NEW P, NEW D, Tree(U, rt, C, P, D)
  PROVE  /\ IsFiniteSet(U) /\ Cardinality(U) \in Nat
         /\ \A x : x \notin U => Cardinality(Joined(U, x)) = Cardinality(U) + 1
         /\ \A x \in U : Cardinality(Without(U, x)) = Cardinality(U) - 1
<1>1. IsFiniteSet(U)
  BY AVLAssumption, FS_Subset DEF Tree, Typed
<1>2. Cardinality(U) \in Nat
  BY <1>1, FS_CardinalityType
<1>3. ASSUME NEW x, x \notin U PROVE Cardinality(Joined(U, x)) = Cardinality(U) + 1
  BY <1>1, <1>3, FS_AddElement DEF Joined
<1>4. ASSUME NEW x \in U PROVE Cardinality(Without(U, x)) = Cardinality(U) - 1
  BY <1>1, FS_RemoveElement DEF Without
<1>. QED  BY <1>1, <1>2, <1>3, <1>4

\* x gets the value v.
Valued(nd, x, v) == [nd EXCEPT ![x].value = v]

\* A value that is assigned changes nothing else.
LEMMA ValuedIs ==
  ASSUME NEW nd \in [AVLAddr -> Record], NEW x \in AVLAddr, NEW v \in AVLKeys \cup {0}
  PROVE  /\ Valued(nd, x, v) \in [AVLAddr -> Record]
         /\ \A n \in AVLAddr :
              /\ Valued(nd, x, v)[n].key = nd[n].key /\ Valued(nd, x, v)[n].b = nd[n].b
              /\ Valued(nd, x, v)[n].parent = nd[n].parent
              /\ Valued(nd, x, v)[n].children = nd[n].children
              /\ Valued(nd, x, v)[n].value = IF n = x THEN v ELSE nd[n].value
<1>1. PICK nx : nx = [nd[x] EXCEPT !.value = v]
  OBVIOUS
<1>2. PICK nd2 : nd2 = Valued(nd, x, v)
  OBVIOUS
<1>3. nd2 = [nd EXCEPT ![x] = nx]
  BY <1>1, <1>2 DEF Valued
<1>4. /\ nx \in Record /\ nx.value = v /\ nx.parent = nd[x].parent /\ nx.children = nd[x].children
      /\ nx.key = nd[x].key /\ nx.b = nd[x].b
  <2>1. nd[x] \in Record
    OBVIOUS
  <2>. QED  BY <1>1, <2>1 DEF Record
<1>5. nd2 \in [AVLAddr -> Record] /\ \A n \in AVLAddr : nd2[n] = IF n = x THEN nx ELSE nd[n]
  BY <1>3, <1>4
<1>. QED  BY <1>2, <1>4, <1>5

\* The content with another value for a key.
LEMMA ContentValued ==
  ASSUME NEW U, NEW K, NEW V, NEW mp, Content(U, K, V, mp), Distinct(U, K),
         NEW x \in U, NEW v \in AVLKeys \cup {0}, NEW V2, V2[x] = v, \A n \in U : n # x => V2[n] = V[n],
         NEW k, k = K[x], NEW mp2, Assigned(mp, mp2, k, v)
  PROVE  Content(U, K, V2, mp2)
<1>1. mp \in [AVLKeys -> AVLKeys \cup {0} \cup {Nil}] /\ v # Nil /\ k \in AVLKeys
  BY AVLAssumption DEF Content, Distinct
<1>2. /\ mp2 \in [AVLKeys -> AVLKeys \cup {0} \cup {Nil}]
      /\ \A j \in AVLKeys : mp2[j] = IF j = k THEN v ELSE mp[j]
  BY <1>1 DEF Assigned
<1>3. ASSUME NEW n \in U PROVE mp2[K[n]] = V2[n] /\ V2[n] # Nil
  <2>1. CASE n = x
    BY <1>1, <1>2, <2>1
  <2>2. CASE n # x
    <3>1. K[n] \in AVLKeys /\ K[n] # k /\ mp[K[n]] = V[n] /\ V[n] # Nil
      BY <2>2 DEF Content, Distinct
    <3>. QED  BY <1>2, <2>2, <3>1
  <2>. QED  BY <2>1, <2>2
<1>4. ASSUME NEW j \in AVLKeys, mp2[j] # Nil PROVE \E n \in U : K[n] = j
  <2>1. CASE j = k
    BY <2>1
  <2>2. CASE j # k
    BY <1>2, <1>4, <2>2 DEF Content
  <2>. QED  BY <2>1, <2>2
<1>. QED  BY <1>2, <1>3, <1>4 DEF Content

\* Put of a key that is there changes its value.
LEMMA PutExistingStep ==
  ASSUME AInv, NEW k \in AVLKeys, NEW v \in AVLKeys \cup {0}, AVL!PutExisting(k, v), AMap!Put(k, v)
  PROVE  AInv'
<1>1. PICK U, D, H : Held(U, D, H)
  BY DEF AInv
<1>2. PICK C, P, K, path, q, sd, e : Found(U, D, C, P, K, k, path, q, sd, e)
  BY <1>1, FoundIs
<1>3. e \in U /\ K[e] = k /\ node' = [node EXCEPT ![e].value = v]
  BY <1>2 DEF Found, AVL!PutExisting
<1>4. root' = root /\ size' = size /\ work' = work
  BY DEF AVL!PutExisting
<1>5. PICK nd2, V, V2 : nd2 = node' /\ V = Worth(node) /\ V2 = Worth(nd2)
  OBVIOUS
<1>6. /\ node \in [AVLAddr -> Record] /\ C = Kids(node) /\ P = Parents(node) /\ K = Names(node)
      /\ U = {n \in AVLAddr : node[n].key # Nil} /\ (\A n \in AVLAddr : n \notin U => Clean(node[n]))
      /\ Tree(U, root, C, P, D) /\ Ordered(U, C, K, D) /\ Content(U, K, V, map)
  BY <1>1, <1>2, <1>5 DEF Held, Sound, Found
<1>7. /\ nd2 \in [AVLAddr -> Record]
      /\ \A n \in AVLAddr : /\ nd2[n].key = node[n].key /\ nd2[n].b = node[n].b
                            /\ nd2[n].parent = node[n].parent /\ nd2[n].children = node[n].children
                            /\ nd2[n].value = IF n = e THEN v ELSE node[n].value
  <2>1. e \in AVLAddr /\ nd2 = Valued(node, e, v)
    BY <1>3, <1>5, <1>6 DEF Valued
  <2>. QED  BY <1>6, <2>1, ValuedIs
<1>8. Kids(nd2) = C /\ Parents(nd2) = P /\ Names(nd2) = K /\ Leans(nd2) = Leans(node)
  BY <1>6, <1>7 DEF Kids, Parents, Names, Leans
<1>9. Content(U, K, V2, map')
  <2>1. V2[e] = v /\ \A n \in U : n # e => V2[n] = V[n]
    BY <1>3, <1>5, <1>6, <1>7 DEF Worth
  <2>2. Assigned(map, map', k, v)
    BY DEF Assigned, AMap!Put
  <2>3. Distinct(U, K)
    BY <1>6 DEF Ordered
  <2>. QED  BY <1>3, <1>6, <2>1, <2>2, <2>3, ContentValued
<1>10. U = {n \in AVLAddr : nd2[n].key # Nil}
  BY <1>6, <1>7
<1>11. ASSUME NEW n \in AVLAddr, n \notin U PROVE Clean(nd2[n])
  BY <1>3, <1>6, <1>7, <1>11 DEF Clean
<1>12. Sound(U, root, nd2, D, map')
  BY <1>5, <1>6, <1>7, <1>8, <1>9, <1>10, <1>11 DEF Sound
<1>13. Sound(U, root', node', D, map')
  BY <1>4, <1>5, <1>12
<1>14. Working(U, root', Kids(node'), D, Leans(node'), H, work') /\ size' = Cardinality(U)
  <2>1. Working(U, root, Kids(node), D, Leans(node), H, work) /\ size = Cardinality(U)
    BY <1>1 DEF Held
  <2>2. Kids(node') = Kids(node) /\ Leans(node') = Leans(node)
    BY <1>5, <1>6, <1>8
  <2>. QED  BY <1>4, <2>1, <2>2
<1>. QED  BY <1>13, <1>14, StillHeld

\* The model's addresses in use, and the one that Put takes.
LEMMA InUseIs ==
  ASSUME NEW U, NEW D, NEW H, Held(U, D, H)
  PROVE  /\ AVL!InUse = U
         /\ AVL!Free # {} => AVL!New \in AVLAddr /\ AVL!New \notin U
<1>1. /\ node \in [AVLAddr -> Record] /\ U = {n \in AVLAddr : node[n].key # Nil}
      /\ \A n \in AVLAddr : n \notin U => Clean(node[n])
  BY DEF Held, Sound
<1>2. AVL!Blank \in Record /\ AVL!Blank.key = Nil /\ \A r \in Record : Clean(r) => r = AVL!Blank
  BY BlankIs DEF Clean
<1>3. \A n \in AVLAddr : n \in AVL!Free <=> n \notin U
  BY <1>1, <1>2 DEF AVL!Free
<1>4. AVL!Free \subseteq AVLAddr
  BY DEF AVL!Free
<1>5. AVL!InUse = U
  BY <1>1, <1>3 DEF AVL!InUse
<1>6. AVL!Free # {} => AVL!New \in AVL!Free
  BY DEF AVL!New
<1>. QED  BY <1>3, <1>4, <1>5, <1>6

\* Put of a new key links a node, and goes on upwards.
LEMMA PutNewStep ==
  ASSUME AInv, NEW k \in AVLKeys, NEW v \in AVLKeys \cup {0}, AVL!PutNew(k, v), AMap!Put(k, v)
  PROVE  AInv'
<1>1. PICK U, D, H : Held(U, D, H)
  BY DEF AInv
<1>2. PICK C, P, K, path, q, sd, e : Found(U, D, C, P, K, k, path, q, sd, e)
  BY <1>1, FoundIs
<1>3. PICK x : x = AVL!New
  OBVIOUS
<1>4. x \in AVLAddr /\ x \notin U
  BY <1>1, <1>3, InUseIs DEF AVL!PutNew
<1>5. /\ e = Nil /\ There(root, C, q, sd) = Nil /\ Searching(U, C, K, D, q, sd, Nil, k)
      /\ node \in [AVLAddr -> Record] /\ C = Kids(node) /\ P = Parents(node) /\ K = Names(node)
      /\ Tree(U, root, C, P, D) /\ Ordered(U, C, K, D) /\ path = AVL!Path(k)
      /\ path \in Seq(Steps) /\ Way(U, root, C, D, path) /\ q = Lowest(path) /\ sd = Turn(path)
      /\ q \in U \cup {Nil} /\ sd \in 0 .. 1
  BY <1>2 DEF Found, AVL!PutNew
<1>6. /\ AVL!Store([node EXCEPT ![x] = [AVL!Blank EXCEPT !.key = k, !.value = v, !.parent = q]], path, x)
      /\ work.op = "none" /\ work' = AVL!Unwind("put", path) /\ size' = size + 1
  <2>1. q = IF path = <<>> THEN Nil ELSE AVL!Last(path).of
    BY <1>5 DEF AVL!Last, Lowest
  <2>. QED  BY <1>3, <1>5, <2>1 DEF AVL!PutNew
<1>7. Fits(U, C, K, D, q, sd, k) /\ U \subseteq AVLAddr
  BY <1>5, SearchFits DEF Tree, Typed
<1>8. Grown(node, node', root, C, P, x, q, sd, k, v, root')
  <2>1. x \in AVLAddr \ U
    BY <1>4
  <2>2. PICK nd1 :
          nd1 = [node EXCEPT ![x] = [AVL!Blank EXCEPT !.key = k, !.value = v, !.parent = q]]
    OBVIOUS
  <2>3. AVL!Store(nd1, path, x)
    BY <1>6, <2>2
  <2>. QED  BY <1>5, <1>7, <2>1, <2>2, <2>3, LinkStep
<1>9. PICK nd2, rt2, C2, P2, D2, U2, B, B2 :
        /\ nd2 = node' /\ rt2 = root' /\ C2 = Kids(nd2) /\ P2 = Parents(nd2)
        /\ D2 = LinkedD(D, x, q) /\ U2 = Joined(U, x) /\ B = Leans(node) /\ B2 = Leans(nd2)
  OBVIOUS
<1>10. /\ Linked(C, P, x, q, sd, C2, P2) /\ rt2 = RootWith(root, q, x) /\ nd2 \in [AVLAddr -> Record]
       /\ nd2[x].b = 0 /\ \A n \in AVLAddr : n # x => nd2[n].b = node[n].b
  BY <1>8, <1>9 DEF Grown
<1>11. Sound(U2, rt2, nd2, D2, map')
  <2>1. Sound(U, root, node, D, map)
    BY <1>1 DEF Held
  <2>2. Assigned(map, map', k, v)
    BY DEF Assigned, AMap!Put
  <2>3. PICK mp, mp2 : mp = map /\ mp2 = map'
    OBVIOUS
  <2>4. /\ Sound(U, root, node, D, mp) /\ Assigned(mp, mp2, k, v)
        /\ Grown(node, nd2, root, C, P, x, q, sd, k, v, rt2)
    BY <1>8, <1>9, <2>1, <2>2, <2>3
  <2>5. Sound(Joined(U, x), rt2, nd2, LinkedD(D, x, q), mp2)
    BY <1>4, <1>5, <1>7, <2>4, SoundLinked
  <2>. QED  BY <1>9, <2>3, <2>5
<1>12. Way(U2, rt2, C2, D2, path)
  <2>1. Way(Joined(U, x), RootWith(root, q, x), C2, LinkedD(D, x, q), path)
    BY <1>4, <1>5, <1>10, WayLinked
  <2>. QED  BY <1>9, <1>10, <2>1
<1>13. PICK H2 : H2[x] = 1 /\ Torn(U2, C2, B2, H2, q, sd, 0)
  <2>1. Torn(U, C, B, H, Nil, 0, 0)
    BY <1>1, <1>5, <1>6, <1>9 DEF Held, Working
  <2>2. (\A n \in U : B2[n] = B[n]) /\ B2[x] = 0
    BY <1>4, <1>5, <1>7, <1>9, <1>10 DEF Leans
  <2>. QED  BY <1>4, <1>5, <1>9, <1>10, <2>1, <2>2, LinkedHeights
<1>14. There(rt2, C2, q, sd) = x
  <2>1. CASE q = Nil
    BY <1>10, <2>1 DEF There, RootWith
  <2>2. CASE q # Nil
    <3>1. q \in AVLAddr /\ q # x
      BY <1>4, <1>5, <1>7, <2>2
    <3>2. C2[q][sd] = x
      BY <1>5, <1>10, <3>1 DEF Linked
    <3>. QED  BY <2>2, <3>2 DEF There
  <2>. QED  BY <2>1, <2>2
<1>15. PutTorn(U2, C2, B2, H2, Lowest(path), Turn(path), End(rt2, C2, path))
  <2>1. x # Nil /\ End(rt2, C2, path) = x
    BY <1>4, <1>5, <1>14, NilApart DEF End
  <2>2. PICK g : g = H2[x] - 1
    OBVIOUS
  <2>3. Torn(U2, C2, B2, H2, q, sd, g)
    BY <1>13, <2>2
  <2>4. PutTorn(U2, C2, B2, H2, q, sd, x)
    BY <1>13, <2>1, <2>2, <2>3 DEF PutTorn
  <2>. QED  BY <1>5, <2>1, <2>4
<1>16. Tree(U2, rt2, C2, P2, D2)
  BY <1>9, <1>11 DEF Sound
<1>17. Working(U2, rt2, C2, D2, B2, H2, AVL!Unwind("put", path))
  BY <1>12, <1>15, <1>16, PutUnwinds
<1>18. size' = Cardinality(U2)
  <2>1. size = Cardinality(U)
    BY <1>1 DEF Held
  <2>. QED  BY <1>4, <1>5, <1>6, <1>9, <2>1, SizeIs
<1>19. Working(U2, root', Kids(node'), D2, Leans(node'), H2, work')
  BY <1>6, <1>9, <1>17
<1>20. Sound(U2, root', node', D2, map')
  BY <1>9, <1>11
<1>. QED  BY <1>18, <1>19, <1>20, StillHeld

\* The node x at the end of path goes; it is that of the key k, or gives its key and
\* value to z, whose key that is: in nd it has done so.
Moving(U, K, D, nd, x, z) ==
  /\ nd \in [AVLAddr -> Record] /\ z \in U
  /\ \A n \in AVLAddr :
       nd[n].b = node[n].b /\ nd[n].children = node[n].children /\ nd[n].parent = node[n].parent
  /\ \A n \in AVLAddr : n # z => nd[n].key = node[n].key /\ nd[n].value = node[n].value
  /\ z # x => /\ nd[z].key = node[x].key /\ nd[z].value = node[x].value
              /\ \A m \in U : m # x /\ m # z => (K[m] < K[x] <=> K[m] < K[z])

\* A node that goes leaves its parent to repair.
LEMMA GoneStep ==
  ASSUME NEW U, NEW D, NEW H, Held(U, D, H), work.op = "none",
         NEW C, NEW P, NEW K, C = Kids(node), P = Parents(node), K = Names(node),
         NEW path, Way(U, root, C, D, path), NEW x \in U, End(root, C, path) = x,
         NEW a \in 0 .. 1, C[x][a] = Nil, NEW y, y = C[x][1 - a],
         NEW nd, NEW z, Moving(U, K, D, nd, x, z), AVL!Store(AVL!Spliced(nd, path, a), path, y),
         work' = AVL!Unwind("remove", path), size' = size - 1,
         NEW k, k = K[z], AMap!Remove(k)
  PROVE  AInv'
<1>1. /\ Sound(U, root, node, D, map) /\ node \in [AVLAddr -> Record] /\ Tree(U, root, C, P, D)
      /\ nd \in [AVLAddr -> Record]
  BY DEF Held, Sound, Moving
<1>2. Kids(nd) = C /\ Parents(nd) = P
  BY <1>1 DEF Moving, Kids, Parents
<1>3. PICK q, sd : q = Lowest(path) /\ sd = Turn(path)
  OBVIOUS
<1>4. /\ path \in Seq(Steps) /\ q \in U \cup {Nil} /\ sd \in 0 .. 1 /\ There(root, C, q, sd) = x
      /\ U \subseteq AVLAddr
  BY <1>1, <1>3, WayEnds DEF End, Tree, Typed
<1>5. AVL!At(path) = x
  BY <1>1, <1>4, AtIs
<1>6. /\ node' \in [AVLAddr -> Record] /\ root' = RootWith(root, q, y)
      /\ Spliced(root, C, P, x, a, q, sd, Kids(node'), Parents(node'))
      /\ Clean(node'[x])
      /\ \A n \in AVLAddr : n # x =>
           node'[n].key = nd[n].key /\ node'[n].value = nd[n].value /\ node'[n].b = nd[n].b
  BY <1>1, <1>2, <1>3, <1>4, <1>5, SpliceStep
<1>7. PICK nd2, rt2, C2, P2, D2, U2, B, B2, mp, mp2 :
        /\ nd2 = node' /\ rt2 = RootWith(root, q, y) /\ C2 = Kids(nd2) /\ P2 = Parents(nd2)
        /\ D2 = SplicedD(D, x) /\ U2 = Without(U, x) /\ B = Leans(node) /\ B2 = Leans(nd2)
        /\ mp = map /\ mp2 = map'
  OBVIOUS
<1>8. Spliced(root, C, P, x, a, q, sd, C2, P2)
  BY <1>6, <1>7
<1>9. Sound(U2, rt2, nd2, D2, mp2)
  <2>1. Assigned(mp, mp2, K[z], Nil) /\ Sound(U, root, node, D, mp)
    BY <1>1, <1>7 DEF Assigned, AMap!Remove
  <2>2. /\ nd2 \in [AVLAddr -> Record] /\ Spliced(root, C, P, x, a, q, sd, Kids(nd2), Parents(nd2))
        /\ Clean(nd2[x]) /\ z \in U
    BY <1>6, <1>7 DEF Moving
  <2>3. Yields(U, K, node, nd2, x, z)
    BY <1>4, <1>6, <1>7, <2>2 DEF Moving, Yields
  <2>6. Sound(Without(U, x), RootWith(root, q, y), nd2, SplicedD(D, x), mp2)
    BY <1>4, <2>1, <2>2, <2>3, SoundSpliced
  <2>. QED  BY <1>7, <2>6
<1>10. Way(U2, rt2, C2, D2, path) /\ There(rt2, C2, q, sd) = y
  BY <1>1, <1>3, <1>4, <1>7, <1>8, WaySpliced
<1>11. \A g : g = H[y] + 1 => Torn(U2, C2, B2, H, q, sd, g)
  <2>1. Torn(U, C, B, H, Nil, 0, 0)
    BY <1>7 DEF Held, Working
  <2>2. \A n \in U : n # x => B2[n] = B[n]
    BY <1>4, <1>6, <1>7 DEF Leans, Moving
  <2>. QED  BY <1>1, <1>4, <1>7, <1>8, <2>1, <2>2, SplicedHeights
<1>12. RemoveTorn(U2, C2, B2, H, Lowest(path), Turn(path), End(rt2, C2, path))
  <2>1. End(rt2, C2, path) = y
    BY <1>3, <1>10 DEF End
  <2>2. RemoveTorn(U2, C2, B2, H, q, sd, y)
    BY <1>11 DEF RemoveTorn
  <2>. QED  BY <1>3, <2>1, <2>2
<1>13. Tree(U2, rt2, C2, P2, D2)
  BY <1>7, <1>9 DEF Sound
<1>14. Working(U2, rt2, C2, D2, B2, H, AVL!Unwind("remove", path))
  BY <1>10, <1>12, <1>13, RemoveUnwinds
<1>15. size' = Cardinality(U2)
  <2>1. size = Cardinality(U)
    BY DEF Held
  <2>. QED  BY <1>1, <1>7, <2>1, SizeIs
<1>16. Working(U2, root', Kids(node'), D2, Leans(node'), H, work')
  BY <1>6, <1>7, <1>14
<1>17. Sound(U2, root', node', D2, map')
  BY <1>6, <1>7, <1>9
<1>. QED  BY <1>15, <1>16, <1>17, StillHeld

\* Remove of a node that has no right child unlinks it.
LEMMA RemoveNodeStep ==
  ASSUME AInv, NEW k \in AVLKeys, AVL!RemoveNode(k), AMap!Remove(k)
  PROVE  AInv'
<1>1. PICK U, D, H : Held(U, D, H)
  BY DEF AInv
<1>2. PICK C, P, K, path, q, sd, x : Found(U, D, C, P, K, k, path, q, sd, x)
  BY <1>1, FoundIs
<1>3. PICK a, y : a = 1 /\ y = C[x][0]
  OBVIOUS
<1>4. /\ x \in U /\ K[x] = k /\ node[x].children[1] = Nil
      /\ AVL!Store(AVL!Spliced(node, path, a), path, node[x].children[0])
      /\ work.op = "none" /\ work' = AVL!Unwind("remove", path) /\ size' = size - 1
  BY <1>2, <1>3 DEF Found, AVL!RemoveNode
<1>5. /\ node \in [AVLAddr -> Record] /\ C = Kids(node) /\ P = Parents(node) /\ K = Names(node)
      /\ Tree(U, root, C, P, D) /\ Way(U, root, C, D, path) /\ End(root, C, path) = x
  BY <1>2 DEF Found
<1>6. C[x] = node[x].children
  BY <1>4, <1>5, Memory DEF Tree, Typed
<1>7. a \in 0 .. 1 /\ C[x][a] = Nil /\ y = C[x][1 - a] /\ node[x].children[0] = y
  BY <1>3, <1>4, <1>6
<1>8. Moving(U, K, D, node, x, x)
  BY <1>4, <1>5 DEF Moving
<1>9. AVL!Store(AVL!Spliced(node, path, a), path, y)
  BY <1>4, <1>7
<1>. QED  BY <1>1, <1>4, <1>5, <1>7, <1>8, <1>9, GoneStep

\* z gets the key and value of x.
Takes(nd, z, x) == [nd EXCEPT ![z].key = nd[x].key, ![z].value = nd[x].value]

\* A key and a value that are assigned change nothing else.
LEMMA TakesIs ==
  ASSUME NEW nd \in [AVLAddr -> Record], NEW z \in AVLAddr, NEW x \in AVLAddr
  PROVE  /\ Takes(nd, z, x) \in [AVLAddr -> Record]
         /\ \A n \in AVLAddr :
              /\ Takes(nd, z, x)[n].b = nd[n].b
              /\ Takes(nd, z, x)[n].parent = nd[n].parent
              /\ Takes(nd, z, x)[n].children = nd[n].children
              /\ Takes(nd, z, x)[n].key = IF n = z THEN nd[x].key ELSE nd[n].key
              /\ Takes(nd, z, x)[n].value = IF n = z THEN nd[x].value ELSE nd[n].value
<1>1. PICK j, v : j = nd[x].key /\ v = nd[x].value
  OBVIOUS
<1>2. PICK ny : ny = [nd[z] EXCEPT !.key = j]
  OBVIOUS
<1>3. PICK nx : nx = [ny EXCEPT !.value = v]
  OBVIOUS
<1>4. PICK nd2 : nd2 = Takes(nd, z, x)
  OBVIOUS
<1>5. PICK nd1 : nd1 = [nd EXCEPT ![z] = ny]
  OBVIOUS
<1>6. j \in AVLKeys \cup {Nil} /\ v \in AVLKeys \cup {0} \cup {Nil} /\ nd[z] \in Record
  BY <1>1 DEF Record
<1>7. /\ ny \in Record /\ ny.key = j /\ ny.value = nd[z].value /\ ny.b = nd[z].b
      /\ ny.parent = nd[z].parent /\ ny.children = nd[z].children
  BY <1>2, <1>6 DEF Record
<1>8. /\ nx \in Record /\ nx.key = j /\ nx.value = v /\ nx.b = nd[z].b
      /\ nx.parent = nd[z].parent /\ nx.children = nd[z].children
  BY <1>3, <1>6, <1>7 DEF Record
<1>9. nd1 \in [AVLAddr -> Record] /\ \A n \in AVLAddr : nd1[n] = IF n = z THEN ny ELSE nd[n]
  BY <1>5, <1>7
<1>10. nd2 = [nd1 EXCEPT ![z].value = v]
  BY <1>1, <1>2, <1>4, <1>5 DEF Takes
<1>11. nd2 = [nd1 EXCEPT ![z] = nx]
  BY <1>3, <1>9, <1>10
<1>12. nd2 \in [AVLAddr -> Record] /\ \A n \in AVLAddr : nd2[n] = IF n = z THEN nx ELSE nd[n]
  BY <1>8, <1>9, <1>11
<1>. QED  BY <1>1, <1>4, <1>8, <1>12

\* Remove of a node with a right child unlinks the least node there, and moves its key and
\* value.
LEMMA RemoveMinStep ==
  ASSUME AInv, NEW k \in AVLKeys, AVL!RemoveMin(k), AMap!Remove(k)
  PROVE  AInv'
<1>1. PICK U, D, H : Held(U, D, H)
  BY DEF AInv
<1>2. PICK C, P, K, path, q, sd, z : Found(U, D, C, P, K, k, path, q, sd, z)
  BY <1>1, FoundIs
<1>3. PICK a, t, on, down, x, nd : /\ a = 0 /\ t = C[z][1] /\ on = Onward(path, z, 1)
                                   /\ down = AVL!MinPath(on) /\ x = AVL!At(down)
                                   /\ nd = Takes(node, z, x)
  OBVIOUS
<1>4. on = Append(path, [of |-> z, side |-> 1])
  BY <1>3 DEF Onward
<1>5. /\ z \in U /\ K[z] = k /\ node[z].children[1] # Nil
      /\ AVL!Store(AVL!Spliced(nd, down, a), down, node[x].children[1])
      /\ work.op = "none" /\ work' = AVL!Unwind("remove", down) /\ size' = size - 1
  BY <1>2, <1>3, <1>4 DEF Found, AVL!RemoveMin, Takes
<1>6. /\ node \in [AVLAddr -> Record] /\ C = Kids(node) /\ P = Parents(node) /\ K = Names(node)
      /\ Tree(U, root, C, P, D) /\ Ordered(U, C, K, D)
      /\ Way(U, root, C, D, path) /\ End(root, C, path) = z
  BY <1>2 DEF Found
<1>7. U \subseteq AVLAddr /\ D \in [Nodes -> SUBSET U]
  BY <1>6 DEF Tree, Typed
<1>8. C[z] = node[z].children
  BY <1>5, <1>6, <1>7, Memory
<1>9. t # Nil /\ t \in U
  BY <1>3, <1>5, <1>6, <1>8 DEF Tree, Parted
<1>10. Way(U, root, C, D, on) /\ End(root, C, on) = t
  BY <1>3, <1>5, <1>6, WayOn
<1>11. PICK e : e = End(root, C, down)
  OBVIOUS
<1>12. Way(U, root, C, D, down) /\ e \in D[t] /\ C[e][0] = Nil /\ \A m \in D[t] : m # e => K[e] < K[m]
  BY <1>3, <1>6, <1>9, <1>10, <1>11, MinPathIs
<1>13. e = x
  <2>1. down \in Seq(Steps)
    BY <1>12 DEF Way
  <2>. QED  BY <1>3, <1>6, <1>11, <2>1, AtIs
<1>14. x \in U /\ x \in D[t] /\ C[x][0] = Nil /\ \A m \in D[t] : m # x => K[x] < K[m]
  BY <1>7, <1>9, <1>12, <1>13 DEF Nodes
<1>15. /\ z \notin D[t] /\ D[z] = {z} \cup D[C[z][0]] \cup D[t]
       /\ (\A m \in D[C[z][0]] : K[m] < K[z]) /\ (\A m \in D[t] : K[z] < K[m])
       /\ (\A m \in U : m \notin D[z] => (K[m] < K[x] <=> K[m] < K[z]))
       /\ (\A m \in U : m \notin D[t] => (K[m] < K[x] <=> K[m] < K[t]))
       /\ K[t] \in Int /\ K[z] \in Int /\ K[x] \in Int /\ \A m \in U : K[m] \in Int
  <2>1. z \notin D[t] /\ D[z] = {z} \cup D[C[z][0]] \cup D[t]
    BY <1>3, <1>5, <1>6 DEF Tree, Parted
  <2>2. (\A m \in D[C[z][0]] : K[m] < K[z]) /\ (\A m \in D[t] : K[z] < K[m])
    BY <1>3, <1>5, <1>6 DEF Ordered, Sorted
  <2>3. x \in D[z]
    BY <1>14, <2>1
  <2>4. /\ (\A m \in U : m \notin D[z] => (K[m] < K[x] <=> K[m] < K[z]))
        /\ (\A m \in U : m \notin D[t] => (K[m] < K[x] <=> K[m] < K[t]))
    BY <1>5, <1>6, <1>9, <1>14, <2>3 DEF Ordered, Convex
  <2>5. \A m \in U : K[m] \in Int
    BY <1>6, KeysAreIntegers DEF Ordered
  <2>. QED  BY <1>5, <1>9, <1>14, <2>1, <2>2, <2>4, <2>5
<1>16. ASSUME NEW m \in U, m # x, m # z PROVE K[m] < K[x] <=> K[m] < K[z]
  <2>1. K[z] < K[x] /\ K[m] \in Int
    BY <1>14, <1>15
  <2>2. CASE m \in D[t]
    BY <1>14, <1>15, <1>16, <2>1, <2>2
  <2>3. CASE m \notin D[t] /\ m \in D[z]
    BY <1>15, <1>16, <2>1, <2>3
  <2>4. CASE m \notin D[z]
    BY <1>15, <2>4
  <2>. QED  BY <2>2, <2>3, <2>4
<1>17. Moving(U, K, D, nd, x, z)
  <2>1. z \in AVLAddr /\ x \in AVLAddr
    BY <1>5, <1>7, <1>14
  <2>2. /\ nd \in [AVLAddr -> Record]
        /\ \A n \in AVLAddr :
             /\ nd[n].b = node[n].b /\ nd[n].parent = node[n].parent /\ nd[n].children = node[n].children
             /\ nd[n].key = IF n = z THEN node[x].key ELSE node[n].key
             /\ nd[n].value = IF n = z THEN node[x].value ELSE node[n].value
    BY <1>3, <1>6, <2>1, TakesIs
  <2>. QED  BY <1>5, <1>16, <2>1, <2>2 DEF Moving
<1>18. PICK y : y = C[x][1]
  OBVIOUS
<1>19. a \in 0 .. 1 /\ C[x][a] = Nil /\ y = C[x][1 - a] /\ node[x].children[1] = y
  <2>1. C[x] = node[x].children
    BY <1>6, <1>7, <1>14, Memory
  <2>. QED  BY <1>3, <1>14, <1>18, <2>1
<1>20. AVL!Store(AVL!Spliced(nd, down, a), down, y) /\ End(root, C, down) = x
  BY <1>5, <1>11, <1>13, <1>19
<1>. QED  BY <1>1, <1>5, <1>6, <1>12, <1>14, <1>17, <1>19, <1>20, GoneStep

\* A tree without nodes.
LEMMA EmptyHeld ==
  ASSUME NEW nd, nd = [n \in AVLAddr |-> AVL!Blank], NEW mp, mp = [k \in AVLKeys |-> Nil],
         NEW wk \in [op : {"none", "put", "remove", "panic"}, path : Seq(Steps)],
         wk.op = "none", wk.path = <<>>
  PROVE  \E U, D, H : /\ Sound(U, Nil, nd, D, mp) /\ Cardinality(U) = 0
                      /\ Working(U, Nil, Kids(nd), D, Leans(nd), H, wk)
<1>1. PICK U, D, H, C, P, K, V, B :
        /\ U = {} /\ D = [n \in Nodes |-> {}] /\ H = [n \in Nodes |-> 0]
        /\ C = Kids(nd) /\ P = Parents(nd) /\ K = Names(nd) /\ V = Worth(nd) /\ B = Leans(nd)
  OBVIOUS
<1>2. AVL!Blank \in Record /\ Clean(AVL!Blank)
  BY BlankIs
<1>3. nd \in [AVLAddr -> Record] /\ \A n \in AVLAddr : Clean(nd[n])
  BY <1>2
<1>4. C \in [AVLAddr -> [0 .. 1 -> Nodes]] /\ P \in [AVLAddr -> Nodes]
  BY <1>1, <1>3, Memory
<1>5. D \in [Nodes -> SUBSET U] /\ D[Nil] = {} /\ H \in [Nodes -> Nat] /\ H[Nil] = 0
  BY <1>1, NilApart
<1>6. Tree(U, Nil, C, P, D)
  BY <1>1, <1>4, <1>5 DEF Tree, Typed, Parted, Parented, Nested
<1>7. Ordered(U, C, K, D)
  BY <1>1 DEF Ordered, Distinct, Sorted, Convex
<1>8. Content(U, K, V, mp)
  BY <1>1 DEF Content
<1>9. U = {n \in AVLAddr : nd[n].key # Nil}
  BY <1>1, <1>3 DEF Clean
<1>10. Sound(U, Nil, nd, D, mp)
  BY <1>1, <1>3, <1>6, <1>7, <1>8, <1>9 DEF Sound
<1>11. Torn(U, C, B, H, Nil, 0, 0)
  BY <1>1, <1>5 DEF Torn, Heights
<1>12. Way(U, Nil, C, D, wk.path)
  <2>1. PICK none : none = <<>>
    OBVIOUS
  <2>2. none \in Seq(Steps) /\ Len(none) = 0
    BY <2>1
  <2>3. Way(U, Nil, C, D, none)
    BY <2>1, <2>2 DEF Way
  <2>. QED  BY <2>1, <2>3
<1>13. Working(U, Nil, C, D, B, H, wk)
  BY <1>11, <1>12 DEF Working
<1>14. Cardinality(U) = 0
  BY <1>1, FS_EmptySet
<1>. QED  BY <1>1, <1>10, <1>13, <1>14

\* Clear leaves no node.
LEMMA ClearStep ==
  ASSUME AInv, AVL!Clear, AMap!Clear
  PROVE  AInv'
<1>1. PICK wk, nd, mp : wk = work' /\ nd = node' /\ mp = map'
  OBVIOUS
<1>2. /\ wk \in [op : {"none", "put", "remove", "panic"}, path : Seq(Steps)]
      /\ wk.op = "none" /\ wk.path = <<>>
  BY <1>1 DEF AVL!Clear, AInv, Held, Working
<1>3. nd = [n \in AVLAddr |-> AVL!Blank] /\ mp = [k \in AVLKeys |-> Nil]
  BY <1>1 DEF AVL!Clear, AMap!Clear
<1>4. PICK U, D, H : /\ Sound(U, Nil, nd, D, mp) /\ Cardinality(U) = 0
                     /\ Working(U, Nil, Kids(nd), D, Leans(nd), H, wk)
  BY <1>2, <1>3, EmptyHeld
<1>5. root' = Nil /\ size' = 0
  BY DEF AVL!Clear
<1>6. /\ Sound(U, root', node', D, map') /\ size' = Cardinality(U)
      /\ Working(U, root', Kids(node'), D, Leans(node'), H, work')
  BY <1>1, <1>4, <1>5
<1>. QED  BY <1>6, StillHeld

\* The tree begins without nodes.
LEMMA AInit ==
  ASSUME AVLInit
  PROVE  AInv
<1>1. PICK wk, none : wk = work /\ none = <<>>
  OBVIOUS
<1>2. wk = [op |-> "none", path |-> none]
  BY <1>1 DEF AVLInit, AVL!Init, AVL!Idle
<1>3. /\ wk \in [op : {"none", "put", "remove", "panic"}, path : Seq(Steps)]
      /\ wk.op = "none" /\ wk.path = <<>>
  <2>1. none \in Seq(Steps)
    BY <1>1
  <2>. QED  BY <1>1, <1>2, <2>1
<1>4. node = [n \in AVLAddr |-> AVL!Blank] /\ map = [k \in AVLKeys |-> Nil] /\ root = Nil /\ size = 0
  BY DEF AVLInit, AVL!Init, AMap!Init
<1>5. PICK U, D, H : /\ Sound(U, Nil, node, D, map) /\ Cardinality(U) = 0
                     /\ Working(U, Nil, Kids(node), D, Leans(node), H, wk)
  BY <1>3, <1>4, EmptyHeld
<1>. QED  BY <1>1, <1>4, <1>5 DEF AInv, Held

\* A step that changes nothing of the tree.
LEMMA StillStep ==
  ASSUME AInv, UNCHANGED vars
  PROVE  AInv'
<1>1. PICK U, D, H : Held(U, D, H)
  BY DEF AInv
<1>2. /\ root' = root /\ node' = node /\ map' = map /\ size' = size /\ work' = work
  BY DEF vars
<1>3. /\ Sound(U, root', node', D, map') /\ size' = Cardinality(U)
      /\ Working(U, root', Kids(node'), D, Leans(node'), H, work')
  BY <1>1, <1>2 DEF Held
<1>. QED  BY <1>3, StillHeld

\* Every step keeps the invariant.
LEMMA AStep ==
  ASSUME AInv, [AVLNext]_vars
  PROVE  AInv'
<1>1. CASE UNCHANGED vars
  BY <1>1, StillStep
<1>2. CASE AVLNext
  <2>1. ASSUME NEW k \in AVLKeys, NEW v \in Given(k), AVL!Put(k, v), AMap!Put(k, v) PROVE AInv'
    <3>1. v \in AVLKeys \cup {0}
      BY <2>1 DEF Given
    <3>. QED  BY <2>1, <3>1, PutExistingStep, PutNewStep DEF AVL!Put
  <2>2. ASSUME NEW k \in AVLKeys, AVL!RemoveKey(k), AMap!Remove(k) PROVE AInv'
    BY <2>2, RemoveNodeStep, RemoveMinStep DEF AVL!RemoveKey
  <2>3. CASE AVL!Clear /\ AMap!Clear
    BY <2>3, ClearStep
  <2>4. CASE AVL!PutFix /\ UNCHANGED map
    BY <2>4, PutHigherStep, PutLevelStep, PutRotateStep, PutPanicStep DEF AVL!PutFix
  <2>5. CASE AVL!RemoveFix /\ UNCHANGED map
    BY <2>5, RemoveHigherStep, RemoveLevelStep, RemoveRotateLevelStep, RemoveRotateStep DEF AVL!RemoveFix
  <2>. QED  BY <1>2, <2>1, <2>2, <2>3, <2>4, <2>5 DEF AVLNext
<1>. QED  BY <1>1, <1>2

\* The nodes are at every moment a tree in order, and the frames of the recursion the
\* way to the one node whose height is in repair.
THEOREM AVLIsATree == AVLSpec => []AInv
<1>1. AVLInit => AInv
  BY AInit
<1>2. AInv /\ [AVLNext]_vars => AInv'
  BY AStep
<1>. QED  BY <1>1, <1>2, PTL DEF AVLSpec

-----------------------------------------------------------------------------
(* The balances are those of the heights that the model computes.           *)

\* The heights that the model computes, a level further up.
LEMMA AboveIs ==
  ASSUME node \in [AVLAddr -> Record], NEW h \in [Nodes -> Nat]
  PROVE  /\ AVL!Above(h) \in [Nodes -> Nat] /\ AVL!Above(h)[Nil] = 0
         /\ \A n \in AVLAddr :
              AVL!Above(h)[n] = 1 + Larger(h[Kids(node)[n][0]], h[Kids(node)[n][1]])
<1>1. \A n \in AVLAddr : /\ node[n].children[0] \in Nodes /\ node[n].children[1] \in Nodes
                         /\ Kids(node)[n] = node[n].children
  BY Memory DEF Record
<1>2. PICK f : f = AVL!Above(h)
  OBVIOUS
<1>3. f = [n \in Nodes |->
             IF n = Nil THEN 0
             ELSE 1 + IF h[node[n].children[0]] > h[node[n].children[1]]
                      THEN h[node[n].children[0]] ELSE h[node[n].children[1]]]
  BY <1>2 DEF AVL!Above, Nodes
<1>4. f[Nil] = 0
  BY <1>3, NilApart
<1>5. ASSUME NEW n \in AVLAddr
      PROVE  f[n] \in Nat /\ f[n] = 1 + Larger(h[Kids(node)[n][0]], h[Kids(node)[n][1]])
  <2>1. n \in Nodes /\ n # Nil
    BY NilApart DEF Nodes
  <2>2. PICK i, j \in Nat : i = h[node[n].children[0]] /\ j = h[node[n].children[1]]
    BY <1>1
  <2>3. f[n] = 1 + IF i > j THEN i ELSE j
    BY <1>3, <2>1, <2>2
  <2>4. f[n] \in Nat
    BY <2>2, <2>3
  <2>. QED  BY <1>1, <2>2, <2>3, <2>4 DEF Larger
<1>6. f \in [Nodes -> Nat]
  <2>1. \A n \in Nodes : f[n] \in Nat
    BY <1>4, <1>5 DEF Nodes
  <2>. QED  BY <1>3, <2>1
<1>. QED  BY <1>2, <1>4, <1>5, <1>6

\* The height that the model computes is the one that the invariant has.
LEMMA HeightIs ==
  ASSUME NEW U, NEW C, NEW P, NEW D, node \in [AVLAddr -> Record], C = Kids(node),
         Tree(U, root, C, P, D), NEW B, NEW H, Torn(U, C, B, H, Nil, 0, 0), NEW n \in U \cup {Nil}
  PROVE  AVL!Height(n) = H[n]
<1>1. PICK N, zero : N = Cardinality(AVLAddr) /\ zero = [m \in Nodes |-> 0]
  OBVIOUS
<1>2. N \in Nat /\ zero \in [Nodes -> Nat]
  BY <1>1, AVLAssumption, FS_CardinalityType
<1>3. PICK w : w = CHOOSE h : h = [d \in Nat |-> IF d = 0 THEN [m \in Nodes |-> 0] ELSE AVL!Above(h[d - 1])]
  OBVIOUS
<1>4. AVL!Height(n) = w[N][n]
  <2>1. AVL!Cardinality(AVLAddr) = Cardinality(AVLAddr)
    BY DEF AVL!Cardinality, Cardinality
  <2>2. AVL!Height(n)
          = (CHOOSE h : h = [d \in Nat |-> IF d = 0 THEN [m \in Nodes |-> 0] ELSE AVL!Above(h[d - 1])])
              [AVL!Cardinality(AVLAddr)][n]
    BY DEF AVL!Height, Nodes
  <2>. QED  BY <1>1, <1>3, <2>1, <2>2
<1>5. \E f \in [Nat -> [Nodes -> Nat]] :
        f = [d \in Nat |-> IF d = 0 THEN [m \in Nodes |-> 0] ELSE AVL!Above(f[d - 1])]
  <2>1. PICK R : R = [Nodes -> Nat]
    OBVIOUS
  <2>2. PICK F : F = [h \in R |-> AVL!Above(h)]
    OBVIOUS
  <2>3. F \in [R -> R] /\ zero \in R
    BY <1>2, <2>1, <2>2, AboveIs
  <2>4. PICK f \in [Nat -> R] : \A d \in Nat : f[d] = IF d = 0 THEN zero ELSE F[f[d - 1]]
    BY <2>3, Loop
  <2>5. \A d \in Nat : f[d] = IF d = 0 THEN zero ELSE AVL!Above(f[d - 1])
    <3>1. \A d \in Nat : d # 0 => d - 1 \in Nat
      OBVIOUS
    <3>. QED  BY <2>2, <2>4, <3>1
  <2>6. f = [d \in Nat |-> f[d]]
    BY <2>4
  <2>7. f = [d \in Nat |-> IF d = 0 THEN zero ELSE AVL!Above(f[d - 1])]
    BY <2>5, <2>6
  <2>. QED  BY <1>1, <2>1, <2>4, <2>7
<1>6. w = [d \in Nat |-> IF d = 0 THEN [m \in Nodes |-> 0] ELSE AVL!Above(w[d - 1])]
  <2>1. \E h : h = [d \in Nat |-> IF d = 0 THEN [m \in Nodes |-> 0] ELSE AVL!Above(h[d - 1])]
    BY <1>5
  <2>. QED  BY <1>3, <2>1, Zenon
<1>7. w[0] = zero /\ \A d \in Nat : w[d + 1] = AVL!Above(w[d])
  <2>1. w[0] = zero
    BY <1>1, <1>6
  <2>2. ASSUME NEW d \in Nat PROVE w[d + 1] = AVL!Above(w[d])
    <3>1. d + 1 \in Nat /\ d + 1 # 0 /\ (d + 1) - 1 = d
      OBVIOUS
    <3>2. w[d + 1] = AVL!Above(w[(d + 1) - 1])
      BY <1>6, <3>1
    <3>. QED  BY <3>1, <3>2
  <2>. QED  BY <2>1, <2>2
<1>8. /\ U \subseteq AVLAddr /\ Nil \notin U /\ H[Nil] = 0
      /\ \A m \in U : /\ m \in Nodes /\ Cardinality(D[m]) > 0 /\ Cardinality(D[m]) \in Nat
                      /\ H[m] = 1 + Larger(H[C[m][0]], H[C[m][1]])
                      /\ \A a \in 0 .. 1 : /\ C[m][a] \in U \cup {Nil} /\ C[m][a] \in Nodes
                                           /\ Cardinality(D[C[m][a]]) \in Nat
                                           /\ Cardinality(D[C[m][a]]) < Cardinality(D[m])
  <2>1. U \subseteq AVLAddr /\ Nil \notin U /\ U \subseteq Nodes
    BY NilApart DEF Tree, Typed, Nodes
  <2>2. H[Nil] = 0 /\ \A m \in U : H[m] = 1 + Larger(H[C[m][0]], H[C[m][1]])
    BY <2>1 DEF Torn, Heights, Flat
  <2>3. \A m \in U : \A a \in 0 .. 1 : C[m][a] \in U \cup {Nil} /\ C[m][a] \in Nodes
    BY <2>1, NilApart DEF Tree, Parted
  <2>. QED  BY <2>1, <2>2, <2>3, FewerBelow
<1> DEFINE Good(d) ==
      /\ w[d] \in [Nodes -> Nat]
      /\ \A m \in U \cup {Nil} : m = Nil \/ Cardinality(D[m]) <= d => w[d][m] = H[m]
<1>9. Good(0)
  <2>1. w[0] \in [Nodes -> Nat] /\ w[0][Nil] = 0
    BY <1>1, <1>2, <1>7, NilApart
  <2>. QED  BY <1>8, <2>1
<1>10. ASSUME NEW d \in Nat, Good(d) PROVE Good(d + 1)
  <2>1. PICK h : h = w[d]
    OBVIOUS
  <2>2. h \in [Nodes -> Nat] /\ w[d + 1] = AVL!Above(h)
        /\ \A m \in U \cup {Nil} : m = Nil \/ Cardinality(D[m]) <= d => h[m] = H[m]
    BY <1>7, <1>10, <2>1
  <2>3. /\ w[d + 1] \in [Nodes -> Nat] /\ w[d + 1][Nil] = 0
        /\ \A m \in AVLAddr : w[d + 1][m] = 1 + Larger(h[C[m][0]], h[C[m][1]])
    BY <2>2, AboveIs
  <2>4. ASSUME NEW m \in U, Cardinality(D[m]) <= d + 1 PROVE w[d + 1][m] = H[m]
    <3>1. ASSUME NEW a \in 0 .. 1 PROVE h[C[m][a]] = H[C[m][a]]
      <4>1. /\ C[m][a] \in U \cup {Nil} /\ Cardinality(D[C[m][a]]) \in Nat
            /\ Cardinality(D[C[m][a]]) < Cardinality(D[m]) /\ Cardinality(D[m]) \in Nat
        BY <1>8
      <4>2. Cardinality(D[C[m][a]]) <= d
        BY <2>4, <4>1
      <4>. QED  BY <2>2, <4>1, <4>2
    <3>2. h[C[m][0]] = H[C[m][0]] /\ h[C[m][1]] = H[C[m][1]]
      BY <3>1
    <3>3. m \in AVLAddr /\ H[m] = 1 + Larger(H[C[m][0]], H[C[m][1]])
      BY <1>8
    <3>. QED  BY <2>3, <3>2, <3>3
  <2>. QED  BY <1>8, <2>3, <2>4
<1>11. Good(N)
  <2>1. PICK T : T = {d \in Nat : Good(d)}
    OBVIOUS
  <2>2. 0 \in T /\ \A d \in Nat : d \in T => d + 1 \in T
    BY <1>9, <1>10, <2>1
  <2>3. Nat \subseteq T
    BY <2>2, Induction
  <2>. QED  BY <1>2, <2>1, <2>3
<1>12. n = Nil \/ Cardinality(D[n]) <= N
  <2>1. \A m \in Nodes : Cardinality(D[m]) <= N
    BY <1>1, FewerBelow
  <2>. QED  BY <1>8, <2>1
<1>. QED  BY <1>4, <1>11, <1>12

\* The invariant has the types.
LEMMA TypesHeld ==
  ASSUME NEW U, NEW D, NEW H, Held(U, D, H)
  PROVE  AVL!TypeOK
<1>1. /\ node \in [AVLAddr -> Record] /\ Tree(U, root, Kids(node), Parents(node), D)
      /\ size = Cardinality(U)
      /\ work \in [op : {"none", "put", "remove", "panic"}, path : Seq(Steps)]
  BY DEF Held, Sound, Working
<1>2. root \in AVLAddr \cup {Nil}
  BY <1>1 DEF Tree, Typed
<1>3. size \in Nat
  BY <1>1, SizeIs
<1>4. Steps = AVL!Frame
  BY DEF Steps, AVL!Frame, AVL!Side
<1>5. node \in [AVLAddr -> [key : AVLKeys \cup {Nil}, value : (AVLKeys \cup {0}) \cup {Nil},
                            parent : AVLAddr \cup {Nil},
                            children : [AVL!Side -> AVLAddr \cup {Nil}], b : -1 .. 1]]
  BY <1>1 DEF Record, Nodes, AVL!Side
<1>. QED  BY <1>1, <1>2, <1>3, <1>4, <1>5 DEF AVL!TypeOK

\* The invariant has the balances.
LEMMA BalancedHeld ==
  ASSUME NEW U, NEW D, NEW H, Held(U, D, H)
  PROVE  AVL!Balanced
<1>1. SUFFICES ASSUME work.op = "none", NEW n \in AVL!InUse
               PROVE  node[n].b = AVL!Height(node[n].children[1]) - AVL!Height(node[n].children[0])
  BY DEF AVL!Balanced
<1>2. PICK C, P, B : C = Kids(node) /\ P = Parents(node) /\ B = Leans(node)
  OBVIOUS
<1>3. /\ node \in [AVLAddr -> Record] /\ Tree(U, root, C, P, D) /\ Torn(U, C, B, H, Nil, 0, 0)
      /\ n \in U
  BY <1>1, <1>2, InUseIs DEF Held, Sound, Working
<1>4. /\ n \in AVLAddr /\ C[n][0] \in U \cup {Nil} /\ C[n][1] \in U \cup {Nil} /\ n # Nil
  BY <1>3, NilApart DEF Tree, Typed, Parted
<1>5. AVL!Height(C[n][0]) = H[C[n][0]] /\ AVL!Height(C[n][1]) = H[C[n][1]]
  BY <1>2, <1>3, <1>4, HeightIs
<1>6. node[n].children = C[n] /\ node[n].b = B[n]
  BY <1>2, <1>3, <1>4, Memory
<1>7. B[n] = H[C[n][1]] - H[C[n][0]]
  BY <1>3, <1>4 DEF Torn, Flat
<1>. QED  BY <1>5, <1>6, <1>7

\* At every moment the nodes have their types, and between two calls every node has
\* the balance that goes with its subtrees' heights.
THEOREM AVLKeepsBalance == AVLSpec => []AVLBalanced
<1>1. AInv => AVLBalanced
  BY TypesHeld, BalancedHeld DEF AInv, AVLBalanced
<1>. QED  BY <1>1, AVLIsATree, PTL

-----------------------------------------------------------------------------
(* What the tree answers is what its map does.                              *)

\* The keys of the map are those of the nodes.
LEMMA KeysHeld ==
  ASSUME NEW U, NEW D, NEW H, Held(U, D, H), NEW K, K = Names(node)
  PROVE  /\ \A n \in U : K[n] \in AMap!Keys /\ K[n] \in Int /\ KeyOf(n) = K[n] /\ node[n].key = K[n]
         /\ \A k \in AMap!Keys : k \in AVLKeys /\ k \in Int /\ \E n \in U : K[n] = k
         /\ AMap!Keys \subseteq Int /\ KeyOf(Nil) = Nil /\ Nil \notin U
         /\ Distinct(U, K)
<1>1. /\ node \in [AVLAddr -> Record] /\ Content(U, K, Worth(node), map)
      /\ Ordered(U, Kids(node), K, D) /\ Tree(U, root, Kids(node), Parents(node), D)
  BY DEF Held, Sound
<1>2. U \subseteq AVLAddr /\ Nil \notin U /\ Distinct(U, K)
  BY <1>1, NilApart DEF Ordered, Tree, Typed
<1>3. \A n \in U : K[n] \in AVLKeys /\ K[n] \in Int /\ node[n].key = K[n]
  BY <1>1, <1>2, KeysAreIntegers, Memory DEF Distinct
<1>4. \A k \in AVLKeys : k \in AMap!Keys <=> map[k] # Nil
  BY DEF AMap!Keys
<1>5. AMap!Keys \subseteq AVLKeys
  BY DEF AMap!Keys
<1>6. AVLKeys \subseteq Int
  BY AVLAssumption
<1>. QED  BY <1>1, <1>2, <1>3, <1>4, <1>5, <1>6 DEF Content, KeyOf

\* The size is the number of keys in the map.
LEMMA SizeHeld ==
  ASSUME NEW U, NEW D, NEW H, Held(U, D, H)
  PROVE  size = Cardinality(AMap!Keys)
<1>1. PICK K : K = Names(node)
  OBVIOUS
<1>2. size = Cardinality(U) /\ IsFiniteSet(U)
  <2>1. Tree(U, root, Kids(node), Parents(node), D)
    BY DEF Held, Sound
  <2>. QED  BY <2>1, SizeIs DEF Held
<1>3. /\ \A n \in U : K[n] \in AMap!Keys
      /\ \A k \in AMap!Keys : \E n \in U : K[n] = k
      /\ \A m, n \in U : K[m] = K[n] => m = n
  BY <1>1, KeysHeld DEF Distinct
<1>4. PICK f : f = [n \in U |-> K[n]]
  OBVIOUS
<1>5. f \in Bijection(U, AMap!Keys)
  BY <1>3, <1>4 DEF Bijection, Injection, Surjection, IsInjective
<1>. QED  BY <1>2, <1>5, FS_Bijection DEF ExistsBijection

\* Get answers what the map has.
LEMMA GetHeld ==
  ASSUME NEW U, NEW D, NEW H, Held(U, D, H), NEW k \in AVLKeys
  PROVE  AVL!Get(k) = map[k]
<1>1. PICK C, P, K, path, q, sd, e : Found(U, D, C, P, K, k, path, q, sd, e)
  BY FoundIs
<1>2. /\ AVL!At(AVL!Path(k)) = e /\ e \in U \cup {Nil} /\ (e = Nil \/ K[e] = k)
      /\ Searching(U, C, K, D, q, sd, e, k) /\ D[Nil] = {} /\ node \in [AVLAddr -> Record]
      /\ K = Names(node) /\ U \subseteq AVLAddr /\ Nil \notin U
  BY <1>1, NilApart DEF Found, Tree, Typed
<1>3. Content(U, K, Worth(node), map)
  BY <1>2 DEF Held, Sound
<1>4. CASE e = Nil
  <2>1. \A m \in U : K[m] # k
    BY <1>2, <1>4 DEF Searching
  <2>2. map[k] = Nil
    BY <1>3, <2>1 DEF Content
  <2>. QED  BY <1>2, <1>4, <2>2 DEF AVL!Get
<1>5. CASE e # Nil
  <2>1. e \in U /\ e \in AVLAddr /\ K[e] = k
    BY <1>2, <1>5
  <2>2. map[k] = node[e].value
    BY <1>2, <1>3, <2>1, Memory DEF Content
  <2>. QED  BY <1>2, <1>5, <2>2 DEF AVL!Get
<1>. QED  BY <1>4, <1>5

\* The node x is the next one to k on the side a; there is none if it is Nil.
Nearest(U, K, a, k, x) ==
  \/ x = Nil /\ \A m \in U : ~Beside(a, K[m], k)
  \/ x \in U /\ Beside(a, K[x], k) /\ \A m \in U : Beside(a, K[m], k) => m = x \/ Beside(a, K[m], K[x])

\* The node next to k on the right has the key that the map has after k.
LEMMA AfterHeld ==
  ASSUME NEW U, NEW D, NEW H, Held(U, D, H), NEW K, K = Names(node), NEW k \in Int, NEW x,
         Nearest(U, K, 1, k, x)
  PROVE  KeyOf(x) = AMap!After(k)
<1>1. PICK S : S = {j \in AMap!Keys : j > k}
  OBVIOUS
<1>2. /\ \A n \in U : K[n] \in AMap!Keys /\ K[n] \in Int /\ KeyOf(n) = K[n]
      /\ \A j \in AMap!Keys : j \in Int /\ \E n \in U : K[n] = j
      /\ KeyOf(Nil) = Nil /\ Nil \notin U
  BY KeysHeld
<1>3. AMap!After(k) = IF S = {} THEN Nil ELSE AMap!Min(S)
  BY <1>1 DEF AMap!After
<1>4. AMap!Min(S) = CHOOSE j \in S : \A y \in S : j =< y
  BY DEF AMap!Min
<1>5. CASE x = Nil
  <2>1. S = {}
    BY <1>1, <1>2, <1>5 DEF Nearest, Beside
  <2>. QED  BY <1>2, <1>3, <1>5, <2>1
<1>6. CASE x # Nil
  <2>1. x \in U /\ K[x] > k /\ \A m \in U : K[m] > k => m = x \/ K[m] > K[x]
    BY <1>2, <1>6 DEF Nearest, Beside
  <2>2. K[x] \in S /\ \A j \in S : K[x] =< j
    BY <1>1, <1>2, <2>1
  <2>3. \A j \in S : j \in Int
    BY <1>1, <1>2
  <2>4. \A j \in S : (\A y \in S : j =< y) => j = K[x]
    BY <2>2, <2>3
  <2>. QED  BY <1>2, <1>3, <1>4, <2>1, <2>2, <2>4
<1>. QED  BY <1>5, <1>6

\* The node next to k on the left has the key that the map has before k.
LEMMA BeforeHeld ==
  ASSUME NEW U, NEW D, NEW H, Held(U, D, H), NEW K, K = Names(node), NEW k \in Int, NEW x,
         Nearest(U, K, 0, k, x)
  PROVE  KeyOf(x) = AMap!Before(k)
<1>1. PICK S : S = {j \in AMap!Keys : j < k}
  OBVIOUS
<1>2. /\ \A n \in U : K[n] \in AMap!Keys /\ K[n] \in Int /\ KeyOf(n) = K[n]
      /\ \A j \in AMap!Keys : j \in Int /\ \E n \in U : K[n] = j
      /\ KeyOf(Nil) = Nil /\ Nil \notin U
  BY KeysHeld
<1>3. AMap!Before(k) = IF S = {} THEN Nil ELSE AMap!Max(S)
  BY <1>1 DEF AMap!Before
<1>4. AMap!Max(S) = CHOOSE j \in S : \A y \in S : j >= y
  BY DEF AMap!Max
<1>5. CASE x = Nil
  <2>1. S = {}
    BY <1>1, <1>2, <1>5 DEF Nearest, Beside
  <2>. QED  BY <1>2, <1>3, <1>5, <2>1
<1>6. CASE x # Nil
  <2>1. x \in U /\ K[x] < k /\ \A m \in U : K[m] < k => m = x \/ K[m] < K[x]
    BY <1>2, <1>6 DEF Nearest, Beside
  <2>2. K[x] \in S /\ \A j \in S : K[x] >= j
    BY <1>1, <1>2, <2>1
  <2>3. \A j \in S : j \in Int
    BY <1>1, <1>2
  <2>4. \A j \in S : (\A y \in S : j >= y) => j = K[x]
    BY <2>2, <2>3
  <2>. QED  BY <1>2, <1>3, <1>4, <2>1, <2>2, <2>4
<1>. QED  BY <1>5, <1>6

\* The node f is the last one up to k.
Greatest(U, K, k, f) ==
  \/ f = Nil /\ \A m \in U : ~(K[m] <= k)
  \/ f \in U /\ K[f] <= k /\ \A m \in U : K[m] <= k => K[m] <= K[f]

\* The last node up to k has the key that the map has for Floor.
LEMMA FloorHeld ==
  ASSUME NEW U, NEW D, NEW H, Held(U, D, H), NEW K, K = Names(node), NEW k \in Int, NEW f,
         Greatest(U, K, k, f)
  PROVE  KeyOf(f) = AMap!Floor(k)
<1>1. PICK S : S = {j \in AMap!Keys : j <= k}
  OBVIOUS
<1>2. /\ \A n \in U : K[n] \in AMap!Keys /\ K[n] \in Int /\ KeyOf(n) = K[n]
      /\ \A j \in AMap!Keys : j \in Int /\ \E n \in U : K[n] = j
      /\ KeyOf(Nil) = Nil /\ Nil \notin U
  BY KeysHeld
<1>3. AMap!Floor(k) = IF S = {} THEN Nil ELSE AMap!Max(S)
  BY <1>1 DEF AMap!Floor
<1>4. AMap!Max(S) = CHOOSE j \in S : \A y \in S : j >= y
  BY DEF AMap!Max
<1>5. CASE f = Nil
  <2>1. S = {}
    BY <1>1, <1>2, <1>5 DEF Greatest
  <2>. QED  BY <1>2, <1>3, <1>5, <2>1
<1>6. CASE f # Nil
  <2>1. f \in U /\ K[f] <= k /\ \A m \in U : K[m] <= k => K[m] <= K[f]
    BY <1>2, <1>6 DEF Greatest
  <2>2. K[f] \in S /\ \A j \in S : K[f] >= j
    BY <1>1, <1>2, <2>1
  <2>3. \A j \in S : j \in Int
    BY <1>1, <1>2
  <2>4. \A j \in S : (\A y \in S : j >= y) => j = K[f]
    BY <2>2, <2>3
  <2>. QED  BY <1>2, <1>3, <1>4, <2>1, <2>2, <2>4
<1>. QED  BY <1>5, <1>6

\* Farthest goes from z by the children on the side a to the last one.
LEMMA FarthestIs ==
  ASSUME NEW U, NEW C, NEW P, NEW K, NEW D, node \in [AVLAddr -> Record],
         C = Kids(node), K = Names(node), Tree(U, root, C, P, D), Ordered(U, C, K, D),
         NEW z \in U, NEW a \in 0 .. 1, NEW x, x = AVL!Farthest(z, a)
  PROVE  x \in U /\ x \in D[z] /\ \A m \in D[z] : m # x => Beside(a, K[x], K[m])
<1>1. PICK N : N = Cardinality(AVLAddr)
  OBVIOUS
<1>2. /\ N \in Nat /\ Nil \notin U /\ U \subseteq AVLAddr /\ U \subseteq Nodes
      /\ \A n \in AVLAddr : node[n].children = C[n] /\ C[n][a] \in Nodes
  BY <1>1, Memory, NilApart, AVLAssumption, FS_CardinalityType DEF Tree, Typed, Nodes
<1>3. PICK w : w = CHOOSE way : way = [i \in Nat |-> IF i = 0 THEN z ELSE AVL!Farther(way[i - 1], a)]
  OBVIOUS
<1>4. x = w[N]
  <2>1. AVL!Cardinality(AVLAddr) = Cardinality(AVLAddr)
    BY DEF AVL!Cardinality, Cardinality
  <2>2. AVL!Farthest(z, a)
          = (CHOOSE way : way = [i \in Nat |-> IF i = 0 THEN z ELSE AVL!Farther(way[i - 1], a)])
              [AVL!Cardinality(AVLAddr)]
    BY DEF AVL!Farthest
  <2>. QED  BY <1>1, <1>3, <2>1, <2>2
<1>5. \A n \in AVLAddr :
        /\ AVL!Farther(n, a) = IF C[n][a] = Nil THEN n ELSE C[n][a]
        /\ AVL!Farther(n, a) \in AVLAddr
  BY <1>2 DEF AVL!Farther, Nodes
<1>6. w = [i \in Nat |-> IF i = 0 THEN z ELSE AVL!Farther(w[i - 1], a)]
  <2>1. PICK R, F : R = AVLAddr /\ F = [n \in R |-> AVL!Farther(n, a)]
    OBVIOUS
  <2>2. F \in [R -> R] /\ z \in R
    BY <1>2, <1>5, <2>1
  <2>3. PICK f \in [Nat -> R] : \A i \in Nat : f[i] = IF i = 0 THEN z ELSE F[f[i - 1]]
    BY ONLY <2>2, Loop
  <2>4. \A i \in Nat : f[i] = IF i = 0 THEN z ELSE AVL!Farther(f[i - 1], a)
    <3>1. \A i \in Nat : i # 0 => i - 1 \in Nat
      OBVIOUS
    <3>. QED  BY <2>1, <2>3, <3>1
  <2>5. f = [i \in Nat |-> f[i]]
    BY <2>3
  <2>6. f = [i \in Nat |-> IF i = 0 THEN z ELSE AVL!Farther(f[i - 1], a)]
    BY <2>4, <2>5
  <2>7. \E way : way = [i \in Nat |-> IF i = 0 THEN z ELSE AVL!Farther(way[i - 1], a)]
    BY <2>6
  <2>. QED  BY <1>3, <2>7, Zenon
<1>7. w[0] = z /\ \A i \in Nat : w[i + 1] = AVL!Farther(w[i], a)
  <2>1. w[0] = z
    BY <1>6
  <2>2. ASSUME NEW i \in Nat PROVE w[i + 1] = AVL!Farther(w[i], a)
    <3>1. i + 1 \in Nat /\ i + 1 # 0 /\ (i + 1) - 1 = i
      OBVIOUS
    <3>2. w[i + 1] = AVL!Farther(w[(i + 1) - 1], a)
      BY <1>6, <3>1
    <3>. QED  BY <3>1, <3>2
  <2>. QED  BY <2>1, <2>2
<1> DEFINE Good(i) ==
      /\ w[i] \in U /\ Outermost(a, K, D, z, w[i])
      /\ C[w[i]][a] = Nil \/ Cardinality(D[w[i]]) + i <= N
<1>8. Good(0)
  <2>1. Cardinality(D[z]) + 0 <= N
    BY <1>1, <1>2, FewerBelow
  <2>2. Outermost(a, K, D, z, z)
    BY DEF Outermost, Tree, Parted
  <2>. QED  BY <1>7, <2>1, <2>2
<1>9. ASSUME NEW i \in Nat, Good(i) PROVE Good(i + 1)
  <2>1. PICK e : e = w[i]
    OBVIOUS
  <2>2. e \in U /\ Outermost(a, K, D, z, e) /\ (C[e][a] = Nil \/ Cardinality(D[e]) + i <= N)
    BY <1>9, <2>1
  <2>3. w[i + 1] = IF C[e][a] = Nil THEN e ELSE C[e][a]
    BY <1>2, <1>5, <1>7, <2>1, <2>2
  <2>4. CASE C[e][a] = Nil
    BY <1>9, <2>1, <2>3, <2>4
  <2>5. CASE C[e][a] # Nil
    <3>1. C[e][a] \in U /\ Outermost(a, K, D, z, C[e][a])
      BY <2>2, <2>5, OutermostDown
    <3>2. /\ Cardinality(D[C[e][a]]) < Cardinality(D[e]) /\ Cardinality(D[e]) \in Nat
          /\ Cardinality(D[C[e][a]]) \in Nat
      BY <1>2, <2>2, <3>1, FewerBelow
    <3>3. Cardinality(D[C[e][a]]) + (i + 1) <= N
      BY <1>2, <2>2, <2>5, <3>2
    <3>. QED  BY <2>3, <2>5, <3>1, <3>3
  <2>. QED  BY <2>4, <2>5
<1>10. Good(N)
  <2>1. PICK T : T = {i \in Nat : Good(i)}
    OBVIOUS
  <2>2. 0 \in T /\ \A i \in Nat : i \in T => i + 1 \in T
    BY <1>8, <1>9, <2>1
  <2>3. Nat \subseteq T
    BY <2>2, Induction
  <2>. QED  BY <1>2, <2>1, <2>3
<1>11. x \in U /\ Outermost(a, K, D, z, x) /\ (C[x][a] = Nil \/ Cardinality(D[x]) + N <= N)
  BY <1>4, <1>10
<1>12. C[x][a] = Nil
  <2>1. Cardinality(D[x]) > 0 /\ Cardinality(D[x]) \in Nat
    BY <1>2, <1>11, FewerBelow
  <2>. QED  BY <1>2, <1>11, <2>1
<1>. QED  BY <1>11, <1>12, OutermostDown DEF Outermost

\* The loop of Floor is at e, and f is the best one so far.
Flooring(U, K, D, k, e, f) ==
  /\ e \in U \cup {Nil} /\ f \in U \cup {Nil}
  /\ \A m \in U : K[m] <= k => m \in D[e] \/ (f # Nil /\ K[m] <= K[f])
  /\ f # Nil => K[f] <= k /\ \A y \in D[e] : K[f] < K[y]

\* Where the loop of Floor ends, the best one so far is the last one up to k.
LEMMA FloorEnds ==
  ASSUME NEW U, NEW rt, NEW C, NEW P, NEW D, Tree(U, rt, C, P, D), NEW K, NEW k,
         NEW f, Flooring(U, K, D, k, Nil, f)
  PROVE  Greatest(U, K, k, f)
BY DEF Flooring, Greatest, Tree, Typed

\* A turn of the loop of Floor.
LEMMA FloorDown ==
  ASSUME NEW U, NEW rt, NEW C, NEW P, NEW K, NEW D, Tree(U, rt, C, P, D), Ordered(U, C, K, D),
         NEW k \in Int, NEW e \in U, NEW f, Flooring(U, K, D, k, e, f)
  PROVE  /\ k = K[e] => Flooring(U, K, D, k, Nil, e)
         /\ k < K[e] => Flooring(U, K, D, k, C[e][0], f)
         /\ K[e] < k => Flooring(U, K, D, k, C[e][1], e)
<1>1. PICK l, r : l = C[e][0] /\ r = C[e][1]
  OBVIOUS
<1>2. /\ D[e] = {e} \cup D[l] \cup D[r] /\ l \in U \cup {Nil} /\ r \in U \cup {Nil}
      /\ (\A m \in D[l] : K[m] < K[e]) /\ \A m \in D[r] : K[e] < K[m]
  BY <1>1 DEF Tree, Parted, Ordered, Sorted
<1>3. /\ D[Nil] = {} /\ Nil \notin U /\ D[e] \subseteq U
      /\ \A m \in U : K[m] \in Int
  BY NilApart, KeysAreIntegers DEF Tree, Typed, Ordered, Nodes
<1>4. /\ f \in U \cup {Nil}
      /\ \A m \in U : K[m] <= k => m \in D[e] \/ (f # Nil /\ K[m] <= K[f])
      /\ f # Nil => K[f] <= k /\ \A y \in D[e] : K[f] < K[y]
  BY DEF Flooring
<1>5. e \in D[e]
  BY <1>2
<1>6. ASSUME k = K[e] PROVE Flooring(U, K, D, k, Nil, e)
  BY <1>3, <1>6 DEF Flooring
<1>7. ASSUME k < K[e] PROVE Flooring(U, K, D, k, l, f)
  <2>1. ASSUME NEW m \in U, K[m] <= k PROVE m \in D[l] \/ (f # Nil /\ K[m] <= K[f])
    <3>1. m # e /\ m \notin D[r]
      BY <1>2, <1>3, <1>7, <2>1
    <3>. QED  BY <1>2, <1>4, <2>1, <3>1
  <2>. QED  BY <1>2, <1>4, <2>1 DEF Flooring
<1>8. ASSUME K[e] < k PROVE Flooring(U, K, D, k, r, e)
  <2>1. ASSUME NEW m \in U, K[m] <= k PROVE m \in D[r] \/ (e # Nil /\ K[m] <= K[e])
    <3>1. CASE m \in D[e]
      BY <1>2, <1>3, <3>1
    <3>2. CASE m \notin D[e]
      BY <1>3, <1>4, <1>5, <2>1, <3>2
    <3>. QED  BY <3>1, <3>2
  <2>2. K[e] <= k
    BY <1>3, <1>8
  <2>. QED  BY <1>2, <2>1, <2>2 DEF Flooring
<1>. QED  BY <1>1, <1>6, <1>7, <1>8

\* Floor finds the last node up to k.
LEMMA FloorIs ==
  ASSUME NEW U, NEW C, NEW P, NEW K, NEW D, node \in [AVLAddr -> Record],
         C = Kids(node), K = Names(node), Tree(U, root, C, P, D), Ordered(U, C, K, D),
         NEW k \in Int, NEW x, x = AVL!Floor(k)
  PROVE  Greatest(U, K, k, x)
<1>1. PICK N, first : N = Cardinality(AVLAddr) /\ first = [at |-> root, floor |-> Nil]
  OBVIOUS
<1>2. /\ N \in Nat /\ Nil \notin U /\ U \subseteq AVLAddr /\ U \subseteq Nodes /\ root \in U \cup {Nil}
      /\ \A n \in AVLAddr : /\ node[n].children = C[n] /\ node[n].key = K[n]
                            /\ C[n][0] \in Nodes /\ C[n][1] \in Nodes
  BY <1>1, Memory, NilApart, AVLAssumption, FS_CardinalityType DEF Tree, Typed, Nodes
<1>3. PICK w : w = CHOOSE loop : loop =
                     [i \in Nat |-> IF i = 0 THEN [at |-> root, floor |-> Nil] ELSE AVL!FloorTurn(k, loop[i - 1])]
  OBVIOUS
<1>4. x = w[N].floor
  <2>1. AVL!Cardinality(AVLAddr) = Cardinality(AVLAddr)
    BY DEF AVL!Cardinality, Cardinality
  <2>2. AVL!Floor(k)
          = (CHOOSE loop : loop =
               [i \in Nat |-> IF i = 0 THEN [at |-> root, floor |-> Nil] ELSE AVL!FloorTurn(k, loop[i - 1])])
              [AVL!Cardinality(AVLAddr)].floor
    BY DEF AVL!Floor
  <2>. QED  BY <1>1, <1>3, <2>1, <2>2
<1>5. PICK R : R = [at : Nodes, floor : Nodes]
  OBVIOUS
<1>6. ASSUME NEW now \in R
      PROVE  /\ AVL!FloorTurn(k, now) \in R
             /\ now.at = Nil => AVL!FloorTurn(k, now) = now
             /\ now.at # Nil /\ K[now.at] = k =>
                  AVL!FloorTurn(k, now).at = Nil /\ AVL!FloorTurn(k, now).floor = now.at
             /\ now.at # Nil /\ K[now.at] # k /\ k < K[now.at] =>
                  AVL!FloorTurn(k, now).at = C[now.at][0] /\ AVL!FloorTurn(k, now).floor = now.floor
             /\ now.at # Nil /\ K[now.at] # k /\ ~(k < K[now.at]) =>
                  AVL!FloorTurn(k, now).at = C[now.at][1] /\ AVL!FloorTurn(k, now).floor = now.at
  <2>1. PICK e, f, t : e = now.at /\ f = now.floor /\ t = AVL!FloorTurn(k, now)
    OBVIOUS
  <2>2. e \in Nodes /\ f \in Nodes /\ now \in R /\ Nil \in Nodes
    BY <1>5, <1>6, <2>1, NilApart
  <2>3. CASE e = Nil
    BY <2>1, <2>2, <2>3 DEF AVL!FloorTurn
  <2>4. CASE e # Nil
    <3>1. e \in AVLAddr /\ node[e].key = K[e] /\ node[e].children = C[e]
      BY <1>2, <2>2, <2>4 DEF Nodes
    <3>2. CASE K[e] = k
      <4>1. t = [at |-> Nil, floor |-> e]
        BY <2>1, <2>4, <3>1, <3>2 DEF AVL!FloorTurn
      <4>. QED  BY <1>5, <2>1, <2>2, <2>4, <3>2, <4>1
    <3>3. CASE K[e] # k /\ k < K[e]
      <4>1. t = [at |-> C[e][0], floor |-> f]
        BY <2>1, <2>4, <3>1, <3>3 DEF AVL!FloorTurn, AVL!Towards
      <4>. QED  BY <1>2, <1>5, <2>1, <2>2, <2>4, <3>1, <3>3, <4>1
    <3>4. CASE K[e] # k /\ ~(k < K[e])
      <4>1. t = [at |-> C[e][1], floor |-> e]
        BY <2>1, <2>4, <3>1, <3>4 DEF AVL!FloorTurn, AVL!Towards
      <4>. QED  BY <1>2, <1>5, <2>1, <2>2, <2>4, <3>1, <3>4, <4>1
    <3>. QED  BY <3>2, <3>3, <3>4
  <2>. QED  BY <2>3, <2>4
<1>7. first \in R /\ first.at = root /\ first.floor = Nil
  BY <1>1, <1>2, <1>5, NilApart DEF Nodes
<1>8. w = [i \in Nat |-> IF i = 0 THEN [at |-> root, floor |-> Nil] ELSE AVL!FloorTurn(k, w[i - 1])]
  <2>1. PICK F : F = [now \in R |-> AVL!FloorTurn(k, now)]
    OBVIOUS
  <2>2. F \in [R -> R] /\ first \in R
    BY <1>6, <1>7, <2>1
  <2>3. PICK f \in [Nat -> R] : \A i \in Nat : f[i] = IF i = 0 THEN first ELSE F[f[i - 1]]
    BY ONLY <2>2, Loop
  <2>4. \A i \in Nat : f[i] = IF i = 0 THEN first ELSE AVL!FloorTurn(k, f[i - 1])
    <3>1. \A i \in Nat : i # 0 => i - 1 \in Nat
      OBVIOUS
    <3>. QED  BY <2>1, <2>3, <3>1
  <2>5. f = [i \in Nat |-> f[i]]
    BY <2>3
  <2>6. f = [i \in Nat |-> IF i = 0 THEN [at |-> root, floor |-> Nil] ELSE AVL!FloorTurn(k, f[i - 1])]
    BY <1>1, <2>4, <2>5
  <2>7. \E loop : loop =
          [i \in Nat |-> IF i = 0 THEN [at |-> root, floor |-> Nil] ELSE AVL!FloorTurn(k, loop[i - 1])]
    BY <2>6
  <2>. QED  BY <1>3, <2>7, Zenon
<1>9. w[0] = first /\ \A i \in Nat : w[i + 1] = AVL!FloorTurn(k, w[i])
  <2>1. w[0] = first
    BY <1>1, <1>8
  <2>2. ASSUME NEW i \in Nat PROVE w[i + 1] = AVL!FloorTurn(k, w[i])
    <3>1. i + 1 \in Nat /\ i + 1 # 0 /\ (i + 1) - 1 = i
      OBVIOUS
    <3>2. w[i + 1] = AVL!FloorTurn(k, w[(i + 1) - 1])
      BY <1>8, <3>1
    <3>. QED  BY <3>1, <3>2
  <2>. QED  BY <2>1, <2>2
<1> DEFINE Good(i) ==
      /\ w[i] \in R /\ Flooring(U, K, D, k, w[i].at, w[i].floor)
      /\ w[i].at = Nil \/ Cardinality(D[w[i].at]) + i <= N
<1>10. Good(0)
  <2>1. root = Nil \/ Cardinality(D[root]) + 0 <= N
    BY <1>1, <1>2, FewerBelow
  <2>2. Flooring(U, K, D, k, root, Nil)
    BY <1>2 DEF Flooring, Tree, Typed
  <2>. QED  BY <1>7, <1>9, <2>1, <2>2
<1>11. ASSUME NEW i \in Nat, Good(i) PROVE Good(i + 1)
  <2>1. PICK now, e, f, e2, f2 : /\ now = w[i] /\ e = now.at /\ f = now.floor
                                 /\ e2 = w[i + 1].at /\ f2 = w[i + 1].floor
    OBVIOUS
  <2>2. /\ now \in R /\ w[i + 1] = AVL!FloorTurn(k, now) /\ w[i + 1] \in R
        /\ Flooring(U, K, D, k, e, f) /\ (e = Nil \/ Cardinality(D[e]) + i <= N)
    BY <1>6, <1>9, <1>11, <2>1
  <2>3. CASE e = Nil
    <3>1. w[i + 1] = now
      BY <1>6, <2>1, <2>2, <2>3
    <3>. QED  BY <1>11, <2>1, <2>3, <3>1
  <2>4. CASE e # Nil
    <3>1. e \in U /\ K[e] \in Int
      BY <2>2, <2>4, KeysAreIntegers DEF Flooring, Ordered
    <3>2. /\ K[e] = k => e2 = Nil /\ f2 = e
          /\ k < K[e] => e2 = C[e][0] /\ f2 = f
          /\ K[e] < k => e2 = C[e][1] /\ f2 = e
      BY <1>6, <2>1, <2>2, <2>4, <3>1
    <3>3. /\ k = K[e] => Flooring(U, K, D, k, Nil, e)
          /\ k < K[e] => Flooring(U, K, D, k, C[e][0], f)
          /\ K[e] < k => Flooring(U, K, D, k, C[e][1], e)
      BY <2>2, <3>1, FloorDown
    <3>4. Flooring(U, K, D, k, e2, f2) /\ (e2 = Nil \/ e2 = C[e][0] \/ e2 = C[e][1])
      BY <3>1, <3>2, <3>3
    <3>5. e2 # Nil => /\ Cardinality(D[e2]) < Cardinality(D[e]) /\ Cardinality(D[e]) \in Nat
                      /\ Cardinality(D[e2]) \in Nat
      <4>1. e \in Nodes /\ C[e][0] \in Nodes /\ C[e][1] \in Nodes /\ 0 \in 0 .. 1 /\ 1 \in 0 .. 1
        BY <1>2, <3>1
      <4>2. /\ Cardinality(D[C[e][0]]) < Cardinality(D[e]) /\ Cardinality(D[C[e][1]]) < Cardinality(D[e])
            /\ Cardinality(D[e]) \in Nat
            /\ Cardinality(D[C[e][0]]) \in Nat /\ Cardinality(D[C[e][1]]) \in Nat
        BY <3>1, <4>1, FewerBelow
      <4>. QED  BY <3>4, <4>2
    <3>6. e2 = Nil \/ Cardinality(D[e2]) + (i + 1) <= N
      BY <1>2, <2>2, <2>4, <3>5
    <3>. QED  BY <2>1, <2>2, <3>4, <3>6
  <2>. QED  BY <2>3, <2>4
<1>12. Good(N)
  <2>1. PICK T : T = {i \in Nat : Good(i)}
    OBVIOUS
  <2>2. 0 \in T /\ \A i \in Nat : i \in T => i + 1 \in T
    BY <1>10, <1>11, <2>1
  <2>3. Nat \subseteq T
    BY <2>2, Induction
  <2>. QED  BY <1>2, <2>1, <2>3
<1>13. PICK e : e = w[N].at
  OBVIOUS
<1>14. Flooring(U, K, D, k, e, x) /\ (e = Nil \/ Cardinality(D[e]) + N <= N)
  BY <1>4, <1>12, <1>13
<1>15. e = Nil
  <2>1. SUFFICES ASSUME e # Nil PROVE FALSE
    OBVIOUS
  <2>2. e \in U
    BY <1>14, <2>1 DEF Flooring
  <2>3. Cardinality(D[e]) > 0 /\ Cardinality(D[e]) \in Nat
    BY <1>2, <2>2, FewerBelow
  <2>. QED  BY <1>2, <1>14, <2>1, <2>3
<1>. QED  BY <1>14, <1>15, FloorEnds

\* walk1 has climbed from n to e, of all that is below which n is the last one on
\* the side a.
Climbing(U, K, D, n, a, e) ==
  e \in U /\ n \in D[e] /\ \A m \in D[e] : m # n => Beside(1 - a, K[m], K[n])

\* The node above e when e is its child on the side a, and e itself if it is not.
Climb(C, P, e, a) == IF P[e] # Nil /\ C[P[e]][a] = e THEN P[e] ELSE e

\* A turn of the loop by which walk1 climbs.
LEMMA ClimbUp ==
  ASSUME NEW U, NEW rt, NEW C, NEW P, NEW K, NEW D, Tree(U, rt, C, P, D), Ordered(U, C, K, D),
         NEW n \in U, NEW a \in 0 .. 1, NEW e, Climbing(U, K, D, n, a, e), Climb(C, P, e, a) # e
  PROVE  /\ Climbing(U, K, D, n, a, Climb(C, P, e, a))
         /\ Cardinality(D[e]) < Cardinality(D[Climb(C, P, e, a)])
<1>1. PICK p, o : p = P[e] /\ o = 1 - a
  OBVIOUS
<1>2. /\ p # Nil /\ C[p][a] = e /\ Climb(C, P, e, a) = p /\ e \in U /\ n \in D[e] /\ o \in 0 .. 1
      /\ \A m \in D[e] : m # n => Beside(o, K[m], K[n])
  BY <1>1 DEF Climb, Climbing
<1>3. p \in U
  <2>1. e # Nil
    BY <1>2, NilApart DEF Tree, Typed
  <2>. QED  BY <1>1, <1>2, <2>1 DEF Tree, Parented
<1>4. /\ D[p] = {p} \cup D[e] \cup D[C[p][o]]
      /\ \A m \in D[e] : Beside(o, K[p], K[m])
      /\ \A m \in D[C[p][o]] : Beside(o, K[m], K[p])
  BY <1>1, <1>2, <1>3, BesideBelow
<1>5. /\ \A m \in U : K[m] \in Int
      /\ D[p] \subseteq U
  BY <1>3, KeysAreIntegers DEF Ordered, Tree, Typed, Nodes
<1>6. ASSUME NEW m \in D[p], m # n PROVE Beside(o, K[m], K[n])
  <2>1. Beside(o, K[p], K[n]) /\ K[m] \in Int /\ K[n] \in Int /\ K[p] \in Int
    BY <1>2, <1>3, <1>4, <1>5
  <2>2. m = p \/ m \in D[e] \/ Beside(o, K[m], K[p])
    BY <1>4
  <2>. QED  BY <1>2, <1>6, <2>1, <2>2, BesideIs
<1>7. Cardinality(D[e]) < Cardinality(D[p])
  BY <1>2, <1>3, FewerBelow
<1>. QED  BY <1>1, <1>2, <1>3, <1>4, <1>6, <1>7 DEF Climbing

\* Where walk1 has climbed to, the parent is the next node.
LEMMA ClimbEnds ==
  ASSUME NEW U, NEW rt, NEW C, NEW P, NEW K, NEW D, Tree(U, rt, C, P, D), Ordered(U, C, K, D),
         NEW n \in U, NEW a \in 0 .. 1, NEW e, Climbing(U, K, D, n, a, e), Climb(C, P, e, a) = e,
         NEW x, x = P[e]
  PROVE  Nearest(U, K, a, K[n], x)
<1>1. PICK o : o = 1 - a
  OBVIOUS
<1>2. /\ e \in U /\ n \in D[e] /\ o \in 0 .. 1 /\ \A m \in D[e] : m # n => Beside(o, K[m], K[n])
  BY <1>1 DEF Climbing
<1>3. \A m \in U : K[m] \in Int
  BY KeysAreIntegers DEF Ordered
<1>4. ASSUME NEW m \in D[e], m \in U PROVE ~Beside(a, K[m], K[n])
  BY <1>1, <1>2, <1>3, <1>4, BesideIs
<1>5. CASE e = rt
  <2>1. x = Nil /\ D[e] = U
    BY <1>2, <1>5, NilApart DEF Tree, Typed, Parented
  <2>. QED  BY <1>4, <2>1 DEF Nearest
<1>6. CASE e # rt
  <2>1. x \in U /\ (C[x][0] = e \/ C[x][1] = e) /\ x # Nil
    BY <1>2, <1>6, NilApart DEF Tree, Typed, Parented
  <2>2. x # e
    BY <1>2, <2>1, OneParent
  <2>3. C[x][a] # e
    BY <2>1, <2>2 DEF Climb
  <2>a. (a = 0 /\ o = 1) \/ (a = 1 /\ o = 0)
    BY <1>1
  <2>4. C[x][o] = e
    BY <2>1, <2>3, <2>a
  <2>5. /\ D[x] = {x} \cup D[C[x][a]] \cup D[e]
        /\ \A m \in D[C[x][a]] : Beside(a, K[m], K[x])
        /\ \A m \in D[e] : Beside(a, K[x], K[m])
        /\ x \in D[x]
    BY <1>1, <2>1, <2>4, BesideBelow
  <2>6. Beside(a, K[x], K[n])
    BY <1>2, <2>5
  <2>7. ASSUME NEW m \in U, Beside(a, K[m], K[n]) PROVE m = x \/ Beside(a, K[m], K[x])
    <3>1. m \notin D[e]
      BY <1>4, <2>7
    <3>2. CASE m \in D[x]
      BY <2>5, <3>1, <3>2
    <3>3. CASE m \notin D[x]
      <4>1. n \in D[x]
        BY <1>2, <2>5
      <4>2. Beside(a, K[m], K[n]) <=> Beside(a, K[m], K[x])
        BY <2>1, <3>3, <4>1, BesideApart
      <4>. QED  BY <2>7, <4>2
    <3>. QED  BY <3>2, <3>3
  <2>. QED  BY <2>1, <2>6, <2>7 DEF Nearest
<1>. QED  BY <1>5, <1>6

\* The node below n that is outermost on the side it comes from.
LEMMA InnerEnds ==
  ASSUME NEW U, NEW rt, NEW C, NEW P, NEW K, NEW D, Tree(U, rt, C, P, D), Ordered(U, C, K, D),
         NEW n \in U, NEW a \in 0 .. 1, NEW o, o = 1 - a, NEW c, c = C[n][a], NEW x \in D[c], x \in U,
         \A m \in D[c] : m # x => Beside(o, K[x], K[m])
  PROVE  Nearest(U, K, a, K[n], x)
<1>1. /\ D[n] = {n} \cup D[c] \cup D[C[n][o]]
      /\ \A m \in D[c] : Beside(a, K[m], K[n])
      /\ \A m \in D[C[n][o]] : Beside(o, K[m], K[n])
  BY BesideBelow
<1>2. /\ \A m \in U : K[m] \in Int
      /\ o \in 0 .. 1
  BY KeysAreIntegers DEF Ordered
<1>3. ASSUME NEW m \in U, Beside(a, K[m], K[n]) PROVE m = x \/ Beside(a, K[m], K[x])
  <2>1. K[m] \in Int /\ K[n] \in Int /\ K[x] \in Int
    BY <1>2
  <2>2. CASE m \in D[c]
    <3>1. m = x \/ Beside(o, K[x], K[m])
      BY <2>2
    <3>2. Beside(a, K[m], K[x]) <=> Beside(o, K[x], K[m])
      BY <2>1, BesideIs
    <3>. QED  BY <3>1, <3>2
  <2>3. CASE m \in D[n] /\ m \notin D[c]
    <3>1. m = n \/ Beside(o, K[m], K[n])
      BY <1>1, <2>3
    <3>2. ~Beside(a, K[n], K[n]) /\ ~(Beside(a, K[m], K[n]) /\ Beside(o, K[m], K[n]))
      BY <2>1, BesideIs
    <3>. QED  BY <1>3, <3>1, <3>2
  <2>4. CASE m \notin D[n]
    <3>1. x \in D[n]
      BY <1>1
    <3>2. Beside(a, K[m], K[x]) <=> Beside(a, K[m], K[n])
      BY <2>4, <3>1, BesideApart
    <3>. QED  BY <1>3, <3>2
  <2>. QED  BY <2>2, <2>3, <2>4
<1>. QED  BY <1>1, <1>3 DEF Nearest

\* Walk finds the node next to n.
LEMMA WalkIs ==
  ASSUME NEW U, NEW C, NEW P, NEW K, NEW D, node \in [AVLAddr -> Record],
         C = Kids(node), P = Parents(node), K = Names(node), Tree(U, root, C, P, D), Ordered(U, C, K, D),
         NEW n \in U, NEW a \in 0 .. 1, NEW x, x = AVL!Walk(n, a)
  PROVE  Nearest(U, K, a, K[n], x)
<1>1. PICK N, o, c : N = Cardinality(AVLAddr) /\ o = 1 - a /\ c = C[n][a]
  OBVIOUS
<1>2. /\ N \in Nat /\ Nil \notin U /\ U \subseteq AVLAddr /\ U \subseteq Nodes /\ o \in 0 .. 1
      /\ n \in AVLAddr /\ c \in U \cup {Nil}
      /\ \A m \in AVLAddr : node[m].children = C[m] /\ node[m].parent = P[m] /\ P[m] \in Nodes
  <2>1. N \in Nat /\ Nil \notin U /\ U \subseteq AVLAddr /\ U \subseteq Nodes /\ o \in 0 .. 1
    BY <1>1, NilApart, AVLAssumption, FS_CardinalityType DEF Tree, Typed, Nodes
  <2>2. \A m \in AVLAddr : node[m].children = C[m] /\ node[m].parent = P[m] /\ P[m] \in Nodes
    BY Memory
  <2>3. c \in U \cup {Nil}
    BY <1>1, BesideBelow
  <2>. QED  BY <2>1, <2>2, <2>3
<1>3. PICK w : w = CHOOSE climb : climb = [i \in Nat |-> IF i = 0 THEN n ELSE AVL!Higher(climb[i - 1], a)]
  OBVIOUS
<1>4. x = IF c # Nil THEN AVL!Farthest(c, o) ELSE node[w[N]].parent
  <2>1. AVL!Cardinality(AVLAddr) = Cardinality(AVLAddr)
    BY DEF AVL!Cardinality, Cardinality
  <2>2. AVL!Walk(n, a)
          = IF node[n].children[a] # Nil THEN AVL!Farthest(node[n].children[a], 1 - a)
            ELSE node[(CHOOSE climb : climb = [i \in Nat |-> IF i = 0 THEN n ELSE AVL!Higher(climb[i - 1], a)])
                        [AVL!Cardinality(AVLAddr)]].parent
    BY DEF AVL!Walk
  <2>. QED  BY <1>1, <1>2, <1>3, <2>1, <2>2
<1>5. CASE c # Nil
  <2>1. PICK y : y = AVL!Farthest(c, o)
    OBVIOUS
  <2>2. c \in U
    BY <1>2, <1>5
  <2>3. y \in U /\ y \in D[c] /\ \A m \in D[c] : m # y => Beside(o, K[y], K[m])
    BY <1>2, <2>1, <2>2, FarthestIs
  <2>4. Nearest(U, K, a, K[n], y)
    BY <1>1, <2>3, InnerEnds
  <2>. QED  BY <1>4, <1>5, <2>1, <2>4
<1>6. CASE c = Nil
  <2>1. \A m \in AVLAddr : AVL!Higher(m, a) = Climb(C, P, m, a) /\ AVL!Higher(m, a) \in AVLAddr
    <3>1. ASSUME NEW m \in AVLAddr
          PROVE  AVL!Higher(m, a) = Climb(C, P, m, a) /\ AVL!Higher(m, a) \in AVLAddr
      <4>1. PICK p : p = P[m]
        OBVIOUS
      <4>2. node[m].parent = p /\ (p # Nil => p \in AVLAddr /\ node[p].children = C[p])
        BY <1>2, <4>1 DEF Nodes
      <4>3. AVL!Higher(m, a) = IF p # Nil /\ C[p][a] = m THEN p ELSE m
        BY <4>2 DEF AVL!Higher
      <4>. QED  BY <4>1, <4>2, <4>3 DEF Climb
    <3>. QED  BY <3>1
  <2>2. w = [i \in Nat |-> IF i = 0 THEN n ELSE AVL!Higher(w[i - 1], a)]
    <3>1. PICK R, F : R = AVLAddr /\ F = [m \in R |-> AVL!Higher(m, a)]
      OBVIOUS
    <3>2. F \in [R -> R] /\ n \in R
      BY <1>2, <2>1, <3>1
    <3>3. PICK f \in [Nat -> R] : \A i \in Nat : f[i] = IF i = 0 THEN n ELSE F[f[i - 1]]
      BY ONLY <3>2, Loop
    <3>4. \A i \in Nat : f[i] = IF i = 0 THEN n ELSE AVL!Higher(f[i - 1], a)
      <4>1. \A i \in Nat : i # 0 => i - 1 \in Nat
        OBVIOUS
      <4>. QED  BY <3>1, <3>3, <4>1
    <3>5. f = [i \in Nat |-> f[i]]
      BY <3>3
    <3>6. f = [i \in Nat |-> IF i = 0 THEN n ELSE AVL!Higher(f[i - 1], a)]
      BY <3>4, <3>5
    <3>7. \E climb : climb = [i \in Nat |-> IF i = 0 THEN n ELSE AVL!Higher(climb[i - 1], a)]
      BY <3>6
    <3>. QED  BY <1>3, <3>7, Zenon
  <2>3. w[0] = n /\ \A i \in Nat : w[i + 1] = AVL!Higher(w[i], a)
    <3>1. w[0] = n
      BY <2>2
    <3>2. ASSUME NEW i \in Nat PROVE w[i + 1] = AVL!Higher(w[i], a)
      <4>1. i + 1 \in Nat /\ i + 1 # 0 /\ (i + 1) - 1 = i
        OBVIOUS
      <4>2. w[i + 1] = AVL!Higher(w[(i + 1) - 1], a)
        BY <2>2, <4>1
      <4>. QED  BY <4>1, <4>2
    <3>. QED  BY <3>1, <3>2
  <2> DEFINE Good(i) ==
        /\ Climbing(U, K, D, n, a, w[i])
        /\ Climb(C, P, w[i], a) = w[i] \/ Cardinality(D[w[i]]) >= i + 1
  <2>4. Good(0)
    <3>1. D[n] = {n} \cup D[C[n][o]] /\ \A m \in D[C[n][o]] : Beside(o, K[m], K[n])
      <4>1. D[n] = {n} \cup D[c] \cup D[C[n][o]] /\ \A m \in D[C[n][o]] : Beside(o, K[m], K[n])
        BY <1>1, BesideBelow
      <4>. QED  BY <1>6, <4>1 DEF Tree, Typed
    <3>2. Cardinality(D[n]) > 0 /\ Cardinality(D[n]) \in Nat
      BY <1>2, FewerBelow
    <3>3. Cardinality(D[n]) >= 0 + 1
      BY <3>2
    <3>. QED  BY <1>1, <2>3, <3>1, <3>3 DEF Climbing
  <2>5. ASSUME NEW i \in Nat, Good(i) PROVE Good(i + 1)
    <3>1. PICK e, p : e = w[i] /\ p = Climb(C, P, e, a)
      OBVIOUS
    <3>2. Climbing(U, K, D, n, a, e) /\ e \in U /\ (p = e \/ Cardinality(D[e]) >= i + 1)
      BY <2>5, <3>1 DEF Climbing
    <3>3. w[i + 1] = p
      BY <1>2, <2>1, <2>3, <3>1, <3>2
    <3>4. CASE p = e
      BY <2>5, <3>1, <3>3, <3>4
    <3>5. CASE p # e
      <4>1. Climbing(U, K, D, n, a, p) /\ Cardinality(D[e]) < Cardinality(D[p])
        BY <3>1, <3>2, <3>5, ClimbUp
      <4>2. p \in U
        BY <4>1 DEF Climbing
      <4>3. Cardinality(D[e]) \in Nat /\ Cardinality(D[p]) \in Nat
        BY <1>2, <3>2, <4>2, FewerBelow
      <4>4. Cardinality(D[p]) >= (i + 1) + 1
        BY <3>2, <3>5, <4>1, <4>3
      <4>. QED  BY <3>3, <4>1, <4>4
    <3>. QED  BY <3>4, <3>5
  <2>6. Good(N)
    <3>1. PICK T : T = {i \in Nat : Good(i)}
      OBVIOUS
    <3>2. 0 \in T /\ \A i \in Nat : i \in T => i + 1 \in T
      BY <2>4, <2>5, <3>1
    <3>3. Nat \subseteq T
      BY <3>2, Induction
    <3>. QED  BY <1>2, <3>1, <3>3
  <2>7. PICK e : e = w[N]
    OBVIOUS
  <2>8. Climbing(U, K, D, n, a, e) /\ e \in U /\ (Climb(C, P, e, a) = e \/ Cardinality(D[e]) >= N + 1)
    BY <2>6, <2>7 DEF Climbing
  <2>9. Climb(C, P, e, a) = e
    <3>1. Cardinality(D[e]) <= N /\ Cardinality(D[e]) \in Nat
      BY <1>1, <1>2, <2>8, FewerBelow
    <3>. QED  BY <1>2, <2>8, <3>1
  <2>10. x = P[e]
    BY <1>2, <1>4, <1>6, <2>7, <2>8
  <2>. QED  BY <2>8, <2>9, <2>10, ClimbEnds
<1>. QED  BY <1>5, <1>6

\* What is asked in the order of the keys, between two calls and within one.
LEMMA OrderHeld ==
  ASSUME NEW U, NEW D, NEW H, Held(U, D, H)
  PROVE  AVLInOrder
<1>1. PICK C, P, K : C = Kids(node) /\ P = Parents(node) /\ K = Names(node)
  OBVIOUS
<1>2. /\ node \in [AVLAddr -> Record] /\ Tree(U, root, C, P, D) /\ Ordered(U, C, K, D)
  BY <1>1 DEF Held, Sound
<1>3. /\ \A n \in U : K[n] \in Int /\ KeyOf(n) = K[n] /\ node[n].key = K[n]
      /\ \A k \in AMap!Keys : k \in Int /\ \E n \in U : K[n] = k
  BY <1>1, KeysHeld
<1>4. ASSUME NEW k \in AVLKeys PROVE KeyOf(AVL!Floor(k)) = AMap!Floor(k)
  <2>1. PICK f : f = AVL!Floor(k)
    OBVIOUS
  <2>2. k \in Int
    BY AVLAssumption
  <2>3. Greatest(U, K, k, f)
    BY <1>1, <1>2, <2>1, <2>2, FloorIs
  <2>. QED  BY <1>1, <2>1, <2>2, <2>3, FloorHeld
<1>5. ASSUME NEW n \in AVL!InUse
      PROVE  /\ KeyOf(AVL!Walk(n, 1)) = AMap!After(node[n].key)
             /\ KeyOf(AVL!Walk(n, 0)) = AMap!Before(node[n].key)
  <2>1. n \in U
    BY <1>5, InUseIs
  <2>2. PICK k, x, y, up, down : /\ k = K[n] /\ x = AVL!Walk(n, 1) /\ y = AVL!Walk(n, 0)
                                 /\ up = 1 /\ down = 0
    OBVIOUS
  <2>3. k \in Int /\ node[n].key = k /\ up \in 0 .. 1 /\ down \in 0 .. 1
    BY <1>3, <2>1, <2>2
  <2>4. Nearest(U, K, up, k, x)
    BY <1>1, <1>2, <2>1, <2>2, <2>3, WalkIs
  <2>5. Nearest(U, K, down, k, y)
    BY <1>1, <1>2, <2>1, <2>2, <2>3, WalkIs
  <2>6. KeyOf(x) = AMap!After(k)
    BY <1>1, <2>2, <2>3, <2>4, AfterHeld
  <2>7. KeyOf(y) = AMap!Before(k)
    BY <1>1, <2>2, <2>3, <2>5, BeforeHeld
  <2>. QED  BY <2>2, <2>3, <2>6, <2>7
<1>6. ASSUME NEW k \in AMap!Keys
      PROVE  KeyOf(AVL!Bottom(0)) <= k /\ KeyOf(AVL!Bottom(1)) >= k
  <2>1. PICK n \in U : K[n] = k
    BY <1>3
  <2>2. root \in U /\ D[root] = U /\ root # Nil
    BY <1>2, <2>1, NilApart DEF Tree, Typed
  <2>3. PICK x, y, up, down : /\ x = AVL!Farthest(root, down) /\ y = AVL!Farthest(root, up)
                              /\ up = 1 /\ down = 0
    OBVIOUS
  <2>4. up \in 0 .. 1 /\ down \in 0 .. 1 /\ AVL!Bottom(0) = x /\ AVL!Bottom(1) = y
    BY <2>2, <2>3 DEF AVL!Bottom
  <2>5. x \in U /\ \A m \in U : m # x => Beside(down, K[x], K[m])
    BY <1>1, <1>2, <2>2, <2>3, <2>4, FarthestIs
  <2>6. y \in U /\ \A m \in U : m # y => Beside(up, K[y], K[m])
    BY <1>1, <1>2, <2>2, <2>3, <2>4, FarthestIs
  <2>7. K[x] \in Int /\ K[y] \in Int /\ K[n] \in Int /\ KeyOf(x) = K[x] /\ KeyOf(y) = K[y]
    BY <1>3, <2>5, <2>6
  <2>8. K[x] <= K[n] /\ K[y] >= K[n]
    BY <2>3, <2>5, <2>6, <2>7 DEF Beside
  <2>. QED  BY <2>1, <2>4, <2>7, <2>8
<1>. QED  BY <1>4, <1>5, <1>6 DEF AVLInOrder

\* At every moment Get and Size answer as the map does, and Floor, Left, Right, Next and
\* Prev in the order of its keys.
THEOREM AVLAnswersAsTheMap == AVLSpec => []AVLIsTheMap
<1>1. AInv => AVLIsTheMap
  <2>1. SUFFICES ASSUME NEW U, NEW D, NEW H, Held(U, D, H) PROVE AVLIsTheMap
    BY DEF AInv
  <2>2. \A k \in AVLKeys : AVL!Get(k) = map[k]
    BY <2>1, GetHeld
  <2>3. size = Cardinality(AMap!Keys) /\ AVLInOrder
    BY <2>1, SizeHeld, OrderHeld
  <2>. QED  BY <2>2, <2>3 DEF AVLIsTheMap
<1>. QED  BY <1>1, AVLIsATree, PTL

=============================================================================
