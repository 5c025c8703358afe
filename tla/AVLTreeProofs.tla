------------------------------ MODULE AVLTreeProofs ------------------------------
(***************************************************************************)
(* The AVL tree of AVLMap, for any keys and addresses.  The sets of nodes  *)
(* below each node, and the heights of the nodes, are given to the proof   *)
(* by an invariant that says they exist: then what a tree is can be said   *)
(* of each node and its children, without recursion.                       *)
(***************************************************************************)
EXTENDS AVLMap, FiniteSetTheorems, WellFoundedInduction, SequenceTheorems, TLAPS

-----------------------------------------------------------------------------
(* Recursion and induction over the natural numbers.                        *)

\* A set of natural numbers has a least one.
LEMMA LeastNat ==
  ASSUME NEW T, T \subseteq Nat, T # {}
  PROVE  \E x \in T : \A y \in T : x <= y
<1>1. PICK R : R = OpToRel(<, Nat)
  OBVIOUS
<1>2. \A x, y \in Nat : <<y, x>> \in R <=> y < x
  BY <1>1 DEF OpToRel
<1>3. IsWellFoundedOn(R, Nat)
  BY <1>1, NatLessThanWellFounded
<1>4. PICK x \in T : \A y \in T : ~(<<y, x>> \in R)
  BY <1>3, WFMin
<1>5. ASSUME NEW y \in T PROVE x <= y
  <2>1. x \in Nat /\ y \in Nat
    OBVIOUS
  <2>2. ~(y < x)
    BY <1>2, <1>4, <2>1
  <2>. QED  BY <2>1, <2>2
<1>. QED  BY <1>4, <1>5

\* A set that has 0, and with each number the next, has all.
LEMMA Induction ==
  ASSUME NEW T, 0 \in T, \A n \in Nat : n \in T => n + 1 \in T
  PROVE  Nat \subseteq T
<1>1. SUFFICES ASSUME Nat \ T # {} PROVE FALSE
  OBVIOUS
<1>2. PICK x \in Nat \ T : \A y \in Nat \ T : x <= y
  BY <1>1, LeastNat
<1>3. x # 0 /\ x - 1 \in Nat /\ ~(x <= x - 1) /\ (x - 1) + 1 = x
  BY <1>2
<1>4. x - 1 \in T
  BY <1>2, <1>3
<1>. QED  BY <1>2, <1>3, <1>4

\* A function of the numbers that is given by its first value and its step.
LEMMA Recursion ==
  ASSUME NEW R, NEW b \in R, NEW F \in [R -> R]
  PROVE  \E f \in [Nat -> R] : f[0] = b /\ \A n \in Nat : f[n + 1] = F[f[n]]
<1> DEFINE Upto(n, g) == g[0] = b /\ \A i \in 0 .. n - 1 : g[i + 1] = F[g[i]]
<1>1. \A n \in Nat : \E g \in [0 .. n -> R] : Upto(n, g)
  <2> DEFINE T == {n \in Nat : \E g \in [0 .. n -> R] : Upto(n, g)}
  <2>1. 0 \in T
    <3>1. [i \in 0 .. 0 |-> b] \in [0 .. 0 -> R] /\ Upto(0, [i \in 0 .. 0 |-> b])
      OBVIOUS
    <3>. QED  BY <3>1
  <2>2. ASSUME NEW n \in Nat, n \in T PROVE n + 1 \in T
    <3>1. PICK g \in [0 .. n -> R] : Upto(n, g)
      BY <2>2
    <3>2. PICK h : h = [i \in 0 .. n + 1 |-> IF i = n + 1 THEN F[g[n]] ELSE g[i]]
      OBVIOUS
    <3>3. h \in [0 .. n + 1 -> R]
      <4>1. g[n] \in R /\ F[g[n]] \in R
        OBVIOUS
      <4>2. \A i \in 0 .. n + 1 : i # n + 1 => i \in 0 .. n
        OBVIOUS
      <4>. QED  BY <3>2, <4>1, <4>2
    <3>4. h[0] = b
      BY <3>1, <3>2
    <3>5. \A i \in 0 .. (n + 1) - 1 : h[i + 1] = F[h[i]]
      <4>. TAKE i \in 0 .. (n + 1) - 1
      <4>1. i \in 0 .. n + 1 /\ i + 1 \in 0 .. n + 1 /\ i # n + 1 /\ (i + 1 = n + 1 <=> i = n)
        OBVIOUS
      <4>2. h[i] = g[i]
        BY <3>2, <4>1
      <4>3. CASE i = n
        BY <3>2, <4>1, <4>2, <4>3
      <4>4. CASE i # n
        <5>1. i \in 0 .. n - 1
          BY <4>1, <4>4
        <5>2. h[i + 1] = g[i + 1]
          BY <3>2, <4>1, <4>4
        <5>. QED  BY <3>1, <4>2, <5>1, <5>2
      <4>. QED  BY <4>3, <4>4
    <3>6. Upto(n + 1, h)
      BY <3>4, <3>5
    <3>. QED  BY <3>3, <3>6
  <2>. HIDE DEF T
  <2>3. Nat \subseteq T
    BY <2>1, <2>2, Induction
  <2>. QED  BY <2>3 DEF T
<1>2. \A n \in Nat, m \in Nat : \A g \in [0 .. n -> R], h \in [0 .. m -> R] :
        Upto(n, g) /\ Upto(m, h) /\ n <= m => g[n] = h[n]
  <2>. SUFFICES ASSUME NEW n \in Nat, NEW m \in Nat, NEW g \in [0 .. n -> R], NEW h \in [0 .. m -> R],
                       Upto(n, g), Upto(m, h), n <= m
                PROVE  g[n] = h[n]
    OBVIOUS
  <2> DEFINE T == {i \in Nat : i <= n => g[i] = h[i]}
  <2>1. 0 \in T
    OBVIOUS
  <2>2. ASSUME NEW i \in Nat, i \in T PROVE i + 1 \in T
    <3>1. CASE i + 1 <= n
      <4>1. i \in 0 .. n - 1 /\ i \in 0 .. m - 1 /\ i <= n
        BY <3>1
      <4>. QED  BY <2>2, <4>1
    <3>. QED  BY <3>1
  <2>. HIDE DEF T
  <2>3. n \in T
    BY <2>1, <2>2, Induction
  <2>. QED  BY <2>3 DEF T
<1>. HIDE DEF Upto
<1>3. PICK G : G = [n \in Nat |-> CHOOSE g \in [0 .. n -> R] : Upto(n, g)]
  OBVIOUS
<1>4. \A n \in Nat : G[n] \in [0 .. n -> R] /\ Upto(n, G[n])
  BY <1>1, <1>3
<1>5. PICK f : f = [n \in Nat |-> G[n][n]]
  OBVIOUS
<1>6. f \in [Nat -> R]
  <2>1. \A n \in Nat : n \in 0 .. n
    OBVIOUS
  <2>2. \A n \in Nat : G[n][n] \in R
    BY <1>4, <2>1
  <2>. QED  BY <1>5, <2>2
<1>7. f[0] = b
  BY <1>4, <1>5 DEF Upto
<1>8. ASSUME NEW n \in Nat PROVE f[n + 1] = F[f[n]]
  <2>1. n + 1 \in Nat /\ n <= n + 1 /\ n \in 0 .. (n + 1) - 1
    OBVIOUS
  <2>2. G[n + 1][n + 1] = F[G[n + 1][n]]
    BY <1>4, <2>1 DEF Upto
  <2>3. G[n][n] = G[n + 1][n]
    BY <1>2, <1>4, <2>1
  <2>. QED  BY <1>5, <2>1, <2>2, <2>3
<1>. QED  BY <1>6, <1>7, <1>8

\* A loop in the form that the model's recursive functions have.
LEMMA Loop ==
  ASSUME NEW R, NEW b \in R, NEW F \in [R -> R]
  PROVE  \E f \in [Nat -> R] : \A n \in Nat : f[n] = IF n = 0 THEN b ELSE F[f[n - 1]]
<1>1. PICK f \in [Nat -> R] : f[0] = b /\ \A n \in Nat : f[n + 1] = F[f[n]]
  BY Recursion
<1>2. \A n \in Nat : n # 0 => n - 1 \in Nat /\ (n - 1) + 1 = n
  OBVIOUS
<1>3. \A n \in Nat : n # 0 => f[n] = F[f[n - 1]]
  BY <1>1, <1>2
<1>. QED  BY <1>1, <1>3

-----------------------------------------------------------------------------
(* The tree as functions: U are the nodes in it, rt the root, C[n][a] the   *)
(* children of n, P[n] its parent and D[n] the nodes from n downwards.      *)

Nodes == AVLAddr \cup {Nil}

Typed(U, rt, C, P, D) ==
  /\ U \subseteq AVLAddr /\ rt \in U \cup {Nil}
  /\ C \in [AVLAddr -> [0 .. 1 -> Nodes]]
  /\ P \in [AVLAddr -> Nodes]
  /\ D \in [Nodes -> SUBSET U]
  /\ D[Nil] = {} /\ D[rt] = U

\* Each node is below itself, and its children's nodes are apart.
Parted(U, C, D) ==
  \A n \in U :
    /\ n \in D[n] /\ C[n][0] \in U \cup {Nil} /\ C[n][1] \in U \cup {Nil}
    /\ D[n] = {n} \cup D[C[n][0]] \cup D[C[n][1]]
    /\ n \notin D[C[n][0]] /\ n \notin D[C[n][1]]
    /\ D[C[n][0]] \cap D[C[n][1]] = {}

\* Parents and children agree.
Parented(U, rt, C, P) ==
  /\ rt # Nil => P[rt] = Nil
  /\ \A n \in U : \A a \in 0 .. 1 : C[n][a] # Nil => P[C[n][a]] = n
  /\ \A n \in U : n # rt => P[n] \in U /\ (C[P[n]][0] = n \/ C[P[n]][1] = n)

\* What is below a node has what is below it there too, and all its parents
\* but that of the node.
Nested(U, P, D) ==
  \A n \in U : \A m \in D[n] : D[m] \subseteq D[n] /\ (m # n => P[m] \in D[n])

Tree(U, rt, C, P, D) ==
  Typed(U, rt, C, P, D) /\ Parted(U, C, D) /\ Parented(U, rt, C, P) /\ Nested(U, P, D)

\* A place of the tree: the pointer to the root if q is Nil, or the child of q on
\* the side a.  What is there, and the root with x there.
There(rt, C, q, a) == IF q = Nil THEN rt ELSE C[q][a]
RootWith(rt, q, x) == IF q = Nil THEN x ELSE rt

\* Nil is no address, no key and no balance.
LEMMA NilApart == Nil \notin AVLAddr /\ Nil \notin AVLKeys /\ Nil # 0 /\ Nil \in Nodes
BY AVLAssumption DEF Nodes

\* A child has one parent, and the root none.
LEMMA OneParent ==
  ASSUME NEW U, NEW rt, NEW C, NEW P, NEW D, Tree(U, rt, C, P, D)
  PROVE  /\ \A m, n \in U : \A a, d \in 0 .. 1 :
              C[m][a] = C[n][d] /\ C[m][a] # Nil => m = n /\ a = d
         /\ \A n \in U : \A a \in 0 .. 1 :
              C[n][a] # Nil => C[n][a] \in U /\ C[n][a] # n /\ C[n][a] # rt
<1>1. ASSUME NEW m \in U, NEW n \in U, NEW a \in 0 .. 1, NEW d \in 0 .. 1,
             C[m][a] = C[n][d], C[m][a] # Nil
      PROVE  m = n /\ a = d
  <2>1. m = n
    BY <1>1 DEF Tree, Parented
  <2>2. C[m][a] \in U
    BY <1>1 DEF Tree, Parted
  <2>3. C[m][a] \in D[C[m][a]]
    BY <2>2 DEF Tree, Parted
  <2>4. a # d => FALSE
    <3>1. a # d => (a = 0 /\ d = 1) \/ (a = 1 /\ d = 0)
      OBVIOUS
    <3>2. D[C[m][0]] \cap D[C[m][1]] = {}
      BY DEF Tree, Parted
    <3>. QED  BY <1>1, <2>1, <2>3, <3>1, <3>2
  <2>. QED  BY <2>1, <2>4
<1>2. ASSUME NEW n \in U, NEW a \in 0 .. 1, C[n][a] # Nil
      PROVE  C[n][a] \in U /\ C[n][a] # n /\ C[n][a] # rt
  <2>1. C[n][a] \in U
    BY <1>2 DEF Tree, Parted
  <2>2. C[n][a] \in D[C[n][a]] /\ n \notin D[C[n][a]]
    BY <1>2, <2>1 DEF Tree, Parted
  <2>3. P[C[n][a]] = n
    BY <1>2 DEF Tree, Parented
  <2>4. n # Nil
    BY NilApart DEF Tree, Typed
  <2>5. rt # Nil => P[rt] = Nil
    BY DEF Tree, Parented
  <2>. QED  BY <1>2, <2>1, <2>2, <2>3, <2>4, <2>5
<1>. QED  BY <1>1, <1>2

\* A node and what is below it, with the children in either order.
Part(n, U, C, D, a) ==
  /\ n \in D[n] /\ C[n][a] \in U \cup {Nil} /\ C[n][1 - a] \in U \cup {Nil}
  /\ D[n] = {n} \cup D[C[n][a]] \cup D[C[n][1 - a]]
  /\ n \notin D[C[n][a]] /\ n \notin D[C[n][1 - a]]
  /\ D[C[n][a]] \cap D[C[n][1 - a]] = {}

\* What is said of the children left and right can be said of them in either order.
LEMMA PartSides ==
  ASSUME NEW U, NEW C, NEW D, NEW a \in 0 .. 1
  PROVE  /\ Parted(U, C, D) <=> \A n \in U : Part(n, U, C, D, a)
<1>1. a = 0 \/ a = 1
  OBVIOUS
<1>2. CASE a = 0
  BY <1>2 DEF Parted, Part
<1>3. CASE a = 1
  <2>1. ASSUME NEW n PROVE Part(n, U, C, D, 1) <=> Part(n, U, C, D, 0)
    BY DEF Part
  <2>2. Parted(U, C, D) <=> \A n \in U : Part(n, U, C, D, 0)
    BY DEF Parted, Part
  <2>. QED  BY <1>3, <2>1, <2>2
<1>. QED  BY <1>1, <1>2, <1>3

\* The child r of s on the side a takes the place of s, and s that of the inner child
\* of r.
Turned(rt, C, P, s, a, q, sd, C2, P2) ==
  LET r == C[s][a]
      i == C[r][1 - a]
  IN /\ C2 \in [AVLAddr -> [0 .. 1 -> Nodes]] /\ P2 \in [AVLAddr -> Nodes]
     /\ \A n \in AVLAddr : \A d \in 0 .. 1 :
          C2[n][d] = IF n = s /\ d = a THEN i
                     ELSE IF n = r /\ d = 1 - a THEN s
                     ELSE IF n = q /\ d = sd THEN r ELSE C[n][d]
     /\ \A n \in AVLAddr :
          P2[n] = IF n = s THEN r ELSE IF n = r THEN q ELSE IF n = i THEN s ELSE P[n]

TurnedD(C, D, s, a) ==
  [n \in Nodes |-> IF n = C[s][a] THEN D[s]
                   ELSE IF n = s THEN (D[s] \ D[C[s][a]]) \cup D[C[C[s][a]][1 - a]]
                   ELSE D[n]]

TurnedRoles(U, C, D, s, a, C2, D2) ==
  LET r == C[s][a]
      i == C[r][1 - a]
      o == C[r][a]
      y == C[s][1 - a]
  IN /\ r \in U /\ r # s /\ {i, o, y} \subseteq U \cup {Nil} /\ {s, r} \cap {i, o, y} = {}
     /\ D[s] = {s} \cup D[r] \cup D[y] /\ D[r] = {r} \cup D[i] \cup D[o]
     /\ s \notin D[r] \cup D[y] /\ D[r] \cap D[y] = {} /\ D[i] \cap D[o] = {}
     /\ D2[s] = {s} \cup D[y] \cup D[i] /\ D2[r] = D[s]
     /\ D2[i] = D[i] /\ D2[o] = D[o] /\ D2[y] = D[y]
     /\ C2[s][a] = i /\ C2[s][1 - a] = y /\ C2[r][a] = o /\ C2[r][1 - a] = s
     /\ \A n \in U : n # s /\ n # r =>
          D2[n] = D[n] /\ \A d \in 0 .. 1 : D2[C2[n][d]] = D[C[n][d]]

\* A rotation leaves a tree, and what is below the nodes is what their roles in it say.
LEMMA TurnedTree ==
  ASSUME NEW U, NEW rt, NEW C, NEW P, NEW D, Tree(U, rt, C, P, D),
         NEW q \in U \cup {Nil}, NEW sd \in 0 .. 1, NEW s \in U, NEW a \in 0 .. 1,
         There(rt, C, q, sd) = s, C[s][a] # Nil,
         NEW C2, NEW P2, Turned(rt, C, P, s, a, q, sd, C2, P2)
  PROVE  /\ Tree(U, RootWith(rt, q, C[s][a]), C2, P2, TurnedD(C, D, s, a))
         /\ TurnedRoles(U, C, D, s, a, C2, TurnedD(C, D, s, a))
<1> DEFINE r == C[s][a]
           o == C[r][a]
           i == C[r][1 - a]
           y == C[s][1 - a]
<1>0. PICK D2 : D2 = TurnedD(C, D, s, a)
  OBVIOUS
<1>1. 1 - a \in 0 .. 1 /\ 1 - a # a /\ \A d \in 0 .. 1 : d = a \/ d = 1 - a
  OBVIOUS
<1>2. /\ U \subseteq AVLAddr /\ Nil \notin U /\ \A n \in U : n \in AVLAddr /\ n \in Nodes
      /\ Nil \in Nodes /\ D[Nil] = {}
  BY NilApart DEF Tree, Typed, Nodes
<1>3. /\ r \in U /\ r # s /\ r # rt
      /\ i \in U \cup {Nil} /\ o \in U \cup {Nil} /\ y \in U \cup {Nil}
  BY <1>1, <1>2, OneParent DEF Tree, Parted
<1>4. Part(s, U, C, D, a) /\ Part(r, U, C, D, a)
  BY <1>3, PartSides DEF Tree
<1>5. /\ D[s] = {s} \cup D[r] \cup D[y] /\ s \notin D[r] /\ s \notin D[y] /\ D[r] \cap D[y] = {}
      /\ D[r] = {r} \cup D[i] \cup D[o] /\ r \notin D[i] /\ r \notin D[o] /\ D[i] \cap D[o] = {}
      /\ s \in D[s] /\ r \in D[r]
  BY <1>4 DEF Part
<1>6. /\ i # Nil => i \in U /\ i # r /\ i # s /\ i # rt /\ P[i] = r
      /\ o # Nil => o \in U /\ o # r /\ o # s /\ o # i /\ P[o] = r
      /\ y # Nil => y \in U /\ y # s /\ y # r /\ y # i /\ P[y] = s
      /\ P[r] = s
  <2>1. \A n \in U : n \in D[n]
    BY DEF Tree, Parted
  <2>2. i # Nil => i \in U /\ i \in D[i]
    BY <1>3, <2>1
  <2>3. o # Nil => o \in U /\ o \in D[o]
    BY <1>3, <2>1
  <2>4. y # Nil => y \in U /\ y \in D[y]
    BY <1>3, <2>1
  <2>5. P[r] = s /\ (i # Nil => P[i] = r) /\ (o # Nil => P[o] = r) /\ (y # Nil => P[y] = s)
    BY <1>1, <1>2, <1>3 DEF Tree, Parented
  <2>6. i # Nil => i # rt
    BY <1>1, <1>3, OneParent
  <2>. QED  BY <1>2, <1>3, <1>5, <2>2, <2>3, <2>4, <2>5, <2>6
<1>7. /\ q # Nil => q \in U /\ C[q][sd] = s /\ q \notin D[s] /\ P[s] = q /\ q # s /\ q # r /\ s # rt
      /\ q = Nil => rt = s /\ P[s] = Nil
  <2>1. CASE q = Nil
    BY <2>1, <1>2 DEF There, Tree, Parented
  <2>2. CASE q # Nil
    <3>1. q \in U /\ C[q][sd] = s
      BY <2>2 DEF There
    <3>2. q \notin D[s]
      <4>1. sd = 0 \/ sd = 1
        OBVIOUS
      <4>. QED  BY <3>1, <4>1 DEF Tree, Parted
    <3>3. P[s] = q /\ s # rt
      BY <1>2, <3>1, OneParent DEF Tree, Parented
    <3>. QED  BY <2>2, <1>5, <3>1, <3>2, <3>3
  <2>. QED  BY <2>1, <2>2
<1>8. P[s] = q
  BY <1>7
<1>9. /\ C2 \in [AVLAddr -> [0 .. 1 -> Nodes]] /\ P2 \in [AVLAddr -> Nodes]
      /\ \A n \in AVLAddr : \A d \in 0 .. 1 :
          C2[n][d] = IF n = s /\ d = a THEN i
                     ELSE IF n = r /\ d = 1 - a THEN s
                     ELSE IF n = q /\ d = sd THEN r ELSE C[n][d]
      /\ \A n \in AVLAddr :
          P2[n] = IF n = s THEN r ELSE IF n = r THEN q ELSE IF n = i THEN s ELSE P[n]
  BY DEF Turned
<1>10. /\ \A n \in Nodes : D2[n] = IF n = r THEN D[s] ELSE IF n = s THEN (D[s] \ D[r]) \cup D[i]
                                   ELSE D[n]
       /\ DOMAIN D2 = Nodes /\ D2 = [n \in Nodes |-> D2[n]]
  BY <1>0 DEF TurnedD
<1>11. D2[s] = {s} \cup D[y] \cup D[i] /\ D2[r] = D[s] /\ D2[Nil] = {}
  <2>1. D2[s] = (D[s] \ D[r]) \cup D[i] /\ D2[r] = D[s]
    BY <1>2, <1>3, <1>10
  <2>2. D2[Nil] = D[Nil]
    <3>1. Nil # r /\ Nil # s
      BY <1>2, <1>3
    <3>. QED  BY <1>2, <1>10, <3>1
  <2>3. D[s] \ D[r] = {s} \cup D[y]
    <3>. HIDE DEF r, y, o, i
    <3>1. \A m : m \in D[s] \ D[r] <=> m \in {s} \cup D[y]
      BY <1>5
    <3>. QED  BY <3>1
  <2>. QED  BY <1>2, <2>1, <2>2, <2>3
<1>12. \A n \in U : n # s /\ n # r => D2[n] = D[n]
  BY <1>2, <1>10
<1>13. D2[i] = D[i] /\ D2[o] = D[o] /\ D2[y] = D[y]
  BY <1>2, <1>3, <1>6, <1>10
<1> DEFINE rt2 == RootWith(rt, q, r)
<1>14. rt2 \in U \cup {Nil} /\ (q = Nil => rt2 = r) /\ (q # Nil => rt2 = rt)
  BY <1>3 DEF RootWith, Tree, Typed
<1>15. D2[rt2] = U
  <2>1. D[rt] = U
    BY DEF Tree, Typed
  <2>2. CASE q = Nil
    BY <1>7, <1>11, <1>14, <2>1, <2>2
  <2>3. CASE q # Nil
    BY <1>2, <1>3, <1>7, <1>10, <1>14, <2>1, <2>3 DEF Tree, Typed
  <2>. QED  BY <2>2, <2>3
<1>16. Typed(U, rt2, C2, P2, D2)
  <2>1. \A n \in Nodes : D[n] \subseteq U
    BY DEF Tree, Typed
  <2>2. \A n \in Nodes : D2[n] \subseteq U
    BY <1>2, <1>3, <1>10, <2>1
  <2>. QED  BY <1>2, <1>9, <1>10, <1>11, <1>14, <1>15, <2>2 DEF Typed
<1>. HIDE DEF r, o, i, y, rt2
<1>20. C2[s][a] = i /\ C2[s][1 - a] = y /\ C2[r][a] = o /\ C2[r][1 - a] = s
  BY <1>1, <1>2, <1>3, <1>7, <1>9 DEF y, o
<1>21. ASSUME NEW n \in U, n # s, n # r, NEW d \in 0 .. 1
       PROVE  C2[n][d] \in U \cup {Nil} /\ D2[C2[n][d]] = D[C[n][d]]
  <2>1. C2[n][d] = IF n = q /\ d = sd THEN r ELSE C[n][d]
    BY <1>2, <1>9, <1>21
  <2>2. CASE n = q /\ d = sd
    BY <1>2, <1>3, <1>7, <1>11, <2>1, <2>2
  <2>3. CASE ~(n = q /\ d = sd)
    <3>1. C2[n][d] = C[n][d] /\ C[n][d] \in U \cup {Nil}
      BY <2>1, <2>3 DEF Tree, Parted
    <3>2. C[n][d] # s
      <4>1. q = Nil => s = rt
        BY <1>7
      <4>2. q # Nil => C[q][sd] = s
        BY <1>7
      <4>. QED  BY <1>2, <1>7, <2>3, <4>1, <4>2, OneParent
    <3>3. C[n][d] # r
      BY <1>2, <1>21, <1>3, OneParent DEF r
    <3>. QED  BY <1>2, <1>10, <3>1, <3>2, <3>3
  <2>. QED  BY <2>2, <2>3
<1>17. Parted(U, C2, D2)
  <2>1. ASSUME NEW n \in U PROVE Part(n, U, C2, D2, a)
    <3>1. CASE n = s
      BY <1>3, <1>5, <1>6, <1>11, <1>13, <1>20, <3>1 DEF Part
    <3>2. CASE n = r
      <4>2. D2[r] = {r} \cup D2[o] \cup D2[s]
        BY <1>5, <1>11, <1>13
      <4>3. r \notin D2[o] /\ r \notin D2[s] /\ D2[o] \cap D2[s] = {}
        BY <1>3, <1>5, <1>11, <1>13
      <4>. QED  BY <1>3, <1>11, <1>20, <3>2, <4>2, <4>3 DEF Part
    <3>3. CASE n # s /\ n # r
      <4>0. Part(n, U, C, D, a) /\ D2[n] = D[n]
        BY <1>12, <3>3, PartSides DEF Tree
      <4>1. ASSUME NEW d \in 0 .. 1
            PROVE  C2[n][d] \in U \cup {Nil} /\ D2[C2[n][d]] = D[C[n][d]]
        BY <1>21, <3>3
      <4>2. D2[C2[n][a]] = D[C[n][a]] /\ D2[C2[n][1 - a]] = D[C[n][1 - a]]
        BY <1>1, <4>1
      <4>3. C2[n][a] \in U \cup {Nil} /\ C2[n][1 - a] \in U \cup {Nil}
        BY <1>1, <4>1
      <4>. QED  BY <4>0, <4>2, <4>3 DEF Part
    <3>. QED  BY <3>1, <3>2, <3>3
  <2>. QED  BY <2>1, PartSides
<1>18. Parented(U, rt2, C2, P2)
  <2>1. rt2 # Nil => P2[rt2] = Nil
    <3>1. CASE q = Nil
      BY <1>2, <1>3, <1>9, <1>14, <3>1
    <3>2. CASE q # Nil
      <4>1. rt2 = rt /\ rt # r /\ rt # s /\ rt # i
        <5>1. rt # Nil
          BY <1>2, <1>7, <3>2 DEF Tree, Typed
        <5>. QED  BY <1>2, <1>3, <1>6, <1>7, <1>14, <3>2, <5>1
      <4>2. rt2 # Nil => P2[rt] = P[rt]
        BY <1>2, <1>9, <1>14, <4>1
      <4>. QED  BY <4>1, <4>2 DEF Tree, Parented
    <3>. QED  BY <3>1, <3>2
  <2>2. ASSUME NEW n \in U, NEW d \in 0 .. 1, C2[n][d] # Nil
        PROVE  P2[C2[n][d]] = n
    <3>1. CASE n = s
      <4>1. C2[n][d] = IF d = a THEN i ELSE y
        BY <1>1, <1>2, <1>3, <1>7, <1>9, <3>1 DEF y
      <4>2. i # Nil => P2[i] = s
        BY <1>2, <1>6, <1>9
      <4>3. y # Nil => P2[y] = s
        BY <1>2, <1>6, <1>9
      <4>. QED  BY <2>2, <3>1, <4>1, <4>2, <4>3
    <3>2. CASE n = r
      <4>1. C2[n][d] = IF d = a THEN o ELSE s
        BY <1>1, <1>2, <1>3, <1>7, <1>9, <3>2 DEF o
      <4>2. P2[s] = r
        BY <1>2, <1>9
      <4>3. o # Nil => P2[o] = r
        BY <1>2, <1>6, <1>9
      <4>. QED  BY <2>2, <3>2, <4>1, <4>2, <4>3
    <3>3. CASE n # s /\ n # r /\ n = q /\ d = sd
      BY <1>2, <1>3, <1>9, <3>3
    <3>4. CASE n # s /\ n # r /\ ~(n = q /\ d = sd)
      <4>1. C2[n][d] = C[n][d]
        BY <1>2, <1>9, <3>4
      <4>2. C[n][d] \in U /\ P[C[n][d]] = n
        BY <2>2, <4>1, OneParent DEF Tree, Parented
      <4>3. C[n][d] # r /\ C[n][d] # i
        BY <1>2, <1>6, <3>4, <4>2
      <4>4. C[n][d] # s
        <5>1. q = Nil => s = rt
          BY <1>7
        <5>2. q # Nil => C[q][sd] = s
          BY <1>7
        <5>. QED  BY <1>2, <1>7, <2>2, <3>4, <4>1, <4>2, <5>1, <5>2, OneParent
      <4>. QED  BY <1>2, <1>9, <4>1, <4>2, <4>3, <4>4
    <3>. QED  BY <3>1, <3>2, <3>3, <3>4
  <2>3. ASSUME NEW n \in U, n # rt2
        PROVE  P2[n] \in U /\ \E d \in 0 .. 1 : C2[P2[n]][d] = n
    <3>1. CASE n = s
      BY <1>1, <1>2, <1>3, <1>7, <1>9, <3>1
    <3>2. CASE n = r
      <4>1. q # Nil
        BY <1>14, <2>3, <3>2
      <4>. QED  BY <1>2, <1>3, <1>7, <1>9, <3>2, <4>1
    <3>3. CASE n # s /\ n # r /\ n = i
      BY <1>1, <1>2, <1>3, <1>9, <3>3
    <3>4. CASE n # s /\ n # r /\ n # i
      <4>1. P2[n] = P[n]
        BY <1>2, <1>9, <3>4
      <4>2. n # rt
        BY <1>7, <1>14, <2>3, <3>4
      <4>3. P[n] \in U /\ (C[P[n]][0] = n \/ C[P[n]][1] = n)
        BY <4>2 DEF Tree, Parented
      <4>4. PICK d \in 0 .. 1 : C[P[n]][d] = n
        BY <4>3
      <4>5. C2[P[n]][d] = n
        <5>1. P[n] = s => d # a
          BY <3>4, <4>4 DEF r
        <5>2. P[n] = r => d # 1 - a
          BY <3>4, <4>4 DEF i
        <5>3. ~(P[n] = q /\ d = sd)
          BY <1>2, <1>7, <3>4, <4>3, <4>4
        <5>. QED  BY <1>2, <1>9, <4>3, <4>4, <5>1, <5>2, <5>3
      <4>. QED  BY <4>1, <4>3, <4>5
    <3>. QED  BY <3>1, <3>2, <3>3, <3>4
  <2>4. \A n \in U : n # rt2 => P2[n] \in U /\ (C2[P2[n]][0] = n \/ C2[P2[n]][1] = n)
    <3>1. \A d \in 0 .. 1 : d = 0 \/ d = 1
      OBVIOUS
    <3>. QED  BY <2>3, <3>1
  <2>. QED  BY <2>1, <2>2, <2>4 DEF Parented
<1>19. Nested(U, P2, D2)
  <2>0. \A n \in U : \A m \in D[n] : m \in U /\ D[m] \subseteq D[n] /\ (m # n => P[m] \in D[n])
    BY <1>2 DEF Tree, Nested, Typed
  <2>1. \A m \in U : D2[m] \subseteq D[m] \/ m = r
    BY <1>2, <1>5, <1>11, <1>12
  <2>2. \A m \in U : m # s /\ m # r /\ m # i => P2[m] = P[m]
    BY <1>2, <1>9
  <2>3. P2[s] = r /\ P2[r] = q /\ (i # Nil => P2[i] = s)
    BY <1>2, <1>3, <1>6, <1>9
  <2>4. ASSUME NEW n \in U, NEW m \in D2[n] PROVE D2[m] \subseteq D2[n] /\ (m # n => P2[m] \in D2[n])
    <3>1. CASE n = r
      <4>1. D2[n] = D[s] /\ m \in D[s] /\ m \in U
        BY <1>11, <2>0, <2>4, <3>1
      <4>2. D2[m] \subseteq D[s]
        BY <1>11, <2>0, <2>1, <4>1
      <4>3. m # r => P2[m] \in D[s]
        <5>1. m = s \/ m = i => P2[m] \in D[s]
          BY <1>5, <1>6, <2>3, <4>1, <1>2
        <5>. QED  BY <2>0, <2>2, <4>1, <5>1
      <4>. QED  BY <3>1, <4>1, <4>2, <4>3
    <3>2. CASE n = s
      <4>1. m = s \/ m \in D[y] \/ m \in D[i]
        BY <1>11, <2>4, <3>2
      <4>2. CASE m = s
        BY <3>2, <4>2
      <4>3. CASE m \in D[y]
        <5>1. y \in U
          BY <1>2, <1>3, <4>3
        <5>2. m \in U /\ D[m] \subseteq D[y] /\ (m # y => P[m] \in D[y])
          BY <2>0, <4>3, <5>1
        <5>3. m # s /\ m # r
          BY <1>5, <4>3
        <5>4. m # i
          <6>1. i # Nil => i \in D[r]
            BY <1>5, <1>6 DEF Tree, Parted
          <6>. QED  BY <1>2, <1>5, <4>3, <5>2, <6>1
        <5>5. D2[m] = D[m] /\ P2[m] = P[m]
          BY <1>12, <2>2, <5>2, <5>3, <5>4
        <5>6. m = y => P[m] = s
          BY <1>2, <1>6, <5>1
        <5>. QED  BY <1>11, <3>2, <5>2, <5>5, <5>6
      <4>4. CASE m \in D[i]
        <5>1. i \in U
          BY <1>2, <1>3, <4>4
        <5>2. m \in U /\ D[m] \subseteq D[i] /\ (m # i => P[m] \in D[i])
          BY <2>0, <4>4, <5>1
        <5>3. m # s /\ m # r
          BY <1>5, <4>4
        <5>4. D2[m] = D[m] /\ (m # i => P2[m] = P[m]) /\ (m = i => P2[m] = s)
          BY <1>2, <1>12, <2>2, <2>3, <5>1, <5>2, <5>3
        <5>. QED  BY <1>11, <3>2, <5>2, <5>4
      <4>. QED  BY <4>1, <4>2, <4>3, <4>4
    <3>3. CASE n # s /\ n # r
      <4>1. D2[n] = D[n] /\ m \in D[n] /\ m \in U /\ D[m] \subseteq D[n] /\ (m # n => P[m] \in D[n])
        BY <1>12, <2>0, <2>4, <3>3
      <4>2. r \in D[n] => s \in D[n]
        BY <1>6, <2>0, <3>3
      <4>3. i # Nil /\ i \in D[n] /\ i # n => r \in D[n]
        BY <1>6, <2>0
      <4>4. D2[m] \subseteq D[n]
        <5>1. CASE m = r
          BY <1>11, <2>0, <4>1, <4>2, <5>1
        <5>2. CASE m # r
          BY <2>1, <4>1, <5>2
        <5>. QED  BY <5>1, <5>2
      <4>5. m # n => P2[m] \in D[n]
        <5>1. CASE m = s
          BY <1>5, <2>0, <2>3, <4>1, <5>1
        <5>2. CASE m = r
          BY <1>8, <2>0, <2>3, <3>3, <4>1, <4>2, <5>2
        <5>3. CASE m = i
          BY <1>2, <2>3, <4>1, <4>2, <4>3, <5>3
        <5>4. CASE m # s /\ m # r /\ m # i
          BY <2>2, <4>1, <5>4
        <5>. QED  BY <5>1, <5>2, <5>3, <5>4
      <4>. QED  BY <4>1, <4>4, <4>5
    <3>. QED  BY <3>1, <3>2, <3>3
  <2>. QED  BY <2>4 DEF Nested
<1>22. TurnedRoles(U, C, D, s, a, C2, D2)
  <2>1. \A n \in U : n # s /\ n # r =>
          D2[n] = D[n] /\ \A d \in 0 .. 1 : D2[C2[n][d]] = D[C[n][d]]
    BY <1>12, <1>21
  <2>2. {s, r} \cap {i, o, y} = {}
    BY <1>2, <1>3, <1>6
  <2>3. r \in U /\ r # s /\ {i, o, y} \subseteq U \cup {Nil}
    BY <1>3
  <2>4. s \notin D[r] \cup D[y] /\ D[r] \cap D[y] = {} /\ D[i] \cap D[o] = {}
    BY <1>5
  <2>5. D[s] = {s} \cup D[r] \cup D[y] /\ D[r] = {r} \cup D[i] \cup D[o]
    BY <1>5
  <2>. QED  BY <1>11, <1>13, <1>20, <2>1, <2>2, <2>3, <2>4, <2>5, ZenonT(60)
               DEF TurnedRoles, r, i, o, y
<1>. QED  BY <1>0, <1>16, <1>17, <1>18, <1>19, <1>22 DEF Tree, r, rt2

-----------------------------------------------------------------------------
(* The order of the keys: K[n] is the key of n.                             *)

\* Keys are those of one node, less on the left and greater on the right, and a node
\* that is not below another is on one side of all that is.
Distinct(U, K) ==
  /\ \A n \in U : K[n] \in AVLKeys
  /\ \A m, n \in U : K[m] = K[n] => m = n
Sorted(U, C, K, D) ==
  \A n \in U :
    /\ \A m \in D[C[n][0]] : K[m] < K[n]
    /\ \A m \in D[C[n][1]] : K[n] < K[m]
Convex(U, K, D) ==
  \A n \in U : \A x \in D[n] : \A m \in U : m \notin D[n] => (K[m] < K[x] <=> K[m] < K[n])
Ordered(U, C, K, D) == Distinct(U, K) /\ Sorted(U, C, K, D) /\ Convex(U, K, D)

\* k is on the side a of l.
Beside(a, k, l) == IF a = 0 THEN k < l ELSE l < k

\* The order of the keys below a node, with the children in either order.
LEMMA SortedSides ==
  ASSUME NEW U, NEW C, NEW K, NEW D, NEW a \in 0 .. 1
  PROVE  Sorted(U, C, K, D) <=>
           \A n \in U : /\ \A m \in D[C[n][a]] : Beside(a, K[m], K[n])
                        /\ \A m \in D[C[n][1 - a]] : Beside(1 - a, K[m], K[n])
<1>1. CASE a = 0
  BY <1>1 DEF Sorted, Beside
<1>2. CASE a = 1
  BY <1>2 DEF Sorted, Beside
<1>. QED  BY <1>1, <1>2

\* Being on one side is an order, and the other side is its reverse.
LEMMA BesideIs ==
  ASSUME NEW a \in 0 .. 1, NEW k \in Int, NEW l \in Int, NEW j \in Int
  PROVE  /\ Beside(a, k, l) <=> Beside(1 - a, l, k)
         /\ Beside(a, k, l) /\ Beside(a, l, j) => Beside(a, k, j)
         /\ ~Beside(a, k, k)
         /\ k # l => Beside(a, k, l) \/ Beside(1 - a, k, l)
         /\ ~(Beside(a, k, l) /\ Beside(1 - a, k, l))
<1>1. CASE a = 0
  BY <1>1 DEF Beside
<1>2. CASE a = 1
  BY <1>2 DEF Beside
<1>. QED  BY <1>1, <1>2

\* The keys of the nodes can be compared.
LEMMA KeysAreIntegers ==
  ASSUME NEW U, NEW K, Distinct(U, K)
  PROVE  \A n \in U : K[n] \in Int
BY AVLAssumption DEF Distinct

\* A rotation keeps the keys in order.
LEMMA TurnedOrder ==
  ASSUME NEW U, NEW C, NEW K, NEW D, Ordered(U, C, K, D), NEW C2, NEW D2,
         NEW s \in U, NEW a \in 0 .. 1, TurnedRoles(U, C, D, s, a, C2, D2),
         D \in [Nodes -> SUBSET U], U \subseteq Nodes
  PROVE  Ordered(U, C2, K, D2)
<1>1. PICK r, i, o, y : r = C[s][a] /\ i = C[r][1 - a] /\ o = C[r][a] /\ y = C[s][1 - a]
  OBVIOUS
<1>2. /\ r \in U /\ r # s
      /\ D[s] = {s} \cup D[r] \cup D[y] /\ D[r] = {r} \cup D[i] \cup D[o]
      /\ D2[s] = {s} \cup D[y] \cup D[i] /\ D2[r] = D[s]
      /\ D2[i] = D[i] /\ D2[o] = D[o] /\ D2[y] = D[y]
      /\ C2[s][a] = i /\ C2[s][1 - a] = y /\ C2[r][a] = o /\ C2[r][1 - a] = s
      /\ \A n \in U : n # s /\ n # r =>
           D2[n] = D[n] /\ \A d \in 0 .. 1 : D2[C2[n][d]] = D[C[n][d]]
  BY <1>1 DEF TurnedRoles
<1>3. 1 - a \in 0 .. 1 /\ 1 - (1 - a) = a /\ (a = 0 \/ a = 1)
  OBVIOUS
<1>4. \A n \in U : K[n] \in Int
  BY KeysAreIntegers DEF Ordered
<1>5. \A n \in U : D[n] \subseteq U
  OBVIOUS
<1>6. \A n \in U : /\ \A m \in D[C[n][a]] : Beside(a, K[m], K[n])
                   /\ \A m \in D[C[n][1 - a]] : Beside(1 - a, K[m], K[n])
  BY SortedSides DEF Ordered
<1>7. /\ \A m \in D[y] : m \in U /\ Beside(1 - a, K[m], K[s])
      /\ \A m \in D[i] : m \in U /\ Beside(1 - a, K[m], K[r])
      /\ \A m \in D[o] : m \in U /\ Beside(a, K[m], K[r])
      /\ \A m \in D[r] : m \in U /\ Beside(a, K[m], K[s])
  BY <1>1, <1>2, <1>5, <1>6
<1>8. ASSUME NEW n \in U
      PROVE  /\ \A m \in D2[C2[n][a]] : Beside(a, K[m], K[n])
             /\ \A m \in D2[C2[n][1 - a]] : Beside(1 - a, K[m], K[n])
  <2>1. CASE n = s
    <3>1. \A m \in D[i] : Beside(a, K[m], K[s])
      BY <1>2, <1>7
    <3>. QED  BY <1>2, <1>7, <2>1, <3>1
  <2>2. CASE n = r
    <3>0. r \in D[r]
      BY <1>2
    <3>1. Beside(1 - a, K[s], K[r])
      BY <1>2, <1>4, <1>7, <3>0, BesideIs
    <3>2. \A m \in D[y] : Beside(1 - a, K[m], K[r])
      BY <1>2, <1>3, <1>4, <1>7, <3>1, BesideIs
    <3>. QED  BY <1>2, <1>7, <2>2, <3>1, <3>2
  <2>3. CASE n # s /\ n # r
    BY <1>2, <1>3, <1>6, <2>3
  <2>. QED  BY <2>1, <2>2, <2>3
<1>9. Convex(U, K, D2)
  <2>0. \A n \in U : \A x \in D[n] : \A m \in U : m \notin D[n] => (K[m] < K[x] <=> K[m] < K[n])
    BY DEF Ordered, Convex
  <2>1. ASSUME NEW n \in U, NEW x \in D2[n], NEW m \in U, m \notin D2[n]
        PROVE  K[m] < K[x] <=> K[m] < K[n]
    <3>1. CASE n = s
      <4>1. x = s \/ x \in D[y] \/ x \in D[i]
        BY <1>2, <2>1, <3>1
      <4>2. m # s /\ m \notin D[y] /\ m \notin D[i]
        BY <1>2, <2>1, <3>1
      <4>3. CASE m \in D[s]
        <5>1. m = r \/ m \in D[o]
          BY <1>2, <4>2, <4>3
        <5>2. Beside(1 - a, K[s], K[m])
          BY <1>2, <1>3, <1>4, <1>7, <5>1, BesideIs
        <5>3. x \in D[y] => Beside(1 - a, K[x], K[m])
          BY <1>2, <1>3, <1>4, <1>7, <5>1, <5>2, BesideIs
        <5>4. x \in D[i] => Beside(1 - a, K[x], K[m])
          <6>1. m = r => (x \in D[i] => Beside(1 - a, K[x], K[m]))
            BY <1>7
          <6>2. m \in D[o] => Beside(1 - a, K[r], K[m])
            BY <1>2, <1>3, <1>4, <1>7, BesideIs
          <6>. QED  BY <1>2, <1>3, <1>4, <1>7, <5>1, <6>1, <6>2, BesideIs
        <5>5. Beside(1 - a, K[x], K[m]) /\ Beside(1 - a, K[n], K[m])
          BY <3>1, <4>1, <5>2, <5>3, <5>4
        <5>6. K[x] \in Int /\ K[m] \in Int /\ K[n] \in Int
          BY <1>4, <1>7, <3>1, <4>1
        <5>. QED  BY <1>3, <5>5, <5>6 DEF Beside
      <4>4. CASE m \notin D[s]
        <5>1. x \in D[s]
          BY <1>2, <4>1
        <5>. QED  BY <2>0, <3>1, <4>4, <5>1
      <4>. QED  BY <4>3, <4>4
    <3>2. CASE n = r
      <4>1. x \in D[s] /\ m \notin D[s] /\ r \in D[s]
        BY <1>2, <2>1, <3>2
      <4>2. (K[m] < K[x] <=> K[m] < K[s]) /\ (K[m] < K[r] <=> K[m] < K[s])
        BY <2>0, <4>1
      <4>. QED  BY <3>2, <4>2
    <3>3. CASE n # s /\ n # r
      BY <1>2, <2>0, <2>1, <3>3
    <3>. QED  BY <3>1, <3>2, <3>3
  <2>. QED  BY <2>1 DEF Convex
<1>10. Sorted(U, C2, K, D2)
  BY <1>8, SortedSides
<1>. QED  BY <1>9, <1>10 DEF Ordered

-----------------------------------------------------------------------------
(* A node that has no child on the side a gives its place to the other.     *)

Spliced(rt, C, P, x, a, q, sd, C2, P2) ==
  LET y == C[x][1 - a]
  IN /\ C2 \in [AVLAddr -> [0 .. 1 -> Nodes]] /\ P2 \in [AVLAddr -> Nodes]
     /\ \A n \in AVLAddr : n # x => \A d \in 0 .. 1 :
          C2[n][d] = IF n = q /\ d = sd THEN y ELSE C[n][d]
     /\ \A n \in AVLAddr : n # x => P2[n] = IF n = y THEN q ELSE P[n]

SplicedD(D, x) == [n \in Nodes |-> D[n] \ {x}]
Without(U, x) == U \ {x}
SplicedBelow(U, C, D, x, C2) ==
  \A n \in U \ {x} : \A d \in 0 .. 1 : SplicedD(D, x)[C2[n][d]] = D[C[n][d]] \ {x}

\* What is left when a node gives its place to its child is a tree.
LEMMA SplicedTree ==
  ASSUME NEW U, NEW rt, NEW C, NEW P, NEW D, Tree(U, rt, C, P, D),
         NEW q \in U \cup {Nil}, NEW sd \in 0 .. 1, NEW x \in U, NEW a \in 0 .. 1,
         There(rt, C, q, sd) = x, C[x][a] = Nil,
         NEW C2, NEW P2, Spliced(rt, C, P, x, a, q, sd, C2, P2)
  PROVE  /\ \A y : y = C[x][1 - a] => Tree(Without(U, x), RootWith(rt, q, y), C2, P2, SplicedD(D, x))
         /\ SplicedBelow(U, C, D, x, C2)
<1>. SUFFICES /\ Tree(U \ {x}, RootWith(rt, q, C[x][1 - a]), C2, P2, SplicedD(D, x))
              /\ \A n \in U \ {x} : \A d \in 0 .. 1 : SplicedD(D, x)[C2[n][d]] = D[C[n][d]] \ {x}
  BY DEF Without, SplicedBelow
<1>0. PICK D2 : D2 = SplicedD(D, x)
  OBVIOUS
<1>1. PICK y, U2, rt2 : y = C[x][1 - a] /\ U2 = U \ {x} /\ rt2 = RootWith(rt, q, y)
  OBVIOUS
<1>2. 1 - a \in 0 .. 1 /\ 1 - a # a /\ \A d \in 0 .. 1 : d = a \/ d = 1 - a
  OBVIOUS
<1>3. /\ U \subseteq AVLAddr /\ Nil \notin U /\ \A n \in U : n \in AVLAddr /\ n \in Nodes
      /\ Nil \in Nodes /\ D[Nil] = {} /\ D[rt] = U /\ \A n \in U : n \in D[n]
      /\ \A n \in Nodes : D[n] \subseteq U
  BY NilApart DEF Tree, Typed, Nodes, Parted
<1>4. Part(x, U, C, D, a)
  BY PartSides DEF Tree
<1>5. /\ D[x] = {x} \cup D[y] /\ x \notin D[y] /\ y \in U \cup {Nil} /\ y # x
      /\ y # Nil => y \in U /\ P[y] = x /\ y # rt
  BY <1>1, <1>2, <1>3, <1>4, OneParent DEF Part, Tree, Parented
<1>6. /\ q # Nil => q \in U /\ C[q][sd] = x /\ P[x] = q /\ q # x /\ x # rt /\ q # y
      /\ q = Nil => rt = x /\ P[x] = Nil
  <2>1. CASE q = Nil
    BY <2>1, <1>3 DEF There, Tree, Parented
  <2>2. CASE q # Nil
    <3>1. q \in U /\ C[q][sd] = x
      BY <2>2 DEF There
    <3>2. P[x] = q /\ x # rt /\ q # x
      BY <1>3, <3>1, OneParent DEF Tree, Parented
    <3>3. q # y
      <4>1. sd = 0 \/ sd = 1
        OBVIOUS
      <4>2. q \notin D[x]
        BY <3>1, <4>1 DEF Tree, Parted
      <4>. QED  BY <1>3, <1>5, <3>1, <4>2
    <3>. QED  BY <2>2, <3>1, <3>2, <3>3
  <2>. QED  BY <2>1, <2>2
<1>7. /\ C2 \in [AVLAddr -> [0 .. 1 -> Nodes]] /\ P2 \in [AVLAddr -> Nodes]
      /\ \A n \in AVLAddr : n # x => \A d \in 0 .. 1 :
          C2[n][d] = IF n = q /\ d = sd THEN y ELSE C[n][d]
      /\ \A n \in AVLAddr : n # x => P2[n] = IF n = y THEN q ELSE P[n]
  BY <1>1 DEF Spliced
<1>8. D2 = [n \in Nodes |-> D2[n]] /\ \A n \in Nodes : D2[n] = D[n] \ {x}
  BY <1>0 DEF SplicedD
<1>9. rt2 \in U2 \cup {Nil} /\ (q = Nil => rt2 = y) /\ (q # Nil => rt2 = rt)
  BY <1>1, <1>5, <1>6 DEF RootWith, Tree, Typed
<1>10. D2[rt2] = U2
  <2>1. CASE q = Nil
    BY <1>1, <1>3, <1>5, <1>6, <1>8, <1>9, <2>1
  <2>2. CASE q # Nil
    BY <1>1, <1>3, <1>8, <1>9, <2>2
  <2>. QED  BY <2>1, <2>2
<1>11. Typed(U2, rt2, C2, P2, D2)
  <2>1. \A n \in Nodes : D2[n] \subseteq U2
    BY <1>1, <1>3, <1>8
  <2>2. D2[Nil] = {}
    BY <1>3, <1>8
  <2>3. D2 \in [Nodes -> SUBSET U2]
    BY <1>8, <2>1
  <2>4. U2 \subseteq AVLAddr /\ rt2 \in U2 \cup {Nil}
    BY <1>1, <1>3, <1>9
  <2>. QED  BY <1>7, <1>10, <2>2, <2>3, <2>4, ZenonT(60) DEF Typed
<1>12. ASSUME NEW n \in U2, NEW d \in 0 .. 1
       PROVE  C2[n][d] \in U2 \cup {Nil} /\ D2[C2[n][d]] = D[C[n][d]] \ {x}
  <2>0. n \in U /\ n # x /\ n \in AVLAddr
    BY <1>1, <1>3
  <2>1. CASE n = q /\ d = sd
    <3>1. C2[n][d] = y /\ C[n][d] = x
      BY <1>3, <1>6, <1>7, <2>0, <2>1
    <3>2. D2[y] = D[x] \ {x}
      BY <1>3, <1>5, <1>8
    <3>. QED  BY <1>1, <1>5, <3>1, <3>2
  <2>2. CASE ~(n = q /\ d = sd)
    <3>1. C2[n][d] = C[n][d] /\ C[n][d] \in U \cup {Nil}
      BY <1>7, <2>0, <2>2 DEF Tree, Parted
    <3>2. C[n][d] # x
      <4>1. q = Nil => x = rt
        BY <1>6
      <4>2. q # Nil => C[q][sd] = x
        BY <1>6
      <4>. QED  BY <1>3, <1>6, <2>0, <2>2, <4>1, <4>2, OneParent
    <3>. QED  BY <1>1, <1>3, <1>8, <3>1, <3>2
  <2>. QED  BY <2>1, <2>2
<1>13. Parted(U2, C2, D2)
  <2>1. ASSUME NEW n \in U2 PROVE Part(n, U2, C2, D2, 0)
    <3>0. n \in U /\ n # x /\ n \in Nodes
      BY <1>1, <1>3
    <3>1. Part(n, U, C, D, 0) /\ 1 - 0 = 1
      BY <3>0, PartSides DEF Tree
    <3>2. D2[C2[n][0]] = D[C[n][0]] \ {x} /\ D2[C2[n][1]] = D[C[n][1]] \ {x} /\ D2[n] = D[n] \ {x}
      BY <1>8, <1>12, <3>0
    <3>3. C2[n][0] \in U2 \cup {Nil} /\ C2[n][1] \in U2 \cup {Nil}
      BY <1>12
    <3>4. /\ n \in D[n] /\ D[n] = {n} \cup D[C[n][0]] \cup D[C[n][1]]
          /\ n \notin D[C[n][0]] /\ n \notin D[C[n][1]]
          /\ D[C[n][0]] \cap D[C[n][1]] = {}
      BY <3>1 DEF Part
    <3>5. D2[n] = {n} \cup D2[C2[n][0]] \cup D2[C2[n][1]]
      BY <3>0, <3>2, <3>4
    <3>. QED  BY <3>0, <3>1, <3>2, <3>3, <3>4, <3>5 DEF Part
  <2>. QED  BY <2>1, PartSides
<1>14. Parented(U2, rt2, C2, P2)
  <2>1. rt2 # Nil => P2[rt2] = Nil
    <3>1. CASE q = Nil
      BY <1>3, <1>5, <1>7, <1>9, <3>1
    <3>2. CASE q # Nil
      <4>1. rt2 = rt /\ rt # Nil /\ rt # x /\ rt # y /\ rt \in U
        BY <1>3, <1>5, <1>6, <1>9, <3>2 DEF Tree, Typed
      <4>. QED  BY <1>3, <1>7, <4>1 DEF Tree, Parented
    <3>. QED  BY <3>1, <3>2
  <2>2. ASSUME NEW n \in U2, NEW d \in 0 .. 1, C2[n][d] # Nil
        PROVE  P2[C2[n][d]] = n
    <3>0. n \in U /\ n # x /\ n \in AVLAddr
      BY <1>1, <1>3
    <3>1. CASE n = q /\ d = sd
      BY <1>3, <1>5, <1>6, <1>7, <2>2, <3>0, <3>1
    <3>2. CASE ~(n = q /\ d = sd)
      <4>1. C2[n][d] = C[n][d]
        BY <1>7, <3>0, <3>2
      <4>2. C[n][d] \in U /\ C[n][d] # x /\ P[C[n][d]] = n
        BY <1>1, <1>12, <2>2, <3>0, <4>1 DEF Tree, Parented
      <4>3. C[n][d] # y
        BY <1>5, <2>2, <3>0, <4>1, <4>2
      <4>. QED  BY <1>3, <1>7, <4>1, <4>2, <4>3
    <3>. QED  BY <3>1, <3>2
  <2>3. ASSUME NEW n \in U2, n # rt2
        PROVE  P2[n] \in U2 /\ \E d \in 0 .. 1 : C2[P2[n]][d] = n
    <3>0. n \in U /\ n # x /\ n \in AVLAddr
      BY <1>1, <1>3
    <3>1. CASE n = y
      <4>1. q # Nil
        BY <1>9, <2>3, <3>1
      <4>2. P2[n] = q /\ q \in U2 /\ C2[q][sd] = y
        BY <1>1, <1>3, <1>6, <1>7, <3>0, <3>1, <4>1
      <4>. QED  BY <3>1, <4>2
    <3>2. CASE n # y
      <4>1. n # rt
        BY <1>6, <1>9, <2>3, <3>0
      <4>2. P[n] \in U /\ \E d \in 0 .. 1 : C[P[n]][d] = n
        <5>1. P[n] \in U /\ (C[P[n]][0] = n \/ C[P[n]][1] = n)
          BY <3>0, <4>1 DEF Tree, Parented
        <5>. QED  BY <5>1
      <4>3. PICK d \in 0 .. 1 : C[P[n]][d] = n
        BY <4>2
      <4>4. P[n] # x
        BY <1>1, <1>2, <1>3, <3>0, <3>2, <4>3
      <4>5. P2[n] = P[n] /\ C2[P[n]][d] = n
        BY <1>3, <1>6, <1>7, <3>0, <3>2, <4>2, <4>3, <4>4
      <4>. QED  BY <1>1, <4>2, <4>4, <4>5
    <3>. QED  BY <3>1, <3>2
  <2>4. \A n \in U2 : n # rt2 => P2[n] \in U2 /\ (C2[P2[n]][0] = n \/ C2[P2[n]][1] = n)
    <3>1. \A d \in 0 .. 1 : d = 0 \/ d = 1
      OBVIOUS
    <3>. QED  BY <2>3, <3>1
  <2>. QED  BY <2>1, <2>2, <2>4 DEF Parented
<1>15. Nested(U2, P2, D2)
  <2>0. \A n \in U : \A m \in D[n] : m \in U /\ D[m] \subseteq D[n] /\ (m # n => P[m] \in D[n])
    BY <1>3 DEF Tree, Nested, Typed
  <2>1. ASSUME NEW n \in U2, NEW m \in D2[n]
        PROVE  D2[m] \subseteq D2[n] /\ (m # n => P2[m] \in D2[n])
    <3>1. n \in U /\ n # x /\ m \in D[n] /\ m # x /\ m \in U
      BY <1>1, <1>3, <1>8, <2>0
    <3>2. D2[m] \subseteq D2[n]
      BY <1>3, <1>8, <2>0, <3>1
    <3>3. ASSUME m # n PROVE P2[m] \in D2[n]
      <4>1. P[m] \in D[n]
        BY <2>0, <3>1, <3>3
      <4>2. CASE m = y
        <5>1. x \in D[n]
          BY <1>3, <1>5, <3>1, <4>1, <4>2
        <5>2. q \in D[n]
          BY <1>3, <1>6, <2>0, <3>1, <5>1 DEF Tree, Typed
        <5>3. q # Nil /\ q # x
          BY <1>3, <1>6, <2>0, <3>1, <5>2
        <5>. QED  BY <1>3, <1>7, <1>8, <3>1, <4>2, <5>2, <5>3
      <4>3. CASE m # y
        <5>1. P[m] # x
          <6>1. m # rt
            <7>1. rt \in U /\ P[rt] = Nil => Nil \notin D[n]
              BY <1>3, <3>1
            <7>. QED  BY <1>3, <3>1, <4>1, <7>1 DEF Tree, Parented
          <6>2. C[P[m]][0] = m \/ C[P[m]][1] = m
            BY <3>1, <6>1 DEF Tree, Parented
          <6>3. C[x][0] = m \/ C[x][1] = m => m = y
            BY <1>1, <1>2, <1>3, <3>1
          <6>. QED  BY <4>3, <6>2, <6>3
        <5>. QED  BY <1>3, <1>7, <1>8, <3>1, <4>1, <4>3, <5>1
      <4>. QED  BY <4>2, <4>3
    <3>. QED  BY <3>2, <3>3
  <2>. QED  BY <2>1 DEF Nested
<1>16. \A n \in U2 : \A d \in 0 .. 1 : D2[C2[n][d]] = D[C[n][d]] \ {x}
  BY <1>12
<1>. QED  BY <1>0, <1>1, <1>11, <1>13, <1>14, <1>15, <1>16 DEF Tree

\* A node that goes leaves the others in order.
LEMMA SplicedOrder ==
  ASSUME NEW U, NEW C, NEW K, NEW D \in [Nodes -> SUBSET U], Ordered(U, C, K, D), NEW C2, NEW x,
         U \subseteq Nodes, SplicedBelow(U, C, D, x, C2)
  PROVE  Ordered(Without(U, x), C2, K, SplicedD(D, x))
<1>. SUFFICES Ordered(U \ {x}, C2, K, SplicedD(D, x))
  BY DEF Without
<1>0. \A n \in U \ {x} : \A d \in 0 .. 1 : SplicedD(D, x)[C2[n][d]] = D[C[n][d]] \ {x}
  BY DEF SplicedBelow
<1>1. Distinct(U \ {x}, K)
  BY DEF Ordered, Distinct
<1>2. Sorted(U \ {x}, C2, K, SplicedD(D, x))
  <2>1. \A n \in U \ {x} : /\ SplicedD(D, x)[C2[n][0]] = D[C[n][0]] \ {x}
                           /\ SplicedD(D, x)[C2[n][1]] = D[C[n][1]] \ {x}
    BY <1>0
  <2>. QED  BY <2>1 DEF Ordered, Sorted
<1>3. Convex(U \ {x}, K, SplicedD(D, x))
  <2>1. \A n \in U : SplicedD(D, x)[n] = D[n] \ {x}
    BY DEF SplicedD
  <2>. QED  BY <2>1 DEF Ordered, Convex
<1>. QED  BY <1>1, <1>2, <1>3 DEF Ordered

\* A node takes a key that has the same place among the others' as its own.
LEMMA RekeyOrder ==
  ASSUME NEW U, NEW C, NEW K, NEW D \in [Nodes -> SUBSET U], Ordered(U, C, K, D), U \subseteq Nodes,
         NEW P, NEW rt, Tree(U, rt, C, P, D),
         NEW t \in U, NEW k \in AVLKeys, NEW K2,
         \A m \in U : m # t => K[m] # k /\ (K[m] < k <=> K[m] < K[t]),
         \A m \in U : K2[m] = IF m = t THEN k ELSE K[m]
  PROVE  Ordered(U, C, K2, D)
<1>0. /\ \A n \in U : K[n] \in Int /\ K2[n] \in Int
      /\ k \in Int
  BY KeysAreIntegers, AVLAssumption DEF Ordered
<1>1. Distinct(U, K2)
  BY DEF Ordered, Distinct
<1>2. ASSUME NEW m \in U, NEW n \in U, m # n PROVE K2[m] < K2[n] <=> K[m] < K[n]
  <2>1. K[m] # K[n]
    BY <1>2 DEF Ordered, Distinct
  <2>. QED  BY <1>0, <1>2, <2>1
<1>3. Sorted(U, C, K2, D)
  <2>1. ASSUME NEW n \in U
        PROVE  /\ \A m \in D[C[n][0]] : m \in U /\ m # n
               /\ \A m \in D[C[n][1]] : m \in U /\ m # n
    <3>1. C[n][0] \in Nodes /\ C[n][1] \in Nodes /\ n \notin D[C[n][0]] /\ n \notin D[C[n][1]]
      BY DEF Tree, Typed, Parted, Nodes
    <3>. QED  BY <3>1
  <2>. QED  BY <1>2, <2>1 DEF Ordered, Sorted
<1>4. Convex(U, K2, D)
  <2>1. \A n \in U : n \in D[n] /\ D[n] \subseteq U
    BY DEF Tree, Parted
  <2>2. ASSUME NEW n \in U, NEW x \in D[n], NEW m \in U, m \notin D[n]
        PROVE  K2[m] < K2[x] <=> K2[m] < K2[n]
    <3>1. m # x /\ m # n /\ x \in U
      BY <2>1, <2>2
    <3>2. K[m] < K[x] <=> K[m] < K[n]
      BY <2>2 DEF Ordered, Convex
    <3>. QED  BY <1>2, <3>1, <3>2
  <2>. QED  BY <2>2 DEF Convex
<1>. QED  BY <1>1, <1>3, <1>4 DEF Ordered

-----------------------------------------------------------------------------
(* A node x is linked where there is none.                                  *)

Linked(C, P, x, q, sd, C2, P2) ==
  /\ C2 \in [AVLAddr -> [0 .. 1 -> Nodes]] /\ P2 \in [AVLAddr -> Nodes]
  /\ \A n \in AVLAddr : \A d \in 0 .. 1 :
       C2[n][d] = IF n = x THEN Nil ELSE IF n = q /\ d = sd THEN x ELSE C[n][d]
  /\ \A n \in AVLAddr : P2[n] = IF n = x THEN q ELSE P[n]

LinkedD(D, x, q) ==
  [n \in Nodes |-> IF n = x THEN {x} ELSE IF q \in D[n] THEN D[n] \cup {x} ELSE D[n]]
Joined(U, x) == U \cup {x}
LinkedBelow(U, C, D, x, q, sd, C2) ==
  \A n \in U : \A d \in 0 .. 1 :
    LinkedD(D, x, q)[C2[n][d]] =
      IF q \in D[C[n][d]] \/ (n = q /\ d = sd) THEN D[C[n][d]] \cup {x} ELSE D[C[n][d]]

\* A node that is linked where there was none makes a tree with the others.
LEMMA LinkedTree ==
  ASSUME NEW U, NEW rt, NEW C, NEW P, NEW D, Tree(U, rt, C, P, D),
         NEW q \in U \cup {Nil}, NEW sd \in 0 .. 1, NEW x \in AVLAddr, x \notin U,
         There(rt, C, q, sd) = Nil,
         NEW C2, NEW P2, Linked(C, P, x, q, sd, C2, P2)
  PROVE  /\ Tree(Joined(U, x), RootWith(rt, q, x), C2, P2, LinkedD(D, x, q))
         /\ LinkedBelow(U, C, D, x, q, sd, C2)
<1>. SUFFICES /\ Tree(U \cup {x}, RootWith(rt, q, x), C2, P2, LinkedD(D, x, q))
              /\ \A n \in U : \A d \in 0 .. 1 :
                   LinkedD(D, x, q)[C2[n][d]] =
                     IF q \in D[C[n][d]] \/ (n = q /\ d = sd) THEN D[C[n][d]] \cup {x} ELSE D[C[n][d]]
  BY DEF Joined, LinkedBelow
<1>0. PICK D2 : D2 = LinkedD(D, x, q)
  OBVIOUS
<1>1. PICK U2, rt2 : U2 = U \cup {x} /\ rt2 = RootWith(rt, q, x)
  OBVIOUS
<1>2. /\ U \subseteq AVLAddr /\ Nil \notin U /\ \A n \in U : n \in AVLAddr /\ n \in Nodes
      /\ Nil \in Nodes /\ D[Nil] = {} /\ D[rt] = U /\ \A n \in U : n \in D[n]
      /\ \A n \in Nodes : D[n] \subseteq U
      /\ x \in AVLAddr /\ x \in Nodes /\ x # Nil /\ x \notin U
  BY NilApart DEF Tree, Typed, Nodes, Parted
<1>3. /\ q # Nil => q \in U /\ C[q][sd] = Nil /\ q # x
      /\ q = Nil => rt = Nil /\ U = {}
  BY <1>2 DEF There
<1>4. /\ C2 \in [AVLAddr -> [0 .. 1 -> Nodes]] /\ P2 \in [AVLAddr -> Nodes]
      /\ \A n \in AVLAddr : \A d \in 0 .. 1 :
           C2[n][d] = IF n = x THEN Nil ELSE IF n = q /\ d = sd THEN x ELSE C[n][d]
      /\ \A n \in AVLAddr : P2[n] = IF n = x THEN q ELSE P[n]
  BY DEF Linked
<1>5. /\ D2 = [n \in Nodes |-> D2[n]]
      /\ \A n \in Nodes : D2[n] = IF n = x THEN {x} ELSE IF q \in D[n] THEN D[n] \cup {x} ELSE D[n]
  BY <1>0 DEF LinkedD
<1>6. rt2 \in U2 \cup {Nil} /\ (q = Nil => rt2 = x) /\ (q # Nil => rt2 = rt)
  BY <1>1 DEF RootWith, Tree, Typed
<1>7. D2[rt2] = U2
  <2>1. CASE q = Nil
    BY <1>1, <1>2, <1>3, <1>5, <1>6, <2>1
  <2>2. CASE q # Nil
    <3>1. rt \in Nodes /\ rt # x
      BY <1>2 DEF Tree, Typed
    <3>. QED  BY <1>1, <1>2, <1>3, <1>5, <1>6, <2>2, <3>1
  <2>. QED  BY <2>1, <2>2
<1>8. Typed(U2, rt2, C2, P2, D2)
  <2>1. \A n \in Nodes : D2[n] \subseteq U2
    BY <1>1, <1>2, <1>5
  <2>2. D2[Nil] = {}
    BY <1>2, <1>5
  <2>. QED  BY <1>1, <1>2, <1>4, <1>5, <1>6, <1>7, <2>1, <2>2 DEF Typed
<1>9. ASSUME NEW n \in U, NEW d \in 0 .. 1
      PROVE  /\ C2[n][d] \in U2 \cup {Nil}
             /\ D2[C2[n][d]] = IF q \in D[C[n][d]] \/ (n = q /\ d = sd)
                               THEN D[C[n][d]] \cup {x} ELSE D[C[n][d]]
  <2>0. n # x /\ n \in AVLAddr /\ C[n][d] \in U \cup {Nil}
    BY <1>2 DEF Tree, Parted
  <2>1. CASE n = q /\ d = sd
    <3>1. C2[n][d] = x /\ C[n][d] = Nil
      BY <1>2, <1>3, <1>4, <2>0, <2>1
    <3>. QED  BY <1>1, <1>2, <1>5, <2>1, <3>1
  <2>2. CASE ~(n = q /\ d = sd)
    <3>1. C2[n][d] = C[n][d] /\ C[n][d] # x /\ C[n][d] \in Nodes
      BY <1>2, <1>4, <2>0, <2>2
    <3>. QED  BY <1>1, <1>5, <2>0, <2>2, <3>1
  <2>. QED  BY <2>1, <2>2
<1>10. Parted(U2, C2, D2)
  <2>1. ASSUME NEW n \in U2 PROVE Part(n, U2, C2, D2, 0)
    <3>1. CASE n = x
      <4>1. C2[x][0] = Nil /\ C2[x][1] = Nil /\ 1 - 0 = 1
        BY <1>2, <1>4
      <4>2. D2[Nil] = {} /\ D2[x] = {x}
        BY <1>2, <1>5
      <4>. QED  BY <3>1, <4>1, <4>2 DEF Part
    <3>2. CASE n \in U
      <4>1. n # x /\ n \in Nodes /\ 1 - 0 = 1
        BY <1>2, <3>2
      <4>2. /\ n \in D[n] /\ D[n] = {n} \cup D[C[n][0]] \cup D[C[n][1]]
            /\ n \notin D[C[n][0]] /\ n \notin D[C[n][1]]
            /\ D[C[n][0]] \cap D[C[n][1]] = {}
            /\ x \notin D[C[n][0]] /\ x \notin D[C[n][1]]
        <5>1. C[n][0] \in Nodes /\ C[n][1] \in Nodes
          BY <1>2, <3>2 DEF Tree, Parted
        <5>. QED  BY <1>2, <3>2, <5>1 DEF Tree, Parted
      <4>3. \A d \in 0 .. 1 :
             /\ C2[n][d] \in U2 \cup {Nil}
             /\ D2[C2[n][d]] = IF q \in D[C[n][d]] \/ (n = q /\ d = sd)
                               THEN D[C[n][d]] \cup {x} ELSE D[C[n][d]]
        BY <1>9, <3>2
      <4>4. D2[n] = IF q \in D[n] THEN D[n] \cup {x} ELSE D[n]
        BY <1>5, <4>1
      <4>5. sd = 0 \/ sd = 1
        OBVIOUS
      <4>6. PICK c0, c1, e0, e1, en :
              /\ c0 = D[C[n][0]] /\ c1 = D[C[n][1]]
              /\ e0 = D2[C2[n][0]] /\ e1 = D2[C2[n][1]] /\ en = D2[n]
        OBVIOUS
      <4>7. /\ e0 = IF q \in c0 \/ (n = q /\ 0 = sd) THEN c0 \cup {x} ELSE c0
            /\ e1 = IF q \in c1 \/ (n = q /\ 1 = sd) THEN c1 \cup {x} ELSE c1
            /\ en = IF q \in {n} \cup c0 \cup c1 THEN {n} \cup c0 \cup c1 \cup {x}
                    ELSE {n} \cup c0 \cup c1
        <5>1. 0 \in 0 .. 1 /\ 1 \in 0 .. 1
          OBVIOUS
        <5>2. e0 = IF q \in c0 \/ (n = q /\ 0 = sd) THEN c0 \cup {x} ELSE c0
          BY <4>3, <4>6, <5>1
        <5>3. e1 = IF q \in c1 \/ (n = q /\ 1 = sd) THEN c1 \cup {x} ELSE c1
          BY <4>3, <4>6, <5>1
        <5>4. en = IF q \in {n} \cup c0 \cup c1 THEN {n} \cup c0 \cup c1 \cup {x}
                    ELSE {n} \cup c0 \cup c1
          BY <4>2, <4>4, <4>6
        <5>. QED  BY <5>2, <5>3, <5>4
      <4>8. n \notin c0 /\ n \notin c1 /\ c0 \cap c1 = {} /\ x \notin c0 /\ x \notin c1
        BY <4>2, <4>6
      <4>9. en = {n} \cup e0 \cup e1
        BY <4>5, <4>7, <4>8
      <4>10. n \notin e0 /\ n \notin e1 /\ e0 \cap e1 = {} /\ n \in en
        BY <4>1, <4>5, <4>7, <4>8
      <4>11. C2[n][0] \in U2 \cup {Nil} /\ C2[n][1] \in U2 \cup {Nil}
        BY <4>3
      <4>. QED  BY <4>1, <4>6, <4>9, <4>10, <4>11 DEF Part
    <3>. QED  BY <1>1, <3>1, <3>2
  <2>. QED  BY <2>1, PartSides
<1>11. Parented(U2, rt2, C2, P2)
  <2>1. rt2 # Nil => P2[rt2] = Nil
    <3>1. CASE q = Nil
      BY <1>2, <1>4, <1>6, <3>1
    <3>2. CASE q # Nil
      BY <1>2, <1>4, <1>6, <3>2 DEF Tree, Typed, Parented
    <3>. QED  BY <3>1, <3>2
  <2>2. ASSUME NEW n \in U2, NEW d \in 0 .. 1, C2[n][d] # Nil
        PROVE  P2[C2[n][d]] = n
    <3>1. n \in U /\ n # x
      BY <1>1, <1>2, <1>4, <2>2
    <3>2. CASE n = q /\ d = sd
      BY <1>2, <1>4, <3>1, <3>2
    <3>3. CASE ~(n = q /\ d = sd)
      <4>1. C2[n][d] = C[n][d] /\ C[n][d] \in U
        BY <1>2, <1>4, <2>2, <3>1, <3>3 DEF Tree, Parted
      <4>. QED  BY <1>2, <1>4, <2>2, <3>1, <4>1 DEF Tree, Parented
    <3>. QED  BY <3>2, <3>3
  <2>3. ASSUME NEW n \in U2, n # rt2
        PROVE  P2[n] \in U2 /\ (C2[P2[n]][0] = n \/ C2[P2[n]][1] = n)
    <3>1. CASE n = x
      <4>1. q # Nil
        BY <1>6, <2>3, <3>1
      <4>2. P2[n] = q /\ q \in U2 /\ C2[q][sd] = x
        BY <1>1, <1>2, <1>3, <1>4, <3>1, <4>1
      <4>3. sd = 0 \/ sd = 1
        OBVIOUS
      <4>. QED  BY <3>1, <4>2, <4>3
    <3>2. CASE n \in U /\ n # x
      <4>1. n # rt
        BY <1>3, <1>6, <2>3, <3>2
      <4>2. P[n] \in U /\ \E d \in 0 .. 1 : C[P[n]][d] = n
        <5>1. P[n] \in U /\ (C[P[n]][0] = n \/ C[P[n]][1] = n)
          BY <3>2, <4>1 DEF Tree, Parented
        <5>. QED  BY <5>1
      <4>3. PICK d \in 0 .. 1 : C[P[n]][d] = n
        BY <4>2
      <4>4. C2[P[n]][d] = n
        BY <1>2, <1>3, <1>4, <3>2, <4>2, <4>3
      <4>5. d = 0 \/ d = 1
        OBVIOUS
      <4>. QED  BY <1>1, <1>2, <1>4, <3>2, <4>2, <4>4, <4>5
    <3>. QED  BY <1>1, <3>1, <3>2
  <2>. QED  BY <2>1, <2>2, <2>3 DEF Parented
<1>12. Nested(U2, P2, D2)
  <2>0. \A n \in U : \A m \in D[n] : m \in U /\ D[m] \subseteq D[n] /\ (m # n => P[m] \in D[n])
    BY <1>2 DEF Tree, Nested, Typed
  <2>1. ASSUME NEW n \in U2, NEW m \in D2[n]
        PROVE  D2[m] \subseteq D2[n] /\ (m # n => P2[m] \in D2[n])
    <3>1. CASE n = x
      BY <1>2, <1>5, <2>1, <3>1
    <3>2. CASE n \in U /\ m = x
      <4>1. q \in D[n] /\ D2[n] = D[n] \cup {x} /\ D2[m] = {x} /\ P2[m] = q
        BY <1>2, <1>4, <1>5, <2>1, <3>2
      <4>. QED  BY <4>1
    <3>3. CASE n \in U /\ m # x
      <4>1. m \in D[n] /\ m \in U /\ n # x
        BY <1>2, <1>5, <2>0, <2>1, <3>3
      <4>2. D[n] \subseteq D2[n] /\ (q \in D[n] => x \in D2[n])
        BY <1>2, <1>5, <3>3
      <4>3. D2[m] = IF q \in D[m] THEN D[m] \cup {x} ELSE D[m]
        BY <1>2, <1>5, <4>1
      <4>4. D[m] \subseteq D[n] /\ (m # n => P[m] \in D[n]) /\ P2[m] = P[m]
        BY <1>2, <1>4, <2>0, <3>3, <4>1
      <4>. QED  BY <4>2, <4>3, <4>4
    <3>. QED  BY <1>1, <3>1, <3>2, <3>3
  <2>. QED  BY <2>1 DEF Nested
<1>. QED  BY <1>0, <1>1, <1>8, <1>9, <1>10, <1>11, <1>12 DEF Tree

\* The key k of the new node is on the right side of every node above it, and on one
\* side of all that is below any other.
Fits(U, C, K, D, q, sd, k) ==
  /\ \A n \in U : K[n] # k
  /\ \A n \in U : \A d \in 0 .. 1 :
       q \in D[C[n][d]] \/ (n = q /\ d = sd) => Beside(d, k, K[n])
  /\ \A n \in U : q \in D[n] => \A m \in U : m \notin D[n] => (K[m] < k <=> K[m] < K[n])
  /\ \A n \in U : q \notin D[n] => \A m \in D[n] : k < K[m] <=> k < K[n]

\* x gets the name k, and the others keep theirs.
Renamed(U, K, K2, x, k) == (\A n \in U : K2[n] = K[n]) /\ K2[x] = k

\* The new node is in order if its key fits at its place.
LEMMA LinkedOrder ==
  ASSUME NEW U, NEW C, NEW K, NEW D \in [Nodes -> SUBSET U], Ordered(U, C, K, D), U \subseteq Nodes,
         NEW q \in U \cup {Nil}, NEW sd \in 0 .. 1, NEW x \in AVLAddr, x \notin U, NEW k \in AVLKeys,
         NEW C2, Fits(U, C, K, D, q, sd, k), C2[x][0] = Nil, C2[x][1] = Nil, D[Nil] = {},
         NEW K2, Renamed(U, K, K2, x, k), LinkedBelow(U, C, D, x, q, sd, C2),
         Parted(U, C, D)
  PROVE  Ordered(Joined(U, x), C2, K2, LinkedD(D, x, q))
<1>. SUFFICES Ordered(U \cup {x}, C2, K2, LinkedD(D, x, q))
  BY DEF Joined
<1>7. (\A n \in U : K2[n] = K[n]) /\ K2[x] = k
  BY DEF Renamed
<1>8. \A n \in U : \A d \in 0 .. 1 :
        LinkedD(D, x, q)[C2[n][d]] =
          IF q \in D[C[n][d]] \/ (n = q /\ d = sd) THEN D[C[n][d]] \cup {x} ELSE D[C[n][d]]
  BY DEF LinkedBelow
<1>9. \A n \in U : C[n][0] \in Nodes /\ C[n][1] \in Nodes
  BY NilApart DEF Parted
<1>0. PICK D2, U2 : D2 = LinkedD(D, x, q) /\ U2 = U \cup {x}
  OBVIOUS
<1>1. /\ \A n \in Nodes : D2[n] = IF n = x THEN {x} ELSE IF q \in D[n] THEN D[n] \cup {x} ELSE D[n]
      /\ x \in Nodes /\ Nil \in Nodes /\ x # Nil /\ \A n \in U : n # x
      /\ \A n \in U : D[n] \subseteq U
      /\ q \notin D[Nil]
  BY <1>0, NilApart DEF LinkedD, Nodes
<1>6. \A n \in U : n \in Nodes /\ \A d \in 0 .. 1 :
        D2[C2[n][d]] = IF q \in D[C[n][d]] \/ (n = q /\ d = sd)
                       THEN D[C[n][d]] \cup {x} ELSE D[C[n][d]]
  BY <1>0, <1>8
<1>2. \A n \in U2 : K2[n] \in Int
  BY <1>0, <1>7, KeysAreIntegers, AVLAssumption DEF Ordered
<1>3. Distinct(U2, K2)
  BY <1>0, <1>7 DEF Ordered, Distinct, Fits
<1>4. Sorted(U2, C2, K2, D2)
  <2>1. ASSUME NEW n \in U2
        PROVE  /\ \A m \in D2[C2[n][0]] : Beside(0, K2[m], K2[n])
               /\ \A m \in D2[C2[n][1 - 0]] : Beside(1 - 0, K2[m], K2[n])
    <3>0. 1 - 0 = 1 /\ 0 \in 0 .. 1 /\ 1 \in 0 .. 1
      OBVIOUS
    <3>1. CASE n = x
      <4>1. D2[Nil] = {}
        BY <1>1
      <4>. QED  BY <3>0, <3>1, <4>1
    <3>2. CASE n \in U
      <4>1. ASSUME NEW d \in 0 .. 1, NEW m \in D2[C2[n][d]] PROVE Beside(d, K2[m], K2[n])
        <5>1. m \in D[C[n][d]] \/ (m = x /\ (q \in D[C[n][d]] \/ (n = q /\ d = sd)))
          <6>1. D2[C2[n][d]] = IF q \in D[C[n][d]] \/ (n = q /\ d = sd)
                               THEN D[C[n][d]] \cup {x} ELSE D[C[n][d]]
            BY <1>6, <3>2, <4>1
          <6>2. PICK X, Y : X = D2[C2[n][d]] /\ Y = D[C[n][d]]
            OBVIOUS
          <6>3. m \in X /\ X = IF q \in Y \/ (n = q /\ d = sd) THEN Y \cup {x} ELSE Y
            BY <4>1, <6>1, <6>2
          <6>4. m \in Y \/ (m = x /\ (q \in Y \/ (n = q /\ d = sd)))
            BY <6>3
          <6>. QED  BY <6>2, <6>4
        <5>2. CASE m = x
          <6>0. C[n][d] \in Nodes
            <7>1. d = 0 \/ d = 1
              OBVIOUS
            <7>. QED  BY <1>9, <3>2, <7>1
          <6>1. m \notin D[C[n][d]]
            BY <1>1, <5>2, <6>0
          <6>. QED  BY <1>7, <3>2, <5>1, <5>2, <6>1 DEF Fits
        <5>3. CASE m \in D[C[n][d]] /\ m # x
          <6>1. C[n][d] \in Nodes /\ (d = 0 \/ d = 1)
            <7>1. d = 0 \/ d = 1
              OBVIOUS
            <7>. QED  BY <1>9, <3>2, <7>1
          <6>2. m \in U
            BY <5>3, <6>1
          <6>. QED  BY <1>7, <3>2, <5>3, <6>1, <6>2 DEF Ordered, Sorted, Beside
        <5>. QED  BY <5>1, <5>2, <5>3
      <4>. QED  BY <3>0, <4>1
    <3>. QED  BY <1>0, <3>1, <3>2
  <2>. QED  BY <2>1, SortedSides
<1>5. Convex(U2, K2, D2)
  <2>1. ASSUME NEW n \in U2, NEW y \in D2[n], NEW m \in U2, m \notin D2[n]
        PROVE  K2[m] < K2[y] <=> K2[m] < K2[n]
    <3>1. CASE n = x
      <4>1. D2[n] = {x}
        BY <1>1, <3>1
      <4>. QED  BY <2>1, <3>1, <4>1
    <3>2. CASE n \in U /\ q \in D[n]
      <4>1. n # x /\ D2[n] = D[n] \cup {x} /\ m \in U /\ m \notin D[n] /\ (y \in D[n] \/ y = x)
        <5>1. n # x /\ n \in Nodes /\ D2[n] = D[n] \cup {x}
          BY <1>1, <1>6, <3>2
        <5>2. m # x /\ m \notin D[n] /\ (y \in D[n] \/ y = x)
          BY <2>1, <5>1
        <5>. QED  BY <1>0, <5>1, <5>2
      <4>2. CASE y = x
        BY <1>7, <3>2, <4>1, <4>2 DEF Fits
      <4>3. CASE y \in D[n]
        BY <1>1, <1>7, <3>2, <4>1, <4>3 DEF Ordered, Convex
      <4>. QED  BY <4>1, <4>2, <4>3
    <3>3. CASE n \in U /\ q \notin D[n]
      <4>1. n # x /\ D2[n] = D[n] /\ y \in D[n] /\ y \in U /\ m \notin D[n]
        BY <1>1, <2>1, <3>3
      <4>2. CASE m = x
        BY <1>7, <3>3, <4>1, <4>2 DEF Fits
      <4>3. CASE m \in U
        BY <1>7, <3>3, <4>1, <4>3 DEF Ordered, Convex
      <4>. QED  BY <1>0, <4>2, <4>3
    <3>. QED  BY <1>0, <3>1, <3>2, <3>3
  <2>. QED  BY <2>1 DEF Convex
<1>. QED  BY <1>0, <1>3, <1>4, <1>5 DEF Ordered

-----------------------------------------------------------------------------
(* Heights: H[n] is that of n, and B[n] its balance.                        *)

Larger(i, j) == IF i > j THEN i ELSE j

\* n has the height and the balance of its children's heights; with g for the height
\* of the child on the side a.
Flat(n, C, B, H) ==
  /\ B[n] = H[C[n][1]] - H[C[n][0]]
  /\ H[n] = 1 + Larger(H[C[n][0]], H[C[n][1]])
FlatWith(n, C, B, H, a, g) ==
  LET z == H[C[n][1 - a]]
  IN /\ B[n] = IF a = 1 THEN g - z ELSE z - g
     /\ H[n] = 1 + Larger(g, z)

Heights(H) == H \in [Nodes -> Nat] /\ H[Nil] = 0

\* Height and balance of a node, with the children in either order.
LEMMA FlatSides ==
  ASSUME NEW n, NEW C, NEW B, NEW H, NEW a \in 0 .. 1, H[C[n][0]] \in Nat, H[C[n][1]] \in Nat
  PROVE  Flat(n, C, B, H) <=> FlatWith(n, C, B, H, a, H[C[n][a]])
<1>1. PICK h0, h1 : h0 = H[C[n][0]] /\ h1 = H[C[n][1]]
  OBVIOUS
<1>2. h0 \in Nat /\ h1 \in Nat
  BY <1>1
<1>3. 1 - 1 = 0 /\ 1 - 0 = 1 /\ Larger(h0, h1) = Larger(h1, h0)
  BY <1>2 DEF Larger
<1>4. CASE a = 1
  BY <1>1, <1>3, <1>4 DEF Flat, FlatWith
<1>5. CASE a = 0
  BY <1>1, <1>3, <1>5 DEF Flat, FlatWith
<1>. QED  BY <1>4, <1>5

\* A rotation changes the heights of the two nodes only; for the parent the height
\* that was there before is the one it has.
LEMMA TurnedHeights ==
  ASSUME NEW U, NEW rt, NEW C, NEW P, NEW D, Tree(U, rt, C, P, D),
         NEW q \in U \cup {Nil}, NEW sd \in 0 .. 1, NEW s \in U, NEW a \in 0 .. 1,
         There(rt, C, q, sd) = s, C[s][a] # Nil,
         NEW C2, NEW P2, Turned(rt, C, P, s, a, q, sd, C2, P2),
         NEW H, NEW H2, Heights(H), Heights(H2), NEW B, NEW B2,
         \A n \in Nodes : n # s /\ n # C[s][a] => H2[n] = H[n],
         \A n \in U : n # s /\ n # C[s][a] => B2[n] = B[n]
  PROVE  /\ \A n \in U : n # s /\ n # C[s][a] /\ n # q /\ Flat(n, C, B, H) => Flat(n, C2, B2, H2)
         /\ q # Nil /\ Flat(q, C, B, H) => FlatWith(q, C2, B2, H2, sd, H[s])
<1>1. PICK r : r = C[s][a]
  OBVIOUS
<1>2. /\ \A n \in U : n \in AVLAddr /\ n \in Nodes /\ \A d \in 0 .. 1 : C[n][d] \in Nodes
      /\ \A n \in AVLAddr : \A d \in 0 .. 1 :
          C2[n][d] = IF n = s /\ d = a THEN C[r][1 - a]
                     ELSE IF n = r /\ d = 1 - a THEN s
                     ELSE IF n = q /\ d = sd THEN r ELSE C[n][d]
  BY <1>1 DEF Tree, Typed, Turned, Nodes
<1>3. /\ \A n \in Nodes : n # s /\ n # r => H2[n] = H[n]
      /\ \A n \in U : n # s /\ n # r => B2[n] = B[n]
  BY <1>1
<1>4. ASSUME NEW n \in U, n # s, NEW d \in 0 .. 1, C[n][d] # Nil
      PROVE  C[n][d] # r /\ (C[n][d] = s => q # Nil /\ n = q /\ d = sd)
  <2>1. C[n][d] # r
    BY <1>1, <1>4, OneParent
  <2>2. C[n][d] = s => q # Nil
    BY <1>4, OneParent DEF There
  <2>3. C[n][d] = s => n = q /\ d = sd
    BY <1>4, <2>2, OneParent DEF There
  <2>. QED  BY <2>1, <2>2, <2>3
<1>5. s # Nil /\ r # Nil /\ s \in Nodes /\ Nil \in Nodes
  BY <1>1, <1>2, NilApart DEF Tree, Typed
<1>6. \A n \in U : n # s /\ n # r => \A d \in 0 .. 1 : ~(n = q /\ d = sd) =>
        C2[n][d] = C[n][d] /\ H2[C2[n][d]] = H[C[n][d]]
  <2>1. ASSUME NEW n \in U, n # s, n # r, NEW d \in 0 .. 1, ~(n = q /\ d = sd)
        PROVE  C2[n][d] = C[n][d] /\ H2[C2[n][d]] = H[C[n][d]]
    <3>1. C2[n][d] = C[n][d]
      BY <1>2, <2>1
    <3>2. C[n][d] # s /\ C[n][d] # r
      BY <1>4, <1>5, <2>1
    <3>. QED  BY <1>2, <1>3, <3>1, <3>2
  <2>. QED  BY <2>1
<1>7. ASSUME NEW n \in U, n # s, n # r, n # q, Flat(n, C, B, H) PROVE Flat(n, C2, B2, H2)
  BY <1>2, <1>3, <1>6, <1>7 DEF Flat
<1>8. ASSUME q # Nil, Flat(q, C, B, H) PROVE FlatWith(q, C2, B2, H2, sd, H[s])
  <2>1. q \in U /\ C[q][sd] = s /\ 1 - sd \in 0 .. 1 /\ 1 - sd # sd
    BY <1>8 DEF There
  <2>2. q # s /\ q # r
    <3>1. q # s
      BY <1>5, <2>1, OneParent
    <3>2. s \in D[q] /\ q \notin D[s]
      <4>1. sd = 0 \/ sd = 1
        OBVIOUS
      <4>. QED  BY <2>1, <4>1 DEF Tree, Parted
    <3>3. r \in D[s]
      <4>1. r \in U /\ (a = 0 \/ a = 1)
        BY <1>1, OneParent
      <4>. QED  BY <1>1, <4>1 DEF Tree, Parted
    <3>. QED  BY <3>1, <3>2, <3>3
  <2>3. H2[C2[q][1 - sd]] = H[C[q][1 - sd]]
    BY <1>6, <2>1, <2>2
  <2>4. B2[q] = B[q] /\ H2[q] = H[q]
    BY <1>2, <1>3, <2>1, <2>2
  <2>5. FlatWith(q, C, B, H, sd, H[s])
    <3>1. H[C[q][0]] \in Nat /\ H[C[q][1]] \in Nat
      BY <1>2, <2>1 DEF Heights
    <3>. QED  BY <1>8, <2>1, <3>1, FlatSides
  <2>. QED  BY <2>3, <2>4, <2>5 DEF FlatWith
<1>. QED  BY <1>1, <1>7, <1>8

\* The direction of a side.
Dir(a) == IF a = 1 THEN 1 ELSE -1

\* After a single rotation the two nodes are level, and have the height that the child had.
LEMMA SingleHeights ==
  ASSUME NEW U, NEW rt, NEW C, NEW P, NEW D, Tree(U, rt, C, P, D),
         NEW q \in U \cup {Nil}, NEW sd \in 0 .. 1, NEW s \in U, NEW a \in 0 .. 1,
         There(rt, C, q, sd) = s, NEW r, r = C[s][a], r # Nil,
         NEW C2, NEW P2, Turned(rt, C, P, s, a, q, sd, C2, P2),
         NEW H, Heights(H), NEW B, NEW B2,
         \A n \in U : n # s => Flat(n, C, B, H),
         B[r] = Dir(a), H[r] = H[C[s][1 - a]] + 2,
         B2[s] = 0, B2[r] = 0, \A n \in U : n # s /\ n # r => B2[n] = B[n]
  PROVE  \E H2 : /\ Heights(H2) /\ H2[r] = H[r]
                 /\ \A n \in U : n # q => Flat(n, C2, B2, H2)
                 /\ q # Nil => FlatWith(q, C2, B2, H2, sd, H[s])
<1>1. PICK i, o, y : i = C[r][1 - a] /\ o = C[r][a] /\ y = C[s][1 - a]
  OBVIOUS
<1>2. /\ r \in U /\ r # s /\ i # s /\ o # s /\ y # s
      /\ {i, o, y} \subseteq U \cup {Nil}
      /\ C2[s][a] = i /\ C2[s][1 - a] = y /\ C2[r][a] = o /\ C2[r][1 - a] = s
  <2>1. TurnedRoles(U, C, D, s, a, C2, TurnedD(C, D, s, a))
    BY TurnedTree
  <2>. QED  BY <1>1, <2>1 DEF TurnedRoles
<1>3. \A n \in U \cup {Nil} : n \in Nodes
  BY NilApart DEF Tree, Typed, Nodes
<1>4. PICK hi, ho, hy : hi = H[i] /\ ho = H[o] /\ hy = H[y]
  OBVIOUS
<1>5. hi \in Nat /\ ho \in Nat /\ hy \in Nat /\ H[r] \in Nat
  BY <1>2, <1>3, <1>4 DEF Heights
<1>6. H[r] = hy + 2 /\ Dir(a) = (IF a = 1 THEN ho - hi ELSE hi - ho) /\ H[r] = 1 + Larger(ho, hi)
  <2>1. Flat(r, C, B, H)
    BY <1>2
  <2>2. H[C[r][0]] \in Nat /\ H[C[r][1]] \in Nat
    BY <1>2, <1>3 DEF Heights, Tree, Parted
  <2>3. FlatWith(r, C, B, H, a, H[C[r][a]])
    BY <2>1, <2>2, FlatSides
  <2>. QED  BY <1>1, <1>4, <2>3 DEF FlatWith
<1>7. ho = hi + 1 /\ hi = hy
  <2>1. CASE a = 1
    BY <1>5, <1>6, <2>1 DEF Dir, Larger
  <2>2. CASE a = 0
    BY <1>5, <1>6, <2>2 DEF Dir, Larger
  <2>. QED  BY <2>1, <2>2
<1>8. PICK H2 : H2 = [H EXCEPT ![s] = hy + 1]
  OBVIOUS
<1>9. /\ Heights(H2) /\ H2[r] = H[r] /\ H2[s] = hy + 1 /\ H2[i] = hi /\ H2[o] = ho /\ H2[y] = hy
      /\ \A n \in Nodes : n # s /\ n # r => H2[n] = H[n]
  <2>1. s # Nil /\ s \in Nodes /\ Nil \in Nodes
    BY <1>3, NilApart DEF Tree, Typed
  <2>2. \A n \in Nodes : n # s => H2[n] = H[n]
    BY <1>8 DEF Heights
  <2>3. H2[s] = hy + 1
    BY <1>8, <2>1 DEF Heights
  <2>4. Heights(H2)
    BY <1>5, <1>8, <2>1, <2>2 DEF Heights
  <2>. QED  BY <1>2, <1>3, <1>4, <2>2, <2>3, <2>4
<1>10. Flat(s, C2, B2, H2) /\ Flat(r, C2, B2, H2)
  <2>1. C2[s][0] \in {i, y} /\ C2[s][1] \in {i, y} /\ C2[r][0] \in {o, s} /\ C2[r][1] \in {o, s}
    <3>1. CASE a = 1
      BY <1>2, <3>1
    <3>2. CASE a = 0
      BY <1>2, <3>2
    <3>. QED  BY <3>1, <3>2
  <2>2. H2[C2[s][0]] = hy /\ H2[C2[s][1]] = hy /\ H2[C2[r][0]] = hy + 1 /\ H2[C2[r][1]] = hy + 1
    BY <1>7, <1>9, <2>1
  <2>. QED  BY <1>5, <1>6, <1>9, <2>2 DEF Flat, Larger
<1>11. /\ \A n \in U : n # s /\ n # r /\ n # q => Flat(n, C2, B2, H2)
       /\ q # Nil /\ Flat(q, C, B, H) => FlatWith(q, C2, B2, H2, sd, H[s])
  BY <1>9, TurnedHeights
<1>12. q # Nil => q \in U /\ q # s
  <2>1. q # Nil => C[q][sd] = s /\ s # Nil
    BY NilApart DEF There, Tree, Typed
  <2>. QED  BY <2>1, OneParent
<1>. QED  BY <1>9, <1>10, <1>11, <1>12

\* After the rotation of a child that stands level, s leans to the side that the child was
\* on, the child to the other, and they are one higher than the child was.
LEMMA LevelHeights ==
  ASSUME NEW U, NEW rt, NEW C, NEW P, NEW D, Tree(U, rt, C, P, D),
         NEW q \in U \cup {Nil}, NEW sd \in 0 .. 1, NEW s \in U, NEW a \in 0 .. 1,
         There(rt, C, q, sd) = s, NEW r, r = C[s][a], r # Nil,
         NEW C2, NEW P2, Turned(rt, C, P, s, a, q, sd, C2, P2),
         NEW H, Heights(H), NEW B, NEW B2,
         \A n \in U : n # s => Flat(n, C, B, H),
         B[r] = 0, H[r] = H[C[s][1 - a]] + 2,
         B2[s] = Dir(a), B2[r] = -Dir(a), \A n \in U : n # s /\ n # r => B2[n] = B[n]
  PROVE  \E H2 : /\ Heights(H2) /\ H2[r] = H[r] + 1
                 /\ \A n \in U : n # q => Flat(n, C2, B2, H2)
                 /\ q # Nil => FlatWith(q, C2, B2, H2, sd, H[s])
<1>1. PICK i, o, y : i = C[r][1 - a] /\ o = C[r][a] /\ y = C[s][1 - a]
  OBVIOUS
<1>2. /\ r \in U /\ r # s /\ i # s /\ o # s /\ y # s /\ i # r /\ o # r /\ y # r
      /\ {i, o, y} \subseteq U \cup {Nil}
      /\ C2[s][a] = i /\ C2[s][1 - a] = y /\ C2[r][a] = o /\ C2[r][1 - a] = s
  <2>1. TurnedRoles(U, C, D, s, a, C2, TurnedD(C, D, s, a))
    BY TurnedTree
  <2>2. {s, r} \cap {i, o, y} = {}
    BY <1>1, <2>1 DEF TurnedRoles
  <2>3. /\ r \in U /\ r # s /\ {i, o, y} \subseteq U \cup {Nil}
        /\ C2[s][a] = i /\ C2[s][1 - a] = y /\ C2[r][a] = o /\ C2[r][1 - a] = s
    BY <1>1, <2>1 DEF TurnedRoles
  <2>. QED  BY <2>2, <2>3
<1>3. \A n \in U \cup {Nil} : n \in Nodes
  BY NilApart DEF Tree, Typed, Nodes
<1>4. PICK hi, ho, hy : hi = H[i] /\ ho = H[o] /\ hy = H[y]
  OBVIOUS
<1>5. hi \in Nat /\ ho \in Nat /\ hy \in Nat /\ H[r] \in Nat
  BY <1>2, <1>3, <1>4 DEF Heights
<1>6. H[r] = hy + 2 /\ 0 = (IF a = 1 THEN ho - hi ELSE hi - ho) /\ H[r] = 1 + Larger(ho, hi)
  <2>1. Flat(r, C, B, H)
    BY <1>2
  <2>2. H[C[r][0]] \in Nat /\ H[C[r][1]] \in Nat
    BY <1>2, <1>3 DEF Heights, Tree, Parted
  <2>3. FlatWith(r, C, B, H, a, H[C[r][a]])
    BY <2>1, <2>2, FlatSides
  <2>. QED  BY <1>1, <1>4, <2>3 DEF FlatWith
<1>7. ho = hy + 1 /\ hi = hy + 1
  <2>1. CASE a = 1
    BY <1>5, <1>6, <2>1 DEF Larger
  <2>2. CASE a = 0
    BY <1>5, <1>6, <2>2 DEF Larger
  <2>. QED  BY <2>1, <2>2
<1>8. PICK H2 : H2 = [H EXCEPT ![s] = hy + 2, ![r] = hy + 3]
  OBVIOUS
<1>9. /\ Heights(H2) /\ H2[r] = hy + 3 /\ H2[s] = hy + 2 /\ H2[i] = hi /\ H2[o] = ho /\ H2[y] = hy
      /\ \A n \in Nodes : n # s /\ n # r => H2[n] = H[n]
  <2>1. s # Nil /\ s \in Nodes /\ Nil \in Nodes /\ r \in Nodes
    BY <1>2, <1>3, NilApart DEF Tree, Typed
  <2>2. \A n \in Nodes : n # s /\ n # r => H2[n] = H[n]
    BY <1>8 DEF Heights
  <2>3. H2[s] = hy + 2 /\ H2[r] = hy + 3
    BY <1>2, <1>8, <2>1 DEF Heights
  <2>4. Heights(H2)
    BY <1>5, <1>8, <2>1, <2>2 DEF Heights
  <2>. QED  BY <1>2, <1>3, <1>4, <2>2, <2>3, <2>4
<1>10. Flat(s, C2, B2, H2) /\ Flat(r, C2, B2, H2)
  <2>1. CASE a = 1
    <3>1. H2[C2[s][1]] = hy + 1 /\ H2[C2[s][0]] = hy /\ H2[C2[r][1]] = hy + 1 /\ H2[C2[r][0]] = hy + 2
      BY <1>2, <1>7, <1>9, <2>1
    <3>. QED  BY <1>5, <1>9, <2>1, <3>1 DEF Flat, Larger, Dir
  <2>2. CASE a = 0
    <3>1. H2[C2[s][0]] = hy + 1 /\ H2[C2[s][1]] = hy /\ H2[C2[r][0]] = hy + 1 /\ H2[C2[r][1]] = hy + 2
      BY <1>2, <1>7, <1>9, <2>2
    <3>. QED  BY <1>5, <1>9, <2>2, <3>1 DEF Flat, Larger, Dir
  <2>. QED  BY <2>1, <2>2
<1>11. /\ \A n \in U : n # s /\ n # r /\ n # q => Flat(n, C2, B2, H2)
       /\ q # Nil /\ Flat(q, C, B, H) => FlatWith(q, C2, B2, H2, sd, H[s])
  BY <1>9, TurnedHeights
<1>12. q # Nil => q \in U /\ q # s
  <2>1. q # Nil => C[q][sd] = s /\ s # Nil
    BY NilApart DEF There, Tree, Typed
  <2>. QED  BY <2>1, OneParent
<1>13. H2[r] = H[r] + 1
  BY <1>5, <1>6, <1>9
<1>. QED  BY <1>9, <1>10, <1>11, <1>12, <1>13

\* A double rotation at s: first the child r turns inwards, and its inner child p
\* becomes the child of s.
Bends(U, rt, C, P, D, q, sd, s, a, r, p, C1, P1) ==
  /\ Tree(U, rt, C, P, D) /\ Turned(rt, C, P, r, 1 - a, s, a, C1, P1)
  /\ q \in U \cup {Nil} /\ sd \in 0 .. 1 /\ s \in U /\ a \in 0 .. 1
  /\ There(rt, C, q, sd) = s /\ r = C[s][a] /\ r # Nil /\ p = C[r][1 - a] /\ p # Nil

Bent(U, rt, C, D, q, sd, s, a, r, p, C1, P1) ==
  /\ r \in U /\ p \in U /\ 1 - a \in 0 .. 1 /\ There(rt, C, s, a) = r
  /\ Tree(U, rt, C1, P1, TurnedD(C, D, r, 1 - a))
  /\ There(rt, C1, q, sd) = s /\ C1[s][a] = p /\ C1[s][1 - a] = C[s][1 - a]
  /\ C1[r][1 - a] = C[p][a] /\ C1[r][a] = C[r][a]
  /\ C1[p][a] = r /\ C1[p][1 - a] = C[p][1 - a]
  /\ s # r /\ s # p /\ r # p /\ q # r /\ q # p /\ q # s
  /\ C[s][1 - a] # r /\ C[r][a] # p

\* The first half of a double rotation, and where the second half finds its nodes.
LEMMA DoubleTree ==
  ASSUME NEW U, NEW rt, NEW C, NEW P, NEW D, NEW q, NEW sd, NEW s, NEW a, NEW r, NEW p,
         NEW C1, NEW P1, Bends(U, rt, C, P, D, q, sd, s, a, r, p, C1, P1)
  PROVE  Bent(U, rt, C, D, q, sd, s, a, r, p, C1, P1)
<1>a. /\ Tree(U, rt, C, P, D) /\ Turned(rt, C, P, r, 1 - a, s, a, C1, P1)
      /\ q \in U \cup {Nil} /\ sd \in 0 .. 1 /\ s \in U /\ a \in 0 .. 1
      /\ There(rt, C, q, sd) = s /\ r = C[s][a] /\ r # Nil /\ p = C[r][1 - a] /\ p # Nil
  BY DEF Bends
<1>1. /\ 1 - a \in 0 .. 1 /\ 1 - a # a /\ 1 - (1 - a) = a /\ (a = 0 \/ a = 1)
      /\ \A n \in U : n \in AVLAddr /\ n # Nil
  BY <1>a, NilApart DEF Tree, Typed
<1>2. r \in U /\ p \in U /\ r # s /\ p # r
  BY <1>a, <1>1, OneParent
<1>3. There(rt, C, s, a) = r
  BY <1>a, <1>1 DEF There
<1>4. r \in D[s] /\ p \in D[r] /\ p # s /\ s \notin D[r] /\ p \in D[s]
  <2>1. r \in D[s] /\ p \in D[r] /\ s \notin D[r]
    BY <1>a, <1>1, <1>2 DEF Tree, Parted
  <2>2. p \in D[s]
    BY <1>a, <2>1 DEF Tree, Nested
  <2>. QED  BY <1>a, <2>1, <2>2
<1>5. q # Nil => q \in U /\ q \notin D[s]
  <2>1. sd = 0 \/ sd = 1
    BY <1>a
  <2>. QED  BY <1>a, <2>1 DEF There, Tree, Parted
<1>6. q # s /\ q # r /\ q # p
  <2>1. s \in D[s]
    BY <1>a DEF Tree, Parted
  <2>. QED  BY <1>a, <1>1, <1>2, <1>4, <1>5, <2>1
<1>7. RootWith(rt, s, C[r][1 - a]) = rt
  BY <1>a, <1>1 DEF RootWith
<1>8. C[r][1 - a] # Nil
  BY <1>a
<1>9. Tree(U, rt, C1, P1, TurnedD(C, D, r, 1 - a))
  <2>1. /\ Tree(U, RootWith(rt, s, C[r][1 - a]), C1, P1, TurnedD(C, D, r, 1 - a))
        /\ TurnedRoles(U, C, D, r, 1 - a, C1, TurnedD(C, D, r, 1 - a))
    BY <1>1, <1>2, <1>3, <1>8, <1>a, TurnedTree
  <2>. QED  BY <1>a, <1>7, <2>1
<1>10. \A n \in AVLAddr : \A d \in 0 .. 1 :
          C1[n][d] = IF n = r /\ d = 1 - a THEN C[p][1 - (1 - a)]
                     ELSE IF n = p /\ d = 1 - (1 - a) THEN r
                     ELSE IF n = s /\ d = a THEN p ELSE C[n][d]
  BY <1>a DEF Turned
<1>11. \A n \in U : \A d \in 0 .. 1 :
          C1[n][d] = IF n = r /\ d = 1 - a THEN C[p][a]
                     ELSE IF n = p /\ d = a THEN r
                     ELSE IF n = s /\ d = a THEN p ELSE C[n][d]
  BY <1>a, <1>1, <1>10
<1>12. There(rt, C1, q, sd) = s
  <2>1. CASE q = Nil
    BY <1>a, <2>1 DEF There
  <2>2. CASE q # Nil
    BY <1>a, <1>5, <1>6, <1>11, <2>2 DEF There
  <2>. QED  BY <1>a, <2>1, <2>2
<1>13. C[s][1 - a] # r /\ C[r][a] # p
  BY <1>a, <1>1, <1>2, OneParent
<1>. QED  BY <1>a, <1>1, <1>2, <1>3, <1>4, <1>6, <1>9, <1>11, <1>12, <1>13 DEF Bent

\* After a double rotation p is level, with s and r below it, and as high as r was.
LEMMA DoubleHeights ==
  ASSUME NEW U, NEW rt, NEW C, NEW P, NEW D, NEW q, NEW sd, NEW s, NEW a, NEW r, NEW p,
         NEW C1, NEW P1, Bends(U, rt, C, P, D, q, sd, s, a, r, p, C1, P1),
         NEW C2, NEW P2, Turned(rt, C1, P1, s, a, q, sd, C2, P2),
         NEW H, Heights(H), NEW B, NEW B2,
         \A n \in U : n # s => Flat(n, C, B, H), B[p] \in -1 .. 1,
         B[r] = -Dir(a), H[r] = H[C[s][1 - a]] + 2,
         B2[s] = IF B[p] = Dir(a) THEN -Dir(a) ELSE 0,
         B2[r] = IF B[p] = -Dir(a) THEN Dir(a) ELSE 0,
         B2[p] = 0,
         \A n \in U : n # s /\ n # r /\ n # p => B2[n] = B[n]
  PROVE  \E H2 : /\ Heights(H2) /\ H2[p] = H[r]
                 /\ \A n \in U : n # q => Flat(n, C2, B2, H2)
                 /\ q # Nil => FlatWith(q, C2, B2, H2, sd, H[s])
<1>a. Bends(U, rt, C, P, D, q, sd, s, a, r, p, C1, P1)
  OBVIOUS
<1>b. /\ Tree(U, rt, C, P, D) /\ Turned(rt, C, P, r, 1 - a, s, a, C1, P1)
      /\ q \in U \cup {Nil} /\ sd \in 0 .. 1 /\ s \in U /\ a \in 0 .. 1
      /\ There(rt, C, q, sd) = s /\ r = C[s][a] /\ r # Nil /\ p = C[r][1 - a] /\ p # Nil
  BY DEF Bends
<1>1. PICK D1 : D1 = TurnedD(C, D, r, 1 - a)
  OBVIOUS
<1>2. /\ r \in U /\ p \in U /\ 1 - a \in 0 .. 1 /\ There(rt, C, s, a) = r
      /\ Tree(U, rt, C1, P1, D1)
      /\ There(rt, C1, q, sd) = s /\ C1[s][a] = p /\ C1[s][1 - a] = C[s][1 - a]
      /\ C1[r][1 - a] = C[p][a] /\ C1[r][a] = C[r][a]
      /\ C1[p][a] = r /\ C1[p][1 - a] = C[p][1 - a]
      /\ s # r /\ s # p /\ r # p /\ q # r /\ q # p /\ q # s
      /\ C[s][1 - a] # r /\ C[r][a] # p
  <2>1. Bent(U, rt, C, D, q, sd, s, a, r, p, C1, P1)
    BY <1>a, DoubleTree
  <2>. QED  BY <1>1, <2>1, Zenon DEF Bent
<1>3. PICK i, j, o, y : i = C[p][a] /\ j = C[p][1 - a] /\ o = C[r][a] /\ y = C[s][1 - a]
  BY <1>b
<1>4. \A n \in U \cup {Nil} : n \in Nodes
  BY <1>b, NilApart DEF Tree, Typed, Nodes
<1>5. {i, j, o, y} \subseteq U \cup {Nil} /\ (a = 0 \/ a = 1)
  <2>1. a = 0 \/ a = 1
    BY <1>b
  <2>2. \A n \in U : C[n][a] \in U \cup {Nil} /\ C[n][1 - a] \in U \cup {Nil}
    BY <1>b, <2>1 DEF Tree, Parted
  <2>3. r \in U /\ p \in U /\ s \in U
    BY <1>b, <1>2
  <2>4. i \in U \cup {Nil} /\ j \in U \cup {Nil} /\ o \in U \cup {Nil} /\ y \in U \cup {Nil}
    BY <1>3, <2>2, <2>3
  <2>. QED  BY <2>1, <2>4
<1>6. {s, r, p} \cap {i, j, o, y} = {}
  <2>1. \A n \in U : n \in D[n]
    BY <1>b DEF Tree, Parted
  <2>2. Part(s, U, C, D, a) /\ Part(r, U, C, D, a) /\ Part(p, U, C, D, a)
    BY <1>b, <1>2, PartSides DEF Tree
  <2>3. /\ D[s] = {s} \cup D[r] \cup D[y] /\ s \notin D[r] /\ s \notin D[y] /\ D[r] \cap D[y] = {}
        /\ D[r] = {r} \cup D[o] \cup D[p] /\ r \notin D[o] /\ r \notin D[p] /\ D[o] \cap D[p] = {}
        /\ D[p] = {p} \cup D[i] \cup D[j] /\ p \notin D[i] /\ p \notin D[j]
    BY <1>b, <1>3, <2>2 DEF Part
  <2>4. \A n \in {i, j, o, y} : n # Nil => n \in D[n]
    BY <1>b, <1>5, <2>1
  <2>5. s # Nil /\ r # Nil /\ p # Nil
    BY <1>b, NilApart DEF Tree, Typed
  <2>6. s \notin {i, j, o, y}
    BY <1>b, <2>3, <2>4, <2>5
  <2>7. r \notin {i, j, o, y}
    BY <1>b, <1>2, <1>3, <2>1, <2>3, <2>4, <2>5
  <2>8. p \notin {i, j, o, y}
    BY <1>b, <1>2, <1>3, <2>1, <2>3, <2>4, <2>5
  <2>. QED  BY <1>b, <2>6, <2>7, <2>8
<1>7. PICK hi, hj, ho, hp, hy : hi = H[i] /\ hj = H[j] /\ ho = H[o] /\ hp = H[p] /\ hy = H[y]
  BY <1>b
<1>8. hi \in Nat /\ hj \in Nat /\ ho \in Nat /\ hp \in Nat /\ hy \in Nat /\ H[r] \in Nat
  BY <1>b, <1>2, <1>4, <1>5, <1>7 DEF Heights
<1>9. \A n \in U : H[C[n][0]] \in Nat /\ H[C[n][1]] \in Nat
  BY <1>b, <1>4 DEF Heights, Tree, Parted
<1>10. /\ H[r] = hy + 2 /\ -Dir(a) = (IF a = 1 THEN ho - hp ELSE hp - ho) /\ H[r] = 1 + Larger(ho, hp)
  <2>1. FlatWith(r, C, B, H, a, H[C[r][a]])
    BY <1>b, <1>2, <1>9, FlatSides
  <2>. QED  BY <1>b, <1>3, <1>7, <2>1 DEF FlatWith
<1>11. B[p] = (IF a = 1 THEN hi - hj ELSE hj - hi) /\ hp = 1 + Larger(hi, hj)
  <2>1. FlatWith(p, C, B, H, a, H[C[p][a]])
    BY <1>b, <1>2, <1>9, FlatSides
  <2>. QED  BY <1>b, <1>3, <1>7, <2>1 DEF FlatWith
<1>12. hp = hy + 1 /\ ho = hy
  <2>1. CASE a = 1
    BY <1>b, <1>8, <1>10, <2>1 DEF Dir, Larger
  <2>2. CASE a = 0
    BY <1>b, <1>8, <1>10, <2>2 DEF Dir, Larger
  <2>. QED  BY <1>b, <1>5, <2>1, <2>2
<1>13. PICK H1 : H1 = [n \in Nodes |-> IF n = r THEN hy + 1 ELSE IF n = p THEN hy + 2 ELSE H[n]]
  BY <1>b
<1>14. PICK H2 : H2 = [n \in Nodes |-> IF n = s THEN hy + 1 ELSE H1[n]]
  BY <1>b
<1>15. /\ Heights(H1) /\ H1[r] = hy + 1 /\ H1[p] = hy + 2
       /\ \A n \in Nodes : n # r /\ n # p => H1[n] = H[n]
  <2>1. r \in Nodes /\ p \in Nodes /\ Nil \in Nodes
    BY <1>b, <1>2, <1>4
  <2>2. \A n \in Nodes : n # r /\ n # p => H1[n] = H[n]
    BY <1>13 DEF Heights
  <2>3. H1[r] = hy + 1 /\ H1[p] = hy + 2
    <3>1. H \in [Nodes -> Nat] /\ r # p
      BY <1>2 DEF Heights
    <3>. QED  BY <1>13, <2>1, <3>1
  <2>4. Heights(H1)
    <3>1. r # Nil /\ p # Nil
      BY <1>b
    <3>2. H \in [Nodes -> Nat] /\ H[Nil] = 0
      BY DEF Heights
    <3>3. \A n \in Nodes : H1[n] \in Nat
      BY <1>8, <1>13, <3>2
    <3>. QED  BY <1>13, <2>1, <2>2, <3>1, <3>2, <3>3 DEF Heights
  <2>. QED  BY <1>b, <2>2, <2>3, <2>4
<1>16. /\ Heights(H2) /\ H2[s] = hy + 1 /\ \A n \in Nodes : n # s => H2[n] = H1[n]
  <2>1. s \in Nodes /\ s # Nil /\ Nil \in Nodes
    BY <1>b, <1>4, NilApart DEF Tree, Typed
  <2>2. \A n \in Nodes : n # s => H2[n] = H1[n]
    BY <1>b, <1>14, <1>15 DEF Heights
  <2>3. H2[s] = hy + 1
    BY <1>b, <1>14, <1>15, <2>1 DEF Heights
  <2>4. Heights(H2)
    BY <1>b, <1>8, <1>14, <1>15, <2>1, <2>2 DEF Heights
  <2>. QED  BY <1>b, <2>2, <2>3, <2>4
<1>17. /\ H1[i] = hi /\ H1[j] = hj /\ H1[o] = ho /\ H1[y] = hy /\ H1[s] = H[s]
       /\ H2[i] = hi /\ H2[j] = hj /\ H2[o] = ho /\ H2[y] = hy /\ H2[r] = hy + 1 /\ H2[p] = hy + 2
  <2>1. i \in Nodes /\ j \in Nodes /\ o \in Nodes /\ y \in Nodes /\ s \in Nodes /\ r \in Nodes /\ p \in Nodes
    BY <1>b, <1>2, <1>4, <1>5
  <2>2. H1[i] = hi /\ H1[j] = hj /\ H1[o] = ho /\ H1[y] = hy /\ H1[s] = H[s]
    BY <1>b, <1>2, <1>6, <1>7, <1>15, <2>1
  <2>. QED  BY <1>b, <1>2, <1>6, <1>15, <1>16, <2>1, <2>2
<1>18. PICK B1 : B1 = [n \in U |-> IF n = s THEN B[s] ELSE B2[n]]
  BY <1>b
<1>19. /\ \A n \in U : n # r /\ n # p => B1[n] = B[n]
       /\ \A n \in U : n # s => B2[n] = B1[n]
       /\ B1[r] = B2[r]
  BY <1>b, <1>2, <1>18
<1>20. /\ \A n \in U : n # r /\ n # p /\ n # s /\ Flat(n, C, B, H) => Flat(n, C1, B1, H1)
  <2>1. C[r][1 - a] # Nil /\ s \in U \cup {Nil}
    BY <1>b
  <2>2. /\ \A n \in Nodes : n # r /\ n # C[r][1 - a] => H1[n] = H[n]
        /\ \A n \in U : n # r /\ n # C[r][1 - a] => B1[n] = B[n]
    BY <1>b, <1>15, <1>19
  <2>3. r \in U /\ 1 - a \in 0 .. 1 /\ There(rt, C, s, a) = r
        /\ Heights(H) /\ Heights(H1) /\ Turned(rt, C, P, r, 1 - a, s, a, C1, P1)
    BY <1>b, <1>2, <1>15
  <2>4. /\ \A n \in U : n # r /\ n # C[r][1 - a] /\ n # s /\ Flat(n, C, B, H) => Flat(n, C1, B1, H1)
    <3>1. Tree(U, rt, C, P, D) /\ s \in U \cup {Nil} /\ a \in 0 .. 1
      BY <1>b
    <3>2. PICK d : d = 1 - a
      OBVIOUS
    <3>3. /\ C[r][d] # Nil /\ d \in 0 .. 1 /\ Turned(rt, C, P, r, d, s, a, C1, P1)
          /\ \A n \in Nodes : n # r /\ n # C[r][d] => H1[n] = H[n]
          /\ \A n \in U : n # r /\ n # C[r][d] => B1[n] = B[n]
      BY <2>1, <2>2, <2>3, <3>2
    <3>4. \A n \in U : n # r /\ n # C[r][d] /\ n # s /\ Flat(n, C, B, H) => Flat(n, C1, B1, H1)
      BY <2>1, <2>3, <3>1, <3>3, TurnedHeights, SMTT(60)
    <3>. QED  BY <3>2, <3>4
  <2>5. C[r][1 - a] = p
    BY <1>b
  <2>. QED  BY <2>4, <2>5
<1>21. Flat(r, C1, B1, H1)
  <2>1. CASE a = 1
    <3>1. H1[C1[r][0]] = hi /\ H1[C1[r][1]] = hy
      <4>1. C1[r][0] = i /\ C1[r][1] = o
        BY <1>2, <1>3, <2>1
      <4>. QED  BY <1>12, <1>17, <4>1
    <3>. QED  BY <1>8, <1>10, <1>11, <1>12, <1>15, <1>19, <2>1, <3>1 DEF Flat, Dir, Larger
  <2>2. CASE a = 0
    <3>1. H1[C1[r][1]] = hi /\ H1[C1[r][0]] = hy
      <4>1. C1[r][1] = i /\ C1[r][0] = o
        BY <1>2, <1>3, <2>2
      <4>. QED  BY <1>12, <1>17, <4>1
    <3>. QED  BY <1>8, <1>10, <1>11, <1>12, <1>15, <1>19, <2>2, <3>1 DEF Flat, Dir, Larger
  <2>. QED  BY <1>b, <1>5, <2>1, <2>2
<1>22. /\ \A n \in U : n # s /\ n # p /\ n # q /\ Flat(n, C1, B1, H1) => Flat(n, C2, B2, H2)
       /\ q # Nil /\ Flat(q, C1, B1, H1) => FlatWith(q, C2, B2, H2, sd, H1[s])
  <2>1. C1[s][a] # Nil
    BY <1>b, <1>2
  <2>2. /\ \A n \in Nodes : n # s /\ n # C1[s][a] => H2[n] = H1[n]
        /\ \A n \in U : n # s /\ n # C1[s][a] => B2[n] = B1[n]
    BY <1>b, <1>16, <1>19
  <2>3. /\ \A n \in U : n # s /\ n # C1[s][a] /\ n # q /\ Flat(n, C1, B1, H1) => Flat(n, C2, B2, H2)
        /\ q # Nil /\ Flat(q, C1, B1, H1) => FlatWith(q, C2, B2, H2, sd, H1[s])
    <3>1. /\ Tree(U, rt, C1, P1, D1) /\ There(rt, C1, q, sd) = s /\ Heights(H1) /\ Heights(H2)
          /\ Turned(rt, C1, P1, s, a, q, sd, C2, P2)
      BY <1>b, <1>2, <1>15, <1>16
    <3>. QED  BY <1>b, <2>1, <2>2, <3>1, TurnedHeights, SMTT(90)
  <2>. QED  BY <1>b, <1>2, <2>3
<1>23. C2[s][a] = j /\ C2[s][1 - a] = y /\ C2[p][1 - a] = s /\ C2[p][a] = r
  <2>1. TurnedRoles(U, C1, D1, s, a, C2, TurnedD(C1, D1, s, a))
    <3>1. C1[s][a] # Nil
      BY <1>b, <1>2
    <3>. QED  BY <1>b, <1>2, <3>1, TurnedTree
  <2>. QED  BY <1>b, <1>2, <1>3, <2>1 DEF TurnedRoles
<1>24. Flat(s, C2, B2, H2)
  <2>1. CASE a = 1
    <3>1. H2[C2[s][1]] = hj /\ H2[C2[s][0]] = hy
      BY <1>b, <1>17, <1>23, <2>1
    <3>. QED  BY <1>b, <1>8, <1>10, <1>11, <1>12, <1>16, <2>1, <3>1 DEF Flat, Dir, Larger
  <2>2. CASE a = 0
    <3>1. H2[C2[s][0]] = hj /\ H2[C2[s][1]] = hy
      BY <1>b, <1>17, <1>23, <2>2
    <3>. QED  BY <1>b, <1>8, <1>10, <1>11, <1>12, <1>16, <2>2, <3>1 DEF Flat, Dir, Larger
  <2>. QED  BY <1>b, <1>5, <2>1, <2>2
<1>25. Flat(p, C2, B2, H2)
  <2>1. H2[C2[p][0]] = hy + 1 /\ H2[C2[p][1]] = hy + 1
    <3>1. CASE a = 1
      BY <1>b, <1>16, <1>17, <1>23, <3>1, SMTT(60)
    <3>2. CASE a = 0
      BY <1>b, <1>16, <1>17, <1>23, <3>2, SMTT(60)
    <3>. QED  BY <1>b, <1>5, <3>1, <3>2
  <2>. QED  BY <1>8, <1>17, <2>1 DEF Flat, Larger
<1>26. \A n \in U : n # q => Flat(n, C2, B2, H2)
  BY <1>b, <1>2, <1>20, <1>21, <1>22, <1>24, <1>25
<1>27. q # Nil => FlatWith(q, C2, B2, H2, sd, H[s])
  BY <1>b, <1>2, <1>17, <1>20, <1>22
<1>28. H2[p] = H[r]
  BY <1>b, <1>8, <1>10, <1>17
<1>. QED  BY <1>b, <1>16, <1>26, <1>27, <1>28

-----------------------------------------------------------------------------
(* The way down from the root to where a key is, or would be.               *)

\* What is above a node e is above the place that e is at, or is that place.
LEMMA UpOf ==
  ASSUME NEW U, NEW rt, NEW C, NEW P, NEW D, Tree(U, rt, C, P, D),
         NEW q \in U \cup {Nil}, NEW sd \in 0 .. 1, NEW e \in U, There(rt, C, q, sd) = e
  PROVE  /\ \A n \in U : e \in D[n] /\ e # n => q # Nil /\ q \in D[n]
         /\ \A n \in U : \A d \in 0 .. 1 : e \in D[C[n][d]] => q \in D[C[n][d]] \/ (n = q /\ d = sd)
         /\ q # Nil => /\ e \in D[q] /\ D[e] \subseteq D[q] /\ e # q
                       /\ D[q] = {q} \cup D[e] \cup D[C[q][1 - sd]] /\ q \notin D[e]
         /\ q = Nil => D[e] = U
<1>1. /\ e \in AVLAddr /\ e # Nil /\ Nil \notin U
      /\ \A n \in U : \A d \in 0 .. 1 : C[n][d] \in U \cup {Nil}
  <2>1. \A d \in 0 .. 1 : d = 0 \/ d = 1
    OBVIOUS
  <2>. QED  BY <2>1, NilApart DEF Tree, Typed, Parted
<1>2. P[e] = q
  <2>1. CASE q = Nil
    BY <1>1, <2>1 DEF There, Tree, Parented
  <2>2. CASE q # Nil
    BY <1>1, <2>2 DEF There, Tree, Parented
  <2>. QED  BY <2>1, <2>2
<1>3. ASSUME NEW n \in U, e \in D[n], e # n
      PROVE  q # Nil /\ q \in D[n]
  <2>1. P[e] \in D[n]
    BY <1>3 DEF Tree, Nested
  <2>2. D[n] \subseteq U
    BY DEF Tree, Typed, Nodes
  <2>. QED  BY <1>1, <1>2, <2>1, <2>2
<1>4. ASSUME NEW n \in U, NEW d \in 0 .. 1, e \in D[C[n][d]]
      PROVE  q \in D[C[n][d]] \/ (n = q /\ d = sd)
  <2>1. C[n][d] \in U
    BY <1>1, <1>4 DEF Tree, Typed
  <2>2. CASE e # C[n][d]
    BY <1>3, <1>4, <2>1, <2>2
  <2>3. CASE e = C[n][d]
    <3>1. e # rt
      BY <1>1, <2>3, OneParent
    <3>2. q \in U /\ C[q][sd] = e
      BY <3>1 DEF There
    <3>. QED  BY <1>1, <2>3, <3>2, OneParent
  <2>. QED  BY <2>2, <2>3
<1>5. q # Nil => /\ e \in D[q] /\ D[e] \subseteq D[q] /\ e # q
                 /\ D[q] = {q} \cup D[e] \cup D[C[q][1 - sd]] /\ q \notin D[e]
  <2>1. ASSUME q # Nil
        PROVE  Part(q, U, C, D, sd) /\ C[q][sd] = e /\ e \in D[e]
    BY <2>1, PartSides DEF There, Tree, Parted
  <2>. QED  BY <2>1 DEF Part
<1>6. q = Nil => D[e] = U
  BY DEF There, Tree, Typed
<1>. QED  BY <1>3, <1>4, <1>5, <1>6

\* The place of k, which e is at, is on the side sd of q or below it there: nodes
\* above have k on that side, and what is not below q or above it is on one side of k.
Searching(U, C, K, D, q, sd, e, k) ==
  /\ \A m \in U : K[m] = k => m \in D[e]
  /\ \A n \in U : \A d \in 0 .. 1 :
       q \in D[C[n][d]] \/ (n = q /\ d = sd) => Beside(d, k, K[n])
  /\ \A n \in U : q \in D[n] => \A m \in U : m \notin D[n] => (K[m] < k <=> K[m] < K[n])
  /\ \A n \in U : q \notin D[n] /\ n \notin D[e] => \A m \in D[n] : k < K[m] <=> k < K[n]

\* A search begins at the root, with all nodes below it.
LEMMA SearchBegins ==
  ASSUME NEW U, NEW rt, NEW C, NEW P, NEW K, NEW D, Tree(U, rt, C, P, D), NEW k
  PROVE  Searching(U, C, K, D, Nil, 0, rt, k)
<1>1. Nil \notin U /\ D[rt] = U /\ \A n \in Nodes : Nil \notin D[n]
  BY NilApart DEF Tree, Typed
<1>2. \A n \in U : n \in Nodes /\ \A d \in 0 .. 1 : C[n][d] \in Nodes
  BY DEF Tree, Typed, Nodes
<1>. QED  BY <1>1, <1>2 DEF Searching

\* A search goes down to a child, and the key is still below it if it is anywhere.
LEMMA SearchDown ==
  ASSUME NEW U, NEW rt, NEW C, NEW P, NEW K, NEW D, Tree(U, rt, C, P, D), Ordered(U, C, K, D),
         NEW q \in U \cup {Nil}, NEW sd \in 0 .. 1, NEW e \in U, There(rt, C, q, sd) = e,
         NEW k \in AVLKeys, Searching(U, C, K, D, q, sd, e, k), NEW a \in 0 .. 1,
         Beside(a, k, K[e])
  PROVE  Searching(U, C, K, D, e, a, C[e][a], k)
<1>1. /\ \A n \in U : n \in D[n] /\ D[n] \subseteq U /\ \A m \in D[n] : D[m] \subseteq D[n]
      /\ Part(e, U, C, D, a) /\ D[Nil] = {}
      /\ \A n \in U : \A d \in 0 .. 1 : C[n][d] \in U \cup {Nil}
  <2>1. Part(e, U, C, D, a)
    BY PartSides DEF Tree
  <2>2. \A d \in 0 .. 1 : d = 0 \/ d = 1
    OBVIOUS
  <2>3. D[Nil] = {} /\ \A n \in U : D[n] \subseteq U
    BY DEF Tree, Typed, Nodes
  <2>. QED  BY <2>1, <2>2, <2>3 DEF Tree, Parted, Nested
<1>2. k \in Int /\ \A n \in U : K[n] \in Int
  BY KeysAreIntegers, AVLAssumption DEF Ordered
<1>3. D[e] = {e} \cup D[C[e][a]] \cup D[C[e][1 - a]]
  BY <1>1 DEF Part
<1>4. /\ \A m \in D[C[e][a]] : Beside(a, K[m], K[e])
      /\ \A m \in D[C[e][1 - a]] : Beside(1 - a, K[m], K[e])
  BY SortedSides DEF Ordered
<1>5. \A m \in D[e] : m \in U
  BY <1>1
<1>6. 1 - a \in 0 .. 1 /\ 1 - (1 - a) = a /\ (a = 0 \/ a = 1)
  OBVIOUS
<1>7. \A m \in D[C[e][1 - a]] : (k < K[m] <=> a = 0) /\ (K[m] < k <=> a = 1)
  <2>1. CASE a = 0
    BY <1>2, <1>3, <1>4, <1>5, <2>1 DEF Beside
  <2>2. CASE a = 1
    BY <1>2, <1>3, <1>4, <1>5, <2>2 DEF Beside
  <2>. QED  BY <1>6, <2>1, <2>2
<1>8. ~(K[e] = k)
  BY <1>2, <1>6 DEF Beside
<1>9. ASSUME NEW m \in U, K[m] = k
      PROVE  m \in D[C[e][a]]
  <2>1. m \in D[e]
    BY <1>9 DEF Searching
  <2>2. m \notin D[C[e][1 - a]]
    BY <1>2, <1>6, <1>7, <1>9
  <2>. QED  BY <1>3, <1>8, <1>9, <2>1, <2>2
<1>10. ASSUME NEW n \in U, NEW d \in 0 .. 1, e \in D[C[n][d]] \/ (n = e /\ d = a)
       PROVE  Beside(d, k, K[n])
  <2>1. CASE n = e /\ d = a
    BY <2>1
  <2>2. CASE e \in D[C[n][d]]
    <3>1. q \in D[C[n][d]] \/ (n = q /\ d = sd)
      BY <2>2, UpOf
    <3>. QED  BY <3>1 DEF Searching
  <2>. QED  BY <1>10, <2>1, <2>2
<1>11. ASSUME NEW m \in U, m \notin D[e]
       PROVE  K[m] < k <=> K[m] < K[e]
  <2>1. /\ q # Nil /\ q \in U /\ e \in D[q] /\ q \notin D[e]
        /\ D[q] = {q} \cup D[e] \cup D[C[q][1 - sd]]
    BY <1>11, UpOf
  <2>2. Beside(sd, k, K[q])
    BY <2>1 DEF Searching
  <2>3. C[q][sd] = e
    BY <2>1 DEF There
  <2>4. /\ \A x \in D[C[q][sd]] : Beside(sd, K[x], K[q])
        /\ \A x \in D[C[q][1 - sd]] : Beside(1 - sd, K[x], K[q])
    BY <2>1, SortedSides DEF Ordered
  <2>5. Beside(sd, K[e], K[q])
    BY <1>1, <2>3, <2>4
  <2>6. sd = 0 \/ sd = 1
    OBVIOUS
  <2>7. CASE m = q
    BY <1>2, <2>2, <2>5, <2>6, <2>7 DEF Beside
  <2>8. CASE m \in D[C[q][1 - sd]]
    <3>1. Beside(1 - sd, K[m], K[q])
      BY <2>4, <2>8
    <3>. QED  BY <1>2, <2>1, <2>2, <2>5, <2>6, <3>1 DEF Beside
  <2>9. CASE m \notin D[q]
    <3>1. q \in D[q]
      BY <1>1, <2>1
    <3>2. K[m] < k <=> K[m] < K[q]
      BY <2>1, <2>9, <3>1 DEF Searching
    <3>3. K[m] < K[e] <=> K[m] < K[q]
      BY <2>1, <2>9 DEF Ordered, Convex
    <3>. QED  BY <3>2, <3>3
  <2>. QED  BY <1>11, <2>1, <2>7, <2>8, <2>9
<1>12. ASSUME NEW n \in U, e \in D[n], NEW m \in U, m \notin D[n]
       PROVE  K[m] < k <=> K[m] < K[n]
  <2>1. CASE n = e
    BY <1>11, <1>12, <2>1
  <2>2. CASE n # e
    <3>1. q \in D[n]
      BY <1>12, <2>2, UpOf
    <3>. QED  BY <1>12, <3>1 DEF Searching
  <2>. QED  BY <2>1, <2>2
<1>13. ASSUME NEW n \in U, e \notin D[n], n \notin D[C[e][a]], NEW m \in D[n]
       PROVE  k < K[m] <=> k < K[n]
  <2>1. CASE n \in D[e]
    <3>1. n \in D[C[e][1 - a]]
      BY <1>1, <1>3, <1>13, <2>1
    <3>2. C[e][1 - a] \in U
      BY <1>1, <1>6, <3>1
    <3>3. m \in D[C[e][1 - a]]
      BY <1>1, <1>13, <3>1, <3>2
    <3>. QED  BY <1>7, <3>1, <3>3
  <2>2. CASE n \notin D[e]
    <3>1. q \notin D[n]
      <4>1. q = Nil => q \notin D[n]
        BY <1>1, NilApart DEF Tree, Typed
      <4>2. q # Nil /\ q \in D[n] => e \in D[n]
        BY <1>1, UpOf
      <4>. QED  BY <1>13, <4>1, <4>2
    <3>. QED  BY <1>13, <2>2, <3>1 DEF Searching
  <2>. QED  BY <2>1, <2>2
<1>. QED  BY <1>9, <1>10, <1>12, <1>13 DEF Searching

\* Where a search ends without a node, its key fits.
LEMMA SearchFits ==
  ASSUME NEW U, NEW C, NEW K, NEW D, NEW q, NEW sd, NEW k, D[Nil] = {},
         Searching(U, C, K, D, q, sd, Nil, k)
  PROVE  Fits(U, C, K, D, q, sd, k)
BY DEF Searching, Fits

-----------------------------------------------------------------------------
(* Ways from the root: the frames of a path are at nodes one below the      *)
(* other, and its end is at the last one's child.                           *)

Steps == [of : AVLAddr, side : 0 .. 1]

Lowest(path) == IF path = <<>> THEN Nil ELSE path[Len(path)].of
Turn(path) == IF path = <<>> THEN 0 ELSE path[Len(path)].side
End(rt, C, path) == There(rt, C, Lowest(path), Turn(path))

Way(U, rt, C, D, path) ==
  /\ path \in Seq(Steps)
  /\ \A i \in 1 .. Len(path) : path[i].of \in U
  /\ path # <<>> => path[1].of = rt
  /\ \A i \in 1 .. Len(path) - 1 : C[path[i].of][path[i].side] = path[i + 1].of
  /\ \A i, j \in 1 .. Len(path) : i < j => path[j].of \in D[C[path[i].of][path[i].side]]

\* The lowest frame of a way has the place that the way ends at.
LEMMA WayEnds ==
  ASSUME NEW U, NEW rt, NEW C, NEW P, NEW D, Tree(U, rt, C, P, D),
         NEW path, Way(U, rt, C, D, path)
  PROVE  /\ path \in Seq(Steps) /\ Len(path) \in Nat
         /\ Lowest(path) \in U \cup {Nil} /\ Turn(path) \in 0 .. 1
         /\ End(rt, C, path) \in U \cup {Nil}
         /\ path = <<>> <=> Lowest(path) = Nil
<1>1. path \in Seq(Steps) /\ Len(path) \in Nat
  BY DEF Way
<1>2. rt \in U \cup {Nil} /\ Nil \notin U
  BY NilApart DEF Tree, Typed
<1>3. CASE path = <<>>
  BY <1>1, <1>2, <1>3 DEF Lowest, Turn, End, There
<1>4. CASE path # <<>>
  <2>1. Len(path) \in 1 .. Len(path)
    BY <1>1, <1>4
  <2>2. path[Len(path)] \in Steps /\ path[Len(path)].of \in U
    BY <1>1, <2>1 DEF Way
  <2>3. path[Len(path)].side = 0 \/ path[Len(path)].side = 1
    BY <2>2 DEF Steps
  <2>4. C[path[Len(path)].of][path[Len(path)].side] \in U \cup {Nil}
    BY <2>2, <2>3 DEF Tree, Parted
  <2>. QED  BY <1>1, <1>2, <1>4, <2>2, <2>3, <2>4 DEF Lowest, Turn, End, There
<1>. QED  BY <1>3, <1>4

\* One step further.
Onward(path, e, a) == Append(path, [of |-> e, side |-> a])

\* A way goes on by one frame.
LEMMA WayOn ==
  ASSUME NEW U, NEW rt, NEW C, NEW P, NEW D, Tree(U, rt, C, P, D),
         NEW path, Way(U, rt, C, D, path), NEW e \in U, End(rt, C, path) = e, NEW a \in 0 .. 1
  PROVE  /\ Way(U, rt, C, D, Onward(path, e, a))
         /\ Lowest(Onward(path, e, a)) = e /\ Turn(Onward(path, e, a)) = a
         /\ End(rt, C, Onward(path, e, a)) = C[e][a]
<1>0. PICK on : on = Append(path, [of |-> e, side |-> a])
  OBVIOUS
<1>1. /\ path \in Seq(Steps) /\ Len(path) \in Nat
      /\ Lowest(path) \in U \cup {Nil} /\ Turn(path) \in 0 .. 1
  BY WayEnds
<1>2. e \in AVLAddr /\ e # Nil /\ [of |-> e, side |-> a] \in Steps
  BY NilApart DEF Tree, Typed, Steps
<1>3. /\ on \in Seq(Steps) /\ Len(on) = Len(path) + 1 /\ on # <<>>
      /\ on[Len(path) + 1] = [of |-> e, side |-> a]
      /\ \A i \in 1 .. Len(path) : on[i] = path[i]
  BY <1>0, <1>1, <1>2
<1>4. Lowest(on) = e /\ Turn(on) = a /\ End(rt, C, on) = C[e][a]
  BY <1>2, <1>3 DEF Lowest, Turn, End, There
<1>5. \A i \in 1 .. Len(on) : on[i].of \in U
  BY <1>1, <1>3 DEF Way
<1>6. on[1].of = rt
  <2>1. CASE path = <<>>
    BY <1>3, <2>1 DEF End, Lowest, There
  <2>2. CASE path # <<>>
    <3>1. 1 \in 1 .. Len(path)
      BY <1>1, <2>2
    <3>. QED  BY <1>3, <2>2, <3>1 DEF Way
  <2>. QED  BY <2>1, <2>2
<1>7. ASSUME NEW i \in 1 .. Len(path), i = Len(path)
      PROVE  C[path[i].of][path[i].side] = e
  <2>1. path # <<>> /\ Lowest(path) = path[i].of /\ Turn(path) = path[i].side
    BY <1>1, <1>7 DEF Lowest, Turn
  <2>2. path[i].of \in U /\ Nil \notin U
    BY <1>7, NilApart DEF Way, Tree, Typed
  <2>. QED  BY <2>1, <2>2 DEF End, There
<1>8. \A i \in 1 .. Len(on) - 1 : C[on[i].of][on[i].side] = on[i + 1].of
  <2>1. SUFFICES ASSUME NEW i \in 1 .. Len(path)
                 PROVE  C[path[i].of][path[i].side] = on[i + 1].of
    BY <1>1, <1>3
  <2>2. CASE i = Len(path)
    BY <1>3, <1>7, <2>2
  <2>3. CASE i # Len(path)
    <3>1. i \in 1 .. Len(path) - 1 /\ i + 1 \in 1 .. Len(path)
      BY <1>1, <2>3
    <3>. QED  BY <1>3, <3>1 DEF Way
  <2>. QED  BY <2>2, <2>3
<1>9. \A n \in U : n \in D[n] /\ \A m \in D[n] : D[m] \subseteq D[n]
  BY DEF Tree, Parted, Nested
<1>10. \A i \in 1 .. Len(path) : e \in D[C[path[i].of][path[i].side]]
  <2>1. SUFFICES ASSUME NEW i \in 1 .. Len(path)
                 PROVE  e \in D[C[path[i].of][path[i].side]]
    OBVIOUS
  <2>2. CASE i = Len(path)
    BY <1>7, <1>9, <2>2
  <2>3. CASE i # Len(path)
    <3>1. Len(path) \in 1 .. Len(path) /\ i < Len(path) /\ i \in 1 .. Len(path) - 1
      BY <1>1, <2>3
    <3>2. PICK q : q = path[Len(path)].of
      OBVIOUS
    <3>3. q \in D[C[path[i].of][path[i].side]] /\ q \in U
      BY <3>1, <3>2 DEF Way
    <3>4. e \in D[q]
      <4>1. There(rt, C, q, Turn(path)) = e /\ q # Nil
        BY <3>1, <3>2, <3>3, NilApart DEF End, Lowest, Tree, Typed
      <4>. QED  BY <1>1, <3>3, <4>1, UpOf
    <3>5. C[path[i].of][path[i].side] \in U
      <4>1. i + 1 \in 1 .. Len(path)
        BY <1>1, <3>1
      <4>. QED  BY <3>1, <4>1 DEF Way
    <3>6. D[q] \subseteq D[C[path[i].of][path[i].side]]
      BY <1>9, <3>3, <3>5
    <3>. QED  BY <3>4, <3>6
  <2>. QED  BY <2>2, <2>3
<1>11. \A i, j \in 1 .. Len(on) : i < j => on[j].of \in D[C[on[i].of][on[i].side]]
  <2>1. SUFFICES ASSUME NEW i \in 1 .. Len(on), NEW j \in 1 .. Len(on), i < j
                 PROVE  on[j].of \in D[C[on[i].of][on[i].side]]
    OBVIOUS
  <2>2. i \in 1 .. Len(path) /\ on[i] = path[i]
    BY <1>1, <1>3, <2>1
  <2>3. CASE j = Len(on)
    <3>1. on[j].of = e
      BY <1>3, <2>3
    <3>. QED  BY <1>10, <2>2, <3>1
  <2>4. CASE j # Len(on)
    <3>1. j \in 1 .. Len(path) /\ on[j] = path[j]
      BY <1>1, <1>3, <2>4
    <3>. QED  BY <2>1, <2>2, <3>1 DEF Way
  <2>. QED  BY <2>3, <2>4
<1>12. Way(U, rt, C, D, on)
  BY <1>3, <1>5, <1>6, <1>8, <1>11 DEF Way
<1>. QED  BY <1>0, <1>4, <1>12 DEF Onward

\* One step back: the frames that are left are not below the last one.
Shorter(path) == SubSeq(path, 1, Len(path) - 1)

\* A way without its lowest frame ends at the node of that frame.
LEMMA WayBack ==
  ASSUME NEW U, NEW rt, NEW C, NEW P, NEW D, Tree(U, rt, C, P, D),
         NEW path, Way(U, rt, C, D, path), path # <<>>,
         NEW up, up = Shorter(path)
  PROVE  /\ Way(U, rt, C, D, up) /\ End(rt, C, up) = Lowest(path) /\ Len(up) = Len(path) - 1
         /\ \A i \in 1 .. Len(up) : up[i] = path[i] /\ up[i].of \notin D[Lowest(path)]
<1>1. path \in Seq(Steps) /\ Len(path) \in Nat
  BY WayEnds
<1>2. /\ up \in Seq(Steps) /\ Len(up) = Len(path) - 1
      /\ \A i \in 1 .. Len(up) : up[i] = path[i]
  <2>1. Len(path) >= 1 /\ \A i \in 1 .. Len(path) - 1 : path[i] \in Steps
    BY <1>1
  <2>2. PICK m : m = Len(path) - 1
    OBVIOUS
  <2>3. m \in Int /\ 1 \in Int /\ \A i \in 1 .. m : path[i] \in Steps
    BY <1>1, <2>1, <2>2
  <2>4. up = SubSeq(path, 1, m)
    BY <2>2 DEF Shorter
  <2>5. /\ up \in Seq(Steps) /\ Len(up) = IF 1 <= m THEN m - 1 + 1 ELSE 0
        /\ \A i \in 1 .. m - 1 + 1 : up[i] = path[1 + i - 1]
    BY <2>3, <2>4, SubSeqProperties
  <2>. QED  BY <1>1, <2>1, <2>2, <2>5
<1>3. \A i \in 1 .. Len(up) : i \in 1 .. Len(path) /\ i \in 1 .. Len(path) - 1
  BY <1>1, <1>2
<1>4. \A i \in 1 .. Len(up) : up[i].of \in U
  BY <1>2, <1>3 DEF Way
<1>5. up # <<>> => up[1].of = rt
  <2>1. up # <<>> => 1 \in 1 .. Len(up)
    BY <1>1, <1>2
  <2>. QED  BY <1>2, <2>1 DEF Way
<1>6. \A i \in 1 .. Len(up) - 1 : C[up[i].of][up[i].side] = up[i + 1].of
  <2>1. \A i \in 1 .. Len(up) - 1 : i \in 1 .. Len(up) /\ i + 1 \in 1 .. Len(up)
    BY <1>2
  <2>. QED  BY <1>2, <1>3, <2>1 DEF Way
<1>7. \A i, j \in 1 .. Len(up) : i < j => up[j].of \in D[C[up[i].of][up[i].side]]
  BY <1>2, <1>3 DEF Way
<1>8. Way(U, rt, C, D, up)
  BY <1>2, <1>4, <1>5, <1>6, <1>7 DEF Way
<1>9. End(rt, C, up) = Lowest(path)
  <2>1. CASE up = <<>>
    <3>1. Len(path) = 1
      <4>1. Len(up) = 0
        BY <1>2, <2>1, EmptySeq
      <4>. QED  BY <1>1, <1>2, <4>1
    <3>. QED  BY <2>1, <3>1 DEF End, Lowest, There, Way
  <2>2. CASE up # <<>>
    <3>1. Len(up) \in 1 .. Len(path) - 1 /\ Len(up) \in 1 .. Len(up)
      BY <1>1, <1>2, <2>2
    <3>2. C[path[Len(up)].of][path[Len(up)].side] = path[Len(up) + 1].of
      BY <3>1 DEF Way
    <3>3. Len(up) + 1 = Len(path) /\ up[Len(up)] = path[Len(up)]
      BY <1>1, <1>2, <3>1
    <3>4. Lowest(up) = path[Len(up)].of /\ Turn(up) = path[Len(up)].side
      BY <2>2, <3>3 DEF Lowest, Turn
    <3>5. Lowest(up) # Nil
      BY <1>8, <2>2, WayEnds
    <3>. QED  BY <3>2, <3>3, <3>4, <3>5 DEF End, There, Lowest
  <2>. QED  BY <2>1, <2>2
<1>10. ASSUME NEW i \in 1 .. Len(up)
       PROVE  up[i].of \notin D[Lowest(path)]
  <2>1. /\ i \in 1 .. Len(path) /\ i \in 1 .. Len(path) - 1 /\ up[i] = path[i]
        /\ Len(path) \in 1 .. Len(path) /\ i < Len(path)
    BY <1>1, <1>2, <1>3
  <2>2. PICK n, d, x : n = path[i].of /\ d = path[i].side /\ x = path[Len(path)].of
    OBVIOUS
  <2>3. n \in U /\ x \in D[C[n][d]] /\ Lowest(path) = x
    BY <2>1, <2>2 DEF Way, Lowest
  <2>4. path[i] \in Steps
    BY <1>1, <2>1
  <2>5. d = 0 \/ d = 1
    BY <2>2, <2>4 DEF Steps
  <2>6. C[n][d] \in U /\ n \notin D[C[n][d]]
    <3>1. C[n][d] = path[i + 1].of /\ i + 1 \in 1 .. Len(path)
      BY <1>1, <2>1, <2>2 DEF Way
    <3>. QED  BY <2>3, <2>5, <3>1 DEF Way, Tree, Parted
  <2>7. D[x] \subseteq D[C[n][d]]
    BY <2>3, <2>6 DEF Tree, Nested
  <2>. QED  BY <2>1, <2>2, <2>3, <2>6, <2>7
<1>. QED  BY <1>2, <1>8, <1>9, <1>10

-----------------------------------------------------------------------------
(* The nodes in memory as functions.                                        *)

Kids(nd) == [n \in AVLAddr |-> nd[n].children]
Parents(nd) == [n \in AVLAddr |-> nd[n].parent]
Names(nd) == [n \in AVLAddr |-> nd[n].key]
Leans(nd) == [n \in AVLAddr |-> nd[n].b]
Worth(nd) == [n \in AVLAddr |-> nd[n].value]

Record == [key : AVLKeys \cup {Nil}, value : AVLKeys \cup {0} \cup {Nil}, parent : Nodes,
           children : [0 .. 1 -> Nodes], b : -1 .. 1]

\* The functions have the fields of the nodes.
LEMMA Memory ==
  ASSUME NEW nd \in [AVLAddr -> Record]
  PROVE  /\ Kids(nd) \in [AVLAddr -> [0 .. 1 -> Nodes]] /\ Parents(nd) \in [AVLAddr -> Nodes]
         /\ \A n \in AVLAddr :
              /\ Kids(nd)[n] = nd[n].children /\ Parents(nd)[n] = nd[n].parent
              /\ Names(nd)[n] = nd[n].key /\ Leans(nd)[n] = nd[n].b /\ Worth(nd)[n] = nd[n].value
              /\ Leans(nd)[n] \in -1 .. 1
BY DEF Kids, Parents, Names, Leans, Worth, Record

\* The model's end of a path is that of the way.
LEMMA AtIs ==
  ASSUME NEW path \in Seq(Steps), node \in [AVLAddr -> Record]
  PROVE  AVL!At(path) = End(root, Kids(node), path)
<1>1. CASE path = <<>>
  BY <1>1 DEF AVL!At, End, Lowest, There
<1>2. CASE path # <<>>
  <2>1. Len(path) \in Nat /\ path[Len(path)] \in Steps
    BY <1>2
  <2>2. path[Len(path)].of \in AVLAddr /\ path[Len(path)].of # Nil
    BY <2>1, NilApart DEF Steps
  <2>3. AVL!Last(path) = path[Len(path)]
    BY DEF AVL!Last
  <2>4. AVL!At(path) = node[path[Len(path)].of].children[path[Len(path)].side]
    BY <1>2, <2>3 DEF AVL!At
  <2>. QED  BY <1>2, <2>2, <2>4, Memory DEF End, Lowest, Turn, There
<1>. QED  BY <1>1, <1>2

\* What is below a child of a node is fewer than what is below the node.
LEMMA FewerBelow ==
  ASSUME NEW U, NEW rt, NEW C, NEW P, NEW D, Tree(U, rt, C, P, D)
  PROVE  /\ \A n \in Nodes : Cardinality(D[n]) \in Nat /\ Cardinality(D[n]) <= Cardinality(AVLAddr)
         /\ \A n \in U : Cardinality(D[n]) > 0
         /\ \A n \in U : \A a \in 0 .. 1 : Cardinality(D[C[n][a]]) < Cardinality(D[n])
<1>1. \A n \in Nodes : D[n] \subseteq AVLAddr
  BY DEF Tree, Typed
<1>2. \A n \in Nodes : IsFiniteSet(D[n]) /\ Cardinality(D[n]) \in Nat
                       /\ Cardinality(D[n]) <= Cardinality(AVLAddr)
  BY <1>1, AVLAssumption, FS_Subset, FS_CardinalityType
<1>3. ASSUME NEW n \in U
      PROVE  n \in Nodes /\ Cardinality(D[n]) > 0
  <2>1. n \in Nodes /\ n \in D[n]
    BY <1>3 DEF Tree, Typed, Parted, Nodes
  <2>. QED  BY <1>2, <2>1, FS_EmptySet
<1>4. ASSUME NEW n \in U, NEW a \in 0 .. 1
      PROVE  Cardinality(D[C[n][a]]) < Cardinality(D[n])
  <2>1. Part(n, U, C, D, a)
    BY PartSides DEF Tree
  <2>2. PICK S, T : S = D[n] /\ T = D[C[n][a]]
    OBVIOUS
  <2>3. T \subseteq S /\ T # S /\ C[n][a] \in Nodes
    BY <2>1, <2>2 DEF Part, Nodes, Tree, Typed
  <2>4. IsFiniteSet(S) /\ IsFiniteSet(T) /\ Cardinality(S) \in Nat /\ Cardinality(T) \in Nat
    BY <1>2, <1>3, <2>2, <2>3
  <2>5. Cardinality(T) <= Cardinality(S) /\ (Cardinality(S) = Cardinality(T) => S = T)
    BY <2>3, <2>4, FS_Subset
  <2>. QED  BY <2>2, <2>3, <2>4, <2>5
<1>. QED  BY <1>2, <1>3, <1>4

\* Path goes down as far as there is a node, or to that of k.
LEMMA PathIs ==
  ASSUME NEW U, NEW C, NEW P, NEW K, NEW D, node \in [AVLAddr -> Record],
         C = Kids(node), K = Names(node), Tree(U, root, C, P, D), Ordered(U, C, K, D),
         NEW k \in AVLKeys, NEW path, path = AVL!Path(k)
  PROVE  /\ Way(U, root, C, D, path)
         /\ Searching(U, C, K, D, Lowest(path), Turn(path), End(root, C, path), k)
         /\ End(root, C, path) = Nil \/ K[End(root, C, path)] = k
<1>1. \A p \in Seq(Steps) : AVL!At(p) = End(root, C, p)
  BY AtIs
<1>2. /\ Nil \notin U /\ U \subseteq AVLAddr
      /\ \A n \in U : node[n].key = K[n] /\ K[n] \in Int
  <2>1. \A n \in AVLAddr : node[n].key = K[n]
    BY Memory
  <2>. QED  BY <2>1, NilApart, KeysAreIntegers DEF Ordered, Tree, Typed
<1>3. k \in Int
  BY AVLAssumption
<1>4. PICK w : w = CHOOSE way : way = [n \in Nat |-> IF n = 0 THEN <<>> ELSE AVL!Further(k, way[n - 1])]
  OBVIOUS
<1>5. path = w[Cardinality(AVLAddr)]
  <2>1. AVL!Cardinality(AVLAddr) = Cardinality(AVLAddr)
    BY DEF AVL!Cardinality, Cardinality
  <2>2. AVL!Path(k)
          = (CHOOSE way : way = [n \in Nat |-> IF n = 0 THEN <<>> ELSE AVL!Further(k, way[n - 1])])
              [AVL!Cardinality(AVLAddr)]
    BY DEF AVL!Path
  <2>. QED  BY <1>4, <2>1, <2>2
<1>6. ASSUME NEW p \in Seq(Steps)
      PROVE  AVL!Further(k, p) \in Seq(Steps)
  <2>1. AVL!At(p) \in Nodes
    <3>1. CASE p = <<>>
      BY <3>1 DEF AVL!At, Tree, Typed, Nodes
    <3>2. CASE p # <<>>
      <4>1. p[Len(p)] \in Steps
        BY <1>6, <3>2
      <4>2. AVL!At(p) = node[p[Len(p)].of].children[p[Len(p)].side]
        BY <3>2 DEF AVL!At, AVL!Last
      <4>. QED  BY <4>1, <4>2 DEF Steps, Record
    <3>. QED  BY <3>1, <3>2
  <2>2. AVL!Towards(k, AVL!At(p)) \in 0 .. 1
    BY DEF AVL!Towards
  <2>3. CASE AVL!At(p) = Nil
    BY <1>6, <2>3 DEF AVL!Further
  <2>4. CASE AVL!At(p) # Nil
    <3>1. [of |-> AVL!At(p), side |-> AVL!Towards(k, AVL!At(p))] \in Steps
      BY <2>1, <2>2, <2>4 DEF Steps, Nodes
    <3>. QED  BY <1>6, <3>1 DEF AVL!Further
  <2>. QED  BY <2>3, <2>4
<1>7. w = [n \in Nat |-> IF n = 0 THEN <<>> ELSE AVL!Further(k, w[n - 1])]
  <2>1. PICK F : F = [p \in Seq(Steps) |-> AVL!Further(k, p)]
    OBVIOUS
  <2>2. PICK R, b : R = Seq(Steps) /\ b = <<>>
    OBVIOUS
  <2>3. F \in [R -> R] /\ b \in R
    BY <1>6, <2>1, <2>2
  <2>4. PICK f \in [Nat -> R] : \A n \in Nat : f[n] = IF n = 0 THEN b ELSE F[f[n - 1]]
    BY ONLY <2>3, Loop
  <2>a. \A n \in Nat : f[n] = IF n = 0 THEN <<>> ELSE AVL!Further(k, f[n - 1])
    <3>1. \A n \in Nat : n # 0 => n - 1 \in Nat
      OBVIOUS
    <3>. QED  BY <2>1, <2>2, <2>4, <3>1
  <2>5. f = [n \in Nat |-> f[n]]
    BY <2>4
  <2>6. f = [n \in Nat |-> IF n = 0 THEN <<>> ELSE AVL!Further(k, f[n - 1])]
    BY <2>a, <2>5
  <2>7. \E way : way = [n \in Nat |-> IF n = 0 THEN <<>> ELSE AVL!Further(k, way[n - 1])]
    BY <2>6
  <2>. QED  BY <1>4, <2>7, Zenon
<1>8. w[0] = <<>> /\ \A n \in Nat : w[n + 1] = AVL!Further(k, w[n])
  <2>1. w[0] = <<>>
    BY <1>7
  <2>2. ASSUME NEW n \in Nat
        PROVE  w[n + 1] = AVL!Further(k, w[n])
    <3>1. n + 1 \in Nat /\ n + 1 # 0 /\ (n + 1) - 1 = n
      OBVIOUS
    <3>2. w[n + 1] = AVL!Further(k, w[(n + 1) - 1])
      BY <1>7, <3>1
    <3>. QED  BY <3>1, <3>2
  <2>. QED  BY <2>1, <2>2
<1> DEFINE Good(n) ==
      /\ Way(U, root, C, D, w[n])
      /\ Searching(U, C, K, D, Lowest(w[n]), Turn(w[n]), End(root, C, w[n]), k)
      /\ \/ End(root, C, w[n]) = Nil \/ K[End(root, C, w[n])] = k
         \/ Cardinality(D[End(root, C, w[n])]) + n <= Cardinality(AVLAddr)
<1>9. Good(0)
  <2>1. Way(U, root, C, D, w[0])
    BY <1>8, EmptySeq DEF Way
  <2>2. Lowest(w[0]) = Nil /\ Turn(w[0]) = 0 /\ End(root, C, w[0]) = root
    BY <1>8 DEF Lowest, Turn, End, There
  <2>3. root \in Nodes
    BY DEF Tree, Typed, Nodes
  <2>4. Cardinality(D[root]) + 0 <= Cardinality(AVLAddr)
    BY <2>3, FewerBelow
  <2>. QED  BY <2>1, <2>2, <2>4, SearchBegins
<1>10. ASSUME NEW n \in Nat, Good(n)
       PROVE  Good(n + 1)
  <2>1. PICK p, e, q, sd : p = w[n] /\ e = End(root, C, p) /\ q = Lowest(p) /\ sd = Turn(p)
    OBVIOUS
  <2>2. /\ Way(U, root, C, D, p) /\ Searching(U, C, K, D, q, sd, e, k)
        /\ e = Nil \/ K[e] = k \/ Cardinality(D[e]) + n <= Cardinality(AVLAddr)
    BY <1>10, <2>1
  <2>3. /\ p \in Seq(Steps) /\ q \in U \cup {Nil} /\ sd \in 0 .. 1 /\ e \in U \cup {Nil}
        /\ There(root, C, q, sd) = e
    BY <2>1, <2>2, WayEnds DEF End
  <2>4. AVL!At(p) = e
    BY <1>1, <2>1, <2>3
  <2>5. w[n + 1] = AVL!Further(k, p)
    BY <1>8, <2>1
  <2>6. CASE e = Nil \/ K[e] = k
    <3>1. w[n + 1] = p
      BY <1>2, <2>3, <2>4, <2>5, <2>6 DEF AVL!Further
    <3>. QED  BY <1>10, <2>1, <2>6, <3>1
  <2>7. CASE e # Nil /\ K[e] # k
    <3>1. e \in U /\ node[e].key = K[e] /\ K[e] \in Int
      BY <1>2, <2>3, <2>7
    <3>2. PICK a : a = AVL!Towards(k, e)
      OBVIOUS
    <3>3. a \in 0 .. 1 /\ Beside(a, k, K[e])
      BY <1>3, <2>7, <3>1, <3>2 DEF AVL!Towards, Beside
    <3>4. w[n + 1] = Append(p, [of |-> e, side |-> a])
      BY <2>4, <2>5, <2>7, <3>1, <3>2 DEF AVL!Further
    <3>5. /\ Way(U, root, C, D, w[n + 1]) /\ Lowest(w[n + 1]) = e /\ Turn(w[n + 1]) = a
          /\ End(root, C, w[n + 1]) = C[e][a]
      <4>1. Way(U, root, C, D, p) /\ End(root, C, p) = e /\ w[n + 1] = Onward(p, e, a)
        BY <2>1, <2>2, <3>4 DEF Onward
      <4>. QED  BY <3>1, <3>3, <4>1, WayOn
    <3>6. Searching(U, C, K, D, e, a, C[e][a], k)
      BY <2>2, <2>3, <3>1, <3>3, SearchDown
    <3>7. Cardinality(D[C[e][a]]) < Cardinality(D[e]) /\ Cardinality(D[e]) \in Nat
          /\ Cardinality(D[C[e][a]]) \in Nat
      <4>1. e \in Nodes /\ C[e][a] \in Nodes
        BY <3>1, <3>3 DEF Tree, Typed, Nodes
      <4>. QED  BY <3>1, <3>3, <4>1, FewerBelow
    <3>8. Cardinality(D[C[e][a]]) + (n + 1) <= Cardinality(AVLAddr)
      <4>1. Cardinality(AVLAddr) \in Nat
        BY AVLAssumption, FS_CardinalityType
      <4>. QED  BY <2>2, <2>7, <3>7, <4>1
    <3>. QED  BY <3>5, <3>6, <3>8
  <2>. QED  BY <2>6, <2>7
<1>11. Good(Cardinality(AVLAddr))
  <2>1. PICK T : T = {n \in Nat : Good(n)}
    OBVIOUS
  <2>2. 0 \in T /\ \A n \in Nat : n \in T => n + 1 \in T
    BY <1>9, <1>10, <2>1
  <2>3. Nat \subseteq T
    BY <2>2, Induction
  <2>4. Cardinality(AVLAddr) \in Nat
    BY AVLAssumption, FS_CardinalityType
  <2>. QED  BY <2>1, <2>3, <2>4
<1>12. ASSUME End(root, C, path) # Nil
       PROVE  K[End(root, C, path)] = k
  <2>1. SUFFICES ASSUME Cardinality(D[End(root, C, path)]) + Cardinality(AVLAddr) <= Cardinality(AVLAddr)
                 PROVE  FALSE
    BY <1>5, <1>11, <1>12
  <2>2. End(root, C, path) \in U
    BY <1>5, <1>11, <1>12, WayEnds
  <2>3. Cardinality(D[End(root, C, path)]) > 0 /\ Cardinality(D[End(root, C, path)]) \in Nat
    BY <1>2, <2>2, FewerBelow DEF Nodes
  <2>4. Cardinality(AVLAddr) \in Nat
    BY AVLAssumption, FS_CardinalityType
  <2>. QED  BY <2>1, <2>3, <2>4
<1>. QED  BY <1>5, <1>11, <1>12

-----------------------------------------------------------------------------
(* The outermost node below another, on the side a: the least or the        *)
(* greatest.                                                                *)

\* The keys below a node, with the children in either order.
LEMMA BesideBelow ==
  ASSUME NEW U, NEW rt, NEW C, NEW P, NEW K, NEW D, Tree(U, rt, C, P, D), Ordered(U, C, K, D),
         NEW n \in U, NEW a \in 0 .. 1, NEW o, o = 1 - a
  PROVE  /\ D[n] = {n} \cup D[C[n][a]] \cup D[C[n][o]]
         /\ \A m \in D[C[n][a]] : Beside(a, K[m], K[n]) /\ Beside(o, K[n], K[m])
         /\ \A m \in D[C[n][o]] : Beside(o, K[m], K[n]) /\ Beside(a, K[n], K[m])
         /\ C[n][a] \in U \cup {Nil} /\ C[n][o] \in U \cup {Nil} /\ n \in D[n]
<1>1. Parted(U, C, D) /\ Sorted(U, C, K, D)
  BY DEF Tree, Ordered
<1>2. /\ D[n] = {n} \cup D[C[n][0]] \cup D[C[n][1]] /\ n \in D[n]
      /\ C[n][0] \in U \cup {Nil} /\ C[n][1] \in U \cup {Nil}
      /\ (\A m \in D[C[n][0]] : K[m] < K[n]) /\ (\A m \in D[C[n][1]] : K[n] < K[m])
  BY <1>1 DEF Parted, Sorted
<1>3. (a = 0 /\ o = 1) \/ (a = 1 /\ o = 0)
  OBVIOUS
<1>. QED  BY <1>2, <1>3 DEF Beside

\* What is not below n is on one side of all that is.
LEMMA BesideApart ==
  ASSUME NEW U, NEW rt, NEW C, NEW P, NEW K, NEW D, Tree(U, rt, C, P, D), Ordered(U, C, K, D),
         NEW n \in U, NEW x \in D[n], NEW m \in U, m \notin D[n], NEW a \in 0 .. 1
  PROVE  Beside(a, K[m], K[x]) <=> Beside(a, K[m], K[n])
<1>1. n \in D[n] /\ x \in U
  BY NilApart DEF Tree, Typed, Parted, Nodes
<1>2. K[m] \in Int /\ K[n] \in Int /\ K[x] \in Int /\ K[m] # K[n] /\ K[m] # K[x]
  BY <1>1, KeysAreIntegers DEF Ordered, Distinct
<1>3. K[m] < K[x] <=> K[m] < K[n]
  BY <1>1 DEF Ordered, Convex
<1>. QED  BY <1>2, <1>3 DEF Beside

Outermost(a, K, D, z, e) ==
  e \in D[z] /\ \A m \in D[z] : m \notin D[e] => \A y \in D[e] : Beside(a, K[y], K[m])

\* From a node the outermost one is below its child on that side, or it is the node.
LEMMA OutermostDown ==
  ASSUME NEW U, NEW rt, NEW C, NEW P, NEW K, NEW D, Tree(U, rt, C, P, D), Ordered(U, C, K, D),
         NEW z \in U, NEW e \in U, NEW a \in 0 .. 1, Outermost(a, K, D, z, e)
  PROVE  /\ C[e][a] # Nil => C[e][a] \in U /\ Outermost(a, K, D, z, C[e][a])
         /\ C[e][a] = Nil => \A m \in D[z] : m # e => Beside(a, K[e], K[m])
<1>1. PICK o, c : o = 1 - a /\ c = C[e][a]
  OBVIOUS
<1>2. /\ D[e] = {e} \cup D[c] \cup D[C[e][o]] /\ e \in D[e] /\ c \in U \cup {Nil}
      /\ (\A m \in D[c] : Beside(a, K[m], K[e])) /\ (\A m \in D[C[e][o]] : Beside(a, K[e], K[m]))
  BY <1>1, BesideBelow
<1>3. D[e] \subseteq D[z] /\ D[Nil] = {} /\ D[z] \subseteq U /\ e \in D[z]
  BY NilApart DEF Outermost, Tree, Typed, Nested, Nodes
<1>4. \A m \in U : K[m] \in Int
  BY KeysAreIntegers DEF Ordered
<1>5. ASSUME c = Nil, NEW m \in D[z], m # e PROVE Beside(a, K[e], K[m])
  BY <1>2, <1>3, <1>5 DEF Outermost
<1>6. ASSUME c # Nil PROVE c \in U /\ Outermost(a, K, D, z, c)
  <2>1. c \in U /\ c \in D[c]
    BY <1>2, <1>6 DEF Tree, Parted
  <2>2. ASSUME NEW m \in D[z], m \notin D[c], NEW y \in D[c] PROVE Beside(a, K[y], K[m])
    <3>1. Beside(a, K[y], K[e]) /\ y \in D[e] /\ K[y] \in Int /\ K[e] \in Int /\ K[m] \in Int
      BY <1>2, <1>3, <1>4, <2>2
    <3>2. CASE m \in D[e]
      <4>1. m = e \/ Beside(a, K[e], K[m])
        BY <1>2, <2>2, <3>2
      <4>. QED  BY <3>1, <4>1, BesideIs
    <3>3. CASE m \notin D[e]
      BY <2>2, <3>1, <3>3 DEF Outermost
    <3>. QED  BY <3>2, <3>3
  <2>. QED  BY <1>2, <1>3, <2>1, <2>2 DEF Outermost
<1>. QED  BY <1>1, <1>5, <1>6

\* A step on from the end of a path.
LEMMA OnwardIs ==
  ASSUME NEW path \in Seq(Steps), NEW e \in AVLAddr, NEW a \in 0 .. 1, NEW rt, NEW C
  PROVE  Onward(path, e, a) \in Seq(Steps) /\ End(rt, C, Onward(path, e, a)) = C[e][a]
<1>1. PICK on : on = Onward(path, e, a)
  OBVIOUS
<1>2. [of |-> e, side |-> a] \in Steps /\ e # Nil
  BY NilApart DEF Steps
<1>3. /\ on \in Seq(Steps) /\ Len(on) = Len(path) + 1 /\ on # <<>>
      /\ on[Len(on)] = [of |-> e, side |-> a]
  BY <1>1, <1>2 DEF Onward
<1>. QED  BY <1>1, <1>2, <1>3 DEF End, Lowest, Turn, There

\* MinPath goes on from the end of a path to the least node there.
LEMMA MinPathIs ==
  ASSUME NEW U, NEW C, NEW P, NEW K, NEW D, node \in [AVLAddr -> Record],
         C = Kids(node), K = Names(node), Tree(U, root, C, P, D), Ordered(U, C, K, D),
         NEW path, Way(U, root, C, D, path), NEW z \in U, End(root, C, path) = z
  PROVE  /\ Way(U, root, C, D, AVL!MinPath(path))
         /\ End(root, C, AVL!MinPath(path)) \in D[z]
         /\ C[End(root, C, AVL!MinPath(path))][0] = Nil
         /\ \A m \in D[z] : m # End(root, C, AVL!MinPath(path))
                              => K[End(root, C, AVL!MinPath(path))] < K[m]
<1>1. \A p \in Seq(Steps) : AVL!At(p) = End(root, C, p)
  BY AtIs
<1>2. /\ Nil \notin U /\ U \subseteq AVLAddr
      /\ \A n \in AVLAddr : node[n].children = C[n] /\ C[n][0] \in Nodes
  BY Memory, NilApart DEF Tree, Typed
<1>4. PICK w : w = CHOOSE way : way = [n \in Nat |-> IF n = 0 THEN path ELSE AVL!Lesser(way[n - 1])]
  OBVIOUS
<1>5. AVL!MinPath(path) = w[Cardinality(AVLAddr)]
  <2>1. AVL!Cardinality(AVLAddr) = Cardinality(AVLAddr)
    BY DEF AVL!Cardinality, Cardinality
  <2>2. AVL!MinPath(path)
          = (CHOOSE way : way = [n \in Nat |-> IF n = 0 THEN path ELSE AVL!Lesser(way[n - 1])])
              [AVL!Cardinality(AVLAddr)]
    BY DEF AVL!MinPath
  <2>. QED  BY <1>4, <2>1, <2>2
<1>6. PICK R : R = {p \in Seq(Steps) : End(root, C, p) \in AVLAddr}
  OBVIOUS
<1>7. ASSUME NEW p \in R
      PROVE  /\ C[End(root, C, p)][0] = Nil => AVL!Lesser(p) = p
             /\ C[End(root, C, p)][0] # Nil => AVL!Lesser(p) = Onward(p, End(root, C, p), 0)
             /\ AVL!Lesser(p) \in R
  <2>1. PICK e : e = End(root, C, p)
    OBVIOUS
  <2>2. p \in Seq(Steps) /\ e \in AVLAddr /\ AVL!At(p) = e /\ node[e].children = C[e]
    BY <1>1, <1>2, <1>6, <2>1
  <2>3. CASE C[e][0] = Nil
    BY <1>6, <2>1, <2>2, <2>3 DEF AVL!Lesser
  <2>4. CASE C[e][0] # Nil
    <3>1. AVL!Lesser(p) = Onward(p, e, 0)
      BY <2>2, <2>4 DEF AVL!Lesser, Onward
    <3>2. Onward(p, e, 0) \in Seq(Steps) /\ End(root, C, Onward(p, e, 0)) = C[e][0]
      BY <2>2, OnwardIs
    <3>3. C[e][0] \in AVLAddr
      BY <1>2, <2>2, <2>4 DEF Nodes
    <3>. QED  BY <1>6, <2>1, <2>4, <3>1, <3>2, <3>3
  <2>. QED  BY <2>1, <2>3, <2>4
<1>8. path \in R
  BY <1>2, <1>6, WayEnds
<1>9. w = [n \in Nat |-> IF n = 0 THEN path ELSE AVL!Lesser(w[n - 1])]
  <2>1. PICK F : F = [p \in R |-> AVL!Lesser(p)]
    OBVIOUS
  <2>2. F \in [R -> R]
    BY <1>7, <2>1
  <2>3. PICK f \in [Nat -> R] : \A n \in Nat : f[n] = IF n = 0 THEN path ELSE F[f[n - 1]]
    BY ONLY <1>8, <2>2, Loop
  <2>4. \A n \in Nat : f[n] = IF n = 0 THEN path ELSE AVL!Lesser(f[n - 1])
    <3>1. \A n \in Nat : n # 0 => n - 1 \in Nat
      OBVIOUS
    <3>. QED  BY <2>1, <2>3, <3>1
  <2>5. f = [n \in Nat |-> f[n]]
    BY <2>3
  <2>6. f = [n \in Nat |-> IF n = 0 THEN path ELSE AVL!Lesser(f[n - 1])]
    BY <2>4, <2>5
  <2>7. \E way : way = [n \in Nat |-> IF n = 0 THEN path ELSE AVL!Lesser(way[n - 1])]
    BY <2>6
  <2>. QED  BY <1>4, <2>7, Zenon
<1>10. w[0] = path /\ \A n \in Nat : w[n + 1] = AVL!Lesser(w[n])
  <2>1. w[0] = path
    BY <1>9
  <2>2. ASSUME NEW n \in Nat
        PROVE  w[n + 1] = AVL!Lesser(w[n])
    <3>1. n + 1 \in Nat /\ n + 1 # 0 /\ (n + 1) - 1 = n
      OBVIOUS
    <3>2. w[n + 1] = AVL!Lesser(w[(n + 1) - 1])
      BY <1>9, <3>1
    <3>. QED  BY <3>1, <3>2
  <2>. QED  BY <2>1, <2>2
<1> DEFINE Good(n) ==
      /\ Way(U, root, C, D, w[n])
      /\ End(root, C, w[n]) \in U /\ Outermost(0, K, D, z, End(root, C, w[n]))
      /\ \/ C[End(root, C, w[n])][0] = Nil
         \/ Cardinality(D[End(root, C, w[n])]) + n <= Cardinality(AVLAddr)
<1>11. Good(0)
  <2>1. z \in Nodes
    BY <1>2 DEF Nodes
  <2>2. Cardinality(D[z]) + 0 <= Cardinality(AVLAddr)
    BY <2>1, FewerBelow
  <2>3. Outermost(0, K, D, z, z)
    BY DEF Outermost, Tree, Parted
  <2>. QED  BY <1>10, <2>2, <2>3
<1>12. ASSUME NEW n \in Nat, Good(n)
       PROVE  Good(n + 1)
  <2>1. PICK p, e : p = w[n] /\ e = End(root, C, p)
    OBVIOUS
  <2>2. /\ Way(U, root, C, D, p) /\ e \in U /\ Outermost(0, K, D, z, e)
        /\ C[e][0] = Nil \/ Cardinality(D[e]) + n <= Cardinality(AVLAddr)
    BY <1>12, <2>1
  <2>3. p \in R
    <3>1. p \in Seq(Steps)
      BY <2>2 DEF Way
    <3>. QED  BY <1>2, <1>6, <2>1, <2>2, <3>1
  <2>4. CASE C[e][0] = Nil
    <3>1. w[n + 1] = p
      BY <1>7, <1>10, <2>1, <2>3, <2>4
    <3>. QED  BY <1>12, <2>1, <2>4, <3>1
  <2>5. CASE C[e][0] # Nil
    <3>1. w[n + 1] = Onward(p, e, 0)
      BY <1>7, <1>10, <2>1, <2>3, <2>5
    <3>2. Way(U, root, C, D, w[n + 1]) /\ End(root, C, w[n + 1]) = C[e][0]
      <4>1. 0 \in 0 .. 1 /\ End(root, C, p) = e
        BY <2>1
      <4>. QED  BY <2>2, <3>1, <4>1, WayOn
    <3>3. C[e][0] \in U /\ Outermost(0, K, D, z, C[e][0])
      BY <2>2, <2>5, OutermostDown
    <3>4. Cardinality(D[C[e][0]]) < Cardinality(D[e]) /\ Cardinality(D[e]) \in Nat
          /\ Cardinality(D[C[e][0]]) \in Nat
      <4>1. e \in Nodes /\ C[e][0] \in Nodes /\ 0 \in 0 .. 1
        BY <1>2, <2>2, <3>3 DEF Nodes
      <4>. QED  BY <2>2, <4>1, FewerBelow
    <3>5. Cardinality(D[C[e][0]]) + (n + 1) <= Cardinality(AVLAddr)
      <4>1. Cardinality(AVLAddr) \in Nat
        BY AVLAssumption, FS_CardinalityType
      <4>. QED  BY <2>2, <2>5, <3>4, <4>1
    <3>. QED  BY <3>2, <3>3, <3>5
  <2>. QED  BY <2>4, <2>5
<1>13. Good(Cardinality(AVLAddr))
  <2>1. PICK T : T = {n \in Nat : Good(n)}
    OBVIOUS
  <2>2. 0 \in T /\ \A n \in Nat : n \in T => n + 1 \in T
    BY <1>11, <1>12, <2>1
  <2>3. Nat \subseteq T
    BY <2>2, Induction
  <2>4. Cardinality(AVLAddr) \in Nat
    BY AVLAssumption, FS_CardinalityType
  <2>. QED  BY <2>1, <2>3, <2>4
<1>14. PICK x : x = End(root, C, AVL!MinPath(path))
  OBVIOUS
<1>15. /\ Way(U, root, C, D, AVL!MinPath(path)) /\ x \in U /\ Outermost(0, K, D, z, x)
       /\ C[x][0] = Nil \/ Cardinality(D[x]) + Cardinality(AVLAddr) <= Cardinality(AVLAddr)
  BY <1>5, <1>13, <1>14
<1>16. C[x][0] = Nil
  <2>1. Cardinality(D[x]) > 0 /\ Cardinality(D[x]) \in Nat
    BY <1>2, <1>15, FewerBelow DEF Nodes
  <2>2. Cardinality(AVLAddr) \in Nat
    BY AVLAssumption, FS_CardinalityType
  <2>. QED  BY <1>15, <2>1, <2>2
<1>17. \A m \in D[z] : m # x => K[x] < K[m]
  BY <1>15, <1>16, OutermostDown DEF Beside
<1>. QED  BY <1>14, <1>15, <1>16, <1>17 DEF Outermost

-----------------------------------------------------------------------------
(* What the model's rotations and stores do to the nodes.                   *)

\* Sides as numbers and as directions.
LEMMA Sides ==
  ASSUME NEW a \in 0 .. 1
  PROVE  /\ AVL!Direction(a) = Dir(a) /\ AVL!SideOf(Dir(a)) = a /\ Dir(1 - a) = -Dir(a)
         /\ -Dir(1 - a) = Dir(a) /\ 1 - a \in 0 .. 1 /\ 1 - (1 - a) = a /\ Dir(a) \in {-1, 1}
         /\ AVL!SideOf(-Dir(a)) = 1 - a /\ a # 1 - a
<1>1. a = 0 \/ a = 1
  OBVIOUS
<1>. QED  BY <1>1 DEF AVL!Direction, AVL!SideOf, Dir

\* The other fields of the nodes are as they were.
Keeps(nd, nd2) == \A n \in AVLAddr : nd2[n].key = nd[n].key /\ nd2[n].value = nd[n].value

\* The child of q on the side sd becomes x.
Pointed(nd, nd2, q, sd, x) ==
  /\ nd2 \in [AVLAddr -> Record] /\ Keeps(nd, nd2)
  /\ \A n \in AVLAddr : nd2[n].b = nd[n].b /\ nd2[n].parent = nd[n].parent
  /\ \A n \in AVLAddr : \A d \in 0 .. 1 :
       nd2[n].children[d] = IF n = q /\ d = sd THEN x ELSE nd[n].children[d]

\* An assignment to one child.
LEMMA PointedIs ==
  ASSUME NEW nd \in [AVLAddr -> Record], NEW q \in AVLAddr, NEW a \in 0 .. 1, NEW x \in Nodes,
         NEW nd2, nd2 = [nd EXCEPT ![q].children[a] = x]
  PROVE  Pointed(nd, nd2, q, a, x)
<1>1. PICK k2 : k2 = [nd[q].children EXCEPT ![a] = x]
  OBVIOUS
<1>2. PICK r2 : r2 = [nd[q] EXCEPT !.children = k2]
  OBVIOUS
<1>3. nd2 = [nd EXCEPT ![q] = r2]
  BY <1>1, <1>2
<1>4. nd[q] \in Record
  OBVIOUS
<1>5. k2 \in [0 .. 1 -> Nodes] /\ \A d \in 0 .. 1 : k2[d] = IF d = a THEN x ELSE nd[q].children[d]
  BY <1>1, <1>4 DEF Record
<1>6. /\ r2 \in Record /\ r2.children = k2 /\ r2.key = nd[q].key /\ r2.value = nd[q].value
      /\ r2.parent = nd[q].parent /\ r2.b = nd[q].b
  BY <1>2, <1>4, <1>5 DEF Record
<1>7. nd2 \in [AVLAddr -> Record] /\ \A n \in AVLAddr : nd2[n] = IF n = q THEN r2 ELSE nd[n]
  BY <1>3, <1>6
<1>8. \A n \in AVLAddr : /\ nd2[n].key = nd[n].key /\ nd2[n].value = nd[n].value
                         /\ nd2[n].b = nd[n].b /\ nd2[n].parent = nd[n].parent
  BY <1>6, <1>7
<1>9. \A n \in AVLAddr : \A d \in 0 .. 1 :
         nd2[n].children[d] = IF n = q /\ d = a THEN x ELSE nd[n].children[d]
  BY <1>5, <1>6, <1>7
<1>. QED  BY <1>7, <1>8, <1>9 DEF Keeps, Pointed

\* Store changes the root if there is no frame, or else a child of the lowest one.
LEMMA StoreIs ==
  ASSUME NEW nd \in [AVLAddr -> Record], NEW path \in Seq(Steps), NEW x \in Nodes,
         AVL!Store(nd, path, x)
  PROVE  root' = RootWith(root, Lowest(path), x) /\ Pointed(nd, node', Lowest(path), Turn(path), x)
<1>1. CASE path = <<>>
  <2>1. root' = x /\ node' = nd
    BY <1>1 DEF AVL!Store
  <2>. QED  BY <1>1, <2>1, NilApart DEF Lowest, RootWith, Keeps, Pointed
<1>2. CASE path # <<>>
  <2>1. PICK f : f = path[Len(path)]
    OBVIOUS
  <2>2. f \in Steps /\ Lowest(path) = f.of /\ Turn(path) = f.side /\ AVL!Last(path) = f
    BY <1>2, <2>1 DEF Lowest, Turn, AVL!Last
  <2>3. f.of \in AVLAddr /\ f.side \in 0 .. 1 /\ f.of # Nil
    BY <2>2, NilApart DEF Steps
  <2>4. node' = [nd EXCEPT ![f.of].children[f.side] = x] /\ root' = root
    BY <1>2, <2>2 DEF AVL!Store
  <2>5. PICK q, a, nd2 : q = f.of /\ a = f.side /\ nd2 = node'
    OBVIOUS
  <2>6. Pointed(nd, nd2, q, a, x)
    BY <2>3, <2>4, <2>5, PointedIs
  <2>7. root' = RootWith(root, Lowest(path), x)
    BY <2>2, <2>3, <2>4 DEF RootWith
  <2>. QED  BY <2>2, <2>5, <2>6, <2>7
<1>. QED  BY <1>1, <1>2

\* A rotation, without the pointer to s, which Store changes.
Swung(nd, nd2, s, a) ==
  LET r == nd[s].children[a]
      i == nd[r].children[1 - a]
  IN /\ nd2 \in [AVLAddr -> Record] /\ Keeps(nd, nd2)
     /\ \A n \in AVLAddr : \A d \in 0 .. 1 :
          nd2[n].children[d] = IF n = s /\ d = a THEN i
                               ELSE IF n = r /\ d = 1 - a THEN s ELSE nd[n].children[d]
     /\ \A n \in AVLAddr :
          nd2[n].parent = IF n = s THEN r ELSE IF n = r THEN nd[s].parent
                          ELSE IF n = i THEN s ELSE nd[n].parent

\* Rotate swings the child r of s up, and leaves the balances.
LEMMA RotateIs ==
  ASSUME NEW nd \in [AVLAddr -> Record], NEW s \in AVLAddr, NEW a \in 0 .. 1,
         NEW r \in AVLAddr, r = nd[s].children[a], r # s,
         nd[r].children[1 - a] # r, nd[r].children[1 - a] # s
  PROVE  /\ Swung(nd, AVL!Rotate(nd, Dir(a), s), s, a)
         /\ \A n \in AVLAddr : AVL!Rotate(nd, Dir(a), s)[n].b = nd[n].b
<1>1. AVL!SideOf(Dir(a)) = a /\ 1 - a \in 0 .. 1 /\ a # 1 - a
  BY Sides
<1>2. PICK i, o : i = nd[r].children[1 - a] /\ o = 1 - a
  OBVIOUS
<1>3. i \in Nodes /\ o \in 0 .. 1 /\ i # r /\ i # s /\ nd[s] \in Record /\ nd[r] \in Record
  BY <1>1, <1>2 DEF Record
<1>4. PICK ks, kr : ks = [nd[s].children EXCEPT ![a] = i] /\ kr = [nd[r].children EXCEPT ![o] = s]
  OBVIOUS
<1>5. PICK ns, nr : ns = [nd[s] EXCEPT !.children = ks, !.parent = r]
                    /\ nr = [nd[r] EXCEPT !.children = kr, !.parent = nd[s].parent]
  OBVIOUS
<1>a. PICK c, z : c = Dir(a) /\ z = AVL!SideOf(c)
  OBVIOUS
<1>b. z = a /\ 1 - z = o /\ nd[s].children[z] = r /\ nd[nd[s].children[z]].children[1 - z] = i
  BY <1>1, <1>2, <1>a
<1>6. PICK turned : turned = AVL!Swing(nd, c, s)
  OBVIOUS
<1>7. AVL!Rotate(nd, c, s) = IF i = Nil THEN turned ELSE [turned EXCEPT ![i].parent = s]
  <2>1. AVL!Rotate(nd, c, s)
          = IF nd[nd[s].children[AVL!SideOf(c)]].children[1 - AVL!SideOf(c)] = Nil
              THEN AVL!Swing(nd, c, s)
              ELSE [AVL!Swing(nd, c, s) EXCEPT
                      ![nd[nd[s].children[AVL!SideOf(c)]].children[1 - AVL!SideOf(c)]].parent = s]
    BY DEF AVL!Rotate
  <2>. QED  BY <1>6, <1>a, <1>b, <2>1
<1>c. turned = [nd EXCEPT ![s].children[z] = nd[nd[s].children[z]].children[1 - z],
                          ![s].parent = nd[s].children[z],
                          ![nd[s].children[z]].children[1 - z] = s,
                          ![nd[s].children[z]].parent = nd[s].parent]
  BY <1>6, <1>a DEF AVL!Swing
<1>8. \A n \in AVLAddr : turned[n] = IF n = s THEN ns ELSE IF n = r THEN nr ELSE nd[n]
  BY <1>3, <1>4, <1>5, <1>b, <1>c
<1>9. DOMAIN turned = AVLAddr
  BY <1>c
<1>10. /\ ks \in [0 .. 1 -> Nodes] /\ \A d \in 0 .. 1 : ks[d] = IF d = a THEN i ELSE nd[s].children[d]
       /\ kr \in [0 .. 1 -> Nodes] /\ \A d \in 0 .. 1 : kr[d] = IF d = o THEN s ELSE nd[r].children[d]
  BY <1>3, <1>4 DEF Record, Nodes
<1>11. /\ ns \in Record /\ ns.children = ks /\ ns.parent = r /\ ns.key = nd[s].key
       /\ ns.value = nd[s].value /\ ns.b = nd[s].b
  BY <1>3, <1>5, <1>10 DEF Record, Nodes
<1>12. /\ nr \in Record /\ nr.children = kr /\ nr.parent = nd[s].parent /\ nr.key = nd[r].key
       /\ nr.value = nd[r].value /\ nr.b = nd[r].b
  BY <1>3, <1>5, <1>10 DEF Record, Nodes
<1>13. turned = [n \in AVLAddr |-> turned[n]]
  BY <1>c
<1>14. turned \in [AVLAddr -> Record]
  BY <1>8, <1>11, <1>12, <1>13
<1>15. PICK nd2 : nd2 = AVL!Rotate(nd, Dir(a), s)
  OBVIOUS
<1>16. /\ nd2 \in [AVLAddr -> Record]
       /\ \A n \in AVLAddr : /\ nd2[n].parent = IF n = i THEN s ELSE turned[n].parent
                             /\ nd2[n].children = turned[n].children /\ nd2[n].key = turned[n].key
                             /\ nd2[n].value = turned[n].value /\ nd2[n].b = turned[n].b
  <2>0. /\ i = Nil => nd2 = turned
        /\ i # Nil => nd2 = [turned EXCEPT ![i].parent = s]
    BY <1>7, <1>15, <1>a
  <2>1. CASE i = Nil
    BY <1>14, <2>0, <2>1, NilApart
  <2>2. CASE i # Nil
    <3>1. i \in AVLAddr
      BY <1>3, <2>2 DEF Nodes
    <3>2. PICK ni : ni = [turned[i] EXCEPT !.parent = s]
      OBVIOUS
    <3>3. nd2 = [turned EXCEPT ![i] = ni]
      BY <2>0, <2>2, <3>2
    <3>4. /\ ni \in Record /\ ni.parent = s /\ ni.children = turned[i].children /\ ni.key = turned[i].key
          /\ ni.value = turned[i].value /\ ni.b = turned[i].b
      BY <1>14, <3>1, <3>2 DEF Record, Nodes
    <3>5. nd2 \in [AVLAddr -> Record] /\ \A n \in AVLAddr : nd2[n] = IF n = i THEN ni ELSE turned[n]
      BY <1>14, <3>1, <3>3, <3>4
    <3>. QED  BY <3>4, <3>5
  <2>. QED  BY <2>1, <2>2
<1>17. \A n \in AVLAddr : nd2[n].key = nd[n].key /\ nd2[n].value = nd[n].value /\ nd2[n].b = nd[n].b
  BY <1>8, <1>11, <1>12, <1>16
<1>18. \A n \in AVLAddr : \A d \in 0 .. 1 :
          nd2[n].children[d] = IF n = s /\ d = a THEN i
                               ELSE IF n = r /\ d = o THEN s ELSE nd[n].children[d]
  BY <1>8, <1>10, <1>11, <1>12, <1>16
<1>19. \A n \in AVLAddr :
          nd2[n].parent = IF n = s THEN r ELSE IF n = r THEN nd[s].parent
                          ELSE IF n = i THEN s ELSE nd[n].parent
  BY <1>3, <1>8, <1>11, <1>12, <1>16
<1>20. Keeps(nd, nd2)
  BY <1>17 DEF Keeps
<1>21. Swung(nd, nd2, s, a)
  <2>1. nd[nd[s].children[a]].children[1 - a] = i
    BY <1>2
  <2>2. \A n \in AVLAddr : \A d \in 0 .. 1 :
          nd2[n].children[d] = IF n = s /\ d = a THEN nd[nd[s].children[a]].children[1 - a]
                               ELSE IF n = nd[s].children[a] /\ d = 1 - a THEN s
                               ELSE nd[n].children[d]
    BY ONLY <1>2, <1>18, <2>1, r = nd[s].children[a]
  <2>3. \A n \in AVLAddr :
          nd2[n].parent = IF n = s THEN nd[s].children[a]
                          ELSE IF n = nd[s].children[a] THEN nd[s].parent
                          ELSE IF n = nd[nd[s].children[a]].children[1 - a] THEN s
                          ELSE nd[n].parent
    BY ONLY <1>19, <2>1, r = nd[s].children[a]
  <2>4. nd2 \in [AVLAddr -> Record]
    BY <1>16
  <2>. QED  BY ONLY <1>20, <2>2, <2>3, <2>4 DEF Swung
<1>. QED  BY <1>15, <1>17, <1>21

\* A rotation is one of the tree once the pointer to s is r.
LEMMA SwungTurned ==
  ASSUME NEW nd \in [AVLAddr -> Record], NEW nd1, NEW nd2, NEW s \in AVLAddr, NEW a \in 0 .. 1,
         NEW q, NEW sd \in 0 .. 1, NEW r \in AVLAddr, NEW rt,
         Swung(nd, nd1, s, a), Pointed(nd1, nd2, q, sd, r),
         r = nd[s].children[a], nd[s].parent = q, q # s, q # r
  PROVE  Turned(rt, Kids(nd), Parents(nd), s, a, q, sd, Kids(nd2), Parents(nd2))
<1>1. PICK i : i = nd[r].children[1 - a]
  OBVIOUS
<1>2. /\ \A n \in AVLAddr : \A d \in 0 .. 1 :
           nd1[n].children[d] = IF n = s /\ d = a THEN i
                                ELSE IF n = r /\ d = 1 - a THEN s ELSE nd[n].children[d]
      /\ \A n \in AVLAddr :
           nd1[n].parent = IF n = s THEN r ELSE IF n = r THEN q ELSE IF n = i THEN s ELSE nd[n].parent
  BY <1>1 DEF Swung
<1>3. PICK C, P, C2, P2 : C = Kids(nd) /\ P = Parents(nd) /\ C2 = Kids(nd2) /\ P2 = Parents(nd2)
  OBVIOUS
<1>4. nd2 \in [AVLAddr -> Record]
  BY DEF Pointed
<1>5. \A n \in AVLAddr : /\ C[n] = nd[n].children /\ P[n] = nd[n].parent
                         /\ C2[n] = nd2[n].children /\ P2[n] = nd2[n].parent
  BY <1>3, <1>4, Memory
<1>6. C2 \in [AVLAddr -> [0 .. 1 -> Nodes]] /\ P2 \in [AVLAddr -> Nodes]
  BY <1>3, <1>4, Memory
<1>7. r = C[s][a] /\ C[r][1 - a] = i
  BY <1>1, <1>5
<1>8. \A n \in AVLAddr : \A d \in 0 .. 1 :
         C2[n][d] = IF n = s /\ d = a THEN i ELSE IF n = r /\ d = 1 - a THEN s
                    ELSE IF n = q /\ d = sd THEN r ELSE C[n][d]
  BY <1>2, <1>5 DEF Pointed
<1>9. \A n \in AVLAddr :
         P2[n] = IF n = s THEN r ELSE IF n = r THEN q ELSE IF n = i THEN s ELSE P[n]
  BY <1>2, <1>5 DEF Pointed
<1>10. Turned(rt, C, P, s, a, q, sd, C2, P2)
  BY <1>6, <1>7, <1>8, <1>9 DEF Turned
<1>. QED  BY <1>3, <1>10

\* The nodes of a rotation, and the parent of s, are different ones.
LEMMA Apart ==
  ASSUME NEW U, NEW rt, NEW C, NEW P, NEW D, Tree(U, rt, C, P, D),
         NEW q \in U \cup {Nil}, NEW sd \in 0 .. 1, NEW s \in U, NEW a \in 0 .. 1,
         There(rt, C, q, sd) = s, C[s][a] # Nil
  PROVE  /\ C[s][a] \in U /\ C[s][a] # s /\ q # s /\ q # C[s][a] /\ P[s] = q /\ P[C[s][a]] = s
         /\ C[C[s][a]][1 - a] # s /\ C[C[s][a]][1 - a] # C[s][a]
         /\ s \in AVLAddr /\ C[s][a] \in AVLAddr /\ q \in Nodes
<1>1. PICK r, i : r = C[s][a] /\ i = C[r][1 - a]
  OBVIOUS
<1>2. Part(s, U, C, D, a) /\ Nil \notin U /\ U \subseteq AVLAddr
  BY NilApart, PartSides DEF Tree, Typed
<1>3. r \in U /\ r \in D[r] /\ D[r] \subseteq D[s] /\ s \notin D[r]
  BY <1>1, <1>2 DEF Part, Tree, Parted
<1>4. Part(r, U, C, D, a)
  BY <1>3, PartSides DEF Tree
<1>5. i \in U \cup {Nil} /\ (i # Nil => i \in D[r]) /\ i # r
  <2>1. i \in U \cup {Nil} /\ D[i] \subseteq D[r] /\ r \notin D[i]
    BY <1>1, <1>4 DEF Part
  <2>2. i \in U => i \in D[i]
    BY DEF Tree, Parted
  <2>. QED  BY <1>2, <1>3, <2>1, <2>2
<1>6. q # Nil => q \notin D[s]
  BY UpOf
<1>7. s \in D[s]
  BY <1>2 DEF Part
<1>8. P[s] = q
  <2>1. CASE q = Nil
    BY <1>2, <2>1 DEF There, Tree, Parented
  <2>2. CASE q # Nil
    BY <1>2, <2>2 DEF There, Tree, Parented
  <2>. QED  BY <2>1, <2>2
<1>9. P[r] = s
  BY <1>1, <1>2 DEF Tree, Parented
<1>10. q # s /\ q # r
  BY <1>2, <1>3, <1>6, <1>7
<1>11. i # s
  BY <1>2, <1>3, <1>5
<1>. QED  BY <1>1, <1>2, <1>3, <1>5, <1>8, <1>9, <1>10, <1>11 DEF Nodes

\* The balance of x becomes b.
Leaning(nd, x, b) == [nd EXCEPT ![x].b = b]

\* A balance that is assigned changes nothing else.
LEMMA LeaningIs ==
  ASSUME NEW nd \in [AVLAddr -> Record], NEW x \in AVLAddr, NEW b \in -1 .. 1
  PROVE  /\ Leaning(nd, x, b) \in [AVLAddr -> Record]
         /\ \A n \in AVLAddr :
              /\ Leaning(nd, x, b)[n].key = nd[n].key /\ Leaning(nd, x, b)[n].value = nd[n].value
              /\ Leaning(nd, x, b)[n].parent = nd[n].parent
              /\ Leaning(nd, x, b)[n].children = nd[n].children
              /\ Leaning(nd, x, b)[n].b = IF n = x THEN b ELSE nd[n].b
<1>1. PICK nx : nx = [nd[x] EXCEPT !.b = b]
  OBVIOUS
<1>2. PICK nd2 : nd2 = Leaning(nd, x, b)
  OBVIOUS
<1>3. nd2 = [nd EXCEPT ![x] = nx]
  BY <1>1, <1>2 DEF Leaning
<1>4. /\ nx \in Record /\ nx.b = b /\ nx.parent = nd[x].parent /\ nx.children = nd[x].children
      /\ nx.key = nd[x].key /\ nx.value = nd[x].value
  <2>1. nd[x] \in Record
    OBVIOUS
  <2>. QED  BY <1>1, <2>1 DEF Record
<1>5. nd2 \in [AVLAddr -> Record] /\ \A n \in AVLAddr : nd2[n] = IF n = x THEN nx ELSE nd[n]
  BY <1>3, <1>4
<1>. QED  BY <1>2, <1>4, <1>5

\* A rotation is one whatever balances are assigned after it.
LEMMA SwungLeaning ==
  ASSUME NEW nd \in [AVLAddr -> Record], NEW nd1 \in [AVLAddr -> Record], NEW s, NEW a,
         Swung(nd, nd1, s, a), NEW x \in AVLAddr, NEW b \in -1 .. 1
  PROVE  Swung(nd, Leaning(nd1, x, b), s, a)
<1>1. PICK nd2 : nd2 = Leaning(nd1, x, b)
  OBVIOUS
<1>2. /\ nd2 \in [AVLAddr -> Record]
      /\ \A n \in AVLAddr : /\ nd2[n].key = nd1[n].key /\ nd2[n].value = nd1[n].value
                            /\ nd2[n].parent = nd1[n].parent /\ nd2[n].children = nd1[n].children
  BY <1>1, LeaningIs
<1>3. Swung(nd, nd2, s, a)
  BY <1>2 DEF Swung, Keeps
<1>. QED  BY <1>1, <1>3

\* The balances that nd3 has are those of nd2.
SameLeans(nd2, nd3) == \A n \in AVLAddr : Leans(nd3)[n] = nd2[n].b

\* nd2, which is nd rotated at s, and stored, is nd3, and rt3 the root.
Rotated(nd, nd2, rt, s, a, q, sd, r, rt3, nd3) ==
  /\ nd3 \in [AVLAddr -> Record] /\ rt3 = RootWith(rt, q, r) /\ Keeps(nd, nd3)
  /\ Turned(rt, Kids(nd), Parents(nd), s, a, q, sd, Kids(nd3), Parents(nd3))
  /\ SameLeans(nd2, nd3)

\* What is stored after a rotation at s is the tree turned.
LEMMA RotationStep ==
  ASSUME NEW nd \in [AVLAddr -> Record], NEW nd2, NEW U, NEW C, NEW P, NEW D,
         C = Kids(nd), P = Parents(nd), Tree(U, root, C, P, D),
         NEW up \in Seq(Steps), NEW q \in U \cup {Nil}, NEW sd \in 0 .. 1, q = Lowest(up), sd = Turn(up),
         NEW s \in U, End(root, C, up) = s,
         NEW a \in 0 .. 1, NEW r, r = C[s][a], r # Nil,
         Swung(nd, nd2, s, a), AVL!Store(nd2, up, r)
  PROVE  Rotated(nd, nd2, root, s, a, q, sd, r, root', node')
<1>2. q \in U \cup {Nil} /\ sd \in 0 .. 1 /\ There(root, C, q, sd) = s
  BY DEF End
<1>3. r \in U /\ q # s /\ q # r /\ P[s] = q /\ s \in AVLAddr /\ r \in AVLAddr /\ q \in Nodes /\ r \in Nodes
  BY <1>2, Apart DEF Nodes
<1>4. nd[s].parent = q /\ nd[s].children[a] = r
  BY <1>3, Memory
<1>5. nd2 \in [AVLAddr -> Record] /\ Keeps(nd, nd2)
  BY DEF Swung
<1>6. root' = RootWith(root, q, r) /\ Pointed(nd2, node', q, sd, r)
  BY <1>3, <1>5, StoreIs
<1>7. PICK nd3 : nd3 = node'
  OBVIOUS
<1>8. Turned(root, Kids(nd), Parents(nd), s, a, q, sd, Kids(nd3), Parents(nd3))
  BY <1>2, <1>3, <1>4, <1>6, <1>7, SwungTurned
<1>9. nd3 \in [AVLAddr -> Record] /\ \A n \in AVLAddr : nd3[n].b = nd2[n].b
  BY <1>6, <1>7 DEF Pointed
<1>10. SameLeans(nd2, nd3)
  BY <1>9, Memory DEF SameLeans
<1>11. Keeps(nd, nd3)
  BY <1>5, <1>6, <1>7 DEF Keeps, Pointed
<1>. QED  BY <1>6, <1>7, <1>8, <1>9, <1>10, <1>11 DEF Rotated

\* Rotate where the tree is, with the addresses that it turns.
LEMMA RotateInTree ==
  ASSUME NEW nd \in [AVLAddr -> Record], NEW U, NEW C, NEW P, NEW D, NEW rt,
         C = Kids(nd), P = Parents(nd), Tree(U, rt, C, P, D),
         NEW q \in U \cup {Nil}, NEW sd \in 0 .. 1, NEW s \in U, There(rt, C, q, sd) = s,
         NEW a \in 0 .. 1, NEW r, r = C[s][a], r # Nil
  PROVE  /\ Swung(nd, AVL!Rotate(nd, Dir(a), s), s, a)
         /\ AVL!Rotate(nd, Dir(a), s) \in [AVLAddr -> Record]
         /\ \A n \in AVLAddr : AVL!Rotate(nd, Dir(a), s)[n].b = nd[n].b
         /\ nd[s].children[a] = r /\ nd[s].children[AVL!SideOf(Dir(a))] = r
         /\ s \in AVLAddr /\ r \in AVLAddr /\ s # r
<1>1. r \in U /\ r # s /\ C[r][1 - a] # s /\ C[r][1 - a] # r /\ s \in AVLAddr /\ r \in AVLAddr
  BY Apart
<1>2. nd[s].children[a] = r /\ nd[r].children[1 - a] = C[r][1 - a]
  BY <1>1, Memory
<1>3. AVL!SideOf(Dir(a)) = a
  BY Sides
<1>4. /\ Swung(nd, AVL!Rotate(nd, Dir(a), s), s, a)
      /\ \A n \in AVLAddr : AVL!Rotate(nd, Dir(a), s)[n].b = nd[n].b
  BY <1>1, <1>2, RotateIs
<1>5. AVL!Rotate(nd, Dir(a), s) \in [AVLAddr -> Record]
  BY <1>4 DEF Swung
<1>. QED  BY <1>1, <1>2, <1>3, <1>4, <1>5

\* SingleRotate swings, and levels the two nodes.
LEMMA SingleIs ==
  ASSUME NEW nd \in [AVLAddr -> Record], NEW U, NEW C, NEW P, NEW D, NEW rt,
         C = Kids(nd), P = Parents(nd), Tree(U, rt, C, P, D),
         NEW q \in U \cup {Nil}, NEW sd \in 0 .. 1, NEW s \in U, There(rt, C, q, sd) = s,
         NEW a \in 0 .. 1, NEW r, r = C[s][a], r # Nil
  PROVE  /\ Swung(nd, AVL!SingleRotate(nd, Dir(a), s), s, a)
         /\ \A n \in AVLAddr :
              AVL!SingleRotate(nd, Dir(a), s)[n].b = IF n = s \/ n = r THEN 0 ELSE nd[n].b
<1>1. PICK nd1, nd2, nds, b : /\ nd1 = AVL!Rotate(nd, Dir(a), s) /\ b = 0 /\ nds = Leaning(nd1, s, b)
                              /\ nd2 = AVL!SingleRotate(nd, Dir(a), s)
  OBVIOUS
<1>2. /\ Swung(nd, nd1, s, a) /\ nd1 \in [AVLAddr -> Record] /\ \A n \in AVLAddr : nd1[n].b = nd[n].b
      /\ nd[s].children[AVL!SideOf(Dir(a))] = r /\ s \in AVLAddr /\ r \in AVLAddr /\ b \in -1 .. 1
  BY <1>1, RotateInTree
<1>3. nd2 = Leaning(nds, r, b)
  BY <1>1, <1>2 DEF AVL!SingleRotate, Leaning
<1>4. /\ nds \in [AVLAddr -> Record] /\ \A n \in AVLAddr : nds[n].b = IF n = s THEN b ELSE nd1[n].b
  BY <1>1, <1>2, LeaningIs
<1>5. Swung(nd, nds, s, a)
  BY <1>1, <1>2, SwungLeaning
<1>6. PICK x : x = r
  OBVIOUS
<1>7. nd2 = Leaning(nds, x, b) /\ x \in AVLAddr
  BY <1>2, <1>3, <1>6
<1>8. \A n \in AVLAddr : Leaning(nds, x, b)[n].b = IF n = x THEN b ELSE nds[n].b
  <2>1. nds \in [AVLAddr -> Record] /\ x \in AVLAddr /\ b \in -1 .. 1
    BY <1>2, <1>4, <1>7
  <2>. QED  BY <2>1, LeaningIs
<1>9. Swung(nd, Leaning(nds, x, b), s, a)
  BY <1>2, <1>4, <1>5, <1>7, SwungLeaning
<1>. QED  BY <1>1, <1>2, <1>4, <1>6, <1>7, <1>8, <1>9

\* The rotation of RemoveRotateLevel swings, and assigns one balance.
LEMMA LevelIs ==
  ASSUME NEW nd \in [AVLAddr -> Record], NEW U, NEW C, NEW P, NEW D, NEW rt,
         C = Kids(nd), P = Parents(nd), Tree(U, rt, C, P, D),
         NEW q \in U \cup {Nil}, NEW sd \in 0 .. 1, NEW s \in U, There(rt, C, q, sd) = s,
         NEW a \in 0 .. 1, NEW r, r = C[s][a], r # Nil, NEW b \in -1 .. 1
  PROVE  /\ Swung(nd, Leaning(AVL!Rotate(nd, Dir(a), s), r, b), s, a)
         /\ \A n \in AVLAddr :
              Leaning(AVL!Rotate(nd, Dir(a), s), r, b)[n].b = IF n = r THEN b ELSE nd[n].b
<1>1. PICK nd1, x : nd1 = AVL!Rotate(nd, Dir(a), s) /\ x = r
  OBVIOUS
<1>2. /\ Swung(nd, nd1, s, a) /\ nd1 \in [AVLAddr -> Record] /\ \A n \in AVLAddr : nd1[n].b = nd[n].b
      /\ x \in AVLAddr
  BY <1>1, RotateInTree
<1>3. \A n \in AVLAddr : Leaning(nd1, x, b)[n].b = IF n = x THEN b ELSE nd1[n].b
  BY <1>2, LeaningIs
<1>4. Swung(nd, Leaning(nd1, x, b), s, a)
  BY <1>2, SwungLeaning
<1>. QED  BY <1>1, <1>2, <1>3, <1>4

\* DoubleRotate swings twice, and gives balances that depend on what p had.
LEMMA DoubleIs ==
  ASSUME NEW nd \in [AVLAddr -> Record], NEW U, NEW C, NEW P, NEW D, NEW rt,
         C = Kids(nd), P = Parents(nd), Tree(U, rt, C, P, D),
         NEW q \in U \cup {Nil}, NEW sd \in 0 .. 1, NEW s \in U, There(rt, C, q, sd) = s,
         NEW a \in 0 .. 1, NEW r, r = C[s][a], r # Nil, NEW p, p = C[r][1 - a], p # Nil
  PROVE  \E nd1 \in [AVLAddr -> Record] :
           /\ Keeps(nd, nd1) /\ \A n \in AVLAddr : nd1[n].b = nd[n].b
           /\ Bends(U, rt, C, P, D, q, sd, s, a, r, p, Kids(nd1), Parents(nd1))
           /\ Swung(nd1, AVL!DoubleRotate(nd, Dir(a), s), s, a)
           /\ \A n \in AVLAddr :
                AVL!DoubleRotate(nd, Dir(a), s)[n].b =
                  IF n = s THEN IF nd[p].b = Dir(a) THEN -Dir(a) ELSE 0
                  ELSE IF n = r THEN IF nd[p].b = -Dir(a) THEN Dir(a) ELSE 0
                  ELSE IF n = p THEN 0 ELSE nd[n].b
<1>1. PICK c, d : c = Dir(a) /\ d = 1 - a
  OBVIOUS
<1>2. d \in 0 .. 1 /\ AVL!SideOf(c) = a /\ 1 - AVL!SideOf(c) = d /\ -c = Dir(d) /\ c \in -1 .. 1
      /\ -c \in -1 .. 1
  BY <1>1, Sides
<1>3. /\ r \in U /\ r # s /\ s \in AVLAddr /\ r \in AVLAddr /\ P[r] = s
      /\ C[r][d] = p /\ s # Nil /\ There(rt, C, s, a) = r /\ p # s
  <2>1. C[s][a] \in U /\ C[s][a] # s /\ P[C[s][a]] = s /\ s \in AVLAddr /\ C[s][a] \in AVLAddr
        /\ C[C[s][a]][1 - a] # s
    BY Apart
  <2>2. s # Nil
    BY <2>1, NilApart
  <2>. QED  BY <1>1, <2>1, <2>2 DEF There
<1>4. C[r][d] # Nil /\ s \in U \cup {Nil}
  BY <1>3
<1>5. p \in U /\ p # r /\ p \in AVLAddr /\ p \in Nodes /\ s \in Nodes
  BY <1>2, <1>3, <1>4, Apart DEF Nodes
<1>6. PICK nd0 : nd0 = AVL!Rotate(nd, Dir(d), r)
  OBVIOUS
<1>7. Swung(nd, nd0, r, d) /\ nd0 \in [AVLAddr -> Record] /\ \A n \in AVLAddr : nd0[n].b = nd[n].b
  BY <1>2, <1>3, <1>4, <1>5, <1>6, RotateInTree
<1>8. nd[s].children[a] = r /\ nd[r].children[d] = p /\ nd[r].parent = s
  BY <1>3, Memory
<1>9. PICK nd1 : nd1 = AVL!Bent(nd, c, s)
  OBVIOUS
<1>10. nd1 = [nd0 EXCEPT ![s].children[a] = p]
  <2>1. /\ nd[s].children[AVL!SideOf(c)] = r
        /\ nd[nd[s].children[AVL!SideOf(c)]].children[1 - AVL!SideOf(c)] = p
    BY <1>2, <1>8
  <2>2. nd1 = [AVL!Rotate(nd, -c, nd[s].children[AVL!SideOf(c)]) EXCEPT
                 ![s].children[AVL!SideOf(c)]
                   = nd[nd[s].children[AVL!SideOf(c)]].children[1 - AVL!SideOf(c)]]
    BY <1>9 DEF AVL!Bent
  <2>. QED  BY <1>2, <1>6, <2>1, <2>2
<1>11. Pointed(nd0, nd1, s, a, p)
  BY <1>3, <1>5, <1>7, <1>10, PointedIs
<1>12. Turned(rt, Kids(nd), Parents(nd), r, d, s, a, Kids(nd1), Parents(nd1))
  BY <1>2, <1>3, <1>5, <1>7, <1>8, <1>11, SwungTurned
<1>13. nd1 \in [AVLAddr -> Record] /\ Keeps(nd, nd1) /\ \A n \in AVLAddr : nd1[n].b = nd[n].b
  <2>1. Keeps(nd, nd0)
    BY <1>7 DEF Swung
  <2>2. nd1 \in [AVLAddr -> Record] /\ Keeps(nd0, nd1) /\ \A n \in AVLAddr : nd1[n].b = nd0[n].b
    BY <1>11 DEF Pointed
  <2>3. Keeps(nd, nd1)
    BY <2>1, <2>2 DEF Keeps
  <2>. QED  BY <1>7, <2>2, <2>3
<1>14. PICK C1, P1, D1 : C1 = Kids(nd1) /\ P1 = Parents(nd1) /\ D1 = TurnedD(C, D, r, 1 - a)
  OBVIOUS
<1>15. Bends(U, rt, C, P, D, q, sd, s, a, r, p, C1, P1)
  BY <1>1, <1>12, <1>14 DEF Bends
<1>16. Tree(U, rt, C1, P1, D1) /\ There(rt, C1, q, sd) = s /\ C1[s][a] = p
  <2>1. Bent(U, rt, C, D, q, sd, s, a, r, p, C1, P1)
    BY <1>15, DoubleTree
  <2>. QED  BY <1>14, <2>1 DEF Bent
<1>17. PICK nd2 : nd2 = AVL!Rotate(nd1, Dir(a), s)
  OBVIOUS
<1>18. Swung(nd1, nd2, s, a) /\ nd2 \in [AVLAddr -> Record] /\ \A n \in AVLAddr : nd2[n].b = nd1[n].b
  BY <1>13, <1>14, <1>16, <1>17, RotateInTree
<1>19. PICK bs, br, bp : /\ bs = (IF nd[p].b = c THEN -c ELSE 0)
                         /\ br = (IF nd[p].b = -c THEN c ELSE 0) /\ bp = 0
  OBVIOUS
<1>20. bs \in -1 .. 1 /\ br \in -1 .. 1 /\ bp \in -1 .. 1
  BY <1>2, <1>19
<1>21. PICK nds, ndr, ndp, x : /\ nds = Leaning(nd2, s, bs) /\ ndr = Leaning(nds, x, br)
                               /\ ndp = Leaning(ndr, p, bp) /\ x = r
  OBVIOUS
<1>22. /\ nds \in [AVLAddr -> Record] /\ Swung(nd1, nds, s, a)
       /\ \A n \in AVLAddr : nds[n].b = IF n = s THEN bs ELSE nd2[n].b
  <2>1. s \in AVLAddr /\ nds = Leaning(nd2, s, bs)
    BY <1>3, <1>21
  <2>2. nds \in [AVLAddr -> Record] /\ \A n \in AVLAddr : nds[n].b = IF n = s THEN bs ELSE nd2[n].b
    BY <1>18, <1>20, <2>1, LeaningIs
  <2>3. Swung(nd1, nds, s, a)
    BY <1>13, <1>18, <1>20, <2>1, SwungLeaning
  <2>. QED  BY <2>2, <2>3
<1>23. /\ ndr \in [AVLAddr -> Record] /\ Swung(nd1, ndr, s, a)
       /\ \A n \in AVLAddr : ndr[n].b = IF n = x THEN br ELSE nds[n].b
  <2>1. x \in AVLAddr /\ ndr = Leaning(nds, x, br) /\ nds \in [AVLAddr -> Record]
    BY <1>3, <1>21, <1>22
  <2>2. ndr \in [AVLAddr -> Record] /\ \A n \in AVLAddr : ndr[n].b = IF n = x THEN br ELSE nds[n].b
    BY <1>20, <2>1, LeaningIs
  <2>3. Swung(nd1, ndr, s, a)
    BY <1>13, <1>20, <1>22, <2>1, SwungLeaning
  <2>. QED  BY <2>2, <2>3
<1>24. /\ ndp \in [AVLAddr -> Record] /\ Swung(nd1, ndp, s, a)
       /\ \A n \in AVLAddr : ndp[n].b = IF n = p THEN bp ELSE ndr[n].b
  <2>1. p \in AVLAddr /\ ndp = Leaning(ndr, p, bp) /\ ndr \in [AVLAddr -> Record]
    BY <1>5, <1>21, <1>23
  <2>2. ndp \in [AVLAddr -> Record] /\ \A n \in AVLAddr : ndp[n].b = IF n = p THEN bp ELSE ndr[n].b
    BY <1>20, <2>1, LeaningIs
  <2>3. Swung(nd1, ndp, s, a)
    BY <1>13, <1>20, <1>23, <2>1, SwungLeaning
  <2>. QED  BY <2>2, <2>3
<1>25. ndp = AVL!DoubleRotate(nd, c, s)
  <2>1. PICK y, z : y = nd[s].children[AVL!SideOf(c)]
                    /\ z = nd[nd[s].children[AVL!SideOf(c)]].children[1 - AVL!SideOf(c)]
    OBVIOUS
  <2>2. y = r /\ z = p
    BY <1>2, <1>8, <2>1
  <2>3. AVL!DoubleRotate(nd, c, s)
          = [AVL!Rotate(AVL!Bent(nd, c, s), c, s) EXCEPT
               ![s].b = IF nd[z].b = c THEN -c ELSE 0,
               ![y].b = IF nd[z].b = -c THEN c ELSE 0,
               ![z].b = 0]
    BY <2>1 DEF AVL!DoubleRotate
  <2>4. AVL!Rotate(AVL!Bent(nd, c, s), c, s) = nd2
    BY <1>1, <1>9, <1>17
  <2>. QED  BY <1>19, <1>21, <2>2, <2>3, <2>4 DEF Leaning
<1>26. \A n \in AVLAddr :
          ndp[n].b = IF n = s THEN bs ELSE IF n = r THEN br ELSE IF n = p THEN 0 ELSE nd[n].b
  <2>1. x = r /\ s # r /\ p # r /\ p # s /\ bp = 0
    BY <1>3, <1>5, <1>19, <1>21
  <2>2. \A n \in AVLAddr : ndr[n].b = IF n = r THEN br ELSE nds[n].b
    BY <1>23, <2>1
  <2>3. \A n \in AVLAddr : ndp[n].b = IF n = p THEN 0 ELSE ndr[n].b
    BY <1>24, <2>1
  <2>4. \A n \in AVLAddr : nds[n].b = IF n = s THEN bs ELSE nd2[n].b
    BY <1>22
  <2>5. \A n \in AVLAddr : nd2[n].b = nd[n].b
    <3>1. \A n \in AVLAddr : nd2[n].b = nd1[n].b
      BY <1>18
    <3>2. \A n \in AVLAddr : nd1[n].b = nd[n].b
      BY <1>13
    <3>. QED  BY <3>1, <3>2
  <2>. QED  BY <2>1, <2>2, <2>3, <2>4, <2>5
<1>27. nd1 \in [AVLAddr -> Record] /\ Keeps(nd, nd1) /\ \A n \in AVLAddr : nd1[n].b = nd[n].b
  BY <1>13
<1>28. Bends(U, rt, C, P, D, q, sd, s, a, r, p, Kids(nd1), Parents(nd1))
  BY ONLY <1>14, <1>15
<1>29. Swung(nd1, AVL!DoubleRotate(nd, Dir(a), s), s, a)
  BY ONLY <1>1, <1>24, <1>25
<1>30. \A n \in AVLAddr :
          AVL!DoubleRotate(nd, Dir(a), s)[n].b =
            IF n = s THEN IF nd[p].b = Dir(a) THEN -Dir(a) ELSE 0
            ELSE IF n = r THEN IF nd[p].b = -Dir(a) THEN Dir(a) ELSE 0
            ELSE IF n = p THEN 0 ELSE nd[n].b
  BY ONLY <1>1, <1>19, <1>25, <1>26
<1>. QED  BY ONLY <1>27, <1>28, <1>29, <1>30

-----------------------------------------------------------------------------
(* What linking and unlinking a node do to the nodes.                       *)

\* Where a node is, and its parent.
LEMMA ParentIs ==
  ASSUME NEW U, NEW rt, NEW C, NEW P, NEW D, Tree(U, rt, C, P, D),
         NEW q \in U \cup {Nil}, NEW sd \in 0 .. 1, NEW x \in U, There(rt, C, q, sd) = x
  PROVE  /\ P[x] = q /\ q # x /\ x \in AVLAddr /\ q \in Nodes
         /\ C[x][0] \in U \cup {Nil} /\ C[x][1] \in U \cup {Nil} /\ C[x][0] # x /\ C[x][1] # x
<1>1. Nil \notin U /\ U \subseteq AVLAddr
  BY NilApart DEF Tree, Typed
<1>2. P[x] = q
  <2>1. CASE q = Nil
    BY <1>1, <2>1 DEF There, Tree, Parented
  <2>2. CASE q # Nil
    BY <1>1, <2>2 DEF There, Tree, Parented
  <2>. QED  BY <2>1, <2>2
<1>3. q # x
  BY <1>1, UpOf
<1>4. C[x][0] \in U \cup {Nil} /\ C[x][1] \in U \cup {Nil} /\ x \in D[x] /\ x \notin D[C[x][0]] /\ x \notin D[C[x][1]]
  BY DEF Tree, Parted
<1>5. C[x][0] # x /\ C[x][1] # x
  BY <1>4
<1>. QED  BY <1>1, <1>2, <1>3, <1>4, <1>5 DEF Nodes

\* The fields of a node that is not in use.
Clean(r) ==
  r.key = Nil /\ r.value = Nil /\ r.parent = Nil /\ r.b = 0 /\ \A d \in 0 .. 1 : r.children[d] = Nil

\* A node that is not in use is Blank.
LEMMA BlankIs ==
  /\ AVL!Blank \in Record /\ Clean(AVL!Blank)
  /\ \A r \in Record : Clean(r) => r = AVL!Blank
<1>1. PICK none : none = [d \in 0 .. 1 |-> Nil]
  OBVIOUS
<1>2. AVL!Blank = [key |-> Nil, value |-> Nil, parent |-> Nil, children |-> none, b |-> 0]
  BY <1>1 DEF AVL!Blank, AVL!Side
<1>3. none \in [0 .. 1 -> Nodes] /\ \A d \in 0 .. 1 : none[d] = Nil
  BY <1>1, NilApart
<1>4. AVL!Blank \in Record /\ Clean(AVL!Blank)
  BY <1>2, <1>3, NilApart DEF Record, Clean
<1>5. ASSUME NEW r \in Record, Clean(r) PROVE r = AVL!Blank
  <2>1. r.children \in [0 .. 1 -> Nodes] /\ \A d \in 0 .. 1 : r.children[d] = Nil
    BY <1>5 DEF Record, Clean
  <2>2. r.children = none
    BY <1>1, <2>1
  <2>3. r = [key |-> r.key, value |-> r.value, parent |-> r.parent, children |-> r.children, b |-> r.b]
    BY <1>5 DEF Record
  <2>. QED  BY <1>2, <1>5, <2>2, <2>3 DEF Clean
<1>. QED  BY <1>4, <1>5

\* What the model's Spliced does to the fields of the nodes.
LEMMA SplicedIs ==
  ASSUME NEW nd \in [AVLAddr -> Record], NEW path, NEW x \in AVLAddr, AVL!At(path) = x,
         NEW a \in 0 .. 1, NEW y, y = nd[x].children[1 - a], y # x, NEW nd2, nd2 = AVL!Spliced(nd, path, a)
  PROVE  /\ nd2 \in [AVLAddr -> Record] /\ Clean(nd2[x])
         /\ \A n \in AVLAddr : n # x =>
              /\ nd2[n].key = nd[n].key /\ nd2[n].value = nd[n].value /\ nd2[n].b = nd[n].b
              /\ nd2[n].children = nd[n].children
              /\ nd2[n].parent = IF n = y THEN nd[x].parent ELSE nd[n].parent
<1>1. PICK gone, blank : blank = AVL!Blank /\ gone = [nd EXCEPT ![x] = blank]
  OBVIOUS
<1>2. blank \in Record /\ Clean(blank)
  BY <1>1, BlankIs
<1>3. gone \in [AVLAddr -> Record] /\ gone[x] = blank /\ \A n \in AVLAddr : n # x => gone[n] = nd[n]
  BY <1>1, <1>2
<1>4. nd[x] \in Record /\ y \in Nodes
  BY Sides DEF Record
<1>5. nd2 = IF y = Nil THEN gone ELSE [gone EXCEPT ![y].parent = nd[x].parent]
  BY <1>1 DEF AVL!Spliced
<1>6. CASE y = Nil
  <2>1. \A n \in AVLAddr : n # y
    BY <1>6, NilApart
  <2>2. nd2 = gone
    BY <1>5, <1>6
  <2>. QED  BY <1>2, <1>3, <2>1, <2>2
<1>7. CASE y # Nil
  <2>1. PICK ny : ny = [gone[y] EXCEPT !.parent = nd[x].parent]
    OBVIOUS
  <2>2. y \in AVLAddr /\ gone[y] = nd[y]
    BY <1>3, <1>4, <1>7 DEF Nodes
  <2>3. nd2 = [gone EXCEPT ![y] = ny]
    BY <1>5, <1>7, <2>1
  <2>4. /\ ny \in Record /\ ny.parent = nd[x].parent /\ ny.key = nd[y].key /\ ny.value = nd[y].value
        /\ ny.b = nd[y].b /\ ny.children = nd[y].children
    BY <1>4, <2>1, <2>2 DEF Record
  <2>5. nd2 \in [AVLAddr -> Record] /\ \A n \in AVLAddr : nd2[n] = IF n = y THEN ny ELSE gone[n]
    BY <1>3, <2>2, <2>3, <2>4
  <2>. QED  BY <1>2, <1>3, <2>4, <2>5
<1>. QED  BY <1>6, <1>7

\* Spliced and then stored, a node gives its place to its child in the tree.
LEMMA SpliceStep ==
  ASSUME NEW nd \in [AVLAddr -> Record], NEW U, NEW C, NEW P, NEW D,
         C = Kids(nd), P = Parents(nd), Tree(U, root, C, P, D),
         NEW path \in Seq(Steps), NEW q \in U \cup {Nil}, NEW sd \in 0 .. 1,
         q = Lowest(path), sd = Turn(path),
         NEW x \in U, There(root, C, q, sd) = x, AVL!At(path) = x,
         NEW a \in 0 .. 1, C[x][a] = Nil, NEW y, y = C[x][1 - a],
         AVL!Store(AVL!Spliced(nd, path, a), path, y)
  PROVE  /\ node' \in [AVLAddr -> Record] /\ root' = RootWith(root, q, y)
         /\ Spliced(root, C, P, x, a, q, sd, Kids(node'), Parents(node'))
         /\ Clean(node'[x])
         /\ \A n \in AVLAddr : n # x =>
              node'[n].key = nd[n].key /\ node'[n].value = nd[n].value /\ node'[n].b = nd[n].b
<1>1. PICK nd2, nd3, o : nd2 = AVL!Spliced(nd, path, a) /\ nd3 = node' /\ o = 1 - a
  OBVIOUS
<1>2. /\ P[x] = q /\ q # x /\ x \in AVLAddr /\ q \in Nodes
      /\ C[x][0] \in U \cup {Nil} /\ C[x][1] \in U \cup {Nil} /\ C[x][0] # x /\ C[x][1] # x
  BY ParentIs
<1>3. (a = 0 /\ o = 1) \/ (a = 1 /\ o = 0)
  BY <1>1
<1>4. y = C[x][o]
  BY <1>1
<1>5. y \in Nodes /\ y # x
  <2>1. U \subseteq AVLAddr
    BY DEF Tree, Typed
  <2>. QED  BY <1>2, <1>3, <1>4, <2>1 DEF Nodes
<1>6. /\ \A n \in AVLAddr : C[n] = nd[n].children /\ P[n] = nd[n].parent
      /\ C \in [AVLAddr -> [0 .. 1 -> Nodes]] /\ P \in [AVLAddr -> Nodes]
  BY Memory
<1>7. y = nd[x].children[1 - a] /\ nd[x].parent = q
  BY <1>2, <1>6
<1>8. /\ nd2 \in [AVLAddr -> Record] /\ Clean(nd2[x])
      /\ \A n \in AVLAddr : n # x =>
           /\ nd2[n].key = nd[n].key /\ nd2[n].value = nd[n].value /\ nd2[n].b = nd[n].b
           /\ nd2[n].children = nd[n].children
           /\ nd2[n].parent = IF n = y THEN nd[x].parent ELSE nd[n].parent
  BY <1>1, <1>2, <1>5, <1>7, SplicedIs
<1>9. root' = RootWith(root, q, y) /\ Pointed(nd2, nd3, q, sd, y)
  BY <1>1, <1>5, <1>8, StoreIs
<1>10. /\ nd3 \in [AVLAddr -> Record]
       /\ \A n \in AVLAddr : /\ nd3[n].key = nd2[n].key /\ nd3[n].value = nd2[n].value
                             /\ nd3[n].b = nd2[n].b /\ nd3[n].parent = nd2[n].parent
       /\ \A n \in AVLAddr : \A d \in 0 .. 1 :
             nd3[n].children[d] = IF n = q /\ d = sd THEN y ELSE nd2[n].children[d]
  BY <1>9 DEF Pointed, Keeps
<1>11. Clean(nd3[x])
  BY <1>2, <1>8, <1>10 DEF Clean
<1>12. \A n \in AVLAddr : n # x =>
          nd3[n].key = nd[n].key /\ nd3[n].value = nd[n].value /\ nd3[n].b = nd[n].b
  BY <1>8, <1>10
<1>13. PICK C3, P3 : C3 = Kids(nd3) /\ P3 = Parents(nd3)
  OBVIOUS
<1>14. /\ C3 \in [AVLAddr -> [0 .. 1 -> Nodes]] /\ P3 \in [AVLAddr -> Nodes]
       /\ \A n \in AVLAddr : C3[n] = nd3[n].children /\ P3[n] = nd3[n].parent
  BY <1>10, <1>13, Memory
<1>15. ASSUME NEW n \in AVLAddr, n # x, NEW d \in 0 .. 1
       PROVE  C3[n][d] = IF n = q /\ d = sd THEN y ELSE C[n][d]
  <2>1. C3[n][d] = nd3[n].children[d] /\ C[n][d] = nd2[n].children[d]
    BY <1>6, <1>8, <1>14, <1>15
  <2>2. nd3[n].children[d] = IF n = q /\ d = sd THEN y ELSE nd2[n].children[d]
    BY <1>10
  <2>. QED  BY ONLY <2>1, <2>2
<1>16. ASSUME NEW n \in AVLAddr, n # x PROVE P3[n] = IF n = y THEN q ELSE P[n]
  <2>1. P3[n] = nd3[n].parent /\ nd3[n].parent = nd2[n].parent
    BY <1>10, <1>14
  <2>2. nd2[n].parent = IF n = y THEN q ELSE nd[n].parent
    BY <1>7, <1>8, <1>16
  <2>3. nd[n].parent = P[n]
    BY <1>6
  <2>. QED  BY ONLY <2>1, <2>2, <2>3
<1>17. Spliced(root, C, P, x, a, q, sd, C3, P3)
  BY <1>14, <1>15, <1>16 DEF Spliced
<1>. QED  BY <1>1, <1>9, <1>10, <1>11, <1>12, <1>13, <1>17

\* x is linked under q on the side sd with the key k and the value v.
Grown(nd, nd2, rt, C, P, x, q, sd, k, v, rt2) ==
  /\ nd2 \in [AVLAddr -> Record] /\ rt2 = RootWith(rt, q, x)
  /\ Linked(C, P, x, q, sd, Kids(nd2), Parents(nd2))
  /\ nd2[x].key = k /\ nd2[x].value = v /\ nd2[x].b = 0
  /\ \A n \in AVLAddr : n # x =>
       nd2[n].key = nd[n].key /\ nd2[n].value = nd[n].value /\ nd2[n].b = nd[n].b

\* A new node that is stored at the end of a path is linked there.
LEMMA LinkStep ==
  ASSUME NEW nd \in [AVLAddr -> Record], NEW U, NEW C, NEW P,
         C = Kids(nd), P = Parents(nd), U \subseteq AVLAddr,
         NEW path \in Seq(Steps), NEW q \in U \cup {Nil}, NEW sd \in 0 .. 1,
         q = Lowest(path), sd = Turn(path),
         NEW x \in AVLAddr \ U, NEW k \in AVLKeys, NEW v \in AVLKeys \cup {0},
         NEW nd1, nd1 = [nd EXCEPT ![x] = [AVL!Blank EXCEPT !.key = k, !.value = v, !.parent = q]],
         AVL!Store(nd1, path, x)
  PROVE  Grown(nd, node', root, C, P, x, q, sd, k, v, root')
<1>1. PICK nx, nd2, nd3 : /\ nx = [AVL!Blank EXCEPT !.key = k, !.value = v, !.parent = q]
                          /\ nd2 = [nd EXCEPT ![x] = nx] /\ nd3 = node'
  OBVIOUS
<1>2. q # x /\ q \in Nodes /\ x \in Nodes
  BY NilApart DEF Nodes
<1>3. /\ nx \in Record /\ nx.key = k /\ nx.value = v /\ nx.parent = q /\ nx.b = 0
      /\ \A d \in 0 .. 1 : nx.children[d] = Nil
  BY <1>1, <1>2, BlankIs DEF Record, Clean
<1>4. nd2 \in [AVLAddr -> Record] /\ \A n \in AVLAddr : nd2[n] = IF n = x THEN nx ELSE nd[n]
  BY <1>1, <1>3
<1>5. AVL!Store(nd2, path, x)
  BY <1>1
<1>6. root' = RootWith(root, q, x) /\ Pointed(nd2, nd3, q, sd, x)
  BY <1>1, <1>2, <1>4, <1>5, StoreIs
<1>7. /\ nd3 \in [AVLAddr -> Record]
      /\ \A n \in AVLAddr : /\ nd3[n].key = nd2[n].key /\ nd3[n].value = nd2[n].value
                            /\ nd3[n].b = nd2[n].b /\ nd3[n].parent = nd2[n].parent
      /\ \A n \in AVLAddr : \A d \in 0 .. 1 :
            nd3[n].children[d] = IF n = q /\ d = sd THEN x ELSE nd2[n].children[d]
  BY <1>6 DEF Pointed, Keeps
<1>8. /\ \A n \in AVLAddr : C[n] = nd[n].children /\ P[n] = nd[n].parent
  BY Memory
<1>9. PICK C3, P3 : C3 = Kids(nd3) /\ P3 = Parents(nd3)
  OBVIOUS
<1>10. /\ C3 \in [AVLAddr -> [0 .. 1 -> Nodes]] /\ P3 \in [AVLAddr -> Nodes]
       /\ \A n \in AVLAddr : C3[n] = nd3[n].children /\ P3[n] = nd3[n].parent
  BY <1>7, <1>9, Memory
<1>11. \A n \in AVLAddr : \A d \in 0 .. 1 :
          C3[n][d] = IF n = x THEN Nil ELSE IF n = q /\ d = sd THEN x ELSE C[n][d]
  BY <1>2, <1>3, <1>4, <1>7, <1>8, <1>10
<1>12. \A n \in AVLAddr : P3[n] = IF n = x THEN q ELSE P[n]
  BY <1>3, <1>4, <1>7, <1>8, <1>10
<1>13. Linked(C, P, x, q, sd, C3, P3)
  BY <1>10, <1>11, <1>12 DEF Linked
<1>14. \A n \in AVLAddr : n # x =>
          nd3[n].key = nd[n].key /\ nd3[n].value = nd[n].value /\ nd3[n].b = nd[n].b
  BY <1>4, <1>7
<1>15. nd3[x].key = k /\ nd3[x].value = v /\ nd3[x].b = 0
  BY <1>3, <1>4, <1>7
<1>. QED  BY <1>1, <1>6, <1>7, <1>9, <1>13, <1>14, <1>15 DEF Grown

=============================================================================
