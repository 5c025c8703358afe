-------------------------- MODULE TaskRunnerProofs --------------------------
(***************************************************************************)
(* TaskRunner.tla keeps its places, for any number of tasks and callers,   *)
(* any nesting and any capacity: the elements of the channel are exactly   *)
(* the goroutines that have been started and have not received yet.        *)
(***************************************************************************)
EXTENDS TaskRunner, FiniteSetTheorems, TLAPS

PlacesInv == TypeOK /\ PlacesKept /\ limit <= Parallel

\* The tasks with a goroutine are finitely many.
LEMMA ActiveFinite == IsFiniteSet(Active) /\ Cardinality(Active) \in Nat
<1>1. IsFiniteSet(Active)
  BY TaskRunnerAssumption, FS_Subset DEF Active
<1>. QED  BY <1>1, FS_CardinalityType

\* A step that starts or ends no goroutine keeps the places.
LEMMA SamePlaces ==
  ASSUME PlacesInv, Active' = Active, limit' = limit, TypeOK'
  PROVE  PlacesInv'
BY DEF PlacesInv, PlacesKept

LEMMA Initially == Init => PlacesInv
<1> SUFFICES ASSUME Init PROVE PlacesInv
  OBVIOUS
<1>1. Active = {}
  BY DEF Init, Active
<1>2. Cardinality(Active) = 0
  BY <1>1, FS_EmptySet
<1>3. TypeOK
  BY DEF Init, TypeOK, States
<1>. QED  BY <1>2, <1>3, TaskRunnerAssumption DEF PlacesInv, PlacesKept, Init

\* The type invariant, step by step.
LEMMA TypeStep == TypeOK /\ [Next]_vars => TypeOK'
<1> SUFFICES ASSUME TypeOK, [Next]_vars PROVE TypeOK'
  OBVIOUS
<1> USE TaskRunnerAssumption DEF TypeOK, States
<1>1. ASSUME NEW i \in Task, NEW g \in Callers \cup Nesters, Schedule(g, i) PROVE TypeOK'
  BY <1>1 DEF Schedule
<1>2. ASSUME NEW i \in Task, Send(i) PROVE TypeOK'
  BY <1>2 DEF Send
<1>3. ASSUME NEW i \in Task, Run(i) PROVE TypeOK'
  BY <1>3 DEF Run
<1>4. ASSUME NEW i \in Task, Finish(i) PROVE TypeOK'
  BY <1>4 DEF Finish
<1>5. ASSUME NEW i \in Task, Receive(i) PROVE TypeOK'
  BY <1>5 DEF Receive
<1>6. CASE UNCHANGED vars
  BY <1>6 DEF vars
<1>. QED  BY <1>1, <1>2, <1>3, <1>4, <1>5, <1>6 DEF Next, AllDone

\* Send adds a goroutine and an element, the deferred receive removes both;
\* the receive never blocks, because its own element is still there.
LEMMA Inductive == PlacesInv /\ [Next]_vars => PlacesInv'
<1> SUFFICES ASSUME PlacesInv, [Next]_vars PROVE PlacesInv'
  OBVIOUS
<1>0. TypeOK /\ TypeOK'
  BY TypeStep DEF PlacesInv
<1>1. ASSUME NEW i \in Task, NEW g \in Callers \cup Nesters, Schedule(g, i) PROVE PlacesInv'
  <2>1. Active' = Active /\ limit' = limit
    BY <1>0, <1>1 DEF Schedule, Active, TypeOK
  <2>. QED  BY <1>0, <2>1, SamePlaces
<1>2. ASSUME NEW i \in Task, Send(i) PROVE PlacesInv'
  <2>1. Active' = Active \cup {i} /\ i \notin Active
    BY <1>0, <1>2 DEF Send, Active, TypeOK
  <2>2. Cardinality(Active') = Cardinality(Active) + 1
    BY <2>1, ActiveFinite, FS_AddElement
  <2>3. limit' = limit + 1 /\ limit < Parallel
    BY <1>2 DEF Send
  <2>. QED  BY <1>0, <2>2, <2>3, TaskRunnerAssumption DEF PlacesInv, PlacesKept, TypeOK
<1>3. ASSUME NEW i \in Task, Run(i) PROVE PlacesInv'
  <2>1. Active' = Active /\ limit' = limit
    BY <1>0, <1>3 DEF Run, Active, TypeOK
  <2>. QED  BY <1>0, <2>1, SamePlaces
<1>4. ASSUME NEW i \in Task, Finish(i) PROVE PlacesInv'
  <2>1. Active' = Active /\ limit' = limit
    BY <1>0, <1>4 DEF Finish, Active, TypeOK
  <2>. QED  BY <1>0, <2>1, SamePlaces
<1>5. ASSUME NEW i \in Task, Receive(i) PROVE PlacesInv'
  <2>1. Active' = Active \ {i} /\ i \in Active
    BY <1>0, <1>5 DEF Receive, Active, TypeOK
  <2>2. Cardinality(Active') = Cardinality(Active) - 1
    BY <2>1, ActiveFinite, FS_RemoveElement
  <2>3. limit' = limit - 1
    BY <1>5 DEF Receive
  <2>. QED  BY <1>0, <2>2, <2>3, TaskRunnerAssumption DEF PlacesInv, PlacesKept, TypeOK
<1>6. CASE UNCHANGED vars
  <2>1. Active' = Active /\ limit' = limit
    BY <1>6 DEF vars, Active
  <2>. QED  BY <1>0, <2>1, SamePlaces
<1>. QED  BY <1>1, <1>2, <1>3, <1>4, <1>5, <1>6 DEF Next, AllDone

\* Every place of the channel belongs to one goroutine that has been started:
\* none is lost, and no deferred receive waits.
THEOREM Places == Spec => []PlacesKept
<1>1. PlacesInv => PlacesKept
  BY DEF PlacesInv
<1>. QED  BY <1>1, Initially, Inductive, PTL DEF Spec

\* At most Parallel tasks run at a time.
THEOREM Parallelism == Spec => []AtMostParallel
<1>1. PlacesInv => AtMostParallel
  BY DEF PlacesInv, PlacesKept, AtMostParallel
<1>. QED  BY <1>1, Initially, Inductive, PTL DEF Spec
=============================================================================
