----------------------------- MODULE TaskRunner -----------------------------
(***************************************************************************)
(* src/collection/taskrunner/taskrunner.go: Schedule takes a place in a    *)
(* buffered channel, waiting for one when it is full, and starts a         *)
(* goroutine that runs the task and gives the place back.                  *)
(*                                                                         *)
(* Callers are goroutines outside; the tasks in Nesters call Schedule      *)
(* themselves while they run.  Task bounds the tasks of a behaviour.       *)
(***************************************************************************)
EXTENDS Naturals, FiniteSets

CONSTANTS Callers, Task,
          Nesters,   \* the tasks that schedule other tasks
          Parallel   \* capacity of the channel

ASSUME TaskRunnerAssumption ==
  /\ Parallel \in Nat
  /\ IsFiniteSet(Task)
  /\ Nesters \subseteq Task
  /\ Callers \cap Task = {}

VARIABLES
  limit,   \* elements in the channel t.limit
  state,   \* how far each task has got
  owner    \* who called Schedule for it

vars == <<limit, state, owner>>

\* "new": not yet scheduled; "sending": its Schedule is at the send;
\* "started": the goroutine exists; "running": in task();
\* "returned": task() is over, the deferred receive is not; "done".
States == {"new", "sending", "started", "running", "returned", "done"}

Init ==
  /\ limit = 0
  /\ state = [i \in Task |-> "new"]
  /\ owner = [i \in Task |-> i]

\* A caller, or a running task, is inside Schedule until its send is done.
Waiting(g) == \E i \in Task : state[i] = "sending" /\ owner[i] = g

Schedule(g, i) ==
  /\ g \in Callers \/ (g \in Nesters /\ state[g] = "running")
  /\ ~Waiting(g)
  /\ state[i] = "new"
  /\ state' = [state EXCEPT ![i] = "sending"]
  /\ owner' = [owner EXCEPT ![i] = g]
  /\ UNCHANGED limit

\* Variants of the operations, marked "Bug", are for testing the properties.
\* Bug: the goroutine is started without a place.
SendAnyway(i) ==
  /\ state[i] = "sending"
  /\ limit' = limit + 1
  /\ state' = [state EXCEPT ![i] = "started"]
  /\ UNCHANGED owner

\* t.limit <- struct{}{}, and go.
Send(i) ==
  /\ state[i] = "sending"
  /\ limit < Parallel
  /\ limit' = limit + 1
  /\ state' = [state EXCEPT ![i] = "started"]
  /\ UNCHANGED owner

Run(i) ==
  /\ state[i] = "started"
  /\ state' = [state EXCEPT ![i] = "running"]
  /\ UNCHANGED <<limit, owner>>

Finish(i) ==
  /\ state[i] = "running"
  /\ ~Waiting(i)
  /\ state' = [state EXCEPT ![i] = "returned"]
  /\ UNCHANGED <<limit, owner>>

\* Bug: two elements are received, or none.
ReceiveTwice(i) ==
  /\ state[i] = "returned"
  /\ limit' = limit - 2
  /\ state' = [state EXCEPT ![i] = "done"]
  /\ UNCHANGED owner

ReceiveForgotten(i) ==
  /\ state[i] = "returned"
  /\ state' = [state EXCEPT ![i] = "done"]
  /\ UNCHANGED <<limit, owner>>

\* The deferred <-t.limit.
Receive(i) ==
  /\ state[i] = "returned"
  /\ limit > 0
  /\ limit' = limit - 1
  /\ state' = [state EXCEPT ![i] = "done"]
  /\ UNCHANGED owner

AllDone == (\A i \in Task : state[i] = "done") /\ UNCHANGED vars

Next ==
  \/ \E i \in Task : \/ \E g \in Callers \cup Nesters : Schedule(g, i)
                     \/ Send(i) \/ Run(i) \/ Finish(i) \/ Receive(i)
  \/ AllDone

Spec == Init /\ [][Next]_vars

\* Goroutines are scheduled, tasks return (unless they wait in Schedule), and
\* a channel serves its senders in the order they came.
FairSpec ==
  Spec /\ \A i \in Task : SF_vars(Send(i)) /\ WF_vars(Run(i) \/ Finish(i) \/ Receive(i))

-----------------------------------------------------------------------------
TypeOK ==
  /\ limit \in Nat
  /\ state \in [Task -> States]
  /\ owner \in [Task -> Callers \cup Task]

\* The tasks whose goroutine exists.
Active == {i \in Task : state[i] \in {"started", "running", "returned"}}

\* No more than Parallel tasks run at a time.
AtMostParallel == Cardinality(Active) <= Parallel

\* A task that has returned finds an element to receive: the deferred
\* receive does not block, and no place is lost or given back twice.
PlacesKept == limit = Cardinality(Active)

\* Every scheduled task is run to its end.  (With as many nesting tasks as
\* there are places they can all be waiting for each other.)
TasksFinish == \A i \in Task : state[i] = "sending" ~> state[i] = "done"
=============================================================================
