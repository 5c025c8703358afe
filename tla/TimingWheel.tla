----------------------------- MODULE TimingWheel -----------------------------
(***************************************************************************)
(* src/collection/timingwheel/timingwheel.go.  One goroutine (run) owns    *)
(* the wheel: it selects between ticks, timers to set, keys to remove and  *)
(* the stop signal.  The setters hand it their requests over unbuffered    *)
(* channels; due timers go through runningChannel to the workers, which    *)
(* start a goroutine for each execution.                                   *)
(*                                                                         *)
(* Time is counted in intervals of the ticker; a delay below one interval  *)
(* is 0.  Timer is the heap of timingEntry structures, a bound on how many *)
(* are alive at a time.                                                    *)
(***************************************************************************)
EXTENDS Naturals, SequencesExt

CONSTANTS Setters,   \* goroutines that call SetTimer, RemoveTimer and Close
          Key, Val,
          Timer,     \* addresses of timingEntry structures
          NumSlots,  \* slots of the wheel
          Delays,    \* the delays asked for
          Worker,    \* capacity of runningChannel
          Second,    \* ticks in a second
          Epoch,     \* ticks from 1970 to the start of the wheel
          Closing,   \* whether Close is called
          Nil

Slot == 0 .. NumSlots - 1

ASSUME WheelAssumption ==
  /\ NumSlots \in Nat \ {0} /\ Worker \in Nat \ {0} /\ Second \in Nat \ {0}
  /\ Delays \subseteq Nat
  /\ Epoch \in Nat /\ \A d \in Delays : Epoch > Second + d
  /\ Closing \in BOOLEAN
  /\ Nil \notin Timer

VARIABLES
  tickedPos, slots, taskPosition,  \* the wheel, as in the struct
  heap,            \* Timer -> timingEntry
  runningChannel,  \* due timers on their way to a worker
  executing,       \* timers whose execute goroutine has been started
  running,         \* the flag read by SetTimer and RemoveTimer
  ticking,         \* the ticker has not been stopped
  tickReady,       \* a tick is in the channel of the ticker
  nanos,           \* time.Now().Nanosecond(), in ticks: the offset in the second
  loop, cursor,    \* run: "select", or "scan" of the slot at an element
  pc, req          \* the setters: next step, and the timer or key at hand

wheel   == <<tickedPos, slots, taskPosition>>
clock   == <<ticking, tickReady, nanos>>
run     == <<loop, cursor>>
setters == <<pc, req>>
vars == <<wheel, heap, runningChannel, executing, running, clock, run, setters>>

NoPosition == [pos |-> 0, item |-> Nil]

\* What the heap holds where nothing points to (the zero value).
Blank == [key |-> Nil, value |-> Nil, base |-> 0, delay |-> 0,
          circle |-> 0, removed |-> FALSE]

Init ==
  /\ tickedPos = 0
  /\ slots = [s \in Slot |-> <<>>]
  /\ taskPosition = [k \in Key |-> NoPosition]
  /\ heap = [e \in Timer |-> Blank]
  /\ runningChannel = <<>> /\ executing = {}
  /\ running = TRUE
  /\ ticking = TRUE /\ tickReady = FALSE /\ nanos = 0
  /\ loop = "select" /\ cursor = 1
  /\ pc = [s \in Setters |-> "idle"]
  /\ req = [s \in Setters |-> Nil]

\* Timers nothing points to.
Free == {e \in Timer : /\ \A s \in Slot : e \notin ToSet(slots[s])
                       /\ \A k \in Key : taskPosition[k].item # e
                       /\ e \notin ToSet(runningChannel) \cup executing
                       /\ \A s \in Setters : req[s] # e}

-----------------------------------------------------------------------------
(* SetTimer, RemoveTimer and Close, up to the channel. *)

SetTimer(s, k, v, d) ==
  LET e == CHOOSE x \in Free : TRUE IN
  /\ pc[s] = "idle" /\ running
  /\ Free # {}
  /\ heap' = [heap EXCEPT ![e] = [key |-> k, value |-> v, base |-> nanos, delay |-> d,
                                  circle |-> 0, removed |-> FALSE]]
  /\ req' = [req EXCEPT ![s] = e]
  /\ pc' = [pc EXCEPT ![s] = IF d < 1 THEN "push" ELSE "set"]
  /\ UNCHANGED <<wheel, runningChannel, executing, running, clock, run>>

\* A delay below the interval: straight to the workers, past the wheel.
PushNow(s) ==
  /\ pc[s] = "push"
  /\ Len(runningChannel) < Worker
  /\ runningChannel' = Append(runningChannel, req[s])
  /\ pc' = [pc EXCEPT ![s] = "idle"]
  /\ req' = [req EXCEPT ![s] = Nil]
  /\ UNCHANGED <<wheel, heap, executing, running, clock, run>>

RemoveTimer(s, k) ==
  /\ pc[s] = "idle" /\ running
  /\ pc' = [pc EXCEPT ![s] = "remove"]
  /\ req' = [req EXCEPT ![s] = k]
  /\ UNCHANGED <<wheel, heap, runningChannel, executing, running, clock, run>>

Close(s) ==
  /\ Closing
  /\ pc[s] = "idle"
  /\ pc' = [pc EXCEPT ![s] = "stop"]
  /\ UNCHANGED <<wheel, heap, runningChannel, executing, running, clock, run, req>>

\* The setter's send and the loop's receive are one step.
Handover(s, label) ==
  /\ pc[s] = label
  /\ loop = "select"
  /\ pc' = [pc EXCEPT ![s] = "idle"]
  /\ req' = [req EXCEPT ![s] = Nil]

-----------------------------------------------------------------------------
(* run: setTask, removeTask, and the stop signal. *)

PositionLate(d) == (tickedPos + d + 1) % NumSlots
PositionEarly(d) == (tickedPos + d - 1) % NumSlots

Position(d) == (tickedPos + d) % NumSlots
Circle(d) == (tickedPos + d) \div NumSlots

\* The key has no timer on the wheel.
SetTask(s) ==
  LET e == req[s]
      k == heap[e].key
      p == Position(heap[e].delay)
  IN
  /\ Handover(s, "set")
  /\ taskPosition[k].item = Nil
  /\ heap' = [heap EXCEPT ![e].circle = Circle(heap[e].delay)]
  /\ slots' = [slots EXCEPT ![p] = Append(@, e)]
  /\ taskPosition' = [taskPosition EXCEPT ![k] = [pos |-> p, item |-> e]]
  /\ UNCHANGED <<tickedPos, runningChannel, executing, running, clock, run>>

\* It has one, in another slot: that one is marked, and replaced.  (A delay
\* below the interval, for which moveTask pushes, never comes this way.)
MoveTask(s) ==
  LET e   == req[s]
      k   == heap[e].key
      p   == Position(heap[e].delay)
      old == taskPosition[k]
  IN
  /\ Handover(s, "set")
  /\ old.item # Nil
  /\ p # old.pos
  /\ heap' = [heap EXCEPT ![old.item].value = heap[e].value, ![old.item].removed = TRUE,
                          ![e].circle = Circle(heap[e].delay)]
  /\ slots' = [slots EXCEPT ![p] = Append(@, e)]
  /\ taskPosition' = [taskPosition EXCEPT ![k] = [pos |-> p, item |-> e]]
  /\ UNCHANGED <<tickedPos, runningChannel, executing, running, clock, run>>

\* Bug: the timer keeps its old value.
KeepTaskKeepsValue(s) ==
  LET e   == req[s]
      old == taskPosition[heap[e].key]
  IN
  /\ Handover(s, "set")
  /\ old.item # Nil
  /\ Position(heap[e].delay) = old.pos
  /\ heap' = [heap EXCEPT ![e] = Blank]
  /\ UNCHANGED <<wheel, runningChannel, executing, running, clock, run>>

\* It has one, in the same slot: a new value, and a new circle if positive.
\* baseTime and delay stay those of the earlier call.
KeepTask(s) ==
  LET e   == req[s]
      k   == heap[e].key
      c   == Circle(heap[e].delay)
      old == taskPosition[k]
  IN
  /\ Handover(s, "set")
  /\ old.item # Nil
  /\ Position(heap[e].delay) = old.pos
  /\ heap' = [heap EXCEPT ![old.item].value = heap[e].value,
                          ![old.item].circle = IF c > 0 THEN c ELSE @,
                          ![e] = Blank]
  /\ UNCHANGED <<wheel, runningChannel, executing, running, clock, run>>

\* Bug: the position is deleted and the timer is not marked.
RemoveTaskUnmarked(s) ==
  /\ Handover(s, "remove")
  /\ taskPosition' = [taskPosition EXCEPT ![req[s]] = NoPosition]
  /\ UNCHANGED <<tickedPos, slots, heap, runningChannel, executing, running, clock, run>>

RemoveTask(s) ==
  LET k == req[s] IN
  /\ Handover(s, "remove")
  /\ IF taskPosition[k].item = Nil THEN UNCHANGED <<heap, taskPosition>>
     ELSE /\ heap' = [heap EXCEPT ![taskPosition[k].item].removed = TRUE]
          /\ taskPosition' = [taskPosition EXCEPT ![k] = NoPosition]
  /\ UNCHANGED <<tickedPos, slots, runningChannel, executing, running, clock, run>>

\* Close: the loop stops the ticker and goes on; running is cleared later.
StopTicker(s) ==
  /\ pc[s] = "stop"
  /\ loop = "select"
  /\ ticking' = FALSE
  /\ pc' = [pc EXCEPT ![s] = "closed"]
  /\ UNCHANGED <<wheel, heap, runningChannel, executing, running, tickReady, nanos, run, req>>

ClearRunning(s) ==
  /\ pc[s] = "closed"
  /\ running' = FALSE
  /\ pc' = [pc EXCEPT ![s] = "idle"]
  /\ UNCHANGED <<wheel, heap, runningChannel, executing, clock, run, req>>

-----------------------------------------------------------------------------
(* The ticker, and run's onTick and scanAndRunTasks. *)

\* An interval passes.  A tick the loop has not taken yet is not doubled.
Ticker ==
  /\ ticking
  /\ tickReady' = TRUE
  /\ nanos' = (nanos + 1) % Second
  /\ UNCHANGED <<wheel, heap, runningChannel, executing, running, ticking, run, setters>>

OnTick ==
  /\ loop = "select" /\ tickReady
  /\ tickReady' = FALSE
  /\ tickedPos' = (tickedPos + 1) % NumSlots
  /\ loop' = "scan" /\ cursor' = 1
  /\ UNCHANGED <<slots, taskPosition, heap, runningChannel, executing, running,
                 ticking, nanos, setters>>

\* The element of the slot the scan is at.
Current == slots[tickedPos][cursor]

Scanning == loop = "scan" /\ cursor <= Len(slots[tickedPos])

\* time.Now().After(time.Unix(0, baseTime + delay)): the current time counts
\* from 1970, baseTime from the beginning of the second it was taken in.
Due(e) == Epoch + nanos > heap[e].base + heap[e].delay

\* Bug: the element stays in the list.
DropForgotten(s, i) == UNCHANGED slots

Drop(s, i) == slots' = [slots EXCEPT ![s] = RemoveAt(@, i)]

ScanRemoved ==
  /\ Scanning
  /\ heap[Current].removed
  /\ Drop(tickedPos, cursor)
  /\ heap' = [heap EXCEPT ![Current] = Blank]
  /\ UNCHANGED <<tickedPos, taskPosition, runningChannel, executing, running,
                 clock, run, setters>>

\* A timer that is not due and has circles left stays; any other one is run.
ScanTask ==
  /\ Scanning
  /\ ~heap[Current].removed
  /\ IF ~Due(Current) /\ heap[Current].circle > 0
     THEN /\ heap' = [heap EXCEPT ![Current].circle = @ - 1]
          /\ cursor' = cursor + 1
          /\ UNCHANGED <<slots, taskPosition, runningChannel>>
     ELSE /\ Len(runningChannel) < Worker
          /\ runningChannel' = Append(runningChannel, Current)
          /\ Drop(tickedPos, cursor)
          /\ taskPosition' = [taskPosition EXCEPT ![heap[Current].key] = NoPosition]
          /\ UNCHANGED <<heap, cursor>>
  /\ UNCHANGED <<tickedPos, executing, running, clock, loop, setters>>

ScanEnd ==
  /\ loop = "scan" /\ cursor > Len(slots[tickedPos])
  /\ loop' = "select" /\ cursor' = 1
  /\ UNCHANGED <<wheel, heap, runningChannel, executing, running, clock, setters>>

-----------------------------------------------------------------------------
(* The workers. *)

\* Bug: workerStart is not called.
NoWorkers == FALSE /\ UNCHANGED vars

WorkerTake ==
  /\ runningChannel # <<>>
  /\ executing' = executing \cup {Head(runningChannel)}
  /\ runningChannel' = Tail(runningChannel)
  /\ UNCHANGED <<wheel, heap, running, clock, run, setters>>

\* execute(task.key, task.value), in a goroutine of its own.
Execute(e) ==
  /\ e \in executing
  /\ executing' = executing \ {e}
  /\ heap' = [heap EXCEPT ![e] = Blank]
  /\ UNCHANGED <<wheel, runningChannel, running, clock, run, setters>>

-----------------------------------------------------------------------------
Handle(s) == SetTask(s) \/ MoveTask(s) \/ KeepTask(s) \/ RemoveTask(s) \/ StopTicker(s)

Scan == ScanRemoved \/ ScanTask \/ ScanEnd

Next ==
  \/ \E s \in Setters :
       \/ \E k \in Key : \/ \E v \in Val, d \in Delays : SetTimer(s, k, v, d)
                         \/ RemoveTimer(s, k)
       \/ Close(s) \/ PushNow(s) \/ Handle(s) \/ ClearRunning(s)
  \/ Ticker \/ OnTick \/ Scan
  \/ WorkerTake
  \/ \E e \in Timer : Execute(e)

Spec == Init /\ [][Next]_vars

\* The ticker ticks until it is stopped.  select chooses at random among the
\* ready cases, so a tick that is ready again and again is taken (SF); the
\* other goroutines are scheduled, and senders on a channel are served in
\* the order they came.
FairSpec ==
  /\ Spec
  /\ WF_vars(Ticker) /\ SF_vars(OnTick) /\ SF_vars(Scan)
  /\ WF_vars(WorkerTake) /\ \A e \in Timer : WF_vars(Execute(e))
  /\ \A s \in Setters : SF_vars(Handle(s)) /\ SF_vars(PushNow(s)) /\ WF_vars(ClearRunning(s))

-----------------------------------------------------------------------------
TypeOK ==
  /\ tickedPos \in Slot
  /\ slots \in [Slot -> Seq(Timer)]
  /\ taskPosition \in [Key -> [pos : Slot, item : Timer \cup {Nil}]]
  /\ heap \in [Timer -> [key : Key \cup {Nil}, value : Val \cup {Nil}, base : Nat, delay : Nat,
                         circle : Nat, removed : BOOLEAN]]
  /\ runningChannel \in Seq(Timer) /\ Len(runningChannel) <= Worker
  /\ executing \in SUBSET Timer
  /\ running \in BOOLEAN /\ ticking \in BOOLEAN /\ tickReady \in BOOLEAN
  /\ nanos \in Nat
  /\ loop \in {"select", "scan"} /\ cursor \in Nat \ {0}
  /\ pc \in [Setters -> {"idle", "push", "set", "remove", "stop", "closed"}]
  /\ req \in [Setters -> Timer \cup Key \cup {Nil}]
  /\ \A s \in Setters : pc[s] \in {"push", "set"} => req[s] \in Timer
  /\ \A s \in Setters : pc[s] = "remove" => req[s] \in Key

\* taskPosition finds a key's timer: what it points to is in the slot it
\* names, carries the key and is not marked, and every unmarked timer in a
\* slot is the one its key's position points to.  So no key has two timers
\* on the wheel, and RemoveTimer misses none.
PositionsExact ==
  /\ TypeOK
  /\ \A k \in Key : LET p == taskPosition[k] IN
       p.item # Nil => /\ p.item \in ToSet(slots[p.pos])
                       /\ heap[p.item].key = k
                       /\ ~heap[p.item].removed
  /\ \A s \in Slot : \A i \in DOMAIN slots[s] : LET e == slots[s][i] IN
       ~heap[e].removed => taskPosition[heap[e].key] = [pos |-> s, item |-> e]

\* A timer is in one place: once in one slot, or in runningChannel, or
\* executing, or still with its setter.  So it is executed at most once.
InSlots(e) == \E s \in Slot : e \in ToSet(slots[s])

OnePlace ==
  /\ \A s, r \in Slot : \A i \in DOMAIN slots[s] : \A j \in DOMAIN slots[r] :
       slots[s][i] = slots[r][j] => s = r /\ i = j
  /\ \A i, j \in DOMAIN runningChannel : runningChannel[i] = runningChannel[j] => i = j
  /\ \A e \in ToSet(runningChannel) : ~InSlots(e) /\ e \notin executing
  /\ \A e \in executing : ~InSlots(e)
  /\ \A s \in Setters : pc[s] \in {"push", "set"} =>
       ~InSlots(req[s]) /\ req[s] \notin ToSet(runningChannel) \cup executing

\* What was set leaves the wheel (executed, or swept after it was removed)
\* unless the wheel is closed, and what leaves for the workers is executed.
TimersLeave ==
  /\ \A e \in Timer : InSlots(e) ~> ~InSlots(e) \/ ~ticking
  /\ \A e \in Timer : e \in ToSet(runningChannel) \cup executing
                        ~> e \notin ToSet(runningChannel) \cup executing
==============================================================================
