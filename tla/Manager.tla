------------------------------- MODULE Manager -------------------------------
(***************************************************************************)
(* src/cache/manager.go: named caches, each with an optional fresher and   *)
(* an optional flusher, run from a goroutine of its own until the context  *)
(* is cancelled, and Close, which is to flush them all.                    *)
(*                                                                         *)
(* Entry.channel is never made.  A send on the nil channel blocks forever, *)
(* a receive is never ready, and close panics.                             *)
(***************************************************************************)
EXTENDS Naturals, FiniteSets

CONSTANTS Name,
          Entry,    \* the calls of Add, and the entry each of them makes
          Closer,   \* the goroutines that call Close
          Handles,  \* the handles entries are made with
          Nil

\* WithFresher and WithFlusher: whether a handle is there, and whether its
\* interval is positive.
Options == [fresher : {"none", "once", "ticking"}, preload : BOOLEAN,
            flusher : {"none", "once", "ticking"}]

ASSUME ManagerAssumption ==
  /\ Handles \subseteq Options
  /\ Nil \notin Entry \cup Name

VARIABLES
  M,          \* sync.Map: Name -> Entry or Nil
  cancelled,  \* the context is done
  adder,      \* Add: where each call is
  result,     \* Add: what each call returned
  ent,        \* name and handles of each entry
  pc,         \* where the goroutine of each entry is
  ticked,     \* a tick is waiting in the current ticker of the entry
  ran,        \* the handles that were called, <<entry, "fresher" or "flusher">>
  closer,     \* Close: where each call is
  before,     \* Close: the entries stored when Range began
  visited,    \* Close: the entries Range has come to
  crashed

vars == <<M, cancelled, adder, result, ent, pc, ticked, ran, closer, before, visited, crashed>>

Init ==
  /\ M = [n \in Name |-> Nil]
  /\ cancelled = FALSE
  /\ adder = [e \in Entry |-> "idle"]
  /\ result = [e \in Entry |-> "none"]
  /\ ent \in [Entry -> [name : Name, opt : Handles]]
  /\ pc = [e \in Entry |-> "none"]
  /\ ticked = [e \in Entry |-> FALSE]
  /\ ran = {}
  /\ closer = [c \in Closer |-> "idle"]
  /\ before = [c \in Closer |-> {}]
  /\ visited = [c \in Closer |-> {}]
  /\ crashed = FALSE

-----------------------------------------------------------------------------
(* Add: Load, then build the entry, start its goroutine, and Store. *)

Load(e) ==
  /\ adder[e] = "idle"
  /\ IF M[ent[e].name] # Nil
     THEN /\ adder' = [adder EXCEPT ![e] = "returned"]
          /\ result' = [result EXCEPT ![e] = "already exist"]
     ELSE /\ adder' = [adder EXCEPT ![e] = "absent"]
          /\ UNCHANGED result
  /\ UNCHANGED <<M, cancelled, ent, pc, ticked, ran, closer, before, visited, crashed>>

\* Past the preload, a fresher without an interval is not used.
FirstStep(e) == IF ent[e].opt.fresher # "none" /\ ent[e].opt.preload
                THEN "preload" ELSE "fresh"

GoRun(e) ==
  /\ adder[e] = "absent"
  /\ adder' = [adder EXCEPT ![e] = "running"]
  /\ pc' = [pc EXCEPT ![e] = FirstStep(e)]
  /\ UNCHANGED <<M, cancelled, result, ent, ticked, ran, closer, before, visited, crashed>>

Store(e) ==
  /\ adder[e] = "running"
  /\ adder' = [adder EXCEPT ![e] = "returned"]
  /\ M' = [M EXCEPT ![ent[e].name] = e]
  /\ result' = [result EXCEPT ![e] = "nil"]
  /\ UNCHANGED <<cancelled, ent, pc, ticked, ran, closer, before, visited, crashed>>

-----------------------------------------------------------------------------
(* Entry.run: the fresher loop, then the flusher loop, then go task(). *)

Preload(e) ==
  /\ pc[e] = "preload"
  /\ ran' = ran \cup {<<e, "fresher">>}
  /\ pc' = [pc EXCEPT ![e] = "fresh"]
  /\ UNCHANGED <<M, cancelled, adder, result, ent, ticked, closer, before, visited, crashed>>

\* The handle of the loop the goroutine is in.
LoopHandle(e) == IF pc[e] = "fresh" THEN ent[e].opt.fresher ELSE ent[e].opt.flusher

InLoop(e) == pc[e] \in {"fresh", "flush"} /\ LoopHandle(e) = "ticking"

\* The interval of the current ticker passes.
Tick(e) ==
  /\ InLoop(e) /\ ~ticked[e]
  /\ ticked' = [ticked EXCEPT ![e] = TRUE]
  /\ UNCHANGED <<M, cancelled, adder, result, ent, pc, ran, closer, before, visited, crashed>>

\* case <-ticker.C: the send on the nil channel, which is never left.
SendHandle(e) ==
  /\ InLoop(e) /\ ticked[e]
  /\ pc' = [pc EXCEPT ![e] = "blocked"]
  /\ UNCHANGED <<M, cancelled, adder, result, ent, ticked, ran, closer, before, visited, crashed>>

\* No such loop, or case <-ctx.Done(): on to what comes next.  The next
\* loop makes a ticker of its own.
LeaveLoop(e) ==
  /\ pc[e] \in {"fresh", "flush"}
  /\ LoopHandle(e) = "ticking" => cancelled
  /\ pc' = [pc EXCEPT ![e] = IF @ = "fresh" THEN "flush" ELSE "task"]
  /\ ticked' = [ticked EXCEPT ![e] = FALSE]
  /\ UNCHANGED <<M, cancelled, adder, result, ent, ran, closer, before, visited, crashed>>

\* Bug: break without the label leaves the select, not the loop.
EndTaskUnlabelled(e) == pc[e] = "task" /\ cancelled /\ UNCHANGED vars

\* task: the receive from the nil channel is never ready, so it waits for
\* the context alone.
EndTask(e) ==
  /\ pc[e] = "task"
  /\ cancelled
  /\ pc' = [pc EXCEPT ![e] = "done"]
  /\ UNCHANGED <<M, cancelled, adder, result, ent, ticked, ran, closer, before, visited, crashed>>

-----------------------------------------------------------------------------
(* Close *)

Cancel(c) ==
  /\ closer[c] = "idle"
  /\ cancelled' = TRUE
  /\ closer' = [closer EXCEPT ![c] = "cancelled"]
  /\ UNCHANGED <<M, adder, result, ent, pc, ticked, ran, before, visited, crashed>>

Stored == {M[n] : n \in Name} \ {Nil}

RangeBegin(c) ==
  /\ closer[c] = "cancelled"
  /\ closer' = [closer EXCEPT ![c] = "range"]
  /\ before' = [before EXCEPT ![c] = Stored]
  /\ UNCHANGED <<M, cancelled, adder, result, ent, pc, ticked, ran, visited, crashed>>

\* M.Range comes to an entry (perhaps one stored since it began) and starts
\* a goroutine for it.
RangeEntry(c, e) ==
  /\ closer[c] = "range"
  /\ e \in Stored \ visited[c]
  /\ visited' = [visited EXCEPT ![c] = @ \cup {e}]
  /\ UNCHANGED <<M, cancelled, adder, result, ent, pc, ticked, ran, closer, before, crashed>>

\* Range came to no entry, and Wait has none to wait for.
CloseReturn(c) ==
  /\ closer[c] = "range"
  /\ before[c] = {} /\ visited[c] = {}
  /\ closer' = [closer EXCEPT ![c] = "returned"]
  /\ UNCHANGED <<M, cancelled, adder, result, ent, pc, ticked, ran, before, visited, crashed>>

\* The goroutine for an entry: close(ent.channel) panics on the nil channel,
\* before the flusher's handle and wait.Done.
CloseEntry(c, e) ==
  /\ e \in visited[c]
  /\ crashed' = TRUE
  /\ UNCHANGED <<M, cancelled, adder, result, ent, pc, ticked, ran, closer, before, visited>>

-----------------------------------------------------------------------------
Stopped ==
  /\ crashed \/ (/\ \A e \in Entry : adder[e] = "returned" /\ pc[e] \in {"none", "done", "blocked"}
                 /\ \A c \in Closer : closer[c] = "returned")
  /\ UNCHANGED vars

Goroutine(e) == Preload(e) \/ Tick(e) \/ SendHandle(e) \/ LeaveLoop(e) \/ EndTask(e)

Next ==
  \/ ~crashed /\ \E e \in Entry : Load(e) \/ GoRun(e) \/ Store(e) \/ Goroutine(e)
  \/ ~crashed /\ \E c \in Closer :
       \/ Cancel(c) \/ RangeBegin(c) \/ CloseReturn(c)
       \/ \E e \in Entry : RangeEntry(c, e) \/ CloseEntry(c, e)
  \/ Stopped

Spec == Init /\ [][Next]_vars

\* The goroutines are scheduled, and the tickers tick.
FairSpec ==
  /\ Spec
  /\ \A e \in Entry : WF_vars(~crashed /\ Goroutine(e))

-----------------------------------------------------------------------------
\* Once the context is done every entry's goroutine ends, or is stuck in the
\* send of a tick that came before it looked.
CancelEnds ==
  \A e \in Entry : cancelled /\ pc[e] # "none" ~> crashed \/ pc[e] \in {"done", "blocked"}
=============================================================================
