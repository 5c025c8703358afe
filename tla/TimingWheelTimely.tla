-------------------------- MODULE TimingWheelTimely --------------------------
(***************************************************************************)
(* TimingWheel.tla with a history variable: for each key with a timer on   *)
(* the wheel, what the last SetTimer the loop took asked for, and how many *)
(* ticks from now it asked for it.  A SetTimer with a delay below the      *)
(* interval goes past the loop and is not in it.                           *)
(***************************************************************************)
EXTENDS TimingWheel

VARIABLE wanted

twvars == <<vars, wanted>>

Nothing == [value |-> Nil, left |-> 0]

OnWheel(k) == taskPosition[k].item # Nil

\* The timer the loop takes from a setter in this step.
Takes(s) == pc[s] = "set" /\ pc'[s] = "idle"

Ticks == loop = "select" /\ loop' = "scan"

TNext ==
  /\ Next
  /\ wanted' = [k \in Key |->
       IF ~OnWheel(k)' THEN Nothing
       ELSE IF \E s \in Setters : Takes(s) /\ heap[req[s]].key = k
       THEN LET e == req[CHOOSE s \in Setters : Takes(s)]
            IN [value |-> heap[e].value, left |-> heap[e].delay]
       ELSE IF Ticks /\ wanted[k].left > 0 THEN [wanted[k] EXCEPT !.left = @ - 1]
       ELSE wanted[k]]

TSpec == Init /\ wanted = [k \in Key |-> Nothing] /\ [][TNext]_twvars

-----------------------------------------------------------------------------
\* The scan hands a timer to the workers in this step.
Runs(e) == Scanning /\ e = Current /\ slots' # slots /\ ~heap[e].removed

\* The scan runs a timer only when the delay (the field's comment) that the
\* last SetTimer of its key asked for has passed.
NeverEarly ==
  [][\A e \in Timer : Runs(e) => wanted[heap[e].key].left = 0]_twvars

\* When the scan runs a timer, it is the one on the wheel for its key, with the
\* value of the last SetTimer that the loop took for the key: neither one that was
\* replaced since nor one that RemoveTimer has taken off.  A SetTimer with a delay
\* below the interval does not come to the loop and replaces nothing.
LatestTaken ==
  [][\A e \in Timer : Runs(e) =>
       /\ taskPosition[heap[e].key].item = e
       /\ heap[e].value = wanted[heap[e].key].value]_twvars

\* No timer is still on the wheel when the scan of its tick is over.
NeverLate == \A k \in Key : loop = "select" /\ OnWheel(k) => wanted[k].left > 0
=============================================================================
