-------------------------- MODULE TimingWheelProofs --------------------------
(***************************************************************************)
(* The timing wheel for any setters, keys, delays and slots.  First        *)
(* TimingWheel.tla: every timer is in one place, and taskPosition finds    *)
(* it.  Then TimingWheelTimely.tla: when the timers run.  The slot of a    *)
(* timer is as many ticks away as its key has left, rounds not counted.    *)
(* Every timer the scan meets is due, because baseTime leaves out the      *)
(* seconds; so the scan empties its slot, and a timer runs at the first    *)
(* visit: never late, with the latest value, and in the round it was set   *)
(* for if no delay is longer than the wheel.                               *)
(***************************************************************************)
EXTENDS TimingWheelTimely, SequenceTheorems, TLAPS

(* Remainders. *)

LEMMA Division ==
  ASSUME NEW N \in Nat \ {0}, NEW a \in Nat
  PROVE  a % N \in 0 .. N - 1 /\ a \div N \in Nat /\ a = N * (a \div N) + (a % N)
OBVIOUS

(* Sequences. *)

Once(q) == \A i, j \in DOMAIN q : q[i] = q[j] => i = j

\* Taking out the element at n: what is left, and in which order.
LEMMA RemoveAtProperties ==
  ASSUME NEW S, NEW q \in Seq(S), NEW n \in 1 .. Len(q)
  PROVE  /\ RemoveAt(q, n) \in Seq(S)
         /\ Len(RemoveAt(q, n)) = Len(q) - 1
         /\ \A i \in 1 .. Len(q) - 1 :
              RemoveAt(q, n)[i] = IF i < n THEN q[i] ELSE q[i + 1]
<1> DEFINE a == SubSeq(q, 1, n - 1)
           b == SubSeq(q, n + 1, Len(q))
<1>1. Len(q) \in Nat /\ \A i \in 1 .. Len(q) : q[i] \in S
  BY LenProperties, ElementOfSeq
<1>2. /\ a \in Seq(S) /\ Len(a) = n - 1
      /\ \A i \in 1 .. n - 1 : a[i] = q[i]
  BY <1>1, SubSeqProperties
<1>3. /\ b \in Seq(S) /\ Len(b) = Len(q) - n
      /\ \A i \in 1 .. Len(q) - n : b[i] = q[n + i]
  <2>1. /\ b \in Seq(S)
        /\ Len(b) = IF n + 1 <= Len(q) THEN Len(q) - (n + 1) + 1 ELSE 0
        /\ \A i \in 1 .. Len(q) - (n + 1) + 1 : b[i] = q[n + 1 + i - 1]
    BY <1>1, SubSeqProperties
  <2>. HIDE DEF b
  <2>. QED  BY SMTT(40), <1>1, <2>1
<1>4. /\ a \o b \in Seq(S) /\ Len(a \o b) = Len(a) + Len(b)
      /\ \A i \in 1 .. Len(a) + Len(b) :
           (a \o b)[i] = IF i <= Len(a) THEN a[i] ELSE b[i - Len(a)]
  BY <1>2, <1>3, ConcatProperties
<1> DEFINE r == a \o b
<1>5. RemoveAt(q, n) = r
  BY DEF RemoveAt
<1> HIDE DEF a, b, r
<1>6. r \in Seq(S) /\ Len(r) = Len(q) - 1
  BY <1>1, <1>2, <1>3, <1>4 DEF r
<1>7. ASSUME NEW i \in 1 .. Len(q) - 1, i < n PROVE r[i] = q[i]
  BY <1>1, <1>2, <1>3, <1>4, <1>7 DEF r
<1>8. ASSUME NEW i \in 1 .. Len(q) - 1, ~(i < n) PROVE r[i] = q[i + 1]
  <2>1. r[i] = b[i - (n - 1)]
    BY <1>1, <1>2, <1>3, <1>4, <1>8 DEF r
  <2>2. i - (n - 1) \in 1 .. Len(q) - n /\ n + (i - (n - 1)) = i + 1
    BY <1>1, <1>8
  <2>. QED  BY <1>3, <2>1, <2>2
<1>. QED  BY <1>5, <1>6, <1>7, <1>8

\* As a set: everything but the element, if it was there once.
LEMMA RemoveAtElements ==
  ASSUME NEW S, NEW q \in Seq(S), Once(q), NEW n \in DOMAIN q
  PROVE  Once(RemoveAt(q, n)) /\ ToSet(RemoveAt(q, n)) = ToSet(q) \ {q[n]}
<1> DEFINE r == RemoveAt(q, n)
<1>1. Len(q) \in Nat /\ DOMAIN q = 1 .. Len(q)
  BY LenProperties
<1>2. /\ r \in Seq(S) /\ Len(r) = Len(q) - 1
      /\ \A i \in 1 .. Len(q) - 1 : r[i] = IF i < n THEN q[i] ELSE q[i + 1]
  BY <1>1, RemoveAtProperties
<1>3. DOMAIN r = 1 .. Len(q) - 1
  BY <1>2, LenProperties
<1> HIDE DEF r
<1>4. Once(r)
  BY SMTT(40), <1>1, <1>2, <1>3 DEF Once
<1>5. ASSUME NEW i \in DOMAIN r PROVE r[i] \in ToSet(q) \ {q[n]}
  BY SMTT(40), <1>1, <1>2, <1>3 DEF Once, ToSet
<1>6. ASSUME NEW j \in DOMAIN q, q[j] # q[n] PROVE q[j] \in ToSet(r)
  <2>1. CASE j < n
    <3>1. j \in DOMAIN r /\ r[j] = q[j]
      BY <1>1, <1>2, <1>3, <2>1
    <3>. QED  BY <3>1 DEF ToSet
  <2>2. CASE j > n
    <3>1. j - 1 \in DOMAIN r /\ r[j - 1] = q[j]
      BY <1>1, <1>2, <1>3, <2>2
    <3>. QED  BY <3>1 DEF ToSet
  <2>. QED  BY <1>1, <1>6, <2>1, <2>2
<1>7. ToSet(r) = ToSet(q) \ {q[n]}
  BY <1>5, <1>6 DEF ToSet
<1>. QED  BY <1>4, <1>7 DEF r

\* A new element at the end.
LEMMA AppendElements ==
  ASSUME NEW S, NEW q \in Seq(S), Once(q), NEW e \in S, e \notin ToSet(q)
  PROVE  Once(Append(q, e)) /\ ToSet(Append(q, e)) = ToSet(q) \cup {e}
<1> DEFINE r == Append(q, e)
<1>1. Len(q) \in Nat /\ DOMAIN q = 1 .. Len(q)
  BY LenProperties
<1>2. /\ r \in Seq(S) /\ Len(r) = Len(q) + 1
      /\ \A i \in 1 .. Len(q) : r[i] = q[i]
      /\ r[Len(q) + 1] = e
  BY AppendProperties
<1>3. DOMAIN r = 1 .. Len(q) + 1
  BY <1>2, LenProperties
<1> HIDE DEF r
<1>4. \A i \in DOMAIN r : (i \in DOMAIN q /\ r[i] = q[i]) \/ (i = Len(q) + 1 /\ r[i] = e)
  BY <1>1, <1>2, <1>3
<1>5. \A i \in DOMAIN q : i \in DOMAIN r /\ r[i] = q[i] /\ q[i] # e
  BY <1>1, <1>2, <1>3 DEF ToSet
<1>6. Len(q) + 1 \in DOMAIN r
  BY <1>1, <1>3
<1>7. Once(r)
  BY <1>4, <1>5 DEF Once
<1>8. ToSet(r) = ToSet(q) \cup {e}
  BY <1>2, <1>4, <1>5, <1>6 DEF ToSet
<1>. QED  BY <1>7, <1>8 DEF r

\* Taking the first element.
LEMMA TailElements ==
  ASSUME NEW S, NEW q \in Seq(S), Once(q), q # <<>>
  PROVE  /\ Head(q) \in ToSet(q)
         /\ Once(Tail(q)) /\ ToSet(Tail(q)) = ToSet(q) \ {Head(q)}
<1>1. Len(q) \in Nat \ {0} /\ DOMAIN q = 1 .. Len(q)
  BY LenProperties, EmptySeq
<1> DEFINE r == Tail(q)
<1>2. /\ r \in Seq(S) /\ Len(r) = Len(q) - 1
      /\ \A i \in 1 .. Len(r) : r[i] = q[i + 1]
  BY HeadTailProperties
<1>3. Head(q) = q[1] /\ 1 \in DOMAIN q
  BY <1>1
<1>4. DOMAIN r = 1 .. Len(q) - 1
  BY <1>2, LenProperties
<1> HIDE DEF r
<1>5. \A i \in DOMAIN r : i + 1 \in DOMAIN q /\ i + 1 # 1 /\ r[i] = q[i + 1]
  BY <1>1, <1>2, <1>4
<1>6. \A j \in DOMAIN q : j # 1 => j - 1 \in DOMAIN r /\ r[j - 1] = q[j]
  BY <1>1, <1>2, <1>4
<1>7. DOMAIN r \subseteq Int
  BY <1>4
<1>8. Once(r)
  BY <1>5, <1>7 DEF Once
<1>9. ToSet(r) = ToSet(q) \ {Head(q)}
  BY <1>3, <1>5, <1>6 DEF ToSet, Once
<1>. QED  BY <1>3, <1>8, <1>9 DEF r, ToSet

-----------------------------------------------------------------------------
(* The inductive invariant of TimingWheel.tla. *)

\* The slots hold each timer once, and a timer is in one of them.
SlotsOnce ==
  /\ \A s \in Slot : Once(slots[s])
  /\ \A s, r \in Slot : s # r => ToSet(slots[s]) \cap ToSet(slots[r]) = {}

Queued == ToSet(runningChannel)
Held == {req[s] : s \in {u \in Setters : pc[u] \in {"push", "set"}}}

\* The other places: two setters hold different timers, and nothing is in
\* two of slots, channel, execution and setters.
PlacesApart ==
  /\ Once(runningChannel)
  /\ \A s \in Slot : ToSet(slots[s]) \cap (Queued \cup executing \cup Held) = {}
  /\ Queued \cap executing = {}
  /\ Held \cap (Queued \cup executing) = {}
  /\ \A s, u \in Setters : s # u /\ pc[s] \in {"push", "set"} /\ pc[u] \in {"push", "set"}
       => req[s] # req[u]

\* PositionsExact, with the slots as sets.
Found ==
  /\ \A k \in Key : taskPosition[k].item # Nil =>
       /\ taskPosition[k].item \in ToSet(slots[taskPosition[k].pos])
       /\ heap[taskPosition[k].item].key = k
       /\ ~heap[taskPosition[k].item].removed
  /\ \A s \in Slot : \A e \in ToSet(slots[s]) : ~heap[e].removed =>
       taskPosition[heap[e].key] = [pos |-> s, item |-> e]

\* What a setter holds, or a slot, was set for a key with one of the delays;
\* no timer was set after the end of a second.
Request(e) == heap[e].key \in Key /\ heap[e].delay \in Delays

Contents ==
  /\ \A s \in Slot : \A e \in ToSet(slots[s]) : Request(e)
  /\ \A s \in Setters : pc[s] \in {"push", "set"} => Request(req[s]) /\ ~heap[req[s]].removed
  /\ \A s \in Setters : pc[s] = "set" => heap[req[s]].delay >= 1
  /\ nanos < Second /\ \A e \in Timer : heap[e].base < Second

WheelInv == TypeOK /\ SlotsOnce /\ PlacesApart /\ Found /\ Contents

\* What the zero values and the constants are.
LEMMA BlankType ==
  /\ 0 \in Slot /\ NumSlots \in Nat \ {0}
  /\ Blank \in [key : Key \cup {Nil}, value : Val \cup {Nil}, base : Nat, delay : Nat,
                circle : Nat, removed : BOOLEAN]
  /\ Blank.base = 0
  /\ NoPosition \in [pos : Slot, item : Timer \cup {Nil}] /\ NoPosition.item = Nil
BY WheelAssumption DEF Blank, NoPosition, Slot

\* A timer that was nowhere is appended to a slot.
LEMMA Appended ==
  ASSUME TypeOK, SlotsOnce, NEW p \in Slot, NEW e \in Timer,
         \A s \in Slot : e \notin ToSet(slots[s]),
         slots' = [slots EXCEPT ![p] = Append(@, e)]
  PROVE  /\ slots' \in [Slot -> Seq(Timer)] /\ SlotsOnce'
         /\ ToSet(slots'[p]) = ToSet(slots[p]) \cup {e}
         /\ \A s \in Slot \ {p} : ToSet(slots'[s]) = ToSet(slots[s])
<1>1. slots \in [Slot -> Seq(Timer)] /\ slots[p] \in Seq(Timer)
  BY DEF TypeOK
<1>2. Once(slots[p])
  BY DEF SlotsOnce
<1>3. Once(Append(slots[p], e)) /\ ToSet(Append(slots[p], e)) = ToSet(slots[p]) \cup {e}
  BY <1>1, <1>2, AppendElements
<1>4. Append(slots[p], e) \in Seq(Timer)
  BY <1>1, AppendProperties
<1>5. slots'[p] = Append(slots[p], e) /\ \A s \in Slot \ {p} : slots'[s] = slots[s]
  BY <1>1
<1>6. slots' \in [Slot -> Seq(Timer)]
  BY <1>1, <1>4
<1>. QED  BY <1>3, <1>5, <1>6 DEF SlotsOnce

\* A timer is taken out of a slot.
LEMMA Dropped ==
  ASSUME TypeOK, SlotsOnce, NEW p \in Slot, NEW n \in DOMAIN slots[p], Drop(p, n)
  PROVE  /\ slots' \in [Slot -> Seq(Timer)] /\ SlotsOnce'
         /\ slots[p][n] \in ToSet(slots[p])
         /\ \A s \in Slot : ToSet(slots'[s]) = ToSet(slots[s]) \ {slots[p][n]}
<1>1. slots \in [Slot -> Seq(Timer)] /\ slots[p] \in Seq(Timer)
  BY DEF TypeOK
<1>2. Once(slots[p])
  BY DEF SlotsOnce
<1>3. Once(RemoveAt(slots[p], n)) /\ ToSet(RemoveAt(slots[p], n)) = ToSet(slots[p]) \ {slots[p][n]}
  BY <1>1, <1>2, RemoveAtElements
<1>4. RemoveAt(slots[p], n) \in Seq(Timer)
  BY <1>1, RemoveAtProperties, LenProperties
<1>5. slots'[p] = RemoveAt(slots[p], n) /\ \A s \in Slot \ {p} : slots'[s] = slots[s]
  BY <1>1 DEF Drop
<1>6. slots' \in [Slot -> Seq(Timer)]
  BY <1>1, <1>4 DEF Drop
<1>7. slots[p][n] \in ToSet(slots[p])
  BY DEF ToSet
<1>8. \A s \in Slot \ {p} : slots[p][n] \notin ToSet(slots[s])
  BY <1>7 DEF SlotsOnce
<1>. QED  BY <1>3, <1>5, <1>6, <1>7, <1>8 DEF SlotsOnce

\* The elements of a slot are timers.
LEMMA SlotElements ==
  ASSUME TypeOK, NEW s \in Slot
  PROVE  ToSet(slots[s]) \subseteq Timer
<1>1. slots[s] \in Seq(Timer)
  BY DEF TypeOK
<1>. QED  BY <1>1, LenProperties, ElementOfSeq DEF ToSet

\* A step after which the setters hold what they held.
LEMMA SameHeld ==
  ASSUME \A u \in Setters :
           /\ pc'[u] \in {"push", "set"} <=> pc[u] \in {"push", "set"}
           /\ pc[u] \in {"push", "set"} => req'[u] = req[u]
  PROVE  Held' = Held
BY DEF Held

\* A setter hands its timer over.
LEMMA HandedOver ==
  ASSUME TypeOK, PlacesApart, NEW s \in Setters, pc[s] \in {"push", "set"},
         pc' = [pc EXCEPT ![s] = "idle"], req' = [req EXCEPT ![s] = Nil]
  PROVE  /\ Held' = Held \ {req[s]} /\ req[s] \in Held /\ req[s] \in Timer
         /\ pc'[s] = "idle"
         /\ \A u \in Setters \ {s} : pc'[u] = pc[u] /\ req'[u] = req[u]
<1>1. pc'[s] = "idle" /\ \A u \in Setters \ {s} : pc'[u] = pc[u] /\ req'[u] = req[u]
  BY DEF TypeOK
<1>2. \A u \in Setters \ {s} : pc[u] \in {"push", "set"} => req[u] # req[s]
  BY DEF PlacesApart
<1>. QED  BY <1>1, <1>2 DEF Held, TypeOK


\* SetTimer takes a timer that nothing points to.
LEMMA SetTimerKeeps ==
  ASSUME WheelInv, NEW s \in Setters, NEW k \in Key, NEW v \in Val, NEW d \in Delays,
         SetTimer(s, k, v, d)
  PROVE  WheelInv'
<1> DEFINE new == [key |-> k, value |-> v, base |-> nanos, delay |-> d,
                   circle |-> 0, removed |-> FALSE]
<1>1. PICK e \in Timer :
      /\ \A r \in Slot : e \notin ToSet(slots[r])
      /\ e \notin Queued \cup executing
      /\ \A u \in Setters : req[u] # e
      /\ \A l \in Key : taskPosition[l].item # e
      /\ heap' = [heap EXCEPT ![e] = new]
      /\ req' = [req EXCEPT ![s] = e]
  <2>1. (CHOOSE x \in Free : TRUE) \in Free
    BY DEF SetTimer
  <2>. QED  BY <2>1 DEF Free, Queued, SetTimer
<1>2. /\ pc' = [pc EXCEPT ![s] = IF d < 1 THEN "push" ELSE "set"]
      /\ pc[s] = "idle"
      /\ UNCHANGED <<wheel, runningChannel, executing, running, clock, run>>
  BY DEF SetTimer
<1>3. TypeOK /\ d \in Nat /\ nanos \in Nat /\ nanos < Second
  BY WheelAssumption DEF WheelInv, TypeOK, Contents
<1>4. /\ heap'[e] = new /\ \A f \in Timer \ {e} : heap'[f] = heap[f]
      /\ req'[s] = e /\ \A u \in Setters \ {s} : req'[u] = req[u] /\ pc'[u] = pc[u]
      /\ pc'[s] \in {"push", "set"} /\ (pc'[s] = "set" => d >= 1)
  <2>1. heap'[e] = new /\ \A f \in Timer \ {e} : heap'[f] = heap[f]
    BY <1>1, <1>3 DEF TypeOK
  <2>2. req'[s] = e /\ \A u \in Setters \ {s} : req'[u] = req[u] /\ pc'[u] = pc[u]
    BY <1>1, <1>2, <1>3 DEF TypeOK
  <2>3. pc'[s] = IF d < 1 THEN "push" ELSE "set"
    BY <1>2, <1>3 DEF TypeOK
  <2>. QED  BY <1>3, <2>1, <2>2, <2>3
<1>5. Held' = Held \cup {e} /\ e \notin Held
  BY <1>1, <1>2, <1>4 DEF Held
<1>6. UNCHANGED <<slots, taskPosition, runningChannel, executing, nanos, Queued>>
  BY <1>2 DEF wheel, clock, Queued
<1>7. TypeOK'
  <2>1. new \in [key : Key \cup {Nil}, value : Val \cup {Nil}, base : Nat, delay : Nat,
                 circle : Nat, removed : BOOLEAN]
    BY <1>3
  <2>2. heap' \in [Timer -> [key : Key \cup {Nil}, value : Val \cup {Nil}, base : Nat,
                             delay : Nat, circle : Nat, removed : BOOLEAN]]
    BY <1>1, <1>3, <2>1 DEF TypeOK
  <2>3. /\ pc' \in [Setters -> {"idle", "push", "set", "remove", "stop", "closed"}]
        /\ req' \in [Setters -> Timer \cup Key \cup {Nil}]
        /\ \A u \in Setters : pc'[u] \in {"push", "set"} => req'[u] \in Timer
        /\ \A u \in Setters : pc'[u] = "remove" => req'[u] \in Key
    BY <1>1, <1>2, <1>3, <1>4 DEF TypeOK
  <2>. QED  BY <1>2, <1>3, <2>2, <2>3 DEF TypeOK, wheel, clock, run
<1>8. SlotsOnce'
  BY <1>6 DEF WheelInv, SlotsOnce
<1>9. PlacesApart'
  <2>1. \A u \in Setters \ {s} : req'[u] # req'[s]
    BY <1>1, <1>4
  <2>. QED  BY <1>1, <1>4, <1>5, <1>6, <2>1 DEF WheelInv, PlacesApart
<1>10. \A r \in Slot : \A f \in ToSet(slots[r]) : heap'[f] = heap[f]
  BY <1>1, <1>3, <1>4, SlotElements
<1>11. Found'
  <2>1. \A l \in Key : taskPosition[l].item # Nil =>
          heap'[taskPosition[l].item] = heap[taskPosition[l].item]
    BY <1>1, <1>3, <1>4 DEF TypeOK
  <2>. QED  BY <1>6, <1>10, <2>1 DEF WheelInv, Found
<1>12. Contents'
  <2>1. Request(e)'
    BY <1>4 DEF Request
  <2>2. \A u \in Setters \ {s} : pc[u] \in {"push", "set"} => heap'[req[u]] = heap[req[u]]
    BY <1>1, <1>3, <1>4 DEF TypeOK
  <2>3. \A f \in Timer : heap'[f].base < Second
    BY <1>3, <1>4 DEF WheelInv, Contents
  <2>. QED  BY <1>3, <1>4, <1>6, <1>10, <2>1, <2>2, <2>3 DEF WheelInv, Contents, Request
<1>. QED  BY <1>7, <1>8, <1>9, <1>11, <1>12 DEF WheelInv

\* A delay below the interval: from the setter to the channel.
LEMMA PushNowKeeps ==
  ASSUME WheelInv, NEW s \in Setters, PushNow(s)
  PROVE  WheelInv'
<1>1. /\ pc[s] = "push" /\ Len(runningChannel) < Worker
      /\ runningChannel' = Append(runningChannel, req[s])
      /\ pc' = [pc EXCEPT ![s] = "idle"]
      /\ req' = [req EXCEPT ![s] = Nil]
      /\ UNCHANGED <<wheel, heap, executing, running, clock, run>>
  BY DEF PushNow
<1>2. TypeOK /\ PlacesApart
  BY DEF WheelInv
<1>3. /\ Held' = Held \ {req[s]} /\ req[s] \in Held /\ req[s] \in Timer
      /\ pc'[s] = "idle"
      /\ \A u \in Setters \ {s} : pc'[u] = pc[u] /\ req'[u] = req[u]
  BY <1>1, <1>2, HandedOver
<1>4. /\ runningChannel \in Seq(Timer) /\ Once(runningChannel)
      /\ req[s] \notin ToSet(runningChannel)
  BY <1>2, <1>3 DEF TypeOK, PlacesApart, Queued
<1>5. Once(runningChannel') /\ Queued' = Queued \cup {req[s]}
  BY <1>1, <1>3, <1>4, AppendElements DEF Queued
<1>6. runningChannel' \in Seq(Timer) /\ Len(runningChannel') = Len(runningChannel) + 1
  BY <1>1, <1>3, <1>4, AppendProperties
<1>7. UNCHANGED <<tickedPos, slots, taskPosition, heap, executing, nanos>>
  BY <1>1 DEF wheel, clock
<1>8. TypeOK'
  <2>1. Len(runningChannel') <= Worker
    BY <1>1, <1>4, <1>6, LenProperties, WheelAssumption
  <2>2. /\ pc' \in [Setters -> {"idle", "push", "set", "remove", "stop", "closed"}]
        /\ req' \in [Setters -> Timer \cup Key \cup {Nil}]
        /\ \A u \in Setters : pc'[u] \in {"push", "set"} => req'[u] \in Timer
        /\ \A u \in Setters : pc'[u] = "remove" => req'[u] \in Key
    BY <1>1, <1>2, <1>3 DEF TypeOK
  <2>. QED  BY <1>1, <1>2, <1>6, <2>1, <2>2 DEF TypeOK, wheel, clock, run
<1>9. SlotsOnce'
  BY <1>7 DEF WheelInv, SlotsOnce
<1>10. PlacesApart'
  BY <1>1, <1>2, <1>3, <1>5, <1>7 DEF PlacesApart
<1>11. Found'
  BY <1>7 DEF WheelInv, Found
<1>12. Contents'
  BY <1>3, <1>7 DEF WheelInv, Contents, Request
<1>. QED  BY <1>8, <1>9, <1>10, <1>11, <1>12 DEF WheelInv

\* Where the loop puts a timer.
LEMMA PositionType ==
  ASSUME TypeOK, NEW d \in Delays
  PROVE  Position(d) \in Slot /\ Circle(d) \in Nat
<1>1. tickedPos + d \in Nat /\ NumSlots \in Nat \ {0}
  BY WheelAssumption DEF TypeOK, Slot
<1>. QED  BY <1>1, Division DEF Position, Circle, Slot

\* A setter's timer before the handover: what it is, and that it is nowhere else.
LEMMA AtHandover ==
  ASSUME WheelInv, NEW s \in Setters, pc[s] = "set"
  PROVE  /\ req[s] \in Timer /\ Request(req[s]) /\ ~heap[req[s]].removed
         /\ Position(heap[req[s]].delay) \in Slot /\ Circle(heap[req[s]].delay) \in Nat
         /\ \A r \in Slot : req[s] \notin ToSet(slots[r])
         /\ req[s] \notin Queued \cup executing
         /\ heap[req[s]].value \in Val \cup {Nil}
<1>1. TypeOK /\ req[s] \in Timer /\ req[s] \in Held
  BY DEF WheelInv, TypeOK, Held
<1>2. Request(req[s]) /\ ~heap[req[s]].removed
  BY DEF WheelInv, Contents
<1>3. Position(heap[req[s]].delay) \in Slot /\ Circle(heap[req[s]].delay) \in Nat
  BY <1>1, <1>2, PositionType DEF Request
<1>4. heap[req[s]].value \in Val \cup {Nil}
  BY <1>1 DEF TypeOK
<1>. QED  BY <1>1, <1>2, <1>3, <1>4 DEF WheelInv, PlacesApart

\* What a key's position points to, when there is something.
LEMMA AtPosition ==
  ASSUME WheelInv, NEW k \in Key, taskPosition[k].item # Nil
  PROVE  /\ taskPosition[k].item \in Timer /\ taskPosition[k].pos \in Slot
         /\ taskPosition[k].item \in ToSet(slots[taskPosition[k].pos])
         /\ heap[taskPosition[k].item].key = k /\ ~heap[taskPosition[k].item].removed
         /\ taskPosition[k].item \notin Held
  BY DEF WheelInv, TypeOK, Found, PlacesApart

\* A timer with one field changed keeps the others.
Entry == [key : Key \cup {Nil}, value : Val \cup {Nil}, base : Nat, delay : Nat,
          circle : Nat, removed : BOOLEAN]

SameFor(x, y) == /\ x \in Entry
                 /\ x.key = y.key /\ x.delay = y.delay /\ x.base = y.base

LEMMA CircleSet ==
  ASSUME NEW r \in Entry, NEW c \in Nat
  PROVE  /\ SameFor([r EXCEPT !.circle = c], r)
         /\ [r EXCEPT !.circle = c].removed = r.removed
         /\ [r EXCEPT !.circle = c].value = r.value
BY DEF Entry, SameFor

LEMMA ValueSet ==
  ASSUME NEW r \in Entry, NEW v \in Val \cup {Nil}
  PROVE  /\ SameFor([r EXCEPT !.value = v], r)
         /\ [r EXCEPT !.value = v].removed = r.removed
         /\ [r EXCEPT !.value = v].value = v
BY DEF Entry, SameFor

LEMMA RemovedSet ==
  ASSUME NEW r \in Entry
  PROVE  /\ SameFor([r EXCEPT !.removed = TRUE], r)
         /\ [r EXCEPT !.removed = TRUE].removed
BY DEF Entry, SameFor

LEMMA HeapEntries ==
  ASSUME TypeOK
  PROVE  heap \in [Timer -> Entry]
BY DEF TypeOK, Entry

\* What the slots and the setters hold was in a slot or with them before, and
\* is still for the same key and delay.
LEMMA ContentsKept ==
  ASSUME WheelInv,
         \A r \in Slot : \A f \in ToSet(slots'[r]) : Request(f) /\ SameFor(heap'[f], heap[f]),
         \A u \in Setters : pc'[u] \in {"push", "set"} =>
           /\ pc'[u] = pc[u] /\ req'[u] = req[u]
           /\ SameFor(heap'[req[u]], heap[req[u]])
           /\ heap'[req[u]].removed = heap[req[u]].removed,
         \A f \in Timer : heap'[f].base \in {0, heap[f].base},
         nanos' = nanos
  PROVE  Contents'
<1>1. \A r \in Slot : \A f \in ToSet(slots'[r]) : Request(f)'
  BY DEF Request, SameFor
<1>2. \A u \in Setters : pc'[u] \in {"push", "set"} => Request(req[u])' /\ ~heap'[req'[u]].removed
  BY DEF WheelInv, Contents, Request, SameFor
<1>3. \A u \in Setters : pc'[u] = "set" => heap'[req'[u]].delay >= 1
  BY DEF WheelInv, Contents, SameFor
<1>4. nanos' < Second /\ \A f \in Timer : heap'[f].base < Second
  <2>1. 0 < Second
    BY WheelAssumption
  <2>. QED  BY <2>1 DEF WheelInv, Contents
<1>. QED  BY <1>1, <1>2, <1>3, <1>4 DEF Contents

\* The key has no timer on the wheel: it gets this one.
LEMMA SetTaskKeeps ==
  ASSUME WheelInv, NEW s \in Setters, SetTask(s)
  PROVE  WheelInv'
<1>1. PICK e \in Timer, k \in Key, p \in Slot :
        /\ e = req[s] /\ k = heap[e].key /\ p = Position(heap[e].delay)
        /\ Circle(heap[e].delay) \in Nat /\ Request(e) /\ ~heap[e].removed
        /\ \A r \in Slot : e \notin ToSet(slots[r])
        /\ e \notin Queued \cup executing
        /\ pc[s] = "set"
  BY AtHandover DEF SetTask, Handover, Request
<1>2. /\ taskPosition[k].item = Nil
      /\ heap' = [heap EXCEPT ![e].circle = Circle(heap[e].delay)]
      /\ slots' = [slots EXCEPT ![p] = Append(@, e)]
      /\ taskPosition' = [taskPosition EXCEPT ![k] = [pos |-> p, item |-> e]]
      /\ pc' = [pc EXCEPT ![s] = "idle"] /\ req' = [req EXCEPT ![s] = Nil]
      /\ UNCHANGED <<tickedPos, runningChannel, executing, running, clock, run>>
  BY <1>1 DEF SetTask, Handover
<1>3. TypeOK /\ SlotsOnce /\ PlacesApart
  BY DEF WheelInv
<1>4. /\ Held' = Held \ {e} /\ e \in Held
      /\ pc'[s] = "idle"
      /\ \A u \in Setters \ {s} : pc'[u] = pc[u] /\ req'[u] = req[u]
  BY <1>1, <1>2, <1>3, HandedOver
<1>5. /\ slots' \in [Slot -> Seq(Timer)] /\ SlotsOnce'
      /\ ToSet(slots'[p]) = ToSet(slots[p]) \cup {e}
      /\ \A r \in Slot \ {p} : ToSet(slots'[r]) = ToSet(slots[r])
  BY <1>1, <1>2, <1>3, Appended
<1>6. /\ \A f \in Timer \ {e} : heap'[f] = heap[f]
      /\ heap'[e] = [heap[e] EXCEPT !.circle = Circle(heap[e].delay)]
  BY <1>2, <1>3 DEF TypeOK
<1>7. \A f \in Timer : SameFor(heap'[f], heap[f]) /\ heap'[f].removed = heap[f].removed
  <2>1. heap \in [Timer -> Entry]
    BY <1>3, HeapEntries
  <2>2. SameFor(heap'[e], heap[e]) /\ heap'[e].removed = heap[e].removed
    BY <1>1, <1>6, <2>1, CircleSet
  <2>. QED  BY <1>6, <2>1, <2>2 DEF SameFor
<1> USE DEF SameFor
<1>8. /\ taskPosition'[k] = [pos |-> p, item |-> e]
      /\ \A l \in Key \ {k} : taskPosition'[l] = taskPosition[l]
  BY <1>2, <1>3 DEF TypeOK
<1>9. UNCHANGED <<executing, nanos, Queued>>
  BY <1>2 DEF clock, Queued
<1>10. TypeOK'
  <2>1. heap' \in [Timer -> Entry]
    BY <1>2, <1>3, <1>7, HeapEntries DEF SameFor
  <2>2. taskPosition' \in [Key -> [pos : Slot, item : Timer \cup {Nil}]]
    BY <1>2, <1>3 DEF TypeOK
  <2>3. /\ pc' \in [Setters -> {"idle", "push", "set", "remove", "stop", "closed"}]
        /\ req' \in [Setters -> Timer \cup Key \cup {Nil}]
        /\ \A u \in Setters : pc'[u] \in {"push", "set"} => req'[u] \in Timer
        /\ \A u \in Setters : pc'[u] = "remove" => req'[u] \in Key
    BY <1>2, <1>3, <1>4 DEF TypeOK
  <2>. QED  BY <1>2, <1>3, <1>5, <2>1, <2>2, <2>3 DEF TypeOK, Entry, clock, run
<1>11. PlacesApart'
  <2>1. \A r \in Slot : ToSet(slots'[r]) \cap (Queued \cup executing \cup (Held \ {e})) = {}
    BY <1>1, <1>3, <1>5 DEF PlacesApart
  <2>. QED  BY <1>2, <1>3, <1>4, <1>9, <2>1 DEF PlacesApart
<1>12. Found'
  <2>1. ASSUME NEW l \in Key, taskPosition'[l].item # Nil
        PROVE  /\ taskPosition'[l].item \in ToSet(slots'[taskPosition'[l].pos])
               /\ heap'[taskPosition'[l].item].key = l
               /\ ~heap'[taskPosition'[l].item].removed
    <3>1. CASE l = k
      BY <1>1, <1>5, <1>7, <1>8, <3>1
    <3>2. CASE l # k
      <4>1. taskPosition'[l] = taskPosition[l] /\ taskPosition[l].item # Nil
        BY <1>8, <2>1, <3>2
      <4>. QED  BY <1>5, <1>7, <4>1, AtPosition
    <3>. QED  BY <3>1, <3>2
  <2>2. ASSUME NEW r \in Slot, NEW f \in ToSet(slots'[r]), ~heap'[f].removed
        PROVE  taskPosition'[heap'[f].key] = [pos |-> r, item |-> f]
    <3>1. CASE f = e
      BY <1>1, <1>5, <1>7, <1>8, <3>1
    <3>2. CASE f # e
      <4>1. f \in ToSet(slots[r]) /\ f \in Timer
        BY <1>3, <1>5, <2>2, <3>2, SlotElements
      <4>2. taskPosition[heap[f].key] = [pos |-> r, item |-> f] /\ heap[f].key \in Key
        BY <1>7, <2>2, <4>1 DEF WheelInv, Found, Contents, Request
      <4>3. heap[f].key # k
        BY <1>2, <4>1, <4>2, WheelAssumption
      <4>. QED  BY <1>7, <1>8, <4>1, <4>2, <4>3
    <3>. QED  BY <3>1, <3>2
  <2>. QED  BY <2>1, <2>2 DEF Found
<1>13. Contents'
  <2>1. \A r \in Slot : \A f \in ToSet(slots'[r]) : f \in Timer /\ Request(f)
    BY <1>1, <1>3, <1>5, SlotElements DEF WheelInv, Contents
  <2>2. \A u \in Setters : pc[u] \in {"push", "set"} => req[u] \in Timer
    BY <1>3 DEF TypeOK
  <2>3. \A u \in Setters : pc'[u] \in {"push", "set"} => pc'[u] = pc[u] /\ req'[u] = req[u]
    BY <1>4
  <2>. QED  BY <1>7, <1>9, <2>1, <2>2, <2>3, ContentsKept
<1>. QED  BY <1>5, <1>10, <1>11, <1>12, <1>13 DEF WheelInv

\* It has one in another slot: that one is marked, and this one found instead.
LEMMA MoveTaskKeeps ==
  ASSUME WheelInv, NEW s \in Setters, MoveTask(s)
  PROVE  WheelInv'
<1>1. PICK e \in Timer, k \in Key, p \in Slot :
        /\ e = req[s] /\ k = heap[e].key /\ p = Position(heap[e].delay)
        /\ Circle(heap[e].delay) \in Nat /\ Request(e) /\ ~heap[e].removed
        /\ heap[e].value \in Val \cup {Nil}
        /\ \A r \in Slot : e \notin ToSet(slots[r])
        /\ e \notin Queued \cup executing
        /\ pc[s] = "set"
  BY AtHandover DEF MoveTask, Handover, Request
<1>2. PICK o \in Timer :
        /\ o = taskPosition[k].item /\ taskPosition[k].item # Nil
        /\ taskPosition[k].pos \in Slot /\ p # taskPosition[k].pos
        /\ o \in ToSet(slots[taskPosition[k].pos])
  BY <1>1, AtPosition DEF MoveTask, Handover
<1>3. /\ heap' = [heap EXCEPT ![o].value = heap[e].value, ![o].removed = TRUE,
                              ![e].circle = Circle(heap[e].delay)]
      /\ slots' = [slots EXCEPT ![p] = Append(@, e)]
      /\ taskPosition' = [taskPosition EXCEPT ![k] = [pos |-> p, item |-> e]]
      /\ pc' = [pc EXCEPT ![s] = "idle"] /\ req' = [req EXCEPT ![s] = Nil]
      /\ UNCHANGED <<tickedPos, runningChannel, executing, running, clock, run>>
  BY <1>1, <1>2 DEF MoveTask, Handover
<1>4. TypeOK /\ SlotsOnce /\ PlacesApart /\ o # e
  BY <1>1, <1>2 DEF WheelInv
<1>5. /\ Held' = Held \ {e} /\ e \in Held
      /\ pc'[s] = "idle"
      /\ \A u \in Setters \ {s} : pc'[u] = pc[u] /\ req'[u] = req[u]
  BY <1>1, <1>3, <1>4, HandedOver
<1>6. /\ slots' \in [Slot -> Seq(Timer)] /\ SlotsOnce'
      /\ ToSet(slots'[p]) = ToSet(slots[p]) \cup {e}
      /\ \A r \in Slot \ {p} : ToSet(slots'[r]) = ToSet(slots[r])
  BY <1>1, <1>3, <1>4, Appended
<1>7. heap \in [Timer -> Entry]
  BY <1>4, HeapEntries
<1>8. /\ \A f \in Timer : SameFor(heap'[f], heap[f])
      /\ \A f \in Timer \ {o} : heap'[f].removed = heap[f].removed
      /\ heap'[o].removed
  <2>1. /\ \A f \in Timer \ {e, o} : heap'[f] = heap[f]
        /\ heap'[e] = [heap[e] EXCEPT !.circle = Circle(heap[e].delay)]
        /\ heap'[o] = [[heap[o] EXCEPT !.value = heap[e].value] EXCEPT !.removed = TRUE]
    BY <1>3, <1>4, <1>7
  <2>2. SameFor(heap'[e], heap[e]) /\ heap'[e].removed = heap[e].removed
    BY <1>1, <1>7, <2>1, CircleSet
  <2>3. SameFor([heap[o] EXCEPT !.value = heap[e].value], heap[o])
    BY <1>1, <1>7, ValueSet
  <2>4. SameFor(heap'[o], [heap[o] EXCEPT !.value = heap[e].value]) /\ heap'[o].removed
    BY <2>1, <2>3, RemovedSet DEF SameFor
  <2>. QED  BY <1>7, <2>1, <2>2, <2>3, <2>4 DEF SameFor
<1> USE DEF SameFor
<1>9. /\ taskPosition'[k] = [pos |-> p, item |-> e]
      /\ \A l \in Key \ {k} : taskPosition'[l] = taskPosition[l]
  BY <1>3, <1>4 DEF TypeOK
<1>10. UNCHANGED <<executing, nanos, Queued>>
  BY <1>3 DEF clock, Queued
<1>11. TypeOK'
  <2>1. heap' \in [Timer -> Entry]
    BY <1>3, <1>7, <1>8
  <2>2. taskPosition' \in [Key -> [pos : Slot, item : Timer \cup {Nil}]]
    BY <1>3, <1>4 DEF TypeOK
  <2>3. /\ pc' \in [Setters -> {"idle", "push", "set", "remove", "stop", "closed"}]
        /\ req' \in [Setters -> Timer \cup Key \cup {Nil}]
        /\ \A u \in Setters : pc'[u] \in {"push", "set"} => req'[u] \in Timer
        /\ \A u \in Setters : pc'[u] = "remove" => req'[u] \in Key
    BY <1>3, <1>4, <1>5 DEF TypeOK
  <2>. QED  BY <1>3, <1>4, <1>6, <2>1, <2>2, <2>3 DEF TypeOK, Entry, clock, run
<1>12. PlacesApart'
  <2>1. \A r \in Slot : ToSet(slots'[r]) \cap (Queued \cup executing \cup (Held \ {e})) = {}
    BY <1>1, <1>4, <1>6 DEF PlacesApart
  <2>. QED  BY <1>3, <1>4, <1>5, <1>10, <2>1 DEF PlacesApart
<1>13. Found'
  <2>1. ASSUME NEW l \in Key, taskPosition'[l].item # Nil
        PROVE  /\ taskPosition'[l].item \in ToSet(slots'[taskPosition'[l].pos])
               /\ heap'[taskPosition'[l].item].key = l
               /\ ~heap'[taskPosition'[l].item].removed
    <3>1. CASE l = k
      BY <1>1, <1>4, <1>6, <1>8, <1>9, <3>1
    <3>2. CASE l # k
      <4>1. taskPosition'[l] = taskPosition[l] /\ taskPosition[l].item # Nil
        BY <1>9, <2>1, <3>2
      <4>2. taskPosition[l].item # o
        BY <1>1, <1>2, <3>2, <4>1, AtPosition
      <4>3. /\ taskPosition[l].item \in ToSet(slots[taskPosition[l].pos])
            /\ heap[taskPosition[l].item].key = l /\ ~heap[taskPosition[l].item].removed
            /\ taskPosition[l].item \in Timer \ {o} /\ taskPosition[l].pos \in Slot
        BY <4>1, <4>2, AtPosition
      <4>. QED  BY <1>6, <1>8, <4>1, <4>3
    <3>. QED  BY <3>1, <3>2
  <2>2. ASSUME NEW r \in Slot, NEW f \in ToSet(slots'[r]), ~heap'[f].removed
        PROVE  taskPosition'[heap'[f].key] = [pos |-> r, item |-> f]
    <3>1. CASE f = e
      BY <1>1, <1>6, <1>8, <1>9, <3>1
    <3>2. CASE f # e
      <4>1. f \in ToSet(slots[r]) /\ f \in Timer /\ f # o
        BY <1>4, <1>6, <1>8, <2>2, <3>2, SlotElements
      <4>2. taskPosition[heap[f].key] = [pos |-> r, item |-> f] /\ heap[f].key \in Key
        BY <1>8, <2>2, <4>1 DEF WheelInv, Found, Contents, Request
      <4>3. heap[f].key # k
        BY <1>2, <4>1, <4>2
      <4>. QED  BY <1>8, <1>9, <4>1, <4>2, <4>3
    <3>. QED  BY <3>1, <3>2
  <2>. QED  BY <2>1, <2>2 DEF Found
<1>14. Contents'
  <2>1. \A r \in Slot : \A f \in ToSet(slots'[r]) : f \in Timer /\ Request(f)
    BY <1>1, <1>4, <1>6, SlotElements DEF WheelInv, Contents
  <2>2. \A u \in Setters : pc[u] \in {"push", "set"} => req[u] \in Timer /\ req[u] # o
    BY <1>2, <1>4 DEF TypeOK, PlacesApart, Held
  <2>3. \A u \in Setters : pc'[u] \in {"push", "set"} => pc'[u] = pc[u] /\ req'[u] = req[u]
    BY <1>5
  <2>. QED  BY <1>8, <1>10, <2>1, <2>2, <2>3, ContentsKept
<1>. QED  BY <1>6, <1>11, <1>12, <1>13, <1>14 DEF WheelInv

\* It has one in the same slot: that one stays, and this one is forgotten.
LEMMA KeepTaskKeeps ==
  ASSUME WheelInv, NEW s \in Setters, KeepTask(s)
  PROVE  WheelInv'
<1>1. PICK e \in Timer, k \in Key :
        /\ e = req[s] /\ k = heap[e].key
        /\ Circle(heap[e].delay) \in Nat
        /\ heap[e].value \in Val \cup {Nil}
        /\ \A r \in Slot : e \notin ToSet(slots[r])
        /\ pc[s] = "set"
  BY AtHandover DEF KeepTask, Handover, Request
<1>2. PICK o \in Timer :
        /\ o = taskPosition[k].item /\ taskPosition[k].item # Nil
        /\ taskPosition[k].pos \in Slot
        /\ o \in ToSet(slots[taskPosition[k].pos])
  BY <1>1, AtPosition DEF KeepTask, Handover
<1> DEFINE c == IF Circle(heap[e].delay) > 0 THEN Circle(heap[e].delay) ELSE heap[o].circle
<1>3. TypeOK /\ PlacesApart /\ o # e /\ heap \in [Timer -> Entry]
  BY <1>1, <1>2, HeapEntries DEF WheelInv
<1>4. /\ heap' = [heap EXCEPT ![o].value = heap[e].value,
                              ![o].circle = IF Circle(heap[e].delay) > 0
                                            THEN Circle(heap[e].delay) ELSE @,
                              ![e] = Blank]
      /\ pc' = [pc EXCEPT ![s] = "idle"] /\ req' = [req EXCEPT ![s] = Nil]
      /\ UNCHANGED <<wheel, runningChannel, executing, running, clock, run>>
  BY <1>1, <1>2 DEF KeepTask, Handover
<1>5. /\ Held' = Held \ {e} /\ e \in Held
      /\ pc'[s] = "idle"
      /\ \A u \in Setters \ {s} : pc'[u] = pc[u] /\ req'[u] = req[u]
  BY <1>1, <1>3, <1>4, HandedOver
<1>6. /\ \A f \in Timer \ {e} : SameFor(heap'[f], heap[f]) /\ heap'[f].removed = heap[f].removed
      /\ heap'[e] = Blank
  <2>1. /\ \A f \in Timer \ {e, o} : heap'[f] = heap[f]
        /\ heap'[e] = Blank
        /\ heap'[o] = [[heap[o] EXCEPT !.value = heap[e].value] EXCEPT !.circle = c]
    BY <1>3, <1>4
  <2>2. /\ SameFor([heap[o] EXCEPT !.value = heap[e].value], heap[o])
        /\ [heap[o] EXCEPT !.value = heap[e].value].removed = heap[o].removed
    BY <1>1, <1>3, ValueSet
  <2>3. c \in Nat
    BY <1>1, <1>3 DEF Entry
  <2> HIDE DEF c
  <2>4. /\ SameFor(heap'[o], [heap[o] EXCEPT !.value = heap[e].value])
        /\ heap'[o].removed = [heap[o] EXCEPT !.value = heap[e].value].removed
    <3> DEFINE x == [heap[o] EXCEPT !.value = heap[e].value]
    <3>1. x \in Entry
      BY <2>2 DEF SameFor
    <3> HIDE DEF x
    <3>2. SameFor([x EXCEPT !.circle = c], x) /\ [x EXCEPT !.circle = c].removed = x.removed
      BY <2>3, <3>1, CircleSet
    <3>. QED  BY <2>1, <3>2 DEF x
  <2>. QED  BY <1>3, <2>1, <2>2, <2>4 DEF SameFor
<1> HIDE DEF c
<1> USE DEF SameFor
<1>7. UNCHANGED <<slots, taskPosition, executing, nanos, Queued>>
  BY <1>4 DEF wheel, clock, Queued
<1>8. TypeOK'
  <2>1. heap' \in [Timer -> Entry]
    <3>1. Blank \in Entry
      BY BlankType DEF Entry
    <3>. QED  BY <1>3, <1>4, <1>6, <3>1
  <2>2. /\ pc' \in [Setters -> {"idle", "push", "set", "remove", "stop", "closed"}]
        /\ req' \in [Setters -> Timer \cup Key \cup {Nil}]
        /\ \A u \in Setters : pc'[u] \in {"push", "set"} => req'[u] \in Timer
        /\ \A u \in Setters : pc'[u] = "remove" => req'[u] \in Key
    BY <1>3, <1>4, <1>5 DEF TypeOK
  <2>. QED  BY <1>3, <1>4, <2>1, <2>2 DEF TypeOK, Entry, wheel, clock, run
<1>9. SlotsOnce'
  BY <1>7 DEF WheelInv, SlotsOnce
<1>10. PlacesApart'
  BY <1>3, <1>4, <1>5, <1>7 DEF PlacesApart
<1>11. \A r \in Slot : \A f \in ToSet(slots[r]) : f \in Timer \ {e}
  BY <1>1, <1>3, SlotElements
<1>12. Found'
  <2>1. ASSUME NEW l \in Key, taskPosition[l].item # Nil
        PROVE  /\ taskPosition[l].item \in ToSet(slots[taskPosition[l].pos])
               /\ heap'[taskPosition[l].item].key = l
               /\ ~heap'[taskPosition[l].item].removed
    BY <1>6, <1>11, <2>1, AtPosition
  <2>2. ASSUME NEW r \in Slot, NEW f \in ToSet(slots[r]), ~heap'[f].removed
        PROVE  taskPosition[heap'[f].key] = [pos |-> r, item |-> f]
    BY <1>6, <1>11, <2>2 DEF WheelInv, Found
  <2>. QED  BY <1>7, <2>1, <2>2 DEF Found
<1>13. Contents'
  <2>1. \A u \in Setters : pc'[u] \in {"push", "set"} =>
          pc'[u] = pc[u] /\ req'[u] = req[u] /\ req[u] \in Timer \ {e}
    BY <1>1, <1>3, <1>5 DEF TypeOK, PlacesApart
  <2>2. \A r \in Slot : \A f \in ToSet(slots'[r]) : Request(f)
    BY <1>7 DEF WheelInv, Contents
  <2>. QED  BY <1>6, <1>7, <1>11, <2>1, <2>2, BlankType, ContentsKept
<1>. QED  BY <1>8, <1>9, <1>10, <1>12, <1>13 DEF WheelInv

\* The timer of a key is marked, and not found any more.
LEMMA RemoveTaskKeeps ==
  ASSUME WheelInv, NEW s \in Setters, RemoveTask(s)
  PROVE  WheelInv'
<1> DEFINE k == req[s]
<1>1. /\ pc[s] = "remove" /\ k \in Key
      /\ pc' = [pc EXCEPT ![s] = "idle"] /\ req' = [req EXCEPT ![s] = Nil]
      /\ UNCHANGED <<tickedPos, slots, runningChannel, executing, running, clock, run>>
  BY DEF RemoveTask, Handover, WheelInv, TypeOK
<1>2. TypeOK /\ PlacesApart /\ heap \in [Timer -> Entry]
  BY HeapEntries DEF WheelInv
<1>3. /\ pc'[s] = "idle"
      /\ \A u \in Setters \ {s} : pc'[u] = pc[u] /\ req'[u] = req[u]
  BY <1>1, <1>2 DEF TypeOK
<1>4. Held' = Held
  BY <1>1, <1>3, SameHeld
<1>5. UNCHANGED <<slots, executing, nanos, Queued>>
  BY <1>1 DEF clock, Queued
<1>6. /\ pc' \in [Setters -> {"idle", "push", "set", "remove", "stop", "closed"}]
      /\ req' \in [Setters -> Timer \cup Key \cup {Nil}]
      /\ \A u \in Setters : pc'[u] \in {"push", "set"} => req'[u] \in Timer
      /\ \A u \in Setters : pc'[u] = "remove" => req'[u] \in Key
  BY <1>1, <1>2, <1>3 DEF TypeOK
<1>7. SlotsOnce' /\ PlacesApart'
  BY <1>1, <1>2, <1>3, <1>4, <1>5 DEF WheelInv, SlotsOnce, PlacesApart
<1>8. ASSUME heap' \in [Timer -> Entry],
             taskPosition' \in [Key -> [pos : Slot, item : Timer \cup {Nil}]]
      PROVE  TypeOK'
  BY <1>1, <1>2, <1>6, <1>8 DEF TypeOK, Entry, clock, run
<1>9. CASE taskPosition[k].item = Nil
  <2>1. UNCHANGED <<heap, taskPosition>>
    BY <1>9 DEF RemoveTask
  <2>2. TypeOK'
    BY <1>2, <1>8, <2>1 DEF TypeOK
  <2>3. Found'
    BY <1>5, <2>1 DEF WheelInv, Found
  <2>4. Contents'
    BY <1>3, <1>5, <2>1 DEF WheelInv, Contents, Request
  <2>. QED  BY <1>7, <2>2, <2>3, <2>4 DEF WheelInv
<1>10. CASE taskPosition[k].item # Nil
  <2>1. PICK o \in Timer :
          /\ o = taskPosition[k].item
          /\ heap' = [heap EXCEPT ![o].removed = TRUE]
          /\ taskPosition' = [taskPosition EXCEPT ![k] = NoPosition]
          /\ o \notin Held
    BY <1>1, <1>10, AtPosition DEF RemoveTask
  <2>2. /\ \A f \in Timer : SameFor(heap'[f], heap[f])
        /\ \A f \in Timer \ {o} : heap'[f].removed = heap[f].removed
        /\ heap'[o].removed
    <3>1. /\ \A f \in Timer \ {o} : heap'[f] = heap[f]
          /\ heap'[o] = [heap[o] EXCEPT !.removed = TRUE]
      BY <1>2, <2>1
    <3>2. SameFor(heap'[o], heap[o]) /\ heap'[o].removed
      BY <1>2, <3>1, RemovedSet
    <3>. QED  BY <1>2, <3>1, <3>2 DEF SameFor
  <2> USE DEF SameFor
  <2>3. TypeOK'
    <3>1. heap' \in [Timer -> Entry]
      BY <1>2, <2>1, <2>2
    <3>2. taskPosition' \in [Key -> [pos : Slot, item : Timer \cup {Nil}]]
      BY <1>2, <2>1, BlankType DEF TypeOK
    <3>. QED  BY <1>8, <3>1, <3>2
  <2>4. /\ taskPosition'[k].item = Nil
        /\ \A l \in Key \ {k} : taskPosition'[l] = taskPosition[l]
    BY <1>1, <1>2, <2>1, BlankType DEF TypeOK
  <2>5. Found'
    <3>1. ASSUME NEW l \in Key, taskPosition'[l].item # Nil
          PROVE  /\ taskPosition'[l].item \in ToSet(slots[taskPosition'[l].pos])
                 /\ heap'[taskPosition'[l].item].key = l
                 /\ ~heap'[taskPosition'[l].item].removed
      <4>1. l # k /\ taskPosition'[l] = taskPosition[l] /\ taskPosition[l].item # Nil
        BY <2>4, <3>1
      <4>2. /\ taskPosition[l].item \in ToSet(slots[taskPosition[l].pos])
            /\ heap[taskPosition[l].item].key = l /\ ~heap[taskPosition[l].item].removed
            /\ taskPosition[l].item \in Timer
        BY <4>1, AtPosition
      <4>3. heap[o].key = k
        BY <1>1, <1>10, <2>1, AtPosition
      <4>. QED  BY <2>2, <4>1, <4>2, <4>3
    <3>2. ASSUME NEW r \in Slot, NEW f \in ToSet(slots[r]), ~heap'[f].removed
          PROVE  taskPosition'[heap'[f].key] = [pos |-> r, item |-> f]
      <4>1. f \in Timer /\ f # o
        BY <1>2, <2>2, <3>2, SlotElements
      <4>2. taskPosition[heap[f].key] = [pos |-> r, item |-> f] /\ heap[f].key \in Key
        BY <2>2, <3>2, <4>1 DEF WheelInv, Found, Contents, Request
      <4>3. heap[f].key # k
        BY <2>1, <4>1, <4>2
      <4>. QED  BY <2>2, <2>4, <4>1, <4>2, <4>3
    <3>. QED  BY <1>5, <3>1, <3>2 DEF Found
  <2>6. Contents'
    <3>1. \A r \in Slot : \A f \in ToSet(slots'[r]) : f \in Timer /\ Request(f)
      BY <1>2, <1>5, SlotElements DEF WheelInv, Contents
    <3>2. \A u \in Setters : pc'[u] \in {"push", "set"} =>
            pc'[u] = pc[u] /\ req'[u] = req[u] /\ req[u] \in Timer \ {o}
      BY <1>2, <1>3, <2>1 DEF TypeOK, Held
    <3>. QED  BY <1>5, <2>2, <3>1, <3>2, ContentsKept
  <2>. QED  BY <1>7, <2>3, <2>5, <2>6 DEF WheelInv
<1>. QED  BY <1>9, <1>10

\* A step that moves no timer and changes no setter that holds one.
LEMMA QuietKeeps ==
  ASSUME WheelInv, TypeOK', UNCHANGED <<slots, taskPosition, heap, runningChannel, executing>>,
         nanos' < Second,
         \A u \in Setters :
           /\ pc'[u] \in {"push", "set"} <=> pc[u] \in {"push", "set"}
           /\ pc[u] \in {"push", "set"} => pc'[u] = pc[u] /\ req'[u] = req[u]
  PROVE  WheelInv'
<1>1. Held' = Held
  BY SameHeld
<1>2. Queued' = Queued
  BY DEF Queued
<1>3. SlotsOnce' /\ Found'
  BY DEF WheelInv, SlotsOnce, Found
<1>4. PlacesApart'
  BY <1>1, <1>2 DEF WheelInv, PlacesApart
<1>5. Contents'
  BY DEF WheelInv, Contents, Request
<1>. QED  BY <1>3, <1>4, <1>5 DEF WheelInv

LEMMA QuietSteps ==
  ASSUME WheelInv,
         \/ \E s \in Setters : \/ \E k \in Key : RemoveTimer(s, k)
                               \/ Close(s) \/ StopTicker(s) \/ ClearRunning(s)
         \/ Ticker \/ OnTick \/ ScanEnd \/ UNCHANGED vars
  PROVE  WheelInv'
<1>1. TypeOK /\ nanos < Second /\ Second \in Nat \ {0} /\ NumSlots \in Nat \ {0}
  BY WheelAssumption DEF WheelInv, Contents
<1>2. ASSUME NEW s \in Setters, NEW k \in Key, RemoveTimer(s, k) PROVE WheelInv'
  <2>1. TypeOK'
    BY <1>1, <1>2 DEF RemoveTimer, TypeOK, wheel, clock, run
  <2>. QED  BY <1>1, <1>2, <2>1, QuietKeeps DEF RemoveTimer, TypeOK, wheel, clock
<1>3. ASSUME NEW s \in Setters, Close(s) \/ StopTicker(s) \/ ClearRunning(s) PROVE WheelInv'
  <2>1. TypeOK'
    BY <1>1, <1>3 DEF Close, StopTicker, ClearRunning, TypeOK, wheel, clock, run
  <2>. QED  BY <1>1, <1>3, <2>1, QuietKeeps DEF Close, StopTicker, ClearRunning, TypeOK, wheel, clock
<1>4. CASE Ticker
  <2>1. nanos' \in Nat /\ nanos' < Second
    <3>1. nanos + 1 \in Nat
      BY <1>1 DEF TypeOK
    <3>. QED  BY <1>1, <1>4, <3>1, Division DEF Ticker
  <2>2. TypeOK'
    BY <1>1, <1>4, <2>1 DEF Ticker, TypeOK, wheel, run, setters
  <2>. QED  BY <1>4, <2>1, <2>2, QuietKeeps DEF Ticker, wheel, setters
<1>5. CASE OnTick
  <2>1. tickedPos' \in Slot
    <3>1. tickedPos + 1 \in Nat
      BY <1>1 DEF TypeOK, Slot
    <3>. QED  BY <1>1, <1>5, <3>1, Division DEF OnTick, Slot
  <2>2. TypeOK'
    <3>1. /\ tickReady' = FALSE /\ loop' = "scan" /\ cursor' = 1
          /\ UNCHANGED <<slots, taskPosition, heap, runningChannel, executing, running,
                         ticking, nanos, pc, req>>
      BY <1>5 DEF OnTick, setters
    <3>2. loop' \in {"select", "scan"} /\ cursor' \in Nat \ {0}
      BY <3>1
    <3>3. tickReady' \in BOOLEAN
      BY <3>1, Zenon
    <3>. QED  BY <1>1, <2>1, <3>1, <3>2, <3>3, SMTT(60) DEF TypeOK
  <2>. QED  BY <1>1, <1>5, <2>2, QuietKeeps DEF OnTick, setters
<1>6. CASE ScanEnd
  <2>1. TypeOK'
    BY <1>1, <1>6 DEF ScanEnd, TypeOK, wheel, clock, setters
  <2>. QED  BY <1>1, <1>6, <2>1, QuietKeeps DEF ScanEnd, wheel, clock, setters
<1>7. CASE UNCHANGED vars
  <2>1. TypeOK'
    BY <1>1, <1>7 DEF vars, TypeOK, wheel, clock, run, setters
  <2>. QED  BY <1>1, <1>7, <2>1, QuietKeeps DEF vars, wheel, clock, setters
<1>. QED  BY <1>2, <1>3, <1>4, <1>5, <1>6, <1>7

-----------------------------------------------------------------------------
(* The scan, the workers, and the theorems about TimingWheel.tla. *)

\* The element the scan is at is in the slot.
LEMMA AtCurrent ==
  ASSUME WheelInv, Scanning
  PROVE  /\ tickedPos \in Slot /\ cursor \in DOMAIN slots[tickedPos]
         /\ Current \in Timer /\ Current \in ToSet(slots[tickedPos])
         /\ Request(Current)
<1>1. tickedPos \in Slot /\ slots[tickedPos] \in Seq(Timer) /\ cursor \in Nat \ {0}
  BY DEF WheelInv, TypeOK
<1>2. Len(slots[tickedPos]) \in Nat /\ DOMAIN slots[tickedPos] = 1 .. Len(slots[tickedPos])
  BY <1>1, LenProperties
<1>3. cursor \in DOMAIN slots[tickedPos]
  BY <1>1, <1>2 DEF Scanning
<1>4. Current \in ToSet(slots[tickedPos])
  BY <1>3 DEF Current, ToSet
<1>5. TypeOK
  BY DEF WheelInv
<1>. QED  BY <1>1, <1>3, <1>4, <1>5, SlotElements DEF WheelInv, Contents

\* A marked timer is swept out of its slot: no position pointed to it.
LEMMA ScanRemovedKeeps ==
  ASSUME WheelInv, ScanRemoved
  PROVE  WheelInv'
<1>1. PICK e \in Timer :
        /\ e = Current /\ tickedPos \in Slot /\ cursor \in DOMAIN slots[tickedPos]
        /\ e \in ToSet(slots[tickedPos])
  BY AtCurrent DEF ScanRemoved
<1>2. /\ heap[e].removed
      /\ Drop(tickedPos, cursor)
      /\ heap' = [heap EXCEPT ![e] = Blank]
      /\ UNCHANGED <<tickedPos, taskPosition, runningChannel, executing, running,
                     clock, run, setters>>
  BY <1>1 DEF ScanRemoved
<1>3. TypeOK /\ SlotsOnce /\ PlacesApart /\ heap \in [Timer -> Entry]
  BY HeapEntries DEF WheelInv
<1>4. slots[tickedPos][cursor] = e
  BY <1>1 DEF Current
<1>5. /\ slots' \in [Slot -> Seq(Timer)] /\ SlotsOnce'
      /\ \A r \in Slot : ToSet(slots'[r]) = ToSet(slots[r]) \ {e}
  <2>1. /\ slots' \in [Slot -> Seq(Timer)] /\ SlotsOnce'
        /\ \A r \in Slot : ToSet(slots'[r]) = ToSet(slots[r]) \ {slots[tickedPos][cursor]}
    BY <1>1, <1>2, <1>3, Dropped
  <2>. QED  BY <1>4, <2>1
<1>6. heap'[e] = Blank /\ \A f \in Timer \ {e} : heap'[f] = heap[f]
  BY <1>2, <1>3
<1>7. UNCHANGED <<taskPosition, executing, nanos, pc, req, Queued, Held>>
  BY <1>2 DEF clock, setters, Queued, Held
<1>8. TypeOK'
  <2>1. heap' \in [Timer -> Entry]
    <3>1. Blank \in Entry
      BY BlankType DEF Entry
    <3>. QED  BY <1>2, <1>3, <3>1
  <2>. QED  BY <1>2, <1>3, <1>5, <2>1 DEF TypeOK, Entry, clock, run, setters
<1>9. PlacesApart'
  BY <1>2, <1>3, <1>5, <1>7 DEF PlacesApart
<1>10. Found'
  <2>1. ASSUME NEW l \in Key, taskPosition[l].item # Nil
        PROVE  /\ taskPosition[l].item \in ToSet(slots'[taskPosition[l].pos])
               /\ heap'[taskPosition[l].item].key = l
               /\ ~heap'[taskPosition[l].item].removed
    <3>1. /\ taskPosition[l].item \in ToSet(slots[taskPosition[l].pos])
          /\ heap[taskPosition[l].item].key = l /\ ~heap[taskPosition[l].item].removed
          /\ taskPosition[l].item \in Timer /\ taskPosition[l].pos \in Slot
      BY <2>1, AtPosition
    <3>2. taskPosition[l].item # e
      BY <1>2, <3>1
    <3>. QED  BY <1>5, <1>6, <3>1, <3>2
  <2>2. ASSUME NEW r \in Slot, NEW f \in ToSet(slots'[r]), ~heap'[f].removed
        PROVE  taskPosition[heap'[f].key] = [pos |-> r, item |-> f]
    <3>1. f \in ToSet(slots[r]) /\ f # e /\ f \in Timer
      BY <1>3, <1>5, <2>2, SlotElements
    <3>. QED  BY <1>6, <2>2, <3>1 DEF WheelInv, Found
  <2>. QED  BY <1>7, <2>1, <2>2 DEF Found
<1>11. Contents'
  <2>1. \A r \in Slot : \A f \in ToSet(slots'[r]) : f \in Timer \ {e} /\ Request(f)
    BY <1>3, <1>5, SlotElements DEF WheelInv, Contents
  <2>2. \A u \in Setters : pc[u] \in {"push", "set"} => req[u] \in Timer \ {e}
    BY <1>1, <1>3 DEF TypeOK, PlacesApart, Held
  <2>3. \A f \in Timer \ {e} : SameFor(heap'[f], heap[f]) /\ heap'[f].removed = heap[f].removed
    BY <1>3, <1>6 DEF SameFor
  <2>4. \A f \in Timer : heap'[f].base \in {0, heap[f].base}
    BY <1>6, BlankType
  <2>. QED  BY <1>7, <2>1, <2>2, <2>3, <2>4, ContentsKept
<1>. QED  BY <1>5, <1>8, <1>9, <1>10, <1>11 DEF WheelInv

\* An unmarked timer goes to the workers, or has one circle less to go.
LEMMA ScanTaskKeeps ==
  ASSUME WheelInv, ScanTask
  PROVE  WheelInv'
<1>1. PICK e \in Timer :
        /\ e = Current /\ tickedPos \in Slot /\ cursor \in DOMAIN slots[tickedPos]
        /\ e \in ToSet(slots[tickedPos]) /\ Request(e) /\ ~heap[e].removed
        /\ slots[tickedPos][cursor] = e
  BY AtCurrent DEF ScanTask, Current
<1>2. TypeOK /\ SlotsOnce /\ PlacesApart /\ heap \in [Timer -> Entry]
  BY HeapEntries DEF WheelInv
<1>3. /\ UNCHANGED <<tickedPos, executing, running, clock, loop, setters>>
      /\ UNCHANGED <<nanos, pc, req, Held>>
  BY DEF ScanTask, clock, setters, Held
<1>4. CASE ~Due(e) /\ heap[e].circle > 0
  <2>1. /\ heap' = [heap EXCEPT ![e].circle = @ - 1]
        /\ cursor' = cursor + 1
        /\ UNCHANGED <<slots, taskPosition, runningChannel>>
    BY <1>1, <1>4 DEF ScanTask
  <2>2. /\ \A f \in Timer : SameFor(heap'[f], heap[f])
        /\ \A f \in Timer : heap'[f].removed = heap[f].removed
    <3>1. /\ \A f \in Timer \ {e} : heap'[f] = heap[f]
          /\ heap'[e] = [heap[e] EXCEPT !.circle = heap[e].circle - 1]
      BY <1>2, <2>1
    <3>2. heap[e].circle - 1 \in Nat
      BY <1>2, <1>4 DEF Entry
    <3>3. SameFor(heap'[e], heap[e]) /\ heap'[e].removed = heap[e].removed
      BY <1>2, <3>1, <3>2, CircleSet
    <3>. QED  BY <1>2, <3>1, <3>3 DEF SameFor
  <2> USE DEF SameFor
  <2>3. TypeOK'
    <3>1. heap' \in [Timer -> Entry]
      BY <1>2, <2>1, <2>2
    <3>2. cursor' \in Nat \ {0}
      BY <1>2, <2>1 DEF TypeOK
    <3>. QED  BY <1>2, <1>3, <2>1, <3>1, <3>2 DEF TypeOK, Entry, clock, setters
  <2>4. SlotsOnce' /\ PlacesApart'
    BY <1>2, <1>3, <2>1 DEF SlotsOnce, PlacesApart, Queued
  <2>5. \A r \in Slot : ToSet(slots[r]) \subseteq Timer
    BY <1>2, SlotElements
  <2>6. Found'
    <3>1. \A l \in Key : taskPosition[l].item # Nil => taskPosition[l].item \in Timer
      BY AtPosition
    <3>. QED  BY <2>1, <2>2, <2>5, <3>1 DEF WheelInv, Found
  <2>7. Contents'
    <3>1. \A u \in Setters : pc'[u] \in {"push", "set"} =>
            pc'[u] = pc[u] /\ req'[u] = req[u] /\ req[u] \in Timer
      BY <1>2, <1>3 DEF TypeOK
    <3>2. \A r \in Slot : \A f \in ToSet(slots'[r]) : f \in Timer /\ Request(f)
      BY <2>1, <2>5 DEF WheelInv, Contents
    <3>. QED  BY <1>3, <2>2, <3>1, <3>2, ContentsKept
  <2>. QED  BY <2>3, <2>4, <2>6, <2>7 DEF WheelInv
<1>5. CASE ~(~Due(e) /\ heap[e].circle > 0)
  <2>1. /\ Len(runningChannel) < Worker
        /\ runningChannel' = Append(runningChannel, e)
        /\ Drop(tickedPos, cursor)
        /\ taskPosition' = [taskPosition EXCEPT ![heap[e].key] = NoPosition]
        /\ UNCHANGED <<heap, cursor>>
    BY <1>1, <1>5 DEF ScanTask
  <2>2. /\ slots' \in [Slot -> Seq(Timer)] /\ SlotsOnce'
        /\ \A r \in Slot : ToSet(slots'[r]) = ToSet(slots[r]) \ {e}
    BY <1>1, <1>2, <2>1, Dropped
  <2>3. /\ runningChannel \in Seq(Timer) /\ Once(runningChannel)
        /\ e \notin ToSet(runningChannel)
    BY <1>1, <1>2 DEF TypeOK, PlacesApart, Queued
  <2>4. Once(runningChannel') /\ Queued' = Queued \cup {e}
    BY <2>1, <2>3, AppendElements DEF Queued
  <2>5. heap[e].key \in Key
    BY <1>1 DEF Request
  <2>6. /\ taskPosition'[heap[e].key].item = Nil
        /\ \A l \in Key \ {heap[e].key} : taskPosition'[l] = taskPosition[l]
    BY <1>2, <2>1, <2>5, BlankType DEF TypeOK
  <2>7. taskPosition[heap[e].key] = [pos |-> tickedPos, item |-> e]
    BY <1>1 DEF WheelInv, Found
  <2>8. TypeOK'
    <3>1. runningChannel' \in Seq(Timer) /\ Len(runningChannel') <= Worker
      <4>1. /\ runningChannel' \in Seq(Timer) /\ Len(runningChannel') = Len(runningChannel) + 1
            /\ Len(runningChannel) \in Nat
        BY <2>1, <2>3, AppendProperties, LenProperties
      <4>. QED  BY <2>1, <4>1, WheelAssumption
    <3>2. taskPosition' \in [Key -> [pos : Slot, item : Timer \cup {Nil}]]
      BY <1>2, <2>1, BlankType DEF TypeOK
    <3>. QED  BY <1>2, <1>3, <2>1, <2>2, <3>1, <3>2 DEF TypeOK, clock, setters
  <2>9. PlacesApart'
    BY <1>1, <1>2, <1>3, <2>2, <2>4 DEF PlacesApart
  <2>10. Found'
    <3>1. ASSUME NEW l \in Key, taskPosition'[l].item # Nil
          PROVE  /\ taskPosition'[l].item \in ToSet(slots'[taskPosition'[l].pos])
                 /\ heap[taskPosition'[l].item].key = l
                 /\ ~heap[taskPosition'[l].item].removed
      <4>1. /\ l # heap[e].key /\ taskPosition'[l] = taskPosition[l]
            /\ taskPosition[l].item # Nil
        BY <2>6, <3>1
      <4>2. /\ taskPosition[l].item \in ToSet(slots[taskPosition[l].pos])
            /\ heap[taskPosition[l].item].key = l /\ ~heap[taskPosition[l].item].removed
            /\ taskPosition[l].pos \in Slot
        BY <4>1, AtPosition
      <4>. QED  BY <2>2, <4>1, <4>2
    <3>2. ASSUME NEW r \in Slot, NEW f \in ToSet(slots'[r]), ~heap[f].removed
          PROVE  taskPosition'[heap[f].key] = [pos |-> r, item |-> f]
      <4>1. f \in ToSet(slots[r]) /\ f # e
        BY <2>2, <3>2
      <4>2. taskPosition[heap[f].key] = [pos |-> r, item |-> f] /\ heap[f].key \in Key
        BY <3>2, <4>1 DEF WheelInv, Found, Contents, Request
      <4>3. heap[f].key # heap[e].key
        BY <2>7, <4>1, <4>2
      <4>. QED  BY <2>6, <4>2, <4>3
    <3>. QED  BY <2>1, <3>1, <3>2 DEF Found
  <2>11. Contents'
    <3>1. \A r \in Slot : \A f \in ToSet(slots'[r]) : Request(f)
      BY <2>2 DEF WheelInv, Contents
    <3>. QED  BY <1>3, <2>1, <3>1 DEF WheelInv, Contents, Request
  <2>. QED  BY <2>2, <2>8, <2>9, <2>10, <2>11 DEF WheelInv
<1>. QED  BY <1>4, <1>5

\* A worker takes a timer and starts its execution.
LEMMA WorkerTakeKeeps ==
  ASSUME WheelInv, WorkerTake
  PROVE  WheelInv'
<1>1. /\ runningChannel \in Seq(Timer) /\ Once(runningChannel) /\ runningChannel # <<>>
      /\ TypeOK /\ PlacesApart
  BY DEF WheelInv, TypeOK, PlacesApart, WorkerTake
<1>2. /\ executing' = executing \cup {Head(runningChannel)}
      /\ runningChannel' = Tail(runningChannel)
      /\ UNCHANGED <<wheel, heap, running, clock, run, setters>>
      /\ UNCHANGED <<slots, taskPosition, nanos, pc, req, Held>>
  BY DEF WorkerTake, wheel, clock, setters, Held
<1>3. /\ Head(runningChannel) \in Queued /\ Once(runningChannel')
      /\ Queued' = Queued \ {Head(runningChannel)}
  BY <1>1, <1>2, TailElements DEF Queued
<1>4. TypeOK'
  <2>1. /\ Head(runningChannel) \in Timer
        /\ runningChannel' \in Seq(Timer) /\ Len(runningChannel') = Len(runningChannel) - 1
    BY <1>1, <1>2, HeadTailProperties
  <2>2. Len(runningChannel') <= Worker
    BY <1>1, <2>1, LenProperties, WheelAssumption DEF TypeOK
  <2>. QED  BY <1>1, <1>2, <2>1, <2>2 DEF TypeOK, wheel, clock, run, setters
<1>5. PlacesApart'
  BY <1>1, <1>2, <1>3 DEF PlacesApart
<1>6. SlotsOnce' /\ Found' /\ Contents'
  BY <1>2 DEF WheelInv, SlotsOnce, Found, Contents, Request
<1>. QED  BY <1>4, <1>5, <1>6 DEF WheelInv

LEMMA ExecuteKeeps ==
  ASSUME WheelInv, NEW e \in Timer, Execute(e)
  PROVE  WheelInv'
<1>1. /\ e \in executing /\ executing' = executing \ {e}
      /\ heap' = [heap EXCEPT ![e] = Blank]
      /\ UNCHANGED <<wheel, runningChannel, running, clock, run, setters>>
      /\ UNCHANGED <<slots, taskPosition, nanos, pc, req, Held, Queued>>
  BY DEF Execute, wheel, clock, setters, Held, Queued
<1>2. TypeOK /\ PlacesApart /\ heap \in [Timer -> Entry]
  BY HeapEntries DEF WheelInv
<1>3. heap'[e] = Blank /\ \A f \in Timer \ {e} : heap'[f] = heap[f]
  BY <1>1, <1>2
<1>4. TypeOK'
  <2>1. heap' \in [Timer -> Entry]
    <3>1. Blank \in Entry
      BY BlankType DEF Entry
    <3>. QED  BY <1>1, <1>2, <3>1
  <2>. QED  BY <1>1, <1>2, <2>1 DEF TypeOK, Entry, wheel, clock, run, setters
<1>5. SlotsOnce' /\ PlacesApart'
  BY <1>1, <1>2 DEF WheelInv, SlotsOnce, PlacesApart
<1>6. \A r \in Slot : \A f \in ToSet(slots[r]) : f \in Timer \ {e}
  BY <1>1, <1>2, SlotElements DEF PlacesApart
<1>7. Found'
  <2>1. \A l \in Key : taskPosition[l].item # Nil => taskPosition[l].item \in Timer \ {e}
    BY <1>6, AtPosition
  <2>. QED  BY <1>1, <1>3, <1>6, <2>1 DEF WheelInv, Found
<1>8. Contents'
  <2>1. \A u \in Setters : pc[u] \in {"push", "set"} => req[u] \in Timer \ {e}
    BY <1>1, <1>2 DEF TypeOK, PlacesApart, Held
  <2>2. \A f \in Timer \ {e} : SameFor(heap'[f], heap[f]) /\ heap'[f].removed = heap[f].removed
    BY <1>2, <1>3 DEF SameFor
  <2>3. \A f \in Timer : heap'[f].base \in {0, heap[f].base}
    BY <1>3, BlankType
  <2>4. \A r \in Slot : \A f \in ToSet(slots'[r]) : Request(f)
    BY <1>1 DEF WheelInv, Contents
  <2>. QED  BY <1>1, <1>6, <2>1, <2>2, <2>3, <2>4, ContentsKept
<1>. QED  BY <1>4, <1>5, <1>7, <1>8 DEF WheelInv

LEMMA WheelInitially == Init => WheelInv
<1> SUFFICES ASSUME Init PROVE WheelInv
  OBVIOUS
<1>1. /\ <<>> \in Seq(Timer) /\ Len(<<>>) = 0 /\ Once(<<>>)
      /\ ToSet(<<>>) = {}
  BY DEF Once, ToSet
<1>2. \A s \in Slot : slots[s] = <<>>
  BY DEF Init
<1>3. Held = {} /\ Queued = {} /\ executing = {}
  BY <1>1 DEF Init, Held, Queued
<1>4. TypeOK
  <2>1. running \in BOOLEAN /\ ticking \in BOOLEAN /\ tickReady \in BOOLEAN
    BY Zenon DEF Init
  <2>2. /\ slots \in [Slot -> Seq(Timer)]
        /\ taskPosition \in [Key -> [pos : Slot, item : Timer \cup {Nil}]]
        /\ heap \in [Timer -> Entry]
    BY <1>1, BlankType DEF Init, Entry
  <2>3. /\ pc \in [Setters -> {"idle", "push", "set", "remove", "stop", "closed"}]
        /\ req \in [Setters -> Timer \cup Key \cup {Nil}]
        /\ \A s \in Setters : pc[s] = "idle"
    BY DEF Init
  <2>4. /\ tickedPos \in Slot /\ runningChannel \in Seq(Timer) /\ Len(runningChannel) <= Worker
        /\ executing \in SUBSET Timer /\ nanos \in Nat
        /\ loop \in {"select", "scan"} /\ cursor \in Nat \ {0}
    BY <1>1, BlankType, WheelAssumption DEF Init
  <2>. QED  BY <2>1, <2>2, <2>3, <2>4 DEF TypeOK, Entry
<1>5. SlotsOnce /\ PlacesApart
  BY <1>1, <1>2, <1>3 DEF SlotsOnce, PlacesApart, Init
<1>6. Found
  BY <1>1, <1>2, BlankType DEF Found, Init
<1>7. Contents
  BY <1>1, <1>2, BlankType, WheelAssumption DEF Contents, Init
<1>. QED  BY <1>4, <1>5, <1>6, <1>7 DEF WheelInv

LEMMA WheelInductive == WheelInv /\ [Next]_vars => WheelInv'
<1> SUFFICES ASSUME WheelInv, [Next]_vars PROVE WheelInv'
  OBVIOUS
<1>1. ASSUME NEW s \in Setters, Handle(s) PROVE WheelInv'
  BY <1>1, SetTaskKeeps, MoveTaskKeeps, KeepTaskKeeps, RemoveTaskKeeps, QuietSteps DEF Handle
<1>2. CASE Scan
  BY <1>2, ScanRemovedKeeps, ScanTaskKeeps, QuietSteps DEF Scan
<1>. QED
  BY <1>1, <1>2, SetTimerKeeps, PushNowKeeps, WorkerTakeKeeps, ExecuteKeeps, QuietSteps DEF Next

\* taskPosition finds exactly the timers of the wheel that are not removed.
THEOREM Positions == Spec => []PositionsExact
<1>1. WheelInv => PositionsExact
  <2> SUFFICES ASSUME WheelInv PROVE PositionsExact
    OBVIOUS
  <2>1. ASSUME NEW s \in Slot, NEW i \in DOMAIN slots[s], ~heap[slots[s][i]].removed
        PROVE  taskPosition[heap[slots[s][i]].key] = [pos |-> s, item |-> slots[s][i]]
    <3>1. slots[s][i] \in ToSet(slots[s])
      BY DEF ToSet
    <3>. QED  BY <2>1, <3>1 DEF WheelInv, Found
  <2>. QED  BY <2>1 DEF WheelInv, Found, PositionsExact
<1>. QED  BY <1>1, WheelInitially, WheelInductive, PTL DEF Spec

\* No timer is in two places, so none is executed twice.
THEOREM Places == Spec => []OnePlace
<1>1. WheelInv => OnePlace
  <2> SUFFICES ASSUME WheelInv PROVE OnePlace
    OBVIOUS
  <2>1. ASSUME NEW s \in Slot, NEW r \in Slot, NEW i \in DOMAIN slots[s],
               NEW j \in DOMAIN slots[r], slots[s][i] = slots[r][j]
        PROVE  s = r /\ i = j
    <3>1. slots[s][i] \in ToSet(slots[s]) \cap ToSet(slots[r])
      BY <2>1 DEF ToSet
    <3>. QED  BY <2>1, <3>1 DEF WheelInv, SlotsOnce, Once
  <2>2. \A e : InSlots(e) => e \notin Queued \cup executing \cup Held
    BY DEF InSlots, WheelInv, PlacesApart
  <2>3. \A i, j \in DOMAIN runningChannel : runningChannel[i] = runningChannel[j] => i = j
    BY DEF WheelInv, PlacesApart, Once
  <2>4. \A s \in Setters : pc[s] \in {"push", "set"} => req[s] \in Held
    BY DEF Held
  <2>. QED  BY <2>1, <2>2, <2>3, <2>4 DEF WheelInv, PlacesApart, OnePlace, Queued
<1>. QED  BY <1>1, WheelInitially, WheelInductive, PTL DEF Spec

-----------------------------------------------------------------------------
(* When the timers run: TimingWheelTimely.tla. *)

(* Remainders. *)

LEMMA RemainderUnique ==
  ASSUME NEW N \in Nat \ {0}, NEW q \in Int, NEW p \in Int,
         NEW x \in 0 .. N - 1, NEW y \in 0 .. N - 1, N * q + x = N * p + y
  PROVE  x = y
<1>1. CASE q = p
  BY <1>1
<1>2. CASE q > p
  <2>1. N * (q - p) >= N
    BY <1>2
  <2>. QED  BY <2>1
<1>3. CASE q < p
  <2>1. N * (p - q) >= N
    BY <1>3
  <2>. QED  BY <2>1
<1>. QED  BY <1>1, <1>2, <1>3

\* One tick on, and one tick less to go.
LEMMA TickOn ==
  ASSUME NEW N \in Nat \ {0}, NEW t \in 0 .. N - 1, NEW l \in Nat \ {0}
  PROVE  (((t + 1) % N) + (l - 1)) % N = (t + l) % N
<1>1. CASE t + 1 < N
  BY <1>1
<1>2. CASE t + 1 = N
  <2>1. (t + 1) % N = 0
    BY <1>2
  <2>2. l - 1 \in Nat /\ t + l \in Nat /\ t + l = N + (l - 1)
    BY <1>2
  <2> DEFINE q == (l - 1) \div N   x == (l - 1) % N
             p == (t + l) \div N   y == (t + l) % N
  <2>3. /\ x \in 0 .. N - 1 /\ q \in Nat /\ l - 1 = N * q + x
        /\ y \in 0 .. N - 1 /\ p \in Nat /\ t + l = N * p + y
    BY <2>2, Division
  <2> HIDE DEF q, x, p, y
  <2>4. N * (q + 1) + x = N * p + y /\ q + 1 \in Int /\ p \in Int
    BY <2>2, <2>3
  <2>5. x = y
    BY <2>3, <2>4, RemainderUnique
  <2>6. (l - 1) % N = (t + l) % N
    BY <2>5 DEF x, y
  <2>. QED  BY <2>1, <2>2, <2>6
<1>. QED  BY <1>1, <1>2

\* Back where it is in less than a round: in no tick.
LEMMA NoRound ==
  ASSUME NEW N \in Nat \ {0}, NEW t \in 0 .. N - 1, NEW l \in 0 .. N - 1, (t + l) % N = t
  PROVE  l = 0
<1>1. CASE t + l < N
  BY <1>1
<1>2. CASE t + l >= N
  <2>1. (t + l) % N = t + l - N
    BY <1>2
  <2>. QED  BY <2>1
<1>. QED  BY <1>1, <1>2

DelaysFit == \A d \in Delays : d <= NumSlots

Timely ==
  /\ wanted \in [Key -> [value : Val \cup {Nil}, left : Nat]]
  /\ cursor = 1
  /\ \A k \in Key : OnWheel(k) =>
       /\ wanted[k].value = heap[taskPosition[k].item].value
       /\ (tickedPos + wanted[k].left) % NumSlots = taskPosition[k].pos
       /\ wanted[k].left = 0 => loop = "scan" /\ taskPosition[k].pos = tickedPos
       /\ DelaysFit => /\ wanted[k].left <= NumSlots
                       /\ loop = "scan" => wanted[k].left < NumSlots

TimelyInv == WheelInv /\ Timely

\* What the history variable becomes, by the kind of step.
NewWanted ==
  wanted' = [k \in Key |->
    IF ~OnWheel(k)' THEN Nothing
    ELSE IF \E s \in Setters : Takes(s) /\ heap[req[s]].key = k
    THEN LET e == req[CHOOSE s \in Setters : Takes(s)]
         IN [value |-> heap[e].value, left |-> heap[e].delay]
    ELSE IF Ticks /\ wanted[k].left > 0 THEN [wanted[k] EXCEPT !.left = @ - 1]
    ELSE wanted[k]]

\* A step that takes no timer from a setter and does not tick: what a key
\* wants is forgotten when its timer leaves, and stays otherwise.
LEMMA QuietTimely ==
  ASSUME TimelyInv, NewWanted, ~Ticks, \A s \in Setters : ~Takes(s),
         cursor' = 1, tickedPos' = tickedPos,
         loop' = loop \/ (loop' = "select" /\ \A k \in Key :
                            OnWheel(k) => taskPosition[k].pos # tickedPos),
         \A k \in Key : OnWheel(k)' =>
           /\ taskPosition'[k] = taskPosition[k]
           /\ heap'[taskPosition[k].item].value = heap[taskPosition[k].item].value
  PROVE  Timely'
<1>1. \A k \in Key : wanted'[k] = IF OnWheel(k)' THEN wanted[k] ELSE Nothing
  BY DEF NewWanted
<1>2. Nothing \in [value : Val \cup {Nil}, left : Nat]
  BY DEF Nothing
<1>3. wanted' \in [Key -> [value : Val \cup {Nil}, left : Nat]]
  <2>1. \A k \in Key : wanted'[k] \in [value : Val \cup {Nil}, left : Nat]
    BY <1>1, <1>2 DEF TimelyInv, Timely
  <2>. QED  BY <2>1 DEF NewWanted
<1>4. ASSUME NEW k \in Key, OnWheel(k)'
      PROVE  /\ wanted'[k].value = heap'[taskPosition'[k].item].value
             /\ (tickedPos' + wanted'[k].left) % NumSlots = taskPosition'[k].pos
             /\ wanted'[k].left = 0 => loop' = "scan" /\ taskPosition'[k].pos = tickedPos'
             /\ DelaysFit => /\ wanted'[k].left <= NumSlots
                             /\ loop' = "scan" => wanted'[k].left < NumSlots
  <2>1. OnWheel(k) /\ taskPosition'[k] = taskPosition[k] /\ wanted'[k] = wanted[k]
    BY <1>1, <1>4 DEF OnWheel
  <2>2. /\ wanted[k].value = heap[taskPosition[k].item].value
        /\ (tickedPos + wanted[k].left) % NumSlots = taskPosition[k].pos
        /\ wanted[k].left = 0 => loop = "scan" /\ taskPosition[k].pos = tickedPos
        /\ DelaysFit => /\ wanted[k].left <= NumSlots
                        /\ loop = "scan" => wanted[k].left < NumSlots
    BY <2>1 DEF TimelyInv, Timely
  <2>3. heap'[taskPosition[k].item].value = heap[taskPosition[k].item].value
    BY <1>4
  <2>. QED  BY <2>1, <2>2, <2>3
<1>. QED  BY <1>3, <1>4 DEF Timely

\* Every timer the scan meets is due: it was set in a second of its own.
LEMMA AlwaysDue ==
  ASSUME WheelInv, Scanning
  PROVE  Due(Current)
<1>1. Current \in Timer /\ heap[Current].delay \in Delays
  BY AtCurrent DEF Request
<1>2. heap[Current].base < Second /\ heap[Current].base \in Nat /\ nanos \in Nat
  BY <1>1 DEF WheelInv, Contents, TypeOK
<1>3. ASSUME NEW b \in Nat, b < Second, NEW d \in Delays
      PROVE  Epoch + nanos > b + d
  <2>1. d \in Nat /\ Second \in Nat /\ Epoch \in Nat /\ Epoch > Second + d
    BY WheelAssumption
  <2>. QED  BY <1>2, <1>3, <2>1
<1>. QED  BY <1>1, <1>2, <1>3 DEF Due

\* A step in which no setter hands a timer to set over.
LEMMA NoTakes ==
  ASSUME \A u \in Setters : pc[u] = "set" => pc'[u] = "set"
  PROVE  \A u \in Setters : ~Takes(u)
BY DEF Takes

\* The steps of the setters before the channel, of the ticker and the workers.
LEMMA OutsideTimely ==
  ASSUME TimelyInv, NewWanted,
         \/ \E s \in Setters :
              \/ \E k \in Key : \/ \E v \in Val, d \in Delays : SetTimer(s, k, v, d)
                                \/ RemoveTimer(s, k)
              \/ Close(s) \/ PushNow(s) \/ StopTicker(s) \/ ClearRunning(s)
         \/ Ticker \/ WorkerTake \/ UNCHANGED vars
         \/ \E e \in Timer : Execute(e)
  PROVE  Timely'
<1>1. TypeOK /\ cursor = 1
  BY DEF TimelyInv, WheelInv, Timely
<1>2. UNCHANGED <<tickedPos, taskPosition, loop, cursor>>
  BY DEF SetTimer, RemoveTimer, Close, PushNow, StopTicker, ClearRunning, Ticker, WorkerTake,
         Execute, vars, wheel, run
<1>3. \A u \in Setters : pc[u] = "set" => pc'[u] = "set"
  BY <1>1 DEF SetTimer, RemoveTimer, Close, PushNow, StopTicker, ClearRunning, Ticker, WorkerTake,
              Execute, vars, setters, TypeOK
<1>4. \A k \in Key : OnWheel(k) =>
        heap'[taskPosition[k].item].value = heap[taskPosition[k].item].value
  <2> SUFFICES ASSUME NEW k \in Key, OnWheel(k)
               PROVE  heap'[taskPosition[k].item] = heap[taskPosition[k].item]
    OBVIOUS
  <2>1. /\ taskPosition[k].item \in Timer /\ taskPosition[k].pos \in Slot
        /\ taskPosition[k].item \in ToSet(slots[taskPosition[k].pos])
    BY AtPosition DEF TimelyInv, OnWheel
  <2>2. ASSUME NEW s \in Setters, NEW l \in Key, NEW v \in Val, NEW d \in Delays,
               SetTimer(s, l, v, d)
        PROVE  heap'[taskPosition[k].item] = heap[taskPosition[k].item]
    <3>1. (CHOOSE x \in Free : TRUE) \in Free
      BY <2>2 DEF SetTimer
    <3>2. taskPosition[k].item # CHOOSE x \in Free : TRUE
      BY <3>1 DEF Free
    <3>. QED  BY <1>1, <2>1, <2>2, <3>2 DEF SetTimer, TypeOK
  <2>3. ASSUME NEW e \in Timer, Execute(e)
        PROVE  heap'[taskPosition[k].item] = heap[taskPosition[k].item]
    <3>1. taskPosition[k].item # e
      BY <2>1, <2>3 DEF Execute, TimelyInv, WheelInv, PlacesApart
    <3>. QED  BY <1>1, <2>1, <2>3, <3>1 DEF Execute, TypeOK
  <2>. QED
    BY <2>2, <2>3 DEF RemoveTimer, Close, PushNow, StopTicker, ClearRunning, Ticker, WorkerTake, vars
<1>5. \A k \in Key : OnWheel(k)' = OnWheel(k)
  BY <1>2 DEF OnWheel
<1>6. ~Ticks
  BY <1>2 DEF Ticks
<1>. QED  BY <1>1, <1>2, <1>3, <1>4, <1>5, <1>6, NoTakes, QuietTimely

\* A key's timer is taken off the wheel.
LEMMA RemoveTimely ==
  ASSUME TimelyInv, NewWanted, NEW s \in Setters, RemoveTask(s)
  PROVE  Timely'
<1>1. /\ TypeOK /\ cursor = 1 /\ pc[s] = "remove" /\ req[s] \in Key
      /\ UNCHANGED <<tickedPos, loop, cursor>>
  BY DEF TimelyInv, WheelInv, Timely, RemoveTask, Handover, TypeOK, run
<1>2. \A u \in Setters : pc[u] = "set" => pc'[u] = "set"
  BY <1>1 DEF RemoveTask, Handover, TypeOK
<1>3. ASSUME NEW k \in Key, OnWheel(k)'
      PROVE  /\ taskPosition'[k] = taskPosition[k]
             /\ heap'[taskPosition[k].item].value = heap[taskPosition[k].item].value
  <2>1. CASE taskPosition[req[s]].item = Nil
    BY <2>1 DEF RemoveTask
  <2>2. CASE taskPosition[req[s]].item # Nil
    <3>1. /\ heap' = [heap EXCEPT ![taskPosition[req[s]].item].removed = TRUE]
          /\ taskPosition' = [taskPosition EXCEPT ![req[s]] = NoPosition]
      BY <2>2 DEF RemoveTask
    <3>2. k # req[s]
      BY <1>1, <1>3, <3>1, BlankType DEF OnWheel, TypeOK
    <3>3. taskPosition'[k] = taskPosition[k] /\ taskPosition[k].item # Nil
      BY <1>1, <1>3, <3>1, <3>2 DEF OnWheel, TypeOK
    <3>4. /\ taskPosition[k].item \in Timer /\ heap[taskPosition[k].item].key = k
          /\ taskPosition[req[s]].item \in Timer
          /\ heap[taskPosition[req[s]].item].key = req[s]
      BY <1>1, <2>2, <3>3, AtPosition DEF TimelyInv
    <3>5. heap'[taskPosition[k].item] = heap[taskPosition[k].item]
      BY <1>1, <3>1, <3>2, <3>4 DEF TypeOK
    <3>. QED  BY <3>3, <3>5
  <2>. QED  BY <2>1, <2>2
<1>4. ~Ticks
  BY <1>1 DEF Ticks
<1>. QED  BY <1>1, <1>2, <1>3, <1>4, NoTakes, QuietTimely

\* The scan of a slot takes out what is in it, and ends when it is empty.
LEMMA ScanTimely ==
  ASSUME TimelyInv, NewWanted, Scan
  PROVE  Timely'
<1>1. TypeOK /\ cursor = 1 /\ WheelInv
  BY DEF TimelyInv, WheelInv, Timely
<1>2. loop = "scan" /\ UNCHANGED <<tickedPos, pc>>
  BY DEF Scan, ScanRemoved, ScanTask, ScanEnd, Scanning, wheel, setters
<1>3. ~Ticks /\ \A u \in Setters : ~Takes(u)
  BY <1>2, NoTakes DEF Ticks
<1>4. CASE ScanRemoved
  <2>1. PICK e \in Timer :
          /\ e = Current /\ heap[e].removed
          /\ heap' = [heap EXCEPT ![e] = Blank]
          /\ UNCHANGED <<taskPosition, loop, cursor>>
    BY <1>1, <1>4, AtCurrent DEF ScanRemoved, run
  <2>2. ASSUME NEW k \in Key, OnWheel(k)'
        PROVE  /\ taskPosition'[k] = taskPosition[k]
               /\ heap'[taskPosition[k].item].value = heap[taskPosition[k].item].value
    <3>1. taskPosition[k].item \in Timer /\ ~heap[taskPosition[k].item].removed
      BY <1>1, <2>1, <2>2, AtPosition DEF OnWheel
    <3>. QED  BY <1>1, <2>1, <3>1 DEF TypeOK
  <2>. QED  BY <1>1, <1>2, <1>3, <2>1, <2>2, QuietTimely
<1>5. CASE ScanTask
  <2>1. PICK e \in Timer :
          /\ e = Current /\ Request(e) /\ Due(e)
          /\ taskPosition' = [taskPosition EXCEPT ![heap[e].key] = NoPosition]
          /\ UNCHANGED <<heap, cursor, loop>>
    BY <1>1, <1>5, AtCurrent, AlwaysDue DEF ScanTask
  <2>2. ASSUME NEW k \in Key, OnWheel(k)'
        PROVE  taskPosition'[k] = taskPosition[k]
    <3>1. k # heap[e].key
      BY <1>1, <2>1, <2>2, BlankType DEF OnWheel, TypeOK
    <3>. QED  BY <1>1, <2>1, <3>1 DEF TypeOK
  <2>. QED  BY <1>1, <1>2, <1>3, <2>1, <2>2, QuietTimely
<1>6. CASE ScanEnd
  <2>1. /\ loop' = "select" /\ cursor' = 1 /\ 1 > Len(slots[tickedPos])
        /\ UNCHANGED <<taskPosition, heap>>
    BY <1>1, <1>6 DEF ScanEnd, wheel
  <2>2. ToSet(slots[tickedPos]) = {}
    <3>1. slots[tickedPos] \in Seq(Timer)
      BY <1>1 DEF TypeOK
    <3>. QED  BY <2>1, <3>1, LenProperties DEF ToSet
  <2>3. \A k \in Key : OnWheel(k) => taskPosition[k].pos # tickedPos
    BY <1>1, <2>2, AtPosition DEF OnWheel
  <2>4. \A k \in Key : OnWheel(k)' = OnWheel(k)
    BY <2>1 DEF OnWheel
  <2>. QED  BY <1>1, <1>2, <1>3, <2>1, <2>3, <2>4, QuietTimely
<1>. QED  BY <1>4, <1>5, <1>6 DEF Scan

\* The loop takes a timer from a setter: its key wants what it asks for.
LEMMA TakenTimely ==
  ASSUME TimelyInv, NewWanted, NEW s \in Setters, Handover(s, "set"),
         NEW e \in Timer, e = req[s], NEW k \in Key, k = heap[e].key,
         UNCHANGED <<tickedPos, loop, cursor>>,
         taskPosition'[k].item # Nil,
         taskPosition'[k].pos = Position(heap[e].delay),
         heap'[taskPosition'[k].item].value = heap[e].value,
         \A l \in Key \ {k} : OnWheel(l)' =>
           /\ taskPosition'[l] = taskPosition[l]
           /\ heap'[taskPosition[l].item].value = heap[taskPosition[l].item].value
  PROVE  Timely'
<1> DEFINE new == [value |-> heap[e].value, left |-> heap[e].delay]
<1>1. TypeOK /\ cursor = 1 /\ loop = "select" /\ pc[s] = "set"
  BY DEF TimelyInv, WheelInv, Timely, Handover
<1>2. /\ heap[e].delay \in Delays /\ heap[e].delay \in Nat /\ heap[e].delay >= 1
      /\ heap[e].value \in Val \cup {Nil}
  BY <1>1 DEF TimelyInv, WheelInv, Contents, Request, TypeOK
<1>3. Takes(s) /\ \A u \in Setters : Takes(u) => u = s
  BY <1>1 DEF Takes, Handover, TypeOK
<1>4. (CHOOSE u \in Setters : Takes(u)) = s
  BY <1>3
<1>5. ~Ticks
  BY <1>1 DEF Ticks
<1>6. wanted'[k] = new
  <2>1. OnWheel(k)' /\ \E u \in Setters : Takes(u) /\ heap[req[u]].key = k
    BY <1>3 DEF OnWheel
  <2>. QED  BY <1>4, <2>1 DEF NewWanted
<1>7. \A l \in Key \ {k} : wanted'[l] = IF OnWheel(l)' THEN wanted[l] ELSE Nothing
  <2>1. \A l \in Key \ {k} : ~\E u \in Setters : Takes(u) /\ heap[req[u]].key = l
    BY <1>3
  <2>. QED  BY <1>5, <2>1 DEF NewWanted
<1>8. wanted' \in [Key -> [value : Val \cup {Nil}, left : Nat]]
  <2>1. new \in [value : Val \cup {Nil}, left : Nat]
    BY <1>2
  <2>2. Nothing \in [value : Val \cup {Nil}, left : Nat]
    BY DEF Nothing
  <2>3. \A l \in Key : wanted'[l] \in [value : Val \cup {Nil}, left : Nat]
    BY <1>6, <1>7, <2>1, <2>2 DEF TimelyInv, Timely
  <2>. QED  BY <2>3 DEF NewWanted
<1>9. /\ wanted'[k].value = heap'[taskPosition'[k].item].value
      /\ (tickedPos' + wanted'[k].left) % NumSlots = taskPosition'[k].pos
      /\ wanted'[k].left # 0
      /\ DelaysFit => wanted'[k].left <= NumSlots
  BY <1>2, <1>6 DEF Position, DelaysFit
<1>10. ASSUME NEW l \in Key \ {k}, OnWheel(l)'
       PROVE  /\ wanted'[l].value = heap'[taskPosition'[l].item].value
              /\ (tickedPos' + wanted'[l].left) % NumSlots = taskPosition'[l].pos
              /\ wanted'[l].left # 0
              /\ DelaysFit => wanted'[l].left <= NumSlots
  <2>1. OnWheel(l) /\ taskPosition'[l] = taskPosition[l] /\ wanted'[l] = wanted[l]
    BY <1>7, <1>10 DEF OnWheel
  <2>. QED  BY <1>1, <1>10, <2>1 DEF TimelyInv, Timely
<1>11. loop' # "scan" /\ cursor' = 1
  BY <1>1
<1>. QED  BY <1>8, <1>9, <1>10, <1>11 DEF Timely

LEMMA SetTimely ==
  ASSUME TimelyInv, NewWanted, NEW s \in Setters, SetTask(s) \/ MoveTask(s) \/ KeepTask(s)
  PROVE  Timely'
<1>1. PICK e \in Timer, k \in Key :
        /\ e = req[s] /\ k = heap[e].key /\ heap[e].delay \in Delays
        /\ \A r \in Slot : e \notin ToSet(slots[r])
        /\ Handover(s, "set")
  <2>1. WheelInv /\ Handover(s, "set") /\ pc[s] = "set"
    BY DEF TimelyInv, SetTask, MoveTask, KeepTask, Handover
  <2>. QED  BY <2>1, AtHandover DEF Request
<1>2. TypeOK /\ WheelInv /\ UNCHANGED <<tickedPos, loop, cursor>>
  BY DEF TimelyInv, WheelInv, SetTask, MoveTask, KeepTask, wheel, run
<1>3. Position(heap[e].delay) \in Slot
  BY <1>1, <1>2, PositionType
<1>4. \A l \in Key : OnWheel(l) =>
        /\ taskPosition[l].item \in Timer /\ taskPosition[l].item # e
        /\ heap[taskPosition[l].item].key = l
  BY <1>1, <1>2, AtPosition DEF OnWheel
<1>5. CASE SetTask(s) \/ MoveTask(s)
  <2>1. taskPosition' = [taskPosition EXCEPT ![k] = [pos |-> Position(heap[e].delay), item |-> e]]
    BY <1>1, <1>5 DEF SetTask, MoveTask
  <2>2. /\ taskPosition'[k] = [pos |-> Position(heap[e].delay), item |-> e]
        /\ \A l \in Key \ {k} : taskPosition'[l] = taskPosition[l]
    BY <1>2, <2>1 DEF TypeOK
  <2>3. taskPosition'[k].item # Nil /\ taskPosition'[k].pos = Position(heap[e].delay)
    BY <2>2, WheelAssumption
  <2>4. /\ heap'[e].value = heap[e].value
        /\ \A l \in Key \ {k} : OnWheel(l) =>
             heap'[taskPosition[l].item].value = heap[taskPosition[l].item].value
    <3>1. CASE SetTask(s)
      BY <1>1, <1>2, <1>4, <3>1 DEF SetTask, TypeOK
    <3>2. CASE MoveTask(s)
      <4>1. PICK o \in Timer :
              /\ o = taskPosition[k].item /\ heap[o].key = k /\ o # e
              /\ heap' = [heap EXCEPT ![o].value = heap[e].value, ![o].removed = TRUE,
                                      ![e].circle = Circle(heap[e].delay)]
        BY <1>1, <1>4, <3>2 DEF MoveTask, OnWheel
      <4>2. heap'[e].value = heap[e].value /\ \A f \in Timer \ {e, o} : heap'[f] = heap[f]
        BY <1>2, <4>1 DEF TypeOK
      <4>. QED  BY <1>4, <4>1, <4>2
    <3>. QED  BY <1>5, <3>1, <3>2
  <2>5. \A l \in Key \ {k} : OnWheel(l)' => OnWheel(l)
    BY <2>2 DEF OnWheel
  <2>. QED  BY <1>1, <1>2, <2>2, <2>3, <2>4, <2>5, TakenTimely
<1>6. CASE KeepTask(s)
  <2>1. PICK o \in Timer :
          /\ o = taskPosition[k].item /\ taskPosition[k].item # Nil
          /\ heap[o].key = k /\ o # e
          /\ Position(heap[e].delay) = taskPosition[k].pos
          /\ heap' = [heap EXCEPT ![o].value = heap[e].value,
                                  ![o].circle = IF Circle(heap[e].delay) > 0
                                                THEN Circle(heap[e].delay) ELSE @,
                                  ![e] = Blank]
          /\ taskPosition' = taskPosition
    BY <1>1, <1>4, <1>6 DEF KeepTask, OnWheel, wheel
  <2>2. heap'[o].value = heap[e].value /\ \A f \in Timer \ {e, o} : heap'[f] = heap[f]
    BY <1>2, <2>1 DEF TypeOK
  <2>3. \A l \in Key \ {k} : OnWheel(l) => heap'[taskPosition[l].item] = heap[taskPosition[l].item]
    BY <1>4, <2>1, <2>2
  <2>4. \A l \in Key \ {k} : OnWheel(l)' =>
          /\ taskPosition'[l] = taskPosition[l]
          /\ heap'[taskPosition[l].item].value = heap[taskPosition[l].item].value
    BY <2>1, <2>3 DEF OnWheel
  <2>5. /\ taskPosition'[k].item # Nil
        /\ taskPosition'[k].pos = Position(heap[e].delay)
        /\ heap'[taskPosition'[k].item].value = heap[e].value
    BY <2>1, <2>2
  <2>. QED  BY <1>1, <1>2, <2>4, <2>5, TakenTimely
<1>. QED  BY <1>5, <1>6

\* A tick: one less to go for every key, and what has none is in the slot
\* of the tick.
LEMMA TickTimely ==
  ASSUME TimelyInv, NewWanted, OnTick
  PROVE  Timely'
<1>1. /\ TypeOK /\ WheelInv /\ cursor' = 1 /\ loop = "select" /\ loop' = "scan"
      /\ tickedPos' = (tickedPos + 1) % NumSlots
      /\ UNCHANGED <<taskPosition, heap, pc>>
  BY DEF TimelyInv, WheelInv, OnTick, setters
<1>2. Ticks /\ \A u \in Setters : ~Takes(u)
  BY <1>1, NoTakes DEF Ticks
<1>3. \A k \in Key : OnWheel(k)' = OnWheel(k)
  BY <1>1 DEF OnWheel
<1>4. NumSlots \in Nat \ {0} /\ tickedPos \in 0 .. NumSlots - 1
  BY <1>1, WheelAssumption DEF TypeOK, Slot
<1>5. ASSUME NEW k \in Key, taskPosition[k].item # Nil
      PROVE  /\ wanted'[k] \in [value : Val \cup {Nil}, left : Nat]
             /\ wanted'[k].value = wanted[k].value
             /\ wanted'[k].left = wanted[k].left - 1
             /\ wanted[k].left \in Nat \ {0}
  <2>1. wanted[k] \in [value : Val \cup {Nil}, left : Nat] /\ wanted[k].left # 0
    BY <1>1, <1>5 DEF TimelyInv, Timely, OnWheel
  <2>2. wanted[k].left \in Nat \ {0} /\ wanted[k].left > 0
    BY <2>1
  <2>3. wanted'[k] = [wanted[k] EXCEPT !.left = @ - 1]
    BY <1>1, <1>2, <1>5, <2>2 DEF NewWanted, OnWheel
  <2>. QED  BY <2>1, <2>2, <2>3
<1>6. ASSUME NEW k \in Key, taskPosition[k].item = Nil
      PROVE  wanted'[k] \in [value : Val \cup {Nil}, left : Nat]
  <2>1. wanted'[k] = Nothing
    BY <1>1, <1>6 DEF NewWanted, OnWheel
  <2>. QED  BY <2>1 DEF Nothing
<1>7. wanted' \in [Key -> [value : Val \cup {Nil}, left : Nat]]
  <2>1. \A k \in Key : wanted'[k] \in [value : Val \cup {Nil}, left : Nat]
    BY <1>5, <1>6
  <2>. QED  BY <2>1 DEF NewWanted
<1>8. ASSUME NEW k \in Key, taskPosition[k].item # Nil
      PROVE  /\ wanted'[k].value = heap'[taskPosition'[k].item].value
             /\ (tickedPos' + wanted'[k].left) % NumSlots = taskPosition'[k].pos
             /\ wanted'[k].left = 0 => taskPosition'[k].pos = tickedPos'
             /\ DelaysFit => wanted'[k].left < NumSlots
  <2>1. /\ wanted'[k].value = wanted[k].value /\ wanted'[k].left = wanted[k].left - 1
        /\ wanted[k].left \in Nat \ {0}
    BY <1>5, <1>8
  <2>2. /\ wanted[k].value = heap[taskPosition[k].item].value
        /\ (tickedPos + wanted[k].left) % NumSlots = taskPosition[k].pos
        /\ DelaysFit => wanted[k].left <= NumSlots
    BY <1>8 DEF TimelyInv, Timely, OnWheel
  <2>3. (tickedPos' + wanted'[k].left) % NumSlots = taskPosition'[k].pos
    BY <1>1, <1>4, <2>1, <2>2, TickOn
  <2>4. tickedPos' \in 0 .. NumSlots - 1
    <3>1. tickedPos + 1 \in Nat
      BY <1>4
    <3>. QED  BY <1>1, <1>4, <3>1, Division
  <2>5. wanted'[k].left = 0 => taskPosition'[k].pos = tickedPos'
    BY <1>4, <2>3, <2>4
  <2>. QED  BY <1>1, <1>4, <2>1, <2>2, <2>3, <2>5
<1>9. ASSUME NEW k \in Key, OnWheel(k)'
      PROVE  /\ wanted'[k].value = heap'[taskPosition'[k].item].value
             /\ (tickedPos' + wanted'[k].left) % NumSlots = taskPosition'[k].pos
             /\ wanted'[k].left = 0 => loop' = "scan" /\ taskPosition'[k].pos = tickedPos'
             /\ DelaysFit => /\ wanted'[k].left <= NumSlots
                             /\ loop' = "scan" => wanted'[k].left < NumSlots
  <2>1. taskPosition[k].item # Nil
    BY <1>1, <1>9 DEF OnWheel
  <2>2. wanted'[k].left \in Nat
    BY <1>5, <2>1
  <2>. QED  BY <1>1, <1>4, <1>8, <2>1, <2>2
<1>. QED  BY <1>1, <1>7, <1>9 DEF Timely

LEMMA TimelyInitially == Init /\ wanted = [k \in Key |-> Nothing] => TimelyInv
<1> SUFFICES ASSUME Init, wanted = [k \in Key |-> Nothing] PROVE TimelyInv
  OBVIOUS
<1>1. WheelInv
  BY WheelInitially
<1>2. Nothing \in [value : Val \cup {Nil}, left : Nat]
  BY DEF Nothing
<1>3. \A k \in Key : ~OnWheel(k)
  BY DEF Init, OnWheel, NoPosition
<1>. QED  BY <1>1, <1>2, <1>3 DEF TimelyInv, Timely, Init

LEMMA TimelyInductive == TimelyInv /\ [TNext]_twvars => TimelyInv'
<1> SUFFICES ASSUME TimelyInv, [TNext]_twvars PROVE TimelyInv'
  OBVIOUS
<1>1. WheelInv'
  <2>1. [Next]_vars
    BY DEF TNext, twvars
  <2>. QED  BY <2>1, WheelInductive DEF TimelyInv
<1>2. CASE TNext
  <2>1. Next /\ NewWanted
    BY <1>2 DEF TNext, NewWanted
  <2>2. ASSUME NEW s \in Setters, Handle(s) PROVE Timely'
    BY <2>1, <2>2, SetTimely, RemoveTimely, OutsideTimely DEF Handle
  <2>. QED
    BY <1>1, <2>1, <2>2, OutsideTimely, TickTimely, ScanTimely DEF Next, TimelyInv
<1>3. CASE UNCHANGED twvars
  <2>1. UNCHANGED <<tickedPos, taskPosition, heap, loop, cursor, wanted>>
    BY <1>3 DEF twvars, vars, wheel, run
  <2>2. Timely'
    BY <2>1 DEF TimelyInv, Timely, OnWheel
  <2>. QED  BY <1>1, <2>2 DEF TimelyInv
<1>. QED  BY <1>2, <1>3

-----------------------------------------------------------------------------
\* No timer is on the wheel after the scan of the tick it asked for, whatever
\* the delay: a timer may only be early.
THEOREM Punctual == TSpec => []NeverLate
<1>1. TimelyInv => NeverLate
  <2> SUFFICES ASSUME TimelyInv, NEW k \in Key, loop = "select", OnWheel(k)
               PROVE  wanted[k].left > 0
    BY DEF NeverLate
  <2>. QED  BY DEF TimelyInv, Timely
<1>. QED  BY <1>1, TimelyInitially, TimelyInductive, PTL DEF TSpec

\* The timer the scan runs is the one its key's position points to.
LEMMA RunsAtPosition ==
  ASSUME TimelyInv, NEW e \in Timer, Runs(e)
  PROVE  /\ heap[e].key \in Key /\ OnWheel(heap[e].key)
         /\ taskPosition[heap[e].key] = [pos |-> tickedPos, item |-> e]
         /\ loop = "scan"
<1>1. /\ e = Current /\ ~heap[e].removed /\ loop = "scan" /\ Scanning /\ WheelInv
  BY DEF Runs, Scanning, TimelyInv
<1>2. tickedPos \in Slot /\ e \in ToSet(slots[tickedPos]) /\ heap[e].key \in Key
  BY <1>1, AtCurrent DEF Request
<1>3. taskPosition[heap[e].key] = [pos |-> tickedPos, item |-> e]
  BY <1>1, <1>2 DEF WheelInv, Found
<1>. QED  BY <1>1, <1>2, <1>3, WheelAssumption DEF OnWheel

\* What the scan runs is the timer on the wheel for its key, with the value of
\* the last SetTimer that the loop took for the key.
THEOREM RunsLatest == TSpec => LatestTaken
<1>1. ASSUME TimelyInv, NEW e \in Timer, Runs(e)
      PROVE  /\ taskPosition[heap[e].key].item = e
             /\ heap[e].value = wanted[heap[e].key].value
  <2>1. heap[e].key \in Key /\ OnWheel(heap[e].key)
    BY <1>1, RunsAtPosition DEF Runs
  <2>2. taskPosition[heap[e].key] = [pos |-> tickedPos, item |-> e]
    BY <1>1, RunsAtPosition DEF Runs
  <2>3. taskPosition[heap[e].key].item = e
    BY <2>2
  <2>. QED  BY <1>1, <2>1, <2>3 DEF TimelyInv, Timely, OnWheel
<1>2. TimelyInv /\ [TNext]_twvars =>
        [\A e \in Timer : Runs(e) =>
           /\ taskPosition[heap[e].key].item = e
           /\ heap[e].value = wanted[heap[e].key].value]_twvars
  BY <1>1
<1>. QED  BY <1>2, TimelyInitially, TimelyInductive, PTL DEF TSpec, LatestTaken

\* If no delay is longer than one round of the wheel, no timer runs before the
\* tick it asked for.
THEOREM RunsInItsRound == ASSUME DelaysFit PROVE TSpec => NeverEarly
<1>1. ASSUME TimelyInv, NEW e \in Timer, Runs(e)
      PROVE  wanted[heap[e].key].left = 0
  <2>1. PICK k \in Key :
          /\ k = heap[e].key /\ OnWheel(k) /\ taskPosition[k].pos = tickedPos
          /\ loop = "scan"
    <3>1. heap[e].key \in Key /\ OnWheel(heap[e].key)
      BY <1>1, RunsAtPosition DEF Runs
    <3>2. taskPosition[heap[e].key] = [pos |-> tickedPos, item |-> e] /\ loop = "scan"
      BY <1>1, RunsAtPosition DEF Runs
    <3>. QED  BY <3>1, <3>2
  <2>2. /\ wanted[k].left \in Nat /\ wanted[k].left < NumSlots
        /\ (tickedPos + wanted[k].left) % NumSlots = tickedPos
    BY <1>1, <2>1 DEF TimelyInv, Timely, OnWheel
  <2>3. NumSlots \in Nat \ {0} /\ tickedPos \in 0 .. NumSlots - 1
    BY <1>1, WheelAssumption DEF TimelyInv, WheelInv, TypeOK, Slot
  <2>4. wanted[k].left \in 0 .. NumSlots - 1
    BY <2>2, <2>3
  <2>. QED  BY <2>1, <2>2, <2>3, <2>4, NoRound
<1>2. TimelyInv /\ [TNext]_twvars =>
        [\A e \in Timer : Runs(e) => wanted[heap[e].key].left = 0]_twvars
  BY <1>1
<1>. QED  BY <1>2, TimelyInitially, TimelyInductive, PTL DEF TSpec, NeverEarly

\* The history variable changes nothing: what holds of the wheel (Positions,
\* Places) holds with it.
THEOREM TimelyIsWheel == TSpec => Spec
<1>1. [TNext]_twvars => [Next]_vars
  BY DEF TNext, twvars
<1>. QED  BY <1>1, PTL DEF TSpec, Spec
=============================================================================
