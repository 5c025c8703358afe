----------------------------- MODULE LRUHistory -----------------------------
(***************************************************************************)
(* LRU.tla with history variables that remember what the calls that have   *)
(* returned promised their callers, so that what happens to a key between  *)
(* calls of different goroutines can be stated.                            *)
(***************************************************************************)
EXTENDS LRUInvariant

CONSTANT Writers  \* the methods a caller takes to change the cache

VARIABLES
  solo,    \* the goroutines whose writing call has met no other on its key
  expect   \* what the last writing call on a key left there, if it was solo

hvars == <<vars, solo, expect>>

Unknown == "unknown"
Absent == "absent"

\* Get and Take change the cache too: doGet adds again what it read.
ASSUME HistoryAssumption ==
  /\ {"Add", "Get", "Take", "Remove"} \subseteq Writers
  /\ Unknown \notin Val /\ Absent \notin Val

Writing(k) == {t \in Threads : loc[t].op \in Writers /\ loc[t].key = k}

HInit ==
  /\ Init
  /\ solo = {}
  /\ expect = [k \in Key |-> Unknown]

\* A call has begun (returned) in a step that leaves (reaches) "idle".
Begins(t) == pc[t] = "idle" /\ pc'[t] # "idle"
Returns(t) == pc[t] # "idle" /\ pc'[t] = "idle"

HBegin(t) ==
  LET k == loc'[t].key IN
  IF loc'[t].op \in Writers
  THEN /\ solo' = IF Writing(k) = {} THEN solo \cup {t} ELSE solo \ Writing(k)
       /\ expect' = [expect EXCEPT ![k] = Unknown]
  ELSE UNCHANGED <<solo, expect>>

HReturn(t) ==
  /\ solo' = solo \ {t}
  /\ expect' = CASE t \in solo /\ loc[t].op = "Add"    -> [expect EXCEPT ![loc[t].key] = loc[t].val]
                 [] t \in solo /\ loc[t].op = "Remove" -> [expect EXCEPT ![loc[t].key] = Absent]
                 [] OTHER -> expect

HNext ==
  /\ Next
  /\ IF \E t \in Threads : Begins(t) THEN HBegin(CHOOSE t \in Threads : Begins(t))
     ELSE IF \E t \in Threads : Returns(t) THEN HReturn(CHOOSE t \in Threads : Returns(t))
     ELSE UNCHANGED <<solo, expect>>

HSpec == HInit /\ [][HNext]_hvars

-----------------------------------------------------------------------------
\* After an Add that met no other writer of its key, and until the next one
\* begins, the cache has the added value or, if it evicted the entry, nothing
\* for the key (lru_test.go reads "test1" back after an Add of it).
AddSticks ==
  \A k \in Key : expect[k] \in Val /\ items[k] # Nil => heap[items[k]].value = expect[k]

\* After a Remove that met no other writer of its key, and until the next one
\* begins, the key is not in the cache.  This holds when Get is counted as a
\* writer, which it is: it adds again what it read.
RemoveSticks == \A k \in Key : expect[k] = Absent => items[k] = Nil
=============================================================================
