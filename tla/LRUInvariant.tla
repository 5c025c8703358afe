---------------------------- MODULE LRUInvariant ----------------------------
(***************************************************************************)
(* The inductive invariant of LRU.tla, in named parts.                     *)
(***************************************************************************)
EXTENDS LRU

\* Where a goroutine has announced or holds the write lock, and where it has
\* changed the links of the list and not yet the rest.
WriterPc == {"Add.locked", "Add.linked", "Remove.locked", "Remove.unlinked"}
MidPc    == {"Add.linked", "Remove.unlinked"}
ReaderPc == {"doGet.locked", "Contains.locked", "Contains.return"}

\* The lock has one writer, the one whose program counter says so; it is
\* alone when it changes the list; a reader past RLock holds a read lock.
LockInv ==
  /\ \A t \in Threads : pc[t] \in WriterPc <=> writer = t
  /\ \A t \in Threads : pc[t] \in MidPc => \A u \in Threads : held[u] = 0
  /\ \A t \in Threads : pc[t] \in ReaderPc /\ t \notin rwait => held[t] > 0
  /\ \A t \in rwait : pc[t] \in ReaderPc
  /\ rwait # {} => writer # Nil

\* The steps of Add, RemoveOldest and Remove, which return to loc.frame.
CalleePc == {"Add.lock", "Add.locked", "Add.linked", "Add.check", "RemoveOldest",
             "Remove.lock", "Remove.locked", "Remove.unlinked", "onRemove"}

\* The caller each step can have, and the key it works on.
CallerInv ==
  \A t \in Threads :
    LET l == loc[t] IN
    /\ pc[t] \in {"Get.hit", "Get.miss"} => l.frame = "Get"
    /\ pc[t] \in {"Take.hit", "Do", "Do.wait"} => l.frame = "Take"
    /\ pc[t] \in {"Do.hit", "load"} => l.frame = "Do"
    /\ pc[t] = "Do.end" => l.frame \in {"Do", "Load"}
    /\ pc[t] = "Take.return" => l.frame \in {"Take", "Do", "Load"}
    /\ pc[t] \in {"doGet", "doGet.locked", "doGet.value"} => l.frame \in {"Get", "Take", "Do"}
    /\ pc[t] \in {"idle", "return", "GetOldest", "Contains", "Contains.locked",
                  "Contains.return", "Range", "Range.visit", "Range.prev", "Range.end"}
         => l.frame = "Client"
    /\ l.frame # "Client" => l.key \in Key
    /\ pc[t] \in {"Add.lock", "Add.locked", "Add.linked", "Contains",
                  "Contains.locked"} => l.key \in Key
    /\ pc[t] \in {"Remove.lock", "Remove.locked", "Remove.unlinked", "onRemove"} => l.vic \in Key

\* The elements the steps point to.
PointerInv ==
  \A t \in Threads :
    LET l == loc[t] IN
    /\ pc[t] \in {"Add.linked", "Remove.unlinked", "onRemove"} => l.elem \in Elem
    /\ pc[t] \in {"doGet.value", "Get.hit", "Take.hit", "Do.hit",
                  "Range.visit", "Range.prev"} => l.ent \in Elem
    /\ pc[t] \in CalleePc /\ l.frame \in {"Get", "Take", "Do"} => l.ent \in Elem
    /\ l.ent \in Elem => heap[l.ent].key \in Key

\* The list and the map, also in the middle of an update.
Added(e)   == \E t \in Threads : pc[t] = "Add.linked" /\ loc[t].elem = e
Removed(k) == \E t \in Threads : pc[t] = "Remove.unlinked" /\ loc[t].vic = k

ListInv ==
  /\ \A i, j \in DOMAIN queue : queue[i] = queue[j] => i = j
  /\ \A i \in DOMAIN queue :
       /\ heap[queue[i]].key \in Key
       /\ items[heap[queue[i]].key] = queue[i] \/ Added(queue[i])
  /\ \A k \in Key : items[k] # Nil =>
       /\ heap[items[k]].key = k
       /\ (\E i \in DOMAIN queue : queue[i] = items[k]) \/ Removed(k)
  /\ \A t \in Threads : pc[t] = "Add.linked" =>
       /\ items[loc[t].key] = Nil
       /\ \E i \in DOMAIN queue : queue[i] = loc[t].elem
       /\ heap[loc[t].elem].key = loc[t].key
       /\ \A k \in Key : items[k] # loc[t].elem
       /\ len + 1 = Len(queue)
  /\ \A t \in Threads : pc[t] = "Remove.unlinked" =>
       /\ items[loc[t].vic] = loc[t].elem
       /\ \A i \in DOMAIN queue : queue[i] # loc[t].elem
       /\ len = Len(queue) + 1
  /\ ~Midway => len = Len(queue)

\* An entry on its way to the callback is nowhere else.
NotifyInv ==
  \A t \in Threads : pc[t] = "onRemove" =>
    /\ \A i \in DOMAIN queue : queue[i] # loc[t].elem
    /\ \A k \in Key : items[k] # loc[t].elem
    /\ \A u \in Threads \ {t} : pc[u] = "onRemove" => loc[u].elem # loc[t].elem

\* flight[k] is the goroutine inside Do for k.
FlightInv ==
  /\ \A t \in Threads : InDo(t) => flight[loc[t].key] = t
  /\ \A k \in Key : flight[k] # Nil => InDo(flight[k]) /\ loc[flight[k]].key = k
  /\ \A t \in Threads : pc[t] = "Do.wait" => flight[loc[t].key] # Nil

IndInv == /\ TypeOK /\ LockInv /\ CallerInv /\ PointerInv /\ ListInv
          /\ NotifyInv /\ FlightInv
=============================================================================
