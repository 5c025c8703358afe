--------------------------------- MODULE LRU ---------------------------------
(***************************************************************************)
(* src/cache/lru/lru.go: the concurrent LRU cache.  A container/list       *)
(* (newest entry first) and a map from keys to list elements, one RWMutex, *)
(* and a singleflight group for Take.                                      *)
(*                                                                         *)
(* Each goroutine runs one call at a time, in the steps between which      *)
(* another goroutine can come in: the critical sections of the lock, and   *)
(* the places where the code reads the list or an entry WITHOUT the lock   *)
(* (Len and Back after an Add, ent.value after doGet, Back/Prev in Range). *)
(* A list update is two steps, as in container/list: the links change      *)
(* first, l.len last, so that an unlocked reader can see the middle.       *)
(*                                                                         *)
(* MaxCalls bounds the calls made in a behaviour.  Elem is the heap of     *)
(* list elements; an address is reused once nothing points to it.          *)
(***************************************************************************)
EXTENDS Naturals, SequencesExt

CONSTANTS Threads,   \* goroutines using the cache
          Key, Val,  \* keys and (non-nil) values
          Elem,      \* addresses of list elements
          Size,      \* WithSize; 0 is "no limit"
          Ops,       \* the methods the goroutines call
          MaxCalls,  \* bound on the number of calls
          Nil        \* the nil pointer, interface or owner

AllOps == {"Add", "Get", "Take", "Remove", "RemoveOldest", "GetOldest",
           "Contains", "Keys", "Range"}

KeyOps == {"Add", "Get", "Take", "Remove", "Contains"}

ASSUME LRUAssumption ==
  /\ Size \in Nat /\ MaxCalls \in Nat
  /\ Ops \subseteq AllOps
  /\ Nil \notin Threads \cup Val \cup Elem \cup Key

VARIABLES
  queue,    \* list.List: the addresses from Front to Back
  len,      \* list.List.len
  items,    \* Key -> Elem or Nil
  heap,     \* Elem -> entry
  writer,   \* RWMutex: the goroutine that announced or holds Lock
  held,     \* RWMutex: read locks held by each goroutine
  rwait,    \* RWMutex: the goroutines blocked in RLock
  flight,   \* singleflight.Group: the goroutine running Do for a key
  stat,     \* CacheStat
  pc,       \* the next step of each goroutine
  loc,      \* the local variables of each goroutine
  seen,     \* the keys Range has visited
  res,      \* what the last call returned
  calls,    \* calls made, and how many of them were Get or Take
  crashed   \* a goroutine panicked and took the process down

list  == <<queue, len, items, heap>>
lock  == <<writer, held, rwait>>
client == <<seen, res, calls, crashed>>
vars  == <<list, lock, flight, stat, pc, loc, client>>

NoResult == [ok |-> FALSE, val |-> Nil]

\* frame is the caller to resume when Add, RemoveOldest or Remove is done.
NoLocals == [op |-> "none", key |-> Nil, val |-> Nil, ent |-> Nil, elem |-> Nil,
             vic |-> Nil, frame |-> "Client"]

Init ==
  /\ queue = <<>> /\ len = 0
  /\ items = [k \in Key |-> Nil]
  /\ heap = [e \in Elem |-> [key |-> Nil, value |-> Nil]]
  /\ writer = Nil /\ held = [t \in Threads |-> 0] /\ rwait = {}
  /\ flight = [k \in Key |-> Nil]
  /\ stat = [hit |-> 0, miss |-> 0]
  /\ pc = [t \in Threads |-> "idle"]
  /\ loc = [t \in Threads |-> NoLocals]
  /\ seen = [t \in Threads |-> <<>>]
  /\ res = [t \in Threads |-> NoResult]
  /\ calls = [all |-> 0, lookup |-> 0]
  /\ crashed = FALSE

-----------------------------------------------------------------------------
(* The list, the lock and the call frames. *)

\* Addresses nothing points to: what the allocator may hand out.
Free == {e \in Elem : /\ e \notin ToSet(queue)
                      /\ \A k \in Key : items[k] # e
                      /\ \A t \in Threads : loc[t].ent # e /\ loc[t].elem # e}

IndexIn(q, e) == CHOOSE i \in DOMAIN q : q[i] = e

Unlinked(q, e) == RemoveAt(q, IndexIn(q, e))

\* Variants of the operations, marked "Bug", are for testing the properties.

MovedToFront(q, e) == <<e>> \o Unlinked(q, e)

\* Element.Prev; Nil for the front and for an element no longer in the list.
Prev(q, e) ==
  IF e \in ToSet(q) /\ IndexIn(q, e) > 1 THEN q[IndexIn(q, e) - 1] ELSE Nil

Goto(t, label) == pc' = [pc EXCEPT ![t] = label]

At(t, label) == pc[t] = label /\ ~crashed

\* Bug: no waiting for the other writer.
AnnounceAnyway(t) == writer' = t /\ UNCHANGED <<held, rwait>>

\* Lock: announce, which stops new readers, then wait for the readers.
Announce(t) == writer = Nil /\ writer' = t /\ UNCHANGED <<held, rwait>>

Exclusive(t) == writer = t /\ \A u \in Threads : held[u] = 0

\* Bug: the readers that came while the writer was there stay blocked.
UnlockForgetsReaders == writer' = Nil /\ UNCHANGED <<held, rwait>>

\* Unlock lets in every reader that came while the writer was there.
Unlock ==
  /\ writer' = Nil
  /\ held' = [u \in Threads |-> IF u \in rwait THEN held[u] + 1 ELSE held[u]]
  /\ rwait' = {}

RLock(t) ==
  \/ writer = Nil /\ held' = [held EXCEPT ![t] = @ + 1] /\ UNCHANGED <<writer, rwait>>
  \/ writer # Nil /\ rwait' = rwait \cup {t} /\ UNCHANGED <<writer, held>>

RUnlock(t) == held' = [held EXCEPT ![t] = @ - 1] /\ UNCHANGED <<writer, rwait>>

\* Where the caller of Add, RemoveOldest or Remove continues.
Resume(frame) == CASE frame = "Get"  -> "Get.hit"
                   [] frame = "Take" -> "Take.hit"
                   [] frame = "Do"   -> "Do.hit"
                   [] frame = "Load" -> "Do.end"
                   [] OTHER          -> "return"

Return(t, r) ==
  /\ Goto(t, "idle")
  /\ loc' = [loc EXCEPT ![t] = NoLocals]
  /\ seen' = [seen EXCEPT ![t] = <<>>]
  /\ res' = [res EXCEPT ![t] = r]
  /\ UNCHANGED <<calls, crashed>>

\* The first step of each method.
Entry == [Add |-> "Add.lock", Get |-> "doGet", Take |-> "doGet",
          Remove |-> "Remove.lock", RemoveOldest |-> "RemoveOldest",
          GetOldest |-> "GetOldest", Contains |-> "Contains",
          Keys |-> "Range", Range |-> "Range"]

Call(t, op, k, v) ==
  /\ At(t, "idle")
  /\ calls.all < MaxCalls
  /\ (op \in KeyOps) <=> (k # Nil)
  /\ (op = "Add") <=> (v # Nil)
  /\ Goto(t, Entry[op])
  /\ loc' = [loc EXCEPT ![t] = [NoLocals EXCEPT
                  !.op = op, !.key = k, !.val = v,
                  !.vic = IF op = "Remove" THEN k ELSE Nil,
                  !.frame = IF op \in {"Get", "Take"} THEN op ELSE "Client"]]
  /\ calls' = [all |-> calls.all + 1,
               lookup |-> calls.lookup + (IF op \in {"Get", "Take"} THEN 1 ELSE 0)]
  /\ UNCHANGED <<list, lock, flight, stat, seen, res, crashed>>

\* Add, Remove and RemoveOldest return true, or nothing.
ReturnTrue(t) ==
  /\ At(t, "return")
  /\ Return(t, [ok |-> TRUE, val |-> Nil])
  /\ UNCHANGED <<list, lock, flight, stat>>

-----------------------------------------------------------------------------
(* Add *)

AddLock(t) ==
  /\ At(t, "Add.lock")
  /\ Announce(t)
  /\ Goto(t, "Add.locked")
  /\ UNCHANGED <<list, flight, stat, loc, client>>

\* Bug: the old value stays.
AddExistingKeepsValue(t) ==
  LET e == items[loc[t].key] IN
  /\ At(t, "Add.locked") /\ Exclusive(t)
  /\ e # Nil
  /\ queue' = MovedToFront(queue, e)
  /\ Unlock
  /\ Goto(t, Resume(loc[t].frame))
  /\ UNCHANGED <<len, items, heap, flight, stat, loc, client>>

\* The key is there: a new value, moved to the front, unlocked.
AddExisting(t) ==
  LET e == items[loc[t].key] IN
  /\ At(t, "Add.locked") /\ Exclusive(t)
  /\ e # Nil
  /\ heap' = [heap EXCEPT ![e].value = loc[t].val]
  /\ queue' = MovedToFront(queue, e)
  /\ Unlock
  /\ Goto(t, Resume(loc[t].frame))
  /\ UNCHANGED <<len, items, flight, stat, loc, client>>

\* PushFront of a new entry: the links, before l.len and the map.
AddLink(t) ==
  LET e == CHOOSE x \in Free : TRUE IN
  /\ At(t, "Add.locked") /\ Exclusive(t)
  /\ items[loc[t].key] = Nil
  /\ Free # {}
  /\ heap' = [heap EXCEPT ![e] = [key |-> loc[t].key, value |-> loc[t].val]]
  /\ queue' = <<e>> \o queue
  /\ loc' = [loc EXCEPT ![t].elem = e]
  /\ Goto(t, "Add.linked")
  /\ UNCHANGED <<len, items, lock, flight, stat, client>>

AddUnlock(t) ==
  /\ At(t, "Add.linked")
  /\ len' = len + 1
  /\ items' = [items EXCEPT ![loc[t].key] = loc[t].elem]
  /\ Unlock
  /\ loc' = [loc EXCEPT ![t].elem = Nil]
  /\ Goto(t, "Add.check")
  /\ UNCHANGED <<queue, heap, flight, stat, client>>

\* Bug: the cache evicts when it is full, and not when it is too full.
AddCheckFull(t) ==
  /\ At(t, "Add.check")
  /\ Goto(t, IF Size > 0 /\ len >= Size THEN "RemoveOldest"
                                        ELSE Resume(loc[t].frame))
  /\ UNCHANGED <<list, lock, flight, stat, loc, client>>

\* c.size > 0 && c.queue.Len() > c.size, read without the lock.
AddCheck(t) ==
  /\ At(t, "Add.check")
  /\ Goto(t, IF Size > 0 /\ len > Size THEN "RemoveOldest"
                                       ELSE Resume(loc[t].frame))
  /\ UNCHANGED <<list, lock, flight, stat, loc, client>>

-----------------------------------------------------------------------------
(* Remove and RemoveOldest.  The key to remove is loc.vic: the argument,   *)
(* or the one read from the back of the list without the lock.             *)

RemoveOldestEmpty(t) ==
  /\ At(t, "RemoveOldest")
  /\ len = 0
  /\ Goto(t, Resume(loc[t].frame))
  /\ UNCHANGED <<list, lock, flight, stat, loc, client>>

RemoveOldestBack(t) ==
  /\ At(t, "RemoveOldest")
  /\ len > 0 /\ queue # <<>>
  /\ loc' = [loc EXCEPT ![t].vic = heap[Last(queue)].key]
  /\ Goto(t, "Remove.lock")
  /\ UNCHANGED <<list, lock, flight, stat, client>>

\* Back returns the root of a list whose last element is being removed: the
\* links are gone, l.len is not yet 0.  Its Value is nil, and the type
\* assertion ent.Value.(*entry) of RemoveOldest and of Range panics.
BackIsRoot(t) ==
  /\ At(t, "RemoveOldest") \/ At(t, "Range")
  /\ len > 0 /\ queue = <<>>
  /\ crashed' = TRUE
  /\ UNCHANGED <<list, lock, flight, stat, pc, loc, seen, res, calls>>

RemoveLock(t) ==
  /\ At(t, "Remove.lock")
  /\ Announce(t)
  /\ Goto(t, "Remove.locked")
  /\ UNCHANGED <<list, flight, stat, loc, client>>

RemoveMissing(t) ==
  /\ At(t, "Remove.locked") /\ Exclusive(t)
  /\ items[loc[t].vic] = Nil
  /\ Unlock
  /\ loc' = [loc EXCEPT ![t].vic = Nil]
  /\ Goto(t, Resume(loc[t].frame))
  /\ UNCHANGED <<list, flight, stat, client>>

\* list.Remove: the links, before l.len and the map.
RemoveUnlink(t) ==
  LET e == items[loc[t].vic] IN
  /\ At(t, "Remove.locked") /\ Exclusive(t)
  /\ e # Nil
  /\ queue' = Unlinked(queue, e)
  /\ loc' = [loc EXCEPT ![t].elem = e]
  /\ Goto(t, "Remove.unlinked")
  /\ UNCHANGED <<len, items, heap, lock, flight, stat, client>>

\* Bug: the key stays in the map.
RemoveUnlockKeepsKey(t) ==
  /\ At(t, "Remove.unlinked")
  /\ len' = len - 1
  /\ Unlock
  /\ Goto(t, "onRemove")
  /\ UNCHANGED <<queue, items, heap, flight, stat, loc, client>>

RemoveUnlock(t) ==
  /\ At(t, "Remove.unlinked")
  /\ len' = len - 1
  /\ items' = [items EXCEPT ![loc[t].vic] = Nil]
  /\ Unlock
  /\ Goto(t, "onRemove")
  /\ UNCHANGED <<queue, heap, flight, stat, loc, client>>

\* The callback gets ent.key and ent.value, read after the unlock.
OnRemove(t) ==
  /\ At(t, "onRemove")
  /\ loc' = [loc EXCEPT ![t] = [@ EXCEPT !.elem = Nil, !.vic = Nil]]
  /\ Goto(t, Resume(loc[t].frame))
  /\ UNCHANGED <<list, lock, flight, stat, client>>

-----------------------------------------------------------------------------
(* CacheStat: two atomic counters. *)

IncrementHit  == stat' = [stat EXCEPT !.hit = @ + 1]
IncrementMiss == stat' = [stat EXCEPT !.miss = @ + 1]

-----------------------------------------------------------------------------
(* doGet, called by Get, by Take, and by Take inside Do (frame). *)

DoGetRLock(t) ==
  /\ At(t, "doGet")
  /\ RLock(t)
  /\ Goto(t, "doGet.locked")
  /\ UNCHANGED <<list, flight, stat, loc, client>>

DoGetRUnlock(t) ==
  LET e == items[loc[t].key] IN
  /\ At(t, "doGet.locked") /\ t \notin rwait
  /\ loc' = [loc EXCEPT ![t].ent = e]
  /\ RUnlock(t)
  /\ Goto(t, IF e # Nil THEN "doGet.value"
             ELSE CASE loc[t].frame = "Get"  -> "Get.miss"
                    [] loc[t].frame = "Take" -> "Do"
                    [] OTHER                 -> "load")
  /\ UNCHANGED <<list, flight, stat, client>>

\* c.Add(key, val.value): the value is read without the lock.
DoGetValue(t) ==
  /\ At(t, "doGet.value")
  /\ loc' = [loc EXCEPT ![t].val = heap[loc[t].ent].value]
  /\ Goto(t, "Add.lock")
  /\ UNCHANGED <<list, lock, flight, stat, client>>

\* Get, and Take's first doGet: return ent.value, read again after the Add.
GetHit(t) ==
  /\ At(t, "Get.hit") \/ At(t, "Take.hit")
  /\ IncrementHit
  /\ Return(t, [ok |-> TRUE, val |-> heap[loc[t].ent].value])
  /\ UNCHANGED <<list, lock, flight>>

GetMiss(t) ==
  /\ At(t, "Get.miss")
  /\ IncrementMiss
  /\ Return(t, NoResult)
  /\ UNCHANGED <<list, lock, flight>>

-----------------------------------------------------------------------------
(* Take after a miss: one goroutine per key runs the function of Do, those *)
(* that come in the meantime wait for it and get its result.               *)

\* Bug: Take calls f without asking who else does.
DoLeadAlways(t) ==
  /\ At(t, "Do")
  /\ flight' = [flight EXCEPT ![loc[t].key] = t]
  /\ loc' = [loc EXCEPT ![t].frame = "Do"]
  /\ Goto(t, "doGet")
  /\ UNCHANGED <<list, lock, stat, client>>

DoLead(t) ==
  /\ At(t, "Do")
  /\ flight[loc[t].key] = Nil
  /\ flight' = [flight EXCEPT ![loc[t].key] = t]
  /\ loc' = [loc EXCEPT ![t].frame = "Do"]
  /\ Goto(t, "doGet")
  /\ UNCHANGED <<list, lock, stat, client>>

DoJoin(t) ==
  /\ At(t, "Do")
  /\ flight[loc[t].key] # Nil
  /\ Goto(t, "Do.wait")
  /\ UNCHANGED <<list, lock, flight, stat, loc, client>>

DoHit(t) ==
  /\ At(t, "Do.hit")
  /\ loc' = [loc EXCEPT ![t].val = heap[loc[t].ent].value]
  /\ Goto(t, "Do.end")
  /\ UNCHANGED <<list, lock, flight, stat, client>>

\* f() returns a value, which is added to the cache ...
Load(t) ==
  /\ At(t, "load")
  /\ \E v \in Val : loc' = [loc EXCEPT ![t] = [@ EXCEPT !.val = v, !.frame = "Load"]]
  /\ Goto(t, "Add.lock")
  /\ UNCHANGED <<list, lock, flight, stat, client>>

\* ... or an error.
LoadError(t) ==
  /\ At(t, "load")
  /\ Goto(t, "Do.end")
  /\ UNCHANGED <<list, lock, flight, stat, loc, client>>

\* Bug: those that joined are not woken.
DoEndAlone(t) ==
  /\ At(t, "Do.end")
  /\ flight' = [flight EXCEPT ![loc[t].key] = Nil]
  /\ Goto(t, "Take.return")
  /\ UNCHANGED <<list, lock, stat, loc, client>>

\* Do is over for the goroutine that ran it and for all that joined it.
DoEnd(t) ==
  LET k == loc[t].key
      joined == {u \in Threads : pc[u] = "Do.wait" /\ loc[u].key = k}
  IN
  /\ At(t, "Do.end")
  /\ flight' = [flight EXCEPT ![k] = Nil]
  /\ loc' = [u \in Threads |->
               IF u \in joined THEN [loc[u] EXCEPT !.val = loc[t].val] ELSE loc[u]]
  /\ pc' = [u \in Threads |->
               IF u \in joined \cup {t} THEN "Take.return" ELSE pc[u]]
  /\ UNCHANGED <<list, lock, stat, client>>

\* Only the goroutine whose load was added (task) counts a miss.
TakeReturn(t) ==
  /\ At(t, "Take.return")
  /\ IF loc[t].frame = "Load" THEN IncrementMiss ELSE IncrementHit
  /\ Return(t, [ok |-> loc[t].val # Nil, val |-> loc[t].val])
  /\ UNCHANGED <<list, lock, flight>>

-----------------------------------------------------------------------------
(* GetOldest, Contains, Range and Keys. *)

\* The inner test is on the named result ok, still false: the entry found
\* at the back is never returned.
GetOldest(t) ==
  /\ At(t, "GetOldest")
  /\ Return(t, NoResult)
  /\ UNCHANGED <<list, lock, flight, stat>>

ContainsRLock(t) ==
  /\ At(t, "Contains")
  /\ RLock(t)
  /\ Goto(t, "Contains.locked")
  /\ UNCHANGED <<list, flight, stat, loc, client>>

\* The deferred call is RLock again, not RUnlock.
ContainsDefer(t) ==
  /\ At(t, "Contains.locked") /\ t \notin rwait
  /\ loc' = [loc EXCEPT ![t].ent = items[loc[t].key]]
  /\ RLock(t)
  /\ Goto(t, "Contains.return")
  /\ UNCHANGED <<list, flight, stat, client>>

ContainsReturn(t) ==
  /\ At(t, "Contains.return") /\ t \notin rwait
  /\ Return(t, [ok |-> loc[t].ent # Nil, val |-> Nil])
  /\ UNCHANGED <<list, lock, flight, stat>>

\* ent := c.queue.Back()
RangeBack(t) ==
  /\ At(t, "Range")
  /\ len = 0 \/ queue # <<>>
  /\ IF len = 0 THEN Goto(t, "Range.end") /\ UNCHANGED loc
     ELSE Goto(t, "Range.visit") /\ loc' = [loc EXCEPT ![t].ent = Last(queue)]
  /\ UNCHANGED <<list, lock, flight, stat, client>>

\* f(val.key, val.value); Keys collects the key.  Range's f may fail.
RangeVisit(t) ==
  /\ At(t, "Range.visit")
  /\ seen' = [seen EXCEPT ![t] = Append(@, heap[loc[t].ent].key)]
  /\ \/ Goto(t, "Range.prev")
     \/ loc[t].op = "Range" /\ Goto(t, "Range.end")
  /\ UNCHANGED <<list, lock, flight, stat, loc, res, calls, crashed>>

\* Bug: the walk ends before the newest entry.
RangePrevButOne(t) ==
  LET e == Prev(queue, loc[t].ent) IN
  /\ At(t, "Range.prev")
  /\ loc' = [loc EXCEPT ![t].ent = e]
  /\ Goto(t, IF Prev(queue, e) = Nil THEN "Range.end" ELSE "Range.visit")
  /\ UNCHANGED <<list, lock, flight, stat, client>>

\* ent = ent.Prev()
RangePrev(t) ==
  LET e == Prev(queue, loc[t].ent) IN
  /\ At(t, "Range.prev")
  /\ loc' = [loc EXCEPT ![t].ent = e]
  /\ Goto(t, IF e = Nil THEN "Range.end" ELSE "Range.visit")
  /\ UNCHANGED <<list, lock, flight, stat, client>>

RangeEnd(t) ==
  /\ At(t, "Range.end")
  /\ Return(t, [ok |-> TRUE, val |-> Nil])
  /\ UNCHANGED <<list, lock, flight, stat>>

-----------------------------------------------------------------------------
Step(t) ==
  \/ ReturnTrue(t)
  \/ AddLock(t) \/ AddExisting(t) \/ AddLink(t) \/ AddUnlock(t) \/ AddCheck(t)
  \/ RemoveOldestEmpty(t) \/ RemoveOldestBack(t) \/ BackIsRoot(t)
  \/ RemoveLock(t) \/ RemoveMissing(t) \/ RemoveUnlink(t) \/ RemoveUnlock(t)
  \/ OnRemove(t)
  \/ DoGetRLock(t) \/ DoGetRUnlock(t) \/ DoGetValue(t) \/ GetHit(t) \/ GetMiss(t)
  \/ DoLead(t) \/ DoJoin(t) \/ DoHit(t) \/ Load(t) \/ LoadError(t) \/ DoEnd(t)
  \/ TakeReturn(t)
  \/ GetOldest(t) \/ ContainsRLock(t) \/ ContainsDefer(t) \/ ContainsReturn(t)
  \/ RangeBack(t) \/ RangeVisit(t) \/ RangePrev(t) \/ RangeEnd(t)

\* Every call the goroutines were to make has returned, or the process died.
Stopped ==
  /\ crashed \/ (calls.all = MaxCalls /\ \A t \in Threads : pc[t] = "idle")
  /\ UNCHANGED vars

Next ==
  \/ \E t \in Threads :
       \/ \E op \in Ops, k \in Key \cup {Nil}, v \in Val \cup {Nil} : Call(t, op, k, v)
       \/ Step(t)
  \/ Stopped

Spec == Init /\ [][Next]_vars

\* The Go scheduler runs every runnable goroutine; no goroutine must call.
FairSpec == Spec /\ \A t \in Threads : WF_vars(Step(t))

-----------------------------------------------------------------------------
ListTypeOK ==
  /\ queue \in Seq(Elem)
  /\ len \in Nat
  /\ items \in [Key -> Elem \cup {Nil}]
  /\ heap \in [Elem -> [key : Key \cup {Nil}, value : Val \cup {Nil}]]

LockTypeOK ==
  /\ writer \in Threads \cup {Nil}
  /\ held \in [Threads -> Nat]
  /\ rwait \in SUBSET Threads

Labels == {"idle", "return", "Add.lock", "Add.locked", "Add.linked", "Add.check",
           "RemoveOldest", "Remove.lock", "Remove.locked", "Remove.unlinked", "onRemove",
           "doGet", "doGet.locked", "doGet.value", "Get.hit", "Get.miss", "Take.hit",
           "Do", "Do.wait", "Do.hit", "load", "Do.end", "Take.return", "GetOldest",
           "Contains", "Contains.locked", "Contains.return",
           "Range", "Range.visit", "Range.prev", "Range.end"}

Frames == {"Client", "Get", "Take", "Do", "Load"}

Locals == [op : Ops \cup {"none"}, key : Key \cup {Nil}, val : Val \cup {Nil},
           ent : Elem \cup {Nil}, elem : Elem \cup {Nil}, vic : Key \cup {Nil},
           frame : Frames]

ThreadTypeOK ==
  /\ pc \in [Threads -> Labels]
  /\ loc \in [Threads -> Locals]

ClientTypeOK ==
  /\ flight \in [Key -> Threads \cup {Nil}]
  /\ stat \in [hit : Nat, miss : Nat]
  /\ seen \in [Threads -> Seq(Key)]
  /\ res \in [Threads -> [ok : BOOLEAN, val : Val \cup {Nil}]]
  /\ calls \in [all : Nat, lookup : Nat]
  /\ crashed \in BOOLEAN

TypeOK == ListTypeOK /\ LockTypeOK /\ ThreadTypeOK /\ ClientTypeOK

\* Outside a critical section the list and the map hold the same entries:
\* every list element is in the map under its own key, exactly once, and
\* l.len counts them.  Every method of lru relies on this.
Midway == \E t \in Threads : pc[t] \in {"Add.linked", "Remove.unlinked"}

ListMatchesMap ==
  ~Midway =>
    /\ ToSet(queue) = {items[k] : k \in Key} \ {Nil}
    /\ \A i, j \in DOMAIN queue : queue[i] = queue[j] => i = j
    /\ \A k \in Key : items[k] # Nil => heap[items[k]].key = k
    /\ len = Len(queue)

\* Remove reads the entry it hands to onRemove after the unlock: by then no
\* one can reach it, so no two callbacks get the same entry, and none gets
\* an entry that is in the cache.
NotifiedOnce ==
  \A t \in Threads : pc[t] = "onRemove" =>
    /\ loc[t].elem \notin ToSet(queue)
    /\ \A k \in Key : items[k] # loc[t].elem
    /\ \A u \in Threads \ {t} : pc[u] = "onRemove" => loc[u].elem # loc[t].elem

\* Take: one goroutine at a time runs f for a key (from f until the loaded
\* value is in the cache and Do is over).
Loading(t) == pc[t] = "load" \/ (loc[t].frame = "Load" /\ pc[t] # "Take.return")

SingleFlight ==
  \A t, u \in Threads :
    Loading(t) /\ Loading(u) /\ loc[t].key = loc[u].key => t = u

\* A goroutine that waits in Do waits for one that is still on its way to
\* the end of Do: nobody is left behind when the leader finishes.
InDo(t) == loc[t].frame \in {"Do", "Load"} /\ pc[t] # "Take.return"

NobodyLeftWaiting ==
  \A t \in Threads : pc[t] = "Do.wait" =>
    LET leader == flight[loc[t].key] IN
    leader # Nil /\ leader # t /\ InDo(leader) /\ loc[leader].key = loc[t].key

\* Every call returns, unless a panic takes the process down.
CallsReturn == \A t \in Threads : []<>(crashed \/ pc[t] = "idle")

=============================================================================
