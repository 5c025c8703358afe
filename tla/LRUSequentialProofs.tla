------------------------- MODULE LRUSequentialProofs -------------------------
(***************************************************************************)
(* LRUSequential.tla, for any keys, values, elements, size and calls: in   *)
(* the hands of one goroutine the cache implements RecencyCache, and Keys  *)
(* returns its keys from the oldest to the newest.                         *)
(***************************************************************************)
EXTENDS LRUSequential, LRUProofs

\* GetOldest never returns the entry it has found, which no LRU cache does.
NoOldest == "GetOldest" \notin Ops

-----------------------------------------------------------------------------
(* One goroutine. *)

EvictPc == {"Add.check", "RemoveOldest", "onRemove"} \cup RemovePc

\* The steps of each method.  A Get or Take that hits has no entry to add, so
\* it does not evict; a Take that has missed runs the loader.
CallInv ==
  LET l == loc[The] at == pc[The] IN
  /\ l.op # "GetOldest"
  /\ l.op = "none" => at = "idle"
  /\ l.op \in KeyOps => l.key \in Key
  /\ l.op = "Add" =>
       l.frame = "Client" /\ l.val \in Val /\ at \in AddPc \cup EvictPc \cup {"return"}
  /\ l.op = "Remove" =>
       /\ l.frame = "Client" /\ at \in RemovePc \cup {"onRemove", "return"}
       /\ at \in RemovePc => l.vic = l.key
  /\ l.op = "RemoveOldest" =>
       l.frame = "Client" /\ at \in RemovePc \cup {"RemoveOldest", "onRemove", "return"}
  /\ l.op = "Get" =>
       /\ l.frame = "Get"
       /\ at \in {"doGet", "doGet.locked", "doGet.value", "Add.lock", "Add.locked",
                  "Get.hit", "Get.miss"}
  /\ l.op = "Take" =>
       \/ /\ l.frame = "Take"
          /\ at \in {"doGet", "doGet.locked", "doGet.value", "Add.lock", "Add.locked",
                     "Take.hit", "Do"}
          /\ at \in {"doGet", "doGet.locked", "Do"} => l.val = Nil
       \/ /\ l.frame = "Do" /\ l.val = Nil
          /\ at \in {"doGet", "doGet.locked", "load", "Do.end", "Take.return"}
       \/ /\ l.frame = "Load" /\ l.val \in Val
          /\ at \in AddPc \cup EvictPc \cup {"Do.end", "Take.return"}
  /\ l.op = "Contains" =>
       l.frame = "Client" /\ at \in {"Contains", "Contains.locked", "Contains.return"}
  /\ l.op \in {"Keys", "Range"} =>
       l.frame = "Client" /\ at \in {"Range", "Range.visit", "Range.prev", "Range.end"}

Full == Size > 0 /\ Len(queue) > Size

\* What it has read is still so; the list is too long by one entry, from the
\* link of an Add to the unlink of the eviction, which is of the last entry.
AloneInv ==
  LET l == loc[The] at == pc[The] IN
  /\ l.frame \in {"Get", "Take"}
       /\ at \in {"doGet.value", "Add.lock", "Add.locked", "Get.hit", "Take.hit"} =>
       /\ items[l.key] = l.ent
       /\ at \in {"Add.lock", "Add.locked"} => l.val = heap[l.ent].value
  /\ l.frame = "Do" \/ at = "Do" => items[l.key] = Nil
  /\ l.frame = "Load" /\ at \in {"Add.lock", "Add.locked"} => items[l.key] = Nil
  /\ Full =>
       /\ Len(queue) = Size + 1 /\ l.op \in {"Add", "Take"}
       /\ at \in {"Add.linked", "Add.check", "RemoveOldest", "Remove.lock", "Remove.locked"}
  /\ l.op \in {"Add", "Take"} /\ at \in {"RemoveOldest", "Remove.lock", "Remove.locked"} => Full
  /\ l.op # "Remove" /\ at \in {"Remove.lock", "Remove.locked"} =>
       queue # <<>> /\ l.vic = heap[Last(queue)].key

\* The goroutine.
LEMMA Alone == The \in Threads /\ Threads = {The} /\ The # Nil
BY OneGoroutine, LRUAssumption DEF The

-----------------------------------------------------------------------------
(* The entries of a list of addresses q in a heap h, in the order of the   *)
(* list.                                                                   *)

Record == [key : Key \cup {Nil}, value : Val \cup {Nil}]

View(q, h) == [i \in DOMAIN q |-> h[q[i]]]

LEMMA ViewType ==
  ASSUME NEW q \in Seq(Elem), NEW h \in [Elem -> Record]
  PROVE  /\ View(q, h) \in Seq(Record) /\ Len(View(q, h)) = Len(q) /\ Len(q) \in Nat
         /\ DOMAIN q = 1 .. Len(q)
         /\ \A i \in 1 .. Len(q) : q[i] \in Elem /\ View(q, h)[i] = h[q[i]]
<1>1. Len(q) \in Nat /\ DOMAIN q = 1 .. Len(q) /\ \A i \in 1 .. Len(q) : q[i] \in Elem
  BY LenProperties, ElementOfSeq
<1>2. View(q, h) \in [1 .. Len(q) -> Record]
  BY <1>1 DEF View
<1>3. View(q, h) \in Seq(Record)
  BY <1>1, <1>2, IsASeq
<1>4. Len(View(q, h)) = Len(q)
  BY <1>1, <1>2, <1>3, LenProperties
<1>. QED  BY <1>1, <1>3, <1>4 DEF View

\* A sequence without its n-th element, and with a new first one.
LEMMA RemoveAtProperties ==
  ASSUME NEW S, NEW q \in Seq(S), NEW n \in 1 .. Len(q)
  PROVE  /\ RemoveAt(q, n) \in Seq(S)
         /\ Len(RemoveAt(q, n)) = Len(q) - 1
         /\ \A i \in 1 .. Len(q) - 1 :
              RemoveAt(q, n)[i] = IF i < n THEN q[i] ELSE q[i + 1]
<1> DEFINE a == SubSeq(q, 1, n - 1)
           b == SubSeq(q, n + 1, Len(q))
<1>1. Len(q) \in Nat /\ \A i \in 1 .. Len(q) : q[i] \in S
  BY LenProperties, ElementOfSeq
<1>2. /\ a \in Seq(S) /\ Len(a) = n - 1
      /\ \A i \in 1 .. n - 1 : a[i] = q[i]
  BY <1>1, SubSeqProperties
<1>3. /\ b \in Seq(S) /\ Len(b) = Len(q) - n
      /\ \A i \in 1 .. Len(q) - n : b[i] = q[n + i]
  <2>1. /\ b \in Seq(S)
        /\ Len(b) = IF n + 1 <= Len(q) THEN Len(q) - (n + 1) + 1 ELSE 0
        /\ \A i \in 1 .. Len(q) - (n + 1) + 1 : b[i] = q[n + 1 + i - 1]
    BY <1>1, SubSeqProperties
  <2>. HIDE DEF b
  <2>. QED  BY SMTT(40), <1>1, <2>1
<1>4. /\ a \o b \in Seq(S) /\ Len(a \o b) = Len(a) + Len(b)
      /\ \A i \in 1 .. Len(a) + Len(b) :
           (a \o b)[i] = IF i <= Len(a) THEN a[i] ELSE b[i - Len(a)]
  BY <1>2, <1>3, ConcatProperties
<1> DEFINE r == a \o b
<1>5. RemoveAt(q, n) = r
  BY DEF RemoveAt
<1> HIDE DEF a, b, r
<1>6. r \in Seq(S) /\ Len(r) = Len(q) - 1
  BY <1>1, <1>2, <1>3, <1>4 DEF r
<1>7. ASSUME NEW i \in 1 .. Len(q) - 1, i < n PROVE r[i] = q[i]
  BY <1>1, <1>2, <1>3, <1>4, <1>7 DEF r
<1>8. ASSUME NEW i \in 1 .. Len(q) - 1, ~(i < n) PROVE r[i] = q[i + 1]
  <2>1. r[i] = b[i - (n - 1)]
    BY <1>1, <1>2, <1>3, <1>4, <1>8 DEF r
  <2>2. i - (n - 1) \in 1 .. Len(q) - n /\ n + (i - (n - 1)) = i + 1
    BY <1>1, <1>8
  <2>. QED  BY <1>3, <2>1, <2>2
<1>. QED  BY <1>5, <1>6, <1>7, <1>8

LEMMA FrontProperties ==
  ASSUME NEW S, NEW q \in Seq(S), NEW x \in S
  PROVE  /\ <<x>> \o q \in Seq(S) /\ Len(<<x>> \o q) = Len(q) + 1
         /\ \A i \in 1 .. Len(q) + 1 : (<<x>> \o q)[i] = IF i = 1 THEN x ELSE q[i - 1]
<1> DEFINE p == <<x>> \o q
<1>1. Len(q) \in Nat /\ <<x>> \in Seq(S) /\ Len(<<x>>) = 1 /\ <<x>>[1] = x
  BY LenProperties
<1>2. /\ p \in Seq(S) /\ Len(p) = Len(<<x>>) + Len(q)
      /\ \A i \in 1 .. Len(<<x>>) + Len(q) :
           p[i] = IF i <= Len(<<x>>) THEN <<x>>[i] ELSE q[i - Len(<<x>>)]
  BY <1>1, ConcatProperties
<1> HIDE DEF p
<1>3. p \in Seq(S) /\ Len(p) = Len(q) + 1
  BY <1>1, <1>2
<1>4. ASSUME NEW i \in 1 .. Len(q) + 1 PROVE p[i] = IF i = 1 THEN x ELSE q[i - 1]
  BY <1>1, <1>2, <1>4
<1>. QED  BY <1>3, <1>4 DEF p

LEMMA ViewRemoveAt ==
  ASSUME NEW q \in Seq(Elem), NEW h \in [Elem -> Record], NEW n \in 1 .. Len(q)
  PROVE  View(RemoveAt(q, n), h) = RemoveAt(View(q, h), n)
<1>1. PICK v : v = View(q, h)
  OBVIOUS
<1>2. PICK r : r = RemoveAt(q, n)
  OBVIOUS
<1>3. /\ v \in Seq(Record) /\ Len(v) = Len(q) /\ Len(q) \in Nat
      /\ \A i \in 1 .. Len(q) : v[i] = h[q[i]]
  BY <1>1, ViewType
<1>4. /\ r \in Seq(Elem) /\ Len(r) = Len(q) - 1
      /\ \A i \in 1 .. Len(q) - 1 : r[i] = IF i < n THEN q[i] ELSE q[i + 1]
  BY <1>2, RemoveAtProperties
<1>5. PICK w : w = RemoveAt(v, n)
  OBVIOUS
<1>6. /\ w \in Seq(Record) /\ Len(w) = Len(q) - 1
      /\ \A i \in 1 .. Len(q) - 1 : w[i] = IF i < n THEN v[i] ELSE v[i + 1]
  <2>1. n \in 1 .. Len(v)
    BY <1>3
  <2>. QED  BY <1>3, <1>5, <2>1, RemoveAtProperties
<1>7. PICK u : u = View(r, h)
  OBVIOUS
<1>8. /\ u \in Seq(Record) /\ Len(u) = Len(r)
      /\ \A i \in 1 .. Len(r) : u[i] = h[r[i]]
  BY <1>4, <1>7, ViewType
<1>9. ASSUME NEW i \in 1 .. Len(q) - 1 PROVE u[i] = w[i]
  <2>1. i \in 1 .. Len(q) /\ i + 1 \in 1 .. Len(q) /\ i \in 1 .. Len(r)
    BY <1>3, <1>4
  <2>2. u[i] = h[r[i]]
    BY <1>8, <2>1
  <2>3. CASE i < n
    BY <1>3, <1>4, <1>6, <2>1, <2>2, <2>3
  <2>4. CASE ~(i < n)
    <3>1. r[i] = q[i + 1] /\ w[i] = v[i + 1]
      BY <1>4, <1>6, <2>4
    <3>. QED  BY <1>3, <2>1, <2>2, <3>1
  <2>. QED  BY <2>3, <2>4
<1>10. u = w
  BY <1>4, <1>6, <1>8, <1>9, SeqEqual
<1>. QED  BY <1>1, <1>2, <1>5, <1>7, <1>10

LEMMA ViewFront ==
  ASSUME NEW q \in Seq(Elem), NEW h \in [Elem -> Record], NEW e \in Elem
  PROVE  View(<<e>> \o q, h) = <<h[e]>> \o View(q, h)
<1>1. PICK v : v = View(q, h)
  OBVIOUS
<1>2. PICK p : p = <<e>> \o q
  OBVIOUS
<1>3. /\ v \in Seq(Record) /\ Len(v) = Len(q) /\ Len(q) \in Nat
      /\ \A i \in 1 .. Len(q) : v[i] = h[q[i]]
  BY <1>1, ViewType
<1>4. /\ p \in Seq(Elem) /\ Len(p) = Len(q) + 1
      /\ \A i \in 1 .. Len(q) + 1 : p[i] = IF i = 1 THEN e ELSE q[i - 1]
  BY <1>2, FrontProperties
<1>5. PICK w : w = <<h[e]>> \o v
  OBVIOUS
<1>6. /\ w \in Seq(Record) /\ Len(w) = Len(q) + 1
      /\ \A i \in 1 .. Len(q) + 1 : w[i] = IF i = 1 THEN h[e] ELSE v[i - 1]
  BY <1>3, <1>5, FrontProperties
<1>7. PICK u : u = View(p, h)
  OBVIOUS
<1>8. /\ u \in Seq(Record) /\ Len(u) = Len(p)
      /\ \A i \in 1 .. Len(p) : u[i] = h[p[i]]
  BY <1>4, <1>7, ViewType
<1>9. ASSUME NEW i \in 1 .. Len(q) + 1 PROVE u[i] = w[i]
  <2>1. CASE i = 1
    BY <1>3, <1>4, <1>6, <1>8, <2>1
  <2>2. CASE i # 1
    <3>1. i - 1 \in 1 .. Len(q) /\ i \in 1 .. Len(p)
      BY <1>3, <1>4, <2>2
    <3>2. u[i] = h[q[i - 1]] /\ w[i] = v[i - 1]
      BY <1>4, <1>6, <1>8, <2>2, <3>1
    <3>. QED  BY <1>3, <3>1, <3>2
  <2>. QED  BY <2>1, <2>2
<1>10. u = w
  BY <1>4, <1>6, <1>8, <1>9, SeqEqual
<1>. QED  BY <1>1, <1>2, <1>5, <1>7, <1>10

-----------------------------------------------------------------------------
(* The steps keep CallInv and AloneInv. *)

\* An entry that was read is an element, so that AddLink is not for it; the
\* goroutine that has not led a flight yet finds nobody who has.
LEMMA NotTaken ==
  ASSUME IndInv, CallInv, AloneInv
  PROVE  /\ pc[The] \in {"Add.lock", "Add.locked"} /\ loc[The].op \in {"Get", "Take"}
              /\ loc[The].frame # "Load" =>
            loc[The].ent \in Elem /\ items[loc[The].key] = loc[The].ent
         /\ pc[The] = "Do" => flight[loc[The].key] = Nil
<1> USE LRUAssumption, Alone
<1>1. /\ ThreadTypeOK /\ CallerInv /\ PointerInv /\ FlightInv
      /\ flight \in [Key -> Threads \cup {Nil}]
  BY DEF IndInv, TypeOK, ClientTypeOK
<1>2. ASSUME pc[The] \in {"Add.lock", "Add.locked"}, loc[The].op \in {"Get", "Take"},
             loc[The].frame # "Load"
      PROVE  loc[The].ent \in Elem /\ items[loc[The].key] = loc[The].ent
  BY <1>1, <1>2 DEF CallInv, AloneInv, PointerInv, CalleePc
<1>3. ASSUME pc[The] = "Do" PROVE flight[loc[The].key] = Nil
  <2>1. loc[The].frame = "Take" /\ loc[The].key \in Key
    BY <1>1, <1>3 DEF CallerInv
  <2>2. flight[loc[The].key] # Nil => InDo(The)
    BY <1>1, <2>1 DEF FlightInv
  <2>. QED  BY <2>1, <2>2 DEF InDo
<1>. QED  BY <1>2, <1>3

LEMMA CallStep ==
  ASSUME IndInv, CallInv, AloneInv, NoOldest, [Next]_vars
  PROVE  CallInv'
<1> USE LRUAssumption, ResumeCases
    DEF ThreadTypeOK, Locals, Frames, At, Goto, AddPc, RemovePc, EvictPc, KeyOps
<1>0. ThreadTypeOK /\ CallerInv /\ items \in [Key -> Elem \cup {Nil}]
  BY DEF IndInv, TypeOK, ListTypeOK
<1>1. ASSUME NEW op \in Ops, NEW k \in Key \cup {Nil}, NEW v \in Val \cup {Nil},
             Call(The, op, k, v)
      PROVE  CallInv'
  BY <1>0, <1>1, Alone DEF Call, Entry, AllOps, CallInv, NoLocals, NoOldest
<1>2. ASSUME \/ ReturnTrue(The) \/ GetHit(The) \/ GetMiss(The) \/ TakeReturn(The)
             \/ GetOldest(The) \/ ContainsReturn(The) \/ RangeEnd(The)
      PROVE  CallInv'
  <2>1. pc' = [pc EXCEPT ![The] = "idle"] /\ loc' = [loc EXCEPT ![The] = NoLocals]
    BY <1>2 DEF Return, ReturnTrue, GetHit, GetMiss, TakeReturn, GetOldest, ContainsReturn, RangeEnd
  <2>. QED  BY <1>0, <2>1, Alone DEF CallInv, NoLocals
<1>3. ASSUME AddLock(The) \/ RemoveLock(The) PROVE CallInv'
  BY <1>0, <1>3, Alone DEF AddLock, RemoveLock, CallInv
<1>4. ASSUME AddExisting(The) PROVE CallInv'
  BY <1>0, <1>4, Alone DEF AddExisting, CallInv
<1>5. ASSUME AddLink(The) PROVE CallInv'
  <2> DEFINE e == CHOOSE x \in Free : TRUE
  <2>1. /\ pc' = [pc EXCEPT ![The] = "Add.linked"] /\ pc[The] = "Add.locked"
        /\ loc' = [loc EXCEPT ![The].elem = e] /\ items[loc[The].key] = Nil
    BY <1>5 DEF AddLink
  <2> HIDE DEF e
  <2>2. loc[The].op \in {"Get", "Take"} => loc[The].frame = "Load"
    BY <2>1, NotTaken
  <2>. QED  BY <1>0, <2>1, <2>2, Alone DEF CallInv
<1>6. ASSUME AddUnlock(The) PROVE CallInv'
  BY <1>0, <1>6, Alone DEF AddUnlock, CallInv
<1>7. ASSUME AddCheck(The) \/ RemoveOldestEmpty(The) PROVE CallInv'
  BY <1>0, <1>7, Alone DEF AddCheck, RemoveOldestEmpty, CallInv
<1>8. ASSUME RemoveOldestBack(The) PROVE CallInv'
  BY <1>0, <1>8, Alone DEF RemoveOldestBack, CallInv
<1>9. ASSUME RemoveMissing(The) PROVE CallInv'
  BY <1>0, <1>9, Alone DEF RemoveMissing, CallInv
<1>10. ASSUME RemoveUnlink(The) PROVE CallInv'
  BY <1>0, <1>10, Alone DEF RemoveUnlink, CallInv
<1>11. ASSUME RemoveUnlock(The) PROVE CallInv'
  BY <1>0, <1>11, Alone DEF RemoveUnlock, CallInv
<1>12. ASSUME OnRemove(The) PROVE CallInv'
  BY <1>0, <1>12, Alone DEF OnRemove, CallInv
<1>13. ASSUME DoGetRLock(The) \/ LoadError(The) PROVE CallInv'
  BY <1>0, <1>13, Alone DEF DoGetRLock, LoadError, CallInv
<1>14. ASSUME DoGetRUnlock(The) PROVE CallInv'
  BY <1>0, <1>14, Alone DEF DoGetRUnlock, CallInv, CallerInv, AloneInv
<1>15. ASSUME DoGetValue(The) PROVE CallInv'
  BY <1>0, <1>15, Alone DEF DoGetValue, CallInv
<1>16. ASSUME DoLead(The) PROVE CallInv'
  BY <1>0, <1>16, Alone DEF DoLead, CallInv, CallerInv
<1>17. ASSUME DoHit(The) PROVE CallInv'
  BY <1>0, <1>17, Alone DEF DoHit, CallInv, CallerInv
<1>18. ASSUME Load(The) PROVE CallInv'
  BY <1>0, <1>18, Alone DEF Load, CallInv
<1>19. ASSUME DoEnd(The) PROVE CallInv'
  BY <1>0, <1>19, Alone DEF DoEnd, CallInv
<1>20. ASSUME ContainsRLock(The) PROVE CallInv'
  BY <1>0, <1>20, Alone DEF ContainsRLock, CallInv
<1>21. ASSUME ContainsDefer(The) PROVE CallInv'
  BY <1>0, <1>21, Alone DEF ContainsDefer, CallInv
<1>22. ASSUME RangeBack(The) PROVE CallInv'
  BY <1>0, <1>22, Alone DEF RangeBack, CallInv
<1>23. ASSUME RangePrev(The) PROVE CallInv'
  BY <1>0, <1>23, Alone DEF RangePrev, CallInv
<1>24. ASSUME RangeVisit(The) PROVE CallInv'
  BY <1>0, <1>24, Alone DEF RangeVisit, CallInv
<1>25. ~DoJoin(The)
  BY NotTaken DEF DoJoin
<1>26. CASE UNCHANGED vars \/ BackIsRoot(The)
  BY <1>26 DEF vars, client, BackIsRoot, CallInv
<1>. QED
  BY <1>1, <1>2, <1>3, <1>4, <1>5, <1>6, <1>7, <1>8, <1>9, <1>10, <1>11, <1>12, <1>13,
     <1>14, <1>15, <1>16, <1>17, <1>18, <1>19, <1>20, <1>21, <1>22, <1>23, <1>24, <1>25,
     <1>26, Alone
  DEF Next, Step, Stopped

\* Outside an update: the map and the list have the same entries.
LEMMA Settled ==
  ASSUME IndInv, pc[The] \notin MidPc
  PROVE  /\ queue \in Seq(Elem) /\ len = Len(queue) /\ Len(queue) \in Nat /\ Distinct(queue)
         /\ DOMAIN queue = 1 .. Len(queue)
         /\ \A i \in 1 .. Len(queue) :
              /\ queue[i] \in Elem /\ heap[queue[i]].key \in Key
              /\ items[heap[queue[i]].key] = queue[i]
         /\ \A k \in Key : items[k] # Nil =>
              /\ items[k] \in Elem /\ heap[items[k]].key = k
              /\ \E i \in 1 .. Len(queue) : queue[i] = items[k]
<1>1. ListInv /\ ListTypeOK
  BY DEF IndInv, TypeOK
<1>2. /\ ~Midway /\ (\A e \in Elem : ~Added(e)) /\ (\A k \in Key : ~Removed(k))
  BY Alone DEF MidPc, Midway, Added, Removed
<1>3. queue \in Seq(Elem) /\ Len(queue) \in Nat /\ DOMAIN queue = 1 .. Len(queue)
  BY <1>1, LenProperties DEF ListTypeOK
<1>4. \A i \in 1 .. Len(queue) : queue[i] \in Elem
  BY <1>3, ElementOfSeq
<1>5. Distinct(queue) /\ len = Len(queue)
  BY <1>1, <1>2 DEF ListInv, Distinct
<1>6. \A i \in 1 .. Len(queue) : heap[queue[i]].key \in Key /\ items[heap[queue[i]].key] = queue[i]
  BY <1>1, <1>2, <1>3, <1>4 DEF ListInv
<1>7. \A k \in Key : items[k] # Nil =>
        /\ items[k] \in Elem /\ heap[items[k]].key = k
        /\ \E i \in 1 .. Len(queue) : queue[i] = items[k]
  BY <1>1, <1>2, <1>3 DEF ListInv, ListTypeOK
<1>. QED  BY <1>3, <1>4, <1>5, <1>6, <1>7

\* The last entry.
LEMMA LastEntry ==
  ASSUME IndInv, pc[The] \notin MidPc, queue # <<>>
  PROVE  /\ Last(queue) = queue[Len(queue)] /\ Len(queue) \in 1 .. Len(queue)
         /\ heap[Last(queue)].key \in Key /\ items[heap[Last(queue)].key] = Last(queue)
<1>1. queue \in Seq(Elem) /\ Len(queue) # 0
  BY Settled, EmptySeq
<1>2. Last(queue) = queue[Len(queue)]
  BY DEF Last
<1>3. Len(queue) \in 1 .. Len(queue)
  BY <1>1, LenProperties
<1>. QED  BY <1>2, <1>3, Settled

LEMMA AloneStep ==
  ASSUME IndInv, CallInv, CallInv', AloneInv, [Next]_vars
  PROVE  AloneInv'
<1> USE LRUAssumption, ResumeCases
    DEF ThreadTypeOK, ListTypeOK, Locals, Frames, At, Goto, AddPc, RemovePc, EvictPc, KeyOps,
        MidPc, list, Full
<1>0. /\ ThreadTypeOK /\ CallerInv /\ ListTypeOK /\ PointerInv
      /\ loc[The].op \in {"none", "Add", "Get", "Take", "Remove", "RemoveOldest", "Contains",
                         "Keys", "Range"}
  <2>1. ThreadTypeOK /\ CallerInv /\ ListTypeOK /\ PointerInv
    BY DEF IndInv, TypeOK
  <2>. QED  BY <2>1, Alone DEF AllOps, CallInv
<1>1. ASSUME NEW op \in Ops, NEW k \in Key \cup {Nil}, NEW v \in Val \cup {Nil},
             Call(The, op, k, v)
      PROVE  AloneInv'
  BY <1>0, <1>1, Alone DEF Call, Entry, AllOps, AloneInv, NoLocals
<1>2. ASSUME \/ ReturnTrue(The) \/ GetHit(The) \/ GetMiss(The) \/ TakeReturn(The)
             \/ GetOldest(The) \/ ContainsReturn(The) \/ RangeEnd(The)
      PROVE  AloneInv'
  <2>1. /\ pc' = [pc EXCEPT ![The] = "idle"] /\ loc' = [loc EXCEPT ![The] = NoLocals]
        /\ UNCHANGED list
        /\ pc[The] \notin {"Add.linked", "Add.check", "RemoveOldest", "Remove.lock", "Remove.locked"}
    BY <1>2 DEF Return, ReturnTrue, GetHit, GetMiss, TakeReturn, GetOldest, ContainsReturn, RangeEnd
  <2>. QED  BY <1>0, <2>1, Alone DEF AloneInv, NoLocals
<1>3. ASSUME AddLock(The) \/ RemoveLock(The) PROVE AloneInv'
  BY <1>0, <1>3, Alone DEF AddLock, RemoveLock, AloneInv
<1>4. ASSUME AddExisting(The) PROVE AloneInv'
  <2>1. PICK e : e = items[loc[The].key]
    OBVIOUS
  <2>2. /\ pc[The] = "Add.locked" /\ e # Nil /\ queue' = MovedToFront(queue, e)
        /\ items' = items /\ loc' = loc
        /\ pc' = [pc EXCEPT ![The] = Resume(loc[The].frame)]
    BY <1>4, <2>1 DEF AddExisting
  <2>3. loc[The].key \in Key
    BY <1>0, <2>2, Alone DEF CallerInv
  <2>4. Len(queue') = Len(queue)
    BY <2>1, <2>2, <2>3, Settled, MovedToFrontProperties
  <2>. QED  BY <1>0, <2>2, <2>4, Alone DEF AloneInv, CallInv
<1>5. ASSUME AddLink(The) PROVE AloneInv'
  <2>1. PICK e : e = CHOOSE x \in Free : TRUE
    OBVIOUS
  <2>2. /\ pc' = [pc EXCEPT ![The] = "Add.linked"] /\ pc[The] = "Add.locked"
        /\ loc' = [loc EXCEPT ![The].elem = e] /\ items[loc[The].key] = Nil
        /\ queue' = <<e>> \o queue /\ items' = items /\ Free # {}
    BY <1>5, <2>1 DEF AddLink
  <2>3. loc[The].op \in {"Get", "Take"} => loc[The].frame = "Load"
    BY <2>2, NotTaken
  <2>4. queue \in Seq(Elem) /\ e \in Elem /\ Len(queue) \in Nat
    BY <1>0, <2>1, <2>2, FreeElement, Settled
  <2>5. Len(queue') = Len(queue) + 1
    BY <2>2, <2>4, FrontProperties
  <2>6. loc[The].op \in {"Add", "Take"} /\ ~Full
    BY <1>0, <2>2, <2>3 DEF CallInv, AloneInv
  <2>. QED  BY <1>0, <2>2, <2>3, <2>4, <2>5, <2>6, Alone DEF AloneInv, CallInv
<1>6. ASSUME AddUnlock(The) PROVE AloneInv'
  BY <1>0, <1>6, Alone DEF AddUnlock, AloneInv, CallInv
<1>7. ASSUME AddCheck(The) PROVE AloneInv'
  <2>1. len = Len(queue)
    BY <1>7, Settled DEF AddCheck
  <2>. QED  BY <1>0, <1>7, <2>1, Alone DEF AddCheck, AloneInv, CallInv
<1>8. ASSUME RemoveOldestEmpty(The) PROVE AloneInv'
  <2>1. len = Len(queue)
    BY <1>8, Settled DEF RemoveOldestEmpty
  <2>. QED  BY <1>0, <1>8, <2>1, Alone DEF RemoveOldestEmpty, AloneInv, CallInv
<1>9. ASSUME RemoveOldestBack(The) PROVE AloneInv'
  BY <1>0, <1>9, Alone DEF RemoveOldestBack, AloneInv, CallInv
<1>10. ASSUME RemoveMissing(The) PROVE AloneInv'
  <2>1. pc[The] = "Remove.locked" /\ items[loc[The].vic] = Nil
    BY <1>10 DEF RemoveMissing
  <2>2. loc[The].op = "Remove"
    BY <1>0, <2>1, LastEntry, Settled, Alone DEF AloneInv
  <2>. QED  BY <1>0, <1>10, <2>2, Alone DEF RemoveMissing, AloneInv, CallInv
<1>11. ASSUME RemoveUnlink(The) PROVE AloneInv'
  <2>1. PICK e : e = items[loc[The].vic]
    OBVIOUS
  <2>2. /\ pc[The] = "Remove.locked" /\ e # Nil /\ queue' = Unlinked(queue, e)
        /\ items' = items /\ heap' = heap
        /\ loc' = [loc EXCEPT ![The].elem = e]
        /\ pc' = [pc EXCEPT ![The] = "Remove.unlinked"]
    BY <1>11, <2>1 DEF RemoveUnlink
  <2>3. loc[The].vic \in Key
    BY <1>0, <2>2, Alone DEF CallerInv
  <2>4. Len(queue') = Len(queue) - 1 /\ Len(queue) \in Nat
    BY <2>1, <2>2, <2>3, Settled, UnlinkedProperties
  <2>. QED  BY <1>0, <2>2, <2>4, Alone DEF AloneInv, CallInv
<1>12. ASSUME RemoveUnlock(The) PROVE AloneInv'
  BY <1>0, <1>12, Alone DEF RemoveUnlock, AloneInv, CallInv
<1>26. ASSUME OnRemove(The) PROVE AloneInv'
  BY <1>0, <1>26, Alone DEF OnRemove, AloneInv, CallInv
<1>13. ASSUME DoGetRLock(The) \/ LoadError(The) PROVE AloneInv'
  BY <1>0, <1>13, Alone DEF DoGetRLock, LoadError, AloneInv
<1>14. ASSUME DoGetRUnlock(The) PROVE AloneInv'
  BY <1>0, <1>14, Alone DEF DoGetRUnlock, AloneInv, CallerInv
<1>15. ASSUME DoGetValue(The) PROVE AloneInv'
  BY <1>0, <1>15, Alone DEF DoGetValue, AloneInv, CallInv, CallerInv
<1>16. ASSUME DoLead(The) PROVE AloneInv'
  BY <1>0, <1>16, Alone DEF DoLead, AloneInv
<1>17. ~DoHit(The)
  BY <1>0, Alone DEF DoHit, CallInv
<1>18. ASSUME Load(The) PROVE AloneInv'
  BY <1>0, <1>18, Alone DEF Load, AloneInv, CallerInv
<1>19. ASSUME DoEnd(The) PROVE AloneInv'
  BY <1>0, <1>19, Alone DEF DoEnd, AloneInv
<1>20. ASSUME ContainsRLock(The) \/ RangeVisit(The) PROVE AloneInv'
  BY <1>0, <1>20, Alone DEF ContainsRLock, RangeVisit, AloneInv
<1>21. ASSUME ContainsDefer(The) PROVE AloneInv'
  BY <1>0, <1>21, Alone DEF ContainsDefer, AloneInv, CallInv
<1>22. ASSUME RangeBack(The) PROVE AloneInv'
  BY <1>0, <1>22, Alone DEF RangeBack, AloneInv, CallerInv
<1>23. ASSUME RangePrev(The) PROVE AloneInv'
  BY <1>0, <1>23, Alone DEF RangePrev, AloneInv, CallerInv
<1>24. ~DoJoin(The)
  BY NotTaken DEF DoJoin
<1>25. CASE UNCHANGED vars \/ BackIsRoot(The)
  BY <1>25 DEF vars, client, BackIsRoot, AloneInv
<1>. QED
  BY <1>1, <1>2, <1>3, <1>4, <1>5, <1>6, <1>7, <1>8, <1>9, <1>10, <1>11, <1>12, <1>13,
     <1>14, <1>15, <1>16, <1>17, <1>18, <1>19, <1>20, <1>21, <1>22, <1>23, <1>24, <1>25,
     <1>26, Alone
  DEF Next, Step, Stopped

-----------------------------------------------------------------------------
(* The abstract cache, in the states between updates. *)

LEMMA EntriesType ==
  ASSUME ListTypeOK
  PROVE  /\ Entries = View(queue, heap) /\ Entries \in Seq(Record)
         /\ Len(Entries) = Len(queue) /\ Len(queue) \in Nat
         /\ DOMAIN queue = 1 .. Len(queue) /\ DOMAIN Entries = 1 .. Len(queue)
         /\ \A i \in 1 .. Len(queue) : queue[i] \in Elem /\ Entries[i] = heap[queue[i]]
<1>1. queue \in Seq(Elem) /\ heap \in [Elem -> Record]
  BY DEF ListTypeOK, Record
<1>2. Entries = View(queue, heap)
  BY DEF Entries, View
<1>3. /\ View(queue, heap) \in Seq(Record) /\ Len(View(queue, heap)) = Len(queue)
      /\ Len(queue) \in Nat /\ DOMAIN queue = 1 .. Len(queue)
      /\ \A i \in 1 .. Len(queue) : queue[i] \in Elem /\ View(queue, heap)[i] = heap[queue[i]]
  BY <1>1, ViewType
<1>4. DOMAIN Entries = 1 .. Len(queue)
  BY <1>3 DEF Entries
<1>. QED  BY <1>2, <1>3, <1>4

LEMMA NextEntries ==
  ASSUME ListTypeOK'
  PROVE  Len(Entries') = Len(queue')
<1>1. PICK q, h : q = queue' /\ h = heap'
  OBVIOUS
<1>2. q \in Seq(Elem) /\ h \in [Elem -> Record]
  BY <1>1 DEF ListTypeOK, Record
<1>3. Len(View(q, h)) = Len(q)
  BY <1>2, ViewType
<1>4. Entries' = View(q, h)
  BY <1>1 DEF Entries, View
<1>. QED  BY <1>1, <1>3, <1>4

\* The abstract cache has an entry for k where the map has one, and its place
\* is that of the address in the list.
LEMMA SameKeys ==
  ASSUME IndInv, pc[The] \notin MidPc, ~Full, NEW k \in Key
  PROVE  /\ Kept = Entries
         /\ k \in Abstract!Keys <=> items[k] # Nil
         /\ items[k] # Nil =>
              /\ Abstract!IndexOf(k) \in 1 .. Len(queue)
              /\ Abstract!IndexOf(k) = IndexIn(queue, items[k])
              /\ Abstract!Value(k) = heap[items[k]].value
              /\ Abstract!Without(k) = RemoveAt(Entries, IndexIn(queue, items[k]))
         /\ items[k] = Nil => Abstract!Without(k) = Entries
<1>1. Kept = Entries
  BY DEF Kept, Full
<1>2. ListTypeOK
  BY DEF IndInv, TypeOK
<1>3. /\ DOMAIN Entries = 1 .. Len(queue) /\ DOMAIN queue = 1 .. Len(queue)
      /\ \A i \in 1 .. Len(queue) :
           /\ queue[i] \in Elem /\ Entries[i] = heap[queue[i]]
           /\ items[heap[queue[i]].key] = queue[i]
      /\ Distinct(queue)
  BY <1>2, EntriesType, Settled
<1>4. ASSUME NEW i \in 1 .. Len(queue) PROVE Entries[i].key = k <=> queue[i] = items[k]
  <2>1. items[k] # Nil => heap[items[k]].key = k
    BY Settled
  <2>2. queue[i] # Nil
    BY <1>3, LRUAssumption
  <2>. QED  BY <1>3, <2>1, <2>2
<1>5. items[k] # Nil => \E i \in 1 .. Len(queue) : queue[i] = items[k]
  BY Settled
<1>6. k \in Abstract!Keys <=> items[k] # Nil
  <2>1. k \in Abstract!Keys <=> \E i \in 1 .. Len(queue) : Entries[i].key = k
    BY <1>1, <1>3 DEF Abstract!Keys
  <2>2. (\E i \in 1 .. Len(queue) : Entries[i].key = k)
          <=> \E i \in 1 .. Len(queue) : queue[i] = items[k]
    BY <1>4
  <2>. QED  BY <1>3, <1>5, <2>1, <2>2, LRUAssumption
<1>7. ASSUME items[k] # Nil
      PROVE  /\ Abstract!IndexOf(k) \in 1 .. Len(queue)
             /\ Abstract!IndexOf(k) = IndexIn(queue, items[k])
             /\ Abstract!Value(k) = heap[items[k]].value
             /\ Abstract!Without(k) = RemoveAt(Entries, IndexIn(queue, items[k]))
  <2>1. PICK n \in 1 .. Len(queue) : queue[n] = items[k]
    BY <1>5, <1>7
  <2>2. \A i \in 1 .. Len(queue) : queue[i] = items[k] <=> i = n
    BY <1>3, <2>1 DEF Distinct
  <2>3. IndexIn(queue, items[k]) = n
    BY <1>3, <2>1, <2>2 DEF IndexIn
  <2>4. Abstract!IndexOf(k) = n
    <3>1. Abstract!IndexOf(k) = CHOOSE i \in 1 .. Len(queue) : Entries[i].key = k
      BY <1>1, <1>3 DEF Abstract!IndexOf
    <3>2. \A i \in 1 .. Len(queue) : Entries[i].key = k <=> i = n
      BY <1>4, <2>2
    <3>. QED  BY <2>1, <3>1, <3>2
  <2>5. Abstract!Value(k) = heap[items[k]].value
    BY <1>1, <1>3, <2>1, <2>4 DEF Abstract!Value
  <2>6. Abstract!Without(k) = RemoveAt(Entries, n)
    BY <1>1, <1>6, <1>7, <2>4 DEF Abstract!Without, RemoveAt
  <2>. QED  BY <2>1, <2>3, <2>4, <2>5, <2>6
<1>8. items[k] = Nil => Abstract!Without(k) = Entries
  BY <1>1, <1>6 DEF Abstract!Without
<1>. QED  BY <1>1, <1>6, <1>7, <1>8

-----------------------------------------------------------------------------
(* What the three updates of the list do to the entries. *)

LEMMA ViewSame ==
  ASSUME NEW q \in Seq(Elem), NEW h, NEW g, \A i \in 1 .. Len(q) : g[q[i]] = h[q[i]]
  PROVE  View(q, g) = View(q, h)
BY LenProperties DEF View

LEMMA RemoveLast ==
  ASSUME NEW S, NEW q \in Seq(S), q # <<>>
  PROVE  RemoveAt(q, Len(q)) = SubSeq(q, 1, Len(q) - 1)
<1>1. Len(q) \in Nat /\ Len(q) # 0 /\ \A i \in 1 .. Len(q) : q[i] \in S
  BY LenProperties, EmptySeq, ElementOfSeq
<1>2. Len(q) \in 1 .. Len(q)
  BY <1>1
<1>3. PICK r : r = RemoveAt(q, Len(q))
  OBVIOUS
<1>4. /\ r \in Seq(S) /\ Len(r) = Len(q) - 1
      /\ \A i \in 1 .. Len(q) - 1 : r[i] = IF i < Len(q) THEN q[i] ELSE q[i + 1]
  BY <1>2, <1>3, RemoveAtProperties
<1>5. PICK s : s = SubSeq(q, 1, Len(q) - 1)
  OBVIOUS
<1>6. /\ s \in Seq(S) /\ Len(s) = Len(q) - 1
      /\ \A i \in 1 .. Len(q) - 1 : s[i] = q[i]
  <2>1. PICK m : m = Len(q) - 1
    OBVIOUS
  <2>2. m \in Nat /\ \A i \in 1 .. m : q[i] \in S
    BY <1>1, <2>1
  <2>3. /\ SubSeq(q, 1, m) \in Seq(S) /\ Len(SubSeq(q, 1, m)) = m
        /\ \A i \in 1 .. m : SubSeq(q, 1, m)[i] = q[i]
    BY <2>2, SubSeqProperties
  <2>. QED  BY <1>5, <2>1, <2>3
<1>7. \A i \in 1 .. Len(q) - 1 : r[i] = s[i]
  BY <1>1, <1>4, <1>6
<1>8. r = s
  BY <1>4, <1>6, <1>7, SeqEqual
<1>. QED  BY <1>3, <1>5, <1>8

\* The place of an entry that is in the map.
LEMMA Place ==
  ASSUME IndInv, pc[The] \notin MidPc, NEW k \in Key, items[k] # Nil
  PROVE  /\ items[k] \in Elem
         /\ IndexIn(queue, items[k]) \in 1 .. Len(queue)
         /\ queue[IndexIn(queue, items[k])] = items[k]
<1>1. items[k] \in Elem /\ \E i \in DOMAIN queue : queue[i] = items[k]
  BY Settled
<1>. QED  BY <1>1, Settled DEF IndexIn

LEMMA ExistingAdded ==
  ASSUME IndInv, IndInv', AddExisting(The)
  PROVE  /\ loc[The].key \in Key /\ items[loc[The].key] # Nil
         /\ Len(queue') = Len(queue)
         /\ Entries' = <<[key |-> loc[The].key, value |-> loc[The].val]>>
                         \o RemoveAt(Entries, IndexIn(queue, items[loc[The].key]))
<1> USE LRUAssumption, Alone
<1>1. ListTypeOK /\ ThreadTypeOK /\ CallerInv /\ ListTypeOK'
  BY DEF IndInv, TypeOK
<1>2. PICK e, k, v : e = items[k] /\ k = loc[The].key /\ v = loc[The].val
  OBVIOUS
<1>3. /\ pc[The] = "Add.locked" /\ e # Nil /\ queue' = MovedToFront(queue, e)
      /\ heap' = [heap EXCEPT ![e].value = v]
  BY <1>2 DEF AddExisting, At
<1>4. k \in Key /\ v \in Val \cup {Nil}
  BY <1>1, <1>2, <1>3 DEF CallerInv, ThreadTypeOK, Locals
<1>5. PICK n : n = IndexIn(queue, e)
  OBVIOUS
<1>6. /\ queue \in Seq(Elem) /\ Distinct(queue) /\ n \in 1 .. Len(queue) /\ n \in DOMAIN queue
      /\ queue[n] = e /\ e \in Elem /\ heap[e].key = k
  BY <1>2, <1>3, <1>4, <1>5, Place, Settled DEF MidPc
<1>7. PICK u : u = RemoveAt(queue, n)
  OBVIOUS
<1>8. u = Unlinked(queue, e) /\ queue' = <<e>> \o u
  BY <1>3, <1>5, <1>7 DEF MovedToFront, Unlinked
<1>9. /\ u \in Seq(Elem) /\ Len(u) = Len(queue) - 1 /\ \A i \in 1 .. Len(u) : u[i] # e
  <2>1. /\ u \in Seq(Elem) /\ Len(u) = Len(queue) - 1 /\ \A i \in DOMAIN u : u[i] # e
    BY <1>6, <1>8, UnlinkedProperties
  <2>. QED  BY <2>1, LenProperties
<1>10. heap \in [Elem -> Record] /\ heap' \in [Elem -> Record]
  BY <1>1 DEF ListTypeOK, Record
<1>11. heap'[e] = [key |-> k, value |-> v] /\ \A x \in Elem : x # e => heap'[x] = heap[x]
  BY <1>3, <1>4, <1>6, <1>10 DEF Record
<1>12. View(u, heap') = View(u, heap)
  <2>1. \A i \in 1 .. Len(u) : heap'[u[i]] = heap[u[i]]
    BY <1>9, <1>11, ElementOfSeq
  <2>. QED  BY <1>9, <2>1, ViewSame
<1>13. View(u, heap) = RemoveAt(View(queue, heap), n)
  <2>1. PICK q, h : q = queue /\ h = heap
    OBVIOUS
  <2>2. q \in Seq(Elem) /\ h \in [Elem -> Record] /\ n \in 1 .. Len(q)
    BY <1>6, <1>10, <2>1
  <2>3. View(RemoveAt(q, n), h) = RemoveAt(View(q, h), n)
    BY <2>2, ViewRemoveAt
  <2>. QED  BY <1>7, <2>1, <2>3
<1>14. View(queue', heap') = <<heap'[e]>> \o View(u, heap')
  <2>1. PICK h : h = heap'
    OBVIOUS
  <2>2. h \in [Elem -> Record]
    BY <1>10, <2>1
  <2>3. View(<<e>> \o u, h) = <<h[e]>> \o View(u, h)
    BY <1>6, <1>9, <2>2, ViewFront
  <2>. QED  BY <1>8, <2>1, <2>3
<1>15. Entries = View(queue, heap) /\ Entries' = View(queue', heap')
  BY DEF Entries, View
<1>16. Len(queue') = Len(queue)
  BY <1>3, <1>6, MovedToFrontProperties
<1>. QED
  BY <1>2, <1>3, <1>4, <1>5, <1>11, <1>12, <1>13, <1>14, <1>15, <1>16

LEMMA LinkAdded ==
  ASSUME IndInv, IndInv', AddLink(The)
  PROVE  /\ loc[The].key \in Key /\ items[loc[The].key] = Nil
         /\ Entries' = <<[key |-> loc[The].key, value |-> loc[The].val]>> \o Entries
<1> USE LRUAssumption, Alone
<1>1. ListTypeOK /\ ThreadTypeOK /\ CallerInv /\ ListTypeOK'
  BY DEF IndInv, TypeOK
<1>2. PICK e, k, v : e = (CHOOSE x \in Free : TRUE) /\ k = loc[The].key /\ v = loc[The].val
  OBVIOUS
<1>3. /\ pc[The] = "Add.locked" /\ Free # {} /\ queue' = <<e>> \o queue /\ items[k] = Nil
      /\ heap' = [heap EXCEPT ![e] = [key |-> k, value |-> v]]
  BY <1>2 DEF AddLink, At
<1>4. k \in Key /\ v \in Val \cup {Nil}
  BY <1>1, <1>2, <1>3 DEF CallerInv, ThreadTypeOK, Locals
<1>5. /\ e \in Elem /\ \A i \in DOMAIN queue : queue[i] # e
  BY <1>1, <1>2, <1>3, FreeElement
<1>6. queue \in Seq(Elem) /\ DOMAIN queue = 1 .. Len(queue)
  BY <1>1, LenProperties DEF ListTypeOK
<1>7. heap \in [Elem -> Record] /\ heap' \in [Elem -> Record]
  BY <1>1 DEF ListTypeOK, Record
<1>8. heap'[e] = [key |-> k, value |-> v] /\ \A x \in Elem : x # e => heap'[x] = heap[x]
  BY <1>3, <1>5, <1>7
<1>9. View(queue, heap') = View(queue, heap)
  <2>1. \A i \in 1 .. Len(queue) : heap'[queue[i]] = heap[queue[i]]
    BY <1>5, <1>6, <1>8, ElementOfSeq
  <2>. QED  BY <1>6, <2>1, ViewSame
<1>10. View(queue', heap') = <<heap'[e]>> \o View(queue, heap')
  <2>1. PICK q, h : q = queue /\ h = heap'
    OBVIOUS
  <2>2. q \in Seq(Elem) /\ h \in [Elem -> Record]
    BY <1>6, <1>7, <2>1
  <2>3. View(<<e>> \o q, h) = <<h[e]>> \o View(q, h)
    BY <1>5, <2>2, ViewFront
  <2>. QED  BY <1>3, <2>1, <2>3
<1>11. Entries = View(queue, heap) /\ Entries' = View(queue', heap')
  BY DEF Entries, View
<1>. QED  BY <1>2, <1>3, <1>4, <1>8, <1>9, <1>10, <1>11

LEMMA EntryUnlinked ==
  ASSUME IndInv, RemoveUnlink(The)
  PROVE  /\ loc[The].vic \in Key /\ items[loc[The].vic] # Nil
         /\ Len(queue') = Len(queue) - 1
         /\ Entries' = RemoveAt(Entries, IndexIn(queue, items[loc[The].vic]))
<1> USE LRUAssumption, Alone
<1>1. ListTypeOK /\ CallerInv
  BY DEF IndInv, TypeOK
<1>2. PICK e, k : e = items[k] /\ k = loc[The].vic
  OBVIOUS
<1>3. /\ pc[The] = "Remove.locked" /\ e # Nil /\ queue' = Unlinked(queue, e) /\ heap' = heap
  BY <1>2 DEF RemoveUnlink, At
<1>4. k \in Key
  BY <1>1, <1>2, <1>3 DEF CallerInv
<1>5. PICK n : n = IndexIn(queue, e)
  OBVIOUS
<1>6. /\ queue \in Seq(Elem) /\ Distinct(queue) /\ n \in 1 .. Len(queue) /\ n \in DOMAIN queue
      /\ queue[n] = e /\ e \in Elem
  BY <1>2, <1>3, <1>4, <1>5, Place, Settled DEF MidPc
<1>7. Len(queue') = Len(queue) - 1
  BY <1>3, <1>6, UnlinkedProperties
<1>8. queue' = RemoveAt(queue, n)
  BY <1>3, <1>5 DEF Unlinked
<1>9. heap \in [Elem -> Record]
  BY <1>1 DEF ListTypeOK, Record
<1>10. View(RemoveAt(queue, n), heap) = RemoveAt(View(queue, heap), n)
  <2>1. PICK q, h : q = queue /\ h = heap
    OBVIOUS
  <2>2. q \in Seq(Elem) /\ h \in [Elem -> Record] /\ n \in 1 .. Len(q)
    BY <1>6, <1>9, <2>1
  <2>3. View(RemoveAt(q, n), h) = RemoveAt(View(q, h), n)
    BY <2>2, ViewRemoveAt
  <2>. QED  BY <2>1, <2>3
<1>11. Entries = View(queue, heap) /\ Entries' = View(queue', heap')
  BY DEF Entries, View
<1>. QED  BY <1>2, <1>3, <1>4, <1>5, <1>7, <1>8, <1>10, <1>11

-----------------------------------------------------------------------------
(* Every step is one operation of the abstract cache, or none.             *)

Operations == {"none", "Add", "Get", "Take", "Remove", "RemoveOldest", "Contains", "Keys", "Range"}

LEMMA AloneFacts ==
  ASSUME IndInv, CallInv
  PROVE  /\ ThreadTypeOK /\ CallerInv /\ ListTypeOK
         /\ loc[The] \in Locals /\ loc[The].op \in Operations
         /\ pc[The] = "idle" => loc[The].op = "none"
<1> USE LRUAssumption, Alone
<1>1. ThreadTypeOK /\ CallerInv /\ ListTypeOK
  BY DEF IndInv, TypeOK
<1>2. loc[The] \in Locals
  BY <1>1 DEF ThreadTypeOK
<1>3. loc[The].op \in Operations
  BY <1>2 DEF AllOps, CallInv, Locals, Operations
<1>4. ASSUME pc[The] = "idle" PROVE loc[The].op = "none"
  BY <1>3, <1>4 DEF CallInv, Operations, AddPc, RemovePc, EvictPc
<1>. QED  BY <1>1, <1>2, <1>3, <1>4

\* Every list that is too long is waiting for its eviction.
Listed == IF Full THEN SubSeq(Entries, 1, Size) ELSE Entries

LEMMA KeptIs ==
  ASSUME AloneInv, AloneInv' PROVE Kept = Listed /\ Kept' = Listed'
<1>1. Full => Evicting
  BY DEF AloneInv, Evicting
<1>2. Full' => Evicting'
  BY DEF AloneInv, Evicting
<1>. QED  BY <1>1, <1>2 DEF Kept, Listed, Full

LEMMA KeptSame ==
  ASSUME AloneInv, AloneInv', queue' = queue, heap' = heap PROVE Kept' = Kept
<1>1. Listed' = Listed
  BY DEF Listed, Entries, Full
<1>. QED  BY <1>1, KeptIs

\* A step of the abstract cache, or none.
AbstractStep == [Abstract!Next]_<<Kept, Request, Answer>>

\* The call as the abstract cache sees it before it takes effect, and after.
LEMMA RequestIs ==
  ASSUME ~Applied, loc[The].op # "none"
  PROVE  /\ Request.op = loc[The].op /\ Request.key = loc[The].key
         /\ loc[The].op = "Add" => Request.val = loc[The].val
BY DEF Request

LEMMA RequestDone ==
  ASSUME Applied' \/ loc'[The].op = "none" PROVE Request' = Abstract!NoCall
BY DEF Request, Abstract!NoCall

LEMMA PendingHit ==
  ASSUME pc[The] \in {"Get.hit", "Take.hit"}
  PROVE  Pending = [ok |-> TRUE, val |-> heap[loc[The].ent].value]
BY DEF Pending

\* The beginning of a call.
LEMMA BeginStep ==
  ASSUME IndInv, CallInv, AloneInv, AloneInv', NoOldest,
         NEW op \in Ops, NEW k \in Key \cup {Nil}, NEW v \in Val \cup {Nil}, Call(The, op, k, v)
  PROVE  Abstract!Begin
<1> USE LRUAssumption, Alone, AloneFacts DEF ThreadTypeOK, Locals, At, Goto
<1>1. Kept' = Kept
  <2>1. queue' = queue /\ heap' = heap
    BY DEF list, Call
  <2>. QED  BY <2>1, KeptSame
<1>2. pc[The] = "idle" /\ loc[The].op = "none" /\ res' = res
  BY DEF Call
<1>3. /\ pc' = [pc EXCEPT ![The] = Entry[op]] /\ loc'[The].op = op
      /\ loc'[The].key = k /\ loc'[The].val = v
      /\ loc'[The].frame = IF op \in {"Get", "Take"} THEN op ELSE "Client"
  BY DEF Call, NoLocals
<1>4. op \in {"Add", "Get", "Take", "Remove", "RemoveOldest", "Contains", "Keys", "Range"}
  BY DEF AllOps, NoOldest
<1>5. ~Applied /\ ~Applied'
  BY <1>2, <1>3, <1>4 DEF Entry, Applied
<1>6. Answer' = Answer
  BY <1>2, <1>5 DEF Answer
<1>7. Request = Abstract!NoCall
  BY <1>2 DEF Request, Abstract!NoCall
<1>8. Request' = [op |-> op, key |-> k, val |-> IF op = "Add" THEN v ELSE Nil]
  BY <1>3, <1>4, <1>5 DEF Request
<1>9. (op \in KeyOps) <=> (k # Nil)
  BY DEF Call
<1>10. (op = "Add") <=> (v # Nil)
  BY DEF Call
<1>11. Request' \in Abstract!Calls
  BY <1>4, <1>8, <1>9, <1>10 DEF Abstract!Calls, KeyOps
<1>. QED  BY <1>1, <1>6, <1>7, <1>11 DEF Abstract!Begin

\* The steps that do not change what the call is going to return.
LEMMA QuietStep ==
  ASSUME IndInv, CallInv, AloneInv, AloneInv',
         \/ ReturnTrue(The) \/ GetHit(The) \/ GetMiss(The) \/ TakeReturn(The)
         \/ ContainsReturn(The)
         \/ AddLock(The) \/ AddUnlock(The) \/ AddCheck(The)
         \/ RemoveOldestBack(The) \/ RemoveLock(The) \/ RemoveUnlock(The) \/ OnRemove(The)
         \/ DoGetRLock(The) \/ DoGetValue(The) \/ DoLead(The) \/ Load(The) \/ DoEnd(The)
         \/ ContainsRLock(The) \/ RangeBack(The) \/ RangeVisit(The) \/ RangePrev(The)
  PROVE  Kept' = Kept /\ Request' = Request /\ Answer' = Answer
<1> USE LRUAssumption, ResumeCases, Alone, AloneFacts
    DEF ThreadTypeOK, Locals, At, Goto, AddPc, RemovePc, EvictPc, KeyOps, Operations, client,
        Answer, Applied, Pending, Request, CallInv
<1>1. Kept' = Kept
  <2>1. queue' = queue /\ heap' = heap
    BY DEF list, ReturnTrue, GetHit, GetMiss, TakeReturn, ContainsReturn, AddLock,
           AddUnlock, AddCheck, RemoveOldestBack, RemoveLock, RemoveUnlock, OnRemove,
           DoGetRLock, DoGetValue, DoLead, Load, DoEnd, ContainsRLock, RangeBack, RangeVisit,
           RangePrev
  <2>. QED  BY <2>1, KeptSame
<1>3. ASSUME NEW r, Return(The, r), Applied, Pending = r PROVE Answer' = Answer /\ Request' = Request
  BY <1>3 DEF Return, NoLocals, ClientTypeOK, IndInv, TypeOK
<1>4. ASSUME ReturnTrue(The) PROVE Answer' = Answer /\ Request' = Request
  BY <1>3, <1>4 DEF ReturnTrue
<1>5. ASSUME GetHit(The) PROVE Answer' = Answer /\ Request' = Request
  <2>1. pc[The] \in {"Get.hit", "Take.hit"}
    BY <1>5 DEF GetHit
  <2>2. Applied /\ Pending = [ok |-> TRUE, val |-> heap[loc[The].ent].value]
    <3>1. Pending = [ok |-> TRUE, val |-> heap[loc[The].ent].value]
      BY <2>1, PendingHit
    <3>2. loc[The].op \in {"Get", "Take"}
      BY <2>1
    <3>3. Applied
      BY <2>1, <3>2
    <3>. QED  BY <3>1, <3>3
  <2>3. Return(The, [ok |-> TRUE, val |-> heap[loc[The].ent].value])
    BY <1>5 DEF GetHit
  <2>. QED  BY <1>3, <2>2, <2>3
<1>6. ASSUME GetMiss(The) PROVE Answer' = Answer /\ Request' = Request
  BY <1>3, <1>6 DEF GetMiss
<1>7. ASSUME TakeReturn(The) PROVE Answer' = Answer /\ Request' = Request
  BY <1>3, <1>7 DEF TakeReturn
<1>8. ASSUME ContainsReturn(The) PROVE Answer' = Answer /\ Request' = Request
  BY <1>3, <1>8 DEF ContainsReturn
<1>9. ASSUME AddLock(The) PROVE Answer' = Answer /\ Request' = Request
  BY <1>9 DEF AddLock
<1>10. ASSUME AddUnlock(The) PROVE Answer' = Answer /\ Request' = Request
  BY <1>10 DEF AddUnlock
<1>11. ASSUME AddCheck(The) PROVE Answer' = Answer /\ Request' = Request
  BY <1>11 DEF AddCheck
<1>12. ASSUME RemoveOldestBack(The) PROVE Answer' = Answer /\ Request' = Request
  BY <1>12 DEF RemoveOldestBack
<1>13. ASSUME RemoveLock(The) PROVE Answer' = Answer /\ Request' = Request
  BY <1>13 DEF RemoveLock
<1>14. ASSUME RemoveUnlock(The) PROVE Answer' = Answer /\ Request' = Request
  BY <1>14 DEF RemoveUnlock
<1>15. ASSUME OnRemove(The) PROVE Answer' = Answer /\ Request' = Request
  BY <1>15 DEF OnRemove
<1>16. ASSUME DoGetRLock(The) PROVE Answer' = Answer /\ Request' = Request
  BY <1>16 DEF DoGetRLock
<1>17. ASSUME DoGetValue(The) PROVE Answer' = Answer /\ Request' = Request
  BY <1>17 DEF DoGetValue
<1>18. ASSUME DoLead(The) PROVE Answer' = Answer /\ Request' = Request
  BY <1>18 DEF DoLead
<1>19. ASSUME Load(The) PROVE Answer' = Answer /\ Request' = Request
  BY <1>19 DEF Load
<1>20. ASSUME DoEnd(The) PROVE Answer' = Answer /\ Request' = Request
  BY <1>20 DEF DoEnd
<1>21. ASSUME ContainsRLock(The) PROVE Answer' = Answer /\ Request' = Request
  BY <1>21 DEF ContainsRLock
<1>22. ASSUME RangeBack(The) PROVE Answer' = Answer /\ Request' = Request
  BY <1>22 DEF RangeBack
<1>23. ASSUME RangeVisit(The) PROVE Answer' = Answer /\ Request' = Request
  BY <1>23 DEF RangeVisit
<1>24. ASSUME RangePrev(The) PROVE Answer' = Answer /\ Request' = Request
  BY <1>24 DEF RangePrev
<1>. HIDE DEF Answer, Request
<1>. QED
  BY <1>1, <1>4, <1>5, <1>6, <1>7, <1>8, <1>9, <1>10, <1>11, <1>12, <1>13, <1>14,
     <1>15, <1>16, <1>17, <1>18, <1>19, <1>20, <1>21, <1>22, <1>23, <1>24

\* The abstract operations, for the states where no entry waits for its eviction.
LEMMA MissOf ==
  ASSUME IndInv, pc[The] \notin MidPc, ~Full, NEW k \in Key, items[k] = Nil, Kept' = Kept,
         Request' = Abstract!NoCall, Answer' = NoResult, Request.key = k
  PROVE  /\ Request.op = "Get" => Abstract!Miss
         /\ Request.op = "Take" => Abstract!LoadError
BY SameKeys DEF Abstract!Miss, Abstract!LoadError, Abstract!Found, Abstract!Reply, NoResult

LEMMA ReadStep ==
  ASSUME IndInv, CallInv, AloneInv, AloneInv',
         \/ DoGetRUnlock(The) \/ LoadError(The) \/ ContainsDefer(The) \/ RangeEnd(The)
         \/ RemoveOldestEmpty(The) \/ RemoveMissing(The)
  PROVE  AbstractStep
<1> USE LRUAssumption, ResumeCases, Alone, AloneFacts
    DEF ThreadTypeOK, Locals, At, Goto, AddPc, RemovePc, EvictPc, KeyOps, Operations, client,
        Answer, Applied, Pending, CallInv, CallerInv
<1>1. Kept' = Kept
  <2>1. queue' = queue /\ heap' = heap
    BY DEF list, DoGetRUnlock, LoadError, ContainsDefer, RangeEnd, RemoveOldestEmpty,
           RemoveMissing
  <2>. QED  BY <2>1, KeptSame
<1>2. ASSUME DoGetRUnlock(The) PROVE AbstractStep
  <2>1. /\ pc[The] = "doGet.locked" /\ loc[The].key \in Key
        /\ loc[The].frame \in {"Get", "Take", "Do"} /\ loc[The].op \in {"Get", "Take"}
    BY <1>2 DEF DoGetRUnlock
  <2>2. CASE items[loc[The].key] # Nil \/ loc[The].frame # "Get"
    <3>1. Answer' = Answer /\ Request' = Request
      BY <1>2, <2>1, <2>2 DEF DoGetRUnlock, Request
    <3>. QED  BY <1>1, <3>1 DEF AbstractStep
  <2>3. CASE items[loc[The].key] = Nil /\ loc[The].frame = "Get"
    <3>1. Answer' = NoResult /\ ~Applied /\ Applied' /\ loc[The].op = "Get"
      BY <1>2, <2>1, <2>3 DEF DoGetRUnlock
    <3>2. pc[The] \notin MidPc /\ ~Full
      BY <2>1 DEF MidPc, AloneInv
    <3>3. Request.op = "Get" /\ Request.key = loc[The].key /\ Request' = Abstract!NoCall
      BY <3>1, RequestIs, RequestDone
    <3>4. Abstract!Miss
      BY <1>1, <2>1, <2>3, <3>1, <3>2, <3>3, MissOf
    <3>. QED  BY <3>4 DEF AbstractStep, Abstract!Next
  <2>. QED  BY <2>2, <2>3
<1>3. ASSUME LoadError(The) PROVE AbstractStep
  <2>1. /\ pc[The] = "load" /\ loc[The].key \in Key
        /\ loc[The].frame = "Do" /\ loc[The].op = "Take" /\ loc[The].val = Nil
    BY <1>3 DEF LoadError
  <2>2. Answer' = NoResult /\ ~Applied /\ Applied'
    BY <1>3, <2>1 DEF LoadError, NoResult
  <2>3. pc[The] \notin MidPc /\ ~Full /\ items[loc[The].key] = Nil
    BY <2>1 DEF MidPc, AloneInv
  <2>4. Request.op = "Take" /\ Request.key = loc[The].key /\ Request' = Abstract!NoCall
    BY <2>1, <2>2, RequestIs, RequestDone
  <2>5. Abstract!LoadError
    BY <1>1, <2>1, <2>2, <2>3, <2>4, MissOf
  <2>. QED  BY <2>5 DEF AbstractStep, Abstract!Next
<1>4. ASSUME ContainsDefer(The) PROVE AbstractStep
  <2>1. pc[The] = "Contains.locked" /\ loc[The].key \in Key /\ loc[The].op = "Contains"
    BY <1>4 DEF ContainsDefer
  <2>2. Answer' = [ok |-> items[loc[The].key] # Nil, val |-> Nil] /\ ~Applied /\ Applied'
    BY <1>4, <2>1 DEF ContainsDefer
  <2>3. pc[The] \notin MidPc /\ ~Full
    BY <2>1 DEF MidPc, AloneInv
  <2>4. loc[The].key \in Abstract!Keys <=> items[loc[The].key] # Nil
    BY <2>1, <2>3, SameKeys
  <2>5. Request.op = "Contains" /\ Request.key = loc[The].key /\ Request' = Abstract!NoCall
    BY <2>1, <2>2, RequestIs, RequestDone
  <2>6. Abstract!Contains
    BY <1>1, <2>2, <2>4, <2>5 DEF Abstract!Contains, Abstract!Found, Abstract!Reply
  <2>. QED  BY <2>6 DEF AbstractStep, Abstract!Next
<1>5. ASSUME RangeEnd(The) PROVE AbstractStep
  <2>1. Answer' = [ok |-> TRUE, val |-> Nil] /\ loc'[The].op = "none"
    BY <1>5 DEF RangeEnd, Return, NoLocals, IndInv, TypeOK, ClientTypeOK
  <2>2. loc[The].op \in {"Keys", "Range"} /\ ~Applied
    BY <1>5 DEF RangeEnd
  <2>3. Request.op \in {"Keys", "Range"} /\ Request' = Abstract!NoCall
    BY <2>1, <2>2, RequestIs, RequestDone
  <2>4. Abstract!Walk
    BY <1>1, <2>1, <2>3 DEF Abstract!Walk, Abstract!Reply
  <2>. QED  BY <2>4 DEF AbstractStep, Abstract!Next
<1>6. ASSUME RemoveOldestEmpty(The) PROVE AbstractStep
  <2>1. pc[The] = "RemoveOldest" /\ len = 0
    BY <1>6 DEF RemoveOldestEmpty
  <2>2. queue \in Seq(Elem) /\ Len(queue) = 0 /\ ~Full
    BY <2>1, Settled DEF MidPc, Full
  <2>3. loc[The].op = "RemoveOldest"
    BY <2>1, <2>2 DEF AloneInv
  <2>4. Answer' = [ok |-> TRUE, val |-> Nil] /\ ~Applied /\ Applied'
    BY <1>6, <2>1, <2>3 DEF RemoveOldestEmpty
  <2>5. Kept = <<>>
    BY <2>2, EmptySeq, SMT DEF Kept, Entries, Full
  <2>6. Request.op = "RemoveOldest" /\ Request' = Abstract!NoCall
    BY <2>3, <2>4, RequestIs, RequestDone
  <2>7. Abstract!RemoveOldest
    BY <1>1, <2>4, <2>5, <2>6 DEF Abstract!RemoveOldest, Abstract!Reply
  <2>. QED  BY <2>7 DEF AbstractStep, Abstract!Next
<1>7. ASSUME RemoveMissing(The) PROVE AbstractStep
  <2>1. pc[The] = "Remove.locked" /\ items[loc[The].vic] = Nil
    BY <1>7 DEF RemoveMissing
  <2>2. loc[The].op = "Remove"
    BY <2>1, LastEntry, Settled DEF AloneInv, MidPc
  <2>3. loc[The].vic = loc[The].key /\ loc[The].key \in Key
    BY <2>1, <2>2
  <2>4. Answer' = [ok |-> TRUE, val |-> Nil] /\ ~Applied /\ Applied'
    BY <1>7, <2>1, <2>2 DEF RemoveMissing
  <2>5. pc[The] \notin MidPc /\ ~Full
    BY <2>1, <2>2 DEF MidPc, AloneInv
  <2>6. Abstract!Without(loc[The].key) = Kept
    BY <2>1, <2>3, <2>5, SameKeys
  <2>7. Request.op = "Remove" /\ Request.key = loc[The].key /\ Request' = Abstract!NoCall
    BY <2>2, <2>4, RequestIs, RequestDone
  <2>8. Abstract!Remove
    BY <1>1, <2>4, <2>6, <2>7 DEF Abstract!Remove, Abstract!Reply
  <2>. QED  BY <2>8 DEF AbstractStep, Abstract!Next
<1>. QED  BY <1>2, <1>3, <1>4, <1>5, <1>6, <1>7

LEMMA ExistingStep ==
  ASSUME IndInv, IndInv', CallInv, AloneInv, AddExisting(The)
  PROVE  AbstractStep
<1> USE LRUAssumption, ResumeCases, Alone
    DEF Goto, AddPc, RemovePc, EvictPc, KeyOps, Operations
<1>1. PICK e, k, v, n : /\ k = loc[The].key /\ v = loc[The].val /\ e = items[k]
                        /\ n = IndexIn(queue, e)
  OBVIOUS
<1>2. /\ pc[The] = "Add.locked" /\ res' = res /\ loc' = loc /\ ~Full
      /\ pc' = [pc EXCEPT ![The] = Resume(loc[The].frame)]
      /\ heap' = [heap EXCEPT ![e].value = v]
      /\ loc[The].op \in {"Add", "Get", "Take"}
      /\ pc \in [Threads -> Labels] /\ heap \in [Elem -> Record]
  BY <1>1, AloneFacts
  DEF AddExisting, At, AloneInv, CallInv, client, ThreadTypeOK, ListTypeOK, Record
<1>3. k \in Key /\ e # Nil /\ e \in Elem /\ Len(queue') = Len(queue)
  BY <1>1, <1>2, ExistingAdded, Place DEF MidPc
<1>4. Entries' = <<[key |-> k, value |-> v]>> \o RemoveAt(Entries, n)
  BY <1>1, ExistingAdded
<1>5. Kept' = Entries'
  BY <1>2, <1>3 DEF Kept, Full
<1>6. Entries' = Abstract!Bounded(<<[key |-> k, value |-> v]>> \o RemoveAt(Entries, n))
  <2>1. PICK s : s = <<[key |-> k, value |-> v]>> \o RemoveAt(Entries, n)
    OBVIOUS
  <2>2. Len(s) = Len(queue) /\ Len(queue) \in Nat
    <3>1. ListTypeOK /\ ListTypeOK'
      BY DEF IndInv, TypeOK
    <3>2. Len(Entries') = Len(queue')
      BY <3>1, NextEntries
    <3>. QED  BY <1>3, <1>4, <2>1, <3>1, <3>2, EntriesType
  <2>. QED  BY <1>2, <1>4, <2>1, <2>2 DEF Abstract!Bounded, Full
<1>7. /\ Abstract!Without(k) = RemoveAt(Entries, n) /\ k \in Abstract!Keys
      /\ Abstract!Value(k) = heap[e].value
  BY <1>1, <1>2, <1>3, SameKeys DEF MidPc
<1>8. Abstract!Put(k, v)
  BY <1>5, <1>6, <1>7 DEF Abstract!Put
<1>9. CASE loc[The].op = "Add"
  <2>1. v \in Val /\ pc'[The] = "return"
    BY <1>1, <1>2, <1>9 DEF CallInv
  <2>2. Answer' = [ok |-> TRUE, val |-> Nil] /\ ~Applied /\ Applied'
    BY <1>2, <1>9, <2>1 DEF Answer, Applied, Pending
  <2>3. /\ Request.op = "Add" /\ Request.key = k /\ Request.val = v
        /\ Request' = Abstract!NoCall
    BY <1>1, <1>9, <2>2, RequestIs, RequestDone
  <2>4. Abstract!Add
    BY <1>8, <2>2, <2>3 DEF Abstract!Add, Abstract!Reply
  <2>. QED  BY <2>4 DEF AbstractStep, Abstract!Next
<1>10. CASE loc[The].op \in {"Get", "Take"}
  <2>1. loc[The].frame \in {"Get", "Take"} /\ (loc[The].frame = "Take" <=> loc[The].op = "Take")
    BY <1>1, <1>2, <1>3, <1>10 DEF CallInv, AloneInv
  <2>2. loc[The].ent = e /\ v = heap[e].value
    BY <1>1, <1>2, <2>1 DEF AloneInv
  <2>3. heap'[e].value = v
    BY <1>2, <1>3 DEF Record
  <2>4. pc'[The] \in {"Get.hit", "Take.hit"} /\ (pc'[The] = "Take.hit" <=> loc[The].op = "Take")
    BY <1>2, <2>1
  <2>5. Answer' = [ok |-> TRUE, val |-> v] /\ ~Applied /\ Applied'
    BY <1>2, <1>10, <2>1, <2>2, <2>3, <2>4 DEF Answer, Applied, Pending
  <2>6. Request.op = loc[The].op /\ Request.key = k /\ Request' = Abstract!NoCall
    BY <1>1, <1>10, <2>5, RequestIs, RequestDone
  <2>7. Abstract!Hit
    BY <1>7, <1>8, <1>10, <2>2, <2>5, <2>6 DEF Abstract!Hit, Abstract!Found, Abstract!Reply
  <2>. QED  BY <2>7 DEF AbstractStep, Abstract!Next
<1>. QED  BY <1>2, <1>9, <1>10

LEMMA LinkStep ==
  ASSUME IndInv, IndInv', CallInv, AloneInv, AddLink(The)
  PROVE  AbstractStep
<1> USE LRUAssumption, Alone DEF Goto, AddPc, RemovePc, EvictPc, KeyOps, Operations
<1>1. PICK k, v : k = loc[The].key /\ v = loc[The].val
  OBVIOUS
<1>2. /\ pc[The] = "Add.locked" /\ ~Full
      /\ loc[The].op \in {"Add", "Get", "Take"}
      /\ pc'[The] = "Add.linked" /\ items[k] = Nil
      /\ loc'[The].op = loc[The].op /\ loc'[The].frame = loc[The].frame
      /\ loc'[The].val = v
  <2>1. PICK e : e = CHOOSE x \in Free : TRUE
    OBVIOUS
  <2>2. /\ pc[The] = "Add.locked" /\ pc' = [pc EXCEPT ![The] = "Add.linked"]
        /\ items[k] = Nil /\ loc' = [loc EXCEPT ![The].elem = e]
    BY <1>1, <2>1 DEF AddLink, At
  <2>. QED
    BY <1>1, <2>2, AloneFacts DEF AloneInv, CallInv, ThreadTypeOK, Locals
<1>3. loc[The].op = "Add" \/ (loc[The].op = "Take" /\ loc[The].frame = "Load")
  BY <1>2, NotTaken, <1>1 DEF CallInv
<1>4. k \in Key /\ v \in Val
  BY <1>1, <1>2, <1>3 DEF CallInv
<1>5. Entries' = <<[key |-> k, value |-> v]>> \o Entries
  BY <1>1, LinkAdded
<1>6. Kept' = Abstract!Bounded(<<[key |-> k, value |-> v]>> \o Entries)
  <2>1. ListTypeOK'
    BY DEF IndInv, TypeOK
  <2>2. Len(Entries') = Len(queue')
    BY <2>1, NextEntries
  <2>3. PICK s : s = <<[key |-> k, value |-> v]>> \o Entries
    OBVIOUS
  <2>4. Evicting'
    BY <1>2, <1>3 DEF Evicting
  <2>. QED  BY <1>5, <2>2, <2>3, <2>4 DEF Kept, Abstract!Bounded
<1>7. Abstract!Without(k) = Entries /\ k \notin Abstract!Keys
  BY <1>2, <1>4, SameKeys DEF MidPc
<1>8. Abstract!Put(k, v)
  BY <1>6, <1>7 DEF Abstract!Put
<1>9. CASE loc[The].op = "Add"
  <2>1. Answer' = [ok |-> TRUE, val |-> Nil] /\ ~Applied /\ Applied'
    BY <1>2, <1>9 DEF Answer, Applied, Pending
  <2>2. /\ Request.op = "Add" /\ Request.key = k /\ Request.val = v
        /\ Request' = Abstract!NoCall
    BY <1>1, <1>9, <2>1, RequestIs, RequestDone
  <2>3. Abstract!Add
    BY <1>8, <2>1, <2>2 DEF Abstract!Add, Abstract!Reply
  <2>. QED  BY <2>3 DEF AbstractStep, Abstract!Next
<1>10. CASE loc[The].op = "Take" /\ loc[The].frame = "Load"
  <2>1. Answer' = [ok |-> TRUE, val |-> v] /\ ~Applied /\ Applied'
    BY <1>2, <1>4, <1>10 DEF Answer, Applied, Pending
  <2>2. Request.op = "Take" /\ Request.key = k /\ Request' = Abstract!NoCall
    BY <1>1, <1>10, <2>1, RequestIs, RequestDone
  <2>3. Abstract!Load
    BY <1>4, <1>7, <1>8, <2>1, <2>2 DEF Abstract!Load, Abstract!Found, Abstract!Reply
  <2>. QED  BY <2>3 DEF AbstractStep, Abstract!Next
<1>. QED  BY <1>3, <1>9, <1>10

LEMMA UnlinkStep ==
  ASSUME IndInv, CallInv, AloneInv, RemoveUnlink(The)
  PROVE  AbstractStep
<1> USE LRUAssumption, Alone DEF Goto, AddPc, RemovePc, EvictPc, KeyOps, Operations
<1>1. PICK k, n : k = loc[The].vic /\ n = IndexIn(queue, items[k])
  OBVIOUS
<1>2. /\ pc[The] = "Remove.locked" /\ items[k] # Nil
      /\ loc[The].op \in {"Add", "Take", "Remove", "RemoveOldest"}
      /\ pc'[The] = "Remove.unlinked"
      /\ loc'[The].op = loc[The].op /\ loc'[The].frame = loc[The].frame
      /\ loc'[The].val = loc[The].val
  <2>1. PICK e : e = items[k]
    OBVIOUS
  <2>2. /\ pc[The] = "Remove.locked" /\ pc' = [pc EXCEPT ![The] = "Remove.unlinked"]
        /\ items[k] # Nil /\ loc' = [loc EXCEPT ![The].elem = e]
    BY <1>1, <2>1 DEF RemoveUnlink, At
  <2>. QED
    BY <2>2, AloneFacts DEF CallInv, ThreadTypeOK, Locals
<1>3. k \in Key /\ Len(queue') = Len(queue) - 1 /\ Entries' = RemoveAt(Entries, n)
  BY <1>1, EntryUnlinked
<1>4. /\ Len(queue) \in Nat /\ Entries \in Seq(Record) /\ Len(Entries) = Len(queue)
      /\ queue \in Seq(Elem)
  BY AloneFacts, EntriesType DEF ListTypeOK
<1>5. Full => Len(queue) = Size + 1 /\ loc[The].op \in {"Add", "Take"}
  BY DEF AloneInv
<1>6. Kept' = Entries'
  BY <1>3, <1>4, <1>5 DEF Kept, Full
\* An eviction unlinks the last entry.
<1>7. ASSUME loc[The].op # "Remove"
      PROVE  /\ n = Len(queue) /\ Len(queue) > 0
             /\ Entries' = SubSeq(Entries, 1, Len(queue) - 1)
  <2>1. queue # <<>> /\ k = heap[Last(queue)].key
    BY <1>1, <1>2, <1>7 DEF AloneInv
  <2>2. /\ Len(queue) \in 1 .. Len(queue) /\ items[k] = queue[Len(queue)]
    BY <1>2, <2>1, LastEntry DEF MidPc
  <2>3. n \in 1 .. Len(queue) /\ queue[n] = items[k]
    BY <1>1, <1>2, <1>3, Place DEF MidPc
  <2>4. n = Len(queue)
    BY <1>2, <2>2, <2>3, Settled DEF MidPc, Distinct
  <2>5. Entries # <<>>
    BY <1>4, <2>2, EmptySeq
  <2>6. RemoveAt(Entries, Len(Entries)) = SubSeq(Entries, 1, Len(Entries) - 1)
    BY <1>4, <2>5, RemoveLast
  <2>. QED  BY <1>3, <1>4, <2>2, <2>4, <2>6
<1>8. CASE loc[The].op = "Remove"
  <2>1. k = loc[The].key /\ ~Full
    BY <1>1, <1>2, <1>5, <1>8 DEF CallInv
  <2>2. Abstract!Without(k) = RemoveAt(Entries, n)
    BY <1>1, <1>2, <1>3, <2>1, SameKeys DEF MidPc
  <2>3. Answer' = [ok |-> TRUE, val |-> Nil] /\ ~Applied /\ Applied'
    BY <1>2, <1>8 DEF Answer, Applied, Pending
  <2>4. Request.op = "Remove" /\ Request.key = k /\ Request' = Abstract!NoCall
    BY <1>8, <2>1, <2>3, RequestIs, RequestDone
  <2>5. Abstract!Remove
    BY <1>3, <1>6, <2>2, <2>3, <2>4 DEF Abstract!Remove, Abstract!Reply
  <2>. QED  BY <2>5 DEF AbstractStep, Abstract!Next
<1>9. CASE loc[The].op = "RemoveOldest"
  <2>1. Kept = Entries /\ Kept # <<>>
    BY <1>4, <1>5, <1>7, <1>9, EmptySeq DEF Kept, Full
  <2>2. Answer' = [ok |-> TRUE, val |-> Nil] /\ ~Applied /\ Applied'
    BY <1>2, <1>9 DEF Answer, Applied, Pending
  <2>3. Kept' = SubSeq(Kept, 1, Len(Kept) - 1)
    BY <1>4, <1>6, <1>7, <1>9, <2>1
  <2>4. Request.op = "RemoveOldest" /\ Request' = Abstract!NoCall
    BY <1>9, <2>2, RequestIs, RequestDone
  <2>5. Abstract!RemoveOldest
    BY <2>1, <2>2, <2>3, <2>4 DEF Abstract!RemoveOldest, Abstract!Reply
  <2>. QED  BY <2>5 DEF AbstractStep, Abstract!Next
<1>10. CASE loc[The].op \in {"Add", "Take"}
  <2>1. Full /\ Len(queue) = Size + 1
    BY <1>2, <1>5, <1>10 DEF AloneInv
  <2>2. Kept = SubSeq(Entries, 1, Size) /\ Len(queue) - 1 = Size
    BY <1>2, <1>10, <2>1 DEF Kept, Full, Evicting
  <2>3. Kept' = Kept
    BY <1>6, <1>7, <1>10, <2>2
  <2>4. loc[The].op = "Take" => loc[The].frame = "Load"
    BY <1>2 DEF CallInv
  <2>5. Answer' = Answer /\ Request' = Request
    BY <1>2, <1>10, <2>4 DEF Answer, Applied, Pending, Request
  <2>. QED  BY <2>3, <2>5 DEF AbstractStep
<1>. QED  BY <1>2, <1>8, <1>9, <1>10

-----------------------------------------------------------------------------
LEMMA Implements ==
  ASSUME IndInv, IndInv', CallInv, CallInv', AloneInv, AloneInv', NoOldest, [Next]_vars
  PROVE  AbstractStep
<1>0. CASE \E op \in Ops, k \in Key \cup {Nil}, v \in Val \cup {Nil} : Call(The, op, k, v)
  BY <1>0, BeginStep DEF AbstractStep, Abstract!Next
<1>1. CASE \/ ReturnTrue(The) \/ GetHit(The) \/ GetMiss(The) \/ TakeReturn(The)
           \/ ContainsReturn(The)
           \/ AddLock(The) \/ AddUnlock(The) \/ AddCheck(The)
           \/ RemoveOldestBack(The) \/ RemoveLock(The) \/ RemoveUnlock(The) \/ OnRemove(The)
           \/ DoGetRLock(The) \/ DoGetValue(The) \/ DoLead(The) \/ Load(The) \/ DoEnd(The)
           \/ ContainsRLock(The) \/ RangeBack(The) \/ RangeVisit(The) \/ RangePrev(The)
  <2>1. Kept' = Kept /\ Request' = Request /\ Answer' = Answer
    BY <1>1, QuietStep
  <2>. QED  BY <2>1 DEF AbstractStep
<1>2. CASE \/ DoGetRUnlock(The) \/ LoadError(The) \/ ContainsDefer(The) \/ RangeEnd(The)
           \/ RemoveOldestEmpty(The) \/ RemoveMissing(The)
  BY <1>2, ReadStep
<1>3. CASE AddExisting(The)
  BY <1>3, ExistingStep
<1>4. CASE AddLink(The)
  BY <1>4, LinkStep
<1>5. CASE RemoveUnlink(The)
  BY <1>5, UnlinkStep
<1>6. CASE UNCHANGED vars \/ BackIsRoot(The)
  <2>1. queue' = queue /\ heap' = heap /\ pc' = pc /\ loc' = loc /\ res' = res
    BY <1>6 DEF vars, list, client, BackIsRoot
  <2>2. Kept' = Kept
    BY <2>1, KeptSame
  <2>3. Answer' = Answer /\ Request' = Request
    BY <2>1 DEF Answer, Applied, Pending, Request
  <2>. QED  BY <2>2, <2>3 DEF AbstractStep
<1>7. ~DoJoin(The) /\ ~DoHit(The) /\ ~GetOldest(The)
  <2>1. ~DoJoin(The)
    BY NotTaken DEF DoJoin, At
  <2>2. loc[The].op \in Operations
    BY AloneFacts
  <2>3. pc[The] \notin {"Do.hit", "GetOldest"}
    BY <2>2, AloneFacts DEF CallInv, Operations, AddPc, RemovePc, EvictPc
  <2>. QED  BY <2>1, <2>3 DEF DoHit, GetOldest, At
<1>. QED
  BY <1>0, <1>1, <1>2, <1>3, <1>4, <1>5, <1>6, <1>7, Alone DEF Next, Step, Stopped

LEMMA AloneInitially ==
  ASSUME Init
  PROVE  CallInv /\ AloneInv /\ Abstract!Init
<1> USE LRUAssumption, Alone
<1>1. pc[The] = "idle" /\ loc[The] = NoLocals /\ queue = <<>> /\ res[The] = NoResult
  BY DEF Init
<1>2. CallInv
  BY <1>1 DEF CallInv, NoLocals, KeyOps
<1>3. ~Full
  BY <1>1, EmptySeq DEF Full
<1>4. AloneInv
  BY <1>1, <1>3 DEF AloneInv, NoLocals
<1>5. Kept = <<>>
  BY <1>1, <1>3 DEF Kept, Entries, Full
<1>6. Answer = NoResult
  BY <1>1 DEF Answer, Applied, NoLocals
<1>7. Request = Abstract!NoCall
  BY <1>1 DEF Request, NoLocals, Abstract!NoCall
<1>. QED  BY <1>2, <1>4, <1>5, <1>6, <1>7 DEF Abstract!Init, NoResult

\* The refinement: each call that one goroutine makes of the cache, in lru.go,
\* takes effect exactly once, as the operation of that name on that key and
\* value, on an exact LRU cache: the entries, their values, their order, which
\* one is evicted and when, and what the call returns.
THEOREM Exact == ASSUME NoOldest PROVE Spec => ExactLRU
<1>1. Init => IndInv /\ CallInv /\ AloneInv /\ Abstract!Init
  BY Initially, AloneInitially
<1>2. ASSUME IndInv, CallInv, AloneInv, [Next]_vars
      PROVE  IndInv' /\ CallInv' /\ AloneInv' /\ AbstractStep
  <2>1. IndInv'
    BY <1>2, Inductive
  <2>2. CallInv'
    BY <1>2, CallStep
  <2>3. AloneInv'
    BY <1>2, <2>2, AloneStep
  <2>4. AbstractStep
    BY <1>2, <2>1, <2>2, <2>3, Implements
  <2>. QED  BY <2>1, <2>2, <2>3, <2>4
<1>. QED  BY <1>1, <1>2, PTL DEF Spec, ExactLRU, Abstract!Spec, AbstractStep
-----------------------------------------------------------------------------
(* Keys: what Range has collected on its way from the back of the list.   *)

\* The keys of the entries from the last one up to the m-th.
Collected(m) == [i \in 1 .. Len(queue) + 1 - m |-> heap[queue[Len(queue) + 1 - i]].key]

Walking == {"Range.visit", "Range.prev", "Range.end"}

\* What Keys has collected when it has come to an element.
WalkInv ==
  LET l == loc[The] at == pc[The] IN
  /\ at \notin Walking => seen[The] = <<>>
  /\ l.op = "Keys" /\ at = "Range.visit" =>
       \E m \in 1 .. Len(queue) : l.ent = queue[m] /\ seen[The] = Collected(m + 1)
  /\ l.op = "Keys" /\ at = "Range.prev" =>
       \E m \in 1 .. Len(queue) : l.ent = queue[m] /\ seen[The] = Collected(m)
  /\ l.op = "Keys" /\ at = "Range.end" => seen[The] = Collected(1)

\* The key of the m-th entry comes after those of the entries behind it.
LEMMA CollectOne ==
  ASSUME IndInv, pc[The] \notin MidPc, NEW m \in 1 .. Len(queue)
  PROVE  Append(Collected(m + 1), heap[queue[m]].key) = Collected(m)
<1>1. PICK q, h : q = queue /\ h = heap
  OBVIOUS
<1>2. q \in Seq(Elem) /\ Len(q) \in Nat /\ \A i \in 1 .. Len(q) : h[q[i]].key \in Key
  BY <1>1, Settled
<1>3. PICK f, g : f = Collected(m + 1) /\ g = Collected(m)
  OBVIOUS
<1>4. PICK n : n = Len(q) - m
  OBVIOUS
<1>5. n \in Nat /\ Len(q) + 1 - (m + 1) = n /\ Len(q) + 1 - m = n + 1 /\ Len(q) + 1 - (n + 1) = m
  BY <1>1, <1>2, <1>4
<1>6. /\ f = [i \in 1 .. n |-> h[q[Len(q) + 1 - i]].key]
      /\ g = [i \in 1 .. n + 1 |-> h[q[Len(q) + 1 - i]].key]
  BY <1>1, <1>3, <1>5 DEF Collected
<1>7. \A i \in 1 .. n + 1 : Len(q) + 1 - i \in 1 .. Len(q)
  BY <1>1, <1>2, <1>4
<1>8. f \in Seq(Key) /\ Len(f) = n
  <2>1. f \in [1 .. n -> Key]
    BY <1>2, <1>5, <1>6, <1>7
  <2>. QED  BY <1>5, <2>1, IsASeq, LenProperties
<1>9. g \in Seq(Key) /\ Len(g) = n + 1
  <2>1. g \in [1 .. n + 1 -> Key]
    BY <1>2, <1>5, <1>6, <1>7
  <2>. QED  BY <1>5, <2>1, IsASeq, LenProperties
<1>10. PICK x : x = h[q[m]].key
  OBVIOUS
<1>11. x \in Key /\ g[n + 1] = x
  BY <1>1, <1>2, <1>5, <1>6, <1>10
<1>12. /\ Append(f, x) \in Seq(Key) /\ Len(Append(f, x)) = n + 1
       /\ \A i \in 1 .. n : Append(f, x)[i] = f[i]
       /\ Append(f, x)[n + 1] = x
  BY <1>8, <1>11, AppendProperties
<1>13. \A i \in 1 .. n + 1 : Append(f, x)[i] = g[i]
  BY <1>5, <1>6, <1>11, <1>12
<1>14. Append(f, x) = g
  BY <1>9, <1>12, <1>13, SeqEqual
<1>. QED  BY <1>1, <1>3, <1>10, <1>14

\* The elements of the list in the steps of Keys: nothing else goes on.
LEMMA WalkStep ==
  ASSUME IndInv, CallInv, AloneInv, WalkInv, [Next]_vars
  PROVE  WalkInv'
<1> USE LRUAssumption, Alone, AloneFacts DEF ThreadTypeOK, Locals, At, Goto, Walking
<1>1. seen \in [Threads -> Seq(Key)]
  BY DEF IndInv, TypeOK, ClientTypeOK
<1>2. ASSUME pc[The] \notin Walking, pc'[The] \notin Walking, seen' = seen PROVE WalkInv'
  BY <1>2 DEF WalkInv
<1>3. ASSUME NEW r, Return(The, r) PROVE WalkInv'
  BY <1>1, <1>3 DEF WalkInv, Return
<1>4. CASE \E op \in Ops, k \in Key \cup {Nil}, v \in Val \cup {Nil} : Call(The, op, k, v)
  <2>1. PICK op \in Ops : pc[The] = "idle" /\ pc' = [pc EXCEPT ![The] = Entry[op]] /\ seen' = seen
    BY <1>4 DEF Call
  <2>2. Entry[op] \notin Walking
    BY DEF Entry, AllOps
  <2>. QED  BY <1>2, <2>1, <2>2
<1>5. CASE \/ ReturnTrue(The) \/ GetHit(The) \/ GetMiss(The) \/ TakeReturn(The)
           \/ GetOldest(The) \/ ContainsReturn(The) \/ RangeEnd(The)
  BY <1>3, <1>5 DEF ReturnTrue, GetHit, GetMiss, TakeReturn, GetOldest, ContainsReturn, RangeEnd
<1>6. CASE \/ AddLock(The) \/ AddExisting(The) \/ AddLink(The) \/ AddUnlock(The) \/ AddCheck(The)
           \/ RemoveOldestEmpty(The) \/ RemoveOldestBack(The) \/ RemoveLock(The)
           \/ RemoveMissing(The) \/ RemoveUnlink(The) \/ RemoveUnlock(The) \/ OnRemove(The)
  <2>1. PICK r : r = Resume(loc[The].frame)
    OBVIOUS
  <2>2. r \notin Walking
    BY <2>1 DEF Resume
  <2>3. pc[The] \notin Walking /\ pc'[The] \notin Walking /\ seen' = seen
    <3>1. CASE \/ AddLock(The) \/ AddExisting(The) \/ AddLink(The) \/ AddUnlock(The)
               \/ AddCheck(The) \/ RemoveOldestEmpty(The) \/ RemoveOldestBack(The)
      BY <2>1, <2>2, <3>1
      DEF client, AddLock, AddExisting, AddLink, AddUnlock, AddCheck, RemoveOldestEmpty,
          RemoveOldestBack
    <3>2. CASE \/ RemoveLock(The) \/ RemoveMissing(The) \/ RemoveUnlink(The)
               \/ RemoveUnlock(The) \/ OnRemove(The)
      BY <2>1, <2>2, <3>2
      DEF client, RemoveLock, RemoveMissing, RemoveUnlink, RemoveUnlock, OnRemove
    <3>. QED  BY <1>6, <3>1, <3>2
  <2>. QED  BY <1>2, <2>3
<1>7. CASE \/ DoGetRLock(The) \/ DoGetRUnlock(The) \/ DoGetValue(The) \/ DoLead(The)
           \/ DoJoin(The) \/ DoHit(The) \/ Load(The) \/ LoadError(The) \/ DoEnd(The)
           \/ ContainsRLock(The) \/ ContainsDefer(The)
  <2>1. pc[The] \notin Walking /\ pc'[The] \notin Walking /\ seen' = seen
    BY <1>7
    DEF client, DoGetRLock, DoGetRUnlock, DoGetValue, DoLead, DoJoin, DoHit, Load, LoadError,
        DoEnd, ContainsRLock, ContainsDefer
  <2>. QED  BY <1>2, <2>1
<1>8. CASE UNCHANGED vars \/ BackIsRoot(The)
  <2>1. queue' = queue /\ heap' = heap /\ pc' = pc /\ loc' = loc /\ seen' = seen
    BY <1>8 DEF vars, list, client, BackIsRoot
  <2>2. \A m : Collected(m)' = Collected(m)
    BY <2>1 DEF Collected
  <2>. QED  BY <2>1, <2>2 DEF WalkInv
<1>9. CASE RangeBack(The)
  <2>1. /\ pc[The] = "Range" /\ queue' = queue /\ heap' = heap /\ seen' = seen
        /\ seen[The] = <<>>
    BY <1>9 DEF RangeBack, list, client, WalkInv
  <2>2. queue \in Seq(Elem) /\ len = Len(queue) /\ Len(queue) \in Nat
    BY <2>1, Settled DEF MidPc
  <2>3. CASE len = 0
    <3>1. pc'[The] = "Range.end"
      BY <1>9, <2>3 DEF RangeBack
    <3>2. Collected(1) = <<>>
      BY <2>2, <2>3 DEF Collected
    <3>3. Collected(1)' = <<>>
      BY <2>1, <3>2 DEF Collected
    <3>. QED  BY <2>1, <3>1, <3>3 DEF WalkInv
  <2>4. CASE len # 0
    <3>1. pc'[The] = "Range.visit" /\ loc'[The].ent = Last(queue) /\ loc'[The].op = loc[The].op
      BY <1>9, <2>4 DEF RangeBack
    <3>2. Last(queue) = queue[Len(queue)] /\ Len(queue) \in 1 .. Len(queue)
      BY <2>2, <2>4 DEF Last
    <3>3. Collected(Len(queue) + 1) = <<>>
      BY <2>2 DEF Collected
    <3>4. Collected(Len(queue) + 1)' = <<>>
      BY <2>1, <3>3 DEF Collected
    <3>. QED  BY <2>1, <3>1, <3>2, <3>4 DEF WalkInv
  <2>. QED  BY <2>3, <2>4
<1>10. CASE RangeVisit(The)
  <2>1. /\ pc[The] = "Range.visit" /\ queue' = queue /\ heap' = heap /\ loc' = loc
        /\ seen'[The] = Append(seen[The], heap[loc[The].ent].key)
        /\ pc'[The] \in {"Range.prev", "Range.end"}
        /\ loc[The].op = "Keys" => pc'[The] = "Range.prev"
    BY <1>1, <1>10 DEF RangeVisit, list
  <2>2. ASSUME loc[The].op = "Keys"
        PROVE  \E m \in 1 .. Len(queue) : loc[The].ent = queue[m] /\ seen'[The] = Collected(m)
    <3>1. PICK m \in 1 .. Len(queue) : loc[The].ent = queue[m] /\ seen[The] = Collected(m + 1)
      BY <2>1, <2>2 DEF WalkInv
    <3>2. Append(Collected(m + 1), heap[queue[m]].key) = Collected(m)
      BY <2>1, CollectOne DEF MidPc
    <3>. QED  BY <2>1, <3>1, <3>2
  <2>3. \A m : Collected(m)' = Collected(m)
    BY <2>1 DEF Collected
  <2>. QED  BY <2>1, <2>2, <2>3 DEF WalkInv
<1>11. CASE RangePrev(The)
  <2>1. PICK e : e = Prev(queue, loc[The].ent)
    OBVIOUS
  <2>2. /\ pc[The] = "Range.prev" /\ queue' = queue /\ heap' = heap /\ seen' = seen
        /\ loc'[The].ent = e /\ loc'[The].op = loc[The].op
        /\ pc'[The] = IF e = Nil THEN "Range.end" ELSE "Range.visit"
    BY <1>11, <2>1 DEF RangePrev, list, client
  <2>3. \A m : Collected(m)' = Collected(m)
    BY <2>2 DEF Collected
  <2>4. CASE loc[The].op = "Keys"
    <3>1. PICK m \in 1 .. Len(queue) : loc[The].ent = queue[m] /\ seen[The] = Collected(m)
      BY <2>2, <2>4 DEF WalkInv
    <3>2. /\ queue \in Seq(Elem) /\ Len(queue) \in Nat /\ Distinct(queue)
          /\ DOMAIN queue = 1 .. Len(queue) /\ \A i \in 1 .. Len(queue) : queue[i] \in Elem
      BY <2>2, Settled DEF MidPc
    <3>3. IndexIn(queue, queue[m]) = m
      BY <3>2 DEF IndexIn, Distinct
    <3>4. queue[m] \in ToSet(queue)
      BY <3>2 DEF ToSet
    <3>5. e = IF m > 1 THEN queue[m - 1] ELSE Nil
      BY <2>1, <3>1, <3>3, <3>4 DEF Prev
    <3>6. CASE m = 1
      BY <2>2, <2>3, <3>1, <3>5, <3>6 DEF WalkInv
    <3>7. CASE m # 1
      <4>1. m - 1 \in 1 .. Len(queue) /\ e = queue[m - 1] /\ e # Nil /\ (m - 1) + 1 = m
        BY <3>2, <3>5, <3>7
      <4>2. \E n \in 1 .. Len(queue) : e = queue[n] /\ seen[The] = Collected(n + 1)
        BY <3>1, <4>1
      <4>. QED  BY <2>2, <2>3, <4>1, <4>2 DEF WalkInv
    <3>. QED  BY <3>6, <3>7
  <2>5. CASE loc[The].op # "Keys"
    BY <2>2, <2>5 DEF WalkInv
  <2>. QED  BY <2>4, <2>5
<1>. QED
  BY <1>4, <1>5, <1>6, <1>7, <1>8, <1>9, <1>10, <1>11 DEF Next, Step, Stopped

\* What Keys returns is the keys of the cache from the oldest to the newest.
THEOREM OldestFirst == ASSUME NoOldest PROVE Spec => []KeysInOrder
<1>1. Init => IndInv /\ CallInv /\ AloneInv /\ WalkInv
  <2>1. ASSUME Init PROVE WalkInv
    BY <2>1, LRUAssumption, Alone DEF Init, WalkInv, Walking, NoLocals
  <2>. QED  BY <2>1, Initially, AloneInitially
<1>2. ASSUME IndInv, CallInv, AloneInv, WalkInv, [Next]_vars
      PROVE  IndInv' /\ CallInv' /\ AloneInv' /\ WalkInv'
  <2>1. IndInv'
    BY <1>2, Inductive
  <2>2. CallInv'
    BY <1>2, CallStep
  <2>3. AloneInv'
    BY <1>2, <2>2, AloneStep
  <2>4. WalkInv'
    BY <1>2, WalkStep
  <2>. QED  BY <2>1, <2>2, <2>3, <2>4
<1>3. ASSUME IndInv, CallInv, AloneInv, WalkInv PROVE KeysInOrder
  <2> SUFFICES ASSUME pc[The] = "Range.end", loc[The].op = "Keys"
               PROVE  seen[The] = [i \in 1 .. Len(Kept) |-> Kept[Len(Kept) + 1 - i].key]
    BY DEF KeysInOrder
  <2>1. Kept = Entries
    BY DEF Kept, Evicting
  <2>2. PICK q, h, f : q = queue /\ h = heap /\ f = Entries
    OBVIOUS
  <2>3. q \in Seq(Elem) /\ h \in [Elem -> Record] /\ Len(q) \in Nat
    BY <1>3, <2>2, Settled, AloneFacts DEF MidPc, ListTypeOK, Record
  <2>4. f = View(q, h)
    BY <2>2 DEF Entries, View
  <2>5. Len(f) = Len(q) /\ \A i \in 1 .. Len(q) : f[i] = h[q[i]]
    BY <2>3, <2>4, ViewType
  <2>6. seen[The] = [i \in 1 .. Len(q) + 1 - 1 |-> h[q[Len(q) + 1 - i]].key]
    BY <1>3, <2>2 DEF WalkInv, Collected
  <2>7. Len(q) + 1 - 1 = Len(q) /\ \A i \in 1 .. Len(q) : Len(q) + 1 - i \in 1 .. Len(q)
    BY <2>3
  <2>8. \A i \in 1 .. Len(q) : h[q[Len(q) + 1 - i]].key = f[Len(f) + 1 - i].key
    BY <2>5, <2>7
  <2>9. seen[The] = [i \in 1 .. Len(f) |-> f[Len(f) + 1 - i].key]
    BY <2>5, <2>6, <2>7, <2>8
  <2>. QED  BY <2>1, <2>2, <2>9
<1>. QED  BY <1>1, <1>2, <1>3, PTL DEF Spec
=============================================================================
