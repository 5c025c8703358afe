------------------------------ MODULE LRUProofs ------------------------------
(***************************************************************************)
(* The concurrent cache of LRU.tla keeps its list, map, lock and callback  *)
(* invariants for any number of goroutines, keys, elements and calls, and  *)
(* LRUHistory.tla's promises: what an Add or a Remove that met no rival    *)
(* has done stays done until the next writer of its key.                   *)
(* IndInv (LRUInvariant.tla) is inductive: one lemma per conjunct, with    *)
(* one step per action.                                                    *)
(***************************************************************************)
EXTENDS LRUHistory, SequenceTheorems, TLAPS

-----------------------------------------------------------------------------
(* The list under its five updates: facts about the sequence of addresses, *)
(* and that every step keeps ListInv and ListTypeOK.                       *)

\* No address twice in a list.
Distinct(q) == \A i, j \in DOMAIN q : q[i] = q[j] => i = j

\* Taking an address out of a list leaves the others, in place.
LEMMA UnlinkedProperties ==
  ASSUME NEW q \in Seq(Elem), NEW e \in Elem, NEW n \in DOMAIN q, q[n] = e,
         Distinct(q)
  PROVE  /\ Unlinked(q, e) \in Seq(Elem)
         /\ Len(Unlinked(q, e)) = Len(q) - 1
         /\ Distinct(Unlinked(q, e))
         /\ \A i \in DOMAIN Unlinked(q, e) :
              Unlinked(q, e)[i] # e /\ \E j \in DOMAIN q : Unlinked(q, e)[i] = q[j]
         /\ \A j \in DOMAIN q : q[j] # e => \E i \in DOMAIN Unlinked(q, e) : Unlinked(q, e)[i] = q[j]
<1> DEFINE a == SubSeq(q, 1, n - 1)
           b == SubSeq(q, n + 1, Len(q))
           u == Unlinked(q, e)
<1>1. n \in 1 .. Len(q) /\ Len(q) \in Nat /\ DOMAIN q = 1 .. Len(q)
  BY LenProperties
<1>2. IndexIn(q, e) = n
  BY DEF IndexIn, Distinct
<1>3. u = a \o b
  BY <1>2 DEF Unlinked, RemoveAt
<1>4. /\ a \in Seq(Elem) /\ Len(a) = n - 1
      /\ \A i \in 1 .. n - 1 : a[i] = q[i]
  <2>1. \A i \in 1 .. n - 1 : q[i] \in Elem
    BY <1>1, ElementOfSeq
  <2>. QED  BY <1>1, <2>1, SubSeqProperties
<1>5. /\ b \in Seq(Elem) /\ Len(b) = Len(q) - n
      /\ \A i \in 1 .. Len(q) - n : b[i] = q[n + i]
  <2>1. \A i \in n + 1 .. Len(q) : q[i] \in Elem
    BY <1>1, ElementOfSeq
  <2>2. /\ b \in Seq(Elem)
        /\ Len(b) = IF n + 1 <= Len(q) THEN Len(q) - (n + 1) + 1 ELSE 0
        /\ \A i \in 1 .. Len(q) - (n + 1) + 1 : b[i] = q[n + 1 + i - 1]
    BY <1>1, <2>1, SubSeqProperties
  <2>. QED  BY SMTT(40), <1>1, <2>2
<1> HIDE DEF a, b, u
<1>6. /\ u \in Seq(Elem) /\ Len(u) = Len(q) - 1
      /\ \A i \in 1 .. Len(q) - 1 : u[i] = IF i < n THEN q[i] ELSE q[i + 1]
  <2>1. /\ u \in Seq(Elem) /\ Len(u) = Len(a) + Len(b)
        /\ \A i \in 1 .. Len(a) + Len(b) : u[i] = IF i <= Len(a) THEN a[i] ELSE b[i - Len(a)]
    <3>1. /\ a \o b \in Seq(Elem) /\ Len(a \o b) = Len(a) + Len(b)
          /\ \A i \in 1 .. Len(a) + Len(b) :
               (a \o b)[i] = IF i <= Len(a) THEN a[i] ELSE b[i - Len(a)]
      BY <1>4, <1>5, ConcatProperties
    <3>. QED  BY <1>3, <3>1
  <2>2. Len(a) + Len(b) = Len(q) - 1
    BY <1>1, <1>4, <1>5
  <2>3. ASSUME NEW i \in 1 .. Len(q) - 1, i < n PROVE u[i] = q[i]
    BY <1>1, <1>4, <2>1, <2>2, <2>3
  <2>4. ASSUME NEW i \in 1 .. Len(q) - 1, ~(i < n) PROVE u[i] = q[i + 1]
    <3>1. u[i] = b[i - (n - 1)]
      BY <1>1, <1>4, <2>1, <2>2, <2>4
    <3>2. i - (n - 1) \in 1 .. Len(q) - n /\ n + (i - (n - 1)) = i + 1
      BY <1>1, <2>4
    <3>. QED  BY <1>5, <3>1, <3>2
  <2>. QED  BY <2>1, <2>2, <2>3, <2>4
<1>7. DOMAIN u = 1 .. Len(q) - 1
  BY <1>6, LenProperties
<1>8. Distinct(u)
  BY SMTT(40), <1>1, <1>6, <1>7 DEF Distinct
<1>9. ASSUME NEW i \in DOMAIN u PROVE u[i] # e /\ \E j \in DOMAIN q : u[i] = q[j]
  BY SMTT(40), <1>1, <1>6, <1>7 DEF Distinct
<1>10. ASSUME NEW j \in DOMAIN q, q[j] # e PROVE \E i \in DOMAIN u : u[i] = q[j]
  <2>1. CASE j < n
    <3>1. j \in DOMAIN u /\ u[j] = q[j]
      BY <1>1, <1>6, <1>7, <2>1
    <3>. QED  BY <3>1
  <2>2. CASE j > n
    <3>1. j - 1 \in DOMAIN u /\ u[j - 1] = q[j]
      BY <1>1, <1>6, <1>7, <2>2
    <3>. QED  BY <3>1
  <2>. QED  BY <1>1, <1>10, <2>1, <2>2
<1>. QED  BY <1>6, <1>8, <1>9, <1>10 DEF u

\* A new address in front of a list.
LEMMA PushFrontProperties ==
  ASSUME NEW q \in Seq(Elem), NEW e \in Elem, Distinct(q), \A i \in DOMAIN q : q[i] # e
  PROVE  /\ <<e>> \o q \in Seq(Elem)
         /\ Len(<<e>> \o q) = Len(q) + 1
         /\ Distinct(<<e>> \o q)
         /\ \A i \in DOMAIN (<<e>> \o q) :
              (<<e>> \o q)[i] = e \/ \E j \in DOMAIN q : (<<e>> \o q)[i] = q[j]
         /\ \A j \in DOMAIN q : \E i \in DOMAIN (<<e>> \o q) : (<<e>> \o q)[i] = q[j]
         /\ \E i \in DOMAIN (<<e>> \o q) : (<<e>> \o q)[i] = e
<1> DEFINE p == <<e>> \o q
<1>1. Len(q) \in Nat /\ DOMAIN q = 1 .. Len(q)
  BY LenProperties
<1>2. /\ p \in Seq(Elem) /\ Len(p) = Len(q) + 1
      /\ \A i \in 1 .. Len(q) + 1 : p[i] = IF i = 1 THEN e ELSE q[i - 1]
  <2>1. <<e>> \in Seq(Elem) /\ Len(<<e>>) = 1 /\ <<e>>[1] = e
    OBVIOUS
  <2>2. /\ p \in Seq(Elem) /\ Len(p) = Len(<<e>>) + Len(q)
        /\ \A i \in 1 .. Len(<<e>>) + Len(q) :
             p[i] = IF i <= Len(<<e>>) THEN <<e>>[i] ELSE q[i - Len(<<e>>)]
    BY <2>1, ConcatProperties
  <2>. HIDE DEF p
  <2>. QED  BY <1>1, <2>1, <2>2
<1> HIDE DEF p
<1>3. DOMAIN p = 1 .. Len(q) + 1
  BY <1>2, LenProperties
<1>4. Distinct(p)
  <2>1. \A i \in DOMAIN p : i = 1 \/ (i - 1 \in DOMAIN q /\ p[i] = q[i - 1])
    BY <1>1, <1>2, <1>3
  <2>2. p[1] = e
    BY <1>1, <1>2
  <2>3. DOMAIN p \subseteq Int
    BY <1>1, <1>3
  <2>. QED  BY <2>1, <2>2, <2>3 DEF Distinct
<1>5. ASSUME NEW i \in DOMAIN p PROVE p[i] = e \/ \E j \in DOMAIN q : p[i] = q[j]
  BY <1>1, <1>2, <1>3, Z3
<1>6. ASSUME NEW j \in DOMAIN q PROVE \E i \in DOMAIN p : p[i] = q[j]
  <2>1. j + 1 \in DOMAIN p /\ p[j + 1] = q[j]
    BY <1>1, <1>2, <1>3
  <2>. QED  BY <2>1
<1>7. 1 \in DOMAIN p /\ p[1] = e
  BY <1>1, <1>2, <1>3
<1>. QED  BY <1>2, <1>4, <1>5, <1>6, <1>7 DEF p

\* Moving an address to the front keeps the addresses.
LEMMA MovedToFrontProperties ==
  ASSUME NEW q \in Seq(Elem), NEW e \in Elem, NEW n \in DOMAIN q, q[n] = e,
         Distinct(q)
  PROVE  /\ MovedToFront(q, e) \in Seq(Elem)
         /\ Len(MovedToFront(q, e)) = Len(q)
         /\ Distinct(MovedToFront(q, e))
         /\ \A i \in DOMAIN MovedToFront(q, e) : \E j \in DOMAIN q : MovedToFront(q, e)[i] = q[j]
         /\ \A j \in DOMAIN q : \E i \in DOMAIN MovedToFront(q, e) : MovedToFront(q, e)[i] = q[j]
<1> DEFINE u == Unlinked(q, e)
           p == <<e>> \o u
<1>0. Len(q) \in Nat
  BY LenProperties
<1>1. /\ u \in Seq(Elem) /\ Len(u) = Len(q) - 1 /\ Distinct(u)
      /\ \A i \in DOMAIN u : u[i] # e /\ \E j \in DOMAIN q : u[i] = q[j]
      /\ \A j \in DOMAIN q : q[j] # e => \E i \in DOMAIN u : u[i] = q[j]
  BY UnlinkedProperties
<1> HIDE DEF u
<1>2. /\ p \in Seq(Elem) /\ Len(p) = Len(u) + 1 /\ Distinct(p)
      /\ \A i \in DOMAIN p : p[i] = e \/ \E j \in DOMAIN u : p[i] = u[j]
      /\ \A j \in DOMAIN u : \E i \in DOMAIN p : p[i] = u[j]
      /\ \E i \in DOMAIN p : p[i] = e
  <2>1. \A i \in DOMAIN u : u[i] # e
    BY <1>1
  <2>. QED  BY ZenonT(60), <1>1, <2>1, PushFrontProperties
<1>3. MovedToFront(q, e) = p
  BY DEF MovedToFront, u
<1> HIDE DEF p
<1>. QED  BY <1>0, <1>1, <1>2, <1>3

-----------------------------------------------------------------------------
(* The five steps that change the list. *)

\* A goroutine with the write lock is the only one that can be in the middle
\* of a list update.
LEMMA OneMidway ==
  ASSUME LockInv, NEW t \in Threads, NEW u \in Threads,
         pc[t] \in WriterPc, pc[u] \in MidPc
  PROVE  u = t
BY DEF LockInv, WriterPc, MidPc

\* What the allocator hands out is an address nothing points to.
LEMMA FreeElement ==
  ASSUME ListTypeOK, Free # {}
  PROVE  LET e == CHOOSE x \in Free : TRUE IN
         /\ e \in Elem
         /\ \A i \in DOMAIN queue : queue[i] # e
         /\ \A k \in Key : items[k] # e
         /\ \A t \in Threads : loc[t].ent # e /\ loc[t].elem # e
BY DEF Free, ToSet

\* AddExisting moves an entry to the front: no entry appears or goes.
LEMMA ListAddExisting ==
  ASSUME ListTypeOK, ThreadTypeOK, LockInv, CallerInv, ListInv,
         NEW t \in Threads, AddExisting(t)
  PROVE  /\ ListInv' /\ ListTypeOK'
         /\ \A i \in DOMAIN queue' : \E j \in DOMAIN queue : queue'[i] = queue[j]
<1> DEFINE k == loc[t].key
           e == items[k]
           q == MovedToFront(queue, e)
<1>1. k \in Key /\ e \in Elem /\ pc[t] = "Add.locked"
  BY DEF AddExisting, At, CallerInv, ListTypeOK
<1>2. \A u \in Threads : pc[u] \notin MidPc
  BY <1>1, OneMidway DEF WriterPc, MidPc
<1>3. PICK n \in DOMAIN queue : queue[n] = e
  BY <1>1, <1>2 DEF ListInv, Removed, MidPc, AddExisting
<1>4. Distinct(queue)
  BY DEF ListInv, Distinct
<1>5. /\ q \in Seq(Elem) /\ Len(q) = Len(queue) /\ Distinct(q)
      /\ \A i \in DOMAIN q : \E j \in DOMAIN queue : q[i] = queue[j]
      /\ \A j \in DOMAIN queue : \E i \in DOMAIN q : q[i] = queue[j]
  BY <1>1, <1>3, <1>4, MovedToFrontProperties DEF ListTypeOK
<1>6. /\ queue' = q /\ len' = len /\ items' = items
      /\ heap' = [heap EXCEPT ![e].value = loc[t].val]
      /\ loc' = loc
      /\ pc' = [pc EXCEPT ![t] = Resume(loc[t].frame)]
  BY DEF AddExisting, Goto
<1>7. \A u \in Threads : pc'[u] \notin MidPc
  BY <1>2, <1>6 DEF MidPc, Resume, ThreadTypeOK
<1>8. \A x \in Elem : heap'[x].key = heap[x].key
  BY <1>1, <1>6 DEF ListTypeOK
<1>9. ListTypeOK'
  BY ZenonT(60), <1>1, <1>5, <1>6 DEF ListTypeOK, ThreadTypeOK, Locals
<1> HIDE DEF q
<1>10. ListInv'
  <2>1. \A i \in DOMAIN queue : /\ heap[queue[i]].key \in Key
                                /\ items[heap[queue[i]].key] = queue[i]
                                /\ queue[i] \in Elem
    BY <1>2, LenProperties, ElementOfSeq DEF ListInv, Added, MidPc, ListTypeOK
  <2>2. \A i \in DOMAIN q : /\ heap[q[i]].key \in Key
                            /\ items[heap[q[i]].key] = q[i]
                            /\ q[i] \in Elem
    BY SMTT(40), <1>5, <2>1
  <2>3. \A kk \in Key : items[kk] # Nil =>
          heap[items[kk]].key = kk /\ items[kk] \in Elem /\ \E i \in DOMAIN queue : queue[i] = items[kk]
    BY <1>2 DEF ListInv, Removed, MidPc, ListTypeOK
  <2>4. \A kk \in Key : items[kk] # Nil =>
          heap[items[kk]].key = kk /\ items[kk] \in Elem /\ \E i \in DOMAIN q : q[i] = items[kk]
    BY SMTT(40), <1>5, <2>3
  <2>5. len = Len(q)
    BY <1>2, <1>5 DEF ListInv, Midway, MidPc
  <2>. QED
    BY <1>5, <1>6, <1>7, <1>8, <2>2, <2>4, <2>5 DEF ListInv, Distinct, MidPc, Midway
<1>. QED  BY <1>5, <1>6, <1>9, <1>10

\* AddLink puts a new address at the front; it is not in the map yet.
LEMMA ListAddLink ==
  ASSUME ListTypeOK, ThreadTypeOK, LockInv, CallerInv, ListInv,
         NEW t \in Threads, AddLink(t)
  PROVE  /\ ListInv' /\ ListTypeOK'
         /\ \E e \in Elem :
              /\ loc' = [loc EXCEPT ![t].elem = e]
              /\ \A u \in Threads : loc[u].elem # e
              /\ \A i \in DOMAIN queue' :
                   queue'[i] = e \/ \E j \in DOMAIN queue : queue'[i] = queue[j]
<1> DEFINE k == loc[t].key
           e == CHOOSE x \in Free : TRUE
           q == <<e>> \o queue
<1>1. k \in Key /\ pc[t] = "Add.locked" /\ items[k] = Nil
  BY DEF AddLink, At, CallerInv
<1>2. \A u \in Threads : pc[u] \notin MidPc
  BY <1>1, OneMidway DEF WriterPc, MidPc
<1>3. /\ e \in Elem /\ \A i \in DOMAIN queue : queue[i] # e
      /\ \A kk \in Key : items[kk] # e
      /\ \A u \in Threads : loc[u].elem # e
  BY FreeElement DEF AddLink
<1>4. /\ queue' = q /\ len' = len /\ items' = items
      /\ heap' = [heap EXCEPT ![e] = [key |-> k, value |-> loc[t].val]]
      /\ loc' = [loc EXCEPT ![t].elem = e]
      /\ pc' = [pc EXCEPT ![t] = "Add.linked"]
  BY DEF AddLink, Goto
<1> HIDE DEF e
<1>5. Distinct(queue) /\ queue \in Seq(Elem)
  BY DEF ListInv, Distinct, ListTypeOK
<1>6. /\ q \in Seq(Elem) /\ Len(q) = Len(queue) + 1 /\ Distinct(q)
      /\ \A i \in DOMAIN q : q[i] = e \/ \E j \in DOMAIN queue : q[i] = queue[j]
      /\ \A j \in DOMAIN queue : \E i \in DOMAIN q : q[i] = queue[j]
      /\ \E i \in DOMAIN q : q[i] = e
  BY ZenonT(60), <1>3, <1>5, PushFrontProperties
<1> HIDE DEF q
<1>7. ListTypeOK'
  BY <1>1, <1>3, <1>4, <1>6 DEF ListTypeOK, ThreadTypeOK, Locals
<1>8. /\ pc'[t] = "Add.linked" /\ loc'[t].elem = e /\ loc'[t].key = k
      /\ \A u \in Threads : u # t => pc'[u] \notin MidPc
  BY <1>2, <1>4 DEF ThreadTypeOK, Locals
<1>9. heap'[e].key = k /\ \A x \in Elem : x # e => heap'[x].key = heap[x].key
  BY <1>3, <1>4 DEF ListTypeOK
<1>10. ListInv'
  <2>1. \A i \in DOMAIN queue : /\ heap[queue[i]].key \in Key
                                /\ items[heap[queue[i]].key] = queue[i]
                                /\ queue[i] \in Elem /\ queue[i] # e
    BY <1>2, <1>3, LenProperties, ElementOfSeq DEF ListInv, Added, MidPc, ListTypeOK
  <2>2. \A i \in DOMAIN q : /\ heap'[q[i]].key \in Key
                            /\ items[heap'[q[i]].key] = q[i] \/ q[i] = e
    BY <1>1, <1>6, <1>9, <2>1
  <2>3. \A kk \in Key : items[kk] # Nil =>
          heap'[items[kk]].key = kk /\ \E i \in DOMAIN q : q[i] = items[kk]
    BY <1>2, <1>3, <1>6, <1>9 DEF ListInv, Removed, MidPc, ListTypeOK
  <2>4. len + 1 = Len(q) /\ Midway'
    BY <1>2, <1>6, <1>8 DEF ListInv, Midway, MidPc
  <2>5. \A i, j \in DOMAIN queue' : queue'[i] = queue'[j] => i = j
    BY <1>4, <1>6 DEF Distinct
  <2>6. \A i \in DOMAIN queue' :
          /\ heap'[queue'[i]].key \in Key
          /\ items'[heap'[queue'[i]].key] = queue'[i]
               \/ \E u \in Threads : pc'[u] = "Add.linked" /\ loc'[u].elem = queue'[i]
    BY <1>4, <1>8, <2>2
  <2>7. \A u \in Threads : pc'[u] = "Add.linked" =>
          /\ items'[loc'[u].key] = Nil
          /\ \E i \in DOMAIN queue' : queue'[i] = loc'[u].elem
          /\ heap'[loc'[u].elem].key = loc'[u].key
          /\ \A kk \in Key : items'[kk] # loc'[u].elem
          /\ len' + 1 = Len(queue')
    <3> SUFFICES ASSUME NEW u \in Threads, pc'[u] = "Add.linked"
                 PROVE  /\ items'[loc'[u].key] = Nil
                        /\ \E i \in DOMAIN queue' : queue'[i] = loc'[u].elem
                        /\ heap'[loc'[u].elem].key = loc'[u].key
                        /\ \A kk \in Key : items'[kk] # loc'[u].elem
                        /\ len' + 1 = Len(queue')
      OBVIOUS
    <3>1. u = t
      BY <1>8 DEF MidPc
    <3>. QED  BY <1>1, <1>3, <1>4, <1>6, <1>8, <1>9, <2>4, <3>1
  <2>8. \A u \in Threads : pc'[u] # "Remove.unlinked"
    BY <1>8 DEF MidPc
  <2>9. \A kk \in Key : items'[kk] # Nil =>
          heap'[items'[kk]].key = kk /\ \E i \in DOMAIN queue' : queue'[i] = items'[kk]
    BY <1>4, <2>3
  <2>. QED
    BY <2>4, <2>5, <2>6, <2>7, <2>8, <2>9 DEF ListInv, Added, Removed
<1>11. /\ e \in Elem /\ loc' = [loc EXCEPT ![t].elem = e]
       /\ \A u \in Threads : loc[u].elem # e
       /\ \A i \in DOMAIN queue' :
            queue'[i] = e \/ \E j \in DOMAIN queue : queue'[i] = queue[j]
  BY <1>3, <1>4, <1>6
<1>. QED  BY <1>7, <1>10, <1>11

\* AddUnlock puts the new entry into the map and counts it.
LEMMA ListAddUnlock ==
  ASSUME ListTypeOK, ThreadTypeOK, LockInv, CallerInv, PointerInv, ListInv,
         NEW t \in Threads, AddUnlock(t)
  PROVE  ListInv' /\ ListTypeOK'
<1> DEFINE k == loc[t].key
           e == loc[t].elem
<1>1. k \in Key /\ pc[t] = "Add.linked" /\ e \in Elem
  BY DEF AddUnlock, At, CallerInv, PointerInv
<1>2. \A u \in Threads : u # t => pc[u] \notin MidPc
  BY <1>1, OneMidway DEF WriterPc, MidPc
<1>3. /\ queue' = queue /\ len' = len + 1 /\ items' = [items EXCEPT ![k] = e] /\ heap' = heap
      /\ loc' = [loc EXCEPT ![t].elem = Nil]
      /\ pc' = [pc EXCEPT ![t] = "Add.check"]
  BY DEF AddUnlock, Goto
<1>4. \A u \in Threads : pc'[u] \notin MidPc
  BY <1>2, <1>3 DEF MidPc, ThreadTypeOK
<1>5. ListTypeOK'
  BY <1>1, <1>3 DEF ListTypeOK
<1>6. ListInv'
  <2>1. items[k] = Nil /\ heap[e].key = k /\ len + 1 = Len(queue)
        /\ (\E i \in DOMAIN queue : queue[i] = e) /\ \A kk \in Key : items[kk] # e
    BY <1>1 DEF ListInv
  <2>2. items'[k] = e /\ \A kk \in Key : kk # k => items'[kk] = items[kk]
    BY <1>1, <1>3 DEF ListTypeOK
  <2>3. \A i \in DOMAIN queue : /\ heap[queue[i]].key \in Key
                                /\ items'[heap[queue[i]].key] = queue[i]
    <3> SUFFICES ASSUME NEW i \in DOMAIN queue
                 PROVE  /\ heap[queue[i]].key \in Key
                        /\ items'[heap[queue[i]].key] = queue[i]
      OBVIOUS
    <3>1. heap[queue[i]].key \in Key
      BY DEF ListInv
    <3>2. CASE queue[i] = e
      BY <2>1, <2>2, <3>1, <3>2
    <3>3. CASE queue[i] # e
      <4>1. ~Added(queue[i])
        BY <1>2, <3>3 DEF Added, MidPc
      <4>2. items[heap[queue[i]].key] = queue[i]
        BY <4>1 DEF ListInv
      <4>3. queue[i] # Nil
        BY LenProperties, ElementOfSeq, LRUAssumption DEF ListTypeOK
      <4>. QED  BY <2>1, <2>2, <3>1, <4>2, <4>3
    <3>. QED  BY <3>2, <3>3
  <2>4. \A kk \in Key : items'[kk] # Nil =>
          heap[items'[kk]].key = kk /\ \E i \in DOMAIN queue : queue[i] = items'[kk]
    BY <1>1, <1>2, <2>1, <2>2 DEF ListInv, Removed, MidPc
  <2>. QED
    BY <1>3, <1>4, <2>1, <2>3, <2>4 DEF ListInv, Midway, MidPc
<1>. QED  BY <1>5, <1>6

\* RemoveUnlink takes an address out of the list; it is in the map still.
LEMMA ListRemoveUnlink ==
  ASSUME ListTypeOK, ThreadTypeOK, LockInv, CallerInv, ListInv,
         NEW t \in Threads, RemoveUnlink(t)
  PROVE  /\ ListInv' /\ ListTypeOK'
         /\ \A i \in DOMAIN queue' : \E j \in DOMAIN queue : queue'[i] = queue[j]
<1> DEFINE k == loc[t].vic
           e == items[k]
           q == Unlinked(queue, e)
<1>1. k \in Key /\ e \in Elem /\ pc[t] = "Remove.locked"
  BY DEF RemoveUnlink, At, CallerInv, ListTypeOK
<1>2. \A u \in Threads : pc[u] \notin MidPc
  BY <1>1, OneMidway DEF WriterPc, MidPc
<1>3. PICK n \in DOMAIN queue : queue[n] = e
  BY <1>1, <1>2 DEF ListInv, Removed, MidPc, RemoveUnlink
<1>4. Distinct(queue) /\ queue \in Seq(Elem)
  BY DEF ListInv, Distinct, ListTypeOK
<1>5. /\ q \in Seq(Elem) /\ Len(q) = Len(queue) - 1 /\ Distinct(q)
      /\ \A i \in DOMAIN q : q[i] # e /\ \E j \in DOMAIN queue : q[i] = queue[j]
      /\ \A j \in DOMAIN queue : queue[j] # e => \E i \in DOMAIN q : q[i] = queue[j]
  BY ZenonT(60), <1>1, <1>3, <1>4, UnlinkedProperties
<1>6. /\ queue' = q /\ len' = len /\ items' = items /\ heap' = heap
      /\ loc' = [loc EXCEPT ![t].elem = e]
      /\ pc' = [pc EXCEPT ![t] = "Remove.unlinked"]
  BY DEF RemoveUnlink, Goto
<1> HIDE DEF q
<1>7. ListTypeOK'
  BY <1>5, <1>6 DEF ListTypeOK
<1>8. /\ pc'[t] = "Remove.unlinked" /\ loc'[t].elem = e /\ loc'[t].vic = k
      /\ \A u \in Threads : u # t => pc'[u] \notin MidPc
  BY <1>2, <1>6 DEF ThreadTypeOK, Locals
<1>9. ListInv'
  <2>1. \A i \in DOMAIN queue : /\ heap[queue[i]].key \in Key
                                /\ items[heap[queue[i]].key] = queue[i]
    BY <1>2 DEF ListInv, Added, MidPc
  <2>2. \A i \in DOMAIN q : /\ heap[q[i]].key \in Key
                            /\ items[heap[q[i]].key] = q[i]
    BY <1>5, <2>1
  <2>3. \A kk \in Key : items[kk] # Nil =>
          heap[items[kk]].key = kk /\ \E i \in DOMAIN queue : queue[i] = items[kk]
    BY <1>2 DEF ListInv, Removed, MidPc
  <2>4. \A kk \in Key : items[kk] # Nil =>
          heap[items[kk]].key = kk /\ ((\E i \in DOMAIN q : q[i] = items[kk]) \/ kk = k)
    BY <1>1, <1>5, <2>3
  <2>5. len = Len(q) + 1 /\ Midway'
    <3>1. len = Len(queue)
      BY <1>2 DEF ListInv, Midway, MidPc
    <3>2. Len(queue) \in Nat /\ Len(q) \in Nat
      BY <1>4, <1>5, LenProperties
    <3>. QED  BY <1>5, <1>8, <3>1, <3>2 DEF Midway
  <2>6. Removed(k)'
    BY <1>8 DEF Removed
  <2>. QED
    BY <1>5, <1>6, <1>8, <2>2, <2>4, <2>5, <2>6 DEF ListInv, Distinct, MidPc
<1>. QED  BY <1>5, <1>6, <1>7, <1>9

\* RemoveUnlock takes the entry out of the map and out of the count.
LEMMA ListRemoveUnlock ==
  ASSUME ListTypeOK, ThreadTypeOK, LockInv, CallerInv, ListInv,
         NEW t \in Threads, RemoveUnlock(t)
  PROVE  ListInv' /\ ListTypeOK'
<1> DEFINE k == loc[t].vic
           e == loc[t].elem
<1>1. k \in Key /\ pc[t] = "Remove.unlinked"
  BY DEF RemoveUnlock, At, CallerInv
<1>2. \A u \in Threads : u # t => pc[u] \notin MidPc
  BY <1>1, OneMidway DEF WriterPc, MidPc
<1>3. /\ queue' = queue /\ len' = len - 1 /\ items' = [items EXCEPT ![k] = Nil] /\ heap' = heap
      /\ loc' = loc
      /\ pc' = [pc EXCEPT ![t] = "onRemove"]
  BY DEF RemoveUnlock, Goto
<1>4. \A u \in Threads : pc'[u] \notin MidPc
  BY <1>2, <1>3 DEF MidPc, ThreadTypeOK
<1>5. items[k] = e /\ len = Len(queue) + 1 /\ \A i \in DOMAIN queue : queue[i] # e
  BY <1>1 DEF ListInv
<1>6. Len(queue) \in Nat
  BY LenProperties DEF ListTypeOK
<1>7. ListTypeOK'
  BY <1>1, <1>3, <1>5, <1>6 DEF ListTypeOK
<1>8. ListInv'
  <2>1. items'[k] = Nil /\ \A kk \in Key : kk # k => items'[kk] = items[kk]
    BY <1>1, <1>3 DEF ListTypeOK
  <2>2. \A i \in DOMAIN queue : /\ heap[queue[i]].key \in Key
                                /\ items[heap[queue[i]].key] = queue[i]
    BY <1>1, <1>2 DEF ListInv, Added, MidPc
  <2>3. \A i \in DOMAIN queue : items'[heap[queue[i]].key] = queue[i]
    BY <1>5, <2>1, <2>2
  <2>4. \A kk \in Key : items'[kk] # Nil =>
          heap[items'[kk]].key = kk /\ \E i \in DOMAIN queue : queue[i] = items'[kk]
    BY <1>2, <2>1 DEF ListInv, Removed, MidPc
  <2>. QED
    BY <1>3, <1>4, <1>5, <1>6, <2>2, <2>3, <2>4 DEF ListInv, Midway, MidPc
<1>. QED  BY <1>7, <1>8

-----------------------------------------------------------------------------
(* The other steps leave the list, and who is in the middle of an update,  *)
(* as they are.                                                            *)
SameMiddle(u) ==
  /\ pc'[u] \in MidPc \/ pc[u] \in MidPc => pc'[u] = pc[u]
  /\ pc[u] \in MidPc => /\ loc'[u].key = loc[u].key
                        /\ loc'[u].elem = loc[u].elem
                        /\ loc'[u].vic = loc[u].vic

Untouched == UNCHANGED list /\ \A u \in Threads : SameMiddle(u)

ListUpdate(t) == \/ AddExisting(t) \/ AddLink(t) \/ AddUnlock(t)
                 \/ RemoveUnlink(t) \/ RemoveUnlock(t)

\* Such a step keeps what is known of the list.
LEMMA ListFrame ==
  ASSUME ListTypeOK, ListInv, Untouched
  PROVE  ListInv' /\ ListTypeOK'
<1>1. queue' = queue /\ len' = len /\ items' = items /\ heap' = heap
  BY DEF Untouched, list
<1>2. ASSUME NEW t \in Threads
      PROVE  /\ pc'[t] = "Add.linked" <=> pc[t] = "Add.linked"
             /\ pc'[t] = "Remove.unlinked" <=> pc[t] = "Remove.unlinked"
             /\ pc[t] \in MidPc => /\ loc'[t].key = loc[t].key
                                   /\ loc'[t].elem = loc[t].elem
                                   /\ loc'[t].vic = loc[t].vic
  BY DEF Untouched, SameMiddle, MidPc
<1>3. Midway <=> Midway'
  BY <1>2 DEF Midway
<1>4. ListTypeOK'
  BY <1>1 DEF ListTypeOK
<1>5. ListInv'
  <2>1. \A i, j \in DOMAIN queue' : queue'[i] = queue'[j] => i = j
    BY <1>1 DEF ListInv
  <2>2. \A i \in DOMAIN queue' :
          /\ heap'[queue'[i]].key \in Key
          /\ \/ items'[heap'[queue'[i]].key] = queue'[i]
             \/ \E t \in Threads : pc'[t] = "Add.linked" /\ loc'[t].elem = queue'[i]
    BY <1>1, <1>2 DEF ListInv, Added, MidPc
  <2>3. \A k \in Key : items'[k] # Nil =>
          /\ heap'[items'[k]].key = k
          /\ \/ \E i \in DOMAIN queue' : queue'[i] = items'[k]
             \/ \E t \in Threads : pc'[t] = "Remove.unlinked" /\ loc'[t].vic = k
    BY <1>1, <1>2 DEF ListInv, Removed, MidPc
  <2>4. \A t \in Threads : pc'[t] = "Add.linked" =>
          /\ items'[loc'[t].key] = Nil
          /\ \E i \in DOMAIN queue' : queue'[i] = loc'[t].elem
          /\ heap'[loc'[t].elem].key = loc'[t].key
          /\ \A k \in Key : items'[k] # loc'[t].elem
          /\ len' + 1 = Len(queue')
    BY <1>1, <1>2 DEF ListInv, MidPc
  <2>5. \A t \in Threads : pc'[t] = "Remove.unlinked" =>
          /\ items'[loc'[t].vic] = loc'[t].elem
          /\ \A i \in DOMAIN queue' : queue'[i] # loc'[t].elem
          /\ len' = Len(queue') + 1
    BY <1>1, <1>2 DEF ListInv, MidPc
  <2>6. ~Midway' => len' = Len(queue')
    BY <1>1, <1>3 DEF ListInv
  <2>. QED  BY <2>1, <2>2, <2>3, <2>4, <2>5, <2>6 DEF ListInv, Added, Removed
<1>. QED  BY <1>4, <1>5

\* Returning from Add, RemoveOldest or Remove does not enter an update.
LEMMA ResumeNotMid ==
  \A f \in Frames : Resume(f) \notin MidPc
BY DEF Resume, MidPc

\* Only the list updates touch the list.
LEMMA ListUntouched ==
  ASSUME ThreadTypeOK, CallerInv, [Next]_vars
  PROVE  Untouched \/ \E t \in Threads : ListUpdate(t)
<1> USE LRUAssumption DEF Untouched, ThreadTypeOK, Locals, MidPc,
             SameMiddle, At, Goto, Return, NoLocals
<1>1. ASSUME NEW t \in Threads, NEW op \in Ops, NEW k \in Key \cup {Nil},
             NEW v \in Val \cup {Nil}, Call(t, op, k, v)
      PROVE  Untouched
  BY <1>1 DEF Call, Entry, AllOps
<1>2. ASSUME NEW t \in Threads, ReturnTrue(t) PROVE Untouched
  BY <1>2 DEF ReturnTrue
<1>3. ASSUME NEW t \in Threads, AddLock(t) PROVE Untouched
  BY <1>3 DEF AddLock
<1>4. ASSUME NEW t \in Threads, AddCheck(t) PROVE Untouched
  BY <1>4, ResumeNotMid DEF AddCheck
<1>5. ASSUME NEW t \in Threads, RemoveOldestEmpty(t) PROVE Untouched
  BY <1>5, ResumeNotMid DEF RemoveOldestEmpty
<1>6. ASSUME NEW t \in Threads, RemoveOldestBack(t) PROVE Untouched
  BY <1>6 DEF RemoveOldestBack
<1>7. ASSUME NEW t \in Threads, BackIsRoot(t) PROVE Untouched
  BY <1>7 DEF BackIsRoot
<1>8. ASSUME NEW t \in Threads, RemoveLock(t) PROVE Untouched
  BY <1>8 DEF RemoveLock
<1>9. ASSUME NEW t \in Threads, RemoveMissing(t) PROVE Untouched
  BY <1>9, ResumeNotMid DEF RemoveMissing
<1>10. ASSUME NEW t \in Threads, OnRemove(t) PROVE Untouched
  BY <1>10, ResumeNotMid DEF OnRemove
<1>11. ASSUME NEW t \in Threads, DoGetRLock(t) PROVE Untouched
  BY <1>11 DEF DoGetRLock
<1>12. ASSUME NEW t \in Threads, DoGetRUnlock(t) PROVE Untouched
  BY <1>12 DEF DoGetRUnlock
<1>13. ASSUME NEW t \in Threads, DoGetValue(t) PROVE Untouched
  BY <1>13 DEF DoGetValue
<1>14. ASSUME NEW t \in Threads, GetHit(t) PROVE Untouched
  BY <1>14 DEF GetHit
<1>15. ASSUME NEW t \in Threads, GetMiss(t) PROVE Untouched
  BY <1>15 DEF GetMiss
<1>16. ASSUME NEW t \in Threads, DoLead(t) PROVE Untouched
  BY <1>16 DEF DoLead
<1>17. ASSUME NEW t \in Threads, DoJoin(t) PROVE Untouched
  BY <1>17 DEF DoJoin
<1>18. ASSUME NEW t \in Threads, DoHit(t) PROVE Untouched
  BY <1>18 DEF DoHit
<1>19. ASSUME NEW t \in Threads, Load(t) PROVE Untouched
  BY <1>19 DEF Load
<1>20. ASSUME NEW t \in Threads, LoadError(t) PROVE Untouched
  BY <1>20 DEF LoadError
<1>21. ASSUME NEW t \in Threads, DoEnd(t) PROVE Untouched
  BY <1>21 DEF DoEnd
<1>22. ASSUME NEW t \in Threads, TakeReturn(t) PROVE Untouched
  BY <1>22 DEF TakeReturn
<1>23. ASSUME NEW t \in Threads, GetOldest(t) PROVE Untouched
  BY <1>23 DEF GetOldest
<1>24. ASSUME NEW t \in Threads, ContainsRLock(t) PROVE Untouched
  BY <1>24 DEF ContainsRLock
<1>25. ASSUME NEW t \in Threads, ContainsDefer(t) PROVE Untouched
  BY <1>25 DEF ContainsDefer
<1>26. ASSUME NEW t \in Threads, ContainsReturn(t) PROVE Untouched
  BY <1>26 DEF ContainsReturn
<1>27. ASSUME NEW t \in Threads, RangeBack(t) PROVE Untouched
  BY <1>27 DEF RangeBack
<1>28. ASSUME NEW t \in Threads, RangeVisit(t) PROVE Untouched
  BY <1>28 DEF RangeVisit
<1>29. ASSUME NEW t \in Threads, RangePrev(t) PROVE Untouched
  BY <1>29 DEF RangePrev
<1>30. ASSUME NEW t \in Threads, RangeEnd(t) PROVE Untouched
  BY <1>30 DEF RangeEnd
<1>31. CASE UNCHANGED vars
  BY <1>31 DEF vars, list
<1>. QED
  BY <1>1, <1>2, <1>3, <1>4, <1>5, <1>6, <1>7, <1>8, <1>9, <1>10, <1>11,
     <1>12, <1>13, <1>14, <1>15, <1>16, <1>17, <1>18, <1>19, <1>20, <1>21,
     <1>22, <1>23, <1>24, <1>25, <1>26, <1>27, <1>28, <1>29, <1>30, <1>31
  DEF Next, Step, Stopped, ListUpdate

\* Every step keeps the type and the shape of the list.
LEMMA ListStep ==
  ASSUME ListTypeOK, ThreadTypeOK, LockInv, CallerInv, PointerInv, ListInv, [Next]_vars
  PROVE  ListInv' /\ ListTypeOK'
<1>1. ASSUME NEW t \in Threads, ListUpdate(t) PROVE ListInv' /\ ListTypeOK'
  <2>1. CASE AddExisting(t)  BY <2>1, ListAddExisting
  <2>2. CASE AddLink(t)      BY <2>2, ListAddLink
  <2>3. CASE AddUnlock(t)    BY <2>3, ListAddUnlock
  <2>4. CASE RemoveUnlink(t) BY <2>4, ListRemoveUnlink
  <2>5. CASE RemoveUnlock(t) BY <2>5, ListRemoveUnlock
  <2>. QED  BY <1>1, <2>1, <2>2, <2>3, <2>4, <2>5 DEF ListUpdate
<1>. QED  BY <1>1, ListFrame, ListUntouched

-----------------------------------------------------------------------------
(* The lock. *)

\* Who is the writer, who holds a read lock and who waits for one agree with
\* the program counters.
LEMMA LockStep ==
  ASSUME LockTypeOK, ThreadTypeOK, LockInv, [Next]_vars
  PROVE  LockInv'
<1> USE LRUAssumption DEF LockTypeOK, ThreadTypeOK, Labels, LockInv, WriterPc,
             MidPc, ReaderPc, Announce, Exclusive, Unlock, RLock, RUnlock, lock,
             At, Goto, Resume, Return, Entry
<1>1. ASSUME NEW t \in Threads, NEW op \in Ops, NEW k \in Key \cup {Nil},
             NEW v \in Val \cup {Nil}, Call(t, op, k, v)
      PROVE  LockInv'
  BY <1>1 DEF Call, AllOps
<1>2. ASSUME NEW t \in Threads, ReturnTrue(t) PROVE LockInv'
  BY <1>2 DEF ReturnTrue
<1>3. ASSUME NEW t \in Threads, AddLock(t) PROVE LockInv'
  BY <1>3 DEF AddLock
<1>4. ASSUME NEW t \in Threads, AddExisting(t) PROVE LockInv'
  BY <1>4 DEF AddExisting
<1>5. ASSUME NEW t \in Threads, AddLink(t) PROVE LockInv'
  BY <1>5 DEF AddLink
<1>6. ASSUME NEW t \in Threads, AddUnlock(t) PROVE LockInv'
  BY <1>6 DEF AddUnlock
<1>7. ASSUME NEW t \in Threads, AddCheck(t) PROVE LockInv'
  BY <1>7 DEF AddCheck
<1>8. ASSUME NEW t \in Threads, RemoveOldestEmpty(t) PROVE LockInv'
  BY <1>8 DEF RemoveOldestEmpty
<1>9. ASSUME NEW t \in Threads, RemoveOldestBack(t) PROVE LockInv'
  BY <1>9 DEF RemoveOldestBack
<1>10. ASSUME NEW t \in Threads, BackIsRoot(t) PROVE LockInv'
  BY <1>10 DEF BackIsRoot
<1>11. ASSUME NEW t \in Threads, RemoveLock(t) PROVE LockInv'
  BY <1>11 DEF RemoveLock
<1>12. ASSUME NEW t \in Threads, RemoveMissing(t) PROVE LockInv'
  BY <1>12 DEF RemoveMissing
<1>13. ASSUME NEW t \in Threads, RemoveUnlink(t) PROVE LockInv'
  BY <1>13 DEF RemoveUnlink
<1>14. ASSUME NEW t \in Threads, RemoveUnlock(t) PROVE LockInv'
  BY <1>14 DEF RemoveUnlock
<1>15. ASSUME NEW t \in Threads, OnRemove(t) PROVE LockInv'
  BY <1>15 DEF OnRemove
<1>16. ASSUME NEW t \in Threads, DoGetRLock(t) PROVE LockInv'
  <2>1. CASE writer = Nil
    BY <1>16, <2>1 DEF DoGetRLock
  <2>2. CASE writer # Nil
    BY <1>16, <2>2 DEF DoGetRLock
  <2>. QED  BY <2>1, <2>2
<1>17. ASSUME NEW t \in Threads, DoGetRUnlock(t) PROVE LockInv'
  BY <1>17 DEF DoGetRUnlock
<1>18. ASSUME NEW t \in Threads, DoGetValue(t) PROVE LockInv'
  BY <1>18 DEF DoGetValue
<1>19. ASSUME NEW t \in Threads, GetHit(t) PROVE LockInv'
  BY <1>19 DEF GetHit
<1>20. ASSUME NEW t \in Threads, GetMiss(t) PROVE LockInv'
  BY <1>20 DEF GetMiss
<1>21. ASSUME NEW t \in Threads, DoLead(t) PROVE LockInv'
  BY <1>21 DEF DoLead
<1>22. ASSUME NEW t \in Threads, DoJoin(t) PROVE LockInv'
  BY <1>22 DEF DoJoin
<1>23. ASSUME NEW t \in Threads, DoHit(t) PROVE LockInv'
  BY <1>23 DEF DoHit
<1>24. ASSUME NEW t \in Threads, Load(t) PROVE LockInv'
  BY <1>24 DEF Load
<1>25. ASSUME NEW t \in Threads, LoadError(t) PROVE LockInv'
  BY <1>25 DEF LoadError
<1>26. ASSUME NEW t \in Threads, DoEnd(t) PROVE LockInv'
  BY <1>26 DEF DoEnd
<1>27. ASSUME NEW t \in Threads, TakeReturn(t) PROVE LockInv'
  BY <1>27 DEF TakeReturn
<1>28. ASSUME NEW t \in Threads, GetOldest(t) PROVE LockInv'
  BY <1>28 DEF GetOldest
<1>29. ASSUME NEW t \in Threads, ContainsRLock(t) PROVE LockInv'
  <2>1. CASE writer = Nil
    BY <1>29, <2>1 DEF ContainsRLock
  <2>2. CASE writer # Nil
    BY <1>29, <2>2 DEF ContainsRLock
  <2>. QED  BY <2>1, <2>2
<1>30. ASSUME NEW t \in Threads, ContainsDefer(t) PROVE LockInv'
  <2>1. CASE writer = Nil
    BY <1>30, <2>1 DEF ContainsDefer
  <2>2. CASE writer # Nil
    BY <1>30, <2>2 DEF ContainsDefer
  <2>. QED  BY <2>1, <2>2
<1>31. ASSUME NEW t \in Threads, ContainsReturn(t) PROVE LockInv'
  BY <1>31 DEF ContainsReturn
<1>32. ASSUME NEW t \in Threads, RangeBack(t) PROVE LockInv'
  BY SMTT(40), <1>32 DEF RangeBack
<1>33. ASSUME NEW t \in Threads, RangeVisit(t) PROVE LockInv'
  BY <1>33 DEF RangeVisit
<1>34. ASSUME NEW t \in Threads, RangePrev(t) PROVE LockInv'
  BY <1>34 DEF RangePrev
<1>35. ASSUME NEW t \in Threads, RangeEnd(t) PROVE LockInv'
  BY <1>35 DEF RangeEnd
<1>36. CASE UNCHANGED vars
  BY <1>36 DEF vars, list, lock, client
<1>. QED
  BY <1>1, <1>2, <1>3, <1>4, <1>5, <1>6, <1>7, <1>8, <1>9, <1>10, <1>11,
     <1>12, <1>13, <1>14, <1>15, <1>16, <1>17, <1>18, <1>19, <1>20, <1>21,
     <1>22, <1>23, <1>24, <1>25, <1>26, <1>27, <1>28, <1>29, <1>30, <1>31,
     <1>32, <1>33, <1>34, <1>35, <1>36
  DEF Next, Step, Stopped

\* A goroutine gives back only a read lock it has: held never goes below 0.
LEMMA LockTypeStep ==
  ASSUME LockTypeOK, LockInv, [Next]_vars
  PROVE  LockTypeOK'
<1> USE LRUAssumption DEF LockTypeOK, At, Announce, Unlock, RLock, RUnlock, lock
<1>1. ASSUME NEW t \in Threads, NEW op \in Ops, NEW k \in Key \cup {Nil},
             NEW v \in Val \cup {Nil}, Call(t, op, k, v)
      PROVE  LockTypeOK'
  BY <1>1 DEF Call
<1>2. ASSUME NEW t \in Threads, ReturnTrue(t) PROVE LockTypeOK'
  BY <1>2 DEF ReturnTrue
<1>3. ASSUME NEW t \in Threads, AddLock(t) PROVE LockTypeOK'
  BY <1>3 DEF AddLock
<1>4. ASSUME NEW t \in Threads, AddExisting(t) PROVE LockTypeOK'
  BY <1>4 DEF AddExisting
<1>5. ASSUME NEW t \in Threads, AddLink(t) PROVE LockTypeOK'
  BY <1>5 DEF AddLink
<1>6. ASSUME NEW t \in Threads, AddUnlock(t) PROVE LockTypeOK'
  BY <1>6 DEF AddUnlock
<1>7. ASSUME NEW t \in Threads, AddCheck(t) PROVE LockTypeOK'
  BY <1>7 DEF AddCheck
<1>8. ASSUME NEW t \in Threads, RemoveOldestEmpty(t) PROVE LockTypeOK'
  BY <1>8 DEF RemoveOldestEmpty
<1>9. ASSUME NEW t \in Threads, RemoveOldestBack(t) PROVE LockTypeOK'
  BY <1>9 DEF RemoveOldestBack
<1>10. ASSUME NEW t \in Threads, BackIsRoot(t) PROVE LockTypeOK'
  BY <1>10 DEF BackIsRoot
<1>11. ASSUME NEW t \in Threads, RemoveLock(t) PROVE LockTypeOK'
  BY <1>11 DEF RemoveLock
<1>12. ASSUME NEW t \in Threads, RemoveMissing(t) PROVE LockTypeOK'
  BY <1>12 DEF RemoveMissing
<1>13. ASSUME NEW t \in Threads, RemoveUnlink(t) PROVE LockTypeOK'
  BY <1>13 DEF RemoveUnlink
<1>14. ASSUME NEW t \in Threads, RemoveUnlock(t) PROVE LockTypeOK'
  BY <1>14 DEF RemoveUnlock
<1>15. ASSUME NEW t \in Threads, OnRemove(t) PROVE LockTypeOK'
  BY <1>15 DEF OnRemove
<1>16. ASSUME NEW t \in Threads, DoGetRLock(t) PROVE LockTypeOK'
  BY <1>16 DEF DoGetRLock
<1>17. ASSUME NEW t \in Threads, DoGetRUnlock(t) PROVE LockTypeOK'
  BY <1>17 DEF DoGetRUnlock, LockInv, ReaderPc
<1>18. ASSUME NEW t \in Threads, DoGetValue(t) PROVE LockTypeOK'
  BY <1>18 DEF DoGetValue
<1>19. ASSUME NEW t \in Threads, GetHit(t) PROVE LockTypeOK'
  BY <1>19 DEF GetHit
<1>20. ASSUME NEW t \in Threads, GetMiss(t) PROVE LockTypeOK'
  BY <1>20 DEF GetMiss
<1>21. ASSUME NEW t \in Threads, DoLead(t) PROVE LockTypeOK'
  BY <1>21 DEF DoLead
<1>22. ASSUME NEW t \in Threads, DoJoin(t) PROVE LockTypeOK'
  BY <1>22 DEF DoJoin
<1>23. ASSUME NEW t \in Threads, DoHit(t) PROVE LockTypeOK'
  BY <1>23 DEF DoHit
<1>24. ASSUME NEW t \in Threads, Load(t) PROVE LockTypeOK'
  BY <1>24 DEF Load
<1>25. ASSUME NEW t \in Threads, LoadError(t) PROVE LockTypeOK'
  BY <1>25 DEF LoadError
<1>26. ASSUME NEW t \in Threads, DoEnd(t) PROVE LockTypeOK'
  BY <1>26 DEF DoEnd
<1>27. ASSUME NEW t \in Threads, TakeReturn(t) PROVE LockTypeOK'
  BY <1>27 DEF TakeReturn
<1>28. ASSUME NEW t \in Threads, GetOldest(t) PROVE LockTypeOK'
  BY <1>28 DEF GetOldest
<1>29. ASSUME NEW t \in Threads, ContainsRLock(t) PROVE LockTypeOK'
  BY <1>29 DEF ContainsRLock
<1>30. ASSUME NEW t \in Threads, ContainsDefer(t) PROVE LockTypeOK'
  BY <1>30 DEF ContainsDefer
<1>31. ASSUME NEW t \in Threads, ContainsReturn(t) PROVE LockTypeOK'
  BY <1>31 DEF ContainsReturn
<1>32. ASSUME NEW t \in Threads, RangeBack(t) PROVE LockTypeOK'
  BY <1>32 DEF RangeBack
<1>33. ASSUME NEW t \in Threads, RangeVisit(t) PROVE LockTypeOK'
  BY <1>33 DEF RangeVisit
<1>34. ASSUME NEW t \in Threads, RangePrev(t) PROVE LockTypeOK'
  BY <1>34 DEF RangePrev
<1>35. ASSUME NEW t \in Threads, RangeEnd(t) PROVE LockTypeOK'
  BY <1>35 DEF RangeEnd
<1>36. CASE UNCHANGED vars
  BY <1>36 DEF vars, list, lock, client
<1>. QED
  BY <1>1, <1>2, <1>3, <1>4, <1>5, <1>6, <1>7, <1>8, <1>9, <1>10, <1>11,
     <1>12, <1>13, <1>14, <1>15, <1>16, <1>17, <1>18, <1>19, <1>20, <1>21,
     <1>22, <1>23, <1>24, <1>25, <1>26, <1>27, <1>28, <1>29, <1>30, <1>31,
     <1>32, <1>33, <1>34, <1>35, <1>36
  DEF Next, Step, Stopped

-----------------------------------------------------------------------------
(* The program counters and the local variables. *)

\* Where each caller continues.
LEMMA ResumeCases ==
  /\ Resume("Client") = "return"
  /\ Resume("Get") = "Get.hit"
  /\ Resume("Take") = "Take.hit"
  /\ Resume("Do") = "Do.hit"
  /\ Resume("Load") = "Do.end"
BY DEF Resume

\* The updates the steps make to the local variables keep their type.
LEMMA LocalsUpdate ==
  ASSUME NEW l \in Locals
  PROVE  /\ \A e \in Elem \cup {Nil} : /\ [l EXCEPT !.ent = e] \in Locals
                                      /\ [l EXCEPT !.elem = e] \in Locals
         /\ \A v \in Val \cup {Nil} : /\ [l EXCEPT !.val = v] \in Locals
                                     /\ [l EXCEPT !.val = v, !.frame = "Load"] \in Locals
         /\ \A k \in Key \cup {Nil} : [l EXCEPT !.vic = k] \in Locals
         /\ [l EXCEPT !.elem = Nil, !.vic = Nil] \in Locals
BY ZenonT(60) DEF Locals, Frames

\* Program counters.
LEMMA PcStep ==
  ASSUME pc \in [Threads -> Labels], [Next]_vars
  PROVE  pc' \in [Threads -> Labels]
<1> USE LRUAssumption DEF Labels, At, Goto, Resume, Return
<1>1. ASSUME NEW t \in Threads, NEW op \in Ops, NEW k \in Key \cup {Nil},
             NEW v \in Val \cup {Nil}, Call(t, op, k, v)
      PROVE  pc' \in [Threads -> Labels]
  BY <1>1 DEF Call, Entry, AllOps
<1>2. ASSUME NEW t \in Threads, ReturnTrue(t) PROVE pc' \in [Threads -> Labels]
  BY <1>2 DEF ReturnTrue
<1>3. ASSUME NEW t \in Threads, AddLock(t) PROVE pc' \in [Threads -> Labels]
  BY <1>3 DEF AddLock
<1>4. ASSUME NEW t \in Threads, AddExisting(t) PROVE pc' \in [Threads -> Labels]
  BY <1>4 DEF AddExisting
<1>5. ASSUME NEW t \in Threads, AddLink(t) PROVE pc' \in [Threads -> Labels]
  BY <1>5 DEF AddLink
<1>6. ASSUME NEW t \in Threads, AddUnlock(t) PROVE pc' \in [Threads -> Labels]
  BY <1>6 DEF AddUnlock
<1>7. ASSUME NEW t \in Threads, AddCheck(t) PROVE pc' \in [Threads -> Labels]
  BY <1>7 DEF AddCheck
<1>8. ASSUME NEW t \in Threads, RemoveOldestEmpty(t) PROVE pc' \in [Threads -> Labels]
  BY <1>8 DEF RemoveOldestEmpty
<1>9. ASSUME NEW t \in Threads, RemoveOldestBack(t) PROVE pc' \in [Threads -> Labels]
  BY <1>9 DEF RemoveOldestBack
<1>10. ASSUME NEW t \in Threads, BackIsRoot(t) PROVE pc' \in [Threads -> Labels]
  BY <1>10 DEF BackIsRoot
<1>11. ASSUME NEW t \in Threads, RemoveLock(t) PROVE pc' \in [Threads -> Labels]
  BY <1>11 DEF RemoveLock
<1>12. ASSUME NEW t \in Threads, RemoveMissing(t) PROVE pc' \in [Threads -> Labels]
  BY <1>12 DEF RemoveMissing
<1>13. ASSUME NEW t \in Threads, RemoveUnlink(t) PROVE pc' \in [Threads -> Labels]
  BY <1>13 DEF RemoveUnlink
<1>14. ASSUME NEW t \in Threads, RemoveUnlock(t) PROVE pc' \in [Threads -> Labels]
  BY <1>14 DEF RemoveUnlock
<1>15. ASSUME NEW t \in Threads, OnRemove(t) PROVE pc' \in [Threads -> Labels]
  BY <1>15 DEF OnRemove
<1>16. ASSUME NEW t \in Threads, DoGetRLock(t) PROVE pc' \in [Threads -> Labels]
  BY <1>16 DEF DoGetRLock
<1>17. ASSUME NEW t \in Threads, DoGetRUnlock(t) PROVE pc' \in [Threads -> Labels]
  BY <1>17 DEF DoGetRUnlock
<1>18. ASSUME NEW t \in Threads, DoGetValue(t) PROVE pc' \in [Threads -> Labels]
  BY <1>18 DEF DoGetValue
<1>19. ASSUME NEW t \in Threads, GetHit(t) PROVE pc' \in [Threads -> Labels]
  BY <1>19 DEF GetHit
<1>20. ASSUME NEW t \in Threads, GetMiss(t) PROVE pc' \in [Threads -> Labels]
  BY <1>20 DEF GetMiss
<1>21. ASSUME NEW t \in Threads, DoLead(t) PROVE pc' \in [Threads -> Labels]
  BY <1>21 DEF DoLead
<1>22. ASSUME NEW t \in Threads, DoJoin(t) PROVE pc' \in [Threads -> Labels]
  BY <1>22 DEF DoJoin
<1>23. ASSUME NEW t \in Threads, DoHit(t) PROVE pc' \in [Threads -> Labels]
  BY <1>23 DEF DoHit
<1>24. ASSUME NEW t \in Threads, Load(t) PROVE pc' \in [Threads -> Labels]
  BY <1>24 DEF Load
<1>25. ASSUME NEW t \in Threads, LoadError(t) PROVE pc' \in [Threads -> Labels]
  BY <1>25 DEF LoadError
<1>26. ASSUME NEW t \in Threads, DoEnd(t) PROVE pc' \in [Threads -> Labels]
  BY <1>26 DEF DoEnd
<1>27. ASSUME NEW t \in Threads, TakeReturn(t) PROVE pc' \in [Threads -> Labels]
  BY <1>27 DEF TakeReturn
<1>28. ASSUME NEW t \in Threads, GetOldest(t) PROVE pc' \in [Threads -> Labels]
  BY <1>28 DEF GetOldest
<1>29. ASSUME NEW t \in Threads, ContainsRLock(t) PROVE pc' \in [Threads -> Labels]
  BY <1>29 DEF ContainsRLock
<1>30. ASSUME NEW t \in Threads, ContainsDefer(t) PROVE pc' \in [Threads -> Labels]
  BY <1>30 DEF ContainsDefer
<1>31. ASSUME NEW t \in Threads, ContainsReturn(t) PROVE pc' \in [Threads -> Labels]
  BY <1>31 DEF ContainsReturn
<1>32. ASSUME NEW t \in Threads, RangeBack(t) PROVE pc' \in [Threads -> Labels]
  BY <1>32 DEF RangeBack
<1>33. ASSUME NEW t \in Threads, RangeVisit(t) PROVE pc' \in [Threads -> Labels]
  BY <1>33 DEF RangeVisit
<1>34. ASSUME NEW t \in Threads, RangePrev(t) PROVE pc' \in [Threads -> Labels]
  BY <1>34 DEF RangePrev
<1>35. ASSUME NEW t \in Threads, RangeEnd(t) PROVE pc' \in [Threads -> Labels]
  BY <1>35 DEF RangeEnd
<1>36. CASE UNCHANGED vars
  BY <1>36 DEF vars, list, lock, client
<1>. QED
  BY <1>1, <1>2, <1>3, <1>4, <1>5, <1>6, <1>7, <1>8, <1>9, <1>10, <1>11,
     <1>12, <1>13, <1>14, <1>15, <1>16, <1>17, <1>18, <1>19, <1>20, <1>21,
     <1>22, <1>23, <1>24, <1>25, <1>26, <1>27, <1>28, <1>29, <1>30, <1>31,
     <1>32, <1>33, <1>34, <1>35, <1>36
  DEF Next, Step, Stopped

\* Local variables.
LEMMA LocStep ==
  ASSUME ListTypeOK, loc \in [Threads -> Locals], CallerInv, PointerInv,
         [Next]_vars
  PROVE  loc' \in [Threads -> Locals]
<1> USE LRUAssumption DEF At
<1>1. ASSUME NEW t \in Threads, NEW op \in Ops, NEW k \in Key \cup {Nil},
             NEW v \in Val \cup {Nil}, Call(t, op, k, v)
      PROVE  loc' \in [Threads -> Locals]
  BY <1>1 DEF Call, Entry, AllOps, NoLocals, Locals, Frames
<1>2. ASSUME NEW t \in Threads, ReturnTrue(t) PROVE loc' \in [Threads -> Locals]
  BY <1>2 DEF ReturnTrue, Return, NoLocals, Locals, Frames
<1>3. ASSUME NEW t \in Threads, AddLock(t) PROVE loc' \in [Threads -> Locals]
  BY <1>3 DEF AddLock
<1>4. ASSUME NEW t \in Threads, AddExisting(t) PROVE loc' \in [Threads -> Locals]
  BY <1>4 DEF AddExisting
<1>5. ASSUME NEW t \in Threads, AddLink(t) PROVE loc' \in [Threads -> Locals]
  <2>1. (CHOOSE x \in Free : TRUE) \in Elem \cup {Nil}
    BY <1>5 DEF AddLink, Free
  <2>2. [loc[t] EXCEPT !.elem = (CHOOSE x \in Free : TRUE)] \in Locals
    BY <2>1, LocalsUpdate
  <2>. QED  BY <1>5, <2>2 DEF AddLink
<1>6. ASSUME NEW t \in Threads, AddUnlock(t) PROVE loc' \in [Threads -> Locals]
  BY <1>6 DEF AddUnlock, Return, NoLocals, Locals, Frames
<1>7. ASSUME NEW t \in Threads, AddCheck(t) PROVE loc' \in [Threads -> Locals]
  BY <1>7 DEF AddCheck
<1>8. ASSUME NEW t \in Threads, RemoveOldestEmpty(t) PROVE loc' \in [Threads -> Locals]
  BY <1>8 DEF RemoveOldestEmpty
<1>9. ASSUME NEW t \in Threads, RemoveOldestBack(t) PROVE loc' \in [Threads -> Locals]
  <2>1. heap[Last(queue)].key \in Key \cup {Nil}
    BY <1>9 DEF RemoveOldestBack, Last, ListTypeOK
  <2>2. [loc[t] EXCEPT !.vic = heap[Last(queue)].key] \in Locals
    BY <2>1, LocalsUpdate
  <2>. QED  BY <1>9, <2>2 DEF RemoveOldestBack
<1>10. ASSUME NEW t \in Threads, BackIsRoot(t) PROVE loc' \in [Threads -> Locals]
  BY <1>10 DEF BackIsRoot
<1>11. ASSUME NEW t \in Threads, RemoveLock(t) PROVE loc' \in [Threads -> Locals]
  BY <1>11 DEF RemoveLock
<1>12. ASSUME NEW t \in Threads, RemoveMissing(t) PROVE loc' \in [Threads -> Locals]
  BY <1>12 DEF RemoveMissing, Return, NoLocals, Locals, Frames
<1>13. ASSUME NEW t \in Threads, RemoveUnlink(t) PROVE loc' \in [Threads -> Locals]
  <2>1. items[loc[t].vic] \in Elem \cup {Nil}
    BY <1>13 DEF RemoveUnlink, CallerInv, PointerInv, ListTypeOK
  <2>2. [loc[t] EXCEPT !.elem = items[loc[t].vic]] \in Locals
    BY <2>1, LocalsUpdate
  <2>. QED  BY <1>13, <2>2 DEF RemoveUnlink
<1>14. ASSUME NEW t \in Threads, RemoveUnlock(t) PROVE loc' \in [Threads -> Locals]
  BY <1>14 DEF RemoveUnlock
<1>15. ASSUME NEW t \in Threads, OnRemove(t) PROVE loc' \in [Threads -> Locals]
  <2>1. [loc[t] EXCEPT !.elem = Nil, !.vic = Nil] \in Locals
    BY LocalsUpdate
  <2>. QED  BY <1>15, <2>1 DEF OnRemove
<1>16. ASSUME NEW t \in Threads, DoGetRLock(t) PROVE loc' \in [Threads -> Locals]
  BY <1>16 DEF DoGetRLock
<1>17. ASSUME NEW t \in Threads, DoGetRUnlock(t) PROVE loc' \in [Threads -> Locals]
  <2>1. items[loc[t].key] \in Elem \cup {Nil}
    BY <1>17 DEF DoGetRUnlock, CallerInv, PointerInv, ListTypeOK
  <2>2. [loc[t] EXCEPT !.ent = items[loc[t].key]] \in Locals
    BY <2>1, LocalsUpdate
  <2>. QED  BY <1>17, <2>2 DEF DoGetRUnlock
<1>18. ASSUME NEW t \in Threads, DoGetValue(t) PROVE loc' \in [Threads -> Locals]
  <2>1. heap[loc[t].ent].value \in Val \cup {Nil}
    BY <1>18 DEF DoGetValue, CallerInv, PointerInv, ListTypeOK
  <2>2. [loc[t] EXCEPT !.val = heap[loc[t].ent].value] \in Locals
    BY <2>1, LocalsUpdate
  <2>. QED  BY <1>18, <2>2 DEF DoGetValue
<1>19. ASSUME NEW t \in Threads, GetHit(t) PROVE loc' \in [Threads -> Locals]
  BY <1>19 DEF GetHit, Return, NoLocals, Locals, Frames
<1>20. ASSUME NEW t \in Threads, GetMiss(t) PROVE loc' \in [Threads -> Locals]
  BY <1>20 DEF GetMiss, Return, NoLocals, Locals, Frames
<1>21. ASSUME NEW t \in Threads, DoLead(t) PROVE loc' \in [Threads -> Locals]
  BY <1>21 DEF DoLead, Return, NoLocals, Locals, Frames
<1>22. ASSUME NEW t \in Threads, DoJoin(t) PROVE loc' \in [Threads -> Locals]
  BY <1>22 DEF DoJoin
<1>23. ASSUME NEW t \in Threads, DoHit(t) PROVE loc' \in [Threads -> Locals]
  <2>1. heap[loc[t].ent].value \in Val \cup {Nil}
    BY <1>23 DEF DoHit, CallerInv, PointerInv, ListTypeOK
  <2>2. [loc[t] EXCEPT !.val = heap[loc[t].ent].value] \in Locals
    BY <2>1, LocalsUpdate
  <2>. QED  BY <1>23, <2>2 DEF DoHit
<1>24. ASSUME NEW t \in Threads, Load(t) PROVE loc' \in [Threads -> Locals]
  <2>1. \A v \in Val : [loc[t] EXCEPT !.val = v, !.frame = "Load"] \in Locals
    BY LocalsUpdate
  <2>. QED  BY <1>24, <2>1 DEF Load
<1>25. ASSUME NEW t \in Threads, LoadError(t) PROVE loc' \in [Threads -> Locals]
  BY <1>25 DEF LoadError
<1>26. ASSUME NEW t \in Threads, DoEnd(t) PROVE loc' \in [Threads -> Locals]
  <2>1. loc[t].val \in Val \cup {Nil}
    BY DEF Locals
  <2>2. \A u \in Threads : [loc[u] EXCEPT !.val = loc[t].val] \in Locals
    BY <2>1, LocalsUpdate
  <2>. QED  BY <1>26, <2>2 DEF DoEnd
<1>27. ASSUME NEW t \in Threads, TakeReturn(t) PROVE loc' \in [Threads -> Locals]
  BY <1>27 DEF TakeReturn, Return, NoLocals, Locals, Frames
<1>28. ASSUME NEW t \in Threads, GetOldest(t) PROVE loc' \in [Threads -> Locals]
  BY <1>28 DEF GetOldest, Return, NoLocals, Locals, Frames
<1>29. ASSUME NEW t \in Threads, ContainsRLock(t) PROVE loc' \in [Threads -> Locals]
  BY <1>29 DEF ContainsRLock
<1>30. ASSUME NEW t \in Threads, ContainsDefer(t) PROVE loc' \in [Threads -> Locals]
  <2>1. items[loc[t].key] \in Elem \cup {Nil}
    BY <1>30 DEF ContainsDefer, CallerInv, PointerInv, ListTypeOK
  <2>2. [loc[t] EXCEPT !.ent = items[loc[t].key]] \in Locals
    BY <2>1, LocalsUpdate
  <2>. QED  BY <1>30, <2>2 DEF ContainsDefer
<1>31. ASSUME NEW t \in Threads, ContainsReturn(t) PROVE loc' \in [Threads -> Locals]
  BY <1>31 DEF ContainsReturn, Return, NoLocals, Locals, Frames
<1>32. ASSUME NEW t \in Threads, RangeBack(t) PROVE loc' \in [Threads -> Locals]
  <2>1. CASE len = 0
    BY <1>32, <2>1 DEF RangeBack
  <2>2. CASE len # 0
    <3>1. Last(queue) \in Elem
      BY <1>32, <2>2 DEF RangeBack, Last, ListTypeOK
    <3>2. [loc[t] EXCEPT !.ent = Last(queue)] \in Locals
      BY <3>1, LocalsUpdate
    <3>. QED  BY <1>32, <2>2, <3>2 DEF RangeBack
  <2>. QED  BY <2>1, <2>2
<1>33. ASSUME NEW t \in Threads, RangeVisit(t) PROVE loc' \in [Threads -> Locals]
  BY <1>33 DEF RangeVisit
<1>34. ASSUME NEW t \in Threads, RangePrev(t) PROVE loc' \in [Threads -> Locals]
  <2>1. Prev(queue, loc[t].ent) \in Elem \cup {Nil}
    BY <1>34 DEF RangePrev, Prev, IndexIn, ToSet, ListTypeOK
  <2>2. [loc[t] EXCEPT !.ent = Prev(queue, loc[t].ent)] \in Locals
    BY <2>1, LocalsUpdate
  <2>. QED  BY <1>34, <2>2 DEF RangePrev
<1>35. ASSUME NEW t \in Threads, RangeEnd(t) PROVE loc' \in [Threads -> Locals]
  BY <1>35 DEF RangeEnd, Return, NoLocals, Locals, Frames
<1>36. CASE UNCHANGED vars
  BY SMTT(40), <1>36 DEF vars, list, lock, client
<1>. QED
  BY <1>1, <1>2, <1>3, <1>4, <1>5, <1>6, <1>7, <1>8, <1>9, <1>10, <1>11,
     <1>12, <1>13, <1>14, <1>15, <1>16, <1>17, <1>18, <1>19, <1>20, <1>21,
     <1>22, <1>23, <1>24, <1>25, <1>26, <1>27, <1>28, <1>29, <1>30, <1>31,
     <1>32, <1>33, <1>34, <1>35, <1>36
  DEF Next, Step, Stopped

\* Each step knows its caller, its key and its victim.
LEMMA CallerStep ==
  ASSUME ListTypeOK, ThreadTypeOK, CallerInv, ListInv, [Next]_vars
  PROVE  CallerInv'
<1> USE LRUAssumption DEF ThreadTypeOK, Locals, Frames, CallerInv, At, Goto,
             Return, NoLocals
<1>1. ASSUME NEW t \in Threads, NEW op \in Ops, NEW k \in Key \cup {Nil},
             NEW v \in Val \cup {Nil}, Call(t, op, k, v)
      PROVE  CallerInv'
  BY <1>1 DEF Call, Entry, AllOps, KeyOps
<1>2. ASSUME NEW t \in Threads, ReturnTrue(t) PROVE CallerInv'
  BY <1>2 DEF ReturnTrue
<1>3. ASSUME NEW t \in Threads, AddLock(t) PROVE CallerInv'
  BY <1>3 DEF AddLock
<1>4. ASSUME NEW t \in Threads, AddExisting(t) PROVE CallerInv'
  BY <1>4, ResumeCases DEF AddExisting
<1>5. ASSUME NEW t \in Threads, AddLink(t) PROVE CallerInv'
  BY <1>5 DEF AddLink
<1>6. ASSUME NEW t \in Threads, AddUnlock(t) PROVE CallerInv'
  BY <1>6 DEF AddUnlock
<1>7. ASSUME NEW t \in Threads, AddCheck(t) PROVE CallerInv'
  BY <1>7, ResumeCases DEF AddCheck
<1>8. ASSUME NEW t \in Threads, RemoveOldestEmpty(t) PROVE CallerInv'
  BY <1>8, ResumeCases DEF RemoveOldestEmpty
<1>9. ASSUME NEW t \in Threads, RemoveOldestBack(t) PROVE CallerInv'
  <2>1. heap[Last(queue)].key \in Key
    BY <1>9 DEF RemoveOldestBack, Last, ListTypeOK, ListInv
  <2>. QED  BY <1>9, <2>1 DEF RemoveOldestBack
<1>10. ASSUME NEW t \in Threads, BackIsRoot(t) PROVE CallerInv'
  BY <1>10 DEF BackIsRoot
<1>11. ASSUME NEW t \in Threads, RemoveLock(t) PROVE CallerInv'
  BY <1>11 DEF RemoveLock
<1>12. ASSUME NEW t \in Threads, RemoveMissing(t) PROVE CallerInv'
  BY <1>12, ResumeCases DEF RemoveMissing
<1>13. ASSUME NEW t \in Threads, RemoveUnlink(t) PROVE CallerInv'
  BY <1>13 DEF RemoveUnlink
<1>14. ASSUME NEW t \in Threads, RemoveUnlock(t) PROVE CallerInv'
  BY <1>14 DEF RemoveUnlock
<1>15. ASSUME NEW t \in Threads, OnRemove(t) PROVE CallerInv'
  BY <1>15, ResumeCases DEF OnRemove
<1>16. ASSUME NEW t \in Threads, DoGetRLock(t) PROVE CallerInv'
  BY <1>16 DEF DoGetRLock
<1>17. ASSUME NEW t \in Threads, DoGetRUnlock(t) PROVE CallerInv'
  BY <1>17 DEF DoGetRUnlock
<1>18. ASSUME NEW t \in Threads, DoGetValue(t) PROVE CallerInv'
  BY <1>18 DEF DoGetValue
<1>19. ASSUME NEW t \in Threads, GetHit(t) PROVE CallerInv'
  BY <1>19 DEF GetHit
<1>20. ASSUME NEW t \in Threads, GetMiss(t) PROVE CallerInv'
  BY <1>20 DEF GetMiss
<1>21. ASSUME NEW t \in Threads, DoLead(t) PROVE CallerInv'
  BY <1>21 DEF DoLead
<1>22. ASSUME NEW t \in Threads, DoJoin(t) PROVE CallerInv'
  BY <1>22 DEF DoJoin
<1>23. ASSUME NEW t \in Threads, DoHit(t) PROVE CallerInv'
  BY <1>23 DEF DoHit
<1>24. ASSUME NEW t \in Threads, Load(t) PROVE CallerInv'
  BY <1>24 DEF Load
<1>25. ASSUME NEW t \in Threads, LoadError(t) PROVE CallerInv'
  BY <1>25 DEF LoadError
<1>26. ASSUME NEW t \in Threads, DoEnd(t) PROVE CallerInv'
  BY <1>26 DEF DoEnd
<1>27. ASSUME NEW t \in Threads, TakeReturn(t) PROVE CallerInv'
  BY <1>27 DEF TakeReturn
<1>28. ASSUME NEW t \in Threads, GetOldest(t) PROVE CallerInv'
  BY <1>28 DEF GetOldest
<1>29. ASSUME NEW t \in Threads, ContainsRLock(t) PROVE CallerInv'
  BY <1>29 DEF ContainsRLock
<1>30. ASSUME NEW t \in Threads, ContainsDefer(t) PROVE CallerInv'
  BY <1>30 DEF ContainsDefer
<1>31. ASSUME NEW t \in Threads, ContainsReturn(t) PROVE CallerInv'
  BY <1>31 DEF ContainsReturn
<1>32. ASSUME NEW t \in Threads, RangeBack(t) PROVE CallerInv'
  BY <1>32 DEF RangeBack
<1>33. ASSUME NEW t \in Threads, RangeVisit(t) PROVE CallerInv'
  BY <1>33 DEF RangeVisit
<1>34. ASSUME NEW t \in Threads, RangePrev(t) PROVE CallerInv'
  BY <1>34 DEF RangePrev
<1>35. ASSUME NEW t \in Threads, RangeEnd(t) PROVE CallerInv'
  BY <1>35 DEF RangeEnd
<1>36. CASE UNCHANGED vars
  BY SMTT(40), <1>36 DEF vars, list, lock, client
<1>. QED
  BY <1>1, <1>2, <1>3, <1>4, <1>5, <1>6, <1>7, <1>8, <1>9, <1>10, <1>11,
     <1>12, <1>13, <1>14, <1>15, <1>16, <1>17, <1>18, <1>19, <1>20, <1>21,
     <1>22, <1>23, <1>24, <1>25, <1>26, <1>27, <1>28, <1>29, <1>30, <1>31,
     <1>32, <1>33, <1>34, <1>35, <1>36
  DEF Next, Step, Stopped

\* Each step has the element it is about to use, and that element holds a key.
LEMMA PointerStep ==
  ASSUME ListTypeOK, ThreadTypeOK, CallerInv, PointerInv, ListInv, [Next]_vars
  PROVE  PointerInv'
<1> USE LRUAssumption DEF ListTypeOK, ThreadTypeOK, Locals, Frames, CalleePc,
             PointerInv, At, Goto, Return, NoLocals, list
<1>1. ASSUME NEW t \in Threads, NEW op \in Ops, NEW k \in Key \cup {Nil},
             NEW v \in Val \cup {Nil}, Call(t, op, k, v)
      PROVE  PointerInv'
  BY <1>1 DEF Call, Entry, AllOps, KeyOps
<1>2. ASSUME NEW t \in Threads, ReturnTrue(t) PROVE PointerInv'
  BY <1>2 DEF ReturnTrue
<1>3. ASSUME NEW t \in Threads, AddLock(t) PROVE PointerInv'
  BY <1>3 DEF AddLock
<1>4. ASSUME NEW t \in Threads, AddExisting(t) PROVE PointerInv'
  BY <1>4, ResumeCases DEF AddExisting
<1>5. ASSUME NEW t \in Threads, AddLink(t) PROVE PointerInv'
  <2> DEFINE e == CHOOSE x \in Free : TRUE
  <2>1. e \in Elem
    BY <1>5 DEF AddLink, Free
  <2>2. loc[t].key \in Key
    BY <1>5 DEF AddLink, CallerInv
  <2>3. /\ heap' = [heap EXCEPT ![e] = [key |-> loc[t].key, value |-> loc[t].val]]
        /\ loc' = [loc EXCEPT ![t].elem = e]
        /\ pc' = [pc EXCEPT ![t] = "Add.linked"]
        /\ pc[t] = "Add.locked"
    BY <1>5 DEF AddLink
  <2> HIDE DEF e
  <2>. QED  BY <2>1, <2>2, <2>3
<1>6. ASSUME NEW t \in Threads, AddUnlock(t) PROVE PointerInv'
  BY <1>6 DEF AddUnlock
<1>7. ASSUME NEW t \in Threads, AddCheck(t) PROVE PointerInv'
  BY <1>7, ResumeCases DEF AddCheck
<1>8. ASSUME NEW t \in Threads, RemoveOldestEmpty(t) PROVE PointerInv'
  BY <1>8, ResumeCases DEF RemoveOldestEmpty
<1>9. ASSUME NEW t \in Threads, RemoveOldestBack(t) PROVE PointerInv'
  BY <1>9 DEF RemoveOldestBack
<1>10. ASSUME NEW t \in Threads, BackIsRoot(t) PROVE PointerInv'
  BY <1>10 DEF BackIsRoot
<1>11. ASSUME NEW t \in Threads, RemoveLock(t) PROVE PointerInv'
  BY <1>11 DEF RemoveLock
<1>12. ASSUME NEW t \in Threads, RemoveMissing(t) PROVE PointerInv'
  BY <1>12, ResumeCases DEF RemoveMissing
<1>13. ASSUME NEW t \in Threads, RemoveUnlink(t) PROVE PointerInv'
  BY <1>13 DEF RemoveUnlink, CallerInv
<1>14. ASSUME NEW t \in Threads, RemoveUnlock(t) PROVE PointerInv'
  BY <1>14 DEF RemoveUnlock
<1>15. ASSUME NEW t \in Threads, OnRemove(t) PROVE PointerInv'
  BY <1>15, ResumeCases DEF OnRemove
<1>16. ASSUME NEW t \in Threads, DoGetRLock(t) PROVE PointerInv'
  BY <1>16 DEF DoGetRLock
<1>17. ASSUME NEW t \in Threads, DoGetRUnlock(t) PROVE PointerInv'
  BY <1>17 DEF DoGetRUnlock, CallerInv, ListInv
<1>18. ASSUME NEW t \in Threads, DoGetValue(t) PROVE PointerInv'
  BY <1>18 DEF DoGetValue
<1>19. ASSUME NEW t \in Threads, GetHit(t) PROVE PointerInv'
  BY <1>19 DEF GetHit
<1>20. ASSUME NEW t \in Threads, GetMiss(t) PROVE PointerInv'
  BY <1>20 DEF GetMiss
<1>21. ASSUME NEW t \in Threads, DoLead(t) PROVE PointerInv'
  BY <1>21 DEF DoLead
<1>22. ASSUME NEW t \in Threads, DoJoin(t) PROVE PointerInv'
  BY <1>22 DEF DoJoin
<1>23. ASSUME NEW t \in Threads, DoHit(t) PROVE PointerInv'
  BY <1>23 DEF DoHit
<1>24. ASSUME NEW t \in Threads, Load(t) PROVE PointerInv'
  BY <1>24 DEF Load
<1>25. ASSUME NEW t \in Threads, LoadError(t) PROVE PointerInv'
  BY <1>25 DEF LoadError
<1>26. ASSUME NEW t \in Threads, DoEnd(t) PROVE PointerInv'
  BY <1>26 DEF DoEnd
<1>27. ASSUME NEW t \in Threads, TakeReturn(t) PROVE PointerInv'
  BY <1>27 DEF TakeReturn
<1>28. ASSUME NEW t \in Threads, GetOldest(t) PROVE PointerInv'
  BY <1>28 DEF GetOldest
<1>29. ASSUME NEW t \in Threads, ContainsRLock(t) PROVE PointerInv'
  BY <1>29 DEF ContainsRLock
<1>30. ASSUME NEW t \in Threads, ContainsDefer(t) PROVE PointerInv'
  BY <1>30 DEF ContainsDefer, CallerInv, ListInv
<1>31. ASSUME NEW t \in Threads, ContainsReturn(t) PROVE PointerInv'
  BY <1>31 DEF ContainsReturn
<1>32. ASSUME NEW t \in Threads, RangeBack(t) PROVE PointerInv'
  BY <1>32 DEF RangeBack, Last, CallerInv, ListInv
<1>33. ASSUME NEW t \in Threads, RangeVisit(t) PROVE PointerInv'
  BY <1>33 DEF RangeVisit
<1>34. ASSUME NEW t \in Threads, RangePrev(t) PROVE PointerInv'
  BY <1>34 DEF RangePrev, Prev, IndexIn, ToSet, CallerInv, ListInv
<1>35. ASSUME NEW t \in Threads, RangeEnd(t) PROVE PointerInv'
  BY <1>35 DEF RangeEnd
<1>36. CASE UNCHANGED vars
  BY <1>36 DEF vars, list, lock, client
<1>. QED
  BY <1>1, <1>2, <1>3, <1>4, <1>5, <1>6, <1>7, <1>8, <1>9, <1>10, <1>11,
     <1>12, <1>13, <1>14, <1>15, <1>16, <1>17, <1>18, <1>19, <1>20, <1>21,
     <1>22, <1>23, <1>24, <1>25, <1>26, <1>27, <1>28, <1>29, <1>30, <1>31,
     <1>32, <1>33, <1>34, <1>35, <1>36
  DEF Next, Step, Stopped

-----------------------------------------------------------------------------
(* The callback and Do. *)

\* The entry of a pending onRemove is out of reach, and in no other onRemove.
LEMMA NotifyStep ==
  ASSUME ListTypeOK, ThreadTypeOK, LockInv, CallerInv, PointerInv, ListInv,
         NotifyInv, [Next]_vars
  PROVE  NotifyInv'
<1> USE LRUAssumption DEF ThreadTypeOK, Locals, NotifyInv, At, Goto, Return, Resume,
             NoLocals, list
<1>1. ASSUME NEW t \in Threads, NEW op \in Ops, NEW k \in Key \cup {Nil},
             NEW v \in Val \cup {Nil}, Call(t, op, k, v)
      PROVE  NotifyInv'
  BY <1>1 DEF Call, Entry, AllOps, KeyOps
<1>2. ASSUME NEW t \in Threads, ReturnTrue(t) PROVE NotifyInv'
  BY <1>2 DEF ReturnTrue
<1>3. ASSUME NEW t \in Threads, AddLock(t) PROVE NotifyInv'
  BY <1>3 DEF AddLock
<1>4. ASSUME NEW t \in Threads, AddExisting(t) PROVE NotifyInv'
  <2>1. \A i \in DOMAIN queue' : \E j \in DOMAIN queue : queue'[i] = queue[j]
    BY <1>4, ListAddExisting
  <2>2. UNCHANGED <<items, loc>> /\ pc' = [pc EXCEPT ![t] = Resume(loc[t].frame)]
    BY <1>4 DEF AddExisting
  <2>3. Resume(loc[t].frame) # "onRemove"
    BY DEF Resume
  <2>. QED  BY <2>1, <2>2, <2>3
<1>5. ASSUME NEW t \in Threads, AddLink(t) PROVE NotifyInv'
  <2>1. PICK e \in Elem :
          /\ loc' = [loc EXCEPT ![t].elem = e]
          /\ \A u \in Threads : loc[u].elem # e
          /\ \A i \in DOMAIN queue' :
               queue'[i] = e \/ \E j \in DOMAIN queue : queue'[i] = queue[j]
    BY <1>5, ListAddLink
  <2>2. items' = items /\ pc' = [pc EXCEPT ![t] = "Add.linked"]
    BY <1>5 DEF AddLink
  <2>. QED  BY <2>1, <2>2
<1>6. ASSUME NEW t \in Threads, AddUnlock(t) PROVE NotifyInv'
  <2>1. \E i \in DOMAIN queue : queue[i] = loc[t].elem
    BY <1>6 DEF AddUnlock, ListInv
  <2>2. loc[t].key \in Key
    BY <1>6 DEF AddUnlock, CallerInv
  <2>. QED  BY <1>6, <2>1, <2>2 DEF AddUnlock, ListTypeOK
<1>7. ASSUME NEW t \in Threads, AddCheck(t) PROVE NotifyInv'
  BY <1>7 DEF AddCheck
<1>8. ASSUME NEW t \in Threads, RemoveOldestEmpty(t) PROVE NotifyInv'
  BY <1>8 DEF RemoveOldestEmpty
<1>9. ASSUME NEW t \in Threads, RemoveOldestBack(t) PROVE NotifyInv'
  BY <1>9 DEF RemoveOldestBack
<1>10. ASSUME NEW t \in Threads, BackIsRoot(t) PROVE NotifyInv'
  BY <1>10 DEF BackIsRoot
<1>11. ASSUME NEW t \in Threads, RemoveLock(t) PROVE NotifyInv'
  BY <1>11 DEF RemoveLock
<1>12. ASSUME NEW t \in Threads, RemoveMissing(t) PROVE NotifyInv'
  BY <1>12 DEF RemoveMissing
<1>13. ASSUME NEW t \in Threads, RemoveUnlink(t) PROVE NotifyInv'
  <2>1. \A i \in DOMAIN queue' : \E j \in DOMAIN queue : queue'[i] = queue[j]
    BY <1>13, ListRemoveUnlink
  <2>2. /\ items' = items /\ pc' = [pc EXCEPT ![t] = "Remove.unlinked"]
        /\ loc' = [loc EXCEPT ![t].elem = items[loc[t].vic]]
    BY <1>13 DEF RemoveUnlink
  <2>. QED  BY <2>1, <2>2
<1>14. ASSUME NEW t \in Threads, RemoveUnlock(t) PROVE NotifyInv'
  <2> DEFINE e == loc[t].elem
  <2>1. /\ pc' = [pc EXCEPT ![t] = "onRemove"] /\ loc' = loc /\ queue' = queue
        /\ items' = [items EXCEPT ![loc[t].vic] = Nil]
        /\ pc[t] = "Remove.unlinked"
    BY <1>14 DEF RemoveUnlock
  <2>2. /\ loc[t].vic \in Key /\ e \in Elem /\ items[loc[t].vic] = e
        /\ \A i \in DOMAIN queue : queue[i] # e
    BY <2>1 DEF ListInv, CallerInv, PointerInv
  <2>3. \A k \in Key : items[k] = e => k = loc[t].vic
    BY <2>2 DEF ListInv
  <2>4. \A k \in Key : items'[k] # e
    BY <2>1, <2>2, <2>3 DEF ListTypeOK
  <2>5. \A u \in Threads : pc[u] = "onRemove" => loc[u].elem # e
    BY <2>2
  <2>6. \A u \in Threads : pc[u] = "onRemove" => loc[u].elem # Nil
    BY DEF PointerInv
  <2>7. \A k \in Key : items'[k] \in {items[k], Nil}
    BY <2>1, <2>2 DEF ListTypeOK
  <2> HIDE DEF e
  <2>. QED  BY <2>1, <2>2, <2>4, <2>5, <2>6, <2>7 DEF e
<1>15. ASSUME NEW t \in Threads, OnRemove(t) PROVE NotifyInv'
  BY <1>15 DEF OnRemove
<1>16. ASSUME NEW t \in Threads, DoGetRLock(t) PROVE NotifyInv'
  BY <1>16 DEF DoGetRLock
<1>17. ASSUME NEW t \in Threads, DoGetRUnlock(t) PROVE NotifyInv'
  BY <1>17 DEF DoGetRUnlock
<1>18. ASSUME NEW t \in Threads, DoGetValue(t) PROVE NotifyInv'
  BY <1>18 DEF DoGetValue
<1>19. ASSUME NEW t \in Threads, GetHit(t) PROVE NotifyInv'
  BY <1>19 DEF GetHit
<1>20. ASSUME NEW t \in Threads, GetMiss(t) PROVE NotifyInv'
  BY <1>20 DEF GetMiss
<1>21. ASSUME NEW t \in Threads, DoLead(t) PROVE NotifyInv'
  BY <1>21 DEF DoLead
<1>22. ASSUME NEW t \in Threads, DoJoin(t) PROVE NotifyInv'
  BY <1>22 DEF DoJoin
<1>23. ASSUME NEW t \in Threads, DoHit(t) PROVE NotifyInv'
  BY <1>23 DEF DoHit
<1>24. ASSUME NEW t \in Threads, Load(t) PROVE NotifyInv'
  BY <1>24 DEF Load
<1>25. ASSUME NEW t \in Threads, LoadError(t) PROVE NotifyInv'
  BY <1>25 DEF LoadError
<1>26. ASSUME NEW t \in Threads, DoEnd(t) PROVE NotifyInv'
  BY <1>26 DEF DoEnd
<1>27. ASSUME NEW t \in Threads, TakeReturn(t) PROVE NotifyInv'
  BY <1>27 DEF TakeReturn
<1>28. ASSUME NEW t \in Threads, GetOldest(t) PROVE NotifyInv'
  BY <1>28 DEF GetOldest
<1>29. ASSUME NEW t \in Threads, ContainsRLock(t) PROVE NotifyInv'
  BY <1>29 DEF ContainsRLock
<1>30. ASSUME NEW t \in Threads, ContainsDefer(t) PROVE NotifyInv'
  BY <1>30 DEF ContainsDefer
<1>31. ASSUME NEW t \in Threads, ContainsReturn(t) PROVE NotifyInv'
  BY <1>31 DEF ContainsReturn
<1>32. ASSUME NEW t \in Threads, RangeBack(t) PROVE NotifyInv'
  BY <1>32 DEF RangeBack
<1>33. ASSUME NEW t \in Threads, RangeVisit(t) PROVE NotifyInv'
  BY <1>33 DEF RangeVisit
<1>34. ASSUME NEW t \in Threads, RangePrev(t) PROVE NotifyInv'
  BY <1>34 DEF RangePrev
<1>35. ASSUME NEW t \in Threads, RangeEnd(t) PROVE NotifyInv'
  BY <1>35 DEF RangeEnd
<1>36. CASE UNCHANGED vars
  BY <1>36 DEF vars, list, lock, client
<1>. QED
  BY <1>1, <1>2, <1>3, <1>4, <1>5, <1>6, <1>7, <1>8, <1>9, <1>10, <1>11,
     <1>12, <1>13, <1>14, <1>15, <1>16, <1>17, <1>18, <1>19, <1>20, <1>21,
     <1>22, <1>23, <1>24, <1>25, <1>26, <1>27, <1>28, <1>29, <1>30, <1>31,
     <1>32, <1>33, <1>34, <1>35, <1>36
  DEF Next, Step, Stopped

\* FlightInv is about flight, who is in Do or waits there, and the keys.
LEMMA FlightFrame ==
  ASSUME ClientTypeOK, FlightInv, flight' = flight,
         \A u \in Threads : /\ InDo(u)' <=> InDo(u)
                            /\ pc'[u] = "Do.wait" => pc[u] = "Do.wait"
                            /\ loc'[u].key = loc[u].key
  PROVE  FlightInv'
<1>1. ASSUME NEW u \in Threads, InDo(u)' PROVE flight'[loc'[u].key] = u
  BY <1>1 DEF FlightInv
<1>2. ASSUME NEW k \in Key, flight'[k] # Nil
      PROVE  InDo(flight[k])' /\ loc'[flight[k]].key = k
  <2>1. flight[k] \in Threads
    BY <1>2 DEF ClientTypeOK
  <2>2. InDo(flight[k]) /\ loc[flight[k]].key = k
    BY <1>2 DEF FlightInv
  <2>. QED  BY <2>1, <2>2 DEF InDo
<1>3. \A u \in Threads : pc'[u] = "Do.wait" => flight'[loc'[u].key] # Nil
  BY DEF FlightInv
<1>. QED  BY <1>1, <1>2, <1>3 DEF FlightInv, InDo

\* Range starts without touching what Do looks at.
LEMMA RangeBackEffect ==
  ASSUME ThreadTypeOK, NEW t \in Threads, RangeBack(t)
  PROVE  /\ pc[t] = "Range" /\ flight' = flight
         /\ pc'[t] \in {"Range.end", "Range.visit"}
         /\ \A u \in Threads : u # t => pc'[u] = pc[u]
         /\ \A u \in Threads : loc'[u].frame = loc[u].frame /\ loc'[u].key = loc[u].key
<1> USE DEF ThreadTypeOK, Goto, At
<1>1. CASE len = 0
  BY <1>1 DEF RangeBack
<1>2. CASE len # 0
  <2>1. loc' = [loc EXCEPT ![t].ent = Last(queue)] /\ pc' = [pc EXCEPT ![t] = "Range.visit"]
    BY <1>2 DEF RangeBack
  <2>2. \A u \in Threads : loc[u] \in Locals
    OBVIOUS
  <2>3. \A u \in Threads : loc'[u].frame = loc[u].frame /\ loc'[u].key = loc[u].key
    BY SMTT(40), <2>1, <2>2 DEF Locals
  <2>. QED  BY <2>1, <2>3 DEF RangeBack
<1>. QED  BY <1>1, <1>2

\* flight names the goroutine in Do for a key.
LEMMA FlightStep ==
  ASSUME ClientTypeOK, ThreadTypeOK, CallerInv, FlightInv, [Next]_vars
  PROVE  FlightInv'
<1> USE LRUAssumption DEF ClientTypeOK, ThreadTypeOK, CallerInv, Frames, FlightInv,
             InDo, At, Goto, Resume, Return, NoLocals
<1>1. ASSUME NEW t \in Threads, NEW op \in Ops, NEW k \in Key \cup {Nil},
             NEW v \in Val \cup {Nil}, Call(t, op, k, v)
      PROVE  FlightInv'
  BY <1>1 DEF Call, Entry, AllOps, KeyOps
<1>2. ASSUME NEW t \in Threads, ReturnTrue(t) PROVE FlightInv'
  BY <1>2 DEF ReturnTrue
<1>3. ASSUME NEW t \in Threads, AddLock(t) PROVE FlightInv'
  BY <1>3 DEF AddLock
<1>4. ASSUME NEW t \in Threads, AddExisting(t) PROVE FlightInv'
  BY <1>4 DEF AddExisting
<1>5. ASSUME NEW t \in Threads, AddLink(t) PROVE FlightInv'
  BY <1>5 DEF AddLink
<1>6. ASSUME NEW t \in Threads, AddUnlock(t) PROVE FlightInv'
  BY <1>6 DEF AddUnlock
<1>7. ASSUME NEW t \in Threads, AddCheck(t) PROVE FlightInv'
  BY <1>7 DEF AddCheck
<1>8. ASSUME NEW t \in Threads, RemoveOldestEmpty(t) PROVE FlightInv'
  BY <1>8 DEF RemoveOldestEmpty
<1>9. ASSUME NEW t \in Threads, RemoveOldestBack(t) PROVE FlightInv'
  BY <1>9 DEF RemoveOldestBack
<1>10. ASSUME NEW t \in Threads, BackIsRoot(t) PROVE FlightInv'
  BY <1>10 DEF BackIsRoot
<1>11. ASSUME NEW t \in Threads, RemoveLock(t) PROVE FlightInv'
  BY <1>11 DEF RemoveLock
<1>12. ASSUME NEW t \in Threads, RemoveMissing(t) PROVE FlightInv'
  BY <1>12 DEF RemoveMissing
<1>13. ASSUME NEW t \in Threads, RemoveUnlink(t) PROVE FlightInv'
  BY <1>13 DEF RemoveUnlink
<1>14. ASSUME NEW t \in Threads, RemoveUnlock(t) PROVE FlightInv'
  BY <1>14 DEF RemoveUnlock
<1>15. ASSUME NEW t \in Threads, OnRemove(t) PROVE FlightInv'
  BY <1>15 DEF OnRemove
<1>16. ASSUME NEW t \in Threads, DoGetRLock(t) PROVE FlightInv'
  BY <1>16 DEF DoGetRLock
<1>17. ASSUME NEW t \in Threads, DoGetRUnlock(t) PROVE FlightInv'
  BY <1>17 DEF DoGetRUnlock
<1>18. ASSUME NEW t \in Threads, DoGetValue(t) PROVE FlightInv'
  BY <1>18 DEF DoGetValue
<1>19. ASSUME NEW t \in Threads, GetHit(t) PROVE FlightInv'
  BY <1>19 DEF GetHit
<1>20. ASSUME NEW t \in Threads, GetMiss(t) PROVE FlightInv'
  BY <1>20 DEF GetMiss
<1>21. ASSUME NEW t \in Threads, DoLead(t) PROVE FlightInv'
  BY <1>21 DEF DoLead
<1>22. ASSUME NEW t \in Threads, DoJoin(t) PROVE FlightInv'
  BY <1>22 DEF DoJoin
<1>23. ASSUME NEW t \in Threads, DoHit(t) PROVE FlightInv'
  BY <1>23 DEF DoHit
<1>24. ASSUME NEW t \in Threads, Load(t) PROVE FlightInv'
  BY <1>24 DEF Load
<1>25. ASSUME NEW t \in Threads, LoadError(t) PROVE FlightInv'
  BY <1>25 DEF LoadError
<1>26. ASSUME NEW t \in Threads, DoEnd(t) PROVE FlightInv'
  BY <1>26 DEF DoEnd
<1>27. ASSUME NEW t \in Threads, TakeReturn(t) PROVE FlightInv'
  BY <1>27 DEF TakeReturn
<1>28. ASSUME NEW t \in Threads, GetOldest(t) PROVE FlightInv'
  BY <1>28 DEF GetOldest
<1>29. ASSUME NEW t \in Threads, ContainsRLock(t) PROVE FlightInv'
  BY <1>29 DEF ContainsRLock
<1>30. ASSUME NEW t \in Threads, ContainsDefer(t) PROVE FlightInv'
  BY <1>30 DEF ContainsDefer
<1>31. ASSUME NEW t \in Threads, ContainsReturn(t) PROVE FlightInv'
  BY <1>31 DEF ContainsReturn
<1>32. ASSUME NEW t \in Threads, RangeBack(t) PROVE FlightInv'
  <2>1. /\ pc[t] = "Range" /\ flight' = flight
        /\ pc'[t] \in {"Range.end", "Range.visit"} /\ \A u \in Threads : u # t => pc'[u] = pc[u]
        /\ \A u \in Threads : loc'[u].frame = loc[u].frame /\ loc'[u].key = loc[u].key
    BY <1>32, RangeBackEffect
  <2>2. loc[t].frame = "Client"
    BY <2>1
  <2>3. \A u \in Threads : /\ InDo(u)' <=> InDo(u)
                          /\ pc'[u] = "Do.wait" => pc[u] = "Do.wait"
    BY <2>1, <2>2
  <2>. QED  BY <2>1, <2>3, FlightFrame
<1>33. ASSUME NEW t \in Threads, RangeVisit(t) PROVE FlightInv'
  BY <1>33 DEF RangeVisit
<1>34. ASSUME NEW t \in Threads, RangePrev(t) PROVE FlightInv'
  BY <1>34 DEF RangePrev
<1>35. ASSUME NEW t \in Threads, RangeEnd(t) PROVE FlightInv'
  BY <1>35 DEF RangeEnd
<1>36. CASE UNCHANGED vars
  BY <1>36 DEF vars, list, lock, client
<1>. QED
  BY <1>1, <1>2, <1>3, <1>4, <1>5, <1>6, <1>7, <1>8, <1>9, <1>10, <1>11,
     <1>12, <1>13, <1>14, <1>15, <1>16, <1>17, <1>18, <1>19, <1>20, <1>21,
     <1>22, <1>23, <1>24, <1>25, <1>26, <1>27, <1>28, <1>29, <1>30, <1>31,
     <1>32, <1>33, <1>34, <1>35, <1>36
  DEF Next, Step, Stopped

\* Counting a hit or a miss.
LEMMA StatUpdate ==
  ASSUME NEW s \in [hit : Nat, miss : Nat]
  PROVE  /\ [s EXCEPT !.hit = s.hit + 1] \in [hit : Nat, miss : Nat]
         /\ [s EXCEPT !.miss = s.miss + 1] \in [hit : Nat, miss : Nat]
OBVIOUS

\* The rest of the type invariant.
LEMMA ClientTypeStep ==
  ASSUME ClientTypeOK, ListTypeOK, ThreadTypeOK, CallerInv, PointerInv, [Next]_vars
  PROVE  ClientTypeOK'
<1> USE LRUAssumption DEF ClientTypeOK, At, Return, client
<1>1. ASSUME NEW t \in Threads, NEW op \in Ops, NEW k \in Key \cup {Nil},
             NEW v \in Val \cup {Nil}, Call(t, op, k, v)
      PROVE  ClientTypeOK'
  BY <1>1 DEF Call
<1>2. ASSUME NEW t \in Threads, ReturnTrue(t) PROVE ClientTypeOK'
  BY <1>2 DEF ReturnTrue
<1>3. ASSUME NEW t \in Threads, AddLock(t) PROVE ClientTypeOK'
  BY <1>3 DEF AddLock
<1>4. ASSUME NEW t \in Threads, AddExisting(t) PROVE ClientTypeOK'
  BY <1>4 DEF AddExisting
<1>5. ASSUME NEW t \in Threads, AddLink(t) PROVE ClientTypeOK'
  BY <1>5 DEF AddLink
<1>6. ASSUME NEW t \in Threads, AddUnlock(t) PROVE ClientTypeOK'
  BY <1>6 DEF AddUnlock
<1>7. ASSUME NEW t \in Threads, AddCheck(t) PROVE ClientTypeOK'
  BY <1>7 DEF AddCheck
<1>8. ASSUME NEW t \in Threads, RemoveOldestEmpty(t) PROVE ClientTypeOK'
  BY <1>8 DEF RemoveOldestEmpty
<1>9. ASSUME NEW t \in Threads, RemoveOldestBack(t) PROVE ClientTypeOK'
  BY <1>9 DEF RemoveOldestBack
<1>10. ASSUME NEW t \in Threads, BackIsRoot(t) PROVE ClientTypeOK'
  BY <1>10 DEF BackIsRoot
<1>11. ASSUME NEW t \in Threads, RemoveLock(t) PROVE ClientTypeOK'
  BY <1>11 DEF RemoveLock
<1>12. ASSUME NEW t \in Threads, RemoveMissing(t) PROVE ClientTypeOK'
  BY <1>12 DEF RemoveMissing
<1>13. ASSUME NEW t \in Threads, RemoveUnlink(t) PROVE ClientTypeOK'
  BY <1>13 DEF RemoveUnlink
<1>14. ASSUME NEW t \in Threads, RemoveUnlock(t) PROVE ClientTypeOK'
  BY <1>14 DEF RemoveUnlock
<1>15. ASSUME NEW t \in Threads, OnRemove(t) PROVE ClientTypeOK'
  BY <1>15 DEF OnRemove
<1>16. ASSUME NEW t \in Threads, DoGetRLock(t) PROVE ClientTypeOK'
  BY <1>16 DEF DoGetRLock
<1>17. ASSUME NEW t \in Threads, DoGetRUnlock(t) PROVE ClientTypeOK'
  BY <1>17 DEF DoGetRUnlock
<1>18. ASSUME NEW t \in Threads, DoGetValue(t) PROVE ClientTypeOK'
  BY <1>18 DEF DoGetValue
<1>19. ASSUME NEW t \in Threads, GetHit(t) PROVE ClientTypeOK'
  <2>1. heap[loc[t].ent].value \in Val \cup {Nil}
    BY <1>19 DEF GetHit, ListTypeOK, PointerInv
  <2>2. [ok |-> TRUE, val |-> heap[loc[t].ent].value] \in [ok : BOOLEAN, val : Val \cup {Nil}]
    BY <2>1
  <2>3. stat' = [stat EXCEPT !.hit = stat.hit + 1]
    BY <1>19 DEF GetHit, IncrementHit
  <2>4. stat' \in [hit : Nat, miss : Nat]
    BY <2>3, StatUpdate
  <2>. QED  BY <1>19, <2>2, <2>4 DEF GetHit
<1>20. ASSUME NEW t \in Threads, GetMiss(t) PROVE ClientTypeOK'
  <2>1. NoResult \in [ok : BOOLEAN, val : Val \cup {Nil}]
    BY DEF NoResult
  <2>2. stat' = [stat EXCEPT !.miss = stat.miss + 1]
    BY <1>20 DEF GetMiss, IncrementMiss
  <2>3. stat' \in [hit : Nat, miss : Nat]
    BY <2>2, StatUpdate
  <2>. QED  BY <1>20, <2>1, <2>3 DEF GetMiss
<1>21. ASSUME NEW t \in Threads, DoLead(t) PROVE ClientTypeOK'
  BY <1>21 DEF DoLead, ListTypeOK, ThreadTypeOK, Locals, PointerInv, CallerInv, NoResult
<1>22. ASSUME NEW t \in Threads, DoJoin(t) PROVE ClientTypeOK'
  BY <1>22 DEF DoJoin
<1>23. ASSUME NEW t \in Threads, DoHit(t) PROVE ClientTypeOK'
  BY <1>23 DEF DoHit
<1>24. ASSUME NEW t \in Threads, Load(t) PROVE ClientTypeOK'
  BY <1>24 DEF Load
<1>25. ASSUME NEW t \in Threads, LoadError(t) PROVE ClientTypeOK'
  BY <1>25 DEF LoadError
<1>26. ASSUME NEW t \in Threads, DoEnd(t) PROVE ClientTypeOK'
  BY <1>26 DEF DoEnd, ListTypeOK, ThreadTypeOK, Locals, PointerInv, CallerInv, NoResult
<1>27. ASSUME NEW t \in Threads, TakeReturn(t) PROVE ClientTypeOK'
  <2>1. loc[t].val \in Val \cup {Nil}
    BY DEF ThreadTypeOK, Locals
  <2>2. [ok |-> loc[t].val # Nil, val |-> loc[t].val] \in [ok : BOOLEAN, val : Val \cup {Nil}]
    BY <2>1
  <2>3. \/ stat' = [stat EXCEPT !.hit = stat.hit + 1]
        \/ stat' = [stat EXCEPT !.miss = stat.miss + 1]
    BY <1>27 DEF TakeReturn, IncrementHit, IncrementMiss
  <2>4. stat' \in [hit : Nat, miss : Nat]
    BY <2>3, StatUpdate
  <2>. QED  BY <1>27, <2>2, <2>4 DEF TakeReturn
<1>28. ASSUME NEW t \in Threads, GetOldest(t) PROVE ClientTypeOK'
  BY <1>28 DEF GetOldest, ListTypeOK, ThreadTypeOK, Locals, PointerInv, CallerInv, NoResult
<1>29. ASSUME NEW t \in Threads, ContainsRLock(t) PROVE ClientTypeOK'
  BY <1>29 DEF ContainsRLock
<1>30. ASSUME NEW t \in Threads, ContainsDefer(t) PROVE ClientTypeOK'
  BY <1>30 DEF ContainsDefer
<1>31. ASSUME NEW t \in Threads, ContainsReturn(t) PROVE ClientTypeOK'
  BY <1>31 DEF ContainsReturn, ListTypeOK, ThreadTypeOK, Locals, PointerInv, CallerInv, NoResult
<1>32. ASSUME NEW t \in Threads, RangeBack(t) PROVE ClientTypeOK'
  BY <1>32 DEF RangeBack
<1>33. ASSUME NEW t \in Threads, RangeVisit(t) PROVE ClientTypeOK'
  BY <1>33 DEF RangeVisit, ListTypeOK, ThreadTypeOK, Locals, PointerInv, CallerInv, NoResult
<1>34. ASSUME NEW t \in Threads, RangePrev(t) PROVE ClientTypeOK'
  BY <1>34 DEF RangePrev
<1>35. ASSUME NEW t \in Threads, RangeEnd(t) PROVE ClientTypeOK'
  BY <1>35 DEF RangeEnd
<1>36. CASE UNCHANGED vars
  BY <1>36 DEF vars, list, lock, client
<1>. QED
  BY <1>1, <1>2, <1>3, <1>4, <1>5, <1>6, <1>7, <1>8, <1>9, <1>10, <1>11,
     <1>12, <1>13, <1>14, <1>15, <1>16, <1>17, <1>18, <1>19, <1>20, <1>21,
     <1>22, <1>23, <1>24, <1>25, <1>26, <1>27, <1>28, <1>29, <1>30, <1>31,
     <1>32, <1>33, <1>34, <1>35, <1>36
  DEF Next, Step, Stopped

-----------------------------------------------------------------------------
\* The empty cache.
LEMMA Initially == Init => IndInv
<1> SUFFICES ASSUME Init PROVE IndInv
  OBVIOUS
<1> USE LRUAssumption DEF Init
<1>1. ListTypeOK /\ LockTypeOK
  BY DEF ListTypeOK, LockTypeOK
<1>2. NoLocals \in Locals /\ NoResult \in [ok : BOOLEAN, val : Val \cup {Nil}]
  BY DEF NoLocals, NoResult, Locals, Frames
<1>3. ThreadTypeOK /\ ClientTypeOK
  <2>1. ThreadTypeOK
    BY <1>2 DEF ThreadTypeOK, Labels
  <2>2. /\ flight \in [Key -> Threads \cup {Nil}] /\ stat \in [hit : Nat, miss : Nat]
        /\ calls \in [all : Nat, lookup : Nat] /\ crashed \in BOOLEAN
    OBVIOUS
  <2>4. <<>> \in Seq(Key)
    OBVIOUS
  <2>5. seen \in [Threads -> Seq(Key)]
    BY <2>4
  <2>3. res \in [Threads -> [ok : BOOLEAN, val : Val \cup {Nil}]]
    BY <1>2
  <2>. QED  BY <2>1, <2>2, <2>3, <2>5 DEF ClientTypeOK
<1>4. LockInv /\ CallerInv /\ PointerInv
  BY DEF LockInv, WriterPc, MidPc, ReaderPc, CallerInv, PointerInv, CalleePc, NoLocals
<1>5. ListInv /\ NotifyInv /\ FlightInv
  BY DEF ListInv, Midway, NotifyInv, FlightInv, InDo, NoLocals
<1>. QED  BY <1>1, <1>3, <1>4, <1>5 DEF IndInv, TypeOK

\* Every step keeps the invariant.
LEMMA Inductive == IndInv /\ [Next]_vars => IndInv'
<1> SUFFICES ASSUME IndInv, [Next]_vars PROVE IndInv'
  OBVIOUS
<1> USE DEF IndInv, TypeOK
<1>1. ListInv' /\ ListTypeOK'
  BY ListStep
<1>2. LockInv' /\ LockTypeOK'
  BY LockStep, LockTypeStep
<1>3. ThreadTypeOK'
  <2>1. pc' \in [Threads -> Labels]
    BY PcStep DEF ThreadTypeOK
  <2>2. loc' \in [Threads -> Locals]
    BY LocStep DEF ThreadTypeOK
  <2>. QED  BY <2>1, <2>2 DEF ThreadTypeOK
<1>4. CallerInv' /\ PointerInv'
  BY CallerStep, PointerStep
<1>5. NotifyInv' /\ FlightInv' /\ ClientTypeOK'
  BY NotifyStep, FlightStep, ClientTypeStep
<1>. QED  BY <1>1, <1>2, <1>3, <1>4, <1>5

\* The methods keep the invariant whatever calls the goroutines make.
THEOREM Invariance == Spec => []IndInv
BY Initially, Inductive, PTL DEF Spec

\* Every variable keeps its type: in particular no read lock is given back
\* twice and no unset key or element is used.
THEOREM TypeCorrect == Spec => []TypeOK
<1>1. IndInv => TypeOK
  BY DEF IndInv
<1>. QED  BY <1>1, Invariance, PTL

\* Whenever no goroutine is in the middle of an update, the list and the map
\* of the cache hold the same entries and l.len counts them.
THEOREM ListMatches == Spec => []ListMatchesMap
<1>1. IndInv => ListMatchesMap
  <2> SUFFICES ASSUME IndInv, ~Midway PROVE ListMatchesMap
    BY DEF ListMatchesMap
  <2>1. ListInv /\ ListTypeOK
    BY DEF IndInv, TypeOK
  <2>2. \A i \in DOMAIN queue : /\ heap[queue[i]].key \in Key
                                /\ items[heap[queue[i]].key] = queue[i]
                                /\ queue[i] \in Elem
    BY <2>1, LenProperties, ElementOfSeq DEF ListInv, ListTypeOK, Added, Midway
  <2>3. \A k \in Key : items[k] # Nil =>
          heap[items[k]].key = k /\ \E i \in DOMAIN queue : queue[i] = items[k]
    BY <2>1 DEF ListInv, Removed, Midway
  <2>4. ToSet(queue) = {items[k] : k \in Key} \ {Nil}
    BY <2>2, <2>3, LRUAssumption DEF ToSet
  <2>. QED  BY <2>1, <2>3, <2>4 DEF ListMatchesMap, ListInv
<1>. QED  BY <1>1, Invariance, PTL

\* onRemove gets an entry nobody can reach any more, and no two callbacks get
\* the same one, although Remove reads the entry after it has unlocked.
THEOREM Notified == Spec => []NotifiedOnce
<1>1. IndInv => NotifiedOnce
  BY DEF IndInv, NotifyInv, NotifiedOnce, ToSet
<1>. QED  BY <1>1, Invariance, PTL

\* Take runs the loader of a key in one goroutine at a time.
THEOREM OneLoader == Spec => []SingleFlight
<1>1. IndInv => SingleFlight
  BY DEF IndInv, TypeOK, ThreadTypeOK, CallerInv, FlightInv, SingleFlight, Loading, InDo
<1>. QED  BY <1>1, Invariance, PTL

\* Whoever waits in Do waits for a goroutine that is inside Do for its key.
THEOREM Waiting == Spec => []NobodyLeftWaiting
<1>1. IndInv => NobodyLeftWaiting
  BY DEF IndInv, TypeOK, ThreadTypeOK, CallerInv, FlightInv, NobodyLeftWaiting, InDo
<1>. QED  BY <1>1, Invariance, PTL

-----------------------------------------------------------------------------
(* Calls and what they promise: the invariant of LRUHistory.               *)

\* Before the update of an Add, and of a Remove, is made.
AddPc == {"Add.lock", "Add.locked", "Add.linked"}
RemovePc == {"Remove.lock", "Remove.locked", "Remove.unlinked"}

\* The steps that end a call.
EndPc == {"return", "Get.hit", "Take.hit", "Get.miss", "Take.return", "GetOldest",
          "Contains.return", "Range.end"}

\* The method each step belongs to.  Only the calls that count as writers of
\* their key reach the steps of Add.
OpInv ==
  \A t \in Threads :
    LET l == loc[t] IN
    /\ pc[t] = "idle" => l = NoLocals
    /\ l.frame = "Get" => l.op = "Get"
    /\ l.frame \in {"Take", "Do", "Load"} => l.op = "Take"
    /\ l.frame = "Client" /\ pc[t] \in AddPc => l.op = "Add"
    /\ l.op = "Add" =>
         /\ l.frame = "Client" /\ l.key \in Key /\ l.val \in Val
         /\ pc[t] \in AddPc \cup RemovePc \cup {"Add.check", "RemoveOldest", "onRemove", "return"}
    /\ l.op = "Remove" =>
         /\ l.frame = "Client" /\ l.key \in Key
         /\ pc[t] \in RemovePc \cup {"onRemove", "return"}
         /\ pc[t] \in RemovePc => l.vic = l.key

LEMMA OpStep ==
  ASSUME ThreadTypeOK, CallerInv, OpInv, [Next]_vars
  PROVE  OpInv'
<1> USE LRUAssumption, ResumeCases DEF ThreadTypeOK, Locals, Frames, At, Goto, AddPc, RemovePc
<1>1. ASSUME NEW t \in Threads, NEW op \in Ops, NEW k \in Key \cup {Nil},
             NEW v \in Val \cup {Nil}, Call(t, op, k, v)
      PROVE  OpInv'
  BY <1>1 DEF Call, Entry, AllOps, KeyOps, OpInv, NoLocals
<1>2. ASSUME NEW t \in Threads,
             \/ ReturnTrue(t) \/ GetHit(t) \/ GetMiss(t) \/ TakeReturn(t)
             \/ GetOldest(t) \/ ContainsReturn(t) \/ RangeEnd(t)
      PROVE  OpInv'
  <2>1. pc' = [pc EXCEPT ![t] = "idle"] /\ loc' = [loc EXCEPT ![t] = NoLocals]
    BY <1>2 DEF Return, ReturnTrue, GetHit, GetMiss, TakeReturn, GetOldest, ContainsReturn, RangeEnd
  <2>. QED  BY <2>1 DEF OpInv, NoLocals
<1>3. ASSUME NEW t \in Threads, AddLock(t) \/ RemoveLock(t)
      PROVE  OpInv'
  BY <1>3 DEF AddLock, RemoveLock, OpInv
<1>4. ASSUME NEW t \in Threads, AddExisting(t) PROVE OpInv'
  BY <1>4 DEF AddExisting, OpInv
<1>5. ASSUME NEW t \in Threads, AddLink(t) PROVE OpInv'
  <2> DEFINE e == CHOOSE x \in Free : TRUE
  <2>1. /\ pc' = [pc EXCEPT ![t] = "Add.linked"] /\ pc[t] = "Add.locked"
        /\ loc' = [loc EXCEPT ![t].elem = e]
    BY <1>5 DEF AddLink
  <2> HIDE DEF e
  <2>. QED  BY <2>1 DEF OpInv
<1>6. ASSUME NEW t \in Threads, AddUnlock(t) PROVE OpInv'
  BY <1>6 DEF AddUnlock, OpInv
<1>7. ASSUME NEW t \in Threads, AddCheck(t) \/ RemoveOldestEmpty(t)
      PROVE  OpInv'
  BY <1>7 DEF AddCheck, RemoveOldestEmpty, OpInv
<1>8. ASSUME NEW t \in Threads, RemoveOldestBack(t) PROVE OpInv'
  BY <1>8 DEF RemoveOldestBack, OpInv
<1>9. ASSUME NEW t \in Threads, RemoveMissing(t) PROVE OpInv'
  BY <1>9 DEF RemoveMissing, OpInv
<1>10. ASSUME NEW t \in Threads, RemoveUnlink(t) PROVE OpInv'
  BY <1>10 DEF RemoveUnlink, OpInv
<1>11. ASSUME NEW t \in Threads, RemoveUnlock(t) PROVE OpInv'
  BY <1>11 DEF RemoveUnlock, OpInv
<1>12. ASSUME NEW t \in Threads, OnRemove(t) PROVE OpInv'
  BY <1>12 DEF OnRemove, OpInv
<1>13. ASSUME NEW t \in Threads, DoGetRLock(t) \/ DoJoin(t) \/ LoadError(t) PROVE OpInv'
  BY <1>13 DEF DoGetRLock, DoJoin, LoadError, OpInv
<1>14. ASSUME NEW t \in Threads, DoGetRUnlock(t) PROVE OpInv'
  BY <1>14 DEF DoGetRUnlock, OpInv, CallerInv
<1>15. ASSUME NEW t \in Threads, DoGetValue(t) PROVE OpInv'
  BY <1>15 DEF DoGetValue, OpInv, CallerInv
<1>16. ASSUME NEW t \in Threads, DoLead(t) PROVE OpInv'
  BY <1>16 DEF DoLead, OpInv, CallerInv
<1>17. ASSUME NEW t \in Threads, DoHit(t) PROVE OpInv'
  BY <1>17 DEF DoHit, OpInv, CallerInv
<1>18. ASSUME NEW t \in Threads, Load(t) PROVE OpInv'
  BY <1>18 DEF Load, OpInv, CallerInv
<1>19. ASSUME NEW t \in Threads, DoEnd(t) PROVE OpInv'
  BY <1>19 DEF DoEnd, OpInv, CallerInv
<1>20. ASSUME NEW t \in Threads, ContainsRLock(t) \/ RangeVisit(t) PROVE OpInv'
  BY <1>20 DEF ContainsRLock, RangeVisit, OpInv
<1>21. ASSUME NEW t \in Threads, ContainsDefer(t) PROVE OpInv'
  BY <1>21 DEF ContainsDefer, OpInv
<1>22. ASSUME NEW t \in Threads, RangeBack(t) PROVE OpInv'
  BY <1>22 DEF RangeBack, OpInv
<1>23. ASSUME NEW t \in Threads, RangePrev(t) PROVE OpInv'
  BY <1>23 DEF RangePrev, OpInv
<1>24. CASE UNCHANGED vars \/ \E t \in Threads : BackIsRoot(t)
  BY <1>24 DEF vars, client, BackIsRoot, OpInv
<1>. QED
  BY <1>1, <1>2, <1>3, <1>4, <1>5, <1>6, <1>7, <1>8, <1>9, <1>10, <1>11, <1>12, <1>13,
     <1>14, <1>15, <1>16, <1>17, <1>18, <1>19, <1>20, <1>21, <1>22, <1>23, <1>24
  DEF Next, Step, Stopped

-----------------------------------------------------------------------------
(* Every step, seen from one goroutine: its call begins, ends or goes on.  *)

Starts(t) ==
  /\ pc[t] = "idle" /\ pc'[t] \notin {"idle", "Add.linked"}
  /\ loc'[t].op = "Add" => pc'[t] \in AddPc
  /\ loc'[t].op = "Remove" => pc'[t] \in RemovePc

Ends(t) == pc[t] \in EndPc /\ pc'[t] = "idle" /\ loc'[t] = NoLocals

GoesOn(u) ==
  /\ (pc'[u] = "idle") <=> (pc[u] = "idle")
  /\ loc'[u].op = loc[u].op /\ loc'[u].key = loc[u].key
  /\ loc[u].op = "Add" => loc'[u].val = loc[u].val
  /\ pc[u] \in AddPc /\ pc'[u] \notin AddPc => AddExisting(u) \/ AddUnlock(u)
  /\ pc[u] \in RemovePc /\ pc'[u] \notin RemovePc => RemoveMissing(u) \/ RemoveUnlock(u)
  /\ pc'[u] = "Add.linked" => AddLink(u) \/ (pc[u] = "Add.linked" /\ loc'[u] = loc[u])

LEMMA CallSteps ==
  ASSUME ThreadTypeOK, CallerInv, OpInv, [Next]_vars
  PROVE  \/ \A u \in Threads : GoesOn(u)
         \/ \E t \in Threads : /\ Starts(t) \/ Ends(t)
                               /\ UNCHANGED list
                               /\ \A u \in Threads \ {t} : GoesOn(u)
<1> USE LRUAssumption, ResumeCases DEF ThreadTypeOK, Locals, Frames, At, Goto, AddPc, RemovePc
<1>1. ASSUME NEW t \in Threads, NEW op \in Ops, NEW k \in Key \cup {Nil},
             NEW v \in Val \cup {Nil}, Call(t, op, k, v)
      PROVE  Starts(t) /\ UNCHANGED list /\ \A u \in Threads \ {t} : GoesOn(u)
  BY <1>1 DEF Call, Entry, AllOps, NoLocals, Starts, GoesOn
<1>2. ASSUME NEW t \in Threads,
             \/ ReturnTrue(t) \/ GetHit(t) \/ GetMiss(t) \/ TakeReturn(t)
             \/ GetOldest(t) \/ ContainsReturn(t) \/ RangeEnd(t)
      PROVE  Ends(t) /\ UNCHANGED list /\ \A u \in Threads \ {t} : GoesOn(u)
  <2>1. /\ pc' = [pc EXCEPT ![t] = "idle"] /\ loc' = [loc EXCEPT ![t] = NoLocals]
        /\ UNCHANGED list /\ pc[t] \in EndPc
    BY <1>2 DEF Return, ReturnTrue, GetHit, GetMiss, TakeReturn, GetOldest, ContainsReturn,
         RangeEnd, EndPc
  <2>. QED  BY <2>1 DEF Ends, GoesOn
<1>3. ASSUME NEW t \in Threads, AddLock(t) \/ RemoveLock(t), NEW u \in Threads
      PROVE  GoesOn(u)
  BY <1>3 DEF AddLock, RemoveLock, GoesOn
<1>4. ASSUME NEW t \in Threads, AddExisting(t), NEW u \in Threads PROVE GoesOn(u)
  <2>1. pc' = [pc EXCEPT ![t] = Resume(loc[t].frame)] /\ pc[t] = "Add.locked" /\ loc' = loc
    BY <1>4 DEF AddExisting
  <2>. QED  BY <1>4, <2>1 DEF GoesOn
<1>5. ASSUME NEW t \in Threads, AddLink(t), NEW u \in Threads PROVE GoesOn(u)
  <2> DEFINE e == CHOOSE x \in Free : TRUE
  <2>1. /\ pc' = [pc EXCEPT ![t] = "Add.linked"] /\ pc[t] = "Add.locked"
        /\ loc' = [loc EXCEPT ![t].elem = e]
    BY <1>5 DEF AddLink
  <2> HIDE DEF e
  <2>. QED  BY <1>5, <2>1 DEF GoesOn
<1>6. ASSUME NEW t \in Threads, AddUnlock(t), NEW u \in Threads PROVE GoesOn(u)
  <2>1. /\ pc' = [pc EXCEPT ![t] = "Add.check"] /\ pc[t] = "Add.linked"
        /\ loc' = [loc EXCEPT ![t].elem = Nil]
    BY <1>6 DEF AddUnlock
  <2>. QED  BY <1>6, <2>1 DEF GoesOn
<1>7. ASSUME NEW t \in Threads, AddCheck(t) \/ RemoveOldestEmpty(t), NEW u \in Threads
      PROVE  GoesOn(u)
  BY <1>7 DEF AddCheck, RemoveOldestEmpty, GoesOn
<1>8. ASSUME NEW t \in Threads, RemoveOldestBack(t), NEW u \in Threads PROVE GoesOn(u)
  BY <1>8 DEF RemoveOldestBack, GoesOn
<1>9. ASSUME NEW t \in Threads, RemoveMissing(t), NEW u \in Threads PROVE GoesOn(u)
  <2>1. /\ pc' = [pc EXCEPT ![t] = Resume(loc[t].frame)] /\ pc[t] = "Remove.locked"
        /\ loc' = [loc EXCEPT ![t].vic = Nil]
    BY <1>9 DEF RemoveMissing
  <2>. QED  BY <1>9, <2>1 DEF GoesOn
<1>10. ASSUME NEW t \in Threads, RemoveUnlink(t), NEW u \in Threads PROVE GoesOn(u)
  BY <1>10 DEF RemoveUnlink, GoesOn
<1>11. ASSUME NEW t \in Threads, RemoveUnlock(t), NEW u \in Threads PROVE GoesOn(u)
  <2>1. pc' = [pc EXCEPT ![t] = "onRemove"] /\ pc[t] = "Remove.unlinked" /\ loc' = loc
    BY <1>11 DEF RemoveUnlock
  <2>. QED  BY <1>11, <2>1 DEF GoesOn
<1>12. ASSUME NEW t \in Threads, OnRemove(t), NEW u \in Threads PROVE GoesOn(u)
  BY <1>12 DEF OnRemove, GoesOn
<1>13. ASSUME NEW t \in Threads, DoGetRLock(t) \/ DoJoin(t) \/ LoadError(t), NEW u \in Threads
       PROVE  GoesOn(u)
  BY <1>13 DEF DoGetRLock, DoJoin, LoadError, GoesOn
<1>14. ASSUME NEW t \in Threads, DoGetRUnlock(t), NEW u \in Threads PROVE GoesOn(u)
  BY <1>14 DEF DoGetRUnlock, GoesOn
<1>15. ASSUME NEW t \in Threads, DoGetValue(t), NEW u \in Threads PROVE GoesOn(u)
  BY <1>15 DEF DoGetValue, GoesOn, OpInv, CallerInv
<1>16. ASSUME NEW t \in Threads, DoLead(t), NEW u \in Threads PROVE GoesOn(u)
  BY <1>16 DEF DoLead, GoesOn
<1>17. ASSUME NEW t \in Threads, DoHit(t), NEW u \in Threads PROVE GoesOn(u)
  BY <1>17 DEF DoHit, GoesOn, OpInv, CallerInv
<1>18. ASSUME NEW t \in Threads, Load(t), NEW u \in Threads PROVE GoesOn(u)
  BY <1>18 DEF Load, GoesOn, OpInv, CallerInv
<1>19. ASSUME NEW t \in Threads, DoEnd(t), NEW u \in Threads PROVE GoesOn(u)
  BY <1>19 DEF DoEnd, GoesOn, OpInv
<1>20. ASSUME NEW t \in Threads, ContainsRLock(t) \/ RangeVisit(t), NEW u \in Threads
       PROVE  GoesOn(u)
  BY <1>20 DEF ContainsRLock, RangeVisit, GoesOn
<1>21. ASSUME NEW t \in Threads, ContainsDefer(t), NEW u \in Threads PROVE GoesOn(u)
  BY <1>21 DEF ContainsDefer, GoesOn
<1>22. ASSUME NEW t \in Threads, RangeBack(t), NEW u \in Threads PROVE GoesOn(u)
  BY <1>22 DEF RangeBack, GoesOn
<1>23. ASSUME NEW t \in Threads, RangePrev(t), NEW u \in Threads PROVE GoesOn(u)
  BY <1>23 DEF RangePrev, GoesOn
<1>24. ASSUME UNCHANGED vars \/ \E t \in Threads : BackIsRoot(t), NEW u \in Threads
       PROVE  GoesOn(u)
  BY <1>24 DEF vars, client, BackIsRoot, GoesOn
<1>. QED
  BY <1>1, <1>2, <1>3, <1>4, <1>5, <1>6, <1>7, <1>8, <1>9, <1>10, <1>11, <1>12, <1>13,
     <1>14, <1>15, <1>16, <1>17, <1>18, <1>19, <1>20, <1>21, <1>22, <1>23, <1>24
  DEF Next, Step, Stopped

-----------------------------------------------------------------------------
(* What a step can do to the entry of a key, and to an entry on its way    *)
(* into the map.                                                           *)

\* Unless an Add of the key is in its critical section, a step leaves the
\* entry of the key as it is, or takes it out.
LEMMA EntryKept ==
  ASSUME ListTypeOK, ThreadTypeOK, CallerInv, ListInv, [Next]_vars, NEW k \in Key,
         \A u \in Threads : pc[u] \in {"Add.locked", "Add.linked"} => loc[u].key # k
  PROVE  \/ items'[k] = Nil
         \/ items'[k] = items[k] /\ heap'[items[k]].value = heap[items[k]].value
<1> USE LRUAssumption DEF ListTypeOK, ThreadTypeOK, Locals, At
<1>1. CASE Untouched
  BY <1>1 DEF Untouched, list
<1>2. ASSUME NEW t \in Threads, AddExisting(t)
      PROVE  items'[k] = items[k] /\ (items[k] # Nil => heap'[items[k]].value = heap[items[k]].value)
  <2>1. PICK e : e = items[loc[t].key]
    OBVIOUS
  <2>2. /\ e # Nil /\ items' = items /\ heap' = [heap EXCEPT ![e].value = loc[t].val]
        /\ pc[t] = "Add.locked"
    BY <1>2, <2>1 DEF AddExisting
  <2>3. loc[t].key \in Key /\ loc[t].key # k
    BY <2>2 DEF CallerInv
  <2>4. heap[e].key = loc[t].key /\ (items[k] # Nil => heap[items[k]].key = k)
    BY <2>1, <2>2, <2>3 DEF ListInv
  <2>5. e # items[k] \/ items[k] = Nil
    BY <2>3, <2>4
  <2>. QED  BY <2>2, <2>5
<1>3. ASSUME NEW t \in Threads, AddLink(t)
      PROVE  items'[k] = items[k] /\ (items[k] # Nil => heap'[items[k]].value = heap[items[k]].value)
  <2>1. PICK e : e = CHOOSE x \in Free : TRUE
    OBVIOUS
  <2>2. /\ items' = items /\ Free # {}
        /\ heap' = [heap EXCEPT ![e] = [key |-> loc[t].key, value |-> loc[t].val]]
    BY <1>3, <2>1 DEF AddLink
  <2>3. items[k] # e
    BY <2>1, <2>2, FreeElement
  <2>. QED  BY <2>2, <2>3
<1>4. ASSUME NEW t \in Threads, AddUnlock(t)
      PROVE  items'[k] = items[k] /\ heap' = heap
  BY <1>4 DEF AddUnlock
<1>5. ASSUME NEW t \in Threads, RemoveUnlink(t)
      PROVE  items'[k] = items[k] /\ heap' = heap
  BY <1>5 DEF RemoveUnlink
<1>6. ASSUME NEW t \in Threads, RemoveUnlock(t)
      PROVE  items'[k] \in {Nil, items[k]} /\ heap' = heap
  BY <1>6 DEF RemoveUnlock
<1>. QED
  BY <1>1, <1>2, <1>3, <1>4, <1>5, <1>6, ListUntouched DEF ListUpdate

\* The entry AddLink has made keeps its value until it is in the map: the
\* goroutine that made it still has the lock.
Linked == \A t \in Threads : pc[t] = "Add.linked" => heap[loc[t].elem].value = loc[t].val

LEMMA LinkedStep ==
  ASSUME ListTypeOK, ThreadTypeOK, LockInv, CallerInv, PointerInv, OpInv, Linked, [Next]_vars
  PROVE  Linked'
<1> SUFFICES ASSUME NEW u \in Threads, pc'[u] = "Add.linked"
             PROVE  heap'[loc'[u].elem].value = loc'[u].val
  BY DEF Linked
<1> USE LRUAssumption DEF ListTypeOK, ThreadTypeOK, Locals, At
<1>1. ASSUME AddLink(u) PROVE heap'[loc'[u].elem].value = loc'[u].val
  <2>1. PICK e : e = CHOOSE x \in Free : TRUE
    OBVIOUS
  <2>2. /\ Free # {} /\ loc' = [loc EXCEPT ![u].elem = e]
        /\ heap' = [heap EXCEPT ![e] = [key |-> loc[u].key, value |-> loc[u].val]]
    BY <1>1, <2>1 DEF AddLink
  <2>3. e \in Elem
    BY <2>1, <2>2, FreeElement
  <2>. QED  BY <2>2, <2>3
<1>2. ASSUME pc[u] = "Add.linked", loc'[u] = loc[u]
      PROVE  heap'[loc[u].elem].value = loc[u].val
  <2>1. ASSUME NEW t \in Threads, AddExisting(t) \/ AddLink(t) PROVE FALSE
    <3>1. pc[t] = "Add.locked"
      BY <2>1 DEF AddExisting, AddLink
    <3>2. u = t
      BY <1>2, <3>1, OneMidway DEF WriterPc, MidPc
    <3>. QED  BY <1>2, <3>1, <3>2
  <2>2. heap' = heap
    BY <2>1, ListUntouched DEF Untouched, list, ListUpdate, AddUnlock, RemoveUnlink, RemoveUnlock
  <2>. QED  BY <1>2, <2>2 DEF Linked
<1>3. GoesOn(u)
  BY CallSteps DEF Starts, Ends
<1>. QED  BY <1>1, <1>2, <1>3 DEF GoesOn

-----------------------------------------------------------------------------
(* The history. *)

HistoryTypeOK ==
  /\ solo \subseteq Threads
  /\ expect \in [Key -> Val \cup {Unknown, Absent}]

\* No goroutine is in a writing call on k.
Quiet(k) == \A u \in Threads : loc[u].op \in Writers => loc[u].key # k

\* A call that has met no rival is the only writer of its key; where a
\* promise holds there is none.
SoloInv ==
  /\ \A t \in solo :
       /\ pc[t] # "idle" /\ loc[t].op \in Writers
       /\ loc[t].key \in Key =>
            \A u \in Threads \ {t} : loc[u].op \in Writers => loc[u].key # loc[t].key
  /\ \A k \in Key : expect[k] # Unknown => Quiet(k)

\* What such a call has done is done from its update to its return.
Holds(k, v) == items[k] # Nil => heap[items[k]].value = v

SoloDone ==
  \A t \in solo :
    /\ loc[t].op = "Add" /\ pc[t] \notin AddPc => Holds(loc[t].key, loc[t].val)
    /\ loc[t].op = "Remove" /\ pc[t] \notin RemovePc => items[loc[t].key] = Nil

HInv == /\ IndInv /\ OpInv /\ Linked
        /\ HistoryTypeOK /\ SoloInv /\ SoloDone /\ AddSticks /\ RemoveSticks

\* A step of HNext, by what it does to the history.
Nothing == (\A u \in Threads : GoesOn(u)) /\ UNCHANGED <<solo, expect>>
Beginning(t) == Starts(t) /\ HBegin(t) /\ UNCHANGED list /\ \A u \in Threads \ {t} : GoesOn(u)
Returning(t) == Ends(t) /\ HReturn(t) /\ UNCHANGED list /\ \A u \in Threads \ {t} : GoesOn(u)

LEMMA HistorySteps ==
  ASSUME ThreadTypeOK, CallerInv, OpInv, [HNext]_hvars
  PROVE  Nothing \/ \E t \in Threads : Beginning(t) \/ Returning(t)
<1>1. CASE UNCHANGED hvars
  <2>1. pc' = pc /\ loc' = loc /\ solo' = solo /\ expect' = expect
    BY <1>1 DEF hvars, vars
  <2>. QED  BY <2>1 DEF Nothing, GoesOn
<1>2. CASE HNext /\ \A u \in Threads : GoesOn(u)
  <2>1. \A u \in Threads : ~Begins(u) /\ ~Returns(u)
    BY <1>2 DEF GoesOn, Begins, Returns
  <2>. QED  BY <1>2, <2>1 DEF HNext, Nothing
<1>3. ASSUME HNext, NEW t \in Threads, Starts(t) \/ Ends(t), UNCHANGED list,
             \A u \in Threads \ {t} : GoesOn(u)
      PROVE  Beginning(t) \/ Returning(t)
  <2>1. \A u \in Threads \ {t} : ~Begins(u) /\ ~Returns(u)
    BY <1>3 DEF GoesOn, Begins, Returns
  <2>2. CASE Starts(t)
    <3>1. Begins(t)
      BY <2>2 DEF Starts, Begins
    <3>2. t = CHOOSE u \in Threads : Begins(u)
      BY <2>1, <3>1
    <3>. QED  BY <1>3, <2>2, <3>1, <3>2 DEF HNext, Beginning
  <2>3. CASE Ends(t)
    <3>1. Returns(t) /\ ~Begins(t)
      BY <2>3 DEF Ends, EndPc, Begins, Returns
    <3>2. t = CHOOSE u \in Threads : Returns(u)
      BY <2>1, <3>1
    <3>3. ~\E u \in Threads : Begins(u)
      BY <2>1, <3>1
    <3>. QED  BY <1>3, <2>3, <3>1, <3>2, <3>3 DEF HNext, Returning
  <2>. QED  BY <1>3, <2>2, <2>3
<1>4. ASSUME HNext PROVE [Next]_vars
  BY <1>4 DEF HNext
<1>. QED  BY <1>1, <1>2, <1>3, <1>4, CallSteps

\* What a call promises when it returns.
LEMMA Promised ==
  ASSUME OpInv, NEW t \in Threads, Ends(t), loc[t].op \in {"Add", "Remove"}
  PROVE  /\ loc[t].key \in Key /\ pc[t] \notin AddPc \cup RemovePc
         /\ loc[t].op = "Add" => loc[t].val \in Val
BY DEF OpInv, Ends, EndPc, AddPc, RemovePc

LEMMA HistoryTypeStep ==
  ASSUME ThreadTypeOK, CallerInv, OpInv, HistoryTypeOK, [HNext]_hvars
  PROVE  HistoryTypeOK'
<1> USE DEF HistoryTypeOK
<1>1. CASE Nothing
  BY <1>1 DEF Nothing
<1>2. ASSUME NEW t \in Threads, Beginning(t) PROVE HistoryTypeOK'
  BY <1>2 DEF Beginning, HBegin
<1>3. ASSUME NEW t \in Threads, Returning(t) PROVE HistoryTypeOK'
  <2>1. HReturn(t) /\ Ends(t)
    BY <1>3 DEF Returning
  <2>2. CASE t \in solo /\ loc[t].op = "Add"
    BY <2>1, <2>2, Promised DEF HReturn
  <2>3. CASE t \in solo /\ loc[t].op = "Remove"
    BY <2>1, <2>3, Promised DEF HReturn
  <2>4. CASE ~(t \in solo /\ loc[t].op \in {"Add", "Remove"})
    BY <2>1, <2>4 DEF HReturn
  <2>. QED  BY <2>2, <2>3, <2>4
<1>. QED  BY <1>1, <1>2, <1>3, HistorySteps

LEMMA SoloStep ==
  ASSUME ThreadTypeOK, CallerInv, OpInv, HistoryTypeOK, SoloInv, [HNext]_hvars
  PROVE  SoloInv'
<1> USE LRUAssumption
<1>1. CASE Nothing
  BY <1>1 DEF Nothing, GoesOn, SoloInv, Quiet, HistoryTypeOK
<1>2. ASSUME NEW t \in Threads, Beginning(t) PROVE SoloInv'
  <2>1. PICK k : k = loc'[t].key
    OBVIOUS
  <2>2. /\ pc[t] = "idle" /\ pc'[t] # "idle"
        /\ \A u \in Threads \ {t} : /\ (pc'[u] = "idle") <=> (pc[u] = "idle")
                                    /\ loc'[u].op = loc[u].op /\ loc'[u].key = loc[u].key
    BY <1>2 DEF Beginning, Starts, GoesOn
  <2>3. CASE loc'[t].op \in Writers
    <3>1. /\ solo' = IF Writing(k) = {} THEN solo \cup {t} ELSE solo \ Writing(k)
          /\ expect' = [expect EXCEPT ![k] = Unknown]
      BY <1>2, <2>1, <2>3 DEF Beginning, HBegin
    <3>2. \A j \in Key : expect'[j] # Unknown => j # k /\ Quiet(j)
      BY <3>1 DEF SoloInv, HistoryTypeOK
    <3>3. \A j \in Key : expect'[j] # Unknown => Quiet(j)'
      BY <2>1, <2>2, <3>2 DEF Quiet
    <3>4. ASSUME NEW w \in solo', w # t
          PROVE  /\ w \in Threads /\ w \in solo /\ loc[w].key # k
                 /\ pc'[w] # "idle" /\ loc'[w].op \in Writers
      <4>1. w \in Threads /\ w \in solo /\ w \notin Writing(k)
        BY <3>1, <3>4 DEF HistoryTypeOK, Writing
      <4>. QED  BY <2>2, <3>4, <4>1 DEF SoloInv, Writing
    <3>5. t \notin solo
      BY <2>2 DEF SoloInv
    <3>6. t \in solo' => \A u \in Threads \ {t} : loc[u].op \in Writers => loc[u].key # k
      BY <3>1, <3>5 DEF Writing
    <3>7. ASSUME NEW w \in solo'
          PROVE  /\ pc'[w] # "idle" /\ loc'[w].op \in Writers
                 /\ loc'[w].key \in Key =>
                      \A u \in Threads \ {w} : loc'[u].op \in Writers => loc'[u].key # loc'[w].key
      <4>1. CASE w = t
        BY <2>1, <2>2, <2>3, <3>6, <3>7, <4>1
      <4>2. CASE w # t
        BY <2>1, <2>2, <3>4, <3>7, <4>2 DEF SoloInv
      <4>. QED  BY <4>1, <4>2
    <3>. QED  BY <3>3, <3>7 DEF SoloInv
  <2>4. CASE loc'[t].op \notin Writers
    <3>1. solo' = solo /\ expect' = expect
      BY <1>2, <2>4 DEF Beginning, HBegin
    <3>. QED  BY <2>2, <2>4, <3>1 DEF SoloInv, Quiet, HistoryTypeOK
  <2>. QED  BY <2>3, <2>4
<1>3. ASSUME NEW t \in Threads, Returning(t) PROVE SoloInv'
  <2>1. /\ Ends(t) /\ HReturn(t) /\ solo' = solo \ {t} /\ loc'[t].key = Nil
        /\ \A u \in Threads \ {t} : /\ (pc'[u] = "idle") <=> (pc[u] = "idle")
                                    /\ loc'[u].op = loc[u].op /\ loc'[u].key = loc[u].key
    BY <1>3 DEF Returning, HReturn, Ends, NoLocals, GoesOn
  <2>2. ASSUME NEW w \in solo'
        PROVE  /\ pc'[w] # "idle" /\ loc'[w].op \in Writers
               /\ loc'[w].key \in Key =>
                    \A u \in Threads \ {w} : loc'[u].op \in Writers => loc'[u].key # loc'[w].key
    <3>1. w \in solo /\ w \in Threads /\ w # t
      BY <2>1, <2>2 DEF HistoryTypeOK
    <3>. QED  BY <2>1, <3>1 DEF SoloInv
  <2>3. ASSUME NEW j \in Key, expect'[j] # Unknown PROVE Quiet(j)'
    <3>1. CASE t \in solo /\ loc[t].op \in {"Add", "Remove"} /\ loc[t].key = j
      <4>1. \A u \in Threads \ {t} : loc[u].op \in Writers => loc[u].key # j
        BY <3>1 DEF SoloInv
      <4>. QED  BY <2>1, <4>1 DEF Quiet
    <3>2. CASE ~(t \in solo /\ loc[t].op \in {"Add", "Remove"} /\ loc[t].key = j)
      <4>1. expect'[j] = expect[j]
        BY <2>1, <3>2 DEF HReturn, HistoryTypeOK
      <4>. QED  BY <2>1, <2>3, <4>1 DEF SoloInv, Quiet
    <3>. QED  BY <3>1, <3>2
  <2>. QED  BY <2>2, <2>3 DEF SoloInv
<1>. QED  BY <1>1, <1>2, <1>3, HistorySteps

\* Whoever is in the critical section of an Add is in a writing call.
LEMMA AddsWrite ==
  ASSUME ThreadTypeOK, OpInv, NEW u \in Threads, pc[u] \in AddPc
  PROVE  loc[u].op \in Writers
BY HistoryAssumption DEF ThreadTypeOK, Locals, Frames, OpInv

\* While no other goroutine writes to k, and u is past its own Add of it, a
\* step does not add k.
LEMMA QuietKept ==
  ASSUME IndInv, OpInv, [Next]_vars, NEW k \in Key, NEW t \in Threads,
         \A u \in Threads \ {t} : loc[u].op \in Writers => loc[u].key # k,
         pc[t] \notin AddPc \/ loc[t].key # k
  PROVE  \/ items'[k] = Nil
         \/ items'[k] = items[k] /\ heap'[items[k]].value = heap[items[k]].value
<1>1. ListTypeOK /\ ThreadTypeOK /\ CallerInv /\ ListInv
  BY DEF IndInv, TypeOK
<1>2. \A u \in Threads : pc[u] \in {"Add.locked", "Add.linked"} => loc[u].key # k
  BY <1>1, AddsWrite DEF AddPc
<1>. QED  BY <1>1, <1>2, EntryKept

\* A call that goes on keeps what it has done.
LEMMA DoneKept ==
  ASSUME IndInv, OpInv, Linked, HistoryTypeOK, SoloInv, SoloDone, [Next]_vars,
         NEW w \in solo, GoesOn(w)
  PROVE  /\ loc'[w].op = "Add" /\ pc'[w] \notin AddPc => Holds(loc[w].key, loc[w].val)'
         /\ loc'[w].op = "Remove" /\ pc'[w] \notin RemovePc => items'[loc'[w].key] = Nil
<1> USE LRUAssumption
<1>1. /\ ListTypeOK /\ ThreadTypeOK /\ CallerInv /\ w \in Threads
      /\ loc'[w].op = loc[w].op /\ loc'[w].key = loc[w].key
      /\ loc[w].op = "Add" => loc'[w].val = loc[w].val
      /\ pc[w] \in AddPc /\ pc'[w] \notin AddPc => AddExisting(w) \/ AddUnlock(w)
      /\ pc[w] \in RemovePc /\ pc'[w] \notin RemovePc => RemoveMissing(w) \/ RemoveUnlock(w)
  BY DEF IndInv, TypeOK, HistoryTypeOK, GoesOn
<1>2. PICK k : k = loc[w].key
  OBVIOUS
<1>3. loc[w].op \in {"Add", "Remove"} =>
        /\ k \in Key
        /\ \A u \in Threads \ {w} : loc[u].op \in Writers => loc[u].key # k
  BY <1>1, <1>2 DEF OpInv, SoloInv
<1>4. ASSUME loc[w].op = "Add", pc'[w] \notin AddPc PROVE Holds(k, loc[w].val)'
  <2>1. CASE AddExisting(w)
    <3>1. items' = items /\ heap' = [heap EXCEPT ![items[k]].value = loc[w].val]
      BY <1>2, <2>1 DEF AddExisting
    <3>2. items[k] # Nil => items[k] \in Elem /\ loc'[w].val = loc[w].val
      BY <1>1, <1>3, <1>4 DEF ListTypeOK
    <3>. QED  BY <1>1, <3>1, <3>2 DEF Holds, ListTypeOK
  <2>2. CASE AddUnlock(w)
    <3>1. /\ pc[w] = "Add.linked" /\ heap' = heap
          /\ items' = [items EXCEPT ![k] = loc[w].elem]
      BY <1>2, <2>2 DEF AddUnlock, At
    <3>. QED  BY <1>1, <1>3, <1>4, <3>1 DEF Holds, ListTypeOK, Linked
  <2>3. CASE pc[w] \notin AddPc
    <3>1. Holds(k, loc[w].val)
      BY <1>2, <1>4, <2>3 DEF SoloDone
    <3>2. \/ items'[k] = Nil
          \/ items'[k] = items[k] /\ heap'[items[k]].value = heap[items[k]].value
      BY <1>1, <1>3, <1>4, <2>3, QuietKept
    <3>. QED  BY <1>1, <1>4, <3>1, <3>2 DEF Holds
  <2>. QED  BY <1>1, <1>4, <2>1, <2>2, <2>3
<1>5. ASSUME loc[w].op = "Remove", pc'[w] \notin RemovePc PROVE items'[k] = Nil
  <2>1. CASE RemoveMissing(w)
    <3>1. items' = items /\ items[loc[w].vic] = Nil /\ pc[w] = "Remove.locked"
      BY <2>1 DEF RemoveMissing, At, list
    <3>. QED  BY <1>1, <1>2, <1>5, <3>1 DEF OpInv, RemovePc
  <2>2. CASE RemoveUnlock(w)
    <3>1. items' = [items EXCEPT ![loc[w].vic] = Nil] /\ pc[w] = "Remove.unlinked"
      BY <2>2 DEF RemoveUnlock, At
    <3>. QED  BY <1>1, <1>2, <1>3, <1>5, <3>1 DEF OpInv, RemovePc, ListTypeOK
  <2>3. CASE pc[w] \notin RemovePc
    <3>1. items[k] = Nil
      BY <1>2, <1>5, <2>3 DEF SoloDone
    <3>2. pc[w] \notin AddPc
      BY <1>1, <1>5, <2>3 DEF OpInv, AddPc, RemovePc
    <3>3. \/ items'[k] = Nil
          \/ items'[k] = items[k] /\ heap'[items[k]].value = heap[items[k]].value
      BY <1>1, <1>3, <1>5, <3>2, QuietKept
    <3>. QED  BY <3>1, <3>3
  <2>. QED  BY <1>1, <1>5, <2>1, <2>2, <2>3
<1>. QED  BY <1>1, <1>2, <1>4, <1>5 DEF Holds

LEMMA DoneStep ==
  ASSUME IndInv, OpInv, Linked, HistoryTypeOK, SoloInv, SoloDone, [HNext]_hvars
  PROVE  SoloDone'
<1>1. ThreadTypeOK /\ CallerInv /\ [Next]_vars
  BY DEF IndInv, TypeOK, HNext, hvars, vars
<1>2. SUFFICES ASSUME NEW w \in solo'
               PROVE  /\ loc'[w].op = "Add" /\ pc'[w] \notin AddPc => Holds(loc[w].key, loc[w].val)'
                      /\ loc'[w].op = "Remove" /\ pc'[w] \notin RemovePc => items'[loc'[w].key] = Nil
  BY DEF SoloDone
<1>3. CASE Nothing
  BY <1>1, <1>2, <1>3, DoneKept DEF Nothing, HistoryTypeOK
<1>4. ASSUME NEW t \in Threads, Beginning(t) PROVE (w \in solo /\ w # t) \/ (w = t /\ Starts(t))
  BY <1>2, <1>4 DEF Beginning, HBegin
<1>5. ASSUME NEW t \in Threads, Returning(t) PROVE w \in solo /\ w # t
  BY <1>2, <1>5 DEF Returning, HReturn
<1>6. ASSUME NEW t \in Threads, Beginning(t) \/ Returning(t), w \in solo, w # t
      PROVE  GoesOn(w)
  BY <1>6 DEF Beginning, Returning, HistoryTypeOK
<1>7. CASE w \in solo /\ GoesOn(w)
  BY <1>1, <1>7, DoneKept
<1>8. CASE Starts(w)
  BY <1>8 DEF Starts
<1>. QED
  BY <1>1, <1>3, <1>4, <1>5, <1>6, <1>7, <1>8, HistorySteps

LEMMA SticksStep ==
  ASSUME IndInv, OpInv, HistoryTypeOK, SoloInv, SoloDone, AddSticks, RemoveSticks,
         [HNext]_hvars
  PROVE  AddSticks' /\ RemoveSticks'
<1> USE LRUAssumption, HistoryAssumption
<1>1. ListTypeOK /\ ThreadTypeOK /\ CallerInv /\ [Next]_vars
  BY DEF IndInv, TypeOK, HNext, hvars, vars
\* A promise that is not new: nobody is writing to the key.
<1>2. ASSUME NEW k \in Key, expect'[k] = expect[k]
      PROVE  /\ expect'[k] \in Val /\ items'[k] # Nil => heap'[items'[k]].value = expect'[k]
             /\ expect'[k] = Absent => items'[k] = Nil
  <2>1. CASE expect[k] = Unknown
    BY <1>2, <2>1 DEF Unknown, Absent
  <2>2. CASE expect[k] # Unknown
    <3>1. Quiet(k)
      BY <2>2 DEF SoloInv
    <3>2. \A u \in Threads : pc[u] \in {"Add.locked", "Add.linked"} => loc[u].key # k
      BY <1>1, <3>1, AddsWrite DEF AddPc, Quiet
    <3>3. \/ items'[k] = Nil
          \/ items'[k] = items[k] /\ heap'[items[k]].value = heap[items[k]].value
      BY <1>1, <3>2, EntryKept DEF IndInv
    <3>. QED  BY <1>2, <3>3 DEF AddSticks, RemoveSticks
  <2>. QED  BY <2>1, <2>2
\* A promise made, or withdrawn, by this step.
<1>3. ASSUME NEW k \in Key, expect'[k] # expect[k]
      PROVE  /\ expect'[k] \in Val /\ items'[k] # Nil => heap'[items'[k]].value = expect'[k]
             /\ expect'[k] = Absent => items'[k] = Nil
  <2>1. CASE Nothing
    BY <1>3, <2>1 DEF Nothing
  <2>2. ASSUME NEW t \in Threads, Beginning(t) PROVE expect'[k] = Unknown
    BY <1>3, <2>2 DEF Beginning, HBegin, HistoryTypeOK
  <2>3. ASSUME NEW t \in Threads, Returning(t)
        PROVE  /\ expect'[k] \in Val /\ items'[k] # Nil => heap'[items'[k]].value = expect'[k]
               /\ expect'[k] = Absent => items'[k] = Nil
    <3>1. HReturn(t) /\ Ends(t) /\ items' = items /\ heap' = heap
      BY <2>3 DEF Returning, list
    <3>2. /\ t \in solo /\ loc[t].op \in {"Add", "Remove"} /\ k = loc[t].key
          /\ loc[t].op = "Add" => expect'[k] = loc[t].val
          /\ loc[t].op = "Remove" => expect'[k] = Absent
      BY <1>3, <3>1 DEF HReturn, HistoryTypeOK
    <3>3. /\ loc[t].op = "Add" => Holds(k, expect'[k]) /\ expect'[k] \in Val
          /\ loc[t].op = "Remove" => items[k] = Nil
      BY <3>1, <3>2, Promised DEF SoloDone
    <3>. QED  BY <3>1, <3>2, <3>3 DEF Holds
  <2>. QED  BY <1>1, <2>1, <2>2, <2>3, HistorySteps DEF Unknown, Absent
<1>. QED  BY <1>2, <1>3 DEF AddSticks, RemoveSticks

LEMMA HInitially == HInit => HInv
<1> SUFFICES ASSUME HInit PROVE HInv
  OBVIOUS
<1>1. IndInv
  BY Initially DEF HInit
<1>2. OpInv /\ Linked
  BY DEF HInit, Init, OpInv, Linked, NoLocals, AddPc, RemovePc
<1>3. HistoryTypeOK /\ SoloInv /\ SoloDone /\ AddSticks /\ RemoveSticks
  BY HistoryAssumption DEF HInit, HistoryTypeOK, SoloInv, SoloDone, AddSticks, RemoveSticks,
     Unknown, Absent
<1>. QED  BY <1>1, <1>2, <1>3 DEF HInv

LEMMA HInductive == HInv /\ [HNext]_hvars => HInv'
<1> SUFFICES ASSUME HInv, [HNext]_hvars PROVE HInv'
  OBVIOUS
<1>1. /\ IndInv /\ OpInv /\ Linked
      /\ HistoryTypeOK /\ SoloInv /\ SoloDone /\ AddSticks /\ RemoveSticks
      /\ ListTypeOK /\ ThreadTypeOK /\ LockInv /\ CallerInv /\ PointerInv
  BY DEF HInv, IndInv, TypeOK
<1>2. [Next]_vars
  BY DEF HNext, hvars, vars
<1>3. IndInv' /\ OpInv' /\ Linked'
  BY <1>1, <1>2, Inductive, OpStep, LinkedStep
<1>4. HistoryTypeOK' /\ SoloInv' /\ SoloDone'
  BY <1>1, HistoryTypeStep, SoloStep, DoneStep
<1>5. AddSticks' /\ RemoveSticks'
  BY <1>1, SticksStep
<1>. QED  BY <1>3, <1>4, <1>5 DEF HInv

\* What a key's last Add has put in the cache stays there, or is evicted,
\* until the next call that writes to the key: no other goroutine, whatever
\* it is in the middle of, brings an older value back.
THEOREM Sticks == HSpec => []AddSticks
<1>1. HInv => AddSticks
  BY DEF HInv
<1>. QED  BY <1>1, HInitially, HInductive, PTL DEF HSpec

\* A removed key stays out of the cache until the next call that writes to it.
THEOREM StaysOut == HSpec => []RemoveSticks
<1>1. HInv => RemoveSticks
  BY DEF HInv
<1>. QED  BY <1>1, HInitially, HInductive, PTL DEF HSpec
=============================================================================
