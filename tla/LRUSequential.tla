---------------------------- MODULE LRUSequential ----------------------------
(***************************************************************************)
(* The cache of LRU.tla in the hands of ONE goroutine implements           *)
(* RecencyCache: the steps of a call add up to one atomic operation of a   *)
(* bounded recency list.  (With several goroutines it does not:            *)
(* LRUHistory.tla.)                                                        *)
(***************************************************************************)
EXTENDS LRU

ASSUME OneGoroutine == \E t \in Threads : Threads = {t}

The == CHOOSE t \in Threads : TRUE

\* The operation takes effect when the list changes, or when the map is read
\* and nothing is going to change.  After that point the call runs to its
\* return: the eviction of an Add, the callback of a Remove.
Applied ==
  LET l == loc[The] at == pc[The] IN
  CASE l.op \in {"Remove", "RemoveOldest"} -> at \in {"Remove.unlinked", "onRemove", "return"}
    [] l.op = "Add"      -> at # "Add.lock" /\ at # "Add.locked"
    [] l.op = "Get"      -> at \in {"Get.hit", "Get.miss"}
    [] l.op = "Take"     -> \/ at \in {"Take.hit", "Do.end", "Take.return"}
                            \/ l.frame = "Load" /\ at # "Add.lock" /\ at # "Add.locked"
    [] l.op = "Contains" -> at = "Contains.return"
    [] OTHER             -> FALSE

\* What the call is going to return.
Pending ==
  LET l == loc[The] at == pc[The] IN
  IF at \in {"Get.hit", "Take.hit"} THEN [ok |-> TRUE, val |-> heap[l.ent].value]
  ELSE CASE l.op = "Get"      -> NoResult
         [] l.op = "Take"     -> [ok |-> l.val # Nil, val |-> l.val]
         [] l.op = "Contains" -> [ok |-> l.ent # Nil, val |-> Nil]
         [] OTHER             -> [ok |-> TRUE, val |-> Nil]

\* The call under way, until it takes effect.
Request ==
  LET l == loc[The] IN
  IF l.op = "none" \/ Applied THEN [op |-> "none", key |-> Nil, val |-> Nil]
  ELSE [op |-> l.op, key |-> l.key, val |-> IF l.op = "Add" THEN l.val ELSE Nil]

Entries == [i \in DOMAIN queue |-> heap[queue[i]]]

\* From the link of an Add to the unlink of what it evicts the list has an
\* entry too many, which does not count.
Evicting ==
  /\ loc[The].op \in {"Add", "Take"}
  /\ pc[The] \in {"Add.linked", "Add.check", "RemoveOldest", "Remove.lock", "Remove.locked"}

Kept == IF Evicting /\ Size > 0 /\ Len(queue) > Size THEN SubSeq(Entries, 1, Size) ELSE Entries

Answer == IF Applied THEN Pending ELSE res[The]

Abstract == INSTANCE RecencyCache WITH entries <- Kept, call <- Request, result <- Answer

\* lru.go, used by one goroutine, is an exact LRU cache.  Each call of a
\* method takes effect exactly once, as that operation, on that key and with
\* that value: a Get or Contains misses only a key that is not there, a Remove
\* takes its key out, and the oldest entry goes when an Add or a load makes one
\* more than Size, and neither earlier nor at any other time.
ExactLRU == Abstract!Spec

\* Keys has collected "the keys in the cache, from oldest to newest" (the comment
\* on it in the Cache interface), which is the reverse of the order of the list.
KeysInOrder ==
  pc[The] = "Range.end" /\ loc[The].op = "Keys" =>
    seen[The] = [i \in 1 .. Len(Kept) |-> Kept[Len(Kept) + 1 - i].key]

=============================================================================
