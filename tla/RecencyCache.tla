---------------------------- MODULE RecencyCache ----------------------------
(***************************************************************************)
(* What a bounded LRU cache promises to the goroutine that uses it: the    *)
(* Cache interface of src/cache/cache.go.  The goroutine makes a call, and *)
(* the call takes effect, once, in one atomic step.  The state is the      *)
(* entries, most recently used first, the call that has not taken effect   *)
(* yet, and what the last one that has taken effect returns.               *)
(***************************************************************************)
EXTENDS Naturals, Sequences

CONSTANTS Key, Val, Size, Nil

VARIABLES entries, call, result

NoCall == [op |-> "none", key |-> Nil, val |-> Nil]

Calls ==
  {[op |-> "Add", key |-> k, val |-> v] : k \in Key, v \in Val}
    \cup {[op |-> o, key |-> k, val |-> Nil] : o \in {"Get", "Take", "Remove", "Contains"}, k \in Key}
    \cup {[op |-> o, key |-> Nil, val |-> Nil] : o \in {"RemoveOldest", "Keys", "Range"}}

Keys == {entries[i].key : i \in DOMAIN entries}

IndexOf(k) == CHOOSE i \in DOMAIN entries : entries[i].key = k

Value(k) == entries[IndexOf(k)].value

Without(k) ==
  IF k \in Keys THEN SubSeq(entries, 1, IndexOf(k) - 1) \o SubSeq(entries, IndexOf(k) + 1, Len(entries))
                ELSE entries

Bounded(s) == IF Size > 0 /\ Len(s) > Size THEN SubSeq(s, 1, Size) ELSE s

\* The entry of k becomes the newest; what exceeds Size goes, oldest first.
Put(k, v) == entries' = Bounded(<<[key |-> k, value |-> v]>> \o Without(k))

Begin == call = NoCall /\ call' \in Calls /\ UNCHANGED <<entries, result>>

\* The call has taken effect.
Reply(ok, v) == call' = NoCall /\ result' = [ok |-> ok, val |-> v]

Add == call.op = "Add" /\ Put(call.key, call.val) /\ Reply(TRUE, Nil)

Found == call.key \in Keys

\* A hit makes the entry the newest and leaves its value.
Hit ==
  /\ call.op \in {"Get", "Take"} /\ Found
  /\ Put(call.key, Value(call.key))
  /\ Reply(TRUE, Value(call.key))

Miss == call.op = "Get" /\ ~Found /\ UNCHANGED entries /\ Reply(FALSE, Nil)

\* Take of a key that is not there: the loader has a value, or an error.
Load == call.op = "Take" /\ ~Found /\ \E v \in Val : Put(call.key, v) /\ Reply(TRUE, v)

LoadError == call.op = "Take" /\ ~Found /\ UNCHANGED entries /\ Reply(FALSE, Nil)

Remove == call.op = "Remove" /\ entries' = Without(call.key) /\ Reply(TRUE, Nil)

RemoveOldest ==
  /\ call.op = "RemoveOldest"
  /\ entries' = IF entries = <<>> THEN entries
                ELSE SubSeq(entries, 1, Len(entries) - 1)
  /\ Reply(TRUE, Nil)

Contains == call.op = "Contains" /\ UNCHANGED entries /\ Reply(Found, Nil)

Walk == call.op \in {"Keys", "Range"} /\ UNCHANGED entries /\ Reply(TRUE, Nil)

Init == entries = <<>> /\ call = NoCall /\ result = [ok |-> FALSE, val |-> Nil]

Next ==
  Begin \/ Add \/ Hit \/ Miss \/ Load \/ LoadError \/ Remove \/ RemoveOldest \/ Contains \/ Walk

Spec == Init /\ [][Next]_<<entries, call, result>>
=============================================================================
