# Verification of pkgx

TLA+ models of the concurrent and stateful parts of `pkgx`, the TLC runs that
check them on small instances, and TLAPS proofs of the results that hold for
every instance. `PROJECT.json` lists the components, the runs, the source lines
behind every definition, the hazards and the theorems.

Check a run with `tlc -config Wheel.cfg TimingWheelTimely`, a proof module with
`tlapm LRUProofs.tla`.

## 1. The system

`pkgx` is a library of independent packages. Most calls go from the user's
goroutines into one package and come back; the packages that start goroutines
or share state between callers are the ones modelled first.

| Component | State | Operations | What is hard | What makes it correct |
|---|---|---|---|---|
| LRU cache, `cache/lru`, `cache/cache.go` | a list, a map from keys to its elements, an RWMutex, a singleflight group, counters | Add, Get, Take, Remove, RemoveOldest, GetOldest, Contains, Keys, Range | reads of list and entries outside the lock, eviction after the unlock, loads shared between callers, a lock that is not released | list and map agree; a removed entry is notified once; one loader per key; every call returns; used alone it is an exact LRU |
| Cache manager, `cache/manager.go` | sync.Map of entries, a context, one goroutine per entry | Add, Close, the entry's run and task | Load then Store, a channel that is nil, the order in which the loops start | a name is added once; goroutines end with the context |
| Timing wheel, `collection/timingwheel` | slots of timers, the position of each key's timer, the hand, four channels | SetTimer, RemoveTimer, Close, the tick | one goroutine takes ticks and requests in any order, and itself waits for the workers | one timer per key, in one place, run with the value of the last SetTimer the loop took and in its tick |
| Task runner, `collection/taskrunner` | a buffered channel as a semaphore | Schedule | a place lost or given back twice, nested scheduling | never more than `parallel` tasks, all are run |
| HTTP engine, `httpx/ehttp.go`, `context.go`, `writer.go`, `server.go` | pooled contexts, a chain index in an int8, the response's status and size | ServeHTTP, Next, Abort, Response, Run and Stop | contexts reused by other requests, nested Next, panics | a request sees its own data only; handlers run in order and not after Abort; one status line |
| HTTP router, `router.go`, `tree.go`, `path.go` | a radix tree per method, the greatest number of parameters and slashes of a route | Use, Handle, lookup | splitting edges, children ordered by priority, wildcards beside static children, going back | what is refused does not depend on the order of registration; a lookup ends, and finds a route that matches, with its values |
| Ordered maps: B-tree, AVL tree, B+ tree, skip list (`cache/btree`, `avltree`, `bplustree`, `list`) | linked nodes | insert, search, delete | splits, merges, rotations, the leaf chain | they are all the same map from keys to values, with their own shape invariants |
| Trie, hash map, array list, queue | linked nodes, a slice or a map | insert, search, delete | little | |
| Consistent hash, `modules/hash` | a ring of virtual nodes | a constructor, no operation yet | | |
| Logger, middleware, rendering, client, probes, errors, recovery, env, utils, storage | none, or configuration | | I/O and formatting | |

Interaction: the manager holds caches behind the `Cache` interface and calls the
user's fresher and flusher with them; the HTTP engine looks up routes in the
router's tree and runs the handlers of the route in a context from its pool; the
timing wheel and the task runner call the user's functions in goroutines of
their own. Nothing is persisted and nothing is sent between processes, so there
is no recovery after a crash and no lost message to model; "crash" below is a
Go panic, which takes the whole process with it.

## 2. The modules

### LRU cache

| Module | Contents |
|---|---|
| `LRU` | `lru.go`, any number of goroutines |
| `LRUInvariant` | its inductive invariant `IndInv`, part by part |
| `LRUHistory` | with history variables: what the calls that returned have promised |
| `RecencyCache` | the `Cache` interface as an abstract specification: a call begins, and takes effect in one step |
| `LRUSequential` | `LRU` with one goroutine implements `RecencyCache` |
| `LRUProofs` | the theorems about `LRU` and `LRUHistory`, with the lemmas on what the list helpers return |
| `LRUSequentialProofs` | the refinement, and the order of the keys that Keys returns |

`queue`, `len`, `items`, `heap` are the `container/list`, its length, the map and
the list elements by address; `writer`, `held`, `rwait` are the RWMutex;
`flight` the singleflight group; `stat` the counters. A goroutine is a program
counter `pc`, its locals `loc` and, for Range, the keys visited. The steps are
the critical sections and the places where the code touches shared state without
the lock: `queue.Len()` in `Add` and `queue.Back()` in `RemoveOldest` after the
unlock, `val.value` in `doGet` after the read unlock, the return of `ent.value`
after the nested `Add`, and the walk of `Range`. `Add`, `Remove` and
`RemoveOldest` are called by other methods; `loc.frame` says who is to go on.

A list update is two steps because `container/list` changes the links first and
`len` last: an unlocked `Back` in between can return the list's root, whose nil
`Value` fails the type assertion (`BackIsRoot`). A data race on a single word
(`len`, `ent.value`) returns the old or the new value, as the steps interleave.
The RWMutex follows `sync`: `Lock` announces itself, which stops new readers,
then waits for the readers there are; `Unlock` lets in the readers that came.
`onRemove` is taken to be set and to return.

`RecencyCache` remembers the call under way (`call`): the step that takes effect has
to be the operation of that name, on that key and with that value, and there is one
for each call. `LRUSequential` maps the goroutine's call to it until it is `Applied`
(`Request`). So a call that evicts with room left, misses a key that is there, or
returns from a Remove without having removed, implements nothing.

### Cache manager

`Manager` has one step for each access to shared state in `Add` (Load, `go`,
Store), in the goroutine of an entry (preload, tick, send, leaving a loop, task)
and in `Close` (cancel, Range, the goroutine per entry). `Entry.channel` is never
made in the code, so a send on it blocks for ever, a receive is never ready, and
`close` panics. `MCManager` names the combinations of handles that are tried.

### Timing wheel

`TimingWheel` has the loop's `select` as the choice between `OnTick` and the
hand-overs of the setters (unbuffered channels: sending and receiving are one
step), the scan of a slot one element at a time, since it can block on
`runningChannel` in the middle, and the workers. Time is counted in ticks;
`nanos` is the part of the clock that the code reads as `baseTime`, `Epoch` the
distance from 1970. With these `Due` is true of every timer at every time, so
the circles are computed and never counted down: the branch is in the model, as
in the code, and not taken. `TimingWheelTimely` adds what was asked for, as the loop
took it: `wanted` has the value of the last SetTimer of each key that the loop has
received, and the ticks that are left. A SetTimer with a delay below the interval is
not among them: it pushes its timer to the workers and leaves alone the one that is on
the wheel for its key (a finding).

### Task runner

`TaskRunner` counts the elements in the channel and follows each task from
`Schedule` to the deferred receive. Tasks in `Nesters` call `Schedule`
themselves. `TaskRunnerProofs` proves its safety properties.

### HTTP engine

`Engine` follows a request from `ServeHTTP` to the answer. `routes` stands for
the trees (the lookup is a function here and is `Router`'s subject), `uses` for the middleware
given to `Use`; `pool` and `ctx` are the `sync.Pool` and the contexts by
address; `wire` is what the connection of each request was sent. A context has
its request, chain, index, keys, the caches of query and form, and the status
and "written" flag of its writer. `call` is the goroutine of a request: where it
is in `ServeHTTP`, and the stack of handlers that were started and have not
returned, since `Next` may be called inside a handler. `filter`, which `New`
puts first in every chain, and `Recovery` are handlers of the repository and
call `Next` once; every other handler is the user's and takes any of the steps
in `Acts`, any number of times, before it returns. One call of a method of the
context is one step: a context belongs to one goroutine between `Get` and `Put`
(`OneOwner` is what makes that true). The loop of `Next` is in `Loop`, with the
conversion to `int8` in `Int8`; `Recover` is the unwinding of the stack to the
innermost `Recovery` and what follows it in the loop below.

To have fewer states `Run` forgets `uses`, which nobody reads after it, and
`Put` the writer, which `reset` replaces. `MCEngine` says what the handlers of
each request do. `EngineProofs` has the theorems.

### HTTP router

`Router` is the tree of one method: `node` has the nodes in the order in which
they are made, the root first, and a step is one turn of the loop of
`addRouter`, `insertChild` or `getValue`. `call` has their locals: the node the
call is at, what is left of the path, and for a lookup the values saved so far
and the nodes skipped. A path is a sequence of characters, and a wildcard of a
route one token, which is what `findWildcard` makes of it. `Raised` is
`incrementChildPrio`: children and `indices` are reordered together, and the
tree's shape depends on the order of registration, which is why
`RefusedInAnyOrder` is compared with `Conflict`, which knows nothing of a tree.
A lookup leaves a node by the child that `indices` names and notes the node in
`skipped` if it has a wildcard child too; `Rollback` comes back to it. In the
code it is a copy of the node without indices: here `call.bare`. The capacities
of a context's slices are `MaxParams` and `MaxSections`; a lookup that needs more
skipped nodes panics (`GetChild` to "crashed"), one that needed more values would
violate `ParamsFit`. The routes are all there before the context is made, as in
a server that registers them before it runs.

`MCRouter` has the routes and the paths: shared prefixes, wildcards beside
static children in the same segment and in others, catch-alls, malformed ones.

### Ordered maps

`OrderedMap` is the abstract map: a function from keys to values that can be
asked in the order of its keys. `AVLTree`, `BTree`, `BPlusTree` and `SkipList` are
heaps of linked nodes. `AVLMap`, `BTreeMap`, `BPlusMap` and `SkipListMap` put each
beside the map, on what they share in `MapTree`: each Put, Remove and Clear
changes both, and what a tree repairs afterwards leaves the map alone. Their
properties say that tree and map agree. `Trees` runs one of the four.
`SkipListProofs` has the theorem about the skip list; `AVLTreeProofs` has what can
be said of trees of nodes, of rotations and of the model's operators, and
`AVLProofs` the theorems about the AVL tree.

In the code a call is one recursion. Here it is a first step, down to the place
where a node or an entry is added or taken away, and then one step for each node
that is repaired on the way back. In `AVLTree` these are the frames of `put`,
`remove` and `removeMin` that see their child return true (`fix.path`), each
of which runs `putFix` or `removeFix`; in `BTree` the node that `split` or
`rebalance` has come to (`work.at`). `rebalance` finds the siblings by searching
the parent for the key that was removed, so `work.key` is kept as the code keeps
`deletedKey`. Binary search over ordered entries is its result, a count.

`putFix` has the index `(c+1/2)`, which is `c`: the action `PutPanic` is what
happens on the left. A behaviour of the AVL tree ends there; what a caller that
recovers would do with the tree is not modelled.

In the B+ tree only leaves are split, so it never has more than two levels, and
`BPlusTree` is written for those: a root with the greatest key of each leaf, and
the leaves with keys, records and the chain. Its keys need not be in order when
the code is wrong about them, so `Search` is the binary search itself. Four things
in the code are not what they should be, and the properties say what is true
beside them: `Get` of a key of the root answers with another record
(`BPlusIsTheMap` asks for the others, and for the record in the leaf); a leaf that
borrows from the right has other keys than records (the behaviour ends there); a
leaf without keys makes the rebalance panic (`RemovePanic`, and it ends); a merge
leaves the chain with a leaf that is gone (`BPlusChain` is about trees without a
merge). `work.since` remembers the borrowings and merges; the code has no such
variable.

`SkipList` has the Insert of the skip list, one step for each turn of its search
and one for the last loop. A key that is inserted twice ends the behaviour: the
second element is not in the list, and may be its end.

### Variants

Definitions marked "Bug" or "Repaired" are not part of any specification. Each
is a variant of the action it precedes, or follows, and is used to test that a
property is violated when the code is changed in that way.

## 3. The runs

| Run | Instance | Shows |
|---|---|---|
| `LRU_threads` | 2 goroutines, 2 keys, 1 value, size 1, 3 calls | every interleaving of three calls: list and map agree, each removal is notified once, one loader per key, nobody left waiting, every call returns; `IndInv` holds |
| `LRU_history` | the same with 2 values, 4 calls of the writing methods | what an undisturbed Add or Remove did stays done |
| `LRU_sequential` | 1 goroutine, 3 keys, 2 values, size 2, 5 calls | each call takes effect once, as that operation of an exact LRU cache on that key and value; Keys has the keys from the oldest to the newest |
| `Wheel` | 2 setters, 1 key, 2 values, 3 timers, 2 slots, delays 0 to 2 | positions are exact, a timer is in one place, runs in its tick and with the value of the last SetTimer that the loop took |
| `Wheel_liveness` | 1 setter, 2 timers, Close at any time | every timer leaves the wheel and is executed, unless the wheel is closed |
| `TaskRunner` | 2 callers, 4 tasks, 2 places, 1 nested | the limit holds, no place is lost, all tasks end |
| `Manager` | 2 names, 2 entries, 1 Close | which goroutines end with the context, and which are left behind |
| `Http` | 2 requests, 2 contexts, 1 route, an index of 9 for 127, chains of up to 4 handlers | one owner for each context, keys of one request, handlers in order and none after an abort, no wrap of the index, one answer, an end |
| `Http_query` | the same | **violation**: `GetQuery` answers from the query of an earlier request, since `reset` keeps `queryCache` |
| `Router` | any 3 of 21 routes in any order, 21 paths | routes are refused or not whatever their order, the tree is in shape, a lookup ends, finds a route that matches and the values of that match, and never saves more than the context has room for |
| `Router_found` | the same | **violation**: a path that a route matches is not found, since the lookup does not always go back |
| `Trees` | 9 keys in the AVL tree; 9 keys in B-trees of orders 3, 4 and 5; 7 keys in B+ trees of degrees 2, 3 and 4; 5 keys in a skip list of 3 levels | each is the map at every step (the B-tree not in the middle of a rebalance), answers in order, and keeps its balance and shape |

`PROJECT.json` lists the findings. Those without a run are seen in the code or in
a variant of a run: `Contains` among the `Ops` of `LRU_threads` ends in a
deadlock; three slots and a delay of 4 in `Wheel` violate `NeverEarly`; a `wanted`
that counts the SetTimers of delay 0 makes `Wheel` violate `LatestTaken`, since the
timer on the wheel still runs, later, with the older value; `CloseEntry` of `Manager`
is the panic of a Close when there is an entry;
`SkippedFit` as an invariant of `Router` shows the panic of a lookup that skips two
nodes in one section; without its guards on `since` and on `doubled`, `Trees`
violates `BPlusIsTheMap`, `BPlusChain` and `SkipListInOrder`.

Bounds. `MaxCalls` bounds the calls of a behaviour. Three calls on two
goroutines are enough for the races the code has: each needs at most two
overlapping calls and one before them to fill the cache, and size 1 with two
keys makes the third entry exceed it. `Elem` and `Timer` are heaps; an address is
free again when nothing points to it, and there are more addresses than a
behaviour needs at a time. `Contains` is left out of `LRU_threads`, where it
would block everything at once; `LRU_sequential` has it. Two
slots and delays up to 2 make the wheel wrap, set a key again in the same slot
and in another, and let the scan wait for a worker; one worker (8 in the code)
makes the channel full early. With several goroutines `BackIsRoot` is reachable
and ends the process; with one it is not.

In `Http` the index goes up to 9 instead of 127, so that `abortIndex` is 4 and
the longest chain that `Use` and `Handle` accept has 4 handlers: with nested
`Next`s and an abort in the innermost of them the index reaches exactly 9, and
one handler more would wrap it (the variant `WithinLimitByOne`). Every chain of
`filter` and up to three of `Recovery` and user handlers occurs. One request
has the handlers that drive the chain, the other those that leave something in
a context; two contexts let them overlap and let each get the other's. A handler
calls `Next` at most once (`NextLimit`); `IndexFits` needs that, as the theorem
says.

In `Router` three routes are what it takes to have an edge split below or above a
wildcard, two children that change places, and two skipped nodes. There is
a route for each case of `insertChild` and for each pair of tokens that may
meet at a node; the paths are all those of up to two segments, and some of three.
A priority is above one with two routes, a rollback needs two, and one that
finds another rollback to do needs three.

`CHECK_DEADLOCK FALSE` stands where the system really stops: after `Contains`
the next writer waits for ever, a wheel may be left blocked by its setters, the AVL
tree, the B+ tree or the router has panicked, and the server of `Http` has no more requests when both have been answered.

In `Trees` nine keys give an AVL tree of height four, so that each repair also
happens under a parent that goes on repairing, and a B-tree of order 3 of three
levels, whose inner nodes split, borrow and merge. In the orders 3 and 4 a node
that is too small is empty; order 5 has one with an entry left, and 4 splits
into unequal halves. Fourteen addresses are enough for nine entries, with those
a split needs before it gives up the old node. Each key has a value of its own and
key 1 has two, so that a value under the wrong key and one that was not replaced
are both seen. `View` identifies the states that differ by the names of addresses:
no action and no property looks at them, nodes of a tree have different keys, and
`New` may pick any free address. Every sequence of calls is taken, without a bound
on its length. Seven keys give B+ trees of up to six leaves in degree 2 and
leaves in the middle that split in each degree: 2 has leaves of one key, 3 and 4 halve
equally and not. Leaves borrow and merge in degrees 3 and 4. In degree 2 none is ever
short: a leaf of one key that loses it is empty, which is `RemovePanic`. In the skip list five elements and three
levels have every order of insertion with every choice of levels.

Fairness. Go runs every runnable goroutine, hence weak fairness of the steps of
each goroutine that is in a call. No fairness is assumed of the users: nobody
must call anything. In the wheel a `select` chooses at random among the ready
cases, and senders blocked on a channel are served in the order they came, hence
strong fairness of taking a tick, of the hand-overs and of the pushes. In the
task runner the send is strongly fair for the same reason. In `Http` fairness
is for what the engine does, and for the return of the user's handlers, which is
assumed: a handler may do as it likes, but not for ever. In `Router` a goroutine
in `getValue` goes on (weak fairness); that it ends is `LookupEnds`.

## 4. The proofs

Assumptions are those named in the modules (`LRUAssumption`, `HistoryAssumption`,
`WheelAssumption`, `TaskRunnerAssumption`, `EngineAssumption`, `AVLAssumption`,
`SkipListAssumption`): sizes and bounds are naturals, keys of ordered maps integers,
addresses finitely many, nil is no key, value, address or goroutine, the methods
that write count as writers. `OneGoroutine` is what `LRUSequential` is about. Each is evaluated by TLC in the run
of its module. Some theorems have a hypothesis of their own, `OneNext`, `DelaysFit`
or `NoOldest`, and say less than the code's documentation because the code does
less; see below.

### LRU cache

`LRUProofs!Invariance` proves `Spec => []IndInv` for all goroutines, keys,
values, sizes, and numbers of calls, with every method, `Contains` included. The
properties the runs check do not imply themselves from one step to the next, so
`IndInv` adds what each needs: who can be inside the critical section (`LockInv`:
a goroutine past `Lock` is the announced writer, and a reader there excludes
one past the wait), what a goroutine inside a called method remembers of its
caller (`CallerInv`), which pointers are held where (`PointerInv`), how list and
map differ in the middle of an update, by exactly the element the writer has in
hand (`ListInv`), what the notifiers hold (`NotifyInv`) and who leads or joins
a flight (`FlightInv`). The proof goes action by action; the facts about
sequences without repetition that the list steps need are the module's first
lemmas. From it follow `TypeCorrect`, `ListMatches`, `Notified`, `OneLoader` and
`Waiting`.

Its second part proves `Sticks` and `StaysOut`, the promises of `LRUHistory`.
`HInv` is `IndInv` and five things more. `OpInv` says which call each step
belongs to: only Add, Get and Take, which count as writers, reach the steps of
Add. `Linked`: the entry an Add has linked keeps the Add's value until it is in the
map, since the goroutine still has the lock. `SoloInv`: a call that has met no
rival is the only writer of its key, and where a promise stands nobody is
writing (`Quiet`). `SoloDone`: what such a call does is done from its update to
its return, in particular while it evicts and notifies without the lock. What
makes it inductive is `EntryKept`: whatever a goroutine does in between, unless it
is in the critical section of an Add of the key, the entry of the key stays as it
is or goes. `CallSteps` sorts the steps by what they are for one goroutine, the
beginning, the end or the middle of its call, which is what the history looks at.

`LRUSequentialProofs!Exact` proves the refinement `Spec => ExactLRU` of
`LRUSequential`: for any keys, values, elements, size and calls, every step of
the goroutine is the beginning of a call of `RecencyCache`, the operation of the call
that has begun, or nothing, on `Kept`, `Request` and `Answer`. `Kept` is the entries in the order of the list, without the one that is about
to be evicted; `Answer` is what the call returns, from the moment its result is
settled. Two invariants are added to `IndInv`. `CallInv` lists the steps of each
method (`CallStep`). `AloneInv` says what holds because nobody interferes: what
`doGet` and `Take` have read of the map and of the entry is still so, and the list
is too long by exactly one entry, from the link of an Add to the unlink of the
eviction, which takes out the last entry (`AloneStep`). Then `QuietStep` has the
steps that change neither, `ReadStep` those that settle a result, and
`ExistingStep`, `LinkStep` and `UnlinkStep` the updates of the list, which rest on
`SameKeys`: an entry has the same place in the abstract cache and in the list.
The keys that Keys collects are no part of `Answer`. `OldestFirst` is about them: it
proves `KeysInOrder` from `WalkInv`, which says that the walk has collected the keys
(`Collected`) from the last entry to the one it has come to. The hypothesis `NoOldest`
of both leaves `GetOldest` out, which never returns the entry it has found.

### Timing wheel

`TimingWheelProofs` proves `Positions` and `Places` from `WheelInv`, for any
setters, keys, delays and slots. `PositionsExact` alone is not inductive:
`Found` says it with sets in place of positions in a list, `SlotsOnce` and
`PlacesApart` that a timer is at most once in a slot and not in two of slots, channel,
execution and setters, and `Contents` that what is held anywhere is a request
with a key and a delay. That the clock's `nanos` stays below a second is in it
too: it is what makes `Due` true.

Its second part is about `TimingWheelTimely` and adds `Timely`: for a key on the wheel the hand will
be at its slot in as many ticks as are left, and no ticks are left only in the
scan of that slot. From `TimelyInv` follow `Punctual` (no timer is late, for any
delay), `RunsLatest` (`LatestTaken`), and, if no delay is longer than a turn (`DelaysFit`),
`RunsInItsRound`. Without that hypothesis the last is false, since circles are
never counted down (a finding). The arithmetic is four lemmas on remainders.
`TimelyIsWheel` says that the history variable leaves the wheel alone, so
`Positions` and `Places` hold of `TSpec`.

### Task runner

`TaskRunnerProofs` proves `Places` and `Parallelism`: the channel's length is the
number of goroutines that exist, by the cardinality lemmas of the library.

### HTTP engine

`EngineProofs` proves `TypeCorrect`, `Ownership` and `Keys` for any requests,
contexts, paths and handlers, from `OwnerInv`: besides `OneOwner` it says that a
request has a context exactly while it is being served. `IndexNeverWraps` has
the hypothesis `OneNext` (`NextLimit` at most 1). Its invariant `ChainInv` says
that no chain is longer than `AbortIndex`, that each handler on the stack is at
a place of the chain beyond that of the one that waits for it (so there are at
most `AbortIndex` of them), and that the index, the depth of the stack, and one
more if the running handler has still to call `Next`, together stay within
`MaxInt8`. An abort at the greatest depth just keeps it, since `MaxInt8` is
`2 * AbortIndex + 1`; every return and every `Next` adds one to the index and
takes one from the rest.

The second part of the module has the order and the answer. `EachStep` shows every step
from the side of one request: its call and its context stay as they are, or the request
begins, or acts, or goes through the loop of `Next`; each invariant is then a
proof about one request. `OrderInv` (`InOrder`, `AbortIsFinal`) says that the
handlers that were started are the first of the chain, as many as the index says,
and that after an abort the index is beyond the chain. It needs no hypothesis on
the number of `Next`s: an index that wraps is negative, and the loop then panics
instead of running a handler again. `AnswerInv` says that the writer knows that it
has sent a header exactly when the connection was sent something. `RecoverInv`
is what the last part of `AnsweredOnce` needs, that no panic is lost with Recovery
first: the two handlers at the bottom of the stack are `filter` and `Recovery`,
each waiting for its `Next` to return. It rests on `ChainInv`, so `OneAnswer` has
the hypothesis `OneNext`: a wrapped index could panic in a loop below Recovery,
where nobody recovers.

### Ordered maps

`SkipListProofs` proves `SkipListOrder`: `SkipListInOrder` for any keys, addresses,
number of lanes and choice of levels, no key inserted twice. Its invariant `LInv`
says what each lane has in terms of the order of all elements, not of links
followed one by one: `start` is the first element whose level reaches the lane,
`end` the last one, and `next` the one after (`FirstIn`, `LastIn`, `NextIn`). While
an Insert is in progress the new element is in the lanes that its search has been
through, and `Search` says that the search stands before the new element's place in
the lane it is at.

The AVL tree has `AVLIsATree`, `AVLKeepsBalance` and `AVLAnswersAsTheMap`, for
any set of integer keys, any finite set of addresses and any sequence of calls. A
tree is usually described by recursion over it. Here the invariant `AInv` says that there is
a set `U` of nodes, for each node the set `D[n]` of those from it downwards, and its
height `H[n]`, such that the following is so of each node by itself:

- `Tree`: a node and what is below its two children are apart and are together what
  is below it; children and parents agree; what is below a child is below the node.
- `Ordered`: what is below a node on the left has smaller keys, on the right greater
  ones; and a node that is not below another is on one side of all that is.
- `Content`: the nodes have the keys and the values of the map.
- `Working`: the frames of the recursion are a way from the root (`Way`); each node has
  its height and its balance from its children, but for the one that the call has
  come to, which has them from the height `g` that its child had before (`Torn`), one less
  in a Put and one more in a Remove.

For a rotation, for a node that is linked and for one that gives its place to its
child there is what becomes of `D`, and of `H` (`TurnedTree`, `LinkedTree`,
`SplicedTree`, `TurnedOrder` ..., `SingleHeights`, `LevelHeights`,
`DoubleHeights`); a double rotation is two. On top of these stand what the model's
operators do to the nodes in memory (`RotateIs`, `StoreIs`, `SplicedIs`), and one
lemma for each action (`PutRotateStep` to `RemoveMinStep`). That a double rotation's
inner child exists, that `removeFix` finds a sibling, and that a child that a Put has raised does not stand
level when its parent is repaired follow from the heights. The loops (`Path`,
`MinPath`, `Height`, `Floor`, `Farthest` and `Walk` in the model) are recursive functions of the
natural numbers; `Induction` and `Loop`, which rest on the library's theorem that the
naturals are well-founded, reason about them, and each turn of a loop has fewer nodes
below it than the one before (`FewerBelow`), or more (`ClimbUp`). A behaviour ends with
`PutPanic`, at which the invariant holds too.

### What is only model-checked

Liveness (`CallsReturn`, `TimersLeave`, `TasksFinish`, `CancelEnds`,
`Served`, `LookupEnds`) is out of the prover's reach: the
cache manager has no other properties. Those of the router (`RefusedInAnyOrder`,
`TreeShape`, `FoundMatches`, `ParamsFit`), of the B-tree (`BTreeIsTheMap`,
`BTreeShape`) and of the B+ tree (`BPlusIsTheMap`, `BPlusShape`, `BPlusChain`) are
checked by TLC and not proved. They would need what `AInv` has, a set of nodes below
each node that the invariant says exists, for nodes with any number of children:
splitting, merging and borrowing have many more cases than a rotation.

## 5. Not modelled

See the components of status `not_modelled` in `PROJECT.json`. The wheel's real
time is not modelled, only its ticks, so ticks that are lost while the loop is
busy make no timer late here. `lru.Len` and `Stat` return a field. Memory
reordering beyond the interleaving of the steps is not modelled. Of the engine,
`Run`, `Start` and `Stop` are calls of net/http around the listener; headers,
cookies, path parameters and bodies are data that no property here tells apart;
`filter`'s timeout cancels a context nobody in the engine waits for. Of the
router, the trailing slash recommendation, which the engine does not read,
`findCaseInsensitivePath`, which nobody calls, the unescaping of values and the choice
of the method's tree are left out; so are routes added while requests are served. The trees have
one caller: the B-tree's `Remove`, `Clear`, `Size` and `GetNode` take no lock, so
that more than one goroutine is a data race there.

## 6. Plan

What has state worth following is modelled, and the safety properties of the
concurrent components are proved. Left are:

1. **Theorems**: the B-tree and the B+ tree in the manner of `AVLProofs`; that the
   values a lookup saves fit into its context (`ParamsFit`).
2. **Composition**: `Engine` with `Router` in place of its function `routes`.
3. **The server**: `Run`, `Start` and `Stop` with the calls of net/http as
   external steps.
