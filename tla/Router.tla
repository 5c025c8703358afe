------------------------------- MODULE Router -------------------------------
(***************************************************************************)
(* The radix tree of httpx/tree.go for one method: routes are registered   *)
(* with addRouter, and getValue looks up the path of a request.  Each step *)
(* of the model is one turn of the loop of addRouter, insertChild or       *)
(* getValue; only one call is in progress at a time.                       *)
(*                                                                         *)
(* Paths are sequences of characters, and in a route each wildcard, :name  *)
(* or *name, is one token.  The handlers of a route stand for the route,   *)
(* as does the fullPath that is stored with them; the messages of panics   *)
(* and the trailing slash recommendation, which ehttp.go does not read,    *)
(* are left out.  The characters are such that QueryUnescape keeps them.   *)
(***************************************************************************)
EXTENDS Integers, FiniteSets, SequencesExt

CONSTANTS
  Route,      \* what may be registered
  Request,    \* what may be asked for
  Param,      \* wildcards :name
  CatchAll,   \* wildcards *name
  Nameless,   \* the wildcards that have no name
  MaxRoutes,  \* bounds the routes of a tree
  Nil

VARIABLES
  node,   \* the nodes, by address; the root is the first
  added,  \* the routes registered so far
  call    \* the call in progress

vars == <<node, added, call>>

Wild == Param \cup CatchAll
Addr == DOMAIN node
Slash == <<"/">>

Blank == [path |-> <<>>, indices |-> <<>>, wildChild |-> FALSE, nType |-> "static",
          priority |-> 0, children |-> <<>>, handlers |-> Nil]

Idle == [op |-> "none", of |-> <<>>, at |-> 1, rest |-> <<>>, bare |-> FALSE,
         values |-> <<>>, skipped |-> <<>>, handlers |-> Nil]

TypeOK ==
  /\ \A m \in Addr :
       /\ node[m].nType \in {"static", "root", "param", "catchAll"}
       /\ node[m].priority \in Nat /\ node[m].wildChild \in BOOLEAN
       /\ node[m].handlers \in added \cup {Nil, call.of}
       /\ Range(node[m].children) \subseteq Addr \ {1}
  /\ added \in SUBSET Route /\ call.at \in Addr

Init == node = <<Blank>> /\ added = {} /\ call = Idle

-----------------------------------------------------------------------------
(* addRouter.  n is the node it has come to, rest what is left of the      *)
(* route, i the length of what rest and the node's path have in common.    *)

n == call.at
rest == call.rest
path == node[n].path

After(s, i) == SubSeq(s, i + 1, Len(s))

i == Len(LongestCommonPrefix({rest, path}))
Whole == call.op = "add" /\ i = Len(path)
left == After(rest, i)
c == Head(left)

Panic == call' = [call EXCEPT !.op = "panicked"]
Added == call' = Idle /\ added' = added \cup {call.of}

\* Where the child at pos of node m goes with one priority more: before all that
\* have less.
Place(nodes, m, pos) ==
  LET prio(p) == nodes[nodes[m].children[p]].priority IN
    CHOOSE new \in 1 .. pos :
      /\ \A p \in new .. pos - 1 : prio(p) < prio(pos) + 1
      /\ new > 1 => prio(new - 1) >= prio(pos) + 1

Moved(s, from, to) == InsertAt(RemoveAt(s, from), to, s[from])

\* incrementChildPrio: the index goes where the child goes.
Raised(nodes, m, pos) ==
  [nodes EXCEPT ![m].children = Moved(@, pos, Place(nodes, m, pos)),
                ![m].indices = Moved(@, pos, Place(nodes, m, pos)),
                ![nodes[m].children[pos]].priority = @ + 1]

\* Bug: the wildcard child is not kept at the end.
AtEnd(nd, child) == Append(nd.children, child)

\* addChild: a wildcard child stays the last.
WithChild(nd, child) ==
  IF nd.wildChild /\ nd.children # <<>>
  THEN InsertAt(nd.children, Len(nd.children), child)
  ELSE Append(nd.children, child)

\* The empty tree takes the first route whole.
AddFirst(r) ==
  /\ call.op = "none" /\ path = <<>> /\ node[1].children = <<>>
  /\ node' = [node EXCEPT ![1].priority = @ + 1, ![1].nType = "root"]
  /\ call' = [Idle EXCEPT !.op = "insert", !.of = r, !.rest = r]
  /\ UNCHANGED added

AddStart(r) ==
  /\ call.op = "none" /\ ~(path = <<>> /\ node[1].children = <<>>)
  /\ node' = [node EXCEPT ![1].priority = @ + 1]
  /\ call' = [Idle EXCEPT !.op = "add", !.of = r, !.rest = r]
  /\ UNCHANGED added

\* The node's path is longer than what is in common: a child takes the end of it,
\* with all that was below, and the walk goes on where it is.
SplitEdge ==
  /\ call.op = "add" /\ i < Len(path)
  /\ LET child == [node[n] EXCEPT !.path = After(path, i), !.nType = "static",
                                  !.priority = @ - 1]
     IN node' = Append([node EXCEPT ![n] =
          [@ EXCEPT !.path = SubSeq(path, 1, i), !.indices = <<path[i + 1]>>,
                    !.children = <<Len(node) + 1>>, !.handlers = Nil, !.wildChild = FALSE]], child)
  /\ UNCHANGED <<added, call>>

BelowParam == node[n].nType = "param" /\ c = "/" /\ Len(node[n].children) = 1
Indexed == \E j \in DOMAIN node[n].indices : node[n].indices[j] = c

WalkOn(m) == call' = [call EXCEPT !.at = m, !.rest = left]

WalkBelowParam ==
  /\ Whole /\ left # <<>> /\ BelowParam
  /\ LET m == node[n].children[1] IN
       node' = [node EXCEPT ![m].priority = @ + 1] /\ WalkOn(m)
  /\ UNCHANGED added

WalkIndex ==
  /\ Whole /\ left # <<>> /\ ~BelowParam
  /\ \E pos \in DOMAIN node[n].indices :
       /\ node[n].indices[pos] = c
       /\ node' = Raised(node, n, pos)
       /\ WalkOn(node[n].children[pos])
  /\ UNCHANGED added

Fresh == Whole /\ left # <<>> /\ ~BelowParam /\ ~Indexed

NewChild ==
  /\ Fresh /\ c \notin Wild /\ node[n].nType # "catchAll"
  /\ LET m == Len(node) + 1
         nd == [node[n] EXCEPT !.indices = Append(@, c), !.children = WithChild(node[n], m)]
     IN /\ node' = Raised(Append([node EXCEPT ![n] = nd], Blank), n, Len(nd.indices))
        /\ call' = [call EXCEPT !.op = "insert", !.at = m, !.rest = left]
  /\ UNCHANGED added

NewWildcard ==
  /\ Fresh /\ (c \in Wild \/ node[n].nType = "catchAll") /\ ~node[n].wildChild
  /\ call' = [call EXCEPT !.op = "insert", !.rest = left]
  /\ UNCHANGED <<node, added>>

\* Bug: any wildcard there is taken for the same one.
SameWildcardAny(m) == node[m].nType # "catchAll" /\ c \in Wild

\* The wildcard there is the same one, and not a catch-all.
SameWildcard(m) ==
  /\ node[m].path = <<c>> /\ node[m].nType # "catchAll"
  /\ Len(left) > 1 => left[2] = "/"

OldWildcard ==
  /\ Fresh /\ (c \in Wild \/ node[n].nType = "catchAll") /\ node[n].wildChild
  /\ LET m == Last(node[n].children) IN
       /\ node' = [node EXCEPT ![m].priority = @ + 1]
       /\ IF SameWildcard(m) THEN WalkOn(m) ELSE Panic
  /\ UNCHANGED added

SetHandlers ==
  /\ Whole /\ left = <<>>
  /\ IF node[n].handlers = Nil
     THEN node' = [node EXCEPT ![n].handlers = call.of] /\ Added
     ELSE Panic /\ UNCHANGED <<node, added>>

-----------------------------------------------------------------------------
(* insertChild: rest, which nothing of the tree has in common, goes below n. *)

\* findWildcard: where the first wildcard of rest is, or 0.
w == SelectInSeq(rest, LAMBDA t : t \in Wild)

\* What follows it in its segment.
Tail1 == {j \in w + 1 .. Len(rest) : \A k \in w + 1 .. j : rest[k] # "/"}

InsertStatic ==
  /\ call.op = "insert" /\ w = 0
  /\ node' = [node EXCEPT ![n].path = rest, ![n].handlers = call.of]
  /\ Added

\* One wildcard to a segment, with a name; a catch-all last, after a slash, and
\* below a node that does not end with the slash.
MayInsert ==
  /\ \A j \in Tail1 : rest[j] \notin Wild
  /\ rest[w] \notin Nameless
  /\ rest[w] \in CatchAll =>
       /\ w = Len(rest) /\ w > 1 /\ rest[w - 1] = "/"
       /\ path # <<>> => Last(path) # "/"

InsertPanic ==
  /\ call.op = "insert" /\ w # 0 /\ ~MayInsert
  /\ Panic
  /\ UNCHANGED <<node, added>>

\* A :name, with the prefix before it in n.  What follows it begins with a slash,
\* and goes to a node of its own.
InsertParam ==
  /\ call.op = "insert" /\ w # 0 /\ MayInsert /\ rest[w] \in Param
  /\ LET m == Len(node) + 1
         deeper == w < Len(rest)
         nd == [node[n] EXCEPT !.path = IF w > 1 THEN SubSeq(rest, 1, w - 1) ELSE @,
                               !.children = WithChild(node[n], m), !.wildChild = TRUE]
         param == [Blank EXCEPT !.path = <<rest[w]>>, !.nType = "param", !.priority = 1,
                                !.children = IF deeper THEN <<m + 1>> ELSE <<>>,
                                !.handlers = IF deeper THEN Nil ELSE call.of]
         below == IF deeper THEN <<[Blank EXCEPT !.priority = 1]>> ELSE <<>>
     IN /\ node' = [node EXCEPT ![n] = nd] \o <<param>> \o below
        /\ IF deeper
           THEN call' = [call EXCEPT !.at = m + 1, !.rest = After(rest, w)] /\ UNCHANGED added
           ELSE Added

\* A *name: an empty node for the slash, and below it the one with the handlers.
InsertCatchAll ==
  /\ call.op = "insert" /\ w # 0 /\ MayInsert /\ rest[w] \in CatchAll
  /\ LET m == Len(node) + 1
         nd == [node[n] EXCEPT !.path = SubSeq(rest, 1, w - 2), !.indices = Slash,
                               !.children = WithChild(node[n], m)]
         all == [Blank EXCEPT !.nType = "catchAll", !.priority = 1]
     IN node' = [node EXCEPT ![n] = nd] \o
                <<[all EXCEPT !.wildChild = TRUE, !.children = <<m + 1>>],
                  [all EXCEPT !.path = <<"/", rest[w]>>, !.handlers = call.of]>>
  /\ Added

-----------------------------------------------------------------------------
(* getValue.  Its context is fresh, and was made when all routes were      *)
(* there: newContext gives its slices the room that the routes need.       *)

\* Bug: the value of a catch-all is not counted.
CountColons(r) == Cardinality({j \in DOMAIN r : r[j] \in Param})

CountParams(r) == Cardinality({j \in DOMAIN r : r[j] \in Wild})
CountSections(r) == Cardinality({j \in DOMAIN r : r[j] = "/"})
MaxParams == Max({0} \cup {CountParams(r) % 256 : r \in added})
MaxSections == Max({0} \cup {CountSections(r) % 256 : r \in added})

Get(p) ==
  /\ call.op = "none"
  /\ call' = [Idle EXCEPT !.op = "get", !.of = p, !.rest = p]
  /\ UNCHANGED <<node, added>>

Answer(handlers) == call' = [call EXCEPT !.op = "answered", !.handlers = handlers]

Longer == call.op = "get" /\ Len(rest) > Len(path) /\ IsPrefix(path, rest)
Equal == call.op = "get" /\ rest = path
Shorter == call.op = "get" /\ ~Longer /\ ~Equal

more == After(rest, Len(path))

\* A node that was come back to has no indices any more.
Matching == {j \in DOMAIN node[n].indices : ~call.bare /\ node[n].indices[j] = Head(more)}

\* The nodes with another way to go, if this one fails: the wildcard child.
Skipped ==
  IF node[n].wildChild
  THEN Append(call.skipped, [path |-> rest, at |-> n, count |-> Len(call.values)])
  ELSE call.skipped

GetChild ==
  /\ Longer /\ Matching # {}
  /\ IF Len(Skipped) > MaxSections
     THEN call' = [call EXCEPT !.op = "crashed"]
     ELSE call' = [call EXCEPT !.at = node[n].children[Min(Matching)], !.bare = FALSE,
                               !.rest = more, !.skipped = Skipped]
  /\ UNCHANGED <<node, added>>

\* Where the walk can go back to from s.
Back(s) == {l \in DOMAIN call.skipped : IsSuffix(s, call.skipped[l].path)}

\* Bug: the values of the way that failed are kept.
RollbackKeepsValues(s) ==
  LET l == Max(Back(s)) IN
    call' = [call EXCEPT !.at = call.skipped[l].at, !.bare = TRUE,
                         !.rest = call.skipped[l].path, !.skipped = SubSeq(@, 1, l - 1)]

\* Bug: the node has its indices again.
RollbackWithIndices(s) ==
  LET l == Max(Back(s))
      to == call.skipped[l]
  IN call' = [call EXCEPT !.at = to.at, !.bare = FALSE, !.rest = to.path,
                          !.skipped = SubSeq(@, 1, l - 1), !.values = SubSeq(@, 1, to.count)]

\* Back to the last node that was skipped, and from there to its wildcard child.
Rollback(s) ==
  LET l == Max(Back(s))
      to == call.skipped[l]
  IN call' = [call EXCEPT !.at = to.at, !.bare = TRUE, !.rest = to.path,
                          !.skipped = SubSeq(@, 1, l - 1), !.values = SubSeq(@, 1, to.count)]

GetNothing ==
  /\ Longer /\ Matching = {} /\ ~node[n].wildChild
  /\ IF more # Slash /\ Back(more) # {} THEN Rollback(more) ELSE Answer(Nil)
  /\ UNCHANGED <<node, added>>

Wildcard == Last(node[n].children)
Saved(value) == Append(call.values, [key |-> Last(node[Wildcard].path), value |-> value])

\* What s has before its first slash.
Segment(s) ==
  LET end == SelectInSeq(s, LAMBDA t : t = "/") IN IF end = 0 THEN s ELSE SubSeq(s, 1, end - 1)

GetParam ==
  /\ Longer /\ Matching = {} /\ node[n].wildChild /\ node[Wildcard].nType = "param"
  /\ LET value == Segment(more)
         deeper == Len(value) < Len(more)
         ended == [call EXCEPT !.values = Saved(value), !.op = "answered"]
     IN call' = IF ~deeper THEN [ended EXCEPT !.handlers = node[Wildcard].handlers]
                ELSE IF node[Wildcard].children = <<>> THEN ended
                ELSE [call EXCEPT !.values = Saved(value), !.bare = FALSE,
                                  !.at = node[Wildcard].children[1],
                                  !.rest = After(more, Len(value))]
  /\ UNCHANGED <<node, added>>

GetCatchAll ==
  /\ Longer /\ Matching = {} /\ node[n].wildChild /\ node[Wildcard].nType = "catchAll"
  /\ call' = [call EXCEPT !.values = Saved(more), !.op = "answered",
                          !.handlers = node[Wildcard].handlers]
  /\ UNCHANGED <<node, added>>

GetHere ==
  /\ Equal
  /\ IF node[n].handlers = Nil /\ rest # Slash /\ Back(rest) # {}
     THEN Rollback(rest) ELSE Answer(node[n].handlers)
  /\ UNCHANGED <<node, added>>

\* Without the way back if a route with one slash more would do.
GetShort ==
  /\ Shorter
  /\ IF /\ rest # Slash
        /\ ~(path = rest \o Slash /\ node[n].handlers # Nil)
        /\ Back(rest) # {}
     THEN Rollback(rest) ELSE Answer(Nil)
  /\ UNCHANGED <<node, added>>

Return ==
  /\ call.op = "answered"
  /\ call' = Idle
  /\ UNCHANGED <<node, added>>

-----------------------------------------------------------------------------
addRouter ==
  \/ Cardinality(added) < MaxRoutes /\ \E r \in Route : AddFirst(r) \/ AddStart(r)
  \/ SplitEdge \/ WalkBelowParam \/ WalkIndex \/ NewChild \/ NewWildcard \/ OldWildcard
  \/ SetHandlers

insertChild == InsertStatic \/ InsertPanic \/ InsertParam \/ InsertCatchAll

getValue == GetChild \/ GetNothing \/ GetParam \/ GetCatchAll \/ GetHere \/ GetShort

Next ==
  \/ addRouter \/ insertChild \/ getValue
  \/ Return \/ \E p \in Request : Get(p)

\* A goroutine that looks up a path goes on.
Spec == Init /\ [][Next]_vars /\ WF_vars(getValue)

-----------------------------------------------------------------------------
(* Properties.                                                             *)

\* Whether r has a form that is accepted in an empty tree.
WellFormed(r) ==
  \A j \in DOMAIN r :
    r[j] \in Wild =>
      /\ r[j] \notin Nameless
      /\ \A k \in j + 1 .. Len(r) : r[k] \in Wild => \E l \in j + 1 .. k - 1 : r[l] = "/"
      /\ r[j] \in CatchAll => j = Len(r) /\ j > 1 /\ r[j - 1] = "/"

\* Whether r and s ask for two things in one place: they are the same, or where
\* they part there is a catch-all in one of them, or a wildcard in each.
Conflict(r, s) ==
  LET k == Len(LongestCommonPrefix({r, s}))
      parting == {t[k + 1] : t \in {t \in {r, s} : Len(t) > k}}
  IN \/ r = s
     \/ parting \cap CatchAll # {}
     \/ Cardinality(parting) = 2 /\ parting \subseteq Wild

\* addRouter refuses a route, whatever the order of the others, if and only if it
\* is malformed or conflicts with one of them: which routes a program may have
\* together does not depend on the order it registers them in (the panics of
\* addRouter and insertChild, which depend on the shape of the tree).
RefusedInAnyOrder ==
  /\ call.op = "panicked" =>
       ~WellFormed(call.of) \/ \E s \in added : Conflict(call.of, s)
  /\ call.op = "none" =>
       \A r \in added : WellFormed(r) /\ \A s \in added \ {r} : ~Conflict(r, s)

\* The nodes from m down.
Under(m) ==
  LET down[d \in Nat] ==
        IF d = 0 THEN {m} ELSE down[d - 1] \cup UNION {Range(node[k].children) : k \in down[d - 1]}
  IN down[Len(node)]

\* Nodes keep their types, and between two calls every route has its handlers at one node; indices has the
\* first character of each child but a wildcard, which is the last; and a node's
\* priority is the number of routes below it, by which its children are ordered
\* (the comments on node.children and incrementChildPrio).
TreeShape ==
  /\ TypeOK
  /\ call.op = "none" =>
       /\ {node[m].handlers : m \in Under(1)} \ {Nil} = added
       /\ \A m \in Under(1) :
            LET nd == node[m]
                first == Len(nd.children) - (IF nd.wildChild THEN 1 ELSE 0)
            IN /\ nd.priority = Cardinality({k \in Under(m) : node[k].handlers # Nil})
               /\ nd.wildChild => node[Last(nd.children)].nType \in {"param", "catchAll"}
               /\ \/ Len(nd.indices) = first
                  \/ nd.nType = "param" /\ nd.indices = <<>> /\ first = 1
               /\ \A j \in DOMAIN nd.indices :
                    /\ nd.indices[j] = "/" \/ node[nd.children[j]].path # <<>>
                    /\ node[nd.children[j]].path # <<>> =>
                         nd.indices[j] = Head(node[nd.children[j]].path)
                    /\ j > 1 => node[nd.children[j - 1]].priority >= node[nd.children[j]].priority

\* Up to where in p the first j tokens of r go, or Nil if p does not match them.
\* A catch-all takes the slash before it too.
Reach(r, p) ==
  LET up[j \in Nat] ==
        IF j = 0 THEN 0
        ELSE IF up[j - 1] = Nil THEN Nil
        ELSE IF r[j] \in CatchAll THEN Len(p)
        ELSE IF r[j] \in Param
             THEN Max({k \in up[j - 1] .. Len(p) : \A l \in up[j - 1] + 1 .. k : p[l] # "/"})
        ELSE IF up[j - 1] < Len(p) /\ p[up[j - 1] + 1] = r[j] THEN up[j - 1] + 1
        ELSE Nil
  IN [j \in 0 .. Len(r) |-> up[j]]

Matches(r, p) == Reach(r, p)[Len(r)] = Len(p)

\* The values of the wildcards of r in p.
Values(r, p) ==
  LET wilds == SetToSortSeq({j \in DOMAIN r : r[j] \in Wild}, <)
      from(j) == Reach(r, p)[j - 1] - (IF r[j] \in CatchAll THEN 1 ELSE 0)
  IN [k \in DOMAIN wilds |->
        [key |-> r[wilds[k]],
         value |-> SubSeq(p, from(wilds[k]) + 1, Reach(r, p)[wilds[k]])]]

\* What getValue finds is a route that matches the path, with the values its
\* wildcards have there, and no value of a way that it tried before and left;
\* and a route without wildcards is found by its path, whatever others there are.
\* This is about the lookups that answer: one that skips more nodes than there is
\* room for panics (the step of GetChild to "crashed").
FoundMatches ==
  call.op = "answered" =>
    /\ call.handlers # Nil => /\ Matches(call.handlers, call.of)
                              /\ call.values = Values(call.handlers, call.of)
    /\ call.of \in added => call.handlers = call.of

\* The values always fit into the slice that newContext made for them, which
\* getValue extends without a check, the last value of a lookup included, after
\* which it answers.
ParamsFit == call.op \in {"get", "answered"} => Len(call.values) <= MaxParams

\* Every lookup ends: none goes back to the same node forever.
LookupEnds == call.op = "get" ~> call.op # "get"

\* If a route matches a path, with something for each wildcard, then getValue
\* finds handlers ("Returns the handle registered with the given path", says its
\* comment).
RouteFound ==
  call.op = "answered" =>
    \/ call.handlers # Nil
    \/ \A r \in added : ~(Matches(r, call.of) /\ \A v \in Range(Values(r, call.of)) : v.value # <<>>)

\* skippedNodes has room for every node that is skipped, as maxSections is made for.
SkippedFit == call.op # "crashed"
=============================================================================
