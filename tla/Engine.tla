------------------------------- MODULE Engine -------------------------------
(***************************************************************************)
(* The HTTP engine of httpx: routes with their chains of handlers          *)
(* (router.go), contexts from a sync.Pool (ehttp.go), the chain of a       *)
(* request driven by an int8 index, with Next, Abort and panics            *)
(* (context.go, middleware/recovery.go), and the writer that sends one     *)
(* status line (writer.go).                                                *)
(*                                                                         *)
(* A request is served by a goroutine of its own.  Its handlers are the    *)
(* user's: each takes any of the steps in Acts, in any order, and returns. *)
(* A context is private to its request between Get and Put, so the steps   *)
(* are the calls of the handlers; what may interleave is the pool.         *)
(***************************************************************************)
EXTENDS Integers, Sequences, SequencesExt

CONSTANTS
  Req,        \* requests
  Ctx,        \* addresses of contexts
  Path,       \* paths that can be given a route
  NoPath,     \* a path without a route
  MaxInt8,    \* 127 in the code
  NextLimit,  \* bound: how often one handler calls Next
  UserCodes,  \* status codes the handlers set
  Acts,       \* [Req -> what the handlers of the request do]
  Nil

ASSUME EngineAssumption ==
  /\ MaxInt8 \in Nat /\ MaxInt8 = 2 * (MaxInt8 \div 2) + 1 /\ MaxInt8 >= 3
  /\ NextLimit \in Nat
  /\ Nil \notin Ctx \cup Req /\ NoPath \notin Path
  /\ "404" \notin UserCodes /\ "500" \notin UserCodes

VARIABLES
  serving,  \* the routes are registered and the server listens
  uses,     \* Router.Handlers: the handlers given to Use
  routes,   \* the trees: the chain of each path, <<>> without a route
  pool,     \* the contexts in Router.pool
  ctx,      \* the contexts
  call,     \* the goroutines of the requests
  wire      \* what each connection was sent: status lines, or Raw

vars == <<serving, uses, routes, pool, ctx, call, wire>>

AbortIndex == MaxInt8 \div 2
Raw == "raw"  \* the connection was hijacked
Status == UserCodes \cup {"200", "404", "500"}

\* Conversion to int8.
Int8(i) == IF i > MaxInt8 THEN i - 2 * (MaxInt8 + 1) ELSE i

\* filter and Recovery call Next once; "user" stands for everything else.
Kind == {"filter", "recovery", "user"}

\* A call of a handler that has not returned, and how often it called Next.
Frame == [at : Nat, nexts : Nat]

\* The caches of what was parsed, and from which request.
Part == {"query", "form"}

Context ==
  [request : Req \cup {Nil}, handlers : Seq(Kind), index : Int, keys : SUBSET Req,
   parsed : [Part -> Req \cup {Nil}], status : Status, written : BOOLEAN]

Goroutine ==
  [pc : {"new", "route", "handler", "panic", "finish", "put", "done", "lost"},
   path : Path \cup {NoPath}, ctx : Ctx \cup {Nil}, stack : Seq(Frame),
   ran : Seq(Nat),       \* the handlers that were started
   stopped : BOOLEAN]    \* one of them has called Abort

TypeOK ==
  /\ serving \in BOOLEAN
  /\ uses \in Seq(Kind)
  /\ routes \in [Path -> Seq(Kind)]
  /\ pool \subseteq Ctx
  /\ ctx \in [Ctx -> Context]
  /\ call \in [Req -> Goroutine]
  /\ wire \in [Req -> Seq(Status \cup {Raw})]

Blank ==
  [request |-> Nil, handlers |-> <<>>, index |-> -1, keys |-> {},
   parsed |-> [part \in Part |-> Nil], status |-> "200", written |-> FALSE]

Init ==
  /\ serving = FALSE
  /\ uses = <<"filter">>
  /\ routes = [p \in Path |-> <<>>]
  /\ pool = {}
  /\ ctx = [c \in Ctx |-> Blank]
  /\ call = [r \in Req |-> [pc |-> "new", path |-> NoPath, ctx |-> Nil,
                            stack |-> <<>>, ran |-> <<>>, stopped |-> FALSE]]
  /\ wire = [r \in Req |-> <<>>]

-----------------------------------------------------------------------------
(* Registration, before the server runs.  Over the limit, and on a path    *)
(* that has a route, the code panics: there is no server then.             *)

\* Bug: one handler more than fits.
WithinLimitByOne(size) == size <= AbortIndex + 1

WithinLimit(size) == size <= AbortIndex

Use(k) ==
  /\ ~serving
  /\ WithinLimit(Len(uses) + 1)
  /\ uses' = Append(uses, k)
  /\ UNCHANGED <<serving, routes, pool, ctx, call, wire>>

Handle(p, handlers) ==
  /\ ~serving
  /\ routes[p] = <<>>
  /\ WithinLimit(Len(uses) + Len(handlers))
  /\ routes' = [routes EXCEPT ![p] = uses \o handlers]
  /\ UNCHANGED <<serving, uses, pool, ctx, call, wire>>

\* From here on only the routes are read; uses is forgotten to have fewer states.
Run ==
  /\ ~serving
  /\ serving' = TRUE
  /\ uses' = <<>>
  /\ UNCHANGED <<routes, pool, ctx, call, wire>>

-----------------------------------------------------------------------------
(* Contexts.                                                               *)

Mine(r) == ctx[call[r].ctx]
\* The context of r becomes x.
Becomes(r, x) == ctx' = [ctx EXCEPT ![call[r].ctx] = x]
InUse == {call[r].ctx : r \in Req} \ {Nil}

\* Bug: the keys of the last request stay.
ResetKeepsKeys(c, r) == [Blank EXCEPT !.request = r, !.parsed = ctx[c].parsed,
                                      !.keys = ctx[c].keys]

\* The context c, fresh or from the pool, serves r: reset and Writer.reset.
\* queryCache and formCache keep what they have.
Reset(c, r) ==
  [Blank EXCEPT !.request = r, !.parsed = ctx[c].parsed]

\* pool.Get, with the context set up for request r on path p.
Get(r, p) ==
  /\ serving /\ call[r].pc = "new"
  /\ \E c \in Ctx :
       \/ /\ c \in pool
          /\ pool' = pool \ {c}
          /\ ctx' = [ctx EXCEPT ![c] = Reset(c, r)]
          /\ call' = [call EXCEPT ![r].pc = "route", ![r].path = p, ![r].ctx = c]
       \/ /\ c \notin pool \cup InUse
          /\ ctx' = [ctx EXCEPT ![c] = [Blank EXCEPT !.request = r]]
          /\ call' = [call EXCEPT ![r].pc = "route", ![r].path = p, ![r].ctx = c]
          /\ UNCHANGED pool
  /\ UNCHANGED <<serving, uses, routes, wire>>

\* The garbage collector may empty the pool.
Collect(c) ==
  /\ c \in pool
  /\ pool' = pool \ {c}
  /\ ctx' = [ctx EXCEPT ![c] = Blank]
  /\ UNCHANGED <<serving, uses, routes, call, wire>>

\* The context goes back to the pool as it is, but for its writer, which no
\* request will see again: reset makes a new one.
Put(r) ==
  /\ call[r].pc = "put"
  /\ pool' = pool \cup {call[r].ctx}
  /\ Becomes(r, [Mine(r) EXCEPT !.status = "200", !.written = FALSE])
  /\ call' = [call EXCEPT ![r].pc = "done", ![r].ctx = Nil]
  /\ UNCHANGED <<serving, uses, routes, wire>>

-----------------------------------------------------------------------------
(* The writer.  It writes to the connection of the request its context     *)
(* was set up for.                                                         *)

SetStatus(x, code) == [x EXCEPT !.status = code]
WriteHeaderNow(x) == [x EXCEPT !.written = TRUE]
\* Bug: the header is sent whether or not it was before.
SendsAgain(x) == [wire EXCEPT ![x.request] = Append(@, x.status)]

Sends(x) == IF x.written THEN wire ELSE [wire EXCEPT ![x.request] = Append(@, x.status)]

-----------------------------------------------------------------------------
(* The chain.                                                              *)

\* The loop of Next over handlers, with index i, on a stack s of handlers that wait for it:
\* the next handler starts, or Next returns.  A negative index is out of the
\* range of the slice.
Loop(r, handlers, s, i) ==
  IF i < Len(handlers)
  THEN IF i < 0
       THEN [call[r] EXCEPT !.pc = "panic", !.stack = s]
       ELSE [call[r] EXCEPT !.pc = "handler", !.ran = Append(@, i),
                            !.stack = Append(s, [at |-> i, nexts |-> 0])]
  ELSE [call[r] EXCEPT !.pc = IF s = <<>> THEN "finish" ELSE "handler", !.stack = s]

\* handleHttpRequest: the chain of the route is started by a first Next.
Route(r) ==
  /\ call[r].pc = "route"
  /\ call[r].path \in Path /\ routes[call[r].path] # <<>>
  /\ LET i == Int8(Mine(r).index + 1)
     IN /\ Becomes(r, [Mine(r) EXCEPT !.handlers = routes[call[r].path], !.index = i])
        /\ call' = [call EXCEPT ![r] = Loop(r, routes[call[r].path], <<>>, i)]
  /\ UNCHANGED <<serving, uses, routes, pool, wire>>

\* No route: 404, without any handler.
NotFound(r) ==
  /\ call[r].pc = "route"
  /\ call[r].path \in Path => routes[call[r].path] = <<>>
  /\ LET x == SetStatus(Mine(r), "404") IN
       /\ Becomes(r, WriteHeaderNow(x))
       /\ wire' = Sends(x)
  /\ call' = [call EXCEPT ![r].pc = "put"]
  /\ UNCHANGED <<serving, uses, routes, pool>>

Top(r) == Last(call[r].stack)
TopKind(r) == Mine(r).handlers[Top(r).at + 1]
InHandler(r) == call[r].pc = "handler"

\* The running handler calls Next.
CallNext(r) ==
  /\ InHandler(r)
  /\ IF TopKind(r) = "user" THEN "Next" \in Acts[r] /\ Top(r).nexts < NextLimit
     ELSE Top(r).nexts = 0
  /\ LET i == Int8(Mine(r).index + 1)
         s == Append(Front(call[r].stack), [Top(r) EXCEPT !.nexts = @ + 1])
     IN /\ Becomes(r, [Mine(r) EXCEPT !.index = i])
        /\ call' = [call EXCEPT ![r] = Loop(r, Mine(r).handlers, s, i)]
  /\ UNCHANGED <<serving, uses, routes, pool, wire>>

\* Bug: the loop goes on without a step of the index.
ReturnWithoutStep(r) ==
  /\ InHandler(r)
  /\ TopKind(r) # "user" => Top(r).nexts = 1
  /\ call' = [call EXCEPT ![r] =
       Loop(r, Mine(r).handlers, Front(call[r].stack), Mine(r).index)]
  /\ UNCHANGED <<serving, uses, routes, pool, ctx, wire>>

\* The running handler returns into the loop that called it.
Return(r) ==
  /\ InHandler(r)
  /\ TopKind(r) # "user" => Top(r).nexts = 1
  /\ LET i == Int8(Mine(r).index + 1)
     IN /\ Becomes(r, [Mine(r) EXCEPT !.index = i])
        /\ call' = [call EXCEPT ![r] = Loop(r, Mine(r).handlers, Front(call[r].stack), i)]
  /\ UNCHANGED <<serving, uses, routes, pool, wire>>

\* Bug: the context goes back to the pool before the header is sent.
FinishAfterPut(r) ==
  /\ call[r].pc = "finish"
  /\ Becomes(r, WriteHeaderNow(Mine(r)))
  /\ wire' = Sends(Mine(r))
  /\ pool' = pool \cup {call[r].ctx}
  /\ call' = [call EXCEPT ![r].pc = "put"]
  /\ UNCHANGED <<serving, uses, routes>>

\* Bug: the goroutine waits for a header that was sent already.
FinishUnlessWritten(r) ==
  /\ call[r].pc = "finish" /\ ~Mine(r).written
  /\ Becomes(r, WriteHeaderNow(Mine(r)))
  /\ wire' = Sends(Mine(r))
  /\ call' = [call EXCEPT ![r].pc = "put"]
  /\ UNCHANGED <<serving, uses, routes, pool>>

\* What follows the chain: the header, if no handler has sent it.
Finish(r) ==
  /\ call[r].pc = "finish"
  /\ Becomes(r, WriteHeaderNow(Mine(r)))
  /\ wire' = Sends(Mine(r))
  /\ call' = [call EXCEPT ![r].pc = "put"]
  /\ UNCHANGED <<serving, uses, routes, pool>>

-----------------------------------------------------------------------------
(* What a user's handler can do with its context.                          *)

Does(r, act) == InHandler(r) /\ TopKind(r) = "user" /\ act \in Acts[r]

Abort(r) ==
  /\ Does(r, "Abort")
  /\ Becomes(r, [Mine(r) EXCEPT !.index = AbortIndex])
  /\ call' = [call EXCEPT ![r].stopped = TRUE]
  /\ UNCHANGED <<serving, uses, routes, pool, wire>>

\* Context x after AbortWithStatus.
AbortedWith(x, code) ==
  [WriteHeaderNow(SetStatus(x, code)) EXCEPT !.index = AbortIndex]

AbortWithStatus(r) ==
  /\ Does(r, "AbortWithStatus")
  /\ \E code \in UserCodes :
       /\ Becomes(r, AbortedWith(Mine(r), code))
       /\ wire' = Sends(SetStatus(Mine(r), code))
  /\ call' = [call EXCEPT ![r].stopped = TRUE]
  /\ UNCHANGED <<serving, uses, routes, pool>>

\* The status alone; it may be set after the header was sent.
WriteHeader(r) ==
  /\ Does(r, "WriteHeader")
  /\ \E code \in UserCodes : Becomes(r, SetStatus(Mine(r), code))
  /\ UNCHANGED <<serving, uses, routes, pool, call, wire>>

\* Response, Flush and every Write: the header goes first.
Response(r) ==
  /\ Does(r, "Response")
  /\ Becomes(r, WriteHeaderNow(Mine(r)))
  /\ wire' = Sends(Mine(r))
  /\ UNCHANGED <<serving, uses, routes, pool, call>>

\* The handler takes the connection, once; the engine sends no header after that.
Hijack(r) ==
  /\ Does(r, "Hijack")
  /\ \A n \in DOMAIN wire[r] : wire[r][n] # Raw
  /\ Becomes(r, WriteHeaderNow(Mine(r)))
  /\ wire' = [wire EXCEPT ![Mine(r).request] = Append(@, Raw)]
  /\ UNCHANGED <<serving, uses, routes, pool, call>>

Set(r) ==
  /\ Does(r, "Set")
  /\ Becomes(r, [Mine(r) EXCEPT !.keys = @ \cup {r}])
  /\ UNCHANGED <<serving, uses, routes, pool, call, wire>>

\* GetQuery and GetPostForm parse the request only if their cache is nil.
GetParsed(r, part) ==
  /\ Does(r, part)
  /\ Becomes(r, [Mine(r) EXCEPT !.parsed[part] = IF @ = Nil THEN Mine(r).request ELSE @])
  /\ UNCHANGED <<serving, uses, routes, pool, call, wire>>

Panic(r) ==
  /\ Does(r, "Panic")
  /\ call' = [call EXCEPT ![r].pc = "panic"]
  /\ UNCHANGED <<serving, uses, routes, pool, ctx, wire>>

\* The handlers on the stack whose deferred function recovers.
Recovering(r) ==
  {n \in DOMAIN call[r].stack : Mine(r).handlers[call[r].stack[n].at + 1] = "recovery"}

\* The innermost of them.
Innermost(r, n) == n \in Recovering(r) /\ \A m \in Recovering(r) : m <= n

\* Recovery n of r, with its context x and the index i its loop goes on with.
Recovered(r, n, x, i) ==
  /\ call[r].pc = "panic" /\ Innermost(r, n)
  /\ Becomes(r, [x EXCEPT !.index = i])
  /\ wire' = Sends(SetStatus(Mine(r), "500"))
  /\ call' = [call EXCEPT ![r] =
       [Loop(r, x.handlers, SubSeq(call[r].stack, 1, n - 1), i) EXCEPT !.stopped = TRUE]]
  /\ UNCHANGED <<serving, uses, routes, pool>>

\* Bug: the status is sent, and the chain goes on.
RecoverAndGoOn(r) ==
  \E n \in DOMAIN call[r].stack :
    Recovered(r, n, WriteHeaderNow(SetStatus(Mine(r), "500")), Int8(Mine(r).index + 1))

\* The innermost Recovery aborts with 500 and returns into its loop.
Recover(r) ==
  \E n \in DOMAIN call[r].stack :
    Recovered(r, n, AbortedWith(Mine(r), "500"), Int8(AbortIndex + 1))

\* Nobody recovers but net/http, which closes the connection.  Put is not
\* deferred: the context is garbage.
Lose(r) ==
  /\ call[r].pc = "panic"
  /\ Recovering(r) = {}
  /\ call' = [call EXCEPT ![r].pc = "lost", ![r].ctx = Nil, ![r].stack = <<>>]
  /\ Becomes(r, Blank)
  /\ UNCHANGED <<serving, uses, routes, pool, wire>>

-----------------------------------------------------------------------------
Serve(r) ==
  \/ \E p \in Path \cup {NoPath} : Get(r, p)
  \/ Route(r) \/ NotFound(r) \/ CallNext(r) \/ Return(r) \/ Finish(r) \/ Put(r)
  \/ Abort(r) \/ AbortWithStatus(r) \/ WriteHeader(r) \/ Response(r) \/ Hijack(r)
  \/ Set(r) \/ (\E part \in Part : GetParsed(r, part))
  \/ Panic(r) \/ Recover(r) \/ Lose(r)

Next ==
  \/ \E k \in Kind \ {"filter"} : Use(k)
  \/ \E p \in Path, n \in 0 .. AbortIndex :
       \E handlers \in [1 .. n -> Kind \ {"filter"}] : Handle(p, handlers)
  \/ Run
  \/ \E r \in Req : Serve(r)
  \/ \E c \in Ctx : Collect(c)

Spec == Init /\ [][Next]_vars

\* What a goroutine does by itself.  That a handler returns is up to the user
\* and assumed; no other step of the user's handlers is.
Proceeds(r) ==
  \/ Route(r) \/ NotFound(r) \/ Return(r) \/ Finish(r) \/ Put(r) \/ Recover(r) \/ Lose(r)
  \/ InHandler(r) /\ TopKind(r) # "user" /\ CallNext(r)

FairSpec == Spec /\ \A r \in Req : WF_vars(Proceeds(r))

-----------------------------------------------------------------------------
(* Properties.                                                             *)

Ended(r) == call[r].pc \in {"done", "lost"}

\* A context serves one request at a time, is not in the pool meanwhile, and
\* its writer is connected to that request (ServeHTTP's Get, reset and Put).
OneOwner ==
  /\ pool \cap InUse = {}
  /\ \A r \in Req : call[r].ctx # Nil =>
       Mine(r).request = r /\ \A q \in Req \ {r} : call[q].ctx # call[r].ctx

\* "Keys is a key/value pair exclusively for the context of each request"
\* (context.go): no handler finds a key another request has set.
OwnKeys == \A r \in Req : call[r].ctx # Nil => Mine(r).keys \subseteq {r}

\* While every handler calls Next at most once, the int8 index of the longest
\* chain that Use and Handle accept never wraps, whoever aborts, and when.
IndexFits ==
  \A r \in Req : call[r].pc \in {"handler", "panic", "finish"} =>
    Mine(r).index \in 0 .. MaxInt8

\* The handlers of a chain start once each and in order, nested Next or not;
\* unless one aborts, or panics, all of them have run when the chain is over.
RunsInOrder ==
  \A r \in Req :
    /\ call[r].ran = [n \in 1 .. Len(call[r].ran) |-> n - 1]
    /\ call[r].pc \in {"finish", "done"} /\ ~call[r].stopped /\ call[r].path \in Path
       => Len(call[r].ran) = Len(routes[call[r].path])

\* Once a handler has aborted, or Recovery has for it, no further one starts.
NothingAfterAbort ==
  [][\A r \in Req : call'[r].stopped => call'[r].ran = call[r].ran]_vars

\* A request that was served got a status line or its connection was taken: at
\* most one line, and none after the connection is; 404 when it has no route,
\* 500 only from a Recovery; and with Recovery the first of the middleware no
\* panic loses the request.
AnsweredOnce ==
  \A r \in Req :
    /\ \A n \in DOMAIN wire[r] : wire[r][n] # Raw => n = 1
    /\ call[r].pc = "done" =>
         /\ wire[r] # <<>>
         /\ wire[r][1] = "404" <=> (call[r].path \in Path => routes[call[r].path] = <<>>)
         /\ wire[r][1] = "500" => call[r].stopped
    /\ call[r].pc = "lost" => routes[call[r].path][2] # "recovery"

\* Every request is answered in the end, or its connection closed.
Served == \A r \in Req : call[r].pc = "route" ~> Ended(r)

\* The query cache of a context is "c.Request.URL.Query" (context.go), and no
\* other request's: GetQuery answers from it.
QueryOfThisRequest ==
  \A r \in Req : call[r].ctx # Nil => Mine(r).parsed["query"] \in {Nil, r}
=============================================================================
