---------------------------- MODULE EngineProofs ----------------------------
(***************************************************************************)
(* Engine.tla, for any requests, contexts, paths and any int8.  A context  *)
(* has one owner and shows no other request's keys, and the index of the   *)
(* chain does not wrap as long as every handler calls Next at most once.   *)
(* Handlers start in order and none after an Abort, however often they     *)
(* call Next; and what a request is answered, if each calls Next at most   *)
(* once.                                                                   *)
(***************************************************************************)
EXTENDS Engine, SequenceTheorems, TLAPS

\* A request holds a context exactly while it is served; a running handler
\* is on the stack; the keys of a context are its request's.
Held ==
  \A r \in Req :
    /\ call[r].ctx = Nil <=> call[r].pc \in {"new", "done", "lost"}
    /\ call[r].pc = "handler" => call[r].stack # <<>>

OwnerInv == TypeOK /\ Held /\ OneOwner /\ OwnKeys

LEMMA AbortIndexType == AbortIndex \in Nat /\ MaxInt8 = 2 * AbortIndex + 1
BY EngineAssumption DEF AbortIndex

LEMMA Int8Type == ASSUME NEW i \in Int PROVE Int8(i) \in Int
BY EngineAssumption DEF Int8

LEMMA BlankType == Blank \in Context
BY DEF Blank, Context, Status

\* What Loop makes of a goroutine.
LEMMA LoopType ==
  ASSUME NEW r \in Req, call[r] \in Goroutine, NEW handlers \in Seq(Kind),
         NEW s \in Seq(Frame), NEW i \in Int
  PROVE  LET g == Loop(r, handlers, s, i) IN
         /\ g \in Goroutine
         /\ g.ctx = call[r].ctx /\ g.path = call[r].path
         /\ g.pc \in {"handler", "panic", "finish"}
         /\ g.pc = "handler" => g.stack # <<>>
<1> DEFINE g == Loop(r, handlers, s, i)
           f == [at |-> i, nexts |-> 0]
<1>1. CASE i < Len(handlers) /\ i >= 0
  <2>1. f \in Frame /\ i \in Nat
    BY <1>1 DEF Frame
  <2>2. Append(s, f) \in Seq(Frame) /\ Len(Append(s, f)) = Len(s) + 1
    BY <2>1, AppendProperties
  <2>3. Append(s, f) # <<>>
    BY <2>2, EmptySeq, LenProperties
  <2>4. Append(call[r].ran, i) \in Seq(Nat)
    BY <2>1, AppendProperties DEF Goroutine
  <2>5. g = [call[r] EXCEPT !.pc = "handler", !.ran = Append(@, i), !.stack = Append(s, f)]
    BY <1>1 DEF Loop
  <2>. QED  BY ZenonT(60), <2>2, <2>3, <2>4, <2>5 DEF Goroutine
<1>2. CASE i < Len(handlers) /\ ~(i >= 0)
  <2>1. g = [call[r] EXCEPT !.pc = "panic", !.stack = s]
    BY <1>2 DEF Loop
  <2>. QED  BY <2>1 DEF Goroutine
<1>3. CASE ~(i < Len(handlers)) /\ s = <<>>
  <2>1. g = [call[r] EXCEPT !.pc = "finish", !.stack = s]
    BY <1>3 DEF Loop
  <2>. QED  BY <2>1 DEF Goroutine
<1>4. CASE ~(i < Len(handlers)) /\ s # <<>>
  <2>1. g = [call[r] EXCEPT !.pc = "handler", !.stack = s]
    BY <1>4 DEF Loop
  <2>. QED  BY <1>4, <2>1 DEF Goroutine
<1>. QED  BY <1>1, <1>2, <1>3, <1>4

\* A step of r in its own context keeps the owners.
LEMMA OwnStep ==
  ASSUME OwnerInv, NEW r \in Req, call[r].pc \notin {"new", "done", "lost"},
         NEW x \in Context, Becomes(r, x),
         x.request = Mine(r).request, x.keys \subseteq {r},
         NEW g \in Goroutine, call' = [call EXCEPT ![r] = g], g.ctx = call[r].ctx,
         g.pc \notin {"new", "done", "lost"}, g.pc = "handler" => g.stack # <<>>,
         UNCHANGED <<serving, uses, routes, pool>>, wire' \in [Req -> Seq(Status \cup {Raw})]
  PROVE  OwnerInv'
<1>1. call[r].ctx \in Ctx
  BY DEF OwnerInv, TypeOK, Held, Goroutine
<1>2. TypeOK'
  BY <1>1 DEF OwnerInv, TypeOK, Becomes
<1>3. call'[r] = g /\ \A q \in Req \ {r} : call'[q] = call[q]
  BY DEF OwnerInv, TypeOK
<1>4. \A q \in Req : call'[q].ctx = call[q].ctx
  BY <1>3
<1>5. InUse' = InUse
  BY <1>4 DEF InUse
<1>6. Held'
  BY <1>3 DEF OwnerInv, Held
<1>7. Mine(r)' = x
  BY <1>1, <1>3 DEF OwnerInv, TypeOK, Becomes, Mine
<1>8. \A q \in Req \ {r} : call[q].ctx # Nil => Mine(q)' = Mine(q)
  BY <1>1, <1>3 DEF OwnerInv, TypeOK, Becomes, Mine, OneOwner
<1>9. OneOwner'
  BY <1>1, <1>4, <1>5, <1>7, <1>8, EngineAssumption DEF OwnerInv, OneOwner
<1>10. OwnKeys'
  BY <1>4, <1>7, <1>8 DEF OwnerInv, OwnKeys
<1>. QED  BY <1>2, <1>6, <1>9, <1>10 DEF OwnerInv

LEMMA AbortedType ==
  ASSUME NEW x \in Context, NEW code \in Status
  PROVE  LET y == AbortedWith(x, code) IN
         /\ y \in Context /\ y.handlers = x.handlers /\ y.index = AbortIndex
         /\ y.request = x.request /\ y.keys = x.keys
<1>1. AbortedWith(x, code) = [x EXCEPT !.status = code, !.written = TRUE, !.index = AbortIndex]
  BY DEF AbortedWith, WriteHeaderNow, SetStatus
<1>2. AbortIndex \in Int
  BY AbortIndexType
<1>. QED  BY <1>1, <1>2 DEF Context

LEMMA SendsType ==
  ASSUME TypeOK, NEW x \in Context, x.request \in Req
  PROVE  Sends(x) \in [Req -> Seq(Status \cup {Raw})]
<1>1. x.status \in Status \cup {Raw}
  BY DEF Context
<1>2. Append(wire[x.request], x.status) \in Seq(Status \cup {Raw})
  BY <1>1, AppendProperties DEF TypeOK
<1>. QED  BY <1>2 DEF Sends, TypeOK

\* A frame on the stack, and the stack without its last one.
LEMMA StackType ==
  ASSUME NEW s \in Seq(Frame), s # <<>>
  PROVE  /\ Last(s) \in Frame /\ Front(s) \in Seq(Frame)
         /\ Len(s) \in Nat \ {0} /\ Last(s) = s[Len(s)]
         /\ Len(Front(s)) = Len(s) - 1
         /\ \A n \in 1 .. Len(s) - 1 : Front(s)[n] = s[n]
<1>1. Len(s) \in Nat /\ Len(s) # 0 /\ DOMAIN s = 1 .. Len(s)
  BY LenProperties, EmptySeq
<1>2. \A n \in 1 .. Len(s) : s[n] \in Frame
  BY ElementOfSeq
<1>3. /\ SubSeq(s, 1, Len(s) - 1) \in Seq(Frame)
      /\ Len(SubSeq(s, 1, Len(s) - 1)) = IF 1 <= Len(s) - 1 THEN Len(s) - 1 - 1 + 1 ELSE 0
      /\ \A n \in 1 .. Len(s) - 1 - 1 + 1 : SubSeq(s, 1, Len(s) - 1)[n] = s[1 + n - 1]
  BY <1>1, <1>2, SubSeqProperties
<1>. QED  BY <1>1, <1>2, <1>3 DEF Front, Last

\* The steps of a handler, of the loop and of the writer.
LEMMA OwnServe ==
  ASSUME OwnerInv, NEW r \in Req,
         \/ Route(r) \/ NotFound(r) \/ CallNext(r) \/ Return(r) \/ Finish(r)
         \/ Abort(r) \/ AbortWithStatus(r) \/ WriteHeader(r) \/ Response(r) \/ Hijack(r)
         \/ Set(r) \/ (\E part \in Part : GetParsed(r, part)) \/ Panic(r) \/ Recover(r)
  PROVE  OwnerInv'
<1> DEFINE x == Mine(r)
<1>1. /\ call[r] \in Goroutine /\ call = [call EXCEPT ![r] = call[r]]
      /\ wire \in [Req -> Seq(Status \cup {Raw})] /\ ctx \in [Ctx -> Context]
      /\ TypeOK
  BY DEF OwnerInv, TypeOK
<1>2. ASSUME call[r].pc \notin {"new", "done", "lost"}
      PROVE  /\ call[r].ctx \in Ctx /\ x \in Context
             /\ x.request = r /\ x.keys \subseteq {r}
  BY <1>1, <1>2 DEF OwnerInv, TypeOK, Held, OneOwner, OwnKeys, Mine, Goroutine
<1>3. \A code \in Status : x \in Context => SetStatus(x, code) \in Context
  BY DEF SetStatus, Context
<1>4. CASE Route(r)
  <2> DEFINE hs == routes[call[r].path]
             i == Int8(x.index + 1)
             y == [x EXCEPT !.handlers = hs, !.index = i]
             g == Loop(r, hs, <<>>, i)
  <2>1. x \in Context /\ x.request = r /\ x.keys \subseteq {r}
    BY <1>2, <1>4 DEF Route
  <2>2. hs \in Seq(Kind)
    BY <1>1, <1>4 DEF Route, TypeOK
  <2>3. i \in Int
    BY <2>1, Int8Type DEF Context
  <2>4. y \in Context /\ y.request = x.request /\ y.keys = x.keys
    BY <2>1, <2>2, <2>3 DEF Context
  <2>5. /\ g \in Goroutine /\ g.ctx = call[r].ctx
        /\ g.pc \notin {"new", "done", "lost"} /\ (g.pc = "handler" => g.stack # <<>>)
    <3>1. <<>> \in Seq(Frame)
      OBVIOUS
    <3>. HIDE DEF hs, i
    <3>. QED  BY ZenonT(60), <1>1, <2>2, <2>3, <3>1, LoopType
  <2>6. Becomes(r, y) /\ call' = [call EXCEPT ![r] = g]
    BY <1>4 DEF Route
  <2>. HIDE DEF g, y, hs, i
  <2>. QED  BY <1>1, <1>4, <2>1, <2>4, <2>5, <2>6, OwnStep DEF Route
<1>5. CASE NotFound(r)
  <2> DEFINE y == WriteHeaderNow(SetStatus(x, "404"))
             g == [call[r] EXCEPT !.pc = "put"]
  <2>1. x \in Context /\ x.request = r /\ x.keys \subseteq {r}
    BY <1>2, <1>5 DEF NotFound
  <2>2. y \in Context /\ y.request = r /\ y.keys = x.keys
    BY <2>1 DEF Context, SetStatus, WriteHeaderNow, Status
  <2>3. SetStatus(x, "404") \in Context /\ SetStatus(x, "404").request = r
    BY <2>1 DEF Context, SetStatus, Status
  <2>4. wire' \in [Req -> Seq(Status \cup {Raw})]
    BY <1>1, <1>5, <2>3, SendsType DEF NotFound
  <2>5. g \in Goroutine /\ g.ctx = call[r].ctx /\ g.pc = "put"
    BY <1>1 DEF Goroutine
  <2>6. Becomes(r, y) /\ call' = [call EXCEPT ![r] = g] /\ UNCHANGED <<serving, uses, routes, pool>>
    BY <1>1, <1>5 DEF NotFound
  <2>. HIDE DEF y, g
  <2>. QED  BY <1>5, <2>1, <2>2, <2>4, <2>5, <2>6, OwnStep DEF NotFound
<1>6. CASE CallNext(r)
  <2> DEFINE i == Int8(x.index + 1)
             y == [x EXCEPT !.index = i]
             t == [Top(r) EXCEPT !.nexts = @ + 1]
             s == Append(Front(call[r].stack), t)
             g == Loop(r, x.handlers, s, i)
  <2>1. x \in Context /\ x.request = r /\ x.keys \subseteq {r}
    BY <1>2, <1>6 DEF CallNext, InHandler
  <2>2. i \in Int /\ x.handlers \in Seq(Kind)
    BY <2>1, Int8Type DEF Context
  <2>3. call[r].stack # <<>> /\ call[r].stack \in Seq(Frame)
    BY <1>1, <1>6 DEF CallNext, InHandler, OwnerInv, Held, Goroutine
  <2>4. t \in Frame
    <3>1. Top(r) \in Frame
      BY <2>3, StackType DEF Top
    <3>2. Top(r).nexts + 1 \in Nat /\ Top(r).at \in Nat
      BY <3>1 DEF Frame
    <3>. QED  BY <3>1, <3>2 DEF Frame
  <2>5. s \in Seq(Frame)
    BY <2>3, <2>4, StackType, AppendProperties
  <2>6. y \in Context /\ y.request = x.request /\ y.keys = x.keys
    BY <2>1, <2>2 DEF Context
  <2>7. Becomes(r, y) /\ call' = [call EXCEPT ![r] = g]
    BY <1>6 DEF CallNext
  <2>8. /\ g \in Goroutine /\ g.ctx = call[r].ctx
        /\ g.pc \notin {"new", "done", "lost"} /\ (g.pc = "handler" => g.stack # <<>>)
    <3>. HIDE DEF s, i
    <3>. QED  BY ZenonT(60), <1>1, <2>2, <2>5, LoopType
  <2>. HIDE DEF g, y
  <2>. QED  BY <1>1, <1>6, <2>1, <2>6, <2>7, <2>8, OwnStep DEF CallNext, InHandler
<1>7. CASE Return(r)
  <2> DEFINE i == Int8(x.index + 1)
             y == [x EXCEPT !.index = i]
             s == Front(call[r].stack)
             g == Loop(r, x.handlers, s, i)
  <2>1. x \in Context /\ x.request = r /\ x.keys \subseteq {r}
    BY <1>2, <1>7 DEF Return, InHandler
  <2>2. i \in Int /\ x.handlers \in Seq(Kind)
    BY <2>1, Int8Type DEF Context
  <2>3. call[r].stack # <<>> /\ call[r].stack \in Seq(Frame)
    BY <1>1, <1>7 DEF Return, InHandler, OwnerInv, Held, Goroutine
  <2>4. s \in Seq(Frame)
    BY <2>3, StackType
  <2>5. y \in Context /\ y.request = x.request /\ y.keys = x.keys
    BY <2>1, <2>2 DEF Context
  <2>6. Becomes(r, y) /\ call' = [call EXCEPT ![r] = g]
    BY <1>7 DEF Return
  <2>7. /\ g \in Goroutine /\ g.ctx = call[r].ctx
        /\ g.pc \notin {"new", "done", "lost"} /\ (g.pc = "handler" => g.stack # <<>>)
    <3>. HIDE DEF s, i
    <3>. QED  BY ZenonT(60), <1>1, <2>2, <2>4, LoopType
  <2>. HIDE DEF g, y
  <2>. QED  BY <1>1, <1>7, <2>1, <2>5, <2>6, <2>7, OwnStep DEF Return, InHandler
<1>8. CASE Finish(r)
  <2> DEFINE y == WriteHeaderNow(x)
             g == [call[r] EXCEPT !.pc = "put"]
  <2>1. x \in Context /\ x.request = r /\ x.keys \subseteq {r}
    BY <1>2, <1>8 DEF Finish
  <2>2. y \in Context /\ y.request = r /\ y.keys = x.keys
    BY <2>1 DEF Context, WriteHeaderNow
  <2>3. wire' \in [Req -> Seq(Status \cup {Raw})]
    BY <1>1, <1>8, <2>1, SendsType DEF Finish
  <2>4. g \in Goroutine /\ g.ctx = call[r].ctx /\ g.pc = "put"
    BY <1>1 DEF Goroutine
  <2>5. Becomes(r, y) /\ call' = [call EXCEPT ![r] = g] /\ UNCHANGED <<serving, uses, routes, pool>>
    BY <1>1, <1>8 DEF Finish
  <2>. HIDE DEF y, g
  <2>. QED  BY <1>8, <2>1, <2>2, <2>3, <2>4, <2>5, OwnStep DEF Finish
<1>9. CASE Abort(r)
  <2> DEFINE y == [x EXCEPT !.index = AbortIndex]
             g == [call[r] EXCEPT !.stopped = TRUE]
  <2>1. x \in Context /\ x.request = r /\ x.keys \subseteq {r} /\ call[r].pc = "handler"
    BY <1>2, <1>9 DEF Abort, Does, InHandler
  <2>2. y \in Context /\ y.request = r /\ y.keys = x.keys
    BY <2>1, AbortIndexType DEF Context
  <2>3. g \in Goroutine /\ g.ctx = call[r].ctx /\ g.pc = call[r].pc /\ g.stack = call[r].stack
    BY <1>1 DEF Goroutine
  <2>4. Becomes(r, y) /\ call' = [call EXCEPT ![r] = g] /\ UNCHANGED <<serving, uses, routes, pool, wire>>
    BY <1>1, <1>9 DEF Abort
  <2>5. call[r].stack # <<>>
    BY <2>1 DEF OwnerInv, Held
  <2>. HIDE DEF y, g
  <2>. QED  BY <1>1, <2>1, <2>2, <2>3, <2>4, <2>5, OwnStep
<1>10. CASE AbortWithStatus(r)
  <2>0. PICK code \in UserCodes :
          Becomes(r, AbortedWith(x, code)) /\ wire' = Sends(SetStatus(x, code))
    BY <1>10 DEF AbortWithStatus
  <2> DEFINE y == AbortedWith(x, code)
             g == [call[r] EXCEPT !.stopped = TRUE]
  <2>1. x \in Context /\ x.request = r /\ x.keys \subseteq {r} /\ call[r].pc = "handler"
    BY <1>2, <1>10 DEF AbortWithStatus, Does, InHandler
  <2>2. y \in Context /\ y.request = r /\ y.keys = x.keys
    BY <2>1, AbortedType DEF Status
  <2>3. SetStatus(x, code) \in Context /\ SetStatus(x, code).request = r
    BY <2>1 DEF Context, SetStatus, Status
  <2>4. wire' \in [Req -> Seq(Status \cup {Raw})]
    BY <1>1, <2>0, <2>3, SendsType
  <2>5. g \in Goroutine /\ g.ctx = call[r].ctx /\ g.pc = call[r].pc /\ g.stack = call[r].stack
    BY <1>1 DEF Goroutine
  <2>6. call' = [call EXCEPT ![r] = g] /\ UNCHANGED <<serving, uses, routes, pool>>
    BY <1>1, <1>10 DEF AbortWithStatus
  <2>7. call[r].stack # <<>>
    BY <2>1 DEF OwnerInv, Held
  <2>. HIDE DEF y, g
  <2>. QED  BY <2>0, <2>1, <2>2, <2>4, <2>5, <2>6, <2>7, OwnStep DEF y
<1>11. CASE WriteHeader(r)
  <2>0. PICK code \in UserCodes : Becomes(r, SetStatus(x, code))
    BY <1>11 DEF WriteHeader
  <2> DEFINE y == SetStatus(x, code)
  <2>1. x \in Context /\ x.request = r /\ x.keys \subseteq {r} /\ call[r].pc = "handler"
    BY <1>2, <1>11 DEF WriteHeader, Does, InHandler
  <2>2. y \in Context /\ y.request = r /\ y.keys \subseteq {r}
    BY <2>1 DEF Context, SetStatus, Status
  <2>3. wire' \in [Req -> Seq(Status \cup {Raw})]
    BY <1>1, <1>11 DEF WriteHeader
  <2>4. Becomes(r, y) /\ call' = [call EXCEPT ![r] = call[r]] /\ UNCHANGED <<serving, uses, routes, pool>>
    BY <1>1, <1>11, <2>0 DEF WriteHeader
  <2>5. call[r].stack # <<>>
    BY <2>1 DEF OwnerInv, Held
  <2>. HIDE DEF y
  <2>. QED  BY <1>1, <2>1, <2>2, <2>3, <2>4, <2>5, OwnStep
<1>12. CASE Response(r)
  <2> DEFINE y == WriteHeaderNow(x)
  <2>1. x \in Context /\ x.request = r /\ x.keys \subseteq {r} /\ call[r].pc = "handler"
    BY <1>2, <1>12 DEF Response, Does, InHandler
  <2>2. y \in Context /\ y.request = r /\ y.keys \subseteq {r}
    BY <2>1 DEF Context, WriteHeaderNow
  <2>3. wire' \in [Req -> Seq(Status \cup {Raw})]
    BY <1>1, <1>12, <2>1, SendsType DEF Response
  <2>4. Becomes(r, y) /\ call' = [call EXCEPT ![r] = call[r]] /\ UNCHANGED <<serving, uses, routes, pool>>
    BY <1>1, <1>12 DEF Response
  <2>5. call[r].stack # <<>>
    BY <2>1 DEF OwnerInv, Held
  <2>. HIDE DEF y
  <2>. QED  BY <1>1, <2>1, <2>2, <2>3, <2>4, <2>5, OwnStep
<1>13. CASE Hijack(r)
  <2> DEFINE y == WriteHeaderNow(x)
  <2>1. x \in Context /\ x.request = r /\ x.keys \subseteq {r} /\ call[r].pc = "handler"
    BY <1>2, <1>13 DEF Hijack, Does, InHandler
  <2>2. y \in Context /\ y.request = r /\ y.keys \subseteq {r}
    BY <2>1 DEF Context, WriteHeaderNow
  <2>3. wire' \in [Req -> Seq(Status \cup {Raw})]
    <3>1. Append(wire[r], Raw) \in Seq(Status \cup {Raw})
      BY <1>1, AppendProperties
    <3>. QED  BY <1>1, <1>13, <2>1, <3>1 DEF Hijack
  <2>4. Becomes(r, y) /\ call' = [call EXCEPT ![r] = call[r]] /\ UNCHANGED <<serving, uses, routes, pool>>
    BY <1>1, <1>13 DEF Hijack
  <2>5. call[r].stack # <<>>
    BY <2>1 DEF OwnerInv, Held
  <2>. HIDE DEF y
  <2>. QED  BY <1>1, <2>1, <2>2, <2>3, <2>4, <2>5, OwnStep
<1>14. CASE Set(r)
  <2> DEFINE y == [x EXCEPT !.keys = @ \cup {r}]
  <2>1. x \in Context /\ x.request = r /\ x.keys \subseteq {r} /\ call[r].pc = "handler"
    BY <1>2, <1>14 DEF Set, Does, InHandler
  <2>2. y \in Context /\ y.request = r /\ y.keys \subseteq {r}
    BY <2>1 DEF Context
  <2>3. wire' \in [Req -> Seq(Status \cup {Raw})]
    BY <1>1, <1>14 DEF Set
  <2>4. Becomes(r, y) /\ call' = [call EXCEPT ![r] = call[r]] /\ UNCHANGED <<serving, uses, routes, pool>>
    BY <1>1, <1>14 DEF Set
  <2>5. call[r].stack # <<>>
    BY <2>1 DEF OwnerInv, Held
  <2>. HIDE DEF y
  <2>. QED  BY <1>1, <2>1, <2>2, <2>3, <2>4, <2>5, OwnStep
<1>15. ASSUME NEW part \in Part, GetParsed(r, part) PROVE OwnerInv'
  <2> DEFINE y == [x EXCEPT !.parsed[part] = IF @ = Nil THEN x.request ELSE @]
  <2>1. x \in Context /\ x.request = r /\ x.keys \subseteq {r} /\ call[r].pc = "handler"
    BY <1>2, <1>15 DEF GetParsed, Does, InHandler
  <2>2. y \in Context /\ y.request = r /\ y.keys \subseteq {r}
    BY <2>1 DEF Context
  <2>3. wire' \in [Req -> Seq(Status \cup {Raw})]
    BY <1>1, <1>15 DEF GetParsed
  <2>4. Becomes(r, y) /\ call' = [call EXCEPT ![r] = call[r]] /\ UNCHANGED <<serving, uses, routes, pool>>
    BY <1>1, <1>15 DEF GetParsed
  <2>5. call[r].stack # <<>>
    BY <2>1 DEF OwnerInv, Held
  <2>. HIDE DEF y
  <2>. QED  BY <1>1, <2>1, <2>2, <2>3, <2>4, <2>5, OwnStep
<1>16. CASE Panic(r)
  <2> DEFINE g == [call[r] EXCEPT !.pc = "panic"]
  <2>1. x \in Context /\ x.request = r /\ x.keys \subseteq {r} /\ call[r].pc = "handler"
    BY <1>2, <1>16 DEF Panic, Does, InHandler
  <2>2. Becomes(r, x) /\ UNCHANGED <<serving, uses, routes, pool, wire>>
    BY <1>1, <1>16 DEF Panic, Becomes, Mine
  <2>3. g \in Goroutine /\ g.ctx = call[r].ctx /\ g.pc = "panic" /\ call' = [call EXCEPT ![r] = g]
    BY <1>1, <1>16 DEF Goroutine, Panic
  <2>. HIDE DEF g
  <2>. QED  BY <1>1, <2>1, <2>2, <2>3, OwnStep
<1>17. CASE Recover(r)
  <2> DEFINE i == Int8(AbortIndex + 1)
             z == AbortedWith(x, "500")
             y == [z EXCEPT !.index = i]
  <2>0. PICK n \in DOMAIN call[r].stack : Recovered(r, n, z, i)
    BY <1>17 DEF Recover
  <2> DEFINE s == SubSeq(call[r].stack, 1, n - 1)
             l == Loop(r, z.handlers, s, i)
             g == [l EXCEPT !.stopped = TRUE]
  <2>1. x \in Context /\ x.request = r /\ x.keys \subseteq {r} /\ call[r].pc = "panic"
    BY <1>2, <2>0 DEF Recovered
  <2>2. i \in Int
    BY Int8Type, AbortIndexType
  <2>3. z \in Context /\ z.request = r /\ z.keys = x.keys /\ z.handlers \in Seq(Kind)
    <3>1. "500" \in Status
      BY DEF Status
    <3>2. z \in Context /\ z.request = x.request /\ z.keys = x.keys
      BY <2>1, <3>1, AbortedType
    <3>3. z.handlers \in Seq(Kind)
      BY <3>2 DEF Context
    <3>. QED  BY <2>1, <3>2, <3>3
  <2>4. y \in Context /\ y.request = r /\ y.keys = x.keys
    BY <2>2, <2>3 DEF Context
  <2>5. SetStatus(x, "500") \in Context /\ SetStatus(x, "500").request = r
    BY <2>1 DEF Context, SetStatus, Status
  <2>6. wire' \in [Req -> Seq(Status \cup {Raw})]
    BY <1>1, <2>0, <2>5, SendsType DEF Recovered
  <2>7. s \in Seq(Frame)
    <3>1. call[r].stack \in Seq(Frame)
      BY <1>1 DEF Goroutine
    <3>. QED  BY <3>1, LenProperties, ElementOfSeq, SubSeqProperties
  <2>8. /\ l \in Goroutine /\ l.ctx = call[r].ctx
        /\ l.pc \notin {"new", "done", "lost"} /\ (l.pc = "handler" => l.stack # <<>>)
    <3>. HIDE DEF s, i, z
    <3>1. /\ l \in Goroutine /\ l.ctx = call[r].ctx /\ l.path = call[r].path
          /\ l.pc \in {"handler", "panic", "finish"} /\ (l.pc = "handler" => l.stack # <<>>)
      BY <1>1, <2>2, <2>3, <2>7, LoopType
    <3>. QED  BY <3>1
  <2>9. Becomes(r, y) /\ call' = [call EXCEPT ![r] = g] /\ UNCHANGED <<serving, uses, routes, pool>>
    BY <2>0 DEF Recovered
  <2>. HIDE DEF l, y
  <2>10. g \in Goroutine /\ g.ctx = l.ctx /\ g.pc = l.pc /\ g.stack = l.stack
    BY <2>8 DEF Goroutine
  <2>. HIDE DEF g
  <2>. QED  BY <2>1, <2>4, <2>6, <2>8, <2>9, <2>10, OwnStep
<1>. QED  BY <1>4, <1>5, <1>6, <1>7, <1>8, <1>9, <1>10, <1>11, <1>12, <1>13, <1>14, <1>15, <1>16, <1>17

\* A context is taken from the pool, or is a new one.
LEMMA OwnGet ==
  ASSUME OwnerInv, NEW r \in Req, NEW p \in Path \cup {NoPath}, Get(r, p)
  PROVE  OwnerInv'
<1>0. PICK c \in Ctx :
        /\ c \notin InUse
        /\ pool' = pool \ {c}
        /\ \E x \in {Reset(c, r), [Blank EXCEPT !.request = r]} : ctx' = [ctx EXCEPT ![c] = x]
        /\ call' = [call EXCEPT ![r].pc = "route", ![r].path = p, ![r].ctx = c]
  <2>1. PICK c \in Ctx :
          \/ /\ c \in pool
             /\ pool' = pool \ {c}
             /\ ctx' = [ctx EXCEPT ![c] = Reset(c, r)]
             /\ call' = [call EXCEPT ![r].pc = "route", ![r].path = p, ![r].ctx = c]
          \/ /\ c \notin pool \cup InUse
             /\ ctx' = [ctx EXCEPT ![c] = [Blank EXCEPT !.request = r]]
             /\ call' = [call EXCEPT ![r].pc = "route", ![r].path = p, ![r].ctx = c]
             /\ UNCHANGED pool
    BY DEF Get
  <2>2. c \notin pool => pool \ {c} = pool
    OBVIOUS
  <2>3. c \in pool => c \notin InUse
    BY DEF OwnerInv, OneOwner
  <2>. QED  BY <2>1, <2>2, <2>3
<1>1. PICK x \in {Reset(c, r), [Blank EXCEPT !.request = r]} : ctx' = [ctx EXCEPT ![c] = x]
  BY <1>0
<1>2. call[r].pc = "new" /\ UNCHANGED <<serving, uses, routes, wire>>
  BY DEF Get
<1>3. x \in Context /\ x.request = r /\ x.keys = {}
  <2>0. Blank.keys = {}
    BY DEF Blank
  <2>1. ctx[c].parsed \in [Part -> Req \cup {Nil}]
    BY DEF OwnerInv, TypeOK, Context
  <2>2. CASE x = Reset(c, r)
    <3>1. x = [Blank EXCEPT !.request = r, !.parsed = ctx[c].parsed]
      BY <2>2 DEF Reset
    <3>. QED  BY <2>1, <2>0, <3>1, BlankType DEF Context
  <2>3. CASE x = [Blank EXCEPT !.request = r]
    BY <2>0, <2>3, BlankType DEF Context
  <2>. QED  BY <2>2, <2>3
<1>4. call[r] \in Goroutine
  BY DEF OwnerInv, TypeOK
<1> DEFINE g == [call[r] EXCEPT !.pc = "route", !.path = p, !.ctx = c]
<1>5. g \in Goroutine /\ g.ctx = c /\ g.pc = "route"
  BY <1>4 DEF Goroutine
<1>6. call' = [call EXCEPT ![r] = g]
  BY <1>0, <1>1
<1> HIDE DEF g
<1>7. TypeOK'
  <2>1. ctx' \in [Ctx -> Context]
    BY <1>1, <1>3 DEF OwnerInv, TypeOK
  <2>2. call' \in [Req -> Goroutine]
    BY <1>5, <1>6 DEF OwnerInv, TypeOK
  <2>. QED  BY <1>0, <1>2, <2>1, <2>2 DEF OwnerInv, TypeOK
<1>8. call'[r] = g /\ \A q \in Req \ {r} : call'[q] = call[q]
  BY <1>6 DEF OwnerInv, TypeOK
<1>9. Held'
  BY <1>5, <1>8, EngineAssumption DEF OwnerInv, Held
<1>10. \A q \in Req : call[q].ctx # c
  BY <1>0, <1>1, EngineAssumption DEF InUse
<1>11. Mine(r)' = x
  BY <1>0, <1>1, <1>5, <1>8 DEF OwnerInv, TypeOK, Mine
<1>12. \A q \in Req \ {r} : call[q].ctx # Nil => Mine(q)' = Mine(q)
  BY <1>0, <1>1, <1>8, <1>10 DEF OwnerInv, TypeOK, Mine, Goroutine
<1>13. pool' \cap InUse' = {}
  <2>1. InUse' \subseteq InUse \cup {c}
    BY <1>5, <1>8 DEF InUse
  <2>. QED  BY <1>0, <2>1 DEF OwnerInv, OneOwner
<1>14. OneOwner'
  BY <1>3, <1>5, <1>8, <1>10, <1>11, <1>12, <1>13 DEF OwnerInv, OneOwner
<1>15. OwnKeys'
  BY <1>3, <1>8, <1>11, <1>12 DEF OwnerInv, OwnKeys
<1>. QED  BY <1>7, <1>9, <1>14, <1>15 DEF OwnerInv

\* A goroutine that gives its context up.
LEMMA OwnRelease ==
  ASSUME OwnerInv, NEW r \in Req, Put(r) \/ Lose(r)
  PROVE  OwnerInv'
<1>1. call[r] \in Goroutine /\ call[r].pc \in {"put", "panic"}
  BY DEF OwnerInv, TypeOK, Put, Lose
<1>2. call[r].ctx \in Ctx
  BY <1>1 DEF OwnerInv, Held, Goroutine
<1>3. PICK x \in Context, g \in Goroutine :
        /\ Becomes(r, x) /\ call' = [call EXCEPT ![r] = g]
        /\ g.ctx = Nil /\ g.pc \in {"done", "lost"}
        /\ pool' \in {pool, pool \cup {call[r].ctx}}
        /\ UNCHANGED <<serving, uses, routes, wire>>
  <2>1. CASE Put(r)
    <3> DEFINE x == [Mine(r) EXCEPT !.status = "200", !.written = FALSE]
               g == [call[r] EXCEPT !.pc = "done", !.ctx = Nil]
    <3>1. x \in Context
      BY ZenonT(60), <1>2 DEF OwnerInv, TypeOK, Mine, Context, Status
    <3>2. g \in Goroutine /\ g.ctx = Nil /\ g.pc = "done"
      BY <1>1 DEF Goroutine
    <3>3. /\ Becomes(r, x) /\ call' = [call EXCEPT ![r] = g]
          /\ pool' = pool \cup {call[r].ctx} /\ UNCHANGED <<serving, uses, routes, wire>>
      BY <2>1 DEF Put
    <3>. HIDE DEF x, g
    <3>. QED  BY <3>1, <3>2, <3>3
  <2>2. CASE Lose(r)
    <3> DEFINE g == [call[r] EXCEPT !.pc = "lost", !.ctx = Nil, !.stack = <<>>]
    <3>1. g \in Goroutine /\ g.ctx = Nil /\ g.pc = "lost"
      <4>1. <<>> \in Seq(Frame)
        OBVIOUS
      <4>. QED  BY <1>1, <4>1 DEF Goroutine
    <3>2. /\ Becomes(r, Blank) /\ call' = [call EXCEPT ![r] = g]
          /\ pool' = pool /\ UNCHANGED <<serving, uses, routes, wire>>
      BY <2>2 DEF Lose
    <3>. HIDE DEF g
    <3>. QED  BY <3>1, <3>2, BlankType
  <2>. QED  BY <2>1, <2>2
<1>4. call'[r] = g /\ \A q \in Req \ {r} : call'[q] = call[q]
  BY <1>3 DEF OwnerInv, TypeOK
<1>5. TypeOK'
  BY <1>2, <1>3 DEF OwnerInv, TypeOK, Becomes
<1>6. Held'
  BY <1>3, <1>4 DEF OwnerInv, Held
<1>7. \A q \in Req \ {r} : call[q].ctx # Nil => call[q].ctx # call[r].ctx /\ Mine(q)' = Mine(q)
  BY <1>2, <1>3, <1>4, EngineAssumption DEF OwnerInv, TypeOK, OneOwner, Becomes, Mine
<1>8. InUse' = InUse \ {call[r].ctx}
  <2>1. \A q \in Req \ {r} : call[q].ctx # call[r].ctx
    BY <1>2, <1>7, EngineAssumption
  <2>. QED  BY <1>3, <1>4, <2>1 DEF InUse
<1>9. OneOwner'
  BY <1>3, <1>4, <1>7, <1>8 DEF OwnerInv, OneOwner
<1>10. OwnKeys'
  BY <1>3, <1>4, <1>7 DEF OwnerInv, OwnKeys
<1>. QED  BY <1>5, <1>6, <1>9, <1>10 DEF OwnerInv

\* Steps that touch no context in use.
LEMMA OwnRest ==
  ASSUME OwnerInv,
         \/ \E k \in Kind \ {"filter"} : Use(k)
         \/ \E p \in Path, n \in 0 .. AbortIndex :
              \E handlers \in [1 .. n -> Kind \ {"filter"}] : Handle(p, handlers)
         \/ Run \/ (\E c \in Ctx : Collect(c)) \/ UNCHANGED vars
  PROVE  OwnerInv'
<1>1. call' = call /\ wire' = wire /\ pool' \subseteq pool
  BY DEF Use, Handle, Run, Collect, vars
<1>2. InUse' = InUse
  BY <1>1 DEF InUse
<1>3. \A c \in InUse : ctx'[c] = ctx[c]
  <2>1. ASSUME NEW c \in Ctx, Collect(c) PROVE \A d \in InUse : ctx'[d] = ctx[d]
    <3>1. c \notin InUse
      BY <2>1 DEF OwnerInv, OneOwner, Collect
    <3>2. InUse \subseteq Ctx
      BY DEF OwnerInv, TypeOK, InUse, Goroutine
    <3>. QED  BY <2>1, <3>1, <3>2 DEF OwnerInv, TypeOK, Collect
  <2>2. ASSUME ~\E c \in Ctx : Collect(c) PROVE ctx' = ctx
    BY <2>2 DEF Use, Handle, Run, vars
  <2>. QED  BY <2>1, <2>2
<1>4. \A q \in Req : call[q].ctx # Nil => Mine(q)' = Mine(q)
  BY <1>1, <1>3 DEF InUse, Mine
<1>5. ctx' \in [Ctx -> Context]
  BY BlankType DEF OwnerInv, TypeOK, Use, Handle, Run, Collect, vars
<1>6. serving' \in BOOLEAN /\ uses' \in Seq(Kind) /\ routes' \in [Path -> Seq(Kind)]
  <2>1. uses \in Seq(Kind) /\ routes \in [Path -> Seq(Kind)] /\ serving \in BOOLEAN
    BY DEF OwnerInv, TypeOK
  <2>2. ASSUME NEW k \in Kind \ {"filter"}, Use(k)
        PROVE  serving' \in BOOLEAN /\ uses' \in Seq(Kind) /\ routes' \in [Path -> Seq(Kind)]
    BY <2>1, <2>2, AppendProperties DEF Use
  <2>3. ASSUME NEW p \in Path, NEW n \in 0 .. AbortIndex,
               NEW handlers \in [1 .. n -> Kind \ {"filter"}], Handle(p, handlers)
        PROVE  serving' \in BOOLEAN /\ uses' \in Seq(Kind) /\ routes' \in [Path -> Seq(Kind)]
    <3>1. handlers \in Seq(Kind)
      BY AbortIndexType, SeqDef
    <3>2. uses \o handlers \in Seq(Kind)
      BY <2>1, <3>1, ConcatProperties
    <3>. QED  BY <2>1, <2>3, <3>2 DEF Handle
  <2>4. CASE Run
    <3>1. <<>> \in Seq(Kind)
      OBVIOUS
    <3>. QED  BY <2>1, <2>4, <3>1 DEF Run
  <2>5. CASE (\E c \in Ctx : Collect(c)) \/ UNCHANGED vars
    BY <2>1, <2>5 DEF Collect, vars
  <2>. QED  BY <2>2, <2>3, <2>4, <2>5
<1>7. TypeOK'
  BY <1>1, <1>5, <1>6 DEF OwnerInv, TypeOK
<1>8. Held'
  BY <1>1 DEF OwnerInv, Held
<1>9. OneOwner' /\ OwnKeys'
  BY <1>1, <1>2, <1>4 DEF OwnerInv, OneOwner, OwnKeys
<1>. QED  BY <1>7, <1>8, <1>9 DEF OwnerInv

LEMMA OwnerInitially == Init => OwnerInv
<1> SUFFICES ASSUME Init PROVE OwnerInv
  OBVIOUS
<1>1. <<"filter">> \in Seq(Kind) /\ <<>> \in Seq(Kind)
  BY DEF Kind
<1>2. TypeOK
  <2>1. <<>> \in Seq(Frame) /\ <<>> \in Seq(Nat) /\ <<>> \in Seq(Status \cup {Raw})
    OBVIOUS
  <2>2. [pc |-> "new", path |-> NoPath, ctx |-> Nil, stack |-> <<>>, ran |-> <<>>,
         stopped |-> FALSE] \in Goroutine
    BY <2>1 DEF Goroutine
  <2>. QED  BY <1>1, <2>1, <2>2, BlankType DEF Init, TypeOK
<1>3. Held /\ OneOwner /\ OwnKeys
  BY DEF Init, Held, OneOwner, OwnKeys, InUse
<1>. QED  BY <1>2, <1>3 DEF OwnerInv

LEMMA OwnerInductive == OwnerInv /\ [Next]_vars => OwnerInv'
<1> SUFFICES ASSUME OwnerInv, [Next]_vars PROVE OwnerInv'
  OBVIOUS
<1>1. ASSUME NEW r \in Req, Serve(r) PROVE OwnerInv'
  BY <1>1, OwnServe, OwnGet, OwnRelease DEF Serve
<1>. QED  BY <1>1, OwnRest DEF Next

\* Type correctness (TypeOK).
THEOREM TypeCorrect == Spec => []TypeOK
<1>1. OwnerInv => TypeOK
  BY DEF OwnerInv
<1>. QED  BY <1>1, OwnerInitially, OwnerInductive, PTL DEF Spec

\* No context is shared by two requests, or is in the pool while it is used.
THEOREM Ownership == Spec => []OneOwner
<1>1. OwnerInv => OneOwner
  BY DEF OwnerInv
<1>. QED  BY <1>1, OwnerInitially, OwnerInductive, PTL DEF Spec

\* No request sees keys that another has set.
THEOREM Keys == Spec => []OwnKeys
<1>1. OwnerInv => OwnKeys
  BY DEF OwnerInv
<1>. QED  BY <1>1, OwnerInitially, OwnerInductive, PTL DEF Spec

-----------------------------------------------------------------------------
(* The index.  Every handler on the stack but the running one has called   *)
(* Next, the stack is no deeper than the chain is long, and each frame     *)
(* costs the index one step on the way back: with AbortIndex for the chain *)
(* and AbortIndex for an Abort at the deepest point, one more Next after   *)
(* it still fits in MaxInt8 = 2 * AbortIndex + 1.                          *)

OneNext == NextLimit <= 1

ShortChains == Len(uses) <= AbortIndex /\ \A p \in Path : Len(routes[p]) <= AbortIndex

\* Frames s of a chain of len handlers, each a step further than the last;
\* the first upto of them wait for the handler above them.
Nested(s, len, upto) ==
  /\ len <= AbortIndex
  /\ \A n \in 1 .. Len(s) : n - 1 <= s[n].at /\ s[n].at < len
  /\ \A n \in 1 .. upto : s[n].nexts = 1

InChain(s, len, i) ==
  /\ Len(s) >= 1
  /\ Nested(s, len, Len(s) - 1)
  /\ s[Len(s)].nexts \in {0, 1}
  /\ Len(s) - 1 <= i
  /\ i + Len(s) + 1 - s[Len(s)].nexts <= MaxInt8

ChainOK(g, x) ==
  /\ g.pc = "route" => x.index = -1
  /\ g.pc \in {"handler", "panic"} => InChain(g.stack, Len(x.handlers), x.index)
  /\ g.pc = "finish" => x.index \in 0 .. MaxInt8

ChainInv == OneNext /\ ShortChains /\ \A r \in Req : ChainOK(call[r], Mine(r))

LEMMA LoopChain ==
  ASSUME NEW r \in Req, call[r] \in Goroutine, NEW x \in Context, NEW s \in Seq(Frame),
         Nested(s, Len(x.handlers), Len(s)), x.index \in Nat,
         Len(s) <= x.index, x.index + Len(s) <= MaxInt8
  PROVE  ChainOK(Loop(r, x.handlers, s, x.index), x)
<1> DEFINE i == x.index
           len == Len(x.handlers)
           g == Loop(r, x.handlers, s, i)
           f == [at |-> i, nexts |-> 0]
<1>1. /\ len \in Nat /\ len <= AbortIndex /\ Len(s) \in Nat /\ i \in Nat
      /\ DOMAIN s = 1 .. Len(s)
      /\ \A n \in 1 .. Len(s) : n - 1 <= s[n].at /\ s[n].at < len /\ s[n].nexts = 1
  BY LenProperties DEF Context, Nested
<1>2. ASSUME i < len PROVE ChainOK(g, x)
  <2> DEFINE t == Append(s, f)
  <2>1. f \in Frame
    BY <1>1 DEF Frame
  <2>2. /\ Len(t) = Len(s) + 1 /\ t[Len(s) + 1] = f
        /\ \A n \in 1 .. Len(s) : t[n] = s[n]
    BY <2>1, AppendProperties
  <2>3. g.pc = "handler" /\ g.stack = t
    BY <1>1, <1>2 DEF Loop, Goroutine
  <2>4. InChain(t, len, i)
    <3>1. Nested(t, len, Len(t) - 1)
      BY <1>1, <1>2, <2>2 DEF Nested
    <3>2. i + Len(t) + 1 - t[Len(t)].nexts <= MaxInt8
      BY <1>1, <1>2, <2>2, AbortIndexType
    <3>. QED  BY <1>1, <2>2, <3>1, <3>2 DEF InChain
  <2>. HIDE DEF g, t
  <2>. QED  BY <2>3, <2>4 DEF ChainOK
<1>3. ASSUME ~(i < len), s = <<>> PROVE ChainOK(g, x)
  <2>1. g.pc = "finish"
    BY <1>3 DEF Loop, Goroutine
  <2>2. i \in 0 .. MaxInt8
    BY <1>1, AbortIndexType
  <2>. HIDE DEF g
  <2>. QED  BY <2>1, <2>2 DEF ChainOK
<1>4. ASSUME ~(i < len), s # <<>> PROVE ChainOK(g, x)
  <2>1. g.pc = "handler" /\ g.stack = s
    BY <1>4 DEF Loop, Goroutine
  <2>2. Len(s) >= 1
    BY <1>1, <1>4, EmptySeq
  <2>3. InChain(s, len, i)
    <3>1. Nested(s, len, Len(s) - 1)
      BY <1>1 DEF Nested
    <3>. QED  BY <1>1, <2>2, <3>1, AbortIndexType DEF InChain
  <2>. HIDE DEF g
  <2>. QED  BY <2>1, <2>3 DEF ChainOK
<1>. QED  BY <1>2, <1>3, <1>4

\* After Abort, at any depth.
LEMMA AbortChain ==
  ASSUME NEW s \in Seq(Frame), NEW len \in Nat, NEW i \in Int, InChain(s, len, i)
  PROVE  InChain(s, len, AbortIndex)
<1>1. Len(s) \in Nat /\ Len(s) >= 1
  BY LenProperties DEF InChain
<1>2. s[Len(s)] \in Frame
  BY <1>1, ElementOfSeq
<1>3. s[Len(s)].at \in Nat /\ s[Len(s)].nexts \in Nat
  BY <1>2 DEF Frame
<1>4. Len(s) - 1 <= s[Len(s)].at /\ s[Len(s)].at < len /\ len <= AbortIndex
  BY <1>1 DEF InChain, Nested
<1>5. Len(s) <= AbortIndex
  BY <1>1, <1>3, <1>4, AbortIndexType
<1>. QED  BY <1>1, <1>3, <1>5, AbortIndexType DEF InChain

\* A step of r in its own context, and the other requests.
LEMMA ChainStep ==
  ASSUME OwnerInv, ChainInv, NEW r \in Req, call[r].ctx # Nil, NEW x, Becomes(r, x),
         NEW g, call' = [call EXCEPT ![r] = g], g.ctx \in {call[r].ctx, Nil},
         g.ctx = Nil => g.pc \in {"done", "lost"}, ChainOK(g, x),
         UNCHANGED <<uses, routes>>
  PROVE  ChainInv'
<1>1. call[r].ctx \in Ctx
  BY DEF OwnerInv, TypeOK, Goroutine
<1>2. call'[r] = g /\ \A q \in Req \ {r} : call'[q] = call[q]
  BY DEF OwnerInv, TypeOK
<1>3. ASSUME NEW q \in Req \ {r} PROVE ChainOK(call[q], Mine(q))'
  <2>1. CASE call[q].ctx # Nil
    <3>1. Mine(q)' = Mine(q)
      BY <1>1, <1>2, <2>1 DEF OwnerInv, TypeOK, Becomes, Mine, OneOwner
    <3>. QED  BY <1>2, <3>1 DEF ChainInv, ChainOK
  <2>2. CASE call[q].ctx = Nil
    BY <1>2, <2>2 DEF OwnerInv, Held, ChainOK
  <2>. QED  BY <2>1, <2>2
<1>4. ChainOK(call[r], Mine(r))'
  <2>1. CASE g.ctx = Nil
    BY <1>2, <2>1 DEF ChainOK
  <2>2. CASE g.ctx = call[r].ctx
    <3>1. Mine(r)' = x
      BY <1>1, <1>2, <2>2 DEF OwnerInv, TypeOK, Becomes, Mine
    <3>. QED  BY <1>2, <3>1 DEF ChainOK
  <2>. QED  BY <2>1, <2>2
<1>. QED  BY <1>3, <1>4 DEF ChainInv, ShortChains

\* The frames below the running one all wait.
LEMMA NestedBelow ==
  ASSUME NEW s \in Seq(Frame), NEW S \in Seq(Frame), NEW len \in Nat,
         Nested(S, len, Len(S) - 1), Len(s) <= Len(S) - 1,
         \A n \in 1 .. Len(s) : s[n] = S[n]
  PROVE  Nested(s, len, Len(s))
<1>1. Len(s) \in Nat /\ Len(S) \in Nat
  BY LenProperties
<1>2. \A n \in 1 .. Len(s) : n \in 1 .. Len(S) /\ n \in 1 .. Len(S) - 1
  BY <1>1
<1>. QED  BY <1>1, <1>2 DEF Nested

\* The running one has called Next, and waits as well.
LEMMA NestedTop ==
  ASSUME NEW s \in Seq(Frame), NEW S \in Seq(Frame), NEW len \in Nat, NEW D \in Nat,
         D >= 1, Len(S) = D, Len(s) = D, Nested(S, len, D - 1),
         \A n \in 1 .. D - 1 : s[n] = S[n], s[D].at = S[D].at, s[D].nexts = 1
  PROVE  Nested(s, len, Len(s))
<1>1. \A n \in 1 .. D : n = D \/ n \in 1 .. D - 1
  OBVIOUS
<1>2. \A n \in 1 .. D : s[n].at = S[n].at
  BY <1>1
<1>3. \A n \in 1 .. D : s[n].nexts = 1
  BY <1>1 DEF Nested
<1>. QED  BY <1>2, <1>3 DEF Nested

\* The loop, entered from Next, from a return or from a recovery.
LEMMA ChainLoop ==
  ASSUME OwnerInv, ChainInv, NEW r \in Req, Route(r) \/ CallNext(r) \/ Return(r) \/ Recover(r)
  PROVE  ChainInv'
<1> DEFINE x == Mine(r)
           S == call[r].stack
           D == Len(S)
<1>1. /\ call[r] \in Goroutine /\ call[r].ctx \in Ctx /\ call[r].ctx # Nil
      /\ x \in Context /\ x.index \in Int /\ x.handlers \in Seq(Kind)
      /\ S \in Seq(Frame) /\ D \in Nat
  <2>1. call[r].pc \notin {"new", "done", "lost"}
    BY DEF Route, CallNext, Return, Recover, Recovered, InHandler
  <2>2. call[r] \in Goroutine /\ call[r].ctx \in Ctx /\ call[r].ctx # Nil
    BY <2>1, EngineAssumption DEF OwnerInv, TypeOK, Held, Goroutine
  <2>3. x \in Context
    BY <2>2 DEF OwnerInv, TypeOK, Mine
  <2>. QED  BY <2>2, <2>3, LenProperties DEF Goroutine, Context
<1>2. ChainOK(call[r], x) /\ AbortIndex \in Nat /\ MaxInt8 = 2 * AbortIndex + 1 /\ AbortIndex >= 1
  BY AbortIndexType, EngineAssumption DEF ChainInv
<1>3. ASSUME NEW y \in Context, Becomes(r, y), NEW s \in Seq(Frame),
             Nested(s, Len(y.handlers), Len(s)), y.index \in Nat,
             Len(s) <= y.index, y.index + Len(s) <= MaxInt8, NEW b \in {call[r].stopped, TRUE},
             call' = [call EXCEPT ![r] = [Loop(r, y.handlers, s, y.index) EXCEPT !.stopped = b]],
             UNCHANGED <<uses, routes>>
      PROVE  ChainInv'
  <2> DEFINE l == Loop(r, y.handlers, s, y.index)
             g == [l EXCEPT !.stopped = b]
  <2>1. ChainOK(l, y)
    BY <1>1, <1>3, LoopChain
  <2>2. l \in Goroutine /\ l.ctx = call[r].ctx
    <3>1. y.handlers \in Seq(Kind) /\ y.index \in Int
      BY DEF Context
    <3>. QED  BY <1>1, <3>1, LoopType
  <2>. HIDE DEF l
  <2>3. g.pc = l.pc /\ g.stack = l.stack /\ g.ctx = call[r].ctx
    BY <2>2 DEF Goroutine
  <2>4. ChainOK(g, y)
    BY <2>1, <2>3 DEF ChainOK
  <2>5. call' = [call EXCEPT ![r] = g]
    BY <1>3 DEF l
  <2>. HIDE DEF g
  <2>. QED  BY <1>1, <1>3, <2>3, <2>4, <2>5, ChainStep
<1>4. ASSUME NEW y \in Context, Becomes(r, y), NEW s \in Seq(Frame),
             Nested(s, Len(y.handlers), Len(s)), y.index \in Nat,
             Len(s) <= y.index, y.index + Len(s) <= MaxInt8,
             call' = [call EXCEPT ![r] = Loop(r, y.handlers, s, y.index)],
             UNCHANGED <<uses, routes>>
      PROVE  ChainInv'
  <2> DEFINE g == Loop(r, y.handlers, s, y.index)
  <2>1. ChainOK(g, y)
    BY <1>1, <1>4, LoopChain
  <2>2. g.ctx = call[r].ctx
    <3>1. y.handlers \in Seq(Kind) /\ y.index \in Int
      BY DEF Context
    <3>. QED  BY <1>1, <3>1, LoopType
  <2>3. call' = [call EXCEPT ![r] = g]
    BY <1>4
  <2>. HIDE DEF g
  <2>. QED  BY <1>1, <1>4, <2>1, <2>2, <2>3, ChainStep
<1>5. CASE Route(r)
  <2> DEFINE hs == routes[call[r].path]
             y == [x EXCEPT !.handlers = hs, !.index = 0]
  <2>1. Int8(x.index + 1) = 0
    BY <1>2, <1>5 DEF Route, ChainOK, Int8
  <2>2. hs \in Seq(Kind) /\ Len(hs) <= AbortIndex
    BY <1>5 DEF Route, OwnerInv, TypeOK, ChainInv, ShortChains
  <2>3. y \in Context /\ y.handlers = hs /\ y.index = 0
    <3>1. x \in Context /\ hs \in Seq(Kind) /\ 0 \in Int
      BY <1>1, <2>2
    <3>. QED  BY <3>1 DEF Context
  <2>4. Becomes(r, y) /\ call' = [call EXCEPT ![r] = Loop(r, hs, <<>>, 0)]
        /\ UNCHANGED <<uses, routes>>
    BY <1>5, <2>1 DEF Route
  <2>5. Nested(<<>>, Len(hs), Len(<<>>)) /\ Len(<<>>) = 0 /\ <<>> \in Seq(Frame)
    BY <2>2 DEF Nested
  <2>. HIDE DEF y, hs
  <2>6. y.index + Len(<<>>) <= MaxInt8 /\ Len(<<>>) <= y.index /\ y.index \in Nat
    BY <1>2, <2>3, <2>5
  <2>7. /\ call' = [call EXCEPT ![r] = Loop(r, y.handlers, <<>>, y.index)]
        /\ Nested(<<>>, Len(y.handlers), Len(<<>>))
    BY <2>3, <2>4, <2>5
  <2>. QED  BY <1>4, <2>3, <2>4, <2>5, <2>6, <2>7
<1>6. CASE CallNext(r)
  <2> DEFINE i == x.index + 1
             y == [x EXCEPT !.index = i]
             t == [Top(r) EXCEPT !.nexts = @ + 1]
             s == Append(Front(S), t)
  <2>1. InChain(S, Len(x.handlers), x.index) /\ S # <<>>
    BY <1>1, <1>2, <1>6 DEF CallNext, InHandler, ChainOK, OwnerInv, Held
  <2>2. /\ Top(r) = S[D] /\ S[D] \in Frame /\ D >= 1
        /\ Front(S) \in Seq(Frame) /\ Len(Front(S)) = D - 1
        /\ \A n \in 1 .. D - 1 : Front(S)[n] = S[n]
    BY <1>1, <2>1, StackType DEF Top
  <2>3. S[D].nexts = 0
    BY <1>6, <2>1, <2>2, EngineAssumption DEF CallNext, ChainInv, OneNext, InChain
  <2>4. t \in Frame /\ t.nexts = 1 /\ t.at = S[D].at
    BY <2>2, <2>3 DEF Frame
  <2>5. /\ s \in Seq(Frame) /\ Len(s) = D /\ s[D] = t
        /\ \A n \in 1 .. D - 1 : s[n] = S[n]
    <3>. HIDE DEF t
    <3>. QED  BY SMTT(40), <1>1, <2>2, <2>4, AppendProperties
  <2>6. Nested(s, Len(x.handlers), Len(s))
    <3>1. Nested(S, Len(x.handlers), D - 1) /\ Len(x.handlers) \in Nat
      BY <1>1, <2>1, LenProperties DEF InChain
    <3>2. s[D].at = S[D].at /\ s[D].nexts = 1
      BY <2>4, <2>5
    <3>. HIDE DEF s, t
    <3>. QED  BY <1>1, <2>2, <2>5, <3>1, <3>2, NestedTop
  <2>7. x.index + D + 1 <= MaxInt8 /\ D - 1 <= x.index
    BY <1>1, <2>1, <2>3 DEF InChain
  <2>8. Int8(x.index + 1) = i
    BY <1>1, <1>2, <2>2, <2>7 DEF Int8
  <2>9. y \in Context /\ y.handlers = x.handlers /\ y.index = i
    BY <1>1 DEF Context
  <2>10. Becomes(r, y) /\ call' = [call EXCEPT ![r] = Loop(r, x.handlers, s, i)]
         /\ UNCHANGED <<uses, routes>>
    BY <1>6, <2>8 DEF CallNext
  <2>11. i \in Nat /\ D <= i /\ i + D <= MaxInt8
    BY <1>1, <1>2, <2>2, <2>7
  <2>. HIDE DEF y, s, i
  <2>. QED  BY <1>4, <2>5, <2>6, <2>9, <2>10, <2>11
<1>7. CASE Return(r)
  <2> DEFINE i == x.index + 1
             y == [x EXCEPT !.index = i]
             s == Front(S)
  <2>1. InChain(S, Len(x.handlers), x.index) /\ S # <<>>
    BY <1>1, <1>2, <1>7 DEF Return, InHandler, ChainOK, OwnerInv, Held
  <2>2. /\ D >= 1 /\ s \in Seq(Frame) /\ Len(s) = D - 1
        /\ \A n \in 1 .. D - 1 : s[n] = S[n]
    BY SMTT(40), <1>1, <2>1, StackType
  <2>3. Nested(s, Len(x.handlers), Len(s))
    <3>1. Nested(S, Len(x.handlers), D - 1) /\ Len(x.handlers) \in Nat
      BY <1>1, <2>1, LenProperties DEF InChain
    <3>2. Len(s) <= D - 1
      BY <1>1, <2>2
    <3>. HIDE DEF s
    <3>. QED  BY <1>1, <2>2, <3>1, <3>2, NestedBelow
  <2>4. x.index + D <= MaxInt8 /\ D - 1 <= x.index
    <3>1. S[D].nexts = 0 \/ S[D].nexts = 1
      BY <2>1 DEF InChain
    <3>2. x.index + D + 1 - S[D].nexts <= MaxInt8
      BY <2>1 DEF InChain
    <3>3. D - 1 <= x.index
      BY <2>1 DEF InChain
    <3>. QED  BY <1>1, <1>2, <3>1, <3>2, <3>3
  <2>5. Int8(x.index + 1) = i
    BY <1>1, <1>2, <2>2, <2>4 DEF Int8
  <2>6. y \in Context /\ y.handlers = x.handlers /\ y.index = i
    BY <1>1 DEF Context
  <2>7. Becomes(r, y) /\ call' = [call EXCEPT ![r] = Loop(r, x.handlers, s, i)]
        /\ UNCHANGED <<uses, routes>>
    BY <1>7, <2>5 DEF Return
  <2>8. i \in Nat /\ D - 1 <= i /\ i + (D - 1) <= MaxInt8
    <3>1. D \in Nat /\ D >= 1 /\ x.index \in Int
      BY <1>1, <2>2
    <3>. QED  BY SMTT(40), <1>2, <2>4, <3>1
  <2>. HIDE DEF y, s, i
  <2>. QED  BY <1>4, <2>2, <2>3, <2>6, <2>7, <2>8
<1>8. CASE Recover(r)
  <2> DEFINE i == AbortIndex + 1
             z == AbortedWith(x, "500")
             y == [z EXCEPT !.index = i]
  <2>1. Int8(AbortIndex + 1) = i
    BY <1>2 DEF Int8
  <2>2. PICK n \in DOMAIN S : Recovered(r, n, z, i)
    BY <1>8, <2>1 DEF Recover
  <2> DEFINE s == SubSeq(S, 1, n - 1)
  <2>3. InChain(S, Len(x.handlers), x.index) /\ n \in 1 .. D
    BY <1>1, <1>2, <2>2, LenProperties DEF Recovered, ChainOK
  <2>4. z \in Context /\ z.handlers = x.handlers
    <3>1. "500" \in Status
      BY DEF Status
    <3>. QED  BY <1>1, <3>1, AbortedType
  <2>. HIDE DEF z
  <2>5. y \in Context /\ y.handlers = x.handlers /\ y.index = i
    BY <1>2, <2>4 DEF Context
  <2>6. s \in Seq(Frame) /\ Len(s) = n - 1 /\ \A m \in 1 .. n - 1 : s[m] = S[m]
    <3>1. \A m \in 1 .. n - 1 : S[m] \in Frame
      BY <1>1, <2>3, ElementOfSeq
    <3>. QED  BY <1>1, <2>3, <3>1, SubSeqProperties
  <2>7. Nested(s, Len(x.handlers), Len(s))
    <3>1. Nested(S, Len(x.handlers), D - 1) /\ Len(x.handlers) \in Nat
      BY <1>1, <2>3, LenProperties DEF InChain
    <3>2. Len(s) <= D - 1
      BY <1>1, <2>3, <2>6
    <3>. HIDE DEF s
    <3>. QED  BY <1>1, <2>6, <3>1, <3>2, NestedBelow
  <2>8. n - 1 < AbortIndex
    <3>0. S[n] \in Frame
      BY <1>1, <2>3, ElementOfSeq
    <3>1. S[n].at \in Nat
      BY <3>0 DEF Frame
    <3>2. n - 1 <= S[n].at /\ S[n].at < Len(x.handlers) /\ Len(x.handlers) <= AbortIndex
      BY <2>3 DEF InChain, Nested
    <3>3. Len(x.handlers) \in Nat
      BY <1>1, LenProperties
    <3>. QED  BY <1>2, <2>3, <3>1, <3>2, <3>3
  <2>9. i \in Nat /\ n - 1 <= i /\ i + (n - 1) <= MaxInt8
    BY <1>2, <2>3, <2>8
  <2>10. Becomes(r, y) /\ UNCHANGED <<uses, routes>>
         /\ call' = [call EXCEPT ![r] = [Loop(r, x.handlers, s, i) EXCEPT !.stopped = TRUE]]
    BY <2>2, <2>4 DEF Recovered
  <2>. HIDE DEF y, s, i
  <2>. QED  BY <1>3, <2>5, <2>6, <2>7, <2>9, <2>10
<1>. QED  BY <1>5, <1>6, <1>7, <1>8

\* What the handlers do besides, and the end of a request.
LEMMA ChainAct ==
  ASSUME OwnerInv, ChainInv, NEW r \in Req,
         \/ NotFound(r) \/ Finish(r) \/ Put(r) \/ Abort(r) \/ AbortWithStatus(r)
         \/ WriteHeader(r) \/ Response(r) \/ Hijack(r) \/ Set(r)
         \/ (\E part \in Part : GetParsed(r, part)) \/ Panic(r) \/ Lose(r)
  PROVE  ChainInv'
<1> DEFINE x == Mine(r)
<1>1. /\ call[r] \in Goroutine /\ call[r].ctx # Nil /\ x \in Context
      /\ call[r].stack \in Seq(Frame) /\ Len(x.handlers) \in Nat /\ x.index \in Int
      /\ call = [call EXCEPT ![r] = call[r]]
  <2>1. call[r].pc \notin {"new", "done", "lost"}
    BY DEF NotFound, Finish, Put, Abort, AbortWithStatus, WriteHeader, Response, Hijack, Set,
           GetParsed, Panic, Lose, Does, InHandler
  <2>2. call[r] \in Goroutine /\ call[r].ctx \in Ctx /\ call[r].ctx # Nil
    BY <2>1, EngineAssumption DEF OwnerInv, TypeOK, Held, Goroutine
  <2>3. x \in Context
    BY <2>2 DEF OwnerInv, TypeOK, Mine
  <2>. QED  BY <2>2, <2>3, LenProperties DEF OwnerInv, TypeOK, Goroutine, Context
<1>2. ChainOK(call[r], x)
  BY DEF ChainInv
<1>3. ASSUME NEW y, Becomes(r, y), y.index = x.index, y.handlers = x.handlers,
             call' = call, UNCHANGED <<uses, routes>>
      PROVE  ChainInv'
  <2>1. ChainOK(call[r], y)
    BY <1>2, <1>3 DEF ChainOK
  <2>. QED  BY <1>1, <1>3, <2>1, ChainStep
<1>4. ASSUME NEW y, Becomes(r, y), y.index = AbortIndex, y.handlers = x.handlers,
             call[r].pc = "handler", call' = [call EXCEPT ![r].stopped = TRUE],
             UNCHANGED <<uses, routes>>
      PROVE  ChainInv'
  <2> DEFINE g == [call[r] EXCEPT !.stopped = TRUE]
  <2>1. g.pc = "handler" /\ g.stack = call[r].stack /\ g.ctx = call[r].ctx
    BY <1>1, <1>4 DEF Goroutine
  <2>2. InChain(call[r].stack, Len(x.handlers), AbortIndex)
    BY <1>1, <1>2, <1>4, AbortChain DEF ChainOK
  <2>3. ChainOK(g, y)
    <3>. HIDE DEF g
    <3>. QED  BY <1>4, <2>1, <2>2 DEF ChainOK
  <2>4. call' = [call EXCEPT ![r] = g]
    BY <1>4
  <2>. HIDE DEF g
  <2>. QED  BY <1>1, <1>4, <2>1, <2>3, <2>4, ChainStep
<1>5. ASSUME NEW y, NEW g,
             \/ g.pc = "put" /\ g.ctx = call[r].ctx
             \/ g.pc \in {"done", "lost"} /\ g.ctx = Nil,
             Becomes(r, y) /\ call' = [call EXCEPT ![r] = g] /\ UNCHANGED <<uses, routes>>
      PROVE  ChainInv'
  <2>1. ChainOK(g, y)
    BY <1>5 DEF ChainOK
  <2>. QED  BY <1>1, <1>5, <2>1, ChainStep
<1>6. CASE NotFound(r)
  <2> DEFINE g == [call[r] EXCEPT !.pc = "put"]
  <2>1. g.pc = "put" /\ g.ctx = call[r].ctx
    BY <1>1 DEF Goroutine
  <2>2. Becomes(r, WriteHeaderNow(SetStatus(x, "404")))
        /\ call' = [call EXCEPT ![r] = g] /\ UNCHANGED <<uses, routes>>
    BY <1>6 DEF NotFound
  <2>. HIDE DEF g
  <2>. QED  BY <1>5, <2>1, <2>2
<1>7. CASE Finish(r)
  <2> DEFINE g == [call[r] EXCEPT !.pc = "put"]
  <2>1. g.pc = "put" /\ g.ctx = call[r].ctx
    BY <1>1 DEF Goroutine
  <2>2. Becomes(r, WriteHeaderNow(x))
        /\ call' = [call EXCEPT ![r] = g] /\ UNCHANGED <<uses, routes>>
    BY <1>7 DEF Finish
  <2>. HIDE DEF g
  <2>. QED  BY <1>5, <2>1, <2>2
<1>8. CASE Put(r)
  <2> DEFINE g == [call[r] EXCEPT !.pc = "done", !.ctx = Nil]
             y == [x EXCEPT !.status = "200", !.written = FALSE]
  <2>1. g.pc = "done" /\ g.ctx = Nil
    BY <1>1 DEF Goroutine
  <2>2. Becomes(r, y) /\ call' = [call EXCEPT ![r] = g] /\ UNCHANGED <<uses, routes>>
    BY <1>8 DEF Put
  <2>. HIDE DEF g, y
  <2>. QED  BY <1>5, <2>1, <2>2
<1>9. CASE Lose(r)
  <2> DEFINE g == [call[r] EXCEPT !.pc = "lost", !.ctx = Nil, !.stack = <<>>]
  <2>1. g.pc = "lost" /\ g.ctx = Nil
    BY <1>1 DEF Goroutine
  <2>2. Becomes(r, Blank) /\ call' = [call EXCEPT ![r] = g] /\ UNCHANGED <<uses, routes>>
    BY <1>9 DEF Lose
  <2>. HIDE DEF g
  <2>. QED  BY <1>5, <2>1, <2>2
<1>10. CASE Abort(r)
  <2> DEFINE y == [x EXCEPT !.index = AbortIndex]
  <2>1. y.index = AbortIndex /\ y.handlers = x.handlers
    BY <1>1 DEF Context
  <2>2. /\ Becomes(r, y) /\ call[r].pc = "handler"
        /\ call' = [call EXCEPT ![r].stopped = TRUE] /\ UNCHANGED <<uses, routes>>
    BY <1>10 DEF Abort, Does, InHandler
  <2>. HIDE DEF y
  <2>. QED  BY <1>4, <2>1, <2>2
<1>11. CASE AbortWithStatus(r)
  <2>1. PICK code \in UserCodes : Becomes(r, AbortedWith(x, code))
    BY <1>11 DEF AbortWithStatus
  <2> DEFINE y == AbortedWith(x, code)
  <2>2. code \in Status
    BY DEF Status
  <2>3. y.index = AbortIndex /\ y.handlers = x.handlers
    BY <1>1, <2>2, AbortedType
  <2>4. /\ call[r].pc = "handler" /\ UNCHANGED <<uses, routes>>
        /\ call' = [call EXCEPT ![r].stopped = TRUE]
    BY <1>11 DEF AbortWithStatus, Does, InHandler
  <2>. HIDE DEF y
  <2>. QED  BY <1>4, <2>1, <2>3, <2>4 DEF y
<1>12. CASE WriteHeader(r)
  <2>1. PICK code \in UserCodes : Becomes(r, SetStatus(x, code))
    BY <1>12 DEF WriteHeader
  <2>2. SetStatus(x, code).index = x.index /\ SetStatus(x, code).handlers = x.handlers
    BY <1>1 DEF SetStatus, Context
  <2>3. call' = call /\ UNCHANGED <<uses, routes>>
    BY <1>12 DEF WriteHeader
  <2>. QED  BY <1>3, <2>1, <2>2, <2>3
<1>13. CASE Response(r) \/ Hijack(r)
  <2>1. WriteHeaderNow(x).index = x.index /\ WriteHeaderNow(x).handlers = x.handlers
    BY <1>1 DEF WriteHeaderNow, Context
  <2>2. Becomes(r, WriteHeaderNow(x)) /\ call' = call /\ UNCHANGED <<uses, routes>>
    BY <1>13 DEF Response, Hijack
  <2>. QED  BY <1>3, <2>1, <2>2
<1>14. CASE Set(r)
  <2> DEFINE y == [x EXCEPT !.keys = @ \cup {r}]
  <2>1. y.index = x.index /\ y.handlers = x.handlers
    BY <1>1 DEF Context
  <2>2. Becomes(r, y) /\ call' = call /\ UNCHANGED <<uses, routes>>
    BY <1>14 DEF Set
  <2>. HIDE DEF y
  <2>. QED  BY <1>3, <2>1, <2>2
<1>15. ASSUME NEW part \in Part, GetParsed(r, part) PROVE ChainInv'
  <2> DEFINE y == [x EXCEPT !.parsed[part] = IF @ = Nil THEN x.request ELSE @]
  <2>1. y.index = x.index /\ y.handlers = x.handlers
    BY <1>1 DEF Context
  <2>2. Becomes(r, y) /\ call' = call /\ UNCHANGED <<uses, routes>>
    BY <1>15 DEF GetParsed
  <2>. HIDE DEF y
  <2>. QED  BY <1>3, <2>1, <2>2
<1>16. CASE Panic(r)
  <2> DEFINE g == [call[r] EXCEPT !.pc = "panic"]
  <2>1. g.pc = "panic" /\ g.ctx = call[r].ctx /\ g.stack = call[r].stack
    BY <1>1 DEF Goroutine
  <2>2. /\ call' = [call EXCEPT ![r] = g] /\ UNCHANGED <<uses, routes>>
        /\ Becomes(r, x) /\ call[r].pc = "handler"
    BY <1>1, <1>16 DEF Panic, Does, InHandler, Becomes, Mine, OwnerInv, TypeOK
  <2>. HIDE DEF g
  <2>3. ChainOK(g, x)
    BY <1>2, <2>1, <2>2 DEF ChainOK
  <2>. QED  BY <1>1, <2>1, <2>2, <2>3, ChainStep
<1>. QED  BY <1>6, <1>7, <1>8, <1>9, <1>10, <1>11, <1>12, <1>13, <1>14, <1>15, <1>16

\* A request begins with its context reset.
LEMMA ChainGet ==
  ASSUME OwnerInv, ChainInv, NEW r \in Req, NEW p \in Path \cup {NoPath}, Get(r, p)
  PROVE  ChainInv'
<1>1. PICK c \in Ctx :
        /\ c \notin InUse /\ ctx'[c].index = -1 /\ \A d \in Ctx \ {c} : ctx'[d] = ctx[d]
        /\ call' = [call EXCEPT ![r].pc = "route", ![r].path = p, ![r].ctx = c]
  <2>1. PICK c \in Ctx : \E x \in {Reset(c, r), [Blank EXCEPT !.request = r]} :
          /\ c \notin InUse /\ ctx' = [ctx EXCEPT ![c] = x]
          /\ call' = [call EXCEPT ![r].pc = "route", ![r].path = p, ![r].ctx = c]
    BY DEF Get, OwnerInv, OneOwner
  <2>2. \A x \in {Reset(c, r), [Blank EXCEPT !.request = r]} : x.index = -1
    BY DEF Reset, Blank
  <2>. QED  BY <2>1, <2>2 DEF OwnerInv, TypeOK
<1>2. /\ call'[r].pc = "route" /\ call'[r].ctx = c
      /\ \A q \in Req \ {r} : call'[q] = call[q]
  BY <1>1 DEF OwnerInv, TypeOK, Goroutine
<1>3. ChainOK(call[r], Mine(r))'
  BY <1>1, <1>2 DEF ChainOK, Mine
<1>4. ASSUME NEW q \in Req \ {r} PROVE ChainOK(call[q], Mine(q))'
  <2>1. CASE call[q].ctx # Nil
    <3>1. Mine(q)' = Mine(q)
      BY <1>1, <1>2, <2>1 DEF Mine, InUse, OwnerInv, TypeOK, Goroutine
    <3>. QED  BY <1>2, <3>1 DEF ChainInv, ChainOK
  <2>2. CASE call[q].ctx = Nil
    BY <1>2, <2>2 DEF OwnerInv, Held, ChainOK
  <2>. QED  BY <2>1, <2>2
<1>5. UNCHANGED <<uses, routes>>
  BY DEF Get
<1>. QED  BY <1>3, <1>4, <1>5 DEF ChainInv, ShortChains

\* Registration keeps within the limit.
LEMMA ShortChainsKept ==
  ASSUME TypeOK, ShortChains,
         \/ \E k \in Kind \ {"filter"} : Use(k)
         \/ \E p \in Path, n \in 0 .. AbortIndex :
              \E handlers \in [1 .. n -> Kind \ {"filter"}] : Handle(p, handlers)
         \/ Run \/ (\E c \in Ctx : Collect(c)) \/ UNCHANGED vars
  PROVE  ShortChains'
<1>1. /\ uses \in Seq(Kind) /\ routes \in [Path -> Seq(Kind)]
      /\ Len(uses) <= AbortIndex /\ \A p \in Path : Len(routes[p]) <= AbortIndex
  BY DEF TypeOK, ShortChains
<1>2. ASSUME NEW k \in Kind \ {"filter"}, Use(k) PROVE ShortChains'
  <2>1. Len(Append(uses, k)) = Len(uses) + 1
    BY <1>1, AppendProperties
  <2>. QED  BY <1>1, <1>2, <2>1 DEF Use, WithinLimit, ShortChains
<1>3. ASSUME NEW p \in Path, NEW n \in 0 .. AbortIndex,
             NEW handlers \in [1 .. n -> Kind \ {"filter"}], Handle(p, handlers)
      PROVE  ShortChains'
  <2>1. handlers \in Seq(Kind)
    BY AbortIndexType, SeqDef
  <2>2. Len(uses \o handlers) = Len(uses) + Len(handlers)
    BY <1>1, <2>1, ConcatProperties
  <2>3. Len(routes'[p]) <= AbortIndex /\ \A q \in Path \ {p} : routes'[q] = routes[q]
    BY <1>1, <1>3, <2>2 DEF Handle, WithinLimit
  <2>4. uses' = uses
    BY <1>3 DEF Handle
  <2>. QED  BY <1>1, <2>3, <2>4 DEF ShortChains
<1>4. CASE Run
  <2>1. Len(<<>>) = 0
    OBVIOUS
  <2>. QED  BY <1>1, <1>4, <2>1, AbortIndexType DEF Run, ShortChains
<1>5. CASE (\E c \in Ctx : Collect(c)) \/ UNCHANGED vars
  BY <1>1, <1>5 DEF Collect, vars, ShortChains
<1>. QED  BY <1>2, <1>3, <1>4, <1>5

\* Collect frees a context nobody uses.
LEMMA ChainRest ==
  ASSUME OwnerInv, ChainInv,
         \/ \E k \in Kind \ {"filter"} : Use(k)
         \/ \E p \in Path, n \in 0 .. AbortIndex :
              \E handlers \in [1 .. n -> Kind \ {"filter"}] : Handle(p, handlers)
         \/ Run \/ (\E c \in Ctx : Collect(c)) \/ UNCHANGED vars
  PROVE  ChainInv'
<1>1. call' = call
  BY DEF Use, Handle, Run, Collect, vars
<1>2. ASSUME NEW q \in Req PROVE ChainOK(call[q], Mine(q))'
  <2>1. CASE call[q].ctx # Nil
    <3>1. call[q].ctx \in InUse /\ call[q].ctx \in Ctx
      BY <2>1 DEF InUse, OwnerInv, TypeOK, Goroutine
    <3>2. ctx'[call[q].ctx] = ctx[call[q].ctx]
      BY <3>1 DEF OwnerInv, TypeOK, OneOwner, Use, Handle, Run, Collect, vars
    <3>3. Mine(q)' = Mine(q)
      BY <1>1, <3>2 DEF Mine
    <3>. QED  BY <1>1, <3>3 DEF ChainInv, ChainOK
  <2>2. CASE call[q].ctx = Nil
    BY <1>1, <2>2 DEF OwnerInv, Held, ChainOK
  <2>. QED  BY <2>1, <2>2
<1>3. ShortChains'
  BY ShortChainsKept DEF OwnerInv, ChainInv
<1>. QED  BY <1>2, <1>3 DEF ChainInv, OneNext

LEMMA ChainInitially == OneNext /\ Init => ChainInv
<1> SUFFICES ASSUME OneNext, Init PROVE ChainInv
  OBVIOUS
<1>1. Len(<<"filter">>) = 1 /\ Len(<<>>) = 0
  OBVIOUS
<1>2. AbortIndex >= 1 /\ AbortIndex \in Nat
  BY AbortIndexType, EngineAssumption
<1>3. ShortChains
  BY <1>1, <1>2 DEF Init, ShortChains
<1>4. \A r \in Req : ChainOK(call[r], Mine(r))
  BY DEF Init, ChainOK
<1>. QED  BY <1>3, <1>4 DEF ChainInv

LEMMA ChainInductive == OwnerInv /\ ChainInv /\ [Next]_vars => ChainInv'
<1> SUFFICES ASSUME OwnerInv, ChainInv, [Next]_vars PROVE ChainInv'
  OBVIOUS
<1>1. ASSUME NEW r \in Req, Serve(r) PROVE ChainInv'
  BY <1>1, ChainLoop, ChainAct, ChainGet DEF Serve
<1>. QED  BY <1>1, ChainRest DEF Next

\* While every handler calls Next at most once, the index never wraps.
THEOREM IndexNeverWraps == OneNext => (Spec => []IndexFits)
<1>1. OwnerInv /\ ChainInv => IndexFits
  <2> SUFFICES ASSUME OwnerInv, ChainInv, NEW r \in Req,
                      call[r].pc \in {"handler", "panic", "finish"}
               PROVE  Mine(r).index \in 0 .. MaxInt8
    BY DEF IndexFits
  <2>1. call[r].ctx \in Ctx /\ call[r].stack \in Seq(Frame)
    BY DEF OwnerInv, TypeOK, Held, Goroutine
  <2>2. Mine(r).index \in Int /\ Len(call[r].stack) \in Nat
    BY <2>1, LenProperties DEF OwnerInv, TypeOK, Mine, Context
  <2>3. ChainOK(call[r], Mine(r))
    BY DEF ChainInv
  <2>4. CASE call[r].pc = "finish"
    BY <2>3, <2>4 DEF ChainOK
  <2>5. CASE call[r].pc \in {"handler", "panic"}
    <3>1. InChain(call[r].stack, Len(Mine(r).handlers), Mine(r).index)
      BY <2>3, <2>5 DEF ChainOK
    <3>2. \E n \in {0, 1} : Mine(r).index + Len(call[r].stack) + 1 - n <= MaxInt8
      BY <3>1 DEF InChain
    <3>3. Len(call[r].stack) >= 1 /\ Len(call[r].stack) - 1 <= Mine(r).index
      BY <3>1 DEF InChain
    <3>. QED  BY <2>2, <3>2, <3>3, AbortIndexType
  <2>. QED  BY <2>4, <2>5
<1>2. OneNext /\ Init => OwnerInv /\ ChainInv
  BY OwnerInitially, ChainInitially
<1>3. OwnerInv /\ ChainInv /\ [Next]_vars => (OwnerInv /\ ChainInv)'
  BY OwnerInductive, ChainInductive
<1>. QED  BY <1>1, <1>2, <1>3, PTL DEF Spec

-----------------------------------------------------------------------------
(* The order of the handlers, and the answer. *)

NoRoute(p) == p \in Path => routes[p] = <<>>

\* Every chain is within the limit and begins with the filter, which Router
\* adds first; requests come after registration.
Chains ==
  /\ ShortChains
  /\ ~serving => uses # <<>> /\ uses[1] = "filter"
  /\ \A p \in Path : routes[p] # <<>> => routes[p][1] = "filter"
  /\ \A r \in Req : call[r].pc # "new" => serving

LEMMA ChainsInitially == Init => Chains
<1> SUFFICES ASSUME Init PROVE Chains
  OBVIOUS
<1>1. /\ Len(<<"filter">>) = 1 /\ Len(<<>>) = 0
      /\ <<"filter">> # <<>> /\ <<"filter">>[1] = "filter"
  OBVIOUS
<1>2. AbortIndex >= 1 /\ AbortIndex \in Nat
  BY AbortIndexType, EngineAssumption
<1>. QED  BY <1>1, <1>2 DEF Init, Chains, ShortChains

\* The first of two sequences put together.
LEMMA ConcatFirst ==
  ASSUME NEW S, NEW a \in Seq(S), NEW b \in Seq(S), a # <<>>
  PROVE  a \o b # <<>> /\ (a \o b)[1] = a[1]
<1>1. Len(a) \in Nat \ {0} /\ Len(b) \in Nat
  BY LenProperties, EmptySeq
<1>2. /\ Len(a \o b) = Len(a) + Len(b)
      /\ \A n \in 1 .. Len(a) + Len(b) :
           (a \o b)[n] = IF n <= Len(a) THEN a[n] ELSE b[n - Len(a)]
  BY ConcatProperties
<1>3. Len(a \o b) # 0
  BY <1>1, <1>2
<1>. QED  BY <1>1, <1>2, <1>3

LEMMA ChainsKept == OwnerInv /\ Chains /\ [Next]_vars => Chains'
<1> SUFFICES ASSUME OwnerInv, Chains, [Next]_vars PROVE Chains'
  OBVIOUS
<1>1. /\ TypeOK /\ ShortChains /\ uses \in Seq(Kind)
      /\ \A p \in Path : routes[p] # <<>> => routes[p][1] = "filter"
      /\ \A r \in Req : call[r].pc # "new" => serving
      /\ call \in [Req -> Goroutine]
  BY DEF OwnerInv, TypeOK, Chains
<1>2. ASSUME NEW r \in Req, Serve(r) PROVE Chains'
  <2>1. /\ UNCHANGED <<serving, uses, routes>>
        /\ \E g : call' = [call EXCEPT ![r] = g]
        /\ serving
    <3>1. UNCHANGED <<serving, uses, routes>>
      BY <1>2 DEF Serve, Get, Route, NotFound, CallNext, Return, Finish, Put, Abort,
           AbortWithStatus, WriteHeader, Response, Hijack, Set, GetParsed, Panic, Recover,
           Recovered, Lose
    <3>2. serving
      BY <1>1, <1>2 DEF Serve, Get, Route, NotFound, CallNext, Return, Finish, Put, Abort,
           AbortWithStatus, WriteHeader, Response, Hijack, Set, GetParsed, Panic, Recover,
           Recovered, Lose, Does, InHandler
    <3>3. \E g : call' = [call EXCEPT ![r] = g]
      <4>1. CASE call' = call
        BY <1>1, <4>1 DEF TypeOK
      <4>2. CASE call' # call
        BY <1>2, <4>2 DEF Serve, Get, Route, NotFound, CallNext, Return, Finish, Put, Abort,
             AbortWithStatus, WriteHeader, Response, Hijack, Set, GetParsed, Panic, Recover,
             Recovered, Lose
      <4>. QED  BY <4>1, <4>2
    <3>. QED  BY <3>1, <3>2, <3>3
  <2>. QED  BY <2>1 DEF Chains, ShortChains
<1>3. ASSUME \/ \E k \in Kind \ {"filter"} : Use(k)
             \/ \E p \in Path, n \in 0 .. AbortIndex :
                  \E handlers \in [1 .. n -> Kind \ {"filter"}] : Handle(p, handlers)
             \/ Run \/ (\E c \in Ctx : Collect(c)) \/ UNCHANGED vars
      PROVE  Chains'
  <2>1. ShortChains'
    BY <1>1, <1>3, ShortChainsKept
  <2>2. call' = call /\ (serving => serving')
    BY <1>3 DEF Use, Handle, Run, Collect, vars
  <2>3. ~serving' => uses' # <<>> /\ uses'[1] = "filter"
    <3>1. ASSUME NEW k \in Kind \ {"filter"}, Use(k), ~serving
          PROVE  uses' # <<>> /\ uses'[1] = "filter"
      <4>1. /\ Len(Append(uses, k)) = Len(uses) + 1 /\ Len(uses) \in Nat \ {0}
            /\ Append(uses, k)[1] = uses[1]
        BY <1>1, <3>1, AppendProperties, LenProperties, EmptySeq DEF Chains
      <4>. QED  BY <3>1, <4>1 DEF Use, Chains
    <3>. QED  BY <1>3, <3>1 DEF Use, Handle, Run, Collect, vars, Chains
  <2>4. \A p \in Path : routes'[p] # <<>> => routes'[p][1] = "filter"
    <3>1. ASSUME NEW p \in Path, NEW n \in 0 .. AbortIndex,
                 NEW handlers \in [1 .. n -> Kind \ {"filter"}], Handle(p, handlers)
          PROVE  \A q \in Path : routes'[q] # <<>> => routes'[q][1] = "filter"
      <4>1. handlers \in Seq(Kind)
        BY AbortIndexType, SeqDef
      <4>2. uses # <<>> /\ uses[1] = "filter"
        BY <3>1 DEF Handle, Chains
      <4>3. (uses \o handlers)[1] = "filter"
        BY <1>1, <4>1, <4>2, ConcatFirst
      <4>. QED  BY <1>1, <3>1, <4>3 DEF Handle, TypeOK
    <3>. QED  BY <1>1, <1>3, <3>1 DEF Use, Run, Collect, vars
  <2>. QED  BY <1>1, <2>1, <2>2, <2>3, <2>4 DEF Chains
<1>. QED  BY <1>2, <1>3 DEF Next

-----------------------------------------------------------------------------
(* The steps of a request, by what they do to its goroutine, its context   *)
(* and what its connection is sent.                                        *)

\* Request r has a context; it becomes y, and the goroutine g.
Steps(r, y, g) ==
  /\ call[r].ctx # Nil
  /\ Becomes(r, y) /\ call' = [call EXCEPT ![r] = g]
  /\ UNCHANGED <<serving, uses, routes>>
  /\ g.path = call[r].path
  /\ g.ctx = IF g.pc \in {"done", "lost"} THEN Nil ELSE call[r].ctx
  /\ \A q \in Req \ {r} : wire'[q] = wire[q]

\* Nothing is sent; the header, if it was not before; or the connection is taken.
Silent(r, y) == wire'[r] = wire[r] /\ y.written = Mine(r).written
Headed(r, y) ==
  /\ y.written
  /\ wire'[r] = IF Mine(r).written THEN wire[r] ELSE Append(wire[r], y.status)
Hijacked(r, y) == y.written /\ wire'[r] = Append(wire[r], Raw)

\* A user's handler acts.
HandlerActs(r, y, g) ==
  /\ InHandler(r) /\ TopKind(r) = "user"
  /\ y.handlers = Mine(r).handlers /\ g.stack = call[r].stack
  /\ \/ g.pc = "handler" /\ g.stopped = call[r].stopped /\ y.index = Mine(r).index
     \/ g.pc = "handler" /\ g.stopped /\ y.index = AbortIndex
     \/ g.pc = "panic" /\ g.stopped = call[r].stopped
  /\ y.status \in UserCodes \cup {Mine(r).status}
  /\ Silent(r, y) \/ Headed(r, y) \/ Hijacked(r, y)

\* The chain is over, or there is none.
ChainOver(r, y, g) ==
  /\ g.pc = "put" /\ g.stopped = call[r].stopped /\ Headed(r, y)
  /\ \/ call[r].pc = "route" /\ NoRoute(call[r].path) /\ y.status = "404"
     \/ call[r].pc = "finish" /\ y.status = Mine(r).status

\* The goroutine ends.
Leaves(r, y, g) ==
  /\ wire'[r] = wire[r] /\ g.stopped = call[r].stopped
  /\ \/ call[r].pc = "put" /\ g.pc = "done"
     \/ call[r].pc = "panic" /\ Recovering(r) = {} /\ g.pc = "lost"

LEMMA InService ==
  ASSUME OwnerInv, NEW r \in Req, call[r].pc \notin {"new", "done", "lost"}
  PROVE  /\ TypeOK /\ call[r] \in Goroutine /\ call[r].ctx \in Ctx /\ call[r].ctx # Nil
         /\ Mine(r) \in Context /\ Mine(r).request = r
         /\ Mine(r).handlers \in Seq(Kind) /\ Mine(r).index \in Int
         /\ call[r].stack \in Seq(Frame) /\ call[r].ran \in Seq(Nat)
         /\ wire[r] \in Seq(Status \cup {Raw})
<1>1. /\ TypeOK /\ call[r] \in Goroutine /\ call[r].ctx \in Ctx /\ call[r].ctx # Nil
      /\ wire[r] \in Seq(Status \cup {Raw})
  BY EngineAssumption DEF OwnerInv, TypeOK, Held, Goroutine
<1>2. Mine(r) \in Context /\ Mine(r).request = r
  BY <1>1 DEF OwnerInv, TypeOK, OneOwner, Mine
<1>. QED  BY <1>1, <1>2 DEF Goroutine, Context

LEMMA ActStep ==
  ASSUME OwnerInv, NEW r \in Req,
         \/ NotFound(r) \/ Finish(r) \/ Put(r) \/ Abort(r) \/ AbortWithStatus(r)
         \/ WriteHeader(r) \/ Response(r) \/ Hijack(r) \/ Set(r)
         \/ (\E part \in Part : GetParsed(r, part)) \/ Panic(r) \/ Lose(r)
  PROVE  \E y, g : /\ Steps(r, y, g) /\ g.ran = call[r].ran
                   /\ HandlerActs(r, y, g) \/ ChainOver(r, y, g) \/ Leaves(r, y, g)
<1> DEFINE x == Mine(r)
<1>1. /\ call[r] \in Goroutine /\ call[r].ctx \in Ctx /\ call[r].ctx # Nil
      /\ x \in Context /\ x.request = r
      /\ call = [call EXCEPT ![r] = call[r]] /\ ctx = [ctx EXCEPT ![call[r].ctx] = x]
      /\ wire \in [Req -> Seq(Status \cup {Raw})]
  <2>1. call[r].pc \notin {"new", "done", "lost"}
    BY DEF NotFound, Finish, Put, Abort, AbortWithStatus, WriteHeader, Response, Hijack, Set,
           GetParsed, Panic, Lose, Does, InHandler
  <2>. QED  BY <2>1, InService DEF TypeOK, Mine
<1>2. UNCHANGED <<serving, uses, routes>>
  BY DEF NotFound, Finish, Put, Abort, AbortWithStatus, WriteHeader, Response, Hijack, Set,
         GetParsed, Panic, Lose
<1> HIDE DEF x
\* The steps of a handler: the goroutine stays, aborts or panics.
<1>3. ASSUME NEW y, Becomes(r, y), InHandler(r), TopKind(r) = "user",
             y.handlers = x.handlers, y.status \in UserCodes \cup {x.status},
             NEW g, call' = [call EXCEPT ![r] = g], g.ctx = call[r].ctx, g.path = call[r].path,
             g.ran = call[r].ran, g.stack = call[r].stack,
             \/ g.pc = "handler" /\ g.stopped = call[r].stopped /\ y.index = x.index
             \/ g.pc = "handler" /\ g.stopped /\ y.index = AbortIndex
             \/ g.pc = "panic" /\ g.stopped = call[r].stopped,
             Silent(r, y) \/ Headed(r, y) \/ Hijacked(r, y),
             \A q \in Req \ {r} : wire'[q] = wire[q]
      PROVE  Steps(r, y, g) /\ HandlerActs(r, y, g)
  BY <1>1, <1>2, <1>3 DEF Steps, HandlerActs, InHandler, x
<1>4. ASSUME NEW z \in Context, z.request = r, z.written = x.written, wire' = Sends(z)
      PROVE  /\ wire'[r] = IF x.written THEN wire[r] ELSE Append(wire[r], z.status)
             /\ \A q \in Req \ {r} : wire'[q] = wire[q]
  BY <1>1, <1>4 DEF Sends
<1>5. /\ x.written \in BOOLEAN /\ x.status \in Status
      /\ \A code \in Status :
           /\ SetStatus(x, code) = [x EXCEPT !.status = code]
           /\ SetStatus(x, code) \in Context /\ SetStatus(x, code).request = r
           /\ SetStatus(x, code).written = x.written /\ SetStatus(x, code).status = code
           /\ SetStatus(x, code).handlers = x.handlers /\ SetStatus(x, code).index = x.index
  BY <1>1 DEF SetStatus, Context
<1>6. \A z \in Context :
        /\ WriteHeaderNow(z).written /\ WriteHeaderNow(z).status = z.status
        /\ WriteHeaderNow(z).handlers = z.handlers /\ WriteHeaderNow(z).index = z.index
  BY DEF WriteHeaderNow, Context
<1>7. CASE NotFound(r)
  <2> DEFINE y == WriteHeaderNow(SetStatus(x, "404"))
             g == [call[r] EXCEPT !.pc = "put"]
  <2>1. "404" \in Status
    BY DEF Status
  <2>2. /\ y.written /\ y.status = "404"
        /\ g.pc = "put" /\ g.path = call[r].path /\ g.ctx = call[r].ctx
        /\ g.ran = call[r].ran /\ g.stopped = call[r].stopped
    BY <1>1, <1>5, <1>6, <2>1 DEF Goroutine
  <2>3. /\ Becomes(r, y) /\ call' = [call EXCEPT ![r] = g]
        /\ wire' = Sends(SetStatus(x, "404"))
        /\ call[r].pc = "route" /\ NoRoute(call[r].path)
    BY <1>7 DEF NotFound, x, NoRoute
  <2> HIDE DEF y, g
  <2>4. Steps(r, y, g) /\ ChainOver(r, y, g)
    BY <1>1, <1>2, <1>4, <1>5, <2>1, <2>2, <2>3 DEF Steps, ChainOver, Headed, x
  <2>. QED  BY <2>2, <2>4
<1>8. CASE Finish(r)
  <2> DEFINE y == WriteHeaderNow(x)
             g == [call[r] EXCEPT !.pc = "put"]
  <2>1. /\ y.written /\ y.status = x.status
        /\ g.pc = "put" /\ g.path = call[r].path /\ g.ctx = call[r].ctx
        /\ g.ran = call[r].ran /\ g.stopped = call[r].stopped
    BY <1>1, <1>6 DEF Goroutine
  <2>2. /\ Becomes(r, y) /\ call' = [call EXCEPT ![r] = g]
        /\ wire' = Sends(x) /\ call[r].pc = "finish"
    BY <1>8 DEF Finish, x
  <2> HIDE DEF y, g
  <2>3. Steps(r, y, g) /\ ChainOver(r, y, g)
    BY <1>1, <1>2, <1>4, <2>1, <2>2 DEF Steps, ChainOver, Headed, x
  <2>. QED  BY <2>1, <2>3
<1>9. CASE Put(r)
  <2> DEFINE y == [x EXCEPT !.status = "200", !.written = FALSE]
             g == [call[r] EXCEPT !.pc = "done", !.ctx = Nil]
  <2>1. /\ g.pc = "done" /\ g.path = call[r].path /\ g.ctx = Nil
        /\ g.ran = call[r].ran /\ g.stopped = call[r].stopped
    BY <1>1 DEF Goroutine
  <2>2. /\ Becomes(r, y) /\ call' = [call EXCEPT ![r] = g]
        /\ wire' = wire /\ call[r].pc = "put"
    BY <1>9 DEF Put, x
  <2> HIDE DEF y, g
  <2>3. Steps(r, y, g) /\ Leaves(r, y, g)
    BY <1>1, <1>2, <2>1, <2>2 DEF Steps, Leaves
  <2>. QED  BY <2>1, <2>3
<1>10. CASE Lose(r)
  <2> DEFINE g == [call[r] EXCEPT !.pc = "lost", !.ctx = Nil, !.stack = <<>>]
  <2>1. /\ g.pc = "lost" /\ g.path = call[r].path /\ g.ctx = Nil
        /\ g.ran = call[r].ran /\ g.stopped = call[r].stopped
    BY <1>1 DEF Goroutine
  <2>2. /\ Becomes(r, Blank) /\ call' = [call EXCEPT ![r] = g]
        /\ wire' = wire /\ call[r].pc = "panic" /\ Recovering(r) = {}
    BY <1>10 DEF Lose
  <2> HIDE DEF g
  <2>3. Steps(r, Blank, g) /\ Leaves(r, Blank, g)
    BY <1>1, <1>2, <2>1, <2>2 DEF Steps, Leaves
  <2>. QED  BY <2>1, <2>3
<1>11. CASE Abort(r)
  <2> DEFINE y == [x EXCEPT !.index = AbortIndex]
             g == [call[r] EXCEPT !.stopped = TRUE]
  <2>1. /\ y.index = AbortIndex /\ y.handlers = x.handlers /\ y.status = x.status
        /\ y.written = x.written
        /\ g.pc = call[r].pc /\ g.path = call[r].path /\ g.ctx = call[r].ctx
        /\ g.ran = call[r].ran /\ g.stack = call[r].stack /\ g.stopped
    BY <1>1 DEF Goroutine, Context
  <2>2. /\ Becomes(r, y) /\ call' = [call EXCEPT ![r] = g] /\ wire' = wire
        /\ InHandler(r) /\ TopKind(r) = "user" /\ call[r].pc = "handler"
    BY <1>11 DEF Abort, Does, InHandler, x
  <2> HIDE DEF y, g
  <2>3. Silent(r, y)
    BY <2>1, <2>2 DEF Silent, x
  <2>. QED  BY <1>3, <2>1, <2>2, <2>3
<1>12. ASSUME NEW code \in UserCodes, Becomes(r, AbortedWith(x, code)), AbortWithStatus(r),
              wire' = Sends(SetStatus(x, code))
       PROVE  \E y, g : Steps(r, y, g) /\ g.ran = call[r].ran /\ HandlerActs(r, y, g)
  <2> DEFINE y == AbortedWith(x, code)
             g == [call[r] EXCEPT !.stopped = TRUE]
  <2>1. code \in Status
    BY DEF Status
  <2>2. y.index = AbortIndex /\ y.handlers = x.handlers /\ y.written /\ y.status = code
    <3>1. y = [x EXCEPT !.status = code, !.written = TRUE, !.index = AbortIndex]
      BY DEF AbortedWith, WriteHeaderNow, SetStatus
    <3>. QED  BY <1>1, <3>1 DEF Context
  <2>3. /\ g.pc = call[r].pc /\ g.path = call[r].path /\ g.ctx = call[r].ctx
        /\ g.ran = call[r].ran /\ g.stack = call[r].stack /\ g.stopped
    BY <1>1 DEF Goroutine
  <2>4. /\ Becomes(r, y) /\ call' = [call EXCEPT ![r] = g]
        /\ InHandler(r) /\ TopKind(r) = "user" /\ call[r].pc = "handler"
    BY <1>12 DEF AbortWithStatus, Does, InHandler
  <2> HIDE DEF y, g
  <2>5. Headed(r, y) /\ \A q \in Req \ {r} : wire'[q] = wire[q]
    BY <1>4, <1>5, <1>12, <2>1, <2>2 DEF Headed, x
  <2>. QED  BY <1>3, <2>2, <2>3, <2>4, <2>5
\* The goroutine as it is, with the same index.
<1>13. ASSUME NEW y, Becomes(r, y), call' = call, InHandler(r), TopKind(r) = "user",
              y.index = x.index, y.handlers = x.handlers, y.status \in UserCodes \cup {x.status},
              Silent(r, y) \/ Headed(r, y) \/ Hijacked(r, y),
              \A q \in Req \ {r} : wire'[q] = wire[q]
       PROVE  \E z, g : Steps(r, z, g) /\ g.ran = call[r].ran /\ HandlerActs(r, z, g)
  <2>1. call' = [call EXCEPT ![r] = call[r]] /\ call[r].pc = "handler"
    BY <1>1, <1>13 DEF InHandler
  <2>. QED  BY <1>3, <1>13, <2>1
<1>14. ASSUME NEW code \in UserCodes, Becomes(r, SetStatus(x, code)), WriteHeader(r)
       PROVE  \E y, g : Steps(r, y, g) /\ g.ran = call[r].ran /\ HandlerActs(r, y, g)
  <2> DEFINE y == SetStatus(x, code)
  <2>1. code \in Status
    BY DEF Status
  <2>2. /\ y.index = x.index /\ y.handlers = x.handlers /\ y.status = code
        /\ y.written = x.written
    BY <1>5, <2>1
  <2>3. call' = call /\ wire' = wire /\ InHandler(r) /\ TopKind(r) = "user" /\ Becomes(r, y)
    BY <1>14 DEF WriteHeader, Does
  <2> HIDE DEF y
  <2>4. Silent(r, y)
    BY <2>2, <2>3 DEF Silent, x
  <2>. QED  BY <1>13, <2>2, <2>3, <2>4
<1>15. CASE Response(r) \/ Hijack(r)
  <2> DEFINE y == WriteHeaderNow(x)
  <2>1. /\ y.index = x.index /\ y.handlers = x.handlers /\ y.status = x.status /\ y.written
    BY <1>1, <1>6
  <2>2. /\ call' = call /\ InHandler(r) /\ TopKind(r) = "user" /\ Becomes(r, y)
        /\ wire' = Sends(x) \/ wire' = [wire EXCEPT ![r] = Append(@, Raw)]
    BY <1>1, <1>15 DEF Response, Hijack, Does, x
  <2> HIDE DEF y
  <2>3. /\ Headed(r, y) \/ Hijacked(r, y)
        /\ \A q \in Req \ {r} : wire'[q] = wire[q]
    <3>1. CASE wire' = Sends(x)
      BY <1>1, <1>4, <2>1, <3>1 DEF Headed, x
    <3>2. CASE wire' = [wire EXCEPT ![r] = Append(@, Raw)]
      BY <1>1, <2>1, <3>2 DEF Hijacked
    <3>. QED  BY <2>2, <3>1, <3>2
  <2>. QED  BY <1>13, <2>1, <2>2, <2>3
<1>16. CASE Set(r)
  <2> DEFINE y == [x EXCEPT !.keys = @ \cup {r}]
  <2>1. /\ y.index = x.index /\ y.handlers = x.handlers /\ y.status = x.status
        /\ y.written = x.written
    BY <1>1 DEF Context
  <2>2. call' = call /\ wire' = wire /\ InHandler(r) /\ TopKind(r) = "user" /\ Becomes(r, y)
    BY <1>16 DEF Set, Does, x
  <2> HIDE DEF y
  <2>3. Silent(r, y)
    BY <2>1, <2>2 DEF Silent, x
  <2>. QED  BY <1>13, <2>1, <2>2, <2>3
<1>17. ASSUME NEW part \in Part, GetParsed(r, part)
       PROVE  \E z, g : Steps(r, z, g) /\ g.ran = call[r].ran /\ HandlerActs(r, z, g)
  <2> DEFINE y == [x EXCEPT !.parsed[part] = IF @ = Nil THEN x.request ELSE @]
  <2>1. /\ y.index = x.index /\ y.handlers = x.handlers /\ y.status = x.status
        /\ y.written = x.written
    BY <1>1 DEF Context
  <2>2. call' = call /\ wire' = wire /\ InHandler(r) /\ TopKind(r) = "user" /\ Becomes(r, y)
    BY <1>17 DEF GetParsed, Does, x
  <2> HIDE DEF y
  <2>3. Silent(r, y)
    BY <2>1, <2>2 DEF Silent, x
  <2>. QED  BY <1>13, <2>1, <2>2, <2>3
<1>18. CASE Panic(r)
  <2> DEFINE g == [call[r] EXCEPT !.pc = "panic"]
  <2>1. /\ g.pc = "panic" /\ g.path = call[r].path /\ g.ctx = call[r].ctx
        /\ g.ran = call[r].ran /\ g.stack = call[r].stack /\ g.stopped = call[r].stopped
    BY <1>1 DEF Goroutine
  <2>2. /\ call' = [call EXCEPT ![r] = g] /\ wire' = wire /\ ctx' = ctx
        /\ InHandler(r) /\ TopKind(r) = "user"
    BY <1>18 DEF Panic, Does
  <2> HIDE DEF g
  <2>3. Becomes(r, x) /\ Silent(r, x)
    BY <1>1, <2>2 DEF Becomes, Silent, x
  <2>. QED  BY <1>3, <2>1, <2>2, <2>3
<1>19. CASE AbortWithStatus(r)
  <2>1. PICK code \in UserCodes : /\ Becomes(r, AbortedWith(x, code))
                                  /\ wire' = Sends(SetStatus(x, code))
    BY <1>19 DEF AbortWithStatus, x
  <2>. QED  BY <1>12, <1>19, <2>1
<1>20. CASE WriteHeader(r)
  <2>1. PICK code \in UserCodes : Becomes(r, SetStatus(x, code))
    BY <1>20 DEF WriteHeader, x
  <2>. QED  BY <1>14, <1>20, <2>1
<1>. QED
  BY <1>7, <1>8, <1>9, <1>10, <1>11, <1>15, <1>16, <1>17, <1>18, <1>19, <1>20

\* The loop goes on at index i of a chain of len handlers, with the stack s:
\* a handler starts, the index is out of range, or the loop is over.
Goes(g, h, len, s, i) ==
  \/ /\ 0 <= i /\ i < len
     /\ g.pc = "handler" /\ g.ran = Append(h.ran, i)
     /\ g.stack = Append(s, [at |-> i, nexts |-> 0])
  \/ i < 0 /\ i < len /\ g.pc = "panic" /\ g.ran = h.ran /\ g.stack = s
  \/ i >= len /\ g.pc = (IF s = <<>> THEN "finish" ELSE "handler") /\ g.ran = h.ran /\ g.stack = s

LEMMA LoopGoes ==
  ASSUME NEW r \in Req, call[r] \in Goroutine, NEW handlers \in Seq(Kind),
         NEW s \in Seq(Frame), NEW i \in Int, NEW g, g = Loop(r, handlers, s, i)
  PROVE  /\ Goes(g, call[r], Len(handlers), s, i)
         /\ g.path = call[r].path /\ g.ctx = call[r].ctx /\ g.stopped = call[r].stopped
         /\ g.pc \in {"handler", "panic", "finish"} /\ g \in Goroutine
<1> DEFINE f == [at |-> i, nexts |-> 0]
<1>1. Len(handlers) \in Nat
  BY LenProperties
<1>2. g \in Goroutine
  BY LoopType
<1>3. CASE i < Len(handlers) /\ i >= 0
  <2>1. g = [call[r] EXCEPT !.pc = "handler", !.ran = Append(@, i), !.stack = Append(s, f)]
    BY <1>3 DEF Loop
  <2>2. /\ g.pc = "handler" /\ g.ran = Append(call[r].ran, i) /\ g.stack = Append(s, f)
        /\ g.path = call[r].path /\ g.ctx = call[r].ctx /\ g.stopped = call[r].stopped
    BY <2>1 DEF Goroutine
  <2>. QED  BY <1>2, <1>3, <2>2 DEF Goes
<1>4. CASE i < Len(handlers) /\ i < 0
  <2>1. g = [call[r] EXCEPT !.pc = "panic", !.stack = s]
    BY <1>4 DEF Loop
  <2>2. /\ g.pc = "panic" /\ g.ran = call[r].ran /\ g.stack = s
        /\ g.path = call[r].path /\ g.ctx = call[r].ctx /\ g.stopped = call[r].stopped
    BY <2>1 DEF Goroutine
  <2>. QED  BY <1>2, <1>4, <2>2 DEF Goes
<1>5. CASE i >= Len(handlers)
  <2>1. g = [call[r] EXCEPT !.pc = IF s = <<>> THEN "finish" ELSE "handler", !.stack = s]
    BY <1>1, <1>5 DEF Loop
  <2>2. /\ g.pc = (IF s = <<>> THEN "finish" ELSE "handler")
        /\ g.ran = call[r].ran /\ g.stack = s
        /\ g.path = call[r].path /\ g.ctx = call[r].ctx /\ g.stopped = call[r].stopped
    BY <2>1 DEF Goroutine
  <2>. QED  BY <1>2, <1>5, <2>2 DEF Goes
<1>. QED  BY <1>1, <1>3, <1>4, <1>5

Called(s) == Append(Front(s), [Last(s) EXCEPT !.nexts = @ + 1])

\* The four ways into the loop: the first Next of a request, a Next of the
\* running handler, its return, and a recovery.
Entered(r, y, g, s, i) ==
  \/ /\ call[r].pc = "route" /\ ~NoRoute(call[r].path)
     /\ y.handlers = routes[call[r].path] /\ i = Int8(Mine(r).index + 1) /\ s = <<>>
     /\ g.stopped = call[r].stopped /\ y.status = Mine(r).status /\ Silent(r, y)
  \/ /\ call[r].pc = "handler" /\ y.handlers = Mine(r).handlers
     /\ i = Int8(Mine(r).index + 1)
     /\ \/ s = Called(call[r].stack) /\ (TopKind(r) = "user" => Top(r).nexts < NextLimit)
                                     /\ (TopKind(r) # "user" => Top(r).nexts = 0)
        \/ s = Front(call[r].stack) /\ (TopKind(r) # "user" => Top(r).nexts = 1)
     /\ g.stopped = call[r].stopped /\ y.status = Mine(r).status /\ Silent(r, y)
  \/ /\ call[r].pc = "panic" /\ y.handlers = Mine(r).handlers
     /\ i = Int8(AbortIndex + 1)
     /\ \E n \in DOMAIN call[r].stack :
          Innermost(r, n) /\ s = SubSeq(call[r].stack, 1, n - 1)
     /\ g.stopped /\ y.status = "500" /\ Headed(r, y)

LEMMA LoopStep ==
  ASSUME OwnerInv, NEW r \in Req, Route(r) \/ CallNext(r) \/ Return(r) \/ Recover(r)
  PROVE  \E y \in Context, g \in Goroutine, s \in Seq(Frame), i \in Int :
           /\ Steps(r, y, g) /\ y.index = i
           /\ Goes(g, call[r], Len(y.handlers), s, i)
           /\ Entered(r, y, g, s, i)
<1> DEFINE x == Mine(r)
           S == call[r].stack
<1>1. /\ TypeOK /\ call[r] \in Goroutine /\ call[r].ctx \in Ctx /\ call[r].ctx # Nil
      /\ x \in Context /\ x.request = r /\ x.handlers \in Seq(Kind) /\ x.index \in Int
      /\ S \in Seq(Frame) /\ wire \in [Req -> Seq(Status \cup {Raw})]
  <2>1. call[r].pc \notin {"new", "done", "lost"}
    BY DEF Route, CallNext, Return, Recover, Recovered, InHandler
  <2>. QED  BY <2>1, InService DEF TypeOK
<1>2. UNCHANGED <<serving, uses, routes>>
  BY DEF Route, CallNext, Return, Recover, Recovered
<1> HIDE DEF x
<1>3. ASSUME NEW y \in Context, Becomes(r, y), NEW s \in Seq(Frame), NEW i \in Int, y.index = i,
             wire' = wire, y.written = x.written,
             call' = [call EXCEPT ![r] = Loop(r, y.handlers, s, i)]
      PROVE  \E g \in Goroutine :
               /\ Steps(r, y, g) /\ Silent(r, y) /\ g.stopped = call[r].stopped
               /\ Goes(g, call[r], Len(y.handlers), s, i)
  <2> DEFINE g == Loop(r, y.handlers, s, i)
  <2>1. y.handlers \in Seq(Kind)
    BY DEF Context
  <2>2. /\ Goes(g, call[r], Len(y.handlers), s, i)
        /\ g.path = call[r].path /\ g.ctx = call[r].ctx /\ g.stopped = call[r].stopped
        /\ g.pc \in {"handler", "panic", "finish"} /\ g \in Goroutine
    BY <1>1, <2>1, LoopGoes
  <2>3. call' = [call EXCEPT ![r] = g]
    BY <1>3
  <2> HIDE DEF g
  <2>. QED  BY <1>1, <1>2, <1>3, <2>2, <2>3 DEF Steps, Silent, x
<1>4. CASE Route(r)
  <2> DEFINE i == Int8(x.index + 1)
             y == [x EXCEPT !.handlers = routes[call[r].path], !.index = i]
  <2>1. i \in Int /\ routes[call[r].path] \in Seq(Kind)
    BY <1>1, <1>4, Int8Type DEF Route, TypeOK
  <2>2. <<>> \in Seq(Frame)
    OBVIOUS
  <2> HIDE DEF i
  <2>3. /\ y \in Context /\ y.index = i /\ y.handlers = routes[call[r].path]
        /\ y.status = x.status /\ y.written = x.written
    BY <1>1, <2>1 DEF Context
  <2>4. /\ Becomes(r, y) /\ wire' = wire /\ call[r].pc = "route" /\ ~NoRoute(call[r].path)
        /\ call' = [call EXCEPT ![r] = Loop(r, routes[call[r].path], <<>>, i)]
    BY <1>4 DEF Route, NoRoute, x, i
  <2> HIDE DEF y
  <2>5. PICK g \in Goroutine :
          /\ Steps(r, y, g) /\ Silent(r, y) /\ g.stopped = call[r].stopped
          /\ Goes(g, call[r], Len(y.handlers), <<>>, i)
    BY <1>3, <2>1, <2>2, <2>3, <2>4
  <2>6. Entered(r, y, g, <<>>, i)
    BY <2>3, <2>4, <2>5 DEF Entered, x, i
  <2>. QED  BY <2>1, <2>2, <2>3, <2>5, <2>6
<1>5. CASE CallNext(r) \/ Return(r)
  <2> DEFINE i == Int8(x.index + 1)
             y == [x EXCEPT !.index = i]
  <2>1. i \in Int /\ S # <<>>
    BY <1>1, <1>5, Int8Type DEF CallNext, Return, InHandler, OwnerInv, Held
  <2> HIDE DEF i
  <2>2. /\ y \in Context /\ y.index = i /\ y.handlers = x.handlers
        /\ y.status = x.status /\ y.written = x.written
    BY <1>1, <2>1 DEF Context
  <2>3. PICK s \in Seq(Frame) :
          /\ call' = [call EXCEPT ![r] = Loop(r, x.handlers, s, i)]
          /\ \/ s = Called(S) /\ (TopKind(r) = "user" => Top(r).nexts < NextLimit)
                              /\ (TopKind(r) # "user" => Top(r).nexts = 0)
             \/ s = Front(S) /\ (TopKind(r) # "user" => Top(r).nexts = 1)
    <3>1. CASE CallNext(r)
      <4>1. Called(S) \in Seq(Frame)
        <5>1. Last(S) \in Frame /\ Front(S) \in Seq(Frame)
          BY <1>1, <2>1, StackType
        <5>2. [Last(S) EXCEPT !.nexts = @ + 1] \in Frame
          BY <5>1 DEF Frame
        <5>. QED  BY <5>1, <5>2, AppendProperties DEF Called
      <4>2. /\ call' = [call EXCEPT ![r] = Loop(r, x.handlers, Called(S), i)]
            /\ (TopKind(r) = "user" => Top(r).nexts < NextLimit)
            /\ (TopKind(r) # "user" => Top(r).nexts = 0)
        BY <3>1 DEF CallNext, Called, Top, x, i
      <4>. QED  BY <4>1, <4>2
    <3>2. CASE Return(r)
      <4>1. Front(S) \in Seq(Frame)
        BY <1>1, <2>1, StackType
      <4>2. /\ call' = [call EXCEPT ![r] = Loop(r, x.handlers, Front(S), i)]
            /\ (TopKind(r) # "user" => Top(r).nexts = 1)
        BY <3>2 DEF Return, x, i
      <4>. QED  BY <4>1, <4>2
    <3>. QED  BY <1>5, <3>1, <3>2
  <2>4. Becomes(r, y) /\ wire' = wire /\ call[r].pc = "handler"
    BY <1>5 DEF CallNext, Return, InHandler, x, i
  <2> HIDE DEF y
  <2>5. PICK g \in Goroutine :
          /\ Steps(r, y, g) /\ Silent(r, y) /\ g.stopped = call[r].stopped
          /\ Goes(g, call[r], Len(y.handlers), s, i)
    BY <1>3, <2>1, <2>2, <2>3, <2>4
  <2>6. Entered(r, y, g, s, i)
    BY <2>2, <2>3, <2>4, <2>5 DEF Entered, x, i
  <2>. QED  BY <2>1, <2>2, <2>3, <2>5, <2>6
<1>6. CASE Recover(r)
  <2> DEFINE i == Int8(AbortIndex + 1)
             z == AbortedWith(x, "500")
             y == [z EXCEPT !.index = i]
  <2>1. PICK n \in DOMAIN S : Recovered(r, n, z, i)
    BY <1>6 DEF Recover, x
  <2> DEFINE s == SubSeq(S, 1, n - 1)
             l == Loop(r, x.handlers, s, i)
             g == [l EXCEPT !.stopped = TRUE]
  <2>2. i \in Int
    BY Int8Type, AbortIndexType
  <2>3. z = [x EXCEPT !.status = "500", !.written = TRUE, !.index = AbortIndex]
    BY DEF AbortedWith, WriteHeaderNow, SetStatus
  <2>4. z \in Context /\ z.handlers = x.handlers /\ z.written /\ z.status = "500"
    <3>1. "500" \in Status /\ AbortIndex \in Int
      BY AbortIndexType DEF Status
    <3> HIDE DEF z
    <3>2. z \in Context
      BY <1>1, <2>3, <3>1 DEF Context
    <3>3. z.handlers = x.handlers /\ z.written /\ z.status = "500"
      BY <1>1, <2>3 DEF Context
    <3>. QED  BY <3>2, <3>3
  <2> HIDE DEF i, z
  <2>5. y \in Context /\ y.index = i /\ y.handlers = x.handlers /\ y.written /\ y.status = "500"
    BY <2>2, <2>4 DEF Context
  <2>6. s \in Seq(Frame)
    BY <1>1, LenProperties, ElementOfSeq, SubSeqProperties
  <2> HIDE DEF s
  <2>7. /\ Goes(l, call[r], Len(x.handlers), s, i)
        /\ l.path = call[r].path /\ l.ctx = call[r].ctx
        /\ l.pc \in {"handler", "panic", "finish"} /\ l \in Goroutine
    BY <1>1, <2>2, <2>6, LoopGoes
  <2>8. /\ Becomes(r, y) /\ call' = [call EXCEPT ![r] = g]
        /\ call[r].pc = "panic" /\ Innermost(r, n)
        /\ wire' = Sends(SetStatus(x, "500"))
    BY <2>1, <2>4 DEF Recovered, x, s
  <2> HIDE DEF l, y
  <2>9. /\ g \in Goroutine /\ g.stopped
        /\ g.pc = l.pc /\ g.path = l.path /\ g.ctx = l.ctx /\ g.ran = l.ran /\ g.stack = l.stack
    BY <2>7 DEF Goroutine
  <2> HIDE DEF g
  <2>10. Headed(r, y) /\ \A q \in Req \ {r} : wire'[q] = wire[q]
    <3>1. /\ SetStatus(x, "500").request = r /\ SetStatus(x, "500").written = x.written
          /\ SetStatus(x, "500").status = "500"
      BY <1>1 DEF SetStatus, Context, Status
    <3>. QED  BY <1>1, <2>5, <2>8, <3>1 DEF Sends, Headed, x
  <2>11. Steps(r, y, g)
    BY <1>1, <1>2, <2>7, <2>8, <2>9, <2>10 DEF Steps
  <2>12. Goes(g, call[r], Len(y.handlers), s, i)
    BY <2>5, <2>7, <2>9 DEF Goes
  <2>13. Entered(r, y, g, s, i)
    BY <2>5, <2>8, <2>9, <2>10 DEF Entered, x, i, s
  <2>. QED  BY <2>2, <2>5, <2>6, <2>9, <2>11, <2>12, <2>13
<1>. QED  BY <1>4, <1>5, <1>6

-----------------------------------------------------------------------------
(* Every step, seen from one request q: it is undisturbed, gets a context, *)
(* or takes one of the steps above.                                        *)

Rests(q) ==
  /\ call'[q] = call[q] /\ wire'[q] = wire[q]
  /\ call[q].ctx # Nil => Mine(q)' = Mine(q)
  /\ call[q].pc # "new" => routes' = routes

\* Afterwards the goroutine of q is g, its context y.
Now(q, y, g) == call'[q] = g /\ routes' = routes /\ (g.ctx # Nil => Mine(q)' = y)

\* The context of a request that begins.
Begins(q, y, g) ==
  /\ call[q].pc = "new" /\ wire'[q] = wire[q]
  /\ g.pc = "route" /\ g.ran = call[q].ran /\ g.stopped = call[q].stopped
  /\ y.index = -1 /\ y.status = "200" /\ ~y.written

Acted(q, y, g) ==
  /\ Steps(q, y, g) /\ g.ran = call[q].ran
  /\ HandlerActs(q, y, g) \/ ChainOver(q, y, g) \/ Leaves(q, y, g)

Loops(q, y, g) ==
  \E s \in Seq(Frame), i \in Int :
    /\ y \in Context /\ g \in Goroutine /\ Steps(q, y, g) /\ y.index = i
    /\ Goes(g, call[q], Len(y.handlers), s, i)
    /\ Entered(q, y, g, s, i)

Moves(q, y, g) == Now(q, y, g) /\ (Begins(q, y, g) \/ Acted(q, y, g) \/ Loops(q, y, g))

LEMMA StepsNow ==
  ASSUME OwnerInv, NEW r \in Req, NEW y, NEW g, Steps(r, y, g)
  PROVE  Now(r, y, g) /\ \A q \in Req \ {r} : Rests(q)
<1>1. call[r].ctx \in Ctx /\ call[r].ctx # Nil
  BY DEF OwnerInv, TypeOK, Goroutine, Steps
<1>2. /\ call'[r] = g /\ \A q \in Req \ {r} : call'[q] = call[q]
      /\ ctx'[call[r].ctx] = y /\ \A c \in Ctx \ {call[r].ctx} : ctx'[c] = ctx[c]
  BY <1>1 DEF OwnerInv, TypeOK, Steps, Becomes
<1>3. Now(r, y, g)
  BY <1>1, <1>2 DEF Now, Mine, Steps
<1>4. ASSUME NEW q \in Req \ {r} PROVE Rests(q)
  <2>1. call[q].ctx # Nil => call[q].ctx \in Ctx \ {call[r].ctx}
    BY <1>1 DEF OwnerInv, TypeOK, OneOwner, Goroutine
  <2>. QED  BY <1>2, <2>1 DEF Rests, Mine, Steps
<1>. QED  BY <1>3, <1>4

LEMMA BeginStep ==
  ASSUME OwnerInv, NEW r \in Req, NEW p \in Path \cup {NoPath}, Get(r, p)
  PROVE  /\ \E y, g : Now(r, y, g) /\ Begins(r, y, g)
         /\ \A q \in Req \ {r} : Rests(q)
<1>1. PICK c \in Ctx :
        /\ c \notin InUse
        /\ \E y \in {Reset(c, r), [Blank EXCEPT !.request = r]} : ctx' = [ctx EXCEPT ![c] = y]
        /\ call' = [call EXCEPT ![r].pc = "route", ![r].path = p, ![r].ctx = c]
  BY DEF Get, OwnerInv, OneOwner
<1>0. PICK y \in {Reset(c, r), [Blank EXCEPT !.request = r]} : ctx' = [ctx EXCEPT ![c] = y]
  BY <1>1
<1>2. y.index = -1 /\ y.status = "200" /\ ~y.written
  BY DEF Reset, Blank
<1>3. ctx'[c] = y /\ \A d \in Ctx \ {c} : ctx'[d] = ctx[d]
  BY <1>0 DEF OwnerInv, TypeOK
<1> DEFINE g == [call[r] EXCEPT !.pc = "route", !.path = p, !.ctx = c]
<1>4. call'[r] = g /\ \A q \in Req \ {r} : call'[q] = call[q]
  BY <1>1 DEF OwnerInv, TypeOK
<1>5. g.pc = "route" /\ g.ran = call[r].ran /\ g.stopped = call[r].stopped /\ g.ctx = c
  BY DEF OwnerInv, TypeOK, Goroutine
<1> HIDE DEF g
<1>6. UNCHANGED <<wire, routes>> /\ call[r].pc = "new"
  BY DEF Get
<1>7. Now(r, y, g) /\ Begins(r, y, g)
  BY <1>2, <1>3, <1>4, <1>5, <1>6 DEF Now, Begins, Mine
<1>8. ASSUME NEW q \in Req \ {r} PROVE Rests(q)
  <2>1. call[q].ctx # Nil => call[q].ctx \in Ctx \ {c}
    BY <1>1 DEF OwnerInv, TypeOK, Goroutine, InUse
  <2>. QED  BY <1>3, <1>4, <1>6, <2>1 DEF Rests, Mine
<1>. QED  BY <1>7, <1>8

LEMMA EachStep ==
  ASSUME OwnerInv, Chains, [Next]_vars, NEW q \in Req
  PROVE  Rests(q) \/ \E y, g : Moves(q, y, g)
<1>1. ASSUME NEW r \in Req, Serve(r)
      PROVE  (\E y, g : Moves(r, y, g)) /\ \A p \in Req \ {r} : Rests(p)
  <2>1. CASE \E p \in Path \cup {NoPath} : Get(r, p)
    BY <2>1, BeginStep DEF Moves
  <2>2. CASE Route(r) \/ CallNext(r) \/ Return(r) \/ Recover(r)
    <3>1. PICK y \in Context, g \in Goroutine, s \in Seq(Frame), i \in Int :
            /\ Steps(r, y, g) /\ y.index = i
            /\ Goes(g, call[r], Len(y.handlers), s, i)
            /\ Entered(r, y, g, s, i)
      BY <2>2, LoopStep
    <3>2. Loops(r, y, g)
      BY <3>1 DEF Loops
    <3>. QED  BY <3>1, <3>2, StepsNow DEF Moves
  <2>3. CASE \/ NotFound(r) \/ Finish(r) \/ Put(r) \/ Abort(r) \/ AbortWithStatus(r)
             \/ WriteHeader(r) \/ Response(r) \/ Hijack(r) \/ Set(r)
             \/ (\E part \in Part : GetParsed(r, part)) \/ Panic(r) \/ Lose(r)
    <3>1. PICK y, g : /\ Steps(r, y, g) /\ g.ran = call[r].ran
                      /\ HandlerActs(r, y, g) \/ ChainOver(r, y, g) \/ Leaves(r, y, g)
      BY <2>3, ActStep
    <3>2. Acted(r, y, g)
      BY <3>1 DEF Acted
    <3>. QED  BY <3>1, <3>2, StepsNow DEF Moves
  <2>. QED  BY <1>1, <2>1, <2>2, <2>3 DEF Serve
<1>2. ASSUME \/ \E k \in Kind \ {"filter"} : Use(k)
             \/ \E p \in Path, n \in 0 .. AbortIndex :
                  \E handlers \in [1 .. n -> Kind \ {"filter"}] : Handle(p, handlers)
             \/ Run \/ UNCHANGED vars
      PROVE  Rests(q)
  BY <1>2 DEF Use, Handle, Run, vars, Rests, Mine, Chains
<1>3. ASSUME NEW c \in Ctx, Collect(c) PROVE Rests(q)
  <2>1. call[q].ctx # Nil => call[q].ctx \in Ctx /\ call[q].ctx # c
    BY <1>3 DEF Collect, OwnerInv, TypeOK, OneOwner, InUse, Goroutine
  <2>. QED  BY <1>3, <2>1 DEF Collect, OwnerInv, TypeOK, Rests, Mine
<1>. QED  BY <1>1, <1>2, <1>3 DEF Next

-----------------------------------------------------------------------------
(* The order.  The handlers that were started are the first ones of the    *)
(* chain, as many as the index tells, until one has aborted: from then on  *)
(* the index is beyond the chain.  Only the int8 could bring it back; but  *)
(* a wrapped index is negative, and the loop panics.                       *)

OrderOK(g, x) ==
  /\ g.pc \in {"new", "route"} => g.ran = <<>> /\ ~g.stopped
  /\ g.pc = "route" => x.index = -1
  /\ g.pc \in {"handler", "panic", "finish"} =>
       ~NoRoute(g.path) /\ x.handlers = routes[g.path]
  /\ g.pc = "handler" =>
       /\ x.index \in 0 .. MaxInt8
       /\ IF g.stopped THEN x.index >= Len(x.handlers)
          ELSE Len(g.ran) = IF x.index < Len(x.handlers) THEN x.index + 1 ELSE Len(x.handlers)
  /\ g.pc \in {"finish", "put", "done"} /\ ~g.stopped /\ g.path \in Path =>
       Len(g.ran) = Len(routes[g.path])
  /\ g.ran = [n \in 1 .. Len(g.ran) |-> n - 1]

OrderInv == Chains /\ \A r \in Req : OrderOK(call[r], Mine(r))

LEMMA OrderInitially == Init => OrderInv
<1> SUFFICES ASSUME Init, NEW r \in Req PROVE OrderOK(call[r], Mine(r))
  BY ChainsInitially DEF OrderInv
<1>1. /\ call[r].pc = "new" /\ call[r].ran = <<>> /\ ~call[r].stopped
  BY DEF Init
<1>2. Len(<<>>) = 0 /\ <<>> = [n \in 1 .. 0 |-> n - 1]
  OBVIOUS
<1>. QED  BY <1>1, <1>2 DEF OrderOK

\* The next handler is the next of those that were started.
LEMMA OneMore ==
  ASSUME NEW s \in Seq(Nat), s = [n \in 1 .. Len(s) |-> n - 1], NEW t, t = Append(s, Len(s))
  PROVE  t = [n \in 1 .. Len(t) |-> n - 1] /\ Len(t) = Len(s) + 1
<1>1. Len(s) \in Nat
  BY LenProperties
<1>2. /\ t \in Seq(Nat) /\ Len(t) = Len(s) + 1 /\ t[Len(s) + 1] = Len(s)
      /\ \A n \in 1 .. Len(s) : t[n] = s[n]
  BY <1>1, AppendProperties
<1>3. DOMAIN t = 1 .. Len(t) /\ t = [n \in DOMAIN t |-> t[n]]
  BY <1>2, LenProperties
<1>4. \A n \in 1 .. Len(t) : t[n] = n - 1
  BY <1>1, <1>2
<1>. QED  BY <1>2, <1>3, <1>4

LEMMA OrderActed ==
  ASSUME OwnerInv, OrderInv, NEW r \in Req, NEW y, NEW g, Acted(r, y, g)
  PROVE  OrderOK(g, y)
<1>1. /\ OrderOK(call[r], Mine(r)) /\ g.path = call[r].path /\ g.ran = call[r].ran
      /\ call[r].ran \in Seq(Nat)
  BY DEF OrderInv, Acted, Steps, OwnerInv, TypeOK, Goroutine
<1>2. CASE HandlerActs(r, y, g)
  <2>1. /\ call[r].pc = "handler" /\ y.handlers = Mine(r).handlers
        /\ \/ g.pc = "handler" /\ g.stopped = call[r].stopped /\ y.index = Mine(r).index
           \/ g.pc = "handler" /\ g.stopped /\ y.index = AbortIndex
           \/ g.pc = "panic" /\ g.stopped = call[r].stopped
    BY <1>2 DEF HandlerActs, InHandler
  <2>2. /\ ~NoRoute(call[r].path) /\ y.handlers = routes[call[r].path]
        /\ call[r].path \in Path
    BY <1>1, <2>1 DEF OrderOK, NoRoute
  <2>3. AbortIndex >= Len(y.handlers) /\ AbortIndex \in 0 .. MaxInt8
    BY <2>2, AbortIndexType DEF OrderInv, Chains, ShortChains
  <2>. QED  BY <1>1, <2>1, <2>2, <2>3 DEF OrderOK
<1>3. CASE ChainOver(r, y, g)
  <2>1. /\ g.pc = "put" /\ g.stopped = call[r].stopped
        /\ (call[r].pc = "route" /\ NoRoute(call[r].path)) \/ call[r].pc = "finish"
    BY <1>3 DEF ChainOver
  <2>2. CASE call[r].pc = "finish"
    BY <1>1, <2>1, <2>2 DEF OrderOK
  <2>3. CASE call[r].pc = "route" /\ NoRoute(call[r].path)
    <3>1. g.path \in Path => Len(g.ran) = Len(routes[g.path])
      BY <1>1, <2>3 DEF OrderOK, NoRoute
    <3>. QED  BY <1>1, <2>1, <3>1 DEF OrderOK
  <2>. QED  BY <2>1, <2>2, <2>3
<1>4. CASE Leaves(r, y, g)
  <2>1. /\ g.stopped = call[r].stopped
        /\ (call[r].pc = "put" /\ g.pc = "done") \/ g.pc = "lost"
    BY <1>4 DEF Leaves
  <2>. QED  BY <1>1, <2>1 DEF OrderOK
<1>. QED  BY <1>2, <1>3, <1>4 DEF Acted

LEMMA OrderLooped ==
  ASSUME OwnerInv, OrderInv, NEW r \in Req, NEW y, NEW g, Loops(r, y, g)
  PROVE  /\ OrderOK(g, y)
         /\ g.stopped => g.ran = call[r].ran
<1> DEFINE x == Mine(r)
           h == call[r]
<1>1. PICK s \in Seq(Frame), i \in Int :
        /\ y \in Context /\ g \in Goroutine /\ Steps(r, y, g) /\ y.index = i
        /\ Goes(g, h, Len(y.handlers), s, i)
        /\ Entered(r, y, g, s, i)
  BY DEF Loops
<1>2. /\ OrderOK(h, x) /\ g.path = h.path /\ h.ran \in Seq(Nat)
      /\ y.handlers \in Seq(Kind) /\ h.stopped \in BOOLEAN /\ g.stopped \in BOOLEAN
      /\ routes \in [Path -> Seq(Kind)]
  BY <1>1 DEF OrderInv, Steps, OwnerInv, TypeOK, Goroutine, Context
<1> DEFINE len == Len(y.handlers)
<1>3. len \in Nat /\ Len(h.ran) \in Nat /\ h.ran = [n \in 1 .. Len(h.ran) |-> n - 1]
  BY <1>2, LenProperties DEF OrderOK
<1>4. ~NoRoute(h.path) /\ y.handlers = routes[h.path] /\ h.path \in Path
  BY <1>1, <1>2 DEF Entered, OrderOK, NoRoute
<1>5. 1 <= len /\ len <= AbortIndex
  BY <1>2, <1>3, <1>4, EmptySeq DEF NoRoute, OrderInv, Chains, ShortChains
\* Where the loop goes on.
<1>6. /\ g.stopped => i < 0 \/ i >= len
      /\ ~g.stopped => /\ 0 <= i /\ i < len => Len(h.ran) = i
                       /\ i >= len => Len(h.ran) = len
      /\ i <= MaxInt8
  <2>1. CASE h.pc = "route"
    <3>1. i = 0 /\ h.ran = <<>> /\ ~h.stopped /\ g.stopped = h.stopped
      <4>1. x.index = -1
        BY <1>2, <2>1 DEF OrderOK
      <4>2. i = Int8(x.index + 1) /\ g.stopped = h.stopped
        BY <1>1, <2>1 DEF Entered
      <4>. QED  BY <1>2, <2>1, <4>1, <4>2, EngineAssumption DEF OrderOK, Int8
    <3>. QED  BY <1>3, <1>5, <3>1, EmptySeq, EngineAssumption
  <2>2. CASE h.pc = "handler"
    <3>1. /\ x.index \in 0 .. MaxInt8 /\ x.handlers = y.handlers
          /\ IF h.stopped THEN x.index >= len
             ELSE Len(h.ran) = IF x.index < len THEN x.index + 1 ELSE len
      BY <1>1, <1>2, <2>2 DEF OrderOK, Entered
    <3>2. i = Int8(x.index + 1) /\ g.stopped = h.stopped
      BY <1>1, <2>2 DEF Entered
    <3>3. (i = x.index + 1 /\ i <= MaxInt8) \/ i < 0
      BY <3>1, <3>2, EngineAssumption DEF Int8
    <3>. HIDE DEF x, h, len
    <3>. QED  BY <1>3, <1>5, <3>1, <3>2, <3>3, EngineAssumption
  <2>3. CASE h.pc = "panic"
    <3>1. g.stopped /\ i = Int8(AbortIndex + 1)
      BY <1>1, <2>3 DEF Entered
    <3>2. i = AbortIndex + 1 /\ i <= MaxInt8
      BY <3>1, AbortIndexType, EngineAssumption DEF Int8
    <3>. QED  BY <1>5, <3>1, <3>2, AbortIndexType
  <2>. QED  BY <1>1, <2>1, <2>2, <2>3 DEF Entered
<1>7. CASE 0 <= i /\ i < len
  <2>1. g.pc = "handler" /\ g.ran = Append(h.ran, Len(h.ran)) /\ ~g.stopped /\ i = Len(h.ran)
    BY <1>1, <1>2, <1>3, <1>6, <1>7 DEF Goes
  <2>2. g.ran = [n \in 1 .. Len(g.ran) |-> n - 1] /\ Len(g.ran) = Len(h.ran) + 1
    BY <1>2, <1>3, <2>1, OneMore
  <2>. QED
    BY <1>1, <1>2, <1>3, <1>4, <1>6, <1>7, <2>1, <2>2 DEF OrderOK
<1>8. CASE i < 0
  <2>1. g.pc = "panic" /\ g.ran = h.ran
    BY <1>1, <1>3, <1>8 DEF Goes
  <2>. QED  BY <1>2, <1>3, <1>4, <2>1 DEF OrderOK
<1>9. CASE i >= len
  <2>1. g.pc \in {"finish", "handler"} /\ g.ran = h.ran /\ ~g.stopped => Len(h.ran) = len
    BY <1>1, <1>3, <1>6, <1>9 DEF Goes
  <2>2. g.ran = h.ran /\ g.pc \in {"finish", "handler"}
    BY <1>1, <1>3, <1>9 DEF Goes
  <2>3. i \in 0 .. MaxInt8
    BY <1>3, <1>6, <1>9, EngineAssumption
  <2>. QED  BY <1>1, <1>2, <1>3, <1>4, <1>6, <1>9, <2>2, <2>3 DEF OrderOK
<1>. QED  BY <1>3, <1>7, <1>8, <1>9

LEMMA OrderKept == OwnerInv /\ OrderInv /\ [Next]_vars => OrderInv'
<1> SUFFICES ASSUME OwnerInv, OrderInv, [Next]_vars, NEW q \in Req
             PROVE  OrderOK(call[q], Mine(q))'
  BY ChainsKept DEF OrderInv
<1>1. OrderOK(call[q], Mine(q)) /\ Chains
  BY DEF OrderInv
<1>2. CASE Rests(q)
  <2>1. CASE call[q].ctx = Nil
    <3>1. call[q].pc \in {"new", "done", "lost"}
      BY <2>1 DEF OwnerInv, Held
    <3>. QED  BY <1>1, <1>2, <3>1 DEF Rests, OrderOK
  <2>2. CASE call[q].ctx # Nil
    <3>1. call[q].pc # "new"
      BY <2>2 DEF OwnerInv, Held
    <3>. QED  BY <1>1, <1>2, <2>2, <3>1 DEF Rests, OrderOK, NoRoute
  <2>. QED  BY <2>1, <2>2
<1>3. ASSUME NEW y, NEW g, Moves(q, y, g) PROVE OrderOK(call[q], Mine(q))'
  <2>1. OrderOK(g, y)
    <3>1. CASE Begins(q, y, g)
      BY <1>1, <3>1 DEF Begins, OrderOK
    <3>. QED  BY <1>3, <3>1, OrderActed, OrderLooped DEF Moves
  <2>2. OwnerInv'
    BY OwnerInductive
  <2>3. CASE g.ctx = Nil
    <3>1. call'[q] = g /\ routes' = routes /\ g.pc \in {"new", "done", "lost"}
      BY <1>3, <2>2, <2>3 DEF Moves, Now, OwnerInv, Held
    <3>. QED  BY <2>1, <3>1 DEF OrderOK
  <2>4. CASE g.ctx # Nil
    BY <1>3, <2>1, <2>4 DEF Moves, Now, OrderOK, NoRoute
  <2>. QED  BY <2>3, <2>4
<1>. QED  BY <1>1, <1>2, <1>3, EachStep

LEMMA OrderInductive == OwnerInv /\ OrderInv /\ [Next]_vars => OwnerInv' /\ OrderInv'
BY OwnerInductive, OrderKept

\* The handlers of a chain start once each and in order, and all of them
\* unless one aborts or panics, however they nest Next (Context.Next).
THEOREM InOrder == Spec => []RunsInOrder
<1>1. OwnerInv /\ OrderInv => RunsInOrder
  <2> SUFFICES ASSUME OwnerInv, OrderInv, NEW r \in Req
               PROVE  /\ call[r].ran = [n \in 1 .. Len(call[r].ran) |-> n - 1]
                      /\ call[r].pc \in {"finish", "done"} /\ ~call[r].stopped
                           /\ call[r].path \in Path
                         => Len(call[r].ran) = Len(routes[call[r].path])
    BY DEF RunsInOrder
  <2>1. OrderOK(call[r], Mine(r))
    BY DEF OrderInv
  <2>. QED  BY <2>1 DEF OrderOK
<1>. QED
  BY <1>1, OwnerInitially, OrderInitially, OrderInductive, PTL DEF Spec

\* Once a handler has aborted, or Recovery has for it, no other one starts
\* (Context.Abort, AbortIndex): the index stays beyond the longest chain.
THEOREM AbortIsFinal == Spec => NothingAfterAbort
<1>1. OwnerInv /\ OrderInv /\ [Next]_vars =>
        [\A r \in Req : call'[r].stopped => call'[r].ran = call[r].ran]_vars
  <2> SUFFICES ASSUME OwnerInv, OrderInv, [Next]_vars, NEW q \in Req, call'[q].stopped
               PROVE  call'[q].ran = call[q].ran
    OBVIOUS
  <2>1. ASSUME NEW y, NEW g, Moves(q, y, g) PROVE call'[q].ran = call[q].ran
    <3>1. call'[q] = g
      BY <2>1 DEF Moves, Now
    <3>. QED  BY <2>1, <3>1, OrderLooped DEF Moves, Begins, Acted
  <2>. QED  BY <2>1, EachStep DEF Rests, OrderInv
<1>. QED
  BY <1>1, OwnerInitially, OrderInitially, OrderInductive, PTL DEF Spec, NothingAfterAbort

-----------------------------------------------------------------------------
(* The answer.  The writer knows that it has sent a header exactly when    *)
(* the connection was sent something; what is sent after that is raw.      *)

FirstOnly(w) == \A n \in DOMAIN w : w[n] # Raw => n = 1

AnswerOK(g, x, w) ==
  /\ FirstOnly(w)
  /\ g.pc = "new" => w = <<>>
  /\ g.pc = "route" => w = <<>> /\ x.status = "200"
  /\ g.pc \in {"route", "handler", "panic", "finish"} => (x.written <=> w # <<>>)
  /\ g.pc \in {"handler", "panic", "finish"} =>
       /\ x.status # "404" /\ (x.status = "500" => g.stopped)
       /\ x.written => w[1] # "404" /\ (w[1] = "500" => g.stopped)
  /\ g.pc \in {"put", "done"} =>
       /\ w # <<>>
       /\ w[1] = "404" <=> NoRoute(g.path)
       /\ w[1] = "500" => g.stopped

AnswerInv == \A r \in Req : AnswerOK(call[r], Mine(r), wire[r])

LEMMA AnswerInitially == Init => AnswerInv
BY DEF Init, AnswerInv, AnswerOK, FirstOnly

\* What a connection was sent first, when its writer sends.
LEMMA SentFirst ==
  ASSUME OwnerInv, AnswerInv, NEW r \in Req,
         call[r].pc \in {"route", "handler", "panic", "finish"},
         NEW y, y.status \in Status, Silent(r, y) \/ Headed(r, y) \/ Hijacked(r, y)
  PROVE  /\ FirstOnly(wire'[r])
         /\ y.written <=> wire'[r] # <<>>
         /\ \/ wire[r] = <<>> /\ wire'[r] = <<>> /\ Silent(r, y)
            \/ wire[r] = <<>> /\ wire'[r][1] \in {y.status, Raw}
            \/ wire[r] # <<>> /\ wire'[r][1] = wire[r][1]
<1> DEFINE w == wire[r]
<1>1. /\ w \in Seq(Status \cup {Raw}) /\ FirstOnly(w) /\ (Mine(r).written <=> w # <<>>)
      /\ Mine(r).written \in BOOLEAN
  BY InService DEF AnswerInv, AnswerOK, Context
<1>2. ASSUME NEW e \in Status \cup {Raw}
      PROVE  /\ Append(w, e) # <<>>
             /\ w = <<>> => Append(w, e)[1] = e
             /\ w # <<>> => Append(w, e)[1] = w[1]
             /\ w = <<>> \/ e = Raw => FirstOnly(Append(w, e))
  <2>1. /\ Len(w) \in Nat /\ DOMAIN w = 1 .. Len(w) /\ (w = <<>> <=> Len(w) = 0)
    BY <1>1, LenProperties, EmptySeq
  <2>2. /\ Append(w, e) \in Seq(Status \cup {Raw})
        /\ Len(Append(w, e)) = Len(w) + 1 /\ Append(w, e)[Len(w) + 1] = e
        /\ \A n \in 1 .. Len(w) : Append(w, e)[n] = w[n]
    BY <1>1, AppendProperties
  <2>3. DOMAIN Append(w, e) = 1 .. Len(w) + 1
    BY <2>2, LenProperties
  <2>4. Append(w, e) # <<>>
    BY <2>1, <2>2, EmptySeq
  <2>. QED  BY <1>1, <2>1, <2>2, <2>3, <2>4 DEF FirstOnly
<1>3. CASE Silent(r, y)
  BY <1>1, <1>3 DEF Silent
<1>4. CASE Headed(r, y)
  BY <1>1, <1>2, <1>4 DEF Headed
<1>5. CASE Hijacked(r, y)
  BY <1>1, <1>2, <1>5 DEF Hijacked
<1>. QED  BY <1>3, <1>4, <1>5

LEMMA AnswerActed ==
  ASSUME OwnerInv, OrderInv, AnswerInv, NEW r \in Req, NEW y, NEW g, Acted(r, y, g)
  PROVE  AnswerOK(g, y, wire'[r])
<1> DEFINE x == Mine(r)
           h == call[r]
<1>1. AnswerOK(h, x, wire[r]) /\ OrderOK(h, x) /\ g.path = h.path /\ h.ctx # Nil
  BY DEF AnswerInv, OrderInv, Acted, Steps
<1>2. h.pc \notin {"new", "done", "lost"} /\ x.status \in Status /\ x.written \in BOOLEAN
  <2>1. h.pc \notin {"new", "done", "lost"}
    BY <1>1 DEF OwnerInv, Held
  <2>. QED  BY <2>1, InService DEF Context
<1>3. CASE HandlerActs(r, y, g)
  <2>1. /\ h.pc = "handler" /\ g.pc \in {"handler", "panic"} /\ (h.stopped => g.stopped)
        /\ y.status \in UserCodes \cup {x.status}
        /\ Silent(r, y) \/ Headed(r, y) \/ Hijacked(r, y)
    BY <1>3 DEF HandlerActs, InHandler
  <2>2. /\ x.status # "404" /\ (x.status = "500" => h.stopped)
        /\ x.written <=> wire[r] # <<>>
        /\ x.written => wire[r][1] # "404" /\ (wire[r][1] = "500" => h.stopped)
    BY <1>1, <2>1 DEF AnswerOK
  <2>3. y.status \in Status /\ y.status # "404" /\ (y.status = "500" => g.stopped)
    BY <1>2, <2>1, <2>2, EngineAssumption DEF Status
  <2>4. /\ FirstOnly(wire'[r])
        /\ y.written <=> wire'[r] # <<>>
        /\ \/ wire[r] = <<>> /\ wire'[r] = <<>> /\ Silent(r, y)
           \/ wire[r] = <<>> /\ wire'[r][1] \in {y.status, Raw}
           \/ wire[r] # <<>> /\ wire'[r][1] = wire[r][1]
    BY <2>1, <2>3, SentFirst
  <2>5. y.written => wire'[r][1] # "404" /\ (wire'[r][1] = "500" => g.stopped)
    BY <2>1, <2>2, <2>3, <2>4 DEF Raw
  <2>. QED  BY <2>1, <2>3, <2>4, <2>5 DEF AnswerOK
<1>4. CASE ChainOver(r, y, g)
  <2>1. /\ g.pc = "put" /\ g.stopped = h.stopped /\ Headed(r, y) /\ y.written
        /\ \/ h.pc = "route" /\ NoRoute(h.path) /\ y.status = "404"
           \/ h.pc = "finish" /\ y.status = x.status
    BY <1>4 DEF ChainOver, Headed
  <2>2. y.status \in Status
    BY <1>2, <2>1 DEF Status
  <2>3. /\ FirstOnly(wire'[r])
        /\ y.written <=> wire'[r] # <<>>
        /\ \/ wire[r] = <<>> /\ wire'[r] = <<>> /\ Silent(r, y)
           \/ wire[r] = <<>> /\ wire'[r][1] \in {y.status, Raw}
           \/ wire[r] # <<>> /\ wire'[r][1] = wire[r][1]
    BY <2>1, <2>2, SentFirst
  <2>4. wire[r] = <<>> => wire'[r][1] = y.status
    <3>1. wire[r] = <<>> => wire'[r] = Append(<<>>, y.status)
      BY <1>1, <2>1 DEF Headed, AnswerOK
    <3>2. Append(<<>>, y.status)[1] = y.status
      BY <2>2, AppendProperties, EmptySeq
    <3>. QED  BY <3>1, <3>2
  <2>5. CASE h.pc = "route"
    <3>1. wire[r] = <<>> /\ NoRoute(h.path) /\ y.status = "404"
      BY <1>1, <2>1, <2>5 DEF AnswerOK
    <3>. QED  BY <1>1, <2>1, <2>3, <2>4, <3>1 DEF AnswerOK
  <2>6. CASE h.pc = "finish"
    <3>1. /\ ~NoRoute(h.path) /\ y.status # "404" /\ (y.status = "500" => h.stopped)
          /\ wire[r] # <<>> => wire[r][1] # "404" /\ (wire[r][1] = "500" => h.stopped)
      BY <1>1, <2>1, <2>6 DEF AnswerOK, OrderOK
    <3>2. wire'[r][1] # "404" /\ (wire'[r][1] = "500" => h.stopped)
      BY <2>1, <2>3, <2>4, <3>1
    <3>. QED  BY <1>1, <2>1, <2>3, <3>1, <3>2 DEF AnswerOK
  <2>. QED  BY <2>1, <2>5, <2>6
<1>5. CASE Leaves(r, y, g)
  BY <1>1, <1>5 DEF Leaves, AnswerOK
<1>. QED  BY <1>3, <1>4, <1>5 DEF Acted

LEMMA AnswerLooped ==
  ASSUME OwnerInv, OrderInv, AnswerInv, NEW r \in Req, NEW y, NEW g, Loops(r, y, g)
  PROVE  AnswerOK(g, y, wire'[r])
<1> DEFINE x == Mine(r)
           h == call[r]
<1>1. PICK s \in Seq(Frame), i \in Int :
        /\ y \in Context /\ g \in Goroutine /\ Steps(r, y, g)
        /\ Goes(g, h, Len(y.handlers), s, i)
        /\ Entered(r, y, g, s, i)
  BY DEF Loops
<1>2. AnswerOK(h, x, wire[r]) /\ y.status \in Status
  BY <1>1 DEF AnswerInv, Context
<1>3. g.pc \in {"handler", "panic", "finish"}
  BY <1>1 DEF Goes
<1>4. /\ h.pc \in {"route", "handler", "panic"}
      /\ Silent(r, y) \/ Headed(r, y)
      /\ \/ h.pc = "route" /\ y.status = x.status /\ Silent(r, y)
         \/ h.pc = "handler" /\ y.status = x.status /\ g.stopped = h.stopped
         \/ h.pc = "panic" /\ g.stopped /\ y.status = "500"
  BY <1>1 DEF Entered
<1>5. /\ FirstOnly(wire'[r])
      /\ y.written <=> wire'[r] # <<>>
      /\ \/ wire[r] = <<>> /\ wire'[r] = <<>> /\ Silent(r, y)
         \/ wire[r] = <<>> /\ wire'[r][1] \in {y.status, Raw}
         \/ wire[r] # <<>> /\ wire'[r][1] = wire[r][1]
  BY <1>2, <1>4, SentFirst
<1>6. /\ y.status # "404" /\ (y.status = "500" => g.stopped)
      /\ wire'[r] # <<>> => wire'[r][1] # "404" /\ (wire'[r][1] = "500" => g.stopped)
  <2>1. CASE h.pc = "route"
    <3>1. y.status = "200" /\ wire'[r] = <<>>
      BY <1>2, <1>4, <2>1 DEF AnswerOK, Silent
    <3>. QED  BY <3>1
  <2>2. CASE h.pc = "handler"
    BY <1>2, <1>4, <1>5, <2>2 DEF AnswerOK, Raw
  <2>3. CASE h.pc = "panic"
    BY <1>2, <1>4, <1>5, <2>3 DEF AnswerOK, Raw
  <2>. QED  BY <1>4, <2>1, <2>2, <2>3
<1>. QED  BY <1>3, <1>5, <1>6 DEF AnswerOK

LEMMA AnswerKept == OwnerInv /\ OrderInv /\ AnswerInv /\ [Next]_vars => AnswerInv'
<1> SUFFICES ASSUME OwnerInv, OrderInv, AnswerInv, [Next]_vars, NEW q \in Req
             PROVE  AnswerOK(call[q], Mine(q), wire[q])'
  BY DEF AnswerInv
<1>1. AnswerOK(call[q], Mine(q), wire[q]) /\ Chains
  BY DEF AnswerInv, OrderInv
<1>2. CASE Rests(q)
  <2>1. CASE call[q].ctx = Nil
    <3>1. call[q].pc \in {"new", "done", "lost"}
      BY <2>1 DEF OwnerInv, Held
    <3>. QED  BY <1>1, <1>2, <3>1 DEF Rests, AnswerOK, NoRoute
  <2>2. CASE call[q].ctx # Nil
    <3>1. call[q].pc # "new"
      BY <2>2 DEF OwnerInv, Held
    <3>. QED  BY <1>1, <1>2, <2>2, <3>1 DEF Rests, AnswerOK, NoRoute
  <2>. QED  BY <2>1, <2>2
<1>3. ASSUME NEW y, NEW g, Moves(q, y, g) PROVE AnswerOK(call[q], Mine(q), wire[q])'
  <2>1. AnswerOK(g, y, wire'[q])
    <3>1. CASE Begins(q, y, g)
      BY <1>1, <3>1 DEF Begins, AnswerOK
    <3>. QED  BY <1>3, <3>1, AnswerActed, AnswerLooped DEF Moves
  <2>2. OwnerInv'
    BY OwnerInductive
  <2>3. CASE g.ctx = Nil
    <3>1. call'[q] = g /\ routes' = routes /\ g.pc \in {"new", "done", "lost"}
      BY <1>3, <2>2, <2>3 DEF Moves, Now, OwnerInv, Held
    <3>. QED  BY <2>1, <3>1 DEF AnswerOK, NoRoute
  <2>4. CASE g.ctx # Nil
    BY <1>3, <2>1, <2>4 DEF Moves, Now, AnswerOK, NoRoute
  <2>. QED  BY <2>3, <2>4
<1>. QED  BY <1>1, <1>2, <1>3, EachStep

-----------------------------------------------------------------------------
(* Recovery.  With Recovery the first of the middleware a user's handler   *)
(* only runs above it: the filter starts it and waits, and the handlers of *)
(* the loop that Recovery starts are above Recovery.                       *)

Guarded(x) == Len(x.handlers) >= 2 /\ x.handlers[2] = "recovery"

\* The filter, or Recovery, before it calls Next, and after.
Around(f, x, at) ==
  \/ f.nexts = 0 /\ x.index = at
  \/ f.nexts = 1 /\ x.index >= Len(x.handlers)

RecoverOK(g, x) ==
  /\ g.pc = "panic" => Len(x.handlers) >= 2
  /\ g.pc \in {"handler", "panic"} /\ Guarded(x) =>
       /\ g.stack[1].at = 0
       /\ Len(g.stack) >= 2 => g.stack[2].at = 1
       /\ g.pc = "handler" /\ Len(g.stack) <= 2 =>
            Around(g.stack[Len(g.stack)], x, Len(g.stack) - 1)
       /\ g.pc = "panic" => Len(g.stack) >= 2
  /\ g.pc = "lost" => routes[g.path][2] # "recovery"

RecoverInv == \A r \in Req : RecoverOK(call[r], Mine(r))

LEMMA RecoverInitially == Init => RecoverInv
BY DEF Init, RecoverInv, RecoverOK

\* The stack of a handler, or of a panic.
LEMMA InStack ==
  ASSUME OwnerInv, ChainInv, OrderInv, NEW r \in Req, call[r].pc \in {"handler", "panic"}
  PROVE  LET s == call[r].stack
             x == Mine(r)
             len == Len(x.handlers)
         IN
         /\ s \in Seq(Frame) /\ Len(s) \in Nat \ {0} /\ len \in Nat \ {0} /\ len <= AbortIndex
         /\ Len(s) - 1 <= x.index /\ x.index + 1 <= MaxInt8 /\ x.index \in Int
         /\ \A n \in 1 .. Len(s) :
              s[n] \in Frame /\ s[n].at \in Nat /\ n - 1 <= s[n].at /\ s[n].at < len
         /\ \A n \in 1 .. Len(s) - 1 : s[n].nexts = 1
         /\ s[Len(s)].nexts \in {0, 1}
         /\ Top(r) = s[Len(s)]
         /\ x.handlers = routes[call[r].path] /\ x.handlers[1] = "filter"
<1> DEFINE s == call[r].stack
           x == Mine(r)
           len == Len(x.handlers)
<1>1. /\ s \in Seq(Frame) /\ len \in Nat /\ Len(s) \in Nat /\ x.index \in Int
  BY InService, LenProperties
<1>2. InChain(s, len, x.index) /\ OrderOK(call[r], x)
  BY DEF ChainInv, ChainOK, OrderInv
<1>3. Len(s) >= 1 /\ len <= AbortIndex
  BY <1>2 DEF InChain, Nested
<1>4. \A n \in 1 .. Len(s) :
        s[n] \in Frame /\ s[n].at \in Nat /\ n - 1 <= s[n].at /\ s[n].at < len
  <2>1. \A n \in 1 .. Len(s) : s[n] \in Frame
    BY <1>1, ElementOfSeq
  <2>. QED  BY <1>2, <2>1 DEF InChain, Nested, Frame
<1>5. /\ \A n \in 1 .. Len(s) - 1 : s[n].nexts = 1
      /\ s[Len(s)].nexts \in {0, 1}
      /\ Len(s) - 1 <= x.index /\ x.index + Len(s) + 1 - s[Len(s)].nexts <= MaxInt8
  BY <1>2 DEF InChain, Nested
<1>6. x.index + 1 <= MaxInt8
  BY <1>1, <1>3, <1>5, EngineAssumption
<1>7. len >= 1
  BY <1>1, <1>3, <1>4
<1>8. Top(r) = s[Len(s)]
  BY <1>1, <1>3, StackType, EmptySeq DEF Top
<1>9. x.handlers = routes[call[r].path] /\ x.handlers[1] = "filter"
  BY <1>2 DEF OrderOK, NoRoute, OrderInv, Chains
<1>. QED  BY <1>1, <1>3, <1>4, <1>5, <1>6, <1>7, <1>8, <1>9

LEMMA RecoverActed ==
  ASSUME OwnerInv, ChainInv, OrderInv, RecoverInv, NEW r \in Req, NEW y, NEW g, Acted(r, y, g)
  PROVE  RecoverOK(g, y)
<1> DEFINE x == Mine(r)
           h == call[r]
           s == h.stack
<1>1. RecoverOK(h, x) /\ g.path = h.path
  BY DEF RecoverInv, Acted, Steps
<1>2. CASE HandlerActs(r, y, g)
  <2>1. /\ h.pc = "handler" /\ g.pc \in {"handler", "panic"} /\ g.stack = s
        /\ y.handlers = x.handlers /\ x.handlers[Top(r).at + 1] = "user"
    BY <1>2 DEF HandlerActs, InHandler, TopKind
  <2>2. /\ Len(s) \in Nat \ {0} /\ Len(x.handlers) \in Nat \ {0}
        /\ s[Len(s)].at \in Nat /\ s[Len(s)].at < Len(x.handlers)
        /\ Top(r) = s[Len(s)] /\ x.handlers[1] = "filter"
    <3>1. Len(s) \in 1 .. Len(s)
      BY <2>1, InStack
    <3>. QED  BY <2>1, <3>1, InStack
  <2>3. s[Len(s)].at # 0
    BY <2>1, <2>2
  <2>4. Len(x.handlers) >= 2
    BY <2>2, <2>3
  <2>5. ASSUME Guarded(y)
        PROVE  s[1].at = 0 /\ (Len(s) >= 2 => s[2].at = 1) /\ Len(s) >= 3
    <3>1. s[1].at = 0 /\ (Len(s) >= 2 => s[2].at = 1) /\ x.handlers[2] = "recovery"
      BY <1>1, <2>1, <2>5 DEF RecoverOK, Guarded
    <3>2. Len(s) # 1 /\ Len(s) # 2
      BY <2>1, <2>2, <2>3, <3>1
    <3>3. \A n \in Nat \ {0} : n # 1 /\ n # 2 => n >= 3
      OBVIOUS
    <3>4. Len(s) >= 3
      BY <2>2, <3>2, <3>3
    <3>. QED  BY <3>1, <3>4
  <2>. QED  BY <2>1, <2>2, <2>4, <2>5 DEF RecoverOK
<1>3. CASE ChainOver(r, y, g)
  BY <1>3 DEF ChainOver, RecoverOK
<1>4. CASE Leaves(r, y, g)
  <2>1. CASE g.pc = "done"
    BY <2>1 DEF RecoverOK
  <2>2. CASE h.pc = "panic" /\ Recovering(r) = {} /\ g.pc = "lost"
    <3>1. /\ s \in Seq(Frame) /\ Len(s) \in Nat /\ DOMAIN s = 1 .. Len(s)
          /\ x.handlers = routes[h.path]
      BY <2>2, InStack, LenProperties
    <3>2. Len(x.handlers) >= 2
      BY <1>1, <2>2 DEF RecoverOK
    <3>3. ASSUME x.handlers[2] = "recovery" PROVE FALSE
      <4>1. Len(s) >= 2 /\ s[2].at = 1
        BY <1>1, <2>2, <3>2, <3>3 DEF RecoverOK, Guarded
      <4>2. 2 \in DOMAIN s /\ x.handlers[s[2].at + 1] = "recovery"
        BY <3>1, <3>3, <4>1
      <4>. QED  BY <2>2, <4>2 DEF Recovering
    <3>. QED  BY <1>1, <2>2, <3>1, <3>3 DEF RecoverOK
  <2>. QED  BY <1>4, <2>1, <2>2 DEF Leaves
<1>. QED  BY <1>2, <1>3, <1>4 DEF Acted

\* After a loop that is over: the handlers below it have called Next.
LEMMA LoopOver ==
  ASSUME NEW x, NEW g, NEW s, Len(x.handlers) <= x.index,
         g.pc \in {"handler", "finish"}, g.stack = s,
         g.pc = "handler" => /\ s[Len(s)].nexts = 1
                             /\ Guarded(x) => s[1].at = 0 /\ (Len(s) >= 2 => s[2].at = 1)
  PROVE  RecoverOK(g, x)
BY DEF RecoverOK, Around

\* Handler i starts, on s.
LEMMA LoopStarts ==
  ASSUME NEW x, NEW g, NEW s \in Seq(Frame), NEW i \in Nat, x.index = i,
         g.pc = "handler", g.stack = Append(s, [at |-> i, nexts |-> 0]),
         Guarded(x) => /\ Len(s) >= 1 => s[1].at = 0
                       /\ Len(s) >= 2 => s[2].at = 1
                       /\ Len(s) <= 1 => i = Len(s)
  PROVE  RecoverOK(g, x)
<1> DEFINE f == [at |-> i, nexts |-> 0]
           t == g.stack
<1>1. f \in Frame /\ f.at = i /\ f.nexts = 0
  BY DEF Frame
<1>2. /\ Len(s) \in Nat /\ Len(t) = Len(s) + 1 /\ t[Len(s) + 1] = f
      /\ \A n \in 1 .. Len(s) : t[n] = s[n]
  BY <1>1, AppendProperties, LenProperties
<1>3. ASSUME Guarded(x)
      PROVE  /\ t[1].at = 0 /\ (Len(t) >= 2 => t[2].at = 1)
             /\ Len(t) <= 2 => t[Len(t)].nexts = 0 /\ i = Len(t) - 1
  <2>1. CASE Len(s) = 0
    BY <1>1, <1>2, <1>3, <2>1
  <2>2. CASE Len(s) = 1
    BY <1>1, <1>2, <1>3, <2>2
  <2>3. CASE Len(s) >= 2
    BY <1>1, <1>2, <1>3, <2>3
  <2> HIDE DEF t
  <2>4. \A n \in Nat : n = 0 \/ n = 1 \/ n >= 2
    OBVIOUS
  <2>5. Len(s) = 0 \/ Len(s) = 1 \/ Len(s) >= 2
    BY <1>2, <2>4
  <2>. QED  BY <2>1, <2>2, <2>3, <2>5
<1>. QED  BY <1>3 DEF RecoverOK, Around


\* The stack when its last handler has called Next.
LEMMA CalledType ==
  ASSUME NEW s \in Seq(Frame), s # <<>>
  PROVE  /\ Len(Called(s)) = Len(s) /\ Len(s) \in Nat \ {0}
         /\ \A n \in 1 .. Len(s) - 1 : Called(s)[n] = s[n]
         /\ Called(s)[Len(s)].at = s[Len(s)].at
         /\ Called(s)[Len(s)].nexts = s[Len(s)].nexts + 1
<1>1. /\ Last(s) \in Frame /\ Front(s) \in Seq(Frame)
      /\ Len(s) \in Nat \ {0} /\ Last(s) = s[Len(s)]
      /\ Len(Front(s)) = Len(s) - 1
      /\ \A n \in 1 .. Len(s) - 1 : Front(s)[n] = s[n]
  BY StackType
<1>2. PICK t : t = [Last(s) EXCEPT !.nexts = @ + 1]
  OBVIOUS
<1>3. t \in Frame /\ t.at = s[Len(s)].at /\ t.nexts = s[Len(s)].nexts + 1
  <2>1. ASSUME NEW f \in Frame
        PROVE  LET u == [f EXCEPT !.nexts = @ + 1] IN
               u \in Frame /\ u.at = f.at /\ u.nexts = f.nexts + 1
    BY DEF Frame
  <2>. QED  BY <1>1, <1>2, <2>1
<1>4. Called(s) = Append(Front(s), t)
  BY <1>2 DEF Called
<1>. QED  BY SMTT(40), <1>1, <1>3, <1>4, AppendProperties

\* The handlers below the last have all called Next.
LEMMA BelowTop ==
  ASSUME NEW S \in Seq(Frame), NEW s \in Seq(Frame), Len(s) <= Len(S) - 1,
         \A n \in 1 .. Len(s) : s[n] = S[n],
         \A n \in 1 .. Len(S) - 1 : S[n].nexts = 1
  PROVE  /\ s # <<>> => s[Len(s)].nexts = 1
         /\ Len(s) >= 1 => s[1] = S[1]
         /\ Len(s) >= 2 => s[2] = S[2]
<1>1. Len(s) \in Nat /\ Len(S) \in Nat /\ (s # <<>> => Len(s) >= 1)
  BY LenProperties, EmptySeq
<1>. QED  BY <1>1

LEMMA RecoverLooped ==
  ASSUME OwnerInv, ChainInv, OrderInv, RecoverInv, NEW r \in Req, NEW y, NEW g, Loops(r, y, g)
  PROVE  RecoverOK(g, y)
<1>1. PICK s \in Seq(Frame), i \in Int :
        /\ y \in Context /\ g \in Goroutine /\ Steps(r, y, g) /\ y.index = i
        /\ Goes(g, call[r], Len(y.handlers), s, i)
        /\ Entered(r, y, g, s, i)
  BY DEF Loops
<1>2. PICK x, S, len, D : /\ x = Mine(r) /\ S = call[r].stack
                          /\ len = Len(y.handlers) /\ D = Len(call[r].stack)
  OBVIOUS
<1>3. /\ RecoverOK(call[r], x) /\ OrderOK(call[r], x)
      /\ y.handlers \in Seq(Kind) /\ Len(s) \in Nat /\ (s = <<>> <=> Len(s) = 0)
      /\ len \in Nat /\ D = Len(S)
  BY <1>1, <1>2, LenProperties, EmptySeq DEF RecoverInv, OrderInv, Context
<1>4. ASSUME call[r].pc \in {"handler", "panic"}
      PROVE  /\ y.handlers = x.handlers /\ (Guarded(y) <=> Guarded(x))
             /\ S \in Seq(Frame) /\ D \in Nat \ {0} /\ len \in Nat \ {0} /\ len <= AbortIndex
             /\ D - 1 <= x.index /\ x.index + 1 <= MaxInt8 /\ x.index \in Int
             /\ \A n \in 1 .. D : S[n] \in Frame
             /\ \A n \in 1 .. D - 1 : S[n].nexts = 1
             /\ S[D].nexts \in {0, 1} /\ Top(r) = S[D] /\ x.handlers[1] = "filter"
             /\ Guarded(x) => S[1].at = 0 /\ (D >= 2 => S[2].at = 1)
             /\ S # <<>>
  <2>1. y.handlers = x.handlers
    BY <1>1, <1>2, <1>4 DEF Entered
  <2>2. Guarded(x) => S[1].at = 0 /\ (D >= 2 => S[2].at = 1)
    BY <1>2, <1>3, <1>4 DEF RecoverOK
  <2>3. /\ S \in Seq(Frame) /\ D \in Nat \ {0} /\ len \in Nat \ {0} /\ len <= AbortIndex
        /\ D - 1 <= x.index /\ x.index + 1 <= MaxInt8 /\ x.index \in Int
        /\ \A n \in 1 .. D : S[n] \in Frame
        /\ \A n \in 1 .. D - 1 : S[n].nexts = 1
        /\ S[D].nexts \in {0, 1} /\ Top(r) = S[D] /\ x.handlers[1] = "filter"
    BY <1>2, <1>4, <2>1, InStack
  <2>4. S # <<>>
    BY <1>3, <2>3, EmptySeq
  <2>. QED  BY <2>1, <2>2, <2>3, <2>4 DEF Guarded
\* The next index, from a handler.
<1>5. ASSUME call[r].pc = "handler" PROVE i = x.index + 1 /\ i \in Nat
  <2>1. i = Int8(x.index + 1)
    BY <1>1, <1>2, <1>5 DEF Entered
  <2>2. x.index \in Int /\ x.index >= 0 /\ x.index + 1 <= MaxInt8
    <3>1. D \in Nat \ {0} /\ D - 1 <= x.index /\ x.index + 1 <= MaxInt8 /\ x.index \in Int
      BY <1>4, <1>5
    <3>. QED  BY <3>1
  <2>. QED  BY <2>1, <2>2, EngineAssumption DEF Int8
\* The handlers on s wait, and Recovery is where it should be.
<1>6. /\ i \in Nat
      /\ s # <<>> => s[Len(s)].nexts = 1
      /\ Guarded(y) => /\ Len(s) >= 1 => s[1].at = 0
                       /\ Len(s) >= 2 => s[2].at = 1
                       /\ i < len /\ Len(s) <= 1 => i = Len(s)
  <2>1. CASE call[r].pc = "route"
    <3>1. s = <<>> /\ i = Int8(x.index + 1) /\ x.index = -1
      BY <1>1, <1>2, <1>3, <2>1 DEF Entered, OrderOK
    <3>2. i = 0
      BY <3>1, EngineAssumption DEF Int8
    <3>. QED  BY <1>3, <3>1, <3>2
  <2>2. CASE /\ call[r].pc = "handler" /\ s = Called(S)
             /\ TopKind(r) = "user" => Top(r).nexts < NextLimit
             /\ TopKind(r) # "user" => Top(r).nexts = 0
    <3>1. S[D].nexts = 0
      BY <1>4, <2>2, EngineAssumption DEF ChainInv, OneNext
    <3>2. /\ Len(s) = D /\ s[D].nexts = 1 /\ s[D].at = S[D].at
          /\ \A n \in 1 .. D - 1 : s[n] = S[n]
      <4>1. /\ Len(Called(S)) = Len(S)
            /\ \A n \in 1 .. Len(S) - 1 : Called(S)[n] = S[n]
            /\ Called(S)[Len(S)].at = S[Len(S)].at
            /\ Called(S)[Len(S)].nexts = S[Len(S)].nexts + 1
        BY <1>4, <2>2, CalledType
      <4>. QED  BY <1>3, <2>2, <3>1, <4>1
    <3>3. ASSUME Guarded(y), D = 1 PROVE i = 1
      <4>1. Around(S[1], x, 0)
        BY <1>2, <1>3, <1>4, <2>2, <3>3 DEF RecoverOK
      <4>. QED  BY <1>5, <2>2, <3>1, <3>3, <4>1 DEF Around
    <3>4. D \in Nat \ {0} /\ (Guarded(y) => S[1].at = 0 /\ (D >= 2 => S[2].at = 1))
      BY <1>4, <2>2
    <3>5. Guarded(y) => s[1].at = 0 /\ (D >= 2 => s[2].at = 1)
      <4>1. 1 \in 1 .. D - 1 \/ D = 1
        BY <3>4
      <4>2. D >= 2 => 2 \in 1 .. D - 1 \/ D = 2
        BY <3>4
      <4>. QED  BY <3>2, <3>4, <4>1, <4>2
    <3>. QED  BY <1>5, <2>2, <3>2, <3>3, <3>4, <3>5
  <2>3. CASE call[r].pc = "handler" /\ s = Front(S) /\ (TopKind(r) # "user" => Top(r).nexts = 1)
    <3>1. Len(s) = D - 1 /\ \A n \in 1 .. D - 1 : s[n] = S[n]
      BY <1>3, <1>4, <2>3, StackType
    <3>2. D \in Nat \ {0} /\ y.handlers = x.handlers
      BY <1>4, <2>3
    <3>3. ASSUME Guarded(y), i < len PROVE D >= 3
      <4>1. SUFFICES ASSUME D <= 2 PROVE FALSE
        BY <3>2
      <4>2. Around(S[D], x, D - 1)
        BY <1>2, <1>3, <1>4, <2>3, <3>3, <4>1 DEF RecoverOK
      <4>3. D = 1 \/ D = 2
        BY <3>2, <4>1
      <4>4. S[D].at = D - 1
        <5>1. S[1].at = 0 /\ (D >= 2 => S[2].at = 1)
          BY <1>4, <2>3, <3>3
        <5>. QED  BY <4>3, <5>1
      <4>5. x.handlers[1] = "filter" /\ x.handlers[2] = "recovery"
        BY <1>4, <2>3, <3>3 DEF Guarded
      <4>6. TopKind(r) = x.handlers[D]
        <5>1. TopKind(r) = x.handlers[S[D].at + 1]
          BY <1>2, <1>4, <2>3 DEF TopKind
        <5>. QED  BY <4>3, <4>4, <5>1
      <4>7. S[D].nexts = 1
        BY <1>4, <2>3, <4>3, <4>5, <4>6
      <4>8. x.index >= len /\ i = x.index + 1 /\ x.index \in Int
        BY <1>2, <1>4, <1>5, <2>3, <3>2, <4>2, <4>7 DEF Around
      <4>. QED  BY <1>3, <3>3, <4>8
    <3>4. /\ s # <<>> => s[Len(s)].nexts = 1
          /\ Len(s) >= 1 => s[1] = S[1]
          /\ Len(s) >= 2 => s[2] = S[2]
      <4>1. /\ Len(s) <= Len(S) - 1 /\ S \in Seq(Frame)
            /\ \A n \in 1 .. Len(s) : s[n] = S[n]
            /\ \A n \in 1 .. Len(S) - 1 : S[n].nexts = 1
        BY <1>3, <1>4, <2>3, <3>1
      <4>. QED  BY <4>1, BelowTop
    <3>5. Guarded(y) => S[1].at = 0 /\ (D >= 2 => S[2].at = 1)
      BY <1>4, <2>3
    <3>. QED  BY <1>5, <2>3, <3>1, <3>2, <3>3, <3>4, <3>5
  <2>4. CASE call[r].pc = "panic"
    <3>1. i = AbortIndex + 1 /\ i \in Nat
      BY <1>1, <2>4, AbortIndexType, EngineAssumption DEF Entered, Int8
    <3>2. PICK n \in DOMAIN S : s = SubSeq(S, 1, n - 1)
      BY <1>1, <1>2, <2>4 DEF Entered
    <3>3. n \in 1 .. D /\ D \in Nat
      BY <1>3, <1>4, <2>4, LenProperties
    <3>4. Len(s) = n - 1 /\ \A m \in 1 .. n - 1 : s[m] = S[m]
      <4>1. \A m \in 1 .. n - 1 : S[m] \in Frame
        BY <1>4, <2>4, <3>3
      <4>. QED  BY <1>4, <2>4, <3>2, <3>3, <4>1, SubSeqProperties
    <3>5. i >= len
      BY <1>4, <2>4, <3>1, AbortIndexType
    <3>6. /\ s # <<>> => s[Len(s)].nexts = 1
          /\ Len(s) >= 1 => s[1] = S[1]
          /\ Len(s) >= 2 => s[2] = S[2]
      <4>1. /\ Len(s) <= Len(S) - 1 /\ S \in Seq(Frame)
            /\ \A m \in 1 .. Len(s) : s[m] = S[m]
            /\ \A m \in 1 .. Len(S) - 1 : S[m].nexts = 1
        BY <1>3, <1>4, <2>4, <3>3, <3>4
      <4>. QED  BY <4>1, BelowTop
    <3>7. Guarded(y) => S[1].at = 0 /\ (D >= 2 => S[2].at = 1)
      BY <1>4, <2>4
    <3>8. Len(s) >= 2 => D >= 2
      BY <3>3, <3>4
    <3>. QED  BY <1>3, <3>1, <3>5, <3>6, <3>7, <3>8
  <2>5. \/ call[r].pc = "route" \/ call[r].pc = "panic"
        \/ /\ call[r].pc = "handler" /\ s = Called(S)
           /\ TopKind(r) = "user" => Top(r).nexts < NextLimit
           /\ TopKind(r) # "user" => Top(r).nexts = 0
        \/ call[r].pc = "handler" /\ s = Front(S) /\ (TopKind(r) # "user" => Top(r).nexts = 1)
    BY <1>1, <1>2 DEF Entered
  <2>. QED  BY <2>1, <2>2, <2>3, <2>4, <2>5
<1>7. CASE i < len
  <2>1. g.pc = "handler" /\ g.stack = Append(s, [at |-> i, nexts |-> 0]) /\ y.index = i
    BY <1>1, <1>2, <1>3, <1>6, <1>7 DEF Goes
  <2>2. Guarded(y) => /\ Len(s) >= 1 => s[1].at = 0
                      /\ Len(s) >= 2 => s[2].at = 1
                      /\ Len(s) <= 1 => i = Len(s)
    BY <1>6, <1>7
  <2>. QED  BY <1>6, <2>1, <2>2, LoopStarts
<1>8. CASE i >= len
  <2>1. /\ g.pc = (IF s = <<>> THEN "finish" ELSE "handler") /\ g.stack = s
        /\ Len(y.handlers) <= y.index
    BY <1>1, <1>2, <1>3, <1>8 DEF Goes
  <2>2. g.pc = "handler" => s # <<>> /\ Len(s) >= 1
    BY <1>3, <2>1
  <2>3. g.pc = "handler" => /\ s[Len(s)].nexts = 1
                            /\ Guarded(y) => s[1].at = 0 /\ (Len(s) >= 2 => s[2].at = 1)
    BY <1>6, <2>2
  <2>4. g.pc \in {"handler", "finish"}
    BY <2>1
  <2>. QED  BY <2>1, <2>3, <2>4, LoopOver
<1>. QED  BY <1>3, <1>7, <1>8

LEMMA RecoverKept ==
  OwnerInv /\ ChainInv /\ OrderInv /\ RecoverInv /\ [Next]_vars => RecoverInv'
<1> SUFFICES ASSUME OwnerInv, ChainInv, OrderInv, RecoverInv, [Next]_vars, NEW q \in Req
             PROVE  RecoverOK(call[q], Mine(q))'
  BY DEF RecoverInv
<1>1. RecoverOK(call[q], Mine(q)) /\ Chains
  BY DEF RecoverInv, OrderInv
<1>2. CASE Rests(q)
  <2>1. CASE call[q].ctx = Nil
    <3>1. call[q].pc \in {"new", "done", "lost"}
      BY <2>1 DEF OwnerInv, Held
    <3>. QED  BY <1>1, <1>2, <3>1 DEF Rests, RecoverOK
  <2>2. CASE call[q].ctx # Nil
    <3>1. call[q].pc # "new"
      BY <2>2 DEF OwnerInv, Held
    <3>. QED  BY <1>1, <1>2, <2>2, <3>1 DEF Rests, RecoverOK, Guarded, Around
  <2>. QED  BY <2>1, <2>2
<1>3. ASSUME NEW y, NEW g, Moves(q, y, g) PROVE RecoverOK(call[q], Mine(q))'
  <2>1. RecoverOK(g, y)
    <3>1. CASE Begins(q, y, g)
      BY <3>1 DEF Begins, RecoverOK
    <3>. QED  BY <1>3, <3>1, RecoverActed, RecoverLooped DEF Moves
  <2>2. OwnerInv'
    BY OwnerInductive
  <2>3. CASE g.ctx = Nil
    <3>1. call'[q] = g /\ routes' = routes /\ g.pc \in {"new", "done", "lost"}
      BY <1>3, <2>2, <2>3 DEF Moves, Now, OwnerInv, Held
    <3>. QED  BY <2>1, <3>1 DEF RecoverOK
  <2>4. CASE g.ctx # Nil
    BY <1>3, <2>1, <2>4 DEF Moves, Now, RecoverOK, Guarded, Around
  <2>. QED  BY <2>3, <2>4
<1>. QED  BY <1>1, <1>2, <1>3, EachStep

\* A request is answered once: one status line at most and first, 404 exactly
\* without a route, 500 only after a Recovery; and with Recovery the first of
\* the middleware no panic loses it (ServeHTTP, responseWriter, Recovery).
THEOREM OneAnswer == OneNext => (Spec => []AnsweredOnce)
<1>1. OwnerInv /\ AnswerInv /\ RecoverInv => AnsweredOnce
  <2> SUFFICES ASSUME OwnerInv, AnswerInv, RecoverInv, NEW r \in Req
               PROVE  /\ \A n \in DOMAIN wire[r] : wire[r][n] # Raw => n = 1
                      /\ call[r].pc = "done" =>
                           /\ wire[r] # <<>>
                           /\ wire[r][1] = "404" <=>
                                (call[r].path \in Path => routes[call[r].path] = <<>>)
                           /\ wire[r][1] = "500" => call[r].stopped
                      /\ call[r].pc = "lost" => routes[call[r].path][2] # "recovery"
    BY DEF AnsweredOnce
  <2>1. AnswerOK(call[r], Mine(r), wire[r]) /\ RecoverOK(call[r], Mine(r))
    BY DEF AnswerInv, RecoverInv
  <2>. QED  BY <2>1 DEF AnswerOK, FirstOnly, NoRoute, RecoverOK
<1>2. OneNext /\ Init => OwnerInv /\ ChainInv /\ OrderInv /\ AnswerInv /\ RecoverInv
  BY OwnerInitially, ChainInitially, OrderInitially, AnswerInitially, RecoverInitially
<1>3. OwnerInv /\ ChainInv /\ OrderInv /\ AnswerInv /\ RecoverInv /\ [Next]_vars =>
        OwnerInv' /\ ChainInv' /\ OrderInv' /\ AnswerInv' /\ RecoverInv'
  BY OwnerInductive, ChainInductive, OrderInductive, AnswerKept, RecoverKept
<1>. QED
  BY <1>1, <1>2, <1>3, PTL DEF Spec
=============================================================================
