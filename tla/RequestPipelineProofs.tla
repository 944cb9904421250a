----------------------- MODULE RequestPipelineProofs -----------------------
(***************************************************************************)
(* Proofs about RequestPipeline, for any number of connections, contexts,  *)
(* routes and middlewares, whichever of them are NewPanic.                 *)
(*                                                                         *)
(* The heart of the invariant is that middlewareIndex of the context of a  *)
(* request is the number of calls of Next in progress, so that it is zero  *)
(* when the context goes back to the pool, and that a chain that is past   *)
(* the router sees the lengths of its own route.  In a context that a      *)
(* recovered panic has spoiled the index is too high, but never too low.   *)
(***************************************************************************)
EXTENDS RequestPipeline, SequenceTheorems, TLAPS

UseOK ==
  \A w \in Workers :
    /\ Active(w) => req[w] # None
    /\ phase[w] = "idle" => req[w] = None
    /\ req[w] \notin pool
    /\ \A v \in Workers : req[v] = req[w] /\ req[w] # None => v = w

StackOK ==
  \A w \in Workers :
    /\ phase[w] \in {"idle", "failed", "finished"} => stack[w] = << >>
    /\ phase[w] = "running" => Len(stack[w]) > 0

\* The context c has been in n calls of Next at least.
Holds(c, n) ==
  /\ c.middlewareIndex >= n
  /\ c.srvMiddlewares = NumSrv
  /\ c.srvMiddlewaresLen = NumSrv

\* The context c agrees with a chain of n calls of Next on the route r, whose
\* middlewares the not-found handler of ServeFiles may have replaced.
Fits(c, n, p, r) ==
  /\ c.middlewareIndex = n
  /\ n > NumSrv + 1 \/ (n = NumSrv + 1 /\ p = "calling") =>
       /\ r # None
       /\ c.handler # "nil"
       /\ c.middlewares = c.middlewaresLen
       /\ \/ c.middlewaresLen = MwOf[r]
          \/ c.middlewaresLen = 0 /\ n > NumSrv + 1

ContextOf(w) ==
  /\ Holds(ctx[req[w]], Len(stack[w]))
  /\ req[w] \notin spoiled => Fits(ctx[req[w]], Len(stack[w]), phase[w], route[w])

ContextOK == \A w \in Workers : Active(w) => ContextOf(w)

IInv == TypeOK /\ UseOK /\ StackOK /\ ContextOK /\ InOrder /\ PooledClean

\* ChainInOrder of a stack and a route.
Ordered(s, r) ==
  /\ \A d \in 1..Len(s) : s[d] = Expected(r, d)
  /\ Len(s) <= NumSrv + 1 + (IF r = None THEN 0 ELSE MwOf[r] + 1)

-----------------------------------------------------------------------------
\* What a call of Next does to the stack of its worker.
LEMMA Pushed ==
  ASSUME NEW s \in Seq(Frames), NEW f \in Frames
  PROVE  /\ Append(s, f) \in Seq(Frames)
         /\ Len(s) \in Nat
         /\ Len(Append(s, f)) = Len(s) + 1
         /\ \A d \in 1..Len(s) : Append(s, f)[d] = s[d]
         /\ Append(s, f)[Len(s) + 1] = f
OBVIOUS

\* A prefix of a stack: what the return of Next or a panic leaves of it.
LEMMA Prefix ==
  ASSUME NEW s \in Seq(Frames), NEW n \in Nat, n <= Len(s)
  PROVE  /\ SubSeq(s, 1, n) \in Seq(Frames)
         /\ Len(SubSeq(s, 1, n)) = n
         /\ \A d \in 1..n : SubSeq(s, 1, n)[d] = s[d]
         /\ n = 0 => SubSeq(s, 1, n) = << >>
<1>1. SubSeq(s, 1, n) \in Seq(Frames)
    OBVIOUS
<1>2. Len(SubSeq(s, 1, n)) = n
    OBVIOUS
<1>3. \A d \in 1..n : SubSeq(s, 1, n)[d] = s[d]
    OBVIOUS
<1>4. n = 0 => SubSeq(s, 1, n) = << >>
    BY SubSeqEmpty
<1> QED BY <1>1, <1>2, <1>3, <1>4

\* How far the chain of a route goes.
LEMMA ChainBound ==
  ASSUME NEW r \in Routes \cup {None}
  PROVE  NumSrv + 1 + (IF r = None THEN 0 ELSE MwOf[r] + 1) \in Nat
BY PipelineAssumption

\* Where the middlewares of a route come.
LEMMA ExpectedMw ==
  ASSUME NEW r \in Routes, NEW k \in Nat, k >= 1, k <= MwOf[r]
  PROVE  Expected(r, NumSrv + 1 + k) = Frame("mw", k)
<1>1. MwOf[r] \in Nat /\ NumSrv \in Nat
    BY PipelineAssumption
<1> DEFINE d == NumSrv + 1 + k
<1>2. ~(d <= NumSrv) /\ d # NumSrv + 1 /\ d <= NumSrv + 1 + MwOf[r] /\ d - NumSrv - 1 = k
    BY <1>1
<1> HIDE DEF d
<1>3. Expected(r, d) = Frame("mw", k)
    BY <1>2 DEF Expected
<1> QED BY <1>3 DEF d

\* A prefix of an ordered stack is ordered.
LEMMA OrderedPrefix ==
  ASSUME NEW s \in Seq(Frames), NEW r \in Routes \cup {None}, Ordered(s, r),
         NEW n \in Nat, n <= Len(s)
  PROVE  Ordered(SubSeq(s, 1, n), r)
<1> DEFINE bound == NumSrv + 1 + (IF r = None THEN 0 ELSE MwOf[r] + 1)
<1>1. bound \in Nat
    BY ChainBound
<1>2. Len(s) <= bound /\ Len(s) \in Nat /\ \A d \in 1..Len(s) : s[d] = Expected(r, d)
    BY DEF Ordered
<1> HIDE DEF bound
<1>3. \A d \in 1..n : SubSeq(s, 1, n)[d] = Expected(r, d)
    BY <1>2, Prefix
<1>4. Len(SubSeq(s, 1, n)) = n /\ n <= bound
    BY <1>1, <1>2, Prefix
<1> QED BY <1>3, <1>4 DEF Ordered, bound

\* A call of Next keeps the order if it runs what comes next, and if the
\* calls already in progress do not depend on the route it may find.
LEMMA OrderedPush ==
  ASSUME NEW s \in Seq(Frames), NEW f \in Frames,
         NEW q \in Routes \cup {None}, NEW r \in Routes \cup {None},
         Ordered(s, q),
         f = Expected(r, Len(s) + 1),
         r # q => Len(s) <= NumSrv,
         Len(s) + 1 <= NumSrv + 1 + (IF r = None THEN 0 ELSE MwOf[r] + 1)
  PROVE  Ordered(Append(s, f), r)
<1>1. \A d \in 1..Len(s) : Expected(r, d) = Expected(q, d)
    BY PipelineAssumption DEF Expected
<1>2. \A d \in 1..Len(s) : Append(s, f)[d] = Expected(r, d)
    BY <1>1, Pushed DEF Ordered
<1>3. /\ Len(Append(s, f)) = Len(s) + 1
      /\ Append(s, f)[Len(s) + 1] = Expected(r, Len(s) + 1)
      /\ Len(s) \in Nat
    BY Pushed
<1>4. \A d \in 1..Len(Append(s, f)) : Append(s, f)[d] = Expected(r, d)
    BY <1>2, <1>3
<1> QED BY <1>3, <1>4 DEF Ordered

\* Where the innermost call of Next is, from what it runs.
LEMMA TopOK ==
  ASSUME NEW w \in Workers, stack[w] \in Seq(Frames), Len(stack[w]) > 0,
         Ordered(stack[w], route[w])
  PROVE  /\ Len(stack[w]) = NumSrv + 1 => Top(w).kind = "router"
         /\ Top(w).kind = "handler" => Len(stack[w]) > NumSrv + 1
<1>1. /\ Len(stack[w]) \in Nat
      /\ Top(w) = Expected(route[w], Len(stack[w]))
    BY DEF Ordered, Top
<1> QED BY <1>1, PipelineAssumption DEF Expected, Frame

\* What the steps do to a context, and which fields they leave alone.
Leased(y)            == [y EXCEPT !.srvMiddlewares = NumSrv, !.srvMiddlewaresLen = NumSrv]
At(y, n)             == [y EXCEPT !.middlewareIndex = n]
Rerouted(y, n, h, m) == [y EXCEPT !.middlewareIndex = n, !.handler = h,
                                  !.middlewares = m, !.middlewaresLen = m]

LEMMA LeasedFields ==
  ASSUME NEW y \in RequestContexts
  PROVE  /\ Leased(y) \in RequestContexts
         /\ Leased(y).middlewareIndex = y.middlewareIndex
         /\ Leased(y).srvMiddlewares = NumSrv
         /\ Leased(y).srvMiddlewaresLen = NumSrv
BY PipelineAssumption DEF Leased, RequestContexts

LEMMA AtFields ==
  ASSUME NEW y \in RequestContexts, NEW n \in Nat
  PROVE  /\ At(y, n) \in RequestContexts
         /\ At(y, n).middlewareIndex = n
         /\ At(y, n).srvMiddlewares = y.srvMiddlewares
         /\ At(y, n).srvMiddlewaresLen = y.srvMiddlewaresLen
         /\ At(y, n).handler = y.handler
         /\ At(y, n).middlewares = y.middlewares
         /\ At(y, n).middlewaresLen = y.middlewaresLen
BY DEF At, RequestContexts

LEMMA ReroutedFields ==
  ASSUME NEW y \in RequestContexts, NEW n \in Nat, NEW m \in Nat,
         NEW h, h \in {"nil", "route"}
  PROVE  /\ Rerouted(y, n, h, m) \in RequestContexts
         /\ Rerouted(y, n, h, m).middlewareIndex = n
         /\ Rerouted(y, n, h, m).srvMiddlewares = y.srvMiddlewares
         /\ Rerouted(y, n, h, m).srvMiddlewaresLen = y.srvMiddlewaresLen
         /\ Rerouted(y, n, h, m).handler = h
         /\ Rerouted(y, n, h, m).middlewares = m
         /\ Rerouted(y, n, h, m).middlewaresLen = m
BY DEF Rerouted, RequestContexts

\* What the invariant says of a worker that serves a request.
LEMMA Served ==
  ASSUME IInv, NEW w \in Workers, Active(w)
  PROVE  /\ req[w] \in Contexts /\ req[w] # None /\ req[w] \notin pool
         /\ ctx[req[w]] \in RequestContexts
         /\ stack[w] \in Seq(Frames) /\ Len(stack[w]) \in Nat
         /\ route[w] \in Routes \cup {None}
         /\ \A v \in Workers : v # w => req[v] # req[w]
         /\ ContextOf(w)
         /\ req[w] \notin spoiled => Ordered(stack[w], route[w])
<1>1. ContextOf(w)
    BY DEF IInv, ContextOK
<1>2. req[w] \notin spoiled => Ordered(stack[w], route[w])
    BY DEF IInv, InOrder, ChainInOrder, Ordered
<1> QED BY <1>1, <1>2 DEF IInv, TypeOK, UseOK

\* What Next finds in the context when it is called.
LEMMA CallFacts ==
  ASSUME IInv, NEW w \in Workers, phase[w] = "calling"
  PROVE  /\ Active(w)
         /\ Index(w) \in Nat /\ Index(w) >= Len(stack[w]) + 1
         /\ SrvLen(w) = NumSrv
         /\ ctx[req[w]].srvMiddlewares = NumSrv
         /\ MwLen(w) \in Nat
         /\ req[w] \notin spoiled =>
              /\ Index(w) = Len(stack[w]) + 1
              /\ Len(stack[w]) > NumSrv =>
                   /\ route[w] \in Routes /\ route[w] # None
                   /\ ctx[req[w]].handler # "nil"
                   /\ ctx[req[w]].middlewares = MwLen(w)
                   /\ \/ MwLen(w) = MwOf[route[w]]
                      \/ MwLen(w) = 0 /\ Len(stack[w]) > NumSrv + 1
<1>1. Active(w)
    BY DEF Active
<1>2. MwLen(w) \in Nat /\ ctx[req[w]].middlewareIndex \in Nat
    BY <1>1, Served DEF MwLen, RequestContexts
<1>3. /\ ContextOf(w)
      /\ Len(stack[w]) \in Nat /\ route[w] \in Routes \cup {None}
    BY <1>1, Served
<1> QED BY <1>1, <1>2, <1>3, PipelineAssumption DEF Holds, Fits, ContextOf, Index, SrvLen, MwLen

\* A worker that takes no part in a step.
LEMMA OtherWorker ==
  ASSUME IInv, NEW v \in Workers,
         req'[v] = req[v], route'[v] = route[v],
         phase'[v] = phase[v], stack'[v] = stack[v],
         Active(v) => ctx'[req[v]] = ctx[req[v]],
         req[v] \in spoiled' <=> req[v] \in spoiled
  PROVE  Active(v)' => ContextOf(v)'
<1>1. Active(v)' => Active(v)
    BY DEF Active
<1>2. Active(v) => ContextOf(v)
    BY Served
<1> QED BY <1>1, <1>2 DEF Holds, Fits, ContextOf

-----------------------------------------------------------------------------
\* A step within the request of w keeps the invariant if it leaves a context
\* that fits its stack, in order unless it spoils the context.
LEMMA WithinOK ==
  ASSUME IInv, NEW w \in Workers, Active(w),
         NEW x \in RequestContexts, ctx' = [ctx EXCEPT ![req[w]] = x],
         NEW s \in Seq(Frames), stack' = [stack EXCEPT ![w] = s],
         NEW r \in Routes \cup {None}, route' = [route EXCEPT ![w] = r],
         NEW p \in {"calling", "running", "failed", "finished"},
         phase' = [phase EXCEPT ![w] = p],
         UNCHANGED <<pool, req>>,
         spoiled' = spoiled \/ spoiled' = spoiled \cup {req[w]},
         status' \in [Workers -> {"ok", "other"}],
         err' \in [Workers -> BOOLEAN],
         missed' \in [Workers -> {"no", "yes", "handled"}],
         p \in {"failed", "finished"} => s = << >>,
         p = "running" => Len(s) > 0,
         Holds(x, Len(s)),
         req[w] \notin spoiled' => Fits(x, Len(s), p, r),
         req[w] \notin spoiled' => Ordered(s, r)
  PROVE  IInv'
<1>1. /\ req[w] \in Contexts /\ req[w] # None
      /\ \A v \in Workers : v # w => req[v] # req[w]
    BY Served
<1>2. /\ stack'[w] = s /\ route'[w] = r /\ phase'[w] = p /\ ctx'[req[w]] = x
      /\ \A v \in Workers : v # w => /\ stack'[v] = stack[v] /\ route'[v] = route[v]
                                     /\ phase'[v] = phase[v]
      /\ \A c \in Contexts : c # req[w] => ctx'[c] = ctx[c]
      /\ \A v \in Workers : v # w => (req[v] \in spoiled' <=> req[v] \in spoiled)
    BY <1>1 DEF IInv, TypeOK
<1>3. TypeOK'
  <2>1. /\ ctx' \in [Contexts -> RequestContexts]
        /\ stack' \in [Workers -> Seq(Frames)]
        /\ route' \in [Workers -> Routes \cup {None}]
        /\ spoiled' \subseteq Contexts
      BY <1>1 DEF IInv, TypeOK
  <2>2. phase' \in [Workers -> {"idle", "calling", "running", "failed", "finished", "crashed"}]
      BY DEF IInv, TypeOK
  <2> QED BY <2>1, <2>2 DEF IInv, TypeOK
<1>4. UseOK'
  <2> SUFFICES ASSUME NEW v \in Workers
               PROVE  /\ Active(v)' => req'[v] # None
                      /\ phase'[v] = "idle" => req'[v] = None
                      /\ req'[v] \notin pool'
                      /\ \A u \in Workers : req'[u] = req'[v] /\ req'[v] # None => u = v
      BY DEF UseOK
  <2>1. CASE v = w
      BY <1>1, <1>2, <2>1 DEF IInv, UseOK
  <2>2. CASE v # w
      BY <1>2, <2>2 DEF IInv, UseOK, Active
  <2> QED BY <2>1, <2>2
<1>5. StackOK'
    BY <1>2 DEF IInv, StackOK
<1>6. ContextOK'
  <2> SUFFICES ASSUME NEW v \in Workers, Active(v)'
               PROVE  ContextOf(v)'
      BY DEF ContextOK
  <2>1. CASE v = w
      BY <1>2, <2>1 DEF ContextOf
  <2>2. CASE v # w
    <3>1. Active(v) => req[v] \in Contexts /\ ctx'[req[v]] = ctx[req[v]]
        BY <1>1, <1>2, <2>2, Served
    <3> QED BY <1>2, <2>2, <3>1, OtherWorker
  <2> QED BY <2>1, <2>2
<1>7. InOrder'
  <2> SUFFICES ASSUME NEW v \in Workers, (req[v] \notin spoiled)'
               PROVE  ChainInOrder(v)'
      BY DEF InOrder
  <2>1. CASE v = w
      BY <1>2, <2>1 DEF ChainInOrder, Ordered
  <2>2. CASE v # w
      BY <1>2, <2>2 DEF IInv, InOrder, ChainInOrder
  <2> QED BY <2>1, <2>2
<1>8. PooledClean'
  <2> SUFFICES ASSUME NEW c \in pool
               PROVE  /\ c \notin spoiled' => ctx'[c].middlewareIndex = 0
                      /\ ctx'[c].handler = "nil"
                      /\ ~ctx'[c].userCtx
      BY DEF PooledClean
  <2>1. c \in Contexts /\ c # req[w]
      BY DEF IInv, TypeOK, UseOK
  <2> QED BY <1>2, <2>1 DEF IInv, PooledClean
<1> QED BY <1>3, <1>4, <1>5, <1>6, <1>7, <1>8 DEF IInv

\* The same for a step that leaves the chain as it is, the fields of the
\* context that belong to it included.
LEMMA StandingOK ==
  ASSUME IInv, NEW w \in Workers, Active(w),
         NEW x \in RequestContexts, ctx' = [ctx EXCEPT ![req[w]] = x],
         x.middlewareIndex = ctx[req[w]].middlewareIndex,
         x.srvMiddlewares = ctx[req[w]].srvMiddlewares,
         x.srvMiddlewaresLen = ctx[req[w]].srvMiddlewaresLen,
         \/ /\ x.handler = ctx[req[w]].handler
            /\ x.middlewares = ctx[req[w]].middlewares
            /\ x.middlewaresLen = ctx[req[w]].middlewaresLen
         \/ /\ x.handler = "notFound" /\ x.middlewares = 0 /\ x.middlewaresLen = 0
            /\ Top(w).kind = "handler" /\ Len(stack[w]) > 0,
         NEW p \in {"calling", "running", "failed", "finished"},
         phase' = [phase EXCEPT ![w] = p],
         p \in {"failed", "finished"} => stack[w] = << >>,
         p = "running" => Len(stack[w]) > 0,
         p = "calling" /\ req[w] \notin spoiled => Len(stack[w]) # NumSrv + 1,
         UNCHANGED <<pool, req, stack, route, spoiled>>,
         status' \in [Workers -> {"ok", "other"}],
         err' \in [Workers -> BOOLEAN],
         missed' \in [Workers -> {"no", "yes", "handled"}]
  PROVE  IInv'
<1>1. /\ stack[w] \in Seq(Frames) /\ Len(stack[w]) \in Nat
      /\ route[w] \in Routes \cup {None}
      /\ ContextOf(w)
      /\ req[w] \notin spoiled => Ordered(stack[w], route[w])
    BY Served
<1>2. /\ stack' = [stack EXCEPT ![w] = stack[w]]
      /\ route' = [route EXCEPT ![w] = route[w]]
    BY DEF IInv, TypeOK
<1>3. Len(stack[w]) > 0 /\ Top(w).kind = "handler" /\ req[w] \notin spoiled
        => Len(stack[w]) > NumSrv + 1
    BY <1>1, TopOK
<1>4. /\ Holds(x, Len(stack[w]))
      /\ req[w] \notin spoiled' => Fits(x, Len(stack[w]), p, route[w])
    BY <1>1, <1>3, PipelineAssumption DEF Holds, Fits, ContextOf
<1>5. /\ req[w] \notin spoiled' => Ordered(stack[w], route[w])
      /\ spoiled' = spoiled /\ UNCHANGED <<pool, req>>
    BY <1>1
<1> QED BY <1>1, <1>2, <1>4, <1>5, WithinOK

\* f is what the next call of Next of w runs, if the route is then r, and the
\* context x fits the longer chain.
GoesOn(w, x, f, r, p) ==
  /\ f = Expected(r, Len(stack[w]) + 1)
  /\ r # route[w] => Len(stack[w]) <= NumSrv
  /\ Len(stack[w]) + 1 <= NumSrv + 1 + (IF r = None THEN 0 ELSE MwOf[r] + 1)
  /\ Len(stack[w]) > NumSrv \/ (Len(stack[w]) = NumSrv /\ p = "calling") =>
       /\ r # None
       /\ x.handler # "nil"
       /\ x.middlewares = x.middlewaresLen
       /\ \/ x.middlewaresLen = MwOf[r]
          \/ x.middlewaresLen = 0 /\ Len(stack[w]) > NumSrv

\* The same for a call of Next that runs f, the next element of the chain, on
\* the route r.
LEMMA PushOK ==
  ASSUME IInv, NEW w \in Workers, phase[w] = "calling",
         NEW x \in RequestContexts, ctx' = [ctx EXCEPT ![req[w]] = x],
         x.middlewareIndex = Index(w),
         x.srvMiddlewares = NumSrv, x.srvMiddlewaresLen = NumSrv,
         NEW f \in Frames, stack' = [stack EXCEPT ![w] = Append(@, f)],
         NEW r \in Routes \cup {None}, route' = [route EXCEPT ![w] = r],
         NEW p \in {"calling", "running"}, phase' = [phase EXCEPT ![w] = p],
         UNCHANGED <<pool, req, spoiled>>,
         status' \in [Workers -> {"ok", "other"}],
         err' \in [Workers -> BOOLEAN],
         missed' \in [Workers -> {"no", "yes", "handled"}],
         req[w] \notin spoiled => GoesOn(w, x, f, r, p)
  PROVE  IInv'
<1>1. /\ Active(w) /\ Index(w) \in Nat /\ Index(w) >= Len(stack[w]) + 1
      /\ req[w] \notin spoiled => Index(w) = Len(stack[w]) + 1
    BY CallFacts
<1>2. /\ stack[w] \in Seq(Frames) /\ Len(stack[w]) \in Nat
      /\ route[w] \in Routes \cup {None}
      /\ req[w] \notin spoiled => Ordered(stack[w], route[w])
    BY <1>1, Served
<1> DEFINE s == Append(stack[w], f)
<1>3. s \in Seq(Frames) /\ Len(s) = Len(stack[w]) + 1
    BY <1>2, Pushed
<1>4. req[w] \notin spoiled => Ordered(s, r)
    BY <1>2, OrderedPush DEF GoesOn
<1>5. stack' = [stack EXCEPT ![w] = s]
    BY DEF IInv, TypeOK
<1> HIDE DEF s
<1>6. Holds(x, Len(s)) /\ (req[w] \notin spoiled' => Fits(x, Len(s), p, r))
    BY <1>1, <1>2, <1>3, PipelineAssumption DEF GoesOn, Holds, Fits, ContextOf
<1>7. /\ Len(s) > 0 /\ p \notin {"failed", "finished"}
      /\ p \in {"calling", "running", "failed", "finished"}
      /\ req[w] \notin spoiled' => Ordered(s, r)
      /\ spoiled' = spoiled /\ UNCHANGED <<pool, req>>
    BY <1>2, <1>3, <1>4
<1> QED BY <1>1, <1>3, <1>4, <1>5, <1>6, <1>7, WithinOK

-----------------------------------------------------------------------------
\* One lemma for each action: first those that take and free the context.

\* A request gets a clean context, unless a panic has spoiled it.
LEMMA BeginRequestOK ==
  ASSUME IInv, NEW w \in Workers, NEW c \in Contexts, BeginRequest(w, c)
  PROVE  IInv'
<1> USE PipelineAssumption
<1>a. /\ stack[w] = << >> /\ Len(stack[w]) = 0
      /\ ~Active(w) /\ req[w] = None
    BY DEF BeginRequest, IInv, StackOK, UseOK, Active
<1> DEFINE y == IF c \in pool THEN ctx[c] ELSE Zero
           x == Leased(y)
<1>y. /\ y \in RequestContexts /\ y.middlewareIndex >= 0
      /\ c \notin spoiled => y.middlewareIndex = 0
    BY DEF IInv, TypeOK, PooledClean, Zero, RequestContexts
<1>c. c \in Contexts /\ ctx' = [ctx EXCEPT ![c] = x]
    BY <1>a DEF BeginRequest, IInv, TypeOK, Leased
<1> HIDE DEF y
<1>x. /\ x \in RequestContexts
      /\ Holds(x, 0)
      /\ c \notin spoiled => Fits(x, 0, "calling", None)
  <2>1. /\ x \in RequestContexts
        /\ x.middlewareIndex = y.middlewareIndex
        /\ x.srvMiddlewares = NumSrv /\ x.srvMiddlewaresLen = NumSrv
      BY <1>y, LeasedFields
  <2> HIDE DEF x
  <2> QED BY <1>y, <2>1 DEF Holds, Fits
<1> HIDE DEF x
<1>u. /\ ctx' \in [Contexts -> RequestContexts]
      /\ ctx'[c] = x /\ \A d \in Contexts : d # c => ctx'[d] = ctx[d]
    BY <1>x, <1>c DEF IInv, TypeOK
<1>s. /\ stack' = stack /\ spoiled' = spoiled
      /\ phase' = [phase EXCEPT ![w] = "calling"]
      /\ route' = [route EXCEPT ![w] = None] /\ None \in Routes \cup {None}
      /\ req' = [req EXCEPT ![w] = c] /\ pool' = pool \ {c}
      /\ \A v \in Workers : req[v] # c
    BY <1>a DEF BeginRequest, IInv, TypeOK
<1>1. TypeOK'
    BY <1>a, <1>u, <1>s DEF BeginRequest, IInv, TypeOK
<1>2. UseOK'
    BY <1>a, <1>s DEF IInv, UseOK, TypeOK, Active
<1>3. StackOK'
    BY <1>a, <1>s DEF IInv, StackOK, TypeOK
<1>4. ContextOK'
  <2> SUFFICES ASSUME NEW v \in Workers, Active(v)' PROVE ContextOf(v)'
      BY DEF ContextOK
  <2>1. CASE v # w
    <3>1. /\ req'[v] = req[v] /\ route'[v] = route[v]
          /\ phase'[v] = phase[v] /\ stack'[v] = stack[v]
        BY <2>1, <1>s DEF IInv, TypeOK
    <3>2. Active(v) => ctx'[req[v]] = ctx[req[v]]
        BY <1>u, <1>s, Served
    <3> QED BY <1>s, <3>1, <3>2, OtherWorker
  <2>2. CASE v = w
    <3>1. /\ req'[w] = c /\ ctx'[c] = x
          /\ phase'[w] = "calling" /\ route'[w] = None
          /\ Len(stack'[w]) = 0
        BY <1>a, <1>u, <1>s DEF IInv, TypeOK
    <3> QED BY <1>s, <1>x, <2>2, <3>1 DEF ContextOf
  <2> QED BY <2>1, <2>2
<1>5. InOrder'
  <2> SUFFICES ASSUME NEW v \in Workers, (req[v] \notin spoiled)' PROVE ChainInOrder(v)'
      BY DEF InOrder
  <2>1. CASE v # w
      BY <2>1, <1>s DEF IInv, InOrder, ChainInOrder, TypeOK
  <2>2. CASE v = w
      BY <2>2, <1>a, <1>s DEF ChainInOrder, IInv, TypeOK
  <2> QED BY <2>1, <2>2
<1>6. PooledClean'
    BY <1>u, <1>s DEF IInv, PooledClean, TypeOK
<1> QED BY <1>1, <1>2, <1>3, <1>4, <1>5, <1>6 DEF IInv

\* A finished chain has left its context at index 0.
LEMMA FreeRequestOK ==
  ASSUME IInv, NEW w \in Workers, FreeRequest(w)
  PROVE  IInv'
<1> USE PipelineAssumption
<1>a. /\ Active(w) /\ stack[w] = << >> /\ Len(stack[w]) = 0
    BY DEF FreeRequest, Active, IInv, StackOK
<1>b. /\ req[w] \in Contexts /\ req[w] # None /\ ctx[req[w]] \in RequestContexts
      /\ \A v \in Workers : v # w => req[v] # req[w]
      /\ req[w] \notin spoiled => ctx[req[w]].middlewareIndex = 0
    BY <1>a, Served DEF ContextOf, Fits
<1> DEFINE x == [ctx[req[w]] EXCEPT !.userCtx = FALSE, !.handler = "nil",
                                !.srvMiddlewares = 0, !.middlewares = 0]
<1>c. ctx' = [ctx EXCEPT ![req[w]] = x]
    BY DEF FreeRequest
<1>x. /\ x \in RequestContexts
      /\ req[w] \notin spoiled => x.middlewareIndex = 0
      /\ x.handler = "nil" /\ x.userCtx = FALSE
    BY <1>b DEF RequestContexts
<1> HIDE DEF x
<1>u. /\ ctx' \in [Contexts -> RequestContexts]
      /\ ctx'[req[w]] = x /\ \A d \in Contexts : d # req[w] => ctx'[d] = ctx[d]
    BY <1>b, <1>x, <1>c DEF IInv, TypeOK
<1>s. /\ stack' = stack /\ route' = route /\ spoiled' = spoiled
      /\ phase' = [phase EXCEPT ![w] = "idle"]
      /\ req' = [req EXCEPT ![w] = None] /\ pool' = pool \cup {req[w]}
    BY DEF FreeRequest
<1>1. TypeOK'
    BY <1>b, <1>u, <1>s DEF FreeRequest, IInv, TypeOK
<1>2. UseOK'
    BY <1>a, <1>b, <1>s DEF IInv, UseOK, TypeOK, Active
<1>3. StackOK'
    BY <1>a, <1>s DEF IInv, StackOK, TypeOK
<1>4. ContextOK'
  <2> SUFFICES ASSUME NEW v \in Workers, Active(v)' PROVE ContextOf(v)'
      BY DEF ContextOK
  <2>1. CASE v # w
    <3>1. /\ req'[v] = req[v] /\ route'[v] = route[v]
          /\ phase'[v] = phase[v] /\ stack'[v] = stack[v]
        BY <2>1, <1>s DEF IInv, TypeOK
    <3>2. Active(v) => ctx'[req[v]] = ctx[req[v]]
        BY <1>b, <1>u, <2>1, Served
    <3> QED BY <1>s, <3>1, <3>2, OtherWorker
  <2>2. CASE v = w
      BY <2>2, <1>s DEF Active, IInv, TypeOK
  <2> QED BY <2>1, <2>2
<1>5. InOrder'
  <2> SUFFICES ASSUME NEW v \in Workers, (req[v] \notin spoiled)' PROVE ChainInOrder(v)'
      BY DEF InOrder
  <2>1. CASE v # w
      BY <2>1, <1>s DEF IInv, InOrder, ChainInOrder, TypeOK
  <2>2. CASE v = w
    <3>1. route[w] \in Routes \cup {None}
        BY <1>a, Served
    <3>2. NumSrv + 1 + (IF route[w] = None THEN 0 ELSE MwOf[route[w]] + 1) \in Nat
        BY <3>1, ChainBound
    <3> QED BY <2>2, <3>2, <1>a, <1>s DEF ChainInOrder
  <2> QED BY <2>1, <2>2
<1>6. PooledClean'
    BY <1>b, <1>x, <1>u, <1>s DEF IInv, PooledClean, TypeOK
<1> QED BY <1>1, <1>2, <1>3, <1>4, <1>5, <1>6 DEF IInv

-----------------------------------------------------------------------------
(* The steps that leave the chain as it is.                                *)

LEMMA RequestErrorHandlerOK ==
  ASSUME IInv, NEW w \in Workers, RequestErrorHandler(w)
  PROVE  IInv'
<1>1. Active(w)
    BY DEF RequestErrorHandler, Active
<1>2. /\ ctx[req[w]] \in RequestContexts /\ req[w] \in Contexts
      /\ stack[w] \in Seq(Frames) /\ Len(stack[w]) \in Nat
      /\ req[w] \notin spoiled => Ordered(stack[w], route[w])
    BY <1>1, Served
<1>3. /\ stack[w] = << >>
      /\ ctx' = [ctx EXCEPT ![req[w]] = ctx[req[w]]]
      /\ phase' = [phase EXCEPT ![w] = "finished"]
      /\ UNCHANGED <<pool, req, stack, route, spoiled>>
      /\ status' \in [Workers -> {"ok", "other"}]
      /\ err' \in [Workers -> BOOLEAN]
      /\ missed' \in [Workers -> {"no", "yes", "handled"}]
    BY DEF RequestErrorHandler, IInv, TypeOK, StackOK
<1> QED BY <1>1, <1>2, <1>3, StandingOK

\* The branch of the router calls Next only by going on to the route: user
\* code never calls it from there.
LEMMA CallNextOK ==
  ASSUME IInv, NEW w \in Workers, CallNext(w)
  PROVE  IInv'
<1>1. Active(w)
    BY DEF CallNext, UserCode, Active
<1>2. /\ ctx[req[w]] \in RequestContexts /\ req[w] \in Contexts
      /\ stack[w] \in Seq(Frames) /\ Len(stack[w]) \in Nat
      /\ req[w] \notin spoiled => Ordered(stack[w], route[w])
    BY <1>1, Served
<1>3. /\ Len(stack[w]) > 0
      /\ ctx' = [ctx EXCEPT ![req[w]] = ctx[req[w]]]
      /\ phase' = [phase EXCEPT ![w] = "calling"]
      /\ UNCHANGED <<pool, req, stack, route, spoiled>>
      /\ status' \in [Workers -> {"ok", "other"}]
      /\ err' \in [Workers -> BOOLEAN]
      /\ missed' \in [Workers -> {"no", "yes", "handled"}]
    BY DEF CallNext, UserCode, IInv, TypeOK, StackOK
<1>4. req[w] \notin spoiled => Len(stack[w]) # NumSrv + 1
    BY <1>2, <1>3, TopOK DEF CallNext, UserCode
<1> QED BY <1>1, <1>2, <1>3, <1>4, StandingOK

LEMMA SetStatusOK ==
  ASSUME IInv, NEW w \in Workers, NEW s \in {"ok", "other"}, SetStatus(w, s)
  PROVE  IInv'
<1>1. Active(w)
    BY DEF SetStatus, UserCode, Active
<1>2. /\ ctx[req[w]] \in RequestContexts /\ req[w] \in Contexts
      /\ stack[w] \in Seq(Frames) /\ Len(stack[w]) \in Nat
      /\ req[w] \notin spoiled => Ordered(stack[w], route[w])
    BY <1>1, Served
<1>3. /\ Len(stack[w]) > 0
      /\ ctx' = [ctx EXCEPT ![req[w]] = ctx[req[w]]]
      /\ phase' = [phase EXCEPT ![w] = "running"]
      /\ UNCHANGED <<pool, req, stack, route, spoiled>>
      /\ status' \in [Workers -> {"ok", "other"}]
      /\ err' \in [Workers -> BOOLEAN]
      /\ missed' \in [Workers -> {"no", "yes", "handled"}]
    BY DEF SetStatus, UserCode, IInv, TypeOK, StackOK
<1> QED BY <1>1, <1>2, <1>3, StandingOK

\* Past the handler: user code that calls Next once more goes on, and a chain
\* that has not begun, whose context a panic has spoiled, fails.
LEMMA InvalidNextOK ==
  ASSUME IInv, NEW w \in Workers, InvalidNext(w)
  PROVE  IInv'
<1>1. Active(w)
    BY DEF InvalidNext, Active
<1>2. /\ ctx[req[w]] \in RequestContexts /\ req[w] \in Contexts
      /\ stack[w] \in Seq(Frames) /\ Len(stack[w]) \in Nat
      /\ req[w] \notin spoiled => Ordered(stack[w], route[w])
    BY <1>1, Served
<1>3. /\ ctx' = [ctx EXCEPT ![req[w]] = ctx[req[w]]]
      /\ UNCHANGED <<pool, req, stack, route, spoiled>>
      /\ status' \in [Workers -> {"ok", "other"}]
      /\ err' \in [Workers -> BOOLEAN]
      /\ missed' \in [Workers -> {"no", "yes", "handled"}]
    BY DEF InvalidNext, IInv, TypeOK
<1>4. CASE stack[w] = << >>
  <2>1. phase' = [phase EXCEPT ![w] = "failed"]
      BY <1>4 DEF InvalidNext
  <2> QED BY <1>1, <1>2, <1>3, <1>4, <2>1, StandingOK
<1>5. CASE stack[w] # << >>
  <2>1. phase' = [phase EXCEPT ![w] = "running"] /\ Len(stack[w]) > 0
      BY <1>2, <1>5 DEF InvalidNext
  <2> QED BY <1>1, <1>2, <1>3, <2>1, StandingOK
<1> QED BY <1>4, <1>5

LEMMA SetUserContextOK ==
  ASSUME IInv, NEW w \in Workers, SetUserContext(w)
  PROVE  IInv'
<1>1. Active(w)
    BY DEF SetUserContext, UserCode, Active
<1>2. /\ ctx[req[w]] \in RequestContexts /\ req[w] \in Contexts
      /\ stack[w] \in Seq(Frames) /\ Len(stack[w]) \in Nat
      /\ req[w] \notin spoiled => Ordered(stack[w], route[w])
    BY <1>1, Served
<1> DEFINE x == [ctx[req[w]] EXCEPT !.userCtx = TRUE]
<1>3. ctx' = [ctx EXCEPT ![req[w]] = x]
    BY DEF SetUserContext, IInv, TypeOK
<1>x. /\ x \in RequestContexts
      /\ x.middlewareIndex = ctx[req[w]].middlewareIndex
      /\ x.srvMiddlewares = ctx[req[w]].srvMiddlewares
      /\ x.srvMiddlewaresLen = ctx[req[w]].srvMiddlewaresLen
      /\ x.handler = ctx[req[w]].handler
      /\ x.middlewares = ctx[req[w]].middlewares
      /\ x.middlewaresLen = ctx[req[w]].middlewaresLen
    BY <1>2 DEF RequestContexts
<1> HIDE DEF x
<1>4. /\ Len(stack[w]) > 0
      /\ phase' = [phase EXCEPT ![w] = "running"]
      /\ UNCHANGED <<pool, req, stack, route, spoiled>>
      /\ status' \in [Workers -> {"ok", "other"}]
      /\ err' \in [Workers -> BOOLEAN]
      /\ missed' \in [Workers -> {"no", "yes", "handled"}]
    BY DEF SetUserContext, UserCode, IInv, TypeOK, StackOK
<1> QED BY <1>1, <1>3, <1>x, <1>4, StandingOK

\* Whatever the not-found handler does to the context, the call of Next it
\* happens in is past the middlewares of the route.
LEMMA FileNotFoundOK ==
  ASSUME IInv, NEW w \in Workers, FileNotFound(w)
  PROVE  IInv'
<1>1. Active(w)
    BY DEF FileNotFound, FileServer, Active
<1>2. /\ ctx[req[w]] \in RequestContexts /\ req[w] \in Contexts
      /\ stack[w] \in Seq(Frames) /\ Len(stack[w]) \in Nat
      /\ req[w] \notin spoiled => Ordered(stack[w], route[w])
    BY <1>1, Served
<1> DEFINE x == [ctx[req[w]] EXCEPT !.handler = "notFound",
                                !.middlewares = 0, !.middlewaresLen = 0]
<1>3. ctx' = [ctx EXCEPT ![req[w]] = x]
    BY DEF FileNotFound, IInv, TypeOK
<1>x. /\ x \in RequestContexts
      /\ x.middlewareIndex = ctx[req[w]].middlewareIndex
      /\ x.srvMiddlewares = ctx[req[w]].srvMiddlewares
      /\ x.srvMiddlewaresLen = ctx[req[w]].srvMiddlewaresLen
      /\ x.handler = "notFound" /\ x.middlewares = 0 /\ x.middlewaresLen = 0
    BY <1>2 DEF RequestContexts
<1> HIDE DEF x
<1>4. /\ Len(stack[w]) > 0
      /\ phase' = [phase EXCEPT ![w] = "running"]
      /\ UNCHANGED <<pool, req, stack, route, spoiled>>
      /\ status' \in [Workers -> {"ok", "other"}]
      /\ err' \in [Workers -> BOOLEAN]
      /\ missed' \in [Workers -> {"no", "yes", "handled"}]
    BY DEF FileNotFound, FileServer, IInv, TypeOK, StackOK
<1>5. Top(w).kind = "handler"
    BY DEF FileNotFound, FileServer
<1> QED BY <1>1, <1>3, <1>x, <1>4, <1>5, StandingOK

-----------------------------------------------------------------------------
(* The panics, which may happen in any context.                            *)

\* A panic that nothing recovers ends the process, the context of w in any
\* state.
LEMMA CrashOK ==
  ASSUME IInv, NEW w \in Workers, Active(w), Crash,
         NEW x \in RequestContexts, ctx' = [ctx EXCEPT ![req[w]] = x],
         UNCHANGED <<pool, req, route, status>>,
         missed' \in [Workers -> {"no", "yes", "handled"}]
  PROVE  IInv'
<1>1. req[w] \in Contexts /\ req[w] \notin pool
    BY Served
<1>2. /\ phase' = [v \in Workers |-> "crashed"] /\ UNCHANGED <<stack, err, spoiled>>
      /\ \A v \in Workers : phase'[v] = "crashed"
    BY DEF Crash
<1>3. TypeOK'
  <2>1. ctx' \in [Contexts -> RequestContexts]
      BY <1>1 DEF IInv, TypeOK
  <2> QED BY <1>2, <2>1 DEF IInv, TypeOK
<1>4. UseOK'
    BY <1>2 DEF IInv, UseOK, Active
<1>5. StackOK' /\ ContextOK'
    BY <1>2 DEF StackOK, ContextOK, Active
<1>6. InOrder'
    BY <1>2 DEF IInv, InOrder, ChainInOrder
<1>7. PooledClean'
    BY <1>1, <1>2 DEF IInv, PooledClean, TypeOK
<1> QED BY <1>3, <1>4, <1>5, <1>6, <1>7 DEF IInv

\* A panic that NewPanic recovers spoils the context of w.
LEMMA UnwindOK ==
  ASSUME IInv, NEW w \in Workers, Active(w), Unwind(w),
         NEW x \in RequestContexts, ctx' = [ctx EXCEPT ![req[w]] = x],
         Holds(x, Len(stack[w])),
         UNCHANGED <<pool, req, route, status>>,
         missed' \in [Workers -> {"no", "yes", "handled"}]
  PROVE  IInv'
<1>1. CASE Crash
    BY <1>1, CrashOK
<1>2. ASSUME NEW d \in 1..Len(stack[w]), NEW e \in BOOLEAN,
             stack' = [stack EXCEPT ![w] = SubSeq(@, 1, d)],
             phase' = [phase EXCEPT ![w] = "running"],
             err' = [err EXCEPT ![w] = e],
             spoiled' = spoiled \cup {req[w]}
      PROVE  IInv'
  <2> DEFINE s == SubSeq(stack[w], 1, d)
  <2>1. stack[w] \in Seq(Frames) /\ Len(stack[w]) \in Nat /\ route[w] \in Routes \cup {None}
      BY Served
  <2>2. s \in Seq(Frames) /\ Len(s) = d /\ d \in Nat /\ d > 0 /\ d <= Len(stack[w])
      BY <2>1, Prefix
  <2>3. stack' = [stack EXCEPT ![w] = s] /\ route' = [route EXCEPT ![w] = route[w]]
      BY <1>2 DEF IInv, TypeOK
  <2> HIDE DEF s
  <2>4. Holds(x, Len(s)) /\ Len(s) > 0
      BY <2>1, <2>2 DEF Holds, RequestContexts
  <2>5. /\ req[w] \in spoiled'
        /\ status' \in [Workers -> {"ok", "other"}]
        /\ err' \in [Workers -> BOOLEAN]
        /\ spoiled' = spoiled \cup {req[w]} /\ UNCHANGED <<pool, req>>
        /\ phase' = [phase EXCEPT ![w] = "running"]
      BY <1>2 DEF IInv, TypeOK
  <2> QED BY <2>1, <2>2, <2>3, <2>4, <2>5, WithinOK
<1> QED BY <1>1, <1>2 DEF Unwind

LEMMA PanicOK ==
  ASSUME IInv, NEW w \in Workers, Panic(w)
  PROVE  IInv'
<1>1. Active(w)
    BY DEF Panic, UserCode, Active
<1>2. /\ ctx[req[w]] \in RequestContexts
      /\ Holds(ctx[req[w]], Len(stack[w]))
    BY <1>1, Served DEF ContextOf
<1>3. /\ ctx' = [ctx EXCEPT ![req[w]] = ctx[req[w]]]
      /\ UNCHANGED <<pool, req, route, status>>
      /\ missed' \in [Workers -> {"no", "yes", "handled"}]
      /\ Unwind(w) \/ Crash
    BY DEF Panic, IInv, TypeOK
<1> QED BY <1>1, <1>2, <1>3, UnwindOK, CrashOK

-----------------------------------------------------------------------------
(* The branches of Next, and its return.                                   *)

LEMMA RunSrvOK ==
  ASSUME IInv, NEW w \in Workers, RunSrv(w)
  PROVE  IInv'
<1>1. phase[w] = "calling" /\ Index(w) <= SrvLen(w)
    BY DEF RunSrv
<1>2. /\ ctx[req[w]] \in RequestContexts /\ route[w] \in Routes \cup {None}
      /\ Len(stack[w]) \in Nat
      /\ ctx[req[w]].srvMiddlewares = NumSrv /\ ctx[req[w]].srvMiddlewaresLen = NumSrv
    BY <1>1, CallFacts, Served DEF SrvLen
<1>3. Index(w) \in Nat /\ Index(w) >= 1 /\ Index(w) <= NumSrv
    BY <1>1, <1>2, CallFacts
<1> DEFINE x == At(ctx[req[w]], Index(w))
           f == Frame("srv", Index(w))
           p == IF Recovers(f) THEN "calling" ELSE "running"
<1>4. /\ ctx' = [ctx EXCEPT ![req[w]] = x]
      /\ stack' = [stack EXCEPT ![w] = Append(@, f)]
      /\ route' = [route EXCEPT ![w] = route[w]]
      /\ phase' = [phase EXCEPT ![w] = p]
      /\ UNCHANGED <<pool, req, spoiled>>
      /\ status' \in [Workers -> {"ok", "other"}]
      /\ err' \in [Workers -> BOOLEAN]
      /\ missed' \in [Workers -> {"no", "yes", "handled"}]
    BY DEF RunSrv, Push, At, IInv, TypeOK
<1>5. f \in Frames /\ p \in {"calling", "running"}
    BY <1>3 DEF Frames, Frame
<1>6. /\ x \in RequestContexts /\ x.middlewareIndex = Index(w)
      /\ x.srvMiddlewares = NumSrv /\ x.srvMiddlewaresLen = NumSrv
    BY <1>2, <1>3, AtFields
<1>7. req[w] \notin spoiled =>
        /\ Index(w) = Len(stack[w]) + 1 /\ Len(stack[w]) < NumSrv
        /\ f = Expected(route[w], Len(stack[w]) + 1)
        /\ Len(stack[w]) + 1 <= NumSrv + 1 + (IF route[w] = None THEN 0 ELSE MwOf[route[w]] + 1)
    BY <1>1, <1>2, <1>3, CallFacts, PipelineAssumption DEF Expected
<1> HIDE DEF x, f, p
<1>8. req[w] \notin spoiled => GoesOn(w, x, f, route[w], p)
    BY <1>2, <1>7, PipelineAssumption DEF GoesOn
<1> QED BY <1>1, <1>2, <1>4, <1>5, <1>6, <1>8, PushOK, ZenonT(60)

\* The chain goes on to a route with the lengths of that route.
LEMMA RunRouterMatchOK ==
  ASSUME IInv, NEW w \in Workers, NEW r \in Routes, RunRouterMatch(w, r)
  PROVE  IInv'
<1>1. phase[w] = "calling" /\ Index(w) = SrvLen(w) + 1
    BY DEF RunRouterMatch, EnterRouter
<1>2. /\ ctx[req[w]] \in RequestContexts /\ r \in Routes \cup {None}
      /\ Len(stack[w]) \in Nat
      /\ ctx[req[w]].srvMiddlewares = NumSrv /\ ctx[req[w]].srvMiddlewaresLen = NumSrv
    BY <1>1, CallFacts, Served DEF SrvLen
<1>3. Index(w) \in Nat /\ Index(w) = NumSrv + 1
    BY <1>1, CallFacts
<1> DEFINE x == Rerouted(ctx[req[w]], Index(w), "route", MwOf[r])
           f == Frame("router", 0)
           p == IF status[w] = "ok" THEN "calling" ELSE "running"
<1>4. /\ ctx' = [ctx EXCEPT ![req[w]] = x]
      /\ stack' = [stack EXCEPT ![w] = Append(@, f)]
      /\ route' = [route EXCEPT ![w] = r]
      /\ phase' = [phase EXCEPT ![w] = p]
      /\ UNCHANGED <<pool, req, spoiled>>
      /\ status' \in [Workers -> {"ok", "other"}]
      /\ err' \in [Workers -> BOOLEAN]
      /\ missed' \in [Workers -> {"no", "yes", "handled"}]
    BY DEF RunRouterMatch, EnterRouter, SetHandlerParams, Rerouted, Index, IInv, TypeOK
<1>5. f \in Frames /\ p \in {"calling", "running"}
    BY DEF Frames, Frame
<1>6. /\ x \in RequestContexts /\ x.middlewareIndex = Index(w)
      /\ x.srvMiddlewares = NumSrv /\ x.srvMiddlewaresLen = NumSrv
      /\ r # None /\ MwOf[r] \in Nat
      /\ x.handler = "route" /\ x.middlewares = MwOf[r] /\ x.middlewaresLen = MwOf[r]
    BY <1>2, <1>3, ReroutedFields, PipelineAssumption
<1>7. req[w] \notin spoiled =>
        /\ Index(w) = Len(stack[w]) + 1 /\ Len(stack[w]) = NumSrv
        /\ f = Expected(r, Len(stack[w]) + 1)
        /\ Len(stack[w]) + 1 <= NumSrv + 1 + (IF r = None THEN 0 ELSE MwOf[r] + 1)
    BY <1>1, <1>2, <1>3, CallFacts, PipelineAssumption DEF Expected
<1> HIDE DEF x, f, p
<1>8. req[w] \notin spoiled => GoesOn(w, x, f, r, p)
    BY <1>2, <1>6, <1>7, PipelineAssumption DEF GoesOn
<1>9. /\ x \in RequestContexts /\ x.middlewareIndex = Index(w)
      /\ x.srvMiddlewares = NumSrv /\ x.srvMiddlewaresLen = NumSrv
      /\ r \in Routes \cup {None} /\ f \in Frames /\ p \in {"calling", "running"}
    BY <1>5, <1>6
<1> QED BY <1>1, <1>4, <1>8, <1>9, PushOK

LEMMA RunRouterNilOK ==
  ASSUME IInv, NEW w \in Workers, RunRouterNil(w)
  PROVE  IInv'
<1>1. phase[w] = "calling" /\ Index(w) = SrvLen(w) + 1
    BY DEF RunRouterNil, EnterRouter
<1>2. /\ ctx[req[w]] \in RequestContexts /\ None \in Routes \cup {None}
      /\ Len(stack[w]) \in Nat
      /\ ctx[req[w]].srvMiddlewares = NumSrv /\ ctx[req[w]].srvMiddlewaresLen = NumSrv
    BY <1>1, CallFacts, Served DEF SrvLen
<1>3. Index(w) \in Nat /\ Index(w) = NumSrv + 1
    BY <1>1, CallFacts
<1> DEFINE x == Rerouted(ctx[req[w]], Index(w), "nil", 0)
           f == Frame("router", 0)
           p == "running"
<1>4. /\ ctx' = [ctx EXCEPT ![req[w]] = x]
      /\ stack' = [stack EXCEPT ![w] = Append(@, f)]
      /\ route' = [route EXCEPT ![w] = None]
      /\ phase' = [phase EXCEPT ![w] = p]
      /\ UNCHANGED <<pool, req, spoiled>>
      /\ status' \in [Workers -> {"ok", "other"}]
      /\ err' \in [Workers -> BOOLEAN]
      /\ missed' \in [Workers -> {"no", "yes", "handled"}]
    BY DEF RunRouterNil, EnterRouter, SetHandlerParams, Rerouted, Index, IInv, TypeOK
<1>5. f \in Frames /\ p \in {"calling", "running"}
    BY DEF Frames, Frame
<1>6. /\ x \in RequestContexts /\ x.middlewareIndex = Index(w)
      /\ x.srvMiddlewares = NumSrv /\ x.srvMiddlewaresLen = NumSrv
    BY <1>2, <1>3, ReroutedFields
<1>7. req[w] \notin spoiled =>
        /\ Index(w) = Len(stack[w]) + 1 /\ Len(stack[w]) = NumSrv
        /\ f = Expected(None, Len(stack[w]) + 1)
        /\ Len(stack[w]) + 1 <= NumSrv + 1 + (IF None = None THEN 0 ELSE MwOf[None] + 1)
    BY <1>1, <1>2, <1>3, CallFacts, PipelineAssumption DEF Expected
<1> HIDE DEF x, f
<1>8. req[w] \notin spoiled => GoesOn(w, x, f, None, p)
    BY <1>2, <1>7, PipelineAssumption DEF GoesOn
<1> HIDE DEF p
<1> QED BY <1>1, <1>2, <1>4, <1>5, <1>6, <1>8, PushOK, ZenonT(60)

LEMMA RunRouterAnswerOK ==
  ASSUME IInv, NEW w \in Workers, RunRouterAnswer(w)
  PROVE  IInv'
<1>1. phase[w] = "calling" /\ Index(w) = SrvLen(w) + 1
    BY DEF RunRouterAnswer, EnterRouter
<1>2. /\ ctx[req[w]] \in RequestContexts /\ None \in Routes \cup {None}
      /\ Len(stack[w]) \in Nat
      /\ ctx[req[w]].srvMiddlewares = NumSrv /\ ctx[req[w]].srvMiddlewaresLen = NumSrv
    BY <1>1, CallFacts, Served DEF SrvLen
<1>3. Index(w) \in Nat /\ Index(w) = NumSrv + 1
    BY <1>1, CallFacts
<1> DEFINE x == At(ctx[req[w]], Index(w))
           f == Frame("router", 0)
           p == "running"
<1>4. /\ ctx' = [ctx EXCEPT ![req[w]] = x]
      /\ stack' = [stack EXCEPT ![w] = Append(@, f)]
      /\ route' = [route EXCEPT ![w] = None]
      /\ phase' = [phase EXCEPT ![w] = p]
      /\ UNCHANGED <<pool, req, spoiled>>
      /\ status' \in [Workers -> {"ok", "other"}]
      /\ err' \in [Workers -> BOOLEAN]
      /\ missed' \in [Workers -> {"no", "yes", "handled"}]
    BY DEF RunRouterAnswer, EnterRouter, At, Index, IInv, TypeOK
<1>5. f \in Frames /\ p \in {"calling", "running"}
    BY DEF Frames, Frame
<1>6. /\ x \in RequestContexts /\ x.middlewareIndex = Index(w)
      /\ x.srvMiddlewares = NumSrv /\ x.srvMiddlewaresLen = NumSrv
    BY <1>2, <1>3, AtFields
<1>7. req[w] \notin spoiled =>
        /\ Index(w) = Len(stack[w]) + 1 /\ Len(stack[w]) = NumSrv
        /\ f = Expected(None, Len(stack[w]) + 1)
        /\ Len(stack[w]) + 1 <= NumSrv + 1 + (IF None = None THEN 0 ELSE MwOf[None] + 1)
    BY <1>1, <1>2, <1>3, CallFacts, PipelineAssumption DEF Expected
<1> HIDE DEF x, f
<1>8. req[w] \notin spoiled => GoesOn(w, x, f, None, p)
    BY <1>2, <1>7, PipelineAssumption DEF GoesOn
<1> HIDE DEF p
<1> QED BY <1>1, <1>2, <1>4, <1>5, <1>6, <1>8, PushOK, ZenonT(60)

\* A middleware of the route: the slice is long enough, unless a panic has
\* spoiled the context.
LEMMA RunMwOK ==
  ASSUME IInv, NEW w \in Workers, RunMw(w)
  PROVE  IInv'
<1> DEFINE pos == Index(w) - SrvLen(w) - 1
<1>1. /\ phase[w] = "calling" /\ Active(w)
      /\ pos \in 1..MwLen(w)
    BY CallFacts DEF RunMw
<1>2. /\ ctx[req[w]] \in RequestContexts /\ route[w] \in Routes \cup {None}
      /\ Len(stack[w]) \in Nat
      /\ ctx[req[w]].srvMiddlewares = NumSrv /\ ctx[req[w]].srvMiddlewaresLen = NumSrv
      /\ MwLen(w) = ctx[req[w]].middlewaresLen
    BY <1>1, CallFacts, Served DEF SrvLen, MwLen
<1>3. /\ Index(w) \in Nat /\ Index(w) >= Len(stack[w]) + 1
      /\ pos \in Nat /\ pos >= 1 /\ pos <= MwLen(w)
      /\ Index(w) = NumSrv + 1 + pos
    BY <1>1, CallFacts, PipelineAssumption
<1> DEFINE x == At(ctx[req[w]], Index(w))
           f == Frame("mw", pos)
<1>4. /\ ctx' = [ctx EXCEPT ![req[w]] = x]
      /\ route' = [route EXCEPT ![w] = route[w]]
      /\ UNCHANGED <<pool, req, route, status>>
      /\ status' \in [Workers -> {"ok", "other"}]
      /\ missed' \in [Workers -> {"no", "yes", "handled"}]
    BY DEF RunMw, At, IInv, TypeOK
<1>5. /\ x \in RequestContexts /\ x.middlewareIndex = Index(w)
      /\ x.srvMiddlewares = NumSrv /\ x.srvMiddlewaresLen = NumSrv
      /\ x.handler = ctx[req[w]].handler
      /\ x.middlewares = ctx[req[w]].middlewares
      /\ x.middlewaresLen = ctx[req[w]].middlewaresLen
    BY <1>2, <1>3, AtFields
<1>6. CASE pos <= ctx[req[w]].middlewares
  <2>1. /\ Push(w, f) /\ UNCHANGED <<err, spoiled>> /\ ~Recovers(f)
    BY <1>6 DEF RunMw, Recovers, Frame
  <2>2. /\ stack' = [stack EXCEPT ![w] = Append(@, f)]
        /\ phase' = [phase EXCEPT ![w] = "running"]
        /\ UNCHANGED <<pool, req, spoiled>>
        /\ err' \in [Workers -> BOOLEAN]
      BY <1>4, <2>1 DEF Push, IInv, TypeOK
  <2>3. f \in Frames
      BY <1>3 DEF Frames, Frame
  <2> HIDE DEF x
  <2>4. req[w] \notin spoiled => GoesOn(w, x, f, route[w], "running")
    <3> SUFFICES ASSUME req[w] \notin spoiled
                 PROVE  GoesOn(w, x, f, route[w], "running")
        OBVIOUS
    <3> HIDE DEF pos
    <3>1. /\ Index(w) = Len(stack[w]) + 1
          /\ Len(stack[w]) = NumSrv + pos
      <4>1. Index(w) = Len(stack[w]) + 1
          BY <1>1, CallFacts
      <4> QED BY <1>2, <1>3, <4>1, PipelineAssumption
    <3>2. /\ route[w] \in Routes /\ route[w] # None /\ MwOf[route[w]] \in Nat
          /\ ctx[req[w]].handler # "nil"
          /\ ctx[req[w]].middlewares = MwLen(w)
          /\ \/ MwLen(w) = MwOf[route[w]]
             \/ MwLen(w) = 0 /\ Len(stack[w]) > NumSrv + 1
      <4>1. Len(stack[w]) > NumSrv
          BY <1>3, <3>1, PipelineAssumption
      <4> QED BY <1>1, <4>1, CallFacts, PipelineAssumption
    <3>3. MwLen(w) = MwOf[route[w]] /\ pos <= MwOf[route[w]]
      <4>1. MwLen(w) # 0
          BY <1>3
      <4> QED BY <1>3, <3>2, <4>1
    <3>4. f = Expected(route[w], Len(stack[w]) + 1)
      <4>1. Len(stack[w]) + 1 = NumSrv + 1 + pos
          BY <1>3, <3>1, PipelineAssumption
      <4>2. Expected(route[w], NumSrv + 1 + pos) = Frame("mw", pos)
          BY <1>3, <3>2, <3>3, ExpectedMw
      <4> QED BY <4>1, <4>2
    <3> HIDE DEF f
    <3>5. /\ Len(stack[w]) + 1 <= NumSrv + 1 + MwOf[route[w]] + 1
          /\ Len(stack[w]) > NumSrv
        BY <1>3, <3>1, <3>2, <3>3, PipelineAssumption
    <3>6. x.handler # "nil" /\ x.middlewares = x.middlewaresLen /\ x.middlewaresLen = MwOf[route[w]]
        BY <1>2, <1>5, <3>2, <3>3
    <3> QED BY <3>2, <3>4, <3>5, <3>6, PipelineAssumption DEF GoesOn
  <2> HIDE DEF pos, f
  <2> QED BY <1>1, <1>2, <1>4, <1>5, <2>2, <2>3, <2>4, PushOK
<1>7. CASE ~(pos <= ctx[req[w]].middlewares)
  <2>1. Unwind(w)
      BY <1>7 DEF RunMw
  <2>2. Holds(x, Len(stack[w]))
      BY <1>2, <1>3, <1>5 DEF Holds
  <2> HIDE DEF pos, f, x
  <2> QED BY <1>1, <1>4, <1>5, <2>1, <2>2, UnwindOK
<1> QED BY <1>6, <1>7

\* The handler ends the chain.
LEMMA RunHandlerOK ==
  ASSUME IInv, NEW w \in Workers, RunHandler(w)
  PROVE  IInv'
<1>1. /\ phase[w] = "calling" /\ Active(w)
      /\ Index(w) = SrvLen(w) + 2 + MwLen(w)
    BY CallFacts DEF RunHandler
<1>2. /\ ctx[req[w]] \in RequestContexts /\ route[w] \in Routes \cup {None}
      /\ Len(stack[w]) \in Nat
      /\ ctx[req[w]].srvMiddlewares = NumSrv /\ ctx[req[w]].srvMiddlewaresLen = NumSrv
      /\ MwLen(w) = ctx[req[w]].middlewaresLen /\ MwLen(w) \in Nat
    BY <1>1, CallFacts, Served DEF SrvLen, MwLen
<1>3. /\ Index(w) \in Nat /\ Index(w) >= Len(stack[w]) + 1
      /\ Index(w) = NumSrv + 2 + MwLen(w)
    BY <1>1, CallFacts
<1> DEFINE x == At(ctx[req[w]], Index(w))
           f == Frame("handler", 0)
<1>4. /\ ctx' = [ctx EXCEPT ![req[w]] = x]
      /\ route' = [route EXCEPT ![w] = route[w]]
      /\ UNCHANGED <<pool, req, route, status>>
      /\ status' \in [Workers -> {"ok", "other"}]
      /\ missed' \in [Workers -> {"no", "yes", "handled"}]
    BY DEF RunHandler, At, IInv, TypeOK
<1>5. /\ x \in RequestContexts /\ x.middlewareIndex = Index(w)
      /\ x.srvMiddlewares = NumSrv /\ x.srvMiddlewaresLen = NumSrv
      /\ x.handler = ctx[req[w]].handler
      /\ x.middlewares = ctx[req[w]].middlewares
      /\ x.middlewaresLen = ctx[req[w]].middlewaresLen
    BY <1>2, <1>3, AtFields
<1>6. CASE ctx[req[w]].handler # "nil"
  <2>1. /\ Push(w, f) /\ UNCHANGED <<err, spoiled>> /\ ~Recovers(f)
    BY <1>6 DEF RunHandler, Recovers, Frame
  <2>2. /\ stack' = [stack EXCEPT ![w] = Append(@, f)]
        /\ phase' = [phase EXCEPT ![w] = "running"]
        /\ UNCHANGED <<pool, req, spoiled>>
        /\ err' \in [Workers -> BOOLEAN]
      BY <1>4, <2>1 DEF Push, IInv, TypeOK
  <2>3. f \in Frames
      BY DEF Frames, Frame
  <2> HIDE DEF x
  <2>4. req[w] \notin spoiled => GoesOn(w, x, f, route[w], "running")
    <3> SUFFICES ASSUME req[w] \notin spoiled
                 PROVE  GoesOn(w, x, f, route[w], "running")
        OBVIOUS
    <3>1. /\ Index(w) = Len(stack[w]) + 1
          /\ Len(stack[w]) = NumSrv + 1 + MwLen(w)
      <4>1. Index(w) = Len(stack[w]) + 1
          BY <1>1, CallFacts
      <4> QED BY <1>2, <1>3, <4>1, PipelineAssumption
    <3>2. /\ route[w] \in Routes /\ route[w] # None /\ MwOf[route[w]] \in Nat
          /\ ctx[req[w]].middlewares = MwLen(w)
          /\ \/ MwLen(w) = MwOf[route[w]]
             \/ MwLen(w) = 0 /\ Len(stack[w]) > NumSrv + 1
      <4>1. Len(stack[w]) > NumSrv
          BY <1>2, <3>1, PipelineAssumption
      <4> QED BY <1>1, <4>1, CallFacts, PipelineAssumption
    <3>3. MwLen(w) = MwOf[route[w]]
        BY <1>2, <3>1, <3>2, PipelineAssumption
    <3>4. f = Expected(route[w], Len(stack[w]) + 1)
        BY <1>2, <3>1, <3>2, <3>3, PipelineAssumption DEF Expected
    <3> HIDE DEF f
    <3>5. Len(stack[w]) + 1 = NumSrv + 1 + MwOf[route[w]] + 1
        BY <1>2, <3>1, <3>2, <3>3, PipelineAssumption
    <3>6. x.handler # "nil" /\ x.middlewares = x.middlewaresLen /\ x.middlewaresLen = MwOf[route[w]]
        BY <1>2, <1>5, <1>6, <3>2, <3>3
    <3> QED BY <3>2, <3>4, <3>5, <3>6, PipelineAssumption DEF GoesOn
  <2> HIDE DEF f
  <2> QED BY <1>1, <1>2, <1>4, <1>5, <2>2, <2>3, <2>4, PushOK
<1>7. CASE ctx[req[w]].handler = "nil"
  <2>1. Unwind(w)
      BY <1>7 DEF RunHandler
  <2>2. Holds(x, Len(stack[w]))
      BY <1>2, <1>3, <1>5 DEF Holds
  <2> HIDE DEF f, x
  <2> QED BY <1>1, <1>4, <1>5, <2>1, <2>2, UnwindOK
<1> QED BY <1>6, <1>7

\* The return of Next leaves the frame below and the index of its call.
LEMMA NextReturnsOK ==
  ASSUME IInv, NEW w \in Workers, NEW e \in BOOLEAN, NextReturns(w, e)
  PROVE  IInv'
<1>1. phase[w] = "running" /\ Active(w)
    BY DEF NextReturns, Active
<1>2. /\ ctx[req[w]] \in RequestContexts /\ ctx[req[w]].middlewareIndex \in Nat
      /\ route[w] \in Routes \cup {None}
      /\ stack[w] \in Seq(Frames) /\ Len(stack[w]) \in Nat /\ Len(stack[w]) > 0
      /\ ContextOf(w)
      /\ req[w] \notin spoiled => Ordered(stack[w], route[w])
    BY <1>1, Served DEF IInv, StackOK, RequestContexts
<1> DEFINE y == ctx[req[w]]
           m == y.middlewareIndex - 1
           n == Len(stack[w]) - 1
           x == At(y, m)
           s == SubSeq(stack[w], 1, n)
           p == IF Len(stack[w]) > 1 THEN "running"
                ELSE IF e THEN "failed" ELSE "finished"
<1>3. /\ m \in Nat /\ n \in Nat /\ n < Len(stack[w]) /\ m >= n
    BY <1>2 DEF ContextOf, Holds
<1>4. /\ ctx' = [ctx EXCEPT ![req[w]] = x]
      /\ stack' = [stack EXCEPT ![w] = s]
      /\ route' = [route EXCEPT ![w] = route[w]]
      /\ phase' = [phase EXCEPT ![w] = p]
      /\ UNCHANGED <<pool, req>> /\ spoiled' = spoiled
      /\ status' \in [Workers -> {"ok", "other"}]
      /\ err' \in [Workers -> BOOLEAN]
      /\ missed' \in [Workers -> {"no", "yes", "handled"}]
    BY DEF NextReturns, At, IInv, TypeOK
<1>5. /\ s \in Seq(Frames) /\ Len(s) = n
      /\ n = 0 => s = << >>
    BY <1>2, <1>3, Prefix
<1>6. req[w] \notin spoiled => Ordered(s, route[w])
    BY <1>2, <1>3, OrderedPrefix
<1>7. /\ p \in {"calling", "running", "failed", "finished"} /\ p # "calling"
      /\ p \in {"failed", "finished"} => s = << >>
      /\ p = "running" => Len(s) > 0
    BY <1>2, <1>5
<1>8. /\ x \in RequestContexts /\ x.middlewareIndex = m
      /\ x.srvMiddlewares = y.srvMiddlewares /\ x.srvMiddlewaresLen = y.srvMiddlewaresLen
      /\ x.handler = y.handler
      /\ x.middlewares = y.middlewares /\ x.middlewaresLen = y.middlewaresLen
    BY <1>2, <1>3, AtFields
<1> HIDE DEF x, s, p
<1>9. Holds(x, Len(s))
    BY <1>2, <1>3, <1>5, <1>8 DEF ContextOf, Holds
<1>10. req[w] \notin spoiled => Fits(x, Len(s), p, route[w])
    BY <1>2, <1>3, <1>5, <1>7, <1>8, PipelineAssumption DEF ContextOf, Fits
<1> HIDE DEF y, m, n
<1> QED BY <1>1, <1>2, <1>4, <1>5, <1>6, <1>7, <1>8, <1>9, <1>10, WithinOK

-----------------------------------------------------------------------------
\* The invariant holds at first, and no step breaks it.
LEMMA InitOK == Init => IInv
<1> SUFFICES ASSUME Init PROVE IInv
    OBVIOUS
<1>1. TypeOK
    BY PipelineAssumption DEF Init, TypeOK, Zero, RequestContexts
<1>2. UseOK /\ StackOK /\ ContextOK /\ PooledClean
    BY PipelineAssumption DEF Init, UseOK, StackOK, ContextOK, PooledClean, Active
<1>3. InOrder
    BY PipelineAssumption DEF Init, InOrder, ChainInOrder
<1> QED BY <1>1, <1>2, <1>3 DEF IInv

LEMMA StutterOK ==
  ASSUME IInv, UNCHANGED vars
  PROVE  IInv'
<1>1. TypeOK'
    BY DEF IInv, TypeOK, vars, perWorker
<1>2. UseOK' /\ StackOK' /\ PooledClean'
    BY DEF IInv, UseOK, StackOK, PooledClean, Active, vars, perWorker
<1>3. ContextOK'
    BY DEF IInv, ContextOK, ContextOf, Holds, Fits, Active, vars, perWorker
<1>4. InOrder'
    BY DEF IInv, InOrder, ChainInOrder, vars, perWorker
<1> QED BY <1>1, <1>2, <1>3, <1>4 DEF IInv

LEMMA StepOK ==
  ASSUME IInv, [Next]_vars
  PROVE  IInv'
<1>1. ASSUME NEW w \in Workers, NEW c \in Contexts, BeginRequest(w, c) PROVE IInv'
    BY <1>1, BeginRequestOK
<1>2. ASSUME NEW w \in Workers, RequestErrorHandler(w) PROVE IInv'
    BY <1>2, RequestErrorHandlerOK
<1>3. ASSUME NEW w \in Workers, FreeRequest(w) PROVE IInv'
    BY <1>3, FreeRequestOK
<1>4. ASSUME NEW w \in Workers, RunSrv(w) PROVE IInv'
    BY <1>4, RunSrvOK
<1>5. ASSUME NEW w \in Workers, RunRouterNil(w) PROVE IInv'
    BY <1>5, RunRouterNilOK
<1>6. ASSUME NEW w \in Workers, RunRouterAnswer(w) PROVE IInv'
    BY <1>6, RunRouterAnswerOK
<1>7. ASSUME NEW w \in Workers, NEW r \in Routes, RunRouterMatch(w, r) PROVE IInv'
    BY <1>7, RunRouterMatchOK
<1>8. ASSUME NEW w \in Workers, RunMw(w) PROVE IInv'
    BY <1>8, RunMwOK
<1>9. ASSUME NEW w \in Workers, RunHandler(w) PROVE IInv'
    BY <1>9, RunHandlerOK
<1>10. ASSUME NEW w \in Workers, InvalidNext(w) PROVE IInv'
    BY <1>10, InvalidNextOK
<1>11. ASSUME NEW w \in Workers, NEW e \in BOOLEAN, NextReturns(w, e) PROVE IInv'
    BY <1>11, NextReturnsOK
<1>12. ASSUME NEW w \in Workers, CallNext(w) PROVE IInv'
    BY <1>12, CallNextOK
<1>13. ASSUME NEW w \in Workers, SetUserContext(w) PROVE IInv'
    BY <1>13, SetUserContextOK
<1>14. ASSUME NEW w \in Workers, FileNotFound(w) PROVE IInv'
    BY <1>14, FileNotFoundOK
<1>15. ASSUME NEW w \in Workers, Panic(w) PROVE IInv'
    BY <1>15, PanicOK
<1>16. ASSUME NEW w \in Workers, NEW s \in {"ok", "other"}, SetStatus(w, s) PROVE IInv'
    BY <1>16, SetStatusOK
<1>17. CASE UNCHANGED vars \/ Crashed
    BY <1>17, StutterOK DEF Crashed
<1> QED
    BY <1>1, <1>2, <1>3, <1>4, <1>5, <1>6, <1>7, <1>8, <1>9, <1>10, <1>11,
       <1>12, <1>13, <1>14, <1>15, <1>16, <1>17 DEF Next

LEMMA Invariance == Spec => []IInv
BY InitOK, StepOK, PTL DEF Spec

-----------------------------------------------------------------------------
\* The state of the pipeline has its type: the index stays in the naturals.
THEOREM TypeCorrect == Spec => []TypeOK
<1>1. IInv => TypeOK
    BY DEF IInv
<1> QED BY Invariance, <1>1, PTL

\* A RequestContext is used by one request at a time and by none in the pool.
THEOREM ExclusiveTheorem == Spec => []ExclusiveUse
<1>1. IInv => ExclusiveUse
    BY DEF IInv, TypeOK, UseOK, ExclusiveUse
<1> QED BY Invariance, <1>1, PTL

\* Every request runs what it should, in its order, unless its own context
\* has had a panic recovered in it.
THEOREM OrderTheorem == Spec => []InOrder
<1>1. IInv => InOrder
    BY DEF IInv
<1> QED BY Invariance, <1>1, PTL

\* Next indexes no slice out of range and calls no nil handler.
THEOREM TargetTheorem == Spec => []NextFindsTarget
<1>1. ASSUME IInv, NEW w \in Workers, phase[w] = "calling", req[w] \notin spoiled
      PROVE  /\ SrvLen(w) = ctx[req[w]].srvMiddlewares
             /\ Index(w) > SrvLen(w) + 1 =>
                  MwLen(w) = ctx[req[w]].middlewares /\ ctx[req[w]].handler # "nil"
  <2>1. Active(w)
      BY <1>1 DEF Active
  <2>2. Len(stack[w]) \in Nat
      BY <1>1, <2>1, Served
  <2> QED BY <1>1, <2>2, CallFacts, PipelineAssumption
<1>2. IInv => NextFindsTarget
    BY <1>1 DEF NextFindsTarget
<1> QED BY Invariance, <1>2, PTL

\* A pooled context carries nothing into the next request.
THEOREM PooledTheorem == Spec => []PooledClean
<1>1. IInv => PooledClean
    BY DEF IInv
<1> QED BY Invariance, <1>1, PTL

=============================================================================
