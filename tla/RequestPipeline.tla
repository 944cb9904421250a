-------------------------- MODULE RequestPipeline --------------------------
(***************************************************************************)
(* How a request goes through the middlewares of the server, the router,   *)
(* the middlewares of the route and the handler, and how RequestContext    *)
(* objects are reused (request.go, request_pool.go, webserver_internal.go, *)
(* and ServeFiles of webserver.go).                                        *)
(*                                                                         *)
(* Each middleware runs inside a call of RequestContext.Next made by the   *)
(* one before it.  The calls of Next in progress are the frames of the     *)
(* stack of the worker; middlewareIndex should say how many they are.      *)
(***************************************************************************)
EXTENDS Integers, Sequences

CONSTANTS
  Workers,     \* connections served at the same time
  Contexts,    \* RequestContext objects
  NumSrv,      \* number of middlewares registered with Use
  Routes,      \* routes of the router
  MwOf,        \* number of middlewares of each route
  FileRoutes,  \* the routes registered by ServeFiles
  Recovering,  \* the middlewares of Use that are middleware.NewPanic
  None         \* no context, no route

ASSUME PipelineAssumption ==
  /\ NumSrv \in Nat
  /\ MwOf \in [Routes -> Nat]
  /\ FileRoutes \subseteq Routes
  /\ Recovering \subseteq 1..NumSrv
  /\ None \notin Contexts \cup Routes

VARIABLES
  pool,    \* the contexts in the sync.Pool
  ctx,     \* the fields of each RequestContext
  req,     \* the context of the request each worker serves
  route,   \* the route the router has found for that request, if any
  status,  \* the response's status: "ok" is 200
  phase,   \* where the worker is
  stack,   \* the calls of Next in progress, innermost last
  err,     \* whether the last call of Next returned an error
  missed,  \* ServeFiles: "yes" once the file is not found, then "handled"
  spoiled  \* history: the contexts in which NewPanic has recovered a panic

perWorker == <<req, route, status, phase, stack, err, missed>>
vars == <<pool, ctx, spoiled, perWorker>>

\* The fields of RequestContext: the slices are known by their length, nil
\* being 0, and handler by what it serves.
Zero == [middlewareIndex |-> 0, srvMiddlewares |-> 0, srvMiddlewaresLen |-> 0,
         middlewares |-> 0, middlewaresLen |-> 0, handler |-> "nil",
         userCtx |-> FALSE]

Frame(kind, pos) == [kind |-> kind, pos |-> pos]

Top(w)      == stack[w][Len(stack[w])]

\* The handler of a file route is ServeFiles', some middlewares are NewPanic;
\* every other middleware and handler is code of the application.
Recovers(f)   == f.kind = "srv" /\ f.pos \in Recovering
FileServer(w) == /\ phase[w] = "running"
                 /\ Top(w).kind = "handler"
                 /\ route[w] \in FileRoutes
UserCode(w)   == /\ phase[w] = "running"
                 /\ Top(w).kind # "router"
                 /\ ~Recovers(Top(w))
                 /\ ~FileServer(w)
Active(w)   == phase[w] \notin {"idle", "crashed"}

Init == /\ pool = {}
        /\ ctx = [c \in Contexts |-> Zero]
        /\ req = [w \in Workers |-> None]
        /\ route = [w \in Workers |-> None]
        /\ status = [w \in Workers |-> "ok"]
        /\ phase = [w \in Workers |-> "idle"]
        /\ stack = [w \in Workers |-> << >>]
        /\ err = [w \in Workers |-> FALSE]
        /\ missed = [w \in Workers |-> "no"]
        /\ spoiled = {}

-----------------------------------------------------------------------------
(* createMainHandler and the pool.                                         *)

\* newRequestContext: an object of the pool, as it was put there, or a new
\* one; then the handler calls Next.
BeginRequest(w, c) ==
  /\ phase[w] = "idle"
  /\ \A v \in Workers : req[v] # c
  /\ pool' = pool \ {c}
  /\ ctx' = [ctx EXCEPT ![c] = [IF c \in pool THEN @ ELSE Zero EXCEPT
                                  !.srvMiddlewares = NumSrv,
                                  !.srvMiddlewaresLen = NumSrv]]
  /\ req' = [req EXCEPT ![w] = c]
  /\ route' = [route EXCEPT ![w] = None]
  /\ status' = [status EXCEPT ![w] = "ok"]
  /\ missed' = [missed EXCEPT ![w] = "no"]
  /\ phase' = [phase EXCEPT ![w] = "calling"]
  /\ UNCHANGED <<stack, err, spoiled>>

\* Next has returned an error to the main handler.
RequestErrorHandler(w) ==
  /\ phase[w] = "failed"
  /\ status' = [status EXCEPT ![w] = "other"]
  /\ phase' = [phase EXCEPT ![w] = "finished"]
  /\ UNCHANGED <<pool, ctx, req, route, stack, err, missed, spoiled>>

\* Mutant: the deferred function forgets the user's context.
FreeRequestKeepsUserCtx(w) ==
  /\ phase[w] = "finished"
  /\ ctx' = [ctx EXCEPT ![req[w]] = [@ EXCEPT !.handler = "nil",
                            !.srvMiddlewares = 0, !.middlewares = 0]]
  /\ pool' = pool \cup {req[w]}
  /\ req' = [req EXCEPT ![w] = None]
  /\ phase' = [phase EXCEPT ![w] = "idle"]
  /\ err' = [err EXCEPT ![w] = FALSE]
  /\ UNCHANGED <<route, status, stack, missed, spoiled>>

\* Mutant: the context goes back to the pool before the RequestErrorHandler
\* has run.
FreeRequestEarly(w) ==
  /\ phase[w] \in {"failed", "finished"}
  /\ req[w] \notin pool
  /\ pool' = pool \cup {req[w]}
  /\ IF phase[w] = "finished"
       THEN /\ req' = [req EXCEPT ![w] = None]
            /\ phase' = [phase EXCEPT ![w] = "idle"]
       ELSE UNCHANGED <<req, phase>>
  /\ UNCHANGED <<ctx, err, route, status, stack, missed, spoiled>>

\* The deferred function: middlewareIndex and the two lengths are left as
\* they are (their resets are comments in the source).
FreeRequest(w) ==
  /\ phase[w] = "finished"
  /\ ctx' = [ctx EXCEPT ![req[w]] = [@ EXCEPT !.userCtx = FALSE, !.handler = "nil",
                            !.srvMiddlewares = 0, !.middlewares = 0]]
  /\ pool' = pool \cup {req[w]}
  /\ req' = [req EXCEPT ![w] = None]
  /\ phase' = [phase EXCEPT ![w] = "idle"]
  /\ err' = [err EXCEPT ![w] = FALSE]
  /\ UNCHANGED <<route, status, stack, missed, spoiled>>

-----------------------------------------------------------------------------
(* RequestContext.Next: one action for each branch, for the return, and    *)
(* for a panic below it.                                                   *)

Index(w)  == ctx[req[w]].middlewareIndex + 1
SrvLen(w) == ctx[req[w]].srvMiddlewaresLen
MwLen(w)  == ctx[req[w]].middlewaresLen

Push(w, frame) ==
  /\ stack' = [stack EXCEPT ![w] = Append(@, frame)]
  /\ phase' = [phase EXCEPT ![w] = IF Recovers(frame) THEN "calling" ELSE "running"]

\* fasthttp recovers nothing: the process ends.
Crash == /\ phase' = [v \in Workers |-> "crashed"]
         /\ UNCHANGED <<stack, err, spoiled>>

\* A panic unwinds the calls of Next without their decrements, down to the
\* innermost NewPanic, which returns an error or what its PanicErrorHandler
\* makes of it.
Unwind(w) ==
  LET depths == {d \in 1..Len(stack[w]) : Recovers(stack[w][d])}
  IN  \/ depths = {} /\ Crash
      \/ \E d \in depths, e \in BOOLEAN :
           /\ \A other \in depths : other <= d
           /\ stack' = [stack EXCEPT ![w] = SubSeq(@, 1, d)]
           /\ phase' = [phase EXCEPT ![w] = "running"]
           /\ err' = [err EXCEPT ![w] = e]
           /\ spoiled' = spoiled \cup {req[w]}

RunSrv(w) ==
  /\ phase[w] = "calling"
  /\ Index(w) <= SrvLen(w)
  /\ ctx' = [ctx EXCEPT ![req[w]].middlewareIndex = Index(w)]
  /\ Push(w, Frame("srv", Index(w)))
  /\ UNCHANGED <<pool, req, route, status, err, missed, spoiled>>

\* Mutant: the length of the route's middlewares is set only if it has any.
SetHandlerParamsKeepsLen(c, h, n) ==
  ctx' = [ctx EXCEPT ![c] =
            [@ EXCEPT !.middlewareIndex = ctx[c].middlewareIndex + 1, !.handler = h,
                      !.middlewares = n, !.middlewaresLen = IF n > 0 THEN n ELSE @]]

\* The router calls the endpoint handler, hence setHandlerParams.
SetHandlerParams(c, h, n) ==
  ctx' = [ctx EXCEPT ![c] =
            [@ EXCEPT !.middlewareIndex = ctx[c].middlewareIndex + 1, !.handler = h,
                      !.middlewares = n, !.middlewaresLen = n]]

\* The router runs.  It may find another route when a middleware calls Next
\* again, for a middleware may rewrite the path before.  errNotHandled is
\* what Next would return if it went no further.
EnterRouter(w, r, st, next, errNotHandled) ==
  /\ phase[w] = "calling"
  /\ Index(w) = SrvLen(w) + 1
  /\ route' = [route EXCEPT ![w] = r]
  /\ status' = [status EXCEPT ![w] = st]
  /\ stack' = [stack EXCEPT ![w] = Append(@, Frame("router", 0))]
  /\ phase' = [phase EXCEPT ![w] = IF next /\ st = "ok" THEN "calling" ELSE "running"]
  /\ err' = [err EXCEPT ![w] = errNotHandled /\ st = "ok"]
  /\ UNCHANGED <<pool, req, missed, spoiled>>

\* A route matches: Next goes on, unless a response exists already.
RunRouterMatch(w, r) ==
  /\ EnterRouter(w, r, status[w], TRUE, FALSE)
  /\ SetHandlerParams(req[w], "route", MwOf[r])

\* A route registered with a nil handler: errPathNotHanlded.
RunRouterNil(w) ==
  /\ EnterRouter(w, None, status[w], FALSE, TRUE)
  /\ SetHandlerParams(req[w], "nil", 0)

\* The router answers itself: not found, method not allowed, a redirection.
RunRouterAnswer(w) ==
  /\ EnterRouter(w, None, "other", FALSE, FALSE)
  /\ ctx' = [ctx EXCEPT ![req[w]].middlewareIndex = @ + 1]

\* middlewares[middlewareIndex-srvMiddlewaresLen-2], out of range if the
\* length is not that of the slice.
RunMw(w) ==
  LET pos == Index(w) - SrvLen(w) - 1
  IN  /\ phase[w] = "calling"
      /\ pos \in 1..MwLen(w)
      /\ ctx' = [ctx EXCEPT ![req[w]].middlewareIndex = Index(w)]
      /\ IF pos <= ctx[req[w]].middlewares
           THEN Push(w, Frame("mw", pos)) /\ UNCHANGED <<err, spoiled>>
           ELSE Unwind(w)
      /\ UNCHANGED <<pool, req, route, status, missed>>

\* The handler, a nil function if the router has not set it.
RunHandler(w) ==
  /\ phase[w] = "calling"
  /\ Index(w) = SrvLen(w) + 2 + MwLen(w)
  /\ ctx' = [ctx EXCEPT ![req[w]].middlewareIndex = Index(w)]
  /\ IF ctx[req[w]].handler # "nil"
       THEN Push(w, Frame("handler", 0)) /\ UNCHANGED <<err, spoiled>>
       ELSE Unwind(w)
  /\ missed' = [missed EXCEPT ![w] =
                  IF ctx[req[w]].handler = "notFound" THEN "handled" ELSE @]
  /\ UNCHANGED <<pool, req, route, status>>

\* errInvalidCallToNext: the index is incremented and decremented.
InvalidNext(w) ==
  /\ phase[w] = "calling"
  /\ Index(w) > SrvLen(w) + 2 + MwLen(w)
  /\ IF stack[w] = << >>
       THEN phase' = [phase EXCEPT ![w] = "failed"]
       ELSE phase' = [phase EXCEPT ![w] = "running"]
  /\ err' = [err EXCEPT ![w] = TRUE]
  /\ UNCHANGED <<pool, ctx, req, route, status, stack, missed, spoiled>>

\* Mutant: an early return skips the decrement when there is an error.
NextReturnsEarly(w, e) ==
  /\ phase[w] = "running"
  /\ Top(w).kind = "router" \/ Recovers(Top(w)) => e = err[w]
  /\ FileServer(w) => ~e
  /\ ctx' = [ctx EXCEPT ![req[w]].middlewareIndex = IF e THEN @ ELSE @ - 1]
  /\ stack' = [stack EXCEPT ![w] = SubSeq(@, 1, Len(@) - 1)]
  /\ err' = [err EXCEPT ![w] = e]
  /\ phase' = [phase EXCEPT ![w] = IF Len(stack[w]) > 1 THEN "running"
                                   ELSE IF e THEN "failed" ELSE "finished"]
  /\ UNCHANGED <<pool, req, route, status, missed, spoiled>>

\* Mutant: the index is decremented on the way out and again by a defer.
NextReturnsTwice(w, e) ==
  /\ phase[w] = "running"
  /\ ctx' = [ctx EXCEPT ![req[w]].middlewareIndex = @ - 2]
  /\ stack' = [stack EXCEPT ![w] = SubSeq(@, 1, Len(@) - 1)]
  /\ err' = [err EXCEPT ![w] = e]
  /\ phase' = [phase EXCEPT ![w] = IF Len(stack[w]) > 1 THEN "running" ELSE "finished"]
  /\ UNCHANGED <<pool, req, route, status, missed, spoiled>>

\* The innermost call of Next ends.  A middleware or handler returns what it
\* likes, the branch of the router and NewPanic what the inner call returned,
\* the file server nil.
NextReturns(w, e) ==
  /\ phase[w] = "running"
  /\ Top(w).kind = "router" \/ Recovers(Top(w)) => e = err[w]
  /\ FileServer(w) => ~e
  /\ ctx' = [ctx EXCEPT ![req[w]].middlewareIndex = @ - 1]
  /\ stack' = [stack EXCEPT ![w] = SubSeq(@, 1, Len(@) - 1)]
  /\ err' = [err EXCEPT ![w] = e]
  /\ phase' = [phase EXCEPT ![w] = IF Len(stack[w]) > 1 THEN "running"
                                   ELSE IF e THEN "failed" ELSE "finished"]
  /\ UNCHANGED <<pool, req, route, status, missed, spoiled>>

\* NewPanic panics again with http.ErrAbortHandler, whatever its place.
Panic(w) ==
  /\ UserCode(w)
  /\ Unwind(w) \/ Crash
  /\ UNCHANGED <<pool, ctx, req, route, status, missed>>

-----------------------------------------------------------------------------
(* What middlewares and handlers do besides: they call Next, any number of *)
(* times, set the status of the response and the user's context.           *)

CallNext(w) ==
  /\ UserCode(w)
  /\ phase' = [phase EXCEPT ![w] = "calling"]
  /\ UNCHANGED <<pool, ctx, req, route, status, stack, err, missed, spoiled>>

SetStatus(w, s) ==
  /\ UserCode(w)
  /\ status' = [status EXCEPT ![w] = s]
  /\ UNCHANGED <<pool, ctx, req, route, phase, stack, err, missed, spoiled>>

SetUserContext(w) ==
  /\ UserCode(w)
  /\ ctx' = [ctx EXCEPT ![req[w]].userCtx = TRUE]
  /\ UNCHANGED <<pool, req, route, status, phase, stack, err, missed, spoiled>>

\* The handler of ServeFiles finds no file: fasthttp answers 404 and calls
\* PathNotFound, an endpoint handler, which only stores the custom handler.
FileNotFound(w) ==
  /\ FileServer(w)
  /\ missed[w] = "no"
  /\ status' = [status EXCEPT ![w] = "other"]
  /\ ctx' = [ctx EXCEPT ![req[w]] = [@ EXCEPT !.handler = "notFound",
                            !.middlewares = 0, !.middlewaresLen = 0]]
  /\ missed' = [missed EXCEPT ![w] = "yes"]
  /\ UNCHANGED <<pool, req, route, phase, stack, err, spoiled>>

-----------------------------------------------------------------------------
\* The process has ended: nothing more happens.
Crashed ==
  /\ \A w \in Workers : phase[w] = "crashed"
  /\ UNCHANGED vars

Next ==
  \/ \E w \in Workers :
       \/ \E c \in Contexts : BeginRequest(w, c)
       \/ RequestErrorHandler(w) \/ FreeRequest(w)
       \/ RunSrv(w) \/ RunRouterNil(w) \/ RunRouterAnswer(w)
       \/ \E r \in Routes : RunRouterMatch(w, r)
       \/ RunMw(w) \/ RunHandler(w) \/ InvalidNext(w)
       \/ \E e \in BOOLEAN : NextReturns(w, e)
       \/ CallNext(w) \/ SetUserContext(w) \/ FileNotFound(w) \/ Panic(w)
       \/ \E s \in {"ok", "other"} : SetStatus(w, s)
  \/ Crashed

Spec == Init /\ [][Next]_vars

-----------------------------------------------------------------------------
Frames == [kind : {"srv", "router", "mw", "handler"}, pos : Nat]

RequestContexts ==
  [middlewareIndex : Nat, srvMiddlewares : Nat, srvMiddlewaresLen : Nat,
   middlewares : Nat, middlewaresLen : Nat,
   handler : {"nil", "route", "notFound"}, userCtx : BOOLEAN]

TypeOK ==
  /\ pool \subseteq Contexts
  /\ ctx \in [Contexts -> RequestContexts]
  /\ req \in [Workers -> Contexts \cup {None}]
  /\ route \in [Workers -> Routes \cup {None}]
  /\ status \in [Workers -> {"ok", "other"}]
  /\ phase \in [Workers -> {"idle", "calling", "running", "failed", "finished", "crashed"}]
  /\ stack \in [Workers -> Seq(Frames)]
  /\ err \in [Workers -> BOOLEAN]
  /\ missed \in [Workers -> {"no", "yes", "handled"}]
  /\ spoiled \subseteq Contexts

\* A RequestContext is used by one request at a time, and by none while it
\* is in the pool, the RequestErrorHandler included (request_pool.go).
ExclusiveUse ==
  \A w \in Workers : Active(w) =>
    /\ req[w] \in Contexts \ pool
    /\ \A v \in Workers : req[v] = req[w] => v = w

\* The d-th call of Next of a request runs the d-th of: the middlewares of
\* the server, the router, the middlewares of the route, the handler.
Expected(r, d) ==
  IF d <= NumSrv THEN Frame("srv", d)
  ELSE IF d = NumSrv + 1 THEN Frame("router", 0)
  ELSE IF d <= NumSrv + 1 + MwOf[r] THEN Frame("mw", d - NumSrv - 1)
  ELSE Frame("handler", 0)

ChainInOrder(w) ==
  /\ \A d \in 1..Len(stack[w]) : stack[w][d] = Expected(route[w], d)
  /\ Len(stack[w]) <= NumSrv + 1 + (IF route[w] = None THEN 0 ELSE MwOf[route[w]] + 1)

\* "Use adds a middleware that will be executed as part of the request
\* handler": nothing is skipped, repeated or run out of order, however often
\* the middlewares call Next, whatever the context served before and whatever
\* panics other requests recover from; a panic that NewPanic recovers spoils
\* the context it happens in, and no other.
InOrder == \A w \in Workers : req[w] \notin spoiled => ChainInOrder(w)

\* The same for every request, as the comment has it.
AlwaysInOrder == \A w \in Workers : ChainInOrder(w)

\* Next never indexes a slice out of its range nor calls a nil handler: the
\* lengths it compares with are those of the slices of this request, never
\* those a pooled context kept from another one.
NextFindsTarget ==
  \A w \in Workers : phase[w] = "calling" /\ req[w] \notin spoiled =>
    LET c == ctx[req[w]]
    IN  /\ SrvLen(w) = c.srvMiddlewares
        /\ Index(w) > SrvLen(w) + 1 => MwLen(w) = c.middlewares /\ c.handler # "nil"

\* A context in the pool carries nothing of the request it served into the
\* next one: neither a position in the chain (unless a panic has spoiled it),
\* nor a handler, nor the user's context.
PooledClean ==
  \A c \in pool : /\ c \notin spoiled => ctx[c].middlewareIndex = 0
                  /\ ctx[c].handler = "nil"
                  /\ ~ctx[c].userCtx

\* "Custom file not found handler" (ServerFilesOptions): a request for a file
\* that does not exist does not end before that handler has run.
NotFoundHandlerRuns ==
  \A w \in Workers : phase[w] = "finished" => missed[w] # "yes"

=============================================================================
