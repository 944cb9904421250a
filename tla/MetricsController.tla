------------------------- MODULE MetricsController -------------------------
(***************************************************************************)
(* The life of a metrics Controller: its creation, Start and Stop, and the *)
(* health, metrics and profile requests that run callbacks of the          *)
(* application (metrics/).  The server of the controller is a WebServer,   *)
(* one of its own or one it shares with the application.                   *)
(*                                                                         *)
(* Stop first closes the rundown protection rp and waits for the requests  *)
(* that hold it.  Only then are the fields set to nil that these requests  *)
(* read.                                                                   *)
(***************************************************************************)
EXTENDS Integers, FiniteSets, FlameGraph

CONSTANTS
  Callers, Workers, Loop,  \* as in WebServer
  Users,        \* the processes that call the controller
  Collectors,   \* metrics the application may register, with their callbacks
  MaxInFlight,  \* simultaneous metrics requests (5 in the code)
  Profiles      \* what pprof may gather

ASSUME ControllerAssumption ==
  /\ Callers \cap Workers = {} /\ Loop \notin Callers \cup Workers
  /\ Users \subseteq Callers \cup {Loop}
  /\ MaxInFlight \in Nat
  /\ Profiles \subseteq Seq(Samples)

VARIABLES
  state, signal, ch, pc, serve, listener, shutdown,  \* of the WebServer
  created,      \* CreateController: "no", "yes", or "failed"
  internal,     \* Controller.usingInternalServer
  hasServer,    \* whether Controller.server is set, not nil
  hasRegistry,  \* ... Controller.registry
  hasCallback,  \* ... Controller.healthCallback
  closed,       \* whether rp.Wait has been called
  holders,      \* the requests that have acquired rp
  routes,       \* the routes of the controller on the server
  collectors,   \* what is registered
  at,           \* where each process is in the code of the controller
  what,         \* the route of the request each worker serves
  todo,         \* the metrics a metrics request has still to collect
  profiler,     \* the request runtime/pprof gathers a CPU profile for
  sampled,      \* the profile that a request turns into a flame graph
  over          \* history: Stop has returned, or has run in CreateController

Srv == INSTANCE WebServer

server  == <<state, signal, ch, pc, serve, listener, shutdown>>
fields  == <<created, internal, hasServer, hasRegistry, hasCallback, routes>>
request == <<holders, what, todo, profiler, sampled>>
vars    == <<server, fields, request, closed, collectors, at, over>>

Proc   == Callers \cup Workers \cup {Loop}
Routes == {"health", "metrics", "profiles"}

Goto(p, label) == at' = [at EXCEPT ![p] = label]

\* A user of the controller that is in none of its calls, nor in one of the
\* server: for Loop this is inside the ListenErrorHandler.
Free(p) == p \in Users /\ at[p] = "out" /\ pc[p] = Srv!Home(p)

\* A nil pointer is used outside of a request, or a panic is not recovered: the
\* process ends.
Crash == /\ at' = [p \in Proc |-> "crashed"]
         /\ UNCHANGED <<server, fields, request, closed, collectors, over>>

Init == /\ Srv!Init
        /\ created = "no"
        /\ internal \in BOOLEAN
        /\ hasServer = FALSE /\ hasRegistry = FALSE /\ hasCallback = FALSE
        /\ closed = FALSE
        /\ holders = {}
        /\ routes = {}
        /\ collectors = {}
        /\ at = [p \in Proc |-> "out"]
        /\ what = [w \in Workers |-> "health"]
        /\ todo = [w \in Workers |-> {}]
        /\ profiler = {}
        /\ sampled = [w \in Workers |-> {}]
        /\ over = FALSE

-----------------------------------------------------------------------------
(* CreateController.  Nobody has the controller before it returns, so it   *)
(* is one step; the server has not been started.                           *)

\* Every option is good: debug profiles may be enabled.
Create(p) ==
  /\ Free(p) /\ created = "no" /\ state = Srv!NotStarted
  /\ created' = "yes"
  /\ hasServer' = TRUE /\ hasRegistry' = TRUE /\ hasCallback' = TRUE
  /\ routes' \in {{"health", "metrics"}, Routes}
  /\ UNCHANGED <<server, internal, request, closed, collectors, at, over>>

\* An error on the way, after the routes before it were added: Stop is
\* called, which finds no request and a server that is nil or not started.
CreateFails(p) ==
  /\ Free(p) /\ created = "no" /\ state = Srv!NotStarted
  /\ created' = "failed"
  /\ closed' = TRUE
  /\ routes' \in {{}, {"health"}, {"health", "metrics"}}
  /\ over' = TRUE
  /\ UNCHANGED <<server, internal, hasServer, hasRegistry, hasCallback,
                 request, collectors, at>>

-----------------------------------------------------------------------------
(* Start.                                                                  *)

\* The two checks; a Start that fails them returns an error.
Start(p) ==
  /\ Free(p) /\ created = "yes"
  /\ hasServer /\ internal
  /\ Goto(p, "start")
  /\ UNCHANGED <<server, fields, request, closed, collectors, over>>

\* mws.server.Start(): the pointer is read again.
StartServer(p) ==
  /\ at[p] = "start"
  /\ \/ /\ ~hasServer
        /\ Crash
     \/ /\ hasServer
        /\ \/ Srv!StartCas(p) /\ Goto(p, "starting")
           \/ state # Srv!NotStarted /\ UNCHANGED server /\ Goto(p, "out")
        /\ UNCHANGED <<fields, request, closed, collectors, over>>

StartReturns(p) ==
  /\ at[p] = "starting" /\ pc[p] = Srv!Home(p)
  /\ Goto(p, "out")
  /\ UNCHANGED <<server, fields, request, closed, collectors, over>>

-----------------------------------------------------------------------------
(* Stop.                                                                   *)

\* Mutant: the callback is removed first.
StopClearsFirst(p) ==
  /\ Free(p) /\ created = "yes"
  /\ closed' = TRUE /\ hasCallback' = FALSE
  /\ Goto(p, "waiting")
  /\ UNCHANGED <<server, created, internal, hasServer, hasRegistry, routes,
                 request, collectors, over>>

\* Mutant: the server is stopped before the wait.
StopServerFirst(p) ==
  /\ Free(p) /\ created = "yes"
  /\ closed' = TRUE
  /\ Goto(p, "check")
  /\ UNCHANGED <<server, fields, request, collectors, over>>

\* rp.Wait refuses every later Acquire ...
Stop(p) ==
  /\ Free(p) /\ created = "yes"
  /\ closed' = TRUE
  /\ Goto(p, "waiting")
  /\ UNCHANGED <<server, fields, request, collectors, over>>

\* ... and returns when nobody holds rp.
Waited(p) ==
  /\ at[p] = "waiting"
  /\ holders = {}
  /\ Goto(p, "check")
  /\ UNCHANGED <<server, fields, request, closed, collectors, over>>

\* Mutant: a server of its own is left as it is.
CheckServerShared(p) ==
  /\ at[p] = "check"
  /\ Goto(p, IF hasServer THEN "clearServer" ELSE "clear")
  /\ UNCHANGED <<server, fields, request, closed, collectors, over>>

CheckServer(p) ==
  /\ at[p] = "check"
  /\ Goto(p, CASE ~hasServer -> "clear"
               [] hasServer /\ internal -> "stopServer"
               [] OTHER -> "clearServer")
  /\ UNCHANGED <<server, fields, request, closed, collectors, over>>

\* mws.server.Stop(): the pointer is read again.  A Stop that loses its
\* CompareAndSwap returns at once.
StopServer(p) ==
  /\ at[p] = "stopServer"
  /\ \/ /\ ~hasServer
        /\ Crash
     \/ /\ hasServer
        /\ \/ Srv!StopCas(p) /\ Goto(p, "stopping")
           \/ state # Srv!Running /\ UNCHANGED server /\ Goto(p, "clearServer")
        /\ UNCHANGED <<fields, request, closed, collectors, over>>

ServerStopped(p) ==
  /\ at[p] = "stopping" /\ pc[p] = Srv!Home(p)
  /\ Goto(p, "clearServer")
  /\ UNCHANGED <<server, fields, request, closed, collectors, over>>

ClearServer(p) ==
  /\ at[p] = "clearServer"
  /\ hasServer' = FALSE
  /\ Goto(p, "clear")
  /\ UNCHANGED <<server, created, internal, hasRegistry, hasCallback, routes,
                 request, closed, collectors, over>>

StopReturn(p) ==
  /\ at[p] = "clear"
  /\ hasRegistry' = FALSE /\ hasCallback' = FALSE
  /\ over' = TRUE
  /\ Goto(p, "out")
  /\ UNCHANGED <<server, created, internal, hasServer, routes,
                 request, closed, collectors>>

-----------------------------------------------------------------------------
\* New...WithCallback: a metric that exists, or a vector whose items do not
\* have its labels, is an error that changes nothing.
Register(p, k) ==
  /\ Free(p) /\ created = "yes"
  /\ \/ ~hasRegistry /\ Crash
     \/ /\ hasRegistry
        /\ collectors' = collectors \cup {k}
        /\ UNCHANGED <<server, fields, request, closed, at, over>>

-----------------------------------------------------------------------------
(* A request: the middlewares of the options, the alive middleware, the    *)
(* others (CORS, authorization), the handler and the callbacks it calls.   *)

Arrive(w, r) ==
  /\ at[w] = "out" /\ r \in routes
  /\ Srv!RequestArrives(w)
  /\ what' = [what EXCEPT ![w] = r]
  /\ Goto(w, "before")
  /\ UNCHANGED <<fields, holders, todo, profiler, sampled, closed, collectors, over>>

\* Mutant: rp is released before the rest of the chain has run.
AliveReleasesEarly(w) ==
  /\ at[w] = "before"
  /\ Goto(w, IF closed THEN "answered" ELSE "inside")
  /\ UNCHANGED <<server, fields, request, closed, collectors, over>>

\* The alive middleware answers 503 once rp is closed.
Alive(w) ==
  /\ at[w] = "before"
  /\ IF closed
       THEN Goto(w, "answered") /\ UNCHANGED holders
       ELSE Goto(w, "inside") /\ holders' = holders \cup {w}
  /\ UNCHANGED <<server, fields, what, todo, profiler, sampled, closed, collectors, over>>

\* The deferred Release, on every way out of the alive middleware.
Leave(w) ==
  /\ Goto(w, "answered")
  /\ holders' = holders \ {w}

\* A middleware answers itself: one of the options', CORS, authorization.
Refuse(w) ==
  /\ at[w] \in {"before", "inside"}
  /\ Leave(w)
  /\ UNCHANGED <<server, fields, what, todo, profiler, sampled, closed, collectors, over>>

\* Mutant: without the defer a panic does not release rp.
PanicKeepsHolding(w) ==
  \/ /\ Goto(w, "answered")
     /\ UNCHANGED <<server, fields, request, closed, collectors, over>>
  \/ Crash

\* A panic: NewPanic in front of the alive middleware recovers it, or the
\* process ends.
Panic(w) ==
  \/ /\ Leave(w)
     /\ UNCHANGED <<server, fields, what, todo, profiler, sampled, closed, collectors, over>>
  \/ Crash

\* getHealthHandler calls the callback it reads from the controller.
Health(w) ==
  /\ at[w] = "inside" /\ what[w] = "health"
  /\ IF hasCallback
       THEN /\ Goto(w, "calling")
            /\ UNCHANGED <<server, fields, request, closed, collectors, over>>
       ELSE Panic(w)

\* getMetricsHandler has had the registry since the creation.
Gather(w) ==
  /\ at[w] = "inside" /\ what[w] = "metrics"
  /\ Cardinality({v \in Workers : what[v] = "metrics" /\ at[v] \in {"gathering", "calling"}})
       < MaxInFlight
  /\ todo' = [todo EXCEPT ![w] = collectors]
  /\ Goto(w, "gathering")
  /\ UNCHANGED <<server, fields, holders, what, profiler, sampled, closed, collectors, over>>

TooMany(w) ==
  /\ at[w] = "inside" /\ what[w] = "metrics"
  /\ Cardinality({v \in Workers : what[v] = "metrics" /\ at[v] \in {"gathering", "calling"}})
       >= MaxInFlight
  /\ Leave(w)
  /\ UNCHANGED <<server, fields, what, todo, profiler, sampled, closed, collectors, over>>

\* Write of a metric calls its ValueHandler; they come one after the other.
Collect(w, k) ==
  /\ at[w] = "gathering" /\ k \in todo[w]
  /\ todo' = [todo EXCEPT ![w] = @ \ {k}]
  /\ Goto(w, "calling")
  /\ UNCHANGED <<server, fields, holders, what, profiler, sampled, closed, collectors, over>>

\* The index, any other profile, and a format that is not supported.
Profile(w) ==
  /\ at[w] = "inside" /\ what[w] = "profiles"
  /\ Goto(w, "gathering")
  /\ UNCHANGED <<server, fields, request, closed, collectors, over>>

\* Mutant: a StartCPUProfile that fails stops the profile in progress.
ProfileCPUStops(w) ==
  /\ at[w] = "inside" /\ what[w] = "profiles"
  /\ profiler' = IF profiler = {} THEN {w} ELSE {}
  /\ Goto(w, IF profiler = {} THEN "profiling" ELSE "gathering")
  /\ UNCHANGED <<server, fields, holders, what, todo, sampled, closed, collectors, over>>

\* onGenerateProfile: the process has one CPU profiler, and StartCPUProfile
\* fails while it is in use.
ProfileCPU(w) ==
  /\ at[w] = "inside" /\ what[w] = "profiles"
  /\ IF profiler = {}
       THEN profiler' = {w} /\ Goto(w, "profiling")
       ELSE Goto(w, "gathering") /\ UNCHANGED profiler
  /\ UNCHANGED <<server, fields, holders, what, todo, sampled, closed, collectors, over>>

\* After its seconds, or once the server is shut down, which fails it; the
\* deferred StopCPUProfile stops whatever profile is gathered.  The profile is
\* the answer, or an error is, or as JSON a flame graph of it.
ProfileEnds(w) ==
  /\ at[w] = "profiling"
  /\ profiler' = {}
  /\ \/ Goto(w, "gathering") /\ UNCHANGED sampled
     \/ \E profile \in Profiles :
          Goto(w, "graphing") /\ sampled' = [sampled EXCEPT ![w] = {profile}]
  /\ UNCHANGED <<server, fields, holders, what, todo, closed, collectors, over>>

CallbackReturns(w) ==
  /\ at[w] = "calling"
  /\ \/ /\ what[w] = "metrics"
        /\ Goto(w, "gathering")
        /\ UNCHANGED <<server, fields, request, closed, collectors, over>>
     \/ /\ what[w] = "health"
        /\ Leave(w)
        /\ UNCHANGED <<server, fields, what, todo, profiler, sampled, closed, collectors, over>>

CallbackPanics(w) == at[w] = "calling" /\ Panic(w)

HandlerEnds(w) ==
  /\ at[w] \in {"gathering", "graphing"} /\ todo[w] = {}
  /\ Leave(w)
  /\ UNCHANGED <<server, fields, what, todo, profiler, sampled, closed, collectors, over>>

Answer(w) ==
  /\ at[w] = "answered"
  /\ Srv!RequestEnds(w)
  /\ todo' = [todo EXCEPT ![w] = {}] /\ sampled' = [sampled EXCEPT ![w] = {}]
  /\ Goto(w, "out")
  /\ UNCHANGED <<fields, holders, what, profiler, closed, collectors, over>>

-----------------------------------------------------------------------------
(* The steps of the server.  The application has a shared server at its    *)
(* own disposal, and the ListenErrorHandler returns from its calls first;  *)
(* when it runs the server is stopping, so those calls never get into      *)
(* Start or Stop of the server (HandlerStopSafe of WebServer).             *)

Apart == at[Loop] # "crashed" /\ UNCHANGED <<fields, request, closed, collectors, at, over>>

CallStep(p)  == (Srv!StartStep(p) \/ Srv!StopStep(p)) /\ Apart
ServeAccepts == Srv!ServeAccepts /\ Apart
ServeReturns == Srv!ServeReturns /\ Apart
LoopStep     == at[Loop] = "out" /\ Srv!LoopStep /\ Apart

UseServer(p) ==
  /\ ~internal /\ at[p] = "out" /\ created # "no"
  /\ Srv!StartCas(p) \/ Srv!StopCas(p)
  /\ Apart

StopStep(p)    == \/ Waited(p) \/ CheckServer(p) \/ StopServer(p)
                  \/ ServerStopped(p) \/ ClearServer(p) \/ StopReturn(p)
StartStep(p)   == StartServer(p) \/ StartReturns(p)
RequestStep(w) == \/ Alive(w) \/ Health(w) \/ Gather(w) \/ TooMany(w)
                  \/ Profile(w) \/ ProfileCPU(w) \/ ProfileEnds(w)
                  \/ \E k \in Collectors : Collect(w, k)
                  \/ CallbackReturns(w) \/ HandlerEnds(w) \/ Answer(w)

\* Nothing follows a crash, nor a creation that failed without a shared server.
Next ==
  \/ \E p \in Users :
       \/ Create(p) \/ CreateFails(p) \/ Start(p) \/ Stop(p)
       \/ StartStep(p) \/ StopStep(p)
       \/ \E k \in Collectors : Register(p, k)
  \/ \E w \in Workers :
       \/ \E r \in Routes : Arrive(w, r)
       \/ Refuse(w) \/ RequestStep(w) \/ CallbackPanics(w)
  \/ \E p \in Callers : CallStep(p) \/ UseServer(p)
  \/ ServeAccepts \/ ServeReturns \/ LoopStep

(***************************************************************************)
(* The goroutines run, callbacks and middlewares return, and do not call   *)
(* Stop: it would wait for them.  The ListenErrorHandler returns, so that  *)
(* it calls the controller a finite number of times: SF of LoopStep.       *)
(***************************************************************************)
Fairness ==
  /\ \A p \in Users : WF_vars(StartStep(p)) /\ WF_vars(StopStep(p))
  /\ \A w \in Workers : WF_vars(RequestStep(w))
  /\ \A p \in Callers : WF_vars(CallStep(p))
  /\ WF_vars(ServeAccepts)
  /\ WF_vars(listener = "closed" /\ ServeReturns)
  /\ SF_vars(LoopStep)

Spec == Init /\ [][Next]_vars /\ Fairness

-----------------------------------------------------------------------------
UserPcs    == {"start", "starting", "waiting", "check", "stopServer", "stopping",
               "clearServer", "clear"}
InsidePcs  == {"inside", "gathering", "calling", "profiling", "graphing"}

\* The types of the server's variables are those of WebServer.
TypeOK ==
  /\ created \in {"no", "yes", "failed"}
  /\ {internal, hasServer, hasRegistry, hasCallback, closed, over} \subseteq BOOLEAN
  /\ holders \subseteq Workers
  /\ routes \subseteq Routes
  /\ collectors \subseteq Collectors
  /\ at \in [Proc -> {"out", "before", "answered", "crashed"} \cup UserPcs \cup InsidePcs]
  /\ what \in [Workers -> Routes]
  /\ todo \in [Workers -> SUBSET Collectors]
  /\ profiler \subseteq Workers /\ \A v, w \in profiler : v = w
  /\ sampled \in [Workers -> SUBSET Profiles]

\* Once a Stop has returned, or CreateController has failed, no callback of
\* the application runs any more, and none starts, on whatever server and
\* although routes of the controller may still be there: the application can
\* take down what its callbacks use.
NoCallbackAfterStop ==
  over => \A w \in Workers : at[w] \notin InsidePcs

\* The health handler never finds a nil callback, although it reads the field
\* without a lock while Stop clears it.
CallbackIsSet ==
  \A w \in Workers : at[w] = "inside" => hasCallback

\* "Stop destroys the monitor and stops the internal web server": when it has
\* returned, that server neither runs nor is about to.
StopStopsServer ==
  over /\ internal => state \notin {Srv!Starting, Srv!Running}

\* A profile that is gathered is stopped by its own request, and by no other:
\* a request that finds the profiler in use leaves it alone, and none goes
\* without stopping it.
ProfilerOwned ==
  at[Loop] # "crashed" => profiler = {w \in Workers : at[w] = "profiling"}

\* Stop never cuts a request of the controller's own server short by Done,
\* which ends a CPU profile with an error, or by the timeout of the shutdown:
\* that server begins to shut down only when all those that passed the alive
\* middleware have gone.
ShutdownCutsNothing ==
  internal /\ shutdown \in {"draining", "drained", "expired"} =>
    \A w \in Workers : at[w] \notin InsidePcs

\* The flame graph that is served gives every call and every nanosecond of the
\* profile its place: the time of a function is that of all samples below it,
\* and one that is called from two is two nodes.
FlameGraphExact ==
  \A w \in Workers : at[w] = "graphing" =>
    \A profile \in sampled[w] : CreateFlameGraph(profile) = GraphOf(profile)

\* Every Stop returns, also with requests in flight that panic or gather a
\* profile, and whichever way the server ends.
StopCompletes ==
  \A p \in Users : at[p] = "waiting" ~> at[p] \in {"out", "crashed"}

=============================================================================
