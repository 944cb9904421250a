---------------------- MODULE MetricsControllerProofs ----------------------
(***************************************************************************)
(* Proofs about MetricsController, for any number of goroutines that start *)
(* and stop it at once, of requests and of metrics, on any server.         *)
(*                                                                         *)
(* The argument is that of the rundown protection: whoever is past rp.Wait *)
(* has seen that nobody holds rp, and nobody acquires it once it is        *)
(* closed; a request is past the alive middleware only while it holds rp.  *)
(* What the controller needs to know of its server is proved in            *)
(* WebServerProofs: each step of the controller is a step of the server,   *)
(* or none.                                                                *)
(***************************************************************************)
EXTENDS MetricsController, FoldProofs

AfterWait == {"check", "stopServer", "stopping", "clearServer", "clear"}

\* A request that may run a callback holds rp.
HoldersOK == \A w \in Workers : at[w] \in InsidePcs => w \in holders

\* Past the beginning of a Stop rp is closed, past its wait nobody holds it.
StopOK ==
  /\ over => closed /\ holders = {}
  /\ \A p \in Users : at[p] \in AfterWait \cup {"waiting"} => closed
  /\ \A p \in Users : at[p] \in AfterWait => holders = {}

\* Before the creation there are no requests, after it the callback is set
\* until a Stop has returned.
CreatedOK ==
  /\ created = "no" => holders = {} /\ routes = {} /\ \A w \in Workers : at[w] \notin {"before"} \cup InsidePcs
  /\ created = "failed" => over
  /\ created = "yes" => hasCallback \/ over

IInv == TypeOK /\ HoldersOK /\ StopOK /\ CreatedOK

-----------------------------------------------------------------------------
\* Users are no requests.
LEMMA UsersApart == Users \cap Workers = {} /\ Users \subseteq Proc /\ Workers \subseteq Proc
BY ControllerAssumption DEF Proc

LEMMA InitOK == Init => IInv
<1> SUFFICES ASSUME Init PROVE IInv
    OBVIOUS
<1>1. TypeOK
  <2>1. {internal, hasServer, hasRegistry, hasCallback, closed, over} \subseteq BOOLEAN
      BY DEF Init
  <2>2. /\ at \in [Proc -> {"out", "before", "answered", "crashed"} \cup UserPcs \cup InsidePcs]
        /\ what \in [Workers -> Routes]
        /\ todo \in [Workers -> SUBSET Collectors]
      BY DEF Init, Routes
  <2> QED BY <2>1, <2>2 DEF Init, TypeOK
<1>2. HoldersOK /\ StopOK /\ CreatedOK
    BY UsersApart DEF Init, HoldersOK, StopOK, CreatedOK, AfterWait, InsidePcs
<1> QED BY <1>1, <1>2 DEF IInv

\* A step that changes nothing but the server, where a process is, and
\* perhaps rp and the fields, in the way every step may.
LEMMA CrashOK ==
  ASSUME IInv, Crash
  PROVE  IInv'
BY UsersApart
   DEF Crash, IInv, TypeOK, HoldersOK, StopOK, CreatedOK, AfterWait, UserPcs, InsidePcs,
       fields, request

\* The steps of the server and of the process that is idle.
LEMMA ApartOK ==
  ASSUME IInv, UNCHANGED <<fields, request, closed, collectors, at, over>>
  PROVE  IInv'
BY DEF IInv, TypeOK, HoldersOK, StopOK, CreatedOK, fields, request

\* A user goes from one step to another that it may reach.
LEMMA UserOK ==
  ASSUME IInv, NEW p \in Users, NEW label \in UserPcs \cup {"out"}, Goto(p, label),
         closed' = closed \/ closed' = TRUE,
         label \in AfterWait \cup {"waiting"} => closed',
         label \in AfterWait => holders = {},
         UNCHANGED <<fields, request, collectors, over>>
  PROVE  IInv'
<1>1. /\ at' \in [Proc -> {"out", "before", "answered", "crashed"} \cup UserPcs \cup InsidePcs]
      /\ at'[p] = label
      /\ \A q \in Proc : q # p => at'[q] = at[q]
    BY UsersApart DEF IInv, TypeOK, Goto
<1>2. /\ \A w \in Workers : at'[w] = at[w]
      /\ holders' = holders /\ over' = over /\ closed' \in BOOLEAN /\ (closed => closed')
  <2>1. \A w \in Workers : at'[w] = at[w]
      BY <1>1, UsersApart
  <2>2. holders' = holders /\ over' = over
      BY DEF request
  <2>3. closed \in BOOLEAN
      BY DEF IInv, TypeOK
  <2>4. closed' \in BOOLEAN
      BY <2>3
  <2>5. closed => closed'
      OBVIOUS
  <2> QED BY <2>1, <2>2, <2>4, <2>5
<1>3. TypeOK'
    BY <1>1, <1>2 DEF IInv, TypeOK, fields, request
<1>4. HoldersOK'
    BY <1>2 DEF IInv, HoldersOK
<1>5. StopOK'
  <2>1. over' => closed' /\ holders' = {}
      BY <1>2 DEF IInv, StopOK
  <2>2. ASSUME NEW q \in Users
        PROVE  /\ at'[q] \in AfterWait \cup {"waiting"} => closed'
               /\ at'[q] \in AfterWait => holders' = {}
    <3>1. CASE q = p
        BY <1>1, <1>2, <3>1
    <3>2. CASE q # p
        BY <1>1, <1>2, <3>2, UsersApart DEF IInv, StopOK
    <3> QED BY <3>1, <3>2
  <2> QED BY <2>1, <2>2 DEF StopOK
<1>6. CreatedOK'
    BY <1>2 DEF IInv, CreatedOK, fields
<1> QED BY <1>3, <1>4, <1>5, <1>6 DEF IInv

LEMMA CreateOK ==
  ASSUME IInv, NEW p \in Users, Create(p) \/ CreateFails(p)
  PROVE  IInv'
<1>1. /\ created = "no" /\ holders = {} /\ holders' = {} /\ at' = at
      /\ \A w \in Workers : at[w] \notin {"before"} \cup InsidePcs
    BY DEF IInv, CreatedOK, Create, CreateFails, request
<1>2. TypeOK'
    BY DEF IInv, TypeOK, Create, CreateFails, Routes, request
<1>3. HoldersOK'
    BY <1>1 DEF HoldersOK
<1>4. StopOK'
    BY <1>1 DEF IInv, StopOK, Create, CreateFails
<1>5. CreatedOK'
    BY <1>1 DEF IInv, CreatedOK, Create, CreateFails
<1> QED BY <1>2, <1>3, <1>4, <1>5 DEF IInv

LEMMA StartOK ==
  ASSUME IInv, NEW p \in Users, Start(p) \/ StartStep(p)
  PROVE  IInv'
<1>1. ASSUME Start(p) PROVE IInv'
    BY <1>1, UserOK DEF Start, UserPcs, AfterWait
<1>2. ASSUME StartServer(p) PROVE IInv'
  <2>1. CASE Crash
      BY <2>1, CrashOK
  <2>2. CASE ~Crash
      BY <1>2, <2>2, UserOK DEF StartServer, UserPcs, AfterWait
  <2> QED BY <2>1, <2>2
<1>3. ASSUME StartReturns(p) PROVE IInv'
    BY <1>3, UserOK DEF StartReturns, UserPcs, AfterWait
<1> QED BY <1>1, <1>2, <1>3 DEF StartStep

\* From the wait on, each step of Stop finds rp closed and free.
LEMMA StopOKStep ==
  ASSUME IInv, NEW p \in Users, Stop(p) \/ StopStep(p)
  PROVE  IInv'
<1>1. ASSUME Stop(p) PROVE IInv'
    BY <1>1, UserOK DEF Stop, UserPcs, AfterWait
<1>2. ASSUME Waited(p) PROVE IInv'
    BY <1>2, UserOK DEF Waited, UserPcs, AfterWait, IInv, StopOK
<1>3. ASSUME CheckServer(p) PROVE IInv'
    BY <1>3, UserOK DEF CheckServer, UserPcs, AfterWait, IInv, StopOK
<1>4. ASSUME StopServer(p) PROVE IInv'
  <2>1. CASE Crash
      BY <2>1, CrashOK
  <2>2. CASE ~Crash
      BY <1>4, <2>2, UserOK DEF StopServer, UserPcs, AfterWait, IInv, StopOK
  <2> QED BY <2>1, <2>2
<1>5. ASSUME ServerStopped(p) PROVE IInv'
    BY <1>5, UserOK DEF ServerStopped, UserPcs, AfterWait, IInv, StopOK
<1>6. ASSUME ClearServer(p) \/ StopReturn(p) PROVE IInv'
    BY <1>6, UsersApart
       DEF IInv, TypeOK, HoldersOK, StopOK, CreatedOK, AfterWait, UserPcs, InsidePcs,
           ClearServer, StopReturn, Goto, request
<1> QED BY <1>1, <1>2, <1>3, <1>4, <1>5, <1>6 DEF StopStep

LEMMA RegisterOK ==
  ASSUME IInv, NEW p \in Users, NEW k \in Collectors, Register(p, k)
  PROVE  IInv'
<1>1. CASE Crash
    BY <1>1, CrashOK
<1>2. CASE ~Crash
    BY <1>2 DEF Register, IInv, TypeOK, HoldersOK, StopOK, CreatedOK, fields, request
<1> QED BY <1>1, <1>2

-----------------------------------------------------------------------------
\* A request takes a step that lets it hold rp, go on holding it, or not
\* have it any more.
LEMMA RequestOK ==
  ASSUME IInv, NEW w \in Workers,
         NEW label \in {"out", "before", "answered"} \cup InsidePcs, Goto(w, label),
         \/ holders' = holders
         \/ holders' = holders \ {w} /\ label \notin InsidePcs
         \/ holders' = holders \cup {w} /\ ~closed,
         label \in InsidePcs => w \in holders',
         created # "no",
         what' \in [Workers -> Routes], todo' \in [Workers -> SUBSET Collectors],
         profiler' = profiler \/ profiler' \subseteq {w}, sampled' \in [Workers -> SUBSET Profiles],
         UNCHANGED <<fields, closed, collectors, over>>
  PROVE  IInv'
<1>1. /\ at' \in [Proc -> {"out", "before", "answered", "crashed"} \cup UserPcs \cup InsidePcs]
      /\ at'[w] = label
      /\ \A p \in Proc : p # w => at'[p] = at[p]
      /\ holders' \subseteq Workers
    BY UsersApart DEF IInv, TypeOK, Goto
<1>2. TypeOK'
    BY <1>1 DEF IInv, TypeOK, fields
<1>3. HoldersOK'
    BY <1>1, UsersApart DEF IInv, HoldersOK
<1>4. StopOK'
  <2>1. \A p \in Users : at'[p] = at[p]
      BY <1>1, UsersApart
  <2> QED BY <2>1 DEF IInv, StopOK
<1>5. CreatedOK'
    BY DEF IInv, CreatedOK, fields
<1> QED BY <1>2, <1>3, <1>4, <1>5 DEF IInv

\* A request exists only once the controller does.
LEMMA InRequest ==
  ASSUME IInv, NEW w \in Workers
  PROVE  /\ at[w] \in InsidePcs => w \in holders
         /\ at[w] \in {"before"} \cup InsidePcs => created # "no"
         /\ what \in [Workers -> Routes] /\ todo \in [Workers -> SUBSET Collectors]
         /\ sampled \in [Workers -> SUBSET Profiles]
BY DEF IInv, TypeOK, HoldersOK, CreatedOK

LEMMA LeaveOK ==
  ASSUME IInv, NEW w \in Workers, at[w] \in {"before"} \cup InsidePcs, Leave(w),
         UNCHANGED <<fields, what, todo, profiler, sampled, closed, collectors, over>>
  PROVE  IInv'
BY InRequest, RequestOK DEF Leave, InsidePcs

LEMMA PanicOK ==
  ASSUME IInv, NEW w \in Workers, at[w] \in InsidePcs, Panic(w)
  PROVE  IInv'
BY CrashOK, LeaveOK DEF Panic

LEMMA RequestStepOK ==
  ASSUME IInv, NEW w \in Workers, RequestStep(w)
  PROVE  IInv'
<1> USE DEF InsidePcs
<1>1. ASSUME Alive(w) PROVE IInv'
  <2>1. CASE closed
      BY <1>1, <2>1, InRequest, RequestOK DEF Alive
  <2>2. CASE ~closed
      BY <1>1, <2>2, InRequest, RequestOK DEF Alive
  <2> QED BY <2>1, <2>2
<1>2. ASSUME Health(w) PROVE IInv'
  <2>1. CASE hasCallback
      BY <1>2, <2>1, InRequest, RequestOK DEF Health, request
  <2>2. CASE ~hasCallback
      BY <1>2, <2>2, PanicOK DEF Health
  <2> QED BY <2>1, <2>2
<1>3. ASSUME Gather(w) PROVE IInv'
  <2>1. todo' \in [Workers -> SUBSET Collectors]
      BY <1>3 DEF Gather, IInv, TypeOK
  <2>2. at[w] = "inside" /\ Goto(w, "gathering")
        /\ UNCHANGED <<fields, holders, what, profiler, sampled, closed, collectors, over>>
      BY <1>3 DEF Gather
  <2> QED BY <2>1, <2>2, InRequest, RequestOK
<1>4. ASSUME TooMany(w) PROVE IInv'
    BY <1>4, LeaveOK DEF TooMany
<1>5. ASSUME Profile(w) PROVE IInv'
    BY <1>5, InRequest, RequestOK DEF Profile, request
<1>10. ASSUME ProfileCPU(w) \/ ProfileEnds(w) PROVE IInv'
  <2>1. PICK label \in {"profiling", "gathering", "graphing"} : Goto(w, label)
      BY <1>10 DEF ProfileCPU, ProfileEnds
  <2>2. /\ at[w] \in InsidePcs
        /\ profiler' = profiler \/ profiler' \subseteq {w}
        /\ sampled' \in [Workers -> SUBSET Profiles]
        /\ UNCHANGED <<fields, holders, what, todo, closed, collectors, over>>
      BY <1>10, InRequest DEF ProfileCPU, ProfileEnds
  <2> QED BY <2>1, <2>2, InRequest, RequestOK
<1>6. ASSUME NEW k \in Collectors, Collect(w, k) PROVE IInv'
  <2>1. todo' \in [Workers -> SUBSET Collectors]
      BY <1>6 DEF Collect, IInv, TypeOK
  <2> QED BY <1>6, <2>1, InRequest, RequestOK DEF Collect
<1>7. ASSUME CallbackReturns(w) PROVE IInv'
  <2>1. CASE Leave(w)
      BY <1>7, <2>1, LeaveOK DEF CallbackReturns, request
  <2>2. CASE ~Leave(w)
      BY <1>7, <2>2, InRequest, RequestOK DEF CallbackReturns, request
  <2> QED BY <2>1, <2>2
<1>8. ASSUME HandlerEnds(w) PROVE IInv'
    BY <1>8, LeaveOK DEF HandlerEnds
<1>9. ASSUME Answer(w) PROVE IInv'
    BY <1>9, UsersApart
       DEF Answer, IInv, TypeOK, HoldersOK, StopOK, CreatedOK, Goto, fields, AfterWait
<1> QED BY <1>1, <1>2, <1>3, <1>4, <1>5, <1>6, <1>7, <1>8, <1>9, <1>10 DEF RequestStep

\* A request that arrives has not passed the alive middleware, and comes by a
\* route that the creation has added.
LEMMA ArriveOK ==
  ASSUME IInv, NEW w \in Workers, NEW r \in Routes, Arrive(w, r)
  PROVE  IInv'
<1>1. created # "no"
    BY DEF Arrive, IInv, CreatedOK
<1>2. what' \in [Workers -> Routes]
    BY DEF Arrive, IInv, TypeOK
<1> QED BY <1>1, <1>2, InRequest, RequestOK DEF Arrive, InsidePcs

LEMMA RefuseOK ==
  ASSUME IInv, NEW w \in Workers, Refuse(w)
  PROVE  IInv'
BY LeaveOK DEF Refuse, InsidePcs

-----------------------------------------------------------------------------
\* No step breaks the invariant.
LEMMA StepOK ==
  ASSUME IInv, [Next]_vars
  PROVE  IInv'
<1>1. ASSUME NEW p \in Users, Create(p) \/ CreateFails(p) PROVE IInv'
    BY <1>1, CreateOK
<1>2. ASSUME NEW p \in Users, Start(p) \/ StartStep(p) PROVE IInv'
    BY <1>2, StartOK
<1>3. ASSUME NEW p \in Users, Stop(p) \/ StopStep(p) PROVE IInv'
    BY <1>3, StopOKStep
<1>4. ASSUME NEW p \in Users, NEW k \in Collectors, Register(p, k) PROVE IInv'
    BY <1>4, RegisterOK
<1>5. ASSUME NEW w \in Workers, NEW r \in Routes, Arrive(w, r) PROVE IInv'
    BY <1>5, ArriveOK
<1>6. ASSUME NEW w \in Workers, Refuse(w) PROVE IInv'
    BY <1>6, RefuseOK
<1>7. ASSUME NEW w \in Workers, RequestStep(w) PROVE IInv'
    BY <1>7, RequestStepOK
<1>8. ASSUME NEW w \in Workers, CallbackPanics(w) PROVE IInv'
    BY <1>8, PanicOK DEF CallbackPanics, InsidePcs
<1>9. ASSUME \/ \E p \in Callers : CallStep(p) \/ UseServer(p)
             \/ ServeAccepts \/ ServeReturns \/ LoopStep
      PROVE  IInv'
    BY <1>9, ApartOK DEF CallStep, UseServer, ServeAccepts, ServeReturns, LoopStep, Apart
<1>10. CASE UNCHANGED vars
    BY <1>10, ApartOK DEF vars
<1> QED
    BY <1>1, <1>2, <1>3, <1>4, <1>5, <1>6, <1>7, <1>8, <1>9, <1>10 DEF Next

LEMMA Invariance == Spec => []IInv
BY InitOK, StepOK, PTL DEF Spec

\* Every variable of the controller keeps its type.
THEOREM TypeCorrect == Spec => []TypeOK
<1>1. IInv => TypeOK
    BY DEF IInv
<1> QED BY <1>1, Invariance, PTL

\* Once a Stop has returned no callback runs, however many Stops there were.
THEOREM CallbackTheorem == Spec => []NoCallbackAfterStop
<1>1. IInv => NoCallbackAfterStop
    BY DEF IInv, HoldersOK, StopOK, NoCallbackAfterStop
<1> QED BY <1>1, Invariance, PTL

\* The health handler never calls a nil callback (metric_handlers.go).
THEOREM SetTheorem == Spec => []CallbackIsSet
<1>1. IInv => CallbackIsSet
    BY DEF IInv, TypeOK, HoldersOK, StopOK, CreatedOK, CallbackIsSet, InsidePcs
<1> QED BY <1>1, Invariance, PTL

-----------------------------------------------------------------------------
(* The CPU profiler.                                                       *)

Profiling == {w \in Workers : at[w] = "profiling"}

\* A step that takes no request into a profile, nor out of one.
LEMMA ProfilerKept ==
  ASSUME ProfilerOwned, UNCHANGED profiler,
         \/ at'[Loop] = "crashed"
         \/ /\ at[Loop] = "crashed" => at'[Loop] = "crashed"
            /\ \A w \in Workers : at'[w] = "profiling" <=> at[w] = "profiling"
  PROVE  ProfilerOwned'
BY DEF ProfilerOwned

\* One process goes somewhere else.
LEMMA ProfilerMoves ==
  ASSUME IInv, ProfilerOwned, NEW p \in Proc, NEW label, Goto(p, label), UNCHANGED profiler,
         p # Loop \/ at[p] # "crashed",
         label # "profiling", at[p] # "profiling"
  PROVE  ProfilerOwned'
<1>1. /\ \A q \in Proc : q # p => at'[q] = at[q]
      /\ at'[p] = label
    BY DEF IInv, TypeOK, Goto
<1>2. at[Loop] = "crashed" => at'[Loop] = "crashed"
    BY <1>1 DEF Proc
<1> QED BY <1>1, <1>2, ProfilerKept, UsersApart

\* The requests that start and stop a profile: the first is alone, and the
\* one that stops is the one that has started.
LEMMA ProfilerSteps ==
  ASSUME IInv, ProfilerOwned, NEW w \in Workers, ProfileCPU(w) \/ ProfileEnds(w)
  PROVE  ProfilerOwned'
<1>1. Loop # w /\ Loop \in Proc /\ w \in Proc
    BY ControllerAssumption DEF Proc
<1>2. PICK label : Goto(w, label)
    BY DEF ProfileCPU, ProfileEnds
<1>3. /\ \A q \in Proc : at'[q] = IF q = w THEN label ELSE at[q]
    BY <1>2 DEF IInv, TypeOK, Goto
<1>4. SUFFICES ASSUME at[Loop] # "crashed"
               PROVE  profiler' = Profiling'
    BY <1>1, <1>3 DEF ProfilerOwned, Profiling
<1>5. profiler = Profiling
    BY <1>4 DEF ProfilerOwned, Profiling
<1>6. CASE ProfileCPU(w) /\ profiler = {}
  <2>1. profiler' = {w} /\ at'[w] = "profiling"
      BY <1>1, <1>2, <1>3, <1>6 DEF ProfileCPU, Goto, IInv, TypeOK
  <2>2. \A v \in Workers : at[v] # "profiling"
      BY <1>5, <1>6 DEF Profiling
  <2> QED BY <1>3, <2>1, <2>2, UsersApart DEF Profiling
<1>7. CASE ProfileCPU(w) /\ profiler # {}
  <2>1. profiler' = profiler /\ at'[w] = "gathering" /\ at[w] = "inside"
      BY <1>1, <1>7 DEF ProfileCPU, Goto, IInv, TypeOK
  <2> QED BY <1>3, <1>5, <2>1, UsersApart DEF Profiling
<1>8. CASE ProfileEnds(w)
  <2>1. profiler' = {} /\ at'[w] \in {"gathering", "graphing"} /\ at[w] = "profiling"
      BY <1>1, <1>8 DEF ProfileEnds, Goto, IInv, TypeOK
  <2>2. \A v \in Workers : at[v] = "profiling" => v = w
      BY <1>5, <2>1 DEF IInv, TypeOK, Profiling
  <2> QED BY <1>3, <2>1, <2>2, UsersApart DEF Profiling
<1> QED BY <1>6, <1>7, <1>8

LEMMA ProfilerStep ==
  ASSUME IInv, ProfilerOwned, [Next]_vars
  PROVE  ProfilerOwned'
<1> USE DEF request
<1>0. /\ Loop \in Proc /\ Users \subseteq Proc /\ Workers \subseteq Proc /\ Loop \notin Workers
      /\ Users \cap Workers = {}
    BY ControllerAssumption, UsersApart DEF Proc
<1>1. CASE UNCHANGED vars
    BY <1>1, ProfilerKept DEF vars
<1>2. CASE Crash
  <2>1. at'[Loop] = "crashed" /\ UNCHANGED profiler
      BY <1>0, <1>2 DEF Crash
  <2> QED BY <2>1, ProfilerKept
<1>3. ASSUME NEW p \in Users,
             \/ Create(p) \/ CreateFails(p) \/ \E k \in Collectors : Register(p, k), ~Crash
      PROVE  ProfilerOwned'
    BY <1>3, ProfilerKept DEF Create, CreateFails, Register
<1>4. ASSUME NEW p \in Users, Start(p) \/ Stop(p) \/ StartStep(p) \/ StopStep(p), ~Crash
      PROVE  ProfilerOwned'
  <2>1. PICK label : Goto(p, label) /\ label # "profiling"
      BY <1>4 DEF Start, Stop, StartStep, StopStep, StartServer, StartReturns, Waited, CheckServer,
                  StopServer, ServerStopped, ClearServer, StopReturn
  <2>2. at[p] \notin {"profiling", "crashed"} /\ UNCHANGED profiler
      BY <1>4 DEF Start, Stop, StartStep, StopStep, StartServer, StartReturns, Waited, CheckServer,
                  StopServer, ServerStopped, ClearServer, StopReturn, Free
  <2> QED BY <1>0, <2>1, <2>2, ProfilerMoves
<1>5. ASSUME NEW w \in Workers, ProfileCPU(w) \/ ProfileEnds(w)
      PROVE  ProfilerOwned'
    BY <1>5, ProfilerSteps
<1>6. ASSUME NEW w \in Workers, ~Crash, ~(ProfileCPU(w) \/ ProfileEnds(w)),
             \/ \E r \in Routes : Arrive(w, r)
             \/ Refuse(w) \/ RequestStep(w) \/ CallbackPanics(w)
      PROVE  ProfilerOwned'
  <2>1. PICK label : Goto(w, label) /\ label # "profiling"
      BY <1>6 DEF Arrive, Refuse, RequestStep, CallbackPanics, Alive, Health, Gather, TooMany,
                  Profile, Collect, CallbackReturns, HandlerEnds, Answer, Panic, Leave
  <2>2. at[w] # "profiling" /\ UNCHANGED profiler
      BY <1>6 DEF Arrive, Refuse, RequestStep, CallbackPanics, Alive, Health, Gather, TooMany,
                  Profile, Collect, CallbackReturns, HandlerEnds, Answer, Panic, Leave
  <2> QED BY <1>0, <2>1, <2>2, ProfilerMoves
<1>7. ASSUME \/ \E p \in Callers : CallStep(p) \/ UseServer(p)
             \/ ServeAccepts \/ ServeReturns \/ LoopStep
      PROVE  ProfilerOwned'
    BY <1>7, ProfilerKept DEF CallStep, UseServer, ServeAccepts, ServeReturns, LoopStep, Apart
<1> QED BY <1>1, <1>2, <1>3, <1>4, <1>5, <1>6, <1>7 DEF Next

\* However many requests ask for a CPU profile at once, each stops its own and
\* none stays behind (debug_profiles.go).
THEOREM ProfilerTheorem == Spec => []ProfilerOwned
<1>1. Init => ProfilerOwned
    BY UsersApart DEF Init, ProfilerOwned
<1>2. IInv /\ ProfilerOwned /\ [Next]_vars => ProfilerOwned'
    BY ProfilerStep
<1> QED BY <1>1, <1>2, Invariance, PTL DEF Spec

-----------------------------------------------------------------------------
(* The shutdown of the controller's own server.                            *)

\* The server has been told to stop, or is shutting down, or has.
Told == \/ signal # 0 \/ \E p \in Proc : pc[p] = "signal"
        \/ pc[Loop] \in {"signalled", "shutdown", "waiting"}
        \/ shutdown # "none"

\* Nobody but a Stop of the controller tells its own server to stop.
ToldOK == /\ DOMAIN pc = Proc /\ signal \in Nat
          /\ internal /\ Told => closed /\ holders = {}

\* Once rp is closed and free, it stays so.
LEMMA ClosedStays ==
  ASSUME IInv, [Next]_vars
  PROVE  /\ internal' = internal
         /\ closed /\ holders = {} => closed' /\ holders' = {}
<1> USE DEF fields, request
<1>1. CASE UNCHANGED vars
    BY <1>1 DEF vars
<1>2. CASE Crash
    BY <1>2 DEF Crash
<1>3. ASSUME NEW p \in Users, ~Crash,
             \/ Create(p) \/ CreateFails(p) \/ \E k \in Collectors : Register(p, k)
             \/ Start(p) \/ Stop(p) \/ StartStep(p) \/ StopStep(p)
      PROVE  internal' = internal /\ (closed => closed') /\ holders' = holders
    BY <1>3 DEF Create, CreateFails, Register, Start, Stop, StartStep, StopStep, StartServer,
                StartReturns, Waited, CheckServer, StopServer, ServerStopped, ClearServer, StopReturn
<1>4. ASSUME NEW w \in Workers, ~Crash,
             \/ \E r \in Routes : Arrive(w, r)
             \/ Refuse(w) \/ RequestStep(w) \/ CallbackPanics(w)
      PROVE  /\ internal' = internal /\ closed' = closed
             /\ closed /\ holders = {} => holders' = {}
    BY <1>4 DEF Arrive, Refuse, RequestStep, CallbackPanics, Alive, Health, Gather, TooMany,
                Profile, ProfileCPU, ProfileEnds, Collect, CallbackReturns, HandlerEnds, Answer,
                Panic, Leave
<1>5. ASSUME \/ \E p \in Callers : CallStep(p) \/ UseServer(p)
             \/ ServeAccepts \/ ServeReturns \/ LoopStep
      PROVE  UNCHANGED <<internal, closed, holders>>
    BY <1>5 DEF CallStep, UseServer, ServeAccepts, ServeReturns, LoopStep, Apart
<1> QED BY <1>1, <1>2, <1>3, <1>4, <1>5 DEF Next

\* What keeps ToldOK.
LEMMA ToldKept ==
  ASSUME IInv, ToldOK, [Next]_vars, DOMAIN pc' = Proc, signal' \in Nat,
         internal /\ Told' => Told \/ (closed /\ holders = {})
  PROVE  ToldOK'
BY ClosedStays DEF ToldOK

\* The steps of the server but StopCas tell it nothing new.
LEMMA ServerTells ==
  ASSUME ToldOK,
         \/ \E p \in Proc : Srv!StartCas(p) \/ Srv!StartStep(p) \/ Srv!StopStep(p)
         \/ \E w \in Workers : Srv!RequestArrives(w) \/ Srv!RequestEnds(w)
         \/ Srv!ServeAccepts \/ Srv!ServeReturns \/ Srv!LoopStep
  PROVE  DOMAIN pc' = Proc /\ signal' \in Nat /\ (Told' => Told)
<1> USE DEF ToldOK, Told, Srv!Goto
<1>0. Loop \in Proc /\ Workers \subseteq Proc /\ Loop \notin Workers /\ Loop \notin Callers
    BY ControllerAssumption DEF Proc
<1>1. ASSUME NEW p \in Proc, Srv!StartCas(p) \/ Srv!ListenFails(p)
      PROVE  DOMAIN pc' = Proc /\ signal' \in Nat /\ (Told' => Told)
    BY <1>0, <1>1 DEF Srv!StartCas, Srv!ListenFails, Srv!Home
<1>2. ASSUME NEW p \in Proc, Srv!Listen(p) \/ Srv!SetRunning(p) \/ Srv!SpawnLoop(p)
      PROVE  DOMAIN pc' = Proc /\ signal' \in Nat /\ (Told' => Told)
    BY <1>0, <1>2 DEF Srv!Listen, Srv!SetRunning, Srv!SpawnLoop, Srv!Home
<1>3. ASSUME NEW p \in Proc, Srv!StopStep(p)
      PROVE  DOMAIN pc' = Proc /\ signal' \in Nat /\ (Told' => Told)
    BY <1>0, <1>3 DEF Srv!StopStep, Srv!StopSignal, Srv!StopReturn, Srv!Home
<1>4. ASSUME NEW w \in Workers, Srv!RequestArrives(w) \/ Srv!RequestEnds(w)
      PROVE  DOMAIN pc' = Proc /\ signal' \in Nat /\ (Told' => Told)
    BY <1>0, <1>4 DEF Srv!RequestArrives, Srv!RequestEnds
<1>5. ASSUME Srv!ServeAccepts \/ Srv!ServeReturns
      PROVE  DOMAIN pc' = Proc /\ signal' \in Nat /\ (Told' => Told)
    BY <1>0, <1>5 DEF Srv!ServeAccepts, Srv!ServeReturns
<1>6. ASSUME Srv!LoopReceive \/ Srv!LoopStopping \/ Srv!HandlerReturns \/ Srv!LoopEnd
      PROVE  DOMAIN pc' = Proc /\ signal' \in Nat /\ (Told' => Told)
    BY <1>0, <1>6 DEF Srv!LoopReceive, Srv!LoopStopping, Srv!HandlerReturns, Srv!LoopEnd
<1>7. ASSUME \/ Srv!LoopSignal \/ Srv!LoopShutdown \/ Srv!CloseListener
             \/ Srv!Drained \/ Srv!Timeout
      PROVE  DOMAIN pc' = Proc /\ signal' \in Nat /\ (Told' => Told)
    BY <1>0, <1>7 DEF Srv!LoopSignal, Srv!LoopShutdown, Srv!CloseListener, Srv!Drained, Srv!Timeout
<1> QED BY <1>1, <1>2, <1>3, <1>4, <1>5, <1>6, <1>7 DEF Srv!StartStep, Srv!LoopStep

LEMMA ToldStep ==
  ASSUME IInv, ToldOK, [Next]_vars
  PROVE  ToldOK'
<1>0. Loop \in Proc /\ Users \subseteq Proc /\ Workers \subseteq Proc /\ Callers \subseteq Proc
    BY UsersApart DEF Proc
<1>1. CASE UNCHANGED server
    BY <1>1, ToldKept DEF server, ToldOK, Told
<1>2. CASE \/ \E p \in Proc : Srv!StartCas(p) \/ Srv!StartStep(p) \/ Srv!StopStep(p)
           \/ \E w \in Workers : Srv!RequestArrives(w) \/ Srv!RequestEnds(w)
           \/ Srv!ServeAccepts \/ Srv!ServeReturns \/ Srv!LoopStep
    BY <1>2, ToldKept, ServerTells
<1>3. ASSUME NEW p \in Proc, Srv!StopCas(p), ~internal \/ (closed /\ holders = {})
      PROVE  ToldOK'
  <2>1. DOMAIN pc' = Proc /\ signal' \in Nat
      BY <1>3 DEF Srv!StopCas, Srv!Goto, ToldOK
  <2> QED BY <1>3, <2>1, ToldKept
<1>4. ASSUME NEW p \in Users,
             \/ Create(p) \/ CreateFails(p) \/ \E k \in Collectors : Register(p, k)
             \/ Start(p) \/ Stop(p) \/ StartStep(p) \/ StopStep(p)
      PROVE  \/ UNCHANGED server \/ Srv!StartCas(p)
             \/ Srv!StopCas(p) /\ closed /\ holders = {}
  <2>1. ASSUME StopServer(p) PROVE closed /\ holders = {}
      BY <2>1, <1>0 DEF StopServer, IInv, StopOK, AfterWait
  <2> QED BY <1>4, <2>1
         DEF Create, CreateFails, Register, Start, Stop, StartStep, StopStep, StartServer,
             StartReturns, Waited, CheckServer, StopServer, ServerStopped, ClearServer,
             StopReturn, Crash
<1>5. ASSUME NEW w \in Workers,
             \/ \E r \in Routes : Arrive(w, r)
             \/ Refuse(w) \/ RequestStep(w) \/ CallbackPanics(w)
      PROVE  UNCHANGED server \/ Srv!RequestArrives(w) \/ Srv!RequestEnds(w)
    BY <1>5 DEF Arrive, Refuse, RequestStep, CallbackPanics, Alive, Health, Gather, TooMany,
                Profile, ProfileCPU, ProfileEnds, Collect, CallbackReturns, HandlerEnds, Answer,
                Panic, Crash
<1>6. ASSUME NEW p \in Callers, CallStep(p) \/ UseServer(p)
      PROVE  \/ Srv!StartCas(p) \/ Srv!StartStep(p) \/ Srv!StopStep(p)
             \/ Srv!StopCas(p) /\ ~internal
    BY <1>6 DEF CallStep, UseServer
<1>7. ASSUME ServeAccepts \/ ServeReturns \/ LoopStep
      PROVE  Srv!ServeAccepts \/ Srv!ServeReturns \/ Srv!LoopStep
    BY <1>7 DEF ServeAccepts, ServeReturns, LoopStep
<1>8. CASE UNCHANGED vars
    BY <1>1, <1>8 DEF vars
<1> QED BY <1>0, <1>1, <1>2, <1>3, <1>4, <1>5, <1>6, <1>7, <1>8 DEF Next

\* Stop never cuts a request of the controller's own server short, however
\* many users, requests and profiles there are.
THEOREM ShutdownTheorem == Spec => []ShutdownCutsNothing
<1>1. Init => ToldOK
  <2>1. \A p \in Proc : Init => pc[p] \in {"idle", "none"}
      BY DEF Init, Srv!Init, Proc, Srv!Proc
  <2>2. Init => DOMAIN pc = Proc
      BY DEF Init, Srv!Init, Proc, Srv!Proc
  <2>3. Loop \in Proc
      BY DEF Proc
  <2> QED BY <2>1, <2>2, <2>3 DEF Init, Srv!Init, ToldOK, Told
<1>2. IInv /\ ToldOK /\ [Next]_vars => ToldOK'
    BY ToldStep
<1>3. IInv /\ ToldOK => ShutdownCutsNothing
    BY DEF IInv, HoldersOK, ToldOK, Told, ShutdownCutsNothing
<1> QED BY <1>1, <1>2, <1>3, Invariance, PTL DEF Spec

-----------------------------------------------------------------------------
(* The server of the controller, as a WebServer.                           *)

SrvP == INSTANCE WebServerProofs

\* The two instances are the same module.
LEMMA SameServer ==
  (Srv!Init <=> SrvP!Init) /\ (Srv!Next <=> SrvP!Next)
BY DEF Srv!Init, SrvP!Init, Srv!Next, SrvP!Next,  Srv!vars, SrvP!vars, Srv!Proc, SrvP!Proc,
       Srv!NotStarted, SrvP!NotStarted, Srv!Starting, SrvP!Starting, Srv!Running,
       SrvP!Running, Srv!Stopping, SrvP!Stopping, Srv!Stopped, SrvP!Stopped, Srv!Home,
       SrvP!Home, Srv!Busy, SrvP!Busy, Srv!Goto, SrvP!Goto, Srv!StartCas, SrvP!StartCas,
       Srv!StartStep, SrvP!StartStep, Srv!ListenFails, SrvP!ListenFails, Srv!Listen,
       SrvP!Listen, Srv!SetRunning, SrvP!SetRunning, Srv!SpawnLoop, SrvP!SpawnLoop,
       Srv!StopCas, SrvP!StopCas, Srv!StopStep, SrvP!StopStep, Srv!StopSignal,
       SrvP!StopSignal, Srv!StopReturn, SrvP!StopReturn, Srv!RequestArrives,
       SrvP!RequestArrives, Srv!RequestEnds, SrvP!RequestEnds, Srv!ServeAccepts,
       SrvP!ServeAccepts, Srv!ServeReturns, SrvP!ServeReturns, Srv!LoopStep,
       SrvP!LoopStep, Srv!LoopReceive, SrvP!LoopReceive, Srv!LoopStopping,
       SrvP!LoopStopping, Srv!HandlerReturns, SrvP!HandlerReturns, Srv!LoopEnd,
       SrvP!LoopEnd, Srv!LoopSignal, SrvP!LoopSignal, Srv!LoopShutdown, SrvP!LoopShutdown,
       Srv!CloseListener, SrvP!CloseListener, Srv!Drained, SrvP!Drained, Srv!Timeout,
       SrvP!Timeout, Srv!Quiescent, SrvP!Quiescent

\* The steps of a user, but for the crash, and those of the others.
UserStep(p) == \/ Create(p) \/ CreateFails(p) \/ \E k \in Collectors : Register(p, k)
               \/ Start(p) \/ Stop(p) \/ StartStep(p) \/ StopStep(p)
WorkerStep(w) == \/ \E r \in Routes : Arrive(w, r)
                 \/ Refuse(w) \/ RequestStep(w) \/ CallbackPanics(w)
ServerSteps == \/ \E p \in Callers : CallStep(p) \/ UseServer(p)
               \/ ServeAccepts \/ ServeReturns \/ LoopStep

LEMMA NextSteps ==
  ASSUME Next
  PROVE  (\E p \in Users : UserStep(p)) \/ (\E w \in Workers : WorkerStep(w)) \/ ServerSteps
BY DEF Next, UserStep, WorkerStep, ServerSteps

\* Who does what to the server.
LEMMA UserActs ==
  ASSUME NEW p \in Users, UserStep(p)
  PROVE  UNCHANGED server \/ Srv!StartCas(p) \/ Srv!StopCas(p)
BY DEF UserStep, Create, CreateFails, Register, Start, Stop, StartStep, StopStep, StartServer,
       StartReturns, Waited, CheckServer, StopServer, ServerStopped, ClearServer, StopReturn, Crash

LEMMA WorkerActs ==
  ASSUME NEW w \in Workers, WorkerStep(w)
  PROVE  UNCHANGED server \/ Srv!RequestArrives(w) \/ Srv!RequestEnds(w)
BY DEF WorkerStep, Arrive, Refuse, RequestStep, CallbackPanics, Alive, Health, Gather, TooMany,
       Profile, ProfileCPU, ProfileEnds, Collect, CallbackReturns, HandlerEnds, Answer, Panic, Crash

LEMMA ServerActs ==
  ASSUME ServerSteps
  PROVE  \/ \E p \in Callers : Srv!StartStep(p) \/ Srv!StopStep(p)
         \/ \E p \in Callers : ~internal /\ (Srv!StartCas(p) \/ Srv!StopCas(p))
         \/ Srv!ServeAccepts \/ Srv!ServeReturns
         \/ at[Loop] = "out" /\ Srv!LoopStep
BY DEF ServerSteps, CallStep, UseServer, ServeAccepts, ServeReturns, LoopStep

\* Each step of the controller is one of its server, or leaves it alone.
LEMMA ServerStep == [Next]_vars => [Srv!Next]_(Srv!vars)
<1> SUFFICES ASSUME Next, ~UNCHANGED server PROVE Srv!Next
    BY DEF vars, server, Srv!vars
<1>1. Users \subseteq Proc /\ Callers \subseteq Proc /\ Proc = Srv!Proc
    BY UsersApart DEF Proc, Srv!Proc
<1>2. CASE \E p \in Users : UserStep(p)
    BY <1>1, <1>2, UserActs DEF Srv!Next
<1>3. CASE \E w \in Workers : WorkerStep(w)
    BY <1>3, WorkerActs DEF Srv!Next
<1>4. CASE ServerSteps
    BY <1>1, <1>4, ServerActs DEF Srv!Next
<1> QED BY <1>2, <1>3, <1>4, NextSteps

\* The server that the controller and the application use, with requests of
\* the controller's routes, behaves as a WebServer, so all that is proved of one
\* holds of it (metrics/init.go).
THEOREM ServerTheorem == Spec => Srv!Init /\ [][Srv!Next]_(Srv!vars)
<1>1. Init => Srv!Init
    BY DEF Init
<1> QED BY <1>1, ServerStep, PTL DEF Spec

LEMMA ServerInvariance == Spec => []SrvP!IInv
<1>1. Init => SrvP!IInv
    BY SrvP!InitOK, SameServer, ControllerAssumption DEF Init, SrvP!ProcessesDistinct
<1>2. SrvP!IInv /\ [Next]_vars => SrvP!IInv'
    BY SrvP!StepOK, SameServer, ServerStep, ControllerAssumption
       DEF SrvP!ProcessesDistinct, SrvP!vars, Srv!vars
<1> QED BY <1>1, <1>2, PTL DEF Spec

-----------------------------------------------------------------------------
(* Stop stops the controller's own server.                                 *)

\* No goroutine is in Stop of the controller while another is in Start: nothing
\* says that the two may be called at once.  The ListenErrorHandler may call
\* either at any time.
NotAtOnce ==
  \A p, q \in Users \ {Loop} :
    at[p] \in {"start", "starting"} => at[q] \notin AfterWait \cup {"waiting"}

\* Of the server's invariant: who starts it, and when its loop is the user.
ServerOK ==
  /\ DOMAIN pc = Proc
  /\ \A p \in Proc : pc[p] \in Srv!StartPcs => pc[Loop] = "none"
  /\ \A p \in Proc : pc[p] \in {"listen", "running"} => state = Srv!Starting
  /\ state = Srv!Starting => \E p \in Proc : pc[p] \in {"listen", "running"}
  /\ pc[Loop] = "handler" => state = Srv!Stopping

\* The field is nil after Stop, and without a controller.
ClearedOK ==
  /\ over \/ created # "yes" \/ (\E p \in Users : at[p] = "clear") => ~hasServer
  /\ created = "no" => ~over /\ \A p \in Users : at[p] \notin UserPcs

\* A crash is everybody's; the loop calls the controller from its handler only.
PlacesOK ==
  /\ \A p \in Proc : at[p] = "crashed" <=> at[Loop] = "crashed"
  /\ at[Loop] \notin {"out", "crashed"} => pc[Loop] = "handler"

\* The controller's own server is started by the controller only, and forgotten
\* only when it neither runs nor is about to.
OwnServerOK ==
  internal =>
  /\ \A p \in Proc : pc[p] \in {"listen", "running"} => p \in Users /\ at[p] \in {"starting", "crashed"}
  /\ \A p \in Users : at[p] = "stopping" => state \in {Srv!Stopping, Srv!Stopped}
  /\ ~hasServer \/ (\E p \in Users : at[p] = "clearServer") => state \notin {Srv!Starting, Srv!Running}

SInv == ClearedOK /\ PlacesOK /\ OwnServerOK

LEMMA ServerFacts ==
  ASSUME SrvP!IInv
  PROVE  ServerOK
BY ControllerAssumption
   DEF SrvP!IInv, SrvP!TypeOK, SrvP!StartOK, SrvP!StartingOK, SrvP!LoopOK, SrvP!StartPcs, SrvP!Proc,
       Srv!StartPcs, Proc, ServerOK, SrvP!Starting, Srv!Starting, SrvP!Stopping, Srv!Stopping

LEMMA StateValues ==
  /\ Srv!NotStarted = 1 /\ Srv!Starting = 2 /\ Srv!Running = 3
  /\ Srv!Stopping = 4 /\ Srv!Stopped = 5
BY DEF Srv!NotStarted, Srv!Starting, Srv!Running, Srv!Stopping, Srv!Stopped

LEMMA SInvInit == Init => SInv
<1> SUFFICES ASSUME Init PROVE SInv
    OBVIOUS
<1>1. \A p \in Proc : at[p] = "out" /\ pc[p] \in {"none", "idle"}
    BY DEF Init, Srv!Init, Proc, Srv!Proc
<1>2. Loop \in Proc /\ Users \subseteq Proc
    BY UsersApart DEF Proc
<1>3. state = 1
    BY StateValues DEF Init, Srv!Init
<1> QED BY <1>1, <1>2, <1>3, StateValues
       DEF Init, SInv, ClearedOK, PlacesOK, OwnServerOK, UserPcs

-----------------------------------------------------------------------------
\* Where the processes are, after a step that is no crash: at most one of them
\* has moved.
LEMMA Moves ==
  ASSUME IInv, Next, ~Crash
  PROVE  \/ at' = at
         \/ \E p \in Proc : /\ at[p] # "crashed" /\ at'[p] # "crashed"
                            /\ p \in Users \/ p \in Workers
                            /\ \A q \in Proc : q # p => at'[q] = at[q]
<1>1. ASSUME NEW p \in Proc, p \in Users \/ p \in Workers, NEW label,
             Goto(p, label), label # "crashed", at[p] # "crashed"
      PROVE  \E q \in Proc : /\ at[q] # "crashed" /\ at'[q] # "crashed"
                             /\ q \in Users \/ q \in Workers
                             /\ \A r \in Proc : r # q => at'[r] = at[r]
    BY <1>1 DEF Goto, IInv, TypeOK
<1>2. ASSUME NEW p \in Users,
             \/ Create(p) \/ CreateFails(p) \/ \E k \in Collectors : Register(p, k)
             \/ Start(p) \/ Stop(p) \/ StartStep(p) \/ StopStep(p)
      PROVE  at' = at \/ \E label : Goto(p, label) /\ label # "crashed" /\ at[p] # "crashed"
    BY <1>2 DEF Create, CreateFails, Register, Start, Stop, StartStep, StopStep, StartServer,
                StartReturns, Waited, CheckServer, StopServer, ServerStopped, ClearServer,
                StopReturn, Free
<1>3. ASSUME NEW w \in Workers,
             \/ \E r \in Routes : Arrive(w, r)
             \/ Refuse(w) \/ RequestStep(w) \/ CallbackPanics(w)
      PROVE  \E label : Goto(w, label) /\ label # "crashed" /\ at[w] # "crashed"
    BY <1>3 DEF Arrive, Refuse, RequestStep, CallbackPanics, Alive, Health, Gather, TooMany,
                Profile, ProfileCPU, ProfileEnds, Collect, CallbackReturns, HandlerEnds, Answer,
                Panic, Leave
<1>4. ASSUME \/ \E p \in Callers : CallStep(p) \/ UseServer(p)
             \/ ServeAccepts \/ ServeReturns \/ LoopStep
      PROVE  at' = at
    BY <1>4 DEF CallStep, UseServer, ServeAccepts, ServeReturns, LoopStep, Apart
<1> QED BY <1>1, <1>2, <1>3, <1>4, UsersApart DEF Next

\* The users keep to themselves what the others never touch.
LEMMA OthersKeep ==
  ASSUME IInv, (\E w \in Workers : WorkerStep(w)) \/ ServerSteps
  PROVE  /\ UNCHANGED <<created, internal, hasServer, over>>
         /\ \A p \in Proc \ Workers : at'[p] = at[p] \/ at'[p] = "crashed"
<1>1. CASE Crash
    BY <1>1, UsersApart DEF Crash, fields
<1>2. ASSUME NEW w \in Workers, WorkerStep(w), ~Crash
      PROVE  UNCHANGED <<created, internal, hasServer, over>> /\ \E label : Goto(w, label)
    BY <1>2
       DEF WorkerStep, fields, Arrive, Refuse, RequestStep, CallbackPanics, Alive, Health, Gather,
           TooMany, Profile, ProfileCPU, ProfileEnds, Collect, CallbackReturns, HandlerEnds, Answer,
           Panic, Leave
<1>4. ASSUME NEW w \in Workers, NEW label, Goto(w, label), NEW p \in Proc \ Workers
      PROVE  at'[p] = at[p]
    BY <1>4, UsersApart DEF Goto, IInv, TypeOK
<1>3. CASE ServerSteps
    BY <1>3 DEF ServerSteps, CallStep, UseServer, ServeAccepts, ServeReturns, LoopStep, Apart, fields
<1> QED BY <1>1, <1>2, <1>3, <1>4

LEMMA UserStays ==
  ASSUME IInv, NEW p \in Users, UserStep(p), ~Crash, NEW q \in Proc, q # p
  PROVE  at'[q] = at[q]
<1>1. at' = at \/ \E label : Goto(p, label)
    BY DEF UserStep, Create, CreateFails, Register, Start, Stop, StartStep, StopStep, StartServer,
           StartReturns, Waited, CheckServer, StopServer, ServerStopped, ClearServer, StopReturn
<1> QED BY <1>1, UsersApart DEF Goto, IInv, TypeOK

LEMMA ClearedStep ==
  ASSUME IInv, ClearedOK, [Next]_vars
  PROVE  ClearedOK'
<1>1. CASE UNCHANGED vars
    BY <1>1 DEF vars, fields, ClearedOK
<1>2. CASE Crash
    BY <1>2, UsersApart DEF Crash, ClearedOK, fields, UserPcs
<1>3. CASE (\E w \in Workers : WorkerStep(w)) \/ ServerSteps
    BY <1>3, OthersKeep, UsersApart DEF ClearedOK, UserPcs
<1>4. ASSUME NEW p \in Users, UserStep(p), ~Crash
      PROVE  ClearedOK'
  <2> USE DEF ClearedOK, fields, UserPcs
  <2>1. p \in Proc /\ \A label : Goto(p, label) =>
                        \A q \in Users : at'[q] = IF q = p THEN label ELSE at[q]
      BY UsersApart DEF Goto, IInv, TypeOK
  <2>2. CASE Create(p) \/ CreateFails(p) \/ \E k \in Collectors : Register(p, k)
      BY <1>4, <2>2 DEF Create, CreateFails, Register
  <2>3. CASE Start(p) \/ StartServer(p) \/ StartReturns(p)
      BY <1>4, <2>1, <2>3 DEF Start, StartServer, StartReturns
  <2>4. CASE Stop(p) \/ Waited(p) \/ StopServer(p) \/ ServerStopped(p)
      BY <1>4, <2>1, <2>4 DEF Stop, Waited, StopServer, ServerStopped
  <2>5. CASE CheckServer(p)
      BY <2>1, <2>5 DEF CheckServer
  <2>6. CASE ClearServer(p) \/ StopReturn(p)
      BY <2>1, <2>6 DEF ClearServer, StopReturn
  <2> QED BY <1>4, <2>2, <2>3, <2>4, <2>5, <2>6 DEF UserStep, StartStep, StopStep
<1> QED BY <1>1, <1>2, <1>3, <1>4, NextSteps

\* While the ListenErrorHandler runs no other goroutine moves the loop.
LEMMA HandlerStays ==
  ASSUME ServerOK, pc[Loop] = "handler",
         \/ UNCHANGED server
         \/ \E p \in Proc : \/ Srv!StartCas(p) \/ Srv!StartStep(p)
                            \/ Srv!StopCas(p) \/ Srv!StopStep(p)
         \/ \E w \in Workers : Srv!RequestArrives(w) \/ Srv!RequestEnds(w)
         \/ Srv!ServeAccepts \/ Srv!ServeReturns
  PROVE  pc'[Loop] = "handler"
<1> USE StateValues DEF Srv!Goto
<1>0. Loop \in Proc /\ Loop \in DOMAIN pc /\ Loop \notin Workers
    BY ControllerAssumption DEF ServerOK, Proc
<1>1. CASE UNCHANGED server \/ Srv!ServeAccepts \/ Srv!ServeReturns
    BY <1>1 DEF server, Srv!ServeAccepts, Srv!ServeReturns
<1>2. ASSUME NEW p \in Proc, Srv!StartCas(p) \/ Srv!StopCas(p)
      PROVE  pc'[Loop] = "handler"
    BY <1>0, <1>2 DEF Srv!StartCas, Srv!StopCas, ServerOK
<1>3. ASSUME NEW p \in Proc, Srv!StartStep(p)
      PROVE  pc'[Loop] = "handler"
    BY <1>3
       DEF ServerOK, Srv!StartPcs, Srv!StartStep, Srv!ListenFails, Srv!Listen, Srv!SetRunning,
           Srv!SpawnLoop
<1>4. ASSUME NEW p \in Proc, Srv!StopStep(p)
      PROVE  pc'[Loop] = "handler"
    BY <1>0, <1>4 DEF Srv!StopStep, Srv!StopSignal, Srv!StopReturn
<1>5. ASSUME NEW w \in Workers, Srv!RequestArrives(w) \/ Srv!RequestEnds(w)
      PROVE  pc'[Loop] = "handler"
    BY <1>0, <1>5 DEF Srv!RequestArrives, Srv!RequestEnds
<1> QED BY <1>1, <1>2, <1>3, <1>4, <1>5

LEMMA PlacesStep ==
  ASSUME IInv, ServerOK, PlacesOK, [Next]_vars
  PROVE  PlacesOK'
<1>0. /\ Loop \in Proc /\ Loop \notin Workers /\ Loop \notin Callers
      /\ Users \subseteq Proc /\ Callers \subseteq Proc
    BY ControllerAssumption, UsersApart DEF Proc
<1>1. CASE UNCHANGED vars
    BY <1>1 DEF vars, server, PlacesOK
<1>2. CASE Crash
    BY <1>0, <1>2 DEF Crash, PlacesOK
<1>3. CASE Next /\ ~Crash
  <2>1. \A p \in Proc : at'[p] = "crashed" <=> at'[Loop] = "crashed"
      BY <1>0, <1>3, Moves DEF PlacesOK
  <2>2. CASE at[Loop] \in {"out", "crashed"}
    <3>1. CASE at'[Loop] = at[Loop]
        BY <2>1, <2>2, <3>1 DEF PlacesOK
    <3>2. CASE at'[Loop] # at[Loop] /\ at'[Loop] # "crashed"
      <4>1. Loop \in Users /\ UserStep(Loop)
          BY <1>0, <1>3, <2>2, <3>2, NextSteps, OthersKeep, UserStays
      <4>2. pc[Loop] = "handler" /\ UNCHANGED server
          BY <1>0, <1>3, <2>1, <2>2, <3>2, <4>1
             DEF UserStep, Create, CreateFails, Register, Start, Stop, StartStep, StopStep,
                 StartServer, StartReturns, Waited, CheckServer, StopServer, ServerStopped,
                 ClearServer, StopReturn, Free, Srv!Home, PlacesOK
      <4> QED BY <2>1, <4>2 DEF PlacesOK, server
    <3> QED BY <2>1, <3>1, <3>2 DEF PlacesOK
  <2>3. CASE at[Loop] \notin {"out", "crashed"}
    <3>1. pc[Loop] = "handler"
        BY <2>3 DEF PlacesOK
    <3>2. pc'[Loop] = "handler"
        BY <1>0, <1>3, <2>3, <3>1, NextSteps, UserActs, WorkerActs, ServerActs, HandlerStays
    <3> QED BY <2>1, <3>2 DEF PlacesOK
  <2> QED BY <2>2, <2>3
<1> QED BY <1>1, <1>2, <1>3

\* No step of the server but the CompareAndSwap of Start brings it nearer to
\* running, unless it is being started.
LEMMA ServerGoesDown ==
  ASSUME ServerOK,
         \/ \E p \in Proc : Srv!StartStep(p) \/ Srv!StopStep(p)
         \/ \E w \in Workers : Srv!RequestArrives(w) \/ Srv!RequestEnds(w)
         \/ Srv!ServeAccepts \/ Srv!ServeReturns \/ Srv!LoopStep
  PROVE  /\ \A p \in Proc : pc'[p] \in {"listen", "running"} => pc[p] \in {"listen", "running"}
         /\ state \in {Srv!Stopping, Srv!Stopped} => state' \in {Srv!Stopping, Srv!Stopped}
         /\ state \notin {Srv!Starting, Srv!Running} => state' \notin {Srv!Starting, Srv!Running}
<1> USE StateValues DEF Srv!Goto, ServerOK, Srv!StartPcs, Srv!Home
<1>0. Loop \in Proc /\ Loop \notin Workers /\ Loop \notin Callers /\ Workers \subseteq Proc
    BY ControllerAssumption DEF Proc
<1>1. CASE \E p \in Proc : Srv!StartStep(p)
    BY <1>0, <1>1
       DEF Srv!StartStep, Srv!ListenFails, Srv!Listen, Srv!SetRunning, Srv!SpawnLoop
<1>2. CASE \E p \in Proc : Srv!StopStep(p)
    BY <1>0, <1>2 DEF Srv!StopStep, Srv!StopSignal, Srv!StopReturn
<1>3. CASE \E w \in Workers : Srv!RequestArrives(w) \/ Srv!RequestEnds(w)
    BY <1>0, <1>3 DEF Srv!RequestArrives, Srv!RequestEnds
<1>4. CASE Srv!ServeAccepts \/ Srv!ServeReturns
    BY <1>4 DEF Srv!ServeAccepts, Srv!ServeReturns
<1>5. CASE Srv!LoopStep
    BY <1>0, <1>5
       DEF Srv!LoopStep, Srv!LoopReceive, Srv!LoopStopping, Srv!HandlerReturns, Srv!LoopEnd,
           Srv!LoopSignal, Srv!LoopShutdown, Srv!CloseListener, Srv!Drained, Srv!Timeout
<1> QED BY <1>1, <1>2, <1>3, <1>4, <1>5

LEMMA OwnServerStep ==
  ASSUME IInv, ServerOK, ClearedOK, PlacesOK, OwnServerOK, NotAtOnce, [Next]_vars, internal'
  PROVE  OwnServerOK'
<1> USE StateValues
<1>0. /\ Users \subseteq Proc /\ Callers \subseteq Proc /\ Workers \subseteq Proc
      /\ Users \cap Workers = {} /\ Loop \in Proc
    BY ControllerAssumption, UsersApart DEF Proc
<1>1. internal
    BY ClosedStays
<1>2. CASE UNCHANGED vars
    BY <1>2 DEF vars, server, fields, OwnServerOK
<1>3. CASE Crash
    BY <1>0, <1>3 DEF Crash, server, fields, OwnServerOK
<1>4. CASE (\E w \in Workers : WorkerStep(w)) \/ ServerSteps
  <2>1. /\ \A p \in Proc : pc'[p] \in {"listen", "running"} => pc[p] \in {"listen", "running"}
        /\ state \in {Srv!Stopping, Srv!Stopped} => state' \in {Srv!Stopping, Srv!Stopped}
        /\ state \notin {Srv!Starting, Srv!Running} => state' \notin {Srv!Starting, Srv!Running}
    <3>1. CASE UNCHANGED server
        BY <3>1 DEF server
    <3>2. CASE ~UNCHANGED server
        BY <1>0, <1>1, <1>4, <3>2, WorkerActs, ServerActs, ServerGoesDown
    <3> QED BY <3>1, <3>2
  <2> QED BY <1>0, <1>1, <1>4, <2>1, OthersKeep DEF OwnServerOK
<1>5. ASSUME NEW p \in Users, UserStep(p), ~Crash
      PROVE  OwnServerOK'
  <2> USE DEF OwnServerOK, Srv!Goto, server, fields
  <2>1. /\ p \in Proc /\ p \in DOMAIN pc
        /\ \A label : Goto(p, label) => \A q \in Proc : at'[q] = IF q = p THEN label ELSE at[q]
      BY <1>0 DEF Goto, IInv, TypeOK, ServerOK
  <2>2. CASE Create(p) \/ CreateFails(p) \/ \E k \in Collectors : Register(p, k)
      BY <1>0, <1>1, <1>5, <2>2 DEF Create, CreateFails, Register
  <2>3. CASE Start(p) \/ Stop(p) \/ Waited(p) \/ CheckServer(p) \/ StopReturn(p)
      BY <1>0, <1>1, <2>1, <2>3
         DEF Start, Stop, Waited, CheckServer, StopReturn, Free
  <2>4. CASE StartReturns(p)
      BY <1>0, <1>1, <2>1, <2>4 DEF StartReturns, Srv!Home
  <2>5. CASE StartServer(p)
      BY <1>0, <1>1, <1>5, <2>1, <2>5 DEF StartServer, Srv!StartCas, ServerOK, PlacesOK, NotAtOnce, AfterWait
  <2>6. CASE StopServer(p)
      BY <1>0, <1>1, <1>5, <2>1, <2>6 DEF StopServer, Srv!StopCas, ServerOK, PlacesOK, NotAtOnce, AfterWait
  <2>7. CASE ServerStopped(p)
      BY <1>0, <1>1, <2>1, <2>7 DEF ServerStopped
  <2>8. CASE ClearServer(p)
      BY <1>0, <1>1, <2>1, <2>8 DEF ClearServer
  <2> QED BY <1>5, <2>2, <2>3, <2>4, <2>5, <2>6, <2>7, <2>8 DEF UserStep, StartStep, StopStep
<1> QED BY <1>2, <1>3, <1>4, <1>5, NextSteps

LEMMA SInvStep ==
  ASSUME IInv, SrvP!IInv, SInv, NotAtOnce, [Next]_vars
  PROVE  SInv'
<1>1. CASE internal'
    BY <1>1, ServerFacts, ClearedStep, PlacesStep, OwnServerStep DEF SInv
<1>2. CASE ~internal'
    BY <1>2, ServerFacts, ClearedStep, PlacesStep DEF SInv, OwnServerOK
<1> QED BY <1>1, <1>2

\* When Stop has returned the controller's own server neither runs nor is about
\* to, whoever else starts and stops the controller, as long as no goroutine is
\* in Start while another is in Stop (metrics/init.go).
THEOREM StopTheorem == Spec /\ []NotAtOnce => []StopStopsServer
<1>1. SInv => StopStopsServer
    BY DEF SInv, ClearedOK, OwnServerOK, StopStopsServer
<1>2. IInv /\ SrvP!IInv /\ SInv /\ NotAtOnce /\ [Next]_vars => SInv'
    BY SInvStep
<1> QED BY <1>1, <1>2, SInvInit, Invariance, ServerInvariance, PTL DEF Spec

\* One goroutine of the application is never in both.
LEMMA AloneNotAtOnce ==
  ASSUME \A p, q \in Users \ {Loop} : p = q
  PROVE  NotAtOnce
BY DEF NotAtOnce, AfterWait

\* So Stop keeps its promise to an application that calls the controller from one
\* goroutine and from the ListenErrorHandler (metrics/init.go).
THEOREM AloneTheorem ==
  ASSUME \A p, q \in Users \ {Loop} : p = q
  PROVE  Spec => []StopStopsServer
<1>1. NotAtOnce
    BY AloneNotAtOnce
<1> QED BY <1>1, StopTheorem, PTL

-----------------------------------------------------------------------------
(* The flame graph of a profile.                                           *)

LEMMA TotalNothing == Total(<<>>) = 0
BY FoldedNothing, Zenon DEF Total

LEMMA TotalAppend ==
  ASSUME NEW values \in Seq(Int), NEW value \in Int
  PROVE  Total(Append(values, value)) = Total(values) + value
<1>1. FoldsOver(Plus, 0, values, value)
    BY FoldedAppend, Zenon
<1> QED BY <1>1, Zenon DEF FoldsOver, Total, Plus

LEMMA TotalOK ==
  ASSUME NEW values \in Seq(Int)
  PROVE  /\ Total(values) \in Int
         /\ (\A i \in DOMAIN values : values[i] = 0) => Total(values) = 0
<1>1. FoldedBy(Plus, 0, values)
    BY FoldedLeft, Zenon
<1>2. PICK f : FoldsAlong(Plus, 0, values, f) /\ Total(values) = f[Len(values)]
    BY <1>1, Zenon DEF FoldedBy, Total
<1>3. f[0] = 0 /\ \A i \in 1 .. Len(values) : f[i] = f[i - 1] + values[i]
    BY <1>2, Zenon DEF FoldsAlong, Plus
<1> DEFINE T == {i \in 0 .. Len(values) :
                   f[i] \in Int /\ ((\A j \in DOMAIN values : values[j] = 0) => f[i] = 0)}
<1>4. Len(values) \in Nat /\ 0 \in T
    BY <1>3
<1>5. ASSUME NEW i \in 1 .. Len(values), i - 1 \in T PROVE i \in T
    BY <1>3, <1>5
<1>6. 0 .. Len(values) \subseteq T
  <2> HIDE DEF T
  <2> QED BY <1>4, <1>5, Upwards
<1> QED BY <1>2, <1>4, <1>6

\* The prefixes of a way, and of one that goes a call further.
LEMMA PrefixesOf ==
  ASSUME NEW S, NEW way \in Seq(S)
  PROVE  /\ Prefixes(way) \subseteq Seq(S)
         /\ <<>> \in Prefixes(way) /\ way \in Prefixes(way)
<1>1. Len(way) \in Nat
    OBVIOUS
<1>2. SubSeq(way, 1, 0) = <<>> /\ SubSeq(way, 1, Len(way)) = way
    OBVIOUS
<1>3. \A l \in 0 .. Len(way) : SubSeq(way, 1, l) \in Seq(S)
    BY <1>1
<1>4. 0 \in 0 .. Len(way) /\ Len(way) \in 0 .. Len(way)
    BY <1>1
<1>5. <<>> \in Prefixes(way) /\ way \in Prefixes(way)
    BY <1>2, <1>4, Zenon DEF Prefixes
<1>6. Prefixes(way) \subseteq Seq(S)
    BY <1>3, Zenon DEF Prefixes
<1> QED BY <1>5, <1>6

LEMMA PrefixesAppend ==
  ASSUME NEW S, NEW way \in Seq(S), NEW name \in S
  PROVE  /\ Prefixes(Append(way, name)) = Prefixes(way) \cup {Append(way, name)}
         /\ Append(way, name) \notin Prefixes(way)
<1> DEFINE more == Append(way, name)
<1>1. Len(way) \in Nat /\ Len(more) = Len(way) + 1 /\ more \in Seq(S)
    OBVIOUS
<1>2. \A l \in 0 .. Len(way) : SubSeq(more, 1, l) = SubSeq(way, 1, l) /\ Len(SubSeq(way, 1, l)) = l
    BY <1>1
<1>3. SubSeq(more, 1, Len(more)) = more
    BY <1>1
<1> HIDE DEF more
<1>4. Prefixes(more) = Prefixes(way) \cup {more}
  <2>1. 0 .. Len(more) = (0 .. Len(way)) \cup {Len(more)}
      BY <1>1
  <2> QED BY <1>2, <1>3, <2>1 DEF Prefixes
<1>5. more \notin Prefixes(way)
    BY <1>1, <1>2 DEF Prefixes
<1> QED BY <1>4, <1>5 DEF more

Calling == Seq(Names)
NodeType == [nanos : Int, self : Int]

\* A tree of calls, and one to which a sample is added that goes these calls.
IsTree(tree) ==
  /\ tree = [way \in DOMAIN tree |-> tree[way]] /\ <<>> \in DOMAIN tree
  /\ \A way \in DOMAIN tree : tree[way] \in NodeType

Added(tree, calls, nanos, self) ==
  [way \in DOMAIN tree \cup Prefixes(calls) |->
    Grown(Node(tree, way), IF way \in Prefixes(calls) THEN nanos ELSE 0,
                           IF way = calls THEN self ELSE 0)]

LEMMA NodeOK ==
  ASSUME NEW tree, IsTree(tree), NEW way
  PROVE  Node(tree, way) \in NodeType
BY DEF Node, NewNode, NodeType, IsTree

LEMMA GrownOK ==
  ASSUME NEW node \in NodeType
  PROVE  /\ Grown(node, 0, 0) = node
         /\ \A nanos, self \in Int : Grown(node, nanos, self) \in NodeType
BY DEF Grown, NodeType

\* One step of the walk of a sample.
LEMMA VisitOK ==
  ASSUME NEW tree, IsTree(tree), NEW calls \in Calling, NEW nanos \in Int, NEW self \in Int,
         NEW name \in Names
  PROVE  LET location == [name |-> name, nanos |-> nanos, self |-> self]
             walk     == [node |-> calls, tree |-> Added(tree, calls, nanos, 0)]
             child    == Append(calls, name)
         IN  name # Unresolved =>
               Visit(walk, location) = [node |-> child, tree |-> Added(tree, child, nanos, self)]
<1> DEFINE location == [name |-> name, nanos |-> nanos, self |-> self]
           old      == Added(tree, calls, nanos, 0)
           walk     == [node |-> calls, tree |-> old]
           child    == Append(calls, name)
           new      == Added(tree, child, nanos, self)
<1> SUFFICES ASSUME name # Unresolved
             PROVE  Visit(walk, location) = [node |-> child, tree |-> new]
    OBVIOUS
<1>1. Prefixes(child) = Prefixes(calls) \cup {child} /\ child \notin Prefixes(calls) /\ child # calls
  <2>1. calls \in Prefixes(calls)
      BY PrefixesOf DEF Calling
  <2> QED BY <2>1, PrefixesAppend DEF Calling
<1> HIDE DEF child
<1>2. DOMAIN new = DOMAIN old \cup {child}
    BY <1>1 DEF Added
<1>3. ASSUME NEW way \in DOMAIN old, way # child
      PROVE  new[way] = old[way]
    BY <1>1, <1>3 DEF Added
<1>4. new[child] = Grown(Node(old, child), nanos, self)
  <2>1. Node(old, child) = Node(tree, child)
    <3>1. CASE child \in DOMAIN tree
      <4>1. Node(old, child) = Grown(Node(tree, child), 0, 0)
          BY <1>1, <3>1 DEF Added, Node
      <4> QED BY <4>1, NodeOK, GrownOK
    <3>2. CASE child \notin DOMAIN tree
        BY <1>1, <3>2 DEF Added, Node
    <3> QED BY <3>1, <3>2
  <2>2. new[child] = Grown(Node(tree, child), nanos, self)
      BY <1>1 DEF Added
  <2> QED BY <2>1, <2>2
<1>5. Visit(walk, location) =
        [node |-> child,
         tree |-> [way \in DOMAIN old \cup {child} |->
                    IF way = child THEN Grown(Node(old, way), nanos, self) ELSE old[way]]]
    BY DEF Visit, child
<1> HIDE DEF old
<1>6. new = [way \in DOMAIN old \cup {child} |->
              IF way = child THEN Grown(Node(old, way), nanos, self) ELSE old[way]]
  <2>1. new = [way \in DOMAIN new |-> new[way]]
      BY DEF Added
  <2> HIDE DEF new
  <2> QED BY <1>2, <1>3, <1>4, <2>1
<1> QED BY <1>5, <1>6

\* What a sample adds to the node it was taken in.
Own(sample) ==
  IF sample.stack # <<>> /\ sample.stack[1] # Unresolved THEN sample.value ELSE 0

LEMMA RootedOK ==
  ASSUME NEW tree, IsTree(tree), NEW sample \in Samples
  PROVE  Rooted(tree, sample) = [node |-> <<>>, tree |-> Added(tree, <<>>, sample.value, 0)]
<1>1. Prefixes(<<>>) = {<<>>}
  <2>1. \A way \in Prefixes(<<>>) : way = <<>>
      BY DEF Prefixes
  <2>2. <<>> \in Seq({})
      OBVIOUS
  <2> QED BY <2>1, <2>2, PrefixesOf
<1> DEFINE new == Added(tree, <<>>, sample.value, 0)
<1>2. DOMAIN new = DOMAIN tree /\ new = [way \in DOMAIN tree |-> new[way]]
    BY <1>1 DEF Added, IsTree
<1>3. new[<<>>] = Grown(tree[<<>>], sample.value, 0)
    BY <1>1, <1>2 DEF Added, IsTree, Node
<1>4. ASSUME NEW way \in DOMAIN tree, way # <<>>
      PROVE  new[way] = tree[way]
  <2>1. new[way] = Grown(tree[way], 0, 0)
      BY <1>1, <1>4 DEF Added, Node
  <2> QED BY <2>1, GrownOK DEF IsTree
<1> HIDE DEF new
<1>5. new = [tree EXCEPT ![<<>>] = Grown(@, sample.value, 0)]
    BY <1>2, <1>3, <1>4 DEF IsTree
<1> QED BY <1>5 DEF Rooted, new

LEMMA CallOK ==
  ASSUME NEW calls \in Calling, NEW name \in Names \cup {Unresolved}
  PROVE  Call(calls, name) \in Calling
BY DEF Calling, Call

\* The walk of a sample adds it to the nodes on its way.
LEMMA WalkOK ==
  ASSUME NEW tree, IsTree(tree), NEW sample \in Samples
  PROVE  /\ AddSample(tree, sample) = Added(tree, Calls(sample), sample.value, Own(sample))
         /\ Calls(sample) \in Calling
<1> DEFINE stack == sample.stack
           names == Reverse(stack)
           steps == Locations(sample)
           n     == Len(stack)
<1>0. stack \in Seq(Names \cup {Unresolved}) /\ sample.value \in Int
    BY DEF Samples
<1>1. /\ n \in Nat
      /\ names \in Seq(Names \cup {Unresolved}) /\ Len(names) = n
      /\ \A i \in 1 .. n : names[i] \in Names \cup {Unresolved}
      /\ n > 0 => names[n] = stack[1]
      /\ n = 0 <=> stack = <<>>
    BY <1>0 DEF Reverse
<1>2. /\ steps \in Seq([name : Names \cup {Unresolved}, nanos : Int, self : Int]) /\ Len(steps) = n
      /\ \A i \in 1 .. n : steps[i] = [name |-> names[i], nanos |-> sample.value,
                                       self |-> IF i = n THEN sample.value ELSE 0]
  <2>1. DOMAIN stack = 1 .. n
      BY <1>0
  <2>2. steps = [i \in 1 .. n |-> [name |-> names[i], nanos |-> sample.value,
                                   self |-> IF i = n THEN sample.value ELSE 0]]
      BY <2>1 DEF Locations
  <2> HIDE DEF steps, names
  <2> QED BY <1>0, <1>1, <2>2
<1> HIDE DEF names, steps
<1>3. FoldedBy(Call, <<>>, names) /\ FoldedBy(Visit, Rooted(tree, sample), steps)
    BY <1>1, <1>2, FoldedLeft, Zenon
<1>4. PICK c : FoldsAlong(Call, <<>>, names, c) /\ Calls(sample) = c[Len(names)]
    BY <1>3, Zenon DEF FoldedBy, Calls, names
<1>5. PICK f : FoldsAlong(Visit, Rooted(tree, sample), steps, f) /\ Walked(tree, sample) = f[Len(steps)]
    BY <1>3, Zenon DEF FoldedBy, Walked, steps
<1>6. /\ c[0] = <<>> /\ \A i \in 1 .. Len(names) : c[i] = Call(c[i - 1], names[i])
      /\ f[0] = Rooted(tree, sample) /\ \A i \in 1 .. Len(steps) : f[i] = Visit(f[i - 1], steps[i])
    BY <1>4, <1>5, Zenon DEF FoldsAlong
<1> DEFINE own(i) == IF i = n THEN Own(sample) ELSE 0
           after(i) == [node |-> c[i], tree |-> Added(tree, c[i], sample.value, own(i))]
           T == {i \in 0 .. n : c[i] \in Calling /\ f[i] = after(i)}
<1>7. 0 \in T
  <2>1. own(0) = 0
      BY <1>1 DEF Own
  <2>2. f[0] = after(0)
      BY <1>6, <2>1, RootedOK
  <2>3. <<>> \in Calling
      BY DEF Calling
  <2> QED BY <1>1, <1>6, <2>2, <2>3
<1>8. ASSUME NEW i \in 1 .. n, i - 1 \in T PROVE i \in T
  <2>1. /\ c[i - 1] \in Calling /\ names[i] \in Names \cup {Unresolved}
        /\ c[i] = Call(c[i - 1], names[i]) /\ f[i] = Visit(f[i - 1], steps[i])
        /\ f[i - 1] = [node |-> c[i - 1], tree |-> Added(tree, c[i - 1], sample.value, 0)]
    <3>1. i \in 1 .. Len(names) /\ i \in 1 .. Len(steps) /\ i - 1 # n
        BY <1>1, <1>2
    <3>2. c[i - 1] \in Calling /\ f[i - 1] = after(i - 1)
        BY <1>8
    <3>3. own(i - 1) = 0
        BY <3>1
    <3> HIDE DEF own, n
    <3> QED BY <1>1, <1>6, <3>1, <3>2, <3>3
  <2>2. steps[i] = [name |-> names[i], nanos |-> sample.value,
                    self |-> IF i = n THEN sample.value ELSE 0]
      BY <1>2
  <2>3. c[i] \in Calling
      BY <2>1, CallOK
  <2>4. f[i] = after(i)
    <3>1. CASE names[i] = Unresolved
      <4>1. own(i) = 0 /\ c[i] = c[i - 1]
          BY <1>1, <2>1, <3>1 DEF Own, Call
      <4>2. f[i] = f[i - 1]
          BY <2>1, <2>2, <3>1 DEF Visit
      <4> HIDE DEF own
      <4> QED BY <2>1, <4>1, <4>2
    <3>2. CASE names[i] # Unresolved
      <4>1. own(i) = (IF i = n THEN sample.value ELSE 0) /\ c[i] = Append(c[i - 1], names[i])
          BY <1>1, <2>1, <3>2 DEF Own, Call
      <4>2. own(i) \in Int /\ names[i] \in Names
          BY <1>0, <1>1, <3>2, <4>1
      <4>3. f[i] = Visit([node |-> c[i - 1], tree |-> Added(tree, c[i - 1], sample.value, 0)],
                         [name |-> names[i], nanos |-> sample.value, self |-> own(i)])
          BY <2>1, <2>2, <4>1
      <4> HIDE DEF own
      <4>4. f[i] = [node |-> Append(c[i - 1], names[i]),
                    tree |-> Added(tree, Append(c[i - 1], names[i]), sample.value, own(i))]
          BY <1>0, <2>1, <3>2, <4>2, <4>3, VisitOK
      <4> QED BY <4>1, <4>4
    <3> QED BY <3>1, <3>2
  <2> QED BY <2>3, <2>4
<1>9. n \in T
  <2>1. 0 .. n \subseteq T
    <3>1. n \in Nat /\ \A i \in 1 .. n : i - 1 \in T => i \in T
        BY <1>1, <1>8
    <3> HIDE DEF T, n
    <3> QED BY <1>7, <3>1, Upwards
  <2>2. n \in 0 .. n
      BY <1>1
  <2> HIDE DEF T, n
  <2> QED BY <2>1, <2>2
<1>10. Calls(sample) = c[n] /\ Walked(tree, sample) = f[n]
    BY <1>1, <1>2, <1>4, <1>5
<1>11. c[n] \in Calling /\ f[n].tree = Added(tree, c[n], sample.value, Own(sample))
    BY <1>9
<1> QED BY <1>10, <1>11 DEF AddSample

-----------------------------------------------------------------------------
LEMMA NewTreeOK == IsTree(NewTree)
BY DEF IsTree, NewTree, NewNode, NodeType

LEMMA CallsOK ==
  ASSUME NEW sample \in Samples
  PROVE  Calls(sample) \in Calling /\ Calls(sample) \in Prefixes(Calls(sample))
BY NewTreeOK, WalkOK, PrefixesOf DEF Calling

\* The summands of the time of a way.
LEMMA ValuesOK ==
  ASSUME NEW profile \in Seq(Samples), NEW values,
         values = [i \in DOMAIN profile |-> values[i]],
         \A i \in DOMAIN profile : values[i] \in {0, profile[i].value}
  PROVE  values \in Seq(Int) /\ Len(values) = Len(profile)
<1>1. \A sample \in Samples : sample.value \in Int
    BY DEF Samples
<1>2. \A i \in 1 .. Len(profile) : values[i] \in Int
    BY <1>1
<1>3. values = [i \in 1 .. Len(profile) |-> values[i]] /\ Len(profile) \in Nat
    OBVIOUS
<1>4. values \in Seq(Int)
    BY <1>2, <1>3
<1>5. Len(values) = Len(profile)
  <2>1. DOMAIN values = 1 .. Len(profile)
      BY <1>3
  <2> QED BY <1>3, <1>4, <2>1
<1> QED BY <1>4, <1>5

LEMMA TimesOK ==
  ASSUME NEW profile \in Seq(Samples), NEW way
  PROVE  /\ Times(profile, way) \in Seq(Int) /\ Len(Times(profile, way)) = Len(profile)
         /\ OwnTimes(profile, way) \in Seq(Int) /\ Len(OwnTimes(profile, way)) = Len(profile)
<1> DEFINE times == Times(profile, way)
           owns  == OwnTimes(profile, way)
<1>1. /\ times = [i \in DOMAIN profile |-> times[i]]
      /\ \A i \in DOMAIN profile : times[i] \in {0, profile[i].value}
    BY DEF Times
<1>2. /\ owns = [i \in DOMAIN profile |-> owns[i]]
      /\ \A i \in DOMAIN profile : owns[i] \in {0, profile[i].value}
    BY DEF OwnTimes
<1> HIDE DEF times, owns
<1>3. times \in Seq(Int) /\ Len(times) = Len(profile)
    BY <1>1, ValuesOK
<1>4. owns \in Seq(Int) /\ Len(owns) = Len(profile)
    BY <1>2, ValuesOK
<1> QED BY <1>3, <1>4 DEF times, owns

\* Ways that no sample goes have no time.
LEMMA ElsewhereNothing ==
  ASSUME NEW profile \in Seq(Samples), NEW way, way \notin Ways(profile)
  PROVE  Total(Times(profile, way)) = 0 /\ Total(OwnTimes(profile, way)) = 0
<1>1. ASSUME NEW i \in DOMAIN profile
      PROVE  Times(profile, way)[i] = 0 /\ OwnTimes(profile, way)[i] = 0
  <2>1. way \notin Prefixes(Calls(profile[i]))
      BY <1>1 DEF Ways
  <2>2. Calls(profile[i]) \in Prefixes(Calls(profile[i]))
    <3>1. profile[i] \in Samples
        OBVIOUS
    <3> QED BY <3>1, CallsOK
  <2> QED BY <2>1, <2>2 DEF Taken, Times, OwnTimes
<1>2. DOMAIN Times(profile, way) = DOMAIN profile /\ DOMAIN OwnTimes(profile, way) = DOMAIN profile
    BY DEF Times, OwnTimes
<1> QED BY <1>1, <1>2, TimesOK, TotalOK

LEMMA GraphOK ==
  ASSUME NEW profile \in Seq(Samples)
  PROVE  IsTree(GraphOf(profile))
BY TimesOK, TotalOK DEF IsTree, GraphOf, NodeType, Ways

\* One more summand.
LEMMA OneMore ==
  ASSUME NEW first \in Seq(Int), NEW second \in Seq(Int), Len(second) = Len(first) + 1,
         \A i \in 1 .. Len(first) : second[i] = first[i]
  PROVE  second = Append(first, second[Len(first) + 1])
<1>1. second[Len(first) + 1] \in Int /\ Len(first) \in Nat
    OBVIOUS
<1> QED BY <1>1

LEMMA TimesAppend ==
  ASSUME NEW profile \in Seq(Samples), NEW sample \in Samples, NEW way
  PROVE  LET more == Append(profile, sample)
         IN  /\ Total(Times(more, way)) = Total(Times(profile, way)) +
                  (IF way \in Prefixes(Calls(sample)) THEN sample.value ELSE 0)
             /\ Total(OwnTimes(more, way)) = Total(OwnTimes(profile, way)) +
                  (IF way = Calls(sample) THEN Own(sample) ELSE 0)
<1> DEFINE more  == Append(profile, sample)
           n     == Len(profile)
           value == IF way \in Prefixes(Calls(sample)) THEN sample.value ELSE 0
           own   == IF way = Calls(sample) THEN Own(sample) ELSE 0
<1>1. /\ n \in Nat /\ DOMAIN profile = 1 .. n
      /\ more \in Seq(Samples) /\ Len(more) = n + 1 /\ DOMAIN more = 1 .. n + 1
      /\ more[n + 1] = sample
      /\ \A i \in 1 .. n : more[i] = profile[i]
    OBVIOUS
<1>2. value \in Int /\ own \in Int
    BY DEF Samples, Own
<1> HIDE DEF more, n
<1>3. \A i \in 1 .. n : i \in 1 .. n + 1
    BY <1>1
<1>4. /\ \A i \in 1 .. n : Times(more, way)[i] = Times(profile, way)[i]
      /\ \A i \in 1 .. n : OwnTimes(more, way)[i] = OwnTimes(profile, way)[i]
    BY <1>1, <1>3 DEF Times, OwnTimes
<1>5. Times(more, way)[n + 1] = value /\ OwnTimes(more, way)[n + 1] = own
    BY <1>1 DEF Times, OwnTimes, Taken, Own
<1> HIDE DEF value, own
<1>6. /\ Times(more, way) = Append(Times(profile, way), value)
      /\ OwnTimes(more, way) = Append(OwnTimes(profile, way), own)
  <2>1. /\ Times(profile, way) \in Seq(Int) /\ Len(Times(profile, way)) = n
        /\ OwnTimes(profile, way) \in Seq(Int) /\ Len(OwnTimes(profile, way)) = n
        /\ Times(more, way) \in Seq(Int) /\ Len(Times(more, way)) = n + 1
        /\ OwnTimes(more, way) \in Seq(Int) /\ Len(OwnTimes(more, way)) = n + 1
      BY <1>1, TimesOK DEF n
  <2> QED BY <1>4, <1>5, <2>1, OneMore
<1>7. /\ Total(Times(more, way)) = Total(Times(profile, way)) + value
      /\ Total(OwnTimes(more, way)) = Total(OwnTimes(profile, way)) + own
    BY <1>2, <1>6, TimesOK, TotalAppend
<1> QED BY <1>7 DEF more, value, own

LEMMA WaysAppend ==
  ASSUME NEW profile \in Seq(Samples), NEW sample \in Samples
  PROVE  Ways(Append(profile, sample)) = Ways(profile) \cup Prefixes(Calls(sample))
<1> DEFINE more == Append(profile, sample)
<1>1. /\ Len(profile) \in Nat /\ DOMAIN profile = 1 .. Len(profile)
      /\ DOMAIN more = DOMAIN profile \cup {Len(profile) + 1}
      /\ more[Len(profile) + 1] = sample
      /\ \A i \in DOMAIN profile : more[i] = profile[i]
    OBVIOUS
<1> HIDE DEF more
<1> QED BY <1>1 DEF Ways, more

LEMMA GraphAppend ==
  ASSUME NEW profile \in Seq(Samples), NEW sample \in Samples
  PROVE  GraphOf(Append(profile, sample)) = AddSample(GraphOf(profile), sample)
<1> DEFINE more  == Append(profile, sample)
           calls == Calls(sample)
           graph == GraphOf(profile)
           added == Added(graph, calls, sample.value, Own(sample))
<1>1. AddSample(graph, sample) = added
    BY GraphOK, WalkOK
<1>2. DOMAIN GraphOf(more) = DOMAIN added
    BY WaysAppend DEF GraphOf, Added
<1>3. ASSUME NEW way
      PROVE  Node(graph, way) = [nanos |-> Total(Times(profile, way)),
                                 self  |-> Total(OwnTimes(profile, way))]
  <2>1. CASE way \in Ways(profile)
      BY <2>1 DEF GraphOf, Node
  <2>2. CASE way \notin Ways(profile)
      BY <2>2, ElsewhereNothing DEF GraphOf, Node, NewNode
  <2> QED BY <2>1, <2>2
<1>4. ASSUME NEW way \in DOMAIN added
      PROVE  GraphOf(more)[way] = added[way]
  <2>1. GraphOf(more)[way] = [nanos |-> Total(Times(more, way)), self |-> Total(OwnTimes(more, way))]
      BY <1>2 DEF GraphOf
  <2>2. added[way] = Grown(Node(graph, way), IF way \in Prefixes(calls) THEN sample.value ELSE 0,
                                             IF way = calls THEN Own(sample) ELSE 0)
      BY DEF Added
  <2>3. /\ Total(Times(more, way)) = Total(Times(profile, way)) +
             (IF way \in Prefixes(calls) THEN sample.value ELSE 0)
        /\ Total(OwnTimes(more, way)) = Total(OwnTimes(profile, way)) +
             (IF way = calls THEN Own(sample) ELSE 0)
      BY TimesAppend
  <2> HIDE DEF more, calls, graph, added
  <2> QED BY <1>3, <2>1, <2>2, <2>3 DEF Grown
<1>5. added = [way \in DOMAIN added |-> added[way]]
    BY DEF Added
<1>6. GraphOf(more) = [way \in DOMAIN GraphOf(more) |-> GraphOf(more)[way]]
    BY DEF GraphOf
<1> HIDE DEF more, added
<1>7. GraphOf(more) = added
    BY <1>2, <1>4, <1>5, <1>6
<1> QED BY <1>1, <1>7 DEF more

\* createFlameGraph makes the graph of every profile, however many samples it
\* has, however deep their stacks are and whatever of them has no name
\* (debug_profiles.go).
THEOREM FlameGraphTheorem ==
  ASSUME NEW profile \in Seq(Samples)
  PROVE  CreateFlameGraph(profile) = GraphOf(profile)
<1> DEFINE n == Len(profile)
           first(i) == SubSeq(profile, 1, i)
<1>1. n \in Nat
    OBVIOUS
<1>2. FoldedBy(AddSample, NewTree, profile)
    BY FoldedLeft, Zenon
<1>3. PICK f : FoldsAlong(AddSample, NewTree, profile, f) /\ CreateFlameGraph(profile) = f[n]
    BY <1>2, Zenon DEF FoldedBy, CreateFlameGraph
<1>4. f[0] = NewTree /\ \A i \in 1 .. n : f[i] = AddSample(f[i - 1], profile[i])
    BY <1>3, Zenon DEF FoldsAlong
<1> DEFINE T == {i \in 0 .. n : f[i] = GraphOf(first(i))}
<1>5. 0 \in T
  <2>1. Ways(<<>>) = {<<>>}
      BY DEF Ways
  <2>2. Times(<<>>, <<>>) = <<>> /\ OwnTimes(<<>>, <<>>) = <<>>
      BY DEF Times, OwnTimes
  <2>3. GraphOf(<<>>) = NewTree
      BY <2>1, <2>2, TotalNothing DEF GraphOf, NewTree, NewNode
  <2>4. first(0) = <<>> /\ 0 \in 0 .. n
      BY <1>1
  <2> QED BY <1>4, <2>3, <2>4
<1>6. ASSUME NEW i \in 1 .. n, i - 1 \in T PROVE i \in T
  <2>1. first(i) = Append(first(i - 1), profile[i]) /\ first(i - 1) \in Seq(Samples)
      BY <1>1
  <2>2. f[i] = AddSample(f[i - 1], profile[i]) /\ profile[i] \in Samples /\ i \in 0 .. n
      BY <1>1, <1>4
  <2>3. f[i - 1] = GraphOf(first(i - 1))
      BY <1>6
  <2> HIDE DEF first, n
  <2> QED BY <2>1, <2>2, <2>3, GraphAppend
<1>7. n \in T
  <2>1. 0 .. n \subseteq T
    <3> HIDE DEF T, n
    <3> QED BY <1>1, <1>5, <1>6, Upwards
  <2>2. n \in 0 .. n
      BY <1>1
  <2> HIDE DEF T, n
  <2> QED BY <2>1, <2>2
<1>8. first(n) = profile
    BY <1>1
<1> QED BY <1>3, <1>7, <1>8

\* So every flame graph that is served is exact.
THEOREM ExactTheorem == Spec => []FlameGraphExact
<1>1. IInv => FlameGraphExact
  <2> SUFFICES ASSUME IInv, NEW w \in Workers, NEW profile \in sampled[w]
               PROVE  CreateFlameGraph(profile) = GraphOf(profile)
      BY DEF FlameGraphExact
  <2>1. profile \in Seq(Samples)
      BY ControllerAssumption DEF IInv, TypeOK
  <2> QED BY <2>1, FlameGraphTheorem
<1> QED BY <1>1, Invariance, PTL

=============================================================================
