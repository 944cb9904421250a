----------------------------- MODULE WebServer -----------------------------
(***************************************************************************)
(* The life of one Server object: Start, Stop, the goroutine that runs     *)
(* fasthttp's Serve, the serveLoop goroutine and the requests in flight     *)
(* (webserver.go, webserver_serve.go).                                     *)
(*                                                                         *)
(* Three kinds of processes call Start and Stop: the application           *)
(* (Callers), a request handler (Workers) and the ListenErrorHandler,      *)
(* which runs on the serveLoop goroutine (Loop).  The goroutine that runs  *)
(* Serve calls nothing of the Server and is the variable serve.            *)
(***************************************************************************)
EXTENDS Integers

CONSTANTS
  Callers,  \* goroutines of the application that may call Start and Stop
  Workers,  \* connections fasthttp can serve at the same time
  Loop      \* the serveLoop goroutine

ASSUME ProcessesDistinct ==
  Callers \cap Workers = {} /\ Loop \notin Callers \cup Workers

Proc == Callers \cup Workers \cup {Loop}

NotStarted == 1
Starting   == 2
Running    == 3
Stopping   == 4
Stopped    == 5

VARIABLES
  state,     \* Server.state, one of the five values above
  signal,    \* number of messages in Server.startShutdownSignal (capacity 1)
  ch,        \* what serve's channel holds: nothing, an error or nil
  pc,        \* what each process is about to do
  serve,     \* the goroutine that runs fastserver.Serve
  listener,  \* the TCP listener
  shutdown   \* the ShutdownWithContext call and, once over, how it ended

vars == <<state, signal, ch, pc, serve, listener, shutdown>>

(***************************************************************************)
(* Where a process is while user code of its kind runs: that code may call *)
(* Start and Stop.                                                         *)
(***************************************************************************)
Home(p) == IF p \in Callers THEN "idle"
           ELSE IF p \in Workers THEN "handling" ELSE "handler"

StartPcs == {"listen", "running", "loop"}
StopPcs  == {"signal", "spin"}
LoopPcs  == {"none", "select", "failed", "closed", "handler",
             "signalled", "shutdown", "waiting", "ending", "done"}
Busy(w)  == pc[w] # "idle"

Goto(p, label) == pc' = [pc EXCEPT ![p] = label]

Init == /\ state = NotStarted
        /\ signal = 0
        /\ ch = "empty"
        /\ pc = [p \in Proc |-> IF p = Loop THEN "none" ELSE "idle"]
        /\ serve = "none"
        /\ listener = "none"
        /\ shutdown = "none"

-----------------------------------------------------------------------------
(* Start, and serve, which it calls.                                       *)

\* The CompareAndSwap of Start.  A Start that loses it returns an error and
\* changes nothing.
StartCas(p) ==
  /\ pc[p] = Home(p)
  /\ state = NotStarted
  /\ state' = Starting
  /\ Goto(p, "listen")
  /\ UNCHANGED <<signal, ch, serve, listener, shutdown>>

\* createListener fails: the state goes back and Start returns the error.
ListenFails(p) ==
  /\ pc[p] = "listen"
  /\ state' = NotStarted
  /\ Goto(p, Home(p))
  /\ UNCHANGED <<signal, ch, serve, listener, shutdown>>

\* createListener succeeds and serve spawns the goroutine that calls Serve.
Listen(p) ==
  /\ pc[p] = "listen"
  /\ listener' = "open"
  /\ serve' = "spawned"
  /\ Goto(p, "running")
  /\ UNCHANGED <<state, signal, ch, shutdown>>

SetRunning(p) ==
  /\ pc[p] = "running"
  /\ state' = Running
  /\ Goto(p, "loop")
  /\ UNCHANGED <<signal, ch, serve, listener, shutdown>>

SpawnLoop(p) ==
  /\ pc[p] = "loop"
  /\ pc' = [pc EXCEPT ![p] = Home(p), ![Loop] = "select"]
  /\ UNCHANGED <<state, signal, ch, serve, listener, shutdown>>

-----------------------------------------------------------------------------
(* Stop.                                                                   *)

\* Mutant: a Stop that finds the server stopping signals it once more.
StopCasTwice(p) ==
  /\ pc[p] = Home(p)
  /\ state \in {Running, Stopping}
  /\ state' = Stopping
  /\ Goto(p, "signal")
  /\ UNCHANGED <<signal, ch, serve, listener, shutdown>>

\* Mutant: Stop also interrupts a Start in progress.
StopCasStarting(p) ==
  /\ pc[p] = Home(p)
  /\ state \in {Starting, Running}
  /\ state' = Stopping
  /\ Goto(p, "signal")
  /\ UNCHANGED <<signal, ch, serve, listener, shutdown>>

\* The CompareAndSwap of Stop.  A Stop that loses it returns at once.
StopCas(p) ==
  /\ pc[p] = Home(p)
  /\ state = Running
  /\ state' = Stopping
  /\ Goto(p, "signal")
  /\ UNCHANGED <<signal, ch, serve, listener, shutdown>>

\* The send blocks while the channel is full.
StopSignal(p) ==
  /\ pc[p] = "signal"
  /\ signal < 1
  /\ signal' = signal + 1
  /\ Goto(p, "spin")
  /\ UNCHANGED <<state, ch, serve, listener, shutdown>>

\* Mutant: Stop does not wait for the server.
StopReturnAtOnce(p) ==
  /\ pc[p] = "spin"
  /\ Goto(p, Home(p))
  /\ UNCHANGED <<state, signal, ch, serve, listener, shutdown>>

\* The spin on the state ends.
StopReturn(p) ==
  /\ pc[p] = "spin"
  /\ state # Stopping
  /\ Goto(p, Home(p))
  /\ UNCHANGED <<state, signal, ch, serve, listener, shutdown>>

-----------------------------------------------------------------------------
(* The goroutine of Serve, and the connections it hands to the workers.    *)

\* Serve registers the listener with the fasthttp server and accepts on it.
ServeAccepts ==
  /\ serve = "spawned"
  /\ serve' = "accepting"
  /\ UNCHANGED <<state, signal, ch, pc, listener, shutdown>>

\* Mutant: ch is unbuffered, so the send needs the serve loop at its select.
ServeReturnsUnbuffered ==
  /\ serve = "accepting"
  /\ pc[Loop] = "select"
  /\ ch = "empty"
  /\ ch' \in IF listener = "closed" THEN {"nil"} ELSE {"nil", "error"}
  /\ serve' = "returned"
  /\ UNCHANGED <<state, signal, pc, listener, shutdown>>

\* Serve returns, nil after the listener is closed or at the end of file of
\* the listener and an error when Accept fails, and the goroutine sends the
\* result to ch, which has room for one.
ServeReturns ==
  /\ serve = "accepting"
  /\ ch = "empty"
  /\ ch' \in IF listener = "closed" THEN {"nil"} ELSE {"nil", "error"}
  /\ serve' = "returned"
  /\ UNCHANGED <<state, signal, pc, listener, shutdown>>

RequestArrives(w) ==
  /\ serve = "accepting"
  /\ listener = "open"
  /\ ~Busy(w)
  /\ Goto(w, "handling")
  /\ UNCHANGED <<state, signal, ch, serve, listener, shutdown>>

RequestEnds(w) ==
  /\ pc[w] = "handling"
  /\ Goto(w, "idle")
  /\ UNCHANGED <<state, signal, ch, serve, listener, shutdown>>

-----------------------------------------------------------------------------
(* serveLoop.  Both branches of its select may be ready.                   *)

LoopReceive ==
  /\ pc[Loop] = "select"
  /\ ch # "empty"
  /\ ch' = "empty"
  /\ Goto(Loop, IF ch = "error" THEN "failed" ELSE "closed")
  /\ UNCHANGED <<state, signal, serve, listener, shutdown>>

\* Mutant: the branch of a failed Serve does not set the state.
LoopStoppingMissing ==
  /\ pc[Loop] \in {"failed", "closed"}
  /\ Goto(Loop, IF pc[Loop] = "failed" THEN "handler" ELSE "ending")
  /\ UNCHANGED <<state, signal, ch, serve, listener, shutdown>>

\* Only an error is reported to the ListenErrorHandler.  A server without
\* one behaves as one whose handler returns at once.
LoopStopping ==
  /\ pc[Loop] \in {"failed", "closed"}
  /\ state' = Stopping
  /\ Goto(Loop, IF pc[Loop] = "failed" THEN "handler" ELSE "ending")
  /\ UNCHANGED <<signal, ch, serve, listener, shutdown>>

HandlerReturns ==
  /\ pc[Loop] = "handler"
  /\ Goto(Loop, "ending")
  /\ UNCHANGED <<state, signal, ch, serve, listener, shutdown>>

LoopSignal ==
  /\ pc[Loop] = "select"
  /\ signal > 0
  /\ signal' = signal - 1
  /\ Goto(Loop, "signalled")
  /\ UNCHANGED <<state, ch, serve, listener, shutdown>>

\* Mutant: the serve loop takes the signal but never shuts fasthttp down.
LoopShutdownSkipped ==
  /\ pc[Loop] = "signalled"
  /\ state' = Stopping
  /\ Goto(Loop, "ending")
  /\ UNCHANGED <<signal, ch, serve, listener, shutdown>>

LoopShutdown ==
  /\ pc[Loop] = "signalled"
  /\ state' = Stopping
  /\ Goto(Loop, "shutdown")
  /\ UNCHANGED <<signal, ch, serve, listener, shutdown>>

\* ShutdownWithContext is not given the listener: it closes the one that
\* Serve has registered, and returns at once when there is none yet.
CloseListener ==
  /\ pc[Loop] = "shutdown"
  /\ IF serve = "spawned"
       THEN /\ shutdown' = "nothing"
            /\ Goto(Loop, "ending")
            /\ UNCHANGED listener
       ELSE /\ shutdown' = "draining"
            /\ Goto(Loop, "waiting")
            /\ listener' = "closed"
  /\ UNCHANGED <<state, signal, ch, serve>>

\* ShutdownWithContext returns because no request is left ...
Drained ==
  /\ pc[Loop] = "waiting"
  /\ \A w \in Workers : ~Busy(w)
  /\ shutdown' = "drained"
  /\ Goto(Loop, "ending")
  /\ UNCHANGED <<state, signal, ch, serve, listener>>

\* Mutant: a shutdown without a deadline never gives up.
TimeoutNever ==
  /\ FALSE
  /\ UNCHANGED vars

\* ... or because shutdownTimeout has passed.
Timeout ==
  /\ pc[Loop] = "waiting"
  /\ shutdown' = "expired"
  /\ Goto(Loop, "ending")
  /\ UNCHANGED <<state, signal, ch, serve, listener>>

\* Mutant: the serve loop takes a pending signal out of the channel without
\* looking whether there is one.
LoopEndTakesSignal ==
  /\ pc[Loop] = "ending"
  /\ state' = Stopped
  /\ signal' = signal - 1
  /\ Goto(Loop, "done")
  /\ UNCHANGED <<ch, serve, listener, shutdown>>

LoopEnd ==
  /\ pc[Loop] = "ending"
  /\ state' = Stopped
  /\ Goto(Loop, "done")
  /\ UNCHANGED <<signal, ch, serve, listener, shutdown>>

-----------------------------------------------------------------------------
StartStep(p) == \/ ListenFails(p) \/ Listen(p) \/ SetRunning(p) \/ SpawnLoop(p)
StopStep(p)  == StopSignal(p) \/ StopReturn(p)
LoopStep     == \/ LoopReceive \/ LoopStopping \/ HandlerReturns \/ LoopEnd
                \/ LoopSignal \/ LoopShutdown \/ CloseListener
                \/ Drained \/ Timeout

\* The server is over: nothing more happens unless Serve still accepts.
Quiescent ==
  /\ state = Stopped
  /\ \A p \in Proc \ {Loop} : pc[p] = "idle"
  /\ serve # "spawned"
  /\ UNCHANGED vars

Next == \/ \E p \in Proc : StartCas(p) \/ StartStep(p)
        \/ \E p \in Proc : StopCas(p) \/ StopStep(p)
        \/ \E w \in Workers : RequestArrives(w) \/ RequestEnds(w)
        \/ ServeAccepts \/ ServeReturns
        \/ LoopStep
        \/ Quiescent

(***************************************************************************)
(* The goroutines run; the application need not call anything, a handler   *)
(* need not return and Serve need not fail.  Timeout is part of LoopStep:  *)
(* the deadline of the context always passes.  The ListenErrorHandler is   *)
(* assumed to return.                                                      *)
(***************************************************************************)
Fairness ==
  /\ \A p \in Proc : WF_vars(StartStep(p)) /\ WF_vars(StopStep(p))
  /\ WF_vars(ServeAccepts)
  /\ WF_vars(listener = "closed" /\ ServeReturns)
  /\ WF_vars(LoopStep)

Spec == Init /\ [][Next]_vars /\ Fairness

-----------------------------------------------------------------------------
TypeOK ==
  /\ state \in NotStarted..Stopped
  /\ signal \in 0..1
  /\ ch \in {"empty", "error", "nil"}
  /\ pc \in [Proc -> {"idle", "handling"} \cup StartPcs \cup StopPcs \cup LoopPcs]
  /\ serve \in {"none", "spawned", "accepting", "returned"}
  /\ listener \in {"none", "open", "closed"}
  /\ shutdown \in {"none", "nothing", "draining", "drained", "expired"}

\* The send of Stop finds room in the channel: of all the Stops that race,
\* on any goroutine and with a failure of Serve, one at most sends, so no
\* Stop can block on a signal nobody will take.
SignalNeverBlocks ==
  \A p \in Proc : pc[p] = "signal" =>
    /\ signal = 0
    /\ \A q \in Proc : pc[q] \in StopPcs => q = p

\* A ListenErrorHandler that calls Stop does not wait for itself: the serve
\* loop goroutine never reaches the send or the spin of Stop, because the
\* state has left Running before the handler is called.
HandlerStopSafe == pc[Loop] \notin StopPcs \cup StartPcs

\* A server that stopped because Stop was called, not because Serve failed,
\* has no request in flight, unless the deadline passed or Stop came before
\* fasthttp knew the listener.
GracefulDrain ==
  state = Stopped =>
    \/ \A w \in Workers : ~Busy(w)
    \/ shutdown \in {"nothing", "expired"}
    \/ serve = "returned" /\ listener = "open"

\* The state only moves forward, whoever sets it, except for the way back of
\* a Start that could not listen: a server that left Running, by Stop or by
\* a failure of Serve, is never seen running again.
StateNeverRegresses ==
  [][ \/ state' >= state
      \/ state = Starting /\ state' = NotStarted ]_vars

\* The Stop that wins the race returns only when the server has stopped.
StopReturnsStopped ==
  [][ \A p \in Proc : pc[p] = "spin" /\ pc'[p] # "spin" => state' = Stopped ]_vars

\* A Stop that wins the race returns, also when a request handler calls it
\* and the shutdown waits for that very request, and when Serve fails at
\* the same moment and the signal is never received.
StopReturns ==
  \A p \in Proc : pc[p] \in StopPcs ~> pc[p] = Home(p)

\* The goroutine that runs Serve ends with the server, although the serve
\* loop is no longer there to receive its result; a shutdown too early for
\* fasthttp to know the listener is the exception (see StoppedMeansClosed).
ServeGoroutineEnds ==
  listener = "closed" ~> serve = "returned"

\* "Stop shuts down the web server": a stopped server accepts nothing.
StoppedMeansClosed ==
  state = Stopped => ~(serve = "accepting" /\ listener = "open")

-----------------------------------------------------------------------------
\* What is promised of the state, and of how the shutdown ended.
Phase == CASE state \in {NotStarted, Starting} -> "off"
           [] state = Running  -> "up"
           [] state = Stopping -> "stopping"
           [] state = Stopped  -> IF shutdown = "drained" THEN "drained" ELSE "abandoned"

Stoppers == {p \in Proc : pc[p] \in StopPcs}
Serving  == {w \in Workers : Busy(w)}

OneShot == INSTANCE OneShotServer WITH
             phase <- Phase, stoppers <- Stoppers, serving <- Serving

\* Whatever the goroutines do in between, the server is one that comes up
\* once and goes down once: the two ways down that may cross each other (Stop,
\* and Serve that fails), three kinds of processes that call, the channel, the
\* spin and the deadline look like single steps from outside.
ImplementsOneShot == OneShot!Spec

\* A server on its way down gets there, also when nobody stopped it but Serve
\* has failed, and whoever stopped it gets his answer.
GoesDown == OneShot!Fairness

=============================================================================
