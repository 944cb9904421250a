-------------------------- MODULE WebServerProofs --------------------------
(***************************************************************************)
(* Proofs of the safety properties of WebServer, for any number of callers *)
(* and of connections.                                                     *)
(*                                                                         *)
(* The inductive invariant says who may be where in each state.  One       *)
(* process at a time is between the CompareAndSwap of Start and the spawn  *)
(* of the serve loop, and until that spawn there is no serve loop; one     *)
(* process over the life of the server is between the CompareAndSwap of    *)
(* Stop and its return, and its signal is on its way to the serve loop,    *)
(* in the channel, or taken.                                               *)
(***************************************************************************)
EXTENDS WebServer, TLAPS

StartOK ==
  \A p \in Proc : pc[p] \in StartPcs =>
    /\ pc[Loop] = "none"
    /\ pc[p] = "listen" => state = Starting /\ serve = "none"
    /\ pc[p] = "running" => state = Starting /\ listener = "open"
    /\ pc[p] = "loop" => state \in {Running, Stopping} /\ listener = "open"
    /\ \A q \in Proc : pc[q] \in StartPcs => q = p

\* Somebody is starting a server that is being started.
StartingOK == state = Starting => \E p \in Proc : pc[p] \in {"listen", "running"}

StopOK ==
  \A p \in Proc : pc[p] \in StopPcs =>
    /\ state \in {Stopping, Stopped}
    /\ pc[p] = "signal" => signal = 0 /\ shutdown = "none" /\ pc[Loop] \notin {"signalled", "shutdown"}
    /\ \A q \in Proc : pc[q] \in StopPcs => q = p

LoopOK ==
  /\ pc[Loop] \in LoopPcs
  /\ state \in {NotStarted, Starting} => pc[Loop] = "none"
  /\ state = NotStarted => serve = "none"
  /\ state = Running => pc[Loop] \in {"none", "select", "failed", "closed"}
  /\ pc[Loop] \in {"handler", "signalled", "shutdown", "waiting", "ending"} => state = Stopping
  /\ pc[Loop] = "done" <=> state = Stopped

SignalOK ==
  /\ state \in {NotStarted, Starting, Running} => signal = 0
  /\ pc[Loop] \in {"signalled", "shutdown"} \/ shutdown # "none" => signal = 0

ServeOK ==
  /\ ch # "empty" => serve = "returned"
  /\ pc[Loop] \in {"select", "failed", "closed", "handler", "signalled", "shutdown"} => listener = "open"
  /\ pc[Loop] \in {"failed", "closed", "handler"} => serve = "returned"

ShutdownOK ==
  /\ pc[Loop] \notin {"waiting", "ending", "done"} => shutdown = "none"
  /\ shutdown = "draining" <=> pc[Loop] = "waiting"
  /\ shutdown \in {"draining", "drained"} => listener = "closed"
  /\ shutdown = "drained" => \A w \in Workers : ~Busy(w)
  /\ shutdown = "none" /\ pc[Loop] \in {"ending", "done"} => serve = "returned" /\ listener = "open"

IInv == /\ TypeOK /\ StartOK /\ StartingOK /\ StopOK /\ LoopOK
        /\ SignalOK /\ ServeOK /\ ShutdownOK

-----------------------------------------------------------------------------
\* The five values of the state are distinct numbers.
LEMMA StateValues ==
  /\ NotStarted = 1 /\ Starting = 2 /\ Running = 3 /\ Stopping = 4 /\ Stopped = 5
  /\ NotStarted..Stopped = {NotStarted, Starting, Running, Stopping, Stopped}
BY DEF NotStarted, Starting, Running, Stopping, Stopped

\* The invariant holds of a server that Create has returned.
LEMMA InitOK == Init => IInv
<1> SUFFICES ASSUME Init PROVE IInv
    OBVIOUS
<1> USE StateValues DEF Init
<1>1. /\ pc[Loop] = "none"
      /\ \A p \in Proc : pc[p] \in {"none", "idle"}
      /\ \A w \in Workers : pc[w] = "idle"
    BY ProcessesDistinct DEF Proc
<1>2. TypeOK
    BY <1>1 DEF TypeOK, LoopPcs, NotStarted
<1>3. StartOK /\ StartingOK /\ StopOK
    BY <1>1 DEF StartOK, StartingOK, StopOK, StartPcs, StopPcs
<1>4. LoopOK /\ SignalOK /\ ServeOK /\ ShutdownOK
    BY <1>1 DEF LoopOK, SignalOK, ServeOK, ShutdownOK, LoopPcs, Busy
<1> QED BY <1>2, <1>3, <1>4 DEF IInv

\* Every step of the server, of its callers and of fasthttp keeps it.
LEMMA StepOK == IInv /\ [Next]_vars => IInv'
<1> SUFFICES ASSUME IInv, [Next]_vars PROVE IInv'
    OBVIOUS
<1> USE ProcessesDistinct, StateValues
    DEF IInv, TypeOK, StartOK, StartingOK, StopOK, LoopOK, SignalOK, ServeOK, ShutdownOK,
        Proc, StartPcs, StopPcs, LoopPcs, Busy, Goto, Home
<1>1. ASSUME NEW p \in Proc, ListenFails(p) PROVE IInv'
    BY <1>1 DEF ListenFails
<1>2. ASSUME NEW p \in Proc, Listen(p) PROVE IInv'
    BY <1>2 DEF Listen
<1>3. ASSUME NEW p \in Proc, SetRunning(p) PROVE IInv'
    BY <1>3 DEF SetRunning
<1>4. ASSUME NEW p \in Proc, SpawnLoop(p) PROVE IInv'
    BY <1>4 DEF SpawnLoop
<1>5. ASSUME NEW p \in Proc, StartCas(p) PROVE IInv'
    BY <1>5 DEF StartCas
<1>6. ASSUME NEW p \in Proc, StopCas(p) PROVE IInv'
    BY <1>6 DEF StopCas
<1>7. ASSUME NEW p \in Proc, StopSignal(p) PROVE IInv'
    BY <1>7 DEF StopSignal
<1>8. ASSUME NEW p \in Proc, StopReturn(p) PROVE IInv'
    BY <1>8 DEF StopReturn
<1>9. ASSUME NEW w \in Workers, RequestArrives(w) PROVE IInv'
    BY <1>9 DEF RequestArrives
<1>10. ASSUME NEW w \in Workers, RequestEnds(w) PROVE IInv'
    BY <1>10 DEF RequestEnds
<1>11. CASE ServeAccepts
    BY <1>11 DEF ServeAccepts
<1>12. CASE ServeReturns
    BY <1>12 DEF ServeReturns
<1>13. CASE LoopReceive
    BY <1>13 DEF LoopReceive
<1>14. CASE LoopStopping
    BY <1>14 DEF LoopStopping
<1>15. CASE HandlerReturns
    BY <1>15 DEF HandlerReturns
<1>16. CASE LoopSignal
    BY <1>16 DEF LoopSignal
<1>17. CASE LoopShutdown
    BY <1>17 DEF LoopShutdown
<1>18. CASE CloseListener
    BY <1>18 DEF CloseListener
<1>19. CASE Drained
    BY <1>19 DEF Drained
<1>20. CASE Timeout
    BY <1>20 DEF Timeout
<1>21. CASE LoopEnd
    BY <1>21 DEF LoopEnd
<1>22. CASE UNCHANGED vars
    BY <1>22 DEF vars
<1> QED
    BY <1>1, <1>2, <1>3, <1>4, <1>5, <1>6, <1>7, <1>8, <1>9, <1>10, <1>11,
       <1>12, <1>13, <1>14, <1>15, <1>16, <1>17, <1>18, <1>19, <1>20, <1>21, <1>22
    DEF Next, StartStep, StopStep, LoopStep, Quiescent

LEMMA Invariance == Spec => []IInv
BY InitOK, StepOK, PTL DEF Spec

-----------------------------------------------------------------------------
\* Type correctness, for any number of callers and connections.
THEOREM TypeCorrect == Spec => []TypeOK
<1>1. IInv => TypeOK
    BY DEF IInv
<1> QED BY <1>1, Invariance, PTL

\* No Stop ever blocks on the send of its signal (webserver.go, Stop).
THEOREM SignalTheorem == Spec => []SignalNeverBlocks
<1>1. IInv => SignalNeverBlocks
    BY DEF IInv, StopOK, SignalNeverBlocks, StopPcs
<1> QED BY <1>1, Invariance, PTL

\* The ListenErrorHandler may call Start and Stop (webserver_serve.go,
\* serveLoop): the goroutine it runs on never waits for itself.
THEOREM HandlerStopTheorem == Spec => []HandlerStopSafe
<1>1. IInv => HandlerStopSafe
    BY DEF IInv, LoopOK, HandlerStopSafe, LoopPcs, StartPcs, StopPcs
<1> QED BY <1>1, Invariance, PTL

\* A shutdown that was not cut short leaves no request in flight.
THEOREM DrainTheorem == Spec => []GracefulDrain
<1>1. IInv => GracefulDrain
    BY StateValues
       DEF IInv, TypeOK, LoopOK, ShutdownOK, GracefulDrain
<1> QED BY <1>1, Invariance, PTL

\* The state never moves back, whatever the race.
THEOREM ForwardTheorem == Spec => StateNeverRegresses
<1>1. IInv /\ [Next]_vars =>
        [\/ state' >= state
         \/ state = Starting /\ state' = NotStarted]_vars
  <2> SUFFICES ASSUME IInv, Next
               PROVE  \/ state' >= state
                      \/ state = Starting /\ state' = NotStarted
      OBVIOUS
  <2>1. state \in {1, 2, 3, 4, 5}
      BY StateValues DEF IInv, TypeOK
  <2> QED BY <2>1, StateValues
      DEF IInv, StartOK, LoopOK, StartPcs, Next, StartStep, StopStep, LoopStep,
          StartCas, ListenFails, Listen, SetRunning, SpawnLoop, StopCas,
          StopSignal, StopReturn, RequestArrives, RequestEnds, ServeAccepts,
          ServeReturns, LoopReceive, LoopStopping, HandlerReturns, LoopSignal,
          LoopShutdown, CloseListener, Drained, Timeout, LoopEnd, Quiescent, vars
<1> QED BY <1>1, Invariance, PTL DEF Spec, StateNeverRegresses

\* The Stop that won the CompareAndSwap returns from its spin only when the
\* server has stopped.
THEOREM StopTheorem == Spec => StopReturnsStopped
<1>1. IInv /\ [Next]_vars =>
        [\A p \in Proc : pc[p] = "spin" /\ pc'[p] # "spin" => state' = Stopped]_vars
  <2> SUFFICES ASSUME IInv, Next, NEW p \in Proc, pc[p] = "spin", pc'[p] # "spin"
               PROVE  state' = Stopped
      OBVIOUS
  <2>1. pc \in [Proc -> {"idle", "handling"} \cup StartPcs \cup StopPcs \cup LoopPcs]
      BY DEF IInv, TypeOK
  <2>2. /\ pc[Loop] # "spin" /\ p # Loop
        /\ state \in {Stopping, Stopped}
      BY DEF IInv, LoopOK, StopOK, LoopPcs, StopPcs
  <2>3. StopReturn(p)
      BY <2>1, <2>2
      DEF Next, StartStep, StopStep, LoopStep, Goto, Home, Busy, Proc, vars,
          StartCas, ListenFails, Listen, SetRunning, SpawnLoop, StopCas,
          StopSignal, StopReturn, RequestArrives, RequestEnds, ServeAccepts,
          ServeReturns, LoopReceive, LoopStopping, HandlerReturns, LoopSignal,
          LoopShutdown, CloseListener, Drained, Timeout, LoopEnd, Quiescent
  <2> QED BY <2>2, <2>3 DEF StopReturn
<1> QED BY <1>1, Invariance, PTL DEF Spec, StopReturnsStopped

-----------------------------------------------------------------------------
(* The refinement: each step is one of OneShotServer, or none.             *)

\* A process that moves neither into nor out of Stop, and a connection that
\* is busy before and after, are where they were for OneShotServer.
LEMMA MovesInside ==
  ASSUME TypeOK, NEW p \in Proc, NEW label, Goto(p, label),
         pc[p] \in StopPcs <=> label \in StopPcs,
         p \in Workers => pc[p] # "idle" /\ label # "idle"
  PROVE  Stoppers' = Stoppers /\ Serving' = Serving
<1>1. pc' = [pc EXCEPT ![p] = label] /\ DOMAIN pc = Proc
    BY DEF TypeOK, Goto
<1>2. \A q \in Proc : pc'[q] = IF q = p THEN label ELSE pc[q]
    BY <1>1
<1>3. Stoppers' = Stoppers
    BY <1>2 DEF Stoppers
<1>4. Serving' = Serving
    BY <1>2 DEF Serving, Busy, Proc
<1> QED BY <1>3, <1>4

LEMMA OneShotInit == Init => OneShot!Init
<1> SUFFICES ASSUME Init PROVE Phase = "off" /\ Stoppers = {} /\ Serving = {}
    BY DEF OneShot!Init
<1>1. Phase = "off"
    BY StateValues DEF Init, Phase
<1>2. /\ \A p \in Proc : pc[p] \notin StopPcs
      /\ \A w \in Workers : pc[w] = "idle"
    BY ProcessesDistinct DEF Init, StopPcs, Proc
<1>3. Stoppers = {} /\ Serving = {}
    BY <1>2 DEF Stoppers, Serving, Busy
<1> QED BY <1>1, <1>3

LEMMA OneShotStep == IInv /\ [Next]_vars => [OneShot!Next]_(OneShot!vars)
<1> SUFFICES ASSUME IInv, [Next]_vars PROVE [OneShot!Next]_(OneShot!vars)
    OBVIOUS
<1> DEFINE Stutter == Phase' = Phase /\ Stoppers' = Stoppers /\ Serving' = Serving
<1>0. /\ TypeOK /\ StartOK /\ StopOK /\ LoopOK /\ ShutdownOK
      /\ Loop \in Proc /\ Loop \notin Workers /\ Workers \subseteq Proc
    BY ProcessesDistinct DEF IInv, Proc
<1>s. Stutter => [OneShot!Next]_(OneShot!vars)
    BY DEF OneShot!vars
<1>h. \A p \in Proc : /\ Home(p) \in {"idle", "handling", "handler"}
                      /\ p \in Workers => Home(p) = "handling"
    BY ProcessesDistinct DEF Home
<1> HIDE DEF Stutter
<1> USE <1>0, <1>h, StateValues DEF StopPcs
\* The steps of Start.
<1>1. ASSUME NEW p \in Proc, StartCas(p) PROVE Stutter
  <2>1. Stoppers' = Stoppers /\ Serving' = Serving
      BY <1>1, MovesInside DEF StartCas
  <2> QED BY <1>1, <2>1 DEF StartCas, Phase, Stutter
<1>2. ASSUME NEW p \in Proc, ListenFails(p) PROVE Stutter
  <2>1. Stoppers' = Stoppers /\ Serving' = Serving
      BY <1>2, MovesInside DEF ListenFails
  <2> QED BY <1>2, <2>1 DEF ListenFails, Phase, Stutter, StartOK, StartPcs
<1>3. ASSUME NEW p \in Proc, Listen(p) PROVE Stutter
  <2>1. Stoppers' = Stoppers /\ Serving' = Serving
      BY <1>3, MovesInside DEF Listen
  <2> QED BY <1>3, <2>1 DEF Listen, Phase, Stutter
<1>4. ASSUME NEW p \in Proc, SetRunning(p) PROVE OneShot!GoUp
  <2>1. Stoppers' = Stoppers /\ Serving' = Serving
      BY <1>4, MovesInside DEF SetRunning
  <2> QED BY <1>4, <2>1 DEF SetRunning, Phase, OneShot!GoUp, StartOK, StartPcs
<1>5. ASSUME NEW p \in Proc, SpawnLoop(p) PROVE Stutter
  <2>1. pc' = [pc EXCEPT ![p] = Home(p), ![Loop] = "select"] /\ pc[p] = "loop"
        /\ pc[Loop] = "none" /\ p # Loop /\ DOMAIN pc = Proc
        /\ UNCHANGED <<state, shutdown>>
      BY <1>5 DEF SpawnLoop, StartOK, StartPcs, TypeOK
  <2>2. Stoppers' = Stoppers
      BY <2>1 DEF Stoppers
  <2>3. Serving' = Serving
      BY <2>1 DEF Serving, Busy
  <2> QED BY <1>5, <2>2, <2>3 DEF SpawnLoop, Phase, Stutter
\* The steps of Stop.
<1>6. ASSUME NEW p \in Proc, StopCas(p) PROVE OneShot!Stop(p)
  <2>1. pc' = [pc EXCEPT ![p] = "signal"] /\ pc[p] = Home(p) /\ DOMAIN pc = Proc
        /\ state = Running /\ state' = Stopping /\ UNCHANGED shutdown
      BY <1>6 DEF StopCas, TypeOK, Goto
  <2>2. \A q \in Proc : pc[q] \notin StopPcs
      BY <2>1 DEF StopOK
  <2>3. \A q \in Proc : pc'[q] \in StopPcs <=> q = p
      BY <2>1, <2>2
  <2>4. Stoppers' = {p}
      BY <2>3 DEF Stoppers
  <2>5. Serving' = Serving
      BY <2>1 DEF Serving, Busy
  <2> QED BY <2>1, <2>4, <2>5 DEF Phase, OneShot!Stop
<1>7. ASSUME NEW p \in Proc, StopSignal(p) PROVE Stutter
  <2>1. Stoppers' = Stoppers /\ Serving' = Serving
      BY <1>7, MovesInside DEF StopSignal
  <2> QED BY <1>7, <2>1 DEF StopSignal, Phase, Stutter
<1>8. ASSUME NEW p \in Proc, StopReturn(p) PROVE OneShot!Return(p)
  <2>1. pc' = [pc EXCEPT ![p] = Home(p)] /\ pc[p] = "spin" /\ DOMAIN pc = Proc
        /\ state = Stopped /\ UNCHANGED <<state, shutdown>>
      BY <1>8 DEF StopReturn, TypeOK, Goto, StopOK
  <2>2. p \in Stoppers /\ Stoppers' = Stoppers \ {p}
      BY <2>1 DEF Stoppers
  <2>3. Serving' = Serving
      BY <2>1 DEF Serving, Busy
  <2>4. Phase \in {"drained", "abandoned"} /\ Phase' = Phase
      BY <2>1 DEF Phase
  <2> QED BY <2>2, <2>3, <2>4 DEF OneShot!Return
\* The requests.
<1>9. ASSUME NEW w \in Workers, RequestArrives(w) PROVE OneShot!Take(w)
  <2>1. pc' = [pc EXCEPT ![w] = "handling"] /\ pc[w] = "idle" /\ DOMAIN pc = Proc
        /\ listener = "open" /\ UNCHANGED <<state, shutdown>>
      BY <1>9 DEF RequestArrives, TypeOK, Goto, Busy
  <2>2. Stoppers' = Stoppers
      BY <2>1 DEF Stoppers
  <2>3. w \notin Serving /\ Serving' = Serving \cup {w}
      BY <2>1 DEF Serving, Busy
  <2>4. Phase # "drained" /\ Phase' = Phase
      BY <2>1 DEF Phase, ShutdownOK, TypeOK
  <2> QED BY <2>2, <2>3, <2>4 DEF OneShot!Take
<1>10. ASSUME NEW w \in Workers, RequestEnds(w) PROVE OneShot!Reply(w)
  <2>1. pc' = [pc EXCEPT ![w] = "idle"] /\ pc[w] = "handling" /\ DOMAIN pc = Proc
        /\ UNCHANGED <<state, shutdown>>
      BY <1>10 DEF RequestEnds, TypeOK, Goto
  <2>2. Stoppers' = Stoppers
      BY <2>1 DEF Stoppers
  <2>3. w \in Serving /\ Serving' = Serving \ {w}
      BY <2>1 DEF Serving, Busy
  <2>4. Phase' = Phase
      BY <2>1 DEF Phase
  <2> QED BY <2>2, <2>3, <2>4 DEF OneShot!Reply
\* The goroutine of Serve, which is none of the processes.
<1>11. CASE ServeAccepts \/ ServeReturns \/ UNCHANGED vars
  <2>1. UNCHANGED <<state, pc, shutdown>>
      BY <1>11 DEF ServeAccepts, ServeReturns, vars
  <2> QED BY <2>1, <1>s DEF Phase, Stoppers, Serving, Busy, Stutter
\* The serve loop: no step of it moves anything but Loop.
<1>12. ASSUME LoopStep
       PROVE  Stoppers' = Stoppers /\ Serving' = Serving
  <2>1. ASSUME NEW label \in LoopPcs, Goto(Loop, label)
        PROVE  Stoppers' = Stoppers /\ Serving' = Serving
      BY <2>1, MovesInside DEF LoopPcs, LoopOK
  <2>2. \E label \in LoopPcs : Goto(Loop, label)
      BY <1>12 DEF LoopStep, LoopReceive, LoopStopping, HandlerReturns, LoopEnd, LoopSignal,
                  LoopShutdown, CloseListener, Drained, Timeout, LoopPcs
  <2> QED BY <2>1, <2>2
<1>13. CASE LoopReceive \/ HandlerReturns \/ LoopSignal
  <2>1. UNCHANGED <<state, shutdown>>
      BY <1>13 DEF LoopReceive, HandlerReturns, LoopSignal
  <2> QED BY <1>13, <1>12, <2>1, <1>s DEF Phase, LoopStep, Stutter
<1>14. CASE LoopStopping \/ LoopShutdown
  <2>1. state \in {Running, Stopping} /\ state' = Stopping /\ UNCHANGED shutdown
      BY <1>14 DEF LoopStopping, LoopShutdown, LoopOK, TypeOK
  <2>2. Phase' = Phase \/ (Phase = "up" /\ Phase' = "stopping")
      BY <2>1 DEF Phase
  <2> QED BY <1>14, <1>12, <2>2, <1>s DEF LoopStep, Stutter, OneShot!Fail, OneShot!Next
<1>15. CASE CloseListener \/ Drained \/ Timeout
  <2>1. state = Stopping /\ UNCHANGED state
      BY <1>15 DEF CloseListener, Drained, Timeout, LoopOK
  <2> QED BY <1>15, <1>12, <2>1, <1>s DEF Phase, LoopStep, Stutter
<1>16. CASE LoopEnd
  <2>1. state = Stopping /\ state' = Stopped /\ UNCHANGED shutdown
      BY <1>16 DEF LoopEnd, LoopOK
  <2>2. shutdown = "drained" => Serving = {}
      BY DEF ShutdownOK, Serving
  <2>3. /\ Phase = "stopping"
        /\ Phase' \in IF Serving = {} THEN {"drained", "abandoned"} ELSE {"abandoned"}
      BY <2>1, <2>2 DEF Phase
  <2> QED BY <1>16, <1>12, <2>3 DEF LoopStep, OneShot!GoDown, OneShot!Next
<1> QED
    BY <1>s, <1>1, <1>2, <1>3, <1>4, <1>5, <1>6, <1>7, <1>8, <1>9, <1>10, <1>11,
       <1>13, <1>14, <1>15, <1>16
    DEF Next, StartStep, StopStep, LoopStep, Quiescent, OneShot!Next

\* The server is a OneShotServer, for any number of callers and connections.
THEOREM OneShotTheorem == Spec => ImplementsOneShot
<1> QED BY OneShotInit, OneShotStep, Invariance, PTL
        DEF Spec, ImplementsOneShot, OneShot!Spec

=============================================================================
