--------------------------- MODULE OneShotServer ---------------------------
(***************************************************************************)
(* What Start and Stop promise of a Server, with no goroutine in sight: it *)
(* comes up once; one Stop at most, or a failure, takes it down, and it    *)
(* never comes back; the Stop that did it returns when the server is down. *)
(* A server that went down in good order has answered all it has taken,    *)
(* and takes nothing more.                                                 *)
(***************************************************************************)
CONSTANTS Proc, Workers

VARIABLES
  phase,     \* "off", "up", "stopping", and then "drained" or "abandoned"
  stoppers,  \* whose Stop is in progress
  serving    \* the requests in flight

vars == <<phase, stoppers, serving>>

Init == phase = "off" /\ stoppers = {} /\ serving = {}

GoUp == /\ phase = "off" /\ phase' = "up"
        /\ UNCHANGED <<stoppers, serving>>

Stop(p) == /\ phase = "up" /\ phase' = "stopping"
           /\ stoppers' = {p}
           /\ UNCHANGED serving

Fail == /\ phase = "up" /\ phase' = "stopping"
        /\ UNCHANGED <<stoppers, serving>>

GoDown == /\ phase = "stopping"
          /\ phase' \in IF serving = {} THEN {"drained", "abandoned"} ELSE {"abandoned"}
          /\ UNCHANGED <<stoppers, serving>>

Return(p) == /\ phase \in {"drained", "abandoned"}
             /\ p \in stoppers /\ stoppers' = stoppers \ {p}
             /\ UNCHANGED <<phase, serving>>

\* The listener is open before Start returns, so also while it is "off".
Take(w) == /\ phase # "drained"
           /\ w \notin serving /\ serving' = serving \cup {w}
           /\ UNCHANGED <<phase, stoppers>>

Reply(w) == /\ w \in serving /\ serving' = serving \ {w}
            /\ UNCHANGED <<phase, stoppers>>

Next == \/ GoUp \/ Fail \/ GoDown
        \/ \E p \in Proc : Stop(p) \/ Return(p)
        \/ \E w \in Workers : Take(w) \/ Reply(w)

Spec == Init /\ [][Next]_vars

\* Neither the way down nor the return of a Stop is up to anybody.
Fairness == WF_vars(GoDown) /\ \A p \in Proc : WF_vars(Return(p))

=============================================================================
