--------------------------- MODULE AtomicLimiter ---------------------------
(***************************************************************************)
(* What the rate limiter promises, with no mutex, no storage and no copy   *)
(* of an entry in sight: a request is counted and judged in one step, and  *)
(* gives its hit back in one step.                                         *)
(*                                                                         *)
(* How much the window before still weighs is left open, between nothing   *)
(* and all of its hits.                                                    *)
(***************************************************************************)
EXTENDS Integers

CONSTANTS Requests, Keys, Limit, Expiration, SkipFailed, None

VARIABLES
  now,      \* the clock
  window,   \* the window of each key: its end, its hits, the hits before it
  charged,  \* the key that each request has been counted under, or None
  verdict   \* "waiting", "admitted", "limited" or "over"

vars == <<now, window, charged, verdict>>

Init == /\ now = 1
        /\ window = [k \in Keys |-> [end |-> 0, hits |-> 0, before |-> 0]]
        /\ charged = [r \in Requests |-> None]
        /\ verdict = [r \in Requests |-> "waiting"]

\* A hit at time ts belongs to the window that has not ended, or opens one.
WithHit(old, ts) ==
  IF ts < old.end THEN {[old EXCEPT !.hits = @ + 1]}
  ELSE [end : (ts + 1) .. (ts + Expiration), hits : {1}, before : {0, old.hits}]

\* More hits than the limit in the window are too many, and no more than the
\* limit in both windows are not.  The answer may get lost.
Answers(new) == (IF new.hits <= Limit THEN {"admitted"} ELSE {})
           \cup (IF new.hits + new.before > Limit THEN {"limited"} ELSE {})
           \cup {"over"}

Count(r, k) ==
  /\ verdict[r] = "waiting" /\ charged[r] = None
  /\ \E ts \in 1 .. now : \E new \in WithHit(window[k], ts) : \E answer \in Answers(new) :
       /\ window' = [window EXCEPT ![k] = new]
       /\ verdict' = [verdict EXCEPT ![r] = answer]
  /\ charged' = [charged EXCEPT ![r] = k]
  /\ UNCHANGED now

Finish(r) ==
  /\ verdict[r] \in {"waiting", "admitted"}
  /\ verdict' = [verdict EXCEPT ![r] = "over"]
  /\ UNCHANGED <<now, window, charged>>

\* Once for each request that was let through, and from its own key.
GiveBack(r) ==
  /\ SkipFailed
  /\ verdict[r] = "admitted"
  /\ verdict' = [verdict EXCEPT ![r] = "over"]
  /\ window[charged[r]].hits > 0
  /\ window' = [window EXCEPT ![charged[r]].hits = @ - 1]
  /\ UNCHANGED <<now, charged>>

Tick == now' = now + 1 /\ UNCHANGED <<window, charged, verdict>>

Next == \/ \E r \in Requests : Finish(r) \/ GiveBack(r) \/ \E k \in Keys : Count(r, k)
        \/ Tick

Spec == Init /\ [][Next]_vars

=============================================================================
