-------------------------- MODULE MCLimiterClients --------------------------
(* Small instance of LimiterClients, and so of RateLimiter: the addresses  *)
(* of a client, in two forms, and of a proxy.                              *)
EXTENDS LimiterClients, TLC

MCSlotOf == [k \in Keys |-> "slot"]
MCText   == [client |-> "192.0.2.1", mapped |-> "192.0.2.1", proxy |-> "10.0.0.1"]

\* The proxy is on the list, along with a range that is no range.
MCProxies == {[text |-> "10.0.0.1"], [range |-> {}]}

\* Words do not touch each other.
MCHeaders ==
  {h \in BoundedSeq(Keys \cup {" ", ",", "unknown"}, 4) :
     \A i \in 1 .. Len(h) - 1 : h[i] \in {" ", ","} \/ h[i + 1] \in {" ", ","}}

\* The requests are interchangeable.
Symmetry == Permutations(Requests)

=============================================================================
