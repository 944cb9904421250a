--------------------------- MODULE MCRateLimiter ---------------------------
(* Small instances of RateLimiter: two keys that share a mutex.            *)
EXTENDS RateLimiter, TLC

MCSlotOf == [k \in Keys |-> "slot"]

\* The requests are interchangeable, and so are keys that share a slot.
Symmetry == Permutations(Requests) \cup Permutations(Keys)

=============================================================================
