---------------------------- MODULE MCWebServer ----------------------------
(* Small instance of WebServer for TLC: the goroutines are model values.   *)
EXTENDS WebServer, TLC

\* Callers and workers are interchangeable.
Symmetry == Permutations(Callers) \cup Permutations(Workers)

=============================================================================
