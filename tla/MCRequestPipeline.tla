------------------------- MODULE MCRequestPipeline -------------------------
(* Small instances of RequestPipeline: a plain route without middlewares,  *)
(* one with two, and a file route with one.                                *)
EXTENDS RequestPipeline, TLC

MCRoutes == {"plain", "guarded", "files"}
MCMwOf == "plain" :> 0 @@ "guarded" :> 2 @@ "files" :> 1
MCFileRoutes == {"files"}

\* Workers and contexts are interchangeable.
Symmetry == Permutations(Workers) \cup Permutations(Contexts)

=============================================================================
