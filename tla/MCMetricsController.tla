------------------------ MODULE MCMetricsController ------------------------
(* The instance of MetricsController that TLC checks (see MetricsStop.cfg),
   with the flame graph of the profiles that its debug page gathers. *)
EXTENDS MetricsController, TLC

Sample(stack, value) == [stack |-> stack, value |-> value]

\* One function called from two, one that calls itself, samples taken in a
\* function and in what it calls, and locations that have no name, the
\* innermost among them.
SomeProfiles ==
  {<<Sample(<<"f", "main">>, 1), Sample(<<"f", "g", "main">>, 2)>>,
   <<Sample(<<"f", "f">>, 2), Sample(<<"f">>, 3), Sample(<<"g", "f", "f">>, 1)>>,
   <<Sample(<<"g", Unresolved, "f">>, 1), Sample(<<Unresolved, "f">>, 2), Sample(<<>>, 3)>>}

=============================================================================
