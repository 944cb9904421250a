----------------------------- MODULE FlameGraph -----------------------------
(***************************************************************************)
(* createFlameGraph (debug_profiles.go): the samples of a CPU profile are  *)
(* folded into a tree of calls.                                            *)
(*                                                                         *)
(* A node is known by the names on the way to it from the root, which is   *)
(* the empty sequence, so that the tree is a function from such ways; the  *)
(* order of the children, and the file and line they were first seen at,   *)
(* are left out.                                                           *)
(***************************************************************************)
EXTENDS Integers, SequencesExt

CONSTANTS
  Names,      \* of functions
  Unresolved  \* a location without lines, as in a stripped library

\* A stack is listed from the innermost call on, as pprof does.
Samples == [stack : Seq(Names \cup {Unresolved}), value : Int]

NewNode == [nanos |-> 0, self |-> 0]

\* Mutant: the outermost location of a sample is taken for the innermost.
LocationsOuter(sample) ==
  [i \in DOMAIN sample.stack |->
    [name  |-> Reverse(sample.stack)[i],
     nanos |-> sample.value,
     self  |-> IF i = 1 THEN sample.value ELSE 0]]

\* What the inner loop finds, from the last location, the outermost caller, to
\* the first, and what it adds to the node there.
Locations(sample) ==
  [i \in DOMAIN sample.stack |->
    [name  |-> Reverse(sample.stack)[i],
     nanos |-> sample.value,
     self  |-> IF i = Len(sample.stack) THEN sample.value ELSE 0]]

Node(tree, way) == IF way \in DOMAIN tree THEN tree[way] ELSE NewNode

Grown(node, nanos, self) == [nanos |-> node.nanos + nanos, self |-> node.self + self]

\* The body of the inner loop: the walk goes on to the child of that name,
\* which is created when it is not there.
Visit(walk, location) ==
  LET child == Append(walk.node, location.name)
  IN  IF location.name = Unresolved THEN walk
      ELSE [node |-> child,
            tree |-> [way \in DOMAIN walk.tree \cup {child} |->
                       IF way = child
                         THEN Grown(Node(walk.tree, way), location.nanos, location.self)
                         ELSE walk.tree[way]]]

\* The walk of a sample begins at the root.
Rooted(tree, sample) ==
  [node |-> <<>>, tree |-> [tree EXCEPT ![<<>>] = Grown(@, sample.value, 0)]]

Walked(tree, sample) == FoldLeft(Visit, Rooted(tree, sample), Locations(sample))

AddSample(tree, sample) == Walked(tree, sample).tree

NewTree == [way \in {<<>>} |-> NewNode]

CreateFlameGraph(profile) == FoldLeft(AddSample, NewTree, profile)

-----------------------------------------------------------------------------
(* What the graph of a profile is, without a walk.                         *)

\* The functions of a stack, the outermost first.
Call(calls, name) == IF name = Unresolved THEN calls ELSE Append(calls, name)
Calls(sample)     == FoldLeft(Call, <<>>, Reverse(sample.stack))

Plus(a, b)    == a + b
Total(values) == FoldLeft(Plus, 0, values)

\* The time of a way: that of the samples whose calls begin with it ...
Times(profile, way) ==
  [i \in DOMAIN profile |->
    IF way \in Prefixes(Calls(profile[i])) THEN profile[i].value ELSE 0]

\* ... and its own: that of the samples that were taken in it.  A sample whose
\* innermost location has no name is nobody's own time, although it is time of
\* all its callers.
Taken(sample, way) ==
  sample.stack # <<>> /\ sample.stack[1] # Unresolved /\ way = Calls(sample)
OwnTimes(profile, way) ==
  [i \in DOMAIN profile |-> IF Taken(profile[i], way) THEN profile[i].value ELSE 0]

\* A node for each way that some sample goes.
Ways(profile) == {<<>>} \cup UNION {Prefixes(Calls(profile[i])) : i \in DOMAIN profile}

GraphOf(profile) ==
  [way \in Ways(profile) |->
    [nanos |-> Total(Times(profile, way)), self |-> Total(OwnTimes(profile, way))]]

=============================================================================
