----------------------------- MODULE FoldProofs -----------------------------
(***************************************************************************)
(* Induction over the natural numbers, stated for sets instead of          *)
(* operators, and what follows from it for FoldLeft, with which the models *)
(* walk along paths, headers and profiles: a fold goes through values f[0] *)
(* to f[Len(seq)], each made from the one before.  The first such fold is  *)
(* here too, as two components use it: SanitizeUrlPath.                    *)
(***************************************************************************)
EXTENDS UrlPath, WellFoundedInduction, FiniteSetTheorems, TLAPS

\* A set of natural numbers has a least element.
LEMMA Least ==
  ASSUME NEW T \in SUBSET Nat, T # {}
  PROVE  \E n \in T : \A m \in T : n <= m
<1> DEFINE R == OpToRel(<, Nat)
<1>1. IsWellFoundedOn(R, Nat)
    BY NatLessThanWellFounded
<1>2. \A m, n \in Nat : m < n => <<m, n>> \in R
    BY DEF OpToRel
<1> HIDE DEF R
<1>3. PICK n \in T : \A m \in T : ~(<<m, n>> \in R)
    BY <1>1, WFMin, Zenon
<1>4. \A m \in T : ~(m < n)
    BY <1>2, <1>3
<1> QED BY <1>4

\* Induction up to n.
LEMMA Upwards ==
  ASSUME NEW n \in Nat, NEW S, 0 \in S, \A i \in 1 .. n : i - 1 \in S => i \in S
  PROVE  0 .. n \subseteq S
<1>1. SUFFICES ASSUME (0 .. n) \ S # {} PROVE FALSE
    OBVIOUS
<1>2. PICK i \in (0 .. n) \ S : \A j \in (0 .. n) \ S : i <= j
  <2>1. (0 .. n) \ S \in SUBSET Nat
      OBVIOUS
  <2> QED BY <1>1, <2>1, Least
<1>3. i \in 1 .. n /\ i - 1 \in S
    BY <1>2
<1> QED BY <1>2, <1>3

-----------------------------------------------------------------------------
FoldsAlong(op(_, _), base, seq, f) ==
  /\ f[0] = base
  /\ \A n \in 1 .. Len(seq) : f[n] = op(f[n - 1], seq[n])

FoldedBy(op(_, _), base, seq) ==
  \E f : FoldsAlong(op, base, seq, f) /\ FoldLeft(op, base, seq) = f[Len(seq)]

\* FoldLeft recurs over the sets of places of the sequence, a set being smaller
\* than another if it is a part of it; f[n] is its value for the first n.
LEMMA FoldedLeft ==
  ASSUME NEW op(_, _), NEW base, NEW S, NEW seq \in Seq(S)
  PROVE  FoldedBy(op, base, seq)
<1> DEFINE D == DOMAIN seq
           Step(g, s) == IF s = {} THEN base ELSE op(g[s \ {Max(s)}], seq[Max(s)])
           iter[s \in SUBSET D] == Step(iter, s)
           R == StrictSubsetOrdering(D)
<1>1. D = 1 .. Len(seq) /\ Len(seq) \in Nat
    OBVIOUS
<1>2. FoldLeft(op, base, seq) = iter[D]
    BY Zenon DEF FoldLeft, MapThenFoldSet
<1>3. IsWellFoundedOn(R, SUBSET D)
  <2>1. IsFiniteSet(D)
      BY <1>1, FS_Interval
  <2>2. SUBSET D \subseteq FiniteSubsetsOf(D)
      BY <2>1, FS_Subset DEF FiniteSubsetsOf
  <2> QED BY <2>2, FS_StrictSubsetOrderingWellFounded, IsWellFoundedOnSubset, Zenon
<1>4. \A s \in SUBSET D : s # {} => Max(s) \in s /\ \A m \in s : m <= Max(s)
  <2> SUFFICES ASSUME NEW s \in SUBSET D, s # {}
               PROVE  \E x \in s : \A m \in s : m <= x
      BY DEF Max
  <2> DEFINE T == {Len(seq) - m : m \in s}
  <2>1. T \in SUBSET Nat /\ T # {}
      BY <1>1
  <2>2. \E n \in T : \A k \in T : n <= k
    <3> HIDE DEF T
    <3> QED BY <2>1, Least
  <2>3. PICK x \in s : \A k \in T : Len(seq) - x <= k
      BY <2>2
  <2>4. ASSUME NEW m \in s PROVE m <= x
    <3>1. Len(seq) - x <= Len(seq) - m
        BY <2>3
    <3>2. m \in Int /\ x \in Int /\ Len(seq) \in Int
        BY <1>1
    <3> QED BY <3>1, <3>2
  <2> QED BY <2>4
<1>5. WFDefOn(R, SUBSET D, Step)
  <2> SUFFICES ASSUME NEW g, NEW h, NEW s \in SUBSET D,
                      \A t \in SetLessThan(s, R, SUBSET D) : g[t] = h[t]
               PROVE  Step(g, s) = Step(h, s)
      BY DEF WFDefOn
  <2>1. CASE s # {}
    <3>1. s \ {Max(s)} \in SetLessThan(s, R, SUBSET D)
        BY <1>4, <2>1 DEF SetLessThan, StrictSubsetOrdering
    <3>2. g[s \ {Max(s)}] = h[s \ {Max(s)}]
        BY <3>1
    <3> QED BY <2>1, <3>2
  <2> QED BY <2>1
<1>6. WFInductiveDefines(iter, SUBSET D, Step)
  <2>1. OpDefinesFcn(iter, SUBSET D, Step)
      BY DEF OpDefinesFcn
  <2> HIDE DEF D, Step, R, iter
  <2> QED BY <1>3, <1>5, <2>1, WFInductiveDef
<1>7. \A s \in SUBSET D : iter[s] = Step(iter, s)
  <2> HIDE DEF iter, Step
  <2> QED BY <1>6 DEF WFInductiveDefines
<1> HIDE DEF iter
<1> DEFINE f == [n \in 0 .. Len(seq) |-> iter[1 .. n]]
<1>8. f[0] = base
  <2>1. 1 .. 0 = {} /\ 0 \in 0 .. Len(seq)
      BY <1>1
  <2> QED BY <1>7, <2>1
<1>9. ASSUME NEW n \in 1 .. Len(seq)
      PROVE  f[n] = op(f[n - 1], seq[n])
  <2>1. n \in Nat /\ n >= 1 /\ n <= Len(seq)
      BY <1>1
  <2>2. 1 .. n \subseteq D /\ n \in 1 .. n
      BY <1>1, <2>1
  <2>3. Max(1 .. n) = n
    <3>1. Max(1 .. n) \in 1 .. n /\ n <= Max(1 .. n)
        BY <1>4, <2>2
    <3> QED BY <2>1, <3>1
  <2>4. (1 .. n) \ {n} = 1 .. (n - 1)
      OBVIOUS
  <2>5. f[n] = iter[1 .. n] /\ f[n - 1] = iter[1 .. (n - 1)]
      BY <1>1
  <2> QED BY <1>7, <2>2, <2>3, <2>4, <2>5
<1>10. FoldLeft(op, base, seq) = f[Len(seq)]
    BY <1>1, <1>2
<1> QED BY <1>8, <1>9, <1>10 DEF FoldedBy, FoldsAlong

FoldsOver(op(_, _), base, seq, elt) ==
  FoldLeft(op, base, Append(seq, elt)) = op(FoldLeft(op, base, seq), elt)

\* The fold of an empty sequence, and of a longer one from that of a shorter.
LEMMA FoldedNothing ==
  ASSUME NEW op(_, _), NEW base
  PROVE  FoldLeft(op, base, <<>>) = base
<1>1. FoldedBy(op, base, <<>>)
  <2>1. <<>> \in Seq({})
      OBVIOUS
  <2> QED BY <2>1, FoldedLeft, Zenon
<1>2. PICK f : FoldsAlong(op, base, <<>>, f) /\ FoldLeft(op, base, <<>>) = f[Len(<<>>)]
    BY <1>1, Zenon DEF FoldedBy
<1>3. Len(<<>>) = 0
    OBVIOUS
<1>4. f[0] = base
    BY <1>2, Zenon DEF FoldsAlong
<1> QED BY <1>2, <1>3, <1>4, Zenon

LEMMA FoldedAppend ==
  ASSUME NEW op(_, _), NEW base, NEW S, NEW seq \in Seq(S), NEW elt \in S
  PROVE  FoldsOver(op, base, seq, elt)
<1> DEFINE more == Append(seq, elt)
           n == Len(seq)
<1>0. /\ n \in Nat /\ more \in Seq(S) /\ Len(more) = n + 1
      /\ more[n + 1] = elt /\ \A i \in 1 .. n : more[i] = seq[i]
    OBVIOUS
<1>1. FoldedBy(op, base, seq) /\ FoldedBy(op, base, more)
  <2> HIDE DEF more
  <2> QED BY <1>0, FoldedLeft, Zenon
<1>2. PICK f : FoldsAlong(op, base, seq, f) /\ FoldLeft(op, base, seq) = f[n]
    BY <1>1, Zenon DEF FoldedBy
<1>3. PICK g : FoldsAlong(op, base, more, g) /\ FoldLeft(op, base, more) = g[Len(more)]
    BY <1>1, Zenon DEF FoldedBy
<1>4. /\ f[0] = base /\ \A i \in 1 .. n : f[i] = op(f[i - 1], seq[i])
      /\ g[0] = base /\ \A i \in 1 .. Len(more) : g[i] = op(g[i - 1], more[i])
    BY <1>2, <1>3, Zenon DEF FoldsAlong
<1> DEFINE T == {i \in 0 .. n : g[i] = f[i]}
<1>5. 0 \in T
    BY <1>0, <1>4
<1>6. ASSUME NEW i \in 1 .. n, i - 1 \in T PROVE i \in T
  <2>1. g[i] = op(g[i - 1], more[i]) /\ more[i] = seq[i] /\ f[i] = op(f[i - 1], seq[i])
    <3>1. i \in 1 .. Len(more)
        BY <1>0
    <3> HIDE DEF more
    <3> QED BY <1>0, <1>4, <3>1
  <2>2. g[i - 1] = f[i - 1]
      BY <1>6
  <2> QED BY <2>1, <2>2
<1>7. g[n] = f[n]
  <2>1. 0 .. n \subseteq T
    <3> HIDE DEF T
    <3> QED BY <1>0, <1>5, <1>6, Upwards
  <2> QED BY <1>0, <2>1
<1>8. g[n + 1] = op(g[n], elt)
  <2>1. n + 1 \in 1 .. Len(more) /\ (n + 1) - 1 = n
      BY <1>0
  <2> HIDE DEF more, n
  <2> QED BY <1>0, <1>4, <2>1
<1> QED BY <1>0, <1>2, <1>3, <1>7, <1>8, Zenon DEF FoldsOver

-----------------------------------------------------------------------------
\* All but the last of a sequence.
LEMMA FrontOf ==
  ASSUME NEW S, NEW seq \in Seq(S), seq # <<>>
  PROVE  /\ Front(seq) \in Seq(S) /\ Len(Front(seq)) = Len(seq) - 1
         /\ \A i \in 1 .. Len(seq) - 1 : Front(seq)[i] = seq[i]
<1>1. Len(seq) \in Nat /\ Len(seq) >= 1
    OBVIOUS
<1>2. Front(seq) = [i \in 1 .. Len(seq) - 1 |-> seq[i]]
    BY <1>1 DEF Front
<1> QED BY <1>1, <1>2

-----------------------------------------------------------------------------
(* Paths, whose parts are in any set W.                                    *)

\* What a clean path has between its slashes.
Segments(W) == W \ {NoName, ".", ".."}

LEMMA KeepOK ==
  ASSUME NEW W, NEW frags \in Seq(Segments(W)) \cup {Invalid}, NEW frag \in W
  PROVE  Keep(frags, frag) \in Seq(Segments(W)) \cup {Invalid}
<1>0. NoName # ".."
    BY Zenon DEF NoName
<1>1. CASE frags = Invalid \/ frag \in {NoName, "."}
  <2>1. ~(frags # Invalid /\ frag = "..")
      BY <1>0, <1>1
  <2>2. Keep(frags, frag) = frags
      BY <1>1, <2>1, Zenon DEF Keep
  <2> QED BY <2>2
<1>2. CASE frags # Invalid /\ frag = ".."
  <2>1. Keep(frags, frag) = IF frags = <<>> THEN Invalid ELSE Front(frags)
    <3> DEFINE new == IF frags = <<>> THEN Invalid ELSE Front(frags)
    <3>1. Keep(frags, frag) = CASE frags = Invalid \/ frag \in {NoName, "."} -> frags
                                [] frags # Invalid /\ frag = ".." -> new
                                [] OTHER -> Append(frags, frag)
        BY DEF Keep
    <3>2. frag \notin {NoName, "."}
        BY <1>0, <1>2
    <3>3. Keep(frags, frag) = new
      <4> HIDE DEF new
      <4> QED BY <1>2, <3>1, <3>2, Zenon
    <3> QED BY <3>3
  <2>2. frags # <<>> => Front(frags) \in Seq(Segments(W))
      BY <1>2, FrontOf
  <2> QED BY <2>1, <2>2
<1>3. CASE frags # Invalid /\ frag \in Segments(W)
  <2>1. Keep(frags, frag) = Append(frags, frag)
      BY <1>3, Zenon DEF Keep, Segments
  <2>2. Append(frags, frag) \in Seq(Segments(W))
      BY <1>3
  <2> QED BY <2>1, <2>2
<1> QED BY <1>1, <1>2, <1>3 DEF Segments

LEMMA FragmentsOK ==
  ASSUME NEW W, NEW p \in Seq(W)
  PROVE  Fragments(p) \in Seq(Segments(W)) \cup {Invalid}
<1>1. FoldedBy(Keep, <<>>, p)
    BY FoldedLeft, Zenon
<1>2. PICK f : FoldsAlong(Keep, <<>>, p, f) /\ Fragments(p) = f[Len(p)]
    BY <1>1, Zenon DEF FoldedBy, Fragments
<1>3. f[0] = <<>> /\ \A i \in 1 .. Len(p) : f[i] = Keep(f[i - 1], p[i])
    BY <1>2, Zenon DEF FoldsAlong
<1> DEFINE S == {i \in 0 .. Len(p) : f[i] \in Seq(Segments(W)) \cup {Invalid}}
<1>4. Len(p) \in Nat /\ \A i \in 1 .. Len(p) : p[i] \in W
    OBVIOUS
<1>5. 0 \in S
  <2>1. <<>> \in Seq(Segments(W)) /\ 0 \in 0 .. Len(p)
      BY <1>4
  <2>2. f[0] = <<>>
      BY <1>3
  <2> QED BY <2>1, <2>2
<1>6. ASSUME NEW i \in 1 .. Len(p), i - 1 \in S PROVE i \in S
  <2>1. Keep(f[i - 1], p[i]) \in Seq(Segments(W)) \cup {Invalid}
      BY <1>4, <1>6, KeepOK
  <2> QED BY <1>3, <1>4, <2>1
<1>7. 0 .. Len(p) \subseteq S
  <2> HIDE DEF S
  <2> QED BY <1>4, <1>5, <1>6, Upwards
<1> QED BY <1>2, <1>4, <1>7

\* A path of names between single slashes, the last behind them or not.
CleanPath(W, p, slash) ==
  p = Root \/ \E names \in Seq(Segments(W)) \ {<<>>} :
                p = <<NoName>> \o names \o (IF slash THEN <<NoName>> ELSE <<>>)

\* SanitizeUrlPath gives an error or a clean path, whose end is as it was told.
THEOREM CleanPathTheorem ==
  ASSUME NEW W, NEW p \in Seq(W), NEW t \in {-1, 0, 1}
  PROVE  \/ SanitizeUrlPath(p, t) = Invalid
         \/ CleanPath(W, SanitizeUrlPath(p, t), t = 1 \/ (t = 0 /\ EndsWithSlash(p)))
<1> DEFINE names == Fragments(p)
           slash == t > 0 \/ (t = 0 /\ EndsWithSlash(p))
<1>1. names \in Seq(Segments(W)) \cup {Invalid}
    BY FragmentsOK
<1>2. slash <=> t = 1 \/ (t = 0 /\ EndsWithSlash(p))
    OBVIOUS
<1>3. SanitizeUrlPath(p, t) =
        CASE names = Invalid -> Invalid
          [] names = <<>>    -> Root
          [] OTHER           -> <<NoName>> \o names \o (IF slash THEN <<NoName>> ELSE <<>>)
    BY DEF SanitizeUrlPath
<1> HIDE DEF names, slash
<1>4. CASE names = Invalid
  <2>1. Invalid # <<>>
      BY DEF Invalid
  <2> QED BY <1>3, <1>4, <2>1, Zenon
<1>5. CASE names # Invalid /\ names = <<>>
  <2>1. SanitizeUrlPath(p, t) = Root
      BY <1>3, <1>5, Zenon
  <2> QED BY <2>1 DEF CleanPath
<1>6. CASE names # Invalid /\ names # <<>>
  <2>1. SanitizeUrlPath(p, t) = <<NoName>> \o names \o (IF slash THEN <<NoName>> ELSE <<>>)
      BY <1>3, <1>6, Zenon
  <2>2. names \in Seq(Segments(W)) \ {<<>>}
      BY <1>1, <1>6
  <2> QED BY <1>2, <2>1, <2>2, Zenon DEF CleanPath
<1> QED BY <1>4, <1>5, <1>6

LEMMA SegmentsFacts ==
  ASSUME NEW W, NEW names \in Seq(Segments(W)) \ {<<>>}
  PROVE  /\ names \in Seq(W) /\ names # <<>> /\ Len(names) \in Nat /\ Len(names) > 0
         /\ names[Len(names)] # NoName
<1>1. Len(names) \in Nat /\ Len(names) > 0 /\ names # <<>>
    OBVIOUS
<1>2. \A i \in 1 .. Len(names) : names[i] \in Segments(W)
    OBVIOUS
<1>3. Segments(W) \subseteq W /\ NoName \notin Segments(W)
    BY DEF Segments
<1>4. names \in Seq(W)
    BY <1>3
<1> QED BY <1>1, <1>2, <1>3, <1>4

\* The ends of clean paths.
LEMMA NoSlash ==
  ASSUME NEW W, NEW w \in W, NEW names \in Seq(W), names # <<>>,
         NEW p, p = <<w>> \o names \o <<>>
  PROVE  p \in Seq(W) /\ p[Len(p)] = names[Len(names)]
<1>1. p \in Seq(W) /\ Len(p) = Len(names) + 1
    OBVIOUS
<1>2. p[Len(names) + 1] = names[Len(names)]
    OBVIOUS
<1> QED BY <1>1, <1>2

LEMMA WithSlash ==
  ASSUME NEW W, NEW w \in W, NEW names \in Seq(W), NEW p, p = <<w>> \o names \o <<w>>
  PROVE  p \in Seq(W) /\ Len(p) = Len(names) + 2 /\ p[Len(p)] = w
<1>1. p \in Seq(W) /\ Len(p) = Len(names) + 2
    OBVIOUS
<1>2. p[Len(names) + 2] = w
    OBVIOUS
<1> QED BY <1>1, <1>2

LEMMA RootOK ==
  ASSUME NEW W, NoName \in W
  PROVE  Root \in Seq(W) /\ EndsWithSlash(Root)
<1>1. ASSUME NEW v \in W, NEW w \in W
      PROVE  <<v, w>> \in Seq(W) /\ Len(<<v, w>>) = 2 /\ <<v, w>>[2] = w
    OBVIOUS
<1>2. Root \in Seq(W) /\ Len(Root) = 2 /\ Root[2] = NoName
    BY <1>1, Zenon DEF Root
<1>3. Len(Root) > 1 /\ Root[Len(Root)] = NoName
    BY <1>2
<1> QED BY <1>2, <1>3 DEF EndsWithSlash

=============================================================================
