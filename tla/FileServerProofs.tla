-------------------------- MODULE FileServerProofs --------------------------
(* Proofs about FileServer: serving files is one of the things a request   *)
(* of WebServer does, and requests that do not meet in the spare room of   *)
(* basePath do not disturb each other.                                     *)
EXTENDS FileServer, FoldProofs, SequenceTheorems

\* Serving files is part of the life of the server that WebServer describes,
\* with its fairness: what is proved of Spec holds of a server of files.
THEOREM FilesAreRequests == FilesSpec => Spec
<1>1. FilesInit => Init
  BY DEF FilesInit
<1>2. [FilesNext]_<<vars, fileVars>> => [Next]_vars
  BY DEF FilesNext, ServerStep, PathRewrite, Copy, Open
<1>. QED  BY <1>1, <1>2, PTL DEF FilesSpec, Spec

-----------------------------------------------------------------------------
(* What PathRewrite is to write.                                           *)

\* Without its last part a path has one part less.
LEMMA AboveIsSeq ==
  ASSUME NEW s \in Seq(Names), s # <<>>
  PROVE  Above(s) \in Seq(Names) /\ Len(Above(s)) = Len(s) - 1
<1>1. Len(s) \in Nat /\ Len(s) > 0
  OBVIOUS
<1>2. \A i \in 1..(Len(s) - 1) : s[i] \in Names
  BY <1>1
<1>. DEFINE n == Len(s) - 1
<1>3. n \in Int /\ n >= 0
  BY <1>1
<1>. HIDE DEF n
<1>4. \A i \in 1..n : s[i] \in Names
  BY <1>2 DEF n
<1>5. /\ SubSeq(s, 1, n) \in Seq(Names)
      /\ Len(SubSeq(s, 1, n)) = IF 1 <= n THEN n - 1 + 1 ELSE 0
  BY <1>3, <1>4, SubSeqProperties
<1>6. Len(SubSeq(s, 1, n)) = n
  BY <1>3, <1>5
<1>. QED  BY <1>5, <1>6 DEF Above, n

\* One part in front of a path, and what is behind the first part.
LEMMA ConcatOne ==
  ASSUME NEW S, NEW e \in S, NEW s \in Seq(S)
  PROVE  /\ <<e>> \o s \in Seq(S) /\ <<e>> \o s # <<>>
         /\ Len(<<e>> \o s) = 1 + Len(s)
         /\ \A i \in 1..1 + Len(s) :
              (<<e>> \o s)[i] = IF i <= 1 THEN <<e>>[i] ELSE s[i - 1]
<1>1. <<e>> \in Seq(S) /\ Len(<<e>>) = 1
  OBVIOUS
<1>2. /\ <<e>> \o s \in Seq(S) /\ Len(<<e>> \o s) = 1 + Len(s)
      /\ \A i \in 1..1 + Len(s) :
           (<<e>> \o s)[i] = IF i <= 1 THEN <<e>>[i] ELSE s[i - 1]
  BY <1>1, ConcatProperties
<1>3. <<e>> \o s # <<>>
  BY <1>2
<1>. QED  BY <1>2, <1>3

LEMMA TailOfOne ==
  ASSUME NEW S, NEW e \in S, NEW s \in Seq(S)
  PROVE  Tail(<<e>> \o s) = s
<1>1. /\ <<e>> \o s \in Seq(S) /\ <<e>> \o s # <<>>
      /\ Len(<<e>> \o s) = 1 + Len(s)
      /\ \A i \in 1..1 + Len(s) :
           (<<e>> \o s)[i] = IF i <= 1 THEN <<e>>[i] ELSE s[i - 1]
  BY ConcatOne
<1>2. /\ Tail(<<e>> \o s) \in Seq(S) /\ Len(Tail(<<e>> \o s)) = Len(s)
      /\ \A i \in 1..Len(s) : Tail(<<e>> \o s)[i] = (<<e>> \o s)[i + 1]
  BY <1>1, HeadTailProperties
<1>3. \A i \in 1..Len(s) : Tail(<<e>> \o s)[i] = s[i]
  BY <1>1, <1>2
<1>. QED  BY <1>2, <1>3, SeqEqual

\* A route that is not refused is a path, whatever it was before.
LEMMA RouteIsSeq ==
  ASSUME site \in Served
  PROVE  RoutePath(site.route) \in Seq(Names) /\ RoutePath(site.route) # <<>>
<1>. DEFINE r == RoutePath(site.route)
<1>1. site.route \in Seq(Names) /\ r # Invalid
  BY FilesAssumption DEF Served
<1>2. CleanPath(Names, r, TRUE)
  BY <1>1, CleanPathTheorem DEF RoutePath
<1>. HIDE DEF r
<1>3. CASE r = Root
  <2>1. Root \in Seq(Names) /\ EndsWithSlash(Root)
    BY FilesAssumption, RootOK
  <2>2. Root # <<>>
    BY <2>1 DEF EndsWithSlash
  <2>. QED  BY <1>3, <2>1, <2>2 DEF r
<1>4. ASSUME NEW names \in Seq(Segments(Names)) \ {<<>>},
             r = <<NoName>> \o names \o <<NoName>>
      PROVE  r \in Seq(Names) /\ r # <<>>
  <2>1. names \in Seq(Names)
    BY SegmentsFacts
  <2>2. r \in Seq(Names) /\ Len(r) = Len(names) + 2
    BY <1>4, <2>1, FilesAssumption, WithSlash
  <2>. QED  BY <2>1, <2>2
<1>5. r = Root \/ \E names \in Seq(Segments(Names)) \ {<<>>} :
                    r = <<NoName>> \o names \o <<NoName>>
  BY <1>2, Zenon DEF CleanPath
<1>. QED  BY <1>3, <1>4, <1>5 DEF r

\* The path that is appended to basePath is what the request names behind the
\* route, for every route: as many parts are stripped as the route has.
THEOREM StripTheorem ==
  ASSUME site \in Served, NEW rest \in Rests
  PROVE  Rewritten(rest) = rest
<1>. DEFINE r == RoutePath(site.route)
<1>1. r \in Seq(Names) /\ r # <<>> /\ rest \in Seq(Names)
  BY RouteIsSeq, FilesAssumption
<1>. HIDE DEF r
<1>2. Above(r) \in Seq(Names) /\ Len(Above(r)) = Len(r) - 1
  BY <1>1, AboveIsSeq
<1>. DEFINE url == Above(r) \o rest
<1>3. /\ url \in Seq(Names)
      /\ Len(url) = Len(r) - 1 + Len(rest)
      /\ \A i \in 1..(Len(r) - 1 + Len(rest)) :
           url[i] = IF i <= Len(r) - 1 THEN Above(r)[i] ELSE rest[i - (Len(r) - 1)]
  <2>. DEFINE a == Above(r)
  <2>1. a \in Seq(Names) /\ Len(a) = Len(r) - 1
    BY <1>2
  <2>. HIDE DEF a
  <2>2. /\ a \o rest \in Seq(Names)
        /\ Len(a \o rest) = Len(a) + Len(rest)
        /\ \A i \in 1..Len(a) + Len(rest) :
             (a \o rest)[i] = IF i <= Len(a) THEN a[i] ELSE rest[i - Len(a)]
    BY <2>1, <1>1, ConcatProperties
  <2>. QED  BY <2>1, <2>2 DEF a
<1>. HIDE DEF url
<1>4. Len(r) \in Nat /\ Len(r) >= 1 /\ Len(rest) \in Nat
  BY <1>1
<1>5. SubSeq(url, Len(r), Len(url)) = rest
  <2>1. \A i \in Len(r)..Len(url) : url[i] \in Names
    BY <1>3, <1>4
  <2>2. /\ SubSeq(url, Len(r), Len(url)) \in Seq(Names)
        /\ Len(SubSeq(url, Len(r), Len(url))) = Len(rest)
        /\ \A i \in 1..Len(rest) : SubSeq(url, Len(r), Len(url))[i] = url[Len(r) + i - 1]
    BY <2>1, <1>3, <1>4
  <2>3. \A i \in 1..Len(rest) : url[Len(r) + i - 1] = rest[i]
    BY <1>3, <1>4
  <2>. DEFINE behind == SubSeq(url, Len(r), Len(url))
  <2>4. /\ behind \in Seq(Names) /\ rest \in Seq(Names) /\ Len(behind) = Len(rest)
        /\ \A i \in 1..Len(rest) : behind[i] = rest[i]
    BY <2>2, <2>3, <1>1
  <2>. HIDE DEF behind
  <2>5. behind = rest
    BY <2>4, SeqEqual
  <2>. QED  BY <2>5 DEF behind
<1>6. ToStrip(site.route) + 2 = Len(r)
  BY <1>4 DEF ToStrip, r
<1>7. StripSlashes(ToStrip(site.route), url) = <<NoName>> \o rest
  BY <1>5, <1>6 DEF StripSlashes
<1>8. Tail(<<NoName>> \o rest) = rest
  BY <1>1, FilesAssumption, TailOfOne
<1>. QED  BY <1>7, <1>8 DEF Rewritten, url, r

\* basePath is a path.
LEMMA BaseIsSeq ==
  ASSUME site \in Served
  PROVE  BasePath(site.base) \in Seq(Names)
<1>. DEFINE b == Rooted(site.base)
<1>1. site.base \in Seq(Names)
  BY FilesAssumption DEF Served
<1>2. b \in Seq(Names) /\ b # <<>>
  <2>1. <<NoName>> \o site.base \in Seq(Names) /\ <<NoName>> \o site.base # <<>>
    BY <1>1, FilesAssumption, ConcatOne
  <2>. QED  BY <2>1, <1>1 DEF Rooted
<1>. HIDE DEF b
<1>3. Above(b) \in Seq(Names)
  BY <1>2, AboveIsSeq
<1>. QED  BY <1>2, <1>3 DEF BasePath, b

-----------------------------------------------------------------------------
(* The spare room.                                                         *)

\* What a request is to open.
Parts(w) == BasePath(site.base) \o asked[w]

FilesTypeOK ==
  /\ site \in Served
  /\ asked \in [Workers -> Rests \cup {<<>>}]
  /\ path \in [Workers -> Seq(Names)]
  /\ room \subseteq Workers
  /\ crossed \subseteq room
  /\ \A w \in room : asked[w] # <<>>

\* Two requests in the spare room know of each other.
MetOK == \A w, v \in room : w # v => w \in crossed /\ v \in crossed

\* A request that was always alone there has written what it was to write.
AloneOK ==
  \A w \in Workers : asked[w] # <<>> /\ w \notin crossed =>
    /\ Len(path[w]) <= Len(Parts(w))
    /\ path[w] = SubSeq(Parts(w), 1, Len(path[w]))

FilesInv == FilesTypeOK /\ MetOK /\ AloneOK

LEMMA InitF == FilesInit => FilesInv
<1>. SUFFICES ASSUME FilesInit PROVE FilesInv
  OBVIOUS
<1>. USE DEF FilesInit
<1>1. FilesTypeOK
  BY DEF FilesTypeOK
<1>2. MetOK
  BY DEF MetOK
<1>3. AloneOK
  BY DEF AloneOK
<1>. QED  BY <1>1, <1>2, <1>3 DEF FilesInv

\* What a request is to write is a path.
LEMMA PartsSeq ==
  ASSUME FilesTypeOK, NEW rest \in Rests
  PROVE  /\ BasePath(site.base) \in Seq(Names)
         /\ rest \in Seq(Names) /\ rest # <<>>
         /\ Rewritten(rest) = rest
         /\ BasePath(site.base) \o rest \in Seq(Names)
         /\ Len(BasePath(site.base) \o rest) = Len(BasePath(site.base)) + Len(rest)
         /\ SubSeq(BasePath(site.base) \o rest, 1, Len(BasePath(site.base))) = BasePath(site.base)
         /\ SubSeq(BasePath(site.base) \o rest, 1, Len(BasePath(site.base) \o rest))
              = BasePath(site.base) \o rest
<1>1. site \in Served
  BY DEF FilesTypeOK
<1>. DEFINE b == BasePath(site.base)
<1>2. b \in Seq(Names)
  BY <1>1, BaseIsSeq
<1>3. rest \in Seq(Names) /\ rest # <<>>
  BY FilesAssumption
<1>4. Rewritten(rest) = rest
  BY <1>1, StripTheorem
<1>. HIDE DEF b
<1>5. b \o rest \in Seq(Names) /\ Len(b \o rest) = Len(b) + Len(rest)
  BY <1>2, <1>3
<1>6. SubSeq(b \o rest, 1, Len(b)) = b
  BY <1>2, <1>3, <1>5
<1>7. SubSeq(b \o rest, 1, Len(b \o rest)) = b \o rest
  BY <1>5, SubSeqFull
<1>. QED  BY <1>2, <1>3, <1>4, <1>5, <1>6, <1>7 DEF b

LEMMA RewriteF ==
  ASSUME FilesInv, NEW w \in Workers, NEW rest \in Rests, PathRewrite(w, rest)
  PROVE  FilesInv'
<1>. DEFINE b == BasePath(site.base)
<1>. USE DEF FilesInv
<1>1. /\ b \in Seq(Names) /\ rest # <<>> /\ Rewritten(rest) = rest
      /\ b \o rest \in Seq(Names)
      /\ Len(b) <= Len(b \o rest)
      /\ SubSeq(b \o rest, 1, Len(b)) = b
      /\ SubSeq(b \o rest, 1, Len(b \o rest)) = b \o rest
  BY PartsSeq
<1>2. /\ asked[w] = <<>>
      /\ asked' = [asked EXCEPT ![w] = rest]
      /\ site' = site
  BY DEF PathRewrite
<1>3. w \notin room
  BY <1>2 DEF FilesTypeOK
<1>. DEFINE p == IF Fits(rest) THEN b ELSE b \o Rewritten(rest)
<1>4. /\ path' = [path EXCEPT ![w] = p]
      /\ p \in Seq(Names)
      /\ Len(p) <= Len(b \o rest)
      /\ p = SubSeq(b \o rest, 1, Len(p))
  BY <1>1 DEF PathRewrite
<1>. HIDE DEF p, b
<1>5. \/ /\ room' = room \cup {w}
         /\ crossed' = IF room = {} THEN {} ELSE crossed \cup room'
      \/ room' = room /\ crossed' = crossed
  BY DEF PathRewrite
<1>6. /\ crossed \subseteq crossed'
      /\ asked'[w] = rest /\ path'[w] = p
      /\ \A v \in Workers : v # w => asked'[v] = asked[v] /\ path'[v] = path[v]
  BY <1>2, <1>4, <1>5 DEF FilesTypeOK
<1>7. FilesTypeOK'
  BY <1>1, <1>2, <1>4, <1>5, <1>6 DEF FilesTypeOK
<1>8. MetOK'
  BY <1>5, <1>3 DEF MetOK, FilesTypeOK
<1>9. AloneOK'
  <2>. SUFFICES ASSUME NEW v \in Workers, asked'[v] # <<>>, v \notin crossed'
                PROVE  /\ Len(path'[v]) <= Len(Parts(v)')
                       /\ path'[v] = SubSeq(Parts(v)', 1, Len(path'[v]))
    BY DEF AloneOK
  <2>1. CASE v = w
    <3>1. Parts(v)' = b \o rest
      BY <2>1, <1>2, <1>6 DEF Parts, b
    <3>. QED  BY <3>1, <2>1, <1>4, <1>6
  <2>2. CASE v # w
    <3>1. Parts(v)' = Parts(v) /\ path'[v] = path[v] /\ asked[v] # <<>> /\ v \notin crossed
      BY <2>2, <1>2, <1>6 DEF Parts
    <3>. QED  BY <3>1 DEF AloneOK
  <2>. QED  BY <2>1, <2>2
<1>. QED  BY <1>7, <1>8, <1>9

\* The next part behind a beginning.
LEMMA NextPart ==
  ASSUME NEW s \in Seq(Names), NEW n \in Nat, n + 1 <= Len(s)
  PROVE  /\ Append(SubSeq(s, 1, n), s[n + 1]) = SubSeq(s, 1, n + 1)
         /\ Len(SubSeq(s, 1, n)) = n /\ Len(SubSeq(s, 1, n + 1)) = n + 1
         /\ s[n + 1] \in Names
  OBVIOUS

LEMMA CopyF ==
  ASSUME FilesInv, NEW w \in Workers, Copy(w)
  PROVE  FilesInv'
<1>. USE DEF FilesInv
<1>. DEFINE at == Len(path[w]) + 1
            parts == BasePath(site.base) \o Rewritten(asked[w])
<1>1. /\ w \in room
      /\ at <= Len(parts)
      /\ path' = [v \in Workers |->
                    IF v = w THEN Append(path[w], parts[at])
                    ELSE IF v \in room /\ at <= Len(path[v])
                    THEN [path[v] EXCEPT ![at] = parts[at]] ELSE path[v]]
      /\ site' = site /\ asked' = asked /\ room' = room /\ crossed' = crossed
  BY DEF Copy
<1>2. asked[w] \in Rests
  BY <1>1 DEF FilesTypeOK
<1>3. parts = Parts(w) /\ parts \in Seq(Names)
  BY <1>2, PartsSeq DEF Parts
<1>. HIDE DEF parts
<1>4. path[w] \in Seq(Names) /\ at \in Nat /\ at >= 1
  BY DEF FilesTypeOK
<1>5. parts[at] \in Names
  BY <1>1, <1>3, <1>4
<1>. HIDE DEF at
<1>6. FilesTypeOK'
  <2>1. \A v \in Workers : path'[v] \in Seq(Names)
    <3>. SUFFICES ASSUME NEW v \in Workers PROVE path'[v] \in Seq(Names)
      OBVIOUS
    <3>1. path[v] \in Seq(Names)
      BY DEF FilesTypeOK
    <3>2. Append(path[w], parts[at]) \in Seq(Names)
      BY <1>4, <1>5
    <3>3. ASSUME at <= Len(path[v])
          PROVE  [path[v] EXCEPT ![at] = parts[at]] \in Seq(Names)
      BY <3>1, <3>3, <1>4, <1>5, ExceptSeq
    <3>. QED  BY <3>1, <3>2, <3>3, <1>1
  <2>2. path' \in [Workers -> Seq(Names)]
    BY <1>1, <2>1
  <2>. QED  BY <1>1, <2>2 DEF FilesTypeOK
<1>7. MetOK'
  BY <1>1 DEF MetOK
<1>8. AloneOK'
  <2>. SUFFICES ASSUME NEW v \in Workers, asked[v] # <<>>, v \notin crossed
                PROVE  /\ Len(path'[v]) <= Len(Parts(v))
                       /\ path'[v] = SubSeq(Parts(v), 1, Len(path'[v]))
    BY <1>1 DEF AloneOK, Parts
  <2>1. Len(path[v]) <= Len(Parts(v)) /\ path[v] = SubSeq(Parts(v), 1, Len(path[v]))
    BY DEF AloneOK
  <2>2. CASE v = w
    <3>1. path'[v] = Append(path[w], parts[at])
      BY <1>1, <2>2
    <3>2. Len(path[w]) \in Nat /\ at = Len(path[w]) + 1
      BY <1>4 DEF at
    <3>. DEFINE n == Len(path[w])
    <3>. HIDE DEF n
    <3>3. n \in Nat /\ at = n + 1 /\ n + 1 <= Len(parts) /\ path[w] = SubSeq(parts, 1, n)
      BY <3>2, <2>1, <2>2, <1>1, <1>3 DEF n
    <3>4. path'[v] = SubSeq(parts, 1, n + 1) /\ Len(SubSeq(parts, 1, n + 1)) = n + 1
      BY <3>1, <3>3, <1>3, NextPart
    <3>. QED  BY <3>3, <3>4, <2>2, <1>3
  <2>3. CASE v # w
    <3>1. v \notin room
      BY <2>3, <1>1 DEF MetOK
    <3>2. path'[v] = path[v]
      BY <3>1, <2>3, <1>1
    <3>. QED  BY <3>2, <2>1
  <2>. QED  BY <2>2, <2>3
<1>. QED  BY <1>6, <1>7, <1>8

LEMMA OpenF ==
  ASSUME FilesInv, NEW w \in Workers, Open(w)
  PROVE  FilesInv'
<1>. USE DEF FilesInv
<1>1. /\ asked' = [asked EXCEPT ![w] = <<>>]
      /\ path' = [path EXCEPT ![w] = <<>>]
      /\ room' = room \ {w} /\ crossed' = crossed \ {w} /\ site' = site
  BY DEF Open
<1>2. /\ asked'[w] = <<>>
      /\ \A v \in Workers : v # w => asked'[v] = asked[v] /\ path'[v] = path[v]
  BY <1>1 DEF FilesTypeOK
<1>3. FilesTypeOK'
  BY <1>1, <1>2 DEF FilesTypeOK
<1>4. MetOK'
  BY <1>1 DEF MetOK
<1>5. AloneOK'
  <2>. SUFFICES ASSUME NEW v \in Workers, asked'[v] # <<>>, v \notin crossed'
                PROVE  /\ Len(path'[v]) <= Len(Parts(v)')
                       /\ path'[v] = SubSeq(Parts(v)', 1, Len(path'[v]))
    BY DEF AloneOK
  <2>1. v # w
    BY <1>2
  <2>2. Parts(v)' = Parts(v) /\ path'[v] = path[v] /\ asked[v] # <<>> /\ v \notin crossed
    BY <2>1, <1>1, <1>2 DEF Parts
  <2>. QED  BY <2>2 DEF AloneOK
<1>. QED  BY <1>3, <1>4, <1>5

LEMMA StepF == FilesInv /\ [FilesNext]_<<vars, fileVars>> => FilesInv'
<1>. SUFFICES ASSUME FilesInv, [FilesNext]_<<vars, fileVars>> PROVE FilesInv'
  OBVIOUS
<1>1. ASSUME UNCHANGED fileVars PROVE FilesInv'
  BY <1>1 DEF fileVars, FilesInv, FilesTypeOK, MetOK, AloneOK, Parts
<1>2. CASE ServerStep
  BY <1>1, <1>2 DEF ServerStep
<1>3. ASSUME NEW w \in Workers, NEW rest \in Rests, PathRewrite(w, rest) PROVE FilesInv'
  BY <1>3, RewriteF
<1>4. ASSUME NEW w \in Workers, Copy(w) PROVE FilesInv'
  BY <1>4, CopyF
<1>5. ASSUME NEW w \in Workers, Open(w) PROVE FilesInv'
  BY <1>5, OpenF
<1>. QED  BY <1>1, <1>2, <1>3, <1>4, <1>5 DEF FilesNext

LEMMA FilesInvariance == FilesSpec => []FilesInv
<1>. QED  BY InitF, StepF, PTL DEF FilesSpec

\* Whatever fits into the array of basePath, however many requests name files
\* at the same time and whatever the server does: a request that has not met
\* another one in the spare room opens the file it names.
THEOREM OwnFileTheorem == FilesSpec => []OwnFile
<1>1. FilesInv => OwnFile
  <2>. SUFFICES ASSUME FilesInv, NEW w \in Workers, Written(w), w \notin crossed
                PROVE  path[w] = Parts(w)
    BY DEF OwnFile, Parts
  <2>1. asked[w] \in Rests
    BY DEF Written, FilesInv, FilesTypeOK
  <2>2. /\ Rewritten(asked[w]) = asked[w]
        /\ Len(Parts(w)) = Len(BasePath(site.base)) + Len(asked[w])
        /\ SubSeq(Parts(w), 1, Len(Parts(w))) = Parts(w)
    BY <2>1, PartsSeq DEF FilesInv, Parts
  <2>3. Len(path[w]) = Len(Parts(w))
    BY <2>2 DEF Written
  <2>4. path[w] = SubSeq(Parts(w), 1, Len(path[w]))
    BY DEF FilesInv, AloneOK, Written
  <2>. QED  BY <2>2, <2>3, <2>4
<1>. QED  BY <1>1, FilesInvariance, PTL

=============================================================================
