----------------------------- MODULE FileServer -----------------------------
(***************************************************************************)
(* How the handler that ServeFiles makes names the file of a request       *)
(* (webserver.go), on a server that is started and stopped meanwhile.      *)
(* PathRewrite appends to basePath, one slice for all requests: a path     *)
(* that fits behind it, in the array Go has allocated, is written there,   *)
(* where the paths of other requests are, and a longer one to an array of  *)
(* its own.  What other handlers do is WebServer's RequestEnds.            *)
(***************************************************************************)
EXTENDS WebServer, UrlPath

CONSTANTS
  Names,  \* what stands between two slashes, nothing ("") among it
  Sites,  \* calls of ServeFiles: the route, FSBasePath, and the spare room
          \* behind basePath in its array, in parts of a path
  Rests   \* what the requests name, after the route

VARIABLES
  site,    \* the call of ServeFiles that was made
  asked,   \* what each request that looks for its file names, <<>> for others
  path,    \* the path of that file, as far as it is written
  room,    \* the requests whose path stands in the spare room
  crossed  \* history: those of them that were not alone there

fileVars == <<site, asked, path, room, crossed>>

\* A path without its last part: "/a" of "/a/".
Above(p) == SubSeq(p, 1, Len(p) - 1)

\* ServeFiles strips as many parts as the route has: the slashes of the route
\* are counted but for the last.
RoutePath(route) == SanitizeUrlPath(route, 1)

ASSUME FilesAssumption ==
  /\ NoName \in Names
  /\ Rests \subseteq Seq(Names) \ {<<>>}
  /\ \A s \in Sites : s.route \in Seq(Names) /\ s.base \in Seq(Names) /\ s.room \in Nat

\* ServeFiles refuses a route that leads above the root.
Served == {s \in Sites : RoutePath(s.route) # Invalid}

\* Mutant: the last slash is counted too.
ToStripAll(route) == Len(RoutePath(route)) - 1

ToStrip(route) == Len(RoutePath(route)) - 2

\* fasthttp's NewPathSlashesStripper.
StripSlashes(n, url) == <<NoName>> \o SubSeq(url, n + 2, Len(url))

\* FSBasePath with a slash in front and none behind.
Rooted(base) == IF base # <<>> /\ Head(base) = NoName THEN base ELSE <<NoName>> \o base

BasePath(base) ==
  LET rooted == Rooted(base)
  IN  IF EndsWithSlash(rooted) THEN Above(rooted) ELSE rooted

\* What is behind the first slash of the path without the route.
Rewritten(rest) ==
  Tail(StripSlashes(ToStrip(site.route), Above(RoutePath(site.route)) \o rest))

Fits(rest) == site.base # <<>> /\ Len(Rewritten(rest)) <= site.room

FilesInit ==
  /\ Init
  /\ site \in Served
  /\ asked = [w \in Workers |-> <<>>]
  /\ path = [w \in Workers |-> <<>>]
  /\ room = {}
  /\ crossed = {}

-----------------------------------------------------------------------------
\* PathRewrite, whose append finds room behind basePath or takes a new array.
PathRewrite(w, rest) ==
  /\ pc[w] = "handling"
  /\ asked[w] = <<>>
  /\ asked' = [asked EXCEPT ![w] = rest]
  /\ IF Fits(rest)
       THEN /\ path' = [path EXCEPT ![w] = BasePath(site.base)]
            /\ room' = room \cup {w}
            /\ crossed' = IF room = {} THEN {} ELSE crossed \cup room'
       ELSE /\ path' = [path EXCEPT ![w] = BasePath(site.base) \o Rewritten(rest)]
            /\ UNCHANGED <<room, crossed>>
  /\ UNCHANGED <<vars, site>>

\* The append writes its next part, over what another request has there.
Copy(w) ==
  LET at == Len(path[w]) + 1
      parts == BasePath(site.base) \o Rewritten(asked[w])
  IN  /\ w \in room
      /\ at <= Len(parts)
      /\ path' = [v \in Workers |->
                    IF v = w THEN Append(path[w], parts[at])
                    ELSE IF v \in room /\ at <= Len(path[v])
                    THEN [path[v] EXCEPT ![at] = parts[at]] ELSE path[v]]
      /\ UNCHANGED <<vars, site, asked, room, crossed>>

Written(w) ==
  /\ asked[w] # <<>>
  /\ Len(path[w]) = Len(BasePath(site.base)) + Len(Rewritten(asked[w]))

\* fasthttp makes a string of the path, which is nobody else's from then on.
Open(w) ==
  /\ Written(w)
  /\ asked' = [asked EXCEPT ![w] = <<>>]
  /\ path' = [path EXCEPT ![w] = <<>>]
  /\ room' = room \ {w}
  /\ crossed' = crossed \ {w}
  /\ UNCHANGED <<vars, site>>

\* The server goes on; a request that looks for its file does nothing else.
ServerStep ==
  /\ Next
  /\ \A w \in Workers : asked[w] # <<>> => pc'[w] = pc[w]
  /\ UNCHANGED fileVars

FilesNext ==
  \/ ServerStep
  \/ \E w \in Workers : \/ \E rest \in Rests : PathRewrite(w, rest)
                        \/ Copy(w) \/ Open(w)

FilesSpec == FilesInit /\ [][FilesNext]_<<vars, fileVars>> /\ Fairness

-----------------------------------------------------------------------------
\* The file a request opens is FSBasePath followed by what the request names
\* behind the route, whatever both look like and whoever else is served.  The
\* exception is what the shared array makes of requests that name files there
\* at the same time: each may be given the file of another, or none's.
OwnFile ==
  \A w \in Workers : Written(w) /\ w \notin crossed =>
    path[w] = BasePath(site.base) \o asked[w]

=============================================================================
