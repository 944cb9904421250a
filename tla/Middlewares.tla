---------------------------- MODULE Middlewares ----------------------------
(***************************************************************************)
(* The middlewares (middleware/) around a handler, and the answer they     *)
(* write together.  Each has a part before Next, one after it, or both; an *)
(* error handler may throw away what the others have written.              *)
(*                                                                         *)
(* A client sends one request after the other, revalidates the copies it   *)
(* has, and follows redirections, while the content of the resource        *)
(* changes.  That requests do not mix is shown in RequestPipeline.         *)
(***************************************************************************)
EXTENDS Integers, Sequences, UrlPath

CONSTANTS
  Servers,   \* the configurations: see ServersAssumption
  Contents,  \* what the resource may contain
  Paths,     \* the paths a client may ask for
  Unescape,  \* what the parts of a path with escapes ("%2f") in them decode to:
             \* what is between the slashes, each split at its backslashes
  None

Kinds == {"cors", "etag", "cache-control", "auth", "conditional-auth",
          "safe-browsing", "trailing-slash", "compression"}

ASSUME ServersAssumption ==
  /\ \A s \in Servers :
       /\ s.mws \in Seq(Kinds)            \* the chain of Use, the router behind it
       /\ s.allowOrigins \in Seq(STRING)  \* CORSOptions.AllowOrigins
       /\ s.weak \in BOOLEAN              \* NewETag(weak)
       /\ s.remove \in BOOLEAN            \* TrailingSlashOptions.Remove
       /\ s.redirect \in BOOLEAN          \* ... RedirectCode is not zero
  /\ None \notin Contents /\ "message" \notin Contents /\ None # "message"
  /\ Paths \subseteq Seq(STRING)
  /\ {NoName, "."} \cap DOMAIN Unescape = {}
  /\ \A part \in DOMAIN Unescape : Unescape[part] \in Seq(Seq(STRING)) \ {<<>>}

VARIABLES
  server,    \* the configuration
  resource,  \* the content of the resource
  copies,    \* the answers the client has stored, with their tags
  at,        \* "new", "panicked", "idle", "down", "up" or "sent"
  pos,       \* the middleware that runs next or has Next return to it
  err,       \* whether Next returns an error
  request,   \* the request, but for ...
  path,      \* ... its path, which a middleware may change
  from,      \* history: the path that was redirected to it, or None
  resp,      \* the answer, but for ...
  location,  \* ... where the trailing slash middleware sends the client
  reached,   \* history: the last middleware that ran, one more for the router
  passed,    \* history: the auth middlewares that let the request through
  served     \* history: the content the handler has written, if it ran

outside  == <<server, resource, copies>>
asked    == <<request, from>>
vars     == <<outside, asked, path, at, pos, err, resp, location, reached, passed, served>>

Mws    == server.mws
Router == Len(Mws) + 1  \* its place, behind the chain
Cross  == request.cross

-----------------------------------------------------------------------------
(* The answer.                                                             *)

\* What Error keeps: only the headers of CORS that grant something.
Preserved == {"allow-origin", "allow-methods"}

Message == IF request.method = "HEAD" THEN None ELSE "message"

Empty == [status |-> 200, body |-> None, encoded |-> FALSE, tag |-> None,
          headers |-> {}, plain |-> FALSE]

\* Mutant: everything is forgotten.
ErrorForgets(r, status) ==
  [Empty EXCEPT !.status = status, !.body = Message]

\* RequestContext.Error, by sendError: the answer starts again.
Error(r, status) ==
  [Empty EXCEPT !.status = status, !.body = Message, !.headers = r.headers \cap Preserved]

\* Mutant: the headers are reset too.
NoContentResets(r, status) == [Empty EXCEPT !.status = status]

NoContent(r, status) == [r EXCEPT !.status = status, !.body = None, !.encoded = FALSE]

With(r, headers) == [r EXCEPT !.headers = @ \cup headers]

-----------------------------------------------------------------------------
(* Moving along the chain.                                                 *)

Runs(kind) == at = "down" /\ pos < Router /\ Mws[pos] = kind
Resumes(kind) == at = "up" /\ pos > 0 /\ Mws[pos] = kind

\* req.Next() with the answer r so far and the path p.
GoOnWith(r, p) ==
  /\ resp' = r /\ path' = p
  /\ pos' = pos + 1 /\ reached' = pos + 1
  /\ UNCHANGED <<outside, asked, at, err, location, served>>

GoOn(r) == GoOnWith(r, path) /\ UNCHANGED passed

\* Return to the middleware before, with or without an error.
Back(r, e) ==
  /\ resp' = r
  /\ at' = "up" /\ pos' = pos - 1 /\ err' = e
  /\ UNCHANGED <<outside, asked, path, reached, passed>>

Return(r, e) == Back(r, e) /\ UNCHANGED <<location, served>>

-----------------------------------------------------------------------------
(* CORS.                                                                   *)

\* The origins NewCORS allows.  The scheme of a listed origin is compared
\* after "://" has been added to it, and never passes.
AllowedOrigins(list) ==
  LET listed == SelectSeq(list, LAMBDA o : o # "")
  IN  CASE list = <<>> -> "any"
        [] list # <<>> /\ listed = <<>> -> "nobody"
        [] list # <<>> /\ listed # <<>> /\ listed[1] = "*" -> "any"
        [] OTHER -> "panic"

Origins == AllowedOrigins(server.allowOrigins)

Vary  == IF Origins = "any" THEN {} ELSE {"vary"}
Grant == IF Origins = "any" THEN {"allow-origin"} ELSE {}

Preflight == request.method = "OPTIONS" /\ Cross /\ request.asksMethod

\* Mutant: a preflight request goes on after the headers are set.
CorsGoesOn ==
  /\ Runs("cors")
  /\ GoOn(With(resp, Vary \cup IF Cross THEN Grant ELSE {}))

Cors ==
  /\ Runs("cors")
  /\ \/ /\ ~Cross /\ request.method = "OPTIONS"
        /\ Return(NoContent(With(resp, Vary), 204), FALSE)
     \/ /\ ~Cross /\ request.method # "OPTIONS"
        /\ GoOn(With(resp, Vary))
     \/ /\ Cross /\ request.method = "OPTIONS" /\ ~request.asksMethod
        /\ GoOn(With(resp, {"vary"}))
     \/ /\ Cross /\ request.method # "OPTIONS"
        /\ GoOn(With(resp, Vary \cup Grant))
     \/ /\ Preflight
        /\ Return(NoContent(With(resp, {"vary", "allow-methods"} \cup Grant), 204), FALSE)

-----------------------------------------------------------------------------
(* Authorization, alone or under a condition.                              *)

\* Mutant: a request without a key goes on.
AuthNeedsNoKey(key) ==
  IF key \in {"good", "none"}
    THEN GoOnWith(resp, path) /\ passed' = passed \cup (IF key = "good" THEN {pos} ELSE {})
    ELSE Return(Error(resp, 401), FALSE)

\* The first key found is good, is bad, makes the validator fail, or there is
\* none.
Auth(key) ==
  CASE key = "good" -> GoOnWith(resp, path) /\ passed' = passed \cup {pos}
    [] key \in {"bad", "none"} -> Return(Error(resp, 401), FALSE)
    [] key = "failing" -> Return(resp, TRUE)

Keys == {"good", "bad", "none", "failing"}

NewAuth == Runs("auth") /\ \E key \in Keys : Auth(key)

\* NewConditional around it: the evaluator fails, or says yes or no.
ConditionalAuth ==
  /\ Runs("conditional-auth")
  /\ \/ Return(resp, TRUE)
     \/ \E key \in Keys : Auth(key)
     \/ GoOnWith(resp, path) /\ passed' = passed \cup {pos}

-----------------------------------------------------------------------------
(* The middlewares that set headers and go on.                             *)

CacheControl == Runs("cache-control") /\ GoOn(With(resp, {"cache-control"}))
SafeBrowsing == Runs("safe-browsing") /\ GoOn(With(resp, {"safe-browsing"}))

-----------------------------------------------------------------------------
(* Trailing slash.                                                         *)

\* Mutant: the root path is not left alone.
ModifyRoot(p) ==
  CASE server.remove  /\ EndsWithSlash(p)  -> -1
    [] ~server.remove /\ ~EndsWithSlash(p) -> 1
    [] OTHER -> 0

Modify(p) ==
  CASE server.remove  /\ p # Root /\ EndsWithSlash(p) -> -1
    [] ~server.remove /\ ~EndsWithSlash(p) -> 1
    [] OTHER -> 0

\* What a part decodes to.
Unescaped(part) == IF part \in DOMAIN Unescape THEN Unescape[part] ELSE <<<<part>>>>

Concatenate(s, t) == s \o t
Joined(seqs)      == FoldLeft(Concatenate, <<>>, seqs)

\* fasthttp knows the slash only: what is between two may have backslashes.
KeepSegment(kept, segment) ==
  CASE segment \in {<<NoName>>, <<".">>} -> kept
    [] segment = <<"..">> -> IF kept = <<>> THEN kept ELSE Front(kept)
    [] OTHER -> Append(kept, segment)

\* fasthttp's uri.SetPath, which decodes a path and makes it a normal one, as
\* it has done when the request came: the path is already decoded.
SetPath(p) ==
  LET segments == Joined([i \in 1 .. Len(p) - 1 |-> Unescaped(p[i + 1])])
      end      == Last(segments)
  IN  <<NoName>> \o Joined(FoldLeft(KeepSegment, <<>>, segments))
        \o (CASE end \in {<<NoName>>, <<"..">>} -> <<NoName>>
             [] end = <<".">> -> <<".">>
             [] OTHER -> <<>>)

\* Once the client is redirected, nobody asks for the path of the request.
TrailingSlash ==
  LET modify == Modify(path)
      new    == SanitizeUrlPath(path, modify)
      change == modify # 0 /\ new # Invalid
  IN  /\ Runs("trailing-slash")
      /\ \/ modify = 0 /\ GoOn(resp)
         \/ modify # 0 /\ new = Invalid /\ Return(Error(resp, 400), FALSE)
         \/ /\ change /\ server.redirect
            /\ Back([resp EXCEPT !.status = 302], FALSE)
            /\ location' = SetPath(new) /\ UNCHANGED served
         \/ /\ change /\ ~server.redirect
            /\ GoOnWith(resp, SetPath(new)) /\ UNCHANGED passed

-----------------------------------------------------------------------------
(* The entity tags.                                                        *)

\* Mutant: the checksum is left out, and all contents have the same length.
TagOfLength(r) == [content |-> "length", encoded |-> r.encoded]

\* The length and the checksum of the body, compressed or not: different
\* bodies are taken to have different tags.
TagOf(r) == [content |-> r.body, encoded |-> r.encoded]

\* If-None-Match is a list of tags, each weak ("W/") or not.  A list that
\* begins with a weak one is compared as a whole, any other is searched for
\* the server's tag.
Matches(list, tag) ==
  /\ list # <<>>
  /\ IF list[1].weak
       THEN Len(list) = 1 /\ list[1].tag = tag
       ELSE \E i \in DOMAIN list : list[i].tag = tag /\ (server.weak => list[i].weak)

ETagBefore == Runs("etag") /\ GoOn(resp)

\* A request with an ETag header gets no tag.
ETagAfter ==
  /\ Resumes("etag")
  /\ \/ err /\ Return(resp, TRUE)
     \/ ~err /\ Return(resp, FALSE)
     \/ /\ ~err /\ resp.status = 200 /\ resp.body # None
        /\ IF Matches(request.noneMatch, TagOf(resp))
             THEN Return(NoContent(resp, 304), FALSE)
             ELSE Return([resp EXCEPT !.tag = TagOf(resp)], FALSE)

-----------------------------------------------------------------------------
CompressBefore == Runs("compression") /\ GoOn(resp)

\* fasthttp compresses a body that is long enough for a client that asks.
CompressAfter ==
  /\ Resumes("compression")
  /\ \/ Return(resp, err)
     \/ /\ ~err /\ resp.body # None
        /\ Return([resp EXCEPT !.encoded = TRUE], FALSE)

\* The other middlewares end with their call of Next.
ReturnThrough ==
  /\ at = "up" /\ pos > 0 /\ Mws[pos] \notin {"etag", "compression"}
  /\ Return(resp, err)

-----------------------------------------------------------------------------
(* The end of the chain.                                                   *)

\* fasthttp's own Error keeps nothing.
PlainError(status) == [Empty EXCEPT !.status = status, !.body = "message", !.plain = TRUE]

\* The router answers itself, with an error or a redirection.
RouterAnswers ==
  /\ at = "down" /\ pos = Router
  /\ \/ Return(PlainError(404), FALSE)
     \/ Return([resp EXCEPT !.status = 301], FALSE)

\* The handler writes the content, answers with an error, or returns one.
Handler ==
  /\ at = "down" /\ pos = Router
  /\ \/ \E body \in {resource, None} : Back([resp EXCEPT !.body = body], FALSE)
     \/ Back(Error(resp, 404), FALSE)
     \/ Back(resp, TRUE)
  /\ served' = resource /\ UNCHANGED location

\* The handler that ServeFiles makes sends a file or a part of it, redirects to a
\* directory, has the NotFoundHandler stored where nobody runs it, or leaves the
\* answer to fasthttp, whose NotModified keeps as little as its Error.
FilesHandler ==
  /\ at = "down" /\ pos = Router /\ request.method = "GET"
  /\ \/ \E status \in {200, 206} : Back([resp EXCEPT !.status = status, !.body = resource], FALSE)
     \/ \E status \in {302, 404} : Back([resp EXCEPT !.status = status], FALSE)
     \/ \E status \in {400, 403, 404, 416, 500} : Back(PlainError(status), FALSE)
     \/ Back([Empty EXCEPT !.status = 304, !.plain = TRUE], FALSE)
  /\ served' = resource /\ UNCHANGED location

\* The main handler gets an error, or sends the answer.
Finish ==
  /\ at = "up" /\ pos = 0
  /\ at' = "sent" /\ err' = FALSE
  /\ resp' = IF err THEN Error(resp, 500) ELSE resp
  /\ UNCHANGED <<outside, asked, path, pos, location, reached, passed, served>>

-----------------------------------------------------------------------------
(* The client.                                                             *)

Tags  == {c.tag : c \in copies}
Lists == UNION {[1 .. n -> [weak : BOOLEAN, tag : Tags]] : n \in 0 .. 2}

Begin(where, first) ==
  /\ at' = where /\ pos' = first /\ err' = FALSE
  /\ resp' = Empty /\ location' = None
  /\ reached' = first /\ passed' = {} /\ served' = None

Send ==
  /\ at = "idle"
  /\ request' \in [method : {"GET", "HEAD", "OPTIONS"}, cross : BOOLEAN,
                   asksMethod : BOOLEAN, noneMatch : Lists]
  /\ path' \in Paths
  /\ from' = None
  /\ Begin("down", 1)
  /\ UNCHANGED outside

Follow ==
  /\ at = "sent" /\ location # None
  /\ path' = location /\ from' = path
  /\ Begin("down", 1)
  /\ UNCHANGED <<outside, request>>

NoRequest == [method |-> "GET", cross |-> FALSE, asksMethod |-> FALSE, noneMatch |-> <<>>]

\* No request is under way.
Quiet(where) ==
  /\ Begin(where, 0)
  /\ request' = NoRequest /\ path' = Root /\ from' = None

\* The answer arrives, and is stored if it has a tag.
Receive ==
  /\ at = "sent"
  /\ copies' = copies \cup (IF resp.status = 200 /\ resp.tag # None
                              THEN {[tag |-> resp.tag, content |-> resp.body]} ELSE {})
  /\ Quiet("idle")
  /\ UNCHANGED <<server, resource>>

\* Between two requests.
Publish ==
  /\ at = "idle"
  /\ resource' \in Contents
  /\ UNCHANGED <<server, copies, asked, path, at, pos, err, resp, location,
                 reached, passed, served>>

-----------------------------------------------------------------------------
Init ==
  /\ server \in Servers
  /\ resource \in Contents
  /\ copies = {}
  /\ at = "new" /\ pos = 0 /\ err = FALSE
  /\ request = NoRequest /\ path = Root /\ from = None
  /\ resp = Empty /\ location = None
  /\ reached = 0 /\ passed = {} /\ served = None

\* The middlewares are made; NewCORS may panic.
Build ==
  /\ at = "new"
  /\ Quiet(IF Origins = "panic" /\ \E i \in DOMAIN Mws : Mws[i] = "cors"
             THEN "panicked" ELSE "idle")
  /\ UNCHANGED outside

Down == \/ Cors \/ NewAuth \/ ConditionalAuth \/ CacheControl \/ SafeBrowsing
        \/ TrailingSlash \/ ETagBefore \/ CompressBefore
Up   == ETagAfter \/ CompressAfter \/ ReturnThrough

Next == \/ Build \/ Publish \/ Send \/ Follow \/ Receive
        \/ Down \/ RouterAnswers \/ Handler \/ FilesHandler \/ Up \/ Finish

Spec == Init /\ [][Next]_vars

-----------------------------------------------------------------------------
Statuses == {200, 204, 206, 301, 302, 304, 400, 401, 403, 404, 416, 500}

Bodies   == Contents \cup {None, "message"}
Headers  == {"allow-origin", "allow-methods", "vary", "cache-control", "safe-browsing"}
Answers  == [status : Statuses, body : Bodies, encoded : BOOLEAN,
             tag : [content : Bodies, encoded : BOOLEAN] \cup {None},
             headers : SUBSET Headers, plain : BOOLEAN]

TypeOK ==
  /\ server \in Servers
  /\ resource \in Contents
  /\ at \in {"new", "panicked", "idle", "down", "up", "sent"}
  /\ pos \in 0 .. Router /\ reached \in 0 .. Router
  /\ err \in BOOLEAN
  /\ request.cross \in BOOLEAN /\ request.asksMethod \in BOOLEAN
  /\ passed \subseteq DOMAIN Mws
  /\ served \in Contents \cup {None}
  /\ resp \in Answers

Before(kind) == \E i \in 1 .. reached : i \in DOMAIN Mws /\ Mws[i] = kind

\* A script of another origin can read every answer to a request that CORS has
\* seen, also when a middleware behind it, the handler or the error handler
\* makes the answer start again (request.go, Error).  Not those that fasthttp
\* writes itself, for the router or the files, and not those to an OPTIONS
\* request that asks for no method, for which CORS grants nothing.
ReadableByScripts ==
  at = "sent" /\ Cross /\ (request.method = "OPTIONS" => request.asksMethod)
    /\ Before("cors") /\ Origins = "any" /\ ~resp.plain
  => "allow-origin" \in resp.headers

\* DisableClientCache: what is not an error reaches the client with the
\* Cache-Control of the chain, also as a redirection and a 304, but for the 304
\* that fasthttp writes itself for a file.
CacheControlKept ==
  at = "sent" /\ Before("cache-control") /\ resp.status < 400 /\ ~resp.plain
  => "cache-control" \in resp.headers

\* A 304 for an entity tag sends the client to a copy of what the handler has
\* just written, one that it named, whatever has been published and compressed
\* since it got it.  That of a file goes by the time of its last change instead.
FreshCopy ==
  at = "sent" /\ resp.status = 304 /\ ~resp.plain
  => \E c \in copies : /\ c.content = served
                       /\ \E i \in DOMAIN request.noneMatch : request.noneMatch[i].tag = c.tag

\* The handler runs only for a request that each authorization before it has
\* validated, or has skipped because its condition said no.
HandlerGuarded ==
  served # None =>
    \A i \in DOMAIN Mws : Mws[i] \in {"auth", "conditional-auth"} => i \in passed

\* A preflight request ends at CORS, with 204: nothing behind it runs, and no
\* middleware in front changes the answer.
PreflightStops ==
  Preflight /\ Before("cors")
  => /\ reached \in DOMAIN Mws /\ Mws[reached] = "cors"
     /\ at = "sent" => resp.status = 204

Literal(p) == \A i \in DOMAIN p : p[i] \notin DOMAIN Unescape

\* A client that follows a redirection of the trailing slash middleware is not
\* redirected again, unless there was something left to decode in its path.
RedirectOnce ==
  at = "sent" /\ from # None /\ Literal(from) => location = None

=============================================================================
