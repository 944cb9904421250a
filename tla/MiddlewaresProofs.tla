------------------------- MODULE MiddlewaresProofs -------------------------
(***************************************************************************)
(* Proofs about Middlewares, for every chain of any length.                *)
(*                                                                         *)
(* The invariant speaks of the middlewares that have run: all before the   *)
(* current one on the way down, all up to the last one on the way back.    *)
(* Three lemmas say what a step has to do to the answer to keep it: one    *)
(* for a step that goes on, one for the middleware that turns back, one    *)
(* for the way back.                                                       *)
(***************************************************************************)
EXTENDS Middlewares, FoldProofs

AuthKinds == {"auth", "conditional-auth"}

\* CORS grants something to the request.
Granted == Cross /\ (request.method = "OPTIONS" => request.asksMethod) /\ Origins = "any"

HasRun(kind) ==
  \E i \in DOMAIN Mws : /\ Mws[i] = kind
                        /\ i < reached \/ (i = reached /\ at # "down")

\* On the way down nothing has been answered yet.
ChainOK ==
  /\ at = "down" => /\ pos = reached /\ pos \in 1 .. Router /\ ~err
                    /\ resp.status = 200 /\ ~resp.plain /\ served = None
  /\ at \in {"new", "panicked", "idle"} => reached = 0 /\ served = None
  /\ resp.plain => ~err

PassedOK ==
  /\ at = "down" => \A i \in DOMAIN Mws : i < pos /\ Mws[i] \in AuthKinds => i \in passed
  /\ HandlerGuarded

HeadersOK ==
  /\ HasRun("cors") /\ Granted /\ ~resp.plain => "allow-origin" \in resp.headers
  /\ HasRun("cache-control") /\ resp.status < 400 /\ ~resp.plain => "cache-control" \in resp.headers

PreflightOK ==
  Preflight /\ HasRun("cors") =>
    /\ at \in {"up", "sent"} /\ reached \in DOMAIN Mws /\ Mws[reached] = "cors"
    /\ resp.status = 204 /\ resp.body = None /\ ~err

IInv == TypeOK /\ ChainOK /\ PassedOK /\ HeadersOK /\ PreflightOK

-----------------------------------------------------------------------------
(* Answers.                                                                *)

LEMMA EmptyAnswer == Empty \in Answers /\ Empty.status = 200 /\ Empty.headers = {} /\ Empty.plain = FALSE
BY DEF Empty, Answers, Statuses, Bodies

\* Error keeps the grants of CORS and nothing else.
LEMMA ErrorAnswer ==
  ASSUME NEW r \in Answers, NEW status \in Statuses
  PROVE  /\ Error(r, status) \in Answers
         /\ Error(r, status).status = status
         /\ Error(r, status).headers = r.headers \cap Preserved
         /\ Error(r, status).plain = FALSE
<1>1. Message \in Bodies
    BY DEF Bodies, Message
<1>2. r.headers \cap Preserved \in SUBSET Headers
    BY DEF Answers
<1>3. Error(r, status) \in Answers
    BY <1>1, <1>2 DEF Error, Empty, Answers
<1>4. /\ Error(r, status).status = status
      /\ Error(r, status).headers = r.headers \cap Preserved
      /\ Error(r, status).plain = FALSE
    BY DEF Error, Empty
<1> QED BY <1>3, <1>4

\* NoContent keeps all headers.
LEMMA NoContentAnswer ==
  ASSUME NEW r \in Answers, NEW status \in Statuses
  PROVE  /\ NoContent(r, status) \in Answers
         /\ NoContent(r, status).status = status
         /\ NoContent(r, status).body = None
         /\ NoContent(r, status).headers = r.headers
         /\ NoContent(r, status).plain = r.plain
BY DEF NoContent, Answers, Bodies

LEMMA WithAnswer ==
  ASSUME NEW r \in Answers, NEW H \in SUBSET Headers
  PROVE  /\ With(r, H) \in Answers
         /\ With(r, H).status = r.status
         /\ With(r, H).headers = r.headers \cup H
         /\ With(r, H).plain = r.plain
BY DEF With, Answers

LEMMA CorsHeaders ==
  /\ Vary \in SUBSET Headers /\ Grant \in SUBSET Headers /\ {"vary"} \in SUBSET Headers
  /\ {"vary", "allow-methods"} \cup Grant \in SUBSET Headers
  /\ {"cache-control"} \in SUBSET Headers /\ {"safe-browsing"} \in SUBSET Headers
  /\ Origins = "any" => "allow-origin" \in Grant
BY DEF Vary, Grant, Headers

\* The chain of a server is a sequence.
LEMMA ChainType ==
  ASSUME server \in Servers
  PROVE  /\ Mws \in Seq(Kinds) /\ Router \in Nat /\ Router >= 1
         /\ DOMAIN Mws = 1 .. (Router - 1)
BY ServersAssumption DEF Mws, Router

-----------------------------------------------------------------------------
\* A middleware on the way down calls Next.
GoesOn ==
  /\ at = "down" /\ pos < Router
  /\ server' = server /\ resource' = resource /\ request' = request /\ from' = from
  /\ at' = at /\ err' = err /\ served' = served /\ pos' = pos + 1 /\ reached' = pos + 1

MayGoOn ==
  /\ resp' \in Answers /\ resp'.status = 200 /\ resp'.plain = FALSE
  /\ resp.headers \subseteq resp'.headers
  /\ passed' = passed \/ passed' = passed \cup {pos}
  /\ Mws[pos] \in AuthKinds => passed' = passed \cup {pos}
  /\ Mws[pos] = "cors" => ~Preflight /\ (Granted => "allow-origin" \in resp'.headers)
  /\ Mws[pos] = "cache-control" => "cache-control" \in resp'.headers

LEMMA GoOnOK ==
  ASSUME IInv, GoesOn, MayGoOn
  PROVE  IInv'
<1>1. /\ server' = server /\ resource' = resource /\ request' = request /\ from' = from
      /\ at' = "down" /\ err' = err /\ served' = served
      /\ pos' = pos + 1 /\ reached' = pos + 1
    BY DEF GoesOn
<1>2. /\ Mws' = Mws /\ Router' = Router /\ (Cross <=> Cross') /\ Origins' = Origins
      /\ (Preflight <=> Preflight') /\ (Granted <=> Granted')
    BY <1>1 DEF Mws, Router, Cross, Origins, Preflight, Granted
<1>3. /\ pos \in 1 .. (Router - 1) /\ Router \in Nat /\ DOMAIN Mws = 1 .. (Router - 1)
      /\ pos = reached
    BY ChainType DEF IInv, TypeOK, ChainOK, GoesOn
<1>4. passed' \subseteq DOMAIN Mws
    BY <1>3 DEF IInv, TypeOK, MayGoOn
<1>5. TypeOK'
    BY <1>1, <1>2, <1>3, <1>4 DEF IInv, TypeOK, MayGoOn
<1>6. ChainOK'
    BY <1>1, <1>2, <1>3 DEF IInv, ChainOK, MayGoOn, GoesOn
<1>7. PassedOK'
  <2>1. ASSUME NEW i \in DOMAIN Mws, i < pos + 1, Mws[i] \in AuthKinds
        PROVE  i \in passed'
    <3>1. CASE i = pos
        BY <2>1, <3>1 DEF MayGoOn
    <3>2. CASE i # pos
      <4>1. i < pos
          BY <1>3, <2>1, <3>2
      <4> QED BY <2>1, <4>1 DEF IInv, PassedOK, MayGoOn, GoesOn
    <3> QED BY <3>1, <3>2
  <2>2. served' = None
      BY <1>1 DEF IInv, ChainOK, GoesOn
  <2> QED BY <1>1, <1>2, <2>1, <2>2 DEF PassedOK, HandlerGuarded
<1>8. ASSUME NEW kind, HasRun(kind)'
      PROVE  HasRun(kind) \/ Mws[pos] = kind
    BY <1>1, <1>2, <1>3, <1>8 DEF HasRun
<1>9. HeadersOK'
    BY <1>1, <1>2, <1>8 DEF HeadersOK, IInv, ChainOK, MayGoOn, GoesOn
<1>10. PreflightOK'
    BY <1>1, <1>2, <1>8 DEF PreflightOK, IInv, MayGoOn, GoesOn
<1> QED BY <1>5, <1>6, <1>7, <1>9, <1>10 DEF IInv

\* A middleware on the way down, the router or the handler answers or fails.
Turns ==
  /\ at = "down"
  /\ server' = server /\ resource' = resource /\ request' = request /\ from' = from
  /\ at' = "up" /\ pos' = pos - 1 /\ passed' = passed /\ reached' = reached
  /\ err' \in BOOLEAN

MayTurn ==
  /\ resp' \in Answers
  /\ resp'.plain => ~err'
  /\ resp'.plain \/ resp.headers \cap Preserved \subseteq resp'.headers
  /\ resp'.status < 400 /\ ~resp'.plain => resp.headers \subseteq resp'.headers
  /\ pos < Router => Mws[pos] # "cache-control"
  /\ served' = served \/ (pos = Router /\ served' \in Contents)
  /\ pos < Router /\ Mws[pos] = "cors" =>
       /\ Granted => "allow-origin" \in resp'.headers
       /\ resp'.status = 204 /\ resp'.body = None /\ ~err'

LEMMA TurnOK ==
  ASSUME IInv, Turns, MayTurn
  PROVE  IInv'
<1>1. /\ server' = server /\ resource' = resource /\ request' = request /\ from' = from
      /\ at' = "up" /\ passed' = passed /\ pos' = pos - 1 /\ reached' = reached
      /\ err' \in BOOLEAN
    BY DEF Turns
<1>2. /\ Mws' = Mws /\ Router' = Router /\ (Cross <=> Cross') /\ Origins' = Origins
      /\ (Preflight <=> Preflight') /\ (Granted <=> Granted')
    BY <1>1 DEF Mws, Router, Cross, Origins, Preflight, Granted
<1>3. /\ pos \in 1 .. Router /\ Router \in Nat /\ DOMAIN Mws = 1 .. (Router - 1)
      /\ pos = reached
    BY ChainType DEF IInv, TypeOK, ChainOK, Turns
<1>4. TypeOK'
  <2>1. served' \in Contents \cup {None}
      BY DEF IInv, TypeOK, MayTurn
  <2> QED BY <1>1, <1>2, <1>3, <2>1 DEF IInv, TypeOK, MayTurn
<1>5. ChainOK'
    BY <1>1 DEF IInv, ChainOK, MayTurn
<1>6. PassedOK'
  <2>1. CASE served' = served
      BY <1>1, <1>2, <2>1 DEF IInv, PassedOK, HandlerGuarded, ChainOK
  <2>2. CASE pos = Router
      BY <1>1, <1>2, <1>3, <2>2 DEF IInv, PassedOK, HandlerGuarded, AuthKinds, Turns
  <2> QED BY <2>1, <2>2 DEF MayTurn
<1>7. ASSUME NEW kind, HasRun(kind)'
      PROVE  HasRun(kind) \/ (pos < Router /\ pos \in DOMAIN Mws /\ Mws[pos] = kind)
    BY <1>1, <1>2, <1>3, <1>7 DEF HasRun, Turns
<1>8. HeadersOK'
  <2>1. ASSUME HasRun("cors")', Granted, ~resp'.plain
        PROVE  "allow-origin" \in resp'.headers
    <3>1. CASE HasRun("cors")
        BY <2>1, <3>1 DEF IInv, HeadersOK, ChainOK, Preserved, MayTurn, Turns
    <3> QED BY <1>7, <2>1, <3>1 DEF MayTurn
  <2>2. ASSUME HasRun("cache-control")', resp'.status < 400, ~resp'.plain
        PROVE  "cache-control" \in resp'.headers
    <3>1. HasRun("cache-control")
        BY <1>7, <2>2 DEF MayTurn
    <3>2. resp.status = 200 /\ ~resp.plain
        BY DEF IInv, ChainOK, Turns
    <3> QED BY <2>2, <3>1, <3>2 DEF IInv, HeadersOK, MayTurn
  <2> QED BY <1>1, <1>2, <2>1, <2>2 DEF HeadersOK
<1>9. PreflightOK'
  <2> SUFFICES ASSUME Preflight, HasRun("cors")'
               PROVE  /\ reached \in DOMAIN Mws /\ Mws[reached] = "cors"
                      /\ resp'.status = 204 /\ resp'.body = None /\ ~err'
      BY <1>1, <1>2 DEF PreflightOK
  <2>1. ~HasRun("cors")
      BY DEF IInv, PreflightOK, Turns
  <2> QED BY <1>3, <1>7, <2>1 DEF MayTurn
<1> QED BY <1>4, <1>5, <1>6, <1>8, <1>9 DEF IInv

\* On the way back the answer keeps what it has promised.
Returns ==
  /\ at = "up" /\ at' \in {"up", "sent"} /\ pos' \in 0 .. Router
  /\ server' = server /\ resource' = resource /\ request' = request /\ from' = from
  /\ passed' = passed /\ reached' = reached /\ served' = served
  /\ err' \in BOOLEAN

MayReturn ==
  /\ resp' \in Answers
  /\ resp'.plain = resp.plain
  /\ resp'.plain => ~err'
  /\ resp.headers \cap Preserved \subseteq resp'.headers
  /\ resp'.status < 400 => resp.status < 400 /\ resp.headers \subseteq resp'.headers
  /\ resp.status = 204 /\ resp.body = None /\ ~err =>
       resp'.status = 204 /\ resp'.body = None /\ ~err'

LEMMA ReturnOK ==
  ASSUME IInv, Returns, MayReturn
  PROVE  IInv'
<1>1. /\ server' = server /\ resource' = resource /\ request' = request /\ from' = from
      /\ passed' = passed /\ reached' = reached /\ served' = served /\ err' \in BOOLEAN
      /\ at = "up" /\ at' \in {"up", "sent"} /\ pos' \in 0 .. Router
    BY DEF Returns
<1>2. /\ Mws' = Mws /\ Router' = Router /\ (Cross <=> Cross') /\ Origins' = Origins
      /\ (Preflight <=> Preflight') /\ (Granted <=> Granted')
    BY <1>1 DEF Mws, Router, Cross, Origins, Preflight, Granted
<1>3. TypeOK'
    BY <1>1, <1>2 DEF IInv, TypeOK, MayReturn
<1>4. ChainOK' /\ PassedOK'
    BY <1>1, <1>2 DEF IInv, ChainOK, PassedOK, HandlerGuarded, MayReturn
<1>5. ASSUME NEW kind, HasRun(kind)'
      PROVE  HasRun(kind)
    BY <1>1, <1>2, <1>5 DEF HasRun
<1>6. HeadersOK'
    BY <1>1, <1>2, <1>5 DEF IInv, HeadersOK, Preserved, MayReturn
<1>7. PreflightOK'
    BY <1>1, <1>2, <1>5 DEF IInv, PreflightOK, MayReturn
<1> QED BY <1>3, <1>4, <1>6, <1>7 DEF IInv

\* What the operators of the model are, as far as the lemmas need it.
LEMMA GoOnSteps ==
  ASSUME at = "down", pos < Router, NEW r, NEW p, GoOnWith(r, p)
  PROVE  GoesOn /\ resp' = r
BY DEF GoOnWith, GoesOn, outside, asked

LEMMA BackSteps ==
  ASSUME NEW r, NEW e \in BOOLEAN, Back(r, e)
  PROVE  /\ resp' = r /\ err' = e
         /\ at = "down" => Turns
BY DEF Back, Turns, outside, asked

LEMMA ReturnSteps ==
  ASSUME IInv, NEW r, NEW e \in BOOLEAN, Return(r, e)
  PROVE  /\ resp' = r /\ err' = e /\ served' = served
         /\ at = "down" => Turns
         /\ at = "up" /\ pos > 0 => Returns
<1>1. pos \in 0 .. Router /\ Router \in Nat
    BY ChainType DEF IInv, TypeOK
<1> QED BY <1>1 DEF Return, Back, Turns, Returns, outside, asked

-----------------------------------------------------------------------------
(* The middlewares.                                                        *)

LEMMA DownFacts ==
  ASSUME IInv, at = "down"
  PROVE  resp \in Answers /\ resp.status = 200 /\ resp.plain = FALSE /\ resource \in Contents
BY DEF IInv, TypeOK, ChainOK, Answers

LEMMA WithDown ==
  ASSUME IInv, at = "down", NEW H \in SUBSET Headers
  PROVE  /\ With(resp, H) \in Answers /\ With(resp, H).status = 200
         /\ With(resp, H).plain = FALSE /\ With(resp, H).headers = resp.headers \cup H
<1>1. resp \in Answers /\ resp.status = 200 /\ resp.plain = FALSE
    BY DownFacts
<1>2. /\ With(resp, H) \in Answers /\ With(resp, H).status = resp.status
      /\ With(resp, H).plain = resp.plain /\ With(resp, H).headers = resp.headers \cup H
    BY <1>1, WithAnswer
<1> QED BY <1>1, <1>2

LEMMA CorsOK ==
  ASSUME IInv, Cors
  PROVE  IInv'
<1>1. at = "down" /\ pos < Router /\ Mws[pos] = "cors"
    BY DEF Cors, Runs
<1>2. ASSUME NEW H \in SUBSET Headers
      PROVE  /\ With(resp, H) \in Answers /\ With(resp, H).status = 200
             /\ With(resp, H).plain = FALSE /\ With(resp, H).headers = resp.headers \cup H
    BY <1>1, WithDown
<1>3. ASSUME NEW H \in SUBSET Headers, GoOn(With(resp, H)), ~Preflight,
             Granted => "allow-origin" \in H
      PROVE  IInv'
  <2>1. GoesOn /\ resp' = With(resp, H) /\ passed' = passed
      BY <1>1, <1>3, GoOnSteps DEF GoOn
  <2>2. resp' \in Answers /\ resp'.status = 200 /\ resp'.plain = FALSE
        /\ resp'.headers = resp.headers \cup H
      BY <2>1, <1>2
  <2>3. MayGoOn
      BY <1>1, <1>3, <2>1, <2>2 DEF MayGoOn, AuthKinds
  <2> QED BY <2>1, <2>3, GoOnOK
<1>4. ASSUME NEW H \in SUBSET Headers, Return(NoContent(With(resp, H), 204), FALSE),
             Granted => "allow-origin" \in H
      PROVE  IInv'
  <2>1. Turns /\ resp' = NoContent(With(resp, H), 204) /\ err' = FALSE /\ served' = served
      BY <1>1, <1>4, ReturnSteps
  <2> DEFINE r == With(resp, H)
  <2>2. r \in Answers /\ r.plain = FALSE /\ r.headers = resp.headers \cup H
      BY <1>2
  <2> HIDE DEF r
  <2>3. 204 \in Statuses
      BY DEF Statuses
  <2>4. /\ NoContent(r, 204) \in Answers /\ NoContent(r, 204).status = 204
        /\ NoContent(r, 204).body = None /\ NoContent(r, 204).headers = r.headers
        /\ NoContent(r, 204).plain = r.plain
      BY <2>2, <2>3, NoContentAnswer
  <2>5. resp' = NoContent(r, 204)
      BY <2>1 DEF r
  <2>6. resp' \in Answers /\ resp'.status = 204 /\ resp'.plain = FALSE /\ resp'.body = None
        /\ resp'.headers = resp.headers \cup H
      BY <2>2, <2>4, <2>5
  <2>7. MayTurn
      BY <1>1, <1>4, <2>1, <2>6 DEF MayTurn
  <2> QED BY <2>1, <2>7, TurnOK
<1>5. CASE ~Cross /\ request.method = "OPTIONS" /\ Return(NoContent(With(resp, Vary), 204), FALSE)
    BY <1>4, <1>5, CorsHeaders DEF Granted
<1>6. CASE ~Cross /\ request.method # "OPTIONS" /\ GoOn(With(resp, Vary))
    BY <1>3, <1>6, CorsHeaders DEF Granted, Preflight
<1>7. CASE /\ Cross /\ request.method = "OPTIONS" /\ ~request.asksMethod
           /\ GoOn(With(resp, {"vary"}))
    BY <1>3, <1>7, CorsHeaders DEF Granted, Preflight
<1>8. CASE Cross /\ request.method # "OPTIONS" /\ GoOn(With(resp, Vary \cup Grant))
  <2>1. Vary \cup Grant \in SUBSET Headers /\ (Granted => "allow-origin" \in Vary \cup Grant)
      BY CorsHeaders DEF Granted
  <2> QED BY <1>3, <1>8, <2>1 DEF Preflight
<1>9. CASE Return(NoContent(With(resp, {"vary", "allow-methods"} \cup Grant), 204), FALSE)
  <2>1. Granted => "allow-origin" \in {"vary", "allow-methods"} \cup Grant
      BY CorsHeaders DEF Granted
  <2> QED BY <1>4, <1>9, <2>1, CorsHeaders
<1> QED BY <1>5, <1>6, <1>7, <1>8, <1>9 DEF Cors

\* Middlewares that answer with an error, fail, or let the request pass.
Indifferent == at = "down" /\ (pos < Router => Mws[pos] # "cors" /\ Mws[pos] # "cache-control")

LEMMA RefuseOK ==
  ASSUME IInv, Indifferent, NEW status \in Statuses, ~(status < 400),
         Back(Error(resp, status), FALSE), served' = served \/ (pos = Router /\ served' \in Contents)
  PROVE  IInv'
<1>1. Turns /\ resp' = Error(resp, status) /\ err' = FALSE
    BY BackSteps DEF Indifferent
<1>2. /\ resp' \in Answers /\ resp'.status = status /\ resp'.plain = FALSE
      /\ resp'.headers = resp.headers \cap Preserved
  <2>1. resp \in Answers
      BY DownFacts DEF Indifferent
  <2>2. /\ Error(resp, status) \in Answers /\ Error(resp, status).status = status
        /\ Error(resp, status).headers = resp.headers \cap Preserved
        /\ Error(resp, status).plain = FALSE
      BY <2>1, ErrorAnswer
  <2> QED BY <1>1, <2>2
<1>3. MayTurn
    BY <1>1, <1>2 DEF MayTurn, Indifferent
<1> QED BY <1>1, <1>3, TurnOK

LEMMA FailOK ==
  ASSUME IInv, Indifferent, Back(resp, TRUE),
         served' = served \/ (pos = Router /\ served' \in Contents)
  PROVE  IInv'
<1>1. Turns /\ resp' = resp
    BY BackSteps DEF Indifferent
<1>2. resp' \in Answers /\ resp'.plain = FALSE
    BY <1>1, DownFacts DEF Indifferent
<1>3. MayTurn
    BY <1>1, <1>2 DEF MayTurn, Indifferent
<1> QED BY <1>1, <1>3, TurnOK

LEMMA PassOK ==
  ASSUME IInv, Indifferent, pos < Router, NEW p, GoOnWith(resp, p),
         passed' = passed \/ passed' = passed \cup {pos},
         Mws[pos] \in AuthKinds => passed' = passed \cup {pos}
  PROVE  IInv'
<1>1. GoesOn /\ resp' = resp
    BY GoOnSteps DEF Indifferent
<1>2. resp' \in Answers /\ resp'.status = 200 /\ resp'.plain = FALSE
    BY <1>1, DownFacts DEF Indifferent
<1>3. MayGoOn
    BY <1>1, <1>2 DEF MayGoOn, Indifferent
<1> QED BY <1>1, <1>3, GoOnOK

LEMMA AuthOK ==
  ASSUME IInv, NewAuth \/ ConditionalAuth
  PROVE  IInv'
<1>1. Indifferent /\ pos < Router
    BY DEF NewAuth, ConditionalAuth, Runs, Indifferent
<1>2. ASSUME GoOnWith(resp, path), passed' = passed \cup {pos} PROVE IInv'
    BY <1>1, <1>2, PassOK
<1>3. ASSUME Return(resp, TRUE) PROVE IInv'
  <2>1. Back(resp, TRUE) /\ served' = served
      BY <1>3 DEF Return
  <2> QED BY <1>1, <2>1, FailOK
<1>4. ASSUME Return(Error(resp, 401), FALSE) PROVE IInv'
  <2>1. Back(Error(resp, 401), FALSE) /\ served' = served
      BY <1>4 DEF Return
  <2>2. 401 \in Statuses /\ ~(401 < 400)
      BY DEF Statuses
  <2> QED BY <1>1, <2>1, <2>2, RefuseOK
<1>5. ASSUME NEW key \in Keys, Auth(key) PROVE IInv'
  <2>1. CASE key = "good"
      BY <1>2, <1>5, <2>1 DEF Auth
  <2>2. CASE key \in {"bad", "none"}
      BY <1>4, <1>5, <2>2 DEF Auth
  <2>3. CASE key = "failing"
      BY <1>3, <1>5, <2>3 DEF Auth
  <2> QED BY <1>5, <2>1, <2>2, <2>3 DEF Keys
<1> QED BY <1>2, <1>3, <1>5 DEF NewAuth, ConditionalAuth

LEMMA HeaderOK ==
  ASSUME IInv, CacheControl \/ SafeBrowsing
  PROVE  IInv'
<1>1. at = "down" /\ pos < Router /\ Mws[pos] \in {"cache-control", "safe-browsing"}
    BY DEF CacheControl, SafeBrowsing, Runs
<1>2. PICK H \in SUBSET Headers : /\ GoOn(With(resp, H))
                                  /\ Mws[pos] = "cache-control" => "cache-control" \in H
    BY CorsHeaders DEF CacheControl, SafeBrowsing, Runs
<1>3. GoesOn /\ resp' = With(resp, H) /\ passed' = passed
    BY <1>1, <1>2, GoOnSteps DEF GoOn
<1>4. resp' \in Answers /\ resp'.status = 200 /\ resp'.plain = FALSE
      /\ resp'.headers = resp.headers \cup H
  <2>1. /\ With(resp, H) \in Answers /\ With(resp, H).status = 200
        /\ With(resp, H).plain = FALSE /\ With(resp, H).headers = resp.headers \cup H
      BY <1>1, WithDown
  <2> QED BY <1>3, <2>1
<1>5. MayGoOn
    BY <1>1, <1>2, <1>3, <1>4 DEF MayGoOn, AuthKinds
<1> QED BY <1>3, <1>5, GoOnOK

LEMMA BeforeOK ==
  ASSUME IInv, ETagBefore \/ CompressBefore
  PROVE  IInv'
<1>1. /\ Indifferent /\ pos < Router /\ Mws[pos] \notin AuthKinds
      /\ GoOnWith(resp, path) /\ passed' = passed
    BY DEF ETagBefore, CompressBefore, Runs, GoOn, AuthKinds, Indifferent
<1> QED BY <1>1, PassOK

LEMMA TrailingSlashOK ==
  ASSUME IInv, TrailingSlash
  PROVE  IInv'
<1>1. Indifferent /\ pos < Router /\ Mws[pos] = "trailing-slash"
    BY DEF TrailingSlash, Runs, Indifferent
<1>2. ASSUME NEW p, GoOnWith(resp, p), passed' = passed PROVE IInv'
    BY <1>1, <1>2, PassOK DEF AuthKinds
<1>3. ASSUME Return(Error(resp, 400), FALSE) PROVE IInv'
  <2>1. Back(Error(resp, 400), FALSE) /\ served' = served
      BY <1>3 DEF Return
  <2>2. 400 \in Statuses /\ ~(400 < 400)
      BY DEF Statuses
  <2> QED BY <1>1, <2>1, <2>2, RefuseOK
<1>4. ASSUME Back([resp EXCEPT !.status = 302], FALSE), served' = served PROVE IInv'
  <2>1. Turns /\ resp' = [resp EXCEPT !.status = 302] /\ err' = FALSE
      BY <1>1, <1>4, BackSteps DEF Indifferent
  <2>2. resp \in Answers /\ resp.plain = FALSE
      BY <1>1, DownFacts DEF Indifferent
  <2>3. resp' \in Answers /\ resp'.headers = resp.headers /\ resp'.plain = resp.plain
      BY <2>1, <2>2 DEF Answers, Statuses
  <2>4. MayTurn
      BY <1>1, <1>4, <2>1, <2>2, <2>3 DEF MayTurn, Indifferent
  <2> QED BY <2>1, <2>4, TurnOK
<1> QED BY <1>2, <1>3, <1>4 DEF TrailingSlash, GoOn

-----------------------------------------------------------------------------
(* The end of the chain, and the way back.                                 *)

\* The router or the handler gives its answer back.
LEMMA AnswerOK ==
  ASSUME IInv, at = "down", pos = Router, NEW r \in Answers, Back(r, FALSE),
         r.plain \/ r.headers = resp.headers, served' = served \/ served' \in Contents
  PROVE  IInv'
<1>1. Router \in Nat /\ resp \in Answers /\ resp.plain = FALSE
    BY ChainType, DownFacts DEF IInv, TypeOK
<1>2. Turns /\ err' = FALSE /\ resp' = r
    BY BackSteps
<1>3. MayTurn
    BY <1>1, <1>2 DEF MayTurn
<1> QED BY <1>2, <1>3, TurnOK

\* What the router and the handlers answer, by name.
WithBody(body)     == [resp EXCEPT !.body = body]
WithStatus(status) == [resp EXCEPT !.status = status]
WithFile(status)   == [resp EXCEPT !.status = status, !.body = resource]
PlainNotModified   == [Empty EXCEPT !.status = 304, !.plain = TRUE]

Answered(r, status, body) ==
  /\ r \in Answers
  /\ r.status = status /\ r.body = body /\ r.tag = resp.tag
  /\ r.headers = resp.headers

AnsweredPlainly(r, status, body) ==
  /\ r \in Answers
  /\ r.status = status /\ r.body = body /\ r.tag = None
  /\ r.plain

LEMMA NamedAnswers ==
  ASSUME resp \in Answers, resource \in Contents
  PROVE  /\ \A body \in {resource, None} : Answered(WithBody(body), resp.status, body)
         /\ \A status \in Statuses : /\ Answered(WithStatus(status), status, resp.body)
                                   /\ Answered(WithFile(status), status, resource)
                                   /\ AnsweredPlainly(PlainError(status), status, "message")
         /\ AnsweredPlainly(PlainNotModified, 304, None)
<1>1. ASSUME NEW body \in {resource, None} PROVE Answered(WithBody(body), resp.status, body)
    BY DEF WithBody, Answered, Answers, Bodies
<1>2. ASSUME NEW status \in Statuses PROVE Answered(WithStatus(status), status, resp.body)
    BY DEF WithStatus, Answered, Answers
<1>3. ASSUME NEW status \in Statuses PROVE Answered(WithFile(status), status, resource)
    BY DEF WithFile, Answered, Answers, Bodies
<1>4. ASSUME NEW status \in Statuses
      PROVE  AnsweredPlainly(PlainError(status), status, "message")
    BY DEF PlainError, AnsweredPlainly, Empty, Answers, Bodies
<1>5. AnsweredPlainly(PlainNotModified, 304, None)
  <2>1. ASSUME NEW status \in Statuses
        PROVE  AnsweredPlainly([Empty EXCEPT !.status = status, !.plain = TRUE], status, None)
      BY DEF AnsweredPlainly, Empty, Answers, Bodies
  <2>2. 304 \in Statuses
      BY DEF Statuses
  <2> QED BY <2>1, <2>2, Zenon DEF PlainNotModified
<1> QED BY <1>1, <1>2, <1>3, <1>4, <1>5

\* The disjuncts of the actions in these names.
Written   == \E body \in {resource, None} : Back(WithBody(body), FALSE)
FileSent  == \E status \in {200, 206} : Back(WithFile(status), FALSE)
NoFile    == \E status \in {302, 404} : Back(WithStatus(status), FALSE)
WrongFile == \E status \in {400, 403, 404, 416, 500} : Back(PlainError(status), FALSE)

LEMMA NamedSteps ==
  /\ RouterAnswers => /\ served' = served
                      /\ Back(PlainError(404), FALSE) \/ Back(WithStatus(301), FALSE)
  /\ Handler => Written \/ Back(Error(resp, 404), FALSE) \/ Back(resp, TRUE)
  /\ FilesHandler => FileSent \/ NoFile \/ WrongFile \/ Back(PlainNotModified, FALSE)
<1>1. RouterAnswers => /\ served' = served
                       /\ Back(PlainError(404), FALSE) \/ Back(WithStatus(301), FALSE)
    BY Zenon DEF RouterAnswers, Return, WithStatus
<1>2. Handler => Written \/ Back(Error(resp, 404), FALSE) \/ Back(resp, TRUE)
    BY Zenon DEF Handler, Written, WithBody
<1>3. FilesHandler => FileSent \/ NoFile \/ WrongFile \/ Back(PlainNotModified, FALSE)
    BY Zenon DEF FilesHandler, FileSent, NoFile, WrongFile, WithFile, WithStatus, PlainNotModified
<1> QED BY <1>1, <1>2, <1>3, Zenon

LEMMA EndOK ==
  ASSUME IInv, RouterAnswers \/ Handler \/ FilesHandler
  PROVE  IInv'
<1>1. at = "down" /\ pos = Router /\ Indifferent
  <2>1. at = "down" /\ pos = Router
      BY DEF RouterAnswers, Handler, FilesHandler
  <2>2. Router \in Nat
      BY ChainType DEF IInv, TypeOK
  <2> QED BY <2>1, <2>2 DEF Indifferent
<1>2. resp \in Answers /\ resource \in Contents
    BY <1>1, DownFacts
<1> DEFINE Fits(r) == r \in Answers /\ (r.plain \/ r.headers = resp.headers)
<1>3. /\ \A body \in {resource, None} : Fits(WithBody(body))
      /\ \A status \in Statuses : /\ Fits(WithStatus(status)) /\ Fits(WithFile(status))
                                /\ Fits(PlainError(status))
      /\ Fits(PlainNotModified)
    BY <1>2, NamedAnswers DEF Answered, AnsweredPlainly
<1>4. ASSUME NEW r, Fits(r), Back(r, FALSE), served' = served \/ served' \in Contents
      PROVE  IInv'
    BY <1>1, <1>4, AnswerOK
<1> HIDE DEF Fits
<1>5. 404 \in Statuses /\ 301 \in Statuses
    BY DEF Statuses
<1>6. CASE RouterAnswers
  <2>1. Fits(PlainError(404)) /\ Fits(WithStatus(301))
      BY <1>3, <1>5
  <2> QED BY <1>4, <1>6, <2>1, NamedSteps
<1>7. CASE Handler
  <2>1. served' \in Contents
      BY <1>2, <1>7 DEF Handler
  <2>2. ASSUME Written PROVE IInv'
    <3>1. PICK body \in {resource, None} : Back(WithBody(body), FALSE)
        BY <2>2 DEF Written
    <3> QED BY <1>3, <1>4, <2>1, <3>1
  <2>3. ASSUME Back(Error(resp, 404), FALSE) PROVE IInv'
    <3>1. 404 \in Statuses /\ ~(404 < 400)
        BY <1>5
    <3> QED BY <1>1, <2>1, <2>3, <3>1, RefuseOK
  <2>4. ASSUME Back(resp, TRUE) PROVE IInv'
      BY <1>1, <2>1, <2>4, FailOK
  <2> QED BY <1>7, <2>2, <2>3, <2>4, NamedSteps
<1>8. CASE FilesHandler
  <2>1. served' \in Contents
      BY <1>2, <1>8 DEF FilesHandler
  <2>2. ASSUME FileSent PROVE IInv'
    <3>1. PICK status \in {200, 206} : Back(WithFile(status), FALSE)
        BY <2>2 DEF FileSent
    <3>2. status \in Statuses
        BY <3>1 DEF Statuses
    <3>3. Fits(WithFile(status))
        BY <1>3, <3>2
    <3> QED BY <1>4, <2>1, <3>1, <3>3
  <2>3. ASSUME NoFile PROVE IInv'
    <3>1. PICK status \in {302, 404} : Back(WithStatus(status), FALSE)
        BY <2>3 DEF NoFile
    <3>2. status \in Statuses
        BY <3>1 DEF Statuses
    <3>3. Fits(WithStatus(status))
        BY <1>3, <3>2
    <3> QED BY <1>4, <2>1, <3>1, <3>3
  <2>4. ASSUME WrongFile PROVE IInv'
    <3>1. PICK status \in {400, 403, 404, 416, 500} : Back(PlainError(status), FALSE)
        BY <2>4 DEF WrongFile
    <3>2. status \in Statuses
        BY <3>1 DEF Statuses
    <3>3. Fits(PlainError(status))
        BY <1>3, <3>2
    <3> QED BY <1>4, <2>1, <3>1, <3>3
  <2>5. ASSUME Back(PlainNotModified, FALSE) PROVE IInv'
      BY <1>3, <1>4, <2>1, <2>5
  <2> QED BY <1>8, <2>2, <2>3, <2>4, <2>5, NamedSteps, Zenon
<1> QED BY <1>6, <1>7, <1>8

\* A middleware whose call of Next has returned gives an answer back.
LEMMA UpOK ==
  ASSUME IInv, Up
  PROVE  IInv'
<1>1. /\ at = "up" /\ pos > 0 /\ resp \in Answers /\ err \in BOOLEAN /\ (resp.plain => ~err)
    BY DEF Up, ETagAfter, CompressAfter, ReturnThrough, Resumes, IInv, TypeOK, ChainOK
<1>2. ASSUME NEW r, NEW e \in BOOLEAN, Return(r, e), err' = err,
             resp' \in Answers, resp'.plain = resp.plain, resp'.headers = resp.headers,
             resp'.status < 400 => resp.status < 400,
             resp.status = 204 /\ resp.body = None => resp'.status = 204 /\ resp'.body = None
      PROVE  IInv'
  <2>1. Returns
      BY <1>1, <1>2, ReturnSteps
  <2>2. resp'.plain => ~err'
      BY <1>1, <1>2
  <2>3. resp.status = 204 /\ resp.body = None /\ ~err =>
          resp'.status = 204 /\ resp'.body = None /\ ~err'
      BY <1>1, <1>2
  <2>4. MayReturn
      BY <1>2, <2>2, <2>3 DEF MayReturn
  <2> QED BY <2>1, <2>4, ReturnOK
<1>3. ASSUME Return(resp, err) PROVE IInv'
  <2>1. resp' = resp /\ err' = err
      BY <1>3 DEF Return, Back
  <2> QED BY <1>1, <1>2, <1>3, <2>1
<1>4. ASSUME ~err, resp.status = 200, Return(NoContent(resp, 304), FALSE) PROVE IInv'
  <2>1. 304 \in Statuses
      BY DEF Statuses
  <2>2. resp' = NoContent(resp, 304) /\ err' = FALSE /\ err = FALSE
      BY <1>1, <1>4 DEF Return, Back
  <2>3. /\ NoContent(resp, 304) \in Answers /\ NoContent(resp, 304).plain = resp.plain
        /\ NoContent(resp, 304).headers = resp.headers
      BY <1>1, <2>1, NoContentAnswer
  <2>4. /\ resp' \in Answers /\ resp'.plain = resp.plain /\ resp'.headers = resp.headers
        /\ err' = err
      BY <2>2, <2>3
  <2>5. /\ resp'.status < 400 => resp.status < 400
        /\ resp.status = 204 /\ resp.body = None => resp'.status = 204 /\ resp'.body = None
      BY <1>4
  <2> QED BY <1>2, <1>4, <2>4, <2>5
<1>5. ASSUME NEW r \in Answers, ~err, Return(r, FALSE), r.headers = resp.headers,
             r.plain = resp.plain, r.status = resp.status, r.body = resp.body
      PROVE  IInv'
  <2>1. resp' = r /\ err' = FALSE /\ err = FALSE
      BY <1>1, <1>5 DEF Return, Back
  <2> QED BY <1>2, <1>5, <2>1
<1>6. ASSUME ~err, Return([resp EXCEPT !.tag = TagOf(resp)], FALSE) PROVE IInv'
  <2> DEFINE r == [resp EXCEPT !.tag = TagOf(resp)]
  <2>1. TagOf(resp) \in [content : Bodies, encoded : BOOLEAN]
      BY <1>1 DEF TagOf, Answers
  <2>2. /\ r \in Answers /\ r.headers = resp.headers /\ r.plain = resp.plain
        /\ r.status = resp.status /\ r.body = resp.body
      BY <1>1, <2>1 DEF Answers
  <2>3. Return(r, FALSE)
      BY <1>6
  <2> HIDE DEF r
  <2> QED BY <1>5, <1>6, <2>2, <2>3
<1>7. ASSUME ~err, Return([resp EXCEPT !.encoded = TRUE], FALSE) PROVE IInv'
  <2> DEFINE r == [resp EXCEPT !.encoded = TRUE]
  <2>1. /\ r \in Answers /\ r.headers = resp.headers /\ r.plain = resp.plain
        /\ r.status = resp.status /\ r.body = resp.body
      BY <1>1 DEF Answers
  <2>2. Return(r, FALSE)
      BY <1>7
  <2> HIDE DEF r
  <2> QED BY <1>5, <1>7, <2>1, <2>2
<1>8. err = TRUE \/ err = FALSE
    BY <1>1
<1>9. CASE ETagAfter
    BY <1>3, <1>4, <1>6, <1>8, <1>9 DEF ETagAfter
<1>10. CASE CompressAfter
    BY <1>3, <1>7, <1>10 DEF CompressAfter
<1>11. CASE ReturnThrough
    BY <1>3, <1>11 DEF ReturnThrough
<1> QED BY <1>9, <1>10, <1>11 DEF Up

LEMMA FinishOK ==
  ASSUME IInv, Finish
  PROVE  IInv'
<1>1. at = "up" /\ resp \in Answers /\ err' = FALSE /\ Returns /\ err \in BOOLEAN
    BY DEF Finish, Returns, outside, asked, IInv, TypeOK
<1>2. CASE err
  <2>1. PICK status \in Statuses : status = 500 /\ ~(status < 400)
      BY DEF Statuses
  <2>2. resp' = Error(resp, status) /\ resp.plain = FALSE
      BY <1>1, <1>2, <2>1 DEF Finish, IInv, ChainOK, Answers
  <2>3. resp \in Answers
      BY <1>1
  <2>4. /\ Error(resp, status) \in Answers /\ Error(resp, status).status = status
        /\ Error(resp, status).headers = resp.headers \cap Preserved
        /\ Error(resp, status).plain = FALSE
      BY <2>3, ErrorAnswer
  <2>5. /\ resp' \in Answers /\ resp'.status = status /\ resp'.plain = FALSE
        /\ resp'.headers = resp.headers \cap Preserved
      BY <2>2, <2>4
  <2>6. ~(resp'.status < 400)
      BY <2>1, <2>5
  <2>7. resp.headers \cap Preserved \subseteq resp'.headers
      BY <2>5
  <2>8. MayReturn
      BY <1>1, <1>2, <2>2, <2>5, <2>6, <2>7 DEF MayReturn
  <2> QED BY <1>1, <2>8, ReturnOK
<1>3. CASE ~err
  <2>1. resp' = resp
      BY <1>3 DEF Finish
  <2>2. MayReturn
      BY <1>1, <1>3, <2>1 DEF MayReturn
  <2> QED BY <1>1, <2>2, ReturnOK
<1> QED BY <1>2, <1>3

-----------------------------------------------------------------------------
(* The client.                                                             *)

\* No middleware has run for a new request, nor between requests.
LEMMA BeginOK ==
  ASSUME IInv, server' = server, resource' \in Contents,
         NEW first \in {0, 1}, NEW where \in {"panicked", "idle", "down"}, Begin(where, first),
         where = "down" <=> first = 1,
         request'.cross \in BOOLEAN, request'.asksMethod \in BOOLEAN
  PROVE  IInv'
<1>1. /\ at' = where /\ pos' = first /\ err' = FALSE /\ resp' = Empty /\ reached' = first
      /\ passed' = {} /\ served' = None
    BY DEF Begin
<1>2. Mws' = Mws /\ Router' = Router /\ Router \in Nat /\ Router >= 1 /\ DOMAIN Mws = 1 .. (Router - 1)
    BY ChainType DEF IInv, TypeOK, Mws, Router
<1>3. TypeOK'
  <2>1. /\ server' \in Servers /\ resp' \in Answers /\ served' \in Contents \cup {None}
        /\ err' \in BOOLEAN /\ at' \in {"new", "panicked", "idle", "down", "up", "sent"}
      BY <1>1, EmptyAnswer DEF IInv, TypeOK
  <2>2. pos' \in 0 .. Router' /\ reached' \in 0 .. Router' /\ passed' \subseteq DOMAIN Mws'
      BY <1>1, <1>2
  <2> QED BY <2>1, <2>2 DEF TypeOK
<1>4. ChainOK'
    BY <1>1, <1>2, EmptyAnswer DEF ChainOK
<1>5. PassedOK'
    BY <1>1, <1>2 DEF PassedOK, HandlerGuarded
<1>6. ASSUME NEW kind PROVE ~HasRun(kind)'
    BY <1>1, <1>2 DEF HasRun
<1>7. HeadersOK' /\ PreflightOK'
    BY <1>6 DEF HeadersOK, PreflightOK
<1> QED BY <1>3, <1>4, <1>5, <1>7 DEF IInv

LEMMA ClientOK ==
  ASSUME IInv, Build \/ Send \/ Follow \/ Receive
  PROVE  IInv'
<1>1. resource \in Contents /\ request.cross \in BOOLEAN /\ request.asksMethod \in BOOLEAN
    BY DEF IInv, TypeOK
<1>2. ASSUME NEW where \in {"panicked", "idle"}, Quiet(where), UNCHANGED <<server, resource>>
      PROVE  IInv'
  <2>1. /\ Begin(where, 0) /\ server' = server /\ resource' \in Contents
        /\ where \in {"panicked", "idle", "down"} /\ (where = "down" <=> 0 = 1)
      BY <1>1, <1>2 DEF Quiet
  <2>2. request'.cross \in BOOLEAN /\ request'.asksMethod \in BOOLEAN
      BY <1>2 DEF Quiet, NoRequest
  <2> QED BY <2>1, <2>2, BeginOK
<1>3. CASE Build
    BY <1>2, <1>3 DEF Build, outside
<1>4. CASE Receive
    BY <1>2, <1>4 DEF Receive
<1>5. CASE Send
    BY <1>1, <1>5, BeginOK DEF Send, outside
<1>6. CASE Follow
    BY <1>1, <1>6, BeginOK DEF Follow, outside
<1> QED BY <1>3, <1>4, <1>5, <1>6

LEMMA PublishOK ==
  ASSUME IInv, Publish \/ UNCHANGED vars
  PROVE  IInv'
BY DEF Publish, vars, outside, asked, IInv, TypeOK, ChainOK, PassedOK, HandlerGuarded, HeadersOK,
       PreflightOK, HasRun, Granted, Preflight, Origins, Cross, Mws, Router

-----------------------------------------------------------------------------
LEMMA InitOK == Init => IInv
<1> SUFFICES ASSUME Init PROVE IInv
    OBVIOUS
<1>1. Router \in Nat /\ DOMAIN Mws = 1 .. (Router - 1)
    BY ChainType DEF Init
<1>2. TypeOK
  <2>1. resp \in Answers
      BY EmptyAnswer DEF Init
  <2>2. request.cross \in BOOLEAN /\ request.asksMethod \in BOOLEAN
      BY DEF Init, NoRequest
  <2>3. pos \in 0 .. Router /\ reached \in 0 .. Router
      BY <1>1 DEF Init
  <2> QED BY <2>1, <2>2, <2>3 DEF Init, TypeOK
<1>3. ChainOK
    BY EmptyAnswer DEF Init, ChainOK
<1>4. ASSUME NEW kind PROVE ~HasRun(kind)
    BY <1>1 DEF Init, HasRun
<1>5. PassedOK /\ HeadersOK /\ PreflightOK
    BY <1>4 DEF Init, PassedOK, HandlerGuarded, HeadersOK, PreflightOK
<1> QED BY <1>2, <1>3, <1>5 DEF IInv

LEMMA StepOK == IInv /\ [Next]_vars => IInv'
BY CorsOK, AuthOK, HeaderOK, BeforeOK, TrailingSlashOK, EndOK, UpOK, FinishOK, ClientOK, PublishOK
   DEF Next, Down

LEMMA Invariance == Spec => []IInv
BY InitOK, StepOK, PTL DEF Spec

\* The answer is always one a server may give.
THEOREM TypeCorrect == Spec => []TypeOK
<1>1. IInv => TypeOK
    BY DEF IInv
<1> QED BY <1>1, Invariance, PTL

\* Answers to scripts of other origins stay readable, errors included, but for
\* those that fasthttp writes itself.
THEOREM ReadableTheorem == Spec => []ReadableByScripts
<1>1. IInv /\ at = "sent" /\ Before("cors") => HasRun("cors")
    BY DEF Before, HasRun, IInv, TypeOK
<1>2. IInv => ReadableByScripts
    BY <1>1 DEF IInv, HeadersOK, Granted, ReadableByScripts
<1> QED BY <1>2, Invariance, PTL

\* Cache-Control reaches the client with all that is not an error, but for a 304
\* that fasthttp writes itself.
THEOREM CacheControlTheorem == Spec => []CacheControlKept
<1>1. IInv /\ at = "sent" /\ Before("cache-control") => HasRun("cache-control")
    BY DEF Before, HasRun, IInv, TypeOK
<1>2. IInv => CacheControlKept
    BY <1>1 DEF IInv, HeadersOK, CacheControlKept
<1> QED BY <1>2, Invariance, PTL

\* No chain lets a request reach the handler past an authorization.
THEOREM GuardTheorem == Spec => []HandlerGuarded
<1>1. IInv => HandlerGuarded
    BY DEF IInv, PassedOK
<1> QED BY <1>1, Invariance, PTL

\* A preflight request ends at CORS.
THEOREM PreflightTheorem == Spec => []PreflightStops
<1>1. ASSUME IInv, Preflight, Before("cors")
      PROVE  /\ reached \in DOMAIN Mws /\ Mws[reached] = "cors"
             /\ at = "sent" => resp.status = 204
  <2>1. PICK i \in 1 .. reached : i \in DOMAIN Mws /\ Mws[i] = "cors"
      BY <1>1 DEF Before
  <2>2. CASE HasRun("cors")
      BY <1>1, <2>2 DEF IInv, PreflightOK
  <2>3. CASE ~HasRun("cors")
    <3>1. i = reached /\ at = "down"
        BY <1>1, <2>1, <2>3 DEF HasRun, IInv, TypeOK
    <3> QED BY <2>1, <3>1
  <2> QED BY <2>2, <2>3
<1>2. IInv => PreflightStops
    BY <1>1 DEF PreflightStops
<1> QED BY <1>2, Invariance, PTL

-----------------------------------------------------------------------------
(* Revalidation.                                                           *)

\* The client names tags of copies it has, each the tag of its copy; a body is
\* what the handler wrote or the message of an error, and a tag is its body's;
\* a 304 has found a named copy of what the handler wrote.
NamesOK ==
  /\ \A i \in DOMAIN request.noneMatch :
       \E c \in copies : c.tag = request.noneMatch[i].tag
  /\ request.noneMatch # <<>> => 1 \in DOMAIN request.noneMatch

CopiesOK == \A c \in copies : c.tag.content = c.content

BodyOK ==
  /\ resp.body \in Contents => resp.body = served
  /\ resp.body = "message" => resp.status # 200
  /\ at = "down" => resp.body = None /\ resp.tag = None
  /\ resp.tag # None /\ resp.status = 200 => resp.tag.content = resp.body

Fresh == \E c \in copies :
           /\ c.content = served
           /\ \E i \in DOMAIN request.noneMatch : request.noneMatch[i].tag = c.tag

FreshInv == NamesOK /\ CopiesOK /\ BodyOK /\ (resp.status = 304 /\ ~resp.plain => Fresh)

\* A step that leaves the body and the tag alone, or makes an answer that is
\* neither to be stored nor a 304.
Plain ==
  /\ copies' = copies /\ request' = request /\ served' = served
  /\ \/ /\ resp'.status = resp.status /\ resp'.body = resp.body /\ resp'.tag = resp.tag
        /\ resp'.plain = resp.plain
        /\ at' = "down" => at = "down"
     \/ /\ resp'.status \notin {200, 304} /\ resp'.body \in {None, "message", resp.body}
        /\ at' # "down"

LEMMA PlainF ==
  ASSUME FreshInv, Plain
  PROVE  FreshInv'
<1>1. NamesOK' /\ CopiesOK'
    BY DEF FreshInv, NamesOK, CopiesOK, Plain
<1>2. Fresh => Fresh'
    BY DEF Fresh, Plain
<1>3. BodyOK'
    BY ServersAssumption DEF FreshInv, BodyOK, Plain
<1>4. resp'.status = 304 /\ ~resp'.plain => Fresh'
    BY <1>2 DEF FreshInv, Plain
<1> QED BY <1>1, <1>3, <1>4 DEF FreshInv

\* The parts of the answers that the helpers make.
LEMMA Parts ==
  ASSUME NEW r \in Answers
  PROVE  /\ \A H : /\ With(r, H).status = r.status /\ With(r, H).body = r.body
                  /\ With(r, H).tag = r.tag /\ With(r, H).plain = r.plain
         /\ \A status : /\ Error(r, status).status = status
                       /\ Error(r, status).body \in {None, "message"}
                       /\ NoContent(r, status).status = status
                       /\ NoContent(r, status).body = None
                       /\ [r EXCEPT !.status = status].status = status
                       /\ [r EXCEPT !.status = status].body = r.body
BY DEF With, Error, NoContent, Empty, Message, Answers

LEMMA DownF ==
  ASSUME IInv, FreshInv, Down
  PROVE  FreshInv'
<1>. USE DEF GoOn, GoOnWith, Return, Back, outside, asked
<1>1. resp \in Answers
    BY DEF IInv, TypeOK
<1>2. at = "down"
    BY DEF Down, Cors, NewAuth, ConditionalAuth, CacheControl, SafeBrowsing, TrailingSlash,
           ETagBefore, CompressBefore, Runs
<1>3. ASSUME NEW H, GoOn(With(resp, H)) PROVE Plain
    BY <1>1, <1>2, <1>3, Parts DEF Plain
<1>4. ASSUME NEW p, GoOnWith(resp, p) PROVE Plain
    BY <1>4 DEF Plain
<1>5. ASSUME NEW status \in {400, 401}, Return(Error(resp, status), FALSE) PROVE Plain
    BY <1>1, <1>5, Parts DEF Plain
<1>6. ASSUME Return(resp, TRUE) PROVE Plain
    BY <1>6 DEF Plain
<1>7. ASSUME NEW H, Return(NoContent(With(resp, H), 204), FALSE) PROVE Plain
  <2>1. NoContent(With(resp, H), 204).status = 204 /\ NoContent(With(resp, H), 204).body = None
      BY <1>1 DEF NoContent, With, Answers
  <2> QED BY <1>7, <2>1 DEF Plain
<1>8. ASSUME Back([resp EXCEPT !.status = 302], FALSE), served' = served PROVE Plain
    BY <1>1, <1>8, Parts DEF Plain
<1>9. ASSUME NEW key \in Keys, Auth(key) PROVE Plain
  <2>. HIDE DEF GoOnWith, Return
  <2>1. CASE key = "good"
      BY <1>4, <1>9, <2>1 DEF Auth
  <2>2. CASE key = "bad" \/ key = "none"
      BY <1>5, <1>9, <2>2 DEF Auth
  <2>3. CASE key = "failing"
      BY <1>6, <1>9, <2>3 DEF Auth
  <2> QED BY <2>1, <2>2, <2>3 DEF Keys
<1>10. Plain
  <2>1. CASE Cors
      BY <2>1, <1>3, <1>7 DEF Cors
  <2>2. CASE NewAuth \/ ConditionalAuth
      BY <2>2, <1>4, <1>6, <1>9 DEF NewAuth, ConditionalAuth
  <2>3. CASE CacheControl \/ SafeBrowsing
      BY <2>3, <1>3 DEF CacheControl, SafeBrowsing
  <2>4. CASE TrailingSlash
      BY <2>4, <1>4, <1>5, <1>8 DEF TrailingSlash
  <2>5. CASE ETagBefore \/ CompressBefore
      BY <2>5, <1>4 DEF ETagBefore, CompressBefore
  <2> QED BY <2>1, <2>2, <2>3, <2>4, <2>5 DEF Down
<1> QED BY <1>10, PlainF

\* A handler writes the content, a message with another status than 200, or
\* nothing.
LEMMA WrittenF ==
  ASSUME IInv, FreshInv, at = "down", at' = "up",
         copies' = copies, request' = request, served' = resource,
         resp'.body \in {resource, None, "message"}, resp'.body = "message" => resp'.status # 200,
         resp'.tag = None, resp'.status = 304 => resp'.plain
  PROVE  FreshInv'
<1>1. NamesOK' /\ CopiesOK'
    BY DEF FreshInv, NamesOK, CopiesOK
<1>2. BodyOK'
    BY ServersAssumption DEF BodyOK
<1> QED BY <1>1, <1>2 DEF FreshInv

LEMMA HandlerF ==
  ASSUME IInv, FreshInv, Handler \/ FilesHandler
  PROVE  FreshInv'
<1>1. /\ resp \in Answers /\ resp.status = 200 /\ resp.body = None /\ resp.tag = None
      /\ at = "down" /\ resource \in Contents
    BY DownFacts DEF Handler, FilesHandler, FreshInv, BodyOK
<1>2. copies' = copies /\ request' = request /\ served' = resource /\ at' = "up"
    BY DEF Handler, FilesHandler, Back, outside, asked
<1>3. resource # "message" /\ None # "message"
    BY <1>1, ServersAssumption
<1> DEFINE Good == /\ resp'.body \in {resource, None, "message"} /\ resp'.tag = None
                   /\ resp'.body = "message" => resp'.status # 200
                   /\ resp'.status = 304 => resp'.plain
<1> HIDE DEF Good
<1>4. CASE Handler
  <2>1. ASSUME Written PROVE Good
    <3>1. PICK body \in {resource, None} : Back(WithBody(body), FALSE)
        BY <2>1 DEF Written
    <3>2. Answered(resp', 200, body)
        BY <1>1, <3>1, NamedAnswers DEF Back
    <3> QED BY <1>1, <1>3, <3>2 DEF Good, Answered
  <2>2. ASSUME Back(Error(resp, 404), FALSE) PROVE Good
    <3>1. resp' = Error(resp, 404)
        BY <2>2 DEF Back
    <3>2. /\ Error(resp, 404).status = 404 /\ Error(resp, 404).body \in {None, "message"}
          /\ Error(resp, 404).tag = None
        BY DEF Error, Empty, Message
    <3> QED BY <3>1, <3>2 DEF Good
  <2>3. ASSUME Back(resp, TRUE) PROVE Good
      BY <1>1, <1>3, <2>3 DEF Back, Good
  <2>4. Good
      BY <1>4, <2>1, <2>2, <2>3, NamedSteps, Zenon
  <2> QED BY <1>1, <1>2, <2>4, WrittenF DEF Good
<1>5. CASE FilesHandler
  <2>1. ASSUME FileSent PROVE Good
    <3>1. PICK status \in {200, 206} : Back(WithFile(status), FALSE)
        BY <2>1 DEF FileSent
    <3>2. status \in Statuses /\ status # 304
        BY <3>1 DEF Statuses
    <3>3. Answered(resp', status, resource)
        BY <1>1, <3>1, <3>2, NamedAnswers DEF Back
    <3> QED BY <1>1, <1>3, <3>2, <3>3 DEF Good, Answered
  <2>2. ASSUME NoFile PROVE Good
    <3>1. PICK status \in {302, 404} : Back(WithStatus(status), FALSE)
        BY <2>2 DEF NoFile
    <3>2. status \in Statuses /\ status # 304
        BY <3>1 DEF Statuses
    <3>3. Answered(resp', status, None)
        BY <1>1, <3>1, <3>2, NamedAnswers DEF Back
    <3> QED BY <1>1, <1>3, <3>2, <3>3 DEF Good, Answered
  <2>3. ASSUME WrongFile PROVE Good
    <3>1. PICK status \in {400, 403, 404, 416, 500} : Back(PlainError(status), FALSE)
        BY <2>3 DEF WrongFile
    <3>2. status \in Statuses /\ status # 200 /\ status # 304
        BY <3>1 DEF Statuses
    <3>3. AnsweredPlainly(resp', status, "message")
        BY <1>1, <3>1, <3>2, NamedAnswers DEF Back
    <3> QED BY <3>2, <3>3 DEF Good, AnsweredPlainly
  <2>4. ASSUME Back(PlainNotModified, FALSE) PROVE Good
    <3>1. AnsweredPlainly(resp', 304, None)
        BY <1>1, <2>4, NamedAnswers DEF Back
    <3> QED BY <1>3, <3>1 DEF Good, AnsweredPlainly
  <2>5. Good
      BY <1>5, <2>1, <2>2, <2>3, <2>4, NamedSteps, Zenon
  <2> QED BY <1>1, <1>2, <2>5, WrittenF DEF Good
<1> QED BY <1>4, <1>5

LEMMA ETagF ==
  ASSUME IInv, FreshInv, ETagAfter
  PROVE  FreshInv'
<1>. USE DEF Return, Back, outside, asked
<1>1. resp \in Answers /\ at = "up"
    BY DEF IInv, TypeOK, ETagAfter, Resumes
<1>2. copies' = copies /\ request' = request /\ served' = served /\ at' = "up"
    BY DEF ETagAfter
<1>3. CASE resp' = resp
    BY <1>1, <1>2, <1>3, PlainF DEF Plain
<1>4. CASE /\ resp.status = 200 /\ resp.body # None
           /\ \/ Matches(request.noneMatch, TagOf(resp)) /\ resp' = NoContent(resp, 304)
              \/ resp' = [resp EXCEPT !.tag = TagOf(resp)]
  <2>1. resp.body \in Contents /\ resp.body = served /\ TagOf(resp).content = resp.body
      BY <1>1, <1>4 DEF FreshInv, BodyOK, Answers, Bodies, TagOf
  <2>2. NamesOK' /\ CopiesOK'
      BY <1>2 DEF FreshInv, NamesOK, CopiesOK
  <2>3. CASE Matches(request.noneMatch, TagOf(resp)) /\ resp' = NoContent(resp, 304)
    <3>1. PICK i \in DOMAIN request.noneMatch : request.noneMatch[i].tag = TagOf(resp)
      <4>1. CASE Len(request.noneMatch) = 1 /\ request.noneMatch[1].tag = TagOf(resp)
          BY <4>1, <2>3 DEF Matches, FreshInv, NamesOK
      <4> QED BY <4>1, <2>3 DEF Matches
    <3>2. PICK c \in copies : c.tag = TagOf(resp)
        BY <3>1 DEF FreshInv, NamesOK
    <3>3. c.content = served
        BY <3>2, <2>1 DEF FreshInv, CopiesOK
    <3>4. Fresh'
        BY <3>1, <3>2, <3>3, <1>2 DEF Fresh
    <3>5. BodyOK'
        BY <1>1, <1>2, <2>3, Parts, ServersAssumption DEF BodyOK
    <3> QED BY <2>2, <3>4, <3>5 DEF FreshInv
  <2>4. CASE resp' = [resp EXCEPT !.tag = TagOf(resp)]
    <3>1. /\ resp'.status = 200 /\ resp'.body = resp.body /\ resp'.tag = TagOf(resp)
        BY <1>1, <1>4, <2>4 DEF Answers
    <3>2. BodyOK'
        BY <1>2, <2>1, <3>1, ServersAssumption DEF BodyOK
    <3> QED BY <2>2, <3>1, <3>2 DEF FreshInv
  <2> QED BY <1>4, <2>3, <2>4
<1> QED BY <1>3, <1>4 DEF ETagAfter

LEMMA OtherF ==
  ASSUME IInv, FreshInv, RouterAnswers \/ CompressAfter \/ ReturnThrough \/ Finish
  PROVE  FreshInv'
<1>. USE DEF Return, Back, outside, asked
<1>1. resp \in Answers
    BY DEF IInv, TypeOK
<1>2. CASE RouterAnswers
  <2>1. PlainError(404).status = 404 /\ PlainError(404).body = "message"
      BY DEF PlainError, Empty
  <2>2. [resp EXCEPT !.status = 301].status = 301 /\ [resp EXCEPT !.status = 301].body = resp.body
      BY <1>1, Parts
  <2>3. Plain
    <3>1. CASE Return(PlainError(404), FALSE)
        BY <2>1, <3>1 DEF Plain
    <3>2. CASE Return([resp EXCEPT !.status = 301], FALSE)
        BY <2>2, <3>2 DEF Plain
    <3> QED BY <1>2, <3>1, <3>2 DEF RouterAnswers
  <2> QED BY <2>3, PlainF
<1>3. CASE CompressAfter
  <2>1. /\ [resp EXCEPT !.encoded = TRUE].status = resp.status
        /\ [resp EXCEPT !.encoded = TRUE].body = resp.body
        /\ [resp EXCEPT !.encoded = TRUE].tag = resp.tag
        /\ [resp EXCEPT !.encoded = TRUE].plain = resp.plain
      BY <1>1 DEF Answers
  <2> QED BY <1>3, <2>1, PlainF DEF CompressAfter, Plain
<1>4. CASE ReturnThrough
    BY <1>4, PlainF DEF ReturnThrough, Plain
<1>5. CASE Finish
  <2>1. Error(resp, 500).status = 500 /\ Error(resp, 500).body \in {None, "message"}
      BY <1>1, Parts
  <2> QED BY <1>5, <2>1, PlainF DEF Finish, Plain
<1> QED BY <1>2, <1>3, <1>4, <1>5

LEMMA ClientF ==
  ASSUME IInv, FreshInv, Build \/ Send \/ Follow \/ Receive \/ Publish \/ UNCHANGED vars
  PROVE  FreshInv'
<1>. USE DEF outside, asked
<1>1. resp \in Answers
    BY DEF IInv, TypeOK
<1>2. ASSUME resp' = Empty, NamesOK', CopiesOK' PROVE FreshInv'
  <2>1. Empty.status = 200 /\ Empty.body = None /\ Empty.tag = None
      BY DEF Empty
  <2> QED BY <1>2, <2>1, ServersAssumption DEF FreshInv, BodyOK
<1>3. ASSUME NEW where, Quiet(where) PROVE resp' = Empty /\ NamesOK'
    BY <1>3 DEF Quiet, Begin, NoRequest, NamesOK
<1>4. CASE Build
    BY <1>2, <1>3, <1>4 DEF Build, FreshInv, CopiesOK
<1>5. CASE Receive
  <2>1. resp' = Empty /\ NamesOK'
      BY <1>3, <1>5 DEF Receive
  <2>2. CopiesOK'
    <3>1. \/ copies' = copies
          \/ /\ resp.status = 200 /\ resp.tag # None
             /\ copies' = copies \cup {[tag |-> resp.tag, content |-> resp.body]}
        BY <1>5 DEF Receive
    <3>2. resp.status = 200 /\ resp.tag # None => resp.tag.content = resp.body
        BY DEF FreshInv, BodyOK
    <3> QED BY <3>1, <3>2 DEF FreshInv, CopiesOK
  <2> QED BY <1>2, <2>1, <2>2
<1>6. CASE Send
  <2>1. request'.noneMatch \in Lists /\ copies' = copies /\ resp' = Empty
      BY <1>6 DEF Send, Begin
  <2>2. \A i \in DOMAIN request'.noneMatch : request'.noneMatch[i].tag \in Tags
      BY <2>1 DEF Lists
  <2>3. request'.noneMatch # <<>> => 1 \in DOMAIN request'.noneMatch
    <3>1. PICK n \in 0 .. 2 : request'.noneMatch \in [1 .. n -> [weak : BOOLEAN, tag : Tags]]
        BY <2>1 DEF Lists
    <3>2. CASE n = 0
        BY <3>1, <3>2
    <3>3. CASE n # 0
        BY <3>1, <3>3
    <3> QED BY <3>2, <3>3
  <2>4. NamesOK' /\ CopiesOK'
      BY <2>1, <2>2, <2>3 DEF FreshInv, NamesOK, CopiesOK, Tags
  <2> QED BY <1>2, <2>1, <2>4
<1>7. CASE Follow
    BY <1>2, <1>7 DEF Follow, Begin, FreshInv, NamesOK, CopiesOK
<1>8. CASE Publish \/ UNCHANGED vars
    BY <1>8 DEF Publish, vars, FreshInv, NamesOK, CopiesOK, BodyOK, Fresh
<1> QED BY <1>4, <1>5, <1>6, <1>7, <1>8

LEMMA InitF == Init => FreshInv
<1> SUFFICES ASSUME Init PROVE FreshInv
    OBVIOUS
<1>1. Empty.status = 200 /\ Empty.body = None /\ Empty.tag = None
    BY DEF Empty
<1> QED BY <1>1, ServersAssumption
        DEF Init, NoRequest, FreshInv, NamesOK, CopiesOK, BodyOK

LEMMA StepF == IInv /\ FreshInv /\ [Next]_vars => FreshInv'
BY DownF, HandlerF, ETagF, OtherF, ClientF DEF Next, Up

\* Nobody is sent to a stale copy: whatever chain of middlewares, with several
\* ETag and compressions in any order, whatever has been published, and
\* whichever tags the client names.  The 304 of a file is not one of theirs.
THEOREM FreshTheorem == Spec => []FreshCopy
<1>1. FreshInv => FreshCopy
    BY DEF FreshInv, Fresh, FreshCopy
<1> QED BY <1>1, InitF, StepF, Invariance, PTL DEF Spec

-----------------------------------------------------------------------------
(* Redirections.                                                           *)

\* What the trailing slash middleware has changed it does not change again.
LEMMA ModifiedOnce ==
  ASSUME NEW W, NoName \in W, NEW p \in Seq(W), server.remove \in BOOLEAN, Modify(p) # 0,
         SanitizeUrlPath(p, Modify(p)) # Invalid
  PROVE  /\ SanitizeUrlPath(p, Modify(p)) \in Seq(W)
         /\ Modify(SanitizeUrlPath(p, Modify(p))) = 0
         /\ CleanPath(W, SanitizeUrlPath(p, Modify(p)), ~server.remove)
<1> DEFINE t   == Modify(p)
           new == SanitizeUrlPath(p, t)
<1>1. t = IF server.remove THEN -1 ELSE 1
    BY DEF Modify
<1>2. CleanPath(W, new, ~server.remove)
  <2>1. t \in {-1, 0, 1} /\ ((t = 1 \/ (t = 0 /\ EndsWithSlash(p))) <=> ~server.remove)
    <3> HIDE DEF t
    <3> QED BY <1>1
  <2>2. CleanPath(W, new, t = 1 \/ (t = 0 /\ EndsWithSlash(p)))
    <3> HIDE DEF t
    <3> QED BY <2>1, CleanPathTheorem, Zenon DEF t
  <2> QED BY <2>1, <2>2 DEF CleanPath
<1> HIDE DEF t, new
<1>3. new = Root => new \in Seq(W) /\ Modify(new) = 0
    BY RootOK DEF Modify
<1>4. ASSUME NEW names \in Seq(Segments(W)) \ {<<>>}, server.remove, new = <<NoName>> \o names \o <<>>
      PROVE  new \in Seq(W) /\ Modify(new) = 0
  <2>1. names \in Seq(W) /\ names # <<>> /\ Len(names) \in Nat /\ names[Len(names)] # NoName
      BY SegmentsFacts
  <2>2. new \in Seq(W) /\ new[Len(new)] = names[Len(names)]
      BY <1>4, <2>1, NoSlash
  <2> QED BY <1>4, <2>1, <2>2 DEF Modify, EndsWithSlash
<1>5. ASSUME NEW names \in Seq(Segments(W)) \ {<<>>}, ~server.remove,
             new = <<NoName>> \o names \o <<NoName>>
      PROVE  new \in Seq(W) /\ Modify(new) = 0
  <2>1. names \in Seq(W) /\ names # <<>> /\ Len(names) \in Nat /\ Len(names) > 0
      BY SegmentsFacts
  <2>2. new \in Seq(W) /\ Len(new) = Len(names) + 2 /\ new[Len(new)] = NoName
      BY <1>5, <2>1, WithSlash
  <2> QED BY <1>5, <2>1, <2>2 DEF Modify, EndsWithSlash
<1>6. new \in Seq(W) /\ Modify(new) = 0
    BY <1>2, <1>3, <1>4, <1>5, Zenon DEF CleanPath
<1> QED BY <1>2, <1>6 DEF new, t

-----------------------------------------------------------------------------
(* What fasthttp makes of a path that has been decoded.                    *)

LEMMA JoinedType ==
  ASSUME NEW S, NEW seqs \in Seq(Seq(S))
  PROVE  Joined(seqs) \in Seq(S)
<1>1. FoldedBy(Concatenate, <<>>, seqs)
    BY FoldedLeft, Zenon
<1>2. PICK f : FoldsAlong(Concatenate, <<>>, seqs, f) /\ Joined(seqs) = f[Len(seqs)]
    BY <1>1, Zenon DEF FoldedBy, Joined
<1>3. f[0] = <<>> /\ \A i \in 1 .. Len(seqs) : f[i] = f[i - 1] \o seqs[i]
    BY <1>2, Zenon DEF FoldsAlong, Concatenate
<1> DEFINE T == {i \in 0 .. Len(seqs) : f[i] \in Seq(S)}
<1>4. Len(seqs) \in Nat /\ \A i \in 1 .. Len(seqs) : seqs[i] \in Seq(S)
    OBVIOUS
<1>5. 0 \in T
  <2>1. <<>> \in Seq(S) /\ 0 \in 0 .. Len(seqs)
      BY <1>4
  <2>2. f[0] = <<>>
      BY <1>3
  <2> QED BY <2>1, <2>2
<1>6. ASSUME NEW i \in 1 .. Len(seqs), i - 1 \in T PROVE i \in T
  <2>1. f[i - 1] \in Seq(S) /\ seqs[i] \in Seq(S) /\ f[i] = f[i - 1] \o seqs[i]
      BY <1>3, <1>4, <1>6
  <2>2. f[i] \in Seq(S)
      BY <2>1
  <2> QED BY <1>4, <2>2
<1>7. 0 .. Len(seqs) \subseteq T
  <2> HIDE DEF T
  <2> QED BY <1>4, <1>5, <1>6, Upwards
<1> QED BY <1>2, <1>4, <1>7

\* The sequences of one element each.
SinglesOf(seqs, s) ==
  Len(seqs) = Len(s) /\ \A i \in 1 .. Len(s) : seqs[i] = <<s[i]>>

LEMMA JoinedSingles ==
  ASSUME NEW S, NEW s \in Seq(S), NEW seqs \in Seq(Seq(S)), SinglesOf(seqs, s)
  PROVE  Joined(seqs) = s
<1>1. FoldedBy(Concatenate, <<>>, seqs)
    BY FoldedLeft, Zenon
<1>2. PICK f : FoldsAlong(Concatenate, <<>>, seqs, f) /\ Joined(seqs) = f[Len(seqs)]
    BY <1>1, Zenon DEF FoldedBy, Joined
<1>3. f[0] = <<>> /\ \A i \in 1 .. Len(seqs) : f[i] = f[i - 1] \o seqs[i]
    BY <1>2, Zenon DEF FoldsAlong, Concatenate
<1>4. /\ Len(s) \in Nat /\ Len(seqs) = Len(s)
      /\ \A i \in 1 .. Len(s) : s[i] \in S /\ seqs[i] = <<s[i]>>
    BY DEF SinglesOf
<1> DEFINE Begins(t, i) == t \in Seq(S) /\ Len(t) = i /\ \A k \in 1 .. i : t[k] = s[k]
           T == {i \in 0 .. Len(s) : Begins(f[i], i)}
<1>5. 0 \in T
  <2>1. <<>> \in Seq(S) /\ Len(<<>>) = 0 /\ 0 \in 0 .. Len(s) /\ 1 .. 0 = {}
      BY <1>4
  <2>2. f[0] = <<>>
      BY <1>3
  <2> QED BY <2>1, <2>2
<1>6. ASSUME NEW i \in 1 .. Len(s), i - 1 \in T PROVE i \in T
  <2>1. /\ f[i - 1] \in Seq(S) /\ Len(f[i - 1]) = i - 1
        /\ \A k \in 1 .. i - 1 : f[i - 1][k] = s[k]
      BY <1>6
  <2>2. f[i] = Append(f[i - 1], s[i]) /\ s[i] \in S
    <3>1. f[i] = f[i - 1] \o <<s[i]>> /\ s[i] \in S
        BY <1>3, <1>4
    <3> QED BY <2>1, <3>1
  <2>3. f[i] \in Seq(S) /\ Len(f[i]) = i /\ f[i][i] = s[i]
      BY <1>4, <2>1, <2>2
  <2>4. ASSUME NEW k \in 1 .. i - 1 PROVE f[i][k] = s[k]
      BY <1>4, <2>1, <2>2
  <2>5. \A k \in 1 .. i : f[i][k] = s[k]
      BY <2>3, <2>4
  <2> QED BY <1>4, <2>3, <2>5
<1>7. 0 .. Len(s) \subseteq T
  <2> HIDE DEF T
  <2> QED BY <1>4, <1>5, <1>6, Upwards
<1>8. Begins(Joined(seqs), Len(s))
    BY <1>2, <1>4, <1>7
<1> DEFINE joined == Joined(seqs)
<1>9. joined \in Seq(S) /\ Len(joined) = Len(s) /\ \A k \in 1 .. Len(s) : joined[k] = s[k]
    BY <1>8
<1> HIDE DEF joined
<1>10. joined = s
  <2>1. joined = [k \in 1 .. Len(s) |-> joined[k]]
      BY <1>4, <1>9
  <2>2. s = [k \in 1 .. Len(s) |-> s[k]]
      BY <1>4
  <2>3. [k \in 1 .. Len(s) |-> joined[k]] = [k \in 1 .. Len(s) |-> s[k]]
      BY <1>9
  <2> QED BY <2>1, <2>2, <2>3, Zenon
<1> QED BY <1>10 DEF joined

LEMMA KeepSegmentType ==
  ASSUME NEW S, NEW kept \in Seq(S), NEW segment \in S
  PROVE  KeepSegment(kept, segment) \in Seq(S)
<1> DEFINE less == IF kept = <<>> THEN kept ELSE Front(kept)
           more == Append(kept, segment)
<1>1. less \in Seq(S) /\ more \in Seq(S)
    BY FrontOf
<1>2. KeepSegment(kept, segment) = CASE segment \in {<<NoName>>, <<".">>} -> kept
                                     [] segment = <<"..">> -> less
                                     [] OTHER -> more
    BY DEF KeepSegment
<1>3. KeepSegment(kept, segment) \in {kept, less, more}
  <2> HIDE DEF less, more
  <2> QED BY <1>2, Zenon
<1> QED BY <1>1, <1>3

LEMMA KeptType ==
  ASSUME NEW S, NEW seqs \in Seq(S)
  PROVE  FoldLeft(KeepSegment, <<>>, seqs) \in Seq(S)
<1>1. FoldedBy(KeepSegment, <<>>, seqs)
    BY FoldedLeft, Zenon
<1>2. PICK f : /\ FoldsAlong(KeepSegment, <<>>, seqs, f)
               /\ FoldLeft(KeepSegment, <<>>, seqs) = f[Len(seqs)]
    BY <1>1, Zenon DEF FoldedBy
<1>3. f[0] = <<>> /\ \A i \in 1 .. Len(seqs) : f[i] = KeepSegment(f[i - 1], seqs[i])
    BY <1>2, Zenon DEF FoldsAlong
<1> DEFINE T == {i \in 0 .. Len(seqs) : f[i] \in Seq(S)}
<1>4. Len(seqs) \in Nat /\ \A i \in 1 .. Len(seqs) : seqs[i] \in S
    OBVIOUS
<1>5. 0 \in T
  <2>1. <<>> \in Seq(S) /\ 0 \in 0 .. Len(seqs)
      BY <1>4
  <2>2. f[0] = <<>>
      BY <1>3
  <2> QED BY <2>1, <2>2
<1>6. ASSUME NEW i \in 1 .. Len(seqs), i - 1 \in T PROVE i \in T
  <2>1. KeepSegment(f[i - 1], seqs[i]) \in Seq(S)
      BY <1>4, <1>6, KeepSegmentType
  <2> QED BY <1>3, <1>4, <2>1
<1>7. 0 .. Len(seqs) \subseteq T
  <2> HIDE DEF T
  <2> QED BY <1>4, <1>5, <1>6, Upwards
<1> QED BY <1>2, <1>4, <1>7

-----------------------------------------------------------------------------
\* The parts that a path may have, as the clients ask for it or decoded.
PartsOf(s) == {s[i] : i \in DOMAIN s}
DecodedParts(w) == UNION {PartsOf(Unescape[w][i]) : i \in DOMAIN Unescape[w]}
AskedFor == UNION {PartsOf(p) : p \in Paths}
Decoded  == UNION {DecodedParts(w) : w \in DOMAIN Unescape}
Words    == {NoName, "."} \cup AskedFor \cup Decoded

\* Those with nothing to decode.
Literals == Words \ DOMAIN Unescape

LEMMA UnescapedType ==
  ASSUME NEW part \in Words
  PROVE  Unescaped(part) \in Seq(Seq(Words))
<1>1. CASE part \in DOMAIN Unescape
  <2> DEFINE u == Unescape[part]
  <2>1. u \in Seq(Seq(STRING)) /\ Unescaped(part) = u
      BY <1>1, ServersAssumption DEF Unescaped
  <2>2. ASSUME NEW i \in 1 .. Len(u) PROVE u[i] \in Seq(Words)
    <3>1. u[i] \in Seq(STRING) /\ i \in DOMAIN u
        BY <2>1
    <3>2. ASSUME NEW k \in DOMAIN u[i] PROVE u[i][k] \in Words
      <4>1. u[i][k] \in PartsOf(Unescape[part][i]) /\ i \in DOMAIN Unescape[part]
          BY <3>1 DEF PartsOf
      <4>2. u[i][k] \in DecodedParts(part)
          BY <4>1, Zenon DEF DecodedParts
      <4>3. u[i][k] \in Decoded
          BY <1>1, <4>2, Zenon DEF Decoded
      <4> QED BY <4>3 DEF Words
    <3> DEFINE v == u[i]
    <3>3. v \in Seq(STRING) /\ \A k \in DOMAIN v : v[k] \in Words
        BY <3>1, <3>2
    <3> HIDE DEF v
    <3>4. v \in Seq(Words)
        BY <3>3
    <3> QED BY <3>4 DEF v
  <2> HIDE DEF u
  <2>3. u \in Seq(Seq(Words))
      BY <2>1, <2>2
  <2> QED BY <2>1, <2>3
<1>2. CASE part \notin DOMAIN Unescape
    BY <1>2 DEF Unescaped
<1> QED BY <1>1, <1>2

LEMMA SetPathType ==
  ASSUME NEW p \in Seq(Words), Len(p) > 0
  PROVE  SetPath(p) \in Seq(Words)
<1> DEFINE decoded  == [i \in 1 .. Len(p) - 1 |-> Unescaped(p[i + 1])]
           segments == Joined(decoded)
           kept     == FoldLeft(KeepSegment, <<>>, segments)
           last     == Last(segments)
           end      == CASE last \in {<<NoName>>, <<"..">>} -> <<NoName>>
                         [] last = <<".">> -> <<".">>
                         [] OTHER -> <<>>
<1>1. decoded \in Seq(Seq(Seq(Words)))
  <2>1. ASSUME NEW i \in 1 .. Len(p) - 1 PROVE Unescaped(p[i + 1]) \in Seq(Seq(Words))
    <3>1. p[i + 1] \in Words
        OBVIOUS
    <3> QED BY <3>1, UnescapedType
  <2>2. Len(p) - 1 \in Nat
      OBVIOUS
  <2> DEFINE S == Seq(Seq(Words))
  <2>3. decoded \in [1 .. Len(p) - 1 -> S]
      BY <2>1
  <2> HIDE DEF S, decoded
  <2>4. decoded \in Seq(S)
      BY <2>2, <2>3
  <2> QED BY <2>4 DEF S
<1> HIDE DEF decoded
<1>2. segments \in Seq(Seq(Words))
    BY <1>1, JoinedType
<1> HIDE DEF segments
<1>3. kept \in Seq(Seq(Words))
    BY <1>2, KeptType
<1> HIDE DEF kept, last
<1>4. Joined(kept) \in Seq(Words)
    BY <1>3, JoinedType
<1>5. end \in {<<NoName>>, <<".">>, <<>>}
    BY Zenon
<1>6. {<<NoName>>, <<".">>, <<>>} \subseteq Seq(Words)
  <2>1. NoName \in Words /\ "." \in Words
      BY DEF Words
  <2> QED BY <2>1
<1> HIDE DEF end
<1>7. SetPath(p) = <<NoName>> \o Joined(kept) \o end
    BY Zenon DEF SetPath, decoded, segments, kept, last, end
<1>8. <<NoName>> \in Seq(Words) /\ end \in Seq(Words)
    BY <1>5, <1>6
<1> QED BY <1>4, <1>7, <1>8

\* A clean path with nothing to decode stays as it is.
LEMMA SetPathKeeps ==
  ASSUME NEW names \in Seq(Segments(Literals)), NEW slashes \in {0, 1}, names # <<>> \/ slashes = 1,
         NEW p \in Seq(Literals), Len(p) = Len(names) + 1 + slashes, p[1] = NoName,
         \A i \in 1 .. Len(names) : p[i + 1] = names[i],
         slashes = 1 => p[Len(p)] = NoName
  PROVE  SetPath(p) = p
<1> DEFINE n        == Len(names)
           decoded  == [i \in 1 .. Len(p) - 1 |-> Unescaped(p[i + 1])]
           singles  == [i \in 1 .. Len(p) - 1 |-> <<p[i + 1]>>]
           kept     == FoldLeft(KeepSegment, <<>>, singles)
           end      == CASE Last(singles) \in {<<NoName>>, <<"..">>} -> <<NoName>>
                         [] Last(singles) = <<".">> -> <<".">>
                         [] OTHER -> <<>>
<1>1. /\ n \in Nat /\ Len(p) - 1 = n + slashes /\ Len(p) - 1 >= 1
      /\ \A i \in 1 .. Len(p) : p[i] \in Literals
      /\ \A i \in 1 .. n : names[i] \in Segments(Literals)
    OBVIOUS
<1>2. /\ singles \in Seq(Seq(Literals)) /\ Len(singles) = n + slashes
      /\ \A i \in 1 .. n + slashes : singles[i] = <<p[i + 1]>> /\ p[i + 1] \in Literals
    BY <1>1
<1>3. SinglesOf(decoded, singles) /\ decoded \in Seq(Seq(Seq(Literals)))
  <2>1. ASSUME NEW i \in 1 .. Len(p) - 1
        PROVE  /\ Unescaped(p[i + 1]) = <<singles[i]>>
               /\ <<singles[i]>> \in Seq(Seq(Literals))
    <3>1. singles[i] = <<p[i + 1]>> /\ p[i + 1] \in Literals
        BY <1>1, <1>2
    <3>2. Unescaped(p[i + 1]) = <<<<p[i + 1]>>>>
        BY <3>1 DEF Unescaped, Literals
    <3>3. singles[i] \in Seq(Literals)
        BY <3>1
    <3> HIDE DEF singles
    <3>4. <<singles[i]>> \in Seq(Seq(Literals))
        BY <3>3
    <3> QED BY <3>1, <3>2, <3>4
  <2> DEFINE S == Seq(Seq(Literals))
  <2>2. decoded \in [1 .. Len(p) - 1 -> S] /\ \A i \in 1 .. Len(p) - 1 : decoded[i] = <<singles[i]>>
    <3> HIDE DEF singles, S
    <3> QED BY <2>1 DEF S
  <2> HIDE DEF S, decoded, singles
  <2>3. decoded \in Seq(S) /\ Len(decoded) = Len(p) - 1
      BY <1>1, <2>2
  <2> QED BY <1>1, <1>2, <2>2, <2>3 DEF SinglesOf, S
<1>4. Joined(decoded) = singles
  <2> HIDE DEF decoded, singles
  <2> QED BY <1>2, <1>3, JoinedSingles
<1> HIDE DEF decoded, singles
<1>5. kept \in Seq(Seq(Literals)) /\ SinglesOf(kept, names)
  <2>1. FoldedBy(KeepSegment, <<>>, singles)
      BY <1>2, FoldedLeft, Zenon
  <2>2. PICK f : FoldsAlong(KeepSegment, <<>>, singles, f) /\ kept = f[Len(singles)]
      BY <2>1, Zenon DEF FoldedBy
  <2>3. f[0] = <<>> /\ \A i \in 1 .. n + slashes : f[i] = KeepSegment(f[i - 1], singles[i])
    <3>1. f[0] = <<>> /\ \A i \in 1 .. Len(singles) : f[i] = KeepSegment(f[i - 1], singles[i])
        BY <2>2, Zenon DEF FoldsAlong
    <3> QED BY <1>2, <3>1
  <2> DEFINE T == {i \in 0 .. n : /\ f[i] \in Seq(Seq(Literals)) /\ Len(f[i]) = i
                                  /\ \A k \in 1 .. i : f[i][k] = <<names[k]>>}
  <2>4. 0 \in T
    <3>1. <<>> \in Seq(Seq(Literals)) /\ Len(<<>>) = 0 /\ 0 \in 0 .. n /\ 1 .. 0 = {}
        BY <1>1
    <3> QED BY <2>3, <3>1
  <2>5. ASSUME NEW i \in 1 .. n, i - 1 \in T PROVE i \in T
    <3>1. /\ f[i - 1] \in Seq(Seq(Literals)) /\ Len(f[i - 1]) = i - 1
          /\ \A k \in 1 .. i - 1 : f[i - 1][k] = <<names[k]>>
        BY <2>5
    <3>2. singles[i] = <<names[i]>> /\ names[i] \in Segments(Literals) /\ names[i] \in Literals
      <4>1. i \in 1 .. n + slashes /\ p[i + 1] = names[i] /\ names[i] \in Segments(Literals)
          BY <1>1
      <4> QED BY <1>2, <4>1 DEF Segments
    <3>3. <<names[i]>> \notin {<<NoName>>, <<".">>, <<"..">>}
        BY <3>2 DEF Segments
    <3>4. f[i] = Append(f[i - 1], <<names[i]>>)
      <4>1. f[i] = KeepSegment(f[i - 1], <<names[i]>>)
          BY <1>1, <2>3, <3>2
      <4> QED BY <3>3, <4>1, Zenon DEF KeepSegment
    <3> DEFINE s == <<names[i]>>
    <3>5. s \in Seq(Literals)
        BY <3>2
    <3> HIDE DEF s
    <3>6. f[i] = Append(f[i - 1], s)
        BY <3>4 DEF s
    <3>7. f[i] \in Seq(Seq(Literals)) /\ Len(f[i]) = i /\ f[i][i] = s
        BY <1>1, <3>1, <3>5, <3>6
    <3>8. ASSUME NEW k \in 1 .. i - 1 PROVE f[i][k] = <<names[k]>>
        BY <1>1, <3>1, <3>5, <3>6
    <3>9. \A k \in 1 .. i : f[i][k] = <<names[k]>>
        BY <3>7, <3>8 DEF s
    <3>10. i \in 0 .. n
        BY <1>1
    <3> QED BY <3>7, <3>9, <3>10, Zenon
  <2>6. 0 .. n \subseteq T
    <3> HIDE DEF T
    <3> QED BY <1>1, <2>4, <2>5, Upwards
  <2>7. /\ f[n] \in Seq(Seq(Literals)) /\ Len(f[n]) = n
        /\ \A k \in 1 .. n : f[n][k] = <<names[k]>>
      BY <1>1, <2>6
  <2>8. kept = f[n]
    <3>1. CASE slashes = 0
        BY <1>1, <1>2, <2>2, <3>1
    <3>2. CASE slashes = 1
      <4>1. kept = f[n + 1] /\ n + 1 \in 1 .. n + slashes /\ (n + 1) - 1 = n /\ Len(p) = n + 2
          BY <1>1, <1>2, <2>2, <3>2
      <4>2. singles[n + 1] = <<NoName>>
          BY <1>2, <3>2, <4>1
      <4>3. f[n + 1] = KeepSegment(f[n], <<NoName>>)
          BY <2>3, <4>1, <4>2
      <4>4. KeepSegment(f[n], <<NoName>>) = f[n]
        <5>1. <<NoName>> # <<"..">>
          <6>1. NoName # ".."
              BY Zenon DEF NoName
          <6> QED BY <6>1
        <5> QED BY <5>1, Zenon DEF KeepSegment
      <4> QED BY <4>1, <4>3, <4>4
    <3> QED BY <3>1, <3>2
  <2> HIDE DEF kept
  <2> QED BY <1>1, <2>7, <2>8 DEF SinglesOf
<1>6. Joined(kept) = names
  <2>1. names \in Seq(Literals)
      BY <1>1 DEF Segments
  <2> HIDE DEF kept
  <2> QED BY <1>5, <2>1, JoinedSingles
<1>7. Last(singles) = <<p[Len(p)]>>
    BY <1>1, <1>2 DEF Last
<1>8. end = IF slashes = 1 THEN <<NoName>> ELSE <<>>
  <2>1. CASE slashes = 1
    <3>1. Last(singles) = <<NoName>> /\ <<NoName>> # <<".">>
      <4>1. NoName # "."
          BY Zenon DEF NoName
      <4> QED BY <1>7, <2>1, <4>1
    <3>2. end = <<NoName>>
        BY <3>1, Zenon
    <3> QED BY <2>1, <3>2
  <2>2. CASE slashes = 0
    <3>1. p[Len(p)] \in Segments(Literals)
      <4>1. n \in 1 .. n /\ Len(p) = n + 1
          BY <1>1, <2>2
      <4> QED BY <1>1, <4>1
    <3>2. Last(singles) \notin {<<NoName>>, <<".">>, <<"..">>}
        BY <1>7, <3>1 DEF Segments
    <3>3. end = <<>>
        BY <3>2, Zenon
    <3> QED BY <2>2, <3>3
  <2> QED BY <2>1, <2>2
<1> HIDE DEF kept, end
<1>9. SetPath(p) = <<NoName>> \o names \o end
  <2>1. SetPath(p) = <<NoName>> \o Joined(kept) \o end
      BY <1>4, Zenon DEF SetPath, decoded, kept, end
  <2> QED BY <1>6, <2>1
<1> DEFINE new == <<NoName>> \o names \o end
<1>10. new = p
  <2>1. names \in Seq(Literals) /\ NoName \in Literals
    <3>1. NoName \in Literals
        BY <1>1
    <3> QED BY <3>1 DEF Segments
  <2>2. end \in Seq(Literals) /\ Len(end) = slashes /\ (slashes = 1 => end[1] = NoName)
      BY <1>8, <2>1
  <2>3. /\ new \in Seq(Literals) /\ Len(new) = n + 1 + slashes /\ new[1] = NoName
        /\ slashes = 1 => new[n + 2] = NoName
      BY <1>1, <2>1, <2>2
  <2>4. \A i \in 1 .. n : new[i + 1] = names[i]
      BY <1>1, <2>1, <2>2
  <2> HIDE DEF new
  <2>5. ASSUME NEW i \in 1 .. Len(p) PROVE new[i] = p[i]
    <3>1. CASE i = 1
        BY <2>3, <3>1
    <3>2. CASE i \in 2 .. n + 1
      <4>1. i - 1 \in 1 .. n /\ (i - 1) + 1 = i
          BY <1>1, <3>2
      <4>2. new[(i - 1) + 1] = names[i - 1] /\ p[(i - 1) + 1] = names[i - 1]
          BY <2>4, <4>1
      <4> QED BY <4>1, <4>2
    <3>3. CASE i = n + 2
      <4>1. slashes = 1 /\ Len(p) = n + 2
          BY <1>1, <3>3
      <4> QED BY <2>3, <3>3, <4>1
    <3> QED BY <1>1, <3>1, <3>2, <3>3
  <2>6. new = [i \in 1 .. Len(p) |-> new[i]] /\ p = [i \in 1 .. Len(p) |-> p[i]]
      BY <1>1, <2>3
  <2>7. [i \in 1 .. Len(p) |-> new[i]] = [i \in 1 .. Len(p) |-> p[i]]
      BY <2>5
  <2> QED BY <2>6, <2>7, Zenon
<1> QED BY <1>9, <1>10

\* The same for every clean path.
LEMMA CleanPathKept ==
  ASSUME NEW p, NEW slash \in BOOLEAN, CleanPath(Literals, p, slash)
  PROVE  SetPath(p) = p
<1>1. NoName \in Literals
    BY ServersAssumption DEF Literals, Words
<1>2. CASE p = Root
  <2>1. p \in Seq(Literals) /\ Len(p) = 2 /\ p[1] = NoName /\ p[2] = NoName
    <3>1. ASSUME NEW w \in Literals
          PROVE  <<w, w>> \in Seq(Literals) /\ Len(<<w, w>>) = 2 /\ <<w, w>>[1] = w /\ <<w, w>>[2] = w
        OBVIOUS
    <3> QED BY <1>1, <1>2, <3>1, Zenon DEF Root
  <2> DEFINE names == <<>>
  <2>2. names \in Seq(Segments(Literals)) /\ Len(names) = 0
      OBVIOUS
  <2>3. \A i \in 1 .. Len(names) : p[i + 1] = names[i]
      BY <2>2
  <2> HIDE DEF names
  <2>4. Len(p) = Len(names) + 1 + 1 /\ p[Len(p)] = NoName
      BY <2>1, <2>2
  <2> QED BY <2>1, <2>2, <2>3, <2>4, SetPathKeeps
<1>3. ASSUME NEW names \in Seq(Segments(Literals)) \ {<<>>}, p = <<NoName>> \o names \o <<>>
      PROVE  SetPath(p) = p
  <2>1. names \in Seq(Literals) /\ Len(names) \in Nat
      BY SegmentsFacts
  <2>2. PICK slashes \in {0, 1} : slashes = 0
      OBVIOUS
  <2>3. /\ p \in Seq(Literals) /\ Len(p) = Len(names) + 1 + slashes /\ p[1] = NoName
        /\ \A i \in 1 .. Len(names) : p[i + 1] = names[i]
        /\ slashes = 1 => p[Len(p)] = NoName
      BY <1>1, <1>3, <2>1, <2>2
  <2> QED BY <2>3, SetPathKeeps
<1>4. ASSUME NEW names \in Seq(Segments(Literals)) \ {<<>>},
             p = <<NoName>> \o names \o <<NoName>>
      PROVE  SetPath(p) = p
  <2>1. names \in Seq(Literals) /\ Len(names) \in Nat
      BY SegmentsFacts
  <2>2. /\ p \in Seq(Literals) /\ Len(p) = Len(names) + 1 + 1 /\ p[1] = NoName
        /\ \A i \in 1 .. Len(names) : p[i + 1] = names[i]
        /\ p[Len(p)] = NoName
      BY <1>1, <1>4, <2>1
  <2> QED BY <1>4, <2>2, SetPathKeeps
<1>5. CASE slash
    BY <1>2, <1>3, <1>4, <1>5 DEF CleanPath
<1>6. CASE ~slash
    BY <1>2, <1>3, <1>4, <1>6 DEF CleanPath
<1> QED BY <1>5, <1>6

-----------------------------------------------------------------------------
\* Where a client is sent from a literal path, the middleware leaves the path
\* alone; with that path it is not sent anywhere.
RedirectInv ==
  /\ path \in Seq(Words)
  /\ at = "down" => location = None
  /\ location # None => location \in Seq(Words) /\ (Literal(path) => Modify(location) = 0)
  /\ from # None /\ Literal(from) => Modify(path) = 0 /\ location = None

\* All steps but those of the trailing slash middleware and the client.
SamePlace ==
  /\ server' = server /\ path' = path /\ location' = location /\ from' = from
  /\ at' = "down" => at = "down"

LEMMA PathsOK == Paths \subseteq Seq(Words) /\ Root \in Seq(Words)
<1>1. ASSUME NEW p \in Paths PROVE p \in Seq(Words)
  <2>1. Len(p) \in Nat /\ p = [i \in 1 .. Len(p) |-> p[i]]
      BY ServersAssumption
  <2>2. \A i \in 1 .. Len(p) : p[i] \in Words
    <3> SUFFICES ASSUME NEW i \in 1 .. Len(p) PROVE p[i] \in Words
        OBVIOUS
    <3>1. p[i] \in PartsOf(p)
        BY <2>1 DEF PartsOf
    <3>2. p[i] \in AskedFor
        BY <3>1, Zenon DEF AskedFor
    <3> QED BY <3>2 DEF Words
  <2> QED BY <2>1, <2>2
<1>2. Root \in Seq(Words)
    BY RootOK DEF Words
<1> QED BY <1>1, <1>2

LEMMA RedirectInitOK == Init => RedirectInv
BY PathsOK DEF Init, RedirectInv

LEMMA SamePlaceOK ==
  ASSUME RedirectInv, SamePlace
  PROVE  RedirectInv'
BY DEF RedirectInv, SamePlace, Modify, Literal

\* What the middleware makes of a path, and that it is the last word if there
\* was nothing to decode.
LEMMA ModifiedPath ==
  ASSUME NEW p \in Seq(Words), server.remove \in BOOLEAN, Modify(p) # 0,
         SanitizeUrlPath(p, Modify(p)) # Invalid
  PROVE  /\ SetPath(SanitizeUrlPath(p, Modify(p))) \in Seq(Words)
         /\ Literal(p) => Modify(SetPath(SanitizeUrlPath(p, Modify(p)))) = 0
<1> DEFINE new == SanitizeUrlPath(p, Modify(p))
<1>1. NoName \in Words /\ NoName \in Literals
    BY ServersAssumption DEF Words, Literals
<1>2. /\ new \in Seq(Words) /\ Modify(new) = 0
      /\ CleanPath(Words, new, ~server.remove)
    BY <1>1, ModifiedOnce
<1>3. Literal(p) => CleanPath(Literals, new, ~server.remove)
  <2>1. ASSUME Literal(p) PROVE p \in Seq(Literals)
    <3>1. \A i \in 1 .. Len(p) : p[i] \in Literals
        BY <2>1 DEF Literal, Literals
    <3> QED BY <3>1
  <2> QED BY <1>1, <2>1, ModifiedOnce
<1> HIDE DEF new
<1>4. SetPath(new) \in Seq(Words)
  <2>1. CASE new = Root
    <3>1. Len(new) > 0
      <4>1. EndsWithSlash(Root)
          BY <1>1, RootOK
      <4> QED BY <1>2, <2>1, <4>1 DEF EndsWithSlash
    <3> QED BY <1>2, <3>1, SetPathType
  <2>2. CASE new # Root
    <3> DEFINE tail == IF ~server.remove THEN <<NoName>> ELSE <<>>
    <3>1. PICK names \in Seq(Segments(Words)) \ {<<>>} : new = <<NoName>> \o names \o tail
        BY <1>2, <2>2, Zenon DEF CleanPath
    <3>2. names \in Seq(Words)
        BY SegmentsFacts
    <3>3. tail \in Seq(Words)
        BY <1>1
    <3> HIDE DEF tail
    <3>4. Len(new) > 0
        BY <1>1, <3>1, <3>2, <3>3
    <3> QED BY <1>2, <3>4, SetPathType
  <2> QED BY <2>1, <2>2
<1>5. Literal(p) => SetPath(new) = new
    BY <1>3, CleanPathKept
<1> QED BY <1>2, <1>4, <1>5 DEF new

LEMMA RedirectStepOK ==
  ASSUME IInv, RedirectInv, [Next]_vars
  PROVE  RedirectInv'
<1>. USE DEF Return, Back, GoOn, GoOnWith, outside, asked
<1>1. server.remove \in BOOLEAN
    BY ServersAssumption DEF IInv, TypeOK
<1>2. CASE TrailingSlash
  <2> DEFINE modify == Modify(path)
             new    == SanitizeUrlPath(path, modify)
             next   == SetPath(new)
  <2>1. server' = server /\ from' = from /\ at = "down" /\ location = None
      BY <1>2 DEF TrailingSlash, Runs, RedirectInv
  <2>2. CASE path' = path /\ location' = location
      BY <2>1, <2>2, SamePlaceOK DEF SamePlace
  <2>3. CASE /\ modify # 0 /\ new # Invalid
             /\ \/ location' = next /\ path' = path /\ at' = "up"
                \/ location' = location /\ path' = next
    <3>1. next \in Seq(Words) /\ (Literal(path) => Modify(next) = 0)
        BY <1>1, <2>3, ModifiedPath DEF RedirectInv
    <3>2. ~(from # None /\ Literal(from))
        BY <2>3 DEF RedirectInv
    <3>3. \/ location' = next /\ path' = path /\ at' = "up"
          \/ location' = location /\ path' = next
        BY <2>3
    <3> HIDE DEF modify, new, next
    <3>4. path' \in Seq(Words) /\ (at' = "down" => location' = None)
        BY <2>1, <3>1, <3>3 DEF RedirectInv
    <3>5. location' # None => location' = next /\ path' = path
        BY <2>1, <3>3
    <3>6. location' # None => /\ location' \in Seq(Words)
                              /\ Literal(path') => Modify(location)' = 0
        BY <2>1, <3>1, <3>5 DEF Modify
    <3>7. ~(from' # None /\ Literal(from'))
        BY <2>1, <3>2
    <3> QED BY <3>4, <3>6, <3>7 DEF RedirectInv, Literal
  <2> QED BY <1>2, <2>2, <2>3 DEF TrailingSlash
<1>3. CASE Build \/ Receive
    BY <1>3, PathsOK DEF Build, Receive, Quiet, Begin, RedirectInv
<1>4. CASE Send
    BY <1>4, PathsOK DEF Send, Begin, RedirectInv
<1>5. CASE Follow
    BY <1>5 DEF Follow, Begin, RedirectInv, Modify, Literal
<1>6. CASE Cors
    BY <1>6, SamePlaceOK DEF Cors, Runs, SamePlace
<1>7. ASSUME NEW key \in Keys, Auth(key), at = "down" PROVE RedirectInv'
  <2>1. SamePlace
      BY <1>7 DEF Auth, Keys, SamePlace
  <2> QED BY <2>1, SamePlaceOK
<1>8. CASE NewAuth \/ ConditionalAuth
    BY <1>7, <1>8, SamePlaceOK DEF NewAuth, ConditionalAuth, Runs, SamePlace
<1>9. CASE CacheControl \/ SafeBrowsing \/ ETagBefore \/ CompressBefore
    BY <1>9, SamePlaceOK DEF CacheControl, SafeBrowsing, ETagBefore, CompressBefore, Runs, SamePlace
<1>10. CASE RouterAnswers \/ Handler \/ FilesHandler
    BY <1>10, SamePlaceOK DEF RouterAnswers, Handler, FilesHandler, SamePlace
<1>11. CASE Up \/ Finish
    BY <1>11, SamePlaceOK DEF Up, ETagAfter, CompressAfter, ReturnThrough, Finish, SamePlace
<1>12. CASE Publish \/ UNCHANGED vars
    BY <1>12, SamePlaceOK DEF Publish, vars, SamePlace
<1> QED BY <1>2, <1>3, <1>4, <1>5, <1>6, <1>8, <1>9, <1>10, <1>11, <1>12 DEF Next, Down

\* A client that follows a redirection of the trailing slash middleware is not
\* redirected again, whatever the paths and what their parts decode to, unless
\* the path it asked for has something left to decode when fasthttp has decoded
\* it once.
THEOREM RedirectTheorem == Spec => []RedirectOnce
<1>1. RedirectInv => RedirectOnce
    BY DEF RedirectInv, RedirectOnce
<1> QED BY <1>1, Invariance, RedirectInitOK, RedirectStepOK, PTL DEF Spec

=============================================================================
