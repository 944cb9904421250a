--------------------------- MODULE LimiterClients ---------------------------
(***************************************************************************)
(* Whom the rate limiter counts when no KeyGenerator is given: its keys    *)
(* are the addresses that RequestContext.RemoteIP returns (request.go,     *)
(* request_internal.go, trusted_proxy.go), that of the peer, or one that a *)
(* trusted proxy names in a header.                                        *)
(*                                                                         *)
(* A key of RateLimiter is the bytes of an address.  An IPv4 address has   *)
(* two forms: 4 bytes, which is how a peer has it, and 16, which is what   *)
(* "::ffff:192.0.2.1" in a header is parsed to.  Both have the same text.  *)
(*                                                                         *)
(* A header is the sequence of its spaces, its commas, and the words       *)
(* between them.                                                           *)
(***************************************************************************)
EXTENDS RateLimiter, SequencesExt

Space == " "
Comma == ","

CONSTANTS
  Proxies,  \* opts.TrustedProxies: each is a [text], or the addresses in a [range]
  Text,     \* ip.String(), the same for the two forms of an address
  Headers,  \* what X-Forwarded-For and True-Client-IP may be, <<>> when missing
  Peers     \* the addresses that connect

ASSUME ClientsAssumption ==
  /\ Keys \cap {Space, Comma, "unknown"} = {} /\ None \notin {Space, Comma, "unknown"}
  /\ DOMAIN Text = Keys
  /\ \A p \in Proxies : DOMAIN p \in {{"text"}, {"range"}}
  /\ \A h \in Headers : h \in Seq(Keys \cup {Space, Comma, "unknown"})
  /\ Peers \subseteq Keys

VARIABLE client  \* history: whose request it is, by the address in the form it came in

-----------------------------------------------------------------------------
IsIpTrusted(ip) == \E p \in Proxies : \/ DOMAIN p = {"text"} /\ Text[ip] = p.text
                                      \/ DOMAIN p = {"range"} /\ ip \in p.range

\* Without a list every peer is a proxy.
IsProxyTrusted(peer) == Proxies = {} \/ IsIpTrusted(peer)

\* What getFirstIpAddress knows of the part of the header it is in: the word it
\* has found, and whether another follows it.
Nothing == [word |-> None, more |-> FALSE]

\* Mutant: what follows an address is not looked at.
AddressFirst(part) == IF part.word \in Keys THEN part.word ELSE None

Address(part) == IF part.word \in Keys /\ ~part.more THEN part.word ELSE None

\* One more character or word of the header, unless the function has returned.
Scan(walk, c) ==
  CASE walk.found # None -> walk
    [] walk.found = None /\ c = Comma -> [found |-> Address(walk.part), part |-> Nothing]
    [] walk.found = None /\ c = Space -> walk
    [] OTHER -> IF walk.part.word = None THEN [walk EXCEPT !.part.word = c]
                                         ELSE [walk EXCEPT !.part.more = TRUE]

Start == [found |-> None, part |-> Nothing]

Walk(list) == FoldLeft(Scan, Start, list)

GetFirstIpAddress(list) ==
  IF Walk(list).found # None THEN Walk(list).found ELSE Address(Walk(list).part)

\* True-Client-IP counts before X-Forwarded-For.
RemoteIP(peer, trueClient, forwarded) ==
  LET ip == GetFirstIpAddress(IF trueClient # <<>> THEN trueClient ELSE forwarded)
  IN  IF IsProxyTrusted(peer) /\ ip # None THEN ip ELSE peer

-----------------------------------------------------------------------------
(* Whose request it is, without a walk.                                    *)

\* The places of a header that stand alone between two commas.
SamePart(list, i, j) == \A n \in DOMAIN list : i <= n /\ n <= j => list[n] # Comma

Named(list) ==
  {i \in DOMAIN list :
    /\ list[i] \in Keys
    /\ \A j \in DOMAIN list \ {i} :
         SamePart(list, i, j) /\ SamePart(list, j, i) => list[j] = Space}

Proxied == UNION {IF DOMAIN p = {"range"} THEN p.range ELSE {k \in Keys : Text[k] = p.text} :
                  p \in Proxies}

ClientOf(peer, trueClient, forwarded) ==
  LET list == IF trueClient = <<>> THEN forwarded ELSE trueClient
  IN  IF (Proxies # {} /\ peer \notin Proxied) \/ Named(list) = {} THEN peer
      ELSE list[CHOOSE i \in Named(list) : \A j \in Named(list) : i <= j]

\* The requests there may be, by the key they get.
Calls == {[key |-> RemoteIP(peer, trueClient, forwarded),
           client |-> ClientOf(peer, trueClient, forwarded)] :
            peer \in Peers, trueClient \in Headers, forwarded \in Headers}

-----------------------------------------------------------------------------
ClientsInit == Init /\ client = [r \in Requests |-> None]

Call(r) == \E call \in Calls : /\ Arrive(r, call.key)
                               /\ client' = [client EXCEPT ![r] = call.client]

Others == /\ \/ \E r \in Requests : Step(r) \/ StorageFails(r)
             \/ Tick \/ AllEnded
          /\ UNCHANGED client

ClientsNext == (\E r \in Requests : Call(r)) \/ Others

ClientsSpec == ClientsInit /\ [][ClientsNext]_<<vars, client>>

-----------------------------------------------------------------------------
Own(r) == {q \in Requests : client[q] = client[r] /\ counted[q] # 0}

\* The requests of r's client, in either form of its address.
OfClient(r) == {q \in Requests : /\ client[q] # None /\ Text[client[q]] = Text[client[r]]
                                 /\ counted[q] # 0}

\* Whoever connects and whatever the headers say: of one address, in one form, no
\* more requests than the limit go on in one window, and a client is limited only
\* when it has itself sent more, in the last three windows.
ClientLimit ==
  \A r \in Requests : counted[r] # 0 =>
    /\ Cardinality({q \in Own(r) : /\ counted[q] = counted[r]
                                   /\ pc[q] \notin {"limited", "answered"}}) <= Limit
    /\ pc[r] = "limited" => Cardinality(Own(r) \cap Recent(r, 3)) > Limit

\* "Defaults to req.RemoteIP().String()": of one client no more requests than the
\* limit go on in one window.  The default takes the bytes of the address instead,
\* and counts its two forms apart.
OneLimitPerClient ==
  \A r \in Requests : counted[r] # 0 =>
    Cardinality({q \in OfClient(r) : /\ counted[q] = counted[r]
                                     /\ pc[q] \notin {"limited", "answered"}}) <= Limit

=============================================================================
