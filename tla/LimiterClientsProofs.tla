------------------------ MODULE LimiterClientsProofs ------------------------
(***************************************************************************)
(* Proofs about LimiterClients: for every header getFirstIpAddress finds   *)
(* the first address that stands alone between two commas, so that the key *)
(* a request is counted under is the address of its client, in the form it *)
(* came in, and what RateLimiterProofs says of keys can be said of those.  *)
(***************************************************************************)
EXTENDS LimiterClients, RateLimiterProofs, FoldProofs

Words == Keys \cup {Space, Comma, "unknown"}

-----------------------------------------------------------------------------
(* The walk along a header.                                                *)

\* Places between two commas: from after b, a comma or the start, up to i.
PartOK(list, b, i, part) ==
  /\ b \in 0 .. i
  /\ b # 0 => list[b] = Comma
  /\ \A j \in (b + 1) .. i : list[j] # Comma
  /\ \A p \in Named(list) : p > b
  /\ part.word = None => part = Nothing /\ \A j \in (b + 1) .. i : list[j] = Space
  /\ part = [word |-> part.word, more |-> part.more]
  /\ part.word # None =>
       \E s \in (b + 1) .. i :
         /\ list[s] = part.word /\ list[s] # Space
         /\ \A j \in (b + 1) .. (s - 1) : list[j] = Space
         /\ part.more <=> \E j \in (s + 1) .. i : list[j] # Space

\* The address that is named first.
First(list, ip) == \E p \in Named(list) : ip = list[p] /\ \A q \in Named(list) : p <= q

WalkOK(list, i, walk) ==
  /\ walk = [found |-> walk.found, part |-> walk.part]
  /\ walk.found # None => First(list, walk.found)
  /\ walk.found = None => \E b \in 0 .. i : PartOK(list, b, i, walk.part)

\* Of a part that ends here, Address returns the address if it is named.
LEMMA PartEnds ==
  ASSUME NEW list \in Seq(Words), NEW i \in 0 .. Len(list),
         i < Len(list) => list[i + 1] = Comma,
         NEW b, NEW part, PartOK(list, b, i, part)
  PROVE  /\ Address(part) # None => First(list, Address(part))
         /\ Address(part) = None => \A p \in Named(list) : p > i
<1>0. /\ Len(list) \in Nat /\ DOMAIN list = 1 .. Len(list) /\ i \in Nat /\ b \in 0 .. i
      /\ \A p \in Named(list) : p \in 1 .. Len(list) /\ list[p] \in Keys /\ p > b
    BY DEF PartOK, Named
<1>1. ASSUME NEW p \in Named(list), NEW j \in (b + 1) .. i, p <= i, j # p
      PROVE  list[j] = Space
  <2>1. p \in (b + 1) .. i /\ j \in DOMAIN list \ {p}
      BY <1>0, <1>1
  <2>2. SamePart(list, p, j) /\ SamePart(list, j, p)
      BY <1>0, <2>1 DEF SamePart, PartOK
  <2> QED BY <2>1, <2>2 DEF Named
<1>2. Space \notin Keys
    BY ClientsAssumption
<1>3. CASE part.word = None
  <2>1. part = Nothing /\ \A j \in (b + 1) .. i : list[j] = Space
      BY <1>3 DEF PartOK
  <2>2. Address(part) = None
      BY <1>3, LimiterAssumption DEF Address
  <2> QED BY <1>0, <1>2, <2>1, <2>2
<1>4. CASE part.word # None
  <2>1. PICK s \in (b + 1) .. i :
          /\ list[s] = part.word /\ list[s] # Space
          /\ \A j \in (b + 1) .. (s - 1) : list[j] = Space
          /\ part.more <=> \E j \in (s + 1) .. i : list[j] # Space
      BY <1>4 DEF PartOK
  <2>2. \A p \in Named(list) : p <= i => p = s
      BY <1>0, <1>1, <2>1
  <2>3. CASE list[s] \in Keys /\ \A j \in (s + 1) .. i : list[j] = Space
    <3>1. Address(part) = list[s]
        BY <2>1, <2>3 DEF Address
    <3>2. s \in Named(list)
      <4> SUFFICES ASSUME NEW j \in DOMAIN list \ {s},
                          SamePart(list, s, j), SamePart(list, j, s)
                   PROVE  list[j] = Space
          BY <1>0, <2>1, <2>3 DEF Named
      <4>1. j > b
        <5> SUFFICES ASSUME j <= b PROVE FALSE
            BY <1>0
        <5>1. b \in DOMAIN list /\ list[b] = Comma /\ b <= s
            BY <1>0, <2>1 DEF PartOK
        <5> QED BY <5>1 DEF SamePart
      <4>2. j <= i
        <5> SUFFICES ASSUME j >= i + 1 PROVE FALSE
            BY <1>0
        <5>1. i + 1 \in DOMAIN list /\ list[i + 1] = Comma /\ s <= i + 1
            BY <1>0, <2>1
        <5> QED BY <1>0, <5>1 DEF SamePart
      <4> QED BY <1>0, <2>1, <2>3, <4>1, <4>2
    <3>3. list[s] # None
        BY <2>3, LimiterAssumption
    <3>4. \A q \in Named(list) : s <= q
        BY <1>0, <2>1, <2>2
    <3> QED BY <3>1, <3>2, <3>3, <3>4 DEF First
  <2>4. CASE ~(list[s] \in Keys /\ \A j \in (s + 1) .. i : list[j] = Space)
    <3>1. Address(part) = None
        BY <2>1, <2>4 DEF Address
    <3>2. s \notin Named(list)
      <4> SUFFICES ASSUME s \in Named(list) PROVE FALSE
          OBVIOUS
      <4>1. \A j \in (s + 1) .. i : list[j] = Space
          BY <1>0, <1>1, <2>1
      <4> QED BY <1>0, <2>4, <4>1
    <3> QED BY <1>0, <2>2, <3>1, <3>2
  <2> QED BY <2>3, <2>4
<1> QED BY <1>3, <1>4

LEMMA Differ == Space # Comma
BY Zenon DEF Space, Comma

\* The characters that Scan treats differently.
LEMMA Scans ==
  ASSUME NEW walk, NEW c
  PROVE  /\ walk.found # None => Scan(walk, c) = walk
         /\ walk.found = None =>
              /\ c = Comma => Scan(walk, c) = [found |-> Address(walk.part), part |-> Nothing]
              /\ c = Space => Scan(walk, c) = walk
              /\ c # Comma /\ c # Space =>
                   Scan(walk, c) = IF walk.part.word = None
                                     THEN [walk EXCEPT !.part.word = c]
                                     ELSE [walk EXCEPT !.part.more = TRUE]
<1> DEFINE other == IF walk.part.word = None THEN [walk EXCEPT !.part.word = c]
                                             ELSE [walk EXCEPT !.part.more = TRUE]
           comma == [found |-> Address(walk.part), part |-> Nothing]
<1>1. Scan(walk, c) = CASE walk.found # None -> walk
                        [] walk.found = None /\ c = Comma -> comma
                        [] walk.found = None /\ c = Space -> walk
                        [] OTHER -> other
    BY Zenon DEF Scan
<1> HIDE DEF other, comma
<1>2. CASE walk.found # None
    BY <1>1, <1>2
<1>3. CASE walk.found = None /\ c = Comma
    BY <1>1, <1>3, Differ DEF comma
<1>4. CASE walk.found = None /\ c = Space
    BY <1>1, <1>4, Differ
<1>5. CASE walk.found = None /\ c # Comma /\ c # Space
    BY <1>1, <1>5 DEF other
<1> QED BY <1>2, <1>3, <1>4, <1>5

\* One character or word more.
LEMMA ScanStep ==
  ASSUME NEW list \in Seq(Words), NEW i \in 1 .. Len(list), NEW walk, WalkOK(list, i - 1, walk)
  PROVE  WalkOK(list, i, Scan(walk, list[i]))
<1>0. /\ i \in Nat /\ i - 1 \in Nat /\ Len(list) \in Nat /\ list[i] \in Words
      /\ walk = [found |-> walk.found, part |-> walk.part]
      /\ list[i] # Comma /\ list[i] # Space => list[i] # None
    BY LimiterAssumption, ClientsAssumption DEF WalkOK, Words
<1>1. CASE walk.found # None
    BY <1>0, <1>1, Scans DEF WalkOK
<1>2. CASE walk.found = None
  <2>1. PICK b \in 0 .. (i - 1) : PartOK(list, b, i - 1, walk.part)
      BY <1>2 DEF WalkOK
  <2>2. CASE list[i] = Comma
    <3>1. Scan(walk, list[i]) = [found |-> Address(walk.part), part |-> Nothing]
        BY <1>2, <2>2, Scans
    <3>2. i - 1 \in 0 .. Len(list) /\ (i - 1) + 1 = i
        BY <1>0
    <3>3. /\ Address(walk.part) # None => First(list, Address(walk.part))
          /\ Address(walk.part) = None => \A p \in Named(list) : p > i - 1
        BY <2>1, <2>2, <3>2, PartEnds
    <3>4. ASSUME Address(walk.part) = None
          PROVE  PartOK(list, i, i, Nothing)
      <4>1. \A p \in Named(list) : p \in Nat /\ list[p] \in Keys
          BY DEF Named
      <4>2. Comma \notin Keys
          BY ClientsAssumption
      <4>3. \A p \in Named(list) : p > i
          BY <1>0, <2>2, <3>3, <3>4, <4>1, <4>2
      <4> QED BY <1>0, <2>2, <4>3 DEF PartOK, Nothing
    <3> QED BY <1>0, <3>1, <3>3, <3>4 DEF WalkOK
  <2>3. CASE list[i] = Space
    <3>1. Scan(walk, list[i]) = walk
        BY <1>2, <2>3, Scans
    <3>2. PartOK(list, b, i, walk.part)
      <4>1. \A j \in (b + 1) .. i : j = i \/ j \in (b + 1) .. (i - 1)
          BY <1>0
      <4>2. walk.part.word = None =>
              walk.part = Nothing /\ \A j \in (b + 1) .. i : list[j] = Space
          BY <2>1, <2>3, <4>1 DEF PartOK
      <4>3. ASSUME walk.part.word # None
            PROVE  \E s \in (b + 1) .. i :
                     /\ list[s] = walk.part.word /\ list[s] # Space
                     /\ \A j \in (b + 1) .. (s - 1) : list[j] = Space
                     /\ walk.part.more <=> \E j \in (s + 1) .. i : list[j] # Space
        <5>1. PICK s \in (b + 1) .. (i - 1) :
                /\ list[s] = walk.part.word /\ list[s] # Space
                /\ \A j \in (b + 1) .. (s - 1) : list[j] = Space
                /\ walk.part.more <=> \E j \in (s + 1) .. (i - 1) : list[j] # Space
            BY <2>1, <4>3 DEF PartOK
        <5>2. (\E j \in (s + 1) .. i : list[j] # Space)
                <=> (\E j \in (s + 1) .. (i - 1) : list[j] # Space)
            BY <1>0, <2>3, <5>1
        <5>3. s \in (b + 1) .. i
            BY <1>0, <5>1
        <5> QED BY <5>1, <5>2, <5>3
      <4>4. \A j \in (b + 1) .. i : list[j] # Comma
          BY <2>1, <2>3, <4>1, Differ DEF PartOK
      <4> QED BY <1>0, <2>1, <4>2, <4>3, <4>4 DEF PartOK
    <3> QED BY <1>0, <1>2, <3>1, <3>2 DEF WalkOK
  <2>4. CASE list[i] # Comma /\ list[i] # Space
    <3>0. /\ \A j \in (b + 1) .. i : j = i \/ j \in (b + 1) .. (i - 1)
          /\ \A j \in (b + 1) .. i : list[j] # Comma
        BY <1>0, <2>1, <2>4 DEF PartOK
    <3>1. CASE walk.part.word = None
      <4>1. walk.part = Nothing /\ \A j \in (b + 1) .. (i - 1) : list[j] = Space
          BY <2>1, <3>1 DEF PartOK
      <4>2. Scan(walk, list[i]) = [walk EXCEPT !.part.word = list[i]]
          BY <1>2, <2>4, <3>1, Scans
      <4>3. walk = [found |-> None, part |-> [word |-> None, more |-> FALSE]]
          BY <1>0, <1>2, <4>1 DEF Nothing
      <4>4. Scan(walk, list[i]) = [found |-> None, part |-> [word |-> list[i], more |-> FALSE]]
          BY <4>2, <4>3
      <4>5. PICK part : part = [word |-> list[i], more |-> FALSE]
          OBVIOUS
      <4>6. /\ part.word = list[i] /\ part.word # None /\ ~part.more
            /\ part = [word |-> part.word, more |-> part.more]
          BY <1>0, <2>4, <4>5
      <4>7. \A j \in (i + 1) .. i : list[j] = Space
          BY <1>0
      <4>8. i \in (b + 1) .. i
          BY <1>0
      <4>9. PartOK(list, b, i, part)
          BY <1>0, <2>1, <2>4, <3>0, <4>1, <4>6, <4>7, <4>8 DEF PartOK
      <4> QED BY <1>0, <4>4, <4>5, <4>9 DEF WalkOK
    <3>2. CASE walk.part.word # None
      <4>1. PICK s \in (b + 1) .. (i - 1) :
              /\ list[s] = walk.part.word /\ list[s] # Space
              /\ \A j \in (b + 1) .. (s - 1) : list[j] = Space
          BY <2>1, <3>2 DEF PartOK
      <4>2. Scan(walk, list[i]) = [walk EXCEPT !.part.more = TRUE]
          BY <1>2, <2>4, <3>2, Scans
      <4>3. PICK word, more : walk = [found |-> None, part |-> [word |-> word, more |-> more]]
          BY <1>0, <1>2, <2>1 DEF PartOK
      <4>4. Scan(walk, list[i]) = [found |-> None, part |-> [word |-> word, more |-> TRUE]]
          BY <4>2, <4>3
      <4>5. PICK part : part = [word |-> word, more |-> TRUE]
          OBVIOUS
      <4>6. /\ part.word = list[s] /\ part.word # None /\ part.more
            /\ part = [word |-> part.word, more |-> part.more]
          BY <3>2, <4>1, <4>3, <4>5
      <4>7. s \in (b + 1) .. i /\ i \in (s + 1) .. i
          BY <1>0, <4>1
      <4>8. part.more <=> \E j \in (s + 1) .. i : list[j] # Space
          BY <2>4, <4>6, <4>7
      <4>9. PartOK(list, b, i, part)
        <5>1. b \in 0 .. i /\ (b # 0 => list[b] = Comma) /\ \A p \in Named(list) : p > b
            BY <1>0, <2>1 DEF PartOK
        <5> QED BY <3>0, <4>1, <4>6, <4>7, <4>8, <5>1 DEF PartOK
      <4> QED BY <1>0, <4>4, <4>5, <4>9 DEF WalkOK
    <3> QED BY <3>1, <3>2
  <2> QED BY <2>2, <2>3, <2>4
<1> QED BY <1>1, <1>2

\* getFirstIpAddress, for every header: the first address that stands alone
\* between two commas, if there is any.
THEOREM FirstAddressTheorem ==
  ASSUME NEW list \in Seq(Words)
  PROVE  /\ Named(list) = {} => GetFirstIpAddress(list) = None
         /\ Named(list) # {} => First(list, GetFirstIpAddress(list))
<1>0. Len(list) \in Nat
    OBVIOUS
<1>1. FoldedBy(Scan, Start, list)
    BY FoldedLeft, Zenon
<1>2. PICK f : FoldsAlong(Scan, Start, list, f) /\ Walk(list) = f[Len(list)]
    BY <1>1, Zenon DEF FoldedBy, Walk
<1>3. f[0] = Start /\ \A i \in 1 .. Len(list) : f[i] = Scan(f[i - 1], list[i])
    BY <1>2, Zenon DEF FoldsAlong
<1> DEFINE S == {i \in 0 .. Len(list) : WalkOK(list, i, f[i])}
<1>4. 0 \in S
  <2>1. \A p \in Named(list) : p > 0
      BY DEF Named
  <2>2. PartOK(list, 0, 0, Nothing)
      BY <2>1 DEF PartOK, Nothing
  <2> QED BY <1>0, <1>3, <2>2 DEF WalkOK, Start
<1>5. ASSUME NEW i \in 1 .. Len(list), i - 1 \in S PROVE i \in S
    BY <1>0, <1>3, <1>5, ScanStep
<1> HIDE DEF S
<1>6. Len(list) \in S
  <2>1. 0 .. Len(list) \subseteq S
      BY <1>0, <1>4, <1>5, Upwards
  <2> QED BY <1>0, <2>1
<1>7. WalkOK(list, Len(list), Walk(list))
    BY <1>2, <1>6 DEF S
<1>8. CASE Walk(list).found # None
  <2>1. GetFirstIpAddress(list) = Walk(list).found
      BY <1>8 DEF GetFirstIpAddress
  <2>2. First(list, Walk(list).found)
      BY <1>7, <1>8 DEF WalkOK
  <2> QED BY <2>1, <2>2 DEF First
<1>9. CASE Walk(list).found = None
  <2>1. GetFirstIpAddress(list) = Address(Walk(list).part)
      BY <1>9 DEF GetFirstIpAddress
  <2>2. PICK b \in 0 .. Len(list) : PartOK(list, b, Len(list), Walk(list).part)
      BY <1>7, <1>9 DEF WalkOK
  <2>3. /\ Address(Walk(list).part) # None => First(list, Address(Walk(list).part))
        /\ Address(Walk(list).part) = None => \A p \in Named(list) : p > Len(list)
      BY <1>0, <2>2, PartEnds
  <2>4. \A p \in Named(list) : p <= Len(list) /\ p \in Nat /\ list[p] # None
      BY LimiterAssumption DEF Named
  <2> QED BY <1>0, <2>1, <2>3, <2>4 DEF First
<1> QED BY <1>8, <1>9

-----------------------------------------------------------------------------
(* Whose request it is.                                                    *)

LEMMA Trusted ==
  ASSUME NEW peer \in Keys
  PROVE  IsProxyTrusted(peer) <=> ~(Proxies # {} /\ peer \notin Proxied)
<1>1. \A p \in Proxies : DOMAIN p = {"range"} <=> ~(DOMAIN p = {"text"})
    BY ClientsAssumption
<1>2. IsIpTrusted(peer) <=> peer \in Proxied
    BY <1>1 DEF IsIpTrusted, Proxied
<1> QED BY <1>2 DEF IsProxyTrusted

\* The key of a request is the address of its client: the peer, unless the peer is trusted and
\* names an address, whatever the headers say besides.
THEOREM RemoteTheorem ==
  ASSUME NEW peer \in Peers, NEW trueClient \in Headers, NEW forwarded \in Headers
  PROVE  /\ RemoteIP(peer, trueClient, forwarded) \in Keys
         /\ RemoteIP(peer, trueClient, forwarded) = ClientOf(peer, trueClient, forwarded)
<1>1. PICK list \in Seq(Words) : list = IF trueClient = <<>> THEN forwarded ELSE trueClient
    BY ClientsAssumption DEF Words
<1>2. RemoteIP(peer, trueClient, forwarded) =
        IF IsProxyTrusted(peer) /\ GetFirstIpAddress(list) # None
          THEN GetFirstIpAddress(list) ELSE peer
    BY <1>1 DEF RemoteIP
<1>3. ClientOf(peer, trueClient, forwarded) =
        IF (Proxies # {} /\ peer \notin Proxied) \/ Named(list) = {} THEN peer
        ELSE list[CHOOSE i \in Named(list) : \A j \in Named(list) : i <= j]
    BY <1>1 DEF ClientOf
<1>4. peer \in Keys
    BY ClientsAssumption
<1>5. IsProxyTrusted(peer) <=> ~(Proxies # {} /\ peer \notin Proxied)
    BY <1>4, Trusted
<1>6. CASE Named(list) = {}
    BY <1>2, <1>3, <1>4, <1>6, FirstAddressTheorem
<1>7. CASE Named(list) # {}
  <2> DEFINE Leading(i) == \A j \in Named(list) : i <= j
             first == CHOOSE i \in Named(list) : Leading(i)
  <2>1. PICK p \in Named(list) : GetFirstIpAddress(list) = list[p] /\ Leading(p)
      BY <1>7, FirstAddressTheorem DEF First
  <2>2. first \in Named(list) /\ Leading(first)
      BY <2>1
  <2>3. \A i \in Named(list) : i \in Nat /\ list[i] \in Keys
      BY DEF Named
  <2> HIDE DEF first
  <2>4. first = p
      BY <2>1, <2>2, <2>3
  <2>5. list[p] \in Keys /\ list[p] # None
      BY <2>3, LimiterAssumption
  <2>6. ClientOf(peer, trueClient, forwarded) =
          IF Proxies # {} /\ peer \notin Proxied THEN peer ELSE list[p]
      BY <1>3, <1>7, <2>4 DEF first
  <2> QED BY <1>2, <1>4, <1>5, <2>1, <2>5, <2>6
<1> QED BY <1>6, <1>7

-----------------------------------------------------------------------------
(* The clients.                                                            *)

\* A request is counted under its client, none before it has come.
OwnKey == \A r \in Requests : client[r] = key[r]

ClientsOK == /\ client \in [Requests -> Keys \cup {None}]
             /\ key \in [Requests -> Keys \cup {None}]
             /\ OwnKey

\* The steps are those of RateLimiter, where a request comes with its client.
LEMMA ClientsStep ==
  ASSUME ClientsOK, [ClientsNext]_<<vars, client>>
  PROVE  [Next]_vars /\ ClientsOK'
<1>1. [Next]_vars
  <2>1. \A call \in Calls : call.key \in Keys
      BY RemoteTheorem DEF Calls
  <2> QED BY <2>1 DEF ClientsNext, Call, Others, Next, vars
<1>2. CASE UNCHANGED <<vars, client>>
    BY <1>2 DEF ClientsOK, OwnKey, vars, local
<1>3. ASSUME NEW r \in Requests, Call(r)
      PROVE  ClientsOK'
  <2>1. PICK call \in Calls : /\ key' = [key EXCEPT ![r] = call.key]
                              /\ client' = [client EXCEPT ![r] = call.client]
      BY <1>3 DEF Call, Arrive
  <2>2. call.key \in Keys /\ call.client = call.key
      BY RemoteTheorem DEF Calls
  <2> QED BY <2>1, <2>2 DEF ClientsOK, OwnKey
<1>4. CASE Others
  <2>1. ASSUME NEW r \in Requests, Step(r) \/ StorageFails(r)
        PROVE  key' = key
      BY <2>1 DEF Step, StorageFails, Lock, Load, Count, Reload, Save, Refund, NextReturns
  <2>2. ASSUME Tick \/ AllEnded PROVE key' = key
      BY <2>2 DEF Tick, AllEnded, vars, local
  <2> QED BY <1>1, <1>4, <2>1, <2>2 DEF Others, ClientsOK, OwnKey
<1> QED BY <1>1, <1>2, <1>3, <1>4 DEF ClientsNext

LEMMA ClientsInvariance == ClientsSpec => Spec /\ []OwnKey
<1>1. ClientsInit => Init /\ IInv /\ ClientsOK
  <2> SUFFICES ASSUME ClientsInit PROVE Init /\ IInv /\ ClientsOK
      OBVIOUS
  <2>1. Init /\ IInv
      BY InitOK DEF ClientsInit
  <2> QED BY <2>1 DEF ClientsInit, Init, ClientsOK, OwnKey
<1>2. IInv /\ ClientsOK /\ [ClientsNext]_<<vars, client>> => [Next]_vars /\ IInv' /\ ClientsOK'
    BY ClientsStep, StepOK
<1>3. ClientsOK => OwnKey
    BY DEF ClientsOK
<1> QED BY <1>1, <1>2, <1>3, PTL DEF ClientsSpec, Spec

\* Where the storage is an external one that answers within the second, and
\* failed requests are not given their hit back: of one address, in one form, no
\* more requests than the limit go on in one window, and a client is limited
\* only when it has itself sent more, in the last three windows; for any list of
\* proxies, and whatever the headers say.
THEOREM ClientTheorem ==
  ASSUME External, Prompt, SkipFailed = FALSE PROVE ClientsSpec => []ClientLimit
<1>1. IInv /\ OwnKey /\ NoRefunds /\ WindowLimit /\ LimitedMeansRecent => ClientLimit
  <2> SUFFICES ASSUME IInv, OwnKey, NoRefunds, WindowLimit, LimitedMeansRecent,
                      NEW r \in Requests, counted[r] # 0
               PROVE  /\ Cardinality({q \in Own(r) : /\ counted[q] = counted[r]
                                                     /\ pc[q] \notin {"limited", "answered"}})
                           <= Limit
                      /\ pc[r] = "limited" => Cardinality(Own(r) \cap Recent(r, 3)) > Limit
      BY DEF ClientLimit
  <2>1. key[r] \in Keys
      BY DEF IInv, HistoryOK
  <2>2. {q \in Own(r) : counted[q] = counted[r] /\ pc[q] \notin {"limited", "answered"}}
          = {q \in Counted(key[r], counted[r]) :
               pc[q] \notin {"limited", "answered"} /\ refunded[q] = 0}
      BY DEF OwnKey, NoRefunds, Counted, Own
  <2>3. Own(r) \cap Recent(r, 3) = Recent(r, 3)
      BY DEF OwnKey, Own, Recent
  <2> QED BY <2>1, <2>2, <2>3 DEF WindowLimit, LimitedMeansRecent
<1> QED BY <1>1, ClientsInvariance, Invariance, NoRefundsInvariance, LimitTheorem,
           BusyTheorem, PTL

\* Where no address comes in two forms, the limit is one of clients, as it would
\* be if the keys were the text of the addresses.
THEOREM OneFormTheorem ==
  ASSUME SkipFailed = FALSE, \A a, b \in Keys : Text[a] = Text[b] => a = b
  PROVE  ClientsSpec => []OneLimitPerClient
<1>1. IInv /\ OwnKey /\ NoRefunds /\ WindowLimit => OneLimitPerClient
  <2> SUFFICES ASSUME IInv, OwnKey, NoRefunds, WindowLimit, NEW r \in Requests, counted[r] # 0
               PROVE  Cardinality({q \in OfClient(r) :
                        /\ counted[q] = counted[r]
                        /\ pc[q] \notin {"limited", "answered"}}) <= Limit
      BY DEF OneLimitPerClient
  <2>1. \A q \in Requests : counted[q] # 0 => client[q] \in Keys /\ client[q] # None
      BY LimiterAssumption DEF IInv, HistoryOK, OwnKey
  <2>2. {q \in OfClient(r) : counted[q] = counted[r] /\ pc[q] \notin {"limited", "answered"}}
          = {q \in Counted(key[r], counted[r]) :
               pc[q] \notin {"limited", "answered"} /\ refunded[q] = 0}
      BY <2>1 DEF OfClient, OwnKey, NoRefunds, Counted
  <2>3. key[r] \in Keys
      BY <2>1 DEF OwnKey
  <2> QED BY <2>2, <2>3 DEF WindowLimit
<1> QED BY <1>1, ClientsInvariance, Invariance, NoRefundsInvariance, LimitTheorem, PTL

=============================================================================
