-------------------------- MODULE EdgeGrantsProofs --------------------------
(***************************************************************************)
(* Who gets on the allow-list, for any connections, addresses, policies    *)
(* and times; in which order connections are read; and who is no longer    *)
(* served once the panel has disabled it (ClientSync).                     *)
(*                                                                         *)
(* That an answer authorises its asker rests on what Accept leaves of a    *)
(* header: a connection on which HTTP gets anywhere has either no header   *)
(* or a whole one, and then its source is the client, or the router when   *)
(* the header names nobody.  Every change of the maps is one that EdgeAuth *)
(* knows, so that what is proved of EdgeAuth alone holds of the            *)
(* composition.                                                            *)
(***************************************************************************)
EXTENDS EdgeGrants, SequenceTheorems, TLAPS

-----------------------------------------------------------------------------
(* The allow-list.                                                          *)

LEMMA WithDomain ==
  ASSUME NEW f, NEW k, NEW v
  PROVE  DOMAIN With(f, k, v) = DOMAIN f \cup {k}
BY DEF With

LEMMA OnlyDomain ==
  ASSUME NEW f, NEW K
  PROVE  DOMAIN Only(f, K) = DOMAIN f \cap K
BY DEF Only

\* The maps after what a handler does, an unpinning and a collection.
LEMMA UseDomains ==
  ASSUME NEW ip, Uses(ip)
  PROVE  /\ DOMAIN allowed' = DOMAIN allowed \cup {ip}
         /\ DOMAIN mapped' \subseteq DOMAIN mapped \cup {ip}
<1>1. CASE \E d \in Domains : ResolvedToEdge(ip, d)
  <2>1. PICK v, w : allowed' = With(allowed, ip, v) /\ mapped' = With(mapped, ip, w)
    BY <1>1 DEF ResolvedToEdge
  <2>2. DOMAIN allowed' = DOMAIN allowed \cup {ip}
    BY <2>1, WithDomain
  <2>3. DOMAIN mapped' = DOMAIN mapped \cup {ip}
    BY <2>1, WithDomain
  <2> QED BY <2>2, <2>3
<1>2. CASE DotConnected(ip)
  BY <1>2, WithDomain DEF DotConnected
<1>3. CASE \E perm \in BOOLEAN, ttl \in PanelTTLs \cup {AuthTTL} :
             PostPin(ip, perm, ttl) \/ \E d \in Domains : PostPinWithDomain(ip, perm, ttl, d)
  <2>1. PICK v : allowed' = With(allowed, ip, v)
    BY <1>3 DEF PostPin, PostPinWithDomain
  <2>2. DOMAIN allowed' = DOMAIN allowed \cup {ip}
    BY <2>1, WithDomain
  <2>3. mapped' = mapped \/ \E w : mapped' = With(mapped, ip, w)
    BY <1>3 DEF PostPin, PostPinWithDomain
  <2>4. ASSUME NEW w, mapped' = With(mapped, ip, w) PROVE DOMAIN mapped' = DOMAIN mapped \cup {ip}
    BY <2>4, WithDomain
  <2> QED BY <2>2, <2>3, <2>4
<1>4. CASE Authorised(ip)
  BY <1>4 DEF Authorised, Usable
<1> QED BY <1>1, <1>2, <1>3, <1>4 DEF Uses

LEMMA CollectDomains ==
  ASSUME Collect
  PROVE  DOMAIN mapped' \subseteq DOMAIN allowed'
<1> DEFINE kept == Only(allowed, {ip \in DOMAIN allowed : ~Collected(allowed[ip])})
           M == {ip \in DOMAIN mapped : ~MapCollected(kept, ip)}
<1>1. allowed' = kept /\ mapped' = Only(mapped, M)
  BY DEF Collect
<1>2. M \subseteq DOMAIN kept
  BY DEF MapCollected
<1> HIDE DEF kept, M
<1> QED BY <1>1, <1>2, OnlyDomain

LEMMA MapsStep ==
  ASSUME MappedAreAllowed, [Next]_vars
  PROVE  MappedAreAllowed'
<1>1. CASE \E ip \in IPs : Uses(ip)
  BY <1>1, UseDomains DEF MappedAreAllowed
<1>2. CASE \E ip \in IPs : Unpin(ip)
  <2>1. PICK ip \in IPs : /\ allowed' = Only(allowed, IPs \ {ip})
                          /\ mapped' = Only(mapped, IPs \ {ip})
    BY <1>2 DEF Unpin
  <2>2. /\ DOMAIN allowed' = DOMAIN allowed \cap (IPs \ {ip})
        /\ DOMAIN mapped' = DOMAIN mapped \cap (IPs \ {ip})
    BY <2>1, OnlyDomain
  <2> QED BY <2>2 DEF MappedAreAllowed
<1>3. CASE Collect
  BY <1>3, CollectDomains DEF MappedAreAllowed
<1>4. CASE Tick
  BY <1>4 DEF MappedAreAllowed, Tick
<1>5. CASE UNCHANGED vars
  BY <1>5 DEF MappedAreAllowed, vars
<1> QED BY <1>1, <1>2, <1>3, <1>4, <1>5 DEF Next

\* An address has names in the map only while it is allowed.
THEOREM MapsAgree == Spec => []MappedAreAllowed
<1>1. Init => MappedAreAllowed
  BY DEF Init, MappedAreAllowed
<1> QED BY <1>1, MapsStep, PTL DEF Spec

-----------------------------------------------------------------------------
(* The collector.                                                           *)

Entry == [perm : BOOLEAN, left : Int, seen : BOOLEAN, idle : 0..IdleCap]

\* A permanent entry is collected for being idle only if it was ever seen.
WithinReach ==
  \A ip \in DOMAIN allowed :
    allowed[ip] \in Entry /\ (allowed[ip].perm => allowed[ip].seen)

\* An entry whose time is over and whose idle time cannot grow any more is one
\* the collector takes.
AgedIsCollected ==
  Inactivity >= 0 =>
    \A ip \in DOMAIN allowed :
      allowed[ip].left < 0 /\ allowed[ip].idle = IdleCap => Collected(allowed[ip])

LEMMA TimesFacts ==
  /\ Inactivity \in Int /\ IdleCap \in Nat /\ (Inactivity >= 0 => IdleCap = Inactivity + 1)
  /\ Expired \in Int /\ AuthTTL \in Int /\ \A t \in PanelTTLs : t \in Int
<1>1. Inactivity \in Int
  BY AuthAssumption DEF Inactivity
<1>2. IdleCap \in Nat /\ (Inactivity >= 0 => IdleCap = Inactivity + 1)
  <2> HIDE DEF Inactivity
  <2> QED BY <1>1 DEF IdleCap
<1> QED BY <1>1, <1>2, AuthAssumption DEF Expired

\* An entry that is put beside the others, within the collector's reach.
LEMMA WithReach ==
  ASSUME WithinReach, NEW ip, NEW v \in Entry, v.perm => v.seen, allowed' = With(allowed, ip, v)
  PROVE  WithinReach'
BY DEF WithinReach, With, Entry

LEMMA OnlyReach ==
  ASSUME WithinReach, NEW K, allowed' = Only(allowed, K)
  PROVE  WithinReach'
BY DEF WithinReach, Only, Entry

LEMMA UseReach ==
  ASSUME WithinReach, NEW ip, Uses(ip)
  PROVE  WithinReach'
<1>1. ASSUME NEW perm \in BOOLEAN, NEW left \in Int, NEW seen \in BOOLEAN
      PROVE  [perm |-> perm, left |-> left, seen |-> seen, idle |-> 0] \in Entry
  BY TimesFacts DEF Entry
<1>2. CASE (\E d \in Domains : ResolvedToEdge(ip, d)) \/ DotConnected(ip)
  <2>1. PICK seen \in BOOLEAN :
          allowed' =
            With(allowed, ip, [perm |-> FALSE, left |-> AuthTTL, seen |-> seen, idle |-> 0])
    BY <1>2 DEF ResolvedToEdge, DotConnected
  <2> QED BY <1>1, <2>1, WithReach, TimesFacts
<1>3. CASE \E perm \in BOOLEAN, ttl \in PanelTTLs \cup {AuthTTL} :
             PostPin(ip, perm, ttl) \/ \E d \in Domains : PostPinWithDomain(ip, perm, ttl, d)
  <2>1. PICK perm \in BOOLEAN, ttl \in PanelTTLs \cup {AuthTTL} :
          allowed' = With(allowed, ip, Pinned(perm, ttl))
    BY <1>3 DEF PostPin, PostPinWithDomain
  <2>2. Until(perm, ttl) \in Int
    BY TimesFacts DEF Until
  <2>3. Pinned(perm, ttl) \in Entry /\ Pinned(perm, ttl).seen
    BY <1>1, <2>2 DEF Pinned
  <2> QED BY <2>1, <2>3, WithReach
<1>4. CASE Authorised(ip)
  <2>1. allowed' = [allowed EXCEPT ![ip].seen = TRUE, ![ip].idle = 0] /\ 0 \in 0..IdleCap
    <3>1. 0 \in 0..IdleCap
      BY TimesFacts
    <3> QED BY <1>4, <3>1 DEF Authorised
  <2> QED BY <2>1 DEF WithinReach, Entry
<1> QED BY <1>2, <1>3, <1>4 DEF Uses

LEMMA TickReach ==
  ASSUME WithinReach, Tick
  PROVE  WithinReach'
<1> DEFINE Older(a) == [a EXCEPT !.left = Earlier(@), !.idle = IF @ < IdleCap THEN @ + 1 ELSE @]
<1>1. ASSUME NEW a \in Entry
      PROVE  Older(a) \in Entry /\ Older(a).perm = a.perm /\ Older(a).seen = a.seen
  <2>1. a.left \in Int /\ a.idle \in 0..IdleCap /\ IdleCap \in Nat
    BY TimesFacts DEF Entry
  <2>2. Earlier(a.left) \in Int /\ (IF a.idle < IdleCap THEN a.idle + 1 ELSE a.idle) \in 0..IdleCap
    BY <2>1 DEF Earlier
  <2> QED BY <2>2 DEF Entry
<1>2. allowed' = [ip \in DOMAIN allowed |-> Older(allowed[ip])]
  BY DEF Tick
<1> HIDE DEF Older
<1> QED BY <1>1, <1>2 DEF WithinReach

\* No entry of the allow-list is out of the collector's reach: whoever put it
\* there, once it has expired and idled for the window it is collected (cleanup,
\* and the lastSeen that a pin sets).
THEOREM NothingOutOfReach == Spec => []AgedIsCollected
<1>1. Init => WithinReach
  BY DEF Init, WithinReach
<1>2. WithinReach /\ [Next]_vars => WithinReach'
  <2>1. WithinReach /\ (\E ip \in IPs : Uses(ip)) => WithinReach'
    BY UseReach
  <2>2. WithinReach /\ (\E ip \in IPs : Unpin(ip)) => WithinReach'
    BY OnlyReach DEF Unpin
  <2>3. WithinReach /\ Collect => WithinReach'
    BY OnlyReach DEF Collect
  <2>4. WithinReach /\ UNCHANGED vars => WithinReach'
    BY DEF vars, WithinReach
  <2> QED BY <2>1, <2>2, <2>3, <2>4, TickReach DEF Next
<1>3. WithinReach => AgedIsCollected
  <2> SUFFICES ASSUME WithinReach, Inactivity >= 0, NEW ip \in DOMAIN allowed,
                      allowed[ip].left < 0, allowed[ip].idle = IdleCap
               PROVE  Collected(allowed[ip])
    BY DEF AgedIsCollected
  <2>1. IdleCap > Inactivity
    BY TimesFacts
  <2> QED BY <2>1 DEF WithinReach, Collected
<1> QED BY <1>1, <1>2, <1>3, PTL DEF Spec

-----------------------------------------------------------------------------
(* Connections.                                                             *)

Connection == [pc : {"away", "backlog", "header", "open", "closed"}, kind : P!Kinds,
               read : 0..3, source : IPs, dirty : BOOLEAN]

\* Whose address a connection that begins like this should have: its client's, save
\* where the header in front of it names nobody.
Announced(kind, c) == IF kind \in {"local", "v2other"} THEN Router ELSE Client[c]

\* HTTP gets somewhere only where the source is the announced one.
SourceKnown == \A c \in Conns : P!Readable(c) => conn[c].source = Announced(conn[c].kind, c)

GrantsInv == conn \in [Conns -> Connection] /\ SourceKnown

LEMMA ConnFacts ==
  /\ Client \in [Conns -> IPs] /\ Router \in IPs /\ P!Away \in Connection
  /\ P!Away.pc = "away"
  /\ P!Kinds = {"named", "v2other", "local", "unknown", "plain"}
  /\ P!Few = 1 /\ P!Recognised = 2 /\ P!Whole = 3
BY GrantsAssumption DEF P!Away, Connection, P!Kinds, P!Few, P!Recognised, P!Whole

\* A step of one connection that leaves it unreadable.
LEMMA ConnStep ==
  ASSUME GrantsInv, NEW c \in Conns, NEW r \in Connection, conn' = [conn EXCEPT ![c] = r],
         r.pc = "open" /\ ~r.dirty => r.source = Announced(r.kind, c)
  PROVE  conn' \in [Conns -> Connection] /\ SourceKnown'
<1>1. conn \in [Conns -> Connection] /\ SourceKnown
  BY DEF GrantsInv
<1> QED BY <1>1 DEF SourceKnown, P!Readable

LEMMA OtherEndOK ==
  ASSUME GrantsInv, NEW c \in Conns, P!OtherEnd(c)
  PROVE  conn' \in [Conns -> Connection] /\ SourceKnown'
<1>0. conn \in [Conns -> Connection] /\ conn[c] \in Connection /\ SourceKnown
  BY DEF GrantsInv
<1>1. CASE P!Connect(c)
  <2>1. PICK k \in P!Kinds : conn' = [conn EXCEPT ![c].pc = "backlog", ![c].kind = k]
    BY <1>1 DEF P!Connect
  <2> DEFINE r == [conn[c] EXCEPT !.pc = "backlog", !.kind = k]
  <2>2. conn' = [conn EXCEPT ![c] = r]
    BY <1>0, <2>1
  <2>3. r \in Connection /\ r.pc = "backlog"
    BY <1>0 DEF Connection
  <2> HIDE DEF r
  <2> QED BY <2>2, <2>3, ConnStep
<1>2. CASE P!Arrive(c)
  <2>1. PICK n \in (conn[c].read + 1)..P!Whole : conn' = [conn EXCEPT ![c].read = n]
    BY <1>2 DEF P!Arrive
  <2>2. n \in 0..3
    BY <1>0, ConnFacts DEF Connection
  <2> DEFINE r == [conn[c] EXCEPT !.read = n]
  <2>3. conn' = [conn EXCEPT ![c] = r]
    BY <1>0, <2>1
  <2>4. /\ r \in Connection /\ r.pc = conn[c].pc /\ r.kind = conn[c].kind
        /\ r.dirty = conn[c].dirty /\ r.source = conn[c].source
    BY <1>0, <2>2 DEF Connection
  <2> HIDE DEF r
  <2> QED BY <1>0, <2>3, <2>4, ConnStep DEF SourceKnown, P!Readable
<1>3. CASE P!Leave(c)
  <2>1. conn' = [conn EXCEPT ![c] = P!Away]
    BY <1>3 DEF P!Leave
  <2> QED BY <2>1, ConnFacts, ConnStep
<1> QED BY <1>1, <1>2, <1>3 DEF P!OtherEnd

\* A connection handed to http.Server: with the announced address, or with bytes
\* of a header before TLS.
LEMMA AcceptedOK ==
  ASSUME GrantsInv, NEW c \in Conns, NEW source \in IPs, NEW dirty \in BOOLEAN,
         P!Accepted(c, source, dirty),
         ~dirty => source = Announced(conn[c].kind, c)
  PROVE  conn' \in [Conns -> Connection] /\ SourceKnown'
<1>0. conn[c].kind \in P!Kinds
  BY DEF GrantsInv, Connection
<1> DEFINE r == [P!Away EXCEPT !.pc = "open", !.kind = conn[c].kind,
                               !.source = source, !.dirty = dirty]
<1>1. conn' = [conn EXCEPT ![c] = r]
  BY DEF P!Accepted
<1>2. r \in Connection /\ r.kind = conn[c].kind /\ r.dirty = dirty /\ r.source = source
  BY <1>0, ConnFacts DEF Connection, P!Away
<1> HIDE DEF r
<1> QED BY <1>1, <1>2, ConnStep

\* The listener ended.
LEMMA AcceptFailsOK ==
  ASSUME GrantsInv, NEW c \in Conns, P!AcceptFails(c)
  PROVE  conn' \in [Conns -> Connection] /\ SourceKnown'
<1> DEFINE r == [P!Away EXCEPT !.pc = "closed"]
<1>1. conn' = [d \in Conns |-> IF d = c \/ conn[d].pc = "backlog" THEN r ELSE conn[d]]
  BY DEF P!AcceptFails
<1>2. r \in Connection /\ r.pc = "closed"
  BY ConnFacts DEF Connection, P!Away
<1> HIDE DEF r
<1>3. conn \in [Conns -> Connection] /\ SourceKnown
  BY DEF GrantsInv
<1> QED BY <1>1, <1>2, <1>3 DEF SourceKnown, P!Readable

LEMMA AcceptStepOK ==
  ASSUME GrantsInv, NEW c \in Conns, P!AcceptStep(c)
  PROVE  conn' \in [Conns -> Connection] /\ SourceKnown'
<1>0. conn \in [Conns -> Connection] /\ conn[c] \in Connection /\ conn[c].kind \in P!Kinds
  BY DEF GrantsInv, Connection
<1>1. CASE P!Accept(c)
  <2> DEFINE r == [conn[c] EXCEPT !.pc = "header"]
  <2>1. conn' = [conn EXCEPT ![c] = r]
    BY <1>0, <1>1 DEF P!Accept
  <2>2. r \in Connection /\ r.pc = "header"
    BY <1>0 DEF Connection
  <2> HIDE DEF r
  <2> QED BY <2>1, <2>2, ConnStep
<1>2. CASE P!HeaderWhole(c)
  <2>1. CASE conn[c].kind = "unknown"
    BY <1>2, <2>1, AcceptFailsOK DEF P!HeaderWhole
  <2>2. CASE conn[c].kind # "unknown"
    <3>1. P!Accepted(c, P!Source(c), FALSE)
      BY <1>2, <2>2 DEF P!HeaderWhole
    <3>2. P!Source(c) \in IPs /\ P!Source(c) = Announced(conn[c].kind, c)
      BY <1>0, <2>2, ConnFacts DEF P!Source, P!Peer, P!Forwarded, Announced
    <3> QED BY <3>1, <3>2, AcceptedOK
  <2> QED BY <2>1, <2>2
<1>3. CASE P!HeaderCut(c)
  <2>1. CASE conn[c].read = P!Recognised /\ P!Forwarded(c)
    BY <1>3, <2>1, AcceptFailsOK DEF P!HeaderCut
  <2>2. CASE ~ (conn[c].read = P!Recognised /\ P!Forwarded(c))
    <3>1. P!Accepted(c, P!Peer(c), P!Forwarded(c))
      BY <1>3, <2>2 DEF P!HeaderCut
    <3>2. /\ P!Peer(c) \in IPs /\ P!Forwarded(c) \in BOOLEAN
          /\ ~P!Forwarded(c) => P!Peer(c) = Announced(conn[c].kind, c)
      BY <1>0, ConnFacts DEF P!Peer, P!Forwarded, Announced
    <3> QED BY <3>1, <3>2, AcceptedOK
  <2> QED BY <2>1, <2>2
<1> QED BY <1>1, <1>2, <1>3 DEF P!AcceptStep

\* The inductive invariant of the listener: a connection that carries requests has
\* its client's address, or the router's where the header names nobody, and with no
\* header, a late one or a part of one never another's (parseProxyHeader, Accept).
THEOREM GrantsInvariant == FairGrants => []GrantsInv
<1>1. GrantsInit => GrantsInv
  <2> SUFFICES ASSUME GrantsInit PROVE GrantsInv
    OBVIOUS
  <2>1. conn = [c \in Conns |-> P!Away]
    BY DEF GrantsInit, P!AcceptInit
  <2>2. \A c \in Conns : conn[c].pc = "away"
    BY <2>1, ConnFacts
  <2> QED BY <2>1, <2>2, ConnFacts DEF GrantsInv, SourceKnown, P!Readable
<1>2. GrantsInv /\ [GrantsNext]_grantsVars => GrantsInv'
  <2> SUFFICES ASSUME GrantsInv, [GrantsNext]_grantsVars PROVE GrantsInv'
    OBVIOUS
  <2>1. ASSUME NEW c \in Conns, Listen(c) PROVE GrantsInv'
    BY <2>1, AcceptStepOK, OtherEndOK DEF Listen, GrantsInv
  <2>2. ASSUME UNCHANGED conn PROVE GrantsInv'
    BY <2>2 DEF GrantsInv, SourceKnown, P!Readable
  <2>3. \/ \E c \in Conns : \E forwarded, real \in Named \cup {NoAddress} : Ask(c, forwarded, real)
        \/ (\E ip \in Named : Elsewhere(ip)) \/ Background \/ UNCHANGED grantsVars
        => UNCHANGED conn
    BY DEF Ask, Elsewhere, Background, grantsVars
  <2> QED BY <2>1, <2>2, <2>3 DEF GrantsNext
<1> QED BY <1>1, <1>2, PTL DEF FairGrants

LEMMA AskGrants ==
  ASSUME GrantsInv, NEW c \in Conns, Ask(c, NoAddress, NoAddress), NEW ip \in IPs, Changed(ip)
  PROVE  ip = IF conn[c].kind = "v2other" THEN Router ELSE Client[c]
<1>1. P!Readable(c) /\ conn[c].kind # "local"
  BY DEF Ask
<1>2. conn[c].source = IF conn[c].kind = "v2other" THEN Router ELSE Client[c]
  BY <1>1 DEF GrantsInv, SourceKnown, Announced
<1>3. PICK v : UNCHANGED allowed \/ allowed' = With(allowed, conn[c].source, v)
  BY DEF Ask, requestClientIP, ResolvedToEdge, maps, vars
<1>4. ip # conn[c].source => ~Changed(ip)
  BY <1>3 DEF Changed, With
<1> QED BY <1>2, <1>4

\* A question over DoH whose request names no address puts the address of the
\* client that asked it on the allow-list, and no other, for any number of
\* connections and clients and any header or part of one; where the header names
\* nobody, the router's (parseProxyHeader, Accept and the remember of resolve).
THEOREM OnlyAskersGranted == FairGrants => GrantedToAsker
<1>1. GrantsInv /\ [GrantsNext]_grantsVars =>
        [\A c \in Conns : Ask(c, NoAddress, NoAddress) =>
           \A ip \in IPs : Changed(ip) =>
             ip = IF conn[c].kind = "v2other" THEN Router ELSE Client[c]]_grantsVars
  BY AskGrants
<1> QED BY <1>1, GrantsInvariant, PTL DEF FairGrants, GrantedToAsker

\* To the allow-list, the listener, the policy, the panel and DNS over TLS are the
\* handlers of EdgeAuth.
THEOREM ImplementsAuth == FairGrants => Spec
<1>1. GrantsInit => Init
  BY DEF GrantsInit
<1>2. GrantsInv /\ [GrantsNext]_grantsVars => [Next]_vars
  <2> SUFFICES ASSUME GrantsInv, [GrantsNext]_grantsVars PROVE [Next]_vars
    OBVIOUS
  <2>1. ASSUME NEW c \in Conns, NEW forwarded \in Named \cup {NoAddress},
               NEW real \in Named \cup {NoAddress}, Ask(c, forwarded, real)
        PROVE  [Next]_vars
    <3> DEFINE ip == requestClientIP(c, forwarded, real)
    <3>1. ip \in IPs
      BY GrantsAssumption DEF GrantsInv, Connection, requestClientIP
    <3>2. UNCHANGED vars \/ \E d \in Domains : ResolvedToEdge(ip, d)
      BY <2>1 DEF Ask, maps
    <3> HIDE DEF ip
    <3> QED BY <3>1, <3>2 DEF Next, Uses
  <2>2. ASSUME NEW ip \in Named, Elsewhere(ip) PROVE Next
    <3>1. ip \in IPs
      BY <2>2, GrantsAssumption
    <3>2. Uses(ip) \/ Unpin(ip)
      BY <2>2 DEF Elsewhere, Uses
    <3> QED BY <3>1, <3>2 DEF Next
  <2>3. Background => Next
    BY DEF Background, Next
  <2>4. UNCHANGED grantsVars \/ (\E c \in Conns : Listen(c)) => UNCHANGED vars
    BY DEF grantsVars, Listen, maps
  <2> QED BY <2>1, <2>2, <2>3, <2>4 DEF GrantsNext
<1> QED BY <1>1, <1>2, GrantsInvariant, PTL DEF FairGrants, Spec

\* A name is on record only for an address on the allow-list, whichever of DoH,
\* DoT, the panel and the collector wrote last (edgeUDPMap and edgeAllowedIPs).
THEOREM NamesOnlyOfAllowed == FairGrants => []MappedAreAllowed
BY ImplementsAuth, MapsAgree

-----------------------------------------------------------------------------
(* The accept loop: what of AcceptGoesOn needs no fairness.                 *)

\* The listener waits on the header of one connection at most, and the backlog holds
\* those that wait, each once, until the listener ends.
AcceptInv ==
  /\ backlog \in Seq(Conns) /\ reading \in Conns \cup {"none", "stopped"}
  /\ \A c \in Conns : conn[c].pc = "header" <=> reading = c
  /\ \A c \in Conns : conn[c].pc = "backlog" <=> \E i \in 1..Len(backlog) : backlog[i] = c
  /\ \A i, j \in 1..Len(backlog) : backlog[i] = backlog[j] => i = j
  /\ reading = "stopped" => backlog = <<>>

\* Connections that are no names of a state of the listener.
Told == "none" \notin Conns /\ "stopped" \notin Conns

\* What a step does to the listener and to where each connection stands.
Joins(c) ==
  /\ conn[c].pc = "away" /\ reading # "stopped"
  /\ \A d \in Conns : conn'[d].pc = IF d = c THEN "backlog" ELSE conn[d].pc
  /\ backlog' = Append(backlog, c) /\ reading' = reading

Apart(c) ==
  /\ \A d \in Conns : d # c => conn'[d].pc = conn[d].pc
  /\ conn'[c].pc = conn[c].pc \/ (conn[c].pc \in {"open", "closed"} /\ conn'[c].pc = "away")
  /\ backlog' = backlog /\ reading' = reading

Taken(c) ==
  /\ reading = "none" /\ backlog # <<>> /\ c = Head(backlog)
  /\ \A d \in Conns : conn'[d].pc = IF d = c THEN "header" ELSE conn[d].pc
  /\ backlog' = Tail(backlog) /\ reading' = c

Handed(c) ==
  /\ reading = c
  /\ \A d \in Conns : conn'[d].pc = IF d = c THEN "open" ELSE conn[d].pc
  /\ backlog' = backlog /\ reading' = "none"

Stopped(c) ==
  /\ reading = c
  /\ \A d \in Conns : conn'[d].pc = IF d = c \/ conn[d].pc = "backlog" THEN "closed"
                                   ELSE conn[d].pc
  /\ backlog' = <<>> /\ reading' = "stopped"

LEMMA ListenMoves ==
  ASSUME GrantsInv, NEW c \in Conns, P!AcceptStep(c) \/ P!OtherEnd(c)
  PROVE  Joins(c) \/ Apart(c) \/ Taken(c) \/ Handed(c) \/ Stopped(c)
<1>1. conn \in [Conns -> Connection] /\ conn[c] \in Connection
  BY DEF GrantsInv
<1>2. ASSUME NEW r, conn' = [conn EXCEPT ![c] = r]
      PROVE  \A d \in Conns : conn'[d].pc = IF d = c THEN r.pc ELSE conn[d].pc
  BY <1>1, <1>2
<1>3. CASE P!Connect(c)
  <2>1. PICK k \in P!Kinds : conn' = [conn EXCEPT ![c].pc = "backlog", ![c].kind = k]
    BY <1>3 DEF P!Connect
  <2> DEFINE r == [conn[c] EXCEPT !.pc = "backlog", !.kind = k]
  <2>2. conn' = [conn EXCEPT ![c] = r] /\ r.pc = "backlog"
    BY <1>1, <2>1 DEF Connection
  <2> HIDE DEF r
  <2>3. /\ conn[c].pc = "away" /\ reading # "stopped"
        /\ backlog' = Append(backlog, c) /\ reading' = reading
    BY <1>3 DEF P!Connect
  <2>4. \A d \in Conns : conn'[d].pc = IF d = c THEN "backlog" ELSE conn[d].pc
    BY <1>2, <2>2
  <2>5. Joins(c)
    BY <2>3, <2>4 DEF Joins
  <2> QED BY <2>5
<1>4. CASE P!Arrive(c)
  <2>1. ASSUME NEW r, conn' = [conn EXCEPT ![c] = r], r.pc = conn[c].pc
        PROVE  Apart(c)
    BY <1>2, <1>4, <2>1 DEF P!Arrive, Apart
  <2>2. PICK n \in (conn[c].read + 1)..P!Whole : conn' = [conn EXCEPT ![c].read = n]
    BY <1>4 DEF P!Arrive
  <2> DEFINE r == [conn[c] EXCEPT !.read = n]
  <2>3. conn' = [conn EXCEPT ![c] = r] /\ r.pc = conn[c].pc
    BY <1>1, <2>2 DEF Connection
  <2> HIDE DEF r
  <2> QED BY <2>1, <2>3
<1>5. CASE P!Leave(c)
  <2>1. conn' = [conn EXCEPT ![c] = P!Away] /\ UNCHANGED <<backlog, reading>>
    BY <1>5 DEF P!Leave
  <2> QED BY <1>2, <1>5, <2>1, ConnFacts DEF P!Leave, Apart
<1>6. CASE P!Accept(c)
  <2> DEFINE r == [conn[c] EXCEPT !.pc = "header"]
  <2>1. conn' = [conn EXCEPT ![c] = r] /\ r.pc = "header"
    BY <1>1, <1>6 DEF P!Accept, Connection
  <2> HIDE DEF r
  <2> QED BY <1>2, <1>6, <2>1 DEF P!Accept, Taken
<1>7. ASSUME NEW source, NEW dirty, reading = c, P!Accepted(c, source, dirty)
      PROVE  Handed(c)
  <2> DEFINE r == [P!Away EXCEPT !.pc = "open", !.kind = conn[c].kind,
                                 !.source = source, !.dirty = dirty]
  <2>1. conn' = [conn EXCEPT ![c] = r] /\ r.pc = "open"
    BY <1>7 DEF P!Accepted, P!Away
  <2> HIDE DEF r
  <2> QED BY <1>2, <1>7, <2>1 DEF P!Accepted, Handed
<1>8. ASSUME reading = c, P!AcceptFails(c) PROVE Stopped(c)
  BY <1>8 DEF P!AcceptFails, P!Away, Stopped
<1>9. CASE P!HeaderWhole(c) \/ P!HeaderCut(c)
  BY <1>7, <1>8, <1>9 DEF P!HeaderWhole, P!HeaderCut
<1> QED BY <1>3, <1>4, <1>5, <1>6, <1>9 DEF P!AcceptStep, P!OtherEnd

\* Nobody is passed over: a place in the backlog is kept or moves up by one, the first
\* one is the next to be read, and only the end of the listener empties it.
InTurn ==
  \A i \in 1..Len(backlog) :
    \/ reading' = "stopped"
    \/ i = 1 /\ reading = "none" /\ reading' = backlog[1]
    \/ i \in 1..Len(backlog') /\ backlog'[i] = backlog[i]
    \/ /\ i > 1 /\ i - 1 \in 1..Len(backlog') /\ backlog'[i - 1] = backlog[i]
       /\ reading = "none" /\ reading' = backlog[1]

LEMMA JoinsInTurn ==
  ASSUME AcceptInv, Told, NEW c \in Conns, Joins(c) PROVE AcceptInv' /\ InTurn
<1> DEFINE n == Len(backlog)
<1>1. /\ backlog' \in Seq(Conns) /\ Len(backlog') = n + 1 /\ n \in Nat
      /\ \A i \in 1..n : backlog'[i] = backlog[i] /\ backlog'[i] \in Conns
      /\ backlog'[n + 1] = c
  BY AppendProperties DEF AcceptInv, Joins
<1>2. \A i \in 1..n : backlog[i] # c
  BY <1>1 DEF AcceptInv, Joins
<1>3. \A i \in 1..(n + 1) : i \in 1..n \/ i = n + 1
  BY <1>1
<1> HIDE DEF n
<1>4. \A i, j \in 1..Len(backlog') : backlog'[i] = backlog'[j] => i = j
  <2>1. \A i, j \in 1..n : backlog[i] = backlog[j] => i = j
    BY DEF AcceptInv, n
  <2> QED BY <1>1, <1>2, <1>3, <2>1
<1>5. ASSUME NEW d \in Conns
      PROVE  conn'[d].pc = "backlog" <=> \E i \in 1..Len(backlog') : backlog'[i] = d
  <2>1. conn[d].pc = "backlog" <=> \E i \in 1..n : backlog[i] = d
    BY DEF AcceptInv, n
  <2>2. (\E i \in 1..Len(backlog') : backlog'[i] = d) <=> d = c \/ \E i \in 1..n : backlog[i] = d
    BY <1>1, <1>3
  <2> QED BY <2>1, <2>2 DEF Joins
<1>6. \A d \in Conns : conn'[d].pc = "header" <=> reading' = d
  BY DEF AcceptInv, Joins
<1>7. reading' \in Conns \cup {"none", "stopped"} /\ reading' # "stopped"
  BY DEF AcceptInv, Joins
<1>8. InTurn
  BY <1>1 DEF InTurn, n
<1> QED BY <1>1, <1>4, <1>5, <1>6, <1>7, <1>8 DEF AcceptInv

LEMMA TakenInTurn ==
  ASSUME AcceptInv, Told, NEW c \in Conns, Taken(c) PROVE AcceptInv' /\ InTurn
<1> DEFINE n == Len(backlog)
<1>1. /\ backlog' \in Seq(Conns) /\ Len(backlog') = n - 1 /\ n \in Nat /\ n >= 1
      /\ \A i \in 1..(n - 1) : backlog'[i] = backlog[i + 1]
      /\ backlog[1] = c
  BY HeadTailProperties, EmptySeq DEF AcceptInv, Taken
<1>2. \A i, j \in 1..n : backlog[i] = backlog[j] => i = j
  BY DEF AcceptInv
<1> HIDE DEF n
<1>3. \A i, j \in 1..Len(backlog') : backlog'[i] = backlog'[j] => i = j
  <2> SUFFICES ASSUME NEW i \in 1..(n - 1), NEW j \in 1..(n - 1), backlog[i + 1] = backlog[j + 1]
               PROVE  i = j
    BY <1>1
  <2>1. i + 1 \in 1..n /\ j + 1 \in 1..n
    BY <1>1
  <2>2. i + 1 = j + 1
    BY <1>2, <2>1
  <2> QED BY <2>2
<1>4. ASSUME NEW d \in Conns
      PROVE  conn'[d].pc = "backlog" <=> \E i \in 1..Len(backlog') : backlog'[i] = d
  <2>1. conn[d].pc = "backlog" <=> \E i \in 1..n : backlog[i] = d
    BY DEF AcceptInv, n
  <2>2. ASSUME NEW i \in 1..n, backlog[i] = d, d # c PROVE \E j \in 1..(n - 1) : backlog'[j] = d
    <3>1. i - 1 \in 1..(n - 1) /\ (i - 1) + 1 = i
      BY <1>1, <2>2
    <3> QED BY <1>1, <2>2, <3>1
  <2>3. ASSUME NEW j \in 1..(n - 1), backlog'[j] = d
        PROVE  d # c /\ \E i \in 1..n : backlog[i] = d
    <3>1. j + 1 \in 1..n /\ 1 \in 1..n /\ j + 1 # 1 /\ backlog[j + 1] = d
      BY <1>1, <2>3
    <3> QED BY <1>1, <1>2, <3>1
  <2> QED BY <1>1, <2>1, <2>2, <2>3 DEF Taken
<1>5. \A d \in Conns : conn'[d].pc = "header" <=> reading' = d
  BY DEF AcceptInv, Taken, Told
<1>6. reading' \in Conns /\ reading' # "stopped"
  BY DEF Taken, Told
<1>7. InTurn
  <2> SUFFICES ASSUME NEW i \in 1..n
               PROVE  \/ i = 1 /\ reading = "none" /\ reading' = backlog[1]
                      \/ /\ i > 1 /\ i - 1 \in 1..Len(backlog') /\ backlog'[i - 1] = backlog[i]
                         /\ reading = "none" /\ reading' = backlog[1]
    BY DEF InTurn, n
  <2>1. CASE i = 1
    BY <1>1, <2>1 DEF Taken
  <2>2. CASE i # 1
    <3>1. i > 1 /\ i - 1 \in 1..(n - 1) /\ (i - 1) + 1 = i
      BY <1>1, <2>2
    <3>2. backlog'[i - 1] = backlog[i]
      BY <1>1, <3>1
    <3> QED BY <1>1, <3>1, <3>2 DEF Taken
  <2> QED BY <2>1, <2>2
<1> QED BY <1>1, <1>3, <1>4, <1>5, <1>6, <1>7 DEF AcceptInv

LEMMA OthersInTurn ==
  ASSUME AcceptInv, Told, NEW c \in Conns, Apart(c) \/ Handed(c) \/ Stopped(c)
  PROVE  AcceptInv' /\ InTurn
<1>1. CASE Apart(c)
  <2>1. \A d \in Conns : /\ conn'[d].pc = "header" <=> conn[d].pc = "header"
                         /\ conn'[d].pc = "backlog" <=> conn[d].pc = "backlog"
    BY <1>1 DEF Apart
  <2>2. backlog' = backlog /\ reading' = reading
    BY <1>1 DEF Apart
  <2> QED BY <2>1, <2>2 DEF AcceptInv, InTurn
<1>2. CASE Handed(c)
  <2>1. reading = c /\ reading' = "none" /\ backlog' = backlog /\ conn[c].pc = "header"
    BY <1>2 DEF Handed, AcceptInv
  <2>2. \A d \in Conns : /\ conn'[d].pc # "header" /\ reading' # d
                         /\ conn'[d].pc = "backlog" <=> conn[d].pc = "backlog"
    BY <1>2, <2>1 DEF Handed, AcceptInv, Told
  <2> QED BY <2>1, <2>2 DEF AcceptInv, InTurn
<1>3. CASE Stopped(c)
  <2>1. reading = c /\ reading' = "stopped" /\ backlog' = <<>>
    BY <1>3 DEF Stopped
  <2>2. \A d \in Conns : conn'[d].pc \notin {"header", "backlog"} /\ reading' # d
    BY <1>3, <2>1 DEF Stopped, AcceptInv, Told
  <2>3. backlog' \in Seq(Conns) /\ \A i : i \notin 1..Len(backlog')
    BY <2>1
  <2> QED BY <2>1, <2>2, <2>3 DEF AcceptInv, InTurn
<1> QED BY <1>1, <1>2, <1>3

\* The part of AcceptGoesOn that needs no fairness: connections are read in the order
\* they came in, each as soon as the one before it was handed over or the listener has
\* ended (proxyListener.Accept).
THEOREM AcceptedInTurn ==
  ASSUME Told PROVE FairGrants => []AcceptInv /\ [][InTurn]_grantsVars
<1>1. GrantsInit => AcceptInv
  <2> SUFFICES ASSUME GrantsInit PROVE AcceptInv
    OBVIOUS
  <2>1. /\ \A c \in Conns : conn[c].pc = "away"
        /\ backlog = <<>> /\ reading = "none"
    BY ConnFacts DEF GrantsInit, P!AcceptInit
  <2>2. backlog \in Seq(Conns) /\ \A i : i \notin 1..Len(backlog)
    BY <2>1
  <2> QED BY <2>1, <2>2 DEF AcceptInv, Told
<1>2. ASSUME GrantsInv, AcceptInv, GrantsNext PROVE AcceptInv' /\ InTurn
  <2>1. ASSUME NEW c \in Conns, Listen(c) PROVE AcceptInv' /\ InTurn
    BY <1>2, <2>1, ListenMoves, JoinsInTurn, TakenInTurn, OthersInTurn DEF Listen
  <2>2. ASSUME UNCHANGED <<conn, backlog, reading>> PROVE AcceptInv' /\ InTurn
    BY <1>2, <2>2 DEF AcceptInv, InTurn
  <2>3. \/ \E c \in Conns : \E forwarded, real \in Named \cup {NoAddress} : Ask(c, forwarded, real)
        \/ (\E ip \in Named : Elsewhere(ip)) \/ Background
        => UNCHANGED <<conn, backlog, reading>>
    BY DEF Ask, Elsewhere, Background
  <2> QED BY <1>2, <2>1, <2>2, <2>3 DEF GrantsNext
<1>3. AcceptInv /\ UNCHANGED grantsVars => AcceptInv'
  BY DEF AcceptInv, grantsVars
<1>4. GrantsInv /\ AcceptInv /\ [GrantsNext]_grantsVars => AcceptInv' /\ [InTurn]_grantsVars
  BY <1>2, <1>3
<1> QED BY <1>1, <1>4, GrantsInvariant, PTL DEF FairGrants

-----------------------------------------------------------------------------
(* Who is served at all: the client table and the panel (ClientSync).       *)

CONSTANTS Ids, ConfigClients, DefaultClient, Queries, MaxEdits, None

VARIABLES clients, panel, reply, query, edits

C == INSTANCE ClientSync

\* A client that is disabled at the panel, in no payload on its way, and gone from
\* the table unless it has no account.
Gone(i) ==
  /\ i \notin DOMAIN panel
  /\ reply # None => i \notin DOMAIN reply
  /\ i \in DOMAIN clients => clients[i] = "bare"

LEMMA TableFacts ==
  ASSUME NEW t
  PROVE  t \in C!Tables <=>
           /\ t = [i \in DOMAIN t |-> t[i]]
           /\ DOMAIN t \subseteq Ids /\ \A i \in DOMAIN t : t[i] \in {"account", "bare"}
<1>1. ASSUME t \in C!Tables
      PROVE  /\ t = [i \in DOMAIN t |-> t[i]]
             /\ DOMAIN t \subseteq Ids /\ \A i \in DOMAIN t : t[i] \in {"account", "bare"}
  <2>1. PICK I \in SUBSET Ids : t \in [I -> {"account", "bare"}]
    BY <1>1 DEF C!Tables
  <2> QED BY <2>1
<1>2. ASSUME t = [i \in DOMAIN t |-> t[i]], DOMAIN t \subseteq Ids,
             \A i \in DOMAIN t : t[i] \in {"account", "bare"}
      PROVE  t \in C!Tables
  <2>1. t \in [DOMAIN t -> {"account", "bare"}]
    BY <1>2
  <2> QED BY <1>2, <2>1 DEF C!Tables
<1> QED BY <1>1, <1>2

\* applyRuntime: what a payload leaves of the table.
LEMMA MergedFacts ==
  ASSUME NEW remote \in C!Tables, clients \in C!Tables
  PROVE  /\ C!Merged(remote) \in C!Tables
         /\ \A i \in DOMAIN C!Merged(remote) : i \notin DOMAIN remote =>
              i \in DOMAIN clients /\ clients[i] = "bare" /\ C!Merged(remote)[i] = "bare"
<1> DEFINE m == C!Merged(remote)
           D == (DOMAIN clients \ C!Revoked(remote)) \cup DOMAIN remote
<1>1. /\ DOMAIN m = D
      /\ m = [i \in D |-> IF i \in DOMAIN remote THEN remote[i] ELSE clients[i]]
  BY DEF C!Merged
<1>2. /\ DOMAIN remote \subseteq Ids /\ DOMAIN clients \subseteq Ids
      /\ \A i \in DOMAIN remote : remote[i] \in {"account", "bare"}
      /\ \A i \in DOMAIN clients : clients[i] \in {"account", "bare"}
  BY TableFacts
<1>3. ASSUME NEW i \in D, i \notin DOMAIN remote
      PROVE  i \in DOMAIN clients /\ clients[i] = "bare" /\ m[i] = "bare"
  <2>1. i \in DOMAIN clients /\ i \notin C!Revoked(remote)
    BY <1>3
  <2>2. clients[i] # "account"
    BY <1>3, <2>1 DEF C!Revoked
  <2>3. m[i] = clients[i]
    BY <1>1, <1>3
  <2> QED BY <1>2, <2>1, <2>2, <2>3
<1>4. m \in C!Tables
  <2>1. \A i \in D : m[i] \in {"account", "bare"}
    BY <1>1, <1>2, <1>3
  <2>2. D \subseteq Ids
    BY <1>2
  <2>3. m = [i \in D |-> m[i]]
    BY <1>1
  <2> HIDE DEF m, D
  <2> QED BY <1>1, <2>1, <2>2, <2>3, TableFacts
<1> QED BY <1>1, <1>3, <1>4

LEMMA ClientTypes ==
  ASSUME C!ClientAssumption, C!TypeOK, [C!Next]_(C!vars) PROVE C!TypeOK'
<1> DEFINE At == [pc : {"idle", "named", "served", "refused", "dropped"}, id : Ids \cup {None}]
<1>1. /\ clients \in C!Tables /\ panel \in C!Tables /\ reply \in C!Tables \cup {None}
      /\ edits \in 0..MaxEdits /\ query \in [Queries -> At]
      /\ MaxEdits \in Nat /\ DefaultClient \in Ids \cup {None} /\ DOMAIN clients \subseteq Ids
  BY TableFacts DEF C!TypeOK, C!ClientAssumption
<1>2. ASSUME UNCHANGED query, C!Fetch \/ C!Lose \/ C!Apply \/ C!Edit PROVE C!TypeOK'
  <2>1. CASE C!Apply
    <3>1. reply \in C!Tables /\ clients' = C!Merged(reply)
      BY <1>1, <2>1 DEF C!Apply
    <3>2. reply' = None /\ panel' = panel /\ edits' = edits
      BY <2>1 DEF C!Apply
    <3>3. clients' \in C!Tables
      BY <1>1, <3>1, MergedFacts
    <3> QED BY <1>1, <1>2, <3>2, <3>3 DEF C!TypeOK
  <2>2. CASE C!Edit
    <3>1. edits' \in 0..MaxEdits
      BY <1>1, <2>2 DEF C!Edit
    <3>2. panel' \in C!Tables /\ UNCHANGED <<clients, reply>>
      BY <2>2 DEF C!Edit
    <3> QED BY <1>1, <1>2, <3>1, <3>2 DEF C!TypeOK
  <2>3. CASE C!Fetch \/ C!Lose
    <3>1. reply' \in C!Tables \cup {None} /\ UNCHANGED <<clients, panel, edits>>
      BY <1>1, <2>3 DEF C!Fetch, C!Lose
    <3> QED BY <1>1, <1>2, <3>1 DEF C!TypeOK
  <2> QED BY <1>2, <2>1, <2>2, <2>3
<1>3. ASSUME query' \in [Queries -> At], UNCHANGED <<clients, panel, reply, edits>> PROVE C!TypeOK'
  BY <1>1, <1>3 DEF C!TypeOK
<1>4. ASSUME NEW q \in Queries, NEW pc \in {"idle", "named", "served", "refused", "dropped"},
             NEW i \in Ids \cup {None}
      PROVE  [query EXCEPT ![q] = [pc |-> pc, id |-> i]] \in [Queries -> At]
  BY <1>1
<1>5. ASSUME NEW q \in Queries, C!Arrive(q) \/ C!ArrivePlain(q) \/ C!LookupClient(q) \/ C!Done(q)
      PROVE  C!TypeOK'
  <2>1. UNCHANGED <<clients, panel, reply, edits>>
    BY <1>5 DEF C!Arrive, C!ArrivePlain, C!LookupClient, C!Done
  <2>2. \E pc \in {"idle", "named", "served", "refused", "dropped"}, i \in Ids \cup {None} :
          query' = [query EXCEPT ![q] = [pc |-> pc, id |-> i]]
    <3>0. /\ \A i \in Ids : [C!Waiting EXCEPT !.pc = "named", !.id = i] = [pc |-> "named", id |-> i]
          /\ [C!Waiting EXCEPT !.pc = "dropped"] = [pc |-> "dropped", id |-> None]
      <4>1. ASSUME NEW i \in Ids
            PROVE  [C!Waiting EXCEPT !.pc = "named", !.id = i] = [pc |-> "named", id |-> i]
        <5> DEFINE v == [C!Waiting EXCEPT !.pc = "named", !.id = i]
        <5>1. v \in At /\ v.pc = "named" /\ v.id = i
          BY DEF C!Waiting
        <5> HIDE DEF v
        <5>2. v = [pc |-> "named", id |-> i]
          BY <5>1
        <5> QED BY <5>2 DEF v
      <4>2. [C!Waiting EXCEPT !.pc = "dropped"] = [pc |-> "dropped", id |-> None]
        BY DEF C!Waiting
      <4> QED BY <4>1, <4>2
    <3>1. CASE C!Arrive(q)
      <4>1. PICK i \in Ids :
              query' = [query EXCEPT ![q] = [C!Waiting EXCEPT !.pc = "named", !.id = i]]
        BY <3>1 DEF C!Arrive
      <4>2. query' = [query EXCEPT ![q] = [pc |-> "named", id |-> i]]
        BY <3>0, <4>1
      <4> QED BY <4>2
    <3>2. CASE C!ArrivePlain(q)
      <4>1. \/ query' = [query EXCEPT ![q] = [C!Waiting EXCEPT !.pc = "dropped"]]
            \/ \E i \in Ids :
                 query' = [query EXCEPT ![q] = [C!Waiting EXCEPT !.pc = "named", !.id = i]]
        BY <1>1, <3>2 DEF C!ArrivePlain
      <4>2. \/ query' = [query EXCEPT ![q] = [pc |-> "dropped", id |-> None]]
            \/ \E i \in Ids : query' = [query EXCEPT ![q] = [pc |-> "named", id |-> i]]
        BY <3>0, <4>1
      <4> QED BY <4>2
    <3>3. CASE C!LookupClient(q)
      <4>1. PICK pc \in {"served", "refused"} : query' = [query EXCEPT ![q].pc = pc]
        BY <3>3 DEF C!LookupClient
      <4>2. /\ [query[q] EXCEPT !.pc = pc] = [pc |-> pc, id |-> query[q].id]
            /\ query[q].id \in Ids \cup {None}
        BY <1>1
      <4>3. query' = [query EXCEPT ![q] = [pc |-> pc, id |-> query[q].id]]
        BY <1>1, <4>1, <4>2
      <4> QED BY <4>2, <4>3
    <3>4. CASE C!Done(q)
      BY <3>4 DEF C!Done, C!Waiting
    <3> QED BY <1>5, <3>1, <3>2, <3>3, <3>4
  <2> QED BY <1>3, <1>4, <2>1, <2>2
<1>6. UNCHANGED C!vars => C!TypeOK'
  BY <1>1 DEF C!vars, C!TypeOK
<1>7. C!Fetch \/ C!Lose \/ C!Apply \/ C!Edit => UNCHANGED query
  BY DEF C!Fetch, C!Lose, C!Apply, C!Edit
<1> QED BY <1>2, <1>5, <1>6, <1>7 DEF C!Next

\* What a step does for a client that is disabled and stays so: the first payload
\* without it removes its account from the table, nothing brings it back, and a
\* query is refused whenever its identity was given to it.
Revokes(i) ==
  i \notin DOMAIN panel /\ i \notin DOMAIN panel' =>
    /\ C!Apply /\ i \notin DOMAIN reply => Gone(i)'
    /\ Gone(i) => Gone(i)'
    /\ Gone(i) => \A q \in Queries : C!LookupClient(q) /\ query[q].id = i =>
         query'[q].pc = "refused" \/ clients[i] = "bare"

LEMMA StepRevokes ==
  ASSUME C!TypeOK, C!Next, NEW i \in Ids PROVE Revokes(i)
<1> SUFFICES ASSUME i \notin DOMAIN panel, i \notin DOMAIN panel'
             PROVE  /\ C!Apply /\ i \notin DOMAIN reply => Gone(i)'
                    /\ Gone(i) => Gone(i)'
                    /\ Gone(i) => \A q \in Queries : C!LookupClient(q) /\ query[q].id = i =>
                         query'[q].pc = "refused" \/ clients[i] = "bare"
  BY DEF Revokes
<1>1. clients \in C!Tables /\ reply \in C!Tables \cup {None}
  BY DEF C!TypeOK
<1>2. ASSUME C!Apply, i \notin DOMAIN reply PROVE Gone(i)'
  <2>1. reply \in C!Tables /\ clients' = C!Merged(reply) /\ reply' = None
    BY <1>1, <1>2 DEF C!Apply
  <2>2. i \in DOMAIN C!Merged(reply) => C!Merged(reply)[i] = "bare"
    BY <1>1, <1>2, <2>1, MergedFacts
  <2> QED BY <2>1, <2>2 DEF Gone
<1>3. ASSUME Gone(i) PROVE Gone(i)'
  <2>1. CASE C!Apply
    BY <1>2, <1>3, <2>1 DEF Gone, C!Apply
  <2>2. CASE C!Fetch
    BY <1>3, <2>2 DEF Gone, C!Fetch
  <2>3. CASE ~C!Apply /\ ~C!Fetch
    <3>1. UNCHANGED clients /\ reply' \in {reply, None}
      BY <2>3 DEF C!Next, C!Lose, C!Edit, C!Arrive, C!ArrivePlain, C!LookupClient, C!Done
    <3> QED BY <1>3, <3>1 DEF Gone
  <2> QED BY <2>1, <2>2, <2>3
<1>4. ASSUME Gone(i), NEW q \in Queries, C!LookupClient(q), query[q].id = i
      PROVE  query'[q].pc = "refused" \/ clients[i] = "bare"
  <2>1. CASE i \in DOMAIN clients
    BY <1>4, <2>1 DEF Gone
  <2>2. CASE i \notin DOMAIN clients
    BY <1>4, <2>2 DEF C!TypeOK, C!LookupClient, C!Known
  <2> QED BY <2>1, <2>2
<1> QED BY <1>2, <1>3, <1>4

\* The part of RevocationArrives that needs no fairness: a client that stays
\* disabled at the panel loses its account with the first payload fetched after
\* that, for good, whatever polls are lost and whoever asks meanwhile (applyRuntime).
THEOREM RevocationIsForGood ==
  ASSUME C!ClientAssumption
  PROVE  C!Spec => []C!TypeOK /\ [][\A i \in Ids : Revokes(i)]_(C!vars)
<1>1. C!Init => C!TypeOK
  <2> SUFFICES ASSUME C!Init PROVE C!TypeOK
    OBVIOUS
  <2>1. clients = [i \in ConfigClients |-> "bare"] /\ ConfigClients \subseteq Ids
    BY DEF C!Init, C!ClientAssumption
  <2>2. clients \in C!Tables
    BY <2>1, TableFacts
  <2>3. query \in [Queries -> [pc : {"idle", "named", "served", "refused", "dropped"},
                              id : Ids \cup {None}]]
    BY DEF C!Init, C!Waiting
  <2> QED BY <2>2, <2>3 DEF C!Init, C!TypeOK, C!ClientAssumption
<1>2. C!TypeOK /\ [C!Next]_(C!vars) => C!TypeOK'
  BY ClientTypes
<1>3. C!TypeOK /\ [C!Next]_(C!vars) => [\A i \in Ids : Revokes(i)]_(C!vars)
  BY StepRevokes
<1> QED BY <1>1, <1>2, <1>3, PTL DEF C!Spec
=============================================================================
