----------------------------- MODULE EdgeGrants -----------------------------
(***************************************************************************)
(* From a connection to a permission: the DoH listener that learns who the *)
(* client is (ProxyAccept), the policy that decides which questions it     *)
(* answers with an edge's address (Routing), and the allow-list such an    *)
(* answer extends (EdgeAuth), which the panel, DNS over TLS, the edge and  *)
(* the collector change as well.                                           *)
(***************************************************************************)
EXTENDS EdgeAuth, Routing

CONSTANTS
  Conns, Client, Router,
  Policies,  \* what may be in force: the fields Routing reads
  Asker,     \* the client record behind every connection
  Types,     \* question types: A, AAAA, HTTPS and others
  Named,     \* a bound: what headers, the panel, the edge and other listeners name
  NoAddress  \* what a request header names that is not there

ASSUME GrantsAssumption ==
  /\ Client \in [Conns -> IPs] /\ Router \in IPs /\ \A c \in Conns : Client[c] # Router
  /\ Named \subseteq IPs /\ NoAddress \notin IPs

VARIABLES
  conn, backlog, reading,
  policy    \* the policy in force

P == INSTANCE ProxyAccept

maps == vars

grantsVars == <<vars, conn, backlog, reading, policy>>

\* DoH is the public listener.
Profile == "public"

AnswerOf(name, type) == Answer(policy, Asker, name, type, Profile)

-----------------------------------------------------------------------------
\* The address a request is answered for: X-Forwarded-For, else X-Real-IP, else
\* the source of the connection it came over.
requestClientIP(c, forwarded, real) ==
  IF forwarded # NoAddress THEN forwarded
  ELSE IF real # NoAddress THEN real ELSE conn[c].source

\* ServeHTTP and resolve, on a connection that got as far as HTTP.  No question
\* comes over a connection the router made for itself.
Ask(c, forwarded, real) ==
  /\ P!Readable(c) /\ conn[c].kind # "local"
  /\ \E name \in Domains, type \in Types :
       IF AnswerOf(name, type) = "edge"
       THEN ResolvedToEdge(requestClientIP(c, forwarded, real), name)
       ELSE UNCHANGED maps
  /\ UNCHANGED <<conn, backlog, reading, policy>>

Listen(c) ==
  /\ P!AcceptStep(c) \/ P!OtherEnd(c)
  /\ UNCHANGED <<maps, policy>>

\* The panel, the edge, and DNS over TLS, UDP and TCP name clients.
Elsewhere(ip) ==
  /\ \/ DotConnected(ip) \/ Authorised(ip) \/ Unpin(ip)
     \/ \E d \in Domains : AnswerOf(d, "A") = "edge" /\ ResolvedToEdge(ip, d)
     \/ \E perm \in BOOLEAN, ttl \in PanelTTLs :
          PostPin(ip, perm, ttl) \/ \E d \in Domains : PostPinWithDomain(ip, perm, ttl, d)
  /\ UNCHANGED <<conn, backlog, reading, policy>>

Background ==
  /\ Collect \/ Tick
  /\ UNCHANGED <<conn, backlog, reading, policy>>

GrantsInit ==
  /\ Init /\ P!AcceptInit
  /\ policy \in Policies

GrantsNext ==
  \/ \E c \in Conns : \/ Listen(c)
                      \/ \E forwarded, real \in Named \cup {NoAddress} : Ask(c, forwarded, real)
  \/ \E ip \in Named : Elsewhere(ip)
  \/ Background

\* The accept loop runs on, every wait for a header is over some time, the
\* collector is a ticker goroutine, and time passes.
FairGrants ==
  /\ GrantsInit /\ [][GrantsNext]_grantsVars
  /\ WF_grantsVars(\E c \in Conns : P!AcceptStep(c) /\ UNCHANGED <<maps, policy>>)
  /\ WF_grantsVars(Collect /\ Background) /\ WF_grantsVars(Tick /\ Background)

-----------------------------------------------------------------------------
(* Properties.                                                              *)

Changed(ip) ==
  ip \in DOMAIN allowed' /\ (ip \in DOMAIN allowed => allowed'[ip] # allowed[ip])

\* A question over DoH whose request names no address authorises the client that
\* asked it and nobody else, however late, incomplete or missing the header of the
\* router is (proxy_protocol.go:3-6).  One forwarded over a family the resolver
\* does not read authorises the router.
GrantedToAsker ==
  [][\A c \in Conns : Ask(c, NoAddress, NoAddress) =>
       \A ip \in IPs : Changed(ip) =>
         ip = IF conn[c].kind = "v2other" THEN Router ELSE Client[c]]_grantsVars

\* A connection that waits is accepted, whoever is silent before it, unless an
\* incomplete or unsupported header has ended the listener (proxyHeaderTimeout).
AcceptGoesOn ==
  \A c \in Conns : conn[c].pc = "backlog" ~> (conn[c].pc # "backlog" \/ reading = "stopped")
=============================================================================
