------------------------------ MODULE EdgeAuth ------------------------------
(***************************************************************************)
(* The allow-list of smartdns: which client addresses may use the edge     *)
(* (edgeAllowedIPs) and which name an address was last sent to the edge    *)
(* for (edgeUDPMap).  DNS handlers, the panel's API, the edge's            *)
(* authorisation requests and the collector share both maps under rt.mu.   *)
(*                                                                         *)
(* An Until is kept as the time it lies ahead; it stops at -1, behind the  *)
(* clock.  A permanent entry has Until zero, always behind the clock.      *)
(*                                                                         *)
(* What only reads the maps changes nothing and is left out: /edge-map,    *)
(* /edge-auth-debug and GET of the allow-list.                             *)
(***************************************************************************)
EXTENDS Integers

CONSTANTS
  IPs,
  Domains,
  AuthTTL,           \* edgeAuth.ttlMs, in ticks
  PanelTTLs,         \* the ttlMs a request of the panel may carry
  InactivityMs,      \* edgeAuth.inactivityMs as configured, in ticks
  DefaultInactivity  \* the 30 days of effectiveInactivityMs

ASSUME AuthAssumption ==
  /\ AuthTTL \in Nat \ {0} /\ PanelTTLs \subseteq Nat \ {0}
  /\ InactivityMs \in Int /\ DefaultInactivity \in Nat \ {0}

VARIABLES
  allowed,  \* rt.edgeAllowedIPs: a function on the known addresses
  mapped    \* rt.edgeUDPMap

vars == <<allowed, mapped>>

\* effectiveInactivityMs: zero means the default, a negative value never.
Inactivity == IF InactivityMs = 0 THEN DefaultInactivity ELSE InactivityMs

Expired == -1

\* How long lastSeen lies back is counted up to one past the window.
IdleCap == IF Inactivity < 0 THEN 0 ELSE Inactivity + 1

Larger(a, b) == IF a < b THEN b ELSE a

LongestTTL == CHOOSE t \in PanelTTLs \cup {AuthTTL} : \A u \in PanelTTLs \cup {AuthTTL} : u <= t

\* seen is lastSeen > 0; idle, how long it lies back.
Allow == [perm : BOOLEAN, left : Expired..LongestTTL, seen : BOOLEAN, idle : 0..IdleCap]

Mapping == [left : Expired..LongestTTL, domain : Domains]

With(f, k, v) == [j \in DOMAIN f \cup {k} |-> IF j = k THEN v ELSE f[j]]

Only(f, K) == [k \in DOMAIN f \cap K |-> f[k]]

-----------------------------------------------------------------------------
(* DNS traffic.                                                             *)

\* remember in resolve: the answer sends a public client to the edge.
ResolvedToEdge(ip, d) ==
  /\ allowed' = With(allowed, ip, [perm |-> FALSE, left |-> AuthTTL, seen |-> TRUE, idle |-> 0])
  /\ mapped' = With(mapped, ip, [left |-> AuthTTL, domain |-> d])

\* rememberEdgeIP: a DoT connection was accepted; lastSeen stays zero.
DotConnected(ip) ==
  /\ allowed' = With(allowed, ip, [perm |-> FALSE, left |-> AuthTTL, seen |-> FALSE, idle |-> 0])
  /\ UNCHANGED mapped

-----------------------------------------------------------------------------
(* The APIs.                                                                *)

Until(perm, ttl) == IF perm THEN Expired ELSE ttl

\* A pin whose lastSeen is left for the first request to set.
PinnedUnseen(perm, ttl) == [perm |-> perm, left |-> Until(perm, ttl), seen |-> FALSE, idle |-> 0]

Pinned(perm, ttl) == [perm |-> perm, left |-> Until(perm, ttl), seen |-> TRUE, idle |-> 0]

\* POST /edge-allowlist, with or without a domain.
PostPin(ip, perm, ttl) ==
  /\ allowed' = With(allowed, ip, Pinned(perm, ttl))
  /\ UNCHANGED mapped

PostPinWithDomain(ip, perm, ttl, d) ==
  /\ allowed' = With(allowed, ip, Pinned(perm, ttl))
  /\ mapped' = With(mapped, ip, [left |-> Until(perm, ttl), domain |-> d])

\* DELETE that forgets the mapping.
UnpinAllowOnly(ip) ==
  /\ allowed' = Only(allowed, IPs \ {ip})
  /\ UNCHANGED mapped

\* DELETE /edge-allowlist.
Unpin(ip) ==
  /\ allowed' = Only(allowed, IPs \ {ip})
  /\ mapped' = Only(mapped, IPs \ {ip})

Usable(ip) == ip \in DOMAIN allowed /\ (allowed[ip].perm \/ allowed[ip].left > 0)

\* GET /edge-auth of an address it accepts; a refused one changes nothing.
Authorised(ip) ==
  /\ Usable(ip)
  /\ allowed' = [allowed EXCEPT ![ip].seen = TRUE, ![ip].idle = 0]
  /\ UNCHANGED mapped

-----------------------------------------------------------------------------
(* The collector and the clock.                                             *)

\* The first loop of cleanup: what it deletes.
Collected(a) ==
  IF a.perm THEN Inactivity >= 0 /\ a.seen /\ a.idle > Inactivity ELSE a.left < 0

\* The second loop, on what the first one left.
MapCollected(kept, ip) ==
  ip \notin DOMAIN kept \/ (~kept[ip].perm /\ mapped[ip].left < 0)

Collect ==
  LET kept == Only(allowed, {ip \in DOMAIN allowed : ~Collected(allowed[ip])})
  IN /\ allowed' = kept
     /\ mapped' = Only(mapped, {ip \in DOMAIN mapped : ~MapCollected(kept, ip)})

Earlier(t) == IF t < 0 THEN t ELSE t - 1

Tick ==
  /\ allowed' = [ip \in DOMAIN allowed |->
       [allowed[ip] EXCEPT !.left = Earlier(@), !.idle = IF @ < IdleCap THEN @ + 1 ELSE @]]
  /\ mapped' = [ip \in DOMAIN mapped |-> [mapped[ip] EXCEPT !.left = Earlier(@)]]

Init == allowed = <<>> /\ mapped = <<>>

Uses(ip) ==
  \/ \E d \in Domains : ResolvedToEdge(ip, d)
  \/ DotConnected(ip)
  \/ \E perm \in BOOLEAN, ttl \in PanelTTLs \cup {AuthTTL} :
       PostPin(ip, perm, ttl) \/ \E d \in Domains : PostPinWithDomain(ip, perm, ttl, d)
  \/ Authorised(ip)

Next == (\E ip \in IPs : Uses(ip) \/ Unpin(ip)) \/ Collect \/ Tick

Spec == Init /\ [][Next]_vars

\* The collector is a ticker goroutine, and time passes.
FairSpec == Spec /\ WF_vars(Collect) /\ WF_vars(Tick)

-----------------------------------------------------------------------------
(* Properties.                                                              *)

TypeOK ==
  /\ DOMAIN allowed \subseteq IPs /\ \A ip \in DOMAIN allowed : allowed[ip] \in Allow
  /\ DOMAIN mapped \subseteq IPs /\ \A ip \in DOMAIN mapped : mapped[ip] \in Mapping

\* A name is on record only for an address that is on the allow-list, whichever
\* of the DNS handlers, the panel and the collector wrote last: /edge-map never
\* discloses the name of an address that was removed.
MappedAreAllowed == DOMAIN mapped \subseteq DOMAIN allowed

\* With an inactivity window, an address nobody uses any more is forgotten, and
\* the name it was mapped to with it: no entry is out of the collector's reach.
UnusedForgotten ==
  Inactivity >= 0 =>
    \A ip \in IPs : <>[][~Uses(ip)]_vars => <>[](ip \notin DOMAIN allowed \cup DOMAIN mapped)
=============================================================================
