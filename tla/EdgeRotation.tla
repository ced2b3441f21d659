---------------------------- MODULE EdgeRotation ----------------------------
(***************************************************************************)
(* The rotation of smartedge: the health kept for every HTTP proxy         *)
(* upstream, the candidate list a client connection searches, and the      *)
(* liveness prober, all of them goroutines that share the health records.  *)
(*                                                                         *)
(* Each method of *upstream holds u.mu for its whole body, so one step is  *)
(* one critical section.  recordProbeFail is the exception: it decides     *)
(* under the lock, unlocks, and marks the failure in a second critical     *)
(* section, so it is two steps of the prober.  candidateUpstreams locks    *)
(* one upstream after another, so a scan is one step per upstream.         *)
(*                                                                         *)
(* cooldownUntil is kept as the time left of it (cooldownLeft of the       *)
(* source); Tick is one unit of the clock.  The streaks saturate at the    *)
(* threshold they are compared with.                                       *)
(***************************************************************************)
EXTENDS Integers, Sequences

CONSTANTS
  Upstreams,          \* the upstreams of PROXY_UPSTREAMS
  Order,              \* their configured order
  Conns,              \* client connections handled at the same time
  FailThreshold,      \* UPSTREAM_FAILURE_THRESHOLD
  ProbeFailThreshold, \* UPSTREAM_PROBE_FAILURE_THRESHOLD
  CooldownInitial,    \* UPSTREAM_COOLDOWN_SECONDS, in ticks
  CooldownMax,        \* UPSTREAM_COOLDOWN_MAX_SECONDS, in ticks
  LivenessEnabled     \* UPSTREAM_LIVENESS_ENABLED

ASSUME RotationAssumption ==
  /\ Order \in Seq(Upstreams) /\ Order # <<>>
  /\ \A i, j \in 1..Len(Order) : Order[i] = Order[j] => i = j \* an *upstream per entry
  /\ FailThreshold \in Nat /\ ProbeFailThreshold \in Nat
  /\ CooldownInitial \in Nat /\ CooldownMax \in Nat
  /\ LivenessEnabled \in BOOLEAN

VARIABLES
  health,   \* health[u]: the fields of *upstream guarded by u.mu
  conn,     \* conn[c]: where connectUpstream stands for connection c
  prober,   \* the liveness prober: the upstream it dials, and its second step
  trouble   \* history: did a tunnel of u fail since its last handshake

vars == <<health, conn, prober, trouble>>

N == Len(Order)

\* The longest quarantine the two settings allow; the code does not check
\* that the initial one is below the cap.
CooldownCap == IF CooldownInitial < CooldownMax THEN CooldownMax ELSE CooldownInitial

Health == [fails : 0..FailThreshold, left : 0..CooldownCap, cur : 0..CooldownCap,
           probeFails : 0..ProbeFailThreshold]

AtMost(n, cap) == IF n < cap THEN n ELSE cap

Quarantined(h) == h.left > 0

-----------------------------------------------------------------------------
(* The critical sections of *upstream, as functions on its health.          *)

\* markFailure: the streak grows; once it reaches the threshold the current
\* cooldown is armed and the next one doubled, up to the cap.
MarkFailure(h) ==
  LET cur == IF h.cur = 0 THEN CooldownInitial ELSE h.cur
      trips == h.fails + 1 >= FailThreshold
  IN [h EXCEPT !.fails = AtMost(h.fails + 1, FailThreshold),
               !.left = IF trips THEN cur ELSE h.left,
               !.cur = IF trips /\ cur < CooldownMax
                       THEN AtMost(2 * cur, CooldownMax) ELSE cur]

\* recordSuccess: a handshake was carried; quarantine and escalation end.
RecordSuccess(h) == [h EXCEPT !.fails = 0, !.left = 0, !.cur = CooldownInitial]

\* A reachable listener taken for a recovered exit.
RecordProbeOKLifting(h) == [h EXCEPT !.probeFails = 0, !.left = 0]

\* recordProbeOK: clears the probe streak and nothing else.
RecordProbeOK(h) == [h EXCEPT !.probeFails = 0]

\* recordProbeFail up to the unlock: the streak, and whether it tripped.
CountProbeFail(h) ==
  [h EXCEPT !.probeFails = AtMost(h.probeFails + 1, ProbeFailThreshold)]

\* Every lost probe reaches the failure streak.
ProbeTrippedAlways(h) == ProbeFailThreshold > 0 /\ h.probeFails >= 1

ProbeTripped(h) == ProbeFailThreshold > 0 /\ h.probeFails >= ProbeFailThreshold

-----------------------------------------------------------------------------
(* The search of one connection.                                            *)

Idle == [pc |-> "idle", pos |-> 1, ready |-> <<>>, cooling |-> <<>>, tried |-> {}]

Searching == {"scan", "search"}

Members(s) == {s[i] : i \in DOMAIN s}

\* Quarantined upstreams are left out while there is a ready one.
CandidatesReadyOnly(s) == IF s.ready = <<>> THEN Order ELSE s.ready

\* A quarantined upstream goes first instead of last.
CandidatesCoolingFirst(s) == IF s.ready = <<>> THEN Order ELSE s.cooling \o s.ready

\* The list candidateUpstreams returns: ready upstreams, then quarantined ones,
\* each in configured order.
Candidates(s) == IF s.ready = <<>> THEN Order ELSE s.ready \o s.cooling

Candidate(c) == Candidates(conn[c])[conn[c].pos]

Last(c) == conn[c].pos = Len(Candidates(conn[c]))

\* handle has read a ClientHello and calls connectUpstream.
Begin(c) ==
  /\ conn[c].pc \notin Searching
  /\ conn' = [conn EXCEPT ![c] = [Idle EXCEPT !.pc = "scan"]]
  /\ UNCHANGED <<health, prober, trouble>>

\* Upstream u put into the list it belongs to.
Sorted(s, u) == IF Quarantined(health[u]) THEN [s EXCEPT !.cooling = Append(@, u)]
                                          ELSE [s EXCEPT !.ready = Append(@, u)]

\* A quarantine begins anew whenever a search finds it on.
ScanRenewing(c) ==
  /\ conn[c].pc = "scan"
  /\ LET u == Order[conn[c].pos]
         s == Sorted(conn[c], u)
     IN /\ conn' = [conn EXCEPT ![c] = IF s.pos < N THEN [s EXCEPT !.pos = @ + 1]
                                       ELSE [s EXCEPT !.pc = "search", !.pos = 1]]
        /\ health' = [health EXCEPT ![u].left = IF @ > 0 THEN health[u].cur ELSE @]
  /\ UNCHANGED <<prober, trouble>>

\* One u.quarantined(now) of the loop in candidateUpstreams.
Scan(c) ==
  /\ conn[c].pc = "scan"
  /\ LET s == Sorted(conn[c], Order[conn[c].pos])
     IN conn' = [conn EXCEPT ![c] = IF s.pos < N THEN [s EXCEPT !.pos = @ + 1]
                                    ELSE [s EXCEPT !.pc = "search", !.pos = 1]]
  /\ UNCHANGED <<health, prober, trouble>>

\* The candidate carried the handshake: recordSuccess, and connectUpstream
\* returns the tunnel; the list and what was tried go with the call.
Carried(c) ==
  /\ conn[c].pc = "search"
  /\ LET u == Candidate(c)
     IN /\ health' = [health EXCEPT ![u] = RecordSuccess(@)]
        /\ trouble' = [trouble EXCEPT ![u] = FALSE]
  /\ conn' = [conn EXCEPT ![c] = [Idle EXCEPT !.pc = "carried"]]
  /\ UNCHANGED prober

\* What a failed attempt leaves behind: the next candidate, or the end.
AfterFailure(c) ==
  LET failed == [conn[c] EXCEPT !.tried = @ \cup {Candidate(c)}]
  IN IF Last(c) THEN [failed EXCEPT !.pc = "exhausted"]
                ELSE [failed EXCEPT !.pos = @ + 1]

\* recordConnectFailure or recordHandshakeIdle: no tunnel, a refused CONNECT, a
\* failed write of the hello, or a tunnel that proved nothing in time.
Failed(c) ==
  /\ conn[c].pc = "search"
  /\ LET u == Candidate(c)
     IN /\ health' = [health EXCEPT ![u] = MarkFailure(@)]
        /\ trouble' = [trouble EXCEPT ![u] = TRUE]
  /\ conn' = [conn EXCEPT ![c] = AfterFailure(c)]
  /\ UNCHANGED prober

\* The deadline of the search is noticed before an attempt that is not the
\* first; SearchDeadline models the clock that decides it.
DeadlinePassed(c) ==
  /\ conn[c].pc = "search" /\ conn[c].pos > 1
  /\ conn' = [conn EXCEPT ![c] = [Idle EXCEPT !.pc = "deadline"]]
  /\ UNCHANGED <<health, prober, trouble>>

-----------------------------------------------------------------------------
(* The liveness prober: one goroutine, the upstreams in order, forever.     *)

ProberNext(pos) == [pos |-> IF pos < N THEN pos + 1 ELSE 1, tripped |-> FALSE]

ProbeAnswered ==
  /\ LivenessEnabled /\ ~prober.tripped
  /\ health' = [health EXCEPT ![Order[prober.pos]] = RecordProbeOK(@)]
  /\ prober' = ProberNext(prober.pos)
  /\ UNCHANGED <<conn, trouble>>

\* First critical section of recordProbeFail.
ProbeLost ==
  /\ LivenessEnabled /\ ~prober.tripped
  /\ LET u == Order[prober.pos]
         h == CountProbeFail(health[u])
     IN /\ health' = [health EXCEPT ![u] = h]
        /\ prober' = IF ProbeTripped(h) THEN [prober EXCEPT !.tripped = TRUE]
                                        ELSE ProberNext(prober.pos)
  /\ UNCHANGED <<conn, trouble>>

\* Second critical section: markFailure after the unlock.
ProbeMarks ==
  /\ prober.tripped
  /\ health' = [health EXCEPT ![Order[prober.pos]] = MarkFailure(@)]
  /\ prober' = ProberNext(prober.pos)
  /\ UNCHANGED <<conn, trouble>>

\* What is left of a quarantine after one unit of time.
OneUnit(left) == IF left > 0 THEN left - 1 ELSE 0

\* The clock.  A scan compares every upstream with one reading of it and does
\* nothing but take locks, so no unit passes during a scan.
Tick ==
  /\ \A c \in Conns : conn[c].pc # "scan"
  /\ \E u \in Upstreams : health[u].left > 0
  /\ health' = [u \in Upstreams |->
                  [health[u] EXCEPT !.left = OneUnit(@)]]
  /\ UNCHANGED <<conn, prober, trouble>>

Fresh == [fails |-> 0, left |-> 0, cur |-> 0, probeFails |-> 0]

Init ==
  /\ health = [u \in Upstreams |-> Fresh]
  /\ conn = [c \in Conns |-> Idle]
  /\ prober = [pos |-> 1, tripped |-> FALSE]
  /\ trouble = [u \in Upstreams |-> FALSE]

Search(c) == Scan(c) \/ Carried(c) \/ Failed(c) \/ DeadlinePassed(c)

Next ==
  \/ \E c \in Conns : Begin(c) \/ Search(c)
  \/ ProbeAnswered \/ ProbeLost \/ ProbeMarks
  \/ Tick

Spec == Init /\ [][Next]_vars

\* Weak fairness of Search(c), with its ENABLED written out: a connection that
\* searches goes on.  Every attempt ends, for connectThroughHTTPProxy and
\* awaitUpstreamForward set a deadline on all they wait for.
SearchGoesOn(c) ==
  []<>(conn[c].pc \notin Searching) \/ []<><<Search(c)>>_vars

\* Time passes: a quarantine runs out, for scans are too short to hold it up.
TimePasses ==
  <>[](\A u \in Upstreams : health[u].left = 0) \/ []<><<Tick>>_vars

\* recordProbeFail goes on after its unlock.
FairSpec ==
  /\ Spec
  /\ \A c \in Conns : SearchGoesOn(c)
  /\ []<>~prober.tripped
  /\ TimePasses

-----------------------------------------------------------------------------
(* Properties.                                                              *)

TypeOK ==
  /\ health \in [Upstreams -> Health]
  /\ conn \in [Conns -> [pc : {"idle", "scan", "search", "carried", "exhausted", "deadline"},
                         pos : 1..N, ready : Seq(Upstreams), cooling : Seq(Upstreams),
                         tried : SUBSET Upstreams]]
  /\ prober \in [pos : 1..N, tripped : BOOLEAN]
  /\ trouble \in [Upstreams -> BOOLEAN]

\* What is left of a quarantine never exceeds the cooldown the next failure
\* would arm, and that one never exceeds the cap: the fact that makes re-arming
\* safe when failures of several connections and the prober interleave.
CooldownShape ==
  \A u \in Upstreams : health[u].left <= health[u].cur /\ health[u].cur <= CooldownCap

\* No step but the clock and a carried handshake brings the end of a quarantine
\* nearer: a late failure of a connection that was dialled before the
\* quarantine, or a pending probe failure, never shortens it, and a listener
\* that answers a probe never lifts it (recordProbeOK).
NeverShortened ==
  [][\A u \in Upstreams : health'[u].left < health[u].left =>
       \/ Tick
       \/ \E c \in Conns : Carried(c) /\ Candidate(c) = u]_vars

\* Probe loss alone takes an upstream out of rotation only while a full streak
\* of probeFailThreshold lost probes stands, also across the unlock inside
\* recordProbeFail (comment of recordProbeFail).
ProbeLossNeedsStreak ==
  [][\A u \in Upstreams : health'[u].left > health[u].left /\ ~trouble'[u] =>
       health[u].probeFails >= ProbeFailThreshold]_vars

\* A client is refused for want of an upstream only after every configured one
\* failed for that very connection: quarantine reorders the list, concurrent
\* changes of it drop nobody (candidateUpstreams, connectUpstream).
ExhaustedMeansAllTried ==
  \A c \in Conns : conn[c].pc = "exhausted" =>
    \A i \in 1..N : Order[i] \in conn[c].tried

\* Configured order is a static preference: an upstream is dialled only when
\* every earlier configured one failed on this connection or was seen cooling
\* by its scan; and a cooling one only after every upstream seen ready failed.
PreferenceKept ==
  \A c \in Conns : conn[c].pc = "search" =>
    LET s == conn[c]
        cooling == Members(s.cooling)
    IN \A i, j \in 1..N : Order[j] = Candidate(c) =>
         /\ i < j => Order[i] \in s.tried \cup cooling
         /\ Order[j] \in cooling /\ Order[i] \notin cooling => Order[i] \in s.tried

\* An attempt or a probe that fails on u.
FailsOn(u) ==
  \/ \E c \in Conns : Failed(c) /\ Candidate(c) = u
  \/ ProbeLost /\ Order[prober.pos] = u

\* An upstream on which from some time on no attempt and no probe fails leaves
\* quarantine for good, whatever escalation it had reached.
RecoveredRejoins ==
  \A u \in Upstreams : <>[][~FailsOn(u)]_vars => <>[](health[u].left = 0)
=============================================================================
