------------------------- MODULE EdgeRotationProofs -------------------------
(***************************************************************************)
(* What EdgeRotation promises for any number of upstreams, connections and *)
(* any thresholds and cooldowns.                                           *)
(*                                                                         *)
(* The invariants are not inductive alone.  That a search stays inside its *)
(* candidate list, that it ends only after all upstreams, and that it      *)
(* keeps the configured order, all rest on what a scan has listed so far   *)
(* (Listed, ReadyOrder); that only a full streak of lost probes counts     *)
(* rests on the streak still standing between the two critical sections of *)
(* recordProbeFail (StreakStands).                                         *)
(***************************************************************************)
EXTENDS EdgeRotation, SequenceTheorems, TLAPS

Conn == [pc : {"idle", "scan", "search", "carried", "exhausted", "deadline"},
         pos : 1..N, ready : Seq(Upstreams), cooling : Seq(Upstreams),
         tried : SUBSET Upstreams]

\* The two lists of s hold the first k upstreams of the configured order, each
\* in one of them.
Listed(s, k) ==
  /\ Len(s.ready) + Len(s.cooling) = k
  /\ Members(s.ready) \cup Members(s.cooling) = {Order[i] : i \in 1..k}
  /\ Members(s.ready) \cap Members(s.cooling) = {}

\* What precedes a ready upstream in the configured order precedes it in the
\* ready list, or cools.
ReadyOrder(s) ==
  \A k \in 1..Len(s.ready) : \A i, j \in 1..N :
    Order[j] = s.ready[k] /\ i < j =>
      Order[i] \in Members(s.cooling) \/ \E l \in 1..(k - 1) : s.ready[l] = Order[i]

\* What holds of the search of one connection.
SearchOK(s) ==
  /\ s.pc = "scan" => Listed(s, s.pos - 1) /\ ReadyOrder(s)
  /\ s.pc \in {"search", "exhausted"} => Listed(s, N) /\ ReadyOrder(s)
  /\ s.pc = "search" => \A i \in 1..(s.pos - 1) : Candidates(s)[i] \in s.tried
  /\ s.pc = "exhausted" => \A i \in 1..N : Candidates(s)[i] \in s.tried

SearchInv == \A c \in Conns : SearchOK(conn[c])

StreakStands ==
  prober.tripped => health[Order[prober.pos]].probeFails >= ProbeFailThreshold

RotationInv == TypeOK /\ CooldownShape /\ SearchInv /\ StreakStands

-----------------------------------------------------------------------------
(* Lemmas on the order and on health records.                               *)

LEMMA OrderFacts ==
  /\ N \in Nat \ {0}
  /\ \A i \in 1..N : Order[i] \in Upstreams
  /\ \A i, j \in 1..N : Order[i] = Order[j] => i = j
BY RotationAssumption DEF N

LEMMA CapFacts ==
  /\ CooldownCap \in Nat /\ CooldownInitial <= CooldownCap /\ CooldownMax <= CooldownCap
  /\ CooldownInitial \in Nat /\ CooldownMax \in Nat
  /\ FailThreshold \in Nat /\ ProbeFailThreshold \in Nat
BY RotationAssumption DEF CooldownCap

\* A failure keeps a record well-formed and never brings the end of a quarantine
\* nearer.
LEMMA MarkFailureFacts ==
  ASSUME NEW h \in Health, h.left <= h.cur
  PROVE  /\ MarkFailure(h) \in Health
         /\ MarkFailure(h).left <= MarkFailure(h).cur
         /\ h.left <= MarkFailure(h).left
         /\ MarkFailure(h).probeFails = h.probeFails
<1> DEFINE cur == IF h.cur = 0 THEN CooldownInitial ELSE h.cur
           trips == h.fails + 1 >= FailThreshold
<1>1. /\ h.fails \in 0..FailThreshold /\ h.left \in 0..CooldownCap
      /\ h.cur \in 0..CooldownCap /\ h.probeFails \in 0..ProbeFailThreshold
  BY DEF Health
<1>2. cur \in 0..CooldownCap /\ h.left <= cur
  BY <1>1, CapFacts
<1> DEFINE f == AtMost(h.fails + 1, FailThreshold)
           l == IF trips THEN cur ELSE h.left
           c == IF trips /\ cur < CooldownMax THEN AtMost(2 * cur, CooldownMax) ELSE cur
<1>3. MarkFailure(h) = [h EXCEPT !.fails = f, !.left = l, !.cur = c]
  BY DEF MarkFailure
<1>4. f \in 0..FailThreshold
  BY <1>1, CapFacts DEF AtMost
<1>5. l \in h.left..cur
  BY <1>1, <1>2, CapFacts
<1>6. c \in cur..CooldownCap
  BY <1>2, CapFacts DEF AtMost
<1> HIDE DEF f, l, c, trips, cur
<1>7. MarkFailure(h) = [fails |-> f, left |-> l, cur |-> c, probeFails |-> h.probeFails]
  BY <1>3 DEF Health
<1>8. l \in 0..CooldownCap /\ c \in 0..CooldownCap /\ l <= c /\ h.left <= l
  BY <1>1, <1>2, <1>5, <1>6, CapFacts
<1> QED
  BY <1>1, <1>4, <1>7, <1>8 DEF Health

LEMMA RecordFacts ==
  ASSUME NEW h \in Health, h.left <= h.cur
  PROVE  /\ RecordSuccess(h) \in Health /\ RecordSuccess(h).left <= RecordSuccess(h).cur
         /\ RecordSuccess(h).probeFails = h.probeFails
         /\ RecordProbeOK(h) \in Health /\ RecordProbeOK(h).left = h.left
         /\ RecordProbeOK(h).cur = h.cur
         /\ CountProbeFail(h) \in Health /\ CountProbeFail(h).left = h.left
         /\ CountProbeFail(h).cur = h.cur
<1>1. /\ h.fails \in 0..FailThreshold /\ h.left \in 0..CooldownCap
      /\ h.cur \in 0..CooldownCap /\ h.probeFails \in 0..ProbeFailThreshold
  BY DEF Health
<1>p. AtMost(h.probeFails + 1, ProbeFailThreshold) \in 0..ProbeFailThreshold
  BY <1>1, CapFacts DEF AtMost
<1>0. RecordSuccess(h) = [h EXCEPT !.fails = 0, !.left = 0, !.cur = CooldownInitial]
  BY DEF RecordSuccess
<1>2. RecordSuccess(h) = [fails |-> 0, left |-> 0, cur |-> CooldownInitial,
                         probeFails |-> h.probeFails]
  BY <1>0 DEF Health
<1>3. RecordSuccess(h) \in Health /\ RecordSuccess(h).left = 0
      /\ RecordSuccess(h).cur = CooldownInitial /\ RecordSuccess(h).probeFails = h.probeFails
  BY <1>1, <1>2, CapFacts DEF Health
<1>4. RecordProbeOK(h) \in Health /\ RecordProbeOK(h).left = h.left
      /\ RecordProbeOK(h).cur = h.cur
  BY <1>1, CapFacts DEF Health, RecordProbeOK
<1>5. CountProbeFail(h) \in Health /\ CountProbeFail(h).left = h.left
      /\ CountProbeFail(h).cur = h.cur
  BY <1>1, <1>p, CapFacts DEF Health, CountProbeFail
<1> QED
  BY <1>3, <1>4, <1>5, CapFacts

-----------------------------------------------------------------------------
(* Lemmas on the lists of a scan and on the candidate list.                 *)

LEMMA InMembers ==
  ASSUME NEW q \in Seq(Upstreams), NEW e
  PROVE  e \in Members(q) <=> \E l \in 1..Len(q) : q[l] = e
<1>1. DOMAIN q = 1..Len(q)
  OBVIOUS
<1> QED BY <1>1, Zenon DEF Members

LEMMA AppendMembers ==
  ASSUME NEW S, NEW q \in Seq(S), NEW e \in S
  PROVE  /\ Append(q, e) \in Seq(S)
         /\ Len(Append(q, e)) = Len(q) + 1 /\ Len(q) \in Nat
         /\ \A i \in 1..Len(q) : Append(q, e)[i] = q[i]
         /\ Append(q, e)[Len(q) + 1] = e
         /\ Members(Append(q, e)) = Members(q) \cup {e}
<1>1. /\ Append(q, e) \in Seq(S)
      /\ Len(Append(q, e)) = Len(q) + 1 /\ Len(q) \in Nat
      /\ \A i \in 1..Len(q) : Append(q, e)[i] = q[i]
      /\ Append(q, e)[Len(q) + 1] = e
      /\ DOMAIN q = 1..Len(q) /\ DOMAIN Append(q, e) = 1..(Len(q) + 1)
  OBVIOUS
<1>2. Members(Append(q, e)) \subseteq Members(q) \cup {e}
  <2> SUFFICES ASSUME NEW i \in 1..(Len(q) + 1)
               PROVE  Append(q, e)[i] \in Members(q) \cup {e}
    BY <1>1 DEF Members
  <2>1. CASE i \in 1..Len(q)
    BY <2>1, <1>1 DEF Members
  <2>2. CASE i = Len(q) + 1
    BY <2>2, <1>1
  <2> QED BY <2>1, <2>2, <1>1
<1>3. Members(q) \cup {e} \subseteq Members(Append(q, e))
  <2>1. ASSUME NEW i \in 1..Len(q) PROVE q[i] \in Members(Append(q, e))
    <3>1. i \in 1..(Len(q) + 1) /\ q[i] = Append(q, e)[i]
      BY <1>1
    <3> QED BY <3>1, <1>1 DEF Members
  <2>2. e \in Members(Append(q, e))
    <3>1. Len(q) + 1 \in 1..(Len(q) + 1)
      BY <1>1
    <3> QED BY <3>1, <1>1 DEF Members
  <2> QED BY <2>1, <2>2, <1>1 DEF Members
<1> QED BY <1>1, <1>2, <1>3

\* What is said of the lists of a connection depends on nothing else in it.
LEMMA SameLists ==
  ASSUME NEW s, NEW t, s.ready = t.ready, s.cooling = t.cooling
  PROVE  /\ \A k : Listed(s, k) => Listed(t, k)
         /\ ReadyOrder(s) => ReadyOrder(t)
         /\ Candidates(s) = Candidates(t)
<1>1. \A k : Listed(s, k) => Listed(t, k)
  BY Zenon DEF Listed
<1>2. ReadyOrder(s) => ReadyOrder(t)
  <2> SUFFICES ASSUME ReadyOrder(s) PROVE ReadyOrder(t)
    OBVIOUS
  <2> DEFINE q == s.ready
             m == s.cooling
  <2>1. \A k \in 1..Len(q) : \A i, j \in 1..N :
          Order[j] = q[k] /\ i < j => Order[i] \in Members(m) \/ \E l \in 1..(k - 1) : q[l] = Order[i]
    BY DEF ReadyOrder
  <2>2. t.ready = q /\ t.cooling = m
    OBVIOUS
  <2> HIDE DEF q, m
  <2> QED BY <2>1, <2>2 DEF ReadyOrder
<1>3. Candidates(s) = Candidates(t)
  BY Zenon DEF Candidates
<1> QED BY <1>1, <1>2, <1>3

\* One upstream looked at by a scan.
LEMMA ScanStep ==
  ASSUME NEW s \in Conn, Listed(s, s.pos - 1), ReadyOrder(s),
         NEW t, t = Sorted(s, Order[s.pos])
  PROVE  /\ t \in Conn /\ t.pc = s.pc /\ t.pos = s.pos /\ t.tried = s.tried
         /\ Listed(t, s.pos) /\ ReadyOrder(t)
<1> DEFINE u == Order[s.pos]
<1>1. /\ s.pos \in 1..N /\ s.ready \in Seq(Upstreams) /\ s.cooling \in Seq(Upstreams)
      /\ u \in Upstreams /\ N \in Nat
  BY OrderFacts DEF Conn
<1>0. Len(s.ready) + Len(s.cooling) = s.pos - 1
  BY DEF Listed
<1>2. {Order[i] : i \in 1..s.pos} = {Order[i] : i \in 1..(s.pos - 1)} \cup {u}
  <2>1. 1..s.pos = (1..(s.pos - 1)) \cup {s.pos}
    BY <1>1
  <2> QED BY <2>1
<1>3. u \notin {Order[i] : i \in 1..(s.pos - 1)}
  <2> SUFFICES ASSUME NEW i \in 1..(s.pos - 1), Order[i] = u PROVE FALSE
    OBVIOUS
  <2> QED BY <1>1, OrderFacts
<1>4. u \notin Members(s.ready) \cup Members(s.cooling)
  BY <1>3 DEF Listed
<1>5. CASE Quarantined(health[u])
  <2>1. t = [s EXCEPT !.cooling = Append(@, u)]
    BY <1>5 DEF Sorted
  <2>2. /\ t \in Conn /\ t.pc = s.pc /\ t.pos = s.pos /\ t.tried = s.tried
        /\ t.ready = s.ready /\ t.cooling = Append(s.cooling, u)
    <3>1. Append(s.cooling, u) \in Seq(Upstreams)
      BY <1>1, AppendMembers
    <3> HIDE DEF u
    <3> QED BY <2>1, <3>1 DEF Conn
  <2>3. /\ Members(t.cooling) = Members(s.cooling) \cup {u}
        /\ Len(t.cooling) = Len(s.cooling) + 1 /\ Len(s.cooling) \in Nat
        /\ Len(s.ready) \in Nat
    BY <2>2, <1>1, AppendMembers
  <2>4. Len(t.ready) + Len(t.cooling) = s.pos
    <3> DEFINE a == Len(t.ready)
               b == Len(t.cooling)
               d == Len(s.ready)
               e == Len(s.cooling)
    <3>1. a = d /\ b = e + 1 /\ d \in Nat /\ e \in Nat
      BY <2>2, <2>3
    <3>2. d + e = s.pos - 1
      BY <1>0
    <3>4. s.pos \in Int
      BY <1>1
    <3> HIDE DEF a, b, d, e
    <3>3. a + b = s.pos
      BY <3>1, <3>2, <3>4
    <3> QED BY <3>3 DEF a, b
  <2>5. /\ Members(t.ready) \cup Members(t.cooling) = {Order[i] : i \in 1..s.pos}
        /\ Members(t.ready) \cap Members(t.cooling) = {}
    BY <2>2, <2>3, <1>2, <1>4 DEF Listed
  <2>6. ReadyOrder(t)
    BY <2>2, <2>3 DEF ReadyOrder
  <2> QED BY <2>2, <2>4, <2>5, <2>6 DEF Listed
<1>6. CASE ~Quarantined(health[u])
  <2>1. t = [s EXCEPT !.ready = Append(@, u)]
    BY <1>6 DEF Sorted
  <2>2. /\ t \in Conn /\ t.pc = s.pc /\ t.pos = s.pos /\ t.tried = s.tried
        /\ t.cooling = s.cooling /\ t.ready = Append(s.ready, u)
    <3>1. Append(s.ready, u) \in Seq(Upstreams)
      BY <1>1, AppendMembers
    <3> HIDE DEF u
    <3> QED BY <2>1, <3>1 DEF Conn
  <2>3. /\ Members(t.ready) = Members(s.ready) \cup {u}
        /\ Len(t.ready) = Len(s.ready) + 1 /\ Len(s.ready) \in Nat
        /\ Len(s.cooling) \in Nat
        /\ \A i \in 1..Len(s.ready) : t.ready[i] = s.ready[i]
        /\ t.ready[Len(s.ready) + 1] = u
    BY <2>2, <1>1, AppendMembers
  <2>4. Len(t.ready) + Len(t.cooling) = s.pos
    <3> DEFINE a == Len(t.ready)
               b == Len(t.cooling)
               d == Len(s.ready)
               e == Len(s.cooling)
    <3>1. a = d + 1 /\ b = e /\ d \in Nat /\ e \in Nat
      BY <2>2, <2>3
    <3>2. d + e = s.pos - 1
      BY <1>0
    <3>4. s.pos \in Int
      BY <1>1
    <3> HIDE DEF a, b, d, e
    <3>3. a + b = s.pos
      BY <3>1, <3>2, <3>4
    <3> QED BY <3>3 DEF a, b
  <2>5. /\ Members(t.ready) \cup Members(t.cooling) = {Order[i] : i \in 1..s.pos}
        /\ Members(t.ready) \cap Members(t.cooling) = {}
    BY <2>2, <2>3, <1>2, <1>4 DEF Listed
  <2>6. ASSUME NEW k \in 1..Len(t.ready), NEW i \in 1..N, NEW j \in 1..N,
               Order[j] = t.ready[k], i < j
        PROVE  Order[i] \in Members(t.cooling) \/ \E l \in 1..(k - 1) : t.ready[l] = Order[i]
    <3>1. CASE k \in 1..Len(s.ready)
      <4>1. Order[i] \in Members(s.cooling) \/ \E l \in 1..(k - 1) : s.ready[l] = Order[i]
        BY <3>1, <2>3, <2>6 DEF ReadyOrder
      <4>2. ASSUME NEW l \in 1..(k - 1) PROVE t.ready[l] = s.ready[l]
        <5> DEFINE m == Len(s.ready)
        <5>1. m \in Nat /\ k \in 1..m
          BY <3>1, <2>3
        <5> HIDE DEF m
        <5>2. l \in 1..m
          BY <5>1
        <5> QED BY <5>2, <2>3 DEF m
      <4> QED BY <4>1, <4>2, <2>2
    <3>2. CASE k = Len(s.ready) + 1
      <4>1. j = s.pos
        BY <3>2, <2>3, <2>6, <1>1, OrderFacts
      <4>2. Order[i] \in Members(s.ready) \cup Members(s.cooling)
        BY <4>1, <2>6, <1>1 DEF Listed
      <4>3. CASE Order[i] \in Members(s.ready)
        <5>1. PICK l \in 1..Len(s.ready) : s.ready[l] = Order[i]
          BY <4>3, <1>1, InMembers
        <5>2. Len(s.ready) = k - 1
          BY <3>2, <2>3
        <5>3. t.ready[l] = Order[i]
          BY <5>1, <2>3
        <5> QED BY <5>1, <5>2, <5>3
      <4>4. CASE Order[i] \in Members(s.cooling)
        BY <4>4, <2>2
      <4> QED BY <4>2, <4>3, <4>4
    <3> DEFINE m == Len(s.ready)
    <3>3. m \in Nat /\ k \in 1..(m + 1)
      BY <2>3
    <3> HIDE DEF m
    <3>4. k \in 1..m \/ k = m + 1
      BY <3>3
    <3> QED BY <3>1, <3>2, <3>4 DEF m
  <2>7. ReadyOrder(t)
    BY <2>6 DEF ReadyOrder
  <2> QED BY <2>2, <2>4, <2>5, <2>7 DEF Listed
<1> QED BY <1>5, <1>6

\* The candidate list names exactly as many upstreams as are configured.
LEMMA CandidatesFacts ==
  ASSUME NEW s \in Conn, Listed(s, N)
  PROVE  /\ Len(Candidates(s)) = N
         /\ \A i \in 1..N : Candidates(s)[i] \in Upstreams
<1>1. /\ s.ready \in Seq(Upstreams) /\ s.cooling \in Seq(Upstreams)
      /\ Len(s.ready) + Len(s.cooling) = N
  BY DEF Conn, Listed
<1>2. CASE s.ready = <<>>
  BY <1>2, OrderFacts DEF Candidates, N
<1>3. CASE s.ready # <<>>
  <2>1. Candidates(s) = s.ready \o s.cooling
    BY <1>3 DEF Candidates
  <2>2. /\ s.ready \o s.cooling \in Seq(Upstreams)
        /\ Len(s.ready \o s.cooling) = Len(s.ready) + Len(s.cooling)
    BY <1>1, ConcatProperties
  <2>3. \A q \in Seq(Upstreams) : \A i \in 1..Len(q) : q[i] \in Upstreams
    OBVIOUS
  <2> QED BY <2>1, <2>2, <2>3, <1>1
<1> QED BY <1>2, <1>3

-----------------------------------------------------------------------------
(* Preservation of the inductive invariant.                                 *)

\* A step that gives one upstream a new health record.
LEMMA HealthStep ==
  ASSUME TypeOK, CooldownShape, NEW u \in Upstreams, NEW h \in Health, h.left <= h.cur,
         health' = [health EXCEPT ![u] = h]
  PROVE  health' \in [Upstreams -> Health] /\ CooldownShape'
<1>1. health' \in [Upstreams -> Health]
  BY DEF TypeOK
<1>2. ASSUME NEW v \in Upstreams
      PROVE  health'[v].left <= health'[v].cur /\ health'[v].cur <= CooldownCap
  <2>1. CASE v = u
    <3>1. health'[v] = h /\ h.cur \in 0..CooldownCap
      BY <2>1 DEF TypeOK, Health
    <3> QED BY <3>1, CapFacts
  <2>2. CASE v # u
    BY <2>2 DEF TypeOK, CooldownShape
  <2> QED BY <2>1, <2>2
<1> QED BY <1>1, <1>2 DEF CooldownShape

\* A step of one connection.
LEMMA ConnStep ==
  ASSUME TypeOK, SearchInv, NEW c \in Conns, NEW t \in Conn, SearchOK(t),
         conn' = [conn EXCEPT ![c] = t]
  PROVE  conn' \in [Conns -> Conn] /\ SearchInv'
<1>1. conn \in [Conns -> Conn]
  BY DEF TypeOK, Conn
<1>2. ASSUME NEW d \in Conns PROVE SearchOK(conn'[d])
  <2>1. CASE d = c BY <2>1, <1>1
  <2>2. CASE d # c BY <2>2, <1>1 DEF SearchInv
  <2> QED BY <2>1, <2>2
<1> QED BY <1>1, <1>2 DEF SearchInv

\* The candidate a search is at, as it is needed by every outcome of an attempt.
LEMMA CandidateFacts ==
  ASSUME TypeOK, SearchInv, NEW c \in Conns, conn[c].pc = "search"
  PROVE  /\ Candidate(c) \in Upstreams /\ Len(Candidates(conn[c])) = N
         /\ conn[c] \in Conn /\ SearchOK(conn[c])
<1>1. conn[c] \in Conn /\ SearchOK(conn[c])
  BY DEF TypeOK, Conn, SearchInv
<1>2. Listed(conn[c], N) /\ conn[c].pos \in 1..N
  BY <1>1 DEF SearchOK, Conn
<1> QED BY <1>1, <1>2, CandidatesFacts DEF Candidate

\* A search that has not begun is well-formed, and so is one that is over.
LEMMA IdleFacts ==
  /\ Idle \in Conn /\ Idle.pc = "idle"
  /\ [Idle EXCEPT !.pc = "carried"] \in Conn
  /\ [Idle EXCEPT !.pc = "deadline"] \in Conn
<1>1. Idle \in Conn /\ Idle.pc = "idle"
  BY OrderFacts DEF Idle, Conn
<1> QED BY <1>1 DEF Conn

LEMMA BeginOK ==
  ASSUME RotationInv, NEW c \in Conns, Begin(c)
  PROVE  RotationInv'
<1> DEFINE t == [Idle EXCEPT !.pc = "scan"]
<1>1. /\ t.pc = "scan" /\ t.pos = 1 /\ t.ready = <<>> /\ t.cooling = <<>>
      /\ t \in Conn
  <2>1. Idle \in Conn
    BY IdleFacts
  <2>2. /\ Idle.pos = 1 /\ Idle.ready = <<>> /\ Idle.cooling = <<>>
    BY DEF Idle
  <2> QED BY <2>1, <2>2 DEF Conn
<1> HIDE DEF t
<1>2. Members(t.ready) = {} /\ Members(t.cooling) = {} /\ Len(t.ready) = 0 /\ Len(t.cooling) = 0
  BY <1>1 DEF Members
<1>3. SearchOK(t)
  <2>1. Listed(t, 0)
    BY <1>2 DEF Listed
  <2>2. ReadyOrder(t)
    BY <1>2 DEF ReadyOrder
  <2> QED BY <1>1, <2>1, <2>2 DEF SearchOK
<1>4. conn' = [conn EXCEPT ![c] = t] /\ UNCHANGED <<health, prober, trouble>>
  BY DEF Begin, t
<1>5. conn' \in [Conns -> Conn] /\ SearchInv'
  BY <1>1, <1>3, <1>4, ConnStep DEF RotationInv
<1> QED BY <1>4, <1>5 DEF RotationInv, TypeOK, Conn, CooldownShape, StreakStands

LEMMA ScanOK ==
  ASSUME RotationInv, NEW c \in Conns, Scan(c)
  PROVE  RotationInv'
<1> DEFINE s == conn[c]
           t == Sorted(s, Order[s.pos])
           r == IF t.pos < N THEN [t EXCEPT !.pos = @ + 1]
                ELSE [t EXCEPT !.pc = "search", !.pos = 1]
<1>1. s \in Conn /\ Listed(s, s.pos - 1) /\ ReadyOrder(s) /\ s.pc = "scan"
  BY DEF RotationInv, TypeOK, Conn, SearchInv, SearchOK, Scan
<1>2. conn' = [conn EXCEPT ![c] = r] /\ UNCHANGED <<health, prober, trouble>>
  BY DEF Scan
<1>3. /\ t \in Conn /\ t.pc = "scan" /\ t.pos = s.pos
      /\ Listed(t, t.pos) /\ ReadyOrder(t)
  BY <1>1, ScanStep
<1> HIDE DEF s, t
<1>4. r \in Conn /\ SearchOK(r)
  <2>0. t.pos \in 1..N /\ N \in Nat \ {0}
    BY <1>3, OrderFacts DEF Conn
  <2>1. CASE t.pos < N
    <3>1. /\ r \in Conn /\ r.pc = "scan" /\ r.pos = t.pos + 1
          /\ r.ready = t.ready /\ r.cooling = t.cooling
      BY <1>3, <2>0, <2>1 DEF Conn
    <3> HIDE DEF r
    <3>2. r.pos - 1 = t.pos
      BY <3>1, <2>0
    <3>3. Listed(r, t.pos) /\ ReadyOrder(r)
      BY <1>3, <3>1, SameLists
    <3> QED BY <3>1, <3>2, <3>3 DEF SearchOK
  <2>2. CASE ~(t.pos < N)
    <3>1. r = [t EXCEPT !.pc = "search", !.pos = 1]
      BY <2>2
    <3> HIDE DEF r
    <3>a. r \in Conn
      <4> DEFINE x == [t EXCEPT !.pc = "search"]
      <4>1. x \in Conn
        BY <1>3 DEF Conn
      <4>2. r = [x EXCEPT !.pos = 1]
        BY <3>1
      <4> HIDE DEF x
      <4> QED BY <2>0, <4>1, <4>2 DEF Conn
    <3>b. r.pc = "search" /\ r.pos = 1
      BY <1>3, <3>1 DEF Conn
    <3>c. r.ready = t.ready /\ r.cooling = t.cooling
      BY <1>3, <3>1 DEF Conn
    <3>2. /\ r \in Conn /\ r.pc = "search" /\ r.pos = 1
          /\ r.ready = t.ready /\ r.cooling = t.cooling
      BY <3>a, <3>b, <3>c
    <3>3. t.pos = N
      BY <2>0, <2>2
    <3>4. Listed(r, N) /\ ReadyOrder(r)
      BY <1>3, <3>2, <3>3, SameLists
    <3> QED BY <3>2, <3>4 DEF SearchOK
  <2> QED BY <2>1, <2>2
<1> HIDE DEF r
<1>5. conn' \in [Conns -> Conn] /\ SearchInv'
  BY <1>2, <1>4, ConnStep DEF RotationInv
<1> QED BY <1>2, <1>5 DEF RotationInv, TypeOK, Conn, CooldownShape, StreakStands

LEMMA CarriedOK ==
  ASSUME RotationInv, NEW c \in Conns, Carried(c)
  PROVE  RotationInv'
<1> DEFINE u == Candidate(c)
           h == RecordSuccess(health[u])
           t == [Idle EXCEPT !.pc = "carried"]
<1>1. u \in Upstreams /\ conn[c] \in Conn
  BY CandidateFacts DEF RotationInv, Carried
<1> HIDE DEF u
<1>2. health[u] \in Health /\ health[u].left <= health[u].cur
  BY <1>1 DEF RotationInv, TypeOK, CooldownShape
<1>3. /\ health' = [health EXCEPT ![u] = h] /\ conn' = [conn EXCEPT ![c] = t]
      /\ trouble' = [trouble EXCEPT ![u] = FALSE] /\ prober' = prober
  BY DEF Carried, u
<1>4. h \in Health /\ h.left <= h.cur /\ h.probeFails = health[u].probeFails
  BY <1>2, RecordFacts
<1>5. t \in Conn /\ t.pc = "carried"
  BY IdleFacts DEF Conn
<1> HIDE DEF h, t
<1>6. SearchOK(t)
  BY <1>5 DEF SearchOK
<1>7. health' \in [Upstreams -> Health] /\ CooldownShape'
  BY <1>1, <1>3, <1>4, HealthStep DEF RotationInv
<1>8. conn' \in [Conns -> Conn] /\ SearchInv'
  BY <1>3, <1>5, <1>6, ConnStep DEF RotationInv
<1>9. StreakStands'
  BY <1>1, <1>3, <1>4 DEF RotationInv, TypeOK, StreakStands
<1>10. TypeOK'
  BY <1>1, <1>3, <1>7, <1>8 DEF RotationInv, TypeOK, Conn
<1> QED BY <1>7, <1>8, <1>9, <1>10 DEF RotationInv

LEMMA FailedOK ==
  ASSUME RotationInv, NEW c \in Conns, Failed(c)
  PROVE  RotationInv'
<1> DEFINE s == conn[c]
           u == Candidate(c)
           h == MarkFailure(health[u])
           failed == [s EXCEPT !.tried = @ \cup {u}]
           t == IF Last(c) THEN [failed EXCEPT !.pc = "exhausted"]
                           ELSE [failed EXCEPT !.pos = @ + 1]
<1>1. /\ u \in Upstreams /\ s \in Conn /\ s.pc = "search" /\ SearchOK(s)
      /\ Len(Candidates(s)) = N
  BY CandidateFacts DEF RotationInv, Failed
<1>2. /\ health' = [health EXCEPT ![u] = h] /\ conn' = [conn EXCEPT ![c] = t]
      /\ trouble' = [trouble EXCEPT ![u] = TRUE] /\ prober' = prober
  BY DEF Failed, AfterFailure
<1>3. u = Candidates(s)[s.pos] /\ (Last(c) <=> s.pos = N)
  BY <1>1 DEF Candidate, Last
<1> HIDE DEF s, u
<1>4. health[u] \in Health /\ health[u].left <= health[u].cur
  BY <1>1 DEF RotationInv, TypeOK, CooldownShape
<1>5. h \in Health /\ h.left <= h.cur /\ h.probeFails = health[u].probeFails
  BY <1>4, MarkFailureFacts
<1> HIDE DEF h
<1>6. t \in Conn /\ SearchOK(t)
  <2>0. s.pos \in 1..N /\ N \in Nat \ {0}
    BY <1>1, OrderFacts DEF Conn
  <2>1. /\ failed \in Conn /\ failed.pc = "search" /\ failed.pos = s.pos
        /\ failed.ready = s.ready /\ failed.cooling = s.cooling
        /\ failed.tried = s.tried \cup {u}
    BY <1>1 DEF Conn
  <2>2. \A i \in 1..(s.pos - 1) : Candidates(s)[i] \in s.tried
    BY <1>1 DEF SearchOK
  <2>3. \A i \in 1..s.pos : Candidates(s)[i] \in s.tried \cup {u}
    <3>1. \A i \in 1..s.pos : i \in 1..(s.pos - 1) \/ i = s.pos
      BY <2>0
    <3> QED BY <2>2, <3>1, <1>3
  <2>4. Listed(s, N) /\ ReadyOrder(s)
    BY <1>1 DEF SearchOK
  <2> HIDE DEF failed
  <2>5. CASE Last(c)
    <3>1. t = [failed EXCEPT !.pc = "exhausted"]
      BY <2>5
    <3> HIDE DEF t
    <3>2. /\ t \in Conn /\ t.pc = "exhausted"
          /\ t.ready = s.ready /\ t.cooling = s.cooling /\ t.tried = s.tried \cup {u}
      BY <2>1, <3>1 DEF Conn
    <3>3. Listed(t, N) /\ ReadyOrder(t) /\ Candidates(t) = Candidates(s)
      BY <2>4, <3>2, SameLists
    <3>4. \A i \in 1..N : Candidates(t)[i] \in t.tried
      BY <2>3, <2>5, <3>2, <3>3, <1>3
    <3> QED BY <3>2, <3>3, <3>4 DEF SearchOK
  <2>6. CASE ~Last(c)
    <3>1. t = [failed EXCEPT !.pos = @ + 1]
      BY <2>6
    <3> HIDE DEF t
    <3>0. s.pos + 1 \in 1..N /\ (s.pos + 1) - 1 = s.pos
      BY <2>0, <2>6, <1>3
    <3>2. /\ t \in Conn /\ t.pc = "search" /\ t.pos = s.pos + 1
          /\ t.ready = s.ready /\ t.cooling = s.cooling /\ t.tried = s.tried \cup {u}
      BY <2>1, <3>0, <3>1 DEF Conn
    <3>3. Listed(t, N) /\ ReadyOrder(t) /\ Candidates(t) = Candidates(s)
      BY <2>4, <3>2, SameLists
    <3>4. \A i \in 1..(t.pos - 1) : Candidates(t)[i] \in t.tried
      BY <2>3, <3>0, <3>2, <3>3
    <3> QED BY <3>2, <3>3, <3>4 DEF SearchOK
  <2> QED BY <2>5, <2>6
<1> HIDE DEF t
<1>7. health' \in [Upstreams -> Health] /\ CooldownShape'
  BY <1>1, <1>2, <1>5, HealthStep DEF RotationInv
<1>8. conn' \in [Conns -> Conn] /\ SearchInv'
  BY <1>2, <1>6, ConnStep DEF RotationInv
<1>9. StreakStands'
  BY <1>1, <1>2, <1>5 DEF RotationInv, TypeOK, StreakStands
<1>10. TypeOK'
  BY <1>1, <1>2, <1>7, <1>8 DEF RotationInv, TypeOK, Conn
<1> QED BY <1>7, <1>8, <1>9, <1>10 DEF RotationInv

LEMMA DeadlinePassedOK ==
  ASSUME RotationInv, NEW c \in Conns, DeadlinePassed(c)
  PROVE  RotationInv'
<1> DEFINE t == [Idle EXCEPT !.pc = "deadline"]
<1>1. conn[c] \in Conn
  BY DEF RotationInv, TypeOK, Conn
<1>2. conn' = [conn EXCEPT ![c] = t] /\ UNCHANGED <<health, prober, trouble>>
  BY DEF DeadlinePassed
<1>3. t \in Conn /\ t.pc = "deadline"
  BY IdleFacts DEF Conn
<1> HIDE DEF t
<1>4. SearchOK(t)
  BY <1>3 DEF SearchOK
<1>5. conn' \in [Conns -> Conn] /\ SearchInv'
  BY <1>2, <1>3, <1>4, ConnStep DEF RotationInv
<1> QED BY <1>2, <1>5 DEF RotationInv, TypeOK, Conn, CooldownShape, StreakStands

\* The upstream the prober is at, and where it goes next.
LEMMA ProberFacts ==
  ASSUME RotationInv
  PROVE  /\ Order[prober.pos] \in Upstreams
         /\ health[Order[prober.pos]] \in Health
         /\ health[Order[prober.pos]].left <= health[Order[prober.pos]].cur
         /\ ProberNext(prober.pos) \in [pos : 1..N, tripped : BOOLEAN]
         /\ ProberNext(prober.pos).tripped = FALSE
<1>1. prober \in [pos : 1..N, tripped : BOOLEAN]
  BY DEF RotationInv, TypeOK
<1>2. prober.pos \in 1..N /\ Order[prober.pos] \in Upstreams
  BY <1>1, OrderFacts
<1>3. (IF prober.pos < N THEN prober.pos + 1 ELSE 1) \in 1..N
  BY <1>2, OrderFacts
<1>4. /\ ProberNext(prober.pos) \in [pos : 1..N, tripped : BOOLEAN]
      /\ ProberNext(prober.pos).tripped = FALSE
  BY <1>3 DEF ProberNext
<1> QED BY <1>2, <1>4 DEF RotationInv, TypeOK, CooldownShape

LEMMA ProbeAnsweredOK ==
  ASSUME RotationInv, ProbeAnswered
  PROVE  RotationInv'
<1> DEFINE u == Order[prober.pos]
           h == RecordProbeOK(health[u])
<1>1. /\ health' = [health EXCEPT ![u] = h] /\ prober' = ProberNext(prober.pos)
      /\ UNCHANGED <<conn, trouble>>
  BY DEF ProbeAnswered
<1>2. u \in Upstreams /\ h \in Health /\ h.left <= h.cur
  BY ProberFacts, RecordFacts
<1> HIDE DEF h, u
<1>3. health' \in [Upstreams -> Health] /\ CooldownShape'
  BY <1>1, <1>2, HealthStep DEF RotationInv
<1>4. prober' \in [pos : 1..N, tripped : BOOLEAN] /\ ~prober'.tripped
  BY <1>1, ProberFacts
<1> QED BY <1>1, <1>3, <1>4 DEF RotationInv, TypeOK, Conn, SearchInv, StreakStands

LEMMA ProbeLostOK ==
  ASSUME RotationInv, ProbeLost
  PROVE  RotationInv'
<1> DEFINE u == Order[prober.pos]
           h == CountProbeFail(health[u])
<1>1. /\ health' = [health EXCEPT ![u] = h] /\ UNCHANGED <<conn, trouble>>
      /\ prober' = IF ProbeTripped(h) THEN [prober EXCEPT !.tripped = TRUE]
                                      ELSE ProberNext(prober.pos)
  BY DEF ProbeLost
<1>2. u \in Upstreams /\ h \in Health /\ h.left <= h.cur
  BY ProberFacts, RecordFacts
<1>3. health' \in [Upstreams -> Health] /\ CooldownShape'
  <2> HIDE DEF h, u
  <2> QED BY <1>1, <1>2, HealthStep DEF RotationInv
<1>4. prober' \in [pos : 1..N, tripped : BOOLEAN] /\ StreakStands'
  <2>0. prober \in [pos : 1..N, tripped : BOOLEAN] /\ health \in [Upstreams -> Health]
    BY DEF RotationInv, TypeOK
  <2>1. CASE ProbeTripped(h)
    <3>1. prober' = [prober EXCEPT !.tripped = TRUE]
      BY <2>1, <1>1
    <3>2. prober' \in [pos : 1..N, tripped : BOOLEAN] /\ prober'.pos = prober.pos
      BY <2>0, <3>1
    <3>3. h.probeFails >= ProbeFailThreshold
      BY <2>1 DEF ProbeTripped
    <3>4. health'[Order[prober'.pos]] = h
      <4> HIDE DEF h
      <4> QED BY <3>2, <2>0, <1>1, <1>2
    <3> HIDE DEF h, u
    <3> QED BY <3>2, <3>3, <3>4 DEF StreakStands
  <2>2. CASE ~ProbeTripped(h)
    <3>1. prober' = ProberNext(prober.pos)
      BY <2>2, <1>1
    <3> QED BY <3>1, ProberFacts DEF StreakStands
  <2> QED BY <2>1, <2>2
<1> QED BY <1>1, <1>3, <1>4 DEF RotationInv, TypeOK, Conn, SearchInv

LEMMA ProbeMarksOK ==
  ASSUME RotationInv, ProbeMarks
  PROVE  RotationInv'
<1> DEFINE u == Order[prober.pos]
           h == MarkFailure(health[u])
<1>1. /\ health' = [health EXCEPT ![u] = h] /\ prober' = ProberNext(prober.pos)
      /\ UNCHANGED <<conn, trouble>>
  BY DEF ProbeMarks
<1>2. u \in Upstreams /\ h \in Health /\ h.left <= h.cur
  BY ProberFacts, MarkFailureFacts
<1> HIDE DEF h, u
<1>3. health' \in [Upstreams -> Health] /\ CooldownShape'
  BY <1>1, <1>2, HealthStep DEF RotationInv
<1>4. prober' \in [pos : 1..N, tripped : BOOLEAN] /\ ~prober'.tripped
  BY <1>1, ProberFacts
<1> QED BY <1>1, <1>3, <1>4 DEF RotationInv, TypeOK, Conn, SearchInv, StreakStands

LEMMA TickOK ==
  ASSUME RotationInv, Tick
  PROVE  RotationInv'
<1>1. /\ health' = [u \in Upstreams |-> [health[u] EXCEPT !.left = IF @ > 0 THEN @ - 1 ELSE 0]]
      /\ UNCHANGED <<conn, prober, trouble>>
  BY DEF Tick, OneUnit
<1>2. ASSUME NEW u \in Upstreams
      PROVE  /\ health'[u] \in Health /\ health'[u].left <= health'[u].cur
             /\ health'[u].cur <= CooldownCap
             /\ health'[u].probeFails = health[u].probeFails
  <2> DEFINE h == health[u]
             l == IF h.left > 0 THEN h.left - 1 ELSE 0
  <2>1. health'[u] = [h EXCEPT !.left = l]
    BY <1>1
  <2>2. h \in Health /\ h.left <= h.cur /\ h.cur <= CooldownCap
    BY DEF RotationInv, TypeOK, CooldownShape
  <2>3. h.left \in 0..CooldownCap /\ h.cur \in 0..CooldownCap
    BY <2>2 DEF Health
  <2>4. l \in 0..CooldownCap /\ l <= h.cur
    BY <2>2, <2>3, CapFacts
  <2> HIDE DEF h, l
  <2>5. /\ health'[u] \in Health /\ health'[u].left = l /\ health'[u].cur = h.cur
        /\ health'[u].probeFails = h.probeFails
    BY <2>1, <2>2, <2>4 DEF Health
  <2> QED BY <2>2, <2>4, <2>5 DEF h
<1>3. health' \in [Upstreams -> Health]
  BY <1>1, <1>2
<1>4. CooldownShape'
  BY <1>2 DEF CooldownShape
<1>5. StreakStands'
  BY <1>1, <1>2, ProberFacts DEF StreakStands, RotationInv
<1> QED BY <1>1, <1>3, <1>4, <1>5 DEF RotationInv, TypeOK, Conn, SearchInv

-----------------------------------------------------------------------------
(* The invariant of the specification.                                      *)

LEMMA InitOK ==
  ASSUME Init
  PROVE  RotationInv
<1>1. Fresh \in Health /\ Fresh.left = 0 /\ Fresh.cur = 0
  BY CapFacts DEF Fresh, Health
<1>2. Idle \in Conn /\ Idle.pc = "idle"
  BY IdleFacts
<1>3. TypeOK
  BY <1>1, <1>2, OrderFacts DEF Init, TypeOK, Conn
<1>4. CooldownShape
  <2>1. \A u \in Upstreams : health[u].left = 0 /\ health[u].cur = 0
    BY <1>1 DEF Init
  <2>2. 0 <= 0 /\ 0 <= CooldownCap
    BY CapFacts
  <2> QED BY <2>1, <2>2, Zenon DEF CooldownShape
<1>5. SearchInv
  BY <1>2 DEF Init, SearchInv, SearchOK
<1>6. StreakStands
  BY DEF Init, StreakStands
<1> QED BY <1>3, <1>4, <1>5, <1>6 DEF RotationInv

LEMMA StepOK ==
  ASSUME RotationInv, [Next]_vars
  PROVE  RotationInv'
<1>1. CASE UNCHANGED vars
  BY <1>1 DEF vars, RotationInv, TypeOK, Conn, CooldownShape, SearchInv, StreakStands
<1>2. ASSUME NEW c \in Conns, Begin(c) \/ Search(c) PROVE RotationInv'
  BY <1>2, BeginOK, ScanOK, CarriedOK, FailedOK, DeadlinePassedOK DEF Search
<1> QED
  BY <1>1, <1>2, ProbeAnsweredOK, ProbeLostOK, ProbeMarksOK, TickOK DEF Next

\* The inductive invariant of the rotation.
THEOREM RotationInvariant == Spec => []RotationInv
<1>1. Init => RotationInv
  BY InitOK
<1>2. RotationInv /\ [Next]_vars => RotationInv'
  BY StepOK
<1> QED BY <1>1, <1>2, PTL DEF Spec

-----------------------------------------------------------------------------
(* What it implies.                                                         *)

\* Every record, list position and counter of the rotation keeps its shape: the
\* streaks and cooldowns of every upstream stay within their thresholds and the
\* cap (markFailure), and no search runs off the candidate list (connectUpstream).
THEOREM TypeCorrect == Spec => []TypeOK
<1>1. RotationInv => TypeOK
  BY DEF RotationInv
<1> QED BY <1>1, RotationInvariant, PTL

\* What is left of a quarantine is never more than the cooldown the next failure
\* arms, however failures of connections and of the prober interleave
\* (markFailure).
THEOREM CooldownsBounded == Spec => []CooldownShape
<1>1. RotationInv => CooldownShape
  BY DEF RotationInv
<1> QED BY <1>1, RotationInvariant, PTL

\* The index at which the candidate list holds a configured upstream.
LEMMA CandidateIndex ==
  ASSUME NEW s \in Conn, Listed(s, N), NEW i \in 1..N
  PROVE  \E k \in 1..N : Candidates(s)[k] = Order[i]
<1>1. CASE s.ready = <<>>
  BY <1>1 DEF Candidates
<1>2. CASE s.ready # <<>>
  <2> DEFINE q == s.ready
             m == s.cooling
  <2>1. q \in Seq(Upstreams) /\ m \in Seq(Upstreams) /\ Len(q) + Len(m) = N
    BY DEF Listed, Conn
  <2>2. Candidates(s) = q \o m
    BY <1>2 DEF Candidates
  <2>3. Order[i] \in Members(q) \cup Members(m)
    BY DEF Listed
  <2> HIDE DEF q, m
  <2>4. \A k \in 1..(Len(q) + Len(m)) :
          (q \o m)[k] = IF k <= Len(q) THEN q[k] ELSE m[k - Len(q)]
    BY <2>1, ConcatProperties
  <2>5. Len(q) \in Nat /\ Len(m) \in Nat /\ DOMAIN q = 1..Len(q) /\ DOMAIN m = 1..Len(m)
    BY <2>1
  <2>6. CASE Order[i] \in Members(q)
    <3>1. PICK k \in 1..Len(q) : q[k] = Order[i]
      BY <2>5, <2>6 DEF Members
    <3>2. k \in 1..N /\ k <= Len(q)
      BY <2>1, <2>5
    <3> QED BY <3>1, <3>2, <2>1, <2>2, <2>4
  <2>7. CASE Order[i] \in Members(m)
    <3>1. PICK k \in 1..Len(m) : m[k] = Order[i]
      BY <2>5, <2>7 DEF Members
    <3>2. /\ Len(q) + k \in 1..N /\ ~(Len(q) + k <= Len(q))
          /\ (Len(q) + k) - Len(q) = k
      BY <2>1, <2>5
    <3> QED BY <3>1, <3>2, <2>1, <2>2, <2>4
  <2> QED BY <2>3, <2>6, <2>7
<1> QED BY <1>1, <1>2

\* A client is refused for want of an upstream only after every configured
\* upstream failed for that very connection (candidateUpstreams, connectUpstream).
THEOREM NobodyDropped == Spec => []ExhaustedMeansAllTried
<1>1. ASSUME RotationInv PROVE ExhaustedMeansAllTried
  <2> SUFFICES ASSUME NEW c \in Conns, conn[c].pc = "exhausted", NEW i \in 1..N
               PROVE  Order[i] \in conn[c].tried
    BY DEF ExhaustedMeansAllTried
  <2>1. conn[c] \in Conn /\ SearchOK(conn[c])
    BY <1>1 DEF RotationInv, TypeOK, Conn, SearchInv
  <2>2. /\ Listed(conn[c], N)
        /\ \A k \in 1..N : Candidates(conn[c])[k] \in conn[c].tried
    BY <2>1 DEF SearchOK
  <2> QED BY <2>1, <2>2, CandidateIndex
<1> QED BY <1>1, RotationInvariant, PTL

\* Configured order is a static preference: an upstream is dialled only when
\* every earlier one failed on this connection or was seen cooling, and a
\* cooling one only after every upstream seen ready (candidateUpstreams).
THEOREM OrderPreferred == Spec => []PreferenceKept
<1>1. ASSUME RotationInv PROVE PreferenceKept
  <2> SUFFICES ASSUME NEW c \in Conns, conn[c].pc = "search",
                      NEW i \in 1..N, NEW j \in 1..N, Order[j] = Candidate(c)
               PROVE  /\ i < j => Order[i] \in conn[c].tried \cup Members(conn[c].cooling)
                      /\ Order[j] \in Members(conn[c].cooling)
                         /\ Order[i] \notin Members(conn[c].cooling) => Order[i] \in conn[c].tried
    BY DEF PreferenceKept
  <2> DEFINE s == conn[c]
             q == s.ready
             m == s.cooling
             p == s.pos
             tried == s.tried
  <2>1. s \in Conn /\ SearchOK(s)
    BY <1>1 DEF RotationInv, TypeOK, Conn, SearchInv
  <2>2. Listed(s, N) /\ ReadyOrder(s) /\ \A k \in 1..(p - 1) : Candidates(s)[k] \in tried
    BY <2>1 DEF SearchOK
  <2>3. p \in 1..N /\ q \in Seq(Upstreams) /\ m \in Seq(Upstreams) /\ Order[j] = Candidates(s)[p]
    BY <2>1 DEF Conn, Candidate
  <2>4. /\ Len(q) + Len(m) = N
        /\ Order[i] \in Members(q) \cup Members(m) /\ Members(q) \cap Members(m) = {}
    BY <2>2 DEF Listed
  <2>5. CASE q = <<>>
    <3>1. Candidates(s) = Order
      BY <2>5 DEF Candidates
    <3>2. p = j
      BY <3>1, <2>3, OrderFacts
    <3>3. i < j => Order[i] \in tried
      BY <2>2, <3>1, <3>2
    <3>4. Order[i] \in Members(m)
      BY <2>4, <2>5 DEF Members
    <3> QED BY <3>3, <3>4
  <2>6. CASE q # <<>>
    <3>1. Candidates(s) = q \o m
      BY <2>6 DEF Candidates
    <3>2. \A k \in 1..(Len(q) + Len(m)) :
            Candidates(s)[k] = IF k <= Len(q) THEN q[k] ELSE m[k - Len(q)]
      <4> HIDE DEF q, m, s
      <4> QED BY <3>1, <2>3, ConcatProperties
    <3>3. \A k \in 1..Len(q), l \in 1..N : Order[l] = q[k] /\ i < l =>
            Order[i] \in Members(m) \/ \E x \in 1..(k - 1) : q[x] = Order[i]
      BY <2>2 DEF ReadyOrder
    <3> HIDE DEF q, m, s, tried, p
    <3>4. Len(q) \in Nat /\ Len(m) \in Nat /\ DOMAIN q = 1..Len(q) /\ DOMAIN m = 1..Len(m)
      BY <2>3
    <3>5. CASE p <= Len(q)
      <4>1. Order[j] = q[p] /\ p \in 1..Len(q) /\ Order[j] \in Members(q)
        <5>1. p \in 1..Len(q) /\ p \in 1..(Len(q) + Len(m))
          BY <3>4, <3>5, <2>3
        <5>2. Order[j] = q[p]
          BY <5>1, <3>2, <3>5, <2>3
        <5> QED BY <5>1, <5>2, <2>3, InMembers
      <4>2. \A x \in 1..(p - 1) : q[x] \in tried
        <5>1. ASSUME NEW x \in 1..(p - 1) PROVE q[x] = Candidates(s)[x]
          BY <3>2, <3>4, <4>1
        <5> QED BY <5>1, <2>2
      <4>3. i < j => Order[i] \in tried \cup Members(m)
        BY <4>1, <4>2, <3>3
      <4> QED BY <4>1, <4>3, <2>4 DEF q, m, s, tried
    <3>6. CASE ~(p <= Len(q))
      <4>1. \A x \in 1..Len(q) : q[x] \in tried
        <5>1. ASSUME NEW x \in 1..Len(q) PROVE q[x] = Candidates(s)[x] /\ x \in 1..(p - 1)
          BY <3>2, <3>4, <3>6, <2>3
        <5> QED BY <5>1, <2>2
      <4>2. Order[i] \in tried \cup Members(m)
        BY <4>1, <2>4, <3>4 DEF Members
      <4> QED BY <4>2 DEF q, m, s, tried
    <3> QED BY <3>5, <3>6
  <2> QED BY <2>5, <2>6
<1> QED BY <1>1, RotationInvariant, PTL

-----------------------------------------------------------------------------
(* What no step may do.                                                     *)

\* The record of an upstream changes in a step that writes another one not at all.
LEMMA OneRecord ==
  ASSUME TypeOK, NEW u \in Upstreams, NEW v \in Upstreams, NEW h,
         health' = [health EXCEPT ![u] = h]
  PROVE  health'[v] = IF v = u THEN h ELSE health[v]
BY DEF TypeOK

\* No failure and no answered probe brings the end of a quarantine nearer; only
\* the clock does, and a handshake that upstream carried (markFailure,
\* recordProbeOK, recordProbeFail).
THEOREM QuarantineKept == Spec => NeverShortened
<1> DEFINE Kept == \A u \in Upstreams : health'[u].left < health[u].left =>
                     \/ Tick
                     \/ \E c \in Conns : Carried(c) /\ Candidate(c) = u
<1>1. ASSUME RotationInv, [Next]_vars PROVE Kept
  <2> SUFFICES ASSUME NEW v \in Upstreams, health'[v].left < health[v].left,
                      ~Tick, \A c \in Conns : ~(Carried(c) /\ Candidate(c) = v)
               PROVE  FALSE
    OBVIOUS
  <2>0. /\ health[v] \in Health /\ health[v].left <= health[v].cur /\ TypeOK
        /\ health[v].left \in Int
    BY <1>1 DEF RotationInv, TypeOK, CooldownShape, Health
  <2>1. CASE UNCHANGED health
    BY <2>1, <2>0
  <2>2. ASSUME NEW c \in Conns, Carried(c) PROVE FALSE
    <3>1. Candidate(c) \in Upstreams /\ Candidate(c) # v
      BY <2>2, <1>1, CandidateFacts DEF RotationInv, Carried
    <3>2. health' = [health EXCEPT ![Candidate(c)] = RecordSuccess(health[Candidate(c)])]
      BY <2>2 DEF Carried
    <3>3. health'[v] = health[v]
      BY <3>1, <3>2, <2>0, OneRecord
    <3> QED BY <3>3, <2>0
  <2>3. ASSUME NEW c \in Conns, Failed(c) PROVE FALSE
    <3>1. Candidate(c) \in Upstreams
      BY <2>3, <1>1, CandidateFacts DEF RotationInv, Failed
    <3>2. health' = [health EXCEPT ![Candidate(c)] = MarkFailure(health[Candidate(c)])]
      BY <2>3 DEF Failed
    <3>3. health'[v] = health[v] \/ health'[v] = MarkFailure(health[v])
      BY <3>1, <3>2, <2>0, OneRecord
    <3>4. health[v].left <= MarkFailure(health[v]).left /\ MarkFailure(health[v]) \in Health
      BY <2>0, MarkFailureFacts
    <3>5. MarkFailure(health[v]).left \in Int
      BY <3>4 DEF Health
    <3> QED BY <3>3, <3>4, <3>5, <2>0
  <2>4. ASSUME ProbeAnswered PROVE FALSE
    <3>1. health' = [health EXCEPT ![Order[prober.pos]] = RecordProbeOK(health[Order[prober.pos]])]
      BY <2>4 DEF ProbeAnswered
    <3>2. health'[v] = health[v] \/ health'[v] = RecordProbeOK(health[v])
      BY <3>1, <2>0, <1>1, ProberFacts, OneRecord
    <3> QED BY <3>2, <2>0, RecordFacts
  <2>5. ASSUME ProbeLost PROVE FALSE
    <3>1. health' = [health EXCEPT ![Order[prober.pos]] = CountProbeFail(health[Order[prober.pos]])]
      BY <2>5 DEF ProbeLost
    <3>2. health'[v] = health[v] \/ health'[v] = CountProbeFail(health[v])
      BY <3>1, <2>0, <1>1, ProberFacts, OneRecord
    <3> QED BY <3>2, <2>0, RecordFacts
  <2>6. ASSUME ProbeMarks PROVE FALSE
    <3>1. health' = [health EXCEPT ![Order[prober.pos]] = MarkFailure(health[Order[prober.pos]])]
      BY <2>6 DEF ProbeMarks
    <3>2. health'[v] = health[v] \/ health'[v] = MarkFailure(health[v])
      BY <3>1, <2>0, <1>1, ProberFacts, OneRecord
    <3>3. health[v].left <= MarkFailure(health[v]).left /\ MarkFailure(health[v]) \in Health
      BY <2>0, MarkFailureFacts
    <3>4. MarkFailure(health[v]).left \in Int
      BY <3>3 DEF Health
    <3> QED BY <3>2, <3>3, <3>4, <2>0
  <2>7. CASE \E c \in Conns : Begin(c) \/ Scan(c) \/ DeadlinePassed(c)
    BY <2>7, <2>1 DEF Begin, Scan, DeadlinePassed
  <2> QED
    BY <1>1, <2>1, <2>2, <2>3, <2>4, <2>5, <2>6, <2>7 DEF Next, Search, vars
<1>2. RotationInv /\ [Next]_vars => [Kept]_vars
  BY <1>1
<1> QED BY <1>2, RotationInvariant, PTL DEF Spec, NeverShortened

\* Lost probes alone put an upstream into quarantine only while a full streak of
\* them stands, also when a connection or another probe runs between the two
\* critical sections of recordProbeFail.
THEOREM StreakNeeded == Spec => ProbeLossNeedsStreak
<1> DEFINE Needed == \A u \in Upstreams : health'[u].left > health[u].left /\ ~trouble'[u] =>
                       health[u].probeFails >= ProbeFailThreshold
<1>1. ASSUME RotationInv, [Next]_vars PROVE Needed
  <2> SUFFICES ASSUME NEW v \in Upstreams, health'[v].left > health[v].left, ~trouble'[v]
               PROVE  health[v].probeFails >= ProbeFailThreshold
    OBVIOUS
  <2>0. /\ health[v] \in Health /\ health[v].left <= health[v].cur /\ TypeOK
        /\ health[v].left \in Nat
    BY <1>1 DEF RotationInv, TypeOK, CooldownShape, Health
  <2>1. CASE UNCHANGED health
    BY <2>1, <2>0
  <2>2. ASSUME NEW c \in Conns, Carried(c) PROVE FALSE
    <3>1. Candidate(c) \in Upstreams
      BY <2>2, <1>1, CandidateFacts DEF RotationInv, Carried
    <3>2. health' = [health EXCEPT ![Candidate(c)] = RecordSuccess(health[Candidate(c)])]
      BY <2>2 DEF Carried
    <3>3. health'[v] = health[v] \/ health'[v] = RecordSuccess(health[v])
      BY <3>1, <3>2, <2>0, OneRecord
    <3>4. health'[v] = health[v] \/ health'[v].left = 0
      BY <3>3, <2>0 DEF RecordSuccess, Health
    <3> QED BY <3>4, <2>0
  <2>3. ASSUME NEW c \in Conns, Failed(c) PROVE FALSE
    <3>1. Candidate(c) \in Upstreams
      BY <2>3, <1>1, CandidateFacts DEF RotationInv, Failed
    <3>2. /\ health' = [health EXCEPT ![Candidate(c)] = MarkFailure(health[Candidate(c)])]
          /\ trouble' = [trouble EXCEPT ![Candidate(c)] = TRUE]
      BY <2>3 DEF Failed
    <3>3. Candidate(c) # v
      BY <3>1, <3>2, <2>0 DEF TypeOK
    <3>4. health'[v] = health[v]
      BY <3>1, <3>2, <3>3, <2>0, OneRecord
    <3> QED BY <3>4, <2>0
  <2>4. ASSUME ProbeAnswered PROVE FALSE
    <3>1. health' = [health EXCEPT ![Order[prober.pos]] = RecordProbeOK(health[Order[prober.pos]])]
      BY <2>4 DEF ProbeAnswered
    <3>2. health'[v] = health[v] \/ health'[v] = RecordProbeOK(health[v])
      BY <3>1, <2>0, <1>1, ProberFacts, OneRecord
    <3> QED BY <3>2, <2>0, RecordFacts
  <2>5. ASSUME ProbeLost PROVE FALSE
    <3>1. health' = [health EXCEPT ![Order[prober.pos]] = CountProbeFail(health[Order[prober.pos]])]
      BY <2>5 DEF ProbeLost
    <3>2. health'[v] = health[v] \/ health'[v] = CountProbeFail(health[v])
      BY <3>1, <2>0, <1>1, ProberFacts, OneRecord
    <3> QED BY <3>2, <2>0, RecordFacts
  <2>6. CASE ProbeMarks
    <3>1. health' = [health EXCEPT ![Order[prober.pos]] = MarkFailure(health[Order[prober.pos]])]
      BY <2>6 DEF ProbeMarks
    <3>2. CASE v = Order[prober.pos]
      BY <3>2, <2>6, <1>1 DEF RotationInv, StreakStands, ProbeMarks
    <3>3. CASE v # Order[prober.pos]
      <4>1. health'[v] = health[v]
        BY <3>1, <3>3, <2>0, <1>1, ProberFacts, OneRecord
      <4> QED BY <4>1, <2>0
    <3> QED BY <3>2, <3>3
  <2>7. CASE Tick
    <3>1. health'[v] = [health[v] EXCEPT !.left = IF @ > 0 THEN @ - 1 ELSE 0]
      BY <2>7 DEF Tick, OneUnit
    <3>2. health'[v].left = IF health[v].left > 0 THEN health[v].left - 1 ELSE 0
      BY <3>1, <2>0 DEF Health
    <3> QED BY <3>2, <2>0
  <2>8. CASE \E c \in Conns : Begin(c) \/ Scan(c) \/ DeadlinePassed(c)
    BY <2>8, <2>1 DEF Begin, Scan, DeadlinePassed
  <2> QED
    BY <1>1, <2>1, <2>2, <2>3, <2>4, <2>5, <2>6, <2>7, <2>8 DEF Next, Search, vars
<1>2. RotationInv /\ [Next]_vars => [Needed]_vars
  BY <1>1
<1> QED BY <1>2, RotationInvariant, PTL DEF Spec, ProbeLossNeedsStreak
=============================================================================
