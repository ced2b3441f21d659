----------------------------- MODULE DohBreaker -----------------------------
(***************************************************************************)
(* What smartdns does for a cache miss: ask the primary DoH upstream, then *)
(* the backup, then plain UDP; and the circuit breaker each DoH resolver   *)
(* keeps (upstream.go).  Queries run concurrently and share the breakers.  *)
(*                                                                         *)
(* A query takes breakerMu twice, to look at retryAfter before it asks and *)
(* to report the result: two steps with the exchange between them.         *)
(* retryAfter is kept as the time it is ahead of the clock.                *)
(***************************************************************************)
EXTENDS Integers

CONSTANTS
  Queries,    \* lookups in progress at the same time
  Threshold,  \* failures that open a breaker (3 in the source)
  Cooldown    \* how long it stays open, in ticks (30 s in the source)

ASSUME BreakerAssumption == Threshold \in Nat \ {0} /\ Cooldown \in Nat \ {0}

VARIABLES
  failures,  \* resolver.failures
  open,      \* time until resolver.retryAfter, 0 when it has passed
  query,     \* query[q]: its leg, where it stands in it, and how it ended
  streak     \* history: failures reported in a row, saturated at Threshold

vars == <<failures, open, query, streak>>

Resolvers == {"primary", "backup"}

\* After the backup the primary is tried again.
NextLegAround(leg) == IF leg = "primary" THEN "backup" ELSE "primary"

\* The order of the legs in lookup (resolve).
NextLeg(leg) == IF leg = "primary" THEN "backup" ELSE "udp"

Idle == [pc |-> "idle", leg |-> "primary"]

Smaller(a, b) == IF a < b THEN a ELSE b

-----------------------------------------------------------------------------
(* One leg after another.                                                   *)

\* A leg that failed or was bypassed hands over to the next one.
HandOver(q) == [query[q] EXCEPT !.leg = NextLeg(@), !.pc = "gate"]

Begin(q) ==
  /\ query[q].pc \in {"idle", "answered", "servfail"}
  /\ query' = [query EXCEPT ![q] = [Idle EXCEPT !.pc = "gate"]]
  /\ UNCHANGED <<failures, open, streak>>

\* A question the policy or the cache answers.
AnsweredHere(q) ==
  /\ query[q].pc \in {"idle", "answered", "servfail"}
  /\ query' = [query EXCEPT ![q] = [Idle EXCEPT !.pc = "answered"]]
  /\ UNCHANGED <<failures, open, streak>>

\* A bypassed query counts as one more failure of the upstream.
BypassedCounting(q) ==
  LET r == query[q].leg
  IN /\ query[q].pc = "gate" /\ r \in Resolvers /\ open[r] > 0
     /\ query' = [query EXCEPT ![q] = HandOver(q)]
     /\ open' = [open EXCEPT ![r] = Cooldown]
     /\ UNCHANGED <<failures, streak>>

\* query: the breaker is open, the leg fails at once.
Bypassed(q) ==
  LET r == query[q].leg
  IN /\ query[q].pc = "gate" /\ r \in Resolvers /\ open[r] > 0
     /\ query' = [query EXCEPT ![q] = HandOver(q)]
     /\ UNCHANGED <<failures, open, streak>>

\* query: the breaker is closed, the exchange starts after the unlock.
Ask(q) ==
  LET r == query[q].leg
  IN /\ query[q].pc = "gate" /\ r \in Resolvers /\ open[r] = 0
     /\ query' = [query EXCEPT ![q].pc = "ask"]
     /\ UNCHANGED <<failures, open, streak>>

\* A success that leaves the failures of before in the count.
ReportAnswerKeeping(r) == failures' = failures /\ open' = [open EXCEPT ![r] = 0]

\* The second critical section after a success.
ReportAnswer(r) ==
  /\ failures' = [failures EXCEPT ![r] = 0]
  /\ open' = [open EXCEPT ![r] = 0]

Answered(q) ==
  LET r == query[q].leg
  IN /\ query[q].pc = "ask"
     /\ ReportAnswer(r)
     /\ query' = [query EXCEPT ![q].pc = "answered"]
     /\ streak' = [streak EXCEPT ![r] = 0]

\* The second critical section after a failure.
ReportFailure(r) ==
  LET opens == failures[r] + 1 >= Threshold
  IN /\ failures' = [failures EXCEPT ![r] = IF opens THEN 0 ELSE @ + 1]
     /\ open' = [open EXCEPT ![r] = IF opens THEN Cooldown ELSE @]

Failed(q) ==
  LET r == query[q].leg
  IN /\ query[q].pc = "ask"
     /\ ReportFailure(r)
     /\ query' = [query EXCEPT ![q] = HandOver(q)]
     /\ streak' = [streak EXCEPT ![r] = Smaller(@ + 1, Threshold)]

\* queryUDP, which has a deadline of its own.
Udp(q) ==
  /\ query[q].pc = "gate" /\ query[q].leg = "udp"
  /\ \E pc \in {"answered", "servfail"} :
       query' = [query EXCEPT ![q].pc = pc]
  /\ UNCHANGED <<failures, open, streak>>

Tick ==
  /\ \E r \in Resolvers : open[r] > 0
  /\ open' = [r \in Resolvers |-> IF open[r] > 0 THEN open[r] - 1 ELSE 0]
  /\ UNCHANGED <<failures, query, streak>>

Init ==
  /\ failures = [r \in Resolvers |-> 0]
  /\ open = [r \in Resolvers |-> 0]
  /\ query = [q \in Queries |-> Idle]
  /\ streak = [r \in Resolvers |-> 0]

Step(q) == Bypassed(q) \/ Ask(q) \/ Answered(q) \/ Failed(q) \/ Udp(q)

Next == (\E q \in Queries : Begin(q) \/ Step(q)) \/ Tick

Spec == Init /\ [][Next]_vars

\* Weak fairness of Step(q) and of the clock, with their ENABLED written out:
\* every exchange ends (client timeout, context, socket deadline), a handler that
\* can run does, and time passes.
GoesOn(q) ==
  []<>(query[q].pc \notin {"gate", "ask"}) \/ []<><<Step(q)>>_vars

TimePasses ==
  []<>(\A r \in Resolvers : open[r] = 0) \/ []<><<Tick>>_vars

FairSpec == Spec /\ (\A q \in Queries : GoesOn(q)) /\ TimePasses

-----------------------------------------------------------------------------
(* Properties.                                                              *)

TypeOK ==
  /\ failures \in [Resolvers -> 0..(Threshold - 1)]
  /\ open \in [Resolvers -> 0..Cooldown]
  /\ query \in [Queries -> [pc : {"idle", "gate", "ask", "answered", "servfail"},
                            leg : Resolvers \cup {"udp"}]]
  /\ streak \in [Resolvers -> 0..Threshold]

\* An upstream is bypassed only while its last Threshold answers were failures:
\* one success among interleaved reports, however late, closes the breaker.
BypassedOnlyAfterStreak == \A r \in Resolvers : open[r] > 0 => streak[r] = Threshold

\* An open breaker closes: late failures of queries that were already out
\* cannot keep an upstream bypassed forever.
BypassEnds == \A r \in Resolvers : []<>(open[r] = 0)
=============================================================================
