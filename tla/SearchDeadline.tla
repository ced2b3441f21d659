--------------------------- MODULE SearchDeadline ---------------------------
(***************************************************************************)
(* The time one client connection of smartedge spends in connectUpstream.  *)
(* A step is one wait: a dial, the reply to CONNECT, the wait for proof    *)
(* that the tunnel forwards, or, with no upstream configured, a name       *)
(* lookup and the pause before a retry.  The step chooses how long the     *)
(* wait took, within the limit the code gives it, and how it ended.        *)
(*                                                                         *)
(* The budget of an attempt is computed once, at the head of the loop, and *)
(* each of its three waits is limited by that same number.                 *)
(***************************************************************************)
EXTENDS Integers

CONSTANTS
  Lists,           \* numbers of candidates considered; 0 is the direct path
  ConnectTotal,    \* CONNECT_TOTAL_TIMEOUT as configured
  ConnectTimeout,  \* connectTimeout
  HandshakeIdle,   \* HANDSHAKE_IDLE_TIMEOUT
  ResolveTimeout,  \* resolveTimeout
  MaxRetries,      \* maxRetries of the direct path
  RetryPause       \* the pause between its retries

ASSUME DeadlineAssumption ==
  /\ Lists \subseteq Nat
  /\ ConnectTotal \in Nat \ {0} /\ ConnectTimeout \in Nat \ {0}
  /\ HandshakeIdle \in Nat \ {0} /\ ResolveTimeout \in Nat
  /\ MaxRetries \in Nat \ {0} /\ RetryPause \in Nat

VARIABLES
  n,        \* the number of candidates of this connection
  phase,    \* the wait it is in, or how the search ended
  attempt,  \* which candidate, or which retry of the direct path
  elapsed,  \* time since the deadline was set
  budget    \* remainingBudget as the running attempt took it

vars == <<n, phase, attempt, elapsed, budget>>

Shorter(a, b) == IF b < a THEN b ELSE a

\* CONNECT_TOTAL_TIMEOUT taken as it was configured.
TotalAsConfigured == ConnectTotal

\* floorTotalTimeout, evaluated once at start.
Total == IF ConnectTotal < HandshakeIdle + ConnectTimeout
         THEN HandshakeIdle + ConnectTimeout ELSE ConnectTotal

\* remainingBudget when the clock of the search shows at.
RemainingBudget(at) == IF Total > at THEN Total - at ELSE 0

Ended == {"carried", "exhausted", "deadline", "failed"}

\* A wait of at most limit, after which the search is in phase ph.
Wait(limit, ph) ==
  /\ \E d \in 0..limit : elapsed' = elapsed + d
  /\ phase' = ph
  /\ UNCHANGED <<n, budget>>

-----------------------------------------------------------------------------
(* The search over the candidates.                                          *)

\* The head of the loop, without the budget check.
LoopUnchecked ==
  /\ phase = "loop" /\ attempt <= n
  /\ phase' = "dial" /\ budget' = Total
  /\ UNCHANGED <<n, attempt, elapsed>>

\* The head of the loop while candidates are left and the deadline is ahead.
Loop ==
  /\ phase = "loop" /\ attempt <= n /\ RemainingBudget(elapsed) > 0
  /\ phase' = "dial" /\ budget' = RemainingBudget(elapsed)
  /\ UNCHANGED <<n, attempt, elapsed>>

LoopDeadline ==
  /\ phase = "loop" /\ attempt <= n /\ RemainingBudget(elapsed) = 0
  /\ phase' = "deadline"
  /\ UNCHANGED <<n, attempt, elapsed, budget>>

LoopExhausted ==
  /\ phase = "loop" /\ attempt > n
  /\ phase' = "exhausted"
  /\ UNCHANGED <<n, attempt, elapsed, budget>>

NextCandidate == attempt' = attempt + 1

DialLimit == Shorter(ConnectTimeout, budget)

Dial ==
  /\ phase = "dial"
  /\ \/ Wait(DialLimit, "reply") /\ UNCHANGED attempt
     \/ Wait(DialLimit, "loop") /\ NextCandidate

\* The CONNECT reply, all of it under one read deadline, and the write of the
\* ClientHello, which the socket buffer takes at once or which fails.
Reply ==
  /\ phase = "reply"
  /\ \/ Wait(DialLimit, "await") /\ UNCHANGED attempt
     \/ Wait(DialLimit, "loop") /\ NextCandidate

AwaitLimit == Shorter(HandshakeIdle, budget)

\* awaitUpstreamForward.
Await ==
  /\ phase = "await" /\ n > 0
  /\ \/ Wait(AwaitLimit, "carried") /\ UNCHANGED attempt
     \/ Wait(AwaitLimit, "loop") /\ NextCandidate

-----------------------------------------------------------------------------
(* The direct path: connectWithRetry, then the same proof of forwarding.    *)

\* A failed retry: the pause, unless it was the last one.
Retry ==
  /\ phase = "retry"
  /\ IF attempt < MaxRetries
     THEN /\ elapsed' = elapsed + RetryPause
          /\ phase' = "resolve" /\ attempt' = attempt + 1
     ELSE /\ phase' = "failed"
          /\ UNCHANGED <<elapsed, attempt>>
  /\ UNCHANGED <<n, budget>>

\* A refused local destination ends the search at once.
Resolve ==
  /\ phase = "resolve"
  /\ \E ph \in {"directDial", "retry", "failed"} : Wait(ResolveTimeout, ph)
  /\ UNCHANGED attempt

\* The direct dial is not limited by the deadline.
DirectDial ==
  /\ phase = "directDial"
  /\ \/ Wait(ConnectTimeout, "retry")
     \/ \E d \in 0..ConnectTimeout :
          /\ elapsed' = elapsed + d
          /\ phase' = "await"
          /\ budget' = RemainingBudget(elapsed + d)
          /\ UNCHANGED n
  /\ UNCHANGED attempt

DirectAwait ==
  /\ phase = "await" /\ n = 0
  /\ \E ph \in {"carried", "failed"} : Wait(AwaitLimit, ph)
  /\ UNCHANGED attempt

Init ==
  /\ n \in Lists
  /\ phase = IF n = 0 THEN "resolve" ELSE "loop"
  /\ attempt = 1 /\ elapsed = 0 /\ budget = 0

Next ==
  \/ Loop \/ LoopDeadline \/ LoopExhausted \/ Dial \/ Reply \/ Await
  \/ Resolve \/ DirectDial \/ Retry \/ DirectAwait

Spec == Init /\ [][Next]_vars

-----------------------------------------------------------------------------
(* Properties.                                                              *)

TypeOK ==
  /\ n \in Lists /\ attempt \in Nat /\ elapsed \in Nat /\ budget \in 0..Total
  /\ phase \in {"loop", "dial", "reply", "await", "resolve", "directDial", "retry"} \cup Ended

\* The longest connectWithRetry can take.
DirectCost == MaxRetries * (ResolveTimeout + ConnectTimeout) + (MaxRetries - 1) * RetryPause

\* The longest a client waits for connectUpstream.  The budget of an attempt is
\* spent up to three times, so the last attempt may end two connect timeouts
\* after the deadline; the direct path never waits beyond the deadline for the
\* handshake, whatever the lookups and dials cost.
SearchBounded ==
  elapsed <= IF n > 0 THEN Total + 2 * ConnectTimeout
             ELSE IF DirectCost > Total THEN DirectCost ELSE Total

\* The first candidate is given the whole handshake wait, however small the
\* configured total is (floorTotalTimeout: a total that is too small cannot
\* fail traffic that would otherwise have been carried).
FirstHandshakeUncut ==
  phase = "await" /\ n > 0 /\ attempt = 1 => AwaitLimit = HandshakeIdle
=============================================================================
