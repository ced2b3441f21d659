-------------------------- MODULE EdgeTunnelProofs --------------------------
(***************************************************************************)
(* One client connection of smartedge, for any timeouts, any number of     *)
(* upstreams and retries, any ClientHello and any streams: how long the    *)
(* search can take, what each end is given, and that everything is closed. *)
(*                                                                         *)
(* The invariant of the search follows the clock wait by wait.  On the     *)
(* proxied path an attempt starts with elapsed + budget = Total, and each  *)
(* of its waits is at most the budget, so the sum may exceed the total by  *)
(* two connect timeouts and no more; on the direct path retry a starts     *)
(* after at most a - 1 whole rounds of lookup, dial and pause.             *)
(*                                                                         *)
(* The invariant of the connection says where every byte is that was read  *)
(* and not yet written, and which sockets are open at each point.          *)
(***************************************************************************)
EXTENDS EdgeTunnel, SequenceTheorems, TLAPS

\* A whole failed retry of the direct path, its pause included.
RoundCost == ResolveTimeout + ConnectTimeout + RetryPause

Before(a) == (a - 1) * RoundCost

Limit == IF n > 0 THEN Total + 2 * ConnectTimeout
         ELSE IF DirectCost > Total THEN DirectCost ELSE Total

ProxyClock ==
  /\ phase \in {"loop", "dial", "reply"} => n > 0
  /\ phase = "dial" => elapsed + budget <= Total
  /\ phase = "reply" => elapsed + budget <= Total + DialLimit
  /\ phase = "await" /\ n > 0 => elapsed + budget <= Total + 2 * DialLimit

DirectClock ==
  /\ phase \in {"resolve", "directDial", "retry"} => n = 0
  /\ n = 0 => attempt \in 1..MaxRetries
  /\ phase = "resolve" => elapsed <= Before(attempt)
  /\ phase = "directDial" => elapsed <= Before(attempt) + ResolveTimeout
  /\ phase = "retry" => elapsed <= Before(attempt) + ResolveTimeout + ConnectTimeout
  /\ phase = "await" /\ n = 0 =>
       /\ elapsed <= Before(attempt) + ResolveTimeout + ConnectTimeout
       /\ budget = RemainingBudget(elapsed)

\* The first attempt of the proxied path runs on the whole total.
FirstBudget == phase \in {"dial", "reply", "await"} /\ n > 0 /\ attempt = 1 => budget = Total

FirstLoop == phase = "loop" /\ attempt = 1 => elapsed = 0

ClockInv ==
  TypeOK /\ attempt >= 1 /\ ProxyClock /\ DirectClock /\ FirstBudget /\ FirstLoop /\ elapsed <= Limit

-----------------------------------------------------------------------------
(* Arithmetic.                                                              *)

LEMMA ConstFacts ==
  /\ Lists \subseteq Nat /\ ConnectTotal \in Nat /\ ConnectTimeout \in Nat
  /\ HandshakeIdle \in Nat /\ ResolveTimeout \in Nat /\ RetryPause \in Nat
  /\ MaxRetries \in Nat /\ MaxRetries >= 1
  /\ Total \in Nat /\ Total > 0 /\ HandshakeIdle + ConnectTimeout <= Total
  /\ RoundCost \in Nat
BY DeadlineAssumption DEF Total, RoundCost

LEMMA Products ==
  ASSUME NEW k \in Nat, NEW a \in Nat, NEW b \in Nat, a <= b
  PROVE  a * k \in Nat /\ a * k <= b * k /\ (a + 1) * k = a * k + k
<1>1. (b - a) * k \in Nat
  <2>1. b - a \in Nat
    OBVIOUS
  <2> QED BY <2>1
<1>2. (b - a) * k = b * k - a * k
  OBVIOUS
<1>3. a * k \in Nat /\ b * k \in Nat /\ (a + 1) * k = a * k + k
  OBVIOUS
<1> QED BY <1>1, <1>2, <1>3

LEMMA BeforeFacts ==
  ASSUME NEW a \in 1..MaxRetries
  PROVE  /\ Before(a) \in Nat
         /\ Before(a) + ResolveTimeout + ConnectTimeout <= DirectCost
         /\ Before(a + 1) = Before(a) + RoundCost
         /\ DirectCost \in Nat
<1> DEFINE b == a - 1
           m == MaxRetries - 1
<1>1. a \in Nat /\ b \in Nat /\ m \in Nat /\ b <= m /\ (a + 1) - 1 = b + 1
  BY ConstFacts
<1>2. Before(a) = b * RoundCost /\ Before(a + 1) = (b + 1) * RoundCost
  BY <1>1 DEF Before
<1> DEFINE q == ResolveTimeout + ConnectTimeout
<1>3. q \in Nat /\ RoundCost = q + RetryPause
  BY ConstFacts DEF RoundCost
<1>4. DirectCost = MaxRetries * q + m * RetryPause
  BY DEF DirectCost
<1>5. MaxRetries = m + 1
  BY ConstFacts
<1> HIDE DEF b, m, q
<1>6. DirectCost = m * RoundCost + q
  <2>1. (m + 1) * q = m * q + q
    BY <1>1, <1>3
  <2>2. m * (q + RetryPause) = m * q + m * RetryPause
    BY <1>1, <1>3, ConstFacts
  <2>3. m * q \in Nat /\ m * RetryPause \in Nat
    BY <1>1, <1>3, ConstFacts
  <2> QED BY <2>1, <2>2, <2>3, <1>3, <1>4, <1>5, ConstFacts
<1>7. /\ b * RoundCost \in Nat /\ b * RoundCost <= m * RoundCost
      /\ (b + 1) * RoundCost = b * RoundCost + RoundCost
      /\ m * RoundCost \in Nat
  BY <1>1, ConstFacts, Products
<1>8. Before(a) \in Nat /\ Before(a) + q <= DirectCost /\ DirectCost \in Nat
  BY <1>2, <1>3, <1>6, <1>7
<1>9. Before(a) + ResolveTimeout + ConnectTimeout = Before(a) + q
  BY <1>8, ConstFacts DEF q
<1> QED BY <1>2, <1>7, <1>8, <1>9

LEMMA Slack ==
  \A e, f, b, t, d \in Nat : f <= e + d /\ e + b <= t => f + b <= t + d
OBVIOUS

LEMMA LimitFacts ==
  ASSUME TypeOK
  PROVE  /\ n \in Nat /\ Limit \in Nat
         /\ n > 0 => Limit = Total + 2 * ConnectTimeout
         /\ n = 0 => DirectCost <= Limit /\ Total <= Limit
<1>1. DirectCost \in Nat
  BY BeforeFacts, ConstFacts
<1>2. n \in Nat
  BY ConstFacts DEF TypeOK
<1> QED BY <1>1, <1>2, ConstFacts DEF Limit

LEMMA BudgetFacts ==
  ASSUME NEW e \in Nat
  PROVE  RemainingBudget(e) \in 0..Total /\ (RemainingBudget(e) > 0 => e + RemainingBudget(e) = Total)
BY ConstFacts DEF RemainingBudget

LEMMA WaitLimits ==
  ASSUME budget \in 0..Total
  PROVE  /\ DialLimit \in Nat /\ DialLimit <= ConnectTimeout /\ DialLimit <= budget
         /\ AwaitLimit \in Nat /\ AwaitLimit <= HandshakeIdle /\ AwaitLimit <= budget
BY ConstFacts DEF DialLimit, AwaitLimit, Shorter

LEMMA WaitFacts ==
  ASSUME NEW limit \in Nat, NEW ph, Wait(limit, ph), elapsed \in Nat
  PROVE  /\ elapsed' \in Nat /\ elapsed' <= elapsed + limit /\ elapsed <= elapsed'
         /\ phase' = ph /\ n' = n /\ budget' = budget
BY DEF Wait

-----------------------------------------------------------------------------
(* One step of the clock at a time.                                         *)

LEMMA LoopOK ==
  ASSUME ClockInv, Loop \/ LoopDeadline \/ LoopExhausted
  PROVE  ClockInv'
<1>1. /\ n \in Nat /\ elapsed \in Nat /\ attempt \in Nat /\ TypeOK /\ n' = n
      /\ attempt' = attempt /\ elapsed' = elapsed /\ n > 0
  BY ConstFacts DEF ClockInv, TypeOK, Loop, LoopDeadline, LoopExhausted, ProxyClock
<1>2. CASE Loop
  <2>1. budget' = RemainingBudget(elapsed) /\ phase' = "dial" /\ RemainingBudget(elapsed) > 0
    BY <1>2 DEF Loop
  <2>2. budget' \in 0..Total /\ elapsed + budget' = Total
    BY <1>1, <2>1, BudgetFacts
  <2>3. attempt = 1 => budget' = Total
    BY <1>1, <1>2, <2>2, ConstFacts DEF ClockInv, FirstLoop, Loop
  <2> QED
    BY <1>1, <2>1, <2>2, <2>3, ConstFacts
       DEF ClockInv, TypeOK, ProxyClock, DirectClock, FirstBudget, FirstLoop, Limit
<1>3. CASE LoopDeadline \/ LoopExhausted
  <2>1. budget' = budget /\ phase' \in {"deadline", "exhausted"}
    BY <1>3 DEF LoopDeadline, LoopExhausted
  <2> QED
    BY <1>1, <2>1
       DEF ClockInv, TypeOK, ProxyClock, DirectClock, FirstBudget, FirstLoop, Limit, Ended
<1> QED BY <1>2, <1>3

LEMMA DialOK ==
  ASSUME ClockInv, Dial
  PROVE  ClockInv'
<1>1. /\ n \in Nat /\ elapsed \in Nat /\ attempt \in Nat /\ attempt >= 1 /\ TypeOK
      /\ budget \in 0..Total /\ n > 0 /\ elapsed + budget <= Total /\ phase = "dial"
      /\ (attempt = 1 => budget = Total)
  BY ConstFacts DEF ClockInv, TypeOK, Dial, ProxyClock, FirstBudget
<1>2. /\ DialLimit \in Nat /\ DialLimit <= ConnectTimeout /\ DialLimit <= budget
  BY <1>1, WaitLimits
<1>3. CASE Wait(DialLimit, "reply") /\ UNCHANGED attempt
  <2>1. /\ elapsed' \in Nat /\ elapsed' <= elapsed + DialLimit
        /\ phase' = "reply" /\ n' = n /\ budget' = budget /\ attempt' = attempt
    BY <1>1, <1>2, <1>3, WaitFacts
  <2>2. DialLimit' = DialLimit
    BY <2>1 DEF DialLimit, Shorter
  <2>3. elapsed' + budget' <= Total + DialLimit /\ elapsed' <= Total + 2 * ConnectTimeout
    <3> DEFINE d == DialLimit
    <3>1. /\ d \in Nat /\ d <= ConnectTimeout /\ d <= budget /\ budget \in Nat
          /\ elapsed' <= elapsed + d /\ elapsed + budget <= Total
          /\ elapsed \in Nat /\ elapsed' \in Nat /\ Total \in Nat /\ ConnectTimeout \in Nat /\ budget' = budget
      BY <1>1, <1>2, <2>1, ConstFacts
    <3> HIDE DEF d
    <3>2. elapsed' + budget <= Total + d
      BY <3>1, Slack
    <3>3. elapsed' <= Total + 2 * ConnectTimeout
      BY <3>1, <3>2
    <3>4. elapsed' + budget' = elapsed' + budget
      BY <3>1
    <3> QED BY <3>2, <3>3, <3>4 DEF d
  <2>4. elapsed' + budget' <= Total + DialLimit'
    BY <2>2, <2>3
  <2> QED
    BY <1>1, <2>1, <2>3, <2>4
       DEF ClockInv, TypeOK, ProxyClock, DirectClock, FirstBudget, FirstLoop, Limit
<1>4. CASE Wait(DialLimit, "loop") /\ NextCandidate
  <2>1. /\ elapsed' \in Nat /\ elapsed' <= elapsed + DialLimit
        /\ phase' = "loop" /\ n' = n /\ budget' = budget /\ attempt' = attempt + 1
    BY <1>1, <1>2, <1>4, WaitFacts DEF NextCandidate
  <2>2. elapsed' <= Total + 2 * ConnectTimeout /\ attempt' # 1 /\ attempt' \in Nat /\ attempt' >= 1
    BY <1>1, <1>2, <2>1, ConstFacts
  <2> QED
    BY <1>1, <2>1, <2>2
       DEF ClockInv, TypeOK, ProxyClock, DirectClock, FirstBudget, FirstLoop, Limit
<1> QED BY <1>3, <1>4 DEF Dial

LEMMA ReplyOK ==
  ASSUME ClockInv, Reply
  PROVE  ClockInv'
<1>1. /\ n \in Nat /\ elapsed \in Nat /\ attempt \in Nat /\ attempt >= 1 /\ TypeOK
      /\ budget \in 0..Total /\ n > 0 /\ elapsed + budget <= Total + DialLimit
      /\ phase = "reply" /\ (attempt = 1 => budget = Total)
  BY ConstFacts DEF ClockInv, TypeOK, Reply, ProxyClock, FirstBudget
<1>2. /\ DialLimit \in Nat /\ DialLimit <= ConnectTimeout /\ DialLimit <= budget
  BY <1>1, WaitLimits
<1>3. CASE Wait(DialLimit, "await") /\ UNCHANGED attempt
  <2>1. /\ elapsed' \in Nat /\ elapsed' <= elapsed + DialLimit
        /\ phase' = "await" /\ n' = n /\ budget' = budget /\ attempt' = attempt
    BY <1>1, <1>2, <1>3, WaitFacts
  <2>2. DialLimit' = DialLimit
    BY <2>1 DEF DialLimit, Shorter
  <2>3. elapsed' + budget' <= Total + 2 * DialLimit /\ elapsed' <= Total + 2 * ConnectTimeout
    <3> DEFINE d == DialLimit
    <3>1. /\ d \in Nat /\ d <= ConnectTimeout /\ d <= budget /\ budget \in Nat
          /\ elapsed' <= elapsed + d /\ elapsed + budget <= Total + d
          /\ elapsed \in Nat /\ elapsed' \in Nat /\ Total \in Nat /\ ConnectTimeout \in Nat /\ budget' = budget
      BY <1>1, <1>2, <2>1, ConstFacts
    <3> HIDE DEF d
    <3>2. elapsed' + budget <= Total + 2 * d
      <4> DEFINE t == Total + d
      <4>1. t \in Nat /\ elapsed + budget <= t /\ t + d = Total + 2 * d
        BY <3>1
      <4> HIDE DEF t
      <4>2. elapsed' + budget <= t + d
        BY <3>1, <4>1, Slack
      <4> QED BY <4>1, <4>2
    <3>3. elapsed' <= Total + 2 * ConnectTimeout
      BY <3>1, <3>2
    <3>4. elapsed' + budget' = elapsed' + budget
      BY <3>1
    <3> QED BY <3>2, <3>3, <3>4 DEF d
  <2>4. elapsed' + budget' <= Total + 2 * DialLimit'
    BY <2>2, <2>3
  <2> QED
    BY <1>1, <2>1, <2>3, <2>4
       DEF ClockInv, TypeOK, ProxyClock, DirectClock, FirstBudget, FirstLoop, Limit
<1>4. CASE Wait(DialLimit, "loop") /\ NextCandidate
  <2>1. /\ elapsed' \in Nat /\ elapsed' <= elapsed + DialLimit
        /\ phase' = "loop" /\ n' = n /\ budget' = budget /\ attempt' = attempt + 1
    BY <1>1, <1>2, <1>4, WaitFacts DEF NextCandidate
  <2>2. elapsed' <= Total + 2 * ConnectTimeout /\ attempt' # 1 /\ attempt' \in Nat /\ attempt' >= 1
    BY <1>1, <1>2, <2>1, ConstFacts
  <2> QED
    BY <1>1, <2>1, <2>2
       DEF ClockInv, TypeOK, ProxyClock, DirectClock, FirstBudget, FirstLoop, Limit
<1> QED BY <1>3, <1>4 DEF Reply

LEMMA AwaitOK ==
  ASSUME ClockInv, Await
  PROVE  ClockInv'
<1>1. /\ n \in Nat /\ elapsed \in Nat /\ attempt \in Nat /\ attempt >= 1 /\ TypeOK
      /\ budget \in 0..Total /\ n > 0 /\ elapsed + budget <= Total + 2 * DialLimit
  BY ConstFacts DEF ClockInv, TypeOK, Await, ProxyClock
<1>2. /\ DialLimit \in Nat /\ DialLimit <= ConnectTimeout
      /\ AwaitLimit \in Nat /\ AwaitLimit <= budget
  BY <1>1, WaitLimits
<1>3. ASSUME NEW ph \in {"carried", "loop"}, Wait(AwaitLimit, ph)
      PROVE  /\ elapsed' \in Nat /\ elapsed' <= Total + 2 * ConnectTimeout
             /\ phase' = ph /\ n' = n /\ budget' = budget
  <2>1. /\ elapsed' \in Nat /\ elapsed' <= elapsed + AwaitLimit
        /\ phase' = ph /\ n' = n /\ budget' = budget
    BY <1>1, <1>2, <1>3, WaitFacts
  <2> QED BY <1>1, <1>2, <2>1, ConstFacts
<1>4. CASE Wait(AwaitLimit, "carried") /\ UNCHANGED attempt
  BY <1>1, <1>3, <1>4
     DEF ClockInv, TypeOK, ProxyClock, DirectClock, FirstBudget, FirstLoop, Limit, Ended
<1>5. CASE Wait(AwaitLimit, "loop") /\ NextCandidate
  <2>1. attempt' # 1 /\ attempt' \in Nat /\ attempt' >= 1
    BY <1>1, <1>5 DEF NextCandidate
  <2> QED
    BY <1>1, <1>3, <1>5, <2>1
       DEF ClockInv, TypeOK, ProxyClock, DirectClock, FirstBudget, FirstLoop, Limit
<1> QED BY <1>4, <1>5 DEF Await

LEMMA RetryOK ==
  ASSUME ClockInv, Retry
  PROVE  ClockInv'
<1>1. /\ n = 0 /\ elapsed \in Nat /\ attempt \in 1..MaxRetries /\ TypeOK
      /\ elapsed <= Before(attempt) + ResolveTimeout + ConnectTimeout
      /\ n' = n /\ budget' = budget
  BY DEF ClockInv, TypeOK, Retry, DirectClock
<1>2. /\ Before(attempt) \in Nat
      /\ Before(attempt) + ResolveTimeout + ConnectTimeout <= DirectCost
      /\ Before(attempt + 1) = Before(attempt) + RoundCost /\ DirectCost \in Nat
  BY <1>1, BeforeFacts
<1>3. DirectCost <= Limit /\ Limit \in Nat /\ Limit' = Limit
  BY <1>1, LimitFacts DEF Limit
<1>4. CASE attempt < MaxRetries
  <2>1. elapsed' = elapsed + RetryPause /\ phase' = "resolve" /\ attempt' = attempt + 1
    BY <1>4 DEF Retry
  <2>2. attempt' \in 1..MaxRetries /\ attempt' \in Nat /\ attempt' >= 1
    BY <1>1, <1>4, <2>1, ConstFacts
  <2>3. elapsed' \in Nat /\ elapsed' <= Before(attempt')
    BY <1>1, <1>2, <2>1, ConstFacts DEF RoundCost
  <2>4. elapsed' <= Limit'
    <3>1. /\ Before(attempt') \in Nat
          /\ Before(attempt') + ResolveTimeout + ConnectTimeout <= DirectCost
      BY <2>2, BeforeFacts
    <3> QED BY <3>1, <2>3, <1>2, <1>3, ConstFacts
  <2> QED
    BY <1>1, <2>1, <2>2, <2>3, <2>4
       DEF ClockInv, TypeOK, ProxyClock, DirectClock, FirstBudget, FirstLoop
<1>5. CASE ~(attempt < MaxRetries)
  <2>1. elapsed' = elapsed /\ phase' = "failed" /\ attempt' = attempt
    BY <1>5 DEF Retry
  <2>2. attempt' \in Nat /\ attempt' >= 1
    BY <1>1, <2>1, ConstFacts
  <2> QED
    BY <1>1, <1>3, <2>1, <2>2
       DEF ClockInv, TypeOK, ProxyClock, DirectClock, FirstBudget, FirstLoop, Ended
<1> QED BY <1>4, <1>5

LEMMA ResolveOK ==
  ASSUME ClockInv, Resolve
  PROVE  ClockInv'
<1>1. /\ n = 0 /\ elapsed \in Nat /\ attempt \in 1..MaxRetries /\ TypeOK
      /\ elapsed <= Before(attempt) /\ attempt' = attempt
  BY DEF ClockInv, TypeOK, Resolve, DirectClock
<1>2. /\ Before(attempt) \in Nat
      /\ Before(attempt) + ResolveTimeout + ConnectTimeout <= DirectCost /\ DirectCost \in Nat
  BY <1>1, BeforeFacts
<1>3. PICK ph \in {"directDial", "retry", "failed"} : Wait(ResolveTimeout, ph)
  BY DEF Resolve
<1>4. /\ elapsed' \in Nat /\ elapsed' <= elapsed + ResolveTimeout
      /\ phase' = ph /\ n' = n /\ budget' = budget
  BY <1>1, <1>3, WaitFacts, ConstFacts
<1>5. DirectCost <= Limit /\ Limit \in Nat /\ Limit' = Limit
  BY <1>1, <1>4, LimitFacts DEF Limit
<1>6. /\ elapsed' <= Before(attempt') + ResolveTimeout
      /\ elapsed' <= Before(attempt') + ResolveTimeout + ConnectTimeout
      /\ elapsed' <= Limit' /\ attempt' \in Nat /\ attempt' >= 1
  BY <1>1, <1>2, <1>4, <1>5, ConstFacts
<1> QED
  BY <1>1, <1>4, <1>6
     DEF ClockInv, TypeOK, ProxyClock, DirectClock, FirstBudget, FirstLoop, Ended

LEMMA DirectDialOK ==
  ASSUME ClockInv, DirectDial
  PROVE  ClockInv'
<1>1. /\ n = 0 /\ elapsed \in Nat /\ attempt \in 1..MaxRetries /\ TypeOK
      /\ elapsed <= Before(attempt) + ResolveTimeout /\ attempt' = attempt
  BY DEF ClockInv, TypeOK, DirectDial, DirectClock
<1>2. /\ Before(attempt) \in Nat
      /\ Before(attempt) + ResolveTimeout + ConnectTimeout <= DirectCost /\ DirectCost \in Nat
  BY <1>1, BeforeFacts
<1>3. CASE Wait(ConnectTimeout, "retry")
  <2>1. /\ elapsed' \in Nat /\ elapsed' <= elapsed + ConnectTimeout
        /\ phase' = "retry" /\ n' = n /\ budget' = budget
    BY <1>1, <1>3, WaitFacts, ConstFacts
  <2>2. DirectCost <= Limit /\ Limit \in Nat /\ Limit' = Limit
    BY <1>1, <2>1, LimitFacts DEF Limit
  <2>3. /\ elapsed' <= Before(attempt') + ResolveTimeout + ConnectTimeout
        /\ elapsed' <= Limit' /\ attempt' \in Nat /\ attempt' >= 1
    BY <1>1, <1>2, <2>1, <2>2, ConstFacts
  <2> QED
    BY <1>1, <2>1, <2>3
       DEF ClockInv, TypeOK, ProxyClock, DirectClock, FirstBudget, FirstLoop
<1>4. ASSUME NEW d \in 0..ConnectTimeout, elapsed' = elapsed + d, phase' = "await",
             budget' = RemainingBudget(elapsed + d), n' = n
      PROVE  ClockInv'
  <2>1. elapsed' \in Nat /\ elapsed' <= elapsed + ConnectTimeout
    BY <1>1, <1>4, ConstFacts
  <2>2. DirectCost <= Limit /\ Limit \in Nat /\ Limit' = Limit
    BY <1>1, <1>4, LimitFacts DEF Limit
  <2>3. /\ elapsed' <= Before(attempt') + ResolveTimeout + ConnectTimeout
        /\ elapsed' <= Limit' /\ attempt' \in Nat /\ attempt' >= 1
    BY <1>1, <1>2, <2>1, <2>2, ConstFacts
  <2>4. budget' = RemainingBudget(elapsed') /\ budget' \in 0..Total
    BY <1>4, <2>1, BudgetFacts
  <2> QED
    BY <1>1, <1>4, <2>1, <2>3, <2>4
       DEF ClockInv, TypeOK, ProxyClock, DirectClock, FirstBudget, FirstLoop
<1> QED BY <1>3, <1>4 DEF DirectDial

LEMMA DirectAwaitOK ==
  ASSUME ClockInv, DirectAwait
  PROVE  ClockInv'
<1>1. /\ n = 0 /\ elapsed \in Nat /\ attempt \in 1..MaxRetries /\ TypeOK /\ attempt' = attempt
      /\ budget = RemainingBudget(elapsed) /\ budget \in 0..Total /\ elapsed <= Limit
  BY DEF ClockInv, TypeOK, DirectAwait, DirectClock
<1>2. AwaitLimit \in Nat /\ AwaitLimit <= budget
  BY <1>1, WaitLimits
<1>3. PICK ph \in {"carried", "failed"} : Wait(AwaitLimit, ph)
  BY DEF DirectAwait
<1>4. /\ elapsed' \in Nat /\ elapsed' <= elapsed + AwaitLimit
      /\ phase' = ph /\ n' = n /\ budget' = budget
  BY <1>1, <1>2, <1>3, WaitFacts
<1>5. Total <= Limit /\ Limit \in Nat /\ Limit' = Limit
  BY <1>1, <1>4, LimitFacts DEF Limit
<1>6. elapsed' <= Limit'
  <2>1. CASE budget > 0
    BY <1>1, <1>2, <1>4, <1>5, <2>1, BudgetFacts, ConstFacts
  <2>2. CASE ~(budget > 0)
    BY <1>1, <1>2, <1>4, <1>5, <2>2, ConstFacts
  <2> QED BY <2>1, <2>2
<1>7. attempt' \in Nat /\ attempt' >= 1
  BY <1>1, ConstFacts
<1> QED
  BY <1>1, <1>4, <1>6, <1>7
     DEF ClockInv, TypeOK, ProxyClock, DirectClock, FirstBudget, FirstLoop, Ended

-----------------------------------------------------------------------------
(* The theorems.                                                            *)

LEMMA InitOK ==
  ASSUME Init
  PROVE  ClockInv
<1>1. n \in Nat /\ attempt = 1 /\ elapsed = 0 /\ budget = 0 /\ n \in Lists
  BY ConstFacts DEF Init
<1>2. TypeOK
  BY <1>1, ConstFacts DEF Init, TypeOK
<1>3. Before(1) \in Nat /\ 1 \in 1..MaxRetries
  BY BeforeFacts, ConstFacts
<1>4. Limit \in Nat
  BY <1>2, LimitFacts
<1>5. 0 <= Before(1) /\ 0 <= Limit
  BY <1>3, <1>4
<1>6. CASE n = 0
  BY <1>1, <1>2, <1>3, <1>5, <1>6
     DEF Init, ClockInv, ProxyClock, DirectClock, FirstBudget, FirstLoop
<1>7. CASE n # 0
  <2>1. n > 0
    BY <1>1, <1>7
  <2> QED
    BY <1>1, <1>2, <1>5, <1>7, <2>1
       DEF Init, ClockInv, ProxyClock, DirectClock, FirstBudget, FirstLoop
<1> QED BY <1>6, <1>7

LEMMA StutterOK ==
  ASSUME ClockInv, UNCHANGED vars
  PROVE  ClockInv'
BY DEF ClockInv, vars, TypeOK, ProxyClock, DirectClock, FirstBudget, FirstLoop, Limit,
       DialLimit, Shorter

\* The inductive invariant of the search: what the clock shows in each phase.
THEOREM ClockInvariant == Spec => []ClockInv
<1>1. Init => ClockInv
  BY InitOK
<1>2. ClockInv /\ [Next]_vars => ClockInv'
  BY LoopOK, DialOK, ReplyOK, AwaitOK, RetryOK, ResolveOK, DirectDialOK, DirectAwaitOK, StutterOK
     DEF Next
<1> QED BY <1>1, <1>2, PTL DEF Spec

\* The clock and the budget stay numbers: remainingBudget never goes below zero,
\* whatever a wait has cost.
THEOREM TypeCorrect == Spec => []TypeOK
<1>1. ClockInv => TypeOK
  BY DEF ClockInv
<1> QED BY <1>1, ClockInvariant, PTL

\* connectUpstream keeps a client waiting at most two connect timeouts beyond
\* the total, and on the direct path at most the cost of all retries or the
\* total, whichever is longer.
THEOREM WaitBounded == Spec => []SearchBounded
<1>1. ClockInv => SearchBounded
  BY DEF ClockInv, SearchBounded, Limit
<1> QED BY <1>1, ClockInvariant, PTL

\* The first candidate of a search is given the whole handshake wait, however
\* small CONNECT_TOTAL_TIMEOUT is configured (floorTotalTimeout).
THEOREM FirstWaitUncut == Spec => []FirstHandshakeUncut
<1>1. ASSUME ClockInv PROVE FirstHandshakeUncut
  <2> SUFFICES ASSUME phase = "await", n > 0, attempt = 1 PROVE AwaitLimit = HandshakeIdle
    BY DEF FirstHandshakeUncut
  <2>1. budget = Total
    BY <1>1 DEF ClockInv, FirstBudget
  <2> QED BY <2>1, ConstFacts DEF AwaitLimit, Shorter
<1> QED BY <1>1, ClockInvariant, PTL

-----------------------------------------------------------------------------
(* The search comes to an end, whatever each of its waits costs.            *)

CandidateLeft ==
  /\ phase \in {"dial", "reply", "await"} /\ n > 0 => attempt <= n
  /\ phase = "loop" => attempt <= n + 1

\* How many steps the search has left at most.
WaitsLeft ==
  CASE phase = "loop"               -> 4 * (n + 1 - attempt) + 1
    [] phase = "dial"               -> 4 * (n + 1 - attempt)
    [] phase = "reply"              -> 4 * (n + 1 - attempt) - 1
    [] phase = "await" /\ n > 0     -> 4 * (n + 1 - attempt) - 2
    [] phase = "resolve"            -> 3 * (MaxRetries - attempt) + 4
    [] phase = "directDial"         -> 3 * (MaxRetries - attempt) + 3
    [] phase = "retry"              -> 3 * (MaxRetries - attempt) + 2
    [] phase = "await" /\ ~(n > 0)  -> 1
    [] phase \in Ended              -> 0

MostWaits == IF n > 0 THEN 4 * n + 1 ELSE 3 * MaxRetries + 1

LEMMA WaitsLeftFacts ==
  /\ phase = "loop" => WaitsLeft = 4 * (n + 1 - attempt) + 1
  /\ phase = "dial" => WaitsLeft = 4 * (n + 1 - attempt)
  /\ phase = "reply" => WaitsLeft = 4 * (n + 1 - attempt) - 1
  /\ phase = "await" /\ n > 0 => WaitsLeft = 4 * (n + 1 - attempt) - 2
  /\ phase = "resolve" => WaitsLeft = 3 * (MaxRetries - attempt) + 4
  /\ phase = "directDial" => WaitsLeft = 3 * (MaxRetries - attempt) + 3
  /\ phase = "retry" => WaitsLeft = 3 * (MaxRetries - attempt) + 2
  /\ phase = "await" /\ ~(n > 0) => WaitsLeft = 1
  /\ phase \in Ended => WaitsLeft = 0
BY DEF WaitsLeft, Ended

LEMMA PrimedWaitsLeft ==
  /\ phase' = "loop" => WaitsLeft' = 4 * (n' + 1 - attempt') + 1
  /\ phase' = "dial" => WaitsLeft' = 4 * (n' + 1 - attempt')
  /\ phase' = "reply" => WaitsLeft' = 4 * (n' + 1 - attempt') - 1
  /\ phase' = "await" /\ n' > 0 => WaitsLeft' = 4 * (n' + 1 - attempt') - 2
  /\ phase' = "resolve" => WaitsLeft' = 3 * (MaxRetries - attempt') + 4
  /\ phase' = "directDial" => WaitsLeft' = 3 * (MaxRetries - attempt') + 3
  /\ phase' = "retry" => WaitsLeft' = 3 * (MaxRetries - attempt') + 2
  /\ phase' = "await" /\ ~(n' > 0) => WaitsLeft' = 1
  /\ phase' \in Ended => WaitsLeft' = 0
BY DEF WaitsLeft, Ended

LEMMA WaitsInRange == ASSUME ClockInv, CandidateLeft PROVE WaitsLeft \in 0..MostWaits
<1>1. /\ n \in Nat /\ attempt \in Nat /\ attempt >= 1
      /\ phase \in {"loop", "dial", "reply", "await", "resolve", "directDial", "retry"} \cup Ended
      /\ MaxRetries \in Nat /\ MaxRetries >= 1
  BY ConstFacts DEF ClockInv, TypeOK
<1>2. CASE phase \in {"loop", "dial", "reply"} \/ (phase = "await" /\ n > 0)
  <2>1. n > 0 /\ attempt <= n + 1 /\ (phase # "loop" => attempt <= n) /\ MostWaits = 4 * n + 1
    BY <1>1, <1>2 DEF ClockInv, ProxyClock, CandidateLeft, MostWaits
  <2> QED BY <1>1, <1>2, <2>1, WaitsLeftFacts
<1>3. CASE phase \in {"resolve", "directDial", "retry"} \/ (phase = "await" /\ ~(n > 0))
  <2>1. n = 0 /\ attempt <= MaxRetries /\ MostWaits = 3 * MaxRetries + 1
    BY <1>1, <1>3 DEF ClockInv, DirectClock, MostWaits
  <2> QED BY <1>1, <1>3, <2>1, WaitsLeftFacts
<1>4. CASE phase \in Ended
  <2>1. MostWaits \in Nat
    BY <1>1 DEF MostWaits
  <2> QED BY <1>4, <2>1, WaitsLeftFacts
<1>5. \/ phase \in {"loop", "dial", "reply"} \/ (phase = "await" /\ n > 0)
      \/ phase \in {"resolve", "directDial", "retry"} \/ (phase = "await" /\ ~(n > 0))
      \/ phase \in Ended
  BY <1>1
<1> QED BY <1>2, <1>3, <1>4, <1>5

LEMMA WaitTaken ==
  ASSUME ClockInv, CandidateLeft, Next
  PROVE  CandidateLeft' /\ WaitsLeft' < WaitsLeft
<1>1. /\ n \in Nat /\ attempt \in Nat /\ attempt >= 1 /\ MaxRetries \in Nat /\ n' = n
      /\ phase \in {"loop", "dial", "reply"} => n > 0
      /\ phase \in {"resolve", "directDial", "retry"} => n = 0
  BY ConstFacts DEF ClockInv, TypeOK, ProxyClock, DirectClock, Next, Loop, LoopDeadline,
     LoopExhausted, Dial, Reply, Await, Resolve, DirectDial, Retry, DirectAwait, Wait
<1>2. ASSUME Loop \/ LoopDeadline \/ LoopExhausted
      PROVE  CandidateLeft' /\ WaitsLeft' < WaitsLeft
  <2>1. phase = "loop" /\ attempt' = attempt /\ attempt <= n + 1
    BY <1>2 DEF Loop, LoopDeadline, LoopExhausted, CandidateLeft
  <2>2. \/ phase' = "dial" /\ attempt <= n
        \/ phase' \in {"deadline", "exhausted"}
    BY <1>2 DEF Loop, LoopDeadline, LoopExhausted
  <2>3. CandidateLeft'
    BY <1>1, <2>1, <2>2 DEF CandidateLeft
  <2> QED BY <1>1, <2>1, <2>2, <2>3, WaitsLeftFacts, PrimedWaitsLeft DEF Ended
<1>3. ASSUME Dial \/ Reply \/ Await
      PROVE  CandidateLeft' /\ WaitsLeft' < WaitsLeft
  <2>1. phase \in {"dial", "reply", "await"} /\ n > 0 /\ attempt <= n
    BY <1>1, <1>3 DEF Dial, Reply, Await, CandidateLeft
  <2>2. \/ phase' = "loop" /\ attempt' = attempt + 1
        \/ /\ attempt' = attempt
           /\ \/ phase = "dial" /\ phase' = "reply"
              \/ phase = "reply" /\ phase' = "await"
              \/ phase = "await" /\ phase' = "carried"
    BY <1>3 DEF Dial, Reply, Await, Wait, NextCandidate
  <2>3. CandidateLeft'
    BY <1>1, <2>1, <2>2 DEF CandidateLeft
  <2> QED BY <1>1, <2>1, <2>2, <2>3, WaitsLeftFacts, PrimedWaitsLeft DEF Ended
<1>4. ASSUME Resolve \/ DirectDial \/ Retry \/ DirectAwait
      PROVE  CandidateLeft' /\ WaitsLeft' < WaitsLeft
  <2>1. /\ n = 0 /\ attempt <= MaxRetries
        /\ phase \in {"resolve", "directDial", "retry", "await"}
    BY <1>1, <1>4 DEF Resolve, DirectDial, Retry, DirectAwait, ClockInv, DirectClock
  <2>2. \/ phase = "resolve" /\ phase' \in {"directDial", "retry", "failed"} /\ attempt' = attempt
        \/ phase = "directDial" /\ phase' \in {"retry", "await"} /\ attempt' = attempt
        \/ phase = "await" /\ phase' \in {"carried", "failed"} /\ attempt' = attempt
        \/ phase = "retry" /\ phase' = "failed" /\ attempt' = attempt
        \/ phase = "retry" /\ phase' = "resolve" /\ attempt' = attempt + 1
    BY <1>4 DEF Resolve, DirectDial, Retry, DirectAwait, Wait
  <2>3. CandidateLeft'
    BY <1>1, <2>1, <2>2 DEF CandidateLeft
  <2> QED BY <1>1, <2>1, <2>2, <2>3, WaitsLeftFacts, PrimedWaitsLeft DEF Ended
<1> QED BY <1>2, <1>3, <1>4 DEF Next

\* The search of connectUpstream always ends: at most four steps a candidate, or
\* three a retry of the direct path, are left to it, and each step takes one.
THEOREM SearchRunsDown ==
  Spec => [](WaitsLeft \in 0..MostWaits) /\ [][WaitsLeft' < WaitsLeft]_vars
<1>1. Init => CandidateLeft
  BY DeadlineAssumption DEF Init, CandidateLeft
<1>2. ClockInv /\ CandidateLeft /\ [Next]_vars => CandidateLeft' /\ [WaitsLeft' < WaitsLeft]_vars
  <2>1. CandidateLeft /\ UNCHANGED vars => CandidateLeft'
    BY DEF CandidateLeft, vars
  <2> QED BY <2>1, WaitTaken
<1>3. ClockInv /\ CandidateLeft => WaitsLeft \in 0..MostWaits
  BY WaitsInRange
<1> QED BY <1>1, <1>2, <1>3, ClockInvariant, PTL DEF Spec

-----------------------------------------------------------------------------
(* The connection refines the search: what handle does before and after is  *)
(* invisible to the search, and nothing touches its clock but its steps.    *)

LEMMA SearchSteps == [TunnelNext]_tunnelVars => [Next]_vars
<1> SUFFICES ASSUME [TunnelNext]_tunnelVars PROVE [Next]_vars
  OBVIOUS
<1>1. ASSUME SearchStep PROVE Next
  BY <1>1 DEF SearchStep, OpenSocket, ProxyReplies, AwaitProof, Next
<1>2. ASSUME UNCHANGED tunnelVars PROVE UNCHANGED vars
  BY <1>2 DEF tunnelVars
<1>3. ASSUME Down \/ Up \/ HandleCloses \/ HandleReturns PROVE UNCHANGED vars
  BY <1>3 DEF Down, Up, HandleCloses, HandleReturns
<1>4. ASSUME ReadHello \/ ReadHelloFails \/ ClientSends \/ ClientEnds \/ UpstreamSends \/ UpstreamEnds
      PROVE UNCHANGED vars
  BY <1>4 DEF ReadHello, ReadHelloFails, ClientSends, ClientEnds, UpstreamSends, UpstreamEnds
<1> QED BY <1>1, <1>2, <1>3, <1>4 DEF TunnelNext

\* Every connection's search is a behaviour of SearchDeadline, so what is proved
\* of the time holds with the sockets and the streams in place.
THEOREM ConnectionSearches == FairTunnelSpec => Spec
<1>1. TunnelInit => Init
  BY DEF TunnelInit
<1> QED BY <1>1, SearchSteps, PTL DEF FairTunnelSpec, TunnelSpec, Spec

-----------------------------------------------------------------------------
(* Runs of a stream.                                                        *)

\* Units i to j of the stream of attempt a.
Part(a, i, j) == [k \in 1..(j - i + 1) |-> <<a, i + k - 1>>]

LEMMA UnitsPart == \A i, j : Units(i, j) = Part(attempt, i, j)
BY DEF Units, Part

LEMMA PartFacts ==
  ASSUME NEW a, NEW i \in Nat, NEW j \in Nat, i <= j
  PROVE  /\ Part(a, i + 1, j) \in Seq({a} \X Nat) /\ Len(Part(a, i + 1, j)) = j - i
         /\ \A k \in 1..(j - i) : Part(a, i + 1, j)[k] = <<a, i + k>>
<1> DEFINE p == Part(a, i + 1, j)
           F(k) == <<a, (i + 1) + k - 1>>
<1>1. j - (i + 1) + 1 = j - i /\ j - i \in Nat
  OBVIOUS
<1>2. p = [k \in 1..(j - i) |-> F(k)]
  BY <1>1 DEF Part
<1>3. \A k \in 1..(j - i) : F(k) = <<a, i + k>> /\ F(k) \in {a} \X Nat
  <2>1. \A k \in 1..(j - i) : (i + 1) + k - 1 = i + k /\ i + k \in Nat
    BY <1>1
  <2> QED BY <2>1
<1> HIDE DEF p, F
<1>4. p \in Seq({a} \X Nat) /\ Len(p) = j - i
  BY <1>1, <1>2, <1>3
<1> QED BY <1>2, <1>3, <1>4 DEF p

LEMMA PartEmpty == \A a, i : i \in Nat => Part(a, i + 1, i) = << >>
<1> SUFFICES ASSUME NEW a, NEW i \in Nat PROVE Part(a, i + 1, i) = << >>
  OBVIOUS
<1>1. i <= i /\ i - i = 0
  OBVIOUS
<1>2. Part(a, i + 1, i) \in Seq({a} \X Nat) /\ Len(Part(a, i + 1, i)) = i - i
  BY <1>1, PartFacts
<1> QED BY <1>1, <1>2, EmptySeq

LEMMA PartConcat ==
  ASSUME NEW a, NEW i \in Nat, NEW j \in Nat, NEW l \in Nat, i <= j, j <= l
  PROVE  Part(a, i + 1, j) \o Part(a, j + 1, l) = Part(a, i + 1, l)
<1> DEFINE S == {a} \X Nat
           p == Part(a, i + 1, j)
           q == Part(a, j + 1, l)
           r == Part(a, i + 1, l)
<1>1. /\ p \in Seq(S) /\ Len(p) = j - i /\ \A k \in 1..(j - i) : p[k] = <<a, i + k>>
      /\ q \in Seq(S) /\ Len(q) = l - j /\ \A k \in 1..(l - j) : q[k] = <<a, j + k>>
      /\ r \in Seq(S) /\ Len(r) = l - i /\ \A k \in 1..(l - i) : r[k] = <<a, i + k>>
  <2>1. i <= l
    OBVIOUS
  <2>2. p \in Seq(S) /\ Len(p) = j - i /\ \A k \in 1..(j - i) : p[k] = <<a, i + k>>
    BY PartFacts
  <2>3. q \in Seq(S) /\ Len(q) = l - j /\ \A k \in 1..(l - j) : q[k] = <<a, j + k>>
    BY PartFacts
  <2>4. r \in Seq(S) /\ Len(r) = l - i /\ \A k \in 1..(l - i) : r[k] = <<a, i + k>>
    BY <2>1, PartFacts
  <2> QED BY <2>2, <2>3, <2>4
<1> HIDE DEF p, q, r
<1>2. /\ p \o q \in Seq(S) /\ Len(p \o q) = l - i
      /\ \A k \in 1..(l - i) : (p \o q)[k] = IF k <= j - i THEN p[k] ELSE q[k - (j - i)]
  <2>1. /\ p \o q \in Seq(S) /\ Len(p \o q) = Len(p) + Len(q)
        /\ \A k \in 1..(Len(p) + Len(q)) :
             (p \o q)[k] = IF k <= Len(p) THEN p[k] ELSE q[k - Len(p)]
    <3>1. p \in Seq(S) /\ q \in Seq(S)
      BY <1>1
    <3> QED BY <3>1, ConcatProperties
  <2>2. Len(p) = j - i /\ Len(p) + Len(q) = l - i
    <3>1. Len(p) = j - i /\ Len(q) = l - j
      BY <1>1
    <3> QED BY <3>1
  <2> QED BY <2>1, <2>2
<1>3. ASSUME NEW k \in 1..(l - i) PROVE (p \o q)[k] = r[k]
  <2>1. CASE k <= j - i
    <3>1. k \in 1..(j - i)
      BY <2>1
    <3> QED BY <1>1, <1>2, <2>1, <3>1
  <2>2. CASE ~ (k <= j - i)
    <3>1. k - (j - i) \in 1..(l - j) /\ j + (k - (j - i)) = i + k
      BY <2>2
    <3> QED BY <1>1, <1>2, <2>2, <3>1
  <2> QED BY <2>1, <2>2
<1>4. p \o q = r
  BY <1>1, <1>2, <1>3, SeqEqual
<1> QED BY <1>4 DEF p, q, r

\* Where the first r units of stream a are: given to the client, in the download
\* pipe, and waiting in prefixedConn, in this order.
Streamed(a, given, piped, kept, r) ==
  \E i, j \in Nat : /\ i <= j /\ j <= r /\ r \in Nat
                    /\ given = Part(a, 1, i) /\ piped = Part(a, i + 1, j)
                    /\ kept = Part(a, j + 1, r)

LEMMA NothingStreamed == \A a : Streamed(a, << >>, << >>, << >>, 0)
<1> SUFFICES ASSUME NEW a PROVE Streamed(a, << >>, << >>, << >>, 0)
  OBVIOUS
<1>1. Part(a, 0 + 1, 0) = << >>
  BY PartEmpty
<1>2. 0 + 1 = 1 /\ 0 <= 0
  OBVIOUS
<1> QED BY <1>1, <1>2 DEF Streamed

\* The proof of forwarding is the first that is read.
LEMMA ProofStreamed ==
  ASSUME NEW a, NEW k \in Nat
  PROVE  Streamed(a, << >>, << >>, << >> \o Part(a, 0 + 1, 0 + k), 0 + k)
<1>1. 0 + 1 = 1 /\ 0 + k = k /\ 0 <= 0 /\ 0 <= k
  OBVIOUS
<1>2. Part(a, 0 + 1, 0) = << >>
  BY PartEmpty
<1>3. Part(a, 0 + 1, 0) \o Part(a, 0 + 1, k) = Part(a, 0 + 1, k)
  BY <1>1, PartConcat
<1> QED BY <1>1, <1>2, <1>3 DEF Streamed

\* What the pieces are when the pipe is empty.
LEMMA PipeEmpty ==
  ASSUME NEW a, NEW given, NEW kept, NEW r, Streamed(a, given, << >>, kept, r)
  PROVE  \E i \in Nat : i <= r /\ r \in Nat /\ given = Part(a, 1, i) /\ kept = Part(a, i + 1, r)
<1>1. PICK i, j \in Nat : /\ i <= j /\ j <= r /\ r \in Nat
                          /\ given = Part(a, 1, i) /\ << >> = Part(a, i + 1, j)
                          /\ kept = Part(a, j + 1, r)
  BY DEF Streamed
<1>2. Len(Part(a, i + 1, j)) = j - i
  BY <1>1, PartFacts
<1>3. i = j
  <2>1. Len(<< >>) = 0
    OBVIOUS
  <2>2. j - i = 0
    BY <1>1, <1>2, <2>1
  <2> QED BY <1>1, <2>2
<1> QED BY <1>1, <1>3

LEMMA PrefixStreamed ==
  ASSUME NEW a, NEW given, NEW kept, NEW r, Streamed(a, given, << >>, kept, r)
  PROVE  Streamed(a, given, kept, << >>, r)
<1>1. PICK i \in Nat : i <= r /\ r \in Nat /\ given = Part(a, 1, i) /\ kept = Part(a, i + 1, r)
  BY PipeEmpty
<1>2. << >> = Part(a, r + 1, r)
  BY <1>1, PartEmpty
<1>3. r <= r
  BY <1>1
<1> QED BY <1>1, <1>2, <1>3 DEF Streamed

LEMMA AllGiven ==
  ASSUME NEW a, NEW given, NEW r, Streamed(a, given, << >>, << >>, r)
  PROVE  r \in Nat /\ given = Part(a, 1, r)
<1>1. PICK i \in Nat : i <= r /\ r \in Nat /\ given = Part(a, 1, i) /\ << >> = Part(a, i + 1, r)
  BY PipeEmpty
<1>2. Len(Part(a, i + 1, r)) = r - i
  BY <1>1, PartFacts
<1>3. i = r
  <2>1. Len(<< >>) = 0
    OBVIOUS
  <2>2. r - i = 0
    BY <1>1, <1>2, <2>1
  <2> QED BY <1>1, <2>2
<1> QED BY <1>1, <1>3

LEMMA ReadStreamed ==
  ASSUME NEW a, NEW given, NEW r, Streamed(a, given, << >>, << >>, r)
  PROVE  Streamed(a, given, Part(a, r + 1, r + 1), << >>, r + 1)
<1>1. r \in Nat /\ r + 1 \in Nat /\ r <= r + 1 /\ r + 1 <= r + 1 /\ given = Part(a, 1, r)
  BY AllGiven
<1>2. << >> = Part(a, (r + 1) + 1, r + 1)
  BY <1>1, PartEmpty
<1> QED BY <1>1, <1>2 DEF Streamed

LEMMA WriteStreamed ==
  ASSUME NEW a, NEW given, NEW piped, NEW kept, NEW r, Streamed(a, given, piped, kept, r)
  PROVE  Streamed(a, given \o piped, << >>, kept, r)
<1>1. PICK i, j \in Nat : /\ i <= j /\ j <= r /\ r \in Nat
                          /\ given = Part(a, 1, i) /\ piped = Part(a, i + 1, j)
                          /\ kept = Part(a, j + 1, r)
  BY DEF Streamed
<1>2. << >> = Part(a, j + 1, j)
  BY PartEmpty
<1>3. j <= j
  OBVIOUS
<1>4. given \o piped = Part(a, 1, j)
  <2>1. Part(a, 0 + 1, i) \o Part(a, i + 1, j) = Part(a, 0 + 1, j)
    <3> DEFINE z == 0
    <3>1. z \in Nat /\ z <= i
      OBVIOUS
    <3> HIDE DEF z
    <3>2. Part(a, z + 1, i) \o Part(a, i + 1, j) = Part(a, z + 1, j)
      BY <1>1, <3>1, PartConcat
    <3> QED BY <3>2 DEF z
  <2>2. 0 + 1 = 1
    OBVIOUS
  <2> QED BY <1>1, <2>1, <2>2
<1> QED BY <1>1, <1>2, <1>3, <1>4 DEF Streamed

-----------------------------------------------------------------------------
(* The invariant of a connection.                                           *)

Waiting == {"loop", "dial", "reply", "await", "resolve", "directDial", "retry"}

Tunnelling == {"reply", "await"}

\* Where handle is; before the pipes nothing has been read of an upstream's
\* stream that is kept, nor given to anybody but an upstream.
Control ==
  /\ stage \in {"hello", "search", "pipes", "done"} /\ attempt \in Nat \ {0}
  /\ stage = "hello" => phase \in {"loop", "resolve"}
  /\ stage = "search" => phase \in Waiting
  /\ stage \in {"hello", "search"} =>
       /\ got = << >> /\ dbuf = << >> /\ first = << >> /\ ubuf = << >> /\ uread = 0
       /\ down = "read" /\ up = "read" /\ ender = "none"

\* Which connections to upstreams are open.
Held ==
  /\ unwritten \subseteq 1..(attempt - 1)
  /\ stage = "hello" => sockets = {} /\ unwritten = {}
  /\ stage = "search" =>
       sockets = IF phase \in Tunnelling THEN unwritten \cup {attempt} ELSE unwritten
  /\ stage = "pipes" => sockets \ {attempt} = unwritten
  /\ stage = "done" => sockets = unwritten /\ ~open

\* The client's stream: what an upstream was given, and what is left of it.
Given ==
  /\ taken \in Nat /\ sent \in Nat
  /\ \E k \in Nat : fed = Upto(k)
  /\ stage \in {"hello", "search"} => hello = Upto(taken)
  /\ stage = "search" /\ phase = "await" => fed = hello
  /\ stage = "pipes" /\ up = "read" => fed = Upto(taken)
  /\ stage = "pipes" /\ up = "write" => taken # 0 /\ fed = Upto(taken - 1) /\ ubuf = <<taken>>

\* The upstream's stream: where what was read of it is, and how it ended.
Received ==
  /\ usent \in Nat
  /\ Streamed(attempt, got, dbuf, first, uread)
  /\ down = "read" => dbuf = << >>
  /\ ender = "eof" => down = "ended" /\ uend /\ got = Part(attempt, 1, usent)

TunnelInv == Control /\ Held /\ Given /\ Received

LEMMA UptoFacts ==
  ASSUME NEW k \in Nat
  PROVE  /\ Upto(k) \in Seq(Nat) /\ Len(Upto(k)) = k
         /\ Upto(k) \o <<k + 1>> = Upto(k + 1)
<1>1. \A m \in Nat : Upto(m) \in Seq(Nat) /\ Len(Upto(m)) = m /\ \A i \in 1..m : Upto(m)[i] = i
  BY DEF Upto
<1> DEFINE p == Upto(k)
           q == <<k + 1>>
           r == Upto(k + 1)
<1>2. /\ p \in Seq(Nat) /\ Len(p) = k /\ \A i \in 1..k : p[i] = i
      /\ r \in Seq(Nat) /\ Len(r) = k + 1 /\ \A i \in 1..(k + 1) : r[i] = i
  BY <1>1
<1>3. q \in Seq(Nat) /\ Len(q) = 1 /\ q[1] = k + 1
  OBVIOUS
<1> HIDE DEF p, q, r
<1>4. /\ p \o q \in Seq(Nat) /\ Len(p \o q) = Len(p) + Len(q)
      /\ \A i \in 1..(Len(p) + Len(q)) : (p \o q)[i] = IF i <= Len(p) THEN p[i] ELSE q[i - Len(p)]
  <2>1. p \in Seq(Nat) /\ q \in Seq(Nat)
    BY <1>2, <1>3
  <2> QED BY <2>1, ConcatProperties
<1>5. ASSUME NEW i \in 1..(k + 1) PROVE (p \o q)[i] = r[i]
  <2>1. CASE i \in 1..k
    BY <1>2, <1>3, <1>4, <2>1
  <2>2. CASE i = k + 1
    BY <1>2, <1>3, <1>4, <2>2
  <2>3. i \in 1..k \/ i = k + 1
    OBVIOUS
  <2> QED BY <2>1, <2>2, <2>3
<1>6. p \o q = r
  BY <1>2, <1>3, <1>4, <1>5, SeqEqual
<1> QED BY <1>2, <1>6 DEF p, q, r

\* The connection of the attempt in hand is none that was left open.
LEMMA AttemptFresh == ASSUME TunnelInv PROVE attempt \notin unwritten /\ attempt \in Nat \ {0}
BY DEF TunnelInv, Held, Control

LEMMA ReadHelloOK == ASSUME TunnelInv, ReadHello PROVE TunnelInv'
<1>1. /\ stage = "hello" /\ UNCHANGED <<vars, peer, streams, pipes>>
      /\ taken' \in Nat /\ hello' = Upto(taken')
  BY DEF TunnelInv, Given, ReadHello
<1>2. \/ stage' \in {"hello", "search"}
      \/ stage' = "done" /\ ~open'
  BY <1>1 DEF ReadHello, Refused
<1>3. Control'
  BY <1>1, <1>2 DEF TunnelInv, Control, vars, streams, pipes, Waiting
<1>4. Held'
  BY <1>1, <1>2 DEF TunnelInv, Control, Held, vars, streams, Tunnelling
<1>5. Given'
  BY <1>1, <1>2 DEF TunnelInv, Control, Given, vars, peer, streams, pipes
<1>6. Received'
  BY <1>1 DEF TunnelInv, Received, vars, streams, pipes
<1> QED BY <1>3, <1>4, <1>5, <1>6 DEF TunnelInv

LEMMA ReadHelloFailsOK == ASSUME TunnelInv, ReadHelloFails PROVE TunnelInv'
<1>1. stage = "hello" /\ UNCHANGED <<vars, taken, hello, peer, streams, pipes>> /\ stage' = "done" /\ ~open'
  BY DEF ReadHelloFails, Refused
<1>2. Control' /\ Held'
  BY <1>1 DEF TunnelInv, Control, Held, vars, streams, pipes
<1>3. Given'
  BY <1>1 DEF TunnelInv, Control, Given, vars, peer, streams, pipes
<1>4. Received'
  BY <1>1 DEF TunnelInv, Received, vars, streams, pipes
<1> QED BY <1>2, <1>3, <1>4 DEF TunnelInv

-----------------------------------------------------------------------------
(* The steps of the search.                                                 *)

\* The search goes on, with the sockets and the replay as its phase wants them.
LEMMA SearchStays ==
  ASSUME TunnelInv, stage = "search", stage' = "search",
         phase' \in Waiting, attempt' \in Nat \ {0},
         UNCHANGED <<taken, hello, peer, pipes, uread, first, got>>, usent' \in Nat,
         unwritten' \subseteq 1..(attempt' - 1),
         sockets' = IF phase' \in Tunnelling THEN unwritten' \cup {attempt'} ELSE unwritten',
         \E k \in Nat : fed' = Upto(k), phase' = "await" => fed' = hello
  PROVE  TunnelInv'
<1>1. Control'
  BY DEF TunnelInv, Control, pipes
<1>2. Held'
  BY DEF Held
<1>3. Given'
  BY DEF TunnelInv, Given, peer
<1>4. Received'
  <2>1. Streamed(attempt', << >>, << >>, << >>, 0)
    BY NothingStreamed
  <2>2. /\ got' = << >> /\ dbuf' = << >> /\ first' = << >> /\ uread' = 0 /\ ender' = "none"
    BY DEF TunnelInv, Control, pipes
  <2> QED BY <2>1, <2>2 DEF Received
<1> QED BY <1>1, <1>2, <1>3, <1>4 DEF TunnelInv

\* The search fails, and handle returns.
LEMMA SearchFails ==
  ASSUME TunnelInv, stage = "search", stage' = "done", ~open', attempt' = attempt,
         UNCHANGED <<taken, hello, peer, pipes, fed, usent, uread, first, got, unwritten>>,
         sockets' = unwritten
  PROVE  TunnelInv'
<1>1. Control' /\ Held'
  BY DEF TunnelInv, Control, Held, pipes
<1>2. Given'
  BY DEF TunnelInv, Given, peer
<1>3. Received'
  BY DEF TunnelInv, Control, Received, pipes
<1> QED BY <1>1, <1>2, <1>3 DEF TunnelInv

LEMMA AfterSearchFacts ==
  ASSUME AfterSearch
  PROVE  /\ phase' \in Waiting => stage' = stage
         /\ phase' \in Ended \ {"carried"} => stage' = "done" /\ ~open'
         /\ phase' = "carried" => stage' = "pipes"
BY DEF AfterSearch, Waiting, Ended

LEMMA OpenSocketOK ==
  ASSUME TunnelInv, stage = "search", OpenSocket, AfterSearch,
         UNCHANGED <<taken, hello, peer, pipes>>
  PROVE  TunnelInv'
<1>1. /\ attempt \in Nat \ {0} /\ unwritten \subseteq 1..(attempt - 1) /\ usent \in Nat
      /\ \E k \in Nat : fed = Upto(k)
      /\ \E k \in Nat : hello = Upto(k)
      /\ \E k \in Nat : << >> = Upto(k)
      /\ uread = 0
  <2>1. << >> = Upto(0)
    BY DEF Upto
  <2> QED BY <2>1 DEF TunnelInv, Control, Held, Given, Received
<1>2. phase \in {"dial", "directDial"} /\ sockets = unwritten /\ UNCHANGED <<unwritten, first, got>>
  BY DEF OpenSocket, Dial, DirectDial, TunnelInv, Held, Tunnelling
<1>3. CASE Dial
  <2>1. \/ phase' = "reply" /\ attempt' = attempt
        \/ phase' = "loop" /\ attempt' = attempt + 1
    BY <1>3 DEF Dial, Wait, NextCandidate
  <2>2. phase = "dial"
    BY <1>3 DEF Dial
  <2>3. IF phase' = "reply" THEN Connected(attempt, << >>) ELSE Unconnected
    BY <2>2 DEF OpenSocket, DirectDial
  <2>4. phase' \in Waiting /\ stage' = "search"
    BY <2>1, AfterSearchFacts DEF Waiting
  <2>5. CASE phase' = "reply"
    <3>1. /\ sockets' = unwritten' \cup {attempt'} /\ fed' = << >> /\ usent' = 0 /\ uread' = uread
          /\ attempt' = attempt
      BY <1>1, <1>2, <2>1, <2>3, <2>5 DEF Connected
    <3> QED BY <1>1, <1>2, <2>4, <2>5, <3>1, SearchStays DEF Tunnelling
  <2>6. CASE phase' = "loop"
    <3>1. unwritten' \subseteq 1..(attempt' - 1) /\ attempt' \in Nat \ {0}
      BY <1>1, <1>2, <2>1, <2>6
    <3> QED BY <1>1, <1>2, <2>3, <2>4, <2>6, <3>1, SearchStays DEF Unconnected, Tunnelling
  <2> QED BY <2>1, <2>5, <2>6
<1>4. CASE DirectDial
  <2>1. phase' \in {"retry", "await"} /\ attempt' = attempt
    BY <1>4 DEF DirectDial, Wait
  <2>2. phase = "directDial"
    BY <1>4 DEF DirectDial
  <2>3. IF phase' = "await" THEN Connected(attempt, hello) ELSE Unconnected
    BY <2>2 DEF OpenSocket, Dial
  <2>4. phase' \in Waiting /\ stage' = "search"
    BY <2>1, AfterSearchFacts DEF Waiting
  <2>5. CASE phase' = "await"
    <3>1. /\ sockets' = unwritten' \cup {attempt'} /\ fed' = hello /\ usent' = 0 /\ uread' = uread
          /\ attempt' = attempt
      BY <1>1, <1>2, <2>1, <2>3, <2>5 DEF Connected
    <3> QED BY <1>1, <1>2, <2>4, <2>5, <3>1, SearchStays DEF Tunnelling
  <2>6. CASE phase' = "retry"
    BY <1>1, <1>2, <2>1, <2>3, <2>4, <2>6, SearchStays DEF Unconnected, Tunnelling
  <2> QED BY <2>1, <2>5, <2>6
<1> QED BY <1>3, <1>4 DEF OpenSocket

LEMMA ProxyRepliesOK ==
  ASSUME TunnelInv, stage = "search", ProxyReplies, AfterSearch,
         UNCHANGED <<taken, hello, peer, pipes>>
  PROVE  TunnelInv'
<1>1. /\ attempt \in Nat \ {0} /\ unwritten \subseteq 1..(attempt - 1) /\ usent \in Nat
      /\ attempt \notin unwritten
      /\ \E k \in Nat : fed = Upto(k)
      /\ \E k \in Nat : hello = Upto(k)
  BY AttemptFresh DEF TunnelInv, Control, Held, Given, Received
<1>2. phase = "reply" /\ sockets = unwritten \cup {attempt} /\ UNCHANGED <<usent, uend, uread, first, got>>
  BY DEF ProxyReplies, Reply, TunnelInv, Held, Tunnelling
<1>3. \/ phase' = "await" /\ attempt' = attempt
      \/ phase' = "loop" /\ attempt' = attempt + 1
  BY DEF ProxyReplies, Reply, Wait, NextCandidate
<1>4. phase' \in Waiting /\ stage' = "search"
  BY <1>3, AfterSearchFacts DEF Waiting
<1>5. CASE phase' = "await"
  <2>1. fed' = hello /\ UNCHANGED <<sockets, unwritten>> /\ attempt' = attempt
    BY <1>3, <1>5 DEF ProxyReplies
  <2> QED BY <1>1, <1>2, <1>4, <1>5, <2>1, SearchStays DEF Tunnelling
<1>6. CASE phase' = "loop"
  <2>1. /\ attempt' = attempt + 1 /\ fed' = fed
        /\ \/ Closed /\ unwritten' = unwritten
           \/ sockets' = sockets /\ unwritten' = unwritten \cup {attempt}
    BY <1>3, <1>6 DEF ProxyReplies
  <2>2. sockets' = unwritten' /\ unwritten' \subseteq unwritten \cup {attempt}
    BY <1>1, <1>2, <2>1 DEF Closed
  <2>3. unwritten' \subseteq 1..(attempt' - 1) /\ attempt' \in Nat \ {0}
    <3>1. unwritten \cup {attempt} \subseteq 1..attempt /\ attempt' - 1 = attempt
      BY <1>1, <2>1
    <3> QED BY <1>1, <2>1, <2>2, <3>1
  <2> QED BY <1>1, <1>2, <1>4, <1>6, <2>1, <2>2, <2>3, SearchStays DEF Tunnelling
<1> QED BY <1>3, <1>5, <1>6

LEMMA AwaitProofOK ==
  ASSUME TunnelInv, stage = "search", AwaitProof, AfterSearch,
         UNCHANGED <<taken, hello, peer, pipes>>
  PROVE  TunnelInv'
<1>1. /\ attempt \in Nat \ {0} /\ unwritten \subseteq 1..(attempt - 1) /\ usent \in Nat
      /\ attempt \notin unwritten
      /\ \E k \in Nat : fed = Upto(k)
  BY AttemptFresh DEF TunnelInv, Control, Held, Given, Received
<1>2. phase = "await" /\ sockets = unwritten \cup {attempt} /\ UNCHANGED <<fed, usent, uend, got, unwritten>>
  BY DEF AwaitProof, Await, DirectAwait, TunnelInv, Held, Tunnelling
<1>3. \/ phase' = "carried" /\ attempt' = attempt
      \/ phase' = "loop" /\ attempt' = attempt + 1
      \/ phase' = "failed" /\ attempt' = attempt
  BY DEF AwaitProof, Await, DirectAwait, Wait, NextCandidate
<1>4. CASE phase' = "carried"
  <2>1. /\ attempt' = attempt /\ stage' = "pipes" /\ sockets' = sockets
        /\ first' = first \o Part(attempt, uread + 1, uread + Proof) /\ uread' = uread + Proof
    BY <1>3, <1>4, AfterSearchFacts, UnitsPart DEF AwaitProof
  <2>2. /\ got = << >> /\ dbuf = << >> /\ first = << >> /\ uread = 0 /\ ender = "none"
        /\ down = "read" /\ up = "read" /\ hello = Upto(taken) /\ fed = hello
    BY <1>2 DEF TunnelInv, Control, Given
  <2>3. Control' /\ Held'
    BY <1>1, <1>2, <2>1 DEF TunnelInv, Control, Held
  <2>4. Given'
    BY <1>1, <1>2, <2>1, <2>2 DEF TunnelInv, Given, peer, pipes
  <2>5. Received'
    <3>1. Proof \in Nat
      BY TunnelAssumption
    <3>2. Streamed(attempt, << >>, << >>, << >> \o Part(attempt, 0 + 1, 0 + Proof), 0 + Proof)
      BY <3>1, ProofStreamed
    <3>3. /\ first' = << >> \o Part(attempt, 0 + 1, 0 + Proof) /\ uread' = 0 + Proof
          /\ got' = << >> /\ dbuf' = << >> /\ ender' = "none"
      BY <1>2, <2>1, <2>2 DEF pipes
    <3>4. Streamed(attempt', got', dbuf', first', uread')
      BY <2>1, <3>2, <3>3
    <3> QED BY <1>1, <1>2, <3>3, <3>4 DEF Received
  <2> QED BY <2>3, <2>4, <2>5 DEF TunnelInv
<1>5. CASE phase' # "carried"
  <2>1. Closed /\ UNCHANGED <<first, uread>>
    BY <1>5 DEF AwaitProof, ClosedAfterWait, PartialDropped
  <2>2. sockets' = unwritten
    BY <1>1, <1>2, <2>1 DEF Closed
  <2>3. CASE phase' = "loop" /\ attempt' = attempt + 1
    <3>1. unwritten' \subseteq 1..(attempt' - 1) /\ attempt' \in Nat \ {0}
      BY <1>1, <1>2, <2>3
    <3>2. phase' \in Waiting /\ stage' = "search"
      BY <2>3, AfterSearchFacts DEF Waiting
    <3> QED BY <1>1, <1>2, <2>1, <2>2, <2>3, <3>1, <3>2, SearchStays DEF Tunnelling
  <2>4. CASE phase' = "failed" /\ attempt' = attempt
    <3>1. stage' = "done" /\ ~open'
      BY <2>4, AfterSearchFacts DEF Ended
    <3> QED BY <1>2, <2>1, <2>2, <2>4, <3>1, SearchFails
  <2> QED BY <1>3, <1>5, <2>3, <2>4
<1> QED BY <1>4, <1>5

\* The steps that touch neither a socket nor a stream.
LEMMA OtherSearchOK ==
  ASSUME TunnelInv, stage = "search",
         Loop \/ LoopDeadline \/ LoopExhausted \/ Resolve \/ Retry,
         UNCHANGED streams, AfterSearch, UNCHANGED <<taken, hello, peer, pipes>>
  PROVE  TunnelInv'
<1>1. /\ attempt \in Nat \ {0} /\ unwritten \subseteq 1..(attempt - 1) /\ usent \in Nat
      /\ \E k \in Nat : fed = Upto(k)
  BY DEF TunnelInv, Control, Held, Given, Received
<1>2. phase \in {"loop", "resolve", "retry"}
  BY DEF Loop, LoopDeadline, LoopExhausted, Resolve, Retry
<1>3. sockets = unwritten
  BY <1>2 DEF TunnelInv, Held, Tunnelling
<1>4. \/ phase' \in {"deadline", "exhausted", "failed"} /\ attempt' = attempt
      \/ phase' \in {"dial", "directDial", "retry", "resolve"} /\ attempt' \in {attempt, attempt + 1}
  BY DEF Loop, LoopDeadline, LoopExhausted, Resolve, Retry, Wait
<1>5. CASE phase' \in {"deadline", "exhausted", "failed"} /\ attempt' = attempt
  <2>1. stage' = "done" /\ ~open'
    BY <1>5, AfterSearchFacts DEF Ended
  <2> QED BY <1>3, <1>5, <2>1, SearchFails DEF streams
<1>6. CASE phase' \in {"dial", "directDial", "retry", "resolve"} /\ attempt' \in {attempt, attempt + 1}
  <2>1. unwritten \subseteq 1..(attempt' - 1) /\ attempt' \in Nat \ {0}
    <3>1. CASE attempt' = attempt
      BY <1>1, <3>1
    <3>2. CASE attempt' = attempt + 1
      BY <1>1, <3>2
    <3> QED BY <1>6, <3>1, <3>2
  <2>2. phase' \in Waiting /\ stage' = "search" /\ phase' \notin Tunnelling /\ phase' # "await"
    BY <1>6, AfterSearchFacts DEF Waiting, Tunnelling
  <2> QED BY <1>1, <1>3, <2>1, <2>2, SearchStays DEF streams
<1> QED BY <1>4, <1>5, <1>6

LEMMA SearchStepOK == ASSUME TunnelInv, SearchStep PROVE TunnelInv'
BY OpenSocketOK, ProxyRepliesOK, AwaitProofOK, OtherSearchOK DEF SearchStep

-----------------------------------------------------------------------------
(* The pipes.                                                               *)

\* The download pipe touches nothing of the upload, and no socket of an upstream.
LEMMA DownFrame == ASSUME TunnelInv, Down PROVE Control' /\ Held' /\ Given'
<1>1. /\ stage = "pipes"
      /\ UNCHANGED <<vars, stage, taken, hello, peer, up, ubuf, fed, usent, uend, sockets, unwritten>>
  BY DEF Down
<1>2. Control' /\ Held'
  BY <1>1 DEF TunnelInv, Control, Held, vars
<1>3. Given'
  BY <1>1 DEF TunnelInv, Given, vars, peer
<1> QED BY <1>2, <1>3

\* The download pipe ends, and keeps what it had not written.
LEMMA DownEndsOK ==
  ASSUME Received, down # "ended", NEW why, DownEnds(why),
         UNCHANGED <<attempt, usent, uend, got>>,
         why = "eof" => uend /\ got = Part(attempt, 1, usent)
  PROVE  Received'
<1>1. down' = "ended" /\ UNCHANGED <<dbuf, first, uread>> /\ ender # "eof"
  BY DEF DownEnds, Received
<1>2. ender' = "eof" => why = "eof"
  BY <1>1 DEF DownEnds, First
<1> QED BY <1>1, <1>2 DEF Received

LEMMA DownOK == ASSUME TunnelInv, Down PROVE TunnelInv'
<1>1. /\ UNCHANGED <<attempt, usent, uend>> /\ Received
      /\ Streamed(attempt, got, dbuf, first, uread) /\ usent \in Nat
      /\ down # "ended" => ender # "eof"
      /\ down = "read" => dbuf = << >>
  BY DEF Down, vars, TunnelInv, Received
<1>2. ASSUME DownRead, UNCHANGED got PROVE Received'
  <2>1. down = "read" /\ dbuf = << >>
    BY <1>1, <1>2 DEF DownRead
  <2>2. CASE PrefixRead /\ down' = "write" /\ UNCHANGED <<uread, open, ender>>
    <3>1. Streamed(attempt, got, first, << >>, uread)
      BY <1>1, <2>1, PrefixStreamed
    <3> QED BY <1>1, <1>2, <2>1, <2>2, <3>1 DEF Received, PrefixRead
  <2>3. CASE /\ first = << >>
             /\ dbuf' = Units(uread + 1, uread + 1) /\ uread' = uread + 1
             /\ down' = "write" /\ UNCHANGED <<first, open, ender>>
    <3>1. dbuf' = Part(attempt, uread + 1, uread + 1)
      BY <2>3, UnitsPart
    <3>2. Streamed(attempt, got, Part(attempt, uread + 1, uread + 1), << >>, uread + 1)
      BY <1>1, <2>1, <2>3, ReadStreamed
    <3> QED BY <1>1, <1>2, <2>1, <2>3, <3>1, <3>2 DEF Received
  <2>4. CASE first = << >> /\ uread = usent /\ DownEnds(IF uend THEN "eof" ELSE "idle")
    <3>1. got = Part(attempt, 1, usent)
      BY <1>1, <2>1, <2>4, AllGiven
    <3>2. CASE uend
      <4>1. DownEnds("eof")
        BY <2>4, <3>2
      <4> QED BY <1>1, <1>2, <2>1, <3>1, <3>2, <4>1, DownEndsOK
    <3>3. CASE ~uend
      <4>1. DownEnds("idle")
        BY <2>4, <3>3
      <4> QED BY <1>1, <1>2, <2>1, <4>1, DownEndsOK
    <3> QED BY <3>2, <3>3
  <2>5. CASE DownEnds("closed")
    BY <1>1, <1>2, <2>1, <2>5, DownEndsOK
  <2> QED BY <1>2, <2>2, <2>3, <2>4, <2>5 DEF DownRead
<1>3. ASSUME DownWrite PROVE Received'
  <2>1. Streamed(attempt, got \o dbuf, << >>, first, uread)
    BY <1>1, WriteStreamed
  <2>2. /\ down = "write" /\ down' = "read" /\ got' = got \o dbuf /\ dbuf' = << >>
        /\ UNCHANGED <<first, uread, ender>>
    BY <1>3 DEF DownWrite
  <2> QED BY <1>1, <2>1, <2>2 DEF Received
<1>4. ASSUME DownWriteFails PROVE Received'
  <2>1. down = "write" /\ DownEnds("write") /\ UNCHANGED got
    BY <1>4 DEF DownWriteFails
  <2> QED BY <1>1, <2>1, DownEndsOK
<1>5. Received'
  BY <1>2, <1>3, <1>4 DEF Down
<1> QED BY <1>5, DownFrame DEF TunnelInv

LEMMA UpOK == ASSUME TunnelInv, Up PROVE TunnelInv'
<1>1. /\ stage = "pipes" /\ taken \in Nat /\ \E k \in Nat : fed = Upto(k)
      /\ UNCHANGED <<vars, stage, open, hello, peer, down, dbuf, usent, uend, uread, first, got,
                     unwritten>>
      /\ up = "read" => fed = Upto(taken)
      /\ up = "write" => taken # 0 /\ fed = Upto(taken - 1) /\ ubuf = <<taken>>
  BY DEF Up, TunnelInv, Given
<1>2. sockets' = sockets \/ sockets' = sockets \ {attempt}
  BY DEF Up, UpRead, UpWrite, UpWriteFails, UpEnds, Closed
<1>3. ender' = "eof" => ender = "eof"
  BY DEF Up, UpRead, UpWrite, UpWriteFails, UpEnds, First
<1>4. Control' /\ Held'
  BY <1>1, <1>2 DEF TunnelInv, Control, Held, vars
<1>5. Received'
  BY <1>1, <1>3 DEF TunnelInv, Received, vars
<1>6. Given'
  <2>1. ASSUME UpEnds("up") PROVE Given'
    BY <1>1, <2>1 DEF UpEnds, TunnelInv, Given, vars, peer
  <2>2. CASE up = "read" /\ ubuf' = <<taken + 1>> /\ taken' = taken + 1 /\ up' = "write" /\ fed' = fed
    <3>1. taken' \in Nat /\ taken' # 0 /\ taken' - 1 = taken
      BY <1>1, <2>2
    <3> QED BY <1>1, <2>2, <3>1 DEF TunnelInv, Given, vars, peer
  <2>3. CASE UpWrite
    <3>1. /\ up = "write" /\ up' = "read" /\ taken' = taken /\ fed' = fed \o ubuf
      BY <2>3 DEF UpWrite
    <3>2. taken - 1 \in Nat /\ (taken - 1) + 1 = taken
      BY <1>1, <3>1
    <3>3. fed' = Upto(taken)
      BY <1>1, <3>1, <3>2, UptoFacts
    <3> QED BY <1>1, <3>1, <3>3 DEF TunnelInv, Given, vars, peer
  <2> QED BY <2>1, <2>2, <2>3 DEF Up, UpRead, UpWriteFails
<1> QED BY <1>4, <1>5, <1>6 DEF TunnelInv

LEMMA HandleOK == ASSUME TunnelInv, HandleCloses \/ HandleReturns PROVE TunnelInv'
<1>1. /\ stage = "pipes" /\ sockets' = sockets \ {attempt}
      /\ UNCHANGED <<vars, taken, hello, peer, pipes, fed, usent, uend, uread, first, got, unwritten>>
      /\ stage' = "pipes" \/ (stage' = "done" /\ ~open')
  BY DEF HandleCloses, HandleReturns, AfterDown, Closed
<1>2. Control' /\ Held'
  BY <1>1 DEF TunnelInv, Control, Held, vars
<1>3. Given'
  BY <1>1 DEF TunnelInv, Given, vars, peer, pipes
<1>4. Received'
  BY <1>1 DEF TunnelInv, Received, vars, pipes
<1> QED BY <1>2, <1>3, <1>4 DEF TunnelInv

-----------------------------------------------------------------------------
(* The peers, and the start.                                                *)

LEMMA ClientOK == ASSUME TunnelInv, ClientSends \/ ClientEnds PROVE TunnelInv'
<1>1. /\ UNCHANGED <<vars, stage, open, taken, hello, streams, pipes>>
      /\ sent' = sent \/ sent' = sent + 1
  BY DEF ClientSends, ClientEnds
<1>2. Control' /\ Held'
  BY <1>1 DEF TunnelInv, Control, Held, vars, streams, pipes
<1>3. Given'
  BY <1>1 DEF TunnelInv, Given, vars, streams, pipes
<1>4. Received'
  BY <1>1 DEF TunnelInv, Received, vars, streams, pipes
<1> QED BY <1>2, <1>3, <1>4 DEF TunnelInv

LEMMA UpstreamOK == ASSUME TunnelInv, UpstreamSends \/ UpstreamEnds PROVE TunnelInv'
<1>1. /\ ~uend
      /\ UNCHANGED <<vars, stage, open, taken, hello, peer, pipes, fed, uread, first, got, sockets,
                     unwritten>>
      /\ usent' = usent \/ usent' = usent + 1
  BY DEF UpstreamSends, UpstreamEnds
<1>2. Control' /\ Held'
  BY <1>1 DEF TunnelInv, Control, Held, vars, pipes
<1>3. Given'
  BY <1>1 DEF TunnelInv, Given, vars, peer, pipes
<1>4. Received'
  BY <1>1 DEF TunnelInv, Received, vars, pipes
<1> QED BY <1>2, <1>3, <1>4 DEF TunnelInv

LEMMA TunnelInitOK == ASSUME TunnelInit PROVE TunnelInv
<1>1. phase \in {"loop", "resolve"} /\ attempt = 1
  BY DEF TunnelInit, Init
<1>2. Control
  BY <1>1 DEF TunnelInit, Control
<1>3. Held
  BY DEF TunnelInit, Held
<1>4. Given
  <2>1. << >> = Upto(0)
    BY DEF Upto
  <2> QED BY <2>1 DEF TunnelInit, Given
<1>5. Received
  BY NothingStreamed DEF TunnelInit, Received
<1> QED BY <1>2, <1>3, <1>4, <1>5 DEF TunnelInv

LEMMA TunnelStutterOK == ASSUME TunnelInv, UNCHANGED tunnelVars PROVE TunnelInv'
<1>1. UNCHANGED <<vars, stage, open, taken, hello, peer, streams, pipes>>
  BY DEF tunnelVars
<1>2. Control' /\ Held'
  BY <1>1 DEF TunnelInv, Control, Held, vars, streams, pipes
<1>3. Given'
  BY <1>1 DEF TunnelInv, Given, vars, peer, streams, pipes
<1>4. Received'
  BY <1>1 DEF TunnelInv, Received, vars, streams, pipes
<1> QED BY <1>2, <1>3, <1>4 DEF TunnelInv

\* The inductive invariant: at every point the bytes of both directions are
\* accounted for, and so is every connection to an upstream.
THEOREM TunnelInvariant == FairTunnelSpec => []TunnelInv
<1>1. TunnelInit => TunnelInv
  BY TunnelInitOK
<1>2. TunnelInv /\ [TunnelNext]_tunnelVars => TunnelInv'
  BY ReadHelloOK, ReadHelloFailsOK, SearchStepOK, DownOK, UpOK, HandleOK, ClientOK, UpstreamOK,
     TunnelStutterOK DEF TunnelNext
<1> QED BY <1>1, <1>2, PTL DEF FairTunnelSpec, TunnelSpec

\* Failover is invisible at both ends: the client is given the stream of one
\* upstream from its first byte on and nothing of an upstream that was given up,
\* and an upstream the client's stream without a gap, wherever readHello, the
\* replay and the upload pipe met.
THEOREM NothingLostOrMixed == FairTunnelSpec => []StreamsIntact
<1>1. ASSUME TunnelInv PROVE StreamsIntact
  <2>1. \E a \in 1..attempt : got = [i \in 1..Len(got) |-> <<a, i>>]
    <3>1. attempt \in 1..attempt
      BY <1>1, AttemptFresh
    <3>2. PICK k \in Nat : got = Part(attempt, 1, k)
      BY <1>1 DEF TunnelInv, Received, Streamed
    <3>3. 0 + 1 = 1 /\ k - 0 = k /\ 0 <= k /\ \A i \in 1..k : 0 + i = i
      OBVIOUS
    <3>4. /\ got \in Seq({attempt} \X Nat) /\ Len(got) = k
          /\ \A i \in 1..k : got[i] = <<attempt, i>>
      <4>1. /\ Part(attempt, 0 + 1, k) \in Seq({attempt} \X Nat)
            /\ Len(Part(attempt, 0 + 1, k)) = k - 0
            /\ \A i \in 1..(k - 0) : Part(attempt, 0 + 1, k)[i] = <<attempt, 0 + i>>
        <5>1. 0 \in Nat /\ 0 <= k
          OBVIOUS
        <5> QED BY <5>1, PartFacts
      <4> QED BY <3>2, <3>3, <4>1
    <3>5. got = [i \in 1..Len(got) |-> <<attempt, i>>]
      BY <3>4
    <3> QED BY <3>1, <3>5
  <2>2. fed = Upto(Len(fed))
    <3>1. PICK k \in Nat : fed = Upto(k)
      BY <1>1 DEF TunnelInv, Given
    <3> QED BY <3>1, UptoFacts
  <2> QED BY <2>1, <2>2 DEF StreamsIntact
<1> QED BY <1>1, TunnelInvariant, PTL

\* When the end of the upstream's stream is what ended the connection, the client
\* has been given all of it, the proof of forwarding included.
THEOREM FinishedIsWhole == FairTunnelSpec => []FinishedResponseWhole
<1>1. ASSUME TunnelInv PROVE FinishedResponseWhole
  BY <1>1, UnitsPart DEF TunnelInv, Received, FinishedResponseWhole
<1> QED BY <1>1, TunnelInvariant, PTL

\* When handle has returned, no connection of it is open but those whose
\* ClientHello could not be written.
THEOREM NoSocketLeft == FairTunnelSpec => []SocketsReleased
<1>1. TunnelInv => SocketsReleased
  BY DEF TunnelInv, Held, SocketsReleased
<1> QED BY <1>1, TunnelInvariant, PTL
=============================================================================
