---------------------------- MODULE ResolveProofs ----------------------------
(***************************************************************************)
(* resolve, for any number of queries, any breaker and any policy: which   *)
(* rule the loop of routeFromRules selects, and when an upstream is        *)
(* bypassed; and the connections over TLS and TCP that bring the questions *)
(* to it, for any scripts and bounds.                                      *)
(***************************************************************************)
EXTENDS Resolve, PlainTcp, WellFoundedInduction, SequenceTheorems, FiniteSetTheorems,
        TLAPS

-----------------------------------------------------------------------------
(* The loop over the rules.                                                 *)

LEMMA LeastPlace ==
  ASSUME NEW T, T \subseteq Nat, T # {}
  PROVE  \E n \in T : \A m \in T : n <= m
<1> DEFINE R == OpToRel(<, Nat)
<1>1. IsWellFoundedOn(R, Nat)
  BY NatLessThanWellFounded
<1>2. \A x, y \in Nat : x < y => <<x, y>> \in R
  BY DEF OpToRel
<1> HIDE DEF R
<1>3. PICK n \in T : \A m \in T : ~ (<<m, n>> \in R)
  BY <1>1, WFMin
<1>4. ASSUME NEW m \in T PROVE n <= m
  <2>1. n \in Nat /\ m \in Nat
    OBVIOUS
  <2>2. ~ (m < n)
    BY <1>2, <1>3, <2>1
  <2> QED BY <2>1, <2>2
<1> QED BY <1>4

\* One turn of the loop: rule i against the one selected so far.
Turn(rules, name, profile, i, s) ==
  IF /\ Eligible(rules[i], name, profile)
     /\ s = 0 \/ Score(rules[i]) > Score(rules[s])
  THEN i ELSE s

\* f holds what is selected after each of the first m turns.
Loops(f, rules, name, profile, m) ==
  f = [i \in 0..m |-> IF i = 0 THEN 0 ELSE Turn(rules, name, profile, i, f[i - 1])]

LEMMA SelectedDef ==
  ASSUME NEW rules, NEW name, NEW profile
  PROVE  LET n == Len(rules)
         IN Selected(rules, name, profile) = (CHOOSE f : Loops(f, rules, name, profile, n))[n]
BY DEF Selected, Loops, Turn

LEMMA LoopsFacts ==
  ASSUME NEW f, NEW rules, NEW name, NEW profile, NEW m \in Nat,
         Loops(f, rules, name, profile, m)
  PROVE  /\ f[0] = 0
         /\ \A i \in 1..m : f[i] = Turn(rules, name, profile, i, f[i - 1])
<1>1. /\ 0 \in 0..m /\ 1..m \subseteq 0..m /\ \A i \in 1..m : i # 0
  OBVIOUS
<1>2. \A i \in 0..m : f[i] = IF i = 0 THEN 0 ELSE Turn(rules, name, profile, i, f[i - 1])
  BY DEF Loops
<1> QED BY <1>1, <1>2

\* The loop can be run to its end.
LEMMA LoopsExist ==
  ASSUME NEW rules, NEW name, NEW profile, NEW n \in Nat
  PROVE  \E f : Loops(f, rules, name, profile, n)
<1> DEFINE T == {m \in Nat : ~ \E f : Loops(f, rules, name, profile, m)}
<1>1. SUFFICES ASSUME T # {} PROVE FALSE
  OBVIOUS
<1>2. PICK m \in T : \A k \in T : m <= k
  <2>1. T \subseteq Nat
    OBVIOUS
  <2> HIDE DEF T
  <2> QED BY <1>1, <2>1, LeastPlace
<1>3. m \in Nat /\ ~ \E f : Loops(f, rules, name, profile, m)
  OBVIOUS
<1>4. CASE m = 0
  <2> DEFINE f == [i \in 0..0 |-> 0]
  <2>1. f = [i \in 0..0 |-> IF i = 0 THEN 0 ELSE Turn(rules, name, profile, i, f[i - 1])]
    <3>1. \A i \in 0..0 : i = 0
      OBVIOUS
    <3> QED BY <3>1
  <2>2. Loops(f, rules, name, profile, m)
    BY <1>4, <2>1 DEF Loops
  <2> QED BY <1>3, <2>2
<1>5. CASE m # 0
  <2>1. m - 1 \in Nat /\ ~ (m <= m - 1)
    BY <1>3, <1>5
  <2>2. m - 1 \notin T
    BY <1>2, <2>1
  <2>3. PICK f : Loops(f, rules, name, profile, m - 1)
    BY <2>1, <2>2
  <2> DEFINE g == [i \in 0..m |-> IF i = m THEN Turn(rules, name, profile, m, f[m - 1]) ELSE f[i]]
  <2>4. ASSUME NEW i \in 0..m
        PROVE  g[i] = IF i = 0 THEN 0 ELSE Turn(rules, name, profile, i, g[i - 1])
    <3>1. f[0] = 0 /\ \A j \in 1..(m - 1) : f[j] = Turn(rules, name, profile, j, f[j - 1])
      BY <2>1, <2>3, LoopsFacts
    <3>2. CASE i = 0
      BY <1>3, <1>5, <3>1, <3>2
    <3>3. CASE i # 0
      <4>1. i - 1 \in 0..m /\ i - 1 # m
        BY <1>3, <3>3
      <4>2. g[i - 1] = f[i - 1]
        BY <4>1
      <4>3. CASE i = m
        BY <3>3, <4>2, <4>3
      <4>4. CASE i # m
        <5>1. i \in 1..(m - 1)
          BY <1>3, <3>3, <4>4
        <5> QED BY <3>1, <3>3, <4>2, <4>4, <5>1
      <4> QED BY <4>3, <4>4
    <3> QED BY <3>2, <3>3
  <2>5. g = [i \in 0..m |-> IF i = 0 THEN 0 ELSE Turn(rules, name, profile, i, g[i - 1])]
    <3>1. g = [i \in 0..m |-> g[i]]
      OBVIOUS
    <3> HIDE DEF g
    <3> QED BY <2>4, <3>1
  <2> HIDE DEF g
  <2>6. Loops(g, rules, name, profile, m)
    BY <2>5 DEF Loops
  <2> QED BY <1>3, <2>6
<1> QED BY <1>4, <1>5

\* What the loop has found after m turns: the first of the best scores.
Best(rules, name, profile, m, s) ==
  /\ s \in 0..m
  /\ s = 0 => \A j \in 1..m : ~Eligible(rules[j], name, profile)
  /\ s # 0 =>
       /\ Eligible(rules[s], name, profile)
       /\ \A j \in 1..m : Eligible(rules[j], name, profile) =>
            /\ Score(rules[j]) <= Score(rules[s])
            /\ j < s => Score(rules[j]) < Score(rules[s])

LEMMA TurnBest ==
  ASSUME NEW rules, NEW name, NEW profile, NEW m \in Nat \ {0}, NEW s,
         \A i \in 1..m : Score(rules[i]) \in Nat,
         Best(rules, name, profile, m - 1, s)
  PROVE  Best(rules, name, profile, m, Turn(rules, name, profile, m, s))
<1> DEFINE t == Turn(rules, name, profile, m, s)
           E(j) == Eligible(rules[j], name, profile)
           W(j) == Score(rules[j])
<1>1. /\ s \in 0..(m - 1)
      /\ s = 0 => \A j \in 1..(m - 1) : ~E(j)
      /\ s # 0 => /\ E(s)
                  /\ \A j \in 1..(m - 1) : E(j) => W(j) <= W(s) /\ (j < s => W(j) < W(s))
  BY DEF Best
<1>2. t = IF E(m) /\ (s = 0 \/ W(m) > W(s)) THEN m ELSE s
  BY DEF Turn
<1>3. \A i \in 1..m : W(i) \in Nat
  OBVIOUS
<1>4. \A j \in 1..m : j \in 1..(m - 1) \/ j = m
  OBVIOUS
<1> HIDE DEF t, E, W
<1>5. CASE E(m) /\ (s = 0 \/ W(m) > W(s))
  <2>1. t = m
    BY <1>2, <1>5
  <2>2. ASSUME NEW j \in 1..m, E(j) PROVE W(j) <= W(m) /\ (j < m => W(j) < W(m))
    <3>1. CASE j = m
      BY <1>3, <3>1
    <3>2. CASE j \in 1..(m - 1)
      <4>1. s # 0 /\ W(j) <= W(s) /\ W(m) > W(s)
        BY <1>1, <1>5, <2>2, <3>2
      <4>2. s \in 1..m /\ W(s) \in Nat /\ W(j) \in Nat /\ W(m) \in Nat
        BY <1>1, <1>3, <4>1
      <4> QED BY <4>1, <4>2
    <3> QED BY <1>4, <3>1, <3>2
  <2>3. m # 0 /\ m \in 0..m
    OBVIOUS
  <2> QED BY <1>5, <2>1, <2>2, <2>3 DEF Best, t, E, W
<1>6. CASE ~ (E(m) /\ (s = 0 \/ W(m) > W(s)))
  <2>1. t = s /\ s \in 0..m
    BY <1>1, <1>2, <1>6
  <2>2. ASSUME s = 0, NEW j \in 1..m PROVE ~E(j)
    BY <1>1, <1>4, <1>6, <2>2
  <2>3. ASSUME s # 0
        PROVE  E(s) /\ \A j \in 1..m : E(j) => W(j) <= W(s) /\ (j < s => W(j) < W(s))
    <3>1. s \in 1..m /\ W(s) \in Nat /\ W(m) \in Nat /\ s < m
      BY <1>1, <1>3, <2>3
    <3>2. E(m) => W(m) <= W(s)
      BY <1>6, <2>3, <3>1
    <3>3. ASSUME NEW j \in 1..m, E(j) PROVE W(j) <= W(s) /\ (j < s => W(j) < W(s))
      BY <1>1, <1>4, <2>3, <3>1, <3>2, <3>3
    <3> QED BY <1>1, <2>3, <3>3
  <2> QED BY <2>1, <2>2, <2>3 DEF Best, t, E, W
<1> QED BY <1>5, <1>6

LEMMA LoopBest ==
  ASSUME NEW rules, NEW name, NEW profile, NEW n \in Nat, NEW f,
         \A i \in 1..n : Score(rules[i]) \in Nat,
         Loops(f, rules, name, profile, n)
  PROVE  Best(rules, name, profile, n, f[n])
<1> DEFINE T == {m \in 0..n : ~Best(rules, name, profile, m, f[m])}
<1>1. f[0] = 0 /\ \A i \in 1..n : f[i] = Turn(rules, name, profile, i, f[i - 1])
  BY LoopsFacts
<1>2. SUFFICES ASSUME T # {} PROVE FALSE
  OBVIOUS
<1>3. PICK m \in T : \A k \in T : m <= k
  <2>1. T \subseteq Nat
    OBVIOUS
  <2> HIDE DEF T
  <2> QED BY <1>2, <2>1, LeastPlace
<1>4. m \in 0..n /\ ~Best(rules, name, profile, m, f[m])
  OBVIOUS
<1>5. CASE m = 0
  <2>1. Best(rules, name, profile, 0, 0)
    BY DEF Best
  <2> QED BY <1>1, <1>4, <1>5, <2>1
<1>6. CASE m # 0
  <2>1. m \in Nat \ {0} /\ m \in 1..n /\ m - 1 \in 0..n /\ ~ (m <= m - 1) /\ 1..m \subseteq 1..n
    BY <1>4, <1>6
  <2>2. m - 1 \notin T
    BY <1>3, <2>1
  <2>3. Best(rules, name, profile, m - 1, f[m - 1])
    BY <2>1, <2>2
  <2> HIDE DEF T
  <2>4. \A i \in 1..m : Score(rules[i]) \in Nat
    BY <2>1
  <2>5. Best(rules, name, profile, m, Turn(rules, name, profile, m, f[m - 1]))
    BY <2>1, <2>3, <2>4, TurnBest
  <2>6. f[m] = Turn(rules, name, profile, m, f[m - 1])
    BY <1>1, <2>1
  <2> QED BY <1>4, <2>5, <2>6
<1> QED BY <1>5, <1>6

\* A rule that applies is no longer than the name.
LEMMA EligibleFacts ==
  ASSUME NEW rule, NEW name, NEW profile, Len(name) \in Nat, Len(rule.text) \in Nat,
         Eligible(rule, name, profile)
  PROVE  rule.match \in {"exact", "suffix"} /\ Len(rule.text) <= Len(name)
<1>1. /\ rule.match \in {"exact", "suffix"}
      /\ name = rule.text \/ IsSuffix(rule.text, name)
  BY DEF Eligible, Matches, Under
<1>2. ASSUME NEW t, Len(t) \in Nat PROVE Len(Reverse(t)) = Len(t)
  <2> DEFINE F(i) == t[(Len(t) - i) + 1]
  <2>1. Reverse(t) = [i \in 1..Len(t) |-> F(i)]
    BY DEF Reverse
  <2> HIDE DEF F
  <2> QED BY <1>2, <2>1
<1>3. IsSuffix(rule.text, name) => Len(Reverse(rule.text)) <= Len(Reverse(name))
  BY DEF IsSuffix, IsPrefix
<1> QED BY <1>1, <1>2, <1>3

\* Among rules that apply the scores are in the order of MoreSpecific.
LEMMA ScoreFacts ==
  ASSUME NEW r, Len(r.text) \in Nat
  PROVE  Score(r) \in Nat
<1> DEFINE x == Len(r.text)
<1>1. Score(r) = x + (IF r.match = "exact" THEN 10000 ELSE 0)
  BY DEF Score
<1>2. x \in Nat
  OBVIOUS
<1> HIDE DEF x
<1> QED BY <1>1, <1>2

LEMMA ScoreOrder ==
  ASSUME NEW r, Len(r.text) \in Nat, Len(r.text) < 10000, r.match \in {"exact", "suffix"},
         NEW t, Len(t.text) \in Nat, Len(t.text) < 10000, t.match \in {"exact", "suffix"}
  PROVE  /\ Score(r) <= Score(t) => ~MoreSpecific(r, t)
         /\ Score(r) < Score(t) => MoreSpecific(t, r)
<1> DEFINE x == Len(r.text)
           y == Len(t.text)
<1>1. /\ Score(r) = x + (IF r.match = "exact" THEN 10000 ELSE 0)
      /\ Score(t) = y + (IF t.match = "exact" THEN 10000 ELSE 0)
  BY DEF Score
<1>2. /\ MoreSpecific(r, t) <=> \/ r.match = "exact" /\ t.match = "suffix"
                                \/ r.match = t.match /\ x > y
      /\ MoreSpecific(t, r) <=> \/ t.match = "exact" /\ r.match = "suffix"
                                \/ t.match = r.match /\ y > x
  BY DEF MoreSpecific
<1>3. x \in Nat /\ y \in Nat /\ x < 10000 /\ y < 10000
  OBVIOUS
<1> HIDE DEF x, y
<1>4. CASE r.match = "exact" /\ t.match = "exact"
  BY <1>1, <1>2, <1>3, <1>4
<1>5. CASE r.match = "exact" /\ t.match = "suffix"
  BY <1>1, <1>2, <1>3, <1>5
<1>6. CASE r.match = "suffix" /\ t.match = "exact"
  BY <1>1, <1>2, <1>3, <1>6
<1>7. CASE r.match = "suffix" /\ t.match = "suffix"
  BY <1>1, <1>2, <1>3, <1>7
<1> QED BY <1>4, <1>5, <1>6, <1>7

LEMMA LoopRuns ==
  ASSUME NEW rules, NEW name, NEW profile, NEW n \in Nat
  PROVE  Loops(CHOOSE f : Loops(f, rules, name, profile, n), rules, name, profile, n)
<1>1. \E f : Loops(f, rules, name, profile, n)
  BY LoopsExist
<1> QED BY <1>1

\* The rule routeFromRules selects, for any list of rules and any name.
THEOREM MostSpecificRule ==
  ASSUME NEW rules, NEW name, NEW profile,
         Len(rules) \in Nat, \A i \in 1..Len(rules) : Len(rules[i].text) \in Nat,
         Len(name) \in Nat, Len(name) < 10000
  PROVE  LET i == Selected(rules, name, profile)
         IN IF i = 0 THEN \A j \in 1..Len(rules) : ~Eligible(rules[j], name, profile)
            ELSE Decides(rules, name, profile, i)
<1> DEFINE n == Len(rules)
           C == CHOOSE f : Loops(f, rules, name, profile, n)
           s == Selected(rules, name, profile)
           E(j) == Eligible(rules[j], name, profile)
           L(j) == Len(rules[j].text)
           x(j) == rules[j].match
<1>1. Loops(C, rules, name, profile, n)
  BY LoopRuns
<1>2. s = C[n]
  BY SelectedDef
<1>3. \A j \in 1..n : L(j) \in Nat
  OBVIOUS
<1>5. \A j \in 1..n : Score(rules[j]) \in Nat
  BY <1>3, ScoreFacts
<1> HIDE DEF C, s
<1>6. Best(rules, name, profile, n, s)
  BY <1>1, <1>2, <1>5, LoopBest
<1>7. CASE s = 0
  BY <1>6, <1>7 DEF Best, s
<1>8. CASE s # 0
  <2>1. /\ s \in 1..n /\ E(s)
        /\ \A j \in 1..n : E(j) => /\ Score(rules[j]) <= Score(rules[s])
                                   /\ j < s => Score(rules[j]) < Score(rules[s])
    BY <1>6, <1>8 DEF Best
  <2>2. \A j \in 1..n : E(j) => x(j) \in {"exact", "suffix"} /\ L(j) < 10000
    <3>1. ASSUME NEW j \in 1..n, E(j) PROVE x(j) \in {"exact", "suffix"} /\ L(j) <= Len(name)
      BY <3>1, <1>3, EligibleFacts
    <3> QED BY <3>1, <1>3
  <2>3. ASSUME NEW j \in 1..n, E(j) PROVE ~MoreSpecific(rules[j], rules[s])
    BY <1>3, <2>1, <2>2, <2>3, ScoreOrder
  <2>4. ASSUME NEW j \in 1..n, E(j), j < s PROVE MoreSpecific(rules[s], rules[j])
    BY <1>3, <2>1, <2>2, <2>4, ScoreOrder
  <2>5. Decides(rules, name, profile, s)
    BY <2>1, <2>3, <2>4 DEF Decides
  <2> QED BY <1>8, <2>5 DEF s
<1> QED BY <1>7, <1>8

-----------------------------------------------------------------------------
(* The breakers.                                                            *)

\* Failures are counted from the last success or the last opening, so they are
\* part of the streak; and only the two DoH resolvers are ever asked.
CountedInStreak == \A r \in Resolvers : failures[r] <= streak[r]

AskedIsResolver == \A q \in Queries : query[q].pc = "ask" => query[q].leg \in Resolvers

BreakerInv == TypeOK /\ CountedInStreak /\ AskedIsResolver /\ BypassedOnlyAfterStreak

ResolveInv == BreakerInv /\ policy \in Policies

Queried == [pc : {"idle", "gate", "ask", "answered", "servfail"}, leg : Resolvers \cup {"udp"}]

LEMMA BreakerTypes ==
  ASSUME BreakerInv
  PROVE  /\ Threshold \in Nat \ {0} /\ Cooldown \in Nat \ {0}
         /\ failures \in [Resolvers -> 0..(Threshold - 1)]
         /\ open \in [Resolvers -> 0..Cooldown]
         /\ query \in [Queries -> Queried]
         /\ streak \in [Resolvers -> 0..Threshold]
BY BreakerAssumption DEF BreakerInv, TypeOK, Queried

\* A step of one query that reports nothing.
LEMMA Unreported ==
  ASSUME BreakerInv, NEW q \in Queries, NEW v \in Queried,
         query' = [query EXCEPT ![q] = v], UNCHANGED <<failures, open, streak>>,
         v.pc = "ask" => v.leg \in Resolvers
  PROVE  BreakerInv'
<1>1. query' \in [Queries -> Queried] /\ \A p \in Queries : query'[p] = IF p = q THEN v ELSE query[p]
  BY BreakerTypes
<1> QED BY <1>1 DEF BreakerInv, TypeOK, Queried, CountedInStreak, AskedIsResolver,
                    BypassedOnlyAfterStreak

\* A report of query q on resolver r.
LEMMA Reported ==
  ASSUME BreakerInv, NEW q \in Queries, NEW v \in Queried, NEW r \in Resolvers,
         NEW f \in 0..(Threshold - 1), NEW o \in 0..Cooldown, NEW s \in 0..Threshold,
         query' = [query EXCEPT ![q] = v], v.pc # "ask",
         failures' = [failures EXCEPT ![r] = f], open' = [open EXCEPT ![r] = o],
         streak' = [streak EXCEPT ![r] = s],
         f <= s, o > 0 => s = Threshold
  PROVE  BreakerInv'
<1>1. query' \in [Queries -> Queried] /\ \A p \in Queries : query'[p] = IF p = q THEN v ELSE query[p]
  BY BreakerTypes
<1>2. /\ failures' \in [Resolvers -> 0..(Threshold - 1)]
      /\ open' \in [Resolvers -> 0..Cooldown]
      /\ streak' \in [Resolvers -> 0..Threshold]
      /\ \A x \in Resolvers : /\ failures'[x] = IF x = r THEN f ELSE failures[x]
                              /\ open'[x] = IF x = r THEN o ELSE open[x]
                              /\ streak'[x] = IF x = r THEN s ELSE streak[x]
  BY BreakerTypes
<1>3. TypeOK' /\ AskedIsResolver'
  BY <1>1, <1>2 DEF BreakerInv, TypeOK, Queried, AskedIsResolver
<1>4. CountedInStreak' /\ BypassedOnlyAfterStreak'
  BY <1>2 DEF BreakerInv, CountedInStreak, BypassedOnlyAfterStreak
<1> QED BY <1>3, <1>4 DEF BreakerInv

LEMMA HandOverFacts ==
  ASSUME BreakerInv, NEW q \in Queries
  PROVE  HandOver(q) \in Queried /\ HandOver(q).pc = "gate"
<1>1. query[q] \in Queried
  BY BreakerTypes
<1> QED BY <1>1 DEF HandOver, NextLeg, Queried, Resolvers

LEMMA BeginOK ==
  ASSUME BreakerInv, NEW q \in Queries, Begin(q) \/ AnsweredHere(q)
  PROVE  BreakerInv'
<1>1. PICK at \in {"gate", "answered"} : query' = [query EXCEPT ![q] = [Idle EXCEPT !.pc = at]]
  BY DEF Begin, AnsweredHere
<1>2. [Idle EXCEPT !.pc = at] \in Queried /\ [Idle EXCEPT !.pc = at].pc # "ask"
  BY DEF Idle, Queried, Resolvers
<1>3. UNCHANGED <<failures, open, streak>>
  BY DEF Begin, AnsweredHere
<1> QED BY <1>1, <1>2, <1>3, Unreported

LEMMA BypassedOK ==
  ASSUME BreakerInv, NEW q \in Queries, Bypassed(q)
  PROVE  BreakerInv'
BY HandOverFacts, Unreported DEF Bypassed

LEMMA AskOK ==
  ASSUME BreakerInv, NEW q \in Queries, Ask(q)
  PROVE  BreakerInv'
<1> DEFINE v == [query[q] EXCEPT !.pc = "ask"]
<1>1. query' = [query EXCEPT ![q] = v] /\ UNCHANGED <<failures, open, streak>>
  BY BreakerTypes DEF Ask
<1>2. v \in Queried /\ v.leg \in Resolvers
  BY BreakerTypes DEF Ask, Queried
<1> HIDE DEF v
<1> QED BY <1>1, <1>2, Unreported

LEMMA UdpOK ==
  ASSUME BreakerInv, NEW q \in Queries, Udp(q)
  PROVE  BreakerInv'
<1>1. PICK at \in {"answered", "servfail"} : query' = [query EXCEPT ![q].pc = at]
  BY DEF Udp
<1> DEFINE v == [query[q] EXCEPT !.pc = at]
<1>2. query' = [query EXCEPT ![q] = v] /\ UNCHANGED <<failures, open, streak>>
  BY <1>1, BreakerTypes DEF Udp
<1>3. v \in Queried /\ v.pc # "ask"
  BY BreakerTypes DEF Queried
<1> HIDE DEF v
<1> QED BY <1>2, <1>3, Unreported

LEMMA AnsweredOK ==
  ASSUME BreakerInv, NEW q \in Queries, Answered(q)
  PROVE  BreakerInv'
<1> DEFINE v == [query[q] EXCEPT !.pc = "answered"]
           r == query[q].leg
<1>1. r \in Resolvers
  BY DEF Answered, BreakerInv, AskedIsResolver
<1>2. /\ query' = [query EXCEPT ![q] = v]
      /\ failures' = [failures EXCEPT ![r] = 0] /\ open' = [open EXCEPT ![r] = 0]
      /\ streak' = [streak EXCEPT ![r] = 0]
  BY BreakerTypes DEF Answered, ReportAnswer
<1>3. v \in Queried /\ v.pc # "ask"
  BY BreakerTypes DEF Queried
<1>4. /\ 0 \in 0..(Threshold - 1) /\ 0 \in 0..Cooldown /\ 0 \in 0..Threshold
      /\ 0 <= 0 /\ ~ (0 > 0)
  BY BreakerTypes
<1> HIDE DEF v, r
<1> QED BY <1>1, <1>2, <1>3, <1>4, Reported

LEMMA FailedOK ==
  ASSUME BreakerInv, NEW q \in Queries, Failed(q)
  PROVE  BreakerInv'
<1> DEFINE v == HandOver(q)
           r == query[q].leg
           opens == failures[r] + 1 >= Threshold
           f == IF opens THEN 0 ELSE failures[r] + 1
           o == IF opens THEN Cooldown ELSE open[r]
           s == Smaller(streak[r] + 1, Threshold)
<1>1. r \in Resolvers
  BY DEF Failed, BreakerInv, AskedIsResolver
<1>2. /\ query' = [query EXCEPT ![q] = v]
      /\ failures' = [failures EXCEPT ![r] = f] /\ open' = [open EXCEPT ![r] = o]
      /\ streak' = [streak EXCEPT ![r] = s]
  BY <1>1, BreakerTypes DEF Failed, ReportFailure
<1>3. v \in Queried /\ v.pc # "ask"
  BY HandOverFacts
<1>4. /\ failures[r] \in 0..(Threshold - 1) /\ open[r] \in 0..Cooldown /\ streak[r] \in 0..Threshold
      /\ failures[r] <= streak[r] /\ (open[r] > 0 => streak[r] = Threshold)
      /\ Threshold \in Nat \ {0} /\ Cooldown \in Nat \ {0}
  BY <1>1, BreakerTypes DEF BreakerInv, CountedInStreak, BypassedOnlyAfterStreak
<1>5. s = IF streak[r] + 1 < Threshold THEN streak[r] + 1 ELSE Threshold
  BY DEF Smaller
<1>6. /\ f \in 0..(Threshold - 1) /\ o \in 0..Cooldown /\ s \in 0..Threshold
      /\ f <= s /\ (o > 0 => s = Threshold)
  BY <1>4, <1>5
<1> HIDE DEF v, r, f, o, s
<1> QED BY <1>1, <1>2, <1>3, <1>6, Reported

LEMMA TickOK ==
  ASSUME BreakerInv, Tick
  PROVE  BreakerInv'
<1>1. /\ open' \in [Resolvers -> 0..Cooldown]
      /\ \A r \in Resolvers : open'[r] > 0 => open[r] > 0
  BY BreakerTypes DEF Tick
<1>2. UNCHANGED <<failures, query, streak>>
  BY DEF Tick
<1> QED BY <1>1, <1>2 DEF BreakerInv, TypeOK, CountedInStreak, AskedIsResolver,
                          BypassedOnlyAfterStreak

LEMMA BreakerInitOK == Init => BreakerInv
<1> SUFFICES ASSUME Init PROVE BreakerInv
  OBVIOUS
<1>1. Idle \in Queried /\ Idle.pc # "ask"
  BY DEF Idle, Queried, Resolvers
<1> QED BY <1>1, BreakerAssumption DEF Init, BreakerInv, TypeOK, Queried, CountedInStreak,
             AskedIsResolver, BypassedOnlyAfterStreak

LEMMA ResolveStepOK == ResolveInv /\ [ResolveNext]_resolveVars => ResolveInv'
<1> SUFFICES ASSUME ResolveInv, [ResolveNext]_resolveVars PROVE ResolveInv'
  OBVIOUS
<1>1. BreakerInv /\ policy' = policy /\ policy \in Policies
  BY DEF ResolveInv, ResolveNext, resolveVars
<1>2. ASSUME NEW q \in Queries, Asks(q) PROVE BreakerInv'
  BY <1>1, <1>2, BeginOK DEF Asks
<1>3. ASSUME NEW q \in Queries, Step(q) PROVE BreakerInv'
  BY <1>1, <1>3, BypassedOK, AskOK, AnsweredOK, FailedOK, UdpOK DEF Step
<1>4. ASSUME UNCHANGED resolveVars PROVE BreakerInv'
  BY <1>1, <1>4 DEF resolveVars, vars, BreakerInv, TypeOK, CountedInStreak, AskedIsResolver,
                    BypassedOnlyAfterStreak
<1>5. BreakerInv'
  BY <1>1, <1>2, <1>3, <1>4, TickOK DEF ResolveNext
<1> QED BY <1>1, <1>5 DEF ResolveInv

\* The inductive invariant: counters are typed, what is counted is in the streak,
\* and only a resolver is asked.
THEOREM ResolveInvariant == ResolveSpec => []ResolveInv
<1>1. ResolveInit => ResolveInv
  BY BreakerInitOK DEF ResolveInit, ResolveInv
<1> QED BY <1>1, ResolveStepOK, PTL DEF ResolveSpec

\* No upstream is bypassed (query returns errDoHUnavailable) unless the last
\* Threshold reports about it were failures, whatever order the reports of
\* concurrent queries arrive in.
THEOREM NoEarlyBypass == ResolveSpec => []BypassedOnlyAfterStreak
<1>1. ResolveInv => BypassedOnlyAfterStreak
  BY DEF ResolveInv, BreakerInv
<1> QED BY <1>1, ResolveInvariant, PTL

\* The queries that are out asking r.
Out(r) == {q \in Queries : query[q].pc = "ask" /\ query[q].leg = r}

\* How many more ticks r can be bypassed at most, if nothing is asked of it anew.
TicksLeft(r) == Cooldown * Cardinality(Out(r)) + open[r]

LEMMA Product == \A c, k \in Int : c * k \in Int /\ c * (k - 1) = c * k - c
OBVIOUS

LEMMA OutFacts ==
  ASSUME BreakerInv, IsFiniteSet(Queries), NEW r \in Resolvers
  PROVE  /\ IsFiniteSet(Out(r)) /\ Cardinality(Out(r)) \in Nat
         /\ Cooldown \in Nat \ {0} /\ open[r] \in Nat
         /\ Cooldown * Cardinality(Out(r)) \in Int
<1>1. IsFiniteSet(Out(r)) /\ Cardinality(Out(r)) \in Nat
  BY FS_Subset, FS_CardinalityType DEF Out
<1>2. Cooldown \in Nat \ {0} /\ open[r] \in Nat
  BY BreakerTypes
<1> QED BY <1>1, <1>2, Product

\* A step of a query that is not out asking r.
LEMMA SameOut ==
  ASSUME BreakerInv, NEW q \in Queries, NEW r \in Resolvers, NEW v \in Queried,
         query' = [query EXCEPT ![q] = v],
         ~(query[q].pc = "ask" /\ query[q].leg = r), ~(v.pc = "ask" /\ v.leg = r)
  PROVE  Out(r)' = Out(r)
<1>1. \A p \in Queries : query'[p] = IF p = q THEN v ELSE query[p]
  BY BreakerTypes
<1> QED BY <1>1 DEF Out

\* While r is bypassed, only a report of a query that went out before can prolong it.
Shrinks(r) ==
  open[r] > 0 /\ open'[r] > 0 =>
    /\ Out(r)' \subseteq Out(r)
    /\ TicksLeft(r)' <= TicksLeft(r)
    /\ open'[r] > open[r] => Out(r)' # Out(r)
    /\ Tick => TicksLeft(r)' < TicksLeft(r)

LEMMA StillShrinks ==
  ASSUME BreakerInv, IsFiniteSet(Queries), NEW r \in Resolvers,
         Out(r)' = Out(r), open'[r] = open[r], ~Tick
  PROVE  Shrinks(r)
BY OutFacts DEF Shrinks, TicksLeft

LEMMA ReportShrinks ==
  ASSUME BreakerInv, IsFiniteSet(Queries), NEW r \in Resolvers, NEW q \in Queries,
         Failed(q), ~Tick
  PROVE  Shrinks(r)
<1> DEFINE v == HandOver(q)
           o == query[q].leg
<1>1. /\ query' = [query EXCEPT ![q] = v] /\ query[q].pc = "ask"
      /\ v \in Queried /\ v.pc # "ask" /\ o \in Resolvers
  BY HandOverFacts DEF Failed, BreakerInv, AskedIsResolver
<1>2. open' = [open EXCEPT ![o] = IF failures[o] + 1 >= Threshold THEN Cooldown ELSE @]
  BY DEF Failed, ReportFailure
<1> HIDE DEF v
<1>3. CASE o # r
  <2>1. Out(r)' = Out(r)
    BY <1>1, <1>3, SameOut
  <2>2. open'[r] = open[r]
    BY <1>2, <1>3, BreakerTypes
  <2> QED BY <2>1, <2>2, StillShrinks
<1>4. CASE o = r
  <2>1. \A p \in Queries : query'[p] = IF p = q THEN v ELSE query[p]
    BY <1>1, BreakerTypes
  <2>2. q \in Out(r) /\ Out(r)' = Out(r) \ {q}
    BY <1>1, <1>4, <2>1 DEF Out
  <2>3. Cardinality(Out(r)') = Cardinality(Out(r)) - 1
    BY <2>2, OutFacts, FS_RemoveElement
  <2>4. open'[r] \in {Cooldown, open[r]}
    BY <1>2, <1>4, BreakerTypes
  <2>5. TicksLeft(r)' = Cooldown * (Cardinality(Out(r)) - 1) + open'[r]
    BY <2>3 DEF TicksLeft
  <2>6. Cooldown * (Cardinality(Out(r)) - 1) = Cooldown * Cardinality(Out(r)) - Cooldown
    BY OutFacts, Product
  <2>7. ASSUME open[r] > 0 PROVE TicksLeft(r)' <= TicksLeft(r)
    <3> DEFINE whole == Cooldown * Cardinality(Out(r))
    <3>1. whole \in Int /\ Cooldown \in Nat /\ open[r] \in Nat /\ open[r] <= Cooldown
      BY OutFacts, BreakerTypes
    <3>2. TicksLeft(r)' = whole - Cooldown + open'[r] /\ TicksLeft(r) = whole + open[r]
      BY <2>5, <2>6 DEF TicksLeft
    <3> HIDE DEF whole
    <3> QED BY <2>4, <2>7, <3>1, <3>2
  <2> QED BY <2>2, <2>7 DEF Shrinks
<1> QED BY <1>3, <1>4

LEMMA TickShrinks ==
  ASSUME BreakerInv, IsFiniteSet(Queries), NEW r \in Resolvers, Tick
  PROVE  Shrinks(r)
<1>1. Out(r)' = Out(r)
  BY DEF Tick, Out
<1>2. open[r] > 0 => open'[r] = open[r] - 1
  BY DEF Tick
<1> QED BY <1>1, <1>2, OutFacts DEF Shrinks, TicksLeft

LEMMA StepShrinks ==
  ASSUME BreakerInv, IsFiniteSet(Queries), ResolveNext, NEW r \in Resolvers
  PROVE  Shrinks(r)
<1>1. CASE Tick
  BY <1>1, TickShrinks
<1> SUFFICES ASSUME ~Tick PROVE Shrinks(r)
  BY <1>1
<1>2. ASSUME NEW q \in Queries, NEW v \in Queried, query' = [query EXCEPT ![q] = v],
             query[q].pc # "ask", v.pc # "ask", UNCHANGED open
      PROVE  Shrinks(r)
  BY <1>2, SameOut, StillShrinks
<1>3. ASSUME NEW q \in Queries, Begin(q) \/ AnsweredHere(q) PROVE Shrinks(r)
  <2>1. PICK at \in {"gate", "answered"} : query' = [query EXCEPT ![q] = [Idle EXCEPT !.pc = at]]
    BY <1>3 DEF Begin, AnsweredHere
  <2>2. [Idle EXCEPT !.pc = at] \in Queried /\ [Idle EXCEPT !.pc = at].pc # "ask"
    BY DEF Idle, Queried, Resolvers
  <2>3. query[q].pc # "ask" /\ UNCHANGED open
    BY <1>3 DEF Begin, AnsweredHere
  <2> QED BY <1>2, <2>1, <2>2, <2>3
<1>4. ASSUME NEW q \in Queries, Bypassed(q) PROVE Shrinks(r)
  BY <1>2, <1>4, HandOverFacts DEF Bypassed
<1>5. ASSUME NEW q \in Queries, Udp(q) PROVE Shrinks(r)
  <2>1. PICK at \in {"answered", "servfail"} : query' = [query EXCEPT ![q].pc = at]
    BY <1>5 DEF Udp
  <2> DEFINE v == [query[q] EXCEPT !.pc = at]
  <2>2. query' = [query EXCEPT ![q] = v] /\ query[q].pc # "ask" /\ UNCHANGED open
    BY <1>5, <2>1, BreakerTypes DEF Udp
  <2>3. v \in Queried /\ v.pc # "ask"
    BY BreakerTypes DEF Queried
  <2> HIDE DEF v
  <2> QED BY <1>2, <2>2, <2>3
<1>6. ASSUME NEW q \in Queries, Ask(q) PROVE Shrinks(r)
  <2> DEFINE v == [query[q] EXCEPT !.pc = "ask"]
  <2>1. query' = [query EXCEPT ![q] = v] /\ UNCHANGED open /\ query[q].pc # "ask"
    BY <1>6, BreakerTypes DEF Ask
  <2>2. v \in Queried /\ v.leg = query[q].leg /\ open[query[q].leg] = 0
    BY <1>6, BreakerTypes DEF Ask, Queried
  <2> HIDE DEF v
  <2>3. CASE query[q].leg = r
    BY <2>2, <2>3 DEF Shrinks
  <2>4. CASE query[q].leg # r
    BY <2>1, <2>2, <2>4, SameOut, StillShrinks
  <2> QED BY <2>3, <2>4
<1>7. ASSUME NEW q \in Queries, Answered(q) PROVE Shrinks(r)
  <2> DEFINE v == [query[q] EXCEPT !.pc = "answered"]
  <2>1. query' = [query EXCEPT ![q] = v] /\ open' = [open EXCEPT ![query[q].leg] = 0]
    BY <1>7, BreakerTypes DEF Answered, ReportAnswer
  <2>2. v \in Queried /\ v.pc # "ask"
    BY BreakerTypes DEF Queried
  <2> HIDE DEF v
  <2>3. CASE query[q].leg = r
    BY <2>1, <2>3, BreakerTypes DEF Shrinks
  <2>4. CASE query[q].leg # r
    BY <2>1, <2>2, <2>4, SameOut, StillShrinks, BreakerTypes
  <2> QED BY <2>3, <2>4
<1> QED BY <1>3, <1>4, <1>5, <1>6, <1>7, ReportShrinks DEF ResolveNext, Asks, Step

\* The part of BypassEnds that needs no fairness: a bypassed upstream is asked
\* nothing, so only the failures of the queries that are out already can prolong
\* the bypass, each by one cooldown at most, and every tick of the clock shortens it.
THEOREM BypassRunsDown ==
  ASSUME IsFiniteSet(Queries)
  PROVE  ResolveSpec => [][\A r \in Resolvers : Shrinks(r)]_resolveVars
<1>1. ResolveInv /\ [ResolveNext]_resolveVars => [\A r \in Resolvers : Shrinks(r)]_resolveVars
  BY StepShrinks DEF ResolveInv
<1> QED BY <1>1, ResolveInvariant, PTL DEF ResolveSpec

\* How many steps a query has left at most: two a DoH leg, and the plain UDP one.
LegsLeft(s) ==
  CASE s.pc = "gate" /\ s.leg = "primary" -> 5 [] s.pc = "ask" /\ s.leg = "primary" -> 4
    [] s.pc = "gate" /\ s.leg = "backup" -> 3  [] s.pc = "ask" /\ s.leg = "backup" -> 2
    [] s.pc = "gate" /\ s.leg = "udp" -> 1     [] s.pc \notin {"gate", "ask"} -> 0

LEMMA LegsLeftFacts ==
  ASSUME NEW s \in Queried, s.pc = "ask" => s.leg # "udp"
  PROVE  /\ s.pc = "gate" /\ s.leg = "primary" => LegsLeft(s) = 5
         /\ s.pc = "ask" /\ s.leg = "primary" => LegsLeft(s) = 4
         /\ s.pc = "gate" /\ s.leg = "backup" => LegsLeft(s) = 3
         /\ s.pc = "ask" /\ s.leg = "backup" => LegsLeft(s) = 2
         /\ s.pc = "gate" /\ s.leg = "udp" => LegsLeft(s) = 1
         /\ s.pc \notin {"gate", "ask"} => LegsLeft(s) = 0
         /\ s.leg \in {"primary", "backup", "udp"}
<1>1. s.leg \in {"primary", "backup", "udp"}
  BY DEF Queried, Resolvers
<1> QED BY <1>1 DEF LegsLeft

\* A query that is out of the cache comes nearer to its end by each of its steps, and
\* the others, the breakers and the clock leave it where it is.
Advances(q) ==
  query[q].pc \in {"gate", "ask"} =>
    /\ LegsLeft(query[q]) \in 1..5
    /\ Step(q) => LegsLeft(query'[q]) < LegsLeft(query[q])
    /\ ~Step(q) => query'[q] = query[q]

LEMMA StepAdvances ==
  ASSUME BreakerInv, ResolveNext, NEW q \in Queries PROVE Advances(q)
<1> SUFFICES ASSUME query[q].pc \in {"gate", "ask"}
             PROVE  /\ LegsLeft(query[q]) \in 1..5
                    /\ Step(q) => LegsLeft(query'[q]) < LegsLeft(query[q])
                    /\ ~Step(q) => query'[q] = query[q]
  BY DEF Advances
<1>1. /\ query \in [Queries -> Queried] /\ query[q] \in Queried
      /\ query[q].pc = "ask" => query[q].leg \in Resolvers
  BY BreakerTypes DEF BreakerInv, AskedIsResolver
<1>2. query[q].pc = "ask" => query[q].leg # "udp"
  BY <1>1 DEF Resolvers
<1>3. LegsLeft(query[q]) \in 1..5
  BY <1>1, <1>2, LegsLeftFacts
<1>4. ASSUME NEW v \in Queried, query'[q] = v, v.pc = "ask" => v.leg # "udp",
             \/ v.pc = "gate" /\ v.leg = NextLeg(query[q].leg) /\ query[q].leg # "udp"
             \/ v.pc = "ask" /\ query[q].pc = "gate" /\ v.leg = query[q].leg
             \/ v.pc \in {"answered", "servfail"}
      PROVE  LegsLeft(query'[q]) < LegsLeft(query[q])
  <2>1. CASE v.pc \in {"answered", "servfail"}
    BY <1>3, <1>4, <2>1, LegsLeftFacts
  <2>2. CASE v.pc = "ask" /\ query[q].pc = "gate" /\ v.leg = query[q].leg
    BY <1>1, <1>4, <2>2, LegsLeftFacts
  <2>3. CASE v.pc = "gate" /\ v.leg = NextLeg(query[q].leg) /\ query[q].leg # "udp"
    <3>1. \/ query[q].leg = "primary" /\ v.leg = "backup"
          \/ query[q].leg = "backup" /\ v.leg = "udp"
      BY <1>1, <1>2, <2>3, LegsLeftFacts DEF NextLeg
    <3>2. LegsLeft(v) = IF v.leg = "backup" THEN 3 ELSE 1
      BY <1>4, <2>3, <3>1, LegsLeftFacts
    <3> QED BY <1>1, <1>2, <1>4, <3>1, <3>2, LegsLeftFacts
  <2> QED BY <1>4, <2>1, <2>2, <2>3
<1>5. ASSUME Bypassed(q) \/ Failed(q) PROVE LegsLeft(query'[q]) < LegsLeft(query[q])
  <2>1. query'[q] = HandOver(q) /\ query[q].leg \in Resolvers
    BY <1>1, <1>5 DEF Bypassed, Failed
  <2>2. HandOver(q) \in Queried /\ HandOver(q).pc = "gate" /\ HandOver(q).leg = NextLeg(query[q].leg)
    BY <1>1, HandOverFacts DEF HandOver, Queried
  <2> QED BY <1>4, <2>1, <2>2 DEF Resolvers
<1>6. ASSUME Ask(q) PROVE LegsLeft(query'[q]) < LegsLeft(query[q])
  <2> DEFINE v == [query[q] EXCEPT !.pc = "ask"]
  <2>1. query'[q] = v /\ query[q].pc = "gate" /\ query[q].leg \in Resolvers
    BY <1>1, <1>6 DEF Ask
  <2>2. v \in Queried /\ v.pc = "ask" /\ v.leg = query[q].leg
    BY <1>1 DEF Queried
  <2> HIDE DEF v
  <2> QED BY <1>4, <2>1, <2>2 DEF Resolvers
<1>7. ASSUME Answered(q) \/ Udp(q) PROVE LegsLeft(query'[q]) < LegsLeft(query[q])
  <2>1. PICK at \in {"answered", "servfail"} : query' = [query EXCEPT ![q].pc = at]
    BY <1>7 DEF Answered, Udp
  <2> DEFINE v == [query[q] EXCEPT !.pc = at]
  <2>2. query'[q] = v /\ v \in Queried /\ v.pc = at
    BY <1>1, <2>1 DEF Queried
  <2> HIDE DEF v
  <2> QED BY <1>4, <2>1, <2>2
<1>8. Step(q) => LegsLeft(query'[q]) < LegsLeft(query[q])
  BY <1>5, <1>6, <1>7 DEF Step
<1>9. ASSUME ~Step(q) PROVE query'[q] = query[q]
  <2>1. ASSUME NEW p \in Queries, p # q, Begin(p) \/ AnsweredHere(p) \/ Step(p)
        PROVE  query'[q] = query[q]
    <3>1. \E v : query' = [query EXCEPT ![p] = v]
      BY <1>1, <2>1 DEF Begin, AnsweredHere, Step, Bypassed, Ask, Answered, Failed, Udp
    <3> QED BY <1>1, <2>1, <3>1
  <2>2. ~Begin(q) /\ ~AnsweredHere(q)
    BY DEF Begin, AnsweredHere
  <2>3. Tick => query'[q] = query[q]
    BY DEF Tick
  <2> QED BY <1>9, <2>1, <2>2, <2>3 DEF ResolveNext, Asks
<1> QED BY <1>3, <1>8, <1>9

\* The part of EveryQueryReturns that needs no fairness: at most five steps are left
\* to a query that went past the cache, whatever the others do to the breakers.
THEOREM QueryRunsDown == ResolveSpec => [][\A q \in Queries : Advances(q)]_resolveVars
<1>1. ResolveInv /\ [ResolveNext]_resolveVars => [\A q \in Queries : Advances(q)]_resolveVars
  BY StepAdvances DEF ResolveInv
<1> QED BY <1>1, ResolveInvariant, PTL DEF ResolveSpec

\* Whatever policy is in force, routeFromRules selects the most specific rule
\* that applies, for any lists of rules.
THEOREM SpecificRuleDecides == ResolveSpec => []RuleMostSpecific
<1>1. ASSUME ResolveInv PROVE RuleMostSpecific
  <2>1. policy \in Policies
    BY <1>1 DEF ResolveInv
  <2>2. /\ Len(policy.rules) \in Nat
        /\ \A i \in 1..Len(policy.rules) : Len(policy.rules[i].text) \in Nat
        /\ \A name \in Names : Len(name) \in Nat /\ Len(name) < 10000
    BY <2>1, ResolveAssumption
  <2> DEFINE rules == policy.rules
  <2>3. ASSUME NEW name \in Names, NEW profile \in Profiles
        PROVE  LET i == Selected(rules, name, profile)
               IN IF i = 0 THEN \A j \in 1..Len(rules) : ~Eligible(rules[j], name, profile)
                  ELSE Decides(rules, name, profile, i)
    BY <2>2, MostSpecificRule
  <2> QED BY <2>3 DEF RuleMostSpecific
<1> QED BY <1>1, ResolveInvariant, PTL

-----------------------------------------------------------------------------
(* The bytes of a script.                                                   *)

\* The last of some places.
LEMMA LastPlace ==
  ASSUME NEW n \in Nat, NEW s \in SUBSET (1..n), s # {}
  PROVE  Max(s) \in s /\ \A i \in s : i <= Max(s)
<1> DEFINE D == {n - i : i \in s}
<1>1. D \subseteq Nat /\ D # {}
  <2>1. \A i \in s : n - i \in Nat
    OBVIOUS
  <2> QED BY <2>1
<1>2. PICK d \in D : \A e \in D : d <= e
  BY <1>1, LeastPlace
<1>3. PICK m \in s : d = n - m
  BY <1>2
<1>4. \A i \in s : m >= i
  <2> SUFFICES ASSUME NEW i \in s PROVE m >= i
    OBVIOUS
  <2>1. n - i \in D /\ m \in 1..n /\ i \in 1..n
    OBVIOUS
  <2>2. n - m <= n - i
    BY <1>2, <1>3, <2>1
  <2> QED BY <2>1, <2>2
<1>5. Max(s) \in s /\ \A i \in s : Max(s) >= i
  BY <1>4 DEF Max
<1>6. \A i \in s : i \in Nat
  OBVIOUS
<1> QED BY <1>5, <1>6

\* g folds the sizes of s over the subsets of K, from their last place on.
Folds(g, s, K) ==
  g = [u \in SUBSET K |-> IF u = {} THEN 0 ELSE g[u \ {Max(u)}] + Size(s[Max(u)])]

LEMMA BytesDef ==
  ASSUME NEW s
  PROVE  Bytes(s) = (CHOOSE g : Folds(g, s, DOMAIN s))[DOMAIN s]
BY DEF Bytes, FoldLeft, MapThenFoldSet, Folds

LEMMA FoldsFacts ==
  ASSUME NEW s, NEW n \in Nat, NEW g, Folds(g, s, 1..n)
  PROVE  /\ g[1..0] = 0
         /\ \A k \in 1..n : g[1..k] = g[1..(k - 1)] + Size(s[k])
<1>1. /\ g[{}] = 0
      /\ \A u \in SUBSET (1..n) : u # {} => g[u] = g[u \ {Max(u)}] + Size(s[Max(u)])
  BY DEF Folds
<1>2. ASSUME NEW k \in 1..n PROVE g[1..k] = g[1..(k - 1)] + Size(s[k])
  <2>1. 1..k \in SUBSET (1..n) /\ k \in 1..k
    OBVIOUS
  <2>2. Max(1..k) \in 1..k /\ k <= Max(1..k)
    BY <2>1, LastPlace
  <2>3. Max(1..k) = k
    BY <2>2
  <2>4. (1..k) \ {k} = 1..(k - 1)
    OBVIOUS
  <2> QED BY <1>1, <2>1, <2>3, <2>4
<1>3. 1..0 = {}
  OBVIOUS
<1> QED BY <1>1, <1>2, <1>3

LEMMA FoldsExist ==
  ASSUME NEW s, NEW n \in Nat
  PROVE  \E g : Folds(g, s, 1..n)
<1> DEFINE F == {m \in Nat : ~ \E g : Folds(g, s, 1..m)}
<1>1. SUFFICES ASSUME F # {} PROVE FALSE
  OBVIOUS
<1>2. PICK m \in F : \A k \in F : m <= k
  <2>1. F \subseteq Nat
    OBVIOUS
  <2> HIDE DEF F
  <2> QED BY <1>1, <2>1, LeastPlace
<1>3. m \in Nat /\ ~ \E g : Folds(g, s, 1..m)
  OBVIOUS
<1>4. CASE m = 0
  <2> DEFINE g == [u \in SUBSET (1..m) |-> 0]
  <2>1. \A u \in SUBSET (1..m) : u = {}
    BY <1>4
  <2>2. g = [u \in SUBSET (1..m) |->
               IF u = {} THEN 0 ELSE g[u \ {Max(u)}] + Size(s[Max(u)])]
    BY <2>1
  <2> HIDE DEF g
  <2> QED BY <1>3, <2>2 DEF Folds
<1>5. CASE m # 0
  <2>1. m - 1 \in Nat /\ ~ (m <= m - 1)
    BY <1>3, <1>5
  <2>2. m - 1 \notin F
    BY <1>2, <2>1
  <2>3. PICK f : Folds(f, s, 1..(m - 1))
    BY <2>1, <2>2
  <2> DEFINE Q == 1..m
             P == 1..(m - 1)
             g == [u \in SUBSET Q |-> IF m \in u THEN f[u \ {m}] + Size(s[m]) ELSE f[u]]
  <2>4. P = Q \ {m} /\ m \in Q
    BY <1>3, <1>5
  <2>5. \A u \in SUBSET P :
          f[u] = IF u = {} THEN 0 ELSE f[u \ {Max(u)}] + Size(s[Max(u)])
    BY <2>3 DEF Folds
  <2>6. \A u \in SUBSET Q : u # {} => Max(u) \in u
    BY <1>3, LastPlace
  <2>7. \A u \in SUBSET Q : m \in u => Max(u) = m
    <3> SUFFICES ASSUME NEW u \in SUBSET Q, m \in u PROVE Max(u) = m
      OBVIOUS
    <3>1. Max(u) \in u /\ m <= Max(u)
      BY <1>3, LastPlace
    <3>2. Max(u) \in 1..m
      BY <3>1
    <3> HIDE DEF Q
    <3> QED BY <1>3, <3>1, <3>2
  <2> HIDE DEF P, Q
  <2>8. ASSUME NEW u \in SUBSET Q
        PROVE  g[u] = IF u = {} THEN 0 ELSE g[u \ {Max(u)}] + Size(s[Max(u)])
    <3>1. CASE m \in u
      <4>1. g[u] = f[u \ {m}] + Size(s[m])
        BY <3>1
      <4>2. g[u \ {m}] = f[u \ {m}]
        OBVIOUS
      <4> QED BY <2>7, <3>1, <4>1, <4>2
    <3>2. CASE m \notin u
      <4>1. u \in SUBSET P
        BY <2>4, <3>2
      <4>2. g[u] = f[u] /\ \A v \in SUBSET u : g[v] = f[v]
        BY <3>2
      <4> QED BY <2>5, <4>1, <4>2
    <3> QED BY <3>1, <3>2
  <2>9. g = [u \in SUBSET Q |->
              IF u = {} THEN 0 ELSE g[u \ {Max(u)}] + Size(s[Max(u)])]
    <3>1. g = [u \in SUBSET Q |-> g[u]]
      OBVIOUS
    <3> HIDE DEF g
    <3> QED BY <2>8, <3>1
  <2> HIDE DEF g
  <2>10. Folds(g, s, 1..m)
    BY <2>9 DEF Folds, Q
  <2> QED BY <1>3, <2>10
<1> QED BY <1>4, <1>5

\* The bytes of the first k queries of a script.
Before(s, k) == (CHOOSE g : Folds(g, s, 1..Len(s)))[1..k]

LEMMA BeforeFacts ==
  ASSUME NEW s \in Scripts
  PROVE  /\ s \in Seq(Query) /\ Len(s) \in Nat
         /\ \A k \in 1..Len(s) : Size(s[k]) \in Nat
         /\ Before(s, 0) = 0
         /\ \A k \in 1..Len(s) : Before(s, k) = Before(s, k - 1) + Size(s[k])
         /\ \A k \in 0..Len(s) : Before(s, k) \in Nat
         /\ Bytes(s) = Before(s, Len(s))
<1>1. s \in Seq(Query) /\ Len(s) \in Nat /\ DOMAIN s = 1..Len(s)
  BY DotAssumption
<1>2. ASSUME NEW k \in 1..Len(s) PROVE Size(s[k]) \in Nat
  <2>1. s[k] \in Query
    BY <1>1
  <2> QED BY <2>1 DEF Query, Size
<1> DEFINE n == Len(s)
           G == CHOOSE g : Folds(g, s, 1..n)
<1>3. n \in Nat /\ \A k : Before(s, k) = G[1..k]
  BY <1>1 DEF Before
<1>4. Bytes(s) = G[1..n]
  BY <1>1, BytesDef
<1> HIDE DEF n
<1>5. Folds(G, s, 1..n)
  BY <1>3, FoldsExist
<1> HIDE DEF G
<1>6. G[1..0] = 0 /\ \A k \in 1..n : G[1..k] = G[1..(k - 1)] + Size(s[k])
  BY <1>3, <1>5, FoldsFacts
<1>7. ASSUME NEW k \in 0..n PROVE G[1..k] \in Nat
  <2> DEFINE F == {i \in 0..n : G[1..i] \notin Nat}
  <2>1. SUFFICES ASSUME F # {} PROVE FALSE
    OBVIOUS
  <2>2. PICK i \in F : \A j \in F : i <= j
    <3>1. F \subseteq Nat
      BY <1>3
    <3> HIDE DEF F
    <3> QED BY <2>1, <3>1, LeastPlace
  <2>3. i \in 0..n /\ G[1..i] \notin Nat /\ i # 0
    BY <1>6
  <2>4. i - 1 \in 0..n /\ ~(i <= i - 1) /\ i \in 1..n
    BY <1>3, <2>3
  <2>5. G[1..(i - 1)] \in Nat
    BY <2>2, <2>4
  <2>6. Size(s[i]) \in Nat /\ G[1..i] = G[1..(i - 1)] + Size(s[i])
    BY <1>2, <1>6, <2>4 DEF n
  <2> QED BY <2>3, <2>5, <2>6
<1> QED BY <1>1, <1>2, <1>3, <1>4, <1>6, <1>7 DEF n

-----------------------------------------------------------------------------
(* One connection over TLS or TCP.                                          *)

\* The deadline of a query and the time spent on it are one clock.
OneClock == timer \in 0..ReadTime /\ spent = ReadTime - timer

\* What is buffered and what is still to come is the rest of the script from the
\* query that is next.
RestAhead ==
  kind = "dot" =>
    /\ script \in Scripts /\ buf \in Nat /\ left \in Nat /\ head \in 1..(Len(script) + 1)
    /\ buf + left + Before(script, head - 1) = Before(script, Len(script))
    /\ pc = "frame" => buf > 0

StreamInv == OneClock /\ RestAhead /\ FramedNeverRejected

\* A framed query of a legal length and content is never rejected, whatever is in the
\* buffer.
LEMMA FramedFits ==
  ASSUME NEW q, NEW n \in Nat, n > 0, q.framed, q.len \in Header..MaxFrame, Acceptable(q)
  PROVE  NextFrame(q, n) # "reject"
<1>1. /\ Header \in Nat /\ Header >= 2 /\ MaxFrame \in Nat
  BY DotAssumption
<1>2. Prefix(q) = q.len /\ q.len \in Nat
  BY <1>1 DEF Prefix
<1>3. MessageLen(q, n) = IF n < Header THEN "partial" ELSE "invalid"
  BY DEF MessageLen
<1>4. CASE n >= 2
  BY <1>2, <1>3, <1>4 DEF NextFrame
<1>5. CASE n < 2
  BY <1>1, <1>3, <1>5 DEF NextFrame
<1> QED BY <1>4, <1>5

\* A query that is cut from the buffer was in it whole.
LEMMA CutWhole ==
  ASSUME NEW q \in Query, NEW n \in Nat, NextFrame(q, n) = "query"
  PROVE  n - Size(q) \in Nat /\ Size(q) \in Nat
<1>1. q.len \in Nat /\ q.framed \in BOOLEAN /\ q.id \in Nat
  BY DEF Query
<1>2. CASE MessageLen(q, n) = "complete"
  <2>1. ~q.framed /\ n >= q.len
    BY <1>2 DEF MessageLen
  <2> QED BY <1>1, <2>1 DEF Size
<1>3. CASE MessageLen(q, n) # "complete"
  <2>1. q.framed /\ ~(n < 2 + Prefix(q))
    BY <1>3 DEF NextFrame
  <2> QED BY <1>1, <2>1 DEF Size, Prefix
<1> QED BY <1>2, <1>3

LEMMA FrameOK ==
  ASSUME StreamInv, kind = "dot", kind' = kind, Frame
  PROVE  RestAhead' /\ FramedNeverRejected'
<1>1. /\ script \in Scripts /\ buf \in Nat /\ left \in Nat /\ head \in 1..(Len(script) + 1)
      /\ buf + left + Before(script, head - 1) = Before(script, Len(script))
      /\ pc = "frame" /\ buf > 0 /\ script' = script /\ left' = left
  BY DEF StreamInv, RestAhead, Frame
<1> DEFINE n == Len(script)
<1>2. /\ n \in Nat /\ \A k \in 1..n : script[k] \in Query
      /\ \A k \in 1..n : Size(script[k]) \in Nat
      /\ \A k \in 1..n : Before(script, k) = Before(script, k - 1) + Size(script[k])
      /\ \A k \in 0..n : Before(script, k) \in Nat
  BY <1>1, BeforeFacts
<1> HIDE DEF n
<1>3. head \in 1..n
  <2>1. CASE head = n + 1
    <3>1. Before(script, head - 1) = Before(script, n) /\ Before(script, n) \in Nat
      BY <1>2, <2>1
    <3> DEFINE b == Before(script, n)
    <3>2. buf + left + b = b
      BY <1>1, <3>1 DEF n
    <3>3. b \in Nat /\ buf \in Nat /\ left \in Nat /\ buf > 0
      BY <1>1, <3>1
    <3> HIDE DEF b
    <3> QED BY <3>2, <3>3
  <2>2. n \in Nat /\ head \in 1..(n + 1)
    BY <1>1, <1>2 DEF n
  <2> QED BY <2>1, <2>2
<1> DEFINE q == script[head]
<1>4. q \in Query
  BY <1>2, <1>3
<1>5. CASE NextFrame(q, buf) = "query"
  <2>1. /\ buf' = buf - Size(q) /\ head' = head + 1
        /\ pc' = IF buf' > 0 THEN "frame" ELSE "read"
    BY <1>5 DEF Frame, Rest, AfterQuery
  <2>2. buf' \in Nat /\ Size(q) \in Nat
    BY <1>1, <1>4, <1>5, <2>1, CutWhole
  <2>3. /\ Before(script, head) = Before(script, head - 1) + Size(q)
        /\ Before(script, head - 1) \in Nat /\ head - 1 \in 0..n
    BY <1>2, <1>3
  <2>4. head' - 1 = head /\ head' \in 1..(n + 1)
    BY <1>2, <1>3, <2>1
  <2> HIDE DEF q
  <2>5. buf' + left + Before(script, head) = buf + left + Before(script, head - 1)
    <3> DEFINE a == Before(script, head - 1)
               b == Before(script, head)
               z == Size(q)
    <3>1. a \in Nat /\ z \in Nat /\ b = a + z /\ buf' = buf - z /\ buf \in Nat /\ left \in Nat
      BY <1>1, <2>1, <2>2, <2>3
    <3> HIDE DEF a, b, z
    <3>2. buf' + left + b = buf + left + a
      BY <3>1
    <3> QED BY <3>2 DEF a, b
  <2>6. RestAhead'
    BY <1>1, <2>1, <2>2, <2>4, <2>5 DEF RestAhead, n
  <2> QED BY <2>1, <2>6 DEF FramedNeverRejected
<1>6. CASE NextFrame(q, buf) = "more"
  <2>1. pc' = "read" /\ UNCHANGED <<buf, head>>
    BY <1>6 DEF Frame
  <2> QED BY <1>1, <2>1 DEF RestAhead, FramedNeverRejected
<1>7. CASE NextFrame(q, buf) = "reject"
  <2>1. pc' = "rejected" /\ UNCHANGED <<buf, head>>
    BY <1>7 DEF Frame
  <2>2. ~(q.framed /\ q.len \in Header..MaxFrame /\ Acceptable(q))
    BY <1>1, <1>7, FramedFits
  <2> QED BY <1>1, <2>1, <2>2 DEF RestAhead, FramedNeverRejected
<1> QED BY <1>5, <1>6, <1>7 DEF Frame

LEMMA DotOK ==
  ASSUME StreamInv, kind = "dot", DotNext, UNCHANGED <<timer, spent, kind>>
  PROVE  StreamInv'
<1>1. OneClock'
  BY DEF StreamInv, OneClock
<1>2. CASE Frame
  BY <1>1, <1>2, FrameOK DEF StreamInv
<1>3. CASE Read
  <2>1. PICK n \in 1..left : buf' = buf + n /\ left' = left - n
    BY <1>3 DEF Read
  <2>2. pc' = "frame" /\ UNCHANGED <<script, head>>
    BY <1>3 DEF Read
  <2>3. buf \in Nat /\ left \in Nat
    BY DEF StreamInv, RestAhead
  <2>4. buf' \in Nat /\ left' \in Nat /\ buf' > 0 /\ buf' + left' = buf + left
    BY <2>1, <2>3
  <2> QED BY <1>1, <2>2, <2>4 DEF StreamInv, RestAhead, FramedNeverRejected
<1>4. CASE Handshake \/ ReadEnds \/ \E i \in Places : WriteAnswer(i)
  <2>1. UNCHANGED <<script, left, buf, head>> /\ (pc' = pc \/ pc' \in {"read", "gone"})
    BY <1>4 DEF Handshake, ReadEnds, WriteAnswer
  <2> QED BY <1>1, <2>1 DEF StreamInv, RestAhead, FramedNeverRejected
<1> QED BY <1>2, <1>3, <1>4 DEF DotNext

LEMMA TcpOK ==
  ASSUME StreamInv, kind = "tcp", kind' = kind, TcpTurn \/ ReadFails
  PROVE  StreamInv'
<1>1. ReadTime \in Nat /\ 0 \in 0..ReadTime /\ ReadTime \in 0..ReadTime
  BY PlainTcpAssumption
<1>2. RestAhead'
  BY DEF RestAhead
<1>3. OneClock'
  <2>1. timer \in 0..ReadTime /\ spent = ReadTime - timer
    BY DEF StreamInv, OneClock
  <2>2. CASE ReadPart \/ ReadFails
    BY <2>1, <2>2 DEF OneClock, ReadPart, TimerAfterRead, ReadFails
  <2>3. CASE Reply
    BY <1>1, <2>3 DEF OneClock, Reply
  <2>4. CASE TcpTick
    BY <1>1, <2>1, <2>4 DEF OneClock, TcpTick
  <2> QED BY <2>2, <2>3, <2>4 DEF TcpTurn
<1>4. FramedNeverRejected'
  <2>1. CASE ReadPart
    <3>1. /\ UNCHANGED <<script, head>>
          /\ (pc' = "rejected" => script[head].len \notin Header..MaxFrame)
      BY <2>1 DEF ReadPart
    <3> QED BY <3>1 DEF FramedNeverRejected
  <2>2. CASE ReadFails \/ Reply
    BY <2>2 DEF ReadFails, Reply, FramedNeverRejected
  <2>3. CASE TcpTick
    BY <2>3 DEF TcpTick, dotVars, StreamInv, FramedNeverRejected
  <2> QED BY <2>1, <2>2, <2>3 DEF TcpTurn
<1> QED BY <1>2, <1>3, <1>4 DEF StreamInv

\* The inductive invariant of a connection of the DNS listeners: what is left of
\* its script, and the one deadline of the query it reads.
THEOREM StreamInvariant == StreamSpec => []StreamInv
<1>1. StreamInit => StreamInv
  <2> SUFFICES ASSUME StreamInit PROVE StreamInv
    OBVIOUS
  <2>1. OneClock
    BY PlainTcpAssumption DEF StreamInit, OneClock
  <2>2. RestAhead
    <3> SUFFICES ASSUME kind = "dot" PROVE RestAhead
      BY DEF RestAhead
    <3>1. script \in Scripts /\ left = Bytes(script) /\ buf = 0 /\ head = 1 /\ pc = "handshake"
      BY DEF StreamInit, DotInit
    <3>2. /\ Len(script) \in Nat /\ left \in Nat
          /\ Before(script, 0) = 0 /\ left = Before(script, Len(script))
      BY <3>1, BeforeFacts
    <3>3. head - 1 = 0
      BY <3>1
    <3> QED BY <3>1, <3>2, <3>3 DEF RestAhead
  <2>3. FramedNeverRejected
    BY DEF StreamInit, DotInit, TcpInit, FramedNeverRejected
  <2> QED BY <2>1, <2>2, <2>3 DEF StreamInv
<1>2. StreamInv /\ [StreamNext]_streamVars => StreamInv'
  <2>1. StreamInv /\ StreamNext => StreamInv'
    BY DotOK, TcpOK DEF StreamNext
  <2>2. StreamInv /\ UNCHANGED streamVars => StreamInv'
    BY DEF streamVars, dotVars, StreamInv, OneClock, RestAhead, FramedNeverRejected
  <2> QED BY <2>1, <2>2
<1> QED BY <1>1, <1>2, PTL DEF StreamSpec

\* A length-prefixed query of a legal length, whose content dnsMessageLen does not
\* refuse, is never what a connection is closed for, however its bytes and its
\* neighbours' are split (nextDoTFrame).
THEOREM LegalNeverRejected == StreamSpec => []FramedNeverRejected
<1>1. StreamInv => FramedNeverRejected
  BY DEF StreamInv
<1> QED BY <1>1, StreamInvariant, PTL

\* A client of the TCP listener holds its handler for one read deadline a query,
\* however it trickles its bytes (handlePlainDNSConn).
THEOREM DeadlinePerQuery == StreamSpec => []OneDeadlinePerQuery
<1>1. StreamInv => OneDeadlinePerQuery
  BY PlainTcpAssumption DEF StreamInv, OneClock, OneDeadlinePerQuery
<1> QED BY <1>1, StreamInvariant, PTL
=============================================================================
