---------------------------- MODULE RouteHealth ----------------------------
(***************************************************************************)
(* The controller loop of route-health.sh for one selector of sing-box:    *)
(* probe every lane, score the lanes, decide, steer the selector through   *)
(* the local API, and write the state file a restart reads.                *)
(*                                                                         *)
(* The controller, sing-box and whoever else steers the selector are       *)
(* separate: the selection may change between any two steps, a call of the *)
(* API may fail with or without effect, and the controller may die between *)
(* any two steps.  all_fail_rounds only reaches the log and is left out;   *)
(* so are error streaks, which are above zero exactly when the streak of   *)
(* good probes is zero, where the lane is left without looking at a score. *)
(***************************************************************************)
EXTENDS Integers, Sequences, FiniteSets

CONSTANTS
  LaneOrder,     \* LANES
  Elsewhere,     \* what the selector may show that is none of the lanes
  Speeds,        \* latencies a good probe may measure
  FirstError,    \* the average a lane that never answered gets (10000 ms)
  ErrorCap,      \* 30000 ms
  ProvenRounds,  \* good rounds a faster lane needs (2 in the source)
  RatioNum, RatioDen  \* SWITCH_RATIO_NUM and SWITCH_RATIO_DEN

Lanes == {LaneOrder[i] : i \in 1..Len(LaneOrder)}

ASSUME RouteAssumption ==
  /\ LaneOrder \in Seq(Lanes) /\ LaneOrder # <<>> /\ Elsewhere \notin Lanes
  /\ Speeds \subseteq 1..ErrorCap /\ FirstError \in 1..ErrorCap
  /\ ErrorCap \in Nat /\ ProvenRounds \in Nat \ {0} /\ RatioNum \in Nat /\ RatioDen \in Nat

VARIABLES
  sticky,    \* STICKY: telegram_round sets it, for the selector of Telegram
  selected,  \* what the selector of sing-box shows
  disk,      \* the state file: an average and a streak per lane, and chosen
  work,      \* the same while a round is running
  round,     \* where the controller stands
  seen,      \* what it takes for the current selection
  answered   \* the lanes that answered in the latest round

healthVars == <<sticky, selected, disk, work, round, seen, answered>>

AtMost(n, cap) == IF n < cap THEN n ELSE cap

Tags == Lanes \cup {Elsewhere}

Lane == [ewma : 0..ErrorCap, oks : 0..ProvenRounds]

State == [lanes : [Lanes -> Lane], chosen : Tags]

-----------------------------------------------------------------------------
(* One round.                                                               *)

AfterError(l) ==
  [ewma |-> IF l.ewma > 0 THEN AtMost(3 * l.ewma, ErrorCap) ELSE FirstError, oks |-> 0]

AfterAnswer(l, ms) ==
  [ewma |-> IF l.ewma = 0 THEN ms ELSE (7 * l.ewma + 3 * ms) \div 10,
   oks |-> AtMost(l.oks + 1, ProvenRounds)]

Score(st, t) == IF t \in Lanes THEN st.lanes[t].ewma ELSE 0

Proven(st, t) == IF t \in Lanes THEN st.lanes[t].oks ELSE 0

\* The lane of least score, whether it answered or not.
BestOfAll(st, ok) ==
  CHOOSE t \in Lanes : \A u \in Lanes : Score(st, t) <= Score(st, u)

\* Of the lanes that answered the first one of least score.
Best(st, ok) ==
  LET better(i, j) == Score(st, LaneOrder[i]) < Score(st, LaneOrder[j])
      best == CHOOSE i \in 1..Len(LaneOrder) :
                /\ LaneOrder[i] \in ok
                /\ \A j \in 1..Len(LaneOrder) : LaneOrder[j] \in ok /\ j # i =>
                     ~better(j, i) /\ (j < i => better(i, j))
  IN LaneOrder[best]

\* The probes of a round.  With no lane answering the state is written at once
\* and the selection left alone.
ProbeLanes ==
  /\ round = "sleep"
  /\ \E ok \in SUBSET Lanes, ms \in [Lanes -> Speeds] :
       LET after == [disk EXCEPT !.lanes = [t \in Lanes |->
                       IF t \in ok THEN AfterAnswer(disk.lanes[t], ms[t])
                                   ELSE AfterError(disk.lanes[t])]]
       IN /\ answered' = ok
          /\ work' = after
          /\ IF ok = {} THEN round' = "sleep" /\ disk' = after
                        ELSE round' = "probed" /\ disk' = disk
  /\ UNCHANGED <<sticky, selected, seen>>

\* The decision without the requirement that the faster lane is proven.
ShouldSwitchUnproven(st, cur, best) ==
  \/ Proven(st, cur) = 0
  \/ ~sticky /\ best # cur /\ RatioNum * Score(st, best) <= RatioDen * Score(st, cur)

\* A lane in use that failed is left only for a proven one.
ShouldSwitchProvenOnly(st, cur, best) ==
  /\ best # cur /\ Proven(st, best) >= ProvenRounds /\ ~sticky
  /\ RatioNum * Score(st, best) <= RatioDen * Score(st, cur)

ShouldSwitch(st, cur, best) ==
  \/ Proven(st, cur) = 0
  \/ /\ ~sticky /\ best # cur /\ Proven(st, best) >= ProvenRounds
     /\ \/ Score(st, cur) = 0
        \/ RatioNum * Score(st, best) <= RatioDen * Score(st, cur)

\* clash_get_now, and the saved choice when the API does not answer.
Decide ==
  /\ round = "probed"
  /\ seen' \in {selected, disk.chosen}
  /\ LET best == Best(work, answered)
     IN round' = IF ShouldSwitch(work, seen', best) /\ best # seen' THEN "put" ELSE "write"
  /\ UNCHANGED <<sticky, selected, disk, work, answered>>

Target == Best(work, answered)

\* clash_select: curl succeeds.  An HTTP error is a success of curl too, so the
\* selection may be unchanged.
PutAccepted ==
  /\ round = "put"
  /\ selected' \in {selected, Target}
  /\ work' = [work EXCEPT !.chosen = Target]
  /\ round' = "write"
  /\ UNCHANGED <<sticky, disk, seen, answered>>

\* curl fails: the call was lost, or its answer was.
PutFailed ==
  /\ round = "put"
  /\ selected' \in {selected, Target}
  /\ round' = "write"
  /\ UNCHANGED <<sticky, disk, work, seen, answered>>

\* state_write, by rename, and the pause.
Write ==
  /\ round = "write"
  /\ disk' = work
  /\ round' = "sleep"
  /\ UNCHANGED <<sticky, selected, work, seen, answered>>

-----------------------------------------------------------------------------
(* Restart and the world outside.                                           *)

\* main: the saved choice is restored.  Only the selector of the AI lanes is:
\* main never calls telegram_round before the loop.
Restore ==
  /\ round = "boot"
  /\ selected' \in IF disk.chosen = Elsewhere \/ sticky THEN {selected}
                   ELSE {selected, disk.chosen}
  /\ round' = "sleep"
  /\ UNCHANGED <<sticky, disk, work, seen, answered>>

Crash ==
  /\ round # "boot"
  /\ round' = "boot" /\ work' = disk /\ answered' = {}
  /\ UNCHANGED <<sticky, selected, disk, seen>>

\* Another client of the API, or sing-box starting anew.
Reselected ==
  /\ \E t \in Tags \ {selected} : selected' = t
  /\ UNCHANGED <<sticky, disk, work, round, seen, answered>>

HealthInit ==
  /\ sticky \in BOOLEAN
  /\ selected \in Tags
  /\ disk = [lanes |-> [t \in Lanes |-> [ewma |-> 0, oks |-> 0]], chosen |-> Elsewhere]
  /\ work = disk
  /\ round = "boot" /\ seen = Elsewhere /\ answered = {}

Round == ProbeLanes \/ Decide \/ PutAccepted \/ PutFailed \/ Write

HealthNext == Restore \/ Round \/ Crash \/ Reselected

HealthSpec == HealthInit /\ [][HealthNext]_healthVars

\* A call of the API that takes effect and a look at the selection that is
\* answered.
PutTakes == PutAccepted /\ selected' = Target
DecideSeeing == Decide /\ seen' = selected

\* The loop runs on, and the API is not broken for good: it answers and obeys
\* again and again.
FairHealth ==
  /\ HealthSpec
  /\ WF_healthVars(Restore) /\ WF_healthVars(ProbeLanes) /\ WF_healthVars(Decide)
  /\ WF_healthVars(PutAccepted \/ PutFailed) /\ WF_healthVars(Write)
  /\ SF_healthVars(DecideSeeing) /\ SF_healthVars(PutTakes)

-----------------------------------------------------------------------------
(* Properties.                                                              *)

HealthTypes ==
  /\ sticky \in BOOLEAN
  /\ selected \in Tags /\ seen \in Tags /\ answered \subseteq Lanes
  /\ disk \in State /\ work \in State
  /\ round \in {"boot", "sleep", "probed", "put", "write"}

\* The controller steers only to a lane that carried a real request in this
\* very round, however the scores, the saved choice and the selection stand.
SteersToAnswering == round = "put" => Target \in answered /\ Target # seen

\* A lane the controller sees in use and that answered is left only for one
\* that answered ProvenRounds rounds in a row and is no slower; by the sticky
\* controller of Telegram never (CHANGELOG: keep native Telegram on its healthy
\* route until a real probe fails).
LeavesWorkingOnlyForProven ==
  round = "put" /\ seen \in answered =>
    ~sticky /\ Proven(work, Target) >= ProvenRounds /\ Score(work, Target) <= Score(work, seen)

\* When from some time on one lane is the only one that answers, and nobody else
\* steers the selector, the selection settles on it.
SoleLaneSelected ==
  \A g \in Lanes :
    <>[](round # "boot" /\ answered = {g}) /\ <>[][~Reselected]_healthVars => <>[](selected = g)

\* The header of route-health.sh: another lane is selected over a working one
\* when it is ">=30% faster".
SwitchOnlyIfMuchFaster ==
  round = "put" /\ seen \in answered =>
    10 * Score(work, Target) <= 7 * Score(work, seen)
=============================================================================
