----------------------------- MODULE AddOnProofs -----------------------------
(***************************************************************************)
(* The supervisor and the TPROXY policy, for any number of health checks,  *)
(* removals and failing commands; and the controller of the routes, which  *)
(* run.sh starts as well, for any lanes, speeds and switch ratio.          *)
(*                                                                         *)
(* The steps of the add-on are those of the supervisor or leave its state  *)
(* alone, so that an invariant of Supervisor is one of the add-on.  That a *)
(* marking table never stands without its route rests on the order of the  *)
(* commands: while one of them runs, the table is away.  What the          *)
(* controller may steer to is decided by the scores of one round, which    *)
(* nothing but the controller itself changes before the call.              *)
(***************************************************************************)
EXTENDS AddOn, RouteHealth, Sequences, WellFoundedInduction, TLAPS

-----------------------------------------------------------------------------
(* The supervisor.                                                          *)

\* Whatever run.sh started has its pid in a variable, the controller through the
\* loop it runs in, and nothing is started before the options are checked.
StartedAreKnown ==
  /\ \A c \in Children : proc[c] # "none" => c \in known
  /\ proc["controller"] # "none" => "loop" \in known
  /\ pc = "prepare" => known = {}

\* Until run.sh gives up it has a health check left.
ChecksLeft == pc \notin {"wait", "exit", "ended", "killed"} => tries < MaxTries

SupervisorInv == TypeOK /\ StartedAreKnown /\ ChecksLeft /\ NoChildLeft

LEMMA TriesFacts == MaxTries \in Nat \ {0} /\ 0 \in 0..MaxTries
BY SupervisorAssumption

\* A start of children keeps them known.
LEMMA StartOK ==
  ASSUME SupervisorInv, NEW P \in SUBSET Processes, Start(P),
         P \cap Children \subseteq known', known \subseteq known',
         "controller" \in P => "loop" \in known'
  PROVE  /\ proc' \in [Processes -> {"none", "up", "dead"}]
         /\ \A c \in Children : proc'[c] # "none" => c \in known'
         /\ proc'["controller"] # "none" => "loop" \in known'
<1>1. /\ proc \in [Processes -> {"none", "up", "dead"}]
      /\ \A c \in Children : proc[c] # "none" => c \in known
      /\ proc["controller"] # "none" => "loop" \in known
  BY DEF SupervisorInv, TypeOK, StartedAreKnown
<1> QED BY <1>1 DEF Start, Processes

\* cleanup reaps every child that is up.
LEMMA CleanupOK ==
  ASSUME SupervisorInv, Cleanup
  PROVE  /\ proc' \in [Processes -> {"none", "up", "dead"}]
         /\ \A c \in Children : proc'[c] # "none" => c \in known
         /\ proc'["controller"] # "none" => "loop" \in known
         /\ \A c \in Children : proc'[c] # "up"
<1>1. /\ proc \in [Processes -> {"none", "up", "dead"}]
      /\ \A c \in Children : proc[c] # "none" => c \in known
      /\ proc["controller"] # "none" => "loop" \in known
  BY DEF SupervisorInv, TypeOK, StartedAreKnown
<1> QED BY <1>1 DEF Cleanup, Killed, Up, Processes

LEMMA ScriptOK ==
  ASSUME SupervisorInv, Script
  PROVE  SupervisorInv'
<1> USE DEF SupervisorInv
<1>1. /\ opts \in Options /\ proc \in [Processes -> {"none", "up", "dead"}]
      /\ known \subseteq Children /\ tries \in 0..MaxTries /\ signalled \in BOOLEAN
  BY DEF TypeOK
<1>2. CASE Prepare
  BY <1>2 DEF Prepare, TypeOK, StartedAreKnown, ChecksLeft, NoChildLeft, Up
<1>3. CASE Spawn
  <2>1. PICK c \in Listeners \ known :
          /\ Start({c}) /\ known' = known \cup {c} /\ pc' \in {"trap", "spawn"}
    BY <1>3 DEF Spawn
  <2>2. c \in Children /\ {c} \in SUBSET Processes /\ "controller" \notin {c}
    BY <2>1 DEF Listeners, Children, Processes
  <2>3. /\ proc' \in [Processes -> {"none", "up", "dead"}]
        /\ \A d \in Children : proc'[d] # "none" => d \in known'
        /\ proc'["controller"] # "none" => "loop" \in known'
    BY <2>1, <2>2, StartOK
  <2>4. UNCHANGED <<opts, tries, signalled>> /\ pc = "spawn"
    BY <1>3 DEF Spawn
  <2> QED BY <1>1, <2>1, <2>2, <2>3, <2>4 DEF TypeOK, StartedAreKnown, ChecksLeft, NoChildLeft
<1>4. CASE SetTrap \/ SetWatchdogPid
  BY <1>4 DEF SetTrap, SetWatchdogPid, TypeOK, StartedAreKnown, ChecksLeft, NoChildLeft
<1>5. CASE RouteHealth
  <2>1. UNCHANGED <<opts, tries, signalled>> /\ pc = "health" /\ pc' = "probe"
    BY <1>5 DEF RouteHealth
  <2>2. CASE UNCHANGED <<proc, known>>
    BY <1>1, <2>1, <2>2 DEF TypeOK, StartedAreKnown, ChecksLeft, NoChildLeft
  <2>3. CASE Start({"loop", "controller"}) /\ known' = known \cup {"loop"}
    <3>1. {"loop", "controller"} \in SUBSET Processes /\ "loop" \in Children
      BY DEF Processes, Children
    <3>2. {"loop", "controller"} \cap Children \subseteq known' /\ known \subseteq known'
      BY <2>3 DEF Children
    <3>3. /\ proc' \in [Processes -> {"none", "up", "dead"}]
          /\ \A d \in Children : proc'[d] # "none" => d \in known'
          /\ proc'["controller"] # "none" => "loop" \in known'
      BY <2>3, <3>1, <3>2, StartOK
    <3> QED BY <1>1, <2>1, <2>3, <3>1, <3>3 DEF TypeOK, StartedAreKnown, ChecksLeft, NoChildLeft
  <2> QED BY <1>5, <2>2, <2>3 DEF RouteHealth
<1>6. CASE Probe
  <2>1. /\ UNCHANGED <<opts, proc, known, signalled>>
        /\ pc' \in {"exit", "wait", "probe"}
        /\ tries' = tries \/ tries' = tries + 1
    BY <1>6 DEF Probe, Exit
  <2>2. tries' \in 0..MaxTries /\ (pc' = "probe" => tries' < MaxTries)
    <3>1. tries < MaxTries /\ tries \in 0..MaxTries
      BY <1>1, <1>6 DEF Probe, ChecksLeft
    <3>2. pc' = "probe" => tries' # MaxTries
      BY <1>6 DEF Probe, Exit, GaveUp
    <3> QED BY <2>1, <3>1, <3>2, TriesFacts
  <2> QED BY <1>1, <2>1, <2>2 DEF TypeOK, StartedAreKnown, ChecksLeft, NoChildLeft
<1>7. CASE WaitReturns
  BY <1>7 DEF WaitReturns, Exit, TypeOK, StartedAreKnown, ChecksLeft, NoChildLeft
<1>8. CASE ExitTrap
  <2>1. /\ proc' \in [Processes -> {"none", "up", "dead"}]
        /\ \A c \in Children : proc'[c] # "none" => c \in known
        /\ proc'["controller"] # "none" => "loop" \in known
        /\ \A c \in Children : proc'[c] # "up"
    BY <1>8, CleanupOK DEF ExitTrap
  <2> QED BY <1>1, <1>8, <2>1 DEF ExitTrap, TypeOK, StartedAreKnown, ChecksLeft, NoChildLeft, Up
<1> QED BY <1>2, <1>3, <1>4, <1>5, <1>6, <1>7, <1>8 DEF Script

LEMMA TproxyOK ==
  ASSUME SupervisorInv, TproxyOff \/ TproxyFailed \/ TproxyApplied
  PROVE  SupervisorInv'
<1> USE DEF SupervisorInv
<1>1. CASE TproxyOff \/ TproxyFailed
  BY <1>1 DEF TproxyOff, TproxyFailed, Exit, TypeOK, StartedAreKnown, ChecksLeft, NoChildLeft
<1>2. CASE TproxyApplied
  <2>1. /\ Start({"watchdog"}) /\ known' = known \cup {"watchdog"} /\ pc' = "health"
        /\ UNCHANGED <<opts, tries, signalled>> /\ pc = "tproxy"
    BY <1>2 DEF TproxyApplied
  <2>2. {"watchdog"} \in SUBSET Processes /\ "watchdog" \in Children
    BY DEF Processes, Children
  <2>3. /\ proc' \in [Processes -> {"none", "up", "dead"}]
        /\ \A d \in Children : proc'[d] # "none" => d \in known'
        /\ proc'["controller"] # "none" => "loop" \in known'
    BY <2>1, <2>2, StartOK
  <2> QED BY <2>1, <2>2, <2>3 DEF TypeOK, StartedAreKnown, ChecksLeft, NoChildLeft
<1> QED BY <1>1, <1>2

LEMMA SignalOK ==
  ASSUME SupervisorInv, Signal
  PROVE  SupervisorInv'
<1> USE DEF SupervisorInv
<1>1. UNCHANGED <<opts, known, tries>> /\ signalled' = TRUE
  BY DEF Signal
<1>2. CASE pc \in {"prepare", "spawn", "trap", "unset"}
  <2>1. pc' = "killed" /\ proc' = proc
    BY <1>2 DEF Signal
  <2> QED BY <1>1, <2>1 DEF TypeOK, StartedAreKnown, ChecksLeft, NoChildLeft
<1>3. CASE pc \in {"tproxy", "health", "probe", "wait", "exit"}
  <2>1. Cleanup /\ pc' = IF pc = "wait" THEN "exit" ELSE pc
    BY <1>3 DEF Signal
  <2>2. /\ proc' \in [Processes -> {"none", "up", "dead"}]
        /\ \A c \in Children : proc'[c] # "none" => c \in known
        /\ proc'["controller"] # "none" => "loop" \in known
    BY <2>1, CleanupOK
  <2>3. /\ pc' \in {"tproxy", "health", "probe", "exit"}
        /\ pc' # "exit" => pc \notin {"wait", "exit", "ended", "killed"}
    BY <1>3, <2>1
  <2> QED BY <1>1, <2>2, <2>3 DEF TypeOK, StartedAreKnown, ChecksLeft, NoChildLeft
<1> QED BY <1>2, <1>3 DEF Signal, TypeOK

LEMMA DeathOK ==
  ASSUME SupervisorInv, ControllerDies \/ \E p \in Processes : Dies(p)
  PROVE  SupervisorInv'
<1> USE DEF SupervisorInv
<1>1. UNCHANGED <<opts, pc, known, tries, signalled>>
  BY DEF ControllerDies, Dies
<1>2. /\ proc \in [Processes -> {"none", "up", "dead"}]
      /\ \A c \in Children : proc[c] # "none" => c \in known
      /\ proc["controller"] # "none" => "loop" \in known
  BY DEF TypeOK, StartedAreKnown
<1>3. CASE \E p \in Processes : Dies(p)
  <2>1. PICK p \in Processes : proc[p] = "up" /\ proc' = [proc EXCEPT ![p] = "dead"]
    BY <1>3 DEF Dies, Up
  <2>2. /\ proc' \in [Processes -> {"none", "up", "dead"}]
        /\ \A c \in Processes : proc'[c] = proc[c] \/ (proc[c] = "up" /\ proc'[c] = "dead")
    BY <1>2, <2>1
  <2>3. Children \subseteq Processes /\ "controller" \in Processes
    BY DEF Processes
  <2> QED BY <1>1, <1>2, <2>2, <2>3 DEF TypeOK, StartedAreKnown, ChecksLeft, NoChildLeft, Up
<1>4. CASE ControllerDies
  <2>1. /\ "controller" \in Processes /\ "loop" \in Processes /\ "loop" \in Children
        /\ "controller" \notin Children /\ Children \subseteq Processes
    BY DEF Processes, Children
  <2>2. proc' = [proc EXCEPT !["controller"] = "dead", !["loop"] = "dead"]
    BY <1>4 DEF ControllerDies
  <2>3. /\ proc' \in [Processes -> {"none", "up", "dead"}] /\ proc'["loop"] = "dead"
        /\ \A c \in Children : c # "loop" => proc'[c] = proc[c]
        /\ proc["controller"] = "up"
    BY <1>2, <1>4, <2>1, <2>2 DEF ControllerDies, Up
  <2> QED BY <1>1, <1>2, <2>1, <2>3 DEF TypeOK, StartedAreKnown, ChecksLeft, NoChildLeft, Up
<1> QED BY <1>3, <1>4

\* The inductive invariant of run.sh's supervision: who was started is known to it,
\* and until it gives up it has a health check left.
THEOREM SupervisorInvariant == Spec => []SupervisorInv
<1>1. Init => SupervisorInv
  <2> SUFFICES ASSUME Init PROVE SupervisorInv
    OBVIOUS
  <2>1. Children \subseteq Processes /\ "controller" \in Processes
    BY DEF Processes
  <2>2. TypeOK /\ ChecksLeft /\ NoChildLeft
    <3>1. tries \in 0..MaxTries /\ tries < MaxTries
      BY TriesFacts DEF Init
    <3>2. proc \in [Processes -> {"none", "up", "dead"}]
      BY DEF Init
    <3> QED BY <3>1, <3>2 DEF Init, TypeOK, ChecksLeft, NoChildLeft
  <2>3. StartedAreKnown
    BY <2>1 DEF Init, StartedAreKnown
  <2> QED BY <2>2, <2>3 DEF SupervisorInv
<1>2. SupervisorInv /\ [Next]_vars => SupervisorInv'
  <2>1. SupervisorInv /\ UNCHANGED vars => SupervisorInv'
    BY DEF vars, SupervisorInv, TypeOK, StartedAreKnown, ChecksLeft, NoChildLeft, Up
  <2> QED BY <2>1, ScriptOK, TproxyOK, SignalOK, DeathOK DEF Next
<1> QED BY <1>1, <1>2, PTL DEF Spec

-----------------------------------------------------------------------------
(* The add-on: a step of its parts is a step of the supervisor.             *)

\* By the shape of AddOnNext alone: what is invariant under Spec is so here.
LEMMA StepsAreSupervisor == AddOnSpec => Spec
<1>1. AddOnInit => Init
  BY DEF AddOnInit
<1>2. [AddOnNext]_addonVars => [Next]_vars
  <2>1. ScriptStep => Next
    BY DEF ScriptStep, Next
  <2>2. Boot => Next \/ UNCHANGED vars
    BY DEF Boot, BootBegins, BootRuns, BootFails, Next
  <2>3. WatchdogStep \/ OthersFlush => UNCHANGED vars
    BY DEF WatchdogStep, OthersFlush
  <2>4. Signalled \/ ChildEnds => Next
    BY DEF Signalled, ChildEnds, Next
  <2>5. UNCHANGED addonVars => UNCHANGED vars
    BY DEF addonVars
  <2> QED BY <2>1, <2>2, <2>3, <2>4, <2>5 DEF AddOnNext
<1> QED BY <1>1, <1>2, PTL DEF AddOnSpec, Spec

\* Once cleanup can run, run.sh leaves none of its children behind, whatever ends
\* it and wherever a signal caught it, the policy's commands and its watchdog
\* included (cleanup and the EXIT trap of run.sh).
THEOREM NobodyLeftBehind == AddOnSpec => []NoChildLeft
<1>1. SupervisorInv => NoChildLeft
  BY DEF SupervisorInv
<1>2. Spec => []NoChildLeft
  BY <1>1, SupervisorInvariant, PTL
<1> QED BY <1>2, StepsAreSupervisor

-----------------------------------------------------------------------------
(* The policy.                                                              *)

\* What a half-done run of the policy has left in the kernel: the marking table
\* is away, and a part that was added is there unless somebody else took it.
HalfDone ==
  /\ at # "apply" => step = 1
  /\ step > 1 => "table" \notin present
  /\ step > 3 => "rule" \in present \cup taken
  /\ step > 4 => "route" \in present \cup taken

PolicyInv ==
  /\ present \subseteq W!Parts /\ taken \subseteq W!Parts \ present
  /\ at \in {"off", "check", "apply", "sleep"} /\ step \in 1..5
  /\ HalfDone /\ MarkedHaveARoute

LEMMA PartsFacts == W!Parts = {"table", "rule", "route"} /\ Len(W!Commands) = 5
BY DEF W!Parts, W!Commands

\* The effect of the command that is next.
LEMMA CommandFacts ==
  /\ step = 1 => W!Deletes(W!Command) /\ W!Part(W!Command) = "table"
  /\ step = 2 => W!Deletes(W!Command) /\ W!Part(W!Command) = "rule"
  /\ step = 3 => ~W!Deletes(W!Command) /\ W!Part(W!Command) = "rule"
  /\ step = 4 => ~W!Deletes(W!Command) /\ W!Part(W!Command) = "route"
  /\ step = 5 => ~W!Deletes(W!Command) /\ W!Part(W!Command) = "table"
<1>1. /\ W!Commands[1] = "delete table" /\ W!Commands[2] = "delete rule"
      /\ W!Commands[3] = "add rule" /\ W!Commands[4] = "add route"
      /\ W!Commands[5] = "add table"
  BY DEF W!Commands
<1>2. step = 1 => W!Deletes(W!Command) /\ W!Part(W!Command) = "table"
  BY <1>1 DEF W!Deletes, W!Part, W!Command
<1>3. step = 2 => W!Deletes(W!Command) /\ W!Part(W!Command) = "rule"
  BY <1>1 DEF W!Deletes, W!Part, W!Command
<1>4. step = 3 => ~W!Deletes(W!Command) /\ W!Part(W!Command) = "rule"
  BY <1>1 DEF W!Deletes, W!Part, W!Command
<1>5. step = 4 => ~W!Deletes(W!Command) /\ W!Part(W!Command) = "route"
  BY <1>1 DEF W!Deletes, W!Part, W!Command
<1>6. step = 5 => ~W!Deletes(W!Command) /\ W!Part(W!Command) = "table"
  BY <1>1 DEF W!Deletes, W!Part, W!Command
<1> QED BY <1>2, <1>3, <1>4, <1>5, <1>6

LEMMA RunOK ==
  ASSUME PolicyInv, W!Run
  PROVE  PolicyInv'
<1> DEFINE p == W!Part(W!Command)
<1>1. /\ present' = IF W!Deletes(W!Command) THEN present \ {p} ELSE present \cup {p}
      /\ taken' = taken \ {p}
      /\ IF step = 5 THEN at' = "sleep" /\ step' = 1 ELSE at' = "apply" /\ step' = step + 1
  BY PartsFacts DEF W!Run, W!After
<1>2. /\ present \subseteq W!Parts /\ taken \subseteq W!Parts \ present /\ step \in 1..5
      /\ HalfDone /\ ("table" \in present => W!Parts \ present \subseteq taken)
  BY DEF PolicyInv, MarkedHaveARoute, W!MarkedHaveARoute
<1> USE PartsFacts DEF PolicyInv, HalfDone, MarkedHaveARoute, W!MarkedHaveARoute
<1>3. CASE step = 1
  <2>1. /\ present' = present \ {"table"} /\ taken' = taken \ {"table"}
        /\ at' = "apply" /\ step' = 2
    BY <1>1, <1>3, CommandFacts
  <2> QED BY <1>2, <1>3, <2>1
<1>4. CASE step = 2
  <2>1. /\ present' = present \ {"rule"} /\ taken' = taken \ {"rule"}
        /\ at' = "apply" /\ step' = 3
    BY <1>1, <1>4, CommandFacts
  <2> QED BY <1>2, <1>4, <2>1
<1>5. CASE step = 3
  <2>1. /\ present' = present \cup {"rule"} /\ taken' = taken \ {"rule"}
        /\ at' = "apply" /\ step' = 4
    BY <1>1, <1>5, CommandFacts
  <2> QED BY <1>2, <1>5, <2>1
<1>6. CASE step = 4
  <2>1. /\ present' = present \cup {"route"} /\ taken' = taken \ {"route"}
        /\ at' = "apply" /\ step' = 5
    BY <1>1, <1>6, CommandFacts
  <2> QED BY <1>2, <1>6, <2>1
<1>7. CASE step = 5
  <2>1. /\ present' = present \cup {"table"} /\ taken' = taken \ {"table"}
        /\ at' = "sleep" /\ step' = 1
    BY <1>1, <1>7, CommandFacts
  <2> QED BY <1>2, <1>7, <2>1
<1> QED BY <1>2, <1>3, <1>4, <1>5, <1>6, <1>7

LEMMA FailOK ==
  ASSUME PolicyInv, W!Fail
  PROVE  PolicyInv'
<1>1. step \in 1..5 /\ step # 1 /\ step' = 1 /\ at' = "sleep" /\ UNCHANGED <<present, taken>>
  BY CommandFacts DEF W!Fail, PolicyInv
<1> QED BY <1>1, PartsFacts DEF PolicyInv, HalfDone, MarkedHaveARoute, W!MarkedHaveARoute

LEMMA FlushOK ==
  ASSUME PolicyInv, W!Flush
  PROVE  PolicyInv'
<1>1. PICK P \in SUBSET present : present' = present \ P /\ taken' = taken \cup P
  BY DEF W!Flush
<1>2. UNCHANGED <<at, step>>
  BY DEF W!Flush
<1> QED BY <1>1, <1>2, PartsFacts
           DEF PolicyInv, HalfDone, MarkedHaveARoute, W!MarkedHaveARoute

LEMMA WatchOK ==
  ASSUME PolicyInv, W!Check \/ W!Wake \/ BootBegins \/ UNCHANGED policy
  PROVE  PolicyInv'
<1>1. /\ UNCHANGED <<present, step, taken>> /\ (at = "apply" => at' = at)
      /\ at' = at \/ at' \in {"check", "apply", "sleep"}
  BY DEF W!Check, W!Wake, BootBegins, policy
<1> QED BY <1>1 DEF PolicyInv, HalfDone, MarkedHaveARoute, W!MarkedHaveARoute

\* The inductive invariant of the tproxy policy: what a half-done apply or removal
\* may have left behind.
THEOREM PolicyInvariant == AddOnSpec => []PolicyInv
<1>1. AddOnInit => PolicyInv
  BY PartsFacts
     DEF AddOnInit, W!Init, PolicyInv, HalfDone, MarkedHaveARoute, W!MarkedHaveARoute
<1>2. PolicyInv /\ [AddOnNext]_addonVars => PolicyInv'
  <2>1. PolicyInv /\ Boot => PolicyInv'
    BY RunOK, FailOK, WatchOK DEF Boot, BootRuns, BootFails
  <2>2. PolicyInv /\ (WatchdogStep \/ OthersFlush) => PolicyInv'
    BY RunOK, FailOK, FlushOK, WatchOK DEF WatchdogStep, OthersFlush
  <2>3. PolicyInv /\ (ScriptStep \/ Signalled \/ ChildEnds) => PolicyInv'
    BY WatchOK DEF ScriptStep, Signalled, ChildEnds
  <2>4. PolicyInv /\ UNCHANGED addonVars => PolicyInv'
    BY WatchOK DEF addonVars
  <2> QED BY <2>1, <2>2, <2>3, <2>4 DEF AddOnNext
<1> QED BY <1>1, <1>2, PTL DEF AddOnSpec

\* Others remove parts of the policy, and its commands fail, within their bounds.
Counted == flushes \in 0..MaxFlushes /\ failures \in 0..MaxFailures

\* The policy is well typed; in particular, what somebody else took is not there.
THEOREM PolicyTypes == AddOnSpec => []W!TypeOK
<1>1. AddOnInit => Counted
  BY AddOnAssumption DEF AddOnInit, W!Init, Counted
<1>2. Counted /\ [AddOnNext]_addonVars => Counted'
  <2> SUFFICES ASSUME Counted, [AddOnNext]_addonVars PROVE Counted'
    OBVIOUS
  <2>1. \/ UNCHANGED <<flushes, failures>>
        \/ flushes < MaxFlushes /\ flushes' = flushes + 1 /\ failures' = failures
        \/ failures < MaxFailures /\ failures' = failures + 1 /\ flushes' = flushes
    <3>1. CASE ScriptStep \/ Signalled \/ ChildEnds \/ UNCHANGED addonVars
      BY <3>1 DEF ScriptStep, Signalled, ChildEnds, policy, addonVars
    <3>2. CASE Boot \/ WatchdogStep
      BY <3>2 DEF Boot, BootBegins, BootRuns, BootFails, WatchdogStep, W!Check, W!Wake, W!Run, W!Fail
    <3>3. CASE OthersFlush
      BY <3>3 DEF OthersFlush, W!Flush
    <3> QED BY <3>1, <3>2, <3>3 DEF AddOnNext
  <2> QED BY <2>1, AddOnAssumption DEF Counted
<1>3. PolicyInv /\ Counted => W!TypeOK
  BY PartsFacts DEF PolicyInv, Counted, W!TypeOK
<1> QED BY <1>1, <1>2, <1>3, PolicyInvariant, PTL DEF AddOnSpec

\* The policy itself never marks packets that then have nowhere to go, between
\* any two of its commands, after any of them failed, and whoever runs it
\* (apply in telegram-tproxy-policy.sh).
THEOREM NeverMarksIntoTheVoid == AddOnSpec => []MarkedHaveARoute
<1>1. PolicyInv => MarkedHaveARoute
  BY DEF PolicyInv
<1> QED BY <1>1, PolicyInvariant, PTL

-----------------------------------------------------------------------------
(* The controller of the routes.                                            *)

LEMMA LeastPlace ==
  ASSUME NEW T, T \subseteq Nat, T # {}
  PROVE  \E n \in T : \A m \in T : n <= m
<1> DEFINE R == OpToRel(<, Nat)
<1>1. IsWellFoundedOn(R, Nat)
  BY NatLessThanWellFounded
<1>2. \A x, y \in Nat : x < y => <<x, y>> \in R
  BY DEF OpToRel
<1> HIDE DEF R
<1>3. PICK n \in T : \A m \in T : ~ (<<m, n>> \in R)
  BY <1>1, WFMin
<1>4. ASSUME NEW m \in T PROVE n <= m
  <2>1. n \in Nat /\ m \in Nat
    OBVIOUS
  <2>2. ~ (m < n)
    BY <1>2, <1>3, <2>1
  <2> QED BY <2>1, <2>2
<1> QED BY <1>4

\* Of the lanes that answered there is a first one of least score.
LEMMA BestFacts ==
  ASSUME NEW st \in State, NEW ok \in SUBSET Lanes, ok # {}
  PROVE  /\ Best(st, ok) \in ok
         /\ \A t \in ok : Score(st, Best(st, ok)) <= Score(st, t)
<1> DEFINE places == 1..Len(LaneOrder)
           score(i) == Score(st, LaneOrder[i])
           good(i) == /\ LaneOrder[i] \in ok
                      /\ \A j \in places : LaneOrder[j] \in ok /\ j # i =>
                           ~(score(j) < score(i)) /\ (j < i => score(i) < score(j))
           S == {score(i) : i \in {j \in places : LaneOrder[j] \in ok}}
<1>1. /\ Len(LaneOrder) \in Nat
      /\ \A t \in Lanes : \E i \in places : LaneOrder[i] = t
      /\ \A i \in places : LaneOrder[i] \in Lanes
  BY RouteAssumption DEF Lanes
<1>2. \A i \in places : score(i) \in Nat
  <2>1. \A t \in Lanes : st.lanes[t].ewma \in 0..ErrorCap
    BY DEF State, Lane
  <2>2. ErrorCap \in Nat
    BY RouteAssumption
  <2>3. \A t \in Lanes : Score(st, t) \in Nat
    BY <2>1, <2>2 DEF Score
  <2> QED BY <1>1, <2>3
<1> HIDE DEF score
<1>3. S # {} /\ S \subseteq Nat
  BY <1>1, <1>2
<1>4. PICK least \in S : \A m \in S : least <= m
  BY <1>3, LeastPlace
<1> DEFINE T == {i \in places : LaneOrder[i] \in ok /\ score(i) = least}
<1>5. T # {} /\ T \subseteq Nat
  BY <1>1
<1>6. PICK i \in T : \A j \in T : i <= j
  BY <1>5, LeastPlace
<1>7. good(i)
  <2>1. LaneOrder[i] \in ok /\ score(i) = least /\ i \in places
    OBVIOUS
  <2>2. ASSUME NEW j \in places, LaneOrder[j] \in ok, j # i
        PROVE  ~(score(j) < score(i)) /\ (j < i => score(i) < score(j))
    <3>1. score(j) \in S /\ score(j) \in Nat /\ score(i) \in Nat
      BY <1>2, <2>1, <2>2
    <3>2. score(i) <= score(j)
      BY <1>4, <2>1, <3>1
    <3>3. j < i => score(j) # least
      <4>1. score(j) = least => i <= j
        BY <1>6, <2>2
      <4>2. i \in Nat /\ j \in Nat
        BY <1>1, <2>1
      <4> QED BY <4>1, <4>2
    <3> QED BY <2>1, <3>1, <3>2, <3>3
  <2> QED BY <2>1, <2>2
<1> DEFINE best == CHOOSE k \in places : good(k)
<1>8. best \in places /\ good(best)
  BY <1>7
<1>9. Best(st, ok) = LaneOrder[best]
  BY DEF Best, score
<1> HIDE DEF best
<1>10. ASSUME NEW t \in ok PROVE score(best) <= Score(st, t)
  <2>1. PICK j \in places : LaneOrder[j] = t
    BY <1>1
  <2>2. score(best) \in Nat /\ score(j) \in Nat
    BY <1>2, <1>8
  <2>3. ~(score(j) < score(best))
    BY <1>8, <2>1, <2>2
  <2>4. score(j) = Score(st, t)
    BY <2>1 DEF score
  <2> QED BY <2>2, <2>3, <2>4
<1> QED BY <1>8, <1>9, <1>10 DEF score

\* While a round goes on, some lane answered and each that did has a streak; and
\* what is about to be put is what the scores of the round decided.
AnsweredCount ==
  round \in {"probed", "put"} =>
    answered # {} /\ \A t \in answered : work.lanes[t].oks >= 1

PutDecided ==
  round = "put" => ShouldSwitch(work, seen, Target) /\ Target # seen

HealthInv == HealthTypes /\ AnsweredCount /\ PutDecided

LEMMA RouteFacts ==
  /\ ErrorCap \in Nat /\ ProvenRounds \in Nat /\ ProvenRounds >= 1
  /\ FirstError \in 0..ErrorCap /\ \A ms \in Speeds : ms \in 0..ErrorCap
BY RouteAssumption

\* What a probe leaves is an average below the cap and a streak, and a streak of
\* at least one where it answered.
LEMMA AfterFacts ==
  ASSUME NEW l \in Lane, NEW ms \in Speeds
  PROVE  /\ AfterError(l) \in Lane /\ AfterAnswer(l, ms) \in Lane
         /\ AfterAnswer(l, ms).oks >= 1
<1> DEFINE e == l.ewma  k == l.oks
<1>1. /\ e \in Nat /\ e <= ErrorCap /\ k \in Nat /\ k <= ProvenRounds
      /\ ms \in Nat /\ ms <= ErrorCap /\ FirstError \in 0..ErrorCap
      /\ ErrorCap \in Nat /\ ProvenRounds \in Nat /\ ProvenRounds >= 1
  BY RouteFacts DEF Lane
<1> HIDE DEF e, k
<1>2. (IF e > 0 THEN AtMost(3 * e, ErrorCap) ELSE FirstError) \in 0..ErrorCap
  BY <1>1 DEF AtMost
<1>3. (IF e = 0 THEN ms ELSE (7 * e + 3 * ms) \div 10) \in 0..ErrorCap
  BY <1>1
<1>4. AtMost(k + 1, ProvenRounds) \in 1..ProvenRounds
  BY <1>1 DEF AtMost
<1>5. AfterError(l) \in Lane
  BY <1>1, <1>2 DEF AfterError, Lane, e
<1>6. AfterAnswer(l, ms) \in Lane /\ AfterAnswer(l, ms).oks >= 1
  <2>1. AfterAnswer(l, ms) = [ewma |-> IF e = 0 THEN ms ELSE (7 * e + 3 * ms) \div 10,
                                oks |-> AtMost(k + 1, ProvenRounds)]
    BY DEF AfterAnswer, e, k
  <2> QED BY <1>1, <1>3, <1>4, <2>1 DEF Lane
<1> QED BY <1>5, <1>6

LEMMA ProbeOK ==
  ASSUME HealthInv, ProbeLanes
  PROVE  HealthInv'
<1>1. PICK ok \in SUBSET Lanes, ms \in [Lanes -> Speeds] :
        /\ answered' = ok
        /\ work' = [disk EXCEPT !.lanes = [t \in Lanes |->
                      IF t \in ok THEN AfterAnswer(disk.lanes[t], ms[t])
                                  ELSE AfterError(disk.lanes[t])]]
        /\ \/ round' = "sleep" /\ disk' = work'
           \/ round' = "probed" /\ ok # {} /\ disk' = disk
  BY DEF ProbeLanes
<1> DEFINE lanes == [t \in Lanes |-> IF t \in ok THEN AfterAnswer(disk.lanes[t], ms[t])
                                                  ELSE AfterError(disk.lanes[t])]
<1>2. disk \in State /\ UNCHANGED <<sticky, selected, seen>>
  BY DEF HealthInv, HealthTypes, ProbeLanes
<1>3. /\ lanes \in [Lanes -> Lane]
      /\ \A t \in ok : lanes[t].oks >= 1
  <2>1. \A t \in Lanes : disk.lanes[t] \in Lane /\ ms[t] \in Speeds
    BY <1>2 DEF State
  <2>2. \A t \in Lanes : /\ AfterAnswer(disk.lanes[t], ms[t]) \in Lane
                          /\ AfterError(disk.lanes[t]) \in Lane
                          /\ AfterAnswer(disk.lanes[t], ms[t]).oks >= 1
    BY <2>1, AfterFacts
  <2> QED BY <2>2
<1>4. work' = [disk EXCEPT !.lanes = lanes]
  BY <1>1
<1> HIDE DEF lanes
<1>5. work' \in State /\ work'.lanes = lanes
  BY <1>2, <1>3, <1>4 DEF State
<1>6. /\ answered' = ok /\ ok \subseteq Lanes
      /\ \/ round' = "sleep" /\ disk' = work'
         \/ round' = "probed" /\ ok # {} /\ disk' = disk
  BY <1>1
<1> QED BY <1>2, <1>3, <1>5, <1>6
           DEF HealthInv, HealthTypes, AnsweredCount, PutDecided

LEMMA DecideOK ==
  ASSUME HealthInv, Decide
  PROVE  HealthInv'
<1>1. /\ seen' \in Tags /\ round = "probed" /\ round' \in {"put", "write"}
      /\ UNCHANGED <<sticky, selected, disk, work, answered>>
  BY DEF HealthInv, HealthTypes, State, Decide
<1>2. Target' = Best(work, answered)
  BY <1>1 DEF Target
<1>3. round' = "put" => /\ ShouldSwitch(work, seen', Best(work, answered))
                        /\ Best(work, answered) # seen'
  BY DEF Decide
<1>4. PutDecided'
  BY <1>1, <1>2, <1>3 DEF PutDecided, ShouldSwitch
<1> QED BY <1>1, <1>4 DEF HealthInv, HealthTypes, AnsweredCount

\* Every other step leaves the round or changes nothing the decision rests on.
LEMMA OtherOK ==
  ASSUME HealthInv,
         PutAccepted \/ PutFailed \/ Write \/ Restore \/ Crash \/ Reselected
  PROVE  HealthInv'
<1>1. answered # {} /\ round = "put" => Target \in Tags
  BY BestFacts DEF Target, Tags, HealthInv, HealthTypes
<1>2. CASE PutAccepted \/ PutFailed
  <2>1. /\ Target \in Tags /\ round' = "write" /\ selected' \in {selected, Target}
        /\ UNCHANGED <<sticky, disk, seen, answered>>
        /\ work' = work \/ work' = [work EXCEPT !.chosen = Target]
    BY <1>1, <1>2 DEF PutAccepted, PutFailed, HealthInv, AnsweredCount
  <2>2. work' \in State
    BY <2>1 DEF HealthInv, HealthTypes, State
  <2> QED BY <2>1, <2>2 DEF HealthInv, HealthTypes, AnsweredCount, PutDecided
<1>3. CASE Write \/ Restore \/ Crash
  <2>1. /\ round' \in {"sleep", "boot"} /\ selected' \in Tags
        /\ disk' \in State /\ work' \in State /\ answered' \subseteq answered
        /\ UNCHANGED <<sticky, seen>>
    BY <1>3 DEF Write, Restore, Crash, HealthInv, HealthTypes, State
  <2> QED BY <2>1 DEF HealthInv, HealthTypes, AnsweredCount, PutDecided
<1>4. CASE Reselected
  <2>1. selected' \in Tags /\ UNCHANGED <<sticky, disk, work, round, seen, answered>>
    BY <1>4 DEF Reselected
  <2>2. Target' = Target
    BY <2>1 DEF Target
  <2> QED BY <2>1, <2>2 DEF HealthInv, HealthTypes, AnsweredCount, PutDecided, ShouldSwitch
<1> QED BY <1>2, <1>3, <1>4

\* The inductive invariant of the controller: what its averages and streaks are,
\* and that it puts only what the scores of this very round decided.
THEOREM HealthInvariant == HealthSpec => []HealthInv
<1>1. HealthInit => HealthInv
  <2> SUFFICES ASSUME HealthInit PROVE HealthInv
    OBVIOUS
  <2>1. disk \in State
    <3>1. 0 \in 0..ErrorCap /\ 0 \in 0..ProvenRounds
      BY RouteFacts
    <3> QED BY <3>1 DEF HealthInit, State, Lane, Tags
  <2> QED BY <2>1 DEF HealthInit, HealthInv, HealthTypes, AnsweredCount, PutDecided, Tags
<1>2. HealthInv /\ [HealthNext]_healthVars => HealthInv'
  <2>1. HealthInv /\ UNCHANGED healthVars => HealthInv'
    <3> SUFFICES ASSUME HealthInv, UNCHANGED healthVars PROVE HealthInv'
      OBVIOUS
    <3>1. UNCHANGED <<sticky, selected, disk, work, round, seen, answered>>
      BY DEF healthVars
    <3>2. Target' = Target
      BY <3>1 DEF Target
    <3> QED BY <3>1, <3>2
            DEF HealthInv, HealthTypes, AnsweredCount, PutDecided, ShouldSwitch
  <2> QED BY <2>1, ProbeOK, DecideOK, OtherOK DEF HealthNext, Round
<1> QED BY <1>1, <1>2, PTL DEF HealthSpec

\* The controller steers only to a lane that carried a real request in this very
\* round, whatever the scores, the saved choice and the selection are (the loop
\* of route-health.sh).
THEOREM SteersOnlyToAnswering == HealthSpec => []SteersToAnswering
<1>1. HealthInv => SteersToAnswering
  <2> SUFFICES ASSUME HealthInv, round = "put" PROVE Target \in answered /\ Target # seen
    BY DEF SteersToAnswering
  <2>1. /\ work \in State /\ answered \in SUBSET Lanes /\ answered # {}
        /\ Target # seen
    BY DEF HealthInv, HealthTypes, AnsweredCount, PutDecided
  <2> QED BY <2>1, BestFacts DEF Target
<1> QED BY <1>1, HealthInvariant, PTL

\* A lane that is seen in use and answered is left only for one that answered
\* ProvenRounds rounds in a row and is no slower, and by the sticky controller
\* never, for any lanes, speeds and switch ratio (should_switch).
THEOREM WorkingLeftForProven == HealthSpec => []LeavesWorkingOnlyForProven
<1>1. HealthInv => LeavesWorkingOnlyForProven
  <2> SUFFICES ASSUME HealthInv, round = "put", seen \in answered
               PROVE  /\ ~sticky /\ Proven(work, Target) >= ProvenRounds
                      /\ Score(work, Target) <= Score(work, seen)
    BY DEF LeavesWorkingOnlyForProven
  <2>1. /\ work \in State /\ answered \in SUBSET Lanes /\ answered # {}
        /\ ShouldSwitch(work, seen, Target) /\ work.lanes[seen].oks >= 1
    BY DEF HealthInv, HealthTypes, AnsweredCount, PutDecided
  <2>2. Proven(work, seen) # 0
    BY <2>1 DEF Proven
  <2>3. ~sticky /\ Proven(work, Target) >= ProvenRounds
    BY <2>1, <2>2 DEF ShouldSwitch
  <2>4. Score(work, Target) <= Score(work, seen)
    BY <2>1, BestFacts DEF Target
  <2> QED BY <2>3, <2>4
<1> QED BY <1>1, HealthInvariant, PTL

\* The switch ratio decides nothing while it is at most one: over a lane that
\* answered, the best one wins as soon as it is another and is proven, by however
\* little it is faster (should_switch; its test is ratio_num * best <= ratio_den *
\* current).
THEOREM RatioDecidesNothing ==
  ASSUME RatioNum <= RatioDen, NEW st \in State, NEW ok \in SUBSET Lanes, NEW cur \in ok,
         st.lanes[cur].oks >= 1
  PROVE  ShouldSwitch(st, cur, Best(st, ok)) <=>
           ~sticky /\ Best(st, ok) # cur /\ Proven(st, Best(st, ok)) >= ProvenRounds
<1> DEFINE b == Best(st, ok)
<1>1. b \in ok /\ Score(st, b) <= Score(st, cur)
  BY BestFacts
<1>2. Score(st, b) \in Nat /\ Score(st, cur) \in Nat
  BY <1>1, RouteFacts DEF Score, State, Lane
<1>3. Proven(st, cur) # 0
  BY RouteFacts DEF Proven, State, Lane
<1> HIDE DEF b
<1>4. RatioNum * Score(st, b) <= RatioDen * Score(st, cur)
  <2> DEFINE x == Score(st, b)
             y == Score(st, cur)
  <2>1. x \in Nat /\ y \in Nat /\ x <= y /\ RatioNum \in Nat /\ RatioDen \in Nat
    BY <1>1, <1>2, RouteAssumption
  <2> HIDE DEF x, y
  <2>2. RatioNum * x <= RatioNum * y
    BY <2>1
  <2>3. RatioNum * y <= RatioDen * y
    BY <2>1
  <2>4. RatioNum * x \in Int /\ RatioNum * y \in Int /\ RatioDen * y \in Int
    BY <2>1
  <2>5. RatioNum * x <= RatioDen * y
    BY <2>2, <2>3, <2>4
  <2> QED BY <2>5 DEF x, y
<1>5. ShouldSwitch(st, cur, b) <=> ~sticky /\ b # cur /\ Proven(st, b) >= ProvenRounds
  BY <1>3, <1>4 DEF ShouldSwitch
<1> QED BY <1>5 DEF b
=============================================================================
