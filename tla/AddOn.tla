-------------------------------- MODULE AddOn --------------------------------
(***************************************************************************)
(* The add-on as run.sh starts it: the supervisor of Supervisor composed   *)
(* with the TPROXY policy of TproxyPolicy.  run.sh runs the policy once,   *)
(* in the foreground, command by command; then the watchdog, one of its    *)
(* children, runs it again whenever a part of it is gone.                  *)
(*                                                                         *)
(* A policy script outlives the watchdog that started it, for a signal     *)
(* ends the watchdog and not the command it waits for; nothing outlives    *)
(* the container, which ends with run.sh.                                  *)
(***************************************************************************)
EXTENDS Supervisor

CONSTANTS MaxFlushes, MaxFailures  \* the bounds of TproxyPolicy

ASSUME AddOnAssumption == MaxFlushes \in Nat /\ MaxFailures \in Nat

VARIABLES
  present, step, taken, flushes, failures,  \* those of TproxyPolicy
  at                                        \* and its pc

policy == <<present, at, step, taken, flushes, failures>>

addonVars == <<vars, policy>>

W == INSTANCE TproxyPolicy WITH pc <- at

Over == {"ended", "killed"}

\* run.sh is in the foreground command of line 231.
Booting == pc = "tproxy" /\ at = "apply"

-----------------------------------------------------------------------------
(* The policy at start.                                                     *)

BootBegins ==
  /\ pc = "tproxy" /\ opts.tproxy /\ at = "off"
  /\ at' = "apply"
  /\ UNCHANGED vars /\ UNCHANGED <<present, step, taken, flushes, failures>>

\* One command; after the last one run.sh goes on.
BootRuns ==
  /\ Booting /\ W!Run
  /\ IF at' = "apply" THEN UNCHANGED vars ELSE TproxyApplied

\* set -e turns a command that failed into an exit.
BootFails == Booting /\ W!Fail /\ TproxyFailed

Boot == BootBegins \/ BootRuns \/ BootFails

-----------------------------------------------------------------------------
(* The watchdog, and everybody else.                                        *)

\* The loop of a watchdog that is up, and the policy script that it or a watchdog
\* before its death has started.
WatchdogStep ==
  /\ pc \notin Over /\ ~Booting
  /\ \/ Up("watchdog") /\ (W!Check \/ W!Wake)
     \/ W!Run
     \/ W!Fail
  /\ UNCHANGED vars

\* The kernel's part of the path is changed by somebody else.
OthersFlush == pc \notin Over /\ W!Flush /\ UNCHANGED vars

\* bash runs a trap after the foreground command, not during it.
Signalled == Signal /\ ~Booting /\ UNCHANGED policy

ScriptStep == (Script \/ TproxyOff) /\ UNCHANGED policy

ChildEnds == (ControllerDies \/ \E p \in Processes : Dies(p)) /\ UNCHANGED policy

AddOnInit == Init /\ W!Init

AddOnNext == ScriptStep \/ Boot \/ WatchdogStep \/ OthersFlush \/ Signalled \/ ChildEnds

\* Weak fairness of run.sh, with its ENABLED written out: it is not suspended.
ScriptGoesOn ==
  \/ []<>(pc \in Over \/ (pc = "wait" /\ \A c \in Watched : proc[c] # "dead"))
  \/ []<><<ScriptStep \/ Boot>>_addonVars

\* Weak fairness of the watchdog, and of the policy script it started.
WatchdogGoesOn ==
  \/ []<>(pc \in Over \/ Booting \/ (~Up("watchdog") /\ at # "apply"))
  \/ []<><<WatchdogStep>>_addonVars

\* Others remove parts of the policy, and its commands fail, only so often.
AddOnSpec ==
  /\ AddOnInit /\ [][AddOnNext]_addonVars
  /\ ScriptGoesOn /\ WatchdogGoesOn

-----------------------------------------------------------------------------
(* Properties.                                                              *)

\* The policy itself never marks packets that then have nowhere to go: whoever
\* runs it, also between two of its commands, after one of them failed, and when
\* its watchdog or run.sh ended in the middle of it.
MarkedHaveARoute == W!MarkedHaveARoute

\* The death of any child that run.sh started ends the add-on, so that nobody
\* keeps a resolver without its edge, or an edge without its transport.
DeathEndsAddon == \A c \in Children : proc[c] = "dead" ~> pc \in Over

\* With the feature on, the two parts of the path that the watchdog looks at are
\* there again and again, or the add-on ends: also when it is the watchdog that
\* died, or when its own repair failed.
PathComesBack ==
  opts.tproxy => []<>({"table", "route"} \subseteq present \/ pc \in Over)
=============================================================================
