----------------------------- MODULE Supervisor -----------------------------
(***************************************************************************)
(* run.sh as the supervisor of the add-on: which processes it starts, how  *)
(* it waits for them to be ready, which deaths end it, and what a signal   *)
(* at any point leaves running.                                            *)
(*                                                                         *)
(* Its children are the resolver, the transport, the edge, the TPROXY      *)
(* watchdog and a background subshell; the subshell's own child is the     *)
(* route-health controller.  A signal is handled between two commands of   *)
(* the script: before the trap is set it ends the script at once, after it *)
(* the handler runs and the script goes on.                                *)
(*                                                                         *)
(* The TPROXY policy is one step here; AddOn takes it apart.               *)
(***************************************************************************)
EXTENDS Integers

CONSTANT MaxTries  \* health checks before run.sh gives up (50 in the source)

ASSUME SupervisorAssumption == MaxTries \in Nat \ {0}

Children == {"smartdns", "sing-box", "smart-edge", "watchdog", "loop"}

Processes == Children \cup {"controller"}

\* What the options and /data hold: a sing-box config, whether it can be turned
\* into a valid runtime config, whether something requires a transport (its own
\* option, or the final DNS or TLS port), and the optional features.
Options == {o \in [config : BOOLEAN, valid : BOOLEAN, required : BOOLEAN,
                   tproxy : BOOLEAN, ai : BOOLEAN] : o.valid => o.config}

VARIABLES
  opts,      \* the options of this start
  pc,        \* where run.sh stands
  proc,      \* each process: "none", "up" or "dead"
  known,     \* children whose pid a variable of run.sh holds
  tries,     \* health checks that failed
  signalled  \* run.sh got INT or TERM

vars == <<opts, pc, proc, known, tries, signalled>>

Up(p) == proc[p] = "up"

Start(P) == proc' = [p \in Processes |-> IF p \in P THEN "up" ELSE proc[p]]

\* An exit inside the script runs the EXIT trap; before the trap is set it does not.
Exit == pc' = "exit"

-----------------------------------------------------------------------------
(* Before the children.                                                     *)

\* Lines 100 to 121: the transport is configured and validated, refused or absent.
Prepare ==
  /\ pc = "prepare"
  /\ pc' = IF opts.config THEN (IF opts.valid THEN "spawn" ELSE "ended")
           ELSE IF opts.required THEN "ended" ELSE "spawn"
  /\ UNCHANGED <<opts, proc, known, tries, signalled>>

Listeners == {"smartdns", "smart-edge"} \cup (IF opts.config THEN {"sing-box"} ELSE {})

\* The resolver first, the edge last.
Spawn ==
  /\ pc = "spawn"
  /\ \E c \in Listeners \ known :
       /\ c = "smartdns" \/ "smartdns" \in known
       /\ c = "smart-edge" => known \cup {c} = Listeners
       /\ Start({c}) /\ known' = known \cup {c}
       /\ pc' = IF known' = Listeners THEN "trap" ELSE "spawn"
  /\ UNCHANGED <<opts, tries, signalled>>

\* The trap is set; cleanup reads tproxy_watchdog_pid, which is not set yet.
SetTrap ==
  /\ pc = "trap"
  /\ pc' = "unset"
  /\ UNCHANGED <<opts, proc, known, tries, signalled>>

SetWatchdogPid ==
  /\ pc = "unset"
  /\ pc' = "tproxy"
  /\ UNCHANGED <<opts, proc, known, tries, signalled>>

-----------------------------------------------------------------------------
(* The optional children.                                                   *)

TproxyOff ==
  /\ pc = "tproxy" /\ ~opts.tproxy
  /\ pc' = "health"
  /\ UNCHANGED <<opts, proc, known, tries, signalled>>

\* The one-shot policy failed, which set -e turns into an exit.
TproxyFailed ==
  /\ pc = "tproxy" /\ opts.tproxy
  /\ Exit
  /\ UNCHANGED <<opts, proc, known, tries, signalled>>

\* The policy is in the kernel, and its watchdog is started.
TproxyApplied ==
  /\ pc = "tproxy" /\ opts.tproxy
  /\ pc' = "health"
  /\ Start({"watchdog"}) /\ known' = known \cup {"watchdog"}
  /\ UNCHANGED <<opts, tries, signalled>>

RouteHealth ==
  /\ pc = "health"
  /\ IF opts.config /\ (opts.ai \/ opts.tproxy)
     THEN Start({"loop", "controller"}) /\ known' = known \cup {"loop"}
     ELSE UNCHANGED <<proc, known>>
  /\ pc' = "probe"
  /\ UNCHANGED <<opts, tries, signalled>>

-----------------------------------------------------------------------------
(* Readiness, and the wait for the first death.                             *)

\* The loop over seq 1 50 is over.
GaveUp(n) == n = MaxTries

\* kill -0 of the children that serve traffic, then healthcheck.sh, which
\* connects to their ports.
Probe ==
  /\ pc = "probe"
  /\ IF \E c \in Listeners : ~Up(c)
     THEN Exit /\ UNCHANGED tries
     ELSE \/ pc' = "wait" /\ UNCHANGED tries
          \/ /\ tries' = tries + 1
             /\ pc' = IF GaveUp(tries') THEN "exit" ELSE "probe"
  /\ UNCHANGED <<opts, proc, known, signalled>>

\* wait -n over the children that serve names and connections only.
WatchedGo == known \cap {"smartdns", "smart-edge"}

\* child_pids
Watched == known

\* wait -n returns when a child is dead, also one that the handler of a signal
\* has reaped already.
WaitReturns ==
  /\ pc = "wait"
  /\ \E c \in Watched : proc[c] = "dead"
  /\ Exit
  /\ UNCHANGED <<opts, proc, known, tries, signalled>>

\* A cleanup that forgets the children it did not always start.
KilledAlways == known \cap {"smartdns", "smart-edge"}

\* The pids cleanup collects.
Killed == known

\* kill and wait: a child that is up takes TERM and is reaped.
Cleanup == proc' = [p \in Processes |-> IF p \in Killed /\ Up(p) THEN "dead" ELSE proc[p]]

\* The EXIT trap.
ExitTrap ==
  /\ pc = "exit"
  /\ Cleanup
  /\ pc' = "ended"
  /\ UNCHANGED <<opts, known, tries, signalled>>

-----------------------------------------------------------------------------
(* Signals and deaths.                                                      *)

\* Without a trap the script dies; with it, cleanup runs and the script goes on
\* where it was, which for wait -n is after it.  While tproxy_watchdog_pid is
\* unset, set -u ends the handler, the script, and the EXIT trap after it, before
\* anything is killed.
Signal ==
  /\ pc \notin {"ended", "killed"} /\ ~signalled
  /\ signalled' = TRUE
  /\ CASE pc \in {"prepare", "spawn", "trap", "unset"} -> pc' = "killed" /\ UNCHANGED proc
       [] pc \in {"tproxy", "health", "probe", "wait", "exit"} ->
              Cleanup /\ pc' = IF pc = "wait" THEN "exit" ELSE pc
  /\ UNCHANGED <<opts, known, tries>>

\* A child that ends by itself, for whatever reason.
Dies(p) ==
  /\ p \in Processes \ {"loop", "controller"} /\ Up(p)
  /\ proc' = [proc EXCEPT ![p] = "dead"]
  /\ UNCHANGED <<opts, pc, known, tries, signalled>>

\* route-health.sh ends, which it only does by a failure or a signal.  The
\* subshell has run.sh's set -e: it ends with it, before its restart.
ControllerDies ==
  /\ Up("controller")
  /\ proc' = [proc EXCEPT !["controller"] = "dead", !["loop"] = "dead"]
  /\ UNCHANGED <<opts, pc, known, tries, signalled>>

Init ==
  /\ opts \in Options
  /\ pc = "prepare"
  /\ proc = [p \in Processes |-> "none"]
  /\ known = {} /\ tries = 0 /\ signalled = FALSE

\* The steps of run.sh but for the policy.
Script == \/ Prepare \/ Spawn \/ SetTrap \/ SetWatchdogPid \/ RouteHealth
          \/ Probe \/ WaitReturns \/ ExitTrap

Next ==
  \/ Script \/ TproxyOff \/ TproxyFailed \/ TproxyApplied
  \/ Signal \/ ControllerDies \/ \E p \in Processes : Dies(p)

Spec == Init /\ [][Next]_vars

-----------------------------------------------------------------------------
(* Properties.                                                              *)

TypeOK ==
  /\ opts \in Options
  /\ pc \in {"prepare", "spawn", "trap", "unset", "tproxy", "health", "probe", "wait",
             "exit", "ended", "killed"}
  /\ proc \in [Processes -> {"none", "up", "dead"}]
  /\ known \subseteq Children /\ tries \in 0..MaxTries
  /\ signalled \in BOOLEAN

\* Once cleanup can run, run.sh leaves none of its children behind, whichever
\* of failure, death and signal ends it, and wherever a signal caught it: a
\* child started after the handler ran is caught by the EXIT trap.
NoChildLeft == pc = "ended" => \A c \in Children : ~Up(c)
=============================================================================
