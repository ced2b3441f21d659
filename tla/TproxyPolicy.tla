---------------------------- MODULE TproxyPolicy ----------------------------
(***************************************************************************)
(* The transparent path for Telegram: the kernel state that                *)
(* telegram-tproxy-policy.sh sets up, command by command, and the watchdog *)
(* that sets it up again when it is gone.                                  *)
(*                                                                         *)
(* The path takes three parts: the nft table that marks packets, the ip    *)
(* rule that sends marked packets to a routing table of their own, and the *)
(* local route in that table.  Somebody else may remove any of them.       *)
(*                                                                         *)
(* The module is a part of AddOn, which says who runs these steps, when.   *)
(***************************************************************************)
EXTENDS Integers, Sequences

CONSTANTS
  MaxFlushes,  \* a bound: how often somebody else removes parts of the policy
  MaxFailures  \* a bound: how many commands of the policy fail

Parts == {"table", "rule", "route"}

VARIABLES
  present,   \* the parts that are in the kernel
  pc,        \* "off" before the first --apply, "apply" during one, else the watchdog's
  step,      \* the command of --apply that is next
  taken,     \* parts somebody else removed and nobody has set up since
  flushes,   \* removals so far
  failures   \* failed commands so far

vars == <<present, pc, step, taken, flushes, failures>>

\* A policy that puts the marking table first.
CommandsTableFirst == <<"delete table", "add table", "delete rule", "add rule", "add route">>

\* The commands of apply, in order: the table is deleted first and added last.
Commands == <<"delete table", "delete rule", "add rule", "add route", "add table">>

Part(c) == CASE c \in {"delete table", "add table"} -> "table"
             [] c \in {"delete rule", "add rule"} -> "rule"
             [] c = "add route" -> "route"

Deletes(c) == c \in {"delete table", "delete rule"}

-----------------------------------------------------------------------------
(* The watchdog.                                                            *)

\* A look at the table alone.
PolicyPresentTable == "table" \in present

\* policy_present: nft list table, and a local route in the marked table.
PolicyPresent == {"table", "route"} \subseteq present

\* Each look at a policy that is gone applies it.
Check ==
  /\ pc = "check"
  /\ IF PolicyPresent
     THEN pc' = "sleep"
     ELSE pc' = "apply"
  /\ UNCHANGED <<present, step, taken, flushes, failures>>

Command == Commands[step]

After == IF step = Len(Commands) THEN pc' = "sleep" /\ step' = 1
                                 ELSE pc' = "apply" /\ step' = step + 1

\* One command of --apply.  A deletion of what is not there fails and is passed
\* over; an addition may replace what is there.
Run ==
  /\ pc = "apply"
  /\ present' = IF Deletes(Command) THEN present \ {Part(Command)}
                ELSE present \cup {Part(Command)}
  /\ taken' = taken \ {Part(Command)}
  /\ After
  /\ UNCHANGED <<flushes, failures>>

\* An addition fails: set -e ends the script, and the watchdog says so and sleeps.
Fail ==
  /\ pc = "apply" /\ ~Deletes(Command) /\ failures < MaxFailures
  /\ pc' = "sleep" /\ step' = 1
  /\ failures' = failures + 1
  /\ UNCHANGED <<present, taken, flushes>>

Wake ==
  /\ pc = "sleep" /\ pc' = "check"
  /\ UNCHANGED <<present, step, taken, flushes, failures>>

\* Somebody else, an interface going down or a firewall reload, removes parts.
Flush ==
  /\ flushes < MaxFlushes /\ present # {}
  /\ \E P \in SUBSET present \ {{}} :
       present' = present \ P /\ taken' = taken \cup P
  /\ flushes' = flushes + 1
  /\ UNCHANGED <<pc, step, failures>>

\* The namespace is the host's: it is clean, or holds what an earlier run of the
\* add-on left.
Init ==
  /\ present \in {{}, Parts} /\ taken = {}
  /\ pc = "off" /\ step = 1
  /\ flushes = 0 /\ failures = 0

-----------------------------------------------------------------------------
(* Properties.                                                              *)

TypeOK ==
  /\ present \subseteq Parts /\ taken \subseteq Parts \ present
  /\ pc \in {"off", "check", "apply", "sleep"} /\ step \in 1..Len(Commands)
  /\ flushes \in 0..MaxFlushes /\ failures \in 0..MaxFailures

\* The policy itself never marks packets that then have nowhere to go: while the
\* table is there, a part that is not was taken by somebody else, also between
\* two commands of --apply and after one of them failed.
MarkedHaveARoute == "table" \in present => Parts \ present \subseteq taken
=============================================================================
