----------------------------- MODULE EdgeDirect -----------------------------
(***************************************************************************)
(* The direct path of the edge (connectWithRetry), used when no proxy is   *)
(* configured: a name is resolved through a cache that coalesces lookups,  *)
(* its address is held against the host's own, and dialled.                *)
(*                                                                         *)
(* One host name; a process is a connection of a client.  The addresses of *)
(* the host change while connections come and go, which once sent the edge *)
(* to itself without end.                                                  *)
(***************************************************************************)
EXTENDS Integers, FiniteSets

CONSTANTS
  Procs,
  Addresses,   \* what the name may resolve to
  MaxRetries,  \* attempts of connectWithRetry (2 in the source)
  MaxChanges,  \* a bound: how often the addresses of the host change
  None

ASSUME DirectAssumption ==
  None \notin Procs \cup Addresses /\ MaxRetries \in Nat \ {0} /\ MaxChanges \in Nat

VARIABLES
  own,       \* the addresses the host answers for
  snapshot,  \* localAddresses, or None when they could not be read
  stale,     \* the snapshot is as old as the refresh interval
  cached,    \* resolveCache[host], or None
  call,      \* resolveCalls[host]: the process that looks up, or None
  proc,      \* each connection in connectWithRetry
  changes

vars == <<own, snapshot, stale, cached, call, proc, changes>>

\* unsure: the addresses of the host changed since its kernel check, or the
\* kernel did not answer.
Proc == [pc : {"idle", "resolve", "lookup", "wait", "guard", "kernel", "note", "dial",
               "refused", "connected", "failed"},
         ip : Addresses \cup {None}, attempt : 1..MaxRetries,
         unsure : BOOLEAN]

Idle == [pc |-> "idle", ip |-> None, attempt |-> 1, unsure |-> FALSE]

-----------------------------------------------------------------------------
(* resolve.                                                                 *)

Begin(p) ==
  /\ proc[p].pc = "idle"
  /\ proc' = [proc EXCEPT ![p] = [Idle EXCEPT !.pc = "resolve"]]
  /\ UNCHANGED <<own, snapshot, stale, cached, call, changes>>

\* resolveCalls has the host.
Joinable == call # None

\* The first critical section of resolve.
Resolve(p) ==
  /\ proc[p].pc = "resolve"
  /\ \/ /\ cached # None
        /\ proc' = [proc EXCEPT ![p].pc = "guard", ![p].ip = cached]
        /\ UNCHANGED call
     \/ /\ cached = None /\ Joinable
        /\ proc' = [proc EXCEPT ![p].pc = "wait"]
        /\ UNCHANGED call
     \/ /\ cached = None /\ ~Joinable
        /\ call' = p
        /\ proc' = [proc EXCEPT ![p].pc = "lookup"]
  /\ UNCHANGED <<own, snapshot, stale, cached, changes>>

\* An attempt that failed: the next one after a pause, or none.
NextAttempt(s) ==
  IF s.attempt = MaxRetries THEN [s EXCEPT !.pc = "failed", !.ip = None]
  ELSE [s EXCEPT !.pc = "resolve", !.ip = None, !.attempt = @ + 1]

\* What a lookup that returned ip, or no address, makes of a process.
Resolved(s, ip) ==
  IF ip = None THEN NextAttempt(s)
  ELSE [s EXCEPT !.pc = "guard", !.ip = ip]

\* The channel of the call is not closed when the lookup failed.
ReceivesOnSuccess(q, ip) == proc[q].pc = "wait" /\ ip # None

\* close(call.done) hands the result to everyone who waits.
Receives(q, ip) == proc[q].pc = "wait"

\* lookupIPv4 returns within its timeout, and the second critical section
\* stores the answer, unless the cache is full, closes the call and removes it.
Lookup(p) ==
  /\ proc[p].pc = "lookup"
  /\ \E ip \in Addresses \cup {None} :
       /\ cached' \in IF ip # None THEN {ip, cached} ELSE {cached}
       /\ proc' = [q \in Procs |->
            IF q = p \/ Receives(q, ip) THEN Resolved(proc[q], ip) ELSE proc[q]]
  /\ call' = None
  /\ UNCHANGED <<own, snapshot, stale, changes>>

\* dnsCacheTTL is over: the next resolve deletes the entry.
Expire ==
  /\ cached # None /\ cached' = None
  /\ UNCHANGED <<own, snapshot, stale, call, proc, changes>>

-----------------------------------------------------------------------------
(* isLocalDestination.                                                      *)

Known(s) == IF s = None THEN {} ELSE s

\* Addresses that are added to those of the last read.
RereadMerged == {own \cup Known(snapshot), None}

\* refreshLocalAddresses: what the host has now, or none if it cannot be read.
Reread == {own, None}

\* The snapshot, read again when it is stale or none.
Guard(p) ==
  /\ proc[p].pc = "guard"
  /\ IF stale \/ snapshot = None THEN snapshot' \in Reread ELSE UNCHANGED snapshot
  /\ stale' = FALSE
  /\ proc' = [proc EXCEPT ![p].pc = IF proc[p].ip \in Known(snapshot') THEN "refused" ELSE "kernel"]
  /\ UNCHANGED <<own, cached, call, changes>>

\* A guard that trusts its snapshot.
RoutedLocallyNever(ip) == FALSE

\* kernelRoutesLocally
RoutedLocally(ip) == ip \in own

\* The answer of the kernel is as current as it gets.  Without one, for want of a
\* socket, the dial goes ahead.
Kernel(p) ==
  /\ proc[p].pc = "kernel"
  /\ \/ proc' = [proc EXCEPT ![p].pc = IF RoutedLocally(proc[p].ip) THEN "note" ELSE "dial",
                             ![p].unsure = FALSE]
     \/ proc' = [proc EXCEPT ![p].pc = "dial", ![p].unsure = TRUE]
  /\ UNCHANGED <<own, snapshot, stale, cached, call, changes>>

\* An address the snapshot lacked is added to it, whatever it has become.
Note(p) ==
  /\ proc[p].pc = "note"
  /\ snapshot' = Known(snapshot) \cup {proc[p].ip}
  /\ proc' = [proc EXCEPT ![p].pc = "refused"]
  /\ UNCHANGED <<own, stale, cached, call, changes>>

-----------------------------------------------------------------------------
(* The dial.                                                                *)

\* A dial that fails takes the entry of the name out of the cache.
Dial(p) ==
  /\ proc[p].pc = "dial"
  /\ \/ proc' = [proc EXCEPT ![p].pc = "connected"] /\ UNCHANGED cached
     \/ proc' = [proc EXCEPT ![p] = NextAttempt(proc[p])] /\ cached' = None
  /\ UNCHANGED <<own, snapshot, stale, call, changes>>

Return(p) ==
  /\ proc[p].pc \in {"refused", "connected", "failed"}
  /\ proc' = [proc EXCEPT ![p] = Idle]
  /\ UNCHANGED <<own, snapshot, stale, cached, call, changes>>

\* The provider gives the host another address.
Readdress ==
  /\ changes < MaxChanges /\ changes' = changes + 1
  /\ \E A \in SUBSET Addresses : A # own /\ own' = A
  /\ proc' = [p \in Procs |-> [proc[p] EXCEPT !.unsure = TRUE]]
  /\ UNCHANGED <<snapshot, stale, cached, call>>

\* localAddressRefreshInterval passes.
Age ==
  /\ ~stale /\ stale' = TRUE
  /\ UNCHANGED <<own, snapshot, cached, call, proc, changes>>

Init ==
  /\ own \in SUBSET Addresses
  /\ snapshot = own /\ stale = FALSE
  /\ cached = None /\ call = None
  /\ proc = [p \in Procs |-> Idle]
  /\ changes = 0

Step(p) == \/ Resolve(p) \/ Lookup(p) \/ Guard(p) \/ Kernel(p) \/ Note(p) \/ Dial(p) \/ Return(p)

Next == Expire \/ Readdress \/ Age \/ \E p \in Procs : Begin(p) \/ Step(p)

Spec == Init /\ [][Next]_vars

\* Weak fairness of Step(p), with its ENABLED written out: lookups and dials have
\* timeouts, and goroutines run.
GoesOn(p) ==
  []<>(proc[p].pc \in {"idle", "wait"}) \/ []<><<Step(p)>>_vars

\* Weak fairness of Age, likewise: time passes.
TimePasses == []<>stale

FairSpec == Spec /\ TimePasses /\ \A p \in Procs : GoesOn(p)

-----------------------------------------------------------------------------
(* Properties.                                                              *)

TypeOK ==
  /\ own \subseteq Addresses /\ snapshot \in (SUBSET Addresses) \cup {None} /\ stale \in BOOLEAN
  /\ cached \in Addresses \cup {None} /\ call \in Procs \cup {None}
  /\ proc \in [Procs -> Proc]
  /\ changes \in 0..MaxChanges

\* The edge does not dial itself: an address that is dialled was not the host's
\* when the kernel answered, however old the snapshot was (the incident told at
\* main.go:896).
LoopGuarded == \A p \in Procs : proc[p].pc = "dial" /\ ~proc[p].unsure => proc[p].ip \notin own

\* An address the host has given up is dialled again before long: neither the
\* snapshot nor an answer of the kernel that was noted late keeps it refused (the
\* guard's own "an address change cannot outlive" it, main.go:906).
Refused(a) == \E p \in Procs : proc[p].pc = "refused" /\ proc[p].ip = a

ForeignServedAgain ==
  \A a \in Addresses : <>[](a \notin own) => <>[]~Refused(a)

\* Every connection gets its answer, its refusal or its error.
ConnectReturns == \A p \in Procs : proc[p].pc # "idle" ~> proc[p].pc = "idle"
=============================================================================
