-------------------------- MODULE EdgeDirectProofs --------------------------
(***************************************************************************)
(* The guard of the direct path and its cache, for any number of           *)
(* connections, addresses, retries and changes of address.                 *)
(*                                                                         *)
(* The guard holds because the kernel's answer is the last word before a   *)
(* dial and every change of address makes it unsure; a lookup wakes        *)
(* everybody who waits for it, for the table names the one that owns it.   *)
(***************************************************************************)
EXTENDS EdgeDirect, TLAPS

\* Whoever holds an address against the host's, or dials, has one.
Addressed ==
  \A p \in Procs : proc[p].pc \in {"guard", "kernel", "note", "dial"} => proc[p].ip \in Addresses

\* The table of calls names the one process that looks up, and nobody waits for a
\* call that is gone.
CallOwned ==
  \A p \in Procs :
    /\ proc[p].pc = "lookup" <=> call = p
    /\ proc[p].pc = "wait" => call # None

DirectInv == TypeOK /\ Addressed /\ CallOwned /\ LoopGuarded

-----------------------------------------------------------------------------
(* One process.                                                             *)

LEMMA NoneFacts == None \notin Procs /\ None \notin Addresses
BY DirectAssumption

LEMMA IdleFacts ==
  /\ Idle \in Proc /\ Idle.pc = "idle"
  /\ [Idle EXCEPT !.pc = "resolve"] \in Proc
  /\ [Idle EXCEPT !.pc = "resolve"].pc = "resolve"
<1>1. 1 \in 1..MaxRetries
  BY DirectAssumption
<1> QED BY <1>1 DEF Idle, Proc

LEMMA NextAttemptFacts ==
  ASSUME NEW s \in Proc
  PROVE  NextAttempt(s) \in Proc /\ NextAttempt(s).pc \in {"failed", "resolve"}
<1>1. s.attempt \in 1..MaxRetries
  BY DEF Proc
<1>2. CASE s.attempt = MaxRetries
  BY <1>2 DEF NextAttempt, Proc
<1>3. CASE s.attempt # MaxRetries
  <2>1. s.attempt + 1 \in 1..MaxRetries
    BY <1>1, <1>3, DirectAssumption
  <2> QED BY <1>3, <2>1 DEF NextAttempt, Proc
<1> QED BY <1>2, <1>3

LEMMA ResolvedFacts ==
  ASSUME NEW s \in Proc, NEW ip \in Addresses \cup {None}
  PROVE  /\ Resolved(s, ip) \in Proc
         /\ Resolved(s, ip).pc \in {"failed", "resolve", "guard"}
         /\ Resolved(s, ip).pc = "guard" => Resolved(s, ip).ip \in Addresses
<1>1. CASE ip = None
  BY <1>1, NextAttemptFacts DEF Resolved
<1>2. CASE ip # None
  BY <1>2 DEF Resolved, Proc
<1> QED BY <1>1, <1>2

LEMMA ProcFacts ==
  ASSUME DirectInv, NEW p \in Procs
  PROVE  proc[p] \in Proc /\ proc \in [Procs -> Proc]
BY DEF DirectInv, TypeOK

\* A step of p alone that neither begins nor ends a lookup.
LEMMA ProcStep ==
  ASSUME DirectInv, NEW p \in Procs, NEW r \in Proc,
         proc' = [proc EXCEPT ![p] = r], UNCHANGED <<own, call, changes>>,
         snapshot' \in (SUBSET Addresses) \cup {None}, stale' \in BOOLEAN,
         cached' \in {cached, None},
         r.pc \in {"guard", "kernel", "note", "dial"} => r.ip \in Addresses,
         proc[p].pc # "lookup", r.pc # "lookup", r.pc = "wait" => call # None,
         r.pc = "dial" /\ ~r.unsure => r.ip \notin own
  PROVE  DirectInv'
<1>1. proc \in [Procs -> Proc] /\ \A q \in Procs : proc'[q] = IF q = p THEN r ELSE proc[q]
  BY ProcFacts
<1>2. TypeOK'
  BY <1>1 DEF DirectInv, TypeOK
<1>3. Addressed'
  BY <1>1 DEF DirectInv, Addressed
<1>4. CallOwned'
  BY <1>1 DEF DirectInv, CallOwned
<1>5. LoopGuarded'
  BY <1>1 DEF DirectInv, LoopGuarded
<1> QED BY <1>2, <1>3, <1>4, <1>5 DEF DirectInv

-----------------------------------------------------------------------------
(* Every step.                                                              *)

LEMMA InitOK == Init => DirectInv
<1> SUFFICES ASSUME Init PROVE DirectInv
  OBVIOUS
<1>1. proc = [p \in Procs |-> Idle] /\ \A p \in Procs : proc[p] = Idle
  BY DEF Init
<1>2. TypeOK
  <2>1. proc \in [Procs -> Proc]
    BY <1>1, IdleFacts
  <2>2. 0 \in 0..MaxChanges
    BY DirectAssumption
  <2> QED BY <2>1, <2>2 DEF Init, TypeOK
<1> QED BY <1>1, <1>2, IdleFacts, NoneFacts
        DEF Init, DirectInv, Addressed, CallOwned, LoopGuarded

LEMMA BeginOK == ASSUME DirectInv, NEW p \in Procs, Begin(p) PROVE DirectInv'
<1> DEFINE r == [Idle EXCEPT !.pc = "resolve"]
<1>1. r \in Proc /\ r.pc = "resolve"
  BY IdleFacts
<1>2. proc' = [proc EXCEPT ![p] = r] /\ UNCHANGED <<own, snapshot, stale, cached, call, changes>>
      /\ proc[p].pc = "idle"
  BY DEF Begin
<1> HIDE DEF r
<1> QED BY <1>1, <1>2, ProcStep DEF DirectInv, TypeOK

LEMMA ResolveOK == ASSUME DirectInv, NEW p \in Procs, Resolve(p) PROVE DirectInv'
<1>0. /\ proc[p].pc = "resolve" /\ proc[p] \in Proc
      /\ UNCHANGED <<own, snapshot, stale, cached, changes>>
  BY ProcFacts DEF Resolve
<1>1. CASE cached # None
  <2> DEFINE r == [proc[p] EXCEPT !.pc = "guard", !.ip = cached]
  <2>1. proc' = [proc EXCEPT ![p] = r] /\ UNCHANGED call
    BY <1>1, ProcFacts DEF Resolve
  <2>2. r \in Proc /\ r.pc = "guard" /\ r.ip \in Addresses
    BY <1>0, <1>1 DEF Proc, DirectInv, TypeOK
  <2> HIDE DEF r
  <2> QED BY <1>0, <2>1, <2>2, ProcStep DEF DirectInv, TypeOK
<1>2. CASE cached = None /\ Joinable
  <2> DEFINE r == [proc[p] EXCEPT !.pc = "wait"]
  <2>1. proc' = [proc EXCEPT ![p] = r] /\ UNCHANGED call
    BY <1>2, ProcFacts DEF Resolve
  <2>2. r \in Proc /\ r.pc = "wait"
    BY <1>0 DEF Proc
  <2> HIDE DEF r
  <2> QED BY <1>0, <1>2, <2>1, <2>2, ProcStep DEF DirectInv, TypeOK, Joinable
\* The process that finds no call becomes the one that looks up.
<1>3. CASE cached = None /\ ~Joinable
  <2> DEFINE r == [proc[p] EXCEPT !.pc = "lookup"]
  <2>1. proc' = [proc EXCEPT ![p] = r] /\ call' = p /\ call = None /\ cached' = None
    BY <1>0, <1>3, ProcFacts DEF Resolve, Joinable
  <2>2. r \in Proc /\ r.pc = "lookup"
    BY <1>0 DEF Proc
  <2> HIDE DEF r
  <2>3. \A q \in Procs : proc'[q] = IF q = p THEN r ELSE proc[q]
    BY <2>1, ProcFacts
  <2>4. TypeOK'
    BY <1>0, <2>1, <2>2, <2>3 DEF DirectInv, TypeOK
  <2>5. CallOwned'
    BY <2>1, <2>2, <2>3, NoneFacts DEF DirectInv, CallOwned
  <2> QED BY <1>0, <2>1, <2>2, <2>3, <2>4, <2>5 DEF DirectInv, Addressed, LoopGuarded
<1> QED BY <1>1, <1>2, <1>3 DEF Joinable

\* A lookup that ends wakes all who wait.
LEMMA LookupOK == ASSUME DirectInv, NEW p \in Procs, Lookup(p) PROVE DirectInv'
<1>1. PICK ip \in Addresses \cup {None} :
        /\ cached' \in IF ip # None THEN {ip, cached} ELSE {cached}
        /\ proc' = [q \in Procs |->
             IF q = p \/ Receives(q, ip) THEN Resolved(proc[q], ip) ELSE proc[q]]
  BY DEF Lookup
<1>2. /\ proc[p].pc = "lookup" /\ call' = None
      /\ UNCHANGED <<own, snapshot, stale, changes>>
  BY DEF Lookup
<1>3. ASSUME NEW q \in Procs, q = p \/ proc[q].pc = "wait"
      PROVE  /\ proc'[q] \in Proc /\ proc'[q].pc \in {"failed", "resolve", "guard"}
             /\ proc'[q].pc = "guard" => proc'[q].ip \in Addresses
  <2>1. proc'[q] = Resolved(proc[q], ip)
    BY <1>1, <1>3 DEF Receives
  <2> QED BY <2>1, ProcFacts, ResolvedFacts
<1>4. ASSUME NEW q \in Procs, q # p, proc[q].pc # "wait"
      PROVE  /\ proc'[q] \in Proc
             /\ proc'[q].pc = proc[q].pc /\ proc'[q].ip = proc[q].ip
             /\ proc'[q].unsure = proc[q].unsure
             /\ proc'[q].pc # "lookup"
  <2>1. proc'[q] = proc[q]
    BY <1>1, <1>4 DEF Receives
  <2>2. proc[q].pc # "lookup"
    BY <1>2, <1>4 DEF DirectInv, CallOwned
  <2> QED BY <2>1, <2>2, ProcFacts DEF Proc
<1>5. TypeOK'
  <2>1. proc' \in [Procs -> Proc]
    <3>1. \A q \in Procs : proc'[q] \in Proc
      BY <1>3, <1>4
    <3> QED BY <1>1, <3>1
  <2> QED BY <1>1, <1>2, <2>1 DEF DirectInv, TypeOK
<1>6. Addressed'
  BY <1>3, <1>4 DEF DirectInv, Addressed
<1>7. CallOwned'
  BY <1>2, <1>3, <1>4, NoneFacts DEF CallOwned
<1>8. LoopGuarded'
  BY <1>2, <1>3, <1>4 DEF DirectInv, LoopGuarded
<1> QED BY <1>5, <1>6, <1>7, <1>8 DEF DirectInv

LEMMA GuardOK == ASSUME DirectInv, NEW p \in Procs, Guard(p) PROVE DirectInv'
<1> DEFINE pc == IF proc[p].ip \in Known(snapshot') THEN "refused" ELSE "kernel"
           r == [proc[p] EXCEPT !.pc = pc]
<1>1. /\ proc' = [proc EXCEPT ![p] = r] /\ proc[p].pc = "guard"
      /\ UNCHANGED <<own, cached, call, changes>>
  BY ProcFacts DEF Guard
<1>2. snapshot' \in (SUBSET Addresses) \cup {None} /\ stale' \in BOOLEAN
  BY DEF Guard, Reread, DirectInv, TypeOK
<1>3. /\ r \in Proc /\ r.pc \in {"refused", "kernel"} /\ r.ip = proc[p].ip
  BY ProcFacts DEF Proc
<1> HIDE DEF r
<1> QED BY <1>1, <1>2, <1>3, ProcStep DEF DirectInv, Addressed

LEMMA KernelOK == ASSUME DirectInv, NEW p \in Procs, Kernel(p) PROVE DirectInv'
<1> DEFINE pc == IF RoutedLocally(proc[p].ip) THEN "note" ELSE "dial"
           r == [proc[p] EXCEPT !.pc = pc, !.unsure = FALSE]
           s == [proc[p] EXCEPT !.pc = "dial", !.unsure = TRUE]
<1>1. /\ proc[p].pc = "kernel" /\ UNCHANGED <<own, snapshot, stale, cached, call, changes>>
      /\ proc' = [proc EXCEPT ![p] = r] \/ proc' = [proc EXCEPT ![p] = s]
  BY ProcFacts DEF Kernel
<1>2. /\ r \in Proc /\ r.pc \in {"note", "dial"} /\ (r.pc = "dial" => r.ip \notin own)
      /\ r.ip = proc[p].ip
  BY ProcFacts DEF Proc, RoutedLocally
<1>3. s \in Proc /\ s.pc = "dial" /\ s.unsure /\ s.ip = proc[p].ip
  BY ProcFacts DEF Proc
<1>4. /\ proc[p].ip \in Addresses
      /\ snapshot \in (SUBSET Addresses) \cup {None} /\ stale \in BOOLEAN
  BY <1>1 DEF DirectInv, Addressed, TypeOK
<1> HIDE DEF r, s
<1>5. CASE proc' = [proc EXCEPT ![p] = r]
  BY <1>1, <1>2, <1>4, <1>5, ProcStep
<1>6. CASE proc' = [proc EXCEPT ![p] = s]
  BY <1>1, <1>3, <1>4, <1>6, ProcStep
<1> QED BY <1>1, <1>5, <1>6

LEMMA NoteOK == ASSUME DirectInv, NEW p \in Procs, Note(p) PROVE DirectInv'
<1> DEFINE r == [proc[p] EXCEPT !.pc = "refused"]
<1>1. /\ proc' = [proc EXCEPT ![p] = r] /\ proc[p].pc = "note"
      /\ UNCHANGED <<own, stale, cached, call, changes>>
  BY ProcFacts DEF Note
<1>2. snapshot' \in (SUBSET Addresses) \cup {None} /\ stale' \in BOOLEAN
  BY <1>1 DEF Note, Known, DirectInv, TypeOK, Addressed
<1>3. r \in Proc /\ r.pc = "refused"
  BY ProcFacts DEF Proc
<1> HIDE DEF r
<1> QED BY <1>1, <1>2, <1>3, ProcStep DEF DirectInv

\* A dial that fails takes the address out of the cache.
LEMMA DialOK == ASSUME DirectInv, NEW p \in Procs, Dial(p) PROVE DirectInv'
<1> DEFINE r == [proc[p] EXCEPT !.pc = "connected"]
           s == NextAttempt(proc[p])
<1>1. proc[p].pc = "dial" /\ UNCHANGED <<own, snapshot, stale, call, changes>>
  BY DEF Dial
<1>2. /\ snapshot \in (SUBSET Addresses) \cup {None} /\ stale \in BOOLEAN
      /\ proc[p].ip \in Addresses \cup {None}
  BY <1>1 DEF DirectInv, TypeOK, Addressed
<1>3. /\ r \in Proc /\ r.pc = "connected"
      /\ s \in Proc /\ s.pc \in {"failed", "resolve"}
  BY <1>2, ProcFacts, NextAttemptFacts DEF Proc
<1>4. \/ proc' = [proc EXCEPT ![p] = r] /\ UNCHANGED cached
      \/ proc' = [proc EXCEPT ![p] = s] /\ cached' = None
  BY ProcFacts DEF Dial
<1> HIDE DEF r, s
<1>5. CASE proc' = [proc EXCEPT ![p] = r] /\ UNCHANGED cached
  BY <1>1, <1>2, <1>3, <1>5, ProcStep
<1>6. CASE proc' = [proc EXCEPT ![p] = s] /\ cached' = None
  BY <1>1, <1>2, <1>3, <1>6, ProcStep
<1> QED BY <1>4, <1>5, <1>6

LEMMA ReturnOK == ASSUME DirectInv, NEW p \in Procs, Return(p) PROVE DirectInv'
<1>1. /\ proc' = [proc EXCEPT ![p] = Idle] /\ proc[p].pc # "lookup"
      /\ UNCHANGED <<own, snapshot, stale, cached, call, changes>>
  BY DEF Return
<1> QED BY <1>1, IdleFacts, ProcStep DEF DirectInv, TypeOK

LEMMA ExpireOK == ASSUME DirectInv, Expire PROVE DirectInv'
<1>1. cached' = None /\ UNCHANGED <<own, snapshot, stale, call, proc, changes>>
  BY DEF Expire
<1> QED BY <1>1 DEF DirectInv, TypeOK, Addressed, CallOwned, LoopGuarded

\* From here on no kernel check that was made is relied on.
LEMMA ReaddressOK == ASSUME DirectInv, Readdress PROVE DirectInv'
<1>1. /\ UNCHANGED <<snapshot, stale, cached, call>>
      /\ changes' \in 0..MaxChanges /\ own' \subseteq Addresses
  BY DirectAssumption DEF Readdress, DirectInv, TypeOK
<1>2. ASSUME NEW p \in Procs
      PROVE  /\ proc'[p] \in Proc /\ proc'[p].pc = proc[p].pc /\ proc'[p].ip = proc[p].ip
             /\ proc'[p].unsure
  <2>1. proc'[p] = [proc[p] EXCEPT !.unsure = TRUE]
    BY DEF Readdress
  <2> QED BY <2>1, ProcFacts DEF Proc
<1>3. TypeOK'
  <2>1. proc' \in [Procs -> Proc]
    BY <1>2 DEF Readdress
  <2> QED BY <1>1, <2>1 DEF DirectInv, TypeOK
<1> QED BY <1>1, <1>2, <1>3 DEF DirectInv, Addressed, CallOwned, LoopGuarded

LEMMA AgeOK == ASSUME DirectInv, Age PROVE DirectInv'
<1>1. stale' = TRUE /\ UNCHANGED <<own, snapshot, cached, call, proc, changes>>
  BY DEF Age
<1> QED BY <1>1 DEF DirectInv, TypeOK, Addressed, CallOwned, LoopGuarded

LEMMA StutterOK == ASSUME DirectInv, UNCHANGED vars PROVE DirectInv'
BY DEF vars, DirectInv, TypeOK, Addressed, CallOwned, LoopGuarded

-----------------------------------------------------------------------------
(* The theorems.                                                            *)

\* The inductive invariant of lookups, dials and retries.
THEOREM DirectInvariant == Spec => []DirectInv
<1>1. ASSUME DirectInv, [Next]_vars PROVE DirectInv'
  <2>1. ASSUME NEW p \in Procs, Begin(p) \/ Step(p) PROVE DirectInv'
    BY <1>1, <2>1, BeginOK, ResolveOK, LookupOK, GuardOK, KernelOK, NoteOK, DialOK, ReturnOK DEF Step
  <2> QED BY <1>1, <2>1, ExpireOK, ReaddressOK, AgeOK, StutterOK DEF Next
<1> QED BY <1>1, InitOK, PTL DEF Spec

\* The edge dials no address that was the host's own when the kernel was asked
\* and has answered (isLocalDestination).
THEOREM NeverDialsItself == Spec => []LoopGuarded
<1>1. DirectInv => LoopGuarded
  BY DEF DirectInv
<1> QED BY <1>1, DirectInvariant, PTL

\* One lookup of the name at a time, and whoever waits for one will be woken by
\* the process the table names (resolveCalls).
THEOREM LookupsCoalesced == Spec => []CallOwned
<1>1. DirectInv => CallOwned
  BY DEF DirectInv
<1> QED BY <1>1, DirectInvariant, PTL

-----------------------------------------------------------------------------
(* Termination: what of ConnectReturns needs no fairness.                   *)

Stages == [resolve |-> 8, lookup |-> 7, wait |-> 7, guard |-> 6, kernel |-> 5, note |-> 4,
           dial |-> 3, refused |-> 1, connected |-> 1, failed |-> 1, idle |-> 0]

Over == {"refused", "connected", "failed", "idle"}

\* How many steps a connection has left at most.
StepsLeft(s) ==
  IF s.pc \in Over THEN Stages[s.pc] ELSE 8 * (MaxRetries - s.attempt) + Stages[s.pc]

LEMMA StagesFacts ==
  /\ Stages["resolve"] = 8 /\ Stages["lookup"] = 7 /\ Stages["wait"] = 7 /\ Stages["guard"] = 6
  /\ Stages["kernel"] = 5 /\ Stages["note"] = 4 /\ Stages["dial"] = 3 /\ Stages["refused"] = 1
  /\ Stages["connected"] = 1 /\ Stages["failed"] = 1 /\ Stages["idle"] = 0
BY DEF Stages

LEMMA StepsLeftFacts ==
  ASSUME NEW s \in Proc
  PROVE  /\ StepsLeft(s) \in 0..(8 * MaxRetries)
         /\ s.pc \in {"refused", "connected", "failed"} => StepsLeft(s) = 1
         /\ s.pc = "idle" => StepsLeft(s) = 0
         /\ s.pc \notin Over =>
              StepsLeft(s) = 8 * (MaxRetries - s.attempt) + Stages[s.pc] /\ Stages[s.pc] \in 3..8
         /\ s.attempt \in 1..MaxRetries /\ MaxRetries \in Nat
<1>1. s.attempt \in 1..MaxRetries /\ MaxRetries \in Nat \ {0}
  BY DirectAssumption DEF Proc
<1>2. CASE s.pc \in Over
  BY <1>1, <1>2, StagesFacts DEF Over, StepsLeft
<1>3. CASE s.pc \notin Over
  <2>1. Stages[s.pc] \in 3..8
    BY <1>3, StagesFacts DEF Proc, Over
  <2>2. StepsLeft(s) = 8 * (MaxRetries - s.attempt) + Stages[s.pc]
    BY <1>3 DEF StepsLeft
  <2>3. s.pc \notin {"refused", "connected", "failed", "idle"}
    BY <1>3 DEF Over
  <2> QED BY <1>1, <2>1, <2>2, <2>3
<1> QED BY <1>2, <1>3

LEMMA NotOver ==
  ASSUME NEW s \in Proc, s.pc # "idle" PROVE StepsLeft(s) \in 1..(8 * MaxRetries)
<1>1. CASE s.pc \in Over
  BY <1>1, StepsLeftFacts, DirectAssumption DEF Over
<1>2. CASE s.pc \notin Over
  BY <1>2, StepsLeftFacts
<1> QED BY <1>1, <1>2

\* A connection that goes on within its attempt, or is over.
LEMMA FurtherOn ==
  ASSUME NEW s \in Proc, NEW t \in Proc, s.pc # "idle", t.attempt = s.attempt,
         Stages[t.pc] < Stages[s.pc]
  PROVE  StepsLeft(t) < StepsLeft(s)
<1>1. CASE t.pc \in Over
  BY <1>1, StepsLeftFacts, StagesFacts DEF Over
<1>2. CASE t.pc \notin Over
  BY <1>2, StepsLeftFacts, StagesFacts DEF Over
<1> QED BY <1>1, <1>2

LEMMA AsFar ==
  ASSUME NEW s, NEW t, t.attempt = s.attempt, t.pc = s.pc
  PROVE  StepsLeft(t) = StepsLeft(s)
BY DEF StepsLeft

LEMMA NextAttemptNearer ==
  ASSUME NEW s \in Proc, s.pc \notin Over
  PROVE  StepsLeft(NextAttempt(s)) < StepsLeft(s)
<1> DEFINE t == NextAttempt(s)
<1>1. t \in Proc /\ t.pc \in {"failed", "resolve"}
  BY NextAttemptFacts
<1>2. t.pc = "resolve" => t.attempt = s.attempt + 1
  BY DEF NextAttempt, Proc
<1> HIDE DEF t
<1>3. s.attempt \in 1..MaxRetries /\ t.attempt \in 1..MaxRetries /\ MaxRetries \in Nat
  BY <1>1, StepsLeftFacts
<1>4. StepsLeft(s) >= 8 * (MaxRetries - s.attempt) + 3
  <2>1. StepsLeft(s) = 8 * (MaxRetries - s.attempt) + Stages[s.pc] /\ Stages[s.pc] \in 3..8
    BY StepsLeftFacts
  <2> QED BY <2>1, <1>3
<1>5. ASSUME t.pc = "failed" PROVE StepsLeft(t) < StepsLeft(s)
  <2>1. StepsLeft(t) = 1
    BY <1>1, <1>5, StepsLeftFacts
  <2>2. StepsLeft(s) \in Nat
    BY StepsLeftFacts
  <2> QED BY <2>1, <2>2, <1>3, <1>4
<1>6. ASSUME t.pc = "resolve" PROVE StepsLeft(t) < StepsLeft(s)
  <2>1. t.pc \notin Over
    BY <1>6 DEF Over
  <2>2. StepsLeft(t) = 8 * (MaxRetries - t.attempt) + 8
    BY <1>1, <1>6, <2>1, StepsLeftFacts, StagesFacts
  <2>3. StepsLeft(s) \in Nat
    BY StepsLeftFacts
  <2> QED BY <1>2, <1>3, <1>4, <1>6, <2>2, <2>3
<1> QED BY <1>1, <1>5, <1>6 DEF t

LEMMA ResolvedNearer ==
  ASSUME NEW s \in Proc, NEW ip \in Addresses \cup {None}, s.pc \in {"lookup", "wait"}
  PROVE  StepsLeft(Resolved(s, ip)) < StepsLeft(s)
<1>1. s.pc \notin Over
  BY DEF Over
<1>2. CASE ip = None
  BY <1>1, <1>2, NextAttemptNearer DEF Resolved
<1>3. CASE ip # None
  <2>1. /\ Resolved(s, ip) \in Proc
        /\ Resolved(s, ip).pc = "guard" /\ Resolved(s, ip).attempt = s.attempt
    BY <1>3, ResolvedFacts DEF Resolved, Proc
  <2> QED BY <2>1, FurtherOn, StagesFacts
<1> QED BY <1>2, <1>3

\* A step of one connection takes none of the others further from its end.
LEMMA OnlyItself ==
  ASSUME NEW p \in Procs, NEW s \in Proc, proc \in [Procs -> Proc],
         proc' = [proc EXCEPT ![p] = s], StepsLeft(s) < StepsLeft(proc[p]),
         NEW q \in Procs
  PROVE  /\ StepsLeft(proc'[q]) <= StepsLeft(proc[q])
         /\ StepsLeft(proc'[p]) < StepsLeft(proc[p])
<1>1. proc'[p] = s
  OBVIOUS
<1>2. q # p => proc'[q] = proc[q]
  OBVIOUS
<1>3. StepsLeft(proc[q]) \in Int /\ StepsLeft(proc[p]) \in Int /\ StepsLeft(s) \in Int
  BY StepsLeftFacts
<1> HIDE DEF StepsLeft
<1>4. CASE q = p
  BY <1>1, <1>3, <1>4
<1>5. CASE q # p
  BY <1>1, <1>2, <1>3, <1>5
<1> QED BY <1>4, <1>5

Nearer(p) ==
  /\ \A q \in Procs : StepsLeft(proc'[q]) <= StepsLeft(proc[q])
  /\ StepsLeft(proc'[p]) < StepsLeft(proc[p])

LEMMA LookupNearer == ASSUME DirectInv, NEW p \in Procs, Lookup(p) PROVE Nearer(p)
<1>1. PICK ip \in Addresses \cup {None} :
        proc' = [q \in Procs |->
          IF q = p \/ Receives(q, ip) THEN Resolved(proc[q], ip) ELSE proc[q]]
  BY DEF Lookup
<1>2. \A q \in Procs : proc[q] \in Proc
  BY DEF DirectInv, TypeOK
<1>3. proc[p].pc = "lookup"
  BY DEF Lookup
<1>4. ASSUME NEW q \in Procs, q = p \/ Receives(q, ip)
      PROVE  StepsLeft(proc'[q]) < StepsLeft(proc[q])
  <2>1. proc'[q] = Resolved(proc[q], ip)
    BY <1>1, <1>4
  <2>2. proc[q].pc \in {"lookup", "wait"}
    BY <1>3, <1>4 DEF Receives
  <2> QED BY <1>2, <2>1, <2>2, ResolvedNearer
<1>5. ASSUME NEW q \in Procs, ~(q = p \/ Receives(q, ip))
      PROVE  StepsLeft(proc'[q]) = StepsLeft(proc[q])
  <2>1. proc'[q] = proc[q]
    BY <1>1, <1>5
  <2>2. proc'[q].attempt = proc[q].attempt /\ proc'[q].pc = proc[q].pc
    BY <1>2, <2>1 DEF Proc
  <2> QED BY <2>2, AsFar
<1>6. \A q \in Procs : StepsLeft(proc[q]) \in Int
  BY <1>2, StepsLeftFacts
<1>7. ASSUME NEW q \in Procs PROVE StepsLeft(proc'[q]) <= StepsLeft(proc[q])
  <2>1. CASE q = p \/ Receives(q, ip)
    <3>1. proc'[q] \in Proc
      BY <1>1, <1>2, <2>1, ResolvedFacts, LookupOK DEF DirectInv, TypeOK
    <3>2. StepsLeft(proc'[q]) \in Int
      BY <3>1, StepsLeftFacts
    <3> QED BY <1>4, <1>6, <2>1, <3>2
  <2> QED BY <1>5, <1>6, <2>1
<1> QED BY <1>4, <1>7 DEF Nearer

LEMMA StepNearer == ASSUME DirectInv, NEW p \in Procs, Step(p) PROVE Nearer(p)
<1>1. /\ proc \in [Procs -> Proc] /\ proc[p] \in Proc
      /\ snapshot \in (SUBSET Addresses) \cup {None} /\ cached \in Addresses \cup {None}
  BY DEF DirectInv, TypeOK
<1>2. ASSUME NEW s \in Proc, proc' = [proc EXCEPT ![p] = s], proc[p].pc # "idle",
             s.attempt = proc[p].attempt, Stages[s.pc] < Stages[proc[p].pc]
      PROVE  Nearer(p)
  BY <1>1, <1>2, FurtherOn, OnlyItself DEF Nearer
<1>3. CASE Resolve(p)
  <2>1. proc[p].pc = "resolve"
    BY <1>3 DEF Resolve
  <2>2. CASE proc' = [proc EXCEPT ![p].pc = "guard", ![p].ip = cached] /\ cached # None
    <3> DEFINE s == [proc[p] EXCEPT !.pc = "guard", !.ip = cached]
    <3>1. s \in Proc /\ s.attempt = proc[p].attempt /\ s.pc = "guard"
      BY <1>1 DEF Proc
    <3>2. proc' = [proc EXCEPT ![p] = s]
      BY <1>1, <2>2
    <3> HIDE DEF s
    <3>3. Stages[s.pc] < Stages[proc[p].pc] /\ proc[p].pc # "idle"
      BY <2>1, <3>1, StagesFacts
    <3> QED BY <1>2, <3>1, <3>2, <3>3
  <2>3. ASSUME NEW pc \in {"wait", "lookup"}, proc' = [proc EXCEPT ![p].pc = pc]
        PROVE  Nearer(p)
    <3> DEFINE s == [proc[p] EXCEPT !.pc = pc]
    <3>1. s \in Proc /\ s.attempt = proc[p].attempt /\ s.pc = pc
      BY <1>1 DEF Proc
    <3>2. proc' = [proc EXCEPT ![p] = s]
      BY <1>1, <2>3
    <3> HIDE DEF s
    <3>3. Stages[s.pc] < Stages[proc[p].pc] /\ proc[p].pc # "idle"
      BY <2>1, <3>1, StagesFacts
    <3> QED BY <1>2, <3>1, <3>2, <3>3
  <2> QED BY <1>3, <2>2, <2>3 DEF Resolve
<1>4. ASSUME NEW pc \in {"refused", "kernel", "note", "dial", "connected"},
             NEW u \in BOOLEAN, proc[p].pc \in {"guard", "kernel", "note", "dial"},
             Stages[pc] < Stages[proc[p].pc],
             proc' = [proc EXCEPT ![p] = [proc[p] EXCEPT !.pc = pc, !.unsure = u]]
      PROVE  Nearer(p)
  <2> DEFINE s == [proc[p] EXCEPT !.pc = pc, !.unsure = u]
  <2>1. s \in Proc /\ s.attempt = proc[p].attempt /\ s.pc = pc
    BY <1>1 DEF Proc
  <2>2. proc' = [proc EXCEPT ![p] = s]
    BY <1>4
  <2> HIDE DEF s
  <2> QED BY <1>2, <1>4, <2>1, <2>2
<1>5. ASSUME NEW pc, proc' = [proc EXCEPT ![p].pc = pc]
      PROVE  /\ proc[p].unsure \in BOOLEAN
             /\ proc' = [proc EXCEPT ![p] = [proc[p] EXCEPT !.pc = pc, !.unsure = proc[p].unsure]]
  BY <1>1, <1>5 DEF Proc
<1>6. CASE Guard(p)
  <2>1. proc[p].pc = "guard"
    BY <1>6 DEF Guard
  <2>2. PICK pc \in {"refused", "kernel"} : proc' = [proc EXCEPT ![p].pc = pc]
    BY <1>6 DEF Guard
  <2>3. Stages[pc] < Stages[proc[p].pc]
    BY <2>1, <2>2, StagesFacts
  <2> QED BY <1>4, <1>5, <2>1, <2>2, <2>3
<1>7. CASE Kernel(p)
  <2>1. proc[p].pc = "kernel"
    BY <1>7 DEF Kernel
  <2>2. PICK pc \in {"note", "dial"}, u \in BOOLEAN :
          proc' = [proc EXCEPT ![p].pc = pc, ![p].unsure = u]
    BY <1>7 DEF Kernel
  <2>3. proc' = [proc EXCEPT ![p] = [proc[p] EXCEPT !.pc = pc, !.unsure = u]]
    BY <1>1, <2>2
  <2>4. Stages[pc] < Stages[proc[p].pc]
    BY <2>1, <2>2, StagesFacts
  <2> QED BY <1>4, <2>1, <2>2, <2>3, <2>4
<1>8. CASE Note(p)
  <2>1. proc[p].pc = "note" /\ proc' = [proc EXCEPT ![p].pc = "refused"]
    BY <1>8 DEF Note
  <2>2. Stages["refused"] < Stages[proc[p].pc]
    BY <2>1, StagesFacts
  <2> QED BY <1>4, <1>5, <2>1, <2>2
<1>9. CASE Dial(p)
  <2>1. proc[p].pc = "dial"
    BY <1>9 DEF Dial
  <2>2. CASE proc' = [proc EXCEPT ![p].pc = "connected"]
    <3>1. Stages["connected"] < Stages[proc[p].pc]
      BY <2>1, StagesFacts
    <3> QED BY <1>4, <1>5, <2>1, <2>2, <3>1
  <2>3. CASE proc' = [proc EXCEPT ![p] = NextAttempt(proc[p])]
    <3>1. proc[p].ip \in Addresses \cup {None} /\ proc[p].pc \notin Over
      BY <1>1, <2>1 DEF Proc, Over
    <3>2. NextAttempt(proc[p]) \in Proc
      BY <1>1, <3>1, NextAttemptFacts
    <3>3. StepsLeft(NextAttempt(proc[p])) < StepsLeft(proc[p])
      BY <1>1, <3>1, NextAttemptNearer
    <3> QED BY <1>1, <2>3, <3>2, <3>3, OnlyItself DEF Nearer
  <2> QED BY <1>9, <2>2, <2>3 DEF Dial
<1>10. CASE Return(p)
  <2>1. proc[p].pc \in {"refused", "connected", "failed"} /\ proc' = [proc EXCEPT ![p] = Idle]
    BY <1>10 DEF Return
  <2>2. Idle \in Proc /\ Idle.pc = "idle"
    BY DirectAssumption DEF Idle, Proc
  <2>3. StepsLeft(Idle) = 0 /\ StepsLeft(proc[p]) = 1
    BY <1>1, <2>1, <2>2, StepsLeftFacts
  <2>4. StepsLeft(Idle) < StepsLeft(proc[p])
    BY <2>3
  <2> QED BY <1>1, <2>1, <2>2, <2>4, OnlyItself DEF Nearer
<1> QED BY <1>3, <1>6, <1>7, <1>8, <1>9, <1>10, LookupNearer DEF Step

\* A connection that was begun never gets further from its end: at most
\* 8 * MaxRetries steps are left to it, each step of its own takes one of them, and
\* nothing the others, the clocks or the provider do gives one back.
Ongoing(p) ==
  proc[p].pc # "idle" =>
    /\ StepsLeft(proc[p]) \in 1..(8 * MaxRetries)
    /\ StepsLeft(proc'[p]) <= StepsLeft(proc[p])
    /\ Step(p) => StepsLeft(proc'[p]) < StepsLeft(proc[p])

\* The part of ConnectReturns that needs no fairness: whoever the scheduler lets
\* take steps comes to the end, for any number of connections and retries.
THEOREM ConnectRunsDown == Spec => [][\A p \in Procs : Ongoing(p)]_vars
<1>1. ASSUME DirectInv, Next PROVE \A p \in Procs : Ongoing(p)
  <2>1. SUFFICES ASSUME NEW p \in Procs, proc[p].pc # "idle"
                 PROVE  /\ StepsLeft(proc[p]) \in 1..(8 * MaxRetries)
                        /\ StepsLeft(proc'[p]) <= StepsLeft(proc[p])
                        /\ Step(p) => StepsLeft(proc'[p]) < StepsLeft(proc[p])
    BY DEF Ongoing
  <2>2. \A q \in Procs : proc[q] \in Proc
    BY <1>1 DEF DirectInv, TypeOK
  <2>3. StepsLeft(proc[p]) \in 1..(8 * MaxRetries)
    BY <2>1, <2>2, NotOver
  <2>4. ASSUME proc'[p].attempt = proc[p].attempt, proc'[p].pc = proc[p].pc
        PROVE  StepsLeft(proc'[p]) = StepsLeft(proc[p])
    BY <2>4, AsFar
  <2>5. ASSUME proc'[p] = proc[p] PROVE StepsLeft(proc'[p]) <= StepsLeft(proc[p])
    BY <2>3, <2>5
  <2>6. Step(p) => StepsLeft(proc'[p]) < StepsLeft(proc[p])
    BY <1>1, StepNearer DEF Nearer
  <2>7. ASSUME NEW q \in Procs, Step(q) PROVE StepsLeft(proc'[p]) <= StepsLeft(proc[p])
    BY <1>1, <2>7, StepNearer DEF Nearer
  <2>8. ASSUME NEW q \in Procs, Begin(q) PROVE proc'[p] = proc[p]
    BY <1>1, <2>1, <2>8 DEF Begin, DirectInv, TypeOK
  <2>9. ASSUME Readdress PROVE StepsLeft(proc'[p]) <= StepsLeft(proc[p])
    <3>1. proc'[p] = [proc[p] EXCEPT !.unsure = TRUE]
      BY <2>9 DEF Readdress
    <3>2. proc'[p].attempt = proc[p].attempt /\ proc'[p].pc = proc[p].pc
      BY <2>2, <3>1 DEF Proc
    <3> QED BY <2>3, <2>4, <3>2
  <2>10. Expire \/ Age => proc'[p] = proc[p]
    BY DEF Expire, Age
  <2>11. StepsLeft(proc'[p]) <= StepsLeft(proc[p])
    BY <1>1, <2>5, <2>7, <2>8, <2>9, <2>10 DEF Next
  <2> QED BY <2>3, <2>6, <2>11
<1>2. DirectInv /\ [Next]_vars => [\A p \in Procs : Ongoing(p)]_vars
  BY <1>1
<1> QED BY <1>2, DirectInvariant, PTL DEF Spec
=============================================================================
