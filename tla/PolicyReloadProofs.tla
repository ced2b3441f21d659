------------------------- MODULE PolicyReloadProofs -------------------------
(***************************************************************************)
(* Whose answers the cache holds after any sequence of edits, reloads,     *)
(* saves, crashes and restarts, for any number of versions, keys and any   *)
(* bounds.                                                                 *)
(*                                                                         *)
(* The ways an answer of other rules gets in are those that                *)
(* OldAnswersAccountedFor names, and there is no further one: a query that *)
(* holds an epoch notices every change, and what is saved under the        *)
(* fingerprint was looked up under the file it was taken of, unless the    *)
(* panel's policy was in force or the file was replaced under the          *)
(* resolver.                                                               *)
(***************************************************************************)
EXTENDS PolicyReload, TLAPS

\* Which policy is in force, by how far smartdns has come.
InForce ==
  /\ pc # "up" => entries = {} /\ \A k \in Keys : query[k] = Nowhere
  /\ pc = "loaded" /\ rewrites = 0 => running = runtime
  /\ pc = "up" /\ rewrites = 0 => fingerprint = runtime /\ running \in {runtime} \cup Panel

\* The saving goroutine is one of a smartdns that is up.
SaverUp == saver # "idle" => pc = "up"

\* A query whose rules are gone has missed the change, or will find its epoch gone.
Noticed(q) ==
  q.pc # "none" =>
    /\ q.under \in Versions \cup Panel
    /\ q.under = running \/ q.missed \/ (q.pc = "asked" /\ q.overtaken)

AllNoticed == \A k \in Keys : Noticed(query[k])

Clean(s) ==
  s # None => \A e \in s.records : e.under = s.fp \/ e.under \in Panel \/ e.late \/ rewrites > 0

\* A snapshot holds answers of the policy it is named after, or accounted for.
SnapshotsClean == Clean(temp) /\ Clean(snap)

ReloadInv ==
  /\ TypeOK /\ InForce /\ SaverUp /\ AllNoticed /\ SnapshotsClean
  /\ OldAnswersAccountedFor /\ LifeNotProlonged

-----------------------------------------------------------------------------
(* Queries, answers and snapshots.                                          *)

LEMMA NowhereFacts == Nowhere \in Query /\ Nowhere.pc = "none"
BY DEF Nowhere, Query

\* What a change of rules makes of a query.
LEMMA OvertakenFacts ==
  ASSUME NEW q \in Query
  PROVE  /\ Overtaken(q) \in Query /\ Overtaken(q).pc = q.pc /\ Overtaken(q).under = q.under
         /\ q.pc = "asked" => Overtaken(q).overtaken
         /\ q.pc \in {"routed", "vouched"} => Overtaken(q).missed
<1>1. q.pc \in {"none", "asked", "routed", "vouched"}
  BY DEF Query
<1>2. CASE q.pc = "none"
  BY <1>2 DEF Overtaken
<1>3. CASE q.pc = "asked"
  BY <1>3 DEF Overtaken, Query
<1>4. CASE q.pc \in {"routed", "vouched"}
  <2>1. Overtaken(q) = [q EXCEPT !.missed = TRUE]
    BY <1>4 DEF Overtaken
  <2> QED BY <1>4, <2>1 DEF Query
<1> QED BY <1>1, <1>2, <1>3, <1>4

\* A vouched answer, stored now.
LEMMA NewFacts ==
  ASSUME ReloadInv, NEW k \in Keys, query[k].pc = "vouched"
  PROVE  /\ New(k) \in Answers
         /\ New(k).under = running \/ New(k).late
         /\ New(k).expires = New(k).born + TTL
<1>1. query[k] \in Query /\ now \in 0..MaxTime
  BY DEF ReloadInv, TypeOK
<1>2. query[k].under \in Versions \cup Panel /\ (query[k].under = running \/ query[k].missed)
  BY DEF ReloadInv, AllNoticed, Noticed
<1>3. query[k].missed \in BOOLEAN /\ now + TTL \in 0..(MaxTime + TTL)
  BY <1>1, ReloadAssumption DEF Query
<1> QED BY <1>1, <1>2, <1>3 DEF New, Answers

\* A record put back keeps the policy it was looked up under.
LEMMA PutAsOfFacts ==
  ASSUME NEW e \in Answers
  PROVE  /\ PutAsOf(e) \in Answers
         /\ PutAsOf(e).under = e.under /\ PutAsOf(e).late = e.late /\ PutAsOf(e).restored
         /\ PutAsOf(e).expires = PutAsOf(e).born + TTL
<1>1. e.born + TTL \in 0..(MaxTime + TTL)
  BY ReloadAssumption DEF Answers
<1>2. PutAsOf(e) = [e EXCEPT !.expires = e.born + TTL, !.restored = TRUE]
  BY DEF PutAsOf
<1> DEFINE x == e.born + TTL
<1>3. PutAsOf(e) = [e EXCEPT !.expires = x, !.restored = TRUE] /\ x \in 0..(MaxTime + TTL)
  BY <1>1, <1>2
<1> HIDE DEF x
<1>4. /\ PutAsOf(e) \in Answers
      /\ PutAsOf(e).under = e.under /\ PutAsOf(e).late = e.late /\ PutAsOf(e).restored
      /\ PutAsOf(e).expires = x /\ PutAsOf(e).born = e.born
  BY <1>3 DEF Answers
<1> QED BY <1>4 DEF x

LEMMA SnapshotFacts ==
  ASSUME TypeOK, snap # None
  PROVE  snap \in Snapshot /\ snap.fp \in Versions /\ snap.records \subseteq Answers
BY DEF TypeOK, Snapshot

-----------------------------------------------------------------------------
(* Init and every step.                                                     *)

LEMMA InitOK == Init => ReloadInv
<1> SUFFICES ASSUME Init PROVE ReloadInv
  OBVIOUS
<1>1. query = [k \in Keys |-> Nowhere] /\ \A k \in Keys : query[k] = Nowhere
  BY DEF Init
<1>2. query \in [Keys -> Query] /\ AllNoticed
  BY <1>1, NowhereFacts DEF AllNoticed, Noticed
<1>3. TypeOK
  BY <1>2, ReloadAssumption DEF Init, TypeOK
<1> QED BY <1>1, <1>2, <1>3
        DEF Init, ReloadInv, InForce, SaverUp, SnapshotsClean, Clean, OldAnswersAccountedFor,
            LifeNotProlonged

LEMMA StartOK == ASSUME ReloadInv, Start PROVE ReloadInv'
<1>1. TypeOK'
  BY ReloadAssumption DEF ReloadInv, Start, TypeOK, Loadable
<1>2. AllNoticed'
  BY NowhereFacts DEF ReloadInv, InForce, Start, AllNoticed, Noticed
<1> QED BY <1>1, <1>2 DEF ReloadInv, Start, InForce, SaverUp, SnapshotsClean, Clean,
                         OldAnswersAccountedFor, LifeNotProlonged

\* Only a snapshot saved under the file in force is read back, unless the file
\* was replaced between the two reads.
LEMMA RestoreOK == ASSUME ReloadInv, Restore PROVE ReloadInv'
<1>0. rewrites \in Nat
  BY DEF ReloadInv, TypeOK
<1>1. ASSUME NEW e \in entries'
      PROVE  /\ e \in Answers /\ e.expires = e.born + TTL
             /\ e.under = running \/ e.late \/ (e.restored /\ (e.under \in Panel \/ rewrites > 0))
  <2>1. Restorable(snap, runtime)
    BY <1>1 DEF Restore
  <2>2. PICK r \in snap.records : e = PutAsOf(r)
    BY <1>1, <2>1 DEF Restore
  <2>3. snap # None /\ snap.fp = runtime /\ (rewrites = 0 => running = runtime)
    BY <2>1 DEF Restorable, ReloadInv, InForce, Restore
  <2>4. r \in Answers /\ (r.under = runtime \/ r.under \in Panel \/ r.late \/ rewrites > 0)
    BY <2>2, <2>3, SnapshotFacts DEF ReloadInv, SnapshotsClean, Clean
  <2> QED BY <1>0, <2>2, <2>3, <2>4, PutAsOfFacts
<1>2. UNCHANGED <<durable, runtime, running, query, saver, temp, snap, now, edits, rewrites>>
      /\ pc' = "up" /\ fingerprint' = runtime /\ (rewrites = 0 => running = runtime)
  BY DEF Restore, ReloadInv, InForce
<1>3. TypeOK'
  BY <1>1, <1>2 DEF ReloadInv, TypeOK
<1>4. InForce' /\ SaverUp' /\ AllNoticed' /\ SnapshotsClean'
  BY <1>2 DEF ReloadInv, InForce, SaverUp, AllNoticed, Noticed, SnapshotsClean, Clean
<1>5. OldAnswersAccountedFor' /\ LifeNotProlonged'
  BY <1>1, <1>2 DEF OldAnswersAccountedFor, LifeNotProlonged
<1> QED BY <1>3, <1>4, <1>5 DEF ReloadInv

\* A step of the query of k that leaves it a query that notices changes, while it
\* stores nothing or an answer that may be there.
LEMMA GoesOK ==
  ASSUME ReloadInv, NEW k \in Keys, NEW to \in Query, Goes(k, to), pc = "up", Noticed(to),
         \A e \in entries' : e \in entries \/ (e \in Answers /\ (e.under = running \/ e.late)
                                                  /\ e.expires = e.born + TTL)
  PROVE  ReloadInv'
<1>1. query' = [query EXCEPT ![k] = to]
      /\ UNCHANGED <<durable, runtime, pc, running, fingerprint, saver, temp, snap, now, edits,
                     rewrites>>
  BY DEF Goes
<1>2. query \in [Keys -> Query]
  BY DEF ReloadInv, TypeOK
<1>3. query' \in [Keys -> Query] /\ \A j \in Keys : query'[j] = IF j = k THEN to ELSE query[j]
  BY <1>1, <1>2
<1>4. TypeOK'
  BY <1>1, <1>3 DEF ReloadInv, TypeOK
<1>5. AllNoticed'
  BY <1>1, <1>3 DEF ReloadInv, AllNoticed, Noticed
<1>6. InForce' /\ SaverUp' /\ SnapshotsClean'
  BY <1>1 DEF ReloadInv, InForce, SaverUp, SnapshotsClean, Clean
<1>7. OldAnswersAccountedFor' /\ LifeNotProlonged'
  BY <1>1 DEF ReloadInv, OldAnswersAccountedFor, LifeNotProlonged
<1> QED BY <1>4, <1>5, <1>6, <1>7 DEF ReloadInv

LEMMA QueryUp ==
  ASSUME ReloadInv, NEW k \in Keys, query[k].pc # "none"
  PROVE  pc = "up" /\ query[k] \in Query /\ Noticed(query[k])
BY NowhereFacts DEF ReloadInv, InForce, TypeOK, AllNoticed

LEMMA RouteOK == ASSUME ReloadInv, NEW k \in Keys, Route(k) PROVE ReloadInv'
<1>1. Routed \in Query /\ Noticed(Routed)
  BY DEF ReloadInv, TypeOK, Routed, Query, Noticed
<1> QED BY <1>1, GoesOK DEF Route

LEMMA AskOK == ASSUME ReloadInv, NEW k \in Keys, Ask(k) PROVE ReloadInv'
<1> DEFINE to == [query[k] EXCEPT !.pc = "asked"]
<1>1. pc = "up" /\ query[k] \in Query /\ Noticed(query[k]) /\ query[k].pc = "routed"
  BY QueryUp DEF Ask
<1>2. to \in Query /\ Noticed(to)
  BY <1>1 DEF Query, Noticed
<1>3. Goes(k, to) /\ UNCHANGED entries
  BY DEF Ask
<1> HIDE DEF to
<1> QED BY <1>1, <1>2, <1>3, GoesOK

\* A query whose epoch is still the one it noted has the rules in force, or missed
\* their change before.
LEMMA CheckOK == ASSUME ReloadInv, NEW k \in Keys, Check(k) PROVE ReloadInv'
<1>1. pc = "up" /\ query[k] \in Query /\ Noticed(query[k]) /\ query[k].pc = "asked"
      /\ UNCHANGED entries
  BY QueryUp DEF Check
<1>2. CASE ~query[k].overtaken /\ Goes(k, [query[k] EXCEPT !.pc = "vouched"])
  <2> DEFINE to == [query[k] EXCEPT !.pc = "vouched"]
  <2>1. to \in Query /\ Noticed(to)
    BY <1>1, <1>2 DEF Query, Noticed
  <2>2. Goes(k, to)
    BY <1>2
  <2> HIDE DEF to
  <2> QED BY <1>1, <2>1, <2>2, GoesOK
<1>3. CASE Goes(k, Nowhere)
  <2>1. Noticed(Nowhere)
    BY NowhereFacts DEF Noticed
  <2> QED BY <1>1, <1>3, <2>1, NowhereFacts, GoesOK
<1> QED BY <1>2, <1>3 DEF Check

LEMMA PutOK == ASSUME ReloadInv, NEW k \in Keys, Put(k) PROVE ReloadInv'
<1>1. pc = "up" /\ query[k].pc = "vouched" /\ Goes(k, Nowhere)
      /\ entries' = {e \in entries : e.key # k} \cup {New(k)}
  BY QueryUp DEF Put
<1>2. Noticed(Nowhere)
  BY NowhereFacts DEF Noticed
<1>3. \A e \in entries' : e \in entries \/ e = New(k)
  BY <1>1
<1> QED BY <1>1, <1>2, <1>3, NewFacts, NowhereFacts, GoesOK

\* SIGHUP and the panel clear the cache when they change the rules, and every
\* query on its way meets the new epoch.
LEMMA ReplaceOK ==
  ASSUME ReloadInv, NEW v \in (Versions \ {Broken}) \cup Panel, Replace(v), pc = "up",
         rewrites = 0 => v \in {runtime} \cup Panel,
         UNCHANGED <<durable, runtime, pc, fingerprint, saver, temp, snap, now, edits, rewrites>>
  PROVE  ReloadInv'
<1>1. running' = v /\ entries' = {}
      /\ query' = [k \in Keys |-> Overtaken(query[k])]
  BY DEF Replace
<1>2. query \in [Keys -> Query] /\ AllNoticed
  BY DEF ReloadInv, TypeOK
<1>3. query' \in [Keys -> Query]
  BY <1>1, <1>2, OvertakenFacts
<1>4. TypeOK'
  BY <1>1, <1>3 DEF ReloadInv, TypeOK
<1>5. AllNoticed'
  <2> SUFFICES ASSUME NEW k \in Keys, query'[k].pc # "none"
               PROVE  /\ query'[k].under \in Versions \cup Panel
                      /\ \/ query'[k].under = running' \/ query'[k].missed
                         \/ query'[k].pc = "asked" /\ query'[k].overtaken
    BY DEF AllNoticed, Noticed
  <2>1. query'[k] = Overtaken(query[k]) /\ query[k] \in Query
    BY <1>1, <1>2
  <2>2. query[k].pc \in {"none", "routed", "asked", "vouched"}
    BY <2>1 DEF Query
  <2>3. query'[k].pc = query[k].pc /\ query'[k].under = query[k].under
    BY <2>1, OvertakenFacts
  <2>4. query'[k].under \in Versions \cup Panel
    BY <1>2, <2>3 DEF AllNoticed, Noticed
  <2>5. query'[k].missed \/ (query'[k].pc = "asked" /\ query'[k].overtaken)
    BY <2>1, <2>2, <2>3, OvertakenFacts
  <2> QED BY <2>4, <2>5
<1>6. InForce' /\ SaverUp' /\ SnapshotsClean'
  BY <1>1 DEF ReloadInv, InForce, SaverUp, SnapshotsClean, Clean
<1>7. OldAnswersAccountedFor' /\ LifeNotProlonged'
  BY <1>1 DEF OldAnswersAccountedFor, LifeNotProlonged
<1> QED BY <1>4, <1>5, <1>6, <1>7 DEF ReloadInv

LEMMA ReloadOK == ASSUME ReloadInv, Reload PROVE ReloadInv'
<1>1. CASE Loadable(runtime)
  <2>1. Replace(runtime) /\ runtime \in Versions \ {Broken}
    BY <1>1 DEF Reload, Loadable, ReloadInv, TypeOK
  <2> QED BY <2>1, ReplaceOK DEF Reload
<1>2. CASE ~Loadable(runtime)
  BY <1>2 DEF Reload, ReloadInv, TypeOK, InForce, SaverUp, AllNoticed, Noticed, SnapshotsClean,
              Clean, OldAnswersAccountedFor, LifeNotProlonged
<1> QED BY <1>1, <1>2

LEMMA SyncOK == ASSUME ReloadInv, Sync PROVE ReloadInv'
<1>1. PICK v \in Panel : Replace(v)
  BY DEF Sync
<1> QED BY <1>1, ReplaceOK DEF Sync

LEMMA TickOK == ASSUME ReloadInv, Tick PROVE ReloadInv'
BY DEF ReloadInv, Tick, TypeOK, InForce, SaverUp, AllNoticed, Noticed, SnapshotsClean, Clean,
       OldAnswersAccountedFor, LifeNotProlonged

\* What is saved is of the file in force, or accounted for.
LEMMA SaveOK == ASSUME ReloadInv, Save PROVE ReloadInv'
<1> DEFINE R == {e \in entries : now < e.expires}
<1>1. temp' = [fp |-> fingerprint, records |-> R] /\ saver' = "written"
      /\ UNCHANGED <<durable, runtime, pc, running, fingerprint, entries, query, snap, now, edits,
                     rewrites>>
  BY DEF Save
<1>2. pc = "up" /\ rewrites \in Nat
  BY DEF Save, ReloadInv, SaverUp, TypeOK
<1>3. R \subseteq Answers
      /\ \A e \in R : e.under = fingerprint \/ e.under \in Panel \/ e.late \/ rewrites > 0
  BY <1>2 DEF ReloadInv, TypeOK, OldAnswersAccountedFor, InForce
<1> HIDE DEF R
<1>4. temp' \in Snapshot
  BY <1>1, <1>3 DEF ReloadInv, TypeOK, Snapshot
<1>5. TypeOK'
  BY <1>1, <1>4 DEF ReloadInv, TypeOK
<1>6. SnapshotsClean'
  BY <1>1, <1>3 DEF ReloadInv, SnapshotsClean, Clean
<1>7. InForce' /\ SaverUp' /\ AllNoticed'
  BY <1>1, <1>2 DEF ReloadInv, InForce, SaverUp, AllNoticed, Noticed
<1>8. OldAnswersAccountedFor' /\ LifeNotProlonged'
  BY <1>1 DEF ReloadInv, OldAnswersAccountedFor, LifeNotProlonged
<1> QED BY <1>5, <1>6, <1>7, <1>8 DEF ReloadInv

LEMMA RenameOK == ASSUME ReloadInv, Rename PROVE ReloadInv'
BY DEF ReloadInv, Rename, TypeOK, InForce, SaverUp, AllNoticed, Noticed, SnapshotsClean, Clean,
       OldAnswersAccountedFor, LifeNotProlonged

LEMMA CrashOK == ASSUME ReloadInv, Crash PROVE ReloadInv'
<1>1. query' = [k \in Keys |-> Nowhere] /\ \A k \in Keys : query'[k] = Nowhere
  BY DEF Crash
<1>2. query' \in [Keys -> Query] /\ AllNoticed'
  BY <1>1, NowhereFacts DEF AllNoticed, Noticed
<1>3. TypeOK'
  BY <1>2 DEF ReloadInv, Crash, TypeOK
<1> QED BY <1>1, <1>2, <1>3
        DEF ReloadInv, Crash, InForce, SaverUp, SnapshotsClean, Clean, OldAnswersAccountedFor,
            LifeNotProlonged

\* The durable file is nobody's until the next start.
LEMMA EditOK == ASSUME ReloadInv, NEW v \in Versions, Edit(v) PROVE ReloadInv'
BY ReloadAssumption
   DEF ReloadInv, Edit, process, TypeOK, InForce, SaverUp, AllNoticed, Noticed, SnapshotsClean,
       Clean, OldAnswersAccountedFor, LifeNotProlonged

\* From then on what is saved and restored may be of another file.
LEMMA RewriteOK == ASSUME ReloadInv, NEW v \in Versions, Rewrite(v) PROVE ReloadInv'
<1>1. rewrites \in Nat /\ rewrites' > 0 /\ rewrites' \in 0..MaxRewrites /\ rewrites' # 0
  BY ReloadAssumption DEF ReloadInv, TypeOK, Rewrite
<1>2. UNCHANGED <<durable, pc, running, fingerprint, entries, query, saver, temp, snap, now, edits>>
      /\ runtime' = v
  BY DEF Rewrite, process
<1>3. TypeOK'
  BY <1>1, <1>2 DEF ReloadInv, TypeOK
<1>4. InForce' /\ SaverUp' /\ AllNoticed'
  BY <1>1, <1>2 DEF ReloadInv, InForce, SaverUp, AllNoticed, Noticed
<1>5. SnapshotsClean'
  BY <1>1, <1>2 DEF ReloadInv, SnapshotsClean, Clean
<1>6. OldAnswersAccountedFor' /\ LifeNotProlonged'
  BY <1>1, <1>2 DEF ReloadInv, OldAnswersAccountedFor, LifeNotProlonged
<1> QED BY <1>3, <1>4, <1>5, <1>6 DEF ReloadInv

LEMMA PassOK == ASSUME ReloadInv, Pass PROVE ReloadInv'
BY ReloadAssumption
   DEF ReloadInv, Pass, process, TypeOK, InForce, SaverUp, AllNoticed, Noticed, SnapshotsClean,
       Clean, OldAnswersAccountedFor, LifeNotProlonged

LEMMA StutterOK == ASSUME ReloadInv, UNCHANGED vars PROVE ReloadInv'
BY DEF ReloadInv, vars, process, TypeOK, InForce, SaverUp, AllNoticed, Noticed, SnapshotsClean,
       Clean, OldAnswersAccountedFor, LifeNotProlonged

-----------------------------------------------------------------------------
(* The theorems.                                                            *)

\* The inductive invariant of reloading and of the snapshot.
THEOREM ReloadInvariant == Spec => []ReloadInv
<1>1. ASSUME ReloadInv, [Next]_vars PROVE ReloadInv'
  BY <1>1, StartOK, RestoreOK, ReloadOK, SyncOK, TickOK, SaveOK, RenameOK, CrashOK, PassOK,
     RouteOK, AskOK, CheckOK, PutOK, EditOK, RewriteOK, StutterOK DEF Next
<1> QED BY <1>1, InitOK, PTL DEF Spec

\* The state of reloading stays well typed.
THEOREM ReloadTypes == Spec => []TypeOK
<1>1. ReloadInv => TypeOK
  BY DEF ReloadInv
<1> QED BY <1>1, ReloadInvariant, PTL

\* However the files are edited and replaced, the rules reloaded and the resolver
\* stopped and started, an answer of other rules than those in force is in the cache
\* for one of the three named reasons (the epoch of fetchFresh, the clear of
\* reloadPolicy and applyRuntime, the fingerprint of loadSnapshot).
THEOREM OldAnswersHaveAReason == Spec => []OldAnswersAccountedFor
<1>1. ReloadInv => OldAnswersAccountedFor
  BY DEF ReloadInv
<1> QED BY <1>1, ReloadInvariant, PTL

\* However often an answer goes through the snapshot, it expires when it would
\* have without it (put, given the time the record was stored).
THEOREM NoLongerLife == Spec => []LifeNotProlonged
<1>1. ReloadInv => LifeNotProlonged
  BY DEF ReloadInv
<1> QED BY <1>1, ReloadInvariant, PTL
=============================================================================
