---------------------------- MODULE PolicyReload ----------------------------
(***************************************************************************)
(* From the policy file to the answers in the cache: what run.sh projects  *)
(* at each start, what smartdns loads at start and on SIGHUP, and the      *)
(* snapshot that carries the cache over a restart.                         *)
(*                                                                         *)
(* A version is the content of a config file.  An answer remembers the     *)
(* version its query was routed under and when it was stored.  The         *)
(* goroutine that saves the snapshot, the one that waits for SIGHUP and    *)
(* the queries interleave, and the file smartdns was given may be replaced *)
(* under it; everything may crash between any two steps.                   *)
(***************************************************************************)
EXTENDS Integers, FiniteSets

CONSTANTS
  Versions,     \* contents of a config file
  Broken,       \* the one loadConfig rejects
  Panel,        \* policies that come with the answers of the panel
  Keys,         \* of the cache: a question with its route
  TTL,          \* of every answer
  MaxTime,      \* a bound on the clock
  MaxEdits,     \* a bound on the edits of the durable file
  MaxRewrites,  \* and of the runtime file
  None          \* no snapshot, no policy

ASSUME ReloadAssumption ==
  /\ None \notin Versions \cup Panel
  /\ Broken \in Versions /\ Panel \cap Versions = {}
  /\ TTL \in Nat \ {0} /\ MaxTime \in Nat
  /\ MaxEdits \in Nat /\ MaxRewrites \in Nat

VARIABLES
  durable,      \* /data/config.json
  runtime,      \* /data/runtime-config.json, the file smartdns is given
  pc,           \* smartdns: "down", "loaded" or "up"
  running,      \* the version of the rules in force
  fingerprint,  \* the version main took the fingerprint of
  entries,      \* the answers in the cache
  query,        \* the query that looks up each key, through resolve and fetchFresh
  saver,        \* the saving goroutine: "idle", "matched" or "written"
  temp,         \* the temporary file of saveSnapshot
  snap,         \* /data/smartdns-cache-v1.json
  now, edits, rewrites

process == <<pc, running, fingerprint, entries, query, saver, temp>>

vars == <<durable, runtime, process, snap, now, edits, rewrites>>

\* late: the rules changed while its query did not hold an epoch.
\* restored: it came out of a snapshot.
Answers == [key : Keys, under : Versions \cup Panel, born : 0..MaxTime,
            expires : 0..(MaxTime + TTL), late : BOOLEAN, restored : BOOLEAN]

\* overtaken: the epoch is no longer the one the flight noted.
\* missed: the rules changed before the flight noted it or after it compared it.
Query == [pc : {"none", "routed", "asked", "vouched"},
          under : Versions \cup Panel \cup {None}, overtaken : BOOLEAN, missed : BOOLEAN]

Routed == [pc |-> "routed", under |-> running, overtaken |-> FALSE, missed |-> FALSE]

Nowhere == [pc |-> "none", under |-> None, overtaken |-> FALSE, missed |-> FALSE]

Snapshot == [fp : Versions, records : SUBSET Answers]

\* loadConfig parses and checks it first.
Loadable(v) == v # Broken

-----------------------------------------------------------------------------
(* Start.                                                                   *)

\* run.sh projects the durable policy, and smartdns loads the projection.  A
\* config it rejects is fatal.
Start ==
  /\ pc = "down"
  /\ Loadable(durable)
  /\ runtime' = durable /\ running' = durable
  /\ pc' = "loaded"
  /\ UNCHANGED <<durable, fingerprint, entries, query, saver, temp, snap, now, edits, rewrites>>

\* A snapshot restored whatever config it was saved under.
RestorableAlways(s, v) == s # None

\* loadSnapshot refuses what has another fingerprint.
Restorable(s, v) == s # None /\ s.fp = v

\* A record put back as if it had just arrived.
PutNow(e) == [e EXCEPT !.expires = now + TTL, !.restored = TRUE]

\* put, given the time the record was stored, computes its old expiry.
PutAsOf(e) == [e EXCEPT !.expires = e.born + TTL, !.restored = TRUE]

\* The file is read a second time, for its fingerprint; then loadSnapshot.
Restore ==
  /\ pc = "loaded"
  /\ fingerprint' = runtime
  /\ entries' = IF Restorable(snap, runtime)
                THEN {PutAsOf(e) : e \in {r \in snap.records : now < r.expires /\ r.born < now}}
                ELSE {}
  /\ pc' = "up"
  /\ UNCHANGED <<durable, runtime, running, query, saver, temp, snap, now, edits, rewrites>>

-----------------------------------------------------------------------------
(* Queries.                                                                 *)

Goes(k, to) ==
  /\ query' = [query EXCEPT ![k] = to]
  /\ UNCHANGED <<durable, runtime, pc, running, fingerprint, saver, temp, snap, now, edits, rewrites>>

\* The rules are read under rt.mu, before the cache is asked.
Route(k) ==
  /\ pc = "up" /\ query[k].pc = "none"
  /\ Goes(k, Routed) /\ UNCHANGED entries

\* The flight notes the epoch of the cache and looks the answer up.
Ask(k) ==
  /\ query[k].pc = "routed"
  /\ Goes(k, [query[k] EXCEPT !.pc = "asked"]) /\ UNCHANGED entries

\* The epoch is compared, under the lock that is then given back.  A lookup that
\* failed stores nothing either.
Check(k) ==
  /\ query[k].pc = "asked"
  /\ \/ ~query[k].overtaken /\ Goes(k, [query[k] EXCEPT !.pc = "vouched"])
     \/ Goes(k, Nowhere)
  /\ UNCHANGED entries

New(k) == [key |-> k, under |-> query[k].under, born |-> now, expires |-> now + TTL,
           late |-> query[k].missed, restored |-> FALSE]

\* put takes the lock again.
Put(k) ==
  /\ query[k].pc = "vouched"
  /\ entries' = {e \in entries : e.key # k} \cup {New(k)}
  /\ Goes(k, Nowhere)

\* A new epoch, as a query on its way meets it.
Overtaken(q) ==
  CASE q.pc = "none" -> q
    [] q.pc = "asked" -> [q EXCEPT !.overtaken = TRUE]
    [] q.pc \in {"routed", "vouched"} -> [q EXCEPT !.missed = TRUE]

\* The rules are replaced and the cache is cleared, under rt.mu.
Replace(v) ==
  /\ running' = v
  /\ entries' = {}
  /\ query' = [k \in Keys |-> Overtaken(query[k])]

-----------------------------------------------------------------------------
(* Running.                                                                 *)

\* reloadPolicy on SIGHUP: a config that is rejected changes nothing.
Reload ==
  /\ pc = "up"
  /\ IF Loadable(runtime) THEN Replace(runtime) ELSE UNCHANGED <<running, entries, query>>
  /\ UNCHANGED <<durable, runtime, pc, fingerprint, saver, temp, snap, now, edits, rewrites>>

\* applyRuntime: the policy of the panel replaces the one of the file, in memory
\* only, and clears the cache if it is another.
Sync ==
  /\ pc = "up"
  /\ \E v \in Panel \ {running} : Replace(v)
  /\ UNCHANGED <<durable, runtime, pc, fingerprint, saver, temp, snap, now, edits, rewrites>>

\* The five-minute tick reads the file and goes on only if it is the one the
\* fingerprint was taken of.
Tick ==
  /\ pc = "up" /\ saver = "idle" /\ runtime = fingerprint
  /\ saver' = "matched"
  /\ UNCHANGED <<durable, runtime, pc, running, fingerprint, entries, query, temp, snap, now,
                 edits, rewrites>>

\* saveSnapshot copies the live entries under the lock and writes them to a
\* temporary file in the same directory.
Save ==
  /\ saver = "matched"
  /\ temp' = [fp |-> fingerprint, records |-> {e \in entries : now < e.expires}]
  /\ saver' = "written"
  /\ UNCHANGED <<durable, runtime, pc, running, fingerprint, entries, query, snap, now, edits,
                 rewrites>>

Rename ==
  /\ saver = "written"
  /\ snap' = temp /\ temp' = None /\ saver' = "idle"
  /\ UNCHANGED <<durable, runtime, pc, running, fingerprint, entries, query, now, edits, rewrites>>

\* Whatever stops the add-on, at any point.
Crash ==
  /\ pc # "down"
  /\ pc' = "down" /\ entries' = {} /\ saver' = "idle" /\ temp' = None
  /\ query' = [k \in Keys |-> Nowhere]
  /\ UNCHANGED <<durable, runtime, running, fingerprint, snap, now, edits, rewrites>>

-----------------------------------------------------------------------------
(* Around it.                                                               *)

\* Deployment tooling replaces the durable file, atomically.
Edit(v) ==
  /\ edits < MaxEdits /\ edits' = edits + 1
  /\ v # durable /\ durable' = v
  /\ UNCHANGED <<runtime, process, snap, now, rewrites>>

\* It replaces the file smartdns was given, which SIGHUP and the tick are there
\* for; a start would write it anew.
Rewrite(v) ==
  /\ pc # "down"
  /\ rewrites < MaxRewrites /\ rewrites' = rewrites + 1
  /\ v # runtime /\ runtime' = v
  /\ UNCHANGED <<durable, process, snap, now, edits>>

Pass ==
  /\ now < MaxTime /\ now' = now + 1
  /\ UNCHANGED <<durable, runtime, process, snap, edits, rewrites>>

Init ==
  /\ durable \in Versions \ {Broken} /\ runtime = durable
  /\ pc = "down" /\ running = durable /\ fingerprint = durable
  /\ entries = {} /\ saver = "idle" /\ temp = None /\ snap = None
  /\ query = [k \in Keys |-> Nowhere]
  /\ now = 0 /\ edits = 0 /\ rewrites = 0

Next ==
  \/ Start \/ Restore \/ Reload \/ Sync \/ Tick \/ Save \/ Rename \/ Crash \/ Pass
  \/ \E k \in Keys : Route(k) \/ Ask(k) \/ Check(k) \/ Put(k)
  \/ \E v \in Versions : Edit(v) \/ Rewrite(v)

Spec == Init /\ [][Next]_vars

-----------------------------------------------------------------------------
(* Properties.                                                              *)

TypeOK ==
  /\ durable \in Versions /\ runtime \in Versions
  /\ pc \in {"down", "loaded", "up"}
  /\ running \in (Versions \ {Broken}) \cup Panel /\ fingerprint \in Versions
  /\ entries \subseteq Answers /\ query \in [Keys -> Query]
  /\ saver \in {"idle", "matched", "written"}
  /\ {temp, snap} \subseteq Snapshot \cup {None}
  /\ now \in 0..MaxTime /\ edits \in 0..MaxEdits /\ rewrites \in 0..MaxRewrites

\* An answer of other rules than those in force comes into the cache in three ways
\* only: the rules changed while its query held no epoch; a snapshot of the panel's
\* answers was named after the file; or the file was replaced under a resolver
\* that saved or restored.  Edits of the policy, restarts and crashes bring none
\* back (transparent-smart-edge/README.md:42 says that none comes back at all).
OldAnswersAccountedFor ==
  pc = "up" => \A e \in entries :
    \/ e.under = running \/ e.late
    \/ e.restored /\ (e.under \in Panel \/ rewrites > 0)

\* A restart never prolongs the life of an answer, however many there are.
LifeNotProlonged == \A e \in entries : e.expires = e.born + TTL
=============================================================================
