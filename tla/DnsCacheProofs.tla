--------------------------- MODULE DnsCacheProofs ---------------------------
(***************************************************************************)
(* The answer cache for any number of keys and goroutines and any limits:  *)
(* coalescing and the epoch check, then the books of put, get, evictOne    *)
(* and clear, then the memory of AnswerMemory that all of it implements.   *)
(*                                                                         *)
(* That one lookup at a time runs for a key and that nobody waits for a    *)
(* flight that is gone rest on each other: Finish may delete the flight of *)
(* its key because the table names it, and wakes everyone who waits        *)
(* because waiters wait on the process the table names.                    *)
(***************************************************************************)
EXTENDS DnsCache, FiniteSetTheorems, SequenceTheorems, WellFoundedInduction, TLAPS

\* The parts of the state that coalescing and the epoch check touch.
FlightTypes ==
  /\ flights \in [Keys -> Procs \cup {None}]
  /\ epoch \in 0..MaxEpoch
  /\ proc \in [Procs -> Proc]

Busy == \A p \in Procs : proc[p].pc # "idle" => proc[p].key \in Keys

Confirmed == \A p \in Procs : proc[p].pc = "put" => proc[p].made = proc[p].checked

CacheInv ==
  FlightTypes /\ Busy /\ Confirmed /\ SingleFlight /\ NoLostWaiter /\ OvertakenNeverCached

LEMMA NoneFacts == None \notin Procs /\ None \notin Keys /\ MaxEpoch \in Nat /\ 0 \in 0..MaxEpoch
BY CacheAssumption DEF Procs

-----------------------------------------------------------------------------
(* What the bookkeeping does to entries.                                    *)

LEMMA WithoutFacts ==
  ASSUME NEW f, NEW K
  PROVE  /\ DOMAIN Without(f, K) \subseteq DOMAIN f
         /\ \A k \in DOMAIN Without(f, K) : Without(f, K)[k] = f[k]
BY DEF Without

LEMMA WithEntryFacts ==
  ASSUME NEW f, NEW k, NEW e
  PROVE  /\ DOMAIN WithEntry(f, k, e) = DOMAIN f \cup {k}
         /\ \A j \in DOMAIN WithEntry(f, k, e) :
              WithEntry(f, k, e)[j] = IF j = k THEN e ELSE f[j]
BY DEF WithEntry

LEMMA EvictedFacts ==
  ASSUME NEW c, NEW n
  PROVE  /\ DOMAIN Evicted(c, n).e \subseteq DOMAIN c.e
         /\ \A k \in DOMAIN Evicted(c, n).e : Evicted(c, n).e[k] = c.e[k]
<1> DEFINE K == {c.o[i] : i \in (Len(c.o) - n + 1)..Len(c.o)}
<1>1. Evicted(c, n).e = Without(c.e, K)
  BY DEF Evicted
<1> HIDE DEF K
<1> QED BY <1>1, WithoutFacts

\* put adds one entry and keeps of the others what it does not evict.
LEMMA StoreFacts ==
  ASSUME NEW k, NEW entry, Store(k, entry)
  PROVE  /\ DOMAIN entries' \subseteq DOMAIN entries \cup {k}
         /\ \A j \in DOMAIN entries' : entries'[j] = IF j = k THEN entry ELSE entries[j]
<1> DEFINE c == MakeRoom(Cache, k)
           d == [e |-> WithEntry(c.e, k, entry), o |-> <<k>> \o c.o, u |-> c.u + entry.size]
<1>0. Cache.e = entries
  BY DEF Cache
<1>1. /\ DOMAIN c.e \subseteq DOMAIN entries
      /\ \A j \in DOMAIN c.e : c.e[j] = entries[j]
  <2>1. CASE k \in DOMAIN Cache.e
    <3>1. c.e = Cache.e
      BY <2>1 DEF MakeRoom, Cache
    <3> QED BY <3>1, <1>0
  <2>2. CASE k \notin DOMAIN Cache.e
    <3>1. c = Cache \/ c = Evicted(Cache, 1)
      BY <2>2 DEF MakeRoom, EvictOne
    <3> HIDE DEF c
    <3> QED BY <3>1, <1>0, EvictedFacts
  <2> QED BY <2>1, <2>2
<1>2. \E n : entries' = Evicted(d, n).e
  BY DEF Store, Assign, EvictToFit
<1>3. d.e = WithEntry(c.e, k, entry)
  OBVIOUS
<1> HIDE DEF c, d
<1>4. PICK n : entries' = Evicted(d, n).e
  BY <1>2
<1>5. DOMAIN entries' \subseteq DOMAIN d.e /\ \A j \in DOMAIN entries' : entries'[j] = d.e[j]
  BY <1>4, EvictedFacts
<1>6. /\ DOMAIN d.e = DOMAIN c.e \cup {k}
      /\ \A j \in DOMAIN d.e : d.e[j] = IF j = k THEN entry ELSE c.e[j]
  <2> DEFINE f == c.e
  <2>2. d.e = WithEntry(f, k, entry)
    BY <1>3
  <2> HIDE DEF f
  <2>1. /\ DOMAIN WithEntry(f, k, entry) = DOMAIN f \cup {k}
        /\ \A j \in DOMAIN WithEntry(f, k, entry) :
             WithEntry(f, k, entry)[j] = IF j = k THEN entry ELSE f[j]
    BY DEF WithEntry
  <2>3. /\ DOMAIN d.e = DOMAIN f \cup {k}
        /\ \A j \in DOMAIN d.e : d.e[j] = IF j = k THEN entry ELSE f[j]
    BY <2>1, <2>2
  <2> QED BY <2>3 DEF f
<1> QED BY <1>1, <1>5, <1>6

-----------------------------------------------------------------------------
(* Steps that move one process and leave the flights alone.                 *)

LEMMA ProcFacts ==
  ASSUME CacheInv, NEW p \in Procs
  PROVE  /\ proc[p] \in Proc /\ proc[p].made \in 0..MaxEpoch /\ proc[p].checked \in 0..MaxEpoch
         /\ (proc[p].pc # "idle" => proc[p].key \in Keys /\ proc[p].key # None)
         /\ epoch \in 0..MaxEpoch /\ flights \in [Keys -> Procs \cup {None}]
         /\ proc \in [Procs -> Proc]
BY NoneFacts DEF CacheInv, FlightTypes, Busy, Proc

\* A step of p that keeps its key, and whether it owns a flight, keeps the
\* agreement of the flight table with the processes.
LEMMA ProcStep ==
  ASSUME CacheInv, NEW p \in Procs, NEW r \in Proc,
         proc' = [proc EXCEPT ![p] = r], UNCHANGED flights, epoch' \in 0..MaxEpoch,
         r.pc # "idle" => r.key \in Keys,
         r.pc = "put" => r.made = r.checked,
         r.pc # "wait",
         proc[p].pc \in Owning <=> r.pc \in Owning,
         r.pc \in Owning => r.key = proc[p].key
  PROVE  FlightTypes' /\ Busy' /\ Confirmed' /\ SingleFlight' /\ NoLostWaiter'
<1>1. /\ proc \in [Procs -> Proc] /\ flights' = flights
      /\ proc'[p] = r /\ \A q \in Procs : q # p => proc'[q] = proc[q]
  BY ProcFacts
<1>2. FlightTypes' /\ Busy' /\ Confirmed'
  BY <1>1 DEF CacheInv, FlightTypes, Busy, Confirmed
<1>3. SingleFlight'
  <2> SUFFICES ASSUME NEW q \in Procs, NEW k \in Keys
               PROVE  proc'[q].pc \in Owning /\ proc'[q].key = k <=> flights'[k] = q
    BY DEF SingleFlight
  <2>1. proc[q].pc \in Owning /\ proc[q].key = k <=> flights[k] = q
    BY DEF CacheInv, SingleFlight
  <2>2. CASE q = p
    BY <2>1, <2>2, <1>1
  <2>3. CASE q # p
    BY <2>1, <2>3, <1>1
  <2> QED BY <2>2, <2>3
<1>4. NoLostWaiter'
  <2> SUFFICES ASSUME NEW q \in Procs, proc'[q].pc = "wait"
               PROVE  /\ proc'[q].on # None
                      /\ flights'[proc'[q].key] = proc'[q].on
                      /\ proc'[proc'[q].on].pc \in Owning
    BY DEF NoLostWaiter
  <2>1. q # p /\ proc'[q] = proc[q]
    BY <1>1
  <2>2. /\ proc[q].on # None /\ flights[proc[q].key] = proc[q].on
        /\ proc[proc[q].on].pc \in Owning
    BY <2>1 DEF CacheInv, NoLostWaiter
  <2>3. proc[q].on \in Procs
    BY <2>2, ProcFacts DEF Proc
  <2>4. proc'[proc[q].on].pc \in Owning
    BY <2>2, <2>3, <1>1
  <2> QED BY <2>1, <2>2, <2>4, <1>1
<1> QED BY <1>2, <1>3, <1>4

\* Entries that are only dropped, or grow older, keep their two generations.
LEMMA FewerEntries ==
  ASSUME CacheInv,
         DOMAIN entries' \subseteq DOMAIN entries,
         \A k \in DOMAIN entries' : /\ entries'[k].made = entries[k].made
                                    /\ entries'[k].checked = entries[k].checked
  PROVE  OvertakenNeverCached'
BY DEF CacheInv, OvertakenNeverCached

LEMMA SameEntries ==
  ASSUME CacheInv, UNCHANGED entries
  PROVE  OvertakenNeverCached'
BY DEF CacheInv, OvertakenNeverCached

LEMMA IdleFacts ==
  /\ Idle \in Proc /\ Idle.pc = "idle" /\ Idle.pc \notin Owning
BY NoneFacts DEF Idle, Proc, Owning

LEMMA GetOK ==
  ASSUME CacheInv, NEW p \in Procs, NEW k \in Keys, Get(p, k)
  PROVE  CacheInv'
<1> DEFINE r == [Idle EXCEPT !.key = k, !.pc = IF Live(k) THEN "peek" ELSE "fresh"]
<1>1. /\ proc' = [proc EXCEPT ![p] = r] /\ UNCHANGED <<flights, epoch>> /\ proc[p].pc = "idle"
  BY DEF Get
<1>2. r = [Idle EXCEPT !.key = k, !.pc = r.pc] /\ r.pc \in {"peek", "fresh"} /\ r.key = k
  BY DEF Idle
<1>3. r \in Proc
  <2> DEFINE x == [Idle EXCEPT !.key = k]
  <2>1. x \in Proc
    BY IdleFacts DEF Proc
  <2>2. CASE Live(k)
    <3>1. r = [x EXCEPT !.pc = "peek"]
      BY <2>2
    <3> HIDE DEF x, r
    <3> QED BY <2>1, <3>1 DEF Proc
  <2>3. CASE ~Live(k)
    <3>1. r = [x EXCEPT !.pc = "fresh"]
      BY <2>3
    <3> HIDE DEF x, r
    <3> QED BY <2>1, <3>1 DEF Proc
  <2> QED BY <2>2, <2>3
<1> HIDE DEF r
<1>4. FlightTypes' /\ Busy' /\ Confirmed' /\ SingleFlight' /\ NoLostWaiter'
  <2>1. epoch' \in 0..MaxEpoch
    BY <1>1, ProcFacts
  <2> QED BY <1>1, <1>2, <1>3, <2>1, ProcStep DEF Owning
<1>5. OvertakenNeverCached'
  <2>1. entries' = entries \/ entries' = Without(entries, {k})
    BY DEF Get, Assign, Forget, Cache
  <2> QED BY <2>1, WithoutFacts, FewerEntries
<1> QED BY <1>4, <1>5 DEF CacheInv

LEMMA LookupOK ==
  ASSUME CacheInv, NEW p \in Procs, Lookup(p)
  PROVE  CacheInv'
<1>1. PICK size \in Sizes \cup {0} :
        proc' = [proc EXCEPT ![p].pc = "check", ![p].size = size]
  BY DEF Lookup
<1>2. UNCHANGED <<entries, flights, epoch>> /\ proc[p].pc = "lookup"
  BY DEF Lookup
<1> DEFINE r == [proc[p] EXCEPT !.pc = "check", !.size = size]
<1>3. proc' = [proc EXCEPT ![p] = r]
  BY <1>1, ProcFacts
<1>4. r \in Proc /\ r.pc = "check" /\ r.key = proc[p].key
  <2> DEFINE x == [proc[p] EXCEPT !.pc = "check"]
  <2>1. x \in Proc /\ x.pc = "check" /\ x.key = proc[p].key
    BY ProcFacts DEF Proc
  <2>2. r = [x EXCEPT !.size = size]
    OBVIOUS
  <2> HIDE DEF x, r
  <2> QED BY <2>1, <2>2 DEF Proc
<1> HIDE DEF r
<1>5. epoch' \in 0..MaxEpoch /\ proc[p].key \in Keys
  BY <1>2, ProcFacts
<1>6. FlightTypes' /\ Busy' /\ Confirmed' /\ SingleFlight' /\ NoLostWaiter'
  BY <1>2, <1>3, <1>4, <1>5, ProcStep DEF Owning
<1> QED BY <1>2, <1>6, SameEntries DEF CacheInv

LEMMA CheckOK ==
  ASSUME CacheInv, NEW p \in Procs, Check(p)
  PROVE  CacheInv'
<1> DEFINE pc == IF proc[p].size > 0 /\ Valid(p) THEN "put" ELSE "finish"
           r == [proc[p] EXCEPT !.checked = epoch, !.pc = pc]
<1>1. /\ proc' = [proc EXCEPT ![p].checked = epoch, ![p].pc = pc]
      /\ UNCHANGED <<entries, flights, epoch>> /\ proc[p].pc = "check"
  BY DEF Check
<1>2. pc \in {"put", "finish"} /\ (pc = "put" => proc[p].made = epoch)
  BY DEF Valid
<1> HIDE DEF pc
<1>3. proc' = [proc EXCEPT ![p] = r]
  BY <1>1, ProcFacts
<1>4. /\ r \in Proc /\ r.pc = pc /\ r.key = proc[p].key /\ r.checked = epoch
      /\ r.made = proc[p].made
  <2> DEFINE x == [proc[p] EXCEPT !.checked = epoch]
  <2>1. /\ x \in Proc /\ x.key = proc[p].key /\ x.checked = epoch /\ x.made = proc[p].made
    BY ProcFacts DEF Proc
  <2>2. r = [x EXCEPT !.pc = pc]
    OBVIOUS
  <2> HIDE DEF x, r
  <2> QED BY <1>2, <2>1, <2>2 DEF Proc
<1> HIDE DEF r
<1>5. epoch' \in 0..MaxEpoch /\ proc[p].key \in Keys
  BY <1>1, ProcFacts
<1>6. FlightTypes' /\ Busy' /\ Confirmed' /\ SingleFlight' /\ NoLostWaiter'
  BY <1>1, <1>2, <1>3, <1>4, <1>5, ProcStep DEF Owning
<1> QED BY <1>1, <1>6, SameEntries DEF CacheInv

LEMMA PutOK ==
  ASSUME CacheInv, NEW p \in Procs, Put(p)
  PROVE  CacheInv'
<1> DEFINE r == [proc[p] EXCEPT !.pc = "finish"]
           k == proc[p].key
           entry == [left |-> TTL, size |-> proc[p].size,
                     made |-> proc[p].made, checked |-> proc[p].checked]
<1>1. /\ proc' = [proc EXCEPT ![p].pc = "finish"] /\ UNCHANGED <<flights, epoch>>
      /\ proc[p].pc = "put" /\ Store(k, entry)
  BY DEF Put
<1>2. proc' = [proc EXCEPT ![p] = r]
  BY <1>1, ProcFacts
<1>3. r \in Proc /\ r.pc = "finish" /\ r.key = proc[p].key
  BY ProcFacts DEF Proc
<1>4. entry.made = entry.checked
  BY <1>1 DEF CacheInv, Confirmed
<1> HIDE DEF r, entry
<1>5. epoch' \in 0..MaxEpoch /\ proc[p].key \in Keys
  BY <1>1, ProcFacts
<1>6. FlightTypes' /\ Busy' /\ Confirmed' /\ SingleFlight' /\ NoLostWaiter'
  BY <1>1, <1>2, <1>3, <1>5, ProcStep DEF Owning
<1>7. OvertakenNeverCached'
  <2> HIDE DEF k
  <2>1. /\ DOMAIN entries' \subseteq DOMAIN entries \cup {k}
        /\ \A j \in DOMAIN entries' : entries'[j] = IF j = k THEN entry ELSE entries[j]
    BY <1>1, StoreFacts
  <2> QED BY <2>1, <1>4 DEF CacheInv, OvertakenNeverCached
<1> QED BY <1>6, <1>7 DEF CacheInv

-----------------------------------------------------------------------------
(* The other steps.                                                         *)

\* A hit, and the goroutine that may refresh it.
LEMMA PeekOK ==
  ASSUME CacheInv, NEW p \in Procs, Peek(p)
  PROVE  CacheInv'
<1>1. UNCHANGED <<entries, flights, epoch>> /\ proc[p].pc = "peek"
  BY DEF Peek
<1>2. CASE proc' = [proc EXCEPT ![p] = Idle]
  <2>1. epoch' \in 0..MaxEpoch
    BY <1>1, ProcFacts
  <2>2. FlightTypes' /\ Busy' /\ Confirmed' /\ SingleFlight' /\ NoLostWaiter'
    BY <1>1, <1>2, <2>1, IdleFacts, ProcStep DEF Owning
  <2> QED BY <1>1, <2>2, SameEntries DEF CacheInv
<1>3. ASSUME NEW r \in Procs, proc[r].pc = "idle",
             proc' = [proc EXCEPT ![p] = Idle,
                                  ![r] = [Idle EXCEPT !.pc = "fresh", !.key = proc[p].key]]
      PROVE  CacheInv'
  <2> DEFINE x == [Idle EXCEPT !.pc = "fresh", !.key = proc[p].key]
  <2>1. proc[p].key \in Keys /\ p # r
    BY <1>1, <1>3, ProcFacts
  <2>2. x \in Proc /\ x.pc = "fresh" /\ x.key = proc[p].key
    <3> DEFINE y == [Idle EXCEPT !.pc = "fresh"]
    <3>1. y \in Proc /\ y.pc = "fresh"
      BY IdleFacts DEF Proc
    <3>2. x = [y EXCEPT !.key = proc[p].key]
      OBVIOUS
    <3> HIDE DEF x, y
    <3> QED BY <3>1, <3>2, <2>1 DEF Proc
  <2> HIDE DEF x
  <2>3. /\ proc \in [Procs -> Proc] /\ proc'[p] = Idle /\ proc'[r] = x
        /\ \A q \in Procs : q # p /\ q # r => proc'[q] = proc[q]
        /\ proc' \in [Procs -> Proc]
    BY <1>3, <2>1, <2>2, ProcFacts, IdleFacts DEF x
  <2>4. FlightTypes' /\ Busy' /\ Confirmed'
    BY <1>1, <2>1, <2>2, <2>3, IdleFacts DEF CacheInv, FlightTypes, Busy, Confirmed
  <2>5. SingleFlight'
    <3> SUFFICES ASSUME NEW q \in Procs, NEW k \in Keys
                 PROVE  proc'[q].pc \in Owning /\ proc'[q].key = k <=> flights'[k] = q
      BY DEF SingleFlight
    <3>1. proc[q].pc \in Owning /\ proc[q].key = k <=> flights[k] = q
      BY DEF CacheInv, SingleFlight
    <3>2. CASE q = p \/ q = r
      BY <1>1, <1>3, <2>2, <2>3, <3>1, <3>2, IdleFacts DEF Owning
    <3>3. CASE q # p /\ q # r
      BY <1>1, <2>3, <3>1, <3>3
    <3> QED BY <3>2, <3>3
  <2>6. NoLostWaiter'
    <3> SUFFICES ASSUME NEW q \in Procs, proc'[q].pc = "wait"
                 PROVE  /\ proc'[q].on # None
                        /\ flights'[proc'[q].key] = proc'[q].on
                        /\ proc'[proc'[q].on].pc \in Owning
      BY DEF NoLostWaiter
    <3>1. q # p /\ q # r /\ proc'[q] = proc[q]
      BY <2>2, <2>3, IdleFacts
    <3>2. /\ proc[q].on # None /\ flights[proc[q].key] = proc[q].on
          /\ proc[proc[q].on].pc \in Owning
      BY <3>1 DEF CacheInv, NoLostWaiter
    <3>3. proc[q].on \in Procs /\ proc[q].on # p /\ proc[q].on # r
      BY <1>1, <1>3, <3>2, ProcFacts DEF Proc, Owning
    <3> QED BY <1>1, <2>3, <3>1, <3>2, <3>3
  <2> QED BY <1>1, <2>4, <2>5, <2>6, SameEntries DEF CacheInv
<1>4. \/ proc' = [proc EXCEPT ![p] = Idle]
      \/ \E r \in Refreshers : /\ proc[r].pc = "idle"
                               /\ proc' = [proc EXCEPT ![p] = Idle,
                                    ![r] = [Idle EXCEPT !.pc = "fresh", !.key = proc[p].key]]
  BY DEF Peek
<1> QED BY <1>2, <1>3, <1>4 DEF Procs

LEMMA JoinOK ==
  ASSUME CacheInv, NEW p \in Procs, Join(p)
  PROVE  CacheInv'
<1> DEFINE k == proc[p].key
           o == flights[k]
           r == [proc[p] EXCEPT !.pc = "wait", !.on = o]
<1>1. /\ proc[p].pc = "fresh" /\ UNCHANGED <<entries, flights, epoch>> /\ o # None
      /\ proc' = [proc EXCEPT ![p].pc = "wait", ![p].on = o]
  BY DEF Join, Joinable
<1>2. k \in Keys /\ o \in Procs
  BY <1>1, ProcFacts
<1>3. r \in Proc /\ r.pc = "wait" /\ r.key = k /\ r.on = o
  <2> DEFINE x == [proc[p] EXCEPT !.pc = "wait"]
  <2>1. x \in Proc /\ x.pc = "wait" /\ x.key = k
    BY ProcFacts DEF Proc
  <2>2. r = [x EXCEPT !.on = o]
    OBVIOUS
  <2> HIDE DEF x, r, o, k
  <2> QED BY <1>2, <2>1, <2>2 DEF Proc
<1>4. proc' = [proc EXCEPT ![p] = r]
  BY <1>1, ProcFacts
<1>5. proc[o].pc \in Owning /\ proc[o].key = k /\ o # p
  BY <1>1, <1>2 DEF CacheInv, SingleFlight, Owning
<1> HIDE DEF r, o
<1>6. /\ proc \in [Procs -> Proc] /\ proc'[p] = r /\ \A q \in Procs : q # p => proc'[q] = proc[q]
      /\ proc' \in [Procs -> Proc]
  BY <1>3, <1>4, ProcFacts
<1>7. FlightTypes' /\ Busy' /\ Confirmed'
  BY <1>1, <1>2, <1>3, <1>6 DEF CacheInv, FlightTypes, Busy, Confirmed
<1>8. SingleFlight'
  <2> SUFFICES ASSUME NEW q \in Procs, NEW j \in Keys
               PROVE  proc'[q].pc \in Owning /\ proc'[q].key = j <=> flights'[j] = q
    BY DEF SingleFlight
  <2>1. proc[q].pc \in Owning /\ proc[q].key = j <=> flights[j] = q
    BY DEF CacheInv, SingleFlight
  <2>2. CASE q = p
    BY <1>1, <1>3, <1>6, <2>1, <2>2 DEF Owning
  <2>3. CASE q # p
    BY <1>1, <1>6, <2>1, <2>3
  <2> QED BY <2>2, <2>3
<1>9. NoLostWaiter'
  <2> SUFFICES ASSUME NEW q \in Procs, proc'[q].pc = "wait"
               PROVE  /\ proc'[q].on # None
                      /\ flights'[proc'[q].key] = proc'[q].on
                      /\ proc'[proc'[q].on].pc \in Owning
    BY DEF NoLostWaiter
  <2>1. CASE q = p
    BY <1>1, <1>2, <1>3, <1>5, <1>6, <2>1, NoneFacts DEF o
  <2>2. CASE q # p
    <3>1. /\ proc[q].on # None /\ flights[proc[q].key] = proc[q].on
          /\ proc[proc[q].on].pc \in Owning /\ proc'[q] = proc[q]
      BY <1>6, <2>2 DEF CacheInv, NoLostWaiter
    <3>2. proc[q].on \in Procs /\ proc[q].on # p
      BY <1>1, <3>1, ProcFacts DEF Proc, Owning
    <3> QED BY <1>1, <1>6, <3>1, <3>2
  <2> QED BY <2>1, <2>2
<1> QED BY <1>1, <1>7, <1>8, <1>9, SameEntries DEF CacheInv

LEMMA OwnOK ==
  ASSUME CacheInv, NEW p \in Procs, Own(p)
  PROVE  CacheInv'
<1> DEFINE k == proc[p].key
           r == [proc[p] EXCEPT !.pc = "lookup", !.made = epoch]
<1>1. /\ proc[p].pc = "fresh" /\ UNCHANGED <<entries, epoch>> /\ flights[k] = None
      /\ flights' = [flights EXCEPT ![k] = p]
      /\ proc' = [proc EXCEPT ![p].pc = "lookup", ![p].made = epoch]
  BY DEF Own, Joinable
<1>2. k \in Keys
  BY <1>1, ProcFacts
<1>3. r \in Proc /\ r.pc = "lookup" /\ r.key = k
  <2> DEFINE x == [proc[p] EXCEPT !.pc = "lookup"]
  <2>1. x \in Proc /\ x.pc = "lookup" /\ x.key = k
    BY ProcFacts DEF Proc
  <2>2. r = [x EXCEPT !.made = epoch]
    OBVIOUS
  <2> HIDE DEF x, r, k
  <2> QED BY <2>1, <2>2, ProcFacts DEF Proc
<1>4. proc' = [proc EXCEPT ![p] = r]
  BY <1>1, ProcFacts
<1> HIDE DEF r, k
<1>6. /\ proc \in [Procs -> Proc] /\ proc'[p] = r /\ \A q \in Procs : q # p => proc'[q] = proc[q]
      /\ proc' \in [Procs -> Proc]
  BY <1>3, <1>4, ProcFacts
<1>5. /\ flights' \in [Keys -> Procs \cup {None}] /\ flights'[k] = p
      /\ \A j \in Keys : j # k => flights'[j] = flights[j]
  BY <1>1, <1>2, ProcFacts
<1>7. FlightTypes' /\ Busy' /\ Confirmed'
  BY <1>1, <1>2, <1>3, <1>5, <1>6 DEF CacheInv, FlightTypes, Busy, Confirmed
<1>8. SingleFlight'
  <2> SUFFICES ASSUME NEW q \in Procs, NEW j \in Keys
               PROVE  proc'[q].pc \in Owning /\ proc'[q].key = j <=> flights'[j] = q
    BY DEF SingleFlight
  <2>1. proc[q].pc \in Owning /\ proc[q].key = j <=> flights[j] = q
    BY DEF CacheInv, SingleFlight
  <2>2. CASE q = p
    BY <1>1, <1>3, <1>5, <1>6, <2>1, <2>2 DEF Owning
  <2>3. CASE q # p
    BY <1>1, <1>5, <1>6, <2>1, <2>3, NoneFacts
  <2> QED BY <2>2, <2>3
<1>9. NoLostWaiter'
  <2> SUFFICES ASSUME NEW q \in Procs, proc'[q].pc = "wait"
               PROVE  /\ proc'[q].on # None
                      /\ flights'[proc'[q].key] = proc'[q].on
                      /\ proc'[proc'[q].on].pc \in Owning
    BY DEF NoLostWaiter
  <2>1. q # p
    BY <1>3, <1>6
  <2>2. /\ proc[q].on # None /\ flights[proc[q].key] = proc[q].on
        /\ proc[proc[q].on].pc \in Owning /\ proc'[q] = proc[q] /\ proc[q].pc = "wait"
    BY <1>6, <2>1 DEF CacheInv, NoLostWaiter
  <2>3. proc[q].on \in Procs /\ proc[q].on # p
    BY <1>1, <2>2, ProcFacts DEF Proc, Owning
  <2>4. proc[q].key \in Keys /\ proc[q].key # k
    BY <1>1, <2>2, ProcFacts
  <2> QED BY <1>5, <1>6, <2>2, <2>3, <2>4
<1> QED BY <1>1, <1>7, <1>8, <1>9, SameEntries DEF CacheInv

LEMMA FinishOK ==
  ASSUME CacheInv, NEW p \in Procs, Finish(p)
  PROVE  CacheInv'
<1> DEFINE k == proc[p].key
<1>1. /\ proc[p].pc = "finish" /\ UNCHANGED <<entries, epoch>>
      /\ flights' = [flights EXCEPT ![k] = None]
      /\ proc' = [q \in Procs |-> IF q = p \/ Woken(p, q) THEN Idle ELSE proc[q]]
  BY DEF Finish
<1>2. k \in Keys /\ flights[k] = p
  BY <1>1, ProcFacts DEF CacheInv, SingleFlight, Owning
<1> HIDE DEF k
<1>3. /\ proc \in [Procs -> Proc] /\ proc' \in [Procs -> Proc]
      /\ \A q \in Procs : proc'[q] = IF q = p \/ Woken(p, q) THEN Idle ELSE proc[q]
  BY <1>1, ProcFacts, IdleFacts
<1>4. /\ flights' \in [Keys -> Procs \cup {None}] /\ flights'[k] = None
      /\ \A j \in Keys : j # k => flights'[j] = flights[j]
  BY <1>1, <1>2, ProcFacts
<1>5. FlightTypes' /\ Busy' /\ Confirmed'
  BY <1>1, <1>3, <1>4, IdleFacts DEF CacheInv, FlightTypes, Busy, Confirmed
<1>6. SingleFlight'
  <2> SUFFICES ASSUME NEW q \in Procs, NEW j \in Keys
               PROVE  proc'[q].pc \in Owning /\ proc'[q].key = j <=> flights'[j] = q
    BY DEF SingleFlight
  <2>1. proc[q].pc \in Owning /\ proc[q].key = j <=> flights[j] = q
    BY DEF CacheInv, SingleFlight
  <2>2. CASE q = p
    <3>1. proc[p].key = k
      BY DEF k
    <3> QED BY <1>1, <1>2, <1>3, <1>4, <2>1, <2>2, <3>1, IdleFacts, NoneFacts DEF Owning
  <2>3. CASE q # p /\ Woken(p, q)
    <3>1. proc[q].pc = "wait" /\ proc'[q] = Idle
      BY <1>3, <2>3 DEF Woken
    <3>2. flights[j] # q
      BY <2>1, <3>1 DEF Owning
    <3> QED BY <1>4, <3>1, <3>2, IdleFacts, NoneFacts
  <2>4. CASE q # p /\ ~Woken(p, q)
    BY <1>2, <1>3, <1>4, <2>1, <2>4, NoneFacts
  <2> QED BY <2>2, <2>3, <2>4
<1>7. NoLostWaiter'
  <2> SUFFICES ASSUME NEW q \in Procs, proc'[q].pc = "wait"
               PROVE  /\ proc'[q].on # None
                      /\ flights'[proc'[q].key] = proc'[q].on
                      /\ proc'[proc'[q].on].pc \in Owning
    BY DEF NoLostWaiter
  <2>1. q # p /\ ~Woken(p, q) /\ proc'[q] = proc[q] /\ proc[q].pc = "wait"
    BY <1>3, IdleFacts
  <2>2. /\ proc[q].on # None /\ flights[proc[q].key] = proc[q].on
        /\ proc[proc[q].on].pc \in Owning
    BY <2>1 DEF CacheInv, NoLostWaiter
  <2>3. proc[q].on \in Procs /\ proc[q].on # p
    BY <2>1, <2>2, ProcFacts DEF Proc, Woken
  <2>4. proc[q].key \in Keys /\ proc[q].key # k
    BY <1>2, <2>1, <2>2, <2>3, ProcFacts
  <2>5. ~Woken(p, proc[q].on)
    BY <2>2 DEF Woken, Owning
  <2>6. proc'[proc[q].on] = proc[proc[q].on]
    BY <1>3, <2>3, <2>5
  <2> QED BY <1>4, <2>1, <2>2, <2>4, <2>6
<1> QED BY <1>1, <1>5, <1>6, <1>7, SameEntries DEF CacheInv

LEMMA EmptyDomain == DOMAIN <<>> = {}
OBVIOUS

LEMMA ClearOK ==
  ASSUME CacheInv, Clear
  PROVE  CacheInv'
<1>1. /\ entries' = <<>> /\ epoch' = epoch + 1 /\ epoch < MaxEpoch
      /\ UNCHANGED <<flights, proc>>
  BY DEF Clear
<1>2. epoch' \in 0..MaxEpoch
  BY <1>1, NoneFacts DEF CacheInv, FlightTypes
<1>3. DOMAIN entries' = {}
  BY <1>1, EmptyDomain
<1> QED
  BY <1>1, <1>2, <1>3
     DEF CacheInv, FlightTypes, Busy, Confirmed, SingleFlight, NoLostWaiter, OvertakenNeverCached

LEMMA TickOK ==
  ASSUME CacheInv, Tick
  PROVE  CacheInv'
<1>1. /\ entries' = [k \in DOMAIN entries |-> Aged(entries[k])]
      /\ UNCHANGED <<flights, epoch, proc>>
  BY DEF Tick
<1>2. FlightTypes' /\ Busy' /\ Confirmed' /\ SingleFlight' /\ NoLostWaiter'
  BY <1>1 DEF CacheInv, FlightTypes, Busy, Confirmed, SingleFlight, NoLostWaiter
<1>3. DOMAIN entries' = DOMAIN entries
  BY <1>1
<1>4. \A k \in DOMAIN entries' : /\ entries'[k].made = entries[k].made
                                 /\ entries'[k].checked = entries[k].checked
  BY <1>1 DEF Aged
<1> QED BY <1>2, <1>3, <1>4, FewerEntries DEF CacheInv

LEMMA InitOK ==
  ASSUME Init
  PROVE  CacheInv
<1>1. DOMAIN entries = {} /\ proc = [p \in Procs |-> Idle] /\ flights = [k \in Keys |-> None]
      /\ epoch = 0
  BY DEF Init
<1>2. \A p \in Procs : proc[p] = Idle
  BY <1>1
<1>3. FlightTypes /\ Busy /\ Confirmed
  BY <1>1, <1>2, IdleFacts, NoneFacts DEF FlightTypes, Busy, Confirmed
<1>4. SingleFlight /\ NoLostWaiter /\ OvertakenNeverCached
  BY <1>1, <1>2, IdleFacts, NoneFacts DEF SingleFlight, NoLostWaiter, OvertakenNeverCached
<1> QED BY <1>3, <1>4 DEF CacheInv

-----------------------------------------------------------------------------
(* The theorems.                                                            *)

LEMMA StutterOK ==
  ASSUME CacheInv, UNCHANGED vars
  PROVE  CacheInv'
<1>1. UNCHANGED <<entries, flights, epoch, proc>>
  BY DEF vars
<1>2. FlightTypes' /\ Busy' /\ Confirmed'
  BY <1>1 DEF CacheInv, FlightTypes, Busy, Confirmed
<1>3. SingleFlight'
  BY <1>1 DEF CacheInv, SingleFlight
<1>4. NoLostWaiter'
  BY <1>1 DEF CacheInv, NoLostWaiter
<1>5. OvertakenNeverCached'
  BY <1>1 DEF CacheInv, OvertakenNeverCached
<1> QED BY <1>2, <1>3, <1>4, <1>5 DEF CacheInv

\* The inductive invariant of coalescing and of the epoch check.
THEOREM CacheInvariant == Spec => []CacheInv
<1>1. Init => CacheInv
  BY InitOK
<1>2. ASSUME CacheInv, [Next]_vars PROVE CacheInv'
  <2>1. CASE UNCHANGED vars
    BY <1>2, <2>1, StutterOK
  <2>2. ASSUME NEW p \in Procs, Step(p) PROVE CacheInv'
    BY <1>2, <2>2, PeekOK, JoinOK, OwnOK, LookupOK, CheckOK, PutOK, FinishOK DEF Step
  <2> QED BY <1>2, <2>1, <2>2, GetOK, ClearOK, TickOK DEF Next
<1> QED BY <1>1, <1>2, PTL DEF Spec

\* At most one lookup runs for a key at any time, and the flight table names it:
\* fetchFresh coalesces whatever the goroutines of queries and refreshes do.
THEOREM OneLookupPerKey == Spec => []SingleFlight
<1>1. CacheInv => SingleFlight
  BY DEF CacheInv
<1> QED BY <1>1, CacheInvariant, PTL

\* Nobody sleeps on the channel of a flight that nobody will close: the deferred
\* function of fetchFresh reaches every waiter.
THEOREM WaitersHaveFlights == Spec => []NoLostWaiter
<1>1. CacheInv => NoLostWaiter
  BY DEF CacheInv
<1> QED BY <1>1, CacheInvariant, PTL

\* An answer whose lookup was overtaken by a policy change never gets into the
\* cache (the epoch check of fetchFresh).
THEOREM OvertakenDropped == Spec => []OvertakenNeverCached
<1>1. CacheInv => OvertakenNeverCached
  BY DEF CacheInv
<1> QED BY <1>1, CacheInvariant, PTL

-----------------------------------------------------------------------------
(* Termination: what of FetchReturns needs no fairness.                     *)

\* How many steps a goroutine in fetch or fetchFresh has left at most.
Ahead(at) ==
  CASE at = "fresh" -> 5 [] at = "lookup" -> 4 [] at = "check" -> 3 [] at = "put" -> 2
    [] at \in {"finish", "wait", "peek"} -> 1 [] at = "idle" -> 0

LEMMA AheadFacts ==
  /\ Ahead("fresh") = 5 /\ Ahead("lookup") = 4 /\ Ahead("check") = 3 /\ Ahead("put") = 2
  /\ Ahead("finish") = 1 /\ Ahead("wait") = 1 /\ Ahead("peek") = 1 /\ Ahead("idle") = 0
BY DEF Ahead

\* A goroutine that is in a fetch gets no further from its end, and nearer by each
\* step of its own; one that waits does so on a goroutine with a lookup of its own,
\* never on another that waits, and returns by the step that ends that lookup.
Returning(p) ==
  proc[p].pc # "idle" =>
    /\ Ahead(proc[p].pc) \in 1..5
    /\ Ahead(proc'[p].pc) <= Ahead(proc[p].pc)
    /\ Step(p) => Ahead(proc'[p].pc) < Ahead(proc[p].pc)
    /\ proc[p].pc = "wait" =>
         /\ proc[proc[p].on].pc \in Owning
         /\ Finish(proc[p].on) => proc'[p].pc = "idle"

\* Where a step of p leaves each of the goroutines.
LEMMA StepMoves ==
  ASSUME CacheInv, NEW p \in Procs, Step(p)
  PROVE  /\ \/ proc[p].pc = "peek" /\ proc'[p].pc = "idle"
            \/ proc[p].pc = "fresh" /\ proc'[p].pc \in {"wait", "lookup"}
            \/ proc[p].pc = "lookup" /\ proc'[p].pc = "check"
            \/ proc[p].pc = "check" /\ proc'[p].pc \in {"put", "finish"}
            \/ proc[p].pc = "put" /\ proc'[p].pc = "finish"
            \/ proc[p].pc = "finish" /\ proc'[p].pc = "idle"
         /\ \A q \in Procs : q # p /\ proc[q].pc # "idle" =>
              proc'[q].pc = proc[q].pc \/ (proc[q].pc = "wait" /\ proc'[q].pc = "idle")
<1>1. proc \in [Procs -> Proc] /\ proc[p] \in Proc /\ Idle.pc = "idle"
  BY ProcFacts DEF Idle
<1>2. CASE Peek(p)
  <2>1. proc[p].pc = "peek"
    BY <1>2 DEF Peek
  <2>2. \/ proc' = [proc EXCEPT ![p] = Idle]
        \/ \E r \in Refreshers :
             /\ proc[r].pc = "idle"
             /\ proc' = [proc EXCEPT ![p] = Idle,
                                     ![r] = [Idle EXCEPT !.pc = "fresh", !.key = proc[p].key]]
    BY <1>2 DEF Peek
  <2>3. CASE proc' = [proc EXCEPT ![p] = Idle]
    BY <1>1, <2>1, <2>3
  <2>4. ASSUME NEW r \in Refreshers, proc[r].pc = "idle", NEW v,
               proc' = [proc EXCEPT ![p] = Idle, ![r] = v]
        PROVE  /\ proc'[p].pc = "idle"
               /\ \A q \in Procs : q # p /\ proc[q].pc # "idle" => proc'[q] = proc[q]
    BY <1>1, <2>1, <2>4 DEF Procs
  <2> QED BY <2>1, <2>2, <2>3, <2>4
<1>3. ASSUME NEW at, proc' = [proc EXCEPT ![p] = at]
      PROVE  proc'[p] = at /\ \A q \in Procs : q # p => proc'[q] = proc[q]
  BY <1>1, <1>3
<1>4. CASE Join(p)
  <2>1. proc' = [proc EXCEPT ![p] = [proc[p] EXCEPT !.pc = "wait", !.on = flights[proc[p].key]]]
    BY <1>1, <1>4 DEF Join
  <2>2. proc[p].pc = "fresh" /\ [proc[p] EXCEPT !.pc = "wait", !.on = flights[proc[p].key]].pc = "wait"
    BY <1>1, <1>4 DEF Join, Proc
  <2> QED BY <1>3, <2>1, <2>2
<1>5. CASE Own(p)
  <2>1. proc' = [proc EXCEPT ![p] = [proc[p] EXCEPT !.pc = "lookup", !.made = epoch]]
    BY <1>1, <1>5 DEF Own
  <2>2. proc[p].pc = "fresh" /\ [proc[p] EXCEPT !.pc = "lookup", !.made = epoch].pc = "lookup"
    BY <1>1, <1>5 DEF Own, Proc
  <2> QED BY <1>3, <2>1, <2>2
<1>6. CASE Lookup(p)
  <2>1. PICK size \in Sizes \cup {0} :
          proc' = [proc EXCEPT ![p] = [proc[p] EXCEPT !.pc = "check", !.size = size]]
    BY <1>1, <1>6 DEF Lookup
  <2>2. proc[p].pc = "lookup" /\ [proc[p] EXCEPT !.pc = "check", !.size = size].pc = "check"
    BY <1>1, <1>6 DEF Lookup, Proc
  <2> QED BY <1>3, <2>1, <2>2
<1>7. CASE Check(p)
  <2>1. PICK at \in {"put", "finish"} :
          proc' = [proc EXCEPT ![p] = [proc[p] EXCEPT !.checked = epoch, !.pc = at]]
    BY <1>1, <1>7 DEF Check
  <2>2. proc[p].pc = "check" /\ [proc[p] EXCEPT !.checked = epoch, !.pc = at].pc = at
    BY <1>1, <1>7 DEF Check, Proc
  <2> QED BY <1>3, <2>1, <2>2
<1>8. CASE Put(p)
  <2>1. proc' = [proc EXCEPT ![p] = [proc[p] EXCEPT !.pc = "finish"]]
    BY <1>1, <1>8 DEF Put
  <2>2. proc[p].pc = "put" /\ [proc[p] EXCEPT !.pc = "finish"].pc = "finish"
    BY <1>1, <1>8 DEF Put, Proc
  <2> QED BY <1>3, <2>1, <2>2
<1>9. CASE Finish(p)
  BY <1>1, <1>9 DEF Finish, Woken
<1> QED BY <1>2, <1>4, <1>5, <1>6, <1>7, <1>8, <1>9 DEF Step

LEMMA StepReturns ==
  ASSUME CacheInv, Next, NEW p \in Procs PROVE Returning(p)
<1> SUFFICES ASSUME proc[p].pc # "idle"
             PROVE  /\ Ahead(proc[p].pc) \in 1..5
                    /\ Ahead(proc'[p].pc) <= Ahead(proc[p].pc)
                    /\ Step(p) => Ahead(proc'[p].pc) < Ahead(proc[p].pc)
                    /\ proc[p].pc = "wait" =>
                         /\ proc[proc[p].on].pc \in Owning
                         /\ Finish(proc[p].on) => proc'[p].pc = "idle"
  BY DEF Returning
<1>1. proc[p] \in Proc /\ Ahead(proc[p].pc) \in 1..5
  BY ProcFacts, AheadFacts DEF Proc
<1>2. Step(p) => Ahead(proc'[p].pc) < Ahead(proc[p].pc)
  BY StepMoves, AheadFacts
<1>3. \/ proc'[p].pc = proc[p].pc
      \/ proc[p].pc = "wait" /\ proc'[p].pc = "idle"
      \/ Step(p)
  <2>1. ASSUME NEW q \in Procs, Step(q), ~Step(p)
        PROVE  proc'[p].pc = proc[p].pc \/ (proc[p].pc = "wait" /\ proc'[p].pc = "idle")
    BY <2>1, StepMoves
  <2>2. ASSUME NEW q \in Procs, NEW k \in Keys, Get(q, k) PROVE proc'[p] = proc[p]
    BY <2>2, ProcFacts DEF Get
  <2>3. Clear \/ Tick => proc'[p] = proc[p]
    BY DEF Clear, Tick
  <2> QED BY <2>1, <2>2, <2>3 DEF Next
<1>4. Ahead(proc'[p].pc) <= Ahead(proc[p].pc)
  <2>1. Step(p) => Ahead(proc'[p].pc) \in 0..4
    BY StepMoves, AheadFacts
  <2> QED BY <1>1, <1>2, <1>3, <2>1, AheadFacts
<1>5. ASSUME proc[p].pc = "wait"
      PROVE  proc[proc[p].on].pc \in Owning /\ (Finish(proc[p].on) => proc'[p].pc = "idle")
  BY <1>5 DEF CacheInv, NoLostWaiter, Finish, Woken, Idle
<1> QED BY <1>1, <1>2, <1>4, <1>5

\* The part of FetchReturns that needs no fairness: a fetch is over after at most
\* five steps of its goroutine or with the flight it joined, and nothing the other
\* goroutines, the clock or a policy change do sends it back.
THEOREM FetchRunsDown == Spec => [][\A p \in Procs : Returning(p)]_vars
<1>1. CacheInv /\ [Next]_vars => [\A p \in Procs : Returning(p)]_vars
  BY StepReturns
<1> QED BY <1>1, CacheInvariant, PTL DEF Spec

-----------------------------------------------------------------------------
(* Sums of sizes.  What a sum computes is a matter of induction over sets;  *)
(* here it is the absence of a smallest set that fails.                     *)

\* A set of natural numbers has a least member, and a set of subsets of a finite
\* set a smallest one.
LEMMA LeastNatural ==
  ASSUME NEW T, T \subseteq Nat, T # {}
  PROVE  \E n \in T : \A m \in T : n <= m
<1> DEFINE R == OpToRel(<, Nat)
<1>1. IsWellFoundedOn(R, Nat)
  BY NatLessThanWellFounded
<1>2. \A x, y \in Nat : x < y => <<x, y>> \in R
  BY DEF OpToRel
<1> HIDE DEF R
<1>3. PICK n \in T : \A m \in T : ~ (<<m, n>> \in R)
  BY <1>1, WFMin
<1>4. ASSUME NEW m \in T PROVE n <= m
  <2>1. n \in Nat /\ m \in Nat
    OBVIOUS
  <2>2. ~ (m < n)
    BY <1>2, <1>3, <2>1
  <2> QED BY <2>1, <2>2
<1> QED BY <1>4

LEMMA SmallestSet ==
  ASSUME NEW S, IsFiniteSet(S), NEW T, T \subseteq SUBSET S, T # {}
  PROVE  \E s \in T : \A t \in T : t \subseteq s => t = s
<1> DEFINE R == StrictSubsetOrdering(S)
<1>1. IsWellFoundedOn(R, SUBSET S)
  BY FS_StrictSubsetOrderingWellFounded, FS_FiniteSubsetsOfFinite
<1>2. \A x, y \in SUBSET S : x \subseteq y /\ x # y => <<x, y>> \in R
  BY DEF StrictSubsetOrdering
<1> HIDE DEF R
<1>3. PICK n \in T : \A m \in T : ~ (<<m, n>> \in R)
  BY <1>1, WFMin
<1> QED BY <1>2, <1>3

Some(s) == CHOOSE x \in s : TRUE

\* h sums sizes on the subsets of K, one element at a time.
Sums(h, f, K) ==
  h = [s \in SUBSET K |-> IF s = {} THEN 0 ELSE f[Some(s)].size + h[s \ {Some(s)}]]

LEMMA SizeOfDef ==
  ASSUME NEW f, NEW K
  PROVE  SizeOf(f, K) = (CHOOSE h : Sums(h, f, K))[K]
BY DEF SizeOf, MapThenSumSet, MapThenFoldSet, Sums, Some

LEMMA SomeFacts == ASSUME NEW s, s # {} PROVE Some(s) \in s /\ s \ {Some(s)} \subseteq s /\ s \ {Some(s)} # s
BY DEF Some

LEMMA SumsFacts ==
  ASSUME NEW f, NEW K, NEW h, Sums(h, f, K)
  PROVE  /\ h[{}] = 0
         /\ \A s \in SUBSET K : s # {} => h[s] = f[Some(s)].size + h[s \ {Some(s)}]
BY DEF Sums

LEMMA SumsAgree ==
  ASSUME NEW f, NEW A, NEW B, IsFiniteSet(A), NEW g, NEW h, Sums(g, f, A), Sums(h, f, B),
         NEW s \in SUBSET A, s \in SUBSET B
  PROVE  g[s] = h[s]
<1> DEFINE T == {t \in SUBSET A : t \in SUBSET B /\ g[t] # h[t]}
<1>1. SUFFICES ASSUME T # {} PROVE FALSE
  OBVIOUS
<1>2. PICK t \in T : \A u \in T : u \subseteq t => u = t
  <2>1. T \subseteq SUBSET A
    OBVIOUS
  <2> HIDE DEF T
  <2> QED BY <1>1, <2>1, SmallestSet
<1>3. t # {}
  BY SumsFacts
<1> DEFINE u == t \ {Some(t)}
<1>4. u \subseteq t /\ u # t
  BY <1>3, SomeFacts
<1>5. u \notin T /\ u \in SUBSET A /\ u \in SUBSET B
  BY <1>2, <1>4
<1>6. g[u] = h[u]
  BY <1>5
<1>7. g[t] = f[Some(t)].size + g[u] /\ h[t] = f[Some(t)].size + h[u]
  BY <1>3, SumsFacts
<1> QED BY <1>6, <1>7

LEMMA SumsExist ==
  ASSUME NEW f, NEW K, IsFiniteSet(K)
  PROVE  \E h : Sums(h, f, K)
<1> DEFINE T == {s \in SUBSET K : ~ \E h : Sums(h, f, s)}
<1>1. SUFFICES ASSUME T # {} PROVE FALSE
  OBVIOUS
<1>2. PICK s \in T : \A t \in T : t \subseteq s => t = s
  <2>1. T \subseteq SUBSET K
    OBVIOUS
  <2> HIDE DEF T
  <2> QED BY <1>1, <2>1, SmallestSet
<1> DEFINE C(t) == CHOOSE h : Sums(h, f, t)
           V(t) == C(t)[t]
           v == [t \in SUBSET s |-> V(t)]
           h == [t \in SUBSET s |-> IF t = {} THEN 0 ELSE f[Some(t)].size + v[t \ {Some(t)}]]
<1>3. ASSUME NEW t \in SUBSET s, t # s
      PROVE  Sums(C(t), f, t) /\ IsFiniteSet(t) /\ v[t] = C(t)[t]
  <2>1. t \in SUBSET K /\ t \notin T
    BY <1>2, <1>3
  <2>2. \E x : Sums(x, f, t)
    BY <2>1
  <2>3. Sums(C(t), f, t)
    BY <2>2
  <2>4. IsFiniteSet(t)
    BY <2>1, FS_Subset
  <2> QED BY <2>3, <2>4
<1> HIDE DEF C, v
<1>4. ASSUME NEW t \in SUBSET s, t # s
      PROVE  h[t] = v[t]
  <2>1. CASE t = {}
    BY <1>3, <1>4, <2>1, SumsFacts
  <2>2. CASE t # {}
    <3> DEFINE u == t \ {Some(t)}
    <3>1. u \subseteq t /\ u \in SUBSET s /\ u # s
      BY <1>4, <2>2, SomeFacts
    <3>2. v[t] = f[Some(t)].size + C(t)[u]
      <4>1. Sums(C(t), f, t) /\ v[t] = C(t)[t]
        BY <1>3, <1>4
      <4> HIDE DEF h
      <4>2. t \in SUBSET t
        OBVIOUS
      <4> QED BY <2>2, <4>1, <4>2, SumsFacts
    <3>3. C(t)[u] = v[u]
      <4>1. Sums(C(t), f, t) /\ IsFiniteSet(t) /\ Sums(C(u), f, u) /\ v[u] = C(u)[u]
        BY <1>3, <1>4, <3>1
      <4>2. u \in SUBSET u /\ u \in SUBSET t
        OBVIOUS
      <4> HIDE DEF h, u
      <4> QED BY <4>1, <4>2, SumsAgree
    <3> QED BY <2>2, <3>2, <3>3
  <2> QED BY <2>1, <2>2
<1>5. Sums(h, f, s)
  <2>1. ASSUME NEW t \in SUBSET s, t # {} PROVE v[t \ {Some(t)}] = h[t \ {Some(t)}]
    <3> HIDE DEF h
    <3> QED BY <1>4, <2>1, SomeFacts
  <2>2. h = [t \in SUBSET s |-> IF t = {} THEN 0 ELSE f[Some(t)].size + h[t \ {Some(t)}]]
    BY <2>1
  <2> HIDE DEF h
  <2> QED BY <2>2 DEF Sums
<1> QED BY <1>2, <1>5

LEMMA SizeOfFacts ==
  ASSUME NEW f, NEW K, IsFiniteSet(K)
  PROVE  /\ SizeOf(f, {}) = 0
         /\ K # {} => SizeOf(f, K) = f[Some(K)].size + SizeOf(f, K \ {Some(K)})
<1> DEFINE C(t) == CHOOSE h : Sums(h, f, t)
<1>1. ASSUME NEW t, IsFiniteSet(t) PROVE Sums(C(t), f, t) /\ SizeOf(f, t) = C(t)[t]
  BY <1>1, SumsExist, SizeOfDef
<1> HIDE DEF C
<1>2. SizeOf(f, {}) = 0
  BY <1>1, FS_EmptySet, SumsFacts
<1>3. ASSUME K # {} PROVE SizeOf(f, K) = f[Some(K)].size + SizeOf(f, K \ {Some(K)})
  <2> DEFINE u == K \ {Some(K)}
  <2>1. IsFiniteSet(u) /\ u \subseteq K
    BY FS_Subset
  <2>2. C(K)[u] = C(u)[u]
    BY <1>1, <2>1, SumsAgree
  <2>3. SizeOf(f, K) = f[Some(K)].size + C(K)[u]
    BY <1>1, <1>3, SumsFacts
  <2> QED BY <1>1, <2>1, <2>2, <2>3
<1> QED BY <1>2, <1>3

LEMMA SizeOfStep ==
  ASSUME NEW f, NEW K, IsFiniteSet(K), NEW s \in SUBSET K, s # {}
  PROVE  /\ SizeOf(f, s) = f[Some(s)].size + SizeOf(f, s \ {Some(s)})
         /\ Some(s) \in s /\ s \ {Some(s)} \in SUBSET K /\ s \ {Some(s)} \subseteq s
         /\ s \ {Some(s)} # s
BY FS_Subset, SizeOfFacts, SomeFacts

LEMMA SizeOfEmpty == \A f : SizeOf(f, {}) = 0
BY FS_EmptySet, SizeOfFacts

\* Sums of sizes are natural numbers.
LEMMA SizeOfType ==
  ASSUME NEW f, NEW K, IsFiniteSet(K), \A k \in K : f[k].size \in Nat
  PROVE  SizeOf(f, K) \in Nat
<1> DEFINE T == {s \in SUBSET K : SizeOf(f, s) \notin Nat}
<1>1. SUFFICES ASSUME T # {} PROVE FALSE
  OBVIOUS
<1>2. PICK s \in T : \A t \in T : t \subseteq s => t = s
  <2>1. T \subseteq SUBSET K
    OBVIOUS
  <2> HIDE DEF T
  <2> QED BY <1>1, <2>1, SmallestSet
<1>3. s # {}
  BY SizeOfEmpty
<1>4. SizeOf(f, s \ {Some(s)}) \in Nat
  <2> DEFINE u == s \ {Some(s)}
  <2>1. u \in SUBSET K /\ u \subseteq s /\ u # s
    BY <1>3, SizeOfStep
  <2> HIDE DEF u, T
  <2>2. u \notin T
    BY <1>2, <2>1
  <2> QED BY <2>1, <2>2 DEF T, u
<1>5. f[Some(s)].size \in Nat /\ SizeOf(f, s) = f[Some(s)].size + SizeOf(f, s \ {Some(s)})
  BY <1>3, SizeOfStep
<1> HIDE DEF T
<1>6. SizeOf(f, s) \in Nat
  BY <1>4, <1>5
<1> QED BY <1>6 DEF T

\* They depend on the sizes only.
LEMMA SizeOfSame ==
  ASSUME NEW f, NEW g, NEW K, IsFiniteSet(K), \A k \in K : f[k].size = g[k].size
  PROVE  SizeOf(f, K) = SizeOf(g, K)
<1> DEFINE T == {s \in SUBSET K : SizeOf(f, s) # SizeOf(g, s)}
<1>1. SUFFICES ASSUME T # {} PROVE FALSE
  OBVIOUS
<1>2. PICK s \in T : \A t \in T : t \subseteq s => t = s
  <2>1. T \subseteq SUBSET K
    OBVIOUS
  <2> HIDE DEF T
  <2> QED BY <1>1, <2>1, SmallestSet
<1>3. s # {}
  BY SizeOfEmpty
<1>4. SizeOf(f, s \ {Some(s)}) = SizeOf(g, s \ {Some(s)})
  <2> DEFINE u == s \ {Some(s)}
  <2>1. u \in SUBSET K /\ u \subseteq s /\ u # s
    BY <1>3, SizeOfStep
  <2> HIDE DEF u, T
  <2>2. u \notin T
    BY <1>2, <2>1
  <2> QED BY <2>1, <2>2 DEF T, u
<1>5. f[Some(s)].size = g[Some(s)].size
  BY <1>3, SizeOfStep
<1>6. /\ SizeOf(f, s) = f[Some(s)].size + SizeOf(f, s \ {Some(s)})
      /\ SizeOf(g, s) = g[Some(s)].size + SizeOf(g, s \ {Some(s)})
  BY <1>3, SizeOfStep
<1>7. SizeOf(f, s) = SizeOf(g, s)
  BY <1>4, <1>5, <1>6
<1> QED BY <1>7

\* Any one element can be taken out of a sum.
LEMMA SizeOfSplit ==
  ASSUME NEW f, NEW K, IsFiniteSet(K), \A j \in K : f[j].size \in Nat, NEW k \in K
  PROVE  SizeOf(f, K) = f[k].size + SizeOf(f, K \ {k})
<1> DEFINE Fails(s) == \E j \in s : SizeOf(f, s) # f[j].size + SizeOf(f, s \ {j})
           T == {s \in SUBSET K : Fails(s)}
<1>1. SUFFICES ASSUME T # {} PROVE FALSE
  OBVIOUS
<1>2. PICK s \in T : \A t \in T : t \subseteq s => t = s
  <2>1. T \subseteq SUBSET K
    OBVIOUS
  <2> HIDE DEF T
  <2> QED BY <1>1, <2>1, SmallestSet
<1>3. PICK j \in s : SizeOf(f, s) # f[j].size + SizeOf(f, s \ {j})
  OBVIOUS
<1> DEFINE x == Some(s)
           rest == (s \ {x}) \ {j}
<1>4. /\ SizeOf(f, s) = f[x].size + SizeOf(f, s \ {x}) /\ x \in s
  BY <1>3, SizeOfStep
<1>5. x # j
  BY <1>3, <1>4
<1>6. SizeOf(f, s \ {x}) = f[j].size + SizeOf(f, rest)
  <2>1. s \ {x} \notin T
    BY <1>2, <1>4
  <2> QED BY <1>3, <1>5, <2>1
<1>7. SizeOf(f, s \ {j}) = f[x].size + SizeOf(f, rest)
  <2>1. s \ {j} \notin T
    BY <1>2, <1>3
  <2>2. (s \ {j}) \ {x} = rest
    OBVIOUS
  <2> QED BY <1>4, <1>5, <2>1, <2>2
<1>8. SizeOf(f, rest) \in Nat
  <2>1. IsFiniteSet(rest)
    BY FS_Subset
  <2> QED BY <2>1, SizeOfType
<1>9. f[x].size \in Nat /\ f[j].size \in Nat
  BY <1>3, <1>4
<1> QED BY <1>3, <1>4, <1>6, <1>7, <1>8, <1>9

\* And so can any part.
LEMMA SizeOfMinus ==
  ASSUME NEW f, NEW K, IsFiniteSet(K), \A j \in K : f[j].size \in Nat, NEW A \in SUBSET K
  PROVE  SizeOf(f, K) = SizeOf(f, A) + SizeOf(f, K \ A)
<1> DEFINE T == {s \in SUBSET K : SizeOf(f, K) # SizeOf(f, s) + SizeOf(f, K \ s)}
<1>0. ASSUME NEW s \in SUBSET K PROVE IsFiniteSet(s) /\ SizeOf(f, s) \in Nat
  BY FS_Subset, SizeOfType
<1>1. SUFFICES ASSUME T # {} PROVE FALSE
  OBVIOUS
<1>2. PICK s \in T : \A t \in T : t \subseteq s => t = s
  <2>1. T \subseteq SUBSET K
    OBVIOUS
  <2> HIDE DEF T
  <2> QED BY <1>1, <2>1, SmallestSet
<1>3. PICK k \in s : TRUE
  <2>1. CASE s = {}
    <3>1. K \ s = K
      BY <2>1
    <3> QED BY <1>0, <2>1, <3>1, SizeOfEmpty
  <2> QED BY <2>1
<1> DEFINE t == s \ {k}
           u == K \ t
<1>4. SizeOf(f, K) = SizeOf(f, t) + SizeOf(f, u)
  <2>1. t \notin T
    BY <1>2, <1>3
  <2> QED BY <2>1
<1>5. SizeOf(f, s) = f[k].size + SizeOf(f, t)
  BY <1>0, <1>3, SizeOfSplit
<1>6. SizeOf(f, u) = f[k].size + SizeOf(f, K \ s)
  <2>1. u \ {k} = K \ s /\ k \in u /\ u \in SUBSET K
    OBVIOUS
  <2> HIDE DEF u
  <2> QED BY <1>0, <2>1, SizeOfSplit
<1>7. f[k].size \in Nat /\ SizeOf(f, t) \in Nat /\ SizeOf(f, K \ s) \in Nat
  BY <1>0, <1>3
<1> HIDE DEF t, u
<1> QED BY <1>4, <1>5, <1>6, <1>7

-----------------------------------------------------------------------------
(* The LRU list: each key of D once.                                        *)

Listing(o, D) ==
  /\ o \in Seq(Keys) /\ {o[i] : i \in 1..Len(o)} = D
  /\ \A i, j \in 1..Len(o) : o[i] = o[j] => i = j

LEMMA ListSize ==
  ASSUME NEW o, NEW D, Listing(o, D)
  PROVE  /\ IsFiniteSet(D) /\ Cardinality(D) = Len(o) /\ Len(o) \in Nat /\ D \subseteq Keys
         /\ \A i \in 1..Len(o) : o[i] \in D
<1> DEFINE f == [i \in 1..Len(o) |-> o[i]]
<1>1. Len(o) \in Nat /\ f \in Bijection(1..Len(o), D)
  BY DEF Listing, Bijection, Injection, Surjection, IsInjective
<1>2. ExistsBijection(1..Len(o), D)
  BY <1>1 DEF ExistsBijection
<1>3. IsFiniteSet(D)
  BY <1>1, <1>2, FS_NatBijection
<1>4. Cardinality(D) = Len(o)
  BY <1>1, <1>2, FS_CountingElements
<1> QED BY <1>1, <1>3, <1>4 DEF Listing

\* list.Remove takes out the one element of the key.
LEMMA RemovedFacts ==
  ASSUME NEW o, NEW D, Listing(o, D), NEW i \in 1..Len(o)
  PROVE  /\ RemoveFirst(o, o[i]) \in Seq(Keys) /\ Len(RemoveFirst(o, o[i])) = Len(o) - 1
         /\ \A j \in 1..(Len(o) - 1) :
              RemoveFirst(o, o[i])[j] = IF j < i THEN o[j] ELSE o[j + 1]
<1> DEFINE I == {j \in 1..Len(o) : o[j] = o[i]}
<1>1. o \in Seq(Keys) /\ Len(o) \in Nat /\ \A j \in 1..Len(o) : o[j] \in Keys
  BY DEF Listing
<1>2. I = {i}
  BY DEF Listing
<1>3. SelectInSeq(o, LAMBDA v : v = o[i]) = IF I # {} THEN Min(I) ELSE 0
  BY DEF SelectInSeq
<1>4. Min(I) = i
  BY <1>2 DEF Min
<1>5. RemoveFirst(o, o[i]) = RemoveAt(o, SelectInSeq(o, LAMBDA v : v = o[i]))
  BY DEF RemoveFirst
<1>6. RemoveFirst(o, o[i]) = SubSeq(o, 1, i - 1) \o SubSeq(o, i + 1, Len(o))
  BY <1>2, <1>3, <1>4, <1>5 DEF RemoveAt
<1> DEFINE a == SubSeq(o, 1, i - 1)
           b == SubSeq(o, i + 1, Len(o))
<1>7. /\ a \in Seq(Keys) /\ Len(a) = i - 1 /\ \A j \in 1..(i - 1) : a[j] = o[j]
      /\ b \in Seq(Keys) /\ Len(b) = Len(o) - i
      /\ \A j \in 1..(Len(o) - i) : b[j] = o[i + j]
  BY <1>1
<1> HIDE DEF a, b
<1>8. /\ a \o b \in Seq(Keys) /\ Len(a \o b) = Len(o) - 1
      /\ \A j \in 1..(Len(o) - 1) : (a \o b)[j] = IF j < i THEN o[j] ELSE o[j + 1]
  <2>1. a \o b \in Seq(Keys) /\ Len(a \o b) = Len(o) - 1
    <3>1. Len(a) + Len(b) = Len(o) - 1
      BY <1>1, <1>7
    <3> QED BY <1>7, <3>1, ConcatProperties
  <2>2. ASSUME NEW j \in 1..(Len(o) - 1) PROVE (a \o b)[j] = IF j < i THEN o[j] ELSE o[j + 1]
    <3>1. CASE j < i
      BY <1>1, <1>7, <3>1
    <3>2. CASE j >= i
      <4>1. (a \o b)[j] = b[j - (i - 1)]
        BY <1>1, <1>7, <3>2
      <4>2. b[j - (i - 1)] = o[i + (j - (i - 1))]
        BY <1>1, <1>7, <3>2
      <4> QED BY <1>1, <3>2, <4>1, <4>2
    <3>3. j < i \/ j >= i
      BY <1>1
    <3> QED BY <3>1, <3>2, <3>3, Zenon
  <2> QED BY <2>1, <2>2
<1> QED BY <1>6, <1>8 DEF a, b

LEMMA ListRemove ==
  ASSUME NEW o, NEW D, Listing(o, D), NEW k \in D
  PROVE  Listing(RemoveFirst(o, k), D \ {k}) /\ Len(RemoveFirst(o, k)) = Len(o) - 1
<1>1. PICK i \in 1..Len(o) : o[i] = k
  BY DEF Listing
<1> DEFINE r == RemoveFirst(o, k)
<1>2. /\ r \in Seq(Keys) /\ Len(r) = Len(o) - 1
      /\ \A j \in 1..(Len(o) - 1) : r[j] = IF j < i THEN o[j] ELSE o[j + 1]
  BY <1>1, RemovedFacts
<1>3. Len(o) \in Nat /\ \A a, b \in 1..Len(o) : o[a] = o[b] => a = b
  BY DEF Listing
<1>4. D = {o[j] : j \in 1..Len(o)}
  BY DEF Listing
<1> HIDE DEF r
<1>5. \A a, b \in 1..Len(r) : r[a] = r[b] => a = b
  BY <1>2, <1>3
<1>6. ASSUME NEW j \in 1..Len(r) PROVE r[j] \in D \ {k}
  BY <1>1, <1>2, <1>3, <1>4
<1>7. ASSUME NEW x \in D \ {k} PROVE \E j \in 1..Len(r) : r[j] = x
  <2>1. PICK j \in 1..Len(o) : o[j] = x
    BY <1>4
  <2>2. j # i
    BY <1>1, <2>1
  <2>3. CASE j < i
    <3>1. j \in 1..Len(r) /\ r[j] = x
      BY <1>2, <1>3, <2>1, <2>3
    <3> QED BY <3>1
  <2>4. CASE j > i
    <3>1. j - 1 \in 1..Len(r) /\ r[j - 1] = x
      BY <1>2, <1>3, <2>1, <2>4
    <3> QED BY <3>1
  <2> QED BY <1>3, <2>2, <2>3, <2>4
<1>8. {r[j] : j \in 1..Len(r)} = D \ {k}
  BY <1>6, <1>7
<1> QED BY <1>2, <1>5, <1>8 DEF Listing, r

\* PushFront of a key that is not in the list.
LEMMA ListAdd ==
  ASSUME NEW o, NEW D, Listing(o, D), NEW k \in Keys \ D
  PROVE  Listing(<<k>> \o o, D \cup {k}) /\ Len(<<k>> \o o) = Len(o) + 1
<1> DEFINE r == <<k>> \o o
<1>1. o \in Seq(Keys) /\ Len(o) \in Nat /\ \A a, b \in 1..Len(o) : o[a] = o[b] => a = b
  BY DEF Listing
<1>2. D = {o[j] : j \in 1..Len(o)}
  BY DEF Listing
<1>3. /\ r \in Seq(Keys) /\ Len(r) = Len(o) + 1 /\ r[1] = k
      /\ \A j \in 1..Len(o) : r[j + 1] = o[j]
  BY <1>1
<1> HIDE DEF r
<1>4. \A j \in 1..Len(r) : j # 1 => j - 1 \in 1..Len(o) /\ r[j] = o[j - 1]
  BY <1>1, <1>3
<1>5. \A a, b \in 1..Len(r) : r[a] = r[b] => a = b
  <2> SUFFICES ASSUME NEW a \in 1..Len(r), NEW b \in 1..Len(r), r[a] = r[b] PROVE a = b
    OBVIOUS
  <2>1. a # 1 => r[a] \in D
    BY <1>2, <1>4
  <2>2. b # 1 => r[b] \in D
    BY <1>2, <1>4
  <2>3. CASE a # 1 /\ b # 1
    <3>1. a - 1 = b - 1
      BY <1>1, <1>4, <2>3
    <3> QED BY <1>1, <1>3, <3>1
  <2>4. CASE a = 1 \/ b = 1
    BY <1>3, <2>1, <2>2, <2>4
  <2> QED BY <2>3, <2>4
<1>6. ASSUME NEW j \in 1..Len(r) PROVE r[j] \in D \cup {k}
  BY <1>2, <1>3, <1>4
<1>7. ASSUME NEW x \in D \cup {k} PROVE \E j \in 1..Len(r) : r[j] = x
  <2>1. CASE x = k
    <3>1. 1 \in 1..Len(r)
      BY <1>1, <1>3
    <3> QED BY <1>3, <2>1, <3>1
  <2>2. CASE x # k
    <3>1. PICK j \in 1..Len(o) : o[j] = x
      BY <1>2, <2>2
    <3>2. j + 1 \in 1..Len(r) /\ r[j + 1] = x
      BY <1>1, <1>3, <3>1
    <3> QED BY <3>2
  <2> QED BY <2>1, <2>2
<1>8. {r[j] : j \in 1..Len(r)} = D \cup {k}
  BY <1>6, <1>7
<1> QED BY <1>3, <1>5, <1>8 DEF Listing, r

\* The n last elements taken off.
LEMMA ListCut ==
  ASSUME NEW o, NEW D, Listing(o, D), NEW n \in 0..Len(o)
  PROVE  /\ Listing(SubSeq(o, 1, Len(o) - n), D \ {o[i] : i \in (Len(o) - n + 1)..Len(o)})
         /\ Len(SubSeq(o, 1, Len(o) - n)) = Len(o) - n
<1> DEFINE r == SubSeq(o, 1, Len(o) - n)
           K == {o[i] : i \in (Len(o) - n + 1)..Len(o)}
<1>1. /\ o \in Seq(Keys) /\ Len(o) \in Nat /\ \A a, b \in 1..Len(o) : o[a] = o[b] => a = b
      /\ \A a \in 1..Len(o) : o[a] \in Keys
  BY DEF Listing
<1>2. D = {o[j] : j \in 1..Len(o)}
  BY DEF Listing
<1>3. r \in Seq(Keys) /\ Len(r) = Len(o) - n /\ \A j \in 1..(Len(o) - n) : r[j] = o[j]
  BY <1>1
<1> HIDE DEF r
<1>4. \A a, b \in 1..Len(r) : r[a] = r[b] => a = b
  BY <1>1, <1>3
<1>5. ASSUME NEW j \in 1..Len(r) PROVE r[j] \in D \ K
  BY <1>1, <1>2, <1>3
<1>6. ASSUME NEW x \in D \ K PROVE \E j \in 1..Len(r) : r[j] = x
  <2>1. PICK j \in 1..Len(o) : o[j] = x
    BY <1>2
  <2>2. j \notin (Len(o) - n + 1)..Len(o)
    BY <2>1
  <2>3. j \in 1..Len(r) /\ r[j] = x
    BY <1>1, <1>3, <2>1, <2>2
  <2> QED BY <2>3
<1>7. {r[j] : j \in 1..Len(r)} = D \ K
  BY <1>5, <1>6
<1> QED BY <1>3, <1>4, <1>7 DEF Listing, r

-----------------------------------------------------------------------------
(* put, evictOne and the closing loop.                                      *)

\* Entries are of sizes put keeps, and age down to zero.
Weighed(e) == \A k \in DOMAIN e : e[k].size \in Sizes /\ e[k].left \in 0..TTL

\* The list and the byte count of c agree with its entries.
Sound(c) ==
  Listing(c.o, DOMAIN c.e) /\ Weighed(c.e) /\ c.u = SizeOf(c.e, DOMAIN c.e)

LEMMA SizeFacts ==
  /\ MaxEntries \in Nat \ {0} /\ MaxBytes \in Nat /\ TTL \in Nat \ {0}
  /\ \A s \in Sizes : s \in Nat /\ s <= MaxBytes
BY CacheAssumption

\* The sums of a cache, all of them natural numbers.
LEMMA WeighedFacts ==
  ASSUME NEW e, Weighed(e), IsFiniteSet(DOMAIN e), NEW A \in SUBSET DOMAIN e
  PROVE  /\ IsFiniteSet(A) /\ SizeOf(e, A) \in Nat /\ \A j \in A : e[j].size \in Nat
         /\ SizeOf(e, DOMAIN e) = SizeOf(e, A) + SizeOf(e, DOMAIN e \ A)
         /\ \A k \in A : SizeOf(e, A) = e[k].size + SizeOf(e, A \ {k})
<1>1. \A j \in DOMAIN e : e[j].size \in Nat
  BY SizeFacts DEF Weighed
<1>2. IsFiniteSet(A)
  BY FS_Subset
<1> QED BY <1>1, <1>2, SizeOfType, SizeOfMinus, SizeOfSplit

LEMMA WeighedOne ==
  ASSUME NEW e, Weighed(e), IsFiniteSet(DOMAIN e), NEW A \in SUBSET DOMAIN e, NEW k \in A,
         NEW B, A \ {k} = B
  PROVE  SizeOf(e, A) = e[k].size + SizeOf(e, B)
<1>1. IsFiniteSet(A) /\ \A j \in A : e[j].size \in Nat
  BY WeighedFacts
<1>2. SizeOf(e, A) = e[k].size + SizeOf(e, A \ {k})
  BY <1>1, SizeOfSplit
<1> QED BY <1>2

LEMMA WeighedAlone ==
  ASSUME NEW e, NEW k, Weighed(e), DOMAIN e = {k}
  PROVE  SizeOf(e, DOMAIN e) = e[k].size
<1>1. IsFiniteSet(DOMAIN e) /\ DOMAIN e \in SUBSET DOMAIN e /\ k \in DOMAIN e
  BY FS_Singleton
<1>2. DOMAIN e \ {k} = {}
  OBVIOUS
<1>3. SizeOf(e, DOMAIN e) = e[k].size + SizeOf(e, {})
  BY <1>1, <1>2, WeighedOne
<1>4. e[k].size \in Nat
  BY <1>1, WeighedFacts
<1> QED BY <1>3, <1>4, SizeOfEmpty

\* Entries dropped for good: their bytes leave the count.
LEMMA WithoutSound ==
  ASSUME NEW e, NEW o, NEW r, NEW K, Weighed(e), Listing(o, DOMAIN e), Listing(r, DOMAIN e \ K)
  PROVE  /\ DOMAIN Without(e, K) = DOMAIN e \ K /\ Weighed(Without(e, K))
         /\ SizeOf(Without(e, K), DOMAIN e \ K) = SizeOf(e, DOMAIN e \ K)
<1>1. /\ DOMAIN Without(e, K) = DOMAIN e \ K
      /\ \A k \in DOMAIN e \ K : Without(e, K)[k] = e[k]
  BY DEF Without
<1>2. IsFiniteSet(DOMAIN e \ K)
  BY ListSize
<1> DEFINE f == Without(e, K)
           D == DOMAIN e \ K
<1>3. \A k \in D : f[k].size = e[k].size
  BY <1>1
<1>4. Weighed(f)
  BY <1>1 DEF Weighed
<1> HIDE DEF f, D
<1>5. SizeOf(f, D) = SizeOf(e, D)
  BY <1>2, <1>3, SizeOfSame DEF D
<1> QED BY <1>1, <1>4, <1>5 DEF f, D

\* evictOne, any number of times in a row, keeps the cache sound.
LEMMA EvictedSound ==
  ASSUME NEW c, Sound(c), NEW n \in 0..Len(c.o)
  PROVE  /\ Sound(Evicted(c, n)) /\ Evicted(c, n).u \in Nat
         /\ Evicted(c, n).o = SubSeq(c.o, 1, Len(c.o) - n)
         /\ Len(Evicted(c, n).o) = Len(c.o) - n
<1> DEFINE K == {c.o[i] : i \in (Len(c.o) - n + 1)..Len(c.o)}
           D == DOMAIN c.e
           r == SubSeq(c.o, 1, Len(c.o) - n)
<1>1. /\ Evicted(c, n).e = Without(c.e, K) /\ Evicted(c, n).o = r
      /\ Evicted(c, n).u = c.u - SizeOf(c.e, K \cap D)
  BY DEF Evicted
<1>2. Listing(c.o, D) /\ Weighed(c.e) /\ c.u = SizeOf(c.e, D)
  BY DEF Sound
<1>3. Listing(r, D \ K) /\ Len(r) = Len(c.o) - n
  BY <1>2, ListCut
<1>4. K \cap D \in SUBSET D /\ D \ (K \cap D) = D \ K
  OBVIOUS
<1> HIDE DEF K, r
<1>5. /\ DOMAIN Without(c.e, K) = D \ K /\ Weighed(Without(c.e, K))
      /\ SizeOf(Without(c.e, K), D \ K) = SizeOf(c.e, D \ K)
  BY <1>2, <1>3, WithoutSound
<1>6. /\ SizeOf(c.e, D) = SizeOf(c.e, K \cap D) + SizeOf(c.e, D \ K)
      /\ SizeOf(c.e, K \cap D) \in Nat /\ SizeOf(c.e, D \ K) \in Nat
  <2>1. IsFiniteSet(DOMAIN c.e)
    BY <1>2, ListSize
  <2>2. /\ SizeOf(c.e, D) = SizeOf(c.e, K \cap D) + SizeOf(c.e, D \ (K \cap D))
        /\ SizeOf(c.e, K \cap D) \in Nat
    BY <1>2, <1>4, <2>1, WeighedFacts
  <2>3. SizeOf(c.e, D \ K) \in Nat
    BY <1>2, <2>1, WeighedFacts
  <2> QED BY <1>4, <2>2, <2>3
<1>7. Evicted(c, n).u = SizeOf(c.e, D \ K)
  BY <1>1, <1>2, <1>6
<1> QED BY <1>1, <1>3, <1>5, <1>6, <1>7 DEF Sound, r

\* The closing loop of put stops with the new entry still in, for one entry
\* alone is within the limit.
LEMMA FitFacts ==
  ASSUME NEW c, Sound(c), Len(c.o) > 0
  PROVE  \E n \in 0..(Len(c.o) - 1) :
           EvictToFit(c) = Evicted(c, n) /\ Evicted(c, n).u <= MaxBytes
<1> DEFINE N == Len(c.o) - 1
           u(n) == Evicted(c, n).u
           Fits(n) == u(n) <= MaxBytes /\ \A m \in 0..(n - 1) : u(m) > MaxBytes
<1>1. Len(c.o) \in Nat /\ N \in 0..Len(c.o)
  BY ListSize DEF Sound
<1>2. \A n \in 0..Len(c.o) : u(n) \in Nat
  BY EvictedSound
<1>3. u(N) <= MaxBytes
  <2> DEFINE d == Evicted(c, N)
  <2>1. Sound(d) /\ Len(d.o) = 1
    <3>1. Sound(d) /\ Len(d.o) = Len(c.o) - N
      BY <1>1, EvictedSound
    <3> QED BY <1>1, <3>1
  <2> HIDE DEF d
  <2> DEFINE k == d.o[1]
  <2>2. DOMAIN d.e = {k} /\ Weighed(d.e) /\ d.u = SizeOf(d.e, DOMAIN d.e)
    BY <2>1 DEF Sound, Listing
  <2>3. SizeOf(d.e, DOMAIN d.e) = d.e[k].size
    BY <2>2, WeighedAlone
  <2>4. d.e[k].size \in Nat /\ d.e[k].size <= MaxBytes
    BY <2>2, SizeFacts DEF Weighed
  <2>5. d.u <= MaxBytes
    BY <2>2, <2>3, <2>4
  <2> QED BY <2>5 DEF d
<1>4. MaxBytes \in Nat
  BY SizeFacts
<1> HIDE DEF u
<1>5. \E n \in 0..Len(c.o) : Fits(n)
  <2> DEFINE T == {n \in 0..Len(c.o) : u(n) <= MaxBytes}
  <2>1. T \subseteq Nat /\ N \in T
    BY <1>1, <1>3
  <2> HIDE DEF T
  <2>2. PICK n \in T : \A m \in T : n <= m
    BY <2>1, LeastNatural
  <2>3. n \in 0..Len(c.o) /\ u(n) <= MaxBytes
    BY DEF T
  <2>4. ASSUME NEW m \in 0..(n - 1) PROVE u(m) > MaxBytes
    <3>1. m \in 0..Len(c.o) /\ ~ (n <= m)
      BY <1>1, <2>3
    <3>2. m \notin T
      BY <2>2, <3>1
    <3>3. ~ (u(m) <= MaxBytes)
      BY <3>1, <3>2 DEF T
    <3> QED BY <1>2, <1>4, <3>1, <3>3
  <2> QED BY <2>3, <2>4
<1> DEFINE n == CHOOSE n \in 0..Len(c.o) : Fits(n)
<1>6. n \in 0..Len(c.o) /\ Fits(n)
  BY <1>5
<1>7. EvictToFit(c) = Evicted(c, n)
  BY DEF EvictToFit, u
<1> HIDE DEF n
<1>8. n <= N
  <2>1. SUFFICES ASSUME ~ (n <= N) PROVE FALSE
    OBVIOUS
  <2>2. N \in 0..(n - 1)
    BY <1>1, <1>6, <2>1
  <2>3. u(N) > MaxBytes
    BY <1>6, <2>2
  <2> QED BY <1>1, <1>2, <1>3, <1>4, <2>3
<1>9. n \in 0..N
  BY <1>1, <1>6, <1>8
<1> QED BY <1>6, <1>7, <1>9 DEF u

LEMMA RemoveAbsent ==
  ASSUME NEW o, NEW D, Listing(o, D), NEW k, k \notin D
  PROVE  RemoveFirst(o, k) = o
BY DEF Listing, RemoveFirst

LEMMA PrefixOfPrefix ==
  ASSUME NEW r \in Seq(Keys), NEW m \in 0..Len(r), NEW j \in 0..m
  PROVE  SubSeq(SubSeq(r, 1, m), 1, j) = SubSeq(r, 1, j)
<1>1. Len(r) \in Nat /\ \A i \in 1..Len(r) : r[i] \in Keys
  OBVIOUS
<1> DEFINE a == SubSeq(r, 1, m)
           b == SubSeq(r, 1, j)
           d == SubSeq(a, 1, j)
<1>2. a \in Seq(Keys) /\ Len(a) = m /\ \A i \in 1..m : a[i] = r[i]
  BY <1>1
<1>3. b \in Seq(Keys) /\ Len(b) = j /\ \A i \in 1..j : b[i] = r[i]
  BY <1>1
<1> HIDE DEF a, b
<1>4. d \in Seq(Keys) /\ Len(d) = j /\ \A i \in 1..j : d[i] = a[i]
  BY <1>1, <1>2
<1> HIDE DEF d
<1>5. \A i \in 1..j : d[i] = b[i]
  BY <1>2, <1>3, <1>4
<1>6. d = b
  BY <1>3, <1>4, <1>5, SeqEqual
<1> QED BY <1>6 DEF a, b, d

LEMMA PrefixOfAdded ==
  ASSUME NEW r \in Seq(Keys), NEW k \in Keys, NEW j \in 0..Len(r)
  PROVE  SubSeq(<<k>> \o r, 1, j + 1) = <<k>> \o SubSeq(r, 1, j)
<1>1. Len(r) \in Nat /\ \A i \in 1..Len(r) : r[i] \in Keys
  OBVIOUS
<1> DEFINE a == <<k>> \o r
           b == SubSeq(r, 1, j)
           d == SubSeq(a, 1, j + 1)
           e == <<k>> \o b
<1>2. /\ a \in Seq(Keys) /\ Len(a) = Len(r) + 1 /\ a[1] = k
      /\ \A i \in 1..Len(r) : a[i + 1] = r[i]
  BY <1>1
<1>3. b \in Seq(Keys) /\ Len(b) = j /\ \A i \in 1..j : b[i] = r[i]
  BY <1>1
<1> HIDE DEF a, b
<1>4. d \in Seq(Keys) /\ Len(d) = j + 1 /\ \A i \in 1..(j + 1) : d[i] = a[i]
  BY <1>1, <1>2
<1>5. e \in Seq(Keys) /\ Len(e) = j + 1 /\ e[1] = k /\ \A i \in 1..j : e[i + 1] = b[i]
  BY <1>3
<1> HIDE DEF d, e
<1>6. ASSUME NEW i \in 1..(j + 1) PROVE d[i] = e[i]
  <2>1. CASE i = 1
    BY <1>2, <1>4, <1>5, <2>1
  <2>2. CASE i # 1
    <3>1. i - 1 \in 1..j /\ (i - 1) + 1 = i /\ i - 1 \in 1..Len(r)
      BY <1>1, <2>2
    <3>2. a[i] = r[i - 1] /\ e[i] = b[i - 1] /\ b[i - 1] = r[i - 1]
      BY <1>2, <1>3, <1>5, <3>1
    <3> QED BY <1>4, <3>2
  <2> QED BY <2>1, <2>2
<1>7. d = e
  BY <1>4, <1>5, <1>6, SeqEqual
<1> QED BY <1>7 DEF a, b, d, e

\* A cache with a place, and no bytes, for k.
Roomy(c, k) ==
  /\ Listing(c.o, DOMAIN c.e \ {k}) /\ Weighed(c.e)
  /\ c.u = SizeOf(c.e, DOMAIN c.e \ {k}) /\ Len(c.o) < MaxEntries

LEMMA RoomFacts ==
  ASSUME Sound(Cache), Len(order) <= MaxEntries, NEW k \in Keys
  PROVE  /\ Roomy(MakeRoom(Cache, k), k)
         /\ \E m \in 0..Len(RemoveFirst(order, k)) :
              MakeRoom(Cache, k).o = SubSeq(RemoveFirst(order, k), 1, m)
<1> DEFINE D == DOMAIN entries
           c == MakeRoom(Cache, k)
           r == RemoveFirst(order, k)
<1>1. /\ Listing(order, D) /\ Weighed(entries) /\ used = SizeOf(entries, D)
      /\ Cache.e = entries /\ Cache.o = order /\ Cache.u = used
  BY DEF Sound, Cache
<1>2. IsFiniteSet(D) /\ Cardinality(D) = Len(order) /\ Len(order) \in Nat
  BY <1>1, ListSize
<1>3. CASE k \in D
  <2>1. c = [Cache EXCEPT !.o = r, !.u = @ - entries[k].size]
    BY <1>1, <1>3 DEF MakeRoom
  <2>2. c.e = entries /\ c.o = r /\ c.u = used - entries[k].size
    BY <2>1 DEF Cache
  <2>3. Listing(r, D \ {k}) /\ Len(r) = Len(order) - 1 /\ r \in Seq(Keys)
    <3>1. Listing(r, D \ {k}) /\ Len(r) = Len(order) - 1
      BY <1>1, <1>3, ListRemove
    <3> QED BY <3>1 DEF Listing
  <2>4. /\ SizeOf(entries, D) = entries[k].size + SizeOf(entries, D \ {k})
        /\ entries[k].size \in Nat /\ SizeOf(entries, D \ {k}) \in Nat
    <3>1. D \in SUBSET D /\ k \in D
      BY <1>3
    <3>4. \A j \in D : entries[j].size \in Nat
      BY <1>1, SizeFacts DEF Weighed
    <3>2. SizeOf(entries, D) = entries[k].size + SizeOf(entries, D \ {k})
      BY <1>2, <1>3, <3>4, SizeOfSplit
    <3>3. SizeOf(entries, D \ {k}) \in Nat
      BY <1>1, <1>2, WeighedFacts
    <3> QED BY <3>1, <3>2, <3>3, <3>4
  <2> HIDE DEF c, r
  <2>5. c.u = SizeOf(entries, D \ {k})
    BY <1>1, <2>2, <2>4
  <2>6. Len(r) < MaxEntries
    BY <1>2, <2>3, SizeFacts
  <2>7. c.o = SubSeq(r, 1, Len(r)) /\ Len(r) \in 0..Len(r)
    BY <2>2, <2>3, SubSeqFull
  <2> QED BY <1>1, <2>2, <2>3, <2>5, <2>6, <2>7 DEF Roomy, c, r
<1>4. CASE k \notin D
  <2>1. r = order /\ D \ {k} = D /\ order \in Seq(Keys)
    <3>1. r = order
      BY <1>1, <1>4, RemoveAbsent
    <3> QED BY <1>1, <1>4, <3>1 DEF Listing
  <2>2. CASE Len(order) >= MaxEntries
    <3>1. order # <<>>
      BY <1>2, <2>2, SizeFacts
    <3>2. c = Evicted(Cache, 1)
      BY <1>1, <1>2, <1>4, <2>2, <3>1 DEF MakeRoom, EvictOne
    <3>3. 1 \in 0..Len(Cache.o)
      BY <1>1, <1>2, <2>2, SizeFacts
    <3> HIDE DEF c, r
    <3>4. Sound(c) /\ c.o = SubSeq(order, 1, Len(order) - 1) /\ Len(c.o) = Len(order) - 1
      BY <1>1, <3>2, <3>3, EvictedSound
    <3>5. DOMAIN c.e \subseteq DOMAIN Cache.e
      BY <3>2, EvictedFacts
    <3>6. DOMAIN c.e \ {k} = DOMAIN c.e
      BY <1>1, <1>4, <3>5
    <3>7. Roomy(c, k)
      <4>1. Len(c.o) < MaxEntries
        BY <1>2, <3>4, SizeFacts
      <4> QED BY <3>4, <3>6, <4>1 DEF Sound, Roomy
    <3>8. Len(order) - 1 \in 0..Len(r)
      BY <1>1, <1>2, <2>1, <3>3
    <3> QED BY <2>1, <3>4, <3>7, <3>8 DEF c, r
  <2>3. CASE ~ (Len(order) >= MaxEntries)
    <3>1. c = Cache
      BY <1>1, <1>2, <1>4, <2>3 DEF MakeRoom
    <3> HIDE DEF c, r
    <3>2. Len(order) < MaxEntries
      BY <1>2, <2>3, SizeFacts
    <3>3. c.o = SubSeq(r, 1, Len(r)) /\ Len(r) \in 0..Len(r)
      BY <1>1, <1>2, <2>1, <3>1, SubSeqFull
    <3> QED BY <1>1, <2>1, <3>1, <3>2, <3>3 DEF Roomy, c, r
  <2> QED BY <2>2, <2>3
<1> QED BY <1>3, <1>4

LEMMA AddSound ==
  ASSUME NEW c, NEW k \in Keys, Roomy(c, k), NEW entry,
         entry.size \in Sizes, entry.left \in 0..TTL
  PROVE  Sound([e |-> WithEntry(c.e, k, entry), o |-> <<k>> \o c.o, u |-> c.u + entry.size])
<1> DEFINE f == WithEntry(c.e, k, entry)
           B == DOMAIN c.e \ {k}
           D == B \cup {k}
<1>1. /\ Listing(c.o, B) /\ Weighed(c.e) /\ c.u = SizeOf(c.e, B)
  BY DEF Roomy
<1>2. DOMAIN f = D /\ f[k] = entry /\ \A j \in B : f[j] = c.e[j]
  BY DEF WithEntry
<1>3. Listing(<<k>> \o c.o, D)
  BY <1>1, ListAdd
<1>4. D \ {k} = B /\ k \in D /\ B \subseteq DOMAIN c.e
  OBVIOUS
<1> HIDE DEF f, B, D
<1>5. Weighed(f)
  <2>1. \A j \in D : j = k \/ j \in B
    BY <1>4
  <2> QED BY <1>1, <1>2, <1>4, <2>1 DEF Weighed
<1>6. IsFiniteSet(D) /\ IsFiniteSet(B)
  BY <1>1, <1>3, ListSize
<1>7. SizeOf(f, D) = f[k].size + SizeOf(f, B)
  <2>1. D \in SUBSET DOMAIN f
    BY <1>2
  <2>2. IsFiniteSet(DOMAIN f)
    BY <1>2, <1>6
  <2> QED BY <1>4, <1>5, <2>1, <2>2, WeighedOne
<1>8. SizeOf(f, B) = SizeOf(c.e, B) /\ SizeOf(f, B) \in Nat
  <2>1. B \in SUBSET DOMAIN f
    BY <1>2, <1>4
  <2>2. SizeOf(f, B) \in Nat
    BY <1>2, <1>5, <1>6, <2>1, WeighedFacts
  <2>3. \A j \in B : f[j].size = c.e[j].size
    BY <1>2
  <2> QED BY <1>6, <2>2, <2>3, SizeOfSame
<1>9. c.u + entry.size = SizeOf(f, D)
  BY <1>1, <1>2, <1>7, <1>8, SizeFacts
<1> QED BY <1>2, <1>3, <1>5, <1>9 DEF Sound, f

\* put keeps the cache sound and within both limits; of the other keys it keeps
\* the most recently used.
LEMMA StoreSound ==
  ASSUME Sound(Cache), Len(order) <= MaxEntries, NEW k \in Keys,
         NEW entry, entry.size \in Sizes, entry.left \in 0..TTL, Store(k, entry)
  PROVE  /\ Sound([e |-> entries', o |-> order', u |-> used'])
         /\ used' <= MaxBytes /\ Len(order') <= MaxEntries
         /\ \E n \in 0..Len(RemoveFirst(order, k)) :
              n < MaxEntries /\ order' = <<k>> \o SubSeq(RemoveFirst(order, k), 1, n)
<1> DEFINE c == MakeRoom(Cache, k)
           r == RemoveFirst(order, k)
           d == [e |-> WithEntry(c.e, k, entry), o |-> <<k>> \o c.o, u |-> c.u + entry.size]
<1>1. PICK m \in 0..Len(r) : c.o = SubSeq(r, 1, m)
  BY RoomFacts
<1>2. Roomy(c, k)
  BY RoomFacts
<1>3. entries' = EvictToFit(d).e /\ order' = EvictToFit(d).o /\ used' = EvictToFit(d).u
  BY DEF Store, Assign
<1>4. d.o = <<k>> \o c.o
  OBVIOUS
<1>5. r \in Seq(Keys)
  <2>1. Listing(order, DOMAIN entries)
    BY DEF Sound, Cache
  <2>2. CASE k \in DOMAIN entries
    BY <2>1, <2>2, ListRemove DEF Listing
  <2>3. CASE k \notin DOMAIN entries
    BY <2>1, <2>3, RemoveAbsent DEF Listing
  <2> QED BY <2>2, <2>3
<1> HIDE DEF c, r
<1>6. Sound(d)
  BY <1>2, AddSound
<1> HIDE DEF d
<1>7. c.o \in Seq(Keys) /\ Len(c.o) \in Nat /\ Len(c.o) = m /\ Len(c.o) < MaxEntries
  <2>1. Len(r) \in Nat /\ \A i \in 1..Len(r) : r[i] \in Keys
    BY <1>5
  <2>2. Len(SubSeq(r, 1, m)) = m
    BY <2>1, <1>5
  <2> QED BY <1>1, <1>2, <2>2 DEF Roomy, Listing
<1>8. Len(d.o) = Len(c.o) + 1
  <2>1. <<k>> \in Seq(Keys) /\ Len(<<k>>) = 1
    OBVIOUS
  <2>2. Len(<<k>> \o c.o) = Len(<<k>>) + Len(c.o)
    BY <1>7, <2>1, ConcatProperties
  <2> QED BY <1>4, <1>7, <2>1, <2>2
<1>9. PICK n \in 0..(Len(d.o) - 1) :
        EvictToFit(d) = Evicted(d, n) /\ Evicted(d, n).u <= MaxBytes
  BY <1>6, <1>7, <1>8, FitFacts
<1>10. n \in 0..Len(c.o) /\ n \in 0..Len(d.o)
  BY <1>7, <1>8
<1>11. /\ Sound(Evicted(d, n)) /\ Evicted(d, n).o = SubSeq(d.o, 1, Len(d.o) - n)
       /\ Len(Evicted(d, n).o) = Len(d.o) - n
  BY <1>6, <1>10, EvictedSound
<1>12. Sound([e |-> entries', o |-> order', u |-> used'])
  BY <1>3, <1>9, <1>11 DEF Sound
<1>13. Len(order') <= MaxEntries
  BY <1>3, <1>7, <1>8, <1>9, <1>10, <1>11, SizeFacts
<1> DEFINE j == Len(c.o) - n
<1>14. j \in 0..Len(c.o) /\ j \in 0..m /\ j \in 0..Len(r) /\ j < MaxEntries /\ Len(d.o) - n = j + 1
  BY <1>1, <1>5, <1>7, <1>8, <1>10, SizeFacts
<1> HIDE DEF j
<1>15. order' = SubSeq(<<k>> \o c.o, 1, j + 1)
  BY <1>3, <1>4, <1>9, <1>11, <1>14
<1>16. order' = <<k>> \o SubSeq(c.o, 1, j)
  BY <1>7, <1>14, <1>15, PrefixOfAdded
<1>17. SubSeq(c.o, 1, j) = SubSeq(r, 1, j)
  BY <1>1, <1>5, <1>14, PrefixOfPrefix
<1> QED BY <1>3, <1>9, <1>12, <1>13, <1>14, <1>16, <1>17 DEF r

-----------------------------------------------------------------------------
(* The books through every step.                                            *)

\* What is about to be put is of a size put keeps, and no lookup is of a policy
\* generation yet to come.
Answers ==
  \A p \in Procs : /\ proc[p].made <= epoch
                   /\ proc[p].pc = "put" => proc[p].size \in Sizes

Books == Sound(Cache) /\ Len(order) <= MaxEntries /\ used <= MaxBytes

BooksInv == CacheInv /\ Books /\ Answers

LEMMA SoundCache ==
  /\ Sound(Cache) <=> /\ Listing(order, DOMAIN entries) /\ Weighed(entries)
                      /\ used = SizeOf(entries, DOMAIN entries)
  /\ Sound(Cache)' <=> /\ Listing(order', DOMAIN entries') /\ Weighed(entries')
                       /\ used' = SizeOf(entries', DOMAIN entries')
BY DEF Sound, Cache

LEMMA BooksKept ==
  ASSUME Books, UNCHANGED <<entries, order, used>>
  PROVE  Books'
BY SoundCache DEF Books

LEMMA GetBooks ==
  ASSUME Books, NEW p \in Procs, NEW k \in Keys, Get(p, k)
  PROVE  Books'
<1> DEFINE D == DOMAIN entries
           r == RemoveFirst(order, k)
<1>1. /\ Listing(order, D) /\ Weighed(entries) /\ used = SizeOf(entries, D)
      /\ Len(order) <= MaxEntries /\ used <= MaxBytes
  BY SoundCache DEF Books
<1>2. IsFiniteSet(D) /\ Len(order) \in Nat
  BY <1>1, ListSize
<1>3. CASE Live(k)
  <2>1. k \in D /\ entries' = entries /\ used' = used /\ order' = <<k>> \o r
    BY <1>3 DEF Get, Assign, Cache, Live, MovedUp
  <2>2. Listing(r, D \ {k}) /\ Len(r) = Len(order) - 1
    BY <1>1, <2>1, ListRemove
  <2>3. (D \ {k}) \cup {k} = D /\ k \in Keys \ (D \ {k})
    BY <2>1
  <2> HIDE DEF r, D
  <2>4. Listing(order', D) /\ Len(order') = Len(r) + 1
    BY <2>1, <2>2, <2>3, ListAdd
  <2>5. Len(order') <= MaxEntries
    BY <1>1, <1>2, <2>2, <2>4, SizeFacts
  <2>6. Sound(Cache)'
    BY <1>1, <2>1, <2>4, SoundCache DEF D
  <2> QED BY <1>1, <2>1, <2>5, <2>6 DEF Books
<1>4. CASE ~Live(k) /\ k \in D
  <2>1. /\ entries' = Without(entries, {k}) /\ order' = r /\ used' = used - entries[k].size
    BY <1>4 DEF Get, Assign, Forget
  <2>2. Listing(r, D \ {k}) /\ Len(r) = Len(order) - 1
    BY <1>1, <1>4, ListRemove
  <2>3. /\ DOMAIN entries' = D \ {k} /\ Weighed(entries')
        /\ SizeOf(entries', D \ {k}) = SizeOf(entries, D \ {k})
    BY <1>1, <2>1, <2>2, WithoutSound
  <2>4. \A j \in D : entries[j].size \in Nat
    BY <1>1, SizeFacts DEF Weighed
  <2>5. SizeOf(entries, D) = entries[k].size + SizeOf(entries, D \ {k})
    BY <1>2, <1>4, <2>4, SizeOfSplit
  <2>6. SizeOf(entries, D \ {k}) \in Nat /\ entries[k].size \in Nat
    BY <1>1, <1>2, <1>4, <2>4, WeighedFacts
  <2> HIDE DEF r, D
  <2>7. used' = SizeOf(entries', D \ {k}) /\ used' <= MaxBytes
    BY <1>1, <2>1, <2>3, <2>5, <2>6, SizeFacts
  <2>8. Len(order') <= MaxEntries
    BY <1>1, <1>2, <2>1, <2>2, SizeFacts
  <2>9. Sound(Cache)'
    BY <2>1, <2>2, <2>3, <2>7, SoundCache
  <2> QED BY <2>7, <2>8, <2>9 DEF Books
<1>5. CASE ~Live(k) /\ k \notin D
  <2>1. UNCHANGED <<entries, order, used>>
    BY <1>5 DEF Get, Assign, Cache
  <2> QED BY <2>1, BooksKept
<1> QED BY <1>3, <1>4, <1>5

LEMMA PutBooks ==
  ASSUME BooksInv, NEW p \in Procs, Put(p)
  PROVE  Books'
<1> DEFINE k == proc[p].key
           entry == [left |-> TTL, size |-> proc[p].size,
                     made |-> proc[p].made, checked |-> proc[p].checked]
<1>1. Store(k, entry) /\ proc[p].pc = "put"
  BY DEF Put
<1>2. k \in Keys
  BY <1>1, ProcFacts DEF BooksInv
<1>3. entry.size \in Sizes /\ entry.left \in 0..TTL
  BY <1>1, SizeFacts DEF BooksInv, Answers
<1> HIDE DEF k, entry
<1>4. /\ Sound([e |-> entries', o |-> order', u |-> used'])
      /\ used' <= MaxBytes /\ Len(order') <= MaxEntries
  BY <1>1, <1>2, <1>3, StoreSound DEF BooksInv, Books
<1>5. Sound(Cache)'
  BY <1>4, SoundCache DEF Sound
<1> QED BY <1>4, <1>5 DEF Books

LEMMA ClearBooks ==
  ASSUME Clear
  PROVE  Books'
<1>1. entries' = <<>> /\ order' = <<>> /\ used' = 0
  BY DEF Clear
<1>2. DOMAIN entries' = {} /\ Len(order') = 0
  BY <1>1, EmptyDomain
<1>3. order' \in Seq(Keys)
  BY <1>1
<1>4. Listing(order', DOMAIN entries')
  BY <1>2, <1>3 DEF Listing
<1>5. Weighed(entries')
  BY <1>2 DEF Weighed
<1>6. used' = SizeOf(entries', DOMAIN entries')
  BY <1>1, <1>2, SizeOfEmpty
<1> QED BY <1>1, <1>2, <1>4, <1>5, <1>6, SoundCache, SizeFacts DEF Books

LEMMA TickBooks ==
  ASSUME Books, Tick
  PROVE  Books'
<1>1. /\ entries' = [k \in DOMAIN entries |-> Aged(entries[k])] /\ UNCHANGED <<order, used>>
  BY DEF Tick
<1>2. /\ Listing(order, DOMAIN entries) /\ Weighed(entries)
      /\ used = SizeOf(entries, DOMAIN entries)
      /\ Len(order) <= MaxEntries /\ used <= MaxBytes
  BY SoundCache DEF Books
<1>3. /\ DOMAIN entries' = DOMAIN entries
      /\ \A k \in DOMAIN entries : /\ entries'[k].size = entries[k].size
                                   /\ entries'[k].left = IF entries[k].left > 0
                                                         THEN entries[k].left - 1 ELSE 0
  BY <1>1 DEF Aged
<1>4. Weighed(entries')
  BY <1>2, <1>3, SizeFacts DEF Weighed
<1>5. SizeOf(entries', DOMAIN entries) = SizeOf(entries, DOMAIN entries)
  BY <1>2, <1>3, ListSize, SizeOfSame
<1>6. Sound(Cache)'
  BY <1>1, <1>2, <1>3, <1>4, <1>5, SoundCache
<1> QED BY <1>1, <1>2, <1>6 DEF Books

LEMMA InitBooks ==
  ASSUME Init
  PROVE  Books /\ Answers
<1>1. entries = <<>> /\ order = <<>> /\ used = 0
  BY DEF Init
<1>2. DOMAIN entries = {} /\ Len(order) = 0
  BY <1>1, EmptyDomain
<1>3. order \in Seq(Keys)
  BY <1>1
<1>4. Listing(order, DOMAIN entries)
  BY <1>2, <1>3 DEF Listing
<1>5. Weighed(entries)
  BY <1>2 DEF Weighed
<1>6. used = SizeOf(entries, DOMAIN entries)
  BY <1>1, <1>2, SizeOfEmpty
<1>7. Answers
  BY DEF Init, Idle, Answers
<1> QED BY <1>1, <1>2, <1>4, <1>5, <1>6, <1>7, SoundCache, SizeFacts DEF Books

-----------------------------------------------------------------------------
(* Sizes and generations of the answers under way.                          *)

LEMMA MadeFacts ==
  ASSUME BooksInv, NEW p \in Procs
  PROVE  /\ proc \in [Procs -> Proc] /\ proc[p] \in Proc /\ epoch \in Nat /\ epoch \in Int
         /\ proc[p].made \in Int /\ proc[p].made <= epoch
         /\ (proc[p].pc = "put" => proc[p].size \in Sizes)
         /\ Idle.made <= epoch /\ Idle.pc = "idle"
<1>1. CacheInv /\ Answers
  BY DEF BooksInv
<1>2. proc[p].made \in 0..MaxEpoch /\ epoch \in 0..MaxEpoch
  BY <1>1, ProcFacts
<1> QED BY <1>1, <1>2, ProcFacts, NoneFacts DEF Answers, Idle

LEMMA AnswersStep ==
  ASSUME BooksInv, [Next]_vars
  PROVE  Answers'
<1>1. ASSUME epoch' >= epoch, epoch' \in Int,
             \A q \in Procs : \/ proc'[q] = proc[q]
                              \/ /\ proc'[q].made <= epoch'
                                 /\ proc'[q].pc = "put" => proc'[q].size \in Sizes
      PROVE  Answers'
  BY <1>1, MadeFacts DEF Answers
<1>2. ASSUME NEW p \in Procs, epoch' = epoch,
             \A q \in Procs : \/ proc'[q] = proc[q]
                              \/ proc'[q].pc # "put" /\ proc'[q].made \in {0, proc[q].made, epoch}
      PROVE  Answers'
  BY <1>1, <1>2, MadeFacts
<1>3. ASSUME NEW p \in Procs, Step(p) PROVE Answers'
  <2>1. CASE Peek(p) \/ Join(p) \/ Own(p) \/ Lookup(p) \/ Put(p) \/ Finish(p)
    <3>1. epoch' = epoch
      BY <2>1 DEF Peek, Join, Own, Lookup, Put, Finish
    <3>2. \A q \in Procs : \/ proc'[q] = proc[q]
                           \/ proc'[q].pc # "put" /\ proc'[q].made \in {0, proc[q].made, epoch}
      <4>1. CASE Peek(p)
        <5> DEFINE x == [Idle EXCEPT !.pc = "fresh", !.key = proc[p].key]
        <5>1. \/ proc' = [proc EXCEPT ![p] = Idle]
              \/ \E r \in Refreshers : proc' = [proc EXCEPT ![p] = Idle, ![r] = x]
          BY <4>1 DEF Peek
        <5>2. x.made = 0 /\ x.pc = "fresh" /\ Idle.made = 0 /\ Idle.pc = "idle"
          BY DEF Idle
        <5> HIDE DEF x
        <5>3. proc \in [Procs -> Proc]
          BY <1>3, MadeFacts
        <5>4. \A q \in Procs : proc'[q] \in {proc[q], Idle, x}
          BY <5>1, <5>3
        <5> QED BY <5>2, <5>4
      <4>2. CASE Join(p)
        BY <4>2, MadeFacts DEF Join, Proc
      <4>3. CASE Own(p)
        BY <4>3, MadeFacts DEF Own, Proc
      <4>4. CASE Lookup(p)
        BY <4>4, MadeFacts DEF Lookup, Proc
      <4>5. CASE Put(p)
        BY <4>5, MadeFacts DEF Put, Proc
      <4>6. CASE Finish(p)
        BY <4>6 DEF Finish, Idle
      <4> QED BY <2>1, <4>1, <4>2, <4>3, <4>4, <4>5, <4>6
    <3> QED BY <1>2, <3>1, <3>2
  <2>2. CASE Check(p)
    <3> DEFINE pc == IF proc[p].size > 0 /\ Valid(p) THEN "put" ELSE "finish"
    <3>1. /\ proc' = [proc EXCEPT ![p].checked = epoch, ![p].pc = pc] /\ epoch' = epoch
      BY <2>2 DEF Check
    <3>2. pc = "put" => proc[p].size > 0
      OBVIOUS
    <3> HIDE DEF pc
    <3>3. /\ \A q \in Procs : q # p => proc'[q] = proc[q]
          /\ proc'[p].pc = pc /\ proc'[p].size = proc[p].size /\ proc'[p].made = proc[p].made
      BY <3>1, MadeFacts DEF Proc
    <3>4. proc[p].size \in Sizes \cup {0}
      BY MadeFacts DEF Proc
    <3>5. pc = "put" => proc[p].size \in Sizes
      BY <3>2, <3>4
    <3> QED BY <1>1, <3>1, <3>3, <3>5, MadeFacts
  <2> QED BY <1>3, <2>1, <2>2 DEF Step
<1>4. ASSUME NEW p \in Procs, NEW k \in Keys, Get(p, k) PROVE Answers'
  <2>1. epoch' = epoch
    BY <1>4 DEF Get
  <2>2. \A q \in Procs : \/ proc'[q] = proc[q]
                         \/ proc'[q].pc # "put" /\ proc'[q].made \in {0, proc[q].made, epoch}
    BY <1>4, MadeFacts DEF Get, Idle
  <2> QED BY <1>2, <2>1, <2>2
<1>5. CASE Clear
  <2>1. epoch' = epoch + 1 /\ proc' = proc
    BY <1>5 DEF Clear
  <2>2. epoch \in Int
    BY DEF BooksInv, CacheInv, FlightTypes
  <2> QED BY <1>1, <2>1, <2>2
<1>6. CASE Tick \/ UNCHANGED vars
  <2>1. epoch' = epoch /\ proc' = proc
    BY <1>6 DEF Tick, vars
  <2> QED BY <2>1 DEF BooksInv, Answers
<1> QED BY <1>3, <1>4, <1>5, <1>6 DEF Next

\* The list, the byte count and both limits survive every step.
THEOREM BooksInvariant == Spec => []BooksInv
<1>1. Init => BooksInv
  BY InitOK, InitBooks DEF BooksInv
<1>2. ASSUME BooksInv, CacheInv', [Next]_vars PROVE BooksInv'
  <2>1. Answers'
    BY <1>2, AnswersStep
  <2>2. Books'
    <3>0. Books
      BY <1>2 DEF BooksInv
    <3>1. ASSUME NEW p \in Procs, Step(p) PROVE Books'
      <4>1. CASE Put(p)
        BY <1>2, <4>1, PutBooks
      <4>2. CASE ~Put(p)
        <5>1. UNCHANGED <<entries, order, used>>
          BY <3>1, <4>2 DEF Step, Peek, Join, Own, Lookup, Check, Finish
        <5> QED BY <3>0, <5>1, BooksKept
      <4> QED BY <4>1, <4>2
    <3>2. CASE UNCHANGED vars
      <4>1. UNCHANGED <<entries, order, used>>
        BY <3>2 DEF vars
      <4> QED BY <3>0, <4>1, BooksKept
    <3> QED BY <1>2, <3>0, <3>1, <3>2, GetBooks, ClearBooks, TickBooks DEF Next
  <2> QED BY <1>2, <2>1, <2>2 DEF BooksInv
<1> QED BY <1>1, <1>2, CacheInvariant, PTL DEF Spec

\* usedBytes, the LRU list and the entries agree, within both limits of the
\* cache, after any sequence of hits, lazy expiry, replacement, eviction, aging
\* and clear, for any limits and any number of keys (cache.go).
THEOREM CacheBookkeeping == Spec => []Bookkeeping
<1>1. BooksInv => Bookkeeping
  <2> SUFFICES ASSUME BooksInv PROVE Bookkeeping
    OBVIOUS
  <2>1. /\ Listing(order, DOMAIN entries) /\ used = SizeOf(entries, DOMAIN entries)
        /\ Len(order) <= MaxEntries /\ used <= MaxBytes
    BY SoundCache DEF BooksInv, Books
  <2>2. Cardinality(DOMAIN entries) <= MaxEntries
    BY <2>1, ListSize
  <2>3. OrderMatchesEntries
    BY <2>1 DEF Listing, OrderMatchesEntries
  <2> QED BY <2>1, <2>2, <2>3 DEF Bookkeeping, UsedBytesExact, WithinLimits
<1> QED BY <1>1, BooksInvariant, PTL

-----------------------------------------------------------------------------
(* The memory of AnswerMemory, step by step.                                *)

Known == [k \in DOMAIN entries |-> entries[k].left]

Asked == [k \in Keys |-> Stage(k)]

\* The library operators as the instance of AnswerMemory sees them.
LEMMA SameRemove ==
  ASSUME NEW o, NEW D, Listing(o, D), NEW k
  PROVE  M!RemoveFirst(o, k) = RemoveFirst(o, k)
<1>1. CASE \E i \in 1..Len(o) : o[i] = k
  <2>1. PICK i \in 1..Len(o) : o[i] = k
    BY <1>1
  <2> DEFINE I == {j \in 1..Len(o) : o[j] = k}
  <2>2. I = {i}
    BY <2>1 DEF Listing
  <2>3. M!SelectInSeq(o, LAMBDA v : v = k) = IF I # {} THEN M!Min(I) ELSE 0
    BY DEF M!SelectInSeq
  <2>4. SelectInSeq(o, LAMBDA v : v = k) = IF I # {} THEN Min(I) ELSE 0
    BY DEF SelectInSeq
  <2>5. M!Min(I) = i
    BY <2>2 DEF M!Min
  <2>6. Min(I) = i
    BY <2>2 DEF Min
  <2>7. M!RemoveFirst(o, k) = M!RemoveAt(o, M!SelectInSeq(o, LAMBDA v : v = k))
    BY <1>1 DEF M!RemoveFirst
  <2>8. RemoveFirst(o, k) = RemoveAt(o, SelectInSeq(o, LAMBDA v : v = k))
    BY <1>1 DEF RemoveFirst
  <2> QED BY <2>2, <2>3, <2>4, <2>5, <2>6, <2>7, <2>8 DEF RemoveAt, M!RemoveAt
<1>2. CASE ~ \E i \in 1..Len(o) : o[i] = k
  BY <1>2 DEF RemoveFirst, M!RemoveFirst
<1> QED BY <1>1, <1>2

LEMMA SameToSet ==
  ASSUME NEW o, NEW D, Listing(o, D)
  PROVE  M!ToSet(o) = D
<1>1. DOMAIN o = 1..Len(o)
  BY DEF Listing
<1> QED BY <1>1 DEF M!ToSet, Listing

LEMMA BooksFacts ==
  ASSUME BooksInv
  PROVE  /\ CacheInv /\ Listing(order, DOMAIN entries) /\ Weighed(entries)
         /\ M!ToSet(order) = DOMAIN entries
         /\ \A k : M!Others(k) = RemoveFirst(order, k)
         /\ \A k \in DOMAIN entries : Known[k] = entries[k].left /\ Known[k] \in 0..TTL
         /\ DOMAIN Known = DOMAIN entries
<1>1. CacheInv /\ Listing(order, DOMAIN entries) /\ Weighed(entries)
  BY SoundCache DEF BooksInv, Books
<1>2. M!ToSet(order) = DOMAIN entries
  BY <1>1, SameToSet
<1>3. \A k : M!Others(k) = RemoveFirst(order, k)
  BY <1>1, SameRemove DEF M!Others
<1> QED BY <1>1, <1>2, <1>3 DEF Known, Weighed

\* The owner of a flight, and how far its lookup is.
LEMMA StageFacts ==
  ASSUME CacheInv, NEW k \in Keys
  PROVE  /\ flights[k] = None => Stage(k) = "none"
         /\ flights[k] # None => /\ flights[k] \in Procs /\ proc[flights[k]].pc \in Owning
                                 /\ proc[flights[k]].key = k
         /\ \A p \in Procs : proc[p].pc \in Owning /\ proc[p].key = k =>
              /\ flights[k] = p
              /\ Stage(k) = IF proc[p].pc = "put"
                            THEN IF proc[p].checked = epoch THEN "vouched" ELSE "late"
                            ELSE IF proc[p].pc = "finish" THEN "over"
                            ELSE IF proc[p].made = epoch THEN "current" ELSE "overtaken"
<1>1. flights[k] = None => Stage(k) = "none"
  BY DEF Stage
<1>2. flights[k] # None => flights[k] \in Procs
  BY ProcFacts, NoneFacts DEF CacheInv, FlightTypes
<1>3. \A p \in Procs : proc[p].pc \in Owning /\ proc[p].key = k <=> flights[k] = p
  BY DEF CacheInv, SingleFlight
<1>4. \A p \in Procs : flights[k] = p => p # None
  BY NoneFacts
<1> QED BY <1>1, <1>2, <1>3, <1>4 DEF Stage

\* A step that touches at most the owner of one key moves that key alone.
LEMMA AskedStep ==
  ASSUME CacheInv, epoch' = epoch, NEW k \in Keys,
         \A j \in Keys : j # k => flights'[j] = flights[j],
         \A q \in Procs : proc[q].pc \in Owning /\ proc[q].key # k => proc'[q] = proc[q]
  PROVE  Asked' = [Asked EXCEPT ![k] = Stage(k)']
<1>1. ASSUME NEW j \in Keys, j # k PROVE Stage(j)' = Stage(j)
  <2>1. flights'[j] = flights[j]
    BY <1>1
  <2>2. flights[j] = None \/ proc'[flights[j]] = proc[flights[j]]
    BY <1>1, StageFacts
  <2> QED BY <2>1, <2>2 DEF Stage
<1>2. \A j \in Keys : Asked'[j] = IF j = k THEN Stage(k)' ELSE Asked[j]
  BY <1>1 DEF Asked
<1> QED BY <1>2 DEF Asked

LEMMA AskedSame ==
  ASSUME CacheInv, epoch' = epoch, flights' = flights,
         \A q \in Procs : proc[q].pc \in Owning => proc'[q] = proc[q]
  PROVE  Asked' = Asked
<1>1. ASSUME NEW j \in Keys PROVE Stage(j)' = Stage(j)
  <2>1. flights[j] = None \/ proc'[flights[j]] = proc[flights[j]]
    BY StageFacts
  <2> QED BY <2>1 DEF Stage
<1> QED BY <1>1 DEF Asked

LEMMA KnownSame ==
  ASSUME UNCHANGED entries
  PROVE  Known' = Known
BY DEF Known

LEMMA StutterMemory ==
  ASSUME Asked' = Asked, UNCHANGED <<entries, order>>
  PROVE  UNCHANGED M!memoryVars
<1>1. Known' = Known /\ order' = order
  BY KnownSame
<1> QED BY <1>1 DEF M!memoryVars, Known, Asked

\* One move of a lookup that leaves what is remembered alone.
LEMMA MoveMemory ==
  ASSUME UNCHANGED <<entries, order>>, NEW k \in Keys,
         Asked' = [Asked EXCEPT ![k] = Stage(k)'],
         \/ Stage(k) = "none" /\ Stage(k)' = "current"
         \/ Stage(k) = "current" /\ Stage(k)' = "vouched"
         \/ Stage(k) \in {"current", "overtaken"} /\ Stage(k)' = "over"
         \/ Stage(k) = "over" /\ Stage(k)' = "none"
  PROVE  M!RefillNext
<1>1. Known' = Known /\ order' = order
  BY KnownSame
<1>2. Asked[k] = Stage(k)
  BY DEF Asked
<1>3. M!Begins(k) \/ M!Vouches(k) \/ M!Fails(k) \/ M!Returns(k)
  BY <1>1, <1>2 DEF M!Begins, M!Vouches, M!Fails, M!Returns, M!Moves, Known, Asked
<1> QED BY <1>3 DEF M!RefillNext, M!MemoryNext

LEMMA GetMemory ==
  ASSUME BooksInv, BooksInv', NEW p \in Procs, NEW k \in Keys, Get(p, k)
  PROVE  M!RefillNext \/ UNCHANGED M!memoryVars
<1>1. Asked' = Asked
  <2>1. CacheInv /\ epoch' = epoch /\ flights' = flights /\ proc[p].pc = "idle"
    BY DEF BooksInv, Get
  <2>2. \A q \in Procs : q # p => proc'[q] = proc[q]
    BY MadeFacts DEF Get
  <2> QED BY <2>1, <2>2, AskedSame DEF Owning
<1>2. CASE Live(k)
  <2>1. /\ order' = <<k>> \o RemoveFirst(order, k) /\ entries' = entries
        /\ k \in DOMAIN entries /\ entries[k].left > 0
    BY <1>2 DEF Get, Assign, Cache, Live, MovedUp
  <2>2. M!Use(k)
    BY <1>1, <2>1, BooksFacts, KnownSame DEF M!Use, Known, Asked
  <2> QED BY <2>2 DEF M!RefillNext, M!MemoryNext
<1>3. CASE ~Live(k) /\ k \in DOMAIN entries
  <2>1. /\ order' = RemoveFirst(order, k) /\ entries' = Without(entries, {k})
        /\ ~ (entries[k].left > 0)
    BY <1>3 DEF Get, Assign, Forget, Live
  <2>2. Known[k] = 0
    BY <1>3, <2>1, BooksFacts, SizeFacts
  <2>3. Listing(order', DOMAIN entries')
    BY SoundCache DEF BooksInv, Books
  <2>4. M!ToSet(order') = DOMAIN entries'
    BY <2>3, SameToSet
  <2>5. Known' = [j \in DOMAIN entries' |-> Known[j]]
    BY <2>1 DEF Known, Without
  <2>6. Known' = M!OnlyOf(order')
    BY <2>4, <2>5 DEF M!OnlyOf, Known
  <2>7. M!Forgotten(k)
    BY <1>1, <1>3, <2>1, <2>2, <2>6, BooksFacts DEF M!Forgotten, Known, Asked
  <2> QED BY <2>7 DEF M!RefillNext, M!MemoryNext
<1>4. CASE ~Live(k) /\ k \notin DOMAIN entries
  <2>1. UNCHANGED <<entries, order>>
    BY <1>4 DEF Get, Assign, Cache
  <2> QED BY <1>1, <2>1, StutterMemory
<1> QED BY <1>2, <1>3, <1>4

LEMMA PutMemory ==
  ASSUME BooksInv, BooksInv', NEW p \in Procs, Put(p)
  PROVE  M!RefillNext
<1>0. PICK k \in Keys : k = proc[p].key
  BY ProcFacts DEF BooksInv, Put
<1> DEFINE entry == [left |-> TTL, size |-> proc[p].size,
                     made |-> proc[p].made, checked |-> proc[p].checked]
           r == RemoveFirst(order, k)
<1>1. /\ Store(k, entry) /\ proc[p].pc = "put" /\ UNCHANGED <<flights, epoch>>
      /\ proc' = [proc EXCEPT ![p].pc = "finish"]
  BY <1>0 DEF Put
<1>2. CacheInv /\ proc \in [Procs -> Proc]
  BY ProcFacts DEF BooksInv
<1>3. entry.size \in Sizes /\ entry.left \in 0..TTL /\ entry.left = TTL
  BY <1>1, SizeFacts DEF BooksInv, Answers
<1>4. proc'[p].pc = "finish" /\ proc'[p].key = k /\ \A q \in Procs : q # p => proc'[q] = proc[q]
  BY <1>0, <1>1, <1>2 DEF Proc
<1>5. flights[k] = p /\ Stage(k) \in {"vouched", "late"}
  BY <1>0, <1>1, <1>2, StageFacts DEF Owning
<1> HIDE DEF entry
<1>6. Stage(k)' = "over"
  BY <1>1, <1>4, <1>5, NoneFacts DEF Stage
<1>7. Asked' = [Asked EXCEPT ![k] = "over"]
  <2>1. \A q \in Procs : proc[q].key # k => proc'[q] = proc[q]
    BY <1>0, <1>4
  <2>2. epoch' = epoch /\ \A j \in Keys : j # k => flights'[j] = flights[j]
    BY <1>1
  <2>3. Asked' = [Asked EXCEPT ![k] = Stage(k)']
    BY <1>2, <2>1, <2>2, AskedStep
  <2> QED BY <1>6, <2>3
<1>8. PICK n \in 0..Len(r) : n < MaxEntries /\ order' = <<k>> \o SubSeq(r, 1, n)
  BY <1>1, <1>2, <1>3, StoreSound DEF BooksInv, Books
<1>9. /\ DOMAIN entries' \subseteq DOMAIN entries \cup {k}
      /\ \A j \in DOMAIN entries' : entries'[j] = IF j = k THEN entry ELSE entries[j]
  BY <1>1, StoreFacts
<1> DEFINE kept == SubSeq(r, 1, n)
<1>10. DOMAIN entries' = {k} \cup M!ToSet(kept)
  <2>1. Listing(order', DOMAIN entries')
    BY SoundCache DEF BooksInv, Books
  <2>2. r \in Seq(Keys)
    <3>1. Listing(order, DOMAIN entries)
      BY BooksFacts
    <3>2. CASE k \in DOMAIN entries
      BY <3>1, <3>2, ListRemove DEF Listing
    <3>3. CASE k \notin DOMAIN entries
      <4>1. r = order
        BY <3>1, <3>3, RemoveAbsent
      <4> QED BY <3>1, <4>1 DEF Listing
    <3> QED BY <3>2, <3>3
  <2> HIDE DEF r
  <2>3. kept \in Seq(Keys) /\ Len(kept) = n
    <3>1. Len(r) \in Nat /\ \A i \in 1..Len(r) : r[i] \in Keys
      BY <2>2
    <3> QED BY <2>2, <3>1
  <2> HIDE DEF kept
  <2>4. /\ order' \in Seq(Keys) /\ Len(order') = n + 1 /\ order'[1] = k
        /\ \A i \in 1..n : order'[i + 1] = kept[i]
    BY <1>2, <1>8, <2>3 DEF kept
  <2>5. DOMAIN kept = 1..n /\ n \in Nat
    BY <2>3
  <2>6. M!ToSet(kept) = {kept[i] : i \in 1..n}
    BY <2>5 DEF M!ToSet
  <2>7. DOMAIN entries' = {order'[i] : i \in 1..(n + 1)}
    BY <2>1, <2>4 DEF Listing
  <2>8. ASSUME NEW i \in 1..(n + 1) PROVE order'[i] \in {k} \cup M!ToSet(kept)
    <3>1. CASE i = 1
      BY <2>4, <3>1
    <3>2. CASE i # 1
      <4>1. i - 1 \in 1..n /\ order'[(i - 1) + 1] = kept[i - 1] /\ (i - 1) + 1 = i
        BY <2>4, <2>5, <3>2
      <4> QED BY <2>6, <4>1
    <3> QED BY <3>1, <3>2
  <2>9. ASSUME NEW x \in {k} \cup M!ToSet(kept) PROVE \E i \in 1..(n + 1) : order'[i] = x
    <3>1. CASE x = k
      <4>1. 1 \in 1..(n + 1)
        BY <2>5
      <4> QED BY <2>4, <3>1, <4>1
    <3>2. CASE x # k
      <4>1. PICK i \in 1..n : kept[i] = x
        BY <2>6, <3>2
      <4>2. i + 1 \in 1..(n + 1) /\ order'[i + 1] = x
        BY <2>4, <2>5, <4>1
      <4> QED BY <4>2
    <3> QED BY <3>1, <3>2
  <2> QED BY <2>7, <2>8, <2>9
<1>11. M!Others(k) = r
  BY BooksFacts
<1> HIDE DEF r
<1>12. Known' = [j \in {k} \cup M!ToSet(kept) |-> IF j = k THEN TTL ELSE Known[j]]
  <2> HIDE DEF kept
  <2>1. Known' = [j \in DOMAIN entries' |-> entries'[j].left]
    BY DEF Known
  <2>2. \A j \in DOMAIN entries' : entries'[j].left = IF j = k THEN TTL ELSE Known[j]
    BY <1>3, <1>9 DEF Known
  <2> QED BY <1>10, <2>1, <2>2
<1>13. Asked[k] \in {"vouched", "late"}
  BY <1>2, <1>5 DEF Asked
<1>14. M!Moves(k, {"vouched"}, "over") \/ M!Moves(k, {"late"}, "over")
  BY <1>7, <1>13 DEF M!Moves, Asked
<1>15. /\ kept = SubSeq(M!Others(k), 1, n) /\ n \in 0..Len(M!Others(k))
       /\ n < MaxEntries /\ order' = <<k>> \o kept
  BY <1>8, <1>11
<1> HIDE DEF kept
<1>16. M!Remembered(k)
  <2>1. /\ n < MaxEntries /\ order' = <<k>> \o SubSeq(M!Others(k), 1, n)
        /\ Known' = [j \in {k} \cup M!ToSet(SubSeq(M!Others(k), 1, n)) |->
                       IF j = k THEN TTL ELSE Known[j]]
    BY <1>12, <1>15
  <2> QED BY <1>15, <2>1 DEF M!Remembered, Known
<1>17. M!Keeps(k) \/ M!Refills(k)
  BY <1>14, <1>16 DEF M!Keeps, M!Refills
<1> QED BY <1>2, <1>17 DEF M!RefillNext, M!MemoryNext

LEMMA StepMemory ==
  ASSUME BooksInv, CacheInv', NEW p \in Procs, Step(p), ~Put(p)
  PROVE  M!RefillNext \/ UNCHANGED M!memoryVars
<1> PICK k \in Keys : k = proc[p].key
  BY ProcFacts DEF BooksInv, Step, Peek, Join, Own, Lookup, Check, Finish
<1>0. /\ UNCHANGED <<entries, order>> /\ epoch' = epoch /\ CacheInv /\ proc \in [Procs -> Proc]
      /\ proc[p] \in Proc
  BY MadeFacts DEF BooksInv, Step, Peek, Join, Own, Lookup, Check, Finish
<1>1. CASE Peek(p)
  <2>1. flights' = flights /\ proc[p].pc = "peek"
    BY <1>1 DEF Peek
  <2>2. ASSUME NEW q \in Procs, proc[q].pc \in Owning PROVE proc'[q] = proc[q]
    BY <1>0, <1>1, <2>2 DEF Peek, Owning
  <2>3. Asked' = Asked
    BY <1>0, <2>1, <2>2, AskedSame
  <2> QED BY <1>0, <2>3, StutterMemory
<1>2. CASE Join(p)
  <2>1. flights' = flights
    BY <1>2 DEF Join
  <2>2. ASSUME NEW q \in Procs, proc[q].pc \in Owning PROVE proc'[q] = proc[q]
    BY <1>0, <1>2, <2>2 DEF Join, Owning
  <2>3. Asked' = Asked
    BY <1>0, <2>1, <2>2, AskedSame
  <2> QED BY <1>0, <2>3, StutterMemory
<1>3. CASE Own(p)
  <2>1. /\ flights' = [flights EXCEPT ![k] = p] /\ proc[p].pc = "fresh" /\ flights[k] = None
        /\ proc' = [proc EXCEPT ![p].pc = "lookup", ![p].made = epoch]
    BY <1>3 DEF Own, Joinable
  <2>2. k \in Keys /\ flights \in [Keys -> Procs \cup {None}]
    BY <1>0, <2>1, ProcFacts
  <2>3. /\ proc'[p].pc = "lookup" /\ proc'[p].made = epoch
        /\ \A q \in Procs : q # p => proc'[q] = proc[q]
    BY <1>0, <2>1 DEF Proc
  <2>4. flights'[k] = p /\ \A j \in Keys : j # k => flights'[j] = flights[j]
    BY <2>1, <2>2
  <2>5. \A q \in Procs : proc[q].pc \in Owning => proc'[q] = proc[q]
    BY <2>1, <2>3 DEF Owning
  <2>6. Asked' = [Asked EXCEPT ![k] = Stage(k)']
    BY <1>0, <2>2, <2>4, <2>5, AskedStep
  <2>7. Stage(k) = "none" /\ Stage(k)' = "current"
    BY <1>0, <2>1, <2>3, <2>4, NoneFacts DEF Stage
  <2> QED BY <1>0, <2>2, <2>6, <2>7, MoveMemory
<1>4. ASSUME flights' = flights, k \in Keys, proc[p].pc \in Owning, flights[k] = p,
             \A q \in Procs : q # p => proc'[q] = proc[q]
      PROVE  Asked' = [Asked EXCEPT ![k] = Stage(k)']
  <2>1. \A q \in Procs : proc[q].key # k => proc'[q] = proc[q]
    BY <1>4
  <2> QED BY <1>0, <1>4, <2>1, AskedStep
<1>5. CASE Lookup(p)
  <2>1. /\ proc[p].pc = "lookup" /\ flights' = flights
        /\ \E size : proc' = [proc EXCEPT ![p].pc = "check", ![p].size = size]
    BY <1>5 DEF Lookup
  <2>2. /\ proc'[p].pc = "check" /\ proc'[p].made = proc[p].made
        /\ \A q \in Procs : q # p => proc'[q] = proc[q]
    BY <1>0, <2>1 DEF Proc
  <2>3. k \in Keys /\ flights[k] = p
    BY <1>0, <2>1, ProcFacts, StageFacts DEF Owning
  <2>4. Asked' = [Asked EXCEPT ![k] = Stage(k)']
    BY <1>4, <2>1, <2>2, <2>3 DEF Owning
  <2>5. Stage(k)' = Stage(k)
    BY <1>0, <2>1, <2>2, <2>3, NoneFacts DEF Stage
  <2>6. Asked' = Asked
    BY <2>3, <2>4, <2>5 DEF Asked
  <2> QED BY <1>0, <2>6, StutterMemory
<1>6. CASE Check(p)
  <2> DEFINE pc == IF proc[p].size > 0 /\ Valid(p) THEN "put" ELSE "finish"
  <2>1. /\ proc[p].pc = "check" /\ flights' = flights
        /\ proc' = [proc EXCEPT ![p].checked = epoch, ![p].pc = pc]
    BY <1>6 DEF Check
  <2>2. pc \in {"put", "finish"} /\ (pc = "put" => proc[p].made = epoch)
    BY DEF Valid
  <2> HIDE DEF pc
  <2>3. /\ proc'[p].pc = pc /\ proc'[p].checked = epoch'
        /\ \A q \in Procs : q # p => proc'[q] = proc[q]
    BY <1>0, <2>1 DEF Proc
  <2>4. k \in Keys /\ flights[k] = p
    BY <1>0, <2>1, ProcFacts, StageFacts DEF Owning
  <2>5. Asked' = [Asked EXCEPT ![k] = Stage(k)']
    BY <1>4, <2>1, <2>3, <2>4 DEF Owning
  <2>6. Stage(k) = IF proc[p].made = epoch THEN "current" ELSE "overtaken"
    BY <2>1, <2>4, NoneFacts DEF Stage
  <2>7. Stage(k)' = IF pc = "put" THEN "vouched" ELSE "over"
    BY <2>1, <2>2, <2>3, <2>4, NoneFacts DEF Stage
  <2> QED BY <1>0, <2>2, <2>4, <2>5, <2>6, <2>7, MoveMemory
<1>7. CASE Finish(p)
  <2>1. /\ flights' = [flights EXCEPT ![k] = None] /\ proc[p].pc = "finish"
        /\ proc' = [q \in Procs |-> IF q = p \/ Woken(p, q) THEN Idle ELSE proc[q]]
    BY <1>7 DEF Finish
  <2>2. k \in Keys /\ flights[k] = p /\ flights \in [Keys -> Procs \cup {None}]
    BY <1>0, <2>1, ProcFacts, StageFacts DEF Owning
  <2>3. flights'[k] = None /\ \A j \in Keys : j # k => flights'[j] = flights[j]
    BY <2>1, <2>2
  <2>4. \A q \in Procs : proc[q].pc \in Owning /\ proc[q].key # k => proc'[q] = proc[q]
    BY <2>1 DEF Woken, Owning
  <2>5. Stage(k) = "over"
    BY <2>1, <2>2, NoneFacts DEF Stage
  <2>6. Asked' = [Asked EXCEPT ![k] = Stage(k)']
    BY <1>0, <2>2, <2>3, <2>4, AskedStep
  <2>7. Stage(k)' = "none"
    BY <2>3 DEF Stage
  <2> QED BY <1>0, <2>2, <2>5, <2>6, <2>7, MoveMemory
<1> QED BY <1>1, <1>2, <1>3, <1>5, <1>6, <1>7 DEF Step

LEMMA ClearMemory ==
  ASSUME BooksInv, Clear
  PROVE  M!RefillNext
<1>1. /\ entries' = <<>> /\ order' = <<>> /\ epoch' = epoch + 1 /\ UNCHANGED <<flights, proc>>
  BY DEF Clear
<1>2. Known' = M!OnlyOf(<<>>)
  <2>1. DOMAIN entries' = {}
    BY <1>1, EmptyDomain
  <2>2. M!ToSet(<<>>) = {}
    BY EmptyDomain DEF M!ToSet
  <2> QED BY <2>1, <2>2 DEF M!OnlyOf, Known
<1>3. ASSUME NEW k \in Keys
      PROVE  Stage(k)' = IF Stage(k) = "current" THEN "overtaken"
                         ELSE IF Stage(k) = "vouched" THEN "late" ELSE Stage(k)
  <2>0. CacheInv
    BY DEF BooksInv
  <2>1. CASE flights[k] = None
    BY <1>1, <2>1 DEF Stage
  <2>2. CASE flights[k] # None
    <3> DEFINE p == flights[k]
    <3>1. p \in Procs /\ proc[p].made \in Int /\ proc[p].made <= epoch /\ epoch \in Int
      BY <2>0, <2>2, StageFacts, MadeFacts
    <3>2. /\ proc'[p].made # epoch' /\ p' = p /\ proc'[p] = proc[p]
          /\ proc[p].pc = "put" => proc'[p].checked # epoch'
      BY <1>1, <2>0, <3>1 DEF CacheInv, Confirmed
    <3>3. Stage(k)' = IF proc[p].pc = "put" THEN "late"
                      ELSE IF proc[p].pc = "finish" THEN "over" ELSE "overtaken"
      BY <2>2, <3>2 DEF Stage
    <3> QED BY <2>2, <3>3 DEF Stage
  <2> QED BY <2>1, <2>2
<1>4. Asked' = [k \in Keys |-> IF Asked[k] = "current" THEN "overtaken"
                               ELSE IF Asked[k] = "vouched" THEN "late" ELSE Asked[k]]
  BY <1>3 DEF Asked
<1>5. M!Changes
  BY <1>1, <1>2, <1>4 DEF M!Changes, Known, Asked
<1> QED BY <1>5 DEF M!RefillNext, M!MemoryNext

LEMMA TickMemory ==
  ASSUME BooksInv, Tick
  PROVE  M!RefillNext
<1>1. /\ entries' = [k \in DOMAIN entries |-> Aged(entries[k])]
      /\ UNCHANGED <<order, flights, epoch, proc>>
  BY DEF Tick
<1>2. Asked' = Asked
  <2>1. CacheInv
    BY DEF BooksInv
  <2> QED BY <1>1, <2>1, AskedSame
<1>3. Known' = [k \in DOMAIN Known |-> IF Known[k] > 0 THEN Known[k] - 1 ELSE 0]
  BY <1>1 DEF Known, Aged
<1>4. M!Passes
  BY <1>1, <1>2, <1>3 DEF M!Passes, Known, Asked
<1> QED BY <1>4 DEF M!RefillNext, M!MemoryNext

\* The cache implements AnswerMemory: its locks, bytes, coalescing, eviction and
\* epochs add up to a memory that keeps an answer for its TTL, gives up what was
\* used least recently and keeps the answer of an overtaken lookup only when the
\* policy changed between the lookup's epoch check and its put.
THEOREM ImplementsMemory == Spec => RemembersAnswers
<1>1. Init => M!MemoryInit
  <2> SUFFICES ASSUME Init PROVE M!MemoryInit
    OBVIOUS
  <2>1. entries = <<>> /\ order = <<>> /\ flights = [k \in Keys |-> None]
    BY DEF Init
  <2>2. DOMAIN entries = {} /\ M!ToSet(order) = {}
    BY <2>1, EmptyDomain DEF M!ToSet
  <2>3. Known = M!OnlyOf(order)
    BY <2>2 DEF M!OnlyOf, Known
  <2>4. Asked = [k \in Keys |-> "none"]
    BY <2>1 DEF Asked, Stage
  <2> QED BY <2>1, <2>3, <2>4 DEF M!MemoryInit, Known, Asked
<1>2. ASSUME BooksInv, BooksInv', [Next]_vars
      PROVE  [M!RefillNext]_(M!memoryVars)
  <2>1. ASSUME NEW p \in Procs, Step(p)
        PROVE  M!RefillNext \/ UNCHANGED M!memoryVars
    <3>1. CacheInv'
      BY <1>2 DEF BooksInv
    <3> QED BY <1>2, <2>1, <3>1, PutMemory, StepMemory
  <2>2. CASE UNCHANGED vars
    <3>1. CacheInv /\ UNCHANGED <<entries, order, flights, epoch, proc>>
      BY <1>2, <2>2 DEF BooksInv, vars
    <3>2. Asked' = Asked
      BY <3>1, AskedSame
    <3> QED BY <3>1, <3>2, StutterMemory
  <2> QED BY <1>2, <2>1, <2>2, GetMemory, ClearMemory, TickMemory DEF Next
<1>3. Spec => M!RefillSpec
  BY <1>1, <1>2, BooksInvariant, PTL DEF Spec, M!RefillSpec
<1> QED BY <1>3 DEF RemembersAnswers
=============================================================================
