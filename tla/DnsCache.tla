------------------------------ MODULE DnsCache ------------------------------
(***************************************************************************)
(* The answer cache of smartdns (cache.go) under concurrent queries: LRU   *)
(* order and byte accounting, one coalesced lookup per key (a flight),     *)
(* refresh-ahead, and clear, which a policy change calls.                  *)
(*                                                                         *)
(* A process is a goroutine that runs fetch, or the one fetch spawns to    *)
(* refresh.  cache.mu is taken anew by get, by the refresh decision, by    *)
(* the start of fetchFresh, by the epoch check, by put and by the deferred *)
(* delete: each of those is one step.  The lookup runs without the lock.   *)
(*                                                                         *)
(* An answer is abstracted to its size and to whether put keeps it at all. *)
(* Every kept answer has the same TTL; an entry holds the time it has left *)
(* and the policy generations of its history.                              *)
(***************************************************************************)
EXTENDS Integers, SequencesExt

CONSTANTS
  Keys,          \* cache keys: profile, route and question
  Clients,       \* goroutines of handlers, each running fetch
  Refreshers,    \* goroutines spawned by refresh-ahead (a bound: at most these)
  None,
  MaxEntries,    \* dns_cache_entries
  MaxBytes,      \* 64 MiB in the source
  Sizes,         \* len(response) + len(key) of the answers put keeps
  TTL,           \* smallest answer TTL, in ticks
  RefreshPart,   \* refresh in the last 1/RefreshPart of the life (5 in the source)
  RefreshCap,    \* and in the last RefreshCap ticks (30 s in the source)
  MaxEpoch       \* a bound: clear runs at most this often

Procs == Clients \cup Refreshers

ASSUME CacheAssumption ==
  /\ Clients \cap Refreshers = {} /\ None \notin Procs /\ None \notin Keys
  /\ MaxEntries \in Nat \ {0} /\ MaxBytes \in Nat
  /\ Sizes \subseteq 1..MaxBytes
  /\ TTL \in Nat \ {0} /\ RefreshPart \in Nat /\ RefreshCap \in Nat /\ MaxEpoch \in Nat

VARIABLES
  entries,  \* cache.entries: a function on the cached keys
  order,    \* cache.order: the cached keys, most recently used first
  used,     \* cache.usedBytes
  flights,  \* cache.flights[k]: the process that owns the flight, or None
  epoch,    \* cache.epoch
  proc      \* proc[p]: where p stands in fetch or fetchFresh

vars == <<entries, order, used, flights, epoch, proc>>

\* made is the generation the lookup started in (the local epoch of
\* fetchFresh), checked the one its validity check ran in.
Proc == [pc : {"idle", "peek", "fresh", "lookup", "check", "put", "finish", "wait"},
         key : Keys \cup {None}, made : 0..MaxEpoch, checked : 0..MaxEpoch,
         size : Sizes \cup {0}, on : Procs \cup {None}]

Idle == [pc |-> "idle", key |-> None, made |-> 0, checked |-> 0,
         size |-> 0, on |-> None]

Owning == {"lookup", "check", "put", "finish"}

Without(f, K) == [k \in DOMAIN f \ K |-> f[k]]

WithEntry(f, k, e) == [j \in DOMAIN f \cup {k} |-> IF j = k THEN e ELSE f[j]]

MovedUp(s, k) == <<k>> \o RemoveFirst(s, k)

SizeOf(f, K) == MapThenSumSet(LAMBDA k : f[k].size, K)

-----------------------------------------------------------------------------
(* Bookkeeping of put and evictOne.                                         *)

\* The cache as one value, so that put reads as its source does.
Cache == [e |-> entries, o |-> order, u |-> used]

Assign(c) == entries' = c.e /\ order' = c.o /\ used' = c.u

\* The n least recently used entries dropped.
Evicted(c, n) ==
  LET K == {c.o[i] : i \in (Len(c.o) - n + 1)..Len(c.o)}
  IN [e |-> Without(c.e, K), o |-> SubSeq(c.o, 1, Len(c.o) - n),
      u |-> c.u - SizeOf(c.e, K \cap DOMAIN c.e)]

\* evictOne, which does nothing to an empty list.
EvictOne(c) == IF c.o = <<>> THEN c ELSE Evicted(c, 1)

\* The closing loop of put evicts until usedBytes is within the limit.
EvictToFit(c) ==
  Evicted(c, CHOOSE n \in 0..Len(c.o) :
               /\ Evicted(c, n).u <= MaxBytes
               /\ \A m \in 0..(n - 1) : Evicted(c, m).u > MaxBytes)

\* The head of put: a present key gives up its bytes and its list element, an
\* absent one may cost the least recently used entry its place.
MakeRoom(c, k) ==
  IF k \in DOMAIN c.e
  THEN [c EXCEPT !.o = RemoveFirst(c.o, k), !.u = @ - c.e[k].size]
  ELSE IF Cardinality(DOMAIN c.e) >= MaxEntries THEN EvictOne(c) ELSE c

Store(k, entry) ==
  LET c == MakeRoom(Cache, k)
  IN Assign(EvictToFit([e |-> WithEntry(c.e, k, entry), o |-> <<k>> \o c.o,
                        u |-> c.u + entry.size]))

-----------------------------------------------------------------------------
(* fetch and fetchFresh.                                                    *)

Live(k) == k \in DOMAIN entries /\ entries[k].left > 0

\* An expired entry is reported as a miss and kept in the byte count.
ForgetKeepingBytes(k) ==
  [e |-> Without(entries, {k}), o |-> RemoveFirst(order, k), u |-> used]

Forget(k) == [e |-> Without(entries, {k}), o |-> RemoveFirst(order, k), u |-> used - entries[k].size]

\* get: a hit moves to the front, an expired entry is deleted on the way.
Get(p, k) ==
  /\ p \in Clients /\ proc[p].pc = "idle"
  /\ proc' = [proc EXCEPT ![p] = [Idle EXCEPT !.key = k, !.pc = IF Live(k) THEN "peek" ELSE "fresh"]]
  /\ Assign(IF Live(k) THEN [Cache EXCEPT !.o = MovedUp(order, k)]
            ELSE IF k \in DOMAIN entries THEN Forget(k) ELSE Cache)
  /\ UNCHANGED <<flights, epoch>>

\* fetch after a hit: near its end of life and not busy.
RefreshDue(k) ==
  /\ k \in DOMAIN entries /\ flights[k] = None
  /\ entries[k].left * RefreshPart < TTL /\ entries[k].left < RefreshCap

\* The second critical section of fetch; the answer is already in hand.
Peek(p) ==
  /\ proc[p].pc = "peek"
  /\ LET k == proc[p].key
         free == {r \in Refreshers : proc[r].pc = "idle"}
     IN IF RefreshDue(k) /\ free # {}
        THEN \E r \in free : proc' = [proc EXCEPT ![p] = Idle,
                                  ![r] = [Idle EXCEPT !.pc = "fresh", !.key = k]]
        ELSE proc' = [proc EXCEPT ![p] = Idle]
  /\ UNCHANGED <<entries, order, used, flights, epoch>>

\* A flight is joined only when its lookup is still running.
JoinableLookup(k) == flights[k] # None /\ proc[flights[k]].pc = "lookup"

\* fetchFresh finds a flight of its key.
Joinable(k) == flights[k] # None

Join(p) ==
  /\ proc[p].pc = "fresh" /\ Joinable(proc[p].key)
  /\ proc' = [proc EXCEPT ![p].pc = "wait", ![p].on = flights[proc[p].key]]
  /\ UNCHANGED <<entries, order, used, flights, epoch>>

Own(p) ==
  /\ proc[p].pc = "fresh" /\ ~Joinable(proc[p].key)
  /\ flights' = [flights EXCEPT ![proc[p].key] = p]
  /\ proc' = [proc EXCEPT ![p].pc = "lookup", ![p].made = epoch]
  /\ UNCHANGED <<entries, order, used, epoch>>

\* lookup answers.  Size 0 is what put is not called for or does not keep: an
\* error, no TTL, a TTL of zero, or more than 8 KiB.
Lookup(p) ==
  /\ proc[p].pc = "lookup"
  /\ \E size \in Sizes \cup {0} :
       proc' = [proc EXCEPT ![p].pc = "check", ![p].size = size]
  /\ UNCHANGED <<entries, order, used, flights, epoch>>

\* The answer counts whatever happened to the policy meanwhile.
ValidAlways(p) == TRUE

Valid(p) == proc[p].made = epoch

\* valid := cache.epoch == epoch, under a lock that is released before put.
Check(p) ==
  /\ proc[p].pc = "check"
  /\ proc' = [proc EXCEPT ![p].checked = epoch,
                ![p].pc = IF proc[p].size > 0 /\ Valid(p)
                          THEN "put" ELSE "finish"]
  /\ UNCHANGED <<entries, order, used, flights, epoch>>

Put(p) ==
  /\ proc[p].pc = "put"
  /\ Store(proc[p].key, [left |-> TTL, size |-> proc[p].size,
                         made |-> proc[p].made, checked |-> proc[p].checked])
  /\ proc' = [proc EXCEPT ![p].pc = "finish"]
  /\ UNCHANGED <<flights, epoch>>

\* A flight deleted without its channel being closed.
WokenNobody(p, q) == FALSE

\* close(flight.done) lets every waiter of this flight return.
Woken(p, q) == proc[q].pc = "wait" /\ proc[q].on = p

\* The deferred function of fetchFresh: delete the flight and close its channel.
Finish(p) ==
  /\ proc[p].pc = "finish"
  /\ flights' = [flights EXCEPT ![proc[p].key] = None]
  /\ proc' = [q \in Procs |-> IF q = p \/ Woken(p, q) THEN Idle ELSE proc[q]]
  /\ UNCHANGED <<entries, order, used, epoch>>

\* clear: runs when an applied policy differs.  Flights are left alone.
Clear ==
  /\ epoch < MaxEpoch
  /\ entries' = <<>> /\ order' = <<>> /\ used' = 0
  /\ epoch' = epoch + 1
  /\ UNCHANGED <<flights, proc>>

Aged(e) == [left |-> IF e.left > 0 THEN e.left - 1 ELSE 0, size |-> e.size,
            made |-> e.made, checked |-> e.checked]

\* One unit of time for every entry.
Tick ==
  /\ \E k \in DOMAIN entries : entries[k].left > 0
  /\ entries' = [k \in DOMAIN entries |-> Aged(entries[k])]
  /\ UNCHANGED <<order, used, flights, epoch, proc>>

Init ==
  /\ entries = <<>> /\ order = <<>> /\ used = 0
  /\ flights = [k \in Keys |-> None]
  /\ epoch = 0
  /\ proc = [p \in Procs |-> Idle]

Step(p) == Peek(p) \/ Join(p) \/ Own(p) \/ Lookup(p) \/ Check(p) \/ Put(p) \/ Finish(p)

Next ==
  \/ \E p \in Procs : (\E k \in Keys : Get(p, k)) \/ Step(p)
  \/ Clear \/ Tick

Spec == Init /\ [][Next]_vars

\* Weak fairness of Step(p), with its ENABLED written out: a goroutine that is
\* neither outside fetch nor waiting for a flight goes on.  Every lookup ends,
\* for its context and its sockets have deadlines.
GoesOn(p) ==
  []<>(proc[p].pc \in {"idle", "wait"}) \/ []<><<Step(p)>>_vars

FairSpec == Spec /\ \A p \in Procs : GoesOn(p)

-----------------------------------------------------------------------------
(* Properties.                                                              *)

\* usedBytes is the sum over what is cached: through replacement, expiry,
\* eviction and clear, whatever their order.
UsedBytesExact == used = SizeOf(entries, DOMAIN entries)

\* The LRU list holds exactly the cached keys, each once; an element without its
\* entry would make evictOne drop nothing and the loop of put run on.
OrderMatchesEntries ==
  /\ {order[i] : i \in 1..Len(order)} = DOMAIN entries
  /\ \A i, j \in 1..Len(order) : order[i] = order[j] => i = j

\* put leaves the cache within both of its limits.
WithinLimits == Cardinality(DOMAIN entries) <= MaxEntries /\ used <= MaxBytes

\* The three structures of the cache agree, within both limits, after any
\* sequence of hits, lazy expiry, replacement, eviction and clear: a count that
\* drifts would evict for nothing or make the loop of put run on for ever.
Bookkeeping == UsedBytesExact /\ OrderMatchesEntries /\ WithinLimits

\* At most one lookup per key at any time, and it is the one the flight table
\* names, also while it is past its answer (coalescing, fetchFresh).
SingleFlight ==
  \A p \in Procs, k \in Keys :
    proc[p].pc \in Owning /\ proc[p].key = k <=> flights[k] = p

\* A process that waits on a flight waits on a flight that is in the table and
\* whose owner still runs: nobody sleeps on a channel nobody will close.
NoLostWaiter ==
  \A q \in Procs : proc[q].pc = "wait" =>
    /\ proc[q].on # None
    /\ flights[proc[q].key] = proc[q].on
    /\ proc[proc[q].on].pc \in Owning

\* An answer whose lookup was overtaken by a policy change is never cached,
\* also when the key was cleared, refreshed and looked up again meanwhile.
OvertakenNeverCached == \A k \in DOMAIN entries : entries[k].made = entries[k].checked

\* How far the lookup of k is, in the terms of AnswerMemory.
Stage(k) ==
  LET p == proc[flights[k]]
  IN IF flights[k] = None THEN "none"
     ELSE IF p.pc = "put" THEN IF p.checked = epoch THEN "vouched" ELSE "late"
     ELSE IF p.pc = "finish" THEN "over"
     ELSE IF p.made = epoch THEN "current" ELSE "overtaken"

M == INSTANCE AnswerMemory WITH
       Room <- MaxEntries, recent <- order,
       known <- [k \in DOMAIN entries |-> entries[k].left], asked <- [k \in Keys |-> Stage(k)]

\* The cache implements the memory its callers may take it for: an answer lives
\* one TTL, what gives way is the least recently used, one lookup per key, and an
\* answer of an overtaken lookup is remembered only when the policy changed after
\* the lookup's epoch check, for put runs in a later critical section.
RemembersAnswers == M!RefillSpec

\* The same without that exception, as the add-on's README promises: responses
\* from earlier policy generations cannot refill the cache.
NothingRefills == M!MemorySpec

\* Every query that enters fetch gets its answer or its error.
FetchReturns == \A p \in Procs : proc[p].pc # "idle" ~> proc[p].pc = "idle"
=============================================================================
