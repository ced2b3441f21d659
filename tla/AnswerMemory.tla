---------------------------- MODULE AnswerMemory ----------------------------
(***************************************************************************)
(* What the answer cache promises, without locks, bytes, goroutines or     *)
(* flights: which answers are remembered, for how long, in which order     *)
(* they are given up, and what a change of the policy does to them and to  *)
(* the lookups under way.  MemorySpec is the documented promise: an answer *)
(* of an earlier policy never comes back.  RefillSpec grants one exception *)
(* to it, an answer already vouched for when the policy changed.           *)
(***************************************************************************)
EXTENDS Integers, SequencesExt

CONSTANTS
  Keys,   \* cache keys
  TTL,    \* how long an answer is remembered
  Room    \* the most keys at a time

VARIABLES
  known,   \* a function from the remembered keys to the time they have left
  recent,  \* the remembered keys, the most recently used first
  asked    \* asked[k]: how far the lookup of k is

memoryVars == <<known, recent, asked>>

\* current: asked under the policy in force; overtaken: under an older one;
\* vouched: to be remembered; late: vouched for before the policy changed;
\* over: the answer is out, or never will be.
Stages == {"none", "current", "overtaken", "vouched", "late", "over"}

Others(k) == RemoveFirst(recent, k)

OnlyOf(keys) == [k \in ToSet(keys) |-> known[k]]

Moves(k, from, to) == asked[k] \in from /\ asked' = [asked EXCEPT ![k] = to]

\* A remembered answer is given out.
Use(k) ==
  /\ k \in ToSet(recent) /\ known[k] > 0
  /\ recent' = <<k>> \o Others(k)
  /\ UNCHANGED <<known, asked>>

\* An answer whose time is up is forgotten.
Forgotten(k) ==
  /\ k \in ToSet(recent) /\ known[k] = 0
  /\ recent' = Others(k) /\ known' = OnlyOf(recent')
  /\ UNCHANGED asked

\* One lookup of a key at a time.
Begins(k) == Moves(k, {"none"}, "current") /\ UNCHANGED <<known, recent>>

\* Only an answer to a question of the policy in force is vouched for.
Vouches(k) == Moves(k, {"current"}, "vouched") /\ UNCHANGED <<known, recent>>

Fails(k) ==
  Moves(k, {"current", "overtaken", "late"}, "over") /\ UNCHANGED <<known, recent>>

\* The answer is remembered for its TTL and is the most recently used; what gives
\* way to it is what was used least recently.
Remembered(k) ==
  \E n \in 0..Len(Others(k)) :
    LET kept == SubSeq(Others(k), 1, n)
    IN /\ n < Room
       /\ recent' = <<k>> \o kept
       /\ known' = [j \in {k} \cup ToSet(kept) |-> IF j = k THEN TTL ELSE known[j]]

Keeps(k) == Moves(k, {"vouched"}, "over") /\ Remembered(k)

\* The exception: what was vouched for before the policy changed.
Refills(k) == Moves(k, {"late"}, "over") /\ Remembered(k)

Returns(k) == Moves(k, {"over"}, "none") /\ UNCHANGED <<known, recent>>

\* The policy changes: nothing of before is remembered, and every answer still to
\* come or to be stored is one of the old policy.
Changes ==
  /\ recent' = <<>> /\ known' = OnlyOf(<<>>)
  /\ asked' = [k \in Keys |-> IF asked[k] = "current" THEN "overtaken"
                              ELSE IF asked[k] = "vouched" THEN "late" ELSE asked[k]]

\* A unit of time.
Passes ==
  /\ known' = [k \in DOMAIN known |-> IF known[k] > 0 THEN known[k] - 1 ELSE 0]
  /\ UNCHANGED <<recent, asked>>

MemoryInit == recent = <<>> /\ known = OnlyOf(<<>>) /\ asked = [k \in Keys |-> "none"]

MemoryNext ==
  \/ \E k \in Keys : \/ Use(k) \/ Forgotten(k) \/ Begins(k) \/ Vouches(k)
                     \/ Fails(k) \/ Keeps(k) \/ Returns(k)
  \/ Changes \/ Passes

MemorySpec == MemoryInit /\ [][MemoryNext]_memoryVars

RefillNext == MemoryNext \/ \E k \in Keys : Refills(k)

RefillSpec == MemoryInit /\ [][RefillNext]_memoryVars
=============================================================================
