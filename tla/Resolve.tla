------------------------------ MODULE Resolve ------------------------------
(***************************************************************************)
(* resolve from the question to the answer: routing (Routing), and, for    *)
(* what neither a static record nor an edge answers and the cache does not *)
(* hold, the chain of upstreams with its breakers (DohBreaker).            *)
(***************************************************************************)
EXTENDS DohBreaker, Routing

CONSTANTS
  Policies,  \* what may be in force: the fields Routing reads
  Askers,    \* client records
  Names,
  Types      \* question types: A, AAAA, HTTPS and others

\* The rules of a policy are a list.  A name is at most 255 bytes, so no name is
\* as long as what an exact rule adds to its score.
ASSUME ResolveAssumption ==
  /\ \A p \in Policies :
       Len(p.rules) \in Nat /\ \A i \in 1..Len(p.rules) : Len(p.rules[i].text) \in Nat
  /\ \A name \in Names : Len(name) \in Nat /\ Len(name) < 10000

VARIABLE policy  \* the policy in force

resolveVars == <<vars, policy>>

\* A question is answered here, or its lookup begins.
Asks(q) ==
  \E name \in Names, type \in Types, profile \in Profiles, client \in Askers :
    IF Answer(policy, client, name, type, profile) = "upstream" THEN Begin(q) ELSE AnsweredHere(q)

ResolveInit == Init /\ policy \in Policies

ResolveNext ==
  /\ \/ \E q \in Queries : Asks(q) \/ Step(q)
     \/ Tick
  /\ UNCHANGED policy

ResolveSpec ==
  /\ ResolveInit /\ [][ResolveNext]_resolveVars
  /\ \A q \in Queries : GoesOn(q)
  /\ TimePasses

-----------------------------------------------------------------------------
(* Properties.                                                              *)

\* The rule that decides is the most specific one that applies to the name and
\* the listener, in whatever order the policy lists them; the first among equals.
RuleMostSpecific ==
  \A name \in Names, profile \in Profiles :
    LET i == Selected(policy.rules, name, profile)
    IN IF i = 0 THEN \A j \in 1..Len(policy.rules) : ~Eligible(policy.rules[j], name, profile)
       ELSE Decides(policy.rules, name, profile, i)

\* Every query returns, with an answer or with a failure.
EveryQueryReturns ==
  \A q \in Queries : query[q].pc = "gate" ~> query[q].pc \in {"answered", "servfail"}
=============================================================================
