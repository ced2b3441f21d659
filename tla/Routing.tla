------------------------------ MODULE Routing ------------------------------
(***************************************************************************)
(* Where smartdns sends a question (resolve): a static record, the rules   *)
(* of the policy, the older lists, or a default; and whether the answer is *)
(* then an edge's address, an empty one, or the upstreams'.                *)
(*                                                                         *)
(* A name is the sequence of its labels.  Texts of suffixes that match one *)
(* name differ in length as strings just when they do as sequences.        *)
(***************************************************************************)
EXTENDS SequencesExt

Profiles == {"public", "local"}

\* hasSuffix, for one suffix.
Under(name, text) == name = text \/ (text # <<>> /\ IsSuffix(text, name))

\* A list of domains and one of suffixes.
In(list, name) == name \in list.domains \/ \E s \in list.suffixes : Under(name, s)

-----------------------------------------------------------------------------
(* routeFromRules.                                                          *)

Condition(profile) == IF profile = "local" THEN "internalDns" ELSE "externalDns"

Matches(rule, name) ==
  \/ rule.match = "exact" /\ name = rule.text
  \/ rule.match = "suffix" /\ Under(name, rule.text)

Eligible(rule, name, profile) ==
  /\ Condition(profile) \in rule.conditions /\ rule.through # <<>>
  /\ Matches(rule, name)

\* An exact rule counts as the suffix it is.
ScoreUnweighted(rule) == Len(rule.text)

Score(rule) == Len(rule.text) + (IF rule.match = "exact" THEN 10000 ELSE 0)

\* The loop: the place of the selected rule, 0 for none.
Selected(rules, name, profile) ==
  LET Pick[i \in 0..Len(rules)] ==
        IF i = 0 THEN 0
        ELSE IF /\ Eligible(rules[i], name, profile)
                /\ Pick[i - 1] = 0 \/ Score(rules[i]) > Score(rules[Pick[i - 1]])
             THEN i ELSE Pick[i - 1]
  IN Pick[Len(rules)]

RouteThrough(rule, profile) ==
  IF rule.through[1] = "direct" THEN "direct"
  ELSE IF profile = "public" /\ rule.through[1] = "vusa" THEN "vusa-proxy" ELSE "proxy"

-----------------------------------------------------------------------------
(* routeForDefaultLockedWithMatch.  p is the part of *runtime it reads.      *)

Matched(route) == [route |-> route, matched |-> TRUE]

ByProfile(profile, local, public) == IF profile = "local" THEN local ELSE public

Route(p, name, profile, default) ==
  LET i == Selected(p.rules, name, profile)
  IN CASE name \in p.exclude \/ In(p.hard, name) -> Matched("direct")
       [] OTHER ->
     CASE i > 0 -> Matched(RouteThrough(p.rules[i], profile))
       [] OTHER ->
     CASE In(p.direct, name) -> Matched("direct")
       [] OTHER ->
     CASE In(p.localProxy, name) -> Matched(ByProfile(profile, "proxy", "direct"))
       [] OTHER ->
     CASE In(p.vusaProxy, name) -> Matched(ByProfile(profile, "proxy", "vusa-proxy"))
       [] OTHER ->
     CASE In(p.proxy, name) -> Matched("proxy")
       [] OTHER -> [route |-> ByProfile(profile, p.localDefault, default), matched |-> FALSE]

\* resolve: a client in the mode non_ru_via_proxy goes through the proxy by default.
ClientRoute(p, client, name, profile) ==
  LET r == Route(p, name, profile, IF client.default = "" THEN p.default ELSE client.default)
  IN IF client.mode = "non_ru_via_proxy" /\ profile = "public" /\ ~r.matched
     THEN "proxy" ELSE r.route

-----------------------------------------------------------------------------
(* staticAForName and the head of resolve.                                  *)

HasStaticA(p, name) ==
  \/ name \in p.staticA
  \/ name \notin p.exclude /\ \E s \in p.staticASuffix : Under(name, s)

\* edgeFor: the edge profile of a route.
EdgeProfile(profile, route) ==
  IF profile = "public" /\ route = "vusa-proxy" THEN "vusa" ELSE profile

\* How resolve answers a question of class IN.
Answer(p, client, name, type, profile) ==
  LET route == ClientRoute(p, client, name, profile)
      own(a) == IF type = "A" THEN a ELSE "empty"
  IN IF HasStaticA(p, name) /\ type \in {"A", "AAAA", "HTTPS"} THEN own("static")
     ELSE IF /\ route \in {"proxy", "vusa-proxy"} /\ EdgeProfile(profile, route) \in p.edges
             /\ type \in {"A", "AAAA", "HTTPS"}
          THEN own("edge") ELSE "upstream"

-----------------------------------------------------------------------------
(* What the rules promise, said without a loop.                             *)

MoreSpecific(r, s) ==
  \/ r.match = "exact" /\ s.match = "suffix"
  \/ r.match = s.match /\ Len(r.text) > Len(s.text)

\* Of the rules that apply, i is one that no other is more specific than, and
\* the first of those that say the same of the same names.
Decides(rules, name, profile, i) ==
  LET applying == {j \in 1..Len(rules) : Eligible(rules[j], name, profile)}
  IN /\ i \in applying
     /\ \A j \in applying : ~MoreSpecific(rules[j], rules[i])
     /\ \A j \in applying : j < i => MoreSpecific(rules[i], rules[j])
=============================================================================
