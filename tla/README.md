# Transparent smart edge: specifications

TLA+ models of the `transparent-smart-edge` add-on: the DNS server that sends
names to the edge (`smartdns`), the edge that tunnels connections (`smartedge`),
and the scripts that supervise them and steer their routes. TLC checks every model
on small instances; TLAPS proves their safety, and that detailed ones implement
abstract ones, for every value of the constants. `PROJECT.json` gives, for every
definition, the source lines it stands for, and, for every property, a plausible
bug that breaks it.

Paths below are relative to `src/transparent-smart-edge/`; `bin/` stands for
`rootfs/usr/bin/`.

## 1. The system

    clients --DNS/DoT/DoH--> smartdns --DoH--> primary, backup; UDP
       |                        |  ^ poll
       |                        |  +--- panel (clients, policy, pins)
       |                 /edge-auth, /edge-map
       +----TLS/TCP----> smartedge --CONNECT--> upstream proxies (sing-box)
                                   `--direct--> the host that SNI names

    run.sh starts them all, the TPROXY watchdog and route-health.sh, which
    moves sing-box's selector between lanes.

| Component | State it keeps | Operations | Hard behaviour | What makes it correct |
|---|---|---|---|---|
| Edge failover (`smartedge/main.go` 250-570, 1002-1065) | an `upstream` per proxy: failures, cooldown, probe streak | candidate list, attempt, success, failure, probe | connections and the prober share the records; the candidate list is a snapshot; one update is two critical sections | nobody refused while an untried upstream is left; configured order kept; quarantine neither ends early nor lasts for ever |
| Edge search deadline (800-880, 878-1065) | deadline, budget of the attempt | dial, CONNECT, wait for the first byte, retry | one budget spent by several waits | a bounded wait; the first handshake wait is whole |
| Edge direct path (101-157, 705-992) | resolver cache and calls in flight, snapshot of own addresses | resolve, compare, ask the kernel, dial, retry | coalescing; stale addresses | never dials itself; refuses no address for good that is not the host's; returns |
| Edge connection (`smartedge/main.go` 565-711, 780-1148) | per connection: bytes read ahead, sockets, two pipes | accept, read the hello, search, prove, copy, close | failover in the middle of a handshake; either end half-closes, stalls or vanishes | each end gets one whole stream; nothing stays open; it ends |
| DNS answer cache (`smartdns/cache.go`) | entries, LRU list, byte count, flights, epoch | get, put, fetch, refresh-ahead, clear | lookup runs without the lock; epoch check and put are apart | counts match contents; one lookup per key; what was overtaken before its epoch check is not cached; every query returns |
| Snapshot and policy (`cache.go` 285-364, `main.go` 505-535, 1727-1741, 1888-1930, `bin/run.sh` 123-168) | durable and projected config, rules, fingerprint, snapshot | start, SIGHUP, panel sync, save, restore | crashes; two sources of one policy; a file read twice; queries under way | no answer of another policy without one of the known reasons; no prolonged life |
| DoH upstreams (`smartdns/upstream.go`, `main.go` 911-1073) | a breaker per resolver | query, report, fall back | reports of queries sent before the breaker moved | bypass only after a streak, and it ends; every query returns |
| Rules and static records (`main.go` 555-570, 745-862, 935-1037) | rules and lists of the policy in force | pick a rule, route, answer | exact and suffix rules in any order | the most specific rule decides |
| Clients (`main.go` 253-285, 864-982, 1690-1831) | client table | sync, identify, look up | lost polls; identity given long before its use | a revoked client is refused |
| Edge authorisation (`main.go` 876-897, 1192-1412, 1833-1886) | allow-list, address-to-name map | DNS traffic, pin, unpin, authorise, collect | four writers of two maps | the maps agree; what is unused is collected |
| DoH listener (`smartdns/proxy_protocol.go`, `main.go` 1099-1190, 1938-1967) | connections, their source addresses | accept, read the PROXY header, serve | headers that are missing, late, cut or of another form, read inside `Accept` | permissions go to who asked; a silent peer stops nobody for good |
| DNS over TLS and over TCP (`main.go` 1467-1657, `plain_tcp.go`) | buffer of one connection | read, cut, answer | two framings in one stream, cut anywhere; clients that trickle | queries are framed and answered; one deadline per query |
| Route health (`bin/route-health.sh`) | averages, streaks, chosen lane; state file | probe, decide, PUT, save, restore | a lossy API, other clients, crashes | steers only to a lane that answers; leaves a good one only for a proven one; settles |
| Supervisor (`bin/run.sh`) | children, their pids | start, readiness, wait, clean up | signals between any two commands; `set -e` | no child left; any death ends the add-on |
| TPROXY policy (`bin/telegram-tproxy-*.sh`) | kernel table, rule and route | apply, check | half-done applies; removals by others | nothing marked without a route; it comes back |
| Config parsing, `route-probe`, jq scripts, `healthcheck.sh` | see section 7 | | | |

## 2. The modules

Every critical section of a mutex, every command of a script that others can
observe, and every wait is one action. Times are ticks, counted down. A
definition whose comment describes a mistake is a mutant: it is used by nothing
and stands before the definition it may replace.

| Module | Models | State and actions |
|---|---|---|
| `EdgeRotation` | `upstream`, `candidateUpstreams`, `connectUpstream`, the prober | `health[u]` is the part of `*upstream` under its lock; `conn[c]` walks `Scan` (one lock per upstream) and then `Carried`, `Failed` or `DeadlinePassed` per candidate; `prober` takes two steps for a lost probe, as `recordProbeFail` does |
| `SearchDeadline` | `connectUpstream`, `connectThroughHTTPProxy`, `awaitUpstreamForward`, `connectWithRetry` by the clock | one action per wait; each picks its duration within the limit the code sets |
| `EdgeTunnel` | `handle` around that search: `readHello`, `prefixedConn`, `pipe` | extends `SearchDeadline`, whose steps here also open and close sockets and carry bytes; a stream is a sequence of units that name the connection they came from; each pipe reads and writes in turn |
| `EdgeDirect` | `resolve`, `isLocalDestination`, `connectWithRetry` | a process per connection, one action per critical section, lookup, kernel question and dial |
| `DnsCache` | `cache.go` without the file | `entries`, `order`, `used`, `flights`, `epoch`; `Get`, `Peek`, `Join`/`Own`, `Lookup`, `Check`, `Put`, `Finish`, `Clear` |
| `AnswerMemory` | what the cache promises | keys with the time they have left, in the order of their use, and how far the lookup of each is; no locks, bytes, goroutines or epochs. `MemorySpec` is the documented promise, `RefillSpec` the one the code keeps |
| `PolicyReload` | the policy from file to cache over restarts | two files, rules in force, fingerprint, saver, snapshot; a query of each key in four steps (route, look up, check the epoch, put); the runtime file replaced under the resolver; crash at every step |
| `DohBreaker` | `proxyDoHResolver.query` and the chain in `resolve` | two critical sections per leg, an exchange between them |
| `Routing` | `routeFromRules`, `routeForDefaultLockedWithMatch`, `staticAForName`, the head of `resolve` | functions of a policy, a client and a question; a name is its labels; `MoreSpecific` and `Decides` say without a loop what the loop should find |
| `Resolve` | `resolve` | `Routing` decides whether a question is answered here or begins a lookup of `DohBreaker` |
| `EdgeAuth` | `edgeAllowedIPs` and `edgeUDPMap` | one action per handler that writes, collector run and tick; `/edge-map`, `/edge-auth-debug` and GET of the allow-list change nothing and are left out |
| `ProxyAccept` | `proxyProtocolListener` and the loop of `http.Server` | a header is how much of it was read: too little to tell, recognised, whole; `Accept` reads one at a time and its error ends the listener |
| `EdgeGrants` | from an accepted connection to a permission | `ProxyAccept`, `Routing` and `EdgeAuth`: a question that `Routing` sends to the edge authorises the address of its `X-Forwarded-For` or `X-Real-IP`, else the source `ProxyAccept` learned |
| `ClientSync` | `rt.clients` | poll, loss, `applyRuntime`; a query is identified and looked up in two steps |
| `DotFraming` | `handleDoT`, `nextDoTFrame`, `dnsMessageLen` | a buffer is the number of bytes read; what the parser says of it depends on the first query's length, first two bytes, label boundaries, and whether `dnsMessageLen` takes its content |
| `PlainTcp` | `handlePlainDNSConn` | one more kind of connection on the state of `DotFraming`, with a read deadline; query after query |
| `RouteHealth` | the loop of `route-health.sh`, for both selectors (`sticky`) | probe, decide, PUT with or without effect, write, crash, boot |
| `Supervisor` | `run.sh` | one action per start, check, wait, trap and death |
| `TproxyPolicy` | policy script and watchdog | the five commands of `apply`, in order; a module to be composed |
| `AddOn` | `Supervisor` with `TproxyPolicy` | the policy is run in the foreground at start and by the watchdog later, command by command |

`MC...` modules name the model values and the sequences a `.cfg` cannot write;
`MCDnsClients` also sets three modules side by side (section 3). `DnsCache` and
`AddOn` need none.

**Abstractions that carry weight.** A DNS answer in `DnsCache` is its size and
whether `put` keeps it; all kept answers share one TTL. `PolicyReload` has one
query per key, whose flight is `DnsCache`'s subject, and no eviction. In
`DohBreaker` any exchange may fail at any time. In `Resolve` the policy is fixed,
and the cache's part is `DnsCache`'s: a lookup here is one that the cache did not
spare. `EdgeGrants` leaves out what TLS does, except that bytes of a header before
it break it. In `EdgeTunnel` a ClientHello is a number of units and whether the
name in it is allowed, for which `parseSNI` needs all of them. In `EdgeRotation`
an attempt is one step with its outcome; how long it takes is `SearchDeadline`'s
subject. `RouteHealth` leaves out the round counter that only reaches the log. In
`TproxyPolicy` a deletion fails only when its object is absent, which the script
passes over; only additions fail for other reasons.

## 3. The runs

A passing run checks all a module promises at once: its safety, and under
fairness its liveness, where it has any.

| Run | Instance, and why it is enough | Checks |
|---|---|---|
| `edge_rotation` | two upstreams, two connections, the prober; thresholds 2, cooldowns 1 and 2, so that streaks, the cap and re-arming by a late failure all happen | `ExhaustedMeansAllTried`, `PreferenceKept`, `NeverShortened`, `ProbeLossNeedsStreak`, `RecoveredRejoins` |
| `edge_connection` | direct path and two proxies; a configured total below one handshake budget, so that the floor acts; a hello in two pieces or refused, four units sent, a proof of two, three units from each upstream, so that every unit can be the last before a stall, an end or a reset | `SearchBounded`, `FirstHandshakeUncut`, `StreamsIntact`, `FinishedResponseWhole`, `SocketsReleased`, `HandleEnds` |
| `direct` | two connections, two addresses, two retries, two changes of the host's addresses: an address is lost between the kernel's answer and the note of it, and gained between two attempts | `LoopGuarded`, `ForeignServedAgain`, `ConnectReturns` |
| `dns_cache` | a client and a refresher, three keys with room for two, sizes 1 and 2 of 3 bytes, two policy changes: eviction by count and by bytes, expiry, refresh and joining all happen | `Bookkeeping`, `SingleFlight`, `FetchReturns`, and `RemembersAnswers`: the cache implements `RefillSpec` of `AnswerMemory` |
| `dns_cache_refill` | two keys, one policy change | `NothingRefills`, `MemorySpec`, is violated |
| `policy` | two loadable files (symmetric) and a broken one, a policy of the panel, one key, three instants at a TTL of two, two edits of the durable file and two of the runtime file: every reason an old answer can have occurs, and each of the files is changed and changed back | `OldAnswersAccountedFor`, `LifeNotProlonged` |
| `resolve` | three lookups at once and a threshold of two (three in the source): a breaker opens while a third query is out, whose failure re-arms it; five policies: six rules in one order and in the reverse one, suffix rules that say the same, rules of one listener or of none before the older lists, static records; both profiles, two kinds of client; some questions are answered without a lookup | `BypassedOnlyAfterStreak`, `RuleMostSpecific`, `BypassEnds`, `EveryQueryReturns` |
| `edge_grants` | connections of two clients and the router's address; a name that goes to the edge for A and not for AAAA; every kind of connection, read in any parts; request headers, panel, edge and other listeners name one of the clients (`Named`); TTL 1 | `MappedAreAllowed`, `GrantedToAsker`, `AcceptGoesOn` |
| `dns_clients` | three parts, of which one works in a behaviour. The connection: over TLS, scripts of two and three queries out of five shapes, some with an id that reads as a length and some whose content is refused; over TCP, three queries, and pairs whose lengths lie at and beside the bounds; reads end at every byte; a deadline of three ticks. The client table: two clients of the file, one of the panel only, one query, two edits at the panel, no default client. The allow-list: two addresses, two names, TTLs 1 and 2, a window of 1 | `FramedNeverRejected`, `OneDeadlinePerQuery`, `EveryQueryAnswered`; `RevocationArrives`; `UnusedForgotten` |
| `route_health` | two lanes, two speeds, both kinds of selector, crashes and foreign moves without a bound | `SteersToAnswering`, `LeavesWorkingOnlyForProven`, `SoleLaneSelected` |
| `route_health_ratio` | as `route_health`, without fairness | `SwitchOnlyIfMuchFaster` is violated |
| `addon` | every combination of options, two health checks, two removals of parts of the policy, two failing commands, one signal, any deaths | `NoChildLeft`, `MarkedHaveARoute`, `DeathEndsAddon`, `PathComesBack` |

The violated ones say what a doc or a comment claims; section 6 tells what the
code does instead. `dns_clients` checks in one run three modules that share no
variable (`PlainTcp` with `DotFraming`, `ClientSync`, `EdgeAuth`): in a behaviour
one of them works, under its own fairness, and the others rest, so its behaviours
are those of the three and their states add up instead of multiplying.

No run lists a type invariant: section 5 says of which modules it is proved. What
every property says is in the comment before it.

Bounds that no code has are named: `MaxChanges`, `MaxEpoch`, `Refreshers`,
`Named`, `MaxTime`, `MaxEdits`, `MaxRewrites`, `MaxFlushes`, `MaxFailures`,
`MaxTries` (50 in the source). They limit how often the environment interferes, or
how long one history is: each interference happens at every step it may, and the
ones that matter twice (edits, removals, changes of policy or addresses, failing
commands) twice. Streaks saturate at the value they are compared with, so they
need no bound.

`CHECK_DEADLOCK FALSE` stands where the modelled thing really ends: a search, a
connection, the add-on, and the bounded history of `PolicyReload`.

## 4. Fairness

Each assumption has its reason in the code.

- Goroutines (`GoesOn`, `SearchGoesOn`): a process that is neither idle nor
  waiting for another goes on. All network waits have deadlines: client
  timeouts, contexts and socket deadlines. Where TLC needs it for speed, weak
  fairness is written out as "infinitely often not enabled, or infinitely often
  taken" with the condition of ENABLED spelled, which is what WF means.
- Clocks (`TimePasses`, `WF(Tick)`): time passes; in `EdgeRotation` a scan takes
  locks only and cannot hold the clock up; in `EdgeDirect` the snapshot of the
  host's addresses turns 30 seconds old again and again.
- `EdgeTunnel`: `handle` and its pipes run on, and every wait that has a deadline
  ends. The peers owe nothing, and a write to the client may block for ever:
  `HandleEnds` has the opposite in its premise, for that write has no deadline.
- `EdgeGrants`, `EdgeAuth`: the accept loop runs on, the wait for a header is
  over after ten seconds, the collector is a ticker goroutine. Routers and
  clients owe nothing.
- `Resolve`: as the goroutines and clocks above, for every lookup.
- `ClientSync`: the ticker of the sync goes on, and not every poll is lost
  (`SF(Apply)`). Without it no revocation could arrive.
- `DotFraming`: the connection's goroutine handles bytes that are there, and
  each `resolve` returns. The client owes nothing: it may go at any time. In
  `PlainTcp` the goroutine goes on and its deadline comes.
- `RouteHealth`: the loop runs on, and the API obeys and answers again and again
  (strong fairness of `PutTakes`, `DecideSeeing`). `SoleLaneSelected` assumes in
  its own premise that the controller is not killed for ever and that nobody else
  steers the selector any more.
- `AddOn`: `run.sh` and the watchdog are not suspended. Nothing is assumed of
  children, signals, or of those who remove the policy, whose number is bounded.
- `EdgeRotation` assumes nothing of upstreams: `RecoveredRejoins` has the
  recovery in its premise.

## 5. The proofs

Every safety invariant and every action property that a passing run checks is a
theorem of TLAPS for all constants that satisfy the named assumptions of the
modules (`RotationAssumption`, `DeadlineAssumption`, `CacheAssumption` and so on:
counts and durations are numbers, model values like `None` differ from what they
stand beside, a rule list is finite). So are the refinements of `AnswerMemory` and
`EdgeAuth` and the one of `SearchDeadline` by `EdgeTunnel`. In each proof module
an inductive invariant is proved first (`...Invariant`); its conjuncts, before it
in the module, say why the property holds, and the property follows.

- **`EdgeRotationProofs`.** `RotationInvariant`: type correctness, the shape of
  cooldowns (`left <= cur <= cap`), what a scan has listed so far (`Listed`,
  `ReadyOrder`), and that a tripped prober's streak still stands
  (`StreakStands`). `ExhaustedMeansAllTried` alone is not inductive: it needs
  that the two lists together hold all upstreams of the configured order, which
  in turn is a fact about every prefix of the scan.
- **`EdgeTunnelProofs`.** `ClockInvariant` follows the clock wait by wait: on the
  proxied path `elapsed + budget` grows by at most two connect timeouts beyond
  the total within one attempt; on the direct path retry `a` begins after at most
  `a - 1` whole rounds. `ConnectionSearches` shows that sockets and bytes add
  nothing the clock does not know, so that all of it holds of a connection.
  `TunnelInvariant` says which sockets are open at each point (`Held`), and where
  each unit read and not yet written is, upwards (`Given`) and downwards
  (`Received`): `StreamsIntact` and `FinishedResponseWhole` read this off at the
  end.
- **`DnsCacheProofs`.** `CacheInvariant` ties flights, owners and waiters
  together: `Finish` may delete the flight of its key because the table names it,
  and wakes everyone because waiters wait on the process the table names.
  `OvertakenDropped` is the part of the epoch check that the code keeps.
  `BooksInvariant` is the list, the entries and the byte count; the eviction loop
  of `put` takes lemmas about sums over finite sets and about the longest suffix
  that is dropped. `ImplementsMemory` is the step simulation on both: under it a
  `put` with its evictions is one step of `AnswerMemory`. It is a refinement of
  `RefillSpec`, where an answer vouched for before a change of policy may be stored
  after it, and nothing else of the earlier policy may; `MemorySpec` is violated.
- **`PolicyReloadProofs`.** `ReloadInvariant`: what a query that is under way knows
  of the rules in force (overtaken, or missed the change, or routed under them),
  and, while no runtime file was replaced, that the file, the fingerprint and the
  snapshots agree. From it `OldAnswersHaveAReason`, which would not be inductive
  without what the files hold over a crash, and `NoLongerLife`.
- **`EdgeDirectProofs`.** `DirectInvariant`: the table of calls names the process
  that looks up (`CallOwned`); the kernel's answer is the last word before a dial
  and a change of address after it makes it unsure (`NeverDialsItself`). That an
  address given up is served again is liveness and left to TLC.
- **`AddOnProofs`.** `SupervisorInvariant`: run.sh knows what it started
  (`StartedAreKnown`), so the trap kills all of it. `PolicyInvariant`: what is in
  the kernel between two commands of `apply` (`HalfDone`), so a table that marks
  never stands without its route by the script's own doing. That `AddOn` takes
  only steps of `Supervisor`, or none of it, is a lemma (`StepsAreSupervisor`): it
  follows from the definitions and carries the invariants over. `HealthInvariant`:
  what the controller is about to PUT is what this round's scores decided
  (`PutDecided`). `RatioDecidesNothing` proves the violation of section 6 from the
  other side: with a ratio of at most one, the test is true of every lane that
  answered.
- **`EdgeGrantsProofs`** (with `ClientSync` as an instance). `GrantsInvariant`:
  the source of a connection on which HTTP gets anywhere is its client, save on
  one the router made for itself and on one it forwards under a header of a family
  that is not read, which have the router's (`SourceIsClient`).
  `OnlyAskersGranted` states both cases, of requests whose headers name no
  address. `ImplementsAuth` maps every step to one of `EdgeAuth`, so
  `NamesOnlyOfAllowed`, proved of `EdgeAuth`, holds here. `NothingOutOfReach` is
  the safety part of `UnusedForgotten`: whoever wrote an entry, once it has
  expired and idled for the window, the collector's test takes it.
- **`ResolveProofs`.** `MostSpecificRule`: the loop over any list of rules returns
  the first of the most specific ones that apply. `ResolveInvariant`: the failure
  count is at most the streak of failed reports (`CountedInStreak`).
  `StreamInvariant`: what is buffered and what is to come is the rest of the
  script (`RestAhead`), so a query with a length prefix whose length is legal and
  whose content `dnsMessageLen` takes is never what a connection is closed for;
  and one clock per query (`OneClock`).

What liveness rests on besides fairness is proved as well: a number, or an order,
that every step of the one concerned brings down and that nobody else's brings up
again. Each is an action property over all steps of the specification.

| liveness property | theorem | what runs down |
|---|---|---|
| `FetchReturns` | `FetchRunsDown` | five steps of a fetch; who waits does so on an owner, which waits for nobody |
| `ConnectReturns` | `ConnectRunsDown` | `8 * MaxRetries` steps of a connection of the direct path |
| `HandleEnds` (its search) | `SearchRunsDown` | four steps a candidate, or three a retry |
| `EveryQueryReturns` | `QueryRunsDown` | five steps over the legs of a query |
| `BypassEnds` | `BypassRunsDown` | ticks of the cooldown; each query that is out adds one cooldown at most, and none goes out |
| `AcceptGoesOn` | `AcceptedInTurn` | a connection's place in the backlog; one header is waited for at a time |
| `RevocationArrives` | `RevocationIsForGood` | nothing: one applied payload without the client is enough, for good |

`AcceptedInTurn` assumes that no connection is called `"none"` or `"stopped"`, the
listener's other states (`Told`); `BypassRunsDown` that the queries are finitely
many.

Induction theorems take an operator as a parameter, which the provers here cannot
instantiate. Recursive functions and folds that the proofs meet (the rule loop,
the byte sums, the offsets of a script) are argued by a least counterexample
instead: `WFMin` over the naturals or over the finite subsets of a set.

Types are proved of `EdgeRotation`, `SearchDeadline`, `PolicyReload`,
`TproxyPolicy`, `RouteHealth` and `ClientSync`, and as a part of the invariants of
`Supervisor`, `EdgeDirect` and `DohBreaker`; `DnsCacheProofs` and
`EdgeTunnelProofs` carry the ranges they need. That of `EdgeAuth` only states
ranges.

Only model-checked: liveness, which needs fairness and ENABLED
(`RecoveredRejoins`, `HandleEnds`, `ConnectReturns`, `FetchReturns`, `BypassEnds`,
`ForeignServedAgain`, `EveryQueryReturns`, `UnusedForgotten`, `AcceptGoesOn`,
`RevocationArrives`, `EveryQueryAnswered`, `SoleLaneSelected`, `DeathEndsAddon`,
`PathComesBack`), of which the table gives the parts that are proved; and the
violations of section 6 themselves, which are behaviours.

## 6. What the checks showed

**Two violations are kept as runs.** Each checks one statement of a document
against what the code does.

- `dns_cache_refill`: `cache.go:177` compares the epoch in one critical section
  and puts the answer in the next. A `clear` between the two is followed by an
  answer of the earlier policy, which stays for its TTL. README.md:42 says such
  answers cannot refill the cache. `RemembersAnswers` shows that it is the only way
  for a lookup that began before the change; `OldAnswersAccountedFor` adds the
  query that was routed before it and begins its lookup after it.
- `route_health_ratio`: the switch test of `bin/route-health.sh:167` is
  `7 * best <= 10 * cur`. As the best lane is never slower than the current one
  when both answer, this holds always: a proven lane that is faster by any margin,
  or equally fast, wins. The header (line 8) says ">=30% faster";
  `RatioDecidesNothing` proves it of every ratio of at most one. The intended test
  would be `10 * best <= 7 * cur`.

The cache's key holds the route beside the question (`smartdns/main.go:1039`): an
answer of an earlier policy that stays is given out only where the policy in
force chooses the same route.

**Behaviours the models have that a reader of the docs may not expect.** The
properties above are stated so that they hold of the code; these are the places
where a stronger one would not.

- `smartdns/main.go:1922`: the tick compares the file with the fingerprint taken at
  start, not with the rules in force, so answers under the panel's policy are saved
  and restored under the file's (comments at 1898, 1925; `OldAnswersAccountedFor`
  excepts them).
- `smartdns/main.go:506`: SIGHUP loads the projection `run.sh` made at start
  (`bin/run.sh:130-168`), so an edit of `/data/config.json` needs a restart;
  README.md:12 says that SIGHUP loads it.
- `smartdns/main.go:1564`: a plain query over TLS that is split exactly where a
  label or record starts closes the connection; the comments at 1485 and 1495 say
  that more bytes may still complete it.
- `bin/run.sh:240`: the loop around `route-health.sh` runs under `set -e`, so a
  controller that fails ends the add-on and "restarting in 5s" (242) is not printed
  (`ControllerDies`).
- `bin/telegram-tproxy-watchdog.sh:43`: the loss of the ip rule alone is not
  noticed, so the path stays away; lines 5-6 say that the policy is applied until it
  exists again (`PathComesBack` speaks of the two parts that are looked at).
- `smartedge/main.go:1031`: an attempt's budget is spent by up to three waits,
  so a search may end two connect timeouts after its deadline (28-32); on the
  direct path lookups and dials take from the handshake wait (1021).
- `smartedge/main.go:1039`: when the ClientHello cannot be written to a tunnel, the
  search goes on without closing it; `SocketsReleased` excepts those.
- `smartedge/main.go:1070`: a pipe that ends closes what it reads from and writes
  to, so a client that half-closes after its request may lose the rest of the
  response (`FinishedResponseWhole` excepts it); and `handle` ends only when the
  download does, whose write to the client has no deadline (1076).
- `smartdns/proxy_protocol.go:59`: the header is read inside `Accept`, so a silent
  connection delays all others by up to ten seconds; and a header that is cut,
  or of a form without an address in version 1, is an error of `Accept`, on
  which `http.Server` stops serving: DoH is then down until a restart
  (`smartdns/main.go:1964` only logs it).
- `smartdns/proxy_protocol.go:112`: a version 2 header of a family other than TCP
  is consumed and names nobody, so requests over that connection authorise the
  router (`GrantedToAsker` excepts it); and a request whose `X-Forwarded-For` or
  `X-Real-IP` names an address authorises that one (`smartdns/main.go:586`).
- `smartdns/main.go:1477`: a query with a length prefix whose content
  `dnsMessageLen` does not take (no name, type or class zero, more than 16
  records) closes the connection with what is pipelined behind it.
- `smartedge/main.go:980`: a retry forgets the address that failed, and a lookup of
  another connection that was under way may bring it back.
- `smartdns/proxy_protocol.go:94`: a header that comes after the ten seconds is
  passed on as payload; that connection fails in TLS, and no permission follows.
- `smartdns/plain_tcp.go:45`: the client of a connection is found once, by its
  address, and asked for again by its identity at each query.
- `upstream.go:82`: a success of a query sent before the breaker opened ends the
  bypass at once, and after the cooldown every concurrent query passes, not one
  (README.md:46).
- `smartdns/main.go:1015`: DNS traffic of a pinned address overwrites its
  permanent entry with one that expires (comment at 217); `inactivityMs` 0 means
  30 days (comment at 159-162); the mapping of a permanent entry has Until 0 and
  is never served (1226).
- `smartdns/main.go:1597`: the TLS handshake of DNS over TLS has no deadline, so a
  client that stays silent keeps its goroutine; `EveryQueryAnswered` begins after
  it.
- `smartdns/main.go:276`: before the first sync there may be no client, and plain
  DNS is dropped (comment at 250).

## 7. Not modelled

- *Environment and option parsing, `jq` scripts, packaging*: files to files.
- *`route-probe`, `healthcheck.sh`*: stateless; their verdicts are inputs.
- *Message bytes*: names, TTL rewriting, TLS and HTTP.
- *Identity by address*: the map from addresses to clients, filled once.

## 8. Plan

Done, in this order, the most shared state first: `EdgeRotation`, `DnsCache`,
`SearchDeadline`, their proofs; `DohBreaker`, `EdgeAuth`, `RouteHealth`,
`DotFraming`, `Supervisor`, `TproxyPolicy`, `AddOn`, `PolicyReload`,
`ClientSync`, `EdgeDirect`; then `EdgeTunnel` on `SearchDeadline`, `Routing`,
`ProxyAccept`, `PlainTcp`, the compositions `Resolve` and `EdgeGrants`, and
`AnswerMemory` with its refinement; then the proofs of all safety properties, which
share eight modules.

To extend the models:

1. `EdgeTunnel` composed with `EdgeRotation`, whose attempts it takes apart, as
   a refinement: a step of the search there is `Carried` or `Failed` here.
2. `Resolve` with `DnsCache` in front of the upstreams, with one key per route and
   profile, so that a change of the policy meets lookups under way.
3. `route-probe`: one verdict of several data centres, inside `RouteHealth`.

To prove more: what runs down towards `RecoveredRejoins`, `EveryQueryAnswered` and
`DeathEndsAddon`, as for the others in section 5; and the refinement of the first
item above.

## 9. Running

    tlc -config DnsCache.cfg DnsCache        # likewise the other runs
    tlapm EdgeRotationProofs.tla
