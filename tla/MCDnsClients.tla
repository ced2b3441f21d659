---------------------------- MODULE MCDnsClients ----------------------------
(* Three parts of smartdns that hold something of a client and share no     *)
(* variable: its connection (PlainTcp, DotFraming), its place in the client *)
(* table (ClientSync) and its address on the allow-list (EdgeAuth).  In a   *)
(* behaviour one of them works and the others rest, so that each has its    *)
(* own behaviours and no others.                                            *)
(*                                                                          *)
(* Five shapes of query, and scripts of up to three of them; for the plain  *)
(* listener also lengths beside both of its bounds.  Both ids of the client *)
(* file may be taken over by the panel.                                     *)
EXTENDS PlainTcp, ClientSync

CONSTANTS
  local, paid, new, q1,
  IPs, Domains, AuthTTL, PanelTTLs, InactivityMs, DefaultInactivity

VARIABLES allowed, mapped,
  part  \* the one that works: "stream", "table" or "list"

A == INSTANCE EdgeAuth

listVars == <<allowed, mapped>>

allVars == <<streamVars, vars, listVars, part>>

MCConfig == {local, paid}

\* www.example-like: two labels and an OPT record.  Its id reads as a prefix
\* shorter than the query itself.
SmallId ==
  [id |-> 20, len |-> 36, starts |-> {12, 16, 20, 25}, refused |-> 37, framed |-> FALSE]
LargeId == [id |-> 5000, len |-> 22, starts |-> {12, 17}, refused |-> 23, framed |-> FALSE]
Prefixed == [LargeId EXCEPT !.framed = TRUE]

\* A query for the root zone, which is refused at its last byte.
Root == [id |-> 5000, len |-> 17, starts |-> {12}, refused |-> 17, framed |-> FALSE]
RootPrefixed == [Root EXCEPT !.framed = TRUE]

AllQueries == {SmallId, LargeId, Prefixed, Root, RootPrefixed}

MCScripts == {<<a, b>> : a, b \in AllQueries} \cup {<<Prefixed, LargeId, Prefixed>>}

\* What is refused over TLS does not matter to the plain listener.
OfLength(n) == [Prefixed EXCEPT !.len = n]

MCTcpScripts ==
  {<<Prefixed, Prefixed, Prefixed>>} \cup
  {<<OfLength(a), OfLength(b)>> : a, b \in {0, 11, 12, 22, 4097}}

-----------------------------------------------------------------------------
(* A part at rest: a connection that was refused, an empty panel and lists. *)

StreamRests ==
  /\ kind = "tcp" /\ TcpInit /\ pc = "gone" /\ timer = ReadTime /\ spent = 0
  /\ script = CHOOSE s \in TcpScripts : TRUE

TableRests == Init /\ DOMAIN panel = {}

BesidesInit ==
  \/ part = "stream" /\ StreamInit /\ TableRests /\ A!Init
  \/ part = "table" /\ StreamRests /\ Init /\ A!Init
  \/ part = "list" /\ StreamRests /\ TableRests /\ A!Init

StreamGoes(step) == part = "stream" /\ step /\ UNCHANGED <<vars, listVars, part>>

TableGoes(step) == part = "table" /\ step /\ UNCHANGED <<streamVars, listVars, part>>

ListGoes(step) == part = "list" /\ step /\ UNCHANGED <<streamVars, vars, part>>

BesidesNext == StreamGoes(StreamNext) \/ TableGoes(Next) \/ ListGoes(A!Next)

\* The fairness of StreamSpec, FairSpec and A!FairSpec, for the part that works.
BesidesSpec ==
  /\ BesidesInit /\ [][BesidesNext]_allVars
  /\ WF_allVars(StreamGoes(kind = "dot" /\ (Read \/ Frame) /\ UNCHANGED <<kind, timer, spent>>))
  /\ \A i \in Places :
       WF_allVars(StreamGoes(kind = "dot" /\ WriteAnswer(i) /\ UNCHANGED <<kind, timer, spent>>))
  /\ WF_allVars(StreamGoes(kind = "tcp" /\ TcpTurn /\ UNCHANGED kind))
  /\ WF_allVars(TableGoes(Fetch)) /\ SF_allVars(TableGoes(Apply))
  /\ WF_allVars(ListGoes(A!Collect)) /\ WF_allVars(ListGoes(A!Tick))

UnusedForgotten == A!UnusedForgotten
=============================================================================
