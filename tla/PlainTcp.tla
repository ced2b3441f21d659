----------------------------- MODULE PlainTcp -----------------------------
(***************************************************************************)
(* One DNS-over-TCP connection of smartdns (handlePlainDNSConn), beside    *)
(* the DNS-over-TLS one of DotFraming: one query after another, each read  *)
(* to its last byte, resolved and answered before the next is read.        *)
(*                                                                         *)
(* A connection is of one kind.  Here buf holds the length and the body of *)
(* the query being read; what comes after it stays with the kernel.        *)
(***************************************************************************)
EXTENDS DotFraming

CONSTANTS
  TcpScripts,  \* what a client of this listener may send, whatever its lengths
  ReadTime     \* the read deadline, in ticks (30 s in the source)

ASSUME PlainTcpAssumption ==
  /\ ReadTime \in Nat \ {0}
  /\ \A s \in TcpScripts : s \in Seq(Query) /\ \A i \in 1..Len(s) : i \in Places /\ s[i].framed

VARIABLES
  kind,   \* the listener: "dot" or "tcp"
  timer,  \* time until the read deadline
  spent   \* history: time since the query being read was waited for

streamVars == <<dotVars, kind, timer, spent>>

\* Every Read gets the time anew.
TimerAfterReadAnew == ReadTime

\* The deadline is set once for the length and the body.
TimerAfterRead == timer

\* The bytes ReadFull asks for: the length, then the body.
Wanted == IF buf < 2 THEN 2 - buf ELSE Size(script[head]) - buf

\* Either ReadFull goes on; a length out of bounds ends the connection.
ReadPart ==
  /\ pc = "read" /\ timer > 0 /\ left > 0
  /\ \E n \in 1..Wanted :
       /\ n <= left
       /\ buf' = buf + n /\ left' = left - n
       /\ pc' = IF buf + n = 2 /\ script[head].len \notin Header..MaxFrame THEN "rejected"
                ELSE IF buf + n = Size(script[head]) THEN "resolve" ELSE "read"
  /\ running' = IF pc' = "resolve" THEN {head} ELSE {}
  /\ timer' = TimerAfterRead
  /\ UNCHANGED <<script, head, answered, spent>>

\* ReadFull fails: the deadline, or the end of the stream.
ReadFails ==
  /\ pc = "read"
  /\ pc' = "gone"
  /\ UNCHANGED <<script, left, buf, head, running, answered, timer, spent>>

\* resolve returns, and its answer, or a failure, is written; the loop turns.
Reply ==
  /\ pc = "resolve"
  /\ \/ pc' = "read" /\ answered' = answered \cup {head}
     \/ pc' = "gone" /\ UNCHANGED answered
  /\ buf' = 0 /\ head' = head + 1 /\ running' = {}
  /\ timer' = ReadTime /\ spent' = 0
  /\ UNCHANGED <<script, left>>

TcpTick ==
  /\ pc = "read" /\ timer > 0
  /\ timer' = timer - 1 /\ spent' = IF spent > ReadTime THEN spent ELSE spent + 1
  /\ UNCHANGED dotVars

TcpTurn == ReadPart \/ (timer = 0 /\ ReadFails) \/ Reply \/ TcpTick

\* A peer no client is known for is closed at once.
TcpInit ==
  /\ script \in TcpScripts
  /\ left = Bytes(script)
  /\ buf = 0 /\ head = 1 /\ pc \in {"read", "gone"}
  /\ running = {} /\ answered = {}

StreamInit ==
  /\ timer = ReadTime /\ spent = 0
  /\ \/ kind = "dot" /\ DotInit
     \/ kind = "tcp" /\ TcpInit

StreamNext ==
  /\ \/ kind = "dot" /\ DotNext /\ UNCHANGED <<timer, spent>>
     \/ kind = "tcp" /\ (TcpTurn \/ ReadFails)
  /\ UNCHANGED kind

\* Of the TCP connection: its goroutine goes on, time passes, and every resolve
\* and every write ends.
StreamSpec ==
  /\ StreamInit /\ [][StreamNext]_streamVars
  /\ WF_streamVars(kind = "dot" /\ (Read \/ Frame) /\ UNCHANGED <<kind, timer, spent>>)
  /\ \A i \in Places :
       WF_streamVars(kind = "dot" /\ WriteAnswer(i) /\ UNCHANGED <<kind, timer, spent>>)
  /\ WF_streamVars(kind = "tcp" /\ TcpTurn /\ UNCHANGED kind)

-----------------------------------------------------------------------------
(* Properties.                                                              *)

\* A client that sends a query byte by byte holds the handler for one read
\* deadline, not for one per byte.
OneDeadlinePerQuery == kind = "tcp" /\ pc = "read" => spent <= ReadTime
=============================================================================
