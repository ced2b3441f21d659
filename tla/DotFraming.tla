----------------------------- MODULE DotFraming -----------------------------
(***************************************************************************)
(* One DNS-over-TLS connection of smartdns (handleDoT and nextDoTFrame):   *)
(* the read loop that cuts the byte stream into queries, plain or with the *)
(* length prefix of DNS over TCP, and the goroutine that answers each.     *)
(*                                                                         *)
(* The stream is a script of queries, with a question or more and without  *)
(* answers.  A buffer is how many of its bytes have been read: what        *)
(* dnsMessageLen and nextDoTFrame say of it depends on the first query in  *)
(* it only, and of a query only on its length, its first two bytes, where  *)
(* its labels and records start, and where its content is refused.         *)
(***************************************************************************)
EXTENDS Integers, SequencesExt

CONSTANTS
  Scripts,   \* what a client may send: sequences of queries
  Header,    \* 12, the bytes of a DNS header and the shortest prefix accepted
  MaxFrame   \* 4096, the longest prefix accepted and the read size

\* id: the first two bytes of a plain query; starts: the offsets of a label, or
\* of an additional record, in it; refused: the bytes of it after which
\* dnsMessageLen refuses what it says (counts, a name, a type or class of zero, the
\* root zone) or finds that it is not as long as its prefix.
Query == [id : Nat, len : Nat, starts : SUBSET Nat, refused : Nat, framed : BOOLEAN]

\* A query whose content is never refused.
Acceptable(q) == q.refused > q.len

ASSUME DotAssumption ==
  /\ Header \in Nat /\ Header >= 2 /\ MaxFrame \in Nat
  /\ \A s \in Scripts :
       /\ s \in Seq(Query)
       /\ \A i \in 1..Len(s) : s[i].len \in (Header + 1)..MaxFrame /\ Header \in s[i].starts

VARIABLES
  script,    \* the queries of this client, in order
  left,      \* bytes of them not yet read
  buf,       \* len(buf)
  head,      \* the query the first byte of buf belongs to
  pc,        \* "handshake", then the read loop: "read", "frame", "rejected" or "gone"
  running,   \* queries whose goroutine is in resolve
  answered   \* queries whose answer was written

dotVars == <<script, left, buf, head, pc, running, answered>>

\* Places a query can have in a script.
Places == UNION {1..Len(s) : s \in Scripts}

\* Bytes of a query on the wire.
Size(q) == IF q.framed THEN 2 + q.len ELSE q.len

-----------------------------------------------------------------------------
(* dnsMessageLen and nextDoTFrame.                                          *)

\* dnsMessageLen on n bytes.  skipDNSNameLabels takes a buffer that ends where
\* a label or a record should start for an invalid name.  The bytes of a framed
\* query read as a header have its question count for an answer count.
MessageLen(q, n) ==
  IF n < Header THEN "partial"
  ELSE IF q.framed \/ n >= q.refused THEN "invalid"
  ELSE IF n >= q.len THEN "complete"
  ELSE IF n \in q.starts THEN "invalid" ELSE "partial"

\* The two bytes that nextDoTFrame reads as a length prefix.
Prefix(q) == IF q.framed THEN q.len ELSE q.id

\* A prefix whose bytes have not all arrived is taken for an invalid stream.
NextFrameWholeOnly(q, n) ==
  IF MessageLen(q, n) = "complete" THEN "query"
  ELSE IF q.framed /\ Acceptable(q) /\ n >= Size(q) THEN "query"
  ELSE IF n >= Header THEN "reject" ELSE "more"

\* What nextDoTFrame says of a buffer of n > 0 bytes.
NextFrame(q, n) ==
  IF MessageLen(q, n) = "complete" THEN "query"
  ELSE IF n >= 2 /\ Prefix(q) \in Header..MaxFrame
       THEN IF n < 2 + Prefix(q) THEN "more"
            ELSE IF q.framed /\ Acceptable(q) THEN "query" ELSE "reject"
  ELSE IF MessageLen(q, n) = "partial" THEN "more" ELSE "reject"

-----------------------------------------------------------------------------
(* handleDoT.                                                               *)

\* The TLS handshake ends, for which there is no deadline: it fails, it names no
\* client or one that is not in the table, or the read loop begins.
Handshake ==
  /\ pc = "handshake"
  /\ pc' \in {"read", "gone"}
  /\ UNCHANGED <<script, left, buf, head, running, answered>>

\* Read returns some of the bytes in flight.
Read ==
  /\ pc = "read" /\ left > 0
  /\ \E n \in 1..left :
       /\ n <= MaxFrame
       /\ buf' = buf + n /\ left' = left - n
  /\ pc' = "frame"
  /\ UNCHANGED <<script, head, running, answered>>

\* Read fails: 15 seconds without a byte, or the client is gone.  The deferred
\* Close takes the answers still in resolve with it.
ReadEnds ==
  /\ pc = "read"
  /\ pc' = "gone"
  /\ UNCHANGED <<script, left, buf, head, running, answered>>

\* The rest of the buffer is forgotten with the query cut from it.
RestDropped(q, n) == 0

Rest(q, n) == n - Size(q)

\* for len(buf) > 0
AfterQuery(n) == IF n > 0 THEN "frame" ELSE "read"

\* One turn of the inner loop.
Frame ==
  /\ pc = "frame"
  /\ \/ /\ NextFrame(script[head], buf) = "query"
        /\ buf' = Rest(script[head], buf)
        /\ head' = head + 1
        /\ running' = running \cup {head}
        /\ pc' = AfterQuery(buf')
     \/ /\ NextFrame(script[head], buf) = "more"
        /\ pc' = "read"
        /\ UNCHANGED <<buf, head, running>>
     \/ /\ NextFrame(script[head], buf) = "reject"
        /\ pc' = "rejected"
        /\ UNCHANGED <<buf, head, running>>
  /\ UNCHANGED <<script, left, answered>>

\* resolve returns and the goroutine writes; on a closed connection in vain.
WriteAnswer(i) ==
  /\ i \in running
  /\ running' = running \ {i}
  /\ answered' = IF pc \in {"read", "frame"} THEN answered \cup {i} ELSE answered
  /\ UNCHANGED <<script, left, buf, head, pc>>

\* What a script is on the wire.
Bytes(s) == FoldLeft(LAMBDA n, q : n + Size(q), 0, s)

DotInit ==
  /\ script \in Scripts
  /\ left = Bytes(script)
  /\ buf = 0 /\ head = 1 /\ pc = "handshake"
  /\ running = {} /\ answered = {}

DotNext == Handshake \/ Read \/ ReadEnds \/ Frame \/ \E i \in Places : WriteAnswer(i)

DotSpec == DotInit /\ [][DotNext]_dotVars

\* The goroutine of the connection runs while it has bytes, and every resolve ends.
FairDot ==
  /\ DotSpec /\ WF_dotVars(Read \/ Frame)
  /\ \A i \in Places : WF_dotVars(WriteAnswer(i))

-----------------------------------------------------------------------------
(* Properties.                                                              *)

\* A length-prefixed query of a legal length and content is never what a connection
\* is closed for, wherever its bytes and those of its neighbours are split.
FramedNeverRejected ==
  pc = "rejected" =>
    ~(script[head].framed /\ script[head].len \in Header..MaxFrame /\ Acceptable(script[head]))

\* Every query that is sent once the handshake is over is answered, unless the
\* connection ends.
EveryQueryAnswered ==
  \A i \in Places :
    (i <= Len(script) /\ pc # "handshake") ~> (i \in answered \/ pc \in {"rejected", "gone"})
=============================================================================
