----------------------------- MODULE EdgeTunnel -----------------------------
(***************************************************************************)
(* One client connection of smartedge from accept to close (handle): the   *)
(* ClientHello, the search for an upstream that forwards, and the two      *)
(* pipes.  The search is SearchDeadline's; here its steps also open and    *)
(* close sockets and carry bytes.                                          *)
(*                                                                         *)
(* A unit is a run of bytes no step divides.  The client's stream is the   *)
(* units 1, 2, ...; the one of the upstream of attempt a is <<a, 1>>,      *)
(* <<a, 2>>, ...  Sequences of them show who was given what.  The peers    *)
(* send, fall silent, end their streams and go as they like.               *)
(***************************************************************************)
EXTENDS SearchDeadline, Sequences

CONSTANTS
  Hellos,   \* shapes of a ClientHello: its units and the name in it
  Sends,    \* a bound on the units a client sends
  Proof,    \* handshakeProofBytes, in units
  Replies   \* a bound on the units an upstream sends on one connection

ASSUME TunnelAssumption ==
  /\ Hellos \subseteq [units : Nat \ {0}, name : {"public", "blocked", "none"}]
  /\ Sends \in Nat /\ Proof \in Nat \ {0} /\ Replies \in Nat

VARIABLES
  stage,     \* of handle: "hello", "search", "pipes" or "done"
  shape,     \* the ClientHello this client sends
  sent,      \* units the client has sent
  client,    \* "open", "half" after its FIN, or "gone"
  open,      \* is our end of the client's connection open?
  taken,     \* units read from the client
  hello,     \* the units readHello collected
  sockets,   \* attempts whose upstream connection is open at our end
  unwritten, \* history: attempts that could not write the ClientHello
  fed,       \* units given to the latest upstream
  usent,     \* units it has sent
  uend,      \* has it ended its stream?
  uread,     \* units of it read
  first,     \* the proof, which prefixedConn keeps for the download pipe
  got,       \* units given to the client
  down, up,  \* the pipes: "read", "write" or "ended"
  dbuf, ubuf,\* what a pipe has read and not written
  ender      \* history: what ended the first pipe to end

streams == <<fed, usent, uend, uread, first, got, sockets, unwritten>>

pipes == <<down, up, dbuf, ubuf, ender>>

peer == <<shape, sent, client>>

tunnelVars == <<vars, stage, open, taken, hello, peer, streams, pipes>>

Upto(k) == [i \in 1..k |-> i]

\* Units i to j of the latest upstream's stream.
Units(i, j) == [k \in 1..(j - i + 1) |-> <<attempt, i + k - 1>>]

-----------------------------------------------------------------------------
(* readHello.                                                               *)

\* parseSNI: nothing before the whole first record is there.
SNI(b) == IF Len(b) >= shape.units THEN shape.name ELSE "none"

AllowedHost(name) == name = "public"

Refused == stage' = "done" /\ open' = FALSE

\* Everything read is kept, also what follows the ClientHello.
ReadHello ==
  /\ stage = "hello"
  /\ \E k \in (taken + 1)..sent : taken' = k /\ hello' = Upto(k)
  /\ IF Len(hello') < shape.units THEN UNCHANGED <<stage, open>>
     ELSE IF AllowedHost(SNI(hello')) THEN stage' = "search" /\ UNCHANGED open
     ELSE Refused
  /\ UNCHANGED <<vars, peer, streams, pipes>>

\* Five seconds without a byte, or the end of the stream.
HelloEnded == taken = sent \/ client = "gone"

ReadHelloFails ==
  /\ stage = "hello" /\ HelloEnded
  /\ Refused
  /\ UNCHANGED <<vars, taken, hello, peer, streams, pipes>>

-----------------------------------------------------------------------------
(* connectUpstream: what its steps do to sockets and streams.               *)

\* handle goes on with a tunnel, or returns with the error.
AfterSearch ==
  /\ stage' = IF phase' = "carried" THEN "pipes" ELSE IF phase' \in Ended THEN "done" ELSE stage
  /\ open' = (phase' \notin Ended \ {"carried"})

Connected(a, given) ==
  /\ sockets' = sockets \cup {a}
  /\ fed' = given /\ usent' = 0 /\ uend' = FALSE /\ uread' = 0

Unconnected == UNCHANGED <<sockets, fed, usent, uend, uread>>

OpenSocket ==
  /\ \/ Dial /\ IF phase' = "reply" THEN Connected(attempt, <<>>) ELSE Unconnected
     \/ DirectDial /\ IF phase' = "await" THEN Connected(attempt, hello) ELSE Unconnected
  /\ UNCHANGED <<unwritten, first, got>>

Closed == sockets' = sockets \ {attempt}

\* The reply to CONNECT and the write of the ClientHello.  What the proxy sent
\* behind its response headers stays in bufferedConn, to be read.  When the write fails
\* connectUpstream goes on without closing the connection.
ProxyReplies ==
  /\ Reply
  /\ \/ /\ phase' = "await"
        /\ fed' = hello
        /\ UNCHANGED <<sockets, unwritten>>
     \/ /\ phase' = "loop"
        /\ Closed
        /\ UNCHANGED <<fed, unwritten>>
     \/ /\ phase' = "loop"
        /\ unwritten' = unwritten \cup {attempt}
        /\ UNCHANGED <<sockets, fed>>
  /\ UNCHANGED <<usent, uend, uread, first, got>>

\* Bytes of an attempt that failed stay in the buffer of the next one.
PartialKept == first' = Units(1, usent)

\* The bytes awaitUpstreamForward returned with its error are dropped.
PartialDropped == UNCHANGED first

\* A tunnel that was not proven is left open.
LeftOpen == UNCHANGED sockets

ClosedAfterWait == Closed

AwaitProof ==
  /\ Await \/ DirectAwait
  /\ IF phase' = "carried"
     THEN /\ usent >= uread + Proof
          /\ first' = first \o Units(uread + 1, uread + Proof) /\ uread' = uread + Proof
          /\ UNCHANGED sockets
     ELSE ClosedAfterWait /\ PartialDropped /\ UNCHANGED uread
  /\ UNCHANGED <<fed, usent, uend, got, unwritten>>

SearchStep ==
  /\ stage = "search"
  /\ \/ OpenSocket \/ ProxyReplies \/ AwaitProof
     \/ /\ Loop \/ LoopDeadline \/ LoopExhausted \/ Resolve \/ Retry
        /\ UNCHANGED streams
  /\ AfterSearch
  /\ UNCHANGED <<taken, hello, peer, pipes>>

-----------------------------------------------------------------------------
(* The pipes.                                                               *)

First(why) == ender' = IF ender = "none" THEN why ELSE ender

\* The deferred dst.Close of the download pipe.
DownEnds(why) ==
  /\ down' = "ended" /\ First(why)
  /\ open' = FALSE
  /\ UNCHANGED <<dbuf, first, uread>>

Upstreamed == attempt \in sockets

\* prefixedConn without the prefix.
PrefixForgotten == first' = <<>> /\ dbuf' = <<>>

\* The first read of prefixedConn returns the proof, and touches no socket.
PrefixRead == first' = <<>> /\ dbuf' = first

DownRead ==
  /\ down = "read"
  /\ \/ /\ first # <<>> /\ PrefixRead
        /\ down' = "write"
        /\ UNCHANGED <<uread, open, ender>>
     \/ /\ first = <<>> /\ Upstreamed /\ uread < usent
        /\ dbuf' = Units(uread + 1, uread + 1) /\ uread' = uread + 1
        /\ down' = "write"
        /\ UNCHANGED <<first, open, ender>>
     \/ /\ first = <<>>
        /\ \/ Upstreamed /\ uread = usent /\ DownEnds(IF uend THEN "eof" ELSE "idle")
           \/ ~Upstreamed /\ DownEnds("closed")

\* There is no deadline on a write: it takes as long as the client takes.
DownWrite ==
  /\ down = "write"
  /\ got' = got \o dbuf /\ dbuf' = <<>>
  /\ down' = "read"
  /\ UNCHANGED <<first, uread, open, ender>>

DownWriteFails ==
  /\ down = "write" /\ client = "gone"
  /\ DownEnds("write")
  /\ UNCHANGED got

Down ==
  /\ stage = "pipes"
  /\ (DownRead /\ UNCHANGED got) \/ DownWrite \/ DownWriteFails
  /\ UNCHANGED <<vars, stage, taken, hello, peer, up, ubuf, fed, usent, uend, sockets, unwritten>>

\* The deferred dst.Close of the upload pipe, half-close or not.
UpEnds(why) ==
  /\ up' = "ended" /\ First(why) /\ Closed
  /\ UNCHANGED <<taken, ubuf, fed>>

UpRead ==
  /\ up = "read"
  /\ \/ /\ open /\ taken < sent
        /\ ubuf' = <<taken + 1>> /\ taken' = taken + 1 /\ up' = "write"
        /\ UNCHANGED <<fed, ender, sockets>>
     \/ (~open \/ client = "gone" \/ taken = sent) /\ UpEnds("up")

UpWrite ==
  /\ up = "write" /\ Upstreamed
  /\ fed' = fed \o ubuf /\ ubuf' = <<>>
  /\ up' = "read"
  /\ UNCHANGED <<taken, sockets, ender>>

UpWriteFails ==
  /\ up = "write" /\ (~Upstreamed \/ uend)
  /\ UpEnds("up")

Up ==
  /\ stage = "pipes"
  /\ UpRead \/ UpWrite \/ UpWriteFails
  /\ UNCHANGED <<vars, stage, open, hello, peer, down, dbuf, usent, uend, uread, first, got,
                 unwritten>>

\* handle waits for the pipes without closing the upstream's connection first.
AfterDownWaiting == UNCHANGED sockets

\* handle after <-done closes both connections.
AfterDown == Closed

HandleCloses ==
  /\ stage = "pipes" /\ down = "ended" /\ (Upstreamed \/ open)
  /\ AfterDown /\ open' = FALSE
  /\ UNCHANGED <<vars, stage, taken, hello, peer, pipes, fed, usent, uend, uread, first, got, unwritten>>

\* wg.Wait, the counters and the deferred calls.
HandleReturns ==
  /\ stage = "pipes" /\ down = "ended" /\ up = "ended"
  /\ stage' = "done" /\ open' = FALSE /\ Closed
  /\ UNCHANGED <<vars, taken, hello, peer, pipes, fed, usent, uend, uread, first, got, unwritten>>

-----------------------------------------------------------------------------
(* The peers.                                                               *)

ClientSends ==
  /\ client = "open" /\ sent < Sends /\ stage # "done"
  /\ sent' = sent + 1
  /\ UNCHANGED <<vars, stage, open, taken, hello, shape, client, streams, pipes>>

ClientEnds ==
  /\ stage # "done"
  /\ \/ client = "open" /\ client' = "half"
     \/ client # "gone" /\ client' = "gone"
  /\ UNCHANGED <<vars, stage, open, taken, hello, shape, sent, streams, pipes>>

UpstreamSends ==
  /\ Upstreamed /\ ~uend /\ usent < Replies /\ stage # "done"
  /\ usent' = usent + 1
  /\ UNCHANGED <<vars, stage, open, taken, hello, peer, pipes, fed, uend, uread, first, got, sockets,
                 unwritten>>

UpstreamEnds ==
  /\ Upstreamed /\ ~uend /\ stage # "done"
  /\ uend' = TRUE
  /\ UNCHANGED <<vars, stage, open, taken, hello, peer, pipes, fed, usent, uread, first, got, sockets,
                 unwritten>>

TunnelInit ==
  /\ Init
  /\ stage = "hello" /\ shape \in Hellos /\ sent = 0 /\ taken = 0 /\ client = "open" /\ open = TRUE
  /\ hello = <<>> /\ sockets = {} /\ unwritten = {} /\ fed = <<>>
  /\ usent = 0 /\ uend = FALSE /\ uread = 0 /\ first = <<>> /\ got = <<>>
  /\ down = "read" /\ up = "read" /\ dbuf = <<>> /\ ubuf = <<>> /\ ender = "none"

TunnelNext ==
  \/ ReadHello \/ ReadHelloFails \/ SearchStep
  \/ Down \/ Up \/ HandleCloses \/ HandleReturns
  \/ ClientSends \/ ClientEnds \/ UpstreamSends \/ UpstreamEnds

TunnelSpec == TunnelInit /\ [][TunnelNext]_tunnelVars

\* Reads have deadlines and goroutines run.  Writes have none: they are fair
\* only where they fail.
FairTunnelSpec ==
  /\ TunnelSpec
  /\ WF_tunnelVars(ReadHello \/ ReadHelloFails)
  /\ WF_tunnelVars(SearchStep)
  /\ WF_tunnelVars(Down /\ down = "read") /\ WF_tunnelVars(Down /\ DownWriteFails)
  /\ WF_tunnelVars(Up /\ up = "read") /\ WF_tunnelVars(Up /\ UpWriteFails)
  /\ WF_tunnelVars(HandleCloses \/ HandleReturns)

-----------------------------------------------------------------------------
(* Properties.                                                              *)

\* Failover is invisible at both ends.  Whatever happened before, the client is
\* given the stream of one upstream from its first byte on, without a byte of an
\* upstream that was given up, and that upstream the client's stream from its
\* first byte on, without a gap where readHello, the replay and the upload pipe
\* meet (comments at 837-840 and 999-1002).
StreamsIntact ==
  /\ \E a \in 1..attempt : got = [i \in 1..Len(got) |-> <<a, i>>]
  /\ fed = Upto(Len(fed))

\* A response the upstream has finished arrives whole, unless the upload ended
\* first, in which case both directions are closed, or the client went away.
FinishedResponseWhole ==
  ender = "eof" => got = Units(1, usent)

\* When handle has returned no connection of it is left open, except those whose
\* ClientHello could not be written.
SocketsReleased == stage = "done" => ~open /\ sockets = unwritten

\* handle returns, with silent peers, with a half-closed client and with an
\* upstream that takes nothing, if only no write to the client blocks for ever.
HandleEnds == []<>(down # "write") => <>(stage = "done")
=============================================================================
