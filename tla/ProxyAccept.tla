---------------------------- MODULE ProxyAccept ----------------------------
(***************************************************************************)
(* The DoH listener of smartdns behind an SNI router that may or may not   *)
(* announce the client with a PROXY header (proxy_protocol.go), and the    *)
(* accept loop of http.Server that ends on the first error of Accept.      *)
(*                                                                         *)
(* The header is read inside Accept, one connection at a time.  Of what    *)
(* the parser has read only matters whether it is Few bytes, too few to    *)
(* tell, enough to be Recognised as a header, or the Whole of it.          *)
(***************************************************************************)
EXTENDS Integers, Sequences

CONSTANTS
  Conns,   \* connections
  Client,  \* the address of the client behind each of them: a function
  Router   \* the address of the router

VARIABLES
  conn,     \* each connection: what it begins with, how far it is, its source
  backlog,  \* those that wait to be accepted
  reading   \* the one whose header Accept reads, "none", or "stopped"

acceptVars == <<conn, backlog, reading>>

\* named is a header of either version that names the client.  v2other forwards a
\* client too, over a family other than TCP, and names none; local is a connection
\* the router made for itself; unknown is version 1 that names none.  Without a
\* header the connection comes straight from the client.
Kinds == {"named", "v2other", "local", "unknown", "plain"}

Few == 1
Recognised == 2
Whole == 3

Away == [pc |-> "away", kind |-> "plain", read |-> 0, source |-> Router, dirty |-> FALSE]

Forwarded(c) == conn[c].kind # "plain"

Peer(c) == IF Forwarded(c) THEN Router ELSE Client[c]

-----------------------------------------------------------------------------
(* The other end.                                                           *)

Connect(c) ==
  /\ conn[c].pc = "away" /\ reading # "stopped"
  /\ \E k \in Kinds : conn' = [conn EXCEPT ![c].pc = "backlog", ![c].kind = k]
  /\ backlog' = Append(backlog, c)
  /\ UNCHANGED reading

Arrive(c) ==
  /\ reading = c
  /\ \E n \in (conn[c].read + 1)..Whole : conn' = [conn EXCEPT ![c].read = n]
  /\ UNCHANGED <<backlog, reading>>

\* It is over for the client, or for the listener that closed it.
Leave(c) ==
  /\ conn[c].pc \in {"open", "closed"}
  /\ conn' = [conn EXCEPT ![c] = Away]
  /\ UNCHANGED <<backlog, reading>>

-----------------------------------------------------------------------------
(* Accept.                                                                  *)

Accept(c) ==
  /\ reading = "none" /\ backlog # <<>> /\ c = Head(backlog)
  /\ conn' = [conn EXCEPT ![c].pc = "header"]
  /\ backlog' = Tail(backlog) /\ reading' = c

\* RemoteAddr of the connection, without the address the header gave.
SourceOfPeer(c) == Peer(c)

\* The address a whole header gives, or that of the peer: a version 2 header of
\* another command or family is consumed and gives none.
Source(c) == IF conn[c].kind = "named" THEN Client[c] ELSE Peer(c)

Accepted(c, source, dirty) ==
  /\ conn' = [conn EXCEPT ![c] = [Away EXCEPT !.pc = "open", !.kind = conn[c].kind,
                                              !.source = source, !.dirty = dirty]]
  /\ reading' = "none"
  /\ UNCHANGED backlog

\* http.Server.Serve returns with the error of Accept, and closes the listener
\* with all that wait.
AcceptFails(c) ==
  /\ conn' = [d \in Conns |->
       IF d = c \/ conn[d].pc = "backlog" THEN [Away EXCEPT !.pc = "closed"] ELSE conn[d]]
  /\ backlog' = <<>> /\ reading' = "stopped"

\* Everything the parser asks for is there.  A header that names no client is
\* consumed in version 2 and an error in version 1.
HeaderWhole(c) ==
  /\ reading = c /\ conn[c].read = Whole
  /\ IF conn[c].kind = "unknown" THEN AcceptFails(c) ELSE Accepted(c, Source(c), FALSE)

\* A deadline that is set with the first byte.
WaitOverAfterFirst(c) == conn[c].read > 0

\* The end of the stream, or ten seconds, which may pass at any time, whatever
\* has arrived.
WaitOver(c) == TRUE

\* A recognised header that stays incomplete is an error.  Anything less is left
\* in the reader, and the connection keeps the address of its peer.  Then the
\* bytes of a header, which may also arrive later, stand before TLS or HTTP.
HeaderCut(c) ==
  /\ reading = c /\ conn[c].read < Whole /\ WaitOver(c)
  /\ IF conn[c].read = Recognised /\ Forwarded(c) THEN AcceptFails(c)
     ELSE Accepted(c, Peer(c), Forwarded(c))

\* TLS and HTTP get as far as a request.
Readable(c) == conn[c].pc = "open" /\ ~conn[c].dirty

AcceptInit == conn = [c \in Conns |-> Away] /\ backlog = <<>> /\ reading = "none"

AcceptStep(c) == Accept(c) \/ HeaderWhole(c) \/ HeaderCut(c)

OtherEnd(c) == Connect(c) \/ Arrive(c) \/ Leave(c)
=============================================================================
