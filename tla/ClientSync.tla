----------------------------- MODULE ClientSync -----------------------------
(***************************************************************************)
(* Who may be served by smartdns: the client table, which the config file  *)
(* fills once and the panel rewrites by polling, against the queries that  *)
(* are identified at one time and looked up at another.                    *)
(*                                                                         *)
(* A client of the table has an account at the panel or has none.  A query *)
(* of a DoT session brings the identity its handshake had; one over plain  *)
(* DNS is given one when it arrives.  resolve looks the identity up again. *)
(***************************************************************************)
EXTENDS Integers

CONSTANTS
  Ids,             \* client identities
  ConfigClients,   \* those of the config file, which have no account
  DefaultClient,   \* defaultClientId, or None
  Queries,         \* goroutines of queries
  MaxEdits,        \* a bound on the changes at the panel
  None

ASSUME ClientAssumption ==
  /\ None \notin Ids /\ DefaultClient \in Ids \cup {None}
  /\ ConfigClients \subseteq Ids
  /\ MaxEdits \in Nat

VARIABLES
  clients,   \* rt.clients: a function on the ids in the table
  panel,     \* the enabled clients at the panel: a function likewise
  reply,     \* the payload on its way, or None
  query,     \* each query: its step and its identity
  edits

vars == <<clients, panel, reply, query, edits>>

Tables == UNION {[I -> {"account", "bare"}] : I \in SUBSET Ids}

Waiting == [pc |-> "idle", id |-> None]

-----------------------------------------------------------------------------
(* The sync.                                                                *)

\* Only the clients a payload lists as disabled go; this one lists none.
RevokedListed(remote) == {}

\* applyRuntime: what has an account and is not in the payload.
Revoked(remote) == {i \in DOMAIN clients \ DOMAIN remote : clients[i] = "account"}

Merged(remote) ==
  [i \in (DOMAIN clients \ Revoked(remote)) \cup DOMAIN remote |->
     IF i \in DOMAIN remote THEN remote[i] ELSE clients[i]]

\* The panel answers a poll; the next poll waits for this one.
Fetch ==
  /\ reply = None
  /\ reply' = panel
  /\ UNCHANGED <<clients, panel, query, edits>>

\* A timeout, a status other than 200, or a payload that cannot be used.
Lose ==
  /\ reply # None
  /\ reply' = None
  /\ UNCHANGED <<clients, panel, query, edits>>

\* applyRuntime, under the write lock.
Apply ==
  /\ reply # None
  /\ clients' = Merged(reply)
  /\ reply' = None
  /\ UNCHANGED <<panel, query, edits>>

\* Somebody enables, disables or changes a client at the panel.
Edit ==
  /\ edits < MaxEdits /\ edits' = edits + 1
  /\ \E p \in Tables : p # panel /\ panel' = p
  /\ UNCHANGED <<clients, reply, query>>

-----------------------------------------------------------------------------
(* The queries.                                                             *)

\* A query of a DoT session or a DoH request names any client, known or not.
Arrive(q) ==
  /\ query[q].pc = "idle"
  /\ \E i \in Ids : query' = [query EXCEPT ![q] = [Waiting EXCEPT !.pc = "named", !.id = i]]
  /\ UNCHANGED <<clients, panel, reply, edits>>

\* clientByIP for an address without a client: the default, else any enabled
\* client of the table, else "", for which the listener drops the packet.
ArrivePlain(q) ==
  /\ query[q].pc = "idle"
  /\ \/ /\ DefaultClient = None /\ DOMAIN clients = {}
        /\ query' = [query EXCEPT ![q] = [Waiting EXCEPT !.pc = "dropped"]]
     \/ \E i \in IF DefaultClient # None THEN {DefaultClient} ELSE DOMAIN clients :
          query' = [query EXCEPT ![q] = [Waiting EXCEPT !.pc = "named", !.id = i]]
  /\ UNCHANGED <<clients, panel, reply, edits>>

\* lookupClient
Known(i) == i \in DOMAIN clients

\* The head of resolve; the answer may take long.
LookupClient(q) ==
  /\ query[q].pc = "named"
  /\ query' = [query EXCEPT ![q].pc = IF Known(query[q].id) THEN "served" ELSE "refused"]
  /\ UNCHANGED <<clients, panel, reply, edits>>

Done(q) ==
  /\ query[q].pc \in {"served", "refused", "dropped"}
  /\ query' = [query EXCEPT ![q] = Waiting]
  /\ UNCHANGED <<clients, panel, reply, edits>>

Init ==
  /\ clients = [i \in ConfigClients |-> "bare"]
  /\ panel \in Tables
  /\ reply = None
  /\ query = [q \in Queries |-> Waiting]
  /\ edits = 0

Next ==
  \/ Fetch \/ Lose \/ Apply \/ Edit
  \/ \E q \in Queries : Arrive(q) \/ ArrivePlain(q) \/ LookupClient(q) \/ Done(q)

Spec == Init /\ [][Next]_vars

\* The ticker of startSync goes on, and not every poll is lost.
FairSpec == Spec /\ WF_vars(Fetch) /\ SF_vars(Apply)

-----------------------------------------------------------------------------
(* Properties.                                                              *)

TypeOK ==
  /\ clients \in Tables /\ panel \in Tables
  /\ reply \in Tables \cup {None}
  /\ edits \in 0..MaxEdits
  /\ query \in [Queries -> [pc : {"idle", "named", "served", "refused", "dropped"},
                            id : Ids \cup {None}]]

\* A client with an account that is disabled for good is refused for good, also
\* when polls are lost, and whenever its queries were given their identity; what
\* has no account is not the panel's to refuse.
RevocationArrives ==
  \A i \in Ids : <>[](i \notin DOMAIN panel) =>
    <>[][\A q \in Queries : LookupClient(q) /\ query[q].id = i =>
           query'[q].pc = "refused" \/ clients[i] = "bare"]_vars
=============================================================================
