---------------------------- MODULE MCEdgeGrants ----------------------------
(* Connections of two clients, and a policy that sends a name to the edge.  *)
EXTENDS EdgeGrants

CONSTANTS c1, c2, ip1, ip2, router

MCClient == c1 :> ip1 @@ c2 :> ip2

Shop == <<"shop">>

MCDomains == {Shop}

Nothing == [domains |-> {}, suffixes |-> {}]

MCPolicies ==
  {[rules |-> <<[match |-> "exact", text |-> Shop, conditions |-> {"externalDns"},
                 through |-> <<"proxy">>]>>,
    staticA |-> {}, staticASuffix |-> {}, exclude |-> {}, hard |-> Nothing, direct |-> Nothing,
    localProxy |-> Nothing, vusaProxy |-> Nothing, proxy |-> Nothing,
    default |-> "direct", localDefault |-> "direct", edges |-> {"public"}]}

\* Nothing permanent is collected, so idle times need not be told apart.
MCInactivity == -1

MCAsker == [mode |-> "", default |-> ""]
=============================================================================
