--------------------------- MODULE MCClientSettings ---------------------------
(* Two servers, a client they know, and the configurations that differ in  *)
(* where they are refused.                                                 *)
EXTENDS ClientSettings

MCLOCALHOST == <<"local">>
Remote == <<"remote">>
MCHosts == {MCLOCALHOST, Remote}
Alice == <<"alice">>
MCKnownClients == {Alice}

MCGood == [parsed |-> TRUE, host |-> Remote, port |-> 8777, client |-> Alice, key |-> KeyOf(Alice),
           inHome |-> FALSE, serverPublicKey |-> "right"]
MCConfigurations ==
  {MCGood, [MCGood EXCEPT !.inHome = TRUE], [MCGood EXCEPT !.port = 0], [MCGood EXCEPT !.host = None],
   [MCGood EXCEPT !.client = None, !.serverPublicKey = "wrong"], [MCGood EXCEPT !.key = None]}
=============================================================================
