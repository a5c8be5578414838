---------------------------- MODULE MCWifiServer ----------------------------
(* Instances of WifiServer for TLC.                                        *)
EXTENDS WifiServer

CONSTANTS c1, c2

MCClients == {c1, c2}

\* The link is lost and comes back; connection requests are refused, also when
\* the radio has connected by itself; clients do what they like.
AllTroubles ==
  {{"refused", "lose", "reassociate", "socket"},
   {"refused", "lose", "reassociate", "hangup", "silent"},
   {"request", "refused", "reassociate", "hangup"},
   {"request", "lose", "reassociate"},
   {"hangup", "discard", "send"},
   {"hangup", "silent"}}
=============================================================================
