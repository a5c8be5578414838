--------------------------- MODULE MCRequestLoop ----------------------------
(****************************************************************************)
(* Instances of RequestLoop.  The limit of 300 bytes is 3 cells, and "long" *)
(* has a head like that of the sign request in remote-signer/README.md,     *)
(* with more than 300 bytes in front of its Content-Length.                 *)
(****************************************************************************)
EXTENDS RequestLoop

Asks(kind, parts) == [kind |-> kind, parts |-> parts]

Forms ==
  [upcheck |-> Asks("upcheck", <<"GET", "end">>),
   keys |-> Asks("getKeys", <<"GET", "header", "end">>),
   sign |-> Asks("sign", <<"POST", "length", "end", "body">>),
   import |-> Asks("importKey", <<"POST", "length", "end", "body", "body">>),
   other |-> Asks("unknown", <<"GET", "end">>),
   long |-> Asks("sign", <<"POST", "header", "header", "length", "end", "body">>)]

RequestNames == DOMAIN Forms

Setting(transport, requests, failures) ==
  [transport |-> transport, requests |-> requests, failures |-> failures]

(* The serial build with clients that wait, and with clients that do not,   *)
(* so that requests pile up in the buffer; the NET build when nothing fails *)
(* and with its failures; the WiFi server with send errors, and with        *)
(* clients that leave.  The driver of the serial line takes one cell of the *)
(* two that the longest response has.                                       *)
AllBuilds ==
  {Setting("uart", RequestNames, {"body"}),
   Setting("uart", {"upcheck", "long"}, {"impatient", "num_headers"}),
   Setting("lte", RequestNames, {}),
   Setting("lte", {"other", "import"}, {"send", "recv", "body"}),
   Setting("lte", {"keys", "import"}, {"send", "body", "close"}),
   Setting("lte", {"upcheck"}, {"hangup", "recv", "close"}),
   Setting("wifi", RequestNames, {"impatient", "send", "num_headers"}),
   Setting("wifi", RequestNames, {"impatient", "body"})}

\* What module RequestLoopProofs supposes of requests holds of these.
ASSUME SupposedOfRequests == \A r \in Requests : WellFormed(r)

\* A client of the serial build whose request has a head longer than the limit.
LongHeads == {Setting("uart", {"long"}, {})}

\* Clients that do not stand in the way of each other, on the NET build when nothing
\* fails; clients of the WiFi server that leave in the middle of a request.
NetBuild == {Setting("lte", {"upcheck"}, {})}
ClientsHangUp == {Setting("wifi", {"sign"}, {"hangup"})}
=============================================================================
