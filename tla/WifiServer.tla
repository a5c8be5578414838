----------------------------- MODULE WifiServer -----------------------------
(***************************************************************************)
(* remote-signer-7002/src/main.c from its start to the clients it serves:  *)
(* main asks for a WiFi connection, polls the flags that the callbacks of  *)
(* the network thread set, opens a server socket and serves one client     *)
(* after the other.  What it does with the bytes of a client is module     *)
(* RequestLoop; here a request is answered, or not, in one step.           *)
(*                                                                         *)
(* The radio, DHCP and the clients are the environment.  Their events wait *)
(* in a queue until the network thread runs the callback.                  *)
(***************************************************************************)
EXTENDS Integers, SequencesExt

CONSTANTS
  Clients,        \* who may connect
  NoClient,       \* no client
  MAX_CONTEXTS,   \* CONFIG_NET_MAX_CONTEXTS: sockets that can exist
  MaxEvents,      \* bound: events that wait for their callback
  Settings        \* which of the Troubles may happen

Troubles ==
  {"request",       \* net_mgmt refuses a connection request
   "refused",       \* a connection attempt fails
   "lose",          \* the link is lost
   "reassociate",   \* the radio connects again by itself
   "socket",        \* the server socket cannot be opened
   "hangup",        \* a client closes its connection early
   "silent",        \* a client sends nothing
   "discard",       \* parseRequest gives a request up
   "send"}          \* sending a response fails

ASSUME WifiAssumption ==
  /\ NoClient \notin Clients
  /\ MAX_CONTEXTS \in Nat \ {0} /\ MaxEvents \in Nat \ {0}
  /\ Settings \subseteq SUBSET Troubles

VARIABLES
  setting,          \* what may happen in this behaviour
  link,             \* the radio: "off" until it is told what to connect to,
                    \* then "pending", "up" or "down"
  lease,            \* DHCP has an address for this link
  events,           \* events whose callback has not run
  connected, connect_result, ipSet,   \* the flags of main.c
  pc,               \* where main is
  client,           \* the client whose connection main reads
  queue,            \* clients whose connection was made and not accepted
  gone,             \* clients that have closed their side
  wants,            \* clients that wait for a response
  contexts,         \* sockets in use
  residue,          \* part of a request is left in buf when its connection ends
  abandoned         \* history: client sockets that main left open

net == <<link, lease, events>>
flags == <<connected, connect_result, ipSet>>
clientVars == <<client, queue, gone, wants, contexts, residue, abandoned>>
vars == <<setting, net, flags, pc, clientVars>>

\* Where main does not go on by itself: it sleeps for ever, sends for ever,
\* or waits for more from a client that sends nothing more.
Stuck == {"asleep", "spin", "blocked"}
Serving == {"accept", "recv"} \cup (Stuck \ {"asleep"})

Connections == Range(queue) \cup ({client} \ {NoClient})

Init ==
  /\ setting \in Settings
  /\ link = "off" /\ lease = FALSE /\ events = << >>
  /\ connected = FALSE /\ connect_result = FALSE /\ ipSet = FALSE
  /\ pc = "connect"
  /\ client = NoClient
  /\ queue = << >>
  /\ gone = {} /\ wants = {}
  /\ contexts = 0 /\ abandoned = 0 /\ residue = FALSE

-----------------------------------------------------------------------------
(***************************************************************************)
(* The environment: the radio, DHCP.                                       *)
(***************************************************************************)
Raise(event) ==
  /\ Len(events) < MaxEvents
  /\ events' = Append(events, event)

\* An attempt to connect ends, after CONFIG_STA_CONN_TIMEOUT_SEC at the latest.
AttemptEnds ==
  /\ link = "pending"
  /\ \/ link' = "up" /\ Raise("connected")
     \/ "refused" \in setting /\ link' = "down" /\ Raise("refused")
  /\ UNCHANGED <<setting, lease, flags, pc, clientVars>>

Reassociate ==
  /\ "reassociate" \in setting
  /\ link = "down"
  /\ link' = "up"
  /\ Raise("connected")
  /\ UNCHANGED <<setting, lease, flags, pc, clientVars>>

DhcpBound ==
  /\ link = "up" /\ ~lease
  /\ lease' = TRUE
  /\ Raise("bound")
  /\ UNCHANGED <<setting, link, flags, pc, clientVars>>

\* Every connection is lost with the link; a recv on one may fail or wait on.
LoseLink ==
  /\ "lose" \in setting
  /\ link = "up"
  /\ link' = "down" /\ lease' = FALSE
  /\ Raise("disconnected")
  /\ queue' = << >> /\ client' = NoClient
  /\ gone' = {} /\ wants' = {}
  /\ abandoned' = abandoned + Cardinality(Connections)
  /\ \/ /\ pc \in {"recv", "blocked"}
        /\ pc' \in {"accept", "blocked"}
        /\ residue' \in BOOLEAN
     \/ /\ pc \notin {"recv", "blocked"}
        /\ UNCHANGED <<pc, residue>>
  /\ UNCHANGED <<setting, flags, contexts>>

(***************************************************************************)
(* The callbacks: handle_wifi_connect_result, handle_wifi_disconnect_result*)
(* (disconnect_requested is never set) and print_dhcp_ip.                  *)
(***************************************************************************)
\* Faulty variant: only a failure is reported to main.
handle_wifi_connect_failure(status) ==
  /\ connected' = (connected \/ status = "connected")
  /\ connect_result' = (connect_result \/ status = "refused")
  /\ UNCHANGED ipSet

handle_wifi_connect_result(status) ==
  /\ connected' = (connected \/ status = "connected")
  /\ connect_result' = (connect_result \/ ~connected)
  /\ UNCHANGED ipSet

handle_wifi_disconnect_result ==
  /\ connected' = FALSE
  /\ UNCHANGED <<connect_result, ipSet>>

print_dhcp_ip ==
  /\ ipSet' = TRUE
  /\ UNCHANGED <<connected, connect_result>>

Callback ==
  /\ events # << >>
  /\ events' = Tail(events)
  /\ \/ /\ Head(events) \in {"connected", "refused"}
        /\ handle_wifi_connect_result(Head(events))
     \/ Head(events) = "disconnected" /\ handle_wifi_disconnect_result
     \/ Head(events) = "bound" /\ print_dhcp_ip
  /\ UNCHANGED <<setting, link, lease, pc, clientVars>>

-----------------------------------------------------------------------------
\* main ignores what wifi_connect returns.
WifiConnect ==
  /\ pc = "connect"
  /\ pc' = "wait_result"
  /\ connected' = FALSE /\ connect_result' = FALSE
  /\ \/ link' = "pending" /\ lease' = FALSE
     \/ "request" \in setting /\ UNCHANGED <<link, lease>>
  /\ UNCHANGED <<setting, events, ipSet, clientVars>>

WaitResult ==
  /\ pc = "wait_result" /\ connect_result
  /\ pc' = "wait_ip"
  /\ UNCHANGED <<setting, net, flags, clientVars>>

\* Faulty variant: main does not wait for an address.
WaitIpSkipped ==
  /\ pc = "wait_ip"
  /\ pc' = "check"
  /\ UNCHANGED <<setting, net, flags, clientVars>>

WaitIp ==
  /\ pc = "wait_ip" /\ ipSet
  /\ pc' = "check"
  /\ UNCHANGED <<setting, net, flags, clientVars>>

\* socket, bind and listen: when one fails, main sleeps for ever.
OpenServer ==
  /\ pc = "check" /\ connected
  /\ \/ pc' = "accept" /\ contexts' = contexts + 1
     \/ /\ "socket" \in setting
        /\ pc' = "asleep"
        /\ contexts' \in {contexts, contexts + 1}
  /\ UNCHANGED <<setting, net, flags, client, queue, gone, wants, residue, abandoned>>

TryAgain ==
  /\ pc = "check" /\ ~connected
  /\ pc' = "connect"
  /\ UNCHANGED <<setting, net, flags, clientVars>>

Accept ==
  /\ pc = "accept" /\ queue # << >>
  /\ client' = Head(queue)
  /\ queue' = Tail(queue)
  /\ pc' = "recv"
  /\ UNCHANGED <<setting, net, flags, gone, wants, contexts, residue, abandoned>>

\* Faulty variant: the socket is left open.
AnswerLeavesOpen ==
  /\ pc = "recv"
  /\ pc' = "accept"
  /\ gone' = gone \ {client}
  /\ wants' = wants \ {client}
  /\ client' = NoClient
  /\ residue' = FALSE
  /\ UNCHANGED <<setting, net, flags, queue, contexts, abandoned>>

\* A request is read whole and handled, its response is sent and the socket closed.
\* (The client may be gone by then.)
Answer ==
  /\ pc = "recv"
  /\ pc' = "accept"
  /\ gone' = gone \ {client}
  /\ wants' = wants \ {client}
  /\ contexts' = contexts - 1
  /\ client' = NoClient
  /\ residue' = FALSE
  /\ UNCHANGED <<setting, net, flags, queue, abandoned>>

\* A pass of the sending loop in which send fails: the socket is closed and main
\* goes on sending, and closes it again in each pass (it is closed already then,
\* and main opens no other).
SendFails ==
  /\ "send" \in setting
  /\ pc \in {"recv", "spin"}
  /\ pc' = "spin"
  /\ gone' = gone \ {client}
  /\ wants' = wants \ {client}
  /\ contexts' = contexts - (IF client = NoClient THEN 0 ELSE 1)
  /\ client' = NoClient
  /\ UNCHANGED <<setting, net, flags, queue, residue, abandoned>>

\* Faulty variant: main goes on reading a connection that has ended.
RecvEndsAgain ==
  /\ pc \in {"recv", "blocked"} /\ client \in gone
  /\ UNCHANGED vars

\* recv returns 0 or an error, perhaps after part of a request: main leaves the
\* loop, the socket stays open, and so do len and what is in buf.
RecvEnds ==
  /\ pc \in {"recv", "blocked"} /\ client \in gone
  /\ pc' = "accept"
  /\ gone' = gone \ {client}
  /\ client' = NoClient
  /\ residue' \in BOOLEAN
  /\ abandoned' = abandoned + 1
  /\ UNCHANGED <<setting, net, flags, queue, wants, contexts>>

\* main waits for more and nothing comes, and recv has no timeout: the client has
\* sent nothing, or parseRequest answers -1 or -2 to its request, because it stands
\* behind what an earlier connection left in buf or for a reason of its own.
RecvBlocks ==
  /\ pc = "recv" /\ client \notin gone
  /\ \/ "silent" \in setting /\ UNCHANGED residue
     \/ residue /\ residue' \in BOOLEAN
     \/ "discard" \in setting /\ residue' = FALSE
  /\ pc' = "blocked"
  /\ UNCHANGED <<setting, net, flags, client, queue, gone, wants, contexts, abandoned>>

Main ==
  \/ WifiConnect \/ WaitResult \/ WaitIp \/ OpenServer \/ TryAgain
  \/ Accept \/ Answer \/ SendFails \/ RecvEnds \/ RecvBlocks

-----------------------------------------------------------------------------
(***************************************************************************)
(* The clients.  A connection takes a context as soon as it is made; when  *)
(* there is none, it is not made.                                          *)
(***************************************************************************)
Want(c) ==
  /\ c \notin wants \cup Connections
  /\ wants' = wants \cup {c}
  /\ UNCHANGED <<setting, net, flags, pc, client, queue, gone, contexts, residue, abandoned>>

Online == link = "up" /\ lease

Connect(c) ==
  /\ Online /\ pc \in Serving
  /\ c \in wants \ Connections
  /\ contexts < MAX_CONTEXTS
  /\ contexts' = contexts + 1
  /\ queue' = Append(queue, c)
  /\ UNCHANGED <<setting, net, flags, pc, client, gone, wants, residue, abandoned>>

HangUp(c) ==
  /\ "hangup" \in setting
  /\ c \in Connections \ gone
  /\ gone' = gone \cup {c}
  /\ wants' = wants \ {c}
  /\ UNCHANGED <<setting, net, flags, pc, client, queue, contexts, residue, abandoned>>

Network == AttemptEnds \/ Reassociate \/ DhcpBound \/ LoseLink

Next ==
  \/ Main \/ Callback \/ Network
  \/ \E c \in Clients : Want(c) \/ Connect(c) \/ HangUp(c)

Spec == Init /\ [][Next]_vars

(***************************************************************************)
(* main polls, and its calls return; the network thread runs callbacks; an *)
(* attempt to connect ends; clients that want a response keep trying.      *)
(***************************************************************************)
FairSpec ==
  /\ Spec
  /\ WF_vars(WifiConnect \/ WaitResult \/ WaitIp \/ OpenServer \/ TryAgain)
  /\ WF_vars(Accept \/ Answer \/ RecvEnds)
  /\ WF_vars(Callback) /\ WF_vars(AttemptEnds)
  /\ \A c \in Clients : SF_vars(Connect(c))

-----------------------------------------------------------------------------
\* The sockets that exist are the server's, those of the clients that wait or are
\* served, and those that main has left open: each of the other paths of the
\* receiving loop closes its socket, once.
ContextsAccounted ==
  pc \in Serving =>
    /\ contexts = 1 + Cardinality(Connections) + abandoned
    /\ contexts <= MAX_CONTEXTS

\* main serves only with a connection that was reported to it and after an address
\* was; without losses of the link both are still there.
ServesOnline ==
  pc \in Serving =>
    /\ ipSet /\ connect_result
    /\ "lose" \notin setting => Online /\ connected

\* A connection request was refused when the radio had already connected by itself
\* and reported it: main has cleared the flag, ignores that wifi_connect failed, and
\* nothing is to come that sets the flag again.
Deaf ==
  /\ "request" \in setting
  /\ pc = "wait_result" /\ ~connect_result
  /\ link = "up" /\ \A i \in DOMAIN events : events[i] \notin {"connected", "refused"}

\* main polls flags that callbacks set behind its back: when the board stays online,
\* the server socket is opened in the end (or main sleeps because it cannot be),
\* unless a late refusal has left main deaf.
ServerStarts == <>[]Online => <>(pc \in Serving \cup Stuck \/ Deaf)

\* One client is served after the other: a client that wants a response gets it, or
\* the board goes offline, or main has come to one of the three ends that the
\* receiving loop has: it sends for ever, it waits for more from a client that is
\* still there or was cut off, or every socket was left open for one that hung up.
ClientsAnswered ==
  \A c \in Clients :
    (c \in wants /\ pc \in Serving) ~>
      \/ c \notin wants \/ ~Online
      \/ pc = "spin" \/ (pc = "blocked" /\ client \notin gone)
      \/ abandoned >= MAX_CONTEXTS - 1
=============================================================================
