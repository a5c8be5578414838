-------------------------- MODULE WifiServerProofs --------------------------
(***************************************************************************)
(* Proofs about WifiServer, for any clients, any number of sockets, queues *)
(* of events of any length and every combination of troubles.              *)
(***************************************************************************)
EXTENDS WifiServer, FiniteSetTheorems, SequenceTheorems, TLAPS

EventKinds == {"connected", "refused", "disconnected", "bound"}

Starting == {"connect", "wait_result", "wait_ip", "check"}

\* Types of the connection management, and how far main has got.
StartInv ==
  /\ events \in Seq(EventKinds)
  /\ connected \in BOOLEAN /\ connect_result \in BOOLEAN /\ ipSet \in BOOLEAN
  /\ lease \in BOOLEAN
  /\ pc \in Starting \cup {"accept", "recv", "spin", "blocked", "asleep"}
  /\ pc \in {"wait_ip", "check"} \cup Serving => connect_result
  /\ pc \in {"check"} \cup Serving => ipSet

\* Every step keeps StartInv.
LEMMA StartInductive == StartInv /\ [Next]_vars => StartInv'
<1> SUFFICES ASSUME StartInv, [Next]_vars
             PROVE  StartInv'
  OBVIOUS
<1> USE DEF StartInv, Starting, Serving, Stuck, EventKinds
<1>1. ASSUME NEW event \in EventKinds, Raise(event)
      PROVE  events' \in Seq(EventKinds)
  BY <1>1 DEF Raise
<1>2. CASE AttemptEnds \/ Reassociate \/ DhcpBound
  <2>1. events' \in Seq(EventKinds)
    BY <1>1, <1>2 DEF AttemptEnds, Reassociate, DhcpBound
  <2>2. QED
    BY <1>2, <2>1 DEF AttemptEnds, Reassociate, DhcpBound, flags
<1>3. CASE LoseLink
  <2>1. events' \in Seq(EventKinds)
    BY <1>1, <1>3 DEF LoseLink
  <2>2. QED
    BY <1>3, <2>1 DEF LoseLink, flags
<1>4. CASE Callback
  <2>1. events' \in Seq(EventKinds)
    BY <1>4 DEF Callback
  <2>2. pc' = pc /\ lease' = lease
    BY <1>4 DEF Callback
  <2>3. /\ connected' \in BOOLEAN /\ connect_result' \in BOOLEAN /\ ipSet' \in BOOLEAN
        /\ connect_result => connect_result'
        /\ ipSet => ipSet'
    <3>1. \/ \E status \in {"connected", "refused"} : handle_wifi_connect_result(status)
          \/ handle_wifi_disconnect_result
          \/ print_dhcp_ip
      BY <1>4 DEF Callback
    <3>2. CASE \E status \in {"connected", "refused"} : handle_wifi_connect_result(status)
      <4>1. PICK status : handle_wifi_connect_result(status)
        BY <3>2
      <4>2. /\ connected' = (connected \/ status = "connected")
            /\ connect_result' = (connect_result \/ ~connected)
            /\ ipSet' = ipSet
        BY <4>1 DEF handle_wifi_connect_result
      <4>3. QED
        BY <4>2
    <3>3. CASE handle_wifi_disconnect_result
      BY <3>3 DEF handle_wifi_disconnect_result
    <3>4. CASE print_dhcp_ip
      BY <3>4 DEF print_dhcp_ip
    <3>5. QED
      BY <3>1, <3>2, <3>3, <3>4
  <2>4. QED
    BY <2>1, <2>2, <2>3
<1>5. CASE WifiConnect \/ WaitResult \/ WaitIp \/ OpenServer \/ TryAgain
  BY <1>5 DEF WifiConnect, WaitResult, WaitIp, OpenServer, TryAgain, net, flags
<1>6. CASE Accept \/ Answer \/ SendFails \/ RecvEnds \/ RecvBlocks
  BY <1>6 DEF Accept, Answer, SendFails, RecvEnds, RecvBlocks, net, flags
<1>7. ASSUME NEW c, Want(c) \/ Connect(c) \/ HangUp(c)
      PROVE  StartInv'
  BY <1>7 DEF Want, Connect, HangUp, net, flags
<1>8. CASE UNCHANGED vars
  BY <1>8 DEF vars, net, flags
<1>9. QED
  BY <1>2, <1>3, <1>4, <1>5, <1>6, <1>7, <1>8 DEF Next, Main, Network

-----------------------------------------------------------------------------
(***************************************************************************)
(* Without losses of the link main connects once: when an address has been *)
(* reported, so has the connection before it, because the events come in   *)
(* the order in which they happened.                                       *)
(***************************************************************************)
\* By the time of the i-th event the connection has been reported.
ReportedBefore(i) == connected \/ \E j \in 1 .. i - 1 : events[j] = "connected"

LinkInv ==
  "lose" \notin setting =>
    /\ pc = "connect" => link = "off"
    /\ link = "off" => events = << >>
    /\ lease => link = "up"
    /\ ipSet => connected /\ lease
    /\ link = "up" => ReportedBefore(Len(events) + 1)
    /\ \A i \in 1 .. Len(events) :
         /\ events[i] # "disconnected"
         /\ events[i] = "bound" => lease /\ ReportedBefore(i)

\* No step changes what may happen.
LEMMA SettingFixed == [Next]_vars => setting' = setting
<1> SUFFICES ASSUME [Next]_vars PROVE setting' = setting
  OBVIOUS
<1>1. ASSUME NEW c, Want(c) \/ Connect(c) \/ HangUp(c)
      PROVE  setting' = setting
  BY <1>1 DEF Want, Connect, HangUp
<1>2. CASE Main
  BY <1>2 DEF Main, WifiConnect, WaitResult, WaitIp, OpenServer, TryAgain, Accept,
              Answer, SendFails, RecvEnds, RecvBlocks
<1>3. CASE Callback \/ Network
  BY <1>3 DEF Callback, Network, AttemptEnds, Reassociate, DhcpBound, LoseLink
<1>4. CASE UNCHANGED vars
  BY <1>4 DEF vars
<1>5. QED
  BY <1>1, <1>2, <1>3, <1>4 DEF Next

\* A new event comes after those that wait.
LEMMA RaisedLast ==
  ASSUME StartInv, NEW event \in EventKinds, Raise(event)
  PROVE  /\ Len(events) \in Nat /\ Len(events') = Len(events) + 1
         /\ events'[Len(events) + 1] = event
         /\ \A i \in 1 .. Len(events) : events'[i] = events[i]
  BY DEF StartInv, Raise

\* The callback of the first event leaves the others in their order.
LEMMA RestMovesUp ==
  ASSUME StartInv, Callback
  PROVE  /\ Len(events) \in Nat \ {0} /\ Len(events') = Len(events) - 1
         /\ Head(events) = events[1]
         /\ \A i \in 1 .. Len(events') : events'[i] = events[i + 1]
  BY HeadTailProperties DEF StartInv, Callback

\* Every step keeps LinkInv.
LEMMA LinkInductive == StartInv /\ LinkInv /\ [Next]_vars => LinkInv'
<1> SUFFICES ASSUME StartInv, LinkInv, [Next]_vars, "lose" \notin setting
             PROVE  LinkInv'
  <2>1. [Next]_vars => setting' = setting
    BY SettingFixed
  <2>2. QED
    BY <2>1 DEF LinkInv
<1> USE DEF LinkInv, ReportedBefore
<1>1. CASE AttemptEnds \/ Reassociate
  <2>1. /\ \/ link' = "up" /\ Raise("connected")
           \/ link' = "down" /\ Raise("refused")
        /\ link \in {"pending", "down"}
        /\ UNCHANGED <<lease, connected, ipSet, pc>>
    BY <1>1 DEF AttemptEnds, Reassociate, flags
  <2>2. ~lease /\ ~ipSet /\ pc # "connect"
    BY <2>1
  <2>3. CASE link' = "up" /\ Raise("connected")
    <3>1. /\ Len(events) \in Nat /\ Len(events') = Len(events) + 1
          /\ events'[Len(events) + 1] = "connected"
          /\ \A i \in 1 .. Len(events) : events'[i] = events[i]
      BY <2>3, RaisedLast DEF EventKinds
    <3>2. QED
      BY <2>1, <2>2, <2>3, <3>1
  <2>4. CASE link' = "down" /\ Raise("refused")
    <3>1. /\ Len(events) \in Nat /\ Len(events') = Len(events) + 1
          /\ events'[Len(events) + 1] = "refused"
          /\ \A i \in 1 .. Len(events) : events'[i] = events[i]
      BY <2>4, RaisedLast DEF EventKinds
    <3>2. QED
      BY <2>1, <2>2, <2>4, <3>1
  <2>5. QED
    BY <2>1, <2>3, <2>4
<1>2. CASE DhcpBound
  <2>1. /\ link = "up" /\ lease' /\ Raise("bound")
        /\ UNCHANGED <<link, connected, ipSet, pc>>
    BY <1>2 DEF DhcpBound, flags
  <2>2. /\ Len(events) \in Nat /\ Len(events') = Len(events) + 1
        /\ events'[Len(events) + 1] = "bound"
        /\ \A i \in 1 .. Len(events) : events'[i] = events[i]
    BY <2>1, RaisedLast DEF EventKinds
  <2>3. \A i \in 1 .. Len(events) + 1 : ReportedBefore(i) => ReportedBefore(i)'
    BY <2>1, <2>2
  <2>4. ReportedBefore(Len(events) + 1)
    BY <2>1
  <2>5. QED
    BY <2>1, <2>2, <2>3, <2>4
<1>3. CASE Callback
  <2>1. /\ Len(events) \in Nat \ {0} /\ Len(events') = Len(events) - 1
        /\ Head(events) = events[1]
        /\ \A i \in 1 .. Len(events') : events'[i] = events[i + 1]
    BY <1>3, RestMovesUp
  <2>2. UNCHANGED <<link, lease, pc>>
    BY <1>3 DEF Callback
  <2>3. /\ events[1] = "connected" => connected'
        /\ connected => connected'
        /\ ipSet' => ipSet \/ events[1] = "bound"
    <3>1. Head(events) # "disconnected"
      BY <2>1
    <3>2. \/ /\ Head(events) \in {"connected", "refused"}
             /\ handle_wifi_connect_result(Head(events))
          \/ Head(events) = "bound" /\ print_dhcp_ip
      BY <1>3, <3>1 DEF Callback
    <3>3. CASE /\ Head(events) \in {"connected", "refused"}
               /\ handle_wifi_connect_result(Head(events))
      BY <2>1, <3>3 DEF handle_wifi_connect_result
    <3>4. CASE Head(events) = "bound" /\ print_dhcp_ip
      BY <2>1, <3>4 DEF print_dhcp_ip
    <3>5. QED
      BY <3>2, <3>3, <3>4
  <2>4. ASSUME NEW i \in 1 .. Len(events), ReportedBefore(i + 1)
        PROVE  ReportedBefore(i)'
    <3>1. CASE connected
      BY <2>3, <3>1
    <3>2. ASSUME NEW j \in 1 .. i, events[j] = "connected"
          PROVE  ReportedBefore(i)'
      <4>1. CASE j = 1
        BY <2>3, <3>2, <4>1
      <4>2. CASE j > 1
        <5>1. j - 1 \in 1 .. i - 1 /\ events'[j - 1] = "connected"
          BY <2>1, <3>2, <4>2
        <5>2. QED
          BY <5>1
      <4>3. QED
        BY <4>1, <4>2
    <3>3. QED
      BY <2>4, <3>1, <3>2
  <2>5. ASSUME events[1] = "bound"
        PROVE  lease /\ connected
    BY <2>1, <2>5
  <2>6. \A i \in 1 .. Len(events') :
          /\ events'[i] # "disconnected"
          /\ events'[i] = "bound" => lease /\ ReportedBefore(i)'
    BY <2>1, <2>4
  <2>7. link = "up" => ReportedBefore(Len(events) + 1)'
    <3>1. PICK n \in Nat : n = Len(events)
      BY <2>1
    <3>2. link = "up" => ReportedBefore(n)'
      BY <2>1, <2>4, <3>1
    <3>3. n = Len(events') + 1
      BY <2>1, <3>1
    <3>4. QED
      BY <3>2, <3>3
  <2>8. link # "off"
    BY <2>1
  <2>9. ipSet' => connected' /\ lease
    BY <2>3, <2>5
  <2>10. QED
    BY <2>2, <2>6, <2>7, <2>8, <2>9
<1>4. CASE WifiConnect
  <2>1. link = "off" /\ events = << >> /\ ~lease /\ ~ipSet
    BY <1>4 DEF WifiConnect
  <2>2. /\ link' \in {"off", "pending"} /\ events' = events /\ ~lease' /\ ~ipSet'
        /\ pc' = "wait_result"
    BY <1>4, <2>1 DEF WifiConnect
  <2>3. QED
    BY <2>1, <2>2
<1>5. CASE TryAgain
  BY <1>5 DEF TryAgain, StartInv
<1>6. CASE UNCHANGED <<net, flags>> /\ pc' # "connect"
  BY <1>6 DEF net, flags
<1>7. CASE WaitResult \/ WaitIp \/ OpenServer \/ Accept \/ Answer \/ SendFails
           \/ RecvEnds \/ RecvBlocks
  BY <1>6, <1>7 DEF WaitResult, WaitIp, OpenServer, Accept, Answer, SendFails, RecvEnds,
                    RecvBlocks
<1>8. ASSUME NEW c, Want(c) \/ Connect(c) \/ HangUp(c)
      PROVE  LinkInv'
  BY <1>8 DEF Want, Connect, HangUp, net, flags
<1>9. CASE UNCHANGED vars
  BY <1>9 DEF vars, net, flags
<1>10. QED
  BY <1>1, <1>2, <1>3, <1>4, <1>5, <1>7, <1>8, <1>9 DEF Next, Main, Network, LoseLink

\* Both hold in every reachable state.
LEMMA LinkInvariant == Spec => [](StartInv /\ LinkInv)
<1>1. Init => StartInv /\ LinkInv
  <2> SUFFICES ASSUME Init PROVE StartInv /\ LinkInv
    OBVIOUS
  <2>1. StartInv
    <3>1. /\ events = << >> /\ pc = "connect"
          /\ connected \in BOOLEAN /\ connect_result \in BOOLEAN
          /\ ipSet \in BOOLEAN /\ lease \in BOOLEAN
      BY DEF Init
    <3>2. QED
      BY <3>1 DEF StartInv, Starting, Serving, Stuck
  <2>2. link = "off" /\ events = << >> /\ ~lease /\ ~ipSet
    BY DEF Init
  <2>3. LinkInv
    <3>1. \A i \in 1 .. Len(events) : FALSE
      BY <2>2
    <3>2. link # "up"
      BY <2>2
    <3>3. QED
      BY <2>2, <3>1, <3>2, Zenon DEF LinkInv
  <2>4. QED
    BY <2>1, <2>3
<1>2. QED
  BY <1>1, StartInductive, LinkInductive, PTL DEF Spec

(***************************************************************************)
(* main polls the flags while the callbacks set them: however these steps  *)
(* interleave and whatever fails, it serves only after a connection and an *)
(* address were reported, and with both as long as the link is not lost.   *)
(***************************************************************************)
THEOREM ServesOnlyOnline == Spec => []ServesOnline
<1>1. StartInv /\ LinkInv => ServesOnline
  BY DEF StartInv, LinkInv, ServesOnline, Online
<1>2. QED
  BY <1>1, LinkInvariant, PTL

-----------------------------------------------------------------------------
(***************************************************************************)
(* A client has at most one connection: it waits in the queue once or is   *)
(* the one that main reads.  Only a socket that main has accepted is       *)
(* closed or left open.                                                    *)
(***************************************************************************)
QueueInv ==
  /\ client \in Clients \cup {NoClient}
  /\ queue \in Seq(Clients)
  /\ \A i, j \in 1 .. Len(queue) : queue[i] = queue[j] => i = j
  /\ client \notin Range(queue)
  /\ gone \subseteq Clients
  /\ pc = "recv" => client # NoClient
  /\ pc \in {"accept", "spin"} => client = NoClient
  /\ pc \notin Serving => queue = << >> /\ client = NoClient

CountInv ==
  /\ IsFiniteSet(Connections)
  /\ contexts \in Nat /\ abandoned \in Nat
  /\ pc \in Starting => contexts = 0 /\ abandoned = 0
  /\ ContextsAccounted

\* The clients in the queue after one more has connected.
LEMMA RangeAppend ==
  ASSUME NEW q \in Seq(Clients), NEW c \in Clients
  PROVE  Range(Append(q, c)) = Range(q) \cup {c}
<1>1. Len(q) \in Nat /\ DOMAIN q = 1 .. Len(q)
  OBVIOUS
<1>2. /\ DOMAIN Append(q, c) = 1 .. Len(q) + 1
      /\ \A i \in 1 .. Len(q) : Append(q, c)[i] = q[i]
      /\ Append(q, c)[Len(q) + 1] = c
  BY <1>1
<1>3. QED
  BY <1>1, <1>2 DEF Range

\* The clients in the queue after the first was accepted.
LEMMA RangeTail ==
  ASSUME NEW q \in Seq(Clients), q # << >>,
         \A i, j \in 1 .. Len(q) : q[i] = q[j] => i = j
  PROVE  /\ Head(q) \in Clients /\ Head(q) \in Range(q) /\ Tail(q) \in Seq(Clients)
         /\ Range(Tail(q)) = Range(q) \ {Head(q)}
         /\ \A i, j \in 1 .. Len(Tail(q)) : Tail(q)[i] = Tail(q)[j] => i = j
<1>1. Len(q) \in Nat \ {0} /\ DOMAIN q = 1 .. Len(q) /\ Head(q) = q[1]
  OBVIOUS
<1>2. /\ Tail(q) \in Seq(Clients) /\ Len(Tail(q)) = Len(q) - 1
      /\ DOMAIN Tail(q) = 1 .. Len(q) - 1
      /\ \A i \in 1 .. Len(q) - 1 : Tail(q)[i] = q[i + 1]
  BY <1>1, HeadTailProperties
<1>3. Range(Tail(q)) \subseteq Range(q) \ {q[1]}
  BY <1>1, <1>2 DEF Range
<1>4. ASSUME NEW c \in Range(q), c # q[1]
      PROVE  c \in Range(Tail(q))
  <2>1. PICK i \in 1 .. Len(q) : q[i] = c
    BY <1>1 DEF Range
  <2>2. i - 1 \in 1 .. Len(q) - 1 /\ Tail(q)[i - 1] = c
    BY <1>1, <1>2, <1>4, <2>1
  <2>3. QED
    BY <1>2, <2>2 DEF Range
<1>5. ASSUME NEW i \in 1 .. Len(Tail(q)), NEW j \in 1 .. Len(Tail(q)),
             Tail(q)[i] = Tail(q)[j]
      PROVE  i = j
  <2>1. i \in 1 .. Len(q) - 1 /\ j \in 1 .. Len(q) - 1
    BY <1>2
  <2>2. q[i + 1] = q[j + 1] /\ i + 1 \in 1 .. Len(q) /\ j + 1 \in 1 .. Len(q)
    BY <1>1, <1>2, <1>5, <2>1
  <2>3. QED
    BY <2>1, <2>2
<1>6. Range(Tail(q)) = Range(q) \ {q[1]}
  BY <1>3, <1>4
<1>7. q[1] \in Clients /\ q[1] \in Range(q)
  BY <1>1 DEF Range
<1>8. QED
  BY <1>1, <1>2, <1>5, <1>6, <1>7

\* Every step keeps QueueInv.
LEMMA QueueInductive == StartInv /\ QueueInv /\ [Next]_vars => QueueInv'
<1> SUFFICES ASSUME StartInv, QueueInv, [Next]_vars
             PROVE  QueueInv'
  OBVIOUS
<1> USE WifiAssumption DEF QueueInv, Serving, Stuck
<1>1. CASE UNCHANGED clientVars /\ (pc' = pc \/ (pc \notin Serving /\ pc' \notin Serving))
  BY <1>1 DEF clientVars
<1>2. CASE AttemptEnds \/ Reassociate \/ DhcpBound \/ Callback
  BY <1>1, <1>2 DEF AttemptEnds, Reassociate, DhcpBound, Callback
<1>3. CASE LoseLink
  <2>1. /\ queue' = << >> /\ client' = NoClient /\ gone' = {}
        /\ pc' = pc \/ pc' \in {"accept", "blocked"}
        /\ pc = "recv" => pc' # "recv"
    BY <1>3 DEF LoseLink
  <2>2. Range(queue') = {}
    BY <2>1 DEF Range
  <2>3. QED
    BY <2>1, <2>2
<1>4. CASE WifiConnect \/ WaitResult \/ WaitIp \/ TryAgain
  BY <1>1, <1>4 DEF WifiConnect, WaitResult, WaitIp, TryAgain
<1>5. CASE OpenServer
  BY <1>5 DEF OpenServer
<1>6. CASE Accept
  <2>1. /\ queue # << >> /\ client' = Head(queue) /\ queue' = Tail(queue)
        /\ pc' = "recv" /\ gone' = gone
    BY <1>6 DEF Accept
  <2>2. /\ Head(queue) \in Clients /\ Tail(queue) \in Seq(Clients)
        /\ Range(Tail(queue)) = Range(queue) \ {Head(queue)}
        /\ \A i, j \in 1 .. Len(Tail(queue)) : Tail(queue)[i] = Tail(queue)[j] => i = j
    BY <2>1, RangeTail
  <2>3. QED
    BY <2>1, <2>2
<1>7. CASE Answer \/ SendFails \/ RecvEnds
  <2>1. /\ client' = NoClient /\ queue' = queue /\ gone' \subseteq gone
        /\ pc' \in {"accept", "spin"}
    BY <1>7 DEF Answer, SendFails, RecvEnds
  <2>2. NoClient \notin Range(queue)
    BY DEF Range
  <2>3. QED
    BY <2>1, <2>2
<1>8. CASE RecvBlocks
  BY <1>8 DEF RecvBlocks, clientVars
<1>9. ASSUME NEW c \in Clients, Want(c) \/ HangUp(c)
      PROVE  QueueInv'
  BY <1>9 DEF Want, HangUp
<1>10. ASSUME NEW c \in Clients, Connect(c)
       PROVE  QueueInv'
  <2>1. /\ queue' = Append(queue, c) /\ c \notin Connections /\ pc \in Serving
        /\ UNCHANGED <<client, gone, pc>>
    BY <1>10 DEF Connect
  <2>2. c \notin Range(queue) /\ c # client
    BY <2>1 DEF Connections
  <2>3. Range(queue') = Range(queue) \cup {c}
    BY <2>1, RangeAppend
  <2>4. \A i \in 1 .. Len(queue) : queue[i] # c
    BY <2>2 DEF Range
  <2>5. /\ queue' \in Seq(Clients)
        /\ \A i, j \in 1 .. Len(queue') : queue'[i] = queue'[j] => i = j
    BY <2>1, <2>4
  <2>6. QED
    BY <2>1, <2>2, <2>3, <2>5
<1>11. CASE UNCHANGED vars
  BY <1>1, <1>11 DEF vars
<1>12. QED
  BY <1>2, <1>3, <1>4, <1>5, <1>6, <1>7, <1>8, <1>9, <1>10, <1>11
     DEF Next, Main, Network

\* A socket that main closes or leaves open was that of one connection.
LEMMA OneLess ==
  ASSUME QueueInv, CountInv, client # NoClient, client' = NoClient, queue' = queue
  PROVE  /\ IsFiniteSet(Connections') /\ Cardinality(Connections) \in Nat \ {0}
         /\ Cardinality(Connections') = Cardinality(Connections) - 1
<1>1. client \in Connections /\ Connections' = Connections \ {client}
  BY DEF Connections, QueueInv
<1>2. Cardinality(Connections) \in Nat /\ Cardinality(Connections) # 0
  BY <1>1, FS_CardinalityType, FS_EmptySet DEF CountInv
<1>3. QED
  BY <1>1, <1>2, FS_RemoveElement DEF CountInv

\* Every step keeps the count of the sockets.
LEMMA CountInductive == StartInv /\ QueueInv /\ CountInv /\ [Next]_vars => CountInv'
<1> SUFFICES ASSUME StartInv, QueueInv, CountInv, [Next]_vars
             PROVE  CountInv'
  OBVIOUS
<1>0. Cardinality(Connections) \in Nat
  BY FS_CardinalityType DEF CountInv
<1> USE WifiAssumption, <1>0 DEF Serving, Stuck, Starting
<1>1. CASE /\ UNCHANGED <<contexts, abandoned>> /\ Connections' = Connections
           /\ pc \in Serving <=> pc' \in Serving
           /\ pc' \in Starting => pc \in Starting
  BY <1>1 DEF CountInv, ContextsAccounted
<1>2. CASE AttemptEnds \/ Reassociate \/ DhcpBound \/ Callback \/ UNCHANGED vars
  BY <1>1, <1>2 DEF AttemptEnds, Reassociate, DhcpBound, Callback, vars, clientVars,
                    Connections
<1>3. CASE LoseLink
  <2>1. /\ queue' = << >> /\ client' = NoClient /\ contexts' = contexts
        /\ abandoned' = abandoned + Cardinality(Connections)
        /\ pc' = pc \/ (pc \in Serving /\ pc' \in Serving)
    BY <1>3 DEF LoseLink
  <2>2. Connections' = {}
    BY <2>1 DEF Connections, Range
  <2>3. IsFiniteSet(Connections') /\ Cardinality(Connections') = 0
    BY <2>2, FS_EmptySet
  <2>4. pc \in Starting => Cardinality(Connections) = 0
    <3>1. pc \in Starting => Connections = {}
      BY DEF QueueInv, Connections, Range
    <3>2. QED
      BY <3>1, FS_EmptySet
  <2>5. QED
    BY <2>1, <2>3, <2>4 DEF CountInv, ContextsAccounted
<1>4. CASE WifiConnect \/ WaitResult \/ WaitIp \/ TryAgain \/ RecvBlocks
  BY <1>1, <1>4 DEF WifiConnect, WaitResult, WaitIp, TryAgain, RecvBlocks, clientVars,
                    Connections
<1>5. CASE OpenServer
  <2>1. /\ contexts = 0 /\ abandoned = 0 /\ UNCHANGED <<client, queue, abandoned>>
        /\ \/ pc' = "accept" /\ contexts' = 1
           \/ pc' = "asleep" /\ contexts' \in Nat
    BY <1>5 DEF OpenServer, CountInv
  <2>2. Connections = {} /\ Connections' = {}
    BY <1>5, <2>1 DEF OpenServer, QueueInv, Connections, Range
  <2>3. IsFiniteSet(Connections') /\ Cardinality(Connections') = 0
    BY <2>2, FS_EmptySet
  <2>4. QED
    BY <2>1, <2>3 DEF CountInv, ContextsAccounted
<1>6. CASE Accept
  <2>1. /\ pc = "accept" /\ queue # << >> /\ client' = Head(queue)
        /\ queue' = Tail(queue) /\ pc' = "recv" /\ UNCHANGED <<contexts, abandoned>>
    BY <1>6 DEF Accept
  <2>2. /\ Head(queue) \in Clients /\ Head(queue) \in Range(queue)
        /\ Range(Tail(queue)) = Range(queue) \ {Head(queue)}
    BY <2>1, RangeTail DEF QueueInv
  <2>3. Connections' = Connections
    BY <2>1, <2>2 DEF Connections, QueueInv
  <2>4. QED
    BY <1>1, <2>1, <2>3
<1>7. CASE Answer \/ SendFails
  <2>1. /\ client' = NoClient /\ queue' = queue /\ pc' \in {"accept", "spin"}
        /\ abandoned' = abandoned
        /\ pc = "recv" \/ (pc = "spin" /\ pc' = "spin")
    BY <1>7 DEF Answer, SendFails
  <2>2. CASE pc = "recv"
    <3>1. client # NoClient
      BY <2>2 DEF QueueInv
    <3>2. contexts' = contexts - 1
      BY <1>7, <3>1 DEF Answer, SendFails
    <3>3. QED
      BY <2>1, <2>2, <3>1, <3>2, OneLess DEF CountInv, ContextsAccounted
  <2>3. CASE pc = "spin" /\ pc' = "spin"
    <3>1. client = NoClient
      BY <2>3 DEF QueueInv
    <3>2. contexts' = contexts - 0 /\ Connections' = Connections
      BY <1>7, <2>1, <2>3, <3>1 DEF Answer, SendFails, Connections
    <3>3. contexts' = contexts
      BY <3>2 DEF CountInv
    <3>4. QED
      BY <1>1, <2>1, <2>3, <3>2, <3>3
  <2>4. QED
    BY <2>1, <2>2, <2>3
<1>8. CASE RecvEnds
  <2>1. /\ pc \in Serving /\ client \in gone /\ client' = NoClient /\ queue' = queue
        /\ pc' = "accept" /\ contexts' = contexts /\ abandoned' = abandoned + 1
    BY <1>8 DEF RecvEnds
  <2>2. client # NoClient
    BY <2>1 DEF QueueInv
  <2>3. QED
    BY <2>1, <2>2, OneLess DEF CountInv, ContextsAccounted
<1>9. ASSUME NEW c \in Clients, Want(c) \/ HangUp(c)
      PROVE  CountInv'
  BY <1>1, <1>9 DEF Want, HangUp, Connections
<1>10. ASSUME NEW c \in Clients, Connect(c)
       PROVE  CountInv'
  <2>1. /\ queue' = Append(queue, c) /\ c \notin Connections /\ pc \in Serving
        /\ contexts < MAX_CONTEXTS /\ contexts' = contexts + 1
        /\ UNCHANGED <<client, abandoned, pc>>
    BY <1>10 DEF Connect
  <2>2. Range(queue') = Range(queue) \cup {c}
    BY <2>1, RangeAppend DEF QueueInv
  <2>3. Connections' = Connections \cup {c}
    BY <2>1, <2>2 DEF Connections
  <2>4. /\ IsFiniteSet(Connections')
        /\ Cardinality(Connections') = Cardinality(Connections) + 1
    BY <2>1, <2>3, FS_AddElement DEF CountInv
  <2>5. /\ contexts = 1 + Cardinality(Connections) + abandoned
        /\ contexts \in Nat /\ abandoned \in Nat /\ pc \notin Starting
    BY <2>1 DEF CountInv, ContextsAccounted
  <2>6. /\ contexts' \in Nat /\ contexts' <= MAX_CONTEXTS
        /\ contexts' = 1 + Cardinality(Connections') + abandoned'
    <3>1. contexts' = contexts + 1 /\ contexts < MAX_CONTEXTS /\ abandoned' = abandoned
      BY <2>1
    <3>2. PICK n \in Nat : n = Cardinality(Connections)
      BY <1>0
    <3>3. contexts = 1 + n + abandoned /\ Cardinality(Connections') = n + 1
      BY <2>4, <2>5, <3>2
    <3>4. QED
      BY <2>5, <3>1, <3>3
  <2>7. QED
    BY <2>1, <2>4, <2>5, <2>6 DEF CountInv, ContextsAccounted
<1>11. QED
  BY <1>2, <1>3, <1>4, <1>5, <1>6, <1>7, <1>8, <1>9, <1>10 DEF Next, Main, Network

(***************************************************************************)
(* However connections are made, served, cut off and lost with the link,   *)
(* every socket in use is the server's, one client's, or one that main has *)
(* left open, and there are never more than MAX_CONTEXTS.                  *)
(***************************************************************************)
THEOREM ContextsAreAccounted == Spec => []ContextsAccounted
<1>1. Init => QueueInv /\ CountInv
  <2> SUFFICES ASSUME Init PROVE QueueInv /\ CountInv
    OBVIOUS
  <2>1. /\ client = NoClient /\ queue = << >> /\ gone = {} /\ pc = "connect"
        /\ contexts = 0 /\ abandoned = 0
    BY DEF Init
  <2>2. Range(queue) = {} /\ Connections = {}
    BY <2>1 DEF Range, Connections
  <2>3. QueueInv
    BY <2>1, <2>2 DEF QueueInv
  <2>4. IsFiniteSet(Connections)
    BY <2>2, FS_EmptySet
  <2>5. CountInv
    BY <2>1, <2>4 DEF CountInv, ContextsAccounted, Serving, Stuck
  <2>6. QED
    BY <2>3, <2>5
<1>2. CountInv => ContextsAccounted
  BY DEF CountInv
<1>3. QED
  BY <1>1, <1>2, LinkInvariant, QueueInductive, CountInductive, PTL DEF Spec
=============================================================================
