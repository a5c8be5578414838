---------------------------- MODULE BridgeProofs ----------------------------
(***************************************************************************)
(* Proofs about Bridge for any set of connections and any set of failures, *)
(* timeouts of either kind among them.                                     *)
(***************************************************************************)
EXTENDS Bridge, SequenceTheorems, TLAPS

(***************************************************************************)
(* What the two queues of the line contain, from the sequence theorems.    *)
(***************************************************************************)
LEMMA RequestQueue ==
  ASSUME NEW q \in Seq(Messages)
  PROVE  /\ Len(q) \in Nat /\ (q = << >> <=> Len(q) = 0)
         /\ \A m \in Messages : Append(q, m) \in Seq(Messages)
         /\ q # << >> => /\ Head(q) \in Messages /\ Head(q).conn \in Conns
                        /\ Tail(q) \in Seq(Messages) /\ Len(Tail(q)) = Len(q) - 1
<1>1. Len(q) \in Nat /\ (q = << >> <=> Len(q) = 0)
  BY LenProperties, EmptySeq
<1>2. \A m \in Messages : Append(q, m) \in Seq(Messages)
  BY AppendProperties
<1>3. ASSUME q # << >>
      PROVE  /\ Head(q) \in Messages
             /\ Tail(q) \in Seq(Messages) /\ Len(Tail(q)) = Len(q) - 1
  BY <1>3, HeadTailProperties
<1>4. \A m \in Messages : m.conn \in Conns
  BY DEF Messages
<1>5. QED
  BY <1>1, <1>2, <1>3, <1>4

\* The same for the responses.
LEMMA ResponseQueue ==
  ASSUME NEW q \in Seq(Conns)
  PROVE  /\ Len(q) \in Nat /\ (q = << >> <=> Len(q) = 0)
         /\ \A c \in Conns : Append(q, c) \in Seq(Conns)
         /\ q # << >> => /\ Head(q) \in Conns /\ Tail(q) \in Seq(Conns)
                        /\ Len(Tail(q)) = Len(q) - 1
<1>1. Len(q) \in Nat /\ (q = << >> <=> Len(q) = 0)
  BY LenProperties, EmptySeq
<1>2. \A c \in Conns : Append(q, c) \in Seq(Conns)
  BY AppendProperties
<1>3. ASSUME q # << >>
      PROVE  /\ Head(q) \in Conns
             /\ Tail(q) \in Seq(Conns) /\ Len(Tail(q)) = Len(q) - 1
  BY <1>3, HeadTailProperties
<1>4. QED
  BY <1>1, <1>2, <1>3

\* Both queues, and the requests that workers write.
LEMMA Queues ==
  ASSUME TypeOK
  PROVE  /\ Len(toBoard) \in Nat /\ (toBoard = << >> <=> Len(toBoard) = 0)
         /\ Len(fromBoard) \in Nat /\ (fromBoard = << >> <=> Len(fromBoard) = 0)
         /\ \A c \in Conns, whole \in BOOLEAN :
              Append(toBoard, Request(c, whole)) \in Seq(Messages)
         /\ \A c \in Conns : Append(fromBoard, c) \in Seq(Conns)
         /\ toBoard # << >> =>
              /\ Head(toBoard).conn \in Conns
              /\ Tail(toBoard) \in Seq(Messages)
              /\ Len(Tail(toBoard)) = Len(toBoard) - 1
         /\ fromBoard # << >> =>
              /\ Head(fromBoard) \in Conns
              /\ Tail(fromBoard) \in Seq(Conns)
              /\ Len(Tail(fromBoard)) = Len(fromBoard) - 1
<1>1. toBoard \in Seq(Messages) /\ fromBoard \in Seq(Conns)
  BY DEF TypeOK
<1>2. \A c \in Conns, whole \in BOOLEAN : Request(c, whole) \in Messages
  BY DEF Request, Messages
<1>3. QED
  BY <1>1, <1>2, RequestQueue, ResponseQueue

\* A worker, whatever its serial port does, leaves well-formed queues.
LEMMA WorkerTypes ==
  ASSUME TypeOK, NEW c \in Conns, Worker(c)
  PROVE  TypeOK'
<1> USE DEF TypeOK, line
<1>1. CASE SendRequest(c) \/ ReadFails(c) \/ WriteFails(c)
  BY <1>1, Queues DEF SendRequest, ReadFails, WriteFails
<1>2. CASE TakeResponse(c)
  <2>1. Head(fromBoard) \in Conns /\ Tail(fromBoard) \in Seq(Conns)
    BY <1>2, Queues DEF TakeResponse
  <2>2. QED
    BY <1>2, <2>1 DEF TakeResponse
<1>3. CASE ScanFails(c)
  BY <1>3, Queues DEF ScanFails
<1>4. QED
  BY <1>1, <1>2, <1>3 DEF Worker

\* So does the board, which may take two requests for one.
LEMMA BoardTypes ==
  ASSUME TypeOK, Board
  PROVE  TypeOK'
<1> USE DEF TypeOK
<1>1. CASE BoardReadsTwo
  <2> DEFINE rest == Tail(toBoard)
  <2>1. rest \in Seq(Messages) /\ Len(rest) > 0
    BY <1>1, Queues DEF BoardReadsTwo
  <2> HIDE DEF rest
  <2>2. Tail(rest) \in Seq(Messages)
    BY <2>1, RequestQueue
  <2>3. QED
    BY <1>1, <2>2 DEF BoardReadsTwo, rest
<1>2. CASE BoardAnswers \/ BoardRefuses
  BY <1>2, Queues DEF BoardAnswers, BoardRefuses
<1>3. QED
  BY <1>1, <1>2 DEF Board

(***************************************************************************)
(* The type invariant of the bridge, for any number of connections and any *)
(* failures.                                                               *)
(***************************************************************************)
THEOREM TypeCorrect == Spec => []TypeOK
<1>1. TypeOK /\ [Next]_vars => TypeOK'
  <2> HAVE TypeOK /\ [Next]_vars
  <2>1. CASE Board \/ UNCHANGED vars
    BY <2>1, BoardTypes DEF TypeOK, vars
  <2>2. CASE \E c \in Conns : Accept(c) \/ Lock(c) \/ Handler(c) \/ Worker(c)
    <3>1. PICK c \in Conns : Accept(c) \/ Lock(c) \/ Handler(c) \/ Worker(c)
      BY <2>2
    <3>2. ASSUME Accept(c) \/ Lock(c) \/ Handler(c)
          PROVE  TypeOK'
      BY <3>2, BridgeAssumption
         DEF TypeOK, Closed, line, Accept, Lock, Handler, Proceed, GiveUp,
             Finish, TimeOut, Leave
    <3>3. QED
      BY <3>1, <3>2, WorkerTypes
  <2>3. QED
    BY <2>1, <2>2 DEF Next
<1>2. Init => TypeOK
  BY BridgeAssumption DEF Init, TypeOK, Closed
<1>3. QED
  BY <1>1, <1>2, PTL DEF Spec

-----------------------------------------------------------------------------
(***************************************************************************)
(* A Handler that works holds the mutex, and a worker that uses the line   *)
(* has a Handler that works or has timed out.                              *)
(***************************************************************************)
MutexInv ==
  \A c \in Conns :
    /\ c \in lockers => mutex # c /\ handler[c] # "new"
    /\ handler[c] = "new" => mutex # c
    /\ handler[c] \in {"new", "locking", "gave_up"} => worker[c] = "idle"
    /\ handler[c] = "working" => mutex = c
    /\ handler[c] = "finished" => worker[c] \in {"done", "cut"}

\* MutexInv holds in every reachable state, whatever fails.
LEMMA MutexInvariant == Spec => []MutexInv
<1>1. Init => MutexInv
  BY BridgeAssumption DEF Init, MutexInv
<1>2. TypeOK /\ MutexInv /\ [Next]_vars => MutexInv'
  <2> SUFFICES ASSUME TypeOK, MutexInv, [Next]_vars
               PROVE  MutexInv'
    OBVIOUS
  <2> USE BridgeAssumption
  <2>1. CASE Board \/ UNCHANGED vars
    BY <2>1 DEF Board, BoardAnswers, BoardRefuses, BoardReadsTwo, vars, MutexInv
  <2>2. ASSUME NEW c \in Conns, Accept(c) \/ Lock(c)
        PROVE  MutexInv'
    BY <2>2 DEF Accept, Lock, MutexInv, TypeOK
  <2>3. ASSUME NEW c \in Conns, Proceed(c) \/ GiveUp(c)
        PROVE  MutexInv'
    BY <2>3 DEF Proceed, GiveUp, MutexInv, TypeOK
  <2>4. ASSUME NEW c \in Conns, Finish(c) \/ TimeOut(c)
        PROVE  MutexInv'
    BY <2>4 DEF Finish, TimeOut, Leave, MutexInv, TypeOK
  <2>5. ASSUME NEW c \in Conns, Worker(c)
        PROVE  MutexInv'
    <3>1. /\ worker[c] \in {"reading", "waiting"}
          /\ \E w \in {"waiting", "done", "cut"} : worker' = [worker EXCEPT ![c] = w]
          /\ UNCHANGED <<handler, lockers, mutex>>
      BY <2>5 DEF Worker, SendRequest, ReadFails, WriteFails, TakeResponse, ScanFails
    <3>2. QED
      BY <3>1 DEF MutexInv, TypeOK
  <2>6. QED
    BY <2>1, <2>2, <2>3, <2>4, <2>5 DEF Next, Handler
<1>3. QED
  BY <1>1, <1>2, TypeCorrect, PTL DEF Spec

(***************************************************************************)
(* Two workers never use the line together, but for those whose Handler    *)
(* has timed out.                                                          *)
(***************************************************************************)
THEOREM LineIsExclusive == Spec => []LineExclusive
<1>1. TypeOK /\ MutexInv => LineExclusive
  BY DEF TypeOK, MutexInv, LineExclusive, Closed
<1>2. QED
  BY <1>1, TypeCorrect, MutexInvariant, PTL

-----------------------------------------------------------------------------
(***************************************************************************)
(* As long as no request is left on the line, a worker that uses it has a  *)
(* Handler that holds the mutex, and what is on the line, one message at   *)
(* most, was sent by the worker that waits for the response.               *)
(***************************************************************************)
Undisturbed == \A d \in Conns : ~LeftOnLine(d)

WorkersOwnTheMutex ==
  \A c \in Conns :
    worker[c] \in {"reading", "waiting"} => handler[c] = "working" /\ mutex = c

LineIsOwned ==
  /\ Len(toBoard) + Len(fromBoard) <= 1
  /\ toBoard # << >> => worker[Head(toBoard).conn] = "waiting"
  /\ fromBoard # << >> => worker[Head(fromBoard)] = "waiting"

OwnResponses == \A c \in Conns : got[c] \in {c, NoOne}

LineInv == WorkersOwnTheMutex /\ LineIsOwned /\ OwnResponses

\* A request that is left on the line stays so, and until then every step keeps
\* LineInv.
LEMMA LineInductive ==
  ASSUME TypeOK, TypeOK', MutexInv, Undisturbed => LineInv, [Next]_vars, Undisturbed'
  PROVE  LineInv'
<1>1. Undisturbed
  <2> SUFFICES ASSUME NEW d \in Conns, LeftOnLine(d)
               PROVE  LeftOnLine(d)'
    BY DEF Undisturbed
  <2>1. handler[d] = "timed_out" => handler'[d] = "timed_out"
    BY DEF Next, vars, Board, BoardAnswers, BoardRefuses, BoardReadsTwo, Accept, Lock,
           Handler, Proceed, GiveUp, Finish, TimeOut, Leave, Worker, SendRequest,
           ReadFails, WriteFails, TakeResponse, ScanFails, TypeOK
  <2>2. worker[d] = "cut" => worker'[d] = "cut" \/ handler[d] \in {"new", "locking"}
    <3> SUFFICES ASSUME worker[d] = "cut"
                 PROVE  worker'[d] = "cut" \/ handler[d] \in {"new", "locking"}
      OBVIOUS
    <3>1. CASE Board \/ UNCHANGED vars
      BY <3>1 DEF Board, BoardAnswers, BoardRefuses, BoardReadsTwo, vars
    <3>2. ASSUME NEW c \in Conns, Accept(c) \/ Lock(c) \/ Handler(c)
          PROVE  worker'[d] = "cut" \/ handler[d] \in {"new", "locking"}
      BY <3>2 DEF Accept, Lock, Handler, Proceed, GiveUp, Finish, TimeOut, Leave, TypeOK
    <3>3. ASSUME NEW c \in Conns, Worker(c)
          PROVE  worker'[d] = "cut"
      BY <3>3 DEF Worker, SendRequest, ReadFails, WriteFails, TakeResponse, ScanFails, TypeOK
    <3>4. QED
      BY <3>1, <3>2, <3>3 DEF Next
  <2>3. QED
    BY <2>1, <2>2 DEF LeftOnLine, MutexInv
<1> SUFFICES ASSUME LineInv
             PROVE  LineInv'
  BY <1>1
<1> USE BridgeAssumption
<1>2. ASSUME NEW c \in Conns, Accept(c) \/ Lock(c)
      PROVE  LineInv'
  BY <1>2 DEF Accept, Lock, line, LineInv, WorkersOwnTheMutex, MutexInv, LineIsOwned,
              OwnResponses, TypeOK
<1>3. ASSUME NEW c \in Conns, Handler(c)
      PROVE  LineInv'
  <2>1. CASE Proceed(c)
    BY <2>1 DEF Proceed, line, LineInv, WorkersOwnTheMutex, MutexInv, LineIsOwned,
                OwnResponses, TypeOK
  <2>2. CASE GiveUp(c)
    BY <2>2 DEF GiveUp, line, LineInv, WorkersOwnTheMutex, MutexInv, LineIsOwned,
                OwnResponses, TypeOK
  <2>3. CASE Finish(c)
    BY <2>3 DEF Finish, Leave, line, LineInv, WorkersOwnTheMutex, MutexInv, LineIsOwned,
                OwnResponses, TypeOK
  <2>4. QED
    <3>1. CASE TimeOut(c)
      BY <3>1 DEF TimeOut, Leave, Undisturbed, LeftOnLine, TypeOK
    <3>2. QED
      BY <1>3, <2>1, <2>2, <2>3, <3>1 DEF Handler
<1>4. ASSUME NEW c \in Conns, Worker(c)
      PROVE  LineInv'
  <2>1. ASSUME worker[c] = "reading"
        PROVE  /\ handler[c] = "working" /\ mutex = c
               /\ toBoard = << >> /\ fromBoard = << >>
    <3>1. handler[c] = "working" /\ mutex = c
      BY <2>1 DEF LineInv, WorkersOwnTheMutex, MutexInv
    <3>2. \A d \in Conns : worker[d] # "waiting"
      BY <2>1, <3>1 DEF LineInv, WorkersOwnTheMutex, MutexInv
    <3>3. QED
      BY <3>1, <3>2, Queues DEF LineInv, LineIsOwned
  <2>2. ASSUME NEW whole \in BOOLEAN, worker[c] = "reading",
               toBoard' \in {toBoard, Append(toBoard, Request(c, whole))},
               worker' = [worker EXCEPT ![c] = "waiting"],
               UNCHANGED <<handler, lockers, mutex, fromBoard, board, got>>
        PROVE  LineInv'
    <3>1. toBoard = << >> /\ fromBoard = << >>
      BY <2>1, <2>2
    <3>2. LineIsOwned'
      <4>1. \/ toBoard' = << >>
            \/ toBoard' = << Request(c, whole) >>
        BY <2>2, <3>1
      <4>2. fromBoard' = << >> /\ worker'[c] = "waiting"
        BY <2>2, <3>1 DEF TypeOK
      <4>3. QED
        <5>1. CASE toBoard' = << >>
          BY <4>2, <5>1 DEF LineIsOwned
        <5>2. CASE toBoard' = << Request(c, whole) >>
          <6>1. Len(toBoard') = 1 /\ Head(toBoard').conn = c
            BY <5>2 DEF Request
          <6>2. QED
            BY <4>2, <6>1 DEF LineIsOwned
        <5>3. QED
          BY <4>1, <5>1, <5>2
    <3>3. QED
      BY <2>1, <2>2, <3>2
         DEF LineInv, WorkersOwnTheMutex, MutexInv, OwnResponses, TypeOK
  <2>3. CASE SendRequest(c) \/ ReadFails(c)
    BY <2>2, <2>3 DEF SendRequest, ReadFails
  <2>4. CASE WriteFails(c) \/ ScanFails(c)
    BY <2>4 DEF WriteFails, ScanFails, Undisturbed, LeftOnLine, TypeOK
  <2>5. CASE TakeResponse(c)
    <3>1. Head(fromBoard) = c
      BY <2>5, Queues
         DEF TakeResponse, LineInv, WorkersOwnTheMutex, MutexInv, LineIsOwned
    <3>2. toBoard' = << >> /\ fromBoard' = << >>
      <4>1. Len(fromBoard) = 1 /\ Len(toBoard) = 0
        BY <2>5, Queues DEF TakeResponse, LineInv, LineIsOwned
      <4>2. Len(Tail(fromBoard)) = 0 /\ Tail(fromBoard) \in Seq(Conns)
        BY <4>1, Queues
      <4>3. QED
        BY <2>5, <4>1, <4>2, Queues, ResponseQueue DEF TakeResponse
    <3>3. LineIsOwned'
      BY <3>2 DEF LineIsOwned
    <3>4. QED
      BY <2>5, <3>1, <3>3
         DEF TakeResponse, LineInv, WorkersOwnTheMutex, MutexInv, OwnResponses, TypeOK
  <2>6. QED
    BY <1>4, <2>3, <2>4, <2>5 DEF Worker
<1>5. CASE Board
  <2>1. /\ toBoard # << >> /\ Len(toBoard) = 1 /\ fromBoard = << >>
    <3>1. toBoard # << >>
      BY <1>5, Queues DEF Board, BoardAnswers, BoardRefuses, BoardReadsTwo
    <3>2. QED
      BY <3>1, Queues DEF LineInv, LineIsOwned
  <2>2. Tail(toBoard) = << >>
    <3> DEFINE rest == Tail(toBoard)
    <3>1. rest \in Seq(Messages) /\ Len(rest) = 0
      BY <2>1, Queues
    <3> HIDE DEF rest
    <3>2. rest = << >>
      BY <3>1, RequestQueue
    <3>3. QED
      BY <3>2 DEF rest
  <2>3. toBoard' = << >> /\ UNCHANGED <<handler, lockers, mutex, worker, got>>
    BY <1>5, <2>1, <2>2
       DEF Board, BoardAnswers, BoardRefuses, BoardReadsTwo
  <2>4. fromBoard' \in {<< >>, << Head(toBoard).conn >>}
    BY <1>5, <2>1 DEF Board, BoardAnswers, BoardRefuses, BoardReadsTwo
  <2>5. LineIsOwned'
    <3>1. worker'[Head(toBoard).conn] = "waiting"
      BY <2>1, <2>3 DEF LineInv, LineIsOwned
    <3>2. CASE fromBoard' = << >>
      BY <2>3, <3>2 DEF LineIsOwned
    <3>3. CASE fromBoard' = << Head(toBoard).conn >>
      <4>1. Len(fromBoard') = 1 /\ Head(fromBoard') = Head(toBoard).conn
        BY <3>3
      <4>2. QED
        BY <2>3, <3>1, <4>1 DEF LineIsOwned
    <3>4. QED
      BY <2>4, <3>2, <3>3
  <2>6. QED
    BY <2>3, <2>5 DEF LineInv, WorkersOwnTheMutex, MutexInv, OwnResponses
<1>6. CASE UNCHANGED vars
  BY <1>6 DEF vars, LineInv, WorkersOwnTheMutex, MutexInv, LineIsOwned, OwnResponses
<1>7. QED
  BY <1>2, <1>3, <1>4, <1>5, <1>6 DEF Next

(***************************************************************************)
(* Until the first request is left on the line no client gets the response *)
(* of another, whatever else fails.                                        *)
(***************************************************************************)
THEOREM ResponsesAreOwn == Spec => []OwnResponse
<1> DEFINE IInv == Undisturbed => LineInv
<1>1. Init => IInv
  BY BridgeAssumption
     DEF Init, LineInv, WorkersOwnTheMutex, LineIsOwned, OwnResponses
<1>2. TypeOK /\ TypeOK' /\ MutexInv /\ IInv /\ [Next]_vars => IInv'
  BY LineInductive
<1>3. IInv => OwnResponse
  BY DEF LineInv, OwnResponses, OwnResponse, Undisturbed
<1>4. QED
  BY <1>1, <1>2, <1>3, TypeCorrect, MutexInvariant, PTL DEF Spec
=============================================================================
