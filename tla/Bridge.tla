------------------------------- MODULE Bridge -------------------------------
(***************************************************************************)
(* bridge.go, the process on the host that carries HTTP requests from TCP  *)
(* connections to the board over one serial line.  For every connection a  *)
(* Handler runs and starts two more goroutines: one that locks the mutex,  *)
(* and one (here the worker) that reads the request, writes it on the      *)
(* line, reads a response from the line and writes it on the connection.   *)
(* The Handler waits for each of them for three seconds at most and never  *)
(* stops them.                                                             *)
(*                                                                         *)
(* A message on the line is one item, tagged with the connection it was    *)
(* made for; a response is read whole by one of the workers that scan the  *)
(* line.  Of the board the model keeps what its request loop does with     *)
(* whole, partial and joined requests.                                     *)
(***************************************************************************)
EXTENDS Naturals, Sequences

CONSTANTS
  Conns,      \* the TCP connections
  NoOne,      \* no connection
  Failures    \* what may go wrong

FailureKinds ==
  {"lock_timeout",     \* three seconds pass before the mutex is locked
   "answer_timeout",   \* three seconds pass before the worker is done
   "hangup",           \* the client closes the connection before its request
   "serial",           \* a write or a read on the serial line fails
   "refused"}          \* the board finds a request malformed: no response

ASSUME BridgeAssumption ==
  /\ NoOne \notin Conns
  /\ Failures \subseteq FailureKinds

VARIABLES
  handler,     \* the Handler goroutine of every connection
  lockers,     \* connections whose goroutine is blocked in mutex.Lock()
  mutex,       \* the connection whose goroutine holds the mutex, or NoOne
  worker,      \* the second goroutine of every connection
  toBoard,     \* requests written on the line and not read by the board
  fromBoard,   \* responses written by the board and not read by a worker
  board,       \* the board's buffer: "empty", or a "partial" request is in it
  got          \* the connection whose response was written on this one

vars == <<handler, lockers, mutex, worker, toBoard, fromBoard, board, got>>
line == <<toBoard, fromBoard, board>>

Closed == {"gave_up", "timed_out", "finished"}

Init ==
  /\ handler = [c \in Conns |-> "new"]
  /\ lockers = {}
  /\ mutex = NoOne
  /\ worker = [c \in Conns |-> "idle"]
  /\ toBoard = << >>
  /\ fromBoard = << >>
  /\ board = "empty"
  /\ got = [c \in Conns |-> NoOne]

-----------------------------------------------------------------------------
(***************************************************************************)
(* Locking.  The goroutine that locks outlives a Handler that gives up.    *)
(***************************************************************************)
Accept(c) ==
  /\ handler[c] = "new"
  /\ handler' = [handler EXCEPT ![c] = "locking"]
  /\ lockers' = lockers \cup {c}
  /\ UNCHANGED <<mutex, worker, line, got>>

\* Faulty variant: no mutual exclusion.
LockAnyTime(c) ==
  /\ c \in lockers
  /\ mutex' = c
  /\ lockers' = lockers \ {c}
  /\ UNCHANGED <<handler, worker, line, got>>

Lock(c) ==
  /\ c \in lockers
  /\ mutex = NoOne
  /\ mutex' = c
  /\ lockers' = lockers \ {c}
  /\ UNCHANGED <<handler, worker, line, got>>

\* Faulty variant: the Handler does not wait for the lock.
ProceedUnlocked(c) ==
  /\ handler[c] = "locking"
  /\ handler' = [handler EXCEPT ![c] = "working"]
  /\ worker' = [worker EXCEPT ![c] = "reading"]
  /\ UNCHANGED <<lockers, mutex, line, got>>

Proceed(c) ==
  /\ handler[c] = "locking"
  /\ mutex = c
  /\ handler' = [handler EXCEPT ![c] = "working"]
  /\ worker' = [worker EXCEPT ![c] = "reading"]
  /\ UNCHANGED <<lockers, mutex, line, got>>

GiveUp(c) ==
  /\ "lock_timeout" \in Failures
  /\ handler[c] = "locking"
  /\ handler' = [handler EXCEPT ![c] = "gave_up"]
  /\ UNCHANGED <<lockers, mutex, worker, line, got>>

-----------------------------------------------------------------------------
(***************************************************************************)
(* The worker.  When reading fails, because the client has hung up or the  *)
(* Handler has closed the connection, the loop ends like after a whole     *)
(* request: the bytes read so far are written on the line, if there are    *)
(* any, and the worker waits for a response.                               *)
(***************************************************************************)
Request(c, whole) == [conn |-> c, whole |-> whole]

SendRequest(c) ==
  /\ worker[c] = "reading"
  /\ handler[c] = "working"
  /\ toBoard' = Append(toBoard, Request(c, TRUE))
  /\ worker' = [worker EXCEPT ![c] = "waiting"]
  /\ UNCHANGED <<handler, lockers, mutex, fromBoard, board, got>>

ReadFails(c) ==
  /\ worker[c] = "reading"
  /\ handler[c] \in Closed \/ "hangup" \in Failures
  /\ \/ toBoard' = Append(toBoard, Request(c, FALSE))
     \/ UNCHANGED toBoard
  /\ worker' = [worker EXCEPT ![c] = "waiting"]
  /\ UNCHANGED <<handler, lockers, mutex, fromBoard, board, got>>

WriteFails(c) ==
  /\ "serial" \in Failures
  /\ worker[c] = "reading"
  /\ \/ toBoard' = Append(toBoard, Request(c, FALSE))
     \/ UNCHANGED toBoard
  /\ worker' = [worker EXCEPT ![c] = "cut"]
  /\ UNCHANGED <<handler, lockers, mutex, fromBoard, board, got>>

\* An error ends scanner.Scan(), and what has been read so far is written on the
\* connection: nothing, or the beginning of a response whose rest stays on the line.
ScanFails(c) ==
  /\ "serial" \in Failures
  /\ worker[c] = "waiting"
  /\ \/ /\ fromBoard # << >> /\ handler[c] = "working"
        /\ got' = [got EXCEPT ![c] = Head(fromBoard)]
     \/ UNCHANGED got
  /\ worker' = [worker EXCEPT ![c] = "cut"]
  /\ UNCHANGED <<handler, lockers, mutex, line>>

\* Writing on a connection that the Handler has closed fails.
TakeResponse(c) ==
  /\ worker[c] = "waiting"
  /\ fromBoard # << >>
  /\ fromBoard' = Tail(fromBoard)
  /\ got' = IF handler[c] = "working"
              THEN [got EXCEPT ![c] = Head(fromBoard)] ELSE got
  /\ worker' = [worker EXCEPT ![c] = "done"]
  /\ UNCHANGED <<handler, lockers, mutex, toBoard, board>>

-----------------------------------------------------------------------------
(***************************************************************************)
(* The end of a Handler: both ways close the connection and unlock.        *)
(***************************************************************************)
\* Faulty variant: the deferred Unlock is missing.
LeaveLocked(c, how) ==
  /\ handler[c] = "working"
  /\ handler' = [handler EXCEPT ![c] = how]
  /\ UNCHANGED <<lockers, mutex, worker, line, got>>

Leave(c, how) ==
  /\ handler[c] = "working"
  /\ handler' = [handler EXCEPT ![c] = how]
  /\ mutex' = NoOne
  /\ UNCHANGED <<lockers, worker, line, got>>

Finish(c) ==
  /\ worker[c] \in {"done", "cut"}
  /\ Leave(c, "finished")

\* Faulty variant: the timer is only looked at when the worker is done.
TimeOutLate(c) ==
  /\ worker[c] \in {"done", "cut"}
  /\ Leave(c, "timed_out")

TimeOut(c) ==
  /\ "answer_timeout" \in Failures
  /\ Leave(c, "timed_out")

-----------------------------------------------------------------------------
(***************************************************************************)
(* The board.  Its loop answers a request that is in its buffer alone and  *)
(* whole.  What arrives behind a partial request, or together with another *)
(* request, makes it drop the buffer or wait for more.                     *)
(***************************************************************************)
\* Faulty variant: the line echoes the request.
BoardEchoes ==
  /\ toBoard # << >>
  /\ fromBoard' = Append(fromBoard, Head(toBoard))
  /\ toBoard' = Tail(toBoard)
  /\ UNCHANGED <<handler, lockers, mutex, worker, board, got>>

BoardAnswers ==
  /\ toBoard # << >>
  /\ Head(toBoard).whole
  /\ board = "empty"
  /\ fromBoard' = Append(fromBoard, Head(toBoard).conn)
  /\ toBoard' = Tail(toBoard)
  /\ UNCHANGED <<handler, lockers, mutex, worker, board, got>>

BoardRefuses ==
  /\ toBoard # << >>
  /\ \/ "refused" \in Failures /\ board' = "empty"
     \/ ~Head(toBoard).whole /\ board' = "partial"
     \/ board = "partial" /\ board' \in {"empty", "partial"}
  /\ toBoard' = Tail(toBoard)
  /\ UNCHANGED <<handler, lockers, mutex, worker, fromBoard, got>>

BoardReadsTwo ==
  /\ Len(toBoard) > 1
  /\ board' \in {"empty", "partial"}
  /\ toBoard' = Tail(Tail(toBoard))
  /\ UNCHANGED <<handler, lockers, mutex, worker, fromBoard, got>>

Board == BoardAnswers \/ BoardRefuses \/ BoardReadsTwo

Worker(c) ==
  \/ SendRequest(c) \/ ReadFails(c) \/ WriteFails(c)
  \/ TakeResponse(c) \/ ScanFails(c)

Handler(c) == Proceed(c) \/ GiveUp(c) \/ Finish(c) \/ TimeOut(c)

Next ==
  \/ Board
  \/ \E c \in Conns : Accept(c) \/ Lock(c) \/ Handler(c) \/ Worker(c)

Spec == Init /\ [][Next]_vars

(***************************************************************************)
(* Goroutines that can run do run, timers fire, the board's loop goes on,  *)
(* and a blocked Lock is served when the mutex is free (sync.Mutex hands   *)
(* the lock over to a goroutine that has waited for 1 ms).  A client need  *)
(* not send anything, and nothing has to fail.                             *)
(***************************************************************************)
FairSpec ==
  /\ Spec
  /\ WF_vars(Board)
  /\ \A c \in Conns :
       /\ SF_vars(Lock(c))
       /\ WF_vars(Handler(c))
       /\ WF_vars(TakeResponse(c))

-----------------------------------------------------------------------------
Messages == [conn : Conns, whole : BOOLEAN]

\* The type invariant: the line carries requests one way and responses the other.
TypeOK ==
  /\ handler \in [Conns -> {"new", "locking", "working"} \cup Closed]
  /\ lockers \subseteq Conns
  /\ mutex \in Conns \cup {NoOne}
  /\ worker \in [Conns -> {"idle", "reading", "waiting", "done", "cut"}]
  /\ toBoard \in Seq(Messages)
  /\ fromBoard \in Seq(Conns)
  /\ board \in {"empty", "partial"}
  /\ got \in [Conns -> Conns \cup {NoOne}]

\* Of the workers that use the serial line at the same time at most one belongs to
\* a Handler that has not timed out: what the mutex is for.
LineExclusive ==
  \A c, d \in Conns :
    (worker[c] \in {"reading", "waiting"} /\ worker[d] \in {"reading", "waiting"})
      => c = d \/ "timed_out" \in {handler[c], handler[d]}

\* A request may be on the line, or its response, and nobody waits for it: its
\* Handler has timed out, or its worker has met an error of the serial line.
LeftOnLine(c) == handler[c] = "timed_out" \/ worker[c] = "cut"

\* A client gets the response to its own request or none, until the first request
\* is left on the line; lock timeouts, hang-ups and refused requests leave none.
OwnResponse ==
  (\A d \in Conns : ~LeftOnLine(d)) => \A c \in Conns : got[c] \in {c, NoOne}

\* Whoever holds the mutex gives it back, but for the goroutine of a Handler that
\* gave up: that one locks it when it gets its turn, and nobody unlocks.
MutexReleased ==
  \A c \in Conns :
    (mutex = c /\ handler[c] # "gave_up") ~> (mutex # c \/ handler[c] = "gave_up")

\* Every connection that is accepted is closed in the end.
ConnectionsEnd == \A c \in Conns : (handler[c] = "locking") ~> (handler[c] \in Closed)
=============================================================================
