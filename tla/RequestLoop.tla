---------------------------- MODULE RequestLoop -----------------------------
(***************************************************************************)
(* The main loop of the remote signer with parseRequest of httpRemote.h:   *)
(* bytes are read into one global buffer, which is parsed after each read  *)
(* and also holds the response.  The transport says which main.c it is:    *)
(* "uart" and "lte" are the two builds of remote-signer, "wifi" is the     *)
(* server of remote-signer-7002.                                           *)
(*                                                                         *)
(* A cell stands for some bytes: of a request, its method and path, other  *)
(* headers, its Content-Length, the empty line, and its body; of a         *)
(* response, its status and the rest of it.  A read may end between any    *)
(* two cells.  MAXBUF, the limit of 300 bytes and the FIFO of the serial   *)
(* driver (which takes as much as fits and is empty when a response        *)
(* starts) are counted in cells.  What a response says is left open: it    *)
(* depends on the keystore.                                                *)
(***************************************************************************)
EXTENDS Integers, Sequences, FiniteSetsExt

CONSTANTS
  Settings,    \* the builds and surroundings to look at (see setting)
  MAXBUF,      \* the cells of the buffer: it holds every response
  SIZE_MAX,    \* the largest size_t: no buffer and no request is that long
  Limit,       \* parseRequest's "arbitrary limit to discard request"
  Fifo,        \* the most that uart_fifo_fill takes at once
  Requests,    \* the requests that clients send
  Form,        \* of every request: what it asks for, and its cells
  NoReq,       \* no request
  MaxQueued    \* bound: cells in the stream when a client goes away

Kinds == {"upcheck", "getKeys", "sign", "importKey", "unknown"}
RequestParts == {"GET", "POST", "header", "length", "end", "body"}
ResponseParts == {"status", "rest"}

FailureKinds ==
  {"impatient",    \* a client stops waiting and another request is sent
   "hangup",       \* a client is gone when it has sent part of its request
   "send",         \* sending a response fails
   "recv",         \* reading from the socket fails
   "close",        \* the other end of the socket closes it
   "num_headers",  \* the uninitialised room for headers happens to be small
   "body"}         \* the body of an importKey request is not JSON

ASSUME RequestLoopAssumption ==
  /\ Settings \subseteq [transport : {"uart", "lte", "wifi"},
                          requests : SUBSET Requests,
                          failures : SUBSET FailureKinds]
  /\ MAXBUF \in Nat \ {0, 1} /\ Limit \in Nat /\ Fifo \in Nat \ {0}
  /\ Limit < MAXBUF /\ MAXBUF < SIZE_MAX /\ MaxQueued \in Nat /\ SIZE_MAX \in Nat
  /\ Form \in [Requests -> [kind : Kinds, parts : Seq(RequestParts)]]
  /\ \A r \in Requests : MAXBUF + Len(Form[r].parts) < SIZE_MAX
  /\ NoReq \notin Requests

VARIABLES
  setting,   \* the build, the requests that are sent, what may go wrong
  client,    \* the request whose client waits for a response, or NoReq
  stream,    \* cells that are sent and not yet read by the board
  buf,       \* the global buffer
  len,       \* how much of it is in use
  pc,        \* "recv", "send", or "spin" in a loop that never ends
  wire,      \* cells of the response that are sent
  answer,    \* what a client was given, until the next request is sent
  handled    \* the cells given to dumpHttpResponse, until a response is sent

vars == <<setting, client, stream, buf, len, pc, wire, answer, handled>>

Index == 0 .. MAXBUF - 1

Cell(r, part) == [req |-> r, part |-> part]

Nul == Cell(NoReq, "nul")

Blank == [i \in Index |-> Nul]

CellsOf(r) == [i \in 1 .. Len(Form[r].parts) |-> Cell(r, Form[r].parts[i])]

NoAnswer == [to |-> NoReq, cells |-> << >>]

Init ==
  /\ setting \in Settings
  /\ client = NoReq
  /\ stream = << >>
  /\ buf = Blank
  /\ len = 0
  /\ pc = "recv"
  /\ wire = << >>
  /\ answer = NoAnswer
  /\ handled = << >>

-----------------------------------------------------------------------------
(***************************************************************************)
(* parseRequest.  strncmp and strstr look at the buffer up to its first    *)
(* zero byte, not up to bufferSize n: cells of an earlier request may lie  *)
(* behind n.  A negative n is converted to a huge size_t.  atoi is the     *)
(* Content-Length, in cells of the body.                                   *)
(***************************************************************************)
Text(b) == {i \in Index : \A j \in 0 .. i : b[j] # Nul}

Positions(b, part) == {i \in Text(b) : b[i].part = part}

atoi(cell) ==
  LET parts == Form[cell.req].parts
  IN  Cardinality({i \in DOMAIN parts : parts[i] = "body"})

\* Faulty variant: the comparisons are signed.
size_tSigned(n) == n

size_t(n) == IF n < 0 THEN SIZE_MAX + 1 + n ELSE n

Discard(n) == IF size_t(n) < Limit THEN -2 ELSE -1

\* Faulty variant: the empty line is not counted.
lengthCheckShort(b, n) ==
  LET lengths == Positions(b, "length")
      p == Min(lengths)
      ends == {i \in Positions(b, "end") : b[0].part = "POST" => p <= i}
      explen == Min(ends) + atoi(b[p])
  IN  CASE b[0].part \notin {"GET", "POST"} -> -1
        [] b[0].part = "GET" /\ ends = {} -> Discard(n)
        [] b[0].part = "GET" /\ ends # {} -> 0
        [] b[0].part = "POST" /\ lengths = {} ->
             IF size_t(n) < Limit THEN -2 ELSE 0
        [] b[0].part = "POST" /\ lengths # {} /\ ends = {} -> Discard(n)
        [] OTHER -> IF size_t(n) > explen THEN -1
                    ELSE IF size_t(n) < explen THEN -2 ELSE 0

lengthCheck(b, n) ==
  LET lengths == Positions(b, "length")
      p == Min(lengths)
      ends == {i \in Positions(b, "end") : b[0].part = "POST" => p <= i}
      explen == Min(ends) + 1 + atoi(b[p])
  IN  CASE b[0].part \notin {"GET", "POST"} -> -1
        [] b[0].part = "GET" /\ ends = {} -> Discard(n)
        [] b[0].part = "GET" /\ ends # {} -> 0
        [] b[0].part = "POST" /\ lengths = {} ->
             IF size_t(n) < Limit THEN -2 ELSE 0
        [] b[0].part = "POST" /\ lengths # {} /\ ends = {} -> Discard(n)
        [] OTHER -> IF size_t(n) > explen THEN -1
                    ELSE IF size_t(n) < explen THEN -2 ELSE 0

\* phr_parse_request: the request line and headers up to an empty line.
phr_parse_request(b, n) ==
  LET read == {i \in Index : i < size_t(n)}
      ends == {i \in read : b[i].part = "end"}
      head == IF ends = {} THEN read ELSE 0 .. Min(ends) - 1
  IN  IF \E i \in head \ {0} : b[i].part \notin {"header", "length"} THEN -1
      ELSE IF ends = {} THEN -2 ELSE 0

parseRequest(b, n) ==
  CASE lengthCheck(b, n) # 0 -> {lengthCheck(b, n)}
    [] lengthCheck(b, n) = 0 /\ phr_parse_request(b, n) # 0 ->
         {phr_parse_request(b, n)}
    [] OTHER -> {IF Form[b[0].req].kind = "unknown" THEN -3 ELSE 0}
                  \cup (IF "num_headers" \in setting.failures THEN {-1} ELSE {})

\* The terminator that is written once the length has been checked (behind a
\* full buffer it falls outside).
Terminated(b, n) ==
  IF lengthCheck(b, n) = 0 /\ n \in Index THEN [b EXCEPT ![n] = Nul] ELSE b

\* What is handled: a GET up to its empty line, a POST to the end.
Request(b, n) ==
  LET last == IF b[0].part = "GET" THEN Min(Positions(b, "end")) ELSE n - 1
  IN  [i \in 1 .. last + 1 |-> b[i - 1]]

-----------------------------------------------------------------------------
(***************************************************************************)
(* dumpHttpResponse and its callers' handling of -1.  strcpy leaves what   *)
(* is behind the response as it was; a 400 is written on a cleared buffer. *)
(* For a body that is not JSON httpImportFromKeystore returns              *)
(* EXIT_FAILURE, 1, which is taken for the length of a response.           *)
(***************************************************************************)
Response(r, parts) == [i \in 1 .. Len(parts) |-> Cell(r, parts[i])]

Short == <<"status">>
Long == <<"status", "rest">>

Written(b, cells) ==
  [i \in Index |-> IF i < Len(cells) THEN cells[i + 1]
                   ELSE IF i = Len(cells) THEN Nul ELSE b[i]]

BadRequest(r) ==
  /\ buf' = Written(Blank, Response(r, Short))
  /\ len' = 1

dumpHttpResponse(b, r) ==
  \/ /\ buf' = Written(b, Response(r, Short))
     /\ len' = Len(Short)
  \/ /\ Form[r].kind = "getKeys"
     /\ buf' = Written(b, Response(r, Long))
     /\ len' = Len(Long)
  \/ /\ Form[r].kind \in {"sign", "importKey"}
     /\ BadRequest(r)
  \/ /\ Form[r].kind = "importKey"
     /\ "body" \in setting.failures
     /\ buf' = b
     /\ len' = 1

\* The rest of an iteration, once n cells are in buffer b.
Process(b, n) ==
  \E pr \in parseRequest(b, n) :
    \/ /\ pr = -2
       /\ buf' = Terminated(b, n)
       /\ len' = n
       /\ UNCHANGED <<pc, handled>>
    \/ /\ pr = -1
       /\ buf' = Terminated(b, n)
       /\ len' = 0
       /\ UNCHANGED <<pc, handled>>
    \/ /\ pr = -3
       /\ BadRequest(b[0].req)
       /\ pc' = "send"
       /\ handled' = Request(b, n)
    \/ /\ pr = 0
       /\ dumpHttpResponse(Terminated(b, n), b[0].req)
       /\ pc' = "send"
       /\ handled' = Request(b, n)

(***************************************************************************)
(* Reading k cells into the buffer behind the cells in use.  recv_tcp      *)
(* writes a terminator behind them.  Nothing is read when nothing has come *)
(* over the serial line, and when the socket is closed and empty: the loop *)
(* goes on all the same.  (A closed socket stays so; here a request may    *)
(* still follow.)                                                          *)
(***************************************************************************)
Filled(k) ==
  [i \in Index |-> IF len <= i /\ i < len + k THEN stream[i - len + 1]
                   ELSE IF setting.transport = "lte" /\ i = len + k THEN Nul
                   ELSE buf[i]]

Receive(k) ==
  /\ pc = "recv"
  /\ k = 0 => \/ setting.transport = "uart"
              \/ /\ setting.transport = "lte" /\ "close" \in setting.failures
                 /\ stream = << >>
  /\ k <= Len(stream)
  /\ k <= MAXBUF - len
  /\ stream' = SubSeq(stream, k + 1, Len(stream))
  /\ Process(Filled(k), len + k)
  /\ UNCHANGED <<client, wire, answer>>

\* recv_tcp answers -1 and the loop adds it to len.
ReceiveFails ==
  /\ setting.transport = "lte"
  /\ "recv" \in setting.failures
  /\ pc = "recv"
  /\ Process(buf, len - 1)
  /\ UNCHANGED <<client, stream, wire, answer>>

-----------------------------------------------------------------------------
(***************************************************************************)
(* Sending.  "uart": each call of uart_fifo_fill starts at buf, and when   *)
(* no interrupt is pending the loop is left although there is more to      *)
(* send: the client has got part of a response and waits, and what is not  *)
(* sent is in use of the buffer.  "lte": len is not changed.  "wifi": buf  *)
(* is not cleared, the connection is closed after the response, and when   *)
(* send fails its -1 is subtracted from len, so that len never gets to 0.  *)
(***************************************************************************)
Front(from, k) == [i \in 1 .. k |-> buf[from + i - 1]]

Deliver(cells) ==
  /\ answer' = [to |-> client, cells |-> cells]
  /\ client' = NoReq
  /\ wire' = << >>
  /\ pc' = "recv"
  /\ handled' = << >>

SendUart ==
  /\ setting.transport = "uart"
  /\ pc = "send"
  /\ \/ /\ len > Fifo
        /\ len' = len - Fifo
        /\ wire' = wire \o Front(0, Fifo)
        /\ UNCHANGED <<client, answer, pc, buf, handled>>
     \/ /\ len > Fifo
        /\ len' = len - Fifo
        /\ pc' = "recv"
        /\ wire' = << >>
        /\ handled' = << >>
        /\ UNCHANGED <<client, answer, buf>>
     \/ /\ len <= Fifo
        /\ len' = 0
        /\ Deliver(wire \o Front(0, len))
        /\ buf' = Blank
  /\ UNCHANGED stream

SendLte ==
  /\ setting.transport = "lte"
  /\ pc = "send"
  /\ \/ /\ Deliver(Front(0, len))
        /\ buf' = Blank
     \/ /\ "send" \in setting.failures
        /\ pc' = "recv"
        /\ handled' = << >>
        /\ UNCHANGED <<client, answer, wire, buf>>
  /\ UNCHANGED <<stream, len>>

\* Faulty variant: each call of send starts at buf.
SendWifiAgain(k) ==
  /\ setting.transport = "wifi"
  /\ pc = "send"
  /\ k <= len
  /\ len' = len - k
  /\ \/ /\ len' > 0
        /\ wire' = wire \o Front(0, k)
        /\ UNCHANGED <<client, stream, answer, pc, handled>>
     \/ /\ len' = 0
        /\ Deliver(wire \o Front(0, k))
        /\ stream' = << >>
  /\ UNCHANGED buf

SendWifi(k) ==
  /\ setting.transport = "wifi"
  /\ pc = "send"
  /\ \/ /\ k <= len
        /\ len' = len - k
        /\ \/ /\ len' > 0
              /\ wire' = wire \o Front(Len(wire), k)
              /\ UNCHANGED <<client, stream, answer, pc, handled>>
           \/ /\ len' = 0
              /\ Deliver(wire \o Front(Len(wire), k))
              /\ stream' = << >>
     \/ /\ "send" \in setting.failures
        /\ pc' = "spin"
        /\ UNCHANGED <<client, stream, answer, wire, len, handled>>
  /\ UNCHANGED buf

-----------------------------------------------------------------------------
(***************************************************************************)
(* The clients, behind the bridge or on the socket: one request at a time. *)
(* The server of "wifi" accepts a connection when it has left the one      *)
(* before; that does not change buf and len.                               *)
(***************************************************************************)
SendRequest(r) ==
  /\ client = NoReq
  /\ setting.transport = "wifi" => stream = << >> /\ pc = "recv"
  /\ client' = r
  /\ stream' = stream \o CellsOf(r)
  /\ answer' = NoAnswer
  /\ UNCHANGED <<buf, len, pc, wire, handled>>

StopWaiting ==
  /\ "impatient" \in setting.failures
  /\ client # NoReq
  /\ Len(stream) <= MaxQueued
  /\ client' = NoReq
  /\ UNCHANGED <<stream, buf, len, pc, wire, answer, handled>>

HangUp(k) ==
  /\ "hangup" \in setting.failures
  /\ client # NoReq
  /\ k < Len(stream)
  /\ k <= MaxQueued
  /\ client' = NoReq
  /\ stream' = SubSeq(stream, 1, k)
  /\ UNCHANGED <<buf, len, pc, wire, answer, handled>>

Board ==
  /\ \/ \E k \in 0 .. MAXBUF : Receive(k)
     \/ ReceiveFails
     \/ SendUart
     \/ SendLte
     \/ \E k \in 1 .. MAXBUF : SendWifi(k)
  /\ UNCHANGED setting

Clients ==
  /\ \/ \E r \in setting.requests : SendRequest(r)
     \/ StopWaiting
     \/ \E k \in Index : HangUp(k)
  /\ UNCHANGED setting

Next == Board \/ Clients

Spec == Init /\ [][Next]_vars

(***************************************************************************)
(* The board's loop runs for ever, and its reads get what has been sent.   *)
(***************************************************************************)
FairSpec == Spec /\ WF_vars(Board)

-----------------------------------------------------------------------------
\* A request as HTTP has it: its line, headers, an empty line; a POST has a
\* Content-Length, which counts what follows the empty line, and a GET has no body.
WellFormed(r) ==
  LET parts == Form[r].parts
  IN  \E e \in 2 .. Len(parts) :
        /\ parts[1] \in {"GET", "POST"} /\ parts[e] = "end"
        /\ \A i \in 2 .. e - 1 : parts[i] \in {"header", "length"}
        /\ \A i \in e + 1 .. Len(parts) : parts[i] = "body"
        /\ IF parts[1] = "POST"
             THEN \E i \in 2 .. e - 1 : parts[i] = "length"
             ELSE e = Len(parts) /\ Form[r].kind \notin {"sign", "importKey"}

Cells == [req : Requests, part : RequestParts \cup ResponseParts] \cup {Nul}

\* The type invariant; len never leaves the buffer, though recv_tcp's -1 is added
\* to it.
TypeOK ==
  /\ setting \in Settings
  /\ client \in Requests \cup {NoReq}
  /\ stream \in Seq(Cells)
  /\ buf \in [Index -> Cells]
  /\ len \in 0 .. MAXBUF
  /\ pc \in {"recv", "send", "spin"}
  /\ wire \in Seq(Cells)
  /\ answer \in [to : Requests \cup {NoReq}, cells : Seq(Cells)]
  /\ handled \in Seq(Cells)

\* Whatever is left in the buffer from earlier requests and however a request is
\* cut into reads, what dumpHttpResponse works on is one whole request as a client
\* sent it, never parts of two, while recv does not fail.
HandledWhole ==
  (handled # << >> /\ "recv" \notin setting.failures) =>
    \E r \in Requests : handled = CellsOf(r)

\* Clients wait for their responses, or have a connection of their own, and nothing
\* that they send is lost on the way.
Orderly ==
  /\ setting.failures \cap {"recv", "hangup"} = {}
  /\ "impatient" \in setting.failures => setting.transport = "wifi"

Whole(r) == {Response(r, Short), Response(r, Long)}

\* A client is given nothing but bytes of the response to its own request, though
\* one buffer holds all requests and all responses.  What starts as a response is
\* whole and comes once, unless it was too long for the driver of the serial line
\* to take at once.  (What does not start as one is what an importKey without JSON
\* is answered with.)
ResponseOwn ==
  (answer.to # NoReq /\ Orderly) =>
    /\ answer.cells # << >>
    /\ \A i \in DOMAIN answer.cells : answer.cells[i].req = answer.to
    /\ /\ answer.cells[1].part = "status"
       /\ setting.transport = "uart" => Len(answer.cells) <= Fifo
       => answer.cells \in Whole(answer.to)

\* Not so: "unless it was too long", and an importKey whose body is not JSON.
ResponseIntact ==
  (answer.to # NoReq /\ Orderly) => answer.cells \in Whole(answer.to)

\* The head of r is read before parseRequest gives it up, and the driver takes each
\* of its responses at once.
Fits(r) ==
  /\ \E e \in 1 .. Limit : e <= Len(Form[r].parts) /\ Form[r].parts[e] = "end"
  /\ (setting.transport = "uart" /\ Form[r].kind = "getKeys") => Len(Long) <= Fifo

\* A client that waits while its whole request is to be read and the board has
\* nothing left of earlier ones gets a response, whatever those have left behind len
\* in the buffer and however the request is cut into reads.
AnsweredWhenClear ==
  (/\ client # NoReq /\ Fits(client)
   /\ pc = "recv" /\ len = 0 /\ stream = CellsOf(client)
   /\ setting.failures \subseteq {"impatient", "body"})
    ~> (client = NoReq)

\* "The remote signer listen for HTTP requests over a serial port, process them and
\* sends the response over serial too": when nothing fails a client that waits gets
\* a response.
Answered == (client # NoReq /\ setting.failures = {}) ~> (client = NoReq)
=============================================================================
