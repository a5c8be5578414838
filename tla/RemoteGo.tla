------------------------------ MODULE RemoteGo ------------------------------
(***************************************************************************)
(* cli/remote-go/main.go: an HTTP server on the host that imports a key    *)
(* into the board at its start and then turns every request into commands  *)
(* of the board's shell.  Every handler opens the serial port itself,      *)
(* switches echo off, sends its command, scans the lines that come back    *)
(* for one it knows, switches echo on and closes the port.  Nothing keeps  *)
(* two handlers apart.                                                     *)
(*                                                                         *)
(* The board is a queue of commands and the lines it prints for each; it   *)
(* is external here (module Shell models it).  A line is the part of it    *)
(* that the handlers look for, and the client it was printed for.  Lines   *)
(* arrive whole, and are lost when nobody has the port open.  A scanner    *)
(* takes some of those that have arrived and looks at them one by one.     *)
(***************************************************************************)
EXTENDS Integers, Sequences

CONSTANTS
  Clients,      \* who sends requests, one after the other
  Main,         \* the start of the server
  MaxDisturbed, \* bound: how often a handler is disturbed while requests overlap
  MaxWaiting,   \* bound: commands and lines that wait when a handler opens the port
  Settings      \* firmware of the board, and what may happen

Circumstances ==
  {"prints_key",   \* import prints the public key, as its comment and cli/README.md say
   "overlap",      \* a request is sent while another one is handled
   "serial"}       \* opening the port, writing to it or reading from it fails

ASSUME RemoteGoAssumption ==
  /\ Main \notin Clients
  /\ MaxDisturbed \in Nat \ {0} /\ MaxWaiting \in Nat \ {0}
  /\ Settings \subseteq SUBSET Circumstances

VARIABLES
  setting,   \* what holds in this behaviour
  server,    \* "start", "import", "serving", "failed" or "dead"
  st,        \* per client, its handler: "idle", "open" or "scan"
  req,       \* per client, what the request that is handled asks for
  kept,      \* per client, the lines its handler has kept
  scanned,   \* per user of the port, the lines in the buffer of its scanner
  disturbed, \* history: per client, how often its handler was disturbed
  answer,    \* the last response: its client, request, status and lines, and "alone"
  port,      \* who has the serial port open
  cmds,      \* commands that wait in the board
  echo,      \* the board's shell echoes what it is sent
  lines      \* lines that nobody has read

handlers == <<st, req, kept, scanned, disturbed, answer>>
board == <<cmds, echo, lines>>
vars == <<setting, server, handlers, port, board>>

\* Sign requests by what becomes of them: the type is not supported or its root
\* cannot be computed; the key is stored, is not stored, has the wrong length, has
\* other characters than hexadecimal digits.
SignKinds == {"unsupported", "stored", "unknown", "length", "characters"}
Kinds == SignKinds \cup {"keys", "upcheck", "method", "path"}

Users == Clients \cup {Main}

Line(text, of) == [text |-> text, of |-> of]
\* The text of a signature command is what its key is.
Command(text, of) == [text |-> text, of |-> of]
Response(c, kind, status, ls, own) ==
  [of |-> c, kind |-> kind, status |-> status, lines |-> ls, alone |-> own]

Init ==
  /\ setting \in Settings
  /\ server = "start"
  /\ st = [c \in Clients |-> "idle"]
  /\ req = [c \in Clients |-> "upcheck"]
  /\ kept = [c \in Clients |-> << >>]
  /\ scanned = [u \in Users |-> << >>]
  /\ disturbed = [c \in Clients |-> 0]
  /\ answer = Response(Main, "upcheck", 0, << >>, TRUE)
  /\ port = {} /\ cmds = << >> /\ echo = TRUE /\ lines = << >>

-----------------------------------------------------------------------------
(***************************************************************************)
(* The board: what it prints for a command.                                *)
(***************************************************************************)
SignLines(kind) ==
  CASE kind = "stored"     -> <<"Signature:", "0x">>
    [] kind = "unknown"    -> <<"stored">>
    [] kind = "length"     -> <<"Incorrect">>
    [] kind = "characters" -> <<"characters">>
    [] OTHER               -> << >>

\* The import of this repository prints nothing for a key that it stores or that it
\* finds stored; the documented one prints the key, and "already" is what main.go
\* knows a stored one by.  Both refuse when the keystore is full or the key has not
\* 32 bytes.
ImportLines ==
  {<<"reached">>, <<"Incorrect">>} \cup
  IF "prints_key" \in setting THEN {<<"0x">>, <<"already">>} ELSE {<< >>}

Printed(command) ==
  CASE command.text = "import"    -> ImportLines
    [] command.text \in SignKinds -> {SignLines(command.text)}
    [] command.text = "getkeys"   -> {<<"keys {", "keys }">>}
    [] OTHER                      -> {<< >>}

\* The echo of a signature command holds the "0x" of its signing root.
Echoed(command) ==
  IF ~echo THEN << >>
  ELSE IF command.text \in SignKinds THEN <<"echo 0x">> ELSE <<"echo">>

Board ==
  /\ cmds # << >>
  /\ cmds' = Tail(cmds)
  /\ echo' = CASE Head(cmds).text = "echo off" -> FALSE
               [] Head(cmds).text = "echo on"  -> TRUE
               [] OTHER -> echo
  /\ \E texts \in Printed(Head(cmds)) :
       LET all == Echoed(Head(cmds)) \o texts
       IN  lines' = IF port = {} THEN << >>
                    ELSE lines \o [i \in DOMAIN all |-> Line(all[i], Head(cmds).of)]
  /\ UNCHANGED <<setting, server, handlers, port>>

-----------------------------------------------------------------------------
(***************************************************************************)
(* Reading: a scanner with an empty buffer takes the first n lines, of     *)
(* those that have arrived; what it does not need is lost with it.         *)
(***************************************************************************)
Success(kind) ==
  CASE kind = "import" -> {"0x", "already"}
    [] kind = "keys"   -> {"keys }", "stored"}
    [] OTHER           -> {"0x", "echo 0x"}

\* Faulty variant: signHandler knows only one of the two refusals.
RefusalStored(kind) ==
  CASE kind = "import" -> {"Incorrect", "reached"}
    [] kind = "keys"   -> {}
    [] OTHER           -> {"stored"}

Refusal(kind) ==
  CASE kind = "import" -> {"Incorrect", "reached"}
    [] kind = "keys"   -> {}
    [] OTHER           -> {"stored", "Incorrect"}

Ends(kind, text) == text \in Success(kind) \cup Refusal(kind)

Scanning(u) ==
  \/ u = Main /\ server = "import"
  \/ u \in Clients /\ server = "serving" /\ st[u] = "scan"

ReadPort(u) ==
  /\ Scanning(u) /\ scanned[u] = << >>
  /\ \E n \in 1 .. Len(lines) :
       /\ scanned' = [scanned EXCEPT ![u] = SubSeq(lines, 1, n)]
       /\ lines' = SubSeq(lines, n + 1, Len(lines))
  /\ UNCHANGED <<setting, server, st, req, kept, disturbed, answer, port, cmds, echo>>

NextLine(u) == Head(scanned[u]).text
Advance(u) == scanned' = [scanned EXCEPT ![u] = Tail(@)]

\* The port is closed, and its scanner gone; nothing is left on a port that nobody
\* has open.
CloseBy(who) ==
  /\ port' = port \ {who}
  /\ scanned' = [scanned EXCEPT ![who] = << >>]
  /\ lines' = IF port' = {} THEN << >> ELSE lines

\* Faulty variant: the echo stays on.
EchoLeftOn(who) == cmds
EchoOff(who) == Append(cmds, Command("echo off", who))

EchoOn(who) == Append(cmds, Command("echo on", who))

-----------------------------------------------------------------------------
(***************************************************************************)
(* main: decrypt the keystore, import its key, start the server.           *)
(***************************************************************************)
StartUp ==
  /\ server = "start"
  /\ \/ /\ server' = "failed"
        /\ UNCHANGED <<port, cmds>>
     \/ /\ server' = "import"
        /\ port' = port \cup {Main}
        /\ cmds' = Append(EchoOff(Main), Command("import", Main))
  /\ UNCHANGED <<setting, handlers, echo, lines>>

ScanImport ==
  /\ server = "import" /\ scanned[Main] # << >>
  /\ \/ /\ ~Ends("import", NextLine(Main))
        /\ Advance(Main)
        /\ UNCHANGED <<server, port, cmds, lines>>
     \/ /\ Ends("import", NextLine(Main))
        /\ server' = IF NextLine(Main) \in Success("import") THEN "serving" ELSE "failed"
        /\ CloseBy(Main)
        /\ cmds' = EchoOn(Main)
  /\ UNCHANGED <<setting, st, req, kept, disturbed, answer, echo>>

\* A scanner comes to its end, with an error or the end of the file, when a read
\* fails; the lines it had are used up.
ReadFails(u) == "serial" \in setting /\ Scanning(u) /\ scanned[u] = << >>

ImportScanFails ==
  /\ ReadFails(Main)
  /\ server' = "failed"
  /\ CloseBy(Main)
  /\ cmds' = EchoOn(Main)
  /\ UNCHANGED <<setting, st, req, kept, disturbed, answer, echo>>

-----------------------------------------------------------------------------
(***************************************************************************)
(* The handlers.                                                           *)
(***************************************************************************)
MaySend(c) ==
  /\ server = "serving" /\ st[c] = "idle"
  /\ \/ \A d \in Clients : st[d] = "idle"
     \/ "overlap" \in setting /\ \A d \in Clients : disturbed[d] < MaxDisturbed

\* Nobody has the port, and echo is on or about to be: all that a handler which had
\* the board to itself leaves behind.
Settled ==
  /\ port = {}
  /\ \/ cmds = << >> /\ echo
     \/ ~echo /\ \E u \in Users : cmds = <<Command("echo on", u)>>

\* History: a handler that opens the port disturbs those at work.
Opens(c) ==
  disturbed' = [d \in Clients |-> IF d = c THEN IF Settled THEN 0 ELSE 1
                                 ELSE IF st[d] = "idle" THEN 0 ELSE disturbed[d] + 1]

\* Requests that never reach the board: upcheckHandler, badReqHandler, a wrong method,
\* and getSigningRoot with an error.
AnswerAtOnce(c, kind) ==
  /\ MaySend(c)
  /\ kind \in {"upcheck", "method", "path", "unsupported"}
  /\ answer' = Response(c, kind, CASE kind = "upcheck" -> 200
                                   [] kind = "method"  -> 405
                                   [] kind = "path"    -> 400
                                   [] OTHER            -> 501, << >>, TRUE)
  /\ UNCHANGED <<setting, server, st, req, kept, scanned, disturbed, port, board>>

\* signHandler up to its first write.
OpenSign(c, kind) ==
  /\ MaySend(c) /\ kind \in SignKinds \ {"unsupported"}
  /\ Len(cmds) + Len(lines) < MaxWaiting
  /\ req' = [req EXCEPT ![c] = kind]
  /\ st' = [st EXCEPT ![c] = "open"]
  /\ port' = port \cup {c}
  /\ cmds' = EchoOff(c)
  /\ Opens(c)
  /\ UNCHANGED <<setting, server, kept, scanned, answer, echo, lines>>

SendSign(c) ==
  /\ server = "serving" /\ st[c] = "open"
  /\ st' = [st EXCEPT ![c] = "scan"]
  /\ cmds' = Append(cmds, Command(req[c], c))
  /\ UNCHANGED <<setting, server, req, kept, scanned, disturbed, answer, port, echo, lines>>

\* publicKeysHandler sends its three lines with one write.
SendGetKeys(c) ==
  /\ MaySend(c)
  /\ Len(cmds) + Len(lines) < MaxWaiting
  /\ req' = [req EXCEPT ![c] = "keys"]
  /\ st' = [st EXCEPT ![c] = "scan"]
  /\ port' = port \cup {c}
  /\ cmds' = Append(EchoOff(c), Command("getkeys", c))
  /\ Opens(c)
  /\ UNCHANGED <<setting, server, kept, scanned, answer, echo, lines>>

\* What the handler has of its response when it has looked at the next line: every
\* line with a quotation mark, or the signature.
Kept(c) ==
  IF \/ req[c] = "keys" /\ NextLine(c) \in {"keys {", "keys }"}
     \/ req[c] # "keys" /\ NextLine(c) \in Success(req[c])
    THEN Append(kept[c], Head(scanned[c]))
    ELSE kept[c]

ScanOn(c) ==
  /\ Scanning(c) /\ scanned[c] # << >>
  /\ ~Ends(req[c], NextLine(c))
  /\ kept' = [kept EXCEPT ![c] = Kept(c)]
  /\ Advance(c)
  /\ UNCHANGED <<setting, server, st, req, disturbed, answer, port, board>>

Alone(c) == disturbed[c] = 0

\* A handler sends its response, switches echo on and closes the port.
Finish(c, status, ls, own) ==
  /\ answer' = Response(c, req[c], status, ls, own)
  /\ CloseBy(c)
  /\ kept' = [kept EXCEPT ![c] = << >>]
  /\ st' = [st EXCEPT ![c] = "idle"]
  /\ req' = [req EXCEPT ![c] = "upcheck"]
  /\ disturbed' = [disturbed EXCEPT ![c] = 0]
  /\ cmds' = EchoOn(c)
  /\ UNCHANGED <<setting, server, echo>>

ScanEnds(c) ==
  /\ Scanning(c) /\ scanned[c] # << >>
  /\ Ends(req[c], NextLine(c))
  /\ Finish(c, IF NextLine(c) \in Success(req[c]) THEN 200 ELSE 404, Kept(c), Alone(c))

\* The handlers do not ask why their scanner ended: the list of keys is sent as far
\* as it came, and a signature that did not come is a key that was not found.
ScanFails(c) ==
  /\ ReadFails(c)
  /\ Finish(c, IF req[c] = "keys" THEN 200 ELSE 404, kept[c], FALSE)

\* log.Fatal: every handler ends with the process.
SerialFails ==
  /\ "serial" \in setting
  /\ server \in {"import", "serving"} /\ port # {}
  /\ server' = "dead"
  /\ port' = {} /\ lines' = << >>
  /\ UNCHANGED <<setting, handlers, cmds, echo>>

Handler(c) ==
  \/ \E kind \in Kinds : AnswerAtOnce(c, kind) \/ OpenSign(c, kind)
  \/ SendSign(c) \/ SendGetKeys(c) \/ ReadPort(c) \/ ScanOn(c) \/ ScanEnds(c)
  \/ ScanFails(c)

Next ==
  \/ Board \/ StartUp \/ ReadPort(Main) \/ ScanImport \/ ImportScanFails \/ SerialFails
  \/ \E c \in Clients : Handler(c)

Spec == Init /\ [][Next]_vars

\* The board takes its commands, and the host's goroutines run.
FairSpec ==
  /\ Spec
  /\ WF_vars(Board) /\ WF_vars(StartUp) /\ WF_vars(ReadPort(Main) \/ ScanImport)
  /\ \A c \in Clients : WF_vars(SendSign(c) \/ ReadPort(c) \/ ScanOn(c) \/ ScanEnds(c))

-----------------------------------------------------------------------------
\* A response made of the lines that the board printed for its request: a signature
\* of this request, 404 only when there is none, the whole list of keys.
Fits(c, kind, status, ls) ==
  /\ (kind \in SignKinds /\ status = 200) => kind = "stored" /\ ls = <<Line("0x", c)>>
  /\ status = 404 => kind \in {"unknown", "length"}
  /\ kind = "keys" => ls = <<Line("keys {", c), Line("keys }", c)>>

\* A response is made of the lines that the board printed for its request and of no
\* others, whatever the board still had to do for the handler before, when no other
\* handler opened the port in the meantime, its scanner did not fail, and nothing
\* was left of handlers that overlapped or failed before.  Nothing keeps a
\* handler from the lines, or the echo, of another, and after a failed scan the
\* board may still print for the handler that gave up.
ResponseFits ==
  answer.alone => Fits(answer.of, answer.kind, answer.status, answer.lines)

\* The start-up ends, with a server or with an error: "Key imported" (README.MD:12)
\* or "Failed importing key".  Not so with this repository's firmware, whose import
\* prints neither the key nor that it is stored: main.go waits for ever.
StartUpEnds == server = "import" ~> server # "import"

\* The board has refused a public key for its characters, in words that signHandler
\* does not know, and nothing else is to come.
Unheard(c) ==
  /\ st[c] = "scan" /\ req[c] = "characters"
  /\ scanned[c] = << >> /\ lines = << >> /\ cmds = << >>

\* A handler ends, or the server with it, unless another one is in its way, or the
\* board's answer is the one it does not know: then it waits for ever.
HandlersEnd ==
  \A c \in Clients :
    st[c] # "idle" ~> (st[c] = "idle" \/ server = "dead" \/ ~Alone(c) \/ Unheard(c))
=============================================================================
