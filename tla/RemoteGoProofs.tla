--------------------------- MODULE RemoteGoProofs ---------------------------
(***************************************************************************)
(* Proofs about RemoteGo: a handler that nobody disturbs gets the lines    *)
(* that the board printed for it, whatever went wrong before, with any     *)
(* number of clients, of overlapping requests and of failures.             *)
(***************************************************************************)
EXTENDS RemoteGo, SequenceTheorems, TLAPS

Texts ==
  {"echo", "echo 0x", "Signature:", "0x", "stored", "Incorrect", "characters",
   "reached", "already", "keys {", "keys }"}
PortLines == [text : Texts, of : Users]

CommandTexts == Kinds \cup {"import", "getkeys", "echo on", "echo off"}
Commands == [text : CommandTexts, of : Users]

\* What the scanner of u and the port hold for it, in order.
Unread(u) == scanned[u] \o lines

GoTypeOK ==
  /\ st \in [Clients -> {"idle", "open", "scan"}]
  /\ req \in [Clients -> Kinds]
  /\ kept \in [Clients -> Seq(PortLines)]
  /\ scanned \in [Users -> Seq(PortLines)]
  /\ disturbed \in [Clients -> Nat]
  /\ answer \in [of : Users, kind : Kinds, status : Nat, lines : Seq(PortLines),
                 alone : BOOLEAN]
  /\ port \in SUBSET Users
  /\ cmds \in Seq(Commands)
  /\ echo \in BOOLEAN
  /\ lines \in Seq(PortLines)

On(u) == Command("echo on", u)
Off(u) == Command("echo off", u)
EchoLine(u) == Line("echo", u)

(***************************************************************************)
(* The board has not come to the command of u yet; rest is that command    *)
(* when it was sent.  The board still may have to switch echo on for the   *)
(* user before, and then off for u.                                        *)
(***************************************************************************)
Before(u, rest) ==
  \/ /\ Unread(u) = << >> /\ ~echo
     /\ \E v \in Users : cmds = <<On(v), Off(u)>> \o rest
  \/ Unread(u) = << >> /\ echo /\ cmds = <<Off(u)>> \o rest
  \/ Unread(u) \in {<< >>, <<EchoLine(u)>>} /\ ~echo /\ cmds = rest

(***************************************************************************)
(* The board has answered: what its answer leaves to read.                 *)
(***************************************************************************)
FirstKeys(u) == Line("keys {", u)
LastKeys(u) == Line("keys }", u)

KeysLeft(c) ==
  \/ kept[c] = << >> /\ Unread(c) \in {<<EchoLine(c), FirstKeys(c), LastKeys(c)>>,
                                       <<FirstKeys(c), LastKeys(c)>>}
  \/ kept[c] = <<FirstKeys(c)>> /\ Unread(c) = <<LastKeys(c)>>

SignTexts(kind) ==
  {"echo"} \cup CASE kind = "stored"     -> {"Signature:", "0x"}
                  [] kind = "unknown"    -> {"stored"}
                  [] kind = "length"     -> {"Incorrect"}
                  [] kind = "characters" -> {"characters"}
                  [] OTHER               -> {}

SignLeft(c) ==
  /\ kept[c] = << >>
  /\ \A i \in 1 .. Len(Unread(c)) :
       Unread(c)[i] \in {Line(t, c) : t \in SignTexts(req[c])}

Asked(c) == IF req[c] = "keys" THEN "getkeys" ELSE req[c]

ActiveInv(c) ==
  /\ port = {c}
  /\ req[c] \in (SignKinds \ {"unsupported"}) \cup {"keys"}
  /\ \A d \in Clients \ {c} : st[d] = "idle"
  /\ \/ /\ st[c] = "open" /\ req[c] # "keys"
        /\ kept[c] = << >> /\ scanned[c] = << >>
        /\ Before(c, << >>)
     \/ /\ st[c] = "scan" /\ kept[c] = << >>
        /\ Before(c, <<Command(Asked(c), c)>>)
     \/ /\ st[c] = "scan" /\ cmds = << >> /\ ~echo
        /\ IF req[c] = "keys" THEN KeysLeft(c) ELSE SignLeft(c)

\* The port of a handler at work is open, and nothing is left of the others.
IdleInv ==
  /\ scanned[Main] = << >>
  /\ port = {} => lines = << >>
  /\ \A c \in Clients : st[c] # "idle" => c \in port
  /\ \A c \in Clients : st[c] = "idle" => kept[c] = << >> /\ scanned[c] = << >>

AloneInv == \A c \in Clients : st[c] # "idle" /\ Alone(c) => ActiveInv(c)

\* The inductive invariant: what a handler that was not disturbed may count on.
GoInv ==
  /\ ResponseFits
  /\ server \in {"start", "import"} =>
       \A c \in Clients : st[c] = "idle" /\ kept[c] = << >> /\ scanned[c] = << >>
  /\ server = "serving" => IdleInv /\ AloneInv

UndisturbedInv == GoTypeOK /\ GoInv

-----------------------------------------------------------------------------
(***************************************************************************)
(* Sequences.                                                              *)
(***************************************************************************)
\* The first element of a sequence is the first of whatever it begins.
LEMMA HeadTailConcat ==
  ASSUME NEW S, NEW s \in Seq(S), NEW t \in Seq(S), s # << >>
  PROVE  /\ Head(s \o t) = Head(s)
         /\ Tail(s \o t) = Tail(s) \o t
         /\ s \o t # << >>
<1> DEFINE u == Tail(s \o t)
           w == Tail(s) \o t
<1>1. /\ s \o t \in Seq(S) /\ Len(s \o t) = Len(s) + Len(t)
      /\ \A i \in 1 .. Len(s) + Len(t) :
           (s \o t)[i] = IF i <= Len(s) THEN s[i] ELSE t[i - Len(s)]
  BY ConcatProperties
<1>2. Len(s) \in Nat \ {0} /\ Len(t) \in Nat
  BY EmptySeq, LenProperties
<1>3. s \o t # << >>
  BY <1>1, <1>2, EmptySeq
<1>4. /\ Tail(s) \in Seq(S) /\ Len(Tail(s)) = Len(s) - 1
      /\ \A i \in 1 .. Len(Tail(s)) : Tail(s)[i] = s[i + 1]
  BY HeadTailProperties
<1>5. /\ u \in Seq(S) /\ Len(u) = Len(s) + Len(t) - 1
      /\ \A i \in 1 .. Len(u) : u[i] = (s \o t)[i + 1]
  BY <1>1, <1>3, HeadTailProperties
<1>6. /\ w \in Seq(S) /\ Len(w) = Len(s) - 1 + Len(t)
      /\ \A i \in 1 .. Len(s) - 1 + Len(t) :
           w[i] = IF i <= Len(s) - 1 THEN Tail(s)[i] ELSE t[i - (Len(s) - 1)]
  BY <1>4, ConcatProperties
<1> HIDE DEF u, w
<1>7. ASSUME NEW i \in 1 .. Len(u)
      PROVE  u[i] = w[i]
  <2>1. u[i] = IF i + 1 <= Len(s) THEN s[i + 1] ELSE t[(i + 1) - Len(s)]
    BY <1>1, <1>2, <1>5
  <2>2. w[i] = IF i <= Len(s) - 1 THEN s[i + 1] ELSE t[i - (Len(s) - 1)]
    BY <1>2, <1>4, <1>5, <1>6
  <2>3. (i + 1 <= Len(s) <=> i <= Len(s) - 1) /\ (i + 1) - Len(s) = i - (Len(s) - 1)
    BY <1>2, <1>5
  <2>4. QED
    BY <2>1, <2>2, <2>3
<1>8. u = w
  <2>1. Len(u) = Len(w)
    BY <1>2, <1>5, <1>6
  <2>2. QED
    BY <1>5, <1>6, <1>7, <2>1, SeqEqual
<1>9. Head(s \o t) = Head(s)
  <2>1. (s \o t)[1] = s[1]
    BY <1>1, <1>2
  <2>2. QED
    BY <1>1, <1>2, <1>3, <2>1
<1>10. QED
  BY <1>3, <1>8, <1>9 DEF u, w

\* What one takes from the front of a sequence and what one leaves make up all of it.
LEMMA SplitSeq ==
  ASSUME NEW S, NEW s \in Seq(S), NEW n \in 1 .. Len(s)
  PROVE  /\ SubSeq(s, 1, n) \in Seq(S) /\ SubSeq(s, n + 1, Len(s)) \in Seq(S)
         /\ SubSeq(s, 1, n) \o SubSeq(s, n + 1, Len(s)) = s
<1>1. Len(s) \in Nat /\ \A i \in 1 .. Len(s) : s[i] \in S
  BY LenProperties, ElementOfSeq
<1>2. SubSeq(s, 1, n) \in Seq(S)
  <2>1. \A i \in 1 .. n : s[i] \in S
    BY <1>1
  <2>2. QED
    BY <2>1, SubSeqProperties
<1>3. SubSeq(s, n + 1, Len(s)) \in Seq(S)
  <2>1. \A i \in n + 1 .. Len(s) : s[i] \in S
    BY <1>1
  <2>2. n + 1 \in Int /\ Len(s) \in Int
    BY <1>1
  <2>3. QED
    BY <2>1, <2>2, SubSeqProperties
<1>4. SubSeq(s, 1, n) \o SubSeq(s, n + 1, Len(s)) = SubSeq(s, 1, Len(s))
  <2>1. 1 \in 1 .. Len(s) + 1 /\ n \in 1 - 1 .. Len(s) /\ Len(s) \in n .. Len(s)
    BY <1>1
  <2>2. QED
    BY <2>1, ConcatAdjacentSubSeq
<1>5. QED
  BY <1>2, <1>3, <1>4, SubSeqFull

LEMMA AppendPair ==
  ASSUME NEW S, NEW a \in S, NEW b \in S
  PROVE  Append(<<a>>, b) = <<a, b>>
<1>1. /\ <<a>> \in Seq(S) /\ Len(<<a>>) = 1 /\ <<a>>[1] = a
      /\ <<a, b>> \in Seq(S) /\ Len(<<a, b>>) = 2
      /\ <<a, b>>[1] = a /\ <<a, b>>[2] = b
  OBVIOUS
<1> DEFINE s == Append(<<a>>, b)
<1>2. /\ s \in Seq(S) /\ Len(s) = Len(<<a>>) + 1
      /\ \A i \in 1 .. Len(<<a>>) : s[i] = <<a>>[i]
      /\ s[Len(<<a>>) + 1] = b
  BY <1>1, AppendProperties
<1> HIDE DEF s
<1>3. Len(s) = 2 /\ s[1] = a /\ s[2] = b
  BY <1>1, <1>2
<1>4. \A i \in 1 .. Len(s) : s[i] = <<a, b>>[i]
  BY <1>1, <1>3
<1>5. s = <<a, b>>
  BY <1>1, <1>2, <1>3, <1>4, SeqEqual
<1>6. QED
  BY <1>5 DEF s

LEMMA ConcatTriple ==
  ASSUME NEW S, NEW a \in S, NEW b \in S, NEW d \in S
  PROVE  <<a>> \o <<b, d>> = <<a, b, d>>
<1>1. /\ <<a>> \in Seq(S) /\ Len(<<a>>) = 1 /\ <<a>>[1] = a
      /\ <<b, d>> \in Seq(S) /\ Len(<<b, d>>) = 2
      /\ <<b, d>>[1] = b /\ <<b, d>>[2] = d
      /\ <<a, b, d>> \in Seq(S) /\ Len(<<a, b, d>>) = 3
      /\ <<a, b, d>>[1] = a /\ <<a, b, d>>[2] = b /\ <<a, b, d>>[3] = d
  OBVIOUS
<1>2. PICK p, q, r : p = <<a>> /\ q = <<b, d>> /\ r = <<a, b, d>>
  OBVIOUS
<1> DEFINE s == p \o q
<1>3. /\ s \in Seq(S) /\ Len(s) = Len(p) + Len(q)
      /\ \A i \in 1 .. Len(p) + Len(q) : s[i] = IF i <= Len(p) THEN p[i] ELSE q[i - Len(p)]
  BY <1>1, <1>2, ConcatProperties
<1> HIDE DEF s
<1>4. Len(s) = 3 /\ s[1] = a /\ s[2] = b /\ s[3] = d
  BY <1>1, <1>2, <1>3
<1>5. \A i \in 1 .. Len(s) : s[i] = r[i]
  BY <1>1, <1>2, <1>4
<1>6. s = r
  BY <1>1, <1>2, <1>3, <1>4, <1>5, SeqEqual
<1>7. QED
  BY <1>2, <1>6 DEF s

\* The commands that wait, one by one.
LEMMA CommandQueue ==
  ASSUME NEW a \in Commands, NEW b \in Commands, NEW rest \in Seq(Commands)
  PROVE  /\ <<a>> \o rest \in Seq(Commands) /\ <<a, b>> \o rest \in Seq(Commands)
         /\ <<a>> \o rest # << >> /\ <<a, b>> \o rest # << >>
         /\ Head(<<a>> \o rest) = a /\ Tail(<<a>> \o rest) = rest
         /\ Head(<<a, b>> \o rest) = a /\ Tail(<<a, b>> \o rest) = <<b>> \o rest
<1>1. /\ <<a>> \in Seq(Commands) /\ <<a, b>> \in Seq(Commands)
      /\ <<a>> # << >> /\ <<a, b>> # << >>
      /\ Head(<<a>>) = a /\ Tail(<<a>>) = << >>
      /\ Head(<<a, b>>) = a /\ Tail(<<a, b>>) = <<b>>
  OBVIOUS
<1>2. << >> \o rest = rest
  BY ConcatEmptySeq
<1>3. /\ Head(<<a>> \o rest) = a /\ Tail(<<a>> \o rest) = rest /\ <<a>> \o rest # << >>
  BY <1>1, <1>2, HeadTailConcat
<1>4. /\ Head(<<a, b>> \o rest) = a /\ Tail(<<a, b>> \o rest) = <<b>> \o rest
      /\ <<a, b>> \o rest # << >>
  BY <1>1, HeadTailConcat
<1>5. QED
  BY <1>1, <1>3, <1>4, ConcatProperties

-----------------------------------------------------------------------------
(***************************************************************************)
(* What the board prints.                                                  *)
(***************************************************************************)
LinesFor(texts, u) == [i \in DOMAIN texts |-> Line(texts[i], u)]

LEMMA LinesForFacts ==
  ASSUME NEW texts \in Seq(Texts), NEW u \in Users
  PROVE  /\ LinesFor(texts, u) \in Seq(PortLines)
         /\ Len(LinesFor(texts, u)) = Len(texts)
         /\ \A i \in 1 .. Len(texts) : LinesFor(texts, u)[i] = Line(texts[i], u)
<1> DEFINE new == LinesFor(texts, u)
<1>1. Len(texts) \in Nat /\ DOMAIN texts = 1 .. Len(texts)
      /\ \A i \in 1 .. Len(texts) : texts[i] \in Texts
  BY LenProperties, ElementOfSeq
<1>2. \A i \in 1 .. Len(texts) : Line(texts[i], u) \in PortLines
  BY <1>1 DEF Line, PortLines
<1>3. new = [i \in 1 .. Len(texts) |-> Line(texts[i], u)]
  BY <1>1 DEF LinesFor
<1>4. new \in [1 .. Len(texts) -> PortLines]
  BY <1>2, <1>3
<1>5. new \in Seq(PortLines) /\ Len(new) = Len(texts)
  BY <1>1, <1>4
<1>6. QED
  BY <1>3, <1>5

LEMMA PrintedTexts ==
  ASSUME NEW command
  PROVE  /\ Echoed(command) \in Seq(Texts)
         /\ \A texts \in Printed(command) : texts \in Seq(Texts)
<1>1. /\ << >> \in Seq(Texts) /\ <<"echo">> \in Seq(Texts) /\ <<"echo 0x">> \in Seq(Texts)
      /\ <<"Signature:", "0x">> \in Seq(Texts) /\ <<"stored">> \in Seq(Texts)
      /\ <<"Incorrect">> \in Seq(Texts) /\ <<"characters">> \in Seq(Texts)
      /\ <<"reached">> \in Seq(Texts) /\ <<"0x">> \in Seq(Texts)
      /\ <<"already">> \in Seq(Texts) /\ <<"keys {", "keys }">> \in Seq(Texts)
  BY DEF Texts
<1>2. Echoed(command) \in Seq(Texts)
  BY <1>1 DEF Echoed
<1>3. \A kind : SignLines(kind) \in Seq(Texts)
  BY <1>1 DEF SignLines
<1>4. ImportLines \subseteq Seq(Texts)
  BY <1>1 DEF ImportLines
<1>5. \A texts \in Printed(command) : texts \in Seq(Texts)
  <2>1. CASE command.text = "import"
    BY <1>4, <2>1 DEF Printed, SignKinds
  <2>2. CASE command.text # "import" /\ command.text \in SignKinds
    BY <1>3, <2>2 DEF Printed, SignKinds
  <2>3. CASE command.text # "import" /\ command.text \notin SignKinds
    BY <1>1, <2>3 DEF Printed
  <2>4. QED
    BY <2>1, <2>2, <2>3
<1>6. QED
  BY <1>2, <1>5

\* A step of the board prints lines for the user whose command it took.
LEMMA BoardPrints ==
  ASSUME GoTypeOK, Board
  PROVE  /\ cmds # << >> /\ Head(cmds) \in Commands /\ cmds' = Tail(cmds)
         /\ \E texts \in Printed(Head(cmds)) :
              LET all == Echoed(Head(cmds)) \o texts
              IN  /\ all \in Seq(Texts)
                  /\ LinesFor(all, Head(cmds).of) \in Seq(PortLines)
                  /\ lines' = IF port = {} THEN << >>
                              ELSE lines \o LinesFor(all, Head(cmds).of)
<1>1. cmds # << >> /\ Head(cmds) \in Commands /\ cmds' = Tail(cmds)
  BY HeadTailProperties DEF Board, GoTypeOK
<1>2. Head(cmds).of \in Users
  BY <1>1 DEF Commands
<1>3. PICK texts \in Printed(Head(cmds)) :
        lines' = IF port = {} THEN << >>
                 ELSE lines \o LinesFor(Echoed(Head(cmds)) \o texts, Head(cmds).of)
  BY DEF Board, LinesFor
<1>4. Echoed(Head(cmds)) \o texts \in Seq(Texts)
  BY <1>3, PrintedTexts, ConcatProperties
<1>5. LinesFor(Echoed(Head(cmds)) \o texts, Head(cmds).of) \in Seq(PortLines)
  BY <1>2, <1>4, LinesForFacts
<1>6. QED
  BY <1>1, <1>3, <1>4, <1>5

-----------------------------------------------------------------------------
(***************************************************************************)
(* Types.                                                                  *)
(***************************************************************************)
LEMMA CommandsSent ==
  ASSUME GoTypeOK, NEW u \in Users, NEW text \in CommandTexts
  PROVE  /\ EchoOff(u) \in Seq(Commands) /\ EchoOn(u) \in Seq(Commands)
         /\ Append(cmds, Command(text, u)) \in Seq(Commands)
         /\ Append(EchoOff(u), Command(text, u)) \in Seq(Commands)
<1>1. \A t \in CommandTexts : Command(t, u) \in Commands
  BY DEF Command, Commands, CommandTexts
<1>2. \A s \in Seq(Commands), t \in CommandTexts : Append(s, Command(t, u)) \in Seq(Commands)
  BY <1>1
<1>3. {"echo on", "echo off"} \subseteq CommandTexts /\ cmds \in Seq(Commands)
  BY DEF CommandTexts, GoTypeOK
<1>4. QED
  BY <1>2, <1>3 DEF EchoOff, EchoOn

LEMMA ScannedLine ==
  ASSUME GoTypeOK, NEW u \in Users, scanned[u] # << >>
  PROVE  /\ scanned[u] \in Seq(PortLines)
         /\ Head(scanned[u]) \in PortLines /\ Tail(scanned[u]) \in Seq(PortLines)
         /\ NextLine(u) \in Texts
<1>1. scanned[u] \in Seq(PortLines)
  BY DEF GoTypeOK
<1>2. Head(scanned[u]) \in PortLines /\ Tail(scanned[u]) \in Seq(PortLines)
  BY <1>1, HeadTailProperties
<1>3. QED
  BY <1>1, <1>2 DEF NextLine, PortLines

LEMMA KeptLines ==
  ASSUME GoTypeOK, NEW c \in Clients, scanned[c] # << >>
  PROVE  Kept(c) \in Seq(PortLines)
<1>1. kept[c] \in Seq(PortLines)
  BY DEF GoTypeOK
<1>2. Head(scanned[c]) \in PortLines
  BY ScannedLine DEF Users
<1>3. Append(kept[c], Head(scanned[c])) \in Seq(PortLines)
  BY <1>1, <1>2
<1>4. QED
  BY <1>1, <1>3 DEF Kept

\* The status of a response that needs no board.
Plain(kind, status) ==
  status \in {200, 400, 405, 501} /\ (kind = "unsupported" => status = 501)

LEMMA AnswerCodes ==
  ASSUME NEW c \in Clients, NEW kind \in Kinds, AnswerAtOnce(c, kind)
  PROVE  \E status \in Nat :
           answer' = Response(c, kind, status, << >>, TRUE) /\ Plain(kind, status)
<1> DEFINE code == CASE kind = "upcheck" -> 200
                     [] kind = "method"  -> 405
                     [] kind = "path"    -> 400
                     [] OTHER            -> 501
<1>1. Plain(kind, code)
  BY DEF AnswerAtOnce, Plain
<1>2. answer' = Response(c, kind, code, << >>, TRUE)
  BY DEF AnswerAtOnce
<1>3. code \in Nat
  BY <1>1 DEF Plain
<1> HIDE DEF code
<1>4. QED
  BY <1>1, <1>2, <1>3

LEMMA TypeStep == GoTypeOK /\ [Next]_vars => GoTypeOK'
<1> SUFFICES ASSUME GoTypeOK, [Next]_vars
             PROVE  GoTypeOK'
  OBVIOUS
<1>0. /\ Clients \subseteq Users /\ Main \in Users /\ << >> \in Seq(PortLines)
      /\ Kinds \subseteq CommandTexts /\ "import" \in CommandTexts
      /\ "getkeys" \in CommandTexts
  <2>1. Clients \subseteq Users /\ Main \in Users
    BY DEF Users
  <2>2. /\ Kinds \subseteq CommandTexts /\ "import" \in CommandTexts
        /\ "getkeys" \in CommandTexts
    BY Zenon DEF CommandTexts
  <2>3. QED
    BY <2>1, <2>2
<1>1. CASE Board
  <2>0. cmds \in Seq(Commands) /\ lines \in Seq(PortLines)
    BY DEF GoTypeOK
  <2>1. cmds' \in Seq(Commands)
    BY <1>1, <2>0, BoardPrints, HeadTailProperties
  <2>2. lines' \in Seq(PortLines)
    <3>1. PICK new \in Seq(PortLines) : lines' = IF port = {} THEN << >> ELSE lines \o new
      BY <1>1, BoardPrints
    <3>2. QED
      BY <1>0, <2>0, <3>1, ConcatProperties
  <2>3. echo' \in BOOLEAN
    BY <1>1 DEF Board, GoTypeOK
  <2>4. QED
    BY <1>1, <2>1, <2>2, <2>3 DEF Board, GoTypeOK, handlers
<1>2. CASE StartUp
  <2>1. cmds' \in Seq(Commands)
    <3>1. Append(EchoOff(Main), Command("import", Main)) \in Seq(Commands)
      BY <1>0, CommandsSent
    <3>2. cmds \in Seq(Commands)
      BY DEF GoTypeOK
    <3>3. QED
      BY <1>2, <3>1, <3>2 DEF StartUp
  <2>2. port' \in SUBSET Users
    BY <1>0, <1>2 DEF StartUp, GoTypeOK
  <2>3. QED
    BY <1>2, <2>1, <2>2 DEF StartUp, GoTypeOK, handlers
<1>3. ASSUME NEW u \in Users, ReadPort(u)
      PROVE  GoTypeOK'
  <2>1. PICK n \in 1 .. Len(lines) :
          /\ scanned' = [scanned EXCEPT ![u] = SubSeq(lines, 1, n)]
          /\ lines' = SubSeq(lines, n + 1, Len(lines))
    BY <1>3 DEF ReadPort
  <2>2. SubSeq(lines, 1, n) \in Seq(PortLines) /\ lines' \in Seq(PortLines)
    BY <2>1, SplitSeq DEF GoTypeOK
  <2>3. scanned' \in [Users -> Seq(PortLines)]
    BY <2>1, <2>2 DEF GoTypeOK
  <2>4. QED
    BY <1>3, <2>2, <2>3 DEF ReadPort, GoTypeOK
<1>4. ASSUME NEW u \in Users, CloseBy(u)
      PROVE  /\ port' \in SUBSET Users /\ scanned' \in [Users -> Seq(PortLines)]
             /\ lines' \in Seq(PortLines)
  BY <1>0, <1>4 DEF CloseBy, GoTypeOK
<1>5. ASSUME NEW u \in Users, scanned[u] # << >>, Advance(u)
      PROVE  scanned' \in [Users -> Seq(PortLines)]
  <2>1. Tail(scanned[u]) \in Seq(PortLines)
    BY <1>5, ScannedLine
  <2>2. QED
    BY <1>5, <2>1 DEF Advance, GoTypeOK
<1>6. CASE ScanImport
  <2>1. CASE Advance(Main) /\ UNCHANGED <<server, port, cmds, lines>>
    BY <1>0, <1>5, <1>6, <2>1 DEF ScanImport, GoTypeOK
  <2>2. CASE CloseBy(Main) /\ cmds' = EchoOn(Main)
    <3>1. cmds' \in Seq(Commands)
      BY <1>0, <2>2, CommandsSent
    <3>2. QED
      BY <1>0, <1>4, <1>6, <2>2, <3>1 DEF ScanImport, GoTypeOK
  <2>3. QED
    BY <1>6, <2>1, <2>2 DEF ScanImport
<1>7. CASE SerialFails
  BY <1>0, <1>7 DEF SerialFails, GoTypeOK, handlers
<1>7a. CASE ImportScanFails
  <2>1. cmds' \in Seq(Commands)
    BY <1>0, <1>7a, CommandsSent DEF ImportScanFails
  <2>2. QED
    BY <1>0, <1>4, <1>7a, <2>1 DEF ImportScanFails, GoTypeOK
<1>7b. ASSUME NEW c \in Clients, Opens(c)
       PROVE  disturbed' \in [Clients -> Nat]
  <2>1. \A d \in Clients : disturbed[d] \in Nat /\ disturbed[d] + 1 \in Nat
    BY DEF GoTypeOK
  <2>2. QED
    BY <1>7b, <2>1 DEF Opens
<1>8. ASSUME NEW c \in Clients, NEW kind \in Kinds, AnswerAtOnce(c, kind)
      PROVE  GoTypeOK'
  <2>1. PICK status \in Nat : answer' = Response(c, kind, status, << >>, TRUE)
    BY <1>8, AnswerCodes
  <2>2. answer' \in [of : Users, kind : Kinds, status : Nat, lines : Seq(PortLines),
                     alone : BOOLEAN]
    BY <1>0, <2>1 DEF Response
  <2>3. QED
    BY <1>8, <2>2 DEF AnswerAtOnce, GoTypeOK, board
<1>9. ASSUME NEW c \in Clients, NEW kind \in Kinds, OpenSign(c, kind)
      PROVE  GoTypeOK'
  <2>1. cmds' \in Seq(Commands)
    BY <1>0, <1>9, CommandsSent DEF OpenSign
  <2>2. QED
    BY <1>0, <1>7b, <1>9, <2>1 DEF OpenSign, GoTypeOK
<1>10. ASSUME NEW c \in Clients, SendSign(c)
       PROVE  GoTypeOK'
  <2>1. req[c] \in CommandTexts
    BY <1>0 DEF GoTypeOK
  <2>2. cmds' \in Seq(Commands)
    BY <1>0, <1>10, <2>1, CommandsSent DEF SendSign
  <2>3. QED
    BY <1>10, <2>2 DEF SendSign, GoTypeOK
<1>11. ASSUME NEW c \in Clients, SendGetKeys(c)
       PROVE  GoTypeOK'
  <2>1. cmds' \in Seq(Commands)
    BY <1>0, <1>11, CommandsSent DEF SendGetKeys
  <2>2. "keys" \in Kinds
    BY DEF Kinds
  <2>3. QED
    BY <1>0, <1>7b, <1>11, <2>1, <2>2 DEF SendGetKeys, GoTypeOK
<1>12. ASSUME NEW c \in Clients, ScanOn(c)
       PROVE  GoTypeOK'
  <2>1. Kept(c) \in Seq(PortLines)
    BY <1>12, KeptLines DEF ScanOn
  <2>2. scanned' \in [Users -> Seq(PortLines)]
    BY <1>0, <1>5, <1>12 DEF ScanOn
  <2>3. QED
    BY <1>12, <2>1, <2>2 DEF ScanOn, GoTypeOK, board
<1>13. ASSUME NEW c \in Clients, NEW status \in Nat, NEW ls \in Seq(PortLines),
              NEW own \in BOOLEAN, Finish(c, status, ls, own)
       PROVE  GoTypeOK'
  <2>1. req[c] \in Kinds /\ "upcheck" \in Kinds
    BY DEF GoTypeOK, Kinds
  <2>2. answer' \in [of : Users, kind : Kinds, status : Nat, lines : Seq(PortLines),
                     alone : BOOLEAN]
    BY <1>0, <1>13, <2>1 DEF Finish, Response
  <2>3. cmds' \in Seq(Commands)
    BY <1>0, <1>13, CommandsSent DEF Finish
  <2>4. port' \in SUBSET Users /\ scanned' \in [Users -> Seq(PortLines)] /\ lines' \in Seq(PortLines)
    BY <1>0, <1>4, <1>13 DEF Finish
  <2>5. QED
    BY <1>0, <1>13, <2>1, <2>2, <2>3, <2>4 DEF Finish, GoTypeOK
<1>13a. ASSUME NEW c \in Clients, ScanEnds(c)
        PROVE  GoTypeOK'
  <2>1. Kept(c) \in Seq(PortLines)
    BY <1>13a, KeptLines DEF ScanEnds
  <2>2. Alone(c) \in BOOLEAN
    BY DEF Alone
  <2>3. PICK status \in Nat : Finish(c, status, Kept(c), Alone(c))
    BY <1>13a DEF ScanEnds
  <2>4. QED
    BY <1>13, <2>1, <2>2, <2>3
<1>13b. ASSUME NEW c \in Clients, ScanFails(c)
        PROVE  GoTypeOK'
  <2>1. kept[c] \in Seq(PortLines)
    BY DEF GoTypeOK
  <2>2. PICK status \in Nat : Finish(c, status, kept[c], FALSE)
    <3>1. (IF req[c] = "keys" THEN 200 ELSE 404) \in Nat
      OBVIOUS
    <3>2. QED
      BY <1>13b, <3>1, Zenon DEF ScanFails
  <2>3. QED
    BY <1>13, <2>1, <2>2
<1>14. CASE UNCHANGED vars
  BY <1>14 DEF vars, handlers, board, GoTypeOK
<1>15. QED
  BY <1>0, <1>1, <1>2, <1>3, <1>6, <1>7, <1>7a, <1>8, <1>9, <1>10, <1>11, <1>12, <1>13a,
     <1>13b, <1>14
     DEF Next, Handler

-----------------------------------------------------------------------------
(***************************************************************************)
(* What is left to read, and how the steps change it.                      *)
(***************************************************************************)
LEMMA UnreadIsSeq ==
  ASSUME GoTypeOK, NEW u \in Users
  PROVE  /\ scanned[u] \in Seq(PortLines) /\ lines \in Seq(PortLines)
         /\ Unread(u) \in Seq(PortLines)
<1>1. scanned[u] \in Seq(PortLines) /\ lines \in Seq(PortLines)
  BY DEF GoTypeOK
<1>2. QED
  BY <1>1, ConcatProperties DEF Unread

\* Reading from the port takes nothing away and keeps the order.
LEMMA UnreadByRead ==
  ASSUME GoTypeOK, NEW u \in Users, ReadPort(u)
  PROVE  Unread(u)' = Unread(u)
<1>1. PICK n \in 1 .. Len(lines) :
        /\ scanned' = [scanned EXCEPT ![u] = SubSeq(lines, 1, n)]
        /\ lines' = SubSeq(lines, n + 1, Len(lines))
  BY DEF ReadPort
<1>2. scanned[u] = << >> /\ scanned'[u] = SubSeq(lines, 1, n)
  BY <1>1 DEF ReadPort, GoTypeOK
<1>3. scanned'[u] \o lines' = lines
  BY <1>1, <1>2, UnreadIsSeq, SplitSeq
<1>4. << >> \o lines = lines
  BY UnreadIsSeq, ConcatEmptySeq
<1>5. QED
  BY <1>2, <1>3, <1>4 DEF Unread

LEMMA UnreadFirst ==
  ASSUME GoTypeOK, NEW u \in Users, scanned[u] # << >>
  PROVE  /\ Unread(u) # << >> /\ Unread(u) \in Seq(PortLines)
         /\ Head(Unread(u)) = Head(scanned[u])
         /\ Tail(Unread(u)) = Tail(scanned[u]) \o lines
  BY UnreadIsSeq, HeadTailConcat DEF Unread

LEMMA UnreadByAdvance ==
  ASSUME GoTypeOK, NEW u \in Users, scanned[u] # << >>, Advance(u), lines' = lines
  PROVE  Unread(u)' = Tail(Unread(u))
<1>1. scanned'[u] = Tail(scanned[u])
  BY DEF Advance, GoTypeOK
<1>2. QED
  BY <1>1, UnreadFirst DEF Unread

LEMMA UnreadByPrint ==
  ASSUME GoTypeOK, NEW u \in Users, NEW new \in Seq(PortLines),
         scanned' = scanned, lines' = lines \o new
  PROVE  Unread(u)' = Unread(u) \o new
<1>1. (scanned[u] \o lines) \o new = scanned[u] \o (lines \o new)
  <2>1. scanned[u] \in Seq(PortLines) /\ lines \in Seq(PortLines)
    BY UnreadIsSeq
  <2>2. \A a, b, d \in Seq(PortLines) : (a \o b) \o d = a \o (b \o d)
    BY ConcatAssociative
  <2>3. QED
    BY <2>1, <2>2, Zenon
<1>2. QED
  BY <1>1 DEF Unread

-----------------------------------------------------------------------------
(***************************************************************************)
(* The board's steps: echo on for a user who is gone, echo off, and a      *)
(* command with the echo off.                                              *)
(***************************************************************************)
LEMMA CommandFields ==
  ASSUME NEW text, NEW u
  PROVE  Command(text, u).text = text /\ Command(text, u).of = u
  BY DEF Command

LEMMA BoardOn ==
  ASSUME GoTypeOK, Board, ~echo, NEW v \in Users, Head(cmds) = On(v)
  PROVE  echo' /\ lines' = IF port = {} THEN << >> ELSE lines
<1>1. Head(cmds).text = "echo on"
  <2>1. Head(cmds) = Command("echo on", v)
    BY DEF On
  <2>2. Command("echo on", v).text = "echo on" /\ Command("echo on", v).of = v
    BY CommandFields
  <2>3. QED
    BY <2>1, <2>2
<1>2. echo'
  BY <1>1 DEF Board
<1>3. Echoed(Head(cmds)) = << >> /\ Printed(Head(cmds)) = {<< >>}
  BY <1>1 DEF Echoed, Printed, SignKinds
<1>4. PICK texts \in Printed(Head(cmds)) :
        lines' = IF port = {} THEN << >>
                 ELSE lines \o LinesFor(Echoed(Head(cmds)) \o texts, Head(cmds).of)
  BY BoardPrints
<1>5. Echoed(Head(cmds)) \o texts = << >>
  BY <1>3, <1>4
<1>6. LinesFor(<< >>, Head(cmds).of) = << >>
  BY DEF LinesFor
<1>7. lines \o << >> = lines
  BY ConcatEmptySeq DEF GoTypeOK
<1>8. QED
  BY <1>2, <1>4, <1>5, <1>6, <1>7

LEMMA BoardOff ==
  ASSUME GoTypeOK, Board, echo, NEW u \in Users, Head(cmds) = Off(u)
  PROVE  ~echo' /\ lines' = IF port = {} THEN << >> ELSE lines \o <<EchoLine(u)>>
<1>1. Head(cmds).text = "echo off" /\ Head(cmds).of = u
  <2>1. Head(cmds) = Command("echo off", u)
    BY DEF Off
  <2>2. Command("echo off", u).text = "echo off" /\ Command("echo off", u).of = u
    BY CommandFields
  <2>3. QED
    BY <2>1, <2>2
<1>2. ~echo'
  BY <1>1 DEF Board
<1>3. Echoed(Head(cmds)) = <<"echo">> /\ Printed(Head(cmds)) = {<< >>}
  BY <1>1 DEF Echoed, Printed, SignKinds
<1>4. PICK texts \in Printed(Head(cmds)) :
        lines' = IF port = {} THEN << >>
                 ELSE lines \o LinesFor(Echoed(Head(cmds)) \o texts, Head(cmds).of)
  BY BoardPrints
<1>5. Echoed(Head(cmds)) \o texts = <<"echo">>
  <2>1. <<"echo">> \in Seq(Texts)
    BY DEF Texts
  <2>2. <<"echo">> \o << >> = <<"echo">>
    BY <2>1, ConcatEmptySeq
  <2>3. QED
    BY <1>3, <1>4, <2>2, Zenon
<1>6. LinesFor(<<"echo">>, u) = <<EchoLine(u)>>
  BY DEF LinesFor, EchoLine
<1>7. QED
  BY <1>1, <1>2, <1>4, <1>5, <1>6

LEMMA BoardAnswers ==
  ASSUME GoTypeOK, Board, ~echo, port # {}, NEW u \in Users,
         NEW text, text \notin {"echo on", "echo off"}, Head(cmds) = Command(text, u)
  PROVE  /\ ~echo'
         /\ \E texts \in Printed(Command(text, u)) :
              texts \in Seq(Texts) /\ lines' = lines \o LinesFor(texts, u)
<1>1. Head(cmds).text = text /\ Head(cmds).of = u
  BY CommandFields, ZenonT(30)
<1>2. ~echo'
  BY <1>1 DEF Board
<1>3. Echoed(Head(cmds)) = << >>
  BY DEF Echoed
<1>4. PICK texts \in Printed(Head(cmds)) :
        lines' = IF port = {} THEN << >>
                 ELSE lines \o LinesFor(Echoed(Head(cmds)) \o texts, Head(cmds).of)
  BY BoardPrints
<1>5. texts \in Seq(Texts)
  BY <1>4, PrintedTexts
<1>6. Echoed(Head(cmds)) \o texts = texts
  BY <1>3, <1>5, ConcatEmptySeq
<1>7. QED
  BY <1>1, <1>2, <1>4, <1>5, <1>6

\* The board comes nearer to the command of u.
LEMMA BoardNearer ==
  ASSUME GoTypeOK, Board, port # {}, NEW u \in Users, NEW rest \in Seq(Commands),
         Before(u, rest), ~(cmds = rest /\ ~echo)
  PROVE  Before(u, rest)'
<1>0. /\ \A v \in Users : On(v) \in Commands /\ Off(v) \in Commands
      /\ cmds' = Tail(cmds) /\ scanned' = scanned
  BY DEF On, Off, Command, Commands, CommandTexts, Board, handlers
<1>1. CASE /\ Unread(u) = << >> /\ ~echo
           /\ \E v \in Users : cmds = <<On(v), Off(u)>> \o rest
  <2>1. PICK v \in Users : cmds = <<On(v), Off(u)>> \o rest
    BY <1>1
  <2>2. Head(cmds) = On(v) /\ cmds' = <<Off(u)>> \o rest
    BY <1>0, <2>1, CommandQueue, SMTT(30)
  <2>3. echo' /\ lines' = lines
    BY <1>1, <2>2, BoardOn
  <2>4. Unread(u)' = << >>
    BY <1>0, <1>1, <2>3 DEF Unread
  <2>5. QED
    BY <2>2, <2>3, <2>4 DEF Before
<1>2. CASE Unread(u) = << >> /\ echo /\ cmds = <<Off(u)>> \o rest
  <2>1. Head(cmds) = Off(u) /\ cmds' = rest
    BY <1>0, <1>2, CommandQueue
  <2>2. ~echo' /\ lines' = lines \o <<EchoLine(u)>>
    BY <1>2, <2>1, BoardOff
  <2>3. <<EchoLine(u)>> \in Seq(PortLines)
    BY DEF EchoLine, Line, PortLines, Texts
  <2>4. Unread(u)' = << >> \o <<EchoLine(u)>>
    BY <1>0, <1>2, <2>2, <2>3, UnreadByPrint
  <2>5. Unread(u)' = <<EchoLine(u)>>
    BY <2>3, <2>4, ConcatEmptySeq
  <2>6. QED
    BY <2>1, <2>2, <2>5 DEF Before
<1>3. QED
  BY <1>1, <1>2 DEF Before

-----------------------------------------------------------------------------
(***************************************************************************)
(* Every action keeps the invariant.                                       *)
(***************************************************************************)
\* While a handler is at work, no other one is that nobody disturbed.
LEMMA OnlyMine ==
  ASSUME GoInv, server = "serving", NEW c \in Clients, st[c] # "idle",
         \A d \in Clients \ {c} : st'[d] = st[d] /\ disturbed'[d] = disturbed[d],
         st'[c] # "idle" /\ disturbed'[c] = 0 => ActiveInv(c)'
  PROVE  AloneInv'
<1> SUFFICES ASSUME NEW d \in Clients, st'[d] # "idle", disturbed'[d] = 0
             PROVE  ActiveInv(d)'
  BY DEF AloneInv, Alone
<1>1. CASE d = c
  BY <1>1
<1>2. CASE d # c
  <2>1. ActiveInv(d)
    BY <1>2 DEF GoInv, AloneInv, Alone
  <2>2. QED
    BY <1>2, <2>1 DEF ActiveInv
<1>3. QED
  BY <1>1, <1>2

LEMMA StartUpInv ==
  ASSUME GoInv, StartUp
  PROVE  GoInv'
  BY DEF StartUp, GoInv, ResponseFits, handlers

LEMMA SerialFailsInv ==
  ASSUME GoInv, SerialFails
  PROVE  GoInv'
  BY DEF GoInv, ResponseFits, SerialFails, handlers

\* AloneInv is about the handlers at work, the port and the board only.
LEMMA AloneUnchanged ==
  ASSUME UNCHANGED <<st, req, kept, scanned, disturbed, port, cmds, echo, lines>>, AloneInv
  PROVE  AloneInv'
<1> SUFFICES ASSUME NEW c \in Clients, st[c] # "idle", Alone(c), ActiveInv(c)
             PROVE  ActiveInv(c)'
  BY DEF AloneInv, Alone
<1>1. Unread(c)' = Unread(c)
  BY DEF Unread
<1>2. /\ Before(c, << >>)' <=> Before(c, << >>)
      /\ Before(c, <<Command(Asked(c), c)>>)' <=> Before(c, <<Command(Asked(c), c)>>)
  BY <1>1 DEF Before, Asked
<1>3. (KeysLeft(c)' <=> KeysLeft(c)) /\ (SignLeft(c)' <=> SignLeft(c))
  BY <1>1 DEF KeysLeft, SignLeft
<1>4. QED
  BY <1>2, <1>3 DEF ActiveInv

LEMMA AnswerAtOnceInv ==
  ASSUME GoTypeOK, GoInv, NEW c \in Clients, NEW kind \in Kinds, AnswerAtOnce(c, kind)
  PROVE  GoInv'
<1>1. /\ UNCHANGED <<server, st, req, kept, scanned, disturbed, port, cmds, echo, lines>>
      /\ kind \in {"upcheck", "method", "path", "unsupported"}
  BY DEF AnswerAtOnce, board
<1>2. PICK status \in Nat :
        answer' = Response(c, kind, status, << >>, TRUE) /\ Plain(kind, status)
  BY AnswerCodes
<1>3. ResponseFits'
  <2>1. /\ answer'.of = c /\ answer'.kind = kind /\ answer'.status = status
    BY <1>2 DEF Response
  <2>2. kind # "keys" /\ (kind \in SignKinds => kind = "unsupported")
    BY <1>1 DEF SignKinds
  <2>3. status # 404 /\ (kind = "unsupported" => status # 200)
    BY <1>2 DEF Plain
  <2>4. QED
    BY <2>1, <2>2, <2>3 DEF ResponseFits, Fits
<1>4. AloneInv => AloneInv'
  BY <1>1, AloneUnchanged
<1>5. IdleInv => IdleInv'
  BY <1>1 DEF IdleInv
<1>6. QED
  BY <1>1, <1>3, <1>4, <1>5 DEF GoInv

(***************************************************************************)
(* A handler that opens the port when all has settled: at most the         *)
(* command of the handler before waits, the one that switches echo on.     *)
(***************************************************************************)
LEMMA OpenedBefore ==
  ASSUME GoTypeOK, Settled, IdleInv, NEW c \in Clients, st[c] = "idle", NEW rest \in Seq(Commands),
         UNCHANGED <<scanned, echo, lines>>, cmds' = EchoOff(c) \o rest
  PROVE  Before(c, rest)'
<1>1. Unread(c)' = << >>
  <2>1. lines' = << >> /\ scanned'[c] = << >>
    BY DEF Settled, IdleInv
  <2>2. QED
    BY <2>1 DEF Unread
<1>2. CASE cmds = << >> /\ echo
  <2>1. EchoOff(c) = <<Off(c)>>
    <3>1. Append(<< >>, Off(c)) = <<Off(c)>>
      OBVIOUS
    <3>2. QED
      BY <1>2, <3>1 DEF EchoOff, Off
  <2>2. QED
    BY <1>1, <1>2, <2>1 DEF Before
<1>3. ASSUME ~echo, NEW v \in Users, cmds = <<Command("echo on", v)>>
      PROVE  Before(c, rest)'
  <2>1. EchoOff(c) = <<On(v), Off(c)>>
    <3>1. Append(<<On(v)>>, Off(c)) = <<On(v), Off(c)>>
      <4>1. \A a, b \in Commands : Append(<<a>>, b) = <<a, b>>
        BY AppendPair
      <4>2. On(v) \in Commands /\ Off(c) \in Commands
        BY DEF On, Off, Command, Commands, CommandTexts, Users
      <4>3. QED
        BY <4>1, <4>2
    <3>2. QED
      BY <1>3, <3>1 DEF EchoOff, Off, On
  <2>2. QED
    BY <1>1, <1>3, <2>1 DEF Before
<1>4. QED
  BY <1>2, <1>3 DEF Settled

\* A handler that opens the port: it may count on the board when all has settled,
\* and whoever was at work may not any more.
LEMMA OpenedInv ==
  ASSUME GoTypeOK, GoInv, NEW c \in Clients, MaySend(c), Opens(c),
         UNCHANGED <<server, kept, scanned, answer, lines>>,
         port' = port \cup {c}, st'[c] # "idle",
         \A d \in Clients \ {c} : st'[d] = st[d],
         Settled => ActiveInv(c)'
  PROVE  GoInv'
<1>1. server = "serving" /\ IdleInv /\ st[c] = "idle"
  BY DEF MaySend, GoInv
<1>2. ResponseFits'
  BY DEF GoInv, ResponseFits
<1>3. IdleInv'
  BY <1>1 DEF IdleInv
<1>4. AloneInv'
  <2> SUFFICES ASSUME NEW d \in Clients, st'[d] # "idle", disturbed'[d] = 0
               PROVE  ActiveInv(d)'
    BY DEF AloneInv, Alone
  <2>1. CASE d = c
    <3>1. Settled
      <4>1. SUFFICES ASSUME ~Settled PROVE FALSE
        OBVIOUS
      <4>2. (IF Settled THEN 0 ELSE 1) = 1
        BY <4>1, Zenon
      <4>3. disturbed'[c] = 1
        BY <4>2 DEF Opens
      <4>4. QED
        BY <2>1, <4>3
    <3>2. QED
      BY <2>1, <3>1
  <2>2. CASE d # c
    <3>1. disturbed'[d] = disturbed[d] + 1
      BY <2>2 DEF Opens
    <3>2. disturbed[d] \in Nat
      BY DEF GoTypeOK
    <3>3. QED
      BY <3>1, <3>2
  <2>3. QED
    BY <2>1, <2>2
<1>5. QED
  BY <1>1, <1>2, <1>3, <1>4 DEF GoInv

\* When all has settled, nobody is at work.
LEMMA SettledIdle ==
  ASSUME Settled, IdleInv
  PROVE  port = {} /\ lines = << >> /\ \A d \in Clients : st[d] = "idle"
  BY DEF Settled, IdleInv

LEMMA OpenSignInv ==
  ASSUME GoTypeOK, GoInv, NEW c \in Clients, NEW kind \in Kinds, OpenSign(c, kind)
  PROVE  GoInv'
<1>1. server = "serving" /\ IdleInv /\ st[c] = "idle"
  BY DEF OpenSign, MaySend, GoInv
<1>2. /\ UNCHANGED <<server, kept, scanned, answer, echo, lines>>
      /\ req' = [req EXCEPT ![c] = kind] /\ st' = [st EXCEPT ![c] = "open"]
      /\ port' = port \cup {c} /\ cmds' = EchoOff(c) /\ kind \in SignKinds \ {"unsupported"}
      /\ MaySend(c) /\ Opens(c)
  BY DEF OpenSign
<1>3. req'[c] = kind /\ st'[c] = "open" /\ \A d \in Clients \ {c} : st'[d] = st[d]
  BY <1>2 DEF GoTypeOK
<1>4. ASSUME Settled
      PROVE  ActiveInv(c)'
  <2>1. Before(c, << >>)'
    <3>1. EchoOff(c) \in Seq(Commands) /\ << >> \in Seq(Commands)
      <4>1. c \in Users /\ "import" \in CommandTexts
        BY DEF Users, CommandTexts
      <4>2. QED
        BY <4>1, CommandsSent
    <3>2. cmds' = EchoOff(c) \o << >>
      BY <1>2, <3>1, ConcatEmptySeq
    <3>3. QED
      BY <1>1, <1>2, <1>4, <3>1, <3>2, OpenedBefore
  <2>2. kind # "keys"
    BY <1>2 DEF SignKinds
  <2>3. port' = {c} /\ \A d \in Clients \ {c} : st'[d] = "idle"
    BY <1>1, <1>2, <1>3, <1>4, SettledIdle
  <2>4. kept'[c] = << >> /\ scanned'[c] = << >>
    BY <1>1, <1>2 DEF IdleInv
  <2>5. QED
    BY <1>2, <1>3, <2>1, <2>2, <2>3, <2>4 DEF ActiveInv
<1>5. QED
  BY <1>2, <1>3, <1>4, OpenedInv

LEMMA SendGetKeysInv ==
  ASSUME GoTypeOK, GoInv, NEW c \in Clients, SendGetKeys(c)
  PROVE  GoInv'
<1>1. server = "serving" /\ IdleInv /\ st[c] = "idle"
  BY DEF SendGetKeys, MaySend, GoInv
<1>2. /\ UNCHANGED <<server, kept, scanned, answer, echo, lines>>
      /\ req' = [req EXCEPT ![c] = "keys"] /\ st' = [st EXCEPT ![c] = "scan"]
      /\ port' = port \cup {c} /\ cmds' = Append(EchoOff(c), Command("getkeys", c))
      /\ MaySend(c) /\ Opens(c)
  BY DEF SendGetKeys
<1>3. req'[c] = "keys" /\ st'[c] = "scan" /\ \A d \in Clients \ {c} : st'[d] = st[d]
  BY <1>2 DEF GoTypeOK
<1>4. ASSUME Settled
      PROVE  ActiveInv(c)'
  <2>1. Before(c, <<Command("getkeys", c)>>)'
    <3>1. c \in Users /\ "getkeys" \in CommandTexts
      BY DEF Users, CommandTexts
    <3>2. EchoOff(c) \in Seq(Commands) /\ Command("getkeys", c) \in Commands
      BY <3>1, CommandsSent DEF Command, Commands
    <3>3. cmds' = EchoOff(c) \o <<Command("getkeys", c)>>
      BY <1>2, <3>2, AppendIsConcat
    <3>4. <<Command("getkeys", c)>> \in Seq(Commands)
      BY <3>2
    <3>5. QED
      BY <1>1, <1>2, <1>4, <3>3, <3>4, OpenedBefore
  <2>2. Asked(c)' = "getkeys"
    BY <1>3 DEF Asked
  <2>3. port' = {c} /\ \A d \in Clients \ {c} : st'[d] = "idle"
    BY <1>1, <1>2, <1>3, <1>4, SettledIdle
  <2>4. kept'[c] = << >>
    BY <1>1, <1>2 DEF IdleInv
  <2>5. Before(c, <<Command(Asked(c), c)>>)'
    BY <2>1, <2>2 DEF Before
  <2>6. QED
    BY <1>3, <2>3, <2>4, <2>5 DEF ActiveInv
<1>5. QED
  BY <1>2, <1>3, <1>4, OpenedInv

\* Sending the command behind what waits already.
LEMMA SendSignActive ==
  ASSUME GoTypeOK, NEW c \in Clients, ActiveInv(c), SendSign(c)
  PROVE  ActiveInv(c)'
<1>1. ActiveInv(c) /\ server = "serving" /\ st[c] = "open"
  BY DEF SendSign
<1>2. /\ UNCHANGED <<server, req, kept, scanned, answer, port, echo, lines>>
      /\ st' = [st EXCEPT ![c] = "scan"] /\ cmds' = Append(cmds, Command(req[c], c))
  BY DEF SendSign
<1>3. /\ Before(c, << >>) /\ kept[c] = << >> /\ req[c] # "keys"
      /\ req[c] \in (SignKinds \ {"unsupported"}) \cup {"keys"} /\ port = {c}
      /\ \A d \in Clients \ {c} : st[d] = "idle"
  BY <1>1 DEF ActiveInv
<1>4. st'[c] = "scan" /\ \A d \in Clients \ {c} : st'[d] = st[d]
  BY <1>2 DEF GoTypeOK
<1>5. PICK e : e = Command(req[c], c)
  OBVIOUS
<1>6. e \in Commands /\ \A v \in Users : On(v) \in Commands /\ Off(v) \in Commands
  <2>1. req[c] \in CommandTexts /\ c \in Users
    BY DEF GoTypeOK, CommandTexts, Users
  <2>2. QED
    BY <1>5, <2>1 DEF On, Off, Command, Commands, CommandTexts
<1>7. Unread(c)' = Unread(c)
  BY <1>2 DEF Unread
<1>8. Before(c, <<e>>)'
  <2>0. \A s \in Seq(Commands) : s \o << >> = s /\ Append(s, e) = s \o <<e>>
    BY <1>6, ConcatEmptySeq, AppendIsConcat
  <2>1. CASE /\ Unread(c) = << >> /\ ~echo
             /\ \E v \in Users : cmds = <<On(v), Off(c)>> \o << >>
    <3>1. PICK v \in Users : cmds = <<On(v), Off(c)>> \o << >>
      BY <2>1
    <3>2. <<On(v), Off(c)>> \in Seq(Commands)
      BY <1>6 DEF Users
    <3>3. cmds' = <<On(v), Off(c)>> \o <<e>>
      BY <1>2, <1>5, <2>0, <3>1, <3>2
    <3>4. QED
      BY <1>2, <1>7, <2>1, <3>3 DEF Before
  <2>2. CASE Unread(c) = << >> /\ echo /\ cmds = <<Off(c)>> \o << >>
    <3>1. <<Off(c)>> \in Seq(Commands)
      BY <1>6 DEF Users
    <3>2. cmds' = <<Off(c)>> \o <<e>>
      BY <1>2, <1>5, <2>0, <2>2, <3>1
    <3>3. QED
      BY <1>2, <1>7, <2>2, <3>2 DEF Before
  <2>3. CASE Unread(c) \in {<< >>, <<EchoLine(c)>>} /\ ~echo /\ cmds = << >>
    <3>1. cmds' = <<e>>
      BY <1>2, <1>5, <2>3
    <3>2. QED
      BY <1>2, <1>7, <2>3, <3>1 DEF Before
  <2>4. QED
    BY <1>3, <2>1, <2>2, <2>3 DEF Before
<1>9. <<Command(Asked(c), c)>>' = <<e>>
  BY <1>2, <1>3, <1>5 DEF Asked
<1>10. Before(c, <<Command(Asked(c), c)>>)'
  BY <1>8, <1>9 DEF Before
<1>11. QED
  BY <1>2, <1>3, <1>4, <1>10 DEF ActiveInv

LEMMA SendSignInv ==
  ASSUME GoTypeOK, GoInv, NEW c \in Clients, SendSign(c)
  PROVE  GoInv'
<1>1. IdleInv /\ AloneInv /\ server = "serving" /\ st[c] = "open"
  BY DEF SendSign, GoInv
<1>2. /\ UNCHANGED <<server, req, kept, scanned, disturbed, answer, port, echo, lines>>
      /\ st' = [st EXCEPT ![c] = "scan"]
  BY DEF SendSign
<1>3. st'[c] = "scan" /\ \A d \in Clients \ {c} : st'[d] = st[d]
  BY <1>2 DEF GoTypeOK
<1>4. disturbed'[c] = 0 => ActiveInv(c)'
  BY <1>1, <1>2, SendSignActive DEF AloneInv, Alone
<1>5. AloneInv'
  BY <1>1, <1>2, <1>3, <1>4, OnlyMine
<1>6. IdleInv'
  BY <1>1, <1>2, <1>3 DEF IdleInv
<1>7. ResponseFits'
  BY <1>2 DEF GoInv, ResponseFits
<1>8. QED
  BY <1>1, <1>2, <1>5, <1>6, <1>7 DEF GoInv

(***************************************************************************)
(* The board's answer to the command of a handler.                         *)
(***************************************************************************)
LEMMA KeysAnswered ==
  ASSUME GoTypeOK, Board, ~echo, port # {}, NEW c \in Clients,
         req[c] = "keys", Head(cmds) = Command("getkeys", c), kept[c] = << >>,
         Unread(c) \in {<< >>, <<EchoLine(c)>>}
  PROVE  ~echo' /\ KeysLeft(c)'
<1>1. c \in Users /\ kept' = kept /\ scanned' = scanned
  BY DEF Users, Board, handlers
<1>2. PICK texts \in Printed(Command("getkeys", c)) :
        texts \in Seq(Texts) /\ lines' = lines \o LinesFor(texts, c)
  BY <1>1, BoardAnswers
<1>3. texts = <<"keys {", "keys }">>
  BY <1>2, CommandFields, ZenonT(30) DEF Printed, SignKinds
<1>4. /\ EchoLine(c) \in PortLines /\ FirstKeys(c) \in PortLines /\ LastKeys(c) \in PortLines
  BY <1>1 DEF EchoLine, FirstKeys, LastKeys, Line, PortLines, Texts
<1>5. <<FirstKeys(c), LastKeys(c)>> \in Seq(PortLines)
  BY <1>4
<1>6. LinesFor(texts, c) = <<FirstKeys(c), LastKeys(c)>>
  <2>1. /\ LinesFor(texts, c) \in Seq(PortLines) /\ Len(LinesFor(texts, c)) = Len(texts)
        /\ \A i \in 1 .. Len(texts) : LinesFor(texts, c)[i] = Line(texts[i], c)
    BY <1>1, <1>2, LinesForFacts
  <2>2. Len(texts) = 2 /\ texts[1] = "keys {" /\ texts[2] = "keys }"
    BY <1>3
  <2>3. PICK new, a, d : new = LinesFor(texts, c) /\ a = FirstKeys(c) /\ d = LastKeys(c)
    OBVIOUS
  <2>4. new[1] = a /\ new[2] = d
    <3>1. 1 \in 1 .. Len(texts) /\ 2 \in 1 .. Len(texts)
      <4>1. 1 \in 1 .. 2 /\ 2 \in 1 .. 2
        OBVIOUS
      <4>2. QED
        BY <2>2, <4>1, Zenon
    <3>2. new[1] = Line(texts[1], c) /\ new[2] = Line(texts[2], c)
      BY <2>1, <2>3, <3>1
    <3>3. QED
      BY <2>2, <2>3, <3>2 DEF FirstKeys, LastKeys
  <2>5. /\ <<a, d>> \in Seq(PortLines) /\ Len(<<a, d>>) = 2
        /\ <<a, d>>[1] = a /\ <<a, d>>[2] = d
    BY <1>4, <2>3
  <2>6. \A i \in 1 .. Len(new) : new[i] = <<a, d>>[i]
    <3>1. Len(new) = 2
      BY <2>1, <2>2, <2>3
    <3>2. QED
      BY <2>4, <2>5, <3>1
  <2>7. new = <<a, d>>
    BY <2>1, <2>2, <2>3, <2>5, <2>6, SeqEqual, ZenonT(30)
  <2>8. QED
    BY <2>3, <2>7
<1>7. Unread(c)' = Unread(c) \o <<FirstKeys(c), LastKeys(c)>>
  BY <1>1, <1>2, <1>5, <1>6, UnreadByPrint
<1>8. /\ << >> \o <<FirstKeys(c), LastKeys(c)>> = <<FirstKeys(c), LastKeys(c)>>
      /\ <<EchoLine(c)>> \o <<FirstKeys(c), LastKeys(c)>>
           = <<EchoLine(c), FirstKeys(c), LastKeys(c)>>
  BY <1>4, <1>5, ConcatEmptySeq, ConcatTriple
<1>9. ~echo'
  BY <1>1, BoardAnswers
<1>10. QED
  BY <1>1, <1>7, <1>8, <1>9 DEF KeysLeft

LEMMA SignAnswered ==
  ASSUME GoTypeOK, Board, ~echo, port # {}, NEW c \in Clients,
         req[c] \in SignKinds, Head(cmds) = Command(req[c], c), kept[c] = << >>,
         Unread(c) \in {<< >>, <<EchoLine(c)>>}
  PROVE  ~echo' /\ SignLeft(c)'
<1>1. /\ c \in Users /\ kept' = kept /\ scanned' = scanned /\ req' = req
      /\ req[c] \notin {"echo on", "echo off", "import", "getkeys"}
  BY DEF Users, Board, handlers, SignKinds
<1>2. PICK texts \in Printed(Command(req[c], c)) :
        texts \in Seq(Texts) /\ lines' = lines \o LinesFor(texts, c)
  BY <1>1, BoardAnswers
<1>3. texts = SignLines(req[c])
  <2>1. Command(req[c], c).text = req[c]
    BY CommandFields
  <2>2. Printed(Command(req[c], c)) = {SignLines(req[c])}
    BY <1>1, <2>1 DEF Printed
  <2>3. QED
    BY <1>2, <2>2
<1>4. \A i \in 1 .. Len(texts) : texts[i] \in SignTexts(req[c])
  BY <1>3 DEF SignLines, SignTexts, SignKinds
<1> DEFINE new == LinesFor(texts, c)
           own == {Line(t, c) : t \in SignTexts(req[c])}
<1>5. /\ new \in Seq(PortLines) /\ Len(new) = Len(texts)
      /\ \A i \in 1 .. Len(new) : new[i] \in own
  <2>1. /\ new \in Seq(PortLines) /\ Len(new) = Len(texts)
        /\ \A i \in 1 .. Len(texts) : new[i] = Line(texts[i], c)
    BY <1>1, <1>2, LinesForFacts
  <2>2. QED
    BY <1>4, <2>1
<1>6. Unread(c)' = Unread(c) \o new
  BY <1>1, <1>2, <1>5, UnreadByPrint
<1>7. Unread(c) \in Seq(PortLines) /\ \A i \in 1 .. Len(Unread(c)) : Unread(c)[i] \in own
  <2>1. EchoLine(c) \in own
    BY DEF SignTexts, EchoLine
  <2>2. Unread(c) \in Seq(PortLines)
    BY <1>1, UnreadIsSeq
  <2>3. QED
    BY <2>1, <2>2
<1> HIDE DEF new, own
<1>8. PICK old : old = Unread(c)
  OBVIOUS
<1>9. \A i \in 1 .. Len(old \o new) : (old \o new)[i] \in own
  <2>1. /\ Len(old \o new) = Len(old) + Len(new)
        /\ \A i \in 1 .. Len(old) + Len(new) :
             (old \o new)[i] = IF i <= Len(old) THEN old[i] ELSE new[i - Len(old)]
        /\ Len(old) \in Nat /\ Len(new) \in Nat
    BY <1>5, <1>7, <1>8, ConcatProperties, LenProperties
  <2>2. ASSUME NEW i \in 1 .. Len(old) + Len(new)
        PROVE  (old \o new)[i] \in own
    <3>1. CASE i <= Len(old)
      BY <1>7, <1>8, <2>1, <3>1
    <3>2. CASE ~(i <= Len(old))
      <4>1. i - Len(old) \in 1 .. Len(new)
        BY <2>1, <3>2
      <4>2. QED
        BY <1>5, <2>1, <3>2, <4>1
    <3>3. QED
      BY <3>1, <3>2
  <2>3. QED
    BY <2>1, <2>2
<1>10. ~echo'
  BY <1>1, BoardAnswers
<1>11. Unread(c)' = old \o new /\ req'[c] = req[c] /\ kept'[c] = << >>
  BY <1>1, <1>6, <1>8
<1>12. SignLeft(c)'
  BY <1>9, <1>11 DEF SignLeft, own
<1>13. QED
  BY <1>10, <1>12

LEMMA BoardActive ==
  ASSUME GoTypeOK, Board, NEW c \in Clients, ActiveInv(c)
  PROVE  ActiveInv(c)'
<1>0. \A t \in CommandTexts, u \in Users : Command(t, u) \in Commands
  BY DEF Command, Commands
<1>1. /\ UNCHANGED <<server, st, req, kept, scanned, answer, port>>
      /\ cmds # << >> /\ cmds' = Tail(cmds) /\ Head(cmds) \in Commands
  BY BoardPrints DEF Board, handlers
<1>2. c \in Users /\ port # {}
  BY DEF Users, ActiveInv
<1>3. CASE st[c] = "open" /\ Before(c, << >>)
  <2>1. Before(c, << >>)'
    <3>1. << >> \in Seq(Commands) /\ ~(cmds = << >> /\ ~echo)
      BY <1>1
    <3>2. QED
      BY <1>2, <1>3, <3>1, BoardNearer
  <2>2. QED
    BY <1>1, <1>3, <2>1 DEF ActiveInv
<1>4. CASE st[c] = "scan" /\ kept[c] = << >> /\ Before(c, <<Command(Asked(c), c)>>)
  <2>1. PICK e : e = Command(Asked(c), c)
    OBVIOUS
  <2>2. Asked(c) \in CommandTexts \ {"echo on", "echo off"}
    BY DEF ActiveInv, Asked, CommandTexts, Kinds, SignKinds
  <2>3. e \in Commands /\ <<e>> \in Seq(Commands)
    <3>1. e \in Commands
      BY <1>0, <1>2, <2>1, <2>2
    <3>2. QED
      BY <3>1
  <2>4. Before(c, <<e>>) /\ Asked(c)' = Asked(c)
    BY <1>1, <1>4, <2>1 DEF Asked
  <2>5. CASE ~(cmds = <<e>> /\ ~echo)
    <3>1. Before(c, <<e>>)'
      BY <1>2, <2>3, <2>4, <2>5, BoardNearer
    <3>2. Before(c, <<Command(Asked(c), c)>>)'
      BY <2>1, <2>4, <3>1 DEF Before
    <3>3. QED
      BY <1>1, <1>4, <3>2 DEF ActiveInv
  <2>6. CASE cmds = <<e>> /\ ~echo
    <3>1. cmds' = << >> /\ Head(cmds) = Command(Asked(c), c)
      BY <1>1, <2>1, <2>6
    <3>2. Unread(c) \in {<< >>, <<EchoLine(c)>>}
      BY <2>4 DEF Before
    <3>3. CASE req[c] = "keys"
      <4>1. ~echo' /\ KeysLeft(c)'
        BY <1>2, <1>4, <2>6, <3>1, <3>2, <3>3, KeysAnswered DEF Asked
      <4>2. QED
        BY <1>1, <1>4, <3>1, <3>3, <4>1 DEF ActiveInv
    <3>4. CASE req[c] # "keys"
      <4>1. req[c] \in SignKinds /\ Asked(c) = req[c]
        BY <3>4 DEF ActiveInv, Asked
      <4>2. ~echo' /\ SignLeft(c)'
        BY <1>2, <1>4, <2>6, <3>1, <3>2, <4>1, SignAnswered
      <4>3. QED
        BY <1>1, <1>4, <3>1, <3>4, <4>2 DEF ActiveInv
    <3>5. QED
      BY <3>3, <3>4
  <2>7. QED
    BY <2>5, <2>6
<1>5. QED
  BY <1>1, <1>3, <1>4 DEF ActiveInv

LEMMA BoardInv ==
  ASSUME GoTypeOK, GoInv, Board
  PROVE  GoInv'
<1>1. /\ UNCHANGED <<server, st, req, kept, scanned, disturbed, answer, port>>
      /\ port = {} => lines' = << >>
  BY DEF Board, handlers
<1>2. ResponseFits'
  BY <1>1 DEF GoInv, ResponseFits
<1>3. IdleInv => IdleInv'
  BY <1>1 DEF IdleInv
<1>4. AloneInv => AloneInv'
  BY <1>1, BoardActive DEF AloneInv, Alone
<1>5. QED
  BY <1>1, <1>2, <1>3, <1>4 DEF GoInv

LEMMA ReadPortActive ==
  ASSUME GoTypeOK, NEW u \in Clients, ActiveInv(u), ReadPort(u)
  PROVE  ActiveInv(u)'
<1>1. UNCHANGED <<setting, server, st, req, kept, answer, port, cmds, echo>>
  BY DEF ReadPort
<1>2. Unread(u)' = Unread(u)
  BY UnreadByRead DEF Users
<1>3. st[u] = "scan"
  BY RemoteGoAssumption DEF ReadPort, Scanning
<1>4. Asked(u)' = Asked(u)
  BY <1>1 DEF Asked
<1>5. Before(u, <<Command(Asked(u), u)>>) => Before(u, <<Command(Asked(u), u)>>)'
  BY <1>1, <1>2, <1>4 DEF Before
<1>6. (IF req[u] = "keys" THEN KeysLeft(u) ELSE SignLeft(u)) =>
      (IF req[u] = "keys" THEN KeysLeft(u) ELSE SignLeft(u))'
  BY <1>1, <1>2 DEF KeysLeft, SignLeft
<1>7. QED
  BY <1>1, <1>3, <1>5, <1>6 DEF ActiveInv

LEMMA ReadPortInv ==
  ASSUME GoTypeOK, GoInv, NEW u \in Users, ReadPort(u)
  PROVE  GoInv'
<1>1. UNCHANGED <<setting, server, st, req, kept, disturbed, answer, port, cmds, echo>>
  BY DEF ReadPort
<1>2. \A w \in Users \ {u} : scanned'[w] = scanned[w]
  BY DEF ReadPort, GoTypeOK
<1>3. ResponseFits'
  BY <1>1 DEF GoInv, ResponseFits
<1>4. CASE u = Main /\ server = "import"
  <2>1. \A c \in Clients : scanned'[c] = scanned[c]
    BY <1>2, <1>4, RemoteGoAssumption DEF Users
  <2>2. QED
    BY <1>1, <1>3, <1>4, <2>1 DEF GoInv
<1>5. CASE u \in Clients /\ server = "serving" /\ st[u] = "scan"
  <2>1. IdleInv /\ AloneInv
    BY <1>5 DEF GoInv
  <2>2. disturbed'[u] = 0 => ActiveInv(u)'
    BY <1>1, <1>5, <2>1, ReadPortActive DEF AloneInv, Alone
  <2>3. AloneInv'
    BY <1>1, <1>5, <2>2, OnlyMine
  <2>4. IdleInv'
    <3>1. Main # u /\ Main \in Users /\ Clients \subseteq Users /\ port # {}
      BY <1>5, <2>1, RemoteGoAssumption DEF Users, IdleInv
    <3>2. QED
      BY <1>1, <1>2, <1>5, <2>1, <3>1 DEF IdleInv
  <2>5. QED
    BY <1>1, <1>3, <1>5, <2>3, <2>4 DEF GoInv
<1>6. QED
  BY <1>4, <1>5 DEF ReadPort, Scanning

(***************************************************************************)
(* Scanning.  Until the board has come to the command, all there is to     *)
(* read is the echo of "echo off", which ends no scan.                     *)
(***************************************************************************)
LEMMA LineFields ==
  ASSUME NEW text, NEW u
  PROVE  Line(text, u).text = text /\ Line(text, u).of = u
  BY DEF Line

LEMMA EchoEndsNothing ==
  ASSUME NEW kind \in Kinds \cup {"import"}
  PROVE  ~Ends(kind, "echo") /\ "echo" \notin Success(kind)
  BY DEF Ends, Success, Refusal

LEMMA BeforeScanned ==
  ASSUME GoTypeOK, NEW u \in Users, NEW rest, Before(u, rest), scanned[u] # << >>
  PROVE  /\ NextLine(u) = "echo" /\ Unread(u) = <<EchoLine(u)>>
         /\ Tail(Unread(u)) = << >> /\ ~echo /\ cmds = rest
<1>1. Unread(u) # << >> /\ Head(Unread(u)) = Head(scanned[u])
  BY UnreadFirst
<1>2. Unread(u) = <<EchoLine(u)>> /\ ~echo /\ cmds = rest
  BY <1>1 DEF Before
<1>3. Head(scanned[u]) = EchoLine(u) /\ Tail(Unread(u)) = << >>
  BY <1>1, <1>2
<1>4. Head(scanned[u]).text = "echo"
  BY <1>3, LineFields DEF EchoLine
<1>5. QED
  BY <1>2, <1>3, <1>4 DEF NextLine

\* The start-up leaves no handler and no line behind.
LEMMA ImportEnds ==
  ASSUME GoTypeOK, GoInv, server = "import", CloseBy(Main),
         UNCHANGED <<st, kept, answer>>
  PROVE  GoInv'
<1>1. \A c \in Clients : st[c] = "idle" /\ kept[c] = << >> /\ scanned[c] = << >>
  BY DEF GoInv
<1>2. ResponseFits'
  BY DEF GoInv, ResponseFits
<1>3. scanned'[Main] = << >> /\ \A c \in Clients : scanned'[c] = scanned[c]
  BY RemoteGoAssumption DEF CloseBy, GoTypeOK, Users
<1>4. IdleInv' /\ AloneInv'
  BY <1>1, <1>3 DEF IdleInv, AloneInv, CloseBy
<1>5. QED
  BY <1>1, <1>2, <1>3, <1>4 DEF GoInv

LEMMA ScanImportInv ==
  ASSUME GoTypeOK, GoInv, ScanImport
  PROVE  GoInv'
<1>1. server = "import" /\ UNCHANGED <<st, req, kept, answer, echo>>
  BY DEF ScanImport
<1>2. CASE Advance(Main) /\ UNCHANGED <<server, port, cmds, lines>>
  <2>1. \A c \in Clients : scanned'[c] = scanned[c]
    BY <1>2, RemoteGoAssumption DEF Advance, GoTypeOK, Users
  <2>2. QED
    BY <1>1, <1>2, <2>1 DEF GoInv, ResponseFits
<1>3. CASE CloseBy(Main)
  BY <1>1, <1>3, ImportEnds
<1>4. QED
  BY <1>2, <1>3 DEF ScanImport

LEMMA ImportScanFailsInv ==
  ASSUME GoTypeOK, GoInv, ImportScanFails
  PROVE  GoInv'
<1>1. server = "import"
  BY RemoteGoAssumption DEF ImportScanFails, ReadFails, Scanning
<1>2. QED
  BY <1>1, ImportEnds DEF ImportScanFails

LEMMA ScanOnActive ==
  ASSUME GoTypeOK, NEW c \in Clients, ActiveInv(c), ScanOn(c)
  PROVE  ActiveInv(c)'
<1>1. server = "serving" /\ st[c] = "scan"
  BY RemoteGoAssumption DEF ScanOn, Scanning
<1>2. ActiveInv(c)
  OBVIOUS
<1>3. /\ UNCHANGED <<server, st, req, answer, port, cmds, echo, lines>>
      /\ kept' = [kept EXCEPT ![c] = Kept(c)] /\ Advance(c)
      /\ scanned[c] # << >> /\ ~Ends(req[c], NextLine(c))
  BY DEF ScanOn, board
<1>4. c \in Users
  BY DEF Users
<1>5. kept'[c] = Kept(c)
  BY <1>3 DEF GoTypeOK
<1>9. /\ Unread(c)' = Tail(Unread(c)) /\ Unread(c) # << >>
      /\ Unread(c) \in Seq(PortLines) /\ Head(Unread(c)) = Head(scanned[c])
  BY <1>3, <1>4, UnreadByAdvance, UnreadFirst
<1>10. req[c] \in Kinds
  BY DEF GoTypeOK
<1>11. CASE kept[c] = << >> /\ Before(c, <<Command(Asked(c), c)>>)
  <2>1. PICK rest : rest = <<Command(Asked(c), c)>>
    OBVIOUS
  <2>2. NextLine(c) = "echo" /\ Tail(Unread(c)) = << >> /\ ~echo /\ cmds = rest
    BY <1>3, <1>4, <1>11, <2>1, BeforeScanned
  <2>3. Kept(c) = << >>
    BY <1>10, <1>11, <2>2, EchoEndsNothing DEF Kept
  <2>4. Asked(c)' = Asked(c)
    BY <1>3 DEF Asked
  <2>5. Before(c, <<Command(Asked(c), c)>>)'
    BY <1>3, <1>9, <2>1, <2>2, <2>4 DEF Before
  <2>6. QED
    BY <1>1, <1>2, <1>3, <1>5, <2>3, <2>5 DEF ActiveInv
<1>12. CASE cmds = << >> /\ ~echo /\ req[c] = "keys" /\ KeysLeft(c)
  <2>1. PICK e, a, d : e = EchoLine(c) /\ a = FirstKeys(c) /\ d = LastKeys(c)
    OBVIOUS
  <2>2. e.text = "echo" /\ a.text = "keys {" /\ d.text = "keys }"
    BY <2>1, LineFields DEF EchoLine, FirstKeys, LastKeys
  <2>3. /\ Head(<<e, a, d>>) = e /\ Tail(<<e, a, d>>) = <<a, d>>
        /\ Head(<<a, d>>) = a /\ Tail(<<a, d>>) = <<d>>
        /\ Head(<<d>>) = d /\ Append(<< >>, a) = <<a>>
    OBVIOUS
  <2>4. CASE kept[c] = << >> /\ Unread(c) = <<e, a, d>>
    <3>1. NextLine(c) = "echo" /\ Unread(c)' = <<a, d>>
      BY <1>9, <2>2, <2>3, <2>4 DEF NextLine
    <3>2. kept'[c] = << >>
      BY <1>5, <1>12, <2>4, <3>1 DEF Kept
    <3>3. KeysLeft(c)'
      BY <2>1, <3>1, <3>2 DEF KeysLeft, EchoLine, FirstKeys, LastKeys
    <3>4. QED
      BY <1>1, <1>2, <1>3, <1>12, <3>3 DEF ActiveInv
  <2>5. CASE kept[c] = << >> /\ Unread(c) = <<a, d>>
    <3>1. NextLine(c) = "keys {" /\ Unread(c)' = <<d>> /\ Head(scanned[c]) = a
      BY <1>9, <2>2, <2>3, <2>5 DEF NextLine
    <3>2. kept'[c] = <<a>>
      BY <1>5, <1>12, <2>3, <2>5, <3>1 DEF Kept
    <3>3. KeysLeft(c)'
      BY <2>1, <3>1, <3>2 DEF KeysLeft, EchoLine, FirstKeys, LastKeys
    <3>4. QED
      BY <1>1, <1>2, <1>3, <1>12, <3>3 DEF ActiveInv
  <2>6. CASE Unread(c) = <<d>>
    <3>1. NextLine(c) = "keys }"
      BY <1>9, <2>2, <2>3, <2>6 DEF NextLine
    <3>2. QED
      BY <1>3, <1>12, <3>1 DEF Ends, Success
  <2>7. QED
    BY <1>12, <2>1, <2>4, <2>5, <2>6 DEF KeysLeft
<1>13. CASE cmds = << >> /\ ~echo /\ req[c] # "keys" /\ SignLeft(c)
  <2>1. Kept(c) = << >>
    BY <1>3, <1>13 DEF Kept, Ends, SignLeft
  <2>2. PICK left : left = Unread(c)
    OBVIOUS
  <2>3. \A i \in 1 .. Len(Tail(left)) :
          Tail(left)[i] \in {Line(t, c) : t \in SignTexts(req[c])}
    <3>1. /\ Len(left) \in Nat /\ Len(Tail(left)) = Len(left) - 1
          /\ \A i \in 1 .. Len(Tail(left)) : Tail(left)[i] = left[i + 1]
      BY <1>9, <2>2, HeadTailProperties, LenProperties
    <3>2. \A i \in 1 .. Len(left) : left[i] \in {Line(t, c) : t \in SignTexts(req[c])}
      BY <1>13, <2>2 DEF SignLeft
    <3>3. \A i \in 1 .. Len(Tail(left)) : i + 1 \in 1 .. Len(left)
      BY <3>1
    <3>4. QED
      BY <3>1, <3>2, <3>3
  <2>4. Unread(c)' = Tail(left) /\ kept'[c] = << >> /\ req'[c] = req[c]
    BY <1>3, <1>5, <1>9, <2>1, <2>2
  <2>5. SignLeft(c)'
    BY <2>3, <2>4 DEF SignLeft
  <2>6. QED
    BY <1>1, <1>2, <1>3, <1>13, <2>5 DEF ActiveInv
<1>14. QED
  BY <1>1, <1>2, <1>11, <1>12, <1>13 DEF ActiveInv

LEMMA ScanOnInv ==
  ASSUME GoTypeOK, GoInv, NEW c \in Clients, ScanOn(c)
  PROVE  GoInv'
<1>1. server = "serving" /\ st[c] = "scan" /\ IdleInv /\ AloneInv
  BY RemoteGoAssumption DEF ScanOn, Scanning, GoInv
<1>2. /\ UNCHANGED <<server, st, req, disturbed, answer, port, cmds, echo, lines>>
      /\ kept' = [kept EXCEPT ![c] = Kept(c)] /\ Advance(c)
  BY DEF ScanOn, board
<1>3. c \in Users /\ c # Main /\ Clients \subseteq Users /\ Main \in Users
  BY RemoteGoAssumption DEF Users
<1>4. /\ \A d \in Clients \ {c} : kept'[d] = kept[d]
      /\ \A w \in Users \ {c} : scanned'[w] = scanned[w]
  BY <1>2, <1>3 DEF GoTypeOK, Advance
<1>5. disturbed'[c] = 0 => ActiveInv(c)'
  BY <1>1, <1>2, ScanOnActive DEF AloneInv, Alone
<1>6. AloneInv'
  BY <1>1, <1>2, <1>5, OnlyMine
<1>7. IdleInv'
  BY <1>1, <1>2, <1>3, <1>4 DEF IdleInv
<1>8. ResponseFits'
  BY <1>2 DEF GoInv, ResponseFits
<1>9. QED
  BY <1>1, <1>2, <1>6, <1>7, <1>8 DEF GoInv

(***************************************************************************)
(* The line that ends the scan is the board's answer to this request.      *)
(***************************************************************************)
LEMMA ScanEndsFits ==
  ASSUME GoTypeOK, NEW c \in Clients, ActiveInv(c), st[c] = "scan", ScanEnds(c)
  PROVE  /\ cmds = << >> /\ ~echo
         /\ Fits(c, req[c], IF NextLine(c) \in Success(req[c]) THEN 200 ELSE 404, Kept(c))
<1>1. c \in Users /\ scanned[c] # << >> /\ Ends(req[c], NextLine(c)) /\ req[c] \in Kinds
  BY DEF ScanEnds, Users, GoTypeOK
<1>2. /\ Unread(c) # << >> /\ Unread(c) \in Seq(PortLines)
      /\ Head(Unread(c)) = Head(scanned[c])
  BY <1>1, UnreadFirst, UnreadByAdvance
<1>3. ~Before(c, <<Command(Asked(c), c)>>)
  <2>1. PICK rest : rest = <<Command(Asked(c), c)>>
    OBVIOUS
  <2>2. ~Ends(req[c], "echo")
    BY <1>1, EchoEndsNothing
  <2>3. QED
    BY <1>1, <2>1, <2>2, BeforeScanned
<1>4. cmds = << >> /\ ~echo /\ IF req[c] = "keys" THEN KeysLeft(c) ELSE SignLeft(c)
  BY <1>3 DEF ActiveInv
<1>5. PICK status \in Nat :
        /\ status = IF NextLine(c) \in Success(req[c]) THEN 200 ELSE 404
        /\ NextLine(c) \in Success(req[c]) => status = 200
        /\ NextLine(c) \notin Success(req[c]) => status = 404
  OBVIOUS
<1>6. SUFFICES cmds = << >> /\ ~echo /\ Fits(c, req[c], status, Kept(c))
  BY <1>5
<1>7. CASE req[c] = "keys"
  <2>1. PICK e, a, d : e = EchoLine(c) /\ a = FirstKeys(c) /\ d = LastKeys(c)
    OBVIOUS
  <2>2. e.text = "echo" /\ a.text = "keys {" /\ d.text = "keys }"
    BY <2>1, LineFields DEF EchoLine, FirstKeys, LastKeys
  <2>3. a \in PortLines /\ d \in PortLines
    BY <1>1, <2>1 DEF FirstKeys, LastKeys, Line, PortLines, Texts
  <2>4. Head(<<e, a, d>>) = e /\ Head(<<a, d>>) = a /\ Head(<<d>>) = d
    OBVIOUS
  <2>5. NextLine(c) \notin {"echo", "keys {"}
    BY <1>1, <1>7 DEF Ends, Success, Refusal
  <2>6. kept[c] = <<a>> /\ Unread(c) = <<d>>
    <3>1. Unread(c) # <<e, a, d>> /\ Unread(c) # <<a, d>>
      BY <1>2, <2>2, <2>4, <2>5 DEF NextLine
    <3>2. QED
      BY <1>4, <1>7, <2>1, <3>1 DEF KeysLeft
  <2>7. NextLine(c) = "keys }" /\ Head(scanned[c]) = d
    BY <1>2, <2>2, <2>4, <2>6 DEF NextLine
  <2>8. Kept(c) = <<a, d>>
    <3>1. Append(<<a>>, d) = <<a, d>>
      BY <2>3, AppendPair
    <3>2. QED
      BY <1>7, <2>6, <2>7, <3>1 DEF Kept
  <2>9. NextLine(c) \in Success("keys") /\ "keys" \notin SignKinds
    BY <2>7 DEF Success, SignKinds
  <2>10. status # 404 /\ Kept(c) = <<a, d>>
    BY <1>7, <1>5, <2>8, <2>9
  <2>11. Fits(c, req[c], status, Kept(c))
    <3>1. Kept(c) = <<Line("keys {", c), Line("keys }", c)>>
      BY <2>1, <2>10 DEF FirstKeys, LastKeys
    <3>2. status # 404 /\ req[c] \notin SignKinds
      BY <1>7, <2>9, <2>10
    <3>3. QED
      BY <3>1, <3>2 DEF Fits
  <2>12. QED
    BY <1>4, <2>11
<1>8. CASE req[c] # "keys"
  <2>1. req[c] \in SignKinds \ {"unsupported"} /\ kept[c] = << >>
    BY <1>4, <1>8 DEF ActiveInv, SignLeft
  <2>2. PICK t \in SignTexts(req[c]) : Head(scanned[c]) = Line(t, c)
    <3>1. 1 \in 1 .. Len(Unread(c)) /\ Head(Unread(c)) = Unread(c)[1]
      BY <1>2, HeadTailProperties, LenProperties, EmptySeq
    <3>2. QED
      BY <1>2, <1>4, <1>8, <3>1 DEF SignLeft
  <2>3. NextLine(c) = t
    BY <2>2, LineFields DEF NextLine
  <2>4. t \in {"0x", "echo 0x", "stored", "Incorrect"}
    BY <1>1, <2>1, <2>3 DEF Ends, Success, Refusal, SignKinds
  <2>5. \/ t = "0x" /\ req[c] = "stored"
        \/ t \notin {"0x", "echo 0x"} /\ req[c] \in {"unknown", "length"}
    BY <2>1, <2>2, <2>4 DEF SignTexts, SignKinds
  <2>6. Success(req[c]) = {"0x", "echo 0x"}
    BY <2>1 DEF Success, SignKinds
  <2>7. CASE t = "0x" /\ req[c] = "stored"
    <3>1. Append(<< >>, Line("0x", c)) = <<Line("0x", c)>>
      OBVIOUS
    <3>2. Kept(c) = <<Line("0x", c)>>
      BY <1>8, <2>1, <2>2, <2>3, <2>6, <2>7, <3>1 DEF Kept
    <3>3. status # 404
      <4>1. NextLine(c) \in Success(req[c])
        BY <2>3, <2>6, <2>7
      <4>2. QED
        BY <1>5, <4>1
    <3>4. Fits(c, req[c], status, Kept(c))
      BY <2>7, <3>2, <3>3 DEF Fits
    <3>5. QED
      BY <1>4, <3>4
  <2>8. CASE t \notin {"0x", "echo 0x"} /\ req[c] \in {"unknown", "length"}
    <3>1. status # 200
      <4>1. NextLine(c) \notin Success(req[c])
        BY <2>3, <2>6, <2>8
      <4>2. QED
        BY <1>5, <4>1
    <3>2. Fits(c, req[c], status, Kept(c))
      BY <2>8, <3>1 DEF Fits
    <3>3. QED
      BY <1>4, <3>2
  <2>9. QED
    BY <2>5, <2>7, <2>8
<1>9. QED
  BY <1>7, <1>8

\* A handler that ends with a response that fits, or that says it was disturbed.
LEMMA FinishInv ==
  ASSUME GoTypeOK, GoInv, server = "serving", NEW c \in Clients, st[c] # "idle",
         NEW status, NEW ls, NEW own, Finish(c, status, ls, own),
         own => Fits(c, req[c], status, ls)
  PROVE  GoInv'
<1>1. IdleInv /\ c \in Users /\ c # Main /\ Clients \subseteq Users /\ Main \in Users
  BY RemoteGoAssumption DEF Users, GoInv
<1>2. server' = server /\ answer' = Response(c, req[c], status, ls, own) /\ CloseBy(c)
  BY DEF Finish
<1>3. /\ st'[c] = "idle" /\ kept'[c] = << >> /\ scanned'[c] = << >>
      /\ \A d \in Clients \ {c} : /\ st'[d] = st[d] /\ kept'[d] = kept[d]
                                  /\ scanned'[d] = scanned[d] /\ disturbed'[d] = disturbed[d]
      /\ scanned'[Main] = scanned[Main]
  BY <1>1 DEF Finish, CloseBy, GoTypeOK
<1>4. ResponseFits'
  <2>1. /\ answer'.of = c /\ answer'.kind = req[c] /\ answer'.status = status
        /\ answer'.lines = ls /\ answer'.alone = own
    BY <1>2 DEF Response
  <2>2. QED
    BY <2>1 DEF ResponseFits
<1>5. AloneInv'
  BY <1>3, OnlyMine
<1>6. IdleInv'
  BY <1>1, <1>2, <1>3 DEF IdleInv, CloseBy
<1>7. QED
  BY <1>2, <1>4, <1>5, <1>6 DEF GoInv

LEMMA ScanEndsInv ==
  ASSUME GoTypeOK, GoInv, NEW c \in Clients, ScanEnds(c)
  PROVE  GoInv'
<1>1. server = "serving" /\ st[c] = "scan" /\ AloneInv
  BY RemoteGoAssumption DEF ScanEnds, Scanning, GoInv
<1>2. PICK status : /\ status = IF NextLine(c) \in Success(req[c]) THEN 200 ELSE 404
                    /\ Finish(c, status, Kept(c), Alone(c))
  BY DEF ScanEnds
<1>3. Alone(c) => Fits(c, req[c], status, Kept(c))
  BY <1>1, <1>2, ScanEndsFits DEF AloneInv
<1>4. QED
  BY <1>1, <1>2, <1>3, FinishInv

LEMMA ScanFailsInv ==
  ASSUME GoTypeOK, GoInv, NEW c \in Clients, ScanFails(c)
  PROVE  GoInv'
<1>1. server = "serving" /\ st[c] = "scan"
  BY RemoteGoAssumption DEF ScanFails, ReadFails, Scanning
<1>2. PICK status : Finish(c, status, kept[c], FALSE)
  BY DEF ScanFails
<1>3. QED
  BY <1>1, <1>2, FinishInv

LEMMA InitialInv == Init => UndisturbedInv
<1> SUFFICES ASSUME Init PROVE UndisturbedInv
  OBVIOUS
<1>1. answer \in [of : Users, kind : Kinds, status : Nat, lines : Seq(PortLines),
                  alone : BOOLEAN]
  BY DEF Init, Response, Users, Kinds
<1>2. GoTypeOK
  <2>1. st \in [Clients -> {"idle", "open", "scan"}] /\ req \in [Clients -> Kinds]
    BY DEF Init, Kinds
  <2>2. kept \in [Clients -> Seq(PortLines)] /\ scanned \in [Users -> Seq(PortLines)]
    BY DEF Init
  <2>3. disturbed \in [Clients -> Nat] /\ port \in SUBSET Users /\ echo \in BOOLEAN
    BY DEF Init
  <2>4. cmds \in Seq(Commands) /\ lines \in Seq(PortLines)
    BY DEF Init
  <2>5. QED
    BY <1>1, <2>1, <2>2, <2>3, <2>4 DEF GoTypeOK
<1>3. answer.kind = "upcheck" /\ answer.status = 0
  BY DEF Init, Response
<1>4. ResponseFits
  BY <1>3 DEF ResponseFits, Fits, SignKinds
<1>5. \A c \in Clients : st[c] = "idle" /\ kept[c] = << >> /\ scanned[c] = << >>
  BY DEF Init, Users
<1>6. GoInv
  BY <1>4, <1>5 DEF Init, GoInv
<1>7. QED
  BY <1>2, <1>6 DEF UndisturbedInv

LEMMA GoInvStep ==
  ASSUME GoTypeOK, GoInv, [Next]_vars
  PROVE  GoInv'
<1>0. Main \in Users /\ Clients \subseteq Users
  BY DEF Users
<1>1. CASE Board
  BY <1>1, BoardInv
<1>2. CASE StartUp
  BY <1>2, StartUpInv
<1>3. CASE ReadPort(Main)
  BY <1>0, <1>3, ReadPortInv
<1>4. CASE ScanImport
  BY <1>4, ScanImportInv
<1>5. CASE ImportScanFails
  BY <1>5, ImportScanFailsInv
<1>6. CASE SerialFails
  BY <1>6, SerialFailsInv
<1>7. ASSUME NEW c \in Clients, NEW kind \in Kinds, AnswerAtOnce(c, kind)
      PROVE  GoInv'
  BY <1>7, AnswerAtOnceInv
<1>8. ASSUME NEW c \in Clients, NEW kind \in Kinds, OpenSign(c, kind)
      PROVE  GoInv'
  BY <1>8, OpenSignInv
<1>9. ASSUME NEW c \in Clients, SendSign(c)
      PROVE  GoInv'
  BY <1>9, SendSignInv
<1>10. ASSUME NEW c \in Clients, SendGetKeys(c)
       PROVE  GoInv'
  BY <1>10, SendGetKeysInv
<1>11. ASSUME NEW c \in Clients, ReadPort(c)
       PROVE  GoInv'
  BY <1>0, <1>11, ReadPortInv
<1>12. ASSUME NEW c \in Clients, ScanOn(c)
       PROVE  GoInv'
  BY <1>12, ScanOnInv
<1>13. ASSUME NEW c \in Clients, ScanEnds(c)
       PROVE  GoInv'
  BY <1>13, ScanEndsInv
<1>14. ASSUME NEW c \in Clients, ScanFails(c)
       PROVE  GoInv'
  BY <1>14, ScanFailsInv
<1>15. CASE UNCHANGED vars
  <2>1. AloneInv => AloneInv'
    BY <1>15, AloneUnchanged DEF vars, handlers, board
  <2>2. QED
    BY <1>15, <2>1 DEF vars, handlers, board, GoInv, ResponseFits, IdleInv
<1>16. QED
  BY <1>1, <1>2, <1>3, <1>4, <1>5, <1>6, <1>7, <1>8, <1>9, <1>10, <1>11, <1>12, <1>13,
     <1>14, <1>15
     DEF Next, Handler

LEMMA UndisturbedStep == UndisturbedInv /\ [Next]_vars => UndisturbedInv'
  BY TypeStep, GoInvStep DEF UndisturbedInv

\* Whatever overlaps and fails, the queues of the board and of the port hold commands
\* and lines of the users of the port, and the responses are made of such lines.
THEOREM GoTypeCorrect == Spec => []GoTypeOK
<1>1. Init => GoTypeOK
  BY InitialInv DEF UndisturbedInv
<1>2. QED
  BY <1>1, TypeStep, PTL DEF Spec

\* With any number of clients, of requests that overlap and of failures: every
\* response of a signHandler or publicKeysHandler that nobody disturbed is made of
\* the lines that the board printed for this request; it is 404 only for keys that
\* the board has not, and holds no signature that was not made for it.
THEOREM ResponsesFit == Spec => []ResponseFits
<1>1. UndisturbedInv => ResponseFits
  BY DEF UndisturbedInv, GoInv
<1>2. QED
  BY <1>1, InitialInv, UndisturbedStep, PTL DEF Spec
=============================================================================
