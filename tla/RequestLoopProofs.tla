------------------------- MODULE RequestLoopProofs --------------------------
(***************************************************************************)
(* Proofs about RequestLoop, for buffers of every size, every set of       *)
(* requests and every way of cutting them into reads.                      *)
(***************************************************************************)
EXTENDS RequestLoop, FiniteSetTheorems, SequenceTheorems, NaturalsInduction,
        WellFoundedInduction, TLAPS

\* Only the first cell of a request holds a method.
IsStart(cell) == cell.part \in {"GET", "POST"}

(***************************************************************************)
(* What the loop is still to parse: the n cells in use of buffer b, then   *)
(* the stream s.  While a response is sent the buffer holds none of it.    *)
(***************************************************************************)
Unread(b, n, s) ==
  [i \in 1 .. n + Len(s) |-> IF i <= n THEN b[i - 1] ELSE s[i - n]]

InUse == IF pc = "recv" THEN len ELSE 0

\* Of m cells f: the i-th one, if there is one, starts a request.
BoundaryAt(f, m, i) == i <= m => IsStart(f[i])

\* A whole request starts at the i-th cell, and another one behind it.
WholeAt(f, m, i) ==
  LET r == f[i].req
      l == Len(Form[r].parts)
  IN  /\ i + l - 1 <= m
      /\ \A j \in 1 .. l : f[i + j - 1] = Cell(r, Form[r].parts[j])
      /\ BoundaryAt(f, m, i + l)

(***************************************************************************)
(* Wherever a request starts the rest of it follows, although what is in   *)
(* front of it may have been thrown away at any cell.  A response that is  *)
(* the first cell of the request itself (see "body") may be left in the    *)
(* buffer when sending it fails; what follows it is another request.       *)
(***************************************************************************)
Leftover == setting.transport = "lte" /\ "body" \in setting.failures

Chained(f, m) ==
  \A i \in 1 .. m :
    IsStart(f[i]) => WholeAt(f, m, i) \/ (Leftover /\ BoundaryAt(f, m, i + 1))

Reliable == setting.failures \cap {"recv", "hangup"} = {}

ChainInv ==
  Reliable =>
    /\ Chained(Unread(buf, InUse, stream), InUse + Len(stream))
    /\ (pc = "send" /\ setting.transport # "wifi") =>
         \/ \A i \in 0 .. len - 1 : ~IsStart(buf[i])
         \/ /\ "body" \in setting.failures /\ len = 1
            /\ stream # << >> => IsStart(stream[1])
    /\ handled = << >> \/ \E r \in Requests : handled = CellsOf(r)

(***************************************************************************)
(* Whose cells they are.  Of what is to be parsed, a request that starts   *)
(* is the client's; while clients wait, one waits for it, and it ends      *)
(* where the cells end (or is a first cell that is left of it).            *)
(***************************************************************************)
Calm == "impatient" \notin setting.failures

Owned(f, m) ==
  \A i \in 1 .. m :
    IsStart(f[i]) =>
      /\ client # NoReq => f[i].req = client
      /\ Calm => /\ client # NoReq
                 /\ i + Len(Form[f[i].req].parts) - 1 = m \/ i = m

\* What is sent for request r: a response, or its own first cell (see "body").
Sendable(r) == Whole(r) \cup {<<Cell(r, part)>> : part \in {"GET", "POST"}}

\* Cells that ResponseOwn lets client r have.
OwnCells(r, c) ==
  /\ c # << >>
  /\ \A i \in DOMAIN c : c[i].req = r
  /\ /\ c[1].part = "status"
     /\ setting.transport = "uart" => Len(c) <= Fifo
     => c \in Whole(r)

(***************************************************************************)
(* Cells c are sent for request r, whose client may have left.  What is on *)
(* the wire is a part of them, but for the serial line: there it is what   *)
(* whole fills of the FIFO took, each from the front of the buffer.        *)
(***************************************************************************)
Sending(r, c) ==
  /\ \A i \in 1 .. Len(c) : buf[i - 1] = c[i]
  /\ client # NoReq => client = r
  /\ 1 <= len /\ len <= Len(c)
  /\ setting.transport # "uart" =>
       /\ Len(wire) + len = Len(c)
       /\ \A i \in 1 .. Len(wire) : wire[i] = c[i]
  /\ setting.transport = "uart" =>
       /\ \A i \in 1 .. Len(wire) : wire[i].req = r
       /\ (wire = << >> /\ len = Len(c)) \/ Len(wire) >= Fifo

OwnInv ==
  Orderly =>
    /\ Owned(Unread(buf, InUse, stream), InUse + Len(stream))
    /\ pc = "send" =>
         /\ \E r \in Requests : \E c \in Sendable(r) : Sending(r, c)
         /\ Calm => stream = << >> /\ client # NoReq
    /\ (setting.transport = "wifi" /\ pc = "recv" /\ stream = << >>) => len = 0
    /\ ResponseOwn

-----------------------------------------------------------------------------
(***************************************************************************)
(* The operators of parseRequest.                                          *)
(***************************************************************************)
\* The numbers of the model.
LEMMA Sizes ==
  /\ MAXBUF \in Nat /\ MAXBUF >= 2 /\ Limit \in Nat /\ Limit < MAXBUF
  /\ Fifo \in Nat /\ Fifo >= 1 /\ SIZE_MAX \in Nat /\ MAXBUF < SIZE_MAX
  /\ Index \subseteq Nat /\ \A i : i \in Index <=> i \in Nat /\ i < MAXBUF
  BY RequestLoopAssumption DEF Index

\* The form of a request.
LEMMA Parts ==
  ASSUME NEW r \in Requests
  PROVE  /\ Form[r].parts \in Seq(RequestParts) /\ Len(Form[r].parts) \in Nat
         /\ DOMAIN Form[r].parts = 1 .. Len(Form[r].parts)
         /\ \A i \in 1 .. Len(Form[r].parts) : Form[r].parts[i] \in RequestParts
         /\ MAXBUF + Len(Form[r].parts) < SIZE_MAX
         /\ r # NoReq
<1>1. Form[r].parts \in Seq(RequestParts)
  BY RequestLoopAssumption
<1>2. MAXBUF + Len(Form[r].parts) < SIZE_MAX /\ r # NoReq
  BY RequestLoopAssumption
<1>3. QED
  BY <1>1, <1>2

\* A cell with a part of a request belongs to a request.
LEMMA CellFacts ==
  ASSUME NEW x \in Cells
  PROVE  /\ x = Nul <=> x.part = "nul"
         /\ x.part # "nul" => x.req \in Requests /\ x = Cell(x.req, x.part)
         /\ x.part \in RequestParts \cup ResponseParts \cup {"nul"}
  BY DEF Cells, Nul, Cell, RequestParts, ResponseParts

\* A set of natural numbers has a least member.
LEMMA MinInSet ==
  ASSUME NEW S \in SUBSET Nat, S # {}
  PROVE  Min(S) \in S /\ \A y \in S : Min(S) <= y
<1>1. \E x \in S : \A y \in S : x <= y
  <2> DEFINE less == {ss \in Nat \X Nat : ss[1] < ss[2]}
  <2>1. IsWellFoundedOn(less, Nat)
    BY NatLessThanWellFounded, Zenon DEF OpToRel
  <2>2. \E x \in S : \A y \in S : <<y, x>> \notin less
    BY <2>1, WFMin
  <2>3. \A x, y \in Nat : <<y, x>> \notin less => x <= y
    OBVIOUS
  <2> HIDE DEF less
  <2>4. QED
    BY <2>2, <2>3
<1>2. QED
  BY <1>1 DEF Min

\* It is the one that no other is below.
LEMMA MinIs ==
  ASSUME NEW S \in SUBSET Nat, NEW x \in S, \A y \in S : x <= y
  PROVE  Min(S) = x
<1>1. Min(S) \in S /\ Min(S) <= x /\ x <= Min(S)
  BY MinInSet
<1>2. Min(S) \in Nat /\ x \in Nat
  BY <1>1
<1>3. QED
  BY <1>1, <1>2

\* The cells in the text are some of the buffer.
LEMMA PositionsInIndex ==
  ASSUME NEW b, NEW part
  PROVE  Positions(b, part) \subseteq Index /\ Positions(b, part) \subseteq Nat
<1>1. Positions(b, part) \subseteq Index
  BY DEF Positions, Text
<1>2. QED
  BY <1>1, Sizes

\* A Content-Length is at most the length of its request.
LEMMA AtoiBound ==
  ASSUME NEW cell, cell.req \in Requests
  PROVE  atoi(cell) \in Nat /\ atoi(cell) <= Len(Form[cell.req].parts)
<1> DEFINE parts == Form[cell.req].parts
           bodies == {i \in DOMAIN parts : parts[i] = "body"}
<1>1. Len(parts) \in Nat /\ DOMAIN parts = 1 .. Len(parts)
  BY Parts
<1>2. IsFiniteSet(1 .. Len(parts)) /\ Cardinality(1 .. Len(parts)) = Len(parts)
  <2> DEFINE m == Len(parts)
  <2>1. m \in Nat
    BY <1>1
  <2> HIDE DEF m
  <2>2. IsFiniteSet(1 .. m) /\ Cardinality(1 .. m) = IF 1 > m THEN 0 ELSE m - 1 + 1
    BY <2>1, FS_Interval
  <2>3. QED
    BY <2>1, <2>2 DEF m
<1>3. bodies \subseteq 1 .. Len(parts)
  BY <1>1
<1> HIDE DEF bodies
<1>4. IsFiniteSet(bodies) /\ Cardinality(bodies) <= Len(parts)
  BY <1>2, <1>3, FS_Subset
<1>5. Cardinality(bodies) \in Nat
  BY <1>4, FS_CardinalityType
<1>6. atoi(cell) = Cardinality(bodies)
  BY DEF atoi, bodies
<1>7. QED
  BY <1>4, <1>5, <1>6

\* A full buffer that holds the beginning of a POST without Content-Length.
HeadOnly(b) == b[0].part = "POST" /\ \A i \in Index \ {0} : b[i].part = "header"

\* After a failed read, with n = -1, parseRequest never asks for more cells.
LEMMA NegativeSize ==
  ASSUME NEW b \in [Index -> Cells], ~HeadOnly(b)
  PROVE  /\ lengthCheck(b, -1) # -2
         /\ lengthCheck(b, -1) = 0 => phr_parse_request(b, -1) # -2
<1> DEFINE lengths == Positions(b, "length")
           ends == {i \in Positions(b, "end") : b[0].part = "POST" => Min(lengths) <= i}
<1>1. size_t(-1) = SIZE_MAX /\ Limit < SIZE_MAX
  <2>1. size_t(-1) = SIZE_MAX
    BY Sizes DEF size_t
  <2>2. QED
    BY <2>1, Sizes
<1>2. Discard(-1) = -1
  BY <1>1, Sizes DEF Discard
<1>3. CASE b[0].part \notin {"GET", "POST"}
  BY <1>3 DEF lengthCheck
<1>4. CASE b[0].part = "GET"
  <2>1. ends = Positions(b, "end")
    BY <1>4
  <2>2. lengthCheck(b, -1) = IF ends = {} THEN Discard(-1) ELSE 0
    BY <1>4 DEF lengthCheck
  <2>3. ends # {} => phr_parse_request(b, -1) # -2
    <3> SUFFICES ASSUME NEW i \in Positions(b, "end")
                 PROVE  phr_parse_request(b, -1) # -2
      BY <2>1
    <3>1. i \in Index /\ b[i].part = "end" /\ i < size_t(-1)
      <4>1. i \in Index /\ b[i].part = "end"
        BY PositionsInIndex DEF Positions
      <4>2. i < SIZE_MAX
        BY <4>1, Sizes
      <4>3. QED
        BY <1>1, <4>1, <4>2
    <3>2. {j \in {l \in Index : l < size_t(-1)} : b[j].part = "end"} # {}
      BY <3>1
    <3>3. QED
      BY <3>2 DEF phr_parse_request
  <2>4. QED
    BY <1>2, <2>2, <2>3
<1>5. CASE b[0].part = "POST" /\ lengths = {}
  <2>1. lengthCheck(b, -1) = 0
    BY <1>1, <1>5, Sizes DEF lengthCheck
  <2>2. ASSUME phr_parse_request(b, -1) = -2
        PROVE  FALSE
    <3>1. {i \in Index : i < SIZE_MAX} = Index
      BY Sizes
    <3>2. \A i \in Index \ {0} : b[i].part \in {"header", "length"}
      BY <1>1, <2>2, <3>1 DEF phr_parse_request
    <3>3. \A i \in Index : b[i] # Nul
      BY <1>5, <3>2 DEF Nul, Cell
    <3>4. Text(b) = Index
      BY <3>3, Sizes DEF Text
    <3>5. \A i \in Index : b[i].part # "length"
      BY <1>5, <3>4 DEF Positions
    <3>6. QED
      BY <1>5, <3>2, <3>5 DEF HeadOnly
  <2>3. QED
    BY <2>1, <2>2
<1>6. CASE b[0].part = "POST" /\ lengths # {} /\ ends = {}
  BY <1>2, <1>6 DEF lengthCheck
<1>7. CASE b[0].part = "POST" /\ lengths # {} /\ ends # {}
  <2> DEFINE p == Min(lengths)
             explen == Min(ends) + 1 + atoi(b[p])
  <2>1. p \in Index /\ b[p].part = "length"
    BY <1>7, PositionsInIndex, MinInSet DEF Positions
  <2>2. b[p].req \in Requests
    BY <2>1, CellFacts
  <2>3. Min(ends) \in Index
    <3>1. ends \subseteq Index /\ ends \subseteq Nat
      BY PositionsInIndex
    <3> HIDE DEF ends
    <3>2. QED
      BY <1>7, <3>1, MinInSet
  <2>4. explen \in Nat /\ explen < SIZE_MAX
    <3>1. atoi(b[p]) \in Nat /\ atoi(b[p]) <= Len(Form[b[p].req].parts)
      BY <2>2, AtoiBound
    <3>2. MAXBUF + Len(Form[b[p].req].parts) < SIZE_MAX /\ Len(Form[b[p].req].parts) \in Nat
      BY <2>2, Parts
    <3>3. Min(ends) \in Nat /\ Min(ends) < MAXBUF
      BY <2>3, Sizes
    <3> HIDE DEF ends, p
    <3>4. QED
      BY <3>1, <3>2, <3>3, Sizes
  <2>5. lengthCheck(b, -1) = IF size_t(-1) > explen THEN -1
                             ELSE IF size_t(-1) < explen THEN -2 ELSE 0
    BY <1>7 DEF lengthCheck
  <2> HIDE DEF explen
  <2>6. lengthCheck(b, -1) = -1
    BY <1>1, <2>4, <2>5, Sizes
  <2>7. QED
    BY <2>6
<1>8. QED
  BY <1>3, <1>4, <1>5, <1>6, <1>7

\* What parseRequest makes of any buffer.
LEMMA ParseBasics ==
  ASSUME NEW b \in [Index -> Cells], NEW n \in -1 .. MAXBUF, NEW pr \in parseRequest(b, n)
  PROVE  /\ pr \in {0, -1, -2, -3}
         /\ pr = -2 => n >= 0 \/ HeadOnly(b)
         /\ pr \in {0, -3} =>
              /\ b[0].req \in Requests /\ IsStart(b[0])
              /\ lengthCheck(b, n) = 0 /\ phr_parse_request(b, n) = 0
              /\ b[0].part = "GET" => Positions(b, "end") # {}
<1>1. 0 \in Index /\ b[0] \in Cells
  BY Sizes
<1>2. lengthCheck(b, n) \in {0, -1, -2} /\ phr_parse_request(b, n) \in {0, -1, -2}
  BY DEF lengthCheck, phr_parse_request, Discard
<1>3. lengthCheck(b, n) = 0 => /\ IsStart(b[0])
                               /\ b[0].part = "GET" => Positions(b, "end") # {}
  BY DEF lengthCheck, IsStart, Discard
<1>4. pr \in {0, -3} => lengthCheck(b, n) = 0 /\ phr_parse_request(b, n) = 0
  BY <1>2 DEF parseRequest
<1>5. pr \in {0, -1, -2, -3}
  BY <1>2 DEF parseRequest
<1>6. pr = -2 => n >= 0 \/ HeadOnly(b)
  <2> SUFFICES ASSUME n = -1, ~HeadOnly(b)
               PROVE  pr # -2
    BY Sizes
  <2>1. /\ lengthCheck(b, n) # -2
        /\ lengthCheck(b, n) = 0 => phr_parse_request(b, n) # -2
    BY NegativeSize
  <2>2. QED
    BY <1>2, <2>1 DEF parseRequest
<1>7. IsStart(b[0]) => b[0].req \in Requests
  BY <1>1, CellFacts DEF IsStart
<1>8. QED
  BY <1>3, <1>4, <1>5, <1>6, <1>7

-----------------------------------------------------------------------------
(***************************************************************************)
(* Types.  That len stays in the buffer needs more than the types when a   *)
(* read fails: parseRequest must not ask for more with n = -1, and would   *)
(* if the buffer were full of headers.  While it is that, len is MAXBUF.   *)
(***************************************************************************)
LoopInv ==
  /\ TypeOK
  /\ pc = "recv" \/ setting.transport = "lte" => wire = << >>
  /\ (pc = "send" /\ setting.transport = "wifi") => Len(wire) + len <= MAXBUF
  /\ (setting.transport = "lte" /\ HeadOnly(buf)) => pc = "recv" /\ len = MAXBUF

\* A response, and the buffer it is written to.
LEMMA ResponseFacts ==
  ASSUME NEW r \in Requests, NEW parts \in {Short, Long}, NEW b \in [Index -> Cells]
  PROVE  /\ Len(parts) \in {1, 2} /\ Len(Response(r, parts)) = Len(parts)
         /\ Response(r, parts) \in Seq(Cells)
         /\ Written(b, Response(r, parts)) \in [Index -> Cells]
         /\ \A i \in 1 .. Len(parts) :
              /\ Written(b, Response(r, parts))[i - 1] = Cell(r, parts[i])
              /\ Response(r, parts)[i] = Cell(r, parts[i])
              /\ parts[i] \in ResponseParts
<1>1. /\ Len(parts) \in {1, 2} /\ parts[1] = "status"
      /\ Len(parts) = 2 => parts[2] = "rest"
  BY DEF Short, Long
<1>2. \A i \in 1 .. Len(parts) : parts[i] \in ResponseParts /\ Cell(r, parts[i]) \in Cells
  BY <1>1 DEF Cells, Cell, ResponseParts
<1>3. /\ Response(r, parts) \in Seq(Cells) /\ Len(Response(r, parts)) = Len(parts)
      /\ \A i \in 1 .. Len(parts) : Response(r, parts)[i] = Cell(r, parts[i])
  BY <1>1, <1>2 DEF Response
<1>4. Nul \in Cells
  BY DEF Cells
<1>5. Written(b, Response(r, parts)) \in [Index -> Cells]
  BY <1>1, <1>3, <1>4, Sizes DEF Written
<1>6. \A i \in 1 .. Len(parts) : Written(b, Response(r, parts))[i - 1] = Cell(r, parts[i])
  BY <1>1, <1>3, Sizes DEF Written
<1>7. QED
  BY <1>1, <1>2, <1>3, <1>5, <1>6

\* The terminator.
LEMMA TerminatedFacts ==
  ASSUME NEW b \in [Index -> Cells], NEW n \in -1 .. MAXBUF
  PROVE  /\ Terminated(b, n) \in [Index -> Cells]
         /\ \A i \in Index : i < n => Terminated(b, n)[i] = b[i]
         /\ \A i \in Index : Terminated(b, n)[i] \in {b[i], Nul}
         /\ (lengthCheck(b, n) = 0 /\ n \in Index) => Terminated(b, n)[n] = Nul
<1>1. Nul \in Cells /\ Index \subseteq Nat
  BY Sizes DEF Cells
<1>2. QED
  BY <1>1 DEF Terminated

\* What is handled is a sequence of cells.
LEMMA RequestIsSeq ==
  ASSUME NEW b \in [Index -> Cells], NEW n \in -1 .. MAXBUF,
         b[0].part = "GET" => Positions(b, "end") # {}
  PROVE  Request(b, n) \in Seq(Cells)
<1> DEFINE last == IF b[0].part = "GET" THEN Min(Positions(b, "end")) ELSE n - 1
<1>1. last + 1 \in -1 .. MAXBUF
  <2>1. CASE b[0].part = "GET"
    <3>1. Min(Positions(b, "end")) \in Index
      BY <2>1, PositionsInIndex, MinInSet
    <3>2. QED
      BY <2>1, <3>1, Sizes
  <2>2. CASE b[0].part # "GET"
    BY <2>2, Sizes
  <2>3. QED
    BY <2>1, <2>2
<1>2. Request(b, n) = [i \in 1 .. last + 1 |-> b[i - 1]]
  BY DEF Request
<1> HIDE DEF last
<1>3. \A i \in 1 .. last + 1 : b[i - 1] \in Cells
  BY <1>1, Sizes
<1>4. CASE last + 1 \in Nat
  BY <1>2, <1>3, <1>4
<1>5. CASE last + 1 = -1
  <2>1. 1 .. last + 1 = 1 .. 0
    BY <1>5
  <2>2. [i \in 1 .. 0 |-> b[i - 1]] \in Seq(Cells)
    OBVIOUS
  <2>3. QED
    BY <1>2, <2>1, <2>2
<1>6. QED
  BY <1>1, <1>4, <1>5

\* A full buffer of headers without a Content-Length is waited on.
LEMMA HeadOnlyParse ==
  ASSUME NEW b \in [Index -> Cells], HeadOnly(b), NEW n \in Limit .. MAXBUF
  PROVE  lengthCheck(b, n) = 0 /\ phr_parse_request(b, n) = -2
<1>1. \A i \in Index : b[i].part \in {"POST", "header"}
  BY DEF HeadOnly
<1>2. Positions(b, "length") = {}
  BY <1>1 DEF Positions, Text
<1>3. size_t(n) = n /\ ~(n < Limit) /\ n \in Nat
  BY Sizes DEF size_t
<1>4. lengthCheck(b, n) = 0
  BY <1>2, <1>3 DEF lengthCheck, HeadOnly
<1>5. {i \in {j \in Index : j < size_t(n)} : b[i].part = "end"} = {}
  BY <1>1
<1>6. phr_parse_request(b, n) = -2
  BY <1>5 DEF phr_parse_request, HeadOnly
<1>7. QED
  BY <1>4, <1>6

(***************************************************************************)
(* What an iteration does with n cells in buffer b: it waits for more, it  *)
(* throws them away, or it handles them.                                   *)
(***************************************************************************)
Waits(b, n) ==
  /\ -2 \in parseRequest(b, n)
  /\ buf' = Terminated(b, n) /\ len' = n /\ pc' = pc /\ handled' = handled

Discards(b, n) ==
  /\ -1 \in parseRequest(b, n)
  /\ buf' = Terminated(b, n) /\ len' = 0 /\ pc' = pc /\ handled' = handled

Responds(b, n) ==
  /\ b[0].req \in Requests /\ IsStart(b[0])
  /\ lengthCheck(b, n) = 0 /\ phr_parse_request(b, n) = 0
  /\ b[0].part = "GET" => Positions(b, "end") # {}
  /\ pc' = "send" /\ handled' = Request(b, n)
  /\ \/ \E c \in [Index -> Cells], parts \in {Short, Long} :
          buf' = Written(c, Response(b[0].req, parts)) /\ len' = Len(parts)
     \/ /\ Form[b[0].req].kind = "importKey" /\ "body" \in setting.failures
        /\ buf' = Terminated(b, n) /\ len' = 1

\* The rest of an iteration does one of these.
LEMMA ProcessCases ==
  ASSUME NEW b \in [Index -> Cells], NEW n \in -1 .. MAXBUF, Process(b, n)
  PROVE  Waits(b, n) \/ Discards(b, n) \/ Responds(b, n)
<1> DEFINE r == b[0].req
           c == Terminated(b, n)
           Outcome ==
             \/ \E d \in [Index -> Cells], parts \in {Short, Long} :
                  buf' = Written(d, Response(r, parts)) /\ len' = Len(parts)
             \/ /\ Form[r].kind = "importKey" /\ "body" \in setting.failures
                /\ buf' = c /\ len' = 1
<1>1. c \in [Index -> Cells] /\ Blank \in [Index -> Cells] /\ Len(Short) = 1
  BY TerminatedFacts DEF Blank, Cells, Short
<1> HIDE DEF c
<1>2. ASSUME BadRequest(r) PROVE Outcome
  BY <1>1, <1>2 DEF BadRequest
<1>3. ASSUME dumpHttpResponse(c, r) PROVE Outcome
  BY <1>1, <1>2, <1>3 DEF dumpHttpResponse
<1> HIDE DEF Outcome
<1>4. ASSUME NEW pr \in parseRequest(b, n), pr \in {0, -3},
             pc' = "send", handled' = Request(b, n), Outcome
      PROVE  Responds(b, n)
  BY <1>4, ParseBasics DEF Responds, Outcome, c
<1>5. QED
  BY <1>2, <1>3, <1>4 DEF Process, Waits, Discards, c

\* The buffer after k cells were read, and what is left of the stream.
LEMMA FilledFacts ==
  ASSUME TypeOK, NEW k \in 0 .. MAXBUF, k <= Len(stream), k <= MAXBUF - len
  PROVE  /\ Filled(k) \in [Index -> Cells] /\ len + k \in 0 .. MAXBUF
         /\ \A i \in Index : i < len + k =>
              Filled(k)[i] = IF i < len THEN buf[i] ELSE stream[i - len + 1]
         /\ (setting.transport = "lte" /\ len + k \in Index) => Filled(k)[len + k] = Nul
<1>1. Nul \in Cells /\ Index \subseteq Nat /\ MAXBUF \in Nat
  BY Sizes DEF Cells
<1>2. len \in Nat /\ len <= MAXBUF /\ stream \in Seq(Cells) /\ Len(stream) \in Nat
  BY <1>1 DEF TypeOK
<1>3. \A i \in Index : len <= i /\ i < len + k => stream[i - len + 1] \in Cells
  BY <1>1, <1>2
<1>4. Filled(k) \in [Index -> Cells]
  BY <1>1, <1>2, <1>3 DEF Filled, TypeOK
<1>5. len + k \in 0 .. MAXBUF /\ len + k \in Nat
  BY <1>1, <1>2
<1>6. \A i \in Index : i < len + k =>
        Filled(k)[i] = IF i < len THEN buf[i] ELSE stream[i - len + 1]
  <2> SUFFICES ASSUME NEW i \in Index, i < len + k
               PROVE  Filled(k)[i] = IF i < len THEN buf[i] ELSE stream[i - len + 1]
    OBVIOUS
  <2>1. i \in Nat /\ i # len + k /\ (len <= i <=> ~(i < len))
    BY <1>1, <1>2
  <2>2. QED
    BY <2>1 DEF Filled
<1>7. (setting.transport = "lte" /\ len + k \in Index) => Filled(k)[len + k] = Nul
  <2>1. ~(len + k < len + k)
    BY <1>5
  <2>2. QED
    BY <2>1 DEF Filled
<1>8. QED
  BY <1>4, <1>5, <1>6, <1>7

\* What is left of a stream when k cells of it were read.
LEMMA RestOfStream ==
  ASSUME NEW s \in Seq(Cells), NEW k \in Nat, k <= Len(s)
  PROVE  /\ SubSeq(s, k + 1, Len(s)) \in Seq(Cells)
         /\ Len(SubSeq(s, k + 1, Len(s))) = Len(s) - k
         /\ \A i \in 1 .. Len(s) - k : SubSeq(s, k + 1, Len(s))[i] = s[k + i]
<1>1. Len(s) \in Nat
  OBVIOUS
<1>2. QED
  BY <1>1

\* Cells of the buffer that are sent.
LEMMA FrontIsSeq ==
  ASSUME TypeOK, NEW from \in Nat, NEW k \in Nat, from + k <= MAXBUF
  PROVE  Front(from, k) \in Seq(Cells) /\ Len(Front(from, k)) = k
<1>1. \A i \in 1 .. k : from + i - 1 \in Index
  BY Sizes
<1>2. \A i \in 1 .. k : buf[from + i - 1] \in Cells
  BY <1>1 DEF TypeOK
<1>3. QED
  BY <1>2 DEF Front

\* Requests are sequences of cells.
LEMMA CellsOfFacts ==
  ASSUME NEW r \in Requests
  PROVE  /\ CellsOf(r) \in Seq(Cells) /\ Len(CellsOf(r)) = Len(Form[r].parts)
         /\ \A i \in 1 .. Len(Form[r].parts) : CellsOf(r)[i] = Cell(r, Form[r].parts[i])
<1>1. \A i \in 1 .. Len(Form[r].parts) : Cell(r, Form[r].parts[i]) \in Cells
  BY Parts DEF Cell, Cells
<1>2. Len(Form[r].parts) \in Nat
  BY Parts
<1>3. QED
  BY <1>1, <1>2 DEF CellsOf

\* An iteration keeps the types; headers that fill the buffer stay in it.
LEMMA ProcessTypes ==
  ASSUME NEW b \in [Index -> Cells], NEW n \in -1 .. MAXBUF, Process(b, n),
         HeadOnly(b) => n >= 0, pc = "recv", handled \in Seq(Cells)
  PROVE  /\ buf' \in [Index -> Cells] /\ len' \in 0 .. MAXBUF
         /\ pc' \in {"recv", "send"} /\ handled' \in Seq(Cells)
         /\ pc' = "send" => len' \in {1, 2}
         /\ (HeadOnly(b) => n \in Limit .. MAXBUF) =>
              (HeadOnly(buf') => pc' = "recv" /\ len' = MAXBUF)
<1>1. 0 \in Index /\ MAXBUF - 1 \in Index \ {0} /\ MAXBUF \in Nat /\ MAXBUF >= 2
  BY Sizes
<1>2. Terminated(b, n) \in [Index -> Cells]
  BY TerminatedFacts
<1>3. HeadOnly(Terminated(b, n)) => HeadOnly(b)
  <2>1. \A i \in Index : Terminated(b, n)[i] \in {b[i], Nul}
    BY TerminatedFacts
  <2>2. Nul.part = "nul"
    BY DEF Nul, Cell
  <2>3. QED
    BY <1>1, <2>1, <2>2 DEF HeadOnly
<1>4. ASSUME HeadOnly(Terminated(b, n)), HeadOnly(b) => n \in Limit .. MAXBUF
      PROVE  n = MAXBUF /\ parseRequest(b, n) = {-2}
  <2>1. HeadOnly(b) /\ n \in Limit .. MAXBUF
    BY <1>3, <1>4
  <2>2. lengthCheck(b, n) = 0 /\ phr_parse_request(b, n) = -2
    BY <2>1, HeadOnlyParse
  <2>3. n \notin Index
    <3>1. n \in Index => Terminated(b, n)[n] = Nul
      BY <2>2, TerminatedFacts
    <3>2. n \in Index => Terminated(b, n)[n].part \in {"POST", "header"}
      BY <1>4 DEF HeadOnly
    <3>3. QED
      BY <3>1, <3>2 DEF Nul, Cell
  <2>4. QED
    BY <2>1, <2>2, <2>3, Sizes DEF parseRequest
<1>5. CASE Waits(b, n)
  <2>1. n >= 0 \/ HeadOnly(b)
    BY <1>5, ParseBasics DEF Waits
  <2>2. n >= 0
    BY <2>1, Sizes
  <2>3. QED
    BY <1>2, <1>4, <1>5, <2>2 DEF Waits
<1>6. CASE Discards(b, n)
  BY <1>1, <1>2, <1>4, <1>6 DEF Discards
<1>7. CASE Responds(b, n)
  <2>1. handled' \in Seq(Cells) /\ pc' = "send"
    BY <1>7, RequestIsSeq DEF Responds
  <2>2. CASE \E c \in [Index -> Cells], parts \in {Short, Long} :
               buf' = Written(c, Response(b[0].req, parts)) /\ len' = Len(parts)
    <3>1. PICK c \in [Index -> Cells], parts \in {Short, Long} :
               buf' = Written(c, Response(b[0].req, parts)) /\ len' = Len(parts)
      BY <2>2
    <3>2. /\ buf' \in [Index -> Cells] /\ len' \in {1, 2}
          /\ buf'[0] = Cell(b[0].req, parts[1]) /\ parts[1] \in ResponseParts
      <4>1. b[0].req \in Requests
        BY <1>7 DEF Responds
      <4>2. /\ Len(parts) \in {1, 2}
            /\ Written(c, Response(b[0].req, parts)) \in [Index -> Cells]
            /\ \A i \in 1 .. Len(parts) :
                 /\ Written(c, Response(b[0].req, parts))[i - 1] = Cell(b[0].req, parts[i])
                 /\ parts[i] \in ResponseParts
        BY <4>1, ResponseFacts
      <4>3. \A l \in {1, 2} : 1 \in 1 .. l /\ 1 - 1 = 0
        OBVIOUS
      <4>4. QED
        BY <3>1, <4>2, <4>3
    <3>3. ~HeadOnly(buf')
      BY <3>2 DEF HeadOnly, Cell, ResponseParts
    <3>4. QED
      BY <1>1, <2>1, <3>2, <3>3
  <2>3. CASE buf' = Terminated(b, n) /\ len' = 1
    <3>1. phr_parse_request(b, n) = 0
      BY <1>7 DEF Responds
    <3>2. ~(HeadOnly(b) /\ n \in Limit .. MAXBUF)
      BY <3>1, HeadOnlyParse
    <3>3. QED
      BY <1>1, <1>2, <1>3, <2>1, <2>3, <3>2
  <2>4. QED
    BY <1>7, <2>2, <2>3 DEF Responds
<1>8. QED
  BY <1>5, <1>6, <1>7, ProcessCases

\* The start of the program.
LEMMA LoopInvInit == Init => LoopInv
<1>1. SUFFICES ASSUME Init PROVE LoopInv
  OBVIOUS
<1>2. Blank \in [Index -> Cells] /\ ~HeadOnly(Blank) /\ 0 \in 0 .. MAXBUF
  <2>1. 0 \in Index /\ MAXBUF \in Nat
    BY Sizes
  <2>2. Blank[0].part = "nul"
    BY <2>1 DEF Blank, Nul, Cell
  <2>3. QED
    BY <2>1, <2>2 DEF Blank, HeadOnly, Cells
<1>3. << >> \in Seq(Cells) /\ NoAnswer \in [to : Requests \cup {NoReq}, cells : Seq(Cells)]
  BY DEF NoAnswer
<1>4. QED
  BY <1>1, <1>2, <1>3 DEF Init, LoopInv, TypeOK

\* A read that succeeds.
LEMMA ReceiveTypes ==
  ASSUME LoopInv, NEW k \in 0 .. MAXBUF, Receive(k), setting' = setting
  PROVE  LoopInv'
<1>1. /\ TypeOK /\ pc = "recv" /\ k <= Len(stream) /\ k <= MAXBUF - len /\ k \in Nat
      /\ Process(Filled(k), len + k) /\ stream' = SubSeq(stream, k + 1, Len(stream))
      /\ client' = client /\ wire' = wire /\ answer' = answer /\ wire = << >>
  BY DEF LoopInv, Receive
<1>2. /\ Filled(k) \in [Index -> Cells] /\ len + k \in 0 .. MAXBUF
      /\ (setting.transport = "lte" /\ len + k \in Index) => Filled(k)[len + k] = Nul
  BY <1>1, FilledFacts
<1>3. stream' \in Seq(Cells)
  BY <1>1, RestOfStream DEF TypeOK
<1>4. len + k \in -1 .. MAXBUF /\ len + k >= 0
  BY <1>2, Sizes
<1>5. (setting.transport = "lte" /\ HeadOnly(Filled(k))) => len + k \in Limit .. MAXBUF
  <2>1. HeadOnly(Filled(k)) => \A i \in Index : Filled(k)[i] # Nul
    BY DEF HeadOnly, Nul, Cell
  <2>2. QED
    BY <1>2, <2>1, Sizes
<1>6. /\ buf' \in [Index -> Cells] /\ len' \in 0 .. MAXBUF
      /\ pc' \in {"recv", "send"} /\ handled' \in Seq(Cells)
      /\ pc' = "send" => len' \in {1, 2}
      /\ (HeadOnly(Filled(k)) => len + k \in Limit .. MAXBUF) =>
           (HeadOnly(buf') => pc' = "recv" /\ len' = MAXBUF)
  <2>1. handled \in Seq(Cells)
    BY <1>1 DEF TypeOK
  <2> DEFINE b == Filled(k)
             n == len + k
  <2>2. b \in [Index -> Cells] /\ n \in -1 .. MAXBUF /\ n >= 0 /\ Process(b, n)
    BY <1>1, <1>2, <1>4
  <2> HIDE DEF b, n
  <2>3. /\ buf' \in [Index -> Cells] /\ len' \in 0 .. MAXBUF
        /\ pc' \in {"recv", "send"} /\ handled' \in Seq(Cells)
        /\ pc' = "send" => len' \in {1, 2}
        /\ (HeadOnly(b) => n \in Limit .. MAXBUF) =>
             (HeadOnly(buf') => pc' = "recv" /\ len' = MAXBUF)
    BY <1>1, <2>1, <2>2, ProcessTypes
  <2>4. QED
    BY <2>3 DEF b, n
<1>7. TypeOK'
  BY <1>1, <1>3, <1>6 DEF TypeOK
<1>8. pc' = "send" => Len(wire') + len' <= MAXBUF
  <2>1. wire' = << >> /\ Len(<< >>) = 0
    BY <1>1
  <2>2. \A l \in {1, 2} : 0 + l <= MAXBUF
    BY Sizes
  <2>3. QED
    BY <1>6, <2>1, <2>2
<1>9. QED
  BY <1>1, <1>5, <1>6, <1>7, <1>8 DEF LoopInv

\* A read that fails.
LEMMA ReceiveFailsTypes ==
  ASSUME LoopInv, ReceiveFails, setting' = setting
  PROVE  LoopInv'
<1>1. /\ TypeOK /\ pc = "recv" /\ Process(buf, len - 1) /\ setting.transport = "lte"
      /\ client' = client /\ wire' = wire /\ answer' = answer /\ wire = << >>
      /\ stream' = stream
  BY DEF LoopInv, ReceiveFails
<1>2. buf \in [Index -> Cells] /\ handled \in Seq(Cells) /\ len \in 0 .. MAXBUF
  BY <1>1 DEF TypeOK
<1>3. len - 1 \in -1 .. MAXBUF
  BY <1>2, Sizes
<1>4. HeadOnly(buf) => len - 1 \in Limit .. MAXBUF /\ len - 1 >= 0
  BY <1>1, Sizes DEF LoopInv
<1>5. /\ buf' \in [Index -> Cells] /\ len' \in 0 .. MAXBUF
      /\ pc' \in {"recv", "send"} /\ handled' \in Seq(Cells)
      /\ HeadOnly(buf') => pc' = "recv" /\ len' = MAXBUF
  <2> DEFINE n == len - 1
  <2>1. n \in -1 .. MAXBUF /\ Process(buf, n) /\ (HeadOnly(buf) => n \in Limit .. MAXBUF /\ n >= 0)
    BY <1>1, <1>3, <1>4
  <2> HIDE DEF n
  <2>2. QED
    BY <1>1, <1>2, <2>1, ProcessTypes
<1>6. TypeOK'
  BY <1>1, <1>5 DEF TypeOK
<1>7. QED
  BY <1>1, <1>5, <1>6 DEF LoopInv

\* What is delivered has the type of an answer.
LEMMA DeliverTypes ==
  ASSUME TypeOK, NEW cells \in Seq(Cells), Deliver(cells)
  PROVE  /\ answer' \in [to : Requests \cup {NoReq}, cells : Seq(Cells)]
         /\ client' \in Requests \cup {NoReq} /\ wire' = << >> /\ wire' \in Seq(Cells)
         /\ pc' = "recv" /\ handled' \in Seq(Cells)
  BY DEF Deliver, TypeOK

\* Sending.
LEMMA SendTypes ==
  ASSUME LoopInv, SendUart \/ SendLte \/ \E k \in 1 .. MAXBUF : SendWifi(k), setting' = setting
  PROVE  LoopInv'
<1>1. /\ TypeOK /\ len \in Nat /\ len <= MAXBUF /\ wire \in Seq(Cells) /\ Len(wire) \in Nat
      /\ Blank \in [Index -> Cells] /\ ~HeadOnly(Blank)
  <2>1. len \in 0 .. MAXBUF /\ wire \in Seq(Cells) /\ TypeOK
    BY DEF LoopInv, TypeOK
  <2>2. 0 \in Index /\ MAXBUF \in Nat
    BY Sizes
  <2>3. Blank[0].part = "nul"
    BY <2>2 DEF Blank, Nul, Cell
  <2>4. QED
    BY <2>1, <2>2, <2>3 DEF Blank, HeadOnly, Cells
<1>2. CASE SendUart
  <2>0. setting.transport = "uart" /\ stream' = stream /\ pc = "send"
    BY <1>2 DEF SendUart
  <2>1. CASE len > Fifo /\ len' = len - Fifo /\ wire' = wire \o Front(0, Fifo)
             /\ UNCHANGED <<client, answer, pc, buf, handled>>
    <3>1. Front(0, Fifo) \in Seq(Cells) /\ len' \in 0 .. MAXBUF
      <4>1. Fifo \in Nat /\ 0 + Fifo <= MAXBUF /\ 0 \in Nat
        BY <1>1, <2>1, Sizes
      <4>2. QED
        BY <1>1, <2>1, <4>1, FrontIsSeq, Sizes
    <3>2. wire' \in Seq(Cells)
      BY <1>1, <2>1, <3>1
    <3>3. QED
      BY <1>1, <2>0, <2>1, <3>1, <3>2 DEF LoopInv, TypeOK
  <2>2. CASE len <= Fifo /\ len' = 0 /\ Deliver(wire \o Front(0, len)) /\ buf' = Blank
    <3>1. Front(0, len) \in Seq(Cells)
      <4>1. 0 + len <= MAXBUF /\ 0 \in Nat
        BY <1>1
      <4>2. QED
        BY <1>1, <4>1, FrontIsSeq
    <3>2. wire \o Front(0, len) \in Seq(Cells)
      BY <1>1, <3>1
    <3>3. /\ answer' \in [to : Requests \cup {NoReq}, cells : Seq(Cells)]
          /\ client' \in Requests \cup {NoReq} /\ wire' = << >> /\ wire' \in Seq(Cells)
          /\ pc' = "recv" /\ handled' \in Seq(Cells)
      BY <1>1, <2>2, <3>2, DeliverTypes
    <3>4. 0 \in 0 .. MAXBUF
      BY Sizes
    <3>5. QED
      BY <1>1, <2>0, <2>2, <3>3, <3>4 DEF LoopInv, TypeOK
  <2>3. CASE len > Fifo /\ len' = len - Fifo /\ pc' = "recv" /\ wire' = << >>
             /\ handled' = << >> /\ UNCHANGED <<client, answer, buf>>
    <3>1. len' \in 0 .. MAXBUF
      BY <1>1, <2>3, Sizes
    <3>2. QED
      BY <1>1, <2>0, <2>3, <3>1 DEF LoopInv, TypeOK
  <2>4. QED
    BY <1>2, <2>1, <2>2, <2>3 DEF SendUart
<1>3. CASE SendLte
  <2>0. setting.transport = "lte" /\ stream' = stream /\ pc = "send" /\ len' = len
    BY <1>3 DEF SendLte
  <2>1. CASE Deliver(Front(0, len)) /\ buf' = Blank
    <3>1. Front(0, len) \in Seq(Cells)
      <4>1. 0 + len <= MAXBUF /\ 0 \in Nat
        BY <1>1
      <4>2. QED
        BY <1>1, <4>1, FrontIsSeq
    <3>2. /\ answer' \in [to : Requests \cup {NoReq}, cells : Seq(Cells)]
          /\ client' \in Requests \cup {NoReq} /\ wire' = << >> /\ wire' \in Seq(Cells)
          /\ pc' = "recv" /\ handled' \in Seq(Cells)
      BY <1>1, <2>1, <3>1, DeliverTypes
    <3>3. QED
      BY <1>1, <2>0, <2>1, <3>2 DEF LoopInv, TypeOK
  <2>2. CASE pc' = "recv" /\ handled' = << >> /\ UNCHANGED <<client, answer, wire, buf>>
    BY <2>0, <2>2 DEF LoopInv, TypeOK
  <2>3. QED
    BY <1>3, <2>1, <2>2 DEF SendLte
<1>4. ASSUME NEW k \in 1 .. MAXBUF, SendWifi(k)
      PROVE  LoopInv'
  <2>0. setting.transport = "wifi" /\ buf' = buf /\ pc = "send" /\ k \in Nat /\ k >= 1
    BY <1>4 DEF SendWifi
  <2>1. ASSUME k <= len
        PROVE  /\ Front(Len(wire), k) \in Seq(Cells) /\ Len(Front(Len(wire), k)) = k
               /\ wire \o Front(Len(wire), k) \in Seq(Cells)
               /\ Len(wire \o Front(Len(wire), k)) = Len(wire) + k
               /\ Len(wire) + len <= MAXBUF
    <3>1. Len(wire) + len <= MAXBUF
      BY <2>0 DEF LoopInv
    <3>2. Len(wire) + k <= MAXBUF
      BY <1>1, <2>0, <2>1, <3>1, Sizes
    <3>3. Front(Len(wire), k) \in Seq(Cells) /\ Len(Front(Len(wire), k)) = k
      BY <1>1, <2>0, <3>2, FrontIsSeq
    <3>4. QED
      BY <1>1, <3>1, <3>3
  <2>2. CASE k <= len /\ len' = len - k /\ len' > 0 /\ wire' = wire \o Front(Len(wire), k)
             /\ UNCHANGED <<client, stream, answer, pc, handled>>
    <3>1. wire' \in Seq(Cells) /\ Len(wire') = Len(wire) + k /\ Len(wire) + len <= MAXBUF
      BY <2>1, <2>2
    <3>2. len' \in 0 .. MAXBUF /\ Len(wire') + len' <= MAXBUF
      BY <1>1, <2>0, <2>2, <3>1, Sizes
    <3>3. QED
      BY <1>1, <2>0, <2>2, <3>1, <3>2 DEF LoopInv, TypeOK
  <2>3. CASE k <= len /\ len' = 0 /\ Deliver(wire \o Front(Len(wire), k)) /\ stream' = << >>
    <3>1. wire \o Front(Len(wire), k) \in Seq(Cells)
      BY <2>1, <2>3
    <3>2. /\ answer' \in [to : Requests \cup {NoReq}, cells : Seq(Cells)]
          /\ client' \in Requests \cup {NoReq} /\ wire' = << >> /\ wire' \in Seq(Cells)
          /\ pc' = "recv" /\ handled' \in Seq(Cells)
      BY <1>1, <2>3, <3>1, DeliverTypes
    <3>3. 0 \in 0 .. MAXBUF /\ << >> \in Seq(Cells)
      BY Sizes
    <3>4. QED
      BY <1>1, <2>0, <2>3, <3>2, <3>3 DEF LoopInv, TypeOK
  <2>4. CASE pc' = "spin" /\ UNCHANGED <<client, stream, answer, wire, len, handled>>
    BY <2>0, <2>4 DEF LoopInv, TypeOK
  <2>5. QED
    BY <1>4, <2>2, <2>3, <2>4 DEF SendWifi
<1>5. QED
  BY <1>2, <1>3, <1>4

\* The clients.
LEMMA ClientTypes ==
  ASSUME LoopInv, Clients
  PROVE  LoopInv'
<1>0. setting' = setting /\ TypeOK /\ stream \in Seq(Cells) /\ setting.requests \subseteq Requests
  <2>1. TypeOK
    BY DEF LoopInv
  <2>2. setting.requests \subseteq Requests
    BY <2>1, RequestLoopAssumption DEF TypeOK
  <2>3. QED
    BY <2>1, <2>2 DEF TypeOK, Clients
<1>1. ASSUME NEW r \in setting.requests, SendRequest(r)
      PROVE  LoopInv'
  <2>1. r \in Requests
    BY <1>0
  <2>2. stream \o CellsOf(r) \in Seq(Cells)
    BY <1>0, <2>1, CellsOfFacts
  <2>3. NoAnswer \in [to : Requests \cup {NoReq}, cells : Seq(Cells)]
    BY DEF NoAnswer
  <2>4. QED
    BY <1>0, <1>1, <2>1, <2>2, <2>3 DEF SendRequest, LoopInv, TypeOK
<1>2. CASE StopWaiting
  BY <1>0, <1>2 DEF StopWaiting, LoopInv, TypeOK
<1>3. ASSUME NEW k \in Index, HangUp(k)
      PROVE  LoopInv'
  <2>1. k \in Nat /\ k < Len(stream) /\ Len(stream) \in Nat
    BY <1>0, <1>3, Sizes DEF HangUp
  <2>2. SubSeq(stream, 1, k) \in Seq(Cells)
    BY <1>0, <2>1
  <2>3. QED
    BY <1>0, <1>3, <2>2 DEF HangUp, LoopInv, TypeOK
<1>4. QED
  BY <1>1, <1>2, <1>3 DEF Clients

\* LoopInv is inductive.
LEMMA LoopInvNext == LoopInv /\ [Next]_vars => LoopInv'
<1>1. ASSUME LoopInv, Board
      PROVE  LoopInv'
  BY <1>1, ReceiveTypes, ReceiveFailsTypes, SendTypes DEF Board
<1>2. ASSUME LoopInv, UNCHANGED vars
      PROVE  LoopInv'
  BY <1>2 DEF vars, LoopInv, TypeOK
<1>3. QED
  BY <1>1, <1>2, ClientTypes DEF Next

\* LoopInv always holds.
LEMMA LoopInvHolds == Spec => []LoopInv
  BY LoopInvInit, LoopInvNext, PTL DEF Spec

(***************************************************************************)
(* The types: the length that is in use stays within the buffer, whatever  *)
(* fails.                                                                  *)
(***************************************************************************)
THEOREM LoopTypeCorrect == Spec => []TypeOK
<1>1. LoopInv => TypeOK
  BY DEF LoopInv
<1>2. QED
  BY <1>1, LoopInvHolds, PTL

-----------------------------------------------------------------------------
(***************************************************************************)
(* What is handled is one whole request.                                   *)
(***************************************************************************)
\* The first cell of a request names it.
LEMMA StartFacts ==
  ASSUME NEW x \in Cells, IsStart(x)
  PROVE  x.req \in Requests /\ Len(Form[x.req].parts) \in Nat
<1>1. x.req \in Requests
  BY CellFacts DEF IsStart
<1>2. QED
  BY <1>1, Parts

\* What throwing cells away leaves is chained: g is f without its first d cells.
LEMMA ChainedSuffix ==
  ASSUME NEW m \in Nat, NEW d \in 0 .. m, NEW f, NEW g, Chained(f, m),
         \A i \in 1 .. m : f[i] \in Cells,
         \A i \in 1 .. m - d : g[i] = f[d + i]
  PROVE  Chained(g, m - d)
<1> SUFFICES ASSUME NEW i \in 1 .. m - d, IsStart(g[i])
             PROVE  \/ WholeAt(g, m - d, i)
                    \/ Leftover /\ BoundaryAt(g, m - d, i + 1)
  BY DEF Chained
<1> DEFINE r == g[i].req
           l == Len(Form[r].parts)
<1>1. d + i \in 1 .. m /\ g[i] = f[d + i] /\ IsStart(f[d + i]) /\ f[d + i] \in Cells
  BY Sizes
<1>2. l \in Nat
  BY <1>1, StartFacts
<1>3. CASE WholeAt(f, m, d + i)
  <2>1. /\ d + i + l - 1 <= m
        /\ \A j \in 1 .. l : f[d + i + j - 1] = Cell(r, Form[r].parts[j])
        /\ d + i + l <= m => IsStart(f[d + i + l])
    BY <1>1, <1>3 DEF WholeAt, BoundaryAt
  <2> HIDE DEF r, l
  <2>2. i + l - 1 <= m - d
    BY <1>2, <2>1
  <2>3. ASSUME NEW j \in 1 .. l
        PROVE  g[i + j - 1] = Cell(r, Form[r].parts[j])
    <3>1. i + j - 1 \in 1 .. m - d /\ d + (i + j - 1) = d + i + j - 1
      BY <1>2, <2>2
    <3>2. QED
      BY <2>1, <3>1
  <2>4. ASSUME i + l <= m - d
        PROVE  IsStart(g[i + l])
    <3>1. i + l \in 1 .. m - d /\ d + (i + l) = d + i + l /\ d + i + l <= m
      BY <1>2, <2>4
    <3>2. QED
      BY <2>1, <3>1
  <2>5. QED
    BY <2>2, <2>3, <2>4 DEF WholeAt, BoundaryAt, r, l
<1>4. CASE Leftover /\ BoundaryAt(f, m, d + i + 1)
  <2>1. ASSUME i + 1 <= m - d
        PROVE  IsStart(g[i + 1])
    <3>1. i + 1 \in 1 .. m - d /\ d + (i + 1) = d + i + 1 /\ d + i + 1 <= m
      BY <2>1
    <3>2. QED
      BY <1>4, <3>1 DEF BoundaryAt
  <2>2. QED
    BY <1>4, <2>1 DEF BoundaryAt
<1>5. QED
  BY <1>1, <1>3, <1>4 DEF Chained

\* Cells in front that start nothing, or one whose request is not there.
LEMMA ChainedPrefix ==
  ASSUME NEW m \in Nat, NEW d \in Nat, NEW f, NEW g, Chained(f, m),
         \A i \in 1 .. m : f[i] \in Cells,
         \A i \in 1 .. m : g[d + i] = f[i],
         \/ \A i \in 1 .. d : ~IsStart(g[i])
         \/ Leftover /\ d = 1 /\ (m >= 1 => IsStart(f[1]))
  PROVE  Chained(g, d + m)
<1> SUFFICES ASSUME NEW i \in 1 .. d + m, IsStart(g[i])
             PROVE  \/ WholeAt(g, d + m, i)
                    \/ Leftover /\ BoundaryAt(g, d + m, i + 1)
  BY DEF Chained
<1>1. CASE i <= d
  <2>1. Leftover /\ d = 1 /\ i = 1 /\ (m >= 1 => IsStart(f[1]))
    BY <1>1
  <2>2. 2 <= 1 + m => IsStart(g[2])
    <3>1. ASSUME m >= 1 PROVE g[2] = f[1]
      BY <2>1, <3>1
    <3>2. QED
      BY <2>1, <3>1
  <2>3. QED
    BY <2>1, <2>2 DEF BoundaryAt
<1>2. CASE i > d
  <2> DEFINE k == i - d
             r == f[k].req
             l == Len(Form[r].parts)
  <2>1. k \in 1 .. m /\ i = d + k
    BY <1>2
  <2> HIDE DEF k
  <2>2. g[i] = f[k] /\ IsStart(f[k]) /\ f[k] \in Cells
    BY <2>1
  <2>3. l \in Nat
    BY <2>2, StartFacts
  <2>4. CASE WholeAt(f, m, k)
    <3>1. /\ k + l - 1 <= m
          /\ \A j \in 1 .. l : f[k + j - 1] = Cell(r, Form[r].parts[j])
          /\ k + l <= m => IsStart(f[k + l])
      BY <2>4 DEF WholeAt, BoundaryAt
    <3>2. g[i].req = r
      BY <2>2
    <3> HIDE DEF r, l
    <3>3. i + l - 1 <= d + m
      BY <2>1, <2>3, <3>1
    <3>4. ASSUME NEW j \in 1 .. l
          PROVE  g[i + j - 1] = Cell(r, Form[r].parts[j])
      <4>1. k + j - 1 \in 1 .. m /\ d + (k + j - 1) = i + j - 1
        BY <2>1, <2>3, <3>1
      <4>2. QED
        BY <3>1, <4>1
    <3>5. ASSUME i + l <= d + m
          PROVE  IsStart(g[i + l])
      <4>1. k + l \in 1 .. m /\ d + (k + l) = i + l
        BY <2>1, <2>3, <3>5
      <4>2. QED
        BY <3>1, <4>1
    <3>6. QED
      BY <3>2, <3>3, <3>4, <3>5 DEF WholeAt, BoundaryAt, l
  <2>5. CASE Leftover /\ BoundaryAt(f, m, k + 1)
    <3>1. ASSUME i + 1 <= d + m
          PROVE  IsStart(g[i + 1])
      <4>1. k + 1 \in 1 .. m /\ d + (k + 1) = i + 1
        BY <2>1, <3>1
      <4>2. QED
        BY <2>5, <4>1 DEF BoundaryAt
    <3>2. QED
      BY <2>5, <3>1 DEF BoundaryAt
  <2>6. QED
    BY <2>1, <2>2, <2>4, <2>5 DEF Chained
<1>3. QED
  BY <1>1, <1>2

\* In a well-formed request only the first cell is a start.
LEMMA WellFormedStart ==
  ASSUME NEW r \in Requests, WellFormed(r)
  PROVE  /\ Len(Form[r].parts) \in Nat /\ Len(Form[r].parts) >= 2
         /\ 1 \in 1 .. Len(Form[r].parts)
         /\ \A i \in 1 .. Len(Form[r].parts) :
              IsStart(Cell(r, Form[r].parts[i])) <=> i = 1
<1> DEFINE parts == Form[r].parts
<1>1. Len(parts) \in Nat
  BY Parts
<1>2. PICK e \in 2 .. Len(parts) :
        /\ parts[1] \in {"GET", "POST"} /\ parts[e] = "end"
        /\ \A j \in 2 .. e - 1 : parts[j] \in {"header", "length"}
        /\ \A j \in e + 1 .. Len(parts) : parts[j] = "body"
  BY DEF WellFormed
<1>3. ASSUME NEW i \in 1 .. Len(parts)
      PROVE  parts[i] \in {"GET", "POST"} <=> i = 1
  <2>1. i = 1 \/ i \in 2 .. e - 1 \/ i = e \/ i \in e + 1 .. Len(parts)
    BY <1>1, <1>2
  <2>2. QED
    BY <1>1, <1>2, <2>1
<1>4. QED
  BY <1>1, <1>2, <1>3 DEF IsStart, Cell

\* A request is sent: it is put behind what is there.
LEMMA ChainedAppend ==
  ASSUME NEW m \in Nat, NEW f, NEW g, Chained(f, m), NEW r \in Requests, WellFormed(r),
         \A i \in 1 .. m : f[i] \in Cells /\ g[i] = f[i],
         \A j \in 1 .. Len(Form[r].parts) : g[m + j] = Cell(r, Form[r].parts[j])
  PROVE  Chained(g, m + Len(Form[r].parts))
<1> DEFINE a == Len(Form[r].parts)
<1>1. a \in Nat /\ a >= 2 /\ 1 \in 1 .. a
      /\ \A j \in 1 .. a : IsStart(g[m + j]) <=> j = 1
  BY WellFormedStart
<1> SUFFICES ASSUME NEW i \in 1 .. m + a, IsStart(g[i])
             PROVE  \/ WholeAt(g, m + a, i)
                    \/ Leftover /\ BoundaryAt(g, m + a, i + 1)
  BY DEF Chained
<1>2. \A j \in Nat : (j >= 1 /\ j <= m /\ IsStart(f[j])) => IsStart(g[j])
  OBVIOUS
<1>3. CASE i <= m
  <2> DEFINE q == f[i].req
             l == Len(Form[q].parts)
  <2>1. i \in 1 .. m /\ g[i] = f[i] /\ IsStart(f[i]) /\ f[i] \in Cells
    BY <1>3
  <2>2. l \in Nat
    BY <2>1, StartFacts
  <2>3. CASE WholeAt(f, m, i)
    <3>1. /\ i + l - 1 <= m
          /\ \A j \in 1 .. l : f[i + j - 1] = Cell(q, Form[q].parts[j])
          /\ i + l <= m => IsStart(f[i + l])
      BY <2>3 DEF WholeAt, BoundaryAt
    <3>2. g[i].req = q
      BY <2>1
    <3> HIDE DEF q, l, a
    <3>3. i + l - 1 <= m + a
      BY <1>1, <2>2, <3>1
    <3>4. ASSUME NEW j \in 1 .. l
          PROVE  g[i + j - 1] = Cell(q, Form[q].parts[j])
      <4>1. i + j - 1 \in 1 .. m
        BY <2>1, <2>2, <3>1
      <4>2. QED
        BY <3>1, <4>1
    <3>5. IsStart(g[i + l])
      <4>1. CASE i + l <= m
        BY <1>2, <2>1, <2>2, <3>1, <4>1
      <4>2. CASE i + l = m + 1
        BY <1>1, <4>2
      <4>3. QED
        BY <2>1, <2>2, <3>1, <4>1, <4>2
    <3>6. QED
      BY <3>2, <3>3, <3>4, <3>5 DEF WholeAt, BoundaryAt, l
  <2>4. CASE Leftover /\ BoundaryAt(f, m, i + 1)
    <3> HIDE DEF a
    <3>1. IsStart(g[i + 1])
      <4>1. CASE i + 1 <= m
        BY <1>2, <2>1, <2>4, <4>1 DEF BoundaryAt
      <4>2. CASE i + 1 = m + 1
        BY <1>1, <4>2
      <4>3. QED
        BY <2>1, <4>1, <4>2
    <3>2. QED
      BY <2>4, <3>1 DEF BoundaryAt
  <2>5. QED
    BY <2>1, <2>3, <2>4 DEF Chained
<1>4. CASE i > m
  <2>1. i - m \in 1 .. a /\ i = m + (i - m)
    BY <1>1, <1>4
  <2>2. i = m + 1
    BY <1>1, <2>1
  <2>3. g[i].req = r
    <3>1. g[m + 1] = Cell(r, Form[r].parts[1])
      BY <1>1
    <3>2. QED
      BY <2>2, <3>1 DEF Cell
  <2>4. \A j \in 1 .. a : g[i + j - 1] = Cell(r, Form[r].parts[j])
    <3>1. \A j \in 1 .. a : m + j = i + j - 1
      BY <1>1, <2>2
    <3>2. QED
      BY <3>1
  <2>5. i + a - 1 <= m + a /\ ~(i + a <= m + a)
    <3> HIDE DEF a
    <3>1. QED
      BY <1>1, <2>2
  <2>6. QED
    BY <2>3, <2>4, <2>5 DEF WholeAt, BoundaryAt
<1>5. QED
  BY <1>1, <1>3, <1>4

\* The head of request r is its first e cells, the last of which is the empty line.
HeadEnds(r, e) ==
  LET parts == Form[r].parts
  IN  /\ e \in 2 .. Len(parts)
      /\ parts[1] \in {"GET", "POST"} /\ parts[e] = "end"
      /\ \A i \in 2 .. e - 1 : parts[i] \in {"header", "length"}
      /\ \A i \in e + 1 .. Len(parts) : parts[i] = "body"
      /\ parts[1] = "POST" => \E i \in 2 .. e - 1 : parts[i] = "length"
      /\ parts[1] = "GET" => e = Len(parts) /\ Form[r].kind \notin {"sign", "importKey"}

\* Well-formed requests have a head.
LEMMA WellFormedHead ==
  ASSUME NEW r \in Requests, WellFormed(r)
  PROVE  \E e \in Nat : HeadEnds(r, e)
<1>1. Len(Form[r].parts) \in Nat
  BY Parts
<1>2. \E e \in 2 .. Len(Form[r].parts) : HeadEnds(r, e)
  BY DEF WellFormed, HeadEnds
<1>3. QED
  BY <1>1, <1>2

\* Its Content-Length counts what follows the head.
LEMMA AtoiOfRequest ==
  ASSUME NEW r \in Requests, NEW e \in Nat, HeadEnds(r, e), NEW cell, cell.req = r
  PROVE  atoi(cell) = Len(Form[r].parts) - e
<1> DEFINE parts == Form[r].parts
           l == Len(parts)
           bodies == {i \in DOMAIN parts : parts[i] = "body"}
<1>1. l \in Nat /\ DOMAIN parts = 1 .. l /\ 2 <= e /\ e <= l
  BY Parts DEF HeadEnds
<1>2. /\ parts[1] \in {"GET", "POST"} /\ parts[e] = "end"
      /\ \A i \in 2 .. e - 1 : parts[i] \in {"header", "length"}
      /\ \A i \in e + 1 .. l : parts[i] = "body"
  BY DEF HeadEnds
<1>3. ASSUME NEW i \in 1 .. l
      PROVE  parts[i] = "body" <=> i \in e + 1 .. l
  <2>1. i = 1 \/ i \in 2 .. e - 1 \/ i = e \/ i \in e + 1 .. l
    BY <1>1
  <2>2. QED
    BY <1>1, <1>2, <2>1
<1>4. bodies = e + 1 .. l
  <2>1. e + 1 .. l \subseteq 1 .. l
    BY <1>1
  <2>2. QED
    BY <1>1, <1>3, <2>1
<1> HIDE DEF l
<1>5. Cardinality(e + 1 .. l) = l - e
  <2>1. Cardinality(e + 1 .. l) = IF e + 1 > l THEN 0 ELSE l - (e + 1) + 1
    BY <1>1, FS_Interval
  <2>2. QED
    BY <1>1, <2>1
<1>6. atoi(cell) = Cardinality(bodies)
  BY DEF atoi
<1>7. QED
  BY <1>4, <1>5, <1>6 DEF l

\* What the parser says of a buffer with the head of a request at its front.
LEMMA HeadRead ==
  ASSUME NEW b \in [Index -> Cells], NEW n \in 0 .. MAXBUF, NEW r \in Requests,
         NEW e \in Nat, HeadEnds(r, e), e <= MAXBUF,
         \A i \in 1 .. e : b[i - 1] = Cell(r, Form[r].parts[i])
  PROVE  /\ b[0].part = Form[r].parts[1]
         /\ b[0].part = "GET" =>
              /\ Positions(b, "end") # {} /\ Min(Positions(b, "end")) = e - 1
              /\ lengthCheck(b, n) = 0
         /\ b[0].part = "POST" =>
              lengthCheck(b, n) = IF n > Len(Form[r].parts) THEN -1
                                  ELSE IF n < Len(Form[r].parts) THEN -2 ELSE 0
         /\ n >= e => phr_parse_request(b, n) = 0
<1> DEFINE parts == Form[r].parts
           l == Len(parts)
           lengths == Positions(b, "length")
           p == Min(lengths)
           ends == {i \in Positions(b, "end") : b[0].part = "POST" => p <= i}
<1>1. /\ l \in Nat /\ 2 <= e /\ e <= l
      /\ parts[1] \in {"GET", "POST"} /\ parts[e] = "end"
      /\ \A i \in 2 .. e - 1 : parts[i] \in {"header", "length"}
      /\ parts[1] = "POST" => \E i \in 2 .. e - 1 : parts[i] = "length"
      /\ parts[1] = "GET" => e = l
      /\ \A i \in 1 .. l : parts[i] \in RequestParts
      /\ r # NoReq
  BY Parts DEF HeadEnds
<1>2. \A i \in Nat : i < e => /\ i \in Index /\ b[i] = Cell(r, parts[i + 1])
                              /\ b[i].req = r /\ b[i].part = parts[i + 1] /\ b[i] # Nul
  <2>1. SUFFICES ASSUME NEW i \in Nat, i < e
                 PROVE  /\ i \in Index /\ b[i] = Cell(r, parts[i + 1])
                        /\ b[i].req = r /\ b[i].part = parts[i + 1] /\ b[i] # Nul
    OBVIOUS
  <2>2. i \in Index /\ i + 1 \in 1 .. e /\ (i + 1) - 1 = i
    BY <2>1, Sizes
  <2>3. b[i] = Cell(r, parts[i + 1])
    BY <2>2
  <2>4. QED
    BY <1>1, <2>2, <2>3 DEF Cell, Nul
<1>3. \A i \in Nat : i < e => i \in Text(b)
  BY <1>2, Sizes DEF Text
<1>4. b[0].part = parts[1] /\ b[e - 1].part = "end" /\ e - 1 \in Nat
  <2>1. 0 < e /\ e - 1 \in Nat /\ e - 1 < e /\ (e - 1) + 1 = e /\ 0 + 1 = 1
    BY <1>1
  <2>2. QED
    BY <1>1, <1>2, <2>1
<1>5. \A i \in Nat : i < e - 1 => b[i].part # "end"
  <2>1. SUFFICES ASSUME NEW i \in Nat, i < e - 1
                 PROVE  b[i].part # "end"
    OBVIOUS
  <2>2. i + 1 = 1 \/ i + 1 \in 2 .. e - 1
    BY <2>1
  <2>3. i < e /\ b[i].part = parts[i + 1]
    BY <1>2, <2>1
  <2>4. QED
    BY <1>1, <2>2, <2>3
<1>6. e - 1 \in Positions(b, "end") /\ \A i \in Positions(b, "end") : e - 1 <= i
  <2>1. e - 1 \in Positions(b, "end")
    BY <1>3, <1>4 DEF Positions
  <2>2. \A i \in Positions(b, "end") : i \in Nat /\ b[i].part = "end"
    BY PositionsInIndex DEF Positions
  <2>3. QED
    BY <1>4, <1>5, <2>1, <2>2
<1>7. Min(Positions(b, "end")) = e - 1
  BY <1>6, MinIs, PositionsInIndex
<1>8. n \in Nat /\ size_t(n) = n
  BY Sizes DEF size_t
<1>9. ASSUME b[0].part = "GET"
      PROVE  /\ Positions(b, "end") # {} /\ Min(Positions(b, "end")) = e - 1
             /\ lengthCheck(b, n) = 0
  <2>1. lengthCheck(b, n) = 0
    BY <1>6, <1>9 DEF lengthCheck
  <2>2. QED
    BY <1>6, <1>7, <1>9, <2>1
<1>10. ASSUME b[0].part = "POST"
       PROVE  lengthCheck(b, n) = IF n > l THEN -1 ELSE IF n < l THEN -2 ELSE 0
  <2>1. PICK q \in 2 .. e - 1 : parts[q] = "length"
    BY <1>1, <1>4, <1>10
  <2>2. q - 1 \in lengths /\ q - 1 < e
    <3>1. q - 1 \in Nat /\ q - 1 < e /\ (q - 1) + 1 = q
      BY <2>1
    <3>2. QED
      BY <1>2, <1>3, <2>1, <3>1 DEF Positions
  <2>3. p \in lengths /\ p <= q - 1 /\ p \in Nat
    BY <2>2, MinInSet, PositionsInIndex
  <2>4. p < e /\ p <= e - 1 /\ b[p].req = r
    <3>1. p < e /\ p <= e - 1
      BY <1>4, <2>1, <2>3
    <3>2. QED
      BY <1>2, <2>3, <3>1
  <2>5. Min(ends) = e - 1 /\ ends # {}
    <3>1. e - 1 \in ends /\ ends \subseteq Nat /\ \A i \in ends : e - 1 <= i
      BY <1>6, <1>10, <2>4, PositionsInIndex
    <3> HIDE DEF ends
    <3>2. QED
      BY <3>1, MinIs
  <2>6. Min(ends) + 1 + atoi(b[p]) = l
    <3>1. atoi(b[p]) = l - e
      BY <2>4, AtoiOfRequest
    <3>2. QED
      BY <1>1, <2>5, <3>1
  <2>7. lengthCheck(b, n) = IF size_t(n) > Min(ends) + 1 + atoi(b[p]) THEN -1
                            ELSE IF size_t(n) < Min(ends) + 1 + atoi(b[p]) THEN -2 ELSE 0
    BY <1>10, <2>3, <2>5 DEF lengthCheck
  <2>8. QED
    BY <1>8, <1>10, <2>6, <2>7
<1>11. ASSUME n >= e
       PROVE  phr_parse_request(b, n) = 0
  <2> DEFINE read == {i \in Index : i < size_t(n)}
             stops == {i \in read : b[i].part = "end"}
  <2>1. e - 1 \in stops /\ stops \subseteq Nat /\ \A i \in stops : e - 1 <= i
    <3>1. e - 1 \in Index /\ e - 1 < n
      BY <1>2, <1>4, <1>8, <1>11
    <3>2. stops \subseteq Nat /\ e - 1 \in stops
      BY <1>4, <1>8, <3>1, Sizes
    <3>3. \A i \in stops : i \in Nat /\ b[i].part = "end"
      BY <3>2
    <3>4. QED
      BY <1>4, <1>5, <3>2, <3>3
  <2> HIDE DEF stops
  <2>2. Min(stops) = e - 1 /\ stops # {}
    BY <2>1, MinIs
  <2>3. \A i \in (0 .. (e - 1) - 1) \ {0} : b[i].part \in {"header", "length"}
    <3>1. SUFFICES ASSUME NEW i \in Nat, i # 0, i < e - 1
                   PROVE  b[i].part \in {"header", "length"}
      BY <1>4
    <3>2. i < e /\ i + 1 \in 2 .. e - 1
      BY <1>4, <3>1
    <3>3. QED
      BY <1>1, <1>2, <3>1, <3>2
  <2>4. QED
    BY <2>2, <2>3 DEF phr_parse_request, stops
<1>12. QED
  BY <1>1, <1>4, <1>9, <1>10, <1>11

(***************************************************************************)
(* When parseRequest accepts what is in the buffer, what is at its front   *)
(* is a whole request, and this is what is handled; of a POST nothing is   *)
(* left behind it.  A beginning without its rest is not accepted: another  *)
(* request line follows it.                                                *)
(***************************************************************************)
LEMMA AcceptedIsWhole ==
  ASSUME \A r \in Requests : WellFormed(r),
         NEW b \in [Index -> Cells], NEW n \in 0 .. MAXBUF,
         NEW f, NEW m \in Nat, n <= m, Chained(f, m),
         \A i \in 1 .. n : f[i] = b[i - 1],
         IsStart(b[0]), lengthCheck(b, n) = 0, phr_parse_request(b, n) = 0
  PROVE  /\ WholeAt(f, m, 1) /\ Len(Form[b[0].req].parts) <= n
         /\ Request(b, n) = CellsOf(b[0].req)
         /\ b[0].part = "POST" => n = Len(Form[b[0].req].parts)
         /\ Form[b[0].req].kind = "importKey" => b[0].part = "POST"
<1> DEFINE r == b[0].req
           parts == Form[r].parts
           l == Len(parts)
           read == {i \in Index : i < size_t(n)}
           stops == {i \in read : b[i].part = "end"}
           s == Min(stops)
<1>1. r \in Requests /\ l \in Nat /\ n \in Nat /\ size_t(n) = n
  <2>1. 0 \in Index /\ n \in Nat
    BY Sizes
  <2>2. r \in Requests /\ l \in Nat
    BY <2>1, StartFacts
  <2>3. QED
    BY <2>1, <2>2 DEF size_t
<1>2. PICK e \in Nat : HeadEnds(r, e)
  BY <1>1, WellFormedHead
<1>3. /\ 2 <= e /\ e <= l /\ parts[1] \in {"GET", "POST"} /\ parts[e] = "end"
      /\ \A i \in 2 .. e - 1 : parts[i] \in {"header", "length"}
      /\ parts[1] = "GET" => e = l /\ Form[r].kind # "importKey"
  BY <1>1, <1>2 DEF HeadEnds
<1>4. /\ s \in Nat /\ s < n /\ b[s].part = "end" /\ s # 0
      /\ \A i \in Nat : (i < s /\ i # 0) => b[i].part \in {"header", "length"}
  <2>1. /\ stops # {}
        /\ \A i \in (0 .. s - 1) \ {0} : b[i].part \in {"header", "length"}
    <3> DEFINE head == IF stops = {} THEN read ELSE 0 .. s - 1
               odd == \E i \in head \ {0} : b[i].part \notin {"header", "length"}
    <3>1. phr_parse_request(b, n) = IF odd THEN -1 ELSE IF stops = {} THEN -2 ELSE 0
      BY DEF phr_parse_request
    <3> HIDE DEF odd, stops
    <3>2. ~odd /\ stops # {}
      BY <3>1
    <3>3. QED
      BY <3>2 DEF odd
  <2>2. stops \subseteq Nat
    BY Sizes
  <2>3. s \in stops /\ s \in Nat
    <3> HIDE DEF stops
    <3>1. QED
      BY <2>1, <2>2, MinInSet
  <2>4. s < n /\ b[s].part = "end"
    BY <1>1, <2>3
  <2>5. s # 0
    BY <2>4 DEF IsStart
  <2> HIDE DEF s
  <2>6. QED
    BY <2>1, <2>3, <2>4, <2>5
<1> HIDE DEF s
<1>5. f[1] = b[0] /\ f[2] = b[1] /\ 2 <= m /\ n >= 2
  <2>1. n >= 2 /\ 1 \in 1 .. n /\ 2 \in 1 .. n /\ 1 - 1 = 0 /\ 2 - 1 = 1
    BY <1>1, <1>4
  <2>2. QED
    BY <2>1, <1>1
<1>6. ~IsStart(f[2])
  <2>1. s = 1 \/ 1 < s
    BY <1>4
  <2>2. b[1].part \in {"end", "header", "length"}
    BY <1>4, <2>1
  <2>3. QED
    BY <1>5, <2>2 DEF IsStart
<1>7. WholeAt(f, m, 1)
  <2>1. ~BoundaryAt(f, m, 1 + 1)
    BY <1>5, <1>6 DEF BoundaryAt
  <2>2. 1 \in 1 .. m
    BY <1>5
  <2>3. QED
    BY <1>5, <2>1, <2>2 DEF Chained
<1>8. l <= m /\ \A j \in 1 .. l : f[j] = Cell(r, parts[j])
  <2>1. 1 + l - 1 <= m /\ \A j \in 1 .. l : f[1 + j - 1] = Cell(r, parts[j])
    BY <1>5, <1>7 DEF WholeAt
  <2>2. 1 + l - 1 = l /\ \A j \in 1 .. l : 1 + j - 1 = j
    BY <1>1
  <2>3. QED
    BY <2>1, <2>2
<1> HIDE DEF l, r
<1>9. e <= n
  <2>1. SUFFICES ASSUME n < e PROVE FALSE
    BY <1>1
  <2>2. s + 1 \in 1 .. n /\ s + 1 \in 1 .. l /\ (s + 1) - 1 = s /\ s + 1 \in 2 .. e - 1
    BY <1>1, <1>3, <1>4, <2>1
  <2>3. b[s] = Cell(r, parts[s + 1])
    BY <1>8, <2>2
  <2>4. b[s].part \in {"header", "length"}
    BY <1>3, <2>2, <2>3 DEF Cell
  <2>5. QED
    BY <1>4, <2>4
<1>10. e <= MAXBUF /\ \A i \in 1 .. e : b[i - 1] = Cell(r, parts[i])
  <2>1. e <= MAXBUF /\ \A i \in 1 .. e : i \in 1 .. n /\ i \in 1 .. l
    BY <1>1, <1>3, <1>9, Sizes
  <2>2. QED
    BY <1>8, <2>1
<1>11. /\ b[0].part = parts[1]
       /\ b[0].part = "GET" => Min(Positions(b, "end")) = e - 1
       /\ b[0].part = "POST" =>
            lengthCheck(b, n) = IF n > l THEN -1 ELSE IF n < l THEN -2 ELSE 0
  BY <1>1, <1>2, <1>10, HeadRead DEF l
<1>12. b[0].part = "POST" => n = l
  BY <1>1, <1>11
<1>13. l <= n /\ (b[0].part = "GET" => e = l)
  BY <1>1, <1>3, <1>9, <1>11, <1>12
<1>14. Request(b, n) = [i \in 1 .. l |-> b[i - 1]]
  <2>1. CASE b[0].part = "GET"
    <3>1. Request(b, n) = [i \in 1 .. (e - 1) + 1 |-> b[i - 1]]
      BY <1>11, <2>1 DEF Request
    <3>2. (e - 1) + 1 = l
      BY <1>13, <2>1
    <3>3. QED
      BY <3>1, <3>2
  <2>2. CASE b[0].part = "POST"
    <3>1. Request(b, n) = [i \in 1 .. (n - 1) + 1 |-> b[i - 1]]
      BY <2>2 DEF Request
    <3>2. (n - 1) + 1 = l
      BY <1>1, <1>12, <2>2
    <3>3. QED
      BY <3>1, <3>2
  <2>3. QED
    BY <1>3, <1>11, <2>1, <2>2
<1>15. \A i \in 1 .. l : b[i - 1] = Cell(r, parts[i])
  <2>1. \A i \in 1 .. l : i \in 1 .. n
    BY <1>1, <1>13
  <2>2. QED
    BY <1>8, <2>1
<1>16. Request(b, n) = CellsOf(r)
  BY <1>14, <1>15 DEF CellsOf, l
<1>17. QED
  BY <1>3, <1>7, <1>11, <1>12, <1>13, <1>16 DEF l, r

\* The cells that are still to be parsed.
LEMMA UnreadFacts ==
  ASSUME NEW b \in [Index -> Cells], NEW n \in 0 .. MAXBUF, NEW s \in Seq(Cells)
  PROVE  /\ n \in Nat /\ Len(s) \in Nat /\ n + Len(s) \in Nat
         /\ \A i \in 1 .. n : i - 1 \in Index /\ Unread(b, n, s)[i] = b[i - 1]
         /\ \A i \in 1 .. Len(s) : Unread(b, n, s)[n + i] = s[i]
         /\ \A i \in 1 .. n + Len(s) : Unread(b, n, s)[i] \in Cells
<1>1. n \in Nat /\ Len(s) \in Nat /\ n + Len(s) \in Nat
  BY Sizes
<1>2. \A i \in 1 .. n : i - 1 \in Index
  BY Sizes
<1>3. \A i \in 1 .. n : i \in 1 .. n + Len(s) /\ i <= n
  BY <1>1
<1>4. \A i \in 1 .. Len(s) : n + i \in 1 .. n + Len(s) /\ ~(n + i <= n) /\ (n + i) - n = i
  BY <1>1
<1>5. \A i \in 1 .. n + Len(s) : i \in 1 .. n \/ (i - n \in 1 .. Len(s) /\ ~(i <= n))
  BY <1>1
<1>6. \A i \in 1 .. Len(s) : s[i] \in Cells
  OBVIOUS
<1>7. \A i \in 1 .. n : Unread(b, n, s)[i] = b[i - 1]
  BY <1>3 DEF Unread
<1>8. \A i \in 1 .. Len(s) : Unread(b, n, s)[n + i] = s[i]
  BY <1>4 DEF Unread
<1>9. ASSUME NEW i \in 1 .. n + Len(s)
      PROVE  Unread(b, n, s)[i] \in Cells
  <2>1. CASE i \in 1 .. n
    BY <1>2, <1>7, <2>1
  <2>2. CASE i - n \in 1 .. Len(s)
    <3>1. n + (i - n) = i
      BY <1>1
    <3>2. QED
      BY <1>6, <1>8, <2>2, <3>1
  <2>3. QED
    BY <1>5, <2>1, <2>2
<1>10. QED
  BY <1>1, <1>2, <1>7, <1>8, <1>9

\* A read moves cells from the stream to the buffer and changes none.
LEMMA ReadKeepsCells ==
  ASSUME TypeOK, NEW k \in 0 .. MAXBUF, k <= Len(stream), k <= MAXBUF - len
  PROVE  LET s == SubSeq(stream, k + 1, Len(stream))
         IN  /\ Unread(Filled(k), len + k, s) = Unread(buf, len, stream)
             /\ len + k + Len(s) = len + Len(stream)
<1> DEFINE s == SubSeq(stream, k + 1, Len(stream))
           n == len + k
           b == Filled(k)
<1>1. /\ stream \in Seq(Cells) /\ len \in Nat /\ Len(stream) \in Nat /\ k \in Nat
      /\ n \in Nat
  BY Sizes DEF TypeOK
<1>2. Len(s) = Len(stream) - k /\ \A i \in 1 .. Len(stream) - k : s[i] = stream[k + i]
  BY <1>1, RestOfStream
<1>3. \A i \in Index : i < n => b[i] = IF i < len THEN buf[i] ELSE stream[i - len + 1]
  BY FilledFacts
<1>4. n <= MAXBUF
  BY <1>1, Sizes
<1> HIDE DEF s, b
<1>5. n + Len(s) = len + Len(stream)
  BY <1>1, <1>2
<1>6. ASSUME NEW i \in 1 .. len + Len(stream)
      PROVE  (IF i <= n THEN b[i - 1] ELSE s[i - n]) =
               (IF i <= len THEN buf[i - 1] ELSE stream[i - len])
  <2>1. CASE i <= n
    <3>1. i - 1 \in Index /\ i - 1 < n /\ (i - 1 < len <=> i <= len)
          /\ i - 1 - len + 1 = i - len
      BY <1>1, <1>4, <2>1, Sizes
    <3>2. b[i - 1] = IF i - 1 < len THEN buf[i - 1] ELSE stream[i - 1 - len + 1]
      BY <1>3, <3>1
    <3>3. QED
      BY <2>1, <3>1, <3>2
  <2>2. CASE ~(i <= n)
    <3>1. i - n \in 1 .. Len(stream) - k /\ k + (i - n) = i - len /\ ~(i <= len)
      BY <1>1, <2>2
    <3>2. QED
      BY <1>2, <2>2, <3>1
  <2>3. QED
    BY <2>1, <2>2
<1>7. Unread(b, n, s) = Unread(buf, len, stream)
  BY <1>5, <1>6 DEF Unread
<1>8. QED
  BY <1>5, <1>7 DEF s, b

\* Neither does the terminator.
LEMMA TerminatedKeepsCells ==
  ASSUME NEW b \in [Index -> Cells], NEW n \in 0 .. MAXBUF, NEW s \in Seq(Cells)
  PROVE  Unread(Terminated(b, n), n, s) = Unread(b, n, s)
<1>1. n \in -1 .. MAXBUF /\ n \in Nat
  BY Sizes
<1>2. \A i \in Index : i < n => Terminated(b, n)[i] = b[i]
  BY <1>1, TerminatedFacts
<1>3. ASSUME NEW i \in 1 .. n + Len(s), i <= n
      PROVE  Terminated(b, n)[i - 1] = b[i - 1]
  <2>1. i - 1 \in Index /\ i - 1 < n
    BY <1>1, <1>3, Sizes
  <2>2. QED
    BY <1>2, <2>1
<1>4. QED
  BY <1>3 DEF Unread

\* What is left of the stream is chained, whatever was in the buffer.
LEMMA DropBuffer ==
  ASSUME NEW b \in [Index -> Cells], NEW n \in 0 .. MAXBUF, NEW s \in Seq(Cells),
         Chained(Unread(b, n, s), n + Len(s)), NEW c \in [Index -> Cells]
  PROVE  Chained(Unread(c, 0, s), 0 + Len(s))
<1> DEFINE f == Unread(b, n, s)
           g == Unread(c, 0, s)
           m == n + Len(s)
<1>1. /\ n \in Nat /\ Len(s) \in Nat /\ m \in Nat
      /\ \A i \in 1 .. m : f[i] \in Cells
      /\ \A i \in 1 .. Len(s) : f[n + i] = s[i]
  BY UnreadFacts
<1>2. \A i \in 1 .. Len(s) : g[i] = s[i]
  <2>1. 0 \in 0 .. MAXBUF
    BY Sizes
  <2>2. \A i \in 1 .. Len(s) : g[0 + i] = s[i]
    BY <2>1, UnreadFacts
  <2>3. \A i \in 1 .. Len(s) : 0 + i = i
    OBVIOUS
  <2>4. QED
    BY <2>2, <2>3
<1>3. n \in 0 .. m /\ m - n = Len(s) /\ 0 + Len(s) = Len(s)
  BY <1>1
<1>4. Chained(f, m)
  OBVIOUS
<1> HIDE DEF f, g, m
<1>5. Chained(g, m - n)
  BY <1>1, <1>2, <1>3, <1>4, ChainedSuffix
<1>6. QED
  BY <1>3, <1>5 DEF g

\* Chained after a step that leaves the setting alone.
LEMMA NextChained ==
  ASSUME NEW f, NEW m, Chained(f, m), setting' = setting,
         f = Unread(buf, InUse, stream)', m = (InUse + Len(stream))'
  PROVE  Chained(Unread(buf, InUse, stream), InUse + Len(stream))'
  BY DEF Chained, Leftover

\* A read that succeeds, and what is done with it.
LEMMA ReceiveChain ==
  ASSUME \A r \in Requests : WellFormed(r), LoopInv, LoopInv', ChainInv, Reliable,
         NEW k \in 0 .. MAXBUF, Receive(k), setting' = setting
  PROVE  ChainInv'
<1>1. /\ TypeOK /\ pc = "recv" /\ k <= Len(stream) /\ k <= MAXBUF - len
      /\ Process(Filled(k), len + k)
  BY DEF LoopInv, Receive
<1>2. PICK b, n, s, f, m :
        /\ b = Filled(k) /\ n = len + k /\ s = SubSeq(stream, k + 1, Len(stream))
        /\ f = Unread(buf, len, stream) /\ m = len + Len(stream)
  OBVIOUS
<1>3. b \in [Index -> Cells] /\ n \in 0 .. MAXBUF /\ Process(b, n)
  BY <1>1, <1>2, FilledFacts
<1>4. s \in Seq(Cells) /\ stream' = s
  BY <1>2 DEF LoopInv, TypeOK, Receive
<1>5. Chained(f, m) /\ f = Unread(b, n, s) /\ m = n + Len(s)
  <2>1. Chained(f, m)
    BY <1>1, <1>2 DEF ChainInv, InUse
  <2>2. QED
    BY <1>1, <1>2, <2>1, ReadKeepsCells
<1>6. /\ n \in Nat /\ Len(s) \in Nat /\ m \in Nat /\ n <= m
      /\ \A i \in 1 .. n : f[i] = b[i - 1]
      /\ \A i \in 1 .. Len(s) : f[n + i] = s[i]
  <2>1. /\ n \in Nat /\ Len(s) \in Nat /\ m \in Nat
        /\ \A i \in 1 .. n : f[i] = b[i - 1]
        /\ \A i \in 1 .. Len(s) : f[n + i] = s[i]
    BY <1>3, <1>4, <1>5, UnreadFacts
  <2>2. QED
    BY <1>5, <2>1
<1>7. handled = << >> \/ \E r \in Requests : handled = CellsOf(r)
  BY DEF ChainInv
<1>8. Terminated(b, n) \in [Index -> Cells] /\ buf' \in [Index -> Cells]
  <2>1. n \in -1 .. MAXBUF
    BY <1>3, Sizes
  <2>2. QED
    BY <1>3, <2>1, TerminatedFacts DEF LoopInv, TypeOK
<1>9. Chained(Unread(buf', 0, s), 0 + Len(s))
  BY <1>3, <1>4, <1>5, <1>8, DropBuffer
<1>10. CASE Waits(b, n)
  <2>1. buf' = Terminated(b, n) /\ len' = n /\ pc' = "recv" /\ handled' = handled
    BY <1>1, <1>10 DEF Waits
  <2>2. Unread(buf', len', stream') = f /\ m = len' + Len(stream') /\ InUse' = len'
    BY <1>3, <1>4, <1>5, <2>1, TerminatedKeepsCells DEF InUse
  <2>3. Chained(Unread(buf, InUse, stream), InUse + Len(stream))'
    BY <1>5, <2>2, NextChained
  <2>4. QED
    BY <1>7, <2>1, <2>3 DEF ChainInv
<1>11. CASE Discards(b, n)
  <2>1. len' = 0 /\ pc' = "recv" /\ handled' = handled /\ InUse' = 0
    BY <1>1, <1>11 DEF Discards, InUse
  <2>2. Chained(Unread(buf, InUse, stream), InUse + Len(stream))'
    BY <1>4, <1>9, <2>1, NextChained
  <2>3. QED
    BY <1>7, <2>1, <2>2 DEF ChainInv
<1>12. CASE Responds(b, n)
  <2> DEFINE r == b[0].req
  <2>1. /\ r \in Requests /\ IsStart(b[0])
        /\ lengthCheck(b, n) = 0 /\ phr_parse_request(b, n) = 0
        /\ pc' = "send" /\ handled' = Request(b, n) /\ InUse' = 0
    BY <1>12 DEF Responds, InUse
  <2>2. /\ WholeAt(f, m, 1) /\ handled' = CellsOf(r)
        /\ b[0].part = "POST" => n = Len(Form[r].parts)
        /\ Form[r].kind = "importKey" => b[0].part = "POST"
    BY <1>3, <1>5, <1>6, <2>1, AcceptedIsWhole
  <2>3. Chained(Unread(buf, InUse, stream), InUse + Len(stream))'
    BY <1>4, <1>9, <2>1, NextChained
  <2>4. \/ \A i \in 0 .. len' - 1 : ~IsStart(buf'[i])
        \/ /\ "body" \in setting.failures /\ len' = 1
           /\ s # << >> => IsStart(s[1])
    <3>1. CASE \E c \in [Index -> Cells], parts \in {Short, Long} :
                 buf' = Written(c, Response(r, parts)) /\ len' = Len(parts)
      <4>1. PICK c \in [Index -> Cells], parts \in {Short, Long} :
                 buf' = Written(c, Response(r, parts)) /\ len' = Len(parts)
        BY <3>1
      <4>2. /\ len' \in {1, 2}
            /\ \A i \in 1 .. len' : buf'[i - 1] = Cell(r, parts[i])
                                    /\ parts[i] \in ResponseParts
        BY <2>1, <4>1, ResponseFacts
      <4>3. ASSUME NEW i \in 1 .. len'
            PROVE  ~IsStart(buf'[i - 1])
        <5>0. buf'[i - 1] = Cell(r, parts[i]) /\ parts[i] \in ResponseParts
          BY <4>2
        <5>1. buf'[i - 1].part \in ResponseParts
          BY <5>0 DEF Cell
        <5>2. QED
          BY <5>1 DEF IsStart, ResponseParts
      <4>4. ASSUME NEW i \in 0 .. len' - 1
            PROVE  ~IsStart(buf'[i])
        <5>1. i + 1 \in 1 .. len' /\ (i + 1) - 1 = i
          <6>1. \A l \in {1, 2} : \A j \in 0 .. l - 1 : j + 1 \in 1 .. l /\ (j + 1) - 1 = j
            OBVIOUS
          <6>2. len' \in {1, 2}
            BY <4>2
          <6>3. QED
            BY <6>1, <6>2
        <5>2. QED
          BY <4>3, <5>1
      <4>5. QED
        BY <4>4
    <3>2. CASE Form[r].kind = "importKey" /\ "body" \in setting.failures /\ len' = 1
      <4>1. n = Len(Form[r].parts) /\ f[1].req = r
        <5>1. f[1] = b[0]
          <6>1. Len(Form[r].parts) >= 2 /\ n = Len(Form[r].parts)
            BY <2>1, <2>2, <3>2, WellFormedStart
          <6>2. 1 \in 1 .. n /\ 1 - 1 = 0
            BY <1>6, <6>1
          <6>3. QED
            BY <1>6, <6>2
        <5>2. QED
          BY <2>2, <3>2, <5>1
      <4>2. 1 + n <= m => IsStart(f[1 + n])
        BY <2>2, <4>1 DEF WholeAt, BoundaryAt
      <4>3. s # << >> => IsStart(s[1])
        <5>1. SUFFICES ASSUME s # << >> PROVE IsStart(s[1])
          OBVIOUS
        <5>2. Len(s) >= 1
          BY <1>4, <5>1
        <5>3. 1 + n <= m /\ f[n + 1] = s[1] /\ n + 1 = 1 + n
          BY <1>5, <1>6, <5>2
        <5>4. QED
          BY <4>2, <5>3
      <4>4. QED
        BY <3>2, <4>3
    <3>3. QED
      BY <1>12, <3>1, <3>2 DEF Responds
  <2>5. QED
    BY <1>4, <2>1, <2>2, <2>3, <2>4 DEF ChainInv
<1>13. QED
  <2>1. n \in -1 .. MAXBUF
    BY <1>3, Sizes
  <2>2. QED
    BY <1>3, <1>10, <1>11, <1>12, <2>1, ProcessCases

\* Sending, which may leave cells in use in the buffer that are no request.
LEMMA SendChain ==
  ASSUME LoopInv, LoopInv', ChainInv, Reliable, setting' = setting,
         SendUart \/ SendLte \/ \E k \in 1 .. MAXBUF : SendWifi(k)
  PROVE  ChainInv'
<1>1. PICK f, m : f = Unread(buf, 0, stream) /\ m = 0 + Len(stream)
  OBVIOUS
<1>2. pc = "send" /\ InUse = 0 /\ Chained(f, m)
  <2>1. pc = "send"
    BY DEF SendUart, SendLte, SendWifi
  <2>2. QED
    BY <1>1, <2>1 DEF InUse, ChainInv
<1>3. /\ stream \in Seq(Cells) /\ buf \in [Index -> Cells] /\ buf' \in [Index -> Cells]
      /\ len \in 0 .. MAXBUF /\ len \in Nat
  BY Sizes DEF LoopInv, TypeOK
<1>4. m \in Nat /\ m = Len(stream) /\ \A i \in 1 .. m : f[i] = stream[i] /\ f[i] \in Cells
  <2>1. 0 \in 0 .. MAXBUF
    BY Sizes
  <2>2. /\ 0 + Len(stream) \in Nat /\ Len(stream) \in Nat
        /\ \A i \in 1 .. Len(stream) : f[0 + i] = stream[i]
        /\ \A i \in 1 .. 0 + Len(stream) : f[i] \in Cells
    BY <1>1, <1>3, <2>1, UnreadFacts
  <2>3. 0 + Len(stream) = Len(stream) /\ \A i \in 1 .. Len(stream) : 0 + i = i
    BY <2>2
  <2>4. QED
    BY <1>1, <2>2, <2>3
<1>5. ASSUME NEW c \in [Index -> Cells] PROVE Unread(c, 0, stream) = f
  BY <1>1 DEF Unread
<1>6. ASSUME InUse' = 0, stream' = stream
      PROVE  Chained(Unread(buf, InUse, stream), InUse + Len(stream))'
  BY <1>1, <1>2, <1>3, <1>5, <1>6, NextChained
<1>7. CASE SendUart
  <2>1. setting.transport = "uart" /\ stream' = stream
    BY <1>7 DEF SendUart
  <2>2. \/ len > Fifo /\ \A i \in 0 .. len - 1 : ~IsStart(buf[i])
        \/ len <= Fifo
    <3>1. CASE len > Fifo
      <4>1. len # 1
        BY <1>3, <3>1, Sizes
      <4>2. QED
        BY <1>2, <2>1, <3>1, <4>1 DEF ChainInv
    <3>2. QED
      BY <1>3, <3>1, Sizes
  <2>3. CASE len <= Fifo
    <3>1. ~(len > Fifo)
      BY <1>3, <2>3, Sizes
    <3>2. InUse' = 0 /\ handled' = << >> /\ pc' = "recv"
      BY <1>7, <3>1 DEF SendUart, Deliver, InUse
    <3>3. QED
      BY <1>6, <2>1, <3>2 DEF ChainInv
  <2>4. CASE len > Fifo /\ \A i \in 0 .. len - 1 : ~IsStart(buf[i])
    <3>1. /\ len' = len - Fifo /\ buf' = buf
          /\ \/ pc' = pc /\ handled' = handled /\ InUse' = 0
             \/ pc' = "recv" /\ handled' = << >> /\ InUse' = len'
      <4>1. ~(len <= Fifo)
        BY <1>3, <2>4, Sizes
      <4>2. QED
        BY <1>2, <1>7, <4>1 DEF SendUart, InUse
    <3>2. /\ len' \in Nat /\ len' \in 0 .. MAXBUF
          /\ \A i \in 0 .. len' - 1 : i \in 0 .. len - 1
          /\ \A i \in 1 .. len' : i - 1 \in 0 .. len - 1
      BY <1>3, <2>4, <3>1, Sizes
    <3>3. \A i \in 0 .. len' - 1 : ~IsStart(buf'[i])
      BY <2>4, <3>1, <3>2
    <3>4. CASE pc' = pc /\ handled' = handled /\ InUse' = 0
      BY <1>6, <2>1, <3>3, <3>4 DEF ChainInv
    <3>5. CASE pc' = "recv" /\ handled' = << >> /\ InUse' = len'
      <4>1. PICK g : g = Unread(buf, len', stream)
        OBVIOUS
      <4>2. /\ \A i \in 1 .. len' : i - 1 \in Index /\ g[i] = buf[i - 1]
            /\ \A i \in 1 .. Len(stream) : g[len' + i] = stream[i]
        BY <1>3, <3>2, <4>1, UnreadFacts
      <4>3. \A i \in 1 .. m : g[len' + i] = f[i]
        BY <1>4, <4>2
      <4>4. \A i \in 1 .. len' : ~IsStart(g[i])
        BY <2>4, <3>2, <4>2
      <4>5. Chained(g, len' + m)
        BY <1>2, <1>4, <3>2, <4>3, <4>4, ChainedPrefix
      <4>6. Chained(Unread(buf, InUse, stream), InUse + Len(stream))'
        BY <1>4, <2>1, <3>1, <3>5, <4>1, <4>5, NextChained
      <4>7. QED
        BY <3>5, <4>6 DEF ChainInv
    <3>6. QED
      BY <3>1, <3>4, <3>5
  <2>5. QED
    BY <2>2, <2>3, <2>4
<1>8. CASE SendLte
  <2>1. /\ setting.transport = "lte" /\ stream' = stream /\ len' = len /\ pc' = "recv"
        /\ handled' = << >> /\ (buf' = Blank \/ buf' = buf) /\ InUse' = len
    BY <1>8 DEF SendLte, Deliver, InUse
  <2>2. PICK g : g = Unread(buf', len, stream)
    OBVIOUS
  <2>3. /\ \A i \in 1 .. len : i - 1 \in Index /\ g[i] = buf'[i - 1]
        /\ \A i \in 1 .. Len(stream) : g[len + i] = stream[i]
    BY <1>3, <2>2, UnreadFacts
  <2>4. \A i \in 1 .. m : g[len + i] = f[i]
    BY <1>4, <2>3
  <2>5. \/ \A i \in 1 .. len : ~IsStart(g[i])
        \/ Leftover /\ len = 1 /\ (m >= 1 => IsStart(f[1]))
    <3>1. CASE buf' = Blank
      <4>1. \A i \in Index : ~IsStart(Blank[i])
        BY DEF Blank, Nul, Cell, IsStart
      <4>2. QED
        BY <2>3, <3>1, <4>1
    <3>2. CASE buf' = buf /\ \A i \in 0 .. len - 1 : ~IsStart(buf[i])
      <4>1. \A i \in 1 .. len : i - 1 \in 0 .. len - 1
        BY <1>3
      <4>2. QED
        BY <2>3, <3>2, <4>1
    <3>3. CASE "body" \in setting.failures /\ len = 1 /\ (stream # << >> => IsStart(stream[1]))
      <4>1. m >= 1 => stream # << >> /\ 1 \in 1 .. m
        BY <1>3, <1>4
      <4>2. QED
        BY <1>4, <2>1, <3>3, <4>1 DEF Leftover
    <3>4. QED
      BY <1>2, <2>1, <3>1, <3>2, <3>3 DEF ChainInv
  <2>6. Chained(g, len + m)
    BY <1>2, <1>3, <1>4, <2>4, <2>5, ChainedPrefix
  <2>7. Chained(Unread(buf, InUse, stream), InUse + Len(stream))'
    BY <1>4, <2>1, <2>2, <2>6, NextChained
  <2>8. QED
    BY <2>1, <2>7 DEF ChainInv
<1>9. ASSUME NEW k \in 1 .. MAXBUF, SendWifi(k)
      PROVE  ChainInv'
  <2>1. setting.transport = "wifi"
    BY <1>9 DEF SendWifi
  <2>2. InUse' = 0 /\ (handled' = handled \/ handled' = << >>)
        /\ (stream' = stream \/ stream' = << >>)
    BY <1>2, <1>9 DEF SendWifi, Deliver, InUse
  <2>3. CASE stream' = stream
    BY <1>6, <2>1, <2>2, <2>3 DEF ChainInv
  <2>4. CASE stream' = << >>
    <3>1. (InUse + Len(stream))' = 0
      BY <2>2, <2>4
    <3>2. \A g : Chained(g, 0)
      BY DEF Chained
    <3>3. PICK g : g = Unread(buf, InUse, stream)'
      OBVIOUS
    <3>4. Chained(Unread(buf, InUse, stream), InUse + Len(stream))'
      BY <3>1, <3>2, <3>3, NextChained
    <3>5. QED
      BY <2>1, <2>2, <3>4 DEF ChainInv
  <2>5. QED
    BY <2>2, <2>3, <2>4
<1>10. QED
  BY <1>7, <1>8, <1>9

\* What is still to be parsed when request r is sent: its cells, behind the others.
Appended(b, n, t, r, s) ==
  /\ s \in Seq(Cells) /\ n + Len(t) \in Nat
  /\ n + Len(s) = (n + Len(t)) + Len(Form[r].parts)
  /\ \A i \in 1 .. Len(t) : s[i] = t[i]
  /\ \A i \in 1 .. Len(Form[r].parts) : s[Len(t) + i] = Cell(r, Form[r].parts[i])
  /\ \A i \in 1 .. n + Len(t) : /\ Unread(b, n, t)[i] \in Cells
                                /\ Unread(b, n, s)[i] = Unread(b, n, t)[i]
  /\ \A j \in 1 .. Len(Form[r].parts) :
       Unread(b, n, s)[(n + Len(t)) + j] = Cell(r, Form[r].parts[j])

\* This is what sending a request makes of the cells.
LEMMA AppendedCells ==
  ASSUME NEW b \in [Index -> Cells], NEW n \in 0 .. MAXBUF, NEW t \in Seq(Cells),
         NEW r \in Requests, NEW s, s = t \o CellsOf(r)
  PROVE  Appended(b, n, t, r, s)
<1>1. PICK f, g, a, q, z : /\ f = Unread(b, n, t) /\ g = Unread(b, n, s)
                           /\ a = Len(Form[r].parts) /\ q = Len(t) /\ z = Len(s)
  OBVIOUS
<1>2. /\ CellsOf(r) \in Seq(Cells) /\ Len(CellsOf(r)) = a /\ a \in Nat
      /\ \A i \in 1 .. a : CellsOf(r)[i] = Cell(r, Form[r].parts[i])
  BY <1>1, CellsOfFacts, Parts
<1>3. s \in Seq(Cells) /\ z = q + a
  <2>1. \A u \in Seq(Cells) : t \o u \in Seq(Cells) /\ Len(t \o u) = Len(t) + Len(u)
    OBVIOUS
  <2>2. QED
    BY <1>1, <1>2, <2>1
<1>4. \A i \in 1 .. q : s[i] = t[i]
  BY <1>1, <1>2
<1>5. ASSUME NEW i \in 1 .. a
      PROVE  s[q + i] = Cell(r, Form[r].parts[i])
  <2>1. s[q + i] = CellsOf(r)[i]
    BY <1>1, <1>2
  <2>2. QED
    BY <1>2, <2>1
<1>6. /\ n \in Nat /\ q \in Nat /\ n + q \in Nat
      /\ \A i \in 1 .. n : f[i] = b[i - 1]
      /\ \A i \in 1 .. q : f[n + i] = t[i]
      /\ \A i \in 1 .. n + q : f[i] \in Cells
  BY <1>1, UnreadFacts
<1>7. /\ \A i \in 1 .. n : g[i] = b[i - 1]
      /\ \A i \in 1 .. z : g[n + i] = s[i]
  <2>1. \A u \in Seq(Cells) : /\ \A i \in 1 .. n : Unread(b, n, u)[i] = b[i - 1]
                              /\ \A i \in 1 .. Len(u) : Unread(b, n, u)[n + i] = u[i]
    BY UnreadFacts
  <2>2. QED
    BY <1>1, <1>3, <2>1, Zenon
<1>8. ASSUME NEW i \in 1 .. n + q
      PROVE  g[i] = f[i]
  <2>1. CASE i <= n
    <3>1. i \in 1 .. n
      BY <2>1
    <3>2. QED
      BY <1>6, <1>7, <3>1
  <2>2. CASE ~(i <= n)
    <3>1. i - n \in 1 .. q /\ i - n \in 1 .. z /\ n + (i - n) = i
      BY <1>2, <1>3, <1>6, <2>2
    <3>2. g[n + (i - n)] = s[i - n]
      BY <1>7, <3>1
    <3>3. f[n + (i - n)] = t[i - n]
      BY <1>6, <3>1
    <3>4. s[i - n] = t[i - n]
      BY <1>4, <3>1
    <3>5. QED
      BY <3>1, <3>2, <3>3, <3>4, Zenon
  <2>3. QED
    BY <2>1, <2>2
<1>9. ASSUME NEW j \in 1 .. a
      PROVE  g[(n + q) + j] = Cell(r, Form[r].parts[j])
  <2>1. q + j \in 1 .. z /\ n + (q + j) = (n + q) + j
    BY <1>2, <1>3, <1>6
  <2>2. QED
    BY <1>5, <1>7, <2>1
<1>10. n + z = (n + q) + a
  BY <1>2, <1>3, <1>6
<1>11. QED
  BY <1>1, <1>3, <1>4, <1>5, <1>6, <1>8, <1>9, <1>10, Zenon DEF Appended

\* The clients.
LEMMA ClientChain ==
  ASSUME \A r \in Requests : WellFormed(r), LoopInv, LoopInv', ChainInv, Reliable, Clients
  PROVE  ChainInv'
<1>1. /\ setting' = setting /\ setting.requests \subseteq Requests
      /\ stream \in Seq(Cells) /\ buf \in [Index -> Cells] /\ len \in 0 .. MAXBUF
  <2>1. setting \in Settings
    BY DEF LoopInv, TypeOK
  <2>2. setting.requests \subseteq Requests
    BY <2>1, RequestLoopAssumption
  <2>3. QED
    BY <2>2 DEF LoopInv, TypeOK, Clients
<1>2. ASSUME NEW r \in setting.requests, SendRequest(r)
      PROVE  ChainInv'
  <2>1. /\ r \in Requests /\ buf' = buf /\ len' = len /\ pc' = pc /\ handled' = handled
        /\ stream' = stream \o CellsOf(r) /\ InUse' = InUse
    BY <1>1, <1>2 DEF SendRequest, InUse
  <2>2. PICK n, s, f, g, m :
          /\ n = InUse /\ s = stream \o CellsOf(r) /\ m = n + Len(stream)
          /\ f = Unread(buf, n, stream) /\ g = Unread(buf, n, s)
    OBVIOUS
  <2>3. n \in 0 .. MAXBUF /\ Chained(f, m)
    BY <1>1, <2>2, Sizes DEF InUse, ChainInv
  <2>4. /\ n + Len(s) = m + Len(Form[r].parts) /\ m \in Nat
        /\ \A i \in 1 .. Len(stream) : s[i] = stream[i]
        /\ \A i \in 1 .. Len(Form[r].parts) : s[Len(stream) + i] = Cell(r, Form[r].parts[i])
        /\ \A i \in 1 .. m : f[i] \in Cells /\ g[i] = f[i]
        /\ \A j \in 1 .. Len(Form[r].parts) : g[m + j] = Cell(r, Form[r].parts[j])
    <3>1. s = stream \o CellsOf(r)
      BY <2>2
    <3>2. Appended(buf, n, stream, r, s)
      BY <1>1, <2>1, <2>3, <3>1, AppendedCells
    <3>3. QED
      BY <2>2, <3>2, Zenon DEF Appended
  <2>5. Chained(g, m + Len(Form[r].parts))
    BY <2>1, <2>3, <2>4, ChainedAppend
  <2>6. Chained(Unread(buf, InUse, stream), InUse + Len(stream))'
    BY <1>1, <2>1, <2>2, <2>4, <2>5, NextChained
  <2>7. ASSUME pc = "send", setting.transport # "wifi"
        PROVE  \/ \A i \in 0 .. len - 1 : ~IsStart(buf[i])
               \/ /\ "body" \in setting.failures /\ len = 1
                  /\ s # << >> => IsStart(s[1])
    <3>1. stream # << >> => s[1] = stream[1]
      BY <1>1, <2>4
    <3>2. stream = << >> => IsStart(s[1])
      <4>1. SUFFICES ASSUME stream = << >> PROVE IsStart(s[1])
        OBVIOUS
      <4>2. Len(stream) = 0 /\ 1 \in 1 .. Len(Form[r].parts)
            /\ IsStart(Cell(r, Form[r].parts[1]))
        BY <2>1, <4>1, WellFormedStart
      <4>3. QED
        BY <2>4, <4>2
    <3>3. QED
      BY <2>7, <3>1, <3>2 DEF ChainInv
  <2>8. QED
    BY <1>1, <2>1, <2>2, <2>6, <2>7 DEF ChainInv
<1>3. CASE StopWaiting
  <2>1. UNCHANGED <<stream, buf, len, pc, handled, setting>>
    BY <1>1, <1>3 DEF StopWaiting
  <2>2. QED
    BY <2>1 DEF ChainInv, InUse, Chained, Leftover
<1>4. ASSUME NEW k \in Index, HangUp(k)
      PROVE  ChainInv'
  BY <1>4 DEF HangUp, Reliable
<1>5. QED
  BY <1>2, <1>3, <1>4 DEF Clients

\* ChainInv is inductive.
LEMMA ChainInvHolds ==
  ASSUME \A r \in Requests : WellFormed(r)
  PROVE  Spec => []ChainInv
<1>1. Init => ChainInv
  <2>1. SUFFICES ASSUME Init PROVE ChainInv
    OBVIOUS
  <2>2. InUse + Len(stream) = 0 /\ pc = "recv" /\ handled = << >>
    BY <2>1 DEF Init, InUse
  <2>3. QED
    BY <2>2 DEF ChainInv, Chained
<1>2. ASSUME LoopInv, LoopInv', ChainInv, [Next]_vars
      PROVE  ChainInv'
  <2>1. setting' = setting
    BY <1>2 DEF Next, Board, Clients, vars
  <2>2. CASE ~Reliable
    BY <2>1, <2>2 DEF ChainInv, Reliable
  <2>3. CASE Reliable /\ Board
    <3>1. ~ReceiveFails
      BY <2>3 DEF ReceiveFails, Reliable
    <3>2. QED
      BY <1>2, <2>1, <2>3, <3>1, ReceiveChain, SendChain DEF Board
  <2>4. CASE Reliable /\ Clients
    BY <1>2, <2>4, ClientChain
  <2>5. CASE UNCHANGED vars
    <3>1. UNCHANGED <<stream, buf, len, pc, handled, setting>>
      BY <2>5 DEF vars
    <3>2. QED
      BY <1>2, <3>1 DEF ChainInv, InUse, Chained, Leftover, Reliable
  <2>6. QED
    BY <1>2, <2>2, <2>3, <2>4, <2>5 DEF Next
<1>3. QED
  BY <1>1, <1>2, LoopInvHolds, PTL DEF Spec

(***************************************************************************)
(* While reads do not fail and clients do not leave in the middle of what  *)
(* they send, dumpHttpResponse is given whole requests only: for every     *)
(* size of the buffer and every limit, however requests pile up and        *)
(* however they are cut.                                                   *)
(***************************************************************************)
THEOREM RequestsAreHandledWhole ==
  ASSUME \A r \in Requests : WellFormed(r)
  PROVE  Spec => [](Reliable => HandledWhole)
<1>1. ChainInv => (Reliable => HandledWhole)
  BY DEF ChainInv, HandledWhole
<1>2. QED
  BY <1>1, ChainInvHolds, PTL

-----------------------------------------------------------------------------
(***************************************************************************)
(* A client is given its own response.                                     *)
(***************************************************************************)
\* What is thrown away from the front does not change whose the rest is.
LEMMA OwnedSuffix ==
  ASSUME NEW m \in Nat, NEW d \in 0 .. m, NEW f, NEW g, Owned(f, m),
         \A i \in 1 .. m : f[i] \in Cells,
         \A i \in 1 .. m - d : g[i] = f[d + i]
  PROVE  Owned(g, m - d)
<1> SUFFICES ASSUME NEW i \in 1 .. m - d, IsStart(g[i])
             PROVE  /\ client # NoReq => g[i].req = client
                    /\ Calm => /\ client # NoReq
                               /\ i + Len(Form[g[i].req].parts) - 1 = m - d \/ i = m - d
  BY DEF Owned
<1>1. d + i \in 1 .. m /\ g[i] = f[d + i] /\ f[d + i] \in Cells
  BY Sizes
<1>2. PICK l \in Nat : l = Len(Form[g[i].req].parts)
  BY <1>1, StartFacts
<1>3. /\ client # NoReq => g[i].req = client
      /\ Calm => client # NoReq /\ (d + i + l - 1 = m \/ d + i = m)
  BY <1>1, <1>2 DEF Owned
<1>4. (d + i + l - 1 = m => i + l - 1 = m - d) /\ (d + i = m => i = m - d)
  <2>1. \A x, y, z, w \in Int : /\ x + y + z - 1 = w => y + z - 1 = w - x
                                /\ x + y = w => y = w - x
    OBVIOUS
  <2>2. d \in Int /\ i \in Int /\ l \in Int /\ m \in Int
    BY <1>2
  <2>3. QED
    BY <2>1, <2>2
<1>5. QED
  BY <1>2, <1>3, <1>4

\* The same for the buffer.
LEMMA OwnedRest ==
  ASSUME NEW b \in [Index -> Cells], NEW n \in 0 .. MAXBUF, NEW s \in Seq(Cells),
         Owned(Unread(b, n, s), n + Len(s)), NEW c \in [Index -> Cells]
  PROVE  Owned(Unread(c, 0, s), 0 + Len(s))
<1> DEFINE f == Unread(b, n, s)
           g == Unread(c, 0, s)
           m == n + Len(s)
<1>1. /\ n \in Nat /\ Len(s) \in Nat /\ m \in Nat
      /\ \A i \in 1 .. m : f[i] \in Cells
      /\ \A i \in 1 .. Len(s) : f[n + i] = s[i]
  BY UnreadFacts
<1>2. \A i \in 1 .. Len(s) : g[i] = s[i]
  <2>1. 0 \in 0 .. MAXBUF
    BY Sizes
  <2>2. \A i \in 1 .. Len(s) : g[0 + i] = s[i]
    BY <2>1, UnreadFacts
  <2>3. \A i \in 1 .. Len(s) : 0 + i = i
    OBVIOUS
  <2>4. QED
    BY <2>2, <2>3
<1>3. n \in 0 .. m /\ m - n = Len(s) /\ 0 + Len(s) = Len(s)
  BY <1>1
<1>4. Owned(f, m)
  OBVIOUS
<1> HIDE DEF f, g, m
<1>5. Owned(g, m - n)
  BY <1>1, <1>2, <1>3, <1>4, OwnedSuffix
<1>6. QED
  BY <1>3, <1>5 DEF g

\* Owned after a step that leaves the client alone.
LEMMA NextOwned ==
  ASSUME NEW f, NEW m, Owned(f, m), setting' = setting, client' = client,
         f = Unread(buf, InUse, stream)', m = (InUse + Len(stream))'
  PROVE  Owned(Unread(buf, InUse, stream), InUse + Len(stream))'
  BY DEF Owned, Calm

(***************************************************************************)
(* parseRequest does not ask for more than a whole request: once all of    *)
(* the stream has been read, nothing is waited for.                        *)
(***************************************************************************)
LEMMA WholeIsNotWaitedFor ==
  ASSUME \A r \in Requests : WellFormed(r),
         NEW b \in [Index -> Cells], NEW n \in 1 .. MAXBUF,
         NEW f, Chained(f, n), setting.transport # "lte",
         \A i \in 1 .. n : f[i] = b[i - 1]
  PROVE  -2 \notin parseRequest(b, n)
<1>1. n \in Nat /\ n >= 1 /\ n \in 0 .. MAXBUF /\ 0 \in Index /\ f[1] = b[0] /\ 1 \in 1 .. n
  <2>1. n \in Nat /\ n >= 1 /\ n \in 0 .. MAXBUF /\ 0 \in Index
    BY Sizes
  <2>2. 1 \in 1 .. n /\ 1 - 1 = 0
    BY <2>1
  <2>3. QED
    BY <2>1, <2>2
<1>2. CASE ~IsStart(b[0])
  <2>1. lengthCheck(b, n) = -1
    BY <1>2 DEF lengthCheck, IsStart
  <2>2. QED
    BY <2>1 DEF parseRequest
<1>3. CASE IsStart(b[0])
  <2> DEFINE r == b[0].req
             l == Len(Form[r].parts)
  <2>1. r \in Requests /\ l \in Nat
    BY <1>1, <1>3, StartFacts
  <2>2. WholeAt(f, n, 1)
    BY <1>1, <1>3 DEF Chained, Leftover
  <2>3. l <= n /\ \A j \in 1 .. l : f[j] = Cell(r, Form[r].parts[j])
    <3>1. 1 + l - 1 <= n /\ \A j \in 1 .. l : f[1 + j - 1] = Cell(r, Form[r].parts[j])
      BY <1>1, <2>2 DEF WholeAt
    <3>2. 1 + l - 1 = l /\ \A j \in 1 .. l : 1 + j - 1 = j
      BY <2>1
    <3>3. QED
      BY <3>1, <3>2
  <2>4. PICK e \in Nat : HeadEnds(r, e)
    BY <2>1, WellFormedHead
  <2>5. e <= l /\ Form[r].parts[1] \in {"GET", "POST"}
    BY <2>4, <2>1 DEF HeadEnds
  <2> HIDE DEF r, l
  <2>6. e <= n /\ e <= MAXBUF /\ \A i \in 1 .. e : b[i - 1] = Cell(r, Form[r].parts[i])
    <3>1. e <= n /\ e <= MAXBUF /\ \A i \in 1 .. e : i \in 1 .. n /\ i \in 1 .. l
      BY <1>1, <2>1, <2>3, <2>5, Sizes
    <3>2. QED
      BY <2>3, <3>1
  <2>7. /\ b[0].part = Form[r].parts[1]
        /\ b[0].part = "GET" => lengthCheck(b, n) = 0
        /\ b[0].part = "POST" =>
             lengthCheck(b, n) = IF n > l THEN -1 ELSE IF n < l THEN -2 ELSE 0
        /\ phr_parse_request(b, n) = 0
    BY <1>1, <2>1, <2>4, <2>6, HeadRead DEF l
  <2>8. lengthCheck(b, n) \in {0, -1}
    BY <1>1, <2>1, <2>3, <2>5, <2>7
  <2>9. QED
    BY <2>7, <2>8 DEF parseRequest
<1>4. QED
  BY <1>2, <1>3

\* What is sent for a request.
LEMMA SendableFacts ==
  ASSUME NEW r \in Requests, NEW c \in Sendable(r)
  PROVE  /\ c \in Seq(Cells) /\ Len(c) \in {1, 2} /\ Len(c) \in Nat /\ OwnCells(r, c)
         /\ DOMAIN c = 1 .. Len(c) /\ \A i \in 1 .. Len(c) : c[i].req = r
         /\ Len(c) = 1 \/ \A i \in 1 .. Len(c) : ~IsStart(c[i])
<1>1. CASE c \in Whole(r)
  <2>1. PICK parts \in {Short, Long} : c = Response(r, parts)
    BY <1>1 DEF Whole
  <2>2. Len(parts) \in {1, 2} /\ \A i \in 1 .. Len(parts) : parts[i] \in ResponseParts
    BY DEF Short, Long, ResponseParts
  <2>3. \A i \in 1 .. Len(parts) : /\ Cell(r, parts[i]) \in Cells /\ Cell(r, parts[i]).req = r
                                   /\ ~IsStart(Cell(r, parts[i]))
    <3>1. ASSUME NEW part \in ResponseParts
          PROVE  /\ Cell(r, part) \in Cells /\ Cell(r, part).req = r
                 /\ ~IsStart(Cell(r, part))
      BY DEF Cell, Cells, IsStart, ResponseParts
    <3>2. QED
      BY <2>2, <3>1
  <2>4. Len(parts) \in Nat
    BY <2>2
  <2>5. c = [i \in 1 .. Len(parts) |-> Cell(r, parts[i])]
    BY <2>1 DEF Response
  <2>6. c \in Seq(Cells) /\ Len(c) = Len(parts) /\ DOMAIN c = 1 .. Len(parts)
    BY <2>3, <2>4, <2>5
  <2>7. \A i \in 1 .. Len(parts) : c[i] = Cell(r, parts[i])
    BY <2>5
  <2>8. c # << >>
    BY <2>2, <2>6
  <2>9. QED
    BY <1>1, <2>2, <2>3, <2>4, <2>6, <2>7, <2>8 DEF OwnCells
<1>2. CASE \E part \in {"GET", "POST"} : c = <<Cell(r, part)>>
  <2>1. PICK part \in {"GET", "POST"} : c = <<Cell(r, part)>>
    BY <1>2
  <2>2. Cell(r, part) \in Cells /\ Cell(r, part).req = r /\ Cell(r, part).part # "status"
    BY DEF Cell, Cells, RequestParts
  <2>3. PICK x : x = Cell(r, part)
    OBVIOUS
  <2>4. c \in Seq(Cells) /\ Len(c) = 1 /\ c[1] = x /\ DOMAIN c = 1 .. 1 /\ c # << >>
    BY <2>1, <2>2, <2>3
  <2>5. \A i \in 1 .. 1 : i = 1
    OBVIOUS
  <2>6. QED
    BY <2>2, <2>3, <2>4, <2>5 DEF OwnCells
<1>3. QED
  BY <1>1, <1>2 DEF Sendable

\* A read that succeeds, and what is done with it.
LEMMA ReceiveOwn ==
  ASSUME \A r \in Requests : WellFormed(r), LoopInv, LoopInv', ChainInv, OwnInv,
         Orderly, NEW k \in 0 .. MAXBUF, Receive(k), setting' = setting
  PROVE  OwnInv'
<1>1. /\ TypeOK /\ pc = "recv" /\ k <= Len(stream) /\ k <= MAXBUF - len
      /\ Process(Filled(k), len + k) /\ client' = client /\ answer' = answer
      /\ wire = << >> /\ wire' = << >> /\ (k = 0 => setting.transport # "wifi")
  BY DEF LoopInv, Receive
<1>2. PICK b, n, s, f, m :
        /\ b = Filled(k) /\ n = len + k /\ s = SubSeq(stream, k + 1, Len(stream))
        /\ f = Unread(buf, len, stream) /\ m = len + Len(stream)
  OBVIOUS
<1>3. b \in [Index -> Cells] /\ n \in 0 .. MAXBUF /\ Process(b, n)
  BY <1>1, <1>2, FilledFacts
<1>4. s \in Seq(Cells) /\ stream' = s
  BY <1>2 DEF LoopInv, TypeOK, Receive
<1>5. Chained(f, m) /\ Owned(f, m) /\ f = Unread(b, n, s) /\ m = n + Len(s)
  <2>1. Chained(f, m) /\ Owned(f, m)
    BY <1>1, <1>2 DEF ChainInv, OwnInv, InUse, Reliable, Orderly
  <2>2. QED
    BY <1>1, <1>2, <2>1, ReadKeepsCells
<1>6. /\ n \in Nat /\ Len(s) \in Nat /\ m \in Nat /\ n <= m
      /\ \A i \in 1 .. n : f[i] = b[i - 1]
  <2>1. /\ n \in Nat /\ Len(s) \in Nat /\ m \in Nat
        /\ \A i \in 1 .. n : f[i] = b[i - 1]
    BY <1>3, <1>4, <1>5, UnreadFacts
  <2>2. QED
    BY <1>5, <2>1
<1>7. Terminated(b, n) \in [Index -> Cells] /\ buf' \in [Index -> Cells] /\ n \in -1 .. MAXBUF
  <2>1. n \in -1 .. MAXBUF
    BY <1>3, Sizes
  <2>2. QED
    BY <1>3, <2>1, TerminatedFacts DEF LoopInv, TypeOK
<1>8. Owned(Unread(buf', 0, s), 0 + Len(s))
  BY <1>3, <1>4, <1>5, <1>7, OwnedRest
<1>9. ResponseOwn'
  BY <1>1 DEF OwnInv, ResponseOwn, Orderly
<1>10. CASE Waits(b, n)
  <2>1. buf' = Terminated(b, n) /\ len' = n /\ pc' = "recv"
    BY <1>1, <1>10 DEF Waits
  <2>2. Unread(buf', len', stream') = f /\ m = len' + Len(stream') /\ InUse' = len'
    BY <1>3, <1>4, <1>5, <2>1, TerminatedKeepsCells DEF InUse
  <2>3. Owned(Unread(buf, InUse, stream), InUse + Len(stream))'
    BY <1>1, <1>5, <2>2, NextOwned
  <2>4. (setting.transport = "wifi" /\ s = << >>) => n = 0
    <3>1. SUFFICES ASSUME setting.transport = "wifi", s = << >>, n # 0 PROVE FALSE
      OBVIOUS
    <3>2. Len(s) = 0 /\ m = n /\ n \in 1 .. MAXBUF
      <4>1. Len(s) = 0
        BY <3>1
      <4>2. QED
        BY <1>3, <1>5, <1>6, <3>1, <4>1, Sizes
    <3>3. Chained(f, n) /\ setting.transport # "lte"
      BY <1>5, <3>1, <3>2
    <3>4. -2 \notin parseRequest(b, n)
      BY <1>3, <1>6, <3>2, <3>3, WholeIsNotWaitedFor
    <3>5. QED
      BY <1>10, <3>4 DEF Waits
  <2>5. QED
    BY <1>4, <1>9, <2>1, <2>3, <2>4 DEF OwnInv
<1>11. CASE Discards(b, n)
  <2>1. len' = 0 /\ pc' = "recv" /\ InUse' = 0
    BY <1>1, <1>11 DEF Discards, InUse
  <2>2. Owned(Unread(buf, InUse, stream), InUse + Len(stream))'
    BY <1>1, <1>4, <1>8, <2>1, NextOwned
  <2>3. QED
    BY <1>9, <2>1, <2>2 DEF OwnInv
<1>12. CASE Responds(b, n)
  <2> DEFINE r == b[0].req
             l == Len(Form[r].parts)
  <2>1. /\ r \in Requests /\ IsStart(b[0])
        /\ lengthCheck(b, n) = 0 /\ phr_parse_request(b, n) = 0
        /\ pc' = "send" /\ InUse' = 0
    BY <1>12 DEF Responds, InUse
  <2>2. WholeAt(f, m, 1) /\ l <= n
    BY <1>3, <1>5, <1>6, <2>1, AcceptedIsWhole
  <2>3. l \in Nat /\ l >= 2
    BY <2>1, WellFormedStart
  <2>4. 1 \in 1 .. m /\ f[1] = b[0] /\ n >= 2
    <3> HIDE DEF r, l
    <3>1. 1 \in 1 .. n /\ 1 \in 1 .. m /\ 1 - 1 = 0 /\ n >= 2
      BY <1>6, <2>2, <2>3
    <3>2. QED
      BY <1>6, <3>1
  <2>5. /\ client # NoReq => client = r
        /\ Calm => client # NoReq /\ (1 + l - 1 = m \/ 1 = m)
    BY <1>5, <2>1, <2>4 DEF Owned
  <2>6. Calm => s = << >>
    <3>1. SUFFICES ASSUME Calm PROVE s = << >>
      OBVIOUS
    <3> HIDE DEF r, l
    <3>2. Len(s) = 0
      BY <1>5, <1>6, <2>2, <2>3, <2>5, <3>1
    <3>3. QED
      BY <1>4, <3>2
  <2>7. Owned(Unread(buf, InUse, stream), InUse + Len(stream))'
    BY <1>1, <1>4, <1>8, <2>1, NextOwned
  <2>8. PICK c \in Sendable(r) :
          Len(c) = len' /\ \A i \in 1 .. Len(c) : buf'[i - 1] = c[i]
    <3>1. CASE \E d \in [Index -> Cells], parts \in {Short, Long} :
                 buf' = Written(d, Response(r, parts)) /\ len' = Len(parts)
      <4>1. PICK d \in [Index -> Cells], parts \in {Short, Long} :
                 buf' = Written(d, Response(r, parts)) /\ len' = Len(parts)
        BY <3>1
      <4>2. \A i \in 1 .. Len(parts) : buf'[i - 1] = Cell(r, parts[i])
        BY <2>1, <4>1, ResponseFacts
      <4>3. Response(r, parts) \in Sendable(r)
        BY DEF Sendable, Whole
      <4>4. /\ Len(Response(r, parts)) = Len(parts)
            /\ \A i \in 1 .. Len(parts) : Response(r, parts)[i] = Cell(r, parts[i])
        <5>1. Len(parts) \in Nat
          BY DEF Short, Long
        <5>2. QED
          BY <5>1 DEF Response
      <4>5. QED
        BY <4>1, <4>2, <4>3, <4>4
    <3>2. CASE buf' = Terminated(b, n) /\ len' = 1
      <4>1. 0 \in Index /\ 0 < n
        BY <1>6, <2>4, Sizes
      <4>2. buf'[0] = b[0] /\ b[0] \in Cells
        BY <1>3, <1>7, <3>2, <4>1, TerminatedFacts
      <4>3. b[0] = Cell(r, b[0].part) /\ b[0].part \in {"GET", "POST"}
        BY <2>1, <4>2, CellFacts DEF IsStart
      <4>4. PICK c : c = <<b[0]>>
        OBVIOUS
      <4>5. c \in Sendable(r) /\ Len(c) = 1 /\ c[1] = b[0]
        BY <4>3, <4>4 DEF Sendable
      <4>6. \A i \in 1 .. 1 : i = 1 /\ i - 1 = 0
        OBVIOUS
      <4>7. QED
        BY <3>2, <4>2, <4>5, <4>6
    <3>3. QED
      BY <1>12, <3>1, <3>2 DEF Responds
  <2>9. Sending(r, c)'
    <3>1. Len(wire') = 0 /\ wire' = << >> /\ \A i \in 1 .. Len(wire') : FALSE
      BY <1>1
    <3>2. Len(c) \in {1, 2}
      BY <2>1, SendableFacts
    <3>3. 1 <= len' /\ len' <= Len(c) /\ 0 + len' = Len(c)
      <4>1. \A x \in {1, 2} : 1 <= x /\ x <= x /\ 0 + x = x
        OBVIOUS
      <4>2. QED
        BY <2>8, <3>2, <4>1
    <3>4. client' # NoReq => client' = r
      BY <1>1, <2>5
    <3> HIDE DEF r
    <3>5. QED
      BY <2>8, <3>1, <3>3, <3>4 DEF Sending
  <2>10. \E q \in Requests : \E d \in Sendable(q) : Sending(q, d)'
    <3> HIDE DEF r
    <3>1. QED
      BY <2>1, <2>8, <2>9
  <2>11. Calm' => stream' = << >> /\ client' # NoReq
    BY <1>1, <1>4, <2>5, <2>6 DEF Calm
  <2>12. QED
    BY <1>9, <2>1, <2>7, <2>10, <2>11 DEF OwnInv, Sendable, Whole
<1>13. QED
  BY <1>3, <1>7, <1>10, <1>11, <1>12, ProcessCases

\* What a client gets is what is on the wire and what is left of the buffer.
LEMMA SentFacts ==
  ASSUME LoopInv, NEW r \in Requests, NEW c \in Sendable(r), Sending(r, c),
         setting.transport # "uart", NEW k \in Nat, k <= len
  PROVE  LET cells == wire \o Front(Len(wire), k)
         IN  /\ cells \in Seq(Cells) /\ Len(cells) = Len(wire) + k
             /\ \A i \in 1 .. Len(wire) + k : cells[i] = c[i]
             /\ k = len => cells = c
<1> DEFINE front == Front(Len(wire), k)
           cells == wire \o front
           w == Len(wire)
<1>1. /\ TypeOK /\ wire \in Seq(Cells) /\ w \in Nat /\ len \in Nat
      /\ Len(c) \in {1, 2} /\ Len(c) \in Nat /\ MAXBUF \in Nat /\ MAXBUF >= 2
      /\ \A i \in 1 .. w : wire[i] = c[i]
      /\ \A i \in 1 .. Len(c) : buf[i - 1] = c[i]
      /\ w + len = Len(c) /\ c \in Seq(Cells)
  <2>1. TypeOK /\ wire \in Seq(Cells) /\ len \in 0 .. MAXBUF
    BY DEF LoopInv, TypeOK
  <2>2. w \in Nat /\ len \in Nat /\ MAXBUF \in Nat /\ MAXBUF >= 2
    BY <2>1, Sizes
  <2>3. Len(c) \in {1, 2} /\ Len(c) \in Nat /\ c \in Seq(Cells)
    BY SendableFacts
  <2>4. /\ \A i \in 1 .. w : wire[i] = c[i]
        /\ \A i \in 1 .. Len(c) : buf[i - 1] = c[i]
        /\ w + len = Len(c)
    BY Zenon DEF Sending
  <2>5. QED
    BY <2>1, <2>2, <2>3, <2>4, Zenon
<1>2. w + k <= Len(c) /\ w + k <= MAXBUF
  <2>1. w + k <= Len(c)
    BY <1>1
  <2>2. Len(c) <= MAXBUF
    <3>1. \A x \in {1, 2} : x <= MAXBUF
      BY Sizes
    <3>2. QED
      BY <1>1, <3>1
  <2>3. QED
    BY <1>1, <2>1, <2>2
<1>3. front \in Seq(Cells) /\ Len(front) = k
  BY <1>1, <1>2, FrontIsSeq
<1>4. \A i \in 1 .. k : front[i] = buf[w + i - 1]
  BY DEF Front
<1> HIDE DEF front
<1>5. cells \in Seq(Cells) /\ Len(cells) = w + k
  <2>1. \A t \in Seq(Cells) : wire \o t \in Seq(Cells) /\ Len(wire \o t) = w + Len(t)
    BY <1>1
  <2>2. QED
    BY <1>3, <2>1
<1>6. ASSUME NEW i \in 1 .. w + k
      PROVE  cells[i] = c[i]
  <2>1. CASE i <= w
    <3>1. cells[i] = wire[i] /\ i \in 1 .. w
      BY <1>1, <1>3, <2>1
    <3>2. QED
      BY <1>1, <3>1
  <2>2. CASE ~(i <= w)
    <3>1. cells[i] = front[i - w]
      BY <1>1, <1>3, <2>2
    <3>2. i - w \in 1 .. k /\ w + (i - w) - 1 = i - 1 /\ i \in 1 .. Len(c)
      BY <1>1, <1>2, <2>2
    <3>3. QED
      BY <1>1, <1>4, <3>1, <3>2
  <2>3. QED
    BY <2>1, <2>2
<1>7. ASSUME k = len
      PROVE  cells = c
  <2>1. Len(cells) = Len(c) /\ w + k = Len(c)
    BY <1>1, <1>5, <1>7
  <2>2. \A t, u \in Seq(Cells) :
          (Len(t) = Len(u) /\ \A i \in 1 .. Len(t) : t[i] = u[i]) => t = u
    OBVIOUS
  <2> HIDE DEF cells
  <2>3. QED
    BY <1>1, <1>5, <1>6, <2>1, <2>2
<1>8. QED
  BY <1>5, <1>6, <1>7 DEF front

\* On the serial line it is what the FIFO took, each time from the front.
LEMMA FilledOwn ==
  ASSUME LoopInv, NEW r \in Requests, NEW c \in Sendable(r), Sending(r, c),
         setting.transport = "uart", NEW k \in Nat, k <= len
  PROVE  LET cells == wire \o Front(0, k)
         IN  /\ cells \in Seq(Cells) /\ Len(cells) = Len(wire) + k
             /\ \A i \in 1 .. Len(wire) + k : cells[i].req = r
             /\ (wire = << >> /\ k = Len(c)) => cells = c
<1> DEFINE front == Front(0, k)
           cells == wire \o front
           w == Len(wire)
<1>1. /\ TypeOK /\ wire \in Seq(Cells) /\ w \in Nat /\ len \in Nat /\ c \in Seq(Cells)
      /\ Len(c) \in Nat /\ len <= MAXBUF /\ MAXBUF \in Nat /\ len <= Len(c)
      /\ \A i \in 1 .. w : wire[i].req = r
      /\ \A i \in 1 .. Len(c) : buf[i - 1] = c[i] /\ c[i].req = r
  <2>1. TypeOK /\ wire \in Seq(Cells) /\ len \in 0 .. MAXBUF
    BY DEF LoopInv, TypeOK
  <2>2. w \in Nat /\ len \in Nat /\ len <= MAXBUF /\ MAXBUF \in Nat
    BY <2>1, Sizes
  <2>3. Len(c) \in Nat /\ c \in Seq(Cells) /\ \A i \in 1 .. Len(c) : c[i].req = r
    BY SendableFacts
  <2>4. /\ \A i \in 1 .. w : wire[i].req = r
        /\ \A i \in 1 .. Len(c) : buf[i - 1] = c[i]
        /\ len <= Len(c)
    BY Zenon DEF Sending
  <2>5. QED
    BY <2>1, <2>2, <2>3, <2>4, Zenon
<1>2. 0 + k <= MAXBUF /\ 0 \in Nat /\ \A i \in 1 .. k : i \in 1 .. Len(c) /\ 0 + i - 1 = i - 1
  BY <1>1
<1>3. front \in Seq(Cells) /\ Len(front) = k
  BY <1>1, <1>2, FrontIsSeq
<1>4. \A i \in 1 .. k : front[i] = c[i] /\ front[i].req = r
  <2>1. \A i \in 1 .. k : front[i] = buf[0 + i - 1]
    BY DEF Front
  <2> HIDE DEF front
  <2>2. QED
    BY <1>1, <1>2, <2>1
<1> HIDE DEF front
<1>5. cells \in Seq(Cells) /\ Len(cells) = w + k
  <2>1. \A t \in Seq(Cells) : wire \o t \in Seq(Cells) /\ Len(wire \o t) = w + Len(t)
    BY <1>1
  <2>2. QED
    BY <1>3, <2>1
<1>6. ASSUME NEW i \in 1 .. w + k
      PROVE  cells[i].req = r
  <2>1. CASE i <= w
    <3>1. cells[i] = wire[i] /\ i \in 1 .. w
      BY <1>1, <1>3, <2>1
    <3>2. QED
      BY <1>1, <3>1
  <2>2. CASE ~(i <= w)
    <3>1. cells[i] = front[i - w]
      BY <1>1, <1>3, <2>2
    <3>2. i - w \in 1 .. k
      BY <1>1, <2>2
    <3>3. QED
      BY <1>4, <3>1, <3>2
  <2>3. QED
    BY <2>1, <2>2
<1>7. ASSUME wire = << >>, k = Len(c)
      PROVE  cells = c
  <2>1. cells = front
    BY <1>3, <1>7
  <2>2. \A t, u \in Seq(Cells) :
          (Len(t) = Len(u) /\ \A i \in 1 .. Len(t) : t[i] = u[i]) => t = u
    OBVIOUS
  <2>3. QED
    BY <1>1, <1>3, <1>4, <1>7, <2>1, <2>2
<1>8. QED
  BY <1>5, <1>6, <1>7 DEF front

\* Nothing is owned by anybody where nothing starts.
LEMMA NothingOwned ==
  ASSUME NEW f, NEW m, f = Unread(buf, InUse, stream)', m = (InUse + Len(stream))',
         \A i \in 1 .. m : ~IsStart(f[i])
  PROVE  Owned(Unread(buf, InUse, stream), InUse + Len(stream))'
  BY DEF Owned

\* What a client may have is delivered to it.
LEMMA DeliveredOwn ==
  ASSUME NEW r \in Requests, NEW cells, client # NoReq => client = r,
         OwnCells(r, cells), Deliver(cells), setting' = setting
  PROVE  ResponseOwn'
<1>1. answer'.to = client /\ answer'.cells = cells
  BY DEF Deliver
<1>2. QED
  BY <1>1 DEF ResponseOwn, OwnCells

\* A response that was sent in several fills of the FIFO.
LEMMA RefilledOwn ==
  ASSUME NEW r \in Requests, NEW cells \in Seq(Cells), setting.transport = "uart",
         Len(cells) > Fifo, \A i \in 1 .. Len(cells) : cells[i].req = r
  PROVE  OwnCells(r, cells)
<1>1. DOMAIN cells = 1 .. Len(cells) /\ Len(cells) \in Nat /\ ~(Len(cells) <= Fifo)
  BY Sizes
<1>2. cells # << >>
  BY <1>1, Sizes
<1>3. QED
  BY <1>1, <1>2 DEF OwnCells

\* What is known while something is sent.
Sent(r, c) ==
  /\ r \in Requests /\ c \in Sendable(r) /\ Sending(r, c)
  /\ wire \in Seq(Cells) /\ Len(wire) \in Nat /\ len \in Nat /\ len \in 0 .. MAXBUF
  /\ stream \in Seq(Cells) /\ buf \in [Index -> Cells] /\ Len(c) \in Nat
  /\ client # NoReq => client = r
  /\ 1 <= len /\ len <= Len(c)
  /\ Calm => stream = << >> /\ client # NoReq
  /\ setting.transport # "wifi" => Calm

LEMMA SentIs ==
  ASSUME LoopInv, OwnInv, Orderly, pc = "send"
  PROVE  \E r, c : Sent(r, c)
<1>1. PICK r \in Requests : \E c \in Sendable(r) : Sending(r, c)
  BY DEF OwnInv
<1>2. PICK c \in Sendable(r) : Sending(r, c)
  BY <1>1
<1>3. /\ wire \in Seq(Cells) /\ len \in 0 .. MAXBUF
      /\ stream \in Seq(Cells) /\ buf \in [Index -> Cells]
  BY DEF LoopInv, TypeOK
<1>4. Len(wire) \in Nat /\ len \in Nat
  BY <1>3, Sizes
<1>5. Len(c) \in Nat
  BY <1>2, SendableFacts
<1>6. (client # NoReq => client = r) /\ 1 <= len /\ len <= Len(c)
  BY <1>2, Zenon DEF Sending
<1>7. /\ Calm => stream = << >> /\ client # NoReq
      /\ setting.transport # "wifi" => Calm
  BY DEF OwnInv, Orderly, Calm
<1>8. QED
  BY <1>2, <1>3, <1>4, <1>5, <1>6, <1>7, Zenon DEF Sent

\* Sending over the serial line.
LEMMA UartOwn ==
  ASSUME LoopInv, OwnInv, Orderly, setting' = setting, SendUart,
         NEW r, NEW c, Sent(r, c)
  PROVE  OwnInv'
<1>1. /\ setting.transport = "uart" /\ stream' = stream /\ pc = "send" /\ InUse = 0
      /\ Calm /\ stream = << >> /\ client # NoReq /\ client = r
  BY DEF SendUart, InUse, Sent
<1>2. /\ len \in Nat /\ 1 <= len /\ len <= Len(c) /\ Fifo \in Nat /\ Fifo >= 1
      /\ Len(wire) \in Nat /\ Len(c) \in Nat /\ r \in Requests /\ c \in Sendable(r)
      /\ Sending(r, c) /\ Len(c) \in {1, 2}
  BY Sizes, SendableFacts DEF Sent
<1>3. (wire = << >> /\ len = Len(c)) \/ Len(wire) >= Fifo
  BY <1>1, <1>2, Zenon DEF Sending
<1>4. CASE /\ len > Fifo /\ len' = len - Fifo /\ wire' = wire \o Front(0, Fifo)
           /\ UNCHANGED <<client, answer, pc, buf, handled>>
  <2>1. Fifo <= len
    BY <1>2, <1>4
  <2>2. /\ Len(wire') = Len(wire) + Fifo
        /\ \A i \in 1 .. Len(wire) + Fifo : wire'[i].req = r
    BY <1>1, <1>2, <1>4, <2>1, FilledOwn
  <2>3. 1 <= len' /\ len' <= Len(c) /\ Len(wire') >= Fifo
    BY <1>2, <1>4, <2>2
  <2>4. Sending(r, c)'
    BY <1>1, <1>2, <1>4, <2>2, <2>3 DEF Sending
  <2>5. InUse' = 0 /\ ResponseOwn'
    BY <1>1, <1>4 DEF InUse, OwnInv, ResponseOwn, Orderly
  <2>6. Owned(Unread(buf, InUse, stream), InUse + Len(stream))'
    <3>1. (InUse + Len(stream))' = 0
      BY <1>1, <2>5
    <3>2. QED
      BY <3>1, NothingOwned
  <2>7. \E q \in Requests : \E d \in Sendable(q) : Sending(q, d)'
    BY <1>2, <2>4
  <2>8. QED
    BY <1>1, <1>4, <2>5, <2>6, <2>7 DEF OwnInv, Sendable, Whole
<1>5. CASE /\ len > Fifo /\ len' = len - Fifo /\ pc' = "recv" /\ wire' = << >>
           /\ handled' = << >> /\ UNCHANGED <<client, answer, buf>>
  <2>0. \A x, y, z, n \in Nat : (x > y /\ y >= 1 /\ x <= z /\ x <= n) =>
          /\ x - y \in 0 .. n /\ z # 1
          /\ \A i \in 1 .. (x - y) + 0 : i \in 1 .. z /\ i \in 1 .. x - y
    OBVIOUS
  <2>1. /\ len' \in 0 .. MAXBUF /\ Len(c) # 1
        /\ \A i \in 1 .. len' + 0 : i \in 1 .. Len(c) /\ i \in 1 .. len'
    <3>1. len <= MAXBUF /\ MAXBUF \in Nat
      BY Sizes DEF Sent
    <3>2. len \in Nat /\ Fifo \in Nat /\ Len(c) \in Nat /\ len <= Len(c) /\ Fifo >= 1
      BY <1>2
    <3>3. len > Fifo /\ len' = len - Fifo
      BY <1>5
    <3>4. QED
      BY <2>0, <3>1, <3>2, <3>3
  <2>2. Len(c) # 1
    BY <2>1
  <2>3. PICK f, m : f = Unread(buf, len', << >>) /\ m = len' + 0
    OBVIOUS
  <2>4. \A i \in 1 .. m : ~IsStart(f[i])
    <3>1. buf \in [Index -> Cells] /\ << >> \in Seq(Cells)
      BY DEF Sent
    <3>2. \A i \in 1 .. len' : f[i] = buf[i - 1]
      BY <2>1, <2>3, <3>1, UnreadFacts
    <3>3. \A i \in 1 .. Len(c) : buf[i - 1] = c[i]
      BY <1>2, Zenon DEF Sending
    <3>4. \A i \in 1 .. Len(c) : ~IsStart(c[i])
      BY <1>2, <2>2, SendableFacts
    <3>5. QED
      BY <2>1, <2>3, <3>2, <3>3, <3>4
  <2>5. f = Unread(buf, InUse, stream)' /\ m = (InUse + Len(stream))'
    BY <1>1, <1>5, <2>3 DEF InUse
  <2>6. Owned(Unread(buf, InUse, stream), InUse + Len(stream))'
    BY <2>4, <2>5, NothingOwned
  <2>7. ResponseOwn'
    BY <1>5 DEF OwnInv, ResponseOwn, Orderly
  <2>8. QED
    BY <1>1, <1>5, <2>6, <2>7 DEF OwnInv
<1>6. CASE len <= Fifo /\ len' = 0 /\ Deliver(wire \o Front(0, len)) /\ buf' = Blank
  <2>1. PICK cells : cells = wire \o Front(0, len)
    OBVIOUS
  <2>2. /\ cells \in Seq(Cells) /\ Len(cells) = Len(wire) + len
        /\ \A i \in 1 .. Len(wire) + len : cells[i].req = r
        /\ (wire = << >> /\ len = Len(c)) => cells = c
    <3>1. len <= len
      BY <1>2
    <3>2. QED
      BY <1>1, <1>2, <2>1, <3>1, FilledOwn
  <2>3. OwnCells(r, cells)
    <3>1. CASE wire = << >> /\ len = Len(c)
      BY <1>2, <2>2, <3>1, SendableFacts
    <3>2. CASE Len(wire) >= Fifo
      <4>1. Len(cells) > Fifo
        BY <1>2, <2>2, <3>2
      <4>2. QED
        BY <1>1, <1>2, <2>2, <4>1, RefilledOwn
    <3>3. QED
      BY <1>3, <3>1, <3>2
  <2>4. ResponseOwn'
    BY <1>1, <1>2, <1>6, <2>1, <2>3, DeliveredOwn
  <2>5. pc' = "recv" /\ InUse' = 0
    BY <1>6 DEF Deliver, InUse
  <2>6. Owned(Unread(buf, InUse, stream), InUse + Len(stream))'
    <3>1. (InUse + Len(stream))' = 0
      BY <1>1, <2>5
    <3>2. QED
      BY <3>1, NothingOwned
  <2>7. QED
    BY <1>1, <2>4, <2>5, <2>6 DEF OwnInv
<1>7. QED
  BY <1>4, <1>5, <1>6 DEF SendUart

\* Sending over LTE.
LEMMA LteOwn ==
  ASSUME LoopInv, OwnInv, Orderly, setting' = setting, SendLte,
         NEW r, NEW c, Sent(r, c)
  PROVE  OwnInv'
<1>1. /\ setting.transport = "lte" /\ stream' = stream /\ len' = len /\ pc' = "recv"
      /\ Calm /\ stream = << >> /\ client # NoReq /\ client = r /\ InUse' = len
      /\ wire = << >>
  BY DEF SendLte, InUse, Sent, Deliver, LoopInv
<1>2. /\ len \in Nat /\ len \in 0 .. MAXBUF /\ Len(c) \in Nat
      /\ r \in Requests /\ c \in Sendable(r) /\ Sending(r, c) /\ Len(c) \in {1, 2}
  BY SendableFacts DEF Sent
<1>3. Len(wire) = 0 /\ len = Len(c) /\ \A i \in 1 .. Len(c) : buf[i - 1] = c[i]
  <2>1. Len(wire) + len = Len(c) /\ \A i \in 1 .. Len(c) : buf[i - 1] = c[i]
    BY <1>1, <1>2, Zenon DEF Sending
  <2>2. Len(wire) = 0
    BY <1>1
  <2>3. QED
    BY <1>2, <2>1, <2>2
<1>4. PICK f, m : f = Unread(buf', len, << >>) /\ m = len + 0
  OBVIOUS
<1>5. f = Unread(buf, InUse, stream)' /\ m = (InUse + Len(stream))' /\ m = len
  BY <1>1, <1>2, <1>4
<1>6. ASSUME buf' \in [Index -> Cells]
      PROVE  \A i \in 1 .. m : i - 1 \in Index /\ f[i] = buf'[i - 1] /\ i \in 1 .. Len(c)
  <2>1. << >> \in Seq(Cells)
    OBVIOUS
  <2>2. \A i \in 1 .. len : i - 1 \in Index /\ f[i] = buf'[i - 1]
    BY <1>2, <1>4, <1>6, <2>1, UnreadFacts
  <2>3. QED
    BY <1>3, <1>5, <2>2
<1>7. CASE Deliver(Front(0, len)) /\ buf' = Blank
  <2>1. buf' \in [Index -> Cells] /\ \A i \in Index : ~IsStart(Blank[i])
    BY <1>7 DEF Blank, Nul, Cell, IsStart, Cells
  <2>2. Owned(Unread(buf, InUse, stream), InUse + Len(stream))'
    BY <1>5, <1>6, <1>7, <2>1, NothingOwned
  <2>3. Front(0, len) = c
    <3>1. wire \o Front(Len(wire), len) = c
      <4>1. len <= len
        BY <1>2
      <4>2. QED
        BY <1>1, <1>2, <4>1, SentFacts
    <3>2. Front(0, len) \in Seq(Cells)
      <4>1. 0 \in Nat /\ 0 + len <= MAXBUF
        BY <1>2, Sizes
      <4>2. QED
        BY <1>2, <4>1, FrontIsSeq DEF LoopInv
    <3>3. << >> \o Front(0, len) = Front(0, len)
      BY <3>2
    <3>4. QED
      BY <1>1, <1>3, <3>1, <3>3
  <2>4. ResponseOwn'
    <3>1. OwnCells(r, c)
      BY <1>2, SendableFacts
    <3>2. QED
      BY <1>1, <1>2, <1>7, <2>3, <3>1, DeliveredOwn
  <2>5. QED
    BY <1>1, <2>2, <2>4 DEF OwnInv
<1>8. CASE UNCHANGED <<client, answer, wire, buf>>
  <2>1. buf' \in [Index -> Cells] /\ buf' = buf
    BY <1>8 DEF Sent
  <2>2. ASSUME NEW i \in 1 .. m, IsStart(f[i])
        PROVE  f[i].req = client /\ i = m
    <3>1. f[i] = c[i] /\ i \in 1 .. Len(c)
      BY <1>3, <1>6, <2>1
    <3>2. c[i].req = r /\ Len(c) = 1
      BY <1>2, <2>2, <3>1, SendableFacts
    <3>3. i = 1 /\ m = 1
      BY <1>3, <1>5, <3>1, <3>2
    <3>4. QED
      BY <1>1, <3>1, <3>2, <3>3
  <2>3. Owned(f, m)
    BY <1>1, <2>2 DEF Owned
  <2>4. Owned(Unread(buf, InUse, stream), InUse + Len(stream))'
    BY <1>5, <1>8, <2>3, NextOwned
  <2>5. ResponseOwn'
    BY <1>8 DEF OwnInv, ResponseOwn, Orderly
  <2>6. QED
    BY <1>1, <2>4, <2>5 DEF OwnInv
<1>9. QED
  BY <1>7, <1>8 DEF SendLte

\* Sending from the WiFi server.
LEMMA WifiOwn ==
  ASSUME LoopInv, OwnInv, Orderly, setting' = setting,
         NEW k \in 1 .. MAXBUF, SendWifi(k), NEW r, NEW c, Sent(r, c)
  PROVE  OwnInv'
<1>1. /\ setting.transport = "wifi" /\ buf' = buf /\ k \in Nat /\ k >= 1
      /\ pc = "send" /\ InUse = 0
  BY DEF SendWifi, InUse
<1>2. /\ len \in Nat /\ Len(c) \in Nat /\ Len(wire) \in Nat /\ len <= Len(c)
      /\ r \in Requests /\ c \in Sendable(r) /\ Sending(r, c)
      /\ (client # NoReq => client = r) /\ (Calm => stream = << >> /\ client # NoReq)
  BY DEF Sent
<1>3. Len(wire) + len = Len(c)
  BY <1>1, <1>2, Zenon DEF Sending
<1>4. ASSUME client' = client, stream' = stream, InUse' = 0
      PROVE  Owned(Unread(buf, InUse, stream), InUse + Len(stream))'
  <2>1. PICK f, m : f = Unread(buf, InUse, stream) /\ m = InUse + Len(stream)
    OBVIOUS
  <2>2. Owned(f, m)
    BY <2>1 DEF OwnInv
  <2>3. f = Unread(buf, InUse, stream)' /\ m = (InUse + Len(stream))'
    BY <1>1, <1>4, <2>1
  <2>4. QED
    BY <1>4, <2>2, <2>3, NextOwned
<1>5. CASE /\ k <= len /\ len' = len - k /\ len' > 0
           /\ wire' = wire \o Front(Len(wire), k)
           /\ UNCHANGED <<client, stream, answer, pc, handled>>
  <2>1. /\ Len(wire') = Len(wire) + k
        /\ \A i \in 1 .. Len(wire) + k : wire'[i] = c[i]
    BY <1>1, <1>2, <1>5, SentFacts
  <2>2. Len(wire') + len' = Len(c) /\ 1 <= len' /\ len' <= Len(c)
    BY <1>1, <1>2, <1>3, <1>5, <2>1
  <2>3. Sending(r, c)'
    BY <1>1, <1>2, <1>5, <2>1, <2>2 DEF Sending
  <2>4. InUse' = 0 /\ ResponseOwn'
    BY <1>1, <1>5 DEF InUse, OwnInv, ResponseOwn, Orderly
  <2>5. Owned(Unread(buf, InUse, stream), InUse + Len(stream))'
    BY <1>4, <1>5, <2>4
  <2>6. \E q \in Requests : \E d \in Sendable(q) : Sending(q, d)'
    BY <1>2, <2>3
  <2>7. Calm' => stream' = << >> /\ client' # NoReq
    BY <1>2, <1>5 DEF Calm
  <2>8. QED
    BY <1>1, <1>5, <2>4, <2>5, <2>6, <2>7 DEF OwnInv, Sendable, Whole
<1>6. CASE /\ k <= len /\ len' = len - k /\ len' = 0
           /\ Deliver(wire \o Front(Len(wire), k)) /\ stream' = << >>
  <2>1. k = len
    BY <1>1, <1>2, <1>6
  <2>2. Deliver(c)
    BY <1>1, <1>2, <1>6, <2>1, SentFacts
  <2>3. OwnCells(r, c)
    BY <1>2, SendableFacts
  <2>4. pc' = "recv" /\ InUse' = 0 /\ ResponseOwn'
    BY <1>2, <1>6, <2>2, <2>3, DeliveredOwn DEF Deliver, InUse
  <2>5. Owned(Unread(buf, InUse, stream), InUse + Len(stream))'
    <3>1. (InUse + Len(stream))' = 0
      BY <1>6, <2>4
    <3>2. QED
      BY <3>1, NothingOwned
  <2>6. QED
    BY <1>6, <2>4, <2>5 DEF OwnInv
<1>7. CASE pc' = "spin" /\ UNCHANGED <<client, stream, answer, wire, len, handled>>
  <2>1. InUse' = 0 /\ ResponseOwn'
    BY <1>7 DEF InUse, OwnInv, ResponseOwn, Orderly
  <2>2. Owned(Unread(buf, InUse, stream), InUse + Len(stream))'
    BY <1>4, <1>7, <2>1
  <2>3. QED
    BY <1>7, <2>1, <2>2 DEF OwnInv
<1>8. QED
  BY <1>5, <1>6, <1>7 DEF SendWifi

\* Sending.
LEMMA SendOwn ==
  ASSUME LoopInv, OwnInv, Orderly, setting' = setting,
         SendUart \/ SendLte \/ \E k \in 1 .. MAXBUF : SendWifi(k)
  PROVE  OwnInv'
<1>1. pc = "send"
  BY DEF SendUart, SendLte, SendWifi
<1>2. PICK r, c : Sent(r, c)
  BY <1>1, SentIs
<1>3. QED
  BY <1>2, UartOwn, LteOwn, WifiOwn

\* The clients: a request is sent when nobody waits for another one.
LEMMA ClientOwn ==
  ASSUME \A r \in Requests : WellFormed(r), LoopInv, OwnInv, Orderly, Clients
  PROVE  OwnInv'
<1>1. /\ setting' = setting /\ setting.requests \subseteq Requests
      /\ stream \in Seq(Cells) /\ buf \in [Index -> Cells] /\ len \in 0 .. MAXBUF
  <2>1. setting \in Settings
    BY DEF LoopInv, TypeOK
  <2>2. setting.requests \subseteq Requests
    BY <2>1, RequestLoopAssumption
  <2>3. QED
    BY <2>2 DEF LoopInv, TypeOK, Clients
<1>2. ASSUME NEW r \in setting.requests, SendRequest(r)
      PROVE  OwnInv'
  <2>1. /\ r \in Requests /\ r # NoReq /\ client = NoReq /\ client' = r /\ answer'.to = NoReq
        /\ buf' = buf /\ len' = len /\ pc' = pc
        /\ stream' = stream \o CellsOf(r) /\ InUse' = InUse
        /\ setting.transport = "wifi" => stream = << >> /\ pc = "recv"
    BY <1>1, <1>2, Parts DEF SendRequest, InUse, NoAnswer
  <2>2. pc # "send"
    BY <2>1 DEF OwnInv, Orderly, Calm
  <2>3. PICK n, s, f, g, m :
          /\ n = InUse /\ s = stream \o CellsOf(r) /\ m = n + Len(stream)
          /\ f = Unread(buf, n, stream) /\ g = Unread(buf, n, s)
    OBVIOUS
  <2>4. n \in 0 .. MAXBUF /\ Owned(f, m)
    BY <1>1, <2>3, Sizes DEF InUse, OwnInv
  <2>5. PICK a : a = Len(Form[r].parts)
    OBVIOUS
  <2>6. /\ n + Len(s) = m + a /\ m \in Nat /\ s \in Seq(Cells)
        /\ \A i \in 1 .. m : f[i] \in Cells /\ g[i] = f[i]
        /\ \A j \in 1 .. a : g[m + j] = Cell(r, Form[r].parts[j])
    <3>1. s = stream \o CellsOf(r)
      BY <2>3
    <3>2. Appended(buf, n, stream, r, s)
      BY <1>1, <2>1, <2>4, <3>1, AppendedCells
    <3>3. QED
      BY <2>3, <2>5, <3>2, Zenon DEF Appended
  <2>7. /\ a \in Nat /\ a >= 2
        /\ \A j \in 1 .. a : IsStart(Cell(r, Form[r].parts[j])) <=> j = 1
    BY <2>1, <2>5, WellFormedStart
  <2>8. \A i \in 1 .. m : ~IsStart(f[i])
    <3>1. CASE Calm
      BY <2>1, <2>4, <3>1 DEF Owned
    <3>2. CASE setting.transport = "wifi"
      <4>1. stream = << >> /\ pc = "recv" /\ len = 0
        BY <2>1, <3>2 DEF OwnInv
      <4>2. m = 0
        BY <2>3, <4>1 DEF InUse
      <4>3. QED
        BY <4>2
    <3>3. QED
      BY <3>1, <3>2 DEF Orderly, Calm
  <2>9. ASSUME NEW i \in 1 .. m + a, IsStart(g[i])
        PROVE  i = m + 1 /\ g[i].req = r
    <3>1. ~(i <= m)
      <4>1. i <= m => i \in 1 .. m
        BY <2>6
      <4>2. QED
        BY <2>6, <2>8, <2>9, <4>1
    <3>2. i - m \in 1 .. a /\ m + (i - m) = i
      BY <2>6, <2>7, <3>1
    <3>3. g[i] = Cell(r, Form[r].parts[i - m])
      BY <2>6, <3>2
    <3>4. i - m = 1
      BY <2>7, <2>9, <3>2, <3>3
    <3>5. i = m + 1
      BY <2>6, <3>2, <3>4
    <3>6. QED
      BY <3>3, <3>5 DEF Cell
  <2>10. Owned(g, m + a)'
    <3>1. (m + 1) + a - 1 = m + a
      BY <2>6, <2>7
    <3>2. QED
      BY <2>1, <2>5, <2>9, <3>1 DEF Owned
  <2>11. g = Unread(buf, InUse, stream)' /\ m + a = (InUse + Len(stream))'
    BY <2>1, <2>3, <2>6
  <2>12. Owned(Unread(buf, InUse, stream), InUse + Len(stream))'
    BY <2>10, <2>11 DEF Owned
  <2>13. s # << >>
    <3>1. SUFFICES ASSUME s = << >> PROVE FALSE
      OBVIOUS
    <3>2. Len(s) = 0 /\ n \in Nat
      BY <2>4, <3>1, Sizes
    <3>3. n + 0 = m + a /\ n <= m
      <4>1. Len(stream) \in Nat
        BY <1>1
      <4>2. QED
        BY <2>3, <2>6, <3>2, <4>1
    <3>4. QED
      BY <2>6, <2>7, <3>2, <3>3
  <2>14. ResponseOwn'
    BY <2>1 DEF ResponseOwn
  <2>15. QED
    BY <2>1, <2>2, <2>3, <2>12, <2>13, <2>14 DEF OwnInv
<1>3. CASE StopWaiting
  <2>1. /\ UNCHANGED <<stream, buf, len, pc, wire, answer>> /\ client' = NoReq
        /\ ~Calm /\ ~Calm' /\ InUse' = InUse
    BY <1>1, <1>3 DEF StopWaiting, InUse, Calm
  <2>2. Owned(Unread(buf, InUse, stream), InUse + Len(stream))'
    BY <1>1, <2>1 DEF Owned
  <2>3. ASSUME NEW r \in Requests, NEW c \in Sendable(r), Sending(r, c)
        PROVE  Sending(r, c)'
    BY <1>1, <2>1, <2>3 DEF Sending
  <2>4. ResponseOwn'
    BY <1>1, <2>1 DEF OwnInv, ResponseOwn, Orderly
  <2>5. QED
    BY <1>1, <2>1, <2>2, <2>3, <2>4 DEF OwnInv, Sendable, Whole
<1>4. ASSUME NEW k \in Index, HangUp(k)
      PROVE  OwnInv'
  BY <1>4 DEF HangUp, Orderly
<1>5. QED
  BY <1>2, <1>3, <1>4 DEF Clients

\* OwnInv is inductive.
LEMMA OwnInvHolds ==
  ASSUME \A r \in Requests : WellFormed(r)
  PROVE  Spec => []OwnInv
<1>1. Init => OwnInv
  <2>1. SUFFICES ASSUME Init PROVE OwnInv
    OBVIOUS
  <2>2. InUse + Len(stream) = 0 /\ pc = "recv" /\ len = 0 /\ answer.to = NoReq
    BY <2>1 DEF Init, InUse, NoAnswer
  <2>3. QED
    BY <2>2 DEF OwnInv, Owned, ResponseOwn
<1>2. ASSUME LoopInv, LoopInv', ChainInv, OwnInv, [Next]_vars
      PROVE  OwnInv'
  <2>1. setting' = setting
    BY <1>2 DEF Next, Board, Clients, vars
  <2>2. CASE ~Orderly
    BY <2>1, <2>2 DEF OwnInv, Orderly
  <2>3. CASE Orderly /\ Board
    <3>1. ~ReceiveFails
      BY <2>3 DEF ReceiveFails, Orderly
    <3>2. QED
      BY <1>2, <2>1, <2>3, <3>1, ReceiveOwn, SendOwn DEF Board
  <2>4. CASE Orderly /\ Clients
    BY <1>2, <2>4, ClientOwn
  <2>5. CASE UNCHANGED vars
    <3>1. UNCHANGED <<setting, client, stream, buf, len, pc, wire, answer>>
      BY <2>5 DEF vars
    <3>2. QED
      BY <1>2, <3>1 DEF OwnInv, Owned, InUse, Sending, ResponseOwn, Orderly, Calm
  <2>6. QED
    BY <1>2, <2>2, <2>3, <2>4, <2>5 DEF Next
<1>3. QED
  BY <1>1, <1>2, LoopInvHolds, ChainInvHolds, PTL DEF Spec

(***************************************************************************)
(* No client is given a byte that is not of the response to its own        *)
(* request, and what starts as a response is whole: in each of the three   *)
(* builds, whatever fails in sending, however small the FIFO of the serial *)
(* line is and whenever its loop is left, and whatever earlier requests    *)
(* have left in the buffer.                                                *)
(***************************************************************************)
THEOREM ClientsGetOwnResponses ==
  ASSUME \A r \in Requests : WellFormed(r)
  PROVE  Spec => []ResponseOwn
<1>1. OwnInv => ResponseOwn
  BY DEF OwnInv, ResponseOwn
<1>2. QED
  BY <1>1, OwnInvHolds, PTL
=============================================================================
