------------------------------- MODULE Shell --------------------------------
(***************************************************************************)
(* The command line of cli/src/main.c on top of the keystore: the commands *)
(* call lib/bls_hsm_ns.c, which calls the secure partition through         *)
(* lib/secure_partition_interface.c.  A call blocks until the partition    *)
(* has answered, so a command is one step when its request is, and         *)
(* otherwise two: it is sent, the partition works (module Keystore), and   *)
(* its answer is printed.                                                  *)
(*                                                                         *)
(* A text argument is described by what parse_hex looks at: whether it     *)
(* starts with "0x", how many characters follow, whether they are all      *)
(* hexadecimal digits.                                                     *)
(***************************************************************************)
EXTENDS Keystore

CONSTANTS
  MsgTexts,     \* the messages given to the command signature
  Prefixes,     \* whether verify is given its key and signature with "0x"
  MaxStray      \* bound: stray bytes behind an unterminated string

BADLEN    == -1
BADFORMAT == -2

Text(prefix, digits, hex) == [prefix |-> prefix, digits |-> digits, hex |-> hex]

ASSUME ShellAssumption ==
  /\ MaxStray \in Nat
  /\ Prefixes \subseteq BOOLEAN
  /\ \A t \in MsgTexts : t = Text(t.prefix, t.digits, t.hex) /\ t.digits \in Nat

VARIABLES
  cmd,       \* "off", "prompt", or the command that waits for the partition
  out,       \* what the last command has printed
  printed    \* history: keys that keygen has shown since the last reset

shellVars == <<cmd, out, printed>>
allShellVars == <<vars, shellVars>>

(***************************************************************************)
(* What a command prints: nothing, an error, a public key, a signature     *)
(* (of the message that was asked for or of another one), the keys, the    *)
(* confirmation of reset, or the verdict on a signature.  pk is the key    *)
(* the command is about, text the message it was given.                    *)
(***************************************************************************)
Kinds == {"nothing", "error", "key", "signature", "keys", "deleted",
          "BLSTSUCCESS", "BLSTFAIL"}

Show(c, kind) ==
  [cmd |-> c, kind |-> kind, pk |-> None, text |-> None, msg |-> None]

Listed == {public_keys_hex_store[i] : i \in Stored}

ShellInit ==
  /\ Init
  /\ cmd = "off"
  /\ out = Show("none", "nothing")
  /\ printed = {}

\* main calls tfm_init and ignores its result.
ShellMain ==
  /\ cmd = "off"
  /\ Boot
  /\ cmd' = "prompt"
  /\ UNCHANGED <<out, printed>>

-----------------------------------------------------------------------------
(***************************************************************************)
(* parse_hex of lib/common.c.                                              *)
(***************************************************************************)
parse_hex(t, len) ==
  CASE t.digits # len -> BADLEN
    [] t.digits = len /\ ~t.hex -> BADFORMAT
    [] OTHER -> IF t.prefix THEN 2 ELSE 0

strlen(t) == t.digits + (IF t.prefix THEN 2 ELSE 0)

(***************************************************************************)
(* What the partition reads of a text of which n bytes are passed to it.   *)
(* A shorter text arrives whole.  A longer one is cut, and one of n or     *)
(* more characters has no terminator: strlen goes on over the bytes behind *)
(* the partition's buffer until one of them is zero.                       *)
(***************************************************************************)
Passed(t, n) ==
  IF strlen(t) < n
    THEN {[text |-> t, exact |-> TRUE]}
    ELSE {[text |-> Text(t.prefix, n - (strlen(t) - t.digits) + stray,
                         t.hex /\ (stray = 0 \/ hex)),
           exact |-> strlen(t) = n /\ stray = 0] :
            stray \in 0 .. MaxStray, hex \in BOOLEAN}

\* msg_parse with the length of msg_len; it never returns 1.
msg_parse(t) ==
  CASE parse_hex(t, t.digits) < 0 -> parse_hex(t, t.digits)
    [] parse_hex(t, t.digits) >= 0 /\ t.digits = 0 -> HEX2BINERR
    [] OTHER -> 0

(***************************************************************************)
(* What sign_pk signs.  tfm_sign_pk passes 65 bytes of the message: 64     *)
(* characters and the terminator.  The test msg_parse(...) != 1 always     *)
(* holds, so a text that does not parse is signed too, as whatever the     *)
(* array msg_bin holds.  (An empty text is HEX2BINERR and an empty array.) *)
(***************************************************************************)
\* Faulty variant: no room for the terminator.
SIGN_MSG_NO_NUL == 64

SIGN_MSG_BYTES == 65

Signed(t) ==
  {IF m.exact /\ msg_parse(m.text) \in {0, HEX2BINERR} THEN "asked" ELSE "other" :
     m \in Passed(t, SIGN_MSG_BYTES)}

(***************************************************************************)
(* What verify_sign answers for a signature that is valid.  tfm_verify_sign*)
(* passes 96, 64 and 192 bytes, without a terminator and with the "0x".    *)
(***************************************************************************)
Verdicts(pkText, t, sigText) ==
  {verdict \in {"BLSTSUCCESS", "BLSTFAIL"} :
     \E p \in Passed(pkText, 96), m \in Passed(t, 64), g \in Passed(sigText, 192) :
       verdict = "BLSTSUCCESS" <=>
         /\ p.exact /\ m.exact /\ g.exact
         /\ parse_hex(p.text, 96) >= 0
         /\ msg_parse(m.text) = 0
         /\ parse_hex(g.text, 192) >= 0}

-----------------------------------------------------------------------------
(***************************************************************************)
(* keygen.  secure_keygen's RNGERR is none of the errors that are tested,  *)
(* so it is used as an index.  (-KEYSLIMIT is tested, and cannot be the    *)
(* answer: this is the only client, and it has looked at the size.)        *)
(***************************************************************************)
CmdKeygen ==
  /\ cmd = "prompt"
  /\ \/ /\ keystore_size < MAX_KEYSTORE_SIZE
        /\ SecureKeygen
        /\ cmd' = "keygen"
        /\ out' = Show("keygen", "nothing")
     \/ /\ keystore_size >= MAX_KEYSTORE_SIZE
        /\ out' = Show("keygen", "error")
        /\ UNCHANGED <<vars, cmd>>
  /\ UNCHANGED printed

\* Faulty variant: the number of keys is taken for the index of the last one.
KeygenAnsweredBySize ==
  /\ cmd = "keygen"
  /\ GetKey(keystore_size)
  /\ out' = [Show("keygen", "key") EXCEPT !.pk = reply'.pk]
  /\ printed' = printed \cup {reply'.pk}
  /\ cmd' = "prompt"

KeygenAnswered ==
  /\ cmd = "keygen"
  /\ GetKey(reply.code)
  /\ out' = [Show("keygen", "key") EXCEPT !.pk = reply'.pk]
  /\ printed' = printed \cup {reply'.pk}
  /\ cmd' = "prompt"

(***************************************************************************)
(* import.  parse_hex, then the request; ImportText is what the if chain   *)
(* makes of the answer.  It knows -EXISTINGKEY, import_sk answers          *)
(* EXISTINGKEY.                                                            *)
(***************************************************************************)
ImportText(code) ==
  IF code \in {-KEYSLIMIT, -HEX2BINERR, -EXISTINGKEY} THEN "error" ELSE "nothing"

CmdImport(s, t) ==
  /\ cmd = "prompt"
  /\ \/ /\ keystore_size < MAX_KEYSTORE_SIZE
        /\ parse_hex(t, 64) >= 0
        /\ ImportSk(s)
        /\ cmd' = "import"
        /\ out' = [Show("import", "nothing") EXCEPT !.pk = sk_to_pk[s]]
     \/ /\ keystore_size >= MAX_KEYSTORE_SIZE \/ parse_hex(t, 64) < 0
        /\ out' = Show("import", "error")
        /\ UNCHANGED <<vars, cmd>>
  /\ UNCHANGED printed

\* Faulty variant: only an error ends the command.
ImportAnsweredOnError ==
  /\ cmd = "import"
  /\ pc = "ready"
  /\ reply.code < 0
  /\ out' = [out EXCEPT !.kind = ImportText(reply.code)]
  /\ cmd' = "prompt"
  /\ UNCHANGED <<vars, printed>>

ImportAnswered ==
  /\ cmd = "import"
  /\ pc = "ready"
  /\ out' = [out EXCEPT !.kind = ImportText(reply.code)]
  /\ cmd' = "prompt"
  /\ UNCHANGED <<vars, printed>>

CmdReset ==
  /\ cmd = "prompt"
  /\ Reset
  /\ cmd' = "reset"
  /\ out' = Show("reset", "nothing")
  /\ printed' = {}

ResetAnswered ==
  /\ cmd = "reset"
  /\ pc = "ready"
  /\ out' = Show("reset", "deleted")
  /\ cmd' = "prompt"
  /\ UNCHANGED <<vars, printed>>

(***************************************************************************)
(* signature.  The public key is checked here, the message is not.         *)
(***************************************************************************)
CmdSignature(pk, pkText, t) ==
  /\ cmd = "prompt"
  /\ \/ /\ parse_hex(pkText, 96) >= 0
        /\ SignPk(pk)
        /\ \/ /\ reply'.code = PKNOTFOUND
              /\ out' = Show("signature", "error")
           \/ /\ reply'.code = 0
              /\ \E what \in Signed(t) :
                   out' = [Show("signature", "signature") EXCEPT
                             !.pk = pk, !.text = t, !.msg = what]
     \/ /\ parse_hex(pkText, 96) < 0
        /\ out' = Show("signature", "error")
        /\ UNCHANGED vars
  /\ UNCHANGED <<cmd, printed>>

\* verify, of a signature that the board has made.
CmdVerify(prefix, t) ==
  /\ cmd = "prompt"
  /\ \E verdict \in Verdicts(Text(prefix, 96, TRUE), t, Text(prefix, 192, TRUE)) :
       out' = Show("verify", verdict)
  /\ UNCHANGED <<vars, cmd, printed>>

\* getkeys: the size first, then one request per index.
CmdGetKeys ==
  /\ cmd = "prompt"
  /\ out' = Show("getkeys", "keys")
  /\ UNCHANGED <<vars, cmd, printed>>

-----------------------------------------------------------------------------
ShellPartition ==
  /\ SaveSize \/ RemoveKeys
  /\ UNCHANGED shellVars

ShellPowerLoss ==
  /\ PowerLoss
  /\ cmd' = "off"
  /\ out' = Show("none", "nothing")
  /\ UNCHANGED printed

SkTexts == {Text(TRUE, 64, TRUE), Text(FALSE, 63, TRUE), Text(FALSE, 64, FALSE)}
PkTexts == {Text(TRUE, 96, TRUE), Text(FALSE, 96, FALSE)}

ShellNext ==
  \/ ShellMain
  \/ CmdKeygen
  \/ KeygenAnswered
  \/ \E s \in Scalars, t \in SkTexts : CmdImport(s, t)
  \/ ImportAnswered
  \/ CmdReset
  \/ ResetAnswered
  \/ \E pk \in PubKeys, u \in PkTexts, t \in MsgTexts : CmdSignature(pk, u, t)
  \/ \E prefix \in Prefixes, t \in MsgTexts : CmdVerify(prefix, t)
  \/ CmdGetKeys
  \/ ShellPartition
  \/ ShellPowerLoss

(***************************************************************************)
(* The request manager of the partition and the shell thread are loops     *)
(* that only wait for each other.                                          *)
(***************************************************************************)
Fairness ==
  /\ WF_allShellVars(ShellMain)
  /\ WF_allShellVars(ShellPartition)
  /\ WF_allShellVars(KeygenAnswered)
  /\ WF_allShellVars(ImportAnswered)
  /\ WF_allShellVars(ResetAnswered)

ShellSpec == ShellInit /\ [][ShellNext]_allShellVars /\ Fairness

-----------------------------------------------------------------------------
\* The type invariant of the shell and of the keystore below it.
ShellTypeOK ==
  /\ TypeOK
  /\ cmd \in {"off", "prompt", "keygen", "import", "reset"}
  /\ out \in [cmd : {"none", "keygen", "import", "reset", "signature", "verify",
                     "getkeys"},
              kind : Kinds, pk : PubKeys \cup {ZeroBytes, None},
              text : MsgTexts \cup {None}, msg : {"asked", "other", None}]
  /\ printed \subseteq PubKeys \cup {ZeroBytes}

\* A public key that keygen has shown stays listed and usable until the next
\* reset, whenever power is lost and however often the board restarts.
ShownKeysSurvive ==
  cmd = "prompt" =>
    \A pk \in printed : \E i \in Stored :
      /\ public_keys_hex_store[i] = pk
      /\ sk_to_pk[secret_keys_store[i]] = pk

\* The public key that keygen shows is the one of the key it has just stored.
ShownKeyIsStored ==
  (cmd = "prompt" /\ out.kind = "key") =>
    keystore_size > 0 /\ out.pk = public_keys_hex_store[keystore_size - 1]

\* The signing root as the HTTP interfaces define it, without "0x".
Root == Text(FALSE, 64, TRUE)

\* sign_pk "Signs given message with given public key": a signature is made with a
\* key that is listed, and when the message of the command is a root of 64 digits
\* it is the signature of that root, whatever was signed or failed before.
SignsWhatWasAsked ==
  out.kind = "signature" =>
    /\ out.pk \in Listed
    /\ out.text = Root => out.msg = "asked"

\* "Perform a signature of a message with the wrong size and confirm the board
\* refuses to do that": not so, neither sign_pk nor its callers look at the size.
RefusesWrongSize == out.kind = "signature" => out.text.digits = 64

\* An import that prints nothing, which is what both a new key and a key that is
\* stored already get, has left the key in the keystore: only errors store nothing.
SilentImportStored ==
  (cmd = "prompt" /\ out.cmd = "import" /\ out.kind = "nothing") => out.pk \in Listed

\* Every command gives the prompt back, power losses or not.
CommandsEnd == (cmd # "prompt") ~> (cmd = "prompt")
=============================================================================
