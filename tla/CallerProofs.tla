---------------------------- MODULE CallerProofs ----------------------------
(***************************************************************************)
(* Proofs about the two callers of the keystore: Shell, the command line,  *)
(* and RemoteSigner, the HTTP handlers.  Each is first shown to use the    *)
(* keystore only as module Keystore allows, so that the theorems of        *)
(* KeystoreProofs hold below it; its own invariants are proved on top of   *)
(* them, for every capacity, every set of keys, of texts and of files, and *)
(* lists of every length, with power losses between any two steps.  A      *)
(* behaviour of one leaves the variables of the other free: nothing is     *)
(* said here of both together.                                             *)
(***************************************************************************)
EXTENDS Shell, RemoteSigner, KeystoreProofs

-----------------------------------------------------------------------------
(* The command line.                                                       *)

(***************************************************************************)
(* How far the shell and the partition are with a command.  A shell that   *)
(* is at its prompt has a partition that waits for a request, and what     *)
(* keygen takes for an index is the index of the key just added, unless    *)
(* the random number generator has failed.                                 *)
(***************************************************************************)
PhaseInv ==
  /\ cmd \in {"off", "prompt", "keygen", "import", "reset"}
  /\ cmd = "off" <=> pc = "off"
  /\ cmd = "prompt" => pc = "ready"
  /\ cmd = "keygen" => pc \in {"keygen", "ready"}
  /\ cmd = "import" => pc \in {"import", "ready"}
  /\ cmd = "reset" => pc \in {"reset", "ready"}
  /\ (cmd = "keygen" /\ pc = "ready") =>
       \/ reply.code = RNGERR /\ "rng" \in Faults
       \/ keystore_size > 0 /\ reply.code = keystore_size - 1

\* Every step of the shell is a step of the keystore or leaves it alone.
LEMMA ShellStep == TypeOK /\ PhaseInv /\ [ShellNext]_allShellVars => [Next]_vars
<1> SUFFICES ASSUME TypeOK, PhaseInv, [ShellNext]_allShellVars
             PROVE  Next \/ UNCHANGED vars
  OBVIOUS
<1>1. CASE ShellMain
  BY <1>1 DEF ShellMain, Next
<1>2. CASE CmdKeygen
  BY <1>2 DEF CmdKeygen, Next
<1>3. CASE KeygenAnswered
  <2>1. pc = "ready" /\ GetKey(reply.code)
    BY <1>3 DEF KeygenAnswered, GetKey
  <2>2. reply.code \in {RNGERR} \cup Slots
    BY <1>3, <2>1, KeystoreAssumption, SlotsFact DEF KeygenAnswered, PhaseInv, TypeOK
  <2>3. QED
    BY <2>1, <2>2 DEF Next
<1>4. ASSUME NEW s \in Scalars, NEW t \in SkTexts, CmdImport(s, t)
      PROVE  Next \/ UNCHANGED vars
  BY <1>4 DEF CmdImport, Next
<1>5. CASE ImportAnswered \/ ResetAnswered \/ CmdGetKeys
  BY <1>5 DEF ImportAnswered, ResetAnswered, CmdGetKeys
<1>6. CASE CmdReset
  BY <1>6 DEF CmdReset, Next
<1>7. ASSUME NEW pk \in PubKeys, NEW u \in PkTexts, NEW t \in MsgTexts,
             CmdSignature(pk, u, t)
      PROVE  Next \/ UNCHANGED vars
  BY <1>7 DEF CmdSignature, Next
<1>8. ASSUME NEW prefix \in Prefixes, NEW t \in MsgTexts, CmdVerify(prefix, t)
      PROVE  Next \/ UNCHANGED vars
  BY <1>8 DEF CmdVerify
<1>9. CASE ShellPartition
  BY <1>9 DEF ShellPartition, Next
<1>10. CASE ShellPowerLoss
  BY <1>10 DEF ShellPowerLoss, Next
<1>11. CASE UNCHANGED allShellVars
  BY <1>11 DEF allShellVars
<1>12. QED
  BY <1>1, <1>2, <1>3, <1>4, <1>5, <1>6, <1>7, <1>8, <1>9, <1>10, <1>11
     DEF ShellNext

\* Every step of the shell keeps PhaseInv.
LEMMA PhaseInductive == TypeOK /\ PhaseInv /\ [ShellNext]_allShellVars => PhaseInv'
<1> SUFFICES ASSUME TypeOK, PhaseInv, [ShellNext]_allShellVars
             PROVE  PhaseInv'
  OBVIOUS
<1> USE KeystoreAssumption DEF PhaseInv
<1>1. CASE ShellMain
  BY <1>1 DEF ShellMain, Boot
<1>2. CASE CmdKeygen
  <2>1. CASE keystore_size >= MAX_KEYSTORE_SIZE
    BY <1>2, <2>1 DEF CmdKeygen, vars, TypeOK
  <2>2. CASE keystore_size < MAX_KEYSTORE_SIZE
    <3>1. cmd' = "keygen" /\ SecureKeygen /\ pc = "ready"
      BY <1>2, <2>2 DEF CmdKeygen, TypeOK, SecureKeygen
    <3>2. CASE "rng" \in Faults /\ Refuse("keygen", RNGERR)
      BY <3>1, <3>2 DEF Refuse, Answer
    <3>3. ASSUME NEW s \in RandomScalars, AddSk("keygen", s)
          PROVE  PhaseInv'
      BY <3>1, <3>3 DEF AddSk, Answer, TypeOK
    <3>4. QED
      BY <2>2, <3>1, <3>2, <3>3 DEF SecureKeygen, TypeOK
  <2>3. QED
    BY <2>1, <2>2 DEF TypeOK
<1>3. CASE KeygenAnswered
  BY <1>3 DEF KeygenAnswered, GetKey
<1>4. ASSUME NEW s \in Scalars, NEW t \in SkTexts, CmdImport(s, t)
      PROVE  PhaseInv'
  BY <1>4 DEF CmdImport, ImportSk, Refuse, AddSk, vars
<1>5. CASE ImportAnswered \/ ResetAnswered \/ CmdGetKeys
  BY <1>5 DEF ImportAnswered, ResetAnswered, CmdGetKeys, vars, ram
<1>6. CASE CmdReset
  BY <1>6 DEF CmdReset, Reset
<1>7. ASSUME NEW pk \in PubKeys, NEW u \in PkTexts, NEW t \in MsgTexts,
             CmdSignature(pk, u, t)
      PROVE  PhaseInv'
  BY <1>7 DEF CmdSignature, SignPk, vars
<1>8. ASSUME NEW prefix \in Prefixes, NEW t \in MsgTexts, CmdVerify(prefix, t)
      PROVE  PhaseInv'
  BY <1>8 DEF CmdVerify, vars
<1>9. CASE ShellPartition
  BY <1>9 DEF ShellPartition, SaveSize, RemoveKeys, shellVars, Answer, TypeOK
<1>10. CASE ShellPowerLoss
  BY <1>10 DEF ShellPowerLoss, PowerLoss
<1>11. CASE UNCHANGED allShellVars
  BY <1>11 DEF allShellVars, vars, shellVars, ram
<1>12. QED
  BY <1>1, <1>2, <1>3, <1>4, <1>5, <1>6, <1>7, <1>8, <1>9, <1>10, <1>11
     DEF ShellNext

\* PhaseInv and the types of the keystore hold in every reachable state.
LEMMA PhaseInvariant == ShellSpec => [](TypeOK /\ PhaseInv)
<1>1. ShellInit => TypeOK /\ PhaseInv
  BY KeystoreAssumption
     DEF ShellInit, Init, TypeOK, PhaseInv, PCs, NoReply, Answer, Ops
<1>2. TypeOK /\ PhaseInv /\ [ShellNext]_allShellVars => TypeOK' /\ PhaseInv'
  BY ShellStep, PhaseInductive, TypeInductive
<1>3. QED
  BY <1>1, <1>2, PTL DEF ShellSpec

(***************************************************************************)
(* Whatever is typed and whatever fails, the shell drives the keystore     *)
(* only through the steps of module Keystore: its theorems hold here too.  *)
(***************************************************************************)
THEOREM ShellImplementsKeystore == ShellSpec => Spec
<1>1. ShellInit => Init
  BY DEF ShellInit
<1>2. QED
  BY <1>1, ShellStep, PhaseInvariant, PTL DEF ShellSpec, Spec

-----------------------------------------------------------------------------
(***************************************************************************)
(* What is on the screen and in the history has its type.                  *)
(***************************************************************************)
OutTypes ==
  /\ out \in [cmd : {"none", "keygen", "import", "reset", "signature", "verify",
                     "getkeys"},
              kind : Kinds, pk : PubKeys \cup {ZeroBytes, None},
              text : MsgTexts \cup {None}, msg : {"asked", "other", None}]
  /\ printed \subseteq PubKeys \cup {ZeroBytes}

\* verify shows one of its two verdicts.
LEMMA VerdictIsShown ==
  ASSUME NEW prefix, NEW t, CmdVerify(prefix, t)
  PROVE  out' \in {Show("verify", "BLSTSUCCESS"), Show("verify", "BLSTFAIL")}
<1>1. PICK verdict \in Verdicts(Text(prefix, 96, TRUE), t, Text(prefix, 192, TRUE)) :
        out' = Show("verify", verdict)
  BY DEF CmdVerify
<1>2. verdict \in {"BLSTSUCCESS", "BLSTFAIL"}
  BY DEF Verdicts
<1>3. QED
  BY <1>1, <1>2

\* Every step keeps OutTypes.
LEMMA OutTypesInductive == TypeOK /\ OutTypes /\ [ShellNext]_allShellVars => OutTypes'
<1> SUFFICES ASSUME TypeOK, OutTypes, [ShellNext]_allShellVars
             PROVE  OutTypes'
  OBVIOUS
<1> USE KeystoreAssumption DEF OutTypes, Kinds, Show
<1>1. CASE ShellMain
  BY <1>1 DEF ShellMain
<1>2. CASE CmdKeygen \/ CmdReset
  BY <1>2 DEF CmdKeygen, CmdReset
<1>3. CASE KeygenAnswered
  <2>1. reply'.pk \in PubKeys \cup {ZeroBytes}
    BY <1>3, SlotsFact DEF KeygenAnswered, GetKey, TypeOK, Stored
  <2>2. QED
    BY <1>3, <2>1 DEF KeygenAnswered
<1>4. ASSUME NEW s \in Scalars, NEW t \in SkTexts, CmdImport(s, t)
      PROVE  OutTypes'
  BY <1>4 DEF CmdImport
<1>5. CASE ImportAnswered
  <2>1. ImportText(reply.code) \in Kinds
    BY DEF ImportText
  <2>2. QED
    BY <1>5, <2>1 DEF ImportAnswered
<1>6. CASE ResetAnswered \/ CmdGetKeys
  BY <1>6 DEF ResetAnswered, CmdGetKeys
<1>7. ASSUME NEW pk \in PubKeys, NEW u \in PkTexts, NEW t \in MsgTexts,
             CmdSignature(pk, u, t)
      PROVE  OutTypes'
  <2>1. CASE out' = Show("signature", "error")
    BY <1>7, <2>1 DEF CmdSignature
  <2>2. CASE out' # Show("signature", "error")
    <3>1. PICK what \in Signed(t) :
            out' = [Show("signature", "signature") EXCEPT
                      !.pk = pk, !.text = t, !.msg = what]
      BY <1>7, <2>2 DEF CmdSignature
    <3>2. what \in {"asked", "other"}
      BY DEF Signed
    <3>3. QED
      BY <1>7, <3>1, <3>2 DEF CmdSignature
  <2>3. QED
    BY <2>1, <2>2
<1>8. ASSUME NEW prefix \in Prefixes, NEW t \in MsgTexts, CmdVerify(prefix, t)
      PROVE  OutTypes'
  <2>1. out' \in {Show("verify", "BLSTSUCCESS"), Show("verify", "BLSTFAIL")}
    BY <1>8, VerdictIsShown
  <2>2. QED
    BY <1>8, <2>1 DEF CmdVerify
<1>9. CASE ShellPartition
  BY <1>9 DEF ShellPartition, shellVars
<1>10. CASE ShellPowerLoss
  BY <1>10 DEF ShellPowerLoss
<1>11. CASE UNCHANGED allShellVars
  BY <1>11 DEF allShellVars, shellVars
<1>12. QED
  BY <1>1, <1>2, <1>3, <1>4, <1>5, <1>6, <1>7, <1>8, <1>9, <1>10, <1>11
     DEF ShellNext

(***************************************************************************)
(* The type invariant of the shell and of the keystore, for every set of   *)
(* failures.                                                               *)
(***************************************************************************)
THEOREM ShellTypeCorrect == ShellSpec => []ShellTypeOK
<1>1. ShellInit => OutTypes
  BY DEF ShellInit, OutTypes, Show, Kinds
<1>2. TypeOK /\ PhaseInv /\ OutTypes => ShellTypeOK
  BY DEF ShellTypeOK, OutTypes, PhaseInv
<1>3. QED
  BY <1>1, <1>2, OutTypesInductive, PhaseInvariant, PTL DEF ShellSpec

-----------------------------------------------------------------------------
\* A root of 64 digits fits, with its terminator, into the bytes that tfm_sign_pk
\* passes and is decoded, so it is what is signed.
LEMMA RootIsSigned == Signed(Root) = {"asked"}
<1>1. Root.hex = TRUE /\ Root.digits = 64 /\ Root.prefix = FALSE
  BY DEF Root, Text
<1>2. Passed(Root, SIGN_MSG_BYTES) = {[text |-> Root, exact |-> TRUE]}
  BY <1>1 DEF Passed, strlen, SIGN_MSG_BYTES
<1>3. msg_parse(Root) \in {0, HEX2BINERR}
  BY <1>1 DEF msg_parse, parse_hex, BADLEN, BADFORMAT, HEX2BINERR
<1>4. QED
  BY <1>2, <1>3 DEF Signed

(***************************************************************************)
(* A signature stays on the screen only while the shell is at its prompt,  *)
(* and the keys listed then do not change.                                 *)
(***************************************************************************)
SignedInv ==
  /\ cmd # "prompt" => out.kind = "nothing"
  /\ SignsWhatWasAsked

\* Every step keeps SignedInv.
LEMMA SignedInductive ==
  TypeOK /\ PhaseInv /\ OutTypes /\ SignedInv /\ [ShellNext]_allShellVars => SignedInv'
<1> SUFFICES ASSUME TypeOK, PhaseInv, OutTypes, SignedInv, [ShellNext]_allShellVars
             PROVE  SignedInv'
  OBVIOUS
<1> USE KeystoreAssumption DEF SignedInv, SignsWhatWasAsked, Show
<1>1. CASE ShellMain
  BY <1>1 DEF ShellMain
<1>2. CASE CmdKeygen \/ CmdReset
  BY <1>2 DEF CmdKeygen, CmdReset
<1>3. CASE KeygenAnswered
  BY <1>3 DEF KeygenAnswered
<1>4. ASSUME NEW s \in Scalars, NEW t \in SkTexts, CmdImport(s, t)
      PROVE  SignedInv'
  BY <1>4 DEF CmdImport
<1>5. CASE ImportAnswered
  <2>1. ImportText(reply.code) # "signature"
    BY DEF ImportText
  <2>2. QED
    BY <1>5, <2>1 DEF ImportAnswered, OutTypes
<1>6. CASE ResetAnswered \/ CmdGetKeys
  BY <1>6 DEF ResetAnswered, CmdGetKeys
<1>7. ASSUME NEW pk \in PubKeys, NEW u \in PkTexts, NEW t \in MsgTexts,
             CmdSignature(pk, u, t)
      PROVE  SignedInv'
  <2>1. CASE out' = Show("signature", "error")
    BY <1>7, <2>1 DEF CmdSignature
  <2>2. CASE out' # Show("signature", "error")
    <3>1. SignPk(pk) /\ reply'.code = 0 /\ cmd' = cmd /\ cmd = "prompt"
      BY <1>7, <2>2 DEF CmdSignature
    <3>2. PICK what \in Signed(t) :
            out' = [Show("signature", "signature") EXCEPT
                      !.pk = pk, !.text = t, !.msg = what]
      BY <1>7, <2>2 DEF CmdSignature
    <3>3. pk_in_keystore(pk) # -1
      BY <3>1 DEF SignPk, Answer, PKNOTFOUND
    <3>4. pk \in Listed
      BY <3>3, FoundInKeystore DEF Listed
    <3>5. Listed' = Listed
      BY <3>1 DEF SignPk, Listed, Stored, ram
    <3>6. out'.pk = pk /\ out'.text = t /\ out'.msg = what
      BY <3>2
    <3>7. t = Root => what = "asked"
      BY RootIsSigned
    <3>8. QED
      BY <3>1, <3>4, <3>5, <3>6, <3>7
  <2>3. QED
    BY <2>1, <2>2
<1>8. ASSUME NEW prefix \in Prefixes, NEW t \in MsgTexts, CmdVerify(prefix, t)
      PROVE  SignedInv'
  <2>1. out' \in {Show("verify", "BLSTSUCCESS"), Show("verify", "BLSTFAIL")}
    BY <1>8, VerdictIsShown
  <2>2. QED
    BY <1>8, <2>1 DEF CmdVerify
<1>9. CASE ShellPartition
  BY <1>9 DEF ShellPartition, SaveSize, RemoveKeys, shellVars, PhaseInv
<1>10. CASE ShellPowerLoss
  BY <1>10 DEF ShellPowerLoss
<1>11. CASE UNCHANGED allShellVars
  BY <1>11 DEF allShellVars, shellVars, vars, ram, Listed, Stored
<1>12. QED
  BY <1>1, <1>2, <1>3, <1>4, <1>5, <1>6, <1>7, <1>8, <1>9, <1>10, <1>11
     DEF ShellNext

(***************************************************************************)
(* Whatever fails, whichever texts are given, the command signature uses a *)
(* key that is listed, and signs a root of 64 digits as it was given.      *)
(***************************************************************************)
THEOREM ShellSignsWhatWasAsked == ShellSpec => []SignsWhatWasAsked
<1>1. ShellInit => OutTypes /\ SignedInv
  BY DEF ShellInit, OutTypes, SignedInv, SignsWhatWasAsked, Show, Kinds
<1>2. TypeOK /\ PhaseInv /\ OutTypes /\ SignedInv /\ [ShellNext]_allShellVars => SignedInv'
  BY SignedInductive
<1>3. SignedInv => SignsWhatWasAsked
  BY DEF SignedInv
<1>4. QED
  BY <1>1, <1>2, <1>3, OutTypesInductive, PhaseInvariant, PTL DEF ShellSpec

-----------------------------------------------------------------------------
(***************************************************************************)
(* A public key stays on the screen only while the shell is at its prompt, *)
(* and no key is added until the next command takes it away.               *)
(***************************************************************************)
ShownInv ==
  /\ cmd # "prompt" => out.kind = "nothing"
  /\ ShownKeyIsStored

\* While random numbers can be had every step keeps ShownInv.
LEMMA ShownInductive ==
  ASSUME "rng" \notin Faults
  PROVE  TypeOK /\ PhaseInv /\ OutTypes /\ ShownInv /\ [ShellNext]_allShellVars => ShownInv'
<1> SUFFICES ASSUME TypeOK, PhaseInv, OutTypes, ShownInv, [ShellNext]_allShellVars
             PROVE  ShownInv'
  OBVIOUS
<1> USE KeystoreAssumption DEF ShownInv, ShownKeyIsStored, Show
<1>1. CASE ShellMain
  BY <1>1 DEF ShellMain
<1>2. CASE CmdKeygen \/ CmdReset
  BY <1>2 DEF CmdKeygen, CmdReset
<1>3. CASE KeygenAnswered
  <2>1. pc = "ready" /\ GetKey(reply.code)
    BY <1>3 DEF KeygenAnswered, GetKey
  <2>2. keystore_size > 0 /\ reply.code = keystore_size - 1
    BY <1>3, <2>1 DEF KeygenAnswered, PhaseInv
  <2>3. keystore_size - 1 \in Stored
    BY <2>2, SlotsFact DEF TypeOK, Stored
  <2>4. reply'.pk = public_keys_hex_store[keystore_size - 1]
    BY <2>1, <2>2, <2>3 DEF GetKey
  <2>5. UNCHANGED <<public_keys_hex_store, keystore_size>>
    BY <2>1 DEF GetKey, ram
  <2>6. QED
    BY <1>3, <2>2, <2>4, <2>5 DEF KeygenAnswered
<1>4. ASSUME NEW s \in Scalars, NEW t \in SkTexts, CmdImport(s, t)
      PROVE  ShownInv'
  BY <1>4 DEF CmdImport
<1>5. CASE ImportAnswered
  <2>1. ImportText(reply.code) # "key"
    BY DEF ImportText
  <2>2. QED
    BY <1>5, <2>1 DEF ImportAnswered, OutTypes
<1>6. CASE ResetAnswered \/ CmdGetKeys
  BY <1>6 DEF ResetAnswered, CmdGetKeys
<1>7. ASSUME NEW pk \in PubKeys, NEW u \in PkTexts, NEW t \in MsgTexts,
             CmdSignature(pk, u, t)
      PROVE  ShownInv'
  <2>1. cmd' = "prompt" /\ cmd = "prompt"
    BY <1>7 DEF CmdSignature
  <2>2. out'.kind # "key"
    <3>1. CASE out' = Show("signature", "error")
      BY <3>1
    <3>2. ASSUME NEW what,
                 out' = [Show("signature", "signature") EXCEPT
                      !.pk = pk, !.text = t, !.msg = what]
          PROVE  out'.kind # "key"
      BY <3>2
    <3>3. QED
      BY <1>7, <3>1, <3>2 DEF CmdSignature
  <2>3. QED
    BY <2>1, <2>2
<1>8. ASSUME NEW prefix \in Prefixes, NEW t \in MsgTexts, CmdVerify(prefix, t)
      PROVE  ShownInv'
  <2>1. out' \in {Show("verify", "BLSTSUCCESS"), Show("verify", "BLSTFAIL")}
    BY <1>8, VerdictIsShown
  <2>2. QED
    BY <1>8, <2>1 DEF CmdVerify
<1>9. CASE ShellPartition
  BY <1>9 DEF ShellPartition, SaveSize, RemoveKeys, shellVars, PhaseInv
<1>10. CASE ShellPowerLoss
  BY <1>10 DEF ShellPowerLoss
<1>11. CASE UNCHANGED allShellVars
  BY <1>11 DEF allShellVars, shellVars, vars, ram
<1>12. QED
  BY <1>1, <1>2, <1>3, <1>4, <1>5, <1>6, <1>7, <1>8, <1>9, <1>10, <1>11
     DEF ShellNext

(***************************************************************************)
(* While random numbers can be had, and whatever else fails, keygen shows  *)
(* the public key beside the key it has stored last.                       *)
(***************************************************************************)
THEOREM KeygenShowsStoredKey ==
  ASSUME "rng" \notin Faults
  PROVE  ShellSpec => []ShownKeyIsStored
<1>1. ShellInit => OutTypes /\ ShownInv
  BY DEF ShellInit, OutTypes, ShownInv, ShownKeyIsStored, Show, Kinds
<1>2. TypeOK /\ PhaseInv /\ OutTypes /\ ShownInv /\ [ShellNext]_allShellVars => ShownInv'
  BY ShownInductive
<1>3. ShownInv => ShownKeyIsStored
  BY DEF ShownInv
<1>4. QED
  BY <1>1, <1>2, <1>3, OutTypesInductive, PhaseInvariant, PTL DEF ShellSpec

-----------------------------------------------------------------------------
(***************************************************************************)
(* That a shown key survives is not inductive in terms of RAM, which is    *)
(* blank after a loss of power.  What lasts is protected storage: every    *)
(* key shown since the last reset is one of those it holds, and reset      *)
(* forgets what was shown before it erases anything.                       *)
(***************************************************************************)
SurvivalInv ==
  /\ \A pk \in printed : \E i \in Slots : i < SavedSize /\ sk_to_pk[ps_keys[i]] = pk
  /\ cmd = "reset" => printed = {}

\* While storage works and random numbers can be had every step keeps SurvivalInv.
LEMMA SurvivalInductive ==
  ASSUME StorageWorks, "rng" \notin Faults,
         TypeOK, PhaseInv, StoreInv, ListedInv, SurvivalInv, [ShellNext]_allShellVars
  PROVE  SurvivalInv'
<1> USE KeystoreAssumption, SlotsFact
<1>1. CASE printed' = {}
  BY <1>1 DEF SurvivalInv
<1>2. CASE printed' # {}
  <2>1. ~Reset /\ ~RemoveKeys /\ ~CmdReset
    <3>1. ~CmdReset
      BY <1>2 DEF CmdReset
    <3>2. ~RemoveKeys
      <4> SUFFICES ASSUME RemoveKeys PROVE FALSE
        OBVIOUS
      <4>1. pc = "reset" /\ pc' = "ready" /\ cmd = "reset" /\ printed = {}
        BY DEF RemoveKeys, PhaseInv, SurvivalInv
      <4>2. printed' = printed
        BY <4>1 DEF ShellNext, ShellMain, CmdKeygen, KeygenAnswered, CmdImport, ImportAnswered,
             CmdReset, ResetAnswered, CmdSignature, CmdVerify, CmdGetKeys, ShellPartition,
             ShellPowerLoss, allShellVars, shellVars
      <4>3. QED
        BY <1>2, <4>1, <4>2
    <3>3. ~Reset
      <4> SUFFICES ASSUME Reset PROVE FALSE
        OBVIOUS
      <4>1. pc = "ready" /\ pc' = "reset"
        BY DEF Reset
      <4>2. QED
        BY <3>1, <4>1
           DEF ShellNext, ShellMain, CmdKeygen, KeygenAnswered, CmdImport, ImportAnswered,
               ResetAnswered, CmdSignature, CmdVerify, CmdGetKeys, ShellPartition,
               ShellPowerLoss, allShellVars, shellVars, vars, ram, Boot, SecureKeygen, ImportSk,
               AddSk, Refuse, GetKey, SignPk, SaveSize, RemoveKeys, PowerLoss
    <3>4. QED
      BY <3>1, <3>2, <3>3
  <2>2. [Next]_vars
    BY ShellStep
  <2>3. \A i \in Slots : i < SavedSize => i < SavedSize' /\ ps_keys'[i] = ps_keys[i]
    BY <2>1, <2>2, SavedKeysStay
  <2>4. CASE KeygenAnswered
    <3>1. pc = "ready" /\ GetKey(reply.code) /\ printed' = printed \cup {reply'.pk}
          /\ cmd' = "prompt"
      BY <2>4 DEF KeygenAnswered, GetKey
    <3> DEFINE n == keystore_size - 1
    <3>2. keystore_size > 0 /\ reply.code = n
      BY <2>4, <3>1 DEF KeygenAnswered, PhaseInv
    <3>3. n \in Slots /\ n < keystore_size
      BY <3>2 DEF TypeOK
    <3>4. reply'.pk = public_keys_hex_store[n]
      BY <3>1, <3>2, <3>3 DEF GetKey, Stored
    <3>5. reply'.pk = sk_to_pk[ps_keys[n]] /\ n < SavedSize
      BY <3>1, <3>3, <3>4 DEF ListedInv, StoreInv
    <3> HIDE DEF n
    <3>6. n < SavedSize' /\ sk_to_pk[ps_keys'[n]] = reply'.pk
      BY <2>3, <3>3, <3>5
    <3>7. \A pk \in printed : \E i \in Slots :
            i < SavedSize' /\ sk_to_pk[ps_keys'[i]] = pk
      BY <2>3 DEF SurvivalInv
    <3>8. \A pk \in printed' : \E i \in Slots :
            i < SavedSize' /\ sk_to_pk[ps_keys'[i]] = pk
      BY <3>1, <3>3, <3>6, <3>7
    <3>9. QED
      BY <3>1, <3>8 DEF SurvivalInv
  <2>5. CASE ~KeygenAnswered
    <3>1. printed' = printed /\ (cmd' = "reset" => cmd = "reset")
      BY <2>1, <2>5
         DEF ShellNext, ShellMain, CmdKeygen, CmdImport, ImportAnswered, ResetAnswered,
             CmdSignature, CmdVerify, CmdGetKeys, ShellPartition, ShellPowerLoss, allShellVars,
             shellVars
    <3>2. QED
      BY <2>3, <3>1 DEF SurvivalInv
  <2>6. QED
    BY <2>4, <2>5
<1>3. QED
  BY <1>1, <1>2

(***************************************************************************)
(* While storage works and random numbers can be had, a public key that    *)
(* keygen has shown is listed and usable whenever the shell is at its      *)
(* prompt, until the next reset: power may be lost at any step.            *)
(***************************************************************************)
THEOREM ShownKeysDoSurvive ==
  ASSUME StorageWorks, "rng" \notin Faults
  PROVE  ShellSpec => []ShownKeysSurvive
<1>1. ShellInit => SurvivalInv
  BY DEF ShellInit, SurvivalInv
<1>2. /\ TypeOK /\ PhaseInv /\ StoreInv /\ ListedInv /\ SurvivalInv
      /\ [ShellNext]_allShellVars
      => SurvivalInv'
  BY SurvivalInductive
<1>3. TypeOK /\ PhaseInv /\ StoreInv /\ ListedInv /\ SurvivalInv => ShownKeysSurvive
  <2> SUFFICES ASSUME TypeOK, PhaseInv, StoreInv, ListedInv, SurvivalInv,
                      cmd = "prompt", NEW pk \in printed
               PROVE  \E i \in Stored : /\ public_keys_hex_store[i] = pk
                                        /\ sk_to_pk[secret_keys_store[i]] = pk
    BY DEF ShownKeysSurvive
  <2>1. pc = "ready"
    BY DEF PhaseInv
  <2>2. PICK i \in Slots : i < SavedSize /\ sk_to_pk[ps_keys[i]] = pk
    BY DEF SurvivalInv
  <2>3. i < keystore_size /\ ps_keys[i] = secret_keys_store[i]
    BY <2>1, <2>2 DEF StoreInv
  <2>4. public_keys_hex_store[i] = sk_to_pk[secret_keys_store[i]]
    BY <2>1, <2>3 DEF ListedInv
  <2>5. QED
    BY <2>2, <2>3, <2>4 DEF Stored
<1>4. Spec => []StoreInv /\ []ListedInv
  BY StoreInvariant, ListedInvariant
<1>5. QED
  BY <1>1, <1>2, <1>3, <1>4, PhaseInvariant, ShellImplementsKeystore, PTL DEF ShellSpec

-----------------------------------------------------------------------------
(***************************************************************************)
(* An import under way: the key it is about is the last one in RAM while   *)
(* add_sk runs, and listed once the partition has answered (a key that is  *)
(* stored already was listed before).                                      *)
(***************************************************************************)
ShellImportInv ==
  /\ cmd = "off" => out.cmd = "none"
  /\ cmd = "import" =>
       /\ out.cmd = "import"
       /\ pc = "import" => out.pk = sk_to_pk[secret_keys_store[keystore_size - 1]]
       /\ pc = "ready" => out.pk \in Listed
  /\ SilentImportStored

\* While storage works every step keeps ShellImportInv.
LEMMA ShellImportInductive ==
  ASSUME StorageWorks,
         TypeOK, PhaseInv, ListedInv, OutTypes, ShellImportInv, [ShellNext]_allShellVars
  PROVE  ShellImportInv'
<1> USE KeystoreAssumption, SlotsFact DEF ShellImportInv, SilentImportStored, Show
<1>1. CASE ShellMain
  BY <1>1 DEF ShellMain
<1>2. CASE CmdKeygen \/ CmdReset
  BY <1>2 DEF CmdKeygen, CmdReset
<1>3. CASE KeygenAnswered
  BY <1>3 DEF KeygenAnswered
<1>4. ASSUME NEW s \in Scalars, NEW t \in SkTexts, CmdImport(s, t)
      PROVE  ShellImportInv'
  <2>1. CASE out' = Show("import", "error")
    BY <1>4, <2>1 DEF CmdImport
  <2>2. CASE out' # Show("import", "error")
    <3>1. /\ ImportSk(s) /\ cmd' = "import" /\ keystore_size < MAX_KEYSTORE_SIZE
          /\ out' = [Show("import", "nothing") EXCEPT !.pk = sk_to_pk[s]]
      BY <1>4, <2>2 DEF CmdImport
    <3>2. pc = "ready" /\ out'.cmd = "import" /\ out'.pk = sk_to_pk[s]
      BY <3>1 DEF ImportSk
    <3>3. CASE IsStored(s) /\ Refuse("import", EXISTINGKEY)
      <4>1. PICK i \in Stored : secret_keys_store[i] = s
        BY <3>3 DEF IsStored
      <4>2. public_keys_hex_store[i] = sk_to_pk[s]
        BY <3>2, <4>1 DEF ListedInv, Stored
      <4>3. sk_to_pk[s] \in Listed'
        BY <3>3, <4>1, <4>2 DEF Refuse, ram, Listed, Stored
      <4>4. QED
        BY <3>1, <3>2, <3>3, <4>3 DEF Refuse
    <3>4. CASE AddSk("import", s)
      <4>1. pc' = "import" /\ secret_keys_store'[keystore_size' - 1] = s
        BY <3>1, <3>4 DEF AddSk, StorageWorks, TypeOK
      <4>2. QED
        BY <3>1, <3>2, <4>1
    <3>5. QED
      BY <3>1, <3>3, <3>4 DEF ImportSk, TypeOK
  <2>3. QED
    BY <2>1, <2>2
<1>5. CASE ImportAnswered
  <2>1. /\ cmd = "import" /\ pc = "ready" /\ cmd' = "prompt"
        /\ out'.pk = out.pk /\ Listed' = Listed
    BY <1>5 DEF ImportAnswered, vars, ram, Listed, Stored, OutTypes
  <2>2. QED
    BY <2>1
<1>6. CASE ResetAnswered \/ CmdGetKeys
  BY <1>6 DEF ResetAnswered, CmdGetKeys
<1>7. ASSUME NEW pk \in PubKeys, NEW u \in PkTexts, NEW t \in MsgTexts,
             CmdSignature(pk, u, t)
      PROVE  ShellImportInv'
  <2>1. cmd' = "prompt" /\ cmd = "prompt"
    BY <1>7 DEF CmdSignature
  <2>2. out'.cmd # "import"
    <3>1. CASE out' = Show("signature", "error")
      BY <3>1
    <3>2. ASSUME NEW what,
                 out' = [Show("signature", "signature") EXCEPT
                      !.pk = pk, !.text = t, !.msg = what]
          PROVE  out'.cmd # "import"
      BY <3>2
    <3>3. QED
      BY <1>7, <3>1, <3>2 DEF CmdSignature
  <2>3. QED
    BY <2>1, <2>2
<1>8. ASSUME NEW prefix \in Prefixes, NEW t \in MsgTexts, CmdVerify(prefix, t)
      PROVE  ShellImportInv'
  <2>1. out' \in {Show("verify", "BLSTSUCCESS"), Show("verify", "BLSTFAIL")}
    BY <1>8, VerdictIsShown
  <2>2. QED
    BY <1>8, <2>1 DEF CmdVerify
<1>9. CASE ShellPartition
  <2>1. UNCHANGED <<cmd, out>>
    BY <1>9 DEF ShellPartition, shellVars
  <2>2. CASE cmd = "import"
    <3>1. SaveSize /\ pc = "import"
      BY <1>9, <2>2 DEF ShellPartition, SaveSize, RemoveKeys, PhaseInv
    <3> DEFINE n == keystore_size - 1
    <3>2. n \in Slots /\ n < keystore_size
      BY <3>1 DEF TypeOK
    <3>3. /\ public_keys_hex_store'[n] = sk_to_pk[secret_keys_store[n]]
          /\ keystore_size' = keystore_size /\ pc' = "ready"
      BY <3>1, <3>2 DEF SaveSize, StorePk, TypeOK
    <3>4. out.pk \in Listed'
      BY <2>2, <3>1, <3>2, <3>3 DEF Listed, Stored
    <3>5. QED
      BY <2>1, <2>2, <3>3, <3>4
  <2>3. CASE cmd # "import"
    BY <1>9, <2>1, <2>3 DEF ShellPartition, SaveSize, RemoveKeys, PhaseInv
  <2>4. QED
    BY <2>2, <2>3
<1>10. CASE ShellPowerLoss
  BY <1>10 DEF ShellPowerLoss
<1>11. CASE UNCHANGED allShellVars
  BY <1>11 DEF allShellVars, shellVars, vars, ram, Listed, Stored
<1>12. QED
  BY <1>1, <1>2, <1>3, <1>4, <1>5, <1>6, <1>7, <1>8, <1>9, <1>10, <1>11
     DEF ShellNext

(***************************************************************************)
(* While storage works, an import that prints nothing has left its key     *)
(* among the listed ones.                                                  *)
(***************************************************************************)
THEOREM SilentImportsAreStored ==
  ASSUME StorageWorks
  PROVE  ShellSpec => []SilentImportStored
<1>1. ShellInit => OutTypes /\ ShellImportInv
  BY DEF ShellInit, OutTypes, ShellImportInv, SilentImportStored, Show, Kinds
<1>2. /\ TypeOK /\ PhaseInv /\ ListedInv /\ OutTypes /\ ShellImportInv
      /\ [ShellNext]_allShellVars
      => ShellImportInv'
  BY ShellImportInductive
<1>3. ShellImportInv => SilentImportStored
  BY DEF ShellImportInv
<1>4. Spec => []ListedInv
  BY ListedInvariant
<1>5. QED
  BY <1>1, <1>2, <1>3, <1>4, OutTypesInductive, PhaseInvariant,
     ShellImplementsKeystore, PTL DEF ShellSpec

-----------------------------------------------------------------------------
(* The HTTP handlers.                                                      *)


(***************************************************************************)
(* How far the signer and the partition are.  The keystores still to do    *)
(* are the last ones of those that were asked for.                         *)
(***************************************************************************)
FilesDone == Len(asked) - Len(files)

JobInv ==
  /\ job \in {"off", "idle", "import"}
  /\ job = "off" <=> pc = "off"
  /\ job = "idle" => pc = "ready"
  /\ job = "import" => pc \in {"ready", "import"}
  /\ files \in Seq(Files) /\ asked \in Seq(Files)
  /\ job # "import" => files = << >>
  /\ Len(files) <= Len(asked)
  /\ \A i \in 1 .. Len(files) : files[i] = asked[FilesDone + i]

\* A list of keystores is a sequence of files.
LEMMA ListsAreSeqs == Lists \subseteq Seq(Files)
<1> SUFFICES ASSUME NEW n \in 1 .. KeyMem, NEW list \in [1 .. n -> Files]
             PROVE  list \in Seq(Files)
  BY DEF Lists
<1>1. n \in Nat
  BY RemoteSignerAssumption
<1>2. QED
  BY <1>1, SeqDef

\* Every step of the signer is a step of the keystore or leaves it alone.
LEMMA RemoteStep == TypeOK /\ JobInv /\ [RemoteNext]_allRemoteVars => [Next]_vars
<1> SUFFICES ASSUME TypeOK, JobInv, [RemoteNext]_allRemoteVars
             PROVE  Next \/ UNCHANGED vars
  OBVIOUS
<1>1. CASE RemoteMain
  BY <1>1 DEF RemoteMain, Next
<1>2. ASSUME NEW error, ImportRefused(error)
      PROVE  UNCHANGED vars
  BY <1>2 DEF ImportRefused
<1>3. ASSUME NEW list, ImportKeystores(list)
      PROVE  UNCHANGED vars
  BY <1>3 DEF ImportKeystores
<1>4. CASE ImportFile
  <2>1. Head(files) \in Files
    BY <1>4 DEF ImportFile, JobInv
  <2>2. Head(files).sk \in Scalars
    BY <2>1, RemoteSignerAssumption
  <2>3. (\E s \in {Head(files).sk} \cup Leftovers : ImportSk(s)) \/ UNCHANGED vars
    BY <1>4 DEF ImportFile
  <2>4. QED
    BY <2>2, <2>3, RemoteSignerAssumption DEF Next
<1>5. CASE ImportDone \/ GetKeys
  BY <1>5 DEF ImportDone, GetKeys
<1>6. ASSUME NEW pk \in PubKeys, NEW body \in SignBodies, Sign(pk, body)
      PROVE  Next \/ UNCHANGED vars
  BY <1>6 DEF Sign, Next
<1>7. CASE RemotePartition
  BY <1>7 DEF RemotePartition, Next
<1>8. CASE RemotePowerLoss \/ \E pk \in PubKeys : SignFaults(pk)
  BY <1>8 DEF SignFaults, RemotePowerLoss, Next
<1>9. CASE UNCHANGED allRemoteVars
  BY <1>9 DEF allRemoteVars
<1>10. QED
  BY <1>1, <1>2, <1>3, <1>4, <1>5, <1>6, <1>7, <1>8, <1>9 DEF RemoteNext

\* Every step keeps JobInv.
LEMMA JobInductive == TypeOK /\ JobInv /\ [RemoteNext]_allRemoteVars => JobInv'
<1> SUFFICES ASSUME TypeOK, JobInv, [RemoteNext]_allRemoteVars
             PROVE  JobInv'
  OBVIOUS
<1> USE DEF JobInv, FilesDone
<1>1. CASE RemoteMain
  BY <1>1 DEF RemoteMain, Boot
<1>2. ASSUME NEW error, ImportRefused(error)
      PROVE  JobInv'
  BY <1>2 DEF ImportRefused, Respond, vars
<1>3. ASSUME NEW list \in Lists, ImportKeystores(list)
      PROVE  JobInv'
  BY <1>3, ListsAreSeqs DEF ImportKeystores, vars
<1>4. CASE ImportFile
  <2>1. CASE Head(files).state # "good"
    <3>1. /\ job' = "idle" /\ files' = << >> /\ asked' = asked
          /\ pc = "ready" /\ pc' = pc
      BY <1>4, <2>1 DEF ImportFile, Respond, vars
    <3>2. QED
      BY <3>1
  <2>2. CASE Head(files).state = "good"
    <3>1. /\ job = "import" /\ job' = "import" /\ files # << >> /\ files' = Tail(files)
          /\ asked' = asked
      BY <1>4, <2>2 DEF ImportFile
    <3>2. pc' \in {"ready", "import"}
      BY <1>4, <2>2 DEF ImportFile, ImportSk, Refuse, AddSk, vars
    <3>3. /\ Tail(files) \in Seq(Files) /\ Len(Tail(files)) = Len(files) - 1
          /\ \A i \in 1 .. Len(Tail(files)) : Tail(files)[i] = files[i + 1]
      BY <3>1, HeadTailProperties
    <3>4. \A i \in 1 .. Len(files') : files'[i] = asked'[FilesDone' + i]
      BY <3>1, <3>3
    <3>5. QED
      BY <3>1, <3>2, <3>3, <3>4
  <2>3. QED
    BY <2>1, <2>2
<1>5. CASE ImportDone \/ GetKeys
  BY <1>5 DEF ImportDone, GetKeys, Respond, vars
<1>6. ASSUME NEW pk \in PubKeys, NEW body \in SignBodies, Sign(pk, body)
      PROVE  JobInv'
  BY <1>6 DEF Sign, SignPk, Respond, vars
<1>7. CASE RemotePartition
  BY <1>7 DEF RemotePartition, SaveSize, httpVars
<1>8. CASE RemotePowerLoss \/ \E pk \in PubKeys : SignFaults(pk)
  <2>1. RemotePowerLoss
    BY <1>8 DEF SignFaults
  <2>2. QED
    BY <2>1 DEF RemotePowerLoss, PowerLoss
<1>9. CASE UNCHANGED allRemoteVars
  BY <1>9 DEF allRemoteVars, vars, httpVars
<1>10. QED
  BY <1>1, <1>2, <1>3, <1>4, <1>5, <1>6, <1>7, <1>8, <1>9 DEF RemoteNext

\* JobInv and the types of the keystore hold in every reachable state.
LEMMA JobInvariant == RemoteSpec => [](TypeOK /\ JobInv)
<1>1. RemoteInit => TypeOK /\ JobInv
  <2>1. RemoteInit => TypeOK
    BY KeystoreAssumption DEF RemoteInit, Init, TypeOK, PCs, NoReply, Answer, Ops
  <2>2. RemoteInit => JobInv
    BY DEF RemoteInit, Init, JobInv
  <2>3. QED
    BY <2>1, <2>2
<1>2. TypeOK /\ JobInv /\ [RemoteNext]_allRemoteVars => TypeOK' /\ JobInv'
  BY RemoteStep, JobInductive, TypeInductive
<1>3. QED
  BY <1>1, <1>2, PTL DEF RemoteSpec

(***************************************************************************)
(* Whatever is asked and whatever fails, the signer drives the keystore    *)
(* only through the steps of module Keystore: its theorems hold here too.  *)
(***************************************************************************)
THEOREM RemoteImplementsKeystore == RemoteSpec => Spec
<1>1. RemoteInit => Init
  BY DEF RemoteInit
<1>2. QED
  BY <1>1, RemoteStep, JobInvariant, PTL DEF RemoteSpec, Spec

-----------------------------------------------------------------------------
(***************************************************************************)
(* Imports.  The import under way has stored every keystore it has passed, *)
(* unless it was excused, and a keystore that is full stays so.  The       *)
(* secret keys of earlier imports are in protected storage, where losses   *)
(* of power leave them.                                                    *)
(***************************************************************************)
Confirmed(s) == \E i \in Slots : i < SavedSize /\ ps_keys[i] = s

PassedInv ==
  job = "import" =>
    \A i \in 1 .. FilesDone :
      asked[i].state = "good" /\ (IsStored(asked[i].sk) \/ Excused(i))

RemoteImportInv ==
  /\ PassedInv
  /\ job = "off" => http.op = "none"
  /\ ImportedAreStored

ConfirmedInv == \A s \in confirmed : Confirmed(s)

\* A key that add_sk adds is stored after it, and those that were stored still are.
LEMMA AddedIsStored ==
  ASSUME TypeOK, NEW s, keystore_size < MAX_KEYSTORE_SIZE, AddSk("import", s),
         NEW r, IsStored(r) \/ r = s
  PROVE  IsStored(r)'
<1> USE KeystoreAssumption, SlotsFact
<1>1. /\ keystore_size' = keystore_size + 1 /\ keystore_size \in Slots
      /\ secret_keys_store' = [secret_keys_store EXCEPT ![keystore_size] = s]
  BY DEF AddSk, TypeOK
<1>2. \A i \in Stored : i \in Stored' /\ secret_keys_store'[i] = secret_keys_store[i]
  BY <1>1 DEF Stored, TypeOK
<1>3. keystore_size \in Stored' /\ secret_keys_store'[keystore_size] = s
  BY <1>1 DEF Stored, TypeOK
<1>4. QED
  BY <1>2, <1>3 DEF IsStored

\* Steps that leave RAM alone leave the stored keys alone.
LEMMA RamUnchanged ==
  ASSUME UNCHANGED ram, NEW s
  PROVE  IsStored(s)' <=> IsStored(s)
  BY DEF ram, IsStored, Stored

\* Between requests the stored keys are those in protected storage.
LEMMA StoredIsConfirmed ==
  ASSUME TypeOK, StoreInv, pc = "ready", NEW s
  PROVE  IsStored(s) <=> Confirmed(s)
  BY SlotsFact DEF IsStored, Stored, Confirmed, StoreInv

\* While storage works every step keeps what is confirmed.
LEMMA ConfirmedStay ==
  ASSUME StorageWorks, TypeOK, JobInv, StoreInv, [RemoteNext]_allRemoteVars,
         NEW s, Confirmed(s)
  PROVE  Confirmed(s)'
<1>1. [Next]_vars
  BY RemoteStep
<1>2. pc # "reset" /\ pc' # "reset"
  <2>1. JobInv'
    BY JobInductive
  <2>2. QED
    BY <2>1 DEF JobInv
<1>3. ~Reset /\ ~RemoveKeys
  BY <1>2 DEF Reset, RemoveKeys
<1>4. PICK i \in Slots : i < SavedSize /\ ps_keys[i] = s
  BY DEF Confirmed
<1>5. i < SavedSize' /\ ps_keys'[i] = ps_keys[i]
  BY <1>1, <1>3, <1>4, SavedKeysStay
<1>6. QED
  BY <1>4, <1>5 DEF Confirmed

\* The keystore that an import is about to look at, and what it adds if it does.
LEMMA NextFile ==
  ASSUME JobInv, ImportFile
  PROVE  /\ FilesDone \in Nat /\ FilesDone < Len(asked)
         /\ Head(files) = asked[FilesDone + 1] /\ Head(files) \in Files
<1>1. files \in Seq(Files) /\ files # << >>
  BY DEF ImportFile, JobInv
<1>2. Head(files) = files[1] /\ Len(files) \in Nat \ {0} /\ Head(files) \in Files
  BY <1>1
<1>3. asked \in Seq(Files) /\ Len(asked) \in Nat /\ Len(files) <= Len(asked)
  BY DEF JobInv
<1>4. files[1] = asked[FilesDone + 1]
  BY <1>2 DEF JobInv
<1>5. QED
  BY <1>2, <1>3, <1>4 DEF FilesDone

\* A good keystore that import_from_keystore passes is stored then, or excused: it
\* was added, it was there already, there was no room, or it was not decrypted.
LEMMA FilePassed ==
  ASSUME TypeOK, JobInv, ImportFile, Head(files).state = "good", NEW r, r = Head(files).sk
  PROVE  IsStored(r)' \/ keystore_size' = MAX_KEYSTORE_SIZE \/ FilesDone + 1 \in garbled'
<1>1. r \in Scalars /\ keystore_size \in Nat
  BY NextFile, RemoteSignerAssumption DEF TypeOK
<1>2. CASE FilesDone + 1 \in garbled'
  BY <1>2
<1>3. CASE keystore_size >= MAX_KEYSTORE_SIZE /\ UNCHANGED vars
  BY <1>3, KeystoreAssumption DEF vars, ram, TypeOK
<1>4. CASE keystore_size < MAX_KEYSTORE_SIZE /\ ImportSk(r)
  <2>1. CASE AddSk("import", r)
    BY <1>4, <2>1, AddedIsStored
  <2>2. CASE IsStored(r) /\ UNCHANGED ram
    BY <2>2, RamUnchanged
  <2>3. r # NotHex
    BY <1>1, KeystoreAssumption
  <2>4. QED
    BY <1>1, <1>4, <2>1, <2>2, <2>3, KeystoreAssumption DEF ImportSk, Refuse
<1>5. QED
  BY <1>2, <1>3, <1>4 DEF ImportFile, FilesDone

\* What was stored or excused before import_from_keystore looks at another keystore
\* is so after it.
LEMMA OthersStay ==
  ASSUME TypeOK, JobInv, ImportFile, NEW r, NEW i, IsStored(r) \/ Excused(i)
  PROVE  (IsStored(r) \/ Excused(i))'
<1> USE KeystoreAssumption
<1>1. garbled \subseteq garbled'
  BY DEF ImportFile
<1>2. CASE UNCHANGED ram
  <2>1. CASE IsStored(r)
    BY <1>2, <2>1, RamUnchanged
  <2>2. CASE Excused(i)
    BY <1>1, <1>2, <2>2 DEF Excused, ram
  <2>3. QED
    BY <2>1, <2>2
<1>3. ASSUME NEW s, keystore_size < MAX_KEYSTORE_SIZE, AddSk("import", s)
      PROVE  (IsStored(r) \/ Excused(i))'
  <2>1. CASE IsStored(r)
    BY <1>3, <2>1, AddedIsStored
  <2>2. CASE Excused(i)
    BY <1>1, <1>3, <2>2 DEF Excused, TypeOK
  <2>3. QED
    BY <2>1, <2>2
<1>4. \/ UNCHANGED ram
      \/ \E s : keystore_size < MAX_KEYSTORE_SIZE /\ AddSk("import", s)
  <2>1. \/ \E s : keystore_size < MAX_KEYSTORE_SIZE /\ ImportSk(s)
        \/ UNCHANGED vars
    BY DEF ImportFile
  <2>2. QED
    BY <2>1 DEF ImportSk, Refuse, vars
<1>5. QED
  BY <1>2, <1>3, <1>4

\* Every step keeps PassedInv.
LEMMA PassedInductive ==
  ASSUME TypeOK, JobInv, JobInv', PassedInv, [RemoteNext]_allRemoteVars
  PROVE  PassedInv'
<1> SUFFICES ASSUME job' = "import", NEW i \in 1 .. FilesDone'
             PROVE  (asked[i].state = "good" /\ (IsStored(asked[i].sk) \/ Excused(i)))'
  BY DEF PassedInv
<1>1. CASE UNCHANGED <<secret_keys_store, keystore_size, job, files, asked, garbled>>
  BY <1>1 DEF PassedInv, FilesDone, IsStored, Stored, Excused
<1>2. CASE \E list \in Lists : ImportKeystores(list)
  <2>1. files' = asked'
    BY <1>2 DEF ImportKeystores
  <2>2. Len(asked') \in Nat
    BY DEF JobInv
  <2>3. QED
    BY <2>1, <2>2 DEF FilesDone
<1>3. CASE ImportFile
  <2>1. CASE Head(files).state # "good"
    BY <1>3, <2>1 DEF ImportFile, Respond
  <2>2. CASE Head(files).state = "good"
    <3>1. /\ job = "import" /\ files # << >> /\ files' = Tail(files) /\ asked' = asked
      BY <1>3, <2>2 DEF ImportFile
    <3>2. Len(files') = Len(files) - 1 /\ Len(files) \in Nat /\ Len(asked) \in Nat
      BY <3>1, HeadTailProperties DEF JobInv
    <3>3. i \in 1 .. FilesDone \/ i = FilesDone + 1
      BY <3>1, <3>2 DEF FilesDone
    <3>4. CASE i \in 1 .. FilesDone
      <4>1. PICK r : r = asked[i].sk
        OBVIOUS
      <4>2. asked[i].state = "good" /\ (IsStored(r) \/ Excused(i))
        BY <3>1, <3>4, <4>1 DEF PassedInv
      <4>3. (IsStored(r) \/ Excused(i))'
        BY <1>3, <4>2, OthersStay
      <4>4. QED
        BY <3>1, <4>1, <4>2, <4>3 DEF IsStored, Stored, Excused
    <3>5. CASE i = FilesDone + 1
      <4>1. asked[i] = Head(files)
        BY <1>3, <3>5, NextFile
      <4>2. PICK r : r = Head(files).sk
        OBVIOUS
      <4>3. IsStored(r)' \/ keystore_size' = MAX_KEYSTORE_SIZE \/ i \in garbled'
        BY <1>3, <2>2, <3>5, <4>2, FilePassed
      <4>4. QED
        BY <2>2, <3>1, <4>1, <4>2, <4>3 DEF IsStored, Stored, Excused
    <3>6. QED
      BY <3>3, <3>4, <3>5
  <2>3. QED
    BY <2>1, <2>2
<1>4. CASE RemotePartition
  BY <1>1, <1>4 DEF RemotePartition, SaveSize, httpVars
<1>5. CASE \/ RemoteMain \/ ImportDone \/ GetKeys \/ RemotePowerLoss
           \/ \E pk \in PubKeys : SignFaults(pk)
  BY <1>5 DEF RemoteMain, ImportDone, GetKeys, SignFaults, RemotePowerLoss, Respond
<1>6. ASSUME NEW pk, NEW body, Sign(pk, body)
      PROVE  FALSE
  BY <1>6 DEF Sign, Respond
<1>7. ASSUME NEW error, ImportRefused(error)
      PROVE  FALSE
  BY <1>7 DEF ImportRefused, Respond
<1>8. CASE UNCHANGED allRemoteVars
  BY <1>1, <1>8 DEF allRemoteVars, vars, ram, httpVars
<1>9. QED
  BY <1>2, <1>3, <1>4, <1>5, <1>6, <1>7, <1>8 DEF RemoteNext

\* Every step keeps RemoteImportInv.
LEMMA RemoteImportInductive ==
  ASSUME TypeOK, JobInv, JobInv', RemoteImportInv, [RemoteNext]_allRemoteVars
  PROVE  RemoteImportInv'
<1>1. CASE ImportDone
  <2>1. /\ job = "import" /\ files = << >> /\ job' = "idle"
        /\ asked' = asked /\ garbled' = garbled /\ UNCHANGED vars
    BY <1>1 DEF ImportDone, Respond
  <2>2. \A i \in DOMAIN asked : IsStored(asked[i].sk) \/ Excused(i)
    BY <2>1 DEF RemoteImportInv, PassedInv, FilesDone, JobInv
  <2>3. ImportedAreStored'
    BY <2>1, <2>2 DEF ImportedAreStored, vars, ram, IsStored, Stored, Excused
  <2>4. QED
    BY <2>1, <2>3, PassedInductive DEF RemoteImportInv
<1>2. CASE ~ImportDone
  <2> SUFFICES (job = "off" => http.op = "none")' /\ ImportedAreStored'
    BY PassedInductive DEF RemoteImportInv
  <2> USE DEF RemoteImportInv, ImportedAreStored
  <2>1. CASE RemoteMain
    BY <2>1 DEF RemoteMain
  <2>2. ASSUME NEW error, ImportRefused(error)
        PROVE  /\ job' = "idle" /\ http'.status # 200
    BY <2>2 DEF ImportRefused, Respond, Http
  <2>3. ASSUME NEW list, ImportKeystores(list)
        PROVE  job' = "import"
    BY <2>3 DEF ImportKeystores
  <2>4. CASE ImportFile
    <3>1. job' = "import" \/ (job' = "idle" /\ http'.status # 200)
      BY <2>4 DEF ImportFile, Respond, Http
    <3>2. QED
      BY <3>1
  <2>5. CASE GetKeys
    BY <2>5 DEF GetKeys, Respond, Http
  <2>6. ASSUME NEW pk, NEW body, Sign(pk, body)
        PROVE  job' = "idle" /\ http'.op = "sign"
    BY <2>6 DEF Sign, Respond
  <2>7. CASE RemotePartition
    BY <2>7 DEF RemotePartition, SaveSize, httpVars, IsStored, Stored, Excused
  <2>8. CASE RemotePowerLoss \/ \E pk \in PubKeys : SignFaults(pk)
    BY <2>8 DEF SignFaults, RemotePowerLoss, NoHttp, Http
  <2>9. CASE UNCHANGED allRemoteVars
    BY <2>9 DEF allRemoteVars, vars, ram, httpVars, IsStored, Stored, Excused
  <2>10. QED
    BY <1>2, <2>1, <2>2, <2>3, <2>4, <2>5, <2>6, <2>7, <2>8, <2>9 DEF RemoteNext
<1>3. QED
  BY <1>1, <1>2

\* While storage works every step keeps ConfirmedInv: what ImportDone confirms is
\* stored, and between requests that is what protected storage holds.
LEMMA ConfirmedInductive ==
  ASSUME StorageWorks, TypeOK, JobInv, StoreInv, ConfirmedInv, [RemoteNext]_allRemoteVars
  PROVE  ConfirmedInv'
<1> SUFFICES ASSUME NEW s \in confirmed'
             PROVE  Confirmed(s)'
  BY DEF ConfirmedInv
<1>1. CASE s \in confirmed
  BY <1>1, ConfirmedStay DEF ConfirmedInv
<1>2. CASE s \notin confirmed
  <2>1. ImportDone
    BY <1>2 DEF RemoteNext, RemoteMain, ImportRefused, ImportKeystores, ImportFile, Sign,
                GetKeys, RemotePartition, SignFaults, RemotePowerLoss, httpVars,
                allRemoteVars
  <2>2. pc = "ready" /\ IsStored(s)
    BY <1>2, <2>1 DEF ImportDone, AskedAndStored
  <2>3. Confirmed(s)
    BY <2>2, StoredIsConfirmed
  <2>4. QED
    BY <2>3, ConfirmedStay
<1>3. QED
  BY <1>1, <1>2

\* RemoteImportInv holds in every reachable state.
LEMMA ImportInvariant == RemoteSpec => []RemoteImportInv
<1>1. RemoteInit => RemoteImportInv
  BY DEF RemoteInit, Init, RemoteImportInv, PassedInv, ImportedAreStored, NoHttp, Http
<1>2. /\ TypeOK /\ JobInv /\ JobInv' /\ RemoteImportInv /\ [RemoteNext]_allRemoteVars
      => RemoteImportInv'
  BY RemoteImportInductive
<1>3. QED
  BY <1>1, <1>2, JobInvariant, PTL DEF RemoteSpec

(***************************************************************************)
(* Whatever fails, "imported" is never answered while a secret key of the  *)
(* request is missing, unless the keystore is full or that key was not     *)
(* decrypted.                                                              *)
(***************************************************************************)
THEOREM ImportedKeysAreStored == RemoteSpec => []ImportedAreStored
<1>1. RemoteImportInv => ImportedAreStored
  BY DEF RemoteImportInv
<1>2. QED
  BY <1>1, ImportInvariant, PTL

(***************************************************************************)
(* While storage works, a key that was stored when its import was answered *)
(* "imported" is in the keystore whenever requests are served, at whatever *)
(* steps of this or of later imports power was lost.                       *)
(***************************************************************************)
THEOREM ConfirmedKeysSurvive ==
  ASSUME StorageWorks
  PROVE  RemoteSpec => []ConfirmedSurvive
<1>1. RemoteInit => ConfirmedInv
  BY DEF RemoteInit, ConfirmedInv
<1>2. /\ TypeOK /\ JobInv /\ StoreInv /\ ConfirmedInv /\ [RemoteNext]_allRemoteVars
      => ConfirmedInv'
  BY ConfirmedInductive
<1>3. TypeOK /\ StoreInv /\ ConfirmedInv => ConfirmedSurvive
  BY StoredIsConfirmed DEF ConfirmedInv, ConfirmedSurvive
<1>4. Spec => []StoreInv
  BY StoreInvariant, PTL
<1>5. QED
  BY <1>1, <1>2, <1>3, <1>4, JobInvariant, RemoteImplementsKeystore, PTL DEF RemoteSpec

(***************************************************************************)
(* Whatever fails, every keystore that an import has passed is good, and   *)
(* it is stored unless there was no room or it was not decrypted.          *)
(***************************************************************************)
THEOREM PassedKeysAreStored == RemoteSpec => []PassedAreStored
<1>1. RemoteImportInv => PassedAreStored
  BY DEF RemoteImportInv, PassedInv, PassedAreStored, FilesDone
<1>2. QED
  BY <1>1, ImportInvariant, PTL
=============================================================================
