--------------------------- MODULE KeystoreProofs ---------------------------
(***************************************************************************)
(* Proofs about Keystore for every capacity, every set of keys and every   *)
(* set of failures (the last theorem: for the failures the keystore is     *)
(* meant to ride out).                                                     *)
(***************************************************************************)
EXTENDS Keystore, WellFoundedInduction, SequenceTheorems, TLAPS

\* Being a slot, in terms that the provers can compute with.
LEMMA SlotsFact ==
  /\ \A i : i \in Slots <=> (i \in Nat /\ i < MAX_KEYSTORE_SIZE)
  /\ Slots \subseteq Nat
  BY KeystoreAssumption DEF Slots

(***************************************************************************)
(* pk_in_keystore answers a slot in use that holds the key if there is one *)
(* (the least of them, which exists because the slots are numbered from 0) *)
(* and -1 otherwise.                                                       *)
(***************************************************************************)
LEMMA FoundInKeystore ==
  ASSUME NEW pk
  PROVE  IF \E i \in Stored : public_keys_hex_store[i] = pk
           THEN /\ pk_in_keystore(pk) \in Stored
                /\ public_keys_hex_store[pk_in_keystore(pk)] = pk
                /\ pk_in_keystore(pk) # -1
           ELSE pk_in_keystore(pk) = -1
<1> DEFINE found == {i \in Stored : public_keys_hex_store[i] = pk}
<1>1. CASE found = {}
  BY <1>1 DEF pk_in_keystore
<1>2. CASE found # {}
  <2>1. found \subseteq Nat
    BY SlotsFact DEF Stored
  <2>2. \E i \in found : \A j \in found : i <= j
    <3> DEFINE less == {ss \in Nat \X Nat : ss[1] < ss[2]}
    <3>1. IsWellFoundedOn(less, Nat)
      BY NatLessThanWellFounded, Zenon DEF OpToRel
    <3>2. \E i \in found : \A j \in found : <<j, i>> \notin less
      BY <1>2, <2>1, <3>1, WFMin
    <3>3. \A i, j \in Nat : <<j, i>> \notin less => i <= j
      OBVIOUS
    <3> HIDE DEF less, found
    <3>4. QED
      BY <2>1, <3>2, <3>3
  <2>3. pk_in_keystore(pk) \in found
    BY <1>2, <2>2 DEF pk_in_keystore
  <2>4. QED
    BY <2>1, <2>3
<1>3. QED
  BY <1>1, <1>2

\* Every step keeps the type invariant: no index leaves the slots.
LEMMA TypeInductive == TypeOK /\ [Next]_vars => TypeOK'
<1> SUFFICES ASSUME TypeOK, [Next]_vars
             PROVE  TypeOK'
  OBVIOUS
<1> USE KeystoreAssumption, SlotsFact
<1>1. CASE Boot
  BY <1>1
     DEF Boot, CryptoInitFails, SizeUnreadable, KeysUnreadable, KeysRestored,
         flash, ram, TypeOK, PCs, Answer, Ops
<1>2. ASSUME NEW op \in {"keygen", "import"}, NEW s \in Scalars,
             pc = "ready", keystore_size < MAX_KEYSTORE_SIZE, AddSk(op, s)
      PROVE  TypeOK'
  BY <1>2 DEF AddSk, StorePk, TypeOK, PCs, Answer, Ops
<1>3. ASSUME NEW op \in Ops, NEW code \in Int, Refuse(op, code)
      PROVE  TypeOK'
  BY <1>3 DEF Refuse, ram, flash, TypeOK, PCs, Answer
<1>4. CASE SecureKeygen
  BY <1>2, <1>3, <1>4
     DEF SecureKeygen, RandomScalars, KEYSLIMIT, RNGERR, Ops
<1>5. ASSUME NEW s \in Scalars \cup {NotHex}, ImportSk(s)
      PROVE  TypeOK'
  BY <1>2, <1>3, <1>5
     DEF ImportSk, KEYSLIMIT, HEX2BINERR, EXISTINGKEY, Ops
<1>6. CASE SaveSize
  BY <1>6 DEF SaveSize, StorePk, TypeOK, PCs, Answer, Ops
<1>7. CASE Reset
  BY <1>7 DEF Reset, TypeOK, PCs
<1>8. CASE RemoveKeys
  BY <1>8 DEF RemoveKeys, flash, TypeOK, PCs, Answer, Ops
<1>9. ASSUME NEW pk \in PubKeys, SignPk(pk)
      PROVE  TypeOK'
  BY <1>9, FoundInKeystore
     DEF SignPk, ram, flash, TypeOK, PCs, Answer, Ops, PKNOTFOUND, Stored
<1>10. ASSUME NEW index \in {RNGERR} \cup Slots, GetKey(index)
       PROVE  TypeOK'
  BY <1>10 DEF GetKey, ram, flash, TypeOK, PCs, Ops, Stored
<1>11. CASE PowerLoss
  BY <1>11 DEF PowerLoss, flash, TypeOK, PCs, NoReply, Answer, Ops
<1>12. CASE UNCHANGED vars
  BY <1>12 DEF vars, ram, flash, TypeOK
<1>13. QED
  BY <1>1, <1>4, <1>5, <1>6, <1>7, <1>8, <1>9, <1>10, <1>11, <1>12 DEF Next

(***************************************************************************)
(* The type invariant: no index leaves the slots, whatever fails.          *)
(***************************************************************************)
THEOREM TypeCorrect == Spec => []TypeOK
<1>1. Init => TypeOK
  BY KeystoreAssumption
     DEF Init, TypeOK, PCs, NoReply, Answer, Ops
<1>2. QED
  BY <1>1, TypeInductive, PTL DEF Spec

-----------------------------------------------------------------------------
(***************************************************************************)
(* SlotsPaired is not inductive by itself: while add_sk is under way the   *)
(* last slot in use has its secret key and not yet its public key, and     *)
(* init relies on the blank public keys the power-up leaves.               *)
(***************************************************************************)
Paired(i) ==
  public_keys_hex_store[i] \in {ZeroBytes, sk_to_pk[secret_keys_store[i]]}

PairInv ==
  /\ pc = "off" => \A i \in Slots : public_keys_hex_store[i] = ZeroBytes
  /\ pc = "ready" => \A i \in Slots : i < keystore_size => Paired(i)
  /\ pc \in {"keygen", "import"} =>
       \A i \in Slots : i < keystore_size - 1 => Paired(i)
  /\ SignatureMatchesKey

\* Every step keeps PairInv.
LEMMA PairInductive == TypeOK /\ PairInv /\ [Next]_vars => PairInv'
<1> SUFFICES ASSUME TypeOK, PairInv, [Next]_vars
             PROVE  PairInv'
  OBVIOUS
<1> USE KeystoreAssumption, SlotsFact DEF PairInv, SignatureMatchesKey
<1>1. CASE Boot
  <2> USE DEF Boot, TypeOK, Paired, Answer, ram, flash
  <2>1. CASE CryptoInitFails
    BY <1>1, <2>1 DEF CryptoInitFails
  <2>2. CASE SizeUnreadable
    BY <1>1, <2>2 DEF SizeUnreadable
  <2>3. CASE KeysUnreadable
    BY <1>1, <2>3 DEF KeysUnreadable
  <2>4. CASE KeysRestored
    BY <1>1, <2>4 DEF KeysRestored
  <2>5. QED
    BY <1>1, <2>1, <2>2, <2>3, <2>4
<1>2. ASSUME NEW op \in {"keygen", "import"}, NEW s \in Scalars,
             pc = "ready", keystore_size < MAX_KEYSTORE_SIZE, AddSk(op, s)
      PROVE  PairInv'
  BY <1>2 DEF AddSk, StorePk, Paired, TypeOK, Answer
<1>3. ASSUME NEW op \in Ops \ {"sign"}, NEW code \in Int, Refuse(op, code)
      PROVE  PairInv'
  BY <1>3 DEF Refuse, Paired, ram, flash, Answer, TypeOK
<1>4. CASE SecureKeygen
  BY <1>2, <1>3, <1>4 DEF SecureKeygen, RandomScalars, KEYSLIMIT, RNGERR, Ops
<1>5. ASSUME NEW s \in Scalars \cup {NotHex}, ImportSk(s)
      PROVE  PairInv'
  BY <1>2, <1>3, <1>5
     DEF ImportSk, KEYSLIMIT, HEX2BINERR, EXISTINGKEY, Ops
<1>6. CASE SaveSize
  BY <1>6 DEF SaveSize, StorePk, Paired, TypeOK, Answer
<1>7. CASE Reset
  BY <1>7 DEF Reset
<1>8. CASE RemoveKeys
  BY <1>8 DEF RemoveKeys, Answer
<1>9. ASSUME NEW pk \in PubKeys, SignPk(pk)
      PROVE  PairInv'
  <2>1. UNCHANGED <<ram, flash, pc>> /\ pc = "ready"
    BY <1>9 DEF SignPk
  <2>2. SignatureMatchesKey'
    <3>1. CASE pk_in_keystore(pk) = -1
      BY <1>9, <3>1 DEF SignPk, Answer, PKNOTFOUND
    <3>2. CASE pk_in_keystore(pk) # -1
      <4> DEFINE i == pk_in_keystore(pk)
      <4>1. i \in Stored /\ public_keys_hex_store[i] = pk
        BY <3>2, FoundInKeystore
      <4>2. i \in Slots /\ i < keystore_size
        BY <4>1 DEF Stored
      <4>3. sk_to_pk[secret_keys_store[i]] = pk
        BY <2>1, <4>1, <4>2 DEF Paired
      <4>4. QED
        BY <1>9, <3>2, <4>3 DEF SignPk
    <3>3. QED
      BY <3>1, <3>2
  <2>3. QED
    BY <2>1, <2>2 DEF ram, Paired
<1>10. ASSUME NEW index \in {RNGERR} \cup Slots, GetKey(index)
       PROVE  PairInv'
  BY <1>10 DEF GetKey, ram, flash, Paired
<1>11. CASE PowerLoss
  BY <1>11 DEF PowerLoss, NoReply, Answer
<1>12. CASE UNCHANGED vars
  BY <1>12 DEF vars, ram, flash, Paired
<1>13. QED
  BY <1>1, <1>4, <1>5, <1>6, <1>7, <1>8, <1>9, <1>10, <1>11, <1>12 DEF Next

\* PairInv holds in every reachable state.
LEMMA PairInvariant == Spec => []PairInv
<1>1. Init => PairInv
  BY DEF Init, PairInv, SignatureMatchesKey, NoReply, Answer
<1>2. QED
  BY <1>1, PairInductive, TypeCorrect, PTL DEF Spec

(***************************************************************************)
(* Whatever fails and whenever power is lost, a slot in use holds a blank  *)
(* public key or the one of its secret key when a request is served.       *)
(***************************************************************************)
THEOREM SlotsArePaired == Spec => []SlotsPaired
<1>1. PairInv => SlotsPaired
  BY DEF PairInv, SlotsPaired, Paired, Stored
<1>2. QED
  BY <1>1, PairInvariant, PTL

(***************************************************************************)
(* Whatever fails and whenever power is lost, a signature that sign_pk     *)
(* reports is made with a secret key of the public key it was asked for.   *)
(***************************************************************************)
THEOREM SignaturesMatchKeys == Spec => []SignatureMatchesKey
<1>1. PairInv => SignatureMatchesKey
  BY DEF PairInv
<1>2. QED
  BY <1>1, PairInvariant, PTL

-----------------------------------------------------------------------------
(***************************************************************************)
(* From here on the storage can be read and written: power may be lost at  *)
(* any moment, and a removal or the random number generator may fail.      *)
(***************************************************************************)
StorageWorks ==
  Faults \cap {"crypto_init", "get_size", "get_keys", "set_keys", "set_size"} = {}

SavedSize == IF ps_size = Absent THEN 0 ELSE ps_size

(***************************************************************************)
(* What add_sk, reset and init keep up between RAM and protected storage.  *)
(* While add_sk is under way the array in protected storage is one key     *)
(* ahead of the number beside it; while reset is, the number is 0 and the  *)
(* array still there.  The secret keys in use are distinct on both sides.  *)
(***************************************************************************)
StoreInv ==
  /\ SavedSize > 0 => ps_keys # Absent
  /\ pc = "ready" =>
       /\ keystore_size = SavedSize
       /\ \A i \in Slots : i < keystore_size => ps_keys[i] = secret_keys_store[i]
  /\ pc \in {"keygen", "import"} =>
       /\ keystore_size = SavedSize + 1
       /\ ps_keys = secret_keys_store
  /\ pc = "reset" => SavedSize = 0
  /\ pc \in {"ready", "keygen", "import"} =>
       \A i, j \in Slots :
         (i < j /\ j < keystore_size) => secret_keys_store[i] # secret_keys_store[j]
  /\ \A i, j \in Slots : (i < j /\ j < SavedSize) => ps_keys[i] # ps_keys[j]

\* While storage works every step keeps StoreInv.
LEMMA StoreInductive ==
  ASSUME StorageWorks
  PROVE  TypeOK /\ StoreInv /\ [Next]_vars => StoreInv'
<1> SUFFICES ASSUME TypeOK, StoreInv, [Next]_vars
             PROVE  StoreInv'
  OBVIOUS
<1> USE KeystoreAssumption, SlotsFact DEF StoreInv, SavedSize
<1>1. CASE Boot
  <2> USE DEF Boot, TypeOK, flash, ram
  <2>1. CASE CryptoInitFails
    BY <2>1 DEF CryptoInitFails, StorageWorks
  <2>2. CASE SizeUnreadable
    BY <1>1, <2>2 DEF SizeUnreadable, StorageWorks
  <2>3. CASE KeysUnreadable
    BY <1>1, <2>3 DEF KeysUnreadable, StorageWorks
  <2>4. CASE KeysRestored
    BY <1>1, <2>4 DEF KeysRestored
  <2>5. QED
    BY <1>1, <2>1, <2>2, <2>3, <2>4
<1>2. ASSUME NEW op \in {"keygen", "import"}, NEW s \in Scalars,
             pc = "ready", keystore_size < MAX_KEYSTORE_SIZE,
             \A i \in Slots : i < keystore_size => secret_keys_store[i] # s,
             AddSk(op, s)
      PROVE  StoreInv'
  BY <1>2 DEF AddSk, TypeOK, StorageWorks
<1>3. ASSUME NEW op, NEW code, Refuse(op, code)
      PROVE  StoreInv'
  BY <1>3 DEF Refuse, ram, flash
<1>4. CASE SecureKeygen
  BY <1>2, <1>3, <1>4 DEF SecureKeygen, RandomScalars, Stored
<1>5. ASSUME NEW s \in Scalars \cup {NotHex}, ImportSk(s)
      PROVE  StoreInv'
  BY <1>2, <1>3, <1>5 DEF ImportSk, IsStored, Stored
<1>6. CASE SaveSize
  BY <1>6 DEF SaveSize, TypeOK, StorageWorks
<1>7. CASE Reset
  BY <1>7 DEF Reset, TypeOK, StorageWorks
<1>8. CASE RemoveKeys
  BY <1>8 DEF RemoveKeys, flash, TypeOK
<1>9. ASSUME NEW pk \in PubKeys, SignPk(pk)
      PROVE  StoreInv'
  BY <1>9 DEF SignPk, ram, flash
<1>10. ASSUME NEW index \in {RNGERR} \cup Slots, GetKey(index)
       PROVE  StoreInv'
  BY <1>10 DEF GetKey, ram, flash
<1>11. CASE PowerLoss
  BY <1>11 DEF PowerLoss, flash
<1>12. CASE UNCHANGED vars
  BY <1>12 DEF vars, ram, flash
<1>13. QED
  BY <1>1, <1>4, <1>5, <1>6, <1>7, <1>8, <1>9, <1>10, <1>11, <1>12 DEF Next

\* While storage works StoreInv holds in every reachable state.
LEMMA StoreInvariant ==
  ASSUME StorageWorks
  PROVE  Spec => []StoreInv
<1>1. Init => StoreInv
  BY KeystoreAssumption, SlotsFact DEF Init, StoreInv, SavedSize
<1>2. TypeOK /\ StoreInv /\ [Next]_vars => StoreInv'
  BY StoreInductive
<1>3. QED
  BY <1>1, <1>2, TypeCorrect, PTL DEF Spec

\* While storage works, only reset takes a key out of protected storage, or moves it.
LEMMA SavedKeysStay ==
  ASSUME StorageWorks, TypeOK, StoreInv, [Next]_vars, ~Reset, ~RemoveKeys,
         NEW i \in Slots, i < SavedSize
  PROVE  i < SavedSize' /\ ps_keys'[i] = ps_keys[i]
<1> USE KeystoreAssumption, SlotsFact DEF SavedSize
<1>1. CASE UNCHANGED flash
  BY <1>1 DEF flash
<1>2. ASSUME NEW op, NEW s, pc = "ready", AddSk(op, s)
      PROVE  i < SavedSize' /\ ps_keys'[i] = ps_keys[i]
  BY <1>2 DEF AddSk, TypeOK, StoreInv
<1>3. ASSUME NEW op, NEW code, Refuse(op, code)
      PROVE  UNCHANGED flash
  BY <1>3 DEF Refuse, flash
<1>4. CASE SecureKeygen
  BY <1>1, <1>2, <1>3, <1>4 DEF SecureKeygen
<1>5. ASSUME NEW s \in Scalars \cup {NotHex}, ImportSk(s)
      PROVE  i < SavedSize' /\ ps_keys'[i] = ps_keys[i]
  BY <1>1, <1>2, <1>3, <1>5 DEF ImportSk
<1>6. CASE SaveSize
  BY <1>6 DEF SaveSize, TypeOK, StoreInv, StorageWorks
<1>7. CASE Boot \/ PowerLoss \/ UNCHANGED vars
  BY <1>1, <1>7 DEF Boot, PowerLoss, vars
<1>8. ASSUME NEW pk \in PubKeys, SignPk(pk)
      PROVE  UNCHANGED flash
  BY <1>8 DEF SignPk, flash
<1>9. ASSUME NEW index \in {RNGERR} \cup Slots, GetKey(index)
      PROVE  UNCHANGED flash
  BY <1>9 DEF GetKey, flash
<1>10. QED
  BY <1>1, <1>4, <1>5, <1>6, <1>7, <1>8, <1>9 DEF Next

(***************************************************************************)
(* While storage works, a key whose index has been returned is in          *)
(* protected storage, at that index.                                       *)
(***************************************************************************)
THEOREM AnsweredKeysAreDurable ==
  ASSUME StorageWorks
  PROVE  Spec => []AnsweredIsDurable
<1>1. TypeOK /\ StoreInv => AnsweredIsDurable
  <2> SUFFICES ASSUME TypeOK, StoreInv, pc = "ready"
               PROVE  FlashKeys = [i \in 1 .. keystore_size |-> secret_keys_store[i - 1]]
    BY DEF AnsweredIsDurable
  <2> USE KeystoreAssumption, SlotsFact DEF TypeOK, StoreInv, SavedSize, FlashKeys
  <2>1. CASE keystore_size = 0
    <3>1. \A f : [i \in 1 .. 0 |-> f[i - 1]] = << >>
      OBVIOUS
    <3>2. QED
      BY <2>1, <3>1
  <2>2. CASE keystore_size > 0
    <3>1. ps_size = keystore_size /\ ps_keys # Absent
      BY <2>2
    <3>2. \A i \in 1 .. keystore_size : ps_keys[i - 1] = secret_keys_store[i - 1]
      BY <2>2
    <3>3. QED
      BY <3>1, <3>2
  <2>3. QED
    BY <2>1, <2>2
<1>2. QED
  BY <1>1, StoreInvariant, TypeCorrect, PTL

-----------------------------------------------------------------------------
(***************************************************************************)
(* The stronger pairing that holds while storage works: no blank public    *)
(* key either, except the one add_sk is about to fill.  init restores both *)
(* arrays or, by StoreInv, has no key to restore.                          *)
(***************************************************************************)
ListedInv ==
  /\ pc = "ready" => \A i \in Slots : i < keystore_size =>
       public_keys_hex_store[i] = sk_to_pk[secret_keys_store[i]]
  /\ pc \in {"keygen", "import"} => \A i \in Slots : i < keystore_size - 1 =>
       public_keys_hex_store[i] = sk_to_pk[secret_keys_store[i]]
  /\ pc = "off" => keystore_size = 0

\* While storage works every step keeps ListedInv.
LEMMA ListedInductive ==
  ASSUME StorageWorks
  PROVE  TypeOK /\ StoreInv /\ ListedInv /\ [Next]_vars => ListedInv'
<1> SUFFICES ASSUME TypeOK, StoreInv, ListedInv, [Next]_vars
             PROVE  ListedInv'
  OBVIOUS
<1> USE KeystoreAssumption, SlotsFact DEF ListedInv
<1>1. CASE Boot
  <2> USE DEF Boot, TypeOK, flash, ram
  <2>1. CASE CryptoInitFails \/ SizeUnreadable
    BY <1>1, <2>1 DEF CryptoInitFails, SizeUnreadable
  <2>2. CASE KeysUnreadable
    BY <1>1, <2>2 DEF KeysUnreadable, StorageWorks, StoreInv, SavedSize
  <2>3. CASE KeysRestored
    BY <1>1, <2>3 DEF KeysRestored
  <2>4. QED
    BY <1>1, <2>1, <2>2, <2>3
<1>2. ASSUME NEW op \in {"keygen", "import"}, NEW s \in Scalars,
             pc = "ready", keystore_size < MAX_KEYSTORE_SIZE, AddSk(op, s)
      PROVE  ListedInv'
  BY <1>2 DEF AddSk, StorePk, TypeOK
<1>3. ASSUME NEW op, NEW code, Refuse(op, code)
      PROVE  ListedInv'
  BY <1>3 DEF Refuse, ram, flash
<1>4. CASE SecureKeygen
  BY <1>2, <1>3, <1>4 DEF SecureKeygen, RandomScalars
<1>5. ASSUME NEW s \in Scalars \cup {NotHex}, ImportSk(s)
      PROVE  ListedInv'
  BY <1>2, <1>3, <1>5 DEF ImportSk
<1>6. CASE SaveSize
  BY <1>6 DEF SaveSize, StorePk, TypeOK
<1>7. CASE Reset
  BY <1>7 DEF Reset
<1>8. CASE RemoveKeys
  BY <1>8 DEF RemoveKeys
<1>9. ASSUME NEW pk \in PubKeys, SignPk(pk)
      PROVE  ListedInv'
  BY <1>9 DEF SignPk, ram, flash
<1>10. ASSUME NEW index \in {RNGERR} \cup Slots, GetKey(index)
       PROVE  ListedInv'
  BY <1>10 DEF GetKey, ram, flash
<1>11. CASE PowerLoss
  BY <1>11 DEF PowerLoss
<1>12. CASE UNCHANGED vars
  BY <1>12 DEF vars, ram, flash
<1>13. QED
  BY <1>1, <1>4, <1>5, <1>6, <1>7, <1>8, <1>9, <1>10, <1>11, <1>12 DEF Next

\* While storage works ListedInv holds in every reachable state.
LEMMA ListedInvariant ==
  ASSUME StorageWorks
  PROVE  Spec => []ListedInv
<1>1. Init => ListedInv
  BY KeystoreAssumption, SlotsFact DEF Init, ListedInv
<1>2. TypeOK /\ StoreInv /\ ListedInv /\ [Next]_vars => ListedInv'
  BY ListedInductive
<1>3. QED
  BY <1>1, <1>2, StoreInvariant, TypeCorrect, PTL DEF Spec

(***************************************************************************)
(* While storage works, every public key that get_keys lists is the one of *)
(* the secret key beside it, whenever power was lost: none is blank, and   *)
(* sign_pk can sign for each.                                              *)
(***************************************************************************)
THEOREM ListedKeysAreUsable ==
  ASSUME StorageWorks
  PROVE  Spec => []ListedKeysUsable
<1>1. ListedInv => ListedKeysUsable
  BY DEF ListedInv, ListedKeysUsable, Stored
<1>2. QED
  BY <1>1, ListedInvariant, PTL

-----------------------------------------------------------------------------
(***************************************************************************)
(* The refinement: FlashKeys as a sequence, then one step per action that  *)
(* writes protected storage.                                               *)
(***************************************************************************)
FlashKeysFacts ==
  /\ FlashKeys \in Seq(Scalars)
  /\ Len(FlashKeys) = SavedSize
  /\ \A i \in 1 .. SavedSize : FlashKeys[i] = ps_keys[i - 1]

\* FlashKeys is a sequence of SavedSize scalars.
LEMMA FlashKeysSeq == TypeOK /\ StoreInv => FlashKeysFacts
<1> SUFFICES ASSUME TypeOK, StoreInv
             PROVE  FlashKeysFacts
  OBVIOUS
<1> USE KeystoreAssumption, SlotsFact DEF FlashKeysFacts
<1>1. CASE SavedSize = 0
  <2>1. FlashKeys = << >>
    BY <1>1 DEF FlashKeys, SavedSize
  <2>2. QED
    BY <1>1, <2>1
<1>2. CASE SavedSize # 0
  <2>1. /\ SavedSize \in 1 .. MAX_KEYSTORE_SIZE /\ ps_size = SavedSize
        /\ ps_keys \in [Slots -> Scalars]
    BY <1>2 DEF StoreInv, SavedSize, TypeOK
  <2>2. FlashKeys = [i \in 1 .. SavedSize |-> ps_keys[i - 1]]
    <3>1. ps_size # Absent /\ ps_keys # Absent
      BY <1>2, <2>1 DEF StoreInv, SavedSize
    <3>2. FlashKeys = [i \in 1 .. ps_size |-> ps_keys[i - 1]]
      BY <3>1, Zenon DEF FlashKeys
    <3>3. QED
      BY <2>1, <3>2, Zenon
  <2>3. \A i \in 1 .. SavedSize : ps_keys[i - 1] \in Scalars
    BY <2>1
  <2>4. FlashKeys \in [1 .. SavedSize -> Scalars]
    BY <2>2, <2>3
  <2>5. FlashKeys \in Seq(Scalars) /\ Len(FlashKeys) = SavedSize
    BY <2>1, <2>4
  <2>6. QED
    BY <2>2, <2>5
<1>3. QED
  BY <1>1, <1>2

\* Steps that do not write protected storage are stuttering steps of the register.
LEMMA FlashKeysUnchanged ==
  ASSUME UNCHANGED flash
  PROVE  UNCHANGED FlashKeys
  BY DEF flash, FlashKeys

(***************************************************************************)
(* While storage works, the keys in protected storage implement the        *)
(* register of KeyRegister, whenever power is lost: an addition or a reset *)
(* that is cut off has happened or has not.                                *)
(***************************************************************************)
THEOREM KeystoreImplementsRegister ==
  ASSUME StorageWorks
  PROVE  Spec => ImplementsRegister
<1> USE KeystoreAssumption, SlotsFact
<1>1. Init => Register!Init
  BY DEF Init, Register!Init, FlashKeys
<1>2. ASSUME TypeOK, TypeOK', StoreInv, StoreInv', [Next]_vars
      PROVE  [Register!Next]_FlashKeys
  <2>0. FlashKeysFacts /\ FlashKeysFacts'
    <3>1. (TypeOK /\ StoreInv => FlashKeysFacts)'
      BY FlashKeysSeq, PTL
    <3>2. QED
      BY <1>2, <3>1, FlashKeysSeq
  <2>1. CASE UNCHANGED flash
    BY <2>1, FlashKeysUnchanged
  <2>2. ASSUME NEW op \in {"keygen", "import"}, NEW s \in Scalars,
               pc = "ready", keystore_size < MAX_KEYSTORE_SIZE, AddSk(op, s)
        PROVE  UNCHANGED FlashKeys
    <3>1. SavedSize' = SavedSize
      BY <2>2 DEF AddSk, SavedSize
    <3>2. \A i \in 1 .. SavedSize : ps_keys'[i - 1] = ps_keys[i - 1]
      BY <1>2, <2>2 DEF AddSk, StoreInv, SavedSize, TypeOK
    <3>3. /\ FlashKeys \in Seq(Scalars) /\ FlashKeys' \in Seq(Scalars)
          /\ Len(FlashKeys) = Len(FlashKeys') /\ Len(FlashKeys) = SavedSize
          /\ \A i \in 1 .. SavedSize : FlashKeys[i] = FlashKeys'[i]
      BY <2>0, <3>1, <3>2 DEF FlashKeysFacts
    <3>4. QED
      BY <3>3, SeqEqual
  <2>3. ASSUME NEW op, NEW code, Refuse(op, code)
        PROVE  UNCHANGED flash
    BY <2>3 DEF Refuse, flash
  <2>4. CASE SaveSize
    <3> DEFINE k == secret_keys_store[keystore_size - 1]
               n == SavedSize
    <3>1. /\ n \in Nat /\ n < MAX_KEYSTORE_SIZE /\ keystore_size = n + 1
          /\ SavedSize' = n + 1
      BY <1>2, <2>4, StorageWorks
         DEF SaveSize, StoreInv, SavedSize, TypeOK, StorageWorks
    <3>2. k \in Scalars /\ k = ps_keys[n] /\ ps_keys' = ps_keys
      BY <1>2, <2>4, <3>1 DEF SaveSize, StoreInv, TypeOK
    <3>3. \A i \in 1 .. n : ps_keys[i - 1] # k
      BY <1>2, <2>4, <3>1 DEF SaveSize, StoreInv
    <3>4. Len(FlashKeys) < MAX_KEYSTORE_SIZE
          /\ \A i \in 1 .. Len(FlashKeys) : FlashKeys[i] # k
      <4>1. Len(FlashKeys) = n /\ \A i \in 1 .. n : FlashKeys[i] = ps_keys[i - 1]
        BY <2>0 DEF FlashKeysFacts
      <4> HIDE DEF k, n
      <4>2. QED
        BY <3>1, <3>3, <4>1
    <3>5. FlashKeys' = Append(FlashKeys, k)
      <4>1. /\ FlashKeys \in Seq(Scalars) /\ FlashKeys' \in Seq(Scalars)
            /\ Len(FlashKeys) = n /\ Len(FlashKeys') = n + 1
            /\ \A i \in 1 .. n : FlashKeys[i] = ps_keys[i - 1]
            /\ \A i \in 1 .. n + 1 : FlashKeys'[i] = ps_keys[i - 1]
        BY <2>0, <3>1, <3>2 DEF FlashKeysFacts
      <4>2. /\ Append(FlashKeys, k) \in Seq(Scalars)
            /\ Len(Append(FlashKeys, k)) = n + 1
            /\ \A i \in 1 .. n : Append(FlashKeys, k)[i] = FlashKeys[i]
            /\ Append(FlashKeys, k)[n + 1] = k
        BY <3>1, <3>2, <4>1, AppendProperties
      <4> HIDE DEF k, n
      <4>3. \A i \in 1 .. n + 1 : FlashKeys'[i] = Append(FlashKeys, k)[i]
        BY <3>1, <3>2, <4>1, <4>2
      <4>4. QED
        BY <3>1, <4>1, <4>2, <4>3, SeqEqual
    <3>6. QED
      BY <3>2, <3>4, <3>5 DEF Register!Next, Register!Add
  <2>5. CASE Reset
    <3>1. FlashKeys' = << >>
      BY <2>5, StorageWorks DEF Reset, FlashKeys, StorageWorks
    <3>2. QED
      BY <3>1 DEF Register!Next, Register!Clear
  <2>6. CASE RemoveKeys
    <3>1. SavedSize = 0 /\ SavedSize' = 0
      BY <1>2, <2>6 DEF RemoveKeys, StoreInv, SavedSize, flash, TypeOK
    <3>2. FlashKeys = << >> /\ FlashKeys' = << >>
      BY <3>1 DEF FlashKeys, SavedSize
    <3>3. QED
      BY <3>2
  <2>7. CASE SecureKeygen
    BY <2>1, <2>2, <2>3, <2>7 DEF SecureKeygen, RandomScalars
  <2>8. ASSUME NEW s \in Scalars \cup {NotHex}, ImportSk(s)
        PROVE  [Register!Next]_FlashKeys
    BY <2>1, <2>2, <2>3, <2>8 DEF ImportSk
  <2>9. CASE Boot
    BY <2>1, <2>9 DEF Boot
  <2>10. ASSUME NEW pk \in PubKeys, SignPk(pk)
         PROVE  UNCHANGED flash
    BY <2>10 DEF SignPk, flash
  <2>11. ASSUME NEW index \in {RNGERR} \cup Slots, GetKey(index)
         PROVE  UNCHANGED flash
    BY <2>11 DEF GetKey, flash
  <2>12. CASE PowerLoss
    BY <2>1, <2>12 DEF PowerLoss
  <2>13. CASE UNCHANGED vars
    BY <2>1, <2>13 DEF vars
  <2>14. QED
    BY <1>2, <2>1, <2>4, <2>5, <2>6, <2>7, <2>8, <2>9, <2>10, <2>11, <2>12, <2>13
       DEF Next
<1>3. QED
  BY <1>1, <1>2, StoreInvariant, TypeCorrect, PTL
     DEF Spec, ImplementsRegister, Register!Spec
=============================================================================
