------------------------------ MODULE Keystore ------------------------------
(***************************************************************************)
(* The keystore of lib/bls_hsm.h as the secure partition runs it (the TFM  *)
(* build): ten slots of secret and public keys in RAM, and two objects in  *)
(* PSA protected storage, the array of secret keys (UID_KEYSTORE) and the  *)
(* number of keys (UID_KEYSTORE_SIZE).                                     *)
(*                                                                         *)
(* The request manager of secure_partition.c serves one request at a time, *)
(* so requests do not interleave; what can come between two steps of a     *)
(* request is a loss of power.  A request is therefore split at each of    *)
(* its calls of psa_ps_set and psa_ps_remove, and is one step otherwise.   *)
(* A call of the storage is atomic (a guarantee of the PSA interface), and *)
(* fails only if its name is in Faults.                                    *)
(***************************************************************************)
EXTENDS Integers, Sequences

CONSTANTS
  Scalars,            \* 32-byte strings, the type blst_scalar
  ZeroScalar,         \* the 32 zero bytes an unused slot holds
  NotHex,             \* 64 characters that are not all hexadecimal digits
  PubKeys,            \* compressed public keys as 96 hexadecimal digits
  ZeroBytes,          \* the 96 zero bytes an unused slot holds
  sk_to_pk,           \* blst_sk_to_pk_in_g1, compressed and printed
  MAX_KEYSTORE_SIZE,
  UID_KEYSTORE,
  UID_KEYSTORE_SIZE,
  Absent,             \* what protected storage holds under an unused UID
  None,               \* a field of a reply that its request does not fill
  Faults              \* the failures that may happen

(***************************************************************************)
(* The return codes of lib/common.h.                                       *)
(***************************************************************************)
RNGERR      == -3
PKNOTFOUND  == 2
EXISTINGKEY == 4
KEYSLIMIT   == 6
HEX2BINERR  == 7

FaultKinds ==
  {"power", "crypto_init", "get_size", "get_keys", "set_keys", "set_size",
   "remove", "rng"}

Slots == 0 .. MAX_KEYSTORE_SIZE - 1

ASSUME KeystoreAssumption ==
  /\ MAX_KEYSTORE_SIZE \in Nat \ {0}
  /\ UID_KEYSTORE = 1
  /\ UID_KEYSTORE_SIZE \in Nat
  /\ UID_KEYSTORE_SIZE > MAX_KEYSTORE_SIZE
  /\ ZeroScalar \in Scalars
  /\ NotHex \notin Scalars
  /\ sk_to_pk \in [Scalars -> PubKeys]
  /\ ZeroBytes \notin PubKeys
  /\ None \notin PubKeys \cup Scalars \cup {ZeroBytes}
  /\ Absent \notin [Slots -> Scalars]
  /\ Absent \notin 0 .. MAX_KEYSTORE_SIZE
  /\ Faults \subseteq FaultKinds

VARIABLES
  secret_keys_store,      \* RAM: the secret key of every slot
  public_keys_hex_store,  \* RAM: the public key of every slot
  keystore_size,          \* RAM: how many slots are in use
  ps_keys,                \* protected storage: the object UID_KEYSTORE
  ps_size,                \* protected storage: the object UID_KEYSTORE_SIZE
  pc,                     \* where the partition is (see below)
  reply                   \* the answer to the last request

ram == <<secret_keys_store, public_keys_hex_store, keystore_size>>
flash == <<ps_keys, ps_size>>
vars == <<ram, flash, pc, reply>>

(***************************************************************************)
(* "off": the board has started and init has not run.  "ready": waiting    *)
(* for a request.  "keygen", "import": add_sk has written the keys and not *)
(* yet their number.  "reset": reset has written the number 0 and not yet  *)
(* removed the keys.                                                       *)
(***************************************************************************)
PCs == {"off", "ready", "keygen", "import", "reset"}

Ops == {"none", "init", "keygen", "import", "sign", "get_key", "reset"}

Answer(op, code) == [op |-> op, code |-> code, pk |-> None, sk |-> None]

NoReply == Answer("none", 0)

Stored == {i \in Slots : i < keystore_size}

Init ==
  /\ secret_keys_store = [i \in Slots |-> ZeroScalar]
  /\ public_keys_hex_store = [i \in Slots |-> ZeroBytes]
  /\ keystore_size = 0
  /\ ps_keys = Absent
  /\ ps_size = Absent
  /\ pc = "off"
  /\ reply = NoReply

-----------------------------------------------------------------------------
(***************************************************************************)
(* init.  Every failure to read the number of keys, not only its absence,  *)
(* makes the keystore empty and the start successful.  When the keys       *)
(* cannot be read their number has been set already and the slots are      *)
(* blank.  The callers in both main.c ignore the result.                   *)
(***************************************************************************)
CryptoInitFails ==
  /\ "crypto_init" \in Faults
  /\ reply' = Answer("init", -1)
  /\ UNCHANGED ram

SizeUnreadable ==
  /\ ps_size = Absent \/ "get_size" \in Faults
  /\ keystore_size' = 0
  /\ reply' = Answer("init", 0)
  /\ UNCHANGED <<secret_keys_store, public_keys_hex_store>>

KeysUnreadable ==
  /\ ps_size # Absent
  /\ ps_keys = Absent \/ "get_keys" \in Faults
  /\ keystore_size' = ps_size
  /\ reply' = Answer("init", -1)
  /\ UNCHANGED <<secret_keys_store, public_keys_hex_store>>

\* Faulty variant: the public key goes one slot too far.
KeysRestoredShifted ==
  /\ ps_size # Absent
  /\ ps_keys # Absent
  /\ keystore_size' = ps_size
  /\ secret_keys_store' =
       [i \in Slots |-> IF i < ps_size THEN ps_keys[i] ELSE secret_keys_store[i]]
  /\ public_keys_hex_store' =
       [i \in Slots |-> IF 0 < i /\ i <= ps_size THEN sk_to_pk[ps_keys[i - 1]]
                                                 ELSE public_keys_hex_store[i]]
  /\ reply' = Answer("init", 0)

KeysRestored ==
  /\ ps_size # Absent
  /\ ps_keys # Absent
  /\ keystore_size' = ps_size
  /\ secret_keys_store' =
       [i \in Slots |-> IF i < ps_size THEN ps_keys[i] ELSE secret_keys_store[i]]
  /\ public_keys_hex_store' =
       [i \in Slots |-> IF i < ps_size THEN sk_to_pk[ps_keys[i]]
                                       ELSE public_keys_hex_store[i]]
  /\ reply' = Answer("init", 0)

Boot ==
  /\ pc = "off"
  /\ CryptoInitFails \/ SizeUnreadable \/ KeysUnreadable \/ KeysRestored
  /\ pc' = "ready"
  /\ UNCHANGED flash

-----------------------------------------------------------------------------
(***************************************************************************)
(* add_sk, called by secure_keygen and import_sk, which ignore its result: *)
(* they store the public key and answer with the index in every case.      *)
(* AddSk runs up to the first psa_ps_set, SaveSize from the second on.     *)
(***************************************************************************)
StorePk(i, s) ==
  public_keys_hex_store' = [public_keys_hex_store EXCEPT ![i] = sk_to_pk[s]]

AddSk(op, s) ==
  /\ secret_keys_store' = [secret_keys_store EXCEPT ![keystore_size] = s]
  /\ keystore_size' = keystore_size + 1
  /\ \/ /\ ps_keys' = secret_keys_store'
        /\ pc' = op
        /\ UNCHANGED <<public_keys_hex_store, reply>>
     \/ /\ "set_keys" \in Faults
        /\ StorePk(keystore_size, s)
        /\ reply' = Answer(op, keystore_size)
        /\ UNCHANGED <<ps_keys, pc>>
  /\ UNCHANGED ps_size

\* Faulty variants: the number saved is the one before the addition; the public
\* key is forgotten; the caller of add_sk counts the key a second time.
SaveSizeStale ==
  /\ pc \in {"keygen", "import"}
  /\ ps_size' = keystore_size - 1
  /\ StorePk(keystore_size - 1, secret_keys_store[keystore_size - 1])
  /\ reply' = Answer(pc, keystore_size - 1)
  /\ pc' = "ready"
  /\ UNCHANGED <<secret_keys_store, keystore_size, ps_keys>>

SaveSizeNoPk ==
  /\ pc \in {"keygen", "import"}
  /\ ps_size' = keystore_size
  /\ reply' = Answer(pc, keystore_size - 1)
  /\ pc' = "ready"
  /\ UNCHANGED <<secret_keys_store, public_keys_hex_store, keystore_size, ps_keys>>

SaveSizeTwice ==
  /\ pc \in {"keygen", "import"}
  /\ ps_size' = keystore_size
  /\ StorePk(keystore_size - 1, secret_keys_store[keystore_size - 1])
  /\ keystore_size' = keystore_size + 1
  /\ reply' = Answer(pc, keystore_size)
  /\ pc' = "ready"
  /\ UNCHANGED <<secret_keys_store, ps_keys>>

SaveSize ==
  /\ pc \in {"keygen", "import"}
  /\ \/ ps_size' = keystore_size
     \/ "set_size" \in Faults /\ UNCHANGED ps_size
  /\ StorePk(keystore_size - 1, secret_keys_store[keystore_size - 1])
  /\ reply' = Answer(pc, keystore_size - 1)
  /\ pc' = "ready"
  /\ UNCHANGED <<secret_keys_store, keystore_size, ps_keys>>

Refuse(op, code) ==
  /\ reply' = Answer(op, code)
  /\ UNCHANGED <<ram, flash, pc>>

(***************************************************************************)
(* What blst_keygen derives from 32 random bytes: never zero, and never a  *)
(* key that is stored already (256 bits of entropy).                       *)
(***************************************************************************)
RandomScalars ==
  {s \in Scalars \ {ZeroScalar} : \A i \in Stored : secret_keys_store[i] # s}

\* Faulty variant: the limit is off by one.
SecureKeygenPastLimit ==
  /\ pc = "ready"
  /\ keystore_size <= MAX_KEYSTORE_SIZE
  /\ \E s \in RandomScalars : AddSk("keygen", s)

SecureKeygen ==
  /\ pc = "ready"
  /\ \/ /\ keystore_size >= MAX_KEYSTORE_SIZE
        /\ Refuse("keygen", -KEYSLIMIT)
     \/ /\ keystore_size < MAX_KEYSTORE_SIZE
        /\ "rng" \in Faults
        /\ Refuse("keygen", RNGERR)
     \/ /\ keystore_size < MAX_KEYSTORE_SIZE
        /\ \E s \in RandomScalars : AddSk("keygen", s)

(***************************************************************************)
(* import_sk.  A stored key is recognised by its 32 bytes; the answer      *)
(* EXISTINGKEY is not negated, so it is also the index of the fifth slot.  *)
(***************************************************************************)
\* Faulty variants: only the first slot is compared; the flag c of one comparison
\* counts for the others.
IsStoredFirst(s) == keystore_size > 0 /\ secret_keys_store[0] = s

IsStoredAny(s) == keystore_size > 0

IsStored(s) == \E i \in Stored : secret_keys_store[i] = s

ImportSk(s) ==
  /\ pc = "ready"
  /\ \/ /\ keystore_size >= MAX_KEYSTORE_SIZE
        /\ Refuse("import", -KEYSLIMIT)
     \/ /\ keystore_size < MAX_KEYSTORE_SIZE
        /\ s = NotHex
        /\ Refuse("import", -HEX2BINERR)
     \/ /\ keystore_size < MAX_KEYSTORE_SIZE
        /\ s # NotHex
        /\ IsStored(s)
        /\ Refuse("import", EXISTINGKEY)
     \/ /\ keystore_size < MAX_KEYSTORE_SIZE
        /\ s # NotHex
        /\ ~IsStored(s)
        /\ AddSk("import", s)

-----------------------------------------------------------------------------
(***************************************************************************)
(* reset.  The loop removes the objects 1 .. keystore_size, a range that   *)
(* holds UID_KEYSTORE whenever a key is stored.                            *)
(***************************************************************************)
Reset ==
  /\ pc = "ready"
  /\ secret_keys_store' = [i \in Slots |-> ZeroScalar]
  /\ \/ ps_size' = 0
     \/ "set_size" \in Faults /\ UNCHANGED ps_size
  /\ pc' = "reset"
  /\ UNCHANGED <<public_keys_hex_store, keystore_size, ps_keys, reply>>

RemoveKeys ==
  /\ pc = "reset"
  /\ \/ /\ ps_keys' = IF UID_KEYSTORE <= keystore_size THEN Absent ELSE ps_keys
        /\ ps_size' =
             IF UID_KEYSTORE_SIZE <= keystore_size THEN Absent ELSE ps_size
     \/ /\ "remove" \in Faults
        /\ UNCHANGED flash
  /\ keystore_size' = 0
  /\ public_keys_hex_store' = [i \in Slots |-> ZeroBytes]
  /\ reply' = Answer("reset", 0)
  /\ pc' = "ready"
  /\ UNCHANGED secret_keys_store

-----------------------------------------------------------------------------
\* Faulty variant: the result starts at 0 and is never set to -1 when the last
\* slot has another key.
pk_in_keystoreZero(pk) ==
  LET found == {i \in Stored : public_keys_hex_store[i] = pk}
  IN  IF found = {} THEN IF keystore_size = 0 THEN -1 ELSE 0
                    ELSE CHOOSE i \in found : \A j \in found : i <= j

(***************************************************************************)
(* The first slot in use that holds the public key, or -1.                 *)
(***************************************************************************)
pk_in_keystore(pk) ==
  LET found == {i \in Stored : public_keys_hex_store[i] = pk}
  IN  IF found = {} THEN -1
                    ELSE CHOOSE i \in found : \A j \in found : i <= j

(***************************************************************************)
(* sign_pk: which secret key signs.  What becomes of the message is the    *)
(* subject of module Shell.                                                *)
(***************************************************************************)
SignPk(pk) ==
  /\ pc = "ready"
  /\ LET i == pk_in_keystore(pk)
     IN  \/ /\ i = -1
            /\ reply' = Answer("sign", PKNOTFOUND)
         \/ /\ i # -1
            /\ reply' = [op |-> "sign", code |-> 0, pk |-> pk,
                         sk |-> secret_keys_store[i]]
  /\ UNCHANGED <<ram, flash, pc>>

(***************************************************************************)
(* get_key through tfm_get_key_ipc, which ignores its result: an index     *)
(* that is too large leaves the answer as the stack had it, a negative one *)
(* reads in front of the array.                                            *)
(***************************************************************************)
GetKey(index) ==
  /\ pc = "ready"
  /\ \E pk \in IF index \in Stored THEN {public_keys_hex_store[index]}
                                   ELSE PubKeys \cup {ZeroBytes} :
       reply' = [op |-> "get_key", code |-> 0, pk |-> pk, sk |-> None]
  /\ UNCHANGED <<ram, flash, pc>>

-----------------------------------------------------------------------------
PowerLoss ==
  /\ "power" \in Faults
  /\ secret_keys_store' = [i \in Slots |-> ZeroScalar]
  /\ public_keys_hex_store' = [i \in Slots |-> ZeroBytes]
  /\ keystore_size' = 0
  /\ pc' = "off"
  /\ reply' = NoReply
  /\ UNCHANGED flash

Next ==
  \/ Boot
  \/ SecureKeygen
  \/ \E s \in Scalars \cup {NotHex} : ImportSk(s)
  \/ SaveSize
  \/ Reset
  \/ RemoveKeys
  \/ \E pk \in PubKeys : SignPk(pk)
  \/ \E index \in {RNGERR} \cup Slots : GetKey(index)
  \/ PowerLoss

Spec == Init /\ [][Next]_vars

-----------------------------------------------------------------------------
(***************************************************************************)
(* Properties.                                                             *)
(***************************************************************************)

\* Every variable keeps its type: in particular keystore_size, which indexes
\* both arrays in add_sk and in the loops of init, never exceeds their length.
TypeOK ==
  /\ secret_keys_store \in [Slots -> Scalars]
  /\ public_keys_hex_store \in [Slots -> PubKeys \cup {ZeroBytes}]
  /\ keystore_size \in 0 .. MAX_KEYSTORE_SIZE
  /\ ps_keys \in [Slots -> Scalars] \cup {Absent}
  /\ ps_size \in (0 .. MAX_KEYSTORE_SIZE) \cup {Absent}
  /\ pc \in PCs
  /\ pc \in {"keygen", "import"} => keystore_size > 0
  /\ reply \in [op : Ops, code : Int, pk : PubKeys \cup {ZeroBytes, None},
                sk : Scalars \cup {None}]

\* Whatever fails and whenever power is lost, between requests a slot in use
\* holds either no public key or the public key of the secret key beside it
\* (init and add_sk fill the two arrays at different moments).
SlotsPaired ==
  pc = "ready" =>
    \A i \in Stored :
      public_keys_hex_store[i] \in {ZeroBytes, sk_to_pk[secret_keys_store[i]]}

\* sign_pk reports success only for a signature made with a secret key of the
\* public key it was asked to sign for.
SignatureMatchesKey ==
  (reply.op = "sign" /\ reply.code = 0) => sk_to_pk[reply.sk] = reply.pk

\* Every public key that get_keys lists can be used: its secret key is in the
\* slot beside it, so sign_pk finds it and no blank key is listed.
ListedKeysUsable ==
  pc = "ready" =>
    \A i \in Stored :
      public_keys_hex_store[i] = sk_to_pk[secret_keys_store[i]]

\* The keys init would find in protected storage.
FlashKeys ==
  IF ps_size = Absent \/ ps_keys = Absent
    THEN << >>
    ELSE [i \in 1 .. ps_size |-> ps_keys[i - 1]]

\* When a request has been answered the keys in RAM are the keys in protected
\* storage: secure_keygen and import_sk "store both" keys before they return the
\* index, so a key whose index the caller has survives a loss of power.
AnsweredIsDurable ==
  pc = "ready" =>
    FlashKeys = [i \in 1 .. keystore_size |-> secret_keys_store[i - 1]]

\* reset "Deletes all keys": once it has answered no secret key is left in RAM
\* or in protected storage.
ResetErases ==
  (pc = "ready" /\ reply.op = "reset") =>
    /\ ps_keys = Absent
    /\ \A i \in Slots : secret_keys_store[i] = ZeroScalar

\* The keys in protected storage behave like the register of KeyRegister, with
\* power losses between any two steps: the two writes of add_sk and the write and
\* the removal of reset each take effect at a single moment or not at all.
Register == INSTANCE KeyRegister
              WITH keys <- FlashKeys, Keys <- Scalars,
                   Capacity <- MAX_KEYSTORE_SIZE

ImplementsRegister == Register!Spec
=============================================================================
