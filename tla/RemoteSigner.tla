---------------------------- MODULE RemoteSigner ----------------------------
(***************************************************************************)
(* What the remote signer does with the requests that the loop of module   *)
(* RequestLoop hands to dumpHttpResponse: httpRemote.h on top of the       *)
(* keystore of module Keystore.  An import works through a list of         *)
(* encrypted keystores; each of them is one request to the secure          *)
(* partition, so power can be lost in the middle of the list.              *)
(*                                                                         *)
(* Of a keystore the model keeps the secret key and how far                *)
(* import_from_keystore gets with it.  A request holds at most three of    *)
(* them, as many as key_mem has room for: with more, the array is overrun  *)
(* and the behaviour is undefined.                                         *)
(***************************************************************************)
EXTENDS Keystore

CONSTANTS
  Files,       \* the encrypted keystores: their secret keys and states
  KeyMem,      \* the length of the array key_mem
  Leftovers,   \* what private_key may hold when aes128ctr fails; {}: it cannot
  SignBodies,  \* the bodies of sign requests
  MaxLeaks     \* how many parsed bodies fill the heap

(***************************************************************************)
(* "malformed": a field is missing or no hexadecimal string.  "scrypt":    *)
(* not supported on the board.  "wrong": the checksum does not match.      *)
(***************************************************************************)
FileStates == {"good", "malformed", "scrypt", "wrong"}

(***************************************************************************)
(* The body of a sign request: "root" has a signingRoot; "typed" has none  *)
(* and a type whose root is computed; "untyped" has none and another type; *)
(* "no_type" has neither; "no_json" does not parse.                        *)
(***************************************************************************)
SignBodyKinds == {"root", "typed", "untyped", "no_type", "no_json"}

\* How the lists of an import request may be wrong.
ListErrors == {"no_json", "no_passwords", "empty_password", "counts_differ"}

ASSUME RemoteSignerAssumption ==
  /\ Files \subseteq [sk : Scalars, state : FileStates]
  /\ KeyMem \in Nat
  /\ Leftovers \subseteq Scalars
  /\ SignBodies \subseteq SignBodyKinds
  /\ MaxLeaks \in Nat \ {0}

VARIABLES
  job,        \* "off", "idle", or "import" while an import runs
  files,      \* the keystores of that import that are still to do
  asked,      \* history: all keystores of the last import
  garbled,    \* history: positions in it whose decryption failed unnoticed
  http,       \* the last response, and what it was asked
  leaked,     \* parsed bodies that were never freed
  confirmed   \* history: secret keys stored when "imported" was answered for them

httpVars == <<job, files, asked, garbled, http, leaked, confirmed>>
allRemoteVars == <<vars, httpVars>>

Http(op, status) == [op |-> op, status |-> status, pk |-> None, body |-> "none"]

NoHttp == Http("none", 0)

RemoteInit ==
  /\ Init
  /\ job = "off"
  /\ files = << >>
  /\ asked = << >>
  /\ garbled = {}
  /\ http = NoHttp
  /\ leaked = 0
  /\ confirmed = {}

\* main: the result of tfm_init is ignored.
RemoteMain ==
  /\ job = "off"
  /\ Boot
  /\ job' = "idle"
  /\ UNCHANGED <<files, asked, garbled, http, leaked, confirmed>>

Respond(response) ==
  /\ job' = "idle"
  /\ files' = << >>
  /\ http' = response

-----------------------------------------------------------------------------
(***************************************************************************)
(* httpImportFromKeystore.  Its check that the lists fit compares with     *)
(* MAXKeys + nKeysAlreadyStored, which a request of this size never        *)
(* exceeds.                                                                *)
(***************************************************************************)
ImportRefused(error) ==
  /\ job = "idle"
  /\ error \in ListErrors
  /\ Respond(Http("import", IF error = "no_json" THEN 1 ELSE 400))
  /\ UNCHANGED <<vars, asked, garbled, leaked, confirmed>>

ImportKeystores(list) ==
  /\ job = "idle"
  /\ job' = "import"
  /\ files' = list
  /\ asked' = list
  /\ garbled' = {}
  /\ http' = NoHttp
  /\ UNCHANGED <<vars, leaked, confirmed>>

\* Faulty variant: an error skips the keystore.
ImportFileSkipping ==
  /\ job = "import"
  /\ pc = "ready"
  /\ files # << >>
  /\ files' = Tail(files)
  /\ IF Head(files).state = "good" /\ keystore_size < MAX_KEYSTORE_SIZE
       THEN ImportSk(Head(files).sk) ELSE UNCHANGED vars
  /\ UNCHANGED <<job, asked, garbled, http, leaked, confirmed>>

(***************************************************************************)
(* One round of import_from_keystore: the type, the decryption key, the    *)
(* password, the private key.  aes128ctr does not say that it has failed   *)
(* (it never gives its key back, so in the end it does): whatever is in    *)
(* the array private_key is imported then.  get_private_key ignores what   *)
(* import says.  (It also writes a zero 32 bytes behind that array, which  *)
(* is undefined and left out.)                                             *)
(***************************************************************************)
ImportFile ==
  /\ job = "import"
  /\ pc = "ready"
  /\ files # << >>
  /\ \/ /\ Head(files).state = "good"
        /\ keystore_size < MAX_KEYSTORE_SIZE
        /\ ImportSk(Head(files).sk)
        /\ files' = Tail(files)
        /\ UNCHANGED <<job, garbled, http>>
     \/ /\ Head(files).state = "good"
        /\ keystore_size < MAX_KEYSTORE_SIZE
        /\ \E s \in Leftovers : ImportSk(s)
        /\ files' = Tail(files)
        /\ garbled' = garbled \cup {Len(asked) - Len(files) + 1}
        /\ UNCHANGED <<job, http>>
     \/ /\ Head(files).state = "good"
        /\ keystore_size >= MAX_KEYSTORE_SIZE
        /\ files' = Tail(files)
        /\ UNCHANGED <<vars, job, garbled, http>>
     \/ /\ Head(files).state # "good"
        /\ Respond(Http("import", 400))
        /\ UNCHANGED <<vars, garbled>>
  /\ UNCHANGED <<asked, leaked, confirmed>>

\* The secret keys of the request that are in the keystore.
AskedAndStored == {asked[i].sk : i \in {j \in DOMAIN asked : IsStored(asked[j].sk)}}

\* Faulty variant: "imported" is answered before the last keystore is done.
ImportDoneEarly ==
  /\ job = "import"
  /\ pc = "ready"
  /\ Len(files) <= 1
  /\ Respond(Http("import", 200))
  /\ confirmed' = confirmed \cup AskedAndStored
  /\ UNCHANGED <<vars, asked, garbled, leaked>>

\* Faulty variant: a key that is stored already leaves the import waiting.
ImportDoneIfNew ==
  /\ job = "import"
  /\ pc = "ready"
  /\ files = << >>
  /\ reply.code # EXISTINGKEY
  /\ Respond(Http("import", 200))
  /\ confirmed' = confirmed \cup AskedAndStored
  /\ UNCHANGED <<vars, asked, garbled, leaked>>

ImportDone ==
  /\ job = "import"
  /\ pc = "ready"
  /\ files = << >>
  /\ Respond(Http("import", 200))
  /\ confirmed' = confirmed \cup AskedAndStored
  /\ UNCHANGED <<vars, asked, garbled, leaked>>

-----------------------------------------------------------------------------
\* checkKey: the key is among the keys that copyKeys gets one by one.
checkKey(pk) == \E i \in Stored : public_keys_hex_store[i] = pk

(***************************************************************************)
(* signResponseStr.  cJSON_Parse also fails when the heap is full.  With a *)
(* type whose root it computes, it answers an error all the same and does  *)
(* not free the parsed body.  Without a type, getSR reads the field of a   *)
(* null pointer: what it finds there is no type it knows, or the board     *)
(* faults and starts again (SignFaults).                                   *)
(***************************************************************************)
SignStatus(pk, body) ==
  IF ~checkKey(pk) THEN 404
  ELSE IF body = "root" /\ leaked < MaxLeaks /\ pk_in_keystore(pk) # -1 THEN 200
  ELSE 400

Sign(pk, body) ==
  /\ job = "idle"
  /\ Respond([op |-> "sign", status |-> SignStatus(pk, body), pk |-> pk, body |-> body])
  /\ leaked' = IF checkKey(pk) /\ body = "typed" /\ leaked < MaxLeaks
                 THEN leaked + 1 ELSE leaked
  /\ IF SignStatus(pk, body) = 200 THEN SignPk(pk) ELSE UNCHANGED vars
  /\ UNCHANGED <<asked, garbled, confirmed>>

\* publicKeys and upcheck change nothing.
GetKeys ==
  /\ job = "idle"
  /\ Respond(Http("keys", 200))
  /\ UNCHANGED <<vars, asked, garbled, leaked, confirmed>>

-----------------------------------------------------------------------------
RemotePartition ==
  /\ SaveSize
  /\ UNCHANGED httpVars

RemotePowerLoss ==
  /\ PowerLoss
  /\ job' = "off"
  /\ files' = << >>
  /\ http' = NoHttp
  /\ leaked' = 0
  /\ UNCHANGED <<asked, garbled, confirmed>>

\* A restart is to the keystore what a loss of power is.
SignFaults(pk) ==
  /\ job = "idle"
  /\ checkKey(pk)
  /\ leaked < MaxLeaks
  /\ RemotePowerLoss

Lists == UNION {[1 .. n -> Files] : n \in 1 .. KeyMem}

RemoteNext ==
  \/ RemoteMain
  \/ \E error \in ListErrors : ImportRefused(error)
  \/ \E list \in Lists : ImportKeystores(list)
  \/ ImportFile
  \/ ImportDone
  \/ \E pk \in PubKeys, body \in SignBodies : Sign(pk, body)
  \/ \E pk \in PubKeys : "no_type" \in SignBodies /\ SignFaults(pk)
  \/ GetKeys
  \/ RemotePartition
  \/ RemotePowerLoss

(***************************************************************************)
(* The loop runs, the request manager of the partition runs.               *)
(***************************************************************************)
RemoteSpec ==
  /\ RemoteInit /\ [][RemoteNext]_allRemoteVars
  /\ WF_allRemoteVars(RemoteMain)
  /\ WF_allRemoteVars(RemotePartition)
  /\ WF_allRemoteVars(ImportFile)
  /\ WF_allRemoteVars(ImportDone)

-----------------------------------------------------------------------------
\* What can keep a good keystore of the import from being stored: the keystore has
\* no room left, or its decryption has failed.
Excused(i) == keystore_size = MAX_KEYSTORE_SIZE \/ i \in garbled

\* {"status": "imported"}: after this answer every secret key of the request is in
\* the keystore.  get_private_key hears neither of a full keystore nor of a failed
\* decryption, so this is so only where nothing of the two has happened: as long as
\* there is room, a key is missing only when its own decryption failed.
ImportedAreStored ==
  (job = "idle" /\ http.op = "import" /\ http.status = 200) =>
    \A i \in DOMAIN asked : IsStored(asked[i].sk) \/ Excused(i)

\* A secret key that was in the keystore when its import was answered "imported" is
\* there whenever the signer serves requests, however often power is lost, in later
\* imports too, and whatever those do to the slots behind it.
ConfirmedSurvive ==
  (job \in {"idle", "import"} /\ pc = "ready") => \A s \in confirmed : IsStored(s)

\* An import that fails or is cut off has stored what comes before the keystore it
\* failed at: every keystore that import_from_keystore has passed is good, and its
\* secret key is stored, but for the same two cases.
PassedAreStored ==
  (job = "import" /\ pc = "ready") =>
    \A i \in 1 .. Len(asked) - Len(files) :
      asked[i].state = "good" /\ (IsStored(asked[i].sk) \/ Excused(i))

\* Every import is answered, unless power is lost.
ImportsEnd == (job = "import") ~> (job # "import")
=============================================================================
