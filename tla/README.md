# Verification of bls-hsm

bls-hsm turns a Nordic board into a signer for BLS12-381 keys: secret keys live
in a TrustZone secure partition, and a command line or an HTTP API (Web3Signer's)
asks it to generate, import, list, use and delete them. This directory has TLA+
models of that program, TLC configurations that check them on small instances,
and TLAPS proofs for every value of the constants. Paths below are relative to
the repository.

## 1. Inventory

| Component | State it keeps | Operations | Source |
|---|---|---|---|
| Keystore | ten slots of secret and public keys and their number in RAM; the secret keys and their number in PSA protected storage | `init`, `secure_keygen`, `import_sk`, `reset`, `sign_pk`, `get_key`, `pk_in_keystore` | `lib/bls_hsm.h` |
| Secure partition | one request at a time | `sp_signal_handle`, `tfm_sp_req_mngr_init`; the client side copies fixed numbers of bytes | `secure_partition/secure_partition.c`, `lib/secure_partition_interface.c` |
| Command line | none of its own | `keygen`, `import`, `signature`, `verify`, `getkeys`, `reset` | `cli/src/main.c`, `lib/bls_hsm_ns.c`, `lib/common.c` |
| Request loop | one global buffer and its length | receive, `parseRequest`, answer in the same buffer, send | `remote-signer/src/main.c`, `remote-signer-7002/src/main.c`, `lib/tcp.c`, `lib/httpRemote.h` |
| HTTP API | the heap, through `cJSON` | sign, publicKeys, upcheck, import of encrypted keystores | `lib/httpRemote.h` |
| Bridge | a mutex and a serial line shared by all connections | `Handler` and its two goroutines | `remote-signer/bridge.go` |
| WiFi connection and server socket | `connect_result`, `connected`, `ipSet`; five network contexts | event callbacks, the connecting loop, accept, recv, send, close | `remote-signer-7002/src/main.c` |
| Signing roots | the table `zerohashes` | SSZ merkleization of four types of request | `lib/merkleization.h`, `getSR` in `lib/httpRemote.h` |
| remote-go | a serial port that each handler opens for itself | import at the start; HTTP handlers that type shell commands and scan the lines | `cli/remote-go/main.go` |
| Touchscreen | a semaphore, a text, the screen | the display thread, the password prompt of an import and its callback | `lib/touchscreen.c`, `lib/httpRemote.h` |

How they interact. A TCP client speaks to the bridge, the bridge to the request
loop over a serial line (or the client to the loop over LTE or WiFi), the loop
to the HTTP API by a call, the API and the command line to the partition by
blocking `psa_call`s, the partition to protected storage. `remote-go` drives the
command line instead.

What is hard to test:

* loss of power between the two writes of `add_sk`, or between the write and
  the removal of `reset`, and between two keystores of one import request;
* return codes that the caller does not test, or tests with the wrong sign;
* byte counts across the partition boundary (65 bytes for 64 digits);
* a buffer that holds the rest of an old request, a partial new one, and the
  response, and reads that end anywhere;
* goroutines that outlive the timeout of the `Handler` that started them;
* flags that one thread polls and the callbacks of another set, in every order
  of connections, losses and refusals;
* a table of constants that the functions that use it also write to;
* HTTP handlers that share one serial line and one echo setting with nothing
  between them;
* a prompt whose keyboard, semaphore and text belong to two threads.

What makes each part correct: an answered key is durable and the stored keys
only ever grow by one or are cleared (keystore); a signature is made with the key
that was asked for, of the message that was asked for (keystore, command line);
what is handled is one whole request and a client that waits is answered
(request loop); `imported` means stored (API); one worker at a time on the line,
each response to its own client, the mutex released in the end (bridge); the
server starts once the board stays online, and each client leaves it as it was
(WiFi); a root is a function of its request and tells it from every other one
(signing roots); a response is made of its own lines (remote-go); a keystore is
opened with the password typed for it (touchscreen).
`PROJECT.json` lists each hazard with its line and the properties that cover it.

## 2. Modules

| Module | Models | State and actions |
|---|---|---|
| `Keystore` | the keystore in the partition | variables carry the names of the arrays; `ps_keys`, `ps_size` are the two storage objects; one action per request, split at each `psa_ps_set` and `psa_ps_remove` (`AddSk`/`SaveSize`, `Reset`/`RemoveKeys`), since power may be lost there; `Boot` is `init` with its four outcomes |
| `KeyRegister` | what the keystore promises | a list of distinct keys, `Add` and `Clear` |
| `Shell` | the commands on top of `Keystore` (EXTENDS it) | one action per command; a command that writes storage is sent, then answered; text arguments are a prefix, a number of digits, and whether they are hexadecimal, which is all `parse_hex` looks at |
| `RemoteSigner` | the HTTP handlers on top of `Keystore` (EXTENDS it) | an import works through its list of keystores with one partition request each; `Sign` has the status `signResponseStr` gives and the body it leaks |
| `RequestLoop` | the loop, `parseRequest`, the buffer, in three builds | `Receive` is one iteration of the loop up to the response; `SendUart`, `SendLte`, `SendWifi` are the three ways to send; clients send, stop waiting, hang up |
| `Bridge` | `bridge.go` with the line and the board's side of it | per connection a `Handler`, a locking goroutine and a worker |
| `WifiServer` | the WiFi build from start to serving | the flags of `main.c`; the network thread's callbacks run from a queue of events; `main` polls, opens the socket, accepts, answers; radio, DHCP and clients are the environment |
| `Merkle`, `SigningRoot` | `merkleization.h` and `getSR` | a hash is the term it is computed from, so equal hashes are equal trees; every function takes `zerohashes` and returns it; requests come in any order between restarts. A second set of definitions says what the trees should be |
| `Touchscreen` | the password prompt | the display thread and `main` with the semaphore, the screen, `pwd`, the stack slot of `ts_pwd` and the pointers in `passwords[]` |
| `RemoteGo` | `cli/remote-go/main.go` | per client a handler that opens, sends, scans, answers, closes; a scanner takes some of the lines that have arrived (`ReadPort`) and looks at them one by one; the board is a queue of commands and the lines it prints |
| `KeystoreProofs`, `CallerProofs`, `BridgeProofs`, `RequestLoopProofs`, `WifiServerProofs`, `TouchscreenProofs`, `RemoteGoProofs`, `SigningRootProofs` | theorems | see section 5; `CallerProofs` is about `Shell` and `RemoteSigner` and extends the proofs about `Keystore` |
| `MC*` | instances for TLC | |

`Shell` and `RemoteSigner` compose with `Keystore`: their actions conjoin its
actions, so a storage fault or a power loss in the partition shows up at the
prompt or in a response. `RequestLoop` and `Bridge` abstract from the keystore:
a response is a status and possibly more. `Bridge` has the loop's reaction to
whole, partial and joined requests, as `RequestLoop` shows it in detail.

`WifiServer` ends where `RequestLoop` begins (a request is one step), `Touchscreen`
is the part of an import before `RemoteSigner`'s list of files, `SigningRoot` is
what a sign request without a `signingRoot` does before `RemoteSigner` answers it
with an error, and `RemoteGo` uses what `Shell` prints.

Definitions marked "Faulty variant" are what a plausible slip would make of the
definition after them; no specification uses them. They show that each
property is able to fail.

Abstractions. Secret and public keys are model values; `sk_to_pk` is a function,
not necessarily injective (`import_sk` does not reduce a scalar, so two
different 32-byte strings can have one public key; `MCKeystore` has such a pair).
Storage calls are atomic, as the PSA interface requires. A message
on the serial line between bridge and board is one item; how a request is cut
into reads is the subject of `RequestLoop`, where a cell stands for a request
line, a header, `Content-Length`, the empty line or a part of the body. An
encrypted keystore file is its secret key and how far `import_from_keystore`
gets. A field of a block or an attestation is known by its path, except for the
lengths of lists and bit lists and the validator indices, which decide the shape
of the trees. A line of the shell is the part that `remote-go` looks for; it is
read whole (two handlers that overlap can also tear a line, which the model
leaves out). Uninitialised and out-of-bounds reads are nondeterministic (`GetKey` of a
bad index, stray bytes behind an unterminated string, `numHeaders`).

## 3. Runs

Passing runs:

| Run | Bounds | Shows |
|---|---|---|
| `KeystoreAnyFault` | 3 slots, 4 scalars, 2 of them with the same public key, every fault | `TypeOK`; `SlotsPaired`; `SignatureMatchesKey`: even when reading the keys fails after their number was set, no signature is made with a key of another public key |
| `ShellPower` | 5 slots, 5 scalars, 2 of them with the same public key, power losses and failing removals; as messages a root, a short one, a root with its prefix, and one that is not hexadecimal | `AnsweredIsDurable`; `ListedKeysUsable`; `ImplementsRegister`: the keystore below the shell refines `KeyRegister` under the mapping `FlashKeys`, what `init` would find; `ShownKeysSurvive`; `ShownKeyIsStored`; `SignsWhatWasAsked`; `SilentImportStored`, with a fifth slot whose index is the value of `EXISTINGKEY`; `CommandsEnd` |
| `BridgeTimers` | 3 connections, both timers, hang-ups, errors of the serial line when writing and reading, refused requests | `LineExclusive`; `OwnResponse`; `MutexReleased`; `ConnectionsEnd` |
| `LoopBuilds` | 8 settings: three builds, requests with and without bodies, one with a long head, buffer of 6 cells, limit of 3, a serial driver that takes half of the longest response | `HandledWhole`; `ResponseOwn`; `AnsweredWhenClear`; `len` stays within the buffer although -1 is added to it |
| `RemoteImports` | 2 slots, 3 keys, up to 2 keystores a request, good and bad ones, decryptions that fail unnoticed, all kinds of sign requests, power losses | `ImportedAreStored`; `ConfirmedSurvive`; `PassedAreStored`; `ImportsEnd` |
| `SigningRoots` | 18 requests, three between restarts, in every order, on a board that fills the table and one that does not; the limits of the code | `TableIntact`; `RootAsSpecified`; `RootsTellApart`, also over a table that was written over or never filled |
| `WifiServes` | 2 clients, 5 contexts, 2 waiting events, six mixes of refused requests and attempts, lost links, radios that connect again by themselves, hang-ups, silent clients, requests that are given up, failing `send` | `ContextsAccounted`; `ServesOnline`; `ServerStarts`; `ClientsAnswered` |
| `TouchscreenPrompts` | up to 2 passwords a request, 2 texts, five mixes of builds and start-ups, hosts that come early among them | `PromptFresh`; `PromptEnds` |
| `RemoteGoServes` | 2 clients whose requests may overlap, ports that fail, a board that lags; this repository's firmware and the documented one | `ResponseFits`; `HandlersEnd` |

Runs that end in a violation, of something the repository says: `KeystoreResetPower`
(`ResetErases`), `LoopLongHead` (`Answered`) and `RemoteGoImport` (`StartUpEnds`); see
section 4.

What the properties except. A property of a component whose code fails in some case says
in which, and the case itself is in the run: `OwnResponse` holds until a request is left
on the line (`LeftOnLine`), `MutexReleased` is not about a `Handler` that gave up,
`ImportedAreStored` names the keystores that may be missing (`Excused`), `ServerStarts`
the one state in which `main` hears of no connection (`Deaf`), `ClientsAnswered` the
three ends of the receiving loop, `ResponseFits` and `HandlersEnd` the handlers that
others disturbed (`Alone`) and the answer that `signHandler` does not know (`Unheard`).
So each of them also says that the failure reaches no further. Section 4 says how
to see each failure. Three faults are outside the run of the property that they break:
`rng` and the failing writes in `ShellPower`, and `hangup` on WiFi in `LoopBuilds`.

Why the bounds are enough. Three slots have a first, a middle and a last one,
and allow a reset, refills and a full keystore; `pk_in_keystore` and the loop of
`init` treat all others alike, and the proofs do not depend on the number. The shell has
five, since 4 is both `EXISTINGKEY` and the index of the fifth slot; an import over HTTP
fills two slots in one request. Three
connections are a holder of the mutex, a waiter, and one that comes later. The
buffer of the loop holds the longest request plus one cell, so that a
request can arrive behind the rest of another; the limit is between the heads
that fit and the one that does not, which is that of the example in
`remote-signer/README.md:90-98`. `SIZE_MAX` stands for the largest `size_t`, into
which `parseRequest` converts the length that -1 was added to: all that matters of it
is that no buffer and no request is that long. Keystores in a request are bounded by
`KeyMem`: the array `key_mem` has room for three, and longer lists are undefined
behaviour. `MaxStray`, `MaxQueued` and `MaxLeaks` bound stray bytes, cells left
in the stream by a client that goes away, and the heap.

The requests of `SigningRoots` have every type, lists of 0, 1, 2, 3, 4 and 5
elements, and bit lists of zero to five chunks, one of them longer than the byte
that holds its length; two requests can disturb a third. The proof of a deposit
has 5 hashes in place of 33 (TLC evaluates long recursive functions on its own
stack); both are no powers of two, which is what matters. In `WifiServes` five
contexts are `CONFIG_NET_MAX_CONTEXTS`: the server and four clients that hang up
exhaust them. Two passwords are enough for one prompt to follow another; a third
would reuse the same slot. In `RemoteGoServes` `MaxWaiting` commands and lines may wait
when a handler opens the port, so that it starts while the end of the one before is
still to be executed; `MaxDisturbed` is how often a handler is disturbed by others before
they have to wait for it.

Deadlock is not checked in `Bridge`, where the connections run out, and in
`RequestLoop`, where the board waits when a send has failed on WiFi (a loop that
never ends), in the serial build when part of a response was not sent, and in the NET and
WiFi builds when nothing is sent. It is not
checked in `WifiServer`, `Touchscreen` and `RemoteGo` either, where `main` may sleep
for ever, wait for a user who sees no keyboard, or exit.

Fairness. The partition's request manager, the shell thread and the request
loop are loops without a way out that only wait for each other, so `Shell`,
`RemoteSigner` and `RequestLoop` assume weak fairness of their own steps and
none of the user, the clients or the power supply. In `Bridge` goroutines
run when they can, timers fire, and a blocked `Lock` is served under strong
fairness: `sync.Mutex` hands the lock to a goroutine that has waited for 1 ms. Clients
need not send anything, and no failure has to happen.
In `WifiServer` the polling loops, the network thread and a connection attempt
(which has a timeout) go on, and a client that is refused a connection tries again;
losses, refusals and hang-ups need not happen. In `Touchscreen` both threads run when
`main`'s sleeping allows it, and a user who sees a keyboard types. In `RemoteGo` the
board and the goroutines go on; a port need not fail.

## 4. Where the code does not do what is written

Three runs end in a violation of what the repository says.

* `KeystoreResetPower`: `reset` "Deletes all keys" (`lib/bls_hsm.h:597`). Its loop covers
  the objects 1 .. `keystore_size`; after a power loss in the first `add_sk`, or in
  `reset` itself, the size is 0: a reset then removes nothing, and the array of
  secret keys stays in storage until keys are added and deleted again.
* `LoopLongHead`: `remote-signer/README.md:89-98` shows a sign request and `:134-139` the
  response to it. Its head has more than 300 bytes, and `parseRequest` gives up such a
  request when a read ends in its head behind the `Content-Length`
  (`lib/httpRemote.h:296`): the client waits for ever, though nothing has failed.
* `RemoteGoImport`: `cli/remote-go/README.MD:12-13` shows `Key imported` and the server
  that starts then. `main.go:389` waits for a line with the key or with "already", and
  the import of this repository's firmware prints neither.

The failures that the properties except show when a passing run is changed in one place.
Each row of this table has been run, with the property as the only one of its run:

| Run | Change | Property | What happens |
|---|---|---|---|
| `ShellPower` | `Faults <- WriteFaults` | `AnsweredIsDurable` | the callers of `add_sk` ignore its status (`lib/bls_hsm.h:631`): an index is returned for a key that a restart loses |
| `ShellPower` | `Faults <- RngFails` | `ShownKeyIsStored` | `RNGERR` is used as an index, and bytes in front of the array are shown as the new key (`lib/bls_hsm.h:313`) |
| `ShellPower` | another property | `RefusesWrongSize` | a message of another length than 64 digits is signed (`lib/bls_hsm.h:544`), where `cli/README.md:57` expects the board to refuse |
| `BridgeTimers` | `OwnResponse` without `LeftOnLine` | `OwnResponse` | after the three-second answer timeout the worker's request stays on the line, and its late response goes to the next client (`remote-signer/bridge.go:179`) |
| `BridgeTimers` | `LineExclusive` without `timed_out` | `LineExclusive` | the mutex is released while that worker still scans the line, beside the next one |
| `BridgeTimers` | `MutexReleased` without `gave_up` | `MutexReleased` | the locking goroutine of a `Handler` that gave up gets the mutex later, and nobody unlocks it (`remote-signer/bridge.go:46`) |
| `LoopBuilds` | another property | `ResponseIntact` | `uart_fifo_fill` is given `buf` each time: a response that the driver does not take at once begins again, or ends early when no interrupt is pending (`remote-signer/src/main.c:288`); an import body that is not JSON makes `httpImportFromKeystore` return `EXIT_FAILURE`, which is taken for a response of length 1 (`lib/httpRemote.h:892`) |
| `LoopBuilds` | `Settings <- NetBuild` | `Answered` | `len` is not set to 0 after `send_tcp`: the second request is read behind zero bytes and dropped (`remote-signer/src/main.c:299`) |
| `LoopBuilds` | `Settings <- ClientsHangUp` | `HandledWhole` | WiFi: `len` is kept when a client hangs up, and its bytes are joined with the next client's (`remote-signer-7002/src/main.c:480`) |
| `RemoteImports` | `ImportedAreStored` without `Excused` | `ImportedAreStored` | `get_private_key` ignores the result of `import` and hears nothing of a failed decryption: with a full keystore, or a key that is garbage, the answer is still `imported` (`lib/bls_hsm_ns.c:388`, `lib/bls_hsm.h:397`) |
| `SigningRoots` | another property | `RootsRepeat` | the same request gets another root after a list whose length is no power of two was padded: `merge` writes into `zerohashes[0]` (`lib/merkleization.h:188`), while the comment above it speaks of zeros |
| `WifiServes` | `ServerStarts` without `Deaf` | `ServerStarts` | the radio has connected again by itself when `wifi_connect` clears the flags; its request is refused, which `main` ignores, and no event comes any more: `main` waits for ever on a board that is online (`remote-signer-7002/src/main.c:403`) |
| `TouchscreenPrompts` | another property | `OwnPassword` | two empty passwords: both entries of `passwords[]` point to the same slot, and the first keystore is opened with what was typed for the second (`lib/httpRemote.h:992`). The prompt names the first keystore both times |
| `RemoteGoServes` | `ResponseFits` without `alone` | `ResponseFits` | two requests at once: one handler takes the other's lines, or switches the echo on before the other's command, whose echo holds `0x` and is taken for a signature (`cli/remote-go/main.go:242`); or a read error ends the scan, and a part of the list, or "not found" for a stored key, is answered (`cli/remote-go/main.go:266`) |
| `RemoteGoServes` | `HandlersEnd` without `Unheard` | `HandlersEnd` | a handler waits for ever when the key of a sign request has 96 characters that are not all digits |

And some are visible in an action of a model without a property of their own:

* `tfm_sign_pk` passes 65 bytes (`lib/secure_partition_interface.c:194`): a root of 64
  digits with its `0x` is cut, does not parse or parses to something else, and is
  signed all the same, since `msg_parse(...) != 1` is always true. `remote-go` sends
  every root with its `0x` (`cli/remote-go/main.go:253`; `Signed` in `Shell`).
* `verify`, given the key and signature of the example in `cli/README.md:22-27`,
  answers BLSTFAIL: 96, 64 and 192 bytes are passed, prefix included and
  without a terminator (`Verdicts` in `Shell`).
* A successful import prints nothing, while `lib/bls_hsm_ns.c:249` and
  `cli/README.md:9-10` promise the public key, and so does the import of a stored
  key, whose error is tested with the wrong sign (`ImportText` in `Shell`).
* `aes128ctr` returns nothing when a PSA call fails and leaves its key handle open:
  the keystore's secret key is then garbage, which is imported all the same
  (`lib/bls_hsm.h:370-430`; `garbled` in `RemoteSigner`). Behind it `private_key[64] = '\0'`
  writes one byte past its array (`lib/bls_hsm_ns.c:384`), which the model leaves out.
* `signResponseStr` computes the root of a request without `signingRoot`, throws it
  away, answers with an error and does not free the body, until the heap is full and
  requests with a `signingRoot` fail (`lib/httpRemote.h:484`; `leaked` in `RemoteSigner`).
  A body with neither `signingRoot` nor `type` makes it read from a null pointer
  (`lib/httpRemote.h:435`; `SignFaults`).
* `remote-signer/README.md:9` says an import takes a minute; the bridge closes
  the connection after three seconds (`bridge.go:53`; `TimeOut` in `Bridge`).
* In the WiFi build `InitZeroHashes` is in a comment
  (`remote-signer-7002/src/main.c:592`) and the table is all zeros (`filled` in
  `SigningRoot`).
* Over a list the code hashes in a limit, not the length SSZ asks for, and for
  attestations, deposits and exits the limit of the slashings (`htrList` in `Merkle`).
  Two attester slashings whose indices differ only by a zero at the end have the same
  root, which is why `RootsTellApart` leaves attester slashings out.
* `CoverDepth` of 2048 is 8 in place of 11; bit lists of 128 bytes or more are
  shortened, since their length is kept in a byte; the hashes of a deposit's proof are
  read as decimal numbers, and of the 16 bytes behind a public key one is cleared
  (`Regular`, `BitBytes`, `htrProof`, `htrBLSPubkey` in `SigningRoot`).
  `InitZeroHashes(64)` writes one row behind the table.
* WiFi: a connection that ends in `recv` is not closed; after four of them no socket is
  left (`RecvEnds` in `WifiServer`). A link that is lost while `main` serves is never
  noticed (`LoseLink`).
* When the host opens the port before the display thread is done, the first prompt finds
  no display, or loses its keyboard and never ends (`slow_boot` in `Touchscreen`).
* A serial error while the port is opened or written ends the whole process of
  `remote-go` (`SerialFails`).
* `cli/README.md:34` documents a command `getsize` that is not registered.

## 5. Proofs

`tlapm` checks every proof to its last leaf.

`KeystoreProofs`, for every `MAX_KEYSTORE_SIZE` greater than 0, every set of
scalars and every function `sk_to_pk`, from `KeystoreAssumption` (the storage
identifiers do not collide, the blank values are no keys):

* `TypeCorrect`, for every set of faults. `TypeOK` is inductive with the
  conjunct that `keystore_size > 0` between the two writes of `add_sk`.
* `SlotsArePaired` and `SignaturesMatchKeys`, for every set of faults. Neither is
  inductive: `PairInv` adds that the public keys are blank after a restart
  (otherwise `init` with an unreadable array could pair old public keys with
  blank secret keys), that during `add_sk` all slots but the last are paired,
  and that the last signature matches. `FoundInKeystore` (`pk_in_keystore`
  answers a slot in use that holds the key) rests on the well-foundedness of the
  natural numbers, since the operator chooses the least such slot.
* `AnsweredKeysAreDurable` and `KeystoreImplementsRegister`, while
  `StorageWorks` (no failing read or write; power losses, failing removals and
  RNG errors remain). `StoreInv` says how RAM and storage differ at each step:
  equal when a request is served, the array one key ahead of the number in
  `add_sk`, the number 0 in `reset`, and the keys distinct on both sides. The
  refinement proof maps `SaveSize` to `Add`, `Reset` to `Clear`, and every other
  step to a stutter.
* `ListedKeysAreUsable`, while `StorageWorks`. `ListedInv` adds which slots have
  their public key while `add_sk` is under way, and that RAM is empty without power.

`CallerProofs`, on top of it. The actions of `Shell` and `RemoteSigner` conjoin those of
`Keystore`, so `ShellImplementsKeystore` and `RemoteImplementsKeystore` (every step
is a step of `Keystore` or leaves it alone; this needs `PhaseInv` and `JobInv`, how far
the caller and the partition are) carry its theorems over to them. Proved of the
command line:

* `ShellTypeCorrect`, for every set of faults;
* `ShellSignsWhatWasAsked`, for every set of faults and of messages, those that are cut,
  prefixed, too short or do not parse among them: what happens to these is left open
  (section 4), but no message changes what is signed for a root of 64 digits;
* `KeygenShowsStoredKey`, while random numbers can be had (section 4 again);
* `ShownKeysDoSurvive`, under both that and `StorageWorks`. RAM, which the property
  speaks of, is blank after a loss of power, so `SurvivalInv` says it of protected
  storage, and that `reset` forgets what was shown before it erases;
* `SilentImportsAreStored`, while `StorageWorks`. `ShellImportInv` follows the key of
  an import from the last slot of `add_sk` to the list.

Of the HTTP handlers, for lists of keystores of every length:

* `ImportedKeysAreStored` and `PassedKeysAreStored`, under every fault, when the keystore
  gets full in the middle of a list and decryptions fail unnoticed too. `RemoteImportInv`
  says of each keystore that the import under way has passed that it is stored or
  `Excused`; a keystore that is full stays so until the import is answered, and
  `AddedIsStored` says that an import never takes a stored key away;
* `ConfirmedKeysSurvive`, while `StorageWorks`: `ConfirmedInv` says that confirmed keys
  are in protected storage, at every step of the partition.

`BridgeProofs`, for any set of connections, infinite ones included:

* `TypeCorrect`, for every set of failures, from what every action of a worker
  (`WorkerTypes`) and of the board (`BoardTypes`) leaves well-typed;
* `LineIsExclusive`, with both timers and every failure. `MutexInv` says who may hold
  the mutex (also the goroutine of a `Handler` that has given up), that a `Handler`
  that works holds it, and that a worker in use of the line has a `Handler` that works or
  has timed out;
* `ResponsesAreOwn`, with both timers and every failure: lock timeouts, hang-ups and
  refused requests never give a client the response to another. `LineInv` says that a
  worker on the line holds the mutex, that at most one message is on the line in both
  directions together, and that its worker waits. It is lost at an answer timeout or an
  error of the line, which is why the induction is on `Undisturbed => LineInv`, with
  the fact that a request that was left on the line stays left.

`RequestLoopProofs`, for buffers, limits and requests of every size, and every way of
cutting requests into reads:

* `LoopTypeCorrect`, for every set of failures. That `len` stays within the buffer is
  the hard part: `recv_tcp` answers -1 and the loop adds it, so that `parseRequest` is
  called with -1. `NegativeSize` says that it then never asks for more cells, which
  would make `len` -1: converted to `size_t`, -1 is above every limit and every expected
  length. There is one exception, a buffer that is full of headers without a
  `Content-Length`; `LoopInv` adds that `len` is `MAXBUF` as long as it is there. This
  needs the limit to be below the size of the buffer (300 against 32768 bytes in
  the code), which is an assumption of the module.
* `RequestsAreHandledWhole`, while no read fails and no client leaves in the middle of
  its request (`Reliable`), for requests that are `WellFormed`: a line, headers, an empty
  line, and as much of a body as `Content-Length` says. `ChainInv` looks at the cells in
  use and the stream as one sequence: wherever a request starts the rest of it follows, and then
  another start, although its front may have been thrown away anywhere. `AcceptedIsWhole`
  is what `parseRequest` then guarantees: it accepts nothing but a whole request at
  the front, and with a body nothing may be left behind it.
* `ClientsGetOwnResponses`, for requests that are `WellFormed`, drivers that take any
  number of cells at once, clients that stop waiting and bodies that are refused:
  a client is given bytes of the response to its own request only, and a whole response
  where the driver takes it at once. `OwnInv` says that a request in the buffer or the
  stream is the one of the client that waits, that what is on the wire and in the buffer
  are parts of one response to it (`Sending`), and that on WiFi nothing is left
  in the buffer once all of a connection was read; the last follows from
  `WholeIsNotWaitedFor`.

`WifiServerProofs`, for any clients, any number of sockets, and every mix of troubles:

* `ServesOnlyOnline`. `StartInv` and `LinkInv` say what `main` knows at each point, and
  that among the waiting events the one of the connection is before that of its
  address, as long as links are not lost;
* `ContextsAreAccounted`. `QueueInv` says that a client has at most one connection.

`TouchscreenProofs`, for requests of every length and every start-up:

* `PromptsAreFresh`. `SemInv` says that the semaphore is
  up only from a text to the end of its prompt, and that the display thread's late
  `k_sem_init` is over before the first prompt; `ListInv` and `PromptInv` relate
  `passwords[]` and the texts typed to the entries of the request.

`RemoteGoProofs`, for any set of clients, however far the board is behind and however
the scanner cuts its input:

* `GoTypeCorrect`, for every setting;
* `ResponsesFit`, with any number of requests at the same time, scans that end early and
  ports that fail: a handler that found the line settled, and that no other disturbed,
  answers with lines printed for its request. `ActiveInv` says of such a handler what
  stands between it and the answer of the board: at most the `echo on` of the handler
  before it, its own `echo off`, and its own command (`Before`), after which what is
  unread, in the port and in its scanner together, is a rest of the lines printed for that
  command (`KeysLeft`, `SignLeft`). The echo must be off when a signature command is
  reached: its echo has the `0x` that a handler looks for. `IdleInv` says that a port
  that is closed has no line left, however the handlers before it ended, so that
  disturbed handlers leave nothing to the next one that finds the line settled.

`SigningRootProofs`, for any set of requests with lists of every length, any number of
requests between restarts, on boards that fill the table and boards that do not.
`RequestAssumption` says that the lists of a block are
sequences and that numbers of bits are natural numbers.

* `TableStaysIntact`: as long as every list that was hashed has 0, 1, 2, 4, up to 256
  elements, every row of the table is what it was at the start (`TableAtStart`). The proof
  showed that a list of 512, 1024 or 2048 elements is padded although it need not be, since
  `CoverDepth` sees only the low byte of its length; no run has lists that long.
* `RootsAsSpecified`: as long as that holds and the table was filled, the root of a
  `Regular` request is that of the complete, zero-padded trees. The reference, `Tree`, is computed level by level;
  the code merges leaf after leaf and keeps in `tmp` what waits for a right neighbour.
  `Waiting` relates the two: after c leaves `tmp[j]` is, for every bit j that is set
  in c, the node of level j before the one with index c / 2^j. `OneLeaf` shows that
  `merge` takes it from c to c + 1 (it climbs to the lowest zero bit, `NextNumber`
  says what the increment does to the bits), `LeavesWaiting` goes over the list, and
  `MergedTree` over the levels up to the limit. `Regular` leaves out attester slashings,
  deposits, bit lists of 128 bytes or more, for which section 4 says what the code
  does, and lists beyond their limits, for which there is no tree.

  Both rest on inductions over the number of elements and of levels. The library's
  induction theorems cannot be used (see below), so `AllNumbers` states induction
  for sets of numbers, from the well-foundedness of the order, and `RecursionExists`
  proves that the recursive functions of `Merkle` exist, for the four kinds of step
  that `Rec` names.

The inductive invariants were model-checked on the runs' instances before they were
proved.

Only model-checked: all liveness (fairness is out of the prover's reach), and
`RootsTellApart`. That property also speaks of a table that was written over, and it needs
that no two of the requests share the names of their fields, which is so for the
requests of the run and is not a property of the code. Recursive operators and
induction theorems with an operator as a parameter are out of the prover's reach; the
proofs above use sets of numbers instead.

## 6. Not modelled

* The LTE modem, TLS credentials and LEDs: one pass of set-up calls, whose
  failures end `main` or are logged.
* The arithmetic of PBKDF2, AES-CTR, checksums, BLS and SHA-256, and the
  vendored parsers; only their outcomes appear.
* The secret digest request of the partition (a leftover of the sample it is based
  on), the free-memory request, and `get_keys`, which has no caller.
* The RAM-only keystore of the WiFi build: the functions of `Keystore` without their
  storage calls. Its behaviour is that of `Keystore` as long as power stays on, and a
  module of its own would repeat it.
* The functions of `merkleization.h` that nobody calls (`htru8`, `htru16`, `htru32`,
  `htrbool`, `htrSignedVoluntaryExit`) and the unfinished ones for later forks.
* LVGL, the Zephyr shell, the WiFi driver, and `zrnt`, which computes the roots of
  `remote-go`; they appear as what their callers rely on.
* Test drivers and the conversion script under `tools`.

## 7. Plan

Done, in this order: `Keystore` with `KeyRegister`, `Bridge`, `Shell`,
`RequestLoop`, `RemoteSigner`, the proofs about the keystore and the bridge;
`Merkle` and `SigningRoot`, `WifiServer`, `Touchscreen`, `RemoteGo`; the proofs about
`Shell`, `RemoteSigner`, `Touchscreen`, `WifiServer` and `RequestLoop`, then `RemoteGo` and
`SigningRoot`.

To do: a refinement from `RequestLoop` to the board of `Bridge`, so that
`BoardAnswers`, `BoardRefuses` and `BoardReadsTwo` are justified by the loop. What
`AcceptedIsWhole` and `WholeIsNotWaitedFor` prove is a part of it.
