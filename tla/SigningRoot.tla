---------------------------- MODULE SigningRoot -----------------------------
(***************************************************************************)
(* The signing roots that the remote signer computes for requests without  *)
(* a signingRoot: getSR of httpRemote.h and the functions it calls in      *)
(* merkleization.h, which share the table zerohashes and leave it changed. *)
(*                                                                         *)
(* An object of a request is a record with a name, a path of strings; a    *)
(* field that is hashed as it stands is a leaf, known by its path.         *)
(* Every function takes the table and yields a root and the table after.   *)
(***************************************************************************)
EXTENDS Merkle

CONSTANTS
  Requests,     \* the bodies of sign requests
  NoRequest,    \* no request since the board started
  MaxServed,    \* bound: requests between two starts of the board
  DEPOSIT_CONTRACT_TREE_DEPTH   \* 32 in the code

ASSUME SigningRootAssumption ==
  /\ NoRequest \notin Requests
  /\ MaxServed \in Nat /\ DEPOSIT_CONTRACT_TREE_DEPTH \in 0 .. 32

\* The lists of a block are arrays of the JSON body; bits is a number of bits.
BlockLists(body) ==
  {body.proposer_slashings, body.attester_slashings, body.attestations, body.deposits,
   body.voluntary_exits}

ASSUME RequestAssumption ==
  \A request \in Requests :
    /\ request.type = "block" =>
         /\ \A list \in BlockLists(request.object.body) : list \in Seq(Range(list))
         /\ \A att \in Range(request.object.body.attestations) : att.bits \in Nat
    /\ request.type = "aggregate_and_proof" => request.object.aggregate.bits \in Nat

VARIABLES
  filled,       \* main fills the table: not so on the WiFi board, where the call
                \* of InitZeroHashes is commented out
  zerohashes,   \* the table
  asked,        \* the last request whose root was computed
  root,         \* its signing root
  served,       \* requests since the start
  odd,          \* history: since the start a list was hashed whose length
                \* is not a power of two
  roots         \* history: requests and their roots since the start

vars == <<filled, zerohashes, asked, root, served, odd, roots>>

MAX_PROPOSER_SLASHINGS == 16
MAX_ATTESTER_SLASHINGS == 2
MAX_ATTESTATIONS == 128
MAX_DEPOSITS == 16
MAX_VOLUNTARY_EXITS == 16
MAX_VALIDATORS_PER_COMMITTEE == 2048

Part(object, part) == [name |-> Append(object.name, part)]
Field(object, field) == Leaf(Append(object.name, field))

-----------------------------------------------------------------------------
\* A signature is hashed as three leaves.
htrBLSSignature(object, field, table) ==
  LET sig == Part(object, field)
  IN  hashsum(hashsum(Field(sig, "0"), Field(sig, "32")),
              hashsum(Field(sig, "64"), table[0]))

\* htrBLSPubkey clears one of the 16 bytes behind the key; of the others,
\* whatever was on the stack is hashed.
htrBLSPubkey(object, stack) ==
  hashsum(Field(object, "pubkey"), Field(Part(object, "pubkey_rest"), stack))

\* Faulty variant: the padding of the second level is taken from the first.
htrAttDatFlat(data, table) ==
  LET src == hashsum(Field(data, "source_epoch"), Field(data, "source_root"))
      tgt == hashsum(Field(data, "target_epoch"), Field(data, "target_root"))
  IN  hashsum(hashsum(hashsum(Field(data, "slot"), Field(data, "index")),
                      hashsum(Field(data, "beacon_block_root"), src)),
              hashsum(hashsum(tgt, table[0]), table[0]))

htrAttDat(data, table) ==
  LET src == hashsum(Field(data, "source_epoch"), Field(data, "source_root"))
      tgt == hashsum(Field(data, "target_epoch"), Field(data, "target_root"))
  IN  hashsum(hashsum(hashsum(Field(data, "slot"), Field(data, "index")),
                      hashsum(Field(data, "beacon_block_root"), src)),
              hashsum(hashsum(tgt, table[0]), table[1]))

(***************************************************************************)
(* htrAtt keeps the number of hexadecimal digits of the aggregation bits   *)
(* in one byte.  An attestation has as many bits as its field bits says;   *)
(* lead is the highest bit of the byte where a shortened text ends.        *)
(***************************************************************************)
BitBytes(att) == ((2 * (att.bits \div 8 + 1)) % 256) \div 2
WholeBits(att) == BitBytes(att) = att.bits \div 8 + 1

BitlistLen(att) ==
  IF WholeBits(att) THEN att.bits
  ELSE IF BitBytes(att) = 0 THEN 0
  ELSE 8 * (BitBytes(att) - 1) + att.lead

Chunks(bits) == (bits + 255) \div 256

Bits(att, table) ==
  LET Chunk(i, t) ==
        Result(Field(Part(att, IF WholeBits(att) THEN "bits"
                               ELSE ToString(BitlistLen(att))), ToString(i)), t)
  IN  MergeLeaves([i \in 1 .. Chunks(BitlistLen(att)) |-> i], table, Chunk,
                  CoverDepth(Chunks(MAX_VALIDATORS_PER_COMMITTEE)))

\* Faulty variant: the limit is hashed in, as for the other lists.
htrBitlistLimit(att, table) == MixIn(Bits(att, table), MAX_VALIDATORS_PER_COMMITTEE)

htrBitlist(att, table) == MixIn(Bits(att, table), BitlistLen(att))

\* Three children, of which the first is a list, which may change the table.
ListDataSignature(list, data, object) ==
  Result(hashsum(hashsum(list.root, htrAttDat(data, list.zerohashes)),
                 hashsum(htrBLSSignature(object, "signature", list.zerohashes),
                         list.zerohashes[0])),
         list.zerohashes)

htrAtt(att, table) == ListDataSignature(htrBitlist(att, table), Part(att, "data"), att)

IndexAttProof(aggandproof, att) ==
  Result(hashsum(hashsum(Field(aggandproof, "aggregator_index"), att.root),
                 hashsum(htrBLSSignature(aggandproof, "selection_proof", att.zerohashes),
                         att.zerohashes[0])),
         att.zerohashes)

htrAggAndProof(aggandproof, table) ==
  IndexAttProof(aggandproof, htrAtt(aggandproof.aggregate, table))

-----------------------------------------------------------------------------
htrEth1Data(eth1, table) ==
  hashsum(hashsum(Field(eth1, "deposit_root"), Field(eth1, "deposit_count")),
          hashsum(Field(eth1, "block_hash"), table[0]))

\* Five fields; the last one is the root of the body.
FiveFields(header, body, table) ==
  hashsum(hashsum(hashsum(Field(header, "slot"), Field(header, "proposer_index")),
                  hashsum(Field(header, "parent_root"), Field(header, "state_root"))),
          hashsum(hashsum(body, table[0]), table[1]))

htrSignedBeaconBlockHeader(header, table) ==
  hashsum(FiveFields(header, Field(header, "body_root"), table),
          htrBLSSignature(header, "signature", table))

htrProposerSlashing(slashing, table) ==
  Result(hashsum(htrSignedBeaconBlockHeader(Part(slashing, "signed_header_1"), table),
                 htrSignedBeaconBlockHeader(Part(slashing, "signed_header_2"), table)),
         table)

htru64list(list, max, table) ==
  LET Number(n, t) == Result(htru64(n), t)
  IN  htrList(list, table, Number, max, max)

htrIndexedAttestation(object, indices, table) ==
  ListDataSignature(htru64list(indices, MAX_VALIDATORS_PER_COMMITTEE, table),
                    object, object)

Pair(hash, second) == Result(hashsum(hash, second.root), second.zerohashes)

SecondAttestation(slashing, first) ==
  Pair(first.root, htrIndexedAttestation(Part(slashing, "attestation_2"),
                                         slashing.indices_2, first.zerohashes))

htrAttesterSlashing(slashing, table) ==
  SecondAttestation(slashing, htrIndexedAttestation(Part(slashing, "attestation_1"),
                                                    slashing.indices_1, table))

\* The hashes of a deposit's proof are read as decimal numbers: of "0x..."
\* that is the digit 0.
htrProof(table) ==
  htru64list([i \in 1 .. DEPOSIT_CONTRACT_TREE_DEPTH + 1 |-> 0],
             DEPOSIT_CONTRACT_TREE_DEPTH + 1, table)

htrDepositData(deposit, table) ==
  Result(hashsum(hashsum(htrBLSPubkey(deposit, deposit.stack),
                         Field(deposit, "withdrawal_credentials")),
                 hashsum(Field(deposit, "amount"),
                         htrBLSSignature(deposit, "signature", table))), table)

ProofAndData(proof, deposit) ==
  Pair(proof.root, htrDepositData(deposit, proof.zerohashes))

htrDeposit(deposit, table) == ProofAndData(htrProof(table), deposit)

htrVoluntaryExit(exit, table) ==
  Result(hashsum(Field(exit, "epoch"), Field(exit, "voluntary_exit")), table)

\* The lists of a block.  What is hashed in at the top is not their length
\* but a limit: their own, or for the last three that of the slashings.
htrProposerSlashings(list, table) ==
  htrList(list, table, htrProposerSlashing, MAX_PROPOSER_SLASHINGS, MAX_PROPOSER_SLASHINGS)
htrAttesterSlashings(list, table) ==
  htrList(list, table, htrAttesterSlashing, MAX_ATTESTER_SLASHINGS, MAX_ATTESTER_SLASHINGS)
htrAttestations(list, table) ==
  htrList(list, table, htrAtt, MAX_ATTESTATIONS, MAX_ATTESTER_SLASHINGS)
htrDeposits(list, table) ==
  htrList(list, table, htrDeposit, MAX_DEPOSITS, MAX_ATTESTER_SLASHINGS)
htrVoluntaryExits(list, table) ==
  htrList(list, table, htrVoluntaryExit, MAX_VOLUNTARY_EXITS, MAX_ATTESTER_SLASHINGS)

\* The five lists of a body, hashed one after the other.
Then(lists, next) ==
  [roots |-> Append(lists.roots, next.root), zerohashes |-> next.zerohashes]

AddAttesterSlashings(lists, body) ==
  Then(lists, htrAttesterSlashings(body.attester_slashings, lists.zerohashes))
AddAttestations(lists, body) ==
  Then(lists, htrAttestations(body.attestations, lists.zerohashes))
AddDeposits(lists, body) ==
  Then(lists, htrDeposits(body.deposits, lists.zerohashes))
AddVoluntaryExits(lists, body) ==
  Then(lists, htrVoluntaryExits(body.voluntary_exits, lists.zerohashes))

BodyLists(body, table) ==
  AddVoluntaryExits(
    AddDeposits(
      AddAttestations(
        AddAttesterSlashings(
          Then([roots |-> << >>], htrProposerSlashings(body.proposer_slashings, table)),
          body), body), body), body)

BodyRoot(randao, eth1, graffiti, lists) ==
  Result(hashsum(hashsum(hashsum(randao, eth1), hashsum(graffiti, lists.roots[1])),
                 hashsum(hashsum(lists.roots[2], lists.roots[3]),
                         hashsum(lists.roots[4], lists.roots[5]))),
         lists.zerohashes)

htrBeaconBlockBody(body, table) ==
  BodyRoot(htrBLSSignature(body, "randao_reveal", table),
           htrEth1Data(Part(body, "eth1_data"), table),
           Field(body, "graffiti"), BodyLists(body, table))

BlockRoot(block, body) ==
  Result(FiveFields(block, body.root, body.zerohashes), body.zerohashes)

htrBeaconBlock(block, table) == BlockRoot(block, htrBeaconBlockBody(block.body, table))

-----------------------------------------------------------------------------
(***************************************************************************)
(* getDomain and sr: a domain is four bytes for the type of the request    *)
(* and a part of the hash of the fork and the chain.                       *)
(***************************************************************************)
getDomain(request, domtype) ==
  LET fork == Part(request, "fork_info")
  IN  <<"domain", domtype, 0,
        hashsum(Field(fork, "current_version"), Field(fork, "genesis_validators_root"))>>

sr(request, htr, domtype) ==
  Result(hashsum(htr.root, getDomain(request, domtype)), htr.zerohashes)

Types == {"block", "attestation", "aggregation_slot", "aggregate_and_proof"}

getSR(request, table) ==
  CASE request.type = "block" ->
         sr(request, htrBeaconBlock(request.object, table), "beacon_proposer")
    [] request.type = "attestation" ->
         sr(request, Result(htrAttDat(request.object, table), table), "beacon_attester")
    [] request.type = "aggregation_slot" ->
         sr(request, Result(Field(request.object, "slot"), table), "selection_proof")
    [] request.type = "aggregate_and_proof" ->
         sr(request, htrAggAndProof(request.object, table), "aggregate_and_proof")

-----------------------------------------------------------------------------
\* InitZeroHashes fills the table from its first row; it also writes one row
\* behind the table, which no function reads.
InitZeroHashes == [j \in 0 .. 63 |-> Zeros(j)]

\* Whether a list is padded from zerohashes[0], which then holds the result: always
\* when it has more than 256 elements, of whose number CoverDepth sees the low byte.
PowersOfTwo == {2^d : d \in 0 .. 8}
OddLength(n) == n \notin PowersOfTwo \cup {0}

OddAtt(att) == OddLength(Chunks(BitlistLen(att)))

OddBody(body) ==
  \/ \E list \in {body.proposer_slashings, body.attester_slashings, body.attestations,
                   body.voluntary_exits} : OddLength(Len(list))
  \/ body.deposits # << >>
  \/ \E att \in Range(body.attestations) : OddAtt(att)
  \/ \E slashing \in Range(body.attester_slashings) :
       OddLength(Len(slashing.indices_1)) \/ OddLength(Len(slashing.indices_2))

HashesOddList(request) ==
  \/ request.type = "block" /\ OddBody(request.object.body)
  \/ request.type = "aggregate_and_proof" /\ OddAtt(request.object.aggregate)

\* What the board starts with: a static table is all zeros until it is filled.
TableAtStart == IF filled THEN InitZeroHashes ELSE [j \in 0 .. 63 |-> Zeros(0)]

Start ==
  /\ zerohashes' = TableAtStart
  /\ asked' = NoRequest
  /\ root' = Zeros(0)
  /\ served' = 0
  /\ odd' = FALSE
  /\ roots' = {}
  /\ UNCHANGED filled

Init ==
  /\ filled \in BOOLEAN
  /\ zerohashes = TableAtStart
  /\ asked = NoRequest
  /\ root = Zeros(0)
  /\ served = 0
  /\ odd = FALSE
  /\ roots = {}

\* signResponseStr computes the root of a request of one of the four types
\* (and answers with an error all the same).
ComputeRoot(request) ==
  /\ request.type \in Types
  /\ \E r \in {getSR(request, zerohashes)} :
       /\ root' = r.root
       /\ zerohashes' = r.zerohashes
       /\ roots' = roots \cup {<<request, r.root>>}
  /\ asked' = request
  /\ odd' = (odd \/ HashesOddList(request))
  /\ UNCHANGED filled

\* getSR answers -1 to another type.
RefuseType(request) ==
  /\ request.type \notin Types
  /\ UNCHANGED <<filled, zerohashes, asked, root, odd, roots>>

Sign ==
  /\ served < MaxServed
  /\ served' = served + 1
  /\ \E request \in Requests : ComputeRoot(request) \/ RefuseType(request)

PowerLoss == served > 0 /\ Start

Next == Sign \/ PowerLoss

Spec == Init /\ [][Next]_vars
-----------------------------------------------------------------------------
(***************************************************************************)
(* What the roots should be: of every container the tree of its fields, of *)
(* a list the tree that its limit asks for.  The fields of a voluntary     *)
(* exit, and the number that is hashed in over a list that is not empty,   *)
(* are those of the code: SSZ asks for the length there, and nothing in    *)
(* the repository to compare them with.  What is compared is the merging.  *)
(***************************************************************************)
Signature(object, field) ==
  LET sig == Part(object, field)
  IN  Container(<<Field(sig, "0"), Field(sig, "32"), Field(sig, "64")>>)

Checkpoint(data, epoch, hash) == Container(<<Field(data, epoch), Field(data, hash)>>)

AttestationData(data) ==
  Container(<<Field(data, "slot"), Field(data, "index"),
              Field(data, "beacon_block_root"),
              Checkpoint(data, "source_epoch", "source_root"),
              Checkpoint(data, "target_epoch", "target_root")>>)

Bitlist(att) ==
  hashsum(Tree([i \in 1 .. Chunks(att.bits) |-> Field(Part(att, "bits"), ToString(i))],
               Height(Chunks(MAX_VALIDATORS_PER_COMMITTEE))),
          htru64(att.bits))

Attestation(att) ==
  Container(<<Bitlist(att), AttestationData(Part(att, "data")), Signature(att, "signature")>>)

AggregateAndProof(agg) ==
  Container(<<Field(agg, "aggregator_index"), Attestation(agg.aggregate),
              Signature(agg, "selection_proof")>>)

Header(header, body) ==
  Container(<<Field(header, "slot"), Field(header, "proposer_index"),
              Field(header, "parent_root"), Field(header, "state_root"), body>>)

SignedHeader(header) ==
  Container(<<Header(header, Field(header, "body_root")), Signature(header, "signature")>>)

ProposerSlashing(slashing) ==
  Container(<<SignedHeader(Part(slashing, "signed_header_1")),
              SignedHeader(Part(slashing, "signed_header_2"))>>)

Exit(exit) == Container(<<Field(exit, "epoch"), Field(exit, "voluntary_exit")>>)

List(list, Root(_), limit, mixin) ==
  hashsum(Tree([i \in DOMAIN list |-> Root(list[i])], Height(limit)),
          htru64(IF list = << >> THEN 0 ELSE mixin))

\* Of a block without attester slashings and deposits.
Body(body) ==
  LET eth1 == Part(body, "eth1_data")
      none == List(<< >>, Exit, MAX_ATTESTER_SLASHINGS, 0)
  IN  Container(
        <<Signature(body, "randao_reveal"),
          Container(<<Field(eth1, "deposit_root"), Field(eth1, "deposit_count"),
                      Field(eth1, "block_hash")>>),
          Field(body, "graffiti"),
          List(body.proposer_slashings, ProposerSlashing, MAX_PROPOSER_SLASHINGS, 16),
          none,
          List(body.attestations, Attestation, MAX_ATTESTATIONS, 2),
          List(<< >>, Exit, MAX_DEPOSITS, 0),
          List(body.voluntary_exits, Exit, MAX_VOLUNTARY_EXITS, 2)>>)

Expected(request) ==
  LET object == request.object
  IN  CASE request.type = "block" -> Header(object, Body(object.body))
        [] request.type = "attestation" -> AttestationData(object)
        [] request.type = "aggregation_slot" -> Field(object, "slot")
        [] request.type = "aggregate_and_proof" -> AggregateAndProof(object)

Domain(type) ==
  CASE type = "block" -> "beacon_proposer"
    [] type = "attestation" -> "beacon_attester"
    [] type = "aggregation_slot" -> "selection_proof"
    [] type = "aggregate_and_proof" -> "aggregate_and_proof"

(***************************************************************************)
(* Left out: attester slashings (CoverDepth loses the high bits of their   *)
(* limit of 2048), deposits, aggregation bits of 128 bytes or more, and    *)
(* lists that are longer than their limits.                                *)
(***************************************************************************)
AllBits(request) ==
  CASE request.type = "aggregate_and_proof" -> WholeBits(request.object.aggregate)
    [] request.type = "block" ->
         \A att \in Range(request.object.body.attestations) : WholeBits(att)
    [] OTHER -> TRUE

RegularBody(body) ==
  /\ body.attester_slashings = << >> /\ body.deposits = << >>
  /\ Len(body.proposer_slashings) <= MAX_PROPOSER_SLASHINGS
  /\ Len(body.attestations) <= MAX_ATTESTATIONS
  /\ Len(body.voluntary_exits) <= MAX_VOLUNTARY_EXITS

Regular(request) ==
  /\ AllBits(request)
  /\ request.type = "block" => RegularBody(request.object.body)

-----------------------------------------------------------------------------
\* The functions share the table of merkleization.h: as long as no list had to be
\* padded from its first row, all of its rows still are what they were at the start.
TableIntact == ~odd => zerohashes = TableAtStart

\* As long as the table is what InitZeroHashes has made it, getSR computes the root
\* that the complete, zero-padded trees give, whatever was hashed before.
RootAsSpecified ==
  filled /\ asked # NoRequest /\ ~odd /\ Regular(asked) =>
    root = hashsum(Expected(asked), getDomain(asked, Domain(asked.type)))

\* No two requests have the same signing root (a signature made for one would
\* be good for the other), even with a table that has been written over, or never
\* filled.
RootsTellApart ==
  \A p, q \in roots : Regular(p[1]) /\ Regular(q[1]) /\ p[1] # q[1] => p[2] # q[2]

\* The same request always gets the same root: the comments of merge and of
\* the functions for lists promise zeros as padding.
RootsRepeat == \A p, q \in roots : p[1] = q[1] => p[2] = q[2]
=============================================================================
