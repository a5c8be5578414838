--------------------------- MODULE MCSigningRoot ----------------------------
(***************************************************************************)
(* Instances of SigningRoot with the limits of the code.                   *)
(***************************************************************************)
EXTENDS SigningRoot

Request(type, object) == [name |-> <<"request">>, type |-> type, object |-> object]
Object(name) == [name |-> <<name>>]

Att(name, bits) == [name |-> <<name>>, bits |-> bits, lead |-> 2]
Aggregate(bits) ==
  Request("aggregate_and_proof", [name |-> <<"agg">>, aggregate |-> Att("att", bits)])

Objects(name, n) == [i \in 1 .. n |-> Object(name \o ToString(i))]

EmptyBody ==
  [name |-> <<"body">>, proposer_slashings |-> << >>, attester_slashings |-> << >>,
   attestations |-> << >>, deposits |-> << >>, voluntary_exits |-> << >>]
Block(body) == Request("block", [name |-> <<"block">>, body |-> body])

Slashing(indices) ==
  [name |-> <<"slashing">>, indices_1 |-> indices, indices_2 |-> <<7>>]
Deposit(stack) == [name |-> <<"deposit">>, stack |-> stack]

(* Every type; aggregation bits in one, two, three and (shortened) more     *)
(* chunks, two of them of the same chunks and different lengths; blocks     *)
(* with lists whose lengths are 0, powers of two, and not.                  *)
SomeRequests ==
  {Request("aggregation_slot", Object("slot")),
   Request("attestation", Object("att")), Request("randao_reveal", Object("x")),
   Aggregate(0), Aggregate(9), Aggregate(10), Aggregate(300), Aggregate(600),
   Aggregate(1100),
   Block(EmptyBody),
   Block([EmptyBody EXCEPT !.proposer_slashings = Objects("p", 1)]),
   Block([EmptyBody EXCEPT !.proposer_slashings = Objects("p", 2),
                           !.voluntary_exits = Objects("e", 4)]),
   Block([EmptyBody EXCEPT !.voluntary_exits = Objects("e", 5)]),
   Block([EmptyBody EXCEPT !.attestations = <<Att("a", 9), Att("b", 300)>>]),
   Block([EmptyBody EXCEPT !.attestations = <<Att("a", 9), Att("b", 300), Att("c", 600)>>]),
   Block([EmptyBody EXCEPT !.attester_slashings = <<Slashing(<<5, 0>>)>>]),
   Block([EmptyBody EXCEPT !.attester_slashings = <<Slashing(<<1, 2, 3>>)>>]),
   Block([EmptyBody EXCEPT !.deposits = <<Deposit("old")>>])}
=============================================================================
