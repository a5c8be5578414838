----------------------------- MODULE MCKeystore -----------------------------
(* Instances of Keystore for TLC.                                          *)
EXTENDS Keystore

CONSTANTS zero, a, b, c,              \* scalars
          pkZero, pkA, pkC            \* public keys

MCScalars == {zero, a, b, c}
MCPubKeys == {pkZero, pkA, pkC}

(* b is the scalar a plus the order of the group: another 32 bytes, the    *)
(* same public key.  import_sk does not reduce what it is given.           *)
MCsk_to_pk ==
  [s \in MCScalars |-> CASE s = zero -> pkZero
                         [] s \in {a, b} -> pkA
                         [] s = c -> pkC]

AnyFault  == FaultKinds
PowerOnly == {"power"}
=============================================================================
