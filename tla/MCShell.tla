------------------------------ MODULE MCShell -------------------------------
(* Instances of Shell for TLC.                                             *)
EXTENDS Shell

CONSTANTS zero, a, b, c, d,        \* scalars
          pkZero, pkA, pkC, pkD    \* public keys

MCScalars == {zero, a, b, c, d}
MCPubKeys == {pkZero, pkA, pkC, pkD}

(* b is the scalar a plus the order of the group: another 32 bytes, the    *)
(* same public key.                                                        *)
MCsk_to_pk ==
  [s \in MCScalars |-> CASE s = zero -> pkZero [] s \in {a, b} -> pkA
                         [] s = c -> pkC [] s = d -> pkD]

PowerAndRemove == {"power", "remove"}
RngFails == {"rng"}
WriteFaults == {"set_keys", "set_size"}

\* A signing root, a short message, a root with its prefix as remote-go sends it, and
\* 64 characters that are not all digits.
AllTexts ==
  {Root, Text(FALSE, 10, TRUE), Text(TRUE, 64, TRUE), Text(FALSE, 64, FALSE)}
=============================================================================
