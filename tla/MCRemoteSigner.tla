--------------------------- MODULE MCRemoteSigner ---------------------------
(***************************************************************************)
(* Instance of RemoteSigner: at most two encrypted keystores in a request, *)
(* of three secret keys for two slots, and one secret key that a failed    *)
(* decryption leaves.                                                      *)
(***************************************************************************)
EXTENDS RemoteSigner, TLC

CONSTANTS s0, s1, s2, s3, p0, p1, p2, p3

PkOf == (s0 :> p0) @@ (s1 :> p1) @@ (s2 :> p2) @@ (s3 :> p3)

File(s, state) == [sk |-> s, state |-> state]

\* One key more than the slots, and one keystore of each other kind.
MixedFiles ==
  {File(s, "good") : s \in {s1, s2, s3}} \cup
  {File(s2, "malformed"), File(s2, "scrypt"), File(s1, "wrong")}

AllBodies == SignBodyKinds

PowerOnly == {"power"}
=============================================================================
