----------------------------- MODULE KeyRegister -----------------------------
(***************************************************************************)
(* What the keystore promises: a list of distinct secret keys that grows   *)
(* by one key at its end while there is room, that can be cleared as a     *)
(* whole, and that nothing else changes.  A power loss, a restart or an    *)
(* operation cut short in the middle must look like one of these steps or  *)
(* like nothing at all.                                                    *)
(***************************************************************************)
EXTENDS Naturals, Sequences

CONSTANTS Keys,      \* the secret keys that may be stored
          Capacity   \* how many of them fit

VARIABLE keys        \* the stored keys, oldest first

Init == keys = << >>

Add(k) ==
  /\ Len(keys) < Capacity
  /\ \A i \in 1 .. Len(keys) : keys[i] # k
  /\ keys' = Append(keys, k)

Clear == keys' = << >>

Next == Clear \/ \E k \in Keys : Add(k)

Spec == Init /\ [][Next]_keys
=============================================================================
