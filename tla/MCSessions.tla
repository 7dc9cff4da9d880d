----------------------------- MODULE MCSessions -----------------------------
(* Instances of Sessions and of Revocations for TLC: the devices are alike as well. *)
EXTENDS Revocations, TLC

CONSTANTS u1, d1, d2

\* Two devices of one user.
Shared == (d1 :> u1) @@ (d2 :> u1)

Symmetric ==
    Permutations(Tokens) \cup Permutations(Handlers) \cup Permutations(Devices)
=============================================================================
