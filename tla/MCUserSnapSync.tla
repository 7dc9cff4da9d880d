--------------------------- MODULE MCUserSnapSync ---------------------------
(* Instances of UserSnapSync for TLC.                                      *)
EXTENDS UserSnapSync, TLC

\* Users, and names, are alike.
Symmetric == Permutations(Users) \cup Permutations(Names) \cup Permutations(Handlers)
=============================================================================
