---------------------------- MODULE MCThreadPage ----------------------------
(* An instance of ThreadPage for TLC.                                      *)
EXTENDS ThreadPage, TLC

\* Comments, like threads and notifications, are listed newest first.
Orders == [r \in Readers |-> "newest"]

Symmetric == Permutations(Items)
=============================================================================
