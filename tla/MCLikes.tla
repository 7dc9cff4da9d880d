------------------------------ MODULE MCLikes ------------------------------
(* Instances of Likes for TLC. *)
EXTENDS Likes, TLC

\* Users are interchangeable, and so are the attempts at the same request.
Symmetric == Permutations(Users) \cup Permutations(Attempts)
=============================================================================
