----------------------------- MODULE MCDelivery -----------------------------
(* Instances of Delivery for TLC.                                          *)
EXTENDS Delivery, TLC

CONSTANTS u1, u2, e1, e2

\* A mention of both users, and an event without targets.
Mentions == (e1 :> <<u1, u2>>) @@ (e2 :> <<>>)

First == [event |-> e1, user |-> u1, delivery |-> 1]

\* The first user marks one or all.
Marks == {[op |-> "all", user |-> u1], [op |-> "one", user |-> u1, row |-> First]}

\* Pages of the first user.
Pages == [s \in Sockets |-> u1]

Symmetric == Permutations(Sockets) \cup Permutations(Handlers)
=============================================================================
