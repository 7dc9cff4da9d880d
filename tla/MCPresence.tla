----------------------------- MODULE MCPresence -----------------------------
(* Instances of Presence for TLC.                                          *)
EXTENDS Presence, TLC

CONSTANTS u1, u2, s1, s2, s3

\* The first user opens two sockets, the second one.
Owners == [s \in Sockets |-> IF s = s3 THEN u2 ELSE u1]
=============================================================================
