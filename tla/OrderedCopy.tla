----------------------------- MODULE OrderedCopy -----------------------------
(***************************************************************************)
(* What a copy fed by events promises: it shows the source's values one    *)
(* after another, in the one order in which the source took them, of       *)
(* whatever keys, skipping none, and is equal to the source when no value  *)
(* is pending.                                                             *)
(*                                                                         *)
(* Abstract: it is what the user_snap table of the thread service is to be *)
(* to the users table of the user service.                                 *)
(***************************************************************************)
EXTENDS Sequences

CONSTANTS
    Keys,
    Values,
    None        \* the value of what does not exist yet

VARIABLES
    source,     \* source[k], the original
    copy,       \* copy[k]
    pending     \* the values the copy has yet to show, with their keys

vars == <<source, copy, pending>>

Init ==
    /\ source = [k \in Keys |-> None]
    /\ copy = [k \in Keys |-> None]
    /\ pending = <<>>

\* The source takes a value, perhaps the one it has.
Change(k) ==
    \E v \in Values :
        /\ source' = [source EXCEPT ![k] = v]
        /\ pending' = Append(pending, [key |-> k, value |-> v])
        /\ UNCHANGED copy

\* The copy takes the next value, perhaps again.
Show ==
    /\ pending # <<>>
    /\ copy' = [copy EXCEPT ![Head(pending).key] = Head(pending).value]
    /\ UNCHANGED <<source, pending>>

\* What is shown is pending no more.
Settle ==
    /\ pending # <<>>
    /\ copy[Head(pending).key] = Head(pending).value
    /\ pending' = Tail(pending)
    /\ UNCHANGED <<source, copy>>

Next == (\E k \in Keys : Change(k)) \/ Show \/ Settle

Spec == Init /\ [][Next]_vars
=============================================================================
