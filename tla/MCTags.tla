------------------------------- MODULE MCTags -------------------------------
(* An instance of Tags for TLC.                                            *)
EXTENDS Tags

CONSTANTS t1, t2, a, b

Request(op, t, given, tags) ==
    [op |-> op, thread |-> t, given |-> given, tags |-> tags, attempt |-> 1]

\* A new thread with two new tags against edits of an old one: with both tags,
\* with one of them, and without any.
Edits ==
    {Request("create", t2, TRUE, {a, b}), Request("edit", t1, TRUE, {a, b}),
     Request("edit", t1, TRUE, {b}), Request("edit", t1, FALSE, {})}
=============================================================================
