---------------------------- MODULE MCDiscussion ----------------------------
(* Instances of Discussion for TLC: the requests that get sent. *)
EXTENDS Discussion, TLC

Req(op, e, role) == [op |-> op, entity |-> e, role |-> role, attempt |-> 1]

Creations == {Req("create", c, "author") : c \in Comments}
Edits == {Req("edit", e, "author") : e \in Entities}
Removals == {Req("delete", e, "moderator") : e \in Entities}
Deletions == {Req("delete", e, "author") : e \in Entities}
Strangers == {Req("edit", e, "moderator") : e \in Comments}
             \cup {Req("delete", e, "other") : e \in Comments}

OnComments(R) == {r \in R : r.entity \in Comments}

\* Every kind of request, each once.
EachChange == Creations \cup Edits \cup Removals \cup Deletions \cup Strangers

\* Creating and deleting comments: what may write more than one row.
CommentDeletions == OnComments(Creations \cup Removals \cup Deletions)

\* A moderator who may remove a comment more than once.
RepeatedRemovals == OnComments(Creations \cup Removals)

\* Comments are interchangeable.
Symmetric == Permutations(Comments)

\* With careless clients and no property about events, told plays no part.
WithoutEvents == <<rows, places, seen, pc>>
=============================================================================
