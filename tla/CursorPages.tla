---------------------------- MODULE CursorPages ----------------------------
(***************************************************************************)
(* The lists of the thread service and the notification service, read page *)
(* by page: list_threads, list_top_level_comments, list_replies and        *)
(* list_notifications, with what their routes make of them.  A list keeps  *)
(* no state: the client sends back the created_at of the last item it got, *)
(* and the next page starts strictly after it.                             *)
(*                                                                         *)
(* Meanwhile items come and go.  created_at is taken from the clock by the *)
(* INSERT; the item is listed from the commit on, which may be much later, *)
(* after items that were created after it.                                 *)
(***************************************************************************)
EXTENDS Integers, FiniteSets, Sequences

CONSTANTS
    Items,      \* the threads, comments or notifications there can be
    Readers,    \* the clients who read the list
    Order,      \* Order[r]: "newest" first, or "oldest" (list_replies)
    Limit,      \* the size of a page
    Times,      \* bound: the clock's readings
    None        \* no cursor: the first page, or there is no next one

ASSUME CursorAssumption ==
    /\ Order \in [Readers -> {"newest", "oldest"}]
    /\ Limit \in Nat \ {0}
    /\ Times \subseteq Int
    /\ None \notin Int
    /\ IsFiniteSet(Items)

VARIABLES
    row,        \* row[i]: "none", "inserted" (not committed), "listed",
                \* "hidden" or "relisted"
    createdAt,  \* createdAt[i]: as the INSERT of i has set it
    pages,      \* pages[r]: what r has been shown, page by page
    cursor,     \* cursor[r]: next_cursor of the last page, if it has_more
    stable      \* history: what has been listed all the time since r began

items == <<row, createdAt>>
clients == <<pages, cursor, stable>>
pageVars == <<items, clients>>

PagesTypeOK ==
    /\ row \in [Items -> {"none", "inserted", "listed", "hidden", "relisted"}]
    /\ createdAt \in [Items -> Times \cup {None}]
    /\ pages \in [Readers -> Seq(SUBSET Items)]
    /\ cursor \in [Readers -> Times \cup {None}]
    /\ stable \in [Readers -> SUBSET Items]

PagesInit ==
    /\ row = [i \in Items |-> "none"]
    /\ createdAt = [i \in Items |-> None]
    /\ pages = [r \in Readers |-> <<>>]
    /\ cursor = [r \in Readers |-> None]
    /\ stable = [r \in Readers |-> {}]

-----------------------------------------------------------------------------
(* The items.                                                              *)

\* The rows that the WHERE of the list lets through, but for the cursor: those
\* with a status it includes, and the tag or search it asks for.
Listed == {i \in Items : row[i] \in {"listed", "relisted"}}

\* The INSERT: created_at is datetime.now(UTC).  Nothing keeps the clock from
\* giving the same time twice, or from being set back.
Insert(i) ==
    /\ row[i] = "none"
    /\ row' = [row EXCEPT ![i] = "inserted"]
    /\ \E t \in Times : createdAt' = [createdAt EXCEPT ![i] = t]
    /\ UNCHANGED clients

Commit(i) ==
    /\ row[i] = "inserted"
    /\ row' = [row EXCEPT ![i] = "listed"]
    /\ UNCHANGED <<createdAt, clients>>

RollBack(i) ==
    /\ row[i] = "inserted"
    /\ row' = [row EXCEPT ![i] = "none"]
    /\ createdAt' = [createdAt EXCEPT ![i] = None]
    /\ UNCHANGED clients

\* The item leaves the list: it is deleted, loses the tag, or gets read.
Hide(i) ==
    /\ i \in Listed
    /\ row' = [row EXCEPT ![i] = "hidden"]
    /\ stable' = [r \in Readers |-> stable[r] \ {i}]
    /\ UNCHANGED <<createdAt, pages, cursor>>

\* The item comes back: its author deletes what a moderator had removed, or
\* gives a thread its tag again.  created_at stays.
Relist(i) ==
    /\ row[i] = "hidden"
    /\ row' = [row EXCEPT ![i] = "relisted"]
    /\ UNCHANGED <<createdAt, clients>>

-----------------------------------------------------------------------------
(* The pages.                                                              *)

\* created_at t stands after s in the list of r.
ComesAfter(r, t, s) ==
    IF Order[r] = "newest" THEN t < s ELSE t > s

\* Mutant: a full page is taken for the last one.
HasMoreThanFull(P) == Cardinality(P) > Limit

\* _build_cursor_meta: a full page may have a next one.
HasMore(P) == Cardinality(P) = Limit

\* ORDER BY created_at LIMIT: P is as much of M as fits, and nothing left out
\* stands before something taken.  Ties are broken in any way.
FirstOf(r, P, M) ==
    /\ P \subseteq M
    /\ Cardinality(P) <= Limit
    /\ Cardinality(P) < Limit => P = M
    /\ \A i \in P, j \in M \ P : ~ ComesAfter(r, createdAt[i], createdAt[j])

\* next_cursor: the created_at of the last item of a page that may have a next.
NextCursor(r, P) ==
    IF HasMore(P)
    THEN \E i \in P : /\ \A j \in P : ~ ComesAfter(r, createdAt[j], createdAt[i])
                      /\ cursor' = [cursor EXCEPT ![r] = createdAt[i]]
    ELSE cursor' = [cursor EXCEPT ![r] = None]

\* r begins to read, without a cursor.
FirstPage(r) ==
    /\ cursor[r] = None
    /\ \E P \in SUBSET Listed :
          /\ FirstOf(r, P, Listed)
          /\ pages' = [pages EXCEPT ![r] = <<P>>]
          /\ NextCursor(r, P)
    /\ stable' = [stable EXCEPT ![r] = Listed]
    /\ UNCHANGED items

\* Mutant: the comparison with the cursor is not strict.
RestFrom(r) == {i \in Listed : ~ ComesAfter(r, cursor[r], createdAt[i])}

\* What is left for r behind its cursor.
Rest(r) == {i \in Listed : ComesAfter(r, createdAt[i], cursor[r])}

\* r goes on, with the cursor of its last page.
NextPage(r) ==
    /\ cursor[r] # None
    /\ \E P \in SUBSET Rest(r) :
          /\ FirstOf(r, P, Rest(r))
          /\ pages' = [pages EXCEPT ![r] = Append(@, P)]
          /\ NextCursor(r, P)
    /\ UNCHANGED <<items, stable>>

ItemsNext ==
    \E i \in Items : Insert(i) \/ Commit(i) \/ RollBack(i) \/ Hide(i) \/ Relist(i)

PagesNext ==
    \/ ItemsNext
    \/ \E r \in Readers : FirstPage(r) \/ NextPage(r)

PagesSpec == PagesInit /\ [][PagesNext]_pageVars

-----------------------------------------------------------------------------
(* Properties.                                                             *)

Shown(r) == UNION {pages[r][k] : k \in 1..Len(pages[r])}

\* Each page goes on strictly behind the one before it, whatever has come and
\* gone in between: no item is shown twice ("stable forward pagination").
PagesGoOn ==
    \A r \in Readers : \A k \in 1..Len(pages[r]), l \in 1..Len(pages[r]) :
        k < l => \A i \in pages[r][k], j \in pages[r][l] :
                    ComesAfter(r, createdAt[j], createdAt[i])

\* i was created at the very time at which r's page k ends.
TiedWithPage(r, i, k) ==
    \E j \in pages[r][k] : createdAt[j] = createdAt[i]

\* Who has read to the end has seen all that was there from the beginning to
\* the end, except what was created at the same time as another item shown and
\* fell behind the end of its page.
NothingIsSkipped ==
    \A r \in Readers : cursor[r] = None =>
        \A i \in stable[r] :
            i \in Shown(r) \/ \E k \in 1..Len(pages[r]) : TiedWithPage(r, i, k)

-----------------------------------------------------------------------------
(* The inductive invariant.                                                *)

\* Rows that were inserted have a created_at, and what is shown or stable has
\* been committed.
ItemsInPlace ==
    /\ \A i \in Items : row[i] # "none" => createdAt[i] \in Times
    /\ \A r \in Readers :
          /\ stable[r] \subseteq Listed
          /\ \A i \in Shown(r) : row[i] \in {"listed", "hidden", "relisted"}

\* The cursor stands at the end of what is shown, and nowhere without pages.
CursorInPlace ==
    \A r \in Readers :
        /\ pages[r] = <<>> => stable[r] = {}
        /\ cursor[r] # None =>
              /\ pages[r] # <<>>
              /\ \A i \in Shown(r) : ~ ComesAfter(r, createdAt[i], cursor[r])

\* The list has come to item i for reader r, or stopped in its midst: i is
\* shown, or fell behind the end of a page, or is behind the cursor.
Passed(r, i) ==
    \/ i \in Shown(r)
    \/ \E k \in 1..Len(pages[r]) : TiedWithPage(r, i, k)
    \/ cursor[r] # None /\ ComesAfter(r, createdAt[i], cursor[r])

StableArePassed == \A r \in Readers : \A i \in stable[r] : Passed(r, i)

PagesInv ==
    /\ PagesTypeOK
    /\ ItemsInPlace
    /\ CursorInPlace
    /\ PagesGoOn
    /\ StableArePassed
=============================================================================
