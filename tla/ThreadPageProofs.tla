-------------------------- MODULE ThreadPageProofs --------------------------
(***************************************************************************)
(* Theorems about CursorPages and ThreadPage, for any items, readers,      *)
(* orders, page sizes, clocks, queues and faults.                          *)
(***************************************************************************)
EXTENDS ThreadPage, TLAPS, FiniteSetTheorems

USE CursorAssumption, ThreadPageAssumption

Committed == {"listed", "hidden", "relisted"}

-----------------------------------------------------------------------------
(* The order of a list, and what a page takes of it.                       *)

\* ComesAfter orders the times of a list, strictly and totally.
LEMMA ListOrder ==
    ASSUME NEW r \in Readers, NEW s \in Int, NEW t \in Int, NEW u \in Int
    PROVE  /\ ~ ComesAfter(r, s, s)
           /\ ComesAfter(r, s, t) /\ ComesAfter(r, t, u) => ComesAfter(r, s, u)
           /\ s = t \/ ComesAfter(r, s, t) \/ ComesAfter(r, t, s)
  BY DEF ComesAfter

\* Read so: what stands after t stands after all that does not stand after t.
LEMMA AfterTheRest ==
    ASSUME NEW r \in Readers, NEW s \in Int, NEW t \in Int, NEW u \in Int,
           ComesAfter(r, s, t), ~ ComesAfter(r, u, t)
    PROVE  ComesAfter(r, s, u)
  BY ListOrder

\* A page that leaves something out is full, and says that there is more.
LEMMA FullPage ==
    ASSUME NEW r \in Readers, NEW M \in SUBSET Items, NEW P \in SUBSET M,
           FirstOf(r, P, M), P # M
    PROVE  HasMore(P) /\ P # {}
<1>1. IsFiniteSet(P) /\ Cardinality(P) \in Nat
  BY FS_Subset, FS_CardinalityType
<1>2. Cardinality(P) = Limit
  BY <1>1 DEF FirstOf
<1>3. P # {}
  BY <1>2, FS_EmptySet
<1>. QED BY <1>2, <1>3 DEF HasMore

\* What is in a page, or in the pages so far.
LEMMA ShownOfAppend ==
    ASSUME NEW s \in Seq(SUBSET Items), NEW P \in SUBSET Items
    PROVE  \A x : (\E k \in 1..Len(Append(s, P)) : x \in Append(s, P)[k])
                    <=> (\E k \in 1..Len(s) : x \in s[k]) \/ x \in P
<1>. DEFINE a == Append(s, P)
<1>1. /\ Len(s) \in Nat /\ Len(a) = Len(s) + 1 /\ a[Len(s) + 1] = P
      /\ \A i \in 1..Len(s) : a[i] = s[i]
  OBVIOUS
<1>. HIDE DEF a
<1>2. ASSUME NEW x, NEW k \in 1..Len(a), x \in a[k]
      PROVE  (\E l \in 1..Len(s) : x \in s[l]) \/ x \in P
  <2>1. k = Len(s) + 1 \/ k \in 1..Len(s)
    BY <1>1
  <2>. QED BY <1>1, <1>2, <2>1
<1>3. ASSUME NEW x, NEW k \in 1..Len(s), x \in s[k]
      PROVE  \E l \in 1..Len(a) : x \in a[l]
  <2>1. k \in 1..Len(a)
    BY <1>1
  <2>. QED BY <1>1, <1>3, <2>1
<1>4. ASSUME NEW x \in P
      PROVE  \E l \in 1..Len(a) : x \in a[l]
  <2>1. Len(s) + 1 \in 1..Len(a)
    BY <1>1
  <2>. QED BY <1>1, <2>1
<1>5. \A x : (\E k \in 1..Len(a) : x \in a[k]) <=> (\E k \in 1..Len(s) : x \in s[k]) \/ x \in P
  BY <1>2, <1>3, <1>4
<1>. QED BY <1>5 DEF a

\* What is shown is in some page, and was committed.
LEMMA ShownItems ==
    ASSUME PagesInv, NEW r \in Readers
    PROVE  /\ \A i : i \in Shown(r) <=> \E k \in 1..Len(pages[r]) : i \in pages[r][k]
           /\ \A i \in Shown(r) : i \in Items /\ row[i] \in Committed /\ createdAt[i] \in Times
<1>1. \A i : i \in Shown(r) <=> \E k \in 1..Len(pages[r]) : i \in pages[r][k]
  BY DEF Shown
<1>2. pages[r] \in Seq(SUBSET Items)
  BY DEF PagesInv, PagesTypeOK
<1>3. \A i \in Shown(r) : i \in Items
  BY <1>1, <1>2
<1>. QED BY <1>1, <1>3 DEF PagesInv, ItemsInPlace, Committed

-----------------------------------------------------------------------------
(* CursorPages.                                                            *)

LEMMA PagesInitHolds == PagesInit => PagesInv
<1>. SUFFICES ASSUME PagesInit PROVE PagesInv
  OBVIOUS
<1>. USE DEF PagesInit
<1>1. PagesTypeOK
  BY DEF PagesTypeOK
<1>2. \A r \in Readers : Len(pages[r]) = 0 /\ Shown(r) = {}
  BY DEF Shown
<1>3. ItemsInPlace
  BY <1>2 DEF ItemsInPlace
<1>4. CursorInPlace
  BY DEF CursorInPlace
<1>5. PagesGoOn
  BY <1>2 DEF PagesGoOn
<1>6. StableArePassed
  BY DEF StableArePassed
<1>. QED BY <1>1, <1>3, <1>4, <1>5, <1>6 DEF PagesInv

\* What a step on the items may do: it sets no created_at of a row that is
\* committed, and takes none of those back.
RowsGoOn ==
    /\ row' \in [Items -> {"none", "inserted", "listed", "hidden", "relisted"}]
    /\ createdAt' \in [Items -> Times \cup {None}]
    /\ \A i \in Items : row'[i] # "none" => createdAt'[i] \in Times
    /\ \A i \in Items : row[i] \in Committed =>
          row'[i] \in Committed /\ createdAt'[i] = createdAt[i]
    /\ stable' \in [Readers -> SUBSET Items]
    /\ \A r \in Readers : stable'[r] \subseteq stable[r] \cap Listed'
    /\ UNCHANGED <<pages, cursor>>

LEMMA ItemStepsGoOn ==
    ASSUME PagesInv, NEW i \in Items,
           Insert(i) \/ Commit(i) \/ RollBack(i) \/ Hide(i) \/ Relist(i)
    PROVE  RowsGoOn
<1>. USE DEF PagesInv, PagesTypeOK, ItemsInPlace, RowsGoOn, Committed, Listed, clients
<1>1. CASE Insert(i)
  BY <1>1 DEF Insert
<1>2. CASE Commit(i)
  BY <1>2 DEF Commit
<1>3. CASE RollBack(i)
  BY <1>3 DEF RollBack
<1>4. CASE Hide(i)
  BY <1>4 DEF Hide
<1>5. CASE Relist(i)
  BY <1>5 DEF Relist
<1>. QED BY <1>1, <1>2, <1>3, <1>4, <1>5

\* An item that is committed is as passed after such a step as before.
LEMMA PassedGoesOn ==
    ASSUME PagesInv, RowsGoOn, NEW r \in Readers,
           NEW i \in Items, row[i] \in Committed, Passed(r, i)
    PROVE  Passed(r, i)'
<1>1. /\ \A j \in Shown(r) : j \in Items /\ createdAt'[j] = createdAt[j]
      /\ \A k \in 1..Len(pages[r]) : pages[r][k] \subseteq Shown(r)
  BY ShownItems DEF RowsGoOn
<1>2. pages' = pages /\ cursor' = cursor /\ createdAt'[i] = createdAt[i] /\ Shown(r)' = Shown(r)
  BY DEF RowsGoOn, Shown
<1>3. CASE i \in Shown(r)
  BY <1>2, <1>3 DEF Passed
<1>4. CASE \E k \in 1..Len(pages[r]) : TiedWithPage(r, i, k)
  BY <1>1, <1>2, <1>4 DEF Passed, TiedWithPage
<1>5. CASE cursor[r] # None /\ ComesAfter(r, createdAt[i], cursor[r])
  BY <1>2, <1>5 DEF Passed, ComesAfter
<1>. QED BY <1>3, <1>4, <1>5 DEF Passed

LEMMA ItemStepsKeep ==
    ASSUME PagesInv, RowsGoOn
    PROVE  PagesInv'
<1>1. PagesTypeOK'
  BY DEF PagesInv, PagesTypeOK, RowsGoOn
<1>2. ASSUME NEW r \in Readers
      PROVE  /\ pages'[r] = pages[r] /\ cursor'[r] = cursor[r] /\ Shown(r)' = Shown(r)
             /\ \A j \in Shown(r) : /\ j \in Items /\ row[j] \in Committed
                                    /\ createdAt'[j] = createdAt[j]
             /\ \A k \in 1..Len(pages[r]) : pages[r][k] \subseteq Shown(r)
  BY ShownItems DEF RowsGoOn, Shown
<1>3. ItemsInPlace'
  BY <1>2 DEF PagesInv, ItemsInPlace, RowsGoOn, Committed
<1>4. CursorInPlace'
  BY <1>2 DEF PagesInv, CursorInPlace, RowsGoOn, ComesAfter
<1>5. PagesGoOn'
  <2>1. ASSUME NEW r \in Readers, NEW k \in 1..Len(pages[r]), NEW l \in 1..Len(pages[r]),
               k < l, NEW i \in pages[r][k], NEW j \in pages[r][l]
        PROVE  ComesAfter(r, createdAt'[j], createdAt'[i])
    <3>1. ComesAfter(r, createdAt[j], createdAt[i])
      BY <2>1 DEF PagesInv, PagesGoOn
    <3>2. createdAt'[j] = createdAt[j] /\ createdAt'[i] = createdAt[i]
      BY <1>2, <2>1
    <3>. QED BY <3>1, <3>2
  <2>. QED BY <1>2, <2>1 DEF PagesGoOn, ComesAfter
<1>6. StableArePassed'
  <2>1. ASSUME NEW r \in Readers, NEW i \in stable'[r]
        PROVE  Passed(r, i)'
    <3>1. i \in Items /\ i \in stable[r] /\ row[i] \in Committed
      BY <2>1 DEF PagesInv, PagesTypeOK, ItemsInPlace, RowsGoOn, Listed, Committed
    <3>. QED BY <3>1, PassedGoesOn DEF PagesInv, StableArePassed
  <2>. QED BY <2>1 DEF StableArePassed
<1>. QED BY <1>1, <1>3, <1>4, <1>5, <1>6 DEF PagesInv
-----------------------------------------------------------------------------
(* A page is read.                                                         *)

\* What both pages have in common: M is what is left to list, from the cursor on
\* if there is one, and P what the page takes of it.
Reads(r, M, P) ==
    /\ M \in SUBSET Listed /\ P \in SUBSET M
    /\ FirstOf(r, P, M)
    /\ NextCursor(r, P)
    /\ UNCHANGED items

\* The next cursor is the time of the last item of the page, and what the page
\* leaves out stands behind it, or was created at this time.
LEMMA PageEnds ==
    ASSUME PagesInv, NEW r \in Readers, NEW M, NEW P, Reads(r, M, P)
    PROVE  /\ cursor' \in [Readers -> Times \cup {None}]
           /\ \A q \in Readers \ {r} : cursor'[q] = cursor[q]
           /\ cursor'[r] # None => \E i \in P :
                 /\ cursor'[r] = createdAt[i]
                 /\ \A j \in P : ~ ComesAfter(r, createdAt[j], createdAt[i])
           /\ \A x \in M \ P : /\ cursor'[r] # None
                               /\ \/ \E i \in P : createdAt[i] = createdAt[x]
                                  \/ ComesAfter(r, createdAt[x], cursor'[r])
<1>1. \A i \in M : i \in Items /\ createdAt[i] \in Times /\ createdAt[i] \in Int /\ createdAt[i] # None
  BY DEF Reads, Listed, PagesInv, ItemsInPlace
<1>2. P \subseteq M /\ M \subseteq Items
  BY DEF Reads, Listed
<1>3. CASE ~ HasMore(P)
  <2>1. P = M
    BY <1>2, <1>3, FullPage DEF Reads
  <2>. QED BY <1>3, <2>1 DEF Reads, NextCursor, PagesInv, PagesTypeOK
<1>4. CASE HasMore(P)
  <2>1. PICK i \in P : /\ \A j \in P : ~ ComesAfter(r, createdAt[j], createdAt[i])
                       /\ cursor' = [cursor EXCEPT ![r] = createdAt[i]]
    BY <1>4 DEF Reads, NextCursor
  <2>2. cursor'[r] = createdAt[i] /\ createdAt[i] \in Times
    BY <1>1, <1>2, <2>1 DEF PagesInv, PagesTypeOK
  <2>3. ASSUME NEW x \in M \ P
        PROVE  createdAt[i] = createdAt[x] \/ ComesAfter(r, createdAt[x], createdAt[i])
    <3>1. ~ ComesAfter(r, createdAt[i], createdAt[x])
      BY <2>3 DEF Reads, FirstOf
    <3>. QED BY <1>1, <1>2, <3>1, ListOrder
  <2>. QED BY <1>1, <1>2, <2>1, <2>2, <2>3 DEF PagesInv, PagesTypeOK
<1>. QED BY <1>3, <1>4

\* The other readers' pages stay as they are.
LEMMA OthersStay ==
    ASSUME PagesInv, NEW r \in Readers, NEW q \in Readers \ {r},
           pages'[q] = pages[q], cursor'[q] = cursor[q], UNCHANGED items
    PROVE  /\ Shown(q)' = Shown(q)
           /\ \A i \in Items : Passed(q, i) => Passed(q, i)'
  BY DEF Shown, Passed, TiedWithPage, ComesAfter, items

\* What is behind the cursor before a page is read is passed afterwards.
LEMMA NextPagePasses ==
    ASSUME PagesInv, NEW r \in Readers, NextPage(r), NEW i \in Listed, Passed(r, i)
    PROVE  Passed(r, i)'
<1>1. PICK P \in SUBSET Rest(r) :
        /\ FirstOf(r, P, Rest(r))
        /\ pages' = [pages EXCEPT ![r] = Append(@, P)]
        /\ NextCursor(r, P)
  BY DEF NextPage
<1>2. Reads(r, Rest(r), P)
  BY <1>1 DEF NextPage, Reads, Rest
<1>3. /\ pages[r] \in Seq(SUBSET Items) /\ pages'[r] = Append(pages[r], P) /\ P \in SUBSET Items
      /\ Len(pages[r]) \in Nat /\ Len(pages'[r]) = Len(pages[r]) + 1
      /\ pages'[r][Len(pages[r]) + 1] = P
      /\ \A k \in 1..Len(pages[r]) : pages'[r][k] = pages[r][k]
  BY <1>1 DEF PagesInv, PagesTypeOK, Rest, Listed
<1>4. createdAt' = createdAt
  BY DEF NextPage, items
<1>5. \A x \in Shown(r) \cup P : x \in Shown(r)'
  BY <1>3, ShownOfAppend DEF Shown
<1>6. CASE i \in Shown(r)
  BY <1>5, <1>6 DEF Passed
<1>7. CASE \E k \in 1..Len(pages[r]) : TiedWithPage(r, i, k)
  <2>1. PICK k \in 1..Len(pages[r]) : TiedWithPage(r, i, k)
    BY <1>7
  <2>2. k \in 1..Len(pages'[r])
    BY <1>3
  <2>3. TiedWithPage(r, i, k)'
    BY <1>3, <1>4, <2>1 DEF TiedWithPage
  <2>. QED BY <2>2, <2>3 DEF Passed
<1>8. CASE cursor[r] # None /\ ComesAfter(r, createdAt[i], cursor[r])
  <2>1. i \in Rest(r)
    BY <1>8 DEF Rest
  <2>2. CASE i \in P
    BY <1>5, <2>2 DEF Passed
  <2>3. CASE i \notin P
    <3>1. /\ cursor'[r] # None
          /\ \/ \E j \in P : createdAt[j] = createdAt[i]
             \/ ComesAfter(r, createdAt[i], cursor'[r])
      BY <1>2, <2>1, <2>3, PageEnds
    <3>2. Len(pages[r]) + 1 \in 1..Len(pages'[r])
      BY <1>3
    <3>. QED BY <1>3, <1>4, <3>1, <3>2 DEF Passed, TiedWithPage, ComesAfter
  <2>. QED BY <2>2, <2>3
<1>. QED BY <1>6, <1>7, <1>8 DEF Passed

\* The second and later pages.
LEMMA NextPageKeeps ==
    ASSUME PagesInv, NEW r \in Readers, NextPage(r)
    PROVE  PagesInv'
<1>1. PICK P \in SUBSET Rest(r) :
        /\ FirstOf(r, P, Rest(r))
        /\ pages' = [pages EXCEPT ![r] = Append(@, P)]
        /\ NextCursor(r, P)
  BY DEF NextPage
<1>2. Reads(r, Rest(r), P)
  BY <1>1 DEF NextPage, Reads, Rest
<1>3. /\ pages[r] \in Seq(SUBSET Items) /\ pages'[r] = Append(pages[r], P) /\ P \in SUBSET Items
      /\ Len(pages[r]) \in Nat /\ Len(pages'[r]) = Len(pages[r]) + 1
      /\ pages'[r][Len(pages[r]) + 1] = P
      /\ \A k \in 1..Len(pages[r]) : pages'[r][k] = pages[r][k]
  BY <1>1 DEF PagesInv, PagesTypeOK, Rest, Listed
<1>4. UNCHANGED <<row, createdAt, stable>> /\ Listed' = Listed
  BY DEF NextPage, items, Listed
<1>5. \A x : x \in Shown(r)' <=> x \in Shown(r) \/ x \in P
  BY <1>3, ShownOfAppend DEF Shown
<1>6. \A q \in Readers \ {r} : pages'[q] = pages[q] /\ cursor'[q] = cursor[q] /\ Shown(q)' = Shown(q)
  BY <1>1, <1>2, PageEnds DEF PagesInv, PagesTypeOK, Shown
<1>7. /\ cursor[r] \in Int /\ \A x \in Shown(r) : createdAt[x] \in Int
      /\ \A x \in P : createdAt[x] \in Int /\ x \in Listed /\ ComesAfter(r, createdAt[x], cursor[r])
      /\ \A x \in Shown(r) : ~ ComesAfter(r, createdAt[x], cursor[r])
  BY ShownItems DEF NextPage, PagesInv, PagesTypeOK, CursorInPlace, ItemsInPlace, Rest, Listed
<1>8. PagesTypeOK'
  BY <1>1, <1>2, <1>3, <1>4, PageEnds DEF PagesInv, PagesTypeOK
<1>9. ItemsInPlace'
  <2>1. \A x \in P : row[x] \in {"listed", "relisted"}
    BY <1>7 DEF Listed
  <2>2. ASSUME NEW q \in Readers, NEW x \in Shown(q)'
        PROVE  row'[x] \in {"listed", "hidden", "relisted"}
    BY <1>4, <1>5, <1>6, <2>1, <2>2 DEF PagesInv, ItemsInPlace
  <2>. QED BY <1>4, <2>2 DEF PagesInv, ItemsInPlace
<1>10. CursorInPlace'
  <2>1. pages'[r] # <<>>
    BY <1>3
  <2>2. ASSUME cursor'[r] # None, NEW x \in Shown(r)'
        PROVE  ~ ComesAfter(r, createdAt[x], cursor'[r])
    <3>1. PICK i \in P : /\ cursor'[r] = createdAt[i]
                         /\ \A j \in P : ~ ComesAfter(r, createdAt[j], createdAt[i])
      BY <1>2, <2>2, PageEnds
    <3>2. CASE x \in P
      BY <3>1, <3>2
    <3>3. CASE x \in Shown(r)
      BY <1>7, <3>1, <3>3, ListOrder
    <3>. QED BY <1>5, <2>2, <3>2, <3>3
  <2>3. ASSUME NEW q \in Readers
        PROVE  (/\ pages[q] = <<>> => stable[q] = {}
                /\ cursor[q] # None =>
                      /\ pages[q] # <<>>
                      /\ \A i \in Shown(q) : ~ ComesAfter(q, createdAt[i], cursor[q]))'
    <3>1. CASE q = r
      BY <1>4, <2>1, <2>2, <3>1 DEF ComesAfter
    <3>2. CASE q # r
      BY <1>4, <1>6, <3>2 DEF PagesInv, CursorInPlace, ComesAfter
    <3>. QED BY <3>1, <3>2
  <2>. QED BY <2>3 DEF CursorInPlace
<1>11. PagesGoOn'
  <2>1. ASSUME NEW k \in 1..Len(pages'[r]), NEW l \in 1..Len(pages'[r]), k < l,
               NEW i \in pages'[r][k], NEW j \in pages'[r][l]
        PROVE  ComesAfter(r, createdAt[j], createdAt[i])
    <3>1. k \in 1..Len(pages[r]) /\ i \in pages[r][k] /\ i \in Shown(r)
      BY <1>3, <2>1, ShownItems
    <3>2. CASE l = Len(pages[r]) + 1
      <4>1. j \in P
        BY <1>3, <2>1, <3>2
      <4>. QED BY <1>7, <3>1, <4>1, AfterTheRest
    <3>3. CASE l # Len(pages[r]) + 1
      <4>1. l \in 1..Len(pages[r]) /\ j \in pages[r][l]
        BY <1>3, <2>1, <3>3
      <4>. QED BY <2>1, <3>1, <4>1 DEF PagesInv, PagesGoOn
    <3>. QED BY <3>2, <3>3
  <2>2. ASSUME NEW q \in Readers
        PROVE  (\A k \in 1..Len(pages[q]), l \in 1..Len(pages[q]) :
                  k < l => \A i \in pages[q][k], j \in pages[q][l] :
                              ComesAfter(q, createdAt[j], createdAt[i]))'
    <3>1. CASE q = r
      BY <1>4, <2>1, <3>1 DEF ComesAfter
    <3>2. CASE q # r
      BY <1>4, <1>6, <3>2 DEF PagesInv, PagesGoOn, ComesAfter
    <3>. QED BY <3>1, <3>2
  <2>. QED BY <2>2 DEF PagesGoOn
<1>12. StableArePassed'
  <2>1. ASSUME NEW q \in Readers, NEW i \in stable'[q]
        PROVE  Passed(q, i)'
    <3>1. i \in Items /\ i \in Listed /\ Passed(q, i)
      BY <1>4, <2>1 DEF PagesInv, PagesTypeOK, ItemsInPlace, StableArePassed
    <3>2. CASE q = r
      BY <3>1, <3>2, NextPagePasses
    <3>3. CASE q # r
      BY <1>6, <3>1, <3>3, OthersStay DEF NextPage
    <3>. QED BY <3>2, <3>3
  <2>. QED BY <2>1 DEF StableArePassed
<1>. QED BY <1>8, <1>9, <1>10, <1>11, <1>12 DEF PagesInv

\* The first page.
LEMMA FirstPageKeeps ==
    ASSUME PagesInv, NEW r \in Readers, FirstPage(r)
    PROVE  /\ PagesInv'
           /\ \A i \in Listed' : Passed(r, i)'
<1>1. PICK P \in SUBSET Listed :
        /\ FirstOf(r, P, Listed)
        /\ pages' = [pages EXCEPT ![r] = <<P>>]
        /\ NextCursor(r, P)
  BY DEF FirstPage
<1>2. Reads(r, Listed, P)
  BY <1>1 DEF FirstPage, Reads, Listed
<1>3. P \in SUBSET Items /\ pages'[r] = <<P>> /\ Len(pages'[r]) = 1 /\ pages'[r][1] = P
  BY <1>1 DEF PagesInv, PagesTypeOK, Listed
<1>4. UNCHANGED <<row, createdAt>> /\ Listed' = Listed /\ stable' = [stable EXCEPT ![r] = Listed]
  BY DEF FirstPage, items, Listed
<1>5. \A x : x \in Shown(r)' <=> x \in P
  BY <1>3 DEF Shown
<1>6. /\ stable'[r] = Listed
      /\ \A q \in Readers \ {r} : /\ pages'[q] = pages[q] /\ cursor'[q] = cursor[q]
                                 /\ Shown(q)' = Shown(q) /\ stable'[q] = stable[q]
  BY <1>1, <1>2, <1>4, PageEnds DEF PagesInv, PagesTypeOK, Shown
<1>7. PagesTypeOK'
  BY <1>1, <1>2, <1>3, <1>4, PageEnds DEF PagesInv, PagesTypeOK, Listed
<1>8. ItemsInPlace'
  BY <1>1, <1>4, <1>5, <1>6 DEF PagesInv, ItemsInPlace, Listed
<1>9. CursorInPlace'
  <2>1. pages'[r] # <<>>
    BY <1>3
  <2>2. ASSUME cursor'[r] # None, NEW x \in P
        PROVE  ~ ComesAfter(r, createdAt[x], cursor'[r])
    BY <1>2, <2>2, PageEnds
  <2>3. ASSUME NEW q \in Readers
        PROVE  (/\ pages[q] = <<>> => stable[q] = {}
                /\ cursor[q] # None =>
                      /\ pages[q] # <<>>
                      /\ \A i \in Shown(q) : ~ ComesAfter(q, createdAt[i], cursor[q]))'
    <3>1. CASE q = r
      BY <1>4, <1>5, <2>1, <2>2, <3>1 DEF ComesAfter
    <3>2. CASE q # r
      BY <1>4, <1>6, <3>2 DEF PagesInv, CursorInPlace, ComesAfter
    <3>. QED BY <3>1, <3>2
  <2>. QED BY <2>3 DEF CursorInPlace
<1>10. PagesGoOn'
  <2>1. ASSUME NEW q \in Readers
        PROVE  (\A k \in 1..Len(pages[q]), l \in 1..Len(pages[q]) :
                  k < l => \A i \in pages[q][k], j \in pages[q][l] :
                              ComesAfter(q, createdAt[j], createdAt[i]))'
    <3>1. CASE q = r
      BY <1>3, <3>1
    <3>2. CASE q # r
      BY <1>4, <1>6, <3>2 DEF PagesInv, PagesGoOn, ComesAfter
    <3>. QED BY <3>1, <3>2
  <2>. QED BY <2>1 DEF PagesGoOn
<1>11. ASSUME NEW i \in Listed
       PROVE  Passed(r, i)'
  <2>1. CASE i \in P
    BY <1>5, <2>1 DEF Passed
  <2>2. CASE i \notin P
    <3>1. /\ cursor'[r] # None
          /\ \/ \E j \in P : createdAt[j] = createdAt[i]
             \/ ComesAfter(r, createdAt[i], cursor'[r])
      BY <1>2, <2>2, PageEnds
    <3>2. 1 \in 1..Len(pages'[r])
      BY <1>3
    <3>. QED BY <1>3, <1>4, <3>1, <3>2 DEF Passed, TiedWithPage, ComesAfter
  <2>. QED BY <2>1, <2>2
<1>12. StableArePassed'
  <2>1. ASSUME NEW q \in Readers, NEW i \in stable'[q]
        PROVE  Passed(q, i)'
    <3>1. CASE q = r
      BY <1>6, <1>11, <2>1, <3>1
    <3>2. CASE q # r
      <4>1. i \in Items /\ Passed(q, i)
        BY <1>6, <2>1, <3>2 DEF PagesInv, PagesTypeOK, StableArePassed
      <4>. QED BY <1>6, <3>2, <4>1, OthersStay DEF FirstPage
    <3>. QED BY <3>1, <3>2
  <2>. QED BY <2>1 DEF StableArePassed
<1>. QED BY <1>4, <1>7, <1>8, <1>9, <1>10, <1>11, <1>12 DEF PagesInv

\* A list that is not read, and does not change, stays as it is.
LEMMA QuietPagesKeep ==
    ASSUME PagesInv, UNCHANGED pageVars
    PROVE  /\ PagesInv'
           /\ \A r \in Readers, i \in Items : Passed(r, i)' <=> Passed(r, i)
<1>. USE DEF pageVars, items, clients
<1>1. \A r \in Readers : Shown(r)' = Shown(r)
  BY DEF Shown
<1>2. \A r \in Readers, i \in Items : Passed(r, i)' <=> Passed(r, i)
  BY <1>1 DEF Passed, TiedWithPage, ComesAfter
<1>3. PagesTypeOK' /\ ItemsInPlace' /\ CursorInPlace' /\ PagesGoOn'
  BY <1>1 DEF PagesInv, PagesTypeOK, ItemsInPlace, CursorInPlace, PagesGoOn, ComesAfter, Listed
<1>4. StableArePassed'
  BY <1>2 DEF PagesInv, PagesTypeOK, StableArePassed
<1>. QED BY <1>2, <1>3, <1>4 DEF PagesInv

LEMMA PagesStepKeeps ==
    ASSUME PagesInv, [PagesNext]_pageVars
    PROVE  PagesInv'
  BY ItemStepsGoOn, ItemStepsKeep, FirstPageKeeps, NextPageKeeps, QuietPagesKeep
     DEF PagesNext, ItemsNext

\* PagesInv is inductive for any list.
THEOREM PagesInvariant == PagesSpec => []PagesInv
  BY PagesInitHolds, PagesStepKeeps, PTL DEF PagesSpec

\* Whatever comes and goes, no page shows again what an earlier one has shown.
THEOREM PagesNeverRepeat == PagesSpec => []PagesGoOn
<1>1. PagesInv => PagesGoOn
  BY DEF PagesInv
<1>. QED BY <1>1, PagesInvariant, PTL

\* Without a cursor there is nothing behind it.
LEMMA PagesInvSkipsNothing == PagesInv => NothingIsSkipped
  BY DEF PagesInv, StableArePassed, Passed, NothingIsSkipped

\* Who reads to the end has seen all that was listed all the time, but for ties at
\* the end of a page.
THEOREM ListsSkipNothing == PagesSpec => []NothingIsSkipped
  BY PagesInvSkipsNothing, PagesInvariant, PTL

-----------------------------------------------------------------------------
(* ThreadPage: the queue.                                                  *)

LEMMA Events ==
    ASSUME NEW i \in Items
    PROVE  /\ New(i) \in EventType /\ Deleted(i) \in EventType
           /\ New(i).item = i /\ Deleted(i).item = i
           /\ New(i).kind = "new" /\ Deleted(i).kind = "deleted"
           /\ \A j \in Items : /\ New(i) # Deleted(j)
                               /\ New(i) = New(j) => i = j
                               /\ Deleted(i) = Deleted(j) => i = j
  BY DEF New, Deleted, EventType

\* An event is one of these.
LEMMA EventKinds ==
    ASSUME NEW e \in EventType
    PROVE  e.item \in Items /\ (e = New(e.item) \/ e = Deleted(e.item))
  BY DEF New, Deleted, EventType

\* An event that is published is on its way or lost.
LEMMA PublishAdds ==
    ASSUME TypeOK, NEW e \in EventType, Publish(e)
    PROVE  /\ queue' \in Seq(EventType) /\ lost' \subseteq EventType
           /\ Queued' \cup lost' = Queued \cup lost \cup {e}
<1>1. CASE /\ queue' = Append(queue, e) /\ UNCHANGED lost
  <2>1. /\ Len(queue) \in Nat /\ Len(queue') = Len(queue) + 1 /\ queue'[Len(queue) + 1] = e
        /\ \A k \in 1..Len(queue) : queue'[k] = queue[k]
        /\ queue' \in Seq(EventType)
    BY <1>1 DEF TypeOK
  <2>2. ASSUME NEW k \in 1..Len(queue') PROVE queue'[k] \in Queued \cup {e}
    <3>1. k = Len(queue) + 1 \/ k \in 1..Len(queue)
      BY <2>1
    <3>. QED BY <2>1, <3>1 DEF Queued
  <2>3. ASSUME NEW k \in 1..Len(queue) PROVE queue[k] \in Queued'
    <3>1. k \in 1..Len(queue')
      BY <2>1
    <3>. QED BY <2>1, <3>1 DEF Queued
  <2>4. e \in Queued'
    <3>1. Len(queue) + 1 \in 1..Len(queue')
      BY <2>1
    <3>. QED BY <2>1, <3>1 DEF Queued
  <2>5. Queued' = Queued \cup {e}
    BY <2>2, <2>3, <2>4 DEF Queued
  <2>. QED BY <1>1, <2>1, <2>5 DEF TypeOK
<1>2. CASE lost' = lost \cup {e} /\ UNCHANGED queue
  BY <1>2 DEF Queued, TypeOK
<1>. QED BY <1>1, <1>2 DEF Publish

\* The head of the queue, and the rest of it.
LEMMA QueueParts ==
    ASSUME TypeOK, queue # <<>>, queue' = Tail(queue)
    PROVE  /\ Head(queue) \in EventType /\ queue' \in Seq(EventType)
           /\ Len(queue) \in Nat \ {0} /\ Head(queue) = queue[1]
           /\ Len(queue') = Len(queue) - 1
           /\ \A k \in 1..(Len(queue) - 1) : queue'[k] = queue[k + 1]
           /\ Queued = {Head(queue)} \cup Queued'
<1>1. /\ Head(queue) \in EventType /\ queue' \in Seq(EventType)
      /\ Len(queue) \in Nat \ {0} /\ Head(queue) = queue[1]
      /\ Len(queue') = Len(queue) - 1
      /\ \A k \in 1..(Len(queue) - 1) : queue'[k] = queue[k + 1]
  BY DEF TypeOK
<1>2. ASSUME NEW k \in 1..Len(queue) PROVE queue[k] \in {Head(queue)} \cup Queued'
  <2>1. CASE k = 1
    BY <1>1, <2>1
  <2>2. CASE k # 1
    <3>1. k - 1 \in 1..Len(queue') /\ queue'[k - 1] = queue[k]
      BY <1>1, <2>2
    <3>. QED BY <3>1 DEF Queued
  <2>. QED BY <2>1, <2>2
<1>3. ASSUME NEW k \in 1..Len(queue') PROVE queue'[k] \in Queued
  <2>1. k + 1 \in 1..Len(queue) /\ queue'[k] = queue[k + 1]
    BY <1>1
  <2>. QED BY <2>1 DEF Queued
<1>4. Head(queue) \in Queued
  BY <1>1 DEF Queued
<1>5. Queued = {Head(queue)} \cup Queued'
  BY <1>2, <1>3, <1>4 DEF Queued
<1>. QED BY <1>1, <1>5

-----------------------------------------------------------------------------
(* ThreadPage: every step is one of the list, or leaves it alone.          *)

LEMMA NextIsPagesStep ==
    ASSUME [Next]_vars
    PROVE  [PagesNext]_pageVars
<1>1. ASSUME NEW i \in Items,
             \/ CreateComment(i) \/ PublishComment(i) \/ CommitComment(i) \/ CommentFails(i)
             \/ DeleteComment(i) \/ CommitDeletion(i) \/ DeletionFails(i)
      PROVE  [PagesNext]_pageVars
  BY <1>1 DEF CreateComment, PublishComment, CommitComment, CommentFails, DeleteComment,
     CommitDeletion, DeletionFails, PagesNext, ItemsNext
<1>2. ASSUME HandleMessage PROVE [PagesNext]_pageVars
  BY <1>2 DEF HandleMessage
<1>3. ASSUME NEW r \in Readers, Join(r) \/ Open(r) \/ More(r)
      PROVE  [PagesNext]_pageVars
  BY <1>3 DEF Join, Open, More, PagesNext
<1>. QED BY <1>1, <1>2, <1>3 DEF Next, ServiceNext, vars

\* The page of a thread reads its comments as any list is read.
THEOREM ThreadPageReadsPages == Spec => PagesSpec
<1>1. Init => PagesInit
  BY DEF Init
<1>. QED BY <1>1, NextIsPagesStep, PTL DEF Spec, PagesSpec

\* What is listed and passed stays so, as long as the reader goes on.
LEMMA PassedStays ==
    ASSUME PagesInv, NEW r \in Readers, NEW i \in Listed, Passed(r, i),
           RowsGoOn \/ UNCHANGED pageVars \/ NextPage(r)
    PROVE  Passed(r, i)'
  BY PassedGoesOn, QuietPagesKeep, NextPagePasses DEF Listed, Committed

-----------------------------------------------------------------------------
(* ThreadPage: the thread service.                                         *)

\* The steps of a creation that only concern its row.
LEMMA RowStepsKeep ==
    ASSUME ThreadPageInv, NEW c \in Items,
           CreateComment(c) \/ CommitComment(c) \/ CommentFails(c)
    PROVE  ThreadPageInv'
<1>. USE DEF ThreadPageInv, pageState, events, screens
<1>1. /\ UNCHANGED <<masked, told, deleting, queue, lost, inRoom, clear, known, missed>>
      /\ RowsGoOn
      /\ \A i \in Items \ {c} : row'[i] = row[i]
      /\ row[c] \in {"none", "inserted"}
      /\ \/ row'[c] = "inserted" /\ c \notin told
         \/ row[c] = "inserted" /\ row'[c] = "listed" /\ c \in told
         \/ row'[c] = "none"
  <2>1. RowsGoOn
    BY ItemStepsGoOn DEF CreateComment, CommitComment, CommentFails
  <2>. QED
    BY <2>1 DEF CreateComment, CommitComment, CommentFails, Insert, Commit, RollBack,
       TypeOK, PagesTypeOK
<1>2. PagesInv'
  BY <1>1, ItemStepsKeep
<1>3. pages' = pages /\ \A r \in Readers : Shown(r)' = Shown(r)
  BY <1>1 DEF RowsGoOn, Shown
<1>4. Queued' = Queued
  BY <1>1 DEF Queued
<1>5. \A i \in Items : i \in Gone' => i \in Gone
  BY <1>1 DEF Gone
<1>6. TypeOK'
  BY <1>1, <1>2 DEF TypeOK, PagesInv
<1>7. PageInPlace'
  BY <1>1, <1>3 DEF PageInPlace
<1>8. AnnouncedReaches'
  BY <1>1, <1>4 DEF AnnouncedReaches, TypeOK
<1>9. ListedReaches'
  <2>1. ASSUME NEW r \in Readers, pages'[r] # <<>>, NEW i \in Items, row'[i] = "listed"
        PROVE  \/ i \in known'[r] \/ New(i) \in Queued' \cup lost' \cup missed'[r]
               \/ Passed(r, i)'
    <3>1. CASE i = c
      BY <1>1, <1>3, <1>4, <2>1, <3>1 DEF AnnouncedReaches, PageInPlace
    <3>2. CASE i # c
      <4>1. i \in Listed
        BY <1>1, <2>1, <3>2 DEF Listed
      <4>2. Passed(r, i) => Passed(r, i)'
        BY <1>1, <4>1, PassedStays
      <4>. QED BY <1>1, <1>3, <1>4, <2>1, <3>2, <4>2 DEF ListedReaches
    <3>. QED BY <3>1, <3>2
  <2>. QED BY <2>1 DEF ListedReaches
<1>10. InOrder'
  BY <1>1, <1>5 DEF InOrder
<1>11. DeletionReaches'
  BY <1>1, <1>4, <1>5 DEF DeletionReaches, TypeOK
<1>. QED BY <1>2, <1>6, <1>7, <1>8, <1>9, <1>10, <1>11

\* The creation is announced.
LEMMA PublishCommentKeeps ==
    ASSUME ThreadPageInv, NEW c \in Items, PublishComment(c)
    PROVE  ThreadPageInv'
<1>. USE DEF ThreadPageInv, pageState, events, screens
<1>1. /\ UNCHANGED pageVars /\ UNCHANGED <<masked, deleting, inRoom, clear, known, missed>>
      /\ UNCHANGED <<row, createdAt, pages, cursor, stable>>
      /\ row[c] = "inserted" /\ told' = told \cup {c} /\ Publish(New(c))
  BY DEF PublishComment, pageVars, items, clients
<1>2. /\ queue' \in Seq(EventType) /\ lost' \subseteq EventType
      /\ Queued' \cup lost' = Queued \cup lost \cup {New(c)}
  BY <1>1, PublishAdds, Events
<1>3. PagesInv' /\ \A r \in Readers, i \in Items : Passed(r, i)' <=> Passed(r, i)
  BY <1>1, QuietPagesKeep
<1>4. \A r \in Readers : Shown(r)' = Shown(r)
  BY <1>1 DEF Shown
<1>5. Gone' = Gone
  BY <1>1 DEF Gone
<1>6. TypeOK'
  BY <1>1, <1>2, <1>3 DEF TypeOK, PagesInv
<1>7. PageInPlace'
  BY <1>1, <1>4 DEF PageInPlace
<1>8. AnnouncedReaches'
  BY <1>1, <1>2 DEF AnnouncedReaches
<1>9. ListedReaches'
  BY <1>1, <1>2, <1>3 DEF ListedReaches
<1>10. InOrder'
  <2>0. ~ (c \in Gone \/ deleting[c] # "no")
    BY <1>1 DEF Gone, PageInPlace
  <2>1. ASSUME NEW k \in 1..Len(queue'), NEW i \in Items,
               queue'[k] = New(i), i \in Gone \/ deleting[i] # "no"
        PROVE  Deleted(i) \in lost' \/ \E l \in (k + 1)..Len(queue') : queue'[l] = Deleted(i)
    <3>0. i # c
      BY <2>0, <2>1
    <3>1. CASE queue' = Append(queue, New(c)) /\ lost' = lost
      <4>1. /\ Len(queue) \in Nat /\ Len(queue') = Len(queue) + 1
            /\ queue'[Len(queue) + 1] = New(c)
            /\ \A l \in 1..Len(queue) : queue'[l] = queue[l]
        BY <3>1, Events DEF TypeOK
      <4>2. k \in 1..Len(queue) /\ queue[k] = New(i)
        BY <2>1, <3>0, <4>1, Events
      <4>3. Deleted(i) \in lost \/ \E l \in (k + 1)..Len(queue) : queue[l] = Deleted(i)
        BY <2>1, <4>2 DEF InOrder
      <4>4. \A l \in (k + 1)..Len(queue) : l \in (k + 1)..Len(queue') /\ l \in 1..Len(queue)
        BY <4>1, <4>2
      <4>. QED BY <3>1, <4>1, <4>3, <4>4
    <3>2. CASE queue' = queue /\ lost \subseteq lost'
      BY <2>1, <3>2 DEF InOrder
    <3>. QED BY <1>1, <3>1, <3>2 DEF Publish
  <2>. QED BY <1>1, <1>5, <2>1 DEF InOrder
<1>11. DeletionReaches'
  BY <1>1, <1>2, <1>5 DEF DeletionReaches
<1>. QED BY <1>3, <1>6, <1>7, <1>8, <1>9, <1>10, <1>11

\* A deletion is written and announced.
LEMMA DeleteCommentKeeps ==
    ASSUME ThreadPageInv, NEW c \in Items, DeleteComment(c)
    PROVE  ThreadPageInv'
<1>. USE DEF ThreadPageInv, pageState, events, screens
<1>1. /\ UNCHANGED pageVars /\ UNCHANGED <<masked, told, inRoom, clear, known, missed>>
      /\ UNCHANGED <<row, createdAt, pages, cursor, stable>>
      /\ row[c] \in {"listed", "hidden", "relisted"} /\ Publish(Deleted(c))
      /\ \A i \in Items \ {c} : deleting'[i] = deleting[i]
      /\ deleting' \in [Items -> {"no", "masking", "hiding"}]
  BY DEF DeleteComment, pageVars, items, clients, TypeOK
<1>2. /\ queue' \in Seq(EventType) /\ lost' \subseteq EventType
      /\ Queued' \cup lost' = Queued \cup lost \cup {Deleted(c)}
  BY <1>1, PublishAdds, Events
<1>3. PagesInv' /\ \A r \in Readers, i \in Items : Passed(r, i)' <=> Passed(r, i)
  BY <1>1, QuietPagesKeep
<1>4. \A r \in Readers : Shown(r)' = Shown(r)
  BY <1>1 DEF Shown
<1>5. Gone' = Gone
  BY <1>1 DEF Gone
<1>6. TypeOK'
  BY <1>1, <1>2, <1>3 DEF TypeOK, PagesInv
<1>7. PageInPlace'
  BY <1>1, <1>4 DEF PageInPlace
<1>8. AnnouncedReaches'
  BY <1>1, <1>2 DEF AnnouncedReaches
<1>9. ListedReaches'
  BY <1>1, <1>2, <1>3 DEF ListedReaches
<1>10. InOrder'
  <2>1. ASSUME NEW k \in 1..Len(queue'), NEW i \in Items,
               queue'[k] = New(i), i \in Gone \/ deleting'[i] # "no"
        PROVE  Deleted(i) \in lost' \/ \E l \in (k + 1)..Len(queue') : queue'[l] = Deleted(i)
    <3>1. CASE queue' = Append(queue, Deleted(c)) /\ lost' = lost
      <4>1. /\ Len(queue) \in Nat /\ Len(queue') = Len(queue) + 1
            /\ queue'[Len(queue) + 1] = Deleted(c)
            /\ \A l \in 1..Len(queue) : queue'[l] = queue[l]
        BY <3>1, Events DEF TypeOK
      <4>2. k \in 1..Len(queue) /\ queue[k] = New(i)
        BY <2>1, <4>1, Events
      <4>3. CASE i = c
        <5>1. Len(queue) + 1 \in (k + 1)..Len(queue')
          BY <4>1, <4>2
        <5>. QED BY <4>1, <4>3, <5>1
      <4>4. CASE i # c
        <5>1. Deleted(i) \in lost \/ \E l \in (k + 1)..Len(queue) : queue[l] = Deleted(i)
          BY <1>1, <2>1, <4>2, <4>4 DEF InOrder
        <5>2. \A l \in (k + 1)..Len(queue) : l \in (k + 1)..Len(queue') /\ l \in 1..Len(queue)
          BY <4>1, <4>2
        <5>. QED BY <3>1, <4>1, <5>1, <5>2
      <4>. QED BY <4>3, <4>4
    <3>2. CASE queue' = queue /\ lost' = lost \cup {Deleted(c)}
      <4>1. CASE i = c
        BY <3>2, <4>1
      <4>2. CASE i # c
        BY <1>1, <2>1, <3>2, <4>2 DEF InOrder
      <4>. QED BY <4>1, <4>2
    <3>. QED BY <1>1, <3>1, <3>2 DEF Publish
  <2>. QED BY <1>5, <2>1 DEF InOrder
<1>11. DeletionReaches'
  <2>1. ASSUME NEW r \in Readers, NEW i \in clear[r], i \in Gone \/ deleting'[i] # "no"
        PROVE  Deleted(i) \in Queued' \cup lost' \cup missed[r]
    <3>1. i \in Items
      BY DEF TypeOK
    <3>2. CASE i = c
      BY <1>2, <3>2
    <3>3. CASE i # c
      BY <1>1, <1>2, <2>1, <3>1, <3>3 DEF DeletionReaches
    <3>. QED BY <3>2, <3>3
  <2>. QED BY <1>1, <1>5, <2>1 DEF DeletionReaches
<1>. QED BY <1>3, <1>6, <1>7, <1>8, <1>9, <1>10, <1>11

\* A deletion is committed, or comes to nothing.
LEMMA EndDeletionKeeps ==
    ASSUME ThreadPageInv, NEW c \in Items, CommitDeletion(c) \/ DeletionFails(c)
    PROVE  ThreadPageInv'
<1>. USE DEF ThreadPageInv, pageState, events, screens
<1>0. row[c] \in {"listed", "hidden", "relisted"}
  BY DEF CommitDeletion, DeletionFails, PageInPlace
<1>1. /\ UNCHANGED <<told, queue, lost, inRoom, clear, known, missed>>
      /\ RowsGoOn \/ UNCHANGED pageVars
      /\ deleting' = [deleting EXCEPT ![c] = "no"]
      /\ masked' \in {masked, masked \cup {c}}
      /\ \A i \in Items \ {c} : row'[i] = row[i]
      /\ row'[c] \in {"hidden", "relisted", row[c]}
      /\ c \in Gone' => c \in Gone \/ deleting[c] # "no"
      /\ UNCHANGED pages
  <2>1. CASE DeletionFails(c)
    BY <2>1 DEF DeletionFails, Gone, pageVars, items, clients
  <2>2. CASE CommitDeletion(c) /\ UNCHANGED pageVars
    BY <2>2 DEF CommitDeletion, Gone, Hide, pageVars, items, clients
  <2>3. CASE CommitDeletion(c) /\ (Relist(c) \/ Hide(c))
    <3>1. RowsGoOn
      BY <2>3, ItemStepsGoOn
    <3>. QED BY <2>3, <3>1 DEF CommitDeletion, Gone, Relist, Hide, clients, TypeOK, PagesTypeOK
  <2>. QED BY <2>1, <2>2, <2>3 DEF CommitDeletion
<1>2. PagesInv'
  BY <1>1, ItemStepsKeep, QuietPagesKeep
<1>3. \A r \in Readers : Shown(r)' = Shown(r)
  BY <1>1 DEF Shown
<1>4. Queued' = Queued
  BY <1>1 DEF Queued
<1>5. \A i \in Items : i \in Gone' \/ deleting'[i] # "no" => i \in Gone \/ deleting[i] # "no"
  BY <1>1 DEF Gone, TypeOK
<1>6. TypeOK'
  BY <1>1, <1>2 DEF TypeOK, PagesInv
<1>7. PageInPlace'
  BY <1>0, <1>1, <1>3 DEF PageInPlace, TypeOK
<1>8. AnnouncedReaches'
  BY <1>0, <1>1, <1>4 DEF AnnouncedReaches, TypeOK
<1>9. ListedReaches'
  <2>1. ASSUME NEW r \in Readers, pages'[r] # <<>>, NEW i \in Items, row'[i] = "listed"
        PROVE  \/ i \in known'[r] \/ New(i) \in Queued' \cup lost' \cup missed'[r]
               \/ Passed(r, i)'
    <3>1. row[i] = "listed" /\ i \in Listed
      BY <1>0, <1>1, <2>1 DEF Listed
    <3>2. Passed(r, i) => Passed(r, i)'
      BY <1>1, <3>1, PassedStays
    <3>. QED BY <1>1, <1>4, <2>1, <3>1, <3>2 DEF ListedReaches
  <2>. QED BY <2>1 DEF ListedReaches
<1>10. InOrder'
  BY <1>1, <1>5 DEF InOrder
<1>11. DeletionReaches'
  BY <1>1, <1>4, <1>5 DEF DeletionReaches, TypeOK
<1>. QED BY <1>2, <1>6, <1>7, <1>8, <1>9, <1>10, <1>11

-----------------------------------------------------------------------------
(* ThreadPage: the gateway and the page.                                   *)

\* A handler emits an event to the room, or fails.
LEMMA HandleMessageKeeps ==
    ASSUME ThreadPageInv, HandleMessage
    PROVE  ThreadPageInv'
<1>. USE DEF ThreadPageInv
<1>0. PICK e : e = Head(queue)
  OBVIOUS
<1>1. /\ UNCHANGED pageVars /\ UNCHANGED <<masked, told, deleting, inRoom, missed>>
      /\ UNCHANGED <<row, createdAt, pages, cursor, stable>>
      /\ queue # <<>> /\ queue' = Tail(queue)
      /\ \/ Emit(e) /\ lost' = lost
         \/ lost' = lost \cup {e} /\ UNCHANGED <<clear, known>>
  BY <1>0 DEF HandleMessage, pageVars, items, clients
<1>2. /\ e \in EventType /\ queue' \in Seq(EventType)
      /\ Len(queue) \in Nat \ {0} /\ e = queue[1]
      /\ Len(queue') = Len(queue) - 1
      /\ \A k \in 1..(Len(queue) - 1) : queue'[k] = queue[k + 1]
      /\ Queued = {e} \cup Queued'
  BY <1>0, <1>1, QueueParts
<1>3. PagesInv' /\ \A r \in Readers, i \in Items : Passed(r, i)' <=> Passed(r, i)
  BY <1>1, QuietPagesKeep
<1>4. /\ clear' \in [Readers -> SUBSET Items] /\ known' \in [Readers -> SUBSET Items]
      /\ \A r \in Readers : known[r] \subseteq known'[r]
      /\ \A r \in Readers \ inRoom : clear'[r] = clear[r]
      /\ lost \subseteq lost' /\ lost' \subseteq lost \cup {e}
  BY <1>1, <1>2, EventKinds DEF Emit, TypeOK
<1>5. /\ \A r \in Readers : Shown(r)' = Shown(r)
      /\ Gone' = Gone
  BY <1>1 DEF Shown, Gone
<1>6. TypeOK'
  BY <1>1, <1>2, <1>3, <1>4 DEF TypeOK, PagesInv
<1>7. PageInPlace'
  <2>1. \A r \in Readers : Shown(r)' \subseteq known'[r]
    BY <1>4, <1>5 DEF PageInPlace
  <2>. QED BY <1>1, <1>4, <2>1 DEF PageInPlace
<1>8. ASSUME NEW r \in inRoom, NEW i \in Items,
             i \in known[r] \/ New(i) \in Queued \cup lost \cup missed[r]
      PROVE  i \in known'[r] \/ New(i) \in Queued' \cup lost' \cup missed'[r]
  <2>0. r \in Readers
    BY DEF TypeOK
  <2>1. CASE New(i) = e /\ Emit(e)
    BY <2>0, <2>1, Events DEF Emit, TypeOK
  <2>2. CASE New(i) = e /\ lost' = lost \cup {e}
    BY <2>2
  <2>3. CASE New(i) # e
    BY <1>1, <1>2, <1>4, <1>8, <2>0, <2>3
  <2>. QED BY <1>1, <2>1, <2>2, <2>3
<1>9. AnnouncedReaches'
  BY <1>1, <1>8 DEF AnnouncedReaches, TypeOK
<1>10. ListedReaches'
  <2>1. ASSUME NEW r \in Readers, pages[r] # <<>> PROVE r \in inRoom
    BY <2>1 DEF PageInPlace
  <2>. QED BY <1>1, <1>3, <1>8, <2>1 DEF ListedReaches
<1>11. InOrder'
  <2>1. ASSUME NEW k \in 1..Len(queue'), NEW i \in Items,
               queue'[k] = New(i), i \in Gone \/ deleting[i] # "no"
        PROVE  Deleted(i) \in lost' \/ \E l \in (k + 1)..Len(queue') : queue'[l] = Deleted(i)
    <3>1. k + 1 \in 1..Len(queue) /\ queue[k + 1] = New(i)
      BY <1>2, <2>1
    <3>2. Deleted(i) \in lost \/ \E l \in (k + 2)..Len(queue) : queue[l] = Deleted(i)
      <4>1. Deleted(i) \in lost \/ \E l \in ((k + 1) + 1)..Len(queue) : queue[l] = Deleted(i)
        BY <2>1, <3>1 DEF InOrder
      <4>2. (k + 1) + 1 = k + 2
        OBVIOUS
      <4>. QED BY <4>1, <4>2
    <3>3. ASSUME NEW l \in (k + 2)..Len(queue), queue[l] = Deleted(i)
          PROVE  \E m \in (k + 1)..Len(queue') : queue'[m] = Deleted(i)
      <4>1. l - 1 \in (k + 1)..Len(queue') /\ queue'[l - 1] = queue[l]
        BY <1>2
      <4>. QED BY <3>3, <4>1
    <3>. QED BY <1>4, <3>2, <3>3
  <2>. QED BY <1>1, <1>5, <2>1 DEF InOrder
<1>12. DeletionReaches'
  <2>1. ASSUME NEW r \in Readers, NEW i \in clear'[r], i \in Gone \/ deleting[i] # "no"
        PROVE  Deleted(i) \in Queued' \cup lost' \cup missed[r]
    <3>0. i \in Items
      BY <1>4
    <3>1. CASE i \in clear[r]
      <4>1. Deleted(i) \in Queued \cup lost \cup missed[r]
        BY <2>1, <3>1 DEF DeletionReaches
      <4>2. CASE Deleted(i) # e
        BY <1>2, <1>4, <4>1, <4>2
      <4>3. CASE Deleted(i) = e /\ lost' = lost \cup {e}
        BY <4>3
      <4>4. CASE Deleted(i) = e /\ Emit(e)
        <5>1. r \in inRoom
          BY <3>1 DEF PageInPlace
        <5>2. clear'[r] = clear[r] \ {i}
          BY <3>0, <4>4, <5>1, Events DEF Emit
        <5>. QED BY <5>2, <2>1
      <4>. QED BY <1>1, <4>2, <4>3, <4>4
    <3>2. CASE i \notin clear[r]
      <4>1. e = New(i)
        BY <1>1, <1>2, <2>1, <3>2, EventKinds, Events DEF Emit
      <4>2. Deleted(i) \in lost \/ \E l \in 2..Len(queue) : queue[l] = Deleted(i)
        <5>1. 1 \in 1..Len(queue) /\ 1 + 1 = 2
          BY <1>2
        <5>2. Deleted(i) \in lost \/ \E l \in (1 + 1)..Len(queue) : queue[l] = Deleted(i)
          BY <1>2, <2>1, <3>0, <4>1, <5>1 DEF InOrder
        <5>. QED BY <5>1, <5>2
      <4>3. ASSUME NEW l \in 2..Len(queue), queue[l] = Deleted(i)
            PROVE  Deleted(i) \in Queued'
        <5>1. l - 1 \in 1..Len(queue') /\ queue'[l - 1] = queue[l]
          BY <1>2
        <5>. QED BY <4>3, <5>1 DEF Queued
      <4>. QED BY <1>4, <4>2, <4>3
    <3>. QED BY <3>1, <3>2
  <2>. QED BY <1>1, <1>5, <2>1 DEF DeletionReaches
<1>. QED BY <1>3, <1>6, <1>7, <1>9, <1>10, <1>11, <1>12

\* A socket joins the room.
LEMMA JoinKeeps ==
    ASSUME ThreadPageInv, NEW r \in Readers, Join(r)
    PROVE  ThreadPageInv'
<1>. USE DEF ThreadPageInv
<1>1. /\ UNCHANGED pageVars /\ UNCHANGED <<masked, told, deleting, queue, lost, clear, known>>
      /\ UNCHANGED <<row, createdAt, pages, cursor, stable>>
      /\ r \notin inRoom /\ inRoom' = inRoom \cup {r}
      /\ missed'[r] = {New(i) : i \in {j \in told : row[j] = "inserted"}} \ Queued
      /\ \A q \in Readers \ {r} : missed'[q] = missed[q]
  BY DEF Join, pageVars, items, clients, events, TypeOK
<1>2. missed' \in [Readers -> SUBSET EventType]
  <2>1. {New(i) : i \in {j \in told : row[j] = "inserted"}} \subseteq EventType
    BY Events DEF TypeOK
  <2>. QED BY <2>1 DEF Join, TypeOK
<1>3. PagesInv' /\ \A q \in Readers, i \in Items : Passed(q, i)' <=> Passed(q, i)
  BY <1>1, QuietPagesKeep
<1>4. Queued' = Queued /\ Gone' = Gone /\ \A q \in Readers : Shown(q)' = Shown(q)
  BY <1>1 DEF Queued, Gone, Shown
<1>5. clear[r] = {} /\ pages[r] = <<>>
  BY <1>1 DEF PageInPlace
<1>6. TypeOK'
  BY <1>1, <1>2, <1>3 DEF TypeOK, PagesInv
<1>7. PageInPlace'
  BY <1>1, <1>4 DEF PageInPlace
<1>8. AnnouncedReaches'
  <2>1. ASSUME NEW q \in inRoom', NEW i \in told, row[i] = "inserted"
        PROVE  i \in known[q] \/ New(i) \in Queued \cup lost \cup missed'[q]
    <3>1. CASE q = r
      BY <1>1, <2>1, <3>1
    <3>2. CASE q # r
      BY <1>1, <2>1, <3>2 DEF AnnouncedReaches, TypeOK
    <3>. QED BY <3>1, <3>2
  <2>. QED BY <1>1, <1>4, <2>1 DEF AnnouncedReaches
<1>9. ListedReaches'
  BY <1>1, <1>3, <1>4, <1>5 DEF ListedReaches
<1>10. InOrder'
  BY <1>1, <1>4 DEF InOrder
<1>11. DeletionReaches'
  BY <1>1, <1>4, <1>5 DEF DeletionReaches
<1>. QED BY <1>3, <1>6, <1>7, <1>8, <1>9, <1>10, <1>11

\* A page of the list is shown.
LEMMA ShowKeeps ==
    ASSUME ThreadPageInv, NEW r \in inRoom, PagesInv', Show(r),
           (FirstPage(r) /\ pages[r] = <<>>) \/ NextPage(r)
    PROVE  ThreadPageInv'
<1>. USE DEF ThreadPageInv
<1>0. r \in Readers
  BY DEF TypeOK
<1>. DEFINE P == pages'[r][Len(pages'[r])]
<1>1. /\ UNCHANGED <<masked, told, deleting, queue, lost, inRoom, row, createdAt>>
      /\ Queued' = Queued /\ Gone' = Gone /\ Listed' = Listed
  BY DEF Show, FirstPage, NextPage, events, items, Queued, Gone, Listed
<1>2. /\ P \subseteq Listed /\ P \subseteq Items
      /\ \A x \in Shown(r)' : x \in Shown(r) \/ x \in P
      /\ \A q \in Readers \ {r} : pages'[q] = pages[q] /\ Shown(q)' = Shown(q)
      /\ pages'[r] # <<>>
  <2>1. CASE FirstPage(r) /\ pages[r] = <<>>
    <3>1. PICK Q \in SUBSET Listed : pages' = [pages EXCEPT ![r] = <<Q>>]
      BY <2>1 DEF FirstPage
    <3>2. pages'[r] = <<Q>> /\ P = Q
      BY <1>0, <3>1 DEF PagesInv, PagesTypeOK
    <3>3. \A x \in Shown(r)' : x \in Q
      BY <3>2 DEF Shown
    <3>4. \A q \in Readers \ {r} : pages'[q] = pages[q] /\ Shown(q)' = Shown(q)
      BY <3>1 DEF Shown
    <3>. QED BY <3>2, <3>3, <3>4 DEF Listed
  <2>2. CASE NextPage(r)
    <3>1. PICK Q \in SUBSET Rest(r) : pages' = [pages EXCEPT ![r] = Append(@, Q)]
      BY <2>2 DEF NextPage
    <3>2. pages[r] \in Seq(SUBSET Items) /\ Q \in SUBSET Items
      BY <1>0 DEF PagesInv, PagesTypeOK, Rest, Listed
    <3>3. pages'[r] = Append(pages[r], Q) /\ P = Q /\ pages'[r] # <<>>
      <4>1. pages'[r] = Append(pages[r], Q)
        BY <1>0, <3>1 DEF PagesInv, PagesTypeOK
      <4>2. /\ Len(Append(pages[r], Q)) \in Nat \ {0} /\ Append(pages[r], Q) # <<>>
            /\ Append(pages[r], Q)[Len(Append(pages[r], Q))] = Q
        BY <3>2
      <4>. QED BY <4>1, <4>2
    <3>4. \A x \in Shown(r)' : x \in Shown(r) \/ x \in Q
      BY <3>2, <3>3, ShownOfAppend DEF Shown
    <3>5. \A q \in Readers \ {r} : pages'[q] = pages[q] /\ Shown(q)' = Shown(q)
      BY <3>1 DEF Shown
    <3>. QED BY <3>2, <3>3, <3>4, <3>5 DEF Rest, Listed
  <2>. QED BY <2>1, <2>2
<1>. DEFINE D == {Deleted(i) : i \in {j \in P : deleting[j] # "no"}} \ Queued
<1>3. /\ clear' = [clear EXCEPT ![r] = (clear[r] \ P) \cup (P \ masked)]
      /\ known' = [known EXCEPT ![r] = known[r] \cup P]
      /\ missed' = [missed EXCEPT ![r] = missed[r] \cup D]
  BY DEF Show, Enriched
<1>4. D \subseteq EventType
  BY <1>2, Events
<1>5. \A i \in P : deleting[i] # "no" => Deleted(i) \in Queued \cup D
  OBVIOUS
<1>. HIDE DEF P, D
<1>6. TypeOK'
  BY <1>0, <1>1, <1>2, <1>3, <1>4 DEF TypeOK, PagesInv
<1>7. /\ clear'[r] = (clear[r] \ P) \cup (P \ masked)
      /\ known'[r] = known[r] \cup P /\ missed'[r] = missed[r] \cup D
      /\ \A q \in Readers \ {r} : clear'[q] = clear[q] /\ known'[q] = known[q] /\ missed'[q] = missed[q]
  BY <1>0, <1>3 DEF TypeOK
<1>8. PageInPlace'
  <2>1. ASSUME NEW q \in Readers PROVE Shown(q)' \subseteq known'[q]
    <3>1. CASE q = r
      BY <1>0, <1>2, <1>7, <3>1 DEF PageInPlace
    <3>2. CASE q # r
      BY <1>2, <1>7, <3>2 DEF PageInPlace
    <3>. QED BY <3>1, <3>2
  <2>. QED BY <1>1, <1>2, <1>7, <2>1 DEF PageInPlace
<1>9. AnnouncedReaches'
  BY <1>1, <1>7 DEF AnnouncedReaches, TypeOK
<1>10. ListedReaches'
  <2>1. ASSUME NEW q \in Readers, pages'[q] # <<>>, NEW i \in Items, row[i] = "listed"
        PROVE  i \in known'[q] \/ New(i) \in Queued \cup lost \cup missed'[q] \/ Passed(q, i)'
    <3>0. i \in Listed
      BY <2>1 DEF Listed
    <3>1. CASE q # r
      <4>1. pages'[q] = pages[q]
        BY <1>2, <3>1
      <4>2. Passed(q, i) => Passed(q, i)'
        <5>1. cursor'[q] = cursor[q]
          BY <1>0, <3>1 DEF FirstPage, NextPage, NextCursor, PagesInv, PagesTypeOK
        <5>. QED BY <1>0, <1>1, <3>1, <4>1, <5>1, OthersStay DEF items
      <4>. QED BY <1>7, <2>1, <3>1, <4>1, <4>2 DEF ListedReaches
    <3>2. CASE q = r /\ FirstPage(r)
      BY <1>0, <1>1, <3>0, <3>2, FirstPageKeeps
    <3>3. CASE q = r /\ NextPage(r)
      <4>1. pages[r] # <<>>
        BY <1>0, <3>3 DEF NextPage, PagesInv, CursorInPlace
      <4>2. Passed(r, i) => Passed(r, i)'
        BY <1>0, <3>0, <3>3, PassedStays
      <4>. QED BY <1>0, <1>7, <2>1, <3>3, <4>1, <4>2 DEF ListedReaches
    <3>. QED BY <3>1, <3>2, <3>3
  <2>. QED BY <1>1, <2>1 DEF ListedReaches
<1>11. InOrder'
  BY <1>1 DEF InOrder
<1>12. DeletionReaches'
  <2>1. ASSUME NEW q \in Readers, NEW i \in clear'[q], i \in Gone \/ deleting[i] # "no"
        PROVE  Deleted(i) \in Queued \cup lost \cup missed'[q]
    <3>1. CASE q # r
      BY <1>7, <2>1, <3>1 DEF DeletionReaches
    <3>2. CASE q = r /\ i \in P
      <4>1. i \notin masked /\ row[i] # "hidden"
        BY <1>2, <1>7, <2>1, <3>2 DEF Listed
      <4>2. deleting[i] # "no"
        BY <2>1, <4>1 DEF Gone
      <4>. QED BY <1>5, <1>7, <3>2, <4>2
    <3>3. CASE q = r /\ i \notin P
      BY <1>0, <1>7, <2>1, <3>3 DEF DeletionReaches
    <3>. QED BY <3>1, <3>2, <3>3
  <2>. QED BY <1>1, <2>1 DEF DeletionReaches
<1>. QED BY <1>6, <1>8, <1>9, <1>10, <1>11, <1>12

-----------------------------------------------------------------------------
(* Theorems about ThreadPage.                                              *)

LEMMA ThreadPageInitHolds == Init => ThreadPageInv
<1>. SUFFICES ASSUME Init PROVE ThreadPageInv
  OBVIOUS
<1>. USE DEF Init
<1>1. PagesInv
  BY PagesInitHolds
<1>2. \A r \in Readers : Shown(r) = {}
  BY DEF Shown, PagesInit
<1>3. TypeOK
  BY <1>1 DEF TypeOK, PagesInv
<1>4. PageInPlace
  BY <1>2 DEF PageInPlace, PagesInit
<1>5. AnnouncedReaches /\ ListedReaches /\ InOrder /\ DeletionReaches
  BY DEF AnnouncedReaches, ListedReaches, InOrder, DeletionReaches, PagesInit
<1>. QED BY <1>1, <1>3, <1>4, <1>5 DEF ThreadPageInv

LEMMA ThreadPageStepKeeps ==
    ASSUME ThreadPageInv, [Next]_vars
    PROVE  ThreadPageInv'
<1>0. PagesInv'
  BY NextIsPagesStep, PagesStepKeeps DEF ThreadPageInv
<1>1. ASSUME ServiceNext PROVE ThreadPageInv'
  BY <1>1, RowStepsKeep, PublishCommentKeeps, DeleteCommentKeeps, EndDeletionKeeps DEF ServiceNext
<1>2. ASSUME NEW r \in Readers, Open(r) \/ More(r)
      PROVE  ThreadPageInv'
  <2>1. r \in inRoom
    BY <1>2 DEF Open, More, NextPage, ThreadPageInv, PagesInv, CursorInPlace, PageInPlace
  <2>. QED BY <1>0, <1>2, <2>1, ShowKeeps DEF Open, More
<1>3. ASSUME UNCHANGED vars PROVE ThreadPageInv'
  <2>. USE <1>3 DEF vars, pageState, events, screens, ThreadPageInv
  <2>1. \A r \in Readers, i \in Items : Passed(r, i)' <=> Passed(r, i)
    BY QuietPagesKeep
  <2>2. UNCHANGED <<row, pages>> /\ Queued' = Queued /\ Gone' = Gone /\ \A r \in Readers : Shown(r)' = Shown(r)
    BY DEF pageVars, items, clients, Queued, Gone, Shown
  <2>3. TypeOK' /\ PageInPlace' /\ AnnouncedReaches' /\ InOrder' /\ DeletionReaches'
    BY <1>0, <2>2 DEF TypeOK, PagesInv, PageInPlace, AnnouncedReaches, InOrder, DeletionReaches
  <2>4. ListedReaches'
    BY <2>1, <2>2 DEF ListedReaches
  <2>. QED BY <1>0, <2>3, <2>4
<1>. QED BY <1>1, <1>2, <1>3, HandleMessageKeeps, JoinKeeps DEF Next

\* ThreadPageInv is inductive.
THEOREM ThreadPageInvariant == Spec => []ThreadPageInv
  BY ThreadPageInitHolds, ThreadPageStepKeeps, PTL DEF Spec

\* List and events together bring a page every comment, but for the cases named in
\* PageMissesNothing.
THEOREM PagesMissNoComment == Spec => []PageMissesNothing
<1>1. ThreadPageInv => PageMissesNothing
  <2>. SUFFICES ASSUME ThreadPageInv, NEW r \in Readers, pages[r] # <<>>, cursor[r] = None,
                       NEW i \in Items, row[i] = "listed"
                PROVE  \/ i \in known[r]
                       \/ New(i) \in Queued \cup lost \cup missed[r]
                       \/ \E k \in 1..Len(pages[r]) : TiedWithPage(r, i, k)
    BY DEF PageMissesNothing
  <2>1. Shown(r) \subseteq known[r]
    BY DEF ThreadPageInv, PageInPlace
  <2>2. i \in known[r] \/ New(i) \in Queued \cup lost \cup missed[r] \/ Passed(r, i)
    BY DEF ThreadPageInv, ListedReaches
  <2>. QED BY <2>1, <2>2 DEF Passed
<1>. QED BY <1>1, ThreadPageInvariant, PTL

\* The content of a deleted comment stays legible nowhere, but for the cases named
\* in DeletedIsNotLegible.
THEOREM DeletedStaysIllegible == Spec => []DeletedIsNotLegible
<1>1. ThreadPageInv => DeletedIsNotLegible
  BY DEF ThreadPageInv, TypeOK, DeletionReaches, DeletedIsNotLegible
<1>. QED BY <1>1, ThreadPageInvariant, PTL

\* NothingIsSkipped holds of the page of a thread, too.
THEOREM ThreadPageSkipsNothing == Spec => []NothingIsSkipped
  BY ThreadPageReadsPages, ListsSkipNothing, PTL
=============================================================================
