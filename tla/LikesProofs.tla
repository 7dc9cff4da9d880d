---------------------------- MODULE LikesProofs ----------------------------
(***************************************************************************)
(* For every set of users, threads, comments and requests, and whatever    *)
(* fails: LikesInv is inductive, so a like_count never exceeds the number  *)
(* of like rows.  For clients who wait for the commit it is that number.   *)
(***************************************************************************)
EXTENDS Likes, FiniteSetTheorems, TLAPS

\* What a request is made of.
LEMMA RequestFields ==
    ASSUME NEW r \in Requests
    PROVE  /\ r.op \in {"like", "unlike"}
           /\ r.user \in Users
           /\ r.entity \in Entities
           /\ LikeRow(r) \in Users \X Entities
BY DEF Requests, LikeRow

LEMMA CountAfterType ==
    ASSUME NEW r \in Requests, NEW c \in Nat
    PROVE  CountAfter(r, c) \in Nat
BY DEF CountAfter

\* The likers of an entity are finitely many.
LEMMA LikersFinite ==
    ASSUME NEW e \in Entities
    PROVE  IsFiniteSet(Likers(e)) /\ Cardinality(Likers(e)) \in Nat
<1>1. Likers(e) \in SUBSET Users
  BY DEF Likers
<1>2. IsFiniteSet(Likers(e))
  BY <1>1, LikesAssumption, FS_Subset
<1> QED
  BY <1>2, FS_CardinalityType

\* The steps of the four handlers, and the rest of Next.
LEMMA StepCases ==
    ASSUME Next
    PROVE  \/ \E r \in Requests :
                \/ Start(r) \/ Close(r) \/ LoadEntity(r) \/ CheckLiked(r)
                \/ r.op = "like" /\ InsertLike(r)
                \/ r.op = "unlike" /\ (DeleteLike(r) \/ DeleteResumes(r))
                \/ UpdateCount(r) \/ PublishCount(r) \/ Respond(r)
                \/ Commit(r) \/ CommitFails(r) \/ StatementFails(r)
           \/ ProcessDies
           \/ \E e \in Entities : SoftDelete(e)
BY DEF Next, Handler, LikeThread, UnlikeThread, LikeComment, UnlikeComment

-----------------------------------------------------------------------------
(* The initial states.                                                     *)

LEMMA InitLikesInv == Init => LikesInv
<1> SUFFICES ASSUME Init PROVE LikesInv
  OBVIOUS
<1> USE DEF Init
<1>1. TypeOK
  BY DEF TypeOK
<1>2. RowLockHeld
  BY RequestFields, LikesAssumption DEF RowLockHeld, HoldsRow
<1>3. UncommittedRows
  BY DEF UncommittedRows, HoldsRow
<1>4. OneWriterPerRow
  BY DEF OneWriterPerRow
<1>5. CountedFromCommitted
  BY DEF CountedFromCommitted
<1>6. CountNeverExceedsLikes
  BY LikersFinite DEF CountNeverExceedsLikes
<1> QED
  BY <1>1, <1>2, <1>3, <1>4, <1>5, <1>6 DEF LikesInv

-----------------------------------------------------------------------------
(* Steps that only move a request on.                                      *)

\* A step between points of the handler outside of HoldsRow, or inside, that
\* writes nothing and does not enter or leave "count" or "wait".
MovesOn(r, p) ==
    /\ p \in ({"idle"} \cup Working \cup ErrorReplies) \ {"count", "wait"}
    /\ pc[r] \notin {"count", "wait"}
    /\ pc[r] \in HoldsRow <=> p \in HoldsRow
    /\ pc' = [pc EXCEPT ![r] = p]
    /\ shown' \in [Entities -> Nat]
    /\ UNCHANGED <<status, likes, likeCount, newCount, rowLock, wrote>>

LEMMA MoveOn ==
    ASSUME LikesInv, NEW r \in Requests, NEW p, MovesOn(r, p)
    PROVE  LikesInv'
<1> USE DEF LikesInv, MovesOn
<1>1. TypeOK'
  BY DEF TypeOK
<1>2. RowLockHeld'
  BY DEF RowLockHeld, TypeOK
<1>3. UncommittedRows'
  BY DEF UncommittedRows, TypeOK, HoldsRow
<1>4. OneWriterPerRow'
  BY DEF OneWriterPerRow
<1>5. CountedFromCommitted'
  BY DEF CountedFromCommitted
<1>6. CountNeverExceedsLikes'
  BY DEF CountNeverExceedsLikes, Likers
<1> QED
  BY <1>1, <1>2, <1>3, <1>4, <1>5, <1>6

LEMMA StartKeeps ==
    ASSUME LikesInv, NEW r \in Requests, Start(r)
    PROVE  LikesInv'
<1>1. MovesOn(r, "load")
  BY DEF MovesOn, Start, Working, HoldsRow, ErrorReplies, LikesInv, TypeOK
<1> QED
  BY <1>1, MoveOn

LEMMA CloseKeeps ==
    ASSUME LikesInv, NEW r \in Requests, Close(r)
    PROVE  LikesInv'
<1>1. MovesOn(r, "idle")
  BY DEF MovesOn, Close, Working, HoldsRow, ErrorReplies, LikesInv, TypeOK
<1> QED
  BY <1>1, MoveOn

LEMMA LoadEntityKeeps ==
    ASSUME LikesInv, NEW r \in Requests, LoadEntity(r)
    PROVE  LikesInv'
<1>1. MovesOn(r, "check") \/ MovesOn(r, "notFound")
  BY DEF MovesOn, LoadEntity, Working, HoldsRow, ErrorReplies, LikesInv, TypeOK
<1> QED
  BY <1>1, MoveOn

LEMMA CheckLikedKeeps ==
    ASSUME LikesInv, NEW r \in Requests, CheckLiked(r)
    PROVE  LikesInv'
<1>1. MovesOn(r, "row") \/ MovesOn(r, "conflict")
  BY DEF MovesOn, CheckLiked, Working, HoldsRow, ErrorReplies, LikesInv, TypeOK
<1> QED
  BY <1>1, MoveOn

LEMMA PublishCountKeeps ==
    ASSUME LikesInv, NEW r \in Requests, PublishCount(r)
    PROVE  LikesInv'
<1>1. shown' \in [Entities -> Nat]
  BY RequestFields DEF PublishCount, LikesInv, TypeOK
<1>2. MovesOn(r, "respond")
  BY <1>1 DEF MovesOn, PublishCount, Working, HoldsRow
<1> QED
  BY <1>2, MoveOn

LEMMA RespondKeeps ==
    ASSUME LikesInv, NEW r \in Requests, Respond(r)
    PROVE  LikesInv'
<1>1. MovesOn(r, "commit")
  BY DEF MovesOn, Respond, Working, HoldsRow, ErrorReplies, LikesInv, TypeOK
<1> QED
  BY <1>1, MoveOn

-----------------------------------------------------------------------------
(* Steps that write a like row, uncommitted.                               *)

LEMMA InsertLikeKeeps ==
    ASSUME LikesInv, NEW r \in Requests, r.op = "like", InsertLike(r)
    PROVE  LikesInv'
<1> USE DEF LikesInv, InsertLike
<1>1. TypeOK'
  BY DEF TypeOK, DuplicateReply, Working, ErrorReplies
<1>2. RowLockHeld'
  BY DEF RowLockHeld, TypeOK, HoldsRow, DuplicateReply
<1>3. UncommittedRows'
  BY DEF UncommittedRows, TypeOK, HoldsRow, DuplicateReply
<1>4. OneWriterPerRow'
  BY DEF OneWriterPerRow, TypeOK, RowBusy
<1>5. CountedFromCommitted'
  BY DEF CountedFromCommitted
<1>6. CountNeverExceedsLikes'
  BY DEF CountNeverExceedsLikes, Likers
<1> QED
  BY <1>1, <1>2, <1>3, <1>4, <1>5, <1>6

LEMMA DeleteLikeKeeps ==
    ASSUME LikesInv, NEW r \in Requests, r.op = "unlike", DeleteLike(r)
    PROVE  LikesInv'
<1> USE DEF LikesInv, DeleteLike
<1>1. TypeOK'
  BY DEF TypeOK, Working
<1>2. RowLockHeld'
  BY DEF RowLockHeld, TypeOK, HoldsRow
<1>3. UncommittedRows'
  <2>1. CASE RowBusy(r, {"deleted"})
    <3>1. LikeRow(r) \in likes
      BY <2>1 DEF RowBusy, UncommittedRows
    <3> QED
      BY <2>1, <3>1 DEF UncommittedRows, TypeOK, HoldsRow
  <2>2. CASE ~ RowBusy(r, {"deleted"})
    BY <2>2 DEF UncommittedRows, TypeOK, HoldsRow
  <2> QED
    BY <2>1, <2>2
<1>4. OneWriterPerRow'
  BY DEF OneWriterPerRow, TypeOK, RowBusy
<1>5. CountedFromCommitted'
  BY DEF CountedFromCommitted
<1>6. CountNeverExceedsLikes'
  BY DEF CountNeverExceedsLikes, Likers
<1> QED
  BY <1>1, <1>2, <1>3, <1>4, <1>5, <1>6

LEMMA DeleteResumesKeeps ==
    ASSUME LikesInv, NEW r \in Requests, DeleteResumes(r)
    PROVE  LikesInv'
<1> USE DEF LikesInv, DeleteResumes
<1>1. TypeOK'
  BY DEF TypeOK, Working
<1>2. RowLockHeld'
  BY DEF RowLockHeld, TypeOK, HoldsRow
<1>3. UncommittedRows'
  BY DEF UncommittedRows, TypeOK, HoldsRow
<1>4. OneWriterPerRow'
  BY DEF OneWriterPerRow, TypeOK, RowBusy
<1>5. CountedFromCommitted'
  BY DEF CountedFromCommitted
<1>6. CountNeverExceedsLikes'
  BY DEF CountNeverExceedsLikes, Likers
<1> QED
  BY <1>1, <1>2, <1>3, <1>4, <1>5, <1>6

-----------------------------------------------------------------------------
(* The UPDATE of the counter.                                              *)

LEMMA UpdateCountKeeps ==
    ASSUME LikesInv, NEW r \in Requests, UpdateCount(r)
    PROVE  LikesInv'
<1> USE DEF LikesInv, UpdateCount
<1>1. TypeOK'
  BY RequestFields, CountAfterType DEF TypeOK, Working
<1>2. RowLockHeld'
  <2>1. \A s \in Requests \ {r} : rowLock'[s.entity] = s
                                  <=> rowLock[s.entity] = s
    BY RequestFields, LikesAssumption DEF TypeOK
  <2>2. rowLock'[r.entity] = r
    BY RequestFields DEF TypeOK
  <2> QED
    BY <2>1, <2>2, RequestFields DEF RowLockHeld, TypeOK, HoldsRow
<1>3. UncommittedRows'
  BY DEF UncommittedRows, TypeOK, HoldsRow
<1>4. OneWriterPerRow'
  BY DEF OneWriterPerRow
<1>5. CountedFromCommitted'
  BY RequestFields, LikesAssumption DEF CountedFromCommitted, TypeOK
<1>6. CountNeverExceedsLikes'
  BY DEF CountNeverExceedsLikes, Likers
<1> QED
  BY <1>1, <1>2, <1>3, <1>4, <1>5, <1>6

-----------------------------------------------------------------------------
(* The end of the transaction.                                             *)

\* Giving up the locks of r disturbs nobody else's.
LEMMA LocksAfterEnd ==
    ASSUME TypeOK, RowLockHeld, NEW r \in Requests, EndTransaction(r)
    PROVE  /\ \A s \in Requests : rowLock'[s.entity] = s
                                 <=> s # r /\ rowLock[s.entity] = s
           /\ \A e \in Entities :
                 rowLock'[e] = IF rowLock[e] = r THEN NoRequest ELSE rowLock[e]
           /\ wrote'[r] = "nothing"
           /\ \A s \in Requests \ {r} : wrote'[s] = wrote[s]
<1> USE DEF EndTransaction
<1>1. \A e \in Entities :
         rowLock'[e] = IF rowLock[e] = r THEN NoRequest ELSE rowLock[e]
  BY RequestFields DEF TypeOK, RowLockHeld
<1>2. \A s \in Requests : rowLock'[s.entity] = s
                          <=> s # r /\ rowLock[s.entity] = s
  BY <1>1, RequestFields, LikesAssumption
<1> QED
  BY <1>1, <1>2 DEF TypeOK

\* What the commit does to the likers of each entity.
LEMMA LikersAfterCommit ==
    ASSUME LikesInv, NEW r \in Requests, Commit(r), NEW e \in Entities
    PROVE  /\ e # r.entity => Likers(e)' = Likers(e)
           /\ e = r.entity /\ wrote[r] = "inserted"
                 => Likers(e)' = Likers(e) \cup {r.user} /\ r.user \notin Likers(e)
           /\ e = r.entity /\ wrote[r] = "deleted"
                 => Likers(e)' = Likers(e) \ {r.user} /\ r.user \in Likers(e)
           /\ wrote[r] = "nothing" => Likers(e)' = Likers(e)
<1>1. CASE wrote[r] = "inserted"
  <2>1. likes' = likes \cup {LikeRow(r)}
    BY <1>1 DEF Commit
  <2>2. LikeRow(r) \notin likes
    BY <1>1 DEF LikesInv, UncommittedRows
  <2> QED
    BY <1>1, <2>1, <2>2, RequestFields DEF Likers, LikeRow
<1>2. CASE wrote[r] = "deleted"
  <2>1. likes' = likes \ {LikeRow(r)}
    BY <1>2 DEF Commit
  <2>2. LikeRow(r) \in likes
    BY <1>2 DEF LikesInv, UncommittedRows
  <2> QED
    BY <1>2, <2>1, <2>2, RequestFields DEF Likers, LikeRow
<1>3. CASE wrote[r] = "nothing"
  <2>1. likes' = likes
    BY <1>3 DEF Commit
  <2> QED
    BY <1>3, <2>1 DEF Likers
<1> QED
  BY <1>1, <1>2, <1>3 DEF LikesInv, TypeOK

LEMMA CommitKeeps ==
    ASSUME LikesInv, NEW r \in Requests, Commit(r)
    PROVE  LikesInv'
<1>1. /\ pc[r] = "commit"
      /\ rowLock[r.entity] = r
      /\ EndTransaction(r)
      /\ likeCount' = [likeCount EXCEPT ![r.entity] = newCount[r.entity]]
      /\ newCount' = newCount
      /\ newCount[r.entity] = CountAfter(r, likeCount[r.entity])
  BY RequestFields, LikesAssumption
     DEF Commit, LikesInv, RowLockHeld, HoldsRow, CountedFromCommitted
<1>2. \A s \in Requests : pc'[s] = IF s = r THEN "idle"
                                   ELSE IF s \in Overtaken(r) THEN "count"
                                   ELSE pc[s]
  BY DEF Commit
<1>3. TypeOK'
  <2>1. likes' \subseteq (Users \X Entities)
    BY RequestFields DEF Commit, LikesInv, TypeOK
  <2>2. likeCount' \in [Entities -> Nat]
    BY <1>1, RequestFields DEF LikesInv, TypeOK
  <2>3. /\ rowLock' \in [Entities -> Requests \cup {NoRequest}]
        /\ wrote' \in [Requests -> {"nothing", "inserted", "deleted"}]
    BY <1>1 DEF EndTransaction, LikesInv, TypeOK
  <2>4. pc' \in [Requests -> {"idle"} \cup Working \cup ErrorReplies]
    BY DEF Commit, LikesInv, TypeOK, Working
  <2> QED
    BY <2>1, <2>2, <2>3, <2>4 DEF Commit, LikesInv, TypeOK
<1>4. RowLockHeld'
  BY <1>1, <1>2, LocksAfterEnd, RequestFields
     DEF LikesInv, RowLockHeld, HoldsRow, Overtaken
<1>5. UncommittedRows'
  <2> SUFFICES ASSUME NEW s \in Requests
               PROVE  UncommittedRows!(s)'
    BY DEF UncommittedRows
  <2>1. CASE s = r
    BY <2>1, <1>1, <1>2, LocksAfterEnd DEF LikesInv, HoldsRow
  <2>2. CASE s # r
    <3>1. wrote'[s] = wrote[s]
      BY <2>2, <1>1, LocksAfterEnd DEF LikesInv
    <3>2. UncommittedRows!(s)
      BY DEF LikesInv, UncommittedRows
    <3>3. wrote[s] = "inserted" => LikeRow(s) \notin likes'
      BY <2>2, <3>2 DEF Commit, LikesInv, OneWriterPerRow, UncommittedRows
    <3>4. wrote[s] = "deleted" => LikeRow(s) \in likes'
      BY <2>2, <3>2 DEF Commit, LikesInv, OneWriterPerRow, UncommittedRows
    <3>5. pc'[s] = "wait" => LikeRow(s) \in likes'
      BY <2>2, <3>2, <1>2 DEF Commit, LikesInv, UncommittedRows, Overtaken
    <3> QED
      BY <2>2, <1>2, <3>1, <3>2, <3>3, <3>4, <3>5 DEF HoldsRow, Overtaken
  <2> QED
    BY <2>1, <2>2
<1>6. OneWriterPerRow'
  BY <1>1, LocksAfterEnd DEF LikesInv, OneWriterPerRow
<1>7. CountedFromCommitted'
  <2> SUFFICES ASSUME NEW e \in Entities
               PROVE  newCount[e] = IF rowLock'[e] = NoRequest THEN likeCount'[e]
                                    ELSE CountAfter(rowLock'[e], likeCount'[e])
    BY <1>1 DEF CountedFromCommitted, CountAfter
  <2>1. CASE e = r.entity
    BY <2>1, <1>1, LocksAfterEnd DEF LikesInv, TypeOK
  <2>2. CASE e # r.entity
    <3>1. rowLock'[e] = rowLock[e] /\ likeCount'[e] = likeCount[e]
      BY <2>2, <1>1 DEF EndTransaction, LikesInv, TypeOK
    <3> QED
      BY <3>1 DEF LikesInv, CountedFromCommitted
  <2> QED
    BY <2>1, <2>2
<1>8. CountNeverExceedsLikes'
  <2> SUFFICES ASSUME NEW e \in Entities
               PROVE  likeCount'[e] <= Cardinality(Likers(e)')
    BY DEF CountNeverExceedsLikes
  <2>1. likeCount[e] <= Cardinality(Likers(e)) /\ likeCount[e] \in Nat
    BY DEF LikesInv, CountNeverExceedsLikes, TypeOK
  <2>2. CASE e # r.entity
    BY <2>1, <2>2, <1>1, LikersAfterCommit DEF LikesInv, TypeOK
  <2>3. CASE e = r.entity
    <3>1. likeCount'[e] = CountAfter(r, likeCount[e])
      BY <2>3, <1>1 DEF LikesInv, TypeOK
    <3>2. CASE wrote[r] = "inserted"
      <4>1. Cardinality(Likers(e)') = Cardinality(Likers(e)) + 1
        BY <2>3, <3>2, LikersAfterCommit, LikersFinite, FS_AddElement
      <4>2. r.op = "like"
        BY <3>2 DEF LikesInv, UncommittedRows
      <4> QED
        BY <2>1, <3>1, <4>1, <4>2, LikersFinite DEF CountAfter
    <3>3. CASE wrote[r] = "deleted"
      <4>1. Cardinality(Likers(e)') = Cardinality(Likers(e)) - 1
        BY <2>3, <3>3, LikersAfterCommit, LikersFinite, FS_RemoveElement
      <4>2. r.op = "unlike"
        BY <3>3 DEF LikesInv, UncommittedRows
      <4>3. Cardinality(Likers(e)) # 0
        BY <2>3, <3>3, LikersAfterCommit, LikersFinite, FS_EmptySet
      <4> QED
        BY <2>1, <3>1, <4>1, <4>2, <4>3, LikersFinite DEF CountAfter
    <3>4. CASE wrote[r] = "nothing"
      <4>1. Likers(e)' = Likers(e)
        BY <3>4, LikersAfterCommit
      <4>2. r.op # "like"
        BY <1>1, <3>4 DEF LikesInv, UncommittedRows, HoldsRow
      <4> QED
        BY <2>1, <3>1, <4>1, <4>2, LikersFinite DEF CountAfter
    <3> QED
      BY <3>2, <3>3, <3>4 DEF LikesInv, TypeOK
  <2> QED
    BY <2>2, <2>3
<1> QED
  BY <1>3, <1>4, <1>5, <1>6, <1>7, <1>8 DEF LikesInv

LEMMA RollBackKeeps ==
    ASSUME LikesInv, NEW r \in Requests, RollBack(r),
           NEW p \in {"idle", "serverError"}, pc' = [pc EXCEPT ![r] = p],
           UNCHANGED <<status, likes, likeCount, shown>>
    PROVE  LikesInv'
<1>1. /\ EndTransaction(r)
      /\ \A e \in Entities :
            newCount'[e] = IF rowLock[e] = r THEN likeCount[e] ELSE newCount[e]
  BY RequestFields, LikesAssumption DEF RollBack, LikesInv, TypeOK, RowLockHeld
<1>2. \A s \in Requests : pc'[s] = IF s = r THEN p ELSE pc[s]
  BY DEF LikesInv, TypeOK
<1>3. TypeOK'
  <2>1. newCount' \in [Entities -> Nat]
    BY DEF RollBack, LikesInv, TypeOK
  <2>2. /\ rowLock' \in [Entities -> Requests \cup {NoRequest}]
        /\ wrote' \in [Requests -> {"nothing", "inserted", "deleted"}]
    BY <1>1 DEF EndTransaction, LikesInv, TypeOK
  <2>3. pc' \in [Requests -> {"idle"} \cup Working \cup ErrorReplies]
    BY DEF LikesInv, TypeOK, ErrorReplies
  <2> QED
    BY <2>1, <2>2, <2>3 DEF LikesInv, TypeOK
<1>4. RowLockHeld'
  BY <1>1, <1>2, LocksAfterEnd, RequestFields DEF LikesInv, RowLockHeld, HoldsRow
<1>5. UncommittedRows'
  BY <1>1, <1>2, LocksAfterEnd DEF LikesInv, UncommittedRows, HoldsRow
<1>6. OneWriterPerRow'
  BY <1>1, LocksAfterEnd DEF LikesInv, OneWriterPerRow
<1>7. CountedFromCommitted'
  BY <1>1, LocksAfterEnd DEF LikesInv, CountedFromCommitted, CountAfter
<1>8. CountNeverExceedsLikes'
  BY DEF LikesInv, CountNeverExceedsLikes, Likers
<1> QED
  BY <1>3, <1>4, <1>5, <1>6, <1>7, <1>8 DEF LikesInv

LEMMA ProcessDiesKeeps ==
    ASSUME LikesInv, ProcessDies
    PROVE  LikesInv'
<1> USE DEF LikesInv, ProcessDies
<1>1. TypeOK'
  BY DEF TypeOK
<1>2. RowLockHeld'
  BY RequestFields, LikesAssumption DEF RowLockHeld, HoldsRow
<1>3. UncommittedRows'
  BY DEF UncommittedRows, HoldsRow
<1>4. OneWriterPerRow'
  BY DEF OneWriterPerRow
<1>5. CountedFromCommitted'
  BY DEF CountedFromCommitted
<1>6. CountNeverExceedsLikes'
  BY DEF CountNeverExceedsLikes, Likers
<1> QED
  BY <1>1, <1>2, <1>3, <1>4, <1>5, <1>6

LEMMA SoftDeleteKeeps ==
    ASSUME LikesInv, NEW e \in Entities, SoftDelete(e)
    PROVE  LikesInv'
<1> USE DEF LikesInv, SoftDelete
<1>1. TypeOK'
  BY DEF TypeOK
<1>2. RowLockHeld' /\ UncommittedRows' /\ OneWriterPerRow'
  BY DEF RowLockHeld, UncommittedRows, OneWriterPerRow
<1>3. CountedFromCommitted' /\ CountNeverExceedsLikes'
  BY DEF CountedFromCommitted, CountNeverExceedsLikes, Likers
<1> QED
  BY <1>1, <1>2, <1>3

LEMMA StutterKeeps == LikesInv /\ UNCHANGED vars => LikesInv'
<1> SUFFICES ASSUME LikesInv, UNCHANGED vars PROVE LikesInv'
  OBVIOUS
<1> USE DEF vars, LikesInv
<1>1. TypeOK' /\ RowLockHeld' /\ UncommittedRows' /\ OneWriterPerRow'
  BY DEF TypeOK, RowLockHeld, UncommittedRows, OneWriterPerRow
<1>2. CountedFromCommitted' /\ CountNeverExceedsLikes'
  BY DEF CountedFromCommitted, CountNeverExceedsLikes, Likers
<1> QED
  BY <1>1, <1>2

LEMMA NextLikesInv == LikesInv /\ [Next]_vars => LikesInv'
<1> SUFFICES ASSUME LikesInv, Next PROVE LikesInv'
  BY StutterKeeps
<1>1. CASE \E r \in Requests :
              \/ Start(r) \/ Close(r) \/ LoadEntity(r) \/ CheckLiked(r)
              \/ r.op = "like" /\ InsertLike(r)
              \/ r.op = "unlike" /\ (DeleteLike(r) \/ DeleteResumes(r))
              \/ UpdateCount(r) \/ PublishCount(r) \/ Respond(r)
              \/ Commit(r) \/ CommitFails(r) \/ StatementFails(r)
  <2> PICK r \in Requests :
              \/ Start(r) \/ Close(r) \/ LoadEntity(r) \/ CheckLiked(r)
              \/ r.op = "like" /\ InsertLike(r)
              \/ r.op = "unlike" /\ (DeleteLike(r) \/ DeleteResumes(r))
              \/ UpdateCount(r) \/ PublishCount(r) \/ Respond(r)
              \/ Commit(r) \/ CommitFails(r) \/ StatementFails(r)
    BY <1>1
  <2>1. CASE CommitFails(r)
    BY <2>1, RollBackKeeps DEF CommitFails
  <2>2. CASE StatementFails(r)
    BY <2>2, RollBackKeeps DEF StatementFails
  <2> QED
    BY <2>1, <2>2, StartKeeps, CloseKeeps, LoadEntityKeeps, CheckLikedKeeps,
       InsertLikeKeeps, DeleteLikeKeeps, DeleteResumesKeeps, UpdateCountKeeps,
       PublishCountKeeps, RespondKeeps, CommitKeeps
<1> QED
  BY <1>1, StepCases, ProcessDiesKeeps, SoftDeleteKeeps

\* The invariant of the like handlers: the committed counter, the uncommitted
\* like rows and the row locks fit together whatever interleaves or fails.
THEOREM LikesInvariant == Spec => []LikesInv
BY InitLikesInv, NextLikesInv, PTL DEF Spec

\* No interleaving, failure or restart makes a like_count claim more likes
\* than there are rows in thread_likes or comment_likes.
THEOREM CountBound == Spec => []CountNeverExceedsLikes
<1>1. LikesInv => CountNeverExceedsLikes
  BY DEF LikesInv
<1> QED
  BY <1>1, LikesInvariant, PTL

-----------------------------------------------------------------------------
(* Patient clients: the counter is exact.                                  *)

LEMMA InitPatient == Init => PatientInv
<1> SUFFICES ASSUME Init PROVE PatientInv
  OBVIOUS
<1>1. OneRequestPerRow /\ CheckedStillHolds
  BY DEF Init, OneRequestPerRow, CheckedStillHolds, HoldsRow
<1>2. CountMatchesLikes
  <2> SUFFICES ASSUME NEW e \in Entities PROVE Cardinality(Likers(e)) = 0
    BY DEF CountMatchesLikes, Init
  <2>1. Likers(e) = {}
    BY DEF Likers, Init
  <2> QED
    BY <2>1, FS_EmptySet
<1> QED
  BY <1>1, <1>2, InitLikesInv DEF PatientInv

\* A request is only ever begun by Start, and a patient client starts none
\* while one about the same row is on its way.
LEMMA OneRequestKept ==
    ASSUME ClientWaits = "commit", LikesInv, OneRequestPerRow, Next
    PROVE  OneRequestPerRow'
<1>1. CASE \E r \in Requests : Start(r)
  <2> PICK r \in Requests : Start(r)
    BY <1>1
  <2>1. \A s \in Requests : LikeRow(s) = LikeRow(r) => pc[s] = "idle"
    BY DEF Start, Awaited
  <2>2. \A s \in Requests : s # r => pc'[s] = pc[s]
    BY DEF Start, LikesInv, TypeOK
  <2> QED
    BY <2>1, <2>2 DEF OneRequestPerRow
<1>2. CASE ~ \E r \in Requests : Start(r)
  <2>1. \A s \in Requests : pc'[s] # "idle" => pc[s] # "idle"
    <3>1. CASE \E r \in Requests : Commit(r)
      BY <3>1 DEF Commit, Overtaken, LikesInv, TypeOK
    <3>2. CASE ~ \E r \in Requests : Commit(r)
      BY <1>2, <3>2, StepCases
         DEF Close, LoadEntity, CheckLiked, InsertLike, DeleteLike,
             DeleteResumes, UpdateCount, PublishCount, Respond, CommitFails,
             StatementFails, ProcessDies, SoftDelete, LikesInv, TypeOK, Working
    <3> QED
      BY <3>1, <3>2
  <2> QED
    BY <2>1 DEF OneRequestPerRow
<1> QED
  BY <1>1, <1>2

\* Steps other than Commit: what was checked stays, and an unlike deletes.
LEMMA CheckedKeptInFlight ==
    ASSUME LikesInv, OneRequestPerRow, CheckedStillHolds,
           Next, \A r \in Requests : ~ Commit(r)
    PROVE  CheckedStillHolds' /\ UNCHANGED <<likes, likeCount>>
<1> USE DEF LikesInv, CheckedStillHolds, HoldsRow
<1>1. CASE ProcessDies
  BY <1>1 DEF ProcessDies
<1>2. CASE \E e \in Entities : SoftDelete(e)
  BY <1>2 DEF SoftDelete
<1>3. ASSUME NEW r \in Requests, CommitFails(r) \/ StatementFails(r)
      PROVE  CheckedStillHolds' /\ UNCHANGED <<likes, likeCount>>
  <2>1. EndTransaction(r) /\ UNCHANGED <<likes, likeCount>>
    BY <1>3 DEF CommitFails, StatementFails, RollBack
  <2>2. \A s \in Requests \ {r} : pc'[s] = pc[s] /\ wrote'[s] = wrote[s]
    BY <1>3, <2>1, LocksAfterEnd DEF CommitFails, StatementFails, TypeOK
  <2>3. pc'[r] \in {"idle", "serverError"}
    BY <1>3 DEF CommitFails, StatementFails, TypeOK
  <2> QED
    BY <2>1, <2>2, <2>3
<1>4. ASSUME NEW r \in Requests, DeleteLike(r), r.op = "unlike"
      PROVE  CheckedStillHolds' /\ UNCHANGED <<likes, likeCount>>
  <2>1. LikeRow(r) \in likes
    BY <1>4 DEF DeleteLike
  <2>2. ~ RowBusy(r, {"deleted"})
    BY <1>4 DEF DeleteLike, RowBusy, OneRequestPerRow, UncommittedRows
  <2> QED
    BY <1>4, <2>1, <2>2 DEF DeleteLike, TypeOK
<1>5. ASSUME NEW r \in Requests,
             \/ r.op = "like" /\ InsertLike(r)
             \/ r.op = "unlike" /\ DeleteResumes(r)
             \/ CheckLiked(r)
      PROVE  CheckedStillHolds' /\ UNCHANGED <<likes, likeCount>>
  BY <1>5 DEF InsertLike, DuplicateReply, DeleteResumes, CheckLiked, TypeOK
<1>6. ASSUME NEW r \in Requests,
             \/ Start(r) \/ Close(r) \/ LoadEntity(r)
             \/ UpdateCount(r) \/ PublishCount(r) \/ Respond(r)
      PROVE  CheckedStillHolds' /\ UNCHANGED <<likes, likeCount>>
  BY <1>6 DEF Start, Close, LoadEntity, UpdateCount, PublishCount, Respond, TypeOK
<1> QED
  BY <1>1, <1>2, <1>3, <1>4, <1>5, <1>6, StepCases

\* The commit changes no other patient request's row, and what it adds to the
\* counter it adds to the likers.
LEMMA PatientCommit ==
    ASSUME PatientInv, NEW r \in Requests, Commit(r)
    PROVE  CheckedStillHolds' /\ CountMatchesLikes'
<1>1. CheckedStillHolds'
  <2> SUFFICES ASSUME NEW s \in Requests
               PROVE  CheckedStillHolds!(s)'
    BY DEF CheckedStillHolds
  <2>1. CASE s = r
    BY <2>1 DEF Commit, HoldsRow
  <2>2. CASE s # r /\ pc[s] = "idle"
    BY <2>2 DEF Commit, HoldsRow, Overtaken
  <2>3. CASE s # r /\ pc[s] # "idle"
    <3>1. LikeRow(s) # LikeRow(r)
      BY <2>3 DEF PatientInv, OneRequestPerRow, Commit
    <3>2. pc'[s] = pc[s] /\ wrote'[s] = wrote[s]
      BY <2>3, <3>1, LocksAfterEnd DEF Commit, Overtaken, PatientInv, LikesInv
    <3>3. LikeRow(s) \in likes' <=> LikeRow(s) \in likes
      BY <3>1 DEF Commit
    <3> QED
      BY <3>2, <3>3 DEF PatientInv, CheckedStillHolds
  <2> QED
    BY <2>1, <2>2, <2>3
<1>2. CountMatchesLikes'
  <2> SUFFICES ASSUME NEW e \in Entities
               PROVE  likeCount'[e] = Cardinality(Likers(e)')
    BY DEF CountMatchesLikes
  <2> LikesInv
    BY DEF PatientInv
  <2>1. likeCount[e] = Cardinality(Likers(e)) /\ likeCount[e] \in Nat
    BY DEF PatientInv, CountMatchesLikes, LikesInv, TypeOK
  <2>2. CASE e # r.entity
    BY <2>1, <2>2, LikersAfterCommit DEF Commit, LikesInv, TypeOK
  <2>3. CASE e = r.entity
    <3>1. likeCount'[e] = CountAfter(r, likeCount[e])
      <4>1. rowLock[e] = r /\ likeCount'[e] = newCount[e]
        BY <2>3 DEF Commit, LikesInv, TypeOK, RowLockHeld, HoldsRow
      <4> QED
        BY <4>1, LikesAssumption DEF LikesInv, CountedFromCommitted
    <3>2. CASE r.op = "like"
      <4>1. wrote[r] = "inserted"
        BY <3>2 DEF Commit, LikesInv, UncommittedRows, HoldsRow
      <4> QED
        BY <2>1, <2>3, <3>1, <3>2, <4>1, LikersAfterCommit, LikersFinite,
           FS_AddElement DEF CountAfter
    <3>3. CASE r.op = "unlike"
      <4>1. wrote[r] = "deleted"
        BY <3>3 DEF Commit, PatientInv, CheckedStillHolds, HoldsRow
      <4>2. Cardinality(Likers(e)) # 0
        BY <2>3, <4>1, LikersAfterCommit, LikersFinite, FS_EmptySet
      <4> QED
        BY <2>1, <2>3, <3>1, <3>3, <4>1, <4>2, LikersAfterCommit, LikersFinite,
           FS_RemoveElement DEF CountAfter
    <3> QED
      BY <3>2, <3>3, RequestFields
  <2> QED
    BY <2>2, <2>3
<1> QED
  BY <1>1, <1>2

LEMMA NextPatient ==
    ASSUME ClientWaits = "commit"
    PROVE  PatientInv /\ [Next]_vars => PatientInv'
<1>1. ASSUME PatientInv, Next PROVE PatientInv'
  <2>1. LikesInv' /\ OneRequestPerRow'
    BY <1>1, NextLikesInv, OneRequestKept DEF PatientInv
  <2>2. CheckedStillHolds' /\ CountMatchesLikes'
    <3>1. CASE \E r \in Requests : Commit(r)
      BY <1>1, <3>1, PatientCommit
    <3>2. CASE \A r \in Requests : ~ Commit(r)
      BY <1>1, <3>2, CheckedKeptInFlight
         DEF PatientInv, CountMatchesLikes, Likers
    <3> QED
      BY <3>1, <3>2
  <2> QED
    BY <2>1, <2>2 DEF PatientInv
<1>2. ASSUME PatientInv, UNCHANGED vars PROVE PatientInv'
  <2>1. LikesInv'
    BY <1>2, StutterKeeps DEF PatientInv
  <2>2. OneRequestPerRow' /\ CheckedStillHolds' /\ CountMatchesLikes'
    BY <1>2 DEF vars, PatientInv, OneRequestPerRow, CheckedStillHolds,
                CountMatchesLikes, Likers
  <2> QED
    BY <2>1, <2>2 DEF PatientInv
<1> QED
  BY <1>1, <1>2

\* For clients who send the next request about an entity only after the last
\* one has committed, like_count is the number of like rows, whatever fails.
THEOREM CountExact ==
    ASSUME ClientWaits = "commit"
    PROVE  Spec => []CountMatchesLikes
<1>1. PatientInv => CountMatchesLikes
  BY DEF PatientInv
<1> QED
  BY <1>1, InitPatient, NextPatient, PTL DEF Spec

-----------------------------------------------------------------------------
(* The events leave in the order of the commits.                           *)

\* What clients were shown is what is committed, until the holder of the row
\* has published what it will commit.
ShownInv ==
    \A e \in Entities :
        shown[e] = IF rowLock[e] = NoRequest \/ pc[rowLock[e]] = "publish"
                   THEN likeCount[e] ELSE newCount[e]

\* The holder of the row of another entity than r's is not r.
LEMMA OthersHold ==
    ASSUME LikesInv, NEW r \in Requests, NEW e \in Entities, rowLock[e] # NoRequest
    PROVE  /\ rowLock[e] \in Requests
           /\ pc[rowLock[e]] \in HoldsRow
           /\ rowLock[e] = r <=> e = r.entity /\ pc[r] \in HoldsRow
BY RequestFields DEF LikesInv, TypeOK, RowLockHeld

LEMMA NextShown ==
    ASSUME Faults \cap {"publish", "commit", "process"} = {},
           LikesInv, ShownInv, Next
    PROVE  ShownInv'
<1>1. CASE \E e \in Entities : SoftDelete(e)
  BY <1>1 DEF SoftDelete, ShownInv
<1>2. ASSUME NEW r \in Requests,
             \/ Start(r) \/ Close(r) \/ LoadEntity(r) \/ CheckLiked(r)
             \/ InsertLike(r) \/ DeleteLike(r) \/ DeleteResumes(r) \/ Respond(r)
      PROVE  ShownInv'
  <2>1. \A s \in Requests : pc[s] \in HoldsRow =>
            pc'[s] = pc[s] \/ (pc[s] = "respond" /\ pc'[s] = "commit")
    BY <1>2 DEF Start, Close, LoadEntity, CheckLiked, InsertLike, DeleteLike,
                DeleteResumes, Respond, HoldsRow, ErrorReplies, LikesInv, TypeOK
  <2>2. UNCHANGED <<likeCount, newCount, rowLock, shown>>
    BY <1>2 DEF Start, Close, LoadEntity, CheckLiked, InsertLike, DeleteLike,
                DeleteResumes, Respond
  <2> QED
    BY <2>1, <2>2, OthersHold DEF ShownInv
<1>3. ASSUME NEW r \in Requests, UpdateCount(r)
      PROVE  ShownInv'
  <2>1. \A e \in Entities : rowLock[e] # NoRequest => rowLock[e] # r
    BY <1>3, OthersHold DEF UpdateCount
  <2>2. r \in Requests /\ r.entity \in Entities /\ r # NoRequest
    BY RequestFields, LikesAssumption
  <2> QED
    BY <1>3, <2>1, <2>2, OthersHold DEF UpdateCount, ShownInv, LikesInv, TypeOK
<1>4. ASSUME NEW r \in Requests, PublishCount(r)
      PROVE  ShownInv'
  <2>1. pc[r] \in HoldsRow /\ rowLock[r.entity] = r /\ r # NoRequest
    BY <1>4, LikesAssumption DEF PublishCount, HoldsRow, LikesInv, RowLockHeld
  <2>2. pc'[r] = "respond" /\ \A s \in Requests \ {r} : pc'[s] = pc[s]
    BY <1>4 DEF PublishCount, LikesInv, TypeOK
  <2>3. shown' = [shown EXCEPT ![r.entity] = newCount[r.entity]]
    BY <1>4 DEF PublishCount
  <2>4. \A e \in Entities \ {r.entity} : rowLock[e] # r
    BY <2>1, OthersHold, LikesAssumption
  <2> QED
    BY <1>4, <2>1, <2>2, <2>3, <2>4, RequestFields, OthersHold
       DEF PublishCount, ShownInv, LikesInv, TypeOK
<1>5. ASSUME NEW r \in Requests, Commit(r)
      PROVE  ShownInv'
  <2>1. pc[r] = "commit" /\ rowLock[r.entity] = r /\ r # NoRequest
    BY <1>5, LikesAssumption DEF Commit, HoldsRow, LikesInv, RowLockHeld
  <2>2. rowLock' = [rowLock EXCEPT ![r.entity] = NoRequest]
    BY <1>5, <2>1 DEF Commit, EndTransaction
  <2>3. \A s \in Requests : pc[s] \in HoldsRow /\ s # r => pc'[s] = pc[s]
    BY <1>5 DEF Commit, Overtaken, HoldsRow, LikesInv, TypeOK
  <2>4. \A e \in Entities \ {r.entity} : rowLock[e] # r
    BY <2>1, OthersHold, LikesAssumption
  <2>5. shown[r.entity] = newCount[r.entity]
    BY <2>1, RequestFields DEF ShownInv
  <2> QED
    BY <1>5, <2>2, <2>3, <2>4, <2>5, RequestFields, OthersHold
       DEF Commit, ShownInv, LikesInv, TypeOK
<1>6. ASSUME NEW r \in Requests, StatementFails(r)
      PROVE  ShownInv'
  <2>1. pc[r] \notin {"respond", "commit"} /\ UNCHANGED <<likeCount, shown>>
    BY <1>6 DEF StatementFails
  <2>2. \A s \in Requests \ {r} : pc'[s] = pc[s]
    BY <1>6 DEF StatementFails, LikesInv, TypeOK
  <2>3. rowLock' = [rowLock EXCEPT ![r.entity] = IF @ = r THEN NoRequest ELSE @]
    BY <1>6 DEF StatementFails, RollBack, EndTransaction
  <2>4. \A e \in Entities : rowLock[e] # r => newCount'[e] = newCount[e]
    BY <1>6 DEF StatementFails, RollBack, LikesInv, TypeOK
  <2>5. \A e \in Entities : rowLock[e] = r => shown[e] = likeCount[e] /\ rowLock'[e] = NoRequest
    BY <2>1, <2>3, OthersHold, LikesAssumption DEF ShownInv, HoldsRow, LikesInv, TypeOK
  <2>6. \A e \in Entities : rowLock[e] # r => rowLock'[e] = rowLock[e]
    BY <2>3 DEF LikesInv, TypeOK
  <2> QED
    BY <2>1, <2>2, <2>4, <2>5, <2>6, OthersHold DEF ShownInv
<1> QED
  BY <1>1, <1>2, <1>3, <1>4, <1>5, <1>6, StepCases DEF CommitFails, ProcessDies

\* As long as no event is lost and no commit fails after its event has left,
\* the count every client was last shown is the committed one, whenever nobody
\* holds the row.
THEOREM BroadcastsAreCurrent ==
    ASSUME Faults \cap {"publish", "commit", "process"} = {}
    PROVE  Spec => []BroadcastIsCurrent
<1>1. Init => ShownInv
  BY DEF Init, ShownInv
<1>2. LikesInv /\ ShownInv /\ [Next]_vars => ShownInv'
  <2>1. ASSUME ShownInv, UNCHANGED vars PROVE ShownInv'
    BY <2>1 DEF vars, ShownInv
  <2> QED
    BY <2>1, NextShown
<1>3. ShownInv => BroadcastIsCurrent
  BY DEF ShownInv, BroadcastIsCurrent
<1> QED
  BY <1>1, <1>2, <1>3, LikesInvariant, PTL DEF Spec

-----------------------------------------------------------------------------
(* Deleted entities.                                                       *)

LEMMA FrozenStays ==
    ASSUME LikesInv, NEW e \in Entities, Frozen(e), Next
    PROVE  Frozen(e)' /\ Likers(e)' = Likers(e) /\ likeCount'[e] = likeCount[e]
<1> USE DEF Frozen, ErrorReplies
<1>1. CASE ProcessDies
  BY <1>1 DEF ProcessDies, Likers
<1>2. CASE \E d \in Entities : SoftDelete(d)
  BY <1>2 DEF SoftDelete, Likers, LikesInv, TypeOK
<1>3. ASSUME NEW r \in Requests, Commit(r)
      PROVE  Frozen(e)' /\ Likers(e)' = Likers(e) /\ likeCount'[e] = likeCount[e]
  <2>1. r.entity # e /\ r.entity \in Entities
    BY <1>3, RequestFields DEF Commit
  <2>2. \A u \in Users : <<u, e>> \in likes' <=> <<u, e>> \in likes
    BY <1>3, <2>1 DEF Commit, LikeRow
  <2>3. \A s \in Requests : s.entity = e => pc'[s] = pc[s]
    BY <1>3, <2>1 DEF Commit, Overtaken, LikesInv, TypeOK
  <2> QED
    BY <1>3, <2>1, <2>2, <2>3 DEF Commit, Likers, LikesInv, TypeOK
<1>4. ASSUME NEW r \in Requests,
             \/ Start(r) \/ Close(r) \/ LoadEntity(r) \/ CheckLiked(r)
             \/ InsertLike(r) \/ DeleteLike(r) \/ DeleteResumes(r)
             \/ UpdateCount(r) \/ PublishCount(r) \/ Respond(r)
             \/ CommitFails(r) \/ StatementFails(r)
      PROVE  Frozen(e)' /\ Likers(e)' = Likers(e) /\ likeCount'[e] = likeCount[e]
  <2>1. UNCHANGED <<status, likes, likeCount>>
    BY <1>4 DEF Start, Close, LoadEntity, CheckLiked, InsertLike, DeleteLike,
                DeleteResumes, UpdateCount, PublishCount, Respond, CommitFails,
                StatementFails
  <2>2. r.entity = e => pc'[r] \in {"idle", "load"} \cup ErrorReplies
    BY <1>4 DEF Start, Close, LoadEntity, CheckLiked, InsertLike, DeleteLike,
                DeleteResumes, UpdateCount, PublishCount, Respond, CommitFails,
                StatementFails, LikesInv, TypeOK
  <2>3. \A s \in Requests \ {r} : pc'[s] = pc[s]
    BY <1>4 DEF Start, Close, LoadEntity, CheckLiked, InsertLike, DeleteLike,
                DeleteResumes, UpdateCount, PublishCount, Respond, CommitFails,
                StatementFails, LikesInv, TypeOK
  <2> QED
    BY <2>1, <2>2, <2>3 DEF Likers
<1> QED
  BY <1>1, <1>2, <1>3, <1>4, StepCases

\* The likes of a deleted thread or comment never change again once the
\* requests that had found it ACTIVE are through.
THEOREM DeletedStaysFrozen == Spec => DeletedIsFrozen
<1>1. LikesInv /\ [Next]_vars => [\A e \in Entities : Frozen(e) =>
          Frozen(e)' /\ Likers(e)' = Likers(e) /\ likeCount'[e] = likeCount[e]]_vars
  BY FrozenStays
<1> QED
  BY <1>1, LikesInvariant, PTL DEF Spec, DeletedIsFrozen
=============================================================================
