-------------------------- MODULE DiscussionProofs --------------------------
(***************************************************************************)
(* Proofs about Discussion, for any threads, comments and requests.  With  *)
(* any clients and any faults DiscussionInv is inductive, so comment_count *)
(* and reply_count never claim more comments than are listed; with careful *)
(* clients and a broker that takes every event, CarefulInv is, so they     *)
(* claim exactly those, and what is removed is not shown.                  *)
(***************************************************************************)
EXTENDS Discussion, FiniteSetTheorems, TLAPS

LEMMA RequestFields ==
    ASSUME NEW r \in Requests
    PROVE  /\ r.op \in {"create", "edit", "delete"}
           /\ r.entity \in Entities
           /\ r.op = "create" => r.entity \in Comments
           /\ r # None
BY DiscussionAssumption DEF RequestType

LEMMA NoneIsNone ==
    /\ None \notin Entities /\ None \notin Threads /\ None \notin Comments
    /\ \A t \in Threads : t \notin Comments /\ t \in Entities
    /\ \A c \in Comments : c \notin Threads /\ c \in Entities
BY DiscussionAssumption DEF Entities

\* Only requests about comments count.
LEMMA CountsComments ==
    ASSUME NEW r \in Requests
    PROVE  /\ Counts(r) => r.entity \in Comments /\ r.op # "edit"
           /\ r.op = "create" => Counts(r)
BY RequestFields DEF Counts

LEMMA CountAfterType ==
    ASSUME NEW r \in Requests, NEW n \in Nat
    PROVE  CountAfter(r, n) \in Nat
BY DEF CountAfter

LEMMA DeletedStatusType ==
    ASSUME NEW r
    PROVE  DeletedStatus(r) \in Statuses /\ DeletedStatus(r) # "NONE"
BY DEF DeletedStatus, Statuses

\* The comments an entity counts are finitely many.
LEMMA CountedFinite ==
    ASSUME NEW e \in Entities
    PROVE  IsFiniteSet(Counted(e)) /\ Cardinality(Counted(e)) \in Nat
<1>1. Counted(e) \in SUBSET Comments
  BY DEF Counted
<1>2. IsFiniteSet(Counted(e))
  BY <1>1, DiscussionAssumption, FS_Subset
<1> QED
  BY <1>2, FS_CardinalityType

\* A step that keeps the statuses, and the places of the comments that exist,
\* keeps what is counted.
LEMMA CountedKept ==
    ASSUME status' = status,
           \A c \in Comments : status[c] # "NONE" =>
               threadOf'[c] = threadOf[c] /\ parentOf'[c] = parentOf[c],
           NEW e \in Entities
    PROVE  Counted(e)' = Counted(e)
BY DEF Counted, Listed

LEMMA CountsKept ==
    ASSUME CountsNeverExceedListed, status' = status, count' = count,
           \A c \in Comments : status[c] # "NONE" =>
               threadOf'[c] = threadOf[c] /\ parentOf'[c] = parentOf[c]
    PROVE  CountsNeverExceedListed'
BY CountedKept DEF CountsNeverExceedListed

-----------------------------------------------------------------------------
(* The initial states.                                                     *)

LEMMA InitDiscussionInv == Init => DiscussionInv
<1> SUFFICES ASSUME Init PROVE DiscussionInv
  OBVIOUS
<1> USE DEF Init
<1>1. TypeOK
  BY DEF TypeOK, Statuses
<1>2. LocksHeld
  BY RequestFields DEF LocksHeld, Written, AfterWrite, AfterThread, AfterParent
<1>3. PlacesHeld
  BY NoneIsNone DEF PlacesHeld, Working
<1>4. ParentsExist
  BY DEF ParentsExist, AfterWrite, AfterThread, AfterParent
<1>5. NewValues
  BY DEF NewValues
<1>6. CountsNeverExceedListed
  BY CountedFinite DEF CountsNeverExceedListed
<1> QED
  BY <1>1, <1>2, <1>3, <1>4, <1>5, <1>6 DEF DiscussionInv

-----------------------------------------------------------------------------
(* Steps that only move a request on.                                      *)

\* r goes on to p, writes nothing and does not pass a write.
MovesOn(r, p) ==
    /\ p \in ({"idle"} \cup Working \cup ErrorReplies)
             \ {"threadCount", "parentCount"}
    /\ pc[r] \notin {"threadCount", "parentCount"}
    /\ pc[r] \in AfterParent <=> p \in AfterParent
    /\ p \in Working /\ r.op = "create" => pc[r] \in Working
    /\ p = "write" /\ r.op = "create" /\ parentOf[r.entity] # None
          => status[parentOf[r.entity]] # "NONE"
    /\ p \in Working \ {"load"} /\ r.op # "create" => status[r.entity] # "NONE"
    /\ pc' = [pc EXCEPT ![r] = p]
    /\ seen' \in [Requests -> Statuses \cup {"NONE"}]
    /\ told' \in [Entities -> Statuses \cup {"NONE"}]
    /\ UNCHANGED <<rows, places>>

LEMMA MoveOn ==
    ASSUME DiscussionInv, NEW r \in Requests, NEW p, MovesOn(r, p)
    PROVE  DiscussionInv'
<1> USE DEF DiscussionInv, MovesOn, rows, places
<1>1. TypeOK'
  BY DEF TypeOK
<1>2. LocksHeld'
  <2>1. \A s \in Requests : Written(s)' = Written(s)
    BY DEF Written, AfterWrite, AfterThread, AfterParent, TypeOK
  <2> QED
    BY <2>1 DEF LocksHeld, TypeOK, Counts, Privileged, AfterParent
<1>3. PlacesHeld'
  BY DEF PlacesHeld, TypeOK
<1>4. ParentsExist'
  BY DEF ParentsExist, TypeOK, AfterWrite, AfterThread, AfterParent
<1>5. NewValues'
  BY DEF NewValues, CountAfter, DeletedStatus, Privileged
<1>6. CountsNeverExceedListed'
  BY CountsKept
<1> QED
  BY <1>1, <1>2, <1>3, <1>4, <1>5, <1>6

LEMMA CloseKeeps ==
    ASSUME DiscussionInv, NEW r \in Requests, Close(r)
    PROVE  DiscussionInv'
<1>1. MovesOn(r, "idle")
  BY DEF MovesOn, Close, ErrorReplies, Working, AfterParent, DiscussionInv,
         TypeOK, rows, places
<1> QED
  BY <1>1, MoveOn

LEMMA PublishKeeps ==
    ASSUME DiscussionInv, NEW r \in Requests, Publish(r)
    PROVE  DiscussionInv'
<1>1. told' \in [Entities -> Statuses \cup {"NONE"}]
  BY RequestFields, DeletedStatusType
     DEF Publish, EventShows, Statuses, DiscussionInv, TypeOK
<1>2. r.op # "create" => status[r.entity] # "NONE"
  BY DEF Publish, DiscussionInv, PlacesHeld, Working
<1>3. MovesOn(r, "commit")
  BY <1>1, <1>2 DEF MovesOn, Publish, Working, AfterParent, DiscussionInv,
                    TypeOK, rows, places
<1> QED
  BY <1>3, MoveOn

-----------------------------------------------------------------------------
(* A transaction that ends without a commit.                               *)

\* What the counting requests of others have written stays as it was.
LEMMA OthersWritten ==
    ASSUME DiscussionInv, NEW r \in Requests, RollBack(r), pc[r] \in Working,
           NEW s \in Requests, s # r, pc'[s] = pc[s], Counts(s)
    PROVE  Written(s)' = Written(s)
<1>0. s.entity \in Comments
  BY CountsComments
<1>1. CASE r.op = "create" /\ s.entity = r.entity
  <2>1. pc[s] \notin AfterWrite
    BY <1>1 DEF DiscussionInv, PlacesHeld, Working, AfterWrite, AfterThread,
                AfterParent
  <2> QED
    BY <2>1 DEF Written, AfterWrite, AfterThread
<1>2. CASE ~ (r.op = "create" /\ s.entity = r.entity)
  <2>1. /\ threadOf'[s.entity] = threadOf[s.entity]
        /\ parentOf'[s.entity] = parentOf[s.entity]
    BY <1>0, <1>2 DEF RollBack
  <2> QED
    BY <2>1 DEF Written
<1> QED
  BY <1>1, <1>2

\* After it, r is idle or has an error to report.
LEMMA RollBackKeeps ==
    ASSUME DiscussionInv, NEW r \in Requests, RollBack(r), pc[r] \in Working,
           NEW p \in {"idle"} \cup ErrorReplies, pc' = [pc EXCEPT ![r] = p]
    PROVE  DiscussionInv'
<1>1. \A s \in Requests : pc'[s] = IF s = r THEN p ELSE pc[s]
  BY DEF DiscussionInv, TypeOK
<1>2. p \notin Working /\ p \notin AfterWrite /\ p \notin AfterThread
      /\ p \notin AfterParent
  BY DEF ErrorReplies, Working, AfterWrite, AfterThread, AfterParent
<1>3. \A e \in Entities : lock'[e] = IF lock[e] = r THEN None ELSE lock[e]
  BY DEF RollBack
<1>4. \A c \in Comments : status[c] # "NONE" =>
          threadOf'[c] = threadOf[c] /\ parentOf'[c] = parentOf[c]
  BY DEF RollBack, DiscussionInv, PlacesHeld
<1>5. TypeOK'
  BY <1>1 DEF RollBack, DiscussionInv, TypeOK
<1>6. LocksHeld'
  <2> SUFFICES ASSUME NEW s \in Requests
               PROVE  LocksHeld!(s)'
    BY DEF LocksHeld
  <2>1. CASE s = r
    <3>1. \A e \in Entities : lock'[e] # s
      BY <2>1, <1>3, RequestFields
    <3>2. Written(s)' = {}
      BY <2>1, <1>1, <1>2 DEF Written
    <3> QED
      BY <2>1, <3>1, <3>2, <1>1, <1>2 DEF Working
  <2>2. CASE s # r
    <3>1. \A e \in Entities : lock'[e] = s <=> lock[e] = s
      BY <2>2, <1>3, RequestFields
    <3>2. pc'[s] = pc[s]
      BY <2>2, <1>1
    <3>3. Counts(s) => Written(s)' = Written(s)
      BY <2>2, <3>2, OthersWritten
    <3> QED
      BY <3>1, <3>2, <3>3 DEF DiscussionInv, LocksHeld, Counts, Privileged
  <2> QED
    BY <2>1, <2>2
<1>7. PlacesHeld'
  <2>1. \A c \in Comments : /\ parentOf'[c] # c
                            /\ status'[c] # "NONE" => threadOf'[c] \in Threads
    BY <1>4, NoneIsNone DEF RollBack, DiscussionInv, PlacesHeld
  <2>2. ASSUME NEW s \in Requests, s.op = "create", pc'[s] \in Working
        PROVE  /\ status'[s.entity] = "NONE" /\ threadOf'[s.entity] \in Threads
               /\ \A q \in Requests :
                     q.op = "create" /\ q.entity = s.entity /\ pc'[q] \in Working
                     => q = s
    <3>1. s # r /\ pc[s] \in Working
      BY <2>2, <1>1, <1>2
    <3>2. ~ (r.op = "create" /\ s.entity = r.entity)
      BY <2>2, <3>1 DEF DiscussionInv, PlacesHeld
    <3>3. threadOf'[s.entity] = threadOf[s.entity]
      BY <2>2, <3>2, RequestFields DEF RollBack
    <3> QED
      BY <2>2, <3>1, <3>3, <1>1, <1>2 DEF RollBack, DiscussionInv, PlacesHeld
  <2>3. \A s \in Requests : s.op # "create" /\ pc'[s] \in Working \ {"load"}
                            => status'[s.entity] # "NONE"
    BY <1>1, <1>2 DEF RollBack, DiscussionInv, PlacesHeld
  <2> QED
    BY <2>1, <2>2, <2>3 DEF PlacesHeld
<1>8. ParentsExist'
  <2>1. \A c \in Comments : status'[c] # "NONE" /\ parentOf'[c] # None
                            => status'[parentOf'[c]] # "NONE"
    BY <1>4 DEF RollBack, DiscussionInv, ParentsExist
  <2>2. ASSUME NEW s \in Requests
        PROVE  /\ s.op = "create" /\ pc'[s] \in {"write"} \cup AfterWrite
                  => parentOf'[s.entity] = None
                     \/ status'[parentOf'[s.entity]] # "NONE"
               /\ pc'[s] = "parentCount" => parentOf'[s.entity] # None
    <3>1. CASE s = r
      BY <3>1, <1>1, <1>2 DEF Working
    <3>2. CASE s # r /\ pc[s] \in {"write"} \cup AfterWrite /\ Counts(s)
      <4>1. ~ (r.op = "create" /\ s.entity = r.entity)
        BY <3>2 DEF DiscussionInv, PlacesHeld, Working, AfterWrite,
                    AfterThread, AfterParent
      <4>2. parentOf'[s.entity] = parentOf[s.entity]
        BY <3>2, <4>1, CountsComments DEF RollBack
      <4> QED
        BY <3>2, <4>2, <1>1 DEF RollBack, DiscussionInv, ParentsExist
    <3>3. CASE s # r /\ ~ (pc[s] \in {"write"} \cup AfterWrite /\ Counts(s))
      BY <3>3, <1>1, CountsComments
         DEF DiscussionInv, LocksHeld, AfterWrite, AfterThread
    <3> QED
      BY <3>1, <3>2, <3>3
  <2> QED
    BY <2>1, <2>2 DEF ParentsExist
<1>9. NewValues'
  BY <1>3, RequestFields
     DEF RollBack, DiscussionInv, NewValues, CountAfter, DeletedStatus, Privileged
<1>10. CountsNeverExceedListed'
  BY <1>4, CountsKept DEF RollBack, DiscussionInv
<1> QED
  BY <1>5, <1>6, <1>7, <1>8, <1>9, <1>10 DEF DiscussionInv

LEMMA FailKeeps ==
    ASSUME DiscussionInv, NEW r \in Requests, pc[r] \in Working,
           NEW reply \in ErrorReplies, Fail(r, reply)
    PROVE  DiscussionInv'
BY RollBackKeeps DEF Fail

LEMMA CommitFailsKeeps ==
    ASSUME DiscussionInv, NEW r \in Requests, CommitFails(r)
    PROVE  DiscussionInv'
BY RollBackKeeps DEF CommitFails, Working

LEMMA StatementFailsKeeps ==
    ASSUME DiscussionInv, NEW r \in Requests, StatementFails(r)
    PROVE  DiscussionInv'
BY FailKeeps DEF StatementFails, ErrorReplies

LEMMA DeadlockVictimKeeps ==
    ASSUME DiscussionInv, NEW r \in Requests, DeadlockVictim(r)
    PROVE  DiscussionInv'
<1>1. NextRow(r) # None
  BY DEF DeadlockVictim, Ring, WaitsFor
<1>2. pc[r] \in Working
  BY <1>1 DEF NextRow, Working
<1> QED
  BY <1>2, FailKeeps DEF DeadlockVictim, ErrorReplies

\* The process dies: every transaction ends like that.
LEMMA ProcessDiesKeeps ==
    ASSUME DiscussionInv, ProcessDies
    PROVE  DiscussionInv'
<1> USE DEF DiscussionInv, ProcessDies
<1>1. \A c \in Comments : status[c] # "NONE" =>
          threadOf'[c] = threadOf[c] /\ parentOf'[c] = parentOf[c]
  OBVIOUS
<1>2. TypeOK'
  BY DEF TypeOK
<1>3. LocksHeld'
  BY RequestFields DEF LocksHeld, Written, AfterWrite, AfterThread, AfterParent
<1>4. PlacesHeld'
  BY NoneIsNone DEF PlacesHeld, Working
<1>5. ParentsExist'
  BY DEF ParentsExist, AfterWrite, AfterThread, AfterParent
<1>6. NewValues'
  BY DEF NewValues
<1>7. CountsNeverExceedListed'
  BY <1>1, CountsKept
<1> QED
  BY <1>2, <1>3, <1>4, <1>5, <1>6, <1>7

-----------------------------------------------------------------------------
(* Loading.                                                                *)

LEMMA LoadThreadOfCommentKeeps ==
    ASSUME DiscussionInv, NEW r \in Requests, r.op = "create",
           LoadThreadOfComment(r)
    PROVE  DiscussionInv'
<1>1. CASE status[threadOf[r.entity]] = "ACTIVE"
  <2>1. MovesOn(r, "write") \/ MovesOn(r, "loadParent")
    BY <1>1 DEF LoadThreadOfComment, MovesOn, Working, AfterParent,
                DiscussionInv, TypeOK
  <2> QED
    BY <2>1, MoveOn
<1>2. CASE status[threadOf[r.entity]] # "ACTIVE"
  BY <1>2, FailKeeps DEF LoadThreadOfComment, Working, ErrorReplies
<1> QED
  BY <1>1, <1>2

LEMMA LoadParentKeeps ==
    ASSUME DiscussionInv, NEW r \in Requests, r.op = "create", LoadParent(r)
    PROVE  DiscussionInv'
<1>1. CASE status[parentOf[r.entity]] = "ACTIVE"
  <2>1. MovesOn(r, "write")
    BY <1>1 DEF LoadParent, MovesOn, Working, AfterParent, DiscussionInv, TypeOK
  <2> QED
    BY <2>1, MoveOn
<1>2. CASE status[parentOf[r.entity]] # "ACTIVE"
  BY <1>2, FailKeeps DEF LoadParent, Working, ErrorReplies
<1> QED
  BY <1>1, <1>2

LEMMA LoadEntityKeeps ==
    ASSUME DiscussionInv, NEW r \in Requests, r.op # "create", LoadEntity(r)
    PROVE  DiscussionInv'
<1>1. CASE status[r.entity] # "NONE" /\ Authorized(r)
  <2>1. seen' \in [Requests -> Statuses \cup {"NONE"}]
    BY <1>1, RequestFields DEF LoadEntity, DiscussionInv, TypeOK
  <2>2. MovesOn(r, "write")
    BY <1>1, <2>1 DEF LoadEntity, MovesOn, Working, AfterParent, DiscussionInv,
                      TypeOK, rows
  <2> QED
    BY <2>2, MoveOn
<1>2. CASE ~ (status[r.entity] # "NONE" /\ Authorized(r))
  BY <1>2, FailKeeps DEF LoadEntity, Working, ErrorReplies
<1> QED
  BY <1>1, <1>2

-----------------------------------------------------------------------------
(* Entering the route.                                                     *)

LEMMA StartOtherKeeps ==
    ASSUME DiscussionInv, NEW r \in Requests, r.op # "create", Start(r)
    PROVE  DiscussionInv'
<1>1. MovesOn(r, "load")
  BY DEF Start, MovesOn, Working, AfterParent, DiscussionInv, TypeOK, ErrorReplies
<1> QED
  BY <1>1, MoveOn

\* A place is named for a comment that does not exist and that no other request
\* is creating.
LEMMA StartCreateKeeps ==
    ASSUME DiscussionInv, NEW r \in Requests, r.op = "create", Start(r)
    PROVE  DiscussionInv'
<1>1. PICK t \in Threads, p \in (Comments \ {r.entity}) \cup {None} :
         /\ threadOf' = [threadOf EXCEPT ![r.entity] = t]
         /\ parentOf' = [parentOf EXCEPT ![r.entity] = p]
  BY DEF Start
<1>2. /\ pc[r] = "idle" /\ pc' = [pc EXCEPT ![r] = "load"]
      /\ status[r.entity] = "NONE" /\ r.entity \in Comments
      /\ \A s \in Requests : s.op = "create" /\ s.entity = r.entity
                             => pc[s] = "idle"
      /\ UNCHANGED <<status, count, newStatus, newCount, lock, seen, told>>
  BY RequestFields DEF Start, InFlight, rows
<1>3. \A c \in Comments : c # r.entity =>
          threadOf'[c] = threadOf[c] /\ parentOf'[c] = parentOf[c]
  BY <1>1 DEF DiscussionInv, TypeOK
<1>4. threadOf'[r.entity] = t /\ parentOf'[r.entity] = p
  BY <1>1, <1>2 DEF DiscussionInv, TypeOK
<1>5. \A s \in Requests : pc'[s] = IF s = r THEN "load" ELSE pc[s]
  BY <1>2 DEF DiscussionInv, TypeOK
\* Nobody writes in the name of the comment.
<1>6. ASSUME NEW s \in Requests, s.entity = r.entity, s # r
      PROVE  pc[s] \notin {"write"} \cup AfterWrite
  BY <1>2, <1>6 DEF DiscussionInv, PlacesHeld, Working, AfterWrite, AfterThread,
                    AfterParent
<1>7. TypeOK'
  BY <1>1, <1>2 DEF DiscussionInv, TypeOK, Working
<1>8. LocksHeld'
  <2> SUFFICES ASSUME NEW s \in Requests
               PROVE  LocksHeld!(s)'
    BY DEF LocksHeld
  <2>1. CASE Counts(s)
    <3>1. Written(s)' = Written(s)
      BY <1>2, <1>3, <1>5, <1>6, <2>1, CountsComments
         DEF Written, AfterWrite, AfterThread, AfterParent
    <3> QED
      BY <1>2, <1>5, <2>1, <3>1 DEF DiscussionInv, LocksHeld, Counts, Privileged
  <2>2. CASE ~ Counts(s)
    BY <1>2, <1>5, <2>2, CountsComments
       DEF DiscussionInv, LocksHeld, Counts, Privileged, AfterParent
  <2> QED
    BY <2>1, <2>2
<1>9. PlacesHeld'
  BY <1>2, <1>3, <1>4, <1>5, RequestFields, NoneIsNone
     DEF DiscussionInv, PlacesHeld, Working
<1>10. ParentsExist'
  <2>1. ASSUME NEW s \in Requests
        PROVE  /\ s.op = "create" /\ pc'[s] \in {"write"} \cup AfterWrite
                  => parentOf'[s.entity] = None
                     \/ status'[parentOf'[s.entity]] # "NONE"
               /\ pc'[s] = "parentCount" => parentOf'[s.entity] # None
    <3>1. CASE pc'[s] \in {"write"} \cup AfterWrite /\ Counts(s)
      BY <1>2, <1>3, <1>5, <1>6, <3>1, CountsComments
         DEF DiscussionInv, ParentsExist, AfterWrite, AfterThread, AfterParent
    <3>2. CASE ~ (pc'[s] \in {"write"} \cup AfterWrite /\ Counts(s))
      BY <1>5, <3>2, CountsComments
         DEF DiscussionInv, LocksHeld, AfterWrite, AfterThread
    <3> QED
      BY <3>1, <3>2
  <2>2. \A c \in Comments : status'[c] # "NONE" /\ parentOf'[c] # None
                            => status'[parentOf'[c]] # "NONE"
    BY <1>2, <1>3 DEF DiscussionInv, ParentsExist
  <2> QED
    BY <2>1, <2>2 DEF ParentsExist
<1>11. NewValues'
  BY <1>2 DEF DiscussionInv, NewValues, CountAfter, DeletedStatus, Privileged
<1>12. CountsNeverExceedListed'
  BY <1>2, <1>3, CountsKept DEF DiscussionInv
<1> QED
  BY <1>7, <1>8, <1>9, <1>10, <1>11, <1>12 DEF DiscussionInv

-----------------------------------------------------------------------------
(* Writing a row.                                                          *)

\* r takes the lock of row e, writes it and goes on to p.
TakesRow(r, e, p) ==
    /\ e \in Entities /\ lock[e] = None
    /\ lock' = [lock EXCEPT ![e] = r]
    /\ pc[r] \in Working \ {"load"} /\ p \in AfterWrite
    /\ pc' = [pc EXCEPT ![r] = p]
    /\ Counts(r) => Written(r)' = Written(r) \cup {e}
    /\ ~ Counts(r) => e = r.entity /\ p \in AfterParent
    /\ p = "parentCount" => parentOf[r.entity] # None
    /\ r.op = "create" /\ parentOf[r.entity] # None
          => status[parentOf[r.entity]] # "NONE"
    /\ newCount' = [newCount EXCEPT
                      ![e] = IF r.entity = e THEN count[e]
                             ELSE CountAfter(r, count[e])]
    /\ newStatus' \in [Entities -> Statuses \cup {"NONE"}]
    /\ \A f \in Entities \ {e} : newStatus'[f] = newStatus[f]
    /\ newStatus'[e] \in
          IF r.entity # e \/ r.op = "edit" THEN {status[e]}
          ELSE IF r.op = "create" THEN {"ACTIVE"}
          ELSE {status[e], DeletedStatus(r)}
    /\ UNCHANGED <<status, count, places, seen, told>>

LEMMA TakeRow ==
    ASSUME DiscussionInv, NEW r \in Requests, NEW e, NEW p, TakesRow(r, e, p)
    PROVE  DiscussionInv'
<1>1. \A s \in Requests : pc'[s] = IF s = r THEN p ELSE pc[s]
  BY DEF DiscussionInv, TypeOK, TakesRow
<1>2. \A f \in Entities : lock'[f] = IF f = e THEN r ELSE lock[f]
  BY DEF DiscussionInv, TypeOK, TakesRow
<1>3. p \in Working \ {"load"} /\ p \in AfterWrite
  BY DEF TakesRow, Working, AfterWrite, AfterThread, AfterParent
<1>4. TypeOK'
  <2>1. newCount' \in [Entities -> Nat]
    BY CountAfterType DEF DiscussionInv, TypeOK, TakesRow
  <2> QED
    BY <2>1, <1>3 DEF DiscussionInv, TypeOK, TakesRow, places
<1>5. LocksHeld'
  <2> SUFFICES ASSUME NEW s \in Requests
               PROVE  LocksHeld!(s)'
    BY DEF LocksHeld
  <2>1. CASE s = r
    <3>1. CASE Counts(r)
      BY <2>1, <3>1, <1>1, <1>2
         DEF DiscussionInv, LocksHeld, TakesRow, Counts, Privileged
    <3>2. CASE ~ Counts(r)
      BY <2>1, <3>2, <1>1, <1>2
         DEF DiscussionInv, LocksHeld, TakesRow, Counts, Privileged, AfterParent
    <3> QED
      BY <3>1, <3>2
  <2>2. CASE s # r
    <3>1. \A f \in Entities : lock'[f] = s <=> lock[f] = s
      BY <2>2, <1>2, RequestFields DEF TakesRow
    <3>2. Written(s)' = Written(s) /\ pc'[s] = pc[s]
      BY <2>2, <1>1 DEF Written, TakesRow, places
    <3> QED
      BY <3>1, <3>2 DEF DiscussionInv, LocksHeld, Counts, Privileged
  <2> QED
    BY <2>1, <2>2
<1>6. PlacesHeld'
  BY <1>1, <1>3 DEF DiscussionInv, PlacesHeld, TakesRow, Working, places
<1>7. ParentsExist'
  BY <1>1 DEF DiscussionInv, ParentsExist, TakesRow, places
<1>8. NewValues'
  <2>1. \A f \in Entities : newCount'[f] = IF f = e THEN IF r.entity = e THEN count[e]
                                                        ELSE CountAfter(r, count[e])
                                           ELSE newCount[f]
    BY DEF DiscussionInv, TypeOK, TakesRow
  <2>2. \A f \in Entities : NewValues!(f)'
    <3> SUFFICES ASSUME NEW f \in Entities PROVE NewValues!(f)'
      OBVIOUS
    <3>1. CASE f = e
      BY <3>1, <2>1, <1>2, RequestFields
         DEF TakesRow, CountAfter, DeletedStatus, Privileged
    <3>2. CASE f # e
      <4>1. /\ lock'[f] = lock[f] /\ newCount'[f] = newCount[f]
            /\ newStatus'[f] = newStatus[f]
        BY <3>2, <2>1, <1>2 DEF TakesRow
      <4>2. status' = status /\ count' = count
        BY DEF TakesRow
      <4> QED
        BY <4>1, <4>2
           DEF DiscussionInv, NewValues, CountAfter, DeletedStatus, Privileged
    <3> QED
      BY <3>1, <3>2
  <2> QED
    BY <2>2 DEF NewValues
<1>9. CountsNeverExceedListed'
  BY CountsKept DEF DiscussionInv, TakesRow, places
<1> QED
  BY <1>4, <1>5, <1>6, <1>7, <1>8, <1>9 DEF DiscussionInv

\* A comment being created is nobody else's entity or parent.
LEMMA NewRowIsFree ==
    ASSUME DiscussionInv, NEW r \in Requests, r.op = "create", pc[r] = "write"
    PROVE  lock[r.entity] = None
<1> SUFFICES ASSUME NEW s \in Requests, lock[r.entity] = s
             PROVE  FALSE
  BY RequestFields DEF DiscussionInv, TypeOK
<1>1. /\ r.entity \in Comments /\ r.entity \in Entities /\ r.entity \notin Threads
      /\ status[r.entity] = "NONE"
  BY RequestFields, NoneIsNone DEF DiscussionInv, PlacesHeld, Working
<1>2. CASE Counts(s)
  <2>1. r.entity \in Written(s)
    BY <1>1, <1>2 DEF DiscussionInv, LocksHeld
  <2>2. s # r /\ pc[s] \in AfterWrite
    BY <2>1 DEF Written, AfterWrite, AfterThread, AfterParent
  <2>3. pc[s] \in Working \ {"load"}
    BY <2>2 DEF Working, AfterWrite, AfterThread, AfterParent
  <2>4. s.entity # r.entity
    BY <1>1, <2>2, <2>3 DEF DiscussionInv, PlacesHeld, Working
  <2>5. r.entity = parentOf[s.entity] /\ s.entity \in Comments
    BY <1>1, <1>2, <2>1, <2>4, CountsComments DEF Written
  <2> QED
    BY <1>1, <2>2, <2>3, <2>5, NoneIsNone DEF DiscussionInv, ParentsExist, PlacesHeld
<1>3. CASE ~ Counts(s)
  <2>1. s.entity = r.entity /\ pc[s] \in AfterParent /\ s.op # "create"
    BY <1>1, <1>3, CountsComments DEF DiscussionInv, LocksHeld
  <2> QED
    BY <1>1, <2>1 DEF DiscussionInv, PlacesHeld, Working, AfterParent
<1> QED
  BY <1>2, <1>3

LEMMA InsertCommentKeeps ==
    ASSUME DiscussionInv, NEW r \in Requests, r.op = "create", InsertComment(r)
    PROVE  DiscussionInv'
<1>1. lock[r.entity] = None /\ r.entity \in Entities /\ Counts(r)
  BY NewRowIsFree, RequestFields, CountsComments DEF InsertComment
<1>2. Written(r)' = Written(r) \cup {r.entity}
  BY <1>1 DEF InsertComment, Written, AfterWrite, AfterThread, AfterParent,
              DiscussionInv, TypeOK
<1>3. newCount' = [newCount EXCEPT ![r.entity] = count[r.entity]]
  BY <1>1 DEF InsertComment, DiscussionInv, TypeOK, NewValues
<1>4. newStatus' \in [Entities -> Statuses \cup {"NONE"}]
  BY DEF InsertComment, DiscussionInv, TypeOK, Statuses
<1>5. parentOf[r.entity] # None => status[parentOf[r.entity]] # "NONE"
  BY DEF InsertComment, DiscussionInv, ParentsExist
<1>6. TakesRow(r, r.entity, "threadCount")
  BY <1>1, <1>2, <1>3, <1>4, <1>5
     DEF InsertComment, TakesRow, Working, AfterWrite, AfterThread, AfterParent,
         DiscussionInv, TypeOK
<1> QED
  BY <1>6, TakeRow

-----------------------------------------------------------------------------
(* Edits and deletions.                                                    *)

LEMMA WriteContentKeeps ==
    ASSUME DiscussionInv, NEW r \in Requests, r.op = "edit", WriteContent(r)
    PROVE  DiscussionInv'
<1>1. /\ r.entity \in Entities /\ ~ Counts(r) /\ lock[r.entity] # r
      /\ status[r.entity] # "NONE"
  BY RequestFields
     DEF Counts, WriteContent, DiscussionInv, LocksHeld, PlacesHeld, Working, AfterParent
<1>2. newCount \in [Entities -> Nat] /\ newStatus \in [Entities -> Statuses \cup {"NONE"}]
  BY DEF DiscussionInv, TypeOK
<1>3. CASE lock' = [lock EXCEPT ![r.entity] = r] /\ MayWrite(r)
  <2>1. lock[r.entity] = None
    BY <1>1, <1>3 DEF MayWrite, NextRow, WriteContent
  <2>2. newCount' = [newCount EXCEPT ![r.entity] = count[r.entity]]
    BY <1>1, <1>2, <2>1 DEF WriteContent, DiscussionInv, NewValues
  <2>3. newStatus'[r.entity] = status[r.entity]
    BY <1>1, <2>1 DEF WriteContent, DiscussionInv, NewValues
  <2>4. TakesRow(r, r.entity, "publish")
    BY <1>1, <1>2, <1>3, <2>1, <2>2, <2>3
       DEF WriteContent, TakesRow, Working, AfterWrite, AfterThread, AfterParent
  <2> QED
    BY <2>4, TakeRow
<1>4. CASE lock' = lock /\ r.entity \in Comments
  \* As MoveOn, but r gets to where it might hold its row.
  <2>1. \A s \in Requests : pc'[s] = IF s = r THEN "publish" ELSE pc[s]
    BY DEF WriteContent, DiscussionInv, TypeOK
  <2>2. TypeOK'
    BY <1>4 DEF WriteContent, DiscussionInv, TypeOK, places, Working
  <2>3. LocksHeld'
    <3> SUFFICES ASSUME NEW s \in Requests
                 PROVE  LocksHeld!(s)'
      BY DEF LocksHeld
    <3>1. CASE s = r
      BY <3>1, <1>1, <1>4, <2>1
         DEF DiscussionInv, LocksHeld, Counts, Privileged, AfterParent
    <3>2. CASE s # r
      <4>1. Written(s)' = Written(s)
        BY <3>2, <2>1 DEF Written, WriteContent, places
      <4> QED
        BY <3>2, <4>1, <1>4, <2>1 DEF DiscussionInv, LocksHeld, Counts, Privileged
    <3> QED
      BY <3>1, <3>2
  <2>4. PlacesHeld'
    BY <1>1, <2>1 DEF WriteContent, DiscussionInv, PlacesHeld, Working, places
  <2>5. ParentsExist'
    BY <2>1 DEF WriteContent, DiscussionInv, ParentsExist, places
  <2>6. NewValues'
    BY <1>4 DEF WriteContent, DiscussionInv, NewValues, CountAfter, DeletedStatus,
                Privileged
  <2>7. CountsNeverExceedListed'
    BY CountsKept DEF WriteContent, DiscussionInv, places
  <2> QED
    BY <2>2, <2>3, <2>4, <2>5, <2>6, <2>7 DEF DiscussionInv
<1> QED
  BY <1>3, <1>4 DEF WriteContent

LEMMA WriteStatusKeeps ==
    ASSUME DiscussionInv, NEW r \in Requests, r.op = "delete", WriteStatus(r)
    PROVE  DiscussionInv'
<1>1. lock[r.entity] = None /\ r.entity \in Entities
  <2>1. lock[r.entity] # r
    BY RequestFields DEF WriteStatus, DiscussionInv, LocksHeld, Written, AfterWrite,
                         AfterThread, AfterParent
  <2> QED
    BY <2>1, RequestFields DEF WriteStatus, MayWrite, NextRow
<1>2. /\ newCount \in [Entities -> Nat]
      /\ newStatus \in [Entities -> Statuses \cup {"NONE"}]
      /\ pc \in [Requests -> {"idle"} \cup Working \cup ErrorReplies]
  BY DEF DiscussionInv, TypeOK
<1>3. newCount' = [newCount EXCEPT ![r.entity] = count[r.entity]]
  BY <1>1, <1>2 DEF WriteStatus, DiscussionInv, NewValues
<1>4. newStatus' \in [Entities -> Statuses \cup {"NONE"}]
  BY <1>1, <1>2, DeletedStatusType DEF WriteStatus
<1>5. newStatus'[r.entity] \in {status[r.entity], DeletedStatus(r)}
  BY <1>1, <1>2 DEF WriteStatus, DiscussionInv, NewValues
<1>6. \A f \in Entities \ {r.entity} : newStatus'[f] = newStatus[f]
  BY <1>1, <1>2 DEF WriteStatus
<1>7. CASE Counts(r)
  <2>1. pc' = [pc EXCEPT ![r] = "threadCount"] /\ pc[r] = "write"
    BY <1>7 DEF WriteStatus
  <2>2. Written(r)' = Written(r) \cup {r.entity}
    BY <1>1, <1>2, <2>1 DEF WriteStatus, Written, AfterWrite, AfterThread, AfterParent
  <2>3. TakesRow(r, r.entity, "threadCount")
    BY <1>1, <1>3, <1>4, <1>5, <1>6, <1>7, <2>1, <2>2
       DEF WriteStatus, TakesRow, Working, AfterWrite, AfterThread, AfterParent
  <2> QED
    BY <2>3, TakeRow
<1>8. CASE ~ Counts(r)
  <2>1. TakesRow(r, r.entity, "publish")
    BY <1>1, <1>3, <1>4, <1>5, <1>6, <1>8
       DEF WriteStatus, TakesRow, Working, AfterWrite, AfterThread, AfterParent
  <2> QED
    BY <2>1, TakeRow
<1> QED
  BY <1>7, <1>8

-----------------------------------------------------------------------------
(* Counters.                                                               *)

LEMMA UpdateThreadCountKeeps ==
    ASSUME DiscussionInv, NEW r \in Requests, UpdateThreadCount(r)
    PROVE  DiscussionInv'
<1> DEFINE t == threadOf[r.entity]
           p == IF parentOf[r.entity] = None THEN "publish" ELSE "parentCount"
<1>1. pc[r] = "threadCount" /\ Counts(r) /\ r.entity \in Comments
  BY CountsComments DEF UpdateThreadCount, DiscussionInv, LocksHeld
<1>2. t \in Threads /\ t \in Entities /\ t # r.entity
  BY <1>1, NoneIsNone DEF DiscussionInv, PlacesHeld, Working
<1>3. lock[t] = None
  <2>1. t \notin Written(r)
    BY <1>1, <1>2 DEF Written, AfterThread, AfterParent
  <2> QED
    BY <1>1, <1>2, <2>1
       DEF DiscussionInv, LocksHeld, UpdateThreadCount, MayWrite, NextRow
<1>4. pc' = [pc EXCEPT ![r] = p] /\ pc \in [Requests -> {"idle"} \cup Working \cup ErrorReplies]
  BY DEF UpdateThreadCount, DiscussionInv, TypeOK
<1>5. Written(r)' = Written(r) \cup {t}
  <2>1. threadOf' = threadOf /\ parentOf' = parentOf /\ pc'[r] = p
    BY <1>4 DEF UpdateThreadCount, places
  <2>2. Written(r) = {r.entity}
    BY <1>1, RequestFields DEF Written, AfterWrite, AfterThread, AfterParent
  <2>3. Written(r)' = {r.entity, t}
    BY <1>1, <1>2, <2>1, RequestFields, NoneIsNone
       DEF Written, AfterWrite, AfterThread, AfterParent
  <2> QED
    BY <2>2, <2>3
<1>6. r.op = "create" /\ parentOf[r.entity] # None => status[parentOf[r.entity]] # "NONE"
  BY <1>1 DEF DiscussionInv, ParentsExist, AfterWrite
<1>7. newStatus'[t] = status[t] /\ newStatus' = newStatus
      /\ newStatus \in [Entities -> Statuses \cup {"NONE"}]
  BY <1>2, <1>3 DEF UpdateThreadCount, DiscussionInv, TypeOK, NewValues
<1>8. TakesRow(r, t, p)
  BY <1>1, <1>2, <1>3, <1>4, <1>5, <1>6, <1>7
     DEF UpdateThreadCount, TakesRow, Working, AfterWrite, AfterThread, AfterParent
<1> QED
  BY <1>8, TakeRow

LEMMA UpdateParentCountKeeps ==
    ASSUME DiscussionInv, NEW r \in Requests, UpdateParentCount(r)
    PROVE  DiscussionInv'
<1> DEFINE p == parentOf[r.entity]
<1>1. pc[r] = "parentCount" /\ Counts(r) /\ r.entity \in Comments
  BY CountsComments DEF UpdateParentCount, DiscussionInv, LocksHeld
<1>2. p \in Comments /\ p \in Entities /\ p # r.entity /\ p # None /\ p \notin Threads
  BY <1>1, NoneIsNone DEF DiscussionInv, TypeOK, PlacesHeld, ParentsExist
<1>3. lock[p] = None
  <2>1. p \notin Written(r)
    BY <1>1, <1>2 DEF Written, AfterParent
  <2> QED
    BY <1>1, <1>2, <2>1
       DEF DiscussionInv, LocksHeld, UpdateParentCount, MayWrite, NextRow
<1>4. pc' = [pc EXCEPT ![r] = "publish"]
      /\ pc \in [Requests -> {"idle"} \cup Working \cup ErrorReplies]
  BY DEF UpdateParentCount, DiscussionInv, TypeOK
<1>5. Written(r)' = Written(r) \cup {p}
  BY <1>1, <1>2, <1>4
     DEF UpdateParentCount, Written, AfterWrite, AfterThread, AfterParent, places
<1>6. r.op = "create" => status[p] # "NONE"
  BY <1>1, <1>2 DEF DiscussionInv, ParentsExist, AfterWrite, AfterThread
<1>7. newStatus'[p] = status[p] /\ newStatus' = newStatus
      /\ newStatus \in [Entities -> Statuses \cup {"NONE"}]
  BY <1>2, <1>3 DEF UpdateParentCount, DiscussionInv, TypeOK, NewValues
<1>8. TakesRow(r, p, "publish")
  BY <1>1, <1>2, <1>3, <1>4, <1>5, <1>6, <1>7
     DEF UpdateParentCount, TakesRow, Working, AfterWrite, AfterThread, AfterParent
<1> QED
  BY <1>8, TakeRow

-----------------------------------------------------------------------------
(* The commit.                                                             *)

\* What the commit of r changes, by what r has written.
LEMMA CommitEffect ==
    ASSUME DiscussionInv, NEW r \in Requests, Commit(r)
    PROVE  /\ \A e \in Entities :
                 /\ lock'[e] = IF lock[e] = r THEN None ELSE lock[e]
                 /\ count'[e] = IF lock[e] = r /\ e # r.entity
                                THEN CountAfter(r, count[e]) ELSE count[e]
                 /\ e # r.entity \/ lock[e] # r \/ r.op = "edit"
                    => status'[e] = status[e]
           /\ lock[r.entity] = r /\ r.op = "create"
              => status'[r.entity] = "ACTIVE"
           /\ lock[r.entity] = r /\ r.op = "delete"
              => status'[r.entity] \in {status[r.entity], DeletedStatus(r)}
           /\ \A e \in Entities : status[e] # "NONE" => status'[e] # "NONE"
           /\ \A e \in Entities : status'[e] # "NONE"
                 => status[e] # "NONE" \/ (r.op = "create" /\ e = r.entity)
<1>1. \A e \in Entities :
         /\ lock'[e] = IF lock[e] = r THEN None ELSE lock[e]
         /\ count'[e] = IF lock[e] = r THEN newCount[e] ELSE count[e]
         /\ status'[e] = IF lock[e] = r THEN newStatus[e] ELSE status[e]
  BY DEF Commit
<1>2. \A e \in Entities : lock[e] = r =>
         /\ newCount[e] = IF r.entity = e THEN count[e] ELSE CountAfter(r, count[e])
         /\ newStatus[e] \in
              IF r.entity # e \/ r.op = "edit" THEN {status[e]}
              ELSE IF r.op = "create" THEN {"ACTIVE"}
              ELSE {status[e], DeletedStatus(r)}
  BY RequestFields DEF DiscussionInv, NewValues
<1>3. r.op # "create" => status[r.entity] # "NONE"
  BY DEF Commit, DiscussionInv, PlacesHeld, Working
<1>4. \A e \in Entities :
         /\ count'[e] = IF lock[e] = r /\ e # r.entity
                        THEN CountAfter(r, count[e]) ELSE count[e]
         /\ e # r.entity \/ lock[e] # r \/ r.op = "edit" => status'[e] = status[e]
  BY <1>1, <1>2
<1>5. /\ lock[r.entity] = r /\ r.op = "create" => status'[r.entity] = "ACTIVE"
      /\ lock[r.entity] = r /\ r.op = "delete"
         => status'[r.entity] \in {status[r.entity], DeletedStatus(r)}
  BY <1>1, <1>2, RequestFields
<1>6. \A e \in Entities : status[e] # "NONE" => status'[e] # "NONE"
  BY <1>4, <1>5, RequestFields, DeletedStatusType
<1>7. \A e \in Entities : status'[e] # "NONE"
          => status[e] # "NONE" \/ (r.op = "create" /\ e = r.entity)
  BY <1>3, <1>4
<1> QED
  BY <1>1, <1>4, <1>5, <1>6, <1>7

\* The rows a counting request has locked when it commits.
LEMMA CommitRows ==
    ASSUME DiscussionInv, NEW r \in Requests, Commit(r), Counts(r)
    PROVE  /\ r.entity \in Comments /\ lock[r.entity] = r
           /\ threadOf[r.entity] # r.entity /\ parentOf[r.entity] # r.entity
           /\ \A e \in Entities : e # r.entity =>
                 (lock[e] = r <=> e \in {threadOf[r.entity], parentOf[r.entity]})
<1>1. r.entity \in Comments /\ r.entity \in Entities
  BY CountsComments, NoneIsNone
<1>2. threadOf[r.entity] \in Threads /\ parentOf[r.entity] \in Comments \cup {None}
      /\ parentOf[r.entity] # r.entity
  BY <1>1 DEF Commit, DiscussionInv, TypeOK, PlacesHeld, Working
<1>3. \A e \in Entities : lock[e] = r <=> e \in Written(r)
  BY DEF DiscussionInv, LocksHeld
<1>4. \A e \in Entities : e \in Written(r)
                           <=> e \in {r.entity, threadOf[r.entity], parentOf[r.entity]}
  BY <1>1, <1>2, NoneIsNone
     DEF Commit, Written, AfterWrite, AfterThread, AfterParent
<1> QED
  BY <1>1, <1>2, <1>3, <1>4, NoneIsNone

LEMMA MoreIsListed ==
    ASSUME NEW e \in Entities, DiscussionInv, count'[e] <= count[e],
           count'[e] \in Nat, Counted(e) \subseteq Counted(e)'
    PROVE  count'[e] <= Cardinality(Counted(e)')
<1>1. IsFiniteSet(Counted(e)')
  <2>1. Counted(e)' \subseteq Comments
    BY DEF Counted
  <2> QED
    BY <2>1, DiscussionAssumption, FS_Subset
<1>2. Cardinality(Counted(e)) <= Cardinality(Counted(e)')
  BY <1>1, FS_Subset
<1>3. Cardinality(Counted(e)') \in Nat /\ Cardinality(Counted(e)) \in Nat
  BY <1>1, CountedFinite, FS_CardinalityType
<1>4. count[e] <= Cardinality(Counted(e)) /\ count[e] \in Nat
  BY DEF DiscussionInv, CountsNeverExceedListed, TypeOK
<1> QED
  BY <1>2, <1>3, <1>4

LEMMA CommitKeepsBound ==
    ASSUME DiscussionInv, NEW r \in Requests, Commit(r)
    PROVE  CountsNeverExceedListed'
<1> SUFFICES ASSUME NEW e \in Entities
             PROVE  count'[e] <= Cardinality(Counted(e)')
  BY DEF CountsNeverExceedListed
<1> DEFINE c == r.entity
<1>1. /\ count[e] \in Nat /\ count[e] <= Cardinality(Counted(e))
      /\ IsFiniteSet(Counted(e)) /\ Cardinality(Counted(e)) \in Nat
  BY CountedFinite DEF DiscussionInv, TypeOK, CountsNeverExceedListed
<1>2. IsFiniteSet(Counted(e)') /\ Cardinality(Counted(e)') \in Nat
  <2>1. Counted(e)' \subseteq Comments
    BY DEF Counted
  <2> QED
    BY <2>1, DiscussionAssumption, FS_Subset, FS_CardinalityType
<1>3. threadOf' = threadOf /\ parentOf' = parentOf
  BY DEF Commit, places
<1>4. \A d \in Comments : d # c => status'[d] = status[d]
  BY CommitEffect, NoneIsNone
<1>5. CASE ~ Counts(r)
  <2>1. count'[e] = count[e]
    BY <1>5, CommitEffect DEF DiscussionInv, LocksHeld
  <2>2. \A d \in Comments : Listed(d) => Listed(d)'
    BY <1>4, <1>5, CommitEffect, CountsComments, RequestFields, NoneIsNone
       DEF Listed, Counts, DeletedStatus
  <2>3. Counted(e) \subseteq Counted(e)'
    BY <1>3, <2>2 DEF Counted
  <2> QED
    BY <1>1, <2>1, <2>3, MoreIsListed
<1>6. CASE r.op = "create"
  <2>1. Counts(r) /\ c \in Comments /\ status[c] = "NONE" /\ status'[c] = "ACTIVE"
    BY <1>6, CountsComments, CommitRows, CommitEffect
       DEF Commit, DiscussionInv, PlacesHeld, Working
  <2>2. Counted(e) \subseteq Counted(e)' /\ c \notin Counted(e)
    BY <1>3, <1>4, <2>1 DEF Counted, Listed
  <2>3. CASE e # c /\ e \in {threadOf[c], parentOf[c]}
    <3>1. count'[e] = count[e] + 1
      BY <1>6, <2>1, <2>3, CommitRows, CommitEffect DEF CountAfter
    <3>2. Counted(e) \cup {c} \subseteq Counted(e)'
      BY <1>3, <2>1, <2>2, <2>3 DEF Counted, Listed
    <3>3. /\ Cardinality(Counted(e) \cup {c}) = Cardinality(Counted(e)) + 1
          /\ Cardinality(Counted(e) \cup {c}) <= Cardinality(Counted(e)')
      BY <1>1, <1>2, <2>2, <3>2, FS_AddElement, FS_Subset
    <3> QED
      BY <1>1, <1>2, <3>1, <3>3
  <2>4. CASE ~ (e # c /\ e \in {threadOf[c], parentOf[c]})
    <3>1. count'[e] = count[e]
      BY <2>1, <2>4, CommitRows, CommitEffect
    <3> QED
      BY <1>1, <2>2, <3>1, MoreIsListed
  <2> QED
    BY <2>3, <2>4
<1>7. CASE Counts(r) /\ r.op # "create"
  <2>1. Counted(e) \ {c} \subseteq Counted(e)'
    BY <1>3, <1>4 DEF Counted, Listed
  <2>2. CASE e # c /\ e \in {threadOf[c], parentOf[c]}
    <3>1. count'[e] = IF count[e] = 0 THEN 0 ELSE count[e] - 1
      BY <1>7, <2>2, CommitRows, CommitEffect DEF CountAfter
    <3>2. /\ Cardinality(Counted(e) \ {c}) \in Nat
          /\ Cardinality(Counted(e)) <= Cardinality(Counted(e) \ {c}) + 1
      BY <1>1, FS_RemoveElement, FS_Subset, FS_CardinalityType
    <3>3. Cardinality(Counted(e) \ {c}) <= Cardinality(Counted(e)')
      BY <1>2, <2>1, FS_Subset
    <3> QED
      BY <1>1, <1>2, <3>1, <3>2, <3>3
  <2>3. CASE ~ (e # c /\ e \in {threadOf[c], parentOf[c]})
    <3>1. count'[e] = count[e]
      BY <1>7, <2>3, CommitRows, CommitEffect
    <3>2. c \notin Counted(e)
      BY <1>7, <2>3, CommitRows DEF Counted
    <3>3. Counted(e) \subseteq Counted(e)'
      BY <2>1, <3>2
    <3> QED
      BY <1>1, <3>1, <3>3, MoreIsListed
  <2> QED
    BY <2>2, <2>3
<1> QED
  BY <1>5, <1>6, <1>7

LEMMA CommitKeeps ==
    ASSUME DiscussionInv, NEW r \in Requests, Commit(r)
    PROVE  DiscussionInv'
<1>1. \A s \in Requests : pc'[s] = IF s = r THEN "idle" ELSE pc[s]
  BY DEF Commit, DiscussionInv, TypeOK
<1>2. threadOf' = threadOf /\ parentOf' = parentOf /\ pc[r] = "commit"
  BY DEF Commit, places
<1>3. TypeOK'
  BY DEF Commit, DiscussionInv, TypeOK, places
<1>4. LocksHeld'
  <2> SUFFICES ASSUME NEW s \in Requests
               PROVE  LocksHeld!(s)'
    BY DEF LocksHeld
  <2>1. CASE s = r
    <3>1. \A e \in Entities : lock'[e] # s
      BY <2>1, CommitEffect, RequestFields
    <3>2. Written(s)' = {}
      BY <2>1, <1>1 DEF Written, AfterWrite, AfterThread, AfterParent
    <3> QED
      BY <2>1, <3>1, <3>2, <1>1
  <2>2. CASE s # r
    <3>1. \A e \in Entities : lock'[e] = s <=> lock[e] = s
      BY <2>2, CommitEffect, RequestFields
    <3>2. Written(s)' = Written(s) /\ pc'[s] = pc[s]
      BY <2>2, <1>1, <1>2 DEF Written
    <3> QED
      BY <3>1, <3>2 DEF DiscussionInv, LocksHeld, Counts, Privileged
  <2> QED
    BY <2>1, <2>2
<1>5. PlacesHeld'
  <2>1. \A c \in Comments : /\ parentOf'[c] # c
                            /\ status'[c] # "NONE" => threadOf'[c] \in Threads
    BY <1>2, CommitEffect, NoneIsNone DEF DiscussionInv, PlacesHeld, Working
  <2>2. ASSUME NEW s \in Requests, s.op = "create", pc'[s] \in Working
        PROVE  /\ status'[s.entity] = "NONE" /\ threadOf'[s.entity] \in Threads
               /\ \A q \in Requests :
                     q.op = "create" /\ q.entity = s.entity /\ pc'[q] \in Working
                     => q = s
    <3>1. s # r /\ pc[s] \in Working /\ s.entity \in Entities
      BY <2>2, <1>1, RequestFields DEF Working
    <3>2. ~ (r.op = "create" /\ s.entity = r.entity)
      BY <2>2, <3>1, <1>2 DEF DiscussionInv, PlacesHeld, Working
    <3>3. status'[s.entity] = "NONE"
      BY <2>2, <3>1, <3>2, CommitEffect DEF DiscussionInv, PlacesHeld
    <3> QED
      BY <2>2, <3>1, <3>3, <1>1, <1>2 DEF DiscussionInv, PlacesHeld, Working
  <2>3. \A s \in Requests : s.op # "create" /\ pc'[s] \in Working \ {"load"}
                            => status'[s.entity] # "NONE"
    BY <1>1, CommitEffect, RequestFields DEF DiscussionInv, PlacesHeld, Working
  <2> QED
    BY <2>1, <2>2, <2>3 DEF PlacesHeld
<1>6. ParentsExist'
  <2>1. \A c \in Comments \cup {None} : c # None /\ status[c] # "NONE"
                                      => status'[c] # "NONE"
    BY CommitEffect, NoneIsNone
  <2>2. parentOf \in [Comments -> Comments \cup {None}]
    BY DEF DiscussionInv, TypeOK
  <2>3. ASSUME NEW c \in Comments, status'[c] # "NONE", parentOf'[c] # None
        PROVE  status'[parentOf'[c]] # "NONE"
    <3>1. status[c] # "NONE" \/ (r.op = "create" /\ c = r.entity)
      BY <2>3, CommitEffect, NoneIsNone
    <3>2. status[parentOf[c]] # "NONE"
      BY <2>3, <3>1, <1>2
         DEF DiscussionInv, ParentsExist, AfterWrite, AfterThread, AfterParent
    <3> QED
      BY <2>1, <2>2, <2>3, <3>2, <1>2
  <2>4. ASSUME NEW s \in Requests
        PROVE  /\ s.op = "create" /\ pc'[s] \in {"write"} \cup AfterWrite
                  => parentOf'[s.entity] = None
                     \/ status'[parentOf'[s.entity]] # "NONE"
               /\ pc'[s] = "parentCount" => parentOf'[s.entity] # None
    BY <1>1, <1>2, <2>1, <2>2, RequestFields
       DEF DiscussionInv, ParentsExist, AfterWrite, AfterThread, AfterParent
  <2> QED
    BY <2>3, <2>4 DEF ParentsExist
<1>7. NewValues'
  BY RequestFields
     DEF Commit, DiscussionInv, NewValues, CountAfter, DeletedStatus, Privileged
<1>8. CountsNeverExceedListed'
  BY CommitKeepsBound
<1> QED
  BY <1>3, <1>4, <1>5, <1>6, <1>7, <1>8 DEF DiscussionInv

-----------------------------------------------------------------------------
(* All steps.                                                              *)

LEMMA HandlerKeeps ==
    ASSUME DiscussionInv, NEW r \in Requests, Handler(r)
    PROVE  DiscussionInv'
<1>1. CASE CreateComment(r)
  BY <1>1, LoadThreadOfCommentKeeps, LoadParentKeeps, InsertCommentKeeps,
     UpdateThreadCountKeeps, UpdateParentCountKeeps, PublishKeeps
     DEF CreateComment
<1>2. CASE EditComment(r) \/ EditThread(r)
  BY <1>2, LoadEntityKeeps, WriteContentKeeps, PublishKeeps
     DEF EditComment, EditThread
<1>3. CASE DeleteComment(r) \/ DeleteThread(r)
  BY <1>3, LoadEntityKeeps, WriteStatusKeeps, UpdateThreadCountKeeps,
     UpdateParentCountKeeps, PublishKeeps
     DEF DeleteComment, DeleteThread
<1>4. CASE Commit(r) \/ Close(r)
  BY <1>4, CommitKeeps, CloseKeeps
<1> QED
  BY <1>1, <1>2, <1>3, <1>4 DEF Handler

LEMMA NextKeeps == DiscussionInv /\ [Next]_vars => DiscussionInv'
<1> SUFFICES ASSUME DiscussionInv, [Next]_vars PROVE DiscussionInv'
  OBVIOUS
<1>1. ASSUME NEW r \in Requests, Start(r) PROVE DiscussionInv'
  BY <1>1, StartCreateKeeps, StartOtherKeeps
<1>2. ASSUME NEW r \in Requests,
             DeadlockVictim(r) \/ CommitFails(r) \/ StatementFails(r)
      PROVE  DiscussionInv'
  BY <1>2, DeadlockVictimKeeps, CommitFailsKeeps, StatementFailsKeeps
<1>3. CASE UNCHANGED vars
  BY <1>3 DEF vars, rows, places, DiscussionInv, TypeOK, LocksHeld, Written, Counts,
              Privileged, PlacesHeld, ParentsExist, NewValues, CountAfter,
              DeletedStatus, CountsNeverExceedListed, Counted, Listed
<1> QED
  BY <1>1, <1>2, <1>3, HandlerKeeps, ProcessDiesKeeps DEF Next

\* In every reachable state the row locks, places and written values are as the
\* transactions of the handlers leave them, and the counters keep their bound.
THEOREM DiscussionInvariant == Spec => []DiscussionInv
<1>1. Init => DiscussionInv
  BY InitDiscussionInv
<1>2. DiscussionInv /\ [Next]_vars => DiscussionInv'
  BY NextKeeps
<1> QED
  BY <1>1, <1>2, PTL DEF Spec

\* However many clients create, edit and remove, racing, repeated and failing:
\* comment_count and reply_count never claim more comments than are listed.
THEOREM ListedBound == Spec => []CountsNeverExceedListed
<1>1. DiscussionInv => CountsNeverExceedListed
  BY DEF DiscussionInv
<1> QED
  BY <1>1, DiscussionInvariant, PTL

\* Who is in a ring has written a row and waits to write another, so it counts.
LEMMA RingMembers ==
    ASSUME DiscussionInv, NEW S \in SUBSET InFlight, Ring(S), NEW r \in S
    PROVE  r \in Requests /\ Counts(r) /\ pc[r] \in {"threadCount", "parentCount"}
<1>1. r \in Requests /\ S \subseteq Requests
  BY DEF InFlight
<1>2. PICK s \in S, u \in S : WaitsFor(r, s) /\ WaitsFor(u, r)
  BY DEF Ring
<1>3. pc[r] \in {"write", "threadCount", "parentCount"}
  BY <1>2 DEF WaitsFor, NextRow
<1>4. NextRow(u) \in Entities /\ lock[NextRow(u)] = r
  <2>1. u \in Requests /\ NextRow(u) # None
    BY <1>1, <1>2 DEF WaitsFor
  <2>2. /\ u.entity \in Entities
        /\ pc[u] \in {"threadCount", "parentCount"} => u.entity \in Comments
    BY <2>1, RequestFields, CountsComments DEF DiscussionInv, LocksHeld
  <2>. QED
    BY <1>2, <2>1, <2>2 DEF WaitsFor, NextRow, DiscussionInv, TypeOK, Entities
<1>. QED
  BY <1>1, <1>3, <1>4
     DEF DiscussionInv, LocksHeld, Written, AfterWrite, AfterThread, AfterParent

\* Handlers deadlock only around the removal of a comment that another of them is
\* about to count a reply for.
THEOREM DeadlocksAreAboutParents == Spec => []DeadlocksNeedAParentRemoval
<1>1. ASSUME DiscussionInv, NEW S \in SUBSET InFlight, Ring(S)
      PROVE  \E r, s \in S : /\ r.op = "delete" /\ Privileged(r)
                             /\ pc[s] = "parentCount" /\ parentOf[s.entity] = r.entity
  <2>1. \A r \in S : r \in Requests /\ Counts(r) /\ pc[r] \in {"threadCount", "parentCount"}
    BY <1>1, RingMembers
  <2>2. PICK q \in S : TRUE
    BY <1>1 DEF Ring
  <2>3. PICK s \in S : pc[s] = "parentCount"
    <3>1. CASE pc[q] = "parentCount"
      BY <3>1
    <3>2. CASE pc[q] = "threadCount"
      <4>1. PICK u \in S : WaitsFor(q, u)
        BY <1>1 DEF Ring
      <4>2. lock[threadOf[q.entity]] = u /\ threadOf[q.entity] \in Threads
        <5>1. q.entity \in Comments
          BY <2>1, CountsComments
        <5>. QED BY <1>1, <3>2, <4>1, <5>1 DEF WaitsFor, NextRow, DiscussionInv, TypeOK
      <4>3. pc[u] = "parentCount"
        <5>1. threadOf[q.entity] \in Written(u)
          BY <1>1, <2>1, <4>2, NoneIsNone DEF DiscussionInv, LocksHeld
        <5>2. u.entity \in Comments
          BY <2>1, CountsComments
        <5>. QED
          BY <2>1, <4>2, <5>1, <5>2, NoneIsNone DEF Written, AfterThread, AfterParent
      <4>. QED BY <4>3
    <3>. QED BY <2>1, <3>1, <3>2
  <2>4. PICK r \in S : WaitsFor(s, r)
    BY <1>1 DEF Ring
  <2>. DEFINE p == parentOf[s.entity]
  <2>5. lock[p] = r /\ p \in Comments /\ status[p] # "NONE"
    <3>1. s.entity \in Comments
      BY <2>1, CountsComments
    <3>2. lock[p] = r /\ p \in Comments
      BY <1>1, <2>3, <2>4, <3>1 DEF WaitsFor, NextRow, DiscussionInv, TypeOK
    <3>3. status[p] # "NONE"
      <4>1. CASE s.op = "create"
        BY <1>1, <2>1, <2>3, <3>2, <4>1, NoneIsNone
           DEF DiscussionInv, ParentsExist, AfterWrite, AfterThread
      <4>2. CASE s.op # "create"
        <5>1. status[s.entity] # "NONE"
          BY <1>1, <2>1, <2>3, <4>2 DEF DiscussionInv, PlacesHeld, Working
        <5>. QED BY <1>1, <3>1, <3>2, <5>1, NoneIsNone DEF DiscussionInv, ParentsExist
      <4>. QED BY <4>1, <4>2
    <3>. QED BY <3>2, <3>3
  <2>6. p = r.entity
    <3>1. p \in Written(r)
      BY <1>1, <2>1, <2>5, NoneIsNone DEF DiscussionInv, LocksHeld
    <3>. QED BY <2>1, <2>5, <3>1, NoneIsNone DEF Written, AfterThread, AfterParent
  <2>7. r.op = "delete" /\ Privileged(r)
    <3>1. r.op # "create"
      BY <1>1, <2>1, <2>5, <2>6 DEF DiscussionInv, PlacesHeld, Working
    <3>. QED BY <2>1, <3>1 DEF Counts
  <2>. QED BY <2>3, <2>6, <2>7
<1>2. DiscussionInv => DeadlocksNeedAParentRemoval
  BY <1>1 DEF DeadlocksNeedAParentRemoval
<1>. QED BY <1>2, DiscussionInvariant, PTL

-----------------------------------------------------------------------------
(* Careful clients, and a broker that takes every event: the counters are   *)
(* exact.                                                                    *)

LEMMA MatchKept ==
    ASSUME CountsMatchListed, status' = status, count' = count,
           \A c \in Comments : status[c] # "NONE" =>
               threadOf'[c] = threadOf[c] /\ parentOf'[c] = parentOf[c]
    PROVE  CountsMatchListed'
BY CountedKept DEF CountsMatchListed

LEMMA InitCarefulInv == Init => CarefulInv
<1> SUFFICES ASSUME Init PROVE CarefulInv
  OBVIOUS
<1>1. InFlight = {}
  BY DEF Init, InFlight
<1>2. AloneOnEntity /\ ChangesApply
  BY <1>1 DEF AloneOnEntity, ChangesApply
<1>3. RemovalsAreTold
  BY DEF Init, RemovalsAreTold
<1>4. CountsMatchListed
  <2>1. \A e \in Entities : Counted(e) = {}
    BY NoneIsNone DEF Init, Counted, Listed
  <2> QED
    BY <2>1, FS_EmptySet DEF Init, CountsMatchListed
<1> QED
  BY <1>2, <1>3, <1>4 DEF CarefulInv

\* A step of r that commits nothing: the other requests in flight are about other
\* entities, and the rows they have written are left alone.
LEMMA CarefulStep ==
    ASSUME CarefulInv, NEW r \in Requests, status' = status, count' = count,
           \A c \in Comments : status[c] # "NONE" =>
               threadOf'[c] = threadOf[c] /\ parentOf'[c] = parentOf[c],
           \A s \in InFlight' : s # r =>
               /\ s \in InFlight /\ pc'[s] = pc[s] /\ seen'[s] = seen[s]
               /\ told'[s.entity] = told[s.entity]
               /\ lock[s.entity] = s => /\ lock'[s.entity] = s
                                        /\ newStatus'[s.entity] = newStatus[s.entity],
           RemovalsAreTold',
           r \in InFlight' => /\ ChangesApply!(r)'
                              /\ \A s \in InFlight : s.entity = r.entity => s = r
    PROVE  CarefulInv'
<1>1. AloneOnEntity'
  BY DEF CarefulInv, AloneOnEntity
<1>2. ChangesApply'
  <2> SUFFICES ASSUME NEW s \in InFlight' PROVE ChangesApply!(s)'
    BY DEF ChangesApply
  <2>1. CASE s # r
    BY <2>1 DEF CarefulInv, ChangesApply, EventShows, DeletedStatus, Privileged
  <2> QED
    BY <2>1
<1>3. CountsMatchListed'
  BY MatchKept DEF CarefulInv
<1> QED
  BY <1>1, <1>2, <1>3 DEF CarefulInv

\* What CarefulInv says of one request in flight.
LEMMA InFlightCarefully ==
    ASSUME CarefulInv, NEW r \in Requests, pc[r] # "idle"
    PROVE  /\ r \in InFlight /\ ChangesApply!(r)
           /\ \A s \in InFlight : s.entity = r.entity => s = r
BY DEF CarefulInv, AloneOnEntity, ChangesApply, InFlight

LEMMA StartsCarefully ==
    ASSUME Careful, DiscussionInv, CarefulInv, NEW r \in Requests, Start(r)
    PROVE  CarefulInv'
<1>1. /\ pc[r] = "idle" /\ pc' = [pc EXCEPT ![r] = "load"]
      /\ UNCHANGED <<status, count, newStatus, newCount, lock, seen, told>>
      /\ CarefulStart(r)
  BY DEF Start, rows
<1>2. \A s \in Requests : pc'[s] = IF s = r THEN "load" ELSE pc[s]
  BY <1>1 DEF DiscussionInv, TypeOK
<1>3. status[r.entity] # "MOD_REMOVED"
  BY <1>1, RequestFields DEF Start, CarefulStart, CarefulInv, RemovalsAreTold
<1>4. \A c \in Comments : status[c] # "NONE" =>
          threadOf'[c] = threadOf[c] /\ parentOf'[c] = parentOf[c]
  <2>1. CASE r.op = "create"
    <3>1. status[r.entity] = "NONE"
      BY <2>1 DEF Start
    <3> QED
      BY <2>1, <3>1 DEF Start, DiscussionInv, TypeOK
  <2>2. CASE r.op # "create"
    BY <2>2 DEF Start, places
  <2> QED
    BY <2>1, <2>2
<1>5. ChangesApply!(r)'
  BY <1>1, <1>2, <1>3 DEF AfterWrite, AfterThread, AfterParent
<1>6. \A s \in InFlight : s.entity = r.entity => s = r
  BY <1>1 DEF CarefulStart
<1>7. RemovalsAreTold'
  BY <1>1 DEF CarefulInv, RemovalsAreTold
<1> QED
  BY <1>1, <1>2, <1>4, <1>5, <1>6, <1>7, CarefulStep DEF InFlight

\* Steps that move r on and change neither events nor rows.
LEMMA MovesOnCarefully ==
    ASSUME DiscussionInv, CarefulInv, NEW r \in Requests, pc[r] # "idle",
           NEW p, pc' = [pc EXCEPT ![r] = p], p \notin AfterWrite,
           p = "write" /\ r.op = "delete" => seen'[r] = status[r.entity],
           \A s \in Requests : s # r => seen'[s] = seen[s],
           UNCHANGED <<rows, places, told>>
    PROVE  CarefulInv'
<1>1. \A s \in Requests : pc'[s] = IF s = r THEN p ELSE pc[s]
  BY DEF DiscussionInv, TypeOK
<1>2. UNCHANGED <<status, count, newStatus, newCount, lock, threadOf, parentOf, told>>
  BY DEF rows, places
<1>3. ChangesApply!(r)' /\ \A s \in InFlight : s.entity = r.entity => s = r
  BY <1>1, <1>2, InFlightCarefully DEF AfterWrite, AfterThread, AfterParent
<1>4. RemovalsAreTold'
  BY <1>2 DEF CarefulInv, RemovalsAreTold
<1> QED
  BY <1>1, <1>2, <1>3, <1>4, CarefulStep DEF InFlight

\* A transaction that ends without a commit: r had rows of its own only.
LEMMA RollsBackCarefully ==
    ASSUME DiscussionInv, CarefulInv, NEW r \in Requests, RollBack(r),
           pc[r] \in Working,
           NEW p \in {"idle"} \cup ErrorReplies, pc' = [pc EXCEPT ![r] = p]
    PROVE  CarefulInv'
<1>1. \A s \in Requests : pc'[s] = IF s = r THEN p ELSE pc[s]
  BY DEF DiscussionInv, TypeOK
<1>2. \A c \in Comments : status[c] # "NONE" =>
          threadOf'[c] = threadOf[c] /\ parentOf'[c] = parentOf[c]
  BY DEF RollBack, DiscussionInv, PlacesHeld
<1>3. UNCHANGED <<status, count, told>>
      /\ \A s \in Requests : s # r => seen'[s] = seen[s]
  BY DEF RollBack, DiscussionInv, TypeOK
<1>4. ASSUME NEW s \in Requests, s # r, lock[s.entity] = s
      PROVE  lock'[s.entity] = s /\ newStatus'[s.entity] = newStatus[s.entity]
  BY <1>4, RequestFields DEF RollBack
<1>5. ChangesApply!(r)' /\ \A s \in InFlight : s.entity = r.entity => s = r
  BY <1>1, <1>3, InFlightCarefully
     DEF ErrorReplies, AfterWrite, AfterThread, AfterParent, Working
<1>6. RemovalsAreTold'
  BY <1>3 DEF CarefulInv, RemovalsAreTold
<1> QED
  BY <1>1, <1>2, <1>3, <1>4, <1>5, <1>6, CarefulStep DEF InFlight

LEMMA FailsCarefully ==
    ASSUME DiscussionInv, CarefulInv, NEW r \in Requests, pc[r] \in Working,
           NEW reply \in ErrorReplies, Fail(r, reply)
    PROVE  CarefulInv'
BY RollsBackCarefully DEF Fail

LEMMA ProcessDiesCarefully ==
    ASSUME DiscussionInv, CarefulInv, ProcessDies
    PROVE  CarefulInv'
<1>1. InFlight' = {}
  BY DEF ProcessDies, InFlight
<1>2. AloneOnEntity' /\ ChangesApply'
  BY <1>1 DEF AloneOnEntity, ChangesApply
<1>3. RemovalsAreTold'
  BY DEF ProcessDies, CarefulInv, RemovalsAreTold
<1>4. CountsMatchListed'
  BY MatchKept DEF ProcessDies, CarefulInv
<1> QED
  BY <1>2, <1>3, <1>4 DEF CarefulInv

LEMMA ClosesCarefully ==
    ASSUME DiscussionInv, CarefulInv, NEW r \in Requests, Close(r)
    PROVE  CarefulInv'
BY MovesOnCarefully
   DEF Close, ErrorReplies, AfterWrite, AfterThread, AfterParent

LEMMA LoadsCarefully ==
    ASSUME DiscussionInv, CarefulInv, NEW r \in Requests,
           \/ r.op = "create" /\ (LoadThreadOfComment(r) \/ LoadParent(r))
           \/ r.op # "create" /\ LoadEntity(r)
    PROVE  CarefulInv'
<1>1. pc[r] \in {"load", "loadParent"} /\ pc[r] \in Working /\ pc[r] # "idle"
  BY DEF LoadThreadOfComment, LoadParent, LoadEntity, Working
<1>2. CASE \E reply \in ErrorReplies : Fail(r, reply)
  BY <1>1, <1>2, FailsCarefully
<1>3. CASE /\ \E p \in {"write", "loadParent"} : pc' = [pc EXCEPT ![r] = p]
           /\ UNCHANGED <<rows, places, told>>
           /\ \/ r.op = "create" /\ seen' = seen
              \/ r.op # "create" /\ seen' = [seen EXCEPT ![r] = status[r.entity]]
  <2>1. PICK p \in {"write", "loadParent"} : pc' = [pc EXCEPT ![r] = p]
    BY <1>3
  <2>2. p \notin AfterWrite
    BY DEF AfterWrite, AfterThread, AfterParent
  <2>3. /\ r.op = "delete" => seen'[r] = status[r.entity]
        /\ \A s \in Requests : s # r => seen'[s] = seen[s]
    BY <1>3 DEF DiscussionInv, TypeOK
  <2> QED
    BY <1>1, <1>3, <2>1, <2>2, <2>3, MovesOnCarefully
<1> QED
  <2>1. "notFound" \in ErrorReplies /\ "forbidden" \in ErrorReplies
    BY DEF ErrorReplies
  <2> QED
    BY <1>2, <1>3, <2>1 DEF LoadThreadOfComment, LoadParent, LoadEntity

\* r writes row e: its own first, with the status it is to get, or none.
LEMMA WritesCarefully ==
    ASSUME DiscussionInv, CarefulInv, NEW r \in Requests, pc[r] # "idle",
           NEW p \in {"threadCount", "parentCount", "publish"},
           pc' = [pc EXCEPT ![r] = p],
           NEW e \in Entities, lock[e] \in {None, r},
           lock' = [lock EXCEPT ![e] = r] \/ lock' = lock,
           \A f \in Entities \ {r.entity} : newStatus'[f] = newStatus[f],
           r.op = "delete" => lock'[r.entity] = r /\ newStatus'[r.entity] = DeletedStatus(r),
           UNCHANGED <<status, count, places, seen, told>>
    PROVE  CarefulInv'
<1>1. \A s \in Requests : pc'[s] = IF s = r THEN p ELSE pc[s]
  BY DEF DiscussionInv, TypeOK
<1>2. /\ r \in InFlight /\ status[r.entity] # "MOD_REMOVED"
      /\ \A s \in InFlight : s.entity = r.entity => s = r
  BY InFlightCarefully
<1>3. ChangesApply!(r)'
  BY <1>1, <1>2
<1>4. ASSUME NEW s \in InFlight, s # r, lock[s.entity] = s
      PROVE  lock'[s.entity] = s /\ newStatus'[s.entity] = newStatus[s.entity]
  <2>1. s \in Requests /\ s.entity \in Entities /\ s # None /\ s.entity # r.entity
    BY <1>2, <1>4, RequestFields DEF InFlight
  <2> QED
    BY <1>4, <2>1 DEF DiscussionInv, TypeOK
<1>5. RemovalsAreTold'
  BY DEF CarefulInv, RemovalsAreTold
<1> QED
  BY <1>1, <1>2, <1>3, <1>4, <1>5, CarefulStep DEF InFlight, places

LEMMA InsertsCarefully ==
    ASSUME DiscussionInv, CarefulInv, NEW r \in Requests, r.op = "create",
           InsertComment(r)
    PROVE  CarefulInv'
<1>1. lock[r.entity] = None /\ r.entity \in Entities
  BY NewRowIsFree, RequestFields DEF InsertComment
<1>2. \A f \in Entities \ {r.entity} : newStatus'[f] = newStatus[f]
  BY DEF InsertComment, DiscussionInv, TypeOK
<1>3. /\ pc[r] = "write" /\ pc' = [pc EXCEPT ![r] = "threadCount"]
      /\ lock' = [lock EXCEPT ![r.entity] = r]
      /\ UNCHANGED <<status, count, places, seen, told>>
  BY DEF InsertComment
<1> QED
  BY <1>1, <1>2, <1>3, WritesCarefully

LEMMA EditsCarefully ==
    ASSUME DiscussionInv, CarefulInv, NEW r \in Requests, r.op = "edit",
           WriteContent(r)
    PROVE  CarefulInv'
<1>1. pc[r] = "write" /\ pc' = [pc EXCEPT ![r] = "publish"]
      /\ UNCHANGED <<status, count, newStatus, newCount, places, seen, told>>
  BY DEF WriteContent
<1>2. r.entity \in Entities
  BY RequestFields
<1>3. CASE MayWrite(r) /\ lock' = [lock EXCEPT ![r.entity] = r]
  <2>1. lock[r.entity] \in {None, r}
    BY <1>1, <1>3 DEF MayWrite, NextRow
  <2>2. \A f \in Entities \ {r.entity} : newStatus'[f] = newStatus[f]
    BY <1>1
  <2> QED
    BY <1>1, <1>2, <1>3, <2>1, <2>2, WritesCarefully
<1>4. CASE lock' = lock
  \* Nothing is written: a step of r alone.
  <2>1. \A s \in Requests : pc'[s] = IF s = r THEN "publish" ELSE pc[s]
    BY <1>1 DEF DiscussionInv, TypeOK
  <2>2. ChangesApply!(r)' /\ \A s \in InFlight : s.entity = r.entity => s = r
    BY <1>1, <2>1, InFlightCarefully
  <2>3. RemovalsAreTold'
    BY <1>1 DEF CarefulInv, RemovalsAreTold
  <2> QED
    BY <1>1, <1>4, <2>1, <2>2, <2>3, CarefulStep DEF InFlight, places
<1> QED
  BY <1>3, <1>4 DEF WriteContent

\* A deletion changes the status: what was loaded is still there, and is not what
\* a removal makes of it.
LEMMA DeletesCarefully ==
    ASSUME DiscussionInv, CarefulInv, NEW r \in Requests, r.op = "delete",
           WriteStatus(r)
    PROVE  CarefulInv'
<1>1. lock[r.entity] = None /\ r.entity \in Entities
  <2>1. lock[r.entity] # r
    BY RequestFields DEF WriteStatus, DiscussionInv, LocksHeld, Written, AfterWrite,
                         AfterThread, AfterParent
  <2> QED
    BY <2>1, RequestFields DEF WriteStatus, MayWrite, NextRow
<1>2. newStatus[r.entity] = status[r.entity] /\ seen[r] = status[r.entity]
  BY <1>1, InFlightCarefully DEF WriteStatus, DiscussionInv, NewValues
<1>3. /\ newStatus'[r.entity] = DeletedStatus(r)
      /\ \A f \in Entities \ {r.entity} : newStatus'[f] = newStatus[f]
      /\ lock'[r.entity] = r
  BY <1>1, <1>2 DEF WriteStatus, DiscussionInv, TypeOK
<1>4. /\ \E p \in {"threadCount", "parentCount", "publish"} : pc' = [pc EXCEPT ![r] = p]
      /\ pc[r] # "idle" /\ lock' = [lock EXCEPT ![r.entity] = r]
      /\ UNCHANGED <<status, count, places, seen, told>>
  <2>1. CASE Counts(r)
    BY <2>1 DEF WriteStatus
  <2>2. CASE ~ Counts(r)
    BY <2>2 DEF WriteStatus
  <2> QED
    BY <2>1, <2>2
<1> QED
  BY <1>1, <1>3, <1>4, WritesCarefully

LEMMA CountsCarefully ==
    ASSUME DiscussionInv, CarefulInv, NEW r \in Requests,
           UpdateThreadCount(r) \/ UpdateParentCount(r)
    PROVE  CarefulInv'
<1> DEFINE e == NextRow(r)
<1>1. /\ pc[r] \in {"threadCount", "parentCount"} /\ Counts(r) /\ r.entity \in Comments
      /\ lock[e] \in {None, r} /\ lock' = [lock EXCEPT ![e] = r]
      /\ e = IF pc[r] = "threadCount" THEN threadOf[r.entity] ELSE parentOf[r.entity]
      /\ UNCHANGED <<status, count, newStatus, places, seen, told>>
  BY CountsComments
     DEF UpdateThreadCount, UpdateParentCount, MayWrite, NextRow, DiscussionInv, LocksHeld
<1>2. e \in Entities
  BY <1>1, NoneIsNone DEF DiscussionInv, PlacesHeld, ParentsExist, TypeOK, Working
<1>3. r.op = "delete" => lock'[r.entity] = r /\ newStatus'[r.entity] = DeletedStatus(r)
  BY <1>1, <1>2, InFlightCarefully
     DEF AfterWrite, AfterThread, DiscussionInv, TypeOK
<1>4. \E p \in {"threadCount", "parentCount", "publish"} : pc' = [pc EXCEPT ![r] = p]
  BY DEF UpdateThreadCount, UpdateParentCount
<1> QED
  BY <1>1, <1>2, <1>3, <1>4, WritesCarefully

\* What is told is told before the commit, of what nobody has removed.
LEMMA PublishesCarefully ==
    ASSUME "publish" \notin Faults, DiscussionInv, CarefulInv, NEW r \in Requests,
           Publish(r)
    PROVE  CarefulInv'
<1>1. /\ pc[r] = "publish" /\ pc' = [pc EXCEPT ![r] = "commit"]
      /\ told' = [told EXCEPT ![r.entity] = EventShows(r)]
      /\ UNCHANGED <<status, count, newStatus, newCount, lock, places, seen>>
  BY DEF Publish, rows
<1>2. r.entity \in Entities
  BY RequestFields
<1>3. /\ \A s \in Requests : pc'[s] = IF s = r THEN "commit" ELSE pc[s]
      /\ \A e \in Entities : told'[e] = IF e = r.entity THEN EventShows(r) ELSE told[e]
  BY <1>1, <1>2 DEF DiscussionInv, TypeOK
<1>4. r \in InFlight /\ ChangesApply!(r) /\ \A s \in InFlight : s.entity = r.entity => s = r
  BY <1>1, InFlightCarefully
<1>5. ChangesApply!(r)'
  BY <1>1, <1>2, <1>3, <1>4
     DEF EventShows, DeletedStatus, Privileged, AfterWrite, AfterThread, AfterParent
<1>6. RemovalsAreTold'
  BY <1>1, <1>3, <1>4 DEF CarefulInv, RemovalsAreTold
<1>7. \A s \in InFlight : s # r => s.entity \in Entities /\ s.entity # r.entity
  BY <1>4, RequestFields DEF InFlight
<1> QED
  BY <1>1, <1>3, <1>4, <1>5, <1>6, <1>7, CarefulStep DEF InFlight, places

\* What a careful request commits to its entity: a creation makes a comment
\* listed, a removal takes one that was listed from the lists.
LEMMA CarefulCommit ==
    ASSUME DiscussionInv, CarefulInv, NEW r \in Requests, Commit(r)
    PROVE  /\ r \in InFlight /\ ChangesApply!(r)
           /\ \A s \in InFlight : s.entity = r.entity => s = r
           /\ \A e \in Entities : e # r.entity \/ r.op = "edit" => status'[e] = status[e]
           /\ r.op = "create" => status[r.entity] = "NONE" /\ status'[r.entity] = "ACTIVE"
           /\ r.op = "delete" => /\ status[r.entity] \notin {"NONE", "MOD_REMOVED"}
                                 /\ status'[r.entity] = DeletedStatus(r)
<1>1. pc[r] = "commit" /\ pc[r] \in AfterWrite /\ pc[r] \in Working \ {"load"}
  BY DEF Commit, Working, AfterWrite, AfterThread, AfterParent
<1>2. /\ r \in InFlight /\ ChangesApply!(r)
      /\ \A s \in InFlight : s.entity = r.entity => s = r
  BY <1>1, InFlightCarefully
<1>3. r.op = "create" => lock[r.entity] = r
  BY CommitRows, CountsComments
<1>4. r.op = "create" => status[r.entity] = "NONE"
  BY <1>1 DEF DiscussionInv, PlacesHeld
<1>5. r.op = "delete" => status[r.entity] # "NONE"
  BY <1>1 DEF DiscussionInv, PlacesHeld
<1>6. r.op = "delete" => status'[r.entity] = DeletedStatus(r)
  BY <1>1, <1>2, RequestFields DEF Commit
<1> QED
  BY <1>2, <1>3, <1>4, <1>5, <1>6, CommitEffect

LEMMA CommitKeepsMatch ==
    ASSUME DiscussionInv, CarefulInv, NEW r \in Requests, Commit(r)
    PROVE  CountsMatchListed'
<1> SUFFICES ASSUME NEW e \in Entities
             PROVE  count'[e] = Cardinality(Counted(e)')
  BY DEF CountsMatchListed
<1> DEFINE c == r.entity
<1>1. /\ count[e] \in Nat /\ count[e] = Cardinality(Counted(e))
      /\ IsFiniteSet(Counted(e))
  BY CountedFinite DEF DiscussionInv, TypeOK, CarefulInv, CountsMatchListed
<1>2. threadOf' = threadOf /\ parentOf' = parentOf
  BY DEF Commit, places
<1>3. \A d \in Comments : d # c => status'[d] = status[d]
  BY CarefulCommit, NoneIsNone
<1>4. CASE ~ Counts(r)
  <2>1. count'[e] = count[e]
    BY <1>4, CommitEffect DEF DiscussionInv, LocksHeld
  <2>2. \A d \in Comments : Listed(d) <=> Listed(d)'
    <3> SUFFICES ASSUME c \in Comments PROVE Listed(c) <=> Listed(c)'
      BY <1>3 DEF Listed
    <3>1. CASE r.op = "edit"
      BY <3>1, CarefulCommit, NoneIsNone DEF Listed
    <3>2. CASE r.op = "delete"
      <4>1. status'[c] = "USER_DELETED"
        BY <1>4, <3>2, CarefulCommit DEF Counts, DeletedStatus
      <4>2. status[c] \in {"ACTIVE", "USER_DELETED"}
        BY <3>2, CarefulCommit, NoneIsNone DEF DiscussionInv, TypeOK, Statuses
      <4> QED
        BY <4>1, <4>2 DEF Listed
    <3> QED
      BY <1>4, <3>1, <3>2, RequestFields, CountsComments
  <2>3. Counted(e)' = Counted(e)
    BY <1>2, <2>2 DEF Counted
  <2> QED
    BY <1>1, <2>1, <2>3
<1>5. CASE r.op = "create"
  <2>1. Counts(r) /\ c \in Comments /\ status[c] = "NONE" /\ status'[c] = "ACTIVE"
    BY <1>5, CountsComments, CarefulCommit
  <2>2. c \notin Counted(e)
    BY <2>1 DEF Counted, Listed
  <2>3. CASE e # c /\ e \in {threadOf[c], parentOf[c]}
    <3>1. count'[e] = count[e] + 1
      BY <1>5, <2>1, <2>3, CommitRows, CommitEffect DEF CountAfter
    <3>2. Counted(e)' = Counted(e) \cup {c}
      BY <1>2, <1>3, <2>1, <2>3 DEF Counted, Listed
    <3> QED
      BY <1>1, <2>2, <3>1, <3>2, FS_AddElement
  <2>4. CASE ~ (e # c /\ e \in {threadOf[c], parentOf[c]})
    <3>1. count'[e] = count[e]
      BY <2>1, <2>4, CommitRows, CommitEffect
    <3>2. e # threadOf[c] /\ e # parentOf[c]
      BY <2>1, <2>4, CommitRows
    <3>3. Counted(e)' = Counted(e)
      BY <1>2, <1>3, <2>1, <3>2 DEF Counted, Listed
    <3> QED
      BY <1>1, <3>1, <3>3
  <2> QED
    BY <2>3, <2>4
<1>6. CASE Counts(r) /\ r.op # "create"
  <2>1. r.op = "delete" /\ c \in Comments /\ Privileged(r)
    BY <1>6, CountsComments DEF Counts
  <2>2. status[c] \in {"ACTIVE", "USER_DELETED"} /\ status'[c] = "MOD_REMOVED"
    BY <2>1, CarefulCommit, NoneIsNone
       DEF DeletedStatus, DiscussionInv, TypeOK, Statuses
  <2>3. CASE e # c /\ e \in {threadOf[c], parentOf[c]}
    <3>1. count'[e] = IF count[e] = 0 THEN 0 ELSE count[e] - 1
      BY <1>6, <2>3, CommitRows, CommitEffect DEF CountAfter
    <3>2. c \in Counted(e) /\ Counted(e)' = Counted(e) \ {c}
      BY <1>2, <1>3, <2>1, <2>2, <2>3 DEF Counted, Listed
    <3>3. Cardinality(Counted(e) \ {c}) = Cardinality(Counted(e)) - 1
      BY <1>1, <3>2, FS_RemoveElement
    <3>4. Cardinality(Counted(e) \ {c}) \in Nat
      BY <1>1, FS_Subset, FS_CardinalityType
    <3> QED
      BY <1>1, <3>1, <3>2, <3>3, <3>4
  <2>4. CASE ~ (e # c /\ e \in {threadOf[c], parentOf[c]})
    <3>1. count'[e] = count[e]
      BY <1>6, <2>4, CommitRows, CommitEffect
    <3>2. e # threadOf[c] /\ e # parentOf[c]
      BY <1>6, <2>4, CommitRows
    <3>3. Counted(e)' = Counted(e)
      BY <1>2, <1>3, <2>1, <3>2 DEF Counted, Listed
    <3> QED
      BY <1>1, <3>1, <3>3
  <2> QED
    BY <2>3, <2>4
<1> QED
  BY <1>4, <1>5, <1>6

LEMMA CommitsCarefully ==
    ASSUME DiscussionInv, CarefulInv, NEW r \in Requests, Commit(r)
    PROVE  CarefulInv'
<1>1. /\ \A s \in Requests : pc'[s] = IF s = r THEN "idle" ELSE pc[s]
      /\ \A s \in Requests : s # r => seen'[s] = seen[s]
      /\ newStatus' = newStatus /\ told' = told
  BY DEF Commit, DiscussionInv, TypeOK
<1>2. ASSUME NEW s \in InFlight'
      PROVE  s \in InFlight /\ s \in Requests /\ s # r /\ pc'[s] = pc[s] /\ seen'[s] = seen[s]
  BY <1>1, <1>2 DEF InFlight
<1>3. ASSUME NEW s \in InFlight'
      PROVE  /\ s.entity \in Entities /\ s.entity # r.entity
             /\ status'[s.entity] = status[s.entity]
             /\ lock[s.entity] = s => lock'[s.entity] = s
  <2>1. s.entity \in Entities /\ s.entity # r.entity
    BY <1>2, <1>3, RequestFields, CarefulCommit
  <2> QED
    BY <1>2, <1>3, <2>1, CarefulCommit, CommitEffect
<1>4. AloneOnEntity'
  BY <1>2 DEF CarefulInv, AloneOnEntity
<1>5. ChangesApply'
  BY <1>1, <1>2, <1>3
     DEF CarefulInv, ChangesApply, EventShows, DeletedStatus, Privileged
<1>6. RemovalsAreTold'
  <2> SUFFICES ASSUME NEW e \in Entities, status'[e] = "MOD_REMOVED"
               PROVE  told[e] = "MOD_REMOVED"
    BY <1>1 DEF RemovalsAreTold
  <2>1. CASE e # r.entity \/ r.op = "edit"
    BY <2>1, CarefulCommit DEF CarefulInv, RemovalsAreTold
  <2>2. CASE e = r.entity /\ r.op # "edit"
    <3>1. r.op = "delete" /\ DeletedStatus(r) = "MOD_REMOVED"
      BY <2>2, CarefulCommit, RequestFields
    <3> QED
      BY <2>2, <3>1, CarefulCommit DEF Commit, EventShows
  <2> QED
    BY <2>1, <2>2
<1> QED
  BY <1>4, <1>5, <1>6, CommitKeepsMatch DEF CarefulInv

LEMMA HandlesCarefully ==
    ASSUME "publish" \notin Faults, DiscussionInv, CarefulInv,
           NEW r \in Requests, Handler(r)
    PROVE  CarefulInv'
<1>1. CASE CreateComment(r)
  BY <1>1, LoadsCarefully, InsertsCarefully, CountsCarefully, PublishesCarefully
     DEF CreateComment
<1>2. CASE EditComment(r) \/ EditThread(r)
  BY <1>2, LoadsCarefully, EditsCarefully, PublishesCarefully
     DEF EditComment, EditThread
<1>3. CASE DeleteComment(r) \/ DeleteThread(r)
  BY <1>3, LoadsCarefully, DeletesCarefully, CountsCarefully, PublishesCarefully
     DEF DeleteComment, DeleteThread
<1>4. CASE Commit(r) \/ Close(r)
  BY <1>4, CommitsCarefully, ClosesCarefully
<1> QED
  BY <1>1, <1>2, <1>3, <1>4 DEF Handler

LEMMA NextIsCareful ==
    ASSUME Careful, "publish" \notin Faults, DiscussionInv, CarefulInv, [Next]_vars
    PROVE  CarefulInv'
<1>1. ASSUME NEW r \in Requests, DeadlockVictim(r)
      PROVE  CarefulInv'
  <2>1. NextRow(r) # None
    BY <1>1 DEF DeadlockVictim, Ring, WaitsFor
  <2>2. pc[r] \in Working /\ "serverError" \in ErrorReplies
    BY <2>1 DEF NextRow, Working, ErrorReplies
  <2> QED
    BY <1>1, <2>2, FailsCarefully DEF DeadlockVictim
<1>2. ASSUME NEW r \in Requests, CommitFails(r) \/ StatementFails(r)
      PROVE  CarefulInv'
  BY <1>2, RollsBackCarefully, FailsCarefully
     DEF CommitFails, StatementFails, Working, ErrorReplies
<1>3. CASE UNCHANGED vars
  BY <1>3 DEF vars, rows, places, CarefulInv, AloneOnEntity, RemovalsAreTold,
              ChangesApply, InFlight, EventShows, DeletedStatus, Privileged,
              CountsMatchListed, Counted, Listed
<1> QED
  BY <1>1, <1>2, <1>3, StartsCarefully, HandlesCarefully, ProcessDiesCarefully
     DEF Next

\* Clients who act on what they see, one change of an entity at a time, and a broker
\* that takes every event: whatever else fails, every change applies to what it was
\* meant for, and what a moderator removes is told before it is committed.
THEOREM CarefulInvariant ==
    ASSUME Careful, "publish" \notin Faults
    PROVE  Spec => []CarefulInv
<1>1. Init => CarefulInv
  BY InitCarefulInv
<1>2. DiscussionInv /\ CarefulInv /\ [Next]_vars => CarefulInv'
  BY NextIsCareful
<1> QED
  BY <1>1, <1>2, DiscussionInvariant, PTL DEF Spec

\* Then comment_count and reply_count are the numbers of comments and replies that
\* are listed, at any moment.
THEOREM CountsAreExact ==
    ASSUME Careful, "publish" \notin Faults
    PROVE  Spec => []CountsMatchListed
<1>1. CarefulInv => CountsMatchListed
  BY DEF CarefulInv
<1> QED
  BY <1>1, CarefulInvariant, PTL

\* And no client goes on showing what a moderator has removed.
THEOREM RemovedStaysHidden ==
    ASSUME Careful, "publish" \notin Faults
    PROVE  Spec => []RemovedIsNotShown
<1>1. CarefulInv => RemovedIsNotShown
  BY DEF CarefulInv, RemovalsAreTold, RemovedIsNotShown
<1> QED
  BY <1>1, CarefulInvariant, PTL
=============================================================================
