----------------------------- MODULE TagsProofs -----------------------------
(***************************************************************************)
(* Theorems about Tags, for any threads, names, requests and faults.       *)
(***************************************************************************)
EXTENDS Tags, TLAPS

USE TagsAssumption

-----------------------------------------------------------------------------
(* Requests, and the parts of the invariant.                               *)

\* A request is made of these.
LEMMA RequestParts ==
    ASSUME NEW r \in Requests
    PROVE  /\ r.op \in {"create", "edit"} /\ r.thread \in Threads
           /\ r.given \in BOOLEAN /\ r.tags \subseteq Names
           /\ r.op = "create" => r.given
           /\ r # None
  BY DEF RequestType

\* The initial states satisfy the invariant.
LEMMA InitHolds == Init => TagsInv
<1>. SUFFICES ASSUME Init PROVE TagsInv
  OBVIOUS
<1>. USE RequestParts DEF Init
<1>1. TypeOK
  BY DEF TypeOK
<1>2. LocksHeld
  BY DEF LocksHeld, HoldsThread
<1>3. ThreadsInPlace
  BY DEF ThreadsInPlace, Working
<1>4. TagsInPlace
  BY DEF TagsInPlace
<1>5. WearsInPlace
  BY DEF WearsInPlace, Working
<1>6. ToldInPlace
  BY DEF ToldInPlace
<1>7. EditTakesEffect
  BY DEF EditTakesEffect
<1>. QED BY <1>1, <1>2, <1>3, <1>4, <1>5, <1>6, <1>7 DEF TagsInv

-----------------------------------------------------------------------------
(* One lemma per operation.                                                *)

\* A transaction that is rolled back.
LEMMA FailKeeps ==
    ASSUME TagsInv, NEW r \in Requests, NEW reply \in {"idle"} \cup ErrorReplies, pc[r] \in Working, Fail(r, reply)
    PROVE  TagsInv'
<1>. USE RequestParts DEF TagsInv, TypeOK, Fail, RollBack, rows
<1>1. TypeOK'
  BY DEF Working, ErrorReplies, TagsInPlace
<1>2. LocksHeld'
  <2>1. ASSUME NEW s \in Requests
        PROVE  (pc[s] \in HoldsThread <=> lock[s.thread] = s)'
    BY DEF LocksHeld, HoldsThread, Working, ErrorReplies
  <2>2. ASSUME NEW t \in Threads, lock'[t] # None PROVE lock'[t].thread = t
    BY <2>2 DEF LocksHeld
  <2>3. ASSUME NEW n \in Names, owner'[n] # None
        PROVE  /\ pc'[owner'[n]] \in {"insert", "wear", "publish", "commit"}
               /\ n \in owner'[n].tags \ (missing'[owner'[n]] \cup tagNames')
    BY <2>3 DEF LocksHeld, TagsInPlace, Working, ErrorReplies
  <2>. QED BY <2>1, <2>2, <2>3 DEF LocksHeld
<1>3. ThreadsInPlace'
  BY DEF ThreadsInPlace, Working, InFlight, LocksHeld, HoldsThread, ErrorReplies
<1>4. TagsInPlace'
  BY DEF TagsInPlace, Working, Inserted, ErrorReplies, LocksHeld, HoldsThread
<1>5. WearsInPlace'
  BY DEF WearsInPlace, LocksHeld, HoldsThread, TagsInPlace, ThreadsInPlace, Working, Inserted, ErrorReplies
<1>6. ToldInPlace'
  BY DEF ToldInPlace, WearsInPlace, LocksHeld, HoldsThread, TagsInPlace, ThreadsInPlace, Working, ErrorReplies
<1>7. EditTakesEffect'
  BY DEF EditTakesEffect, WearsInPlace, LocksHeld, HoldsThread, ThreadsInPlace, Working, ErrorReplies
<1>. QED BY <1>1, <1>2, <1>3, <1>4, <1>5, <1>6, <1>7 DEF TagsInv

\* A request arrives, and its client gets the reply.
LEMMA StartKeeps ==
    ASSUME TagsInv, NEW r \in Requests, Start(r) \/ Close(r)
    PROVE  TagsInv'
<1>. USE RequestParts DEF TagsInv, TypeOK, Start, Close, rows, pending, session
<1>1. TypeOK'
  BY DEF Working, ErrorReplies, TagsInPlace
<1>2. LocksHeld'
  <2>1. ASSUME NEW s \in Requests
        PROVE  (pc[s] \in HoldsThread <=> lock[s.thread] = s)'
    BY DEF LocksHeld, HoldsThread, Working, ErrorReplies
  <2>2. ASSUME NEW t \in Threads, lock'[t] # None PROVE lock'[t].thread = t
    BY <2>2 DEF LocksHeld
  <2>3. ASSUME NEW n \in Names, owner'[n] # None
        PROVE  /\ pc'[owner'[n]] \in {"insert", "wear", "publish", "commit"}
               /\ n \in owner'[n].tags \ (missing'[owner'[n]] \cup tagNames')
    BY <2>3 DEF LocksHeld, TagsInPlace, Working, ErrorReplies
  <2>. QED BY <2>1, <2>2, <2>3 DEF LocksHeld
<1>3. ThreadsInPlace'
  <2>1. CASE Start(r)
    <3>1. r.op = "create" => r.thread \notin exists /\ r \notin overtaken
      BY <2>1 DEF TagsInPlace, Working
    <3>2. ASSUME NEW s \in Requests \ {r}, s.op = "create", r.op = "create", s.thread = r.thread
          PROVE  pc[s] \notin Working
      BY <2>1, <3>2 DEF InFlight, Working
    <3>. QED BY <2>1, <3>1, <3>2 DEF ThreadsInPlace, Working
  <2>2. CASE Close(r)
    BY <2>2 DEF ThreadsInPlace, Working
  <2>. QED BY <2>1, <2>2
<1>4. TagsInPlace'
  BY DEF TagsInPlace, Working, Inserted, ErrorReplies, LocksHeld, HoldsThread
<1>5. WearsInPlace'
  BY DEF WearsInPlace, LocksHeld, HoldsThread, TagsInPlace, ThreadsInPlace, Working, Inserted, ErrorReplies
<1>6. ToldInPlace'
  BY DEF ToldInPlace, WearsInPlace, LocksHeld, HoldsThread, TagsInPlace, ThreadsInPlace, Working, ErrorReplies
<1>7. EditTakesEffect'
  BY DEF EditTakesEffect, WearsInPlace, LocksHeld, HoldsThread, ThreadsInPlace, Working, ErrorReplies
<1>. QED BY <1>1, <1>2, <1>3, <1>4, <1>5, <1>6, <1>7 DEF TagsInv

\* A thread is inserted.
LEMMA InsertThreadKeeps ==
    ASSUME TagsInv, NEW r \in Requests, r.op = "create", InsertThread(r)
    PROVE  TagsInv'
<1>. USE RequestParts DEF TagsInv, TypeOK, InsertThread, rows, session
<1>0. lock[r.thread] = None /\ wears[r.thread] = {} /\ newWears[r.thread] = {}
  <2>1. lock[r.thread] = None
    BY DEF LocksHeld, HoldsThread, ThreadsInPlace, Working
  <2>. QED BY <2>1 DEF WearsInPlace, ThreadsInPlace, Working
<1>1. TypeOK'
  BY DEF Working, ErrorReplies, TagsInPlace
<1>2. LocksHeld'
  BY DEF LocksHeld, HoldsThread, ThreadsInPlace, TagsInPlace, Working
<1>3. ThreadsInPlace'
  BY DEF ThreadsInPlace, Working, InFlight, LocksHeld, HoldsThread, ErrorReplies
<1>4. TagsInPlace'
  BY DEF TagsInPlace, Working, Inserted, ErrorReplies, LocksHeld, HoldsThread
<1>5. WearsInPlace'
  <2>1. ASSUME NEW t \in Threads
        PROVE  (/\ wears[t] \subseteq tagNames
                /\ t \notin exists => wears[t] = {}
                /\ lock[t] = None => newWears[t] = wears[t])'
    BY DEF WearsInPlace
  <2>2. Inserted(r) = {}
    BY DEF Inserted, LocksHeld
  <2>3. Inserted(r)' = {}
    BY <2>2 DEF Inserted
  <2>4. ASSUME NEW s \in Requests
        PROVE  (/\ pc[s] \in {"find", "insert", "wear"} => newWears[s.thread] = wears[s.thread]
                /\ pc[s] \in Working \ {"load"} /\ s \notin overtaken => loaded[s] = wears[s.thread]
                /\ pc[s] = "publish" /\ ~ s.given => newWears[s.thread] = wears[s.thread]
                /\ pc[s] \in {"publish", "commit"} =>
                      /\ Inserted(s) \subseteq newWears[s.thread]
                      /\ newWears[s.thread] \subseteq tagNames \cup Inserted(s))'
    <3>1. CASE s = r
      BY <3>1, <1>0, <2>3 DEF TagsInPlace, Working
    <3>2. CASE s # r
      BY <3>2 DEF WearsInPlace, Inserted
    <3>. QED BY <3>1, <3>2
  <2>. QED BY <2>1, <2>4 DEF WearsInPlace
<1>6. ToldInPlace'
  BY DEF ToldInPlace, WearsInPlace, LocksHeld, HoldsThread, TagsInPlace, ThreadsInPlace, Working, ErrorReplies
<1>7. EditTakesEffect'
  <2>1. ASSUME NEW s \in Requests, s # r, pc[s] \in {"publish", "commit"}, s.given, s \notin overtaken
        PROVE  newWears[s.thread] = s.tags
    BY <2>1 DEF EditTakesEffect
  <2>2. pc'[r] = "publish" => newWears[r.thread] = r.tags
    BY <1>0
  <2>. QED BY <2>1, <2>2 DEF EditTakesEffect
<1>. QED BY <1>1, <1>2, <1>3, <1>4, <1>5, <1>6, <1>7 DEF TagsInv

\* A thread is loaded with its tags.
LEMMA LoadThreadKeeps ==
    ASSUME TagsInv, NEW r \in Requests, r.op = "edit", r.thread \in exists, pc[r] = "load",
           loaded' = [loaded EXCEPT ![r] = wears[r.thread]],
           pc' = [pc EXCEPT ![r] = "update"],
           UNCHANGED <<rows, pending, missing, next, told, overtaken, misled>>
    PROVE  TagsInv'
<1>. USE RequestParts DEF TagsInv, TypeOK, rows, pending
<1>1. TypeOK'
  BY DEF Working, ErrorReplies, TagsInPlace
<1>2. LocksHeld'
  BY DEF LocksHeld, HoldsThread, ThreadsInPlace, TagsInPlace, Working
<1>3. ThreadsInPlace'
  BY DEF ThreadsInPlace, Working, InFlight, LocksHeld, HoldsThread, ErrorReplies
<1>4. TagsInPlace'
  BY DEF TagsInPlace, WearsInPlace, Working, Inserted
<1>5. WearsInPlace'
  BY DEF WearsInPlace, LocksHeld, HoldsThread, TagsInPlace, ThreadsInPlace, Working, Inserted, ErrorReplies
<1>6. ToldInPlace'
  BY DEF ToldInPlace, WearsInPlace, LocksHeld, HoldsThread, TagsInPlace, ThreadsInPlace, Working, ErrorReplies
<1>7. EditTakesEffect'
  BY DEF EditTakesEffect, WearsInPlace, LocksHeld, HoldsThread, ThreadsInPlace, Working, ErrorReplies
<1>. QED BY <1>1, <1>2, <1>3, <1>4, <1>5, <1>6, <1>7 DEF TagsInv

\* A thread is updated.
LEMMA UpdateThreadKeeps ==
    ASSUME TagsInv, NEW r \in Requests, r.op = "edit", UpdateThread(r)
    PROVE  TagsInv'
<1>. USE RequestParts DEF TagsInv, TypeOK, UpdateThread, rows, session
<1>1. TypeOK'
  BY DEF Working, ErrorReplies, TagsInPlace
<1>2. LocksHeld'
  BY DEF LocksHeld, HoldsThread, ThreadsInPlace, TagsInPlace, Working
<1>3. ThreadsInPlace'
  BY DEF ThreadsInPlace, Working, InFlight, LocksHeld, HoldsThread, ErrorReplies
<1>4. TagsInPlace'
  BY DEF TagsInPlace, Working, Inserted, ErrorReplies, LocksHeld, HoldsThread
<1>5. WearsInPlace'
  BY DEF WearsInPlace, LocksHeld, HoldsThread, TagsInPlace, ThreadsInPlace, Working, Inserted, ErrorReplies
<1>6. ToldInPlace'
  BY DEF ToldInPlace, WearsInPlace, LocksHeld, HoldsThread, TagsInPlace, ThreadsInPlace, Working, ErrorReplies
<1>7. EditTakesEffect'
  BY DEF EditTakesEffect, WearsInPlace, LocksHeld, HoldsThread, ThreadsInPlace, Working, ErrorReplies
<1>. QED BY <1>1, <1>2, <1>3, <1>4, <1>5, <1>6, <1>7 DEF TagsInv

\* The tags that are there are found.
LEMMA FindTagsKeeps ==
    ASSUME TagsInv, NEW r \in Requests, FindTags(r)
    PROVE  TagsInv'
<1>. USE RequestParts DEF TagsInv, TypeOK, FindTags, GoesOn, rows, pending
<1>1. TypeOK'
  BY DEF Working, ErrorReplies, TagsInPlace
<1>2. LocksHeld'
  BY DEF LocksHeld, HoldsThread, ThreadsInPlace, TagsInPlace, Working
<1>3. ThreadsInPlace'
  BY DEF ThreadsInPlace, Working, InFlight, LocksHeld, HoldsThread, ErrorReplies
<1>4. TagsInPlace'
  BY DEF TagsInPlace, Working, Inserted, ErrorReplies, LocksHeld, HoldsThread
<1>5. WearsInPlace'
  BY DEF WearsInPlace, LocksHeld, HoldsThread, TagsInPlace, ThreadsInPlace, Working, Inserted, ErrorReplies
<1>6. ToldInPlace'
  BY DEF ToldInPlace, WearsInPlace, LocksHeld, HoldsThread, TagsInPlace, ThreadsInPlace, Working, ErrorReplies
<1>7. EditTakesEffect'
  BY DEF EditTakesEffect, WearsInPlace, LocksHeld, HoldsThread, ThreadsInPlace, Working, ErrorReplies
<1>. QED BY <1>1, <1>2, <1>3, <1>4, <1>5, <1>6, <1>7 DEF TagsInv

\* A tag is inserted.
LEMMA InsertTagKeeps ==
    ASSUME TagsInv, NEW r \in Requests, pc[r] = "insert", owner[next[r]] = None, next[r] \notin tagNames,
           owner' = [owner EXCEPT ![next[r]] = r],
           GoesOn(r, missing[r] \ {next[r]}),
           UNCHANGED <<rows, newWears, lock, loaded, told, overtaken, misled>>
    PROVE  TagsInv'
<1>. USE RequestParts DEF TagsInv, TypeOK, GoesOn, rows
<1>1. TypeOK'
  BY DEF Working, ErrorReplies, TagsInPlace
<1>2. LocksHeld'
  <2>1. ASSUME NEW s \in Requests
        PROVE  (pc[s] \in HoldsThread <=> lock[s.thread] = s)'
    BY DEF LocksHeld, HoldsThread, Working, ErrorReplies
  <2>2. ASSUME NEW t \in Threads, lock'[t] # None PROVE lock'[t].thread = t
    BY <2>2 DEF LocksHeld
  <2>3. ASSUME NEW n \in Names, owner'[n] # None
        PROVE  /\ pc'[owner'[n]] \in {"insert", "wear", "publish", "commit"}
               /\ n \in owner'[n].tags \ (missing'[owner'[n]] \cup tagNames')
    <3>0. next[r] \in missing[r] /\ next[r] \in Names /\ next[r] \in r.tags
      BY DEF TagsInPlace
    <3>1. CASE n = next[r]
      BY <2>3, <3>0, <3>1
    <3>2. CASE n # next[r]
      <4>1. owner[n] # None /\ owner'[n] = owner[n] /\ owner[n] \in Requests
        BY <2>3, <3>0, <3>2
      <4>. QED BY <2>3, <3>0, <3>2, <4>1 DEF LocksHeld
    <3>. QED BY <3>1, <3>2
  <2>. QED BY <2>1, <2>2, <2>3 DEF LocksHeld
<1>3. ThreadsInPlace'
  BY DEF ThreadsInPlace, Working, InFlight, LocksHeld, HoldsThread, ErrorReplies
<1>4. TagsInPlace'
  BY DEF TagsInPlace, Working, Inserted, ErrorReplies, LocksHeld, HoldsThread
<1>5. WearsInPlace'
  BY DEF WearsInPlace, LocksHeld, HoldsThread, TagsInPlace, ThreadsInPlace, Working, Inserted, ErrorReplies
<1>6. ToldInPlace'
  BY DEF ToldInPlace, WearsInPlace, LocksHeld, HoldsThread, TagsInPlace, ThreadsInPlace, Working, ErrorReplies
<1>7. EditTakesEffect'
  BY DEF EditTakesEffect, WearsInPlace, LocksHeld, HoldsThread, ThreadsInPlace, Working, ErrorReplies
<1>. QED BY <1>1, <1>2, <1>3, <1>4, <1>5, <1>6, <1>7 DEF TagsInv

\* The thread gets its tags.
LEMMA WearTagsKeeps ==
    ASSUME TagsInv, NEW r \in Requests, pc[r] = "wear", newWears' = [newWears EXCEPT ![r.thread] = Wearing(r)],
           pc' = [pc EXCEPT ![r] = "publish"],
           UNCHANGED <<rows, lock, owner, session, told, overtaken, misled>>
    PROVE  TagsInv'
<1>. USE RequestParts DEF TagsInv, TypeOK, Wearing, rows, session
<1>1. TypeOK'
  BY DEF Working, ErrorReplies, TagsInPlace
<1>2. LocksHeld'
  BY DEF LocksHeld, HoldsThread, ThreadsInPlace, TagsInPlace, Working
<1>3. ThreadsInPlace'
  BY DEF ThreadsInPlace, Working, InFlight, LocksHeld, HoldsThread, ErrorReplies
<1>4. TagsInPlace'
  BY DEF TagsInPlace, Working, Inserted, ErrorReplies, LocksHeld, HoldsThread
<1>5. WearsInPlace'
  BY DEF WearsInPlace, LocksHeld, HoldsThread, TagsInPlace, ThreadsInPlace, Working, Inserted, ErrorReplies
<1>6. ToldInPlace'
  BY DEF ToldInPlace, WearsInPlace, LocksHeld, HoldsThread, TagsInPlace, ThreadsInPlace, Working, ErrorReplies
<1>7. EditTakesEffect'
  <2>1. ASSUME NEW s \in Requests, s # r, pc[s] \in {"publish", "commit"}
        PROVE  s.thread # r.thread
    BY <2>1 DEF LocksHeld, HoldsThread
  <2>2. r \notin overtaken => newWears'[r.thread] = r.tags
    <3>. SUFFICES ASSUME r \notin overtaken PROVE newWears'[r.thread] = r.tags
      OBVIOUS
    <3>1. newWears[r.thread] = loaded[r]
      BY DEF WearsInPlace, Working
    <3>2. newWears'[r.thread] = (newWears[r.thread] \ (loaded[r] \ r.tags)) \cup (r.tags \ loaded[r])
      OBVIOUS
    <3>. QED BY <3>1, <3>2, Zenon
  <2>. QED BY <2>1, <2>2 DEF EditTakesEffect
<1>. QED BY <1>1, <1>2, <1>3, <1>4, <1>5, <1>6, <1>7 DEF TagsInv

\* The event leaves, or gets lost.
LEMMA PublishKeeps ==
    ASSUME TagsInv, NEW r \in Requests, Publish(r)
    PROVE  TagsInv'
<1>. USE RequestParts DEF TagsInv, TypeOK, Publish, Announced, rows, pending, session
<1>1. TypeOK'
  BY DEF Working, ErrorReplies, TagsInPlace
<1>2. LocksHeld'
  BY DEF LocksHeld, HoldsThread, ThreadsInPlace, TagsInPlace, Working
<1>3. ThreadsInPlace'
  BY DEF ThreadsInPlace, Working, InFlight, LocksHeld, HoldsThread, ErrorReplies
<1>4. TagsInPlace'
  BY DEF TagsInPlace, Working, Inserted, ErrorReplies, LocksHeld, HoldsThread
<1>5. WearsInPlace'
  BY DEF WearsInPlace, LocksHeld, HoldsThread, TagsInPlace, ThreadsInPlace, Working, Inserted, ErrorReplies
<1>6. ToldInPlace'
  BY DEF ToldInPlace, WearsInPlace, LocksHeld, HoldsThread, TagsInPlace, ThreadsInPlace, Working, ErrorReplies
<1>7. EditTakesEffect'
  BY DEF EditTakesEffect, WearsInPlace, LocksHeld, HoldsThread, ThreadsInPlace, Working, ErrorReplies
<1>. QED BY <1>1, <1>2, <1>3, <1>4, <1>5, <1>6, <1>7 DEF TagsInv

\* The transaction is committed.
LEMMA CommitKeeps ==
    ASSUME TagsInv, NEW r \in Requests, Commit(r)
    PROVE  TagsInv'
<1>. USE RequestParts DEF TagsInv, TypeOK, Commit, Inserted
<1>1. TypeOK'
  BY DEF Working, ErrorReplies, TagsInPlace
<1>2. LocksHeld'
  BY DEF LocksHeld, HoldsThread, ThreadsInPlace, TagsInPlace, Working
<1>3. ThreadsInPlace'
  BY DEF ThreadsInPlace, Working, InFlight, LocksHeld, HoldsThread, ErrorReplies
<1>4. TagsInPlace'
  BY DEF TagsInPlace, Working, Inserted, ErrorReplies, LocksHeld, HoldsThread
<1>5. WearsInPlace'
  BY DEF WearsInPlace, LocksHeld, HoldsThread, TagsInPlace, ThreadsInPlace, Working, Inserted, ErrorReplies
<1>6. ToldInPlace'
  BY DEF ToldInPlace, WearsInPlace, LocksHeld, HoldsThread, TagsInPlace, ThreadsInPlace, Working, ErrorReplies
<1>7. EditTakesEffect'
  BY DEF EditTakesEffect, WearsInPlace, LocksHeld, HoldsThread, ThreadsInPlace, Working, ErrorReplies
<1>. QED BY <1>1, <1>2, <1>3, <1>4, <1>5, <1>6, <1>7 DEF TagsInv

\* The process dies.
LEMMA ProcessDiesKeeps ==
    ASSUME TagsInv, ProcessDies
    PROVE  TagsInv'
<1>. USE RequestParts DEF TagsInv, TypeOK, ProcessDies, rows
<1>1. TypeOK'
  BY DEF Working, ErrorReplies, TagsInPlace
<1>2. LocksHeld'
  BY DEF LocksHeld, HoldsThread, ThreadsInPlace, TagsInPlace, Working
<1>3. ThreadsInPlace'
  BY DEF ThreadsInPlace, Working, InFlight, LocksHeld, HoldsThread, ErrorReplies
<1>4. TagsInPlace'
  BY DEF TagsInPlace, Working, Inserted, ErrorReplies, LocksHeld, HoldsThread
<1>5. WearsInPlace'
  BY DEF WearsInPlace, LocksHeld, HoldsThread, TagsInPlace, ThreadsInPlace, Working, Inserted, ErrorReplies
<1>6. ToldInPlace'
  BY DEF ToldInPlace, WearsInPlace, LocksHeld, HoldsThread, TagsInPlace, ThreadsInPlace, Working, ErrorReplies
<1>7. EditTakesEffect'
  BY DEF EditTakesEffect, WearsInPlace, LocksHeld, HoldsThread, ThreadsInPlace, Working, ErrorReplies
<1>. QED BY <1>1, <1>2, <1>3, <1>4, <1>5, <1>6, <1>7 DEF TagsInv

-----------------------------------------------------------------------------
(* Theorems.                                                               *)

\* The invariant does not speak of anything but the variables.
LEMMA UnchangedKeeps ==
    ASSUME TagsInv, UNCHANGED vars
    PROVE  TagsInv'
  BY DEF TagsInv, TypeOK, LocksHeld, ThreadsInPlace, TagsInPlace, WearsInPlace, ToldInPlace,
         EditTakesEffect, Inserted, vars, rows, pending, session

\* Every step keeps the invariant.
LEMMA StepKeeps ==
    ASSUME TagsInv, [Next]_vars
    PROVE  TagsInv'
<1>1. ASSUME NEW r \in Requests, NEW reply \in {"idle"} \cup ErrorReplies,
             pc[r] \in Working, Fail(r, reply)
      PROVE  TagsInv'
  BY <1>1, FailKeeps
<1>2. ASSUME NEW r \in Requests, LoadThread(r), r.op = "edit"
      PROVE  TagsInv'
  BY <1>1, <1>2, LoadThreadKeeps DEF LoadThread, Working, ErrorReplies
<1>3. ASSUME NEW r \in Requests, InsertTag(r)
      PROVE  TagsInv'
  BY <1>1, <1>3, InsertTagKeeps DEF InsertTag, Working, ErrorReplies
<1>4. ASSUME NEW r \in Requests, WearTags(r)
      PROVE  TagsInv'
  BY <1>1, <1>4, WearTagsKeeps DEF WearTags, Working, ErrorReplies
<1>5. ASSUME NEW r \in Requests, Handler(r)
      PROVE  TagsInv'
  BY <1>2, <1>3, <1>4, <1>5, InsertThreadKeeps, UpdateThreadKeeps, FindTagsKeeps,
     PublishKeeps, CommitKeeps, StartKeeps
     DEF Handler, CreateThread, EditThread
<1>6. ASSUME NEW r \in Requests, CommitFails(r) \/ StatementFails(r)
      PROVE  TagsInv'
  BY <1>1, <1>6 DEF CommitFails, StatementFails, Working, ErrorReplies
<1>7. ASSUME NEW r \in Requests, DeadlockVictim(r)
      PROVE  TagsInv'
  <2>1. pc[r] \in Working
    BY <1>7 DEF DeadlockVictim, Ring, WaitsFor, Working
  <2>. QED BY <1>1, <1>7, <2>1 DEF DeadlockVictim, ErrorReplies
<1>. QED
  BY <1>5, <1>6, <1>7, StartKeeps, ProcessDiesKeeps, UnchangedKeeps DEF Next

\* The invariant is inductive: requests hold what they write, and write what they
\* were asked to.
THEOREM TagsInvariant == Spec => []TagsInv
<1>1. TagsInv /\ [Next]_vars => TagsInv'
  BY StepKeeps
<1>. QED BY <1>1, InitHolds, PTL DEF Spec

\* A thread gets the tags that the request names, unless another edit of it was
\* committed in between.
THEOREM EditsTakeEffect == Spec => []EditTakesEffect
<1>1. TagsInv => EditTakesEffect
  BY DEF TagsInv
<1>. QED BY <1>1, TagsInvariant, PTL

\* What clients were told of a thread's tags is what is committed.
THEOREM ToldTagsStayCurrent == Spec => []ToldTagsAreCurrent
<1>1. TagsInv => ToldTagsAreCurrent
  BY DEF TagsInv, ToldInPlace, ToldTagsAreCurrent
<1>. QED BY <1>1, TagsInvariant, PTL

\* Requests deadlock over tags they both insert, and over nothing else.
THEOREM DeadlocksAreOverTags == Spec => []DeadlocksNeedTwoNewTags
<1>1. ASSUME TagsInv, NEW S \in SUBSET InFlight, Ring(S), NEW r \in S
      PROVE  pc[r] = "insert" /\ Inserted(r) # {}
  <2>. USE RequestParts DEF TagsInv, InFlight
  <2>0. S \subseteq Requests /\ \A q \in Requests : missing[q] \subseteq Names
    BY <1>1 DEF TypeOK
  <2>1. ASSUME NEW q \in S PROVE pc[q] = "insert"
    <3>1. PICK s \in S, u \in S : WaitsFor(q, s) /\ WaitsFor(u, q)
      BY <1>1 DEF Ring
    <3>2. CASE pc[u] = "update" /\ lock[u.thread] = q
      <4>1. lock[q.thread] = q
        BY <1>1, <2>0, <3>2 DEF LocksHeld
      <4>. QED BY <1>1, <2>0, <3>1, <4>1 DEF LocksHeld, HoldsThread, WaitsFor
    <3>3. CASE pc[u] = "insert" /\ owner[next[u]] = q
      <4>1. next[u] \in Names
        BY <1>1, <2>0, <3>3 DEF TagsInPlace
      <4>2. pc[q] \in {"insert", "wear", "publish", "commit"}
        BY <1>1, <2>0, <3>3, <4>1 DEF LocksHeld
      <4>. QED BY <3>1, <4>2 DEF WaitsFor
    <3>. QED BY <3>1, <3>2, <3>3 DEF WaitsFor
  <2>2. PICK s \in S : WaitsFor(s, r)
    BY <1>1 DEF Ring
  <2>3. owner[next[s]] = r /\ next[s] \in missing[s]
    BY <1>1, <2>0, <2>1, <2>2 DEF WaitsFor, TagsInPlace
  <2>. QED BY <1>1, <2>0, <2>1, <2>3 DEF Inserted
<1>2. TagsInv => DeadlocksNeedTwoNewTags
  BY <1>1 DEF DeadlocksNeedTwoNewTags
<1>. QED BY <1>2, TagsInvariant, PTL
=============================================================================
