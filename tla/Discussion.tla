----------------------------- MODULE Discussion -----------------------------
(***************************************************************************)
(* Creating, editing and soft-deleting comments, and editing and           *)
(* soft-deleting threads, in the thread service                            *)
(* (services/thread/app/services/{comment,thread}_service.py and their     *)
(* repositories), with the denormalized counters: comment_count on a       *)
(* thread and reply_count on a comment.                                    *)
(*                                                                         *)
(* As in Likes, a request is one READ COMMITTED transaction and a step one *)
(* awaited statement.  An UPDATE locks its row to the end of the           *)
(* transaction, so these handlers hold up to three rows and may deadlock;  *)
(* PostgreSQL then rolls one of them back.                                 *)
(***************************************************************************)
EXTENDS Integers, FiniteSets

CONSTANTS
    Threads,       \* threads; they exist from the start, ACTIVE
    Comments,      \* identities of comments that may get created
    Requests,      \* the requests that may be sent
    None,          \* no parent, no thread, nobody
    MaxInFlight,   \* bound: requests the service handles at once
    Careful,       \* do clients only act on what they see, one at a time?
    Faults         \* a subset of {"database", "publish", "commit", "process"}

Entities == Threads \cup Comments

\* op "create" is for comments; role is the caller's relation to the entity.
RequestType ==
    [op : {"create", "edit", "delete"}, entity : Entities,
     role : {"author", "moderator", "other"}, attempt : Nat]

ASSUME DiscussionAssumption ==
    /\ Requests \subseteq RequestType
    /\ \A r \in Requests : r.op = "create" => r.entity \in Comments
    /\ None \notin Requests \cup Entities
    /\ Threads \cap Comments = {}
    /\ IsFiniteSet(Comments)
    /\ MaxInFlight \in Nat
    /\ Careful \in BOOLEAN

VARIABLES
    status,      \* status[e], committed; "NONE" for a comment not yet created
    count,       \* committed comment_count of a thread, reply_count of a comment
    newStatus,   \* what the holder of the row has written for status ...
    newCount,    \* ... and for the counter
    lock,        \* lock[e]: the request whose transaction has written row e
    threadOf,    \* threadOf[c], parentOf[c]: where comment c hangs, from the
    parentOf,    \* moment the request to create it names them
    seen,        \* seen[r]: the status r has loaded for its entity
    pc,          \* pc[r]: the next statement of request r
    told         \* told[e]: the state the last realtime event about e showed

rows == <<status, count, newStatus, newCount, lock>>
places == <<threadOf, parentOf>>
vars == <<rows, places, seen, pc, told>>

-----------------------------------------------------------------------------

Statuses == {"ACTIVE", "USER_DELETED", "MOD_REMOVED"}

\* The points of a handler at which its transaction is open.
Working == {"load", "loadParent", "write", "threadCount", "parentCount",
            "publish", "commit"}

ErrorReplies == {"notFound", "forbidden", "serverError"}

TypeOK ==
    /\ status \in [Entities -> Statuses \cup {"NONE"}]
    /\ newStatus \in [Entities -> Statuses \cup {"NONE"}]
    /\ count \in [Entities -> Nat]
    /\ newCount \in [Entities -> Nat]
    /\ lock \in [Entities -> Requests \cup {None}]
    /\ threadOf \in [Comments -> Threads \cup {None}]
    /\ parentOf \in [Comments -> Comments \cup {None}]
    /\ seen \in [Requests -> Statuses \cup {"NONE"}]
    /\ pc \in [Requests -> {"idle"} \cup Working \cup ErrorReplies]
    /\ told \in [Entities -> Statuses \cup {"NONE"}]

Init ==
    /\ status = [e \in Entities |-> IF e \in Threads THEN "ACTIVE" ELSE "NONE"]
    /\ newStatus = status
    /\ count = [e \in Entities |-> 0]
    /\ newCount = count
    /\ lock = [e \in Entities |-> None]
    /\ threadOf = [c \in Comments |-> None]
    /\ parentOf = [c \in Comments |-> None]
    /\ seen = [r \in Requests |-> "NONE"]
    /\ pc = [r \in Requests |-> "idle"]
    /\ told = status

-----------------------------------------------------------------------------

InFlight == {r \in Requests : pc[r] # "idle"}

\* _is_privileged: the role in the token decides, also for one's own entity.
Privileged(r) == r.role = "moderator"

\* The status delete_thread and delete_comment choose.
DeletedStatus(r) == IF Privileged(r) THEN "MOD_REMOVED" ELSE "USER_DELETED"

\* Mutant: delete_comment leaves the counters alone.
CountsCreationsOnly(r) == r.op = "create"

\* Mutant: delete_comment decrements for authors, too.
CountsEveryDeletion(r) ==
    r.op = "create" \/ (r.op = "delete" /\ r.entity \in Comments)

\* The requests that maintain counters: a new comment, a removal by a
\* moderator.  An author's deletion does not: the comment stays listed.
Counts(r) ==
    \/ r.op = "create"
    \/ r.op = "delete" /\ Privileged(r) /\ r.entity \in Comments

\* list_top_level_comments and list_replies, for a regular user.
Listed(c) == status[c] \in {"ACTIVE", "USER_DELETED"}

\* What comment_count of a thread and reply_count of a comment are to count.
Counted(e) == {c \in Comments : (threadOf[c] = e \/ parentOf[c] = e) /\ Listed(c)}

\* The row the next statement of r writes, None if it writes none.
NextRow(r) ==
    CASE pc[r] = "write"       -> r.entity
      [] pc[r] = "threadCount" -> threadOf[r.entity]
      [] pc[r] = "parentCount" -> parentOf[r.entity]
      [] OTHER -> None

MayWrite(r) == lock[NextRow(r)] \in {None, r}

\* Mutant: only the entity's own row is unlocked.
RollBackOneRow(r) ==
    /\ lock' = [lock EXCEPT ![r.entity] = IF @ = r THEN None ELSE @]
    /\ seen' = [seen EXCEPT ![r] = "NONE"]
    /\ UNCHANGED <<status, count, newStatus, newCount, places, told>>

\* A transaction that ends without a commit leaves rows and places as they
\* were; a comment it was creating has no place.
RollBack(r) ==
    /\ lock' = [e \in Entities |-> IF lock[e] = r THEN None ELSE lock[e]]
    /\ newStatus' = [e \in Entities |-> IF lock[e] = r THEN status[e]
                                        ELSE newStatus[e]]
    /\ newCount' = [e \in Entities |-> IF lock[e] = r THEN count[e]
                                       ELSE newCount[e]]
    /\ threadOf' = [c \in Comments |-> IF r.op = "create" /\ c = r.entity
                                       THEN None ELSE threadOf[c]]
    /\ parentOf' = [c \in Comments |-> IF r.op = "create" /\ c = r.entity
                                       THEN None ELSE parentOf[c]]
    /\ seen' = [seen EXCEPT ![r] = "NONE"]
    /\ UNCHANGED <<status, count, told>>

Fail(r, reply) ==
    /\ RollBack(r)
    /\ pc' = [pc EXCEPT ![r] = reply]

-----------------------------------------------------------------------------
(* The client.                                                             *)

\* A careful client: what the last event showed as removed offers no action,
\* and nobody acts on an entity while another change of it is on its way.
CarefulStart(r) ==
    /\ r.op = "edit" => told[r.entity] = "ACTIVE"
    /\ r.op = "delete" => told[r.entity] # "MOD_REMOVED"
    /\ \A s \in InFlight : s.entity # r.entity

\* A comment gets a fresh uuid, so only one request creates it.
Start(r) ==
    /\ pc[r] = "idle"
    /\ Cardinality(InFlight) < MaxInFlight
    /\ Careful => CarefulStart(r)
    /\ \/ /\ r.op = "create"
          /\ status[r.entity] = "NONE"
          /\ \A s \in InFlight : ~ (s.op = "create" /\ s.entity = r.entity)
          /\ \E t \in Threads, p \in (Comments \ {r.entity}) \cup {None} :
                /\ threadOf' = [threadOf EXCEPT ![r.entity] = t]
                /\ parentOf' = [parentOf EXCEPT ![r.entity] = p]
       \/ r.op # "create" /\ UNCHANGED places
    /\ pc' = [pc EXCEPT ![r] = "load"]
    /\ UNCHANGED <<rows, seen, told>>

Close(r) ==
    /\ pc[r] \in ErrorReplies
    /\ pc' = [pc EXCEPT ![r] = "idle"]
    /\ UNCHANGED <<rows, places, seen, told>>

-----------------------------------------------------------------------------
(* create_comment.                                                         *)

\* The thread must be ACTIVE ...
LoadThreadOfComment(r) ==
    /\ pc[r] = "load"
    /\ \/ /\ status[threadOf[r.entity]] = "ACTIVE"
          /\ pc' = [pc EXCEPT ![r] = IF parentOf[r.entity] = None
                                     THEN "write" ELSE "loadParent"]
          /\ UNCHANGED <<rows, places, seen, told>>
       \/ /\ status[threadOf[r.entity]] # "ACTIVE"
          /\ Fail(r, "notFound")

\* ... and so must the parent, whatever thread it belongs to.
LoadParent(r) ==
    /\ pc[r] = "loadParent"
    /\ \/ /\ status[parentOf[r.entity]] = "ACTIVE"
          /\ pc' = [pc EXCEPT ![r] = "write"]
          /\ UNCHANGED <<rows, places, seen, told>>
       \/ /\ status[parentOf[r.entity]] # "ACTIVE"
          /\ Fail(r, "notFound")

\* The INSERT: the row is this transaction's own until it commits.
InsertComment(r) ==
    /\ pc[r] = "write"
    /\ lock' = [lock EXCEPT ![r.entity] = r]
    /\ newStatus' = [newStatus EXCEPT ![r.entity] = "ACTIVE"]
    /\ pc' = [pc EXCEPT ![r] = "threadCount"]
    /\ UNCHANGED <<status, count, newCount, places, seen, told>>

-----------------------------------------------------------------------------
(* update_comment, update_thread, delete_comment, delete_thread.           *)

\* Who may do what: only the author edits; the author and the privileged
\* delete.  Neither looks at the status the entity already has.
Authorized(r) ==
    \/ r.role = "author"
    \/ r.op = "delete" /\ Privileged(r)

LoadEntity(r) ==
    /\ pc[r] = "load"
    /\ \/ /\ status[r.entity] # "NONE" /\ Authorized(r)
          /\ seen' = [seen EXCEPT ![r] = status[r.entity]]
          /\ pc' = [pc EXCEPT ![r] = "write"]
          /\ UNCHANGED <<rows, places, told>>
       \/ status[r.entity] = "NONE" /\ Fail(r, "notFound")
       \/ status[r.entity] # "NONE" /\ ~ Authorized(r) /\ Fail(r, "forbidden")

\* The flush of a changed title, content or tag list: no status, no counter.
\* A comment's unchanged content writes nothing; a thread gets an updated_at.
WriteContent(r) ==
    /\ pc[r] = "write"
    /\ \/ MayWrite(r) /\ lock' = [lock EXCEPT ![r.entity] = r]
       \/ r.entity \in Comments /\ UNCHANGED lock
    /\ pc' = [pc EXCEPT ![r] = "publish"]
    /\ UNCHANGED <<status, count, newStatus, newCount, places, seen, told>>

\* The flush of soft_delete_*: deleted_at always changes, so the row is always
\* written; status_id only if it differs from the one that was loaded.
WriteStatus(r) ==
    /\ pc[r] = "write"
    /\ MayWrite(r)
    /\ lock' = [lock EXCEPT ![r.entity] = r]
    /\ newStatus' = [newStatus EXCEPT
                       ![r.entity] = IF seen[r] = DeletedStatus(r) THEN @
                                     ELSE DeletedStatus(r)]
    /\ pc' = [pc EXCEPT ![r] = IF Counts(r) THEN "threadCount" ELSE "publish"]
    /\ UNCHANGED <<status, count, newCount, places, seen, told>>

-----------------------------------------------------------------------------
(* The counters, the event, the end of the transaction.                    *)

\* Mutant: decrements without greatest(0, ...).
CountAfterNoFloor(r, n) == IF r.op = "create" THEN n + 1 ELSE n - 1

\* + 1, or greatest(0, - 1).
CountAfter(r, n) ==
    IF r.op = "create" THEN n + 1 ELSE IF n = 0 THEN 0 ELSE n - 1

\* increment_comment_count and decrement_comment_count.
UpdateThreadCount(r) ==
    LET t == threadOf[r.entity] IN
    /\ pc[r] = "threadCount"
    /\ MayWrite(r)
    /\ lock' = [lock EXCEPT ![t] = r]
    /\ newCount' = [newCount EXCEPT ![t] = CountAfter(r, count[t])]
    /\ pc' = [pc EXCEPT ![r] = IF parentOf[r.entity] = None
                               THEN "publish" ELSE "parentCount"]
    /\ UNCHANGED <<status, count, newStatus, places, seen, told>>

\* increment_reply_count and decrement_reply_count.
UpdateParentCount(r) ==
    LET p == parentOf[r.entity] IN
    /\ pc[r] = "parentCount"
    /\ MayWrite(r)
    /\ lock' = [lock EXCEPT ![p] = r]
    /\ newCount' = [newCount EXCEPT ![p] = CountAfter(r, count[p])]
    /\ pc' = [pc EXCEPT ![r] = "publish"]
    /\ UNCHANGED <<status, count, newStatus, places, seen, told>>

\* Mutant: the deleted event has the author's status for everyone.
EventShowsOneStatus(r) == IF r.op = "delete" THEN "USER_DELETED" ELSE "ACTIVE"

\* What the realtime event makes clients show.  created and updated carry the
\* content in clear; deleted carries the status.
EventShows(r) == IF r.op = "delete" THEN DeletedStatus(r) ELSE "ACTIVE"

\* publish_realtime, and the response; a broker failure is only logged.
Publish(r) ==
    /\ pc[r] = "publish"
    /\ pc' = [pc EXCEPT ![r] = "commit"]
    /\ \/ told' = [told EXCEPT ![r.entity] = EventShows(r)]
       \/ "publish" \in Faults /\ UNCHANGED told
    /\ UNCHANGED <<rows, places, seen>>

Commit(r) ==
    /\ pc[r] = "commit"
    /\ status' = [e \in Entities |-> IF lock[e] = r THEN newStatus[e] ELSE status[e]]
    /\ count' = [e \in Entities |-> IF lock[e] = r THEN newCount[e] ELSE count[e]]
    /\ lock' = [e \in Entities |-> IF lock[e] = r THEN None ELSE lock[e]]
    /\ seen' = [seen EXCEPT ![r] = "NONE"]
    /\ pc' = [pc EXCEPT ![r] = "idle"]
    /\ UNCHANGED <<newStatus, newCount, places, told>>

CommitFails(r) ==
    /\ "commit" \in Faults
    /\ pc[r] = "commit"
    /\ RollBack(r)
    /\ pc' = [pc EXCEPT ![r] = "idle"]

\* A statement raises: also one of the SELECTs for the events and the reply,
\* which run before the response is sent.
StatementFails(r) ==
    /\ "database" \in Faults
    /\ pc[r] \in Working
    /\ Fail(r, "serverError")

ProcessDies ==
    /\ "process" \in Faults
    /\ InFlight # {}
    /\ lock' = [e \in Entities |-> None]
    /\ newStatus' = status
    /\ newCount' = count
    /\ threadOf' = [c \in Comments |-> IF status[c] = "NONE" THEN None ELSE threadOf[c]]
    /\ parentOf' = [c \in Comments |-> IF status[c] = "NONE" THEN None ELSE parentOf[c]]
    /\ seen' = [r \in Requests |-> "NONE"]
    /\ pc' = [r \in Requests |-> "idle"]
    /\ UNCHANGED <<status, count, told>>

-----------------------------------------------------------------------------
(* Deadlocks between transactions.                                         *)

\* r waits for a row that s has written.
WaitsFor(r, s) == NextRow(r) # None /\ s # r /\ lock[NextRow(r)] = s

\* Requests that wait for each other in a ring.
Ring(S) ==
    /\ S # {}
    /\ \A r \in S : /\ \E s \in S : WaitsFor(r, s)
                    /\ \E s \in S : WaitsFor(s, r)

\* The deadlock detector rolls one of them back; its client gets a 500.
DeadlockVictim(r) ==
    /\ \E S \in SUBSET InFlight : r \in S /\ Ring(S)
    /\ Fail(r, "serverError")

-----------------------------------------------------------------------------

\* create_comment of the service.
CreateComment(r) ==
    /\ r.op = "create"
    /\ \/ LoadThreadOfComment(r) \/ LoadParent(r) \/ InsertComment(r)
       \/ UpdateThreadCount(r) \/ UpdateParentCount(r) \/ Publish(r)

EditComment(r) ==
    /\ r.op = "edit" /\ r.entity \in Comments
    /\ LoadEntity(r) \/ WriteContent(r) \/ Publish(r)

EditThread(r) ==
    /\ r.op = "edit" /\ r.entity \in Threads
    /\ LoadEntity(r) \/ WriteContent(r) \/ Publish(r)

\* delete_comment: only a removal reaches the counters.
DeleteComment(r) ==
    /\ r.op = "delete" /\ r.entity \in Comments
    /\ \/ LoadEntity(r) \/ WriteStatus(r) \/ UpdateThreadCount(r)
       \/ UpdateParentCount(r) \/ Publish(r)

DeleteThread(r) ==
    /\ r.op = "delete" /\ r.entity \in Threads
    /\ LoadEntity(r) \/ WriteStatus(r) \/ Publish(r)

Handler(r) ==
    \/ CreateComment(r) \/ EditComment(r) \/ DeleteComment(r)
    \/ EditThread(r) \/ DeleteThread(r)
    \/ Commit(r) \/ Close(r)

Next ==
    \/ \E r \in Requests :
          \/ Start(r) \/ Handler(r) \/ DeadlockVictim(r)
          \/ CommitFails(r) \/ StatementFails(r)
    \/ ProcessDies

Spec == Init /\ [][Next]_vars

\* The event loop keeps running every handler, PostgreSQL grants row locks in
\* the order they are asked for and resolves deadlocks after a timeout.
FairSpec ==
    /\ Spec
    /\ \A r \in Requests : SF_vars(Handler(r))
    /\ \A r \in Requests : WF_vars(DeadlockVictim(r))

-----------------------------------------------------------------------------
(* Properties.                                                             *)

\* comment_count and reply_count never claim more comments than are listed:
\* whatever races, repeats and fails, a counter errs on the low side only.
CountsNeverExceedListed ==
    \A e \in Entities : count[e] <= Cardinality(Counted(e))

\* The counters are the numbers of listed comments and replies, the reason
\* delete_comment gives for decrementing them on removals only.  It takes
\* clients who act on what they see: removing a comment twice decrements twice.
CountsMatchListed ==
    \A e \in Entities : count[e] = Cardinality(Counted(e))

\* What a moderator has removed is shown as removed by every client, whenever
\* no transaction is writing the row (MOD_REMOVED is hidden from regular users).
\* It takes clients who do not edit what they see removed.
RemovedIsNotShown ==
    \A e \in Entities :
        lock[e] = None /\ status[e] = "MOD_REMOVED" => told[e] = "MOD_REMOVED"

\* Handlers deadlock only around the removal of a comment that another of them
\* is about to count a reply for: delete_comment locks the comment and then
\* the thread, the others the thread and then the parent comment.
DeadlocksNeedAParentRemoval ==
    \A S \in SUBSET InFlight :
        Ring(S) => \E r, s \in S :
                      /\ r.op = "delete" /\ Privileged(r)
                      /\ pc[s] = "parentCount" /\ parentOf[s.entity] = r.entity

\* Every request that is accepted ends, deadlocks or not.
RequestsEnd == \A r \in Requests : pc[r] # "idle" ~> pc[r] = "idle"
-----------------------------------------------------------------------------
(* Why CountsNeverExceedListed holds: the inductive invariant.             *)

\* The points after each of the three writes of a counting request.
AfterParent == {"publish", "commit"}
AfterThread == {"parentCount"} \cup AfterParent
AfterWrite == {"threadCount"} \cup AfterThread

\* The rows a counting request has written so far.
Written(r) ==
    {e \in Entities :
        \/ pc[r] \in AfterWrite /\ e = r.entity
        \/ pc[r] \in AfterThread /\ e \in Threads /\ e = threadOf[r.entity]
        \/ pc[r] \in AfterParent /\ e \in Comments /\ e = parentOf[r.entity]}

\* Row locks: a counting request holds the rows it has written and no others;
\* a request that does not count holds its entity's row at most.
LocksHeld ==
    \A r \in Requests :
        /\ Counts(r) => \A e \in Entities : lock[e] = r <=> e \in Written(r)
        /\ ~ Counts(r) => \A e \in Entities :
                             lock[e] = r => e = r.entity /\ pc[r] \in AfterParent
        /\ pc[r] \in {"threadCount", "parentCount"} => Counts(r)

\* A comment hangs under a thread from its creation on, and one request at most
\* is creating it; edits and deletions are of what exists.
PlacesHeld ==
    /\ \A c \in Comments : /\ parentOf[c] # c
                           /\ status[c] # "NONE" => threadOf[c] \in Threads
    /\ \A r \in Requests :
          r.op = "create" /\ pc[r] \in Working
          => /\ status[r.entity] = "NONE" /\ threadOf[r.entity] \in Threads
             /\ \A s \in Requests :
                   s.op = "create" /\ s.entity = r.entity /\ pc[s] \in Working
                   => s = r
    /\ \A r \in Requests :
          r.op # "create" /\ pc[r] \in Working \ {"load"}
          => status[r.entity] # "NONE"

\* A comment's parent exists, once it has been looked for.
ParentsExist ==
    /\ \A c \in Comments : status[c] # "NONE" /\ parentOf[c] # None
                           => status[parentOf[c]] # "NONE"
    /\ \A r \in Requests :
          /\ r.op = "create" /\ pc[r] \in {"write"} \cup AfterWrite
             => parentOf[r.entity] = None \/ status[parentOf[r.entity]] # "NONE"
          /\ pc[r] = "parentCount" => parentOf[r.entity] # None

\* What the holder of a row has written there.
NewValues ==
    \A e \in Entities :
        LET r == lock[e] IN
        /\ newCount[e] = IF r = None THEN count[e]
                         ELSE IF r.entity = e THEN count[e]
                         ELSE CountAfter(r, count[e])
        /\ newStatus[e] \in
             IF r = None THEN {status[e]}
             ELSE IF r.entity # e \/ r.op = "edit" THEN {status[e]}
             ELSE IF r.op = "create" THEN {"ACTIVE"}
             ELSE {status[e], DeletedStatus(r)}

DiscussionInv ==
    /\ TypeOK
    /\ LocksHeld
    /\ PlacesHeld
    /\ ParentsExist
    /\ NewValues
    /\ CountsNeverExceedListed

-----------------------------------------------------------------------------
(* Why careful clients keep the counters exact: the inductive invariant, on   *)
(* top of DiscussionInv.                                                      *)

\* Nobody changes what another request is changing.
AloneOnEntity ==
    \A r, s \in InFlight : r.entity = s.entity => r = s

\* A removal is told before it is committed.
RemovalsAreTold ==
    \A e \in Entities : status[e] = "MOD_REMOVED" => told[e] = "MOD_REMOVED"

\* So what is being changed has not been removed, and stays what it was when it
\* was loaded; a deletion changes the status, and tells it before the commit.
ChangesApply ==
    \A r \in InFlight :
        /\ status[r.entity] # "MOD_REMOVED"
        /\ pc[r] = "commit" => told[r.entity] = EventShows(r)
        /\ r.op = "delete" =>
              /\ pc[r] = "write" => seen[r] = status[r.entity]
              /\ pc[r] \in AfterWrite => /\ lock[r.entity] = r
                                         /\ newStatus[r.entity] = DeletedStatus(r)

CarefulInv ==
    /\ AloneOnEntity
    /\ RemovalsAreTold
    /\ ChangesApply
    /\ CountsMatchListed
=============================================================================
