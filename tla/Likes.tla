------------------------------- MODULE Likes -------------------------------
(***************************************************************************)
(* The like and unlike handlers of the thread service                      *)
(* (services/thread/app/services/like_service.py and                       *)
(* repositories/like_repo.py) as interleaved database transactions.        *)
(*                                                                         *)
(* Every HTTP request is one READ COMMITTED transaction opened by get_db   *)
(* (core/database.py).  All requests share one event loop, so they         *)
(* interleave at every await: a step below is one awaited statement.       *)
(* A row that a transaction has written stays locked until it ends, and    *)
(* others see what it wrote only then.                                     *)
(*                                                                         *)
(* The response is sent before get_db commits: FastAPI leaves a dependency *)
(* with yield after the response has been sent.                            *)
(***************************************************************************)
EXTENDS Integers, FiniteSets

CONSTANTS
    Users,         \* the users who send requests
    Threads,       \* the threads that exist
    Comments,      \* the comments that exist
    Attempts,      \* tells apart equal requests that are in flight together
    NoRequest,     \* "nobody", the holder of an unlocked row
    MaxInFlight,   \* bound: requests the service handles at once
    ClientWaits,   \* what a client waits for before it sends a user's next
                   \* request about the same entity:
                   \* "nothing", "reply" or "commit"
    Faults         \* what may fail: a subset of
                   \* {"database", "publish", "commit", "process"}

Entities == Threads \cup Comments

Requests == [op : {"like", "unlike"}, user : Users, entity : Entities,
             attempt : Attempts]

ASSUME LikesAssumption ==
    /\ NoRequest \notin Requests
    /\ Threads \cap Comments = {}
    /\ IsFiniteSet(Users)
    /\ MaxInFlight \in Nat
    /\ ClientWaits \in {"nothing", "reply", "commit"}

VARIABLES
    status,      \* status[e]: "ACTIVE" or "DELETED", as committed
    likes,       \* the committed rows of thread_likes and comment_likes
    likeCount,   \* likeCount[e]: the committed like_count column
    newCount,    \* newCount[e]: like_count as the lock holder has written it
    rowLock,     \* rowLock[e]: the request whose UPDATE holds the row of e
    wrote,       \* wrote[r]: what r has done to its like row, uncommitted
    pc,          \* pc[r]: the next statement of request r
    shown        \* shown[e]: like_count in the last realtime event about e

vars == <<status, likes, likeCount, newCount, rowLock, wrote, pc, shown>>

-----------------------------------------------------------------------------

\* The points of a handler at which its transaction is open.
Working == {"load", "check", "row", "wait", "count", "publish", "respond",
            "commit"}

\* The error replies: 404, 409 and 500.
ErrorReplies == {"notFound", "conflict", "serverError"}

\* From its UPDATE of like_count to the end of the transaction a request
\* holds the lock of the entity's row.
HoldsRow == {"publish", "respond", "commit"}

TypeOK ==
    /\ status \in [Entities -> {"ACTIVE", "DELETED"}]
    /\ likes \subseteq (Users \X Entities)
    /\ likeCount \in [Entities -> Nat]
    /\ newCount \in [Entities -> Nat]
    /\ rowLock \in [Entities -> Requests \cup {NoRequest}]
    /\ wrote \in [Requests -> {"nothing", "inserted", "deleted"}]
    /\ pc \in [Requests -> {"idle"} \cup Working \cup ErrorReplies]
    /\ shown \in [Entities -> Nat]

Init ==
    /\ status = [e \in Entities |-> "ACTIVE"]
    /\ likes = {}
    /\ likeCount = [e \in Entities |-> 0]
    /\ newCount = [e \in Entities |-> 0]
    /\ rowLock = [e \in Entities |-> NoRequest]
    /\ wrote = [r \in Requests |-> "nothing"]
    /\ pc = [r \in Requests |-> "idle"]
    /\ shown = [e \in Entities |-> 0]

-----------------------------------------------------------------------------

\* The like row a request is about; it is unique by uq_thread_like_user_thread
\* and uq_comment_like_user_comment.
LikeRow(r) == <<r.user, r.entity>>

Likers(e) == {u \in Users : <<u, e>> \in likes}

InFlight == {r \in Requests : pc[r] # "idle"}

\* Another transaction has written this like row and has not ended.
RowBusy(r, what) ==
    \E s \in Requests \ {r} : LikeRow(s) = LikeRow(r) /\ wrote[s] \in what

\* Give up r's locks and forget what it wrote: the end of its transaction.
EndTransaction(r) ==
    /\ wrote' = [wrote EXCEPT ![r] = "nothing"]
    /\ rowLock' = [rowLock EXCEPT
                     ![r.entity] = IF @ = r THEN NoRequest ELSE @]

RollBack(r) ==
    /\ EndTransaction(r)
    /\ newCount' = [newCount EXCEPT
                      ![r.entity] = IF rowLock[r.entity] = r
                                    THEN likeCount[r.entity] ELSE @]

-----------------------------------------------------------------------------
(* The client and the route.                                               *)

\* What the client has to see of its request s before it sends the next one.
Awaited(s) ==
    CASE ClientWaits = "nothing" -> TRUE
      [] ClientWaits = "reply"   -> pc[s] \in {"idle", "commit"} \cup ErrorReplies
      [] ClientWaits = "commit"  -> pc[s] = "idle"

\* The route is entered: get_current_user decodes the token, get_db opens a
\* session.
Start(r) ==
    /\ pc[r] = "idle"
    /\ Cardinality(InFlight) < MaxInFlight
    /\ \A s \in Requests : LikeRow(s) = LikeRow(r) => Awaited(s)
    /\ pc' = [pc EXCEPT ![r] = "load"]
    /\ UNCHANGED <<status, likes, likeCount, newCount, rowLock, wrote, shown>>

\* The error reply is out and the session closed.
Close(r) ==
    /\ pc[r] \in ErrorReplies
    /\ pc' = [pc EXCEPT ![r] = "idle"]
    /\ UNCHANGED <<status, likes, likeCount, newCount, rowLock, wrote, shown>>

-----------------------------------------------------------------------------
(* The statements of the handlers.                                         *)

\* Mutant: deleted entities can be liked.
LoadEntityAnyStatus(r) ==
    /\ pc[r] = "load"
    /\ pc' = [pc EXCEPT ![r] = "check"]
    /\ UNCHANGED <<status, likes, likeCount, newCount, rowLock, wrote, shown>>

\* get_thread_by_id or get_comment_by_id: only ACTIVE entities go on.
LoadEntity(r) ==
    /\ pc[r] = "load"
    /\ pc' = [pc EXCEPT ![r] = IF status[r.entity] = "ACTIVE"
                               THEN "check" ELSE "notFound"]
    /\ UNCHANGED <<status, likes, likeCount, newCount, rowLock, wrote, shown>>

\* Mutant: has_user_liked_* is not asked first.
CheckLikedSkipped(r) ==
    /\ pc[r] = "check"
    /\ pc' = [pc EXCEPT ![r] = "row"]
    /\ UNCHANGED <<status, likes, likeCount, newCount, rowLock, wrote, shown>>

\* has_user_liked_*: AlreadyLikedError or NotLikedError when the row's
\* committed state already is what the request asks for.
CheckLiked(r) ==
    /\ pc[r] = "check"
    /\ pc' = [pc EXCEPT ![r] = IF (LikeRow(r) \in likes) = (r.op = "unlike")
                               THEN "row" ELSE "conflict"]
    /\ UNCHANGED <<status, likes, likeCount, newCount, rowLock, wrote, shown>>

\* What a duplicate INSERT becomes: like_comment turns IntegrityError into
\* AlreadyLikedError, like_thread lets it through to the 500 handler.
DuplicateReply(r) ==
    IF r.entity \in Comments THEN "conflict" ELSE "serverError"

\* Mutant: no unique constraint on the like tables.
InsertLikeNotUnique(r) ==
    /\ pc[r] = "row"
    /\ wrote' = [wrote EXCEPT ![r] = "inserted"]
    /\ pc' = [pc EXCEPT ![r] = "count"]
    /\ UNCHANGED <<status, likes, likeCount, newCount, rowLock, shown>>

\* Mutant: uniqueness is checked against committed rows only.
InsertLikeUnseen(r) ==
    /\ LikeRow(r) \notin likes
    /\ InsertLikeNotUnique(r)

\* The INSERT that db.execute(update) flushes first.  The unique index makes
\* it wait for every open transaction that wrote the same row; a row that is
\* there fails it, and a failed flush rolls the transaction back.
InsertLike(r) ==
    /\ pc[r] = "row"
    /\ ~ RowBusy(r, {"inserted", "deleted"})
    /\ \/ /\ LikeRow(r) \notin likes
          /\ wrote' = [wrote EXCEPT ![r] = "inserted"]
          /\ pc' = [pc EXCEPT ![r] = "count"]
       \/ /\ LikeRow(r) \in likes
          /\ pc' = [pc EXCEPT ![r] = DuplicateReply(r)]
          /\ UNCHANGED wrote
    /\ UNCHANGED <<status, likes, likeCount, newCount, rowLock, shown>>

\* The DELETE: it removes the row it finds, waits if another transaction is
\* deleting that row, and deletes nothing, without an error, if there is none.
DeleteLike(r) ==
    /\ pc[r] = "row"
    /\ \/ /\ RowBusy(r, {"deleted"})
          /\ pc' = [pc EXCEPT ![r] = "wait"]
          /\ UNCHANGED wrote
       \/ /\ ~ RowBusy(r, {"deleted"})
          /\ wrote' = [wrote EXCEPT ![r] = IF LikeRow(r) \in likes
                                           THEN "deleted" ELSE "nothing"]
          /\ pc' = [pc EXCEPT ![r] = "count"]
    /\ UNCHANGED <<status, likes, likeCount, newCount, rowLock, shown>>

\* The transaction the DELETE waited for has rolled back: the row is ours.
DeleteResumes(r) ==
    /\ pc[r] = "wait"
    /\ ~ RowBusy(r, {"deleted"})
    /\ wrote' = [wrote EXCEPT ![r] = "deleted"]
    /\ pc' = [pc EXCEPT ![r] = "count"]
    /\ UNCHANGED <<status, likes, likeCount, newCount, rowLock, shown>>

\* Mutant: unlike forgets the counter.
CountAfterLikesOnly(r, count) == IF r.op = "like" THEN count + 1 ELSE count

\* like_count + 1, or greatest(0, like_count - 1).
CountAfter(r, count) ==
    IF r.op = "like" THEN count + 1
    ELSE IF count = 0 THEN 0 ELSE count - 1

\* The UPDATE of like_count: it waits for the row lock and then starts from
\* the committed value.
UpdateCount(r) ==
    /\ pc[r] = "count"
    /\ rowLock[r.entity] = NoRequest
    /\ rowLock' = [rowLock EXCEPT ![r.entity] = r]
    /\ newCount' = [newCount EXCEPT
                      ![r.entity] = CountAfter(r, likeCount[r.entity])]
    /\ pc' = [pc EXCEPT ![r] = "publish"]
    /\ UNCHANGED <<status, likes, likeCount, wrote, shown>>

\* Mutant: the event carries the count loaded before the UPDATE.
PublishCountStale(r) ==
    /\ pc[r] = "publish"
    /\ pc' = [pc EXCEPT ![r] = "respond"]
    /\ shown' = [shown EXCEPT ![r.entity] = likeCount[r.entity]]
    /\ UNCHANGED <<status, likes, likeCount, newCount, rowLock, wrote>>

\* db.refresh reads the count the transaction has written; publish_realtime
\* sends it to every client, or logs the broker's error and goes on.
PublishCount(r) ==
    /\ pc[r] = "publish"
    /\ pc' = [pc EXCEPT ![r] = "respond"]
    /\ \/ shown' = [shown EXCEPT ![r.entity] = newCount[r.entity]]
       \/ "publish" \in Faults /\ UNCHANGED shown
    /\ UNCHANGED <<status, likes, likeCount, newCount, rowLock, wrote>>

\* The handler returns its LikeResponse and the client gets it.
Respond(r) ==
    /\ pc[r] = "respond"
    /\ pc' = [pc EXCEPT ![r] = "commit"]
    /\ UNCHANGED <<status, likes, likeCount, newCount, rowLock, wrote, shown>>

\* The four handlers: like_thread, unlike_thread, like_comment and
\* unlike_comment.
LikeThread(r) ==
    /\ r.op = "like" /\ r.entity \in Threads
    /\ \/ LoadEntity(r) \/ CheckLiked(r) \/ InsertLike(r)
       \/ UpdateCount(r) \/ PublishCount(r) \/ Respond(r)

UnlikeThread(r) ==
    /\ r.op = "unlike" /\ r.entity \in Threads
    /\ \/ LoadEntity(r) \/ CheckLiked(r) \/ DeleteLike(r) \/ DeleteResumes(r)
       \/ UpdateCount(r) \/ PublishCount(r) \/ Respond(r)

LikeComment(r) ==
    /\ r.op = "like" /\ r.entity \in Comments
    /\ \/ LoadEntity(r) \/ CheckLiked(r) \/ InsertLike(r)
       \/ UpdateCount(r) \/ PublishCount(r) \/ Respond(r)

UnlikeComment(r) ==
    /\ r.op = "unlike" /\ r.entity \in Comments
    /\ \/ LoadEntity(r) \/ CheckLiked(r) \/ DeleteLike(r) \/ DeleteResumes(r)
       \/ UpdateCount(r) \/ PublishCount(r) \/ Respond(r)

-----------------------------------------------------------------------------
(* The end of the transaction.                                             *)

\* A DELETE that waited for a transaction which removed the row finds nothing
\* left to delete and goes on.
Overtaken(r) ==
    {s \in Requests : pc[s] = "wait" /\ LikeRow(s) = LikeRow(r)
                      /\ wrote[r] = "deleted"}

\* Mutant: the session is left as it is, its transaction open.
CommitMissing(r) ==
    /\ pc[r] = "commit"
    /\ pc' = [pc EXCEPT ![r] = "idle"]
    /\ UNCHANGED <<status, likes, likeCount, newCount, rowLock, wrote, shown>>

\* get_db: session.commit() makes everything the request wrote visible.
Commit(r) ==
    /\ pc[r] = "commit"
    /\ likes' = CASE wrote[r] = "inserted" -> likes \cup {LikeRow(r)}
                  [] wrote[r] = "deleted"  -> likes \ {LikeRow(r)}
                  [] OTHER -> likes
    /\ likeCount' = [likeCount EXCEPT ![r.entity] = newCount[r.entity]]
    /\ EndTransaction(r)
    /\ pc' = [s \in Requests |-> IF s = r THEN "idle"
                                 ELSE IF s \in Overtaken(r) THEN "count"
                                 ELSE pc[s]]
    /\ UNCHANGED <<status, newCount, shown>>

\* session.commit() raises: get_db rolls back, after the reply has gone out.
CommitFails(r) ==
    /\ "commit" \in Faults
    /\ pc[r] = "commit"
    /\ RollBack(r)
    /\ pc' = [pc EXCEPT ![r] = "idle"]
    /\ UNCHANGED <<status, likes, likeCount, shown>>

\* A statement raises (connection lost, statement timeout): get_db rolls back
\* and the client gets a 500.
StatementFails(r) ==
    /\ "database" \in Faults
    /\ pc[r] \in Working \ {"respond", "commit"}
    /\ RollBack(r)
    /\ pc' = [pc EXCEPT ![r] = "serverError"]
    /\ UNCHANGED <<status, likes, likeCount, shown>>

\* The process dies and is restarted (docker-compose: unless-stopped).  The
\* database rolls every open transaction back.
ProcessDies ==
    /\ "process" \in Faults
    /\ InFlight # {}
    /\ rowLock' = [e \in Entities |-> NoRequest]
    /\ newCount' = likeCount
    /\ wrote' = [r \in Requests |-> "nothing"]
    /\ pc' = [r \in Requests |-> "idle"]
    /\ UNCHANGED <<status, likes, likeCount, shown>>

\* delete_thread and delete_comment, seen from here: the entity's status
\* leaves ACTIVE for good, by an UPDATE that waits for the same row lock.
SoftDelete(e) ==
    /\ status[e] = "ACTIVE"
    /\ rowLock[e] = NoRequest
    /\ status' = [status EXCEPT ![e] = "DELETED"]
    /\ UNCHANGED <<likes, likeCount, newCount, rowLock, wrote, pc, shown>>

-----------------------------------------------------------------------------

Handler(r) ==
    \/ LikeThread(r) \/ UnlikeThread(r)
    \/ LikeComment(r) \/ UnlikeComment(r)
    \/ Commit(r) \/ Close(r)

Next ==
    \/ \E r \in Requests : Start(r) \/ Handler(r)
                           \/ CommitFails(r) \/ StatementFails(r)
    \/ ProcessDies
    \/ \E e \in Entities : SoftDelete(e)

Spec == Init /\ [][Next]_vars

\* The event loop runs every handler on, and PostgreSQL queues the waiters for
\* a lock in order, so a handler that can step again and again does.
FairSpec == Spec /\ \A r \in Requests : SF_vars(Handler(r))

-----------------------------------------------------------------------------
(* Properties.                                                             *)

\* A like_count never claims more likes than there are rows: no interleaving
\* of duplicate likes, failures and restarts counts one user twice
\* (uq_*_like_user_* and the autoflush of the INSERT before the UPDATE).
CountNeverExceedsLikes ==
    \A e \in Entities : likeCount[e] <= Cardinality(Likers(e))

\* The counter is the number of like rows, what like_repo promises.  It holds
\* for clients who wait until their last request has committed, and not for
\* the others: an unlike that finds its row gone still decrements.
CountMatchesLikes ==
    \A e \in Entities : likeCount[e] = Cardinality(Likers(e))

\* Between two writers of a row, the count every client was last shown is the
\* committed one: events leave in the order of the commits they announce.
BroadcastIsCurrent ==
    \A e \in Entities : rowLock[e] = NoRequest => shown[e] = likeCount[e]

\* Nobody who could still like or unlike e found it ACTIVE: those that are about
\* it have yet to load it, or are refused.
Frozen(e) ==
    /\ status[e] = "DELETED"
    /\ \A r \in Requests : r.entity = e => pc[r] \in {"idle", "load"} \cup ErrorReplies

\* After its deletion an entity gets likes and unlikes from requests only that
\* had loaded it before; when they are through, its likes stay as they are.
DeletedIsFrozen ==
    [][\A e \in Entities : Frozen(e) =>
          Frozen(e)' /\ Likers(e)' = Likers(e) /\ likeCount'[e] = likeCount[e]]_vars

\* Every request that is accepted ends: no handler waits for ever for a row
\* that another one holds.
RequestsEnd == \A r \in Requests : pc[r] # "idle" ~> pc[r] = "idle"
-----------------------------------------------------------------------------
(* Why CountNeverExceedsLikes holds: the inductive invariant of the proofs. *)

\* The UPDATE takes the row lock and the end of the transaction gives it up.
RowLockHeld ==
    /\ \A r \in Requests : pc[r] \in HoldsRow <=> rowLock[r.entity] = r
    /\ \A e \in Entities : rowLock[e] # NoRequest => rowLock[e].entity = e

\* An uncommitted INSERT is of a row that is not there, an uncommitted DELETE
\* of one that is, and no other transaction commits that row meanwhile.
UncommittedRows ==
    \A r \in Requests :
        /\ wrote[r] = "inserted" => r.op = "like" /\ LikeRow(r) \notin likes
        /\ wrote[r] = "deleted" => r.op = "unlike" /\ LikeRow(r) \in likes
        /\ wrote[r] # "nothing" => pc[r] \in {"count"} \cup HoldsRow
        /\ r.op = "like" /\ pc[r] \in {"count"} \cup HoldsRow
               => wrote[r] = "inserted"
        /\ pc[r] = "wait" => r.op = "unlike" /\ LikeRow(r) \in likes

\* The unique index and the row locks: one writer of a like row at a time.
OneWriterPerRow ==
    \A r, s \in Requests :
        /\ LikeRow(r) = LikeRow(s)
        /\ wrote[r] # "nothing"
        /\ wrote[r] = wrote[s]
        => r = s

\* The lock holder has counted from the committed value.
CountedFromCommitted ==
    \A e \in Entities :
        newCount[e] = IF rowLock[e] = NoRequest THEN likeCount[e]
                      ELSE CountAfter(rowLock[e], likeCount[e])

LikesInv ==
    /\ TypeOK
    /\ RowLockHeld
    /\ UncommittedRows
    /\ OneWriterPerRow
    /\ CountedFromCommitted
    /\ CountNeverExceedsLikes

\* What patient clients add: one request per like row at a time, so what it
\* has checked still holds when it writes.
OneRequestPerRow ==
    \A r, s \in Requests :
        LikeRow(r) = LikeRow(s) /\ pc[r] # "idle" /\ pc[s] # "idle" => r = s

CheckedStillHolds ==
    \A r \in Requests :
        /\ pc[r] \in {"row", "wait"}
               => ((LikeRow(r) \in likes) <=> (r.op = "unlike"))
        /\ r.op = "unlike" /\ pc[r] \in {"count"} \cup HoldsRow
               => wrote[r] = "deleted"

PatientInv ==
    LikesInv /\ OneRequestPerRow /\ CheckedStillHolds /\ CountMatchesLikes
=============================================================================
