-------------------------------- MODULE Tags --------------------------------
(***************************************************************************)
(* Creating threads, and editing them and their tags, in the thread        *)
(* service (services/thread/app/services/thread_service.py and             *)
(* repositories/tag_repo.py, thread_repo.py).                              *)
(*                                                                         *)
(* A tag is a row with a unique name; whoever needs one that it does not   *)
(* find inserts it.  Two transactions that insert the same name meet at    *)
(* the unique index: the second waits for the first and fails if that      *)
(* commits.  The tags of a thread are rows of a join table; an edit writes *)
(* the difference to what it has loaded.                                   *)
(*                                                                         *)
(* As in Discussion, a request is one READ COMMITTED transaction, a step   *)
(* one awaited statement.  Here requests come from the threads' authors;   *)
(* the refusals of others are there.                                       *)
(***************************************************************************)
EXTENDS Integers, FiniteSets

CONSTANTS
    Threads,       \* the threads that are there or get created
    Names,         \* the normalised names of tags
    Requests,      \* the requests that may be sent
    None,          \* nobody; no name
    MaxInFlight,   \* bound: requests the service handles at once
    Faults         \* a subset of {"database", "publish", "commit", "process"}

\* given: does the request name tags?  An edit of the title only does not.
RequestType ==
    [op : {"create", "edit"}, thread : Threads, given : BOOLEAN,
     tags : SUBSET Names, attempt : Nat]

ASSUME TagsAssumption ==
    /\ Requests \subseteq RequestType
    /\ \A r \in Requests : r.op = "create" => r.given
    /\ None \notin Requests \cup Names
    /\ MaxInFlight \in Nat

VARIABLES
    exists,      \* the threads that are committed
    tagNames,    \* the committed rows of tags
    wears,       \* wears[t]: the committed tags of thread t (thread_tags) ...
    newWears,    \* ... and as the holder of the thread's row has written them
    lock,        \* lock[t]: the request whose transaction has written row t
    owner,       \* owner[n]: the request with an uncommitted row for name n
    loaded,      \* loaded[r]: thread.tags as r has loaded it
    missing,     \* missing[r]: the names r has not found and not yet inserted
    next,        \* next[r]: the one of them that r inserts next
    pc,          \* pc[r]: the next statement of request r
    told,        \* told[t]: the tags of the last realtime.thread.updated
    overtaken,   \* history: requests whose thread was changed after they loaded it
    misled       \* history: threads whose last event was lost, announced what
                 \* came to nothing, said nothing of tags (of a new thread), or
                 \* came from an overtaken edit that names no tags

rows == <<exists, tagNames, wears>>
pending == <<newWears, lock, owner>>
session == <<loaded, missing, next>>
vars == <<rows, pending, session, pc, told, overtaken, misled>>

\* The points of a handler at which its transaction is open.
Working == {"load", "update", "find", "insert", "wear", "publish", "commit"}

\* From the INSERT or UPDATE of the thread to the end of the transaction.
HoldsThread == {"find", "insert", "wear", "publish", "commit"}

ErrorReplies == {"notFound", "serverError"}

TypeOK ==
    /\ exists \subseteq Threads
    /\ tagNames \subseteq Names
    /\ wears \in [Threads -> SUBSET Names]
    /\ newWears \in [Threads -> SUBSET Names]
    /\ lock \in [Threads -> Requests \cup {None}]
    /\ owner \in [Names -> Requests \cup {None}]
    /\ loaded \in [Requests -> SUBSET Names]
    /\ missing \in [Requests -> SUBSET Names]
    /\ next \in [Requests -> Names \cup {None}]
    /\ pc \in [Requests -> {"idle"} \cup Working \cup ErrorReplies]
    /\ told \in [Threads -> SUBSET Names]
    /\ overtaken \subseteq Requests
    /\ misled \subseteq Threads

Init ==
    /\ exists = {t \in Threads : \A r \in Requests : r.op = "create" => r.thread # t}
    /\ tagNames = {}
    /\ wears = [t \in Threads |-> {}]
    /\ newWears = wears
    /\ lock = [t \in Threads |-> None]
    /\ owner = [n \in Names |-> None]
    /\ loaded = [r \in Requests |-> {}]
    /\ missing = [r \in Requests |-> {}]
    /\ next = [r \in Requests |-> None]
    /\ pc = [r \in Requests |-> "idle"]
    /\ told = wears
    /\ overtaken = {}
    /\ misled = {}

InFlight == {r \in Requests : pc[r] # "idle"}

\* The tags that r has inserted and not committed.
Inserted(r) == {n \in Names : owner[n] = r}

-----------------------------------------------------------------------------
(* The end of a transaction without a commit.                              *)

\* Mutant: the tags it has inserted stay locked.
RollBackThreadOnly(r) ==
    /\ lock' = [lock EXCEPT ![r.thread] = IF @ = r THEN None ELSE @]
    /\ newWears' = [newWears EXCEPT ![r.thread] = IF lock[r.thread] = r THEN wears[r.thread] ELSE @]
    /\ loaded' = [loaded EXCEPT ![r] = {}]
    /\ missing' = [missing EXCEPT ![r] = {}]
    /\ next' = [next EXCEPT ![r] = None]
    /\ overtaken' = overtaken \ {r}
    /\ misled' = misled
    /\ UNCHANGED <<rows, owner, told>>

\* An event that has left announced what does not come.
RollBack(r) ==
    /\ lock' = [lock EXCEPT ![r.thread] = IF @ = r THEN None ELSE @]
    /\ newWears' = [newWears EXCEPT ![r.thread] = IF lock[r.thread] = r THEN wears[r.thread] ELSE @]
    /\ owner' = [n \in Names |-> IF owner[n] = r THEN None ELSE owner[n]]
    /\ loaded' = [loaded EXCEPT ![r] = {}]
    /\ missing' = [missing EXCEPT ![r] = {}]
    /\ next' = [next EXCEPT ![r] = None]
    /\ overtaken' = overtaken \ {r}
    /\ misled' = IF pc[r] = "commit" THEN misled \cup {r.thread} ELSE misled
    /\ UNCHANGED <<rows, told>>

Fail(r, reply) ==
    /\ RollBack(r)
    /\ pc' = [pc EXCEPT ![r] = reply]

-----------------------------------------------------------------------------
(* The client and the route.                                               *)

\* A thread gets a fresh uuid, so only one request creates it.
Start(r) ==
    /\ pc[r] = "idle"
    /\ Cardinality(InFlight) < MaxInFlight
    /\ r.op = "create" =>
          /\ r.thread \notin exists
          /\ \A s \in InFlight : s.op = "create" => s.thread # r.thread
    /\ pc' = [pc EXCEPT ![r] = "load"]
    /\ UNCHANGED <<rows, pending, session, told, overtaken, misled>>

Close(r) ==
    /\ pc[r] \in ErrorReplies
    /\ pc' = [pc EXCEPT ![r] = "idle"]
    /\ UNCHANGED <<rows, pending, session, told, overtaken, misled>>

-----------------------------------------------------------------------------
(* The thread's row.                                                       *)

\* thread_repo.create_thread; "if tag_names" skips an empty list.
InsertThread(r) ==
    /\ pc[r] = "load"
    /\ lock' = [lock EXCEPT ![r.thread] = r]
    /\ pc' = [pc EXCEPT ![r] = IF r.tags = {} THEN "publish" ELSE "find"]
    /\ UNCHANGED <<rows, newWears, owner, session, told, overtaken, misled>>

\* get_thread_by_id, with the tags, which are loaded along.
LoadThread(r) ==
    /\ pc[r] = "load"
    /\ \/ /\ r.thread \in exists
          /\ loaded' = [loaded EXCEPT ![r] = wears[r.thread]]
          /\ pc' = [pc EXCEPT ![r] = "update"]
          /\ UNCHANGED <<rows, pending, missing, next, told, overtaken, misled>>
       \/ r.thread \notin exists /\ Fail(r, "notFound")

\* thread_repo.update_thread: updated_at always changes, so the row is written,
\* and locked, before its tags are.
UpdateThread(r) ==
    /\ pc[r] = "update"
    /\ lock[r.thread] = None
    /\ lock' = [lock EXCEPT ![r.thread] = r]
    /\ pc' = [pc EXCEPT ![r] = IF ~ r.given THEN "publish" ELSE "find"]
    /\ UNCHANGED <<rows, newWears, owner, session, told, overtaken, misled>>

-----------------------------------------------------------------------------
(* get_or_create_tags, and the thread's tags.                              *)

\* The order of the INSERTs is that of a Python set: any name may be next.
GoesOn(r, rest) ==
    /\ missing' = [missing EXCEPT ![r] = rest]
    /\ \/ rest = {} /\ next' = [next EXCEPT ![r] = None]
       \/ \E n \in rest : next' = [next EXCEPT ![r] = n]
    /\ pc' = [pc EXCEPT ![r] = IF rest = {} THEN "wear" ELSE "insert"]

\* The SELECT of the names that are there.
FindTags(r) ==
    /\ pc[r] = "find"
    /\ GoesOn(r, r.tags \ tagNames)
    /\ UNCHANGED <<rows, pending, loaded, told, overtaken, misled>>

\* Mutant: nothing but an INSERT in flight is in the way of another.
InsertTagUnseen(r) ==
    /\ pc[r] = "insert"
    /\ owner[next[r]] = None
    /\ owner' = [owner EXCEPT ![next[r]] = r]
    /\ GoesOn(r, missing[r] \ {next[r]})
    /\ UNCHANGED <<rows, newWears, lock, loaded, told, overtaken, misled>>

\* The flush inserts the others.  A name that somebody else is inserting makes
\* it wait; one that has been committed since fails it, which nothing catches.
InsertTag(r) ==
    /\ pc[r] = "insert"
    /\ owner[next[r]] = None
    /\ \/ /\ next[r] \notin tagNames
          /\ owner' = [owner EXCEPT ![next[r]] = r]
          /\ GoesOn(r, missing[r] \ {next[r]})
          /\ UNCHANGED <<rows, newWears, lock, loaded, told, overtaken, misled>>
       \/ next[r] \in tagNames /\ Fail(r, "serverError")

\* Mutant: the tags that are not wanted any more stay.
WearingOnly(r) == newWears[r.thread] \cup (r.tags \ loaded[r])

\* thread.tags = tags: the flush deletes and inserts what differs from the tags
\* that were loaded.
Wearing(r) == (newWears[r.thread] \ (loaded[r] \ r.tags)) \cup (r.tags \ loaded[r])

\* A pair that an edit in between has inserted already violates the primary key;
\* one that it has deleted already is passed over.
WearTags(r) ==
    /\ pc[r] = "wear"
    /\ \/ /\ (r.tags \ loaded[r]) \cap wears[r.thread] = {}
          /\ newWears' = [newWears EXCEPT ![r.thread] = Wearing(r)]
          /\ pc' = [pc EXCEPT ![r] = "publish"]
          /\ UNCHANGED <<rows, lock, owner, session, told, overtaken, misled>>
       \/ (r.tags \ loaded[r]) \cap wears[r.thread] # {} /\ Fail(r, "serverError")

-----------------------------------------------------------------------------
(* The event, the reply and the commit.                                    *)

\* Mutant: the tags are not refreshed before they are published.
AnnouncedAsLoaded(r) == loaded[r]

\* build_thread_updated: the tags, refreshed if they were given.
Announced(r) == IF ~ r.given THEN loaded[r] ELSE newWears[r.thread]

\* publish_realtime; realtime.post says nothing of tags.
Publish(r) ==
    /\ pc[r] = "publish"
    /\ pc' = [pc EXCEPT ![r] = "commit"]
    /\ \/ /\ r.op = "create"
          /\ misled' = misled \cup {r.thread}
          /\ UNCHANGED told
       \/ /\ r.op = "edit"
          /\ told' = [told EXCEPT ![r.thread] = Announced(r)]
          /\ misled' = IF ~ r.given /\ r \in overtaken THEN misled \cup {r.thread}
                       ELSE misled \ {r.thread}
       \/ /\ "publish" \in Faults
          /\ misled' = misled \cup {r.thread}
          /\ UNCHANGED told
    /\ UNCHANGED <<rows, pending, session, overtaken>>

Commit(r) ==
    /\ pc[r] = "commit"
    /\ exists' = exists \cup {r.thread}
    /\ tagNames' = tagNames \cup Inserted(r)
    /\ wears' = [wears EXCEPT ![r.thread] = newWears[r.thread]]
    /\ owner' = [n \in Names |-> IF owner[n] = r THEN None ELSE owner[n]]
    /\ lock' = [lock EXCEPT ![r.thread] = None]
    /\ loaded' = [loaded EXCEPT ![r] = {}]
    /\ overtaken' = (overtaken \ {r}) \cup
                    {s \in Requests \ {r} : s.thread = r.thread /\ pc[s] = "update"}
    /\ pc' = [pc EXCEPT ![r] = "idle"]
    /\ UNCHANGED <<newWears, missing, next, told, misled>>

CommitFails(r) ==
    /\ "commit" \in Faults
    /\ pc[r] = "commit"
    /\ Fail(r, "idle")

\* Also one of the SELECTs for mentions and the reply, after the event.
StatementFails(r) ==
    /\ "database" \in Faults
    /\ pc[r] \in Working
    /\ Fail(r, "serverError")

ProcessDies ==
    /\ "process" \in Faults
    /\ InFlight # {}
    /\ newWears' = wears
    /\ lock' = [t \in Threads |-> None]
    /\ owner' = [n \in Names |-> None]
    /\ loaded' = [r \in Requests |-> {}]
    /\ missing' = [r \in Requests |-> {}]
    /\ next' = [r \in Requests |-> None]
    /\ pc' = [r \in Requests |-> "idle"]
    /\ overtaken' = {}
    /\ misled' = misled \cup {r.thread : r \in {s \in Requests : pc[s] = "commit"}}
    /\ UNCHANGED <<rows, told>>

-----------------------------------------------------------------------------
(* Deadlocks.                                                              *)

\* r waits for a row that s has written: a thread's or a tag's.
WaitsFor(r, s) ==
    /\ s # r
    /\ \/ pc[r] = "update" /\ lock[r.thread] = s
       \/ pc[r] = "insert" /\ owner[next[r]] = s

Ring(S) ==
    /\ S # {}
    /\ \A r \in S : /\ \E s \in S : WaitsFor(r, s)
                    /\ \E s \in S : WaitsFor(s, r)

\* The deadlock detector rolls one of them back; its client gets a 500.
DeadlockVictim(r) ==
    /\ \E S \in SUBSET InFlight : r \in S /\ Ring(S)
    /\ Fail(r, "serverError")

-----------------------------------------------------------------------------

CreateThread(r) ==
    /\ r.op = "create"
    /\ InsertThread(r) \/ FindTags(r) \/ InsertTag(r) \/ WearTags(r) \/ Publish(r)

EditThread(r) ==
    /\ r.op = "edit"
    /\ \/ LoadThread(r) \/ UpdateThread(r) \/ FindTags(r) \/ InsertTag(r)
       \/ WearTags(r) \/ Publish(r)

Handler(r) == CreateThread(r) \/ EditThread(r) \/ Commit(r) \/ Close(r)

Next ==
    \/ \E r \in Requests :
          \/ Start(r) \/ Handler(r) \/ DeadlockVictim(r)
          \/ CommitFails(r) \/ StatementFails(r)
    \/ ProcessDies

Spec == Init /\ [][Next]_vars

\* As in Discussion: handlers run on, locks are granted in turn, and deadlocks
\* are resolved.
FairSpec ==
    /\ Spec
    /\ \A r \in Requests : SF_vars(Handler(r))
    /\ \A r \in Requests : WF_vars(DeadlockVictim(r))

-----------------------------------------------------------------------------
(* Properties.                                                             *)

\* A thread gets the tags that its author's request names, no more and no less,
\* unless another edit of it was committed after the request loaded it: the
\* difference is then one to tags that are not there any more.
EditTakesEffect ==
    \A r \in Requests :
        pc[r] \in {"publish", "commit"} /\ r.given /\ r \notin overtaken
        => newWears[r.thread] = r.tags

\* The tags every client was last told are the thread's, whenever nobody is
\* changing them: events leave in the order of the commits, and carry what the
\* transaction has written.  Not so after an event that got lost, or whose
\* commit failed, or of an edit that names no tags and was overtaken.
ToldTagsAreCurrent ==
    \A t \in Threads \ misled :
        lock[t] = None => told[t] = wears[t]

\* Requests deadlock over new tags only, never over a thread's row: everyone in
\* a ring has inserted a tag and waits to insert another.
DeadlocksNeedTwoNewTags ==
    \A S \in SUBSET InFlight : Ring(S) =>
        \A r \in S : pc[r] = "insert" /\ Inserted(r) # {}

\* Every request ends, however many wait for each other's tags.
RequestsEnd == \A r \in Requests : pc[r] # "idle" ~> pc[r] = "idle"

-----------------------------------------------------------------------------
(* The inductive invariant.                                                *)

\* Who writes a thread holds its row, and who inserts a tag its name.
LocksHeld ==
    /\ \A r \in Requests : pc[r] \in HoldsThread <=> lock[r.thread] = r
    /\ \A t \in Threads : lock[t] # None => lock[t].thread = t
    /\ \A n \in Names : owner[n] # None =>
          /\ pc[owner[n]] \in {"insert", "wear", "publish", "commit"}
          /\ n \in owner[n].tags \ (missing[owner[n]] \cup tagNames)

\* A thread is there before it is edited, and not while it is created, by one
\* request alone.
ThreadsInPlace ==
    \A r \in Requests :
        /\ r.op = "edit" /\ pc[r] \in Working \ {"load"} => r.thread \in exists
        /\ r.op = "create" /\ pc[r] \in Working =>
              /\ r.thread \notin exists /\ r \notin overtaken
              /\ \A s \in Requests \ {r} :
                    s.op = "create" /\ s.thread = r.thread => pc[s] \notin Working

\* What get_or_create_tags has still to do.
TagsInPlace ==
    \A r \in Requests :
        /\ pc[r] \in {"find", "insert", "wear"} => r.given
        /\ pc[r] = "insert" => next[r] \in missing[r]
        /\ missing[r] \subseteq r.tags
        /\ missing[r] # {} => pc[r] = "insert"
        /\ pc[r] \in {"insert", "wear"} => r.tags \subseteq tagNames \cup missing[r] \cup Inserted(r)
        /\ r.op = "create" => loaded[r] = {}
        /\ loaded[r] \subseteq tagNames
        /\ r \in overtaken => pc[r] \in Working \ {"load"}

\* The tags as they are written, and those that an edit relies on.  No tag is
\* left behind: a name is committed together with a thread that has the tag.
WearsInPlace ==
    /\ \A t \in Threads :
          /\ wears[t] \subseteq tagNames
          /\ t \notin exists => wears[t] = {}
          /\ lock[t] = None => newWears[t] = wears[t]
    /\ \A r \in Requests :
          /\ pc[r] \in {"find", "insert", "wear"} => newWears[r.thread] = wears[r.thread]
          /\ pc[r] \in Working \ {"load"} /\ r \notin overtaken => loaded[r] = wears[r.thread]
          /\ pc[r] = "publish" /\ ~ r.given => newWears[r.thread] = wears[r.thread]
          /\ pc[r] \in {"publish", "commit"} =>
                /\ Inserted(r) \subseteq newWears[r.thread]
                /\ newWears[r.thread] \subseteq tagNames \cup Inserted(r)

\* While somebody changes a thread, what was told is what was committed, until
\* the event says what will be.
ToldInPlace ==
    \A t \in Threads \ misled :
        told[t] = IF lock[t] # None /\ pc[lock[t]] = "commit" THEN newWears[t] ELSE wears[t]

TagsInv ==
    /\ TypeOK
    /\ LocksHeld
    /\ ThreadsInPlace
    /\ TagsInPlace
    /\ WearsInPlace
    /\ ToldInPlace
    /\ EditTakesEffect
=============================================================================
