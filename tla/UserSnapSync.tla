---------------------------- MODULE UserSnapSync ----------------------------
(***************************************************************************)
(* User snapshots: the thread service's copy (table user_snap) of the names*)
(* and avatars in the user service (table users).                          *)
(*                                                                         *)
(* Handlers of the user service register users and update their profiles;  *)
(* each publishes an event before its transaction commits.  The events go  *)
(* through a durable queue to the one consumer in the thread service, which*)
(* upserts the snapshot and acknowledges the event.  Users may also write  *)
(* their own snapshot over HTTP (api/v1/user_snaps.py).  As in Likes, a    *)
(* step is one awaited statement and transactions are READ COMMITTED.      *)
(***************************************************************************)
EXTENDS Naturals, Sequences, FiniteSets

CONSTANTS
    Users,         \* identities of users who may register
    Names,         \* usernames
    Avatars,       \* avatar urls
    None,          \* no user, no avatar, a field that is not provided
    Clear,         \* an avatar_url that is provided, as null
    Handlers,      \* bound: handlers of the user service, one request each
    SnapHandlers,  \* bound: handlers of /user-snaps in the thread service
    Consumer,      \* the consumer task of the thread service
    MaxQueue,      \* bound: events in the queue
    Patient,       \* do a user's requests wait for each other's commit?
    Clears,        \* do users clear their avatars?
    Faults         \* of {"publish", "commit", "statement", "userProcess",
                   \*     "upsert", "threadProcess", "shutdown"}

ASSUME UserSnapAssumption ==
    /\ {None, Clear, Consumer} \cap (Users \cup Names \cup Avatars) = {}
    /\ None # Clear
    /\ Consumer \notin SnapHandlers
    /\ MaxQueue \in Nat
    /\ Patient \in BOOLEAN /\ Clears \in BOOLEAN

Profile == [name : Names, avatar : Avatars \cup {None}]

ASSUME ProfileAssumption == None \notin Profile

\* The bodies of POST /auth/signup and PATCH /users/me, as far as a snapshot
\* shows them; updates of other fields publish nothing.
Request ==
    [op : {"register"}, user : Users, name : Names, avatar : Avatars \cup {None}]
    \cup
    [op : {"update"}, user : Users, name : Names \cup {None},
     avatar : Avatars \cup {None} \cup (IF Clears THEN {Clear} ELSE {})]

Event == [user : Users, profile : Profile]

\* What a writer of snapshots is to write: an event's, a POST's, a PATCH's.
Job == [op : {"event", "post"}, user : Users, name : Names,
        avatar : Avatars \cup {None}]
       \cup
       [op : {"patch"}, user : Users, name : Names \cup {None},
        avatar : Avatars \cup {None}]

Writers == {Consumer} \cup SnapHandlers

VARIABLES
    users,      \* users[u]: the committed row, None before the registration
    pc,         \* pc[h]: the next statement of handler h
    req,        \* req[h]: its request
    loaded,     \* loaded[h]: the row get_current_user has loaded for it
    queue,      \* the queue threadify.user_snaps, the unacknowledged included
    snaps,      \* snaps[u]: the committed row of user_snap, or None
    wpc,        \* wpc[w]: the next statement of writer w
    job,        \* job[w]: what it is to write
    found,      \* found[w]: the row get_user_snap has loaded for it
    lost        \* ghost: the users of whom an event got lost

userSide == <<users, pc, req, loaded>>
snapSide == <<snaps, wpc, job, found>>
events == <<queue, lost>>
vars == <<userSide, events, snapSide>>

-----------------------------------------------------------------------------

TypeOK ==
    /\ users \in [Users -> Profile \cup {None}]
    /\ pc \in [Handlers -> {"idle", "load", "check", "write", "publish", "commit"}]
    /\ req \in [Handlers -> Request \cup {None}]
    /\ loaded \in [Handlers -> Profile \cup {None}]
    /\ queue \in Seq(Event)
    /\ snaps \in [Users -> Profile \cup {None}]
    /\ wpc \in [Writers -> {"idle", "select", "flush", "commit", "ack"}]
    /\ job \in [Writers -> Job \cup {None}]
    /\ found \in [Writers -> Profile \cup {None}]
    /\ lost \subseteq Users

Init ==
    /\ users = [u \in Users |-> None]
    /\ pc = [h \in Handlers |-> "idle"]
    /\ req = [h \in Handlers |-> None]
    /\ loaded = [h \in Handlers |-> None]
    /\ queue = <<>>
    /\ snaps = [u \in Users |-> None]
    /\ wpc = [w \in Writers |-> "idle"]
    /\ job = [w \in Writers |-> None]
    /\ found = [w \in Writers |-> None]
    /\ lost = {}

-----------------------------------------------------------------------------
(* The user service.                                                       *)

InFlight == {h \in Handlers : pc[h] # "idle"}

\* Handlers whose INSERT or UPDATE is done and not committed.
Open == {h \in Handlers : pc[h] \in {"publish", "commit"}}

\* Handler h is done, with whatever reply.
Done(h) ==
    /\ pc' = [pc EXCEPT ![h] = "idle"]
    /\ req' = [req EXCEPT ![h] = None]
    /\ loaded' = [loaded EXCEPT ![h] = None]

\* A profile with what request q provides.
Updated(p, q) ==
    [name   |-> IF q.name = None THEN p.name ELSE q.name,
     avatar |-> CASE q.avatar = None  -> p.avatar
                  [] q.avatar = Clear -> None
                  [] OTHER            -> q.avatar]

\* The user object in the handler's memory, from which the event is made.
InMemory(h) ==
    IF req[h].op = "register"
    THEN [name |-> req[h].name, avatar |-> req[h].avatar]
    ELSE Updated(loaded[h], req[h])

\* p with the columns in which `new' differs from `old': the ORM writes those.
Changed(p, old, new) ==
    [name   |-> IF new.name # old.name THEN new.name ELSE p.name,
     avatar |-> IF new.avatar # old.avatar THEN new.avatar ELSE p.avatar]

\* The row as h writes it.
Row(h) ==
    IF req[h].op = "register" THEN InMemory(h)
    ELSE Changed(users[req[h].user], loaded[h], InMemory(h))

\* Does h write at all, and does it write the name?
Writes(h) == req[h].op = "register" \/ InMemory(h) # loaded[h]
WritesName(h) ==
    req[h].op = "register" \/ InMemory(h).name # loaded[h].name

NameTaken(n, others) == \E v \in others : users[v] # None /\ users[v].name = n

\* signup has a fresh user; the token of an update names one who registered.
StartRequest(h, q) ==
    /\ pc[h] = "idle"
    /\ Len(queue) + Cardinality(InFlight) < MaxQueue
    /\ IF q.op = "register"
       THEN /\ users[q.user] = None
            /\ \A g \in InFlight : req[g].user # q.user
       ELSE /\ users[q.user] # None
            /\ q.name # None \/ q.avatar # None
            /\ Patient => \A g \in InFlight : req[g].user # q.user
    /\ req' = [req EXCEPT ![h] = q]
    /\ pc' = [pc EXCEPT ![h] = IF q.op = "register" THEN "check" ELSE "load"]
    /\ UNCHANGED <<users, loaded, events, snapSide>>

\* get_current_user.
LoadUser(h) ==
    /\ pc[h] = "load"
    /\ loaded' = [loaded EXCEPT ![h] = users[req[h].user]]
    /\ pc' = [pc EXCEPT ![h] = "check"]
    /\ UNCHANGED <<users, req, events, snapSide>>

\* get_user_by_username, for a name that is new to the user.
CheckUsername(h) ==
    /\ pc[h] = "check"
    /\ IF WritesName(h) /\ NameTaken(req[h].name, Users)
       THEN Done(h)
       ELSE pc' = [pc EXCEPT ![h] = "write"] /\ UNCHANGED <<req, loaded>>
    /\ UNCHANGED <<users, events, snapSide>>

\* Mutant: the name has no unique index.
WaitsForRowOnly(h) ==
    \E g \in Open \ {h} : Writes(g) /\ req[g].user = req[h].user

\* What h writes waits for the row, and for every open transaction that gives
\* the name to a row or takes it from one (unique index).
Waits(h) ==
    \E g \in Open \ {h} :
        /\ Writes(g)
        /\ \/ req[g].user = req[h].user
           \/ WritesName(h) /\ Row(g).name = req[h].name
           \/ /\ WritesName(h)
              /\ users[req[g].user] # None
              /\ users[req[g].user].name = req[h].name

\* The flush of create_user or update_user.  A name that has been taken since
\* it was checked is an IntegrityError.
WriteUser(h) ==
    /\ pc[h] = "write"
    /\ Writes(h) => ~ Waits(h)
    /\ IF WritesName(h) /\ NameTaken(req[h].name, Users \ {req[h].user})
       THEN Done(h)
       ELSE pc' = [pc EXCEPT ![h] = "publish"] /\ UNCHANGED <<req, loaded>>
    /\ UNCHANGED <<users, events, snapSide>>

\* user_publisher.publish of user.registered or user.updated.
PublishUser(h) ==
    /\ pc[h] = "publish"
    /\ pc' = [pc EXCEPT ![h] = "commit"]
    /\ \/ /\ queue' = Append(queue, [user |-> req[h].user, profile |-> InMemory(h)])
          /\ UNCHANGED lost
       \/ /\ "publish" \in Faults
          /\ lost' = lost \cup {req[h].user}
          /\ UNCHANGED queue
    /\ UNCHANGED <<users, req, loaded, snapSide>>

\* get_db, after the reply.
CommitUser(h) ==
    /\ pc[h] = "commit"
    /\ users' = [users EXCEPT ![req[h].user] = IF Writes(h) THEN Row(h) ELSE @]
    /\ Done(h)
    /\ UNCHANGED <<events, snapSide>>

CommitUserFails(h) ==
    /\ "commit" \in Faults
    /\ pc[h] = "commit"
    /\ Done(h)
    /\ UNCHANGED <<users, events, snapSide>>

\* A statement raises, the refresh of the role and the INSERT of a token included.
UserStatementFails(h) ==
    /\ "statement" \in Faults
    /\ pc[h] \in {"load", "check", "write", "publish"}
    /\ Done(h)
    /\ UNCHANGED <<users, events, snapSide>>

UserProcessDies ==
    /\ "userProcess" \in Faults
    /\ InFlight # {}
    /\ pc' = [h \in Handlers |-> "idle"]
    /\ req' = [h \in Handlers |-> None]
    /\ loaded' = [h \in Handlers |-> None]
    /\ UNCHANGED <<users, events, snapSide>>

-----------------------------------------------------------------------------
(* The thread service.                                                     *)

\* Mutant: an event is not acknowledged once it is handled.
WrittenUnacknowledged(w) ==
    /\ wpc' = [wpc EXCEPT ![w] = "idle"]
    /\ job' = [job EXCEPT ![w] = None]
    /\ found' = [found EXCEPT ![w] = None]

\* Writer w has nothing more to write.  The consumer acknowledges its event,
\* whatever has become of it: _handle_message catches every exception.
Written(w) ==
    /\ wpc' = [wpc EXCEPT ![w] = IF w = Consumer THEN "ack" ELSE "idle"]
    /\ job' = [job EXCEPT ![w] = None]
    /\ found' = [found EXCEPT ![w] = None]

\* The next event of the queue; it stays there until it is acknowledged.
Receive ==
    /\ wpc[Consumer] = "idle"
    /\ queue # <<>>
    /\ LET e == Head(queue) IN
       job' = [job EXCEPT ![Consumer] =
                 [op |-> "event", user |-> e.user,
                  name |-> e.profile.name, avatar |-> e.profile.avatar]]
    /\ wpc' = [wpc EXCEPT ![Consumer] = "select"]
    /\ UNCHANGED <<userSide, events, snaps, found>>

\* POST /user-snaps or PATCH /user-snaps/{user_id}, by a user with a token.
StartSnapRequest(w, j) ==
    /\ wpc[w] = "idle"
    /\ users[j.user] # None
    /\ job' = [job EXCEPT ![w] = j]
    /\ wpc' = [wpc EXCEPT ![w] = "select"]
    /\ UNCHANGED <<userSide, events, snaps, found>>

\* get_user_snap.  A PATCH needs the row.
SelectSnap(w) ==
    /\ wpc[w] = "select"
    /\ IF job[w].op = "patch" /\ snaps[job[w].user] = None
       THEN Written(w)
       ELSE /\ found' = [found EXCEPT ![w] = snaps[job[w].user]]
            /\ wpc' = [wpc EXCEPT ![w] = "flush"]
            /\ UNCHANGED job
    /\ UNCHANGED <<userSide, events, snaps>>

\* The flush: an INSERT that fails if the row exists by now, or an UPDATE.
\* Both wait for open transactions on the row.
FlushSnap(w) ==
    /\ wpc[w] = "flush"
    /\ \A x \in Writers \ {w} : wpc[x] = "commit" => job[x].user # job[w].user
    /\ IF found[w] = None /\ snaps[job[w].user] # None
       THEN Written(w)
       ELSE wpc' = [wpc EXCEPT ![w] = "commit"] /\ UNCHANGED <<job, found>>
    /\ UNCHANGED <<userSide, events, snaps>>

\* Mutant: INSERT .. ON CONFLICT DO NOTHING.
CommitSnapOnce(w) ==
    LET j == job[w] IN
    /\ wpc[w] = "commit"
    /\ snaps' = [snaps EXCEPT ![j.user] =
                   IF found[w] = None THEN [name |-> j.name, avatar |-> j.avatar]
                   ELSE @]
    /\ Written(w)
    /\ UNCHANGED <<userSide, events>>

\* Inserted; or updated, in the columns for which the job provides a value (an
\* avatar of None is none) other than the one that was found.
CommitSnap(w) ==
    LET j == job[w] IN
    /\ wpc[w] = "commit"
    /\ snaps' = [snaps EXCEPT ![j.user] =
                   IF found[w] = None THEN [name |-> j.name, avatar |-> j.avatar]
                   ELSE Changed(@, found[w], Updated(found[w], j))]
    /\ Written(w)
    /\ UNCHANGED <<userSide, events>>

\* A statement raises, or the commit.
UpsertFails(w) ==
    /\ "upsert" \in Faults
    /\ wpc[w] \in {"select", "flush", "commit"}
    /\ lost' = IF w = Consumer THEN lost \cup {job[w].user} ELSE lost
    /\ Written(w)
    /\ UNCHANGED <<userSide, queue, snaps>>

\* message.process acknowledges.
Acknowledge ==
    /\ wpc[Consumer] = "ack"
    /\ queue' = Tail(queue)
    /\ wpc' = [wpc EXCEPT ![Consumer] = "idle"]
    /\ UNCHANGED <<userSide, lost, snaps, job, found>>

\* Mutant: the consumer does not ask for acknowledgements (no_ack).
ThreadProcessDiesUnacked ==
    /\ "threadProcess" \in Faults
    /\ \E w \in Writers : wpc[w] # "idle"
    /\ queue' = IF wpc[Consumer] # "idle" THEN Tail(queue) ELSE queue
    /\ wpc' = [w \in Writers |-> "idle"]
    /\ job' = [w \in Writers |-> None]
    /\ found' = [w \in Writers |-> None]
    /\ UNCHANGED <<userSide, lost, snaps>>

\* Mutant: what was not acknowledged is requeued behind later events.
ThreadProcessDiesRequeued ==
    /\ "threadProcess" \in Faults
    /\ \E w \in Writers : wpc[w] # "idle"
    /\ queue' = IF wpc[Consumer] # "idle" THEN Append(Tail(queue), Head(queue))
                ELSE queue
    /\ wpc' = [w \in Writers |-> "idle"]
    /\ job' = [w \in Writers |-> None]
    /\ found' = [w \in Writers |-> None]
    /\ UNCHANGED <<userSide, lost, snaps>>

\* The broker keeps what was not acknowledged, in its place.
ThreadProcessDies ==
    /\ "threadProcess" \in Faults
    /\ \E w \in Writers : wpc[w] # "idle"
    /\ wpc' = [w \in Writers |-> "idle"]
    /\ job' = [w \in Writers |-> None]
    /\ found' = [w \in Writers |-> None]
    /\ UNCHANGED <<userSide, events, snaps>>

\* The lifespan ends, after the last request, and cancels the consumer; what it
\* was handling is rejected and not requeued.
ShutDown ==
    /\ "shutdown" \in Faults
    /\ wpc[Consumer] \in {"select", "flush", "commit"}
    /\ \A w \in SnapHandlers : wpc[w] = "idle"
    /\ lost' = lost \cup {job[Consumer].user}
    /\ queue' = Tail(queue)
    /\ wpc' = [wpc EXCEPT ![Consumer] = "idle"]
    /\ job' = [job EXCEPT ![Consumer] = None]
    /\ found' = [found EXCEPT ![Consumer] = None]
    /\ UNCHANGED <<userSide, snaps>>

-----------------------------------------------------------------------------

UserHandler(h) ==
    \/ LoadUser(h) \/ CheckUsername(h) \/ WriteUser(h)
    \/ PublishUser(h) \/ CommitUser(h)

Upsert(w) == SelectSnap(w) \/ FlushSnap(w) \/ CommitSnap(w)

Next ==
    \/ \E h \in Handlers :
          \/ \E q \in Request : StartRequest(h, q)
          \/ UserHandler(h) \/ CommitUserFails(h) \/ UserStatementFails(h)
    \/ UserProcessDies
    \/ \E w \in SnapHandlers :
          \E j \in {j \in Job : j.op # "event"} : StartSnapRequest(w, j)
    \/ \E w \in Writers : Upsert(w) \/ UpsertFails(w)
    \/ Receive \/ Acknowledge
    \/ ThreadProcessDies \/ ShutDown

Spec == Init /\ [][Next]_vars

\* The thread service runs its consumer and its handlers, PostgreSQL grants row
\* locks in the order they are asked for, and restarts come to an end.
FairSpec ==
    /\ Spec
    /\ WF_vars(Receive) /\ WF_vars(Acknowledge)
    /\ \A w \in Writers : SF_vars(Upsert(w))
    /\ <>[][~ (ThreadProcessDies \/ ShutDown)]_vars

-----------------------------------------------------------------------------
(* Properties.                                                             *)

InQueue(u) == \E i \in 1..Len(queue) : queue[i].user = u

\* The thread service has a snapshot of u, or is going to, if nothing is lost.
Known(u) == snaps[u] # None \/ InQueue(u) \/ u \in lost

\* Every user has a snapshot, or an event that will make one, unless the broker
\* or a failing statement has lost it: threads and comments lose their authors'
\* names neither to a race of the consumer with the user's own POST, nor to
\* crashes, commits that fail, or updates that overlap.
AuthorsAreKnown ==
    \A u \in Users : users[u] # None => Known(u)

\* What a handler needs to know of its user, at each of its statements.
RequestsInPlace ==
    \A h \in InFlight :
        /\ req[h] \in Request
        /\ pc[h] = "load" => req[h].op = "update"
        /\ req[h].op = "update" =>
              /\ users[req[h].user] # None
              /\ pc[h] # "load" => loaded[h] # None

\* What a writer needs to know of the snapshot.
UpsertsInPlace ==
    \A w \in Writers :
        /\ wpc[w] = "ack" => w = Consumer
        /\ wpc[w] \in {"select", "flush", "commit"} => job[w] \in Job
        /\ wpc[w] \in {"flush", "commit"} =>
              /\ job[w].op = "patch" => found[w] # None
              /\ found[w] # None => snaps[job[w].user] # None

\* The consumer holds the first event of the queue; when it acknowledges the
\* event, the user has a snapshot or counts as lost.
HeadInHand ==
    /\ wpc[Consumer] # "idle" => queue # <<>>
    /\ wpc[Consumer] \in {"select", "flush", "commit"} =>
          job[Consumer].op = "event" /\ job[Consumer].user = Head(queue).user
    /\ wpc[Consumer] = "ack" =>
          snaps[Head(queue).user] # None \/ Head(queue).user \in lost

\* What is about to be committed has been published.
PublishedFirst == \A h \in Handlers : pc[h] = "commit" => Known(req[h].user)

\* The inductive invariant behind AuthorsAreKnown: profiles are announced
\* before they exist, and no event leaves the queue before its snapshot exists.
UserSnapInv ==
    /\ TypeOK
    /\ RequestsInPlace
    /\ UpsertsInPlace
    /\ HeadInHand
    /\ PublishedFirst
    /\ AuthorsAreKnown

\* The consumer gets through its queue: no event, whatever happens to it, blocks
\* those behind it.
EventsAreHandled == queue # <<>> ~> wpc[Consumer] = "ack" \/ queue = <<>>

\* The snapshot is up to date once everything about the user has been handled.
SnapsAreCurrent ==
    \A u \in Users :
        (\A h \in InFlight : req[h].user # u) /\ ~ InQueue(u)
        => snaps[u] = users[u]

\* A mention resolves to one user (get_user_ids_by_usernames), although the
\* table has no unique index and names change hands: the events about a name
\* are handled in the order in which it was given and taken.
MentionsResolve ==
    \A u, v \in Users :
        u # v /\ snaps[u] # None /\ snaps[v] # None
        => snaps[u].name # snaps[v].name

-----------------------------------------------------------------------------
(* Snapshots are an ordered copy of the profiles.                          *)

\* A profile counts from the moment its event is published: no one else can
\* change the row before the commit.
Announced(u) ==
    LET announcing == {h \in Handlers : pc[h] = "commit" /\ req[h].user = u}
    IN IF announcing = {} THEN users[u]
       ELSE Row(CHOOSE h \in announcing : TRUE)

Copy == INSTANCE OrderedCopy WITH
    Keys    <- Users,
    Values  <- Profile,
    source  <- [u \in Users |-> Announced(u)],
    copy    <- snaps,
    pending <- [i \in 1..Len(queue) |->
                  [key |-> queue[i].user, value |-> queue[i].profile]]

\* If users wait for their commits, clear no avatar and do not write snapshots
\* themselves, the snapshots are an ordered copy, crashes and redelivery of the
\* consumer included.
SnapsFollowProfiles == Copy!Spec

-----------------------------------------------------------------------------
(* Why they do: the inductive invariant, on top of UserSnapInv.            *)

\* The setting: nothing gets lost, and only the consumer writes snapshots.
Orderly ==
    /\ Patient /\ ~ Clears /\ SnapHandlers = {}
    /\ Faults \subseteq {"statement", "threadProcess"}

\* Requests of one user do not overlap, so what a handler has loaded is still
\* there when it writes.
RequestsDoNotOverlap ==
    /\ \A g, h \in InFlight : req[g].user = req[h].user => g = h
    /\ \A h \in InFlight :
          /\ req[h].op = "register" => users[req[h].user] = None
          /\ req[h].op = "update" /\ pc[h] # "load" => loaded[h] = users[req[h].user]

\* The unique index: no two users have a name, or are about to get it.
NamesApart ==
    /\ \A u, v \in Users :
          u # v /\ users[u] # None /\ users[v] # None => users[u].name # users[v].name
    /\ \A h \in Open, v \in Users :
          v # req[h].user /\ users[v] # None => users[v].name # InMemory(h).name
    /\ \A g, h \in Open : g # h => InMemory(g).name # InMemory(h).name

\* What the snapshot of u will be once the first n events are handled: the
\* profile of the last of them about u, or what it is now; no profile, or one.
Shown(u, n) ==
    {queue[i].profile : i \in {i \in 1..n : /\ queue[i].user = u
                                            /\ \A j \in (i + 1)..n : queue[j].user # u}}
    \cup {p \in {snaps[u]} \ {None} : \A i \in 1..n : queue[i].user # u}

\* However far the consumer has got, no two snapshots have the same name; and when
\* it is through, they are the profiles.
EventsInTurn ==
    /\ \A n \in 0..Len(queue), u, v \in Users :
          u # v => \A p \in Shown(u, n), q \in Shown(v, n) : p.name # q.name
    /\ \A u \in Users, n \in {Len(queue)} : \A p \in Shown(u, n) : p = Announced(u)

\* Who has an avatar keeps one: an event without an avatar leaves the snapshot's.
Pictured(p) == p # None /\ p.avatar # None
AvatarsStay ==
    \A u \in Users :
        /\ snaps[u] # None => Announced(u) # None
        /\ Pictured(snaps[u]) => Pictured(Announced(u))
        /\ \A i \in 1..Len(queue) :
              queue[i].user = u =>
                 /\ Announced(u) # None
                 /\ Pictured(snaps[u]) => Pictured(queue[i].profile)
                 /\ Pictured(queue[i].profile) =>
                       /\ Pictured(Announced(u))
                       /\ \A j \in i..Len(queue) :
                             queue[j].user = u => Pictured(queue[j].profile)

\* The consumer writes what the first event says to the row it has read.
ConsumerInStep ==
    LET e == Head(queue) IN
    /\ wpc[Consumer] \in {"select", "flush", "commit"} =>
          /\ job[Consumer].name = e.profile.name
          /\ job[Consumer].avatar = e.profile.avatar
    /\ wpc[Consumer] \in {"flush", "commit"} => found[Consumer] = snaps[e.user]
    /\ wpc[Consumer] = "ack" => snaps[e.user] = e.profile

OrderedInv ==
    /\ RequestsDoNotOverlap
    /\ NamesApart
    /\ EventsInTurn
    /\ AvatarsStay
    /\ ConsumerInStep
    /\ lost = {}
=============================================================================
