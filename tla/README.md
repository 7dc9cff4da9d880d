# A verification of Threadify's backend

Threadify is a discussion platform of four Python services behind an nginx
gateway: users, threads, notifications and a websocket gateway.  This directory
holds TLA+ models of its logic, the TLC runs that check them on small instances
and the TLAPS proofs of what holds on all instances.

Contents: [the system](#the-system), [modules](#modules),
[how code becomes a model](#how-code-becomes-a-model), [runs](#runs),
[what the runs found](#what-the-runs-found), [proofs](#proofs),
[plan](#plan), [not modelled](#not-modelled).

## The system

| Component | State | Operations | Correct when |
|---|---|---|---|
| **Likes** (thread service: `like_service`, `like_repo`) | rows of `thread_likes`, `comment_likes` (unique per user and entity); the counter `like_count` on the entity | like, unlike, of threads and comments | the counter is the number of rows; nobody counts twice; racing duplicates get a 409; events show the committed count; only ACTIVE entities are liked |
| **Discussion** (`comment_service`, `thread_service` and their repositories) | threads, comments (a tree by `parent_comment_id`), `status` ACTIVE / USER_DELETED / MOD_REMOVED, counters `comment_count` and `reply_count` | create, edit, soft-delete, list | counters are the numbers of listed comments; removed content is not shown; no comments on what is deleted; every request ends |
| **Tags** (`tag_repo`, `create_thread`, `update_thread`) | `tags` (unique name), `thread_tags` | get or create while a thread is created or edited | a thread has the tags its author asked for, and every client is told them |
| **Cursor pages** (`list_*` of the repositories) | none; the cursor is the last `created_at` | next page | reading all pages shows every item once |
| **The page of a thread** (`list_comments`, the comment events) | what a client shows of a thread | join the room, read the list, apply events | no comment is missing, nothing deleted is legible |
| **User snapshots** (thread service: `consumer/worker`, `user_snap_repo`, `api/v1/user_snaps`) | `user_snaps`, a copy of user names and avatars; a durable RabbitMQ queue | upsert per `user.registered` / `user.updated` event, and by the owner over HTTP | the copy converges to the user service's data |
| **Authentication** (user service: `auth_service`, `token_repo`) | `users`, `refresh_tokens` with a `revoked` flag | register, login, refresh (rotate), logout, logout all | a refresh token is used once; a session that a revocation finds is over |
| **Accounts** (`user_service`) | users' roles, passwords, `deleted_at` | change profile, password, role; ban; delete | those ends of access revoke the tokens |
| **Notifications** (notification service) | `notifications`; a durable queue | consume an event (rows per target, then realtime push), list, mark read | every event becomes one notification per target |
| **Presence** (websocket gateway: `rooms`, `socket_manager`) | sockets in rooms (in memory); sid, online flag, rooms, viewers (in Redis, with TTL) | connect, disconnect, join, leave | Redis shows who is connected and who views what |
| **Dispatch** (websocket gateway: `consumers/rabbitmq`) | a queue | event to room | clients see events in the order they were published |
| **Sessions** (`core/database.get_db` of each service) | one transaction per request | open; commit; roll back | a request takes effect as a whole or not at all |

How they interact.  The gateway routes HTTP to the services; each keeps its own
PostgreSQL database.  The user service announces accounts on `user_exchange`,
which feeds the user snapshots.  The thread service publishes notification
events, which feed the notification service, and realtime events, which feed
the websocket gateway's dispatch; so does the notification service.  There are
no calls between the services.  An event is published inside the handler, before
its transaction commits, and a broker failure is only logged.

What is hard about it:

* **Interleavings.**  A service is one process with one event loop, but a handler
  gives it up at every `await`, so handlers interleave between any two
  statements.  Transactions are READ COMMITTED: what a handler has read may be
  stale when it writes.
* **Order of reply, event and commit.**  FastAPI leaves a dependency with `yield`
  after it has sent the response, so `get_db` commits last, after the events and
  the reply.  Either may announce what then fails to be committed, and a client's
  next request may overtake the commit of its last.
* **Derived data.**  Counters, user snapshots and the presence keys are copies kept
  up by hand.
* **Locks.**  A row that a transaction has updated stays locked until the commit;
  handlers lock up to three rows and can deadlock.
* **Delivery.**  Consumers acknowledge a message after handling it, and also when
  handling it fails: redelivered after a crash, lost after an error.

`PROJECT.json` lists the components with their source files, and the hazards line by
line with the properties that guard against each.

## Modules

| Module | What it is |
|---|---|
| `Likes` | the four like and unlike handlers, statement by statement |
| `LikesProofs` | its theorems and their proofs |
| `MCLikes` | its instances for TLC: the symmetry of users and attempts |
| `Discussion` | comments created, edited and deleted, threads edited and deleted; row locks and deadlocks |
| `DiscussionProofs` | its theorems and their proofs |
| `MCDiscussion` | its instances for TLC: which requests get sent |
| `Tags` | threads created and edited with their tags; new tags meet at the unique index |
| `TagsProofs` | its theorems and their proofs |
| `MCTags` | its instance for TLC: which requests get sent |
| `CursorPages` | the four lists, read page by page while items come and go |
| `ThreadPage` | the page of a thread: `CursorPages` composed with the events of comments, the gateway's consumer and the room |
| `ThreadPageProofs` | theorems about both and their proofs; a `ThreadPage` is a reader of `CursorPages` |
| `MCThreadPage` | their instance for TLC: the order of the list, symmetry |
| `UserSnapSync` | names and avatars from the user service's handlers through the durable queue to the thread service's snapshots |
| `OrderedCopy` | abstract: a copy that shows a source's values, of whatever keys, in the one order in which the source took them; `UserSnapSync` implements it |
| `UserSnapProofs` | theorems about `UserSnapSync` and their proofs |
| `MCUserSnapSync` | its instances for TLC: symmetry |
| `Sessions` | login, rotation, logout and revocation of refresh tokens, with the cookies of devices |
| `Revocations` | `Sessions` with the history that it takes to say when a session is over |
| `SessionsProofs` | theorems about both and their proofs |
| `MCSessions` | their instances for TLC: whose devices they are, symmetry |
| `Notifications` | the notification service: events become rows, rows become pushes, users mark rows as read |
| `Delivery` | `Notifications` composed with the gateway's consumer, the sockets and the pages behind them |
| `DeliveryProofs` | theorems about both and their proofs |
| `MCDelivery` | their instance for TLC: the events, who marks what, symmetry |
| `Presence` | the gateway's sockets and thread rooms, and their shadow in Redis |
| `PresenceProofs` | its theorems and their proofs |
| `MCPresence` | its instances for TLC: whose sockets they are |

### Likes

| Variable | In the code |
|---|---|
| `status` | `threads.status_id`, `comments.status_id`, as far as likes care |
| `likes` | the committed rows of the like tables, as pairs of user and entity |
| `likeCount`, `newCount` | the `like_count` column: committed, and as the transaction holding the row has written it |
| `rowLock` | the row lock that `UPDATE ... SET like_count` takes, to the end of the transaction |
| `wrote` | the like row a transaction has inserted or deleted and not committed |
| `pc` | the statement at which a handler stands |
| `shown` | the count in the last realtime event: what every client displays |

A request `r` goes through `Start` (route entered), `LoadEntity`
(`get_*_by_id` and the status check), `CheckLiked` (`has_user_liked_*`),
`InsertLike` or `DeleteLike`, `UpdateCount`, `PublishCount` (`db.refresh` and
`publish_realtime`), `Respond` and `Commit`.  `LikeThread`, `UnlikeThread`,
`LikeComment` and `UnlikeComment` say which steps make up which handler.  An INSERT
waits for open transactions on the same key (unique index); `DELETE` waits for an
open DELETE of the row and afterwards finds it gone (`Overtaken`) or back
(`DeleteResumes`).  The failures are `StatementFails`, `CommitFails` and
`ProcessDies`; a broker failure is the second disjunct of `PublishCount`.

Two constants say what the environment does.  `Faults` is the set of failures that may
happen.  `ClientWaits` says what a client awaits before it sends a user's next request
about the same entity: `"nothing"` (two tabs, a double click), `"reply"` (an
ordinary client) or `"commit"` (stronger than any client can be sure of, because
nothing tells it of the commit; it separates the races of one user from the rest).

### Discussion

`status`, `count` and their uncommitted versions `newStatus`, `newCount` are the columns of
`threads` and `comments` (`count` is `comment_count` of a thread, `reply_count` of a
comment), `lock` the row locks.  `threadOf` and `parentOf` are a comment's foreign keys, set
when the request that creates it names them; a comment's status is `"NONE"` until that
request commits.  `seen` is the status a handler has loaded, because the ORM writes
`status_id` only if it differs from the loaded one.  `told` is the state that the last realtime
event about an entity makes clients display.

The steps are the statements again: `LoadThreadOfComment`, `LoadParent`,
`InsertComment` for `create_comment`; `LoadEntity`, then `WriteContent` or
`WriteStatus` for edits and deletions; `UpdateThreadCount` and
`UpdateParentCount`; `Publish`; `Commit`.  `CreateComment`, `EditComment`,
`DeleteComment`, `EditThread` and `DeleteThread` put them together.
`MayWrite` is the row lock; when transactions wait for each other in a `Ring`,
`DeadlockVictim` is PostgreSQL rolling one back.

`Requests` is the set of requests that can be sent, chosen in `MCDiscussion`: an
operation, an entity, the caller's role (author, moderator, other).  `Careful` clients
offer no action on what the last event showed as removed, and wait for one change of an
entity before they start the next.

### Tags

| Variable | In the code |
|---|---|
| `exists`, `tagNames`, `wears` | the committed rows of `threads`, `tags`, `thread_tags` |
| `newWears`, `lock` | a thread's tags as its writer has written them; the lock of its row, from the INSERT or UPDATE on |
| `owner` | the uncommitted INSERT of a tag, at which others with the same name wait |
| `loaded` | `thread.tags` as `get_thread_by_id` has loaded it |
| `missing`, `next` | what `get_or_create_tags` has not found and will insert, and the one it inserts next |
| `told` | the tags in the last `realtime.thread.updated` |
| `overtaken`, `misled` | ghosts: edits whose thread was changed after they had loaded it; threads whose last event says something else than the rows |

`InsertThread` or `LoadThread` and `UpdateThread`; `FindTags`, `InsertTag` once for each new name, `WearTags`; `Publish`; `Commit`.
`update_thread` always writes `updated_at`, so it takes the row before the tags: edits of one thread follow each other there, but each goes on with the tags it has
loaded.  `thread.tags = tags` makes SQLAlchemy delete and insert the difference (`Wearing`), and so an edit that was overtaken
mixes its tags with those of the other, or inserts a pair twice and fails.  The names go through a Python
set, whose order is anybody's guess: `GoesOn` takes any.

### CursorPages and ThreadPage

| Variable | In the code |
|---|---|
| `row` | an item: not there, inserted, listed (its transaction committed), hidden, listed again |
| `createdAt` | `created_at`, which the INSERT takes from the clock |
| `pages`, `cursor` | a reader's pages so far; `next_cursor` if the last one `has_more` |
| `stable` | history: what has been listed ever since the reader began |
| `masked`, `deleting` | comments their authors have deleted; what a transaction in flight makes of a comment |
| `told`, `queue`, `lost` | comments whose creation has been published; the events on their way to the gateway; those that got lost |
| `inRoom` | readers whose socket is in `thread:{id}` |
| `clear`, `known` | external: what the page of a reader shows in clear, and what it has got at all |
| `missed` | history: events that had passed when a page was read, about what had not been committed |

A list has no state of its own.  A page (`FirstPage`, `NextPage`) is the first `Limit` items of those that match, in the order of `created_at`
(`FirstOf`; which of several that tie is up to PostgreSQL), and the next one begins strictly behind the last item (`Rest`).  In between items are
inserted, committed, rolled back, hidden and listed again, where `Hide` and `Relist` stand for a change of status, tag or read mark.

`ThreadPage` takes the two ways in which comments reach a screen together: the list, and the events of `create_comment` and
`delete_comment`, which leave before the commit, wait in the gateway's queue and are emitted to the room
(`HandleMessage`).  The page itself is not part of the repository: it joins the room and then reads the list, which is the
order that can work.  Deletions by authors mask a comment (`_enrich_comments`), those by moderators take it out of
the list, and one that is masked afterwards comes back.

### UserSnapSync

| Variable | In the code |
|---|---|
| `users` | the committed rows of `users`: name and avatar |
| `pc`, `req`, `loaded` | handlers of `POST /auth/signup` and `PATCH /users/me`: next statement, body, the row `get_current_user` loaded |
| `queue` | the durable queue `threadify.user_snaps`, unacknowledged events included |
| `snaps` | the committed rows of `user_snap` |
| `wpc`, `job`, `found` | the writers of snapshots (the consumer task, handlers of `/user-snaps`): next statement, what to write, the row `get_user_snap` found |
| `lost` | ghost: users of whom an event got lost |

A handler goes through `LoadUser`, `CheckUsername`, `WriteUser` (the flush),
`PublishUser` and `CommitUser`.  Two things of the ORM matter: the event is made from the user object
in memory (`InMemory`), which may be older than the row, and the UPDATE writes only
what differs from what was loaded (`Changed`).  A writer goes through `SelectSnap`,
`FlushSnap` and `CommitSnap`; the consumer takes the first event (`Receive`) before and
acknowledges it (`Acknowledge`) after.  It is acknowledged whatever happens, since
`_handle_message` catches every exception (`UpsertFails`), unless the process dies, when the broker
redelivers it in its place (`ThreadProcessDies`), or the service is shut down, when the cancelled
consumer rejects it (`ShutDown`).

`Patient` says whether a user waits for the commit of one update before the next, `Clears`
whether users take their avatars away, `Faults` what may fail.  `MaxQueue` bounds the queue
together with the handlers in flight.

Simplifications: the waits for a row and for a name are one wait, so two users who swap names do
not deadlock (PostgreSQL would roll one back, which is `UserStatementFails`).  Updates of
other fields publish nothing, so they are left out, as are conflicts about email addresses, which end
like those about names.  Deleted and banned users keep their snapshots: no event says so,
and nothing calls `delete_user_snap`, although `user_snap_repo` says that it removes the row of a user who is deleted.  The administrator that start-up
creates has no event either and is not among the `Users`.  The queue exists: an event published before
the thread service first declares it is lost like one that the broker refuses.

### Sessions

| Variable | In the code |
|---|---|
| `rows` | `refresh_tokens.revoked` of the committed rows |
| `issuedTo` | the device to which a token was sent; its user is `refresh_tokens.user_id` |
| `session` | not in the code: the token of the login that a token descends from |
| `expired` | tokens past `expires_at` |
| `deleted` | users with `users.deleted` |
| `cookie` | the refresh token cookie of each device |
| `pc`, `req` | handlers: next statement, request |
| `found`, `revoking`, `issued` | rows a revoking UPDATE has found; rows revoked and inserted by a transaction that has not committed |
| `ended` | ghost: the reasons for which a device may lose its session |

A login goes through `LoadUser`, `InsertToken`, `Reply` and `Commit`; a refresh through
`LoadToken`, `LoadUser`, `RevokeToken`, `InsertToken`, `Reply` and `Commit`; a logout through
`LoadToken`, `RevokeToken`, `Reply` and `Commit`.  A password change, deletion or ban goes through
`LoadUser`, `WriteUser` and the UPDATE of `revoke_all_user_tokens`, then `Reply` and `Commit`.  That
UPDATE takes several rows and may have to wait at each: `FindTokens` finds the rows that are committed and valid when it
starts, `RevokeNext` takes one of them, in any order, and `AllRevoked` is its end.

A refusal (`Refuse`) leaves the cookie as it is.  Passwords are abstracted to a check that may turn out either way (`UserRefused`), and access
tokens to the fact that any device may send what needs one.  `DeviceWaits` says whether a device
awaits the commit of one request before it sends the next, as a browser with one page does
nearly always; `Faults` are lost replies, failing statements and commits, and crashes.  `Tokens` bounds
the tokens that can be generated; a request that issues one starts only if one is left for it.  A
token that was sent and not committed is not generated again, as a UUID would not be.

`Revocations` adds three history variables, and no step: `ending`, the sessions of which a revocation has found a good token, less
those that a refresh is past its check of; `over`, the sessions that a revocation has ended by its commit; `late`, the tokens that
were committed when their user was deleted already.  A revocation is not complete: `revoke_all_user_tokens` revokes what is committed
when its UPDATE starts, and a token that a login or refresh in flight commits afterwards is good
(`AllTokensAreRevoked`, which TLC refutes with `SessionsSurvivor.cfg`).  What holds is `FoundTokensAreRevoked`, that nothing found is good after the commit;
`RevokedSessionsStayOver`, that a session which is found and not being refreshed never comes back, whatever happens after the commit; and
`DeletedGetOneTokenMore`, that after a deletion or ban the request that was past the check of its user
issues the last token of its session, because `refresh_tokens` loads the user again.

### Notifications and Delivery

| Variable | In the code |
|---|---|
| `announced`, `queue` | events published on `notification_exchange`; the durable queue `threadify.notifications`, the event in hand included |
| `delivery` | how often an event has been delivered, which tells the rows of one delivery from those of another (in the code: their ids) |
| `wpc`, `batch` | `_handle_message`: next statement; the rows inserted and not committed, later those committed and not pushed |
| `rows`, `read` | the committed rows of `notifications`, and those with `is_read` |
| `realtime` | the durable queue `threadify.realtime`, as far as notifications go |
| `pc`, `req`, `found`, `marked` | handlers of the two PATCH routes: next statement, request, the rows that match, the rows written and not committed |
| `conn`, `inRoom` | sockets, and those that are in the room of their user |
| `loaded`, `shown` | pages, which are outside: whether they have loaded the list, what they show |
| `gpc` | the gateway's `_handle_message` |
| `dropped`, `unpushed` | ghosts: events whose handling failed, rows whose push got lost |

The consumer takes an event (`Receive`), inserts a row for each target (`InsertRow`), commits
(`CommitRows`), pushes the rows (`PublishNext`) and acknowledges (`Acknowledge`).  An error before the commit rolls back
and the event is acknowledged all the same (`HandlingFails`); an error of a push is swallowed in `publish_realtime`.  After a crash
the broker delivers the event again (`ProcessDies`, at most `MaxDeliveries` times); a shutdown cancels the consumer
and rejects it (`ShutDown`).  The gateway's consumer emits to the user's room (`Emit`), swallows what its handler
raises (`EmitFails`) and acknowledges (`AcknowledgePush`).

`MarkOne` and `MarkAll` begin with what their first statement sees, `MarkFound` has the row locks and writes, `CommitMarks` is
`get_db`'s commit.  `mark_all_read` evaluates its WHERE again for rows it had to wait for; `mark_read` writes by key.
The page connects its socket (`Connect`, `Accept`), then loads the list (`LoadList`).

Simplifications: what an UPDATE finds it locks at once, so two requests that lock the same rows in opposite orders do not deadlock
(PostgreSQL would roll one back, which is `RequestFails`).  `get_notification_by_id` belongs to the arrival of its request.  The list
is one page long.  Only the first delivery of a push that the gateway repeats changes anything, because pages are sets.

### Presence

| Variable | In the code |
|---|---|
| `conn`, `inThread` | the Socket.IO server's sockets and thread rooms |
| `pc`, `found` | the tasks of socket events: next step; the rooms that `unregister_user` has read |
| `sid` | `user:{id}:sid`; `user:{id}:online` always exists with it |
| `rooms`, `viewers` | `user:{id}:rooms`, `thread:{id}:viewers` |
| `ttl` | the time to live of each key, in halves |
| `orderly` | ghost: users to whom things happen one at a time |

python-socketio runs the handler of each event as a task of its own, so the tasks of one socket interleave as well.
`connect` is `RegisterUser` and `Accept`; `disconnect` is `ReadRooms` and `UnregisterUser` (two calls of Redis); `join_thread` is `AddViewer`,
`EnterRoom` and `RefreshTtl`; `leave_thread` is `RemoveViewer`, `LeaveRoom` and `RefreshTtl`.  Each pipeline is a MULTI/EXEC,
hence one step.  `Expire` is what the commands of a step do to the keys' times; `HalfTtl` lets half of the 30 minutes
pass.  A call of Redis that raises ends its task (`RedisFails`), and the gateway may die (`GatewayDies`).

Redis can agree with the server only about users to whom things happen one at a time, and
`orderly` says who they are: it drops a user when a second task or a second socket begins beside the first, when a call fails, when a key of theirs
expires, and when the gateway dies under them.  `PresenceIsExact` is about those who remain, at the times when no task
of theirs is under way; they share threads with users who are not orderly.

About the others there is less to say.  `IdleAreForgotten` is what the expiry gives them: a user for whom no task runs any more goes offline, and a thread that nobody
joins any more ends without viewers.  It gives no more than that, since `join_thread_room` renews the whole set `thread:{id}:viewers`: while anybody
goes on joining the thread, a viewer that a race has left there stays.  `ViewersAreViewing` and `ConnectedAreOnline` say without exceptions what the
two keys are for, and TLC refutes both.
`InMidst` says for each point of each task what the server and Redis show in the midst of it; with it `PresenceInv` is inductive.

## How code becomes a model

* One action per awaited statement; what runs between two awaits cannot be interrupted.
  SELECTs whose results only feed an event or a reply belong to the step of
  the event (`Publish`); `StatementFails` covers their failure.
* A transaction's writes are invisible to others until its `Commit`; each
  UPDATE sees the committed value at the time it gets the row lock (READ COMMITTED).
* The foreign-key checks of an INSERT lock the referenced rows FOR KEY SHARE, which
  none of these updates conflicts with; they are left out.
* Content, titles, names and timestamps are left out; whether content is shown in clear is
  kept, as `told`.
* `db.close()` after an `AppException` rolls back like any error (SQLAlchemy discards an
  uncommitted transaction), so every reply with an error is `RollBack`.
* PostgreSQL, the broker and the operating system are external: the rows of `map` in
  `PROJECT.json` that say so are modelled from how the code relies on them.
* Operators that begin a comment with "Mutant" are not part of any specification.  Each is
  a plausible bug; substituted for the definition below it, it makes TLC refute the
  property named in `PROJECT.json`, which shows that the run would notice.

## Runs

Passing runs, each with the `MC` module of its subject:

| Run | Shows | Bounds |
|---|---|---|
| `LikesRaces` | `CountNeverExceedsLikes`, `LikesInv`: whatever races and fails, a counter never claims a like that is not there; `DeletedIsFrozen`: what is deleted keeps its likes | 2 users, 1 comment, each request twice, 3 in flight, faults: lost events, failing commits, crashes |
| `LikesPatient` | if a user's requests about an entity do not overlap: `CountMatchesLikes`, the counter is exact; `BroadcastIsCurrent`, events leave in the order of the commits; `RequestsEnd` | 3 users, 1 thread, 3 in flight, failing statements |
| `DiscussionCareful` | `CountsMatchListed`, `RemovedIsNotShown` | 1 thread, 2 comments, every request, 2 in flight, all faults but lost events |
| `DiscussionProgress` | `CountsNeverExceedListed`, `DiscussionInv`, `DeadlocksNeedAParentRemoval`, `RequestsEnd` | 1 thread, 2 comments, creations and deletions, 2 in flight, all faults |
| `Tags` | `EditTakesEffect`, `ToldTagsAreCurrent`, `RequestsEnd`, `TagsInv` | 2 threads, 2 names, a creation and three edits, 2 in flight, all faults |
| `ThreadPage` | `NothingIsSkipped`, `PageMissesNothing`, `DeletedIsNotLegible`, `ThreadPageInv` | 2 comments, 1 reader, pages of 1, 2 times, queue of 2, all faults |
| `SnapRaces` | `AuthorsAreKnown`; `EventsAreHandled` | 1 user, 1 name, 1 avatar, 2 handlers, 1 snapshot handler, queue of 2, all faults |
| `SnapOrdered` | `SnapsAreCurrent`, `MentionsResolve`, `SnapsFollowProfiles` (the refinement of `OrderedCopy`) | 2 users, 3 names, 1 avatar, 2 handlers, queue of 3, patient users, failing statements and crashes of the thread service |
| `Sessions` | `SessionHasOneToken`, `SessionsAreKept`, `FoundTokensAreRevoked`, `RevokedSessionsStayOver`, `DeletedGetOneTokenMore`, `SomeoneGoesOn`, `SessionsInv` | 1 user, 2 devices, 3 tokens, 2 handlers, devices that wait, all faults |
| `Delivery` | `AllTargetsAlike`, `EveryTargetIsNotified`, `PushedIsCommitted`, `NothingFallsBetween`, `MarkAllLeavesNothing`, `DeliveryInv` | 2 users, an event for both and one for nobody, each delivered at most twice, 1 socket, 2 requests in flight, all faults |
| `Presence` | `PresenceIsExact`, `PresenceInv` | 2 users, with 2 sockets and 1, 1 thread, 2 tasks in flight, all faults and the passing of time |

Some faults are left out where they matter.  An event
that is lost, or sent for a commit that then fails, leaves clients with an old or an imaginary
count, so `BroadcastIsCurrent` is checked (in `LikesPatient`) and proved without those; `CountMatchesLikes` is proved with every fault.  A lost removal event makes a moderator
remove a comment twice, so `DiscussionCareful` has none.

**Why the bounds are enough.**  A race about a like needs two requests for one row, and a third
for the row's lock to be contended by somebody else: two users with two attempts each and three
requests in flight give that.  More entities add nothing, since no like request touches two.
A reply and its parent are two comments; a deadlock takes two transactions (three transactions,
three comments and two threads, which `create_comment` allows to be mixed, were also tried, and take
minutes).
Requests repeat for ever: none of these runs bounds their number, and the counters are bounded by
what they count.  `DiscussionProgress` uses a VIEW
without `told`, which no action reads there.  In `DiscussionCareful` the system may run out of things to do (everything is removed and no
comment is left to create), so deadlock is not checked.
What can go wrong about one user's snapshot needs only that user, two handlers for updates that
overlap, and a second writer of the snapshot beside the consumer (`SnapRaces`; with one more user and
name the invariant was checked on 18 million states and not to the end; the theorem covers the rest).
A name that changes hands needs two users, and three names let both of them move at once
(`SnapOrdered`).  A publish or commit that fails leaves a wrong snapshot by design of the code, so
`SnapOrdered` has neither; nor does it have the owner's POST, which may write anything.
Two requests make every race about tokens: a rotation beside a revocation, two revocations, or
a login beside either.  The two devices of `Sessions` give a revocation two rows to take, and three
tokens let one of them rotate meanwhile.  No operation reaches the tokens of two users, so one is enough.
A mention of two users is the smallest event that can be handled by halves, a second delivery the smallest
redelivery, and two requests are a `mark_all_read` beside one that is marking a row of its.  `DeliveryInv` is inductive and proved; a second
event with rows, or a second socket, was too much for TLC and is left to the proof.  In `Presence` one user has two sockets, for the races of reconnecting, and shares the
thread with another; two tasks overlap in every way that two can.  In both runs the system may have nothing left to do (every event
handled, every socket closed), so deadlock is not checked.
In `Tags` two names let two requests insert them in opposite orders, a creation and an edit of different threads compete for them, and three edits of
one thread (both tags, one, none given) overtake each other; with three in flight it was checked as well.  Nothing in the run deletes a thread, and requests
whose thread is there cannot create it again, so deadlock is not checked.
In `ThreadPage` a page that holds one of two comments is full, and two times let them tie or be committed in the other order than they were
created.  The order is newest first and no comment is deleted by its author twice (`Repeated`); the oldest first, deletions that repeat, more
readers and pages of any size are left to the proof of the same properties.

**Fairness.**  `FairSpec` asks strong fairness of each request's `Handler`: if it can step again and
again it does.  The event loop runs ready callbacks in the order they became ready, and
PostgreSQL queues the waiters of a row lock, so nobody is overtaken for ever.  Weak fairness would
not do: a waiter's step is disabled whenever another transaction gets the lock first.  Nothing is
assumed of `Start` and the failures; of `DeadlockVictim` weak fairness, which is
`deadlock_timeout`.  In `UserSnapSync` the consumer's own steps get weak fairness, and strong fairness
where it waits for a row; restarts come to an end (`<>[]` in its `FairSpec`), for a service
that restarts for ever handles nothing.  Nothing is assumed of the user service.

`Tags` has the fairness of `Discussion`: strong for each handler, weak for the deadlock detector.

## What the runs found

The run below refutes what the code's documentation says; the quotation and lines are in
`PROJECT.json`.

| Run | Property | What happens |
|---|---|---|
| `LikesDoubleUnlike` | `CountMatchesLikes` | A user unlikes, gets the reply, and unlikes again before the first transaction commits.  The second finds the row in `has_user_liked_*`, deletes nothing, and decrements.  With a like of somebody else the counter is now too low, for good. |

More configurations show what happens where the assumptions of a run do not hold, or what a race leaves behind.  They belong to the
same `MC` modules as the runs and are not among the runs of `PROJECT.json`; TLC finds each property violated in a few seconds.

| Configuration | Property | What happens | What the code says |
|---|---|---|---|
| `DiscussionRemovedTwice` | `CountsMatchListed` | A moderator removes a comment twice, and `delete_comment`, which does not look at the status the comment has, counts it down twice. | `comment_service.py:253`: "Only decrement counters for MOD_REMOVED — the comment disappears from all listings" |
| `DiscussionEditRemoved` | `RemovedIsNotShown` | An author edits a thread that a moderator has removed, and its content is broadcast to everyone. | `thread_service.py:209`: "hidden from regular users, visible to mods" |
| `SnapOverlap` | `SnapsAreCurrent` | Of two overlapping profile updates the later event carries what its handler had loaded, and the snapshot loses the earlier update. | `worker.py:12`: "so that thread and comment responses always carry up-to-date author info" |
| `SnapAvatar` | `SnapsAreCurrent` | An avatar that a user takes away stays in the snapshot: the upsert takes the event's `null` for "not provided". | `worker.py:10`: "username / avatar changed; update existing snap" |
| `SessionsSurvivor` | `AllTokensAreRevoked` | A login or refresh commits its token when `revoke_all_user_tokens` has looked already: the token is good after the password change. | `user_service.py:69`: "all tokens revoked" |
| `SessionsOverlap` | `SessionHasOneToken` | A device refreshes again before the first commit: both requests find the token good, and each issues a successor. | `auth_service.py:130`: "Then atomically revokes the old token and creates a replacement" |
| `PresenceGhost` | `ViewersAreViewing` | A join between the two calls of Redis of a disconnect leaves a viewer who is not there. | `socket_manager.py:12`: "user IDs currently viewing this thread" |
| `PresenceReconnect` | `ConnectedAreOnline` | The disconnect of a user's old socket wipes what a newer one has registered. | `socket_manager.py:9`: "socket ID of the connected user" |
| `PresenceHeartbeat` | `ConnectedAreOnline` | Only joins and leaves refresh the keys, not heartbeats: a user who stays on a page for 30 minutes goes offline. | `socket_manager.py:3`: "a 30-minute TTL that is refreshed by client heartbeats" |

`PresenceForgets` is the one of them that TLC finds no error in (127,711 states): `IdleAreForgotten`, under `TimedSpec`, which asks only that time
passes (`WF` of `HalfTtl`) and nothing of the tasks, of clients or of faults.

More is visible in the models:

* a crash after the consumer's commit makes the redelivery notify every target again;
* a push says `is_read = false` although the row may have been marked as read since;
* two likes of a thread race, and the loser's IntegrityError is a 500 (`like_comment` makes it a 409);
* an author deletes what a moderator has removed, and as USER_DELETED it is listed again (masked);
* replies of a removed comment can still be listed;
* a thread deleted between the status check and the INSERT still gets its like or comment;
* a commit that fails after the event leaves clients, and snapshots, with what never was;
* of two overlapping edits of a thread's tags, the second writes its difference to tags that are gone: the thread may end with tags that neither
  named, and where both add the same tag the second is a 500 (`EditTakesEffect` without `overtaken`);
* an edit of the title that waited for one of the tags tells every client the old tags (`ToldTagsAreCurrent` without `misled`);
* a thread whose new tag somebody else commits first is a 500, and two requests with the same two new tags may deadlock;
* items that tie with the last one of a page are on no page, and items committed late fall behind a cursor that has passed;
* a page that is read between the event of a deletion and its commit goes on showing the content, and one that joins between the
  event of a comment and its commit may never show it;
* a reply lost after a rotation leaves its device with a revoked token.

## Proofs

`LikesProofs` proves, for any finite set of users, any threads, comments and attempts, any number in
flight and any faults (`LikesAssumption` is all that is assumed):

* `LikesInvariant`: `Spec => []LikesInv`, which contains the type invariant;
* `CountBound`: `Spec => []CountNeverExceedsLikes`;
* `CountExact`: if clients wait for the commit, `Spec => []CountMatchesLikes`;
* `BroadcastsAreCurrent`: if no event, commit or process fails, `Spec => []BroadcastIsCurrent`;
* `DeletedStaysFrozen`: `Spec => DeletedIsFrozen`.

The argument.  `CountNeverExceedsLikes` is not inductive: a commit publishes a counter computed
earlier, for a row written earlier still.  `LikesInv` carries what connects the three.
`RowLockHeld`: from `UpdateCount` to the end a request holds the entity's row, so no other counter is
committed meanwhile (`CountedFromCommitted`).  `UncommittedRows`: a request that likes and is past
its INSERT has inserted a row that is not committed, and one that has deleted a row has
deleted a committed one.  `OneWriterPerRow`: no two requests have inserted (or deleted) the same
row, which is what the unique index gives.  So a commit adds one to the counter and a new row to
the set, or takes one from the counter and at most one from the set.  For exactness, `PatientInv`
adds that requests about a row do not overlap (`OneRequestPerRow`), so what a
request has checked is still true when it writes (`CheckedStillHolds`).  For `BroadcastsAreCurrent`, what has been
published while a row is locked is what its holder has counted, and the row is locked until the commit.  Each action has a
lemma; `NextLikesInv` and `NextPatient` combine them, and `PTL` does the temporal step.

`DiscussionProofs` proves, for any threads, any finite set of comments, any requests and any
faults, careful clients or not (`DiscussionAssumption`):

* `DiscussionInvariant`: `Spec => []DiscussionInv`, which contains the type invariant;
* `ListedBound`: `Spec => []CountsNeverExceedListed`;
* `DeadlocksAreAboutParents`: `Spec => []DeadlocksNeedAParentRemoval`;

and of careful clients, if the broker takes every event (`Careful`, `"publish" \notin Faults`; whatever else may fail):

* `CarefulInvariant`: `Spec => []CarefulInv`;
* `CountsAreExact`: `Spec => []CountsMatchListed`;
* `RemovedStaysHidden`: `Spec => []RemovedIsNotShown`.

The argument.  A commit publishes up to three rows at once: the comment's status and two counters.
The bound survives because the three belong together, which takes four facts.
`LocksHeld`: a request that counts holds exactly the rows it has written, so nobody else has
changed their counters since.  `NewValues`: what it has written there is the committed value,
incremented or decremented.  `PlacesHeld`: the comment to be created has a thread and no other
request creates it, so its commit adds one to what the thread counts.  `ParentsExist`: the rows
named by a comment were there before it, so no request writes the row of a comment that
somebody else is still inserting.  A removal takes one comment from each count and one
from each counter that is not zero; the author's deletion changes neither.  `MovesOn` and
`TakesRow` gather what the steps that only move on, and those that write one row, have
in common; `MoveOn`, `TakeRow` and `RollBackKeeps` prove the invariant for all of their kind.
Deadlocks need no induction of their own: `LocksHeld` says of everyone in a ring (`RingMembers`) which rows it holds and which it waits for; only the
removal of a comment takes one before its thread's row, and everybody else holds a thread's row before a parent's.

The handlers do not look at the status they change, so that the counts are exact is up to the clients, who act on what they have been told.
`RemovalsAreTold` says that a removal is told before it is committed; a client who has been told nothing of the kind and
has the entity to itself (`AloneOnEntity`) therefore changes something that is not removed, and stays the only one who
does until its commit (`ChangesApply`).  So each deletion takes away what was listed, once.  An event that the broker refuses breaks the first
link of this chain, which is why the hypothesis is there.

`UserSnapProofs` proves, for any users, names, avatars and handlers, a queue of any length, any faults,
patient users or not (`UserSnapAssumption`, `ProfileAssumption`):

* `UserSnapInvariant`: `Spec => []UserSnapInv`, which contains the type invariant;
* `AuthorsKnown`: `Spec => []AuthorsAreKnown`;

and in the setting `Orderly` (users wait for their commits and take no avatar away, only the consumer writes snapshots, and what fails
is statements of the user service and the process of the thread service):

* `OrderedInvariant`: `Spec => []OrderedInv`;
* `SnapsStayCurrent`: `Spec => []SnapsAreCurrent`;
* `MentionsAlwaysResolve`: `Spec => []MentionsResolve`;
* `SnapsCopyProfiles`: `Spec => SnapsFollowProfiles`, the refinement of `OrderedCopy`.

The argument.  A user is `Known` who has a snapshot, is in the queue, or counts as lost; nobody stops
being known.  For the steps that take an event from the queue this needs `HeadInHand`: the
consumer holds the first event, and by the time it acknowledges, the upsert has succeeded, or failed
because a snapshot exists by now, or failed and is lost.  And a row that is committed belongs
to someone known already (`PublishedFirst`), because the event goes out before the commit.
`MovePreserves`, `DonePreserves`, `WriterMovePreserves` and `WrittenPreserves` prove the
invariant for all steps of their kind.

The ordered copy takes three things.  A profile is `Announced` from its event on, because the row stays locked until the commit, and its name stays free of others
because the unique index counts the names of open transactions too (`NamesApart`); so the events are in the queue in the order in which the rows change, of all
users together.  `EventsInTurn` looks ahead: however many of the events in the queue are handled (`Shown`), no two snapshots have one name, and after the last of them
each snapshot is the announced profile.  Hence no upsert fails for a name that somebody else's snapshot still has, although
names change hands.  And the upsert, which keeps what an event does not provide, writes exactly what the event says, because
who has an avatar keeps one (`AvatarsStay`) and the row it has read is the one it writes (`ConsumerInStep`).  A
redelivered event writes the same again.  In the refinement `PublishUser` is `Change`, the consumer's `CommitSnap` is `Show` and `Acknowledge` is
`Settle`; every other step leaves the three abstract variables alone, `CommitUser` included (`NextCopies`).
`Orderly` is needed: "What the runs found" says what overlapping updates, an avatar taken away, and a commit that fails after its event do.

`SessionsProofs` proves, for any users, devices, tokens and handlers and any faults
(`SessionsAssumption`), of devices that wait (`DeviceWaits`):

* `SessionsInvariant`: `Spec => []SessionsInv`, which contains the type invariant;
* `OneTokenPerSession`: `Spec => []SessionHasOneToken`;
* `DevicesStayLoggedIn`: `Spec => []SessionsAreKept`;
* `RevocationsInvariant`: `RevocationSpec => []RevocationsInv`;
* `RevokedStayOver`: `RevocationSpec => []RevokedSessionsStayOver`;
* `DeletedTokensEnd`: `RevocationSpec => []DeletedGetOneTokenMore`;

and whether devices wait or not:

* `LocksInvariant`: `Spec => []LocksInv`;
* `FoundAreRevoked`: `Spec => FoundTokensAreRevoked`;
* `NoDeadlock`: `Spec => []SomeoneGoesOn`.

The argument.  A refresh checks its token at one time and commits at another, and the token may be
revoked between; what cannot happen between is that its session gets another good token
(`RefreshHasTheToken`), because that would take a refresh of the same session, hence of the same
device (`TokensHaveSessions`, `CookiesBelong`), which has only one request in flight
(`OneRequestPerDevice`).  So the commit replaces the only token that may be good.  A
cookie is good or about to become so (`CookiesAreGood`); the one exception, a refresh whose reply got
lost, is `RefreshReplied`.  `ExecutionKeeps`, `LeavingKeeps` and `ArrivalKeeps` prove
the invariant for all steps of their kind.

A session stays over because a new token has one of two origins (`NewToken`): a login, whose session is its own, or a refresh that has found a token of the same
session good (`RefreshingOn`).  What a revocation is about to end has no good token but those it has found (`EndingIsFound`): a session belongs to one
device, hence to one user, so the UPDATE finds all of the session's tokens at once, and whoever starts to refresh it drops it from
`ending`.  The commit revokes what was found, so nothing good is left to begin a refresh with (`OverIsOver`).  And two requests past the check of their
user for one session would be two requests of one device; the one that commits a late token is alone, and who comes after it finds the
user deleted (`LateIsLast`).

Devices that do not wait break most of this: two refreshes of one device give a session two tokens.  What survives is about one request
and its locks.  `LocksInv` says where each request `Stands`, that what it `HasInHand` exists and is the
user's, that the token it has inserted `IsNew`, and which rows it has locked (`LocksInPlace`).  A revocation has in hand what it
has found, and by its reply it has locked all of that, so its commit leaves nothing good.  Whoever takes several
tokens holds the user's row and is therefore alone in doing so for that user; all it can wait for are requests
that take one token and then nothing more, hence `NoDeadlock`.  `SessionsInv` is checked by the run; `LocksInv` and `SomeoneGoesOn` hold of the
same instance with `DeviceWaits = FALSE` as well (4.5 million states).

`DeliveryProofs` proves, for any users, events with any targets, requests, handlers, sockets and faults
(`NotificationsAssumption`, `RequestsAssumption`, `DeliveryAssumption`):

* `DeliveryInvariant`: `Spec => []DeliveryInv`, which contains the type invariant;
* `TargetsAlike`: `Spec => []AllTargetsAlike`;
* `TargetsNotified`: `Spec => []EveryTargetIsNotified`;
* `PushesAreCommitted`: `Spec => []PushedIsCommitted`;
* `PagesMissNothing`: `Spec => []NothingFallsBetween`;
* `MarkAllIsComplete`: `Spec => MarkAllLeavesNothing`.

The argument.  `BatchInPlace` says what the consumer has in hand at each statement: the rows of the first targets of the first event,
and all of them at the commit, which therefore adds a row for each target at once.  `HandledFirst` is why the acknowledgement
may remove the event.  On the other side, a row is in one of three places until it is shown: the batch that is being published, the queue of
pushes, or lost (`ServiceKeepsPages` says that the service moves it on in this order); and the gateway removes a push only when it is on every page that is in the room
(`PagesInPlace`).  Consumer, requests and pages have an invariant each (`ConsumerInv`, `MarksInPlace`, `PageInv`) and lemmas that say what the steps
of the others leave alone.

`TagsProofs` proves, for any threads, names, requests and faults (`TagsAssumption`):

* `TagsInvariant`: `Spec => []TagsInv`, which contains the type invariant;
* `EditsTakeEffect`: `Spec => []EditTakesEffect`;
* `ToldTagsStayCurrent`: `Spec => []ToldTagsAreCurrent`;
* `DeadlocksAreOverTags`: `Spec => []DeadlocksNeedTwoNewTags`, which no run checks.

The argument.  Who was not overtaken has loaded what is committed (`WearsInPlace`), because the row is locked from the UPDATE on, so
the difference it writes leads to the tags it names; and the names of those are all there by then, committed or its own (`TagsInPlace`).
`ToldInPlace` says what was told while somebody holds the row: what is committed, and after the event what will be.

`ThreadPageProofs` proves, for any items, readers, orders, page sizes and times (`CursorAssumption`), of `PagesSpec`:

* `PagesInvariant`: `PagesSpec => []PagesInv`, which contains the type invariant;
* `PagesNeverRepeat`: `PagesSpec => []PagesGoOn`;
* `ListsSkipNothing`: `PagesSpec => []NothingIsSkipped`;

and, with any queue and faults (`ThreadPageAssumption`), of `ThreadPage`:

* `ThreadPageReadsPages`: `Spec => PagesSpec`, hence `ThreadPageSkipsNothing`: `Spec => []NothingIsSkipped`;
* `ThreadPageInvariant`: `Spec => []ThreadPageInv`;
* `PagesMissNoComment`: `Spec => []PageMissesNothing`;
* `DeletedStaysIllegible`: `Spec => []DeletedIsNotLegible`.

The argument.  While a list is being read, everything stable is `Passed`: shown, tied with the end of a page, or still behind the cursor.  A page takes the
first items of what is behind the cursor, and moves the cursor to the last of them; a page that is not full takes all.  For the page of a thread, a comment is
followed from its event (`AnnouncedReaches`) to its commit, after which it is known, on its way, missed or behind the cursor (`ListedReaches`).
For deletions, `InOrder` says that the event of a creation cannot come after that of the deletion, and `DeletionReaches` that a deletion has been
announced before it is committed.

`PresenceProofs` proves, for any users, sockets, threads, tasks in flight and faults (`PresenceAssumption`):

* `PresenceInvariant`: `Spec => []PresenceInv`, which contains the type invariant;
* `PresenceStaysExact`: `Spec => []PresenceIsExact`.

The argument.  `Orderly` is an invariant of each orderly user by itself: the steps of other users' tasks touch neither their sockets nor their
keys, and a step that breaks the order drops the user.  With only one task and one socket at a time (`OneAtATime`) every step of a task leads from what `InMidst` says of one point
to what it says of the next, and from the last to `Exact`.

Only model-checked: the liveness properties (`RequestsEnd`, of three modules, `EventsAreHandled` and `IdleAreForgotten`), because fairness and ENABLED are beyond the
prover.  Every safety invariant, action property and refinement that a passing run checks is proved.  TLC had checked
`CarefulInv` and `OrderedInv` on the instances of `DiscussionCareful` and `SnapOrdered` before they were.

## Plan

What is left, the most important first.

1. Refinements: an abstract `Counter` that `Likes` implements for patient clients, abstract sessions of devices that wait,
   and for `Presence` the set of connected users with what they view.
2. `ThreadPage` over the rooms of `Presence`: sockets that leave and reconnect, and pages that read the list again when they do.
3. The events of edits and likes on the same page.

## Not modelled

What keeps no state across steps: schemas but for which fields are given, formatting, token signatures and password hashes, configuration, logging, and the nginx
configuration.  Start-up and seeding run before any request.  Full-text search is PostgreSQL's; to a list it is a filter.
Reads that change nothing and depend on nothing but the moment (`get_thread`, counts, the autocompletion of tags, the administrator's listings) are left
out, as is `change_user_role`, which touches neither tokens nor names.  The web client is not in the repository; `ThreadPage` and `Delivery`
say what they take it to do.
