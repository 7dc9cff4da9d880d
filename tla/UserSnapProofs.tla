--------------------------- MODULE UserSnapProofs ---------------------------
(***************************************************************************)
(* Proofs about UserSnapSync, for any users, names, avatars and handlers,  *)
(* and a queue of any length.  UserSnapInv is inductive whatever users do  *)
(* and whatever fails; in the setting Orderly, OrderedInv is as well, so   *)
(* the snapshots are an ordered copy of the profiles.                      *)
(***************************************************************************)
EXTENDS UserSnapSync, SequenceTheorems, TLAPS

USE UserSnapAssumption, ProfileAssumption

\* What a handler holds in memory, and the row it writes, are profiles.
LEMMA RowIsProfile ==
    ASSUME TypeOK, RequestsInPlace,
           NEW h \in Handlers, pc[h] \in {"check", "write", "publish", "commit"}
    PROVE  InMemory(h) \in Profile /\ Row(h) \in Profile
<1>1. /\ h \in InFlight
      /\ req[h] \in Request
      /\ req[h].user \in Users
      /\ req[h].avatar \in Avatars \cup {None, Clear}
  BY DEF TypeOK, InFlight, RequestsInPlace, Request
<1>2. CASE req[h].op = "register"
  <2>1. req[h].name \in Names /\ req[h].avatar \in Avatars \cup {None}
    BY <1>1, <1>2 DEF Request
  <2>. QED  BY <1>2, <2>1 DEF InMemory, Row, Profile
<1>3. CASE req[h].op = "update"
  <2>1. req[h].name \in Names \cup {None}
    BY <1>1 DEF Request
  <2>2. loaded[h] \in Profile /\ users[req[h].user] \in Profile
    BY <1>1, <1>3 DEF TypeOK, RequestsInPlace
  <2>3. Updated(loaded[h], req[h]) \in Profile
    BY <1>1, <2>1, <2>2 DEF Updated, Profile
  <2>4. InMemory(h) = Updated(loaded[h], req[h])
    BY <1>3 DEF InMemory
  <2>5. Row(h) = Changed(users[req[h].user], loaded[h], Updated(loaded[h], req[h]))
    BY <1>3, <2>4 DEF Row
  <2>6. Row(h) \in Profile
    BY <2>2, <2>3, <2>5 DEF Changed, Profile
  <2>. QED  BY <2>3, <2>4, <2>6
<1>. QED  BY <1>1, <1>2, <1>3 DEF Request

\* An event that is appended to the queue is in it; the others stay.
LEMMA AppendInQueue ==
    ASSUME queue \in Seq(Event), NEW e \in Event, queue' = Append(queue, e)
    PROVE  InQueue(e.user)' /\ \A u \in Users : InQueue(u) => InQueue(u)'
<1>1. /\ Len(queue') = Len(queue) + 1 /\ Len(queue) \in Nat
      /\ queue'[Len(queue) + 1] = e
      /\ \A i \in 1..Len(queue) : queue'[i] = queue[i]
  OBVIOUS
<1>. QED  BY <1>1 DEF InQueue

\* Without its first event, the queue has the events about every other user.
LEMMA TailInQueue ==
    ASSUME queue \in Seq(Event), queue # <<>>, queue' = Tail(queue)
    PROVE  \A u \in Users : InQueue(u) => InQueue(u)' \/ u = Head(queue).user
<1>1. /\ Len(queue') = Len(queue) - 1 /\ Len(queue) \in Nat
      /\ Head(queue) = queue[1]
      /\ \A i \in 2..Len(queue) : i - 1 \in 1..Len(queue') /\ queue'[i - 1] = queue[i]
  OBVIOUS
<1>. SUFFICES ASSUME NEW u \in Users, NEW i \in 1..Len(queue), queue[i].user = u
              PROVE  InQueue(u)' \/ u = Head(queue).user
  BY DEF InQueue
<1>2. CASE i = 1
  BY <1>1, <1>2
<1>3. CASE i \in 2..Len(queue)
  BY <1>1, <1>3 DEF InQueue
<1>. QED  BY <1>1, <1>2, <1>3

\* As long as snapshots exist, lost events stay lost and the queue keeps what it
\* has, everyone who is known stays known.
LEMMA KnownStays ==
    ASSUME \A u \in Users : snaps[u] # None => snaps'[u] # None,
           \A u \in Users : InQueue(u) => Known(u)',
           lost \subseteq lost'
    PROVE  \A u \in Users : Known(u) => Known(u)'
BY DEF Known

-----------------------------------------------------------------------------
(* The initial states.                                                     *)

LEMMA InitUserSnapInv == Init => UserSnapInv
<1>. SUFFICES ASSUME Init PROVE UserSnapInv
  OBVIOUS
<1>1. TypeOK
  BY DEF Init, TypeOK
<1>2. RequestsInPlace
  BY DEF Init, RequestsInPlace, InFlight
<1>3. UpsertsInPlace /\ HeadInHand
  BY DEF Init, UpsertsInPlace, HeadInHand, Writers
<1>4. PublishedFirst /\ AuthorsAreKnown
  BY DEF Init, PublishedFirst, AuthorsAreKnown
<1>. QED  BY <1>1, <1>2, <1>3, <1>4 DEF UserSnapInv

-----------------------------------------------------------------------------
(* The steps of the user service leave the snapshots, the queue and the    *)
(* lost events alone, except for PublishUser.                              *)

\* What is left alone keeps its part of the invariant.
LEMMA ThreadSideKept ==
    ASSUME UserSnapInv, UNCHANGED <<events, snapSide>>
    PROVE  /\ UpsertsInPlace' /\ HeadInHand'
           /\ \A u \in Users : Known(u)' = Known(u)
BY DEF UserSnapInv, UpsertsInPlace, HeadInHand, Known, InQueue, events, snapSide

LEMMA UserSideKept ==
    ASSUME UserSnapInv, UNCHANGED userSide
    PROVE  RequestsInPlace'
BY DEF UserSnapInv, RequestsInPlace, InFlight, userSide

\* A handler that is done leaves the others as they were.
LEMMA DonePreserves ==
    ASSUME UserSnapInv, NEW h \in Handlers, Done(h), UNCHANGED <<users, events, snapSide>>
    PROVE  UserSnapInv'
<1>1. TypeOK'
  BY DEF UserSnapInv, TypeOK, Done, events, snapSide
<1>2. \A g \in InFlight' : g # h /\ g \in InFlight /\ UNCHANGED <<pc[g], req[g], loaded[g]>>
  BY DEF UserSnapInv, TypeOK, Done, InFlight
<1>3. RequestsInPlace'
  BY <1>2 DEF UserSnapInv, RequestsInPlace, InFlight
<1>4. PublishedFirst' /\ AuthorsAreKnown'
  <2>1. \A g \in Handlers : pc'[g] = "commit" =>
            g \in InFlight' /\ pc[g] = "commit" /\ req'[g] = req[g] /\ req[g].user \in Users
    BY <1>2 DEF UserSnapInv, RequestsInPlace, InFlight, Request
  <2>. QED  BY <2>1, ThreadSideKept DEF UserSnapInv, PublishedFirst, AuthorsAreKnown
<1>. QED  BY <1>1, <1>3, <1>4, ThreadSideKept DEF UserSnapInv

\* A handler that moves on, short of the commit.
LEMMA MovePreserves ==
    ASSUME UserSnapInv, NEW h \in Handlers,
           NEW p \in {"load", "check", "write", "publish"}, pc' = [pc EXCEPT ![h] = p],
           UNCHANGED <<users, events, snapSide>>,
           TypeOK',
           \A g \in Handlers \ {h} : UNCHANGED <<req[g], loaded[g]>>,
           req'[h] \in Request,
           p = "load" => req'[h].op = "update",
           req'[h].op = "update" => users[req'[h].user] # None
                                    /\ (p # "load" => loaded'[h] # None)
    PROVE  UserSnapInv'
<1>1. /\ pc'[h] = p
      /\ \A g \in Handlers \ {h} : pc'[g] = pc[g]
  BY DEF UserSnapInv, TypeOK
<1>2. RequestsInPlace'
  BY <1>1 DEF UserSnapInv, RequestsInPlace, InFlight
<1>3. PublishedFirst' /\ AuthorsAreKnown'
  <2>1. \A g \in Handlers : pc'[g] = "commit" =>
            g \in InFlight /\ pc[g] = "commit" /\ req'[g] = req[g] /\ req[g].user \in Users
    BY <1>1 DEF UserSnapInv, RequestsInPlace, InFlight, Request
  <2>. QED  BY <2>1, ThreadSideKept DEF UserSnapInv, PublishedFirst, AuthorsAreKnown
<1>. QED  BY <1>2, <1>3, ThreadSideKept DEF UserSnapInv

\* What RequestsInPlace says of one handler.
LEMMA InPlace ==
    ASSUME UserSnapInv, NEW h \in Handlers, pc[h] # "idle"
    PROVE  /\ h \in InFlight /\ req[h] \in Request /\ req[h].user \in Users
           /\ req[h].op = "update" => users[req[h].user] # None
           /\ req[h].op = "update" /\ pc[h] # "load" => loaded[h] # None
           /\ pc[h] = "load" => req[h].op = "update"
BY DEF UserSnapInv, RequestsInPlace, InFlight, Request

LEMMA StartRequestPreserves ==
    ASSUME UserSnapInv, NEW h \in Handlers, NEW q \in Request, StartRequest(h, q)
    PROVE  UserSnapInv'
<1>1. TypeOK' /\ req'[h] = q /\ \A g \in Handlers \ {h} : req'[g] = req[g]
  BY DEF UserSnapInv, TypeOK, StartRequest, events, snapSide
<1>2. UNCHANGED <<users, loaded, events, snapSide>>
  BY DEF StartRequest
<1>3. CASE q.op = "register"
  <2>1. pc' = [pc EXCEPT ![h] = "check"]
    BY <1>3 DEF StartRequest
  <2>. QED  BY <1>1, <1>2, <1>3, <2>1, MovePreserves
<1>4. CASE q.op # "register"
  <2>1. pc' = [pc EXCEPT ![h] = "load"] /\ users[q.user] # None
    BY <1>4 DEF StartRequest
  <2>2. q.op = "update"
    BY <1>4 DEF Request
  <2>. QED  BY <1>1, <1>2, <2>1, <2>2, MovePreserves
<1>. QED  BY <1>3, <1>4

LEMMA LoadUserPreserves ==
    ASSUME UserSnapInv, NEW h \in Handlers, LoadUser(h)
    PROVE  UserSnapInv'
<1>1. pc[h] = "load" /\ pc' = [pc EXCEPT ![h] = "check"]
      /\ UNCHANGED <<users, req, events, snapSide>>
  BY DEF LoadUser
<1>2. req[h] \in Request /\ req[h].user \in Users /\ users[req[h].user] # None
  BY <1>1, InPlace
<1>3. TypeOK' /\ loaded'[h] = users[req[h].user]
      /\ \A g \in Handlers \ {h} : loaded'[g] = loaded[g]
  BY <1>2 DEF UserSnapInv, TypeOK, LoadUser, events, snapSide
<1>. QED  BY <1>1, <1>2, <1>3, MovePreserves

LEMMA CheckUsernamePreserves ==
    ASSUME UserSnapInv, NEW h \in Handlers, CheckUsername(h)
    PROVE  UserSnapInv'
<1>1. CASE Done(h)
  BY <1>1, DonePreserves DEF CheckUsername
<1>2. CASE pc' = [pc EXCEPT ![h] = "write"] /\ UNCHANGED <<req, loaded>>
  <2>1. pc[h] = "check" /\ UNCHANGED <<users, events, snapSide>>
    BY DEF CheckUsername
  <2>2. TypeOK'
    BY <1>2, <2>1 DEF UserSnapInv, TypeOK, events, snapSide
  <2>. QED  BY <1>2, <2>1, <2>2, InPlace, MovePreserves
<1>. QED  BY <1>1, <1>2 DEF CheckUsername

LEMMA WriteUserPreserves ==
    ASSUME UserSnapInv, NEW h \in Handlers, WriteUser(h)
    PROVE  UserSnapInv'
<1>1. CASE Done(h)
  BY <1>1, DonePreserves DEF WriteUser
<1>2. CASE pc' = [pc EXCEPT ![h] = "publish"] /\ UNCHANGED <<req, loaded>>
  <2>1. pc[h] = "write" /\ UNCHANGED <<users, events, snapSide>>
    BY DEF WriteUser
  <2>2. TypeOK'
    BY <1>2, <2>1 DEF UserSnapInv, TypeOK, events, snapSide
  <2>. QED  BY <1>2, <2>1, <2>2, InPlace, MovePreserves
<1>. QED  BY <1>1, <1>2 DEF WriteUser

\* The event is published before the commit: from here on the user is known.
LEMMA PublishUserPreserves ==
    ASSUME UserSnapInv, NEW h \in Handlers, PublishUser(h)
    PROVE  UserSnapInv'
<1>. DEFINE e == [user |-> req[h].user, profile |-> InMemory(h)]
<1>1. /\ pc[h] = "publish" /\ pc' = [pc EXCEPT ![h] = "commit"]
      /\ UNCHANGED <<users, req, loaded, snaps, wpc, job, found>>
  BY DEF PublishUser, snapSide
<1>2. req[h].user \in Users /\ e \in Event
  BY <1>1, InPlace, RowIsProfile DEF UserSnapInv, Event
<1>3. /\ queue' \in Seq(Event) /\ lost' \subseteq Users
      /\ \A u \in Users : InQueue(u) => InQueue(u)'
      /\ lost \subseteq lost'
      /\ req[h].user \in lost' \/ InQueue(req[h].user)'
      /\ queue # <<>> => queue' # <<>> /\ Head(queue') = Head(queue)
  <2>1. CASE queue' = Append(queue, e) /\ UNCHANGED lost
    <3>1. PICK f \in Event : f = e
      BY <1>2
    <3>2. InQueue(f.user)' /\ \A u \in Users : InQueue(u) => InQueue(u)'
      BY <2>1, <3>1, AppendInQueue DEF UserSnapInv, TypeOK
    <3>3. f.user = req'[h].user
      BY <1>1, <3>1
    <3>4. /\ queue' \in Seq(Event)
          /\ queue # <<>> => queue' # <<>> /\ Head(queue') = Head(queue)
      BY <1>2, <2>1 DEF UserSnapInv, TypeOK
    <3>. QED  BY <2>1, <3>2, <3>3, <3>4 DEF UserSnapInv, TypeOK
  <2>2. CASE lost' = lost \cup {req[h].user} /\ UNCHANGED queue
    BY <1>2, <2>2 DEF UserSnapInv, TypeOK, InQueue
  <2>. QED  BY <2>1, <2>2 DEF PublishUser
<1>4. TypeOK'
  BY <1>1, <1>3 DEF UserSnapInv, TypeOK
<1>5. RequestsInPlace'
  BY <1>1 DEF UserSnapInv, TypeOK, RequestsInPlace, InFlight
<1>6. UpsertsInPlace'
  BY <1>1 DEF UserSnapInv, UpsertsInPlace
<1>7. HeadInHand'
  BY <1>1, <1>3 DEF UserSnapInv, HeadInHand
<1>8. (\A u \in Users : Known(u) => Known(u)') /\ Known(req[h].user)'
  BY <1>1, <1>3 DEF Known
<1>9. PublishedFirst' /\ AuthorsAreKnown'
  <2>1. \A g \in Handlers : pc'[g] = "commit" =>
            req'[g] = req[g] /\ req[g].user \in Users /\ (g = h \/ pc[g] = "commit")
    BY <1>1, InPlace DEF UserSnapInv, TypeOK
  <2>. QED  BY <1>1, <1>8, <2>1 DEF UserSnapInv, PublishedFirst, AuthorsAreKnown
<1>. QED  BY <1>4, <1>5, <1>6, <1>7, <1>9 DEF UserSnapInv

\* The row becomes visible; its user is known already (PublishedFirst).
LEMMA CommitUserPreserves ==
    ASSUME UserSnapInv, NEW h \in Handlers, CommitUser(h)
    PROVE  UserSnapInv'
<1>. DEFINE u == req[h].user
<1>1. pc[h] = "commit" /\ Done(h) /\ UNCHANGED <<events, snapSide>>
  BY DEF CommitUser
<1>2. u \in Users /\ req[h] \in Request /\ Row(h) \in Profile
  BY <1>1, InPlace, RowIsProfile DEF UserSnapInv
<1>3. /\ users' \in [Users -> Profile \cup {None}]
      /\ \A v \in Users : v # u => users'[v] = users[v]
      /\ users[u] # None => users'[u] # None
  BY <1>2 DEF UserSnapInv, TypeOK, CommitUser
<1>4. TypeOK'
  BY <1>1, <1>3 DEF UserSnapInv, TypeOK, Done, events, snapSide
<1>5. \A g \in InFlight' : g \in InFlight /\ UNCHANGED <<pc[g], req[g], loaded[g]>>
  BY <1>1 DEF UserSnapInv, TypeOK, Done, InFlight
<1>6. \A g \in InFlight' : req[g] \in Request /\ req[g].user \in Users
  BY <1>5 DEF UserSnapInv, RequestsInPlace, Request
<1>7. RequestsInPlace'
  BY <1>3, <1>5, <1>6 DEF UserSnapInv, RequestsInPlace
<1>8. PublishedFirst'
  <2>1. \A g \in Handlers : pc'[g] = "commit" =>
            pc[g] = "commit" /\ req'[g] = req[g] /\ req[g].user \in Users
    BY <1>5, <1>6 DEF InFlight
  <2>. QED  BY <1>1, <2>1, ThreadSideKept DEF UserSnapInv, PublishedFirst
<1>9. AuthorsAreKnown'
  BY <1>1, <1>2, <1>3, ThreadSideKept DEF UserSnapInv, PublishedFirst, AuthorsAreKnown
<1>. QED  BY <1>1, <1>4, <1>7, <1>8, <1>9, ThreadSideKept DEF UserSnapInv

LEMMA UserProcessDiesPreserves ==
    ASSUME UserSnapInv, UserProcessDies
    PROVE  UserSnapInv'
<1>1. TypeOK'
  BY DEF UserSnapInv, TypeOK, UserProcessDies, events, snapSide
<1>2. RequestsInPlace' /\ PublishedFirst'
  BY DEF UserProcessDies, RequestsInPlace, PublishedFirst, InFlight
<1>3. AuthorsAreKnown'
  BY ThreadSideKept DEF UserSnapInv, AuthorsAreKnown, UserProcessDies
<1>. QED  BY <1>1, <1>2, <1>3, ThreadSideKept DEF UserSnapInv, UserProcessDies

-----------------------------------------------------------------------------
(* The steps of the thread service leave the user service alone: all that  *)
(* matters to it is that those who are known stay known.                   *)

LEMMA UserSidePreserved ==
    ASSUME UserSnapInv, UNCHANGED userSide, \A u \in Users : Known(u) => Known(u)'
    PROVE  RequestsInPlace' /\ PublishedFirst' /\ AuthorsAreKnown'
<1>1. \A h \in Handlers : pc[h] = "commit" => req[h].user \in Users
  BY InPlace
<1>. QED  BY <1>1, UserSideKept
          DEF UserSnapInv, PublishedFirst, AuthorsAreKnown, userSide

\* What UpsertsInPlace says of the job of one writer.
LEMMA JobInHand ==
    ASSUME UserSnapInv, NEW w \in Writers, wpc[w] \in {"select", "flush", "commit"}
    PROVE  /\ job[w] \in Job /\ job[w].user \in Users
           /\ job[w].avatar \in Avatars \cup {None}
           /\ job[w].op # "patch" => job[w].name \in Names
           /\ job[w].name \in Names \cup {None}
BY DEF UserSnapInv, UpsertsInPlace, Job

LEMMA HeadIsEvent ==
    ASSUME UserSnapInv, queue # <<>>
    PROVE  Head(queue) \in Event /\ Head(queue).user \in Users
<1>1. queue \in Seq(Event)
  BY DEF UserSnapInv, TypeOK
<1>2. Head(queue) \in Event
  BY <1>1
<1>. QED  BY <1>2 DEF Event

\* A writer that moves on, with the snapshots and the events as they were.
LEMMA WriterMovePreserves ==
    ASSUME UserSnapInv, NEW w \in Writers,
           NEW p \in {"select", "flush", "commit"}, wpc' = [wpc EXCEPT ![w] = p],
           UNCHANGED <<userSide, events, snaps>>,
           job' \in [Writers -> Job \cup {None}],
           found' \in [Writers -> Profile \cup {None}],
           \A x \in Writers \ {w} : UNCHANGED <<job[x], found[x]>>,
           job'[w] \in Job,
           p # "select" => /\ job'[w].op = "patch" => found'[w] # None
                           /\ found'[w] # None => snaps[job'[w].user] # None,
           w = Consumer => /\ queue # <<>>
                           /\ job'[w].op = "event" /\ job'[w].user = Head(queue).user
    PROVE  UserSnapInv'
<1>1. wpc'[w] = p /\ \A x \in Writers \ {w} : wpc'[x] = wpc[x]
  BY DEF UserSnapInv, TypeOK
<1>2. TypeOK'
  BY DEF UserSnapInv, TypeOK, userSide, events
<1>3. UpsertsInPlace'
  BY <1>1 DEF UserSnapInv, UpsertsInPlace
<1>4. HeadInHand'
  BY <1>1 DEF UserSnapInv, HeadInHand, Writers, events
<1>5. \A u \in Users : Known(u) => Known(u)'
  BY DEF Known, InQueue, events
<1>. QED  BY <1>2, <1>3, <1>4, <1>5, UserSidePreserved DEF UserSnapInv

\* A writer that has nothing more to write, if the user of an event has a
\* snapshot or counts as lost.
LEMMA WrittenPreserves ==
    ASSUME UserSnapInv, NEW w \in Writers, Written(w),
           wpc[w] \in {"select", "flush", "commit"},
           UNCHANGED <<userSide, queue>>,
           snaps' \in [Users -> Profile \cup {None}],
           \A u \in Users : snaps[u] # None => snaps'[u] # None,
           lost \subseteq lost', lost' \subseteq Users,
           w = Consumer => snaps'[job[w].user] # None \/ job[w].user \in lost'
    PROVE  UserSnapInv'
<1>1. /\ wpc'[w] = IF w = Consumer THEN "ack" ELSE "idle"
      /\ \A x \in Writers \ {w} : UNCHANGED <<wpc[x], job[x], found[x]>>
  BY DEF UserSnapInv, TypeOK, Written
<1>2. TypeOK'
  BY DEF UserSnapInv, TypeOK, Written, userSide
<1>3. UpsertsInPlace'
  <2>1. \A x \in Writers \ {w} : wpc[x] \in {"flush", "commit"} => job[x].user \in Users
    BY JobInHand
  <2>. QED  BY <1>1, <2>1 DEF UserSnapInv, UpsertsInPlace
<1>4. HeadInHand'
  <2>1. CASE w = Consumer
    BY <1>1, <2>1 DEF UserSnapInv, HeadInHand
  <2>2. CASE w # Consumer
    <3>1. Consumer \in Writers \ {w}
      BY <2>2 DEF Writers
    <3>2. queue # <<>> => Head(queue).user \in Users
      BY HeadIsEvent
    <3>. QED  BY <1>1, <3>1, <3>2 DEF UserSnapInv, HeadInHand
  <2>. QED  BY <2>1, <2>2
<1>5. \A u \in Users : Known(u) => Known(u)'
  BY DEF Known, InQueue
<1>. QED  BY <1>2, <1>3, <1>4, <1>5, UserSidePreserved DEF UserSnapInv

LEMMA ReceivePreserves ==
    ASSUME UserSnapInv, Receive
    PROVE  UserSnapInv'
<1>. DEFINE e == Head(queue)
            j == [op |-> "event", user |-> e.user,
                  name |-> e.profile.name, avatar |-> e.profile.avatar]
<1>1. /\ queue # <<>> /\ job' = [job EXCEPT ![Consumer] = j]
      /\ wpc' = [wpc EXCEPT ![Consumer] = "select"]
      /\ UNCHANGED <<userSide, events, snaps, found>>
  BY DEF Receive
<1>2. Consumer \in Writers
  BY DEF Writers
<1>3. j \in Job
  <2>1. e.user \in Users /\ e.profile \in Profile
    BY <1>1, HeadIsEvent DEF Event
  <2>. QED  BY <2>1 DEF Job, Profile
<1>4. /\ job' \in [Writers -> Job \cup {None}] /\ job'[Consumer] = j
      /\ \A x \in Writers \ {Consumer} : job'[x] = job[x]
  BY <1>1, <1>2, <1>3 DEF UserSnapInv, TypeOK
<1>5. found' \in [Writers -> Profile \cup {None}]
  BY <1>1 DEF UserSnapInv, TypeOK
<1>. QED  BY <1>1, <1>2, <1>3, <1>4, <1>5, WriterMovePreserves

LEMMA StartSnapRequestPreserves ==
    ASSUME UserSnapInv, NEW w \in SnapHandlers, NEW j \in Job, StartSnapRequest(w, j)
    PROVE  UserSnapInv'
<1>1. w \in Writers /\ w # Consumer
  BY DEF Writers
<1>2. /\ job' \in [Writers -> Job \cup {None}] /\ job'[w] = j
      /\ \A x \in Writers \ {w} : job'[x] = job[x]
      /\ found' \in [Writers -> Profile \cup {None}]
  BY <1>1 DEF UserSnapInv, TypeOK, StartSnapRequest
<1>. QED  BY <1>1, <1>2, WriterMovePreserves DEF StartSnapRequest

LEMMA SelectSnapPreserves ==
    ASSUME UserSnapInv, NEW w \in Writers, SelectSnap(w)
    PROVE  UserSnapInv'
<1>1. wpc[w] = "select" /\ UNCHANGED <<userSide, events, snaps>>
  BY DEF SelectSnap
<1>2. job[w] \in Job /\ job[w].user \in Users
  BY <1>1, JobInHand
<1>3. w = Consumer => queue # <<>> /\ job[w].op = "event" /\ job[w].user = Head(queue).user
  BY <1>1 DEF UserSnapInv, HeadInHand
<1>4. CASE job[w].op = "patch" /\ snaps[job[w].user] = None
  BY <1>1, <1>3, <1>4, WrittenPreserves DEF UserSnapInv, TypeOK, SelectSnap, events
<1>5. CASE ~ (job[w].op = "patch" /\ snaps[job[w].user] = None)
  <2>1. /\ found' = [found EXCEPT ![w] = snaps[job[w].user]]
        /\ wpc' = [wpc EXCEPT ![w] = "flush"] /\ UNCHANGED job
    BY <1>5 DEF SelectSnap
  <2>2. /\ found' \in [Writers -> Profile \cup {None}]
        /\ found'[w] = snaps[job[w].user]
        /\ \A x \in Writers \ {w} : found'[x] = found[x]
        /\ job' \in [Writers -> Job \cup {None}]
    BY <1>2, <2>1 DEF UserSnapInv, TypeOK
  <2>. QED  BY <1>1, <1>2, <1>3, <1>5, <2>1, <2>2, WriterMovePreserves
<1>. QED  BY <1>4, <1>5

LEMMA FlushSnapPreserves ==
    ASSUME UserSnapInv, NEW w \in Writers, FlushSnap(w)
    PROVE  UserSnapInv'
<1>1. wpc[w] = "flush" /\ UNCHANGED <<userSide, events, snaps>>
  BY DEF FlushSnap
<1>2. job[w] \in Job /\ job[w].user \in Users
  BY <1>1, JobInHand
<1>3. w = Consumer => queue # <<>> /\ job[w].op = "event" /\ job[w].user = Head(queue).user
  BY <1>1 DEF UserSnapInv, HeadInHand
<1>4. CASE found[w] = None /\ snaps[job[w].user] # None
  BY <1>1, <1>2, <1>4, WrittenPreserves DEF UserSnapInv, TypeOK, FlushSnap, events
<1>5. CASE ~ (found[w] = None /\ snaps[job[w].user] # None)
  <2>1. wpc' = [wpc EXCEPT ![w] = "commit"] /\ UNCHANGED <<job, found>>
    BY <1>5 DEF FlushSnap
  <2>2. /\ job[w].op = "patch" => found[w] # None
        /\ found[w] # None => snaps[job[w].user] # None
    BY <1>1 DEF UserSnapInv, UpsertsInPlace
  <2>3. job' \in [Writers -> Job \cup {None}] /\ found' \in [Writers -> Profile \cup {None}]
    BY <2>1 DEF UserSnapInv, TypeOK
  <2>. QED  BY <1>1, <1>2, <1>3, <2>1, <2>2, <2>3, WriterMovePreserves
<1>. QED  BY <1>4, <1>5

LEMMA CommitSnapPreserves ==
    ASSUME UserSnapInv, NEW w \in Writers, CommitSnap(w)
    PROVE  UserSnapInv'
<1>. DEFINE j == job[w]
            p == IF found[w] = None THEN [name |-> j.name, avatar |-> j.avatar]
                 ELSE Changed(snaps[j.user], found[w], Updated(found[w], j))
<1>1. wpc[w] = "commit" /\ Written(w) /\ UNCHANGED <<userSide, events>>
  BY DEF CommitSnap
<1>2. /\ j \in Job /\ j.user \in Users /\ j.avatar \in Avatars \cup {None}
      /\ j.op # "patch" => j.name \in Names
      /\ j.name \in Names \cup {None}
  BY <1>1, JobInHand
<1>3. /\ j.op = "patch" => found[w] # None
      /\ found[w] # None => snaps[j.user] # None
  BY <1>1 DEF UserSnapInv, UpsertsInPlace
<1>4. p \in Profile
  <2>1. CASE found[w] = None
    BY <1>2, <1>3, <2>1 DEF Profile
  <2>2. CASE found[w] # None
    <3>1. found[w] \in Profile /\ snaps[j.user] \in Profile
      BY <1>2, <1>3, <2>2 DEF UserSnapInv, TypeOK
    <3>2. Updated(found[w], j) \in Profile
      BY <1>2, <3>1 DEF Updated, Profile
    <3>3. Changed(snaps[j.user], found[w], Updated(found[w], j)) \in Profile
      BY <3>1, <3>2 DEF Changed, Profile
    <3>. QED  BY <2>2, <3>3
  <2>. QED  BY <2>1, <2>2
<1>5. snaps' = [snaps EXCEPT ![j.user] = p]
  BY <1>2 DEF CommitSnap, UserSnapInv, TypeOK
<1>6. /\ snaps' \in [Users -> Profile \cup {None}]
      /\ snaps'[j.user] # None
      /\ \A u \in Users : snaps[u] # None => snaps'[u] # None
  BY <1>2, <1>4, <1>5 DEF UserSnapInv, TypeOK
<1>. QED  BY <1>1, <1>6, WrittenPreserves DEF UserSnapInv, TypeOK, events

LEMMA UpsertFailsPreserves ==
    ASSUME UserSnapInv, NEW w \in Writers, UpsertFails(w)
    PROVE  UserSnapInv'
<1>1. /\ wpc[w] \in {"select", "flush", "commit"} /\ Written(w)
      /\ UNCHANGED <<userSide, queue, snaps>>
      /\ lost' = IF w = Consumer THEN lost \cup {job[w].user} ELSE lost
  BY DEF UpsertFails
<1>2. job[w].user \in Users
  BY <1>1, JobInHand
<1>. QED  BY <1>1, <1>2, WrittenPreserves DEF UserSnapInv, TypeOK

\* The event leaves the queue; its user has a snapshot or counts as lost.
LEMMA AcknowledgePreserves ==
    ASSUME UserSnapInv, Acknowledge
    PROVE  UserSnapInv'
<1>1. /\ wpc[Consumer] = "ack" /\ queue' = Tail(queue)
      /\ wpc' = [wpc EXCEPT ![Consumer] = "idle"]
      /\ UNCHANGED <<userSide, lost, snaps, job, found>>
  BY DEF Acknowledge
<1>2. /\ queue # <<>> /\ queue \in Seq(Event)
      /\ snaps[Head(queue).user] # None \/ Head(queue).user \in lost
  BY <1>1 DEF UserSnapInv, HeadInHand, TypeOK
<1>3. queue' \in Seq(Event)
  BY <1>1, <1>2
<1>4. /\ wpc' \in [Writers -> {"idle", "select", "flush", "commit", "ack"}]
      /\ wpc'[Consumer] = "idle" /\ \A w \in Writers \ {Consumer} : wpc'[w] = wpc[w]
  BY <1>1 DEF UserSnapInv, TypeOK, Writers
<1>5. TypeOK'
  BY <1>1, <1>3, <1>4 DEF UserSnapInv, TypeOK, userSide
<1>6. UpsertsInPlace' /\ HeadInHand'
  BY <1>1, <1>4 DEF UserSnapInv, UpsertsInPlace, HeadInHand
<1>7. \A u \in Users : Known(u) => Known(u)'
  BY <1>1, <1>2, TailInQueue DEF Known
<1>. QED  BY <1>1, <1>5, <1>6, <1>7, UserSidePreserved DEF UserSnapInv

LEMMA ThreadProcessDiesPreserves ==
    ASSUME UserSnapInv, ThreadProcessDies
    PROVE  UserSnapInv'
<1>1. /\ wpc' = [w \in Writers |-> "idle"] /\ job' = [w \in Writers |-> None]
      /\ found' = [w \in Writers |-> None]
      /\ UNCHANGED <<userSide, queue, lost, snaps>>
  BY DEF ThreadProcessDies, events
<1>2. TypeOK'
  BY <1>1 DEF UserSnapInv, TypeOK, userSide
<1>3. UpsertsInPlace' /\ HeadInHand'
  BY <1>1 DEF UpsertsInPlace, HeadInHand, Writers
<1>4. \A u \in Users : Known(u) => Known(u)'
  BY <1>1 DEF Known, InQueue
<1>. QED  BY <1>1, <1>2, <1>3, <1>4, UserSidePreserved DEF UserSnapInv

LEMMA ShutDownPreserves ==
    ASSUME UserSnapInv, ShutDown
    PROVE  UserSnapInv'
<1>1. /\ wpc[Consumer] \in {"select", "flush", "commit"}
      /\ lost' = lost \cup {job[Consumer].user} /\ queue' = Tail(queue)
      /\ wpc' = [wpc EXCEPT ![Consumer] = "idle"]
      /\ job' = [job EXCEPT ![Consumer] = None]
      /\ found' = [found EXCEPT ![Consumer] = None]
      /\ UNCHANGED <<userSide, snaps>>
  BY DEF ShutDown
<1>2. /\ queue # <<>> /\ queue \in Seq(Event)
      /\ job[Consumer].user = Head(queue).user
  BY <1>1 DEF UserSnapInv, HeadInHand, TypeOK
<1>3. queue' \in Seq(Event) /\ lost' \subseteq Users
  BY <1>1, <1>2, HeadIsEvent DEF UserSnapInv, TypeOK
<1>4. wpc'[Consumer] = "idle"
      /\ \A w \in Writers \ {Consumer} : UNCHANGED <<wpc[w], job[w], found[w]>>
  BY <1>1 DEF UserSnapInv, TypeOK, Writers
<1>5. TypeOK'
  BY <1>1, <1>3 DEF UserSnapInv, TypeOK, userSide
<1>6. UpsertsInPlace' /\ HeadInHand'
  BY <1>1, <1>4 DEF UserSnapInv, UpsertsInPlace, HeadInHand
<1>7. \A u \in Users : Known(u) => Known(u)'
  BY <1>1, <1>2, TailInQueue DEF Known
<1>. QED  BY <1>1, <1>5, <1>6, <1>7, UserSidePreserved DEF UserSnapInv

-----------------------------------------------------------------------------
(* The theorems.                                                           *)

LEMMA StutterPreserves ==
    ASSUME UserSnapInv, UNCHANGED vars
    PROVE  UserSnapInv'
<1>1. UNCHANGED <<userSide, events, snapSide>>
  BY DEF vars
<1>2. TypeOK'
  BY <1>1 DEF UserSnapInv, TypeOK, userSide, events, snapSide
<1>. QED  BY <1>1, <1>2, ThreadSideKept, UserSidePreserved DEF UserSnapInv

LEMMA NextPreserves ==
    ASSUME UserSnapInv, [Next]_vars
    PROVE  UserSnapInv'
<1>1. ASSUME NEW h \in Handlers, UserHandler(h)
      PROVE  UserSnapInv'
  BY <1>1, LoadUserPreserves, CheckUsernamePreserves, WriteUserPreserves,
     PublishUserPreserves, CommitUserPreserves DEF UserHandler
<1>2. ASSUME NEW h \in Handlers, CommitUserFails(h) \/ UserStatementFails(h)
      PROVE  UserSnapInv'
  BY <1>2, DonePreserves DEF CommitUserFails, UserStatementFails
<1>3. ASSUME NEW w \in Writers, Upsert(w) \/ UpsertFails(w)
      PROVE  UserSnapInv'
  BY <1>3, SelectSnapPreserves, FlushSnapPreserves, CommitSnapPreserves,
     UpsertFailsPreserves DEF Upsert
<1>4. CASE UNCHANGED vars
  BY <1>4, StutterPreserves
<1>. QED
  BY <1>1, <1>2, <1>3, <1>4, StartRequestPreserves, UserProcessDiesPreserves,
     StartSnapRequestPreserves, ReceivePreserves, AcknowledgePreserves,
     ThreadProcessDiesPreserves, ShutDownPreserves DEF Next

\* The invariant holds for any number of users, handlers and events and any
\* faults, patient clients or not.
THEOREM UserSnapInvariant == Spec => []UserSnapInv
<1>1. Init => UserSnapInv
  BY InitUserSnapInv
<1>2. UserSnapInv /\ [Next]_vars => UserSnapInv'
  BY NextPreserves
<1>. QED  BY <1>1, <1>2, PTL DEF Spec

\* Neither a race, nor a crash, nor a failing commit costs a user the snapshot:
\* only an event does that the broker refuses, whose handling fails, or that is
\* in hand when the service is shut down.
THEOREM AuthorsKnown == Spec => []AuthorsAreKnown
<1>1. UserSnapInv => AuthorsAreKnown
  BY DEF UserSnapInv
<1>. QED  BY <1>1, UserSnapInvariant, PTL

-----------------------------------------------------------------------------
(* The ordered copy, in the orderly setting: what is announced.            *)

LEMMA InMemoryIsRow ==
    ASSUME UserSnapInv, RequestsDoNotOverlap, NEW h \in Handlers,
           pc[h] \in {"check", "write", "publish", "commit"}
    PROVE  InMemory(h) \in Profile /\ Row(h) = InMemory(h)
<1>1. /\ h \in InFlight /\ req[h] \in Request /\ req[h].user \in Users
      /\ req[h].op = "update" => /\ users[req[h].user] # None
                                 /\ loaded[h] = users[req[h].user]
  BY InPlace DEF RequestsDoNotOverlap
<1>2. InMemory(h) \in Profile
  BY RowIsProfile DEF UserSnapInv
<1>3. CASE req[h].op = "register"
  BY <1>2, <1>3 DEF Row
<1>4. CASE req[h].op = "update"
  <2>1. users[req[h].user] \in Profile /\ Row(h) = Changed(loaded[h], loaded[h], InMemory(h))
    BY <1>1, <1>4 DEF Row, UserSnapInv, TypeOK
  <2>. QED  BY <1>1, <1>2, <1>4, <2>1 DEF Changed, Profile
<1>5. req[h].op \in {"register", "update"}
  BY <1>1 DEF Request
<1>. QED  BY <1>2, <1>3, <1>4, <1>5

\* One handler at most announces a profile of u.
LEMMA AnnouncedIs ==
    UserSnapInv /\ RequestsDoNotOverlap
    => /\ \A u \in Users, h \in Handlers :
             pc[h] = "commit" /\ req[h].user = u => Announced(u) = InMemory(h)
       /\ \A u \in Users :
             (\A h \in Handlers : pc[h] = "commit" => req[h].user # u)
             => Announced(u) = users[u]
<1>. SUFFICES ASSUME UserSnapInv, RequestsDoNotOverlap
              PROVE  /\ \A u \in Users, h \in Handlers :
                           pc[h] = "commit" /\ req[h].user = u
                           => Announced(u) = InMemory(h)
                     /\ \A u \in Users :
                           (\A h \in Handlers : pc[h] = "commit" => req[h].user # u)
                           => Announced(u) = users[u]
  OBVIOUS
<1>1. ASSUME NEW u \in Users, NEW h \in Handlers, pc[h] = "commit", req[h].user = u
      PROVE  Announced(u) = InMemory(h)
  <2>. DEFINE A == {g \in Handlers : pc[g] = "commit" /\ req[g].user = u}
  <2>1. \A g \in A : g = h
    BY <1>1 DEF RequestsDoNotOverlap, InFlight
  <2>2. A = {h}
    BY <1>1, <2>1
  <2>3. (CHOOSE g \in A : TRUE) = h
    <3>. HIDE DEF A
    <3>. QED  BY <2>2
  <2>4. Announced(u) = Row(CHOOSE g \in A : TRUE)
    BY <2>2 DEF Announced
  <2>. QED  BY <1>1, <2>3, <2>4, InMemoryIsRow
<1>2. ASSUME NEW u \in Users, \A h \in Handlers : pc[h] = "commit" => req[h].user # u
      PROVE  Announced(u) = users[u]
  <2>1. {h \in Handlers : pc[h] = "commit" /\ req[h].user = u} = {}
    BY <1>2
  <2>. QED  BY <2>1 DEF Announced
<1>. QED  BY <1>1, <1>2

LEMMA AnnouncedNext ==
    (UserSnapInv /\ RequestsDoNotOverlap
     => /\ \A u \in Users, h \in Handlers :
              pc[h] = "commit" /\ req[h].user = u => Announced(u) = InMemory(h)
        /\ \A u \in Users :
              (\A h \in Handlers : pc[h] = "commit" => req[h].user # u)
              => Announced(u) = users[u])'
BY AnnouncedIs, PTL

LEMMA EventAt ==
    ASSUME UserSnapInv
    PROVE  /\ Len(queue) \in Nat /\ queue \in Seq(Event)
           /\ \A i \in 1..Len(queue) :
                 queue[i].user \in Users /\ queue[i].profile \in Profile
<1>1. queue \in Seq(Event)
  BY DEF UserSnapInv, TypeOK
<1>2. \A i \in 1..Len(queue) : queue[i] \in Event
  BY <1>1
<1>. QED  BY <1>1, <1>2 DEF Event

LEMMA InitOrderedInv == Init => OrderedInv
<1>. SUFFICES ASSUME Init PROVE OrderedInv
  OBVIOUS
<1>1. InFlight = {} /\ Open = {} /\ Len(queue) = 0
  BY DEF Init, InFlight, Open
<1>2. RequestsDoNotOverlap /\ NamesApart
  BY <1>1 DEF Init, RequestsDoNotOverlap, NamesApart
<1>3. \A u \in Users : Announced(u) = None
  <2>1. UserSnapInv
    BY InitUserSnapInv
  <2>. QED  BY <1>2, <2>1, AnnouncedIs DEF Init
<1>4. \A u \in Users, n \in 0..Len(queue) : Shown(u, n) = {}
  BY <1>1 DEF Init, Shown
<1>5. EventsInTurn
  BY <1>1, <1>4 DEF EventsInTurn
<1>6. AvatarsStay
  BY <1>1, <1>3 DEF Init, AvatarsStay, Pictured
<1>7. ConsumerInStep /\ lost = {}
  BY DEF Init, ConsumerInStep, Writers
<1>. QED  BY <1>2, <1>5, <1>6, <1>7 DEF OrderedInv

-----------------------------------------------------------------------------
(* The user service, but for the event and the commit.                     *)

\* What is announced stays, as long as no handler comes to its commit or leaves it.
LEMMA AnnouncedKept ==
    ASSUME UserSnapInv, RequestsDoNotOverlap, UserSnapInv', RequestsDoNotOverlap',
           users' = users,
           \A h \in Handlers :
               /\ pc'[h] = "commit" <=> pc[h] = "commit"
               /\ pc[h] = "commit" => req'[h] = req[h] /\ loaded'[h] = loaded[h],
           NEW u \in Users
    PROVE  Announced(u)' = Announced(u)
<1>1. ASSUME NEW h \in Handlers, pc[h] = "commit", req[h].user = u
      PROVE  Announced(u)' = Announced(u)
  <2>1. Announced(u) = InMemory(h)
    BY <1>1, AnnouncedIs
  <2>2. pc'[h] = "commit" /\ req'[h] = req[h] /\ loaded'[h] = loaded[h]
    BY <1>1
  <2>3. Announced(u)' = InMemory(h)'
    BY <1>1, <2>2, AnnouncedNext
  <2>. QED  BY <2>1, <2>2, <2>3 DEF InMemory
<1>2. CASE \A h \in Handlers : pc[h] = "commit" => req[h].user # u
  <2>1. \A h \in Handlers : pc'[h] = "commit" => req'[h].user # u
    BY <1>2
  <2>2. Announced(u)' = users'[u]
    BY <2>1, AnnouncedNext
  <2>. QED  BY <1>2, <2>2, AnnouncedIs
<1>. QED  BY <1>1, <1>2

\* The thread service and the queue do not notice.
LEMMA QueueSideKept ==
    ASSUME UserSnapInv, OrderedInv, UNCHANGED <<events, snapSide>>,
           \A u \in Users : Announced(u)' = Announced(u)
    PROVE  EventsInTurn' /\ AvatarsStay' /\ ConsumerInStep' /\ lost' = {}
<1>1. UNCHANGED <<queue, lost, snaps, wpc, job, found>>
  BY DEF events, snapSide
<1>2. \A i \in 1..Len(queue) : queue[i].user \in Users
  BY EventAt
<1>3. EventsInTurn'
  <2>1. \A u \in Users, n \in 0..Len(queue) : Shown(u, n)' = Shown(u, n)
    BY <1>1 DEF Shown
  <2>2. Len(queue) \in Nat
    BY DEF UserSnapInv, TypeOK
  <2>. QED  BY <1>1, <2>1, <2>2 DEF OrderedInv, EventsInTurn
<1>4. AvatarsStay'
  BY <1>1, <1>2 DEF OrderedInv, AvatarsStay, Pictured
<1>5. ConsumerInStep' /\ lost' = {}
  BY <1>1 DEF OrderedInv, ConsumerInStep
<1>. QED  BY <1>3, <1>4, <1>5

\* A step of h that neither comes to the commit nor leaves it.
LEMMA UserStepOrdered ==
    ASSUME UserSnapInv, UserSnapInv', OrderedInv, NEW h \in Handlers,
           UNCHANGED <<users, events, snapSide>>,
           \A g \in Handlers \ {h} : UNCHANGED <<pc[g], req[g], loaded[g]>>,
           pc[h] # "commit", pc'[h] # "commit",
           RequestsDoNotOverlap', NamesApart'
    PROVE  OrderedInv'
<1>1. \A u \in Users : Announced(u)' = Announced(u)
  BY AnnouncedKept DEF OrderedInv
<1>. QED  BY <1>1, QueueSideKept DEF OrderedInv

LEMMA NamesKept ==
    ASSUME NamesApart, users' = users, Open' \subseteq Open,
           \A g \in Open' : req'[g] = req[g] /\ loaded'[g] = loaded[g]
    PROVE  NamesApart'
<1>1. \A g \in Open' : InMemory(g)' = InMemory(g)
  BY DEF InMemory
<1>. QED  BY <1>1 DEF NamesApart

LEMMA DoneOrdered ==
    ASSUME UserSnapInv, UserSnapInv', OrderedInv, NEW h \in Handlers, Done(h),
           pc[h] # "commit", UNCHANGED <<users, events, snapSide>>
    PROVE  OrderedInv'
<1>1. /\ pc'[h] = "idle"
      /\ \A g \in Handlers \ {h} : UNCHANGED <<pc[g], req[g], loaded[g]>>
  BY DEF Done, UserSnapInv, TypeOK
<1>2. RequestsDoNotOverlap'
  BY <1>1 DEF OrderedInv, RequestsDoNotOverlap, InFlight
<1>3. NamesApart'
  BY <1>1, NamesKept DEF OrderedInv, Open
<1>. QED  BY <1>1, <1>2, <1>3, UserStepOrdered

LEMMA StartRequestOrdered ==
    ASSUME Orderly, UserSnapInv, UserSnapInv', OrderedInv,
           NEW h \in Handlers, NEW q \in Request, StartRequest(h, q)
    PROVE  OrderedInv'
<1>1. /\ pc[h] = "idle" /\ pc'[h] \in {"load", "check"} /\ req'[h] = q
      /\ \A g \in Handlers \ {h} : pc'[g] = pc[g] /\ req'[g] = req[g]
      /\ UNCHANGED <<users, loaded, events, snapSide>>
      /\ q.op = "register" => users[q.user] = None
      /\ q.op = "update" => pc'[h] = "load"
      /\ \A g \in InFlight : req[g].user # q.user
  BY DEF StartRequest, Orderly, UserSnapInv, TypeOK
<1>2. q.op \in {"register", "update"}
  BY DEF Request
<1>3. RequestsDoNotOverlap'
  BY <1>1, <1>2 DEF OrderedInv, RequestsDoNotOverlap, InFlight
<1>4. NamesApart'
  BY <1>1, NamesKept DEF OrderedInv, Open
<1>. QED  BY <1>1, <1>3, <1>4, UserStepOrdered

LEMMA LoadUserOrdered ==
    ASSUME UserSnapInv, UserSnapInv', OrderedInv, NEW h \in Handlers, LoadUser(h)
    PROVE  OrderedInv'
<1>1. /\ pc[h] = "load" /\ pc'[h] = "check" /\ req' = req
      /\ loaded'[h] = users[req[h].user]
      /\ \A g \in Handlers \ {h} : pc'[g] = pc[g] /\ loaded'[g] = loaded[g]
      /\ UNCHANGED <<users, events, snapSide>>
  BY DEF LoadUser, UserSnapInv, TypeOK
<1>2. RequestsDoNotOverlap'
  BY <1>1 DEF OrderedInv, RequestsDoNotOverlap, InFlight
<1>3. NamesApart'
  BY <1>1, NamesKept DEF OrderedInv, Open
<1>. QED  BY <1>1, <1>2, <1>3, UserStepOrdered

LEMMA CheckUsernameOrdered ==
    ASSUME UserSnapInv, UserSnapInv', OrderedInv, NEW h \in Handlers, CheckUsername(h)
    PROVE  OrderedInv'
<1>1. pc[h] = "check" /\ UNCHANGED <<users, events, snapSide>>
  BY DEF CheckUsername
<1>2. CASE Done(h)
  BY <1>1, <1>2, DoneOrdered
<1>3. CASE pc' = [pc EXCEPT ![h] = "write"] /\ UNCHANGED <<req, loaded>>
  <2>1. pc'[h] = "write" /\ \A g \in Handlers \ {h} : pc'[g] = pc[g]
    BY <1>3 DEF UserSnapInv, TypeOK
  <2>2. RequestsDoNotOverlap'
    BY <1>1, <1>3, <2>1 DEF OrderedInv, RequestsDoNotOverlap, InFlight
  <2>3. NamesApart'
    BY <1>1, <1>3, <2>1, NamesKept DEF OrderedInv, Open
  <2>. QED  BY <1>1, <1>3, <2>1, <2>2, <2>3, UserStepOrdered
<1>. QED  BY <1>2, <1>3 DEF CheckUsername

\* The unique index: a name that h is about to give is nobody's, and nobody else is
\* about to give it or to give it up.
LEMMA WriteUserOrdered ==
    ASSUME UserSnapInv, UserSnapInv', OrderedInv, NEW h \in Handlers, WriteUser(h)
    PROVE  OrderedInv'
<1>. DEFINE u == req[h].user
            p == InMemory(h)
<1>1. pc[h] = "write" /\ UNCHANGED <<users, events, snapSide>>
  BY DEF WriteUser
<1>2. CASE Done(h)
  BY <1>1, <1>2, DoneOrdered
<1>3. CASE /\ ~ (WritesName(h) /\ NameTaken(req[h].name, Users \ {u}))
           /\ pc' = [pc EXCEPT ![h] = "publish"] /\ UNCHANGED <<req, loaded>>
  <2>1. pc'[h] = "publish" /\ \A g \in Handlers \ {h} : pc'[g] = pc[g]
    BY <1>3 DEF UserSnapInv, TypeOK
  <2>2. RequestsDoNotOverlap'
    BY <1>1, <1>3, <2>1 DEF OrderedInv, RequestsDoNotOverlap, InFlight
  <2>3. /\ h \in InFlight /\ req[h] \in Request /\ u \in Users
        /\ p \in Profile
        /\ req[h].op = "update" => users[u] # None /\ loaded[h] = users[u]
    BY <1>1, InPlace, InMemoryIsRow DEF OrderedInv, RequestsDoNotOverlap
  <2>4. WritesName(h) => p.name = req[h].name
    BY DEF WritesName, InMemory, Updated
  <2>5. ~ WritesName(h) => users[u] # None /\ p.name = users[u].name
    BY <2>3 DEF WritesName, Request
  <2>6. ASSUME NEW v \in Users, v # u, users[v] # None
        PROVE  users[v].name # p.name
    BY <1>3, <2>3, <2>4, <2>5, <2>6 DEF OrderedInv, NamesApart, NameTaken
  <2>7. ASSUME NEW g \in Open
        PROVE  InMemory(g).name # p.name
    <3>1. g \in Handlers /\ g # h /\ g \in InFlight /\ pc[g] \in {"publish", "commit"}
      BY <1>1, <2>7 DEF Open, InFlight
    <3>2. req[g].user # u /\ req[g].user \in Users
      BY <2>3, <3>1, InPlace DEF OrderedInv, RequestsDoNotOverlap
    <3>3. Row(g) = InMemory(g)
      BY <3>1, InMemoryIsRow DEF OrderedInv
    <3>4. CASE ~ WritesName(h)
      BY <2>3, <2>5, <2>7, <3>2, <3>4 DEF OrderedInv, NamesApart
    <3>5. CASE WritesName(h) /\ Writes(g)
      <4>1. Writes(h)
        BY <3>5 DEF Writes, WritesName
      <4>. QED  BY <2>4, <2>7, <3>1, <3>3, <3>5, <4>1 DEF WriteUser, Waits
    <3>6. CASE WritesName(h) /\ ~ Writes(g)
      <4>1. users[req[g].user] # None /\ InMemory(g) = users[req[g].user]
        <5>1. req[g].op = "update" /\ InMemory(g) = loaded[g]
          BY <3>1, <3>6, InPlace DEF Writes, Request
        <5>. QED  BY <3>1, <5>1, InPlace DEF OrderedInv, RequestsDoNotOverlap
      <4>. QED  BY <2>6, <3>2, <4>1
    <3>. QED  BY <3>4, <3>5, <3>6
  <2>8. NamesApart'
    <3>1. Open' = Open \cup {h}
      BY <2>1 DEF Open
    <3>2. \A g \in Handlers : InMemory(g)' = InMemory(g)
      BY <1>3 DEF InMemory
    <3>3. Open \subseteq Handlers
      BY DEF Open
    <3>. QED
      BY <1>1, <1>3, <2>6, <2>7, <3>1, <3>2, <3>3 DEF OrderedInv, NamesApart
  <2>. QED  BY <1>1, <1>3, <2>1, <2>2, <2>8, UserStepOrdered
<1>. QED  BY <1>2, <1>3 DEF WriteUser

-----------------------------------------------------------------------------
(* The event, and the commit.                                              *)

\* The event that h publishes becomes the last one, and what is announced of u.
LEMMA PublishAppends ==
    ASSUME Orderly, UserSnapInv, UserSnapInv', OrderedInv, NEW h \in Handlers, PublishUser(h),
           RequestsDoNotOverlap'
    PROVE  /\ req[h].user \in Users /\ InMemory(h) \in Profile
           /\ Len(queue') = Len(queue) + 1
           /\ \A i \in 1..Len(queue) : queue'[i] = queue[i]
           /\ queue'[Len(queue) + 1] = [user |-> req[h].user, profile |-> InMemory(h)]
           /\ Announced(req[h].user) = users[req[h].user]
           /\ \A v \in Users :
                 Announced(v)' = IF v = req[h].user THEN InMemory(h) ELSE Announced(v)
<1>. DEFINE u == req[h].user
            e == [user |-> u, profile |-> InMemory(h)]
<1>1. /\ pc[h] = "publish" /\ pc'[h] = "commit" /\ \A g \in Handlers \ {h} : pc'[g] = pc[g]
      /\ UNCHANGED <<users, req, loaded>>
      /\ queue' = Append(queue, e)
  BY DEF PublishUser, Orderly, UserSnapInv, TypeOK
<1>2. u \in Users /\ InMemory(h) \in Profile /\ h \in InFlight
  BY <1>1, InPlace, InMemoryIsRow DEF OrderedInv
<1>3. /\ Len(queue') = Len(queue) + 1
      /\ \A i \in 1..Len(queue) : queue'[i] = queue[i]
      /\ queue'[Len(queue) + 1] = e
  <2>1. e \in Event
    BY <1>2 DEF Event
  <2>. HIDE DEF e
  <2>. QED  BY <1>1, <2>1, EventAt
<1>4. \A g \in Handlers : g # h /\ pc[g] = "commit" => g \in InFlight /\ req[g].user # u
  BY <1>2 DEF OrderedInv, RequestsDoNotOverlap, InFlight
<1>5. Announced(u) = users[u]
  BY <1>1, <1>2, <1>4, AnnouncedIs DEF OrderedInv
<1>6. \A g \in Handlers : InMemory(g)' = InMemory(g)
  BY <1>1 DEF InMemory
<1>7. ASSUME NEW v \in Users, v = u
      PROVE  Announced(v)' = InMemory(h)
  <2>1. req'[h].user = v
    BY <1>1, <1>7
  <2>2. Announced(v)' = InMemory(h)'
    BY <1>1, <2>1, AnnouncedNext
  <2>. QED  BY <1>6, <2>2
<1>8. ASSUME NEW v \in Users \ {u}
      PROVE  Announced(v)' = Announced(v)
  <2>1. ASSUME NEW g \in Handlers, pc[g] = "commit", req[g].user = v
        PROVE  Announced(v)' = Announced(v)
    <3>1. Announced(v) = InMemory(g)
      BY <2>1, AnnouncedIs DEF OrderedInv
    <3>2. pc'[g] = "commit" /\ req'[g].user = v
      BY <1>1, <2>1
    <3>3. Announced(v)' = InMemory(g)'
      BY <3>2, AnnouncedNext
    <3>. QED  BY <1>6, <3>1, <3>3
  <2>2. CASE \A g \in Handlers : pc[g] = "commit" => req[g].user # v
    <3>1. \A g \in Handlers : pc'[g] = "commit" => req'[g].user # v
      BY <1>1, <1>8, <2>2
    <3>2. Announced(v)' = users'[v]
      BY <3>1, AnnouncedNext
    <3>. QED  BY <1>1, <2>2, <3>2, AnnouncedIs DEF OrderedInv
  <2>. QED  BY <2>1, <2>2
<1>. QED  BY <1>2, <1>3, <1>5, <1>7, <1>8

\* A profile that is announced of another user has another name.
LEMMA AnnouncedApart ==
    ASSUME UserSnapInv, OrderedInv, NEW h \in Open,
           NEW v \in Users, v # req[h].user, Announced(v) # None
    PROVE  Announced(v).name # InMemory(h).name
<1>1. ASSUME NEW g \in Handlers, pc[g] = "commit", req[g].user = v
      PROVE  Announced(v).name # InMemory(h).name
  <2>1. g \in Open /\ g # h /\ Announced(v) = InMemory(g)
    BY <1>1, AnnouncedIs DEF OrderedInv, Open
  <2>. QED  BY <2>1 DEF OrderedInv, NamesApart
<1>2. CASE \A g \in Handlers : pc[g] = "commit" => req[g].user # v
  BY <1>2, AnnouncedIs DEF OrderedInv, NamesApart
<1>. QED  BY <1>1, <1>2

\* What the update of a profile makes of it keeps an avatar that is there.
LEMMA UpdatesKeepAvatars ==
    ASSUME Orderly, UserSnapInv, OrderedInv, NEW h \in Handlers, pc[h] = "publish",
           Pictured(users[req[h].user])
    PROVE  Pictured(InMemory(h))
<1>. DEFINE u == req[h].user
<1>1. /\ h \in InFlight /\ req[h] \in Request /\ InMemory(h) \in Profile
  BY InPlace, InMemoryIsRow DEF OrderedInv
<1>2. req[h].op = "update" /\ loaded[h] = users[u]
  BY <1>1 DEF OrderedInv, RequestsDoNotOverlap, Pictured, Request
<1>3. req[h].avatar \in Avatars \cup {None}
  BY <1>1, <1>2 DEF Request, Orderly
<1>4. InMemory(h).avatar # None
  BY <1>2, <1>3 DEF InMemory, Updated, Pictured
<1>. QED  BY <1>1, <1>4 DEF Pictured

LEMMA PublishUserOrdered ==
    ASSUME Orderly, UserSnapInv, UserSnapInv', OrderedInv, NEW h \in Handlers, PublishUser(h)
    PROVE  OrderedInv'
<1>1. /\ pc[h] = "publish" /\ pc'[h] = "commit" /\ \A g \in Handlers \ {h} : pc'[g] = pc[g]
      /\ UNCHANGED <<users, req, loaded, snaps, wpc, job, found, lost>>
  BY DEF PublishUser, Orderly, UserSnapInv, TypeOK, snapSide
<1>2. RequestsDoNotOverlap'
  BY <1>1 DEF OrderedInv, RequestsDoNotOverlap, InFlight
<1>3. NamesApart'
  BY <1>1, NamesKept DEF OrderedInv, Open
<1>4. PICK u \in Users, p \in Profile, n \in Nat :
        u = req[h].user /\ p = InMemory(h) /\ n = Len(queue)
  BY <1>2, PublishAppends, EventAt
<1>5. /\ Len(queue') = n + 1
      /\ \A i \in 1..n : queue'[i] = queue[i]
      /\ queue'[n + 1].user = u /\ queue'[n + 1].profile = p
      /\ Announced(u) = users[u]
      /\ \A v \in Users : Announced(v)' = IF v = u THEN p ELSE Announced(v)
  <2>1. /\ Len(queue') = Len(queue) + 1
        /\ \A i \in 1..Len(queue) : queue'[i] = queue[i]
        /\ queue'[Len(queue) + 1] = [user |-> req[h].user, profile |-> InMemory(h)]
        /\ Announced(req[h].user) = users[req[h].user]
        /\ \A v \in Users :
              Announced(v)' = IF v = req[h].user THEN InMemory(h) ELSE Announced(v)
    BY <1>2, PublishAppends
  <2>. QED  BY <1>4, <2>1
<1>6. \A v \in Users, m \in 0..n : Shown(v, m)' = Shown(v, m)
  BY <1>1, <1>5 DEF Shown
<1>7. ASSUME NEW v \in Users, NEW q \in Shown(v, n + 1)'
      PROVE  IF v = u THEN q = p ELSE q \in Shown(v, n)
  <2>1. CASE \A i \in 1..(n + 1) : queue'[i].user # v
    <3>1. v # u /\ \A i \in 1..n : queue[i].user # v
      BY <1>5, <2>1
    <3>2. \A i \in 1..(n + 1) : queue'[i].user = v => FALSE
      BY <2>1
    <3>3. q \in {snaps'[v]} \ {None}
      BY <1>7, <3>2 DEF Shown
    <3>. QED  BY <1>1, <3>1, <3>3 DEF Shown
  <2>2. CASE \E i \in 1..(n + 1) : queue'[i].user = v
    <3>1. PICK i \in 1..(n + 1) : /\ q = queue'[i].profile /\ queue'[i].user = v
                                  /\ \A j \in (i + 1)..(n + 1) : queue'[j].user # v
      BY <1>7, <2>2 DEF Shown
    <3>2. CASE i = n + 1
      BY <1>5, <3>1, <3>2
    <3>3. CASE i \in 1..n
      <4>1. v # u /\ queue[i].user = v /\ q = queue[i].profile
        BY <1>5, <3>1, <3>3
      <4>2. \A j \in (i + 1)..n : queue[j].user # v
        BY <1>5, <3>1, <3>3
      <4>. QED  BY <3>3, <4>1, <4>2 DEF Shown
    <3>. QED  BY <3>1, <3>2, <3>3
  <2>. QED  BY <2>1, <2>2
<1>8. EventsInTurn'
  <2>1. ASSUME NEW v \in Users, v # u, NEW q \in Shown(v, n)
        PROVE  q = Announced(v) /\ q.name # p.name
    <3>1. q = Announced(v)
      BY <1>4, <2>1 DEF OrderedInv, EventsInTurn
    <3>2. q # None
      <4>1. \A i \in 1..n : queue[i].profile # None
        BY <1>4, EventAt
      <4>. QED  BY <2>1, <4>1 DEF Shown
    <3>. QED  BY <1>1, <1>4, <2>1, <3>1, <3>2, AnnouncedApart DEF Open
  <2>2. ASSUME NEW m \in 0..(n + 1), NEW v \in Users, NEW w \in Users, v # w,
               NEW q \in Shown(v, m)', NEW x \in Shown(w, m)'
        PROVE  q.name # x.name
    <3>1. CASE m \in 0..n
      BY <1>4, <1>6, <2>2, <3>1 DEF OrderedInv, EventsInTurn
    <3>2. CASE m = n + 1
      <4>1. /\ IF v = u THEN q = p ELSE q \in Shown(v, n)
            /\ IF w = u THEN x = p ELSE x \in Shown(w, n)
        BY <1>7, <2>2, <3>2
      <4>2. v # u /\ w # u => q.name # x.name
        BY <1>4, <2>2, <4>1 DEF OrderedInv, EventsInTurn
      <4>. QED  BY <2>1, <2>2, <4>1, <4>2
    <3>. QED  BY <3>1, <3>2
  <2>3. ASSUME NEW v \in Users, NEW q \in Shown(v, n + 1)'
        PROVE  q = Announced(v)'
    BY <1>5, <1>7, <2>1, <2>3
  <2>. QED  BY <1>5, <2>2, <2>3 DEF EventsInTurn
<1>9. AvatarsStay'
  <2>1. Pictured(users[u]) => Pictured(p)
    BY <1>1, <1>4, UpdatesKeepAvatars
  <2>2. ASSUME NEW v \in Users
        PROVE  /\ Announced(v) # None => Announced(v)' # None
               /\ Pictured(Announced(v)) => Pictured(Announced(v)')
    BY <1>5, <2>1
  <2>3. ASSUME NEW v \in Users, NEW i \in 1..(n + 1), queue'[i].user = v
        PROVE  /\ Announced(v)' # None
               /\ Pictured(snaps[v]) => Pictured(queue'[i].profile)
               /\ Pictured(queue'[i].profile) =>
                     /\ Pictured(Announced(v)')
                     /\ \A j \in i..(n + 1) :
                           queue'[j].user = v => Pictured(queue'[j].profile)
    <3>1. CASE i = n + 1
      <4>1. v = u /\ queue'[i].profile = p /\ Announced(v)' = p
        BY <1>5, <2>3, <3>1
      <4>2. Pictured(snaps[v]) => Pictured(p)
        BY <1>5, <2>1, <4>1 DEF OrderedInv, AvatarsStay
      <4>. QED  BY <3>1, <4>1, <4>2
    <3>2. CASE i \in 1..n
      <4>1. /\ Announced(v) # None
            /\ Pictured(snaps[v]) => Pictured(queue[i].profile)
            /\ Pictured(queue[i].profile) =>
                  /\ Pictured(Announced(v))
                  /\ \A j \in i..n : queue[j].user = v => Pictured(queue[j].profile)
        BY <1>4, <1>5, <2>3, <3>2 DEF OrderedInv, AvatarsStay
      <4>2. \A j \in i..(n + 1) : j \in i..n \/ j = n + 1
        BY <3>2
      <4>3. Pictured(queue[i].profile) /\ u = v => Pictured(p)
        BY <1>5, <2>1, <4>1
      <4>4. ASSUME Pictured(queue[i].profile), NEW j \in i..(n + 1), queue'[j].user = v
            PROVE  Pictured(queue'[j].profile)
        BY <1>5, <3>2, <4>1, <4>2, <4>3, <4>4
      <4>. QED  BY <1>5, <2>2, <3>2, <4>1, <4>4
    <3>. QED  BY <3>1, <3>2
  <2>4. ASSUME NEW v \in Users
        PROVE  /\ snaps'[v] # None => Announced(v)' # None
               /\ Pictured(snaps'[v]) => Pictured(Announced(v)')
    BY <1>1, <2>2 DEF OrderedInv, AvatarsStay
  <2>. QED  BY <1>1, <1>5, <2>3, <2>4 DEF AvatarsStay, Pictured
<1>10. ConsumerInStep' /\ lost' = {}
  <2>1. wpc[Consumer] # "idle" => Head(queue') = Head(queue)
    <3>1. wpc[Consumer] # "idle" => n \in Nat \ {0} /\ Head(queue) = queue[1]
      BY <1>4, EventAt DEF UserSnapInv, HeadInHand
    <3>2. wpc[Consumer] # "idle" => Head(queue') = queue'[1]
      BY <1>5, <3>1 DEF UserSnapInv, TypeOK
    <3>. QED  BY <1>5, <3>1, <3>2
  <2>. QED  BY <1>1, <2>1 DEF OrderedInv, ConsumerInStep
<1>. QED  BY <1>2, <1>3, <1>8, <1>9, <1>10 DEF OrderedInv

\* The row takes the profile that has been announced.
LEMMA CommitUserOrdered ==
    ASSUME UserSnapInv, UserSnapInv', OrderedInv, NEW h \in Handlers, CommitUser(h)
    PROVE  OrderedInv' /\ \A v \in Users : Announced(v)' = Announced(v)
<1>1. /\ pc[h] = "commit" /\ pc'[h] = "idle" /\ UNCHANGED <<events, snapSide>>
      /\ \A g \in Handlers \ {h} : UNCHANGED <<pc[g], req[g], loaded[g]>>
  BY DEF CommitUser, Done, UserSnapInv, TypeOK
<1>2. PICK u \in Users, p \in Profile : u = req[h].user /\ p = InMemory(h)
  BY <1>1, InPlace, InMemoryIsRow DEF OrderedInv
<1>3. /\ h \in InFlight /\ req[h].op \in {"register", "update"} /\ Row(h) = p
      /\ req[h].op = "update" => loaded[h] = users[u]
  BY <1>1, <1>2, InPlace, InMemoryIsRow DEF OrderedInv, RequestsDoNotOverlap, Request
<1>4. users'[u] = p /\ \A v \in Users \ {u} : users'[v] = users[v]
  <2>1. ~ Writes(h) => p = users[u]
    BY <1>2, <1>3 DEF Writes
  <2>. QED  BY <1>2, <1>3, <2>1 DEF CommitUser, UserSnapInv, TypeOK
<1>5. \A g \in InFlight' : /\ g \in InFlight \ {h} /\ g \in Handlers /\ req[g].user # u
                           /\ UNCHANGED <<pc[g], req[g], loaded[g]>>
  BY <1>1, <1>2, <1>3 DEF OrderedInv, RequestsDoNotOverlap, InFlight
<1>6. RequestsDoNotOverlap'
  <2>1. \A g \in InFlight' : req[g].user \in Users
    BY <1>5, InPlace DEF InFlight
  <2>. QED  BY <1>4, <1>5, <2>1 DEF OrderedInv, RequestsDoNotOverlap
<1>7. NamesApart'
  <2>1. \A g \in Open' : /\ g \in Open \ {h} /\ req'[g] = req[g] /\ req[g].user # u
                         /\ InMemory(g)' = InMemory(g)
    BY <1>5 DEF Open, InFlight, InMemory
  <2>2. h \in Open
    BY <1>1 DEF Open
  <2>. QED  BY <1>2, <1>4, <2>1, <2>2 DEF OrderedInv, NamesApart
<1>8. ASSUME NEW v \in Users
      PROVE  Announced(v)' = Announced(v)
  <2>1. CASE v = u
    <3>1. Announced(v) = p
      BY <1>1, <1>2, <2>1, AnnouncedIs DEF OrderedInv
    <3>2. \A g \in Handlers : pc'[g] = "commit" => req'[g].user # v
      BY <1>5, <2>1 DEF InFlight
    <3>. QED  BY <1>4, <1>6, <2>1, <3>1, <3>2, AnnouncedNext
  <2>2. CASE v # u /\ \E g \in Handlers : pc[g] = "commit" /\ req[g].user = v
    <3>1. PICK g \in Handlers : pc[g] = "commit" /\ req[g].user = v
      BY <2>2
    <3>2. g # h /\ pc'[g] = "commit" /\ req'[g].user = v /\ InMemory(g)' = InMemory(g)
      BY <1>1, <1>2, <2>2, <3>1 DEF InMemory
    <3>. QED  BY <1>6, <3>1, <3>2, AnnouncedIs, AnnouncedNext DEF OrderedInv
  <2>3. CASE v # u /\ \A g \in Handlers : pc[g] = "commit" => req[g].user # v
    <3>1. \A g \in Handlers : pc'[g] = "commit" => req'[g].user # v
      BY <1>1, <2>3
    <3>. QED  BY <1>4, <1>6, <2>3, <3>1, AnnouncedIs, AnnouncedNext DEF OrderedInv
  <2>. QED  BY <2>1, <2>2, <2>3
<1>. QED  BY <1>1, <1>6, <1>7, <1>8, QueueSideKept DEF OrderedInv

-----------------------------------------------------------------------------
(* The thread service: only its consumer writes.                           *)

LEMMA ConsumerOnly == Orderly => Writers = {Consumer}
BY DEF Orderly, Writers

\* The user service does not notice.
LEMMA UserSideStays ==
    ASSUME UserSnapInv, UserSnapInv', OrderedInv, UNCHANGED userSide
    PROVE  /\ RequestsDoNotOverlap' /\ NamesApart'
           /\ \A u \in Users : Announced(u)' = Announced(u)
<1>1. UNCHANGED <<users, pc, req, loaded>>
  BY DEF userSide
<1>2. RequestsDoNotOverlap'
  BY <1>1 DEF OrderedInv, RequestsDoNotOverlap, InFlight
<1>3. NamesApart'
  BY <1>1, NamesKept DEF OrderedInv, Open
<1>. QED  BY <1>1, <1>2, <1>3, AnnouncedKept DEF OrderedInv

LEMMA ConsumerMoveOrdered ==
    ASSUME UserSnapInv, UserSnapInv', OrderedInv, UNCHANGED <<userSide, events, snaps>>,
           ConsumerInStep'
    PROVE  OrderedInv'
<1>1. \A u \in Users : Announced(u)' = Announced(u)
  BY UserSideStays
<1>2. UNCHANGED <<queue, lost, snaps>>
  BY DEF events
<1>3. EventsInTurn'
  <2>1. \A u \in Users, n \in 0..Len(queue) : Shown(u, n)' = Shown(u, n)
    BY <1>2 DEF Shown
  <2>2. Len(queue) \in Nat
    BY EventAt
  <2>. QED  BY <1>1, <1>2, <2>1, <2>2 DEF OrderedInv, EventsInTurn
<1>4. AvatarsStay'
  BY <1>1, <1>2 DEF OrderedInv, AvatarsStay, Pictured
<1>. QED  BY <1>2, <1>3, <1>4, UserSideStays DEF OrderedInv

LEMMA ReceiveOrdered ==
    ASSUME UserSnapInv, UserSnapInv', OrderedInv, Receive
    PROVE  OrderedInv'
<1>1. Consumer \in Writers
  BY DEF Writers
<1>2. ConsumerInStep'
  BY <1>1 DEF Receive, ConsumerInStep, events, UserSnapInv, TypeOK
<1>. QED  BY <1>2, ConsumerMoveOrdered DEF Receive

LEMMA SelectSnapOrdered ==
    ASSUME Orderly, UserSnapInv, UserSnapInv', OrderedInv,
           NEW w \in Writers, SelectSnap(w)
    PROVE  OrderedInv'
<1>1. w = Consumer /\ wpc[w] = "select" /\ UNCHANGED <<userSide, events, snaps>>
  BY ConsumerOnly DEF SelectSnap
<1>2. job[w].op = "event" /\ job[w].user = Head(queue).user
  BY <1>1 DEF UserSnapInv, HeadInHand
<1>3. wpc'[w] = "flush" /\ job' = job /\ found'[w] = snaps[job[w].user]
  BY <1>2 DEF SelectSnap, UserSnapInv, TypeOK
<1>4. ConsumerInStep'
  BY <1>1, <1>2, <1>3 DEF OrderedInv, ConsumerInStep, events
<1>. QED  BY <1>1, <1>4, ConsumerMoveOrdered

\* The row has not changed since it was read.
LEMMA FlushSnapOrdered ==
    ASSUME Orderly, UserSnapInv, UserSnapInv', OrderedInv,
           NEW w \in Writers, FlushSnap(w)
    PROVE  OrderedInv'
<1>1. w = Consumer /\ wpc[w] = "flush" /\ UNCHANGED <<userSide, events, snaps>>
  BY ConsumerOnly DEF FlushSnap
<1>2. job[w].user = Head(queue).user /\ found[w] = snaps[job[w].user]
  BY <1>1 DEF UserSnapInv, HeadInHand, OrderedInv, ConsumerInStep
<1>3. wpc'[w] = "commit" /\ UNCHANGED <<job, found>>
  BY <1>2 DEF FlushSnap, UserSnapInv, TypeOK
<1>4. ConsumerInStep'
  BY <1>1, <1>3 DEF OrderedInv, ConsumerInStep, events
<1>. QED  BY <1>1, <1>4, ConsumerMoveOrdered

LEMMA ThreadProcessDiesOrdered ==
    ASSUME UserSnapInv, UserSnapInv', OrderedInv, ThreadProcessDies
    PROVE  OrderedInv'
<1>1. wpc'[Consumer] = "idle" /\ UNCHANGED <<userSide, events, snaps>>
  BY DEF ThreadProcessDies, Writers
<1>. QED  BY <1>1, ConsumerMoveOrdered DEF ConsumerInStep

\* An event without an avatar meets a snapshot without one: the snapshot becomes
\* what the event says.
LEMMA CommitShowsEvent ==
    ASSUME Orderly, UserSnapInv, OrderedInv, NEW w \in Writers, CommitSnap(w)
    PROVE  /\ w = Consumer /\ queue # <<>> /\ UNCHANGED <<userSide, events>>
           /\ wpc'[Consumer] = "ack"
           /\ snaps' = [snaps EXCEPT ![Head(queue).user] = Head(queue).profile]
<1>. DEFINE j == job[w]
<1>1. /\ w = Consumer /\ wpc[w] = "commit" /\ UNCHANGED <<userSide, events>>
      /\ wpc'[Consumer] = "ack" /\ queue # <<>>
  BY ConsumerOnly DEF CommitSnap, Written, UserSnapInv, TypeOK, HeadInHand
<1>2. PICK u \in Users, e \in Profile : u = Head(queue).user /\ e = Head(queue).profile
  BY <1>1, HeadIsEvent DEF Event
<1>3. /\ j.user = u /\ j.name = e.name /\ j.avatar = e.avatar /\ found[w] = snaps[u]
      /\ snaps[u] \in Profile \cup {None}
  BY <1>1, <1>2 DEF UserSnapInv, TypeOK, HeadInHand, OrderedInv, ConsumerInStep
<1>4. Pictured(snaps[u]) => Pictured(e)
  <2>1. Len(queue) \in Nat \ {0} /\ Head(queue) = queue[1]
    BY <1>1, EventAt
  <2>. QED  BY <1>2, <2>1 DEF OrderedInv, AvatarsStay
<1>5. e.name \in Names /\ e.avatar \in Avatars \cup {None}
      /\ e = [name |-> e.name, avatar |-> e.avatar]
  BY <1>2 DEF Profile
<1>6. CASE found[w] = None
  BY <1>2, <1>3, <1>5, <1>1, <1>6 DEF CommitSnap
<1>7. CASE found[w] # None
  <2>1. snaps[u] \in Profile
    BY <1>3, <1>7
  <2>2. Updated(found[w], j) = e
    <3>1. Updated(found[w], j).name = e.name
      BY <1>3, <1>5 DEF Updated
    <3>2. Updated(found[w], j).avatar = e.avatar
      BY <1>3, <1>4, <1>5, <2>1 DEF Updated, Pictured
    <3>. QED  BY <1>5, <3>1, <3>2 DEF Updated
  <2>3. Changed(snaps[u], found[w], e) = e
    BY <1>3, <1>5, <2>1 DEF Changed, Profile
  <2>. QED  BY <1>1, <1>2, <1>3, <1>7, <2>2, <2>3 DEF CommitSnap
<1>. QED  BY <1>1, <1>6, <1>7

\* The snapshot shows the first event: that is what it would show after that event.
LEMMA CommitSnapOrdered ==
    ASSUME Orderly, UserSnapInv, UserSnapInv', OrderedInv,
           NEW w \in Writers, CommitSnap(w)
    PROVE  OrderedInv'
<1>1. /\ queue # <<>> /\ UNCHANGED <<userSide, queue, lost>>
      /\ wpc'[Consumer] = "ack"
      /\ snaps' = [snaps EXCEPT ![Head(queue).user] = Head(queue).profile]
  BY CommitShowsEvent DEF events
<1>2. PICK u \in Users, e \in Profile, len \in Nat \ {0} :
        /\ u = Head(queue).user /\ e = Head(queue).profile
        /\ len = Len(queue) /\ Head(queue) = queue[1]
  BY <1>1, HeadIsEvent, EventAt DEF Event
<1>3. snaps'[u] = e /\ \A v \in Users \ {u} : snaps'[v] = snaps[v]
  BY <1>1, <1>2 DEF UserSnapInv, TypeOK
<1>4. ASSUME NEW v \in Users, NEW n \in 0..len
      PROVE  Shown(v, n)' \subseteq Shown(v, IF n = 0 THEN 1 ELSE n)
  <2>1. CASE n = 0
    <3>1. Shown(v, n)' = {snaps'[v]} \ {None}
      BY <2>1 DEF Shown
    <3>2. CASE v = u
      <4>1. queue[1].user = v /\ queue[1].profile = e /\ \A i \in 2..1 : FALSE
        BY <1>2, <3>2
      <4>2. e \in Shown(v, 1)
        BY <4>1 DEF Shown
      <4>. QED  BY <1>3, <2>1, <3>1, <3>2, <4>2
    <3>3. CASE v # u
      <4>1. \A i \in 1..1 : queue[i].user # v
        BY <1>2, <3>3
      <4>2. {snaps[v]} \ {None} \subseteq Shown(v, 1)
        BY <4>1 DEF Shown
      <4>. QED  BY <1>3, <2>1, <3>1, <3>3, <4>2
    <3>. QED  BY <3>2, <3>3
  <2>2. CASE n \in 1..len
    <3>1. v = u => \E i \in 1..n : queue[i].user = v
      BY <1>2, <2>2
    <3>. QED  BY <1>1, <1>3, <2>2, <3>1 DEF Shown
  <2>. QED  BY <2>1, <2>2
<1>5. \A v \in Users : Announced(v)' = Announced(v)
  BY <1>1, UserSideStays
<1>6. EventsInTurn'
  <2>1. ASSUME NEW n \in 0..len, NEW v \in Users, NEW x \in Users, v # x,
               NEW p \in Shown(v, n)', NEW q \in Shown(x, n)'
        PROVE  p.name # q.name
    <3>1. PICK m \in 0..len : m = IF n = 0 THEN 1 ELSE n
      BY <1>2
    <3>2. p \in Shown(v, m) /\ q \in Shown(x, m)
      BY <1>4, <2>1, <3>1
    <3>. QED  BY <1>2, <2>1, <3>2 DEF OrderedInv, EventsInTurn
  <2>2. ASSUME NEW v \in Users, NEW p \in Shown(v, len)'
        PROVE  p = Announced(v)'
    <3>1. p \in Shown(v, len)
      BY <1>2, <1>4, <2>2
    <3>. QED  BY <1>2, <1>5, <3>1 DEF OrderedInv, EventsInTurn
  <2>. QED  BY <1>1, <1>2, <2>1, <2>2 DEF EventsInTurn
<1>7. AvatarsStay'
  <2>1. ASSUME NEW v \in Users
        PROVE  /\ snaps'[v] # None => Announced(v) # None
               /\ Pictured(snaps'[v]) => Pictured(Announced(v))
               /\ \A i \in 1..len :
                     queue[i].user = v /\ Pictured(snaps'[v])
                     => Pictured(queue[i].profile)
    <3>1. CASE v = u
      BY <1>2, <1>3, <3>1 DEF OrderedInv, AvatarsStay
    <3>2. CASE v # u
      BY <1>2, <1>3, <3>2 DEF OrderedInv, AvatarsStay
    <3>. QED  BY <3>1, <3>2
  <2>. QED  BY <1>1, <1>2, <1>5, <2>1 DEF OrderedInv, AvatarsStay, Pictured
<1>8. ConsumerInStep' /\ lost' = {}
  BY <1>1, <1>2, <1>3 DEF OrderedInv, ConsumerInStep
<1>. QED  BY <1>1, <1>6, <1>7, <1>8, UserSideStays DEF OrderedInv

\* The first event goes, and the snapshot is what it would have shown after it.
LEMMA AcknowledgeOrdered ==
    ASSUME UserSnapInv, UserSnapInv', OrderedInv, Acknowledge
    PROVE  OrderedInv'
<1>1. /\ queue # <<>> /\ queue' = Tail(queue) /\ UNCHANGED <<userSide, lost, snaps>>
      /\ wpc[Consumer] = "ack" /\ wpc'[Consumer] = "idle"
  BY DEF Acknowledge, Writers, UserSnapInv, TypeOK, HeadInHand
<1>2. PICK u \in Users, e \in Profile, len \in Nat :
        /\ u = Head(queue).user /\ e = Head(queue).profile /\ Head(queue) = queue[1]
        /\ Len(queue) = len + 1 /\ Len(queue') = len
        /\ \A i \in 1..len : queue'[i] = queue[i + 1]
  BY <1>1, HeadIsEvent, EventAt DEF Event
<1>3. snaps[u] = e
  BY <1>1, <1>2 DEF OrderedInv, ConsumerInStep
<1>4. ASSUME NEW v \in Users, NEW n \in 0..len, NEW p \in Shown(v, n)'
      PROVE  p \in Shown(v, n + 1)
  <2>1. CASE \E i \in 1..n : queue'[i].user = v
    <3>1. PICK i \in 1..n : /\ p = queue'[i].profile /\ queue'[i].user = v
                            /\ \A j \in (i + 1)..n : queue'[j].user # v
      BY <1>4, <2>1 DEF Shown
    <3>2. p = queue[i + 1].profile /\ queue[i + 1].user = v
      BY <1>2, <3>1
    <3>3. ASSUME NEW j \in (i + 2)..(n + 1)
          PROVE  queue[j].user # v
      <4>1. j - 1 \in (i + 1)..n /\ j - 1 \in 1..len /\ (j - 1) + 1 = j
        OBVIOUS
      <4>. QED  BY <1>2, <3>1, <4>1
    <3>. QED  BY <3>2, <3>3 DEF Shown
  <2>2. CASE \A i \in 1..n : queue'[i].user # v
    <3>1. p = snaps[v] /\ p # None
      <4>1. \A i \in 1..n : queue'[i].user = v => FALSE
        BY <2>2
      <4>. QED  BY <1>1, <1>4, <4>1 DEF Shown
    <3>2. \A j \in 2..(n + 1) : queue[j].user # v
      <4>. SUFFICES ASSUME NEW j \in 2..(n + 1) PROVE queue[j].user # v
        OBVIOUS
      <4>1. j - 1 \in 1..n /\ j - 1 \in 1..len /\ (j - 1) + 1 = j
        OBVIOUS
      <4>. QED  BY <1>2, <2>2, <4>1
    <3>3. CASE v = u
      BY <1>2, <1>3, <3>1, <3>2, <3>3 DEF Shown
    <3>4. CASE v # u
      <4>1. \A j \in 1..(n + 1) : queue[j].user # v
        BY <1>2, <3>2, <3>4
      <4>. QED  BY <3>1, <4>1 DEF Shown
    <3>. QED  BY <3>3, <3>4
  <2>. QED  BY <2>1, <2>2
<1>5. \A v \in Users : Announced(v)' = Announced(v)
  BY <1>1, UserSideStays
<1>6. EventsInTurn'
  <2>1. ASSUME NEW n \in 0..len, NEW v \in Users, NEW x \in Users, v # x,
               NEW p \in Shown(v, n)', NEW q \in Shown(x, n)'
        PROVE  p.name # q.name
    <3>1. p \in Shown(v, n + 1) /\ q \in Shown(x, n + 1) /\ n + 1 \in 0..Len(queue)
      BY <1>2, <1>4, <2>1
    <3>. QED  BY <2>1, <3>1 DEF OrderedInv, EventsInTurn
  <2>2. ASSUME NEW v \in Users, NEW p \in Shown(v, len)'
        PROVE  p = Announced(v)'
    <3>1. p \in Shown(v, len + 1)
      BY <1>4, <2>2
    <3>. QED  BY <1>2, <1>5, <3>1 DEF OrderedInv, EventsInTurn
  <2>. QED  BY <1>2, <2>1, <2>2 DEF EventsInTurn
<1>7. AvatarsStay'
  <2>1. ASSUME NEW v \in Users, NEW i \in 1..len, queue'[i].user = v
        PROVE  /\ Announced(v) # None
               /\ Pictured(snaps[v]) => Pictured(queue'[i].profile)
               /\ Pictured(queue'[i].profile) =>
                     /\ Pictured(Announced(v))
                     /\ \A j \in i..len :
                           queue'[j].user = v => Pictured(queue'[j].profile)
    <3>1. i + 1 \in 1..Len(queue) /\ queue[i + 1] = queue'[i]
      BY <1>2
    <3>2. \A j \in i..len : j + 1 \in (i + 1)..Len(queue) /\ queue[j + 1] = queue'[j]
      BY <1>2
    <3>. QED  BY <2>1, <3>1, <3>2 DEF OrderedInv, AvatarsStay
  <2>. QED  BY <1>1, <1>2, <1>5, <2>1 DEF OrderedInv, AvatarsStay, Pictured
<1>8. ConsumerInStep' /\ lost' = {}
  BY <1>1 DEF OrderedInv, ConsumerInStep
<1>. QED  BY <1>1, <1>6, <1>7, <1>8, UserSideStays DEF OrderedInv

-----------------------------------------------------------------------------
(* The ordered copy: the theorems.                                         *)

LEMMA NextOrdered ==
    ASSUME Orderly, UserSnapInv, OrderedInv, [Next]_vars
    PROVE  OrderedInv'
<1>1. UserSnapInv'
  BY NextPreserves
<1>2. ASSUME NEW h \in Handlers, UserHandler(h)
      PROVE  OrderedInv'
  BY <1>1, <1>2, LoadUserOrdered, CheckUsernameOrdered, WriteUserOrdered,
     PublishUserOrdered, CommitUserOrdered DEF UserHandler
<1>3. ASSUME NEW h \in Handlers, NEW q \in Request, StartRequest(h, q)
      PROVE  OrderedInv'
  BY <1>1, <1>3, StartRequestOrdered
<1>4. ASSUME NEW h \in Handlers, CommitUserFails(h) \/ UserStatementFails(h)
      PROVE  OrderedInv'
  <2>1. Done(h) /\ pc[h] # "commit" /\ UNCHANGED <<users, events, snapSide>>
    BY <1>4 DEF Orderly, CommitUserFails, UserStatementFails
  <2>. QED  BY <1>1, <2>1, DoneOrdered
<1>5. ASSUME NEW w \in Writers, Upsert(w) \/ UpsertFails(w)
      PROVE  OrderedInv'
  <2>1. Upsert(w)
    BY <1>5 DEF Orderly, UpsertFails
  <2>. QED  BY <1>1, <2>1, SelectSnapOrdered, FlushSnapOrdered, CommitSnapOrdered DEF Upsert
<1>6. CASE Receive \/ Acknowledge \/ ThreadProcessDies
  BY <1>1, <1>6, ReceiveOrdered, AcknowledgeOrdered, ThreadProcessDiesOrdered
<1>7. CASE UNCHANGED vars
  <2>1. UNCHANGED <<userSide, queue, events, snaps, wpc, job, found>>
    BY <1>7 DEF vars, events, snapSide
  <2>2. ConsumerInStep'
    BY <2>1 DEF OrderedInv, ConsumerInStep
  <2>. QED  BY <1>1, <2>1, <2>2, ConsumerMoveOrdered
<1>8. ~ UserProcessDies /\ ~ ShutDown
  BY DEF Orderly, UserProcessDies, ShutDown
<1>9. ASSUME NEW w \in SnapHandlers PROVE FALSE
  BY <1>9 DEF Orderly
<1>. QED  BY <1>2, <1>3, <1>4, <1>5, <1>6, <1>7, <1>8, <1>9 DEF Next

\* If nothing gets lost, users wait for their commits and keep their avatars, and
\* only the consumer writes snapshots, the consumer is in step with the queue, for
\* any number of users, names, avatars and handlers.
THEOREM OrderedInvariant == ASSUME Orderly PROVE Spec => []OrderedInv
<1>1. Init => UserSnapInv /\ OrderedInv
  BY InitUserSnapInv, InitOrderedInv
<1>2. UserSnapInv /\ OrderedInv /\ [Next]_vars => (UserSnapInv /\ OrderedInv)'
  BY NextPreserves, NextOrdered
<1>. QED  BY <1>1, <1>2, PTL DEF Spec

\* When all about a user has been handled, the snapshot is the profile.
THEOREM SnapsStayCurrent == ASSUME Orderly PROVE Spec => []SnapsAreCurrent
<1>1. UserSnapInv /\ OrderedInv => SnapsAreCurrent
  <2>. SUFFICES ASSUME UserSnapInv, OrderedInv, NEW u \in Users,
                       \A h \in InFlight : req[h].user # u, ~ InQueue(u)
                PROVE  snaps[u] = users[u]
    BY DEF SnapsAreCurrent
  <2>1. Announced(u) = users[u]
    BY AnnouncedIs DEF OrderedInv, InFlight
  <2>2. CASE snaps[u] # None
    <3>1. snaps[u] \in Shown(u, Len(queue))
      BY <2>2 DEF InQueue, Shown
    <3>. QED  BY <2>1, <3>1 DEF OrderedInv, EventsInTurn
  <2>3. CASE snaps[u] = None
    BY <2>3 DEF UserSnapInv, AuthorsAreKnown, Known, OrderedInv
  <2>. QED  BY <2>2, <2>3
<1>. QED  BY <1>1, UserSnapInvariant, OrderedInvariant, PTL

\* However names change hands, a mention resolves to one user.
THEOREM MentionsAlwaysResolve == ASSUME Orderly PROVE Spec => []MentionsResolve
<1>1. UserSnapInv /\ OrderedInv => MentionsResolve
  <2>. SUFFICES ASSUME UserSnapInv, OrderedInv, NEW u \in Users, NEW v \in Users,
                       u # v, snaps[u] # None, snaps[v] # None
                PROVE  snaps[u].name # snaps[v].name
    BY DEF MentionsResolve
  <2>1. snaps[u] \in Shown(u, 0) /\ snaps[v] \in Shown(v, 0)
    BY DEF Shown
  <2>2. 0 \in 0..Len(queue)
    BY EventAt
  <2>. QED  BY <2>1, <2>2 DEF OrderedInv, EventsInTurn
<1>. QED  BY <1>1, UserSnapInvariant, OrderedInvariant, PTL

-----------------------------------------------------------------------------
(* The refinement.                                                         *)

\* The source and the pending values of the copy.
Source == [u \in Users |-> Announced(u)]
Values(q) == [i \in 1..Len(q) |-> [key |-> q[i].user, value |-> q[i].profile]]

Pending == [key : Users, value : Profile]

LEMMA ValuesOf ==
    \A q \in Seq(Event) :
        /\ Values(q) \in Seq(Pending)
        /\ Len(Values(q)) = Len(q) /\ Len(q) \in Nat
        /\ \A i \in 1..Len(q) :
              /\ Values(q)[i] \in Pending
              /\ Values(q)[i] = [key |-> q[i].user, value |-> q[i].profile]
<1>. SUFFICES ASSUME NEW q \in Seq(Event)
              PROVE  /\ Values(q) \in Seq(Pending)
                     /\ Len(Values(q)) = Len(q) /\ Len(q) \in Nat
                     /\ \A i \in 1..Len(q) :
                           /\ Values(q)[i] \in Pending
                           /\ Values(q)[i] = [key |-> q[i].user, value |-> q[i].profile]
  OBVIOUS
<1>1. \A i \in 1..Len(q) : q[i] \in Event
  OBVIOUS
<1>2. \A i \in 1..Len(q) : [key |-> q[i].user, value |-> q[i].profile] \in Pending
  BY <1>1 DEF Event, Pending
<1>3. Len(q) \in Nat
  OBVIOUS
<1>4. Values(q) \in Seq(Pending)
  BY <1>2, <1>3 DEF Values
<1>. QED  BY <1>2, <1>3, <1>4 DEF Values

LEMMA ValuesOfAppend ==
    ASSUME NEW q \in Seq(Event), NEW u \in Users, NEW p \in Profile
    PROVE  Values(Append(q, [user |-> u, profile |-> p]))
           = Append(Values(q), [key |-> u, value |-> p])
<1>1. PICK e \in Event : e = [user |-> u, profile |-> p]
  BY DEF Event
<1>2. PICK x \in Pending : x = [key |-> u, value |-> p]
  BY DEF Pending
<1>3. PICK r \in Seq(Event) : r = Append(q, e)
  <2>1. Append(q, e) \in Seq(Event)
    OBVIOUS
  <2>. QED  BY <2>1
<1>4. PICK s \in Seq(Pending) : s = Append(Values(q), x)
  <2>1. Append(Values(q), x) \in Seq(Pending)
    BY ValuesOf
  <2>. QED  BY <2>1
<1>5. /\ Len(r) = Len(q) + 1 /\ \A i \in 1..Len(q) : r[i] = q[i]
      /\ r[Len(q) + 1] = e
  BY <1>3
<1>6. /\ Len(s) = Len(q) + 1 /\ \A i \in 1..Len(q) : s[i] = Values(q)[i]
      /\ s[Len(q) + 1] = x
  BY <1>4, ValuesOf
<1>7. ASSUME NEW i \in 1..Len(r)
      PROVE  Values(r)[i] = s[i]
  <2>1. Len(q) \in Nat /\ (i \in 1..Len(q) \/ i = Len(q) + 1)
    BY <1>5, ValuesOf
  <2>2. Values(r)[i] = [key |-> r[i].user, value |-> r[i].profile]
    BY ValuesOf
  <2>3. CASE i \in 1..Len(q)
    BY <1>5, <1>6, <2>2, <2>3, ValuesOf
  <2>4. CASE i = Len(q) + 1
    BY <1>1, <1>2, <1>5, <1>6, <2>2, <2>4
  <2>. QED  BY <2>1, <2>3, <2>4
<1>8. Values(r) \in Seq(Pending) /\ Len(Values(r)) = Len(s)
  BY <1>5, <1>6, ValuesOf
<1>9. Values(r) = s
  BY <1>5, <1>6, <1>7, <1>8, SeqEqual
<1>. QED  BY <1>1, <1>2, <1>3, <1>4, <1>9

LEMMA ValuesOfTail ==
    ASSUME NEW q \in Seq(Event), q # <<>>
    PROVE  /\ Values(q) # <<>>
           /\ Head(Values(q)) = [key |-> Head(q).user, value |-> Head(q).profile]
           /\ Values(Tail(q)) = Tail(Values(q))
<1>1. PICK r \in Seq(Event) : r = Tail(q)
  <2>1. Tail(q) \in Seq(Event)
    OBVIOUS
  <2>. QED  BY <2>1
<1>2. /\ Len(q) \in Nat \ {0} /\ Head(q) = q[1]
      /\ Len(r) = Len(q) - 1 /\ \A i \in 1..Len(r) : r[i] = q[i + 1] /\ i + 1 \in 1..Len(q)
  BY <1>1
<1>3. PICK v \in Seq(Pending) : v = Values(q)
  BY ValuesOf
<1>4. /\ Len(v) = Len(q) /\ v # <<>>
      /\ \A i \in 1..Len(q) : v[i] = [key |-> q[i].user, value |-> q[i].profile]
  BY <1>2, <1>3, ValuesOf
<1>5. PICK s \in Seq(Pending) : s = Tail(v)
  <2>1. Tail(v) \in Seq(Pending)
    BY <1>4
  <2>. QED  BY <2>1
<1>6. Head(v) = v[1] /\ Len(s) = Len(q) - 1 /\ \A i \in 1..Len(s) : s[i] = v[i + 1]
  BY <1>4, <1>5
<1>7. ASSUME NEW i \in 1..Len(r)
      PROVE  Values(r)[i] = s[i]
  <2>1. Values(r)[i] = [key |-> r[i].user, value |-> r[i].profile]
    BY ValuesOf
  <2>2. r[i] = q[i + 1] /\ i + 1 \in 1..Len(q) /\ i \in 1..Len(s)
    BY <1>2, <1>6
  <2>3. s[i] = v[i + 1]
    BY <1>6, <2>2
  <2>. QED  BY <1>4, <2>1, <2>2, <2>3
<1>8. Values(r) \in Seq(Pending) /\ Len(Values(r)) = Len(s) /\ Len(Values(r)) = Len(r)
  BY <1>2, <1>6, ValuesOf
<1>9. Values(r) = s
  BY <1>7, <1>8, SeqEqual
<1>10. Head(v) = [key |-> Head(q).user, value |-> Head(q).profile]
  <2>1. 1 \in 1..Len(q)
    BY <1>2
  <2>. QED  BY <1>2, <1>4, <1>6, <2>1
<1>11. Values(Tail(q)) = Tail(Values(q))
  BY <1>1, <1>3, <1>5, <1>9
<1>. QED  BY <1>3, <1>4, <1>10, <1>11

LEMMA CopyInit == Init => Copy!Init
<1>. SUFFICES ASSUME Init PROVE Copy!Init
  OBVIOUS
<1>1. UserSnapInv /\ OrderedInv
  BY InitUserSnapInv, InitOrderedInv
<1>2. \A u \in Users : Announced(u) = None
  BY <1>1, AnnouncedIs DEF Init, OrderedInv
<1>3. Values(queue) = <<>>
  <2>1. queue \in Seq(Event) /\ Len(queue) = 0
    BY <1>1, EventAt DEF Init
  <2>2. Values(queue) \in Seq(Pending) /\ Len(Values(queue)) = 0
    BY <2>1, ValuesOf
  <2>. QED  BY <2>2, EmptySeq
<1>. QED  BY <1>2, <1>3 DEF Init, Copy!Init, Values

\* A step that neither announces, writes a snapshot nor acknowledges is a stutter.
LEMMA CopyStutters ==
    ASSUME UNCHANGED <<queue, snaps>>, \A u \in Users : Announced(u)' = Announced(u)
    PROVE  UNCHANGED Copy!vars
BY DEF Copy!vars

LEMMA PublishChanges ==
    ASSUME Orderly, UserSnapInv, UserSnapInv', OrderedInv, OrderedInv',
           NEW h \in Handlers, PublishUser(h)
    PROVE  \E u \in Users : Copy!Change(u)
<1>1. PICK u \in Users, p \in Profile : u = req[h].user /\ p = InMemory(h)
  BY PublishAppends DEF OrderedInv
<1>2. \A v \in Users : Announced(v)' = IF v = u THEN p ELSE Announced(v)
  <2>1. \A v \in Users :
           Announced(v)' = IF v = req[h].user THEN InMemory(h) ELSE Announced(v)
    BY PublishAppends DEF OrderedInv
  <2>. QED  BY <1>1, <2>1
<1>3. queue' = Append(queue, [user |-> u, profile |-> p]) /\ snaps' = snaps
  BY <1>1 DEF PublishUser, Orderly, snapSide
<1>4. Values(queue') = Append(Values(queue), [key |-> u, value |-> p])
  BY <1>3, EventAt, ValuesOfAppend
<1>5. Source' = [Source EXCEPT ![u] = p]
  BY <1>2 DEF Source
<1>6. Copy!Change(u)
  BY <1>3, <1>4, <1>5 DEF Copy!Change, Source, Values
<1>. QED  BY <1>6

LEMMA CommitShows ==
    ASSUME Orderly, UserSnapInv, UserSnapInv', OrderedInv,
           NEW w \in Writers, CommitSnap(w)
    PROVE  Copy!Show
<1>1. /\ queue # <<>> /\ UNCHANGED <<userSide, queue>>
      /\ snaps' = [snaps EXCEPT ![Head(queue).user] = Head(queue).profile]
  BY CommitShowsEvent DEF events
<1>2. /\ Values(queue) # <<>>
      /\ Head(Values(queue)) = [key |-> Head(queue).user, value |-> Head(queue).profile]
  BY <1>1, EventAt, ValuesOfTail
<1>3. Source' = Source
  BY <1>1, UserSideStays DEF Source
<1>4. UNCHANGED Values(queue)
  BY <1>1 DEF Values
<1>5. snaps' = [snaps EXCEPT ![Head(Values(queue)).key] = Head(Values(queue)).value]
  <2>1. /\ Head(Values(queue)).key = Head(queue).user
        /\ Head(Values(queue)).value = Head(queue).profile
    BY <1>2
  <2>. QED  BY <1>1, <2>1, Zenon
<1>. QED  BY <1>2, <1>3, <1>4, <1>5, Zenon DEF Copy!Show, Source, Values

LEMMA AcknowledgeSettles ==
    ASSUME UserSnapInv, UserSnapInv', OrderedInv, Acknowledge
    PROVE  Copy!Settle
<1>1. /\ queue # <<>> /\ queue' = Tail(queue) /\ UNCHANGED <<userSide, snaps>>
      /\ snaps[Head(queue).user] = Head(queue).profile
  BY DEF Acknowledge, UserSnapInv, HeadInHand, OrderedInv, ConsumerInStep
<1>2. /\ Values(queue) # <<>>
      /\ Head(Values(queue)) = [key |-> Head(queue).user, value |-> Head(queue).profile]
      /\ Values(queue') = Tail(Values(queue))
  BY <1>1, EventAt, ValuesOfTail
<1>3. Source' = Source
  BY <1>1, UserSideStays DEF Source
<1>. QED  BY <1>1, <1>2, <1>3 DEF Copy!Settle, Source, Values

\* Every step maps to one of the copy, or to a stutter: the event is the change, the
\* commit of the snapshot shows it, the acknowledgement settles it.
LEMMA NextCopies ==
    ASSUME Orderly, UserSnapInv, OrderedInv, [Next]_vars
    PROVE  [Copy!Next]_(Copy!vars)
<1>1. UserSnapInv' /\ OrderedInv'
  BY NextPreserves, NextOrdered
<1>2. ASSUME NEW h \in Handlers, PublishUser(h)
      PROVE  Copy!Next
  BY <1>1, <1>2, PublishChanges DEF Copy!Next
<1>3. ASSUME NEW w \in Writers, CommitSnap(w)
      PROVE  Copy!Next
  BY <1>1, <1>3, CommitShows DEF Copy!Next
<1>4. CASE Acknowledge
  BY <1>1, <1>4, AcknowledgeSettles DEF Copy!Next
<1>5. ASSUME NEW h \in Handlers, CommitUser(h)
      PROVE  UNCHANGED Copy!vars
  <2>1. UNCHANGED <<queue, snaps>>
    BY <1>5 DEF CommitUser, events, snapSide
  <2>. QED  BY <1>1, <1>5, <2>1, CommitUserOrdered, CopyStutters
<1>6. ASSUME UNCHANGED <<users, queue, snaps>>,
             NEW h \in Handlers, pc[h] # "commit", pc'[h] # "commit",
             \A g \in Handlers \ {h} : UNCHANGED <<pc[g], req[g], loaded[g]>>
      PROVE  UNCHANGED Copy!vars
  <2>1. \A u \in Users : Announced(u)' = Announced(u)
    BY <1>1, <1>6, AnnouncedKept DEF OrderedInv
  <2>. QED  BY <1>6, <2>1, CopyStutters
<1>7. ASSUME UNCHANGED <<userSide, queue, snaps>>
      PROVE  UNCHANGED Copy!vars
  BY <1>1, <1>7, UserSideStays, CopyStutters
<1>8. ASSUME NEW h \in Handlers,
             \/ \E q \in Request : StartRequest(h, q)
             \/ LoadUser(h) \/ CheckUsername(h) \/ WriteUser(h)
             \/ UserStatementFails(h)
      PROVE  UNCHANGED Copy!vars
  <2>1. UNCHANGED <<users, queue, snaps>> /\ pc[h] # "commit"
    BY <1>8 DEF StartRequest, LoadUser, CheckUsername, WriteUser, UserStatementFails,
       events, snapSide
  <2>2. /\ pc'[h] # "commit"
        /\ \A g \in Handlers \ {h} : UNCHANGED <<pc[g], req[g], loaded[g]>>
    BY <1>8 DEF StartRequest, LoadUser, CheckUsername, WriteUser, UserStatementFails,
       Done, UserSnapInv, TypeOK
  <2>. QED  BY <1>6, <2>1, <2>2
<1>9. ASSUME \/ Receive \/ ThreadProcessDies \/ UNCHANGED vars
             \/ \E w \in Writers : SelectSnap(w) \/ FlushSnap(w)
      PROVE  UNCHANGED Copy!vars
  <2>1. UNCHANGED <<userSide, queue, snaps>>
    BY <1>9 DEF Receive, ThreadProcessDies, SelectSnap, FlushSnap, vars, events, snapSide
  <2>. QED  BY <1>7, <2>1
<1>10. /\ SnapHandlers = {} /\ ~ UserProcessDies /\ ~ ShutDown
       /\ \A h \in Handlers : ~ CommitUserFails(h)
       /\ \A w \in Writers : ~ UpsertFails(w)
  BY DEF Orderly, UserProcessDies, ShutDown, CommitUserFails, UpsertFails
<1>11. CASE UNCHANGED vars
  BY <1>9, <1>11
<1>12. CASE \E h \in Handlers : \/ \E q \in Request : StartRequest(h, q)
                                \/ UserHandler(h) \/ UserStatementFails(h)
  BY <1>2, <1>5, <1>8, <1>12 DEF UserHandler
<1>13. CASE \E w \in Writers : Upsert(w)
  BY <1>3, <1>9, <1>13 DEF Upsert
<1>14. CASE Receive \/ Acknowledge \/ ThreadProcessDies
  BY <1>4, <1>9, <1>14
<1>. QED  BY <1>10, <1>11, <1>12, <1>13, <1>14 DEF Next

\* The snapshots are an ordered copy of the profiles: each shows its user's profiles
\* one after another, in the one order in which all profiles were announced.
THEOREM SnapsCopyProfiles == ASSUME Orderly PROVE Spec => SnapsFollowProfiles
<1>1. Init => Copy!Init
  BY CopyInit
<1>2. UserSnapInv /\ OrderedInv /\ [Next]_vars => [Copy!Next]_(Copy!vars)
  BY NextCopies
<1>. QED
  BY <1>1, <1>2, UserSnapInvariant, OrderedInvariant, PTL
     DEF Spec, SnapsFollowProfiles, Copy!Spec
=============================================================================
