------------------------------ MODULE Presence ------------------------------
(***************************************************************************)
(* The websocket gateway: sockets in thread rooms, and their shadow in     *)
(* Redis, which says who is online and who views which thread.             *)
(*                                                                         *)
(* Each event of a socket is a task of its own.  A step is one awaited call *)
(* of Redis (a pipeline is a MULTI/EXEC) or a call of the Socket.IO server, *)
(* which keeps rooms in memory.                                            *)
(***************************************************************************)
EXTENDS Naturals, FiniteSets

CONSTANTS
    Users,
    Sockets,   \* bound: the sockets that can be opened, each once
    UserOf,    \* UserOf[s]: the user in the session of s
    Threads,
    None,      \* no thread, no socket
    MaxTasks,  \* bound: the tasks in flight
    Faults     \* of {"redis", "process", "time"}

ASSUME PresenceAssumption ==
    /\ UserOf \in [Sockets -> Users]
    /\ None \notin Sockets \cup Threads
    /\ MaxTasks \in Nat

Task == [op : {"connect", "disconnect"}, socket : Sockets, thread : {None}]
        \cup [op : {"join", "leave"}, socket : Sockets, thread : Threads]

\* Redis keys: "presence" is user:{id}:sid with user:{id}:online, which are always
\* written, refreshed and deleted together.
Key == ({"presence", "rooms"} \X Users) \cup ({"viewers"} \X Threads)

VARIABLES
    conn,      \* conn[s]: "new", "connecting", "open" or "closed"
    inThread,  \* pairs of a socket and a thread whose room it is in
    pc,        \* pc[k]: the next step of task k
    found,     \* found[s]: the rooms that the disconnect of s has read
    sid,       \* user:{id}:sid, and whether there is user:{id}:online
    rooms,     \* user:{id}:rooms
    viewers,   \* thread:{id}:viewers
    ttl,       \* ttl[k]: 2 when key k has just been given its time, 1 when half of
               \* it is over, 0 when it does not expire or does not exist
    orderly    \* ghost: users to whom things have happened one at a time

server == <<conn, inThread>>
redis == <<sid, rooms, viewers, ttl>>
vars == <<server, pc, found, redis, orderly>>

-----------------------------------------------------------------------------

TypeOK ==
    /\ conn \in [Sockets -> {"new", "connecting", "open", "closed"}]
    /\ inThread \subseteq Sockets \X Threads
    /\ pc \in [Task -> {"idle", "redis", "drop", "room", "refresh"}]
    /\ found \in [Sockets -> SUBSET Threads]
    /\ sid \in [Users -> Sockets \cup {None}]
    /\ rooms \in [Users -> SUBSET Threads]
    /\ viewers \in [Threads -> SUBSET Users]
    /\ ttl \in [Key -> 0..2]
    /\ orderly \subseteq Users

Init ==
    /\ conn = [s \in Sockets |-> "new"]
    /\ inThread = {}
    /\ pc = [k \in Task |-> "idle"]
    /\ found = [s \in Sockets |-> {}]
    /\ sid = [u \in Users |-> None]
    /\ rooms = [u \in Users |-> {}]
    /\ viewers = [t \in Threads |-> {}]
    /\ ttl = [k \in Key |-> 0]
    /\ orderly = Users

TaskOf(op, s, t) == [op |-> op, socket |-> s, thread |-> t]
User(k) == UserOf[k.socket]
SocketsOf(u) == {s \in Sockets : UserOf[s] = u}
Busy(u) == \E k \in Task : User(k) = u /\ pc[k] # "idle"
Bounded == Cardinality({k \in Task : pc[k] # "idle"}) < MaxTasks
Connected(u) == \E s \in SocketsOf(u) : conn[s] \in {"connecting", "open"}

\* Task k begins.  A user whose tasks overlap is not orderly any more.
Begin(k) ==
    /\ pc[k] = "idle" /\ Bounded
    /\ pc' = [pc EXCEPT ![k] = "redis"]
    /\ orderly' = IF Busy(User(k)) THEN orderly \ {User(k)} ELSE orderly

At(k, step) == pc[k] = step
GoTo(k, step) == pc' = [pc EXCEPT ![k] = step] /\ UNCHANGED orderly

\* The time of the keys in K starts again, if they exist after this step; a set
\* without members does not.
Expire(K) ==
    LET Exists(k) == \/ k[1] = "presence" /\ sid'[k[2]] # None
                     \/ k[1] = "rooms" /\ rooms'[k[2]] # {}
                     \/ k[1] = "viewers" /\ viewers'[k[2]] # {}
    IN ttl' = [k \in Key |-> IF Exists(k) THEN IF k \in K THEN 2 ELSE ttl[k] ELSE 0]

-----------------------------------------------------------------------------
(* connect, disconnect.                                                    *)

\* A page opens a socket with a valid token.  A second one beside it makes its
\* user disorderly.
Connect(s) ==
    /\ conn[s] = "new" /\ Bounded
    /\ conn' = [conn EXCEPT ![s] = "connecting"]
    /\ pc[TaskOf("connect", s, None)] = "idle"
    /\ pc' = [pc EXCEPT ![TaskOf("connect", s, None)] = "redis"]
    /\ orderly' = IF Busy(UserOf[s]) \/ Connected(UserOf[s])
                  THEN orderly \ {UserOf[s]} ELSE orderly
    /\ UNCHANGED <<inThread, found, redis>>

RegisterUser(k) ==
    /\ k.op = "connect" /\ At(k, "redis")
    /\ sid' = [sid EXCEPT ![User(k)] = k.socket]
    /\ UNCHANGED <<rooms, viewers>>
    /\ Expire({<<"presence", User(k)>>})
    /\ GoTo(k, "room") /\ UNCHANGED <<server, found>>

\* connect enters the room of the user and accepts the socket, if it is still there.
Accept(k) ==
    /\ k.op = "connect" /\ At(k, "room")
    /\ conn' = [conn EXCEPT ![k.socket] = IF @ = "connecting" THEN "open" ELSE @]
    /\ GoTo(k, "idle") /\ UNCHANGED <<inThread, found, redis>>

\* The socket is closed, by the page or by a ping timeout.
Close(s) ==
    /\ conn[s] \in {"connecting", "open"}
    /\ conn' = [conn EXCEPT ![s] = "closed"]
    /\ inThread' = {p \in inThread : p[1] # s}
    /\ Begin(TaskOf("disconnect", s, None))
    /\ UNCHANGED <<found, redis>>

\* unregister_user: smembers.
ReadRooms(k) ==
    /\ k.op = "disconnect" /\ At(k, "redis")
    /\ found' = [found EXCEPT ![k.socket] = rooms[User(k)]]
    /\ GoTo(k, "drop") /\ UNCHANGED <<server, redis>>

\* Mutant: the user's set of rooms is left to expire.
UnregisterUserKeepsRooms(k) ==
    /\ k.op = "disconnect" /\ At(k, "drop")
    /\ viewers' = [t \in Threads |->
                     IF t \in found[k.socket] THEN viewers[t] \ {User(k)} ELSE viewers[t]]
    /\ sid' = [sid EXCEPT ![User(k)] = None]
    /\ UNCHANGED rooms
    /\ found' = [found EXCEPT ![k.socket] = {}]
    /\ Expire({})
    /\ GoTo(k, "idle") /\ UNCHANGED server

\* unregister_user: the pipeline.
UnregisterUser(k) ==
    /\ k.op = "disconnect" /\ At(k, "drop")
    /\ viewers' = [t \in Threads |->
                     IF t \in found[k.socket] THEN viewers[t] \ {User(k)} ELSE viewers[t]]
    /\ sid' = [sid EXCEPT ![User(k)] = None]
    /\ rooms' = [rooms EXCEPT ![User(k)] = {}]
    /\ found' = [found EXCEPT ![k.socket] = {}]
    /\ Expire({})
    /\ GoTo(k, "idle") /\ UNCHANGED server

-----------------------------------------------------------------------------
(* join_thread, leave_thread.                                              *)

JoinOrLeave(s, t) ==
    /\ conn[s] = "open"
    /\ \E op \in {"join", "leave"} : Begin(TaskOf(op, s, t))
    /\ UNCHANGED <<server, found, redis>>

\* Mutant: the user's set of rooms is not kept.
AddViewerUnlisted(k) ==
    /\ k.op = "join" /\ At(k, "redis")
    /\ viewers' = [viewers EXCEPT ![k.thread] = @ \cup {User(k)}]
    /\ UNCHANGED <<sid, rooms>>
    /\ Expire({<<"viewers", k.thread>>})
    /\ GoTo(k, "room") /\ UNCHANGED <<server, found>>

AddViewer(k) ==
    /\ k.op = "join" /\ At(k, "redis")
    /\ viewers' = [viewers EXCEPT ![k.thread] = @ \cup {User(k)}]
    /\ rooms' = [rooms EXCEPT ![User(k)] = @ \cup {k.thread}]
    /\ UNCHANGED sid
    /\ Expire({<<"viewers", k.thread>>, <<"rooms", User(k)>>})
    /\ GoTo(k, "room") /\ UNCHANGED <<server, found>>

RemoveViewer(k) ==
    /\ k.op = "leave" /\ At(k, "redis")
    /\ viewers' = [viewers EXCEPT ![k.thread] = @ \ {User(k)}]
    /\ rooms' = [rooms EXCEPT ![User(k)] = @ \ {k.thread}]
    /\ UNCHANGED sid
    /\ Expire({})
    /\ GoTo(k, "room") /\ UNCHANGED <<server, found>>

\* enter_room raises if the socket is gone.
EnterRoom(k) ==
    /\ k.op = "join" /\ At(k, "room")
    /\ IF conn[k.socket] = "open"
       THEN inThread' = inThread \cup {<<k.socket, k.thread>>} /\ GoTo(k, "refresh")
       ELSE UNCHANGED inThread /\ GoTo(k, "idle")
    /\ UNCHANGED <<conn, found, redis>>

LeaveRoom(k) ==
    /\ k.op = "leave" /\ At(k, "room")
    /\ inThread' = inThread \ {<<k.socket, k.thread>>}
    /\ GoTo(k, "refresh") /\ UNCHANGED <<conn, found, redis>>

RefreshTtl(k) ==
    /\ At(k, "refresh")
    /\ UNCHANGED <<sid, rooms, viewers>>
    /\ Expire({<<"presence", User(k)>>, <<"rooms", User(k)>>})
    /\ GoTo(k, "idle") /\ UNCHANGED <<server, found>>

-----------------------------------------------------------------------------
(* What may go wrong.                                                      *)

\* Half of a TTL passes: the keys that nobody has touched in the last half expire.
HalfTtl ==
    /\ "time" \in Faults
    /\ LET over == {k \in Key : ttl[k] = 1}
           gone(u) == \/ <<"presence", u>> \in over \/ <<"rooms", u>> \in over
                      \/ \E t \in Threads : <<"viewers", t>> \in over /\ u \in viewers[t]
       IN /\ sid' = [u \in Users |-> IF <<"presence", u>> \in over THEN None ELSE sid[u]]
          /\ rooms' = [u \in Users |-> IF <<"rooms", u>> \in over THEN {} ELSE rooms[u]]
          /\ viewers' = [t \in Threads |-> IF <<"viewers", t>> \in over THEN {} ELSE viewers[t]]
          /\ ttl' = [k \in Key |-> IF ttl[k] = 2 THEN 1 ELSE 0]
          /\ orderly' = {u \in orderly : ~ gone(u)}
    /\ UNCHANGED <<server, pc, found>>

\* A call of Redis raises, and the task is over.
RedisFails(k) ==
    /\ "redis" \in Faults
    /\ pc[k] \in {"redis", "drop", "refresh"}
    /\ pc' = [pc EXCEPT ![k] = "idle"]
    /\ found' = [found EXCEPT ![k.socket] = IF k.op = "disconnect" THEN {} ELSE @]
    /\ orderly' = orderly \ {User(k)}
    /\ UNCHANGED <<server, redis>>

\* The gateway dies and starts again; Redis keeps what it has.
GatewayDies ==
    /\ "process" \in Faults
    /\ orderly' = {u \in orderly : ~ Connected(u) /\ ~ Busy(u)}
    /\ conn' = [s \in Sockets |-> IF conn[s] = "new" THEN "new" ELSE "closed"]
    /\ inThread' = {}
    /\ pc' = [k \in Task |-> "idle"]
    /\ found' = [s \in Sockets |-> {}]
    /\ UNCHANGED redis

-----------------------------------------------------------------------------

Handler(k) ==
    \/ RegisterUser(k) \/ Accept(k)
    \/ ReadRooms(k) \/ UnregisterUser(k)
    \/ AddViewer(k) \/ RemoveViewer(k)
    \/ EnterRoom(k) \/ LeaveRoom(k) \/ RefreshTtl(k)

Next ==
    \/ \E s \in Sockets :
          \/ Connect(s) \/ Close(s)
          \/ \E t \in Threads : JoinOrLeave(s, t)
    \/ \E k \in Task : Handler(k) \/ RedisFails(k)
    \/ HalfTtl \/ GatewayDies

Spec == Init /\ [][Next]_vars

\* Time passes.  Nothing is asked of the tasks, nor of those who open sockets.
TimedSpec == Spec /\ WF_vars(HalfTtl)

-----------------------------------------------------------------------------
(* Properties.                                                             *)

InRoom(u, t) == \E s \in SocketsOf(u) : <<s, t>> \in inThread

\* Redis has the open socket of u, if there is one.
SidIsExact(u) ==
    /\ sid[u] = None => ~ Connected(u)
    /\ sid[u] # None => sid[u] \in SocketsOf(u) /\ conn[sid[u]] = "open"

Exact(u) ==
    /\ SidIsExact(u)
    /\ \A t \in Threads : u \in viewers[t] <=> InRoom(u, t)

\* Between the tasks of a user to whom things happen one at a time (one socket
\* after the other, no overlapping joins, leaves and disconnects, no fault, no
\* key that expired), Redis agrees with the server, whatever everybody else does
\* and suffers: the user is online with the open socket, and views the threads
\* whose rooms it is in.
PresenceIsExact == \A u \in orderly : ~ Busy(u) => Exact(u)

Joined(t) == \E k \in Task : k.op = "join" /\ k.thread = t /\ pc[k] # "idle"

\* Redis forgets, whatever crashes and races have left in it: a user for whom nothing
\* runs any more goes offline, and a thread that nobody joins any more ends with no
\* viewers.  (For as long as anybody joins, all of the thread's viewers stay.)
IdleAreForgotten ==
    /\ \A u \in Users :
          <>[](~ Busy(u)) => <>[](sid[u] = None /\ rooms[u] = {})
    /\ \A t \in Threads :
          <>[](~ Joined(t)) => <>[](viewers[t] = {})

\* The viewers of a thread view it, between the tasks of each.  (They need not: a
\* task that runs beside a disconnect leaves a viewer who is not there.)
ViewersAreViewing ==
    \A t \in Threads : \A u \in viewers[t] : Busy(u) \/ InRoom(u, t)

\* Who is connected is online, whatever becomes of the user's other sockets and
\* however long it takes.  (The disconnect of an older socket and the passing of
\* time take it away.)
ConnectedAreOnline ==
    \A s \in Sockets : conn[s] = "open" /\ ~ Busy(UserOf[s]) => sid[UserOf[s]] # None

-----------------------------------------------------------------------------
(* The inductive invariant.                                                *)

\* One task and one socket at a time.
OneAtATime(u) ==
    /\ \A k, l \in Task :
          User(k) = u /\ User(l) = u /\ pc[k] # "idle" /\ pc[l] # "idle" => k = l
    /\ \A r, s \in SocketsOf(u) :
          conn[r] \in {"connecting", "open"} /\ conn[s] \in {"connecting", "open"} => r = s

\* What the server and Redis say of the user of k in the midst of task k.
InMidst(k) ==
    LET u == User(k) IN
    /\ k.op = "connect" =>
          /\ conn[k.socket] = "connecting"
          /\ sid[u] = IF pc[k] = "redis" THEN None ELSE k.socket
          /\ \A t \in Threads : u \notin viewers[t]
    /\ k.op = "disconnect" =>
          /\ ~ Connected(u)
          /\ pc[k] = "drop" => found[k.socket] = rooms[u]
    /\ k.op \in {"join", "leave"} =>
          /\ conn[k.socket] = "open" /\ SidIsExact(u)
          /\ \A t \in Threads :
                u \in viewers[t] <=> IF pc[k] = "room" /\ t = k.thread THEN k.op = "join"
                                    ELSE InRoom(u, t)

Orderly(u) ==
    /\ OneAtATime(u)
    /\ \A t \in Threads : u \in viewers[t] <=> t \in rooms[u]
    /\ ~ Busy(u) => Exact(u)
    /\ \A k \in Task : User(k) = u /\ pc[k] # "idle" => InMidst(k)

\* The rooms of the server hold open sockets.
RoomsAreOpen == \A s \in Sockets, t \in Threads : <<s, t>> \in inThread => conn[s] = "open"

\* Before and after each step of a task.
TasksInPlace ==
    \A k \in Task :
        /\ pc[k] = "drop" => k.op = "disconnect"
        /\ pc[k] \in {"room", "refresh"} => k.op # "disconnect"
        /\ pc[k] = "refresh" => k.op # "connect"
        /\ k.op = "connect" /\ pc[k] # "idle" => conn[k.socket] # "new"
        /\ k.op # "connect" /\ pc[k] # "idle" => conn[k.socket] \in {"open", "closed"}

\* No key is without a time to live.
KeysHaveTime ==
    /\ \A u \in Users :
          /\ sid[u] # None => ttl[<<"presence", u>>] > 0
          /\ rooms[u] # {} => ttl[<<"rooms", u>>] > 0
    /\ \A t \in Threads : viewers[t] # {} => ttl[<<"viewers", t>>] > 0

PresenceInv ==
    /\ TypeOK
    /\ TasksInPlace
    /\ RoomsAreOpen
    /\ \A u \in orderly : Orderly(u)
    /\ KeysHaveTime
=============================================================================
