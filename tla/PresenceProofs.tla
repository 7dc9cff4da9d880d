--------------------------- MODULE PresenceProofs ---------------------------
(***************************************************************************)
(* Theorems about Presence, for any users, sockets, threads and faults.     *)
(***************************************************************************)
EXTENDS Presence, TLAPS

USE PresenceAssumption

\* Types and times of life.
TimesInv == TypeOK /\ KeysHaveTime

\* Task records are tasks, and tasks have a user.
LEMMA Tasks ==
    /\ \A s \in Sockets : \A op \in {"connect", "disconnect"} : TaskOf(op, s, None) \in Task
    /\ \A s \in Sockets, t \in Threads : \A op \in {"join", "leave"} : TaskOf(op, s, t) \in Task
    /\ \A k \in Task : /\ k.socket \in Sockets /\ User(k) \in Users
                       /\ k.op = "disconnect" => k.thread = None
                       /\ k.op \in {"join", "leave"} => k.thread \in Threads
  BY DEF TaskOf, Task, User

\* Keys are keys.
LEMMA Keys ==
    /\ \A u \in Users : <<"presence", u>> \in Key /\ <<"rooms", u>> \in Key
    /\ \A t \in Threads : <<"viewers", t>> \in Key
  BY DEF Key

\* A pipeline that gives every key it may create its time leaves none without.
LEMMA ExpireKeeps ==
    ASSUME TimesInv, NEW K, Expire(K),
           \A u \in Users : sid'[u] # None => sid[u] # None \/ <<"presence", u>> \in K,
           \A u \in Users : rooms'[u] # {} => rooms[u] # {} \/ <<"rooms", u>> \in K,
           \A t \in Threads : viewers'[t] # {} => viewers[t] # {} \/ <<"viewers", t>> \in K
    PROVE  KeysHaveTime' /\ ttl' \in [Key -> 0..2]
<1>. DEFINE Exists(k) == \/ k[1] = "presence" /\ sid'[k[2]] # None
                         \/ k[1] = "rooms" /\ rooms'[k[2]] # {}
                         \/ k[1] = "viewers" /\ viewers'[k[2]] # {}
<1>0. ttl' = [k \in Key |-> IF Exists(k) THEN IF k \in K THEN 2 ELSE ttl[k] ELSE 0]
  BY DEF Expire
<1>1. ttl \in [Key -> 0..2]
  BY DEF TimesInv, TypeOK
<1>2. ttl' \in [Key -> 0..2]
  <2>. HIDE DEF Exists
  <2>. QED BY <1>0, <1>1
<1>3. ASSUME NEW u \in Users, sid'[u] # None
      PROVE  ttl'[<<"presence", u>>] > 0
  <2>1. ASSUME NEW k, k = <<"presence", u>> PROVE Exists(k)
    <3>1. k[1] = "presence" /\ k[2] = u
      BY <2>1
    <3>. QED BY <1>3, <3>1
  <2>. HIDE DEF Exists
  <2>2. <<"presence", u>> \in Key /\ Exists(<<"presence", u>>)
    BY <2>1, Keys
  <2>3. ttl'[<<"presence", u>>] = IF <<"presence", u>> \in K THEN 2 ELSE ttl[<<"presence", u>>]
    BY <1>0, <2>2
  <2>4. sid[u] # None => ttl[<<"presence", u>>] > 0
    BY DEF TimesInv, KeysHaveTime
  <2>. QED BY <1>3, <2>3, <2>4
<1>4. ASSUME NEW u \in Users, rooms'[u] # {}
      PROVE  ttl'[<<"rooms", u>>] > 0
  <2>1. ASSUME NEW k, k = <<"rooms", u>> PROVE Exists(k)
    <3>1. k[1] = "rooms" /\ k[2] = u
      BY <2>1
    <3>. QED BY <1>4, <3>1
  <2>. HIDE DEF Exists
  <2>2. <<"rooms", u>> \in Key /\ Exists(<<"rooms", u>>)
    BY <2>1, Keys
  <2>3. ttl'[<<"rooms", u>>] = IF <<"rooms", u>> \in K THEN 2 ELSE ttl[<<"rooms", u>>]
    BY <1>0, <2>2
  <2>4. rooms[u] # {} => ttl[<<"rooms", u>>] > 0
    BY DEF TimesInv, KeysHaveTime
  <2>. QED BY <1>4, <2>3, <2>4
<1>5. ASSUME NEW t \in Threads, viewers'[t] # {}
      PROVE  ttl'[<<"viewers", t>>] > 0
  <2>1. ASSUME NEW k, k = <<"viewers", t>> PROVE Exists(k)
    <3>1. k[1] = "viewers" /\ k[2] = t
      BY <2>1
    <3>. QED BY <1>5, <3>1
  <2>. HIDE DEF Exists
  <2>2. <<"viewers", t>> \in Key /\ Exists(<<"viewers", t>>)
    BY <2>1, Keys
  <2>3. ttl'[<<"viewers", t>>] = IF <<"viewers", t>> \in K THEN 2 ELSE ttl[<<"viewers", t>>]
    BY <1>0, <2>2
  <2>4. viewers[t] # {} => ttl[<<"viewers", t>>] > 0
    BY DEF TimesInv, KeysHaveTime
  <2>. QED BY <1>5, <2>3, <2>4
<1>. QED BY <1>2, <1>3, <1>4, <1>5 DEF KeysHaveTime

\* A step that leaves Redis alone.
LEMMA RedisSame ==
    ASSUME TimesInv, UNCHANGED redis
    PROVE  KeysHaveTime'
  BY DEF TimesInv, KeysHaveTime, redis

\* The beginning and the end of tasks, and what the server does.
LEMMA ServerStep ==
    ASSUME TimesInv,
           \/ \E s \in Sockets : \/ Connect(s) \/ Close(s)
                                 \/ \E t \in Threads : JoinOrLeave(s, t)
           \/ \E k \in Task : \/ Accept(k) \/ ReadRooms(k) \/ EnterRoom(k) \/ LeaveRoom(k)
                              \/ RedisFails(k)
           \/ GatewayDies
    PROVE  TimesInv'
<1>. USE DEF TypeOK
<1>. TypeOK
  BY DEF TimesInv
<1>1. ASSUME NEW s \in Sockets, Connect(s)
      PROVE  TypeOK' /\ UNCHANGED redis
  BY <1>1 DEF Connect, redis
<1>2. ASSUME NEW s \in Sockets, Close(s)
      PROVE  TypeOK' /\ UNCHANGED redis
  BY <1>2 DEF Close, Begin, redis
<1>3. ASSUME NEW s \in Sockets, NEW t \in Threads, JoinOrLeave(s, t)
      PROVE  TypeOK' /\ UNCHANGED redis
  BY <1>3 DEF JoinOrLeave, Begin, redis, server
<1>4. ASSUME NEW k \in Task, Accept(k)
      PROVE  TypeOK' /\ UNCHANGED redis
  BY <1>4 DEF Accept, GoTo, redis
<1>5. ASSUME NEW k \in Task, ReadRooms(k)
      PROVE  TypeOK' /\ UNCHANGED redis
  BY <1>5, Tasks DEF ReadRooms, GoTo, redis, server
<1>6. ASSUME NEW k \in Task, EnterRoom(k)
      PROVE  TypeOK' /\ UNCHANGED redis
  <2>1. <<k.socket, k.thread>> \in Sockets \X Threads
    BY <1>6, Tasks DEF EnterRoom
  <2>2. inThread' \subseteq Sockets \X Threads
    BY <1>6, <2>1 DEF EnterRoom
  <2>3. pc' \in [Task -> {"idle", "redis", "drop", "room", "refresh"}] /\ UNCHANGED orderly
    BY <1>6 DEF EnterRoom, GoTo
  <2>. QED BY <1>6, <2>2, <2>3 DEF EnterRoom, redis
<1>7. ASSUME NEW k \in Task, LeaveRoom(k)
      PROVE  TypeOK' /\ UNCHANGED redis
  BY <1>7 DEF LeaveRoom, GoTo, redis
<1>8. ASSUME NEW k \in Task, RedisFails(k)
      PROVE  TypeOK' /\ UNCHANGED redis
  BY <1>8 DEF RedisFails, redis, server
<1>9. ASSUME GatewayDies
      PROVE  TypeOK' /\ UNCHANGED redis
  BY <1>9 DEF GatewayDies, redis
<1>. QED
  BY <1>1, <1>2, <1>3, <1>4, <1>5, <1>6, <1>7, <1>8, <1>9, RedisSame DEF TimesInv

\* The pipelines.
LEMMA RedisStep ==
    ASSUME TimesInv, NEW k \in Task,
           \/ RegisterUser(k) \/ UnregisterUser(k) \/ AddViewer(k) \/ RemoveViewer(k)
           \/ RefreshTtl(k)
    PROVE  TimesInv'
<1>. USE DEF TypeOK
<1>. TypeOK
  BY DEF TimesInv
<1>. DEFINE Others ==
       /\ sid' \in [Users -> Sockets \cup {None}]
       /\ rooms' \in [Users -> SUBSET Threads]
       /\ viewers' \in [Threads -> SUBSET Users]
       /\ found' \in [Sockets -> SUBSET Threads]
       /\ pc' \in [Task -> {"idle", "redis", "drop", "room", "refresh"}]
       /\ UNCHANGED <<server, orderly>>
<1>. SUFFICES Others /\ KeysHaveTime' /\ ttl' \in [Key -> 0..2]
  BY DEF TimesInv, server
<1>1. CASE RegisterUser(k)
  <2>1. Others
    BY <1>1, Tasks DEF RegisterUser, GoTo
  <2>2. /\ Expire({<<"presence", User(k)>>}) /\ UNCHANGED <<rooms, viewers>>
        /\ \A u \in Users : u # User(k) => sid'[u] = sid[u]
    BY <1>1 DEF RegisterUser
  <2>. QED BY <2>1, <2>2, ExpireKeeps
<1>2. CASE UnregisterUser(k)
  <2>1. Others
    BY <1>2, Tasks DEF UnregisterUser, GoTo
  <2>2. /\ Expire({})
        /\ \A u \in Users : /\ sid'[u] # None => sid[u] # None
                            /\ rooms'[u] # {} => rooms[u] # {}
        /\ \A t \in Threads : viewers'[t] # {} => viewers[t] # {}
    BY <1>2 DEF UnregisterUser
  <2>. QED BY <2>1, <2>2, ExpireKeeps
<1>3. CASE AddViewer(k)
  <2>1. Others
    BY <1>3, Tasks DEF AddViewer, GoTo
  <2>2. /\ Expire({<<"viewers", k.thread>>, <<"rooms", User(k)>>}) /\ UNCHANGED sid
        /\ \A u \in Users : u # User(k) => rooms'[u] = rooms[u]
        /\ \A t \in Threads : t # k.thread => viewers'[t] = viewers[t]
    BY <1>3 DEF AddViewer
  <2>. QED BY <2>1, <2>2, ExpireKeeps
<1>4. CASE RemoveViewer(k)
  <2>1. Others
    BY <1>4, Tasks DEF RemoveViewer, GoTo
  <2>2. /\ Expire({}) /\ UNCHANGED sid
        /\ \A u \in Users : rooms'[u] # {} => rooms[u] # {}
        /\ \A t \in Threads : viewers'[t] # {} => viewers[t] # {}
    BY <1>4 DEF RemoveViewer
  <2>. QED BY <2>1, <2>2, ExpireKeeps
<1>5. CASE RefreshTtl(k)
  <2>1. Others
    BY <1>5 DEF RefreshTtl, GoTo
  <2>2. /\ Expire({<<"presence", User(k)>>, <<"rooms", User(k)>>})
        /\ UNCHANGED <<sid, rooms, viewers>>
    BY <1>5 DEF RefreshTtl
  <2>. QED BY <2>1, <2>2, ExpireKeeps
<1>. QED BY <1>1, <1>2, <1>3, <1>4, <1>5

\* What is over is deleted, and what is not has half of its time left.
LEMMA TimeStep ==
    ASSUME TimesInv, HalfTtl
    PROVE  TimesInv'
<1>. USE DEF TypeOK
<1>. TypeOK
  BY DEF TimesInv
<1>1. /\ sid' = [u \in Users |-> IF ttl[<<"presence", u>>] = 1 THEN None ELSE sid[u]]
      /\ rooms' = [u \in Users |-> IF ttl[<<"rooms", u>>] = 1 THEN {} ELSE rooms[u]]
      /\ viewers' = [t \in Threads |-> IF ttl[<<"viewers", t>>] = 1 THEN {} ELSE viewers[t]]
      /\ ttl' = [k \in Key |-> IF ttl[k] = 2 THEN 1 ELSE 0]
      /\ orderly' \subseteq orderly
      /\ UNCHANGED <<server, pc, found>>
  BY Keys DEF HalfTtl
<1>2. TypeOK'
  BY <1>1 DEF server
<1>3. ASSUME NEW k \in Key, ttl[k] > 0, ttl[k] # 1
      PROVE  ttl'[k] > 0
  BY <1>1, <1>3
<1>4. KeysHaveTime'
  BY <1>1, <1>3, Keys DEF TimesInv, KeysHaveTime
<1>. QED BY <1>2, <1>4 DEF TimesInv

LEMMA TimesStepKeeps ==
    ASSUME TimesInv, [Next]_vars
    PROVE  TimesInv'
<1>1. CASE Next
  BY <1>1, ServerStep, RedisStep, TimeStep DEF Next, Handler
<1>2. CASE UNCHANGED vars
  BY <1>2 DEF TimesInv, TypeOK, KeysHaveTime, vars, server, redis
<1>. QED BY <1>1, <1>2

-----------------------------------------------------------------------------
(* Tasks and rooms.                                                        *)

LEMMA TaskSteps ==
    ASSUME TypeOK, TasksInPlace, [Next]_vars
    PROVE  TasksInPlace'
<1>. USE Tasks DEF TypeOK
<1>1. ASSUME NEW s \in Sockets, Connect(s) PROVE TasksInPlace'
  BY <1>1 DEF Connect, TasksInPlace, TaskOf
<1>2. ASSUME NEW s \in Sockets, Close(s) PROVE TasksInPlace'
  BY <1>2 DEF Close, Begin, TasksInPlace, TaskOf
<1>3. ASSUME NEW s \in Sockets, NEW t \in Threads, JoinOrLeave(s, t) PROVE TasksInPlace'
  BY <1>3 DEF JoinOrLeave, Begin, TasksInPlace, TaskOf, server
<1>4. ASSUME NEW k \in Task, Handler(k) PROVE TasksInPlace'
  BY <1>4 DEF Handler, RegisterUser, Accept, ReadRooms, UnregisterUser, AddViewer, RemoveViewer,
     EnterRoom, LeaveRoom, RefreshTtl, GoTo, At, TasksInPlace, server
<1>5. ASSUME NEW k \in Task, RedisFails(k) PROVE TasksInPlace'
  BY <1>5 DEF RedisFails, TasksInPlace, server
<1>6. ASSUME HalfTtl \/ GatewayDies PROVE TasksInPlace'
  BY <1>6 DEF HalfTtl, GatewayDies, TasksInPlace, server
<1>7. ASSUME UNCHANGED vars PROVE TasksInPlace'
  BY <1>7 DEF vars, server, TasksInPlace
<1>. QED BY <1>1, <1>2, <1>3, <1>4, <1>5, <1>6, <1>7 DEF Next

LEMMA RoomSteps ==
    ASSUME TypeOK, RoomsAreOpen, [Next]_vars
    PROVE  RoomsAreOpen'
<1>. USE Tasks DEF TypeOK
<1>1. ASSUME NEW s \in Sockets, Connect(s) \/ Close(s) PROVE RoomsAreOpen'
  BY <1>1 DEF Connect, Close, RoomsAreOpen
<1>2. ASSUME NEW k \in Task, Handler(k) PROVE RoomsAreOpen'
  BY <1>2 DEF Handler, RegisterUser, Accept, ReadRooms, UnregisterUser, AddViewer, RemoveViewer,
     EnterRoom, LeaveRoom, RefreshTtl, RoomsAreOpen, server
<1>3. ASSUME NEW s \in Sockets, NEW t \in Threads, JoinOrLeave(s, t) PROVE RoomsAreOpen'
  BY <1>3 DEF JoinOrLeave, server, RoomsAreOpen
<1>4. ASSUME NEW k \in Task, RedisFails(k) PROVE RoomsAreOpen'
  BY <1>4 DEF RedisFails, server, RoomsAreOpen
<1>5. ASSUME HalfTtl \/ GatewayDies \/ UNCHANGED vars PROVE RoomsAreOpen'
  BY <1>5 DEF HalfTtl, GatewayDies, server, vars, RoomsAreOpen
<1>. QED BY <1>1, <1>2, <1>3, <1>4, <1>5 DEF Next

-----------------------------------------------------------------------------
(* Users to whom things happen one at a time.                              *)

\* A step that does not concern user u.
Same(u) ==
    /\ \A k \in Task : User(k) = u => pc'[k] = pc[k]
    /\ \A s \in SocketsOf(u) :
          /\ conn'[s] = conn[s] /\ found'[s] = found[s]
          /\ \A t \in Threads : <<s, t>> \in inThread' <=> <<s, t>> \in inThread
    /\ sid'[u] = sid[u] /\ rooms'[u] = rooms[u]
    /\ \A t \in Threads : u \in viewers'[t] <=> u \in viewers[t]

LEMMA SameStaysOrderly ==
    ASSUME TypeOK, NEW u \in Users, Same(u), Orderly(u)
    PROVE  Orderly(u)'
<1>. USE Tasks
<1>1. /\ SocketsOf(u)' = SocketsOf(u) /\ \A k \in Task : User(k)' = User(k)
      /\ \A k \in Task : User(k) = u => k.socket \in SocketsOf(u)
  BY DEF SocketsOf, User
<1>2. Busy(u)' <=> Busy(u)
  BY <1>1 DEF Same, Busy
<1>3. Connected(u)' <=> Connected(u)
  <2>1. \A s \in SocketsOf(u) : conn'[s] = conn[s]
    BY DEF Same
  <2>. QED BY <1>1, <2>1 DEF Connected
<1>4. ASSUME NEW t \in Threads PROVE InRoom(u, t)' <=> InRoom(u, t)
  <2>1. \A s \in SocketsOf(u) : <<s, t>> \in inThread' <=> <<s, t>> \in inThread
    BY DEF Same
  <2>. QED BY <1>1, <2>1 DEF InRoom
<1>5. OneAtATime(u)'
  BY <1>1 DEF Same, Orderly, OneAtATime
<1>6. SidIsExact(u)' <=> SidIsExact(u)
  <2>1. sid'[u] = sid[u] /\ \A s \in SocketsOf(u) : conn'[s] = conn[s]
    BY DEF Same
  <2>. QED BY <1>1, <1>3, <2>1 DEF SidIsExact
<1>7. Exact(u)' <=> Exact(u)
  BY <1>4, <1>6 DEF Same, Exact
<1>8. ASSUME NEW k \in Task, User(k) = u, InMidst(k) PROVE InMidst(k)'
  <2>1. /\ User(k)' = u /\ pc'[k] = pc[k] /\ conn'[k.socket] = conn[k.socket]
        /\ found'[k.socket] = found[k.socket] /\ sid'[u] = sid[u] /\ rooms'[u] = rooms[u]
        /\ \A t \in Threads : u \in viewers'[t] <=> u \in viewers[t]
    BY <1>1, <1>8 DEF Same
  <2>. QED BY <1>3, <1>4, <1>6, <1>8, <2>1 DEF InMidst
<1>9. \A k \in Task : User(k)' = u /\ pc'[k] # "idle" => InMidst(k)'
  BY <1>1, <1>8 DEF Same, Orderly
<1>10. \A t \in Threads : u \in viewers'[t] <=> t \in rooms'[u]
  BY DEF Same, Orderly
<1>11. ~ Busy(u)' => Exact(u)'
  BY <1>2, <1>7 DEF Orderly
<1>. QED BY <1>5, <1>9, <1>10, <1>11 DEF Orderly

\* The only task of an orderly user takes a step.
LEMMA OwnTask ==
    ASSUME TypeOK, NEW u \in Users, NEW k \in Task, User(k) = u,
           \A l \in Task : User(l) = u /\ l # k => pc'[l] = "idle",
           \A r, s \in SocketsOf(u) :
              conn'[r] \in {"connecting", "open"} /\ conn'[s] \in {"connecting", "open"} => r = s,
           \A t \in Threads : u \in viewers'[t] <=> t \in rooms'[u],
           pc'[k] = "idle" => Exact(u)',
           pc'[k] # "idle" => InMidst(k)'
    PROVE  Orderly(u)'
<1>1. SocketsOf(u)' = SocketsOf(u) /\ \A l \in Task : User(l)' = User(l)
  BY DEF SocketsOf, User
<1>2. OneAtATime(u)'
  BY <1>1 DEF OneAtATime
<1>. QED BY <1>1, <1>2 DEF Orderly, Busy

\* What is known of the user of a task in its midst.
LEMMA Midst ==
    ASSUME TypeOK, NEW k \in Task, pc[k] # "idle", Orderly(User(k))
    PROVE  /\ User(k) \in Users /\ k.socket \in SocketsOf(User(k)) /\ InMidst(k)
           /\ \A l \in Task : User(l) = User(k) /\ l # k => pc[l] = "idle"
           /\ \A r, s \in SocketsOf(User(k)) :
                 conn[r] \in {"connecting", "open"} /\ conn[s] \in {"connecting", "open"} => r = s
           /\ \A t \in Threads : User(k) \in viewers[t] <=> t \in rooms[User(k)]
  BY Tasks DEF Orderly, OneAtATime, SocketsOf, User

\* What is known of a user between tasks.
LEMMA Between ==
    ASSUME TypeOK, NEW u \in Users, ~ Busy(u), Orderly(u)
    PROVE  /\ Exact(u)
           /\ \A l \in Task : User(l) = u => pc[l] = "idle"
           /\ \A r, s \in SocketsOf(u) :
                 conn[r] \in {"connecting", "open"} /\ conn[s] \in {"connecting", "open"} => r = s
           /\ \A t \in Threads : u \in viewers[t] <=> t \in rooms[u]
  BY DEF Orderly, OneAtATime, Busy

\* Nobody without an open socket is in a room.
LEMMA GoneFromRooms ==
    ASSUME RoomsAreOpen, NEW u \in Users, \A s \in SocketsOf(u) : conn[s] # "open"
    PROVE  \A t \in Threads : ~ InRoom(u, t)
  BY DEF RoomsAreOpen, InRoom, SocketsOf

\* A socket is opened.
LEMMA ConnectStaysOrderly ==
    ASSUME TypeOK, TasksInPlace, RoomsAreOpen, RoomsAreOpen', NEW u \in Users, u \in orderly', Orderly(u),
           NEW s \in Sockets, Connect(s)
    PROVE  Orderly(u)'
<1>. DEFINE k == TaskOf("connect", s, None)
<1>1. /\ k \in Task /\ User(k) = UserOf[s] /\ k.op = "connect" /\ k.socket = s
      /\ conn' = [conn EXCEPT ![s] = "connecting"] /\ pc' = [pc EXCEPT ![k] = "redis"]
      /\ UNCHANGED <<inThread, found, sid, rooms, viewers>>
  BY Tasks DEF Connect, redis, TaskOf, User
<1>. HIDE DEF k
<1>2. CASE u # UserOf[s]
  <2>1. Same(u)
    BY <1>1, <1>2 DEF Same, TypeOK, SocketsOf
  <2>. QED BY <2>1, SameStaysOrderly
<1>3. CASE u = UserOf[s]
  <2>1. ~ Busy(u) /\ ~ Connected(u)
    BY <1>3 DEF Connect
  <2>2. /\ Exact(u) /\ \A l \in Task : User(l) = u => pc[l] = "idle"
        /\ \A t \in Threads : u \in viewers[t] <=> t \in rooms[u]
    BY <2>1, Between
  <2>3. sid[u] = None /\ \A t \in Threads : u \notin viewers[t]
    <3>1. sid[u] = None
      BY <2>1, <2>2 DEF Exact, SidIsExact, Connected
    <3>2. \A t \in Threads : ~ InRoom(u, t)
      BY <2>1, GoneFromRooms DEF Connected
    <3>. QED BY <2>2, <3>1, <3>2 DEF Exact
  <2>4. InMidst(k)'
    BY <1>1, <1>3, <2>3 DEF InMidst, TypeOK, User
  <2>5. \A r \in SocketsOf(u) : conn'[r] \in {"connecting", "open"} => r = s
    BY <1>1, <2>1 DEF Connected, TypeOK, SocketsOf
  <2>6. \A l \in Task : User(l) = u /\ l # k => pc'[l] = "idle"
    BY <1>1, <2>2 DEF TypeOK
  <2>7. pc'[k] = "redis"
    BY <1>1 DEF TypeOK
  <2>. QED BY <1>1, <1>3, <2>2, <2>4, <2>5, <2>6, <2>7, OwnTask
<1>. QED BY <1>2, <1>3

\* A socket is closed.
LEMMA CloseStaysOrderly ==
    ASSUME TypeOK, TasksInPlace, RoomsAreOpen, RoomsAreOpen', NEW u \in Users, u \in orderly', Orderly(u),
           NEW s \in Sockets, Close(s)
    PROVE  Orderly(u)'
<1>. DEFINE k == TaskOf("disconnect", s, None)
<1>1. /\ k \in Task /\ User(k) = UserOf[s] /\ k.op = "disconnect" /\ k.socket = s
      /\ conn' = [conn EXCEPT ![s] = "closed"] /\ pc' = [pc EXCEPT ![k] = "redis"]
      /\ inThread' = {p \in inThread : p[1] # s}
      /\ UNCHANGED <<found, sid, rooms, viewers>>
  BY Tasks DEF Close, Begin, redis, TaskOf, User
<1>. HIDE DEF k
<1>2. CASE u # UserOf[s]
  <2>1. \A r \in SocketsOf(u), t \in Threads : <<r, t>> \in inThread' <=> <<r, t>> \in inThread
    BY <1>1, <1>2 DEF SocketsOf
  <2>2. Same(u)
    BY <1>1, <1>2, <2>1 DEF Same, TypeOK, SocketsOf
  <2>. QED BY <2>2, SameStaysOrderly
<1>3. CASE u = UserOf[s]
  <2>1. ~ Busy(u)
    BY <1>1, <1>3 DEF Close, Begin, k
  <2>2. /\ \A l \in Task : User(l) = u => pc[l] = "idle"
        /\ \A q, r \in SocketsOf(u) :
              conn[q] \in {"connecting", "open"} /\ conn[r] \in {"connecting", "open"} => q = r
        /\ \A t \in Threads : u \in viewers[t] <=> t \in rooms[u]
    BY <2>1, Between
  <2>3. \A r \in SocketsOf(u) : conn'[r] \notin {"connecting", "open"}
    BY <1>1, <1>3, <2>2 DEF Close, TypeOK, SocketsOf
  <2>4. ~ Connected(u)'
    BY <2>3 DEF Connected, SocketsOf
  <2>5. InMidst(k)'
    <3>1. pc'[k] = "redis"
      BY <1>1 DEF TypeOK
    <3>. QED BY <1>1, <1>3, <2>4, <3>1 DEF InMidst, User
  <2>6. \A l \in Task : User(l) = u /\ l # k => pc'[l] = "idle"
    BY <1>1, <2>2 DEF TypeOK
  <2>7. pc'[k] = "redis"
    BY <1>1 DEF TypeOK
  <2>. QED BY <1>1, <1>3, <2>2, <2>3, <2>5, <2>6, <2>7, OwnTask
<1>. QED BY <1>2, <1>3

\* A page joins or leaves a thread.
LEMMA JoinStaysOrderly ==
    ASSUME TypeOK, TasksInPlace, RoomsAreOpen, RoomsAreOpen', NEW u \in Users, u \in orderly', Orderly(u),
           NEW s \in Sockets, NEW t \in Threads, JoinOrLeave(s, t)
    PROVE  Orderly(u)'
<1>1. PICK op \in {"join", "leave"} : Begin(TaskOf(op, s, t))
  BY DEF JoinOrLeave
<1>. DEFINE k == TaskOf(op, s, t)
<1>2. /\ k \in Task /\ User(k) = UserOf[s] /\ k.op = op /\ k.socket = s
      /\ pc' = [pc EXCEPT ![k] = "redis"] /\ conn[s] = "open"
      /\ UNCHANGED <<conn, inThread, found, sid, rooms, viewers>>
  BY <1>1, Tasks DEF JoinOrLeave, Begin, server, redis, TaskOf, User
<1>. HIDE DEF k
<1>3. CASE u # UserOf[s]
  <2>1. Same(u)
    BY <1>2, <1>3 DEF Same, TypeOK
  <2>. QED BY <2>1, SameStaysOrderly
<1>4. CASE u = UserOf[s]
  <2>1. ~ Busy(u)
    BY <1>1, <1>2, <1>4 DEF Begin, k
  <2>2. /\ Exact(u) /\ \A l \in Task : User(l) = u => pc[l] = "idle"
        /\ \A q, r \in SocketsOf(u) :
              conn[q] \in {"connecting", "open"} /\ conn[r] \in {"connecting", "open"} => q = r
        /\ \A v \in Threads : u \in viewers[v] <=> v \in rooms[u]
    BY <2>1, Between
  <2>3. pc'[k] = "redis" /\ \A l \in Task : User(l) = u /\ l # k => pc'[l] = "idle"
    BY <1>2, <2>2 DEF TypeOK
  <2>4. SidIsExact(u)' /\ \A v \in Threads : InRoom(u, v)' <=> InRoom(u, v)
    BY <1>2, <2>2 DEF Exact, SidIsExact, Connected, InRoom, SocketsOf
  <2>5. InMidst(k)'
    BY <1>2, <1>4, <2>2, <2>3, <2>4 DEF InMidst, Exact, User
  <2>. QED BY <1>2, <1>4, <2>2, <2>3, <2>5, OwnTask
<1>. QED BY <1>3, <1>4

\* A task takes a step that fails no call: the other users see nothing of it.
LEMMA HandlersLeaveOthers ==
    ASSUME TypeOK, NEW u \in Users, NEW k \in Task, Handler(k), u # User(k)
    PROVE  Same(u)
<1>0. /\ k.socket \in Sockets /\ UserOf[k.socket] = User(k)
      /\ \A s \in SocketsOf(u) : s # k.socket /\ s \in Sockets
  BY Tasks DEF User, SocketsOf
<1>. USE DEF Same, TypeOK, GoTo, server, redis
<1>1. CASE RegisterUser(k)
  BY <1>0, <1>1 DEF RegisterUser
<1>2. CASE Accept(k)
  BY <1>0, <1>2 DEF Accept
<1>3. CASE ReadRooms(k)
  BY <1>0, <1>3 DEF ReadRooms
<1>4. CASE UnregisterUser(k)
  BY <1>0, <1>4 DEF UnregisterUser
<1>5. CASE AddViewer(k)
  BY <1>0, <1>5 DEF AddViewer
<1>6. CASE RemoveViewer(k)
  BY <1>0, <1>6 DEF RemoveViewer
<1>7. CASE EnterRoom(k)
  BY <1>0, <1>7 DEF EnterRoom
<1>8. CASE LeaveRoom(k)
  BY <1>0, <1>8 DEF LeaveRoom
<1>9. CASE RefreshTtl(k)
  BY <1>0, <1>9 DEF RefreshTtl
<1>. QED BY <1>1, <1>2, <1>3, <1>4, <1>5, <1>6, <1>7, <1>8, <1>9 DEF Handler

\* Redis gets the socket.
LEMMA RegisterUserOrderly ==
    ASSUME TypeOK, TasksInPlace, RoomsAreOpen, NEW k \in Task, Orderly(User(k)),
           RegisterUser(k)
    PROVE  Orderly(User(k))'
<1>. DEFINE u == User(k)
<1>0. /\ u \in Users /\ k.socket \in SocketsOf(u) /\ k.socket \in Sockets /\ pc[k] # "idle" /\ InMidst(k)
      /\ \A l \in Task : User(l) = u /\ l # k => pc[l] = "idle"
      /\ \A r, s \in SocketsOf(u) :
            conn[r] \in {"connecting", "open"} /\ conn[s] \in {"connecting", "open"} => r = s
      /\ \A t \in Threads : u \in viewers[t] <=> t \in rooms[u]
      /\ u = User(k) /\ (k.op \in {"join", "leave"} => k.thread \in Threads)
      /\ \A s \in Sockets : s \in SocketsOf(u) <=> UserOf[s] = u
  BY Midst, Tasks DEF RegisterUser, At, SocketsOf
<1>. HIDE DEF u
<1>1. /\ k.op = "connect" /\ pc[k] = "redis" /\ pc' = [pc EXCEPT ![k] = "room"]
      /\ sid' = [sid EXCEPT ![u] = k.socket] /\ UNCHANGED <<conn, inThread, found, rooms, viewers>>
  BY <1>0 DEF RegisterUser, At, GoTo, server
<1>2. pc'[k] = "room" /\ \A l \in Task : User(l) = u /\ l # k => pc'[l] = "idle"
  BY <1>0, <1>1 DEF TypeOK
<1>3. InMidst(k)'
  BY <1>0, <1>1, <1>2 DEF InMidst, TypeOK, User
<1>. QED BY <1>0, <1>1, <1>2, <1>3, OwnTask

\* The socket is accepted.
LEMMA AcceptOrderly ==
    ASSUME TypeOK, TasksInPlace, RoomsAreOpen, NEW k \in Task, Orderly(User(k)),
           Accept(k)
    PROVE  Orderly(User(k))'
<1>. DEFINE u == User(k)
<1>0. /\ u \in Users /\ k.socket \in SocketsOf(u) /\ k.socket \in Sockets /\ pc[k] # "idle" /\ InMidst(k)
      /\ \A l \in Task : User(l) = u /\ l # k => pc[l] = "idle"
      /\ \A r, s \in SocketsOf(u) :
            conn[r] \in {"connecting", "open"} /\ conn[s] \in {"connecting", "open"} => r = s
      /\ \A t \in Threads : u \in viewers[t] <=> t \in rooms[u]
      /\ u = User(k) /\ (k.op \in {"join", "leave"} => k.thread \in Threads)
      /\ \A s \in Sockets : s \in SocketsOf(u) <=> UserOf[s] = u
  BY Midst, Tasks DEF Accept, At, SocketsOf
<1>. HIDE DEF u
<1>1. /\ k.op = "connect" /\ pc[k] = "room" /\ pc' = [pc EXCEPT ![k] = "idle"]
      /\ conn[k.socket] = "connecting" /\ conn' = [conn EXCEPT ![k.socket] = "open"]
      /\ sid[u] = k.socket /\ \A t \in Threads : u \notin viewers[t]
      /\ UNCHANGED <<inThread, found, sid, rooms, viewers>>
  BY <1>0 DEF Accept, At, GoTo, redis, InMidst, TypeOK
<1>2. pc'[k] = "idle" /\ \A l \in Task : User(l) = u /\ l # k => pc'[l] = "idle"
  BY <1>0, <1>1 DEF TypeOK
<1>3. \A s \in SocketsOf(u) : conn[s] # "open"
  BY <1>0, <1>1
<1>4. \A t \in Threads : ~ InRoom(u, t)'
  BY <1>0, <1>1, <1>3, GoneFromRooms DEF InRoom, SocketsOf
<1>5. SidIsExact(u)'
  BY <1>0, <1>1 DEF SidIsExact, SocketsOf, TypeOK
<1>6. Exact(u)'
  BY <1>1, <1>4, <1>5 DEF Exact
<1>7. \A r, s \in SocketsOf(u) :
         conn'[r] \in {"connecting", "open"} /\ conn'[s] \in {"connecting", "open"} => r = s
  BY <1>0, <1>1 DEF TypeOK
<1>. QED BY <1>0, <1>1, <1>2, <1>6, <1>7, OwnTask

\* The rooms of a user who leaves are read.
LEMMA ReadRoomsOrderly ==
    ASSUME TypeOK, TasksInPlace, RoomsAreOpen, NEW k \in Task, Orderly(User(k)),
           ReadRooms(k)
    PROVE  Orderly(User(k))'
<1>. DEFINE u == User(k)
<1>0. /\ u \in Users /\ k.socket \in SocketsOf(u) /\ k.socket \in Sockets /\ pc[k] # "idle" /\ InMidst(k)
      /\ \A l \in Task : User(l) = u /\ l # k => pc[l] = "idle"
      /\ \A r, s \in SocketsOf(u) :
            conn[r] \in {"connecting", "open"} /\ conn[s] \in {"connecting", "open"} => r = s
      /\ \A t \in Threads : u \in viewers[t] <=> t \in rooms[u]
      /\ u = User(k) /\ (k.op \in {"join", "leave"} => k.thread \in Threads)
      /\ \A s \in Sockets : s \in SocketsOf(u) <=> UserOf[s] = u
  BY Midst, Tasks DEF ReadRooms, At, SocketsOf
<1>. HIDE DEF u
<1>1. /\ k.op = "disconnect" /\ pc[k] = "redis" /\ pc' = [pc EXCEPT ![k] = "drop"]
      /\ found' = [found EXCEPT ![k.socket] = rooms[u]]
      /\ UNCHANGED <<conn, inThread, sid, rooms, viewers>>
  BY <1>0 DEF ReadRooms, At, GoTo, server, redis
<1>2. pc'[k] = "drop" /\ \A l \in Task : User(l) = u /\ l # k => pc'[l] = "idle"
  BY <1>0, <1>1 DEF TypeOK
<1>3. found'[k.socket] = rooms[u] /\ ~ Connected(u)'
  BY <1>0, <1>1 DEF InMidst, Connected, SocketsOf, TypeOK
<1>4. InMidst(k)'
  BY <1>0, <1>1, <1>2, <1>3 DEF InMidst, User
<1>. QED BY <1>0, <1>1, <1>2, <1>4, OwnTask

\* The user leaves Redis.
LEMMA UnregisterUserOrderly ==
    ASSUME TypeOK, TasksInPlace, RoomsAreOpen, NEW k \in Task, Orderly(User(k)),
           UnregisterUser(k)
    PROVE  Orderly(User(k))'
<1>. DEFINE u == User(k)
<1>0. /\ u \in Users /\ k.socket \in SocketsOf(u) /\ k.socket \in Sockets /\ pc[k] # "idle" /\ InMidst(k)
      /\ \A l \in Task : User(l) = u /\ l # k => pc[l] = "idle"
      /\ \A r, s \in SocketsOf(u) :
            conn[r] \in {"connecting", "open"} /\ conn[s] \in {"connecting", "open"} => r = s
      /\ \A t \in Threads : u \in viewers[t] <=> t \in rooms[u]
      /\ u = User(k) /\ (k.op \in {"join", "leave"} => k.thread \in Threads)
      /\ \A s \in Sockets : s \in SocketsOf(u) <=> UserOf[s] = u
  BY Midst, Tasks DEF UnregisterUser, At, SocketsOf
<1>. HIDE DEF u
<1>1. /\ k.op = "disconnect" /\ pc[k] = "drop" /\ pc' = [pc EXCEPT ![k] = "idle"]
      /\ viewers' = [t \in Threads |-> IF t \in found[k.socket] THEN viewers[t] \ {u} ELSE viewers[t]]
      /\ sid' = [sid EXCEPT ![u] = None] /\ rooms' = [rooms EXCEPT ![u] = {}]
      /\ UNCHANGED <<conn, inThread>>
      /\ found[k.socket] = rooms[u] /\ ~ Connected(u)
  BY <1>0 DEF UnregisterUser, At, GoTo, server, InMidst
<1>2. pc'[k] = "idle" /\ \A l \in Task : User(l) = u /\ l # k => pc'[l] = "idle"
  BY <1>0, <1>1 DEF TypeOK
<1>3. /\ \A t \in Threads : u \notin viewers'[t]
      /\ rooms'[u] = {} /\ sid'[u] = None
  BY <1>0, <1>1 DEF TypeOK
<1>4. \A t \in Threads : ~ InRoom(u, t)'
  <2>1. \A t \in Threads : ~ InRoom(u, t)
    BY <1>0, <1>1, GoneFromRooms DEF Connected
  <2>. QED BY <1>1, <2>1 DEF InRoom, SocketsOf
<1>5. Exact(u)'
  BY <1>1, <1>3, <1>4 DEF Exact, SidIsExact, Connected, SocketsOf
<1>. QED BY <1>0, <1>1, <1>2, <1>3, <1>5, OwnTask

\* A page is noted as viewing the thread.
LEMMA AddViewerOrderly ==
    ASSUME TypeOK, TasksInPlace, RoomsAreOpen, NEW k \in Task, Orderly(User(k)),
           AddViewer(k)
    PROVE  Orderly(User(k))'
<1>. DEFINE u == User(k)
<1>0. /\ u \in Users /\ k.socket \in SocketsOf(u) /\ k.socket \in Sockets /\ pc[k] # "idle" /\ InMidst(k)
      /\ \A l \in Task : User(l) = u /\ l # k => pc[l] = "idle"
      /\ \A r, s \in SocketsOf(u) :
            conn[r] \in {"connecting", "open"} /\ conn[s] \in {"connecting", "open"} => r = s
      /\ \A t \in Threads : u \in viewers[t] <=> t \in rooms[u]
      /\ u = User(k) /\ (k.op \in {"join", "leave"} => k.thread \in Threads)
      /\ \A s \in Sockets : s \in SocketsOf(u) <=> UserOf[s] = u
  BY Midst, Tasks DEF AddViewer, At, SocketsOf
<1>. HIDE DEF u
<1>1. /\ k.op = "join" /\ pc[k] = "redis" /\ pc' = [pc EXCEPT ![k] = "room"]
      /\ viewers' = [viewers EXCEPT ![k.thread] = viewers[k.thread] \cup {u}]
      /\ rooms' = [rooms EXCEPT ![u] = rooms[u] \cup {k.thread}]
      /\ UNCHANGED <<conn, inThread, found, sid>>
  BY <1>0 DEF AddViewer, At, GoTo, server
<1>2. pc'[k] = "room" /\ \A l \in Task : User(l) = u /\ l # k => pc'[l] = "idle"
  BY <1>0, <1>1 DEF TypeOK
<1>3. /\ \A t \in Threads : t # k.thread => (u \in viewers'[t] <=> u \in viewers[t])
      /\ u \in viewers'[k.thread] <=> k.op = "join"
      /\ \A t \in Threads : u \in viewers'[t] <=> t \in rooms'[u]
  BY <1>0, <1>1 DEF TypeOK
<1>4. SidIsExact(u)' /\ \A t \in Threads : InRoom(u, t)' <=> InRoom(u, t)
  BY <1>0, <1>1 DEF InMidst, SidIsExact, Connected, InRoom, SocketsOf
<1>5. InMidst(k)'
  BY <1>0, <1>1, <1>2, <1>3, <1>4 DEF InMidst, User
<1>. QED BY <1>0, <1>1, <1>2, <1>3, <1>5, OwnTask

\* ... and is not any more.
LEMMA RemoveViewerOrderly ==
    ASSUME TypeOK, TasksInPlace, RoomsAreOpen, NEW k \in Task, Orderly(User(k)),
           RemoveViewer(k)
    PROVE  Orderly(User(k))'
<1>. DEFINE u == User(k)
<1>0. /\ u \in Users /\ k.socket \in SocketsOf(u) /\ k.socket \in Sockets /\ pc[k] # "idle" /\ InMidst(k)
      /\ \A l \in Task : User(l) = u /\ l # k => pc[l] = "idle"
      /\ \A r, s \in SocketsOf(u) :
            conn[r] \in {"connecting", "open"} /\ conn[s] \in {"connecting", "open"} => r = s
      /\ \A t \in Threads : u \in viewers[t] <=> t \in rooms[u]
      /\ u = User(k) /\ (k.op \in {"join", "leave"} => k.thread \in Threads)
      /\ \A s \in Sockets : s \in SocketsOf(u) <=> UserOf[s] = u
  BY Midst, Tasks DEF RemoveViewer, At, SocketsOf
<1>. HIDE DEF u
<1>1. /\ k.op = "leave" /\ pc[k] = "redis" /\ pc' = [pc EXCEPT ![k] = "room"]
      /\ viewers' = [viewers EXCEPT ![k.thread] = viewers[k.thread] \ {u}]
      /\ rooms' = [rooms EXCEPT ![u] = rooms[u] \ {k.thread}]
      /\ UNCHANGED <<conn, inThread, found, sid>>
  BY <1>0 DEF RemoveViewer, At, GoTo, server
<1>2. pc'[k] = "room" /\ \A l \in Task : User(l) = u /\ l # k => pc'[l] = "idle"
  BY <1>0, <1>1 DEF TypeOK
<1>3. /\ \A t \in Threads : t # k.thread => (u \in viewers'[t] <=> u \in viewers[t])
      /\ u \in viewers'[k.thread] <=> k.op = "join"
      /\ \A t \in Threads : u \in viewers'[t] <=> t \in rooms'[u]
  BY <1>0, <1>1 DEF TypeOK
<1>4. SidIsExact(u)' /\ \A t \in Threads : InRoom(u, t)' <=> InRoom(u, t)
  BY <1>0, <1>1 DEF InMidst, SidIsExact, Connected, InRoom, SocketsOf
<1>5. InMidst(k)'
  BY <1>0, <1>1, <1>2, <1>3, <1>4 DEF InMidst, User
<1>. QED BY <1>0, <1>1, <1>2, <1>3, <1>5, OwnTask

\* The server follows.
LEMMA EnterRoomOrderly ==
    ASSUME TypeOK, TasksInPlace, RoomsAreOpen, NEW k \in Task, Orderly(User(k)),
           EnterRoom(k)
    PROVE  Orderly(User(k))'
<1>. DEFINE u == User(k)
<1>0. /\ u \in Users /\ k.socket \in SocketsOf(u) /\ k.socket \in Sockets /\ pc[k] # "idle" /\ InMidst(k)
      /\ \A l \in Task : User(l) = u /\ l # k => pc[l] = "idle"
      /\ \A r, s \in SocketsOf(u) :
            conn[r] \in {"connecting", "open"} /\ conn[s] \in {"connecting", "open"} => r = s
      /\ \A t \in Threads : u \in viewers[t] <=> t \in rooms[u]
      /\ u = User(k) /\ (k.op \in {"join", "leave"} => k.thread \in Threads)
      /\ \A s \in Sockets : s \in SocketsOf(u) <=> UserOf[s] = u
  BY Midst, Tasks DEF EnterRoom, At, SocketsOf
<1>. HIDE DEF u
<1>1. /\ k.op = "join" /\ pc[k] = "room" /\ conn[k.socket] = "open"
      /\ pc' = [pc EXCEPT ![k] = "refresh"] /\ inThread' = inThread \cup {<<k.socket, k.thread>>}
      /\ UNCHANGED <<conn, found, sid, rooms, viewers>>
  BY <1>0 DEF EnterRoom, At, GoTo, redis, InMidst
<1>2. pc'[k] = "refresh" /\ \A l \in Task : User(l) = u /\ l # k => pc'[l] = "idle"
  BY <1>0, <1>1 DEF TypeOK
<1>3. SidIsExact(u)'
  BY <1>0, <1>1 DEF InMidst, SidIsExact, Connected, SocketsOf
<1>4. ASSUME NEW t \in Threads PROVE u \in viewers[t] <=> InRoom(u, t)'
  <2>1. CASE t # k.thread
    <3>1. \A s \in Sockets : <<s, t>> \in inThread' <=> <<s, t>> \in inThread
      BY <1>1, <2>1
    <3>. QED BY <1>0, <1>1, <2>1, <3>1 DEF InMidst, InRoom, SocketsOf
  <2>2. CASE t = k.thread
    <3>1. u \in viewers[t] <=> k.op = "join"
      BY <1>0, <1>1, <2>2 DEF InMidst
    <3>2. ASSUME NEW s \in SocketsOf(u), <<s, t>> \in inThread
          PROVE  s = k.socket
      <4>1. s \in Sockets /\ conn[s] = "open"
        BY <3>2 DEF RoomsAreOpen, SocketsOf
      <4>. QED BY <1>0, <1>1, <3>2, <4>1
    <3>. QED BY <1>0, <1>1, <2>2, <3>1, <3>2 DEF InRoom, SocketsOf
  <2>. QED BY <2>1, <2>2
<1>5. InMidst(k)'
  BY <1>0, <1>1, <1>2, <1>3, <1>4 DEF InMidst, User
<1>. QED BY <1>0, <1>1, <1>2, <1>5, OwnTask

\* ... in leaving, too.
LEMMA LeaveRoomOrderly ==
    ASSUME TypeOK, TasksInPlace, RoomsAreOpen, NEW k \in Task, Orderly(User(k)),
           LeaveRoom(k)
    PROVE  Orderly(User(k))'
<1>. DEFINE u == User(k)
<1>0. /\ u \in Users /\ k.socket \in SocketsOf(u) /\ k.socket \in Sockets /\ pc[k] # "idle" /\ InMidst(k)
      /\ \A l \in Task : User(l) = u /\ l # k => pc[l] = "idle"
      /\ \A r, s \in SocketsOf(u) :
            conn[r] \in {"connecting", "open"} /\ conn[s] \in {"connecting", "open"} => r = s
      /\ \A t \in Threads : u \in viewers[t] <=> t \in rooms[u]
      /\ u = User(k) /\ (k.op \in {"join", "leave"} => k.thread \in Threads)
      /\ \A s \in Sockets : s \in SocketsOf(u) <=> UserOf[s] = u
  BY Midst, Tasks DEF LeaveRoom, At, SocketsOf
<1>. HIDE DEF u
<1>1. /\ k.op = "leave" /\ pc[k] = "room" /\ conn[k.socket] = "open"
      /\ pc' = [pc EXCEPT ![k] = "refresh"] /\ inThread' = inThread \ {<<k.socket, k.thread>>}
      /\ UNCHANGED <<conn, found, sid, rooms, viewers>>
  BY <1>0 DEF LeaveRoom, At, GoTo, redis, InMidst
<1>2. pc'[k] = "refresh" /\ \A l \in Task : User(l) = u /\ l # k => pc'[l] = "idle"
  BY <1>0, <1>1 DEF TypeOK
<1>3. SidIsExact(u)'
  BY <1>0, <1>1 DEF InMidst, SidIsExact, Connected, SocketsOf
<1>4. ASSUME NEW t \in Threads PROVE u \in viewers[t] <=> InRoom(u, t)'
  <2>1. CASE t # k.thread
    <3>1. \A s \in Sockets : <<s, t>> \in inThread' <=> <<s, t>> \in inThread
      BY <1>1, <2>1
    <3>. QED BY <1>0, <1>1, <2>1, <3>1 DEF InMidst, InRoom, SocketsOf
  <2>2. CASE t = k.thread
    <3>1. u \in viewers[t] <=> k.op = "join"
      BY <1>0, <1>1, <2>2 DEF InMidst
    <3>2. ASSUME NEW s \in SocketsOf(u), <<s, t>> \in inThread
          PROVE  s = k.socket
      <4>1. s \in Sockets /\ conn[s] = "open"
        BY <3>2 DEF RoomsAreOpen, SocketsOf
      <4>. QED BY <1>0, <1>1, <3>2, <4>1
    <3>. QED BY <1>0, <1>1, <2>2, <3>1, <3>2 DEF InRoom, SocketsOf
  <2>. QED BY <2>1, <2>2
<1>5. InMidst(k)'
  BY <1>0, <1>1, <1>2, <1>3, <1>4 DEF InMidst, User
<1>. QED BY <1>0, <1>1, <1>2, <1>5, OwnTask

\* The times of life begin again.
LEMMA RefreshTtlOrderly ==
    ASSUME TypeOK, TasksInPlace, RoomsAreOpen, NEW k \in Task, Orderly(User(k)),
           RefreshTtl(k)
    PROVE  Orderly(User(k))'
<1>. DEFINE u == User(k)
<1>0. /\ u \in Users /\ k.socket \in SocketsOf(u) /\ k.socket \in Sockets /\ pc[k] # "idle" /\ InMidst(k)
      /\ \A l \in Task : User(l) = u /\ l # k => pc[l] = "idle"
      /\ \A r, s \in SocketsOf(u) :
            conn[r] \in {"connecting", "open"} /\ conn[s] \in {"connecting", "open"} => r = s
      /\ \A t \in Threads : u \in viewers[t] <=> t \in rooms[u]
      /\ u = User(k) /\ (k.op \in {"join", "leave"} => k.thread \in Threads)
      /\ \A s \in Sockets : s \in SocketsOf(u) <=> UserOf[s] = u
  BY Midst, Tasks DEF RefreshTtl, At, SocketsOf
<1>. HIDE DEF u
<1>1. /\ k.op \in {"join", "leave"} /\ pc[k] = "refresh" /\ pc' = [pc EXCEPT ![k] = "idle"]
      /\ UNCHANGED <<conn, inThread, found, sid, rooms, viewers>>
  BY <1>0 DEF RefreshTtl, At, GoTo, server, TasksInPlace, Task
<1>2. pc'[k] = "idle" /\ \A l \in Task : User(l) = u /\ l # k => pc'[l] = "idle"
  BY <1>0, <1>1 DEF TypeOK
<1>3. Exact(u)
  BY <1>0, <1>1 DEF InMidst, Exact
<1>4. Exact(u)'
  BY <1>1, <1>3 DEF Exact, SidIsExact, Connected, InRoom, SocketsOf
<1>. QED BY <1>0, <1>1, <1>2, <1>4, OwnTask

-----------------------------------------------------------------------------
(* The theorems.                                                           *)

\* Whatever happens, the users who are still orderly then are in order.
LEMMA OrderlyStepKeeps ==
    ASSUME PresenceInv, [Next]_vars, NEW u \in orderly'
    PROVE  Orderly(u)'
<1>. USE DEF PresenceInv
<1>0. u \in Users /\ u \in orderly /\ Orderly(u) /\ RoomsAreOpen'
  <2>1. orderly' \subseteq orderly
    BY DEF Next, Connect, Close, JoinOrLeave, Begin, Handler, RegisterUser, Accept, ReadRooms,
       UnregisterUser, AddViewer, RemoveViewer, EnterRoom, LeaveRoom, RefreshTtl, GoTo, RedisFails,
       HalfTtl, GatewayDies, vars
  <2>. QED BY <2>1, RoomSteps DEF TypeOK
<1>1. ASSUME NEW s \in Sockets,
             Connect(s) \/ Close(s) \/ \E t \in Threads : JoinOrLeave(s, t)
      PROVE  Orderly(u)'
  BY <1>0, <1>1, ConnectStaysOrderly, CloseStaysOrderly, JoinStaysOrderly
<1>2. ASSUME NEW k \in Task, Handler(k) PROVE Orderly(u)'
  <2>1. CASE u # User(k)
    BY <1>0, <1>2, <2>1, HandlersLeaveOthers, SameStaysOrderly
  <2>2. CASE u = User(k)
    BY <1>0, <1>2, <2>2, RegisterUserOrderly, AcceptOrderly, ReadRoomsOrderly,
       UnregisterUserOrderly, AddViewerOrderly, RemoveViewerOrderly, EnterRoomOrderly,
       LeaveRoomOrderly, RefreshTtlOrderly DEF Handler
  <2>. QED BY <2>1, <2>2
<1>3. ASSUME NEW k \in Task, RedisFails(k) PROVE Orderly(u)'
  <2>1. u # User(k)
    BY <1>3 DEF RedisFails
  <2>2. /\ k.socket \in Sockets /\ UserOf[k.socket] = User(k)
        /\ \A s \in SocketsOf(u) : s # k.socket /\ s \in Sockets
    BY <2>1, Tasks DEF User, SocketsOf
  <2>3. Same(u)
    BY <1>3, <2>1, <2>2 DEF RedisFails, Same, TypeOK, server, redis
  <2>. QED BY <1>0, <2>3, SameStaysOrderly
<1>4. ASSUME HalfTtl PROVE Orderly(u)'
  <2>1. /\ UNCHANGED <<conn, inThread, pc, found>>
        /\ sid'[u] = sid[u] /\ rooms'[u] = rooms[u]
        /\ \A t \in Threads : u \in viewers'[t] <=> u \in viewers[t]
    BY <1>0, <1>4, Keys DEF HalfTtl, server, TypeOK
  <2>2. Same(u)
    BY <2>1 DEF Same
  <2>. QED BY <1>0, <2>2, SameStaysOrderly
<1>5. ASSUME GatewayDies PROVE Orderly(u)'
  <2>1. /\ ~ Connected(u) /\ ~ Busy(u)
        /\ conn' = [s \in Sockets |-> IF conn[s] = "new" THEN "new" ELSE "closed"]
        /\ inThread' = {} /\ pc' = [k \in Task |-> "idle"] /\ UNCHANGED <<sid, rooms, viewers>>
    BY <1>5 DEF GatewayDies, redis
  <2>2. Exact(u) /\ \A t \in Threads : u \in viewers[t] <=> t \in rooms[u]
    BY <1>0, <2>1, Between
  <2>3. sid[u] = None /\ \A t \in Threads : u \notin viewers[t]
    <3>1. sid[u] = None
      BY <2>1, <2>2 DEF Exact, SidIsExact, Connected
    <3>2. \A t \in Threads : ~ InRoom(u, t)
      BY <1>0, <2>1, GoneFromRooms DEF Connected
    <3>. QED BY <2>2, <3>1, <3>2 DEF Exact
  <2>4. Exact(u)'
    BY <2>1, <2>3 DEF Exact, SidIsExact, Connected, InRoom, SocketsOf
  <2>5. OneAtATime(u)'
    BY <2>1 DEF OneAtATime, SocketsOf
  <2>. QED BY <2>1, <2>2, <2>4, <2>5 DEF Orderly, Busy
<1>6. ASSUME UNCHANGED vars PROVE Orderly(u)'
  <2>1. Same(u)
    BY <1>6 DEF vars, server, redis, Same
  <2>. QED BY <1>0, <2>1, SameStaysOrderly
<1>. QED BY <1>1, <1>2, <1>3, <1>4, <1>5, <1>6 DEF Next

LEMMA InitHolds == Init => PresenceInv
<1>. SUFFICES ASSUME Init PROVE PresenceInv
  OBVIOUS
<1>. USE DEF Init
<1>1. TypeOK /\ KeysHaveTime
  BY DEF TypeOK, KeysHaveTime
<1>2. TasksInPlace /\ RoomsAreOpen
  BY DEF TasksInPlace, RoomsAreOpen
<1>3. ASSUME NEW u \in orderly PROVE Orderly(u)
  BY DEF Orderly, OneAtATime, Exact, SidIsExact, Busy, Connected, InRoom, SocketsOf
<1>. QED BY <1>1, <1>2, <1>3 DEF PresenceInv

\* PresenceInv is inductive.
THEOREM PresenceInvariant == Spec => []PresenceInv
<1>1. PresenceInv /\ [Next]_vars => PresenceInv'
  <2>. SUFFICES ASSUME PresenceInv, [Next]_vars PROVE PresenceInv'
    OBVIOUS
  <2>1. TypeOK' /\ KeysHaveTime'
    BY TimesStepKeeps DEF PresenceInv, TimesInv
  <2>2. TasksInPlace' /\ RoomsAreOpen'
    BY TaskSteps, RoomSteps DEF PresenceInv
  <2>. QED BY <2>1, <2>2, OrderlyStepKeeps DEF PresenceInv
<1>. QED BY <1>1, InitHolds, PTL DEF Spec

\* Redis agrees with the server about everyone to whom things happen one at a time,
\* whatever the others do.
THEOREM PresenceStaysExact == Spec => []PresenceIsExact
<1>1. PresenceInv => PresenceIsExact
  BY DEF PresenceInv, Orderly, PresenceIsExact
<1>. QED BY <1>1, PresenceInvariant, PTL
=============================================================================
