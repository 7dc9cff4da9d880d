------------------------------ MODULE Delivery ------------------------------
(***************************************************************************)
(* From an event of the thread service to the open pages of its targets:   *)
(* the notification service composed, by the queue of pushes, with the     *)
(* websocket gateway's consumer and the sockets in their users' rooms.     *)
(*                                                                         *)
(* A page is external: it connects its socket, then loads the list of      *)
(* notifications, and shows what the list and the pushes bring.            *)
(***************************************************************************)
EXTENDS Notifications

CONSTANTS
    Sockets,   \* bound: the sockets that can be opened, each once
    UserOf     \* UserOf[s]: whose socket s is

ASSUME DeliveryAssumption == UserOf \in [Sockets -> Users]

VARIABLES
    conn,      \* conn[s]: "new", "connecting", "open" or "closed"
    inRoom,    \* the sockets in the room of their user
    loaded,    \* the pages that have loaded the list
    shown,     \* shown[s]: the notifications on the page of s
    gpc        \* the gateway consumer's next step

gatewayVars == <<conn, inRoom, loaded, shown, gpc>>
vars == <<serviceVars, gatewayVars>>

TypeOK ==
    /\ ServiceTypeOK
    /\ conn \in [Sockets -> {"new", "connecting", "open", "closed"}]
    /\ inRoom \subseteq Sockets
    /\ loaded \subseteq Sockets
    /\ shown \in [Sockets -> SUBSET Row]
    /\ gpc \in {"idle", "ack"}

Init ==
    /\ ServiceInit
    /\ conn = [s \in Sockets |-> "new"]
    /\ inRoom = {}
    /\ loaded = {}
    /\ shown = [s \in Sockets |-> {}]
    /\ gpc = "idle"

-----------------------------------------------------------------------------
(* Sockets and pages.                                                      *)

\* connect has verified the token; register_user is on its way to Redis.
Connect(s) ==
    /\ conn[s] = "new"
    /\ conn' = [conn EXCEPT ![s] = "connecting"]
    /\ UNCHANGED <<serviceVars, inRoom, loaded, shown, gpc>>

\* Mutant: the socket is accepted and enters no room.
AcceptOutside(s) ==
    /\ conn[s] = "connecting"
    /\ conn' = [conn EXCEPT ![s] = "open"]
    /\ UNCHANGED <<serviceVars, inRoom, loaded, shown, gpc>>

\* connect enters the room of the user and accepts the socket.
Accept(s) ==
    /\ conn[s] = "connecting"
    /\ inRoom' = inRoom \cup {s}
    /\ conn' = [conn EXCEPT ![s] = "open"]
    /\ UNCHANGED <<serviceVars, loaded, shown, gpc>>

\* GET /notifications by the page of s.
LoadList(s) ==
    /\ conn[s] = "open" /\ s \notin loaded
    /\ shown' = [shown EXCEPT ![s] = @ \cup {r \in rows : r.user = UserOf[s]}]
    /\ loaded' = loaded \cup {s}
    /\ UNCHANGED <<serviceVars, conn, inRoom, gpc>>

Close(s) ==
    /\ conn[s] \in {"connecting", "open"}
    /\ conn' = [conn EXCEPT ![s] = "closed"]
    /\ inRoom' = inRoom \ {s}
    /\ loaded' = loaded \ {s}
    /\ shown' = [shown EXCEPT ![s] = {}]
    /\ UNCHANGED <<serviceVars, gpc>>

-----------------------------------------------------------------------------
(* The gateway's consumer.                                                 *)

\* handle_notification: emit to the room of the row's user.
Emit ==
    /\ gpc = "idle" /\ realtime # <<>>
    /\ LET r == Head(realtime) IN
          shown' = [s \in Sockets |->
                      IF s \in inRoom /\ UserOf[s] = r.user THEN shown[s] \cup {r} ELSE shown[s]]
    /\ gpc' = "ack"
    /\ UNCHANGED <<serviceVars, conn, inRoom, loaded>>

\* The handler raises; _handle_message swallows it.
EmitFails ==
    /\ "emit" \in Faults
    /\ gpc = "idle" /\ realtime # <<>>
    /\ unpushed' = unpushed \cup {Head(realtime)}
    /\ gpc' = "ack"
    /\ UNCHANGED <<consumer, handlers, rows, read, realtime, conn, inRoom, loaded, shown>>

AcknowledgePush ==
    /\ gpc = "ack"
    /\ realtime' = Tail(realtime)
    /\ gpc' = "idle"
    /\ UNCHANGED <<consumer, handlers, rows, read, unpushed, conn, inRoom, loaded, shown>>

\* The gateway starts again, without sockets.
Restarts ==
    /\ gpc' = "idle"
    /\ conn' = [s \in Sockets |-> IF conn[s] = "new" THEN "new" ELSE "closed"]
    /\ inRoom' = {}
    /\ loaded' = {}
    /\ shown' = [s \in Sockets |-> {}]

\* After a crash the push in hand is delivered again.
GatewayDies == "process" \in Faults /\ Restarts /\ UNCHANGED serviceVars

\* The lifespan ends and cancels the consumer; the push in hand is rejected.
GatewayShutsDown ==
    /\ "shutdown" \in Faults /\ realtime # <<>>
    /\ Restarts
    /\ realtime' = Tail(realtime)
    /\ unpushed' = unpushed \cup {Head(realtime)}
    /\ UNCHANGED <<consumer, handlers, rows, read>>

-----------------------------------------------------------------------------

GatewayNext ==
    \/ \E s \in Sockets : Connect(s) \/ Accept(s) \/ LoadList(s) \/ Close(s)
    \/ Emit \/ EmitFails \/ AcknowledgePush
    \/ GatewayDies \/ GatewayShutsDown

Next == (ServiceNext /\ UNCHANGED gatewayVars) \/ GatewayNext

Spec == Init /\ [][Next]_vars

-----------------------------------------------------------------------------
(* Properties.                                                             *)

\* What is pushed, and shown, is committed: a page never offers to mark as read
\* what the service does not find.
PushedIsCommitted ==
    /\ RowsIn(realtime) \subseteq rows
    /\ \A s \in Sockets : shown[s] \subseteq rows

\* Rows that are committed and whose turn to be published has not come.
Publishing == IF wpc = "publish" THEN RowsIn(batch) ELSE {}

\* A page that was connected when it loaded its list misses nothing: whatever is
\* committed is shown on it, or is on its way, or its push was lost.  No row
\* falls between the list and the pushes.
NothingFallsBetween ==
    \A s \in loaded : \A r \in rows :
        r.user = UserOf[s] => r \in shown[s] \cup unpushed \cup RowsIn(realtime) \cup Publishing

\* The rows of the event in hand, as far as they have been inserted.
BatchInPlace ==
    /\ wpc # "idle" => queue # <<>>
    /\ wpc \in {"idle", "ack"} => batch = <<>>
    /\ wpc = "insert" => Len(batch) < Len(Targets[Job])
    /\ wpc = "commit" => Len(batch) = Len(Targets[Job]) /\ batch # <<>>
    /\ wpc \in {"insert", "commit"} =>
          \A i \in 1..Len(batch) :
              batch[i] = [event |-> Job, user |-> Targets[Job][i], delivery |-> delivery[Job]]
    /\ wpc = "publish" => batch # <<>> /\ RowsIn(batch) \subseteq rows

\* An event is not acknowledged before it has been handled.
HandledFirst ==
    /\ wpc = "publish" => Notified(Job)
    /\ wpc = "ack" => Notified(Job) \/ Job \in dropped

\* What a request has found exists, and what it has not marked is read.
MarksInPlace ==
    \A h \in Handlers :
        /\ pc[h] # "idle" => req[h] \in Requests
        /\ found[h] \cup marked[h] \subseteq rows
        /\ pc[h] = "commit" => found[h] \subseteq marked[h] \cup read

\* Pages are in their users' rooms, and what was emitted is on the page.
PagesInPlace ==
    /\ loaded \subseteq {s \in inRoom : conn[s] = "open"}
    /\ \A s \in Sockets : conn[s] = "open" => s \in inRoom
    /\ gpc = "ack" =>
          /\ realtime # <<>>
          /\ \A s \in loaded : UserOf[s] = Head(realtime).user =>
                Head(realtime) \in shown[s] \cup unpushed

\* The inductive invariant.
DeliveryInv ==
    /\ TypeOK
    /\ BatchInPlace
    /\ HandledFirst
    /\ MarksInPlace
    /\ PagesInPlace
    /\ AllTargetsAlike
    /\ EveryTargetIsNotified
    /\ PushedIsCommitted
    /\ NothingFallsBetween
=============================================================================
