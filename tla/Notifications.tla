---------------------------- MODULE Notifications ----------------------------
(***************************************************************************)
(* The notification service: events of the thread service become rows, one *)
(* per target, and the rows become pushes for the websocket gateway; users *)
(* mark rows as read.                                                      *)
(*                                                                         *)
(* A step is one awaited statement; transactions are READ COMMITTED.  This *)
(* module leaves open what becomes of the pushes: Delivery composes it with*)
(* the gateway.                                                            *)
(***************************************************************************)
EXTENDS Naturals, Sequences, FiniteSets

CONSTANTS
    Users,
    Events,         \* what the thread service publishes, each once
    Targets,        \* Targets[e]: the event's target_user_ids
    Requests,       \* the requests that get sent
    Handlers,       \* bound: the requests in flight, one each
    None,           \* no request
    MaxDeliveries,  \* bound: how often one event is delivered
    Faults          \* of {"database", "publish", "commit", "process", "shutdown", "emit"}

\* build_comment_created has one target, build_mention_notification the values
\* of a dict from names to users, which differ.
ASSUME NotificationsAssumption ==
    /\ Targets \in [Events -> Seq(Users)]
    /\ \A e \in Events : \A i, j \in 1..Len(Targets[e]) :
          Targets[e][i] = Targets[e][j] => i = j
    /\ MaxDeliveries \in Nat

\* A notification: a row has a generated id, so that each delivery of an event
\* makes rows of its own.
Row == [event : Events, user : Users, delivery : Nat]

Request == [op : {"one"}, user : Users, row : Row] \cup [op : {"all"}, user : Users]

ASSUME RequestsAssumption == Requests \subseteq Request

VARIABLES
    announced,   \* events that the thread service has published
    queue,       \* the queue threadify.notifications, the event in hand included
    delivery,    \* delivery[e]: how often e was delivered
    wpc,         \* the consumer's next statement
    batch,       \* its rows: inserted and uncommitted, or committed and not pushed
    rows,        \* committed rows
    read,        \* those with is_read
    realtime,    \* the queue threadify.realtime: rows to be pushed
    pc,          \* pc[h]: the next statement of handler h
    req,         \* req[h]: its request
    found,       \* found[h]: the rows its UPDATE has found to match
    marked,      \* marked[h]: the rows it has marked, uncommitted
    dropped,     \* ghost: events whose handling failed
    unpushed     \* ghost: rows whose push got lost

consumer == <<announced, queue, delivery, wpc, batch, dropped>>
handlers == <<pc, req, found, marked>>
serviceVars == <<consumer, handlers, rows, read, realtime, unpushed>>

-----------------------------------------------------------------------------

RowsIn(s) == {s[i] : i \in 1..Len(s)}

ServiceTypeOK ==
    /\ announced \subseteq Events
    /\ queue \in Seq(Events)
    /\ delivery \in [Events -> Nat]
    /\ wpc \in {"idle", "insert", "commit", "publish", "ack"}
    /\ batch \in Seq(Row)
    /\ rows \subseteq Row
    /\ read \subseteq rows
    /\ realtime \in Seq(Row)
    /\ pc \in [Handlers -> {"idle", "mark", "commit"}]
    /\ req \in [Handlers -> Requests \cup {None}]
    /\ found \in [Handlers -> SUBSET Row]
    /\ marked \in [Handlers -> SUBSET Row]
    /\ dropped \subseteq Events
    /\ unpushed \subseteq Row

ServiceInit ==
    /\ announced = {}
    /\ queue = <<>>
    /\ delivery = [e \in Events |-> 0]
    /\ wpc = "idle"
    /\ batch = <<>>
    /\ rows = {}
    /\ read = {}
    /\ realtime = <<>>
    /\ pc = [h \in Handlers |-> "idle"]
    /\ req = [h \in Handlers |-> None]
    /\ found = [h \in Handlers |-> {}]
    /\ marked = [h \in Handlers |-> {}]
    /\ dropped = {}
    /\ unpushed = {}

-----------------------------------------------------------------------------
(* The consumer.                                                           *)

\* create_comment or create_thread publishes e.
Announce(e) ==
    /\ e \notin announced
    /\ announced' = announced \cup {e}
    /\ queue' = Append(queue, e)
    /\ UNCHANGED <<delivery, wpc, batch, dropped, handlers, rows, read, realtime, unpushed>>

\* The event in hand.
Job == Head(queue)

Receive ==
    /\ wpc = "idle" /\ queue # <<>>
    /\ delivery' = [delivery EXCEPT ![Job] = @ + 1]
    /\ wpc' = IF Targets[Job] = <<>> THEN "ack" ELSE "insert"
    /\ UNCHANGED <<announced, queue, batch, dropped, handlers, rows, read, realtime, unpushed>>

\* The row that create_notification makes for the next target.
NextRow == [event |-> Job, user |-> Targets[Job][Len(batch) + 1], delivery |-> delivery[Job]]

AfterInsert ==
    /\ batch' = Append(batch, NextRow)
    /\ wpc' = IF Len(batch) + 1 = Len(Targets[Job]) THEN "commit" ELSE "insert"

\* Mutants: create_notification commits; the push leaves before the commit.
InsertRowCommitted ==
    /\ wpc = "insert" /\ AfterInsert
    /\ rows' = rows \cup {NextRow}
    /\ UNCHANGED <<announced, queue, delivery, dropped, handlers, read, realtime, unpushed>>

InsertRowPushed ==
    /\ wpc = "insert" /\ AfterInsert
    /\ realtime' = Append(realtime, NextRow)
    /\ UNCHANGED <<announced, queue, delivery, dropped, handlers, rows, read, unpushed>>

\* create_notification for the next target.
InsertRow ==
    /\ wpc = "insert" /\ AfterInsert
    /\ UNCHANGED <<announced, queue, delivery, dropped, handlers, rows, read, realtime, unpushed>>

CommitRows ==
    /\ wpc = "commit"
    /\ rows' = rows \cup RowsIn(batch)
    /\ wpc' = "publish"
    /\ UNCHANGED <<announced, queue, delivery, batch, dropped, handlers, read, realtime, unpushed>>

\* publish_realtime for the next row; it does not raise.
PublishNext ==
    /\ wpc = "publish"
    /\ \/ realtime' = Append(realtime, Head(batch)) /\ UNCHANGED unpushed
       \/ /\ "publish" \in Faults
          /\ unpushed' = unpushed \cup {Head(batch)} /\ UNCHANGED realtime
    /\ batch' = Tail(batch)
    /\ wpc' = IF batch' = <<>> THEN "ack" ELSE "publish"
    /\ UNCHANGED <<announced, queue, delivery, dropped, handlers, rows, read>>

\* The end of message.process.
Acknowledge ==
    /\ wpc = "ack"
    /\ queue' = Tail(queue)
    /\ wpc' = "idle"
    /\ UNCHANGED <<announced, delivery, batch, dropped, handlers, rows, read, realtime, unpushed>>

\* Mutant: what was inserted and rolled back is pushed nevertheless.
HandlingFailsPushed ==
    /\ "database" \in Faults
    /\ wpc \in {"insert", "commit"} /\ batch # <<>>
    /\ dropped' = dropped \cup {Job}
    /\ wpc' = "publish"
    /\ UNCHANGED <<announced, queue, delivery, batch, handlers, rows, read, realtime, unpushed>>

\* An INSERT or the COMMIT raises; the exception is swallowed.
HandlingFails ==
    /\ "database" \in Faults
    /\ wpc \in {"insert", "commit"}
    /\ batch' = <<>>
    /\ dropped' = dropped \cup {Job}
    /\ wpc' = "ack"
    /\ UNCHANGED <<announced, queue, delivery, handlers, rows, read, realtime, unpushed>>

-----------------------------------------------------------------------------
(* PATCH /notifications/{id}/read and /notifications/read-all.             *)

Unread(u) == {r \in rows \ read : r.user = u}

\* The first statement of request q: it finds rows to mark, and locks none.
Find(h, q, s) ==
    /\ pc[h] = "idle"
    /\ pc' = [pc EXCEPT ![h] = "mark"]
    /\ req' = [req EXCEPT ![h] = q]
    /\ found' = [found EXCEPT ![h] = s]
    /\ UNCHANGED <<consumer, marked, rows, read, realtime, unpushed>>

\* get_notification_by_id.  Who asks for somebody else's row is refused
\* (NotAuthorizedError), with nothing to undo.
MarkOne(h, q) ==
    /\ q.op = "one" /\ q.row \in rows /\ q.row.user = q.user
    /\ Find(h, q, {q.row} \ read)

\* The UPDATE of mark_all_read begins and sees what is committed.
MarkAll(h, q) == q.op = "all" /\ Find(h, q, Unread(q.user))

\* Handler h's transaction is over.
Forget(h) ==
    /\ pc' = [pc EXCEPT ![h] = "idle"]
    /\ req' = [req EXCEPT ![h] = None]
    /\ found' = [found EXCEPT ![h] = {}]
    /\ marked' = [marked EXCEPT ![h] = {}]
    /\ UNCHANGED <<consumer, rows, realtime, unpushed>>

Locked(h) == UNION {marked[g] : g \in Handlers \ {h}}

\* Mutant: SKIP LOCKED.
MarkFoundUnlocked(h) ==
    /\ pc[h] = "mark"
    /\ marked' = [marked EXCEPT ![h] = found[h] \ (read \cup Locked(h))]
    /\ pc' = [pc EXCEPT ![h] = "commit"]
    /\ UNCHANGED <<consumer, req, found, rows, read, realtime, unpushed>>

\* The UPDATE has the locks of the rows it found.  mark_all_read looks again at
\* those it had to wait for; mark_read writes only if it has loaded is_read = false.
MarkFound(h) ==
    /\ pc[h] = "mark"
    /\ found[h] \cap Locked(h) = {}
    /\ marked' = [marked EXCEPT ![h] = IF req[h].op = "all" THEN found[h] \ read ELSE found[h]]
    /\ pc' = [pc EXCEPT ![h] = "commit"]
    /\ UNCHANGED <<consumer, req, found, rows, read, realtime, unpushed>>

\* get_db commits, after the reply.
CommitMarks(h) ==
    /\ pc[h] = "commit"
    /\ read' = read \cup marked[h]
    /\ Forget(h)

\* A statement or the commit fails; get_db rolls back.
RequestFails(h) ==
    /\ \/ "database" \in Faults /\ pc[h] = "mark"
       \/ "commit" \in Faults /\ pc[h] = "commit"
    /\ Forget(h) /\ UNCHANGED read

-----------------------------------------------------------------------------

\* Mutant: the broker counts an event as acknowledged when it delivers it (no_ack).
ProcessDiesAcked ==
    /\ "process" \in Faults
    /\ wpc' = "idle"
    /\ batch' = <<>>
    /\ queue' = IF wpc = "idle" THEN queue ELSE Tail(queue)
    /\ unpushed' = unpushed \cup (RowsIn(batch) \cap rows)
    /\ UNCHANGED <<announced, delivery, dropped, handlers, rows, read, realtime>>

\* The process dies and starts again; the broker delivers the event again.
ProcessDies ==
    /\ "process" \in Faults
    /\ wpc # "idle" => delivery[Job] < MaxDeliveries
    /\ wpc' = "idle"
    /\ batch' = <<>>
    /\ unpushed' = unpushed \cup (RowsIn(batch) \cap rows)
    /\ pc' = [h \in Handlers |-> "idle"]
    /\ req' = [h \in Handlers |-> None]
    /\ found' = [h \in Handlers |-> {}]
    /\ marked' = [h \in Handlers |-> {}]
    /\ UNCHANGED <<announced, queue, delivery, dropped, rows, read, realtime>>

\* The lifespan ends, after the last request, and cancels the consumer; what it
\* was handling is rejected and not requeued.
ShutDown ==
    /\ "shutdown" \in Faults
    /\ wpc \in {"insert", "commit", "publish"}
    /\ \A h \in Handlers : pc[h] = "idle"
    /\ dropped' = dropped \cup {Job}
    /\ unpushed' = unpushed \cup (RowsIn(batch) \cap rows)
    /\ batch' = <<>>
    /\ queue' = Tail(queue)
    /\ wpc' = "idle"
    /\ UNCHANGED <<announced, delivery, handlers, rows, read, realtime>>

Consume ==
    Receive \/ InsertRow \/ CommitRows \/ PublishNext \/ Acknowledge

ServiceNext ==
    \/ \E e \in Events : Announce(e)
    \/ Consume \/ HandlingFails
    \/ \E h \in Handlers :
          \/ \E q \in Requests : MarkOne(h, q) \/ MarkAll(h, q)
          \/ MarkFound(h) \/ CommitMarks(h) \/ RequestFails(h)
    \/ ProcessDies \/ ShutDown

-----------------------------------------------------------------------------
(* Properties.                                                             *)

\* An event in the queue reaches, one delivery at a time, all of its targets or
\* none: nobody hears of a mention that another target of it never sees because
\* the consumer failed or died between the two INSERTs.
AllTargetsAlike ==
    \A r \in rows : \A u \in RowsIn(Targets[r.event]) : [r EXCEPT !.user = u] \in rows

\* Every target of e has a notification.
Notified(e) == \A u \in RowsIn(Targets[e]) : \E r \in rows : r.event = e /\ r.user = u

\* Every event that was published is waiting, has become a notification for each
\* target, or has been dropped by a failure: crashes lose none.
EveryTargetIsNotified ==
    \A e \in announced :
        \/ e \in RowsIn(queue)
        \/ e \in dropped
        \/ Notified(e)

\* mark_all_read leaves nothing unread that was there when it looked, although
\* some of it was being marked by another request, which may have come to nothing.
MarkAllLeavesNothing ==
    [][\A h \in Handlers :
          CommitMarks(h) /\ req[h].op = "all" => found[h] \subseteq read']_serviceVars
=============================================================================
