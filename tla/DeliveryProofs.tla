--------------------------- MODULE DeliveryProofs ---------------------------
(***************************************************************************)
(* Theorems about Delivery, for any users, events, targets, requests,      *)
(* handlers, sockets and faults.                                           *)
(***************************************************************************)
EXTENDS Delivery, TLAPS

USE NotificationsAssumption, RequestsAssumption, DeliveryAssumption

-----------------------------------------------------------------------------
(* Sequences and what is in them.                                          *)

\* What is in a sequence to which x was appended.
LEMMA RowsOfAppend ==
    ASSUME NEW S, NEW s \in Seq(S), NEW x \in S
    PROVE  RowsIn(Append(s, x)) = RowsIn(s) \cup {x}
<1>. DEFINE a == Append(s, x)
<1>1. /\ Len(s) \in Nat /\ Len(a) = Len(s) + 1 /\ a[Len(s) + 1] = x
      /\ \A i \in 1..Len(s) : a[i] = s[i]
  OBVIOUS
<1>. HIDE DEF a
<1>2. ASSUME NEW i \in 1..Len(s) PROVE s[i] \in RowsIn(a)
  <2>1. i \in 1..Len(a) /\ a[i] = s[i]
    BY <1>1
  <2>. QED BY <2>1 DEF RowsIn
<1>3. x \in RowsIn(a)
  BY <1>1 DEF RowsIn
<1>4. ASSUME NEW i \in 1..Len(a) PROVE a[i] \in RowsIn(s) \cup {x}
  BY <1>1 DEF RowsIn
<1>5. RowsIn(a) = RowsIn(s) \cup {x}
  BY <1>2, <1>3, <1>4 DEF RowsIn
<1>. QED BY <1>5 DEF a

\* A sequence that is not empty holds its head and what is in its tail.
LEMMA RowsOfTail ==
    ASSUME NEW S, NEW s \in Seq(S), s # <<>>
    PROVE  /\ Head(s) \in S /\ Tail(s) \in Seq(S)
           /\ RowsIn(s) = {Head(s)} \cup RowsIn(Tail(s))
<1>1. /\ Len(s) \in Nat \ {0} /\ Tail(s) \in Seq(S) /\ Head(s) = s[1]
      /\ Len(Tail(s)) = Len(s) - 1 /\ \A i \in 1..Len(s) : s[i] \in S
      /\ \A i \in 1..(Len(s) - 1) : Tail(s)[i] = s[i + 1]
  OBVIOUS
<1>2. ASSUME NEW i \in 1..Len(s)
      PROVE  s[i] \in {Head(s)} \cup RowsIn(Tail(s))
  <2>1. CASE i = 1
    BY <1>1, <2>1
  <2>2. CASE i # 1
    <3>1. i - 1 \in 1..(Len(s) - 1) /\ Tail(s)[i - 1] = s[i]
      BY <1>1, <2>2
    <3> QED BY <1>1, <3>1 DEF RowsIn
  <2> QED BY <2>1, <2>2
<1>3. ASSUME NEW i \in 1..Len(Tail(s))
      PROVE  Tail(s)[i] \in RowsIn(s)
  <2>1. i + 1 \in 1..Len(s) /\ Tail(s)[i] = s[i + 1]
    BY <1>1
  <2> QED BY <2>1 DEF RowsIn
<1>4. Head(s) \in RowsIn(s) /\ Head(s) \in S
  BY <1>1 DEF RowsIn
<1> QED BY <1>1, <1>2, <1>3, <1>4 DEF RowsIn

\* Nothing is in the empty sequence.
LEMMA RowsOfEmpty == RowsIn(<<>>) = {}
  BY DEF RowsIn

\* A sequence over S holds elements of S.
LEMMA RowsAreIn ==
    ASSUME NEW S, NEW s \in Seq(S)
    PROVE  RowsIn(s) \subseteq S
  BY DEF RowsIn

-----------------------------------------------------------------------------
(* Types.                                                                  *)

\* Every step keeps the types; a statement follows another only as the invariant says.
LEMMA TypeKeeps ==
    ASSUME TypeOK, BatchInPlace, MarksInPlace, PagesInPlace, [Next]_vars
    PROVE  TypeOK'
<1>. USE DEF TypeOK, ServiceTypeOK
<1>j. queue # <<>> => Job \in Events /\ Tail(queue) \in Seq(Events)
  BY RowsOfTail DEF Job
<1>b. /\ batch # <<>> => Head(batch) \in Row /\ Tail(batch) \in Seq(Row)
      /\ RowsIn(batch) \subseteq Row
  BY RowsOfTail, RowsAreIn
<1>r. realtime # <<>> => Head(realtime) \in Row /\ Tail(realtime) \in Seq(Row)
  BY RowsOfTail
<1>1. ASSUME NEW e \in Events, Announce(e), UNCHANGED gatewayVars PROVE TypeOK'
  BY <1>1 DEF Announce, handlers, gatewayVars
<1>2. ASSUME Receive, UNCHANGED gatewayVars PROVE TypeOK'
  BY <1>2, <1>j DEF Receive, handlers, gatewayVars
<1>3. ASSUME InsertRow, UNCHANGED gatewayVars PROVE TypeOK'
  <2>1. Len(batch) + 1 \in 1..Len(Targets[Job]) /\ Job \in Events
    BY <1>3, <1>j DEF InsertRow, BatchInPlace
  <2>2. NextRow \in Row
    BY <2>1 DEF NextRow, Row
  <2>. QED BY <1>3, <2>2 DEF InsertRow, AfterInsert, handlers, gatewayVars
<1>4. ASSUME CommitRows, UNCHANGED gatewayVars PROVE TypeOK'
  BY <1>4, <1>b DEF CommitRows, handlers, gatewayVars
<1>5. ASSUME PublishNext, UNCHANGED gatewayVars PROVE TypeOK'
  <2>1. batch # <<>>
    BY <1>5 DEF PublishNext, BatchInPlace
  <2>2. realtime' \in Seq(Row) /\ unpushed' \subseteq Row /\ batch' \in Seq(Row)
    <3>1. Head(batch) \in Row /\ batch' \in Seq(Row)
      BY <1>5, <2>1, <1>b DEF PublishNext
    <3>2. CASE realtime' = Append(realtime, Head(batch)) /\ UNCHANGED unpushed
      BY <3>1, <3>2
    <3>3. CASE unpushed' = unpushed \cup {Head(batch)} /\ UNCHANGED realtime
      BY <3>1, <3>3
    <3>. QED BY <1>5, <3>1, <3>2, <3>3 DEF PublishNext
  <2>3. wpc' \in {"ack", "publish"}
    BY <1>5 DEF PublishNext
  <2>. QED BY <1>5, <2>2, <2>3 DEF PublishNext, handlers, gatewayVars
<1>6. ASSUME Acknowledge, UNCHANGED gatewayVars PROVE TypeOK'
  BY <1>6, <1>j DEF Acknowledge, BatchInPlace, handlers, gatewayVars
<1>7. ASSUME HandlingFails, UNCHANGED gatewayVars PROVE TypeOK'
  BY <1>7, <1>j DEF HandlingFails, BatchInPlace, handlers, gatewayVars
<1>8. ASSUME NEW h \in Handlers, NEW q \in Requests, MarkOne(h, q) \/ MarkAll(h, q),
             UNCHANGED gatewayVars
      PROVE  TypeOK'
  <2>1. PICK s \in SUBSET rows : Find(h, q, s)
    BY <1>8 DEF MarkOne, MarkAll, Unread
  <2>. QED BY <1>8, <2>1 DEF Find, consumer, gatewayVars
<1>9. ASSUME NEW h \in Handlers, MarkFound(h), UNCHANGED gatewayVars PROVE TypeOK'
  BY <1>9 DEF MarkFound, consumer, gatewayVars
<1>10. ASSUME NEW h \in Handlers, CommitMarks(h) \/ RequestFails(h), UNCHANGED gatewayVars
       PROVE TypeOK'
  BY <1>10 DEF CommitMarks, RequestFails, Forget, MarksInPlace, consumer, gatewayVars
<1>11. ASSUME ProcessDies, UNCHANGED gatewayVars PROVE TypeOK'
  BY <1>11, <1>b DEF ProcessDies, gatewayVars
<1>12. ASSUME ShutDown, UNCHANGED gatewayVars PROVE TypeOK'
  <2>1. queue' \in Seq(Events) /\ dropped' \subseteq Events /\ unpushed' \subseteq Row
    BY <1>12, <1>b, <1>j DEF ShutDown, BatchInPlace
  <2>. QED BY <1>12, <2>1 DEF ShutDown, handlers, gatewayVars
<1>13. ASSUME NEW s \in Sockets, Connect(s) \/ Accept(s) \/ LoadList(s) \/ Close(s)
       PROVE  TypeOK'
  BY <1>13 DEF Connect, Accept, LoadList, Close, serviceVars, consumer, handlers
<1>14. ASSUME Emit PROVE TypeOK'
  BY <1>14, <1>r DEF Emit, serviceVars, consumer, handlers
<1>15. ASSUME EmitFails \/ AcknowledgePush PROVE TypeOK'
  BY <1>15, <1>r DEF EmitFails, AcknowledgePush, PagesInPlace, consumer, handlers
<1>16. ASSUME GatewayDies \/ GatewayShutsDown PROVE TypeOK'
  BY <1>16, <1>r DEF GatewayDies, GatewayShutsDown, Restarts, serviceVars, consumer, handlers
<1>17. ASSUME UNCHANGED vars PROVE TypeOK'
  BY <1>17 DEF vars, serviceVars, gatewayVars, consumer, handlers
<1>. QED
  BY <1>1, <1>2, <1>3, <1>4, <1>5, <1>6, <1>7, <1>8, <1>9, <1>10, <1>11, <1>12,
     <1>13, <1>14, <1>15, <1>16, <1>17 DEF Next, ServiceNext, Consume, GatewayNext

-----------------------------------------------------------------------------
(* The consumer: what it has in hand, and what becomes of an event.         *)

ConsumerInv ==
    /\ BatchInPlace
    /\ HandledFirst
    /\ AllTargetsAlike
    /\ EveryTargetIsNotified

\* Who has been notified stays so.
LEMMA NotifiedStays ==
    ASSUME rows \subseteq rows'
    PROVE  \A e : Notified(e) => Notified(e)'
  BY DEF Notified

\* What leaves the queue has been handled.
LEMMA EventsStay ==
    ASSUME EveryTargetIsNotified, announced' = announced, dropped \subseteq dropped',
           rows \subseteq rows',
           \A e \in RowsIn(queue) :
              e \in RowsIn(queue') \/ e \in dropped' \/ Notified(e)
    PROVE  EveryTargetIsNotified'
  BY NotifiedStays DEF EveryTargetIsNotified

\* Requests and the gateway do not touch the consumer's events.
LEMMA ConsumerSame ==
    ASSUME ConsumerInv, UNCHANGED <<consumer, rows>>
    PROVE  ConsumerInv'
<1>1. BatchInPlace'
  BY DEF ConsumerInv, BatchInPlace, consumer, Job
<1>2. HandledFirst'
  BY DEF ConsumerInv, HandledFirst, Notified, consumer, Job
<1>3. AllTargetsAlike'
  BY DEF ConsumerInv, AllTargetsAlike
<1>4. EveryTargetIsNotified'
  BY EventsStay DEF ConsumerInv, consumer
<1>. QED BY <1>1, <1>2, <1>3, <1>4 DEF ConsumerInv

\* An event that has been published waits.
LEMMA AnnounceKeeps ==
    ASSUME TypeOK, ConsumerInv, NEW e \in Events, Announce(e)
    PROVE  ConsumerInv'
<1>. USE DEF TypeOK, ServiceTypeOK, ConsumerInv
<1>1. /\ RowsIn(queue') = RowsIn(queue) \cup {e} /\ queue' # <<>>
      /\ queue # <<>> => Head(queue') = Head(queue)
  <2>1. queue' = Append(queue, e) /\ queue \in Seq(Events)
    BY DEF Announce
  <2>2. Append(queue, e) # <<>>
    BY <2>1
  <2>3. ASSUME queue # <<>> PROVE Head(Append(queue, e)) = Head(queue)
    <3>1. Len(queue) \in Nat \ {0} /\ Append(queue, e)[1] = queue[1]
      BY <2>1, <2>3
    <3>2. Head(queue) = queue[1] /\ Head(Append(queue, e)) = Append(queue, e)[1]
      BY <2>1, <2>2, <2>3
    <3>. QED BY <3>1, <3>2
  <2>4. RowsIn(Append(queue, e)) = RowsIn(queue) \cup {e}
    BY <2>1, RowsOfAppend
  <2>. QED BY <2>1, <2>2, <2>3, <2>4
<1>2. UNCHANGED <<delivery, wpc, batch, rows, dropped>> /\ announced' = announced \cup {e}
  BY DEF Announce
<1>3. wpc # "idle" => Job' = Job
  BY <1>1 DEF BatchInPlace, Job
<1>4. BatchInPlace'
  BY <1>1, <1>2, <1>3 DEF BatchInPlace
<1>5. HandledFirst'
  BY <1>2, <1>3 DEF HandledFirst, Notified
<1>6. AllTargetsAlike'
  BY <1>2 DEF AllTargetsAlike
<1>7. EveryTargetIsNotified'
  BY <1>1, <1>2, NotifiedStays DEF EveryTargetIsNotified
<1>. QED BY <1>4, <1>5, <1>6, <1>7

\* An event without targets is handled when it is received.
LEMMA ReceiveKeeps ==
    ASSUME TypeOK, ConsumerInv, Receive
    PROVE  ConsumerInv'
<1>. USE DEF TypeOK, ServiceTypeOK, ConsumerInv
<1>1. /\ UNCHANGED <<announced, queue, batch, rows, dropped>> /\ batch = <<>> /\ Job' = Job
      /\ queue # <<>> /\ wpc' = IF Targets[Job] = <<>> THEN "ack" ELSE "insert"
  BY DEF Receive, BatchInPlace, Job
<1>2. Job \in Events /\ Targets[Job] \in Seq(Users)
  BY <1>1, RowsOfTail DEF Job
<1>3. Targets[Job] # <<>> => 0 < Len(Targets[Job])
  BY <1>2
<1>4. Len(batch) = 0
  BY <1>1
<1>5. BatchInPlace'
  BY <1>1, <1>3, <1>4 DEF BatchInPlace
<1>6. Targets[Job] = <<>> => Notified(Job)
  BY RowsOfEmpty DEF Notified
<1>7. HandledFirst'
  BY <1>1, <1>6 DEF HandledFirst, Notified
<1>8. AllTargetsAlike' /\ EveryTargetIsNotified'
  BY <1>1, EventsStay DEF AllTargetsAlike
<1>. QED BY <1>5, <1>7, <1>8

\* One more row has been inserted: the next target's.
LEMMA InsertRowKeeps ==
    ASSUME TypeOK, ConsumerInv, InsertRow
    PROVE  ConsumerInv'
<1>. USE DEF TypeOK, ServiceTypeOK, ConsumerInv
<1>1. /\ UNCHANGED <<announced, queue, delivery, rows, dropped>> /\ Job' = Job
      /\ queue # <<>> /\ Len(batch) < Len(Targets[Job])
      /\ \A i \in 1..Len(batch) :
           batch[i] = [event |-> Job, user |-> Targets[Job][i], delivery |-> delivery[Job]]
      /\ batch' = Append(batch, NextRow)
      /\ wpc' = IF Len(batch) + 1 = Len(Targets[Job]) THEN "commit" ELSE "insert"
  BY DEF InsertRow, AfterInsert, BatchInPlace, Job
<1>2. Job \in Events /\ Targets[Job] \in Seq(Users) /\ Len(Targets[Job]) \in Nat
  BY <1>1, RowsOfTail DEF Job
<1>3. /\ Len(batch) \in Nat /\ Len(batch') = Len(batch) + 1
      /\ batch'[Len(batch) + 1] = NextRow
      /\ \A i \in 1..Len(batch) : batch'[i] = batch[i]
      /\ batch' # <<>>
  BY <1>1
<1>4. \A i \in 1..Len(batch') :
         batch'[i] = [event |-> Job, user |-> Targets[Job][i], delivery |-> delivery[Job]]
  BY <1>1, <1>3 DEF NextRow
<1>5. wpc' = "insert" => Len(batch') < Len(Targets[Job])
  BY <1>1, <1>2, <1>3
<1>6. wpc' \in {"insert", "commit"} /\ (wpc' = "commit" => Len(batch') = Len(Targets[Job]))
  BY <1>1, <1>3
<1>7. BatchInPlace'
  BY <1>1, <1>3, <1>4, <1>5, <1>6 DEF BatchInPlace
<1>8. HandledFirst' /\ AllTargetsAlike' /\ EveryTargetIsNotified'
  BY <1>1, <1>6, EventsStay DEF HandledFirst, AllTargetsAlike
<1>. QED BY <1>7, <1>8

\* The rows of all targets become visible at once.
LEMMA CommitRowsKeeps ==
    ASSUME TypeOK, ConsumerInv, CommitRows
    PROVE  ConsumerInv'
<1>. USE DEF TypeOK, ServiceTypeOK, ConsumerInv
<1>1. /\ UNCHANGED <<announced, queue, delivery, batch, dropped>> /\ Job' = Job
      /\ queue # <<>> /\ batch # <<>> /\ Len(batch) = Len(Targets[Job])
      /\ wpc' = "publish" /\ rows' = rows \cup RowsIn(batch)
  BY DEF CommitRows, BatchInPlace, Job
<1>2. \A i \in 1..Len(batch) :
         batch[i] = [event |-> Job, user |-> Targets[Job][i], delivery |-> delivery[Job]]
  BY DEF CommitRows, BatchInPlace
<1>. HIDE DEF TypeOK, ServiceTypeOK
<1>3. BatchInPlace'
  BY <1>1 DEF BatchInPlace
<1>4. Notified(Job)'
  <2>1. ASSUME NEW i \in 1..Len(Targets[Job])
        PROVE  \E r \in rows' : r.event = Job /\ r.user = Targets[Job][i]
    <3>0. i \in 1..Len(batch)
      BY <1>1
    <3>1. batch[i] \in rows'
      BY <1>1, <3>0 DEF RowsIn
    <3>2. batch[i].event = Job /\ batch[i].user = Targets[Job][i]
      <4>1. batch[i] = [event |-> Job, user |-> Targets[Job][i], delivery |-> delivery[Job]]
        BY <1>2, <3>0
      <4>. QED BY <4>1
    <3>. QED BY <3>1, <3>2, Zenon
  <2>2. \A u \in RowsIn(Targets[Job]) : \E r \in rows' : r.event = Job /\ r.user = u
    <3>1. ASSUME NEW u \in RowsIn(Targets[Job])
          PROVE  \E i \in 1..Len(Targets[Job]) : u = Targets[Job][i]
      BY DEF RowsIn
    <3>. QED BY <2>1, <3>1
  <2>. QED BY <2>2, <1>1 DEF Notified
<1>5. HandledFirst'
  BY <1>1, <1>4 DEF HandledFirst
<1>6. ASSUME NEW r \in RowsIn(batch), NEW u \in RowsIn(Targets[r.event])
      PROVE  [r EXCEPT !.user = u] \in RowsIn(batch)
  <2>1. PICK i \in 1..Len(batch) : r = batch[i]
    BY DEF RowsIn
  <2>2. r = [event |-> Job, user |-> Targets[Job][i], delivery |-> delivery[Job]]
    BY <2>1, <1>2
  <2>3. r.event = Job
    BY <2>2
  <2>4. PICK j \in 1..Len(batch) : u = Targets[Job][j]
    BY <1>1, <2>3 DEF RowsIn
  <2>5. [r EXCEPT !.user = u] = [event |-> Job, user |-> u, delivery |-> delivery[Job]]
    BY <2>2
  <2>6. [r EXCEPT !.user = u] = batch[j]
    BY <2>4, <2>5, <1>2
  <2>. QED BY <2>6 DEF RowsIn
<1>7. AllTargetsAlike'
  BY <1>1, <1>6 DEF AllTargetsAlike
<1>8. EveryTargetIsNotified'
  BY <1>1, EventsStay
<1>. QED BY <1>3, <1>5, <1>7, <1>8

\* A push was published, or lost; the row stays.
LEMMA PublishNextKeeps ==
    ASSUME TypeOK, ConsumerInv, PublishNext
    PROVE  ConsumerInv'
<1>. USE DEF TypeOK, ServiceTypeOK, ConsumerInv
<1>1. /\ UNCHANGED <<announced, queue, delivery, rows, dropped>> /\ Job' = Job
      /\ queue # <<>> /\ batch # <<>> /\ RowsIn(batch) \subseteq rows /\ Notified(Job)
      /\ batch' = Tail(batch)
      /\ wpc' = IF batch' = <<>> THEN "ack" ELSE "publish"
  BY DEF PublishNext, BatchInPlace, HandledFirst, Job
<1>2. RowsIn(batch') \subseteq rows
  BY <1>1, RowsOfTail
<1>3. BatchInPlace'
  BY <1>1, <1>2 DEF BatchInPlace
<1>4. HandledFirst' /\ AllTargetsAlike' /\ EveryTargetIsNotified'
  BY <1>1, NotifiedStays, EventsStay DEF HandledFirst, AllTargetsAlike
<1>. QED BY <1>3, <1>4

\* What leaves the queue has become notifications or was dropped.
LEMMA AcknowledgeKeeps ==
    ASSUME TypeOK, ConsumerInv, Acknowledge
    PROVE  ConsumerInv'
<1>. USE DEF TypeOK, ServiceTypeOK, ConsumerInv
<1>1. /\ UNCHANGED <<announced, delivery, batch, rows, dropped>> /\ batch = <<>>
      /\ queue # <<>> /\ (Notified(Job) \/ Job \in dropped)
      /\ queue' = Tail(queue) /\ wpc' = "idle"
  BY DEF Acknowledge, BatchInPlace, HandledFirst
<1>2. RowsIn(queue) = {Job} \cup RowsIn(queue')
  BY <1>1, RowsOfTail DEF Job
<1>3. BatchInPlace' /\ HandledFirst' /\ AllTargetsAlike'
  BY <1>1 DEF BatchInPlace, HandledFirst, AllTargetsAlike
<1>4. \A e \in RowsIn(queue) : e \in RowsIn(queue') \/ e \in dropped \/ Notified(e)
  BY <1>1, <1>2
<1>5. EveryTargetIsNotified'
  BY <1>1, <1>4, EventsStay
<1>. QED BY <1>3, <1>5

\* What failed is rolled back and counts as dropped.
LEMMA HandlingFailsKeeps ==
    ASSUME TypeOK, ConsumerInv, HandlingFails
    PROVE  ConsumerInv'
<1>. USE DEF TypeOK, ServiceTypeOK, ConsumerInv
<1>1. /\ UNCHANGED <<announced, queue, delivery, rows>> /\ Job' = Job
      /\ queue # <<>> /\ batch' = <<>> /\ wpc' = "ack" /\ dropped' = dropped \cup {Job}
  BY DEF HandlingFails, BatchInPlace, Job
<1>2. BatchInPlace' /\ HandledFirst'
  BY <1>1 DEF BatchInPlace, HandledFirst
<1>3. AllTargetsAlike' /\ EveryTargetIsNotified'
  BY <1>1, EventsStay DEF AllTargetsAlike
<1>. QED BY <1>2, <1>3

\* What was in hand when the process died is in the queue still, or else dropped.
LEMMA ConsumerDiesKeeps ==
    ASSUME TypeOK, ConsumerInv, ProcessDies \/ ShutDown
    PROVE  ConsumerInv'
<1>. USE DEF TypeOK, ServiceTypeOK, ConsumerInv
<1>1. UNCHANGED <<announced, delivery, rows>> /\ batch' = <<>> /\ wpc' = "idle"
  BY DEF ProcessDies, ShutDown
<1>2. BatchInPlace' /\ HandledFirst' /\ AllTargetsAlike'
  BY <1>1 DEF BatchInPlace, HandledFirst, AllTargetsAlike
<1>3. CASE ProcessDies
  BY <1>1, <1>2, <1>3, EventsStay DEF ProcessDies
<1>4. CASE ShutDown
  <2>1. /\ queue # <<>> /\ queue' = Tail(queue) /\ dropped' = dropped \cup {Job}
    BY <1>4 DEF ShutDown, BatchInPlace
  <2>2. RowsIn(queue) = {Job} \cup RowsIn(queue')
    BY <2>1, RowsOfTail DEF Job
  <2>. QED BY <1>1, <1>2, <2>1, <2>2, EventsStay
<1>. QED BY <1>3, <1>4

-----------------------------------------------------------------------------
(* The requests that mark rows as read.                                    *)

\* What a request has found stays, and what is read stays read.
LEMMA MarksSame ==
    ASSUME MarksInPlace, UNCHANGED handlers, rows \subseteq rows', read \subseteq read'
    PROVE  MarksInPlace'
  BY DEF MarksInPlace, handlers

\* A request finds rows that exist.
LEMMA FindKeeps ==
    ASSUME TypeOK, MarksInPlace, NEW h \in Handlers, NEW q \in Requests,
           MarkOne(h, q) \/ MarkAll(h, q)
    PROVE  MarksInPlace'
<1>. USE DEF TypeOK, ServiceTypeOK
<1>1. PICK s \in SUBSET rows : Find(h, q, s)
  BY DEF MarkOne, MarkAll, Unread
<1>2. ASSUME NEW g \in Handlers
      PROVE  /\ pc'[g] # "idle" => req'[g] \in Requests
             /\ found'[g] \cup marked'[g] \subseteq rows
             /\ pc'[g] = "commit" => found'[g] \subseteq marked'[g] \cup read
  <2>1. CASE g = h
    BY <1>1, <2>1 DEF Find, MarksInPlace
  <2>2. CASE g # h
    BY <1>1, <2>2 DEF Find, MarksInPlace
  <2>. QED BY <2>1, <2>2
<1>. QED BY <1>1, <1>2 DEF Find, MarksInPlace

\* What a request does not mark, because it only sees now that it is read, is read.
LEMMA MarkFoundKeeps ==
    ASSUME TypeOK, MarksInPlace, NEW h \in Handlers, MarkFound(h)
    PROVE  MarksInPlace'
<1>. USE DEF TypeOK, ServiceTypeOK
<1>1. ASSUME NEW g \in Handlers
      PROVE  /\ pc'[g] # "idle" => req'[g] \in Requests
             /\ found'[g] \cup marked'[g] \subseteq rows
             /\ pc'[g] = "commit" => found'[g] \subseteq marked'[g] \cup read
  <2>1. CASE g = h
    BY <2>1 DEF MarkFound, MarksInPlace
  <2>2. CASE g # h
    BY <2>2 DEF MarkFound, MarksInPlace
  <2>. QED BY <2>1, <2>2
<1>. QED BY <1>1 DEF MarkFound, MarksInPlace

\* The end of a request, committed or rolled back.
LEMMA ForgetKeeps ==
    ASSUME TypeOK, MarksInPlace, NEW h \in Handlers, Forget(h), read \subseteq read'
    PROVE  MarksInPlace'
<1>. USE DEF TypeOK, ServiceTypeOK
<1>1. ASSUME NEW g \in Handlers
      PROVE  /\ pc'[g] # "idle" => req'[g] \in Requests
             /\ found'[g] \cup marked'[g] \subseteq rows
             /\ pc'[g] = "commit" => found'[g] \subseteq marked'[g] \cup read'
  <2>1. CASE g = h
    BY <2>1 DEF Forget
  <2>2. CASE g # h
    BY <2>2 DEF Forget, MarksInPlace
  <2>. QED BY <2>1, <2>2
<1>. QED BY <1>1 DEF Forget, MarksInPlace

-----------------------------------------------------------------------------
(* The pages: what is shown, and what is still to come.                     *)

PageInv ==
    /\ PagesInPlace
    /\ PushedIsCommitted
    /\ NothingFallsBetween

\* A step of the service keeps the pages complete if rows that it commits are in
\* line to be published, and rows leave that line by a push or as a loss.
LEMMA ServiceKeepsPages ==
    ASSUME PageInv, UNCHANGED gatewayVars,
           rows \subseteq rows', rows' \subseteq rows \cup Publishing',
           unpushed \subseteq unpushed',
           RowsIn(realtime) \subseteq RowsIn(realtime'), RowsIn(realtime') \subseteq rows',
           realtime # <<>> => realtime' # <<>> /\ Head(realtime') = Head(realtime),
           Publishing \subseteq Publishing' \cup unpushed' \cup RowsIn(realtime')
    PROVE  PageInv'
<1>1. PagesInPlace'
  BY DEF PageInv, PagesInPlace, gatewayVars
<1>2. PushedIsCommitted'
  BY DEF PageInv, PushedIsCommitted, gatewayVars
<1>3. ASSUME NEW s \in loaded, NEW r \in rows', r.user = UserOf[s]
      PROVE  r \in shown[s] \cup unpushed' \cup RowsIn(realtime') \cup Publishing'
  <2>1. CASE r \in rows
    BY <1>3, <2>1 DEF PageInv, NothingFallsBetween
  <2>2. CASE r \notin rows
    BY <2>2
  <2>. QED BY <2>1, <2>2
<1>4. NothingFallsBetween'
  BY <1>3 DEF NothingFallsBetween, gatewayVars
<1>. QED BY <1>1, <1>2, <1>4 DEF PageInv

\* Most steps of the service neither commit rows nor push.
LEMMA QuietStep ==
    ASSUME PageInv, UNCHANGED <<gatewayVars, rows, realtime, unpushed>>,
           Publishing \subseteq Publishing'
    PROVE  PageInv'
  BY ServiceKeepsPages DEF PageInv, PushedIsCommitted

\* The consumer's pushes come from rows that are committed.
LEMMA PublishKeepsPages ==
    ASSUME TypeOK, ConsumerInv, PageInv, PublishNext, UNCHANGED gatewayVars
    PROVE  PageInv'
<1>. USE DEF TypeOK, ServiceTypeOK
<1>1. /\ batch # <<>> /\ RowsIn(batch) \subseteq rows /\ UNCHANGED rows
      /\ batch' = Tail(batch) /\ Publishing = RowsIn(batch)
  BY DEF PublishNext, ConsumerInv, BatchInPlace, Publishing
<1>2. Head(batch) \in Row /\ RowsIn(batch) = {Head(batch)} \cup RowsIn(batch')
  BY <1>1, RowsOfTail
<1>3. Publishing' = RowsIn(batch')
  BY RowsOfEmpty DEF PublishNext, Publishing
<1>4. CASE realtime' = Append(realtime, Head(batch)) /\ UNCHANGED unpushed
  <2>1. RowsIn(realtime') = RowsIn(realtime) \cup {Head(batch)}
    BY <1>2, <1>4, RowsOfAppend
  <2>2. realtime' # <<>>
    BY <1>2, <1>4
  <2>3. ASSUME realtime # <<>> PROVE Head(realtime') = Head(realtime)
    <3>1. Len(realtime) \in Nat \ {0} /\ realtime'[1] = realtime[1]
      BY <1>2, <1>4, <2>3
    <3>2. Head(realtime) = realtime[1] /\ Head(realtime') = realtime'[1]
      BY <1>2, <1>4, <2>2, <2>3
    <3>. QED BY <3>1, <3>2
  <2>. QED
    BY <1>1, <1>2, <1>3, <1>4, <2>1, <2>2, <2>3, ServiceKeepsPages DEF PageInv, PushedIsCommitted
<1>5. CASE unpushed' = unpushed \cup {Head(batch)} /\ UNCHANGED realtime
  BY <1>1, <1>2, <1>3, <1>5, ServiceKeepsPages DEF PageInv, PushedIsCommitted
<1>. QED BY <1>4, <1>5 DEF PublishNext

\* The end of the consumer in the middle of its pushes counts them as lost.
LEMMA ConsumerDiesKeepsPages ==
    ASSUME ConsumerInv, PageInv, ProcessDies \/ ShutDown, UNCHANGED gatewayVars
    PROVE  PageInv'
<1>1. /\ UNCHANGED <<rows, realtime>>
      /\ unpushed' = unpushed \cup (RowsIn(batch) \cap rows)
  BY DEF ProcessDies, ShutDown
<1>2. Publishing \subseteq RowsIn(batch) \cap rows
  BY DEF Publishing, ConsumerInv, BatchInPlace
<1>. QED BY <1>1, <1>2, ServiceKeepsPages DEF PageInv, PushedIsCommitted

\* A socket that connects, or is accepted, has not loaded its list yet.
LEMMA SocketKeepsPages ==
    ASSUME TypeOK, PageInv, NEW s \in Sockets, Connect(s) \/ Accept(s) \/ Close(s)
    PROVE  PageInv'
<1>. USE DEF TypeOK, PageInv
<1>1. /\ UNCHANGED <<serviceVars, gpc>> /\ loaded' \subseteq loaded
      /\ \A t \in Sockets : shown'[t] \subseteq shown[t] /\ (t \in loaded' => shown'[t] = shown[t])
      /\ Publishing' = Publishing
  BY DEF Connect, Accept, Close, Publishing, serviceVars, consumer
<1>2. UNCHANGED <<rows, realtime, unpushed>>
  BY <1>1 DEF serviceVars
<1>3. /\ loaded' \subseteq {t \in inRoom' : conn'[t] = "open"}
      /\ \A t \in Sockets : conn'[t] = "open" => t \in inRoom'
  <2>1. CASE Connect(s)
    BY <2>1 DEF Connect, PagesInPlace
  <2>2. CASE Accept(s)
    BY <2>2 DEF Accept, PagesInPlace
  <2>3. CASE Close(s)
    BY <2>3 DEF Close, PagesInPlace
  <2>. QED BY <2>1, <2>2, <2>3
<1>4. PagesInPlace'
  BY <1>1, <1>2, <1>3 DEF PagesInPlace
<1>5. PushedIsCommitted' /\ NothingFallsBetween'
  BY <1>1, <1>2 DEF PushedIsCommitted, NothingFallsBetween
<1>. QED BY <1>4, <1>5

\* The list holds every row of the user that is committed.
LEMMA LoadKeepsPages ==
    ASSUME TypeOK, PageInv, NEW s \in Sockets, LoadList(s)
    PROVE  PageInv'
<1>. USE DEF TypeOK, PageInv
<1>1. /\ UNCHANGED <<serviceVars, conn, inRoom, gpc>> /\ loaded' = loaded \cup {s}
      /\ conn[s] = "open" /\ Publishing' = Publishing
      /\ shown'[s] = shown[s] \cup {r \in rows : r.user = UserOf[s]}
      /\ \A t \in Sockets \ {s} : shown'[t] = shown[t]
  BY DEF LoadList, Publishing, serviceVars, consumer
<1>2. UNCHANGED <<rows, realtime, unpushed>>
  BY <1>1 DEF serviceVars
<1>3. realtime # <<>> => Head(realtime) \in rows
  BY RowsOfTail DEF ServiceTypeOK, PushedIsCommitted
<1>4. PagesInPlace'
  BY <1>1, <1>2, <1>3 DEF PagesInPlace
<1>5. PushedIsCommitted'
  BY <1>1, <1>2 DEF PushedIsCommitted
<1>6. NothingFallsBetween'
  BY <1>1, <1>2 DEF NothingFallsBetween
<1>. QED BY <1>4, <1>5, <1>6

\* An emit reaches every page that has loaded its list: its socket is in the room.
LEMMA EmitKeepsPages ==
    ASSUME TypeOK, PageInv, Emit
    PROVE  PageInv'
<1>. USE DEF TypeOK, PageInv
<1>1. /\ UNCHANGED <<serviceVars, conn, inRoom, loaded>> /\ realtime # <<>>
      /\ Publishing' = Publishing
  BY DEF Emit, Publishing, serviceVars, consumer
<1>2. UNCHANGED <<rows, realtime, unpushed>>
  BY <1>1 DEF serviceVars
<1>3. Head(realtime) \in rows
  BY <1>1, RowsOfTail DEF ServiceTypeOK, PushedIsCommitted
<1>4. \A t \in Sockets :
         /\ shown[t] \subseteq shown'[t] /\ shown'[t] \subseteq shown[t] \cup {Head(realtime)}
         /\ t \in inRoom /\ UserOf[t] = Head(realtime).user => Head(realtime) \in shown'[t]
  BY DEF Emit
<1>5. PagesInPlace'
  BY <1>1, <1>2, <1>4 DEF PagesInPlace
<1>6. PushedIsCommitted'
  BY <1>2, <1>3, <1>4 DEF PushedIsCommitted
<1>7. NothingFallsBetween'
  BY <1>1, <1>2, <1>4 DEF NothingFallsBetween
<1>. QED BY <1>5, <1>6, <1>7

\* A push whose handler raised counts as lost.
LEMMA EmitFailsKeepsPages ==
    ASSUME TypeOK, PageInv, EmitFails
    PROVE  PageInv'
<1>. USE DEF TypeOK, PageInv
<1>1. /\ UNCHANGED <<rows, realtime, conn, inRoom, loaded, shown>> /\ realtime # <<>>
      /\ Publishing' = Publishing /\ unpushed' = unpushed \cup {Head(realtime)}
  BY DEF EmitFails, Publishing, consumer
<1>2. PagesInPlace' /\ PushedIsCommitted' /\ NothingFallsBetween'
  BY <1>1 DEF PagesInPlace, PushedIsCommitted, NothingFallsBetween
<1>. QED BY <1>2

\* A push leaves the queue after it was shown, or lost.
LEMMA AcknowledgePushKeepsPages ==
    ASSUME TypeOK, PageInv, AcknowledgePush
    PROVE  PageInv'
<1>. USE DEF TypeOK, PageInv
<1>1. /\ UNCHANGED <<rows, unpushed, conn, inRoom, loaded, shown>> /\ realtime # <<>>
      /\ Publishing' = Publishing /\ realtime' = Tail(realtime) /\ gpc' = "idle"
  BY DEF AcknowledgePush, PagesInPlace, Publishing, consumer
<1>2. RowsIn(realtime) = {Head(realtime)} \cup RowsIn(realtime')
  BY <1>1, RowsOfTail DEF ServiceTypeOK
<1>3. PagesInPlace' /\ PushedIsCommitted'
  BY <1>1, <1>2 DEF PagesInPlace, PushedIsCommitted
<1>4. ASSUME NEW s \in loaded, NEW r \in rows, r.user = UserOf[s]
      PROVE  r \in shown[s] \cup unpushed \cup RowsIn(realtime') \cup Publishing
  <2>1. CASE r = Head(realtime)
    BY <1>4, <2>1 DEF AcknowledgePush, PagesInPlace
  <2>2. CASE r # Head(realtime)
    BY <1>2, <1>4, <2>2 DEF NothingFallsBetween
  <2>. QED BY <2>1, <2>2
<1>5. NothingFallsBetween'
  BY <1>1, <1>4 DEF NothingFallsBetween
<1>. QED BY <1>3, <1>5

\* No page outlives the gateway.
LEMMA GatewayDiesKeepsPages ==
    ASSUME TypeOK, PageInv, GatewayDies \/ GatewayShutsDown
    PROVE  PageInv'
<1>. USE DEF TypeOK, PageInv
<1>1. /\ UNCHANGED rows /\ gpc' = "idle" /\ loaded' = {}
      /\ \A s \in Sockets : shown'[s] = {} /\ conn'[s] # "open"
  BY DEF GatewayDies, GatewayShutsDown, Restarts, serviceVars
<1>2. RowsIn(realtime') \subseteq RowsIn(realtime)
  <2>1. CASE GatewayDies
    BY <2>1 DEF GatewayDies, serviceVars
  <2>2. CASE GatewayShutsDown
    BY <2>2, RowsOfTail DEF GatewayShutsDown, ServiceTypeOK
  <2>. QED BY <2>1, <2>2
<1>3. PagesInPlace' /\ PushedIsCommitted' /\ NothingFallsBetween'
  BY <1>1, <1>2 DEF PagesInPlace, PushedIsCommitted, NothingFallsBetween
<1>. QED BY <1>3

-----------------------------------------------------------------------------
(* The invariant.                                                          *)

\* Nothing has been published, and no page is open.
LEMMA InitHolds ==
    ASSUME Init
    PROVE  DeliveryInv
<1>. USE DEF Init, ServiceInit
<1>1. TypeOK
  BY DEF TypeOK, ServiceTypeOK
<1>2. BatchInPlace /\ HandledFirst /\ MarksInPlace
  BY DEF BatchInPlace, HandledFirst, MarksInPlace
<1>3. AllTargetsAlike /\ EveryTargetIsNotified
  BY DEF AllTargetsAlike, EveryTargetIsNotified
<1>4. PagesInPlace /\ PushedIsCommitted /\ NothingFallsBetween
  BY RowsOfEmpty DEF PagesInPlace, PushedIsCommitted, NothingFallsBetween
<1>. QED BY <1>1, <1>2, <1>3, <1>4 DEF DeliveryInv

\* Every step keeps the invariant.
LEMMA StepKeeps ==
    ASSUME DeliveryInv, [Next]_vars
    PROVE  DeliveryInv'
<1>. /\ TypeOK /\ ConsumerInv /\ MarksInPlace /\ PageInv
     /\ BatchInPlace /\ PagesInPlace
  BY DEF DeliveryInv, ConsumerInv, PageInv
<1>. SUFFICES ConsumerInv' /\ MarksInPlace' /\ PageInv'
  BY TypeKeeps DEF DeliveryInv, ConsumerInv, PageInv
<1>1. ASSUME NEW e \in Events, Announce(e), UNCHANGED gatewayVars
      PROVE  ConsumerInv' /\ MarksInPlace' /\ PageInv'
  BY <1>1, AnnounceKeeps, MarksSame, QuietStep DEF Announce, Publishing
<1>2. ASSUME Receive \/ InsertRow \/ Acknowledge \/ HandlingFails, UNCHANGED gatewayVars
      PROVE  ConsumerInv' /\ MarksInPlace' /\ PageInv'
  <2>1. /\ UNCHANGED <<handlers, rows, read, realtime, unpushed>>
        /\ Publishing = {}
    BY <1>2 DEF Receive, InsertRow, Acknowledge, HandlingFails, Publishing
  <2>. QED
    BY <1>2, <2>1, ReceiveKeeps, InsertRowKeeps, AcknowledgeKeeps, HandlingFailsKeeps,
       MarksSame, QuietStep
<1>3. ASSUME CommitRows, UNCHANGED gatewayVars
      PROVE  ConsumerInv' /\ MarksInPlace' /\ PageInv'
  <2>1. /\ UNCHANGED <<handlers, read, realtime, unpushed>> /\ rows' = rows \cup RowsIn(batch)
        /\ Publishing = {} /\ Publishing' = RowsIn(batch)
    BY <1>3 DEF CommitRows, Publishing
  <2>2. RowsIn(realtime') = RowsIn(realtime) /\ RowsIn(realtime) \subseteq rows
    BY <2>1 DEF PageInv, PushedIsCommitted
  <2>. QED BY <1>3, <2>1, <2>2, CommitRowsKeeps, MarksSame, ServiceKeepsPages
<1>4. ASSUME PublishNext, UNCHANGED gatewayVars
      PROVE  ConsumerInv' /\ MarksInPlace' /\ PageInv'
  BY <1>4, PublishNextKeeps, MarksSame, PublishKeepsPages DEF PublishNext
<1>5. ASSUME NEW h \in Handlers,
             \/ \E q \in Requests : MarkOne(h, q) \/ MarkAll(h, q)
             \/ MarkFound(h) \/ CommitMarks(h) \/ RequestFails(h),
             UNCHANGED gatewayVars
      PROVE  ConsumerInv' /\ MarksInPlace' /\ PageInv'
  <2>1. UNCHANGED <<consumer, rows, realtime, unpushed>>
    BY <1>5 DEF MarkOne, MarkAll, Find, MarkFound, CommitMarks, RequestFails, Forget
  <2>2. Publishing' = Publishing
    BY <2>1 DEF Publishing, consumer
  <2>3. MarksInPlace'
    BY <1>5, FindKeeps, MarkFoundKeeps, ForgetKeeps DEF CommitMarks, RequestFails
  <2>. QED BY <1>5, <2>1, <2>2, <2>3, ConsumerSame, QuietStep
<1>6. ASSUME ProcessDies \/ ShutDown, UNCHANGED gatewayVars
      PROVE  ConsumerInv' /\ MarksInPlace' /\ PageInv'
  <2>1. MarksInPlace'
    <3>1. CASE ProcessDies
      BY <3>1 DEF ProcessDies, MarksInPlace
    <3>2. CASE ShutDown
      BY <3>2, MarksSame DEF ShutDown
    <3>. QED BY <1>6, <3>1, <3>2
  <2>. QED BY <1>6, <2>1, ConsumerDiesKeeps, ConsumerDiesKeepsPages
<1>7. ASSUME GatewayNext
      PROVE  ConsumerInv' /\ MarksInPlace' /\ PageInv'
  <2>1. UNCHANGED <<consumer, handlers, rows, read>>
    BY <1>7 DEF GatewayNext, Connect, Accept, LoadList, Close, Emit, EmitFails,
                AcknowledgePush, GatewayDies, GatewayShutsDown, serviceVars
  <2>2. PageInv'
    BY <1>7, SocketKeepsPages, LoadKeepsPages, EmitKeepsPages, EmitFailsKeepsPages,
       AcknowledgePushKeepsPages, GatewayDiesKeepsPages DEF GatewayNext
  <2>. QED BY <2>1, <2>2, ConsumerSame, MarksSame
<1>8. ASSUME UNCHANGED vars
      PROVE  ConsumerInv' /\ MarksInPlace' /\ PageInv'
  <2>1. UNCHANGED <<consumer, handlers, rows, read, realtime, unpushed, gatewayVars>>
    BY <1>8 DEF vars, serviceVars
  <2>2. Publishing' = Publishing
    BY <2>1 DEF Publishing, consumer
  <2>. QED BY <2>1, <2>2, ConsumerSame, MarksSame, QuietStep
<1>. QED
  BY <1>1, <1>2, <1>3, <1>4, <1>5, <1>6, <1>7, <1>8 DEF Next, ServiceNext, Consume

\* DeliveryInv is inductive.
THEOREM DeliveryInvariant == Spec => []DeliveryInv
<1>1. Init => DeliveryInv
  BY InitHolds
<1>2. DeliveryInv /\ [Next]_vars => DeliveryInv'
  BY StepKeeps
<1>. QED BY <1>1, <1>2, PTL DEF Spec

\* No target of an event has a notification that another target of it has not.
THEOREM TargetsAlike == Spec => []AllTargetsAlike
<1>1. DeliveryInv => AllTargetsAlike
  BY DEF DeliveryInv
<1>. QED BY <1>1, DeliveryInvariant, PTL

\* Crashes and redeliveries lose no event: it waits, has notified every target, or
\* its handling failed.
THEOREM TargetsNotified == Spec => []EveryTargetIsNotified
<1>1. DeliveryInv => EveryTargetIsNotified
  BY DEF DeliveryInv
<1>. QED BY <1>1, DeliveryInvariant, PTL

\* A push never runs ahead of the commit of its row.
THEOREM PushesAreCommitted == Spec => []PushedIsCommitted
<1>1. DeliveryInv => PushedIsCommitted
  BY DEF DeliveryInv
<1>. QED BY <1>1, DeliveryInvariant, PTL

\* A page that loads its list once it is connected misses no notification whose
\* push is not lost.
THEOREM PagesMissNothing == Spec => []NothingFallsBetween
<1>1. DeliveryInv => NothingFallsBetween
  BY DEF DeliveryInv
<1>. QED BY <1>1, DeliveryInvariant, PTL

\* mark_all_read leaves nothing unread of what it found, whatever other requests
\* mark meanwhile.
THEOREM MarkAllIsComplete == Spec => MarkAllLeavesNothing
<1>1. ASSUME DeliveryInv, [Next]_vars
      PROVE  [\A h \in Handlers :
                CommitMarks(h) /\ req[h].op = "all" => found[h] \subseteq read']_serviceVars
  <2>1. ASSUME NEW h \in Handlers, CommitMarks(h)
        PROVE  found[h] \subseteq read'
    BY <1>1, <2>1 DEF CommitMarks, DeliveryInv, MarksInPlace
  <2>. QED BY <2>1
<1>. QED BY <1>1, DeliveryInvariant, PTL DEF Spec, MarkAllLeavesNothing
=============================================================================
