----------------------------- MODULE ThreadPage -----------------------------
(***************************************************************************)
(* The page of a thread: its comments as the list brings them, page by     *)
(* page (CursorPages), and as the realtime events bring them, from the     *)
(* thread service through the exchange and the gateway's handlers          *)
(* (services/ws-gateway/app/consumers/rabbitmq.py) to the thread's room.   *)
(* The feed of threads works alike, with every socket for a room.          *)
(*                                                                         *)
(* An event leaves before the commit it announces: what it announces may   *)
(* come to nothing, and a list that is read in between does not know of it *)
(* yet.  The page itself is external: it joins the room, then reads the    *)
(* list, and shows what both bring.                                        *)
(***************************************************************************)
EXTENDS CursorPages

CONSTANTS
    MaxQueue,   \* bound: events on their way to the gateway
    Repeated,   \* are comments deleted that their authors have deleted?
    Faults      \* a subset of {"publish", "emit", "commit"}

ASSUME ThreadPageAssumption == MaxQueue \in Nat /\ Repeated \in BOOLEAN

VARIABLES
    masked,     \* the comments their authors have deleted, committed
    told,       \* the comments whose creation has been published
    deleting,   \* deleting[i]: what a transaction in flight makes of comment i
    queue,      \* the events on their way to the gateway, in order
    lost,       \* history: the events that got lost
    inRoom,     \* the readers whose socket is in the room of the thread
    clear,      \* clear[r]: the comments whose content the page of r shows
    known,      \* known[r]: the comments the page of r has got at all
    missed      \* history: missed[r]: the events that had passed r's page when
                \* it asked for what they announce, and that was not committed

events == <<told, deleting, queue, lost>>
screens == <<clear, known, missed>>
pageState == <<masked, events, inRoom, screens>>
vars == <<pageVars, pageState>>

EventType == [kind : {"new", "deleted"}, item : Items]

New(i) == [kind |-> "new", item |-> i]
Deleted(i) == [kind |-> "deleted", item |-> i]

TypeOK ==
    /\ PagesTypeOK
    /\ masked \subseteq Items
    /\ told \subseteq Items
    /\ deleting \in [Items -> {"no", "masking", "hiding"}]
    /\ queue \in Seq(EventType)
    /\ lost \subseteq EventType
    /\ inRoom \subseteq Readers
    /\ clear \in [Readers -> SUBSET Items]
    /\ known \in [Readers -> SUBSET Items]
    /\ missed \in [Readers -> SUBSET EventType]

Init ==
    /\ PagesInit
    /\ masked = {}
    /\ told = {}
    /\ deleting = [i \in Items |-> "no"]
    /\ queue = <<>>
    /\ lost = {}
    /\ inRoom = {}
    /\ clear = [r \in Readers |-> {}]
    /\ known = [r \in Readers |-> {}]
    /\ missed = [r \in Readers |-> {}]

\* The events that have yet to come to the gateway.
Queued == {queue[k] : k \in 1..Len(queue)}

\* What nobody may read any more.
Gone == masked \cup {i \in Items : row[i] = "hidden"}

-----------------------------------------------------------------------------
(* The thread service.                                                     *)

\* publish_realtime: a failure is logged, and the event is lost.
Publish(e) ==
    \/ Len(queue) < MaxQueue /\ queue' = Append(queue, e) /\ UNCHANGED lost
    \/ "publish" \in Faults /\ lost' = lost \cup {e} /\ UNCHANGED queue

\* create_comment: the INSERT, the event, the commit.  A comment that comes to
\* nothing leaves its uuid unused.
CreateComment(i) ==
    /\ i \notin told
    /\ Insert(i)
    /\ UNCHANGED pageState

PublishComment(i) ==
    /\ row[i] = "inserted" /\ i \notin told
    /\ told' = told \cup {i}
    /\ Publish(New(i))
    /\ UNCHANGED <<pageVars, masked, deleting, inRoom, screens>>

CommitComment(i) ==
    /\ i \in told
    /\ Commit(i)
    /\ UNCHANGED pageState

CommentFails(i) ==
    /\ i \in told => "commit" \in Faults
    /\ RollBack(i)
    /\ UNCHANGED pageState

\* delete_comment, by the author (who may do so again, and after a moderator)
\* or by a moderator: the UPDATE and the event ...
DeleteComment(i) ==
    /\ row[i] \in {"listed", "hidden", "relisted"}
    /\ i \in masked => Repeated
    /\ deleting[i] = "no"
    /\ \/ deleting' = [deleting EXCEPT ![i] = "masking"]
       \/ row[i] # "hidden" /\ deleting' = [deleting EXCEPT ![i] = "hiding"]
    /\ Publish(Deleted(i))
    /\ UNCHANGED <<pageVars, masked, told, inRoom, screens>>

\* ... and the commit.  A comment masked after its removal is listed again.
CommitDeletion(i) ==
    /\ \/ /\ deleting[i] = "masking"
          /\ masked' = masked \cup {i}
          /\ IF row[i] = "hidden" THEN Relist(i) ELSE UNCHANGED pageVars
       \/ /\ deleting[i] = "hiding"
          /\ Hide(i)
          /\ UNCHANGED masked
    /\ deleting' = [deleting EXCEPT ![i] = "no"]
    /\ UNCHANGED <<told, queue, lost, inRoom, screens>>

DeletionFails(i) ==
    /\ "commit" \in Faults
    /\ deleting[i] # "no"
    /\ deleting' = [deleting EXCEPT ![i] = "no"]
    /\ UNCHANGED <<pageVars, masked, told, queue, lost, inRoom, screens>>

-----------------------------------------------------------------------------
(* The gateway.                                                            *)

\* join_thread: sio.enter_room.
Join(r) ==
    /\ r \notin inRoom
    /\ inRoom' = inRoom \cup {r}
    /\ missed' = [missed EXCEPT ![r] = {New(i) : i \in {j \in told : row[j] = "inserted"}} \ Queued]
    /\ UNCHANGED <<pageVars, masked, events, clear, known>>

\* Mutant: _HANDLERS has no entry for realtime.comment; the event is dropped.
EmitUnrouted(e) ==
    /\ clear' = [r \in Readers |-> clear[r] \ {e.item}]
    /\ UNCHANGED known

\* handle_new_comment and handle_comment_deleted: emit to the thread's room.
Emit(e) ==
    /\ clear' = [r \in Readers |->
                   IF r \notin inRoom THEN clear[r]
                   ELSE IF e.kind = "new" THEN clear[r] \cup {e.item}
                   ELSE clear[r] \ {e.item}]
    /\ known' = [r \in Readers |-> IF r \in inRoom THEN known[r] \cup {e.item} ELSE known[r]]

\* _handle_message: the handler of the routing key; an exception is logged and
\* the message acknowledged all the same.
HandleMessage ==
    /\ queue # <<>>
    /\ queue' = Tail(queue)
    /\ \/ Emit(Head(queue)) /\ UNCHANGED lost
       \/ "emit" \in Faults /\ lost' = lost \cup {Head(queue)} /\ UNCHANGED <<clear, known>>
    /\ UNCHANGED <<pageVars, masked, told, deleting, inRoom, missed>>

-----------------------------------------------------------------------------
(* The page.                                                               *)

\* Mutant: the content of a deleted comment is sent.
EnrichedUnmasked(P) == P

\* _enrich_comments: the comments of P that are sent with their content.
Enriched(P) == P \ masked

\* What comes with a page.  A deletion may have been announced and not be
\* committed yet.
Show(r) ==
    LET P == pages'[r][Len(pages'[r])] IN
    /\ clear' = [clear EXCEPT ![r] = (@ \ P) \cup Enriched(P)]
    /\ known' = [known EXCEPT ![r] = @ \cup P]
    /\ missed' = [missed EXCEPT ![r] =
                    @ \cup ({Deleted(i) : i \in {j \in P : deleting[j] # "no"}} \ Queued)]
    /\ UNCHANGED <<masked, events, inRoom>>

\* GET /comments once the room is joined.
Open(r) == r \in inRoom /\ pages[r] = <<>> /\ FirstPage(r) /\ Show(r)

More(r) == NextPage(r) /\ Show(r)

-----------------------------------------------------------------------------

ServiceNext ==
    \E i \in Items :
        \/ CreateComment(i) \/ PublishComment(i) \/ CommitComment(i) \/ CommentFails(i)
        \/ DeleteComment(i) \/ CommitDeletion(i) \/ DeletionFails(i)

Next ==
    \/ ServiceNext \/ HandleMessage
    \/ \E r \in Readers : Join(r) \/ Open(r) \/ More(r)

Spec == Init /\ [][Next]_vars

-----------------------------------------------------------------------------
(* Properties.                                                             *)

\* A page that has joined the room before it read the list, and has read it to
\* the end, misses no comment: what is listed has come with the list or an
\* event, or its event is on its way or lost; or it was announced before the
\* page joined and committed after.  (Or it shares its created_at with the end
\* of a page, see NothingIsSkipped.)
PageMissesNothing ==
    \A r \in Readers : pages[r] # <<>> /\ cursor[r] = None =>
        \A i \in Items : row[i] = "listed" =>
            \/ i \in known[r]
            \/ New(i) \in Queued \cup lost \cup missed[r]
            \/ \E k \in 1..Len(pages[r]) : TiedWithPage(r, i, k)

\* What is deleted or removed is legible on no page, unless the event that says
\* so is on its way or lost, or had passed when the page was read, before the
\* commit of the deletion.
DeletedIsNotLegible ==
    \A r \in Readers : \A i \in Gone \cap clear[r] :
        Deleted(i) \in Queued \cup lost \cup missed[r]

-----------------------------------------------------------------------------
(* The inductive invariant.                                                *)

\* Only what is in the room has got anything, and only committed comments are
\* deleted.
PageInPlace ==
    /\ \A r \in Readers \ inRoom : clear[r] = {} /\ pages[r] = <<>>
    /\ \A r \in Readers : Shown(r) \subseteq known[r]
    /\ \A i \in Items :
          i \in masked \/ deleting[i] # "no" => row[i] \in {"listed", "hidden", "relisted"}

\* A comment that has been announced and is not committed will have reached
\* whoever is in the room.
AnnouncedReaches ==
    \A r \in inRoom : \A i \in told :
        row[i] = "inserted" => i \in known[r] \/ New(i) \in Queued \cup lost \cup missed[r]

\* PageMissesNothing for a page that is still being read.
ListedReaches ==
    \A r \in Readers : pages[r] # <<>> =>
        \A i \in Items : row[i] = "listed" =>
            i \in known[r] \/ New(i) \in Queued \cup lost \cup missed[r] \/ Passed(r, i)

\* The event of a deletion comes after that of the creation ...
InOrder ==
    \A k \in 1..Len(queue) : \A i \in Items :
        queue[k] = New(i) /\ (i \in Gone \/ deleting[i] # "no") =>
            Deleted(i) \in lost \/ \E l \in (k + 1)..Len(queue) : queue[l] = Deleted(i)

\* ... and leaves before the deletion is committed.
DeletionReaches ==
    \A r \in Readers : \A i \in clear[r] :
        i \in Gone \/ deleting[i] # "no" => Deleted(i) \in Queued \cup lost \cup missed[r]

ThreadPageInv ==
    /\ TypeOK
    /\ PagesInv
    /\ PageInPlace
    /\ AnnouncedReaches
    /\ ListedReaches
    /\ InOrder
    /\ DeletionReaches
=============================================================================
