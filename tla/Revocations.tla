----------------------------- MODULE Revocations -----------------------------
(***************************************************************************)
(* Sessions, with the history that it takes to say when a session is over: *)
(* which sessions a committed revoke_all_user_tokens was to end, and which *)
(* tokens came after the deletion of their user.                           *)
(***************************************************************************)
EXTENDS Sessions

VARIABLES
    ending,  \* ending[h]: the sessions that h has found a good token of, and that
             \* nobody has been refreshing since
    over,    \* the sessions that have been ended so by a commit
    late     \* the tokens committed when their user was deleted already

history == <<ending, over, late>>

\* Sessions of which a refresh has found the token good and is not through.
Refreshing ==
    {session[req[h].token] :
        h \in {h \in InFlight : req[h].op = "refresh" /\ pc[h] # "token"}}

Looks(h) == pc[h] = "find" /\ pc'[h] = "revokeAll"

Record ==
    /\ ending' = [h \in Handlers |->
                    (IF Looks(h) THEN {session[t] : t \in found'[h]}
                     ELSE IF pc'[h] = "idle" THEN {} ELSE ending[h]) \ Refreshing']
    /\ over' = over \cup UNION {ending[h] : h \in {h \in Handlers :
                                                     pc[h] = "commit" /\ Commit(h)}}
    /\ late' = late \cup {t \in Tokens : /\ rows[t] = "none" /\ rows'[t] # "none"
                                         /\ UserOf[issuedTo'[t]] \in deleted}

RevocationInit ==
    /\ Init
    /\ ending = [h \in Handlers |-> {}]
    /\ over = {}
    /\ late = {}

RevocationNext == Next /\ Record

RevocationSpec == RevocationInit /\ [][RevocationNext]_<<vars, history>>

-----------------------------------------------------------------------------
(* Properties, of devices that wait.                                       *)

\* A password change, deletion or ban ends every session that it finds and that is
\* not being refreshed beside it: after its commit, whatever fails before or later,
\* none of the session's tokens is good, and no device gets another one for it.
\* (A refresh past its check of the token goes on with a successor that
\* revoke_all_user_tokens has not seen.)
RevokedSessionsStayOver == \A t \in Tokens : rows[t] = "valid" => session[t] \notin over

\* What comes after the deletion of its user is of no use: a request that had loaded
\* the user before may still issue a token, but a session gets no second one.
DeletedGetOneTokenMore == \A t, s \in late : session[t] = session[s] => t = s

-----------------------------------------------------------------------------
(* The inductive invariant, on top of SessionsInv.                         *)

\* What h is about to end has no good token but those that h has found.
EndingIsFound ==
    \A h \in Handlers : ending[h] # {} =>
        /\ pc[h] \in {"revokeAll", "reply", "commit"} /\ req[h].op \in Ending
        /\ \A s \in ending[h] : s \in Tokens /\ rows[s] # "none" /\ s \notin Refreshing
        /\ \A t \in Tokens : rows[t] = "valid" /\ session[t] \in ending[h] => t \in found[h]

\* What is over is not being refreshed.
OverIsOver == \A s \in over : s \in Tokens /\ rows[s] # "none" /\ s \notin Refreshing

\* Of a session with a late token no refresh is past the check of its user.
LateIsLast ==
    \A t \in late :
        /\ t \in Tokens /\ rows[t] # "none" /\ UserOf[issuedTo[t]] \in deleted
        /\ \A h \in InFlight :
              req[h].op = "refresh" /\ pc[h] \notin {"token", "user"}
              => session[req[h].token] # session[t]

RevocationsInv ==
    /\ SessionsInv
    /\ EndingIsFound
    /\ OverIsOver
    /\ RevokedSessionsStayOver
    /\ LateIsLast
    /\ DeletedGetOneTokenMore
=============================================================================
