------------------------------ MODULE Sessions ------------------------------
(***************************************************************************)
(* Refresh tokens of the user service: login, refresh (which rotates the   *)
(* token), logout, and the ends of access that revoke all of a user's      *)
(* tokens: password change, deletion of the account, ban.                  *)
(*                                                                         *)
(* A session is what a login begins: a token, its successor, and so on.  As*)
(* in Likes, a step is one awaited statement, transactions are READ        *)
(* COMMITTED, and the commit follows the reply.  Access tokens are not kept*)
(* anywhere, so any device may send what needs one; what passwords are is  *)
(* left out, and checking one may turn out either way.                     *)
(***************************************************************************)
EXTENDS Naturals, FiniteSets

CONSTANTS
    Users,
    Devices,      \* what keeps a cookie: a browser, a client
    UserOf,       \* UserOf[d]: whose device d is
    Tokens,       \* bound: the refresh tokens that can be generated
    None,         \* no user, no device, no token
    Handlers,     \* bound: the requests in flight, one each
    DeviceWaits,  \* does a device await the commit of one request before the next?
    Faults        \* of {"reply", "commit", "statement", "process"}

ASSUME SessionsAssumption ==
    /\ UserOf \in [Devices -> Users]
    /\ None \notin Users \cup Devices \cup Tokens
    /\ DeviceWaits \in BOOLEAN

Issuing == {"login", "refresh"}              \* _issue_tokens
Ending == {"password", "delete", "ban"}      \* revoke_all_user_tokens

Request == [op : Issuing \cup Ending \cup {"logout"}, user : Users,
            device : Devices \cup {None}, token : Tokens \cup {None}]

VARIABLES
    deleted,   \* users whose committed row says so
    rows,      \* rows[t]: "valid" or "revoked" as committed, or "none"
    session,   \* session[t]: the token of the login that t descends from
    issuedTo,  \* issuedTo[t]: the device to which it was issued
    expired,   \* tokens whose time is over
    cookie,    \* cookie[d]: the token that device d holds
    pc,        \* pc[h]: the next statement of handler h
    req,       \* req[h]: its request
    found,     \* found[h]: the rows its revoking UPDATE has found to match
    revoking,  \* revoking[h]: the tokens it has revoked, uncommitted
    issued,    \* issued[h]: the token it has inserted, uncommitted
    ended      \* ghost: sessions that were ended, or broken by a fault, and tokens
               \* that were sent and not committed

table == <<rows, session, issuedTo, ended>>
memory == <<req, found, revoking, issued>>
vars == <<deleted, table, expired, cookie, pc, memory>>

-----------------------------------------------------------------------------

InFlight == {h \in Handlers : pc[h] # "idle"}

TypeOK ==
    /\ deleted \subseteq Users
    /\ rows \in [Tokens -> {"none", "valid", "revoked"}]
    /\ session \in [Tokens -> Tokens \cup {None}]
    /\ issuedTo \in [Tokens -> Devices \cup {None}]
    /\ expired \subseteq Tokens
    /\ cookie \in [Devices -> Tokens \cup {None}]
    /\ pc \in [Handlers -> {"idle", "token", "user", "revoke", "insert",
                            "write", "find", "revokeAll", "reply", "commit"}]
    /\ req \in [Handlers -> Request \cup {None}]
    /\ found \in [Handlers -> SUBSET Tokens]
    /\ revoking \in [Handlers -> SUBSET Tokens]
    /\ issued \in [Handlers -> Tokens \cup {None}]
    /\ ended \subseteq Tokens

Init ==
    /\ deleted = {}
    /\ rows = [t \in Tokens |-> "none"]
    /\ session = [t \in Tokens |-> None]
    /\ issuedTo = [t \in Tokens |-> None]
    /\ expired = {}
    /\ cookie = [d \in Devices |-> None]
    /\ pc = [h \in Handlers |-> "idle"]
    /\ req = [h \in Handlers |-> None]
    /\ found = [h \in Handlers |-> {}]
    /\ revoking = [h \in Handlers |-> {}]
    /\ issued = [h \in Handlers |-> None]
    /\ ended = {}

\* Handler h's transaction is over and what it had in memory is gone.
Forget(h) ==
    /\ pc' = [pc EXCEPT ![h] = "idle"]
    /\ req' = [req EXCEPT ![h] = None]
    /\ found' = [found EXCEPT ![h] = {}]
    /\ revoking' = [revoking EXCEPT ![h] = {}]
    /\ issued' = [issued EXCEPT ![h] = None]

\* h replies with an error; nothing is committed.
Refuse(h) == Forget(h) /\ UNCHANGED <<deleted, table, expired, cookie>>

\* h goes on to statement p.
GoOn(h, p) ==
    /\ pc' = [pc EXCEPT ![h] = p]
    /\ UNCHANGED <<deleted, table, expired, cookie, req>>

\* Row locks: tokens that a transaction other than h's has revoked, and whether
\* one has written the row of user u.
Locked(h) == UNION {revoking[g] : g \in Handlers \ {h}}
HoldsUser(g, u) ==
    /\ pc[g] \in {"find", "revokeAll", "reply", "commit"}
    /\ req[g].op \in Ending /\ req[g].user = u
UserLocked(h, u) == \E g \in Handlers \ {h} : HoldsUser(g, u)

\* Tokens that generate_refresh_token may still return.
Fresh == {t \in Tokens \ ended : rows[t] = "none" /\ \A h \in Handlers : issued[h] # t}

\* The session of the token that h issues or revokes.
SessionOf(h) == IF req[h].op = "login" THEN issued[h] ELSE session[req[h].token]

-----------------------------------------------------------------------------

\* A device sends what it can: a refresh or a logout carry its cookie.
StartFromDevice(h, d, op) ==
    /\ pc[h] = "idle"
    /\ op # "ban"
    /\ DeviceWaits => \A g \in InFlight : req[g].device # d
    /\ op \in {"refresh", "logout"} => cookie[d] # None
    /\ op \in Issuing =>
          Cardinality({g \in InFlight : req[g].op \in Issuing /\ issued[g] = None})
              < Cardinality(Fresh)
    /\ req' = [req EXCEPT ![h] =
                 [op |-> op, user |-> UserOf[d], device |-> d, token |-> cookie[d]]]
    /\ pc' = [pc EXCEPT ![h] = IF op \in {"refresh", "logout"} THEN "token" ELSE "user"]
    /\ UNCHANGED <<deleted, table, expired, cookie, found, revoking, issued>>

\* An administrator bans user u.
StartBan(h, u) ==
    /\ pc[h] = "idle"
    /\ req' = [req EXCEPT ![h] =
                 [op |-> "ban", user |-> u, device |-> None, token |-> None]]
    /\ pc' = [pc EXCEPT ![h] = "user"]
    /\ UNCHANGED <<deleted, table, expired, cookie, found, revoking, issued>>

\* Mutant: revoked tokens are not told from good ones.
LoadTokenRevoked(h) ==
    LET t == req[h].token IN
    /\ pc[h] = "token"
    /\ IF req[h].op = "refresh" /\ (rows[t] = "none" \/ t \in expired)
       THEN Refuse(h)
       ELSE /\ GoOn(h, IF req[h].op = "refresh" THEN "user"
                       ELSE IF rows[t] = "valid" THEN "revoke" ELSE "reply")
            /\ UNCHANGED <<found, revoking, issued>>

\* get_refresh_token.  A refresh needs a token that is good; a logout succeeds
\* all the same if there is nothing to revoke.
LoadToken(h) ==
    LET t == req[h].token IN
    /\ pc[h] = "token"
    /\ CASE req[h].op = "refresh" /\ rows[t] = "valid" /\ t \notin expired ->
               GoOn(h, "user") /\ UNCHANGED <<found, revoking, issued>>
         [] req[h].op = "refresh" /\ ~ (rows[t] = "valid" /\ t \notin expired) ->
               Refuse(h)
         [] req[h].op = "logout" ->
               /\ GoOn(h, IF rows[t] = "valid" THEN "revoke" ELSE "reply")
               /\ UNCHANGED <<found, revoking, issued>>

\* Mutant: a deleted user's refresh token still works.
LoadUserUnchecked(h) ==
    /\ pc[h] = "user"
    /\ req[h].op = "refresh" \/ req[h].user \notin deleted
    /\ GoOn(h, CASE req[h].op = "login"   -> "insert"
                 [] req[h].op = "refresh" -> "revoke"
                 [] req[h].op \in Ending  -> "write")
    /\ UNCHANGED <<found, revoking, issued>>

\* The user is loaded: by name, by the token, by get_current_user, or as the
\* target of a ban.  A deleted user is refused.
LoadUser(h) ==
    /\ pc[h] = "user"
    /\ req[h].user \notin deleted
    /\ GoOn(h, CASE req[h].op = "login"   -> "insert"
                 [] req[h].op = "refresh" -> "revoke"
                 [] req[h].op \in Ending  -> "write")
    /\ UNCHANGED <<found, revoking, issued>>

UserRefused(h) ==
    /\ pc[h] = "user"
    /\ req[h].user \in deleted \/ req[h].op \in {"login", "password"}
    /\ Refuse(h)

\* Mutant: the token stays good.
RevokeTokenNot(h) ==
    /\ pc[h] = "revoke"
    /\ GoOn(h, IF req[h].op = "refresh" THEN "insert" ELSE "reply")
    /\ UNCHANGED <<found, revoking, issued>>

\* revoke_token: an UPDATE by primary key, whatever has become of the row.
RevokeToken(h) ==
    /\ pc[h] = "revoke"
    /\ req[h].token \notin Locked(h)
    /\ revoking' = [revoking EXCEPT ![h] = {req[h].token}]
    /\ GoOn(h, IF req[h].op = "refresh" THEN "insert" ELSE "reply")
    /\ UNCHANGED <<found, issued>>

\* Mutant: tokens are not random enough.
InsertTokenAgain(h) ==
    /\ pc[h] = "insert"
    /\ \E t \in Tokens \ ended : issued' = [issued EXCEPT ![h] = t]
    /\ GoOn(h, "reply")
    /\ UNCHANGED <<found, revoking>>

\* create_refresh_token.
InsertToken(h) ==
    /\ pc[h] = "insert"
    /\ \E t \in Fresh : issued' = [issued EXCEPT ![h] = t]
    /\ GoOn(h, "reply")
    /\ UNCHANGED <<found, revoking>>

\* Mutant: the user row is not written before the tokens are revoked.
WriteUserLater(h) ==
    /\ pc[h] = "write"
    /\ GoOn(h, "find")
    /\ UNCHANGED <<found, revoking, issued>>

\* The UPDATE of the user row: a new password, or deleted.
WriteUser(h) ==
    /\ pc[h] = "write"
    /\ ~ UserLocked(h, req[h].user)
    /\ GoOn(h, "find")
    /\ UNCHANGED <<found, revoking, issued>>

\* revoke_all_user_tokens: the UPDATE finds the rows that are committed now ...
FindTokens(h) ==
    /\ pc[h] = "find"
    /\ found' = [found EXCEPT ![h] =
                   {t \in Tokens : rows[t] = "valid" /\ UserOf[issuedTo[t]] = req[h].user}]
    /\ GoOn(h, "revokeAll")
    /\ UNCHANGED <<revoking, issued>>

\* ... and takes them one by one, in any order.  It waits for those that others
\* are revoking, to see if they still match.
RevokeNext(h) ==
    /\ pc[h] = "revokeAll"
    /\ \E t \in found[h] \ (revoking[h] \cup Locked(h)) :
          IF rows[t] = "valid"
          THEN revoking' = [revoking EXCEPT ![h] = @ \cup {t}] /\ UNCHANGED found
          ELSE found' = [found EXCEPT ![h] = @ \ {t}] /\ UNCHANGED revoking
    /\ GoOn(h, "revokeAll")
    /\ UNCHANGED issued

\* Mutant: it skips the rows that are locked.
AllRevokedOrLocked(h) ==
    /\ pc[h] = "revokeAll"
    /\ found[h] \subseteq revoking[h] \cup Locked(h)
    /\ GoOn(h, "reply")
    /\ UNCHANGED <<found, revoking, issued>>

AllRevoked(h) ==
    /\ pc[h] = "revokeAll"
    /\ found[h] \subseteq revoking[h]
    /\ GoOn(h, "reply")
    /\ UNCHANGED <<found, revoking, issued>>

\* The reply sets or clears the cookie; it may get lost.
Reply(h) ==
    LET d == req[h].device IN
    /\ pc[h] = "reply"
    /\ pc' = [pc EXCEPT ![h] = "commit"]
    /\ \/ /\ cookie' = CASE req[h].op \in Issuing  -> [cookie EXCEPT ![d] = issued[h]]
                         [] req[h].op = "logout"   -> [cookie EXCEPT ![d] = None]
                         [] req[h].op \in Ending   -> cookie
          /\ UNCHANGED ended
       \/ /\ "reply" \in Faults
          /\ ended' = IF req[h].op = "refresh" THEN ended \cup {SessionOf(h)} ELSE ended
          /\ UNCHANGED cookie
    /\ UNCHANGED <<deleted, rows, session, issuedTo, expired, memory>>

\* The sessions that h ends on purpose.
Ends(h) ==
    IF req[h].op \in Issuing THEN {}
    ELSE {session[t] : t \in {t \in revoking[h] : UserOf[issuedTo[t]] = req[h].user}}

\* Mutant: the old token is revoked, and the new one is never flushed.
CommitOldOnly(h) ==
    /\ pc[h] = "commit"
    /\ rows' = [t \in Tokens |-> IF t \in revoking[h] THEN "revoked" ELSE rows[t]]
    /\ deleted' = IF req[h].op \in {"delete", "ban"} THEN deleted \cup {req[h].user}
                  ELSE deleted
    /\ ended' = ended \cup Ends(h)
    /\ Forget(h)
    /\ UNCHANGED <<session, issuedTo, expired, cookie>>

\* get_db, after the reply.
Commit(h) ==
    LET new == {t \in {issued[h]} : t # None} IN
    /\ pc[h] = "commit"
    /\ rows' = [t \in Tokens |-> IF t \in new THEN "valid"
                                 ELSE IF t \in revoking[h] THEN "revoked" ELSE rows[t]]
    /\ session' = [t \in Tokens |-> IF t \in new THEN SessionOf(h) ELSE session[t]]
    /\ issuedTo' = [t \in Tokens |-> IF t \in new THEN req[h].device ELSE issuedTo[t]]
    /\ deleted' = IF req[h].op \in {"delete", "ban"} THEN deleted \cup {req[h].user}
                  ELSE deleted
    /\ ended' = ended \cup Ends(h)
    /\ Forget(h)
    /\ UNCHANGED <<expired, cookie>>

\* What the device was told does not come true for these sessions and tokens.
Broken(hs) == UNION {{SessionOf(h), issued[h]} :
                       h \in {h \in hs : pc[h] = "commit" /\ req[h].op \in Issuing}}

CommitFails(h) ==
    /\ "commit" \in Faults
    /\ pc[h] = "commit"
    /\ ended' = ended \cup Broken({h})
    /\ Forget(h)
    /\ UNCHANGED <<deleted, rows, session, issuedTo, expired, cookie>>

StatementFails(h) ==
    /\ "statement" \in Faults
    /\ pc[h] \in {"token", "user", "revoke", "insert", "write", "find", "revokeAll"}
    /\ Refuse(h)

ProcessDies ==
    /\ "process" \in Faults
    /\ InFlight # {}
    /\ ended' = ended \cup Broken(Handlers)
    /\ pc' = [h \in Handlers |-> "idle"]
    /\ req' = [h \in Handlers |-> None]
    /\ found' = [h \in Handlers |-> {}]
    /\ revoking' = [h \in Handlers |-> {}]
    /\ issued' = [h \in Handlers |-> None]
    /\ UNCHANGED <<deleted, rows, session, issuedTo, expired, cookie>>

\* is_expired becomes true.  For a revoked token it makes no difference.
Expire(t) ==
    /\ rows[t] = "valid" /\ t \notin expired
    /\ expired' = expired \cup {t}
    /\ ended' = ended \cup {session[t]}
    /\ UNCHANGED <<deleted, rows, session, issuedTo, cookie, pc, memory>>

-----------------------------------------------------------------------------

Handler(h) ==
    \/ LoadToken(h) \/ LoadUser(h) \/ UserRefused(h)
    \/ RevokeToken(h) \/ InsertToken(h)
    \/ WriteUser(h) \/ FindTokens(h) \/ RevokeNext(h) \/ AllRevoked(h)
    \/ Reply(h) \/ Commit(h)

Next ==
    \/ \E h \in Handlers :
          \/ \E d \in Devices, op \in Issuing \cup Ending \cup {"logout"} :
                StartFromDevice(h, d, op)
          \/ \E u \in Users : StartBan(h, u)
          \/ Handler(h) \/ CommitFails(h) \/ StatementFails(h)
    \/ ProcessDies
    \/ \E t \in Tokens : Expire(t)

Spec == Init /\ [][Next]_vars

-----------------------------------------------------------------------------
(* Properties.                                                             *)

\* A session has one good token at a time, as long as its device waits for its
\* commits: rotation never leaves the old token good beside the new one, whatever
\* the user's other devices and the administrator do meanwhile, and whatever fails.
SessionHasOneToken ==
    \A t, s \in Tokens :
        t # s /\ rows[t] = "valid" /\ rows[s] = "valid" => session[t] # session[s]

\* t is good, or there is a reason why it is not.
Good(t) == rows[t] = "valid" \/ session[t] \in ended \/ t \in ended

\* A device that waits stays logged in: its cookie is good unless the session was
\* ended by a logout, a password change, a deletion, a ban or its age, or broken by
\* a reply or a commit that failed.
SessionsAreKept ==
    \A d \in Devices :
        (\A h \in InFlight : req[h].device # d) /\ cookie[d] # None
        => Good(cookie[d])

\* What revoke_all_user_tokens has found does not survive its commit, even if the
\* device was using it: a refresh in flight either gets its token revoked in
\* time, or fails, and then it is revoked nevertheless.
FoundTokensAreRevoked ==
    [][\A h \in Handlers : pc[h] = "commit" /\ Commit(h)
                             => \A t \in found[h] : rows'[t] # "valid"]_vars

\* Those who wait for a row that somebody else holds.
Blocked(h) ==
    \/ pc[h] = "revoke" /\ req[h].token \in Locked(h)
    \/ pc[h] = "write" /\ UserLocked(h, req[h].user)
    \/ pc[h] = "revokeAll" /\ found[h] \subseteq revoking[h] \cup Locked(h)
                            /\ ~ found[h] \subseteq revoking[h]

\* Requests never wait for each other in a circle, although two that revoke all of
\* a user's tokens may take the rows in different orders: both write the user row
\* first, and those that take one token take nothing else.
SomeoneGoesOn == InFlight # {} => \E h \in InFlight : ~ Blocked(h)

\* The code says of a password change that all tokens are revoked.  (They are not: a
\* refresh or a login that is under way brings another one.)
AllTokensAreRevoked ==
    [][\A h \in Handlers :
          pc[h] = "commit" /\ Commit(h) /\ req[h].op = "password"
          => \A t \in Tokens : rows'[t] = "valid" => UserOf[issuedTo'[t]] # req[h].user]_vars

-----------------------------------------------------------------------------
(* The inductive invariant behind SessionHasOneToken and SessionsAreKept.  *)

\* Tokens that exist know their session and device, and a session has one device.
TokensHaveSessions ==
    /\ \A t \in Tokens : rows[t] # "none" =>
          /\ session[t] \in Tokens /\ rows[session[t]] # "none"
          /\ issuedTo[t] \in Devices
    /\ \A t, s \in Tokens :
          rows[t] # "none" /\ rows[s] # "none" /\ session[t] = session[s]
          => issuedTo[t] = issuedTo[s]

\* Where request h may stand.
Stands(h) ==
    /\ req[h] \in Request
    /\ pc[h] = "token" => req[h].op \in {"refresh", "logout"}
    /\ pc[h] = "user" => req[h].op # "logout"
    /\ pc[h] = "revoke" => req[h].op \in {"refresh", "logout"}
    /\ pc[h] = "insert" => req[h].op \in Issuing
    /\ pc[h] \in {"write", "find", "revokeAll"} => req[h].op \in Ending
    /\ req[h].op \in {"refresh", "logout"} => req[h].token \in Tokens

\* Where each request stands, and what it has written there.
RequestsInPlace ==
    \A h \in InFlight :
        /\ Stands(h)
        /\ req[h].op # "ban" =>
              req[h].device \in Devices /\ req[h].user = UserOf[req[h].device]
        /\ pc[h] \in {"reply", "commit"} /\ req[h].op \in Issuing => issued[h] # None
        /\ pc[h] \in {"insert", "reply", "commit"} /\ req[h].op = "refresh" =>
              revoking[h] = {req[h].token}
        /\ req[h].op = "login" => revoking[h] = {}

\* The tokens that a request has in hand exist, and are its user's or its device's.
RowsInHand ==
    \A h \in Handlers :
        /\ revoking[h] # {} => h \in InFlight
        /\ \A t \in found[h] \cup revoking[h] :
              rows[t] # "none" /\ UserOf[issuedTo[t]] = req[h].user
        /\ found[h] # {} => h \in InFlight /\ req[h].op \in Ending
        /\ pc[h] \in {"reply", "commit"} => found[h] \subseteq revoking[h]
        /\ h \in InFlight /\ req[h].op \in {"refresh", "logout"} =>
              LET t == req[h].token IN
              /\ rows[t] = "none" => t \in ended /\ revoking[h] = {}
              /\ rows[t] # "none" => issuedTo[t] = req[h].device
              /\ pc[h] = "revoke" => rows[t] # "none"

\* A device that waits has one request in flight.
OneRequestPerDevice ==
    \A g, h \in InFlight :
        g # h /\ req[g].device = req[h].device => req[g].device = None

\* An inserted token is new, to everyone but its device.
InsertedTokensAreNew ==
    \A h \in Handlers : issued[h] # None =>
        /\ h \in InFlight /\ req[h].op \in Issuing /\ pc[h] \in {"reply", "commit"}
        /\ rows[issued[h]] = "none" /\ issued[h] \notin ended
        /\ \A g \in Handlers : issued[g] = issued[h] => g = h

\* A cookie is a token that was issued to the device, or was to be.
CookiesBelong ==
    \A d \in Devices : cookie[d] # None =>
        \/ rows[cookie[d]] # "none" /\ issuedTo[cookie[d]] = d
        \/ rows[cookie[d]] = "none" /\ cookie[d] \in ended
        \/ \E h \in InFlight : /\ pc[h] = "commit" /\ req[h].device = d
                               /\ issued[h] = cookie[d]

\* A refresh past its check has the only token of its session that may be good.
RefreshHasTheToken ==
    \A h \in InFlight : req[h].op = "refresh" /\ pc[h] # "token" =>
        /\ rows[req[h].token] # "none"
        /\ issuedTo[req[h].token] = req[h].device
        /\ \A t \in Tokens :
              rows[t] = "valid" /\ session[t] = session[req[h].token]
              => t = req[h].token

\* A cookie is good, or is the token that its device's request is about to commit.
CookiesAreGood ==
    \A d \in Devices : cookie[d] # None =>
        \/ Good(cookie[d])
        \/ \E h \in InFlight : /\ pc[h] = "commit" /\ req[h].device = d
                               /\ issued[h] = cookie[d]

\* If the reply of a refresh got lost, its session is as good as over.
RefreshReplied ==
    \A h \in InFlight :
        /\ pc[h] = "commit" /\ req[h].op = "refresh"
        /\ cookie[req[h].device] = req[h].token
        => session[req[h].token] \in ended

SessionsInv ==
    /\ TypeOK
    /\ TokensHaveSessions
    /\ RequestsInPlace
    /\ RowsInHand
    /\ OneRequestPerDevice
    /\ InsertedTokensAreNew
    /\ CookiesBelong
    /\ RefreshHasTheToken
    /\ SessionHasOneToken
    /\ CookiesAreGood
    /\ RefreshReplied

-----------------------------------------------------------------------------
(* The inductive invariant behind FoundTokensAreRevoked and SomeoneGoesOn, *)
(* which do not depend on what devices do.                                 *)

\* What a request has found or locked exists.  revoke_all_user_tokens finds the
\* user's tokens; it locks no more than that, and when it is through no less.
HasInHand(h) ==
    /\ \A t \in found[h] \cup revoking[h] : rows[t] # "none"
    /\ pc[h] = "revoke" \/ (pc[h] \notin {"idle", "token"} /\ req[h].op = "refresh")
          => rows[req[h].token] # "none"
    /\ found[h] # {} => /\ pc[h] \in {"revokeAll", "reply", "commit"}
                        /\ req[h].op \in Ending
    /\ \A t \in found[h] : UserOf[issuedTo[t]] = req[h].user
    /\ pc[h] # "idle" /\ req[h].op \in Ending => revoking[h] \subseteq found[h]
    /\ pc[h] \in {"reply", "commit"} => found[h] \subseteq revoking[h]

\* The token that h has inserted is nobody else's.
IsNew(h) ==
    /\ issued[h] # None =>
          /\ pc[h] \in {"reply", "commit"} /\ req[h].op \in Issuing
          /\ rows[issued[h]] = "none"
          /\ \A g \in Handlers : issued[g] = issued[h] => g = h
    /\ pc[h] \in {"reply", "commit"} /\ req[h].op \in Issuing => issued[h] # None

\* Row locks: a user row has one holder, and tokens are locked from the statement
\* that revokes them on.
LocksInPlace ==
    /\ \A u \in Users : \A g, h \in Handlers :
          HoldsUser(g, u) /\ HoldsUser(h, u) => g = h
    /\ \A h \in Handlers : revoking[h] # {} =>
          pc[h] \in {"insert", "revokeAll", "reply", "commit"}

LocksInv ==
    /\ TypeOK
    /\ \A h \in InFlight : Stands(h)
    /\ \A h \in Handlers : HasInHand(h) /\ IsNew(h)
    /\ \A t \in Tokens : rows[t] # "none" => session[t] \in Tokens
    /\ LocksInPlace
=============================================================================
