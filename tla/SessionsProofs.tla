--------------------------- MODULE SessionsProofs ---------------------------
(***************************************************************************)
(* Proofs about Sessions, for any users, devices, tokens, requests and     *)
(* faults: first what holds of the sessions of devices that wait, then what*)
(* holds of revocations and locks whatever the devices do, and last, of    *)
(* devices that wait again, how long revocations and deletions hold.       *)
(***************************************************************************)
EXTENDS Revocations, TLAPS

USE SessionsAssumption DEF Stands

\* What the invariant says of the request of one handler.
LEMMA RequestOf ==
    ASSUME SessionsInv, NEW h \in InFlight
    PROVE  /\ h \in Handlers
           /\ req[h] \in Request
           /\ req[h].op \in Issuing \cup Ending \cup {"logout"}
           /\ req[h].user \in Users
           /\ req[h].device \in Devices \cup {None}
           /\ req[h].token \in Tokens \cup {None}
           /\ req[h].op # "ban" =>
                 req[h].device \in Devices /\ req[h].user = UserOf[req[h].device]
BY DEF SessionsInv, RequestsInPlace, InFlight, Request

-----------------------------------------------------------------------------
(* The initial states.                                                     *)

LEMMA InitSessionsInv == Init => SessionsInv
<1>. SUFFICES ASSUME Init PROVE SessionsInv
  OBVIOUS
<1>. USE DEF Init
<1>1. TypeOK
  BY DEF TypeOK
<1>2. InFlight = {}
  BY DEF InFlight
<1>3. TokensHaveSessions /\ SessionHasOneToken
  BY DEF TokensHaveSessions, SessionHasOneToken
<1>4. RequestsInPlace /\ OneRequestPerDevice /\ RefreshHasTheToken /\ RefreshReplied
  BY <1>2 DEF RequestsInPlace, OneRequestPerDevice, RefreshHasTheToken, RefreshReplied
<1>5. RowsInHand
  BY <1>2 DEF RowsInHand
<1>6. InsertedTokensAreNew
  BY DEF InsertedTokensAreNew
<1>7. CookiesBelong /\ CookiesAreGood
  BY DEF CookiesBelong, CookiesAreGood
<1>. QED  BY <1>1, <1>3, <1>4, <1>5, <1>6, <1>7 DEF SessionsInv

-----------------------------------------------------------------------------
(* The arrival of a request.                                               *)

\* A request arrives whose token, if it has one, is the cookie of its device.
Arrives(h, q) ==
    /\ pc[h] = "idle"
    /\ q \in Request
    /\ \A g \in InFlight : req[g].device = q.device => q.device = None
    /\ q.op # "ban" => q.device \in Devices /\ q.user = UserOf[q.device]
    /\ q.op \in {"refresh", "logout"} => q.token \in Tokens /\ q.token = cookie[q.device]
    /\ req' = [req EXCEPT ![h] = q]
    /\ pc' = [pc EXCEPT ![h] = IF q.op \in {"refresh", "logout"} THEN "token" ELSE "user"]
    /\ UNCHANGED <<deleted, table, expired, cookie, found, revoking, issued>>

LEMMA ArrivalKeeps ==
    ASSUME SessionsInv, NEW h \in Handlers, NEW q, Arrives(h, q)
    PROVE  SessionsInv'
<1>. USE DEF SessionsInv, Arrives, table
<1>1. TypeOK'
  BY DEF TypeOK
<1>2. /\ h \notin InFlight /\ InFlight' = InFlight \cup {h}
      /\ req'[h] = q /\ pc'[h] \in {"token", "user"}
      /\ \A g \in Handlers \ {h} : pc'[g] = pc[g] /\ req'[g] = req[g]
      /\ \A g \in InFlight : g \in Handlers \ {h}
  BY DEF InFlight, TypeOK
<1>3. found[h] = {} /\ revoking[h] = {} /\ issued[h] = None
  BY <1>2 DEF RowsInHand, InsertedTokensAreNew
<1>4. TokensHaveSessions' /\ SessionHasOneToken'
  BY DEF TokensHaveSessions, SessionHasOneToken
<1>5. RequestsInPlace'
  <2>. SUFFICES ASSUME NEW g \in InFlight'
                PROVE  RequestsInPlace!(g)'
    BY DEF RequestsInPlace
  <2>1. CASE g = h
    BY <1>2, <1>3, <2>1 DEF Request, Issuing, Ending
  <2>2. CASE g # h
    BY <1>2, <2>2 DEF RequestsInPlace
  <2>. QED  BY <2>1, <2>2
<1>6. RowsInHand'
  <2>1. q.op \in {"refresh", "logout"} =>
           /\ rows[q.token] = "none" => q.token \in ended
           /\ rows[q.token] # "none" => issuedTo[q.token] = q.device
    BY DEF CookiesBelong
  <2>. SUFFICES ASSUME NEW g \in Handlers
                PROVE  RowsInHand!(g)'
    BY DEF RowsInHand
  <2>2. CASE g = h
    BY <1>2, <1>3, <2>1, <2>2
  <2>3. CASE g # h
    BY <1>2, <2>3 DEF RowsInHand
  <2>. QED  BY <2>2, <2>3
<1>7. OneRequestPerDevice'
  BY <1>2 DEF OneRequestPerDevice
<1>8. InsertedTokensAreNew'
  BY <1>2, <1>3 DEF InsertedTokensAreNew
<1>9. CookiesBelong' /\ CookiesAreGood'
  BY <1>2 DEF CookiesBelong, CookiesAreGood, Good
<1>10. RefreshHasTheToken'
  BY <1>2 DEF RefreshHasTheToken, Request
<1>11. RefreshReplied'
  BY <1>2 DEF RefreshReplied
<1>. QED  BY <1>1, <1>4, <1>5, <1>6, <1>7, <1>8, <1>9, <1>10, <1>11

LEMMA StartFromDeviceKeeps ==
    ASSUME DeviceWaits, SessionsInv, NEW h \in Handlers, NEW d \in Devices,
           NEW op \in Issuing \cup Ending \cup {"logout"}, StartFromDevice(h, d, op)
    PROVE  SessionsInv'
<1>. DEFINE q == [op |-> op, user |-> UserOf[d], device |-> d, token |-> cookie[d]]
<1>1. q \in Request
  BY DEF Request, SessionsInv, TypeOK
<1>2. op \in {"refresh", "logout"} => cookie[d] \in Tokens
  BY DEF StartFromDevice, SessionsInv, TypeOK
<1>3. Arrives(h, q)
  BY <1>1, <1>2 DEF Arrives, StartFromDevice
<1>. QED  BY <1>3, ArrivalKeeps

LEMMA StartBanKeeps ==
    ASSUME SessionsInv, NEW h \in Handlers, NEW u \in Users, StartBan(h, u)
    PROVE  SessionsInv'
<1>. DEFINE q == [op |-> "ban", user |-> u, device |-> None, token |-> None]
<1>1. q \in Request
  BY DEF Request, Ending
<1>2. Arrives(h, q)
  BY <1>1 DEF Arrives, StartBan
<1>. QED  BY <1>2, ArrivalKeeps

-----------------------------------------------------------------------------
(* Statements.                                                             *)

\* Handler h executes a statement before the reply and goes on to p.
Executes(h, p) ==
    /\ pc[h] \notin {"idle", "reply", "commit"}
    /\ p \in {"user", "revoke", "insert", "write", "find", "revokeAll", "reply"}
    /\ found' \in [Handlers -> SUBSET Tokens]
    /\ revoking' \in [Handlers -> SUBSET Tokens]
    /\ issued' \in [Handlers -> Tokens \cup {None}]
    /\ \A g \in Handlers \ {h} :
          found'[g] = found[g] /\ revoking'[g] = revoking[g] /\ issued'[g] = issued[g]
    /\ GoOn(h, p)

LEMMA ExecutesFacts ==
    ASSUME SessionsInv, NEW h \in Handlers, NEW p, Executes(h, p)
    PROVE  /\ h \in InFlight /\ InFlight' = InFlight
           /\ pc'[h] = p
           /\ \A g \in Handlers \ {h} :
                 /\ pc'[g] = pc[g] /\ req'[g] = req[g] /\ found'[g] = found[g]
                 /\ revoking'[g] = revoking[g] /\ issued'[g] = issued[g]
           /\ UNCHANGED <<deleted, rows, session, issuedTo, ended, expired, cookie, req>>
           /\ issued[h] = None
BY DEF Executes, GoOn, InFlight, SessionsInv, TypeOK, InsertedTokensAreNew, table

\* The rest of the invariant does not depend on a handler before its commit.
LEMMA ExecutionKeeps ==
    ASSUME SessionsInv, NEW h \in Handlers, NEW p, Executes(h, p),
           RequestsInPlace', RowsInHand', InsertedTokensAreNew', RefreshHasTheToken'
    PROVE  SessionsInv'
<1>1. TypeOK'
  BY DEF SessionsInv, TypeOK, Executes, GoOn, table
<1>2. TokensHaveSessions' /\ SessionHasOneToken'
  BY ExecutesFacts DEF SessionsInv, TokensHaveSessions, SessionHasOneToken
<1>3. OneRequestPerDevice'
  BY ExecutesFacts DEF SessionsInv, OneRequestPerDevice
<1>4. \A g \in InFlight : pc[g] = "commit" => g \in Handlers \ {h}
  BY DEF InFlight, Executes
<1>5. CookiesBelong'
  BY <1>4, ExecutesFacts DEF SessionsInv, CookiesBelong
<1>6. CookiesAreGood'
  BY <1>4, ExecutesFacts DEF SessionsInv, CookiesAreGood, Good
<1>7. RefreshReplied'
  <2>1. p # "commit"
    BY DEF Executes
  <2>. QED  BY <2>1, ExecutesFacts DEF SessionsInv, RefreshReplied, InFlight
<1>. QED  BY <1>1, <1>2, <1>3, <1>5, <1>6, <1>7 DEF SessionsInv

\* Statements that only read, and the UPDATE of the user row.
LEMMA ReadKeeps ==
    ASSUME SessionsInv, NEW h \in Handlers, NEW p, Executes(h, p),
           UNCHANGED <<found, revoking, issued>>,
           pc[h] = "token" /\ req[h].op = "refresh" => rows[req[h].token] = "valid",
           p = "user" => req[h].op = "refresh",
           p = "revoke" => /\ req[h].op \in {"refresh", "logout"}
                           /\ rows[req[h].token] # "none",
           p = "insert" => req[h].op = "login",
           p \in {"write", "find", "revokeAll"} => req[h].op \in Ending,
           p = "reply" => /\ req[h].op \in Ending \cup {"logout"}
                          /\ found[h] \subseteq revoking[h]
    PROVE  SessionsInv'
<1>. USE ExecutesFacts
<1>1. RequestsInPlace'
  <2>. SUFFICES ASSUME NEW g \in InFlight' PROVE RequestsInPlace!(g)'
    BY DEF RequestsInPlace
  <2>. g \in InFlight /\ g \in Handlers
    BY RequestOf
  <2>1. RequestsInPlace!(g)
    BY DEF SessionsInv, RequestsInPlace
  <2>2. CASE g = h
    BY <2>1, <2>2 DEF Issuing, Ending, Executes
  <2>3. CASE g # h
    BY <2>1, <2>3
  <2>. QED  BY <2>2, <2>3
<1>2. RowsInHand'
  <2>. SUFFICES ASSUME NEW g \in Handlers PROVE RowsInHand!(g)'
    BY DEF RowsInHand
  <2>1. CASE g = h
    BY <2>1 DEF SessionsInv, RowsInHand, Executes
  <2>2. CASE g # h
    BY <2>2 DEF SessionsInv, RowsInHand
  <2>. QED  BY <2>1, <2>2
<1>3. InsertedTokensAreNew'
  BY DEF SessionsInv, InsertedTokensAreNew
<1>4. RefreshHasTheToken'
  <2>. SUFFICES ASSUME NEW g \in InFlight, req[g].op = "refresh", pc'[g] # "token"
                PROVE  RefreshHasTheToken!(g)'
    BY DEF RefreshHasTheToken
  <2>1. CASE g = h /\ pc[h] = "token"
    <3>1. req[h].token \in Tokens /\ issuedTo[req[h].token] = req[h].device
      BY <2>1 DEF SessionsInv, RequestsInPlace, RowsInHand
    <3>2. rows[req[h].token] = "valid"
      BY <2>1
    <3>. QED  BY <2>1, <3>1, <3>2 DEF SessionsInv, SessionHasOneToken
  <2>2. CASE ~ (g = h /\ pc[h] = "token")
    BY <2>2 DEF SessionsInv, RefreshHasTheToken, InFlight
  <2>. QED  BY <2>1, <2>2
<1>. QED  BY <1>1, <1>2, <1>3, <1>4, ExecutionKeeps

LEMMA LoadTokenKeeps ==
    ASSUME SessionsInv, NEW h \in Handlers, LoadToken(h), ~ Refuse(h)
    PROVE  SessionsInv'
<1>. DEFINE t == req[h].token
<1>1. /\ pc[h] = "token" /\ h \in InFlight
      /\ req[h].op \in {"refresh", "logout"} /\ t \in Tokens
      /\ found[h] = {}
  BY DEF LoadToken, InFlight, SessionsInv, RequestsInPlace, RowsInHand, Ending
<1>2. PICK p \in {"user", "revoke", "reply"} :
         /\ GoOn(h, p) /\ UNCHANGED <<found, revoking, issued>>
         /\ req[h].op = "refresh" => p = "user" /\ rows[t] = "valid"
         /\ req[h].op = "logout" => p = "reply" \/ (p = "revoke" /\ rows[t] = "valid")
  <2>1. CASE req[h].op = "refresh"
    <3>1. rows[t] = "valid" /\ GoOn(h, "user") /\ UNCHANGED <<found, revoking, issued>>
      BY <2>1 DEF LoadToken
    <3>. QED  BY <2>1, <3>1
  <2>2. CASE req[h].op = "logout"
    <3>1. /\ GoOn(h, IF rows[t] = "valid" THEN "revoke" ELSE "reply")
          /\ UNCHANGED <<found, revoking, issued>>
      BY <2>2 DEF LoadToken
    <3>. QED  BY <2>2, <3>1
  <2>. QED  BY <1>1, <2>1, <2>2
<1>3. Executes(h, p)
  BY <1>1, <1>2 DEF Executes, SessionsInv, TypeOK
<1>. QED  BY <1>1, <1>2, <1>3, ReadKeeps

LEMMA LoadUserKeeps ==
    ASSUME SessionsInv, NEW h \in Handlers, LoadUser(h)
    PROVE  SessionsInv'
<1>1. /\ pc[h] = "user" /\ h \in InFlight
      /\ req[h].op \in Issuing \cup Ending
      /\ req[h].op = "refresh" => rows[req[h].token] # "none"
  BY RequestOf DEF LoadUser, InFlight, SessionsInv, RequestsInPlace, RefreshHasTheToken
<1>2. PICK p \in {"insert", "revoke", "write"} :
         /\ GoOn(h, p) /\ UNCHANGED <<found, revoking, issued>>
         /\ p = "insert" => req[h].op = "login"
         /\ p = "revoke" => req[h].op = "refresh"
         /\ p = "write" => req[h].op \in Ending
  BY <1>1 DEF LoadUser, Issuing, Ending
<1>3. Executes(h, p)
  BY <1>1, <1>2 DEF Executes, SessionsInv, TypeOK
<1>. QED  BY <1>1, <1>2, <1>3, ReadKeeps

LEMMA WriteUserKeeps ==
    ASSUME SessionsInv, NEW h \in Handlers, WriteUser(h)
    PROVE  SessionsInv'
<1>1. pc[h] = "write" /\ h \in InFlight /\ req[h].op \in Ending
  BY DEF WriteUser, InFlight, SessionsInv, RequestsInPlace
<1>2. Executes(h, "find")
  BY <1>1 DEF Executes, WriteUser, SessionsInv, TypeOK
<1>. QED  BY <1>1, <1>2, ReadKeeps DEF WriteUser

LEMMA AllRevokedKeeps ==
    ASSUME SessionsInv, NEW h \in Handlers, AllRevoked(h)
    PROVE  SessionsInv'
<1>1. pc[h] = "revokeAll" /\ h \in InFlight /\ req[h].op \in Ending
  BY DEF AllRevoked, InFlight, SessionsInv, RequestsInPlace
<1>2. Executes(h, "reply")
  BY <1>1 DEF Executes, AllRevoked, SessionsInv, TypeOK
<1>. QED  BY <1>1, <1>2, ReadKeeps DEF AllRevoked

\* Statements of one handler that write.  What they leave to show is about it.
LEMMA WriteKeeps ==
    ASSUME SessionsInv, NEW h \in Handlers, NEW p, Executes(h, p), p # "user",
           pc[h] # "token", InsertedTokensAreNew',
           RequestsInPlace!(h)', RowsInHand!(h)'
    PROVE  SessionsInv'
<1>. USE ExecutesFacts
<1>1. RequestsInPlace'
  <2>. SUFFICES ASSUME NEW g \in InFlight' PROVE RequestsInPlace!(g)'
    BY DEF RequestsInPlace
  <2>. g \in InFlight /\ g \in Handlers
    BY RequestOf
  <2>1. RequestsInPlace!(g)
    BY DEF SessionsInv, RequestsInPlace
  <2>. QED  BY <2>1
<1>2. RowsInHand'
  <2>. SUFFICES ASSUME NEW g \in Handlers, g # h PROVE RowsInHand!(g)'
    BY DEF RowsInHand
  <2>. QED  BY DEF SessionsInv, RowsInHand
<1>3. RefreshHasTheToken'
  BY RequestOf DEF SessionsInv, RefreshHasTheToken
<1>. QED  BY <1>1, <1>2, <1>3, ExecutionKeeps

LEMMA RevokeTokenKeeps ==
    ASSUME SessionsInv, NEW h \in Handlers, RevokeToken(h)
    PROVE  SessionsInv'
<1>. DEFINE t == req[h].token
            p == IF req[h].op = "refresh" THEN "insert" ELSE "reply"
<1>1. /\ pc[h] = "revoke" /\ h \in InFlight
      /\ req[h].op \in {"refresh", "logout"} /\ t \in Tokens
      /\ rows[t] # "none" /\ issuedTo[t] = req[h].device
      /\ found[h] = {}
  BY DEF RevokeToken, InFlight, SessionsInv, RequestsInPlace, RowsInHand, Ending
<1>2. /\ found' = found /\ issued' = issued
      /\ revoking' = [revoking EXCEPT ![h] = {t}] /\ GoOn(h, p)
  BY DEF RevokeToken
<1>3. Executes(h, p) /\ revoking'[h] = {t}
  BY <1>1, <1>2 DEF Executes, SessionsInv, TypeOK
<1>. USE ExecutesFacts
<1>4. InsertedTokensAreNew'
  BY <1>2, <1>3 DEF SessionsInv, InsertedTokensAreNew
<1>5. RequestsInPlace!(h)'
  <2>1. RequestsInPlace!(h)
    BY <1>1 DEF SessionsInv, RequestsInPlace
  <2>. QED  BY <1>1, <1>3, <2>1 DEF Issuing
<1>6. RowsInHand!(h)'
  BY <1>1, <1>2, <1>3, RequestOf
<1>. QED  BY <1>1, <1>3, <1>4, <1>5, <1>6, WriteKeeps

LEMMA InsertTokenKeeps ==
    ASSUME SessionsInv, NEW h \in Handlers, InsertToken(h)
    PROVE  SessionsInv'
<1>1. PICK t \in Fresh : issued' = [issued EXCEPT ![h] = t]
  BY DEF InsertToken
<1>2. /\ pc[h] = "insert" /\ h \in InFlight /\ req[h].op \in Issuing
      /\ t \in Tokens /\ t # None /\ t \notin ended /\ rows[t] = "none"
      /\ \A g \in Handlers : issued[g] # t
      /\ found' = found /\ revoking' = revoking /\ found[h] = {}
  BY DEF InsertToken, InFlight, Fresh, SessionsInv, RequestsInPlace, RowsInHand,
         Issuing, Ending
<1>3. Executes(h, "reply") /\ issued'[h] = t
  BY <1>1, <1>2 DEF Executes, InsertToken, SessionsInv, TypeOK
<1>. USE ExecutesFacts
<1>4. InsertedTokensAreNew'
  BY <1>2, <1>3 DEF SessionsInv, InsertedTokensAreNew
<1>5. RequestsInPlace!(h)'
  <2>1. RequestsInPlace!(h)
    BY <1>2 DEF SessionsInv, RequestsInPlace
  <2>. QED  BY <1>2, <1>3, <2>1
<1>6. RowsInHand!(h)'
  BY <1>2, <1>3 DEF SessionsInv, RowsInHand
<1>. QED  BY <1>2, <1>3, <1>4, <1>5, <1>6, WriteKeeps

LEMMA FindTokensKeeps ==
    ASSUME SessionsInv, NEW h \in Handlers, FindTokens(h)
    PROVE  SessionsInv'
<1>. DEFINE F == {t \in Tokens : rows[t] = "valid" /\ UserOf[issuedTo[t]] = req[h].user}
<1>1. /\ pc[h] = "find" /\ h \in InFlight /\ req[h].op \in Ending
      /\ found' = [found EXCEPT ![h] = F] /\ issued' = issued /\ revoking' = revoking
  BY DEF FindTokens, InFlight, SessionsInv, RequestsInPlace
<1>2. Executes(h, "revokeAll") /\ found'[h] = F
  BY <1>1 DEF Executes, FindTokens, SessionsInv, TypeOK
<1>. USE ExecutesFacts
<1>3. InsertedTokensAreNew'
  <2>1. issued' = issued
    BY <1>1
  <2>. QED  BY <1>2, <2>1 DEF SessionsInv, InsertedTokensAreNew
<1>4. RequestsInPlace!(h)'
  <2>1. RequestsInPlace!(h)
    BY <1>1 DEF SessionsInv, RequestsInPlace
  <2>. QED  BY <1>1, <1>2, <2>1 DEF Ending
<1>5. RowsInHand!(h)'
  BY <1>1, <1>2 DEF SessionsInv, RowsInHand, Ending
<1>. QED  BY <1>1, <1>2, <1>3, <1>4, <1>5, WriteKeeps

LEMMA RevokeNextKeeps ==
    ASSUME SessionsInv, NEW h \in Handlers, RevokeNext(h)
    PROVE  SessionsInv'
<1>1. PICK t \in found[h] :
         IF rows[t] = "valid"
         THEN revoking' = [revoking EXCEPT ![h] = @ \cup {t}] /\ found' = found
         ELSE found' = [found EXCEPT ![h] = @ \ {t}] /\ revoking' = revoking
  BY DEF RevokeNext
<1>2. /\ pc[h] = "revokeAll" /\ h \in InFlight /\ req[h].op \in Ending
      /\ issued' = issued /\ t \in Tokens
  BY DEF RevokeNext, InFlight, SessionsInv, RequestsInPlace, TypeOK
<1>3. /\ found' \in [Handlers -> SUBSET Tokens]
      /\ revoking' \in [Handlers -> SUBSET Tokens]
      /\ found'[h] \cup revoking'[h] \subseteq found[h] \cup revoking[h]
      /\ \A g \in Handlers \ {h} : found'[g] = found[g] /\ revoking'[g] = revoking[g]
  BY <1>1, <1>2 DEF SessionsInv, TypeOK
<1>4. Executes(h, "revokeAll")
  BY <1>2, <1>3 DEF Executes, RevokeNext, SessionsInv, TypeOK
<1>. USE ExecutesFacts
<1>5. InsertedTokensAreNew'
  BY <1>2, <1>4 DEF SessionsInv, InsertedTokensAreNew
<1>6. RequestsInPlace!(h)'
  <2>1. RequestsInPlace!(h)
    BY <1>2 DEF SessionsInv, RequestsInPlace
  <2>. QED  BY <1>2, <1>4, <2>1 DEF Ending
<1>7. RowsInHand!(h)'
  BY <1>2, <1>3, <1>4 DEF SessionsInv, RowsInHand, Ending
<1>. QED  BY <1>2, <1>4, <1>5, <1>6, <1>7, WriteKeeps

-----------------------------------------------------------------------------
(* Requests that leave without a commit, and tokens whose time is over.    *)

\* The handlers in G forget their requests, and the tokens in E are broken or over.
Leaves(G, E) ==
    /\ pc' \in [Handlers -> {"idle", "token", "user", "revoke", "insert",
                             "write", "find", "revokeAll", "reply", "commit"}]
    /\ req' \in [Handlers -> Request \cup {None}]
    /\ found' \in [Handlers -> SUBSET Tokens]
    /\ revoking' \in [Handlers -> SUBSET Tokens]
    /\ issued' \in [Handlers -> Tokens \cup {None}]
    /\ \A g \in G : /\ pc'[g] = "idle" /\ found'[g] = {}
                    /\ revoking'[g] = {} /\ issued'[g] = None
    /\ \A g \in Handlers \ G :
          /\ pc'[g] = pc[g] /\ req'[g] = req[g] /\ found'[g] = found[g]
          /\ revoking'[g] = revoking[g] /\ issued'[g] = issued[g]
    /\ expired' \subseteq Tokens
    /\ ended' = ended \cup E
    /\ UNCHANGED <<deleted, rows, session, issuedTo, cookie>>

LEMMA LeavingKeeps ==
    ASSUME SessionsInv, NEW G \in SUBSET Handlers, NEW E \in SUBSET Tokens, Leaves(G, E),
           \A g \in Handlers \ G : issued[g] \notin E,
           \A g \in G : issued[g] # None /\ pc[g] = "commit" => issued[g] \in E
    PROVE  SessionsInv'
<1>. USE DEF Leaves
<1>1. TypeOK'
  BY DEF SessionsInv, TypeOK
<1>2. InFlight' = InFlight \ G
  BY DEF InFlight
<1>3. \A g \in InFlight' : g \in Handlers \ G /\ g \in InFlight
  BY <1>2 DEF InFlight
<1>4. TokensHaveSessions' /\ SessionHasOneToken'
  BY DEF SessionsInv, TokensHaveSessions, SessionHasOneToken
<1>5. RequestsInPlace'
  <2>. SUFFICES ASSUME NEW g \in InFlight' PROVE RequestsInPlace!(g)'
    BY DEF RequestsInPlace
  <2>1. RequestsInPlace!(g)
    BY <1>3 DEF SessionsInv, RequestsInPlace
  <2>. QED  BY <1>3, <2>1
<1>6. RowsInHand'
  <2>. SUFFICES ASSUME NEW g \in Handlers PROVE RowsInHand!(g)'
    BY DEF RowsInHand
  <2>1. CASE g \in G
    BY <1>2, <2>1
  <2>2. CASE g \notin G
    BY <1>2, <2>2 DEF SessionsInv, RowsInHand
  <2>. QED  BY <2>1, <2>2
<1>7. OneRequestPerDevice'
  BY <1>3 DEF SessionsInv, OneRequestPerDevice
<1>8. InsertedTokensAreNew'
  BY <1>2 DEF SessionsInv, InsertedTokensAreNew
<1>9. \A d \in Devices :
         \/ \E h \in InFlight : /\ pc[h] = "commit" /\ req[h].device = d
                                /\ issued[h] = cookie[d]
         => \/ \E h \in InFlight' : /\ pc'[h] = "commit" /\ req'[h].device = d
                                   /\ issued'[h] = cookie'[d]
            \/ cookie[d] = None
            \/ cookie[d] \in E /\ rows[cookie[d]] = "none"
  BY <1>2, <1>3 DEF SessionsInv, InsertedTokensAreNew, InFlight
<1>10. CookiesBelong'
  BY <1>9 DEF SessionsInv, CookiesBelong
<1>11. CookiesAreGood'
  BY <1>9 DEF SessionsInv, CookiesAreGood, Good
<1>12. RefreshHasTheToken'
  BY <1>3 DEF SessionsInv, RefreshHasTheToken
<1>13. RefreshReplied'
  BY <1>3 DEF SessionsInv, RefreshReplied
<1>. QED
  BY <1>1, <1>4, <1>5, <1>6, <1>7, <1>8, <1>10, <1>11, <1>12, <1>13 DEF SessionsInv

\* What Forget does, in terms of Leaves.
LEMMA ForgetLeaves ==
    ASSUME SessionsInv, NEW h \in Handlers, NEW E \in SUBSET Tokens, Forget(h),
           ended' = ended \cup E, UNCHANGED <<deleted, rows, session, issuedTo, expired, cookie>>
    PROVE  Leaves({h}, E)
BY DEF Leaves, Forget, SessionsInv, TypeOK

LEMMA RefusalKeeps ==
    ASSUME SessionsInv, NEW h \in Handlers, Refuse(h), pc[h] # "commit"
    PROVE  SessionsInv'
<1>1. Leaves({h}, {})
  BY ForgetLeaves DEF Refuse, table
<1>. QED  BY <1>1, LeavingKeeps

\* What is broken when h fails to commit: tokens, and not those that others insert.
LEMMA BrokenTokens ==
    ASSUME SessionsInv, NEW h \in Handlers, pc[h] = "commit", req[h].op \in Issuing
    PROVE  /\ h \in InFlight
           /\ issued[h] \in Tokens /\ SessionOf(h) \in Tokens
           /\ \A g \in Handlers \ {h} : issued[g] # issued[h] /\ issued[g] # SessionOf(h)
<1>1. h \in InFlight /\ issued[h] \in Tokens
  BY DEF InFlight, SessionsInv, RequestsInPlace, TypeOK
<1>2. \A g \in Handlers \ {h} : issued[g] # issued[h]
  BY <1>1 DEF SessionsInv, InsertedTokensAreNew
<1>3. CASE req[h].op = "login"
  BY <1>1, <1>2, <1>3 DEF SessionOf
<1>4. CASE req[h].op = "refresh"
  <2>1. req[h].token \in Tokens /\ rows[req[h].token] # "none"
    BY <1>1, <1>4 DEF SessionsInv, RequestsInPlace, RefreshHasTheToken
  <2>2. SessionOf(h) \in Tokens /\ rows[SessionOf(h)] # "none"
    BY <1>4, <2>1 DEF SessionOf, SessionsInv, TokensHaveSessions
  <2>3. \A g \in Handlers : issued[g] # SessionOf(h)
    BY <2>2 DEF SessionsInv, InsertedTokensAreNew
  <2>. QED  BY <1>1, <1>2, <2>2, <2>3
<1>. QED  BY <1>3, <1>4 DEF Issuing

LEMMA CommitFailsKeeps ==
    ASSUME SessionsInv, NEW h \in Handlers, CommitFails(h)
    PROVE  SessionsInv'
<1>. DEFINE E == Broken({h})
<1>1. E \in SUBSET Tokens
  BY BrokenTokens DEF Broken
<1>2. Leaves({h}, E)
  <2>. HIDE DEF E
  <2>1. ended' = ended \cup E
    BY DEF CommitFails, E
  <2>. QED  BY <1>1, <2>1, ForgetLeaves DEF CommitFails
<1>3. \A g \in Handlers \ {h} : issued[g] \notin E
  BY BrokenTokens DEF Broken
<1>4. issued[h] # None => issued[h] \in E
  BY DEF Broken, CommitFails, SessionsInv, InsertedTokensAreNew
<1>. QED  BY <1>1, <1>2, <1>3, <1>4, LeavingKeeps

LEMMA ProcessDiesKeeps ==
    ASSUME SessionsInv, ProcessDies
    PROVE  SessionsInv'
<1>. DEFINE E == Broken(Handlers)
<1>1. E \in SUBSET Tokens
  BY BrokenTokens DEF Broken
<1>2. Leaves(Handlers, E)
  BY DEF Leaves, ProcessDies, SessionsInv, TypeOK
<1>3. \A g \in Handlers : issued[g] # None /\ pc[g] = "commit" => issued[g] \in E
  BY DEF Broken, SessionsInv, InsertedTokensAreNew
<1>. QED  BY <1>1, <1>2, <1>3, LeavingKeeps

LEMMA ExpireKeeps ==
    ASSUME SessionsInv, NEW t \in Tokens, Expire(t)
    PROVE  SessionsInv'
<1>1. session[t] \in Tokens /\ rows[session[t]] # "none"
  BY DEF Expire, SessionsInv, TokensHaveSessions
<1>2. Leaves({}, {session[t]})
  BY DEF Leaves, Expire, SessionsInv, TypeOK, memory
<1>3. \A g \in Handlers : issued[g] # session[t]
  BY <1>1 DEF SessionsInv, InsertedTokensAreNew
<1>. QED  BY <1>1, <1>2, <1>3, LeavingKeeps

-----------------------------------------------------------------------------
(* The reply and the commit.                                               *)

LEMMA ReplyKeeps ==
    ASSUME SessionsInv, NEW h \in Handlers, Reply(h)
    PROVE  SessionsInv'
<1>. DEFINE d == req[h].device
<1>1. /\ pc[h] = "reply" /\ h \in InFlight
      /\ pc' = [pc EXCEPT ![h] = "commit"] /\ pc'[h] = "commit"
      /\ \A g \in Handlers \ {h} : pc'[g] = pc[g]
      /\ InFlight' = InFlight
      /\ UNCHANGED <<deleted, rows, session, issuedTo, expired,
                     req, found, revoking, issued>>
  BY DEF Reply, memory, InFlight, SessionsInv, TypeOK
<1>2. \/ /\ req[h].op \in Issuing /\ ended' = ended
         /\ cookie' = [cookie EXCEPT ![d] = issued[h]]
      \/ /\ req[h].op = "logout" /\ ended' = ended
         /\ cookie' = [cookie EXCEPT ![d] = None]
      \/ /\ req[h].op \in Ending /\ ended' = ended /\ cookie' = cookie
      \/ /\ req[h].op = "refresh" /\ ended' = ended \cup {SessionOf(h)}
         /\ cookie' = cookie
      \/ /\ req[h].op # "refresh" /\ ended' = ended /\ cookie' = cookie
  <2>1. req[h].op \in Issuing \cup Ending \cup {"logout"}
    BY <1>1, RequestOf
  <2>. QED  BY <2>1 DEF Reply, Issuing, Ending
<1>3. /\ req[h].op \in Issuing \cup {"logout"} => d \in Devices
      /\ \A g \in InFlight \ {h} : d \in Devices => req[g].device # d
      /\ req[h].op \in Issuing => issued[h] \in Tokens
  <2>1. req[h].op \in Issuing \cup {"logout"} => d \in Devices
    BY <1>1, RequestOf DEF Issuing
  <2>2. \A g \in InFlight \ {h} : d \in Devices => req[g].device # d
    BY <1>1 DEF SessionsInv, OneRequestPerDevice
  <2>3. req[h].op \in Issuing => issued[h] \in Tokens
    BY <1>1 DEF SessionsInv, TypeOK, RequestsInPlace
  <2>. QED  BY <2>1, <2>2, <2>3
<1>4. /\ req[h].op = "refresh" =>
            /\ req[h].token \in Tokens /\ rows[req[h].token] # "none"
            /\ SessionOf(h) = session[req[h].token]
            /\ SessionOf(h) \in Tokens /\ rows[SessionOf(h)] # "none"
  <2>. SUFFICES ASSUME req[h].op = "refresh"
                PROVE  /\ req[h].token \in Tokens /\ rows[req[h].token] # "none"
                       /\ SessionOf(h) = session[req[h].token]
                       /\ SessionOf(h) \in Tokens /\ rows[SessionOf(h)] # "none"
    OBVIOUS
  <2>1. req[h].token \in Tokens /\ rows[req[h].token] # "none"
    BY <1>1 DEF SessionsInv, RequestsInPlace, RefreshHasTheToken
  <2>2. SessionOf(h) = session[req[h].token]
    BY DEF SessionOf
  <2>. QED  BY <2>1, <2>2 DEF SessionsInv, TokensHaveSessions
<1>5. /\ ended \subseteq ended' /\ ended' \subseteq Tokens
      /\ \A t \in ended' \ ended : rows[t] # "none"
  BY <1>2, <1>4 DEF SessionsInv, TypeOK
<1>6. /\ cookie' \in [Devices -> Tokens \cup {None}]
      /\ \A e \in Devices : e # d => cookie'[e] = cookie[e]
      /\ cookie'[d] = cookie[d] \/ cookie'[d] = None
         \/ (cookie'[d] = issued[h] /\ req[h].op \in Issuing)
      /\ d \notin Devices => cookie' = cookie
  <2>1. cookie \in [Devices -> Tokens \cup {None}]
    BY DEF SessionsInv, TypeOK
  <2>2. d \in Devices \/ cookie' = cookie
    BY <1>2, <1>3 DEF Issuing
  <2>. QED  BY <1>2, <1>3, <2>1, <2>2
<1>7. TypeOK'
  BY <1>1, <1>5, <1>6 DEF SessionsInv, TypeOK
<1>8. TokensHaveSessions' /\ SessionHasOneToken'
  BY <1>1 DEF SessionsInv, TokensHaveSessions, SessionHasOneToken
<1>9. RequestsInPlace'
  <2>. SUFFICES ASSUME NEW g \in InFlight' PROVE RequestsInPlace!(g)'
    BY DEF RequestsInPlace
  <2>. g \in InFlight /\ g \in Handlers
    BY <1>1, RequestOf
  <2>1. RequestsInPlace!(g)
    BY DEF SessionsInv, RequestsInPlace
  <2>2. CASE g = h
    BY <1>1, <2>1, <2>2
  <2>3. CASE g # h
    BY <1>1, <2>1, <2>3
  <2>. QED  BY <2>2, <2>3
<1>10. RowsInHand'
  BY <1>1, <1>5 DEF SessionsInv, RowsInHand
<1>11. OneRequestPerDevice' /\ RefreshHasTheToken'
  <2>1. OneRequestPerDevice'
    BY <1>1 DEF SessionsInv, OneRequestPerDevice
  <2>2. RefreshHasTheToken'
    BY <1>1, RequestOf DEF SessionsInv, RefreshHasTheToken
  <2>. QED  BY <2>1, <2>2
<1>12. InsertedTokensAreNew'
  BY <1>1, <1>5 DEF SessionsInv, InsertedTokensAreNew
<1>13. \A e \in Devices :
          (\E g \in InFlight : /\ pc[g] = "commit" /\ req[g].device = e
                                /\ issued[g] = cookie[e])
          => e # d
  BY <1>1, <1>3
<1>14. CookiesBelong'
  <2>. SUFFICES ASSUME NEW e \in Devices, cookie'[e] # None
                PROVE  CookiesBelong!(e)!2'
    BY DEF CookiesBelong
  <2>1. CASE cookie'[e] = cookie[e]
    BY <1>1, <1>5, <1>13, <2>1, RequestOf DEF SessionsInv, CookiesBelong
  <2>2. CASE cookie'[e] # cookie[e]
    BY <1>1, <1>6, <2>2
  <2>. QED  BY <2>1, <2>2
<1>15. CookiesAreGood'
  <2>. SUFFICES ASSUME NEW e \in Devices, cookie'[e] # None
                PROVE  CookiesAreGood!(e)!2'
    BY DEF CookiesAreGood
  <2>1. CASE cookie'[e] = cookie[e]
    BY <1>1, <1>5, <1>13, <2>1, RequestOf DEF SessionsInv, CookiesAreGood, Good
  <2>2. CASE cookie'[e] # cookie[e]
    BY <1>1, <1>6, <2>2
  <2>. QED  BY <2>1, <2>2
<1>16. RefreshReplied'
  <2>. SUFFICES ASSUME NEW g \in InFlight, pc'[g] = "commit", req[g].op = "refresh",
                       cookie'[req[g].device] = req[g].token
                PROVE  session[req[g].token] \in ended'
    BY <1>1 DEF RefreshReplied
  <2>1. CASE g = h
    <3>1. issued[h] # req[h].token
      BY <1>3, <1>4, <2>1 DEF SessionsInv, InsertedTokensAreNew, Issuing
    <3>2. cookie'[d] # issued[h]
      BY <2>1, <3>1
    <3>. QED  BY <1>2, <1>3, <1>4, <2>1, <3>2 DEF SessionsInv, TypeOK, Issuing, Ending
  <2>2. CASE g # h
    BY <1>1, <1>3, <1>5, <1>6, <2>2, RequestOf DEF SessionsInv, RefreshReplied
  <2>. QED  BY <2>1, <2>2
<1>. QED
  BY <1>7, <1>8, <1>9, <1>10, <1>11, <1>12, <1>14, <1>15, <1>16 DEF SessionsInv

LEMMA CommitKeeps ==
    ASSUME SessionsInv, NEW h \in Handlers, Commit(h)
    PROVE  SessionsInv'
<1>. DEFINE new == issued[h]  old == revoking[h]  d == req[h].device  s == SessionOf(h)
\* The step, and what the invariant says of h.
<1>1. /\ pc[h] = "commit" /\ h \in InFlight
      /\ \A t \in Tokens :
            /\ rows'[t] = IF t = new THEN "valid"
                         ELSE IF t \in old THEN "revoked" ELSE rows[t]
            /\ session'[t] = IF t = new THEN s ELSE session[t]
            /\ issuedTo'[t] = IF t = new THEN d ELSE issuedTo[t]
      /\ deleted' \subseteq Users
      /\ ended' = ended \cup Ends(h)
      /\ cookie' = cookie /\ expired' = expired
  BY RequestOf DEF Commit, InFlight, SessionsInv, TypeOK
<1>2. /\ pc'[h] = "idle" /\ found'[h] = {} /\ revoking'[h] = {} /\ issued'[h] = None
      /\ \A g \in Handlers \ {h} :
            /\ pc'[g] = pc[g] /\ req'[g] = req[g] /\ found'[g] = found[g]
            /\ revoking'[g] = revoking[g] /\ issued'[g] = issued[g]
      /\ InFlight' = InFlight \ {h}
      /\ \A g \in InFlight' : g \in InFlight /\ g \in Handlers \ {h}
  BY DEF Commit, Forget, InFlight, SessionsInv, TypeOK
<1>3. /\ req[h].op \in Issuing => new \in Tokens
      /\ req[h].op \notin Issuing => new = None
      /\ new \in Tokens => rows[new] = "none" /\ new \notin ended
      /\ \A g \in Handlers \ {h} : new # None => issued[g] # new
  BY <1>1 DEF SessionsInv, TypeOK, RequestsInPlace, InsertedTokensAreNew
<1>4. /\ old \subseteq Tokens
      /\ \A t \in old : rows[t] # "none" /\ UserOf[issuedTo[t]] = req[h].user
  BY DEF SessionsInv, TypeOK, RowsInHand
<1>5. req[h].op = "refresh" =>
         /\ req[h].token \in Tokens /\ old = {req[h].token}
         /\ rows[req[h].token] # "none" /\ issuedTo[req[h].token] = d
         /\ s = session[req[h].token] /\ s \in Tokens /\ rows[s] # "none"
         /\ \A t \in Tokens : rows[t] = "valid" /\ session[t] = s => t \in old
  <2>. SUFFICES ASSUME req[h].op = "refresh"
                PROVE  /\ req[h].token \in Tokens /\ old = {req[h].token}
                       /\ rows[req[h].token] # "none" /\ issuedTo[req[h].token] = d
                       /\ s = session[req[h].token] /\ s \in Tokens /\ rows[s] # "none"
                       /\ \A t \in Tokens :
                             rows[t] = "valid" /\ session[t] = s => t \in old
    OBVIOUS
  <2>1. req[h].token \in Tokens /\ old = {req[h].token}
    BY <1>1 DEF SessionsInv, RequestsInPlace
  <2>2. rows[req[h].token] # "none" /\ issuedTo[req[h].token] = d
    BY <1>1 DEF SessionsInv, RefreshHasTheToken
  <2>3. s = session[req[h].token]
    BY DEF SessionOf
  <2>4. s \in Tokens /\ rows[s] # "none"
    BY <2>1, <2>2, <2>3 DEF SessionsInv, TokensHaveSessions
  <2>5. \A t \in Tokens : rows[t] = "valid" /\ session[t] = s => t \in old
    BY <1>1, <2>1, <2>3 DEF SessionsInv, RefreshHasTheToken
  <2>. QED  BY <2>1, <2>2, <2>3, <2>4, <2>5
<1>6. req[h].op = "login" => s = new /\ old = {}
  BY <1>1 DEF SessionOf, SessionsInv, RequestsInPlace
<1>7. req[h].op \in Issuing => d \in Devices
  BY <1>1, RequestOf DEF Issuing
<1>8. /\ Ends(h) \subseteq Tokens
      /\ \A t \in Ends(h) : rows[t] # "none"
      /\ req[h].op \notin Issuing => \A t \in old : session[t] \in Ends(h)
  BY <1>4 DEF Ends, SessionsInv, TokensHaveSessions
<1>9. \A t \in Tokens :
         /\ rows[t] # "none" => rows'[t] # "none" /\ t # new
         /\ rows'[t] # "none" => t = new \/ rows[t] # "none"
         /\ rows'[t] = "valid" => t = new \/ (rows[t] = "valid" /\ t \notin old)
  BY <1>1, <1>3, <1>4
<1>. HIDE DEF new, old, d, s
\* The table.
<1>10. TypeOK'
  <2>1. s \in Tokens \cup {None} \/ new = None
    BY <1>3, <1>5, <1>6 DEF Issuing
  <2>2. /\ rows' \in [Tokens -> {"none", "valid", "revoked"}]
        /\ session' \in [Tokens -> Tokens \cup {None}]
        /\ issuedTo' \in [Tokens -> Devices \cup {None}]
    <3>1. d \in Devices \cup {None}
      BY <1>1, RequestOf DEF d
    <3>2. new \in Tokens => s \in Tokens \cup {None}
      BY <2>1
    <3>. QED  BY <3>1, <3>2 DEF Commit, SessionsInv, TypeOK, new, d, s
  <2>3. /\ pc' \in [Handlers -> {"idle", "token", "user", "revoke", "insert",
                                 "write", "find", "revokeAll", "reply", "commit"}]
        /\ req' \in [Handlers -> Request \cup {None}]
        /\ found' \in [Handlers -> SUBSET Tokens]
        /\ revoking' \in [Handlers -> SUBSET Tokens]
        /\ issued' \in [Handlers -> Tokens \cup {None}]
    BY DEF Commit, Forget, SessionsInv, TypeOK
  <2>. QED  BY <1>1, <1>8, <2>2, <2>3 DEF SessionsInv, TypeOK
<1>11. new \in Tokens => s \in Tokens /\ rows'[s] # "none" /\ d \in Devices
  BY <1>1, <1>3, <1>5, <1>6, <1>7, <1>9 DEF Issuing
\* A token of the session of the new one has the same device.
<1>12. \A t \in Tokens : new \in Tokens /\ rows[t] # "none" /\ session[t] = s
                         => issuedTo[t] = d /\ req[h].op = "refresh"
  <2>. SUFFICES ASSUME NEW t \in Tokens, new \in Tokens, rows[t] # "none", session[t] = s
                PROVE  issuedTo[t] = d /\ req[h].op = "refresh"
    OBVIOUS
  <2>1. rows[s] # "none"
    BY DEF SessionsInv, TokensHaveSessions
  <2>2. req[h].op = "refresh"
    BY <1>3, <1>6, <2>1 DEF Issuing
  <2>. QED  BY <1>5, <2>2 DEF SessionsInv, TokensHaveSessions
<1>13. TokensHaveSessions'
  <2>1. \A t \in Tokens : rows'[t] # "none" =>
           /\ session'[t] \in Tokens /\ rows'[session'[t]] # "none"
           /\ issuedTo'[t] \in Devices
    BY <1>1, <1>9, <1>11 DEF SessionsInv, TokensHaveSessions
  <2>2. \A t, r \in Tokens :
           rows'[t] # "none" /\ rows'[r] # "none" /\ session'[t] = session'[r]
           => issuedTo'[t] = issuedTo'[r]
    BY <1>1, <1>9, <1>12 DEF SessionsInv, TokensHaveSessions
  <2>. QED  BY <2>1, <2>2 DEF TokensHaveSessions
<1>14. SessionHasOneToken'
  BY <1>1, <1>5, <1>9, <1>12 DEF SessionsInv, SessionHasOneToken
\* The requests that are still in flight.
<1>15. RequestsInPlace'
  <2>. SUFFICES ASSUME NEW g \in InFlight' PROVE RequestsInPlace!(g)'
    BY DEF RequestsInPlace
  <2>1. RequestsInPlace!(g)
    BY <1>2 DEF SessionsInv, RequestsInPlace
  <2>. QED  BY <1>2, <2>1
<1>16. RowsInHand'
  <2>. SUFFICES ASSUME NEW g \in Handlers PROVE RowsInHand!(g)'
    BY DEF RowsInHand
  <2>1. CASE g = h
    BY <1>2, <2>1
  <2>2. CASE g # h
    <3>1. RowsInHand!(g) /\ found[g] \subseteq Tokens /\ revoking[g] \subseteq Tokens
      BY DEF SessionsInv, RowsInHand, TypeOK
    <3>2. /\ \A t \in found'[g] \cup revoking'[g] :
                rows'[t] # "none" /\ UserOf[issuedTo'[t]] = req'[g].user
          /\ revoking'[g] # {} => g \in InFlight'
          /\ found'[g] # {} => g \in InFlight' /\ req'[g].op \in Ending
          /\ pc'[g] \in {"reply", "commit"} => found'[g] \subseteq revoking'[g]
      BY <1>1, <1>2, <1>9, <2>2, <3>1
    <3>3. ASSUME g \in InFlight', req'[g].op \in {"refresh", "logout"}
          PROVE  /\ rows'[req'[g].token] = "none" =>
                       req'[g].token \in ended' /\ revoking'[g] = {}
                 /\ rows'[req'[g].token] # "none" =>
                       issuedTo'[req'[g].token] = req'[g].device
                 /\ pc'[g] = "revoke" => rows'[req'[g].token] # "none"
      <4>1. req'[g].token = req[g].token /\ req[g].token \in Tokens
        BY <1>2, <3>3 DEF SessionsInv, RequestsInPlace
      <4>. QED  BY <1>1, <1>2, <1>3, <1>9, <2>2, <3>1, <3>3, <4>1
    <3>. QED  BY <3>2, <3>3
  <2>. QED  BY <2>1, <2>2
<1>17. OneRequestPerDevice'
  BY <1>2 DEF SessionsInv, OneRequestPerDevice
<1>18. InsertedTokensAreNew'
  <2>. SUFFICES ASSUME NEW g \in Handlers, issued'[g] # None
                PROVE  InsertedTokensAreNew!(g)!2'
    BY DEF InsertedTokensAreNew
  <2>1. g # h /\ issued[g] # None /\ issued[g] \in Tokens /\ issued[g] # new
    BY <1>2, <1>3 DEF SessionsInv, TypeOK
  <2>2. InsertedTokensAreNew!(g)!2
    BY <2>1 DEF SessionsInv, InsertedTokensAreNew
  <2>. QED  BY <1>1, <1>2, <1>8, <1>9, <2>1, <2>2
<1>19. RefreshHasTheToken'
  <2>. SUFFICES ASSUME NEW g \in InFlight', req'[g].op = "refresh", pc'[g] # "token"
                PROVE  RefreshHasTheToken!(g)!2'
    BY DEF RefreshHasTheToken
  <2>. DEFINE r == req[g].token
  <2>1. /\ g \in InFlight /\ g # h /\ req'[g] = req[g] /\ r \in Tokens
        /\ rows[r] # "none" /\ issuedTo[r] = req[g].device
        /\ \A t \in Tokens : rows[t] = "valid" /\ session[t] = session[r] => t = r
    BY <1>2 DEF SessionsInv, RefreshHasTheToken, RequestsInPlace
  <2>2. req[g].device # d \/ d \notin Devices
    BY <1>1, <2>1 DEF SessionsInv, OneRequestPerDevice, d
  <2>3. new \in Tokens => session[r] # s
    BY <1>11, <1>12, <2>1, <2>2
  <2>4. rows'[r] # "none" /\ issuedTo'[r] = req[g].device /\ session'[r] = session[r]
    BY <1>1, <1>9, <2>1
  <2>5. \A t \in Tokens : rows'[t] = "valid" /\ session'[t] = session'[r] => t = r
    BY <1>1, <1>9, <2>1, <2>3, <2>4
  <2>. QED  BY <2>1, <2>4, <2>5
\* The cookies.
<1>20. ASSUME NEW e \in Devices, cookie[e] # None
       PROVE  /\ CookiesBelong!(e)!2' /\ CookiesAreGood!(e)!2'
  <2>. DEFINE c == cookie[e]
  <2>1. c \in Tokens
    BY <1>20 DEF SessionsInv, TypeOK
  <2>2. CASE c = new
    <3>1. rows'[c] = "valid" /\ issuedTo'[c] = d
      BY <1>1, <2>1, <2>2
    <3>2. e = d
      <4>1. rows[c] = "none" /\ c \notin ended
        BY <1>3, <2>1, <2>2
      <4>2. PICK g \in InFlight : req[g].device = e /\ issued[g] = c
        BY <1>20, <4>1 DEF SessionsInv, CookiesBelong
      <4>. QED  BY <1>3, <2>1, <2>2, <4>2, RequestOf DEF d
    <3>. QED  BY <1>1, <3>1, <3>2 DEF Good
  <2>3. CASE c # new /\ \E g \in InFlight : /\ pc[g] = "commit" /\ req[g].device = e
                                          /\ issued[g] = c
    <3>1. PICK g \in InFlight : pc[g] = "commit" /\ req[g].device = e /\ issued[g] = c
      BY <2>3
    <3>2. g # h
      BY <2>3, <3>1 DEF new
    <3>. QED  BY <1>1, <1>2, <3>1, <3>2, RequestOf
  <2>4. CASE c # new /\ ~ \E g \in InFlight : /\ pc[g] = "commit" /\ req[g].device = e
                                            /\ issued[g] = c
    <3>1. /\ \/ rows[c] # "none" /\ issuedTo[c] = e
             \/ rows[c] = "none" /\ c \in ended
          /\ Good(c)
      BY <1>20, <2>4 DEF SessionsInv, CookiesBelong, CookiesAreGood
    <3>2. \/ rows'[c] # "none" /\ issuedTo'[c] = e
          \/ rows'[c] = "none" /\ c \in ended'
      BY <1>1, <1>9, <2>1, <2>4, <3>1
    <3>3. Good(c)'
      <4>1. CASE c \notin old
        BY <1>1, <2>1, <2>4, <3>1, <4>1 DEF Good
      <4>2. CASE c \in old /\ req[h].op \notin Issuing
        BY <1>1, <1>8, <2>1, <2>4, <4>2 DEF Good, old
      <4>3. CASE c \in old /\ req[h].op \in Issuing
        <5>1. req[h].op = "refresh" /\ c = req[h].token /\ e = d
          BY <1>5, <1>6, <3>1, <4>3 DEF Issuing
        <5>2. session[c] \in ended
          BY <1>1, <5>1 DEF SessionsInv, RefreshReplied, d
        <5>. QED  BY <1>1, <2>1, <2>4, <5>2 DEF Good
      <4>. QED  BY <4>1, <4>2, <4>3
    <3>. QED  BY <1>1, <3>2, <3>3
  <2>. QED  BY <2>2, <2>3, <2>4
<1>21. CookiesBelong' /\ CookiesAreGood'
  BY <1>1, <1>20 DEF CookiesBelong, CookiesAreGood
<1>22. RefreshReplied'
  <2>. SUFFICES ASSUME NEW g \in InFlight', pc'[g] = "commit", req'[g].op = "refresh",
                       cookie'[req'[g].device] = req'[g].token
                PROVE  session'[req'[g].token] \in ended'
    BY DEF RefreshReplied
  <2>1. /\ g \in InFlight /\ req'[g] = req[g] /\ pc[g] = "commit"
        /\ req[g].token \in Tokens /\ rows[req[g].token] # "none"
    BY <1>2 DEF SessionsInv, RequestsInPlace, RefreshHasTheToken
  <2>2. session[req[g].token] \in ended
    BY <1>1, <2>1 DEF SessionsInv, RefreshReplied
  <2>. QED  BY <1>1, <1>9, <2>1, <2>2
<1>. QED
  BY <1>10, <1>13, <1>14, <1>15, <1>16, <1>17, <1>18, <1>19, <1>21, <1>22 DEF SessionsInv

-----------------------------------------------------------------------------
(* The theorems.                                                           *)

LEMMA StepKeeps ==
    ASSUME DeviceWaits, SessionsInv, Next
    PROVE  SessionsInv'
<1>1. ASSUME NEW h \in Handlers, NEW d \in Devices,
             NEW op \in Issuing \cup Ending \cup {"logout"}, StartFromDevice(h, d, op)
      PROVE  SessionsInv'
  BY <1>1, StartFromDeviceKeeps
<1>2. ASSUME NEW h \in Handlers, NEW u \in Users, StartBan(h, u)
      PROVE  SessionsInv'
  BY <1>2, StartBanKeeps
<1>3. ASSUME NEW h \in Handlers, Handler(h)
      PROVE  SessionsInv'
  <2>1. CASE LoadToken(h)
    <3>1. CASE Refuse(h)
      BY <2>1, <3>1, RefusalKeeps DEF LoadToken
    <3>. QED  BY <2>1, <3>1, <1>3, LoadTokenKeeps
  <2>2. CASE LoadUser(h)
    BY <2>2, <1>3, LoadUserKeeps
  <2>3. CASE UserRefused(h)
    BY <2>3, <1>3, RefusalKeeps DEF UserRefused
  <2>4. CASE RevokeToken(h)
    BY <2>4, <1>3, RevokeTokenKeeps
  <2>5. CASE InsertToken(h)
    BY <2>5, <1>3, InsertTokenKeeps
  <2>6. CASE WriteUser(h)
    BY <2>6, <1>3, WriteUserKeeps
  <2>7. CASE FindTokens(h)
    BY <2>7, <1>3, FindTokensKeeps
  <2>8. CASE RevokeNext(h)
    BY <2>8, <1>3, RevokeNextKeeps
  <2>9. CASE AllRevoked(h)
    BY <2>9, <1>3, AllRevokedKeeps
  <2>10. CASE Reply(h)
    BY <2>10, <1>3, ReplyKeeps
  <2>11. CASE Commit(h)
    BY <2>11, <1>3, CommitKeeps
  <2>. QED
    BY <1>3, <2>1, <2>2, <2>3, <2>4, <2>5, <2>6, <2>7, <2>8, <2>9, <2>10, <2>11
    DEF Handler
<1>4. ASSUME NEW h \in Handlers, CommitFails(h)
      PROVE  SessionsInv'
  BY <1>4, CommitFailsKeeps
<1>5. ASSUME NEW h \in Handlers, StatementFails(h)
      PROVE  SessionsInv'
  BY <1>5, RefusalKeeps DEF StatementFails
<1>6. CASE ProcessDies
  BY <1>6, ProcessDiesKeeps
<1>7. ASSUME NEW t \in Tokens, Expire(t)
      PROVE  SessionsInv'
  BY <1>7, ExpireKeeps
<1>. QED  BY <1>1, <1>2, <1>3, <1>4, <1>5, <1>6, <1>7 DEF Next

LEMMA StutteringKeeps ==
    ASSUME SessionsInv, UNCHANGED vars
    PROVE  SessionsInv'
BY DEF SessionsInv, vars, table, memory, TypeOK, TokensHaveSessions, RequestsInPlace,
       RowsInHand, OneRequestPerDevice, InsertedTokensAreNew, CookiesBelong,
       RefreshHasTheToken, SessionHasOneToken, CookiesAreGood, Good, RefreshReplied,
       InFlight

\* The inductive invariant, of devices that wait.
THEOREM SessionsInvariant ==
    ASSUME DeviceWaits
    PROVE  Spec => []SessionsInv
<1>1. SessionsInv /\ [Next]_vars => SessionsInv'
  BY StepKeeps, StutteringKeeps
<1>. QED  BY <1>1, InitSessionsInv, PTL DEF Spec

\* Rotation leaves one good token to a session, whatever runs beside it: refreshes
\* of other devices, revoke_all_user_tokens, and whatever fails.
THEOREM OneTokenPerSession ==
    ASSUME DeviceWaits
    PROVE  Spec => []SessionHasOneToken
<1>1. SessionsInv => SessionHasOneToken
  BY DEF SessionsInv
<1>. QED  BY <1>1, SessionsInvariant, PTL

\* A device that waits keeps a good token, unless there is a reason.
THEOREM DevicesStayLoggedIn ==
    ASSUME DeviceWaits
    PROVE  Spec => []SessionsAreKept
<1>1. SessionsInv => SessionsAreKept
  BY RequestOf DEF SessionsInv, CookiesAreGood, SessionsAreKept
<1>. QED  BY <1>1, SessionsInvariant, PTL

-----------------------------------------------------------------------------
(* What does not depend on the devices.  First, the steps of a request     *)
(* that its place allows.                                                  *)

\* How a request gets past its checks: none of the other steps takes it there.
LEMMA PastTheChecks ==
    ASSUME LocksInv, Next, NEW g \in Handlers,
           pc'[g] \notin {"idle", "token", "user"}
    PROVE  /\ pc[g] # "idle" /\ req'[g] = req[g]
           /\ \/ pc[g] \notin {"token", "user"}
              \/ pc[g] = "user" /\ req[g].user \notin deleted
              \/ pc[g] = "token" /\ req[g].op = "logout"
<1>. USE DEF LocksInv, TypeOK
<1>1. ASSUME NEW h \in Handlers, NEW d \in Devices,
             NEW op \in Issuing \cup Ending \cup {"logout"}, StartFromDevice(h, d, op)
      PROVE  pc'[g] = pc[g] /\ req'[g] = req[g]
  BY <1>1 DEF StartFromDevice
<1>2. ASSUME NEW h \in Handlers, NEW u \in Users, StartBan(h, u)
      PROVE  pc'[g] = pc[g] /\ req'[g] = req[g]
  BY <1>2 DEF StartBan
<1>3. ASSUME NEW h \in Handlers, LoadToken(h)
      PROVE  \/ pc'[g] = pc[g] /\ req'[g] = req[g]
             \/ g = h /\ pc[g] = "token" /\ req'[g] = req[g] /\ req[g].op = "logout"
  <2>1. h \in InFlight /\ pc[h] = "token" /\ req[h].op \in {"refresh", "logout"}
    BY <1>3 DEF LoadToken, InFlight
  <2>2. CASE req[h].op = "refresh"
    <3>1. GoOn(h, "user") \/ Refuse(h)
      BY <1>3, <2>2 DEF LoadToken
    <3>. QED  BY <3>1 DEF GoOn, Refuse, Forget
  <2>3. CASE req[h].op = "logout"
    <3>1. GoOn(h, IF rows[req[h].token] = "valid" THEN "revoke" ELSE "reply")
      BY <1>3, <2>3 DEF LoadToken
    <3>. QED  BY <2>1, <2>3, <3>1 DEF GoOn
  <2>. QED  BY <2>1, <2>2, <2>3
<1>4. ASSUME NEW h \in Handlers, LoadUser(h)
      PROVE  \/ pc'[g] = pc[g] /\ req'[g] = req[g]
             \/ g = h /\ pc[g] = "user" /\ req'[g] = req[g] /\ req[g].user \notin deleted
  BY <1>4 DEF LoadUser, GoOn
<1>5. ASSUME NEW h \in Handlers, NEW p, GoOn(h, p), pc[h] \notin {"idle", "token", "user"}
      PROVE  \/ pc'[g] = pc[g] /\ req'[g] = req[g]
             \/ g = h /\ pc[g] \notin {"idle", "token", "user"} /\ req'[g] = req[g]
  BY <1>5 DEF GoOn
<1>6. ASSUME NEW h \in Handlers,
             \/ RevokeToken(h) \/ InsertToken(h) \/ WriteUser(h)
             \/ FindTokens(h) \/ RevokeNext(h) \/ AllRevoked(h)
      PROVE  \E p : GoOn(h, p) /\ pc[h] \notin {"idle", "token", "user"}
  BY <1>6 DEF RevokeToken, InsertToken, WriteUser, FindTokens, RevokeNext, AllRevoked
<1>7. ASSUME NEW h \in Handlers, Reply(h)
      PROVE  \/ pc'[g] = pc[g] /\ req'[g] = req[g]
             \/ g = h /\ pc[g] = "reply" /\ req'[g] = req[g]
  BY <1>7 DEF Reply, memory
<1>8. ASSUME NEW h \in Handlers,
             UserRefused(h) \/ Commit(h) \/ CommitFails(h) \/ StatementFails(h)
      PROVE  pc'[g] = pc[g] /\ req'[g] = req[g]
  BY <1>8 DEF UserRefused, Commit, CommitFails, StatementFails, Refuse, Forget
<1>9. CASE ProcessDies
  BY <1>9 DEF ProcessDies
<1>10. ASSUME NEW t \in Tokens, Expire(t)
       PROVE  pc'[g] = pc[g] /\ req'[g] = req[g]
  BY <1>10 DEF Expire, memory
<1>. HIDE DEF LocksInv, TypeOK
<1>. QED
  BY <1>1, <1>2, <1>3, <1>4, <1>5, <1>6, <1>7, <1>8, <1>9, <1>10 DEF Next, Handler

\* What a step does to the locks of a handler: those it has are kept or released,
\* except for the statements that take one.
LEMMA LocksOf ==
    ASSUME LocksInv, Next, NEW g \in Handlers
    PROVE  /\ \A u \in Users : HoldsUser(g, u)' =>
                 HoldsUser(g, u) \/ (WriteUser(g) /\ req[g].user = u)
           /\ revoking'[g] # {} => pc'[g] \in {"insert", "revokeAll", "reply", "commit"}
<1>. USE DEF LocksInv, TypeOK
\* Either g does nothing, or it goes on, or it loses all its locks.
<1>. DEFINE Same == pc'[g] = pc[g] /\ req'[g] = req[g] /\ revoking'[g] = revoking[g]
            Free == pc'[g] \in {"idle", "token", "user"} /\ revoking'[g] = {}
<1>1. ASSUME NEW h \in Handlers, NEW d \in Devices,
             NEW op \in Issuing \cup Ending \cup {"logout"}, StartFromDevice(h, d, op)
      PROVE  Same \/ Free
  BY <1>1 DEF StartFromDevice, LocksInPlace
<1>2. ASSUME NEW h \in Handlers, NEW u \in Users, StartBan(h, u)
      PROVE  Same \/ Free
  BY <1>2 DEF StartBan, LocksInPlace
<1>3. ASSUME NEW h \in Handlers,
             \/ UserRefused(h) \/ Commit(h) \/ CommitFails(h) \/ StatementFails(h)
             \/ Refuse(h)
      PROVE  Same \/ Free
  BY <1>3 DEF UserRefused, Commit, CommitFails, StatementFails, Refuse, Forget
<1>4. ASSUME ProcessDies
      PROVE  Free
  BY <1>4 DEF ProcessDies
<1>5. ASSUME NEW t \in Tokens, Expire(t)
      PROVE  Same
  BY <1>5 DEF Expire, memory
<1>6. ASSUME NEW h \in Handlers, Handler(h), ~ Commit(h), ~ UserRefused(h), ~ Refuse(h),
             g # h
      PROVE  Same
  <2>1. ASSUME LoadToken(h) PROVE \E p : GoOn(h, p) /\ revoking' = revoking
    <3>1. req[h].op \in {"refresh", "logout"}
      BY <2>1 DEF LoadToken, InFlight
    <3>. QED  BY <1>6, <2>1, <3>1 DEF LoadToken
  <2>2. CASE Reply(h)
    BY <1>6, <2>2 DEF Reply, memory
  <2>3. CASE ~ Reply(h)
    <3>1. /\ \E p : GoOn(h, p)
          /\ revoking'[g] = revoking[g]
      BY <1>6, <2>1, <2>3 DEF Handler, LoadUser, RevokeToken, InsertToken, WriteUser,
         FindTokens, RevokeNext, AllRevoked
    <3>. QED  BY <1>6, <3>1 DEF GoOn
  <2>. QED  BY <2>2, <2>3
<1>7. ASSUME Handler(g), ~ Commit(g), ~ UserRefused(g), ~ Refuse(g)
      PROVE  /\ \A u \in Users : HoldsUser(g, u)' =>
                   HoldsUser(g, u) \/ (WriteUser(g) /\ req[g].user = u)
             /\ revoking'[g] # {} => pc'[g] \in {"insert", "revokeAll", "reply", "commit"}
  <2>. USE DEF HoldsUser, GoOn, LocksInPlace
  <2>1. CASE LoadToken(g)
    <3>1. /\ pc[g] = "token" /\ req[g].op \in {"refresh", "logout"}
      BY <2>1 DEF LoadToken, InFlight
    <3>2. /\ \E p : GoOn(g, p)
          /\ revoking' = revoking
      BY <1>7, <2>1, <3>1 DEF LoadToken
    <3>. QED  BY <3>1, <3>2 DEF Ending
  <2>2. CASE LoadUser(g)
    <3>1. pc[g] = "user" /\ revoking' = revoking /\ pc'[g] \in {"insert", "revoke", "write"}
      <4>1. req[g].op \in Issuing \cup Ending
        BY <2>2 DEF LoadUser, InFlight, Request
      <4>. QED  BY <2>2, <4>1 DEF LoadUser, Issuing, Ending
    <3>. QED  BY <3>1
  <2>3. CASE RevokeToken(g)
    <3>1. req[g].op \in {"refresh", "logout"} /\ req'[g] = req[g]
      BY <2>3 DEF RevokeToken, InFlight
    <3>. QED  BY <2>3, <3>1 DEF RevokeToken, Ending
  <2>4. CASE InsertToken(g)
    <3>1. req[g].op \in Issuing /\ req'[g] = req[g] /\ pc'[g] = "reply"
      BY <2>4 DEF InsertToken, InFlight
    <3>. QED  BY <3>1 DEF Issuing, Ending
  <2>5. CASE WriteUser(g)
    BY <2>5 DEF WriteUser
  <2>6. CASE FindTokens(g)
    <3>1. pc[g] = "find" /\ pc'[g] = "revokeAll" /\ req' = req
      BY <2>6 DEF FindTokens
    <3>. QED  BY <3>1
  <2>7. CASE RevokeNext(g)
    <3>1. pc[g] = "revokeAll" /\ pc'[g] = "revokeAll" /\ req' = req
      BY <2>7 DEF RevokeNext
    <3>. QED  BY <3>1
  <2>8. CASE AllRevoked(g)
    BY <2>8 DEF AllRevoked
  <2>9. CASE Reply(g)
    BY <2>9 DEF Reply, memory
  <2>. QED  BY <1>7, <2>1, <2>2, <2>3, <2>4, <2>5, <2>6, <2>7, <2>8, <2>9 DEF Handler
<1>8. Same \/ Free =>
         /\ \A u \in Users : HoldsUser(g, u)' => HoldsUser(g, u)
         /\ revoking'[g] # {} => pc'[g] \in {"insert", "revokeAll", "reply", "commit"}
  BY DEF HoldsUser, LocksInPlace
<1>. HIDE DEF LocksInv, TypeOK, Same, Free
<1>. QED  BY <1>1, <1>2, <1>3, <1>4, <1>5, <1>6, <1>7, <1>8 DEF Next


-----------------------------------------------------------------------------
(* The inductive invariant.                                                *)

LEMMA InitLocksInv == Init => LocksInv
BY DEF Init, LocksInv, TypeOK, InFlight, HasInHand, IsNew, LocksInPlace, HoldsUser

\* A request without tokens has nothing in hand.
LEMMA EmptyHanded ==
    ASSUME LocksInv, NEW h \in Handlers, pc[h] \in {"idle", "token", "user", "write", "find"}
    PROVE  found[h] = {} /\ revoking[h] = {} /\ issued[h] = None
BY DEF LocksInv, HasInHand, IsNew, LocksInPlace

\* A step that leaves the table and the other requests alone.
LEMMA OneMoves ==
    ASSUME LocksInv, Next, TypeOK', NEW h \in Handlers, UNCHANGED <<rows, session, issuedTo>>,
           \A g \in Handlers \ {h} :
              UNCHANGED <<pc[g], req[g], found[g], revoking[g], issued[g]>>,
           pc'[h] # "idle" => Stands(h)', HasInHand(h)', IsNew(h)'
    PROVE  /\ TypeOK' /\ \A g \in InFlight' : Stands(g)'
           /\ \A g \in Handlers : HasInHand(g)' /\ IsNew(g)'
           /\ \A t \in Tokens : rows'[t] # "none" => session'[t] \in Tokens
<1>1. ASSUME NEW g \in InFlight' PROVE Stands(g)'
  BY DEF LocksInv, InFlight
<1>2. ASSUME NEW g \in Handlers, g # h PROVE HasInHand(g)'
  BY <1>2 DEF LocksInv, HasInHand
<1>3. ASSUME NEW g \in Handlers, g # h PROVE IsNew(g)'
  BY <1>3 DEF LocksInv, IsNew
<1>. QED  BY <1>1, <1>2, <1>3 DEF LocksInv

\* Everything but LocksInPlace.
RequestsInv ==
    /\ TypeOK
    /\ \A h \in InFlight : Stands(h)
    /\ \A h \in Handlers : HasInHand(h) /\ IsNew(h)
    /\ \A t \in Tokens : rows[t] # "none" => session[t] \in Tokens

LEMMA ArrivalInv ==
    ASSUME LocksInv, Next, NEW h \in Handlers, NEW q \in Request, pc[h] = "idle",
           q.op \in {"refresh", "logout"} => q.token \in Tokens,
           req' = [req EXCEPT ![h] = q],
           pc' = [pc EXCEPT ![h] = IF q.op \in {"refresh", "logout"} THEN "token" ELSE "user"],
           UNCHANGED <<deleted, table, expired, cookie, found, revoking, issued>>
    PROVE  RequestsInv'
<1>1. TypeOK' /\ UNCHANGED <<rows, session, issuedTo>>
  BY DEF LocksInv, TypeOK, table
<1>2. /\ req'[h] = q /\ pc'[h] = IF q.op \in {"refresh", "logout"} THEN "token" ELSE "user"
      /\ \A g \in Handlers \ {h} :
            UNCHANGED <<pc[g], req[g], found[g], revoking[g], issued[g]>>
  BY DEF LocksInv, TypeOK
<1>3. Stands(h)'
  BY <1>2
<1>4. HasInHand(h)' /\ IsNew(h)'
  BY <1>2, EmptyHanded DEF HasInHand, IsNew
<1>. QED  BY <1>1, <1>2, <1>3, <1>4, OneMoves DEF RequestsInv

LEMMA ForgetInv ==
    ASSUME LocksInv, Next, NEW h \in Handlers, Forget(h),
           UNCHANGED <<deleted, rows, session, issuedTo, expired, cookie>>,
           ended' \subseteq Tokens
    PROVE  RequestsInv'
<1>1. TypeOK'
  BY DEF LocksInv, TypeOK, Forget
<1>2. /\ pc'[h] = "idle" /\ found'[h] = {} /\ revoking'[h] = {} /\ issued'[h] = None
      /\ \A g \in Handlers \ {h} :
            UNCHANGED <<pc[g], req[g], found[g], revoking[g], issued[g]>>
  BY DEF LocksInv, TypeOK, Forget
<1>3. HasInHand(h)' /\ IsNew(h)'
  BY <1>2 DEF HasInHand, IsNew
<1>. QED  BY <1>1, <1>2, <1>3, OneMoves DEF RequestsInv

\* h goes on to p, with nothing new in the table.
LEMMA GoOnInv ==
    ASSUME LocksInv, Next, NEW h \in Handlers, NEW p, GoOn(h, p), pc[h] # "idle",
           p \in {"user", "revoke", "insert", "write", "find", "revokeAll", "reply"},
           /\ p = "user" => req[h].op # "logout"
           /\ p = "revoke" => req[h].op \in {"refresh", "logout"}
           /\ p = "insert" => req[h].op \in Issuing
           /\ p \in {"write", "find", "revokeAll"} => req[h].op \in Ending,
           found' \in [Handlers -> SUBSET Tokens],
           revoking' \in [Handlers -> SUBSET Tokens],
           issued' \in [Handlers -> Tokens \cup {None}],
           \A g \in Handlers \ {h} : UNCHANGED <<found[g], revoking[g], issued[g]>>,
           HasInHand(h)', IsNew(h)'
    PROVE  RequestsInv'
<1>1. TypeOK' /\ UNCHANGED <<rows, session, issuedTo>>
  BY DEF LocksInv, TypeOK, GoOn, table
<1>2. pc'[h] = p /\ \A g \in Handlers \ {h} : UNCHANGED <<pc[g], req[g]>>
  BY DEF LocksInv, TypeOK, GoOn
<1>3. Stands(h)'
  BY <1>2 DEF LocksInv, InFlight, GoOn
<1>. QED  BY <1>1, <1>2, <1>3, OneMoves DEF RequestsInv

LEMMA ReadInv ==
    ASSUME LocksInv, Next, NEW h \in Handlers,
           (LoadToken(h) /\ ~ Refuse(h)) \/ LoadUser(h) \/ WriteUser(h)
    PROVE  RequestsInv'
<1>1. /\ pc[h] \in {"token", "user", "write"} /\ h \in InFlight /\ Stands(h)
      /\ UNCHANGED <<found, revoking, issued>>
  <2>1. pc[h] \in {"token", "user", "write"} /\ h \in InFlight /\ Stands(h)
    BY DEF LoadToken, LoadUser, WriteUser, LocksInv, InFlight
  <2>. QED  BY <2>1 DEF LoadToken, LoadUser, WriteUser
<1>2. /\ req[h].op \in Issuing \cup Ending \cup {"logout"}
      /\ found[h] = {} /\ revoking[h] = {} /\ issued[h] = None
  BY <1>1, EmptyHanded DEF Request
<1>3. PICK p \in {"user", "revoke", "insert", "write", "find", "reply"} :
        /\ GoOn(h, p)
        /\ p = "user" => req[h].op = "refresh" /\ rows[req[h].token] # "none"
        /\ p = "revoke" => /\ req[h].op \in {"refresh", "logout"}
                           /\ rows[req[h].token] # "none"
        /\ p = "insert" => req[h].op = "login"
        /\ p \in {"write", "find"} => req[h].op \in Ending
        /\ p = "reply" => req[h].op = "logout"
  <2>1. CASE LoadToken(h) /\ ~ Refuse(h)
    <3>1. CASE req[h].op = "refresh"
      BY <2>1, <3>1 DEF LoadToken
    <3>2. CASE req[h].op = "logout"
      BY <2>1, <3>2 DEF LoadToken
    <3>. QED  BY <1>1, <2>1, <3>1, <3>2 DEF LoadToken
  <2>2. CASE LoadUser(h)
    BY <1>1, <1>2, <2>2 DEF LoadUser, Issuing, Ending, LocksInv, HasInHand
  <2>3. CASE WriteUser(h)
    BY <1>1, <2>3 DEF WriteUser
  <2>. QED  BY <2>1, <2>2, <2>3
<1>4. pc'[h] = p /\ UNCHANGED <<req, rows>>
  BY <1>3 DEF GoOn, table, LocksInv, TypeOK
<1>5. HasInHand(h)' /\ IsNew(h)'
  BY <1>1, <1>2, <1>3, <1>4 DEF HasInHand, IsNew, Issuing, Ending
<1>. QED  BY <1>1, <1>3, <1>5, GoOnInv DEF LocksInv, TypeOK, Issuing

LEMMA RevokeTokenInv ==
    ASSUME LocksInv, Next, NEW h \in Handlers, RevokeToken(h)
    PROVE  RequestsInv'
<1>. DEFINE p == IF req[h].op = "refresh" THEN "insert" ELSE "reply"
<1>1. /\ pc[h] = "revoke" /\ h \in InFlight
      /\ req[h].op \in {"refresh", "logout"} /\ req[h].token \in Tokens
      /\ GoOn(h, p) /\ UNCHANGED <<found, issued>>
      /\ revoking' = [revoking EXCEPT ![h] = {req[h].token}]
  BY DEF RevokeToken, LocksInv, InFlight
<1>2. found[h] = {} /\ issued[h] = None
  BY <1>1 DEF LocksInv, HasInHand, IsNew
<1>3. /\ revoking' \in [Handlers -> SUBSET Tokens]
      /\ \A g \in Handlers \ {h} : revoking'[g] = revoking[g]
  BY <1>1 DEF LocksInv, TypeOK
<1>4. /\ pc'[h] = p /\ revoking'[h] = {req[h].token} /\ UNCHANGED <<req, rows>>
      /\ rows[req[h].token] # "none"
  BY <1>1 DEF GoOn, table, LocksInv, TypeOK, HasInHand
<1>5. HasInHand(h)' /\ IsNew(h)'
  BY <1>1, <1>2, <1>4 DEF HasInHand, IsNew, Issuing, Ending
<1>. QED  BY <1>1, <1>3, <1>5, GoOnInv DEF LocksInv, TypeOK, Issuing

LEMMA InsertTokenInv ==
    ASSUME LocksInv, Next, NEW h \in Handlers, InsertToken(h)
    PROVE  RequestsInv'
<1>1. /\ pc[h] = "insert" /\ h \in InFlight /\ req[h].op \in Issuing
      /\ GoOn(h, "reply") /\ UNCHANGED <<found, revoking>>
  BY DEF InsertToken, LocksInv, InFlight
<1>2. PICK t \in Fresh : issued' = [issued EXCEPT ![h] = t]
  BY DEF InsertToken
<1>3. /\ t \in Tokens /\ t # None /\ rows[t] = "none" /\ \A g \in Handlers : issued[g] # t
      /\ issued' \in [Handlers -> Tokens \cup {None}] /\ issued'[h] = t
      /\ \A g \in Handlers \ {h} : issued'[g] = issued[g]
  BY <1>2 DEF Fresh, LocksInv, TypeOK
<1>4. found[h] = {} /\ pc'[h] = "reply" /\ UNCHANGED <<req, rows>>
  BY <1>1 DEF LocksInv, TypeOK, HasInHand, GoOn, table
<1>5. HasInHand(h)'
  BY <1>1, <1>4 DEF LocksInv, HasInHand, Issuing, Ending
<1>6. IsNew(h)'
  BY <1>1, <1>3, <1>4 DEF IsNew
<1>. QED  BY <1>1, <1>3, <1>5, <1>6, GoOnInv DEF LocksInv, TypeOK

LEMMA RevokeAllInv ==
    ASSUME LocksInv, Next, NEW h \in Handlers,
           FindTokens(h) \/ RevokeNext(h) \/ AllRevoked(h)
    PROVE  RequestsInv'
<1>1. /\ pc[h] \in {"find", "revokeAll"} /\ h \in InFlight /\ req[h].op \in Ending
      /\ UNCHANGED issued
  BY DEF FindTokens, RevokeNext, AllRevoked, LocksInv, InFlight
<1>2. PICK p \in {"revokeAll", "reply"} : GoOn(h, p) /\ (p = "reply" => AllRevoked(h))
  BY DEF FindTokens, RevokeNext, AllRevoked
<1>3. /\ pc'[h] = p /\ UNCHANGED <<req, rows, issuedTo>>
  BY <1>2 DEF GoOn, table, LocksInv, TypeOK
<1>4. issued[h] = None
  BY <1>1 DEF LocksInv, IsNew
<1>5. /\ found' \in [Handlers -> SUBSET Tokens] /\ revoking' \in [Handlers -> SUBSET Tokens]
      /\ \A g \in Handlers \ {h} : UNCHANGED <<found[g], revoking[g]>>
      /\ revoking'[h] \subseteq found'[h]
      /\ p = "reply" => found'[h] \subseteq revoking'[h]
      /\ \A t \in found'[h] : rows[t] # "none" /\ UserOf[issuedTo[t]] = req[h].user
  <2>1. CASE FindTokens(h)
    <3>1. /\ revoking' = revoking
          /\ found' = [found EXCEPT ![h] = {t \in Tokens : /\ rows[t] = "valid"
                                             /\ UserOf[issuedTo[t]] = req[h].user}]
      BY <2>1 DEF FindTokens
    <3>2. revoking[h] = {} /\ p # "reply"
      BY <1>2, <2>1, EmptyHanded DEF FindTokens, AllRevoked
    <3>. QED  BY <3>1, <3>2 DEF LocksInv, TypeOK
  <2>2. CASE RevokeNext(h)
    <3>1. PICK t \in found[h] \ revoking[h] :
             \/ /\ revoking' = [revoking EXCEPT ![h] = @ \cup {t}] /\ UNCHANGED found
             \/ /\ found' = [found EXCEPT ![h] = @ \ {t}] /\ UNCHANGED revoking
      BY <2>2 DEF RevokeNext
    <3>2. p # "reply"
      <4>1. GoOn(h, "revokeAll")
        BY <2>2 DEF RevokeNext
      <4>. QED  BY <1>3, <4>1 DEF GoOn, LocksInv, TypeOK
    <3>3. revoking[h] \subseteq found[h] /\ found[h] \subseteq Tokens
      BY <1>1 DEF LocksInv, TypeOK, HasInHand
    <3>. QED  BY <3>1, <3>2, <3>3 DEF LocksInv, TypeOK, HasInHand
  <2>3. CASE AllRevoked(h)
    BY <1>1, <2>3 DEF AllRevoked, LocksInv, TypeOK, HasInHand
  <2>. QED  BY <2>1, <2>2, <2>3
<1>6. HasInHand(h)' /\ IsNew(h)'
  BY <1>1, <1>3, <1>4, <1>5 DEF HasInHand, IsNew, Issuing, Ending
<1>. QED  BY <1>1, <1>2, <1>5, <1>6, GoOnInv DEF LocksInv, TypeOK

\* The sessions of tokens in hand.
LEMMA SessionInHand ==
    ASSUME LocksInv, NEW h \in Handlers, pc[h] \in {"reply", "commit"}
    PROVE  /\ req[h].op \in Issuing =>
                 issued[h] \in Tokens /\ SessionOf(h) \in Tokens
           /\ Ends(h) \subseteq Tokens
<1>1. h \in InFlight /\ Stands(h) /\ HasInHand(h) /\ IsNew(h)
  BY DEF LocksInv, InFlight
<1>2. req[h].op \in Issuing => issued[h] \in Tokens /\ SessionOf(h) \in Tokens
  BY <1>1 DEF LocksInv, TypeOK, HasInHand, IsNew, SessionOf, Issuing
<1>3. Ends(h) \subseteq Tokens
  BY <1>1 DEF LocksInv, TypeOK, HasInHand, Ends
<1>. QED  BY <1>2, <1>3

LEMMA ReplyInv ==
    ASSUME LocksInv, Next, NEW h \in Handlers, Reply(h)
    PROVE  RequestsInv'
<1>1. /\ pc[h] = "reply" /\ h \in InFlight /\ Stands(h) /\ HasInHand(h) /\ IsNew(h)
      /\ pc' = [pc EXCEPT ![h] = "commit"]
      /\ UNCHANGED <<deleted, rows, session, issuedTo, expired, req, found, revoking, issued>>
  BY DEF Reply, LocksInv, InFlight, memory
<1>2. cookie' \in [Devices -> Tokens \cup {None}]
  <2>1. req[h].op \in Issuing \cup {"logout"} \cup Ending
    BY <1>1 DEF Request
  <2>2. issued[h] \in Tokens \cup {None} /\ cookie \in [Devices -> Tokens \cup {None}]
    BY DEF LocksInv, TypeOK
  <2>. QED  BY <2>1, <2>2 DEF Reply, Issuing, Ending
<1>3. ended' \subseteq Tokens
  <2>1. req[h].op = "refresh" => SessionOf(h) \in Tokens
    BY <1>1, SessionInHand DEF Issuing
  <2>. QED  BY <2>1 DEF Reply, LocksInv, TypeOK
<1>4. TypeOK'
  BY <1>1, <1>2, <1>3 DEF LocksInv, TypeOK
<1>5. pc'[h] = "commit" /\ \A g \in Handlers \ {h} : pc'[g] = pc[g]
  BY <1>1 DEF LocksInv, TypeOK
<1>6. Stands(h)' /\ HasInHand(h)' /\ IsNew(h)'
  BY <1>1, <1>5 DEF HasInHand, IsNew
<1>. QED  BY <1>1, <1>4, <1>5, <1>6, OneMoves DEF RequestsInv

LEMMA BrokenInv ==
    ASSUME LocksInv, NEW hs \in SUBSET Handlers
    PROVE  Broken(hs) \subseteq Tokens
BY SessionInHand DEF Broken

\* The commit makes the new token a row, and revokes others; what the others have in
\* hand exists already.
LEMMA CommitInv ==
    ASSUME LocksInv, Next, NEW h \in Handlers, Commit(h)
    PROVE  RequestsInv'
<1>1. /\ pc[h] = "commit" /\ h \in InFlight /\ Stands(h) /\ HasInHand(h) /\ IsNew(h)
      /\ req[h].user \in Users /\ req[h].device \in Devices \cup {None}
      /\ req[h].op \in Issuing \/ issued[h] = None
  BY DEF Commit, LocksInv, InFlight, Request, IsNew
<1>2. /\ Forget(h) /\ UNCHANGED <<expired, cookie>>
      /\ rows' \in [Tokens -> {"none", "valid", "revoked"}]
      /\ \A t \in Tokens : /\ rows[t] # "none" => rows'[t] # "none"
                           /\ rows'[t] # "none" => rows[t] # "none" \/ t = issued[h]
                           /\ t # issued[h] => /\ rows[t] = "none" => rows'[t] = "none"
                                               /\ issuedTo'[t] = issuedTo[t]
                                               /\ session'[t] = session[t]
      /\ issued[h] # None => session'[issued[h]] = SessionOf(h)
  BY <1>1 DEF Commit, LocksInv, TypeOK, HasInHand
<1>3. \A t \in Tokens : rows'[t] # "none" => session'[t] \in Tokens
  BY <1>1, <1>2, SessionInHand DEF LocksInv
<1>4. TypeOK'
  <2>1. deleted' \subseteq Users /\ ended' \subseteq Tokens
    BY <1>1, SessionInHand DEF Commit, LocksInv, TypeOK
  <2>2. /\ session' \in [Tokens -> Tokens \cup {None}]
        /\ issuedTo' \in [Tokens -> Devices \cup {None}]
    BY <1>1, SessionInHand DEF Commit, LocksInv, TypeOK
  <2>. QED  BY <1>2, <2>1, <2>2 DEF LocksInv, TypeOK, Forget
<1>5. /\ pc'[h] = "idle" /\ found'[h] = {} /\ revoking'[h] = {} /\ issued'[h] = None
      /\ \A g \in Handlers \ {h} :
            UNCHANGED <<pc[g], req[g], found[g], revoking[g], issued[g]>>
  BY <1>2 DEF LocksInv, TypeOK, Forget
<1>6. ASSUME NEW g \in InFlight' PROVE Stands(g)'
  BY <1>5 DEF LocksInv, InFlight
<1>7. HasInHand(h)' /\ IsNew(h)'
  BY <1>5 DEF HasInHand, IsNew
<1>8. ASSUME NEW g \in Handlers, g # h PROVE HasInHand(g)' /\ IsNew(g)'
  <2>1. HasInHand(g) /\ IsNew(g) /\ found[g] \subseteq Tokens /\ revoking[g] \subseteq Tokens
    BY DEF LocksInv, TypeOK
  <2>2. \A t \in found[g] : t # issued[h]
    BY <1>1, <2>1 DEF HasInHand, IsNew
  <2>3. pc[g] # "idle" => Stands(g)
    BY DEF LocksInv, InFlight
  <2>4. HasInHand(g)'
    BY <1>2, <1>5, <1>8, <2>1, <2>2, <2>3 DEF HasInHand
  <2>5. issued[g] # None => issued[g] \in Tokens /\ issued[g] # issued[h]
    BY <1>8, <2>1 DEF IsNew, LocksInv, TypeOK
  <2>6. IsNew(g)'
    BY <1>2, <1>5, <1>8, <2>1, <2>5 DEF IsNew
  <2>. QED  BY <2>4, <2>6
<1>. QED  BY <1>3, <1>4, <1>6, <1>7, <1>8 DEF RequestsInv

LEMMA ProcessDiesInv ==
    ASSUME LocksInv, ProcessDies
    PROVE  RequestsInv'
<1>1. Broken(Handlers) \subseteq Tokens
  BY BrokenInv
<1>2. TypeOK'
  BY <1>1 DEF LocksInv, TypeOK, ProcessDies
<1>. QED
  BY <1>2 DEF RequestsInv, LocksInv, ProcessDies, InFlight, HasInHand, IsNew

LEMMA ExpireInv ==
    ASSUME LocksInv, NEW t \in Tokens, Expire(t)
    PROVE  RequestsInv'
<1>1. TypeOK' /\ UNCHANGED <<rows, session, issuedTo, pc, req, found, revoking, issued>>
  BY DEF Expire, LocksInv, TypeOK, memory
<1>. QED  BY <1>1 DEF RequestsInv, LocksInv, InFlight, HasInHand, IsNew

LEMMA StutterInv ==
    ASSUME LocksInv, UNCHANGED vars
    PROVE  LocksInv'
<1>1. /\ TypeOK' /\ UNCHANGED <<rows, session, issuedTo, pc, req, found, revoking, issued>>
  BY DEF LocksInv, TypeOK, vars, table, memory
<1>. QED  BY <1>1 DEF LocksInv, InFlight, HasInHand, IsNew, LocksInPlace, HoldsUser

LEMMA StepInv ==
    ASSUME LocksInv, Next
    PROVE  LocksInv'
<1>1. ASSUME NEW h \in Handlers, NEW d \in Devices,
             NEW op \in Issuing \cup Ending \cup {"logout"}, StartFromDevice(h, d, op)
      PROVE  RequestsInv'
  <2>. DEFINE q == [op |-> op, user |-> UserOf[d], device |-> d, token |-> cookie[d]]
  <2>1. q \in Request /\ (q.op \in {"refresh", "logout"} => q.token \in Tokens)
    BY <1>1 DEF Request, StartFromDevice, LocksInv, TypeOK
  <2>. HIDE DEF q
  <2>2. /\ req' = [req EXCEPT ![h] = q]
        /\ pc' = [pc EXCEPT ![h] = IF q.op \in {"refresh", "logout"} THEN "token" ELSE "user"]
    BY <1>1 DEF StartFromDevice, q
  <2>. QED  BY <1>1, <2>1, <2>2, ArrivalInv DEF StartFromDevice
<1>2. ASSUME NEW h \in Handlers, NEW u \in Users, StartBan(h, u)
      PROVE  RequestsInv'
  <2>. DEFINE q == [op |-> "ban", user |-> u, device |-> None, token |-> None]
  <2>1. q \in Request /\ q.op \notin {"refresh", "logout"}
    BY DEF Request, Ending
  <2>2. /\ req' = [req EXCEPT ![h] = q]
        /\ pc' = [pc EXCEPT ![h] = IF q.op \in {"refresh", "logout"} THEN "token" ELSE "user"]
    BY <1>2 DEF StartBan
  <2>. HIDE DEF q
  <2>. QED  BY <1>2, <2>1, <2>2, ArrivalInv DEF StartBan
<1>3. ASSUME NEW h \in Handlers, Handler(h)
      PROVE  RequestsInv'
  <2>1. ASSUME Refuse(h) PROVE RequestsInv'
    <3>1. ended' \subseteq Tokens
      BY <2>1 DEF Refuse, table, LocksInv, TypeOK
    <3>. QED  BY <2>1, <3>1, ForgetInv DEF Refuse, table
  <2>2. CASE (LoadToken(h) /\ ~ Refuse(h)) \/ LoadUser(h) \/ WriteUser(h)
    BY <2>2, ReadInv
  <2>3. CASE FindTokens(h) \/ RevokeNext(h) \/ AllRevoked(h)
    BY <2>3, RevokeAllInv
  <2>. QED
    BY <1>3, <2>1, <2>2, <2>3, RevokeTokenInv, InsertTokenInv, ReplyInv, CommitInv
    DEF Handler, UserRefused
<1>4. ASSUME NEW h \in Handlers, CommitFails(h) \/ StatementFails(h)
      PROVE  RequestsInv'
  <2>1. ended' \subseteq Tokens
    BY <1>4, BrokenInv DEF CommitFails, StatementFails, Refuse, table, LocksInv, TypeOK
  <2>. QED  BY <1>4, <2>1, ForgetInv DEF CommitFails, StatementFails, Refuse, table
<1>5. RequestsInv'
  BY <1>1, <1>2, <1>3, <1>4, ProcessDiesInv, ExpireInv DEF Next
<1>6. ASSUME NEW u \in Users, NEW g \in Handlers, NEW h \in Handlers,
             HoldsUser(g, u)', HoldsUser(h, u)'
      PROVE  g = h
  <2>1. /\ HoldsUser(g, u) \/ (WriteUser(g) /\ req[g].user = u)
        /\ HoldsUser(h, u) \/ (WriteUser(h) /\ req[h].user = u)
    BY <1>6, LocksOf
  <2>2. CASE WriteUser(g) /\ WriteUser(h)
    BY <2>2 DEF WriteUser, GoOn, LocksInv, TypeOK
  <2>. QED  BY <2>1, <2>2 DEF WriteUser, UserLocked, LocksInv, LocksInPlace
<1>7. LocksInPlace'
  BY <1>6, LocksOf DEF LocksInPlace
<1>. QED  BY <1>5, <1>7 DEF RequestsInv, LocksInv

\* The inductive invariant, of any devices.
THEOREM LocksInvariant == Spec => []LocksInv
<1>1. LocksInv /\ [Next]_vars => LocksInv'
  BY StepInv, StutterInv
<1>. QED  BY <1>1, InitLocksInv, PTL DEF Spec

\* revoke_all_user_tokens leaves nothing good of what it has found.
THEOREM FoundAreRevoked == Spec => FoundTokensAreRevoked
<1>. DEFINE A == \A h \in Handlers : pc[h] = "commit" /\ Commit(h)
                                   => \A t \in found[h] : rows'[t] # "valid"
<1>1. LocksInv /\ [Next]_vars => [A]_vars
  <2>. SUFFICES ASSUME LocksInv, NEW h \in Handlers, pc[h] = "commit", Commit(h),
                       NEW t \in found[h]
                PROVE  rows'[t] # "valid"
    OBVIOUS
  <2>1. t \in revoking[h] /\ t \in Tokens /\ rows[t] # "none"
    BY DEF LocksInv, TypeOK, HasInHand
  <2>2. issued[h] # t
    BY <2>1 DEF LocksInv, IsNew
  <2>. QED  BY <2>1, <2>2 DEF Commit
<1>. QED  BY <1>1, LocksInvariant, PTL DEF Spec, FoundTokensAreRevoked

\* With the locks in place nobody waits in a circle: one that takes several tokens
\* is the only one to do so for its user, and waits only for requests that do not.
LEMMA NoCircle ==
    ASSUME LocksInv
    PROVE  SomeoneGoesOn
<1>. SUFFICES ASSUME \A h \in InFlight : Blocked(h), NEW h0 \in InFlight
              PROVE  FALSE
  BY DEF SomeoneGoesOn
<1>1. \A h \in InFlight : /\ h \in Handlers /\ pc[h] \in {"revoke", "write", "revokeAll"}
                          /\ Stands(h) /\ req[h].user \in Users
  BY DEF Blocked, InFlight, LocksInv, Request
\* A blocked request that holds a lock is revoking all tokens of a user.
<1>2. \A h \in Handlers : revoking[h] # {} =>
         /\ h \in InFlight /\ pc[h] = "revokeAll"
         /\ req[h].op \in Ending /\ req[h].user \in Users
         /\ revoking[h] \subseteq found[h]
  BY <1>1 DEF LocksInPlace, LocksInv, HasInHand, InFlight
<1>3. \A h \in InFlight : pc[h] # "revokeAll"
  <2>. SUFFICES ASSUME NEW h \in InFlight, pc[h] = "revokeAll" PROVE FALSE
    OBVIOUS
  <2>1. PICK t \in found[h] : t \in Locked(h)
    BY DEF Blocked
  <2>2. PICK g \in Handlers \ {h} : t \in revoking[g]
    BY <2>1 DEF Locked
  <2>3. req[g].user = req[h].user
    BY <1>1, <1>2, <2>1, <2>2 DEF LocksInv, HasInHand
  <2>4. req[h].op \in Ending
    BY <1>1
  <2>. QED  BY <1>1, <1>2, <2>2, <2>3, <2>4 DEF LocksInv, LocksInPlace, HoldsUser
<1>4. \A h \in Handlers : revoking[h] = {}
  BY <1>2, <1>3
<1>5. \A h \in InFlight : pc[h] # "revoke"
  BY <1>4 DEF Blocked, Locked
<1>6. \A h \in Handlers, u \in Users : ~ HoldsUser(h, u)
  BY <1>1, <1>3 DEF HoldsUser, InFlight
<1>. QED  BY <1>1, <1>3, <1>5, <1>6 DEF Blocked, UserLocked

\* Requests never all wait for each other.
THEOREM NoDeadlock == Spec => []SomeoneGoesOn
BY NoCircle, LocksInvariant, PTL

-----------------------------------------------------------------------------
(* What revocations and deletions end.  First, what a step does to tokens  *)
(* and to the requests that matter.                                        *)

\* Only commits write the table.
LEMMA OnlyCommitsWrite ==
    ASSUME LocksInv, Next
    PROVE  \/ UNCHANGED <<rows, session, issuedTo, deleted>>
           \/ \E h \in Handlers : pc[h] = "commit" /\ Commit(h)
<1>1. ASSUME NEW h \in Handlers, Handler(h)
      PROVE  \/ UNCHANGED <<rows, session, issuedTo, deleted>>
             \/ pc[h] = "commit" /\ Commit(h)
  <2>1. ASSUME LoadToken(h) PROVE UNCHANGED <<rows, session, issuedTo, deleted>>
    <3>1. req[h].op \in {"refresh", "logout"}
      BY <2>1 DEF LoadToken, LocksInv, InFlight
    <3>2. \/ Refuse(h)
          \/ \E p : GoOn(h, p)
      BY <2>1, <3>1 DEF LoadToken
    <3>. QED  BY <3>2 DEF GoOn, Refuse, table
  <2>. QED
    BY <1>1, <2>1 DEF Handler, LoadUser, UserRefused, RevokeToken, InsertToken, WriteUser,
       FindTokens, RevokeNext, AllRevoked, Reply, Commit, GoOn, Refuse, table
<1>. QED
  BY <1>1 DEF Next, StartFromDevice, StartBan, CommitFails, StatementFails, ProcessDies,
     Expire, Refuse, table

\* A commit of h: one new token, and what it has in hand is revoked.
LEMMA CommitOf ==
    ASSUME SessionsInv, LocksInv, NEW h \in Handlers, pc[h] = "commit", Commit(h)
    PROVE  /\ h \in InFlight
           /\ pc'[h] = "idle"
           /\ \A g \in Handlers : g # h => pc'[g] = pc[g] /\ req'[g] = req[g]
           /\ deleted \subseteq deleted'
           /\ \A t \in Tokens :
                 /\ t = issued[h] => /\ rows[t] = "none" /\ rows'[t] = "valid"
                                     /\ req[h].op \in Issuing
                                     /\ session'[t] = SessionOf(h)
                                     /\ issuedTo'[t] = req[h].device
                 /\ t # issued[h] => /\ session'[t] = session[t]
                                     /\ issuedTo'[t] = issuedTo[t]
                                     /\ rows'[t] = IF t \in revoking[h] THEN "revoked"
                                                   ELSE rows[t]
                 /\ t \in revoking[h] => rows[t] # "none"
<1>1. /\ h \in InFlight /\ IsNew(h) /\ HasInHand(h)
      /\ None \notin Tokens
  BY DEF LocksInv, InFlight
<1>2. /\ pc'[h] = "idle"
      /\ \A g \in Handlers : g # h => pc'[g] = pc[g] /\ req'[g] = req[g]
  BY DEF Commit, Forget, LocksInv, TypeOK
<1>3. \A t \in Tokens :
         /\ rows'[t] = IF t = issued[h] THEN "valid"
                       ELSE IF t \in revoking[h] THEN "revoked" ELSE rows[t]
         /\ session'[t] = IF t = issued[h] THEN SessionOf(h) ELSE session[t]
         /\ issuedTo'[t] = IF t = issued[h] THEN req[h].device ELSE issuedTo[t]
  BY <1>1 DEF Commit
<1>4. deleted \subseteq deleted'
  BY DEF Commit
<1>5. \A t \in Tokens : t = issued[h] => rows[t] = "none" /\ req[h].op \in Issuing
  BY <1>1 DEF IsNew
<1>6. \A t \in Tokens : t \in revoking[h] => rows[t] # "none"
  BY <1>1 DEF HasInHand
<1>. QED  BY <1>1, <1>2, <1>3, <1>4, <1>5, <1>6

\* What exists stays as it is, but that it may be revoked.
LEMMA TokensStay ==
    ASSUME SessionsInv, LocksInv, Next
    PROVE  /\ deleted \subseteq deleted'
           /\ \A t \in Tokens : rows[t] # "none" =>
                 /\ rows'[t] # "none" /\ (rows'[t] = "valid" => rows[t] = "valid")
                 /\ session'[t] = session[t] /\ issuedTo'[t] = issuedTo[t]
BY OnlyCommitsWrite, CommitOf

\* Where a new token comes from.
LEMMA NewToken ==
    ASSUME SessionsInv, LocksInv, Next,
           NEW t \in Tokens, rows[t] = "none", rows'[t] # "none"
    PROVE  \E h \in Handlers :
              /\ pc[h] = "commit" /\ Commit(h) /\ h \in InFlight /\ t = issued[h]
              /\ issuedTo'[t] = req[h].device /\ req[h].device \in Devices
              /\ \/ req[h].op = "login" /\ session'[t] = t
                 \/ /\ req[h].op = "refresh" /\ session'[t] = session[req[h].token]
                    /\ req[h].token \in Tokens /\ rows[req[h].token] # "none"
                    /\ issuedTo[req[h].token] = req[h].device
<1>1. PICK h \in Handlers : pc[h] = "commit" /\ Commit(h)
  BY OnlyCommitsWrite
<1>2. /\ h \in InFlight /\ t = issued[h] /\ req[h].op \in Issuing
      /\ session'[t] = SessionOf(h) /\ issuedTo'[t] = req[h].device
  BY <1>1, CommitOf
<1>3. req[h].device \in Devices
  BY <1>2, RequestOf DEF Issuing
<1>4. req[h].op = "refresh" =>
         /\ req[h].token \in Tokens /\ rows[req[h].token] # "none"
         /\ issuedTo[req[h].token] = req[h].device
  BY <1>1, <1>2 DEF SessionsInv, RequestsInPlace, RefreshHasTheToken
<1>. QED  BY <1>1, <1>2, <1>3, <1>4 DEF SessionOf, Issuing

\* A refresh that has found its token good has just done so, or had done so before.
LEMMA RefreshingOn ==
    ASSUME SessionsInv, LocksInv, Next, NEW g \in InFlight',
           req'[g].op = "refresh", pc'[g] # "token"
    PROVE  /\ g \in InFlight /\ req'[g] = req[g]
           /\ req[g].token \in Tokens /\ rows[req[g].token] # "none"
           /\ issuedTo[req[g].token] = req[g].device
           /\ session'[req[g].token] = session[req[g].token]
           /\ pc[g] = "token" => rows[req[g].token] = "valid"
<1>. g \in Handlers /\ pc'[g] # "idle"
  BY DEF InFlight
<1>1. /\ g \in InFlight /\ req'[g] = req[g]
      /\ pc[g] = "token" => rows[req[g].token] = "valid"
  <2>1. CASE pc'[g] = "user"
    <3>. USE DEF LocksInv, TypeOK
    <3>1. ASSUME NEW h \in Handlers, NEW d \in Devices,
                 NEW op \in Issuing \cup Ending \cup {"logout"}, StartFromDevice(h, d, op)
          PROVE  pc'[g] = pc[g] /\ req'[g] = req[g]
      BY <2>1, <3>1 DEF StartFromDevice
    <3>2. ASSUME NEW h \in Handlers, NEW u \in Users, StartBan(h, u)
          PROVE  pc'[g] = pc[g] /\ req'[g] = req[g]
      BY <2>1, <3>2 DEF StartBan
    <3>3. ASSUME NEW h \in Handlers, LoadToken(h)
          PROVE  \/ pc'[g] = pc[g] /\ req'[g] = req[g]
                 \/ /\ g = h /\ pc[g] = "token" /\ req'[g] = req[g]
                    /\ rows[req[g].token] = "valid"
      <4>1. h \in InFlight /\ pc[h] = "token" /\ req[h].op \in {"refresh", "logout"}
        BY <3>3 DEF LoadToken, InFlight
      <4>2. CASE req[h].op = "refresh"
        <5>1. \/ GoOn(h, "user") /\ rows[req[h].token] = "valid"
              \/ Refuse(h)
          BY <3>3, <4>2 DEF LoadToken
        <5>. QED  BY <2>1, <4>1, <5>1 DEF GoOn, Refuse, Forget
      <4>3. CASE req[h].op = "logout"
        <5>1. GoOn(h, IF rows[req[h].token] = "valid" THEN "revoke" ELSE "reply")
          BY <3>3, <4>3 DEF LoadToken
        <5>. QED  BY <2>1, <5>1 DEF GoOn
      <4>. QED  BY <4>1, <4>2, <4>3
    <3>4. ASSUME NEW h \in Handlers, NEW p, GoOn(h, p), p # "user"
          PROVE  pc'[g] = pc[g] /\ req'[g] = req[g]
      BY <2>1, <3>4 DEF GoOn
    <3>5. ASSUME NEW h \in Handlers, LoadUser(h)
          PROVE  \E p : GoOn(h, p) /\ p # "user"
      <4>1. req[h].op \in Issuing \cup Ending
        BY <3>5 DEF LoadUser, InFlight, Request
      <4>. QED  BY <3>5, <4>1 DEF LoadUser, Issuing, Ending
    <3>6. ASSUME NEW h \in Handlers,
                 \/ RevokeToken(h) \/ InsertToken(h) \/ WriteUser(h)
                 \/ FindTokens(h) \/ RevokeNext(h) \/ AllRevoked(h)
          PROVE  \E p : GoOn(h, p) /\ p # "user"
      BY <3>6 DEF RevokeToken, InsertToken, WriteUser, FindTokens, RevokeNext, AllRevoked
    <3>7. ASSUME NEW h \in Handlers, Reply(h)
          PROVE  pc'[g] = pc[g] /\ req'[g] = req[g]
      BY <2>1, <3>7 DEF Reply, memory
    <3>8. ASSUME NEW h \in Handlers,
                 UserRefused(h) \/ Commit(h) \/ CommitFails(h) \/ StatementFails(h)
          PROVE  pc'[g] = pc[g] /\ req'[g] = req[g]
      BY <2>1, <3>8 DEF UserRefused, Commit, CommitFails, StatementFails, Refuse, Forget
    <3>9. CASE ProcessDies
      BY <2>1, <3>9 DEF ProcessDies
    <3>10. ASSUME NEW t \in Tokens, Expire(t)
           PROVE  pc'[g] = pc[g] /\ req'[g] = req[g]
      BY <3>10 DEF Expire, memory
    <3>. HIDE DEF LocksInv, TypeOK
    <3>. QED
      BY <2>1, <3>1, <3>2, <3>3, <3>4, <3>5, <3>6, <3>7, <3>8, <3>9, <3>10
      DEF Next, Handler, InFlight
  <2>2. CASE pc'[g] # "user"
    BY <2>2, PastTheChecks DEF InFlight
  <2>. QED  BY <2>1, <2>2
<1>2. req[g].op = "refresh" /\ req[g].token \in Tokens
  BY <1>1 DEF SessionsInv, RequestsInPlace
<1>3. rows[req[g].token] # "none"
  BY <1>1, <1>2 DEF SessionsInv, RefreshHasTheToken
<1>4. issuedTo[req[g].token] = req[g].device
  BY <1>1, <1>2, <1>3 DEF SessionsInv, RowsInHand
<1>. QED  BY <1>1, <1>2, <1>3, <1>4, TokensStay

\* A revocation in the midst of its UPDATE, or past it, goes on or is over.  It
\* drops none of the tokens it has found that are still good.
LEMMA RevocationOn ==
    ASSUME SessionsInv, LocksInv, Next, NEW h \in Handlers, req[h].op \in Ending,
           pc[h] \in {"find", "revokeAll", "reply", "commit"}, pc'[h] # "idle"
    PROVE  /\ req'[h] = req[h]
           /\ pc[h] = "find" /\ pc'[h] = "revokeAll" => FindTokens(h)
           /\ pc[h] # "find" =>
                 /\ pc'[h] \in {"revokeAll", "reply", "commit"}
                 /\ \A t \in found[h] : rows[t] = "valid" => t \in found'[h]
<1>. USE DEF LocksInv, TypeOK
<1>. DEFINE Same == pc'[h] = pc[h] /\ req'[h] = req[h] /\ found'[h] = found[h]
<1>1. ASSUME NEW g \in Handlers, NEW d \in Devices,
             NEW op \in Issuing \cup Ending \cup {"logout"}, StartFromDevice(g, d, op)
      PROVE  Same
  BY <1>1 DEF StartFromDevice
<1>2. ASSUME NEW g \in Handlers, NEW u \in Users, StartBan(g, u)
      PROVE  Same
  BY <1>2 DEF StartBan
<1>3. ASSUME NEW g \in Handlers,
             \/ UserRefused(g) \/ Commit(g) \/ CommitFails(g) \/ StatementFails(g)
             \/ Refuse(g)
      PROVE  Same
  BY <1>3 DEF UserRefused, Commit, CommitFails, StatementFails, Refuse, Forget
<1>4. CASE ProcessDies
  BY <1>4 DEF ProcessDies
<1>5. ASSUME NEW t \in Tokens, Expire(t)
      PROVE  Same
  BY <1>5 DEF Expire, memory
<1>6. ASSUME NEW g \in Handlers, LoadToken(g), ~ Refuse(g)
      PROVE  Same
  <2>1. g # h /\ req[g].op \in {"refresh", "logout"}
    BY <1>6 DEF LoadToken, InFlight
  <2>2. UNCHANGED found /\ \E p : GoOn(g, p)
    BY <1>6, <2>1 DEF LoadToken
  <2>. QED  BY <2>1, <2>2 DEF GoOn
<1>7. ASSUME NEW g \in Handlers,
             \/ LoadUser(g) \/ RevokeToken(g) \/ InsertToken(g) \/ WriteUser(g)
      PROVE  Same
  <2>1. g # h /\ UNCHANGED found
    BY <1>7 DEF LoadUser, RevokeToken, InsertToken, WriteUser
  <2>2. \E p : GoOn(g, p)
    BY <1>7 DEF LoadUser, RevokeToken, InsertToken, WriteUser
  <2>. QED  BY <2>1, <2>2 DEF GoOn
<1>8. ASSUME NEW g \in Handlers, g # h, FindTokens(g) \/ RevokeNext(g) \/ AllRevoked(g)
      PROVE  Same
  <2>1. \E p : GoOn(g, p)
    BY <1>8 DEF FindTokens, RevokeNext, AllRevoked
  <2>2. found'[h] = found[h]
    BY <1>8 DEF FindTokens, RevokeNext, AllRevoked
  <2>. QED  BY <1>8, <2>1, <2>2 DEF GoOn
<1>9. ASSUME NEW g \in Handlers, Reply(g)
      PROVE  Same \/ (pc[h] = "reply" /\ pc'[h] = "commit" /\ UNCHANGED <<req, found>>)
  BY <1>9 DEF Reply, memory
<1>10. CASE FindTokens(h)
  BY <1>10 DEF FindTokens, GoOn
<1>11. CASE RevokeNext(h)
  <2>1. /\ pc[h] = "revokeAll" /\ GoOn(h, "revokeAll")
        /\ \A t \in found[h] : rows[t] = "valid" => t \in found'[h]
    <3>1. PICK t \in found[h] : IF rows[t] = "valid" THEN UNCHANGED found
                                ELSE found' = [found EXCEPT ![h] = @ \ {t}]
      BY <1>11 DEF RevokeNext
    <3>. QED  BY <1>11, <3>1 DEF RevokeNext
  <2>. QED  BY <2>1 DEF GoOn
<1>12. CASE AllRevoked(h)
  BY <1>12 DEF AllRevoked, GoOn
<1>13. ASSUME Same
       PROVE  /\ req'[h] = req[h]
              /\ pc[h] = "find" /\ pc'[h] = "revokeAll" => FindTokens(h)
              /\ pc[h] # "find" =>
                    /\ pc'[h] \in {"revokeAll", "reply", "commit"}
                    /\ \A t \in found[h] : rows[t] = "valid" => t \in found'[h]
  BY <1>13
<1>. HIDE DEF LocksInv, TypeOK, Same
<1>. QED
  BY <1>1, <1>2, <1>3, <1>4, <1>5, <1>6, <1>7, <1>8, <1>9, <1>10, <1>11, <1>12, <1>13
  DEF Next, Handler

-----------------------------------------------------------------------------
(* The inductive invariant of the history, on top of those of the requests. *)

\* A session that is not being refreshed has no new token, and comes to be
\* refreshed only by way of a good one.
LEMMA NotRefreshed ==
    ASSUME SessionsInv, LocksInv, Next,
           NEW s \in Tokens, rows[s] # "none", s \notin Refreshing
    PROVE  /\ \A t \in Tokens : rows'[t] = "valid" /\ session'[t] = s =>
                 rows[t] = "valid" /\ session[t] = s
           /\ s \in Refreshing' =>
                 \E g \in InFlight : /\ pc[g] = "token" /\ pc'[g] # "token"
                                     /\ g \in InFlight'
                                     /\ \E t \in Tokens : /\ rows[t] = "valid"
                                                          /\ session[t] = s
<1>1. ASSUME NEW t \in Tokens, rows'[t] = "valid", session'[t] = s, rows[t] = "none"
      PROVE  FALSE
  <2>1. PICK h \in InFlight :
           /\ pc[h] = "commit"
           /\ \/ s = t
              \/ req[h].op = "refresh" /\ s = session[req[h].token]
    BY <1>1, NewToken
  <2>2. s # t
    BY <1>1
  <2>. QED  BY <2>1, <2>2 DEF Refreshing
<1>2. \A t \in Tokens : rows'[t] = "valid" /\ session'[t] = s =>
         rows[t] = "valid" /\ session[t] = s
  BY <1>1, TokensStay
<1>3. ASSUME s \in Refreshing'
      PROVE  \E g \in InFlight : /\ pc[g] = "token" /\ pc'[g] # "token" /\ g \in InFlight'
                                 /\ \E t \in Tokens : rows[t] = "valid" /\ session[t] = s
  <2>1. PICK g \in InFlight' : /\ req'[g].op = "refresh" /\ pc'[g] # "token"
                               /\ s = session'[req'[g].token]
    BY <1>3 DEF Refreshing
  <2>2. /\ g \in InFlight /\ req'[g] = req[g] /\ req[g].token \in Tokens
        /\ s = session[req[g].token]
        /\ pc[g] = "token" => rows[req[g].token] = "valid"
    BY <2>1, RefreshingOn
  <2>3. pc[g] = "token"
    BY <2>1, <2>2 DEF Refreshing
  <2>. QED  BY <2>1, <2>2, <2>3
<1>. QED  BY <1>2, <1>3

LEMMA EndingKept ==
    ASSUME RevocationsInv, LocksInv, SessionsInv', RevocationNext
    PROVE  EndingIsFound'
<1>. USE DEF RevocationsInv, RevocationNext
<1>. SUFFICES ASSUME NEW h \in Handlers, ending'[h] # {}
              PROVE  EndingIsFound!(h)!2'
  BY DEF EndingIsFound
<1>1. \A s \in ending'[h] : s \notin Refreshing'
  BY DEF Record
<1>2. CASE Looks(h)
  <2>1. pc[h] = "find" /\ pc'[h] = "revokeAll" /\ req[h].op \in Ending
    BY <1>2 DEF Looks, LocksInv, InFlight
  <2>2. /\ req'[h] = req[h] /\ UNCHANGED <<rows, session>>
        /\ found'[h] = {t \in Tokens : rows[t] = "valid" /\ UserOf[issuedTo[t]] = req[h].user}
    BY <2>1, RevocationOn DEF FindTokens, GoOn, table, LocksInv, TypeOK
  <2>3. ending'[h] \subseteq {session[t] : t \in found'[h]}
    BY <1>2 DEF Record
  <2>4. \A s \in ending'[h] : s \in Tokens /\ rows[s] # "none"
    BY <2>2, <2>3 DEF SessionsInv, TokensHaveSessions
  <2>5. ASSUME NEW t \in Tokens, rows[t] = "valid", session[t] \in ending'[h]
        PROVE  t \in found'[h]
    <3>1. PICK r \in found'[h] : session[t] = session[r]
      BY <2>3, <2>5
    <3>2. issuedTo[t] = issuedTo[r]
      BY <2>2, <2>5, <3>1 DEF SessionsInv, TokensHaveSessions
    <3>. QED  BY <2>2, <2>5, <3>1, <3>2
  <2>. QED  BY <1>1, <2>1, <2>2, <2>4, <2>5
<1>3. CASE ~ Looks(h)
  <2>1. ending'[h] \subseteq ending[h] /\ ending[h] # {} /\ pc'[h] # "idle"
    BY <1>3 DEF Record
  <2>2. /\ pc[h] \in {"revokeAll", "reply", "commit"} /\ req[h].op \in Ending
        /\ \A s \in ending[h] : s \in Tokens /\ rows[s] # "none" /\ s \notin Refreshing
        /\ \A t \in Tokens : rows[t] = "valid" /\ session[t] \in ending[h] => t \in found[h]
    BY <2>1 DEF EndingIsFound
  <2>3. /\ req'[h] = req[h] /\ pc'[h] \in {"revokeAll", "reply", "commit"}
        /\ \A t \in found[h] : rows[t] = "valid" => t \in found'[h]
    BY <2>1, <2>2, RevocationOn
  <2>4. \A s \in ending'[h] : s \in Tokens /\ rows'[s] # "none"
    BY <2>1, <2>2, TokensStay
  <2>5. \A t \in Tokens : rows'[t] = "valid" /\ session'[t] \in ending'[h] => t \in found'[h]
    BY <2>1, <2>2, <2>3, NotRefreshed
  <2>. QED  BY <1>1, <2>2, <2>3, <2>4, <2>5
<1>. QED  BY <1>2, <1>3

\* What is over in the next state is over already, or is ended by the commit of a
\* request that has found all of its good tokens.
LEMMA OverKept ==
    ASSUME RevocationsInv, LocksInv, RevocationNext
    PROVE  OverIsOver' /\ RevokedSessionsStayOver'
<1>. USE DEF RevocationsInv, RevocationNext
<1>1. ASSUME NEW s \in over'
      PROVE  /\ s \in Tokens /\ rows[s] # "none" /\ s \notin Refreshing
             /\ \/ \A t \in Tokens : rows[t] = "valid" => session[t] # s
                \/ \E h \in Handlers :
                      /\ pc[h] = "commit" /\ Commit(h)
                      /\ \A t \in Tokens : rows[t] = "valid" /\ session[t] = s
                                           => t \in revoking[h] /\ t # issued[h]
  <2>1. CASE s \in over
    BY <2>1 DEF OverIsOver, RevokedSessionsStayOver
  <2>2. CASE s \notin over
    <3>1. PICK h \in Handlers : pc[h] = "commit" /\ Commit(h) /\ s \in ending[h]
      BY <1>1, <2>2 DEF Record
    <3>2. /\ s \in Tokens /\ rows[s] # "none" /\ s \notin Refreshing
          /\ \A t \in Tokens : rows[t] = "valid" /\ session[t] = s => t \in found[h]
      BY <3>1 DEF EndingIsFound
    <3>3. found[h] \subseteq revoking[h]
      BY <3>1 DEF LocksInv, HasInHand
    <3>4. \A t \in Tokens : rows[t] # "none" => t # issued[h]
      BY DEF LocksInv, IsNew
    <3>. QED  BY <3>1, <3>2, <3>3, <3>4
  <2>. QED  BY <2>1, <2>2
<1>2. ASSUME NEW s \in over'
      PROVE  s \in Tokens /\ rows'[s] # "none" /\ s \notin Refreshing'
  <2>1. s \in Tokens /\ rows[s] # "none" /\ s \notin Refreshing
    BY <1>1, <1>2
  <2>2. ASSUME s \in Refreshing' PROVE FALSE
    <3>1. PICK g \in InFlight, t \in Tokens :
             /\ pc[g] = "token" /\ pc'[g] # "token" /\ g \in InFlight'
             /\ rows[t] = "valid" /\ session[t] = s
      BY <2>1, <2>2, NotRefreshed
    <3>2. PICK h \in Handlers : pc[h] = "commit" /\ Commit(h)
      BY <1>1, <1>2, <3>1
    <3>. QED  BY <3>1, <3>2, CommitOf DEF InFlight
  <2>. QED  BY <2>1, <2>2, TokensStay
<1>3. ASSUME NEW t \in Tokens, rows'[t] = "valid", session'[t] \in over'
      PROVE  FALSE
  <2>. DEFINE s == session'[t]
  <2>1. s \in Tokens /\ rows[s] # "none" /\ s \notin Refreshing
    BY <1>1, <1>3
  <2>2. rows[t] = "valid" /\ session[t] = s
    BY <1>3, <2>1, NotRefreshed
  <2>3. PICK h \in Handlers : /\ pc[h] = "commit" /\ Commit(h)
                              /\ t \in revoking[h] /\ t # issued[h]
    BY <1>1, <1>3, <2>2
  <2>. QED  BY <1>3, <2>3, CommitOf
<1>. QED  BY <1>2, <1>3 DEF OverIsOver, RevokedSessionsStayOver

\* A token that comes late is the last of its session: no refresh of the session was
\* past the check of its user beside the one that brought it, and none gets there.
LEMMA LateKept ==
    ASSUME RevocationsInv, LocksInv, RevocationNext
    PROVE  LateIsLast' /\ DeletedGetOneTokenMore'
<1>. USE DEF RevocationsInv, RevocationNext
<1>1. ASSUME NEW t \in late', t \notin late
      PROVE  /\ t \in Tokens /\ rows[t] = "none" /\ rows'[t] # "none"
             /\ UserOf[issuedTo'[t]] \in deleted
  BY <1>1 DEF Record
<1>2. ASSUME NEW t \in late
      PROVE  /\ t \in Tokens /\ rows[t] # "none" /\ UserOf[issuedTo[t]] \in deleted
             /\ session'[t] = session[t] /\ session[t] \in Tokens /\ rows[session[t]] # "none"
             /\ rows'[t] # "none" /\ issuedTo'[t] = issuedTo[t]
  BY <1>2, TokensStay DEF LateIsLast, SessionsInv, TokensHaveSessions
<1>3. ASSUME NEW t \in late', NEW g \in InFlight', req'[g].op = "refresh",
             pc'[g] \notin {"token", "user"}
      PROVE  session'[req'[g].token] # session'[t]
  <2>. DEFINE r == req[g].token
  <2>1. /\ g \in InFlight /\ req'[g] = req[g] /\ r \in Tokens /\ rows[r] # "none"
        /\ issuedTo[r] = req[g].device /\ session'[r] = session[r]
    BY <1>3, RefreshingOn
  <2>2. \/ pc[g] \notin {"token", "user"}
        \/ pc[g] = "user" /\ req[g].user \notin deleted
    BY <1>3, <2>1, PastTheChecks DEF InFlight
  <2>3. /\ req[g].device \in Devices /\ req[g].user = UserOf[req[g].device]
        /\ session[r] \in Tokens /\ rows[session[r]] # "none"
    BY <1>3, <2>1, RequestOf DEF Ending, SessionsInv, TokensHaveSessions
  <2>4. CASE t \in late
    <3>1. CASE pc[g] \notin {"token", "user"}
      BY <1>2, <1>3, <2>1, <2>4, <3>1 DEF LateIsLast
    <3>2. CASE req[g].user \notin deleted
      BY <1>2, <2>1, <2>3, <2>4, <3>2 DEF SessionsInv, TokensHaveSessions
    <3>. QED  BY <2>2, <3>1, <3>2
  <2>5. CASE t \notin late
    <3>1. PICK h \in Handlers :
             /\ pc[h] = "commit" /\ Commit(h) /\ h \in InFlight /\ req[h].device \in Devices
             /\ \/ session'[t] = t
                \/ /\ session'[t] = session[req[h].token]
                   /\ req[h].token \in Tokens /\ rows[req[h].token] # "none"
                   /\ issuedTo[req[h].token] = req[h].device
      BY <1>1, <2>5, NewToken
    <3>2. g # h
      BY <3>1, CommitOf DEF InFlight
    <3>3. req[g].device # req[h].device
      BY <2>1, <3>1, <3>2 DEF SessionsInv, OneRequestPerDevice
    <3>4. CASE session'[t] = t
      BY <1>1, <2>1, <2>3, <2>5, <3>4
    <3>5. CASE session'[t] # t
      BY <2>1, <3>1, <3>3, <3>5 DEF SessionsInv, TokensHaveSessions
    <3>. QED  BY <3>4, <3>5
  <2>. QED  BY <2>4, <2>5
<1>4. LateIsLast'
  <2>1. \A t \in late' : t \in Tokens /\ rows'[t] # "none" /\ UserOf[issuedTo'[t]] \in deleted'
    BY <1>1, <1>2, TokensStay
  <2>. QED  BY <1>3, <2>1 DEF LateIsLast
<1>5. ASSUME NEW t \in late', NEW s \in late', session'[t] = session'[s], t # s
      PROVE  FALSE
  \* No token is late beside one that was late before ...
  <2>1. ASSUME NEW x \in late', NEW y \in late', session'[x] = session'[y],
               x \notin late, y \in late
        PROVE  FALSE
    <3>1. PICK h \in Handlers :
             /\ pc[h] = "commit" /\ h \in InFlight
             /\ \/ session'[x] = x
                \/ req[h].op = "refresh" /\ session'[x] = session[req[h].token]
      BY <1>1, <2>1, NewToken
    <3>2. session'[x] # x
      BY <1>1, <1>2, <2>1
    <3>. QED  BY <1>2, <2>1, <3>1, <3>2 DEF LateIsLast
  \* ... nor beside another new one.
  <2>2. ASSUME t \notin late, s \notin late
        PROVE  FALSE
    <3>1. PICK g \in Handlers : pc[g] = "commit" /\ Commit(g) /\ t = issued[g]
      BY <1>1, <2>2, NewToken
    <3>2. PICK h \in Handlers : pc[h] = "commit" /\ Commit(h) /\ s = issued[h]
      BY <1>1, <2>2, NewToken
    <3>3. g = h
      BY <3>1, <3>2, CommitOf
    <3>. QED  BY <1>5, <3>1, <3>2, <3>3
  <2>3. CASE t \in late /\ s \in late
    BY <1>2, <1>5, <2>3 DEF DeletedGetOneTokenMore
  <2>. QED  BY <1>5, <2>1, <2>2, <2>3
<1>. QED  BY <1>4, <1>5 DEF DeletedGetOneTokenMore

LEMMA HistoryKept ==
    ASSUME RevocationsInv, UNCHANGED <<vars, history>>
    PROVE  RevocationsInv'
<1>1. SessionsInv'
  BY StutteringKeeps DEF RevocationsInv
<1>2. UNCHANGED <<req, rows, session, issuedTo, deleted, pc, found, ending, over, late>>
      /\ InFlight' = InFlight /\ Refreshing' = Refreshing
  BY DEF vars, table, memory, history, InFlight, Refreshing
<1>. QED
  BY <1>1, <1>2 DEF RevocationsInv, EndingIsFound, OverIsOver, RevokedSessionsStayOver,
     LateIsLast, DeletedGetOneTokenMore

\* The inductive invariant of revocations, of devices that wait.
THEOREM RevocationsInvariant ==
    ASSUME DeviceWaits
    PROVE  RevocationSpec => []RevocationsInv
<1>1. RevocationInit => RevocationsInv /\ LocksInv
  <2>. SUFFICES ASSUME RevocationInit PROVE RevocationsInv /\ LocksInv
    OBVIOUS
  <2>1. SessionsInv /\ LocksInv
    BY InitSessionsInv, InitLocksInv DEF RevocationInit
  <2>2. EndingIsFound /\ OverIsOver /\ RevokedSessionsStayOver /\ LateIsLast
        /\ DeletedGetOneTokenMore
    BY DEF RevocationInit, EndingIsFound, OverIsOver, RevokedSessionsStayOver, LateIsLast,
       DeletedGetOneTokenMore
  <2>. QED  BY <2>1, <2>2 DEF RevocationsInv
<1>2. RevocationsInv /\ LocksInv /\ [RevocationNext]_<<vars, history>>
      => (RevocationsInv /\ LocksInv)'
  <2>. SUFFICES ASSUME RevocationsInv, LocksInv, [RevocationNext]_<<vars, history>>
                PROVE  RevocationsInv' /\ LocksInv'
    OBVIOUS
  <2>1. CASE RevocationNext
    <3>1. SessionsInv' /\ LocksInv'
      BY <2>1, StepKeeps, StepInv DEF RevocationsInv, RevocationNext
    <3>2. EndingIsFound'
      BY <2>1, <3>1, EndingKept
    <3>3. OverIsOver' /\ RevokedSessionsStayOver' /\ LateIsLast' /\ DeletedGetOneTokenMore'
      BY <2>1, OverKept, LateKept
    <3>. QED  BY <3>1, <3>2, <3>3 DEF RevocationsInv
  <2>2. CASE UNCHANGED <<vars, history>>
    BY <2>2, HistoryKept, StutterInv
  <2>. QED  BY <2>1, <2>2
<1>. QED  BY <1>1, <1>2, PTL DEF RevocationSpec

\* What a committed password change, deletion or ban has ended stays over, whatever
\* devices, requests and failures come later; a session that was being refreshed
\* beside it is not among these.
THEOREM RevokedStayOver ==
    ASSUME DeviceWaits
    PROVE  RevocationSpec => []RevokedSessionsStayOver
<1>1. RevocationsInv => RevokedSessionsStayOver
  BY DEF RevocationsInv
<1>. QED  BY <1>1, RevocationsInvariant, PTL

\* Whoever is deleted gets at most one token more for a session, from the request
\* that was past the check of its user.
THEOREM DeletedTokensEnd ==
    ASSUME DeviceWaits
    PROVE  RevocationSpec => []DeletedGetOneTokenMore
<1>1. RevocationsInv => DeletedGetOneTokenMore
  BY DEF RevocationsInv
<1>. QED  BY <1>1, RevocationsInvariant, PTL
=============================================================================
