-------------------------- MODULE AuthRefinementProofs --------------------------
(* Proof that the auth service implements AccountStore: every step maps to one of *)
(* its moments or leaves what it shows to clients as it is.                       *)
EXTENDS AuthServiceProofs

--------------------------------------------------------------------------------
(* What a step of one request does to the mapped state *)

\* The label of a request says what it serves and what it has found.
LEMMA LabelShows ==
  ASSUME NEW r \in Requests
  PROVE  /\ pc[r] = "idle" => Operation(r) = "none" /\ Found(r) = {}
         /\ pc[r] \in Registering => Operation(r) = "register" /\ Found(r) = {}
         /\ pc[r] \in LoggingIn =>
              /\ Operation(r) = "login"
              /\ Found(r) = IF pc[r] = "login_select" THEN {} ELSE {"account"}
         /\ pc[r] \in Refreshing =>
              /\ Operation(r) = "refresh"
              /\ Found(r) = CASE pc[r] \in {"refresh_lookup", "refresh_select"} -> {}
                              [] pc[r] = "refresh_user" -> {"token"}
                              [] OTHER -> {"token", "account"}
         /\ pc[r] \in {"logout_select", "logout_update", "logout_commit"} =>
              Operation(r) = "logout" /\ Found(r) = {}
BY DEF Operation, Found, Registering, LoggingIn, Refreshing

\* It changes the slot of the request that moves and no other.
LEMMA SlotFrame ==
  ASSUME NEW r \in Requests, \A q \in Requests \ {r} : Untouched(q)
  PROVE  /\ [q \in Requests |-> Serves(q)]' =
              [[q \in Requests |-> Serves(q)] EXCEPT ![r] = Serves(r)']
         /\ [q \in Requests |-> Found(q)]' =
              [[q \in Requests |-> Found(q)] EXCEPT ![r] = Found(r)']
         /\ [q \in Requests |-> Reported(res[q])]' =
              [[q \in Requests |-> Reported(res[q])] EXCEPT ![r] = Reported(res'[r])]
<1>1. \A q \in Requests \ {r} : /\ Serves(q)' = Serves(q) /\ Found(q)' = Found(q)
                                /\ Reported(res'[q]) = Reported(res[q])
  BY DEF Untouched, Serves, Operation, Found
<1> QED
  BY <1>1

LEMMA SameTables ==
  ASSUME refresh_tokens' = refresh_tokens
  PROVE  LiveTokens' = LiveTokens /\ SpentTokens' = SpentTokens
BY DEF LiveTokens, SpentTokens

\* The time of a token ends only as the clock moves, for good.
LEMMA SameTime ==
  ASSUME now' = now
  PROVE  EndedTokens' = EndedTokens
BY DEF EndedTokens, Expired, jwt_exp

LEMMA TimeElapses ==
  ASSUME Inv, Tick
  PROVE  EndedTokens' \in SUBSET Tokens /\ EndedTokens \subseteq EndedTokens'
<1>1. now \in Nat /\ now' = now + 1
  BY InvParts, TimeAssumption DEF Tick
<1>2. ASSUME NEW t \in Tokens, Expired(t) PROVE Expired(t)'
  BY <1>1, <1>2, ExpType DEF Expired, jwt_exp
<1> QED
  BY <1>2 DEF EndedTokens

\* The handler returns or raises: the client has its answer.
LEMMA AnswerShows ==
  ASSUME Inv, NEW r \in Requests, NEW outcome \in Answers, Answer(r, outcome)
  PROVE  Store!Answer(r, Reported(outcome))
<1>1. /\ pc'[r] = "idle" /\ who'[r] = NoUser /\ tok'[r] = NoToken /\ res'[r] = outcome
      /\ \A q \in Requests \ {r} : Untouched(q)
  BY AnswerEffect, InvParts
<1>2. Operation(r)' = "none" /\ Found(r)' = {}
  BY <1>1 DEF Operation, Found, Registering, LoggingIn, Refreshing
<1>3. Serves(r)' = Store!NoAsk
  BY <1>1, <1>2 DEF Serves, Store!NoAsk
<1> QED
  BY <1>1, <1>2, <1>3, SlotFrame DEF Store!Answer

\* It goes on to another statement: the client sees nothing.
LEMMA AwaitShows ==
  ASSUME Inv, NEW r \in Requests, NEW label \in Labels, Await(r, label), Acts(r),
         Operation(r)' = Operation(r)
  PROVE  /\ pc'[r] = label
         /\ [q \in Requests |-> Serves(q)]' = [q \in Requests |-> Serves(q)]
         /\ [q \in Requests |-> Found(q)]' =
              [[q \in Requests |-> Found(q)] EXCEPT ![r] = Found(r)']
         /\ [q \in Requests |-> Reported(res[q])]' = [q \in Requests |-> Reported(res[q])]
<1>1. /\ pc'[r] = label /\ who' = who /\ tok' = tok /\ res' = res
      /\ \A q \in Requests \ {r} : Untouched(q)
  BY InvParts DEF Await, Acts, RequestTypes
<1>2. Serves(r)' = Serves(r)
  BY <1>1 DEF Serves
<1> QED
  BY <1>1, <1>2, SlotFrame

--------------------------------------------------------------------------------
(* The steps that change no table *)

\* A step that only takes the handler on.
LEMMA GoesOn ==
  ASSUME Inv, NEW r \in Requests, NEW label \in Labels, Await(r, label), Acts(r),
         Operation(r)' = Operation(r), Found(r)' = Found(r),
         UNCHANGED <<users, refresh_tokens, delivered, now>>
  PROVE  UNCHANGED Store!vars
<1>1. [q \in Requests |-> Found(q)]' = [q \in Requests |-> Found(q)]
  BY AwaitShows
<1> QED
  BY <1>1, AwaitShows, SameTables, SameTime DEF Store!vars, Store!tokens

\* A request arrives with what its client may ask.
LEMMA ArriveMaps ==
  ASSUME Inv, NEW r \in Requests, Arrive(r)
  PROVE  [Store!Next]_(Store!vars)
<1>1. Acts(r) /\ UNCHANGED <<users, refresh_tokens, delivered, now>>
  BY ArriveActs, QuietUnchanged DEF QuietStep, database
<1>2. \A q \in Requests \ {r} : Untouched(q)
  BY <1>1 DEF Acts
<1>3. ASSUME NEW label, NEW e, NEW t, NEW noRight, Receive(r, label, e, t, noRight),
             [op |-> Operation(r)', user |-> e, token |-> t] \in Store!Asks,
             Found(r)' = {}
      PROVE  Store!Ask(r)
  <2>1. /\ pc[r] = "idle" /\ who'[r] = e /\ tok'[r] = t /\ res'[r] = "none"
        /\ who[r] = NoUser /\ tok[r] = NoToken
    BY <1>3, InvParts DEF Receive, RequestTypes, Works
  <2>2. Serves(r)' \in Store!Asks
    BY <1>3, <2>1 DEF Serves
  <2>3. Serves(r) = Store!NoAsk /\ Found(r) = {}
    BY <2>1, LabelShows DEF Serves, Store!NoAsk
  <2>4. Reported(res'[r]) = "none"
    BY <2>1 DEF Reported
  <2>5. [q \in Requests |-> Found(q)]' = [q \in Requests |-> Found(q)]
    BY <1>2, <1>3, <2>3, SlotFrame
  <2> QED
    BY <1>1, <1>2, <2>2, <2>3, <2>4, <2>5, SlotFrame, SameTables, SameTime DEF Store!Ask, Store!tokens
<1> USE DEF Operation, Found, Registering, LoggingIn, Refreshing
<1>4. CASE RegisterArrive(r)
  <2>1. PICK e \in Emails :
          Receive(r, "register_select", e, NoToken, users[e] # "absent")
    BY <1>4 DEF RegisterArrive
  <2>2. pc'[r] = "register_select"
    BY <2>1, InvParts DEF Receive, RequestTypes
  <2> QED
    BY <1>3, <2>1, <2>2 DEF Store!Next, Store!Asks
<1>5. CASE LoginArrive(r)
  <2>1. PICK e \in Emails :
          Receive(r, "login_select", e, NoToken, users[e] = "inactive")
    BY <1>5 DEF LoginArrive
  <2>2. pc'[r] = "login_select"
    BY <2>1, InvParts DEF Receive, RequestTypes
  <2> QED
    BY <1>3, <2>1, <2>2 DEF Store!Next, Store!Asks
<1>6. CASE RefreshArrive(r)
  <2>1. PICK t \in delivered :
          /\ ~ Expired(t)
          /\ Receive(r, "refresh_lookup", t.user, t,
                     refresh_tokens[t].revoked \/ users[t.user] # "active")
    BY <1>6 DEF RefreshArrive
  <2>2. pc'[r] = "refresh_lookup" /\ t \in delivered \ EndedTokens
    BY <2>1, InvParts DEF Receive, RequestTypes, EndedTokens
  <2> QED
    BY <1>3, <2>1, <2>2 DEF Store!Next, Store!Asks
<1>7. CASE RefreshReject(r)
  <2>1. pc[r] = "idle" /\ Answer(r, "unauthorized")
    BY <1>7 DEF RefreshReject
  <2>2. Serves(r) = Store!NoAsk
    BY <2>1, LabelShows, InvParts DEF Serves, Store!NoAsk, Works
  <2>3. Store!Answer(r, "unauthorized")
    BY <2>1, AnswerShows DEF Answers, Reported
  <2> QED
    BY <1>1, <2>2, <2>3, SameTables, SameTime DEF Store!Next, Store!Reject, Store!tokens
<1>8. CASE LogoutArrive(r)
  <2>1. PICK t \in delivered \cup {NoToken} : Receive(r, "logout_select", NoUser, t, FALSE)
    BY <1>8 DEF LogoutArrive
  <2>2. pc'[r] = "logout_select"
    BY <2>1, InvParts DEF Receive, RequestTypes
  <2> QED
    BY <1>3, <2>1, <2>2 DEF Store!Next, Store!Asks
<1> QED
  BY <1>4, <1>5, <1>6, <1>7, <1>8 DEF Arrive

\* A request that ends with a failure has changed nothing.
LEMMA FailMaps ==
  ASSUME Inv, NEW r \in Requests, pc[r] # "idle", NEW outcome \in Answers,
         Answer(r, outcome), Reported(outcome) = "failed",
         UNCHANGED <<users, refresh_tokens, delivered, now>>
  PROVE  Store!Next
<1>1. Operation(r) # "none"
  <2>1. pc[r] \in Labels
    BY InvParts DEF RequestTypes
  <2> QED
    BY <2>1, LabelShows DEF Labels, Registering, LoggingIn, Refreshing
<1>2. Serves(r) # Store!NoAsk
  BY <1>1 DEF Serves, Store!NoAsk
<1>3. Store!Fail(r)
  BY <1>2, AnswerShows, SameTables, SameTime DEF Store!Fail, Store!tokens
<1> QED
  BY <1>3 DEF Store!Next

\* The reads and the waits of register and login.
LEMMA EntryMaps ==
  ASSUME Inv, NEW r \in Requests,
         \/ RegisterSelect(r) \/ RegisterInsert(r)
         \/ LoginSelect(r) \/ LoginVerify(r) \/ LoginAdd(r) \/ LoginInsert(r)
  PROVE  [Store!Next]_(Store!vars)
<1>1. Acts(r) /\ UNCHANGED <<users, refresh_tokens, delivered, now>>
  BY HandleActs, QuietUnchanged DEF QuietStep, Handle, database
<1>2. /\ Serves(r).op = Operation(r) /\ Serves(r).user = who[r]
      /\ [q \in Requests |-> Serves(q)][r] = Serves(r)
  BY DEF Serves
<1>3. ASSUME NEW label \in Labels, Await(r, label) PROVE pc'[r] = label
  BY <1>3, InvParts DEF Await, RequestTypes
<1>4. CASE RegisterSelect(r)
  <2>1. Operation(r) = "register" /\ Found(r) = {}
    BY <1>4, LabelShows DEF RegisterSelect, Registering
  <2>2. CASE users[who[r]] # "absent" /\ Answer(r, "conflict")
    <3>1. Store!Answer(r, "conflict")
      BY <2>2, AnswerShows DEF Answers, Reported
    <3>2. Store!Conflict(r)
      BY <1>1, <1>2, <2>1, <2>2, <3>1, SameTables, SameTime DEF Store!Conflict, Store!tokens
    <3> QED
      BY <3>2 DEF Store!Next
  <2>3. CASE Await(r, "register_insert")
    <3>1. Operation(r)' = "register" /\ Found(r)' = {}
      BY <1>3, <2>3 DEF Labels, Operation, Found, Registering, LoggingIn, Refreshing
    <3> QED
      BY <1>1, <2>1, <2>3, <3>1, GoesOn DEF Labels
  <2> QED
    BY <1>4, <2>2, <2>3 DEF RegisterSelect
<1>5. CASE RegisterInsert(r)
  <2>1. pc[r] = "register_insert" /\ Operation(r) = "register" /\ Found(r) = {}
    BY <1>5, LabelShows DEF RegisterInsert, Registering
  <2>2. CASE Answer(r, "integrity_error")
    BY <1>1, <2>1, <2>2, FailMaps DEF Answers, Reported
  <2>3. CASE Await(r, "register_commit")
    <3>1. Operation(r)' = "register" /\ Found(r)' = {}
      BY <1>3, <2>3 DEF Labels, Operation, Found, Registering, LoggingIn, Refreshing
    <3> QED
      BY <1>1, <2>1, <2>3, <3>1, GoesOn DEF Labels
  <2> QED
    BY <1>5, <2>2, <2>3 DEF RegisterInsert
<1>6. ASSUME Answer(r, "unauthorized"), Operation(r) = "login" PROVE Store!Next
  <2>1. Store!Answer(r, "unauthorized")
    BY <1>6, AnswerShows DEF Answers, Reported
  <2>2. Store!Refuse(r)
    BY <1>1, <1>2, <1>6, <2>1, SameTables, SameTime DEF Store!Refuse, Store!tokens
  <2> QED
    BY <2>2 DEF Store!Next
<1>7. CASE LoginSelect(r)
  <2>1. pc[r] = "login_select" /\ Operation(r) = "login" /\ Found(r) = {}
    BY <1>7, LabelShows DEF LoginSelect, LoggingIn
  <2>2. CASE users[who[r]] = "active" /\ Await(r, "login_verify")
    <3>1. Operation(r)' = "login" /\ Found(r)' = {"account"}
      BY <1>3, <2>2 DEF Labels, Operation, Found, Registering, LoggingIn, Refreshing
    <3>2. Store!Pass(r, "account")
      BY <1>1, <2>1, <2>2, <3>1, AwaitShows, SameTables, SameTime DEF Labels, Store!Pass, Store!tokens
    <3>3. Store!FindAccount(r)
      BY <1>2, <2>1, <2>2, <3>2 DEF Store!FindAccount
    <3> QED
      BY <3>3 DEF Store!Next
  <2> QED
    BY <1>6, <1>7, <2>1, <2>2 DEF LoginSelect
<1>8. CASE LoginVerify(r)
  <2>1. pc[r] = "login_verify" /\ Operation(r) = "login" /\ Found(r) = {"account"}
    BY <1>8, LabelShows DEF LoginVerify, LoggingIn
  <2>2. CASE Await(r, "login_add")
    <3>1. Operation(r)' = "login" /\ Found(r)' = {"account"}
      BY <1>3, <2>2 DEF Labels, Operation, Found, Registering, LoggingIn, Refreshing
    <3> QED
      BY <1>1, <2>1, <2>2, <3>1, GoesOn DEF Labels
  <2> QED
    BY <1>6, <1>8, <2>1, <2>2 DEF LoginVerify
<1>9. CASE LoginInsert(r)
  <2>1. pc[r] = "login_insert" /\ Operation(r) = "login" /\ Found(r) = {"account"}
    BY <1>9, LabelShows DEF LoginInsert, LoggingIn
  <2>2. CASE Answer(r, "integrity_error")
    BY <1>1, <2>1, <2>2, FailMaps DEF Answers, Reported
  <2>3. CASE Await(r, "login_commit")
    <3>1. Operation(r)' = "login" /\ Found(r)' = {"account"}
      BY <1>3, <2>3 DEF Labels, Operation, Found, Registering, LoggingIn, Refreshing
    <3> QED
      BY <1>1, <2>1, <2>3, <3>1, GoesOn DEF Labels
  <2> QED
    BY <1>9, <2>2, <2>3 DEF LoginInsert, InsertToken
<1>10. CASE LoginAdd(r)
  <2>1. pc[r] = "login_add" /\ Operation(r) = "login" /\ Found(r) = {"account"}
    BY <1>10, LabelShows DEF LoginAdd, LoggingIn
  <2>2. Await(r, "login_insert")
    BY <1>10 DEF LoginAdd, AddToken
  <2>3. Operation(r)' = "login" /\ Found(r)' = {"account"}
    BY <1>3, <2>2 DEF Labels, Operation, Found, Registering, LoggingIn, Refreshing
  <2> QED
    BY <1>1, <2>1, <2>2, <2>3, GoesOn DEF Labels
<1> QED
  BY <1>4, <1>5, <1>7, <1>8, <1>9, <1>10

\* The reads and the waits of refresh and logout.
LEMMA TokenMaps ==
  ASSUME Inv, NEW r \in Requests,
         \/ RefreshLookup(r) \/ RefreshSelect(r) \/ RefreshUser(r) \/ RefreshAdd(r)
         \/ RefreshUpdate(r) \/ RefreshInsert(r)
         \/ LogoutSelect(r) \/ LogoutUpdate(r)
  PROVE  [Store!Next]_(Store!vars)
<1>1. Acts(r) /\ UNCHANGED <<users, refresh_tokens, delivered, now>>
  BY HandleActs, QuietUnchanged DEF QuietStep, Handle, database
<1>2. /\ Serves(r).op = Operation(r) /\ Serves(r).user = who[r] /\ Serves(r).token = tok[r]
      /\ [q \in Requests |-> Serves(q)][r] = Serves(r)
      /\ [q \in Requests |-> Found(q)][r] = Found(r)
  BY DEF Serves
<1>3. ASSUME NEW label \in Labels, Await(r, label) PROVE pc'[r] = label
  BY <1>3, InvParts DEF Await, RequestTypes
<1>4. ASSUME Answer(r, "unauthorized"), Operation(r) = "refresh",
             \/ tok[r] \in SpentTokens
             \/ tok[r] \in EndedTokens /\ "token" \notin Found(r)
             \/ users[who[r]] # "active"
      PROVE  Store!Next
  <2>1. Store!Answer(r, "unauthorized")
    BY <1>4, AnswerShows DEF Answers, Reported
  <2>2. Store!Refuse(r)
    BY <1>1, <1>2, <1>4, <2>1, SameTables, SameTime DEF Store!Refuse, Store!tokens
  <2> QED
    BY <2>2 DEF Store!Next
<1>5. CASE RefreshSelect(r)
  <2>1. pc[r] = "refresh_select" /\ Operation(r) = "refresh" /\ Found(r) = {}
    BY <1>5, LabelShows DEF RefreshSelect, Refreshing
  <2>2. CASE ~ Usable(r) /\ Answer(r, "unauthorized")
    <3>1. tok[r] \in SpentTokens \/ tok[r] \in EndedTokens
      BY <2>1, <2>2, UnusableHasCause, InvParts DEF SpentTokens, EndedTokens
    <3> QED
      BY <1>4, <2>1, <2>2, <3>1
  <2>3. CASE Usable(r) /\ Await(r, "refresh_user")
    <3>1. Operation(r)' = "refresh" /\ Found(r)' = {"token"}
      BY <1>3, <2>3 DEF Labels, Operation, Found, Registering, LoggingIn, Refreshing
    <3>2. Store!Pass(r, "token")
      BY <1>1, <2>1, <2>3, <3>1, AwaitShows, SameTables, SameTime DEF Labels, Store!Pass, Store!tokens
    <3>3. tok[r] \in LiveTokens
      BY <2>3 DEF LiveTokens, Usable, Stored
    <3>4. Store!FindToken(r)
      BY <1>2, <2>1, <3>2, <3>3 DEF Store!FindToken
    <3> QED
      BY <3>4 DEF Store!Next
  <2> QED
    BY <1>5, <2>2, <2>3 DEF RefreshSelect
<1>6. CASE RefreshUser(r)
  <2>1. pc[r] = "refresh_user" /\ Operation(r) = "refresh" /\ Found(r) = {"token"}
    BY <1>6, LabelShows DEF RefreshUser, Refreshing
  <2>2. CASE users[who[r]] # "active" /\ Answer(r, "unauthorized")
    BY <1>4, <2>1, <2>2
  <2>3. CASE users[who[r]] = "active" /\ Await(r, "refresh_add")
    <3>1. Operation(r)' = "refresh" /\ Found(r)' = {"token", "account"}
      BY <1>3, <2>3 DEF Labels, Operation, Found, Registering, LoggingIn, Refreshing
    <3>2. Found(r)' = Found(r) \cup {"account"}
      BY <2>1, <3>1
    <3>3. Store!Pass(r, "account")
      BY <1>1, <1>2, <2>1, <2>3, <3>1, <3>2, AwaitShows, SameTables, SameTime
         DEF Labels, Store!Pass, Store!tokens
    <3>4. Store!FindAccount(r)
      BY <1>2, <2>1, <2>3, <3>3 DEF Store!FindAccount
    <3> QED
      BY <3>4 DEF Store!Next
  <2> QED
    BY <1>6, <2>2, <2>3 DEF RefreshUser
<1>7. CASE RefreshUpdate(r)
  <2>1. /\ pc[r] = "refresh_update" /\ Operation(r) = "refresh"
        /\ Found(r) = {"token", "account"}
    BY <1>7, LabelShows DEF RefreshUpdate, Refreshing
  <2>2. Await(r, "refresh_insert")
    BY <1>7 DEF RefreshUpdate
  <2>3. Operation(r)' = "refresh" /\ Found(r)' = {"token", "account"}
    BY <1>3, <2>2 DEF Labels, Operation, Found, Registering, LoggingIn, Refreshing
  <2> QED
    BY <1>1, <2>1, <2>2, <2>3, GoesOn DEF Labels
<1>8. CASE RefreshInsert(r)
  <2>1. /\ pc[r] = "refresh_insert" /\ Operation(r) = "refresh"
        /\ Found(r) = {"token", "account"}
    BY <1>8, LabelShows DEF RefreshInsert, Refreshing
  <2>2. CASE Answer(r, "integrity_error")
    BY <1>1, <2>1, <2>2, FailMaps DEF Answers, Reported
  <2>3. CASE Await(r, "refresh_commit")
    <3>1. Operation(r)' = "refresh" /\ Found(r)' = {"token", "account"}
      BY <1>3, <2>3 DEF Labels, Operation, Found, Registering, LoggingIn, Refreshing
    <3> QED
      BY <1>1, <2>1, <2>3, <3>1, GoesOn DEF Labels
  <2> QED
    BY <1>8, <2>2, <2>3 DEF RefreshInsert, InsertToken
<1>9. CASE LogoutSelect(r)
  <2>1. pc[r] = "logout_select" /\ Operation(r) = "logout" /\ Found(r) = {}
    BY <1>9, LabelShows DEF LogoutSelect
  <2>2. CASE tok[r] \notin LiveTokens /\ Answer(r, "ok")
    <3>1. Store!Answer(r, "ok")
      BY <2>2, AnswerShows DEF Answers, Reported
    <3>2. LiveTokens' = LiveTokens \ {tok[r]} /\ SpentTokens' = SpentTokens \cup (LiveTokens \cap {tok[r]})
      BY <1>1, <2>2, SameTables
    <3>3. Store!Logout(r)
      BY <1>1, <1>2, <2>1, <3>1, <3>2, SameTime DEF Store!Logout
    <3> QED
      BY <3>3 DEF Store!Next
  <2>3. CASE Await(r, "logout_update")
    <3>1. Operation(r)' = "logout" /\ Found(r)' = {}
      BY <1>3, <2>3 DEF Labels, Operation, Found, Registering, LoggingIn, Refreshing
    <3> QED
      BY <1>1, <2>1, <2>3, <3>1, GoesOn DEF Labels
  <2> QED
    BY <1>9, <2>2, <2>3 DEF LogoutSelect, LiveTokens, Stored
<1>10. CASE LogoutUpdate(r)
  <2>1. pc[r] = "logout_update" /\ Operation(r) = "logout" /\ Found(r) = {}
    BY <1>10, LabelShows DEF LogoutUpdate
  <2>2. Await(r, "logout_commit")
    BY <1>10 DEF LogoutUpdate
  <2>3. Operation(r)' = "logout" /\ Found(r)' = {}
    BY <1>3, <2>2 DEF Labels, Operation, Found, Registering, LoggingIn, Refreshing
  <2> QED
    BY <1>1, <2>1, <2>2, <2>3, GoesOn DEF Labels
<1>11. CASE RefreshLookup(r)
  <2>1. pc[r] = "refresh_lookup" /\ Operation(r) = "refresh" /\ Found(r) = {}
    BY <1>11, LabelShows DEF RefreshLookup, Refreshing
  <2>2. Await(r, "refresh_select")
    BY <1>11 DEF RefreshLookup
  <2>3. Operation(r)' = "refresh" /\ Found(r)' = {}
    BY <1>3, <2>2 DEF Labels, Operation, Found, Registering, LoggingIn, Refreshing
  <2> QED
    BY <1>1, <2>1, <2>2, <2>3, GoesOn DEF Labels
<1>12. CASE RefreshAdd(r)
  <2>1. pc[r] = "refresh_add" /\ Operation(r) = "refresh" /\ Found(r) = {"token", "account"}
    BY <1>12, LabelShows DEF RefreshAdd, Refreshing
  <2>2. Await(r, "refresh_update")
    BY <1>12 DEF RefreshAdd, AddToken
  <2>3. Operation(r)' = "refresh" /\ Found(r)' = {"token", "account"}
    BY <1>3, <2>2 DEF Labels, Operation, Found, Registering, LoggingIn, Refreshing
  <2> QED
    BY <1>1, <2>1, <2>2, <2>3, GoesOn DEF Labels
<1> QED
  BY <1>5, <1>6, <1>7, <1>8, <1>9, <1>10, <1>11, <1>12

--------------------------------------------------------------------------------
(* The commits *)

\* A commit whose acknowledgement may be lost.
LEMMA CommittedShows ==
  ASSUME Inv, NEW r \in Requests, AnswerCommitted(r)
  PROVE  Store!Answer(r, "ok") \/ Store!Answer(r, "failed")
BY AnswerShows DEF AnswerCommitted, Answers, Reported

\* A registration makes the account that was not there.
LEMMA RegisterMaps ==
  ASSUME Inv, NEW r \in Requests, RegisterCommit(r)
  PROVE  Store!Register(r)
<1>1. /\ pc[r] = "register_commit" /\ AnswerCommitted(r)
      /\ users' = [users EXCEPT ![who[r]] = "active"]
      /\ UNCHANGED <<refresh_tokens, delivered, now>>
  BY DEF RegisterCommit
<1>2. users[who[r]] = "absent"
  BY <1>1, InvParts DEF PendingIsNew
<1>3. Serves(r).op = "register" /\ Serves(r).user = who[r]
  BY <1>1, LabelShows DEF Serves, Registering
<1> QED
  BY <1>1, <1>2, <1>3, CommittedShows, SameTables, SameTime DEF Store!Register, Store!tokens

\* The token a login or a refresh stores is one the store may mint for the account.
LEMMA MintedMaps ==
  ASSUME Inv, NEW r \in Requests, pc[r] \in Storing
  PROVE  /\ create_refresh_token(r) \in Tokens
         /\ Store!Mintable(r, create_refresh_token(r))
<1> DEFINE new == create_refresh_token(r)
<1>1. new \in Tokens \ DOMAIN refresh_tokens /\ new.user = who[r]
  BY MintedToken
<1>2. Serves(r).user = who[r]
  BY DEF Serves
<1> HIDE DEF new
<1>3. new \in Tokens \ (LiveTokens \cup SpentTokens) /\ new.user = Serves(r).user
  BY <1>1, <1>2 DEF LiveTokens, SpentTokens
<1> QED
  BY <1>3 DEF Store!Mintable, new

\* It is given to the client with the answer, or with no answer at all.
LEMMA GivenShows ==
  ASSUME Inv, NEW r \in Requests, NEW t,
         \/ Answer(r, "ok") /\ delivered' = delivered \cup {t}
         \/ Answer(r, "unavailable") /\ UNCHANGED delivered
  PROVE  Store!Give(r, t)
BY AnswerShows DEF Store!Give, Answers, Reported

LEMMA LoginMaps ==
  ASSUME Inv, NEW r \in Requests, LoginCommit(r)
  PROVE  Store!Login(r, create_refresh_token(r)) /\ create_refresh_token(r) \in Tokens
<1> DEFINE new == create_refresh_token(r)
<1>1. pc[r] = "login_commit" /\ pc[r] \in Storing /\ users' = users /\ now' = now
  BY DEF LoginCommit, Storing
<1>2. Serves(r).op = "login" /\ "account" \in Found(r)
  BY <1>1, LabelShows DEF Serves, LoggingIn
<1>3. new \in Tokens /\ Store!Mintable(r, new) /\ new \notin DOMAIN refresh_tokens
  BY <1>1, MintedMaps, MintedToken
<1>4. /\ DOMAIN refresh_tokens' = DOMAIN refresh_tokens \cup {new}
      /\ ~ refresh_tokens'[new].revoked
      /\ \A u \in DOMAIN refresh_tokens : refresh_tokens'[u] = refresh_tokens[u]
  <2>1. /\ DOMAIN refresh_tokens' = DOMAIN refresh_tokens \cup {new}
        /\ refresh_tokens'[new] = [expires_at |-> row_expiry(r), revoked |-> FALSE]
    BY LoginCommitEffect
  <2> QED
    BY <2>1, LoginCommitEffect
<1>5. Store!Give(r, new)
  BY GivenShows DEF LoginCommit
<1> HIDE DEF new
<1>6. LiveTokens' = LiveTokens \cup {new} /\ SpentTokens' = SpentTokens
  BY <1>3, <1>4 DEF LiveTokens, SpentTokens
<1>7. Store!Login(r, new)
  BY <1>1, <1>2, <1>3, <1>5, <1>6, SameTime DEF Store!Login
<1> QED
  BY <1>3, <1>7 DEF new

LEMMA RefreshMaps ==
  ASSUME Inv, NEW r \in Requests, RefreshCommit(r)
  PROVE  Store!Refresh(r, create_refresh_token(r)) /\ create_refresh_token(r) \in Tokens
<1> DEFINE new == create_refresh_token(r)
<1>1. pc[r] = "refresh_commit" /\ pc[r] \in Storing /\ users' = users /\ now' = now
  BY DEF RefreshCommit, Storing
<1>2. /\ Serves(r).op = "refresh" /\ Serves(r).token = tok[r]
      /\ {"token", "account"} \subseteq Found(r)
  BY <1>1, LabelShows DEF Serves, Refreshing
<1>3. new \in Tokens /\ Store!Mintable(r, new) /\ new \notin DOMAIN refresh_tokens
  BY <1>1, MintedMaps, MintedToken
<1>4. tok[r] \in DOMAIN refresh_tokens
  BY <1>1, InvParts DEF Works, Refreshing
<1>5. /\ DOMAIN refresh_tokens' = DOMAIN refresh_tokens \cup {new}
      /\ ~ refresh_tokens'[new].revoked
      /\ \A u \in DOMAIN refresh_tokens :
           refresh_tokens'[u].revoked <=> (u = tok[r] \/ refresh_tokens[u].revoked)
  <2>1. /\ DOMAIN refresh_tokens' = DOMAIN refresh_tokens \cup {new}
        /\ refresh_tokens'[new] = [expires_at |-> row_expiry(r), revoked |-> FALSE]
    BY RefreshCommitEffect
  <2> QED
    BY <2>1, RefreshCommitEffect
<1>6. Store!Give(r, new)
  BY GivenShows DEF RefreshCommit
<1> HIDE DEF new
<1>7. /\ LiveTokens' = (LiveTokens \ {tok[r]}) \cup {new}
      /\ SpentTokens' = SpentTokens \cup {tok[r]}
  BY <1>3, <1>4, <1>5 DEF LiveTokens, SpentTokens
<1>8. Store!Refresh(r, new)
  BY <1>1, <1>2, <1>3, <1>6, <1>7, SameTime DEF Store!Refresh
<1> QED
  BY <1>3, <1>8 DEF new

\* A logout spends its token, which another request may have spent since its SELECT.
LEMMA LogoutMaps ==
  ASSUME Inv, NEW r \in Requests, LogoutCommit(r)
  PROVE  Store!Logout(r)
<1>1. /\ pc[r] = "logout_commit" /\ AnswerCommitted(r)
      /\ UNCHANGED <<users, delivered, now>>
  BY DEF LogoutCommit
<1>2. Serves(r).op = "logout" /\ Serves(r).token = tok[r]
  BY <1>1, LabelShows DEF Serves
<1>3. tok[r] \in DOMAIN refresh_tokens
  BY <1>1, InvParts DEF Works, LoggingOut
<1>4. /\ DOMAIN refresh_tokens' = DOMAIN refresh_tokens
      /\ \A u \in DOMAIN refresh_tokens :
           refresh_tokens'[u].revoked <=> (u = tok[r] \/ refresh_tokens[u].revoked)
  BY LogoutCommitEffect
<1>5. /\ LiveTokens' = LiveTokens \ {tok[r]}
      /\ SpentTokens' = SpentTokens \cup (LiveTokens \cap {tok[r]})
  BY <1>3, <1>4 DEF LiveTokens, SpentTokens
<1> QED
  BY <1>1, <1>2, <1>5, CommittedShows, SameTime DEF Store!Logout

--------------------------------------------------------------------------------
(* The refinement *)

\* The clock shows in the tokens it ends, and an operator's step is the same in both.
LEMMA EnvironmentMaps ==
  ASSUME Inv, Tick \/ UNCHANGED vars \/ \E e \in Emails : Deactivate(e)
  PROVE  [Store!Next]_(Store!vars)
<1>1. UNCHANGED <<refresh_tokens, delivered, pc, who, tok, res>>
  BY DEF Tick, Deactivate, vars, database, request
<1>2. /\ [q \in Requests |-> Serves(q)]' = [q \in Requests |-> Serves(q)]
      /\ [q \in Requests |-> Found(q)]' = [q \in Requests |-> Found(q)]
      /\ [q \in Requests |-> Reported(res[q])]' = [q \in Requests |-> Reported(res[q])]
  BY <1>1 DEF Serves, Operation, Found
<1>3. ASSUME NEW e \in Emails, Deactivate(e) PROVE Store!Deactivate(e)
  BY <1>1, <1>2, <1>3, SameTables, SameTime DEF Deactivate, Store!Deactivate, Store!tokens
<1>4. CASE Tick
  <2>1. users' = users
    BY <1>4 DEF Tick, database
  <2>2. Store!Elapse
    BY <1>1, <1>2, <1>4, <2>1, SameTables, TimeElapses DEF Store!Elapse, Store!tokens
  <2> QED
    BY <2>2 DEF Store!Next
<1>5. CASE UNCHANGED vars
  BY <1>1, <1>2, <1>5, SameTables, SameTime DEF vars, Store!vars, Store!tokens
<1> QED
  BY <1>3, <1>4, <1>5 DEF Store!Next

LEMMA StepMaps == Inv /\ [Next]_vars => [Store!Next]_(Store!vars)
<1> SUFFICES ASSUME Inv, [Next]_vars PROVE [Store!Next]_(Store!vars)
  OBVIOUS
<1>1. ASSUME NEW r \in Requests, Fail(r) PROVE Store!Next
  BY <1>1, FailMaps DEF Fail, Answers, Reported, database
<1>2. ASSUME NEW r \in Requests,
             RegisterCommit(r) \/ LoginCommit(r) \/ RefreshCommit(r) \/ LogoutCommit(r)
      PROVE  Store!Next
  BY <1>2, RegisterMaps, LoginMaps, RefreshMaps, LogoutMaps DEF Store!Next
<1> QED
  BY <1>1, <1>2, ArriveMaps, EntryMaps, TokenMaps, EnvironmentMaps DEF Next, Handle

LEMMA InitMaps == Init => Store!Init
<1> SUFFICES ASSUME Init PROVE Store!Init
  OBVIOUS
<1>1. LiveTokens = {} /\ SpentTokens = {}
  BY DEF Init, LiveTokens, SpentTokens
<1>3. EndedTokens = {}
  <2>1. ASSUME NEW t \in Tokens PROVE ~ Expired(t)
    <3>1. t.iat \in Nat /\ now = 0
      BY TimeAssumption DEF Tokens, Init
    <3>2. t.iat + RefreshSeconds \in Nat \ {0}
      BY <3>1, RefreshAssumption
    <3>3. ASSUME NEW n \in Nat \ {0} PROVE TicksPerSecond * n > 0
      BY TicksAssumption, SMT
    <3> QED
      BY <3>1, <3>2, <3>3, TicksAssumption, RefreshAssumption DEF Expired, jwt_exp
  <2> QED
    BY <2>1 DEF EndedTokens
<1>2. \A r \in Requests : /\ Serves(r) = Store!NoAsk /\ Found(r) = {}
                          /\ Reported(res[r]) = "none"
  BY LabelShows DEF Init, Serves, Store!NoAsk, Reported
<1> QED
  BY <1>1, <1>2, <1>3 DEF Init, Store!Init

\* To its clients the auth service is the store of accounts and tokens, for every number
\* of concurrent requests and whatever fails: no request shows in another's answer but
\* through the accounts and tokens, and none gets tokens that were not its to get.
THEOREM Refinement == Spec => ImplementsAccountStore
<1>1. Init => Store!Init
  BY InitMaps
<1>2. Inv /\ [Next]_vars => [Store!Next]_(Store!vars)
  BY StepMaps
<1> QED
  BY <1>1, <1>2, Invariant, PTL DEF Spec, ImplementsAccountStore, Store!Spec
================================================================================
