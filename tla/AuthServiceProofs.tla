--------------------------- MODULE AuthServiceProofs ---------------------------
(* Proofs about the auth service, for every set of addresses and requests and   *)
(* every value of the clock constants.                                          *)
EXTENDS AuthService, TLAPS

\* Whole seconds round down.
LEMMA WholeSeconds ==
  ASSUME NEW n \in Nat
  PROVE  /\ n \div TicksPerSecond \in 0..n
         /\ TicksPerSecond * (n \div TicksPerSecond) <= n
BY TicksAssumption, SMT

\* The exp claim is a time.
LEMMA ExpType ==
  ASSUME NEW t \in Tokens
  PROVE  jwt_exp(t) \in Nat
<1>1. t.iat \in Nat
  BY TimeAssumption DEF Tokens
<1> QED
  BY <1>1, TicksAssumption, RefreshAssumption, SMT DEF jwt_exp

\* The expiry of a row is a time, and not before the exp of the token minted at an
\* earlier reading of the clock.
LEMMA ExpiryOrder ==
  ASSUME NEW r \in Requests, at[r] \in 0..MaxTime, added[r] \in 0..MaxTime, at[r] <= added[r]
  PROVE  /\ row_expiry(r) \in Nat
         /\ jwt_exp(create_refresh_token(r)) <= row_expiry(r)
<1> DEFINE s == at[r] \div TicksPerSecond
<1>1. /\ s \in Nat /\ TicksPerSecond * s <= at[r]
      /\ at[r] \in Nat /\ added[r] \in Nat /\ at[r] <= added[r]
  BY WholeSeconds, TimeAssumption
<1>2. TicksPerSecond * (s + RefreshSeconds) = TicksPerSecond * s + TicksPerSecond * RefreshSeconds
  BY <1>1, TicksAssumption, RefreshAssumption, SMT
<1>3. TicksPerSecond * RefreshSeconds \in Nat /\ TicksPerSecond * s \in Nat
  BY <1>1, TicksAssumption, RefreshAssumption, SMT
<1> QED
  BY <1>1, <1>2, <1>3 DEF row_expiry, jwt_exp, create_refresh_token

--------------------------------------------------------------------------------
(* What the helpers do *)

\* The UPDATE of a row: only the flag of that row changes.
LEMMA RevokeRowEffect ==
  ASSUME NEW table, NEW t, table \in [DOMAIN table -> Rows]
  PROVE  /\ DOMAIN RevokeRow(table, t) = DOMAIN table
         /\ RevokeRow(table, t) \in [DOMAIN table -> Rows]
         /\ \A u \in DOMAIN table :
              /\ RevokeRow(table, t)[u].expires_at = table[u].expires_at
              /\ RevokeRow(table, t)[u].revoked <=> (u = t \/ table[u].revoked)
BY DEF RevokeRow, Rows

\* A request other than the one that moves is left as it was.
Untouched(q) ==
  /\ pc'[q] = pc[q] /\ who'[q] = who[q] /\ tok'[q] = tok[q]
  /\ at'[q] = at[q] /\ added'[q] = added[q]
  /\ res'[q] = res[q] /\ barred'[q] = barred[q]

\* The clock readings of the requests that do not move.
OwnReadings(r) ==
  /\ at' \in [Requests -> 0..MaxTime] /\ added' \in [Requests -> 0..MaxTime]
  /\ \A q \in Requests \ {r} : at'[q] = at[q] /\ added'[q] = added[q]

\* An answer empties the slot and touches no other.
LEMMA AnswerEffect ==
  ASSUME NEW r \in Requests, NEW outcome \in Answers, RequestTypes, Answer(r, outcome)
  PROVE  /\ RequestTypes'
         /\ pc'[r] = "idle" /\ who'[r] = NoUser /\ tok'[r] = NoToken /\ at'[r] = 0
         /\ res'[r] = outcome /\ barred'[r] = FALSE
         /\ \A q \in Requests \ {r} : Untouched(q)
BY TimeAssumption DEF Answer, RequestTypes, Untouched, Labels

\* Going on to the next statement touches no other request.
LEMMA AwaitEffect ==
  ASSUME NEW r \in Requests, NEW label \in Labels, RequestTypes, Await(r, label),
         OwnReadings(r)
  PROVE  /\ RequestTypes'
         /\ pc'[r] = label /\ who'[r] = who[r] /\ tok'[r] = tok[r]
         /\ res'[r] = res[r] /\ barred'[r] = barred[r]
         /\ \A q \in Requests \ {r} : Untouched(q)
BY DEF Await, RequestTypes, Untouched, OwnReadings

LEMMA ReceiveEffect ==
  ASSUME NEW r \in Requests, NEW label \in Labels, NEW e \in Emails \cup {NoUser},
         NEW t \in Tokens \cup {NoToken}, NEW noRight \in BOOLEAN, RequestTypes,
         Receive(r, label, e, t, noRight),
         OwnReadings(r)
  PROVE  /\ RequestTypes'
         /\ pc[r] = "idle"
         /\ pc'[r] = label /\ who'[r] = e /\ tok'[r] = t
         /\ res'[r] = "none" /\ barred'[r] = noRight
         /\ \A q \in Requests \ {r} : Untouched(q)
BY DEF Receive, RequestTypes, Untouched, OwnReadings, Answers

--------------------------------------------------------------------------------
(* The inductive invariant *)

\* What no step takes back: time, rows and their expiry, revocations, accounts and
\* deactivations.
Kept ==
  /\ now' \in now..MaxTime
  /\ \A t \in DOMAIN refresh_tokens :
       /\ t \in DOMAIN refresh_tokens'
       /\ refresh_tokens'[t].expires_at = refresh_tokens[t].expires_at
       /\ refresh_tokens[t].revoked => refresh_tokens'[t].revoked
  /\ \A e \in Emails :
       /\ users[e] # "absent" => users'[e] # "absent"
       /\ users[e] = "inactive" => users'[e] = "inactive"

\* What a request that does not move relies on is kept.
LEMMA FrameStep ==
  ASSUME Inv, Kept, NEW q \in Requests, Untouched(q)
  PROVE  Works(q)' /\ HasAccount(q)' /\ Refused(q)'
<1>1. RequestTypes /\ DatabaseTypes /\ Works(q) /\ HasAccount(q) /\ Refused(q)
  BY DEF Inv, TypeOK, TokensHaveAccounts
<1>5. pc[q] \in ReadOnce => at[q] <= now'
  <2>1. at[q] \in Nat /\ now \in Nat /\ now' \in Nat /\ now <= now'
    BY <1>1, TimeAssumption DEF Inv, TypeOK, RequestTypes, Kept
  <2> QED
    BY <1>1, <2>1 DEF Works
<1>2. Works(q)'
  BY <1>1, <1>5 DEF Kept, Untouched, Works
<1>3. HasAccount(q)'
  BY <1>1 DEF Kept, Untouched, HasAccount, Works, LoggingIn
<1>4. Refused(q)'
  BY <1>1 DEF Kept, Untouched, Refused, Works, Registering, LoggingIn, Refreshing
<1> QED
  BY <1>2, <1>3, <1>4

\* The parts of the invariant the steps below rest on.
LEMMA InvParts ==
  ASSUME Inv
  PROVE  /\ DatabaseTypes /\ RequestTypes /\ now \in 0..MaxTime
         /\ delivered \subseteq DOMAIN refresh_tokens
         /\ \A r \in Requests : /\ Works(r) /\ HasAccount(r) /\ Refused(r) /\ PendingIsNew(r)
         /\ \A t \in DOMAIN refresh_tokens : /\ t \in Tokens /\ t.user \in Emails
                                             /\ users[t.user] # "absent"
                                             /\ refresh_tokens[t] \in Rows
BY DEF Inv, TypeOK, TokensHaveAccounts, UniqueIndexes, DatabaseTypes, Tokens

\* What the acting request relies on after its step, and that it acts alone.
Acts(r) ==
  /\ RequestTypes'
  /\ Works(r)' /\ HasAccount(r)' /\ Refused(r)'
  /\ \A q \in Requests \ {r} : Untouched(q)

\* An emptied slot relies on nothing.
LEMMA AnswerActs ==
  ASSUME NEW r \in Requests, NEW outcome \in Answers, Inv, Answer(r, outcome)
  PROVE  Acts(r) /\ pc'[r] = "idle"
<1>1. RequestTypes' /\ pc'[r] = "idle" /\ who'[r] = NoUser /\ tok'[r] = NoToken /\ barred'[r] = FALSE
  BY AnswerEffect, InvParts
<1>2. \A q \in Requests \ {r} : Untouched(q)
  BY AnswerEffect, InvParts
<1>3. Works(r)' /\ HasAccount(r)' /\ Refused(r)'
  BY <1>1 DEF Works, HasAccount, Refused, Registering, LoggingIn, Refreshing, LoggingOut,
              ReadOnce, ReadTwice
<1> QED
  BY <1>1, <1>2, <1>3 DEF Acts

\* Readings are taken by the request that moves, at the time it is.
LEMMA ReadingsTaken ==
  ASSUME NEW r \in Requests, Inv
  PROVE  /\ UNCHANGED clocks => OwnReadings(r) /\ at'[r] = at[r] /\ added'[r] = added[r]
         /\ at' = [at EXCEPT ![r] = now] /\ UNCHANGED added => OwnReadings(r) /\ at'[r] = now
         /\ added' = [added EXCEPT ![r] = now] /\ UNCHANGED at =>
              OwnReadings(r) /\ at'[r] = at[r] /\ added'[r] = now
BY InvParts DEF RequestTypes, OwnReadings, clocks

\* A request that has gone on to another statement.
LEMMA AwaitActs ==
  ASSUME NEW r \in Requests, NEW label \in Labels, Inv, Await(r, label), OwnReadings(r)
  PROVE  /\ RequestTypes' /\ pc'[r] = label
         /\ who'[r] = who[r] /\ tok'[r] = tok[r] /\ barred'[r] = barred[r]
         /\ res'[r] = res[r]
         /\ \A q \in Requests \ {r} : Untouched(q)
BY AwaitEffect, InvParts

\* The statements that change no table: arrivals, reads, and writes not yet
\* committed.
QuietStep(r) ==
  \/ Arrive(r) \/ Fail(r)
  \/ RegisterSelect(r) \/ RegisterInsert(r)
  \/ LoginSelect(r) \/ LoginVerify(r) \/ LoginAdd(r) \/ LoginInsert(r)
  \/ RefreshLookup(r) \/ RefreshSelect(r) \/ RefreshUser(r) \/ RefreshAdd(r)
  \/ RefreshUpdate(r) \/ RefreshInsert(r)
  \/ LogoutSelect(r) \/ LogoutUpdate(r)

LEMMA QuietUnchanged ==
  ASSUME NEW r \in Requests, QuietStep(r)
  PROVE  UNCHANGED <<database, now, delivered, exchanges>>
BY DEF QuietStep, Arrive, RegisterArrive, LoginArrive, RefreshArrive, RefreshReject, LogoutArrive,
       Fail, RegisterSelect, RegisterInsert, LoginSelect, LoginVerify, LoginAdd, AddToken,
       LoginInsert, InsertToken, RefreshLookup, RefreshSelect, RefreshUser, RefreshAdd,
       RefreshUpdate, RefreshInsert, LogoutSelect, LogoutUpdate

\* An arriving request relies on what its handler checked before any statement.
LEMMA ArriveActs ==
  ASSUME NEW r \in Requests, Inv, Arrive(r)
  PROVE  Acts(r)
<1>0. UNCHANGED <<database, now, delivered, exchanges>>
  BY QuietUnchanged DEF QuietStep
<1>1. CASE RegisterArrive(r)
  <2>1. PICK e \in Emails :
          Receive(r, "register_select", e, NoToken, users[e] # "absent") /\ UNCHANGED clocks
    BY <1>1 DEF RegisterArrive
  <2>2. OwnReadings(r)
    BY <2>1, ReadingsTaken
  <2>3. /\ RequestTypes' /\ pc'[r] = "register_select" /\ who'[r] = e
        /\ barred'[r] = (users[e] # "absent")
        /\ res'[r] = "none" /\ \A q \in Requests \ {r} : Untouched(q)
    BY <2>1, <2>2, ReceiveEffect, InvParts DEF Labels
  <2> QED
    BY <1>0, <2>3 DEF Acts, Works, HasAccount, Refused, Registering, LoggingIn, Refreshing,
                      LoggingOut, ReadOnce, ReadTwice, database
<1>2. CASE LoginArrive(r)
  <2>1. PICK e \in Emails :
          Receive(r, "login_select", e, NoToken, users[e] = "inactive") /\ UNCHANGED clocks
    BY <1>2 DEF LoginArrive
  <2>2. OwnReadings(r)
    BY <2>1, ReadingsTaken
  <2>3. /\ RequestTypes' /\ pc'[r] = "login_select" /\ who'[r] = e
        /\ barred'[r] = (users[e] = "inactive")
        /\ res'[r] = "none" /\ \A q \in Requests \ {r} : Untouched(q)
    BY <2>1, <2>2, ReceiveEffect, InvParts DEF Labels
  <2> QED
    BY <1>0, <2>3 DEF Acts, Works, HasAccount, Refused, Registering, LoggingIn, Refreshing,
                      LoggingOut, ReadOnce, ReadTwice, database
<1>3. CASE RefreshArrive(r)
  <2> DEFINE noRight(t) == refresh_tokens[t].revoked \/ users[t.user] # "active"
  <2>1. PICK t \in delivered :
          /\ ~ Expired(t)
          /\ Receive(r, "refresh_lookup", t.user, t, noRight(t))
          /\ UNCHANGED clocks
    BY <1>3 DEF RefreshArrive
  <2>2. OwnReadings(r)
    BY <2>1, ReadingsTaken
  <2>3. /\ t \in DOMAIN refresh_tokens /\ t \in Tokens /\ t.user \in Emails
        /\ users[t.user] \in {"active", "inactive"}
        /\ refresh_tokens[t].revoked \in BOOLEAN
        /\ noRight(t) \in BOOLEAN
    BY <2>1, InvParts DEF DatabaseTypes, Rows
  <2>4. /\ RequestTypes' /\ pc'[r] = "refresh_lookup" /\ who'[r] = t.user /\ tok'[r] = t
        /\ barred'[r] = noRight(t) /\ res'[r] = "none"
        /\ \A q \in Requests \ {r} : Untouched(q)
    <3> HIDE DEF noRight
    <3> QED
      BY <2>1, <2>2, <2>3, ReceiveEffect, InvParts DEF Labels
  <2>6. Works(r)'
    BY <1>0, <2>3, <2>4 DEF Works, Registering, LoggingIn, Refreshing, LoggingOut, ReadOnce,
                            ReadTwice, database
  <2>7. HasAccount(r)' /\ Refused(r)'
    BY <1>0, <2>3, <2>4 DEF HasAccount, Refused, LoggingIn, database
  <2> QED
    BY <2>4, <2>6, <2>7 DEF Acts
<1>4. CASE RefreshReject(r)
  BY <1>4, AnswerActs DEF RefreshReject, Answers
<1>5. CASE LogoutArrive(r)
  <2>1. PICK t \in delivered \cup {NoToken} :
          Receive(r, "logout_select", NoUser, t, FALSE) /\ UNCHANGED clocks
    BY <1>5 DEF LogoutArrive
  <2>2. OwnReadings(r)
    BY <2>1, ReadingsTaken
  <2>3. t \in Tokens \cup {NoToken}
    BY InvParts DEF DatabaseTypes
  <2>4. /\ RequestTypes' /\ pc'[r] = "logout_select" /\ barred'[r] = FALSE
        /\ res'[r] = "none" /\ \A q \in Requests \ {r} : Untouched(q)
    BY <2>1, <2>2, <2>3, ReceiveEffect, InvParts DEF Labels
  <2> QED
    BY <2>4 DEF Acts, Works, HasAccount, Refused, Registering, LoggingIn, Refreshing, LoggingOut,
                ReadOnce, ReadTwice
<1> QED
  BY <1>1, <1>2, <1>3, <1>4, <1>5 DEF Arrive

\* A handler step leaves the request either answered or ready for its next statement.
LEMMA HandleActs ==
  ASSUME NEW r \in Requests, Inv, Handle(r)
  PROVE  Acts(r)
<1> DEFINE Frame(label) ==
      Await(r, label) /\ label \in Labels /\ UNCHANGED <<users, refresh_tokens, now>>
    Goes(label) == Frame(label) /\ UNCHANGED clocks
    Reads(label) == Frame(label) /\ at' = [at EXCEPT ![r] = now] /\ UNCHANGED added
    Adds(label) == Frame(label) /\ added' = [added EXCEPT ![r] = now] /\ UNCHANGED at
<1>p. /\ DatabaseTypes /\ RequestTypes /\ Works(r) /\ HasAccount(r) /\ Refused(r)
      /\ now \in Nat /\ at[r] \in Nat
  BY InvParts, TimeAssumption DEF RequestTypes
<1>a. ASSUME NEW label \in Labels, Goes(label) \/ Reads(label) \/ Adds(label)
      PROVE  /\ RequestTypes' /\ pc'[r] = label
             /\ who'[r] = who[r] /\ tok'[r] = tok[r] /\ barred'[r] = barred[r]
             /\ res'[r] = res[r]
             /\ \A q \in Requests \ {r} : Untouched(q)
             /\ Goes(label) => at'[r] = at[r] /\ added'[r] = added[r]
             /\ Reads(label) => at'[r] = now'
             /\ Adds(label) => at'[r] = at[r] /\ added'[r] = now
  BY <1>a, AwaitActs, ReadingsTaken
<1>b. ASSUME NEW outcome \in Answers, Answer(r, outcome) PROVE Acts(r)
  BY <1>b, AnswerActs
<1>1. CASE RegisterSelect(r)
  <2>1. \/ Answer(r, "conflict")
        \/ pc[r] = "register_select" /\ Goes("register_insert") /\ users[who[r]] = "absent"
    BY <1>1 DEF RegisterSelect, database, Answers, Labels
  <2>2. CASE Answer(r, "conflict")
    BY <1>b, <2>2 DEF Answers
  <2>3. CASE pc[r] = "register_select" /\ Goes("register_insert") /\ users[who[r]] = "absent"
    BY <1>a, <1>p, <2>3 DEF Acts, Works, HasAccount, Refused, Labels, Registering, LoggingIn,
                            Refreshing, LoggingOut, ReadOnce, ReadTwice
  <2> QED
    BY <2>1, <2>2, <2>3
<1>2. CASE RegisterInsert(r)
  <2>1. \/ Answer(r, "integrity_error")
        \/ pc[r] = "register_insert" /\ Goes("register_commit")
    BY <1>2 DEF RegisterInsert, database, Answers, Labels
  <2>2. CASE Answer(r, "integrity_error")
    BY <1>b, <2>2 DEF Answers
  <2>3. CASE pc[r] = "register_insert" /\ Goes("register_commit")
    BY <1>a, <1>p, <2>3 DEF Acts, Works, HasAccount, Refused, Labels, Registering, LoggingIn,
                            Refreshing, LoggingOut, ReadOnce, ReadTwice
  <2> QED
    BY <2>1, <2>2, <2>3
<1>3. CASE LoginSelect(r)
  <2>1. \/ Answer(r, "unauthorized")
        \/ pc[r] = "login_select" /\ Goes("login_verify") /\ users[who[r]] = "active"
    BY <1>3 DEF LoginSelect, database, Answers, Labels
  <2>2. CASE Answer(r, "unauthorized")
    BY <1>b, <2>2 DEF Answers
  <2>3. CASE pc[r] = "login_select" /\ Goes("login_verify") /\ users[who[r]] = "active"
    BY <1>a, <1>p, <2>3 DEF Acts, Works, HasAccount, Refused, Labels, Registering, LoggingIn,
                            Refreshing, LoggingOut, ReadOnce, ReadTwice
  <2> QED
    BY <2>1, <2>2, <2>3
<1>4. CASE LoginVerify(r)
  <2>1. \/ Answer(r, "unauthorized")
        \/ pc[r] = "login_verify" /\ Reads("login_add")
    BY <1>4 DEF LoginVerify, database, Answers, Labels
  <2>2. CASE Answer(r, "unauthorized")
    BY <1>b, <2>2 DEF Answers
  <2>3. CASE pc[r] = "login_verify" /\ Reads("login_add")
    BY <1>a, <1>p, <2>3 DEF Acts, Works, HasAccount, Refused, Labels, Registering, LoggingIn,
                            Refreshing, LoggingOut, ReadOnce, ReadTwice
  <2> QED
    BY <2>1, <2>2, <2>3
<1>5. CASE LoginInsert(r)
  <2>1. \/ Answer(r, "integrity_error")
        \/ pc[r] = "login_insert" /\ Goes("login_commit")
    BY <1>5 DEF LoginInsert, database, Answers, Labels, InsertToken
  <2>2. CASE Answer(r, "integrity_error")
    BY <1>b, <2>2 DEF Answers
  <2>3. CASE pc[r] = "login_insert" /\ Goes("login_commit")
    BY <1>a, <1>p, <2>3 DEF Acts, Works, HasAccount, Refused, Labels, Registering, LoggingIn,
                            Refreshing, LoggingOut, ReadOnce, ReadTwice
  <2> QED
    BY <2>1, <2>2, <2>3
<1>6. CASE RefreshSelect(r)
  <2>1. \/ Answer(r, "unauthorized")
        \/ pc[r] = "refresh_select" /\ Goes("refresh_user") /\ ~ refresh_tokens[tok[r]].revoked
    BY <1>6 DEF RefreshSelect, database, Answers, Labels, Usable, Stored
  <2>2. CASE Answer(r, "unauthorized")
    BY <1>b, <2>2 DEF Answers
  <2>3. CASE pc[r] = "refresh_select" /\ Goes("refresh_user") /\ ~ refresh_tokens[tok[r]].revoked
    BY <1>a, <1>p, <2>3 DEF Acts, Works, HasAccount, Refused, Labels, Registering, LoggingIn,
                            Refreshing, LoggingOut, ReadOnce, ReadTwice
  <2> QED
    BY <2>1, <2>2, <2>3
<1>7. CASE RefreshUser(r)
  <2>1. \/ Answer(r, "unauthorized")
        \/ pc[r] = "refresh_user" /\ Reads("refresh_add") /\ users[who[r]] = "active"
    BY <1>7 DEF RefreshUser, database, Answers, Labels
  <2>2. CASE Answer(r, "unauthorized")
    BY <1>b, <2>2 DEF Answers
  <2>3. CASE pc[r] = "refresh_user" /\ Reads("refresh_add") /\ users[who[r]] = "active"
    BY <1>a, <1>p, <2>3 DEF Acts, Works, HasAccount, Refused, Labels, Registering, LoggingIn,
                            Refreshing, LoggingOut, ReadOnce, ReadTwice
  <2> QED
    BY <2>1, <2>2, <2>3
<1>8. CASE RefreshUpdate(r)
  <2>1. pc[r] = "refresh_update" /\ Goes("refresh_insert")
    BY <1>8 DEF RefreshUpdate, database, Answers, Labels
  <2> QED
    BY <1>a, <1>p, <2>1 DEF Acts, Works, HasAccount, Refused, Labels, Registering, LoggingIn,
                            Refreshing, LoggingOut, ReadOnce, ReadTwice
<1>9. CASE RefreshInsert(r)
  <2>1. \/ Answer(r, "integrity_error")
        \/ pc[r] = "refresh_insert" /\ Goes("refresh_commit")
    BY <1>9 DEF RefreshInsert, database, Answers, Labels, InsertToken
  <2>2. CASE Answer(r, "integrity_error")
    BY <1>b, <2>2 DEF Answers
  <2>3. CASE pc[r] = "refresh_insert" /\ Goes("refresh_commit")
    BY <1>a, <1>p, <2>3 DEF Acts, Works, HasAccount, Refused, Labels, Registering, LoggingIn,
                            Refreshing, LoggingOut, ReadOnce, ReadTwice
  <2> QED
    BY <2>1, <2>2, <2>3
<1>10. CASE LogoutSelect(r)
  <2>1. \/ Answer(r, "ok")
        \/ pc[r] = "logout_select" /\ Goes("logout_update") /\ tok[r] \in DOMAIN refresh_tokens
    BY <1>10 DEF LogoutSelect, database, Answers, Labels, Stored
  <2>2. CASE Answer(r, "ok")
    BY <1>b, <2>2 DEF Answers
  <2>3. CASE pc[r] = "logout_select" /\ Goes("logout_update") /\ tok[r] \in DOMAIN refresh_tokens
    BY <1>a, <1>p, <2>3 DEF Acts, Works, HasAccount, Refused, Labels, Registering, LoggingIn,
                            Refreshing, LoggingOut, ReadOnce, ReadTwice
  <2> QED
    BY <2>1, <2>2, <2>3
<1>11. CASE LogoutUpdate(r)
  <2>1. pc[r] = "logout_update" /\ Goes("logout_commit")
    BY <1>11 DEF LogoutUpdate, database, Answers, Labels
  <2> QED
    BY <1>a, <1>p, <2>1 DEF Acts, Works, HasAccount, Refused, Labels, Registering, LoggingIn,
                            Refreshing, LoggingOut, ReadOnce, ReadTwice
<1>12. CASE LoginAdd(r)
  <2>1. pc[r] = "login_add" /\ Adds("login_insert")
    BY <1>12 DEF LoginAdd, AddToken, database, Labels
  <2> QED
    BY <1>a, <1>p, <2>1 DEF Acts, Works, HasAccount, Refused, Labels, Registering, LoggingIn,
                            Refreshing, LoggingOut, ReadOnce, ReadTwice
<1>13. CASE RefreshLookup(r)
  <2>1. pc[r] = "refresh_lookup" /\ Reads("refresh_select")
    BY <1>13 DEF RefreshLookup, database, Labels
  <2> QED
    BY <1>a, <1>p, <2>1 DEF Acts, Works, HasAccount, Refused, Labels, Registering, LoggingIn,
                            Refreshing, LoggingOut, ReadOnce, ReadTwice
<1>14. CASE RefreshAdd(r)
  <2>1. pc[r] = "refresh_add" /\ Adds("refresh_update")
    BY <1>14 DEF RefreshAdd, AddToken, database, Labels
  <2> QED
    BY <1>a, <1>p, <2>1 DEF Acts, Works, HasAccount, Refused, Labels, Registering, LoggingIn,
                            Refreshing, LoggingOut, ReadOnce, ReadTwice
<1>15. CASE RegisterCommit(r) \/ LogoutCommit(r)
  BY <1>15, <1>b DEF RegisterCommit, LogoutCommit, AnswerCommitted, Answers
<1>16. CASE LoginCommit(r) \/ RefreshCommit(r)
  BY <1>16, <1>b DEF LoginCommit, RefreshCommit, Answers
<1> QED
  BY <1>1, <1>2, <1>3, <1>4, <1>5, <1>6, <1>7, <1>8, <1>9, <1>10, <1>11, <1>12, <1>13,
     <1>14, <1>15, <1>16 DEF Handle

\* The token a commit is about to store is new, well formed and of an account.
LEMMA MintedToken ==
  ASSUME NEW r \in Requests, Inv, pc[r] \in Storing
  PROVE  /\ create_refresh_token(r) \in Tokens \ DOMAIN refresh_tokens
         /\ create_refresh_token(r).user = who[r]
         /\ who[r] \in Emails /\ users[who[r]] # "absent"
         /\ row_expiry(r) \in Nat
         /\ jwt_exp(create_refresh_token(r)) <= row_expiry(r)
<1>1. /\ at[r] \in 0..MaxTime /\ added[r] \in 0..MaxTime
      /\ Works(r) /\ HasAccount(r) /\ PendingIsNew(r)
  BY InvParts DEF RequestTypes
<1>6. at[r] <= added[r]
  BY <1>1 DEF Storing, Works, ReadTwice
<1>2. who[r] \in Emails /\ users[who[r]] # "absent"
  BY <1>1, InvParts DEF Storing, Works, HasAccount, LoggingIn, Refreshing
<1>3. at[r] \div TicksPerSecond \in 0..MaxTime
  <2>1. at[r] \div TicksPerSecond \in 0..at[r]
    BY <1>1, WholeSeconds, TimeAssumption
  <2> QED
    BY <1>1, <2>1, TimeAssumption
<1>4. create_refresh_token(r) \in Tokens /\ create_refresh_token(r).user = who[r]
  BY <1>2, <1>3 DEF create_refresh_token, Tokens
<1>5. create_refresh_token(r) \notin DOMAIN refresh_tokens
  BY <1>1 DEF PendingIsNew, Stored
<1> QED
  BY <1>1, <1>2, <1>4, <1>5, <1>6, ExpiryOrder

\* The table after the commit of a login.
LEMMA LoginCommitEffect ==
  ASSUME NEW r \in Requests, Inv, LoginCommit(r)
  PROVE  /\ refresh_tokens' \in [DOMAIN refresh_tokens \cup {create_refresh_token(r)} -> Rows]
         /\ refresh_tokens'[create_refresh_token(r)] =
              [expires_at |-> row_expiry(r), revoked |-> FALSE]
         /\ \A u \in DOMAIN refresh_tokens : refresh_tokens'[u] = refresh_tokens[u]
<1>1. create_refresh_token(r) \notin DOMAIN refresh_tokens /\ row_expiry(r) \in Nat
  BY MintedToken DEF LoginCommit, Storing
<1>2. refresh_tokens \in [DOMAIN refresh_tokens -> Rows]
  BY InvParts DEF DatabaseTypes
<1>3. refresh_tokens' = InsertRow(refresh_tokens, create_refresh_token(r), row_expiry(r))
  BY DEF LoginCommit
<1> QED
  BY <1>1, <1>2, <1>3 DEF InsertRow, Rows

\* The table after the commit of a logout.
LEMMA LogoutCommitEffect ==
  ASSUME NEW r \in Requests, Inv, LogoutCommit(r)
  PROVE  /\ refresh_tokens' \in [DOMAIN refresh_tokens -> Rows]
         /\ \A u \in DOMAIN refresh_tokens :
              /\ refresh_tokens'[u].expires_at = refresh_tokens[u].expires_at
              /\ refresh_tokens'[u].revoked <=> (u = tok[r] \/ refresh_tokens[u].revoked)
BY RevokeRowEffect, InvParts DEF LogoutCommit, DatabaseTypes

\* The table after the commit of a refresh.
LEMMA RefreshCommitEffect ==
  ASSUME NEW r \in Requests, Inv, RefreshCommit(r)
  PROVE  /\ refresh_tokens' \in [DOMAIN refresh_tokens \cup {create_refresh_token(r)} -> Rows]
         /\ refresh_tokens'[create_refresh_token(r)] =
              [expires_at |-> row_expiry(r), revoked |-> FALSE]
         /\ \A u \in DOMAIN refresh_tokens :
              /\ refresh_tokens'[u].expires_at = refresh_tokens[u].expires_at
              /\ refresh_tokens'[u].revoked <=> (u = tok[r] \/ refresh_tokens[u].revoked)
<1> DEFINE new == create_refresh_token(r)
           half == RevokeRow(refresh_tokens, tok[r])
<1>1. new \notin DOMAIN refresh_tokens /\ row_expiry(r) \in Nat
  BY MintedToken DEF RefreshCommit, Storing
<1>2. refresh_tokens \in [DOMAIN refresh_tokens -> Rows]
  BY InvParts DEF DatabaseTypes
<1>3. /\ DOMAIN half = DOMAIN refresh_tokens /\ half \in [DOMAIN half -> Rows]
      /\ \A u \in DOMAIN refresh_tokens :
           /\ half[u].expires_at = refresh_tokens[u].expires_at
           /\ half[u].revoked <=> (u = tok[r] \/ refresh_tokens[u].revoked)
  BY <1>2, RevokeRowEffect
<1>4. refresh_tokens' = InsertRow(half, new, row_expiry(r))
  BY DEF RefreshCommit
<1> HIDE DEF new, half
<1>5. /\ refresh_tokens' \in [DOMAIN half \cup {new} -> Rows]
      /\ refresh_tokens'[new] = [expires_at |-> row_expiry(r), revoked |-> FALSE]
      /\ \A u \in DOMAIN half \ {new} : refresh_tokens'[u] = half[u]
  BY <1>1, <1>3, <1>4 DEF InsertRow, Rows
<1> QED
  BY <1>1, <1>3, <1>5 DEF new

\* The clock only moves forward, up to its bound.
LEMMA ClockStep ==
  ASSUME Inv, [Next]_vars
  PROVE  now' \in now..MaxTime
<1>1. now \in 0..MaxTime
  BY InvParts
<1>2. now' = now \/ Tick
  BY QuietUnchanged DEF Next, Handle, QuietStep, RegisterCommit, LoginCommit, RefreshCommit,
                        LogoutCommit, Deactivate, vars
<1> QED
  BY <1>1, <1>2, TimeAssumption DEF Tick

\* Every step keeps the types of the tables and takes nothing back.
LEMMA DatabaseStep ==
  ASSUME Inv, [Next]_vars
  PROVE  DatabaseTypes' /\ Kept /\ delivered' \subseteq DOMAIN refresh_tokens'
<1>p. /\ DatabaseTypes /\ RequestTypes /\ delivered \subseteq DOMAIN refresh_tokens
      /\ now' \in now..MaxTime
  BY InvParts, ClockStep
<1>0. CASE UNCHANGED <<users, refresh_tokens, delivered>>
  BY <1>0, <1>p DEF DatabaseTypes, Kept
<1>1. ASSUME NEW r \in Requests, QuietStep(r) PROVE UNCHANGED <<users, refresh_tokens, delivered>>
  BY <1>1, QuietUnchanged DEF database
<1>2. CASE Tick \/ UNCHANGED vars
  BY <1>2, <1>0 DEF Tick, vars, database
<1>3. ASSUME NEW e \in Emails, Deactivate(e)
      PROVE  DatabaseTypes' /\ Kept /\ delivered' \subseteq DOMAIN refresh_tokens'
  BY <1>3, <1>p DEF Deactivate, DatabaseTypes, Kept
<1>4. ASSUME NEW r \in Requests, RegisterCommit(r)
      PROVE  DatabaseTypes' /\ Kept /\ delivered' \subseteq DOMAIN refresh_tokens'
  <2>1. users[who[r]] = "absent"
    BY <1>4, InvParts DEF RegisterCommit, PendingIsNew
  <2>2. users' = [users EXCEPT ![who[r]] = "active"] /\ UNCHANGED <<refresh_tokens, delivered>>
    BY <1>4 DEF RegisterCommit
  <2> QED
    BY <2>1, <2>2, <1>p DEF DatabaseTypes, Kept
<1>5. ASSUME NEW r \in Requests, LoginCommit(r)
      PROVE  DatabaseTypes' /\ Kept /\ delivered' \subseteq DOMAIN refresh_tokens'
  <2>1. create_refresh_token(r) \in Tokens
    BY <1>5, MintedToken DEF LoginCommit, Storing
  <2>2. /\ users' = users
        /\ delivered' \in {delivered, delivered \cup {create_refresh_token(r)}}
    BY <1>5 DEF LoginCommit
  <2> QED
    BY <2>1, <2>2, <1>p, <1>5, LoginCommitEffect DEF DatabaseTypes, Kept
<1>6. ASSUME NEW r \in Requests, RefreshCommit(r)
      PROVE  DatabaseTypes' /\ Kept /\ delivered' \subseteq DOMAIN refresh_tokens'
  <2>1. create_refresh_token(r) \in Tokens
    BY <1>6, MintedToken DEF RefreshCommit, Storing
  <2>2. /\ users' = users
        /\ delivered' \in {delivered, delivered \cup {create_refresh_token(r)}}
    BY <1>6 DEF RefreshCommit
  <2> QED
    BY <2>1, <2>2, <1>p, <1>6, RefreshCommitEffect DEF DatabaseTypes, Kept
<1>7. ASSUME NEW r \in Requests, LogoutCommit(r)
      PROVE  DatabaseTypes' /\ Kept /\ delivered' \subseteq DOMAIN refresh_tokens'
  <2>1. users' = users /\ delivered' = delivered
    BY <1>7 DEF LogoutCommit
  <2> QED
    BY <2>1, <1>p, <1>7, LogoutCommitEffect DEF DatabaseTypes, Kept
<1> QED
  BY <1>0, <1>1, <1>2, <1>3, <1>4, <1>5, <1>6, <1>7 DEF Next, Handle, QuietStep

\* The parts of the acting request that make its pending key.
LEMMA SameKey ==
  ASSUME NEW q, who'[q] = who[q], at'[q] = at[q]
  PROVE  create_refresh_token(q)' = create_refresh_token(q)
BY DEF create_refresh_token

\* A key becomes pending only after the unique index was looked at.
LEMMA QuietPending ==
  ASSUME NEW r \in Requests, Inv, QuietStep(r)
  PROVE  \/ pc'[r] \notin Storing \cup {"register_commit"}
         \/ /\ pc'[r] = "register_commit" /\ who'[r] = who[r]
            /\ users[who[r]] = "absent" /\ ~ EmailPending(who[r])
         \/ /\ pc'[r] \in Storing
            /\ ~ Stored(create_refresh_token(r)) /\ ~ KeyPending(create_refresh_token(r))
            /\ create_refresh_token(r)' = create_refresh_token(r)
<1> USE DEF Storing
<1>p. pc \in [Requests -> Labels]
  BY InvParts DEF RequestTypes
<1>1. CASE Arrive(r) \/ Fail(r)
  <2>1. pc'[r] \in {"idle", "register_select", "login_select", "refresh_lookup", "logout_select"}
    BY <1>1, <1>p DEF Arrive, RegisterArrive, LoginArrive, RefreshArrive, RefreshReject,
                      LogoutArrive, Fail, Receive, Answer
  <2> QED
    BY <2>1
<1>2. CASE RegisterSelect(r) \/ LoginSelect(r) \/ LoginVerify(r) \/ LoginAdd(r)
  <2>1. pc'[r] \in {"idle", "register_insert", "login_verify", "login_add", "login_insert"}
    BY <1>2, <1>p DEF RegisterSelect, LoginSelect, LoginVerify, LoginAdd, AddToken, Answer, Await
  <2> QED
    BY <2>1
<1>3. CASE \/ RefreshLookup(r) \/ RefreshSelect(r) \/ RefreshUser(r) \/ RefreshAdd(r)
           \/ RefreshUpdate(r) \/ LogoutSelect(r) \/ LogoutUpdate(r)
  <2>1. pc'[r] \in {"idle", "refresh_select", "refresh_user", "refresh_add", "refresh_update",
                    "refresh_insert", "logout_update", "logout_commit"}
    BY <1>3, <1>p DEF RefreshLookup, RefreshSelect, RefreshUser, RefreshAdd, AddToken,
                      RefreshUpdate, LogoutSelect, LogoutUpdate, Answer, Await
  <2> QED
    BY <2>1
<1>4. CASE RegisterInsert(r)
  BY <1>4, <1>p DEF RegisterInsert, Answer, Await
<1>5. CASE LoginInsert(r) \/ RefreshInsert(r)
  <2>1. /\ ~ KeyPending(create_refresh_token(r))
        /\ \/ pc'[r] = "idle"
           \/ /\ ~ Stored(create_refresh_token(r))
              /\ pc'[r] \in Storing /\ who' = who /\ at' = at
    BY <1>5, <1>p DEF LoginInsert, RefreshInsert, InsertToken, Answer, Await, clocks
  <2> QED
    BY <2>1, SameKey
<1> QED
  BY <1>1, <1>2, <1>3, <1>4, <1>5 DEF QuietStep

\* A commit takes its own key out of the pending ones.
LEMMA CommitPending ==
  ASSUME NEW r \in Requests, Inv, RegisterCommit(r) \/ LoginCommit(r) \/ RefreshCommit(r)
  PROVE  /\ pc'[r] = "idle"
         /\ \A q \in Requests \ {r} : Untouched(q)
         /\ \/ /\ pc[r] = "register_commit" /\ refresh_tokens' = refresh_tokens
               /\ users' = [users EXCEPT ![who[r]] = "active"]
            \/ /\ pc[r] \in Storing /\ users' = users
               /\ DOMAIN refresh_tokens' =
                    DOMAIN refresh_tokens \cup {create_refresh_token(r)}
<1>1. CASE RegisterCommit(r)
  <2>1. PICK outcome \in {"ok", "unavailable"} : Answer(r, outcome)
    BY <1>1 DEF RegisterCommit, AnswerCommitted
  <2> QED
    BY <1>1, <2>1, AnswerActs DEF RegisterCommit, Answers, Acts
<1>2. CASE LoginCommit(r)
  <2>1. Answer(r, "ok") \/ Answer(r, "unavailable")
    BY <1>2 DEF LoginCommit
  <2>2. pc[r] \in Storing /\ users' = users
    BY <1>2 DEF LoginCommit, Storing
  <2> QED
    BY <1>2, <2>1, <2>2, AnswerActs, LoginCommitEffect DEF Answers, Acts
<1>3. CASE RefreshCommit(r)
  <2>1. Answer(r, "ok") \/ Answer(r, "unavailable")
    BY <1>3 DEF RefreshCommit
  <2>2. pc[r] \in Storing /\ users' = users
    BY <1>3 DEF RefreshCommit, Storing
  <2> QED
    BY <1>3, <2>1, <2>2, AnswerActs, RefreshCommitEffect DEF Answers, Acts
<1> QED
  BY <1>1, <1>2, <1>3

\* Every step keeps the unique indexes.
LEMMA UniqueStep ==
  ASSUME Inv, [Next]_vars
  PROVE  UniqueIndexes'
<1>p. /\ UniqueIndexes /\ DatabaseTypes /\ RequestTypes
  BY InvParts DEF Inv
<1>0. CASE UNCHANGED <<users, refresh_tokens, pc, who, at>>
  BY <1>0, <1>p DEF UniqueIndexes, PendingIsNew, PendingApart, Stored, create_refresh_token
<1>1. ASSUME NEW r \in Requests, QuietStep(r) PROVE UniqueIndexes'
  <2>1. UNCHANGED <<users, refresh_tokens>> /\ \A q \in Requests \ {r} : Untouched(q)
    BY <1>1, QuietUnchanged, ArriveActs, HandleActs, AnswerActs
       DEF QuietStep, Fail, Handle, Acts, database, Answers
  <2>2. \A q \in Requests \ {r} :
          /\ pc'[q] = pc[q] /\ who'[q] = who[q]
          /\ create_refresh_token(q)' = create_refresh_token(q)
    BY <2>1, SameKey DEF Untouched
  <2>3. \A q \in Requests : PendingIsNew(q)'
    BY <1>1, <1>p, <2>1, <2>2, QuietPending DEF UniqueIndexes, PendingIsNew, Stored, Storing
  <2>4. \A q \in Requests \ {r} : PendingApart(r, q)' /\ PendingApart(q, r)'
    BY <1>1, <2>2, QuietPending DEF PendingApart, EmailPending, KeyPending, Storing
  <2>5. \A q, s \in Requests \ {r} : q # s => PendingApart(q, s)'
    BY <1>p, <2>2 DEF UniqueIndexes, PendingApart
  <2> QED
    BY <2>3, <2>4, <2>5 DEF UniqueIndexes
<1>2. ASSUME NEW r \in Requests, RegisterCommit(r) \/ LoginCommit(r) \/ RefreshCommit(r)
      PROVE  UniqueIndexes'
  <2>1. pc'[r] = "idle" /\ \A q \in Requests \ {r} : Untouched(q)
    BY <1>2, CommitPending
  <2>2. \A q \in Requests \ {r} :
          /\ pc'[q] = pc[q] /\ who'[q] = who[q]
          /\ create_refresh_token(q)' = create_refresh_token(q)
    BY <2>1, SameKey DEF Untouched
  <2>3. ASSUME NEW q \in Requests \ {r} PROVE PendingIsNew(q)'
    <3>1. PendingIsNew(q) /\ PendingApart(q, r)
      BY <1>p DEF UniqueIndexes
    <3>2. pc[q] = "register_commit" => who[q] \in Emails
      BY InvParts DEF Works, Registering
    <3>3. CASE /\ pc[r] = "register_commit" /\ refresh_tokens' = refresh_tokens
               /\ users' = [users EXCEPT ![who[r]] = "active"]
      BY <1>p, <2>2, <3>1, <3>2, <3>3 DEF PendingIsNew, PendingApart, Stored, DatabaseTypes
    <3>4. CASE /\ pc[r] \in Storing /\ users' = users
               /\ DOMAIN refresh_tokens' = DOMAIN refresh_tokens \cup {create_refresh_token(r)}
      BY <2>2, <3>1, <3>4 DEF PendingIsNew, PendingApart, Stored
    <3> QED
      BY <1>2, <3>3, <3>4, CommitPending
  <2>4. PendingIsNew(r)' /\ \A q \in Requests : PendingApart(r, q)' /\ PendingApart(q, r)'
    BY <2>1 DEF PendingIsNew, PendingApart, Storing
  <2>5. \A q, s \in Requests \ {r} : q # s => PendingApart(q, s)'
    BY <1>p, <2>2 DEF UniqueIndexes, PendingApart
  <2> QED
    BY <2>3, <2>4, <2>5 DEF UniqueIndexes
<1>3. ASSUME NEW r \in Requests, LogoutCommit(r) PROVE UniqueIndexes'
  <2>1. Acts(r) /\ pc'[r] = "idle"
    BY <1>3, AnswerActs DEF LogoutCommit, AnswerCommitted, Answers
  <2>2. users' = users /\ DOMAIN refresh_tokens' = DOMAIN refresh_tokens
    BY <1>3, LogoutCommitEffect DEF LogoutCommit
  <2>3. \A q \in Requests \ {r} :
          /\ pc'[q] = pc[q] /\ who'[q] = who[q]
          /\ create_refresh_token(q)' = create_refresh_token(q)
    BY <2>1, SameKey DEF Acts, Untouched
  <2> QED
    BY <1>p, <2>1, <2>2, <2>3 DEF UniqueIndexes, PendingIsNew, PendingApart, Stored, Storing
<1>4. ASSUME NEW e \in Emails, Deactivate(e) PROVE UniqueIndexes'
  <2>1. /\ UNCHANGED <<refresh_tokens, pc, who, at>>
        /\ \A f \in Emails : users[f] = "absent" => users'[f] = "absent"
    BY <1>4, <1>p DEF Deactivate, request, clocks, DatabaseTypes
  <2>2. \A q \in Requests : pc[q] = "register_commit" => who[q] \in Emails
    BY InvParts DEF Works, Registering
  <2> QED
    BY <1>p, <2>1, <2>2
       DEF UniqueIndexes, PendingIsNew, PendingApart, Stored, create_refresh_token
<1>5. CASE Tick \/ UNCHANGED vars
  BY <1>5, <1>0 DEF Tick, vars, database, request, clocks
<1> QED
  BY <1>1, <1>2, <1>3, <1>4, <1>5 DEF Next, Handle, QuietStep

\* Every step leaves every request, the one that acts and the others, with what
\* its handler relies on.
LEMMA RequestStep ==
  ASSUME Inv, [Next]_vars
  PROVE  RequestTypes' /\ \A q \in Requests : Works(q)' /\ HasAccount(q)' /\ Refused(q)'
<1>1. ASSUME NEW r \in Requests, Acts(r)
      PROVE  RequestTypes' /\ \A q \in Requests : Works(q)' /\ HasAccount(q)' /\ Refused(q)'
  BY <1>1, FrameStep, DatabaseStep DEF Acts
<1>2. ASSUME NEW r \in Requests, Arrive(r) \/ Handle(r) \/ Fail(r) PROVE Acts(r)
  BY <1>2, ArriveActs, HandleActs, AnswerActs DEF Fail, Answers
<1>3. CASE UNCHANGED request
  <2>1. \A q \in Requests : Untouched(q)
    BY <1>3 DEF request, clocks, Untouched
  <2>2. RequestTypes'
    BY <1>3, InvParts DEF request, clocks, RequestTypes
  <2> QED
    BY <2>1, <2>2, FrameStep, DatabaseStep
<1>4. CASE Tick \/ (\E e \in Emails : Deactivate(e)) \/ UNCHANGED vars
  BY <1>4, <1>3 DEF Tick, Deactivate, vars, request, clocks
<1> QED
  BY <1>1, <1>2, <1>4 DEF Next

\* A row that was not there is the row of a token minted by the step's request.
LEMMA NewRow ==
  ASSUME Inv, [Next]_vars, NEW t \in DOMAIN refresh_tokens' \ DOMAIN refresh_tokens
  PROVE  /\ users[t.user] # "absent" /\ t.user \in Emails
         /\ refresh_tokens'[t].expires_at >= jwt_exp(t)
<1>0. refresh_tokens' # refresh_tokens
  OBVIOUS
<1>1. PICK r \in Requests : LoginCommit(r) \/ RefreshCommit(r)
  <2>1. ASSUME NEW r \in Requests, QuietStep(r) PROVE FALSE
    BY <1>0, <2>1, QuietUnchanged DEF database
  <2>2. ASSUME NEW r \in Requests, LogoutCommit(r) PROVE FALSE
    BY <2>2, LogoutCommitEffect
  <2>3. ~ Tick /\ ~ UNCHANGED vars /\ ~ (\E e \in Emails : Deactivate(e))
        /\ ~ (\E r \in Requests : RegisterCommit(r))
    BY <1>0 DEF Tick, vars, database, Deactivate, RegisterCommit
  <2> QED
    BY <2>1, <2>2, <2>3 DEF Next, Handle, QuietStep
<1>2. /\ pc[r] \in Storing
      /\ DOMAIN refresh_tokens' = DOMAIN refresh_tokens \cup {create_refresh_token(r)}
      /\ refresh_tokens'[create_refresh_token(r)] =
           [expires_at |-> row_expiry(r), revoked |-> FALSE]
  BY <1>1, LoginCommitEffect, RefreshCommitEffect DEF LoginCommit, RefreshCommit, Storing
<1>3. t = create_refresh_token(r)
  BY <1>2
<1>4. jwt_exp(t) \in Nat
  BY <1>2, <1>3, MintedToken, ExpType
<1> QED
  BY <1>2, <1>3, <1>4, MintedToken

\* A recorded exchange is an old one or that of the step's refresh.
LEMMA ExchangeStep ==
  ASSUME Inv, [Next]_vars
  PROVE  exchanges' \subseteq Tokens \X Tokens /\ ExchangeSpendsOld'
<1>p. exchanges \subseteq Tokens \X Tokens /\ ExchangeSpendsOld /\ Kept
  BY DatabaseStep DEF Inv, TypeOK
<1>1. CASE exchanges' = exchanges
  <2>1. ASSUME NEW x \in exchanges
        PROVE  /\ x[1] \in DOMAIN refresh_tokens' /\ refresh_tokens'[x[1]].revoked
               /\ x[2] \in DOMAIN refresh_tokens'
               /\ x[1].user = x[2].user
    BY <1>p DEF ExchangeSpendsOld, Kept
  <2> QED
    BY <1>p, <1>1, <2>1 DEF ExchangeSpendsOld
<1>2. ASSUME NEW r \in Requests, RefreshCommit(r)
      PROVE  exchanges' \subseteq Tokens \X Tokens /\ ExchangeSpendsOld'
  <2> DEFINE new == create_refresh_token(r)
  <2>1. exchanges' = exchanges \cup {<<tok[r], new>>}
    BY <1>2 DEF RefreshCommit
  <2>2. /\ tok[r] \in DOMAIN refresh_tokens /\ tok[r] \in Tokens
        /\ tok[r].user = who[r]
    BY <1>2, InvParts DEF Works, Refreshing, RefreshCommit
  <2>3. new \in Tokens /\ new.user = who[r]
    BY <1>2, MintedToken DEF RefreshCommit, Storing
  <2>4. /\ refresh_tokens'[tok[r]].revoked
        /\ tok[r] \in DOMAIN refresh_tokens' /\ new \in DOMAIN refresh_tokens'
    BY <1>2, <2>2, RefreshCommitEffect
  <2> HIDE DEF new
  <2>5. exchanges' \subseteq Tokens \X Tokens
    BY <1>p, <2>1, <2>2, <2>3
  <2>6. ASSUME NEW x \in exchanges'
        PROVE  /\ x[1] \in DOMAIN refresh_tokens' /\ refresh_tokens'[x[1]].revoked
               /\ x[2] \in DOMAIN refresh_tokens'
               /\ x[1].user = x[2].user
    <3>1. CASE x \in exchanges
      BY <1>p, <3>1 DEF ExchangeSpendsOld, Kept
    <3>2. CASE x = <<tok[r], new>>
      BY <3>2, <2>2, <2>3, <2>4
    <3> QED
      BY <2>1, <3>1, <3>2
  <2> QED
    BY <2>5, <2>6 DEF ExchangeSpendsOld
<1>3. ASSUME NEW r \in Requests, QuietStep(r) \/ RegisterCommit(r) \/ LoginCommit(r) \/ LogoutCommit(r)
      PROVE  exchanges' = exchanges
  BY <1>3, QuietUnchanged DEF RegisterCommit, LoginCommit, LogoutCommit
<1>4. CASE Tick \/ (\E e \in Emails : Deactivate(e)) \/ UNCHANGED vars
  BY <1>4, <1>1 DEF Tick, Deactivate, vars
<1> QED
  BY <1>1, <1>2, <1>3, <1>4 DEF Next, Handle, QuietStep

LEMMA InvInit == Init => Inv
<1> SUFFICES ASSUME Init PROVE Inv
  OBVIOUS
<1>1. DatabaseTypes /\ DOMAIN refresh_tokens = {}
  BY DEF Init, DatabaseTypes
<1>2. RequestTypes
  BY TimeAssumption DEF Init, RequestTypes, Labels, Answers
<1>3. \A r \in Requests : Works(r) /\ HasAccount(r) /\ Refused(r)
  BY DEF Init, Works, HasAccount, Refused, Registering, LoggingIn, Refreshing, LoggingOut,
         ReadOnce, ReadTwice
<1>4. UniqueIndexes
  BY DEF Init, UniqueIndexes, PendingIsNew, PendingApart, Storing
<1>5. now \in 0..MaxTime /\ delivered = {} /\ exchanges = {}
  BY TimeAssumption DEF Init
<1> QED
  BY <1>1, <1>2, <1>3, <1>4, <1>5
     DEF Inv, TypeOK, TokensHaveAccounts, RowOutlivesJwt, ExchangeSpendsOld

LEMMA InvStep == Inv /\ [Next]_vars => Inv'
<1> SUFFICES ASSUME Inv, [Next]_vars PROVE Inv'
  OBVIOUS
<1>1. now' \in 0..MaxTime
  BY ClockStep, InvParts, TimeAssumption
<1>2. TypeOK'
  BY <1>1, DatabaseStep, RequestStep, ExchangeStep DEF TypeOK
<1>3. \A t \in DOMAIN refresh_tokens' : users'[t.user] # "absent"
  BY InvParts, NewRow, DatabaseStep DEF Kept
<1>4. \A t \in DOMAIN refresh_tokens' : refresh_tokens'[t].expires_at >= jwt_exp(t)
  BY NewRow, DatabaseStep DEF Kept, Inv, RowOutlivesJwt
<1> QED
  BY <1>2, <1>3, <1>4, UniqueStep, RequestStep, ExchangeStep
     DEF Inv, TokensHaveAccounts, RowOutlivesJwt, jwt_exp

\* The inductive invariant holds in every reachable state.
THEOREM Invariant == Spec => []Inv
<1>1. Init => Inv
  BY InvInit
<1>2. Inv /\ [Next]_vars => Inv'
  BY InvStep
<1> QED
  BY <1>1, <1>2, PTL DEF Spec

--------------------------------------------------------------------------------
(* The properties *)

\* Every variable keeps its type and every request in flight what it works on.
THEOREM TypeCorrect == Spec => []TypeOK
<1>1. Inv => TypeOK
  BY DEF Inv
<1> QED
  BY <1>1, Invariant, PTL

\* A request that was barred on arrival (revoked token, deactivated account, taken
\* address) never gets as far as writing.
THEOREM BarredSafe == Spec => []NoTokensForBarred
<1>1. Inv => NoTokensForBarred
  BY DEF Inv, Refused, NoTokensForBarred, ReadTwice
<1> QED
  BY <1>1, Invariant, PTL

\* The row of a refresh token never expires before its JWT, whatever the tick and however
\* much time passes between the two readings of the clock.
THEOREM ExpirySafe == Spec => []RowOutlivesJwt
<1>1. Inv => RowOutlivesJwt
  BY DEF Inv
<1> QED
  BY <1>1, Invariant, PTL

\* A committed refresh leaves its old token revoked and its new one stored.
THEOREM ExchangeSafe == Spec => []ExchangeSpendsOld
<1>1. Inv => ExchangeSpendsOld
  BY DEF Inv
<1> QED
  BY <1>1, Invariant, PTL

\* Stored tokens stay stored, and revoked ones revoked.
THEOREM RevocationFinal == Spec => RevocationIsFinal
<1> DEFINE A == \A t \in DOMAIN refresh_tokens :
                  /\ t \in DOMAIN refresh_tokens'
                  /\ refresh_tokens'[t].expires_at = refresh_tokens[t].expires_at
                  /\ refresh_tokens[t].revoked => refresh_tokens'[t].revoked
<1>1. Inv /\ [Next]_vars => A
  BY DatabaseStep DEF Kept
<1> HIDE DEF A
<1>2. Inv /\ [Next]_vars => [A]_vars
  BY <1>1
<1>3. Spec => [][A]_vars
  BY <1>2, Invariant, PTL DEF Spec
<1> QED
  BY <1>3 DEF RevocationIsFinal, A

\* A step that revokes a token is the commit of a logout or of an exchange of it.
LEMMA RevocationStep ==
  ASSUME Inv, [Next]_vars, NEW t \in DOMAIN refresh_tokens,
         ~ refresh_tokens[t].revoked, refresh_tokens'[t].revoked
  PROVE  \E r \in Requests :
           /\ tok[r] = t
           /\ \/ pc[r] = "logout_commit"
              \/ /\ pc[r] = "refresh_commit"
                 /\ \E u \in DOMAIN refresh_tokens' \ DOMAIN refresh_tokens :
                      <<t, u>> \in exchanges'
<1>1. ASSUME NEW r \in Requests, LogoutCommit(r) PROVE tok[r] = t /\ pc[r] = "logout_commit"
  BY <1>1, LogoutCommitEffect DEF LogoutCommit
<1>2. ASSUME NEW r \in Requests, RefreshCommit(r)
      PROVE  /\ tok[r] = t /\ pc[r] = "refresh_commit"
             /\ create_refresh_token(r) \in DOMAIN refresh_tokens' \ DOMAIN refresh_tokens
             /\ <<t, create_refresh_token(r)>> \in exchanges'
  <2>1. pc[r] = "refresh_commit" /\ exchanges' = exchanges \cup {<<tok[r], create_refresh_token(r)>>}
    BY <1>2 DEF RefreshCommit
  <2>2. tok[r] = t
    BY <1>2, RefreshCommitEffect
  <2> QED
    BY <1>2, <2>1, <2>2, RefreshCommitEffect, MintedToken DEF Storing
<1>3. ASSUME NEW r \in Requests, LoginCommit(r) PROVE FALSE
  BY <1>3, LoginCommitEffect
<1>4. ASSUME NEW r \in Requests, QuietStep(r) \/ RegisterCommit(r) PROVE FALSE
  BY <1>4, QuietUnchanged DEF RegisterCommit, database
<1>5. ~ Tick /\ ~ UNCHANGED vars /\ ~ (\E e \in Emails : Deactivate(e))
  BY DEF Tick, Deactivate, vars, database
<1> QED
  BY <1>1, <1>2, <1>3, <1>4, <1>5 DEF Next, Handle, QuietStep

\* A token is revoked only by its logout or in exchange for a new one.
THEOREM RevocationHasCause == Spec => RevocationExplained
<1> DEFINE A == \A t \in DOMAIN refresh_tokens :
       (~ refresh_tokens[t].revoked /\ refresh_tokens'[t].revoked) =>
         \E r \in Requests :
           /\ tok[r] = t
           /\ \/ pc[r] = "logout_commit"
              \/ /\ pc[r] = "refresh_commit"
                 /\ \E u \in DOMAIN refresh_tokens' \ DOMAIN refresh_tokens :
                      <<t, u>> \in exchanges'
<1>1. Inv /\ [Next]_vars => A
  BY RevocationStep
<1> HIDE DEF A
<1>2. Inv /\ [Next]_vars => [A]_vars
  BY <1>1
<1>3. Spec => [][A]_vars
  BY <1>2, Invariant, PTL DEF Spec
<1> QED
  BY <1>3 DEF RevocationExplained, A

\* The answer of a request changes only by a step of its own.
LEMMA AnsweredBySelf ==
  ASSUME Inv, [Next]_vars, NEW r \in Requests, res'[r] # res[r]
  PROVE  Arrive(r) \/ Handle(r) \/ Fail(r)
<1>1. ASSUME NEW q \in Requests, Arrive(q) \/ Handle(q) \/ Fail(q) PROVE Acts(q)
  BY <1>1, ArriveActs, HandleActs, AnswerActs DEF Fail, Answers
<1>2. res' # res
  OBVIOUS
<1> QED
  BY <1>1, <1>2 DEF Next, Acts, Untouched, Tick, Deactivate, vars, request

\* Which step of its own a request takes is told by its label.
LEMMA OwnStep ==
  ASSUME NEW r \in Requests, Arrive(r) \/ Handle(r) \/ Fail(r), Inv,
         res'[r] \in {"ok", "unauthorized"}
  PROVE  /\ pc[r] = "register_commit" => RegisterCommit(r)
         /\ pc[r] \in Refreshing /\ res'[r] = "unauthorized" /\ res[r] = "none"
              => RefreshSelect(r) \/ RefreshUser(r)
<1>1. ~ Fail(r)
  BY InvParts DEF Fail, Answer, RequestTypes
<1>2. Arrive(r) => pc[r] = "idle"
  BY DEF Arrive, RegisterArrive, LoginArrive, RefreshArrive, RefreshReject, LogoutArrive, Receive
<1>3. CASE Handle(r)
  <2>1. ASSUME NEW outcome \in Answers, Answer(r, outcome) PROVE res'[r] = outcome
    BY <2>1, AnswerEffect, InvParts
  <2>2. ASSUME NEW label, Await(r, label) PROVE res'[r] = res[r]
    BY <2>2 DEF Await
  <2>3. pc[r] = "register_commit" => RegisterCommit(r)
    BY <1>3 DEF Handle, RegisterSelect, RegisterInsert, RegisterCommit, LoginSelect, LoginVerify,
         LoginAdd, LoginInsert, LoginCommit, RefreshLookup, RefreshSelect, RefreshUser, RefreshAdd,
         RefreshUpdate, RefreshInsert, RefreshCommit, LogoutSelect, LogoutUpdate, LogoutCommit
  <2>4. pc[r] \in Refreshing =>
          \/ RefreshSelect(r) \/ RefreshUser(r)
          \/ RefreshLookup(r) \/ RefreshAdd(r) \/ RefreshUpdate(r)
          \/ RefreshInsert(r) \/ RefreshCommit(r)
    BY <1>3 DEF Refreshing, Handle, RegisterSelect, RegisterInsert, RegisterCommit, LoginSelect,
         LoginVerify, LoginAdd, LoginInsert, LoginCommit, LogoutSelect, LogoutUpdate, LogoutCommit
  <2>5. RefreshLookup(r) \/ RefreshAdd(r) \/ RefreshUpdate(r) => res'[r] = res[r]
    BY <2>2 DEF RefreshLookup, RefreshAdd, AddToken, RefreshUpdate
  <2>6. RefreshInsert(r) \/ RefreshCommit(r) =>
          res'[r] \in {res[r], "integrity_error", "ok", "unavailable"}
    BY <2>1, <2>2 DEF RefreshInsert, InsertToken, RefreshCommit, Answers
  <2> QED
    BY <2>3, <2>4, <2>5, <2>6
<1> QED
  BY <1>1, <1>2, <1>3 DEF Refreshing

\* An address gets one account, although the check and the insert are two statements.
THEOREM OneAccount == Spec => AccountCreatedOnce
<1> DEFINE A == \A r \in Requests :
                  (pc[r] = "register_commit" /\ res'[r] = "ok")
                    => users[who[r]] = "absent" /\ users'[who[r]] = "active"
<1>1. ASSUME Inv, [Next]_vars, NEW r \in Requests, pc[r] = "register_commit", res'[r] = "ok"
      PROVE  users[who[r]] = "absent" /\ users'[who[r]] = "active"
  <2>1. /\ users[who[r]] = "absent" /\ who[r] \in Emails /\ res[r] = "none"
    BY <1>1, InvParts DEF PendingIsNew, Works, Registering
  <2>2. RegisterCommit(r)
    BY <1>1, <2>1, AnsweredBySelf, OwnStep
  <2> QED
    BY <1>1, <2>1, <2>2, InvParts DEF RegisterCommit, DatabaseTypes
<1>2. Inv /\ [Next]_vars => A
  BY <1>1
<1> HIDE DEF A
<1>3. Inv /\ [Next]_vars => [A]_vars
  BY <1>2
<1>4. Spec => [][A]_vars
  BY <1>3, Invariant, PTL DEF Spec
<1> QED
  BY <1>4 DEF AccountCreatedOnce, A

\* The SELECT of a refresh passes over a row only because it is revoked or because the
\* JWT has run out: the row outlives the JWT, and it is compared with an earlier reading.
LEMMA UnusableHasCause ==
  ASSUME Inv, NEW r \in Requests, pc[r] = "refresh_select", ~ Usable(r)
  PROVE  /\ tok[r] \in DOMAIN refresh_tokens
         /\ refresh_tokens[tok[r]].revoked \/ Expired(tok[r])
<1>1. tok[r] \in DOMAIN refresh_tokens /\ at[r] <= now
  BY InvParts DEF Works, Refreshing, ReadOnce
<1>2. /\ tok[r] \in Tokens /\ refresh_tokens[tok[r]] \in Rows
      /\ at[r] \in 0..MaxTime /\ now \in 0..MaxTime
  BY <1>1, InvParts DEF RequestTypes
<1>3. jwt_exp(tok[r]) \in Nat
  BY <1>2, ExpType
<1>4. /\ at[r] \in Nat /\ now \in Nat /\ refresh_tokens[tok[r]].expires_at \in Nat
      /\ refresh_tokens[tok[r]].expires_at >= jwt_exp(tok[r])
  BY <1>1, <1>2, TimeAssumption DEF Inv, RowOutlivesJwt, Rows
<1>5. refresh_tokens[tok[r]].revoked \/ ~ (refresh_tokens[tok[r]].expires_at > at[r])
  BY <1>1 DEF Usable, Stored
<1> QED
  BY <1>1, <1>3, <1>4, <1>5 DEF Expired

\* A refresh with a JWT valid on arrival is refused only for a revoked token, an inactive
\* account or a JWT that has run out since, however long it takes and whatever runs beside.
THEOREM RefusalHasCause == Spec => RefusalExplained
<1> DEFINE Reason(r) ==
             \/ tok[r] \in DOMAIN refresh_tokens /\ refresh_tokens[tok[r]].revoked
             \/ users[tok[r].user] # "active"
             \/ Expired(tok[r])
           A == \A r \in Requests :
                  (pc[r] \in Refreshing /\ res'[r] = "unauthorized") => Reason(r)
<1>1. ASSUME Inv, [Next]_vars, NEW r \in Requests, res'[r] = "unauthorized",
             pc[r] \in Refreshing
      PROVE  Reason(r)
  <2>1. tok[r].user = who[r] /\ res[r] = "none"
    BY <1>1, InvParts DEF Works, Refreshing
  <2>2. RefreshSelect(r) \/ RefreshUser(r)
    BY <1>1, <2>1, AnsweredBySelf, OwnStep
  <2>3. CASE RefreshUser(r)
    <3>1. Await(r, "refresh_add") => res' = res
      BY DEF Await
    <3> QED
      BY <1>1, <2>1, <2>3, <3>1 DEF RefreshUser
  <2>4. CASE RefreshSelect(r)
    <3>1. Await(r, "refresh_user") => res' = res
      BY DEF Await
    <3>2. pc[r] = "refresh_select" /\ ~ Usable(r)
      BY <1>1, <2>1, <2>4, <3>1 DEF RefreshSelect
    <3> QED
      BY <1>1, <3>2, UnusableHasCause
  <2> QED
    BY <2>2, <2>3, <2>4
<1>2. Inv /\ [Next]_vars => A
  BY <1>1
<1> HIDE DEF A
<1>3. Inv /\ [Next]_vars => [A]_vars
  BY <1>2
<1>4. Spec => [][A]_vars
  BY <1>3, Invariant, PTL DEF Spec
<1> QED
  BY <1>4 DEF RefusalExplained, A

\* A commit waits for nobody, an INSERT only for the commit of its key, an UPDATE only
\* for what has gone past it.
LEMMA WaitsOrdered ==
  ASSUME NEW S \in SUBSET Requests, S # {}
  PROVE  \E r \in S : \A q \in S : ~ WaitsFor(r, q)
<1> DEFINE Updating == {"refresh_update", "logout_update"}
           Inserting == {"login_insert", "refresh_insert", "register_insert"}
<1>1. CASE \E r \in S : pc[r] \notin Updating \cup Inserting
  BY <1>1 DEF WaitsFor
<1>2. CASE /\ \A r \in S : pc[r] \in Updating \cup Inserting
           /\ \E r \in S : pc[r] \in Inserting
  BY <1>2 DEF WaitsFor, Storing
<1>3. CASE \A r \in S : pc[r] \in Updating
  BY <1>3 DEF WaitsFor, LocksRow
<1> QED
  BY <1>1, <1>2, <1>3

\* There is no deadlock over row locks and unique keys, for any number of requests.
THEOREM NoDeadlock == Spec => []NoCircularWait
<1>1. NoCircularWait
  BY WaitsOrdered DEF NoCircularWait
<1> QED
  BY <1>1, PTL
================================================================================
