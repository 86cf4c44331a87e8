------------------------------ MODULE AuthService ------------------------------
(****************************************************************************)
(* The auth service: the register, login, refresh and logout handlers of    *)
(* services/auth/app/routers/auth.py, run concurrently over one Postgres    *)
(* database at READ COMMITTED.                                              *)
(*                                                                          *)
(* A request slot runs one handler at a time.  Every await of a handler is  *)
(* a database statement and a step of its own, so the statements of         *)
(* different requests interleave as they do between the coroutines of one   *)
(* worker and between the two uvicorn workers.  Every reading of the clock  *)
(* is a step of its own too, so that time may pass between two of them.     *)
(*                                                                          *)
(* The uncommitted writes of a request are implied by its label: after the  *)
(* UPDATE it holds the row lock, after the INSERT its key is pending in the *)
(* unique index, and only its COMMIT changes users and refresh_tokens.      *)
(****************************************************************************)
EXTENDS Naturals

CONSTANTS
  Emails,          \* the addresses clients register with
  Requests,        \* request slots: handlers that may be in flight at once
  NoUser,          \* no account
  NoToken,         \* no token, or a string that is not one of our refresh JWTs
  TicksPerSecond,  \* clock ticks in a second: JWT times count whole seconds
  RefreshSeconds,  \* REFRESH_TOKEN_EXPIRE_DAYS, in seconds
  MaxTime          \* bound: the clock stops at this tick

ASSUME TicksAssumption == TicksPerSecond \in Nat \ {0}
ASSUME RefreshAssumption == RefreshSeconds \in Nat \ {0}
ASSUME TimeAssumption == MaxTime \in Nat
ASSUME SentinelAssumption == NoUser \notin Emails

VARIABLES
  users,           \* users table: the state of each address
  refresh_tokens,  \* refresh_tokens table: token -> [expires_at, revoked]
  now,             \* the clock, in ticks
  pc,              \* the statement each request slot awaits
  who,             \* the account the request is about
  tok,             \* the refresh token the request presented
  at,              \* the clock as the SELECT of a row or the minting of a token read it
  added,           \* the clock as the row of the minted token read it, later
  res,             \* the last answer given by the slot
  delivered,       \* the refresh tokens returned to a client in a 200 answer
  barred,          \* history: the request had no right to succeed on arrival
  exchanges        \* history: <<old, new>> for every committed refresh

database == <<users, refresh_tokens>>
clocks == <<at, added>>
request == <<pc, who, tok, clocks, res, barred>>
vars == <<users, refresh_tokens, now, pc, who, tok, at, added, res, delivered, barred,
          exchanges>>

\* A refresh JWT is determined by its subject and its whole-second iat: the
\* payload has no jti, exp is iat plus a constant, and HMAC is deterministic.
Tokens == [user : Emails, iat : 0..MaxTime]
Rows == [expires_at : Nat, revoked : BOOLEAN]

ASSUME NoTokenAssumption == NoToken \notin Tokens

Labels ==
  {"idle",
   "register_select", "register_insert", "register_commit",
   "login_select", "login_verify", "login_add", "login_insert", "login_commit",
   "refresh_lookup", "refresh_select", "refresh_user", "refresh_add", "refresh_update",
   "refresh_insert", "refresh_commit",
   "logout_select", "logout_update", "logout_commit"}

\* integrity_error and unavailable are both a 500 to the client.
Answers == {"none", "ok", "unauthorized", "conflict", "integrity_error", "unavailable"}

--------------------------------------------------------------------------------
(* Tokens and their rows *)

\* The exp claim, on the tick scale.
jwt_exp(t) == TicksPerSecond * (t.iat + RefreshSeconds)

\* jwt.decode with verify_exp: a token is refused from the instant exp on.
Expired(t) == jwt_exp(t) <= now

\* The refresh token minted at the reading at[r]: its iat and exp are cut to whole
\* seconds when the JWT is encoded.
create_refresh_token(r) == [user |-> who[r], iat |-> at[r] \div TicksPerSecond]

BugRowExpirySign(r) == added[r] - TicksPerSecond * RefreshSeconds
BugRowExpiryUnit(r) == added[r] + RefreshSeconds
\* expires_at of the row added for it: from a reading of its own, with the precision
\* of the clock.
row_expiry(r) == added[r] + TicksPerSecond * RefreshSeconds

Stored(t) == t \in DOMAIN refresh_tokens

BugRevokeNothing(table, t) == table
BugRevokeByUser(table, t) ==
  [u \in DOMAIN table |->
     IF u.user = t.user THEN [table[u] EXCEPT !.revoked = TRUE] ELSE table[u]]
RevokeRow(table, t) == [table EXCEPT ![t].revoked = TRUE]

InsertRow(table, t, expires_at) ==
  [u \in DOMAIN table \cup {t} |->
     IF u = t THEN [expires_at |-> expires_at, revoked |-> FALSE] ELSE table[u]]

--------------------------------------------------------------------------------
(* Locks of the database, read off the labels of the open transactions *)

BugLocksRow(q) ==
  pc[q] \in {"refresh_user", "refresh_update", "refresh_insert", "refresh_commit",
            "logout_commit"}
\* The UPDATE of q holds the lock of its row until the commit.
LocksRow(q) == pc[q] \in {"refresh_insert", "refresh_commit", "logout_commit"}

RowLocked(t) == \E q \in Requests : LocksRow(q) /\ tok[q] = t

KeyPending(t) ==
  \E q \in Requests : /\ pc[q] \in {"login_commit", "refresh_commit"}
                      /\ create_refresh_token(q) = t

EmailPending(e) ==
  \E q \in Requests : pc[q] = "register_commit" /\ who[q] = e

--------------------------------------------------------------------------------
(* Control of a handler *)

Receive(r, label, e, t, noRight) ==
  /\ pc[r] = "idle"
  /\ pc' = [pc EXCEPT ![r] = label]
  /\ who' = [who EXCEPT ![r] = e]
  /\ tok' = [tok EXCEPT ![r] = t]
  /\ res' = [res EXCEPT ![r] = "none"]
  /\ barred' = [barred EXCEPT ![r] = noRight]

Await(r, label) ==
  /\ pc' = [pc EXCEPT ![r] = label]
  /\ UNCHANGED <<who, tok, res, barred>>

\* The handler returns or raises: the session is closed, what it did not commit
\* is rolled back, and the slot is free again.
Answer(r, outcome) ==
  /\ pc' = [pc EXCEPT ![r] = "idle"]
  /\ who' = [who EXCEPT ![r] = NoUser]
  /\ tok' = [tok EXCEPT ![r] = NoToken]
  /\ at' = [at EXCEPT ![r] = 0]
  /\ added' = [added EXCEPT ![r] = 0]
  /\ res' = [res EXCEPT ![r] = outcome]
  /\ barred' = [barred EXCEPT ![r] = FALSE]

\* COMMIT took effect; its acknowledgement may still be lost with the connection.
AnswerCommitted(r) ==
  \E outcome \in {"ok", "unavailable"} : Answer(r, outcome)

--------------------------------------------------------------------------------
(* POST /auth/register *)

RegisterArrive(r) ==
  \E e \in Emails :
    /\ Receive(r, "register_select", e, NoToken, users[e] # "absent")
    /\ UNCHANGED <<database, now, clocks, delivered, exchanges>>

\* 409 if the address is taken, else hash the password and add the user.
RegisterSelect(r) ==
  /\ pc[r] = "register_select"
  /\ \/ users[who[r]] # "absent" /\ Answer(r, "conflict")
     \/ users[who[r]] = "absent" /\ Await(r, "register_insert") /\ UNCHANGED clocks
  /\ UNCHANGED <<database, now, delivered, exchanges>>

BugRegisterInsert(r) ==
  /\ pc[r] = "register_insert"
  /\ Await(r, "register_commit")
  /\ UNCHANGED <<clocks, database, now, delivered, exchanges>>

\* The flush of commit(): ix_users_email waits for a concurrent insert of the
\* same address and refuses a committed one, which nothing in the handler catches.
RegisterInsert(r) ==
  /\ pc[r] = "register_insert"
  /\ ~ EmailPending(who[r])
  /\ \/ users[who[r]] # "absent" /\ Answer(r, "integrity_error")
     \/ users[who[r]] = "absent" /\ Await(r, "register_commit") /\ UNCHANGED clocks
  /\ UNCHANGED <<database, now, delivered, exchanges>>

RegisterCommit(r) ==
  /\ pc[r] = "register_commit"
  /\ users' = [users EXCEPT ![who[r]] = "active"]
  /\ AnswerCommitted(r)
  /\ UNCHANGED <<refresh_tokens, now, delivered, exchanges>>

--------------------------------------------------------------------------------
(* POST /auth/login *)

LoginArrive(r) ==
  \E e \in Emails :
    /\ Receive(r, "login_select", e, NoToken, users[e] = "inactive")
    /\ UNCHANGED <<database, now, clocks, delivered, exchanges>>

\* No active account: the dummy hash is verified and the answer is 401.
LoginSelect(r) ==
  /\ pc[r] = "login_select"
  /\ \/ users[who[r]] # "active" /\ Answer(r, "unauthorized")
     \/ users[who[r]] = "active" /\ Await(r, "login_verify") /\ UNCHANGED clocks
  /\ UNCHANGED <<database, now, delivered, exchanges>>

\* The password matches and both tokens are minted, or it does not.
LoginVerify(r) ==
  /\ pc[r] = "login_verify"
  /\ \/ Answer(r, "unauthorized")
     \/ Await(r, "login_add") /\ at' = [at EXCEPT ![r] = now] /\ UNCHANGED added
  /\ UNCHANGED <<database, now, delivered, exchanges>>

BugAddToken(r, next) ==
  /\ Await(r, next)
  /\ at' = [at EXCEPT ![r] = now]
  /\ added' = [added EXCEPT ![r] = at[r]]
  /\ UNCHANGED <<database, now, delivered, exchanges>>

\* The row of the minted token is added to the session, dated by the clock of that moment.
AddToken(r, next) ==
  /\ Await(r, next)
  /\ added' = [added EXCEPT ![r] = now]
  /\ UNCHANGED <<at, database, now, delivered, exchanges>>

LoginAdd(r) == pc[r] = "login_add" /\ AddToken(r, "login_insert")

BugInsertDuplicate(r, next) ==
  /\ Await(r, next)
  /\ UNCHANGED <<clocks, database, now, delivered, exchanges>>
BugInsertWaits(r, next) ==
  /\ ~ KeyPending(create_refresh_token(r))
  /\ ~ Stored(create_refresh_token(r))
  /\ Await(r, next)
  /\ UNCHANGED <<clocks, database, now, delivered, exchanges>>

\* ix_refresh_tokens_token_hash: wait for a concurrent insert of the same hash,
\* refuse a committed one.
InsertToken(r, next) ==
  /\ ~ KeyPending(create_refresh_token(r))
  /\ \/ Stored(create_refresh_token(r)) /\ Answer(r, "integrity_error")
     \/ ~ Stored(create_refresh_token(r)) /\ Await(r, next) /\ UNCHANGED clocks
  /\ UNCHANGED <<database, now, delivered, exchanges>>

LoginInsert(r) == pc[r] = "login_insert" /\ InsertToken(r, "login_commit")

LoginCommit(r) ==
  /\ pc[r] = "login_commit"
  /\ refresh_tokens' = InsertRow(refresh_tokens, create_refresh_token(r), row_expiry(r))
  /\ \/ /\ Answer(r, "ok")
        /\ delivered' = delivered \cup {create_refresh_token(r)}
     \/ Answer(r, "unavailable") /\ UNCHANGED delivered
  /\ UNCHANGED <<users, now, exchanges>>

--------------------------------------------------------------------------------
(* POST /auth/refresh *)

\* validate_refresh_token refuses what is not an unexpired refresh JWT of ours,
\* before any statement is sent.
RefreshReject(r) ==
  /\ pc[r] = "idle"
  /\ \E t \in delivered \cup {NoToken} : t \in delivered => Expired(t)
  /\ Answer(r, "unauthorized")
  /\ UNCHANGED <<database, now, delivered, exchanges>>

RefreshArrive(r) ==
  \E t \in delivered :
    /\ ~ Expired(t)
    /\ Receive(r, "refresh_lookup", t.user, t,
               refresh_tokens[t].revoked \/ users[t.user] # "active")
    /\ UNCHANGED <<database, now, clocks, delivered, exchanges>>

\* The clock is read again for the WHERE clause of the SELECT.
RefreshLookup(r) ==
  /\ pc[r] = "refresh_lookup"
  /\ Await(r, "refresh_select")
  /\ at' = [at EXCEPT ![r] = now]
  /\ UNCHANGED <<added, database, now, delivered, exchanges>>

BugRefreshSelect(r) ==
  /\ pc[r] = "refresh_select"
  /\ Await(r, "refresh_user")
  /\ UNCHANGED <<clocks, database, now, delivered, exchanges>>

\* The row of the token, if it is not revoked and had not expired at the second reading.
Usable(r) ==
  /\ Stored(tok[r])
  /\ ~ refresh_tokens[tok[r]].revoked
  /\ refresh_tokens[tok[r]].expires_at > at[r]

RefreshSelect(r) ==
  /\ pc[r] = "refresh_select"
  /\ \/ ~ Usable(r) /\ Answer(r, "unauthorized")
     \/ Usable(r) /\ Await(r, "refresh_user") /\ UNCHANGED clocks
  /\ UNCHANGED <<database, now, delivered, exchanges>>

\* The account must be active; the handler then marks the row it read and mints the
\* new pair.
RefreshUser(r) ==
  /\ pc[r] = "refresh_user"
  /\ \/ users[who[r]] # "active" /\ Answer(r, "unauthorized")
     \/ /\ users[who[r]] = "active"
        /\ Await(r, "refresh_add")
        /\ at' = [at EXCEPT ![r] = now]
        /\ UNCHANGED added
  /\ UNCHANGED <<database, now, delivered, exchanges>>

RefreshAdd(r) == pc[r] = "refresh_add" /\ AddToken(r, "refresh_update")

\* The flush sends the UPDATE by primary key, which waits for the row lock and
\* does not look at revoked again, then the INSERT.
RefreshUpdate(r) ==
  /\ pc[r] = "refresh_update"
  /\ ~ RowLocked(tok[r])
  /\ Await(r, "refresh_insert")
  /\ UNCHANGED <<clocks, database, now, delivered, exchanges>>

RefreshInsert(r) == pc[r] = "refresh_insert" /\ InsertToken(r, "refresh_commit")

RefreshCommit(r) ==
  LET new == create_refresh_token(r) IN
  /\ pc[r] = "refresh_commit"
  /\ refresh_tokens' = InsertRow(RevokeRow(refresh_tokens, tok[r]), new, row_expiry(r))
  /\ exchanges' = exchanges \cup {<<tok[r], new>>}
  /\ \/ Answer(r, "ok") /\ delivered' = delivered \cup {new}
     \/ Answer(r, "unavailable") /\ UNCHANGED delivered
  /\ UNCHANGED <<users, now>>

--------------------------------------------------------------------------------
(* POST /auth/logout: any string is accepted, the JWT is not validated *)

LogoutArrive(r) ==
  \E t \in delivered \cup {NoToken} :
    /\ Receive(r, "logout_select", NoUser, t, FALSE)
    /\ UNCHANGED <<database, now, clocks, delivered, exchanges>>

\* 204 at once when there is no row, or when the row is already revoked: the
\* assignment is then no change and commit() has nothing to send.
LogoutSelect(r) ==
  LET live == Stored(tok[r]) /\ ~ refresh_tokens[tok[r]].revoked IN
  /\ pc[r] = "logout_select"
  /\ \/ ~ live /\ Answer(r, "ok")
     \/ live /\ Await(r, "logout_update") /\ UNCHANGED clocks
  /\ UNCHANGED <<database, now, delivered, exchanges>>

LogoutUpdate(r) ==
  /\ pc[r] = "logout_update"
  /\ ~ RowLocked(tok[r])
  /\ Await(r, "logout_commit")
  /\ UNCHANGED <<clocks, database, now, delivered, exchanges>>

LogoutCommit(r) ==
  /\ pc[r] = "logout_commit"
  /\ refresh_tokens' = RevokeRow(refresh_tokens, tok[r])
  /\ AnswerCommitted(r)
  /\ UNCHANGED <<users, now, delivered, exchanges>>

--------------------------------------------------------------------------------
(* The environment *)

\* The connection or the worker is lost, or the pool times out, before the
\* statement the request awaits took effect: the open transaction is rolled back.
Fail(r) ==
  /\ pc[r] # "idle"
  /\ Answer(r, "unavailable")
  /\ UNCHANGED <<database, now, delivered, exchanges>>

\* No handler writes is_active: an operator deactivates an account by hand.
Deactivate(e) ==
  /\ users[e] = "active"
  /\ users' = [users EXCEPT ![e] = "inactive"]
  /\ UNCHANGED <<refresh_tokens, now, request, delivered, exchanges>>

Tick ==
  /\ now < MaxTime
  /\ now' = now + 1
  /\ UNCHANGED <<database, request, delivered, exchanges>>

--------------------------------------------------------------------------------
Init ==
  /\ users = [e \in Emails |-> "absent"]
  /\ refresh_tokens = [t \in {} |-> <<>>]
  /\ now = 0
  /\ pc = [r \in Requests |-> "idle"]
  /\ who = [r \in Requests |-> NoUser]
  /\ tok = [r \in Requests |-> NoToken]
  /\ at = [r \in Requests |-> 0]
  /\ added = [r \in Requests |-> 0]
  /\ res = [r \in Requests |-> "none"]
  /\ delivered = {}
  /\ barred = [r \in Requests |-> FALSE]
  /\ exchanges = {}

Arrive(r) ==
  \/ RegisterArrive(r)
  \/ LoginArrive(r)
  \/ RefreshArrive(r)
  \/ RefreshReject(r)
  \/ LogoutArrive(r)

Handle(r) ==
  \/ RegisterSelect(r) \/ RegisterInsert(r) \/ RegisterCommit(r)
  \/ LoginSelect(r) \/ LoginVerify(r) \/ LoginAdd(r) \/ LoginInsert(r) \/ LoginCommit(r)
  \/ RefreshLookup(r) \/ RefreshSelect(r) \/ RefreshUser(r) \/ RefreshAdd(r)
  \/ RefreshUpdate(r) \/ RefreshInsert(r) \/ RefreshCommit(r)
  \/ LogoutSelect(r) \/ LogoutUpdate(r) \/ LogoutCommit(r)

Next ==
  \/ \E r \in Requests : Arrive(r) \/ Handle(r) \/ Fail(r)
  \/ \E e \in Emails : Deactivate(e)
  \/ Tick

Spec == Init /\ [][Next]_vars

\* Postgres answers every statement it was sent unless the connection is lost,
\* and the coroutine is resumed.  Strong fairness because a lock may be free and
\* taken again many times while one statement waits for it: waiters for a row are
\* queued, and the inserters of one token key stop when their second is over.
FairSpec == Spec /\ \A r \in Requests : SF_vars(Handle(r))

--------------------------------------------------------------------------------
(* Properties *)

Registering == {"register_select", "register_insert", "register_commit"}
LoggingIn == {"login_select", "login_verify", "login_add", "login_insert", "login_commit"}
Refreshing == {"refresh_lookup", "refresh_select", "refresh_user", "refresh_add",
               "refresh_update", "refresh_insert", "refresh_commit"}
LoggingOut == {"logout_update", "logout_commit"}
Storing == {"login_commit", "refresh_commit"}

\* The clock was read once, or a second time for the row.
ReadOnce == {"refresh_select", "login_add", "refresh_add"}
ReadTwice == {"login_insert", "login_commit", "refresh_update", "refresh_insert",
              "refresh_commit"}

DatabaseTypes ==
  /\ users \in [Emails -> {"absent", "active", "inactive"}]
  /\ DOMAIN refresh_tokens \subseteq Tokens
  /\ refresh_tokens \in [DOMAIN refresh_tokens -> Rows]

RequestTypes ==
  /\ pc \in [Requests -> Labels]
  /\ who \in [Requests -> Emails \cup {NoUser}]
  /\ tok \in [Requests -> Tokens \cup {NoToken}]
  /\ at \in [Requests -> 0..MaxTime]
  /\ added \in [Requests -> 0..MaxTime]
  /\ res \in [Requests -> Answers]
  /\ barred \in [Requests -> BOOLEAN]

\* What the handler of r works on: the account, the stored token, and its readings of
\* the clock in their order.
Works(r) ==
  /\ pc[r] \in Registering \cup LoggingIn \cup Refreshing => who[r] \in Emails
  /\ pc[r] \in Refreshing \cup LoggingOut => tok[r] \in DOMAIN refresh_tokens
  /\ pc[r] \in Refreshing => tok[r].user = who[r]
  /\ pc[r] \in ReadOnce => at[r] <= now
  /\ pc[r] \in ReadTwice => at[r] <= added[r]
  /\ pc[r] = "idle" => who[r] = NoUser /\ tok[r] = NoToken
  /\ pc[r] # "idle" => res[r] = "none"

\* Every variable has its type, and a request in flight what it works on.
TypeOK ==
  /\ DatabaseTypes
  /\ RequestTypes
  /\ now \in 0..MaxTime
  /\ delivered \subseteq DOMAIN refresh_tokens
  /\ exchanges \subseteq Tokens \X Tokens
  /\ \A r \in Requests : Works(r)

\* A request that had no right to succeed when it arrived never gets as far as
\* writing: no tokens for a token that logout or an earlier refresh had revoked,
\* nor for an account already deactivated, no second account for a taken address,
\* however its statements interleave with those of other requests.
NoTokensForBarred ==
  \A r \in Requests : barred[r] =>
    pc[r] \notin {"register_insert", "register_commit"} \cup {"login_add", "refresh_add"}
                 \cup ReadTwice

\* The row of a refresh token never expires before its JWT does: exp is computed from
\* the reading that mints the token and cut to seconds, expires_at from a later one.
RowOutlivesJwt ==
  \A t \in DOMAIN refresh_tokens : refresh_tokens[t].expires_at >= jwt_exp(t)

\* A committed refresh leaves the token it took revoked and the token it made in
\* the table, for the same account, however many refreshes race on one token.
ExchangeSpendsOld ==
  \A x \in exchanges :
    /\ x[1] \in DOMAIN refresh_tokens /\ refresh_tokens[x[1]].revoked
    /\ x[2] \in DOMAIN refresh_tokens
    /\ x[1].user = x[2].user

\* Rows are never deleted, revived or replaced: a stored token stays stored with
\* its expiry, and once revoked stays revoked.
RevocationIsFinal ==
  [][\A t \in DOMAIN refresh_tokens :
       /\ t \in DOMAIN refresh_tokens'
       /\ refresh_tokens'[t].expires_at = refresh_tokens[t].expires_at
       /\ refresh_tokens[t].revoked => refresh_tokens'[t].revoked]_vars

\* A token is revoked only by a logout that presented it or by a refresh that, in
\* the same commit, stored another token in exchange for it.
RevocationExplained ==
  [][\A t \in DOMAIN refresh_tokens :
       (~ refresh_tokens[t].revoked /\ refresh_tokens'[t].revoked) =>
         \E r \in Requests :
           /\ tok[r] = t
           /\ \/ pc[r] = "logout_commit"
              \/ /\ pc[r] = "refresh_commit"
                 /\ \E u \in DOMAIN refresh_tokens' \ DOMAIN refresh_tokens :
                      <<t, u>> \in exchanges']_vars

\* A refresh whose JWT was valid on arrival is refused only because its token was
\* revoked, its account is not active, or the JWT itself has run out since: never
\* because the row is missing or ran out before the JWT did.
RefusalExplained ==
  [][\A r \in Requests :
       (pc[r] \in Refreshing /\ res'[r] = "unauthorized") =>
          \/ tok[r] \in DOMAIN refresh_tokens /\ refresh_tokens[tok[r]].revoked
          \/ users[tok[r].user] # "active"
          \/ Expired(tok[r])]_vars

\* An address gets one account: a registration answers 201 only if there was none
\* until its commit, although the handler looked for one in an earlier statement.
AccountCreatedOnce ==
  [][\A r \in Requests : (pc[r] = "register_commit" /\ res'[r] = "ok")
       => users[who[r]] = "absent" /\ users'[who[r]] = "active"]_vars

\* Every request is answered: requests waiting for row locks and for pending keys
\* of one another do not wait for ever.
Answered == \A r \in Requests : (pc[r] # "idle") ~> (pc[r] = "idle")

\* Who waits for whom: for the lock of a row, for the key of a token, for an address.
WaitsFor(r, q) ==
  /\ r # q
  /\ \/ /\ pc[r] \in {"refresh_update", "logout_update"}
        /\ LocksRow(q) /\ tok[q] = tok[r]
     \/ /\ pc[r] \in {"login_insert", "refresh_insert"} /\ pc[q] \in Storing
        /\ create_refresh_token(q) = create_refresh_token(r)
     \/ pc[r] = "register_insert" /\ pc[q] = "register_commit" /\ who[q] = who[r]

\* No deadlock: among any requests there is one that waits for none of the others,
\* although a refresh holds the lock of the old row while it waits for the new key.
NoCircularWait ==
  \A S \in (SUBSET Requests) \ {{}} : \E r \in S : \A q \in S : ~ WaitsFor(r, q)

\* Nothing but another request in flight keeps a handler from its next step.
OnlyWaitsBlock ==
  \A r \in Requests :
    pc[r] = "idle" \/ ENABLED Handle(r) \/ \E q \in Requests : WaitsFor(r, q)

\* What the repository says of login (README: it works while its own service and
\* database are up): a verified login is not refused by the database.
LoginWorks ==
  [][\A r \in Requests : pc[r] = "login_insert" => res'[r] # "integrity_error"]_vars

\* The unique indexes: a pending key is not in the table, and no two transactions
\* hold the same pending key, for addresses and for token hashes.
PendingIsNew(r) ==
  /\ pc[r] = "register_commit" => users[who[r]] = "absent"
  /\ pc[r] \in Storing => ~ Stored(create_refresh_token(r))

PendingApart(r, q) ==
  /\ (pc[r] = "register_commit" /\ pc[q] = "register_commit") => who[r] # who[q]
  /\ (pc[r] \in Storing /\ pc[q] \in Storing) =>
       create_refresh_token(r) # create_refresh_token(q)

UniqueIndexes ==
  /\ \A r \in Requests : PendingIsNew(r)
  /\ \A r, q \in Requests : r # q => PendingApart(r, q)

\* The foreign key: a token, stored or about to be, belongs to an account.
HasAccount(r) ==
  pc[r] \in LoggingIn \ {"login_select"} => users[who[r]] # "absent"

TokensHaveAccounts ==
  /\ \A t \in DOMAIN refresh_tokens : users[t.user] # "absent"
  /\ \A r \in Requests : HasAccount(r)

\* Why a barred request fails: what barred it stays true until its handler looks.
Refused(r) ==
  barred[r] =>
    \/ pc[r] = "register_select" /\ users[who[r]] # "absent"
    \/ pc[r] = "login_select" /\ users[who[r]] = "inactive"
    \/ /\ pc[r] \in {"refresh_lookup", "refresh_select"}
       /\ refresh_tokens[tok[r]].revoked \/ users[who[r]] = "inactive"
    \/ pc[r] = "refresh_user" /\ users[who[r]] = "inactive"

\* The inductive invariant: the type invariant with what the database constraints
\* give the handlers, and what the safety properties need of each other.
Inv ==
  /\ TypeOK
  /\ UniqueIndexes
  /\ TokensHaveAccounts
  /\ \A r \in Requests : Refused(r)
  /\ RowOutlivesJwt
  /\ ExchangeSpendsOld

\* Refinement: the rows of the table, the request of each slot, what it has found, and
\* the answers, of which two are the same to a client.
LiveTokens == {t \in DOMAIN refresh_tokens : ~ refresh_tokens[t].revoked}
SpentTokens == {t \in DOMAIN refresh_tokens : refresh_tokens[t].revoked}
EndedTokens == {t \in Tokens : Expired(t)}

Operation(r) ==
  CASE pc[r] = "idle" -> "none"
    [] pc[r] \in Registering -> "register"
    [] pc[r] \in LoggingIn -> "login"
    [] pc[r] \in Refreshing -> "refresh"
    [] pc[r] \in {"logout_select", "logout_update", "logout_commit"} -> "logout"

Serves(r) == [op |-> Operation(r), user |-> who[r], token |-> tok[r]]

Found(r) ==
  {c \in {"token", "account"} :
     \/ c = "token" /\ pc[r] \in Refreshing \ {"refresh_lookup", "refresh_select"}
     \/ c = "account"
        /\ \/ pc[r] \in LoggingIn \ {"login_select"}
           \/ pc[r] \in Refreshing \ {"refresh_lookup", "refresh_select", "refresh_user"}}

Reported(outcome) ==
  IF outcome \in {"integrity_error", "unavailable"} THEN "failed" ELSE outcome

Store ==
  INSTANCE AccountStore WITH
    accounts <- users,
    live <- LiveTokens,
    spent <- SpentTokens,
    given <- delivered,
    ended <- EndedTokens,
    asks <- [r \in Requests |-> Serves(r)],
    passed <- [r \in Requests |-> Found(r)],
    answers <- [r \in Requests |-> Reported(res[r])]

\* Every request takes effect at one moment, as if no other ran; what gave it a right to
\* new tokens was so at a moment while it was served, and a refusal has its reason.
ImplementsAccountStore == Store!Spec
================================================================================
