---------------------------- MODULE ListingsService ----------------------------
(****************************************************************************)
(* The listings service: the five handlers of                               *)
(* services/listings/app/routers/listings.py over a pool of database        *)
(* connections, with the row level security of the listings table.          *)
(*                                                                          *)
(* The identity of a transaction is a setting of its connection, and the    *)
(* connections are shared by the requests of every user.  A request takes a *)
(* connection with its first statement, which sets the identity for the     *)
(* transaction, and gives it back when its transaction ends.  Policies read *)
(* the setting of the connection, never the user of the request.            *)
(*                                                                          *)
(* Each await of a handler is a step.  The uncommitted write of a request   *)
(* is implied by its label: at "commit" it holds the lock of its row.       *)
(****************************************************************************)
CONSTANTS
  Users,        \* subjects of access tokens
  Ids,          \* listing ids: uuid4, never drawn twice
  Fields,       \* columns a client may write
  Values,       \* values the columns accept
  BadValue,     \* passes the schema and is refused by the column
  Requests,     \* request slots
  Connections,  \* the connection pool
  NoUser, NoId, NoConn

ASSUME UserAssumption == NoUser \notin Users
ASSUME IdAssumption == NoId \notin Ids
ASSUME ConnAssumption == NoConn \notin Connections
ASSUME ValueAssumption == BadValue \notin Values

VARIABLES
  listings,  \* listings table: id -> [owner, fields]
  gone,      \* history: ids of deleted listings
  guc,       \* app.current_user_id of each connection; NoUser: unset or empty
  pc,        \* what each request slot awaits
  op,        \* the handler it runs
  user,      \* subject of its access token (CurrentUser)
  lid,       \* listing_id of the path, or the id create gives the new listing
  body,      \* the fields the client sent
  loaded,    \* the fields of the listing as the handler's SELECT found them
  conn,      \* the connection its session holds
  sent       \* the answer the last step sent, if it sent one

table == <<listings, gone>>
input == <<op, user, body, lid>>
vars == <<table, guc, pc, input, loaded, conn, sent>>

Ops == {"create", "list", "get", "patch", "delete"}
Labels == {"idle", "set_rls", "select", "flush", "commit"}
\* refused: the database raised; stale: the UPDATE found no row; unreadable: the
\* answer could not be built. All three are a 500 to the client, as is unavailable.
Outcomes == {"ok", "unauthorized", "not_found", "refused", "stale", "unreadable",
             "unavailable"}

Rows == [owner : Users, fields : [Fields -> Values]]
\* exclude_unset: any subset of the fields, each with a value the schema admits.
Bodies == UNION {[F -> Values \cup {BadValue}] : F \in SUBSET Fields}
NoBody == [f \in {} |-> BadValue]
NoAsk == [op |-> "none", user |-> NoUser, id |-> NoId, body |-> NoBody]

--------------------------------------------------------------------------------
(* The database, as the service uses it *)

BugPolicy(c, u) == TRUE
\* The four policies: owner_id = current_setting('app.current_user_id')::uuid.  An
\* unset setting makes the statement fail, and a connection in use never has one.
Policy(c, u) == u = guc[c]

Visible(r) == {i \in DOMAIN listings : Policy(conn[r], listings[i].owner)}

BugLocks(r) == pc[r] \in {"flush", "commit"} /\ op[r] \in {"patch", "delete"}
\* The UPDATE or DELETE of r holds the lock of its row until the commit.
Locks(r) == pc[r] = "commit" /\ op[r] \in {"patch", "delete"}

RowLocked(i) == \E q \in Requests : Locks(q) /\ lid[q] = i

Free(c) == \A q \in Requests : conn[q] # c

BugChanged(r) ==
  {f \in DOMAIN body[r] : body[r][f] # loaded[r][f] /\ body[r][f] # BadValue}
\* The columns the UPDATE names: what setattr changed with respect to what was loaded.
Changed(r) == {f \in DOMAIN body[r] : body[r][f] # loaded[r][f]}

Written(r) ==
  IF op[r] = "create" THEN body[r] ELSE [f \in Changed(r) |-> body[r][f]]

BugRefusedByColumn(r) == op[r] = "create" /\ \E f \in Fields : body[r][f] = BadValue
\* The column refuses a value the schema let pass: Numeric(3, 1) an overflow, NOT NULL
\* the null that every field of a PATCH may be.
RefusedByColumn(r) == \E f \in DOMAIN Written(r) : Written(r)[f] = BadValue

BugMerge(r) == [f \in Fields |-> IF f \in DOMAIN body[r] THEN body[r][f] ELSE loaded[r][f]]
\* The fields of the row after the UPDATE of the changed columns.
Merge(r) ==
  [f \in Fields |-> IF f \in Changed(r) THEN body[r][f] ELSE listings[lid[r]].fields[f]]

--------------------------------------------------------------------------------
(* Control of a handler *)

BugEndTransaction(r) ==
  /\ conn' = [conn EXCEPT ![r] = NoConn]
  /\ UNCHANGED guc

BugLeakConnection(r) ==
  IF pc[r] = "commit" \/ op[r] # "get"
  THEN /\ guc' = [c \in Connections |-> IF c = conn[r] THEN NoUser ELSE guc[c]]
       /\ conn' = [conn EXCEPT ![r] = NoConn]
  ELSE UNCHANGED <<guc, conn>>

\* COMMIT or ROLLBACK: the local setting is reset and the session lets go of its
\* connection.
EndTransaction(r) ==
  /\ guc' = [c \in Connections |-> IF c = conn[r] THEN NoUser ELSE guc[c]]
  /\ conn' = [conn EXCEPT ![r] = NoConn]

Answer(r, outcome, ids) ==
  /\ pc' = [pc EXCEPT ![r] = "idle"]
  /\ op' = [op EXCEPT ![r] = "list"]
  /\ user' = [user EXCEPT ![r] = NoUser]
  /\ body' = [body EXCEPT ![r] = NoBody]
  /\ lid' = [lid EXCEPT ![r] = NoId]
  /\ loaded' = [loaded EXCEPT ![r] = NoBody]
  /\ sent' = {[to |-> r, user |-> user[r], outcome |-> outcome, shows |-> ids]}
  /\ EndTransaction(r)

Await(r, label) ==
  /\ pc' = [pc EXCEPT ![r] = label]
  /\ sent' = {}
  /\ UNCHANGED <<input, conn, guc>>

--------------------------------------------------------------------------------
(* The handlers *)

\* get_current_user_id: no credentials, or not an access token of ours.
Reject(r) ==
  /\ pc[r] = "idle"
  /\ Answer(r, "unauthorized", {})
  /\ UNCHANGED table

\* uuid4: not the id of any listing there ever was, nor of one being created.
Unused(i) ==
  /\ i \notin DOMAIN listings \cup gone
  /\ \A q \in Requests : op[q] = "create" => lid[q] # i

\* The inputs of each handler: a body for create has every field, a body for patch any
\* of them.
Routed(o, i, b) ==
  \/ o = "create" /\ DOMAIN b = Fields /\ i # NoId /\ Unused(i)
  \/ o = "patch" /\ i # NoId
  \/ o \in {"get", "delete"} /\ b = NoBody /\ i # NoId
  \/ o = "list" /\ b = NoBody /\ i = NoId

Arrive(r) ==
  \E o \in Ops, u \in Users, i \in Ids \cup {NoId}, b \in Bodies :
    /\ pc[r] = "idle"
    /\ Routed(o, i, b)
    /\ pc' = [pc EXCEPT ![r] = "set_rls"]
    /\ op' = [op EXCEPT ![r] = o]
    /\ user' = [user EXCEPT ![r] = u]
    /\ body' = [body EXCEPT ![r] = b]
    /\ lid' = [lid EXCEPT ![r] = i]
    /\ sent' = {}
    /\ UNCHANGED <<table, guc, loaded, conn>>

BugSetRlsUser(r) ==
  \E c \in Connections :
    /\ pc[r] = "set_rls"
    /\ Free(c)
    /\ conn' = [conn EXCEPT ![r] = c]
    /\ pc' = [pc EXCEPT ![r] = IF op[r] = "create" THEN "flush" ELSE "select"]
    /\ guc' = [guc EXCEPT ![c] = IF op[r] = "delete" THEN @ ELSE user[r]]
    /\ sent' = {}
    /\ UNCHANGED <<table, input, loaded>>

\* set_rls_user is the first statement: it waits for a connection of the pool.
SetRlsUser(r) ==
  \E c \in Connections :
    /\ pc[r] = "set_rls"
    /\ Free(c)
    /\ conn' = [conn EXCEPT ![r] = c]
    /\ guc' = [guc EXCEPT ![c] = user[r]]
    /\ pc' = [pc EXCEPT ![r] = IF op[r] = "create" THEN "flush" ELSE "select"]
    /\ sent' = {}
    /\ UNCHANGED <<table, input, loaded>>

\* A page of what the policy lets through: the filters, skip and limit choose it.
List(r) ==
  /\ pc[r] = "select" /\ op[r] = "list"
  /\ \E page \in SUBSET Visible(r) : Answer(r, "ok", page)
  /\ UNCHANGED table

\* scalar_one_or_none: a listing of another user is not found.
NotFound(r) ==
  /\ pc[r] = "select" /\ op[r] # "list"
  /\ lid[r] \notin Visible(r)
  /\ Answer(r, "not_found", {})
  /\ UNCHANGED table

Get(r) ==
  /\ pc[r] = "select" /\ op[r] = "get"
  /\ lid[r] \in Visible(r)
  /\ Answer(r, "ok", {lid[r]})
  /\ UNCHANGED table

\* A body that changes nothing of what was loaded sends no UPDATE: commit() ends the
\* transaction and the listing is returned as it was loaded.
PatchNothing(r) ==
  /\ pc[r] = "select" /\ op[r] = "patch"
  /\ lid[r] \in Visible(r)
  /\ \A f \in DOMAIN body[r] : body[r][f] = listings[lid[r]].fields[f]
  /\ Answer(r, "ok", {lid[r]})
  /\ UNCHANGED table

SelectToWrite(r) ==
  /\ pc[r] = "select" /\ op[r] \in {"patch", "delete"}
  /\ lid[r] \in Visible(r)
  /\ op[r] = "patch" => \E f \in DOMAIN body[r] : body[r][f] # listings[lid[r]].fields[f]
  /\ loaded' = [loaded EXCEPT ![r] = listings[lid[r]].fields]
  /\ Await(r, "flush")
  /\ UNCHANGED table

\* The flush of commit() fails on a value the column does not take.
FlushRefused(r) ==
  /\ pc[r] = "flush" /\ op[r] \in {"create", "patch"}
  /\ RefusedByColumn(r)
  /\ Answer(r, "refused", {})
  /\ UNCHANGED table

InsertListing(r) ==
  /\ pc[r] = "flush" /\ op[r] = "create"
  /\ ~ RefusedByColumn(r)
  /\ Policy(conn[r], user[r])
  /\ Await(r, "commit")
  /\ UNCHANGED <<table, loaded>>

\* UPDATE ... WHERE id: waits for the row lock, then sees the row as it now is; no
\* row matched is a StaleDataError.
UpdateListing(r) ==
  /\ pc[r] = "flush" /\ op[r] = "patch"
  /\ ~ RefusedByColumn(r)
  /\ ~ RowLocked(lid[r])
  /\ \/ lid[r] \notin Visible(r) /\ Answer(r, "stale", {})
     \/ lid[r] \in Visible(r) /\ Await(r, "commit") /\ UNCHANGED loaded
  /\ UNCHANGED table

\* DELETE ... WHERE id: no row matched is only logged.
DeleteListing(r) ==
  /\ pc[r] = "flush" /\ op[r] = "delete"
  /\ ~ RowLocked(lid[r])
  /\ Await(r, "commit")
  /\ UNCHANGED <<table, loaded>>

CommitCreate(r) ==
  /\ pc[r] = "commit" /\ op[r] = "create"
  /\ listings' = [i \in DOMAIN listings \cup {lid[r]} |->
                    IF i = lid[r] THEN [owner |-> user[r], fields |-> body[r]] ELSE listings[i]]
  /\ \/ Answer(r, "ok", {lid[r]})
     \/ Answer(r, "unavailable", {})
  /\ UNCHANGED gone

\* updated_at was left expired by the UPDATE (onupdate=func.now()); reading it for
\* the answer asks for a statement outside the session's coroutine and raises.
CommitPatch(r) ==
  /\ pc[r] = "commit" /\ op[r] = "patch"
  /\ listings' = [listings EXCEPT ![lid[r]].fields = Merge(r)]
  /\ \E outcome \in {"unreadable", "unavailable"} : Answer(r, outcome, {})
  /\ UNCHANGED gone

BugCommitDelete(r) ==
  /\ pc[r] = "commit" /\ op[r] = "delete"
  /\ \E outcome \in {"ok", "unavailable"} : Answer(r, outcome, {})
  /\ UNCHANGED table

CommitDelete(r) ==
  /\ pc[r] = "commit" /\ op[r] = "delete"
  /\ listings' = [i \in DOMAIN listings \ {lid[r]} |-> listings[i]]
  /\ gone' = gone \cup ({lid[r]} \cap DOMAIN listings)
  /\ \E outcome \in {"ok", "unavailable"} : Answer(r, outcome, {})

\* No connection within the pool timeout, or the connection or the worker is lost:
\* the transaction is rolled back.
Fail(r) ==
  /\ pc[r] # "idle"
  /\ Answer(r, "unavailable", {})
  /\ UNCHANGED table

--------------------------------------------------------------------------------
Init ==
  /\ listings = [i \in {} |-> NoBody]
  /\ gone = {}
  /\ guc = [c \in Connections |-> NoUser]
  /\ pc = [r \in Requests |-> "idle"]
  /\ op = [r \in Requests |-> "list"]
  /\ user = [r \in Requests |-> NoUser]
  /\ lid = [r \in Requests |-> NoId]
  /\ body = [r \in Requests |-> NoBody]
  /\ loaded = [r \in Requests |-> NoBody]
  /\ conn = [r \in Requests |-> NoConn]
  /\ sent = {}

Handle(r) ==
  \/ SetRlsUser(r)
  \/ List(r) \/ Get(r) \/ NotFound(r) \/ PatchNothing(r) \/ SelectToWrite(r)
  \/ FlushRefused(r) \/ InsertListing(r) \/ UpdateListing(r) \/ DeleteListing(r)
  \/ CommitCreate(r) \/ CommitPatch(r) \/ CommitDelete(r)

Next == \E r \in Requests : Arrive(r) \/ Reject(r) \/ Handle(r) \/ Fail(r)

Spec == Init /\ [][Next]_vars

\* The database answers; waiters for a connection or a row lock are queued, so a
\* request is not passed over for ever by others.
FairSpec == Spec /\ \A r \in Requests : SF_vars(Handle(r))

--------------------------------------------------------------------------------
(* Properties *)

TypeOK ==
  /\ DOMAIN listings \subseteq Ids /\ listings \in [DOMAIN listings -> Rows]
  /\ gone \subseteq Ids
  /\ guc \in [Connections -> Users \cup {NoUser}]
  /\ pc \in [Requests -> Labels]
  /\ op \in [Requests -> Ops]
  /\ user \in [Requests -> Users \cup {NoUser}]
  /\ lid \in [Requests -> Ids \cup {NoId}]
  /\ conn \in [Requests -> Connections \cup {NoConn}]
  /\ sent \subseteq [to : Requests, user : Users \cup {NoUser}, outcome : Outcomes,
                     shows : SUBSET Ids]
  /\ body \in [Requests -> Bodies]
  /\ loaded \in [Requests -> Bodies]

\* A connection carries the identity of the one request that holds it and of nobody
\* when it is free: no transaction runs under the user of an earlier one.
IdentityFollowsRequest ==
  /\ \A r, q \in Requests : (r # q /\ conn[r] # NoConn) => conn[r] # conn[q]
  /\ \A c \in Connections :
       \/ Free(c) /\ guc[c] = NoUser
       \/ \E r \in Requests : conn[r] = c /\ guc[c] = user[r] /\ user[r] # NoUser

\* What a request has at each statement of its handler: a connection from its first
\* statement on, values the columns take once they were written, and, from the SELECT
\* on, a listing that is its user's own or is gone.
InHandler(r) ==
  /\ pc[r] = "idle" => user[r] = NoUser /\ op[r] = "list"
  /\ pc[r] # "idle" => user[r] \in Users
  /\ conn[r] # NoConn <=> pc[r] \in {"select", "flush", "commit"}
  /\ op[r] # "list" => lid[r] \in Ids
  /\ pc[r] = "select" => op[r] # "create"
  /\ pc[r] \in {"flush", "commit"} => op[r] \in {"create", "patch", "delete"}
  /\ op[r] = "create" => DOMAIN body[r] = Fields
  /\ (pc[r] = "commit" /\ op[r] # "delete") => \A f \in DOMAIN Written(r) : Written(r)[f] \in Values
  /\ (pc[r] \in {"flush", "commit"} /\ op[r] # "create") =>
       \/ lid[r] \in gone
       \/ lid[r] \in DOMAIN listings /\ listings[lid[r]].owner = user[r]
  /\ (pc[r] = "commit" /\ op[r] = "patch") => lid[r] \in DOMAIN listings

\* Nobody else has the id a request creates, nor the lock of the row it wrote.
Alone(r) ==
  /\ op[r] = "create" =>
       /\ lid[r] \notin DOMAIN listings \cup gone
       /\ \A q \in Requests \ {r} : op[q] = "create" => lid[q] # lid[r]
  /\ Locks(r) => \A q \in Requests \ {r} : Locks(q) => lid[q] # lid[r]

Inv ==
  /\ TypeOK
  /\ IdentityFollowsRequest
  /\ gone \cap DOMAIN listings = {}
  /\ \A r \in Requests : InHandler(r) /\ Alone(r)

\* An answer shows only listings of the user whose token it answers: a listing of
\* another user reads as not found, whatever its id.
ShowsOnlyOwn ==
  [][\A a \in sent' : \A i \in a.shows : listings'[i].owner = user[a.to]]_vars

\* A listing changes, or is removed, only by the commit of a request of its owner,
\* and no step changes who owns it.
OnlyOwnerWrites ==
  [][\A i \in DOMAIN listings :
       /\ i \in DOMAIN listings' => listings'[i].owner = listings[i].owner
       /\ (i \notin DOMAIN listings' \/ listings'[i] # listings[i]) =>
            \E r \in Requests : /\ pc[r] = "commit" /\ lid[r] = i
                                /\ user[r] = listings[i].owner]_vars

\* A PATCH leaves alone every field the client did not send, those that others
\* changed after the handler loaded the listing included.
PatchKeepsRest ==
  [][\A r \in Requests : (pc[r] = "commit" /\ op[r] = "patch") =>
       \A f \in Fields \ DOMAIN body[r] :
         lid[r] \in DOMAIN listings' =>
           listings'[lid[r]].fields[f] = listings[lid[r]].fields[f]]_vars

\* A DELETE that answers 204 has removed the listing, or another one had while it
\* waited for the row; the listing does not come back, although an UPDATE of it may be
\* waiting for the row too.
DeletedForGood ==
  [][/\ gone' \cap DOMAIN listings' = {}
     /\ \A a \in sent' :
          (op[a.to] = "delete" /\ a.outcome = "ok") => lid[a.to] \in gone']_vars

\* The owner of a listing is never told that it is not there, by the policy or by an
\* UPDATE that matches no row, while it is.
OwnerFinds ==
  [][\A a \in sent' :
       (a.outcome \in {"not_found", "stale"} /\ lid[a.to] \in DOMAIN listings) =>
         listings[lid[a.to]].owner # user[a.to]]_vars

\* Every request is answered, with fewer connections than requests and waits for rows.
Answered == \A r \in Requests : (pc[r] # "idle") ~> (pc[r] = "idle")

\* Who waits for whom: for a connection when all are in use, for the lock of a row.
WaitsFor(r, q) ==
  /\ r # q
  /\ \/ pc[r] = "set_rls" /\ (\A c \in Connections : ~ Free(c)) /\ conn[q] # NoConn
     \/ pc[r] = "flush" /\ op[r] \in {"patch", "delete"} /\ Locks(q) /\ lid[q] = lid[r]

\* No deadlock: among any requests there is one that waits for none of the others,
\* although those that wait for a row keep a connection others wait for.
NoCircularWait ==
  \A S \in (SUBSET Requests) \ {{}} : \E r \in S : \A q \in S : ~ WaitsFor(r, q)

\* Nothing but another request in flight keeps a handler from its next step.
OnlyWaitsBlock ==
  \A r \in Requests :
    \/ pc[r] = "idle"
    \/ ENABLED Handle(r)
    \/ \E q \in Requests : pc[q] # "idle" /\ WaitsFor(r, q)

\* Refinement: the request of each slot, what a PATCH found to be as it sends it, and
\* the answers, every failure of which looks the same.
Serves(r) ==
  IF pc[r] = "idle" THEN NoAsk
  ELSE [op |-> op[r], user |-> user[r], body |-> body[r],
        id |-> IF op[r] = "create" THEN NoId ELSE lid[r]]

Settled(r) ==
  IF op[r] = "patch" /\ pc[r] \in {"flush", "commit"}
  THEN {f \in DOMAIN body[r] : body[r][f] = loaded[r][f]} ELSE {}

Found == {r \in Requests : op[r] = "delete" /\ pc[r] \in {"flush", "commit"}}

Reported(outcome) ==
  IF outcome \in {"ok", "unauthorized", "not_found"} THEN outcome ELSE "failed"

Reply(a) == [to |-> a.to, outcome |-> Reported(a.outcome), shows |-> a.shows]

Promise ==
  INSTANCE ListingStore WITH
    asks <- [r \in Requests |-> Serves(r)],
    settled <- [r \in Requests |-> Settled(r)],
    found <- Found,
    replies <- {Reply(a) : a \in sent}

\* Every request reads or changes the listings of its user at one moment, as if no
\* other ran; a PATCH leaves out no field but those that had its value already.
ImplementsListingStore == Promise!Spec

\* Refinement for one user: their listings and requests and the answers to them. Ids of
\* others, live or gone, are ids they cannot get.
OwnIds(u) == {i \in DOMAIN listings : listings[i].owner = u}

View(u) ==
  INSTANCE UserView WITH
    Users <- {u},
    listings <- [i \in OwnIds(u) |-> listings[i]],
    gone <- gone \cup (DOMAIN listings \ OwnIds(u)),
    asks <- [r \in Requests |-> IF user[r] = u THEN Serves(r) ELSE NoAsk],
    settled <- [r \in Requests |-> IF user[r] = u THEN Settled(r) ELSE {}],
    found <- {r \in Found : user[r] = u},
    replies <- {Reply(a) : a \in {b \in sent : b.user = u}}

\* Users do not notice each other: whatever the others do, and whichever connections
\* they shared, what a user is answered is what a store of their own would answer.
UsersApart ==
  /\ \A u \in Users : View(u)!Init
  /\ [][\A u \in Users : View(u)!ViewNext \/ UNCHANGED View(u)!vars]_vars

\* What the repository says of a commit (the object state stays intact) and of the
\* handler (its response model is the listing): a PATCH that took effect answers it.
PatchAnswers ==
  [][\A a \in sent' : op[a.to] = "patch" => a.outcome # "unreadable"]_vars
================================================================================
