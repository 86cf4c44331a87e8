# TLA+ models of the listings API

Formal models of the two services of this repository, the TLC runs that check
them on small instances, and TLAPS proofs of what matters most for every
instance. Paths below are relative to `src/`.

## The system

| Component | State it keeps | Operations | Talks to |
| --- | --- | --- | --- |
| Auth service (`services/auth/app`) | `users`, `refresh_tokens` in its own Postgres | register, login, refresh, logout | its database through a pool of 5 + 10 connections; secret store |
| Listings service (`services/listings/app`) | `listings` in its own Postgres, with row level security; the identity setting of each pooled connection | create, list, get, patch, delete | its database through a pool of 10 + 20 connections; secret store |
| JWT validation (`shared/jwt_utils.py`) | none; expiry is a comparison with the clock | decode, validate access or refresh token | called by both services |
| Secret store (`shared/secret_store.py`, `secrets_cloud.py`) | two nested caches in each process | get, clear | files, cloud secret managers |
| Database roles (`services/*/db/init.sh`, `scripts/bootstrap_db_roles.py`, `services/*/alembic`) | roles, grants, default privileges, schema version | init, bootstrap, upgrade | each database |
| Service lifecycle (`services/*/app/main.py`, `config.py`) | engine and session factory | start, stop, health | containers, load balancer |
| Gateway (`gateway/nginx.conf`) | two rate limiters per client address | forward, refuse | both services |
| Containers (`docker-compose.yml`, Dockerfiles) | up, healthy, restarting | restart, depend | all of the above |
| Delivery (`.github/workflows`) | image tags, task definition revisions, secrets, running tasks | build, promote, migrate, roll out, sync secrets | cloud |

The services never call each other. They share the signing key of the tokens
and nothing else, so each is modelled with its own database, and concurrency is
between the requests of one service: the coroutines of one uvicorn worker and
the workers of one service interleave at every `await`, which in this code is
always a database statement.

What is hard here is what those interleavings do to decisions made in an
earlier statement: register looks for the address and inserts later, refresh
reads `revoked` and updates later, PATCH loads a listing and writes later. The
database is at READ COMMITTED, so only its unique indexes and row locks stand
between two such requests. In the listings service the identity the policies
read belongs to a connection, and connections pass from user to user. Time is
hard too: a refresh token carries two expiry times computed from different
clock readings, and one is cut to whole seconds. And a commit may take effect
without its caller hearing of it. Before all this, the database has to come to be:
its roles, their privileges and its tables are made by two workflows that know
nothing of each other, each step of which may fail or be cut off while what it
started goes on.

The correctness properties of each component are listed with its module below;
`hazards` in `PROJECT.json` lists each hazard at the line where it bites with
the properties that would catch it.

## Modules

| Module | Role |
| --- | --- |
| `AccountStore` | abstract specification: what the auth service promises its clients about accounts and refresh tokens |
| `AuthService` | the four handlers of `routers/auth.py` over one database |
| `MCAuthService` | symmetry set for TLC |
| `AuthServiceProofs` | invariants and action properties of `AuthService`, proved |
| `AuthRefinementProofs` | `AuthService` implements `AccountStore`, proved |
| `ListingsService` | the five handlers of `routers/listings.py` over a pool of connections, with the policies |
| `ListingStore` | abstract specification: what the listings service promises its clients |
| `UserView` | abstract specification: a `ListingStore` of one user, in which ids may be taken by others |
| `MCListingsService` | symmetry sets for TLC |
| `ListingsServiceProofs` | the invariant of `ListingsService`, and each of its properties of states and steps, proved |
| `ListingsRefinementProofs` | `ListingsService` implements `ListingStore`, and `UserView` for each user, proved |
| `SecretStore` | the two nested caches of secrets in each process, while secrets are rotated |
| `SecretStoreProofs` | its invariant, proved |
| `TokenFlow` | signing and validation of tokens by the processes of both services, over `SecretStore` |
| `MCTokenFlow` | lifetimes for TLC |
| `TokenFlowProofs` | the properties of `TokenFlow`, proved |
| `DbRoles` | one database as its roles, privileges and tables come to be: bootstrap, migrations, rotations |
| `DbRolesProofs` | its invariant and what it promises of tables, proved |
| `Delivery` | the deploy runs, the bootstrap workflow and the tasks of one service, over `DbRoles` |
| `MCDelivery` | schemas, bounds and symmetry for TLC |
| `DeliveryProofs` | the properties of `Delivery`, and that it implements `DbRoles`, proved |

Operators named `Bug...` are not part of a specification. Each is a plausible
mistake in the definition that follows it (a dropped check, a write of the wrong
rows, a leaked connection), kept to show that a property would notice it:
`mutants` in `PROJECT.json` pairs them with properties.

### AuthService

A request slot runs one handler at a time and `pc[r]` names the statement it
awaits. Each statement is one action, with the synchronous code that follows it
up to the next `await` or to the next reading of the clock, which is a step of its
own. A handler reads the clock more than once, and time may pass in between:

| Reading | Where | In the model |
| --- | --- | --- |
| PyJWT tests `exp` | `jwt_utils.py:22`, in `RefreshArrive` | `Expired`, against `now` |
| the `WHERE expires_at > ...` of refresh | `auth.py:100` | `RefreshLookup` takes it into `at[r]`, `Usable` compares with it |
| `create_refresh_token` | `security.py:49` | `LoginVerify`, `RefreshUser` take it into `at[r]` |
| `expires_at` of the row for it | `auth.py:78`, `auth.py:119` | `LoginAdd`, `RefreshAdd` take it into `added[r]` |

The clock of one server does not go back: `Tick` only adds.

| Code | Actions |
| --- | --- |
| `register` | `RegisterArrive`, `RegisterSelect`, `RegisterInsert`, `RegisterCommit` |
| `login` | `LoginArrive`, `LoginSelect`, `LoginVerify` (argon2 takes its time: the clock may move), `LoginAdd`, `LoginInsert`, `LoginCommit` |
| `refresh` | `RefreshReject` (the JWT is refused), `RefreshArrive`, `RefreshLookup`, `RefreshSelect`, `RefreshUser`, `RefreshAdd`, `RefreshUpdate`, `RefreshInsert`, `RefreshCommit` |
| `logout` | `LogoutArrive`, `LogoutSelect`, `LogoutUpdate`, `LogoutCommit` |
| pool timeout, lost connection or worker | `Fail`; a commit whose acknowledgement is lost is the second disjunct of the commit actions |
| an operator clears `is_active` (no handler does) | `Deactivate` |
| the clock | `Tick` |

`commit()` is two or three steps, because SQLAlchemy flushes first: the UPDATE
of a changed row, then the INSERT of a new one, then COMMIT. Uncommitted writes
are not stored in a variable: a request whose `pc` is past its UPDATE holds the
lock of the row (`RowLocked`), one past its INSERT holds a pending key of a
unique index (`KeyPending`, `EmailPending`), and COMMIT changes the tables. A
statement that meets a lock waits (its action is not enabled); one that meets a
committed duplicate is answered `integrity_error`, which no handler catches.

A refresh token is the pair of its user and its whole-second `iat`, because that
is all its text depends on: there is no `jti`, `exp` is `iat` plus a constant,
and HMAC is deterministic. Requests present tokens some client was given
(`delivered`), or a string that is not one (`NoToken`). Passwords are a choice
(`LoginVerify`), hashes and access tokens are left out.

`barred` and `exchanges` are history variables, used in properties only.

What makes it correct:

- `TypeOK`: types, and a handler in flight has the account and token it works on.
- `NoTokensForBarred`: a request that had no right to succeed when it arrived
  (token already revoked, account already inactive, address already taken) never
  reaches a statement that writes.
- `RowOutlivesJwt`: the row of a token, dated by the later of two readings, never
  runs out before its JWT, whose times are cut to whole seconds.
- `RefusalExplained`: a refresh whose JWT passed the first reading is refused only for
  a revocation, an inactive account, or because the JWT has run out by the second.
- `ExchangeSpendsOld`, `RevocationIsFinal`, `RevocationExplained`: a committed
  refresh spends its token, no row is revived or replaced, no token is spent by
  a request that did not present it.
- `AccountCreatedOnce`: an address gets one account.
- `NoCircularWait`, `OnlyWaitsBlock`: a statement waits only for requests that hold
  the row or the key (`WaitsFor`), and never in a circle. A refresh holds a row while
  it waits for a key; who holds a key waits for nobody.
- `Answered`: no request waits for ever for locks and pending keys.
- `ImplementsAccountStore`: a request takes effect at one moment, on rights it had.

`AccountStore` knows no statements, locks or tables, and of time only that that of a
token may be over (`Elapse`, `ended`): a request takes effect at
the moment at which it is answered. What gives it a right to new tokens it finds in
earlier moments, all while it is served: a login finds its account active
(`FindAccount`), a refresh first its token live (`FindToken`) and then its account
active. None of this need last. A client may refresh what has not ended; if it ends
before the token was found live, the refresh may be refused for that. So the store lets two requests find one token live and
both exchange it, lets a refresh that found its token before a logout exchange it after,
and gives tokens to a request that found its account before it was deactivated: the
handlers do all that (the `UPDATE` is by primary key and does not look at `revoked`
again), and nothing else of the kind. A refusal has its reason at the moment it is
given, a 409 too; a logout answered 204 leaves its token spent, whoever spent it; every
failure is one answer, after which the request may or may not have taken effect, and a
token it minted was or was not given. Because spent tokens and deactivated accounts
never come back, a request that arrives after them finds nothing: `NoTokensForBarred`
is what the store looks like from within. The refinement maps `live` and `spent` to the
unrevoked and the revoked rows, `ended` to the tokens whose `exp` has come, `asks[r]`
to the request in flight, `passed[r]` to what
its label says the handler has seen, and the two kinds of 500 to `"failed"`.

### ListingsService

`guc[c]` is the setting `app.current_user_id` of connection `c`. A request takes
a free connection with its first statement, `set_rls_user`, and gives it back,
with the local setting reset, when its transaction ends (`EndTransaction`).
`Policy` reads the connection, never the user of the request: that the two agree
is the property `IdentityFollowsRequest` and not an assumption.

| Code | Actions |
| --- | --- |
| `get_current_user_id` refuses | `Reject` |
| a request is routed | `Arrive` |
| `set_rls_user` | `SetRlsUser` |
| `list_listings`, `get_listing` | `List`, `Get`, `NotFound` |
| `create_listing` | `FlushRefused` or `InsertListing`, then `CommitCreate` |
| `update_listing` | `NotFound`, `PatchNothing` or `SelectToWrite`, then `FlushRefused` or `UpdateListing`, then `CommitPatch` |
| `delete_listing` | `NotFound` or `SelectToWrite`, then `DeleteListing`, `CommitDelete` |
| pool timeout, lost connection | `Fail` |

Two details of the ORM decide what a concurrent PATCH does, and are modelled:
the UPDATE names only the columns whose value differs from what the SELECT
loaded (`Changed`), and an UPDATE that matches no row raises (`stale`) while a
DELETE that matches none is only logged. A third makes `ListingsPatch` fail:
`updated_at` is expired by the UPDATE and cannot be read for the answer.

What makes it correct:

- `IdentityFollowsRequest`: a connection carries the identity of the one request
  that holds it, and of nobody when it is free.
- `Inv`: with the former, what a handler has at each of its statements, and that no
  two requests create one id or hold the lock of one row.
- `ShowsOnlyOwn`, `OnlyOwnerWrites`, `OwnerFinds`: only its owner sees or changes
  a listing, and the owner is never told that it is not there while it is.
- `PatchKeepsRest`: a PATCH leaves alone what the client did not send, whatever
  was changed since the handler loaded the listing.
- `DeletedForGood`: a DELETE answered 204 means the listing is gone, and gone
  listings stay gone.
- `NoCircularWait`, `OnlyWaitsBlock`: a request that waits for a row keeps a
  connection others wait for, and yet no circle of waits closes, since one that waits
  for a connection has nothing anybody waits for.
- `Answered`: no request waits for ever for a connection or a row.
- `ImplementsListingStore`: a request takes effect at one moment, as if no other ran.
- `UsersApart`: what a user is answered is what a store of their own would answer.

`ListingStore` knows no connections, policies, locks and waits: a request reads or
changes the listings of its user at one moment, the one at which it is answered.
Writing it down showed what it takes to describe the handlers so. Two of them look at
the listing earlier, too: a PATCH leaves out of its write the fields that had the value
it sends when it loaded the listing (`Compare`, `settled`), which may be overwritten by
others in between; a DELETE whose listing another DELETE removes while it waits
answers 204 all the same (`Find`, `found`). Every failure is one outcome, after which
the request may or may not have taken effect. The refinement maps `asks[r]` to the
request of a slot that is not idle, `settled` to the fields that equal what was loaded,
`found` to the DELETEs past their SELECT, and the three kinds of 500 and the lost
connection to `"failed"`. The store lets a PATCH answer the listing it changed; that the
handler never does is the finding of `ListingsPatch`.

`UserView` is one `ListingStore` for each user, whose only listings and requests are
theirs (`View(u)`: what it is told of `listings`, `gone`, `asks`, ... is cut to the
user's own). All that others can do in it is use up an id (`Elsewhere`). `UsersApart`
says that every step of the service is, in the view of every user at once, a step of
it or none: a policy that reads the identity of somebody else, or a connection that
keeps it, shows in the view of one of the two.

### SecretStore

A value of a secret is its version; `latest` is the store, `cache[p]` and
`cloud_cache[p]` the two `lru_cache`s of process `p`, one in front of the other.

| Code | Actions |
| --- | --- |
| `lifespan` builds the database URL | `Start`: reads the password, or the process exits |
| first use of a secret | `Read` |
| the process ends, for whatever reason | `Stop`: the caches go with it |
| `clear_secret_cache` | `clear_secret_cache` |
| `sync-secrets-dev.yml` | `Push` |

A read is one blocking call with no `await`, so it is one action, with the
caching. A read that raises is not cached and changes nothing, so it is no
action. `since` is history: what the store held when the process started.

- `HeldValues` (in `Inv`): a fresh process has fresh values, no cache holds what
  was never set, the caches agree.

Two sentences of the repository are not properties here, because the code does not do
what they say. `jwt_utils.py:4` has the signing key loaded at startup and
`sync-secrets-dev.yml:32-34` has running tasks read their secrets once at startup, so
that a rotation needs a deployment: only the password is read then, and a process that
has not used the key yet takes a pushed one at once, while its neighbour in the same
container may use the old one. The docstring of `clear_secret_cache` has it trigger a
re-fetch: the cache of `get_secret`, in front of the one it empties, stays as it is.
The model has both behaviours, and the properties below hold with them.

### TokenFlow

The services validate each other's tokens without a call: `TokenFlow` composes
`SecretStore` with what they do with the key. Each process has its own clock
(`now` plus its offset) and its own cached key. `Sign` is
`create_access_token` and `create_refresh_token`, `Validate` the local validation
of access tokens by processes of the listings service and of refresh tokens by
those of the auth service; both are reads of the secret store. A token carries its
key and its whole-second `iat`; who signed it, when, and what key the store had
when that process started are history. The rows of refresh tokens are the
subject of `AuthService` and left out.

- `RefusalExplained`: README says "existing JWTs still work until expiry". A token
  of the right type is refused only for its expiry, a rotation since one of the
  two processes started, or a validator whose clock is behind the signer's: `iat`
  is checked with no leeway.
- `AgeBounded`: cutting `iat` to whole seconds shortens tokens, never lengthens
  them.
- `RotationRetires`: a process started after a rotation accepts no earlier key,
  although processes that still sign with it may be running.
- `StaysAccepted`: the other side of it, for "existing JWTs still work until expiry": a
  token that a process with a key in use accepts is accepted by it until it expires,
  whatever is pushed and whichever other process restarts, unless its cache is cleared.

### DbRoles

The database of one service. `pc[b]` is the place in `Statements` of the statement
a run of `bootstrap_db_roles.py` is about to execute; each is a transaction of its
own, so each is an action, and a run may stop before any of them.

| Code | Actions |
| --- | --- |
| `bootstrap` up to `asyncpg.connect` | `Start`: reads both passwords |
| the two `DO $$ IF NOT EXISTS ... CREATE ROLE` | `CreateRole` |
| the other eight statements | `Grant` |
| `finally: await conn.close()`, a lost task | `Fail` |
| `alembic/env.py`: `run_migrations_online`, `run_async_migrations`, `do_run_migrations` | `UpgradeStart`, `UpgradeConnect`, `UpgradeCommit` |
| an upgrade is refused or lost | `UpgradeFail` |
| `sync-secrets-dev.yml`; an operator on RDS | `Push`; `AlterRole` |
| `db/init.sh` on a local volume | the second initial state |

Passwords are versions. Of the grants the model keeps which statements took effect;
`usable` are the revisions whose tables the `rw` role may use, decided when they are
created: by the default privileges of that moment, or by a `GRANT` in the revision
itself if the role exists then (`Granted`; the first revision of listings has one,
that of auth has none). Reading the two secrets is one step, as is reading the
password of a migration and connecting with it: a push in between could only pair
passwords of different times, which no property looks at.

- `PastStatements` (in `DbInv`): a run that is past a statement finds its effect,
  whoever caused it.
- `TablesAfterReady`: once a run has said "roles ready", every migration creates
  tables the service can use, whatever was cut off before and is run after.
- `GetsRoles`: the roles come to be ready. With `Delivery` that takes an image to run the
  bootstrap from (see `FirstDeploy` and `FreshInstance`).

That a role keeps its password when the secret has changed is the guard of
`CreateRole`, and no property. The docstring of `bootstrap_db_roles.py` says of the
passwords that "they stay in sync with whatever sync-secrets-dev.yml last pushed";
`sync-secrets-dev.yml:35`, which asks to change the RDS user by hand, is right.

### Delivery

How a commit reaches the database and the tasks of a service. `run` is the deploy run
in progress and its step, `pending` the one that waits in the concurrency group,
`watched` the migration task the run waits for. A run that times out ends and its
task goes on; the task's end is then seen by nobody.

| Code | Actions |
| --- | --- |
| `on`, `concurrency` of `deploy-dev.yml` | `Trigger`, and `End` in all that ends a run |
| from the image to the network configuration | `Promote` |
| Run database migration | `Migrate`; its end `TaskCommits`, `TaskFails` |
| Update service, Wait for service to stabilize | `UpdateService`, `Stable` |
| any `exit 1`, a timeout | `RunFails` |
| `db-bootstrap.yml` | `Bootstrap`, with the image the service has |
| `lifespan` and `/health` | `Up`: the password in the secret store is that of the role; `Down` |

`first` is what the service was created with, `late` says that since the migration of
the run in progress another one was committed, which no run waited for any more; both
are history.

- `SchemaApplied`: "a failed migration blocks the deploy instead of rolling out code
  against a schema it doesn't match": no code is deployed or serves that needs a
  revision the database is not at, but for the image the service was created with.
- `RolloutMatches`: at a rollout the database is at the very revision of the code,
  unless a late migration moved it on after the run's own.
- `FirstDeploy`: a service created with an image of this repository comes to answer
  with code whose schema is there, on roles that are ready. One created with a
  placeholder image never does (run `FreshInstance`); which it is, is up to the
  infrastructure repository.
- `RunHolds` (in `DeliveryInv`): what these rest on.

## Runs

| Run | Question | Instance | Distinct states |
| --- | --- | --- | --- |
| `AuthClock` | the two expiry times, exchange, revocation and refusal over time | 1 address, 2 requests, 2 ticks to the second, tokens live 1 second, clock up to 4 | 2 066 000 |
| `AuthRaces` | the inductive invariant, the races on one account, circular waits | 1 address, 3 requests, clock up to 1 | 507 000 |
| `AuthAnswered` | liveness, refinement of `AccountStore` | 1 address, 2 requests, tokens live 1 tick, clock up to 1, no symmetry | 52 000 |
| `AuthLoginWorks` | violation: same-second tokens collide | 1 address, 2 requests | - |
| `ListingsRaces` | the inductive invariant, identity of pooled connections, who sees and writes, races of PATCH and DELETE on one row, refinement of `ListingStore` and of each user's view | 2 users, 1 id, 2 fields of 2 values, 2 requests, 2 connections | 28 000 |
| `ListingsAnswered` | liveness, circular waits | 1 user, 1 id, 3 requests, 2 connections, no symmetry | 113 000 |
| `ListingsPatch` | violation: a PATCH that took effect answers 500 | 1 of each | - |
| `TokenFlow` | refusals, age and rotation across the services, and that what is accepted stays so | 1 process of each service, 2 versions, clocks half a second apart, tokens that live one second, 1 token | 427 000 |
| `Delivery` | what the database has when code is rolled out, and what the bootstrap promises of tables, with deploys, bootstraps, late migrations and a rotation at once | 2 commits with a revision each, 2 migration tasks, 1 bootstrap at a time, the password of `rw` rotated once, a service created with a placeholder or with the first commit | 1 683 000 |
| `FirstDeploy` | liveness: roles, schema and code of a new service; what two bootstraps at once find and leave | 1 commit, whose image the service has, 1 migration task, 2 bootstraps, a revision without grants of its own, no symmetry | 75 000 |
| `FreshInstance` | violation: the same with a placeholder image | as `FirstDeploy`, with 1 bootstrap, and a revision with a grant | - |
| `RolesReady` | violation: tables created during a bootstrap are not usable | 1 commit, 1 migration task, 1 bootstrap | - |

Why these bounds are enough to be interesting. Requests of different addresses
meet nowhere but in the `refresh_tokens` table, under different keys, so one
address carries every race, and the proofs cover the rest. Three requests give
a refresh, a second refresh of the same token and a logout at once. `AuthClock`
has two ticks to the second and tokens that live one second, so that two clock
readings of a handler fall on either side of a whole second and of an expiry.
In `ListingsRaces` a request is of either user and takes either connection, and a slot
takes a new request when its last one is answered, so that connections pass between
users in every order; a race on a row is one of two requests. The id is drawn once by
one user: every request of the other user meets a listing that is not its own. A PATCH
needs two fields, one sent and one not, with two values. Waiting for connections needs
more requests than connections, and two of those for a row: `ListingsAnswered` has three
requests of one user, since who waits for whom does not depend on users.

`AuthAnswered` has two requests: the store lets a request succeed or be refused by what
that request has found and by what is true at that moment, whoever made it so, so one
other request is enough to make it so, and time and the operator do the rest. A token
lives one tick and the clock has one, so that a token minted before it is found and
runs out between any two readings. `AuthRaces` keeps three requests for the waits.

`TokenFlow` needs one signer, one validator and one token, since tokens do not
influence each other; one process has mounted files and one the cloud store, and
both a rotation between their starts and a restart fit into the bounds.

`Delivery` needs two commits for an old deploy after a new one, and two tasks for a
migration that comes late while another runs. One bootstrap at a time still stops at
every statement and is run again. `FirstDeploy` has two bootstraps at once, with one
commit and no rotation.

Bounds that are part of the model and not of the code: `MaxTime` stops the
clock; `MaxVersion` is how often a secret is set; `MaxTokens` how many tokens are
signed; `Requests` is the number of requests in flight; `Ids` the number of
listings ever created; in `DbRoles`, `MaxRevision` is the length of the migration
history and `MaxVersion` how often each password is set. Deadlock is checked in all runs: an idle slot can always
take a request, a workflow can always be triggered.

Fairness. `FairSpec` assumes strong fairness of `Handle(r)`, all the steps of
the handler of one request together, and nothing of arrivals, failures and the
clock. Postgres answers every statement it was sent and the event loop resumes
the coroutine, which is weak fairness of a step that stays enabled. It has to be
strong because a lock or a connection may be free and taken again many times
while one request waits: Postgres queues the waiters of a row and the pool
queues those of a connection, first come first served, so none is passed over
for ever. `Fail` is not fair: nothing is assumed to rescue a request by timing
out.

`FairDeliverySpec` is about people as well: somebody runs the bootstrap
again when it has failed, and every commit is deployed again and again. It assumes that
what is sent to a server or to AWS is answered in the end (weak fairness of statements,
of the steps of a run and of the end of a task) and that accidents come to an end: from
some time on no run is cut off, and of migrations and of new tasks of the service, which
may fail at any time, one that can succeed does so once (strong fairness). A statement
or a migration that is always refused is no accident and is not assumed away. It is
used for what cannot fail to happen in the end (`FirstDeploy`) and, in `FreshInstance`,
for what does not happen even then.

### What the violations say

- `AuthLoginWorks`: README says "Login works" of an auth service that is up. Two
  logins of one user within a second mint the same refresh token and the second
  one is answered 500 by the unique index on its hash (`security.py:48-56`). A
  `jti`, or any other random claim, would remove it.
- `ListingsPatch`: `listings.py:26-27` relies on `expire_on_commit=False` to keep
  the object intact. That holds for an INSERT, whose server defaults come back by
  RETURNING, not for the `onupdate` of `updated_at` after an UPDATE: PATCH commits
  and then answers 500.
- `FreshInstance`: `bootstrap_db_roles.py:4-8` and `db-bootstrap.yml:55-60` describe the
  bootstrap as what makes a fresh instance usable, with the image of the live service.
  If that is a placeholder, the service gets another only from a deploy, which stops at
  its migration for want of the role that the bootstrap would create.
- `RolesReady`: `bootstrap_db_roles.py` reports "roles ready", and README says of the
  `rw` role that it has `SELECT/INSERT/UPDATE/DELETE` on tables. A deploy whose
  migration commits after the third statement of the bootstrap and before the ninth
  creates tables it may not use, and no later bootstrap grants them. Setting the
  default privileges before the migrate role may create, or a grant on the tables
  that exist, would remove it. `/health` does not notice: it reads no table.

## Proofs

`AuthServiceProofs` proves for every set of addresses and requests, every length
of a second and lifetime of tokens, and every bound of the clock:

- `Invariant`: `Spec => []Inv`, and from it `TypeCorrect`, `BarredSafe`,
  `ExpirySafe`, `ExchangeSafe`;
- from `Inv` and one step, the action properties `RevocationFinal`,
  `RevocationHasCause`, `RefusalHasCause`, `OneAccount`;
- `NoDeadlock` (`NoCircularWait`).

`AuthRefinementProofs` proves `Refinement`: `Spec => ImplementsAccountStore`.

`ListingsServiceProofs` proves, for every set of users, ids, fields, values,
requests and connections, `Invariant` (`Inv`), `IdentityIsolated`, `OwnerAlone`
(`OnlyOwnerWrites`), `OwnShown` (`ShowsOnlyOwn`), `OwnFound` (`OwnerFinds`),
`RestKept` (`PatchKeepsRest`), `DeletionFinal` (`DeletedForGood`) and `NoDeadlock`
(`NoCircularWait`). `ListingsRefinementProofs` proves `ListingsRefinement`:
`Spec => ImplementsListingStore`, and `UsersSeparated`: `Spec => UsersApart`.

The only assumptions are those on the constants: positive tick counts, natural
bounds, lifetimes and offsets, the services' processes among the processes, and
sentinels that are not in the sets they stand beside.

`SecretStoreProofs` proves `StoreInvariant` (`Inv`) for every set of processes and
secrets set any number of times. `TokenFlowProofs` shows that `FlowSpec` implies the
specification of the store (`FlowIsStore`), takes its invariant over, and proves
`FlowInvariant`, `RefusalHasCause`, `AgeIsBounded`, `OldKeysRetire` and `TokensStay`
(`StaysAccepted`) for all processes, clock offsets, lifetimes and lengths of a second.

`DbRolesProofs` proves `DbInvariant` (`DbInv`) and `TablesUsable` (`TablesAfterReady`)
for any number of bootstraps and migrations at once and both initial states.
`DeliveryProofs` proves `DeliveryInvariant` (`DeliveryInv`), `NoCodeAheadOfSchema`
(`SchemaApplied`) and `RolloutsMatch` (`RolloutMatches`) for any commits, history, tasks
and bootstraps; and `DeliveryIsDb`, `DeliverySpec => DbSpec`, by which what the
bootstrap promises of tables holds among deploys (`DeliveryTablesUsable`).

The argument for the auth service. `TypeOK` is not inductive: that a commit finds
its token new needs the unique indexes. `Inv` adds `UniqueIndexes` (a pending key is not in the table
and no two transactions hold the same one), which is inductive because inserting
statements wait for pending keys and because `create_refresh_token(r)` depends on
variables that only `r` changes; `TokensHaveAccounts` (accounts are never
removed); and `Refused`: what barred a request on arrival stays true until its
handler looks, since revocation and deactivation are final. `NoTokensForBarred`
follows from `Refused` alone. `RowOutlivesJwt` reduces to arithmetic: cutting a
reading to whole seconds never makes it later, and the reading for the row is not
earlier, which `Works` keeps (`at[r] <= added[r]` once both are taken, `ReadingsTaken`).
`RefusalExplained` follows: a row that had run out at the reading of the SELECT has a
JWT that has run out as well, by then or by now (`UnusableHasCause`). Each action of the service has its
lemma that it preserves `Inv`, and `InvStep` puts them together. The
refinement maps each action to a moment of `AccountStore` or to a stutter under `Inv`.
A label tells what a request serves and has found (`LabelShows`), and a moving request
changes its own slot of the mapped state (`SlotFrame`), so an answer is an answer of the
store (`AnswerShows`) and an await shows nothing but what was found (`AwaitShows`). Where
the step needs more than its own guards it takes it from `Inv`: `UniqueIndexes` makes the
minted token and the registered address new to the store as well, `RowOutlivesJwt` makes
a row that the SELECT passes over one that is spent or has ended (`UnusableHasCause`), and `Works` ties the
account a refresh acts for to its token.

The argument for the listings service. That a policy reads the right user
(`IdentityFollowsRequest`) is inductive once a request between its first statement
and its end holds a connection (`InHandler`). `OnlyOwnerWrites` needs more: a
PATCH or DELETE looked at the owner in its SELECT and writes two statements later,
when the listing may be gone. `InHandler` says that by then it is the user's own or
gone, which lasts because ids are never drawn twice; `Alone`, that no other request
holds the lock of the row a PATCH has updated, so the row is still there at its
commit and no other commit touches it (`PatchKeepsRest`). One lemma per kind of
step shows that the moving request keeps its part, `FrameStep` that the others keep
theirs, and `Combine` puts the two together.

The argument for its refinement. Under `Inv` each action is one of `ListingStore`
(`ArriveMaps` to `DeleteMaps`) or invisible to it. What the handler sees through the
policy is what the store calls the user's own (`OwnVisible`, from
`IdentityFollowsRequest`); a moving request changes its own slot of the mapped state
and no other (`MappedFrame`); the commits rest on `Alone`: the id of a create is new to
the store as well, and the listing of a PATCH is there when it is written. The views of
the users come from the same steps: for the user of the moving request, each moment of
the store is a moment of their view (`OwnReads`, `OwnGoesOn`, `OwnCreates`, `OwnPatches`,
`OwnDeletes`); for everybody else the step is invisible or takes an id (`OthersStep`),
because only the owner's commits touch a listing.

The argument against deadlock. Waits are ordered by what a request waits with: nobody
waits for a request that waits for a connection, for it has none and holds no row; and
a row or key is held only by requests at a commit, or at a statement that can wait only
for such. So among any requests, the one furthest in its handler waits for none of the
others (`WaitsOrdered`).

The argument for the delivery. `TablesAfterReady` speaks of one run and is true for
all: no statement is ever undone, so being past a statement (`PastStatements`) lasts,
and a run that ends well is past all of them. `SchemaApplied` is not inductive: that a
run rolls out only what was migrated needs `RunHolds`, which says of the task a run
waits for that it migrates to the revision of that run's commit, and of a run whose
task has ended well that the database is there or further. It lasts because alembic
refuses a database it has no script for, so `head` never goes back, whatever a task
nobody waits for does.

The argument for tokens across the services. A process never turns to another value of a
key it has in use while its two caches agree, whatever is pushed; the age of a token only
grows, so it is not early again; so what changes the verdict on a token it accepts is
the clock (`StaysAccepted`). `RefusalExplained`, `AgeBounded` and `RotationRetires` compare
the token, as its signer's clock and caches left it (`TokenOK`), with what the validator
reads now.

Only model-checked: liveness (`Answered`, `FirstDeploy`), and `OnlyWaitsBlock`, which speaks of
`ENABLED`; both are outside of what the prover does.

## Not modelled

- The gateway. `gateway/nginx.conf` configures two request limiters and a proxy; what
  they do is nginx, and a model of leaky buckets would be checked against itself and
  not against code of this repository.
- Containers. Restarts, healthchecks and the order of start-up of
  `docker-compose.yml` are carried out by Docker. The code's part in them, `lifespan`
  and `/health`, is in `SecretStore` and `Delivery`.
- CI. Its jobs build, test and scan one commit and keep no state; `Delivery` starts
  with its end, for any commit in any order.
- What PostgreSQL grants to whom in detail. That `ALTER SCHEMA ... OWNER TO` may be
  refused to a master who is no superuser depends on the server; in the model any
  statement may be refused.
- Settings, request and answer formats, password hashing, headers, images, secret
  generation, pages of a list (any part of what is visible), the rounding of numbers
  by the columns, and what a unit test of one pure function would settle.
- That a field of a PATCH which equals the loaded value is not written although it
  was changed meanwhile, and that pages of a changing list overlap: `ListingsService`
  has both behaviours, but nothing in the repository says what should hold instead.
