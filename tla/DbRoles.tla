------------------------------- MODULE DbRoles -------------------------------
(****************************************************************************)
(* The database of one service, auth or listings, as its schema comes to    *)
(* be: scripts/bootstrap_db_roles.py creates the two roles and grants them  *)
(* what they need, statement by statement, each a transaction of its own;   *)
(* "alembic upgrade head" creates the tables as the migrate role, in one    *)
(* transaction; operators change secrets and passwords meanwhile.  In local *)
(* development db/init.sh has run the same statements before all else.      *)
(*                                                                          *)
(* Passwords are versions 1, 2, ..., 0 stands for a role that does not      *)
(* exist.  Revisions of the schema are numbered along the migration history.*)
(****************************************************************************)
EXTENDS Naturals, Sequences

CONSTANTS
  Bootstraps,        \* slots for runs of the bootstrap, which nothing keeps apart
  Tasks,             \* slots for one-off tasks that run alembic
  MaxRevision,       \* the newest revision of the schema
  GrantingRevisions, \* those that grant the rw role their tables themselves
  MaxVersion         \* bound: how often the password of each role is set

ASSUME RevisionAssumption == MaxRevision \in Nat

Roles == {"migrate", "rw"}
Revisions == 0..MaxRevision

ASSUME VersionAssumption == MaxVersion \in [Roles -> Nat \ {0}]

Versions(r) == 1..MaxVersion[r]
NoRole == 0

VARIABLES
  secret,    \* the passwords in Secrets Manager
  password,  \* the passwords of the roles in the database
  grants,    \* the other statements of the bootstrap that took effect
  head,      \* the revision in alembic_version, 0 before the first migration
  usable,    \* the revisions whose tables the rw role may use
  pc,        \* the statement each run of the bootstrap is about to execute, 0 if none
  read,      \* the passwords each run has read and not yet used
  ready,     \* history: some run has logged "roles ready"
  task       \* the alembic task of each slot, NoTask if none runs

db == <<secret, password, grants, head, usable, pc, read, ready, task>>

\* What bootstrap() executes, in its order.
Statements ==
  <<"create_migrate", "connect_migrate", "schema_migrate", "owner_migrate",
    "member_migrate", "create_rw", "connect_rw", "usage_rw", "default_tables",
    "default_sequences">>

Creates(r) == IF r = "migrate" THEN 1 ELSE 6
Last == Len(Statements)

NoTask == [at |-> "none", rev |-> 0]
NothingRead == [r \in Roles |-> NoRole]

--------------------------------------------------------------------------------
(* The bootstrap *)

\* bootstrap() reads the two secrets, in one step here, and connects as the master.
Start(b) ==
  /\ pc[b] = 0
  /\ pc' = [pc EXCEPT ![b] = 1]
  /\ read' = [read EXCEPT ![b] = secret]
  /\ UNCHANGED <<secret, password, grants, head, usable, ready, task>>

\* A statement of run b is committed; after the last one the run ends.
Advance(b) ==
  IF pc[b] = Last
  THEN pc' = [pc EXCEPT ![b] = 0] /\ ready' = TRUE
  ELSE pc' = [pc EXCEPT ![b] = @ + 1] /\ UNCHANGED ready

BugCreateRole(b, r) ==
  /\ pc[b] = Creates(r)
  /\ password[r] = NoRole
  /\ password' = [password EXCEPT ![r] = read[b][r]]
  /\ read' = [read EXCEPT ![b][r] = NoRole]
  /\ Advance(b)
  /\ UNCHANGED <<secret, grants, head, usable, task>>
\* DO $$ IF NOT EXISTS ... CREATE ROLE ... PASSWORD: a role that exists stays as it is.
\* The loser of two runs that create it at once is refused, which is Fail.
CreateRole(b, r) ==
  /\ pc[b] = Creates(r)
  /\ password' = [password EXCEPT ![r] = IF @ = NoRole THEN read[b][r] ELSE @]
  /\ read' = [read EXCEPT ![b][r] = NoRole]
  /\ Advance(b)
  /\ UNCHANGED <<secret, grants, head, usable, task>>

\* Any other statement.  Repeating it changes nothing.
Grant(b) ==
  /\ pc[b] \in 1..Last
  /\ \A r \in Roles : pc[b] # Creates(r)
  /\ grants' = grants \cup {Statements[pc[b]]}
  /\ Advance(b)
  /\ UNCHANGED <<secret, password, head, usable, read, task>>

BugFail(b) ==
  /\ pc[b] # 0
  /\ pc' = [pc EXCEPT ![b] = 0]
  /\ read' = [read EXCEPT ![b] = NothingRead]
  /\ ready' = TRUE
  /\ UNCHANGED <<secret, password, grants, head, usable, task>>
\* A statement is refused, or the task or its connection is lost.  What was committed
\* stays; the workflow reports the failure and somebody may run it again.
Fail(b) ==
  /\ pc[b] # 0
  /\ pc' = [pc EXCEPT ![b] = 0]
  /\ read' = [read EXCEPT ![b] = NothingRead]
  /\ UNCHANGED <<secret, password, grants, head, usable, ready, task>>

--------------------------------------------------------------------------------
(* Operators *)

\* sync-secrets-dev.yml pushes a new value, before or after the role is changed.
Push(r) ==
  /\ secret[r] < MaxVersion[r]
  /\ secret' = [secret EXCEPT ![r] = @ + 1]
  /\ UNCHANGED <<password, grants, head, usable, pc, read, ready, task>>

\* "If you're rotating a DB password, change it on the RDS user first."
AlterRole(r) ==
  /\ password[r] \in 1..(MaxVersion[r] - 1)
  /\ password' = [password EXCEPT ![r] = @ + 1]
  /\ UNCHANGED <<secret, grants, head, usable, pc, read, ready, task>>

--------------------------------------------------------------------------------
(* alembic upgrade head, as a task with the image of a commit whose newest          *)
(* revision is rev                                                                  *)

UpgradeStart(t, rev) ==
  /\ task[t] = NoTask
  /\ task' = [task EXCEPT ![t] = [at |-> "started", rev |-> rev]]
  /\ UNCHANGED <<secret, password, grants, head, usable, pc, read, ready>>

\* run_async_migrations() reads the password of the migrate role and connects with it.
UpgradeConnect(t) ==
  /\ task[t].at = "started"
  /\ password["migrate"] = secret["migrate"]
  /\ task' = [task EXCEPT ![t].at = "connected"]
  /\ UNCHANGED <<secret, password, grants, head, usable, pc, read, ready>>

\* What PostgreSQL and alembic ask of an upgrade: the right to create in the schema, and
\* a script for the revision the database is at.
CanUpgrade(t) ==
  /\ "schema_migrate" \in grants
  /\ head <= task[t].rev

BugGranted(r) == r \in GrantingRevisions /\ password["rw"] # NoRole
\* The rw role gets the tables of a revision by the default privileges of the migrate
\* role at that time, or by a GRANT in the revision itself if the role exists.
Granted(r) ==
  \/ "default_tables" \in grants
  \/ r \in GrantingRevisions /\ password["rw"] # NoRole

\* All the revisions to go, in one transaction.
UpgradeCommit(t) ==
  /\ task[t].at = "connected"
  /\ CanUpgrade(t)
  /\ head' = task[t].rev
  /\ usable' = usable \cup {r \in (head + 1)..task[t].rev : Granted(r)}
  /\ task' = [task EXCEPT ![t] = NoTask]
  /\ UNCHANGED <<secret, password, grants, pc, read, ready>>

\* It is refused, or loses its connection, or the task dies: nothing is committed.
UpgradeFail(t) ==
  /\ task[t] # NoTask
  /\ task' = [task EXCEPT ![t] = NoTask]
  /\ UNCHANGED <<secret, password, grants, head, usable, pc, read, ready>>

--------------------------------------------------------------------------------

\* A fresh RDS instance; or a local volume, where init.sh has run to its end (it has no
\* member_migrate, for there the roles are made by a superuser).
DbInit ==
  /\ secret = [r \in Roles |-> 1]
  /\ \/ password = NothingRead /\ grants = {} /\ ready = FALSE
     \/ /\ password = secret
        /\ grants = {Statements[k] : k \in 1..Last} \
                      {"create_migrate", "create_rw", "member_migrate"}
        /\ ready = TRUE
  /\ head = 0
  /\ usable = {}
  /\ pc = [b \in Bootstraps |-> 0]
  /\ read = [b \in Bootstraps |-> NothingRead]
  /\ task = [t \in Tasks |-> NoTask]

Execute(b) == Grant(b) \/ \E r \in Roles : CreateRole(b, r)

BootstrapStep(b) == Execute(b) \/ Fail(b)

Operate == \E r \in Roles : Push(r) \/ AlterRole(r)

DbNext ==
  \/ \E b \in Bootstraps : Start(b) \/ BootstrapStep(b)
  \/ Operate
  \/ \E t \in Tasks :
       \/ \E rev \in Revisions : UpgradeStart(t, rev)
       \/ UpgradeConnect(t)
       \/ UpgradeCommit(t)
       \/ UpgradeFail(t)

DbSpec == DbInit /\ [][DbNext]_db

\* Nothing keeps a run from its end for ever but a statement that cannot be executed:
\* statements take their time and no more, and accidents come to an end.
Accidental(b) == WF_db(Execute(b)) /\ <>[][~ Fail(b)]_db

--------------------------------------------------------------------------------
(* Properties *)

DbTypeOK ==
  /\ secret \in [Roles -> Nat] /\ \A r \in Roles : secret[r] \in Versions(r)
  /\ password \in [Roles -> Nat] /\ \A r \in Roles : password[r] \in 0..MaxVersion[r]
  /\ grants \subseteq {Statements[k] : k \in 1..Last}
  /\ head \in Revisions
  /\ usable \subseteq 1..head
  /\ pc \in [Bootstraps -> 0..Last]
  /\ read \in [Bootstraps -> [Roles -> Nat]]
  /\ \A b \in Bootstraps, r \in Roles : read[b][r] \in 0..MaxVersion[r]
  /\ ready \in BOOLEAN
  /\ task \in [Tasks -> [at : {"none", "started", "connected"}, rev : Revisions]]

\* A run that is past a statement finds its effect in the database, whoever caused it
\* and whatever was changed since; so does everybody once the roles are ready.
PastStatements ==
  /\ \A b \in Bootstraps :
       /\ \A r \in Roles : pc[b] \in 1..Creates(r) => read[b][r] # NoRole
       /\ \A r \in Roles : pc[b] > Creates(r) => password[r] # NoRole
       /\ pc[b] > 3 => "schema_migrate" \in grants
       /\ pc[b] > 9 => "default_tables" \in grants
  /\ \A t \in Tasks : task[t].at = "connected" => password["migrate"] # NoRole
  /\ ready => /\ \A r \in Roles : password[r] # NoRole
              /\ {"schema_migrate", "default_tables"} \subseteq grants

DbInv == DbTypeOK /\ PastStatements

\* Once a run has said that the roles are ready, every table that a migration creates
\* is one the service can use ("SELECT/INSERT/UPDATE/DELETE on tables"), whatever runs
\* were cut off before it and whatever runs and rotations come after it.
TablesAfterReady == [][ready => (head + 1)..head' \subseteq usable']_db

\* "on a fresh RDS instance these roles don't exist until this is run once", from the
\* image of "the live service": the roles come to be ready.
GetsRoles == <>ready

\* README: the rw role has SELECT/INSERT/UPDATE/DELETE on tables.  Once the roles are
\* ready and no run is under way, it can use every table there is.
RolesReady ==
  ready /\ (\A b \in Bootstraps : pc[b] = 0) => usable = 1..head
================================================================================
