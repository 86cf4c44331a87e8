---------------------------- MODULE DeliveryProofs ----------------------------
(* Proofs about Delivery, for any number of commits, revisions, runs and tasks.  *)
EXTENDS Delivery, DbRolesProofs

\* What a run may be.
LEMMA RunTypes ==
  ASSUME DeliveryTypeOK
  PROVE  /\ run = NoRun \/ run \in [commit : Commits, at : RunSteps]
         /\ run = NoRun => run.at = "idle"
         /\ run # NoRun => run.commit \in Commits /\ run.at \in RunSteps
                           /\ Schema[run.commit] \in Revisions
         /\ "idle" \notin RunSteps
  BY SchemaAssumption DEF DeliveryTypeOK, NoRun, RunSteps

\* Revisions are numbers.
LEMMA Numbers ==
  ASSUME DbInv
  PROVE  head \in Nat /\ \A c \in Commits : Schema[c] \in Nat
  BY RevisionAssumption, SchemaAssumption DEF DbInv, DbTypeOK, Revisions

\* A step of the delivery is a step of the database or leaves the database alone.
LEMMA DeliveryStepIsDbStep == DeliveryInv /\ [DeliveryNext]_everything => [DbNext]_db
<1> SUFFICES ASSUME DeliveryInv, [DeliveryNext]_everything PROVE [DbNext]_db
  OBVIOUS
<1>1. CASE UNCHANGED db
  BY <1>1
<1>2. ASSUME NEW t \in Tasks, Migrate(t) PROVE DbNext
  <2>1. Schema[run.commit] \in Revisions
    BY <1>2, RunTypes DEF Migrate, DeliveryInv
  <2> QED BY <1>2, <2>1 DEF Migrate, DbNext
<1>3. ASSUME NEW t \in Tasks, UpgradeConnect(t) \/ TaskCommits(t) \/ TaskFails(t) PROVE DbNext
  BY <1>3 DEF TaskCommits, TaskFails, DbNext
<1>4. ASSUME NEW b \in Bootstraps, Bootstrap(b) \/ BootstrapStep(b) PROVE DbNext
  BY <1>4 DEF Bootstrap, DbNext
<1>5. CASE Operate
  BY <1>5 DEF DbNext
<1> QED
  BY <1>1, <1>2, <1>3, <1>4, <1>5
  DEF DeliveryNext, everything, Trigger, Promote, UpdateService, Stable, RunFails, Up, Down

\* The initial states satisfy the invariant.
LEMMA DeliveryInvInit == DeliveryInit => DeliveryInv
<1> SUFFICES ASSUME DeliveryInit PROVE DeliveryInv
  OBVIOUS
<1>1. DbInv
  BY DbInvInit DEF DeliveryInit
<1>2. DeliveryTypeOK
  BY CreatedAssumption DEF DeliveryInit, DeliveryTypeOK
<1>3. RunHolds
  BY DEF DeliveryInit, RunHolds, NoRun
<1>4. SchemaApplied
  BY DEF DeliveryInit, SchemaApplied
<1> QED BY <1>1, <1>2, <1>3, <1>4 DEF DeliveryInv

--------------------------------------------------------------------------------

\* The end of a run.
LEMMA EndTypes ==
  ASSUME DeliveryInv, End
  PROVE  /\ run' \in {NoRun} \cup [commit : Commits, at : RunSteps]
         /\ run'.at \in {"idle", "promote"}
         /\ watched' = {} /\ pending' = NoCommit /\ late' = FALSE
  BY DEF End, NewRun, NoRun, RunSteps, DeliveryInv, DeliveryTypeOK

\* The steps of a run that leave the database alone.
LEMMA RunStepInv ==
  ASSUME DeliveryInv,
         (\E c \in Commits : Trigger(c)) \/ Promote \/ UpdateService \/ Stable \/ RunFails
  PROVE  DeliveryInv'
<1>1. UNCHANGED <<db, serving, first>>
  BY DEF Trigger, Promote, UpdateService, Stable, RunFails
<1>2. DbInv'
  BY <1>1 DEF DeliveryInv, DbInv, DbTypeOK, PastStatements, db
<1>3. DeliveryTypeOK'
  <2>1. /\ run' \in {NoRun} \cup [commit : Commits, at : RunSteps]
        /\ watched' \subseteq Tasks
        /\ {pending', target'} \subseteq Commits \cup {NoCommit}
    <3>1. CASE \E c \in Commits : Trigger(c)
      BY <3>1 DEF Trigger, NewRun, RunSteps, DeliveryInv, DeliveryTypeOK
    <3>2. CASE Promote \/ UpdateService
      <4>1. run # NoRun /\ run \in [commit : Commits, at : RunSteps]
        BY <3>2, RunTypes DEF Promote, UpdateService, DeliveryInv
      <4> QED BY <3>2, <4>1 DEF Promote, UpdateService, RunSteps, DeliveryInv, DeliveryTypeOK
    <3>3. CASE Stable \/ RunFails
      BY <3>3, EndTypes DEF Stable, RunFails, DeliveryInv, DeliveryTypeOK
    <3> QED BY <3>1, <3>2, <3>3
  <2>2. late' \in BOOLEAN
    BY Zenon DEF Trigger, Promote, UpdateService, Stable, RunFails, End, DeliveryInv,
                 DeliveryTypeOK
  <2> QED BY <1>1, <2>1, <2>2 DEF DeliveryInv, DeliveryTypeOK
<1>4. RunHolds'
  <2>1. CASE \E c \in Commits : Trigger(c)
    <3>1. CASE run = NoRun
      <4>1. watched = {} /\ watched' = {} /\ run'.at = "promote"
        BY <2>1, <3>1 DEF Trigger, NewRun, NoRun, DeliveryInv, RunHolds
      <4> QED BY <4>1 DEF RunHolds
    <3>2. CASE run # NoRun
      BY <1>1, <2>1, <3>2 DEF Trigger, DeliveryInv, RunHolds, db
    <3> QED BY <3>1, <3>2
  <2>2. CASE Promote \/ UpdateService
    <3>1. watched = {} /\ watched' = {} /\ run'.at \in {"migrate", "stabilize"}
      BY <2>2, RunTypes DEF Promote, UpdateService, DeliveryInv, RunHolds
    <3> QED BY <3>1 DEF RunHolds
  <2>3. CASE Stable \/ RunFails
    <3>1. watched' = {} /\ run'.at \in {"idle", "promote"}
      BY <2>3, EndTypes DEF Stable, RunFails
    <3> QED BY <3>1 DEF RunHolds
  <2> QED BY <2>1, <2>2, <2>3
<1>5. SchemaApplied'
  <2>1. CASE UpdateService
    <3>1. target' = run.commit /\ Schema[run.commit] <= head
      BY <2>1 DEF UpdateService, DeliveryInv, RunHolds
    <3> QED BY <1>1, <3>1 DEF SchemaApplied, DeliveryInv, db
  <2>2. CASE target' = target
    BY <1>1, <2>2 DEF SchemaApplied, DeliveryInv, db
  <2> QED BY <2>1, <2>2 DEF Trigger, Promote, Stable, RunFails
<1> QED BY <1>2, <1>3, <1>4, <1>5 DEF DeliveryInv

\* Starting the migration.
LEMMA MigrateInv == ASSUME DeliveryInv, NEW t \in Tasks, Migrate(t) PROVE DeliveryInv'
<1>1. /\ run # NoRun /\ run \in [commit : Commits, at : RunSteps] /\ run.at = "migrate"
      /\ Schema[run.commit] \in Revisions
  BY RunTypes DEF Migrate, DeliveryInv
<1>2. DbInv'
  BY <1>1, UpgradeInv DEF Migrate, DeliveryInv
<1>3. DeliveryTypeOK'
  <2>1. late' \in BOOLEAN
    BY Zenon DEF Migrate, DeliveryInv, DeliveryTypeOK
  <2>2. run' \in [commit : Commits, at : RunSteps]
    BY <1>1 DEF Migrate, RunSteps
  <2> QED BY <2>1, <2>2 DEF Migrate, DeliveryInv, DeliveryTypeOK
<1>4. RunHolds'
  <2>1. /\ watched' = {t} /\ run'.at = "migrating" /\ run'.commit = run.commit
        /\ task'[t] = [at |-> "started", rev |-> Schema[run.commit]]
    BY <1>1 DEF Migrate, UpgradeStart, DeliveryInv, DbInv, DbTypeOK
  <2> QED BY <2>1 DEF RunHolds
<1>5. SchemaApplied'
  BY DEF Migrate, UpgradeStart, DeliveryInv, SchemaApplied
<1> QED BY <1>2, <1>3, <1>4, <1>5 DEF DeliveryInv

\* The migration ends: what its run learns.
LEMMA ExitsTypes ==
  ASSUME DeliveryInv, NEW t \in Tasks, NEW o \in {"migrated", "refused"}, Exits(t, o)
  PROVE  /\ run' \in {NoRun} \cup [commit : Commits, at : RunSteps]
         /\ t \in watched => /\ watched' = {} /\ run # NoRun /\ run'.at = o
                             /\ run'.commit = run.commit /\ task[t].rev = Schema[run.commit]
         /\ t \notin watched => watched' = watched /\ run' = run
<1>1. CASE t \in watched
  <2>1. watched = {t} /\ run.at = "migrating" /\ task[t].rev = Schema[run.commit]
    BY <1>1 DEF DeliveryInv, RunHolds
  <2>2. run # NoRun /\ run \in [commit : Commits, at : RunSteps]
    BY <2>1, RunTypes DEF DeliveryInv
  <2>3. run' = [run EXCEPT !.at = o] /\ watched' = {}
    BY <1>1, <2>1 DEF Exits
  <2> QED BY <1>1, <2>1, <2>2, <2>3 DEF RunSteps
<1>2. CASE t \notin watched
  BY <1>2 DEF Exits, DeliveryInv, DeliveryTypeOK
<1> QED BY <1>1, <1>2

\* A migration is committed, watched or not.
LEMMA TaskCommitsInv == ASSUME DeliveryInv, NEW t \in Tasks, TaskCommits(t) PROVE DeliveryInv'
<1>1. Exits(t, "migrated") /\ UpgradeCommit(t)
  BY DEF TaskCommits
<1>2. DbInv'
  BY <1>1, UpgradeInv DEF DeliveryInv
<1>3. /\ task[t].at = "connected" /\ head <= task[t].rev
      /\ head' = task[t].rev /\ task' = [task EXCEPT ![t] = NoTask]
      /\ UNCHANGED <<pending, target, serving, first>>
  BY <1>1 DEF UpgradeCommit, CanUpgrade, Exits
<1>4. head \in Nat /\ head' \in Nat /\ \A c \in Commits : Schema[c] \in Nat
  BY <1>2, Numbers, RevisionAssumption DEF DeliveryInv, DbInv, DbTypeOK, Revisions
<1>5. DeliveryTypeOK'
  <2>1. late' \in BOOLEAN
    BY Zenon DEF TaskCommits, DeliveryInv, DeliveryTypeOK
  <2> QED BY <1>1, <1>3, <2>1, ExitsTypes DEF DeliveryInv, DeliveryTypeOK
<1>6. RunHolds'
  <2>1. CASE t \in watched
    <3>1. watched' = {} /\ run'.commit = run.commit /\ head' = Schema[run.commit]
      BY <1>1, <1>3, <2>1, ExitsTypes
    <3> QED BY <1>4, <3>1 DEF RunHolds
  <2>2. CASE t \notin watched
    <3>1. watched' = watched /\ run' = run
      BY <1>1, <2>2, ExitsTypes
    <3>2. \A s \in watched : task'[s] = task[s]
      BY <1>3, <2>2 DEF DeliveryInv, DeliveryTypeOK, DbInv, DbTypeOK
    <3>3. run.at = "migrated" => late' = (late \/ head' # head)
      BY Zenon DEF TaskCommits
    <3>4. run.at = "migrated" => Schema[run.commit] \in Nat
      BY <1>4, RunTypes DEF DeliveryInv, RunSteps
    <3>5. run.at = "migrated" => Schema[run.commit] <= head'
      BY <1>3, <1>4, <3>4 DEF DeliveryInv, RunHolds
    <3>6. run.at = "migrated" => head' = Schema[run.commit] \/ late'
      BY <3>3, Zenon DEF DeliveryInv, RunHolds
    <3> QED BY <3>1, <3>2, <3>5, <3>6 DEF DeliveryInv, RunHolds
  <2> QED BY <2>1, <2>2
<1>7. SchemaApplied'
  <2> SUFFICES ASSUME NEW c \in {target, serving} \ {NoCommit, first}
               PROVE  Schema[c] <= head'
    BY <1>3 DEF SchemaApplied
  <2>1. c \in Commits /\ Schema[c] <= head
    BY DEF DeliveryInv, DeliveryTypeOK, SchemaApplied
  <2> QED BY <1>3, <1>4, <2>1
<1> QED BY <1>2, <1>5, <1>6, <1>7 DEF DeliveryInv

\* A migration fails.
LEMMA TaskFailsInv == ASSUME DeliveryInv, NEW t \in Tasks, TaskFails(t) PROVE DeliveryInv'
<1>1. Exits(t, "refused") /\ UpgradeFail(t)
  BY DEF TaskFails
<1>2. DbInv'
  BY <1>1, UpgradeInv DEF DeliveryInv
<1>3. /\ task' = [task EXCEPT ![t] = NoTask]
      /\ UNCHANGED <<head, pending, target, serving, first, late>>
  BY <1>1 DEF UpgradeFail, Exits, TaskFails
<1>4. DeliveryTypeOK'
  <2>1. late' \in BOOLEAN
    BY <1>3, Zenon DEF DeliveryInv, DeliveryTypeOK
  <2> QED BY <1>1, <1>3, <2>1, ExitsTypes DEF DeliveryInv, DeliveryTypeOK
<1>5. RunHolds'
  <2>1. CASE t \in watched
    <3>1. watched' = {} /\ run'.at = "refused"
      BY <1>1, <2>1, ExitsTypes
    <3> QED BY <3>1 DEF RunHolds
  <2>2. CASE t \notin watched
    <3>1. watched' = watched /\ run' = run
      BY <1>1, <2>2, ExitsTypes
    <3>2. \A s \in watched : task'[s] = task[s]
      BY <1>3, <2>2 DEF DeliveryInv, DeliveryTypeOK, DbInv, DbTypeOK
    <3> QED BY <1>3, <3>1, <3>2 DEF DeliveryInv, RunHolds
  <2> QED BY <2>1, <2>2
<1>6. SchemaApplied'
  BY <1>3 DEF DeliveryInv, SchemaApplied
<1> QED BY <1>2, <1>4, <1>5, <1>6 DEF DeliveryInv

\* A migration task connects.
LEMMA ConnectInv ==
  ASSUME DeliveryInv, NEW t \in Tasks, UpgradeConnect(t), UNCHANGED delivery PROVE DeliveryInv'
<1>1. DbInv'
  BY UpgradeInv DEF DeliveryInv
<1>2. DeliveryTypeOK'
  BY Zenon DEF delivery, DeliveryInv, DeliveryTypeOK
<1>3. \A s \in Tasks : task'[s].rev = task[s].rev
  <2>1. task[t] \in [at : {"none", "started", "connected"}, rev : Revisions]
    BY DEF DeliveryInv, DbInv, DbTypeOK
  <2> QED BY <2>1 DEF UpgradeConnect, DeliveryInv, DbInv, DbTypeOK
<1>4. RunHolds'
  BY <1>3 DEF UpgradeConnect, delivery, DeliveryInv, DeliveryTypeOK, RunHolds
<1>5. SchemaApplied'
  BY DEF UpgradeConnect, delivery, DeliveryInv, SchemaApplied
<1> QED BY <1>1, <1>2, <1>4, <1>5 DEF DeliveryInv

\* The bootstrap and the operators.
LEMMA DbStepInv ==
  ASSUME DeliveryInv, UNCHANGED delivery,
         (\E b \in Bootstraps : Bootstrap(b) \/ BootstrapStep(b)) \/ Operate
  PROVE  DeliveryInv'
<1>1. UNCHANGED <<head, task>>
  BY DEF Bootstrap, Start, BootstrapStep, Execute, Grant, Fail, CreateRole, Operate, Push, AlterRole
<1>2. DbInv'
  BY DbInvStep DEF Bootstrap, DbNext, DeliveryInv
<1>3. DeliveryTypeOK'
  BY Zenon DEF delivery, DeliveryInv, DeliveryTypeOK
<1>4. RunHolds' /\ SchemaApplied'
  BY <1>1 DEF delivery, DeliveryInv, RunHolds, SchemaApplied
<1> QED BY <1>2, <1>3, <1>4 DEF DeliveryInv

\* Tasks of the service come up and go down.
LEMMA ServiceInv == ASSUME DeliveryInv, Up \/ Down PROVE DeliveryInv'
<1>1. UNCHANGED <<db, run, watched, pending, target, first, late>>
  BY DEF Up, Down
<1>2. serving' \in {target, NoCommit}
  BY DEF Up, Down
<1>3. DbInv'
  BY <1>1 DEF DeliveryInv, DbInv, DbTypeOK, PastStatements, db
<1>4. DeliveryTypeOK'
  <2>1. late' \in BOOLEAN
    BY <1>1, Zenon DEF DeliveryInv, DeliveryTypeOK
  <2> QED BY <1>1, <1>2, <2>1 DEF DeliveryInv, DeliveryTypeOK
<1>5. RunHolds' /\ SchemaApplied'
  BY <1>1, <1>2 DEF db, DeliveryInv, RunHolds, SchemaApplied
<1> QED BY <1>3, <1>4, <1>5 DEF DeliveryInv

\* Every step preserves the invariant.
LEMMA DeliveryInvStep == DeliveryInv /\ [DeliveryNext]_everything => DeliveryInv'
<1> SUFFICES ASSUME DeliveryInv, [DeliveryNext]_everything PROVE DeliveryInv'
  OBVIOUS
<1>1. CASE (\E c \in Commits : Trigger(c)) \/ Promote \/ UpdateService \/ Stable \/ RunFails
  BY <1>1, RunStepInv
<1>2. ASSUME NEW t \in Tasks, Migrate(t) \/ TaskCommits(t) \/ TaskFails(t) PROVE DeliveryInv'
  BY <1>2, MigrateInv, TaskCommitsInv, TaskFailsInv
<1>7. ASSUME NEW t \in Tasks, UpgradeConnect(t) /\ UNCHANGED delivery PROVE DeliveryInv'
  BY <1>7, ConnectInv
<1>3. ASSUME NEW b \in Bootstraps, Bootstrap(b) \/ (BootstrapStep(b) /\ UNCHANGED delivery)
      PROVE  DeliveryInv'
  BY <1>3, DbStepInv DEF Bootstrap
<1>4. CASE Operate /\ UNCHANGED delivery
  BY <1>4, DbStepInv
<1>5. CASE Up \/ Down
  BY <1>5, ServiceInv
<1>6. CASE UNCHANGED everything
  <2>1. DbInv' /\ UNCHANGED delivery /\ UNCHANGED db
    BY <1>6, DbInvStep DEF everything, DeliveryInv
  <2>2. DeliveryTypeOK'
    BY <2>1, Zenon DEF delivery, DeliveryInv, DeliveryTypeOK
  <2> QED BY <2>1, <2>2
          DEF delivery, db, DeliveryInv, RunHolds, SchemaApplied
<1> QED BY <1>1, <1>2, <1>3, <1>4, <1>5, <1>6, <1>7 DEF DeliveryNext

\* What holds between the deploy runs, the database and the running tasks, for any
\* number of commits, migration tasks and runs of the bootstrap.
THEOREM DeliveryInvariant == DeliverySpec => []DeliveryInv
  BY DeliveryInvInit, DeliveryInvStep, PTL DEF DeliverySpec

\* No failed, timed out or late run leaves code behind that needs a revision the
\* database is not at.
THEOREM NoCodeAheadOfSchema == DeliverySpec => []SchemaApplied
<1>1. DeliveryInv => SchemaApplied
  BY DEF DeliveryInv
<1> QED BY <1>1, DeliveryInvariant, PTL

\* Code is rolled out against its own revision, unless an abandoned migration was late.
THEOREM RolloutsMatch == DeliverySpec => RolloutMatches
<1>1. DeliveryInv /\ [DeliveryNext]_everything =>
        [target' # target => head = Schema[target'] \/ late]_everything
  <2> SUFFICES ASSUME DeliveryInv, DeliveryNext, target' # target
               PROVE  head = Schema[target'] \/ late
    OBVIOUS
  <2>1. UpdateService
    BY DEF DeliveryNext, Trigger, Promote, Stable, RunFails, Migrate, TaskCommits, TaskFails,
           Exits, Bootstrap, Up, Down, delivery
  <2> QED BY <2>1 DEF UpdateService, DeliveryInv, RunHolds
<1> QED BY <1>1, DeliveryInvariant, PTL DEF DeliverySpec, RolloutMatches

--------------------------------------------------------------------------------

\* The database under the delivery is the database of DbRoles.
THEOREM DeliveryIsDb == DeliverySpec => DbSpec
<1>1. DeliveryInit => DbInit
  BY DEF DeliveryInit
<1> QED BY <1>1, DeliveryStepIsDbStep, DeliveryInvariant, PTL DEF DeliverySpec, DbSpec

\* So the promises of the bootstrap hold among deploys that come at any time.
THEOREM DeliveryTablesUsable == DeliverySpec => TablesAfterReady
  BY DeliveryIsDb, TablesUsable, PTL
================================================================================
