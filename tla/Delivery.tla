------------------------------- MODULE Delivery -------------------------------
(****************************************************************************)
(* How a commit reaches the database and the running tasks of one service:  *)
(* the runs of deploy-dev.yml in the service's concurrency group, each of   *)
(* which promotes an image, runs the migration of that image as a one-off   *)
(* task and then points the service at it; db-bootstrap.yml, which takes    *)
(* the image it runs from the service; and ECS, which keeps a task of the   *)
(* service's image running.  The database is that of DbRoles.               *)
(*                                                                          *)
(* A run can be triggered for any commit: CI of a commit may end late or be *)
(* run again.                                                               *)
(****************************************************************************)
EXTENDS DbRoles

CONSTANTS
  Commits,     \* the commits of main
  NoCommit,    \* none of them
  Schema,      \* the newest revision in the code of each commit
  Created      \* what the service may be created with: a commit, or NoCommit for a
               \* placeholder image

ASSUME CommitAssumption == NoCommit \notin Commits
ASSUME SchemaAssumption == Schema \in [Commits -> Revisions]
ASSUME CreatedAssumption == Created \subseteq Commits \cup {NoCommit}

VARIABLES
  run,      \* the deploy run in progress: its commit and step
  watched,  \* the migration task it waits for
  pending,  \* the commit of the run that waits for it
  target,   \* the commit whose image is in the service's task definition
  serving,  \* the commit whose code answers requests
  first,    \* what the service was created with
  late      \* history: since the migration of the run in progress another took effect

delivery == <<run, watched, pending, target, serving, first, late>>
everything == <<db, delivery>>

\* Between "migrating" and "stabilize", the exit code of the migration task is there.
RunSteps == {"promote", "migrate", "migrating", "migrated", "refused", "stabilize"}

NewRun(c) == [commit |-> c, at |-> "promote"]
NoRun == [commit |-> NoCommit, at |-> "idle"]

--------------------------------------------------------------------------------
(* deploy-dev.yml *)

\* CI of a commit succeeds, or somebody dispatches the workflow.  The group runs one at
\* a time and does not cancel it; of those that wait it keeps the newest.
Trigger(c) ==
  /\ IF run = NoRun
     THEN run' = NewRun(c) /\ UNCHANGED pending
     ELSE pending' = c /\ UNCHANGED run
  /\ UNCHANGED <<db, watched, target, serving, first, late>>

\* A run ends, well or not, and lets the one that waits go ahead.
End ==
  /\ run' = IF pending = NoCommit THEN NoRun ELSE NewRun(pending)
  /\ pending' = NoCommit
  /\ watched' = {}
  /\ late' = FALSE

\* Pull from GHCR, push to ECR, register a task definition.
Promote ==
  /\ run.at = "promote"
  /\ run' = [run EXCEPT !.at = "migrate"]
  /\ UNCHANGED <<db, watched, pending, target, serving, first, late>>

\* ecs run-task with the command alembic upgrade head, and ecs wait tasks-stopped.
Migrate(t) ==
  /\ run.at = "migrate"
  /\ UpgradeStart(t, Schema[run.commit])
  /\ run' = [run EXCEPT !.at = "migrating"]
  /\ watched' = {t}
  /\ UNCHANGED <<pending, target, serving, first, late>>

BugUpdateService ==
  /\ run.at \in {"migrated", "refused"}
  /\ target' = run.commit
  /\ run' = [run EXCEPT !.at = "stabilize"]
  /\ late' = FALSE
  /\ UNCHANGED <<db, watched, pending, serving, first>>
\* The exit code is 0: ecs update-service.
UpdateService ==
  /\ run.at = "migrated"
  /\ target' = run.commit
  /\ run' = [run EXCEPT !.at = "stabilize"]
  /\ late' = FALSE
  /\ UNCHANGED <<db, watched, pending, serving, first>>

\* ecs wait services-stable.
Stable ==
  /\ run.at = "stabilize"
  /\ serving = target
  /\ End
  /\ UNCHANGED <<db, target, serving, first>>

\* Any step may fail: the image was not built or may not be pushed again, the exit code
\* is not 0, a wait times out, the role's session ends.  A task that was started goes on.
RunFails ==
  /\ run # NoRun
  /\ End
  /\ UNCHANGED <<db, target, serving, first>>

--------------------------------------------------------------------------------
(* The tasks of the cluster *)

\* The run that waits for task t learns how it ended.
Exits(t, outcome) ==
  /\ run' = IF t \in watched THEN [run EXCEPT !.at = outcome] ELSE run
  /\ watched' = watched \ {t}
  /\ UNCHANGED <<pending, target, serving, first>>

TaskCommits(t) ==
  /\ UpgradeCommit(t)
  /\ Exits(t, "migrated")
  /\ late' = (run.at = "migrated" /\ (late \/ head' # head))

TaskFails(t) ==
  /\ UpgradeFail(t)
  /\ Exits(t, "refused")
  /\ UNCHANGED late

\* db-bootstrap.yml runs the script from the image the service has at that time: a
\* placeholder does not hold it.
Bootstrap(b) ==
  /\ target # NoCommit
  /\ Start(b)
  /\ UNCHANGED delivery

\* A new task reads its password in the lifespan, opens its first connection for
\* /health, and takes over from the old one.
Up ==
  /\ target # NoCommit
  /\ password["rw"] = secret["rw"]
  /\ serving' = target
  /\ UNCHANGED <<db, run, watched, pending, target, first, late>>

\* The task dies, or /health fails and ECS stops it.
Down ==
  /\ serving' = NoCommit
  /\ UNCHANGED <<db, run, watched, pending, target, first, late>>

DeliveryInit ==
  /\ DbInit /\ ~ ready
  /\ run = NoRun
  /\ watched = {}
  /\ pending = NoCommit
  /\ first \in Created
  /\ target = first
  /\ serving = NoCommit
  /\ late = FALSE

DeliveryNext ==
  \/ \E c \in Commits : Trigger(c)
  \/ Promote \/ UpdateService \/ Stable \/ RunFails
  \/ \E t \in Tasks :
       \/ Migrate(t) \/ TaskCommits(t) \/ TaskFails(t)
       \/ UpgradeConnect(t) /\ UNCHANGED delivery
  \/ \E b \in Bootstraps : Bootstrap(b) \/ (BootstrapStep(b) /\ UNCHANGED delivery)
  \/ Operate /\ UNCHANGED delivery
  \/ Up \/ Down

DeliverySpec == DeliveryInit /\ [][DeliveryNext]_everything

\* Every commit is deployed again and again and the bootstrap is run again and again; every
\* step is taken in the end, a migration task ends, and so does a run it fails; runs come to
\* meet no other failure, and no accident keeps a migration from success every time.
FairDeliverySpec ==
  /\ DeliverySpec
  /\ \A c \in Commits : WF_everything(Trigger(c))
  /\ WF_everything(Promote) /\ WF_everything(UpdateService) /\ WF_everything(Stable)
  /\ WF_everything(run.at = "refused" /\ RunFails)
  /\ <>[][RunFails => run.at \in {"refused", "stabilize"}]_everything
  /\ SF_everything(Up)
  /\ \A t \in Tasks : /\ WF_everything(Migrate(t))
                      /\ SF_everything(UpgradeConnect(t) /\ UNCHANGED delivery)
                      /\ SF_everything(TaskCommits(t))
                      /\ WF_everything(TaskCommits(t) \/ TaskFails(t))
  /\ \A b \in Bootstraps : SF_everything(Bootstrap(b)) /\ Accidental(b)

--------------------------------------------------------------------------------
(* Properties *)

DeliveryTypeOK ==
  /\ run \in {NoRun} \cup [commit : Commits, at : RunSteps]
  /\ watched \subseteq Tasks
  /\ {pending, target, serving, first} \subseteq Commits \cup {NoCommit}
  /\ late \in BOOLEAN

\* A run waits for one task, which migrates to the revision of its commit; one that may
\* roll out has seen that revision in the database.
RunHolds ==
  /\ \A t \in watched : watched = {t} /\ run.at = "migrating"
                         /\ task[t].rev = Schema[run.commit]
  /\ run.at = "migrated" => /\ Schema[run.commit] <= head
                            /\ head = Schema[run.commit] \/ late

\* "A failed migration blocks the deploy instead of rolling out code against a schema it
\* doesn't match": neither the service's task definition nor the code that answers needs
\* a revision the database is not at, whatever runs failed, timed out or came late; the
\* image the service was created with was never checked.
SchemaApplied == \A c \in {target, serving} \ {NoCommit, first} : Schema[c] <= head

\* When a run rolls code out, the database is at the very revision of that code, unless
\* a migration that an earlier run gave up on took effect since its own.
RolloutMatches == [][target' # target => head = Schema[target'] \/ late]_everything

\* A service created with an image of this repository comes to answer with code whose
\* schema is there, on roles that are ready, in whatever order the deploys and the
\* bootstraps come and wherever both were cut off.
FirstDeploy == <>(ready /\ serving \in Commits /\ Schema[serving] = head)

DeliveryInv == DbInv /\ DeliveryTypeOK /\ RunHolds /\ SchemaApplied
================================================================================
