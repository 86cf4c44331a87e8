---------------------------- MODULE DbRolesProofs ----------------------------
(* Proofs about DbRoles, for any number of runs, tasks, revisions and rotations. *)
EXTENDS DbRoles, TLAPS

\* The statements the proofs need by their place.
LEMMA StatementOrder ==
  /\ Last = 10
  /\ Statements[3] = "schema_migrate" /\ Statements[9] = "default_tables"
  /\ Creates("migrate") = 1 /\ Creates("rw") = 6
  /\ \A k \in 1..10 : Statements[k] \in {Statements[j] : j \in 1..Last}
  BY DEF Statements, Last, Creates

\* What the versions are.
LEMMA VersionTypes ==
  /\ MaxVersion["migrate"] \in Nat \ {0} /\ MaxVersion["rw"] \in Nat \ {0}
  /\ \A r \in Roles : MaxVersion[r] \in Nat \ {0} /\ Versions(r) = 1..MaxVersion[r]
  BY VersionAssumption DEF Roles, Versions

\* A fresh instance and a local volume satisfy the invariant.
LEMMA DbInvInit == DbInit => DbInv
<1> SUFFICES ASSUME DbInit PROVE DbInv
  OBVIOUS
<1>1. NothingRead \in [Roles -> Nat] /\ \A r \in Roles : NothingRead[r] = NoRole
  BY DEF NothingRead, NoRole
<1>2. /\ secret \in [Roles -> Nat]
      /\ \A r \in Roles : secret[r] = 1 /\ secret[r] \in Versions(r) /\ 1 \in 0..MaxVersion[r]
                          /\ 0 \in 0..MaxVersion[r]
  BY VersionTypes DEF DbInit
<1>3. DbTypeOK
  <2>1. password \in [Roles -> Nat] /\ \A r \in Roles : password[r] \in 0..MaxVersion[r]
    BY <1>1, <1>2 DEF DbInit, NoRole
  <2>2. grants \subseteq {Statements[k] : k \in 1..Last}
    BY DEF DbInit
  <2>3. head \in Revisions /\ usable \subseteq 1..head
    BY RevisionAssumption DEF DbInit, Revisions
  <2>7. ready \in BOOLEAN
    BY Zenon DEF DbInit
  <2>4. pc \in [Bootstraps -> 0..Last]
    BY StatementOrder DEF DbInit
  <2>5. /\ read \in [Bootstraps -> [Roles -> Nat]]
        /\ \A b \in Bootstraps, r \in Roles : read[b][r] \in 0..MaxVersion[r]
    BY <1>1, <1>2 DEF DbInit, NoRole
  <2>6. task \in [Tasks -> [at : {"none", "started", "connected"}, rev : Revisions]]
    BY RevisionAssumption DEF DbInit, NoTask, Revisions
  <2> QED BY <1>2, <2>1, <2>2, <2>3, <2>4, <2>5, <2>6, <2>7 DEF DbTypeOK
<1>4. PastStatements
  <2>1. /\ \A b \in Bootstraps : pc[b] = 0
        /\ \A t \in Tasks : task[t].at = "none"
    BY DEF DbInit, NoTask
  <2>2. ready => /\ \A r \in Roles : password[r] # NoRole
                 /\ {"schema_migrate", "default_tables"} \subseteq grants
    <3>1. SUFFICES ASSUME ready
                   PROVE  /\ \A r \in Roles : password[r] # NoRole
                          /\ {"schema_migrate", "default_tables"} \subseteq grants
      OBVIOUS
    <3>2. password = secret /\ grants = {Statements[k] : k \in 1..Last} \
                                 {"create_migrate", "create_rw", "member_migrate"}
      BY <3>1 DEF DbInit
    <3>3. {"schema_migrate", "default_tables"} \subseteq {Statements[k] : k \in 1..Last}
      BY StatementOrder
    <3> QED BY <1>2, <3>2, <3>3 DEF NoRole
  <2> QED BY <2>1, <2>2, StatementOrder DEF PastStatements, Roles
<1> QED BY <1>3, <1>4 DEF DbInv

--------------------------------------------------------------------------------

\* Starting a run of the bootstrap.
LEMMA StartInv == ASSUME DbInv, NEW b \in Bootstraps, Start(b) PROVE DbInv'
<1>1. DbTypeOK'
  <2>1. \A r \in Roles : secret[r] \in 0..MaxVersion[r]
    BY VersionTypes DEF DbInv, DbTypeOK
  <2>2. read' \in [Bootstraps -> [Roles -> Nat]] /\ pc' \in [Bootstraps -> 0..Last]
    BY StatementOrder DEF DbInv, DbTypeOK, Start
  <2>3. \A a \in Bootstraps, r \in Roles : read'[a][r] \in 0..MaxVersion[r]
    BY <2>1 DEF DbInv, DbTypeOK, Start
  <2> QED BY <2>2, <2>3 DEF DbInv, DbTypeOK, Start
<1>2. PastStatements'
  <2>1. ASSUME NEW a \in Bootstraps
        PROVE  /\ \A r \in Roles : pc'[a] \in 1..Creates(r) => read'[a][r] # NoRole
               /\ \A r \in Roles : pc'[a] > Creates(r) => password'[r] # NoRole
               /\ pc'[a] > 3 => "schema_migrate" \in grants'
               /\ pc'[a] > 9 => "default_tables" \in grants'
    <3>1. CASE a = b
      <4>1. pc'[a] = 1 /\ read'[a] = secret
        BY <3>1 DEF Start, DbInv, DbTypeOK
      <4>2. \A r \in Roles : secret[r] \in Versions(r)
        BY DEF DbInv, DbTypeOK
      <4>3. \A r \in Roles : secret[r] # NoRole
        BY <4>2, VersionTypes DEF NoRole
      <4> QED BY <4>1, <4>3, StatementOrder DEF Roles
    <3>2. CASE a # b
      BY <3>2 DEF Start, DbInv, DbTypeOK, PastStatements
    <3> QED BY <3>1, <3>2
  <2> QED BY <2>1 DEF Start, DbInv, PastStatements
<1> QED BY <1>1, <1>2 DEF DbInv

\* Executing a statement: it is enough that it undoes nothing, and that its own effect
\* is there afterwards.
LEMMA AdvanceInv ==
  ASSUME DbInv, NEW b \in Bootstraps, pc[b] # 0, Advance(b), DbTypeOK',
         grants \subseteq grants',
         \A r \in Roles : password[r] # NoRole => password'[r] # NoRole,
         \A r \in Roles : pc[b] = Creates(r) => password'[r] # NoRole,
         pc[b] = 3 => "schema_migrate" \in grants',
         pc[b] = 9 => "default_tables" \in grants',
         UNCHANGED task,
         \A a \in Bootstraps, r \in Roles :
            pc[a] \in 1..Creates(r) /\ ~(a = b /\ pc[b] = Creates(r)) => read'[a][r] = read[a][r]
  PROVE  DbInv'
<1>1. pc[b] \in 1..10 /\ \A a \in Bootstraps : pc[a] \in 0..10
  BY StatementOrder DEF DbInv, DbTypeOK
<1>2. \/ pc[b] = 10 /\ ready' = TRUE /\ pc' = [pc EXCEPT ![b] = 0]
      \/ pc[b] # 10 /\ ready' = ready /\ pc' = [pc EXCEPT ![b] = pc[b] + 1]
  BY StatementOrder DEF Advance
<1>3. \A a \in Bootstraps : a # b => pc'[a] = pc[a]
  BY <1>2 DEF DbInv, DbTypeOK
<1>4. pc'[b] = IF pc[b] = 10 THEN 0 ELSE pc[b] + 1
  BY <1>2 DEF DbInv, DbTypeOK
<1>5. ASSUME NEW a \in Bootstraps
      PROVE  /\ \A r \in Roles : pc'[a] \in 1..Creates(r) => read'[a][r] # NoRole
             /\ \A r \in Roles : pc'[a] > Creates(r) => password'[r] # NoRole
             /\ pc'[a] > 3 => "schema_migrate" \in grants'
             /\ pc'[a] > 9 => "default_tables" \in grants'
  <2>1. CASE a = b
    <3>1. \A r \in Roles : Creates(r) \in 1..10
      BY StatementOrder DEF Roles
    <3>2. \A r \in Roles : pc'[a] \in 1..Creates(r) => pc[a] \in 1..Creates(r) /\ pc[a] # Creates(r)
      BY <1>1, <1>4, <2>1, <3>1
    <3>3. \A r \in Roles : pc'[a] > Creates(r) => pc[a] > Creates(r) \/ pc[a] = Creates(r)
      BY <1>1, <1>4, <2>1, <3>1
    <3>4. pc'[a] > 3 => pc[a] > 3 \/ pc[a] = 3
      BY <1>1, <1>4, <2>1
    <3>5. pc'[a] > 9 => pc[a] > 9 \/ pc[a] = 9
      BY <1>1, <1>4, <2>1
    <3> QED BY <2>1, <3>2, <3>3, <3>4, <3>5 DEF DbInv, PastStatements
  <2>2. CASE a # b
    BY <1>3, <2>2 DEF DbInv, PastStatements
  <2> QED BY <2>1, <2>2
<1>6. ready' => /\ \A r \in Roles : password'[r] # NoRole
                /\ {"schema_migrate", "default_tables"} \subseteq grants'
  <2>1. CASE ready
    BY <2>1 DEF DbInv, PastStatements
  <2>2. CASE ~ ready /\ ready'
    <3>1. pc[b] = 10
      BY <1>2, <2>2
    <3>2. \A r \in Roles : pc[b] > Creates(r)
      BY <3>1, StatementOrder DEF Roles
    <3> QED BY <3>1, <3>2 DEF DbInv, PastStatements
  <2> QED BY <2>1, <2>2
<1>7. \A t \in Tasks : task'[t].at = "connected" => password'["migrate"] # NoRole
  BY DEF DbInv, PastStatements, Roles
<1> QED BY <1>5, <1>6, <1>7 DEF DbInv, PastStatements

\* What Advance leaves behind has its type.
LEMMA AdvanceTypes ==
  ASSUME DbInv, NEW b \in Bootstraps, pc[b] # 0, Advance(b)
  PROVE  pc' \in [Bootstraps -> 0..Last] /\ ready' \in BOOLEAN
<1>1. pc \in [Bootstraps -> 0..10]
  BY StatementOrder DEF DbInv, DbTypeOK
<1>2. ready' \in BOOLEAN
  BY Zenon DEF Advance, DbInv, DbTypeOK
<1>3. pc' \in [Bootstraps -> 0..10]
  <2>1. CASE pc[b] = 10
    BY <1>1, <2>1, StatementOrder DEF Advance
  <2>2. CASE pc[b] # 10
    <3>1. pc' = [pc EXCEPT ![b] = pc[b] + 1] /\ pc[b] + 1 \in 0..10
      BY <1>1, <2>2, StatementOrder DEF Advance
    <3> QED BY <1>1, <3>1
  <2> QED BY <2>1, <2>2
<1> QED BY <1>2, <1>3, StatementOrder

\* CREATE ROLE, or nothing if the role exists.
LEMMA CreateRoleInv ==
  ASSUME DbInv, NEW b \in Bootstraps, NEW r \in Roles, CreateRole(b, r) PROVE DbInv'
<1>1. /\ pc[b] = Creates(r) /\ Advance(b)
      /\ password' = [password EXCEPT ![r] = IF @ = NoRole THEN read[b][r] ELSE @]
      /\ read' = [read EXCEPT ![b][r] = NoRole]
      /\ UNCHANGED <<secret, grants, head, usable, task>>
  BY DEF CreateRole
<1>2. pc[b] \in 1..10 /\ read[b][r] # NoRole /\ read[b][r] \in 0..MaxVersion[r]
  BY <1>1, StatementOrder DEF DbInv, DbTypeOK, PastStatements, Roles
<1>3. /\ password'[r] # NoRole
      /\ \A s \in Roles : s # r => password'[s] = password[s]
  BY <1>1, <1>2 DEF DbInv, DbTypeOK
<1>4. \A s \in Roles : Creates(s) = Creates(r) => s = r
  BY StatementOrder DEF Roles
<1>5. pc' \in [Bootstraps -> 0..Last] /\ ready' \in BOOLEAN
  BY <1>1, <1>2, AdvanceTypes
<1>6. /\ password' \in [Roles -> Nat]
      /\ \A s \in Roles : password'[s] \in 0..MaxVersion[s]
  BY <1>1, <1>2 DEF DbInv, DbTypeOK
<1>7. /\ read' \in [Bootstraps -> [Roles -> Nat]]
      /\ \A a \in Bootstraps, s \in Roles : read'[a][s] \in 0..MaxVersion[s]
  <2>1. read' \in [Bootstraps -> [Roles -> Nat]]
    BY <1>1 DEF DbInv, DbTypeOK, NoRole
  <2>2. \A a \in Bootstraps, s \in Roles : read'[a][s] = NoRole \/ read'[a][s] = read[a][s]
    BY <1>1 DEF DbInv, DbTypeOK
  <2>3. \A s \in Roles : NoRole \in 0..MaxVersion[s]
    BY VersionTypes DEF NoRole
  <2> QED BY <2>1, <2>2, <2>3 DEF DbInv, DbTypeOK
<1>8. DbTypeOK'
  BY <1>1, <1>5, <1>6, <1>7 DEF DbInv, DbTypeOK
<1>9. \A a \in Bootstraps, s \in Roles :
        ~(a = b /\ pc[b] = Creates(s)) => read'[a][s] = read[a][s]
  BY <1>1 DEF DbInv, DbTypeOK
<1>10. pc[b] # 3 /\ pc[b] # 9 /\ pc[b] # 0
  BY <1>1, StatementOrder DEF Roles
<1> QED BY <1>1, <1>3, <1>4, <1>8, <1>9, <1>10, AdvanceInv

\* Any other statement.
LEMMA GrantInv == ASSUME DbInv, NEW b \in Bootstraps, Grant(b) PROVE DbInv'
<1>1. /\ pc[b] \in 1..10 /\ \A r \in Roles : pc[b] # Creates(r)
      /\ grants' = grants \cup {Statements[pc[b]]} /\ Advance(b)
      /\ UNCHANGED <<secret, password, head, usable, read, task>>
  BY StatementOrder DEF Grant
<1>2. pc' \in [Bootstraps -> 0..Last] /\ ready' \in BOOLEAN
  BY <1>1, AdvanceTypes
<1>3. grants' \subseteq {Statements[k] : k \in 1..Last}
  BY <1>1, StatementOrder DEF DbInv, DbTypeOK
<1>4. DbTypeOK'
  BY <1>1, <1>2, <1>3 DEF DbInv, DbTypeOK
<1>5. /\ pc[b] = 3 => "schema_migrate" \in grants'
      /\ pc[b] = 9 => "default_tables" \in grants'
  BY <1>1, StatementOrder
<1> QED BY <1>1, <1>4, <1>5, AdvanceInv

\* A run that is cut off.
LEMMA FailInv == ASSUME DbInv, NEW b \in Bootstraps, Fail(b) PROVE DbInv'
<1>1. NothingRead \in [Roles -> Nat] /\ \A r \in Roles : NothingRead[r] \in 0..MaxVersion[r]
  BY VersionTypes DEF NothingRead, NoRole
<1>2. DbTypeOK'
  <2>1. pc' \in [Bootstraps -> 0..Last] /\ read' \in [Bootstraps -> [Roles -> Nat]]
    BY <1>1, StatementOrder DEF Fail, DbInv, DbTypeOK
  <2>2. \A a \in Bootstraps, r \in Roles : read'[a][r] \in 0..MaxVersion[r]
    BY <1>1 DEF Fail, DbInv, DbTypeOK
  <2> QED BY <2>1, <2>2 DEF Fail, DbInv, DbTypeOK
<1>3. PastStatements'
  <2>1. pc'[b] = 0 /\ \A a \in Bootstraps : a # b => pc'[a] = pc[a] /\ read'[a] = read[a]
    BY DEF Fail, DbInv, DbTypeOK
  <2>2. \A r \in Roles : ~(0 > Creates(r))
    BY StatementOrder DEF Roles
  <2> QED BY <2>1, <2>2 DEF Fail, DbInv, PastStatements
<1> QED BY <1>2, <1>3 DEF DbInv

\* Rotations.
LEMMA OperateInv == ASSUME DbInv, Operate PROVE DbInv'
<1>1. ASSUME NEW r \in Roles, Push(r) PROVE DbInv'
  <2>1. secret' \in [Roles -> Nat] /\ \A s \in Roles : secret'[s] \in Versions(s)
    BY <1>1, VersionTypes DEF Push, DbInv, DbTypeOK
  <2> QED BY <1>1, <2>1 DEF Push, Roles, DbInv, DbTypeOK, PastStatements
<1>2. ASSUME NEW r \in Roles, AlterRole(r) PROVE DbInv'
  <2>1. /\ password' \in [Roles -> Nat] /\ \A s \in Roles : password'[s] \in 0..MaxVersion[s]
        /\ \A s \in Roles : password[s] # NoRole => password'[s] # NoRole
    BY <1>2, VersionTypes DEF AlterRole, DbInv, DbTypeOK, NoRole
  <2> QED BY <1>2, <2>1 DEF AlterRole, Roles, DbInv, DbTypeOK, PastStatements
<1> QED BY <1>1, <1>2 DEF Operate

\* A migration starts, is committed, or fails.
LEMMA UpgradeInv ==
  ASSUME DbInv, NEW t \in Tasks,
         \/ UpgradeConnect(t) \/ UpgradeCommit(t) \/ UpgradeFail(t)
         \/ \E rev \in Revisions : UpgradeStart(t, rev)
  PROVE  DbInv'
<1>1. /\ head' \in Revisions /\ usable' \subseteq 1..head'
  <2>1. CASE UpgradeCommit(t)
    <3>1. task[t].rev \in Revisions /\ head' = task[t].rev /\ head <= task[t].rev
      BY <2>1 DEF UpgradeCommit, CanUpgrade, DbInv, DbTypeOK
    <3>2. head \in Nat /\ usable \subseteq 1..head /\ task[t].rev \in Nat
      BY <3>1, RevisionAssumption DEF Revisions, DbInv, DbTypeOK
    <3>3. usable' \subseteq usable \cup (head + 1)..task[t].rev
      BY <2>1 DEF UpgradeCommit
    <3> QED BY <3>1, <3>2, <3>3
  <2>2. CASE head' = head /\ usable' = usable
    BY <2>2 DEF DbInv, DbTypeOK
  <2> QED BY <2>1, <2>2 DEF UpgradeFail, UpgradeStart, UpgradeConnect
<1>2. task' \in [Tasks -> [at : {"none", "started", "connected"}, rev : Revisions]]
  <2>1. NoTask \in [at : {"none", "started", "connected"}, rev : Revisions]
    BY RevisionAssumption DEF NoTask, Revisions
  <2>2. CASE task' = [task EXCEPT ![t] = NoTask]
    BY <2>1, <2>2 DEF DbInv, DbTypeOK
  <2>3. CASE UpgradeConnect(t)
    <3>1. task[t] \in [at : {"none", "started", "connected"}, rev : Revisions]
      BY DEF DbInv, DbTypeOK
    <3>2. [task[t] EXCEPT !.at = "connected"]
            \in [at : {"none", "started", "connected"}, rev : Revisions]
      BY <3>1
    <3>3. task' = [task EXCEPT ![t] = [task[t] EXCEPT !.at = "connected"]]
      BY <2>3 DEF UpgradeConnect
    <3> QED BY <3>2, <3>3 DEF DbInv, DbTypeOK
  <2>4. ASSUME NEW rev \in Revisions, UpgradeStart(t, rev)
        PROVE  task' \in [Tasks -> [at : {"none", "started", "connected"}, rev : Revisions]]
    BY <2>4 DEF UpgradeStart, DbInv, DbTypeOK
  <2> QED BY <2>2, <2>3, <2>4 DEF UpgradeCommit, UpgradeFail
<1>3. UNCHANGED <<secret, password, grants, pc, read, ready>>
  BY DEF UpgradeConnect, UpgradeCommit, UpgradeFail, UpgradeStart
<1>4. \A s \in Tasks : task'[s].at = "connected" => password["migrate"] # NoRole
  <2>1. UpgradeConnect(t) => password["migrate"] # NoRole
    <3>1. secret["migrate"] \in Versions("migrate")
      BY DEF DbInv, DbTypeOK, Roles
    <3>2. secret["migrate"] # 0
      BY <3>1, VersionTypes DEF Roles
    <3> QED BY <3>2 DEF UpgradeConnect, NoRole
  <2>2. \A s \in Tasks : s # t => task'[s] = task[s]
    BY DEF UpgradeConnect, UpgradeCommit, UpgradeFail, UpgradeStart, DbInv, DbTypeOK
  <2>3. ~ UpgradeConnect(t) => task'[t].at # "connected"
    BY DEF UpgradeCommit, UpgradeFail, UpgradeStart, NoTask, DbInv, DbTypeOK
  <2> QED BY <2>1, <2>2, <2>3 DEF DbInv, PastStatements
<1> QED BY <1>1, <1>2, <1>3, <1>4 DEF DbInv, DbTypeOK, PastStatements

\* Every step preserves the invariant.
LEMMA DbInvStep == DbInv /\ [DbNext]_db => DbInv'
<1> SUFFICES ASSUME DbInv, [DbNext]_db PROVE DbInv'
  OBVIOUS
<1>1. ASSUME NEW b \in Bootstraps, Start(b) \/ BootstrapStep(b) PROVE DbInv'
  BY <1>1, StartInv, GrantInv, FailInv, CreateRoleInv DEF BootstrapStep, Execute
<1>2. CASE Operate
  BY <1>2, OperateInv
<1>3. ASSUME NEW t \in Tasks,
             \/ UpgradeConnect(t) \/ UpgradeCommit(t) \/ UpgradeFail(t)
             \/ \E rev \in Revisions : UpgradeStart(t, rev)
      PROVE  DbInv'
  BY <1>3, UpgradeInv
<1>4. CASE UNCHANGED db
  BY <1>4 DEF db, DbInv, DbTypeOK, PastStatements
<1> QED BY <1>1, <1>2, <1>3, <1>4 DEF DbNext

\* A run of the bootstrap that is past a statement finds its effect in the database, as
\* does everybody after a run has ended well, for any number of runs at once.
THEOREM DbInvariant == DbSpec => []DbInv
  BY DbInvInit, DbInvStep, PTL DEF DbSpec

--------------------------------------------------------------------------------

\* Once the roles are ready every migration leaves its tables usable.
THEOREM TablesUsable == DbSpec => TablesAfterReady
<1>1. DbInv /\ [DbNext]_db => [ready => (head + 1)..head' \subseteq usable']_db
  <2> SUFFICES ASSUME DbInv, DbNext, ready PROVE (head + 1)..head' \subseteq usable'
    OBVIOUS
  <2>1. head \in Nat
    BY RevisionAssumption DEF DbInv, DbTypeOK, Revisions
  <2>2. CASE head' = head
    BY <2>1, <2>2
  <2>3. ASSUME NEW t \in Tasks, UpgradeCommit(t) PROVE (head + 1)..head' \subseteq usable'
    <3>1. \A r \in (head + 1)..task[t].rev : Granted(r)
      BY DEF Granted, DbInv, PastStatements
    <3> QED BY <2>3, <3>1 DEF UpgradeCommit
  <2> QED BY <2>2, <2>3
        DEF DbNext, Start, BootstrapStep, Execute, Grant, Fail, CreateRole, Operate, Push, AlterRole,
            UpgradeStart, UpgradeConnect, UpgradeFail
<1> QED BY <1>1, DbInvariant, PTL DEF DbSpec, TablesAfterReady
================================================================================
