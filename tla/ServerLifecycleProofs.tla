----------------------- MODULE ServerLifecycleProofs -----------------------
(***************************************************************************)
(* Proofs about Migrations and ServerLifecycle for any number of replicas  *)
(* and of migrations, and without the bounds on starts and faults.         *)
(***************************************************************************)
EXTENDS ServerLifecycle, FiniteSetTheorems, TLAPS

-----------------------------------------------------------------------------
(* The schema                                                              *)

Stages == Down \cup Migrating \cup
            {"migrated", "serving", "shutdown", "polling", "realtime", "exited"}

\* The transactions that hold the locks of a file's statements.
Holding == {"record", "commit"}

\* What Migrate relies on at each of its steps.
MigrateInv ==
  /\ recorded \subseteq 1 .. Files
  /\ times \in [1 .. Files -> Nat]
  /\ pc \in [Replicas -> Stages]
  /\ at \in [Replicas -> 1 .. Files + 1]
  /\ \A r \in Replicas : \A f \in 1 .. Files : f < at[r] => f \in recorded
  /\ \A r \in Replicas : pc[r] \in {"exec", "record", "commit"} => at[r] \in 1 .. Files
  /\ \A r \in Replicas : pc[r] = "commit" => at[r] \notin recorded
  /\ \A q, r \in Replicas : pc[q] \in Holding /\ pc[r] \in Holding => q = r

SchemaInv == MigrateInv /\ SchemaSound

\* A step from one stage to another that leaves the schema keeps the invariant
\* if the replica has what the new stage relies on.
LEMMA StageStep ==
  ASSUME SchemaInv, NEW r \in Replicas, NEW label \in Stages, Goto(r, label),
         UNCHANGED <<recorded, times, at>>,
         label \in {"exec", "record", "commit"} => at[r] \in 1 .. Files,
         label = "commit" => at[r] \notin recorded,
         label \in Holding => pc[r] \in Holding \/ ~Locked(r),
         label \notin Down \cup Migrating => recorded = 1 .. Files
  PROVE  SchemaInv'
<1> USE DEF SchemaInv, MigrateInv
<1>1. pc' \in [Replicas -> Stages] /\ pc'[r] = label
  BY DEF Goto
<1>2. \A q \in Replicas \ {r} : pc'[q] = pc[q]
  BY DEF Goto
<1>3. \A p, q \in Replicas : pc'[p] \in Holding /\ pc'[q] \in Holding => p = q
  BY <1>1, <1>2 DEF Locked, Holding
<1>4. MigrateInv'
  BY <1>1, <1>2, <1>3
<1>5. \A q \in Replicas : pc'[q] \notin Down \cup Migrating => recorded' = 1 .. Files
  BY <1>1, <1>2 DEF SchemaSound
<1>6. AppliedOnce' /\ AppliedInOrder'
  BY DEF SchemaSound, AppliedOnce, AppliedInOrder
<1> QED
  BY <1>4, <1>5, <1>6 DEF SchemaSound

\* The initial database is sound, however far an earlier program got.
LEMMA InitSchema == LifecycleInit => SchemaInv
<1> SUFFICES ASSUME MigrationsInit PROVE SchemaInv
  BY DEF LifecycleInit
<1>1. PICK n \in 0 .. Files : recorded = 1 .. n
  BY DEF MigrationsInit
<1>2. MigrateInv
  BY <1>1, MigrationsAssumption DEF MigrationsInit, MigrateInv, Stages, Down, Holding
<1>3. SchemaSound
  BY <1>1, MigrationsAssumption
     DEF MigrationsInit, SchemaSound, AppliedOnce, AppliedInOrder, Down
<1> QED
  BY <1>2, <1>3 DEF SchemaInv

\* A file is committed by the one replica that holds its locks, after all the
\* files before it.
LEMMA CommitSchema ==
  ASSUME SchemaInv, NEW r \in Replicas, pc[r] = "commit", CommitFile(r),
         NEW label \in {"check", "failed"}, Goto(r, label),
         at' = [at EXCEPT ![r] = @ + 1] \/ UNCHANGED at
  PROVE  SchemaInv'
<1> USE MigrationsAssumption DEF SchemaInv, MigrateInv
<1>1. /\ at[r] \in 1 .. Files /\ at[r] \notin recorded
      /\ recorded' = recorded \cup {at[r]}
      /\ times' = [times EXCEPT ![at[r]] = @ + 1]
  BY DEF CommitFile
<1>2. /\ pc' \in [Replicas -> Stages] /\ pc'[r] = label
      /\ \A q \in Replicas \ {r} : pc'[q] = pc[q] /\ pc[q] \notin Holding
  BY DEF Goto, Stages, Down, Migrating, Holding
<1>3. /\ at' \in [Replicas -> 1 .. Files + 1]
      /\ at'[r] \in {at[r], at[r] + 1} /\ \A q \in Replicas \ {r} : at'[q] = at[q]
  BY <1>1
<1>4. recorded' \subseteq 1 .. Files /\ times' \in [1 .. Files -> Nat]
  <2>1. recorded' \subseteq 1 .. Files
    BY <1>1
  <2>2. times' \in [1 .. Files -> Nat]
    BY <1>1
  <2> QED
    BY <2>1, <2>2
<1>5. ASSUME NEW q \in Replicas, NEW f \in 1 .. Files, f < at'[q]
      PROVE  f \in recorded'
  <2>1. CASE f < at[q]
    BY <1>1, <2>1
  <2>2. CASE ~(f < at[q])
    <3>1. at[q] \in 1 .. Files + 1 /\ f \in Nat
      OBVIOUS
    <3>2. q = r
      BY <1>3, <1>5, <2>2
    <3>3. f = at[r]
      BY <1>3, <1>5, <2>2, <3>1, <3>2
    <3> QED
      BY <1>1, <3>3
  <2> QED
    BY <2>1, <2>2
<1>6. MigrateInv'
  BY <1>1, <1>2, <1>3, <1>4, <1>5 DEF Holding
<1>7. AppliedOnce'
  BY <1>1 DEF SchemaSound, AppliedOnce
<1>8. AppliedInOrder'
  BY <1>1 DEF SchemaSound, AppliedInOrder
<1>9. \A q \in Replicas : pc'[q] \notin Down \cup Migrating => recorded' = 1 .. Files
  BY <1>1, <1>2, <1>4 DEF SchemaSound, Down, Migrating
<1> QED
  BY <1>6, <1>7, <1>8, <1>9 DEF SchemaSound

\* A replica that starts, or has found a file's version recorded, goes on to the
\* first, or the next, file.
LEMMA NextFile ==
  ASSUME SchemaInv, NEW r \in Replicas, NEW f \in 1 .. Files + 1,
         at' = [at EXCEPT ![r] = f], \A e \in 1 .. Files : e < f => e \in recorded,
         UNCHANGED <<recorded, times>>,
         NEW label \in {"create", "check"}, Goto(r, label)
  PROVE  SchemaInv'
<1> USE DEF SchemaInv, MigrateInv
<1>1. /\ at' \in [Replicas -> 1 .. Files + 1] /\ at'[r] = f
      /\ \A q \in Replicas \ {r} : at'[q] = at[q]
  OBVIOUS
<1>2. /\ pc' \in [Replicas -> Stages] /\ pc'[r] = label
      /\ \A q \in Replicas \ {r} : pc'[q] = pc[q]
  BY DEF Goto, Stages, Migrating
<1>3. MigrateInv'
  BY <1>1, <1>2 DEF Holding
<1>4. AppliedOnce' /\ AppliedInOrder'
  BY DEF SchemaSound, AppliedOnce, AppliedInOrder
<1>5. \A q \in Replicas : pc'[q] \notin Down \cup Migrating => recorded' = 1 .. Files
  BY <1>2 DEF SchemaSound, Migrating
<1> QED
  BY <1>3, <1>4, <1>5 DEF SchemaSound

\* Whatever a replica does in Migrate, and wherever it fails, the schema stays
\* sound.
LEMMA MigrateSchema ==
  ASSUME SchemaInv, NEW r \in Replicas,
         StartMigrate(r) \/ MigrateStep(r) \/ MigrateAborts(r)
  PROVE  SchemaInv'
<1> USE MigrationsAssumption
<1> USE DEF schema
<1>0. /\ {"create", "creating", "check", "exec", "record", "commit", "failed",
          "migrated"} \subseteq Stages
      /\ at[r] \in 1 .. Files + 1
  BY DEF SchemaInv, MigrateInv, Stages, Down, Migrating
<1>1. CASE StartMigrate(r)
  <2>1. 1 \in 1 .. Files + 1 /\ \A e \in 1 .. Files : e < 1 => e \in recorded
    OBVIOUS
  <2> QED
    BY <1>1, <2>1, NextFile DEF StartMigrate
<1>2. CASE CreateTable(r)
  <2>1. PICK label \in {"creating", "check", "failed"} : Goto(r, label)
    BY <1>2 DEF CreateTable
  <2>2. /\ label \notin {"exec", "record", "commit"}
        /\ label \notin Holding /\ label \in Down \cup Migrating /\ label \in Stages
    BY <1>0 DEF Holding, Down, Migrating
  <2> QED
    BY <1>2, <2>1, <2>2, StageStep DEF CreateTable
<1>3. CASE IsApplied(r)
  <2>1. CASE at[r] > Files /\ Goto(r, "migrated") /\ UNCHANGED at
    <3>1. \A f \in 1 .. Files : f < at[r]
      BY <1>0, <2>1
    <3>2. recorded = 1 .. Files
      BY <3>1 DEF SchemaInv, MigrateInv
    <3>3. "migrated" \notin Holding
      BY DEF Holding
    <3> QED
      BY <1>0, <1>3, <2>1, <3>2, <3>3, StageStep DEF IsApplied
  <2>2. CASE at[r] \in recorded /\ at' = [at EXCEPT ![r] = @ + 1] /\ UNCHANGED pc
    <3>1. at[r] \in 1 .. Files
      BY <2>2 DEF SchemaInv, MigrateInv
    <3>2. at[r] + 1 \in 1 .. Files + 1
      BY <3>1
    <3>3. ASSUME NEW e \in 1 .. Files, e < at[r] + 1 PROVE e \in recorded
      <4>1. e < at[r] \/ e = at[r]
        BY <3>1, <3>3
      <4> QED
        BY <2>2, <4>1 DEF SchemaInv, MigrateInv
    <3>4. Goto(r, "check")
      BY <1>3, <2>2 DEF IsApplied, Goto, SchemaInv, MigrateInv
    <3>5. at' = [at EXCEPT ![r] = at[r] + 1]
      BY <2>2
    <3> QED
      BY <1>3, <3>2, <3>3, <3>4, <3>5, NextFile DEF IsApplied
  <2>3. CASE at[r] \in 1 .. Files \ recorded /\ Goto(r, "exec") /\ UNCHANGED at
    <3>1. /\ at[r] \in 1 .. Files /\ "exec" \notin Holding
          /\ "exec" \in Down \cup Migrating
      BY <2>3 DEF Holding, Migrating
    <3> QED
      BY <1>0, <1>3, <2>3, <3>1, StageStep DEF IsApplied
  <2> QED
    BY <1>3, <2>1, <2>2, <2>3 DEF IsApplied
<1>4. CASE Exec(r)
  <2>1. pc[r] = "exec" /\ at[r] \in 1 .. Files
    BY <1>4 DEF Exec, SchemaInv, MigrateInv
  <2>2. CASE ~Locked(r) /\ Goto(r, "record")
    <3>1. "record" \in Down \cup Migrating
      BY DEF Migrating
    <3> QED
      BY <1>0, <1>4, <2>1, <2>2, <3>1, StageStep DEF Exec
  <2>3. CASE Goto(r, "failed")
    <3>1. "failed" \in Down \cup Migrating /\ "failed" \notin Holding
      BY DEF Down, Holding
    <3> QED
      BY <1>0, <1>4, <2>3, <3>1, StageStep DEF Exec
  <2> QED
    BY <1>4, <2>2, <2>3 DEF Exec
<1>5. CASE Record(r)
  <2>1. pc[r] = "record" /\ at[r] \in 1 .. Files /\ pc[r] \in Holding
    BY <1>5 DEF Record, SchemaInv, MigrateInv, Holding
  <2>2. {"commit", "failed"} \subseteq Down \cup Migrating
    BY DEF Down, Migrating
  <2>3. CASE at[r] \in recorded
    BY <1>0, <1>5, <2>1, <2>2, <2>3, StageStep DEF Record
  <2>4. CASE at[r] \notin recorded
    BY <1>0, <1>5, <2>1, <2>2, <2>4, StageStep DEF Record
  <2> QED
    BY <2>3, <2>4
<1>6. CASE Commit(r)
  BY <1>6, CommitSchema DEF Commit
<1>7. CASE MigrateAborts(r)
  <2>1. CASE UNCHANGED <<recorded, times>>
    <3>1. "failed" \in Down \cup Migrating /\ "failed" \notin Holding
      BY DEF Down, Holding
    <3> QED
      BY <1>0, <1>7, <2>1, <3>1, StageStep DEF MigrateAborts
  <2>2. CASE pc[r] = "commit" /\ CommitFile(r)
    BY <1>7, <2>2, CommitSchema DEF MigrateAborts
  <2> QED
    BY <1>7, <2>1, <2>2 DEF MigrateAborts, Unanswered
<1> QED
  BY <1>1, <1>2, <1>3, <1>4, <1>5, <1>6, <1>7 DEF MigrateStep

\* The rest of a replica's life leaves the schema alone.
LEMMA NextSchema ==
  SchemaInv /\ [LifecycleNext]_lifecycleVars => SchemaInv'
<1> SUFFICES ASSUME SchemaInv, [LifecycleNext]_lifecycleVars PROVE SchemaInv'
  OBVIOUS
<1>1. ASSUME UNCHANGED <<recorded, times, pc, at>> PROVE SchemaInv'
  BY <1>1 DEF SchemaInv, MigrateInv, SchemaSound, AppliedOnce, AppliedInOrder
<1>2. ASSUME NEW r \in Replicas, NEW label \in Stages, Goto(r, label),
             UNCHANGED <<recorded, times, at>>,
             label \notin {"create", "creating", "check", "exec", "record", "commit"},
             label \in Down \/ pc[r] \notin Down \cup Migrating
      PROVE  SchemaInv'
  <2>1. label \notin {"exec", "record", "commit"} /\ label \notin Holding
    BY <1>2 DEF Holding
  <2>2. label \notin Down \cup Migrating => recorded = 1 .. Files
    BY <1>2 DEF SchemaInv, SchemaSound
  <2> QED
    BY <1>2, <2>1, <2>2, StageStep
<1>3. CASE UNCHANGED lifecycleVars
  BY <1>1, <1>3 DEF lifecycleVars, migrationVars
<1>4. ASSUME NEW r \in Replicas,
             \/ Start(r) \/ Migrate(r) \/ MigrateCancelled(r)
             \/ Die(r) /\ pc[r] \in Migrating
      PROVE  SchemaInv'
  BY <1>4, MigrateSchema DEF Start, Migrate, MigrateCancelled, Die, MigrateFails
<1>5. ASSUME NEW r \in Replicas,
             Signal(r) \/ Accept(r) \/ GoroutineStep(r)
      PROVE  SchemaInv'
  BY <1>1, <1>5 DEF Signal, Accept, GoroutineStep, Listen, Handle, Wake, Stop,
                    Lock, SyncReturns, migrationVars
<1>6. ASSUME NEW r \in Replicas,
             \/ Serve(r) \/ Shutdown(r) \/ Wait(r)
             \/ ShutdownTimesOut(r) \/ (Die(r) /\ pc[r] \notin Migrating)
      PROVE  SchemaInv'
  <2>1. UNCHANGED <<recorded, times, at>>
    BY <1>6 DEF Serve, Shutdown, Wait, ShutdownTimesOut, Die, MigrateFails,
                MigrateAborts, schema
  <2>2. \/ Goto(r, "off")
        \/ pc[r] = "migrated" /\ Goto(r, "serving")
        \/ pc[r] = "serving" /\ Goto(r, "shutdown")
        \/ pc[r] = "shutdown" /\ Goto(r, "polling")
        \/ pc[r] = "polling" /\ Goto(r, "realtime")
        \/ pc[r] = "realtime" /\ Goto(r, "exited")
    BY <1>6 DEF Serve, Shutdown, Wait, ShutdownTimesOut, Die, Exit, MigrateFails,
                MigrateAborts
  <2> QED
    BY <1>2, <2>1, <2>2 DEF Stages, Down, Migrating
<1> QED
  BY <1>3, <1>4, <1>5, <1>6 DEF LifecycleNext, MainStep

\* However many replicas migrate one database at once, each file is applied
\* once, in order, and a replica that goes on to serve finds them all.
THEOREM SchemaStaysSound == LifecycleSpec => []SchemaSound
<1>1. SchemaInv => SchemaSound
  BY DEF SchemaInv
<1> QED
  BY <1>1, InitSchema, NextSchema, PTL DEF LifecycleSpec

-----------------------------------------------------------------------------
(* Leaving                                                                 *)

Deeds == {"none", "idle", "handling", "waiting", "syncing", "stopped"}

LifeTypes ==
  /\ pc \in [Replicas -> Stages]
  /\ door \in [Replicas -> {"none", "starting", "open", "closed"}]
  /\ doing \in [Replicas -> [Goroutines -> Deeds]]
  /\ mutex \in [Replicas -> Goroutines \cup {"free"}]

\* What a replica has behind it at each stage of its life: before it serves no
\* goroutine runs, and each wait of the shutdown ends one for good.
LifeAt(r) ==
  /\ pc[r] \in Migrating \cup {"migrated"} =>
       doing[r] = Quiet /\ door[r] = "none" /\ mutex[r] = "free"
  /\ pc[r] \in Down => doing[r] = Quiet /\ door[r] # "open"
  /\ pc[r] \in {"shutdown", "polling", "realtime", "exited"} => door[r] = "closed"
  /\ pc[r] \in {"polling", "realtime", "exited"} => doing[r]["request"] = "idle"
  /\ pc[r] \in {"realtime", "exited"} => doing[r]["poller"] = "stopped"
  /\ pc[r] = "exited" => doing[r]["realtime"] = "stopped"
  /\ \A g \in Goroutines : mutex[r] = g => doing[r][g] = "syncing"

LifeInv == LifeTypes /\ \A r \in Replicas : LifeAt(r)

\* A step touches one replica only.
Touches(r) == \A q \in Replicas \ {r} : /\ pc'[q] = pc[q] /\ door'[q] = door[q]
                                        /\ doing'[q] = doing[q]
                                        /\ mutex'[q] = mutex[q]

LEMMA OneReplica ==
  ASSUME LifeInv, NEW r \in Replicas, LifeTypes', Touches(r), LifeAt(r)'
  PROVE  LifeInv'
BY DEF LifeInv, LifeAt, Touches

\* No goroutine runs at first.
LEMMA InitLife == LifecycleInit => LifeInv
BY DEF LifecycleInit, MigrationsInit, LifeInv, LifeTypes, LifeAt, Stages, Down,
       Migrating, Quiet, Goroutines, Deeds

\* What main does.
LEMMA MainLife ==
  ASSUME LifeInv, NEW r \in Replicas,
         \/ Start(r) \/ Die(r) \/ MainStep(r) \/ ShutdownTimesOut(r)
  PROVE  LifeInv'
<1>1. LifeTypes /\ LifeAt(r)
  BY DEF LifeInv
<1>2. ASSUME UNCHANGED <<door, doing, mutex>>,
             NEW label \in Stages, Goto(r, label),
             \/ pc[r] \in Migrating /\ label \in Migrating \cup {"migrated", "failed"}
             \/ pc[r] = "shutdown" /\ label = "polling" /\ doing[r]["request"] = "idle"
             \/ pc[r] = "polling" /\ label = "realtime" /\ doing[r]["poller"] = "stopped"
             \/ pc[r] = "realtime" /\ label = "exited"
                /\ doing[r]["realtime"] = "stopped"
      PROVE  LifeInv'
  <2>1. LifeTypes' /\ Touches(r) /\ pc'[r] = label
    BY <1>1, <1>2 DEF LifeTypes, Touches, Goto
  <2>2. LifeAt(r)'
    BY <1>1, <1>2, <2>1 DEF LifeAt, Migrating, Down
  <2> QED
    BY <2>1, <2>2, OneReplica
<1>3. CASE Start(r)
  <2>1. LifeTypes' /\ Touches(r)
    BY <1>1, <1>3 DEF Start, StartMigrate, LifeTypes, Touches, Goto, Stages,
                      Migrating, Quiet, Goroutines, Deeds
  <2>2. /\ pc'[r] = "create" /\ door'[r] = "none" /\ doing'[r] = Quiet
        /\ mutex'[r] = "free"
    BY <1>1, <1>3 DEF Start, StartMigrate, LifeTypes, Goto
  <2>3. LifeAt(r)'
    BY <2>2 DEF LifeAt, Goroutines, Migrating, Down
  <2> QED
    BY <2>1, <2>3, OneReplica
<1>4. CASE \/ ShutdownTimesOut(r) \/ (Die(r) /\ Exit(r))
  <2>0. Exit(r)
    BY <1>4 DEF ShutdownTimesOut
  <2>1. LifeTypes' /\ Touches(r)
    BY <1>1, <2>0 DEF Exit, LifeTypes, Touches, Goto, Stages, Down, Quiet,
                      Goroutines, Deeds
  <2>2. /\ pc'[r] = "off" /\ door'[r] = "none" /\ doing'[r] = Quiet
        /\ mutex'[r] = "free"
    BY <1>1, <2>0 DEF Exit, LifeTypes, Goto
  <2>3. LifeAt(r)'
    BY <2>2 DEF LifeAt, Goroutines, Migrating, Down
  <2> QED
    BY <2>1, <2>3, OneReplica
<1>5. CASE Migrate(r)
  <2>1. UNCHANGED <<door, doing, mutex>> /\ pc[r] \in Migrating
    BY <1>5 DEF Migrate, MigrateStep, CreateTable, IsApplied, Exec, Record, Commit,
                serverVars, Migrating
  <2>2. \E label \in {"creating", "check", "exec", "record", "commit", "migrated",
                      "failed"} : Goto(r, label)
    <3>1. CASE IsApplied(r)
      <4>1. pc = [pc EXCEPT ![r] = "check"]
        BY <1>1, <3>1 DEF IsApplied, LifeTypes
      <4> QED
        BY <3>1, <4>1 DEF IsApplied, Goto
    <3>2. CASE CreateTable(r) \/ Exec(r) \/ Record(r) \/ Commit(r)
      BY <3>2 DEF CreateTable, Exec, Record, Commit
    <3> QED
      BY <1>5, <3>1, <3>2 DEF Migrate, MigrateStep
  <2> QED
    BY <1>2, <2>1, <2>2 DEF Stages, Down, Migrating
<1>6. CASE MigrateCancelled(r) \/ (Die(r) /\ MigrateFails(r) /\ UNCHANGED serverVars)
  BY <1>2, <1>6 DEF MigrateCancelled, MigrateFails, MigrateAborts, serverVars, Stages,
                    Down
<1>7. CASE Serve(r)
  <2> DEFINE running == [poller |-> "waiting", realtime |-> "idle", request |-> "idle"]
  <2>1. running \in [Goroutines -> Deeds]
    BY DEF Goroutines, Deeds
  <2>2. doing' = [doing EXCEPT ![r] = running]
    BY <1>7 DEF Serve
  <2> HIDE DEF running
  <2>3. /\ doing' \in [Replicas -> [Goroutines -> Deeds]]
        /\ \A q \in Replicas \ {r} : doing'[q] = doing[q]
    BY <1>1, <2>1, <2>2 DEF LifeTypes
  <2>4. LifeTypes' /\ Touches(r)
    BY <1>1, <1>7, <2>3 DEF Serve, LifeTypes, Touches, Goto, Stages
  <2>5. pc'[r] = "serving" /\ mutex'[r] = "free"
    BY <1>1, <1>7 DEF Serve, LifeTypes, Goto, LifeAt
  <2>6. LifeAt(r)'
    BY <2>5 DEF LifeAt, Goroutines, Migrating, Down
  <2> QED
    BY <2>4, <2>6, OneReplica
<1>8. CASE Shutdown(r)
  <2>1. LifeTypes' /\ Touches(r)
    BY <1>1, <1>8 DEF Shutdown, LifeTypes, Touches, Goto, Stages
  <2>2. /\ pc'[r] = "shutdown" /\ door'[r] = "closed"
        /\ doing' = doing /\ mutex' = mutex
    BY <1>1, <1>8 DEF Shutdown, LifeTypes, Goto
  <2>3. LifeAt(r)'
    BY <1>1, <2>2 DEF LifeAt, Migrating, Down
  <2> QED
    BY <2>1, <2>3, OneReplica
<1>9. CASE Wait(r)
  BY <1>2, <1>9 DEF Wait, serverVars, Stages
<1> QED
  BY <1>3, <1>4, <1>5, <1>6, <1>7, <1>8, <1>9 DEF MainStep, Die

\* What a goroutine, a client or a signal does.
LEMMA GoroutineLife ==
  ASSUME LifeInv, NEW r \in Replicas, Signal(r) \/ Accept(r) \/ GoroutineStep(r)
  PROVE  LifeInv'
<1>1. LifeTypes /\ LifeAt(r)
  BY DEF LifeInv
<1>2. CASE Signal(r)
  BY <1>2 DEF Signal, migrationVars, LifeInv, LifeTypes, LifeAt
<1>3. CASE Listen(r)
  <2>1. /\ pc' = pc /\ pc[r] = "serving" /\ doing' = doing /\ mutex' = mutex
        /\ door' = [door EXCEPT ![r] = "open"]
    BY <1>3 DEF Listen, migrationVars
  <2>2. LifeTypes' /\ Touches(r) /\ door'[r] = "open"
    BY <1>1, <2>1 DEF LifeTypes, Touches
  <2>3. LifeAt(r)'
    BY <1>1, <2>1, <2>2 DEF LifeAt, Migrating, Down
  <2> QED
    BY <2>2, <2>3, OneReplica
<1>4. ASSUME NEW g \in Goroutines, NEW what \in Deeds, Do(r, g, what),
             UNCHANGED <<pc, door>>,
             doing[r][g] \notin {"none", "stopped"},
             g = "request" /\ doing[r][g] = "idle" => door[r] = "open",
             \/ /\ UNCHANGED mutex /\ doing[r][g] # "syncing" /\ what # "syncing"
             \/ /\ mutex[r] = "free" /\ mutex' = [mutex EXCEPT ![r] = g]
                /\ doing[r][g] = "waiting" /\ what = "syncing"
             \/ /\ doing[r][g] = "syncing" /\ what = "idle"
                /\ mutex' = [mutex EXCEPT ![r] = "free"]
      PROVE  LifeInv'
  <2>1. /\ doing' \in [Replicas -> [Goroutines -> Deeds]]
        /\ \A q \in Replicas \ {r} : doing'[q] = doing[q]
        /\ doing'[r] = [doing[r] EXCEPT ![g] = what]
    BY <1>1, <1>4 DEF Do, LifeTypes
  <2>2. /\ mutex' \in [Replicas -> Goroutines \cup {"free"}]
        /\ \A q \in Replicas \ {r} : mutex'[q] = mutex[q]
    BY <1>1, <1>4 DEF LifeTypes
  <2>3. LifeTypes' /\ Touches(r)
    BY <1>1, <1>4, <2>1, <2>2 DEF LifeTypes, Touches
  <2>4. pc[r] \notin Down \cup Migrating \cup {"migrated"}
    BY <1>1, <1>4 DEF LifeAt, Quiet
  <2>5. /\ doing'[r][g] = what
        /\ \A d \in Goroutines \ {g} : doing'[r][d] = doing[r][d]
    BY <1>1, <1>4, <2>1 DEF LifeTypes
  <2>6. \A d \in Goroutines : mutex'[r] = d => doing'[r][d] = "syncing"
    BY <1>1, <1>4, <2>5 DEF LifeAt, LifeTypes, Goroutines
  <2>7. LifeAt(r)'
    BY <1>1, <1>4, <2>4, <2>5, <2>6 DEF LifeAt, Goroutines
  <2> QED
    BY <2>3, <2>7, OneReplica
<1>5. CASE Accept(r)
  BY <1>4, <1>5 DEF Accept, migrationVars, Goroutines, Deeds
<1>6. CASE Handle(r)
  BY <1>4, <1>6 DEF Handle, migrationVars, Goroutines, Deeds
<1>7. CASE \E g \in Goroutines : Wake(r, g) \/ Stop(r, g)
  BY <1>4, <1>7 DEF Wake, Stop, migrationVars, Deeds
<1>8. CASE \E g \in Goroutines : Lock(r, g)
  BY <1>4, <1>8 DEF Lock, migrationVars, Deeds
<1>9. CASE \E g \in Goroutines : SyncReturns(r, g)
  BY <1>4, <1>9 DEF SyncReturns, migrationVars, Deeds
<1> QED
  BY <1>2, <1>3, <1>5, <1>6, <1>7, <1>8, <1>9 DEF GoroutineStep

\* Every step keeps what a replica has behind it.
LEMMA NextLife == LifeInv /\ [LifecycleNext]_lifecycleVars => LifeInv'
<1> SUFFICES ASSUME LifeInv, [LifecycleNext]_lifecycleVars PROVE LifeInv'
  OBVIOUS
<1>1. CASE UNCHANGED lifecycleVars
  BY <1>1 DEF lifecycleVars, migrationVars, serverVars, LifeInv, LifeTypes, LifeAt
<1> QED
  BY <1>1, MainLife, GoroutineLife DEF LifecycleNext

\* When main returns, nothing of the program uses the database any more: this is
\* what its two waits and Shutdown are for.
THEOREM ExitIsClean == LifecycleSpec => []CleanExit
<1>1. LifeInv => CleanExit
  BY DEF LifeInv, LifeTypes, LifeAt, CleanExit, Goroutines
<1> QED
  BY <1>1, InitLife, NextLife, PTL DEF LifecycleSpec

-----------------------------------------------------------------------------
(* Type correctness                                                        *)

\* What neither of the invariants above is about.
RestTypes == /\ table \in BOOLEAN /\ found \in [Replicas -> Nat]
             /\ starts \in Nat /\ faults \in Nat
             /\ signal \in [Replicas -> BOOLEAN]

\* How far the schema is can be counted.
LEMMA VersionsFinite ==
  ASSUME NEW S \in SUBSET (1 .. Files) PROVE IsFiniteSet(S) /\ Cardinality(S) \in Nat
<1>1. IsFiniteSet(1 .. Files)
  BY MigrationsAssumption, FS_Interval
<1> QED
  BY <1>1, FS_Subset, FS_CardinalityType

LEMMA ProgressType == ASSUME recorded \subseteq 1 .. Files PROVE Progress \in Nat
<1>1. Cardinality(recorded) \in Nat
  BY VersionsFinite
<1> QED
  BY <1>1 DEF Progress

\* Every step keeps the types of the rest.
LEMMA NextRest ==
  SchemaInv /\ RestTypes /\ [LifecycleNext]_lifecycleVars => RestTypes'
<1> SUFFICES ASSUME SchemaInv, RestTypes, [LifecycleNext]_lifecycleVars
             PROVE  RestTypes'
  OBVIOUS
<1> USE DEF RestTypes, schema, serverVars, migrationVars
<1>1. ASSUME NEW r \in Replicas, Start(r) PROVE RestTypes'
  <2>1. Progress \in Nat
    BY ProgressType DEF SchemaInv, MigrateInv
  <2> QED
    BY <1>1, <2>1 DEF Start, StartMigrate
<1>2. ASSUME NEW r \in Replicas, MigrateAborts(r), UNCHANGED serverVars
      PROVE  RestTypes'
  <2>1. CASE UNCHANGED table
    BY <1>2, <2>1 DEF MigrateAborts
  <2>2. CASE table' = TRUE
    BY <1>2, <2>2 DEF MigrateAborts
  <2> QED
    BY <1>2, <2>1, <2>2 DEF MigrateAborts, Unanswered, CommitFile
<1>3. ASSUME NEW r \in Replicas, MainStep(r) PROVE RestTypes'
  <2>1. CASE Migrate(r)
    BY <2>1 DEF Migrate, MigrateStep, CreateTable, IsApplied, Exec, Record, Commit,
                CommitFile
  <2>2. CASE MigrateCancelled(r) \/ Serve(r) \/ Shutdown(r) \/ Wait(r)
    BY <1>2, <2>2 DEF MigrateCancelled, Serve, Shutdown, Wait
  <2> QED
    BY <1>3, <2>1, <2>2 DEF MainStep
<1>4. ASSUME NEW r \in Replicas, Signal(r) PROVE RestTypes'
  BY <1>4 DEF Signal
<1>5. ASSUME NEW r \in Replicas, Accept(r) \/ GoroutineStep(r) PROVE RestTypes'
  BY <1>5 DEF Accept, GoroutineStep, Listen, Handle, Wake, Stop, Lock, SyncReturns
<1>6. ASSUME NEW r \in Replicas, Die(r) \/ ShutdownTimesOut(r) PROVE RestTypes'
  BY <1>2, <1>6 DEF Die, MigrateFails, ShutdownTimesOut
<1>7. CASE UNCHANGED lifecycleVars
  BY <1>7 DEF lifecycleVars
<1> QED
  BY <1>1, <1>3, <1>4, <1>5, <1>6, <1>7 DEF LifecycleNext

\* The variables of the migrations and of the server's life keep their types.
THEOREM LifecycleTypeCorrect == LifecycleSpec => []LifecycleTypeOK
<1>1. LifecycleInit => RestTypes
  BY MigrationsAssumption DEF LifecycleInit, MigrationsInit, RestTypes
<1>2. SchemaInv /\ LifeInv /\ RestTypes => LifecycleTypeOK
  BY DEF SchemaInv, MigrateInv, LifeInv, LifeTypes, RestTypes, LifecycleTypeOK,
         Stages, Deeds
<1> QED
  BY <1>1, <1>2, InitSchema, NextSchema, InitLife, NextLife, NextRest, PTL
     DEF LifecycleSpec

-----------------------------------------------------------------------------
(* Somebody gets on                                                        *)

\* A replica that finds another's table or file in its way has seen the schema get
\* further since it began.  (The victim of a deadlock need not have: another one is
\* then still in its file, and not failed.)
ProgressInv ==
  /\ \A r \in Replicas : pc[r] \in Migrating => found[r] <= Progress
  /\ \A r \in Replicas : pc[r] = "creating" /\ table => found[r] < Progress
  /\ \A r \in Replicas :
       pc[r] \in {"exec", "record"} /\ at[r] \in recorded => found[r] < Progress
  /\ SomebodyGetsOn

\* What a step may do to the schema: nothing, or get it further.
Grows == /\ Progress \in Nat /\ Progress' \in Nat
         /\ \/ UNCHANGED <<table, recorded>>
            \/ Progress < Progress'

LEMMA SchemaGrows ==
  ASSUME SchemaInv, RestTypes, [LifecycleNext]_lifecycleVars
  PROVE  Grows
<1>1. Progress \in Nat /\ Progress' \in Nat
  <2>1. recorded \subseteq 1 .. Files /\ recorded' \subseteq 1 .. Files
    BY NextSchema DEF SchemaInv, MigrateInv
  <2>2. Cardinality(recorded) \in Nat /\ Cardinality(recorded') \in Nat
    BY <2>1, VersionsFinite
  <2> QED
    BY <2>2 DEF Progress
<1>2. CASE UNCHANGED <<table, recorded>>
  BY <1>1, <1>2 DEF Grows
<1>3. CASE ~table /\ table' = TRUE /\ recorded' = recorded
  <2>1. Cardinality(recorded) \in Nat
    BY VersionsFinite DEF SchemaInv, MigrateInv
  <2>2. Progress < Progress'
    BY <1>3, <2>1 DEF Progress
  <2> QED
    BY <1>1, <2>2 DEF Grows
<1>4. ASSUME NEW r \in Replicas, pc[r] = "commit", CommitFile(r) PROVE Grows
  <2>1. /\ at[r] \notin recorded /\ recorded \subseteq 1 .. Files
        /\ recorded' = recorded \cup {at[r]} /\ table' = table
    BY <1>4 DEF SchemaInv, MigrateInv, CommitFile
  <2>2. IsFiniteSet(recorded)
    BY <2>1, VersionsFinite
  <2>3. Cardinality(recorded') = Cardinality(recorded) + 1
    BY <2>1, <2>2, FS_AddElement
  <2>4. Cardinality(recorded) \in Nat
    BY <2>2, FS_CardinalityType
  <2>5. Progress < Progress'
    BY <2>1, <2>3, <2>4 DEF Progress
  <2> QED
    BY <1>1, <2>5 DEF Grows
<1>5. ASSUME NEW r \in Replicas, CreateTable(r) PROVE Grows
  BY <1>2, <1>3, <1>5 DEF CreateTable, RestTypes
<1>6. ASSUME NEW r \in Replicas, Migrate(r) \/ MigrateCancelled(r) \/ Die(r)
      PROVE  Grows
  <2>1. ASSUME MigrateAborts(r) PROVE Grows
    BY <1>2, <1>3, <1>4, <2>1 DEF MigrateAborts, Unanswered, schema
  <2> QED
    BY <1>2, <1>4, <1>5, <1>6, <2>1 DEF Migrate, MigrateStep, IsApplied, Exec, Record,
       Commit, MigrateCancelled, Die, MigrateFails, schema
<1>7. ASSUME NEW r \in Replicas,
             \/ Start(r) \/ Signal(r) \/ Accept(r) \/ GoroutineStep(r)
             \/ Serve(r) \/ Shutdown(r) \/ Wait(r)
             \/ ShutdownTimesOut(r) \/ UNCHANGED lifecycleVars
      PROVE  UNCHANGED <<table, recorded>>
  BY <1>7 DEF Start, StartMigrate, Signal, Accept, GoroutineStep, Listen, Handle,
     Wake, Stop, Lock, SyncReturns, Serve, Shutdown, Wait,
     ShutdownTimesOut, lifecycleVars, migrationVars, schema
<1>8. UNCHANGED lifecycleVars => UNCHANGED <<table, recorded>>
  BY DEF lifecycleVars, migrationVars
<1> QED
  BY <1>2, <1>6, <1>7, <1>8 DEF LifecycleNext, MainStep

\* A replica's step, as far as the progress of the schema is about it.
Moves(r, label) ==
  Goto(r, label) /\ found' = found /\ at' = at /\ faults' = faults

\* Where a replica that has just moved stands.
LEMMA NextProgress ==
  SchemaInv /\ RestTypes /\ ProgressInv /\ [LifecycleNext]_lifecycleVars
    => ProgressInv'
<1> SUFFICES ASSUME SchemaInv, RestTypes, ProgressInv,
                    [LifecycleNext]_lifecycleVars
             PROVE  ProgressInv'
  OBVIOUS
<1>1. Grows
  BY SchemaGrows
<1>2. /\ pc \in [Replicas -> Stages] /\ at \in [Replicas -> 1 .. Files + 1]
      /\ found \in [Replicas -> Nat] /\ faults \in Nat
  BY DEF SchemaInv, MigrateInv, RestTypes
<1> DEFINE Inv(r) ==
      /\ pc[r] \in Migrating => found[r] <= Progress
      /\ pc[r] = "creating" /\ table => found[r] < Progress
      /\ pc[r] \in {"exec", "record"} /\ at[r] \in recorded => found[r] < Progress
<1>3. \A r \in Replicas : Inv(r)
  BY DEF ProgressInv
<1>4. ASSUME NEW q \in Replicas, pc'[q] = pc[q], found'[q] = found[q], at'[q] = at[q]
      PROVE  Inv(q)'
  <2>1. CASE UNCHANGED <<table, recorded>>
    <3>1. Progress' = Progress
      BY <2>1 DEF Progress
    <3> QED
      BY <1>3, <1>4, <2>1, <3>1
  <2>2. CASE Progress < Progress'
    <3>1. found[q] \in Nat
      BY <1>2
    <3>2. pc[q] \in Migrating => found'[q] < Progress'
      BY <1>1, <1>3, <1>4, <2>2, <3>1 DEF Grows
    <3>3. {"creating", "exec", "record"} \subseteq Migrating
      BY DEF Migrating
    <3> QED
      BY <1>1, <1>4, <2>2, <3>1, <3>2, <3>3 DEF Grows
  <2> QED
    BY <1>1, <2>1, <2>2 DEF Grows
<1>5. ASSUME NEW r \in Replicas,
             \A q \in Replicas \ {r} : /\ pc'[q] = pc[q] /\ found'[q] = found[q]
                                       /\ at'[q] = at[q],
             Inv(r)', SomebodyGetsOn'
      PROVE  ProgressInv'
  BY <1>4, <1>5 DEF ProgressInv
<1>6. ASSUME pc' = pc, found' = found, at' = at, faults' = faults PROVE ProgressInv'
  <2>1. \A q \in Replicas : Inv(q)'
    BY <1>4, <1>6
  <2>2. SomebodyGetsOn'
    <3> SUFFICES ASSUME faults = 0, Replicas # {},
                        \A r \in Replicas : pc[r] = "failed"
                 PROVE  \E r \in Replicas : found[r] < Progress'
      BY <1>6 DEF SomebodyGetsOn
    <3>1. PICK r \in Replicas : found[r] < Progress
      BY DEF ProgressInv, SomebodyGetsOn
    <3>2. Progress' = Progress \/ Progress < Progress'
      BY <1>1 DEF Grows, Progress
    <3> QED
      BY <1>1, <1>2, <3>1, <3>2 DEF Grows
  <2> QED
    BY <2>1, <2>2 DEF ProgressInv
<1>7. ASSUME NEW r \in Replicas, faults' > 0, found' = found, at' = at,
             Goto(r, "failed")
      PROVE  ProgressInv'
  <2>1. Inv(r)' /\ SomebodyGetsOn'
    BY <1>2, <1>7 DEF Goto, SomebodyGetsOn, Migrating
  <2> QED
    BY <1>2, <1>5, <1>7, <2>1 DEF Goto
<1>8. ASSUME NEW r \in Replicas, NEW label \in Stages \ {"failed"}, Goto(r, label),
             \A q \in Replicas \ {r} : found'[q] = found[q] /\ at'[q] = at[q],
             label \in Migrating => found'[r] <= Progress',
             label = "creating" => ~table',
             label \in {"exec", "record"} => at'[r] \notin recorded'
                                             \/ found'[r] < Progress'
      PROVE  ProgressInv'
  <2>1. pc'[r] = label
    BY <1>2, <1>8 DEF Goto
  <2>2. Inv(r)'
    BY <1>8, <2>1
  <2>3. SomebodyGetsOn'
    BY <1>8, <2>1 DEF SomebodyGetsOn
  <2> QED
    BY <1>2, <1>5, <1>8, <2>2, <2>3 DEF Goto
<1>9. ASSUME NEW r \in Replicas, Goto(r, "failed"), found' = found, at' = at,
             UNCHANGED <<table, recorded>>,
             \/ found[r] < Progress
             \/ \E q \in Replicas \ {r} : pc[q] = "exec"
      PROVE  ProgressInv'
  <2>1. Progress' = Progress
    BY <1>9 DEF Progress
  <2>2. Inv(r)' /\ SomebodyGetsOn'
    BY <1>2, <1>9, <2>1 DEF Goto, SomebodyGetsOn, Migrating
  <2> QED
    BY <1>2, <1>5, <1>9, <2>2 DEF Goto
<1> USE DEF schema
<1>10. ASSUME NEW r \in Replicas, Migrate(r) PROVE ProgressInv'
  <2>0. /\ pc[r] \in Migrating => found[r] <= Progress
        /\ {"creating", "exec", "record"} \subseteq Migrating
        /\ {"creating", "check", "exec", "record", "commit", "migrated"}
             \subseteq Stages \ {"failed"}
        /\ "migrated" \notin Migrating
    BY DEF ProgressInv, Migrating, Stages
  <2>1. CASE CreateTable(r)
    <3>0. found' = found /\ at' = at /\ recorded' = recorded /\ pc[r] \in Migrating
      BY <2>1 DEF CreateTable, Migrating
    <3>1. CASE Goto(r, "failed") /\ table /\ pc[r] = "creating" /\ UNCHANGED table
      BY <1>9, <3>0, <3>1 DEF ProgressInv
    <3>2. CASE Goto(r, "creating") /\ ~table /\ UNCHANGED table
      <4>1. Progress' = Progress
        BY <3>0, <3>2 DEF Progress
      <4> QED
        BY <1>8, <2>0, <3>0, <3>2, <4>1
    <3>3. CASE Goto(r, "check")
      <4>1. found[r] <= Progress'
        BY <1>1, <1>2, <2>0, <3>0 DEF Grows, Progress
      <4> QED
        BY <1>8, <2>0, <3>0, <3>3, <4>1
    <3> QED
      BY <2>1, <3>1, <3>2, <3>3 DEF CreateTable
  <2>2. CASE IsApplied(r)
    <3>1. /\ pc[r] = "check" /\ found' = found /\ UNCHANGED <<table, recorded>>
          /\ found[r] <= Progress /\ Progress' = Progress
      BY <2>0, <2>2 DEF IsApplied, Progress, Migrating
    <3>2. CASE Goto(r, "migrated") /\ UNCHANGED at
      BY <1>8, <2>0, <3>1, <3>2
    <3>3. CASE at' = [at EXCEPT ![r] = @ + 1] /\ UNCHANGED pc
      <4>1. Goto(r, "check")
        BY <1>2, <3>1, <3>3 DEF Goto
      <4>2. \A q \in Replicas \ {r} : at'[q] = at[q]
        BY <1>2, <3>3
      <4> QED
        BY <1>8, <2>0, <3>1, <4>1, <4>2
    <3>4. CASE at[r] \in 1 .. Files \ recorded /\ Goto(r, "exec") /\ UNCHANGED at
      BY <1>8, <2>0, <3>1, <3>4
    <3> QED
      BY <2>2, <3>2, <3>3, <3>4 DEF IsApplied
  <2>3. CASE Exec(r)
    <3>1. /\ pc[r] = "exec" /\ found' = found /\ at' = at
          /\ UNCHANGED <<table, recorded>>
          /\ found[r] <= Progress /\ Progress' = Progress
      BY <2>0, <2>3 DEF Exec, Progress, Migrating
    <3>2. CASE Goto(r, "record")
      <4>1. at[r] \notin recorded \/ found[r] < Progress
        BY <3>1 DEF ProgressInv
      <4> QED
        BY <1>8, <2>0, <3>1, <3>2, <4>1
    <3>3. CASE at[r] \in recorded /\ Goto(r, "failed")
      BY <1>9, <3>1, <3>3 DEF ProgressInv
    <3>4. CASE (\E q \in Replicas \ {r} : pc[q] = "exec") /\ Goto(r, "failed")
      BY <1>9, <3>1, <3>4
    <3> QED
      BY <2>3, <3>2, <3>3, <3>4 DEF Exec
  <2>4. CASE Record(r)
    <3>1. /\ pc[r] = "record" /\ found' = found /\ at' = at
          /\ UNCHANGED <<table, recorded>>
          /\ found[r] <= Progress /\ Progress' = Progress
      BY <2>0, <2>4 DEF Record, Progress, Migrating
    <3>2. CASE at[r] \in recorded /\ Goto(r, "failed")
      BY <1>9, <3>1, <3>2 DEF ProgressInv
    <3>3. CASE Goto(r, "commit")
      BY <1>8, <2>0, <3>1, <3>3
    <3> QED
      BY <2>4, <3>2, <3>3 DEF Record
  <2>5. CASE Commit(r)
    <3>1. /\ pc[r] = "commit" /\ found' = found /\ Goto(r, "check")
          /\ \A q \in Replicas \ {r} : at'[q] = at[q]
      BY <1>2, <2>5 DEF Commit
    <3>2. found[r] <= Progress'
      BY <1>1, <1>2, <2>0, <3>1 DEF Grows, Progress, Migrating
    <3> QED
      BY <1>8, <2>0, <3>1, <3>2
  <2> QED
    BY <1>10, <2>1, <2>2, <2>3, <2>4, <2>5 DEF Migrate, MigrateStep
<1>11. ASSUME NEW r \in Replicas, Start(r) PROVE ProgressInv'
  <2>1. /\ Goto(r, "create") /\ Progress' = Progress /\ found'[r] = Progress
        /\ \A q \in Replicas \ {r} : found'[q] = found[q] /\ at'[q] = at[q]
    BY <1>2, <1>11 DEF Start, StartMigrate, Progress
  <2>2. Progress <= Progress /\ "create" \in Stages \ {"failed"}
    BY <1>1 DEF Grows, Stages, Migrating
  <2> QED
    BY <1>8, <2>1, <2>2
<1>12. ASSUME NEW r \in Replicas,
              MigrateCancelled(r) \/ (Die(r) /\ MigrateFails(r))
       PROVE  ProgressInv'
  BY <1>2, <1>7, <1>12 DEF MigrateCancelled, Die, MigrateFails, MigrateAborts
<1>13. ASSUME NEW r \in Replicas,
              \/ Serve(r) \/ Shutdown(r) \/ Wait(r) \/ ShutdownTimesOut(r)
              \/ Die(r) /\ Exit(r) /\ UNCHANGED <<schema, at, found>>
       PROVE  ProgressInv'
  <2>1. \E label \in {"serving", "shutdown", "polling", "realtime", "exited", "off"} :
          Goto(r, label)
    BY <1>13 DEF Serve, Shutdown, Wait, ShutdownTimesOut, Exit
  <2>2. \A q \in Replicas \ {r} : found'[q] = found[q] /\ at'[q] = at[q]
    BY <1>2, <1>13 DEF Serve, Shutdown, Wait, ShutdownTimesOut
  <2> QED
    BY <1>8, <2>1, <2>2 DEF Stages, Down, Migrating
<1>14. ASSUME NEW r \in Replicas, Signal(r) \/ Accept(r) \/ GoroutineStep(r)
       PROVE  ProgressInv'
  BY <1>6, <1>14 DEF Signal, Accept, GoroutineStep, Listen, Handle, Wake, Stop, Lock,
                     SyncReturns, migrationVars
<1>15. CASE UNCHANGED lifecycleVars
  BY <1>6, <1>15 DEF lifecycleVars, migrationVars
<1> QED
  BY <1>10, <1>11, <1>12, <1>13, <1>14, <1>15 DEF LifecycleNext, MainStep, Die

\* However many replicas migrate at once: if they all fail, and nothing but one
\* another is to blame, one of them has seen the schema get further.
THEOREM FailuresMakeProgress == LifecycleSpec => []SomebodyGetsOn
<1>1. LifecycleInit => RestTypes
  BY MigrationsAssumption DEF LifecycleInit, MigrationsInit, RestTypes
<1>2. LifecycleInit => ProgressInv
  BY DEF LifecycleInit, MigrationsInit, ProgressInv, SomebodyGetsOn, Migrating
<1>3. ProgressInv => SomebodyGetsOn
  BY DEF ProgressInv
<1> QED
  BY <1>1, <1>2, <1>3, InitSchema, NextSchema, NextRest, NextProgress, PTL
     DEF LifecycleSpec
=============================================================================
