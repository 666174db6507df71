----------------------------- MODULE Migrations -----------------------------
(***************************************************************************)
(* The schema migrations (internal/db/migrations.go), which every replica  *)
(* of the server runs at startup over one database: it creates the table   *)
(* schema_migrations if there is none, then, for each embedded file in the *)
(* order of the names, asks whether its version is recorded and, if not,   *)
(* executes its SQL and records it in one transaction.  Any error ends the *)
(* program (main, os.Exit(1)).                                             *)
(*                                                                         *)
(* Nothing but PostgreSQL coordinates the replicas.  The files create and  *)
(* replace tables, functions and triggers: two transactions that execute   *)
(* them wait for each other's catalog entries and table locks, which they  *)
(* hold until they end, and take in different orders in different files.   *)
(***************************************************************************)
EXTENDS Naturals, FiniteSets

CONSTANTS Replicas,
          Files,      \* how many migrations are embedded; they are 1 .. Files
          MaxStarts,  \* bound: starts of the program, over all replicas
          MaxFaults   \* bound: statements that fail, deaths of a process

ASSUME MigrationsAssumption ==
  Files \in Nat /\ MaxStarts \in Nat /\ MaxFaults \in Nat

VARIABLES table,     \* schema_migrations exists
          recorded,  \* the versions it holds
          times,     \* per file, the transactions with its SQL that committed
          pc,        \* what each replica is about to do
          at,        \* the file each replica has come to
          found,     \* how far the schema was when the replica began to migrate;
                     \* forgotten once it serves
          starts,
          faults

schema == <<table, recorded, times>>
migrationVars == <<table, recorded, times, pc, at, found, starts, faults>>

\* "failed": the migrations did, and the program ended.
Down == {"off", "failed"}
Migrating == {"create", "creating", "check", "exec", "record", "commit"}

\* How far the schema is.
Progress == Cardinality(recorded) + (IF table THEN 1 ELSE 0)

\* The database holds whatever an earlier version of the program left in it.
MigrationsInit ==
  /\ table \in BOOLEAN
  /\ \E n \in 0 .. Files : recorded = 1 .. n
  /\ recorded # {} => table
  /\ times = [f \in 1 .. Files |-> IF f \in recorded THEN 1 ELSE 0]
  /\ pc = [r \in Replicas |-> "off"]
  /\ at = [r \in Replicas |-> 1]
  /\ found = [r \in Replicas |-> 0]
  /\ starts = 0 /\ faults = 0

Goto(r, label) == pc' = [pc EXCEPT ![r] = label]

-----------------------------------------------------------------------------
(* Migrate                                                                 *)

\* The database answers the ping of OpenPostgres.
StartMigrate(r) ==
  /\ pc[r] \in Down /\ starts < MaxStarts
  /\ starts' = starts + 1
  /\ at' = [at EXCEPT ![r] = 1]
  /\ found' = [found EXCEPT ![r] = Progress]
  /\ Goto(r, "create")
  /\ UNCHANGED <<schema, faults>>

\* Mutant: CREATE TABLE without IF NOT EXISTS.
CreateTableAlways(r) ==
  /\ pc[r] \in {"create", "creating"}
  /\ Goto(r, IF table THEN "failed" ELSE "check")
  /\ table' = TRUE
  /\ UNCHANGED <<recorded, times, at, found, starts, faults>>

\* CREATE TABLE IF NOT EXISTS: once past the test, the statement fails when
\* another replica's has created the table in the meantime.
CreateTable(r) ==
  /\ \/ pc[r] = "create" /\ table /\ Goto(r, "check") /\ UNCHANGED table
     \/ pc[r] = "create" /\ ~table /\ Goto(r, "creating") /\ UNCHANGED table
     \/ pc[r] = "creating" /\ ~table /\ Goto(r, "check") /\ table' = TRUE
     \/ pc[r] = "creating" /\ table /\ Goto(r, "failed") /\ UNCHANGED table
  /\ UNCHANGED <<recorded, times, at, found, starts, faults>>

\* Mutant: the loop goes one file too far.
IsAppliedPastEnd(r) ==
  /\ pc[r] = "check"
  /\ \/ at[r] > Files + 1 /\ Goto(r, "migrated") /\ UNCHANGED at
     \/ /\ at[r] \in recorded
        /\ at' = [at EXCEPT ![r] = @ + 1] /\ UNCHANGED pc
     \/ /\ at[r] \in 1 .. Files + 1 \ recorded
        /\ Goto(r, "exec") /\ UNCHANGED at
  /\ UNCHANGED <<schema, found, starts, faults>>

\* isApplied, and BeginTx if it is not; after the last file Migrate returns.
IsApplied(r) ==
  /\ pc[r] = "check"
  /\ \/ at[r] > Files /\ Goto(r, "migrated") /\ UNCHANGED at
     \/ /\ at[r] \in recorded
        /\ at' = [at EXCEPT ![r] = @ + 1] /\ UNCHANGED pc
     \/ /\ at[r] \in 1 .. Files \ recorded
        /\ Goto(r, "exec") /\ UNCHANGED at
  /\ UNCHANGED <<schema, found, starts, faults>>

\* Another replica's transaction holds the locks.
Locked(r) == \E q \in Replicas \ {r} : pc[q] \in {"record", "commit"}

\* The file's statements.  They wait for a transaction that has executed others;
\* one that has waited for the same file to be committed may find its entries
\* there and fail, one that begins afterwards replaces them; and two that
\* execute different files may wait for each other until PostgreSQL ends one.
Exec(r) ==
  /\ pc[r] = "exec"
  /\ \/ ~Locked(r) /\ Goto(r, "record")
     \/ ~Locked(r) /\ at[r] \in recorded /\ Goto(r, "failed")
     \/ /\ \E q \in Replicas \ {r} : pc[q] = "exec" /\ at[q] # at[r]
        /\ Goto(r, "failed")
  /\ UNCHANGED <<schema, at, found, starts, faults>>

\* Mutant: schema_migrations has no primary key.
RecordNoKey(r) ==
  /\ pc[r] = "record"
  /\ Goto(r, "commit")
  /\ UNCHANGED <<schema, at, found, starts, faults>>

\* INSERT INTO schema_migrations: the primary key refuses a second record, and
\* the deferred Rollback undoes the file's statements.
Record(r) ==
  /\ pc[r] = "record"
  /\ Goto(r, IF at[r] \in recorded THEN "failed" ELSE "commit")
  /\ UNCHANGED <<schema, at, found, starts, faults>>

\* The file's statements and the record become visible together.
CommitFile(r) ==
  /\ recorded' = recorded \cup {at[r]}
  /\ times' = [times EXCEPT ![at[r]] = @ + 1]
  /\ UNCHANGED table

Commit(r) ==
  /\ pc[r] = "commit"
  /\ CommitFile(r)
  /\ at' = [at EXCEPT ![r] = @ + 1]
  /\ Goto(r, "check")
  /\ UNCHANGED <<found, starts, faults>>

\* What a statement may have done whose answer never came: nothing, or all of it.
Unanswered(r) ==
  \/ UNCHANGED schema
  \/ pc[r] = "creating" /\ ~table /\ table' = TRUE /\ UNCHANGED <<recorded, times>>
  \/ pc[r] = "commit" /\ CommitFile(r)

\* A statement ends in an error, and with it the program.
MigrateAborts(r) ==
  /\ pc[r] \in Migrating
  /\ faults' = faults + 1
  /\ Unanswered(r)
  /\ Goto(r, "failed")
  /\ UNCHANGED <<at, found, starts>>

\* The connection is lost, or the process dies.
MigrateFails(r) == faults < MaxFaults /\ MigrateAborts(r)

MigrateStep(r) ==
  CreateTable(r) \/ IsApplied(r) \/ Exec(r) \/ Record(r) \/ Commit(r)

MigrationsNext ==
  \E r \in Replicas : StartMigrate(r) \/ MigrateStep(r) \/ MigrateFails(r)

MigrationsSpec == MigrationsInit /\ [][MigrationsNext]_migrationVars

-----------------------------------------------------------------------------
(* Properties                                                              *)

\* However many replicas start at once, and wherever one fails: a file's SQL is
\* in force exactly when its version is recorded, no file is committed twice, the
\* files are committed in order, and a replica that goes on to serve finds them
\* all (Migrate, apply).
AppliedOnce ==
  \A f \in 1 .. Files : times[f] = IF f \in recorded THEN 1 ELSE 0

AppliedInOrder == \A f \in recorded : 1 .. f \subseteq recorded

SchemaSound ==
  /\ AppliedOnce /\ AppliedInOrder
  /\ \A r \in Replicas : pc[r] \notin Down \cup Migrating => recorded = 1 .. Files

\* Replicas that start together may fail for no other reason than that, even all
\* of them; but then the schema has got further since one of them started, so
\* that starting again gets through in the end.
SomebodyGetsOn ==
  (faults = 0 /\ Replicas # {} /\ \A r \in Replicas : pc[r] = "failed")
    => \E r \in Replicas : found[r] < Progress
=============================================================================
