--------------------------- MODULE FlagRepository ---------------------------
(***************************************************************************)
(* The control plane's repository (internal/db/repository.go) over the     *)
(* tables flags, variants and rules.                                       *)
(*                                                                         *)
(* The three tables hold, for one key, what one transaction wrote, so the  *)
(* database is a function "row" from keys to the last committed flag.  A   *)
(* row carries the number of the commit that wrote it ("rev", which the    *)
(* program does not store: it is PostgreSQL's order of commits), the       *)
(* program's own version column and the payload.  A key with no flag holds *)
(* NoConfig; its rev is then that of the commit that deleted it.           *)
(*                                                                         *)
(* Several processes call the repository at once: HTTP handlers, the       *)
(* poller and the listener.  Writers use a transaction on one connection   *)
(* of a bounded pool; readers use one autocommit SELECT per table, each of *)
(* which sees the rows committed when it runs.                             *)
(***************************************************************************)
EXTENDS Naturals, FiniteSets

CONSTANTS Keys,       \* flag keys
          Names,      \* variant names
          Configs,    \* the payloads a client may send, valid or not
          NoConfig,   \* the payload of a key that has no flag
          NoKey,      \* an empty key in a request body
          Procs,      \* the goroutines that call the repository
          PoolSize,   \* SetMaxOpenConns (10 in postgres.go)
          MaxWrites,  \* bound: no write request starts after so many commits
          MaxFaults   \* bound: statements that fail (lost connection, timeout)

Config == [default : Names, variants : SUBSET Names, rules : SUBSET Names]

ASSUME RepositoryAssumption ==
  /\ Configs \subseteq Config
  /\ NoConfig \notin Config
  /\ NoKey \notin Keys
  /\ IsFiniteSet(Procs)
  /\ PoolSize \in Nat \ {0}
  /\ MaxWrites \in Nat
  /\ MaxFaults \in Nat

VARIABLES row,      \* [Keys -> Row]: the committed contents of the tables
          commits,  \* how many transactions changed a flag so far
          pc,       \* what each process is about to do
          key,      \* the key of the call each process is making
          cfg,      \* the payload of the call
          ver,      \* the version the call will write
          todo,     \* the keys a load has still to read
          cur,      \* the key a load is reading
          seen,     \* what the load read, key by key
          faults    \* statements that failed so far

dbVars == <<row, commits>>
callVars == <<key, cfg, ver>>
loadVars == <<todo, cur, seen>>
vars == <<row, commits, pc, key, cfg, ver, todo, cur, seen, faults>>

Row == [rev : Nat, version : Nat, cfg : Configs \cup {NoConfig}]

\* A flag as loadFlag assembles it: three SELECTs, hence three rows that need
\* not be the same one.
Seen == [head : Row, variants : Row, rules : Row]

NoRow == [rev |-> 0, version |-> 0, cfg |-> NoConfig]
SeenOf(r) == [head |-> r, variants |-> r, rules |-> r]
Present(r) == r.cfg # NoConfig

Results == {"written", "loaded", "notfound", "invalid", "failed"}
Statements == {"insert", "inserted", "select", "locked", "deleting",
               "list", "row", "variants", "rules"}
Labels == {"idle", "create", "update", "delete"} \cup Statements \cup Results

-----------------------------------------------------------------------------
(* Validation: what ValidateFlag asks of the default variant and of the    *)
(* rules' variants.  Weights come from one SELECT and one transaction, so  *)
(* no interleaving can make them disagree; FlagEval covers them.           *)

ValidateFlag(default, variants, rules) ==
  default \in variants /\ rules \subseteq variants

Valid(c) == ValidateFlag(c.default, c.variants, c.rules)

\* The rows the SELECTs on variants and on rules return.
VariantNames(s) == IF Present(s.variants) THEN s.variants.cfg.variants ELSE {}
RuleVariants(s) == IF Present(s.rules) THEN s.rules.cfg.rules ELSE {}

-----------------------------------------------------------------------------
(* The pool and the row locks                                              *)

\* Mutant: a load keeps the rows of its first SELECT open, and so a connection.
HoldsConnRowsOpen(p) ==
  pc[p] \in {"insert", "inserted", "select", "locked", "deleting",
             "row", "variants", "rules"}

\* A transaction, or a DELETE that waits for a row lock, keeps its connection.
\* A SELECT of a load gives its own back before the next one starts: its rows
\* are read to the end, which closes them.
HoldsConn(p) ==
  pc[p] \in {"insert", "inserted", "select", "locked", "deleting"}

FreeConn == Cardinality({p \in Procs : HoldsConn(p)}) < PoolSize

\* Another transaction inserted k or locked its row, and has not ended.
RowLocked(p, k) ==
  \E q \in Procs \ {p} : key[q] = k /\ pc[q] \in {"inserted", "locked"}

-----------------------------------------------------------------------------
(* Helpers of the actions                                                  *)

Goto(p, label) == pc' = [pc EXCEPT ![p] = label]

Call(p, k, c, v) == /\ key' = [key EXCEPT ![p] = k]
                    /\ cfg' = [cfg EXCEPT ![p] = c]
                    /\ ver' = [ver EXCEPT ![p] = v]

\* A commit that leaves k with payload c at version v.
Commit(k, v, c) ==
  /\ row' = [row EXCEPT ![k] = [rev |-> commits + 1, version |-> v, cfg |-> c]]
  /\ commits' = commits + 1

MayWrite == commits < MaxWrites

-----------------------------------------------------------------------------
(* CreateFlag                                                              *)

\* The payload is validated before the transaction begins.
CreateFlag(p, k, c) ==
  /\ pc[p] = "idle" /\ MayWrite
  /\ Call(p, k, c, 1)
  /\ Goto(p, IF Valid(c) THEN "create" ELSE "invalid")
  /\ UNCHANGED <<dbVars, loadVars, faults>>

\* BeginTx waits for a connection of the pool.
BeginTx(p) ==
  /\ FreeConn
  /\ \/ pc[p] = "create" /\ Goto(p, "insert")
     \/ pc[p] = "update" /\ Goto(p, "select")
     \/ pc[p] = "delete" /\ Goto(p, "deleting")
  /\ UNCHANGED <<dbVars, callVars, loadVars, faults>>

\* Mutant: insertFlag without the primary key, two creations may both go on.
InsertFlagNoKeyCheck(p) ==
  /\ pc[p] = "insert"
  /\ Goto(p, "inserted")
  /\ UNCHANGED <<dbVars, callVars, loadVars, faults>>

\* insertFlag: the primary key makes the INSERT fail when the flag exists (after
\* an update of it in progress, if there is one: it ends the same) and wait while
\* another transaction's INSERT of it is not decided.
InsertFlag(p) ==
  /\ pc[p] = "insert"
  /\ \/ Present(row[key[p]]) /\ Goto(p, "failed")
     \/ /\ ~Present(row[key[p]])
        /\ ~RowLocked(p, key[p])
        /\ Goto(p, "inserted")
  /\ UNCHANGED <<dbVars, callVars, loadVars, faults>>

-----------------------------------------------------------------------------
(* UpdateFlag                                                              *)

\* A body that names another key than the path is refused before the
\* transaction begins; the payload is validated only inside it.
UpdateFlag(p, k, bodyKey, c) ==
  /\ pc[p] = "idle" /\ MayWrite
  /\ Call(p, k, c, 0)
  /\ Goto(p, IF bodyKey \in {NoKey, k} THEN "update" ELSE "invalid")
  /\ UNCHANGED <<dbVars, loadVars, faults>>

\* Mutant: SELECT version without FOR UPDATE.
LockRowNoWait(p) ==
  /\ pc[p] = "select"
  /\ LET k == key[p] IN
     \/ /\ ~Present(row[k])
        /\ Goto(p, "notfound") /\ UNCHANGED ver
     \/ /\ Present(row[k]) /\ ~Valid(cfg[p])
        /\ Goto(p, "invalid") /\ UNCHANGED ver
     \/ /\ Present(row[k]) /\ Valid(cfg[p])
        /\ Goto(p, "locked")
        /\ ver' = [ver EXCEPT ![p] = row[k].version + 1]
  /\ UNCHANGED <<dbVars, key, cfg, loadVars, faults>>

\* SELECT version ... FOR UPDATE, the next version, and ValidateFlag.
LockRow(p) ==
  /\ pc[p] = "select"
  /\ LET k == key[p] IN
     \/ /\ ~Present(row[k])
        /\ Goto(p, "notfound") /\ UNCHANGED ver
     \/ /\ Present(row[k]) /\ ~RowLocked(p, k)
        /\ ~Valid(cfg[p])
        /\ Goto(p, "invalid") /\ UNCHANGED ver
     \/ /\ Present(row[k]) /\ ~RowLocked(p, k)
        /\ Valid(cfg[p])
        /\ Goto(p, "locked")
        /\ ver' = [ver EXCEPT ![p] = row[k].version + 1]
  /\ UNCHANGED <<dbVars, key, cfg, loadVars, faults>>

\* Commit of a creation or of an update (DELETEs, UPDATE and INSERTs become
\* visible together, and the locks are released).
CommitTx(p) ==
  /\ pc[p] \in {"inserted", "locked"}
  /\ Commit(key[p], ver[p], cfg[p])
  /\ Goto(p, "written")
  /\ UNCHANGED <<callVars, loadVars, faults>>

-----------------------------------------------------------------------------
(* DeleteFlag: one autocommitted statement that cascades                   *)

DeleteFlag(p, k) ==
  /\ pc[p] = "idle" /\ MayWrite
  /\ Call(p, k, NoConfig, 0)
  /\ Goto(p, "delete")
  /\ UNCHANGED <<dbVars, loadVars, faults>>

ExecDelete(p) ==
  /\ pc[p] = "deleting"
  /\ LET k == key[p] IN
     \/ /\ ~Present(row[k])
        /\ Goto(p, "notfound") /\ UNCHANGED dbVars
     \/ /\ Present(row[k]) /\ ~RowLocked(p, k)
        /\ Commit(k, 0, NoConfig)
        /\ Goto(p, "written")
  /\ UNCHANGED <<callVars, loadVars, faults>>

-----------------------------------------------------------------------------
(* GetFlag, ListFlags and LoadAllFlags                                     *)

GetFlag(p, k) ==
  /\ pc[p] = "idle"
  /\ Goto(p, "row")
  /\ todo' = [todo EXCEPT ![p] = {k}]
  /\ UNCHANGED <<dbVars, callVars, cur, seen, faults>>

ListFlags(p) ==
  /\ pc[p] = "idle"
  /\ Goto(p, "list")
  /\ UNCHANGED <<dbVars, callVars, loadVars, faults>>

\* The label of a load that has the keys in ks still to read.
NextRow(ks) == IF ks = {} THEN "loaded" ELSE "row"

\* Mutant: the scan of the keys appends an empty one after the last row.
ListKeysBlank(p) ==
  /\ pc[p] = "list" /\ FreeConn
  /\ LET found == {k \in Keys : Present(row[k])} IN
     /\ todo' = [todo EXCEPT ![p] = found \cup {NoKey}]
     /\ seen' = [seen EXCEPT ![p] =
                   [k \in Keys |-> SeenOf(IF k \in found THEN NoRow ELSE row[k])]]
     /\ Goto(p, NextRow(found))
  /\ UNCHANGED <<dbVars, callVars, cur, faults>>

\* SELECT key FROM flags: the keys to load, and that the others are absent.
ListKeys(p) ==
  /\ pc[p] = "list" /\ FreeConn
  /\ LET found == {k \in Keys : Present(row[k])} IN
     /\ todo' = [todo EXCEPT ![p] = found]
     /\ seen' = [seen EXCEPT ![p] =
                   [k \in Keys |-> SeenOf(IF k \in found THEN NoRow ELSE row[k])]]
     /\ Goto(p, NextRow(found))
  /\ UNCHANGED <<dbVars, callVars, cur, faults>>

\* loadFlag's first SELECT.  A key deleted since the listing ends the whole
\* load with ErrNotFound.  The order of the keys is left open.
LoadRow(p, k) ==
  /\ pc[p] = "row" /\ k \in todo[p] /\ FreeConn
  /\ \/ /\ ~Present(row[k])
        /\ Goto(p, "notfound") /\ UNCHANGED loadVars
     \/ /\ Present(row[k])
        /\ Goto(p, "variants")
        /\ cur' = [cur EXCEPT ![p] = k]
        /\ seen' = [seen EXCEPT ![p][k] = SeenOf(row[k])]
        /\ UNCHANGED todo
  /\ UNCHANGED <<dbVars, callVars, faults>>

\* loadVariants: the variants may be those of a later commit than the header,
\* or none at all when the flag was deleted in between.
LoadVariants(p) ==
  /\ pc[p] = "variants" /\ FreeConn
  /\ LET r == row[cur[p]] IN
     seen' = [seen EXCEPT ![p][cur[p]] = [@ EXCEPT !.variants = r, !.rules = r]]
  /\ Goto(p, "rules")
  /\ UNCHANGED <<dbVars, callVars, todo, cur, faults>>

\* loadRules, and on to the next key.
LoadRules(p) ==
  /\ pc[p] = "rules" /\ FreeConn
  /\ seen' = [seen EXCEPT ![p][cur[p]] = [@ EXCEPT !.rules = row[cur[p]]]]
  /\ todo' = [todo EXCEPT ![p] = @ \ {cur[p]}]
  /\ Goto(p, NextRow(todo[p] \ {cur[p]}))
  /\ UNCHANGED <<dbVars, callVars, cur, faults>>

-----------------------------------------------------------------------------
(* Failures                                                                *)

\* A statement fails, or its context ends: the deferred Rollback undoes the
\* transaction.  A BeginTx that gets no connection fails the same way.
Fail(p) ==
  /\ faults < MaxFaults
  /\ pc[p] \in Statements \cup {"create", "update", "delete"}
  /\ faults' = faults + 1
  /\ Goto(p, "failed")
  /\ UNCHANGED <<dbVars, callVars, loadVars>>

\* The commit took place but its acknowledgement was lost.
CommitLost(p) ==
  /\ faults < MaxFaults
  /\ faults' = faults + 1
  /\ \/ pc[p] \in {"inserted", "locked"} /\ Commit(key[p], ver[p], cfg[p])
     \/ /\ pc[p] = "deleting"
        /\ Present(row[key[p]]) /\ ~RowLocked(p, key[p])
        /\ Commit(key[p], 0, NoConfig)
  /\ Goto(p, "failed")
  /\ UNCHANGED <<callVars, loadVars>>

-----------------------------------------------------------------------------
(* The specification of the repository alone                               *)

Unseen == [k \in Keys |-> SeenOf(NoRow)]

\* The call returns: its locals are gone.
Return(p) ==
  /\ pc[p] \in Results
  /\ Goto(p, "idle")
  /\ Call(p, NoKey, NoConfig, 0)
  /\ todo' = [todo EXCEPT ![p] = {}]
  /\ cur' = [cur EXCEPT ![p] = NoKey]
  /\ seen' = [seen EXCEPT ![p] = Unseen]
  /\ UNCHANGED <<dbVars, faults>>

\* The tables hold whatever an earlier run of the program left in them.
Init ==
  /\ row \in [Keys -> {NoRow} \cup {[rev |-> 0, version |-> 1, cfg |-> c] :
                                      c \in {d \in Configs : Valid(d)}}]
  /\ commits = 0
  /\ pc = [p \in Procs |-> "idle"]
  /\ key = [p \in Procs |-> NoKey]
  /\ cfg = [p \in Procs |-> NoConfig]
  /\ ver = [p \in Procs |-> 0]
  /\ todo = [p \in Procs |-> {}]
  /\ cur = [p \in Procs |-> NoKey]
  /\ seen = [p \in Procs |-> Unseen]
  /\ faults = 0

WriteRequest(p) ==
  \E k \in Keys :
    \/ \E c \in Configs : CreateFlag(p, k, c)
    \/ \E c \in Configs, b \in Keys \cup {NoKey} : UpdateFlag(p, k, b, c)
    \/ DeleteFlag(p, k)

ReadRequest(p) == ListFlags(p) \/ \E k \in Keys : GetFlag(p, k)

WriteStep(p) == \/ BeginTx(p)    \/ InsertFlag(p) \/ LockRow(p)
                \/ CommitTx(p)   \/ ExecDelete(p)

LoadStep(p) == \/ ListKeys(p)
               \/ \E k \in Keys : LoadRow(p, k)
               \/ LoadVariants(p) \/ LoadRules(p)

Step(p) == WriteStep(p) \/ LoadStep(p) \/ Return(p)

Next == \E p \in Procs : \/ WriteRequest(p) \/ ReadRequest(p)
                         \/ Step(p) \/ Fail(p) \/ CommitLost(p)

\* Calls may stop anywhere here; what makes them go on is FlagSync's subject.
Spec == Init /\ [][Next]_vars

-----------------------------------------------------------------------------
(* Properties                                                              *)

\* Every variable has its type.
DataTypeOK ==
  /\ row \in [Keys -> Row]
  /\ commits \in Nat
  /\ key \in [Procs -> Keys \cup {NoKey}]
  /\ cfg \in [Procs -> Configs \cup {NoConfig}]
  /\ ver \in [Procs -> Nat]
  /\ todo \in [Procs -> SUBSET Keys]
  /\ cur \in [Procs -> Keys \cup {NoKey}]
  /\ seen \in [Procs -> [Keys -> Seen]]
  /\ faults \in Nat

TypeOK == DataTypeOK /\ pc \in [Procs -> Labels]

\* Between SELECT ... FOR UPDATE and the commit nobody moves the version an
\* update is about to write, and nobody creates the flag an uncommitted
\* creation has inserted (UpdateFlag's and CreateFlag's transactions).
DecidedOnCurrentRow ==
  \A p \in Procs :
    /\ pc[p] = "locked" => /\ Present(row[key[p]])
                           /\ ver[p] = row[key[p]].version + 1
    /\ pc[p] = "inserted" => ~Present(row[key[p]]) /\ ver[p] = 1

\* A commit either moves a flag's version by exactly one, or creates it at
\* version 1, or removes it: no update is lost between two concurrent calls,
\* and no creation overwrites a flag (repository.go, UpdateFlag, CreateFlag).
VersionStep(k) ==
  row'[k] # row[k] =>
    /\ row'[k].rev > row[k].rev
    /\ Present(row'[k]) =>
         row'[k].version = IF Present(row[k]) THEN row[k].version + 1 ELSE 1
VersionAdvances == [][\A k \in Keys : VersionStep(k)]_vars
=============================================================================
