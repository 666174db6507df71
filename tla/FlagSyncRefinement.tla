------------------------- MODULE FlagSyncRefinement -------------------------
(***************************************************************************)
(* What FlagSync is made of and what it makes, for any number of handlers, *)
(* keys, payloads and connections.  It implements FlagReplica: every       *)
(* statement, lock and crash of the program is a step of the abstract      *)
(* replica or changes nothing of it.  And it keeps what FlagRepository     *)
(* promises: loads, faults and crashes among the transactions break none   *)
(* of their decisions.                                                     *)
(***************************************************************************)
EXTENDS FlagSyncProofs

USE SyncAssumption

\* What is known of every state: the parts of FlagSyncProofs.
Known == IInv /\ DebtInv /\ WaitInv

THEOREM KnownThroughout == SyncSpec => []Known
BY Invariance, OwedInvariance, WaitInvariance, PTL DEF Known

\* The poller and the listener are never in a transaction, so that what commits is
\* always about a handler's key.
ReaderPcs == SyncPcs \cup {"idle", "notfound", "failed"}

LEMMA ReadersRead == ASSUME Known, NEW p \in Background PROVE pc[p] \in ReaderPcs
BY DEF Known, DebtInv, WaitInv, ReadersInSync, HolderAt, ReaderPcs, Background

-----------------------------------------------------------------------------
(* Which step of the replica a step of the program is                      *)

\* What the program shows of itself stays the same.
NothingShown == UNCHANGED <<row, commits, store, acked>>

\* Then the replica stutters.
LEMMA Stutters == ASSUME NothingShown PROVE UNCHANGED Replica!replicaVars
BY DEF NothingShown, Replica!replicaVars, ShownOf

\* A commit, whether its handler learns of it or not, is a write.
LEMMA CommitIsWrite ==
  ASSUME SyncTypeOK, NEW k \in Keys, NEW v, NEW c, Commit(k, v, c),
         store' = store, acked' = acked
  PROVE  Replica!Write(k)
<1>1. row \in [Keys -> Row] /\ commits' = commits + 1
  BY DEF SyncTypeOK, DataTypeOK, Commit
<1>2. \A j \in Keys : row'[j].rev = IF j = k THEN commits + 1 ELSE row[j].rev
  BY <1>1 DEF Commit
<1>3. [j \in Keys |-> row'[j].rev]
        = [[j \in Keys |-> row[j].rev] EXCEPT ![k] = commits + 1]
  BY <1>2
<1> QED
  BY <1>1, <1>3 DEF Replica!Write, ShownOf

\* A swap is a refresh, even one that mixes the commits of an interval.
LEMMA SwapIsRefresh ==
  ASSUME IInv, NEW p \in Procs, Swap(p)
  PROVE  Replica!Refresh
<1>1. UNCHANGED <<row, commits, acked>>
  BY DEF Swap, SyncReturn, dbVars
<1>2. ASSUME NEW k \in Keys
      PROVE  /\ store[k].rules.rev <= store'[k].head.rev
             /\ store'[k].head.rev <= store'[k].rules.rev
             /\ store'[k].rules.rev <= row[k].rev
  <2>1. Fresh(p, k) /\ store'[k] = seen[p][k]
    BY SwapFresh
  <2>2. seen[p][k] \in Seen
    BY DEF IInv, TInv, SyncTypeOK, DataTypeOK
  <2> QED
    BY <2>1, <2>2, SeenRevs DEF Fresh, Ordered
<1> QED
  BY <1>1, <1>2 DEF Replica!Refresh, Replica!Interval, ShownOf

\* An answer acknowledges a write that is shown, or nothing.
LEMMA ReplyIsAcknowledge ==
  ASSUME IInv, NEW h \in Handlers, Reply(h)
  PROVE  (\E k \in Keys : Replica!Acknowledge(k)) \/ UNCHANGED Replica!replicaVars
<1>1. UNCHANGED <<row, commits, store>>
  BY DEF Reply, dbVars
<1>2. CASE acked' = acked
  BY <1>1, <1>2, Stutters DEF NothingShown
<1>3. CASE /\ pc[h] = "synced" /\ acked[key[h]] < wrote[h]
           /\ acked' = [acked EXCEPT ![key[h]] = wrote[h]]
  <2>1. key[h] \in Keys /\ wrote[h] <= store[key[h]].head.rev
    BY <1>3 DEF IInv, TInv, HasKey, WroteInv, WroteOf
  <2>2. acked \in [Keys -> Nat]
    BY DEF IInv, TInv, SyncTypeOK
  <2>3. Replica!Acknowledge(key[h])
    BY <1>1, <1>3, <2>1, <2>2 DEF Replica!Acknowledge, ShownOf
  <2> QED
    BY <2>1, <2>3
<1> QED
  BY <1>2, <1>3 DEF Reply

\* A crash is a restart.
LEMMA CrashIsRestart == ASSUME Crash PROVE Replica!Restart
BY DEF Crash, Boot, dbVars, Unseen, SeenOf, NoRow, ShownOf, Replica!Restart,
       Replica!Empty, Replica!Nothing, Replica!Interval

\* Initial states are initial states of the replica.
LEMMA InitIsInit == SyncInit => Replica!Init
<1> SUFFICES ASSUME SyncInit PROVE Replica!Init
  OBVIOUS
<1>1. \A k \in Keys : row[k].rev = 0
  BY DEF SyncInit, Init, NoRow
<1> QED
  BY <1>1 DEF SyncInit, Init, Unseen, SeenOf, NoRow, ShownOf, Replica!Init,
              Replica!Empty, Replica!Nothing, Replica!Interval

\* Every step of the program is a step of the replica or a stutter.
LEMMA NextIsNext ==
  Known /\ [SyncNext]_allVars => [Replica!Next]_(Replica!replicaVars)
<1> SUFFICES ASSUME Known, [SyncNext]_allVars
             PROVE  Replica!Next \/ UNCHANGED Replica!replicaVars
  OBVIOUS
<1>0. IInv /\ SyncTypeOK /\ HasKey
  BY DEF Known, IInv, TInv
<1>1. ASSUME NEW p \in Procs, key[p] \in Keys, UNCHANGED syncVars \/ Write(p),
             Commit(key[p], ver[p], cfg[p]) \/ Commit(key[p], 0, NoConfig)
      PROVE  Replica!Next
  <2>1. store' = store /\ acked' = acked
    BY <1>1 DEF syncVars, Write
  <2> QED
    BY <1>0, <1>1, <2>1, CommitIsWrite DEF Replica!Next
<1>2. ASSUME NEW h \in Handlers, Write(h)
      PROVE  Replica!Next \/ UNCHANGED Replica!replicaVars
  <2>1. CASE UNCHANGED dbVars
    BY <1>2, <2>1, Stutters DEF Write, dbVars, NothingShown
  <2>2. CASE ~UNCHANGED dbVars
    <3>1. /\ pc[h] \in {"inserted", "locked", "deleting"}
          /\ Commit(key[h], ver[h], cfg[h]) \/ Commit(key[h], 0, NoConfig)
      BY <1>2, <2>2 DEF Write, WriteStep, BeginTx, InsertFlag, LockRow, CommitTx,
                        ExecDelete
    <3> QED
      BY <1>0, <1>1, <1>2, <3>1 DEF HasKey
  <2> QED
    BY <2>1, <2>2
<1>3. ASSUME NEW p \in Procs, Fault(p)
      PROVE  Replica!Next \/ UNCHANGED Replica!replicaVars
  <2>1. CASE Fail(p)
    BY <1>3, <2>1, Stutters DEF Fault, Fail, dbVars, syncVars, NothingShown
  <2>2. CASE CommitLost(p)
    <3>1. /\ pc[p] \in {"inserted", "locked", "deleting"}
          /\ Commit(key[p], ver[p], cfg[p]) \/ Commit(key[p], 0, NoConfig)
      BY <2>2 DEF CommitLost
    <3>2. p \in Handlers
      BY <3>1, ReadersRead DEF ReaderPcs, SyncPcs, Background
    <3> QED
      BY <1>0, <1>1, <1>3, <3>1, <3>2 DEF HasKey, Fault
  <2> QED
    BY <1>3, <2>1, <2>2 DEF Fault
<1>4. ASSUME NEW p \in Procs, Request(p) \/ SyncLock(p) \/ Load(p) \/ SyncFail(p)
      PROVE  UNCHANGED Replica!replicaVars
  <2>1. NothingShown
    BY <1>4 DEF Request, CreateFlag, UpdateFlag, DeleteFlag, SyncLock, Load,
       LoadStep, ListKeys, LoadRow, LoadVariants, LoadRules, SyncFail, SyncReturn,
       dbVars, syncVars, NothingShown
  <2> QED
    BY <2>1, Stutters
<1>5. ASSUME NEW p \in Procs, Swap(p) PROVE Replica!Next
  BY <1>0, <1>5, SwapIsRefresh DEF Replica!Next
<1>6. ASSUME NEW h \in Handlers, Reply(h)
      PROVE  Replica!Next \/ UNCHANGED Replica!replicaVars
  BY <1>0, <1>6, ReplyIsAcknowledge DEF Replica!Next
<1>7. CASE Crash
  BY <1>7, CrashIsRestart DEF Replica!Next
<1>8. CASE UNCHANGED allVars
  BY <1>8, Stutters DEF allVars, vars, syncVars, NothingShown
<1> QED
  BY <1>2, <1>3, <1>4, <1>5, <1>6, <1>7, <1>8
     DEF SyncNext, HandlerStep, InSync, Background

\* The handlers, the repository, the poller, the listener and the Syncer
\* together implement the replica: what their clients see are its steps.
THEOREM Refinement == SyncSpec => ImplementsReplica
BY InitIsInit, NextIsNext, KnownThroughout, PTL
   DEF SyncSpec, ImplementsReplica, Replica!Spec

\* Its clients have the replica's promise: an acknowledged write is shown,
\* and nothing is shown that was not committed.
THEOREM PromiseKept == SyncSpec => []Replica!Promise
<1>1. IInv => Replica!Promise
  <2> SUFFICES ASSUME IInv, NEW k \in Keys
               PROVE  /\ acked[k] <= store[k].head.rev
                      /\ store[k].head.rev <= store[k].rules.rev
                      /\ store[k].rules.rev <= row[k].rev
                      /\ row[k].rev <= commits
    BY DEF Replica!Promise, ShownOf
  <2>1. store[k] \in Seen
    BY DEF IInv, TInv, SyncTypeOK
  <2>2. Ordered(store[k], row[k])
    BY DEF IInv, StoreInv
  <2> QED
    BY <2>1, <2>2, SeenRevs DEF Ordered, IInv, AckedInv, RowInv
<1> QED
  BY <1>1, Invariance, PTL

-----------------------------------------------------------------------------
(* The repository under the handlers and the refresh: its transactions     *)
(* still decide on the row they replace when loads, other handlers, faults *)
(* and crashes come between, and only valid flags reach the tables.        *)

Deciding == {"inserted", "locked"}
Accepted == Deciding \cup {"create", "insert"}

\* A creation writes version 1, and row locks are exclusive.
CreateInv == \A p \in Procs : pc[p] \in {"create", "insert"} => ver[p] = 1
LockInv ==
  \A p, q \in Procs :
    p # q /\ pc[p] \in Deciding /\ pc[q] \in Deciding => key[p] # key[q]

\* What is about to be written is a payload, and has been validated by the time
\* its row is inserted or locked.
PayloadInv ==
  \A p \in Procs :
    /\ pc[p] \in Accepted \cup {"update", "select"} => cfg[p] \in Configs
    /\ pc[p] \in Accepted => Valid(cfg[p])

\* No payload that ValidateFlag refuses is ever in the tables.
TablesValid == \A k \in Keys : Present(row[k]) => Valid(row[k].cfg)

\* The same of what loads and the store took from them.
HeadValid(s) == Present(s.head) => Valid(s.head.cfg)
HeadsValid == \A k \in Keys : /\ HeadValid(store[k])
                              /\ \A p \in Procs : HeadValid(seen[p][k])

\* Sync leaves out a flag that exists only if its three SELECTs saw different
\* commits: a flag that one commit wrote whole compiles.
SkippedIsMixed ==
  \A k \in Keys :
    Present(store[k].head) /\ store[k] = SeenOf(store[k].head) => k \in Served

TxInv == CreateInv /\ LockInv /\ DecidedOnCurrentRow /\ PayloadInv
DataInv == TablesValid /\ HeadsValid

\* The initial states are states between two calls.
LEMMA InitTx == SyncInit => TxInv /\ DataInv
<1> SUFFICES ASSUME SyncInit PROVE TxInv /\ DataInv
  OBVIOUS
<1>1. TxInv
  BY DEF SyncInit, Init, TxInv, CreateInv, LockInv, DecidedOnCurrentRow, PayloadInv,
         Deciding, Accepted
<1>2. TablesValid
  BY DEF SyncInit, Init, TablesValid, Present, NoRow
<1>3. HeadsValid
  BY DEF SyncInit, Init, HeadsValid, HeadValid, Present, Unseen, SeenOf, NoRow
<1> QED
  BY <1>1, <1>2, <1>3 DEF DataInv

\* The commits: what each of them writes, on which row.
Commits(p) ==
  /\ p \in Handlers
  /\ \/ pc[p] \in Deciding /\ Commit(key[p], ver[p], cfg[p])
     \/ /\ pc[p] = "deleting" /\ Present(row[key[p]]) /\ ~RowLocked(p, key[p])
        /\ Commit(key[p], 0, NoConfig)

\* Every step either leaves the tables alone or is one of these commits.
LEMMA StepsThatCommit ==
  ASSUME Known, [SyncNext]_allVars
  PROVE  \/ UNCHANGED dbVars
         \/ \E p \in Handlers :
              /\ Commits(p) /\ UNCHANGED callVars
              /\ \E label \in {"written", "failed"} : Goto(p, label)
<1>1. ASSUME NEW h \in Handlers, Write(h), ~UNCHANGED dbVars
      PROVE  Commits(h) /\ UNCHANGED callVars /\ Goto(h, "written")
  BY <1>1 DEF Write, WriteStep, BeginTx, InsertFlag, LockRow, CommitTx, ExecDelete,
              Commits, Deciding
<1>2. ASSUME NEW p \in Procs, Fault(p), ~UNCHANGED dbVars
      PROVE  p \in Handlers /\ Commits(p) /\ UNCHANGED callVars /\ Goto(p, "failed")
  <2>1. CommitLost(p)
    BY <1>2 DEF Fault, Fail
  <2>2. p \in Handlers
    BY <2>1, ReadersRead DEF CommitLost, ReaderPcs, SyncPcs, Background
  <2> QED
    BY <2>1, <2>2 DEF CommitLost, Commits, Deciding
<1>3. ASSUME NEW p \in Procs,
             \/ Request(p) \/ SyncLock(p) \/ Reply(p) \/ Load(p) \/ Swap(p)
             \/ SyncFail(p) \/ Crash \/ UNCHANGED allVars
      PROVE  UNCHANGED dbVars
  BY <1>3 DEF Request, CreateFlag, UpdateFlag, DeleteFlag, SyncLock, Reply, Load,
     LoadStep, ListKeys, LoadRow, LoadVariants, LoadRules, Swap, SyncFail, SyncReturn,
     Crash, allVars, vars, dbVars
<1> QED
  BY <1>1, <1>2, <1>3 DEF SyncNext, HandlerStep, InSync, Background

\* What a commit finds and leaves.
LEMMA CommitsEffect ==
  ASSUME Known, TxInv, NEW p, Commits(p)
  PROVE  /\ key[p] \in Keys /\ VersionStep(key[p])
         /\ \A j \in Keys \ {key[p]} : row'[j] = row[j]
         /\ Present(row'[key[p]]) => Valid(row'[key[p]].cfg)
<1>1. /\ key[p] \in Keys /\ p \in Procs
      /\ row \in [Keys -> Row] /\ commits \in Nat
      /\ \A k \in Keys : row[k].rev <= commits /\ row[k].rev \in Nat
  BY DEF Known, IInv, TInv, SyncTypeOK, DataTypeOK, HasKey, RowInv, Commits,
         Deciding, Row
<1>2. PICK v, c :
        /\ Commit(key[p], v, c)
        /\ \/ pc[p] \in Deciding /\ v = ver[p] /\ c = cfg[p]
           \/ v = 0 /\ c = NoConfig
  BY DEF Commits
<1> DEFINE r == [rev |-> commits + 1, version |-> v, cfg |-> c]
<1>3. row' = [row EXCEPT ![key[p]] = r] /\ r.rev = commits + 1
  BY <1>2 DEF Commit
<1>4. r.version = v /\ r.cfg = c
  OBVIOUS
<1> HIDE DEF r
<1>5. row'[key[p]] = r /\ \A j \in Keys \ {key[p]} : row'[j] = row[j]
  BY <1>1, <1>3
<1>6. row'[key[p]].rev > row[key[p]].rev
  BY <1>1, <1>3, <1>5
<1>7. CASE pc[p] \in Deciding /\ v = ver[p] /\ c = cfg[p]
  <2>1. v = IF Present(row[key[p]]) THEN row[key[p]].version + 1 ELSE 1
    BY <1>1, <1>7 DEF TxInv, DecidedOnCurrentRow, Deciding
  <2>2. Valid(c)
    BY <1>1, <1>7 DEF TxInv, PayloadInv, Accepted
  <2> QED
    BY <1>1, <1>4, <1>5, <1>6, <2>1, <2>2 DEF VersionStep
<1>8. CASE v = 0 /\ c = NoConfig
  BY <1>1, <1>4, <1>5, <1>6, <1>8 DEF VersionStep, Present
<1> QED
  BY <1>2, <1>7, <1>8

\* A transaction that has decided either decided before the step, which left it
\* alone, or decides in the step, on the current row and with no rival.
Undisturbed(q) == pc'[q] = pc[q] /\ key'[q] = key[q] /\ ver'[q] = ver[q]
Decides(q) ==
  /\ UNCHANGED dbVars
  /\ key'[q] = key[q] /\ ~RowLocked(q, key[q])
  /\ \A o \in Procs \ {q} : Undisturbed(o)
  /\ pc'[q] = "inserted" => ~Present(row[key[q]]) /\ ver'[q] = 1
  /\ pc'[q] = "locked" => /\ Present(row[key[q]])
                          /\ ver'[q] = row[key[q]].version + 1

LEMMA Deciders ==
  ASSUME Known, TxInv, [SyncNext]_allVars, NEW q \in Procs, pc'[q] \in Deciding
  PROVE  Undisturbed(q) \/ Decides(q)
<1> DEFINE Goal == Undisturbed(q) \/ Decides(q)
<1>0. SyncTypeOK
  BY DEF Known, IInv, TInv
<1> USE <1>0 DEF SyncTypeOK, DataTypeOK, Goto, Deciding
<1>1. ASSUME NEW h \in Handlers, Request(h) \/ Reply(h) PROVE Goal
  BY <1>1 DEF Request, CreateFlag, UpdateFlag, DeleteFlag, Reply, Call, Undisturbed
<1>2. ASSUME NEW h \in Handlers, Write(h) PROVE Goal
  <2>1. CASE InsertFlag(h)
    <3>1. pc[h] = "insert" /\ ver[h] = 1
      BY <2>1 DEF InsertFlag, TxInv, CreateInv
    <3> QED
      BY <2>1, <3>1 DEF InsertFlag, callVars, Undisturbed, Decides
  <2>2. CASE LockRow(h)
    BY <2>2 DEF LockRow, Undisturbed, Decides
  <2>3. CASE BeginTx(h) \/ CommitTx(h) \/ ExecDelete(h)
    BY <2>3 DEF BeginTx, CommitTx, ExecDelete, callVars, Undisturbed
  <2> QED
    BY <1>2, <2>1, <2>2, <2>3 DEF Write, WriteStep
<1>3. ASSUME NEW p \in Procs, SyncLock(p) \/ Load(p) \/ Fault(p) PROVE Goal
  BY <1>3 DEF SyncLock, Load, LoadStep, ListKeys, LoadRow, LoadVariants, LoadRules,
              NextRow, Fault, Fail, CommitLost, callVars, Undisturbed
<1>4. ASSUME NEW p \in Procs, Swap(p) \/ SyncFail(p) PROVE Goal
  BY <1>4 DEF Swap, SyncFail, SyncReturn, callVars, Undisturbed
<1>5. CASE Crash
  BY <1>5 DEF Crash, Boot
<1>6. CASE UNCHANGED allVars
  BY <1>6 DEF allVars, vars, Undisturbed
<1> QED
  BY <1>1, <1>2, <1>3, <1>4, <1>5, <1>6
     DEF SyncNext, HandlerStep, InSync, Background

\* A creation keeps version 1 until it has inserted its row.
LEMMA NextCreate == Known /\ TxInv /\ [SyncNext]_allVars => CreateInv'
<1> SUFFICES ASSUME SyncTypeOK, CreateInv, [SyncNext]_allVars, NEW q \in Procs,
                    pc'[q] \in {"create", "insert"}
             PROVE  ver'[q] = 1
  BY DEF Known, IInv, TInv, TxInv, CreateInv
<1> USE DEF SyncTypeOK, DataTypeOK, CreateInv, Goto
<1>1. ASSUME NEW h \in Handlers, Request(h) \/ Reply(h) PROVE ver'[q] = 1
  BY <1>1 DEF Request, CreateFlag, UpdateFlag, DeleteFlag, Reply, Call
<1>2. ASSUME NEW h \in Handlers, Write(h) PROVE ver'[q] = 1
  BY <1>2 DEF Write, WriteStep, BeginTx, InsertFlag, LockRow, CommitTx, ExecDelete,
              callVars
<1>3. ASSUME NEW p \in Procs, SyncLock(p) \/ Load(p) \/ Fault(p) PROVE ver'[q] = 1
  BY <1>3 DEF SyncLock, Load, LoadStep, ListKeys, LoadRow, LoadVariants, LoadRules,
              NextRow, Fault, Fail, CommitLost, callVars
<1>4. ASSUME NEW p \in Procs, Swap(p) \/ SyncFail(p) PROVE ver'[q] = 1
  BY <1>4 DEF Swap, SyncFail, SyncReturn, callVars
<1>5. CASE Crash
  BY <1>5 DEF Crash, Boot
<1>6. CASE UNCHANGED allVars
  BY <1>6 DEF allVars, vars
<1> QED
  BY <1>1, <1>2, <1>3, <1>4, <1>5, <1>6
     DEF SyncNext, HandlerStep, InSync, Background

\* What is about to be written stays what the request brought.
LEMMA NextPayload == Known /\ TxInv /\ [SyncNext]_allVars => PayloadInv'
<1> SUFFICES ASSUME SyncTypeOK, PayloadInv, [SyncNext]_allVars, NEW q \in Procs
             PROVE  /\ pc'[q] \in Accepted \cup {"update", "select"} => cfg'[q] \in Configs
                    /\ pc'[q] \in Accepted => Valid(cfg'[q])
  BY DEF Known, IInv, TInv, TxInv, PayloadInv, Valid
<1> DEFINE Goal == /\ pc'[q] \in Accepted \cup {"update", "select"} => cfg'[q] \in Configs
                   /\ pc'[q] \in Accepted => Valid(cfg'[q])
<1> USE DEF SyncTypeOK, DataTypeOK, PayloadInv, Goto, Accepted, Deciding
<1>1. ASSUME NEW h \in Handlers, Request(h) \/ Reply(h) PROVE Goal
  <2>1. ASSUME NEW k \in Keys, NEW c \in Configs, CreateFlag(h, k, c) PROVE Goal
    BY <2>1 DEF CreateFlag, Call
  <2>2. ASSUME NEW k \in Keys, NEW c \in Configs, NEW b, UpdateFlag(h, k, b, c)
        PROVE  Goal
    <3>1. cfg' = [cfg EXCEPT ![h] = c]
      BY <2>2 DEF UpdateFlag, Call
    <3>2. PICK label \in {"update", "invalid"} : pc' = [pc EXCEPT ![h] = label]
      BY <2>2 DEF UpdateFlag
    <3>3. cfg'[h] \in Configs /\ pc'[h] \in {"update", "invalid"}
      BY <3>1, <3>2
    <3>4. q # h => cfg'[q] = cfg[q] /\ pc'[q] = pc[q]
      BY <3>1, <3>2
    <3>5. CASE q = h
      BY <3>3, <3>5
    <3>6. CASE q # h
      BY <3>4, <3>6
    <3> QED
      BY <3>5, <3>6
  <2>3. ASSUME NEW k \in Keys, DeleteFlag(h, k) PROVE Goal
    BY <2>3 DEF DeleteFlag, Call
  <2>4. CASE Reply(h)
    BY <2>4 DEF Reply, Call
  <2> QED
    BY <1>1, <2>1, <2>2, <2>3, <2>4 DEF Request
<1>2. ASSUME NEW h \in Handlers, Write(h) PROVE Goal
  BY <1>2 DEF Write, WriteStep, BeginTx, InsertFlag, LockRow, CommitTx, ExecDelete,
              callVars
<1>3. ASSUME NEW p \in Procs, SyncLock(p) \/ Load(p) \/ Fault(p) PROVE Goal
  BY <1>3 DEF SyncLock, Load, LoadStep, ListKeys, LoadRow, LoadVariants, LoadRules,
              NextRow, Fault, Fail, CommitLost, callVars
<1>4. ASSUME NEW p \in Procs, Swap(p) \/ SyncFail(p) PROVE Goal
  BY <1>4 DEF Swap, SyncFail, SyncReturn, callVars
<1>5. CASE Crash
  BY <1>5 DEF Crash, Boot
<1>6. CASE UNCHANGED allVars
  BY <1>6 DEF allVars, vars
<1> QED
  BY <1>1, <1>2, <1>3, <1>4, <1>5, <1>6
     DEF SyncNext, HandlerStep, InSync, Background

\* Row locks stay exclusive.
LEMMA NextLock == Known /\ TxInv /\ [SyncNext]_allVars => LockInv'
<1> SUFFICES ASSUME Known, TxInv, [SyncNext]_allVars,
                    NEW p \in Procs, NEW q \in Procs, p # q,
                    pc'[p] \in Deciding, pc'[q] \in Deciding
             PROVE  key'[p] # key'[q]
  BY DEF LockInv
<1>1. CASE Undisturbed(p) /\ Undisturbed(q)
  BY <1>1 DEF Undisturbed, TxInv, LockInv
<1>2. ASSUME NEW o \in Procs, NEW r \in Procs, o # r, Decides(o),
             pc'[r] \in Deciding
      PROVE  key'[o] # key'[r]
  BY <1>2 DEF Decides, Undisturbed, RowLocked, Deciding
<1> QED
  BY <1>1, <1>2, Deciders

\* What a transaction decided on stays until it commits: every other commit is
\* about another row.
LEMMA NextDecided == Known /\ TxInv /\ [SyncNext]_allVars => DecidedOnCurrentRow'
<1> SUFFICES ASSUME Known, TxInv, [SyncNext]_allVars, NEW q \in Procs,
                    pc'[q] \in Deciding
             PROVE  /\ pc'[q] = "locked" =>
                         /\ Present(row'[key'[q]])
                         /\ ver'[q] = row'[key'[q]].version + 1
                    /\ pc'[q] = "inserted" =>
                         ~Present(row'[key'[q]]) /\ ver'[q] = 1
  BY DEF DecidedOnCurrentRow, Present, Deciding
<1>1. CASE Decides(q)
  BY <1>1 DEF Decides, dbVars, Present
<1>2. CASE Undisturbed(q)
  <2>1. row'[key[q]] = row[key[q]]
    <3>1. CASE UNCHANGED dbVars
      BY <3>1 DEF dbVars
    <3>2. ASSUME NEW p \in Handlers, Commits(p),
                 NEW label \in {"written", "failed"}, Goto(p, label)
          PROVE  row'[key[q]] = row[key[q]]
      <4>0. p \in Procs /\ pc \in [Procs -> SyncLabels]
        BY DEF Known, IInv, TInv, SyncTypeOK, SyncLabels
      <4>1. p # q
        BY <3>2, <4>0 DEF Goto, Deciding
      <4>2. pc[q] \in Deciding
        BY <1>2 DEF Undisturbed
      <4>3. key[p] # key[q]
        BY <3>2, <4>0, <4>1, <4>2 DEF Commits, RowLocked, Deciding, TxInv, LockInv
      <4>4. q \in Handlers /\ key[q] \in Keys
        BY <4>2, ReadersRead
           DEF Known, IInv, TInv, HasKey, Deciding, ReaderPcs, SyncPcs, Background
      <4> QED
        BY <3>2, <4>3, <4>4, CommitsEffect
    <3> QED
      BY <3>1, <3>2, StepsThatCommit
  <2> QED
    BY <1>2, <2>1 DEF Undisturbed, TxInv, DecidedOnCurrentRow, Present, Deciding
<1> QED
  BY <1>1, <1>2, Deciders

\* Only validated payloads reach the tables.
LEMMA NextTablesValid == Known /\ TxInv /\ TablesValid /\ [SyncNext]_allVars => TablesValid'
<1> SUFFICES ASSUME Known, TxInv, TablesValid, [SyncNext]_allVars, NEW k \in Keys,
                    Present(row'[k])
             PROVE  Valid(row'[k].cfg)
  BY DEF TablesValid, Present, Valid
<1>1. CASE UNCHANGED dbVars
  BY <1>1 DEF dbVars, TablesValid, Present
<1>2. ASSUME NEW p \in Handlers, Commits(p) PROVE Valid(row'[k].cfg)
  <2>1. CASE k = key[p]
    BY <1>2, <2>1, CommitsEffect DEF Present
  <2>2. CASE k # key[p]
    BY <1>2, <2>2, CommitsEffect DEF TablesValid, Present
  <2> QED
    BY <2>1, <2>2
<1> QED
  BY <1>1, <1>2, StepsThatCommit

\* A load and a swap take headers from the tables.
LEMMA NextHeadsValid ==
  Known /\ TablesValid /\ HeadsValid /\ [SyncNext]_allVars => HeadsValid'
<1> SUFFICES ASSUME SyncTypeOK, ReadsKey, TablesValid, HeadsValid, [SyncNext]_allVars,
                    NEW k \in Keys
             PROVE  /\ HeadValid(store'[k])
                    /\ \A p \in Procs : HeadValid(seen'[p][k])
  BY DEF Known, IInv, TInv, HeadsValid, HeadValid, Present, Valid
<1> DEFINE Goal == /\ HeadValid(store'[k])
                   /\ \A p \in Procs : HeadValid(seen'[p][k])
<1> USE DEF SyncTypeOK, DataTypeOK, HeadsValid
<1>0. HeadValid(Unseen[k])
  BY DEF HeadValid, Unseen, SeenOf, NoRow, Present
<1>1. CASE UNCHANGED <<store, seen>>
  BY <1>1
<1>2. ASSUME NEW p \in Procs,
             \/ Request(p) \/ Write(p) \/ Reply(p) \/ SyncLock(p) \/ Fault(p)
             \/ UNCHANGED allVars
      PROVE  UNCHANGED <<store, seen>>
  BY <1>2 DEF Request, CreateFlag, UpdateFlag, DeleteFlag, Write, WriteStep, BeginTx,
              InsertFlag, LockRow, CommitTx, ExecDelete, Reply, SyncLock, Fault, Fail,
              CommitLost, loadVars, syncVars, allVars, vars
<1>3. ASSUME NEW p \in Procs, Load(p) PROVE Goal
  <2>1. store' = store
    BY <1>3 DEF Load, syncVars
  <2>2. ASSUME NEW j \in Keys, NEW s, HeadValid(s), seen' = [seen EXCEPT ![p][j] = s]
        PROVE  Goal
    BY <2>1, <2>2
  <2>3. CASE ListKeys(p)
    <3>1. HeadValid(seen'[p][k])
      BY <2>3 DEF ListKeys, HeadValid, SeenOf, NoRow, Present
    <3>2. \A q \in Procs \ {p} : seen'[q] = seen[q]
      BY <2>3 DEF ListKeys
    <3> QED
      BY <2>1, <3>1, <3>2
  <2>4. ASSUME NEW j \in Keys, LoadRow(p, j) PROVE Goal
    <3>1. CASE seen' = seen
      BY <2>1, <3>1
    <3>2. CASE seen' = [seen EXCEPT ![p][j] = SeenOf(row[j])]
      <4>1. HeadValid(SeenOf(row[j]))
        BY DEF HeadValid, SeenOf, TablesValid
      <4> QED
        BY <2>2, <3>2, <4>1
    <3> QED
      BY <2>4, <3>1, <3>2 DEF LoadRow, loadVars
  <2>5. ASSUME LoadVariants(p) \/ LoadRules(p) PROVE Goal
    <3>1. cur[p] \in Keys
      BY <2>5 DEF LoadVariants, LoadRules, ReadsKey
    <3> DEFINE old == seen[p][cur[p]]
               r == row[cur[p]]
    <3>2. HeadValid([old EXCEPT !.variants = r, !.rules = r])
          /\ HeadValid([old EXCEPT !.rules = r])
      <4>1. old \in Seen /\ HeadValid(old)
        BY <3>1
      <4> QED
        BY <4>1 DEF HeadValid, Seen
    <3>3. \/ seen' = [seen EXCEPT ![p][cur[p]] = [old EXCEPT !.variants = r, !.rules = r]]
          \/ seen' = [seen EXCEPT ![p][cur[p]] = [old EXCEPT !.rules = r]]
      BY <2>5 DEF LoadVariants, LoadRules
    <3> QED
      BY <2>2, <3>1, <3>2, <3>3
  <2> QED
    BY <1>3, <2>3, <2>4, <2>5 DEF Load, LoadStep
<1>4. ASSUME NEW p \in Procs, Swap(p) \/ SyncFail(p) PROVE Goal
  <2>1. seen' = [seen EXCEPT ![p] = Unseen] /\ store' \in {store, seen[p]}
    BY <1>4 DEF Swap, SyncFail, SyncReturn
  <2> QED
    BY <1>0, <2>1
<1>5. CASE Crash
  BY <1>0, <1>5 DEF Crash, Boot
<1> QED
  BY <1>1, <1>2, <1>3, <1>4, <1>5 DEF SyncNext, HandlerStep, InSync, Background

\* The transactions' invariant and that of the flags hold throughout.
THEOREM TransactionsHold == SyncSpec => [](TxInv /\ DataInv)
<1>1. Known /\ TxInv /\ DataInv /\ [SyncNext]_allVars => (TxInv /\ DataInv)'
  BY NextCreate, NextPayload, NextLock, NextDecided, NextTablesValid, NextHeadsValid
     DEF TxInv, DataInv
<1> QED
  BY <1>1, InitTx, KnownThroughout, PTL DEF SyncSpec

\* What an update or a creation decided on is still so when it commits, although
\* loads, refreshes and crashes come between (the repository by itself:
\* FlagRepositoryProofs).
THEOREM DecisionsHold == SyncSpec => []DecidedOnCurrentRow
<1>1. TxInv => DecidedOnCurrentRow
  BY DEF TxInv
<1> QED
  BY <1>1, TransactionsHold, PTL

\* No update is lost and no creation overwrites a flag: in the whole data plane,
\* with its crashes, versions go up by one.
THEOREM VersionsAdvance == SyncSpec => VersionAdvances
<1>1. Known /\ TxInv /\ [SyncNext]_allVars => [\A k \in Keys : VersionStep(k)]_vars
  <2> SUFFICES ASSUME Known, TxInv, [SyncNext]_allVars, NEW k \in Keys
               PROVE  VersionStep(k)
    OBVIOUS
  <2>1. CASE UNCHANGED dbVars
    BY <2>1 DEF dbVars, VersionStep
  <2>2. ASSUME NEW p \in Handlers, Commits(p) PROVE VersionStep(k)
    <3>1. CASE k = key[p]
      BY <2>2, <3>1, CommitsEffect
    <3>2. CASE k # key[p]
      BY <2>2, <3>2, CommitsEffect DEF VersionStep
    <3> QED
      BY <3>1, <3>2
  <2> QED
    BY <2>1, <2>2, StepsThatCommit
<1> QED
  BY <1>1, KnownThroughout, TransactionsHold, PTL DEF SyncSpec, VersionAdvances

\* No payload that ValidateFlag refuses is ever committed, whoever else writes:
\* UpdateFlag validates inside its transaction, CreateFlag before (repository.go).
THEOREM OnlyValidStored == SyncSpec => []TablesValid
<1>1. DataInv => TablesValid
  BY DEF DataInv
<1> QED
  BY <1>1, TransactionsHold, PTL

\* A flag that exists and is not served was read from several commits: Sync never
\* drops a flag that its SELECTs saw in one piece (syncer.go, LoadAllFlags).
THEOREM OnlyMixedSkipped == SyncSpec => []SkippedIsMixed
<1>1. HeadsValid => SkippedIsMixed
  <2> SUFFICES ASSUME HeadsValid, NEW k \in Keys,
                      Present(store[k].head), store[k] = SeenOf(store[k].head)
               PROVE  Compiles(store[k])
    BY DEF SkippedIsMixed, Served
  <2>1. Valid(store[k].head.cfg)
    BY DEF HeadsValid, HeadValid
  <2>2. store[k].variants = store[k].head /\ store[k].rules = store[k].head
    BY DEF SeenOf
  <2> QED
    BY <2>1, <2>2 DEF Compiles, Valid, VariantNames, RuleVariants
<1> QED
  BY <1>1, TransactionsHold, PTL DEF DataInv

-----------------------------------------------------------------------------
(* What an answered client reads.  The numbers of commits say only that    *)
(* nothing older is in the store; that the store holds the write itself    *)
(* rests on what a number stands for, and that Sync does not skip the flag *)
(* on the validation of what is committed.                                 *)

\* What was read of a key is no newer than its row, and is its row if it bears
\* the number of the same commit.
PartOf(x, r) == x.rev <= r.rev /\ (x.rev = r.rev /\ x.rev > 0 => x = r)
ReadFrom(s, r) == PartOf(s.head, r) /\ PartOf(s.variants, r) /\ PartOf(s.rules, r)
ObservedInv == \A k \in Keys : /\ ReadFrom(store[k], row[k])
                               /\ \A p \in Procs : ReadFrom(seen[p][k], row[k])

\* Of an absent flag nothing is read, and of a row in one piece the row itself.
LEMMA ReadWhole ==
  ASSUME NEW r \in Row
  PROVE  ReadFrom(SeenOf(NoRow), r) /\ ReadFrom(SeenOf(r), r)
BY DEF ReadFrom, PartOf, SeenOf, NoRow, Row

\* Replacing the rows of a later SELECT by the current one.
LEMMA ReadExcept ==
  ASSUME NEW s \in Seen, NEW r \in Row, ReadFrom(s, r)
  PROVE  /\ ReadFrom([s EXCEPT !.variants = r, !.rules = r], r)
         /\ ReadFrom([s EXCEPT !.rules = r], r)
BY DEF ReadFrom, PartOf, Seen, Row

\* A commit gives its key a number that nobody has read.
LEMMA ReadGrows ==
  ASSUME NEW s \in Seen, NEW r \in Row, NEW q \in Row, ReadFrom(s, r),
         q = r \/ q.rev > r.rev
  PROVE  ReadFrom(s, q)
BY SeenRevs DEF ReadFrom, PartOf, Row

\* Of the initial tables nothing has been read.
LEMMA InitObserved == SyncInit => ObservedInv
<1> SUFFICES ASSUME SyncInit PROVE ObservedInv
  OBVIOUS
<1>1. \A k \in Keys : row[k] \in Row
  BY InitType DEF TInv, SyncTypeOK, DataTypeOK
<1> QED
  BY <1>1, ReadWhole DEF SyncInit, Init, ObservedInv, Unseen

\* A row changes only by a commit, which numbers it past all others.
LEMMA RowChanges ==
  ASSUME Known, TxInv, [SyncNext]_allVars, NEW k \in Keys
  PROVE  row'[k] = row[k] \/ row'[k].rev > row[k].rev
<1>1. CASE UNCHANGED dbVars
  BY <1>1 DEF dbVars
<1>2. ASSUME NEW p \in Handlers, Commits(p)
      PROVE  row'[k] = row[k] \/ row'[k].rev > row[k].rev
  BY <1>2, CommitsEffect DEF VersionStep
<1> QED
  BY <1>1, <1>2, StepsThatCommit

\* Loads read the current rows, and a swap keeps what a load read.
LEMMA NextObserved ==
  Known /\ TxInv /\ ObservedInv /\ [SyncNext]_allVars => ObservedInv'
<1> SUFFICES ASSUME Known, TxInv, ObservedInv, [SyncNext]_allVars, NEW k \in Keys
             PROVE  /\ ReadFrom(store'[k], row'[k])
                    /\ \A p \in Procs : ReadFrom(seen'[p][k], row'[k])
  BY DEF ObservedInv, ReadFrom, PartOf
<1> DEFINE Goal == /\ ReadFrom(store'[k], row'[k])
                   /\ \A p \in Procs : ReadFrom(seen'[p][k], row'[k])
<1>0. SyncTypeOK /\ SyncTypeOK' /\ ReadsKey
  BY NextType DEF Known, IInv, TInv
<1>1. /\ row[k] \in Row /\ row'[k] \in Row /\ store[k] \in Seen
      /\ \A p \in Procs : seen[p][k] \in Seen
      /\ ReadFrom(store[k], row[k])
      /\ \A p \in Procs : ReadFrom(seen[p][k], row[k])
  BY <1>0 DEF SyncTypeOK, DataTypeOK, ObservedInv
<1>2. CASE UNCHANGED <<store, seen>>
  <2>1. row'[k] = row[k] \/ row'[k].rev > row[k].rev
    BY RowChanges
  <2> QED
    BY <1>1, <1>2, <2>1, ReadGrows
<1>3. ASSUME NEW p \in Procs,
             \/ Request(p) \/ Write(p) \/ Reply(p) \/ SyncLock(p) \/ Fault(p)
             \/ UNCHANGED allVars
      PROVE  UNCHANGED <<store, seen>>
  BY <1>3 DEF Request, CreateFlag, UpdateFlag, DeleteFlag, Write, WriteStep, BeginTx,
              InsertFlag, LockRow, CommitTx, ExecDelete, Reply, SyncLock, Fault, Fail,
              CommitLost, loadVars, syncVars, allVars, vars
<1>4. ASSUME NEW p \in Procs, Load(p) PROVE Goal
  <2>1. store' = store /\ row' = row
    BY <1>4 DEF Load, LoadStep, ListKeys, LoadRow, LoadVariants, LoadRules, dbVars,
                syncVars
  <2>2. /\ seen \in [Procs -> [Keys -> Seen]] /\ row \in [Keys -> Row]
        /\ cur \in [Procs -> Keys \cup {NoKey}] /\ todo \in [Procs -> SUBSET Keys]
    BY <1>0 DEF SyncTypeOK, DataTypeOK
  <2>3. CASE ListKeys(p)
    <3>1. seen'[p][k] = SeenOf(NoRow) \/ seen'[p][k] = SeenOf(row[k])
      BY <2>2, <2>3 DEF ListKeys
    <3>2. \A q \in Procs \ {p} : seen'[q] = seen[q]
      BY <2>3 DEF ListKeys
    <3> QED
      BY <1>1, <2>1, <3>1, <3>2, ReadWhole
  <2>4. ASSUME NEW j \in Keys, NEW s, ReadFrom(s, row[j]),
               seen' = [seen EXCEPT ![p][j] = s]
        PROVE  Goal
    BY <1>1, <2>1, <2>2, <2>4
  <2>5. ASSUME NEW j \in Keys, LoadRow(p, j) PROVE Goal
    <3>1. CASE seen' = seen
      BY <1>1, <2>1, <3>1
    <3>2. CASE seen' = [seen EXCEPT ![p][j] = SeenOf(row[j])]
      BY <2>2, <2>4, <3>2, ReadWhole
    <3> QED
      BY <2>5, <3>1, <3>2 DEF LoadRow, loadVars
  <2>6. ASSUME LoadVariants(p) \/ LoadRules(p) PROVE Goal
    <3>1. cur[p] \in Keys
      BY <1>0, <2>2, <2>6 DEF LoadVariants, LoadRules, ReadsKey
    <3> DEFINE old == seen[p][cur[p]]
               r == row[cur[p]]
    <3>2. ReadFrom([old EXCEPT !.variants = r, !.rules = r], r)
          /\ ReadFrom([old EXCEPT !.rules = r], r)
      <4>1. old \in Seen /\ r \in Row /\ ReadFrom(old, r)
        BY <2>2, <3>1 DEF ObservedInv
      <4> HIDE DEF old, r
      <4> QED
        BY <4>1, ReadExcept
    <3>3. \/ seen' = [seen EXCEPT ![p][cur[p]] = [old EXCEPT !.variants = r, !.rules = r]]
          \/ seen' = [seen EXCEPT ![p][cur[p]] = [old EXCEPT !.rules = r]]
      BY <2>6 DEF LoadVariants, LoadRules
    <3> QED
      BY <2>4, <3>1, <3>2, <3>3
  <2> QED
    BY <1>4, <2>3, <2>5, <2>6 DEF Load, LoadStep
<1>5. ASSUME NEW p \in Procs, Swap(p) \/ SyncFail(p) PROVE Goal
  <2>1. /\ seen' = [seen EXCEPT ![p] = Unseen] /\ store' \in {store, seen[p]}
        /\ row' = row
    BY <1>5 DEF Swap, SyncFail, SyncReturn, dbVars
  <2>2. ReadFrom(Unseen[k], row[k])
    BY <1>1, ReadWhole DEF Unseen
  <2>3. seen \in [Procs -> [Keys -> Seen]]
    BY <1>0 DEF SyncTypeOK, DataTypeOK
  <2> QED
    BY <1>1, <2>1, <2>2, <2>3
<1>6. CASE Crash
  <2>1. ReadFrom(Unseen[k], row[k])
    BY <1>1, ReadWhole DEF Unseen
  <2> QED
    BY <1>6, <2>1 DEF Crash, Boot, dbVars
<1> QED
  BY <1>2, <1>3, <1>4, <1>5, <1>6 DEF SyncNext, HandlerStep, InSync, Background

\* In every state that these invariants allow an answered write that is still the
\* flag's last one is in the store whole, and compiles.
LEMMA AnsweredIsServed ==
  ASSUME IInv, TablesValid, ObservedInv, NEW k \in Keys,
         acked[k] > 0, acked[k] = row[k].rev
  PROVE  store[k] = SeenOf(row[k]) /\ (Present(row[k]) => k \in Served)
<1>1. store[k] \in Seen /\ row[k] \in Row /\ acked[k] \in Nat
  BY DEF IInv, TInv, SyncTypeOK, DataTypeOK
<1>2. /\ store[k].head.rev = row[k].rev
      /\ store[k].variants.rev = row[k].rev
      /\ store[k].rules.rev = row[k].rev
  <2>1. Ordered(store[k], row[k]) /\ acked[k] <= store[k].head.rev
    BY DEF IInv, StoreInv, AckedInv
  <2> QED
    BY <1>1, <2>1, SeenRevs DEF Ordered, Row
<1>3. store[k].head = row[k] /\ store[k].variants = row[k] /\ store[k].rules = row[k]
  BY <1>2 DEF ObservedInv, ReadFrom, PartOf
<1>4. store[k] = SeenOf(row[k])
  BY <1>1, <1>3 DEF Seen, SeenOf
<1>5. ASSUME Present(row[k]) PROVE k \in Served
  BY <1>3, <1>5 DEF TablesValid, Served, Compiles, Valid, VariantNames, RuleVariants
<1> QED
  BY <1>4, <1>5

\* Whoever was answered 2xx for a write reads exactly that write, and finds the
\* flag served, until it is written again, and nothing older after that: for any
\* number of handlers, keys, payloads and interleavings.
THEOREM ReadYourWrites == SyncSpec => []AckedWriteVisible
<1>1. Known /\ TxInv /\ ObservedInv /\ [SyncNext]_allVars => ObservedInv'
  BY NextObserved
<1>2. IInv /\ DataInv /\ ObservedInv => AckedWriteVisible
  BY AnsweredIsServed DEF AckedWriteVisible, AckedInv, IInv, DataInv
<1>3. Known => IInv
  BY DEF Known
<1> QED
  BY <1>1, <1>2, <1>3, InitObserved, KnownThroughout, TransactionsHold, PTL
     DEF SyncSpec
=============================================================================
