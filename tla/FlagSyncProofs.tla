--------------------------- MODULE FlagSyncProofs ---------------------------
(***************************************************************************)
(* Proofs about FlagSync for any number of handlers, keys, payloads and    *)
(* connections, and without the bounds of the model: a bound that is any   *)
(* natural number excludes no finite behaviour.                            *)
(***************************************************************************)
EXTENDS FlagSync, FiniteSetTheorems, TLAPS

USE RepositoryAssumption, SyncAssumption

SyncLabels == Labels \cup {"synced", "refresh_failed"}

-----------------------------------------------------------------------------
(* Type correctness                                                        *)

\* The records that stand for absent flags are well typed.
LEMMA NoRowType == NoRow \in Row /\ Unseen \in [Keys -> Seen]
BY DEF NoRow, Row, Unseen, Seen, SeenOf

\* A row read by the three SELECTs alike is an observation.
LEMMA SeenOfType == ASSUME NEW r \in Row PROVE SeenOf(r) \in Seen
BY DEF SeenOf, Seen

\* A commit leaves well-typed tables.
LEMMA CommitType ==
  ASSUME SyncTypeOK, NEW k, NEW v \in Nat, NEW c \in Configs \cup {NoConfig},
         Commit(k, v, c)
  PROVE  row' \in [Keys -> Row] /\ commits' \in Nat
<1> DEFINE r == [rev |-> commits + 1, version |-> v, cfg |-> c]
<1>1. r \in Row
  BY DEF SyncTypeOK, DataTypeOK, Row
<1>2. row' = [row EXCEPT ![k] = r] /\ commits' = commits + 1
  BY DEF Commit
<1>3. row \in [Keys -> Row] /\ commits \in Nat
  BY DEF SyncTypeOK, DataTypeOK
<1> HIDE DEF r
<1>4. commits' \in Nat
  BY <1>2, <1>3
<1> QED
  BY <1>1, <1>2, <1>3, <1>4

\* Replacing the rows of a later SELECT leaves an observation.
LEMMA SeenExceptType ==
  ASSUME NEW s \in Seen, NEW r \in Row
  PROVE  /\ [s EXCEPT !.variants = r, !.rules = r] \in Seen
         /\ [s EXCEPT !.rules = r] \in Seen
BY DEF Seen

\* A load reads the variants and the rules of a key it has to read, and a
\* request is about a key: without this the types alone are not inductive.
ReadsKey == \A p \in Procs : pc[p] \in {"variants", "rules"} => cur[p] \in todo[p]
HasKey == \A h \in Handlers : pc[h] # "idle" => key[h] \in Keys

TInv == SyncTypeOK /\ ReadsKey /\ HasKey

\* The initial state is well typed.
LEMMA InitType == SyncInit => TInv
<1> SUFFICES ASSUME SyncInit PROVE TInv
  OBVIOUS
<1>1. row \in [Keys -> Row]
  BY NoRowType DEF SyncInit, Init, Row
<1>2. lastError \in BOOLEAN
  BY Zenon DEF SyncInit
<1>3. pc \in [Procs -> SyncLabels]
  BY DEF SyncInit, Init, Labels, SyncLabels
<1>4. /\ commits \in Nat /\ faults \in Nat /\ boots \in Nat
      /\ key \in [Procs -> Keys \cup {NoKey}]
      /\ cfg \in [Procs -> Configs \cup {NoConfig}]
      /\ ver \in [Procs -> Nat]
      /\ todo \in [Procs -> SUBSET Keys]
      /\ cur \in [Procs -> Keys \cup {NoKey}]
  BY DEF SyncInit, Init
<1>5. seen \in [Procs -> [Keys -> Seen]] /\ store \in [Keys -> Seen]
  BY NoRowType DEF SyncInit, Init
<1>6. /\ mutex \in Procs \cup {NoProc}
      /\ wrote \in [Handlers -> Nat] /\ acked \in [Keys -> Nat]
  BY DEF SyncInit
<1>7. ReadsKey /\ HasKey
  BY DEF SyncInit, Init, ReadsKey, HasKey
<1> QED
  BY <1>1, <1>2, <1>3, <1>4, <1>5, <1>6, <1>7
     DEF TInv, SyncTypeOK, DataTypeOK, SyncLabels

\* Every step keeps the types.
LEMMA NextType == TInv /\ [SyncNext]_allVars => SyncTypeOK'
<1> SUFFICES ASSUME SyncTypeOK, ReadsKey, HasKey, [SyncNext]_allVars
             PROVE  SyncTypeOK'
  BY DEF TInv
<1> USE DEF SyncTypeOK, DataTypeOK
<1>1. ASSUME NEW h \in Handlers, Request(h) PROVE SyncTypeOK'
  <2>1. CASE \E k \in Keys, c \in Configs : CreateFlag(h, k, c)
    BY <1>1, <2>1 DEF Request, CreateFlag, Call, Goto, Labels, Results, dbVars,
                      loadVars, syncVars
  <2>2. CASE \E k \in Keys, c \in Configs, b \in Keys \cup {NoKey} :
                UpdateFlag(h, k, b, c)
    BY <1>1, <2>2 DEF Request, UpdateFlag, Call, Goto, Labels, Results, dbVars,
                      loadVars, syncVars
  <2>3. CASE \E k \in Keys : DeleteFlag(h, k)
    BY <1>1, <2>3 DEF Request, DeleteFlag, Call, Goto, Labels, dbVars,
                      loadVars, syncVars
  <2> QED
    BY <1>1, <2>1, <2>2, <2>3 DEF Request
<1>2. ASSUME NEW h \in Handlers, Write(h) PROVE SyncTypeOK'
  <2>1. /\ row' \in [Keys -> Row] /\ commits' \in Nat
    BY <1>2, CommitType DEF Write, WriteStep, BeginTx, InsertFlag, LockRow,
                            CommitTx, ExecDelete, dbVars
  <2>2. pc' \in [Procs -> SyncLabels] /\ ver' \in [Procs -> Nat]
        /\ key' = key /\ cfg' = cfg
    <3> USE DEF Goto, Labels, Results, Statements, SyncLabels, callVars
    <3>1. CASE BeginTx(h)
      BY <3>1 DEF BeginTx
    <3>2. CASE InsertFlag(h)
      BY <3>2 DEF InsertFlag
    <3>3. CASE LockRow(h)
      <4>1. CASE ver' = ver
        BY <3>3, <4>1 DEF LockRow
      <4>2. CASE /\ Present(row[key[h]]) /\ pc' = [pc EXCEPT ![h] = "locked"]
                 /\ ver' = [ver EXCEPT ![h] = row[key[h]].version + 1]
        <5>1. key[h] \in Keys
          BY <3>3 DEF LockRow, HasKey
        <5> QED
          BY <3>3, <4>2, <5>1 DEF LockRow, Row
      <4> QED
        BY <3>3, <4>1, <4>2 DEF LockRow
    <3>4. CASE CommitTx(h)
      BY <3>4 DEF CommitTx
    <3>5. CASE ExecDelete(h)
      BY <3>5 DEF ExecDelete
    <3> QED
      BY <1>2, <3>1, <3>2, <3>3, <3>4, <3>5 DEF Write, WriteStep
  <2>4. UNCHANGED <<todo, cur, seen, faults>>
    BY <1>2 DEF Write, WriteStep, BeginTx, InsertFlag, LockRow, CommitTx,
                ExecDelete, loadVars
  <2>5. wrote' \in [Handlers -> Nat]
    BY <1>2, <2>1 DEF Write
  <2> QED
    BY <1>2, <2>1, <2>2, <2>4, <2>5 DEF Write, SyncLabels
<1>3. ASSUME NEW p \in Procs, SyncLock(p) PROVE SyncTypeOK'
  BY <1>3 DEF SyncLock, Goto, Labels, Statements, dbVars, callVars, loadVars
<1>4. ASSUME NEW h \in Handlers, Reply(h) PROVE SyncTypeOK'
  BY <1>4 DEF Reply, Goto, Call, Labels, dbVars, loadVars
<1>5. ASSUME NEW p \in Procs, Load(p) PROVE SyncTypeOK'
  <2>1. seen' \in [Procs -> [Keys -> Seen]]
    <3>1. CASE ListKeys(p)
      BY <3>1, NoRowType, SeenOfType DEF ListKeys
    <3>2. ASSUME NEW k \in Keys, LoadRow(p, k) PROVE seen' \in [Procs -> [Keys -> Seen]]
      <4>1. CASE seen' = seen
        BY <4>1
      <4>2. CASE seen' = [seen EXCEPT ![p][k] = SeenOf(row[k])]
        <5>1. [seen[p] EXCEPT ![k] = SeenOf(row[k])] \in [Keys -> Seen]
          BY SeenOfType
        <5> QED
          BY <4>2, <5>1
      <4> QED
        BY <3>2, <4>1, <4>2 DEF LoadRow, loadVars
    <3>3. ASSUME LoadVariants(p) \/ LoadRules(p)
          PROVE  seen' \in [Procs -> [Keys -> Seen]]
      <4> DEFINE k == cur[p]
      <4>1. k \in Keys
        BY <3>3 DEF LoadVariants, LoadRules, ReadsKey
      <4>2. ASSUME NEW s \in Seen, seen' = [seen EXCEPT ![p][k] = s]
            PROVE  seen' \in [Procs -> [Keys -> Seen]]
        <5>1. [seen[p] EXCEPT ![k] = s] \in [Keys -> Seen]
          BY <4>1
        <5> QED
          BY <4>2, <5>1
      <4>3. seen[p][k] \in Seen /\ row[k] \in Row
        BY <4>1
      <4>4. CASE LoadVariants(p)
        <5>1. [seen[p][k] EXCEPT !.variants = row[k], !.rules = row[k]] \in Seen
          BY <4>3, SeenExceptType, Zenon
        <5> QED
          BY <4>2, <4>4, <5>1 DEF LoadVariants
      <4>5. CASE LoadRules(p)
        <5>1. [seen[p][k] EXCEPT !.rules = row[k]] \in Seen
          BY <4>3, SeenExceptType, Zenon
        <5> QED
          BY <4>2, <4>5, <5>1 DEF LoadRules
      <4> QED
        BY <3>3, <4>4, <4>5
    <3> QED
      BY <1>5, <3>1, <3>2, <3>3 DEF Load, LoadStep
  <2>2. pc' \in [Procs -> SyncLabels]
    BY <1>5 DEF Load, LoadStep, ListKeys, LoadRow, LoadVariants, LoadRules,
                Goto, NextRow, Labels, Statements, Results, SyncLabels
  <2>3. todo' \in [Procs -> SUBSET Keys] /\ cur' \in [Procs -> Keys \cup {NoKey}]
    BY <1>5 DEF Load, LoadStep, ListKeys, LoadRow, LoadVariants, LoadRules, loadVars
  <2>4. UNCHANGED <<dbVars, callVars, faults, syncVars>>
    BY <1>5 DEF Load, LoadStep, ListKeys, LoadRow, LoadVariants, LoadRules
  <2> QED
    BY <2>1, <2>2, <2>3, <2>4 DEF dbVars, callVars, syncVars, SyncLabels
<1>6. ASSUME NEW p \in Procs, Swap(p) \/ SyncFail(p) PROVE SyncTypeOK'
  <2>1. lastError' \in BOOLEAN
    BY <1>6, Zenon DEF Swap, SyncFail
  <2>2. store' \in [Keys -> Seen]
    BY <1>6 DEF Swap, SyncFail
  <2>3. seen' \in [Procs -> [Keys -> Seen]]
    BY <1>6, NoRowType DEF Swap, SyncFail, SyncReturn
  <2>4. pc' \in [Procs -> SyncLabels]
    BY <1>6 DEF Swap, SyncFail, SyncReturn, Goto, SyncLabels, Labels
  <2> QED
    BY <1>6, <2>1, <2>2, <2>3, <2>4
       DEF Swap, SyncFail, SyncReturn, dbVars, callVars, SyncLabels
<1>7. ASSUME NEW p \in Procs, Fault(p) PROVE SyncTypeOK'
  <2>1. row' \in [Keys -> Row] /\ commits' \in Nat
    BY <1>7, CommitType DEF Fault, Fail, CommitLost, dbVars
  <2>2. pc' \in [Procs -> SyncLabels] /\ faults' \in Nat
    BY <1>7 DEF Fault, Fail, CommitLost, Goto, Labels, Results, SyncLabels
  <2>3. UNCHANGED <<callVars, loadVars, syncVars>>
    BY <1>7 DEF Fault, Fail, CommitLost
  <2> QED
    BY <2>1, <2>2, <2>3 DEF callVars, loadVars, syncVars, SyncLabels
<1>8. CASE Crash
  <2>1. lastError' \in BOOLEAN
    BY <1>8, Zenon DEF Crash, Boot
  <2>2. seen' \in [Procs -> [Keys -> Seen]] /\ store' \in [Keys -> Seen]
    BY <1>8, NoRowType DEF Crash, Boot
  <2>3. pc' \in [Procs -> SyncLabels]
    BY <1>8 DEF Crash, Boot, SyncLabels, Labels
  <2> QED
    BY <1>8, <2>1, <2>2, <2>3 DEF Crash, Boot, dbVars, SyncLabels
<1>9. CASE UNCHANGED allVars
  BY <1>9 DEF allVars, vars, syncVars
<1> QED
  BY <1>1, <1>2, <1>3, <1>4, <1>5, <1>6, <1>7, <1>8, <1>9
     DEF SyncNext, HandlerStep, InSync, Background

\* A load still reads a key it has to read.
LEMMA NextReadsKey == TInv /\ [SyncNext]_allVars => ReadsKey'
<1> SUFFICES ASSUME SyncTypeOK, ReadsKey, [SyncNext]_allVars, NEW q \in Procs,
                    pc'[q] \in {"variants", "rules"}
             PROVE  cur'[q] \in todo'[q]
  BY DEF TInv, ReadsKey
<1> USE DEF SyncTypeOK, DataTypeOK, ReadsKey, Goto
<1>1. ASSUME NEW h \in Handlers, Request(h) PROVE cur'[q] \in todo'[q]
  BY <1>1 DEF Request, CreateFlag, UpdateFlag, DeleteFlag, loadVars
<1>2. ASSUME NEW h \in Handlers, Write(h) PROVE cur'[q] \in todo'[q]
  BY <1>2 DEF Write, WriteStep, BeginTx, InsertFlag, LockRow, CommitTx,
              ExecDelete, loadVars
<1>3. ASSUME NEW p \in Procs, SyncLock(p) PROVE cur'[q] \in todo'[q]
  BY <1>3 DEF SyncLock, loadVars
<1>4. ASSUME NEW h \in Handlers, Reply(h) PROVE cur'[q] \in todo'[q]
  BY <1>4 DEF Reply, loadVars
<1>5. ASSUME NEW p \in Procs, Load(p) PROVE cur'[q] \in todo'[q]
  <2>1. CASE ListKeys(p)
    BY <2>1 DEF ListKeys, NextRow
  <2>2. CASE \E k \in Keys : LoadRow(p, k)
    BY <2>2 DEF LoadRow, loadVars
  <2>3. CASE LoadVariants(p)
    BY <2>3 DEF LoadVariants
  <2>4. CASE LoadRules(p)
    BY <2>4 DEF LoadRules, NextRow
  <2> QED
    BY <1>5, <2>1, <2>2, <2>3, <2>4 DEF Load, LoadStep
<1>6. ASSUME NEW p \in Procs, Swap(p) \/ SyncFail(p) PROVE cur'[q] \in todo'[q]
  BY <1>6 DEF Swap, SyncFail, SyncReturn
<1>7. ASSUME NEW p \in Procs, Fault(p) PROVE cur'[q] \in todo'[q]
  BY <1>7 DEF Fault, Fail, CommitLost, loadVars
<1>8. CASE Crash
  BY <1>8 DEF Crash, Boot
<1>9. CASE UNCHANGED allVars
  BY <1>9 DEF allVars, vars
<1> QED
  BY <1>1, <1>2, <1>3, <1>4, <1>5, <1>6, <1>7, <1>8, <1>9
     DEF SyncNext, HandlerStep, InSync, Background

\* A request that goes on is still about a key.
LEMMA NextHasKey == TInv /\ [SyncNext]_allVars => HasKey'
<1> SUFFICES ASSUME SyncTypeOK, HasKey, [SyncNext]_allVars, NEW q \in Handlers,
                    pc'[q] # "idle"
             PROVE  key'[q] \in Keys
  BY DEF TInv, HasKey
<1> USE DEF SyncTypeOK, DataTypeOK, HasKey, Goto
<1>1. ASSUME NEW h \in Handlers, Request(h) PROVE key'[q] \in Keys
  BY <1>1 DEF Request, CreateFlag, UpdateFlag, DeleteFlag, Call
<1>2. ASSUME NEW h \in Handlers, Write(h) PROVE key'[q] \in Keys
  BY <1>2 DEF Write, WriteStep, BeginTx, InsertFlag, LockRow, CommitTx,
              ExecDelete, callVars
<1>3. ASSUME NEW p \in Procs, SyncLock(p) PROVE key'[q] \in Keys
  BY <1>3 DEF SyncLock, callVars, Background
<1>4. ASSUME NEW h \in Handlers, Reply(h) PROVE key'[q] \in Keys
  BY <1>4 DEF Reply, Call
<1>5. ASSUME NEW p \in Procs, Load(p) PROVE key'[q] \in Keys
  BY <1>5 DEF Load, LoadStep, ListKeys, LoadRow, LoadVariants, LoadRules, callVars
<1>6. ASSUME NEW p \in Procs, Swap(p) \/ SyncFail(p) PROVE key'[q] \in Keys
  BY <1>6 DEF Swap, SyncFail, SyncReturn, callVars
<1>7. ASSUME NEW p \in Procs, Fault(p) PROVE key'[q] \in Keys
  BY <1>7 DEF Fault, Fail, CommitLost, callVars, Statements
<1>8. CASE Crash
  BY <1>8 DEF Crash, Boot
<1>9. CASE UNCHANGED allVars
  BY <1>9 DEF allVars, vars
<1> QED
  BY <1>1, <1>2, <1>3, <1>4, <1>5, <1>6, <1>7, <1>8, <1>9
     DEF SyncNext, HandlerStep, InSync, Background

\* The variables of the refresh and of the store keep their types.
THEOREM TypeCorrect == SyncSpec => []SyncTypeOK
<1>1. TInv /\ [SyncNext]_allVars => TInv'
  BY NextType, NextReadsKey, NextHasKey DEF TInv
<1>2. TInv => SyncTypeOK
  BY DEF TInv
<1> QED
  BY InitType, <1>1, <1>2, PTL DEF SyncSpec

-----------------------------------------------------------------------------
(* The inductive invariant                                                 *)

\* Who is in Sync holds the mutex.
SyncPcs == {"list", "row", "variants", "rules", "loaded"}
MutexInv == \A p \in Procs : pc[p] \in SyncPcs => mutex = p

\* No row is newer than the last commit.
RowInv == \A k \in Keys : row[k].rev <= commits

\* The parts of an observation were read in order, and not from the future.
Ordered(s, r) == /\ s.head.rev <= s.variants.rev
                 /\ s.variants.rev <= s.rules.rev
                 /\ s.rules.rev <= r.rev

StoreInv == \A k \in Keys : Ordered(store[k], row[k])

\* What a load has read of k is no older than the store, nor than the commit of
\* the handler that loads.
Fresh(p, k) ==
  /\ store[k].rules.rev <= seen[p][k].head.rev
  /\ Ordered(seen[p][k], row[k])
  /\ p \in Handlers /\ key[p] = k => wrote[p] <= seen[p][k].head.rev

LoadOf(p) ==
  /\ pc[p] \in {"row", "variants", "rules", "loaded"} =>
       \A k \in Keys \ todo[p] : Fresh(p, k)
  /\ pc[p] \in {"variants", "rules"} => Fresh(p, cur[p])
  /\ pc[p] = "loaded" => todo[p] = {}

LoadInv == \A p \in Procs : LoadOf(p)

\* A handler's commit is in the tables, and in the store after its Sync.
WroteOf(h) ==
  /\ pc[h] = "idle" => wrote[h] = 0
  /\ key[h] \in Keys => wrote[h] <= row[key[h]].rev
  /\ pc[h] = "synced" => wrote[h] <= store[key[h]].head.rev

WroteInv == \A h \in Handlers : WroteOf(h)

\* The store has no part that is older than an answered write of its key.
AckedInv == \A k \in Keys : acked[k] <= store[k].head.rev

IInv == /\ TInv /\ MutexInv /\ RowInv /\ StoreInv /\ LoadInv /\ WroteInv
        /\ AckedInv

-----------------------------------------------------------------------------
(* Each part of it is kept by every step                                   *)

\* The initial state satisfies the invariant.
LEMMA InitIInv == SyncInit => IInv
<1> SUFFICES ASSUME SyncInit PROVE IInv
  OBVIOUS
<1>1. TInv
  BY InitType
<1>2. MutexInv /\ LoadInv
  BY DEF SyncInit, Init, MutexInv, SyncPcs, LoadInv, LoadOf
<1>3. \A k \in Keys : row[k].rev = 0
  BY DEF SyncInit, Init, NoRow
<1>4. RowInv /\ StoreInv
  BY <1>3 DEF SyncInit, Init, RowInv, StoreInv, Ordered, Unseen, SeenOf, NoRow
<1>5. WroteInv /\ AckedInv
  BY <1>3 DEF SyncInit, Init, WroteInv, WroteOf, AckedInv, Unseen,
              SeenOf, NoRow
<1> QED
  BY <1>1, <1>2, <1>4, <1>5 DEF IInv

\* The tables only move forward.
RowGrows == \A k \in Keys : /\ row[k].rev \in Nat /\ row'[k].rev \in Nat
                            /\ row[k].rev <= row'[k].rev
                            /\ row'[k].rev <= commits'

\* A commit moves its key past every other one.
LEMMA CommitGrows ==
  ASSUME SyncTypeOK, RowInv, NEW k, NEW v, NEW c, Commit(k, v, c)
  PROVE  RowGrows /\ (k \in Keys => row'[k].rev = commits')
<1> DEFINE r == [rev |-> commits + 1, version |-> v, cfg |-> c]
<1>1. row \in [Keys -> Row] /\ commits \in Nat
  BY DEF SyncTypeOK, DataTypeOK
<1>2. row' = [row EXCEPT ![k] = r] /\ commits' = commits + 1
  BY DEF Commit
<1>3. r.rev = commits + 1
  OBVIOUS
<1> HIDE DEF r
<1>4. \A j \in Keys : row[j].rev \in Nat /\ row[j].rev <= commits
  BY <1>1 DEF Row, RowInv
<1>5. \A j \in Keys : row'[j].rev = IF j = k THEN commits + 1 ELSE row[j].rev
  BY <1>1, <1>2, <1>3
<1> QED
  BY <1>1, <1>2, <1>4, <1>5 DEF RowGrows

\* Every step moves the tables forward.
LEMMA NextRowGrows == TInv /\ RowInv /\ [SyncNext]_allVars => RowGrows
<1> SUFFICES ASSUME SyncTypeOK, RowInv, [SyncNext]_allVars PROVE RowGrows
  BY DEF TInv
<1>1. CASE UNCHANGED dbVars
  BY <1>1 DEF dbVars, RowGrows, RowInv, SyncTypeOK, DataTypeOK, Row
<1>2. ASSUME NEW p, WriteStep(p) PROVE RowGrows
  BY <1>1, <1>2, CommitGrows
     DEF WriteStep, BeginTx, InsertFlag, LockRow, CommitTx, ExecDelete
<1>3. ASSUME NEW p, Fault(p) PROVE RowGrows
  BY <1>1, <1>3, CommitGrows DEF Fault, Fail, CommitLost
<1>4. CASE \E p \in Procs : Request(p) \/ SyncLock(p) \/ Reply(p) \/ InSync(p)
  BY <1>1, <1>4 DEF Request, CreateFlag, UpdateFlag, DeleteFlag, SyncLock, Reply,
     InSync, Load, LoadStep, ListKeys, LoadRow, LoadVariants, LoadRules, Swap,
     SyncFail, SyncReturn
<1>5. CASE Crash
  BY <1>1, <1>5 DEF Crash
<1>6. CASE UNCHANGED allVars
  BY <1>1, <1>6 DEF allVars, vars, dbVars
<1> QED
  BY <1>2, <1>3, <1>4, <1>5, <1>6 DEF SyncNext, HandlerStep, Write, Background

\* Mutual exclusion of Sync.
LEMMA NextMutex == TInv /\ MutexInv /\ [SyncNext]_allVars => MutexInv'
<1> SUFFICES ASSUME SyncTypeOK, MutexInv, [SyncNext]_allVars, NEW q \in Procs,
                    pc'[q] \in SyncPcs
             PROVE  mutex' = q
  BY DEF TInv, MutexInv
<1> USE DEF SyncTypeOK, DataTypeOK, MutexInv, SyncPcs, Goto
<1>1. ASSUME NEW h \in Handlers, Request(h) PROVE mutex' = q
  BY <1>1 DEF Request, CreateFlag, UpdateFlag, DeleteFlag, syncVars
<1>2. ASSUME NEW h \in Handlers, Write(h) PROVE mutex' = q
  BY <1>2 DEF Write, WriteStep, BeginTx, InsertFlag, LockRow, CommitTx, ExecDelete
<1>3. ASSUME NEW p \in Procs, SyncLock(p) PROVE mutex' = q
  BY <1>3 DEF SyncLock
<1>4. ASSUME NEW h \in Handlers, Reply(h) PROVE mutex' = q
  BY <1>4 DEF Reply
<1>5. ASSUME NEW p \in Procs, Load(p) PROVE mutex' = q
  BY <1>5 DEF Load, LoadStep, ListKeys, LoadRow, LoadVariants, LoadRules,
              NextRow, syncVars
<1>6. ASSUME NEW p \in Procs, Swap(p) \/ SyncFail(p) PROVE mutex' = q
  BY <1>6 DEF Swap, SyncFail, SyncReturn
<1>7. ASSUME NEW p \in Procs, Fault(p) PROVE mutex' = q
  BY <1>7 DEF Fault, Fail, CommitLost, syncVars
<1>8. CASE Crash
  BY <1>8 DEF Crash, Boot
<1>9. CASE UNCHANGED allVars
  BY <1>9 DEF allVars, vars, syncVars
<1> QED
  BY <1>1, <1>2, <1>3, <1>4, <1>5, <1>6, <1>7, <1>8, <1>9
     DEF SyncNext, HandlerStep, InSync, Background

\* The commits that an observation names are numbers.
LEMMA SeenRevs ==
  ASSUME NEW s \in Seen
  PROVE  s.head.rev \in Nat /\ s.variants.rev \in Nat /\ s.rules.rev \in Nat
BY DEF Seen, Row

\* An observation stays in order while the tables move forward.
LEMMA OrderedGrows ==
  ASSUME NEW s \in Seen, NEW k \in Keys, RowGrows, Ordered(s, row[k])
  PROVE  Ordered(s, row'[k])
BY SeenRevs DEF RowGrows, Ordered

\* Only Swap and a crash change the store; Swap and Crash leave the tables.
LEMMA StoreCases ==
  ASSUME [SyncNext]_allVars
  PROVE  \/ store' = store /\ boots' = boots
         \/ Crash
         \/ \E p \in Procs : Swap(p)
<1>1. ASSUME NEW p, Request(p) \/ Write(p) \/ SyncLock(p) \/ Reply(p) \/ Load(p)
                      \/ SyncFail(p) \/ Fault(p)
      PROVE  store' = store /\ boots' = boots
  BY <1>1 DEF Request, Write, SyncLock, Reply, Load, SyncFail, SyncReturn, Fault,
              syncVars
<1>2. CASE UNCHANGED allVars
  BY <1>2 DEF allVars, syncVars
<1> QED
  BY <1>1, <1>2 DEF SyncNext, HandlerStep, InSync

\* At the swap every key was read, in order and no older than the store.
LEMMA SwapFresh ==
  ASSUME IInv, NEW p \in Procs, Swap(p), NEW k \in Keys
  PROVE  /\ Fresh(p, k)
         /\ store'[k] = seen[p][k]
         /\ row' = row /\ key' = key /\ wrote' = wrote /\ acked' = acked
         /\ mutex = p
BY DEF Swap, SyncReturn, IInv, LoadInv, LoadOf, MutexInv, SyncPcs, dbVars, callVars

\* The store holds observations that are in order.
LEMMA NextStore == IInv /\ [SyncNext]_allVars => StoreInv'
<1> SUFFICES ASSUME IInv, [SyncNext]_allVars, NEW k \in Keys
             PROVE  Ordered(store'[k], row'[k])
  BY DEF StoreInv
<1>1. RowGrows
  BY NextRowGrows DEF IInv
<1>2. /\ store \in [Keys -> Seen] /\ row \in [Keys -> Row]
      /\ seen \in [Procs -> [Keys -> Seen]]
  BY DEF IInv, TInv, SyncTypeOK, DataTypeOK
<1>3. CASE store' = store
  BY <1>1, <1>2, <1>3, OrderedGrows DEF IInv, StoreInv
<1>4. CASE Crash
  <2>1. store'[k] = SeenOf(NoRow) /\ row'[k].rev \in Nat
    BY <1>1, <1>4 DEF Crash, Boot, Unseen, RowGrows
  <2> QED
    BY <2>1 DEF Ordered, SeenOf, NoRow
<1>5. ASSUME NEW p \in Procs, Swap(p) PROVE Ordered(store'[k], row'[k])
  BY <1>5, SwapFresh DEF Fresh
<1> QED
  BY <1>3, <1>4, <1>5, StoreCases

\* A swap never takes a key back.
LEMMA StoreForward ==
  ASSUME IInv, [SyncNext]_allVars, boots' = boots, NEW k \in Keys
  PROVE  \/ store'[k] = store[k]
         \/ store[k].rules.rev <= store'[k].head.rev
<1>1. ~Crash
  <2>1. boots \in Nat
    BY DEF IInv, TInv, SyncTypeOK
  <2> QED
    BY <2>1 DEF Crash
<1>2. ASSUME NEW p \in Procs, Swap(p)
      PROVE  store[k].rules.rev <= store'[k].head.rev
  BY <1>2, SwapFresh DEF Fresh
<1> QED
  BY <1>1, <1>2, StoreCases

\* The header of a key in the store never goes back.
LEMMA HeadForward ==
  ASSUME IInv, [SyncNext]_allVars, boots' = boots, NEW k \in Keys
  PROVE  /\ store[k].head.rev \in Nat /\ store'[k].head.rev \in Nat
         /\ store[k].head.rev <= store'[k].head.rev
<1>1. store \in [Keys -> Seen] /\ store' \in [Keys -> Seen]
  BY NextType DEF IInv, TInv, SyncTypeOK
<1>2. /\ store[k].head.rev \in Nat /\ store'[k].head.rev \in Nat
      /\ store[k].rules.rev \in Nat /\ store[k].variants.rev \in Nat
  BY <1>1, SeenRevs
<1>3. store[k].head.rev <= store[k].rules.rev
  BY <1>2 DEF IInv, StoreInv, Ordered
<1> QED
  BY <1>2, <1>3, StoreForward

\* What has been answered 2xx stays in the store.
LEMMA NextAcked == IInv /\ [SyncNext]_allVars => AckedInv'
<1> SUFFICES ASSUME IInv, [SyncNext]_allVars, NEW k \in Keys
             PROVE  acked'[k] <= store'[k].head.rev
  BY DEF AckedInv
<1>1. /\ acked \in [Keys -> Nat] /\ wrote \in [Handlers -> Nat]
      /\ acked[k] <= store[k].head.rev
  BY DEF IInv, TInv, SyncTypeOK, AckedInv
<1>2. CASE acked' = acked /\ boots' = boots
  BY <1>1, <1>2, HeadForward
<1>3. ASSUME NEW h \in Handlers, Reply(h) PROVE acked'[k] <= store'[k].head.rev
  <2>1. store' = store
    BY <1>3 DEF Reply
  <2>2. CASE pc[h] = "synced"
    <3>1. key[h] \in Keys /\ wrote[h] <= store[key[h]].head.rev
      BY <2>2 DEF IInv, TInv, HasKey, WroteInv, WroteOf
    <3> QED
      BY <1>1, <1>3, <2>1, <3>1 DEF Reply
  <2>3. CASE pc[h] # "synced"
    BY <1>1, <1>3, <2>1, <2>3 DEF Reply
  <2> QED
    BY <2>2, <2>3
<1>4. CASE Crash
  BY <1>4 DEF Crash, Boot, Unseen, SeenOf, NoRow
<1>5. ASSUME NEW p, Request(p) \/ Write(p) \/ SyncLock(p) \/ Load(p) \/ Swap(p)
                      \/ SyncFail(p) \/ Fault(p)
      PROVE  acked' = acked /\ boots' = boots
  BY <1>5 DEF Request, Write, SyncLock, Load, Swap, SyncFail, SyncReturn, Fault,
              syncVars
<1>6. CASE UNCHANGED allVars
  BY <1>2, <1>6 DEF allVars, syncVars
<1> QED
  BY <1>2, <1>3, <1>4, <1>5, <1>6 DEF SyncNext, HandlerStep, InSync

\* A step of others, or one that does not end a handler's Sync, keeps its part.
LEMMA WroteFrame ==
  ASSUME IInv, [SyncNext]_allVars, boots' = boots, NEW h \in Handlers,
         key'[h] = key[h], wrote'[h] = wrote[h],
         pc'[h] \notin {"idle", "synced"} \/ pc'[h] = pc[h]
  PROVE  WroteOf(h)'
<1>1. RowGrows
  BY NextRowGrows DEF IInv
<1>2. wrote[h] \in Nat /\ WroteOf(h)
  BY DEF IInv, TInv, SyncTypeOK, WroteInv
<1>3. key[h] \in Keys => wrote[h] <= row'[key[h]].rev
  BY <1>1, <1>2 DEF RowGrows, WroteOf
<1>4. CASE pc'[h] \notin {"idle", "synced"}
  BY <1>2, <1>3, <1>4 DEF WroteOf
<1>5. CASE pc'[h] = pc[h]
  <2>1. ASSUME pc[h] = "synced" PROVE wrote[h] <= store'[key[h]].head.rev
    <3>1. key[h] \in Keys
      BY <2>1 DEF IInv, TInv, HasKey
    <3> QED
      BY <1>2, <2>1, <3>1, HeadForward DEF WroteOf
  <2> QED
    BY <1>2, <1>3, <1>5, <2>1 DEF WroteOf
<1> QED
  BY <1>4, <1>5

\* A handler's commit stays in the tables, and its Sync puts it in the store.
LEMMA NextWrote == IInv /\ [SyncNext]_allVars => WroteInv'
<1> SUFFICES ASSUME IInv, [SyncNext]_allVars, NEW q \in Handlers PROVE WroteOf(q)'
  BY DEF WroteInv
<1>0. RowGrows /\ SyncTypeOK /\ WroteOf(q)
  BY NextRowGrows DEF IInv, TInv, WroteInv
<1> USE DEF SyncTypeOK, DataTypeOK, Goto
<1>1. ASSUME NEW h \in Handlers, Request(h) PROVE WroteOf(q)'
  <2>1. UNCHANGED <<row, boots, wrote>>
    BY <1>1 DEF Request, CreateFlag, UpdateFlag, DeleteFlag, dbVars, syncVars
  <2>2. /\ pc[h] = "idle" /\ pc'[h] \notin {"idle", "synced"}
        /\ q # h => pc'[q] = pc[q] /\ key'[q] = key[q]
    BY <1>0, <1>1 DEF Request, CreateFlag, UpdateFlag, DeleteFlag, Call
  <2>3. CASE q = h
    <3>1. wrote'[q] = 0 /\ \A k \in Keys : 0 <= row'[k].rev
      BY <1>0, <2>1, <2>2, <2>3 DEF WroteOf, RowGrows
    <3> QED
      BY <2>2, <2>3, <3>1 DEF WroteOf
  <2>4. CASE q # h
    BY <2>1, <2>2, <2>4, WroteFrame
  <2> QED
    BY <2>3, <2>4
<1>2. ASSUME NEW h \in Handlers, Write(h) PROVE WroteOf(q)'
  <2>1. /\ boots' = boots /\ key' = key
        /\ q # h => pc'[q] = pc[q] /\ wrote'[q] = wrote[q]
        /\ pc'[h] \notin {"idle", "synced"}
        /\ pc'[h] # "written" => wrote'[h] = wrote[h]
        /\ pc'[h] = "written" => wrote'[h] = commits'
    BY <1>0, <1>2 DEF Write, WriteStep, BeginTx, InsertFlag, LockRow, CommitTx,
                      ExecDelete, callVars
  <2>2. CASE q = h /\ pc'[h] = "written"
    <3>1. Commit(key[h], ver[h], cfg[h]) \/ Commit(key[h], 0, NoConfig)
      BY <1>0, <1>2, <2>2 DEF Write, WriteStep, BeginTx, InsertFlag, LockRow,
                              CommitTx, ExecDelete
    <3>2. key[h] \in Keys => row'[key[h]].rev = commits'
      BY <3>1, CommitGrows DEF IInv, TInv
    <3>3. commits' \in Nat
      BY NextType DEF IInv
    <3> QED
      BY <2>1, <2>2, <3>2, <3>3 DEF WroteOf
  <2>3. CASE q # h \/ pc'[h] # "written"
    BY <2>1, <2>3, WroteFrame
  <2> QED
    BY <2>2, <2>3
<1>3. ASSUME NEW p \in Procs, SyncLock(p) \/ Load(p) \/ SyncFail(p) \/ Fault(p)
      PROVE  WroteOf(q)'
  <2>1. UNCHANGED <<key, wrote, boots>>
    BY <1>3 DEF SyncLock, Load, LoadStep, ListKeys, LoadRow, LoadVariants, LoadRules,
                SyncFail, SyncReturn, Fault, Fail, CommitLost, callVars, syncVars
  <2>2. pc'[q] \notin {"idle", "synced"} \/ pc'[q] = pc[q]
    BY <1>0, <1>3 DEF SyncLock, Load, LoadStep, ListKeys, LoadRow, LoadVariants,
                LoadRules, NextRow, SyncFail, SyncReturn, Fault, Fail, CommitLost
  <2> QED
    BY <2>1, <2>2, WroteFrame
<1>4. ASSUME NEW h \in Handlers, Reply(h) PROVE WroteOf(q)'
  <2>1. CASE q = h
    BY <1>0, <1>4, <2>1 DEF Reply, Call, WroteOf
  <2>2. CASE q # h
    BY <1>0, <1>4, <2>2, WroteFrame DEF Reply, Call
  <2> QED
    BY <2>1, <2>2
<1>5. ASSUME NEW p \in Procs, Swap(p) PROVE WroteOf(q)'
  <2>1. UNCHANGED <<key, wrote, boots, row>>
    BY <1>5 DEF Swap, SyncReturn, callVars, dbVars
  <2>2. CASE q = p
    <3>1. pc[q] = "loaded" /\ pc'[q] = "synced"
      BY <1>0, <1>5, <2>2 DEF Swap, SyncReturn
    <3>2. key[q] \in Keys
      BY <3>1 DEF IInv, TInv, HasKey
    <3>3. wrote[q] <= store'[key[q]].head.rev
      BY <1>5, <2>2, <3>2, SwapFresh DEF Fresh
    <3> QED
      BY <1>0, <2>1, <3>1, <3>3 DEF WroteOf
  <2>3. CASE q # p
    <3>1. pc'[q] = pc[q]
      BY <1>0, <1>5, <2>3 DEF Swap, SyncReturn
    <3> QED
      BY <2>1, <3>1, WroteFrame
  <2> QED
    BY <2>2, <2>3
<1>6. CASE Crash
  BY <1>6 DEF Crash, Boot, WroteOf
<1>7. CASE UNCHANGED allVars
  BY <1>7, WroteFrame DEF allVars, vars, syncVars
<1> QED
  BY <1>1, <1>2, <1>3, <1>4, <1>5, <1>6, <1>7
     DEF SyncNext, HandlerStep, InSync, Background

\* A load that does not move, under the same store, stays fresh.
LEMMA LoadFrame ==
  ASSUME IInv, [SyncNext]_allVars, store' = store, NEW q \in Procs,
         pc'[q] = pc[q], seen'[q] = seen[q], todo'[q] = todo[q], cur'[q] = cur[q],
         key'[q] = key[q], q \in Handlers => wrote'[q] = wrote[q]
  PROVE  LoadOf(q)'
<1>1. RowGrows /\ LoadOf(q) /\ seen[q] \in [Keys -> Seen]
  BY NextRowGrows DEF IInv, TInv, SyncTypeOK, DataTypeOK, LoadInv
<1>2. ASSUME NEW k \in Keys, Fresh(q, k) PROVE Fresh(q, k)'
  BY <1>1, <1>2, OrderedGrows DEF Fresh
<1>3. pc[q] \in {"variants", "rules"} => cur[q] \in Keys
  BY DEF IInv, TInv, SyncTypeOK, DataTypeOK, ReadsKey
<1>4. pc[q] \in {"variants", "rules"} => Fresh(q, cur[q])'
  BY <1>1, <1>2, <1>3 DEF LoadOf
<1> QED
  BY <1>1, <1>2, <1>4 DEF LoadOf

\* A statement of the load itself reads rows no older than the store's.
LEMMA LoadStepFresh ==
  ASSUME IInv, NEW q \in Procs, Load(q)
  PROVE  LoadOf(q)'
<1>1. /\ SyncTypeOK /\ LoadOf(q) /\ StoreInv
      /\ pc[q] \in {"variants", "rules"} => cur[q] \in todo[q] /\ cur[q] \in Keys
  BY DEF IInv, TInv, SyncTypeOK, DataTypeOK, ReadsKey, LoadInv
<1>2. /\ UNCHANGED <<row, store, key, wrote>>
  BY DEF Load, LoadStep, ListKeys, LoadRow, LoadVariants, LoadRules, dbVars,
         callVars, syncVars
<1>3. ASSUME NEW k \in Keys
      PROVE  /\ store[k].rules.rev <= row[k].rev
             /\ row[k].rev \in Nat
             /\ q \in Handlers /\ key[q] = k => wrote[q] <= row[k].rev
  BY <1>1 DEF SyncTypeOK, DataTypeOK, Row, StoreInv, Ordered, IInv, WroteInv, WroteOf
<1>4. ASSUME NEW k \in Keys, seen'[q][k] = SeenOf(row[k]) PROVE Fresh(q, k)'
  BY <1>2, <1>3, <1>4 DEF Fresh, Ordered, SeenOf
<1>5. ASSUME NEW k \in Keys, seen'[q][k] = seen[q][k], Fresh(q, k) PROVE Fresh(q, k)'
  BY <1>2, <1>5 DEF Fresh
<1> USE DEF Goto
<1>6. CASE ListKeys(q)
  <2>1. ASSUME NEW k \in Keys \ todo'[q] PROVE Fresh(q, k)'
    BY <1>1, <1>4, <1>6, <2>1 DEF ListKeys, SyncTypeOK, DataTypeOK
  <2> QED
    BY <1>1, <1>6, <2>1 DEF ListKeys, NextRow, LoadOf, SyncTypeOK, DataTypeOK
<1>7. ASSUME NEW c \in Keys, LoadRow(q, c) PROVE LoadOf(q)'
  <2>1. CASE pc'[q] = "notfound"
    BY <2>1 DEF LoadOf
  <2>2. CASE pc'[q] # "notfound"
    <3>1. /\ pc[q] = "row" /\ pc'[q] = "variants"
          /\ c \in todo[q] /\ todo' = todo /\ cur'[q] = c
          /\ seen'[q] = [seen[q] EXCEPT ![c] = SeenOf(row[c])]
      BY <1>1, <1>7, <2>2 DEF LoadRow, SyncTypeOK, DataTypeOK
    <3>2. seen[q] \in [Keys -> Seen]
      BY <1>1 DEF SyncTypeOK, DataTypeOK
    <3>3. Fresh(q, c)'
      BY <1>4, <3>1, <3>2
    <3>4. ASSUME NEW k \in Keys \ todo'[q] PROVE Fresh(q, k)'
      BY <1>1, <1>5, <3>1, <3>2, <3>4 DEF LoadOf
    <3> QED
      BY <3>1, <3>3, <3>4 DEF LoadOf
  <2> QED
    BY <2>1, <2>2
<1>8. CASE LoadVariants(q)
  <2> DEFINE c == cur[q]
             s == seen[q][c]
  <2>1. /\ pc[q] = "variants" /\ pc'[q] = "rules" /\ c \in Keys /\ c \in todo[q]
        /\ todo' = todo /\ cur' = cur
        /\ seen'[q] = [seen[q] EXCEPT ![c] =
                         [s EXCEPT !.variants = row[c], !.rules = row[c]]]
    BY <1>1, <1>8 DEF LoadVariants, SyncTypeOK, DataTypeOK
  <2>2. seen[q] \in [Keys -> Seen] /\ s \in Seen
    BY <1>1, <2>1 DEF SyncTypeOK, DataTypeOK
  <2>3. Fresh(q, c)
    BY <1>1, <2>1 DEF LoadOf
  <2>4. /\ seen'[q][c].head = s.head
        /\ seen'[q][c].variants = row[c] /\ seen'[q][c].rules = row[c]
    BY <2>1, <2>2 DEF Seen
  <2>5. s.head.rev <= row[c].rev
    BY <1>3, <2>1, <2>2, <2>3, SeenRevs DEF Fresh, Ordered
  <2>6. Fresh(q, c)'
    BY <1>2, <1>3, <2>1, <2>3, <2>4, <2>5 DEF Fresh, Ordered
  <2>7. ASSUME NEW k \in Keys \ todo'[q] PROVE Fresh(q, k)'
    BY <1>1, <1>5, <2>1, <2>2, <2>7 DEF LoadOf
  <2> QED
    BY <2>1, <2>6, <2>7 DEF LoadOf
<1>9. CASE LoadRules(q)
  <2> DEFINE c == cur[q]
             s == seen[q][c]
  <2>1. /\ pc[q] = "rules" /\ c \in Keys /\ c \in todo[q]
        /\ pc'[q] = NextRow(todo[q] \ {c})
        /\ todo'[q] = todo[q] \ {c} /\ cur' = cur
        /\ seen'[q] = [seen[q] EXCEPT ![c] = [s EXCEPT !.rules = row[c]]]
    BY <1>1, <1>9 DEF LoadRules, SyncTypeOK, DataTypeOK
  <2>2. seen[q] \in [Keys -> Seen] /\ s \in Seen
    BY <1>1, <2>1 DEF SyncTypeOK, DataTypeOK
  <2>3. Fresh(q, c)
    BY <1>1, <2>1 DEF LoadOf
  <2>4. /\ seen'[q][c].head = s.head /\ seen'[q][c].variants = s.variants
        /\ seen'[q][c].rules = row[c]
    BY <2>1, <2>2 DEF Seen
  <2>5. s.variants.rev <= row[c].rev
    BY <1>3, <2>1, <2>2, <2>3, SeenRevs DEF Fresh, Ordered
  <2>6. Fresh(q, c)'
    BY <1>2, <1>3, <2>1, <2>3, <2>4, <2>5 DEF Fresh, Ordered
  <2>7. ASSUME NEW k \in Keys \ todo'[q] PROVE Fresh(q, k)'
    <3>1. CASE k = c
      BY <2>1, <2>6, <3>1
    <3>2. CASE k # c
      BY <1>1, <1>5, <2>1, <2>2, <2>7, <3>2 DEF LoadOf
    <3> QED
      BY <3>1, <3>2
  <2> QED
    BY <2>1, <2>7 DEF LoadOf, NextRow
<1> QED
  BY <1>6, <1>7, <1>8, <1>9 DEF Load, LoadStep

\* Every step keeps what loads in progress know of the store.
LEMMA NextLoad == IInv /\ [SyncNext]_allVars => LoadInv'
<1> SUFFICES ASSUME IInv, [SyncNext]_allVars, NEW q \in Procs PROVE LoadOf(q)'
  BY DEF LoadInv
<1>0. SyncTypeOK
  BY DEF IInv, TInv
<1> USE DEF SyncTypeOK, DataTypeOK, Goto
<1>1. ASSUME NEW h \in Handlers, Request(h) PROVE LoadOf(q)'
  <2>1. /\ UNCHANGED <<store, seen, todo, cur, wrote>>
        /\ q # h => pc'[q] = pc[q] /\ key'[q] = key[q]
        /\ pc'[h] \notin SyncPcs
    BY <1>0, <1>1 DEF Request, CreateFlag, UpdateFlag, DeleteFlag, Call, SyncPcs,
                      loadVars, syncVars
  <2>2. CASE q = h
    BY <2>1, <2>2 DEF LoadOf, SyncPcs
  <2>3. CASE q # h
    BY <2>1, <2>3, LoadFrame
  <2> QED
    BY <2>2, <2>3
<1>2. ASSUME NEW h \in Handlers, Write(h) PROVE LoadOf(q)'
  <2>1. /\ UNCHANGED <<store, seen, todo, cur, key>>
        /\ q # h => pc'[q] = pc[q] /\ (q \in Handlers => wrote'[q] = wrote[q])
        /\ pc'[h] \notin SyncPcs
    BY <1>0, <1>2 DEF Write, WriteStep, BeginTx, InsertFlag, LockRow, CommitTx,
                      ExecDelete, SyncPcs, loadVars, callVars
  <2>2. CASE q = h
    BY <2>1, <2>2 DEF LoadOf, SyncPcs
  <2>3. CASE q # h
    BY <2>1, <2>3, LoadFrame
  <2> QED
    BY <2>2, <2>3
<1>3. ASSUME NEW p \in Procs, SyncLock(p) \/ SyncFail(p) \/ Fault(p)
      PROVE  LoadOf(q)'
  <2>1. /\ UNCHANGED <<store, key, wrote>>
        /\ q # p => /\ pc'[q] = pc[q] /\ seen'[q] = seen[q]
                    /\ todo'[q] = todo[q] /\ cur'[q] = cur[q]
        /\ pc'[p] \notin {"row", "variants", "rules", "loaded"}
    BY <1>0, <1>3 DEF SyncLock, SyncFail, SyncReturn, Fault, Fail, CommitLost,
                      loadVars, callVars, syncVars
  <2>2. CASE q = p
    BY <2>1, <2>2 DEF LoadOf
  <2>3. CASE q # p
    BY <2>1, <2>3, LoadFrame
  <2> QED
    BY <2>2, <2>3
<1>4. ASSUME NEW h \in Handlers, Reply(h) PROVE LoadOf(q)'
  <2>1. CASE q = h
    BY <1>0, <1>4, <2>1 DEF Reply, LoadOf
  <2>2. CASE q # h
    BY <1>0, <1>4, <2>2, LoadFrame DEF Reply, Call, loadVars
  <2> QED
    BY <2>1, <2>2
<1>5. ASSUME NEW p \in Procs, Load(p) PROVE LoadOf(q)'
  <2>1. CASE q = p
    BY <1>5, <2>1, LoadStepFresh
  <2>2. CASE q # p
    <3>1. /\ UNCHANGED <<store, key, wrote>>
          /\ pc'[q] = pc[q] /\ seen'[q] = seen[q]
          /\ todo'[q] = todo[q] /\ cur'[q] = cur[q]
      BY <1>0, <1>5, <2>2 DEF Load, LoadStep, ListKeys, LoadRow, LoadVariants,
                              LoadRules, loadVars, callVars, syncVars
    <3> QED
      BY <3>1, LoadFrame
  <2> QED
    BY <2>1, <2>2
<1>6. ASSUME NEW p \in Procs, Swap(p) PROVE LoadOf(q)'
  <2>1. pc'[q] \notin {"row", "variants", "rules", "loaded"}
    <3>1. CASE q = p
      BY <1>0, <1>6, <3>1 DEF Swap, SyncReturn
    <3>2. CASE q # p
      <4>1. mutex = p
        BY <1>6 DEF Swap, IInv, MutexInv, SyncPcs
      <4>2. pc'[q] = pc[q]
        BY <1>0, <1>6, <3>2 DEF Swap, SyncReturn
      <4> QED
        BY <3>2, <4>1, <4>2 DEF IInv, MutexInv, SyncPcs
    <3> QED
      BY <3>1, <3>2
  <2> QED
    BY <2>1 DEF LoadOf
<1>7. CASE Crash
  BY <1>7 DEF Crash, Boot, LoadOf
<1>8. CASE UNCHANGED allVars
  BY <1>8, LoadFrame DEF allVars, vars, syncVars
<1> QED
  BY <1>1, <1>2, <1>3, <1>4, <1>5, <1>6, <1>7, <1>8
     DEF SyncNext, HandlerStep, InSync, Background

-----------------------------------------------------------------------------
(* The theorems                                                            *)

\* The invariant is inductive.
LEMMA NextIInv == IInv /\ [SyncNext]_allVars => IInv'
<1> SUFFICES ASSUME IInv, [SyncNext]_allVars PROVE IInv'
  OBVIOUS
<1>1. TInv'
  BY NextType, NextReadsKey, NextHasKey DEF IInv, TInv
<1>2. RowInv'
  BY NextRowGrows DEF IInv, RowInv, RowGrows
<1> QED
  BY <1>1, <1>2, NextMutex, NextStore, NextLoad, NextWrote, NextAcked DEF IInv

\* The invariant holds throughout.
THEOREM Invariance == SyncSpec => []IInv
BY InitIInv, NextIInv, PTL DEF SyncSpec

\* At most one goroutine is between the first and the last line of Sync.
THEOREM SyncMutualExclusion == SyncSpec => []MutexInv
<1>1. IInv => MutexInv
  BY DEF IInv
<1> QED
  BY <1>1, Invariance, PTL

\* Until the program restarts, no refresh takes a flag back in time.
THEOREM NoStaleInstall == SyncSpec => InstalledInOrder
<1>1. IInv /\ [SyncNext]_allVars =>
        [boots' = boots =>
           \A k \in Keys : store'[k] # store[k] =>
                             store[k].rules.rev <= store'[k].head.rev]_allVars
  BY StoreForward
<1> QED
  BY <1>1, Invariance, PTL DEF SyncSpec, InstalledInOrder

-----------------------------------------------------------------------------
(* Refreshes that are owed.  While nothing fails, the store is behind the  *)
(* tables only if a handler owes the refresh: the argument follows a load  *)
(* that misses a commit to the handler that made that commit and has yet   *)
(* to lock the mutex.                                                      *)

Healthy == faults = 0 /\ boots = 1

\* A handler has committed and waits for the mutex.
Owed == \E h \in Handlers : pc[h] = "written"

\* Where the holder of the mutex can be, and that it fails for a reason.
HolderAt ==
  \A p \in Procs :
    mutex = p => /\ pc[p] \in SyncPcs \cup {"notfound", "failed"}
                 /\ pc[p] = "failed" => faults > 0

\* What the holder read of k is not what the tables hold now.
Behind(p, k) == seen[p][k].head.rev < row[k].rev

\* Unless a refresh is owed, the holder has read nothing that has changed since
\* and listed nothing that is gone.
NoDebtOf(p) ==
  /\ pc[p] \in {"row", "variants", "rules", "loaded"} =>
       \A k \in Keys \ todo[p] : ~Behind(p, k)
  /\ pc[p] \in {"variants", "rules"} => ~Behind(p, cur[p])
  /\ pc[p] \in {"row", "variants", "rules"} => \A k \in todo[p] : Present(row[k])
  /\ pc[p] # "notfound"

LoadDebt == ~Owed => \A p \in Procs : mutex = p => NoDebtOf(p)

StoreDebt ==
  (\E k \in Keys : store[k].head.rev < row[k].rev) => Owed \/ mutex \in Handlers

DebtInv ==
  /\ boots \in Nat /\ boots >= 1 /\ faults \in Nat
  /\ HolderAt
  /\ Healthy => LoadDebt /\ StoreDebt

-----------------------------------------------------------------------------
(* Each part is kept                                                       *)

\* The first program starts with an empty store, which is all it has been told.
LEMMA InitDebt == SyncInit => DebtInv
<1> SUFFICES ASSUME SyncInit PROVE DebtInv
  OBVIOUS
<1>1. HolderAt /\ LoadDebt
  BY DEF SyncInit, HolderAt, LoadDebt
<1>2. \A k \in Keys : row[k].rev = 0 /\ store[k].head.rev = 0
  BY DEF SyncInit, Init, NoRow, Unseen, SeenOf
<1>3. StoreDebt
  BY <1>2 DEF StoreDebt
<1> QED
  BY <1>1, <1>3 DEF SyncInit, Init, DebtInv

\* The holder of the mutex is in Sync until it unlocks.
LEMMA NextHolder == IInv /\ DebtInv /\ [SyncNext]_allVars => HolderAt'
<1> SUFFICES ASSUME IInv, DebtInv, [SyncNext]_allVars, NEW q \in Procs, mutex' = q
             PROVE  /\ pc'[q] \in SyncPcs \cup {"notfound", "failed"}
                    /\ pc'[q] = "failed" => faults' > 0
  BY DEF HolderAt
<1>0. /\ pc \in [Procs -> SyncLabels] /\ HolderAt /\ faults \in Nat
      /\ \A p \in Procs : pc[p] \in SyncPcs => mutex = p
  BY DEF IInv, TInv, SyncTypeOK, SyncLabels, DebtInv, MutexInv
<1> DEFINE Kept == /\ pc'[q] \in SyncPcs \cup {"notfound", "failed"}
                   /\ pc'[q] = "failed" => faults' > 0
<1>1. ASSUME mutex' = mutex, faults' = faults, pc'[q] = pc[q] PROVE Kept
  BY <1>0, <1>1 DEF HolderAt
<1> USE DEF Goto
<1>2. ASSUME NEW h \in Handlers, Request(h) \/ Write(h) \/ Reply(h) PROVE Kept
  <2>1. mutex' = mutex /\ faults' = faults
    BY <1>2 DEF Request, CreateFlag, UpdateFlag, DeleteFlag, Write, WriteStep,
                BeginTx, InsertFlag, LockRow, CommitTx, ExecDelete, Reply, syncVars
  <2>2. mutex # h
    BY <1>0, <1>2 DEF Request, CreateFlag, UpdateFlag, DeleteFlag, Write, WriteStep,
                BeginTx, InsertFlag, LockRow, CommitTx, ExecDelete, Reply, HolderAt,
                SyncPcs
  <2>3. pc'[q] = pc[q]
    BY <1>0, <1>2, <2>1, <2>2
       DEF Request, CreateFlag, UpdateFlag, DeleteFlag, Write, WriteStep,
           BeginTx, InsertFlag, LockRow, CommitTx, ExecDelete, Reply
  <2> QED
    BY <1>1, <2>1, <2>3
<1>3. ASSUME NEW p \in Procs, SyncLock(p) PROVE Kept
  BY <1>0, <1>3 DEF SyncLock, SyncPcs
<1>4. ASSUME NEW p \in Procs, Load(p) PROVE Kept
  <2>1. mutex' = mutex /\ faults' = faults
    BY <1>4 DEF Load, LoadStep, ListKeys, LoadRow, LoadVariants, LoadRules, syncVars
  <2>2. \E label \in SyncPcs \cup {"notfound"} : Goto(p, label)
    BY <1>4 DEF Load, LoadStep, ListKeys, LoadRow, LoadVariants, LoadRules, NextRow,
                SyncPcs
  <2> QED
    BY <1>0, <1>1, <2>1, <2>2 DEF SyncPcs
<1>5. ASSUME NEW p \in Procs, Swap(p) \/ SyncFail(p) PROVE Kept
  BY <1>5 DEF Swap, SyncFail, SyncReturn
<1>6. ASSUME NEW p \in Procs, Fault(p) PROVE Kept
  <2>1. mutex' = mutex /\ faults' = faults + 1 /\ Goto(p, "failed")
    BY <1>6 DEF Fault, Fail, CommitLost, syncVars
  <2> QED
    BY <1>0, <2>1 DEF HolderAt
<1>7. CASE Crash
  BY <1>7 DEF Crash, Boot
<1>8. CASE UNCHANGED allVars
  BY <1>1, <1>8 DEF allVars, vars, syncVars
<1> QED
  BY <1>2, <1>3, <1>4, <1>5, <1>6, <1>7, <1>8
     DEF SyncNext, HandlerStep, InSync, Background

\* A step of a healthy program that leaves no refresh owed commits nothing, and
\* only a handler that locks the mutex pays the debt.
LEMMA DebtPaid ==
  ASSUME IInv, DebtInv, [SyncNext]_allVars, Healthy', ~Owed'
  PROVE  /\ Healthy /\ row' = row
         /\ ~Owed \/ \E h \in Handlers : SyncLock(h)
         /\ \A p \in Procs : ~Fault(p)
         /\ ~Crash
<1>0. pc \in [Procs -> SyncLabels] /\ boots \in Nat /\ boots >= 1 /\ faults \in Nat
  BY DEF IInv, TInv, SyncTypeOK, SyncLabels, DebtInv
<1>1. ~Crash /\ \A p \in Procs : ~Fault(p)
  <2>1. ASSUME NEW p \in Procs, Fault(p) PROVE FALSE
    BY <1>0, <2>1 DEF Fault, Fail, CommitLost, Healthy
  <2>2. ASSUME Crash PROVE FALSE
    BY <1>0, <2>2 DEF Crash, Healthy
  <2> QED
    BY <2>1, <2>2
<1> USE DEF Goto
<1>2. ASSUME NEW h \in Handlers, Write(h) PROVE row' = row /\ pc[h] # "written"
  <2>1. pc'[h] # "written"
    BY DEF Owed
  <2> QED
    BY <1>0, <1>2, <2>1 DEF Write, WriteStep, BeginTx, InsertFlag, LockRow, CommitTx,
                            ExecDelete, dbVars
<1>3. row' = row
  <2>1. ASSUME NEW p \in Procs, Request(p) \/ SyncLock(p) \/ Reply(p) \/ InSync(p)
        PROVE  row' = row
    BY <2>1 DEF Request, CreateFlag, UpdateFlag, DeleteFlag, SyncLock, Reply,
       InSync, Load, LoadStep, ListKeys, LoadRow, LoadVariants, LoadRules, Swap,
       SyncFail, SyncReturn, dbVars
  <2>2. UNCHANGED allVars => row' = row
    BY DEF allVars, vars
  <2> QED
    BY <1>1, <1>2, <2>1, <2>2 DEF SyncNext, HandlerStep, Background
<1>4. faults' = faults /\ boots' = boots
  <2>1. ASSUME NEW p \in Procs,
               Request(p) \/ Write(p) \/ SyncLock(p) \/ Reply(p) \/ InSync(p)
        PROVE  faults' = faults /\ boots' = boots
    BY <2>1 DEF Request, CreateFlag, UpdateFlag, DeleteFlag, Write, WriteStep,
       BeginTx, InsertFlag, LockRow, CommitTx, ExecDelete, SyncLock, Reply,
       InSync, Load, LoadStep, ListKeys, LoadRow, LoadVariants, LoadRules, Swap,
       SyncFail, SyncReturn, syncVars
  <2>2. UNCHANGED allVars => faults' = faults /\ boots' = boots
    BY DEF allVars, vars, syncVars
  <2> QED
    BY <1>1, <2>1, <2>2 DEF SyncNext, HandlerStep, Background
<1>5. ASSUME NEW g \in Handlers, pc[g] = "written"
      PROVE  \E h \in Handlers : SyncLock(h)
  <2>1. pc'[g] # "written"
    BY DEF Owed
  <2>2. ASSUME NEW h \in Handlers, Request(h) \/ Reply(h) PROVE FALSE
    BY <1>0, <1>5, <2>1, <2>2 DEF Request, CreateFlag, UpdateFlag, DeleteFlag, Reply
  <2>3. ASSUME NEW p \in Procs, InSync(p) PROVE FALSE
    BY <1>0, <1>5, <2>1, <2>3 DEF InSync, Load, LoadStep, ListKeys, LoadRow,
       LoadVariants, LoadRules, Swap, SyncFail, SyncReturn
  <2>4. ASSUME NEW p \in Background, SyncLock(p) PROVE FALSE
    BY <1>0, <1>5, <2>1, <2>4 DEF SyncLock
  <2>5. ~UNCHANGED allVars
    BY <1>5, <2>1 DEF allVars, vars
  <2>6. ASSUME NEW h \in Handlers, Write(h) PROVE FALSE
    BY <1>0, <1>2, <1>5, <2>1, <2>6 DEF Write, WriteStep, BeginTx, InsertFlag,
       LockRow, CommitTx, ExecDelete
  <2> QED
    BY <1>1, <2>2, <2>3, <2>4, <2>5, <2>6 DEF SyncNext, HandlerStep
<1> QED
  BY <1>1, <1>3, <1>4, <1>5 DEF Healthy, Owed

\* A statement of the load reads what the tables hold, and a key that is gone
\* is missed only if a refresh is owed.
LEMMA LoadStepDebt ==
  ASSUME IInv, NEW p \in Procs, Load(p), NoDebtOf(p)
  PROVE  NoDebtOf(p)'
<1>1. /\ SyncTypeOK /\ row' = row /\ seen[p] \in [Keys -> Seen]
      /\ \A k \in Keys : row[k].rev \in Nat
      /\ pc[p] \in {"variants", "rules"} => cur[p] \in todo[p] /\ cur[p] \in Keys
  BY DEF IInv, TInv, SyncTypeOK, DataTypeOK, ReadsKey, Row, Load, LoadStep,
         ListKeys, LoadRow, LoadVariants, LoadRules, dbVars
<1>2. ASSUME NEW k \in Keys, seen'[p][k].head = row[k] PROVE ~Behind(p, k)'
  BY <1>1, <1>2 DEF Behind
<1>3. ASSUME NEW k \in Keys, seen'[p][k].head = seen[p][k].head, ~Behind(p, k)
      PROVE  ~Behind(p, k)'
  BY <1>1, <1>3 DEF Behind
<1> USE DEF Goto
<1>4. CASE ListKeys(p)
  <2> DEFINE found == {k \in Keys : Present(row[k])}
  <2>1. /\ todo'[p] = found /\ pc'[p] \in {"row", "loaded"}
        /\ \A k \in Keys \ found : seen'[p][k] = SeenOf(row[k])
    BY <1>1, <1>4 DEF ListKeys, NextRow, SyncTypeOK, DataTypeOK
  <2>2. \A k \in todo'[p] : k \in Keys /\ Present(row[k])
    BY <2>1
  <2> HIDE DEF found
  <2>3. ASSUME NEW k \in Keys \ todo'[p] PROVE ~Behind(p, k)'
    <3>1. seen'[p][k] = SeenOf(row[k])
      BY <2>1
    <3>2. seen'[p][k].head = row[k]
      BY <3>1 DEF SeenOf
    <3> QED
      BY <1>2, <3>2
  <2> QED
    BY <1>1, <2>1, <2>2, <2>3 DEF NoDebtOf
<1>5. ASSUME NEW c \in Keys, LoadRow(p, c) PROVE NoDebtOf(p)'
  <2>1. pc[p] = "row" /\ c \in todo[p] /\ Present(row[c])
    BY <1>5 DEF LoadRow, NoDebtOf
  <2>2. /\ pc'[p] = "variants" /\ todo' = todo /\ cur'[p] = c
        /\ seen'[p] = [seen[p] EXCEPT ![c] = SeenOf(row[c])]
    BY <1>1, <1>5, <2>1 DEF LoadRow, SyncTypeOK, DataTypeOK
  <2>3. ~Behind(p, c)'
    BY <1>1, <1>2, <2>2 DEF SeenOf
  <2>4. ASSUME NEW k \in Keys \ todo'[p] PROVE ~Behind(p, k)'
    BY <1>1, <1>3, <2>1, <2>2, <2>4 DEF NoDebtOf
  <2> QED
    BY <1>1, <2>1, <2>2, <2>3, <2>4 DEF NoDebtOf
<1>6. ASSUME LoadVariants(p) \/ LoadRules(p), NEW k \in Keys
      PROVE  seen'[p][k].head = seen[p][k].head
  <2>1. CASE k = cur[p]
    <3>1. seen[p][k] \in Seen
      BY <1>1
    <3>2. CASE LoadVariants(p)
      <4>1. seen'[p] = [seen[p] EXCEPT ![k] = [seen[p][k] EXCEPT
                                                 !.variants = row[k], !.rules = row[k]]]
        BY <1>1, <2>1, <3>2 DEF LoadVariants, SyncTypeOK, DataTypeOK
      <4> QED
        BY <1>1, <3>1, <4>1 DEF Seen
    <3>3. CASE LoadRules(p)
      <4>1. seen'[p] = [seen[p] EXCEPT ![k] = [seen[p][k] EXCEPT !.rules = row[k]]]
        BY <1>1, <2>1, <3>3 DEF LoadRules, SyncTypeOK, DataTypeOK
      <4> QED
        BY <1>1, <3>1, <4>1 DEF Seen
    <3> QED
      BY <1>6, <3>2, <3>3
  <2>2. CASE k # cur[p]
    BY <1>1, <1>6, <2>2 DEF LoadVariants, LoadRules, SyncTypeOK, DataTypeOK
  <2> QED
    BY <2>1, <2>2
<1>7. CASE LoadVariants(p)
  <2>1. pc[p] = "variants" /\ pc'[p] = "rules" /\ todo' = todo /\ cur' = cur
    BY <1>1, <1>7 DEF LoadVariants, SyncTypeOK, DataTypeOK
  <2>2. \A k \in Keys : ~Behind(p, k) => ~Behind(p, k)'
    BY <1>3, <1>6, <1>7
  <2>3. (~Behind(p, cur[p]))'
    BY <1>1, <2>1, <2>2 DEF NoDebtOf
  <2> QED
    BY <1>1, <2>1, <2>2, <2>3 DEF NoDebtOf
<1>8. CASE LoadRules(p)
  <2>1. /\ pc[p] = "rules" /\ pc'[p] \in {"row", "loaded"}
        /\ todo'[p] = todo[p] \ {cur[p]}
    BY <1>1, <1>8 DEF LoadRules, NextRow, SyncTypeOK, DataTypeOK
  <2>2. \A k \in Keys : ~Behind(p, k) => ~Behind(p, k)'
    BY <1>3, <1>6, <1>8
  <2>3. \A k \in Keys \ todo'[p] : ~Behind(p, k)'
    BY <1>1, <2>1, <2>2 DEF NoDebtOf
  <2> QED
    BY <1>1, <2>1, <2>3 DEF NoDebtOf
<1> QED
  BY <1>4, <1>5, <1>7, <1>8 DEF Load, LoadStep

\* No step hides a debt.
LEMMA NextLoadStore ==
  IInv /\ DebtInv /\ [SyncNext]_allVars => (Healthy' => LoadDebt' /\ StoreDebt')
<1> SUFFICES ASSUME IInv, DebtInv, [SyncNext]_allVars, Healthy'
             PROVE  LoadDebt' /\ StoreDebt'
  OBVIOUS
<1>1. CASE Owed'
  BY <1>1 DEF LoadDebt, StoreDebt
<1>2. CASE ~Owed'
  <2>0. /\ Healthy /\ row' = row /\ LoadDebt /\ StoreDebt
        /\ ~Owed \/ \E h \in Handlers : SyncLock(h)
        /\ ~Crash /\ \A p \in Procs : ~Fault(p)
    BY <1>2, DebtPaid DEF DebtInv
  <2>1. /\ pc \in [Procs -> SyncLabels] /\ mutex \in Procs \cup {NoProc} /\ HolderAt
        /\ \A p \in Procs : pc[p] \in SyncPcs => mutex = p
    BY DEF IInv, TInv, SyncTypeOK, SyncLabels, DebtInv, MutexInv
  <2>2. ASSUME NEW p \in Procs, SyncLock(p) PROVE LoadDebt' /\ StoreDebt'
    <3>1. mutex' = p /\ pc'[p] = "list" /\ mutex = NoProc /\ store' = store
      BY <2>1, <2>2 DEF SyncLock, Goto
    <3>2. NoDebtOf(p)'
      BY <3>1 DEF NoDebtOf
    <3>3. LoadDebt'
      BY <3>1, <3>2 DEF LoadDebt
    <3>4. CASE p \in Handlers
      BY <3>1, <3>3, <3>4 DEF StoreDebt
    <3>5. CASE p \notin Handlers
      <4>1. ~Owed
        BY <1>2, <2>1, <2>2, <3>5 DEF SyncLock, Goto, Owed
      <4> QED
        BY <2>0, <3>1, <3>3, <4>1 DEF StoreDebt
    <3> QED
      BY <3>4, <3>5
  <2>3. ASSUME ~Owed, UNCHANGED <<store, mutex>>,
               \A p \in Procs : mutex = p => NoDebtOf(p)'
        PROVE  LoadDebt' /\ StoreDebt'
    BY <2>0, <2>3 DEF LoadDebt, StoreDebt
  <2>4. CASE ~Owed
    <3>1. \A p \in Procs : mutex = p => NoDebtOf(p)
      BY <2>0, <2>4 DEF LoadDebt
    <3>2. ASSUME NEW h \in Handlers, Request(h) \/ Write(h) \/ Reply(h)
          PROVE  LoadDebt' /\ StoreDebt'
      <4>1. UNCHANGED <<store, mutex, seen, todo, cur>>
        BY <3>2 DEF Request, CreateFlag, UpdateFlag, DeleteFlag, Write, WriteStep,
           BeginTx, InsertFlag, LockRow, CommitTx, ExecDelete, Reply, loadVars,
           syncVars
      <4>2. mutex # h
        BY <2>1, <3>2 DEF Request, CreateFlag, UpdateFlag, DeleteFlag, Write,
           WriteStep, BeginTx, InsertFlag, LockRow, CommitTx, ExecDelete, Reply,
           HolderAt, SyncPcs
      <4>3. \A p \in Procs \ {h} : pc'[p] = pc[p]
        BY <2>1, <3>2 DEF Request, CreateFlag, UpdateFlag, DeleteFlag, Write,
           WriteStep, BeginTx, InsertFlag, LockRow, CommitTx, ExecDelete, Reply, Goto
      <4>4. \A p \in Procs : mutex = p => NoDebtOf(p)'
        BY <2>0, <3>1, <4>1, <4>2, <4>3 DEF NoDebtOf, Behind
      <4> QED
        BY <2>3, <2>4, <4>1, <4>4
    <3>3. ASSUME NEW p \in Procs, Load(p) PROVE LoadDebt' /\ StoreDebt'
      <4>1. mutex = p /\ UNCHANGED <<store, mutex>>
        BY <2>1, <3>3 DEF Load, LoadStep, ListKeys, LoadRow, LoadVariants, LoadRules,
                          SyncPcs, syncVars
      <4>2. NoDebtOf(p)'
        BY <3>1, <3>3, <4>1, LoadStepDebt
      <4> QED
        BY <2>3, <2>4, <4>1, <4>2
    <3>4. ASSUME NEW p \in Procs, Swap(p) PROVE LoadDebt' /\ StoreDebt'
      <4>1. /\ pc[p] = "loaded" /\ mutex = p /\ todo[p] = {}
            /\ store' = seen[p] /\ mutex' = NoProc
        BY <2>1, <3>4 DEF Swap, SyncReturn, SyncPcs, IInv, LoadInv, LoadOf
      <4>2. \A k \in Keys : ~Behind(p, k)
        BY <3>1, <4>1 DEF NoDebtOf
      <4> QED
        BY <2>0, <4>1, <4>2 DEF LoadDebt, StoreDebt, Behind
    <3>5. ASSUME NEW p \in Procs, SyncFail(p) PROVE FALSE
      <4>1. faults = 0
        BY <2>0 DEF Healthy
      <4> QED
        BY <2>1, <3>1, <3>5, <4>1 DEF SyncFail, HolderAt, NoDebtOf
    <3>6. CASE UNCHANGED allVars
      BY <2>3, <2>4, <3>1, <3>6 DEF allVars, vars, syncVars, NoDebtOf, Behind
    <3> QED
      BY <2>0, <2>2, <3>2, <3>3, <3>4, <3>5, <3>6
         DEF SyncNext, HandlerStep, InSync, Background
  <2> QED
    BY <2>0, <2>2, <2>4
<1> QED
  BY <1>1, <1>2

\* Every step keeps the invariant.
LEMMA NextDebt == IInv /\ DebtInv /\ [SyncNext]_allVars => DebtInv'
<1> SUFFICES ASSUME IInv, DebtInv, [SyncNext]_allVars PROVE DebtInv'
  OBVIOUS
<1>1. boots' \in Nat /\ faults' \in Nat
  BY NextType DEF IInv, TInv, SyncTypeOK, DataTypeOK
<1>2. boots' >= 1
  <2>1. ASSUME NEW p, Request(p) \/ Write(p) \/ SyncLock(p) \/ Reply(p) \/ Load(p)
                        \/ Swap(p) \/ SyncFail(p) \/ Fault(p)
        PROVE  boots' = boots
    BY <2>1 DEF Request, Write, SyncLock, Reply, Load, Swap, SyncFail, SyncReturn,
                Fault, syncVars
  <2>2. CASE UNCHANGED allVars
    BY <2>2 DEF allVars, syncVars, DebtInv
  <2>3. CASE Crash
    BY <2>3 DEF Crash, DebtInv
  <2> QED
    BY <2>1, <2>2, <2>3 DEF SyncNext, HandlerStep, InSync, DebtInv
<1> QED
  BY <1>1, <1>2, NextHolder, NextLoadStore DEF DebtInv

\* The strengthened invariant holds throughout.
THEOREM OwedInvariance == SyncSpec => []DebtInv
BY InitDebt, NextDebt, Invariance, PTL DEF SyncSpec

\* The store is behind the tables only while a handler that has committed waits
\* for the mutex or holds it, as long as nothing fails and nothing crashes.
THEOREM RefreshIsOwed == SyncSpec => []RefreshOwed
<1>1. DebtInv => RefreshOwed
  BY DEF DebtInv, Healthy, StoreDebt, Owed, RefreshOwed
<1> QED
  BY <1>1, OwedInvariance, PTL

-----------------------------------------------------------------------------
(* Waiting.  The mutex, the connections and the row locks are taken in     *)
(* this order, so that waits make no cycle.                                *)

\* The poller and the listener do nothing outside Sync.
ReadersInSync == \A p \in Background : pc[p] # "idle" => mutex = p

\* A load that is about to read a row has one to read.
RowsLeft == \A p \in Procs : pc[p] = "row" => todo[p] # {}

WaitInv == ReadersInSync /\ RowsLeft

\* Only the end of Sync and a crash take the mutex from a process.
LEMMA NextReaders == IInv /\ ReadersInSync /\ [SyncNext]_allVars => ReadersInSync'
<1> SUFFICES ASSUME SyncTypeOK, MutexInv, ReadersInSync, [SyncNext]_allVars,
                    NEW q \in Background, pc'[q] # "idle"
             PROVE  mutex' = q
  BY DEF IInv, TInv, ReadersInSync
<1> USE DEF SyncTypeOK, ReadersInSync, Goto, Background
<1>1. ASSUME NEW h \in Handlers, Request(h) \/ Write(h) \/ Reply(h)
      PROVE  mutex' = q
  <2>1. mutex' = mutex /\ pc'[q] = pc[q]
    BY <1>1 DEF Request, CreateFlag, UpdateFlag, DeleteFlag, Write, WriteStep,
                BeginTx, InsertFlag, LockRow, CommitTx, ExecDelete, Reply, syncVars
  <2> QED
    BY <2>1
<1>2. ASSUME NEW p \in Procs, SyncLock(p) PROVE mutex' = q
  BY <1>2 DEF SyncLock
<1>3. ASSUME NEW p \in Procs, Load(p) PROVE mutex' = q
  <2>1. mutex' = mutex /\ mutex = p
    BY <1>3 DEF Load, LoadStep, ListKeys, LoadRow, LoadVariants, LoadRules,
                syncVars, MutexInv, SyncPcs
  <2>2. q # p => pc'[q] = pc[q]
    BY <1>3 DEF Load, LoadStep, ListKeys, LoadRow, LoadVariants, LoadRules
  <2> QED
    BY <2>1, <2>2
<1>4. ASSUME NEW p \in Procs, Swap(p) \/ SyncFail(p) PROVE mutex' = q
  <2>1. mutex = p
    BY <1>4 DEF Swap, SyncFail, MutexInv, SyncPcs
  <2>2. pc' = [pc EXCEPT ![p] = pc'[p]] /\ (p \in Background => pc'[p] = "idle")
    BY <1>4 DEF Swap, SyncFail, SyncReturn
  <2> QED
    BY <2>1, <2>2
<1>5. ASSUME NEW p \in Procs, Fault(p) PROVE mutex' = q
  <2>1. mutex' = mutex /\ pc[p] # "idle" /\ Goto(p, "failed")
    BY <1>5 DEF Fault, Fail, CommitLost, Statements, syncVars
  <2> QED
    BY <2>1
<1>6. CASE Crash
  BY <1>6 DEF Crash, Boot
<1>7. CASE UNCHANGED allVars
  BY <1>7 DEF allVars, vars, syncVars
<1> QED
  BY <1>1, <1>2, <1>3, <1>4, <1>5, <1>6, <1>7 DEF SyncNext, HandlerStep, InSync

\* A load goes on to its next row only while it has one.
LEMMA NextRowsLeft == TInv /\ RowsLeft /\ [SyncNext]_allVars => RowsLeft'
<1> SUFFICES ASSUME SyncTypeOK, RowsLeft, [SyncNext]_allVars, NEW q \in Procs,
                    pc'[q] = "row"
             PROVE  todo'[q] # {}
  BY DEF TInv, RowsLeft
<1> USE DEF SyncTypeOK, DataTypeOK, RowsLeft, Goto
<1>1. ASSUME NEW h \in Handlers, Request(h) \/ Write(h) \/ Reply(h)
      PROVE  todo'[q] # {}
  BY <1>1 DEF Request, CreateFlag, UpdateFlag, DeleteFlag, Write, WriteStep,
              BeginTx, InsertFlag, LockRow, CommitTx, ExecDelete, Reply, loadVars
<1>2. ASSUME NEW p \in Procs, SyncLock(p) \/ Fault(p) PROVE todo'[q] # {}
  BY <1>2 DEF SyncLock, Fault, Fail, CommitLost, loadVars
<1>3. ASSUME NEW p \in Procs, Load(p) PROVE todo'[q] # {}
  <2>1. CASE ListKeys(p)
    BY <2>1 DEF ListKeys, NextRow
  <2>2. CASE LoadRules(p)
    BY <2>2 DEF LoadRules, NextRow
  <2>3. CASE (\E k \in Keys : LoadRow(p, k)) \/ LoadVariants(p)
    BY <2>3 DEF LoadRow, LoadVariants, loadVars
  <2> QED
    BY <1>3, <2>1, <2>2, <2>3 DEF Load, LoadStep
<1>4. ASSUME NEW p \in Procs, Swap(p) \/ SyncFail(p) PROVE todo'[q] # {}
  BY <1>4 DEF Swap, SyncFail, SyncReturn
<1>5. CASE Crash
  BY <1>5 DEF Crash, Boot
<1>6. CASE UNCHANGED allVars
  BY <1>6 DEF allVars, vars
<1> QED
  BY <1>1, <1>2, <1>3, <1>4, <1>5, <1>6 DEF SyncNext, HandlerStep, InSync, Background

\* When no connection is free somebody holds one.
LEMMA PoolHeld == ASSUME ~FreeConn PROVE \E q \in Procs : HoldsConn(q)
<1>1. CASE {p \in Procs : HoldsConn(p)} = {}
  <2>1. Cardinality({p \in Procs : HoldsConn(p)}) = 0
    BY <1>1, FS_EmptySet
  <2> QED
    BY <2>1 DEF FreeConn
<1> QED
  BY <1>1

\* A call in progress goes on or waits for somebody.
LEMMA GoesOnOrWaits ==
  ASSUME TInv, HolderAt, WaitInv, NEW p \in Procs, pc[p] # "idle"
  PROVE  CanGoOn(p) \/ \E q \in Procs : WaitsFor(p, q)
<1>1. pc[p] \in SyncLabels /\ mutex \in Procs \cup {NoProc}
  BY DEF TInv, SyncTypeOK, SyncLabels
<1>2. CASE pc[p] = "written"
  BY <1>1, <1>2 DEF CanGoOn, WaitsFor
<1>3. CASE NeedsConn(p)
  <2>1. pc[p] = "row" => todo[p] # {}
    BY DEF WaitInv, RowsLeft
  <2> QED
    BY <1>3, <2>1, PoolHeld DEF CanGoOn, WaitsFor
<1>4. CASE pc[p] \in {"insert", "select", "deleting"}
  BY <1>4 DEF CanGoOn, WaitsFor, RowLocked
<1>5. CASE pc[p] \in {"inserted", "locked", "loaded"}
  BY <1>5 DEF CanGoOn
<1>6. CASE pc[p] \in {"notfound", "failed", "invalid", "synced", "refresh_failed"}
  <2>1. p \in Handlers \/ mutex = p
    BY DEF WaitInv, ReadersInSync, Background
  <2>2. mutex = p => pc[p] \in {"notfound", "failed"}
    BY <1>6 DEF HolderAt, SyncPcs
  <2> QED
    BY <1>6, <2>1, <2>2 DEF CanGoOn
<1> QED
  BY <1>1, <1>2, <1>3, <1>4, <1>5, <1>6
     DEF SyncLabels, Labels, Statements, Results, NeedsConn

\* Whoever is waited for is past the lock that is waited for.
LEMMA WaitsDescend ==
  ASSUME TInv, HolderAt, NEW p \in Procs, NEW q \in Procs, WaitsFor(p, q)
  PROVE  WaitLevel(q) < WaitLevel(p)
<1>1. CASE pc[p] = "written" /\ mutex = q
  <2>1. pc[q] # "written"
    BY <1>1 DEF HolderAt, SyncPcs
  <2>2. WaitLevel(q) \in {0, 1, 2}
    BY <2>1 DEF WaitLevel
  <2>3. WaitLevel(p) = 3
    <3>1. ~NeedsConn(p) /\ ~NeedsRow(p)
      BY <1>1 DEF NeedsConn, NeedsRow
    <3> QED
      BY <1>1, <3>1 DEF WaitLevel
  <2> QED
    BY <2>2, <2>3
<1>2. CASE NeedsConn(p) /\ HoldsConn(q)
  <2>1. WaitLevel(q) \in {0, 1}
    <3>1. pc[q] # "written" /\ ~NeedsConn(q)
      BY <1>2 DEF HoldsConn, NeedsConn
    <3> QED
      BY <3>1 DEF WaitLevel
  <2>2. WaitLevel(p) = 2
    <3>1. pc[p] # "written" /\ ~NeedsRow(p)
      BY <1>2 DEF NeedsConn, NeedsRow
    <3> QED
      BY <1>2, <3>1 DEF WaitLevel
  <2> QED
    BY <2>1, <2>2
<1>3. CASE NeedsRow(p) /\ pc[q] \in {"inserted", "locked"}
  <2>1. WaitLevel(q) = 0
    BY <1>3 DEF WaitLevel, NeedsConn, NeedsRow
  <2>2. WaitLevel(p) = 1
    BY <1>3 DEF WaitLevel, NeedsConn, NeedsRow
  <2> QED
    BY <2>1, <2>2
<1> QED
  BY <1>1, <1>2, <1>3 DEF WaitsFor

\* The poller and the listener stay in Sync while they do anything, and loads know
\* their next row.
THEOREM WaitInvariance == SyncSpec => []WaitInv
<1>1. SyncInit => WaitInv
  BY DEF SyncInit, Init, WaitInv, ReadersInSync, RowsLeft, Background
<1>2. IInv /\ WaitInv /\ [SyncNext]_allVars => WaitInv'
  BY NextReaders, NextRowsLeft DEF WaitInv, IInv
<1> QED
  BY <1>1, <1>2, Invariance, PTL DEF SyncSpec

\* A call in progress that cannot go on waits for another one, and there is no
\* cycle of waits between the mutex, the connections and the row locks, however
\* small the pool (postgres.go, repository.go, syncer.go).
THEOREM NoDeadlock == SyncSpec => []NoCircularWait
<1>1. IInv /\ DebtInv /\ WaitInv => NoCircularWait
  BY GoesOnOrWaits, WaitsDescend DEF NoCircularWait, IInv, DebtInv
<1> QED
  BY <1>1, Invariance, OwedInvariance, WaitInvariance, PTL
=============================================================================
