------------------------ MODULE FlagRepositoryProofs ------------------------
(***************************************************************************)
(* Proofs about FlagRepository: what a transaction decided on is still     *)
(* there when it commits, hence a flag's versions advance one by one, for  *)
(* any number of callers, keys, payloads and connections.                  *)
(***************************************************************************)
EXTENDS FlagRepository, TLAPS

USE RepositoryAssumption

Writing == {"create", "update", "delete", "insert", "inserted", "select",
            "locked", "deleting"}
Deciding == {"inserted", "locked"}

\* A call that writes is about a key, and a load reads a key it has to read:
\* without this the types alone are not inductive.
HasKey == \A p \in Procs : pc[p] \in Writing => key[p] \in Keys
ReadsKey == \A p \in Procs : pc[p] \in {"variants", "rules"} => cur[p] \in todo[p]

\* A creation writes version 1 from the start.
CreateInv == \A p \in Procs : pc[p] \in {"create", "insert"} => ver[p] = 1

\* No row is newer than the last commit.
RowInv == \A k \in Keys : row[k].rev <= commits

\* Row locks are exclusive.
LockInv ==
  \A p, q \in Procs :
    p # q /\ pc[p] \in Deciding /\ pc[q] \in Deciding => key[p] # key[q]

TInv == TypeOK /\ HasKey /\ ReadsKey
IInv == TInv /\ CreateInv /\ RowInv /\ LockInv /\ DecidedOnCurrentRow

-----------------------------------------------------------------------------
(* Type correctness                                                        *)

\* The initial state satisfies the invariant.
LEMMA InitIInv == Init => IInv
<1> SUFFICES ASSUME Init PROVE IInv
  OBVIOUS
<1>1. NoRow \in Row /\ Unseen \in [Keys -> Seen]
  BY DEF NoRow, Row, Unseen, Seen, SeenOf
<1>2. row \in [Keys -> Row] /\ \A k \in Keys : row[k].rev = 0
  <2>1. \A c \in Configs : [rev |-> 0, version |-> 1, cfg |-> c] \in Row
    BY DEF Row
  <2> QED
    BY <1>1, <2>1 DEF Init, NoRow
<1>3. TypeOK
  BY <1>1, <1>2 DEF Init, TypeOK, DataTypeOK, Labels
<1>4. HasKey /\ ReadsKey /\ CreateInv /\ LockInv /\ DecidedOnCurrentRow
  BY DEF Init, HasKey, Writing, ReadsKey, CreateInv, LockInv, Deciding, DecidedOnCurrentRow
<1>5. RowInv
  BY <1>2 DEF Init, RowInv
<1> QED
  BY <1>3, <1>4, <1>5 DEF IInv, TInv

\* A commit leaves well-typed tables and moves its key past every other one.
LEMMA CommitEffect ==
  ASSUME TypeOK, RowInv, NEW k \in Keys, NEW v \in Nat,
         NEW c \in Configs \cup {NoConfig}, Commit(k, v, c)
  PROVE  /\ row' \in [Keys -> Row] /\ commits' \in Nat
         /\ RowInv'
         /\ row'[k] = [rev |-> commits + 1, version |-> v, cfg |-> c]
         /\ \A j \in Keys \ {k} : row'[j] = row[j]
         /\ row'[k].rev > row[k].rev
<1> DEFINE r == [rev |-> commits + 1, version |-> v, cfg |-> c]
<1>1. row \in [Keys -> Row] /\ commits \in Nat
  BY DEF TypeOK, DataTypeOK
<1>2. row' = [row EXCEPT ![k] = r] /\ commits' = commits + 1
  BY DEF Commit
<1>3. r \in Row /\ r.rev = commits + 1
  BY <1>1 DEF Row
<1>4. \A j \in Keys : row[j].rev \in Nat /\ row[j].rev <= commits
  BY <1>1 DEF Row, RowInv
<1> HIDE DEF r
<1>5. /\ row' \in [Keys -> Row] /\ commits' \in Nat
      /\ row'[k] = r /\ \A j \in Keys \ {k} : row'[j] = row[j]
  BY <1>1, <1>2, <1>3
<1>6. RowInv'
  BY <1>1, <1>2, <1>3, <1>4, <1>5 DEF RowInv
<1>7. row'[k].rev > row[k].rev
  BY <1>1, <1>3, <1>4, <1>5
<1> QED
  BY <1>5, <1>6, <1>7 DEF r

\* The commits: what each of them writes, on which row.
Commits(p) ==
  \/ /\ pc[p] \in Deciding
     /\ Commit(key[p], ver[p], cfg[p])
  \/ /\ pc[p] = "deleting" /\ Present(row[key[p]]) /\ ~RowLocked(p, key[p])
     /\ Commit(key[p], 0, NoConfig)

\* Every step either leaves the tables alone or is one of these commits.
LEMMA StepsThatCommit ==
  ASSUME [Next]_vars
  PROVE  \/ UNCHANGED dbVars
         \/ \E p \in Procs :
              /\ Commits(p)
              /\ UNCHANGED <<callVars, loadVars>>
              /\ \E label \in {"written", "failed"} : pc' = [pc EXCEPT ![p] = label]
<1>1. CASE UNCHANGED vars
  BY <1>1 DEF vars, dbVars
<1>2. ASSUME NEW p \in Procs, WriteStep(p)
      PROVE  \/ UNCHANGED dbVars
             \/ /\ Commits(p) /\ UNCHANGED <<callVars, loadVars>>
                /\ pc' = [pc EXCEPT ![p] = "written"]
  BY <1>2 DEF WriteStep, BeginTx, InsertFlag, LockRow, CommitTx, ExecDelete,
              Commits, Deciding, Goto
<1>3. ASSUME NEW p \in Procs, CommitLost(p)
      PROVE  /\ Commits(p) /\ UNCHANGED <<callVars, loadVars>>
             /\ pc' = [pc EXCEPT ![p] = "failed"]
  BY <1>3 DEF CommitLost, Commits, Deciding, Goto
<1>4. ASSUME NEW p \in Procs,
             WriteRequest(p) \/ ReadRequest(p) \/ LoadStep(p) \/ Return(p) \/ Fail(p)
      PROVE  UNCHANGED dbVars
  BY <1>4 DEF WriteRequest, CreateFlag, UpdateFlag, DeleteFlag, ReadRequest,
              ListFlags, GetFlag, LoadStep, ListKeys, LoadRow, LoadVariants,
              LoadRules, Return, Fail
<1> QED
  BY <1>1, <1>2, <1>3, <1>4 DEF Next, Step

\* What a commit finds and leaves.
LEMMA CommitsEffect ==
  ASSUME IInv, NEW p \in Procs, Commits(p)
  PROVE  /\ key[p] \in Keys
         /\ row' \in [Keys -> Row] /\ commits' \in Nat /\ RowInv'
         /\ \A j \in Keys \ {key[p]} : row'[j] = row[j]
         /\ VersionStep(key[p])
<1>1. key[p] \in Keys /\ ver[p] \in Nat /\ cfg[p] \in Configs \cup {NoConfig}
  BY DEF IInv, TInv, TypeOK, DataTypeOK, HasKey, Commits, Writing, Deciding
<1>2. TypeOK /\ RowInv
  BY DEF IInv, TInv
<1>3. CASE pc[p] \in Deciding /\ Commit(key[p], ver[p], cfg[p])
  <2>1. /\ row'[key[p]] = [rev |-> commits + 1, version |-> ver[p], cfg |-> cfg[p]]
        /\ row'[key[p]].rev > row[key[p]].rev
    BY <1>1, <1>2, <1>3, CommitEffect
  <2>2. row'[key[p]].version = ver[p]
    BY <2>1
  <2>3. ver[p] = IF Present(row[key[p]]) THEN row[key[p]].version + 1 ELSE 1
    BY <1>3 DEF IInv, DecidedOnCurrentRow, Deciding
  <2>4. VersionStep(key[p])
    BY <2>1, <2>2, <2>3 DEF VersionStep
  <2> QED
    BY <1>1, <1>2, <1>3, <2>4, CommitEffect
<1>4. CASE Commit(key[p], 0, NoConfig)
  <2>1. /\ row'[key[p]] = [rev |-> commits + 1, version |-> 0, cfg |-> NoConfig]
        /\ row'[key[p]].rev > row[key[p]].rev
    BY <1>1, <1>2, <1>4, CommitEffect
  <2>2. VersionStep(key[p])
    BY <2>1 DEF VersionStep, Present
  <2> QED
    BY <1>1, <1>2, <1>4, <2>2, CommitEffect
<1> QED
  BY <1>3, <1>4 DEF Commits

-----------------------------------------------------------------------------
(* Every step keeps the invariant                                          *)

\* The tables stay well typed, and no row gets ahead of the commits.
LEMMA NextTables ==
  IInv /\ [Next]_vars => row' \in [Keys -> Row] /\ commits' \in Nat /\ RowInv'
<1> SUFFICES ASSUME IInv, [Next]_vars
             PROVE  row' \in [Keys -> Row] /\ commits' \in Nat /\ RowInv'
  OBVIOUS
<1>1. CASE UNCHANGED dbVars
  BY <1>1 DEF dbVars, IInv, TInv, TypeOK, DataTypeOK, RowInv
<1> QED
  BY <1>1, StepsThatCommit, CommitsEffect

\* Every step keeps the types of the callers' variables.
LEMMA NextCallers ==
  IInv /\ [Next]_vars =>
    /\ pc' \in [Procs -> Labels] /\ faults' \in Nat
    /\ key' \in [Procs -> Keys \cup {NoKey}]
    /\ cfg' \in [Procs -> Configs \cup {NoConfig}]
    /\ ver' \in [Procs -> Nat]
    /\ todo' \in [Procs -> SUBSET Keys]
    /\ cur' \in [Procs -> Keys \cup {NoKey}]
<1> DEFINE Goal == /\ pc' \in [Procs -> Labels] /\ faults' \in Nat
                   /\ key' \in [Procs -> Keys \cup {NoKey}]
                   /\ cfg' \in [Procs -> Configs \cup {NoConfig}]
                   /\ ver' \in [Procs -> Nat]
                   /\ todo' \in [Procs -> SUBSET Keys]
                   /\ cur' \in [Procs -> Keys \cup {NoKey}]
<1> SUFFICES ASSUME TypeOK, HasKey, [Next]_vars PROVE Goal
  BY DEF IInv, TInv
<1> USE DEF TypeOK, DataTypeOK, Goto, Labels, Statements, Results
<1>1. ASSUME NEW p \in Procs, WriteRequest(p) PROVE Goal
  <2>1. PICK k \in Keys, c \in Configs \cup {NoConfig}, v \in Nat, label \in Labels :
          /\ key' = [key EXCEPT ![p] = k]
          /\ cfg' = [cfg EXCEPT ![p] = c]
          /\ ver' = [ver EXCEPT ![p] = v]
          /\ pc' = [pc EXCEPT ![p] = label]
          /\ UNCHANGED <<todo, cur, faults>>
    <3>1. CASE \E k \in Keys, c \in Configs : CreateFlag(p, k, c)
      BY <3>1 DEF CreateFlag, Call, loadVars
    <3>2. CASE \E k \in Keys, c \in Configs, b \in Keys \cup {NoKey} :
                 UpdateFlag(p, k, b, c)
      BY <3>2 DEF UpdateFlag, Call, loadVars
    <3>3. CASE \E k \in Keys : DeleteFlag(p, k)
      BY <3>3 DEF DeleteFlag, Call, loadVars
    <3> QED
      BY <1>1, <3>1, <3>2, <3>3 DEF WriteRequest
  <2> QED
    BY <2>1
<1>2. ASSUME NEW p \in Procs, ReadRequest(p) PROVE Goal
  <2>1. CASE ListFlags(p)
    BY <2>1 DEF ListFlags, callVars, loadVars
  <2>2. CASE \E k \in Keys : GetFlag(p, k)
    BY <2>2 DEF GetFlag, callVars
  <2> QED
    BY <1>2, <2>1, <2>2 DEF ReadRequest
<1>3. ASSUME NEW p \in Procs, LockRow(p) PROVE Goal
  <2>1. key[p] \in Keys
    BY <1>3 DEF LockRow, HasKey, Writing
  <2>2. ver' \in [Procs -> Nat]
    <3>1. row[key[p]].version + 1 \in Nat
      BY <2>1 DEF Row
    <3> QED
      BY <1>3, <3>1 DEF LockRow
  <2> QED
    BY <1>3, <2>2 DEF LockRow, loadVars
<1>4. ASSUME NEW p \in Procs,
             BeginTx(p) \/ InsertFlag(p) \/ CommitTx(p) \/ ExecDelete(p)
      PROVE  Goal
  BY <1>4 DEF BeginTx, InsertFlag, CommitTx, ExecDelete, callVars, loadVars
<1>5. ASSUME NEW p \in Procs, LoadStep(p) PROVE Goal
  <2>1. CASE ListKeys(p) \/ \E k \in Keys : LoadRow(p, k)
    BY <2>1 DEF ListKeys, LoadRow, NextRow, callVars, loadVars
  <2>2. CASE LoadVariants(p)
    BY <2>2 DEF LoadVariants, callVars
  <2>3. CASE LoadRules(p)
    <3>1. todo[p] \ {cur[p]} \in SUBSET Keys
      OBVIOUS
    <3>2. todo' = [todo EXCEPT ![p] = todo[p] \ {cur[p]}]
      BY <2>3 DEF LoadRules
    <3>3. todo' \in [Procs -> SUBSET Keys]
      BY <3>1, <3>2
    <3>4. NextRow(todo[p] \ {cur[p]}) \in Labels
      BY DEF NextRow
    <3>5. pc' \in [Procs -> Labels]
      BY <2>3, <3>4 DEF LoadRules
    <3> QED
      BY <2>3, <3>3, <3>5 DEF LoadRules, callVars
  <2> QED
    BY <1>5, <2>1, <2>2, <2>3 DEF LoadStep
<1>6. ASSUME NEW p \in Procs, Return(p) PROVE Goal
  BY <1>6 DEF Return, Call
<1>7. ASSUME NEW p \in Procs, Fail(p) \/ CommitLost(p) PROVE Goal
  BY <1>7 DEF Fail, CommitLost, callVars, loadVars
<1>8. CASE UNCHANGED vars
  BY <1>8 DEF vars
<1> QED
  BY <1>1, <1>2, <1>3, <1>4, <1>5, <1>6, <1>7, <1>8 DEF Next, Step, WriteStep

\* Every step keeps the type of what loads have read.
LEMMA NextSeen == IInv /\ [Next]_vars => seen' \in [Procs -> [Keys -> Seen]]
<1> DEFINE Goal == seen' \in [Procs -> [Keys -> Seen]]
<1> SUFFICES ASSUME TypeOK, ReadsKey, [Next]_vars PROVE Goal
  BY DEF IInv, TInv
<1> USE DEF TypeOK, DataTypeOK
<1>1. NoRow \in Row /\ Unseen \in [Keys -> Seen]
  BY DEF NoRow, Row, Unseen, Seen, SeenOf
<1>2. \A r \in Row : SeenOf(r) \in Seen
  BY DEF SeenOf, Seen
<1>3. ASSUME NEW p \in Procs, ListKeys(p) PROVE Goal
  BY <1>1, <1>2, <1>3 DEF ListKeys
<1>4. ASSUME NEW p \in Procs, NEW k \in Keys, NEW s \in Seen,
             seen' = [seen EXCEPT ![p][k] = s]
      PROVE  Goal
  <2>1. [seen[p] EXCEPT ![k] = s] \in [Keys -> Seen]
    OBVIOUS
  <2> QED
    BY <1>4, <2>1
<1>5. ASSUME NEW p \in Procs, NEW k \in Keys, LoadRow(p, k) PROVE Goal
  BY <1>2, <1>4, <1>5 DEF LoadRow, loadVars
<1>6. ASSUME NEW p \in Procs, LoadVariants(p) PROVE Goal
  <2>1. cur[p] \in Keys
    BY <1>6 DEF LoadVariants, ReadsKey
  <2>2. PICK r \in Row : r = row[cur[p]]
    BY <2>1
  <2>3. [seen[p][cur[p]] EXCEPT !.variants = r, !.rules = r] \in Seen
    <3>1. seen[p][cur[p]] \in Seen
      BY <2>1
    <3> QED
      BY <2>2, <3>1 DEF Seen
  <2> QED
    BY <1>4, <1>6, <2>1, <2>2, <2>3 DEF LoadVariants
<1>7. ASSUME NEW p \in Procs, LoadRules(p) PROVE Goal
  <2>1. cur[p] \in Keys
    BY <1>7 DEF LoadRules, ReadsKey
  <2>2. PICK r \in Row : r = row[cur[p]]
    BY <2>1
  <2>3. [seen[p][cur[p]] EXCEPT !.rules = r] \in Seen
    <3>1. seen[p][cur[p]] \in Seen
      BY <2>1
    <3> QED
      BY <2>2, <3>1 DEF Seen
  <2> QED
    BY <1>4, <1>7, <2>1, <2>2, <2>3 DEF LoadRules
<1>8. ASSUME NEW p \in Procs, Return(p) PROVE Goal
  BY <1>1, <1>8 DEF Return
<1>9. CASE UNCHANGED seen
  BY <1>9
<1>10. ASSUME NEW p \in Procs,
              \/ WriteRequest(p) \/ ReadRequest(p) \/ WriteStep(p)
              \/ Fail(p) \/ CommitLost(p)
       PROVE  UNCHANGED seen
  BY <1>10 DEF WriteRequest, CreateFlag, UpdateFlag, DeleteFlag, ReadRequest,
     GetFlag, ListFlags, WriteStep, BeginTx, InsertFlag, LockRow, CommitTx,
     ExecDelete, Fail, CommitLost, loadVars
<1> QED
  BY <1>3, <1>5, <1>6, <1>7, <1>8, <1>9, <1>10 DEF Next, Step, LoadStep, vars

\* A call that writes is still about its key, and a load still reads a key it
\* has to read.
LEMMA NextKeys == IInv /\ [Next]_vars => HasKey' /\ ReadsKey'
<1> SUFFICES ASSUME TypeOK, HasKey, ReadsKey, [Next]_vars, NEW q \in Procs
             PROVE  /\ pc'[q] \in Writing => key'[q] \in Keys
                    /\ pc'[q] \in {"variants", "rules"} => cur'[q] \in todo'[q]
  BY DEF IInv, TInv, HasKey, ReadsKey
<1> DEFINE Goal == /\ pc'[q] \in Writing => key'[q] \in Keys
                   /\ pc'[q] \in {"variants", "rules"} => cur'[q] \in todo'[q]
<1> USE DEF TypeOK, DataTypeOK, HasKey, ReadsKey, Goto, Writing
<1>1. ASSUME NEW p \in Procs, WriteRequest(p) PROVE Goal
  BY <1>1 DEF WriteRequest, CreateFlag, UpdateFlag, DeleteFlag, Call, loadVars
<1>2. ASSUME NEW p \in Procs, ReadRequest(p) PROVE Goal
  BY <1>2 DEF ReadRequest, GetFlag, ListFlags, callVars, loadVars
<1>3. ASSUME NEW p \in Procs, WriteStep(p) PROVE Goal
  BY <1>3 DEF WriteStep, BeginTx, InsertFlag, LockRow, CommitTx, ExecDelete,
              callVars, loadVars
<1>4. ASSUME NEW p \in Procs, LoadStep(p) PROVE Goal
  <2>1. CASE ListKeys(p) \/ \E k \in Keys : LoadRow(p, k)
    BY <2>1 DEF ListKeys, LoadRow, NextRow, callVars, loadVars
  <2>2. CASE LoadVariants(p)
    BY <2>2 DEF LoadVariants, callVars
  <2>3. CASE LoadRules(p)
    BY <2>3 DEF LoadRules, NextRow, callVars
  <2> QED
    BY <1>4, <2>1, <2>2, <2>3 DEF LoadStep
<1>5. ASSUME NEW p \in Procs, Return(p) PROVE Goal
  BY <1>5 DEF Return, Call
<1>6. ASSUME NEW p \in Procs, Fail(p) \/ CommitLost(p) PROVE Goal
  BY <1>6 DEF Fail, CommitLost, callVars, loadVars
<1>7. CASE UNCHANGED vars
  BY <1>7 DEF vars
<1> QED
  BY <1>1, <1>2, <1>3, <1>4, <1>5, <1>6, <1>7 DEF Next, Step

\* A creation keeps version 1 until it has inserted its row.
LEMMA NextCreate == IInv /\ [Next]_vars => CreateInv'
<1> SUFFICES ASSUME TypeOK, CreateInv, [Next]_vars, NEW q \in Procs,
                    pc'[q] \in {"create", "insert"}
             PROVE  ver'[q] = 1
  BY DEF IInv, TInv, CreateInv
<1> USE DEF TypeOK, DataTypeOK, CreateInv, Goto
<1>1. ASSUME NEW p \in Procs, WriteRequest(p) PROVE ver'[q] = 1
  BY <1>1 DEF WriteRequest, CreateFlag, UpdateFlag, DeleteFlag, Call
<1>2. ASSUME NEW p \in Procs,
             \/ ReadRequest(p) \/ BeginTx(p) \/ InsertFlag(p) \/ CommitTx(p)
             \/ ExecDelete(p) \/ Fail(p) \/ CommitLost(p)
      PROVE  ver'[q] = 1
  BY <1>2 DEF ReadRequest, ListFlags, GetFlag, BeginTx, InsertFlag, CommitTx,
              ExecDelete, Fail, CommitLost, callVars
<1>3. ASSUME NEW p \in Procs, LockRow(p) \/ LoadStep(p) \/ Return(p)
      PROVE  ver'[q] = 1
  BY <1>3 DEF LockRow, LoadStep, ListKeys, LoadRow, LoadVariants, LoadRules,
              NextRow, Return, Call, callVars
<1>4. CASE UNCHANGED vars
  BY <1>4 DEF vars
<1> QED
  BY <1>1, <1>2, <1>3, <1>4 DEF Next, Step, WriteStep

\* A transaction that has decided either decided before the step, which left it
\* alone, or decides in the step, on the current row and with no rival.
Undisturbed(q) == pc'[q] = pc[q] /\ key'[q] = key[q] /\ ver'[q] = ver[q]
Decides(q) ==
  /\ UNCHANGED dbVars
  /\ key'[q] = key[q] /\ ~RowLocked(q, key[q])
  /\ \A o \in Procs \ {q} : Undisturbed(o)
  /\ pc'[q] = "inserted" => ~Present(row[key[q]]) /\ ver'[q] = 1
  /\ pc'[q] = "locked" => /\ Present(row[key[q]])
                          /\ ver'[q] = row[key[q]].version + 1

LEMMA Deciders ==
  ASSUME IInv, [Next]_vars, NEW q \in Procs, pc'[q] \in Deciding
  PROVE  Undisturbed(q) \/ Decides(q)
<1> DEFINE Goal == Undisturbed(q) \/ Decides(q)
<1> USE DEF IInv, TInv, TypeOK, DataTypeOK, Goto, Deciding
<1>1. ASSUME NEW p \in Procs, WriteRequest(p) PROVE Goal
  BY <1>1 DEF WriteRequest, CreateFlag, UpdateFlag, DeleteFlag, Call, Undisturbed
<1>2. ASSUME NEW p \in Procs, InsertFlag(p) PROVE Goal
  <2>1. CASE p = q
    BY <1>2, <2>1 DEF InsertFlag, callVars, Undisturbed, Decides, CreateInv
  <2>2. CASE p # q
    BY <1>2, <2>2 DEF InsertFlag, callVars, Undisturbed
  <2> QED
    BY <2>1, <2>2
<1>3. ASSUME NEW p \in Procs, LockRow(p) PROVE Goal
  <2>1. CASE p = q
    BY <1>3, <2>1 DEF LockRow, Undisturbed, Decides
  <2>2. CASE p # q
    BY <1>3, <2>2 DEF LockRow, Undisturbed
  <2> QED
    BY <2>1, <2>2
<1>4. ASSUME NEW p \in Procs,
             \/ ReadRequest(p) \/ BeginTx(p) \/ CommitTx(p)
             \/ ExecDelete(p) \/ Fail(p) \/ CommitLost(p)
      PROVE  Goal
  BY <1>4 DEF ReadRequest, ListFlags, GetFlag, BeginTx, CommitTx, ExecDelete,
              Fail, CommitLost, callVars, Undisturbed
<1>5. ASSUME NEW p \in Procs, LoadStep(p) \/ Return(p) PROVE Goal
  BY <1>5 DEF LoadStep, ListKeys, LoadRow, LoadVariants, LoadRules, NextRow,
              Return, Call, callVars, Undisturbed
<1>6. CASE UNCHANGED vars
  BY <1>6 DEF vars, Undisturbed
<1> QED
  BY <1>1, <1>2, <1>3, <1>4, <1>5, <1>6 DEF Next, Step, WriteStep

\* Row locks stay exclusive.
LEMMA NextLock == IInv /\ [Next]_vars => LockInv'
<1> SUFFICES ASSUME IInv, [Next]_vars, NEW p \in Procs, NEW q \in Procs, p # q,
                    pc'[p] \in Deciding, pc'[q] \in Deciding
             PROVE  key'[p] # key'[q]
  BY DEF LockInv
<1>1. CASE Undisturbed(p) /\ Undisturbed(q)
  BY <1>1 DEF Undisturbed, IInv, LockInv
<1>2. ASSUME NEW o \in Procs, NEW r \in Procs, o # r, Decides(o),
             pc'[r] \in Deciding
      PROVE  key'[o] # key'[r]
  BY <1>2 DEF Decides, Undisturbed, RowLocked, Deciding
<1> QED
  BY <1>1, <1>2, Deciders

\* What a transaction decided on stays until it commits: every other commit is
\* about another row.
LEMMA NextDecided == IInv /\ [Next]_vars => DecidedOnCurrentRow'
<1> SUFFICES ASSUME IInv, [Next]_vars, NEW q \in Procs, pc'[q] \in Deciding
             PROVE  /\ pc'[q] = "locked" =>
                         /\ Present(row'[key'[q]])
                         /\ ver'[q] = row'[key'[q]].version + 1
                    /\ pc'[q] = "inserted" =>
                         ~Present(row'[key'[q]]) /\ ver'[q] = 1
  BY DEF DecidedOnCurrentRow, Present, Deciding
<1>1. CASE Decides(q)
  BY <1>1 DEF Decides, dbVars, Present
<1>2. CASE Undisturbed(q)
  <2>1. row'[key[q]] = row[key[q]]
    <3>1. CASE UNCHANGED dbVars
      BY <3>1 DEF dbVars
    <3>2. ASSUME NEW p \in Procs, Commits(p),
                 NEW label \in {"written", "failed"}, pc' = [pc EXCEPT ![p] = label]
          PROVE  row'[key[q]] = row[key[q]]
      <4>1. p # q
        BY <3>2 DEF Deciding, IInv, TInv, TypeOK
      <4>2. pc[q] \in Deciding
        BY <1>2 DEF Undisturbed
      <4>3. key[p] # key[q]
        BY <3>2, <4>1, <4>2 DEF Commits, RowLocked, Deciding, IInv, LockInv
      <4>4. key[q] \in Keys
        BY <4>2 DEF IInv, TInv, HasKey, Writing, Deciding
      <4> QED
        BY <3>2, <4>3, <4>4, CommitsEffect
    <3> QED
      BY <3>1, <3>2, StepsThatCommit
  <2> QED
    BY <1>2, <2>1 DEF Undisturbed, IInv, DecidedOnCurrentRow, Present
<1> QED
  BY <1>1, <1>2, Deciders

\* Every step keeps the invariant.
LEMMA NextIInv == IInv /\ [Next]_vars => IInv'
  BY NextTables, NextCallers, NextSeen, NextKeys, NextCreate, NextLock, NextDecided
  DEF IInv, TInv, TypeOK, DataTypeOK

-----------------------------------------------------------------------------
(* The theorems                                                            *)

\* The inductive invariant holds throughout.
THEOREM Invariance == Spec => []IInv
<1>1. Init => IInv
  BY InitIInv
<1>2. IInv /\ [Next]_vars => IInv'
  BY NextIInv
<1> QED
  BY <1>1, <1>2, PTL DEF Spec

\* Every variable has its type.
THEOREM TypeCorrect == Spec => []TypeOK
<1>1. IInv => TypeOK
  BY DEF IInv, TInv
<1> QED
  BY <1>1, Invariance, PTL

\* What an update or a creation decided on is still so when it commits.
THEOREM DecisionsHold == Spec => []DecidedOnCurrentRow
<1>1. IInv => DecidedOnCurrentRow
  BY DEF IInv
<1> QED
  BY <1>1, Invariance, PTL

\* No update is lost and no creation overwrites a flag: versions go up by one.
THEOREM VersionsAdvance == Spec => VersionAdvances
<1>1. IInv /\ [Next]_vars => [\A k \in Keys : VersionStep(k)]_vars
  <2> SUFFICES ASSUME IInv, [Next]_vars, NEW k \in Keys PROVE VersionStep(k)
    OBVIOUS
  <2>1. CASE UNCHANGED dbVars
    BY <2>1 DEF dbVars, VersionStep
  <2>2. ASSUME NEW p \in Procs, Commits(p) PROVE VersionStep(k)
    <3>1. CASE k = key[p]
      BY <2>2, <3>1, CommitsEffect
    <3>2. CASE k # key[p]
      BY <2>2, <3>2, CommitsEffect DEF VersionStep
    <3> QED
      BY <3>1, <3>2
  <2> QED
    BY <2>1, <2>2, StepsThatCommit
<1> QED
  BY <1>1, Invariance, PTL DEF Spec, VersionAdvances
=============================================================================
