------------------------------ MODULE FlagSync ------------------------------
(***************************************************************************)
(* The data plane's refresh: the HTTP handlers that write a flag and then  *)
(* call refreshFn (internal/api/server.go), the poller and the realtime    *)
(* listener, all of which run Syncer.Sync (internal/sync/syncer.go), and   *)
(* the in-memory store that evaluations read (internal/store).             *)
(*                                                                         *)
(* Sync holds the Syncer's mutex from its first line to its last: it loads *)
(* every flag with the statements of FlagRepository, which other handlers' *)
(* transactions may commit between, compiles what it read and swaps the    *)
(* store.  A crash loses the store and every call; the tables stay.        *)
(***************************************************************************)
EXTENDS FlagRepository

CONSTANTS Handlers,     \* goroutines that serve write requests
          Poller,       \* StartPolling's goroutine
          Listener,     \* StartRealtimeListener's goroutine
          NoProc,       \* the mutex is free
          Operations,   \* the kinds of request clients send
          MaxBoots      \* bound: starts of the program

Background == {Poller, Listener}

ASSUME SyncAssumption ==
  /\ Procs = Handlers \cup Background
  /\ Handlers \cap Background = {}
  /\ NoProc \notin Procs
  /\ Operations \subseteq {"create", "update", "delete"}
  /\ MaxBoots \in Nat

VARIABLES mutex,      \* the process in Sync, or NoProc
          store,      \* [Keys -> Seen]: what the current store was built from
          lastError,  \* whether the last Sync failed
          wrote,      \* the commit of each handler's own write
          acked,      \* per key, the last commit answered with success
          boots       \* starts of the program so far

syncVars == <<mutex, store, lastError, wrote, acked, boots>>
allVars == <<vars, syncVars>>

-----------------------------------------------------------------------------
(* The store                                                               *)

\* CompileFlag accepts the flag that was read.
Compiles(s) ==
  /\ Present(s.head)
  /\ ValidateFlag(s.head.cfg.default, VariantNames(s), RuleVariants(s))

\* The flags of the store: Sync skips those that do not compile.
Served == {k \in Keys : Compiles(store[k])}
-----------------------------------------------------------------------------
(* Handlers                                                                *)

Request(h) ==
  /\ \E k \in Keys :
       \/ /\ "create" \in Operations
          /\ \E c \in Configs : CreateFlag(h, k, c)
       \/ /\ "update" \in Operations
          /\ \E c \in Configs, b \in Keys \cup {NoKey} : UpdateFlag(h, k, b, c)
       \/ "delete" \in Operations /\ DeleteFlag(h, k)
  /\ UNCHANGED syncVars

\* A statement of the handler's own call of the repository.
Write(h) ==
  /\ WriteStep(h)
  /\ wrote' = [wrote EXCEPT ![h] = IF pc'[h] = "written" THEN commits' ELSE @]
  /\ UNCHANGED <<mutex, store, lastError, acked, boots>>

\* The end of the request: 2xx after a successful refresh, an error otherwise.
Reply(h) ==
  /\ pc[h] \in {"synced", "refresh_failed"} \/
     (pc[h] \in {"notfound", "invalid", "failed"} /\ mutex # h)
  /\ acked' = IF pc[h] = "synced" /\ acked[key[h]] < wrote[h]
                THEN [acked EXCEPT ![key[h]] = wrote[h]] ELSE acked
  /\ wrote' = [wrote EXCEPT ![h] = 0]
  /\ Goto(h, "idle")
  /\ Call(h, NoKey, NoConfig, 0)
  /\ UNCHANGED <<dbVars, loadVars, faults, mutex, store, lastError, boots>>

-----------------------------------------------------------------------------
(* Sync                                                                    *)

\* Mutant: Sync runs while another one does.
SyncLockShared(p) ==
  /\ pc[p] = (IF p \in Handlers THEN "written" ELSE "idle")
  /\ mutex' = p
  /\ Goto(p, "list")
  /\ UNCHANGED <<dbVars, callVars, loadVars, faults>>
  /\ UNCHANGED <<store, lastError, wrote, acked, boots>>

\* Mutant: a handler whose refresh finds another one running does not wait.
SyncLockOrSkip(p) ==
  /\ pc[p] = (IF p \in Handlers THEN "written" ELSE "idle")
  /\ \/ mutex = NoProc /\ mutex' = p /\ Goto(p, "list")
     \/ mutex # NoProc /\ p \in Handlers /\ Goto(p, "synced") /\ UNCHANGED mutex
  /\ UNCHANGED <<dbVars, callVars, loadVars, faults>>
  /\ UNCHANGED <<store, lastError, wrote, acked, boots>>

\* s.mu.Lock(): a handler after its write, the others on a tick or a timer.
SyncLock(p) ==
  /\ pc[p] = (IF p \in Handlers THEN "written" ELSE "idle")
  /\ mutex = NoProc
  /\ mutex' = p
  /\ Goto(p, "list")
  /\ UNCHANGED <<dbVars, callVars, loadVars, faults>>
  /\ UNCHANGED <<store, lastError, wrote, acked, boots>>

\* A statement of LoadAllFlags (only Sync loads flags here).
Load(p) == LoadStep(p) /\ UNCHANGED syncVars

\* Sync returns to its caller and the deferred Unlock runs.
SyncReturn(p, answer) ==
  /\ mutex' = NoProc
  /\ Goto(p, IF p \in Handlers THEN answer ELSE "idle")
  /\ todo' = [todo EXCEPT ![p] = {}]
  /\ cur' = [cur EXCEPT ![p] = NoKey]
  /\ seen' = [seen EXCEPT ![p] = Unseen]
  /\ UNCHANGED <<dbVars, callVars, faults, wrote, acked, boots>>

\* Mutant: the flags that were loaded replace their old versions, and a flag
\* that was deleted stays.
SwapMerge(p) ==
  /\ pc[p] = "loaded"
  /\ store' = [k \in Keys |-> IF Present(seen[p][k].head)
                               THEN seen[p][k] ELSE store[k]]
  /\ lastError' = FALSE
  /\ SyncReturn(p, "synced")

\* Compile, build the next store and swap it in.
Swap(p) ==
  /\ pc[p] = "loaded"
  /\ store' = seen[p]
  /\ lastError' = FALSE
  /\ SyncReturn(p, "synced")

\* Mutant: the error path returns without unlocking.
SyncFailLocked(p) ==
  /\ mutex = p /\ pc[p] \in {"notfound", "failed"}
  /\ lastError' = TRUE
  /\ UNCHANGED <<mutex, store>>
  /\ Goto(p, IF p \in Handlers THEN "refresh_failed" ELSE "idle")
  /\ UNCHANGED <<dbVars, callVars, loadVars, faults, wrote, acked, boots>>

\* LoadAllFlags failed: the current store stays.
SyncFail(p) ==
  /\ mutex = p /\ pc[p] \in {"notfound", "failed"}
  /\ lastError' = TRUE
  /\ UNCHANGED store
  /\ SyncReturn(p, "refresh_failed")

-----------------------------------------------------------------------------
(* Failures and the specification                                          *)

Fault(p) == (Fail(p) \/ CommitLost(p)) /\ UNCHANGED syncVars

\* The process state of a program that starts on the tables as they are.
Boot ==
  /\ pc' = [p \in Procs |-> "idle"]
  /\ key' = [p \in Procs |-> NoKey]
  /\ cfg' = [p \in Procs |-> NoConfig]
  /\ ver' = [p \in Procs |-> 0]
  /\ todo' = [p \in Procs |-> {}]
  /\ cur' = [p \in Procs |-> NoKey]
  /\ seen' = [p \in Procs |-> Unseen]
  /\ mutex' = NoProc
  /\ store' = Unseen
  /\ lastError' = FALSE
  /\ wrote' = [h \in Handlers |-> 0]
  /\ acked' = [k \in Keys |-> 0]

\* The program dies and is started again: transactions in progress are
\* undone, and the store is empty until the first Sync.
Crash ==
  /\ boots < MaxBoots
  /\ boots' = boots + 1
  /\ Boot
  /\ UNCHANGED <<dbVars, faults>>

SyncInit ==
  /\ Init
  /\ mutex = NoProc
  /\ store = Unseen
  /\ lastError = FALSE
  /\ wrote = [h \in Handlers |-> 0]
  /\ acked = [k \in Keys |-> 0]
  /\ boots = 1

HandlerStep(h) == Write(h) \/ SyncLock(h) \/ Reply(h)
InSync(p) == Load(p) \/ Swap(p) \/ SyncFail(p)

SyncNext ==
  \/ \E h \in Handlers : Request(h) \/ HandlerStep(h)
  \/ \E p \in Background : SyncLock(p)
  \/ \E p \in Procs : InSync(p) \/ Fault(p)
  \/ Crash

\* Calls in progress go on and the ticker keeps the poller calling Sync (its
\* select takes ticker.C again and again).  Strong fairness: the pool serves its
\* waiters, and PostgreSQL the waiters for a row lock, in their order of arrival;
\* Go's mutex hands itself to a waiter it starves.  No request, notification or
\* crash has to happen.
SyncFairness ==
  /\ \A h \in Handlers : SF_allVars(HandlerStep(h) \/ InSync(h))
  /\ SF_allVars(SyncLock(Poller) \/ InSync(Poller))
  /\ SF_allVars(InSync(Listener))

SyncSpec == SyncInit /\ [][SyncNext]_allVars /\ SyncFairness

-----------------------------------------------------------------------------
(* Properties                                                              *)

\* Every variable has its type.
SyncTypeOK ==
  /\ DataTypeOK
  /\ pc \in [Procs -> Labels \cup {"synced", "refresh_failed"}]
  /\ mutex \in Procs \cup {NoProc}
  /\ store \in [Keys -> Seen]
  /\ lastError \in BOOLEAN
  /\ wrote \in [Handlers -> Nat]
  /\ acked \in [Keys -> Nat]
  /\ boots \in Nat

\* Whoever was answered 2xx for a write reads exactly that write, whole and served,
\* until somebody writes the flag again, and nothing older after that: no refresh
\* that began earlier installs its load afterwards, and a load that mixed the
\* write with an older commit is not the one that is answered for (handlers call
\* refreshFn before they answer; Sync loads under the mutex).  From the next commit
\* on the flag may be mixed, or missing (syncer.go:73), until that write's own
\* refresh: FlagStaysAvailable shows it.
AckedWriteVisible ==
  \A k \in Keys :
    /\ acked[k] <= store[k].head.rev
    /\ acked[k] > 0 /\ acked[k] = row[k].rev =>
         store[k] = SeenOf(row[k]) /\ (Present(row[k]) => k \in Served)

\* A swap never takes a flag back in time: every part of a flag in the new
\* store is at least as recent as every part of it in the old one.
InstalledInOrder ==
  [][boots' = boots =>
       \A k \in Keys : store'[k] # store[k] =>
                         store[k].rules.rev <= store'[k].head.rev]_allVars

\* The store is behind the tables only while a handler owes the refresh: it has
\* committed and waits for the mutex, or it is in Sync.  A load that began too
\* early, mixed two commits, or failed on a flag deleted under it, always leaves
\* such a handler behind (no fault and no crash having broken the chain).
RefreshOwed ==
  (faults = 0 /\ boots = 1 /\ \E k \in Keys : store[k].head.rev < row[k].rev)
    => \E h \in Handlers : pc[h] = "written" \/ mutex = h

\* The program as its clients see it: the tables' commits, the interval of
\* commits each flag of the store was read from, and the answers.
ShownOf(s) == [oldest |-> s.head.rev, newest |-> s.rules.rev]
Replica == INSTANCE FlagReplica
             WITH clock <- commits,
                  latest <- [k \in Keys |-> row[k].rev],
                  shown <- [k \in Keys |-> ShownOf(store[k])],
                  acked <- acked

\* Handlers, repository, poller, listener and Syncer together implement the
\* replica: whatever the interleaving, a step of theirs writes one flag, moves
\* all flags of the store forward at once, answers a write that is shown,
\* restarts, or changes nothing a client can see.
ImplementsReplica == Replica!Spec

\* When writes, faults and crashes have stopped, the store comes to hold exactly
\* the tables' contents for good, and the last error is cleared (polling is
\* the fallback of every failed or missed refresh).
Consistent == \A k \in Keys : store[k] = SeenOf(row[k])
EventuallyConsistent == <>[](Consistent /\ ~lastError)

\* Every request is answered: no cycle of waits between the mutex, the
\* connections and the row locks.
RequestsAnswered == \A h \in Handlers : (pc[h] # "idle") ~> (pc[h] = "idle")

\* The next step of p needs a connection of the pool, or the row of its key.
NeedsConn(p) ==
  pc[p] \in {"create", "update", "delete", "list", "row", "variants", "rules"}
NeedsRow(p) ==
  \/ pc[p] = "insert" /\ ~Present(row[key[p]])
  \/ pc[p] \in {"select", "deleting"} /\ Present(row[key[p]])

\* p waits for q: for the mutex, for a connection, or for the end of a
\* transaction that holds its row.
WaitsFor(p, q) ==
  \/ pc[p] = "written" /\ mutex = q
  \/ NeedsConn(p) /\ ~FreeConn /\ HoldsConn(q)
  \/ NeedsRow(p) /\ q # p /\ key[q] = key[p] /\ pc[q] \in {"inserted", "locked"}

\* The order in which the locks are taken: mutex, connection, row.
WaitLevel(p) == CASE pc[p] = "written" -> 3
                  [] NeedsConn(p)      -> 2
                  [] NeedsRow(p)       -> 1
                  [] OTHER             -> 0

\* p waits for nobody: its next step can be taken.
CanGoOn(p) ==
  \/ pc[p] = "written" /\ mutex = NoProc
  \/ NeedsConn(p) /\ FreeConn /\ (pc[p] = "row" => todo[p] # {})
  \/ pc[p] \in {"insert", "select", "deleting"} /\ ~(NeedsRow(p) /\ RowLocked(p, key[p]))
  \/ pc[p] \in {"inserted", "locked", "loaded"}
  \/ pc[p] \in {"notfound", "failed"} /\ (p \in Handlers \/ mutex = p)
  \/ pc[p] \in {"invalid", "synced", "refresh_failed"} /\ p \in Handlers /\ mutex # p

\* No cycle of waits: a call in progress that cannot go on waits for somebody, and
\* everybody waits only for those who are past what he waits for.  Sync asks the
\* pool for connections while it holds the mutex, and handlers give theirs back
\* before they ask for the mutex (repository.go's Commit comes before refreshFn).
NoCircularWait ==
  \A p \in Procs :
    /\ pc[p] # "idle" => CanGoOn(p) \/ \E q \in Procs : WaitsFor(p, q)
    /\ \A q \in Procs : WaitsFor(p, q) => WaitLevel(q) < WaitLevel(p)

\* Documented: while flags are only created and updated, an existing flag that
\* is being served stays served through every refresh.
FlagStaysAvailable ==
  [][\A k \in Served : Present(row[k]) => k \in Served']_allVars
=============================================================================
