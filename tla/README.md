# Verification of the feature flag service

TLA+ models of the feature flag service, the TLC runs that check them on small
instances, and TLAPS proofs of the results that hold for every instance.
Paths are relative to the repository's `src/`.

    tlc -workers 2 -config repository.cfg MCFlagRepository.tla    # a run
    tlapm FlagSyncProofs.tla                                      # a proof

## 1. The system

The service is a *control plane* that writes flags to PostgreSQL and a *data
plane* that answers evaluations from memory. A Go SDK may keep a copy of the
flags of its own.

    client --> HTTP handlers --> repository --> PostgreSQL (flags, variants, rules)
                    |                ^               | NOTIFY flags_updated
                    | refreshFn      | LoadAllFlags  v
                    +-----------> Syncer.Sync <-- realtime listener
                    poller ----------^  |
                                        v Swap
    SDK / client --> evaluate <---- store.Holder
                        |               |
                        +-> metrics <---+

| Component | State | Operations | Interacts through |
|---|---|---|---|
| flag repository (`internal/db/repository.go`, `postgres.go`, `000001_create_flags.sql`) | three tables; a pool of 10 connections; row locks | CreateFlag, UpdateFlag, DeleteFlag, GetFlag, ListFlags, LoadAllFlags | called by handlers and by Sync |
| write and read handlers (`internal/api/server.go`) | none but their calls | POST/PUT/DELETE/GET flags, POST evaluate | repository, then `refreshFn` = `Syncer.Sync` |
| Syncer and poller (`internal/sync/syncer.go`) | a mutex, lastSync, lastError | Sync, StartPolling | repository, `store.Holder` |
| realtime listener (`internal/sync/realtime.go`, `000002_flags_updated_notify.sql`) | a connection, two channels of capacity 1, a debounce timer, two goroutines | connect, LISTEN, forward, debounce, reconnect, stop | triggers of the database, Sync |
| in-memory store (`internal/store`) | an atomic pointer to an immutable store, a generation | Current, Swap | read by evaluations, replaced by Sync |
| validation, compilation, evaluation (`internal/domain`, `internal/eval`) | none (pure) | ValidateFlag, CompileFlag, Evaluate | handlers, Sync, SDK |
| Go SDK (`pkg/client/client.go`) | a local store, lastError, closeCh, doneCh, one goroutine | New, Sync, runSyncLoop, Close, Evaluate | GET /flags, POST /evaluate |
| metrics collector (`internal/metrics`) | atomic counters, buckets, gauges | ObserveEvaluation, ObserveSync, Snapshot | evaluations, Sync, GET /metrics |
| migrations (`internal/db/migrations.go`) | table schema_migrations, the schema | RunMigrations | program start, several replicas over one database |
| program (`cmd/server/main.go`) | contexts, goroutines it waits for | start, shutdown | everything |
| admin UI (`internal/api/adminui`) | a form filled from an earlier read | list, edit, save | HTTP |

What is hard, and what makes each part correct:

* **Repository.** Transactions of several handlers interleave with the three
  autocommit SELECTs of a load. An update must not lose another update; a
  creation must not overwrite a flag; versions advance one by one. A statement,
  or the acknowledgement of a commit, can be lost.
* **Refresh.** Handlers, the poller and the listener refresh the same store. A
  write that was acknowledged must be read whole, and served, until the next one;
  an old load must never be installed over a newer one; whatever failed, the store must come to
  hold the tables; nobody may wait for ever on the mutex, the connections and
  the row locks together.
* **Listener.** A channel that swallows what does not fit, a debounce timer and a
  Sync that is running must not lose the last change, nor start a storm of
  refreshes; connections must be closed and replaced; shutdown must leave no
  goroutine behind. What a notification cannot bring, the poller must.
* **Evaluation.** Boundaries of buckets, three integer widths for one weight, white
  space trimmed in one place and compared in another, an unstable sort.
* **SDK.** Syncs of several goroutines overlap; Close meets the loop in the middle
  of a request; the first Sync of New may fail.
* **Metrics.** Every counter is atomic, but an observation is several of them: a
  scrape in between must still report numbers that belong together.
* **Migrations and program.** Replicas start together over one database, and
  PostgreSQL alone coordinates them. At the end the database must not be closed
  under a goroutine that uses it, and the end must come.

`PROJECT.json` lists each hazard at its line, with the properties about it.

## 2. The modules

| Module | Models | Built on |
|---|---|---|
| `FlagRepository` | repository, pool, row locks | |
| `FlagSync` | handlers, Syncer, poller, listener's calls of Sync, store, crashes | `FlagRepository` |
| `FlagReplica` | what the data plane promises, abstractly | implemented by `FlagSync` |
| `RealtimeListener` | run and waitForNotifications | |
| `Propagation` | listener and poller over the same commits and mutex | `RealtimeListener` |
| `FlagEval` | validation, column types, compilation, evaluation | |
| `SdkClient` | the SDK in local mode | |
| `MetricsCollector` | collector, what feeds it, `Holder.Swap` | |
| `Migrations` | RunMigrations of several replicas | |
| `ServerLifecycle` | main, from the migrations to the end of the shutdown | `Migrations` |
| `...Proofs`, `FlagSyncRefinement` | proofs (section 5); `PropagationProofs` has those of `RealtimeListener` too | the module they are about |
| `MC...` | values of the constants for TLC | the module they instantiate |

A definition whose comment begins with "Mutant:" is no part of a model: it is a
plausible mistake in the definition that follows it, and replacing one by the
other makes TLC refute a property.

### FlagRepository

`row[k]` is what the tables hold for key `k`: payload (`cfg`), the program's
`version` column, and `rev`, the number of the commit that wrote it. The program
does not store `rev`; it stands for PostgreSQL's order of commits and is what
"older" and "newer" mean in the properties. A deleted key keeps the `rev` of
its deletion. The three tables are one row because a transaction replaces all
three; that a *reader* does not see them at once is kept: a load records the row
each of its three SELECTs saw (`seen[p][k]`, with `head`, `variants`, `rules`).

A process's `pc` is the statement it is about to execute. `CreateFlag`,
`UpdateFlag`, `DeleteFlag`, `GetFlag` and `ListFlags` are the calls; `BeginTx`
takes a connection; `InsertFlag` and `LockRow` (SELECT ... FOR UPDATE) wait for
row locks; `CommitTx` and `ExecDelete` commit; `ListKeys`, `LoadRow`,
`LoadVariants` and `LoadRules` are the SELECTs of a load; `Fail` is a statement
that fails, with the rollback; `CommitLost` is a commit whose acknowledgement is
lost. The INSERTs, UPDATE and DELETEs between the lock and the commit are one step
with the commit, for nobody sees them before it. `HoldsConn` says who holds a
connection: a transaction between two statements does, a load does not (its
rows are read to the end, which gives the connection back). A payload is a
default variant, a set of variants and the set of variants its rules name:
enough to tell a valid flag from an invalid one, and a mixture of two flags from
either.

### FlagSync and FlagReplica

`FlagSync` adds to each handler what follows its write: `SyncLock`, the load,
`Swap` or `SyncFail`, and `Reply`. The poller and the listener call Sync at any
time (the ticker and the debounce timer). `store[k]` is the observation the
current store was built from; `Served` are the keys whose observation compiles,
since Sync skips the others with a warning. `acked[k]` is the last commit
answered with success and `wrote[h]` the commit of the request a handler serves.
`Crash` ends every call, undoes every open transaction, empties the store and
keeps the tables.

`FlagReplica` says what that amounts to for a client, with no goroutine,
statement or lock: commits are numbered, a refresh moves every flag forward and
shows none from the future, a write is answered with success only once it is
shown, and a restart begins with nothing. A flag is shown as an *interval* of
commits, because it is read with three SELECTs. The refinement mapping
(`Replica` in `FlagSync`) takes `latest` from the rows' `rev`, `shown` from the
first and the last part of each flag in the store, and `acked` as it is.
`Replica!Spec` is checked as a property and proved. `shown` is what a swap has
read of a flag, also of one that Sync skipped since it does not compile: the
contract is about commits, and whether the flag is *served* is said by
`AckedWriteVisible` and `FlagStaysAvailable`.

### RealtimeListener and Propagation

`commits` counts the transactions that notify: those that change a flag and,
since the triggers are FOR EACH STATEMENT, also a DELETE that finds no row.
`queue` is what the session has still to deliver, `notif` and `errs` are the two
channels, `timer` is the debounce timer, `covered` counts the commits for which
no Sync is owed. Each case of run's select, each outcome of WaitForNotification
and each way out of run is an action. A Sync has two steps, the moment it reads
the tables and its return, so that notifications arrive in between. A
reconnection leaves commits made meanwhile to the poller, as the code does.

`Propagation` composes the listener with StartPolling: both run Sync under its
mutex, and `stored` is the commit the store covers. `excused` are the commits
that no notification will bring any more (made before the LISTEN, or spent on a
refresh that failed, which the listener does not repeat).

### FlagEval

A definition is submitted, validated, stored, compiled, and then every context
with every hash is evaluated. Names are a text with or without white space around
it; weights wrap as Go's int, INTEGER and uint32 do (`IntMod`, `ColumnMax`,
`UintMod`, scaled down in their order). The FNV hash is any uint32. The sums of
ValidateFlag and the bounds of CompileFlag are recursive functions. The one
thing assumed of a definition is that the sum of its weights, each at most the
largest INTEGER, fits a Go int: with 64 bits, fewer than 2^32 variants.

### SdkClient

`pc` follows each goroutine through Sync (`fetching`, `answered`, `swapped`) and
Close; `store` and `got` hold the number of the server's change they contain.
Unlike the server's Syncer, Client.Sync holds no lock from its first line to its
last, and the model interleaves it accordingly.

### MetricsCollector

One action per atomic operation: an evaluation reads the current store, then
counts itself, sets the two gauges, adds to latencyCount and to one bucket; a
Sync takes the mutex, builds, takes the Holder's next generation, stores the
pointer, reads it again and reports it; Snapshot loads latencyCount, later
evaluationCount, and adds up bucket after bucket for each quantile. A latency is
the bucket it falls in. A store is its generation, which also stands for its
version in the gauge of that name: the property about the gauges needs to know
which store each was taken from. `whole` remembers whether no observation was
between its count and its bucket when a quantile loaded latencyCount.

### Migrations and ServerLifecycle

`recorded` is schema_migrations, `times[f]` the number of committed transactions
that executed file `f`, `table` whether the table of versions exists. `at` and
`pc` follow each replica through the loop of Migrate, isApplied and apply.
PostgreSQL's part is what its documentation says of DDL: CREATE TABLE IF NOT
EXISTS can fail when another session creates the table at the same time;
statements on the same objects wait for the other transaction; two transactions
that take locks in different orders can deadlock, and one is ended. The
initial database is empty, has the bare table, or any prefix of the files.
`found` is for a property only: how far the schema was when a replica began.

`ServerLifecycle` goes on with main: the poller, the listener and the HTTP server
are started; a signal ends the context; Shutdown closes the port and waits for
requests, at most five seconds; main waits for the poller, then for the listener,
and the deferred Close closes the database. Of each goroutine there is what these
waits depend on: idle, in a request, waiting for Sync's mutex, in Sync, stopped.

## 3. The runs

| Run | Question | Result |
|---|---|---|
| `repository` | do concurrent transactions decide on the row they replace? | yes (`TypeOK`, `DecidedOnCurrentRow`, `VersionAdvances`) |
| `sync_safety` | is an answered write read whole and served until the flag is written again, do swaps never go back, does a stale store always have a refresh coming, and is it all a replica? | yes (`SyncTypeOK`, `AckedWriteVisible`, `RefreshOwed`, `InstalledInOrder`, `ImplementsReplica`) |
| `sync_live` | with one connection, a fault and a crash anywhere, can waits be circular, is every request answered, and does the store converge? | no circle; yes (`NoCircularWait`, `RequestsAnswered`, `EventuallyConsistent`) |
| `sync_available` | does an existing flag stay served through updates? | **no** (`FlagStaysAvailable`) |
| `listener` | does the listener lose a wakeup, storm, leak or hang? | no (`TypeOK`, `NoLostWakeup`, `AtMostOneSyncPerCommit`, `ConnectionClosed`, `Refreshed`, `Reconnects`, `Stops`) |
| `propagation` | does the poller bring what the listener misses, and do the two never set the store back? | yes (`PropagationTypeOK`, `StaleExplained`, `StoreMovesForward`, `EventuallyStored`) |
| `eval` | are rollouts exact, the least priority first, and answers known variants? | yes (`RolloutExact`, `LeastPriorityWins`, `AnswerKnown`) |
| `client` | does Close stop the loop, and does the local store converge? | yes (`TypeOK`, `FilledBeforeUse`, `BackgroundQuiet`, `CloseReturns`, `EventuallyFresh`) |
| `client_order` | does a successful Client.Sync leave what it fetched? | **no** (`SyncIsFresh`) |
| `metrics` | do generations count refreshes, and do the numbers of a snapshot belong together? | yes, a quantile as long as no observation was half made (`TypeOK`, `GenerationCounts`, `GenerationAdvances`, `SnapshotConsistent`, `QuantileIsReal`) |
| `metrics_gauge` | do the gauges show the current store? | **no** (`GaugeCurrent`) |
| `server` | do replicas that migrate together leave a sound schema and not all fail in vain, is the end clean, and does it come? | yes (`LifecycleTypeOK`, `SchemaSound`, `SomebodyGetsOn`, `CleanExit`, `ShutdownEnds`) |

### Findings

1. **A flag vanishes during an update** (`sync_available`). `loadFlag` reads the
   flag, its variants and its rules with three autocommit SELECTs; an update that
   commits between two of them gives a mixture. When the mixture does not
   validate, Sync drops the flag with a warning, swaps, and reports success: a
   flag that exists before and after answers 404. When it does validate, Sync
   serves a flag nobody wrote, against "No partial state" in
   `documentation2.md`. Either lasts until the next refresh, and the update's own
   is on its way (`RefreshOwed`). It cannot be worse: a flag that exists is left
   out only if its SELECTs saw different commits (theorem `OnlyMixedSkipped`), and
   the last write of a flag, once answered, is served whole (`AckedWriteVisible`).
2. **Overlapping Syncs of the SDK** (`client_order`). The one that fetched first may
   swap last; the store then holds older flags than a Sync that succeeded, until
   the loop's next one. Syncs that do not overlap from the server's answer on
   leave what they fetched and never go back (theorem `FreshInTurn`).
3. **Gauges of an old store** (`metrics_gauge`). ObserveEvaluation stores the
   generation and the version of the store the evaluation read; an evaluation
   that overlaps a refresh sets back what ObserveSync reported, or one of the two.
   As long as no evaluation is overtaken so, the gauges are right (theorem
   `GaugesFollow`).

Two disagreements between text and code are too direct to need a run. The
comment in `internal/api/server.go:150` says that a refresh that fails does not
fail the request, and the next line answers it with an error, although the write
is committed. `internal/domain/validation.go` trims the names of the variants but
not the default it looks up among them, so a flag with the default `x` and a
variant ` x ` is accepted, although "default variant must exist in variants";
`FlagEval` models the names so, and its `AnswerKnown` says what survives.

One imprecision is promised away nowhere: `ObserveEvaluation` counts a latency
before it is in a bucket (`internal/metrics/collector.go:126`), so a quantile
taken in between may end above the largest bound. `QuantileIsReal` speaks of the
quantiles for which no observation was half made.

### Bounds, and why they are enough

* `repository`: three callers (a writer that holds a lock, one that waits for
  it, one that arrives), one key (row locks of different keys do not interact, and
  the proofs cover any number), two connections so that the third caller waits,
  two commits so that one decision can be stale, one fault, a valid payload and
  an invalid one.
* `sync_safety`: two handlers, poller and listener, two flags (a listing with a
  load of each), two commits, two connections, and two valid payloads that a load
  can mix into one that does not compile. A stale install needs a load, a commit
  and a second load; a mixture needs one commit during a load, and happens also
  under a handler that is then answered. Keys, handlers and the two background
  goroutines are symmetric: only fairness tells the last two apart, and the run
  checks invariants and steps, no liveness.
* `sync_live`: the same processes over one flag and one connection, the case where
  waiting could be circular, with one fault and one crash; creations are left to
  `sync_safety`. `sync_available`: a handler and the poller, and two valid payloads of
  which the second lacks the first's default.
* `listener`, `propagation`: four commits fill the session, the waiter's hands, the
  channel and the timer at once; two failures break a connection and the attempt
  to replace it; in `propagation` two Syncs fail, one of each goroutine or two
  in a row.
* `eval`: up to three variants with every weight up to beyond the column and every
  pair of padded, empty and equal names, every pair of valid rules and each
  malformed one.
* `client`: the loop and two application goroutines, three contents of the server,
  two failing requests.
* `metrics`: two evaluations at once, two syncing goroutines, one bucket with a
  bound and one without, the quantiles 50 and 99 (Snapshot asks for 50, 95 and 99:
  a third adds no new interleaving). Any number of each is proved.
* `server`: two replicas, two files (the repository embeds two), three starts, two
  faults. Both replicas migrate; one is followed (`Followed`) through its serving
  and its end. Two that serve share nothing but the tables, which `FlagSync`
  and `Propagation` are about, so a second would multiply the states and add
  nothing.

`MaxWrites`, `MaxFaults`, `MaxBoots`, `MaxCommits`, `MaxDrops`, `MaxChanges`,
`MaxFails`, `MaxStarts`, `MaxEvaluations` and `MaxSyncs` occur only in guards of
requests, faults, starts and crashes: none of them stops a call that is in progress.
They also say that faults are finite, without which no liveness property could
hold. `CHECK_DEADLOCK FALSE` is in `eval` (a definition is submitted once), in the
two runs of the metrics (their counters reach their bounds) and in `server` (a
program that has ended may stay so); all other runs check deadlock.

## 4. Fairness

No client has to make a request and no fault, crash or notification has to occur.

* `SyncFairness`: calls in progress go on, and the poller calls Sync again and again
  because StartPolling loops on its ticker. It is strong because waiters are
  served: database/sql and PostgreSQL queue waiters for a connection and for a row
  lock, and a Go mutex hands itself to a waiter that starves. The listener need
  not be woken at all; convergence rests on the poller alone.
* `RealtimeListener`: both goroutines go on, the timer fires, and each case of the
  select is taken if it is ready again and again, since Go's select chooses at
  random. A new connection may fail only `MaxDrops` times.
* `PropagationFairness`: the poller takes its tick again and again and obtains the
  mutex, and a Sync that runs returns. Nothing is assumed of the connection or the
  channels: the poller alone carries `EventuallyStored`.
* `SdkClient`: requests end, because the default HTTP client has a timeout. With an
  HTTP client without one that the application supplies, Close could wait for ever
  for a request in progress: that case is outside the assumption. Nothing else of
  the application is assumed.
* `LifecycleFairness`: main goes on, a handler and a Sync return, a waiter obtains
  the mutex, and a goroutine's select takes `ctx.Done()` in the end although its
  ticker or its notifications keep being ready.

## 5. The proofs

The theorems hold for any sets of keys, payloads, processes and replicas, any pool
size, any numbers of files, buckets and quantiles, and any value of the bounds
(an arbitrary bound excludes no finite behaviour). They assume only the named
`ASSUME`s of the modules, which TLC evaluates on each run.

* **`FlagRepositoryProofs`**: `TypeCorrect`, `DecisionsHold`
  (`[]DecidedOnCurrentRow`), `VersionsAdvance` (`VersionAdvances`). The
  invariant adds to the types that row locks are exclusive (`LockInv`), that no
  row is newer than the last commit (`RowInv`), that a creation writes version 1
  (`CreateInv`) and that a call that writes has a key (`HasKey`). Exclusive locks
  are what keep a decision: another process's commit on the row would need the
  lock. Each commit then finds exactly the row its transaction decided on.
* **`FlagSyncProofs`**: `TypeCorrect`, `SyncMutualExclusion`, `NoStaleInstall`
  (`InstalledInOrder`), `RefreshIsOwed` (`[]RefreshOwed`). The inductive invariant
  says that only the holder of the mutex is inside Sync (`MutexInv`), that what the
  store and a load hold for a key was read in order, header no newer than variants,
  variants no newer than rules, rules no newer than the tables (`StoreInv`,
  `LoadInv`), that what a load has read is at least as new as every part of the
  store (`LoadInv`: the store does not change while the mutex is held), and that a
  handler's load covers its own commit (`WroteInv`). A swap therefore moves every
  key forward, and a handler that answers has installed its own write. `RefreshOwed`
  is not inductive by itself: between a load's SELECT and its swap the store is
  about to be replaced by something that is old again. The strengthening
  (`LoadDebt`) says that, unless a handler has committed and waits for the mutex,
  the load in progress has read nothing that has changed since and listed nothing
  that is gone: a load that misses a commit leads to the handler that made it.
  `NoDeadlock` (`[]NoCircularWait`): whoever cannot go on waits for somebody, and
  the locks have levels, mutex over connection over row, such that everybody waits
  only for those of a lower one; so a chain of waits ends at somebody who goes on.
  What it needs (`WaitInv`): the holder of the mutex is inside Sync and so in no
  transaction, a full pool has a holder who is in a transaction, and the poller and
  the listener are never in one. `NoCircularWait` uses no ENABLED: `CanGoOn`
  restates the guards of the next steps.
* **`FlagSyncRefinement`**: `Refinement` (`SyncSpec => ImplementsReplica`) and
  `PromiseKept`. Under the invariant of `FlagSyncProofs`, a commit maps to `Write`,
  a swap to `Refresh` (its three conjuncts are `LoadInv` and `StoreInv`), an
  answer to `Acknowledge`, a crash to `Restart`, and every other step to a
  stutter. `PromiseKept` is the abstract invariant `Replica!Promise` of the program,
  from the same inductive invariant.
  Conversely, the whole program keeps what the repository alone does:
  `DecisionsHold` (`[]DecidedOnCurrentRow`) and `VersionsAdvance`
  (`VersionAdvances`) hold of `SyncSpec` too, where loads, refreshes, lost
  acknowledgements and crashes run among the transactions. `OnlyValidStored`: no
  payload that ValidateFlag refuses is ever committed. `OnlyMixedSkipped` bounds
  the first finding: since every row is valid (`HeadsValid`), a flag that exists
  and is not served was put together from several commits. `ReadYourWrites`
  (`[]AckedWriteVisible`): the header in the store is no older than the answered
  write (`AckedInv`); when that write is still the flag's last one, the three parts
  in the store, read in order and no newer than the row, all carry its number;
  a part that carries the row's number *is* the row (`ObservedInv`, for each
  commit has a number of its own); and the row compiles, since it was validated
  (`TablesValid`), so the flag is served.
* **`PropagationProofs`**, the listener: `TypeCorrect`, `WakeupKept` (`[]NoLostWakeup`),
  `NoRefreshStorm` (`[]AtMostOneSyncPerCommit`), `NoConnectionLeak`
  (`[]ConnectionClosed`). `AtMostOneSyncPerCommit` is not inductive; the invariant
  counts each commit once, as a notification in the session, one in the waiter's
  hands, one in the channel, an armed timer, a Sync about to run or one that ran
  (`Owed <= commits`).
* **`PropagationProofs`**, the composition: `PropagationTypeCorrect`, `NoRegression`
  (`StoreMovesForward`), `StalenessExplained` (`[]StaleExplained`). The invariant
  uses that of the listener and adds that whoever has read holds the mutex, that
  a running Sync read at least what the store covers, and that what the listener
  counts as covered is in its running Sync, in the store, or left to the poller
  (`CoveredInv`). `ListenerUnchanged`: hiding the store and the poller, every step
  is one of the listener. `FollowsTables`: with the tables as one flag,
  the listener and the poller implement `FlagReplica`, the contract the
  handlers' refresh implements.
* **`SdkClientProofs`**: `TypeCorrect`, `FilledFirst` (`[]FilledBeforeUse`),
  `QuietAfterClose` (`[]BackgroundQuiet`). The invariant says that while New runs
  nobody else does (`Starting`), that afterwards doneCh is closed by the end of
  the loop and a Close returns only after it (`Running`), and that a Sync never
  carries the empty store (`Carried`). `FreshInTurn` bounds the second finding, by
  an invariant (`InTurn`) of the behaviours in which at most one Sync is between
  its answer and its end: what it carries is no older than the store.
* **`MetricsCollectorProofs`**: `TypeCorrect`, `GenerationsCount`,
  `GenerationsAdvance`, `SnapshotsConsistent`, `QuantilesAreReal`
  (`[]QuantileIsReal`). `GenerationInv` says where the
  Holder's counter, the pointer and a Sync's two copies are while the mutex is
  held; `CountInv` that the evaluations exceed the latencies by the number of
  goroutines between the two counters, which is why a snapshot that loads the
  latencies first is consistent. The type
  theorem includes that no index leaves the buckets or the quantiles. For
  `QuantilesAreReal`, the sum of the buckets that Snapshot has still to add
  stays large enough to bring its running sum to the rank: no observation was
  half made when latencyCount was loaded, buckets only grow, and a bucket that
  makes the sum reach the rank is not empty. `GaugesFollow` bounds the third
  finding: if no evaluation has the store and has yet to report it when it is
  replaced (`NoneOvertaken`), each gauge that nobody is about to set shows the
  current store (`GaugeInv`).
* **`FlagEvalProofs`**: `RolloutIsExact` (`[]RolloutExact`), `LeastPriorityDecides`
  (`[]LeastPriorityWins`), `AnswersAreKnown` (`[]AnswerKnown`), for any number of
  variants and rules and any widths of the integers that `EvalAssumption`
  allows. The recursive sums exist and have their values by a least
  counterexample: a number for which a claim fails has a least one
  (`LeastNat`, from the well-foundedness of the inclusion of finite sets), which needs
  no induction theorem. A definition that ValidateFlag accepts then has sums
  that never wrapped (`TotalsExact`), its bounds grow to `FullWeight`
  (`CumulativeExact`), and the hashes between two of them are a variant's weight
  (`Shares`). The unstable sort is any permutation in order of the priority
  (`OrderExists`, `Sorted`): one exists, and the first that matches is the least.
* **`ServerLifecycleProofs`**: `LifecycleTypeCorrect`, `SchemaStaysSound`
  (`[]SchemaSound`), `FailuresMakeProgress` (`[]SomebodyGetsOn`), `ExitIsClean`
  (`[]CleanExit`). At most one replica is between executing a file and the end of
  its transaction, and then the file is not recorded and its predecessors are;
  a replica that finds another's table or file in its way has seen the schema get
  further since it began (`ProgressInv`), while the victim of a deadlock leaves
  another replica in its file, which has not failed: if all have failed without a
  fault, one of them failed for the first reason; each wait of main leaves a goroutine
  stopped for good, and the holder of the mutex is in Sync (`LifeInv`).

Every invariant and action property of a passing run is stated by a theorem, and
so is the refinement. Only model-checked: liveness (`EventuallyConsistent`,
`RequestsAnswered`, `Refreshed`, `Reconnects`, `Stops`, `EventuallyStored`,
`CloseReturns`, `EventuallyFresh`, `ShutdownEnds`), since TLAPS proves no leads-to
under fairness and no ENABLED. Several have a safety half above: nobody waits in
a circle, a stale store has a refresh coming, no wakeup is lost, and replicas
that all fail without a fault leave the schema further than one of them found it.

## 6. What is not modelled

* The page of the admin UI, the JSON of responses, configuration, logging and the
  load test: layout, formatting, one reading of the environment, and a measuring
  tool beside the service. Two editors of one flag in the admin UI are two callers
  of UpdateFlag: the payload carries no version, the last PUT wins, and
  `DecidedOnCurrentRow` says that it wins as a whole.
* `LastSync`, `LastError`, `/health`: reads without effect on the rest. The read
  handlers beside the writers in `FlagSync`: one holds a connection for the length
  of a statement and then gives it back, so it delays others and changes nothing
  (`FlagRepository` has them).
* Of the collector, the sum of the latencies (hence the average) and the duration of
  the last refresh: nothing is promised of them while observations go on.
* Of the program, the mode without a database, which starts neither poller nor
  listener, migrates nothing and writes nothing; the durations of the timers and
  tickers, which are steps that may happen at any time.
* The SDK's remote mode keeps no state; its local evaluation is that of `FlagEval`.
* PostgreSQL, database/sql, pgx and net/http are external: modelled from how the
  code uses them (locks and visibility under READ COMMITTED, waiting for a
  connection, one notification per transaction, catalog locks, requests that fail
  or time out).

## 7. Open ends

`Propagation` for several replicas at once. They share only the commits, so each
is an instance of the one modelled, and a theorem could say so.
