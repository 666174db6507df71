-------------------------- MODULE ServerLifecycle --------------------------
(***************************************************************************)
(* The server from its start to its end (cmd/server/main.go): migrations   *)
(* (Migrations), the poller, the realtime listener and the HTTP server,    *)
(* all of which run Syncer.Sync under its mutex, and the shutdown that a   *)
(* signal starts: Shutdown waits five seconds for the requests, main then  *)
(* waits for the poller and the listener and closes the database.          *)
(*                                                                         *)
(* Only what main waits for is modelled of each goroutine: whether it is   *)
(* idle, in a request, waiting for the mutex or in Sync.                   *)
(***************************************************************************)
EXTENDS Migrations

CONSTANT Followed  \* the replicas whose life is followed past their migrations

ASSUME LifecycleAssumption == Followed \subseteq Replicas

VARIABLES signal,  \* SIGINT or SIGTERM has ended the context
          door,    \* "none", "starting", "open" or "closed": ListenAndServe
          doing,   \* what each goroutine is doing
          mutex    \* the goroutine in Sync, or "free"

Goroutines == {"poller", "realtime", "request"}

serverVars == <<signal, door, doing, mutex>>
lifecycleVars == <<migrationVars, serverVars>>

\* No goroutine runs but main.
Quiet == [g \in Goroutines |-> "none"]

LifecycleInit ==
  /\ MigrationsInit
  /\ signal = [r \in Replicas |-> FALSE]
  /\ door = [r \in Replicas |-> "none"]
  /\ doing = [r \in Replicas |-> Quiet]
  /\ mutex = [r \in Replicas |-> "free"]

Do(r, g, what) == doing' = [doing EXCEPT ![r][g] = what]

-----------------------------------------------------------------------------
(* main: starting                                                          *)

\* A new process: nothing of an earlier one is left but the database.
Start(r) ==
  /\ StartMigrate(r)
  /\ signal' = [signal EXCEPT ![r] = FALSE]
  /\ door' = [door EXCEPT ![r] = "none"]
  /\ doing' = [doing EXCEPT ![r] = Quiet]
  /\ mutex' = [mutex EXCEPT ![r] = "free"]

Migrate(r) == MigrateStep(r) /\ UNCHANGED serverVars

\* The poller syncs at once; the listener waits for notifications; a goroutine
\* is about to call ListenAndServe.  What the migrations found is forgotten.
Serve(r) ==
  /\ pc[r] = "migrated" /\ r \in Followed
  /\ Goto(r, "serving")
  /\ doing' = [doing EXCEPT ![r] = [poller |-> "waiting", realtime |-> "idle",
                                    request |-> "idle"]]
  /\ door' = [door EXCEPT ![r] = "starting"]
  /\ found' = [found EXCEPT ![r] = 0]
  /\ UNCHANGED <<schema, at, starts, faults, signal, mutex>>

\* The context ends; a second signal changes nothing.
Signal(r) ==
  /\ r \in Followed /\ ~signal[r]
  /\ pc[r] \in Migrating \cup {"migrated", "serving"}
  /\ signal' = [signal EXCEPT ![r] = TRUE]
  /\ UNCHANGED <<migrationVars, door, doing, mutex>>

\* A statement of the migrations whose context has ended fails.
MigrateCancelled(r) == signal[r] /\ MigrateAborts(r) /\ UNCHANGED serverVars

-----------------------------------------------------------------------------
(* The goroutines                                                          *)

\* ListenAndServe opens the port, or cannot, which ends the program.
Listen(r) ==
  /\ pc[r] = "serving" /\ door[r] = "starting"
  /\ door' = [door EXCEPT ![r] = "open"]
  /\ UNCHANGED <<migrationVars, signal, doing, mutex>>

\* A request comes.  One that net/http still takes while Shutdown begins is waited
\* for like the others: it is an Accept just before Shutdown.
Accept(r) ==
  /\ door[r] = "open" /\ doing[r].request = "idle"
  /\ Do(r, "request", "handling")
  /\ UNCHANGED <<migrationVars, signal, door, mutex>>

\* The handler answers, or has written a flag and calls refreshFn.
Handle(r) ==
  /\ doing[r].request = "handling"
  /\ \E what \in {"idle", "waiting"} : Do(r, "request", what)
  /\ UNCHANGED <<migrationVars, signal, door, mutex>>

\* A tick, or a debounced notification.
Wake(r, g) ==
  /\ g \in {"poller", "realtime"}
  /\ doing[r][g] = "idle"
  /\ Do(r, g, "waiting")
  /\ UNCHANGED <<migrationVars, signal, door, mutex>>

\* case <-ctx.Done(), which the select may choose after other cases that are ready.
Stop(r, g) ==
  /\ g \in {"poller", "realtime"}
  /\ doing[r][g] = "idle" /\ signal[r]
  /\ Do(r, g, "stopped")
  /\ UNCHANGED <<migrationVars, signal, door, mutex>>

Lock(r, g) ==
  /\ doing[r][g] = "waiting" /\ mutex[r] = "free"
  /\ mutex' = [mutex EXCEPT ![r] = g]
  /\ Do(r, g, "syncing")
  /\ UNCHANGED <<migrationVars, signal, door>>

\* Mutant: a Sync that fails returns without the Unlock.
SyncReturnsLocked(r, g) ==
  /\ doing[r][g] = "syncing"
  /\ \/ mutex' = [mutex EXCEPT ![r] = "free"]
     \/ UNCHANGED mutex
  /\ Do(r, g, "idle")
  /\ UNCHANGED <<migrationVars, signal, door>>

\* Sync returns; an error is logged, or answered, and its caller goes on.
SyncReturns(r, g) ==
  /\ doing[r][g] = "syncing"
  /\ mutex' = [mutex EXCEPT ![r] = "free"]
  /\ Do(r, g, "idle")
  /\ UNCHANGED <<migrationVars, signal, door>>

-----------------------------------------------------------------------------
(* main: stopping                                                          *)

\* <-ctx.Done(), and Shutdown closes the port.
Shutdown(r) ==
  /\ pc[r] = "serving" /\ signal[r]
  /\ Goto(r, "shutdown")
  /\ door' = [door EXCEPT ![r] = "closed"]
  /\ UNCHANGED <<schema, at, found, starts, faults, signal, doing, mutex>>

\* Mutant: main does not wait for the poller.
WaitSkipsPoller(r) ==
  /\ \/ pc[r] = "shutdown" /\ doing[r].request = "idle" /\ Goto(r, "polling")
     \/ pc[r] = "polling" /\ Goto(r, "realtime")
     \/ pc[r] = "realtime" /\ doing[r].realtime = "stopped" /\ Goto(r, "exited")
  /\ UNCHANGED <<schema, at, found, starts, faults, serverVars>>

\* Shutdown returns when no request is open; then main waits for the poller and
\* the listener, returns, and the deferred Close closes the database.
Wait(r) ==
  /\ \/ pc[r] = "shutdown" /\ doing[r].request = "idle" /\ Goto(r, "polling")
     \/ pc[r] = "polling" /\ doing[r].poller = "stopped" /\ Goto(r, "realtime")
     \/ pc[r] = "realtime" /\ doing[r].realtime = "stopped" /\ Goto(r, "exited")
  /\ UNCHANGED <<schema, at, found, starts, faults, serverVars>>

\* The process ends at once: its goroutines are gone.
Exit(r) ==
  /\ Goto(r, "off")
  /\ doing' = [doing EXCEPT ![r] = Quiet]
  /\ door' = [door EXCEPT ![r] = "none"]
  /\ mutex' = [mutex EXCEPT ![r] = "free"]

\* Requests that take longer than five seconds: os.Exit(1).
ShutdownTimesOut(r) ==
  /\ pc[r] = "shutdown" /\ doing[r].request # "idle"
  /\ Exit(r)
  /\ UNCHANGED <<schema, at, found, starts, faults, signal>>

\* The port cannot be opened, or the process is killed.
Die(r) ==
  /\ faults < MaxFaults /\ pc[r] \notin Down \cup {"exited"}
  /\ faults' = faults + 1
  /\ \/ MigrateFails(r) /\ UNCHANGED serverVars
     \/ /\ pc[r] \notin Migrating
        /\ Exit(r)
        /\ UNCHANGED <<schema, at, found, starts, signal>>

-----------------------------------------------------------------------------
GoroutineStep(r) ==
  \/ Listen(r) \/ Handle(r)
  \/ \E g \in Goroutines : Wake(r, g) \/ Stop(r, g) \/ Lock(r, g) \/ SyncReturns(r, g)

MainStep(r) ==
  Migrate(r) \/ MigrateCancelled(r) \/ Serve(r) \/ Shutdown(r) \/ Wait(r)

LifecycleNext ==
  \E r \in Replicas : \/ Start(r) \/ Signal(r) \/ Accept(r) \/ Die(r)
                      \/ MainStep(r) \/ ShutdownTimesOut(r) \/ GoroutineStep(r)

\* main goes on, and so do a handler and a Sync that runs.  A select takes
\* ctx.Done() in the end, and Go's mutex hands itself to a waiter it starves.
\* Nobody has to start the program, to send it a signal, a request or a
\* notification.
LifecycleFairness ==
  /\ \A r \in Replicas : WF_lifecycleVars(MainStep(r))
  /\ \A r \in Followed :
       /\ WF_lifecycleVars(Handle(r))
       /\ WF_lifecycleVars(\E g \in Goroutines : SyncReturns(r, g))
       /\ \A g \in Goroutines : SF_lifecycleVars(Lock(r, g))
       /\ \A g \in {"poller", "realtime"} : SF_lifecycleVars(Stop(r, g))

LifecycleSpec ==
  LifecycleInit /\ [][LifecycleNext]_lifecycleVars /\ LifecycleFairness

-----------------------------------------------------------------------------
(* Properties                                                              *)

\* Every variable has its type.
LifecycleTypeOK ==
  /\ table \in BOOLEAN /\ recorded \subseteq 1 .. Files
  /\ times \in [1 .. Files -> Nat]
  /\ pc \in [Replicas -> Down \cup Migrating \cup
              {"migrated", "serving", "shutdown", "polling", "realtime", "exited"}]
  /\ at \in [Replicas -> 1 .. Files + 1] /\ found \in [Replicas -> Nat]
  /\ starts \in Nat /\ faults \in Nat
  /\ signal \in [Replicas -> BOOLEAN]
  /\ door \in [Replicas -> {"none", "starting", "open", "closed"}]
  /\ doing \in [Replicas -> [Goroutines ->
                 {"none", "idle", "handling", "waiting", "syncing", "stopped"}]]
  /\ mutex \in [Replicas -> Goroutines \cup {"free"}]

\* When main returns and closes the database, nobody can use it any more: both
\* goroutines have ended, every request that was accepted has been answered, and
\* none can come (Shutdown, then the two waits, before the deferred Close).
CleanExit ==
  \A r \in Replicas :
    pc[r] = "exited" => /\ doing[r].poller = "stopped" /\ doing[r].realtime = "stopped"
                        /\ doing[r].request = "idle" /\ mutex[r] = "free"
                        /\ door[r] # "open"

\* A signal ends the program, whatever its goroutines wait for.
ShutdownEnds ==
  \A r \in Replicas : signal[r] ~> pc[r] \in Down \cup {"exited"}
=============================================================================
