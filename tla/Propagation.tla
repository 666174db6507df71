---------------------------- MODULE Propagation ----------------------------
(***************************************************************************)
(* How a commit made elsewhere (by another replica, or in psql) reaches    *)
(* this replica's store: the realtime listener (RealtimeListener) and the  *)
(* poller (StartPolling, internal/sync/syncer.go), which run the same      *)
(* Syncer.Sync under its mutex, over one sequence of commits.              *)
(*                                                                         *)
(* The store is the number of a commit: every flag in it was read after    *)
(* that commit.  A Sync that succeeds sets it to the commits there were    *)
(* when it began to read; one that fails leaves it (FlagSync models the    *)
(* statements in between and the handlers' own Syncs).  A transaction that *)
(* notifies and changes no flag counts as a commit here as well: to cover  *)
(* it, or not, makes no difference to the flags.                           *)
(***************************************************************************)
EXTENDS RealtimeListener

CONSTANT MaxFails  \* bound: Syncs that fail before the program stops

ASSUME PropagationAssumption == MaxFails \in Nat

VARIABLES poller,   \* where StartPolling's goroutine is
          mutex,    \* the goroutine in Sync, or "free"
          read,     \* per goroutine, the commits when its Sync began to read
          stored,   \* the commits the current store covers
          excused,  \* the commits that only the poller has to bring
          fails     \* Syncs that failed so far

Syncers == {"listener", "poller"}

storeVars == <<poller, mutex, read, stored, excused, fails>>
propagationVars == <<vars, storeVars>>

PropagationInit ==
  /\ Init
  /\ poller = "starting" /\ mutex = "free"
  /\ read = [s \in Syncers |-> 0]
  /\ stored = 0 /\ excused = 0 /\ fails = 0

-----------------------------------------------------------------------------
(* Syncer.Sync                                                             *)

\* Mutant: Sync without its mutex.
SyncBeginsUnlocked(s) ==
  /\ mutex' = s
  /\ read' = [read EXCEPT ![s] = commits]
  /\ UNCHANGED <<stored, fails>>

\* s.mu.Lock(), and LoadAllFlags begins.
SyncBegins(s) ==
  /\ mutex = "free" /\ mutex' = s
  /\ read' = [read EXCEPT ![s] = commits]
  /\ UNCHANGED <<stored, fails>>

\* holder.Swap, and the deferred Unlock.
SyncSucceeds(s) ==
  /\ mutex' = "free"
  /\ stored' = read[s]
  /\ read' = [read EXCEPT ![s] = 0]
  /\ UNCHANGED fails

\* LoadAllFlags fails, as it may at any time and as it does once its context
\* has ended: the store stays.
SyncFails(s) ==
  /\ \/ done /\ UNCHANGED fails
     \/ fails < MaxFails /\ fails' = fails + 1
  /\ mutex' = "free"
  /\ read' = [read EXCEPT ![s] = 0]
  /\ UNCHANGED stored

-----------------------------------------------------------------------------
(* The listener                                                            *)

\* What was committed before the LISTEN is not notified.
ListenerConnects ==
  /\ Connect
  /\ excused' = commits
  /\ UNCHANGED <<poller, mutex, read, stored, fails>>

ListenerLoads ==
  /\ SyncLoad /\ SyncBegins("listener")
  /\ UNCHANGED <<poller, excused>>

\* A failed Sync is logged and not tried again: its notifications are spent.
ListenerReturns ==
  /\ SyncReturn
  /\ \/ SyncSucceeds("listener") /\ UNCHANGED excused
     \/ SyncFails("listener") /\ excused' = read["listener"]
  /\ UNCHANGED poller

\* A step of the listener, its connection or its environment that no Sync sees.
Apart(A) == A /\ UNCHANGED storeVars

-----------------------------------------------------------------------------
(* StartPolling                                                            *)

\* Sync on startup, then whenever the ticker's case is taken.
PollerLoads ==
  /\ poller \in {"starting", "ticking"} /\ poller' = "loaded"
  /\ SyncBegins("poller")
  /\ UNCHANGED <<vars, excused>>

\* Mutant: an error ends the goroutine.
PollerReturnsOnce ==
  /\ poller = "loaded"
  /\ \/ SyncSucceeds("poller") /\ poller' = "ticking"
     \/ SyncFails("poller") /\ poller' = "stopped"
  /\ UNCHANGED <<vars, excused>>

\* An error is logged, and the next tick tries again.
PollerReturns ==
  /\ poller = "loaded" /\ poller' = "ticking"
  /\ SyncSucceeds("poller") \/ SyncFails("poller")
  /\ UNCHANGED <<vars, excused>>

\* case <-ctx.Done().
PollerStops ==
  /\ poller = "ticking" /\ done
  /\ poller' = "stopped"
  /\ UNCHANGED <<vars, mutex, read, stored, excused, fails>>

-----------------------------------------------------------------------------
PollerStep == PollerLoads \/ PollerReturns \/ PollerStops

AllStopped == poller = "stopped" /\ Terminated /\ UNCHANGED storeVars

PropagationNext ==
  \/ ListenerConnects \/ ListenerLoads \/ ListenerReturns
  \/ Apart(ConnectDone \/ Sleep \/ SleepDone \/ SelectStep \/ WaiterStep \/ Environment)
  \/ PollerStep
  \/ AllStopped

\* Only the poller is relied on: its select takes its tick again and again, and a
\* Sync that runs returns.  Go's mutex hands itself to a waiter it starves.
PropagationFairness ==
  /\ SF_propagationVars(PollerLoads)
  /\ WF_propagationVars(PollerReturns) /\ WF_propagationVars(ListenerReturns)

PropagationSpec ==
  PropagationInit /\ [][PropagationNext]_propagationVars /\ PropagationFairness

-----------------------------------------------------------------------------
(* Properties                                                              *)

\* Every variable has its type.
PropagationTypeOK ==
  /\ TypeOK
  /\ poller \in {"starting", "ticking", "loaded", "stopped"}
  /\ mutex \in Syncers \cup {"free"}
  /\ read \in [Syncers -> Nat]
  /\ stored \in Nat /\ excused \in Nat /\ fails \in Nat

\* Two goroutines that sync never take the store back to an older commit, in
\* whatever order they began to read.
StoreMovesForward == [][stored <= stored']_propagationVars

\* While the listener's connection lives, a store that is behind is explained: a
\* refresh is on its way, or the missing commits came before the LISTEN, or before
\* a refresh of the listener that failed, and are left to the poller.
StaleExplained ==
  (listening /\ ~broken /\ stored < commits /\ excused < commits)
    => Pending \/ pc = "loaded"

\* Once commits stop, the store comes to cover them all, for good: notifications
\* that were lost with a connection or spent on a failed refresh are made up for
\* by the poller alone, which no error ends, whatever the listener does.
EventuallyStored == <>[](stored = commits) \/ <>done
=============================================================================
