-------------------------- MODULE RealtimeListener --------------------------
(***************************************************************************)
(* The realtime listener (internal/sync/realtime.go).  One goroutine,      *)
(* "run", connects to PostgreSQL, LISTENs and then selects between a       *)
(* notification, its debounce timer, an error and the end of its context.  *)
(* A second goroutine per connection, waitForNotifications, moves what the *)
(* session receives into two channels of capacity one and never blocks on  *)
(* them.  The triggers of 000002_flags_updated_notify.sql send one         *)
(* notification per transaction that executes a statement on the flags'    *)
(* tables: they are FOR EACH STATEMENT, so the DELETE of a key that has no *)
(* flag notifies too.  "Commits" are these transactions.                   *)
(*                                                                         *)
(* What Sync does is FlagSync's subject; here it is the moment at which it *)
(* begins to read the tables and the one at which it returns, whether or   *)
(* not it succeeds.  Propagation adds what it leaves in the store.         *)
(***************************************************************************)
EXTENDS Naturals

CONSTANTS MaxCommits,  \* bound: transactions that notify
          MaxDrops     \* bound: connections and connection attempts that fail

ASSUME ListenerAssumption == MaxCommits \in Nat /\ MaxDrops \in Nat

VARIABLES pc,         \* where run is
          waiter,     \* where the connection's waitForNotifications is
          listening,  \* a connection is open and has executed LISTEN
          broken,     \* that connection failed
          queue,      \* notifications its session has still to deliver
          notif,      \* items in the channel notifications
          errs,       \* items in the channel errs
          timer,      \* the debounce timer
          done,       \* the context has ended
          commits,    \* transactions that notified so far
          covered,    \* the commits the listener owes no Sync for
          syncs,      \* calls of Sync so far
          drops       \* failures so far

run == <<pc, timer>>
session == <<waiter, listening, broken, queue>>
channels == <<notif, errs>>
ghosts == <<commits, covered, syncs, drops>>
vars == <<pc, waiter, listening, broken, queue, notif, errs, timer, done,
          commits, covered, syncs, drops>>

Labels == {"connect", "sleep", "select", "sync", "loaded", "stopped"}
Waiters == {"none", "waiting", "received", "failed", "ended"}

Init ==
  /\ pc = "connect" /\ waiter = "none"
  /\ listening = FALSE /\ broken = FALSE
  /\ queue = 0 /\ notif = 0 /\ errs = 0
  /\ timer = "none" /\ done = FALSE
  /\ commits = 0 /\ covered = 0 /\ syncs = 0 /\ drops = 0

-----------------------------------------------------------------------------
(* The environment                                                         *)

\* A transaction wrote to the flags' tables, were it a DELETE of no row: the triggers
\* notify the sessions that listen.
Commit ==
  /\ commits < MaxCommits
  /\ commits' = commits + 1
  /\ queue' = IF listening /\ ~broken THEN queue + 1 ELSE queue
  /\ UNCHANGED <<run, waiter, listening, broken, channels, done, covered, syncs, drops>>

\* The connection fails; what it had received by then can still be read.
Drop ==
  /\ listening /\ ~broken /\ drops < MaxDrops
  /\ broken' = TRUE
  /\ queue' \in 0 .. queue
  /\ drops' = drops + 1
  /\ UNCHANGED <<run, waiter, listening, channels, done, commits, covered, syncs>>

\* The program is asked to stop.
Cancel ==
  /\ ~done /\ done' = TRUE
  /\ UNCHANGED <<run, session, channels, ghosts>>

TimerFires ==
  /\ timer = "armed" /\ timer' = "fired"
  /\ UNCHANGED <<pc, session, channels, done, ghosts>>

-----------------------------------------------------------------------------
(* run: connecting                                                         *)

\* The end of run: stopTimer, and the connection is closed if there is one.
StopRun ==
  /\ pc' = "stopped" /\ timer' = "none"
  /\ listening' = FALSE /\ broken' = FALSE /\ queue' = 0
  /\ UNCHANGED <<waiter, channels, done, ghosts>>

\* connectAndListen succeeds, perhaps just as its context ends: new channels and a
\* new waiter.  What was committed before the LISTEN is left to the poller.
Connect ==
  /\ pc = "connect"
  /\ listening' = TRUE /\ broken' = FALSE /\ queue' = 0
  /\ notif' = 0 /\ errs' = 0 /\ waiter' = "waiting"
  /\ pc' = "select"
  /\ covered' = commits
  /\ UNCHANGED <<timer, done, commits, syncs, drops>>

ConnectFails ==
  /\ pc = "connect" /\ ~done
  /\ drops < MaxDrops /\ drops' = drops + 1
  /\ pc' = "sleep"
  /\ UNCHANGED <<timer, session, channels, done, commits, covered, syncs>>

\* The context ends before run tries to connect, or while it does.
ConnectDone == pc = "connect" /\ done /\ StopRun

\* sleepContext(reconnectDelay).
Sleep ==
  /\ pc = "sleep" /\ ~done
  /\ pc' = "connect"
  /\ UNCHANGED <<timer, session, channels, done, ghosts>>

SleepDone == pc = "sleep" /\ done /\ StopRun

-----------------------------------------------------------------------------
(* run: the select                                                         *)

\* Mutant: a notification stops a timer that runs instead of leaving it.
SelectNotifyStops ==
  /\ pc = "select" /\ notif = 1
  /\ notif' = 0
  /\ timer' = IF timer = "none" THEN "armed" ELSE "none"
  /\ UNCHANGED <<pc, session, errs, done, ghosts>>

\* case <-notifications: arm the timer unless it is.
SelectNotify ==
  /\ pc = "select" /\ notif = 1
  /\ notif' = 0
  /\ timer' = IF timer = "none" THEN "armed" ELSE timer
  /\ UNCHANGED <<pc, session, errs, done, ghosts>>

\* Mutant: the timer is not stopped, so it is taken for armed ever after.
SelectTimerKept ==
  /\ pc = "select" /\ timer = "fired"
  /\ pc' = "sync"
  /\ UNCHANGED <<timer, session, channels, done, ghosts>>

\* case <-timerC: stopTimer, then Sync.
SelectTimer ==
  /\ pc = "select" /\ timer = "fired"
  /\ timer' = "none"
  /\ pc' = "sync"
  /\ UNCHANGED <<session, channels, done, ghosts>>

\* Sync has the mutex and begins to read the tables.
SyncLoad ==
  /\ pc = "sync"
  /\ covered' = commits
  /\ syncs' = syncs + 1
  /\ pc' = "loaded"
  /\ UNCHANGED <<timer, session, channels, done, commits, drops>>

\* Sync returns; its error is only logged.
SyncReturn ==
  /\ pc = "loaded"
  /\ pc' = "select"
  /\ UNCHANGED <<timer, session, channels, done, ghosts>>

\* Mutant: the failed connection is abandoned without being closed.
SelectErrUnclosed ==
  /\ pc = "select" /\ errs = 1
  /\ \/ done /\ StopRun
     \/ /\ ~done
        /\ pc' = "sleep"
        /\ UNCHANGED <<timer, session, channels, done, ghosts>>

\* case err := <-errs: close the connection and wait before the next one.
\* A timer that is armed stays so; what the old channels held is lost.
SelectErr ==
  /\ pc = "select" /\ errs = 1
  /\ \/ done /\ StopRun
     \/ /\ ~done
        /\ pc' = "sleep"
        /\ listening' = FALSE /\ broken' = FALSE /\ queue' = 0
        /\ notif' = 0 /\ errs' = 0
        /\ UNCHANGED <<timer, waiter, done, ghosts>>

\* case <-ctx.Done().
SelectDone == pc = "select" /\ done /\ StopRun

-----------------------------------------------------------------------------
(* waitForNotifications                                                    *)

\* WaitForNotification returns a notification of the channel flags_updated.
Receive ==
  /\ waiter = "waiting" /\ queue > 0
  /\ queue' = queue - 1
  /\ waiter' = "received"
  /\ UNCHANGED <<run, listening, broken, channels, done, ghosts>>

\* Mutant: the channel has no bound.
ForwardUnbounded ==
  /\ waiter = "received"
  /\ notif' = notif + 1
  /\ waiter' = "waiting"
  /\ UNCHANGED <<run, listening, broken, queue, errs, done, ghosts>>

\* The select with a default: a full channel swallows the notification.
Forward ==
  /\ waiter = "received"
  /\ notif' = 1
  /\ waiter' = "waiting"
  /\ UNCHANGED <<run, listening, broken, queue, errs, done, ghosts>>

\* WaitForNotification returns the error of a failed connection.
ReceiveError ==
  /\ waiter = "waiting" /\ broken /\ queue = 0
  /\ waiter' = "failed"
  /\ UNCHANGED <<run, listening, broken, queue, channels, done, ghosts>>

\* Mutant: the channel errs has no buffer and no default, so that the waiter
\* blocks unless run is in its select.
ForwardErrorUnbuffered ==
  /\ waiter = "failed"
  /\ ~done /\ pc = "select"
  /\ waiter' = "ended"
  /\ errs' = 1
  /\ UNCHANGED <<run, listening, broken, queue, notif, done, ghosts>>

\* Mutant: every error is taken for the end of the context.
ForwardErrorSwallowed ==
  /\ waiter = "failed"
  /\ waiter' = "ended"
  /\ UNCHANGED <<run, listening, broken, queue, channels, done, ghosts>>

\* The error goes to run, unless the context has ended.
ForwardError ==
  /\ waiter = "failed"
  /\ waiter' = "ended"
  /\ errs' = IF done THEN errs ELSE 1
  /\ UNCHANGED <<run, listening, broken, queue, notif, done, ghosts>>

\* WaitForNotification returns the error of its context.
WaiterDone ==
  /\ waiter = "waiting" /\ done
  /\ waiter' = "ended"
  /\ UNCHANGED <<run, listening, broken, queue, channels, done, ghosts>>

-----------------------------------------------------------------------------
SelectStep == SelectNotify \/ SelectTimer \/ SelectErr \/ SelectDone
RunStep ==
  \/ Connect \/ ConnectDone \/ Sleep \/ SleepDone
  \/ SyncLoad \/ SyncReturn \/ SelectStep
WaiterStep == Receive \/ Forward \/ ReceiveError \/ ForwardError \/ WaiterDone
Environment == Commit \/ Drop \/ Cancel \/ TimerFires \/ ConnectFails

\* Nothing is left to do once run has returned and its waiter too.
Terminated == pc = "stopped" /\ waiter \in {"none", "ended"} /\ UNCHANGED vars

Next == RunStep \/ WaiterStep \/ Environment \/ Terminated

\* Both goroutines and the timer go on.  A select chooses at random among the
\* cases that are ready, hence strong fairness for each of them.
Fairness ==
  /\ WF_vars(Connect \/ ConnectDone \/ Sleep \/ SleepDone)
  /\ WF_vars(SyncLoad \/ SyncReturn)
  /\ SF_vars(SelectNotify) /\ SF_vars(SelectTimer)
  /\ SF_vars(SelectErr) /\ SF_vars(SelectDone)
  /\ WF_vars(WaiterStep) /\ WF_vars(TimerFires)

Spec == Init /\ [][Next]_vars /\ Fairness

-----------------------------------------------------------------------------
(* Properties                                                              *)

\* Every variable has its type.
TypeOK ==
  /\ pc \in Labels /\ waiter \in Waiters
  /\ listening \in BOOLEAN /\ broken \in BOOLEAN /\ done \in BOOLEAN
  /\ queue \in Nat /\ notif \in {0, 1} /\ errs \in {0, 1}
  /\ timer \in {"none", "armed", "fired"}
  /\ commits \in Nat /\ covered \in Nat /\ syncs \in Nat /\ drops \in Nat

\* A Sync is on its way: in the session, in the waiter's hands, in the
\* channel, behind the timer or about to start.
Pending ==
  \/ queue > 0 \/ waiter = "received" \/ notif = 1
  \/ timer # "none" \/ pc = "sync"

\* No wakeup is lost while a connection lives, however notifications are
\* coalesced by the full channel, the debounce timer and a running Sync: a
\* commit that no Sync has read yet has one on its way.
NoLostWakeup ==
  (listening /\ ~broken /\ covered < commits) => Pending

\* The debounce never makes more Syncs than there were transactions that notified: a
\* notification starts at most one, and a reconnection none.
AtMostOneSyncPerCommit == syncs <= commits

\* A connection is open only while run selects on its channels or syncs: run
\* closes it on every path out (reconnection, shutdown).
ConnectionClosed ==
  listening => pc \in {"select", "sync", "loaded"}

\* A commit made while the listener listens is read by a Sync, unless the
\* connection fails or the program stops first.
Refreshed ==
  (listening /\ ~broken /\ covered < commits)
    ~> (covered = commits \/ broken \/ ~listening \/ done)

\* A failed connection is replaced, unless the program stops.
Reconnects == broken ~> ((listening /\ ~broken) \/ done)

\* After the context ends, run returns and leaves no waiter behind.
Stops == done ~> (pc = "stopped" /\ waiter \in {"none", "ended"})
=============================================================================
