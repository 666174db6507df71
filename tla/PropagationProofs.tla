------------------------- MODULE PropagationProofs -------------------------
(***************************************************************************)
(* Proofs about RealtimeListener, and about Propagation which composes it  *)
(* with the poller and the store, for every number of commits and failures.*)
(*                                                                         *)
(* NoLostWakeup alone is not inductive: a step must know that commits that *)
(* are not covered were made while the connection listened, and that run   *)
(* cannot leave a connection open behind it.  AtMostOneSyncPerCommit needs *)
(* to count what is on its way to a Sync as well as the Syncs that ran.    *)
(*                                                                         *)
(* A step of the composition is a step of the listener or leaves it alone, *)
(* so the listener's inductive invariant holds there too; the rest is what *)
(* the mutex protects, and what the listener's account of the commits it   *)
(* owes means for the store.                                               *)
(***************************************************************************)
EXTENDS Propagation, TLAPS

-----------------------------------------------------------------------------
(* The listener                                                            *)

\* Each commit is at most one of: a notification in the session, one on its way
\* to the timer, the timer, a Sync about to run, a Sync that ran.
Owed ==
  queue + notif + syncs
    + (IF waiter = "received" THEN 1 ELSE 0)
    + (IF timer = "none" THEN 0 ELSE 1)
    + (IF pc = "sync" THEN 1 ELSE 0)

IInv ==
  /\ TypeOK
  /\ covered <= commits
  /\ broken => listening
  /\ ConnectionClosed
  /\ NoLostWakeup
  /\ Owed <= commits

-----------------------------------------------------------------------------
\* The inductive invariant holds initially.
LEMMA InitIInv == Init => IInv
<1> SUFFICES ASSUME Init PROVE IInv
  OBVIOUS
<1>1. listening \in BOOLEAN /\ broken \in BOOLEAN /\ done \in BOOLEAN
  BY Zenon DEF Init
<1>2. ~listening /\ ~broken
  BY Zenon DEF Init
<1> QED
  BY <1>1, <1>2 DEF Init, IInv, TypeOK, Labels, Waiters, ConnectionClosed,
                    NoLostWakeup, Owed

\* Every step of the two goroutines and of their environment preserves it.
LEMMA NextIInv == IInv /\ [Next]_vars => IInv'
<1> SUFFICES ASSUME IInv, [Next]_vars PROVE IInv'
  OBVIOUS
<1> USE DEF IInv, TypeOK, Labels, Waiters, ConnectionClosed, NoLostWakeup,
            Pending, Owed
<1>1. CASE Commit
  BY <1>1 DEF Commit, run, channels
<1>2. CASE Drop
  <2>1. listening' /\ broken' /\ listening' \in BOOLEAN /\ broken' \in BOOLEAN
    BY <1>2, Zenon DEF Drop
  <2>2. queue' \in Nat /\ queue' <= queue
    BY <1>2 DEF Drop
  <2>3. UNCHANGED <<pc, timer, waiter, notif, errs, done, commits, covered, syncs>>
    BY <1>2, Zenon DEF Drop, run, channels
  <2>4. drops' \in Nat
    BY <1>2 DEF Drop
  <2>5. pc' \in {"select", "sync", "loaded"}
    BY <1>2, <2>3 DEF Drop
  <2>6. TypeOK'
    BY <2>1, <2>2, <2>3, <2>4
  <2>7. NoLostWakeup' /\ ConnectionClosed'
    BY <2>1, <2>5
  <2>8. Owed' <= commits'
    <3> DEFINE Rest == notif + syncs + (IF waiter = "received" THEN 1 ELSE 0)
                         + (IF timer = "none" THEN 0 ELSE 1)
                         + (IF pc = "sync" THEN 1 ELSE 0)
    <3>1. Rest' = Rest /\ commits' = commits
      BY <2>3
    <3>2. Rest \in Nat /\ Owed = queue + Rest /\ Owed' = queue' + Rest'
      BY <2>6
    <3> HIDE DEF Rest
    <3> QED
      BY <2>2, <3>1, <3>2
  <2> QED
    BY <2>1, <2>3, <2>6, <2>7, <2>8
<1>3. CASE Cancel
  BY <1>3 DEF Cancel, run, session, channels, ghosts
<1>4. CASE TimerFires
  BY <1>4 DEF TimerFires, session, channels, ghosts
<1>5. CASE Connect
  <2>1. listening' /\ ~broken' /\ listening' \in BOOLEAN /\ broken' \in BOOLEAN
    BY <1>5, Zenon DEF Connect
  <2> QED
    BY <1>5, <2>1 DEF Connect
<1>6. CASE ConnectFails
  BY <1>6 DEF ConnectFails, session, channels
<1>7. ASSUME StopRun PROVE IInv'
  <2>1. ~listening' /\ ~broken' /\ listening' \in BOOLEAN /\ broken' \in BOOLEAN
    BY <1>7, Zenon DEF StopRun
  <2> QED
    BY <1>7, <2>1 DEF StopRun, channels, ghosts
<1>8. CASE ConnectDone \/ SleepDone \/ SelectDone
  BY <1>7, <1>8 DEF ConnectDone, SleepDone, SelectDone
<1>9. CASE Sleep
  BY <1>9 DEF Sleep, session, channels, ghosts
<1>10. CASE SelectNotify
  BY <1>10 DEF SelectNotify, session, ghosts
<1>11. CASE SelectTimer
  BY <1>11 DEF SelectTimer, session, channels, ghosts
<1>12. CASE SyncLoad
  BY <1>12 DEF SyncLoad, session, channels
<1>20. CASE SyncReturn
  BY <1>20 DEF SyncReturn, session, channels, ghosts
<1>13. CASE SelectErr
  <2>1. CASE StopRun
    BY <1>7, <2>1
  <2>2. CASE ~StopRun
    <3>1. ~listening' /\ ~broken' /\ listening' \in BOOLEAN /\ broken' \in BOOLEAN
      BY <1>13, <2>2, Zenon DEF SelectErr
    <3> QED
      BY <1>13, <2>2, <3>1 DEF SelectErr, ghosts
  <2> QED
    BY <2>1, <2>2
<1>14. CASE Receive
  BY <1>14 DEF Receive, run, channels, ghosts
<1>15. CASE Forward
  BY <1>15 DEF Forward, run, ghosts
<1>16. CASE ReceiveError
  BY <1>16 DEF ReceiveError, run, channels, ghosts
<1>17. CASE ForwardError
  BY <1>17 DEF ForwardError, run, ghosts
<1>18. CASE WaiterDone
  BY <1>18 DEF WaiterDone, run, channels, ghosts
<1>19. CASE UNCHANGED vars
  BY <1>19 DEF vars
<1> QED
  BY <1>1, <1>2, <1>3, <1>4, <1>5, <1>6, <1>8, <1>9, <1>10, <1>11, <1>12,
     <1>13, <1>14, <1>15, <1>16, <1>17, <1>18, <1>19, <1>20
     DEF Next, RunStep, SelectStep, WaiterStep, Environment, Terminated

\* The inductive invariant holds throughout.
THEOREM Invariance == Spec => []IInv
BY InitIInv, NextIInv, PTL DEF Spec

\* The variables of the listener keep their types; in particular neither
\* channel ever holds more than its capacity of one.
THEOREM TypeCorrect == Spec => []TypeOK
<1>1. IInv => TypeOK
  BY DEF IInv
<1> QED
  BY <1>1, Invariance, PTL

\* While a connection lives no commit's wakeup is lost between the session, the
\* waiter, the channel, the debounce timer and Sync, for any number of commits.
THEOREM WakeupKept == Spec => []NoLostWakeup
<1>1. IInv => NoLostWakeup
  BY DEF IInv
<1> QED
  BY <1>1, Invariance, PTL

\* The debounce never multiplies refreshes: at most one Sync per transaction that
\* notified.
THEOREM NoRefreshStorm == Spec => []AtMostOneSyncPerCommit
<1>1. IInv => AtMostOneSyncPerCommit
  BY DEF IInv, TypeOK, Owed, AtMostOneSyncPerCommit
<1> QED
  BY <1>1, Invariance, PTL

\* Whenever run sleeps, reconnects or has returned, its connection is closed.
THEOREM NoConnectionLeak == Spec => []ConnectionClosed
<1>1. IInv => ConnectionClosed
  BY DEF IInv
<1> QED
  BY <1>1, Invariance, PTL

-----------------------------------------------------------------------------
(* The store                                                               *)


\* Who is in Sync has the mutex, and read no older commits than the store's.
MutexInv ==
  /\ pc = "loaded" <=> mutex = "listener"
  /\ poller = "loaded" <=> mutex = "poller"
  /\ \A s \in Syncers : mutex = s => stored <= read[s] /\ read[s] <= commits

\* What the listener owes no Sync for is what its Sync is reading, or else in the
\* store or left to the poller.
CoveredInv ==
  IF pc = "loaded" THEN covered = read["listener"]
                   ELSE covered <= stored \/ covered <= excused

PInv == /\ IInv /\ PropagationTypeOK
        /\ stored <= commits
        /\ MutexInv /\ CoveredInv

-----------------------------------------------------------------------------
(* The listener in the composition                                         *)

\* Hiding the store and the poller, every step is one of the listener.
LEMMA NextIsListener == [PropagationNext]_propagationVars => [Next]_vars
BY DEF PropagationNext, propagationVars, ListenerConnects, ListenerLoads,
       ListenerReturns, Apart, PollerStep, PollerLoads, PollerReturns,
       PollerStops, AllStopped, Next, RunStep

\* The composition adds no behaviour to the listener: the mutex only delays its
\* Syncs, so what is proved of the listener's steps holds beside the poller.
THEOREM ListenerUnchanged == PropagationSpec => Init /\ [][Next]_vars
<1>1. PropagationInit => Init
  BY DEF PropagationInit
<1> QED
  BY <1>1, NextIsListener, PTL DEF PropagationSpec

\* A step apart from any Sync starts and ends none, and covers no commit.
LEMMA ApartStep ==
  ASSUME IInv, ConnectDone \/ Sleep \/ SleepDone \/ SelectStep \/ WaiterStep
                 \/ Environment
  PROVE  /\ pc = "loaded" <=> pc' = "loaded"
         /\ covered' = covered /\ commits <= commits' /\ commits' \in Nat
<1> USE DEF IInv, TypeOK, run, session, channels, ghosts
<1>1. CASE ConnectDone \/ Sleep \/ SleepDone
  BY <1>1 DEF ConnectDone, Sleep, SleepDone, StopRun
<1>2. CASE SelectStep
  BY <1>2 DEF SelectStep, SelectNotify, SelectTimer, SelectErr, SelectDone, StopRun
<1>3. CASE WaiterStep
  BY <1>3 DEF WaiterStep, Receive, Forward, ReceiveError, ForwardError, WaiterDone
<1>4. CASE Environment
  BY <1>4 DEF Environment, Commit, Drop, Cancel, TimerFires, ConnectFails
<1> QED
  BY <1>1, <1>2, <1>3, <1>4

-----------------------------------------------------------------------------
(* The inductive invariant                                                 *)

\* It holds initially.
LEMMA InitPInv == PropagationInit => PInv
<1> SUFFICES ASSUME PropagationInit PROVE PInv
  OBVIOUS
<1>1. IInv
  BY InitIInv DEF PropagationInit
<1> QED
  BY <1>1 DEF PropagationInit, Init, PInv, IInv, PropagationTypeOK, MutexInv,
              CoveredInv, Syncers

\* Whichever goroutine syncs, the store moves to what it read or stays.
LEMMA SyncEnds ==
  ASSUME PInv, NEW s \in Syncers, mutex = s, commits' = commits,
         SyncSucceeds(s) \/ SyncFails(s)
  PROVE  /\ mutex' = "free" /\ stored' \in Nat /\ fails' \in Nat
         /\ read' \in [Syncers -> Nat]
         /\ stored <= stored' /\ stored' <= commits
         /\ SyncSucceeds(s) => stored' = read[s]
BY DEF PInv, MutexInv, PropagationTypeOK, SyncSucceeds, SyncFails

\* Every step keeps it.
LEMMA NextPInv == PInv /\ [PropagationNext]_propagationVars => PInv'
<1> SUFFICES ASSUME PInv, [PropagationNext]_propagationVars PROVE PInv'
  OBVIOUS
<1>1. IInv'
  BY NextIInv, NextIsListener DEF PInv
<1>2. TypeOK'
  BY <1>1 DEF IInv
<1>3. /\ TypeOK /\ covered <= commits /\ stored \in Nat /\ excused \in Nat
      /\ fails \in Nat /\ read \in [Syncers -> Nat] /\ commits \in Nat
      /\ poller \in {"starting", "ticking", "loaded", "stopped"}
      /\ mutex \in Syncers \cup {"free"} /\ stored <= commits /\ covered \in Nat
  BY DEF PInv, IInv, PropagationTypeOK, TypeOK
<1>4. MutexInv /\ CoveredInv
  BY DEF PInv
<1> USE DEF Syncers
<1> SUFFICES PropagationTypeOK' /\ stored' <= commits' /\ MutexInv' /\ CoveredInv'
  BY <1>1 DEF PInv
<1>5. CASE ListenerConnects
  <2>1. /\ UNCHANGED <<poller, mutex, read, stored, fails, commits>>
        /\ pc = "connect" /\ pc' = "select" /\ excused' = commits
        /\ covered' = commits
    BY <1>5 DEF ListenerConnects, Connect
  <2> QED
    BY <1>2, <1>3, <1>4, <2>1 DEF PropagationTypeOK, MutexInv, CoveredInv
<1>6. CASE ListenerLoads
  <2>1. /\ UNCHANGED <<poller, stored, fails, excused, commits>>
        /\ pc = "sync" /\ pc' = "loaded" /\ covered' = commits
        /\ mutex = "free" /\ mutex' = "listener"
        /\ read' = [read EXCEPT !["listener"] = commits]
    BY <1>6 DEF ListenerLoads, SyncLoad, SyncBegins
  <2> QED
    BY <1>2, <1>3, <1>4, <2>1 DEF PropagationTypeOK, MutexInv, CoveredInv
<1>7. CASE ListenerReturns
  <2>1. /\ UNCHANGED <<poller, commits, covered>>
        /\ pc = "loaded" /\ pc' = "select"
        /\ \/ SyncSucceeds("listener") /\ UNCHANGED excused
           \/ SyncFails("listener") /\ excused' = read["listener"]
    BY <1>7 DEF ListenerReturns, SyncReturn, ghosts
  <2>2. mutex = "listener" /\ read["listener"] \in Nat
    BY <1>3, <1>4, <2>1 DEF MutexInv
  <2>3. /\ mutex' = "free" /\ stored' \in Nat /\ fails' \in Nat
        /\ read' \in [Syncers -> Nat]
        /\ stored <= stored' /\ stored' <= commits
        /\ SyncSucceeds("listener") => stored' = read["listener"]
    BY <2>1, <2>2, SyncEnds
  <2>4. CoveredInv'
    BY <1>3, <1>4, <2>1, <2>2, <2>3 DEF CoveredInv
  <2> QED
    BY <1>2, <1>3, <1>4, <2>1, <2>2, <2>3, <2>4 DEF PropagationTypeOK, MutexInv
<1>8. CASE Apart(ConnectDone \/ Sleep \/ SleepDone \/ SelectStep \/ WaiterStep
                   \/ Environment)
  <2>1. /\ pc = "loaded" <=> pc' = "loaded"
        /\ covered' = covered /\ commits <= commits' /\ commits' \in Nat
    BY <1>8, ApartStep DEF Apart, PInv
  <2>2. UNCHANGED storeVars
    BY <1>8 DEF Apart
  <2> QED
    BY <1>2, <1>3, <1>4, <2>1, <2>2
       DEF storeVars, PropagationTypeOK, MutexInv, CoveredInv
<1>9. CASE PollerLoads
  <2>1. /\ UNCHANGED <<pc, commits, covered, excused, stored, fails>>
        /\ poller # "loaded" /\ poller' = "loaded"
        /\ mutex = "free" /\ mutex' = "poller"
        /\ read' = [read EXCEPT !["poller"] = commits]
    BY <1>9 DEF PollerLoads, SyncBegins, vars
  <2> QED
    BY <1>2, <1>3, <1>4, <2>1 DEF PropagationTypeOK, MutexInv, CoveredInv
<1>10. CASE PollerReturns
  <2>1. /\ UNCHANGED <<pc, commits, covered, excused>>
        /\ poller = "loaded" /\ poller' = "ticking"
        /\ SyncSucceeds("poller") \/ SyncFails("poller")
    BY <1>10 DEF PollerReturns, vars
  <2>2. mutex = "poller"
    BY <1>4, <2>1 DEF MutexInv
  <2>3. /\ mutex' = "free" /\ stored' \in Nat /\ fails' \in Nat
        /\ read' \in [Syncers -> Nat]
        /\ stored <= stored' /\ stored' <= commits
    BY <2>1, <2>2, SyncEnds
  <2>4. CoveredInv'
    BY <1>3, <1>4, <2>1, <2>2, <2>3 DEF CoveredInv, MutexInv
  <2> QED
    BY <1>2, <1>3, <1>4, <2>1, <2>2, <2>3, <2>4 DEF PropagationTypeOK, MutexInv
<1>11. CASE PollerStops
  <2>1. /\ UNCHANGED <<pc, commits, covered, mutex, read, stored, excused, fails>>
        /\ poller # "loaded" /\ poller' = "stopped"
    BY <1>11 DEF PollerStops, vars
  <2> QED
    BY <1>2, <1>3, <1>4, <2>1 DEF PropagationTypeOK, MutexInv, CoveredInv
<1>12. CASE UNCHANGED propagationVars
  <2>1. UNCHANGED <<pc, commits, covered, storeVars>>
    BY <1>12 DEF propagationVars, vars
  <2> QED
    BY <1>2, <1>3, <1>4, <2>1
       DEF storeVars, PropagationTypeOK, MutexInv, CoveredInv
<1>13. CASE AllStopped
  BY <1>12, <1>13 DEF AllStopped, Terminated, propagationVars
<1> QED
  BY <1>5, <1>6, <1>7, <1>8, <1>9, <1>10, <1>11, <1>12, <1>13
     DEF PropagationNext, PollerStep

\* The inductive invariant holds throughout.
THEOREM PropagationInvariance == PropagationSpec => []PInv
BY InitPInv, NextPInv, PTL DEF PropagationSpec

-----------------------------------------------------------------------------
(* The theorems                                                            *)

\* The variables of the listener, the poller and the store keep their types.
THEOREM PropagationTypeCorrect == PropagationSpec => []PropagationTypeOK
<1>1. PInv => PropagationTypeOK
  BY DEF PInv
<1> QED
  BY <1>1, PropagationInvariance, PTL

\* No refresh takes the store back to older commits, whichever goroutine read
\* first.
THEOREM NoRegression == PropagationSpec => StoreMovesForward
<1>1. PInv /\ [PropagationNext]_propagationVars => [stored <= stored']_propagationVars
  <2> SUFFICES ASSUME PInv, PropagationNext PROVE stored <= stored'
    OBVIOUS
  <2>1. stored \in Nat
    BY DEF PInv, PropagationTypeOK
  <2>2. ASSUME NEW s \in Syncers, mutex = s, commits' = commits,
               SyncSucceeds(s) \/ SyncFails(s)
        PROVE  stored <= stored'
    BY <2>2, SyncEnds
  <2>3. CASE ListenerReturns
    BY <2>2, <2>3
       DEF ListenerReturns, SyncReturn, ghosts, PInv, MutexInv, Syncers
  <2>4. CASE PollerReturns
    BY <2>2, <2>4 DEF PollerReturns, vars, PInv, MutexInv, Syncers
  <2>5. CASE stored' = stored
    BY <2>1, <2>5
  <2> QED
    BY <2>3, <2>4, <2>5
       DEF PropagationNext, ListenerConnects, ListenerLoads, SyncBegins, Apart,
           storeVars, PollerStep, PollerLoads, PollerStops, AllStopped
<1> QED
  BY <1>1, PropagationInvariance, PTL DEF PropagationSpec, StoreMovesForward

\* While the listener's connection lives, a store that is behind has a refresh
\* on its way, but for what only the poller can know of.
THEOREM StalenessExplained == PropagationSpec => []StaleExplained
<1>1. PInv => StaleExplained
  BY DEF PInv, IInv, TypeOK, PropagationTypeOK, CoveredInv, NoLostWakeup,
         StaleExplained
<1> QED
  BY <1>1, PropagationInvariance, PTL

-----------------------------------------------------------------------------
(* The replica's contract                                                  *)

\* The tables as a single flag of FlagReplica: every commit writes it, the store
\* shows it as of one commit, and no handler answers here.
TablesAsOne == {"tables"}
Contract ==
  INSTANCE FlagReplica WITH
    Keys   <- TablesAsOne,
    clock  <- commits,
    latest <- [k \in TablesAsOne |-> commits],
    shown  <- [k \in TablesAsOne |-> [oldest |-> stored, newest |-> stored]],
    acked  <- [k \in TablesAsOne |-> 0]

\* A step in which the tables gain a commit is a write.
LEMMA CommitIsWrite ==
  ASSUME PInv, commits' = commits + 1, stored' = stored
  PROVE  Contract!Write("tables")
BY DEF PInv, PropagationTypeOK, TypeOK, TablesAsOne, Contract!Write

\* A step that moves the store, forward and not beyond the tables, is a refresh.
LEMMA SyncIsRefresh ==
  ASSUME PInv, commits' = commits, stored' \in Nat,
         stored <= stored', stored' <= commits
  PROVE  Contract!Refresh
BY DEF PInv, PropagationTypeOK, TypeOK, TablesAsOne, Contract!Refresh,
       Contract!Interval

\* The listener and the poller together implement the contract that the handlers'
\* refresh implements (FlagSyncRefinement): a commit is a write, a Sync that
\* succeeds is a refresh, whichever goroutine runs it and whatever is lost, fails
\* or is cancelled on the way, and nothing else can be seen of them.
THEOREM FollowsTables == PropagationSpec => Contract!Spec
<1>1. PropagationInit => Contract!Init
  BY DEF PropagationInit, Init, TablesAsOne, Contract!Init, Contract!Empty,
         Contract!Nothing, Contract!Interval
<1>2. PInv /\ [PropagationNext]_propagationVars
        => [Contract!Next]_(Contract!replicaVars)
  <2> SUFFICES ASSUME PInv, [PropagationNext]_propagationVars
               PROVE  [Contract!Next]_(Contract!replicaVars)
    OBVIOUS
  <2>1. ASSUME commits' = commits, stored' = stored
        PROVE  UNCHANGED Contract!replicaVars
    BY <2>1 DEF Contract!replicaVars
  <2>2. ASSUME NEW s \in Syncers, mutex = s, commits' = commits,
               SyncSucceeds(s) \/ SyncFails(s)
        PROVE  Contract!Refresh
    BY <2>2, SyncEnds, SyncIsRefresh
  <2>3. CASE ListenerReturns
    BY <2>2, <2>3 DEF ListenerReturns, SyncReturn, ghosts, PInv, MutexInv, Syncers,
                      Contract!Next
  <2>4. CASE PollerReturns
    BY <2>2, <2>4 DEF PollerReturns, vars, PInv, MutexInv, Syncers, Contract!Next
  <2>5. CASE ListenerConnects \/ ListenerLoads
    BY <2>1, <2>5
       DEF ListenerConnects, ListenerLoads, Connect, SyncLoad, SyncBegins
  <2>6. CASE PollerLoads \/ PollerStops \/ AllStopped \/ UNCHANGED propagationVars
    BY <2>1, <2>6 DEF PollerLoads, PollerStops, AllStopped, Terminated, SyncBegins,
                      propagationVars, storeVars, vars
  <2>7. CASE Apart(Commit)
    BY <2>7, CommitIsWrite
       DEF Apart, Commit, storeVars, TablesAsOne, Contract!Next
  <2>8. CASE Apart(ConnectDone \/ Sleep \/ SleepDone \/ SelectStep \/ WaiterStep
                     \/ Drop \/ Cancel \/ TimerFires \/ ConnectFails)
    BY <2>1, <2>8
       DEF Apart, storeVars, ConnectDone, Sleep, SleepDone, StopRun, SelectStep,
           SelectNotify, SelectTimer, SelectErr, SelectDone, WaiterStep, Receive,
           Forward, ReceiveError, ForwardError, WaiterDone, Drop, Cancel,
           TimerFires, ConnectFails, run, session, channels, ghosts
  <2> QED
    BY <2>3, <2>4, <2>5, <2>6, <2>7, <2>8
       DEF PropagationNext, PollerStep, Apart, Environment
<1> QED
  BY <1>1, <1>2, PropagationInvariance, PTL DEF PropagationSpec, Contract!Spec
=============================================================================
