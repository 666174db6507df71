----------------------------- MODULE SdkClient -----------------------------
(***************************************************************************)
(* The Go SDK in local mode (pkg/client/client.go).  New makes a first     *)
(* Sync and starts the goroutine runSyncLoop; the application's goroutines *)
(* may call Sync as well, and Close, at any time.  Sync asks the server    *)
(* for every flag, swaps the local store and then, under a mutex of its    *)
(* own, records that it did: unlike the server's Syncer it holds no lock   *)
(* from its first line to its last.                                        *)
(*                                                                         *)
(* The flags are abstracted to the number of the server's last change that *)
(* an answer, or the store, contains.  What one answer of GET /flags may   *)
(* mix is FlagRepository's subject.  Remote mode keeps no state.           *)
(***************************************************************************)
EXTENDS Naturals

CONSTANTS Apps,        \* the application's goroutines
          Main,        \* the one that calls New
          Loop,        \* runSyncLoop
          MaxChanges,  \* bound: changes of the server's flags
          MaxFails     \* bound: requests that fail

ASSUME ClientAssumption ==
  /\ Main \in Apps /\ Loop \notin Apps
  /\ MaxChanges \in Nat /\ MaxFails \in Nat

VARIABLES catalogue,  \* the server's last change
          store,      \* what the local store contains, 0 for the empty store
          lastError,  \* whether Client.lastError is set
          pc,         \* where each goroutine is
          got,        \* the answer each Sync received
          ready,      \* New has returned a client
          closeCh,    \* closeCh is closed
          doneCh,     \* doneCh is closed
          returned,   \* some call of Close has returned
          fails       \* requests that failed so far

closing == <<closeCh, doneCh, returned>>
vars == <<catalogue, store, lastError, pc, got, ready, closing, fails>>

Procs == Apps \cup {Loop}
InSync == {"fetching", "answered", "swapped", "failed"}
AppLabels == InSync \cup {"idle", "closing", "refused"}
LoopLabels == InSync \cup {"off", "select", "ended"}

\* New is called: its first Sync is under way.
Init ==
  /\ catalogue = 1 /\ store = 0 /\ lastError = FALSE
  /\ pc = [p \in Procs |-> IF p = Main THEN "fetching"
                            ELSE IF p = Loop THEN "off" ELSE "idle"]
  /\ got = [p \in Procs |-> 0]
  /\ ready = FALSE /\ closeCh = FALSE /\ doneCh = FALSE /\ returned = FALSE
  /\ fails = 0

Goto(p, label) == pc' = [pc EXCEPT ![p] = label]

\* Somebody changes a flag through the server.
Change ==
  /\ catalogue < MaxChanges
  /\ catalogue' = catalogue + 1
  /\ UNCHANGED <<store, lastError, pc, got, ready, closing, fails>>

-----------------------------------------------------------------------------
(* Sync                                                                    *)

\* An application calls Sync, after Close too; the loop's ticker fires.
CallSync(p) ==
  /\ ready
  /\ pc[p] = IF p = Loop THEN "select" ELSE "idle"
  /\ Goto(p, "fetching")
  /\ UNCHANGED <<catalogue, store, lastError, got, ready, closing, fails>>

\* The server reads its flags; the answer travels, and is compiled.
Answer(p) ==
  /\ pc[p] = "fetching"
  /\ got' = [got EXCEPT ![p] = catalogue]
  /\ Goto(p, "answered")
  /\ UNCHANGED <<catalogue, store, lastError, ready, closing, fails>>

\* The request fails, or its answer is an error, or its time is up.
FetchFails(p) ==
  /\ pc[p] = "fetching" /\ fails < MaxFails
  /\ fails' = fails + 1
  /\ Goto(p, "failed")
  /\ UNCHANGED <<catalogue, store, lastError, got, ready, closing>>

\* c.store.Swap
SwapStore(p) ==
  /\ pc[p] = "answered"
  /\ store' = got[p]
  /\ Goto(p, "swapped")
  /\ UNCHANGED <<catalogue, lastError, got, ready, closing, fails>>

\* Mutant: the loop does not go back to its select.
AfterSyncOnce(p) ==
  /\ ready' = TRUE
  /\ pc' = [pc EXCEPT ![p] = "idle", ![Loop] = IF ready THEN @ ELSE "select"]

\* Where a goroutine is once its Sync has returned; New starts the loop.
AfterSync(p) ==
  /\ ready' = TRUE
  /\ pc' = [pc EXCEPT ![p] = IF p = Loop THEN "select" ELSE "idle",
                      ![Loop] = IF ready /\ p # Loop THEN @ ELSE "select"]

\* The mutex protects the record of the success, and nothing else.
Succeed(p) ==
  /\ pc[p] = "swapped"
  /\ lastError' = FALSE
  /\ got' = [got EXCEPT ![p] = 0]
  /\ AfterSync(p)
  /\ UNCHANGED <<catalogue, store, closing, fails>>

\* Mutant: New ignores the error of its first Sync.
RecordErrorIgnored(p) ==
  /\ pc[p] = "failed"
  /\ lastError' = TRUE
  /\ AfterSync(p)
  /\ UNCHANGED <<catalogue, store, got, closing, fails>>

\* Mutant: the loop returns when its Sync fails.
RecordErrorEndsLoop(p) ==
  /\ pc[p] = "failed"
  /\ lastError' = TRUE
  /\ \/ p = Loop /\ Goto(p, "ended") /\ UNCHANGED ready
     \/ p # Loop /\ ready /\ AfterSync(p)
     \/ p # Loop /\ ~ready /\ Goto(p, "refused") /\ UNCHANGED ready
  /\ UNCHANGED <<catalogue, store, got, closing, fails>>

\* setLastError: the store stays.  New returns no client, and no loop runs.
RecordError(p) ==
  /\ pc[p] = "failed"
  /\ lastError' = TRUE
  /\ \/ ready /\ AfterSync(p) /\ UNCHANGED doneCh
     \/ ~ready /\ Goto(p, "refused") /\ doneCh' = TRUE /\ UNCHANGED ready
  /\ UNCHANGED <<catalogue, store, got, closeCh, returned, fails>>

-----------------------------------------------------------------------------
(* Close                                                                   *)

\* closeOnce closes closeCh at the first call; the others wait for that one.
Close(a) ==
  /\ ready /\ pc[a] = "idle"
  /\ closeCh' = TRUE
  /\ Goto(a, "closing")
  /\ UNCHANGED <<catalogue, store, lastError, got, ready, doneCh, returned, fails>>

\* Mutant: the loop returns without closing doneCh.
LoopEndsSilently ==
  /\ pc[Loop] = "select" /\ closeCh
  /\ Goto(Loop, "ended")
  /\ UNCHANGED <<catalogue, store, lastError, got, ready, closing, fails>>

\* case <-c.closeCh, and the deferred close of doneCh.
LoopEnds ==
  /\ pc[Loop] = "select" /\ closeCh
  /\ Goto(Loop, "ended")
  /\ doneCh' = TRUE
  /\ UNCHANGED <<catalogue, store, lastError, got, ready, closeCh, returned, fails>>

\* Mutant: Close does not wait for the loop.
CloseReturnEarly(a) ==
  /\ pc[a] = "closing"
  /\ returned' = TRUE
  /\ Goto(a, "idle")
  /\ UNCHANGED <<catalogue, store, lastError, got, ready, closeCh, doneCh, fails>>

\* <-c.doneCh
CloseReturn(a) ==
  /\ pc[a] = "closing" /\ doneCh
  /\ returned' = TRUE
  /\ Goto(a, "idle")
  /\ UNCHANGED <<catalogue, store, lastError, got, ready, closeCh, doneCh, fails>>

-----------------------------------------------------------------------------
SyncStep(p) == \/ Answer(p) \/ FetchFails(p) \/ SwapStore(p)
               \/ Succeed(p) \/ RecordError(p)

\* New returned an error: there is no client to use.
Refused == pc[Main] = "refused" /\ UNCHANGED vars

Next ==
  \/ Change \/ LoopEnds \/ Refused
  \/ \E p \in Procs : CallSync(p) \/ SyncStep(p)
  \/ \E a \in Apps : Close(a) \/ CloseReturn(a)

\* Requests end (the default HTTP client has a timeout), the ticker ticks, and
\* the loop's select takes each of its cases if it is ready again and again.
\* Applications need not call anything, nor flags change.
Fairness ==
  /\ \A p \in Procs : WF_vars(SyncStep(p))
  /\ WF_vars(CallSync(Loop))
  /\ SF_vars(LoopEnds)
  /\ \A a \in Apps : WF_vars(CloseReturn(a))

Spec == Init /\ [][Next]_vars /\ Fairness

-----------------------------------------------------------------------------
(* Properties                                                              *)

\* Every variable has its type.
TypeOK ==
  /\ catalogue \in Nat /\ store \in Nat /\ fails \in Nat
  /\ got \in [Procs -> Nat]
  /\ \A a \in Apps : pc[a] \in AppLabels
  /\ pc[Loop] \in LoopLabels
  /\ <<lastError, ready, closeCh, doneCh, returned>>
       \in BOOLEAN \X BOOLEAN \X BOOLEAN \X BOOLEAN \X BOOLEAN

\* An application that has a client never evaluates on the empty store: New
\* returns one only after a Sync that filled it, and no failure empties it.
FilledBeforeUse == ready => store > 0

\* Once a Close has returned, runSyncLoop has ended: it makes no request and no
\* swap behind the application's back, whatever it was doing at the call.
BackgroundQuiet == returned => pc[Loop] = "ended"

\* Close returns, even when it meets the loop in the middle of a request.
CloseReturns == \A a \in Apps : (pc[a] = "closing") ~> (pc[a] # "closing")

\* When the server's flags have stopped changing, the local store comes to
\* hold them for good and the last error is cleared, however Syncs overlapped or
\* failed before, unless New failed or the client was closed.
EventuallyFresh ==
  <>[](store = catalogue /\ ~lastError) \/ <>closeCh \/ <>(pc[Main] = "refused")

\* Documented: the local store is out of date until the next successful sync.
\* A Sync that succeeds leaves what it fetched, or something later.
SyncIsFresh == \A a \in Apps : pc[a] = "swapped" => store >= got[a]
=============================================================================
