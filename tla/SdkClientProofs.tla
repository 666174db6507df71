--------------------------- MODULE SdkClientProofs ---------------------------
(***************************************************************************)
(* Proofs about SdkClient for any number of application goroutines, and    *)
(* without the bounds on changes and failures.                             *)
(***************************************************************************)
EXTENDS SdkClient, TLAPS

USE ClientAssumption

-----------------------------------------------------------------------------
(* The inductive invariant                                                 *)

\* While New is under way nobody but its goroutine does anything; a New that
\* failed leaves no loop.
Starting ==
  ~ready => /\ \A a \in Apps \ {Main} : pc[a] = "idle"
            /\ pc[Main] \in InSync \cup {"refused"}
            /\ pc[Loop] = "off"
            /\ ~closeCh /\ ~returned
            /\ doneCh => pc[Main] = "refused"

\* Afterwards doneCh is closed by the loop's end, and a Close returns after it.
Running ==
  ready => /\ store > 0
           /\ pc[Loop] # "off"
           /\ doneCh <=> pc[Loop] = "ended"
           /\ returned => doneCh

\* What a Sync carries from the answer to the swap is not the empty store.
Carried ==
  /\ catalogue > 0
  /\ \A p \in Procs : /\ pc[p] = "answered" => got[p] > 0
                      /\ pc[p] = "swapped" => store > 0

IInv == /\ TypeOK /\ pc \in [Procs -> AppLabels \cup LoopLabels]
        /\ Starting /\ Running /\ Carried

\* The initial state satisfies the invariant.
LEMMA InitIInv == Init => IInv
<1> SUFFICES ASSUME Init PROVE IInv
  OBVIOUS
<1>1. pc \in [Procs -> AppLabels \cup LoopLabels]
  BY DEF Init, InSync, AppLabels, LoopLabels
<1>2. /\ pc[Main] = "fetching" /\ pc[Loop] = "off"
      /\ \A a \in Apps \ {Main} : pc[a] = "idle"
  BY DEF Init, Procs
<1>3. TypeOK
  BY <1>2 DEF Init, TypeOK, InSync, AppLabels, LoopLabels
<1>4. Starting /\ Running
  BY <1>2 DEF Init, Starting, Running, InSync
<1>5. \A p \in Procs : pc[p] \in {"fetching", "off", "idle"}
  BY DEF Init
<1>6. Carried
  BY <1>5 DEF Init, Carried
<1> QED
  BY <1>1, <1>3, <1>4, <1>6 DEF IInv

\* Every step keeps the types.
LEMMA NextType ==
  IInv /\ [Next]_vars => TypeOK' /\ pc' \in [Procs -> AppLabels \cup LoopLabels]
<1> DEFINE Goal == TypeOK' /\ pc' \in [Procs -> AppLabels \cup LoopLabels]
<1> SUFFICES ASSUME IInv, [Next]_vars PROVE Goal
  OBVIOUS
<1> USE DEF IInv, TypeOK, Procs, InSync, AppLabels, LoopLabels, Goto, closing
<1>1. CASE Change
  BY <1>1 DEF Change
<1>2. CASE LoopEnds
  BY <1>2 DEF LoopEnds
<1>3. ASSUME NEW p \in Procs, CallSync(p) PROVE Goal
  BY <1>3 DEF CallSync
<1>4. ASSUME NEW p \in Procs, Answer(p) PROVE Goal
  BY <1>4 DEF Answer
<1>5. ASSUME NEW p \in Procs, FetchFails(p) PROVE Goal
  BY <1>5 DEF FetchFails
<1>6. ASSUME NEW p \in Procs, SwapStore(p) PROVE Goal
  BY <1>6 DEF SwapStore
<1>7. ASSUME NEW p \in Procs, AfterSync(p)
      PROVE  /\ ready' \in BOOLEAN /\ pc' \in [Procs -> AppLabels \cup LoopLabels]
             /\ \A a \in Apps : pc'[a] \in AppLabels
             /\ pc'[Loop] \in LoopLabels
  BY <1>7 DEF AfterSync
<1>8. ASSUME NEW p \in Procs, Succeed(p) PROVE Goal
  BY <1>7, <1>8 DEF Succeed
<1>9. ASSUME NEW p \in Procs, RecordError(p) PROVE Goal
  <2>1. CASE ready /\ AfterSync(p)
    BY <1>7, <1>9, <2>1 DEF RecordError
  <2>2. CASE ~ready /\ Goto(p, "refused") /\ doneCh' = TRUE /\ UNCHANGED ready
    <3>1. p # Loop
      BY <1>9, <2>2 DEF RecordError, Starting
    <3> QED
      BY <1>9, <2>2, <3>1 DEF RecordError
  <2> QED
    BY <1>9, <2>1, <2>2 DEF RecordError
<1>10. ASSUME NEW a \in Apps, Close(a) \/ CloseReturn(a) PROVE Goal
  BY <1>10 DEF Close, CloseReturn
<1>11. CASE UNCHANGED vars
  BY <1>11 DEF vars
<1> QED
  BY <1>1, <1>2, <1>3, <1>4, <1>5, <1>6, <1>8, <1>9, <1>10, <1>11
     DEF Next, SyncStep, Refused

\* Every step keeps what the phases of the client's life rely on.
LEMMA NextPhases == IInv /\ [Next]_vars => Starting' /\ Running' /\ Carried'
<1> DEFINE Goal == Starting' /\ Running' /\ Carried'
<1> SUFFICES ASSUME IInv, [Next]_vars PROVE Goal
  OBVIOUS
<1> USE DEF IInv, TypeOK, Procs, InSync, Goto, closing, Starting, Running, Carried
<1>1. CASE Change
  BY <1>1 DEF Change
<1>2. CASE LoopEnds
  BY <1>2 DEF LoopEnds
<1>3. ASSUME NEW p \in Procs, CallSync(p) PROVE Goal
  BY <1>3 DEF CallSync
<1>4. ASSUME NEW p \in Procs, Answer(p) PROVE Goal
  BY <1>4 DEF Answer
<1>5. ASSUME NEW p \in Procs, FetchFails(p) PROVE Goal
  BY <1>5 DEF FetchFails
<1>6. ASSUME NEW p \in Procs, SwapStore(p) PROVE Goal
  BY <1>6 DEF SwapStore
<1>7. ASSUME NEW p \in Procs, pc[p] \in {"swapped", "failed"}, AfterSync(p),
             UNCHANGED <<catalogue, store, closing>>, store > 0,
             \A q \in Procs \ {p} : got'[q] = got[q]
      PROVE  Goal
  <2>1. ready'
    BY <1>7 DEF AfterSync
  <2>2. ASSUME NEW q \in Procs, pc'[q] \in {"answered", "swapped"}
        PROVE  pc'[q] = pc[q] /\ q # p
    BY <1>7, <2>2 DEF AfterSync
  <2>3. Carried'
    BY <1>7, <2>2
  <2>4. /\ pc'[Loop] # "off"
        /\ doneCh' <=> pc'[Loop] = "ended"
    BY <1>7 DEF AfterSync
  <2> QED
    BY <1>7, <2>1, <2>3, <2>4
<1>8. ASSUME NEW p \in Procs, Succeed(p) PROVE Goal
  BY <1>7, <1>8 DEF Succeed
<1>9. ASSUME NEW p \in Procs, RecordError(p) PROVE Goal
  <2>1. CASE ready /\ AfterSync(p) /\ UNCHANGED doneCh
    BY <1>7, <1>9, <2>1 DEF RecordError
  <2>2. CASE ~ready /\ Goto(p, "refused") /\ doneCh' = TRUE /\ UNCHANGED ready
    <3>1. p = Main
      BY <1>9, <2>2 DEF RecordError
    <3> QED
      BY <1>9, <2>2, <3>1 DEF RecordError
  <2> QED
    BY <1>9, <2>1, <2>2 DEF RecordError
<1>10. ASSUME NEW a \in Apps, Close(a) PROVE Goal
  BY <1>10 DEF Close
<1>11. ASSUME NEW a \in Apps, CloseReturn(a) PROVE Goal
  BY <1>11 DEF CloseReturn
<1>12. CASE UNCHANGED vars
  BY <1>12 DEF vars
<1> QED
  BY <1>1, <1>2, <1>3, <1>4, <1>5, <1>6, <1>8, <1>9, <1>10, <1>11, <1>12
     DEF Next, SyncStep, Refused

\* The inductive invariant holds throughout.
THEOREM Invariance == Spec => []IInv
<1>1. IInv /\ [Next]_vars => IInv'
  BY NextType, NextPhases DEF IInv
<1> QED
  BY <1>1, InitIInv, PTL DEF Spec

-----------------------------------------------------------------------------
(* The theorems                                                            *)

\* The variables of the client keep their types.
THEOREM TypeCorrect == Spec => []TypeOK
<1>1. IInv => TypeOK
  BY DEF IInv
<1> QED
  BY <1>1, Invariance, PTL

\* A client that New returned never evaluates on the empty store.
THEOREM FilledFirst == Spec => []FilledBeforeUse
<1>1. IInv => FilledBeforeUse
  BY DEF IInv, Running, FilledBeforeUse
<1> QED
  BY <1>1, Invariance, PTL

\* After a Close has returned the loop is over, whoever closed and whenever.
THEOREM QuietAfterClose == Spec => []BackgroundQuiet
<1>1. IInv => BackgroundQuiet
  BY DEF IInv, Starting, Running, BackgroundQuiet
<1> QED
  BY <1>1, Invariance, PTL

-----------------------------------------------------------------------------
(* Syncs one after the other.  A Sync that succeeds may leave older flags  *)
(* than it fetched, because another one swaps between; that is the only    *)
(* reason.                                                                 *)

\* What one Sync was answered is swapped and recorded before another one's answer
\* is formed.
Carrying == {"answered", "swapped"}
OneAtATime ==
  \A p, q \in Procs : pc[p] \in Carrying /\ pc[q] \in Carrying => p = q

\* What is carried is newer than the store until it is swapped, and the store's
\* own afterwards.
InTurn ==
  /\ store <= catalogue
  /\ \A p \in Procs : /\ pc[p] = "answered" => store <= got[p] /\ got[p] <= catalogue
                      /\ pc[p] = "swapped" => store = got[p]

\* A step keeps that, and moves the store forward, if no other Sync carries.
LEMMA NextInTurn ==
  ASSUME IInv, OneAtATime, InTurn, [Next]_vars
  PROVE  InTurn' /\ store <= store'
<1> DEFINE Goal == InTurn' /\ store <= store'
<1> USE DEF IInv, TypeOK, Procs, Goto, InTurn, Carrying
<1>1. ASSUME UNCHANGED store, catalogue <= catalogue', catalogue' \in Nat,
             \A q \in Procs : pc'[q] \in Carrying => pc'[q] = pc[q] /\ got'[q] = got[q]
      PROVE  Goal
  BY <1>1
<1>2. CASE Change \/ LoopEnds
  BY <1>2 DEF Change, LoopEnds
<1>3. ASSUME NEW p \in Procs, CallSync(p) \/ FetchFails(p) PROVE Goal
  BY <1>3 DEF CallSync, FetchFails
<1>4. ASSUME NEW p \in Procs, Answer(p) PROVE Goal
  BY <1>4 DEF Answer
<1>5. ASSUME NEW p \in Procs, SwapStore(p) PROVE Goal
  <2>1. /\ pc[p] = "answered" /\ store' = got[p] /\ UNCHANGED <<catalogue, got>>
        /\ pc' = [pc EXCEPT ![p] = "swapped"]
    BY <1>5 DEF SwapStore
  <2>2. \A q \in Procs \ {p} : pc'[q] \notin Carrying
    BY <2>1 DEF OneAtATime
  <2> QED
    BY <2>1, <2>2
<1>6. ASSUME NEW p \in Procs, Succeed(p) \/ RecordError(p) PROVE Goal
  <2>1. UNCHANGED <<store, catalogue>> /\ \A q \in Procs \ {p} : got'[q] = got[q]
    BY <1>6 DEF Succeed, RecordError
  <2>2. \A q \in Procs : pc'[q] \in Carrying => q # p /\ pc'[q] = pc[q]
    BY <1>6 DEF Succeed, RecordError, AfterSync
  <2> QED
    BY <1>1, <2>1, <2>2
<1>7. ASSUME NEW a \in Apps, Close(a) \/ CloseReturn(a) PROVE Goal
  BY <1>7 DEF Close, CloseReturn
<1>8. CASE UNCHANGED vars
  BY <1>8 DEF vars
<1> QED
  BY <1>2, <1>3, <1>4, <1>5, <1>6, <1>7, <1>8 DEF Next, SyncStep, Refused

\* As long as Syncs do not overlap from the server's answer on, a Sync that
\* succeeds leaves what it fetched and the local store never goes back, whatever
\* fails and whenever flags change (client.go's Sync, which holds no lock).
THEOREM FreshInTurn ==
  Spec /\ []OneAtATime => []SyncIsFresh /\ [][store <= store']_vars
<1>1. Init => InTurn
  <2> SUFFICES ASSUME Init PROVE InTurn
    OBVIOUS
  <2>1. \A p \in Procs : pc[p] \in {"fetching", "off", "idle"}
    BY DEF Init
  <2> QED
    BY <2>1 DEF Init, InTurn
<1>2. IInv /\ OneAtATime /\ InTurn /\ [Next]_vars => InTurn' /\ [store <= store']_vars
  BY NextInTurn
<1>3. IInv /\ InTurn => SyncIsFresh
  BY DEF IInv, TypeOK, Procs, InTurn, SyncIsFresh
<1> QED
  BY <1>1, <1>2, <1>3, Invariance, PTL DEF Spec
=============================================================================
