----------------------- MODULE MetricsCollectorProofs -----------------------
(***************************************************************************)
(* Proofs about MetricsCollector for any number of evaluations, goroutines *)
(* that sync, buckets and quantiles.                                       *)
(***************************************************************************)
EXTENDS MetricsCollector, FiniteSetTheorems, SequenceTheorems, TLAPS

\* What the proofs need of the goroutines.
LEMMA Goroutines == /\ IsFiniteSet(Evaluators)
                    /\ Evaluators \cap Syncers = {} /\ Nobody \notin Syncers
BY MetricsAssumption

USE Goroutines

-----------------------------------------------------------------------------
(* The counters and their types                                            *)

Counters == {"evaluations", "unknown", "latency", "successes", "failures"}
Places == {"idle", "evaluated", "counted", "generation", "version", "latency",
           "bucket", "loading", "built", "numbered", "swapped"}

\* As much of the types as the generations and the snapshots need.
BaseOK ==
  /\ generation \in Nat /\ current \in Nat
  /\ mutex \in Syncers \cup {Nobody}
  /\ pc \in [Evaluators \cup Syncers -> Places]
  /\ held \in [Evaluators \cup Syncers -> Nat]
  /\ next \in [Syncers -> Nat]
  /\ counts \in [Counters -> Nat]

\* Adding to one counter leaves the others.
LEMMA CountOne ==
  ASSUME NEW c \in Counters, counts \in [Counters -> Nat], Count(c)
  PROVE  /\ counts' \in [Counters -> Nat]
         /\ counts'[c] = counts[c] + 1
         /\ \A d \in Counters \ {c} : counts'[d] = counts[d]
BY DEF Count

\* The initial state is well typed.
LEMMA InitBase == Init => BaseOK
BY DEF Init, InitWith, BaseOK, Places, Counters

\* Every step keeps the types.
LEMMA NextBase == BaseOK /\ [Next]_vars => BaseOK'
<1> SUFFICES ASSUME BaseOK, [Next]_vars PROVE BaseOK'
  OBVIOUS
<1> USE DEF BaseOK, Places, Goto, Hold, holderVars, collectorVars, scrapeVars
<1>1. ASSUME NEW e \in Evaluators, EvaluatorStep(e) PROVE BaseOK'
  <2>1. counts' \in [Counters -> Nat]
    BY <1>1, CountOne DEF EvaluatorStep, Evaluate, CountEvaluation, CountUnknown,
                          ReportStore, CountLatency, CountBucket, Counters
  <2>2. UNCHANGED <<generation, current, mutex, next>>
    BY <1>1 DEF EvaluatorStep, Evaluate, CountEvaluation, CountUnknown,
                ReportStore, CountLatency, CountBucket
  <2>3. \E label \in Places : Goto(e, label)
    BY <1>1 DEF EvaluatorStep, Evaluate, CountEvaluation, CountUnknown,
                ReportStore, CountLatency, CountBucket
  <2>4. pc' \in [Evaluators \cup Syncers -> Places]
    BY <2>3
  <2>5. UNCHANGED held \/ \E store \in Nat : Hold(e, store)
    BY <1>1 DEF EvaluatorStep, Evaluate, CountEvaluation, CountUnknown,
                ReportStore, CountLatency, CountBucket
  <2>6. held' \in [Evaluators \cup Syncers -> Nat]
    BY <2>5
  <2> QED
    BY <2>1, <2>2, <2>4, <2>6
<1>2. ASSUME NEW s \in Syncers, SyncerStep(s) PROVE BaseOK'
  <2>1. counts' \in [Counters -> Nat]
    BY <1>2, CountOne
       DEF SyncerStep, SyncLock, SyncFails, Build, TakeGeneration, Install,
           ObserveSync, ReportGeneration, ReportVersion, Counters
  <2>2. \E label \in Places : Goto(s, label)
    BY <1>2 DEF SyncerStep, SyncLock, SyncFails, Build, TakeGeneration, Install,
                ObserveSync, ReportGeneration, ReportVersion, Unlock
  <2>3. pc' \in [Evaluators \cup Syncers -> Places]
    BY <2>2
  <2>4. held[s] \in Nat
    OBVIOUS
  <2>5. UNCHANGED held \/ \E store \in Nat : Hold(s, store)
    BY <1>2 DEF SyncerStep, SyncLock, SyncFails, Build, TakeGeneration, Install,
                ObserveSync, ReportGeneration, ReportVersion, Unlock
  <2>6. held' \in [Evaluators \cup Syncers -> Nat]
    BY <2>5
  <2>7. generation' \in Nat /\ current' \in Nat /\ mutex' \in Syncers \cup {Nobody}
    BY <1>2, <2>4
       DEF SyncerStep, SyncLock, SyncFails, Build, TakeGeneration, Install,
           ObserveSync, ReportGeneration, ReportVersion, Unlock
  <2>8. UNCHANGED next \/ \E n \in Nat : next' = [next EXCEPT ![s] = n]
    BY <1>2 DEF SyncerStep, SyncLock, SyncFails, Build, TakeGeneration, Install,
                ObserveSync, ReportGeneration, ReportVersion, Unlock
  <2>9. next' \in [Syncers -> Nat]
    BY <2>8
  <2> QED
    BY <2>1, <2>3, <2>6, <2>7, <2>9
<1>3. CASE ScrapeStep
  BY <1>3 DEF ScrapeStep, LoadCounts, QuantileBegins, QuantileBucket,
              QuantileAnswers, SnapshotReturns
<1>4. CASE UNCHANGED vars
  BY <1>4 DEF vars
<1> QED
  BY <1>1, <1>2, <1>3, <1>4 DEF Next

-----------------------------------------------------------------------------
(* Generations                                                             *)

\* Where a Sync stands, and what it has added to the holder's counter, to the
\* current store and to the successes so far.
Settled == current = generation /\ current = counts["successes"]

SyncAt(s) ==
  /\ pc[s] \in {"idle", "loading", "built", "numbered", "swapped", "generation",
                "version"}
  /\ pc[s] # "idle" <=> mutex = s
  /\ pc[s] = "loading" => Settled
  /\ pc[s] = "built" => Settled /\ next[s] = current + 1
  /\ pc[s] = "numbered" => /\ generation = current + 1
                           /\ current = counts["successes"]
                           /\ held[s] = generation /\ next[s] = generation
  /\ pc[s] = "swapped" => /\ current = generation
                          /\ current = counts["successes"] + 1
                          /\ held[s] = current /\ next[s] = current
  /\ pc[s] \in {"generation", "version"} =>
       Settled /\ held[s] = current /\ next[s] = current

GenerationInv ==
  /\ mutex = Nobody => Settled
  /\ \A s \in Syncers : SyncAt(s)

\* Only the goroutine that holds the mutex touches any of it.
LEMMA NextGeneration ==
  BaseOK /\ GenerationInv /\ [Next]_vars => GenerationInv'
<1> SUFFICES ASSUME BaseOK, GenerationInv, [Next]_vars PROVE GenerationInv'
  OBVIOUS
<1> USE DEF BaseOK, holderVars, collectorVars, scrapeVars
<1>1. ASSUME UNCHANGED <<generation, current, mutex, next>>,
             counts'["successes"] = counts["successes"],
             \A s \in Syncers : pc'[s] = pc[s] /\ held'[s] = held[s]
      PROVE  GenerationInv'
  BY <1>1 DEF GenerationInv, SyncAt, Settled
<1>2. ASSUME NEW e \in Evaluators, EvaluatorStep(e) PROVE GenerationInv'
  <2>1. counts'["successes"] = counts["successes"]
    BY <1>2, CountOne DEF EvaluatorStep, Evaluate, CountEvaluation, CountUnknown,
                          ReportStore, CountLatency, CountBucket, Counters
  <2>2. UNCHANGED <<generation, current, mutex, next>>
    BY <1>2 DEF EvaluatorStep, Evaluate, CountEvaluation, CountUnknown,
                ReportStore, CountLatency, CountBucket
  <2>3. \A s \in Syncers : pc'[s] = pc[s] /\ held'[s] = held[s]
    BY <1>2 DEF EvaluatorStep, Evaluate, CountEvaluation, CountUnknown,
                ReportStore, CountLatency, CountBucket, Goto, Hold
  <2> QED
    BY <1>1, <2>1, <2>2, <2>3
<1>3. ASSUME NEW s \in Syncers, SyncerStep(s) PROVE GenerationInv'
  <2>1. \A r \in Syncers \ {s} : pc'[r] = pc[r] /\ held'[r] = held[r] /\ next'[r] = next[r]
    BY <1>3 DEF SyncerStep, SyncLock, SyncFails, Build, TakeGeneration, Install,
                ObserveSync, ReportGeneration, ReportVersion, Unlock, Goto, Hold
  <2>2. mutex \in {Nobody, s} /\ mutex' \in {Nobody, s}
    BY <1>3 DEF SyncerStep, SyncLock, SyncFails, Build, TakeGeneration, Install,
                ObserveSync, ReportGeneration, ReportVersion, Unlock,
                GenerationInv, SyncAt
  <2>3. \A r \in Syncers \ {s} : SyncAt(r)'
    BY <2>1, <2>2 DEF GenerationInv, SyncAt
  <2>4. ASSUME SyncAt(s)', mutex' = Nobody => Settled' PROVE GenerationInv'
    BY <2>3, <2>4 DEF GenerationInv
  <2>5. SyncAt(s) /\ (mutex = Nobody => Settled)
    BY DEF GenerationInv
  <2> USE DEF Goto, Hold, SyncAt, Settled
  <2>6. CASE SyncLock(s)
    BY <2>4, <2>5, <2>6 DEF SyncLock
  <2>7. CASE SyncFails(s)
    <3>1. counts'["successes"] = counts["successes"]
      BY <2>7, CountOne DEF SyncFails, Counters
    <3> QED
      BY <2>4, <2>5, <2>7, <3>1 DEF SyncFails, Unlock
  <2>8. CASE Build(s)
    BY <2>4, <2>5, <2>8 DEF Build
  <2>9. CASE TakeGeneration(s)
    BY <2>4, <2>5, <2>9 DEF TakeGeneration
  <2>10. CASE Install(s)
    BY <2>4, <2>5, <2>10 DEF Install
  <2>11. CASE ObserveSync(s)
    <3>1. counts'["successes"] = counts["successes"] + 1
      BY <2>11, CountOne DEF ObserveSync, Counters
    <3> QED
      BY <2>4, <2>5, <2>11, <3>1 DEF ObserveSync
  <2>12. CASE ReportGeneration(s)
    BY <2>4, <2>5, <2>12 DEF ReportGeneration
  <2>13. CASE ReportVersion(s)
    BY <2>4, <2>5, <2>13 DEF ReportVersion, Unlock
  <2> QED
    BY <1>3, <2>6, <2>7, <2>8, <2>9, <2>10, <2>11, <2>12, <2>13 DEF SyncerStep
<1>4. CASE ScrapeStep
  BY <1>1, <1>4 DEF ScrapeStep, LoadCounts, QuantileBegins, QuantileBucket,
                    QuantileAnswers, SnapshotReturns
<1>5. CASE UNCHANGED vars
  BY <1>1, <1>5 DEF vars
<1> QED
  BY <1>2, <1>3, <1>4, <1>5 DEF Next

-----------------------------------------------------------------------------
(* Snapshots                                                               *)

\* The evaluations that are counted but whose latency is not.
HalfMade == {e \in Evaluators :
               pc[e] \in {"counted", "generation", "version", "latency"}}

CountInv ==
  counts["latency"] + Cardinality(HalfMade) = counts["evaluations"]

SnapshotInv ==
  /\ scrape = "evaluations" => snap.latency <= counts["latency"]
  /\ SnapshotConsistent
  /\ DOMAIN snap = DOMAIN NoSnap
  /\ snap.latency \in Nat /\ snap.evaluations \in Nat

\* The evaluations that are half made can be counted.
LEMMA HalfMadeFinite == IsFiniteSet(HalfMade) /\ Cardinality(HalfMade) \in Nat
BY FS_Subset, FS_CardinalityType DEF HalfMade

\* An observation is half made from its first Add to that of its latency.
LEMMA NextCount == BaseOK /\ CountInv /\ [Next]_vars =>
                     CountInv' /\ counts["latency"] <= counts'["latency"]
<1> SUFFICES ASSUME BaseOK, CountInv, [Next]_vars
             PROVE  CountInv' /\ counts["latency"] <= counts'["latency"]
  OBVIOUS
<1> USE DEF BaseOK, holderVars, collectorVars, scrapeVars
<1>0. counts["latency"] \in Nat /\ counts["evaluations"] \in Nat
  BY DEF Counters
<1>1. ASSUME HalfMade' = HalfMade, counts'["latency"] = counts["latency"],
             counts'["evaluations"] = counts["evaluations"]
      PROVE  CountInv' /\ counts["latency"] <= counts'["latency"]
  BY <1>0, <1>1 DEF CountInv
<1>2. ASSUME NEW e \in Evaluators, EvaluatorStep(e)
      PROVE  CountInv' /\ counts["latency"] <= counts'["latency"]
  <2>1. CASE CountEvaluation(e)
    <3>1. HalfMade' = HalfMade \cup {e} /\ e \notin HalfMade
      BY <2>1 DEF CountEvaluation, Goto, HalfMade
    <3>2. Cardinality(HalfMade') = Cardinality(HalfMade) + 1
      BY <3>1, HalfMadeFinite, FS_AddElement
    <3>3. /\ counts'["evaluations"] = counts["evaluations"] + 1
          /\ counts'["latency"] = counts["latency"]
      BY <2>1, CountOne DEF CountEvaluation, Counters
    <3>4. Cardinality(HalfMade) \in Nat
      BY HalfMadeFinite
    <3>5. counts["latency"] + Cardinality(HalfMade) = counts["evaluations"]
      BY DEF CountInv
    <3> HIDE DEF BaseOK
    <3>6. counts'["latency"] + Cardinality(HalfMade') = counts'["evaluations"]
      BY <1>0, <3>2, <3>3, <3>4, <3>5
    <3> QED
      BY <1>0, <3>3, <3>6 DEF CountInv
  <2>2. CASE CountLatency(e)
    <3>1. HalfMade' = HalfMade \ {e} /\ e \in HalfMade
      BY <2>2 DEF CountLatency, Goto, HalfMade
    <3>2. Cardinality(HalfMade') = Cardinality(HalfMade) - 1
      BY <3>1, HalfMadeFinite, FS_RemoveElement
    <3>3. /\ counts'["evaluations"] = counts["evaluations"]
          /\ counts'["latency"] = counts["latency"] + 1
      BY <2>2, CountOne DEF CountLatency, Counters
    <3>4. Cardinality(HalfMade) \in Nat
      BY HalfMadeFinite
    <3>5. counts["latency"] + Cardinality(HalfMade) = counts["evaluations"]
      BY DEF CountInv
    <3> HIDE DEF BaseOK
    <3>6. counts'["latency"] + Cardinality(HalfMade') = counts'["evaluations"]
      BY <1>0, <3>2, <3>3, <3>4, <3>5
    <3> QED
      BY <1>0, <3>3, <3>6 DEF CountInv
  <2>3. CASE Evaluate(e) \/ CountUnknown(e) \/ ReportStore(e) \/ CountBucket(e)
    <3>1. HalfMade' = HalfMade
      BY <2>3 DEF Evaluate, CountUnknown, ReportStore, CountBucket, Goto, HalfMade
    <3>2. /\ counts'["evaluations"] = counts["evaluations"]
          /\ counts'["latency"] = counts["latency"]
      BY <2>3, CountOne
         DEF Evaluate, CountUnknown, ReportStore, CountBucket, Counters
    <3> QED
      BY <1>1, <3>1, <3>2
  <2> QED
    BY <1>2, <2>1, <2>2, <2>3 DEF EvaluatorStep
<1>3. ASSUME NEW s \in Syncers, SyncerStep(s)
      PROVE  CountInv' /\ counts["latency"] <= counts'["latency"]
  <2>1. \A e \in Evaluators : pc'[e] = pc[e]
    BY <1>3 DEF SyncerStep, SyncLock, SyncFails, Build, TakeGeneration, Install,
                ObserveSync, ReportGeneration, ReportVersion, Unlock, Goto
  <2>2. /\ counts'["evaluations"] = counts["evaluations"]
        /\ counts'["latency"] = counts["latency"]
    BY <1>3, CountOne
       DEF SyncerStep, SyncLock, SyncFails, Build, TakeGeneration, Install,
           ObserveSync, ReportGeneration, ReportVersion, Counters
  <2> QED
    BY <1>1, <2>1, <2>2 DEF HalfMade
<1>4. CASE ScrapeStep
  BY <1>1, <1>4 DEF ScrapeStep, LoadCounts, QuantileBegins, QuantileBucket,
                    QuantileAnswers, SnapshotReturns, HalfMade
<1>5. CASE UNCHANGED vars
  BY <1>1, <1>5 DEF vars, HalfMade
<1> QED
  BY <1>2, <1>3, <1>4, <1>5 DEF Next

\* What Snapshot loads first only grows, and is bounded by what it loads next.
LEMMA NextSnapshot ==
  BaseOK /\ CountInv /\ SnapshotInv /\ [Next]_vars => SnapshotInv'
<1> SUFFICES ASSUME BaseOK, CountInv, SnapshotInv, [Next]_vars PROVE SnapshotInv'
  OBVIOUS
<1>1. /\ counts["latency"] \in Nat /\ counts["evaluations"] \in Nat
      /\ counts'["latency"] \in Nat /\ counts["latency"] <= counts'["latency"]
      /\ counts["latency"] <= counts["evaluations"]
  <2>1. BaseOK'
    BY NextBase
  <2> QED
    BY <2>1, NextCount, HalfMadeFinite DEF BaseOK, Counters, CountInv
<1>2. CASE UNCHANGED <<scrape, snap>>
  BY <1>1, <1>2 DEF SnapshotInv, SnapshotConsistent
<1>3. CASE ScrapeStep
  <2> USE DEF SnapshotInv, SnapshotConsistent, NoSnap
  <2>1. CASE LoadCounts
    <3>1. CASE scrape = "idle"
      <4>1. /\ scrape' = "evaluations" /\ counts' = counts
            /\ snap' = [NoSnap EXCEPT !.latency = counts["latency"]]
        BY <2>1, <3>1 DEF LoadCounts, collectorVars
      <4>2. /\ DOMAIN snap' = DOMAIN NoSnap
            /\ snap'.latency = counts["latency"] /\ snap'.evaluations = 0
        BY <4>1
      <4> QED
        BY <1>1, <4>1, <4>2
    <3>2. CASE scrape = "evaluations"
      <4>1. /\ scrape' = "quantile" /\ counts' = counts
            /\ snap' = [snap EXCEPT !.evaluations = counts["evaluations"],
                                    !.quantile = 1]
        BY <2>1, <3>2 DEF LoadCounts, collectorVars
      <4>2. /\ DOMAIN snap' = DOMAIN NoSnap
            /\ snap'.latency = snap.latency
            /\ snap'.evaluations = counts["evaluations"]
        BY <4>1
      <4> HIDE DEF NoSnap
      <4> QED
        BY <1>1, <3>2, <4>1, <4>2
    <3> QED
      BY <2>1, <3>1, <3>2 DEF LoadCounts
  <2>2. CASE QuantileBegins \/ QuantileBucket \/ QuantileAnswers
    <3>1. snap'.latency = snap.latency /\ snap'.evaluations = snap.evaluations
      BY <2>2 DEF QuantileBegins, QuantileBucket, QuantileAnswers
    <3>2. /\ scrape \in {"quantile", "bucket", "answer"}
          /\ scrape' \in {"quantile", "bucket", "answer"}
      BY <2>2 DEF QuantileBegins, QuantileBucket, QuantileAnswers
    <3>3. DOMAIN snap' = DOMAIN snap
      BY <2>2 DEF QuantileBegins, QuantileBucket, QuantileAnswers
    <3>4. SnapshotConsistent' /\ ~(scrape' = "evaluations")
      BY <3>1, <3>2
    <3> HIDE DEF NoSnap, SnapshotConsistent
    <3> QED
      BY <3>1, <3>3, <3>4
  <2>3. CASE SnapshotReturns
    BY <2>3 DEF SnapshotReturns
  <2> QED
    BY <1>3, <2>1, <2>2, <2>3 DEF ScrapeStep
<1>4. CASE ~ScrapeStep
  <2>1. UNCHANGED scrapeVars
    BY <1>4 DEF Next, EvaluatorStep, Evaluate, CountEvaluation, CountUnknown,
       ReportStore, CountLatency, CountBucket, SyncerStep, SyncLock, SyncFails,
       Build, TakeGeneration, Install, ObserveSync, ReportGeneration,
       ReportVersion, vars, scrapeVars
  <2> QED
    BY <1>2, <2>1 DEF scrapeVars
<1> QED
  BY <1>3, <1>4

-----------------------------------------------------------------------------
(* The theorems                                                            *)

IInv == BaseOK /\ GenerationInv /\ CountInv /\ SnapshotInv

\* The inductive invariant holds throughout.
THEOREM Invariance == Spec => []IInv
<1>1. Init => IInv
  <2> SUFFICES ASSUME Init PROVE IInv
    OBVIOUS
  <2>1. BaseOK
    BY InitBase
  <2>2. GenerationInv
    BY DEF Init, InitWith, GenerationInv, SyncAt, Settled
  <2>3. HalfMade = {}
    BY DEF Init, InitWith, HalfMade
  <2>4. CountInv
    BY <2>3, FS_EmptySet DEF Init, InitWith, CountInv
  <2>5. SnapshotInv
    BY DEF Init, InitWith, SnapshotInv, SnapshotConsistent, NoSnap
  <2> QED
    BY <2>1, <2>2, <2>4, <2>5 DEF IInv
<1>2. IInv /\ [Next]_vars => IInv'
  BY NextBase, NextGeneration, NextCount, NextSnapshot DEF IInv
<1> QED
  BY <1>1, <1>2, PTL DEF Spec

\* The generation counts the successful Syncs, and a Sync installs, logs and
\* reports one and the same store, for any number of goroutines that sync.
THEOREM GenerationsCount == Spec => []GenerationCounts
<1>1. IInv => GenerationCounts
  BY DEF IInv, GenerationInv, SyncAt, Settled, GenerationCounts
<1> QED
  BY <1>1, Invariance, PTL

\* A store is replaced only by that of the next generation.
THEOREM GenerationsAdvance == Spec => GenerationAdvances
<1>1. IInv /\ [Next]_vars => [current' # current => current' = current + 1]_vars
  <2> SUFFICES ASSUME IInv, Next, current' # current PROVE current' = current + 1
    OBVIOUS
  <2>1. \E s \in Syncers : Install(s)
    BY DEF Next, EvaluatorStep, Evaluate, CountEvaluation, CountUnknown,
       ReportStore, CountLatency, CountBucket, SyncerStep, SyncLock, SyncFails,
       Build, TakeGeneration, ObserveSync, ReportGeneration, ReportVersion,
       ScrapeStep, LoadCounts, QuantileBegins, QuantileBucket, QuantileAnswers,
       SnapshotReturns, holderVars
  <2> QED
    BY <2>1 DEF Install, IInv, GenerationInv, SyncAt
<1> QED
  BY <1>1, Invariance, PTL DEF Spec, GenerationAdvances

\* No snapshot reports more latencies than evaluations, for any number of
\* evaluations at once.
THEOREM SnapshotsConsistent == Spec => []SnapshotConsistent
<1>1. IInv => SnapshotConsistent
  BY DEF IInv, SnapshotInv
<1> QED
  BY <1>1, Invariance, PTL

-----------------------------------------------------------------------------
(* Type correctness                                                        *)

SnapFields == {"latency", "evaluations", "quantile", "target", "sum", "bucket"}

\* The types of what the invariant above is not about.  Once the counts are
\* loaded the quantiles are gone through from the first one on, and within one
\* the buckets.
RestOK ==
  /\ gauges \in [{"generation", "version"} -> Nat]
  /\ buckets \in [1 .. Overflow -> Nat]
  /\ scrape \in {"idle", "evaluations", "quantile", "bucket", "answer"}
  /\ snap \in [SnapFields -> Nat]
  /\ scrape \in {"quantile", "bucket", "answer"} => snap["quantile"] >= 1
  /\ scrape = "bucket" => snap["bucket"] \in 1 .. Overflow
  /\ whole \in BOOLEAN

\* The rank that quantileString looks for is a number of observations.
LEMMA RankType ==
  ASSUME NEW n \in Nat, NEW percent \in 1 .. 100 PROVE Rank(n, percent) \in Nat
<1>1. n * percent \in Nat
  OBVIOUS
<1>2. (n * percent) \div 100 \in Nat
  BY <1>1
<1> QED
  BY <1>2 DEF Rank

\* Goroutines keep the types of the gauges and of the buckets.
LEMMA NextGauges ==
  ASSUME BaseOK, RestOK,
         \/ \E e \in Evaluators : EvaluatorStep(e)
         \/ \E s \in Syncers : SyncerStep(s)
  PROVE  RestOK'
<1> USE DEF BaseOK, RestOK
<1>1. ASSUME UNCHANGED <<scrape, snap, whole>>,
             gauges' \in [{"generation", "version"} -> Nat],
             buckets' \in [1 .. Overflow -> Nat]
      PROVE  RestOK'
  BY <1>1
<1>2. ASSUME NEW e \in Evaluators, EvaluatorStep(e) PROVE RestOK'
  <2>1. UNCHANGED <<scrape, snap, whole>>
    BY <1>2 DEF EvaluatorStep, Evaluate, CountEvaluation, CountUnknown, ReportStore,
                CountLatency, CountBucket, scrapeVars
  <2>2. gauges' \in [{"generation", "version"} -> Nat]
    BY <1>2 DEF EvaluatorStep, Evaluate, CountEvaluation, CountUnknown, ReportStore,
                CountLatency, CountBucket, SetGauge, collectorVars
  <2>3. buckets' \in [1 .. Overflow -> Nat]
    BY <1>2 DEF EvaluatorStep, Evaluate, CountEvaluation, CountUnknown, ReportStore,
                CountLatency, CountBucket, collectorVars
  <2> QED
    BY <1>1, <2>1, <2>2, <2>3
<1>3. ASSUME NEW s \in Syncers, SyncerStep(s) PROVE RestOK'
  <2>1. UNCHANGED <<scrape, snap, whole, buckets>>
    BY <1>3 DEF SyncerStep, SyncLock, SyncFails, Build, TakeGeneration, Install,
                ObserveSync, ReportGeneration, ReportVersion, collectorVars, scrapeVars
  <2>2. gauges' \in [{"generation", "version"} -> Nat]
    BY <1>3 DEF SyncerStep, SyncLock, SyncFails, Build, TakeGeneration, Install,
                ObserveSync, ReportGeneration, ReportVersion, SetGauge, collectorVars
  <2> QED
    BY <1>1, <2>1, <2>2
<1> QED
  BY <1>2, <1>3

\* A field of a snapshot is overwritten by a number.
LEMMA SnapField ==
  ASSUME NEW old \in [SnapFields -> Nat], NEW f \in SnapFields, NEW n \in Nat
  PROVE  /\ [old EXCEPT ![f] = n] \in [SnapFields -> Nat]
         /\ [old EXCEPT ![f] = n][f] = n
         /\ \A g \in SnapFields \ {f} : [old EXCEPT ![f] = n][g] = old[g]
OBVIOUS

\* What RestOK says of a snapshot.
SnapTyped ==
  /\ snap \in [SnapFields -> Nat]
  /\ scrape \in {"quantile", "bucket", "answer"} => snap["quantile"] >= 1
  /\ scrape = "bucket" => snap["bucket"] \in 1 .. Overflow

\* A snapshot keeps the types of what it has loaded.
LEMMA NextScrape == ASSUME BaseOK, RestOK, ScrapeStep PROVE RestOK'
<1>1. gauges' \in [{"generation", "version"} -> Nat] /\ buckets' \in [1 .. Overflow -> Nat]
  BY DEF RestOK, ScrapeStep, LoadCounts, QuantileBegins, QuantileBucket,
         QuantileAnswers, SnapshotReturns, collectorVars
<1>2. Overflow \in Nat /\ Overflow >= 1
  BY MetricsAssumption DEF Overflow
<1>3. NoSnap \in [SnapFields -> Nat]
  BY DEF NoSnap, SnapFields
<1>4. /\ counts["latency"] \in Nat /\ counts["evaluations"] \in Nat
      /\ \A f \in SnapFields : snap[f] \in Nat
      /\ {"latency", "evaluations", "quantile", "target", "sum", "bucket"} \subseteq SnapFields
      /\ snap \in [SnapFields -> Nat]
  BY DEF BaseOK, RestOK, Counters, SnapFields
<1>5. scrape' \in {"idle", "evaluations", "quantile", "bucket", "answer"}
  BY DEF RestOK, ScrapeStep, LoadCounts, QuantileBegins, QuantileBucket,
         QuantileAnswers, SnapshotReturns
<1>6. whole' \in BOOLEAN
  BY DEF RestOK, ScrapeStep, LoadCounts, QuantileBegins, QuantileBucket,
         QuantileAnswers, SnapshotReturns
<1>7. SnapTyped'
  <2>1. CASE LoadCounts
    <3>1. CASE scrape' = "evaluations" /\ snap' = [NoSnap EXCEPT !.latency = counts.latency]
      BY <1>3, <1>4, <3>1, SnapField DEF SnapTyped
    <3>2. CASE /\ scrape' = "quantile"
               /\ snap' = [snap EXCEPT !.evaluations = counts.evaluations, !.quantile = 1]
      <4> DEFINE loaded == [snap EXCEPT !["evaluations"] = counts["evaluations"]]
      <4>1. loaded \in [SnapFields -> Nat]
        BY <1>4, SnapField
      <4>2. snap' = [loaded EXCEPT !["quantile"] = 1]
        BY <1>4, <3>2
      <4> HIDE DEF loaded
      <4>3. snap' \in [SnapFields -> Nat] /\ snap'["quantile"] = 1
        BY <1>4, <4>1, <4>2, SnapField
      <4> QED
        BY <3>2, <4>3 DEF SnapTyped
    <3> QED
      BY <2>1, <3>1, <3>2 DEF LoadCounts
  <2>2. CASE QuantileBegins
    <3>1. scrape = "quantile" /\ snap["quantile"] \in 1 .. Len(Quantiles)
      <4>1. scrape = "quantile" /\ snap["quantile"] <= Len(Quantiles)
        BY <2>2 DEF QuantileBegins
      <4>2. snap["quantile"] \in Nat /\ snap["quantile"] >= 1
        BY <1>4, <4>1 DEF RestOK
      <4> QED
        BY <4>1, <4>2, MetricsAssumption
    <3>2. CASE snap' = [snap EXCEPT !.quantile = @ + 1] /\ UNCHANGED scrape
      <4>1. snap["quantile"] \in Nat
        BY <1>4
      <4>2. snap["quantile"] + 1 \in Nat /\ snap["quantile"] + 1 >= 1
        BY <4>1
      <4>3. snap' = [snap EXCEPT !["quantile"] = snap["quantile"] + 1]
        BY <3>2
      <4>4. snap' \in [SnapFields -> Nat] /\ snap'["quantile"] >= 1
        BY <1>4, <4>2, <4>3, SnapField
      <4> QED
        BY <3>1, <3>2, <4>4 DEF SnapTyped
    <3>3. CASE /\ snap' = [snap EXCEPT
                             !.target = Rank(counts.latency, Quantiles[snap.quantile]),
                             !.sum = 0, !.bucket = 1]
               /\ scrape' = "bucket"
      <4>1. Quantiles[snap["quantile"]] \in 1 .. 100
        BY <3>1, ElementOfSeq, MetricsAssumption
      <4> DEFINE rank == Rank(counts["latency"], Quantiles[snap["quantile"]])
                 ranked == [snap EXCEPT !["target"] = rank]
                 emptied == [ranked EXCEPT !["sum"] = 0]
      <4>2. rank \in Nat
        BY <1>4, <4>1, RankType
      <4>3. snap' = [emptied EXCEPT !["bucket"] = 1]
        BY <1>4, <3>3
      <4> HIDE DEF rank
      <4>4. ranked \in [SnapFields -> Nat] /\ ranked["quantile"] = snap["quantile"]
        BY <1>4, <4>2, SnapField
      <4> HIDE DEF ranked
      <4>5. emptied \in [SnapFields -> Nat] /\ emptied["quantile"] = snap["quantile"]
        BY <1>4, <4>4, SnapField
      <4> HIDE DEF emptied
      <4>6. /\ snap' \in [SnapFields -> Nat] /\ snap'["bucket"] = 1
            /\ snap'["quantile"] = snap["quantile"]
        BY <1>4, <4>3, <4>5, SnapField
      <4> QED
        BY <1>2, <3>1, <3>3, <4>6 DEF SnapTyped
    <3> QED
      BY <2>2, <3>2, <3>3 DEF QuantileBegins
  <2>3. CASE QuantileBucket
    <3>1. /\ scrape = "bucket" /\ snap["bucket"] \in 1 .. Overflow
          /\ snap["quantile"] >= 1
      BY <2>3 DEF QuantileBucket, RestOK
    <3>2. buckets[snap["bucket"]] \in Nat /\ snap["sum"] \in Nat
      BY <1>4, <3>1 DEF RestOK
    <3> DEFINE total == snap["sum"] + buckets[snap["bucket"]]
               added == [snap EXCEPT !["sum"] = total]
    <3>3. total \in Nat
      BY <3>2
    <3>4. \/ /\ snap["bucket"] < Overflow
             /\ snap' = [added EXCEPT !["bucket"] = snap["bucket"] + 1]
             /\ scrape' = "bucket"
          \/ snap' = added /\ scrape' = "answer"
      BY <1>4, <2>3, <3>1 DEF QuantileBucket
    <3> HIDE DEF total
    <3>5. added \in [SnapFields -> Nat] /\ added["quantile"] = snap["quantile"]
      BY <1>4, <3>3, SnapField
    <3> HIDE DEF added
    <3>6. CASE snap' = added /\ scrape' = "answer"
      BY <3>1, <3>5, <3>6 DEF SnapTyped
    <3>7. CASE /\ snap["bucket"] < Overflow
               /\ snap' = [added EXCEPT !["bucket"] = snap["bucket"] + 1]
               /\ scrape' = "bucket"
      <4>1. snap["bucket"] + 1 \in Nat /\ snap["bucket"] + 1 \in 1 .. Overflow
        BY <1>2, <3>1, <3>7
      <4>2. /\ snap' \in [SnapFields -> Nat] /\ snap'["bucket"] = snap["bucket"] + 1
            /\ snap'["quantile"] = snap["quantile"]
        BY <1>4, <3>5, <3>7, <4>1, SnapField
      <4>3. Overflow' = Overflow
        BY DEF Overflow
      <4> QED
        BY <3>1, <3>7, <4>1, <4>2, <4>3 DEF SnapTyped
    <3> QED
      BY <3>4, <3>6, <3>7
  <2>4. CASE QuantileAnswers
    <3> DEFINE moved == [snap EXCEPT !["quantile"] = snap["quantile"] + 1]
               untargeted == [moved EXCEPT !["target"] = 0]
               emptied == [untargeted EXCEPT !["sum"] = 0]
    <3>1. scrape' = "quantile" /\ snap' = [emptied EXCEPT !["bucket"] = 0]
      BY <1>4, <2>4 DEF QuantileAnswers
    <3>2. snap["quantile"] \in Nat
      BY <1>4
    <3>3. snap["quantile"] + 1 \in Nat /\ snap["quantile"] + 1 >= 1
      BY <3>2
    <3>4. moved \in [SnapFields -> Nat] /\ moved["quantile"] >= 1
      BY <1>4, <3>3, SnapField
    <3> HIDE DEF moved
    <3>5. untargeted \in [SnapFields -> Nat] /\ untargeted["quantile"] >= 1
      BY <1>4, <3>4, SnapField
    <3> HIDE DEF untargeted
    <3>6. emptied \in [SnapFields -> Nat] /\ emptied["quantile"] >= 1
      BY <1>4, <3>5, SnapField
    <3> HIDE DEF emptied
    <3>7. snap' \in [SnapFields -> Nat] /\ snap'["quantile"] >= 1
      BY <1>4, <3>1, <3>6, SnapField
    <3> QED
      BY <3>1, <3>7 DEF SnapTyped
  <2>5. CASE SnapshotReturns
    BY <1>3, <2>5 DEF SnapshotReturns, SnapTyped
  <2> QED
    BY <2>1, <2>2, <2>3, <2>4, <2>5 DEF ScrapeStep
<1> QED
  BY <1>1, <1>5, <1>6, <1>7 DEF RestOK, SnapTyped

\* The initial state is well typed.
LEMMA InitRest == Init => RestOK
<1>1. NoSnap \in [SnapFields -> Nat]
  BY DEF NoSnap, SnapFields
<1> QED
  BY <1>1 DEF Init, InitWith, RestOK

\* Every step keeps the types.
LEMMA NextRest == BaseOK /\ RestOK /\ [Next]_vars => RestOK'
<1>1. RestOK /\ UNCHANGED vars => RestOK'
  BY DEF vars, RestOK
<1> QED
  BY <1>1, NextGauges, NextScrape DEF Next

\* Every variable of the collector keeps its type, and no index leaves the
\* buckets or the quantiles.
THEOREM TypeCorrect == Spec => []TypeOK
<1>1. BaseOK /\ RestOK => TypeOK
  BY DEF BaseOK, RestOK, TypeOK, Places, Counters, SnapFields
<1> QED
  BY <1>1, InitBase, InitRest, NextBase, NextRest, PTL DEF Spec

-----------------------------------------------------------------------------
(* Quantiles                                                               *)

\* The evaluations whose latency is counted but is in no bucket yet.
Unfiled == {e \in Evaluators : pc[e] = "bucket"}

\* tail[b] is the number of observations in bucket b and in those after it.
IsTail(tail) ==
  /\ tail \in [1 .. Overflow + 1 -> Nat]
  /\ tail[Overflow + 1] = 0
  /\ \A b \in 1 .. Overflow : tail[b] = buckets[b] + tail[b + 1]

\* Unless an observation was half made when latencyCount was loaded, the buckets
\* still to be added up bring the sum to the rank.
Enough(tail) ==
  (scrape = "bucket" /\ whole) => snap["target"] <= snap["sum"] + tail[snap["bucket"]]

\* Every observation that is counted is in a bucket, or about to be.
Filed(tail) ==
  /\ IsTail(tail)
  /\ tail[1] + Cardinality(Unfiled) = counts["latency"]
  /\ Enough(tail)

QuantileInv ==
  /\ \E tail : Filed(tail)
  /\ scrape = "bucket" => snap["sum"] < snap["target"]
  /\ QuantileIsReal

\* The evaluations that are yet to be filed can be counted.
LEMMA UnfiledFinite == IsFiniteSet(Unfiled) /\ Cardinality(Unfiled) \in Nat
BY FS_Subset, FS_CardinalityType DEF Unfiled

\* There is a bucket after the bounded ones.
LEMMA OverflowType == Overflow \in Nat /\ Overflow >= 1
BY MetricsAssumption DEF Overflow

\* What the step below needs of the types.
LEMMA QuantileTypes ==
  ASSUME BaseOK, RestOK
  PROVE  /\ counts["latency"] \in Nat
         /\ buckets \in [1 .. Overflow -> Nat]
         /\ snap["sum"] \in Nat /\ snap["target"] \in Nat /\ snap["bucket"] \in Nat
         /\ scrape = "bucket" => snap["bucket"] \in 1 .. Overflow
BY DEF BaseOK, RestOK, Counters, SnapFields

\* The rank is one of the observations there are.
LEMMA RankBounds ==
  ASSUME NEW n \in Nat, n > 0, NEW percent \in 1 .. 100
  PROVE  Rank(n, percent) \in 1 .. n
<1>1. n * percent \in Nat /\ n * percent <= n * 100
  OBVIOUS
<1>2. (n * percent) \div 100 \in Nat /\ (n * percent) \div 100 <= n
  BY <1>1
<1> QED
  BY <1>2 DEF Rank

\* Nothing that a quantile depends on changes.
LEMMA QuantileKept ==
  ASSUME QuantileInv, UNCHANGED <<buckets, scrape, snap, whole>>, Unfiled' = Unfiled,
         counts'["latency"] = counts["latency"]
  PROVE  QuantileInv'
<1>1. Overflow' = Overflow
  BY DEF Overflow
<1>2. PICK tail : Filed(tail)
  BY DEF QuantileInv
<1>3. Filed(tail)'
  BY <1>1, <1>2 DEF Filed, IsTail, Enough
<1> QED
  BY <1>1, <1>3 DEF QuantileInv, QuantileIsReal

\* An observation is counted: from now on it is to be filed.
LEMMA CountLatencyQuantile ==
  ASSUME BaseOK, RestOK, QuantileInv, NEW e \in Evaluators, CountLatency(e)
  PROVE  QuantileInv'
<1>1. Overflow' = Overflow
  BY DEF Overflow
<1>2. PICK tail : Filed(tail)
  BY DEF QuantileInv
<1>3. Unfiled' = Unfiled \cup {e} /\ e \notin Unfiled
  BY DEF CountLatency, Goto, Unfiled, BaseOK
<1>4. Cardinality(Unfiled') = Cardinality(Unfiled) + 1
  BY <1>3, UnfiledFinite, FS_AddElement
<1>5. counts'["latency"] = counts["latency"] + 1
  BY CountOne DEF CountLatency, Counters, BaseOK
<1>6. UNCHANGED <<buckets, scrape, snap, whole>>
  BY DEF CountLatency, scrapeVars
<1>7. IsTail(tail)'
  BY <1>1, <1>2, <1>6 DEF Filed, IsTail
<1>8. tail[1] \in Nat /\ tail[1] + Cardinality(Unfiled) = counts["latency"]
  BY <1>2, OverflowType DEF Filed, IsTail
<1>9. tail[1] + Cardinality(Unfiled') = counts'["latency"]
  BY <1>4, <1>5, <1>8, UnfiledFinite
<1>10. Filed(tail)'
  BY <1>2, <1>6, <1>7, <1>9 DEF Filed, Enough
<1> QED
  BY <1>1, <1>6, <1>10 DEF QuantileInv, QuantileIsReal

\* An observation is filed: the buckets up to its own have one more after them.
LEMMA CountBucketQuantile ==
  ASSUME BaseOK, RestOK, QuantileInv, NEW e \in Evaluators, CountBucket(e)
  PROVE  QuantileInv'
<1>1. Overflow' = Overflow
  BY DEF Overflow
<1>2. PICK tail : Filed(tail)
  BY DEF QuantileInv
<1>3. Unfiled' = Unfiled \ {e} /\ e \in Unfiled
  BY DEF CountBucket, Goto, Unfiled, BaseOK
<1>4. Cardinality(Unfiled') = Cardinality(Unfiled) - 1
  BY <1>3, UnfiledFinite, FS_RemoveElement
<1>5. UNCHANGED <<counts, scrape, snap, whole>>
  BY DEF CountBucket, scrapeVars
<1>6. PICK b \in 1 .. Overflow : buckets' = [buckets EXCEPT ![b] = @ + 1]
  BY DEF CountBucket
<1>7. tail \in [1 .. Overflow + 1 -> Nat] /\ \A c \in 1 .. Overflow : tail[c] = buckets[c] + tail[c + 1]
  BY <1>2 DEF Filed, IsTail
<1> DEFINE after == [c \in 1 .. Overflow + 1 |-> IF c <= b THEN tail[c] + 1 ELSE tail[c]]
<1>8. IsTail(after)'
  <2>1. after \in [1 .. Overflow + 1 -> Nat]
    BY <1>7
  <2>2. after[Overflow + 1] = 0
    BY <1>2, OverflowType DEF Filed, IsTail
  <2>3. ASSUME NEW c \in 1 .. Overflow PROVE after[c] = buckets'[c] + after[c + 1]
    <3>1. /\ tail[c] \in Nat /\ tail[c + 1] \in Nat /\ buckets[c] \in Nat
          /\ tail[c] = buckets[c] + tail[c + 1]
      BY <1>7, QuantileTypes, OverflowType
    <3>2. after[c] = IF c <= b THEN tail[c] + 1 ELSE tail[c]
      BY OverflowType
    <3>3. after[c + 1] = IF c + 1 <= b THEN tail[c + 1] + 1 ELSE tail[c + 1]
      BY OverflowType
    <3>4. buckets'[c] = IF c = b THEN buckets[c] + 1 ELSE buckets[c]
      BY <1>6, QuantileTypes
    <3> HIDE DEF after
    <3> QED
      BY <3>1, <3>2, <3>3, <3>4, OverflowType
  <2> HIDE DEF after
  <2> QED
    BY <1>1, <2>1, <2>2, <2>3 DEF IsTail
<1>9. after[1] = tail[1] + 1 /\ tail[1] \in Nat
  BY <1>7, OverflowType
<1>10. after[1] + Cardinality(Unfiled') = counts'["latency"]
  BY <1>2, <1>4, <1>5, <1>9, UnfiledFinite DEF Filed
<1>11. Enough(after)'
  <2> SUFFICES ASSUME scrape = "bucket", whole
               PROVE  snap["target"] <= snap["sum"] + after[snap["bucket"]]
    BY <1>5 DEF Enough
  <2>1. snap["bucket"] \in 1 .. Overflow
    BY QuantileTypes
  <2>2. ASSUME NEW c \in 1 .. Overflow
        PROVE  tail[c] \in Nat /\ after[c] \in Nat /\ tail[c] <= after[c]
    BY <1>7, OverflowType
  <2>3. snap["target"] <= snap["sum"] + tail[snap["bucket"]]
    BY <1>2 DEF Filed, Enough
  <2> HIDE DEF after
  <2>4. /\ tail[snap["bucket"]] \in Nat /\ after[snap["bucket"]] \in Nat
        /\ tail[snap["bucket"]] <= after[snap["bucket"]]
    BY <2>1, <2>2
  <2> QED
    BY <2>3, <2>4, QuantileTypes
<1>12. QuantileIsReal'
  <2>1. \A c \in 1 .. Overflow : buckets[c] > 0 => buckets'[c] > 0
    BY <1>6, QuantileTypes
  <2>2. snap["bucket"] \in DOMAIN buckets \/ snap["bucket"] \notin DOMAIN buckets
    OBVIOUS
  <2>3. snap["bucket"] \notin 1 .. Overflow => buckets'[snap["bucket"]] = buckets[snap["bucket"]]
    BY <1>6, QuantileTypes
  <2> QED
    BY <1>5, <2>1, <2>3 DEF QuantileInv, QuantileIsReal
<1> HIDE DEF after
<1> QED
  BY <1>5, <1>8, <1>10, <1>11, <1>12 DEF QuantileInv, Filed

\* A quantile begins: if nothing is half made, all that is counted is in some
\* bucket, and the rank is no more than that.
LEMMA BeginsQuantile ==
  ASSUME BaseOK, RestOK, QuantileInv, QuantileBegins
  PROVE  QuantileInv'
<1>1. Overflow' = Overflow
  BY DEF Overflow
<1>2. PICK tail : Filed(tail)
  BY DEF QuantileInv
<1>3. UNCHANGED <<pc, counts, gauges, buckets>> /\ scrape = "quantile"
  BY DEF QuantileBegins, collectorVars
<1>4. Unfiled' = Unfiled
  BY <1>3 DEF Unfiled
<1>5. IsTail(tail)' /\ tail[1] + Cardinality(Unfiled') = counts'["latency"]
  BY <1>1, <1>2, <1>3, <1>4 DEF Filed, IsTail
<1>6. CASE UNCHANGED scrape
  BY <1>3, <1>5, <1>6 DEF QuantileInv, Filed, Enough, QuantileIsReal
<1>7. CASE ~ UNCHANGED scrape
  <2>1. /\ scrape' = "bucket" /\ counts["latency"] > 0
        /\ whole' <=> \A e \in Evaluators : pc[e] # "bucket"
        /\ snap' = [snap EXCEPT !.target = Rank(counts.latency, Quantiles[snap.quantile]),
                                !.sum = 0, !.bucket = 1]
    BY <1>7 DEF QuantileBegins
  <2>2. Quantiles[snap["quantile"]] \in 1 .. 100
    <3>1. snap["quantile"] \in Nat /\ snap["quantile"] >= 1
      BY <1>3 DEF RestOK, SnapFields
    <3>2. snap["quantile"] \in 1 .. Len(Quantiles)
      BY <3>1, MetricsAssumption DEF QuantileBegins
    <3> QED
      BY <3>2, ElementOfSeq, MetricsAssumption
  <2> DEFINE rank == Rank(counts["latency"], Quantiles[snap["quantile"]])
  <2>3. rank \in 1 .. counts["latency"]
    BY <2>1, <2>2, QuantileTypes, RankBounds
  <2>4. snap'["target"] = rank /\ snap'["sum"] = 0 /\ snap'["bucket"] = 1
    BY <2>1 DEF RestOK, SnapFields
  <2> HIDE DEF rank
  <2>5. ASSUME whole' PROVE counts["latency"] = tail[1]
    <3>1. Unfiled = {}
      BY <2>1, <2>5 DEF Unfiled
    <3>2. Cardinality(Unfiled) = 0
      BY <3>1, FS_EmptySet
    <3> QED
      BY <1>2, <3>2, OverflowType DEF Filed, IsTail
  <2>6. Enough(tail)'
    BY <2>3, <2>4, <2>5, QuantileTypes DEF Enough
  <2>7. snap'["sum"] < snap'["target"]
    BY <2>3, <2>4, QuantileTypes
  <2> QED
    BY <1>5, <2>1, <2>6, <2>7 DEF QuantileInv, Filed, QuantileIsReal
<1> QED
  BY <1>6, <1>7

\* A bucket is added: either what is left of the buckets still brings the sum to
\* the rank, or the bucket that did so is not empty.
LEMMA BucketQuantile ==
  ASSUME BaseOK, RestOK, QuantileInv, QuantileBucket
  PROVE  QuantileInv'
<1>1. Overflow' = Overflow
  BY DEF Overflow
<1>2. PICK tail : Filed(tail)
  BY DEF QuantileInv
<1>3. UNCHANGED <<pc, counts, gauges, buckets, whole>> /\ scrape = "bucket"
  BY DEF QuantileBucket, collectorVars
<1>4. Unfiled' = Unfiled
  BY <1>3 DEF Unfiled
<1>5. IsTail(tail)' /\ tail[1] + Cardinality(Unfiled') = counts'["latency"]
  BY <1>1, <1>2, <1>3, <1>4 DEF Filed, IsTail
<1> DEFINE b == snap["bucket"]
           total == snap["sum"] + buckets[b]
<1>6. b \in 1 .. Overflow /\ b \in Nat
  BY <1>3, QuantileTypes
<1>7. /\ buckets[b] \in Nat /\ tail[b] \in Nat /\ tail[b + 1] \in Nat
      /\ tail[b] = buckets[b] + tail[b + 1]
      /\ b = Overflow => tail[b + 1] = 0
  <2>1. ASSUME NEW c \in 1 .. Overflow
        PROVE  /\ buckets[c] \in Nat /\ tail[c] \in Nat /\ tail[c + 1] \in Nat
               /\ tail[c] = buckets[c] + tail[c + 1]
               /\ c = Overflow => tail[c + 1] = 0
    <3>1. c \in Nat /\ c + 1 \in 1 .. Overflow + 1 /\ c \in 1 .. Overflow + 1
      BY OverflowType
    <3>2. /\ tail \in [1 .. Overflow + 1 -> Nat] /\ tail[Overflow + 1] = 0
          /\ tail[c] = buckets[c] + tail[c + 1]
      BY <1>2 DEF Filed, IsTail
    <3>3. buckets[c] \in Nat
      BY QuantileTypes
    <3> QED
      BY <3>1, <3>2, <3>3
  <2> QED
    BY <1>6, <2>1
<1>8. snap["sum"] < snap["target"] /\ (whole => snap["target"] <= snap["sum"] + tail[b])
  BY <1>2, <1>3 DEF QuantileInv, Filed, Enough
<1>9. CASE UNCHANGED scrape
  <2>1. /\ total < snap["target"]
        /\ snap' = [snap EXCEPT !.sum = total, !.bucket = b + 1]
    BY <1>3, <1>9 DEF QuantileBucket
  <2>2. snap'["target"] = snap["target"] /\ snap'["sum"] = total /\ snap'["bucket"] = b + 1
    BY <2>1 DEF RestOK, SnapFields
  <2>3. whole => snap["target"] <= total + tail[b + 1]
    BY <1>7, <1>8, QuantileTypes
  <2> HIDE DEF b, total
  <2> QED
    BY <1>3, <1>5, <1>9, <2>1, <2>2, <2>3 DEF QuantileInv, Filed, Enough, QuantileIsReal
<1>10. CASE ~ UNCHANGED scrape
  <2>1. /\ scrape' = "answer" /\ (total >= snap["target"] \/ b = Overflow)
        /\ snap' = [snap EXCEPT !.sum = total]
    BY <1>10 DEF QuantileBucket
  <2>2. snap'["target"] = snap["target"] /\ snap'["sum"] = total /\ snap'["bucket"] = b
    BY <2>1 DEF RestOK, SnapFields
  <2>3. whole => total >= snap["target"]
    BY <1>7, <1>8, <2>1, QuantileTypes
  <2>4. whole => buckets[b] > 0
    BY <1>7, <1>8, <2>3, QuantileTypes
  <2> HIDE DEF b, total
  <2> QED
    BY <1>3, <1>5, <2>1, <2>2, <2>3, <2>4 DEF QuantileInv, Filed, Enough, QuantileIsReal
<1> QED
  BY <1>9, <1>10

\* Every step keeps the observations accounted for.
LEMMA NextQuantile ==
  ASSUME BaseOK, RestOK, QuantileInv, [Next]_vars PROVE QuantileInv'
<1>1. ASSUME NEW e \in Evaluators, EvaluatorStep(e) PROVE QuantileInv'
  <2>1. CASE CountLatency(e)
    BY <2>1, CountLatencyQuantile
  <2>2. CASE CountBucket(e)
    BY <2>2, CountBucketQuantile
  <2>3. CASE Evaluate(e) \/ CountEvaluation(e) \/ CountUnknown(e) \/ ReportStore(e)
    <3>1. UNCHANGED <<buckets, scrape, snap, whole>>
      BY <2>3 DEF Evaluate, CountEvaluation, CountUnknown, ReportStore, collectorVars,
                  scrapeVars
    <3>2. counts'["latency"] = counts["latency"]
      BY <2>3, CountOne DEF Evaluate, CountEvaluation, CountUnknown, ReportStore,
                            collectorVars, BaseOK, Counters
    <3>3. \E label \in Places \ {"bucket"} : Goto(e, label)
      BY <2>3 DEF Evaluate, CountEvaluation, CountUnknown, ReportStore, Places
    <3>4. pc[e] # "bucket"
      BY <2>3 DEF Evaluate, CountEvaluation, CountUnknown, ReportStore
    <3>5. Unfiled' = Unfiled
      BY <3>3, <3>4 DEF Unfiled, Goto, BaseOK
    <3> QED
      BY <3>1, <3>2, <3>5, QuantileKept
  <2> QED
    BY <1>1, <2>1, <2>2, <2>3 DEF EvaluatorStep
<1>2. ASSUME NEW s \in Syncers, SyncerStep(s) PROVE QuantileInv'
  <2>1. UNCHANGED <<buckets, scrape, snap, whole>>
    BY <1>2 DEF SyncerStep, SyncLock, SyncFails, Build, TakeGeneration, Install,
                ObserveSync, ReportGeneration, ReportVersion, collectorVars, scrapeVars
  <2>2. counts'["latency"] = counts["latency"]
    BY <1>2, CountOne
       DEF SyncerStep, SyncLock, SyncFails, Build, TakeGeneration, Install, ObserveSync,
           ReportGeneration, ReportVersion, collectorVars, BaseOK, Counters
  <2>3. \A e \in Evaluators : pc'[e] = pc[e]
    BY <1>2 DEF SyncerStep, SyncLock, SyncFails, Build, TakeGeneration, Install,
                ObserveSync, ReportGeneration, ReportVersion, Unlock, Goto, BaseOK
  <2>4. Unfiled' = Unfiled
    BY <2>3 DEF Unfiled
  <2> QED
    BY <2>1, <2>2, <2>4, QuantileKept
<1>3. CASE QuantileBegins
  BY <1>3, BeginsQuantile
<1>4. CASE QuantileBucket
  BY <1>4, BucketQuantile
<1>5. CASE LoadCounts \/ QuantileAnswers \/ SnapshotReturns
  <2>1. /\ UNCHANGED <<pc, counts, buckets>>
        /\ scrape' \notin {"bucket", "answer"}
    BY <1>5 DEF LoadCounts, QuantileAnswers, SnapshotReturns, collectorVars
  <2>2. Overflow' = Overflow /\ Unfiled' = Unfiled
    BY <2>1 DEF Overflow, Unfiled
  <2>3. PICK tail : Filed(tail)
    BY DEF QuantileInv
  <2>4. Filed(tail)'
    BY <2>1, <2>2, <2>3 DEF Filed, IsTail, Enough
  <2> QED
    BY <2>1, <2>4 DEF QuantileInv, QuantileIsReal
<1>6. CASE UNCHANGED vars
  <2>1. Unfiled' = Unfiled
    BY <1>6 DEF Unfiled, vars
  <2> QED
    BY <1>6, <2>1, QuantileKept DEF vars
<1> QED
  BY <1>1, <1>2, <1>3, <1>4, <1>5, <1>6 DEF Next, ScrapeStep

\* A quantile lies in a bucket that some observation fell into, whatever goes on
\* while the buckets are added up: if no observation was half made when
\* latencyCount was loaded, the buckets hold at least that many, they only grow,
\* and so the sum reaches the rank at a bucket that is not empty.
THEOREM QuantilesAreReal == Spec => []QuantileIsReal
<1> DEFINE Inv == BaseOK /\ RestOK /\ QuantileInv
<1>1. Init => Inv
  <2> SUFFICES ASSUME Init PROVE RestOK /\ QuantileInv
    BY InitBase
  <2>1. RestOK
    BY InitRest
  <2> DEFINE none == [b \in 1 .. Overflow + 1 |-> 0]
  <2>2. IsTail(none)
    BY OverflowType DEF IsTail, Init, InitWith
  <2>3. none[1] = 0
    BY OverflowType
  <2>4. Cardinality(Unfiled) = 0 /\ counts["latency"] = 0
    <3>1. Unfiled = {}
      BY DEF Unfiled, Init, InitWith
    <3> QED
      BY <3>1, FS_EmptySet DEF Init, InitWith
  <2> HIDE DEF none
  <2> QED
    BY <2>1, <2>2, <2>3, <2>4 DEF QuantileInv, Filed, Enough, QuantileIsReal, Init, InitWith
<1>2. Inv /\ [Next]_vars => Inv'
  BY NextBase, NextRest, NextQuantile
<1>3. Inv => QuantileIsReal
  BY DEF QuantileInv
<1> HIDE DEF Inv
<1> QED
  BY <1>1, <1>2, <1>3, PTL DEF Spec

-----------------------------------------------------------------------------
(* The gauges.  They may show a store that is no longer current, because   *)
(* an evaluation that read it reports it after a newer one was installed;  *)
(* that is the only reason.                                                *)

\* No evaluation that has read the store has yet to report it when a Sync is about
\* to replace it.
Reporting == {"evaluated", "counted", "generation", "version"}
NoneOvertaken ==
  \A e \in Evaluators, s \in Syncers : pc[s] = "numbered" => pc[e] \notin Reporting

\* Who is about to report holds the current store, and a gauge shows it unless the
\* Sync that installed it has still to report.
Reported(gauge, places) ==
  gauges[gauge] = current \/ \E s \in Syncers : pc[s] \in places
GaugeInv ==
  /\ \A e \in Evaluators : pc[e] \in Reporting => held[e] = current
  /\ Reported("generation", {"swapped", "generation"})
  /\ Reported("version", {"swapped", "generation", "version"})

\* Every step keeps that, as long as no evaluation is overtaken.
LEMMA NextGaugeInv ==
  ASSUME BaseOK, GenerationInv, RestOK, GaugeInv, NoneOvertaken, [Next]_vars
  PROVE  GaugeInv'
<1> USE DEF BaseOK, RestOK, GaugeInv, Reported, Reporting, Goto, Hold, SetGauge,
            holderVars, collectorVars, scrapeVars
<1>1. ASSUME NEW e \in Evaluators, EvaluatorStep(e) PROVE GaugeInv'
  <2>1. current' = current /\ \A s \in Syncers : pc'[s] = pc[s]
    BY <1>1 DEF EvaluatorStep, Evaluate, CountEvaluation, CountUnknown, ReportStore,
                CountLatency, CountBucket
  <2>2. \A d \in Evaluators : pc'[d] \in Reporting => held'[d] = current
    BY <1>1 DEF EvaluatorStep, Evaluate, CountEvaluation, CountUnknown, ReportStore,
                CountLatency, CountBucket
  <2>3. \A gauge \in {"generation", "version"} :
          gauges'[gauge] = gauges[gauge] \/ gauges'[gauge] = current
    BY <1>1 DEF EvaluatorStep, Evaluate, CountEvaluation, CountUnknown, ReportStore,
                CountLatency, CountBucket
  <2> QED
    BY <2>1, <2>2, <2>3
<1>2. ASSUME NEW s \in Syncers, SyncerStep(s) PROVE GaugeInv'
  <2>1. \A e \in Evaluators : pc'[e] = pc[e] /\ held'[e] = held[e]
    BY <1>2 DEF SyncerStep, SyncLock, SyncFails, Build, TakeGeneration, Install,
                ObserveSync, ReportGeneration, ReportVersion, Unlock
  <2>2. pc[s] \in {"generation", "version"} => held[s] = current
    BY DEF GenerationInv, SyncAt
  <2>3. \A r \in Syncers \ {s} : pc[r] = "idle" \/ pc[s] = "idle"
    BY DEF GenerationInv, SyncAt
  <2>4. \A r \in Syncers \ {s} : pc'[r] = pc[r]
    BY <1>2 DEF SyncerStep, SyncLock, SyncFails, Build, TakeGeneration, Install,
                ObserveSync, ReportGeneration, ReportVersion, Unlock
  <2>5. CASE SyncLock(s) \/ SyncFails(s) \/ Build(s) \/ TakeGeneration(s)
    <3>1. UNCHANGED <<current, gauges>>
      BY <2>5 DEF SyncLock, SyncFails, Build, TakeGeneration
    <3>2. pc[s] \notin {"swapped", "generation", "version"}
      BY <2>5 DEF SyncLock, SyncFails, Build, TakeGeneration
    <3> QED
      BY <2>1, <2>4, <3>1, <3>2
  <2>6. CASE Install(s)
    <3>1. pc[s] = "numbered" /\ pc'[s] = "swapped"
      BY <2>6 DEF Install
    <3> QED
      BY <2>1, <3>1 DEF NoneOvertaken
  <2>7. CASE ObserveSync(s)
    BY <2>1, <2>7 DEF ObserveSync
  <2>8. CASE ReportGeneration(s)
    <3>1. gauges'["generation"] = current' /\ pc'[s] = "version" /\ current' = current
      BY <2>2, <2>8 DEF ReportGeneration
    <3> QED
      BY <2>1, <3>1
  <2>9. CASE ReportVersion(s)
    <3>1. /\ gauges'["version"] = current /\ current' = current
          /\ gauges'["generation"] = gauges["generation"] /\ pc[s] = "version"
      BY <2>2, <2>9 DEF ReportVersion
    <3>2. gauges["generation"] = current
      BY <2>3, <3>1
    <3> QED
      BY <2>1, <3>1, <3>2
  <2> QED
    BY <1>2, <2>5, <2>6, <2>7, <2>8, <2>9 DEF SyncerStep
<1>3. CASE ScrapeStep
  BY <1>3 DEF ScrapeStep, LoadCounts, QuantileBegins, QuantileBucket,
              QuantileAnswers, SnapshotReturns
<1>4. CASE UNCHANGED vars
  BY <1>4 DEF vars
<1> QED
  BY <1>1, <1>2, <1>3, <1>4 DEF Next

\* As long as no evaluation is overtaken by an install, the gauges show the current
\* store whenever nobody is about to report one (ObserveEvaluation, ObserveSync).
THEOREM GaugesFollow == Spec /\ []NoneOvertaken => []GaugeCurrent
<1>1. Init => RestOK /\ GaugeInv
  BY InitRest DEF Init, InitWith, GaugeInv, Reported, Reporting
<1>2. BaseOK /\ RestOK /\ GenerationInv /\ GaugeInv /\ NoneOvertaken /\ [Next]_vars
        => RestOK' /\ GaugeInv'
  BY NextRest, NextGaugeInv
<1>3. RestOK /\ GaugeInv => GaugeCurrent
  BY DEF RestOK, GaugeInv, Reported, GaugeCurrent
<1>4. IInv => BaseOK /\ GenerationInv
  BY DEF IInv
<1> QED
  BY <1>1, <1>2, <1>3, <1>4, Invariance, PTL DEF Spec
=============================================================================
