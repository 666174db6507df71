-------------------------- MODULE MetricsCollector --------------------------
(***************************************************************************)
(* The numbers that GET /metrics reports (internal/metrics/collector.go),  *)
(* the evaluations (handleEvaluate in internal/api/server.go) and the      *)
(* Syncs (internal/sync/syncer.go) that feed them, and the generation of   *)
(* the store (internal/store/holder.go).                                   *)
(*                                                                         *)
(* Everything here is an atomic variable or an atomic pointer: there is no *)
(* lock but the Syncer's mutex, and every Add, Store and Load is a step of *)
(* its own.  A store is its generation, which also stands for its version: *)
(* the two gauges hold the generation of the store each was taken from.    *)
(* Of a latency there is the bucket it falls in.                           *)
(***************************************************************************)
EXTENDS Naturals, Sequences, FiniteSets

CONSTANTS Evaluators,     \* goroutines that serve POST /evaluate
          Syncers,        \* goroutines that call Sync
          Nobody,         \* the mutex is free
          Buckets,        \* the buckets with an upper bound, 1 .. Buckets
          Quantiles,      \* the percentages quantileString is called with
          MaxEvaluations, \* bound: evaluations
          MaxSyncs        \* bound: Syncs

ASSUME MetricsAssumption ==
  /\ IsFiniteSet(Evaluators)
  /\ Evaluators \cap Syncers = {} /\ Nobody \notin Syncers
  /\ Buckets \in Nat /\ Quantiles \in Seq(1 .. 100)
  /\ MaxEvaluations \in Nat /\ MaxSyncs \in Nat

\* The last bucket has no upper bound.
Overflow == Buckets + 1

VARIABLES generation,  \* Holder.generation
          current,     \* the generation of the store in Holder.current
          mutex,       \* the goroutine in Sync, or Nobody
          pc,          \* where each evaluator and each syncer is
          held,        \* the store each of them works with or reports
          next,        \* a syncer's nextGeneration, which it logs
          counts,      \* evaluationCount, unknownFlagCount, syncSuccessCount,
                       \* syncFailureCount and latencyCount
          gauges,      \* storeGeneration and storeVersion
          buckets,     \* latencyBuckets
          scrape,      \* Snapshot's program counter
          snap,        \* what Snapshot has loaded
          whole        \* whether quantileString found no observation half made

holderVars == <<generation, current>>
collectorVars == <<counts, gauges, buckets>>
scrapeVars == <<scrape, snap, whole>>
vars == <<generation, current, mutex, pc, held, next, counts, gauges, buckets,
          scrape, snap, whole>>

NoSnap == [latency |-> 0, evaluations |-> 0, quantile |-> 0, target |-> 0,
           sum |-> 0, bucket |-> 0]

InitWith(lastBucket) ==
  /\ generation = 0 /\ current = 0 /\ mutex = Nobody
  /\ pc = [p \in Evaluators \cup Syncers |-> "idle"]
  /\ held = [p \in Evaluators \cup Syncers |-> 0]
  /\ next = [s \in Syncers |-> 0]
  /\ counts = [evaluations |-> 0, unknown |-> 0, latency |-> 0,
               successes |-> 0, failures |-> 0]
  /\ gauges = [generation |-> 0, version |-> 0]
  /\ buckets = [b \in 1 .. lastBucket |-> 0]
  /\ scrape = "idle" /\ snap = NoSnap /\ whole = TRUE

\* Mutant: no bucket for what exceeds every bound.
InitNoOverflow == InitWith(Buckets)

Init == InitWith(Overflow)

Goto(p, label) == pc' = [pc EXCEPT ![p] = label]
Hold(p, store) == held' = [held EXCEPT ![p] = store]
Count(counter) == counts' = [counts EXCEPT ![counter] = @ + 1]
SetGauge(gauge, store) == gauges' = [gauges EXCEPT ![gauge] = store]

-----------------------------------------------------------------------------
(* handleEvaluate and ObserveEvaluation                                    *)

\* Current() is called once; the answer and the two gauges are that store's.
Evaluate(e) ==
  /\ pc[e] = "idle"
  /\ counts.evaluations + Cardinality({p \in Evaluators : pc[p] = "evaluated"})
       < MaxEvaluations
  /\ Hold(e, current) /\ Goto(e, "evaluated")
  /\ UNCHANGED <<holderVars, mutex, next, collectorVars, scrapeVars>>

CountEvaluation(e) ==
  /\ pc[e] = "evaluated" /\ Count("evaluations") /\ Goto(e, "counted")
  /\ UNCHANGED <<holderVars, mutex, held, next, gauges, buckets, scrapeVars>>

\* The flag is found, or counted as unknown.
CountUnknown(e) ==
  /\ pc[e] = "counted"
  /\ Count("unknown") \/ UNCHANGED counts
  /\ Goto(e, "generation")
  /\ UNCHANGED <<holderVars, mutex, held, next, gauges, buckets, scrapeVars>>

\* storeGeneration.Store, then storeVersion.Store.
ReportStore(e) ==
  /\ \/ pc[e] = "generation" /\ SetGauge("generation", held[e]) /\ Goto(e, "version")
     \/ pc[e] = "version" /\ SetGauge("version", held[e]) /\ Goto(e, "latency")
  /\ UNCHANGED <<holderVars, mutex, held, next, counts, buckets, scrapeVars>>

\* observeLatency's latencyCount.Add.
CountLatency(e) ==
  /\ pc[e] = "latency" /\ Count("latency") /\ Goto(e, "bucket")
  /\ UNCHANGED <<holderVars, mutex, held, next, gauges, buckets, scrapeVars>>

\* The first bucket whose bound is not exceeded, or the last one.
CountBucket(e) ==
  /\ pc[e] = "bucket"
  /\ \E b \in 1 .. Overflow : buckets' = [buckets EXCEPT ![b] = @ + 1]
  /\ Hold(e, 0) /\ Goto(e, "idle")
  /\ UNCHANGED <<holderVars, mutex, next, counts, gauges, scrapeVars>>

EvaluatorStep(e) ==
  \/ Evaluate(e) \/ CountEvaluation(e) \/ CountUnknown(e)
  \/ ReportStore(e) \/ CountLatency(e) \/ CountBucket(e)

-----------------------------------------------------------------------------
(* Sync, Holder.Swap and ObserveSync                                       *)

\* Mutant: Sync without its mutex.
SyncLockShared(s) ==
  /\ pc[s] = "idle"
  /\ counts.successes + counts.failures < MaxSyncs
  /\ mutex' = s /\ Goto(s, "loading")
  /\ UNCHANGED <<holderVars, held, next, collectorVars, scrapeVars>>

SyncLock(s) ==
  /\ pc[s] = "idle" /\ mutex = Nobody
  /\ counts.successes + counts.failures < MaxSyncs
  /\ mutex' = s /\ Goto(s, "loading")
  /\ UNCHANGED <<holderVars, held, next, collectorVars, scrapeVars>>

\* The deferred Unlock.
Unlock(s) ==
  /\ mutex' = Nobody
  /\ Goto(s, "idle") /\ Hold(s, 0)
  /\ next' = [next EXCEPT ![s] = 0]

\* LoadAllFlags fails: the store stays, and only the failure is counted.
SyncFails(s) ==
  /\ pc[s] = "loading" /\ Count("failures") /\ Unlock(s)
  /\ UNCHANGED <<holderVars, gauges, buckets, scrapeVars>>

\* The flags are loaded: the next generation is one more than the current.
Build(s) ==
  /\ pc[s] = "loading"
  /\ next' = [next EXCEPT ![s] = current + 1] /\ Goto(s, "built")
  /\ UNCHANGED <<holderVars, mutex, held, collectorVars, scrapeVars>>

\* Mutant: a Swap that takes its generation from the store it replaces.
TakeGenerationOfCurrent(s) ==
  /\ pc[s] = "built" /\ generation' = generation + 1 /\ Hold(s, current)
  /\ Goto(s, "numbered")
  /\ UNCHANGED <<current, mutex, next, collectorVars, scrapeVars>>

\* Swap: the Holder's own counter decides the generation.
TakeGeneration(s) ==
  /\ pc[s] = "built" /\ generation' = generation + 1 /\ Hold(s, generation + 1)
  /\ Goto(s, "numbered")
  /\ UNCHANGED <<current, mutex, next, collectorVars, scrapeVars>>

Install(s) ==
  /\ pc[s] = "numbered" /\ current' = held[s] /\ Goto(s, "swapped")
  /\ UNCHANGED <<generation, mutex, held, next, collectorVars, scrapeVars>>

\* ObserveSync is given the store that is current now.
ObserveSync(s) ==
  /\ pc[s] = "swapped" /\ Hold(s, current) /\ Count("successes")
  /\ Goto(s, "generation")
  /\ UNCHANGED <<holderVars, mutex, next, gauges, buckets, scrapeVars>>

ReportGeneration(s) ==
  /\ pc[s] = "generation" /\ SetGauge("generation", held[s])
  /\ Goto(s, "version")
  /\ UNCHANGED <<holderVars, mutex, held, next, counts, buckets, scrapeVars>>

ReportVersion(s) ==
  /\ pc[s] = "version" /\ SetGauge("version", held[s]) /\ Unlock(s)
  /\ UNCHANGED <<holderVars, counts, buckets, scrapeVars>>

SyncerStep(s) ==
  \/ SyncLock(s) \/ SyncFails(s) \/ Build(s) \/ TakeGeneration(s) \/ Install(s)
  \/ ObserveSync(s) \/ ReportGeneration(s) \/ ReportVersion(s)

-----------------------------------------------------------------------------
(* Snapshot                                                                *)

\* Mutant: the evaluations are loaded before the latencies.
LoadCountsEvaluationsFirst ==
  /\ \/ /\ scrape = "idle" /\ scrape' = "evaluations"
        /\ snap' = [NoSnap EXCEPT !.evaluations = counts.evaluations]
     \/ /\ scrape = "evaluations" /\ scrape' = "quantile"
        /\ snap' = [snap EXCEPT !.latency = counts.latency, !.quantile = 1]
  /\ UNCHANGED <<holderVars, mutex, pc, held, next, collectorVars, whole>>

\* latencyCount is loaded first, evaluationCount later.
LoadCounts ==
  /\ \/ /\ scrape = "idle" /\ scrape' = "evaluations"
        /\ snap' = [NoSnap EXCEPT !.latency = counts.latency]
     \/ /\ scrape = "evaluations" /\ scrape' = "quantile"
        /\ snap' = [snap EXCEPT !.evaluations = counts.evaluations, !.quantile = 1]
  /\ UNCHANGED <<holderVars, mutex, pc, held, next, collectorVars, whole>>

\* The rank that quantileString looks for among count observations, from 1 on.  Its
\* float64 product may come out one beside this one, and is as surely in 1 .. count.
Rank(count, percent) ==
  LET target == (count * percent) \div 100 IN IF target = 0 THEN 1 ELSE target

\* quantileString loads latencyCount; with none it answers "0s" at once.
QuantileBegins ==
  /\ scrape = "quantile" /\ snap.quantile <= Len(Quantiles)
  /\ whole' = \A e \in Evaluators : pc[e] # "bucket"
  /\ \/ /\ counts.latency = 0
        /\ snap' = [snap EXCEPT !.quantile = @ + 1]
        /\ UNCHANGED scrape
     \/ /\ counts.latency > 0
        /\ snap' = [snap EXCEPT !.target = Rank(counts.latency, Quantiles[snap.quantile]),
                                !.sum = 0, !.bucket = 1]
        /\ scrape' = "bucket"
  /\ UNCHANGED <<holderVars, mutex, pc, held, next, collectorVars>>

\* Mutant: the sum has to exceed the rank.
QuantileBucketStrict ==
  /\ scrape = "bucket"
  /\ LET sum == snap.sum + buckets[snap.bucket] IN
     \/ /\ sum <= snap.target /\ snap.bucket < Overflow
        /\ snap' = [snap EXCEPT !.sum = sum, !.bucket = @ + 1]
        /\ UNCHANGED scrape
     \/ /\ sum > snap.target \/ snap.bucket = Overflow
        /\ snap' = [snap EXCEPT !.sum = sum]
        /\ scrape' = "answer"
  /\ UNCHANGED <<holderVars, mutex, pc, held, next, collectorVars, whole>>

\* One bucket after the other is added up until the rank is reached; past the
\* last one, the answer is that of the last one.
QuantileBucket ==
  /\ scrape = "bucket"
  /\ LET sum == snap.sum + buckets[snap.bucket] IN
     \/ /\ sum < snap.target /\ snap.bucket < Overflow
        /\ snap' = [snap EXCEPT !.sum = sum, !.bucket = @ + 1]
        /\ UNCHANGED scrape
     \/ /\ sum >= snap.target \/ snap.bucket = Overflow
        /\ snap' = [snap EXCEPT !.sum = sum]
        /\ scrape' = "answer"
  /\ UNCHANGED <<holderVars, mutex, pc, held, next, collectorVars, whole>>

QuantileAnswers ==
  /\ scrape = "answer"
  /\ snap' = [snap EXCEPT !.quantile = @ + 1, !.target = 0, !.sum = 0, !.bucket = 0]
  /\ scrape' = "quantile" /\ whole' = TRUE
  /\ UNCHANGED <<holderVars, mutex, pc, held, next, collectorVars>>

SnapshotReturns ==
  /\ scrape = "quantile" /\ snap.quantile > Len(Quantiles)
  /\ scrape' = "idle" /\ snap' = NoSnap /\ whole' = TRUE
  /\ UNCHANGED <<holderVars, mutex, pc, held, next, collectorVars>>

ScrapeStep ==
  \/ LoadCounts \/ QuantileBegins \/ QuantileBucket \/ QuantileAnswers
  \/ SnapshotReturns

Next == \/ \E e \in Evaluators : EvaluatorStep(e)
        \/ \E s \in Syncers : SyncerStep(s)
        \/ ScrapeStep

Spec == Init /\ [][Next]_vars

-----------------------------------------------------------------------------
(* Properties                                                              *)

\* Every variable has its type.
TypeOK ==
  /\ generation \in Nat /\ current \in Nat
  /\ mutex \in Syncers \cup {Nobody}
  /\ pc \in [Evaluators \cup Syncers ->
              {"idle", "evaluated", "counted", "generation", "version", "latency",
               "bucket", "loading", "built", "numbered", "swapped"}]
  /\ held \in [Evaluators \cup Syncers -> Nat]
  /\ next \in [Syncers -> Nat]
  /\ counts \in [{"evaluations", "unknown", "latency", "successes", "failures"} -> Nat]
  /\ gauges \in [{"generation", "version"} -> Nat]
  /\ buckets \in [1 .. Overflow -> Nat]
  /\ scrape \in {"idle", "evaluations", "quantile", "bucket", "answer"}
  /\ snap \in [{"latency", "evaluations", "quantile", "target", "sum", "bucket"} -> Nat]
  /\ whole \in BOOLEAN

\* The generation counts the successful Syncs, one each, and what a Sync logs,
\* installs and reports is the same store, although Swap numbers the store and
\* stores it in two steps and Sync reads the current one twice.
GenerationCounts ==
  /\ mutex = Nobody => /\ current = generation
                       /\ current = counts.successes
  /\ \A s \in Syncers :
       pc[s] \in {"numbered", "swapped", "generation", "version"} => held[s] = next[s]

\* A store is replaced only by the one of the next generation.
GenerationAdvances == [][current' # current => current' = current + 1]_vars

\* A snapshot never counts more latencies than evaluations, whatever happens
\* between its loads.
SnapshotConsistent ==
  scrape \notin {"idle", "evaluations"} => snap.latency <= snap.evaluations

\* A quantile is in a bucket that some evaluation fell into; in particular it is
\* above the largest bound only if an evaluation was, unless an observation was
\* half made when latencyCount was loaded (observeLatency counts it before it
\* adds to its bucket).  Observations that go on while the buckets are added up
\* do no harm.
QuantileIsReal ==
  (scrape = "answer" /\ whole) => /\ snap.sum >= snap.target
                                  /\ buckets[snap.bucket] > 0

\* Documented: /metrics tracks the "current store generation and version".  When
\* nobody is about to report a store, the gauges show the current one.
GaugeCurrent ==
  (\A p \in Evaluators \cup Syncers : pc[p] = "idle")
    => gauges = [generation |-> current, version |-> current]
=============================================================================
