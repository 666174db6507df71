---------------------------- MODULE FlagReplica ----------------------------
(***************************************************************************)
(* What the data plane promises of the flags it shows, with no goroutine,  *)
(* statement, lock or connection in sight: a replica that follows the      *)
(* tables.  FlagSync, which models the handlers, the repository and the    *)
(* Syncer statement by statement, implements it.                           *)
(*                                                                         *)
(* Commits are numbered.  A refresh moves every flag forward at once; what *)
(* the replica shows of one flag may mix the commits of an interval,       *)
(* because a flag is read with three SELECTs.                              *)
(***************************************************************************)
EXTENDS Naturals

CONSTANT Keys

VARIABLES clock,   \* how many writes committed
          latest,  \* per key, the last commit that wrote it
          shown,   \* per key, the commits the replica's flag was read from
          acked    \* per key, the last write answered with success

replicaVars == <<clock, latest, shown, acked>>

\* The replica's flag of a key was put together from these commits.
Interval(oldest, newest) == [oldest |-> oldest, newest |-> newest]
Empty == [k \in Keys |-> Interval(0, 0)]
Nothing == [k \in Keys |-> 0]

Init == /\ clock = 0 /\ latest = Nothing
        /\ shown = Empty /\ acked = Nothing

\* A write of k commits.
Write(k) ==
  /\ clock' = clock + 1
  /\ latest' = [latest EXCEPT ![k] = clock + 1]
  /\ UNCHANGED <<shown, acked>>

\* A refresh: each flag is shown as it was at the last refresh or later, and
\* none from the future.
Refresh ==
  /\ shown' = [k \in Keys |-> Interval(shown'[k].oldest, shown'[k].newest)]
  /\ \A k \in Keys : /\ shown[k].newest <= shown'[k].oldest
                     /\ shown'[k].oldest <= shown'[k].newest
                     /\ shown'[k].newest <= latest[k]
  /\ UNCHANGED <<clock, latest, acked>>

\* A write is answered with success only once the replica shows it.
Acknowledge(k) ==
  /\ acked' = [acked EXCEPT ![k] = acked'[k]]
  /\ acked[k] < acked'[k] /\ acked'[k] <= shown[k].oldest
  /\ UNCHANGED <<clock, latest, shown>>

\* The replica starts again with nothing, and owes nobody anything.
Restart ==
  /\ shown' = Empty /\ acked' = Nothing
  /\ UNCHANGED <<clock, latest>>

Next == \/ \E k \in Keys : Write(k) \/ Acknowledge(k)
        \/ Refresh \/ Restart

Spec == Init /\ [][Next]_replicaVars

\* What follows from it: whoever was answered success reads that write or a
\* later one, and nothing is shown that was not committed.
Promise == \A k \in Keys : /\ acked[k] <= shown[k].oldest
                           /\ shown[k].oldest <= shown[k].newest
                           /\ shown[k].newest <= latest[k]
                           /\ latest[k] <= clock
=============================================================================
