----------------------------- MODULE BuildMetrics -----------------------------
(***************************************************************************)
(* The metrics of the controller, composed with the reconciler: every call *)
(* of RecordBuildResult is set against the transitions of the CR's phase   *)
(* into a terminal one that the end of a Job, or a dedup hit, calls for,   *)
(* and the gauges of the PhaseAggregator against the CRs.                  *)
(***************************************************************************)
EXTENDS ReconcileProperties, Integers, FiniteSets

VARIABLES
    owed,     \* owed[k]: builds of k whose end became its phase, less results
              \* recorded for k
    gauges    \* gauges[p]: imagepatches{phase=p}; active_builds is the one of Running

meteredVars == <<vars, owed, gauges>>

IsTerminal(o) == o # None /\ o.phase \in {"Succeeded", "Failed"}

(* The phase becomes that of a build that ended.  The reject of the        *)
(* pre-flight inspection writes Failed without a build and records nothing,*)
(* so its transition is not counted here either.                           *)
EndsBuild(k) ==
    /\ IsTerminal(cr'[k])
    /\ ~(Exists(k) /\ cr[k].phase = cr'[k].phase)
    /\ w.point # "reject"

GaugePhases == {"Pending", "Running", "Succeeded", "Failed"}
NoSamples   == [p \in GaugePhases |-> 0]

(* Of the CRs of the API server, or of the informer's copies.              *)
Counts(objects) ==
    LET PhaseOf(o) == IF o.phase = "" THEN "Pending" ELSE o.phase
    IN  [p \in GaugePhases |->
            Cardinality({k \in CRs : objects[k] # None /\ PhaseOf(objects[k]) = p})]

-----------------------------------------------------------------------------

SetPhasesSeen(counts) ==        \* mutant: only the phases that some CR is in
    gauges' = [p \in GaugePhases |-> IF counts[p] = 0 THEN gauges[p] ELSE counts[p]]

SetImagePatchesByPhase(counts) == gauges' = counts

(* The aggregator's loop; a list that fails leaves the gauges as they are, *)
(* which is the tick that does not happen.                                 *)
Tick ==
    /\ SetImagePatchesByPhase(Counts(crCache))
    /\ UNCHANGED <<vars, owed>>

MeteredInit == Init /\ owed = [k \in CRs |-> 0] /\ gauges = NoSamples

(* A new process starts with no samples.                                   *)
MeteredNext ==
    \/ /\ RecordBuildResult
       /\ owed' = [owed EXCEPT ![w.key] = @ - 1]
       /\ UNCHANGED gauges
    \/ /\ \/ ReconcileStep
          \/ FailOpen \/ ClassifyFails \/ CallFails
          \/ Delivery \/ Builds \/ Users
       /\ owed' = [k \in CRs |-> IF EndsBuild(k) THEN owed[k] + 1 ELSE owed[k]]
       /\ UNCHANGED gauges
    \/ /\ Crash
       /\ gauges' = NoSamples
       /\ UNCHANGED owed
    \/ Tick

MeteredSpec == MeteredInit /\ [][MeteredNext]_meteredVars

(* The aggregator's ticker runs as long as the process does, and watches   *)
(* are retried.  Nothing is assumed of the worker or of the builds.        *)
MeteredFairSpec ==
    /\ MeteredSpec
    /\ \A k \in CRs : WF_vars(SyncCR(k))
    /\ WF_meteredVars(Tick)

-----------------------------------------------------------------------------

MeteredTypeOK ==
    TypeOK /\ owed \in [CRs -> Int] /\ gauges \in [GaugePhases -> Nat]

(* "Callers must only invoke this on the *transition* into a terminal      *)
(* phase ... so requeues never double-count" (metrics.go:141-143): no more *)
(* results than transitions.                                               *)
NeverDoubleCounts == \A k \in CRs : owed[k] >= 0

(* And which results go missing: "incremented once per terminal            *)
(* transition" (docs/design/metrics.md:89) is kept through conflicts and   *)
(* calls that fail.  But the counter is incremented after the update: a    *)
(* result is lost when the process dies between the two, and when the      *)
(* answer of an update that was done is lost, for the retry sees no change *)
(* of phase.  Each such event loses one result at most, and nothing else   *)
(* loses any.                                                              *)
Spent(e) == Limits[e] - left[e]

NoResultLost ==
    \A k \in CRs :
        owed[k] <= Spent("crash") + Spent("lost")
                     + (IF At("record") /\ w.key = k THEN 1 ELSE 0)

(* The gauges settle on the CRs there are, through lagging caches and      *)
(* restarts: a phase that no CR is in any more "doesn't keep stale         *)
(* samples" (metrics.go:239-241), although no reconcile tells.             *)
GaugesSettle == <>[](gauges = Counts(cr))
=============================================================================
