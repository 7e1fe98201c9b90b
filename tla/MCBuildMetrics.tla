---------------------------- MODULE MCBuildMetrics ----------------------------
(* Small instances of BuildMetrics.                                        *)
EXTENDS BuildMetrics, TLC

MCNameOf  == [k \in CRs |-> k[2]]
NamesUsed == {k[2] : k \in CRs}
OneCR     == {<<"a", "web">>}

(* arm64 has no linux/amd64 variant. *)
MCTarget   == [s \in Specs |-> "web:1"]
MCDedupRef == [s \in Specs |-> "dedup-1"]
MCImage    == [s \in Specs |-> "img"]
MCMismatch == Specs \cap {"arm64"}
AnySpec    == [k \in CRs |-> Specs]

MetricsBounds == [create |-> 1, delete |-> 1, edit |-> 0, touch |-> 0,
                  fault |-> 0, lost |-> 1, crash |-> 1]
RepeatBounds  == [create |-> 1, delete |-> 0, edit |-> 0, touch |-> 0,
                  fault |-> 0, lost |-> 0, crash |-> 0]
=============================================================================
