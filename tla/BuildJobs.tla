------------------------------ MODULE BuildJobs ------------------------------
(***************************************************************************)
(* The build namespace: the Job, ConfigMap and auth Secret the controller  *)
(* creates for an ImagePatch, the Pods that Kubernetes runs for the Job,   *)
(* and the registry those Pods push to.                                    *)
(*                                                                         *)
(* The three objects are named after the CR's name alone                   *)
(* (imagepatch_controller.go:144-145, 656) and all live in one namespace,  *)
(* so they are indexed by Names, not by CRs.  Job controller, kubelet and  *)
(* kaniko are not in the repository: their actions are modelled from what  *)
(* constructJob asks of them and from what the reconciler reads back.      *)
(***************************************************************************)
EXTENDS Naturals

CONSTANTS
    CRs,        \* ImagePatch identities, i.e. namespace/name pairs
    Names,      \* metadata.name values
    NameOf,     \* NameOf[k]: the name of CR k; CRs of two namespaces may share it
    Specs,      \* ImagePatch specs
    Target,     \* Target[s]: resolveDestination of s
    DedupRef,   \* DedupRef[s]: computeDedupRef of s
    Image,      \* Image[s]: the image the Dockerfile of s builds
    OwnAuth,    \* specs naming a pushSecret or a pullSecret
    Causes,     \* failure labels the logs of a failed build Pod may classify to
    None        \* "no such object"

VARIABLES job, cm, secret, pod, registry

buildVars == <<job, cm, secret, pod, registry>>

-----------------------------------------------------------------------------

FailureLabels == {"InvalidImage", "NetworkError", "ImageOSNotSupported",
                  "ControllerInternalError"}

Images == {Image[s] : s \in Specs}
Refs   == {Target[s] : s \in Specs} \cup {DedupRef[s] : s \in Specs}
Slots  == {"job", "orphan"}   \* Pod of the present Job, Pod of a deleted one

Jobs == [src: CRs, spec: Specs, auth: BOOLEAN, dedup: BOOLEAN,
         state: {"pending", "active", "succeeded", "failed"}]

Files == [src: CRs, spec: Specs]     \* a ConfigMap or an auth Secret

Pods == [spec: Specs, auth: BOOLEAN, dedup: BOOLEAN,
         mounted: Specs \cup {None},
         stage: {"waiting", "running", "pushed", "done", "failed"},
         log: Causes \cup {None}]

ASSUME NamesAssumption ==
    /\ NameOf \in [CRs -> Names]
    /\ OwnAuth \subseteq Specs
    /\ Causes \subseteq FailureLabels

ASSUME RefsAssumption ==
    /\ DOMAIN Target = Specs
    /\ DOMAIN DedupRef = Specs
    /\ DOMAIN Image = Specs
    /\ \A s, t \in Specs : Target[s] # DedupRef[t]

ASSUME NoneAssumption ==
    /\ None \notin CRs \cup Specs \cup Refs \cup Images \cup Causes
    /\ None \notin Jobs
    /\ None \notin Files
    /\ None \notin Pods

BuildTypeOK ==
    /\ job \in [Names -> Jobs \cup {None}]
    /\ cm \in [Names -> Files \cup {None}]
    /\ secret \in [Names -> Files \cup {None}]
    /\ pod \in [Names -> [Slots -> Pods \cup {None}]]
    /\ registry \in [Refs -> Images \cup {None}]

-----------------------------------------------------------------------------
(* Job controller, kubelet and kaniko.                                     *)

(* The Job controller starts the Job's only Pod (backoffLimit 0).          *)
PodStarts(n) ==
    /\ job[n] # None
    /\ job[n].state = "pending"
    /\ job' = [job EXCEPT ![n].state = "active"]
    /\ pod' = [pod EXCEPT ![n]["job"] =
                [spec |-> job[n].spec, auth |-> job[n].auth,
                 dedup |-> job[n].dedup, mounted |-> None,
                 stage |-> "waiting", log |-> None]]
    /\ UNCHANGED <<cm, secret, registry>>

(* The kubelet mounts the ConfigMap, and the auth Secret, that bear the    *)
(* expected names at this moment; the container waits until they exist.    *)
PodMounts(n, g) ==
    /\ pod[n][g] # None
    /\ pod[n][g].stage = "waiting"
    /\ cm[n] # None
    /\ pod[n][g].auth => secret[n] # None
    /\ pod' = [pod EXCEPT ![n][g].stage = "running",
                          ![n][g].mounted = cm[n].spec]
    /\ UNCHANGED <<job, cm, secret, registry>>

(* kaniko has built the mounted Dockerfile and pushes the first            *)
(* --destination.                                                          *)
PodPushes(n, g) ==
    /\ pod[n][g] # None
    /\ pod[n][g].stage = "running"
    /\ registry' = [registry EXCEPT ![Target[pod[n][g].spec]] =
                                        Image[pod[n][g].mounted]]
    /\ pod' = [pod EXCEPT ![n][g].stage = "pushed"]
    /\ UNCHANGED <<job, cm, secret>>

(* kaniko pushes the second --destination, if it was given one, and exits  *)
(* 0; the Job controller counts the success.                               *)
PodSucceeds(n, g) ==
    /\ pod[n][g] # None
    /\ pod[n][g].stage = "pushed"
    /\ registry' = IF pod[n][g].dedup
                   THEN [registry EXCEPT ![DedupRef[pod[n][g].spec]] =
                                             Image[pod[n][g].mounted]]
                   ELSE registry
    /\ pod' = [pod EXCEPT ![n][g].stage = "done"]
    /\ job' = IF g = "job" THEN [job EXCEPT ![n].state = "succeeded"] ELSE job
    /\ UNCHANGED <<cm, secret>>

(* The build fails at any point before that, leaving in its log evidence   *)
(* that classifyLogTail maps to label c.                                   *)
PodFails(n, g, c) ==
    /\ pod[n][g] # None
    /\ pod[n][g].stage \in {"waiting", "running", "pushed"}
    /\ pod' = [pod EXCEPT ![n][g].stage = "failed", ![n][g].log = c]
    /\ job' = IF g = "job" THEN [job EXCEPT ![n].state = "failed"] ELSE job
    /\ UNCHANGED <<cm, secret, registry>>

(* Garbage collection: a Pod of a deleted Job at any time, the Pod of a    *)
(* Job once it has failed; its log is gone with it.                        *)
PodCollected(n, g) ==
    /\ pod[n][g] # None
    /\ g = "orphan" \/ pod[n][g].stage = "failed"
    /\ pod' = [pod EXCEPT ![n][g] = None]
    /\ UNCHANGED <<job, cm, secret, registry>>

BuildNext ==
    \E n \in Names :
        \/ PodStarts(n)
        \/ \E g \in Slots :
              \/ PodMounts(n, g)
              \/ PodPushes(n, g)
              \/ PodSucceeds(n, g)
              \/ \E c \in Causes : PodFails(n, g, c)
              \/ PodCollected(n, g)

(* A scheduled build runs to its end: nothing is assumed about failures    *)
(* and garbage collection.                                                 *)
BuildFairness ==
    \A n \in Names :
        /\ WF_buildVars(PodStarts(n))
        /\ WF_buildVars(PodMounts(n, "job"))
        /\ WF_buildVars(PodPushes(n, "job"))
        /\ WF_buildVars(PodSucceeds(n, "job"))

-----------------------------------------------------------------------------
(* What the controller does in the build namespace.                        *)

(* createOrUpdateConfigMap, createOrUpdateAuthSecret: an object that is    *)
(* already there gets new data and keeps its source labels.                *)
Applied(file, k, s) ==
    IF file = None THEN [src |-> k, spec |-> s] ELSE [file EXCEPT !.spec = s]

ConstructJob(k, s, dedup) ==
    [src |-> k, spec |-> s, auth |-> s \in OwnAuth, dedup |-> dedup,
     state |-> "pending"]

(* DeleteAllOf by the source labels of k: every object that bears them.    *)
Kept(k, o) == IF o # None /\ o.src = k THEN None ELSE o
Labelled(k, o) == o # None /\ o.src = k

(* Background propagation: the Pod of a deleted Job outlives it.           *)
Orphaned(pods) ==
    IF pods["job"] = None THEN pods
    ELSE [pods EXCEPT !["job"] = None, !["orphan"] = pods["job"]]

(* classifyBuildFailure: the label of the newest Pod that carries the      *)
(* Job's name, or ControllerInternalError without such a Pod or its log.   *)
(* A Pod that has not failed offers no evidence either.                    *)
NewestPod(n) == IF pod[n]["job"] # None THEN pod[n]["job"] ELSE pod[n]["orphan"]

Classify(n) ==
    IF NewestPod(n) # None /\ NewestPod(n).log # None
    THEN NewestPod(n).log
    ELSE "ControllerInternalError"
=============================================================================
