-------------------------- MODULE ReconcileProperties --------------------------
(* What the reconciler promises, over ImagePatchController.                *)
EXTENDS ImagePatchController

Exists(k)   == cr[k] # None
Live(k)     == Exists(k) /\ ~cr[k].deleting
Terminal(k) == Exists(k) /\ cr[k].phase \in {"Succeeded", "Failed"}
InPhase(k, p) == Exists(k) /\ cr[k].phase = p

OwnJob(k) == job[NameOf[k]] # None /\ job[NameOf[k]].src = k
JobIs(k, state) == job[NameOf[k]] # None /\ job[NameOf[k]].state = state

-----------------------------------------------------------------------------
(* Safety of clean-up and of concurrent writers.                           *)

(* "never create a Job that we won't later be able to clean up"            *)
(* (imagepatch_controller.go:153-154): the CR whose source labels a Job,   *)
(* a ConfigMap or a Secret bears exists and still holds the finalizer,     *)
(* whatever crashes, failed calls and stale caches did on the way.         *)
NoOrphanedResources ==
    \A n \in Names : \A o \in {job[n], cm[n], secret[n]} :
        o # None => Exists(o.src) /\ cr[o.src].finalizer

(* The updates of a reconcile never undo what a user did to the CR in the  *)
(* meantime: an edit of the spec changes it until the next edit, and a     *)
(* deletion goes on to the removal of the CR.                              *)
UserWritesSurvive ==
    [][\A k \in CRs : Exists(k) /\ cr'[k] # None =>
          /\ cr'[k].spec # cr[k].spec => left'["edit"] < left["edit"]
          /\ cr[k].deleting => cr'[k].deleting]_vars

(* status.jobName of a live CR names a Job that exists and was created for *)
(* this CR: its Job outlives every failure until the CR is deleted.        *)
StatusNamesOwnJob ==
    \A k \in CRs : Live(k) /\ cr[k].jobName => OwnJob(k)

(* "each ImagePatch gets its own auth and cleanup follows the CR"          *)
(* (imagepatch_controller.go:648-649): while a Job of a live CR mounts the *)
(* synthesized Secret, that Secret is there and is this CR's.              *)
AuthFollowsTheCR ==
    \A n \in Names :
        job[n] # None /\ job[n].auth /\ Live(job[n].src) =>
            secret[n] # None /\ secret[n].src = job[n].src

(* "let the resulting watch event drive the next reconcile pass"           *)
(* (imagepatch_controller.go:172-173), every error backs off, and a Job in *)
(* another namespace, which wakes nobody, is polled: while a CR waits for  *)
(* its removal or for a terminal phase, its key is queued, or a timer, a   *)
(* watch event or the reconcile in progress will see to it.                *)
Attended(k) == k \in queue \cup timers \cup crLag \/ (~At("idle") /\ w.key = k)

NobodyForgotten ==
    \A k \in CRs : Exists(k) /\ ~Attended(k) => Live(k) /\ Terminal(k)

(* "Requeue at a fixed cadence to poll the build"                          *)
(* (imagepatch_controller.go:309-311): while the Job of a CR is in         *)
(* progress, or the phase does not say yet how it ended, the CR will be    *)
(* looked at again.  A dedup hit answers instead of the Job, and so does   *)
(* the inspection that rejects the spec.                                   *)
Answered(k) ==
    \/ JobIs(k, "succeeded") /\ InPhase(k, "Succeeded")
    \/ JobIs(k, "failed") /\ InPhase(k, "Failed")
    \/ cr[k].hit # None /\ InPhase(k, "Succeeded")
    \/ cr[k].spec \in Mismatch /\ InPhase(k, "Failed")

NoBuildForgotten ==
    \A k \in CRs : Live(k) /\ OwnJob(k) /\ ~Attended(k) => Answered(k)

-----------------------------------------------------------------------------
(* What a terminal status says.                                            *)

(* A CR that reports Succeeded and an image has an image to show: the      *)
(* registry serves, under that reference, the content its spec asks for.   *)
SucceededIsPublished ==
    \A k \in CRs : InPhase(k, "Succeeded") /\ cr[k].image # None =>
        registry[cr[k].image] = Image[cr[k].spec]

(* A dedup tag only ever names the content it is the hash of, whichever    *)
(* CR's build pushed it: what makes a retag as good as a build.            *)
DedupTagContent ==
    \A s \in Specs : registry[DedupRef[s]] \in {None, Image[s]}

(* disableBuildCache makes "a true bypass that does not pollute the dedup  *)
(* cache" (imagepatch_controller.go:251-254): nothing is pushed under the  *)
(* hash of a spec that sets it, unless a spec that does not has that hash. *)
BypassLeavesNoTag ==
    \A s \in Bypass :
        (\A t \in Specs \ Bypass : DedupRef[t] # DedupRef[s])
            => registry[DedupRef[s]] = None

(* A label that names a cause is not replaced by the catch-all label once  *)
(* the Pod and its log are gone (imagepatch_controller.go:352-361).        *)
NoSilentDowngrade ==
    [][\A k \in CRs :
          InPhase(k, "Failed") /\ cr[k].message \in FailureLabels /\ cr'[k] # None
            => \/ cr'[k].message = cr[k].message
               \/ cr'[k].message # "ControllerInternalError"]_vars

(* status.image says what a Succeeded CR built                             *)
(* (docs/design/metrics.md, label "image").                                *)
SucceededHasImage ==
    \A k \in CRs : InPhase(k, "Succeeded") => cr[k].image # None

(* The label of the log of the build of what CR k asks for, while the log  *)
(* is there.                                                               *)
OwnBuild(k) == OwnJob(k) /\ job[NameOf[k]].spec = cr[k].spec

OwnLog(k) ==
    IF OwnBuild(k) /\ pod[NameOf[k]]["job"] # None THEN pod[NameOf[k]]["job"].log
    ELSE None

BuildFails(k) == InPhase(k, "Running") /\ cr'[k] # None /\ cr'[k].phase = "Failed"

(* "false positives here either mis-blame the user for our outages or tell *)
(* our ops team to ignore something" (classify.go:39-40): when a build     *)
(* fails, its CR gets the label of the log of this build's own Pod, while  *)
(* that log is there, and no label of an attempt before it.                *)
LabelNamesOwnFailure ==
    [][\A k \in CRs :
          BuildFails(k) /\ OwnLog(k) # None => cr'[k].message = OwnLog(k)]_vars

-----------------------------------------------------------------------------
(* Progress, under FairSpec.                                               *)

(* Every CR that is not deleted first reaches a terminal phase: the status *)
(* writes lost to conflicts, faults and crashes are made up for, and a     *)
(* build in another namespace is polled until it ends.                     *)
EveryPatchTerminates ==
    \A k \in CRs : Live(k) ~> (~Live(k) \/ Terminal(k))

(* The phase catches up with the outcome of the Job, unless a dedup hit    *)
(* has answered for a failed one, or the inspection rejects the spec of a  *)
(* succeeded one: it comes first in every reconcile.                       *)
OutcomeIsReported ==
    \A k \in CRs :
        /\ Live(k) /\ JobIs(k, "succeeded")
              ~> ~Live(k) \/ InPhase(k, "Succeeded") \/ cr[k].spec \in Mismatch
        /\ Live(k) /\ JobIs(k, "failed")
              ~> ~Live(k) \/ InPhase(k, "Failed") \/ cr[k].hit # None

(* A deleted CR does not hang on its finalizer, and leaves nothing behind. *)
DeletionCompletes ==
    \A k \in CRs : Exists(k) /\ cr[k].deleting ~> ~Exists(k)

(* The message an older controller left is replaced by a label             *)
(* (imagepatch_controller.go:376-383).                                     *)
LegacyIsBackfilled ==
    \A k \in Legacy : InPhase(k, "Failed") /\ cr[k].message = "Build failed"
        ~> (~Live(k) \/ cr[k].message \in FailureLabels)

-----------------------------------------------------------------------------
(* The reconciler implements BuildCleanup.                                 *)

HolderOf(objects, k) == \E n \in Names : Labelled(k, objects[n])

heldBar == [k \in CRs |-> {x \in {"job", "cm", "secret"} :
               \/ x = "job" /\ HolderOf(job, k)
               \/ x = "cm" /\ HolderOf(cm, k)
               \/ x = "secret" /\ HolderOf(secret, k)}]

guardedBar == {k \in CRs : Exists(k) /\ cr[k].finalizer}

Cleanup == INSTANCE BuildCleanup WITH
    Kinds <- {"job", "cm", "secret"}, guarded <- guardedBar, held <- heldBar

(* Every step of the reconciler, of the cluster and of the users is a step *)
(* of the clean-up protocol or leaves it alone.                            *)
ImplementsCleanup == Cleanup!CleanupSpec
=============================================================================
