# image-patcher in TLA+

image-patcher is a Kubernetes controller: a user creates an `ImagePatch` in any
namespace, the controller turns it into a Dockerfile and a kaniko Job in one
fixed build namespace, follows the Job, and reports the outcome in the CR's
status.  This directory holds TLA+ modules of the controller and of what it
talks to, TLC configurations that check them on small instances, and theorems
that TLAPS proves for every instance.

## The system

| part | state | operations | properties that make it correct |
|---|---|---|---|
| reconciler (`internal/controller/imagepatch_controller.go`) | none of its own: the CR's status and finalizer, informer caches, the work queue | `Reconcile`, `handleExistingJob`, `tryDedupShortCircuit`, `cleanupBuildResources` | nothing is left behind, no user write is undone, every CR ends in a phase that agrees with its Job |
| build namespace | Job, ConfigMap and auth Secret, all named after the CR's name; the Job's Pods | created and rewritten by the reconciler, run by Kubernetes | the objects of a CR are its own and are there while its Job needs them |
| registry (`internal/registry`) | tags | kaniko's two pushes; `Exists`, `Retag`, `RejectIfPlatformMismatch` | a dedup tag names the content it is the hash of; a success shows an image |
| classification (`classify.go`) | the label in `status.message` | choice of the Pod, log patterns, stickiness | a label blames the right failure and is not downgraded |
| metrics (`internal/metrics`) | counters, phase gauges | `RecordBuildResult`, `PhaseAggregator` | no result counted twice, and none lost but to a crash or a lost answer; gauges that settle on the CRs there are; labels that name the registry pushed to |
| image references, spec hash, Dockerfile, credentials, build options | pure functions | `resolveDestination`, `computeDedupRef`, `ComputeSpecHash`, `generateDockerfile`, `mergeDockerConfigs`, environment parsers | equal hashes mean equal images; every tag of a build can be pushed; the accounts the CR names are the ones kaniko uses; nothing buildable is rejected |
| manager (`cmd/main.go`) | leader lease | start, leader hand-over | caches are listed before the first reconcile; one active controller |
| healthcheck CronJob (chart) | canary CRs | creates CRs, annotates them every five seconds, reads their status | its annotation never makes the controller lose a write |

How they interact: users and the probe write CRs through the API server; the
informers deliver CRs and Jobs to the controller's caches later, and enqueue
the CR (of a Job, ConfigMap or Secret only through its owner reference, which
exists only for CRs in the build namespace); the single worker takes a key,
reads the caches, calls the API server and the registry one call at a time, and
returns an error (back-off), a `RequeueAfter` (15 s) or neither.

What is hard here: everything the worker decides on may be stale; each call may
fail after its predecessors took effect; the process may die between any two;
users edit, delete and recreate CRs meanwhile; the names of the build objects
say nothing about whose they are; outside the build namespace only polling
reports the end of a Job; and the Pod of a deleted Job goes on for a while.
`PROJECT.json` lists these hazards one by one, each at its line, with the
properties that watch it.

## Modules

| module | models | extends |
|---|---|---|
| `BuildJobs` | the build namespace, the Pods' life, kaniko's pushes, the registry; the controller's operations on them as operators | |
| `ImagePatchController` | the reconciler, its caches, queue and timers, crashes, failed calls, users | `BuildJobs` |
| `ReconcileProperties` | every property of the reconciler, and its refinement mapping | `ImagePatchController` |
| `BuildMetrics` | the reconciler with the count of recorded build results and the phase gauges | `ReconcileProperties` |
| `BuildCleanup` | abstract specification of the finalizer protocol | |
| `PatchDockerfile` | the spec hash and the Dockerfile, as operators of a spec | |
| `ImageRefs` | `resolveDestination`, `computeDedupRef`, `SplitImageRef`, and go-containerregistry's reading of a reference | |
| `RegistryAuth` | Secrets, their merge, and the account a docker config means for an image | `ImageRefs`, `PatchDockerfile` |
| `KanikoJob` | build options, registry map, destinations: the arguments of the Job | `RegistryAuth` |
| `KanikoSteps` | what kaniko does with one instruction | `KanikoJob` |
| `BuildLog` | `classifyLogTail` | |
| `DockerBuild` | inspection, builds, instruction by instruction, their logs and labels, and the image kept under the hash | `KanikoSteps`, `BuildLog` |
| `ControllerTypes`, `CleanupProofs`, `CleanupRefinement`, `StatusProofs`, `PublishProofs` | theorems about the reconciler | `ReconcileProperties` |
| `MetricsProofs` | theorems about the count of results | `BuildMetrics` |
| `DockerfileProofs` | theorems about the hash and the layout of the Dockerfile, and where two Dockerfiles of one spec differ | `PatchDockerfile` |
| `DockerBuildProofs` | theorems about builds | `DockerBuild`, `DockerfileProofs` |
| `MCImagePatchController`, `MCBuildMetrics`, `MCDockerBuild` | values of the constants for TLC | |

The reconciler's modules take a spec as an opaque value with a given image and
dedup tag; `DockerBuild` looks into the spec and checks that this is sound: that
the image depends on nothing but what the tag is the hash of, that target and
dedup tag are tags of one repository, that `Mismatch` holds of nothing that could
be built, and that a log means what `Causes` says.

### State

* `cr[k]`: the CR at the API server (`None`: it does not exist).  Of its status
  the model keeps phase, message, whether `jobName` is set, `image`, and
  `hit` for `specHash` and `dedupHit`, which are always set together.
* `crCache[k]`, `crLag`: the informer's copy, and whether a newer version is on
  its way.  The flag is not the same as "the copies differ": an annotation makes
  a new version that looks the same to the reconciler and still makes the next
  update conflict.  An informer may skip versions but never goes back, so one
  flag for each CR is enough.
* `jobCache[n]`: the informer's copy of a Job.
* `queue`, `timers`: the work queue is a set because controller-runtime's queue
  merges equal keys; `timers` holds the keys that wait for `RequeueAfter` or for
  a back-off.  How long they wait is abstracted: a timer may fire at any time.
* `w`: the reconcile in progress: the point it has reached, the key, the copy of
  the CR, and whether that copy is still the server's version (`w.fresh`).
* `job`, `cm`, `secret` by name, with `src` for the source labels; `pod[n]` has
  two slots, the Pod of the present Job and one orphan of an earlier Job;
  `registry[ref]` is the content of a tag.
* `left[e]`: how many events of kind `e` (creations, deletions, edits,
  annotations, faults, crashes) the environment may still cause.

### Actions

Each action of `ImagePatchController` is the code from one point where another
actor can interleave (a cache read, an API or registry call) to the next.
`Fetch` is the head of `Reconcile` up to its first call; `AddFinalizer`,
`DeleteJobs`, `DeleteConfigMaps`, `DeleteSecrets`, `RemoveFinalizer`, `Inspect`,
`Reject`, `GetJob` (with all of `handleExistingJob` up to its update),
`WriteObserved`, `ApplyConfigMap`, `ApplyAuthSecret`, `DedupHead`, `RetagGet`,
`RetagPut`, `WriteDedupHit`, `CreateJob` and `WriteRunning` are one call each
with the code after it.  `Update` is every `Update` and `Status().Update` of the
CR: it takes effect when the copy is fresh and returns a conflict otherwise.
An update that took effect may still return an error, because its answer is lost:
the reconcile then ends at once, and what the code does after it is not done (an
event `lost`).  `CallFails` is any other API call that returns an error; one that
took effect and whose answer was lost is the call followed by a `CallFails` at the
next point, before which the code changes nothing more.
`ClassifyFails` is a failed Job whose Pods cannot be listed or whose log cannot be
read for a moment: the catch-all label is written then, and kept like any other.
`FailOpen` is a registry call of the dedup path that fails, a PUT that was done
included.  `DedupEnabled` is the cluster's switch and `RegistryClient` whether the
manager was given a client: without one it looks nothing up, but its Jobs still push
the dedup tag.  `Crash` is the end
of the process and the start of its successor, whose caches are listed afresh
and which enqueues every CR.

Create-or-update of the ConfigMap and of the Secret is one action: nobody else
writes these objects, so nothing can come between its calls but a fault.

The Pod actions (`PodStarts` to `PodCollected`) are external: what Kubernetes
and kaniko do with a Job like the one `constructJob` builds (`backoffLimit` 0,
ConfigMap and Secret volumes by name, one or two `--destination`s).  A volume is
mounted from the object that has its name at that moment.

`DockerBuild` models one build after the other.  `RejectBuild` is the inspection
that finds no `linux/amd64`, with the account of the pull Secret and only if the
registry answers; `CreateBuild` is the rest of a reconcile that ends with a Job
(`JobOf`) and a Dockerfile, with any order of its ENV map and any mirrors;
`Execute` is kaniko performing the next instruction on `img`, between its check
that it may push and its pushes; `CommandFails` is a RUN that fails by itself, of
the network, or with exit code 42; `Finish` keeps a successful build under its
dedup tag (`stored`).  What an instruction does is external and kept to what the
generator's comments rely on: who runs a command, which users and groups exist,
what `$NAME` in an ENV value expands to, which account reaches which registry,
directly or through a mirror, which layers and files the image ends up with.  A
package is the same on every mirror.

Data are abstracted to what the code looks at.  A reference is the sequence of
its words and separators, because the code cuts it at them.  A log is the set of
the classifier's phrases in its tail: each instruction adds what retries write
(`Noise`), the command that kaniko repeats (`Echo`) and what a failure writes
(`PhrasesOf`), and the tail may forget what came earlier but not how the build
ended.  The docker config of a Secret maps registries to accounts.

In `BuildMetrics`, `owed[k]` counts the builds whose end (or whose dedup hit)
became the phase of `k`, less the results recorded for it.  The rejection by the
inspection (lines 202-208) also makes the phase `Failed`, but no build ended, and
the code records nothing: it is not counted.  `Tick` is the aggregator's loop, which sets
`gauges` from the informer's cache; a crash empties them.

Abstractions of data: a spec is a model value; `Target`, `DedupRef` and `Image`
give what `resolveDestination`, `computeDedupRef` and the Dockerfile make of it.
Two specs have one `DedupRef` when their hashes and repositories agree.

## Runs

All runs check small instances completely.  One CR (with its name reused after
deletion) is enough for the races between a reconcile and its user; CRs of
different names share nothing but registry tags.  CRs of one name in two namespaces
share all build objects: the one run that has such CRs, `auth_shared`, shows a
violation, and the theorems say which properties hold for them nevertheless
(`OrphanFree`, `UserWritesKept`, `NobodyIsForgotten`, the refinement).  `left` bounds
the environment: one crash and one fault, at any point, suffice to interrupt each
sequence of calls once, and a second creation to meet what the first left behind.

| run | instance | shows |
|---|---|---|
| `recreate` | one CR, dedup; 2 creations, 2 deletions, 1 fault, 1 crash (1.2 million states) | `TypeOK`; `NoOrphanedResources`; `NobodyForgotten`, `NoBuildForgotten`; `SucceededIsPublished`; `UserWritesSurvive`; the refinement `ImplementsCleanup` |
| `edit` | one CR, three specs: one deduplicated, one that bypasses the cache and has credentials, one the inspection rejects; 1 creation, 1 edit, 1 deletion, 1 lost answer, 1 crash (840 000 states) | `AuthFollowsTheCR`, `BypassLeavesNoTag`, `NoBuildForgotten`, `StatusNamesOwnJob`, `UserWritesSurvive` |
| `progress` | one CR left by an older release, deleted and created again; dedup; 1 annotation, 1 fault; `FairSpec` (130 000 states) | `EveryPatchTerminates`, `OutcomeIsReported`, `DeletionCompletes`, `LegacyIsBackfilled`, `NoSilentDowngrade` |
| `metrics` | one CR in the build namespace, left by an older release, no registry client, one spec of two is one the inspection rejects; 1 creation, 1 deletion, 1 lost answer, 1 crash; `MeteredFairSpec` (530 000 states) | `NeverDoubleCounts`, `NoResultLost`, `GaugesSettle` |
| `hit_recounted` | one CR whose content is in the registry | `NeverDoubleCounts` violated: every reconcile of a dedup hit records it again |
| `label_kept` | one CR of a spec the inspection rejects, then edited; no dedup | `LabelNamesOwnFailure` violated: the build of the corrected spec fails with `NetworkError` and the CR keeps `ImageOSNotSupported` |
| `image_lost` | one CR, 1 annotation | `SucceededHasImage` violated: the update that was lost is never made up for |
| `dockerfile` | builds in a row of 226 specs: 48 of users, shell steps and `runAsUser` on two bases, 24 of bases that cannot be patched and of steps that look like errors, 4 that use every other field, 8 of these with options and targets of their own, 140 of Secrets, given targets and bases in all combinations, 2 with a base and a target on Docker Hub by its name; Docker Hub reached through a mirror only | `TypeOK`, `SameHashSameImage`, `SystemStepsPermitted`, `UnsupportedBaseIsNamed`, `RunsAsRequested`, `NobodyIsMisblamed`, `RejectedIsUnbuildable`, `CredentialsReachKaniko`, `TargetsAreTags`, `MirrorsAreUsed`, `LabelNamesTheRegistry` |
| `port_base` | two specs without a target, one of them on a base image without a tag on a registry with a port | `TargetsAreTags` violated: the port is taken for the tag, and what is derived from the rest is no reference |
| `env_order` | one spec with `HOME` and `BIN=$HOME/bin` | `SameHashSameImage` violated: the order of a Go map decides the value of `BIN` |
| `auth_shared` | CRs of one name in two namespaces; no deletion | `AuthFollowsTheCR` violated: the second CR puts its credentials into the first one's Secret |
| `tag_poisoned` | one CR, edited | `DedupTagContent` violated: the Job of the old spec builds the new ConfigMap |

Deadlock is checked in `dockerfile`, `port_base` and `env_order`, and not in the runs
of the reconciler: when the budgets are used up and every CR is terminal or gone,
the system has nothing to do.

Four properties hold in one run and fail in another: `AuthFollowsTheCR` holds as long
as no two CRs share a name, `NeverDoubleCounts` as long as no dedup hit is possible,
`TargetsAreTags` unless a target is derived from a base image with a port and no tag,
and `SameHashSameImage` as long as no ENV value refers to another variable of the
spec.

What some properties say, and what they leave open:

* `NoResultLost` counts what the code loses.  `docs/design/metrics.md:89` promises a
  counter that is "incremented once per terminal transition".  The counter is
  incremented after the status update, and only if the update was answered: a crash
  between the two loses the result, and so does an update that was done and returned
  an error (lines 389-393), because the retry sees no change of phase.  The property
  says that each such event loses at most one result and that nothing else loses any.
  The run has no failing calls (`fault` is 0); that they lose none is theorem
  `NoneLost`.
* `SucceededIsPublished` is about CRs that show an image.  A CR can be `Succeeded`
  without one, and its target unpublished: run `image_lost` shows one way, and a CR
  that finds its namesake's Job (`GetJob` at line 212 goes by the name alone) and
  follows it is another.
* `UnsupportedBaseIsNamed` leaves one case out: an index without `linux/amd64` that
  the inspection could not read.  The inspection would have named it; kaniko then finds
  no image to pull, and no pattern of the classifier fits (`inspect.go:50-54` leaves
  the label to the classifier).
* `NobodyIsMisblamed` is about specs whose commands neither contain the classifier's
  keywords (kaniko repeats each command in the log) nor can exit with 42.  The code
  takes a user's `exit 42` for its own check of the base image, although
  `classify.go:72-75` says that the marker "can only have come from the guard".  The
  second half of `UnsupportedBaseIsNamed` also covers specs with such commands.
* `SameHashSameImage` also fails for specs that differ in an `ignorePaths` entry that
  is in the image, which the hash does not see, against `spec_hash.go:33-34`.  The
  specs of `dockerfile` all have the same entry, the environment's, and theorem
  `SameHashMakesSameImage` has this as a hypothesis.
* `CredentialsReachKaniko` lets a pull Secret that names the target's registry take
  the place of the push Secret.
* `LabelNamesTheRegistry` is about the reference that status.image gets when the
  update after the Job's creation is done.  Where it never is (run `image_lost`),
  `SplitImageRef` is called with the empty string and the label is `docker.io`.  The
  label `build_layer_cache_hit`, which is read from the CR as it is at the end, is not
  modelled.
* `TargetsAreTags` also fails for a target derived from a base image with a digest.
  A given `targetImage` without a tag is allowed: it is a reference, and the build
  has no dedup tag then, although a comment (lines 1402-1403) takes this for
  unreachable.
* `label_kept` is about the message alone; `dedupHit` and `specHash` also stay from
  an earlier hit when a CR is built again.  A label that `ClassifyFails` wrote stays
  too, as `classify.go:81-94` has it.

### Fairness

`FairSpec` assumes that the worker takes its next step (`WF(Reconcile)`), that
every key that is enqueued again and again is taken (`SF(Fetch(k))`: the queue
is first-in first-out), that informers deliver and timers fire, and that a
started build ends (`BuildFairness`: the Job controller creates the Pod, the
kubelet mounts its volumes once they exist, kaniko pushes).  Nothing is assumed
of users, faults, crashes, failures of builds and garbage collection.  That a
build ends is an assumption on Kubernetes and kaniko, which the code does not
enforce: the Job has no deadline.  `MeteredFairSpec` assumes only that the
informer delivers and that the aggregator's ticker runs, which it does as long as
the process does.

## Proofs

`ControllerTypes` proves `TypeCorrect`, that is `Spec => []TypeOK`.  `TypeOK` is
not inductive: a Pod that ends changes the state of its Job, so there must be
one (`PodShape`), and the worker's key and copy are not `None` while it is at
work (`WorkerShape`).  `Types` is the conjunction, and `TypesHold` its
invariance.

`CleanupProofs` proves `OrphanFree`, that is `Spec => []NoOrphanedResources`.  A
Job is created on behalf of the worker's copy of the CR, which was read from a
cache.  The inductive invariant `CleanupInv` bounds how far these may be from
the server's CR:

* `CacheCurrent`: the cached copy of a CR that does not lag is the server's.
* `CacheKeepsFinalizer`: while the cache shows a CR alive and with the
  finalizer, the server's CR exists and has it, however much the cache lags:
  only a reconcile that saw a deletion removes the finalizer.
* `CopyCurrent`: a fresh copy is current, apart from the status it is about to
  write.
* `BuildsGuarded`: while the worker is at a point of the build path, its CR
  exists and has the finalizer: it cannot lose it, the worker that could remove
  it is busy.
* `CleansInOrder`: at each point of the clean-up the kinds before it are gone.

`NobodyIsForgotten` (`NobodyForgotten`) is the safety half of `EveryPatchTerminates`
and `DeletionCompletes`: whatever was stale, failed, conflicted or crashed, a CR that
is not terminal, or is being deleted, is queued, on a timer, in the worker's hands,
or an event about it is due.  The hard case is a reconcile that ends because its copy
showed nothing to do.  `WakeInv` adds what is then known: the event that a stale copy
lacks is due, or has queued the key while the worker had it (`StaleCopyWakes`); a
fresh copy that was not written is the server's (`CopyUntouched`), and one about to
be written has a terminal phase unless the reconcile will poll (`CopyAnswers`); a CR
that is being deleted still has the finalizer (`DeletedIsGuarded`).

`NoBuildIsForgotten` (`NoBuildForgotten`) is that of `OutcomeIsReported`: while the Job
of a live CR is in progress, or the phase does not say yet how it ended, the CR will
be looked at again; what may answer instead of the Job is a dedup hit, or the
inspection's rejection.  The worker stops to look when the cache shows that the Job
has ended.  `EndInv` says why that is enough: such a Job has ended on the server, in
the same way (`EndSeen`), because its only Pod has (`EndIsFinal`), and because the
cache does not show a Job that an earlier CR of the name left: a Job is only created
after the cache has shown that there is none (`NoneSeen`).  `FollowInv` adds what the
worker's copy then tells of the Job (`CopyTells`).

`CleanupInv` also gives `UserWritesKept` (the worker's updates, of copies of
any age, undo no edit and no deletion) and, in `CleanupRefinement`,
`CleanupImplemented`: the reconciler implements `BuildCleanup` under the mapping
of `ReconcileProperties`.

`StatusProofs` proves three invariants of the run `edit` and an action property of
`progress`:

* `JobNamed` (`StatusNamesOwnJob`).  Only the clean-up removes Jobs, and it may
  run for a CR that was deleted and created again, because the cache still shows
  the deletion.  `JobNameInv` adds that such a CR names no Job yet
  (`DeletedCopyNamesNone`, `CleanUpNamesNone`), that the Job is there when the
  worker is about to write its name (`RunningHasJob`), and that a fresh copy
  names no Job that the server's version does not (`CopyNamesKnown`).
* `BypassHolds` (`BypassLeavesNoTag`), if nothing was in the registry under a
  bypassing hash at the start.  `TagInv` follows the decision from the Job to its
  Pods.
* `AuthHolds` (`AuthFollowsTheCR`), if no two CRs share a name; run `auth_shared`
  shows that this is needed.  `AuthInv`: an object bears the labels of the CR it
  is named after, the Secret is written before the Job and goes after it.
* `LabelsKept` (`NoSilentDowngrade`).  The code compares the new label with that
  of its copy, which may be old; `MessageInv` says that a fresh copy has the
  server's message until the reconcile computes its own, and that from then on
  it holds the catch-all label only if the server's names no cause.  An update
  from a copy that is not fresh is a conflict.

`MetricsProofs` proves `CountedOnce` (`NeverDoubleCounts`) where no dedup hit is
possible (the switch is off, or there is no registry client), which run
`hit_recounted` shows to be needed, and `NoneLost` (`NoResultLost`) without
hypothesis.  `PhaseInv` says what phase the worker's copy shows where it is written: a
fresh copy is written with another phase than it was read with before a result is due,
so that at the point `record` one is owed (`CountInv`).  For `NoneLost`, an update that
ends a build either goes to `record` or spends a lost answer (`Endings`), and only the
recording and a crash leave that point (`RecordStays`).

`PublishProofs` proves `SuccessPublished` (`SucceededIsPublished`) under
`OneContent`: the specs that CRs of one name are given have one content, and so
have all specs of one target or of one hash.  Without it the property fails, as
the Job of an old spec or an orphan Pod may push another content.  Its invariant
has two halves.  `RegistryInv` is about the registry: tags hold the content they
stand for, Jobs, files and Pods hold specs asked for under their name, a Job that
a cache shows as succeeded has pushed, and cache and server never show two
different Jobs (`JobSeen`, with `NoneSeen`).  `ClaimInv` is about statuses: the image named in one
is in the registry or is the target of the CR's own Job, which is also true of the
worker's copy where it is about to be written (`CopyClaims`), and a CR that was
deleted and created again while the cache or the worker still has its deletion
shows none (`DeletedCopyNoImage`, `CleanUpNoImage`).  Under the same hypothesis
`DedupTagsSound` (`DedupTagContent`) says that a dedup tag only ever names the
content it is the hash of; run `tag_poisoned` shows that an edit breaks it.

`DockerfileProofs` is about the generator alone.  `HashDeterminesDockerfile`:
specs of one hash have the same possible ENV orders and, for the same order and
the same mirrors, the same Dockerfile.  `DockerfileLayout`: whatever the lengths
of the spec's lists, a Dockerfile is its stages, the base image, `USER root` and
the check of the base image (`Laid`), then a body in which all that needs root
comes before any `USER` (`RootFirst`), and it ends, if there is a `runAsUser`,
with the look-up of that user and the switch to it (`EndsAs`).

`DockerBuildProofs` proves the invariants of run `dockerfile`, over any number of
builds of any specs, from one inductive invariant, `BuildInv`.  Its parts are
`IdleInv` (between two builds nothing is left of the first), `RunningInv` (the
Job is the spec's; the image failed only for what can fail, `FailsFor`, and after
a failure nothing is left to do), `ProgressInv` (the instructions left are the
rest of a program of the spec, and the image is one that those before them can
have made, `Made`: who the user is, who exists), `LogInv` (the log has the
phrases of the failure and no more than the build can have spoken) and
`StoredInv`.  `ProgressInv` is needed because `FailsFor` cannot be inductive by
itself: that no command lacks root is a matter of where in the program it stands,
which is `DockerfileLayout`.

| theorem | invariant | if |
|---|---|---|
| `DockerBuildTypeCorrect` | `TypeOK` | |
| `SystemStepsAreRoot` | `SystemStepsPermitted` | |
| `ImagesRunAsRequested` | `RunsAsRequested` | |
| `RejectionIsFinal` | `RejectedIsUnbuildable` | |
| `UnsupportedBasesAreNamed` | `UnsupportedBaseIsNamed` | an image that has a shell knows `root`; no command of a spec prints what the classifier takes for an unsupported image |
| `NobodyIsBlamedWrongly` | `NobodyIsMisblamed` | (the property is about specs whose commands neither contain keywords nor can exit with 42) |
| `MergedCredentialsReachKaniko` | `CredentialsReachKaniko` | the default Secret has the key that the Job mounts; no push Secret names the repository of a base image that the pull Secret opens by its registry |
| `MirrorsServeTheirRegistry` | `MirrorsAreUsed` | |
| `PushedTagsAreTags` | `TargetsAreTags` | the bases are references, given targets are tags, the default registry is an address; no target is derived from a base with a digest, or with a port and no tag |
| `MetricsNameTheRegistry` | `LabelNamesTheRegistry` | no target is on `localhost` without a port |
| `SameHashMakesSameImage` | `SameHashSameImage` | no ENV value refers to another variable of its spec; specs of one hash ignore the same paths |

The instance of `dockerfile` satisfies these hypotheses.  That the last row needs
its first one is what run `env_order` shows, and that the row of `TargetsAreTags`
needs its last one, run `port_base`.

`MetricsNameTheRegistry` also needs `TargetInv`: past kaniko's own check the
targets are tags.  It rests on lemmas about where the first and the last
separator of a reference are, with `SplitAgrees` as the result: on a valid tag,
`SplitImageRef` and go-containerregistry cut alike, `localhost` apart.
`PushedTagsAreTags` uses the same lemmas: a name derived by `resolveDestination`
is a tag, unless its base has a port and no tag, or a digest, and
`computeDedupRef` stays in the repository of the tag it is given.

The theorems on credentials and mirrors need `RefusalInv`: of all instructions only
the pull of a stage and the check of the push fail of a registry (`PerformRefusal`),
and then an account was refused, or every source of the image was down or refused
it, with the docker config that the Job mounts.  `MergedAccount` says which account
kaniko finds in a file made of two: the overlay's, unless the base has the more
specific key, and the base's where the overlay has none.  The dedup tag needs no
account of its own, as it is in the target's repository (`DedupInRepository`).
`MirrorIsSource` follows one pair of the environment's list through the parser and
the renaming of `docker.io` to the sources kaniko tries.

`SameHashMakesSameImage` compares two builds that may be far apart.  A fact about
the image alone does not suffice, since the order of the ENV lines and the
mirrors of the other build are forgotten by then; so `CourseInv` keeps, of the
build under way, a program of the spec and a function `f` from positions to
images with `f[n]` made from `f[n - 1]` by the n-th instruction, none failed, and
`KeptInv` keeps such a function for the image in `stored`.  `SameCourse` then
walks through two programs of one hash together: they are equal and quiet up to
the ENV lines (`QuietCourse`); the ENV lines make one environment in any order
(`EnvBlock`); from there the programs differ in mirrors only, where an `apt` list
of one build is written and removed again and a `pip` index is not part of a
layer (`AlikeCourse`).  What an instruction makes, if it succeeds, does not depend
on the Job, hence not on Secrets, targets or cache (`SameStep`).

The provers have no induction over an operator.  Where a list of any length is
walked, the set of numbers for which the claim holds is shown to be all of `Nat`,
from the well-foundedness of `<` (`LeastNumber`, `Induction`); the recursive
functions behind `FoldLeft` and `FlattenSeq` are shown to exist the same way
before their equations are used (`FoldingExists`, `Folded`, `Flatten`).

The theorems hold for any sets of CRs, names, specs and causes, any sharing of
names but for `AuthHolds`, and any budgets.  They rest on the named assumptions
of `BuildJobs` and `ImagePatchController`, that is: the constants have their
types, no model value is confused with `None`, a target is never a dedup tag, and
what older releases left behind is consistent; and on the hypotheses just named,
which `BypassHolds`, `AuthHolds`, `CountedOnce`, `SuccessPublished` and
`DedupTagsSound` state in their `ASSUME`.  Those about builds hold for any specs,
base images, registries, Secrets and environments of the types that the
assumptions of `DockerBuild` give.

Only model-checked: everything about liveness, because fairness and `ENABLED` are
out of the prover's reach.

The proofs led to five changes of the model.  Two `CASE`s of `KanikoSteps` had arms
that overlapped, where TLC takes the first and the prover may take none; an ENV or
COPY that replaces an earlier one of its name is written out (`Updated`); `JobOf`
keeps all of a build's options in one field; and `HostOf` and `PathOf` did not
take `docker.io/...` for Docker Hub, which go-containerregistry does, and which the
references of `dockerfile` now contain; and `MirrorsAreUsed` asked that a mirror be
open to everybody, of which a build has nothing when its docker config names another
account there: the mirror must let the build's own account pull.

## What is not modelled

* Two managers at once: leader election excludes it; a deposed leader whose last
  call is still under way is not modelled.
* The contents of ConfigMap and Secret beyond the spec they were made from, and
  staleness of their informers: the update after `AlreadyExists` reads a cache,
  and a stale or missing copy there is an error that is retried (`CallFails`).
* More than one orphan Pod of a name: a second one replaces the first; and Pods
  created in the same second, between which `classify.go` has no order.
* The verdicts of the healthcheck's cases, a fixed script over CRs of its own; of
  the probe the model has what the controller notices, its annotation (`Touch`).
* The account of the controller's own registry calls (`Exists`, `Retag`).
* Histograms, the failure counter, and the labels `failure_reason`, `canary` and
  `build_layer_cache_hit`.
* Resource requests of the kaniko container, which reach nothing but the
  scheduler; the Job's fixed fields.
* The host `localhost` without a port: `SplitImageRef` takes it for a registry
  and go-containerregistry does not, which `dockerfile` does not meet: its
  references do not contain it.
* A mirror that refuses a pull: kaniko passes it over, as if it were not there.
* Quoting, and the layout of lines; SHA-256, which is taken to be injective, and
  upstream changes of a base image's tag.
* TLS, flags, RBAC, dashboards, validation of CRs by the API server, generated
  code.

## Plan

What is left, in the order of its weight:

1. Ties between the creation times of Pods, as a nondeterministic choice in
   `NewestPod`.
2. The probe's verdicts composed with the reconciler: which of its cases a slow
   informer or a requeue of 15 s makes fail.
3. Refinement: `DockerBuild` as an implementation of what the reconciler's modules
   assume of a build (`Image`, `DedupRef`, `Causes`), stated as a theorem.
