------------------------- MODULE ImagePatchController -------------------------
(***************************************************************************)
(* The ImagePatch reconciler: one worker that takes CR keys from a work    *)
(* queue, reads CRs and Jobs from informer caches that lag behind the API  *)
(* server, and issues API calls one at a time.  A step of the worker is    *)
(* the code between two points where other actors can interleave: a cache  *)
(* read, an API call or a registry call.                                   *)
(*                                                                         *)
(* Optimistic concurrency: an update of a CR carries the resourceVersion   *)
(* of the copy it was computed from; w.fresh says whether that is still    *)
(* the server's version, and an update from a copy that is not fresh is    *)
(* refused with a conflict.                                                *)
(***************************************************************************)
EXTENDS BuildJobs

CONSTANTS
    DedupEnabled,   \* the cluster-wide switch
    RegistryClient, \* the manager was given a registry client
    Bypass,         \* specs that set buildOptions.disableBuildCache
    Mismatch,       \* specs whose base image has no linux/amd64 variant
    Owned,          \* CRs in the build namespace: their objects carry an owner
    Wanted,         \* Wanted[k]: the specs users may give CR k
    Prebuilt,       \* specs whose content earlier builds left under its tag
    Legacy,         \* CRs an older controller left at Failed/"Build failed"
    Limits          \* Limits[e]: how many events of kind e may happen

VARIABLES
    cr,         \* the API server's ImagePatches
    crCache,    \* the informer's copies of them
    crLag,      \* the CRs whose latest version the informer has not seen
    jobCache,   \* the informer's copies of the Jobs
    queue,      \* keys in the work queue
    timers,     \* keys waiting for RequeueAfter or for an error's back-off
    w,          \* the reconcile in progress
    left        \* left[e]: events of kind e that may still happen

crVars    == <<cr, crCache, crLag>>
queueVars == <<queue, timers>>
vars      == <<buildVars, crVars, jobCache, queueVars, w, left>>

Events == {"create", "edit", "touch", "delete", "fault", "lost", "crash"}
Phases == {"", "Running", "Succeeded", "Failed"}
Messages == FailureLabels \cup
    {"", "Build is running", "Build completed successfully", "Build failed",
     "build skipped: content match in registry"}

(* jobName: whether status.jobName is set (to the only name it can have).  *)
(* hit: status.specHash and status.dedupHit, which are set together.       *)
ImagePatches ==
    [spec: Specs, deleting: BOOLEAN, finalizer: BOOLEAN,
     phase: Phases, message: Messages, jobName: BOOLEAN,
     image: Refs \cup {None}, hit: Refs \cup {None}]

Points == {"idle", "deleteJobs", "deleteConfigMaps", "deleteSecrets",
           "removeFinalizer", "addFinalizer", "inspect", "reject", "getJob",
           "observed", "configMap", "authSecret", "head", "retagGet",
           "retagPut", "hit", "createJob", "running", "record"}

ASSUME ControllerAssumption ==
    /\ DedupEnabled \in BOOLEAN
    /\ RegistryClient \in BOOLEAN
    /\ Bypass \subseteq Specs
    /\ Mismatch \subseteq Specs
    /\ Owned \subseteq CRs
    /\ Wanted \in [CRs -> SUBSET Specs]
    /\ Prebuilt \subseteq Specs
    /\ \A s, t \in Prebuilt : DedupRef[s] = DedupRef[t] => Image[s] = Image[t]
    /\ Legacy \subseteq CRs
    /\ Limits \in [Events -> Nat]
    /\ None \notin ImagePatches
    /\ \A j, k \in Legacy : NameOf[j] = NameOf[k] => j = k

-----------------------------------------------------------------------------

NewImagePatch(s) ==
    [spec |-> s, deleting |-> FALSE, finalizer |-> FALSE, phase |-> "",
     message |-> "", jobName |-> FALSE, image |-> None, hit |-> None]

LegacyImagePatch(s) ==
    [NewImagePatch(s) EXCEPT
        !.finalizer = TRUE, !.phase = "Failed", !.message = "Build failed",
        !.jobName = TRUE, !.image = Target[s]]

Idle == [point |-> "idle", key |-> None, obj |-> None, fresh |-> FALSE,
         manifest |-> None]

TypeOK ==
    /\ BuildTypeOK
    /\ cr \in [CRs -> ImagePatches \cup {None}]
    /\ crCache \in [CRs -> ImagePatches \cup {None}]
    /\ crLag \subseteq CRs
    /\ jobCache \in [Names -> Jobs \cup {None}]
    /\ queue \subseteq CRs
    /\ timers \subseteq CRs
    /\ w \in [point: Points, key: CRs \cup {None},
              obj: ImagePatches \cup {None}, fresh: BOOLEAN,
              manifest: Images \cup {None}]
    /\ left \in [Events -> Nat]

(* A controller has just started on a cluster that holds nothing but what  *)
(* an older release and earlier, deleted CRs left behind.                  *)
Init ==
    \E old \in {f \in [Legacy -> Specs] : \A k \in Legacy : f[k] \in Wanted[k]},
       log \in [Legacy -> Causes \cup {None}] :
        LET owner(n) == CHOOSE k \in Legacy : NameOf[k] = n
            held(n)  == \E k \in Legacy : NameOf[k] = n
            file(n)  == IF held(n) THEN [src |-> owner(n), spec |-> old[owner(n)]]
                        ELSE None
        IN
        /\ cr = [k \in CRs |-> IF k \in Legacy THEN LegacyImagePatch(old[k])
                               ELSE None]
        /\ job = [n \in Names |->
                    IF held(n)
                    THEN [ConstructJob(owner(n), old[owner(n)], FALSE)
                            EXCEPT !.state = "failed"]
                    ELSE None]
        /\ cm = [n \in Names |-> file(n)]
        /\ secret = [n \in Names |->
                       IF held(n) /\ old[owner(n)] \in OwnAuth THEN file(n) ELSE None]
        /\ pod = [n \in Names |-> [g \in Slots |->
                    IF g = "job" /\ held(n) /\ log[owner(n)] # None
                    THEN [spec |-> job[n].spec, auth |-> job[n].auth,
                          dedup |-> FALSE, mounted |-> job[n].spec,
                          stage |-> "failed", log |-> log[owner(n)]]
                    ELSE None]]
        /\ registry = [r \in Refs |-> IF \E s \in Prebuilt : DedupRef[s] = r
                        THEN Image[CHOOSE s \in Prebuilt : DedupRef[s] = r]
                        ELSE None]
        /\ crCache = cr
        /\ crLag = {}
        /\ jobCache = job
        /\ queue = Legacy
        /\ timers = {}
        /\ w = Idle
        /\ left = Limits

-----------------------------------------------------------------------------
(* Building blocks of the worker's steps.                                  *)

Spend(e) == left[e] > 0 /\ left' = [left EXCEPT ![e] = @ - 1]

(* Watch events of owned objects enqueue the CR that controls them.        *)
Enqueue(S) == queue' = queue \cup S
OwnersOf(objects) == {o.src : o \in objects \ {None}} \cap Owned

(* Reconcile goes on at point p with its copy of the CR changed to o.      *)
Goto(p, o) ==
    /\ w' = [w EXCEPT !.point = p, !.obj = o]
    /\ UNCHANGED timers

(* Reconcile returns: with RequeueAfter or an error, or with neither.      *)
Return(again) ==
    /\ w' = Idle
    /\ timers' = IF again THEN timers \cup {w.key} ELSE timers

(* The API server stores version o of CR k.  An update that changes        *)
(* nothing creates no version and no watch event.                          *)
Store(k, o) ==
    /\ cr' = [cr EXCEPT ![k] = o]
    /\ crLag' = IF o = cr[k] THEN crLag ELSE crLag \cup {k}
    /\ UNCHANGED crCache

(* An error is returned: the key backs off.                                *)
ErrorSwallowed == Return(FALSE)     \* mutant: logged, but not returned

Error == Return(TRUE)

(* Update and Status().Update of the worker's copy, changed to o: done     *)
(* when the copy is fresh, else a conflict, or NotFound, that is returned. *)
(* The answer of an update that was done may be lost: an error as well.    *)
UpdateLastWins(o, then) ==          \* mutant: no version sent
    Store(w.key, o) /\ then /\ UNCHANGED left

Update(o, then) ==
    \/ /\ w.fresh
       /\ Store(w.key, o)
       /\ then
       /\ UNCHANGED left
    \/ /\ w.fresh
       /\ Spend("lost")
       /\ Store(w.key, o)
       /\ Error
    \/ /\ ~w.fresh
       /\ Error
       /\ UNCHANGED <<crVars, left>>

(* A write by somebody else makes the worker's copy stale.                 *)
UserWrite(k, o) ==
    /\ Store(k, o)
    /\ w' = [w EXCEPT !.fresh = w.fresh /\ w.key # k]

At(p) == w.point = p
Me == NameOf[w.key]

-----------------------------------------------------------------------------
(* Reconcile, from its start to the look-up of the Job.                    *)

EntryUnguarded(o) ==        \* mutant: the build does not wait for the finalizer
    IF o = None THEN "idle" ELSE IF o.deleting THEN "deleteJobs" ELSE "inspect"

(* Where Reconcile goes with the cached CR: clean-up of a deleted CR and   *)
(* the finalizer come before anything else.                                *)
Entry(o) ==
    CASE o = None -> "idle"
      [] o # None /\ o.deleting -> IF o.finalizer THEN "deleteJobs" ELSE "idle"
      [] o # None /\ ~o.deleting -> IF o.finalizer THEN "inspect" ELSE "addFinalizer"

Fetch(k) ==
    /\ At("idle")
    /\ k \in queue
    /\ queue' = queue \ {k}
    /\ w' = IF Entry(crCache[k]) = "idle" THEN Idle
            ELSE [Idle EXCEPT !.point = Entry(crCache[k]), !.key = k,
                              !.obj = crCache[k], !.fresh = k \notin crLag]
    /\ UNCHANGED <<buildVars, crVars, jobCache, timers, left>>

(* Returns without RequeueAfter: the watch event of this very update       *)
(* drives the next pass.                                                   *)
AddFinalizer ==
    /\ At("addFinalizer")
    /\ Update([w.obj EXCEPT !.finalizer = TRUE], Return(FALSE))
    /\ UNCHANGED <<buildVars, jobCache, queue>>

(* cleanupBuildResources: three DeleteAllOf in this order, then the        *)
(* finalizer.                                                              *)
AfterNoConfigMaps(p) ==             \* mutant: the ConfigMaps are forgotten
    CASE p = "deleteJobs" -> "deleteSecrets"
      [] p = "deleteConfigMaps" -> "deleteSecrets"
      [] p = "deleteSecrets" -> "removeFinalizer"

AfterDelete(p) ==
    CASE p = "deleteJobs" -> "deleteConfigMaps"
      [] p = "deleteConfigMaps" -> "deleteSecrets"
      [] p = "deleteSecrets" -> "removeFinalizer"

Removed(objects) == {objects[n] : n \in {m \in Names : Labelled(w.key, objects[m])}}

DeleteJobs ==
    /\ At("deleteJobs")
    /\ job' = [n \in Names |-> Kept(w.key, job[n])]
    /\ pod' = [n \in Names |-> IF Labelled(w.key, job[n]) THEN Orphaned(pod[n])
                                ELSE pod[n]]
    /\ Goto(AfterDelete("deleteJobs"), w.obj)
    /\ UNCHANGED <<cm, secret, registry, crVars, jobCache, queue, left>>

DeleteConfigMaps ==
    /\ At("deleteConfigMaps")
    /\ cm' = [n \in Names |-> Kept(w.key, cm[n])]
    /\ Enqueue(OwnersOf(Removed(cm)))
    /\ Goto(AfterDelete("deleteConfigMaps"), w.obj)
    /\ UNCHANGED <<job, secret, pod, registry, crVars, jobCache, left>>

DeleteSecrets ==
    /\ At("deleteSecrets")
    /\ secret' = [n \in Names |-> Kept(w.key, secret[n])]
    /\ Enqueue(OwnersOf(Removed(secret)))
    /\ Goto(AfterDelete("deleteSecrets"), w.obj)
    /\ UNCHANGED <<job, cm, pod, registry, crVars, jobCache, left>>

(* Without its last finalizer the API server removes the CR.               *)
RemoveFinalizer ==
    /\ At("removeFinalizer")
    /\ Update(None, Return(FALSE))
    /\ UNCHANGED <<buildVars, jobCache, queue>>

(* RejectIfPlatformMismatch reads the base image's platforms; when it      *)
(* cannot, it lets the build go ahead.                                     *)
Inspect ==
    /\ At("inspect")
    /\ \/ /\ w.obj.spec \in Mismatch
          /\ Goto("reject", [w.obj EXCEPT !.phase = "Failed",
                                          !.message = "ImageOSNotSupported"])
          /\ UNCHANGED left
       \/ /\ w.obj.spec \in Mismatch
          /\ Spend("fault")
          /\ Goto("getJob", w.obj)
       \/ /\ w.obj.spec \notin Mismatch
          /\ Goto("getJob", w.obj)
          /\ UNCHANGED left
    /\ UNCHANGED <<buildVars, crVars, jobCache, queue>>

Reject ==
    /\ At("reject")
    /\ Update(w.obj, Return(FALSE))
    /\ UNCHANGED <<buildVars, jobCache, queue>>

(* handleExistingJob: the status a Job calls for.  A failure label already *)
(* in the message stays.                                                   *)
FailureMessageAfresh(o) == Classify(Me)     \* mutant: always classify

FailureMessage(o) ==
    IF o.message \in FailureLabels THEN o.message ELSE Classify(Me)

ObservedVerbatim(o, j) == [o EXCEPT !.phase = j.state]  \* mutant: the Job's own word

Observed(o, j) ==
    CASE j.state = "succeeded" ->
           [o EXCEPT !.phase = "Succeeded", !.message = "Build completed successfully"]
      [] j.state = "failed" ->
           [o EXCEPT !.phase = "Failed", !.message = FailureMessage(o)]
      [] j.state = "active" ->
           [o EXCEPT !.phase = "Running", !.message = "Build is running"]
      [] j.state = "pending" -> o

StatusPhaseChanged(o, new) == new.phase # o.phase   \* mutant: not the message

StatusChanged(o, new) == new.phase # o.phase \/ new.message # o.message

PollsNever(j) == FALSE                              \* mutant: no RequeueAfter

PollsActive(j) == j.state = "active"                \* mutant: not a pending Job

Polls(j) == j.state \in {"pending", "active"}

GetJob ==
    /\ At("getJob")
    /\ LET j == jobCache[Me] IN
       \/ /\ j = None
          /\ Goto("configMap", w.obj)
       \/ /\ j # None
          /\ ~StatusChanged(w.obj, Observed(w.obj, j))
          /\ Return(Polls(j))
       \/ /\ j # None
          /\ StatusChanged(w.obj, Observed(w.obj, j))
          /\ Goto("observed", Observed(w.obj, j))
    /\ UNCHANGED <<buildVars, crVars, jobCache, queue, left>>

(* The build metric is recorded when the phase, not only the message,      *)
(* became terminal.                                                        *)
RecordsEveryWrite(o, new) == new.phase # "Running"      \* mutant

RecordsSuccesses(o, new) ==                             \* mutant
    new.phase = "Succeeded" /\ new.phase # o.phase

RecordsResult(o, new) == new.phase # "Running" /\ new.phase # o.phase

WriteObserved ==
    /\ At("observed")
    /\ Update(w.obj, IF RecordsResult(cr[w.key], w.obj) THEN Goto("record", w.obj)
                     ELSE Return(w.obj.phase = "Running"))
    /\ UNCHANGED <<buildVars, jobCache, queue>>

(* The Pods of the failed Job cannot be listed, or the log not read: the   *)
(* catch-all label is written, although the log may be there.              *)
ClassifyFails ==
    /\ At("getJob")
    /\ jobCache[Me] # None
    /\ jobCache[Me].state = "failed"
    /\ w.obj.message \notin FailureLabels
    /\ Spend("fault")
    /\ Goto("observed", [w.obj EXCEPT !.phase = "Failed",
                                      !.message = "ControllerInternalError"])
    /\ UNCHANGED <<buildVars, crVars, jobCache, queue>>

RecordBuildResult ==
    /\ At("record")
    /\ Return(FALSE)
    /\ UNCHANGED <<buildVars, crVars, jobCache, queue, left>>

-----------------------------------------------------------------------------
(* Reconcile, when the cache holds no Job.                                 *)

ConsultsDedupAlways(s) == DedupEnabled      \* mutant: no per-CR opt-out

ConsultsDedup(s) == DedupEnabled /\ s \notin Bypass

AfterAuth(s) ==
    IF ConsultsDedup(s) /\ RegistryClient THEN "head" ELSE "createJob"

AfterConfigMapNoAuth(s) == AfterAuth(s)     \* mutant: the Secret is not written

AfterConfigMap(s) == IF s \in OwnAuth THEN "authSecret" ELSE AfterAuth(s)

ApplyConfigMap ==
    /\ At("configMap")
    /\ cm' = [cm EXCEPT ![Me] = Applied(@, w.key, w.obj.spec)]
    /\ Enqueue(IF cm' = cm THEN {} ELSE OwnersOf({cm'[Me]}))
    /\ Goto(AfterConfigMap(w.obj.spec), w.obj)
    /\ UNCHANGED <<job, secret, pod, registry, crVars, jobCache, left>>

ApplyAuthSecret ==
    /\ At("authSecret")
    /\ secret' = [secret EXCEPT ![Me] = Applied(@, w.key, w.obj.spec)]
    /\ Enqueue(IF secret' = secret THEN {} ELSE OwnersOf({secret'[Me]}))
    /\ Goto(AfterAuth(w.obj.spec), w.obj)
    /\ UNCHANGED <<job, cm, pod, registry, crVars, jobCache, left>>

(* tryDedupShortCircuit: HEAD, GET and PUT against the registry.           *)
ExistsUnchecked(ref) == TRUE                \* mutant: a miss is taken for a hit

InRegistry(ref) == registry[ref] # None

DedupHead ==
    /\ At("head")
    /\ Goto(IF InRegistry(DedupRef[w.obj.spec]) THEN "retagGet" ELSE "createJob", w.obj)
    /\ UNCHANGED <<buildVars, crVars, jobCache, queue, left>>

RetagGet ==
    /\ At("retagGet")
    /\ w' = [w EXCEPT !.point = "retagPut",
                      !.manifest = registry[DedupRef[w.obj.spec]]]
    /\ UNCHANGED <<buildVars, crVars, jobCache, queueVars, left>>

DedupHit(o) ==
    [o EXCEPT !.phase = "Succeeded",
              !.message = "build skipped: content match in registry",
              !.image = Target[o.spec], !.hit = DedupRef[o.spec],
              !.jobName = FALSE]

Retagged(s) == [registry EXCEPT ![Target[s]] = w.manifest]

RetagPut ==
    /\ At("retagPut")
    /\ registry' = Retagged(w.obj.spec)
    /\ w' = [w EXCEPT !.point = "hit", !.obj = DedupHit(w.obj), !.manifest = None]
    /\ UNCHANGED <<job, cm, secret, pod, crVars, jobCache, queueVars, left>>

(* Any of the three may fail, and the build then goes ahead; the answer of *)
(* a PUT that was done may be lost too.                                    *)
FailOpen ==
    /\ w.point \in {"head", "retagGet", "retagPut"}
    /\ Spend("fault")
    /\ registry' \in {registry} \cup
                      (IF At("retagPut") THEN {Retagged(w.obj.spec)} ELSE {})
    /\ w' = [w EXCEPT !.point = "createJob", !.manifest = None]
    /\ UNCHANGED <<job, cm, secret, pod, crVars, jobCache, queueVars>>

(* The metric is recorded whatever the phase was before.                   *)
WriteDedupHit ==
    /\ At("hit")
    /\ Update(w.obj, Goto("record", w.obj))
    /\ UNCHANGED <<buildVars, jobCache, queue>>

(* A Job the stale cache did not show makes Create fail with AlreadyExists.*)
CreateJobFirst ==       \* mutant: the status is written before the Job is created
    /\ At("createJob")
    /\ LET o == [w.obj EXCEPT !.phase = "Running", !.jobName = TRUE,
                              !.image = Target[w.obj.spec]]
       IN  \/ /\ ~w.obj.jobName
              /\ Update(o, Goto("createJob", o))
              /\ UNCHANGED job
           \/ /\ w.obj.jobName
              /\ job[Me] = None
              /\ job' = [job EXCEPT ![Me] =
                            ConstructJob(w.key, o.spec, ConsultsDedup(o.spec))]
              /\ Return(TRUE)
              /\ UNCHANGED <<crVars, left>>
           \/ /\ w.obj.jobName
              /\ job[Me] # None
              /\ Error
              /\ UNCHANGED <<job, crVars, left>>
    /\ UNCHANGED <<cm, secret, pod, registry, jobCache, queue>>

CreateJob ==
    /\ At("createJob")
    /\ \/ /\ job[Me] = None
          /\ job' = [job EXCEPT ![Me] =
                        ConstructJob(w.key, w.obj.spec, ConsultsDedup(w.obj.spec))]
          /\ Goto("running", [w.obj EXCEPT !.phase = "Running", !.jobName = TRUE,
                                           !.image = Target[w.obj.spec]])
       \/ /\ job[Me] # None
          /\ Error
          /\ UNCHANGED job
    /\ UNCHANGED <<cm, secret, pod, registry, crVars, jobCache, queue, left>>

WriteRunning ==
    /\ At("running")
    /\ Update(w.obj, Return(TRUE))
    /\ UNCHANGED <<buildVars, jobCache, queue>>

(* All of Reconcile but the recording of a build result, which changes     *)
(* nothing that this module describes (see BuildMetrics).                  *)
ReconcileStep ==
    \/ \E k \in CRs : Fetch(k)
    \/ AddFinalizer
    \/ DeleteJobs \/ DeleteConfigMaps \/ DeleteSecrets \/ RemoveFinalizer
    \/ Inspect \/ Reject
    \/ GetJob \/ WriteObserved
    \/ ApplyConfigMap \/ ApplyAuthSecret
    \/ DedupHead \/ RetagGet \/ RetagPut \/ WriteDedupHit
    \/ CreateJob \/ WriteRunning

Reconcile == ReconcileStep \/ RecordBuildResult

-----------------------------------------------------------------------------
(* Failures of the controller and of its calls.                            *)

(* An API call returns an error: the reconcile ends and its key backs off. *)
(* It fails at the point before the call when it has done nothing, and at  *)
(* the point after it when it was done and only its answer is lost; hence  *)
(* at "head" too, which follows the writing of the files.                  *)
CallFails ==
    /\ w.point \notin {"idle", "inspect", "retagGet", "retagPut", "record"}
    /\ Spend("fault")
    /\ Error
    /\ UNCHANGED <<buildVars, crVars, jobCache, queue>>

(* The process ends, a new leader starts: its caches are listed afresh and *)
(* every CR is enqueued; the queue, the timers and the reconcile are lost. *)
Crash ==
    /\ Spend("crash")
    /\ crCache' = cr
    /\ crLag' = {}
    /\ jobCache' = job
    /\ queue' = {k \in CRs : cr[k] # None}
    /\ timers' = {}
    /\ w' = Idle
    /\ UNCHANGED <<buildVars, cr>>

-----------------------------------------------------------------------------
(* Informers and timers.                                                   *)

SyncCR(k) ==
    /\ k \in crLag
    /\ crCache' = [crCache EXCEPT ![k] = cr[k]]
    /\ crLag' = crLag \ {k}
    /\ Enqueue({k})
    /\ UNCHANGED <<buildVars, cr, jobCache, timers, w, left>>

SyncJob(n) ==
    /\ jobCache[n] # job[n]
    /\ jobCache' = [jobCache EXCEPT ![n] = job[n]]
    /\ Enqueue(OwnersOf({jobCache[n], job[n]}))
    /\ UNCHANGED <<buildVars, crVars, timers, w, left>>

TimerFires(k) ==
    /\ k \in timers
    /\ timers' = timers \ {k}
    /\ Enqueue({k})
    /\ UNCHANGED <<buildVars, crVars, jobCache, w, left>>

-----------------------------------------------------------------------------
(* Users of the API.                                                       *)

CreateCR(k, s) ==
    /\ cr[k] = None
    /\ Spend("create")
    /\ UserWrite(k, NewImagePatch(s))
    /\ UNCHANGED <<buildVars, jobCache, queueVars>>

EditSpec(k, s) ==
    /\ cr[k] # None
    /\ ~cr[k].deleting
    /\ s # cr[k].spec
    /\ Spend("edit")
    /\ UserWrite(k, [cr[k] EXCEPT !.spec = s])
    /\ UNCHANGED <<buildVars, jobCache, queueVars>>

(* Metadata that the reconciler does not read, as the healthcheck probe's  *)
(* progress annotation: a new version all the same.                        *)
Touch(k) ==
    /\ cr[k] # None
    /\ Spend("touch")
    /\ crLag' = crLag \cup {k}
    /\ w' = [w EXCEPT !.fresh = w.fresh /\ w.key # k]
    /\ UNCHANGED <<buildVars, cr, crCache, jobCache, queueVars>>

DeleteCR(k) ==
    /\ cr[k] # None
    /\ ~cr[k].deleting
    /\ Spend("delete")
    /\ UserWrite(k, IF cr[k].finalizer THEN [cr[k] EXCEPT !.deleting = TRUE]
                    ELSE None)
    /\ UNCHANGED <<buildVars, jobCache, queueVars>>

-----------------------------------------------------------------------------

Builds ==
    /\ BuildNext
    /\ UNCHANGED <<crVars, jobCache, queueVars, w, left>>

Faults == FailOpen \/ ClassifyFails \/ CallFails \/ Crash

Delivery ==
    \/ \E k \in CRs : SyncCR(k) \/ TimerFires(k)
    \/ \E n \in Names : SyncJob(n)

Users ==
    \E k \in CRs :
        \/ \E s \in Wanted[k] : CreateCR(k, s) \/ EditSpec(k, s)
        \/ Touch(k)
        \/ DeleteCR(k)

Next == Reconcile \/ Faults \/ Delivery \/ Builds \/ Users

Spec == Init /\ [][Next]_vars

(* controller-runtime keeps the worker running, retries watches, and fires *)
(* timers; the work queue is first-in first-out, hence fairness per key.   *)
Fairness ==
    /\ WF_vars(Reconcile)
    /\ \A k \in CRs : SF_vars(Fetch(k)) /\ WF_vars(SyncCR(k)) /\ WF_vars(TimerFires(k))
    /\ \A n \in Names : WF_vars(SyncJob(n))

FairSpec == Spec /\ Fairness /\ BuildFairness
=============================================================================
