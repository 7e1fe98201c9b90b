----------------------------- MODULE StatusProofs -----------------------------
(***************************************************************************)
(* Proofs about what a status, a tag and a Job refer to: the Job that a    *)
(* live CR's status names is there and is its own; a build that bypasses   *)
(* the dedup cache leaves nothing in it; a Job with credentials of its own *)
(* finds its CR's Secret, as long as no two CRs share a name; and a        *)
(* failure's label is not downgraded.                                      *)
(*                                                                         *)
(* Only the clean-up removes Jobs.  It may run for a CR that was deleted   *)
(* and created again under its old name, because the cache still shows the *)
(* deletion; such a CR has not been seen by the worker yet, hence its      *)
(* status names no Job (DeletedCopyNamesNone, CleanUpNamesNone).           *)
(***************************************************************************)
EXTENDS CleanupProofs

DeletedCopyNamesNone ==
    \A k \in CRs :
        Live(k) /\ crCache[k] # None /\ crCache[k].deleting => ~cr[k].jobName

CleanUpNamesNone == w.point \in CleaningUp /\ Live(w.key) => ~cr[w.key].jobName

RunningHasJob == At("running") => OwnJob(w.key)

(* The worker's copy names a Job only if the server's version does.        *)
CopyNamesKnown ==
    w.fresh /\ w.point \notin {"idle", "record", "running"} /\ w.obj.jobName
        => cr[w.key].jobName

JobNameInv ==
    /\ StatusNamesOwnJob
    /\ DeletedCopyNamesNone
    /\ CleanUpNamesNone
    /\ RunningHasJob
    /\ CopyNamesKnown

(* No Job goes, none changes hands.                                        *)
JobsStay ==
    \A n \in Names : job[n] # None => job'[n] # None /\ job'[n].src = job[n].src

-----------------------------------------------------------------------------
(* Steps that remove no Job and write no CR.                               *)

LEMMA NamesStay ==
    ASSUME JobNameInv, cr' = cr, JobsStay
    PROVE  StatusNamesOwnJob'
  BY NamesAssumption DEF JobNameInv, StatusNamesOwnJob, OwnJob, JobsStay, Live, Exists

LEMMA IdleJob ==
    ASSUME JobNameInv, UNCHANGED crVars, JobsStay, w'.point \in {"idle", "record"}
    PROVE  JobNameInv'
<1>1. StatusNamesOwnJob'
  BY NamesStay DEF crVars
<1>2. DeletedCopyNamesNone'
  BY DEF JobNameInv, DeletedCopyNamesNone, Live, Exists, crVars
<1>3. CleanUpNamesNone' /\ RunningHasJob' /\ CopyNamesKnown'
  BY DEF CleanUpNamesNone, RunningHasJob, CopyNamesKnown, CleaningUp, At
<1>. QED
  BY <1>1, <1>2, <1>3 DEF JobNameInv

LEMMA MoveJob ==
    ASSUME JobNameInv, UNCHANGED crVars, JobsStay,
           w.point \notin {"idle", "record", "running"},
           w'.point \notin CleaningUp \cup {"running"},
           w'.key = w.key, w'.fresh = w.fresh, w'.obj.jobName => w.obj.jobName
    PROVE  JobNameInv'
<1>1. StatusNamesOwnJob'
  BY NamesStay DEF crVars
<1>2. DeletedCopyNamesNone'
  BY DEF JobNameInv, DeletedCopyNamesNone, Live, Exists, crVars
<1>3. CleanUpNamesNone' /\ RunningHasJob'
  BY DEF CleanUpNamesNone, RunningHasJob, At
<1>4. CopyNamesKnown'
  BY DEF JobNameInv, CopyNamesKnown, crVars
<1>. QED
  BY <1>1, <1>2, <1>3, <1>4 DEF JobNameInv

LEMMA QuietJob ==
    ASSUME JobNameInv, Types, UNCHANGED <<crVars, w>>, JobsStay
    PROVE  JobNameInv'
<1>1. StatusNamesOwnJob'
  BY NamesStay DEF crVars
<1>2. DeletedCopyNamesNone' /\ CleanUpNamesNone' /\ CopyNamesKnown'
  BY DEF JobNameInv, DeletedCopyNamesNone, CleanUpNamesNone, CopyNamesKnown, Live, Exists,
         crVars
<1>3. RunningHasJob'
  <2>. SUFFICES ASSUME At("running")
                PROVE  OwnJob(w.key)'
    BY DEF RunningHasJob, At
  <2>1. Me \in Names /\ OwnJob(w.key)
    BY CopyTypes DEF JobNameInv, RunningHasJob, At
  <2>. QED
    BY <2>1 DEF JobsStay, OwnJob, Me
<1>. QED
  BY <1>1, <1>2, <1>3 DEF JobNameInv

LEMMA FetchJob ==
    ASSUME Types, CleanupInv, JobNameInv, NEW k \in CRs, Fetch(k)
    PROVE  JobNameInv'
<1>. DEFINE o == crCache[k]
<1>0. UNCHANGED <<job, cr, crCache, crLag>> /\ JobsStay
  BY DEF Fetch, buildVars, crVars, JobsStay
<1>1. CASE Entry(o) = "idle"
  BY <1>0, <1>1, IdleJob DEF Fetch, crVars, Idle
<1>2. CASE Entry(o) # "idle"
  <2>1. /\ w'.point = Entry(o) /\ w'.key = k /\ w'.obj = o
        /\ w'.fresh = (k \notin crLag)
    BY <1>2 DEF Fetch, Idle
  <2>2. o # None /\ o \in ImagePatches
    BY <1>2 DEF Entry, Types, TypeOK
  <2>3. w'.point \in {"deleteJobs", "inspect", "addFinalizer"}
        /\ (w'.point = "deleteJobs" => o.deleting)
    BY <1>2, <2>1, <2>2 DEF Entry
  <2>4. StatusNamesOwnJob' /\ DeletedCopyNamesNone'
    BY <1>0 DEF JobNameInv, StatusNamesOwnJob, OwnJob, DeletedCopyNamesNone, Live, Exists
  <2>5. CleanUpNamesNone'
    BY <1>0, <2>1, <2>2, <2>3
    DEF JobNameInv, DeletedCopyNamesNone, CleanUpNamesNone, CleaningUp, Live, Exists
  <2>6. RunningHasJob'
    BY <2>3 DEF RunningHasJob, At
  <2>7. CopyNamesKnown'
    BY <1>0, <2>1 DEF CleanupInv, CacheCurrent, CopyNamesKnown
  <2>. QED
    BY <2>4, <2>5, <2>6, <2>7 DEF JobNameInv
<1>. QED
  BY <1>1, <1>2

LEMMA ObservedNames ==
    ASSUME Types, NEW o \in ImagePatches, NEW j \in Jobs
    PROVE  Observed(o, j).jobName = o.jobName
  BY DEF Observed, ImagePatches, Jobs

LEMMA ReadJob ==
    ASSUME Types, JobNameInv,
           Inspect \/ GetJob \/ DedupHead \/ RetagGet \/ RetagPut \/ RecordBuildResult
    PROVE  JobNameInv'
<1>. ~At("idle")
  BY DEF At, Inspect, GetJob, DedupHead, RetagGet, RetagPut, RecordBuildResult
<1>. w.obj \in ImagePatches /\ w.key \in CRs /\ Me \in Names
  BY CopyTypes
<1>7. w \in [point: Points, key: CRs \cup {None}, obj: ImagePatches \cup {None},
             fresh: BOOLEAN, manifest: Images \cup {None}]
  BY DEF Types, TypeOK
<1>8. UNCHANGED crVars /\ JobsStay
  BY DEF Inspect, GetJob, DedupHead, RetagGet, RetagPut, RecordBuildResult, buildVars, JobsStay
<1>1. CASE Inspect
  <2>. DEFINE o == [w.obj EXCEPT !.phase = "Failed", !.message = "ImageOSNotSupported"]
  <2>1. /\ w.point = "inspect"
        /\ \/ w' = [w EXCEPT !.point = "reject", !.obj = o]
           \/ w' = [w EXCEPT !.point = "getJob", !.obj = w.obj]
    BY <1>1 DEF Inspect, Goto, At
  <2>2. o.jobName = w.obj.jobName
    BY DEF ImagePatches
  <2>. HIDE DEF o
  <2>3. CASE w' = [w EXCEPT !.point = "reject", !.obj = o]
    BY <1>7, <1>8, <2>1, <2>2, <2>3, MoveJob DEF CleaningUp
  <2>4. CASE w' = [w EXCEPT !.point = "getJob", !.obj = w.obj]
    BY <1>7, <1>8, <2>1, <2>4, MoveJob DEF CleaningUp
  <2>. QED
    BY <2>1, <2>3, <2>4
<1>2. CASE GetJob
  <2>1. jobCache[Me] # None => Observed(w.obj, jobCache[Me]).jobName = w.obj.jobName
    BY ObservedNames DEF Types, TypeOK
  <2>2. \/ w' = Idle
        \/ \E o : /\ w' = [w EXCEPT !.point = "observed", !.obj = o]
                  /\ o.jobName = w.obj.jobName
        \/ w' = [w EXCEPT !.point = "configMap", !.obj = w.obj]
    BY <1>2, <2>1 DEF GetJob, Goto, Return
  <2>3. w.point = "getJob"
    BY <1>2 DEF GetJob, At
  <2>4. CASE w' = Idle
    BY <1>8, <2>4, IdleJob DEF Idle
  <2>5. ASSUME NEW o, o.jobName = w.obj.jobName,
               w' = [w EXCEPT !.point = "observed", !.obj = o]
        PROVE  JobNameInv'
    BY <1>7, <1>8, <2>3, <2>5, MoveJob DEF CleaningUp
  <2>6. CASE w' = [w EXCEPT !.point = "configMap", !.obj = w.obj]
    BY <1>7, <1>8, <2>3, <2>6, MoveJob DEF CleaningUp
  <2>. QED
    BY <2>2, <2>4, <2>5, <2>6
<1>3. CASE DedupHead
  BY <1>3, <1>7, <1>8, MoveJob DEF DedupHead, Goto, At, CleaningUp
<1>4. CASE RetagGet
  BY <1>4, <1>7, <1>8, MoveJob DEF RetagGet, At, CleaningUp
<1>5. CASE RetagPut
  BY <1>5, <1>7, <1>8, MoveJob DEF RetagPut, DedupHit, At, CleaningUp, ImagePatches
<1>6. CASE RecordBuildResult
  BY <1>6, <1>8, IdleJob DEF RecordBuildResult, Return, Idle
<1>. QED
  BY <1>1, <1>2, <1>3, <1>4, <1>5, <1>6

-----------------------------------------------------------------------------
(* Updates of the CR by the worker.                                        *)

(* A fresh copy is what the cache shows too, so a CR that is live after    *)
(* the update is not one whose deletion the cache still shows.             *)
LEMMA StoreJob ==
    ASSUME Types, CleanupInv, JobNameInv, w.fresh, ~At("idle"), ~At("record"),
           NEW o \in ImagePatches \cup {None}, Store(w.key, o),
           o # None => /\ o.deleting = cr[w.key].deleting
                       /\ o.jobName => cr[w.key].jobName \/ OwnJob(w.key),
           job' = job, w'.point \in {"idle", "record"}
    PROVE  JobNameInv'
<1>1. w.key \in CRs /\ w.key \notin crLag /\ cr[w.key] # None
  BY CopyTypes DEF CleanupInv, CopyCurrent, Exists
<1>2. crCache[w.key] = cr[w.key]
  BY <1>1 DEF CleanupInv, CacheCurrent
<1>3. /\ cr \in [CRs -> ImagePatches \cup {None}]
      /\ cr' = [cr EXCEPT ![w.key] = o]
      /\ crCache' = crCache
  BY DEF Types, TypeOK, Store
<1>4. StatusNamesOwnJob'
  BY <1>1, <1>3 DEF JobNameInv, StatusNamesOwnJob, Live, Exists, OwnJob
<1>5. DeletedCopyNamesNone'
  BY <1>1, <1>2, <1>3 DEF JobNameInv, DeletedCopyNamesNone, Live, Exists
<1>6. CleanUpNamesNone' /\ RunningHasJob' /\ CopyNamesKnown'
  BY DEF CleanUpNamesNone, RunningHasJob, CopyNamesKnown, CleaningUp, At
<1>. QED
  BY <1>4, <1>5, <1>6 DEF JobNameInv

LEMMA CRWriteJob ==
    ASSUME Types, CleanupInv, JobNameInv,
           \/ AddFinalizer \/ RemoveFinalizer \/ Reject
           \/ WriteObserved \/ WriteDedupHit \/ WriteRunning
    PROVE  JobNameInv'
<1>. ~At("idle") /\ ~At("record")
  BY DEF At, AddFinalizer, RemoveFinalizer, Reject, WriteObserved, WriteDedupHit, WriteRunning
<1>1. w.obj \in ImagePatches /\ w.key \in CRs
  BY CopyTypes
<1>2. w \in [point: Points, key: CRs \cup {None}, obj: ImagePatches \cup {None},
             fresh: BOOLEAN, manifest: Images \cup {None}]
  BY DEF Types, TypeOK
<1>3. job' = job /\ JobsStay
  BY DEF AddFinalizer, RemoveFinalizer, Reject, WriteObserved, WriteDedupHit, WriteRunning,
         buildVars, JobsStay
<1>4. w'.point \in {"idle", "record"}
  <2>1. CASE AddFinalizer \/ RemoveFinalizer \/ Reject \/ WriteRunning
    BY <2>1 DEF AddFinalizer, RemoveFinalizer, Reject, WriteRunning, Update, Error, Return, Idle
  <2>2. CASE WriteObserved \/ WriteDedupHit
    <3>1. w' = Idle \/ w' = [w EXCEPT !.point = "record", !.obj = w.obj]
      BY <2>2 DEF WriteObserved, WriteDedupHit, Update, Error, Return, Goto
    <3>2. CASE w' = Idle
      BY <3>2 DEF Idle
    <3>3. CASE w' = [w EXCEPT !.point = "record", !.obj = w.obj]
      BY <1>2, <3>3
    <3>. QED
      BY <3>1, <3>2, <3>3
  <2>. QED
    BY <2>1, <2>2
<1>5. CASE ~w.fresh
  BY <1>3, <1>4, <1>5, IdleJob
  DEF AddFinalizer, RemoveFinalizer, Reject, WriteObserved, WriteDedupHit, WriteRunning, Update
<1>6. CASE w.fresh
  <2>1. /\ w.obj.deleting = cr[w.key].deleting
        /\ w.obj.jobName => cr[w.key].jobName \/ OwnJob(w.key)
    BY <1>6 DEF CleanupInv, CopyCurrent, JobNameInv, CopyNamesKnown, RunningHasJob, At
  <2>2. CASE AddFinalizer
    <3>. DEFINE o == [w.obj EXCEPT !.finalizer = TRUE]
    <3>1. /\ o \in ImagePatches
          /\ o.deleting = w.obj.deleting
          /\ o.jobName = w.obj.jobName
      BY <1>1 DEF ImagePatches
    <3>2. Store(w.key, o)
      BY <1>6, <2>2 DEF AddFinalizer, Update
    <3>. HIDE DEF o
    <3>. QED
      BY <1>3, <1>4, <1>6, <2>1, <3>1, <3>2, StoreJob
  <2>3. CASE RemoveFinalizer
    <3>1. Store(w.key, None)
      BY <1>6, <2>3 DEF RemoveFinalizer, Update
    <3>. QED
      BY <1>3, <1>4, <1>6, <3>1, StoreJob
  <2>4. CASE Reject \/ WriteObserved \/ WriteDedupHit \/ WriteRunning
    <3>1. Store(w.key, w.obj)
      BY <1>6, <2>4 DEF Reject, WriteObserved, WriteDedupHit, WriteRunning, Update
    <3>. QED
      BY <1>1, <1>3, <1>4, <1>6, <2>1, <3>1, StoreJob
  <2>. QED
    BY <2>2, <2>3, <2>4
<1>. QED
  BY <1>5, <1>6

-----------------------------------------------------------------------------
(* Steps that change the build namespace.                                  *)

LEMMA DeleteJob ==
    ASSUME Types, JobNameInv, DeleteJobs \/ DeleteConfigMaps \/ DeleteSecrets
    PROVE  JobNameInv'
<1>. ~At("idle")
  BY DEF At, DeleteJobs, DeleteConfigMaps, DeleteSecrets
<1>1. w \in [point: Points, key: CRs \cup {None}, obj: ImagePatches \cup {None},
             fresh: BOOLEAN, manifest: Images \cup {None}]
  BY DEF Types, TypeOK
<1>2. /\ w.point \in CleaningUp /\ w'.point \in CleaningUp
      /\ w'.key = w.key /\ w'.obj = w.obj /\ w'.fresh = w.fresh
      /\ UNCHANGED crVars
  BY <1>1 DEF DeleteJobs, DeleteConfigMaps, DeleteSecrets, Goto, At, AfterDelete, CleaningUp
<1>3. ASSUME NEW n \in Names, job[n] # None, job[n].src # w.key
      PROVE  job'[n] = job[n]
  BY <1>3 DEF DeleteJobs, DeleteConfigMaps, DeleteSecrets, Kept
<1>4. StatusNamesOwnJob'
  <2>. SUFFICES ASSUME NEW k \in CRs, Live(k), cr[k].jobName
                PROVE  OwnJob(k)'
    BY <1>2 DEF StatusNamesOwnJob, Live, Exists, crVars, OwnJob
  <2>1. OwnJob(k) /\ NameOf[k] \in Names
    BY NamesAssumption DEF JobNameInv, StatusNamesOwnJob, OwnJob
  <2>2. k # w.key
    BY <1>2 DEF JobNameInv, CleanUpNamesNone
  <2>. QED
    BY <1>3, <2>1, <2>2 DEF OwnJob
<1>5. DeletedCopyNamesNone' /\ CleanUpNamesNone' /\ CopyNamesKnown'
  BY <1>2
  DEF JobNameInv, DeletedCopyNamesNone, CleanUpNamesNone, CopyNamesKnown, Live, Exists,
      crVars, CleaningUp
<1>6. RunningHasJob'
  BY <1>2 DEF RunningHasJob, CleaningUp, At
<1>. QED
  BY <1>4, <1>5, <1>6 DEF JobNameInv

LEMMA CreateJobs ==
    ASSUME Types, JobNameInv, ApplyConfigMap \/ ApplyAuthSecret \/ CreateJob
    PROVE  JobNameInv'
<1>. ~At("idle")
  BY DEF At, ApplyConfigMap, ApplyAuthSecret, CreateJob
<1>1. w.obj \in ImagePatches /\ w.obj.spec \in Specs /\ w.key \in CRs /\ Me \in Names
  BY CopyTypes
<1>2. w \in [point: Points, key: CRs \cup {None}, obj: ImagePatches \cup {None},
             fresh: BOOLEAN, manifest: Images \cup {None}]
  BY DEF Types, TypeOK
<1>3. CASE ApplyConfigMap \/ ApplyAuthSecret
  BY <1>2, <1>3, MoveJob
  DEF ApplyConfigMap, ApplyAuthSecret, Goto, AfterConfigMap, AfterAuth, At, CleaningUp,
      JobsStay
<1>4. CASE CreateJob /\ job[Me] # None
  BY <1>4, IdleJob DEF CreateJob, Error, Return, Idle, JobsStay
<1>5. CASE CreateJob /\ job[Me] = None
  <2>1. /\ job' = [job EXCEPT ![Me] =
                      ConstructJob(w.key, w.obj.spec, ConsultsDedup(w.obj.spec))]
        /\ w'.point = "running" /\ w'.key = w.key
        /\ UNCHANGED crVars
    BY <1>2, <1>5 DEF CreateJob, Goto
  <2>2. job \in [Names -> Jobs \cup {None}] /\ JobsStay
    BY <1>1, <1>5, <2>1 DEF Types, TypeOK, BuildTypeOK, JobsStay
  <2>3. job'[Me].src = w.key /\ job'[Me] # None
    <3>1. ConstructJob(w.key, w.obj.spec, ConsultsDedup(w.obj.spec)) \in Jobs
      BY <1>1, ControllerAssumption DEF ConstructJob, ConsultsDedup, Jobs
    <3>. QED
      BY <1>1, <2>1, <2>2, <3>1, NoneAssumption DEF ConstructJob
  <2>4. StatusNamesOwnJob'
    BY <2>1, <2>2, NamesStay DEF crVars
  <2>5. DeletedCopyNamesNone'
    BY <2>1 DEF JobNameInv, DeletedCopyNamesNone, Live, Exists, crVars
  <2>6. CleanUpNamesNone' /\ CopyNamesKnown' /\ RunningHasJob'
    BY <2>1, <2>3
    DEF CleanUpNamesNone, CopyNamesKnown, RunningHasJob, OwnJob, Me, CleaningUp, At
  <2>. QED
    BY <2>4, <2>5, <2>6 DEF JobNameInv
<1>. QED
  BY <1>3, <1>4, <1>5

(* Pods change the state of Jobs, never their labels.                      *)
LEMMA BuildsJob ==
    ASSUME Types, JobNameInv, Builds
    PROVE  JobNameInv'
<1>1. UNCHANGED <<crVars, w>>
  BY DEF Builds
<1>2. JobsStay
  <2>1. ASSUME NEW m \in Names, NEW s \in {"active", "succeeded", "failed"}, job[m] # None,
               job' = [job EXCEPT ![m].state = s]
        PROVE  JobsStay
    <3>1. job[m] \in Jobs
      BY <2>1 DEF Types, TypeOK, BuildTypeOK
    <3>2. /\ [job[m] EXCEPT !.state = s] \in Jobs
          /\ [job[m] EXCEPT !.state = s].src = job[m].src
      BY <2>1, <3>1 DEF Jobs
    <3>3. job' = [job EXCEPT ![m] = [job[m] EXCEPT !.state = s]]
      BY <2>1
    <3>. QED
      BY <3>2, <3>3, NoneAssumption DEF Types, TypeOK, BuildTypeOK, JobsStay
  <2>2. ASSUME NEW m \in Names, pod[m]["job"] # None
        PROVE  job[m] # None
    BY <2>2 DEF Types, PodShape
  <2>3. ASSUME job' = job
        PROVE  JobsStay
    BY <2>3 DEF JobsStay
  <2>4. ASSUME NEW m \in Names, PodStarts(m)
        PROVE  JobsStay
    BY <2>1, <2>4 DEF PodStarts
  <2>5. ASSUME NEW m \in Names, NEW g \in Slots, PodSucceeds(m, g)
        PROVE  JobsStay
    BY <2>1, <2>2, <2>3, <2>5 DEF PodSucceeds
  <2>6. ASSUME NEW m \in Names, NEW g \in Slots, NEW c \in Causes, PodFails(m, g, c)
        PROVE  JobsStay
    BY <2>1, <2>2, <2>3, <2>6 DEF PodFails
  <2>7. ASSUME NEW m \in Names, NEW g \in Slots,
               PodMounts(m, g) \/ PodPushes(m, g) \/ PodCollected(m, g)
        PROVE  JobsStay
    BY <2>3, <2>7 DEF PodMounts, PodPushes, PodCollected
  <2>. QED
    BY <2>4, <2>5, <2>6, <2>7 DEF Builds, BuildNext
<1>. QED
  BY <1>1, <1>2, QuietJob

-----------------------------------------------------------------------------
(* Faults, deliveries and users.                                           *)

LEMMA FaultJob ==
    ASSUME Types, JobNameInv, Faults
    PROVE  JobNameInv'
<1>0. JobsStay
  BY DEF Faults, FailOpen, ClassifyFails, CallFails, Crash, buildVars, JobsStay
<1>1. CASE FailOpen
  <2>1. w \in [point: Points, key: CRs \cup {None}, obj: ImagePatches \cup {None},
               fresh: BOOLEAN, manifest: Images \cup {None}]
    BY DEF Types, TypeOK
  <2>. QED
    BY <1>0, <1>1, <2>1, MoveJob DEF FailOpen, CleaningUp
<1>2. CASE CallFails
  BY <1>0, <1>2, IdleJob DEF CallFails, Error, Return, Idle
<1>3. CASE Crash
  <2>1. w'.point = "idle" /\ UNCHANGED <<job, cr>> /\ crCache' = cr
    BY <1>3 DEF Crash, buildVars, Idle
  <2>2. StatusNamesOwnJob'
    BY <1>0, <2>1, NamesStay
  <2>3. DeletedCopyNamesNone' /\ CleanUpNamesNone' /\ RunningHasJob' /\ CopyNamesKnown'
    BY <2>1
    DEF DeletedCopyNamesNone, CleanUpNamesNone, RunningHasJob, CopyNamesKnown, CleaningUp,
        Live, Exists, At
  <2>. QED
    BY <2>2, <2>3 DEF JobNameInv
<1>4. CASE ClassifyFails
  <2>. DEFINE o == [w.obj EXCEPT !.phase = "Failed", !.message = "ControllerInternalError"]
  <2>1. w.point = "getJob" /\ UNCHANGED crVars /\ w' = [w EXCEPT !.point = "observed", !.obj = o]
    BY <1>4 DEF ClassifyFails, Goto, At
  <2>2. o.jobName = w.obj.jobName
    BY <2>1, CopyTypes DEF ImagePatches, At
  <2>. HIDE DEF o
  <2>3. w \in [point: Points, key: CRs \cup {None}, obj: ImagePatches \cup {None},
               fresh: BOOLEAN, manifest: Images \cup {None}]
    BY DEF Types, TypeOK
  <2>. QED
    BY <1>0, <2>1, <2>2, <2>3, MoveJob DEF CleaningUp
<1>. QED
  BY <1>1, <1>2, <1>3, <1>4 DEF Faults

LEMMA DeliveryJob ==
    ASSUME Types, JobNameInv, Delivery
    PROVE  JobNameInv'
<1>1. ASSUME NEW k \in CRs, SyncCR(k)
      PROVE  JobNameInv'
  <2>1. /\ UNCHANGED <<job, cr, w>>
        /\ crCache' = [crCache EXCEPT ![k] = cr[k]]
    BY <1>1 DEF SyncCR, buildVars
  <2>2. crCache \in [CRs -> ImagePatches \cup {None}]
    BY DEF Types, TypeOK
  <2>3. DeletedCopyNamesNone'
    BY <2>1, <2>2 DEF JobNameInv, DeletedCopyNamesNone, Live, Exists
  <2>4. StatusNamesOwnJob' /\ CleanUpNamesNone' /\ RunningHasJob' /\ CopyNamesKnown'
    BY <2>1
    DEF JobNameInv, StatusNamesOwnJob, CleanUpNamesNone, RunningHasJob, CopyNamesKnown,
        OwnJob, Live, Exists, At
  <2>. QED
    BY <2>3, <2>4 DEF JobNameInv
<1>2. ASSUME NEW k \in CRs, TimerFires(k)
      PROVE  JobNameInv'
  BY <1>2, QuietJob DEF TimerFires, buildVars, JobsStay
<1>3. ASSUME NEW n \in Names, SyncJob(n)
      PROVE  JobNameInv'
  BY <1>3, QuietJob DEF SyncJob, buildVars, JobsStay
<1>. QED
  BY <1>1, <1>2, <1>3 DEF Delivery

(* A write that gives a live CR no Job to name.                            *)
LEMMA UserWriteJob ==
    ASSUME Types, JobNameInv, NEW k \in CRs, NEW o \in ImagePatches \cup {None},
           UserWrite(k, o), UNCHANGED buildVars,
           o # None /\ ~o.deleting /\ o.jobName => Live(k) /\ cr[k].jobName
    PROVE  JobNameInv'
<1>1. /\ cr' = [cr EXCEPT ![k] = o]
      /\ w' = [w EXCEPT !.fresh = w.fresh /\ w.key # k]
      /\ UNCHANGED <<crCache, job>>
  BY DEF UserWrite, Store, buildVars
<1>2. cr \in [CRs -> ImagePatches \cup {None}]
  BY DEF Types, TypeOK
<1>3. w'.point = w.point /\ w'.key = w.key /\ w'.obj = w.obj
      /\ (w'.fresh => w.fresh /\ w.key # k)
  BY <1>1 DEF Types, TypeOK
<1>4. ASSUME NEW j \in CRs, Live(j)', cr'[j].jobName
      PROVE  Live(j) /\ cr[j].jobName
  BY <1>1, <1>2, <1>4 DEF Live, Exists
<1>5. StatusNamesOwnJob'
  BY <1>1, <1>4 DEF JobNameInv, StatusNamesOwnJob, OwnJob, buildVars
<1>6. DeletedCopyNamesNone'
  BY <1>1, <1>4 DEF JobNameInv, DeletedCopyNamesNone
<1>7. CleanUpNamesNone'
  <2>1. w.point \in CleaningUp => w.key \in CRs
    BY CopyTypes DEF CleaningUp, At
  <2>. QED
    BY <1>3, <1>4, <2>1 DEF JobNameInv, CleanUpNamesNone
<1>8. RunningHasJob'
  BY <1>1, <1>3 DEF JobNameInv, RunningHasJob, OwnJob, At
<1>9. CopyNamesKnown'
  <2>. SUFFICES ASSUME w.fresh, w.key # k, w.obj.jobName,
                       w.point \notin {"idle", "record", "running"}
                PROVE  cr'[w.key].jobName
    BY <1>3 DEF CopyNamesKnown
  <2>1. w.key \in CRs /\ cr[w.key].jobName
    BY CopyTypes DEF JobNameInv, CopyNamesKnown, At
  <2>. QED
    BY <1>1, <1>2, <2>1
<1>. QED
  BY <1>5, <1>6, <1>7, <1>8, <1>9 DEF JobNameInv

LEMMA UserJob ==
    ASSUME Types, JobNameInv, Users
    PROVE  JobNameInv'
<1>1. ASSUME NEW k \in CRs, NEW s \in Wanted[k], CreateCR(k, s)
      PROVE  JobNameInv'
  <2>1. NewImagePatch(s) \in ImagePatches /\ ~NewImagePatch(s).jobName
    BY ControllerAssumption, NoneAssumption
    DEF NewImagePatch, ImagePatches, Messages, Phases
  <2>. QED
    BY <1>1, <2>1, UserWriteJob DEF CreateCR
<1>2. ASSUME NEW k \in CRs, NEW s \in Wanted[k], EditSpec(k, s)
      PROVE  JobNameInv'
  <2>1. cr[k] \in ImagePatches /\ s \in Specs
    BY <1>2, ControllerAssumption DEF EditSpec, Types, TypeOK
  <2>2. /\ [cr[k] EXCEPT !.spec = s] \in ImagePatches
        /\ [cr[k] EXCEPT !.spec = s].jobName = cr[k].jobName
    BY <2>1 DEF ImagePatches
  <2>. QED
    BY <1>2, <2>2, UserWriteJob DEF EditSpec, Live, Exists
<1>3. ASSUME NEW k \in CRs, Touch(k)
      PROVE  JobNameInv'
  <2>1. /\ UNCHANGED <<job, cr, crCache>>
        /\ w'.point = w.point /\ w'.key = w.key /\ w'.obj = w.obj
        /\ (w'.fresh => w.fresh)
    BY <1>3 DEF Touch, buildVars, Types, TypeOK
  <2>. QED
    BY <2>1
    DEF JobNameInv, StatusNamesOwnJob, DeletedCopyNamesNone, CleanUpNamesNone, RunningHasJob,
        CopyNamesKnown, OwnJob, Live, Exists, At
<1>4. ASSUME NEW k \in CRs, DeleteCR(k)
      PROVE  JobNameInv'
  <2>1. cr[k] \in ImagePatches
    BY <1>4 DEF DeleteCR, Types, TypeOK
  <2>2. /\ [cr[k] EXCEPT !.deleting = TRUE] \in ImagePatches
        /\ [cr[k] EXCEPT !.deleting = TRUE].deleting
    BY <2>1 DEF ImagePatches
  <2>. QED
    BY <1>4, <2>2, UserWriteJob DEF DeleteCR
<1>. QED
  BY <1>1, <1>2, <1>3, <1>4 DEF Users

LEMMA JobNameNext == Types /\ CleanupInv /\ JobNameInv /\ [Next]_vars => JobNameInv'
<1>. SUFFICES ASSUME Types, CleanupInv, JobNameInv, [Next]_vars
              PROVE  JobNameInv'
  OBVIOUS
<1>1. CASE ReconcileStep
  BY <1>1, FetchJob, CRWriteJob, DeleteJob, ReadJob, CreateJobs DEF ReconcileStep
<1>2. CASE RecordBuildResult
  BY <1>2, ReadJob
<1>3. CASE UNCHANGED vars
  BY <1>3, QuietJob DEF vars, buildVars, JobsStay
<1>. QED
  BY <1>1, <1>2, <1>3, BuildsJob, FaultJob, DeliveryJob, UserJob DEF Next, Reconcile

(* What an older controller left names the Job it left.                    *)
LEMMA JobNameInit == Init => JobNameInv
<1>. SUFFICES ASSUME Init
              PROVE  JobNameInv
  OBVIOUS
<1>1. PICK old \in [Legacy -> Specs] :
        LET owner(n) == CHOOSE k \in Legacy : NameOf[k] = n
            held(n)  == \E k \in Legacy : NameOf[k] = n
        IN
        /\ cr = [k \in CRs |-> IF k \in Legacy THEN LegacyImagePatch(old[k]) ELSE None]
        /\ job = [n \in Names |->
                    IF held(n)
                    THEN [ConstructJob(owner(n), old[owner(n)], FALSE)
                            EXCEPT !.state = "failed"]
                    ELSE None]
        /\ crCache = cr
        /\ w = Idle
  BY DEF Init
<1>2. ASSUME NEW k \in CRs, Live(k)
      PROVE  /\ k \in Legacy
             /\ ~crCache[k].deleting
             /\ OwnJob(k)
  <2>1. k \in Legacy /\ cr[k] = LegacyImagePatch(old[k])
    BY <1>1, <1>2 DEF Live, Exists
  <2>2. ~crCache[k].deleting
    BY <1>1, <2>1 DEF LegacyImagePatch, NewImagePatch
  <2>3. (CHOOSE j \in Legacy : NameOf[j] = NameOf[k]) = k
    BY <2>1, ControllerAssumption
  <2>. DEFINE j == [ConstructJob(k, old[k], FALSE) EXCEPT !.state = "failed"]
  <2>4. job[NameOf[k]] = j
    BY <1>1, <2>1, <2>3, NamesAssumption
  <2>5. j \in Jobs /\ j.src = k
    <3>1. old[k] \in Specs
      BY <2>1
    <3>2. ConstructJob(k, old[k], FALSE) \in Jobs /\ ConstructJob(k, old[k], FALSE).src = k
      BY <3>1 DEF ConstructJob, Jobs
    <3>. QED
      BY <3>2 DEF Jobs
  <2>. QED
    BY <2>1, <2>2, <2>4, <2>5, NoneAssumption DEF OwnJob
<1>3. StatusNamesOwnJob /\ DeletedCopyNamesNone
  BY <1>2 DEF StatusNamesOwnJob, DeletedCopyNamesNone, OwnJob
<1>4. CleanUpNamesNone /\ RunningHasJob /\ CopyNamesKnown
  BY <1>1 DEF Idle, CleanUpNamesNone, RunningHasJob, CopyNamesKnown, CleaningUp, At
<1>. QED
  BY <1>3, <1>4 DEF JobNameInv

(* The Job that the status of a live CR names exists and bears the labels  *)
(* of this CR: stale caches, a recreation under the old name and failed    *)
(* calls never take it away or let the status name another CR's.  The      *)
(* invariant of the run "edit" for every value of the constants.           *)
THEOREM JobNamed == Spec => []StatusNamesOwnJob
<1>1. Types /\ CleanupInv /\ JobNameInv /\ [Next]_vars => JobNameInv'
  BY JobNameNext
<1>2. JobNameInv => StatusNamesOwnJob
  BY DEF JobNameInv
<1>. QED
  BY <1>1, <1>2, JobNameInit, CleanupHolds, PTL DEF Spec

-----------------------------------------------------------------------------
(* The bypass of the dedup cache: it was decided when the Job was created, *)
(* and its Pod keeps to it whatever the CR's spec has become since.        *)

TagInv ==
    /\ BypassLeavesNoTag
    /\ \A n \in Names : job[n] # None /\ job[n].dedup => job[n].spec \notin Bypass
    /\ \A n \in Names, g \in Slots :
          pod[n][g] # None /\ pod[n][g].dedup => pod[n][g].spec \notin Bypass

LEMMA QuietTags ==
    ASSUME TagInv, UNCHANGED <<job, pod, registry>>
    PROVE  TagInv'
  BY DEF TagInv, BypassLeavesNoTag

(* Only a build that does not bypass the cache pushes under a hash.        *)
LEMMA BuildTags ==
    ASSUME Types, TagInv, Builds
    PROVE  TagInv'
<1>. /\ job \in [Names -> Jobs \cup {None}]
     /\ pod \in [Names -> [Slots -> Pods \cup {None}]]
     /\ registry \in [Refs -> Images \cup {None}]
     /\ "job" \in Slots
  BY DEF Types, TypeOK, BuildTypeOK, Slots
<1>1. ASSUME NEW m \in Names, NEW s \in {"active", "succeeded", "failed"}, job[m] # None,
             job' = [job EXCEPT ![m].state = s]
      PROVE  \A n \in Names :
                job'[n] # None => /\ job[n] # None
                                  /\ job'[n].dedup = job[n].dedup
                                  /\ job'[n].spec = job[n].spec
  <2>1. job[m] \in Jobs
    BY <1>1
  <2>2. /\ [job[m] EXCEPT !.state = s].dedup = job[m].dedup
        /\ [job[m] EXCEPT !.state = s].spec = job[m].spec
    BY <2>1 DEF Jobs
  <2>. QED
    BY <1>1, <2>2
<1>2. ASSUME NEW m \in Names, pod[m]["job"] # None
      PROVE  job[m] # None
  BY <1>2 DEF Types, PodShape
<1>3. ASSUME NEW n \in Names, PodStarts(n)
      PROVE  TagInv'
  <2>. DEFINE p == [spec |-> job[n].spec, auth |-> job[n].auth, dedup |-> job[n].dedup,
                    mounted |-> None, stage |-> "waiting", log |-> None]
  <2>1. /\ job[n] # None /\ job' = [job EXCEPT ![n].state = "active"]
        /\ pod' = [pod EXCEPT ![n]["job"] = p]
        /\ registry' = registry
    BY <1>3 DEF PodStarts
  <2>2. p.dedup => p.spec \notin Bypass
    BY <2>1 DEF TagInv
  <2>. HIDE DEF p
  <2>3. \A m \in Names, g \in Slots :
           pod'[m][g] # None /\ pod'[m][g].dedup => pod'[m][g].spec \notin Bypass
    BY <2>1, <2>2 DEF TagInv
  <2>4. \A m \in Names : job'[m] # None /\ job'[m].dedup => job'[m].spec \notin Bypass
    BY <1>1, <2>1 DEF TagInv
  <2>. QED
    BY <2>1, <2>3, <2>4 DEF TagInv, BypassLeavesNoTag
<1>4. ASSUME NEW n \in Names, NEW g \in Slots, NEW p \in Pods \cup {None},
             pod' = [pod EXCEPT ![n][g] = p],
             p # None => /\ pod[n][g] # None
                         /\ p.dedup = pod[n][g].dedup /\ p.spec = pod[n][g].spec,
             \/ job' = job
             \/ /\ job[n] # None
                /\ \E s \in {"active", "succeeded", "failed"} :
                      job' = [job EXCEPT ![n].state = s],
             BypassLeavesNoTag'
      PROVE  TagInv'
  <2>1. \A m \in Names, h \in Slots :
           pod'[m][h] # None /\ pod'[m][h].dedup => pod'[m][h].spec \notin Bypass
    BY <1>4 DEF TagInv
  <2>2. \A m \in Names : job'[m] # None /\ job'[m].dedup => job'[m].spec \notin Bypass
    BY <1>1, <1>4 DEF TagInv
  <2>. QED
    BY <1>4, <2>1, <2>2 DEF TagInv
<1>5. ASSUME NEW n \in Names, NEW g \in Slots,
             PodMounts(n, g) \/ \E c \in Causes : PodFails(n, g, c)
      PROVE  TagInv'
  <2>1. BypassLeavesNoTag'
    BY <1>5 DEF PodMounts, PodFails, TagInv, BypassLeavesNoTag
  <2>2. pod[n][g] \in Pods
    BY <1>5 DEF PodMounts, PodFails
  <2>3. CASE PodMounts(n, g)
    <3>. DEFINE p == [pod[n][g] EXCEPT !.stage = "running", !.mounted = cm[n].spec]
    <3>1. cm[n].spec \in Specs
      BY <2>3 DEF PodMounts, Types, TypeOK, BuildTypeOK, Files
    <3>2. p \in Pods /\ p.dedup = pod[n][g].dedup /\ p.spec = pod[n][g].spec
      BY <2>2, <3>1 DEF Pods
    <3>3. pod' = [pod EXCEPT ![n][g] = p] /\ job' = job /\ pod[n][g] # None
      BY <2>3 DEF PodMounts
    <3>. HIDE DEF p
    <3>. QED
      BY <1>4, <2>1, <3>2, <3>3
  <2>4. ASSUME NEW c \in Causes, PodFails(n, g, c)
        PROVE  TagInv'
    <3>. DEFINE p == [pod[n][g] EXCEPT !.stage = "failed", !.log = c]
    <3>1. p \in Pods /\ p.dedup = pod[n][g].dedup /\ p.spec = pod[n][g].spec
      BY <2>2 DEF Pods
    <3>2. /\ pod' = [pod EXCEPT ![n][g] = p] /\ pod[n][g] # None
          /\ job' = IF g = "job" THEN [job EXCEPT ![n].state = "failed"] ELSE job
      BY <2>4 DEF PodFails
    <3>. HIDE DEF p
    <3>. QED
      BY <1>2, <1>4, <2>1, <3>1, <3>2
  <2>. QED
    BY <1>5, <2>3, <2>4
<1>6. ASSUME NEW n \in Names, NEW g \in Slots, PodPushes(n, g) \/ PodSucceeds(n, g)
      PROVE  TagInv'
  <2>1. pod[n][g] \in Pods /\ pod[n][g].spec \in Specs
    BY <1>6 DEF PodPushes, PodSucceeds, Pods
  <2>2. CASE PodPushes(n, g)
    <3>. DEFINE p == [pod[n][g] EXCEPT !.stage = "pushed"]
    <3>1. p \in Pods /\ p.dedup = pod[n][g].dedup /\ p.spec = pod[n][g].spec
      BY <2>1 DEF Pods
    <3>2. /\ pod' = [pod EXCEPT ![n][g] = p] /\ pod[n][g] # None /\ job' = job
          /\ registry' = [registry EXCEPT ![Target[pod[n][g].spec]] =
                                              Image[pod[n][g].mounted]]
      BY <2>2 DEF PodPushes
    <3>3. BypassLeavesNoTag'
      BY <2>1, <3>2, RefsAssumption, ControllerAssumption DEF TagInv, BypassLeavesNoTag, Refs
    <3>. HIDE DEF p
    <3>. QED
      BY <1>4, <3>1, <3>2, <3>3
  <2>3. CASE PodSucceeds(n, g)
    <3>. DEFINE p == [pod[n][g] EXCEPT !.stage = "done"]
    <3>1. p \in Pods /\ p.dedup = pod[n][g].dedup /\ p.spec = pod[n][g].spec
      BY <2>1 DEF Pods
    <3>2. /\ pod' = [pod EXCEPT ![n][g] = p] /\ pod[n][g] # None
          /\ job' = IF g = "job" THEN [job EXCEPT ![n].state = "succeeded"] ELSE job
          /\ registry' = IF pod[n][g].dedup
                         THEN [registry EXCEPT ![DedupRef[pod[n][g].spec]] =
                                                   Image[pod[n][g].mounted]]
                         ELSE registry
      BY <2>3 DEF PodSucceeds
    <3>3. pod[n][g].dedup => pod[n][g].spec \in Specs \ Bypass
      BY <2>1, <3>2 DEF TagInv
    <3>4. BypassLeavesNoTag'
      BY <3>2, <3>3, ControllerAssumption DEF TagInv, BypassLeavesNoTag, Refs
    <3>. HIDE DEF p
    <3>. QED
      BY <1>2, <1>4, <3>1, <3>2, <3>4
  <2>. QED
    BY <1>6, <2>2, <2>3
<1>7. ASSUME NEW n \in Names, NEW g \in Slots, PodCollected(n, g)
      PROVE  TagInv'
  <2>1. BypassLeavesNoTag'
    BY <1>7 DEF PodCollected, TagInv, BypassLeavesNoTag
  <2>. QED
    BY <1>4, <1>7, <2>1 DEF PodCollected
<1>. QED
  BY <1>3, <1>5, <1>6, <1>7 DEF Builds, BuildNext

(* A hit puts the manifest of a hash under the CR's own target.            *)
LEMMA RetagTags ==
    ASSUME Types, TagInv, w.obj.spec \in Specs, registry' = Retagged(w.obj.spec),
           UNCHANGED <<job, pod>>
    PROVE  TagInv'
  BY RefsAssumption, ControllerAssumption
  DEF Retagged, TagInv, BypassLeavesNoTag, Types, TypeOK, BuildTypeOK, Refs

(* The worker creates Jobs, orphans their Pods, and retags to targets.     *)
LEMMA ReconcileTags ==
    ASSUME Types, TagInv, Reconcile
    PROVE  TagInv'
<1>. /\ job \in [Names -> Jobs \cup {None}]
     /\ pod \in [Names -> [Slots -> Pods \cup {None}]]
  BY DEF Types, TypeOK, BuildTypeOK
<1>1. CASE DeleteJobs
  <2>1. /\ \A n \in Names : job'[n] \in {job[n], None}
        /\ \A n \in Names : pod'[n] \in {pod[n], Orphaned(pod[n])}
        /\ registry' = registry
    BY <1>1 DEF DeleteJobs, Kept
  <2>2. ASSUME NEW n \in Names, NEW g \in Slots
        PROVE  pod'[n][g] \in {None, pod[n]["job"], pod[n]["orphan"]}
    <3>1. Orphaned(pod[n])[g] \in {None, pod[n]["job"], pod[n]["orphan"]}
      BY DEF Orphaned, Slots
    <3>. QED
      BY <2>1, <3>1 DEF Slots
  <2>3. \A n \in Names, g \in Slots :
           pod'[n][g] # None /\ pod'[n][g].dedup => pod'[n][g].spec \notin Bypass
    BY <2>2 DEF TagInv, Slots
  <2>. QED
    BY <2>1, <2>3 DEF TagInv, BypassLeavesNoTag
<1>2. CASE RetagPut
  <2>1. w.obj.spec \in Specs
    BY <1>2, CopyTypes DEF RetagPut, At
  <2>. QED
    BY <1>2, <2>1, RetagTags DEF RetagPut
<1>3. CASE CreateJob
  <2>1. Me \in Names
    BY <1>3, CopyTypes DEF CreateJob, At
  <2>2. ConstructJob(w.key, w.obj.spec, ConsultsDedup(w.obj.spec)).dedup
          => ConstructJob(w.key, w.obj.spec, ConsultsDedup(w.obj.spec)).spec \notin Bypass
    BY DEF ConstructJob, ConsultsDedup
  <2>3. \/ job' = job
        \/ job' = [job EXCEPT ![Me] =
                      ConstructJob(w.key, w.obj.spec, ConsultsDedup(w.obj.spec))]
    BY <1>3 DEF CreateJob
  <2>4. \A n \in Names : job'[n] # None /\ job'[n].dedup => job'[n].spec \notin Bypass
    BY <2>1, <2>2, <2>3 DEF TagInv
  <2>. QED
    BY <1>3, <2>4 DEF CreateJob, TagInv, BypassLeavesNoTag
<1>4. CASE \/ \E k \in CRs : Fetch(k)
           \/ AddFinalizer \/ DeleteConfigMaps \/ DeleteSecrets \/ RemoveFinalizer
           \/ Inspect \/ Reject \/ GetJob \/ WriteObserved
  BY <1>4, QuietTags
  DEF Fetch, AddFinalizer, DeleteConfigMaps, DeleteSecrets, RemoveFinalizer, Inspect,
      Reject, GetJob, WriteObserved, buildVars
<1>5. CASE \/ ApplyConfigMap \/ ApplyAuthSecret \/ DedupHead \/ RetagGet \/ WriteDedupHit
           \/ WriteRunning \/ RecordBuildResult
  BY <1>5, QuietTags
  DEF ApplyConfigMap, ApplyAuthSecret, DedupHead, RetagGet, WriteDedupHit, WriteRunning,
      RecordBuildResult, buildVars
<1>. QED
  BY <1>1, <1>2, <1>3, <1>4, <1>5 DEF Reconcile, ReconcileStep

LEMMA TagNext == Types /\ TagInv /\ [Next]_vars => TagInv'
<1>. SUFFICES ASSUME Types, TagInv, [Next]_vars
              PROVE  TagInv'
  OBVIOUS
<1>1. CASE Faults
  <2>1. CASE At("retagPut") /\ w.obj.spec \in Specs /\ registry' = Retagged(w.obj.spec)
             /\ UNCHANGED <<job, pod>>
    BY <2>1, RetagTags
  <2>2. CASE FailOpen
    <3>1. ~At("idle") /\ UNCHANGED <<job, pod>>
      BY <2>2 DEF FailOpen, At
    <3>2. registry' = registry \/ (At("retagPut") /\ registry' = Retagged(w.obj.spec))
      BY <2>2 DEF FailOpen
    <3>. QED
      BY <2>1, <3>1, <3>2, CopyTypes, QuietTags
  <2>. QED
    BY <1>1, <2>2, QuietTags DEF Faults, ClassifyFails, CallFails, Crash, buildVars
<1>2. CASE Delivery
  BY <1>2, QuietTags DEF Delivery, SyncCR, TimerFires, SyncJob, buildVars
<1>3. CASE Users
  BY <1>3, QuietTags DEF Users, CreateCR, EditSpec, Touch, DeleteCR, buildVars
<1>4. CASE UNCHANGED vars
  BY <1>4, QuietTags DEF vars, buildVars
<1>. QED
  BY <1>1, <1>2, <1>3, <1>4, ReconcileTags, BuildTags DEF Next

(* Earlier builds with a bypass pushed nothing under a hash either.        *)
LEMMA TagInit == Prebuilt \cap Bypass = {} /\ Init => TagInv
<1>. SUFFICES ASSUME Prebuilt \cap Bypass = {}, Init
              PROVE  TagInv
  OBVIOUS
<1>1. registry = [r \in Refs |-> IF \E s \in Prebuilt : DedupRef[s] = r
                                 THEN Image[CHOOSE s \in Prebuilt : DedupRef[s] = r]
                                 ELSE None]
  BY DEF Init
<1>2. BypassLeavesNoTag
  <2>. SUFFICES ASSUME NEW s \in Bypass,
                       \A t \in Specs \ Bypass : DedupRef[t] # DedupRef[s]
                PROVE  registry[DedupRef[s]] = None
    BY DEF BypassLeavesNoTag
  <2>1. ~ \E t \in Prebuilt : DedupRef[t] = DedupRef[s]
    BY ControllerAssumption
  <2>2. DedupRef[s] \in Refs
    BY ControllerAssumption DEF Refs
  <2>. QED
    BY <1>1, <2>1, <2>2
<1>3. \A n \in Names : job[n] # None => ~job[n].dedup
  BY DEF Init, ConstructJob
<1>4. \A n \in Names, g \in Slots : pod[n][g] # None => ~pod[n][g].dedup
  <2>1. PICK old \in [Legacy -> Specs], log \in [Legacy -> Causes \cup {None}] :
          LET owner(n) == CHOOSE k \in Legacy : NameOf[k] = n
              held(n)  == \E k \in Legacy : NameOf[k] = n
          IN  pod = [n \in Names |-> [g \in Slots |->
                       IF g = "job" /\ held(n) /\ log[owner(n)] # None
                       THEN [spec |-> job[n].spec, auth |-> job[n].auth,
                             dedup |-> FALSE, mounted |-> job[n].spec,
                             stage |-> "failed", log |-> log[owner(n)]]
                       ELSE None]]
    BY DEF Init
  <2>. QED
    BY <2>1
<1>. QED
  BY <1>2, <1>3, <1>4 DEF TagInv

(* Nothing is ever pushed under the hash of specs that all bypass the      *)
(* dedup cache, whatever the CR is edited to while its build runs, if it   *)
(* was so before the controller started.  The invariant of the run "edit"  *)
(* for every value of the constants.                                       *)
THEOREM BypassHolds ==
    ASSUME Prebuilt \cap Bypass = {}
    PROVE  Spec => []BypassLeavesNoTag
<1>1. TagInv => BypassLeavesNoTag
  BY DEF TagInv
<1>. QED
  BY <1>1, TagInit, TagNext, TypesHold, PTL DEF Spec

-----------------------------------------------------------------------------
(* The auth Secret, when no two CRs share a name: every object then bears  *)
(* the labels of the one CR of its name, so that the Secret a reconcile    *)
(* finds and rewrites is its own, and clean-up takes it after the Job.     *)

NamedAfterSource ==
    \A n \in Names : \A o \in {job[n], secret[n]} : o # None => NameOf[o.src] = n

OwnSecret(n, k) == secret[n] # None /\ secret[n].src = k

AuthKept == \A n \in Names : job[n] # None /\ job[n].auth => OwnSecret(n, job[n].src)

SecretFirst ==
    w.point \in {"head", "retagGet", "retagPut", "createJob"} /\ w.obj.spec \in OwnAuth
        => OwnSecret(Me, w.key)

AuthInv == NamedAfterSource /\ AuthKept /\ SecretFirst

LEMMA QuietAuth ==
    ASSUME AuthInv, UNCHANGED <<job, secret>>,
           \/ w'.point \notin {"head", "retagGet", "retagPut", "createJob"}
           \/ w.point = w'.point /\ w'.key = w.key /\ w'.obj = w.obj
    PROVE  AuthInv'
  BY DEF AuthInv, NamedAfterSource, AuthKept, SecretFirst, OwnSecret, Me

(* From one of these points to another, with a copy of the same spec.      *)
LEMMA OnwardAuth ==
    ASSUME AuthInv, UNCHANGED <<job, secret>>,
           w.point \in {"head", "retagGet", "retagPut"},
           w'.key = w.key, w'.obj.spec = w.obj.spec
    PROVE  AuthInv'
  BY DEF AuthInv, NamedAfterSource, AuthKept, SecretFirst, OwnSecret, Me

LEMMA DeleteAuth ==
    ASSUME Types, CleanupInv, AuthInv, DeleteJobs \/ DeleteConfigMaps \/ DeleteSecrets
    PROVE  AuthInv'
<1>1. w'.point \in {"deleteConfigMaps", "deleteSecrets", "removeFinalizer"}
  BY DEF DeleteJobs, DeleteConfigMaps, DeleteSecrets, Goto, AfterDelete, Types, TypeOK
<1>2. SecretFirst'
  BY <1>1 DEF SecretFirst
<1>3. CASE DeleteJobs
  <2>1. secret' = secret /\ \A n \in Names : job'[n] \in {job[n], None}
    BY <1>3 DEF DeleteJobs, Kept
  <2>. QED
    BY <1>2, <2>1 DEF AuthInv, NamedAfterSource, AuthKept, OwnSecret
<1>4. CASE DeleteConfigMaps
  BY <1>1, <1>4, QuietAuth DEF DeleteConfigMaps
<1>5. CASE DeleteSecrets
  <2>1. /\ job' = job
        /\ \A n \in Names : secret'[n] = Kept(w.key, secret[n])
        /\ \A n \in Names : ~Labelled(w.key, job[n])
    BY <1>5 DEF DeleteSecrets, CleanupInv, CleansInOrder, CleaningUp, At
  <2>2. AuthKept'
    BY <2>1 DEF AuthInv, AuthKept, OwnSecret, Kept, Labelled
  <2>3. NamedAfterSource'
    BY <2>1 DEF AuthInv, NamedAfterSource, Kept
  <2>. QED
    BY <1>2, <2>2, <2>3 DEF AuthInv
<1>. QED
  BY <1>3, <1>4, <1>5

LEMMA ApplyAuth ==
    ASSUME \A j, k \in CRs : NameOf[j] = NameOf[k] => j = k,
           Types, AuthInv, ApplyAuthSecret
    PROVE  AuthInv'
<1>1. w.key \in CRs /\ Me \in Names /\ w.obj.spec \in Specs
  BY CopyTypes DEF ApplyAuthSecret, At
<1>2. /\ secret' = [secret EXCEPT ![Me] = Applied(secret[Me], w.key, w.obj.spec)]
      /\ job' = job
      /\ w'.key = w.key
  BY DEF ApplyAuthSecret, Goto, Types, TypeOK
<1>3. secret \in [Names -> Files \cup {None}] /\ job \in [Names -> Jobs \cup {None}]
  BY DEF Types, TypeOK, BuildTypeOK
<1>4. /\ Applied(secret[Me], w.key, w.obj.spec) # None
      /\ Applied(secret[Me], w.key, w.obj.spec).src = w.key
  <2>1. CASE secret[Me] = None
    <3>1. [src |-> w.key, spec |-> w.obj.spec] \in Files
      BY <1>1 DEF Files
    <3>. QED
      BY <2>1, <3>1, NoneAssumption DEF Applied
  <2>2. CASE secret[Me] # None
    <3>1. secret[Me] \in Files /\ NameOf[secret[Me].src] = Me
      BY <1>1, <1>3, <2>2 DEF AuthInv, NamedAfterSource
    <3>2. secret[Me].src = w.key
      BY <1>1, <3>1 DEF Files, Me
    <3>. DEFINE f == [secret[Me] EXCEPT !.spec = w.obj.spec]
    <3>3. f \in Files /\ f.src = w.key
      BY <1>1, <3>1, <3>2 DEF Files
    <3>4. Applied(secret[Me], w.key, w.obj.spec) = f
      BY <2>2 DEF Applied
    <3>. HIDE DEF f
    <3>. QED
      BY <3>3, <3>4, NoneAssumption
  <2>. QED
    BY <2>1, <2>2
<1>5. OwnSecret(Me, w.key)'
  BY <1>1, <1>2, <1>3, <1>4 DEF OwnSecret, Me
<1>6. \A n \in Names : n # Me => secret'[n] = secret[n]
  BY <1>1, <1>2, <1>3
<1>7. secret'[Me] # None /\ secret'[Me].src = w.key
  BY <1>1, <1>2, <1>3, <1>4
<1>8. NamedAfterSource'
  BY <1>2, <1>6, <1>7 DEF AuthInv, NamedAfterSource, Me
<1>9. AuthKept'
  <2>1. job[Me] # None => job[Me].src = w.key
    <3>1. ASSUME job[Me] # None
          PROVE  job[Me].src \in CRs /\ NameOf[job[Me].src] = NameOf[w.key]
      BY <1>1, <1>3, <3>1 DEF AuthInv, NamedAfterSource, Jobs, Me
    <3>. QED
      BY <1>1, <3>1
  <2>. QED
    BY <1>2, <1>6, <1>7, <2>1 DEF AuthInv, AuthKept, OwnSecret
<1>10. SecretFirst'
  BY <1>5 DEF SecretFirst
<1>. QED
  BY <1>8, <1>9, <1>10 DEF AuthInv

LEMMA CreateAuth ==
    ASSUME Types, AuthInv, CreateJob
    PROVE  AuthInv'
<1>1. w.key \in CRs /\ Me \in Names /\ w.obj.spec \in Specs /\ At("createJob")
  BY CopyTypes DEF CreateJob, At
<1>2. w'.point \in {"idle", "running"} /\ secret' = secret
  <2>1. w' = Idle \/ w'.point = "running"
    BY DEF CreateJob, Goto, Error, Return, Types, TypeOK
  <2>. QED
    BY <2>1 DEF CreateJob, Idle
<1>. DEFINE new == ConstructJob(w.key, w.obj.spec, ConsultsDedup(w.obj.spec))
<1>3. new.src = w.key /\ new.auth = (w.obj.spec \in OwnAuth)
  BY DEF ConstructJob
<1>4. job' = job \/ job' = [job EXCEPT ![Me] = new]
  BY DEF CreateJob
<1>. HIDE DEF new
<1>5. NamedAfterSource'
  BY <1>1, <1>2, <1>3, <1>4 DEF AuthInv, NamedAfterSource, Types, TypeOK, BuildTypeOK, Me
<1>6. AuthKept'
  <2>1. new.auth => OwnSecret(Me, new.src)
    BY <1>1, <1>3 DEF AuthInv, SecretFirst, At
  <2>. QED
    BY <1>1, <1>2, <1>4, <2>1 DEF AuthInv, AuthKept, OwnSecret, Types, TypeOK, BuildTypeOK
<1>7. SecretFirst'
  BY <1>2 DEF SecretFirst
<1>. QED
  BY <1>5, <1>6, <1>7 DEF AuthInv

(* Pods leave the Secrets alone, and of the Jobs change the state only.    *)
LEMMA BuildsAuth ==
    ASSUME Types, AuthInv, Builds
    PROVE  AuthInv'
<1>1. w' = w
  BY DEF Builds
<1>2. ASSUME NEW m \in Names, NEW s \in {"active", "succeeded", "failed"}, job[m] # None,
             job' = [job EXCEPT ![m].state = s]
      PROVE  \A n \in Names :
                job'[n] # None => /\ job[n] # None
                                  /\ job'[n].src = job[n].src
                                  /\ job'[n].auth = job[n].auth
  <2>1. job \in [Names -> Jobs \cup {None}] /\ job[m] \in Jobs
    BY <1>2 DEF Types, TypeOK, BuildTypeOK
  <2>2. /\ [job[m] EXCEPT !.state = s].src = job[m].src
        /\ [job[m] EXCEPT !.state = s].auth = job[m].auth
    BY <2>1 DEF Jobs
  <2>. QED
    BY <1>2, <2>1, <2>2
<1>3. ASSUME secret' = secret,
             \A n \in Names :
                job'[n] # None => /\ job[n] # None
                                  /\ job'[n].src = job[n].src
                                  /\ job'[n].auth = job[n].auth
      PROVE  AuthInv'
  BY <1>1, <1>3 DEF AuthInv, NamedAfterSource, AuthKept, SecretFirst, OwnSecret, Me
<1>4. ASSUME NEW m \in Names, pod[m]["job"] # None
      PROVE  job[m] # None
  BY <1>4 DEF Types, PodShape
<1>5. ASSUME NEW n \in Names, PodStarts(n)
      PROVE  AuthInv'
  BY <1>2, <1>3, <1>5 DEF PodStarts
<1>6. ASSUME NEW n \in Names, NEW g \in Slots, PodSucceeds(n, g)
      PROVE  AuthInv'
  BY <1>2, <1>3, <1>4, <1>6 DEF PodSucceeds
<1>7. ASSUME NEW n \in Names, NEW g \in Slots, NEW c \in Causes, PodFails(n, g, c)
      PROVE  AuthInv'
  BY <1>2, <1>3, <1>4, <1>7 DEF PodFails
<1>8. ASSUME NEW n \in Names, NEW g \in Slots,
             PodMounts(n, g) \/ PodPushes(n, g) \/ PodCollected(n, g)
      PROVE  AuthInv'
  BY <1>3, <1>8 DEF PodMounts, PodPushes, PodCollected
<1>. QED
  BY <1>5, <1>6, <1>7, <1>8 DEF Builds, BuildNext

LEMMA ReconcileAuth ==
    ASSUME \A j, k \in CRs : NameOf[j] = NameOf[k] => j = k,
           Types, CleanupInv, AuthInv, Reconcile
    PROVE  AuthInv'
<1>. w \in [point: Points, key: CRs \cup {None}, obj: ImagePatches \cup {None},
            fresh: BOOLEAN, manifest: Images \cup {None}]
  BY DEF Types, TypeOK
<1>1. CASE DeleteJobs \/ DeleteConfigMaps \/ DeleteSecrets
  BY <1>1, DeleteAuth
<1>2. CASE ApplyAuthSecret
  BY <1>2, ApplyAuth
<1>3. CASE CreateJob
  BY <1>3, CreateAuth
<1>4. CASE ApplyConfigMap
  <2>1. /\ UNCHANGED <<job, secret>>
        /\ w'.point = AfterConfigMap(w.obj.spec) /\ w'.obj = w.obj
    BY <1>4 DEF ApplyConfigMap, Goto
  <2>2. w.obj.spec \in OwnAuth => w'.point = "authSecret"
    BY <2>1 DEF AfterConfigMap
  <2>. QED
    BY <2>1, <2>2 DEF AuthInv, NamedAfterSource, AuthKept, SecretFirst, OwnSecret
<1>5. CASE DedupHead \/ RetagGet
  BY <1>5, OnwardAuth DEF DedupHead, RetagGet, Goto, At, buildVars
<1>6. CASE RetagPut
  <2>1. w'.point = "hit" /\ UNCHANGED <<job, secret>>
    BY <1>6 DEF RetagPut
  <2>. QED
    BY <2>1, QuietAuth
<1>7. ASSUME NEW k \in CRs, Fetch(k)
      PROVE  AuthInv'
  <2>1. w'.point \in {"idle", "deleteJobs", "inspect", "addFinalizer"}
    <3>1. w' = Idle \/ w'.point = Entry(crCache[k])
      BY <1>7 DEF Fetch, Idle
    <3>. QED
      BY <3>1 DEF Entry, Idle
  <2>. QED
    BY <1>7, <2>1, QuietAuth DEF Fetch, buildVars
<1>8. CASE Inspect \/ GetJob
  <2>1. w' = Idle \/ \E p \in {"reject", "getJob", "configMap", "observed"} : w'.point = p
    BY <1>8 DEF Inspect, GetJob, Goto, Return
  <2>2. w'.point \in {"idle", "reject", "getJob", "configMap", "observed"}
    BY <2>1 DEF Idle
  <2>. QED
    BY <1>8, <2>2, QuietAuth DEF Inspect, GetJob, buildVars
<1>9. CASE \/ AddFinalizer \/ RemoveFinalizer \/ Reject \/ WriteObserved
           \/ WriteDedupHit \/ WriteRunning \/ RecordBuildResult
  <2>1. w' = Idle \/ w'.point = "record"
    BY <1>9
    DEF AddFinalizer, RemoveFinalizer, Reject, WriteObserved, WriteDedupHit, WriteRunning,
        RecordBuildResult, Update, Error, Return, Goto
  <2>2. w'.point \in {"idle", "record"}
    BY <2>1 DEF Idle
  <2>3. UNCHANGED <<job, secret>>
    BY <1>9
    DEF AddFinalizer, RemoveFinalizer, Reject, WriteObserved, WriteDedupHit, WriteRunning,
        RecordBuildResult, buildVars
  <2>. QED
    BY <2>2, <2>3, QuietAuth
<1>. QED
  BY <1>1, <1>2, <1>3, <1>4, <1>5, <1>6, <1>7, <1>8, <1>9 DEF Reconcile, ReconcileStep

LEMMA AuthNext ==
    ASSUME \A j, k \in CRs : NameOf[j] = NameOf[k] => j = k,
           Types, CleanupInv, AuthInv, [Next]_vars
    PROVE  AuthInv'
<1>1. CASE FailOpen
  BY <1>1, OnwardAuth DEF FailOpen, Types, TypeOK
<1>2. CASE CallFails \/ Crash
  <2>1. w' = Idle
    BY <1>2 DEF CallFails, Crash, Error, Return
  <2>2. w'.point = "idle"
    BY <2>1 DEF Idle
  <2>. QED
    BY <1>2, <2>2, QuietAuth DEF CallFails, Crash, buildVars
<1>3. CASE Delivery \/ UNCHANGED vars
  BY <1>3, QuietAuth DEF Delivery, SyncCR, TimerFires, SyncJob, vars, buildVars
<1>4. CASE Users
  <2>1. w'.point = w.point /\ w'.key = w.key /\ w'.obj = w.obj
    BY <1>4 DEF Users, CreateCR, EditSpec, Touch, DeleteCR, UserWrite, Types, TypeOK
  <2>. QED
    BY <1>4, <2>1, QuietAuth DEF Users, CreateCR, EditSpec, Touch, DeleteCR, buildVars
<1>5. CASE ClassifyFails
  <2>1. w'.point = "observed" /\ UNCHANGED <<job, secret>>
    BY <1>5 DEF ClassifyFails, Goto, buildVars, Types, TypeOK
  <2>. QED
    BY <2>1, QuietAuth
<1>. QED
  BY <1>1, <1>2, <1>3, <1>4, <1>5, ReconcileAuth, BuildsAuth DEF Next, Faults

LEMMA AuthInit == Init => AuthInv
<1>. SUFFICES ASSUME Init
              PROVE  AuthInv
  OBVIOUS
<1>1. PICK old \in [Legacy -> Specs] :
        LET owner(n) == CHOOSE k \in Legacy : NameOf[k] = n
            held(n)  == \E k \in Legacy : NameOf[k] = n
            file(n)  == IF held(n) THEN [src |-> owner(n), spec |-> old[owner(n)]]
                        ELSE None
        IN
        /\ job = [n \in Names |->
                    IF held(n)
                    THEN [ConstructJob(owner(n), old[owner(n)], FALSE)
                            EXCEPT !.state = "failed"]
                    ELSE None]
        /\ secret = [n \in Names |->
                       IF held(n) /\ old[owner(n)] \in OwnAuth THEN file(n) ELSE None]
  BY DEF Init
<1>. DEFINE owner(n) == CHOOSE k \in Legacy : NameOf[k] = n
            held(n)  == \E k \in Legacy : NameOf[k] = n
<1>2. ASSUME NEW n, held(n)
      PROVE  owner(n) \in Legacy /\ NameOf[owner(n)] = n
  BY <1>2
<1>3. ASSUME NEW n \in Names
      PROVE  /\ job[n] # None => /\ held(n) /\ job[n].src = owner(n)
                                 /\ job[n].auth = (old[owner(n)] \in OwnAuth)
             /\ secret[n] # None => held(n) /\ secret[n].src = owner(n)
             /\ held(n) /\ old[owner(n)] \in OwnAuth
                  => secret[n] = [src |-> owner(n), spec |-> old[owner(n)]]
  BY <1>1 DEF ConstructJob
<1>. HIDE DEF owner, held
<1>4. ASSUME NEW n \in Names, held(n)
      PROVE  [src |-> owner(n), spec |-> old[owner(n)]] # None
  <2>1. [src |-> owner(n), spec |-> old[owner(n)]] \in Files
    BY <1>2, <1>4, ControllerAssumption DEF Files
  <2>. QED
    BY <2>1, NoneAssumption
<1>5. NamedAfterSource
  BY <1>2, <1>3 DEF NamedAfterSource
<1>6. AuthKept
  BY <1>3, <1>4 DEF AuthKept, OwnSecret
<1>7. SecretFirst
  <2>1. w = Idle
    BY DEF Init
  <2>. QED
    BY <2>1 DEF SecretFirst, Idle
<1>. QED
  BY <1>5, <1>6, <1>7 DEF AuthInv

(* When no two CRs share a name, the Secret that a Job mounts is there and *)
(* is its CR's own as long as the Job is, through edits, recreations and   *)
(* crashes in the middle of a clean-up: the invariant of the run "edit"    *)
(* for every such choice of the constants.  That names are shared is all   *)
(* that is wrong in the run "auth_shared".                                 *)
THEOREM AuthHolds ==
    ASSUME \A j, k \in CRs : NameOf[j] = NameOf[k] => j = k
    PROVE  Spec => []AuthFollowsTheCR
<1>1. Types /\ CleanupInv /\ AuthInv /\ [Next]_vars => AuthInv'
  BY AuthNext
<1>2. AuthInv => AuthFollowsTheCR
  BY DEF AuthInv, AuthKept, OwnSecret, AuthFollowsTheCR
<1>. QED
  BY <1>1, <1>2, AuthInit, CleanupHolds, PTL DEF Spec

-----------------------------------------------------------------------------
(* The label of a failure: a copy has the server's message until the       *)
(* reconcile computes one of its own, and that one is the catch-all label  *)
(* only where the copy named no cause.                                     *)

MessageOf(k) == cr[k].message

Unread == Points \ {"idle", "reject", "observed", "hit", "record"}

CopyUnread == w.fresh /\ w.point \in Unread => w.obj.message = MessageOf(w.key)

Downgrades(old, new) ==
    old \in FailureLabels /\ new # old /\ new = "ControllerInternalError"

CopyNamesCause ==
    w.fresh /\ w.point \in {"reject", "observed", "hit"}
        => ~Downgrades(MessageOf(w.key), w.obj.message)

MessageInv == CopyUnread /\ CopyNamesCause

LEMMA IdleMessage ==
    ASSUME w'.point \in {"idle", "record"}
    PROVE  MessageInv'
  BY DEF MessageInv, CopyUnread, CopyNamesCause, Unread

(* On to another point, with the message of the copy.                      *)
LEMMA OnwardMessage ==
    ASSUME MessageInv, cr' = cr, w'.key = w.key, w'.fresh => w.fresh,
           w'.obj.message = w.obj.message,
           \/ w'.point = w.point
           \/ w.point \in Unread /\ w'.point \in Unread
    PROVE  MessageInv'
  BY DEF MessageInv, CopyUnread, CopyNamesCause, MessageOf, Downgrades, Unread

LEMMA FetchMessage ==
    ASSUME Types, CleanupInv, NEW k \in CRs, Fetch(k)
    PROVE  MessageInv'
<1>1. CASE Entry(crCache[k]) = "idle"
  BY <1>1, IdleMessage DEF Fetch, Idle
<1>2. CASE Entry(crCache[k]) # "idle"
  <2>1. /\ w'.point = Entry(crCache[k]) /\ w'.key = k /\ w'.obj = crCache[k]
        /\ w'.fresh = (k \notin crLag) /\ cr' = cr
    BY <1>2 DEF Fetch, Idle, crVars
  <2>2. w'.point \in {"deleteJobs", "inspect", "addFinalizer"}
    BY <1>2, <2>1 DEF Entry
  <2>. QED
    BY <2>1, <2>2
    DEF CleanupInv, CacheCurrent, MessageInv, CopyUnread, CopyNamesCause, MessageOf, Unread
<1>. QED
  BY <1>1, <1>2

(* The steps that give the copy a message.                                 *)
LEMMA ReadMessage ==
    ASSUME Types, MessageInv, Inspect \/ GetJob \/ RetagPut
    PROVE  MessageInv'
<1>. ~At("idle")
  BY DEF At, Inspect, GetJob, RetagPut
<1>. w.obj \in ImagePatches /\ w.key \in CRs /\ Me \in Names
  BY CopyTypes
<1>1. w \in [point: Points, key: CRs \cup {None}, obj: ImagePatches \cup {None},
             fresh: BOOLEAN, manifest: Images \cup {None}]
  BY DEF Types, TypeOK
<1>2. cr' = cr
  BY DEF Inspect, GetJob, RetagPut, crVars
<1>3. ASSUME NEW o, NEW p \in {"reject", "observed", "hit"}, w.point \in Unread,
             w'.point = p, w'.obj = o, w'.key = w.key, w'.fresh = w.fresh,
             ~Downgrades(w.obj.message, o.message)
      PROVE  MessageInv'
  BY <1>2, <1>3 DEF MessageInv, CopyUnread, CopyNamesCause, MessageOf, Unread
<1>4. CASE Inspect
  <2>. DEFINE o == [w.obj EXCEPT !.phase = "Failed", !.message = "ImageOSNotSupported"]
  <2>1. /\ w.point = "inspect"
        /\ \/ w' = [w EXCEPT !.point = "reject", !.obj = o]
           \/ w' = [w EXCEPT !.point = "getJob", !.obj = w.obj]
    BY <1>4 DEF Inspect, Goto, At
  <2>2. o.message = "ImageOSNotSupported"
    BY DEF ImagePatches
  <2>. HIDE DEF o
  <2>3. CASE w' = [w EXCEPT !.point = "reject", !.obj = o]
    BY <1>1, <1>3, <2>1, <2>2, <2>3 DEF Downgrades, Unread, Points
  <2>4. CASE w' = [w EXCEPT !.point = "getJob", !.obj = w.obj]
    BY <1>1, <1>2, <2>1, <2>4, OnwardMessage DEF Unread, Points
  <2>. QED
    BY <2>1, <2>3, <2>4
<1>5. CASE GetJob
  <2>1. jobCache[Me] # None => ~Downgrades(w.obj.message, Observed(w.obj, jobCache[Me]).message)
    BY DEF Observed, FailureMessage, Downgrades, ImagePatches, Jobs, Types, TypeOK
  <2>2. \/ w' = Idle
        \/ \E o : /\ w' = [w EXCEPT !.point = "observed", !.obj = o]
                  /\ ~Downgrades(w.obj.message, o.message)
        \/ w' = [w EXCEPT !.point = "configMap", !.obj = w.obj]
    BY <1>5, <2>1 DEF GetJob, Goto, Return
  <2>3. w.point = "getJob"
    BY <1>5 DEF GetJob, At
  <2>4. CASE w' = Idle
    BY <2>4, IdleMessage DEF Idle
  <2>5. ASSUME NEW o, ~Downgrades(w.obj.message, o.message),
               w' = [w EXCEPT !.point = "observed", !.obj = o]
        PROVE  MessageInv'
    BY <1>1, <1>3, <2>3, <2>5 DEF Unread, Points
  <2>6. CASE w' = [w EXCEPT !.point = "configMap", !.obj = w.obj]
    BY <1>1, <1>2, <2>3, <2>6, OnwardMessage DEF Unread, Points
  <2>. QED
    BY <2>2, <2>4, <2>5, <2>6
<1>6. CASE RetagPut
  <2>1. DedupHit(w.obj).message = "build skipped: content match in registry"
    BY DEF DedupHit, ImagePatches
  <2>2. w.point = "retagPut" /\ w' = [w EXCEPT !.point = "hit", !.obj = DedupHit(w.obj), !.manifest = None]
    BY <1>6 DEF RetagPut, At
  <2>. QED
    BY <1>1, <1>3, <2>1, <2>2 DEF Downgrades, Unread, Points
<1>. QED
  BY <1>4, <1>5, <1>6

(* The other steps of the worker but its updates.                          *)
LEMMA MoveMessage ==
    ASSUME Types, MessageInv,
           \/ DeleteJobs \/ DeleteConfigMaps \/ DeleteSecrets
           \/ ApplyConfigMap \/ ApplyAuthSecret
           \/ DedupHead \/ RetagGet \/ CreateJob \/ RecordBuildResult
           \/ FailOpen \/ CallFails
    PROVE  MessageInv'
<1>. ~At("idle")
  BY DEF At, DeleteJobs, DeleteConfigMaps, DeleteSecrets, ApplyConfigMap, ApplyAuthSecret,
         DedupHead, RetagGet, CreateJob, RecordBuildResult, FailOpen, CallFails
<1>. w.obj \in ImagePatches
  BY CopyTypes
<1>1. w \in [point: Points, key: CRs \cup {None}, obj: ImagePatches \cup {None},
             fresh: BOOLEAN, manifest: Images \cup {None}]
  BY DEF Types, TypeOK
<1>2. cr' = cr
  BY DEF DeleteJobs, DeleteConfigMaps, DeleteSecrets, ApplyConfigMap, ApplyAuthSecret,
         DedupHead, RetagGet, CreateJob, RecordBuildResult, FailOpen, CallFails, crVars
<1>3. CASE DeleteJobs \/ DeleteConfigMaps \/ DeleteSecrets
  BY <1>1, <1>2, <1>3, OnwardMessage
  DEF DeleteJobs, DeleteConfigMaps, DeleteSecrets, Goto, At, AfterDelete, Unread, Points
<1>4. CASE ApplyConfigMap \/ ApplyAuthSecret
  BY <1>1, <1>2, <1>4, OnwardMessage
  DEF ApplyConfigMap, ApplyAuthSecret, Goto, At, AfterConfigMap, AfterAuth, Unread, Points
<1>5. CASE DedupHead \/ RetagGet \/ FailOpen
  BY <1>1, <1>2, <1>5, OnwardMessage
  DEF DedupHead, RetagGet, FailOpen, Goto, At, Unread, Points
<1>6. CASE CreateJob
  <2>. DEFINE o == [w.obj EXCEPT !.phase = "Running", !.jobName = TRUE,
                                 !.image = Target[w.obj.spec]]
  <2>1. o.message = w.obj.message
    BY DEF ImagePatches
  <2>2. w.point = "createJob" /\ (w' = Idle \/ w' = [w EXCEPT !.point = "running", !.obj = o])
    BY <1>6 DEF CreateJob, Goto, Error, Return, At
  <2>. HIDE DEF o
  <2>3. CASE w' = Idle
    BY <2>3, IdleMessage DEF Idle
  <2>4. CASE w' = [w EXCEPT !.point = "running", !.obj = o]
    BY <1>1, <1>2, <2>1, <2>2, <2>4, OnwardMessage DEF Unread, Points
  <2>. QED
    BY <2>2, <2>3, <2>4
<1>7. CASE RecordBuildResult \/ CallFails
  BY <1>7, IdleMessage DEF RecordBuildResult, CallFails, Error, Return, Idle
<1>. QED
  BY <1>3, <1>4, <1>5, <1>6, <1>7

LEMMA WriteMessage ==
    ASSUME Types,
           \/ AddFinalizer \/ RemoveFinalizer \/ Reject
           \/ WriteObserved \/ WriteDedupHit \/ WriteRunning
    PROVE  MessageInv'
<1>1. CASE AddFinalizer \/ RemoveFinalizer \/ Reject \/ WriteRunning
  BY <1>1, IdleMessage
  DEF AddFinalizer, RemoveFinalizer, Reject, WriteRunning, Update, Error, Return, Idle
<1>2. CASE WriteObserved \/ WriteDedupHit
  <2>1. w' = Idle \/ w' = [w EXCEPT !.point = "record", !.obj = w.obj]
    BY <1>2 DEF WriteObserved, WriteDedupHit, Update, Error, Return, Goto
  <2>2. w \in [point: Points, key: CRs \cup {None}, obj: ImagePatches \cup {None},
               fresh: BOOLEAN, manifest: Images \cup {None}]
    BY DEF Types, TypeOK
  <2>3. CASE w' = Idle
    BY <2>3, IdleMessage DEF Idle
  <2>4. CASE w' = [w EXCEPT !.point = "record", !.obj = w.obj]
    BY <2>2, <2>4, IdleMessage
  <2>. QED
    BY <2>1, <2>3, <2>4
<1>. QED
  BY <1>1, <1>2

(* A write by a user makes the copy stale, or is to another CR.            *)
LEMMA UserMessage ==
    ASSUME Types, MessageInv, Users
    PROVE  MessageInv'
<1>1. w \in [point: Points, key: CRs \cup {None}, obj: ImagePatches \cup {None},
             fresh: BOOLEAN, manifest: Images \cup {None}]
      /\ cr \in [CRs -> ImagePatches \cup {None}]
  BY DEF Types, TypeOK
<1>2. PICK k \in CRs : /\ w' = [w EXCEPT !.fresh = w.fresh /\ w.key # k]
                       /\ \/ cr' = cr
                          \/ \E o : cr' = [cr EXCEPT ![k] = o]
  BY DEF Users, CreateCR, EditSpec, Touch, DeleteCR, UserWrite, Store
<1>3. w'.point = w.point /\ w'.key = w.key /\ w'.obj = w.obj
      /\ (w'.fresh => w.fresh /\ w.key # k)
  BY <1>1, <1>2
<1>4. w.key # k /\ w.key \in CRs => cr'[w.key] = cr[w.key]
  BY <1>1, <1>2
<1>5. w.point # "idle" => w.key \in CRs
  BY CopyTypes DEF At
<1>. QED
  BY <1>3, <1>4, <1>5 DEF MessageInv, CopyUnread, CopyNamesCause, MessageOf, Unread

LEMMA MessageNext == Types /\ CleanupInv /\ MessageInv /\ [Next]_vars => MessageInv'
<1>. SUFFICES ASSUME Types, CleanupInv, MessageInv, [Next]_vars
              PROVE  MessageInv'
  OBVIOUS
<1>1. CASE Delivery \/ Builds \/ UNCHANGED vars
  <2>1. UNCHANGED <<cr, w>>
    BY <1>1 DEF Delivery, SyncCR, TimerFires, SyncJob, Builds, crVars, vars
  <2>. QED
    BY <2>1 DEF MessageInv, CopyUnread, CopyNamesCause, MessageOf
<1>2. CASE Crash
  BY <1>2, IdleMessage DEF Crash, Idle
<1>3. CASE ClassifyFails
  <2>. DEFINE o == [w.obj EXCEPT !.phase = "Failed", !.message = "ControllerInternalError"]
  <2>1. /\ w.point = "getJob" /\ w.obj.message \notin FailureLabels /\ cr' = cr
        /\ w' = [w EXCEPT !.point = "observed", !.obj = o]
    BY <1>3 DEF ClassifyFails, Goto, At, crVars
  <2>. HIDE DEF o
  <2>2. /\ w'.point = "observed" /\ w'.key = w.key /\ w'.fresh = w.fresh
    BY <2>1 DEF Types, TypeOK
  <2>3. w.fresh => MessageOf(w.key) \notin FailureLabels
    BY <2>1 DEF MessageInv, CopyUnread, Unread, Points
  <2>. QED
    BY <2>1, <2>2, <2>3
    DEF MessageInv, CopyUnread, CopyNamesCause, Downgrades, MessageOf, Unread
<1>. QED
  BY <1>1, <1>2, <1>3, FetchMessage, ReadMessage, MoveMessage, WriteMessage, UserMessage
  DEF Next, Reconcile, ReconcileStep, Faults

LEMMA MessageInit == Init => MessageInv
<1>. SUFFICES ASSUME Init
              PROVE  MessageInv
  OBVIOUS
<1>1. w = Idle
  BY DEF Init
<1>. QED
  BY <1>1 DEF Idle, MessageInv, CopyUnread, CopyNamesCause, Unread

KeepsLabels ==
    \A k \in CRs :
        InPhase(k, "Failed") /\ cr[k].message \in FailureLabels /\ cr'[k] # None
            => \/ cr'[k].message = cr[k].message
               \/ cr'[k].message # "ControllerInternalError"

LEMMA StoreLabels ==
    ASSUME Types, NEW k \in CRs, NEW o, Store(k, o),
           cr[k] # None /\ o # None => ~Downgrades(cr[k].message, o.message)
    PROVE  KeepsLabels
  BY DEF Types, TypeOK, Store, KeepsLabels, InPhase, Exists, Downgrades

LEMMA UpdatesKeepLabels ==
    ASSUME Types, MessageInv,
           \/ AddFinalizer \/ RemoveFinalizer \/ Reject
           \/ WriteObserved \/ WriteDedupHit \/ WriteRunning
    PROVE  KeepsLabels
<1>. ~At("idle")
  BY DEF At, AddFinalizer, RemoveFinalizer, Reject, WriteObserved, WriteDedupHit, WriteRunning
<1>1. w.obj \in ImagePatches /\ w.key \in CRs
  BY CopyTypes
<1>2. CASE UNCHANGED crVars
  BY <1>2 DEF KeepsLabels, crVars
<1>3. CASE w.fresh
  <2>1. CASE AddFinalizer
    <3>1. [w.obj EXCEPT !.finalizer = TRUE].message = w.obj.message
      BY <1>1 DEF ImagePatches
    <3>2. w.obj.message = MessageOf(w.key)
      BY <1>3, <2>1 DEF AddFinalizer, At, MessageInv, CopyUnread, Unread, Points
    <3>. QED
      BY <1>1, <1>3, <2>1, <3>1, <3>2, StoreLabels
      DEF AddFinalizer, Update, Downgrades, MessageOf
  <2>2. CASE RemoveFinalizer
    BY <1>1, <1>3, <2>2, StoreLabels DEF RemoveFinalizer, Update
  <2>3. CASE Reject \/ WriteObserved \/ WriteDedupHit \/ WriteRunning
    <3>1. ~Downgrades(MessageOf(w.key), w.obj.message)
      BY <1>3, <2>3
      DEF Reject, WriteObserved, WriteDedupHit, WriteRunning, At, MessageInv, CopyUnread,
          CopyNamesCause, Downgrades, Unread, Points
    <3>2. Store(w.key, w.obj)
      BY <1>3, <2>3 DEF Reject, WriteObserved, WriteDedupHit, WriteRunning, Update
    <3>. QED
      BY <1>1, <3>1, <3>2, StoreLabels DEF MessageOf
  <2>. QED
    BY <2>1, <2>2, <2>3
<1>4. w.fresh \/ UNCHANGED crVars
  BY DEF AddFinalizer, RemoveFinalizer, Reject, WriteObserved, WriteDedupHit, WriteRunning,
         Update
<1>. QED
  BY <1>2, <1>3, <1>4

LEMMA UsersKeepLabels ==
    ASSUME Types, Users
    PROVE  KeepsLabels
<1>1. ASSUME NEW k \in CRs, NEW s \in Wanted[k], CreateCR(k, s)
      PROVE  KeepsLabels
  BY <1>1, StoreLabels DEF CreateCR, UserWrite
<1>2. ASSUME NEW k \in CRs, NEW s \in Wanted[k], EditSpec(k, s)
      PROVE  KeepsLabels
  <2>1. [cr[k] EXCEPT !.spec = s].message = cr[k].message
    BY <1>2 DEF EditSpec, Types, TypeOK, ImagePatches
  <2>. QED
    BY <1>2, <2>1, StoreLabels DEF EditSpec, UserWrite, Downgrades
<1>3. ASSUME NEW k \in CRs, Touch(k)
      PROVE  KeepsLabels
  BY <1>3 DEF Touch, KeepsLabels
<1>4. ASSUME NEW k \in CRs, DeleteCR(k)
      PROVE  KeepsLabels
  <2>1. [cr[k] EXCEPT !.deleting = TRUE].message = cr[k].message
    BY <1>4 DEF DeleteCR, Types, TypeOK, ImagePatches
  <2>. QED
    BY <1>4, <2>1, StoreLabels DEF DeleteCR, UserWrite, Downgrades
<1>. QED
  BY <1>1, <1>2, <1>3, <1>4 DEF Users

(* A label that names a cause of a failure is never replaced by the        *)
(* catch-all label, although the Pod and its log go and every reconcile    *)
(* reads its copy anew.  The property of the run "progress" for every      *)
(* value of the constants.                                                 *)
THEOREM LabelsKept == Spec => NoSilentDowngrade
<1>1. Types /\ CleanupInv /\ MessageInv /\ [Next]_vars => [KeepsLabels]_vars
  <2>. SUFFICES ASSUME Types, MessageInv, [Next]_vars
                PROVE  KeepsLabels
    OBVIOUS
  <2>1. CASE cr' = cr
    BY <2>1 DEF KeepsLabels
  <2>. QED
    BY <2>1, UpdatesKeepLabels, UsersKeepLabels, OthersKeepCRs
    DEF Next, Reconcile, ReconcileStep
<1>2. Types /\ CleanupInv /\ MessageInv /\ [Next]_vars => MessageInv'
  BY MessageNext
<1>3. NoSilentDowngrade <=> [][KeepsLabels]_vars
  BY DEF NoSilentDowngrade, KeepsLabels
<1>. QED
  BY <1>1, <1>2, <1>3, MessageInit, CleanupHolds, PTL DEF Spec
=============================================================================
