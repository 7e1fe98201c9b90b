----------------------------- MODULE PublishProofs -----------------------------
(***************************************************************************)
(* Proof that a success has an image to show, where the content of a CR    *)
(* does not change: all specs that the CRs of one name are given have one  *)
(* content, and so have all specs of one target or of one hash.            *)
(*                                                                         *)
(* The first half (RegistryInv) is about the registry: it holds the        *)
(* content its references stand for, and a Job that a cache shows to have  *)
(* succeeded, whichever Job that is, has pushed its target.  The second    *)
(* (ClaimInv) is about the status: the image it names has been pushed, or  *)
(* it is the target of the CR's own Job.                                   *)
(***************************************************************************)
EXTENDS StatusProofs

OneContent ==
    /\ \A j, k \in CRs : NameOf[j] = NameOf[k] =>
          \A s \in Wanted[j], t \in Wanted[k] : Image[s] = Image[t]
    /\ \A s, t \in Specs :
          Target[s] = Target[t] \/ DedupRef[s] = DedupRef[t] => Image[s] = Image[t]

(* The specs that a build of name n may be for.                            *)
Asked(n) == UNION {Wanted[k] : k \in {j \in CRs : NameOf[j] = n}}

Contents ==
    \A s \in Specs :
        /\ registry[Target[s]] \in {None, Image[s]}
        /\ registry[DedupRef[s]] \in {None, Image[s]}

(* Objects and copies hold specs that were asked for under their name.     *)
CopiesAsked ==
    /\ \A k \in CRs : \A o \in {cr[k], crCache[k]} : o # None => o.spec \in Wanted[k]
    /\ w.point # "idle" => w.obj.spec \in Wanted[w.key]

FilesAsked ==
    \A n \in Names : \A o \in {job[n], cm[n]} : o # None => o.spec \in Asked(n)

PodAsked(n, p, tags) ==
    /\ p.spec \in Asked(n)
    /\ p.mounted \in Asked(n) \cup {None}
    /\ p.stage \in {"pushed", "done"} => tags[Target[p.spec]] # None

PodsAsked ==
    \A n \in Names :
        /\ \A g \in Slots : pod[n][g] # None => PodAsked(n, pod[n][g], registry)
        /\ pod[n]["job"] # None => pod[n]["job"].spec = job[n].spec

JobDone(j) == j # None /\ j.state = "succeeded" => registry[Target[j.spec]] # None

JobsDone == \A n \in Names : JobDone(job[n]) /\ JobDone(jobCache[n])

(* The cache and the server do not show two different Jobs: a Job is only  *)
(* created after the cache has shown that there is none.                   *)
JobSeen ==
    /\ \A n \in Names :
          job[n] # None /\ jobCache[n] # None => jobCache[n].spec = job[n].spec
    /\ NoneSeen

Retagging ==
    /\ At("retagGet") => registry[DedupRef[w.obj.spec]] # None
    /\ At("retagPut") => w.manifest = Image[w.obj.spec]

RegistryInv ==
    /\ Contents
    /\ CopiesAsked
    /\ FilesAsked
    /\ PodsAsked
    /\ JobsDone
    /\ JobSeen
    /\ Retagging

-----------------------------------------------------------------------------
(* The specs that were asked for.                                          *)

LEMMA WantedAsked ==
    ASSUME NEW k \in CRs, NEW s \in Wanted[k]
    PROVE  s \in Specs /\ s \in Asked(NameOf[k])
  BY ControllerAssumption DEF Asked

LEMMA AskedSame ==
    ASSUME OneContent, NEW n, NEW s \in Asked(n), NEW t \in Asked(n)
    PROVE  s \in Specs /\ Image[s] = Image[t]
<1>1. PICK j \in CRs : NameOf[j] = n /\ s \in Wanted[j]
  BY DEF Asked
<1>2. PICK k \in CRs : NameOf[k] = n /\ t \in Wanted[k]
  BY DEF Asked
<1>. QED
  BY <1>1, <1>2, ControllerAssumption DEF OneContent

LEMMA CopyAsked ==
    ASSUME Types, CopiesAsked, ~At("idle")
    PROVE  w.obj.spec \in Wanted[w.key] /\ w.obj.spec \in Asked(Me)
  BY CopyTypes, WantedAsked DEF CopiesAsked, At, Me

(* The copy of a reconcile is the cache's, and keeps its spec.             *)
LEMMA CopyStep ==
    ASSUME Types, [Next]_vars
    PROVE  \/ w'.point = "idle"
           \/ w.point # "idle" /\ w'.key = w.key /\ w'.obj.spec = w.obj.spec
           \/ \E k \in CRs :
                 w'.key = k /\ w'.obj = crCache[k] /\ crCache[k] \in ImagePatches
<1>. w \in [point: Points, key: CRs \cup {None}, obj: ImagePatches \cup {None},
            fresh: BOOLEAN, manifest: Images \cup {None}]
  BY DEF Types, TypeOK
<1>. DEFINE Same == w.point # "idle" /\ w'.key = w.key /\ w'.obj.spec = w.obj.spec
<1>1. ASSUME NEW k \in CRs, Fetch(k)
      PROVE  \/ w'.point = "idle"
             \/ w'.key = k /\ w'.obj = crCache[k] /\ crCache[k] \in ImagePatches
  BY <1>1, EntryTypes DEF Fetch, Idle, Types, TypeOK
<1>2. CASE \/ AddFinalizer \/ RemoveFinalizer \/ Reject \/ WriteObserved
           \/ WriteDedupHit \/ WriteRunning \/ RecordBuildResult
  <2>1. \/ w' = Idle
        \/ w.point # "idle" /\ w' = [w EXCEPT !.point = "record", !.obj = w.obj]
    BY <1>2
    DEF AddFinalizer, RemoveFinalizer, Reject, WriteObserved, WriteDedupHit, WriteRunning,
        RecordBuildResult, Update, Error, Return, Goto, At
  <2>2. w' = Idle => w'.point = "idle"
    BY DEF Idle
  <2>3. w.point # "idle" /\ w' = [w EXCEPT !.point = "record", !.obj = w.obj] => Same
    OBVIOUS
  <2>. QED
    BY <2>1, <2>2, <2>3
<1>3. CASE \/ DeleteJobs \/ DeleteConfigMaps \/ DeleteSecrets \/ DedupHead \/ RetagGet
           \/ ApplyConfigMap \/ ApplyAuthSecret
  BY <1>3
  DEF DeleteJobs, DeleteConfigMaps, DeleteSecrets, DedupHead, RetagGet, ApplyConfigMap,
      ApplyAuthSecret, Goto, At
<1>4. CASE Inspect
  <2>. w.obj \in ImagePatches
    BY <1>4, CopyTypes DEF Inspect, At
  <2>1. [w.obj EXCEPT !.phase = "Failed", !.message = "ImageOSNotSupported"].spec
          = w.obj.spec
    BY DEF ImagePatches
  <2>. QED
    BY <1>4, <2>1 DEF Inspect, Goto, At
<1>5. CASE GetJob
  <2>. w.obj \in ImagePatches /\ Me \in Names
    BY <1>5, CopyTypes DEF GetJob, At
  <2>1. jobCache[Me] # None => Observed(w.obj, jobCache[Me]).spec = w.obj.spec
    BY DEF Observed, ImagePatches, Jobs, Types, TypeOK
  <2>2. \/ w' = Idle
        \/ w.point # "idle" /\ w' = [w EXCEPT !.point = "configMap", !.obj = w.obj]
        \/ \E o : /\ w.point # "idle" /\ o.spec = w.obj.spec
                  /\ w' = [w EXCEPT !.point = "observed", !.obj = o]
    BY <1>5, <2>1 DEF GetJob, Goto, Return, At
  <2>3. w' = Idle => w'.point = "idle"
    BY DEF Idle
  <2>. QED
    BY <2>2, <2>3
<1>6. CASE RetagPut
  <2>. w.obj \in ImagePatches
    BY <1>6, CopyTypes DEF RetagPut, At
  <2>. DEFINE o == DedupHit(w.obj)
  <2>1. o.spec = w.obj.spec
    BY DEF DedupHit, ImagePatches
  <2>2. /\ w.point # "idle"
        /\ w' = [w EXCEPT !.point = "hit", !.obj = o, !.manifest = None]
    BY <1>6 DEF RetagPut, At
  <2>. HIDE DEF o
  <2>. QED
    BY <2>1, <2>2
<1>7. CASE CreateJob
  <2>. w.obj \in ImagePatches
    BY <1>7, CopyTypes DEF CreateJob, At
  <2>. DEFINE o == [w.obj EXCEPT !.phase = "Running", !.jobName = TRUE,
                                 !.image = Target[w.obj.spec]]
  <2>1. o.spec = w.obj.spec
    BY DEF ImagePatches
  <2>2. At("createJob") /\ (Error \/ Goto("running", o))
    BY <1>7 DEF CreateJob
  <2>. HIDE DEF o
  <2>3. CASE Error
    BY <2>3 DEF Error, Return, Idle
  <2>4. CASE Goto("running", o)
    BY <2>1, <2>2, <2>4 DEF Goto, At
  <2>. QED
    BY <2>2, <2>3, <2>4
<1>8. CASE Faults
  <2>1. w' = Idle => w'.point = "idle"
    BY DEF Idle
  <2>. DEFINE o == [w.obj EXCEPT !.phase = "Failed", !.message = "ControllerInternalError"]
  <2>2. \/ w' = Idle
        \/ w.point # "idle" /\ w' = [w EXCEPT !.point = "createJob", !.manifest = None]
        \/ w.point # "idle" /\ w' = [w EXCEPT !.point = "observed", !.obj = o]
    BY <1>8
    DEF Faults, FailOpen, ClassifyFails, CallFails, Crash, Goto, Error, Return, At
  <2>3. w.point # "idle" => o.spec = w.obj.spec
    BY CopyTypes DEF ImagePatches, At
  <2>. HIDE DEF o
  <2>. QED
    BY <2>1, <2>2, <2>3
<1>9. CASE Delivery \/ Builds \/ Users \/ UNCHANGED vars
  <2>1. w' = w \/ \E k \in CRs : w' = [w EXCEPT !.fresh = w.fresh /\ w.key # k]
    BY <1>9
    DEF Delivery, SyncCR, TimerFires, SyncJob, Builds, Users, CreateCR, EditSpec, Touch,
        DeleteCR, UserWrite, vars
  <2>. QED
    BY <2>1
<1>. QED
  BY <1>1, <1>2, <1>3, <1>4, <1>5, <1>6, <1>7, <1>8, <1>9
  DEF Next, Reconcile, ReconcileStep

LEMMA CRStep ==
    ASSUME Types, CopiesAsked, [Next]_vars, NEW k \in CRs, cr'[k] # None
    PROVE  cr'[k].spec \in Wanted[k]
<1>. cr \in [CRs -> ImagePatches \cup {None}]
  BY DEF Types, TypeOK
<1>. cr[k] # None => cr[k].spec \in Wanted[k]
  BY DEF CopiesAsked
<1>1. ASSUME NEW j \in CRs, NEW o, cr' = [cr EXCEPT ![j] = o], o # None => o.spec \in Wanted[j]
      PROVE  cr'[k].spec \in Wanted[k]
  BY <1>1
<1>2. CASE \/ AddFinalizer \/ RemoveFinalizer \/ Reject
           \/ WriteObserved \/ WriteDedupHit \/ WriteRunning
  <2>1. w.key \in CRs /\ w.obj \in ImagePatches /\ w.obj.spec \in Wanted[w.key]
    BY <1>2, CopyTypes, CopyAsked
    DEF At, AddFinalizer, RemoveFinalizer, Reject, WriteObserved, WriteDedupHit, WriteRunning
  <2>2. [w.obj EXCEPT !.finalizer = TRUE].spec = w.obj.spec
    BY <2>1 DEF ImagePatches
  <2>3. cr' = cr \/ \E o \in {w.obj, [w.obj EXCEPT !.finalizer = TRUE], None} :
                       cr' = [cr EXCEPT ![w.key] = o]
    BY <1>2
    DEF AddFinalizer, RemoveFinalizer, Reject, WriteObserved, WriteDedupHit, WriteRunning,
        Update, Store, crVars
  <2>4. CASE cr' = cr
    BY <2>4
  <2>5. ASSUME NEW o \in {w.obj, [w.obj EXCEPT !.finalizer = TRUE], None},
               cr' = [cr EXCEPT ![w.key] = o]
        PROVE  cr'[k].spec \in Wanted[k]
    <3>1. o # None => o.spec \in Wanted[w.key]
      BY <2>1, <2>2, <2>5
    <3>. QED
      BY <1>1, <2>1, <2>5, <3>1
  <2>. QED
    BY <2>3, <2>4, <2>5
<1>3. ASSUME NEW j \in CRs, NEW s \in Wanted[j], CreateCR(j, s)
      PROVE  cr'[k].spec \in Wanted[k]
  BY <1>1, <1>3 DEF CreateCR, UserWrite, Store, NewImagePatch
<1>4. ASSUME NEW j \in CRs, NEW s \in Wanted[j], EditSpec(j, s)
      PROVE  cr'[k].spec \in Wanted[k]
  <2>1. [cr[j] EXCEPT !.spec = s].spec = s
    BY <1>4 DEF EditSpec, ImagePatches
  <2>. QED
    BY <1>1, <1>4, <2>1 DEF EditSpec, UserWrite, Store
<1>5. ASSUME NEW j \in CRs, DeleteCR(j)
      PROVE  cr'[k].spec \in Wanted[k]
  <2>1. /\ cr[j] # None /\ [cr[j] EXCEPT !.deleting = TRUE].spec = cr[j].spec
        /\ cr[j].spec \in Wanted[j]
    BY <1>5 DEF DeleteCR, ImagePatches, CopiesAsked
  <2>. QED
    BY <1>1, <1>5, <2>1 DEF DeleteCR, UserWrite, Store
<1>6. CASE cr' = cr
  BY <1>6
<1>7. CASE \/ \E j \in CRs : Fetch(j) \/ Touch(j)
           \/ DeleteJobs \/ DeleteConfigMaps \/ DeleteSecrets
           \/ Inspect \/ GetJob \/ ApplyConfigMap \/ ApplyAuthSecret
           \/ DedupHead \/ RetagGet \/ RetagPut \/ CreateJob \/ RecordBuildResult
           \/ Faults \/ Delivery \/ Builds \/ UNCHANGED vars
  BY <1>6, <1>7
  DEF Fetch, Touch, DeleteJobs, DeleteConfigMaps, DeleteSecrets, Inspect, GetJob,
      ApplyConfigMap, ApplyAuthSecret, DedupHead, RetagGet, RetagPut, CreateJob,
      RecordBuildResult, Faults, FailOpen, ClassifyFails, CallFails, Crash, Delivery, SyncCR,
      TimerFires, SyncJob, Builds, vars, crVars
<1>. QED
  BY <1>2, <1>3, <1>4, <1>5, <1>7 DEF Next, Reconcile, ReconcileStep, Users

LEMMA CopiesAskedNext ==
    ASSUME Types, CopiesAsked, [Next]_vars
    PROVE  CopiesAsked'
<1>1. \A k \in CRs : cr'[k] # None => cr'[k].spec \in Wanted[k]
  BY CRStep
<1>2. crCache' = crCache \/ crCache' = cr \/ \E k \in CRs : crCache' = [crCache EXCEPT ![k] = cr[k]]
  BY DEF Next, Reconcile, ReconcileStep, Fetch, DeleteJobs, DeleteConfigMaps, DeleteSecrets,
         Inspect, GetJob, ApplyConfigMap, ApplyAuthSecret, DedupHead, RetagGet, RetagPut,
         CreateJob, RecordBuildResult, AddFinalizer, RemoveFinalizer, Reject, WriteObserved,
         WriteDedupHit, WriteRunning, Update, Store, Faults, FailOpen, ClassifyFails,
         CallFails, Crash, Delivery, SyncCR, TimerFires, SyncJob, Builds, Users, CreateCR, EditSpec, Touch,
         DeleteCR, UserWrite, vars, crVars
<1>3. \A k \in CRs : crCache'[k] # None => crCache'[k].spec \in Wanted[k]
  BY <1>2 DEF CopiesAsked, Types, TypeOK
<1>4. w'.point # "idle" => w'.obj.spec \in Wanted[w'.key]
  <2>1. CASE w.point # "idle" /\ w'.key = w.key /\ w'.obj.spec = w.obj.spec
    BY <2>1 DEF CopiesAsked
  <2>2. ASSUME NEW k \in CRs, w'.key = k, w'.obj = crCache[k], crCache[k] \in ImagePatches
        PROVE  w'.obj.spec \in Wanted[w'.key]
    BY <2>2, ControllerAssumption DEF CopiesAsked
  <2>. QED
    BY <2>1, <2>2, CopyStep
<1>. QED
  BY <1>1, <1>3, <1>4 DEF CopiesAsked

-----------------------------------------------------------------------------
(* The registry and the objects of the build namespace.                    *)

(* No reference is emptied.                                                *)
TagsStay == \A r \in Refs : registry[r] # None => registry'[r] # None

LEMMA SpecRefs ==
    ASSUME NEW s \in Specs
    PROVE  /\ Target[s] \in Refs /\ DedupRef[s] \in Refs
           /\ Image[s] \in Images /\ Image[s] # None
  BY NoneAssumption DEF Refs, Images

LEMMA AskedSpecs ==
    ASSUME NEW n, NEW s \in Asked(n)
    PROVE  s \in Specs
  BY ControllerAssumption DEF Asked

(* The content of s is written where it belongs.                           *)
LEMMA Writes ==
    ASSUME OneContent, Types, Contents, NEW s \in Specs,
           NEW r \in {Target[s], DedupRef[s]},
           registry' = [registry EXCEPT ![r] = Image[s]]
    PROVE  Contents' /\ TagsStay /\ registry'[r] # None
<1>1. registry \in [Refs -> Images \cup {None}] /\ r \in Refs /\ Image[s] # None
  BY SpecRefs DEF Types, TypeOK, BuildTypeOK
<1>2. registry'[r] = Image[s] /\ \A q \in Refs : q # r => registry'[q] = registry[q]
  BY <1>1
<1>3. ASSUME NEW t \in Specs
      PROVE  registry'[Target[t]] \in {None, Image[t]} /\ registry'[DedupRef[t]] \in {None, Image[t]}
  <2>1. Target[t] \in Refs /\ DedupRef[t] \in Refs
    BY SpecRefs
  <2>2. Target[t] = r \/ DedupRef[t] = r => Image[t] = Image[s]
    BY RefsAssumption DEF OneContent
  <2>. QED
    BY <1>2, <2>1, <2>2 DEF Contents
<1>. QED
  BY <1>1, <1>2, <1>3 DEF Contents, TagsStay

LEMMA JobsDoneStay ==
    ASSUME Types, TagsStay, NEW j \in Jobs \cup {None}, JobDone(j)
    PROVE  JobDone(j)'
<1>1. j # None => Target[j.spec] \in Refs
  BY SpecRefs DEF Jobs
<1>. QED
  BY <1>1 DEF JobDone, TagsStay

LEMMA PodAskedStays ==
    ASSUME TagsStay, NEW n, NEW p, PodAsked(n, p, registry)
    PROVE  PodAsked(n, p, registry')
<1>1. Target[p.spec] \in Refs
  BY AskedSpecs, SpecRefs DEF PodAsked
<1>. QED
  BY <1>1 DEF PodAsked, TagsStay

(* Steps that leave Jobs, ConfigMaps, Pods and the registry alone.         *)
LEMMA QuietRegistry ==
    ASSUME RegistryInv, CopiesAsked', UNCHANGED <<job, cm, pod, registry, jobCache>>,
           w'.point \in Creating => \/ w.point \in Creating /\ w'.key = w.key
                                    \/ jobCache[NameOf[w'.key]] = None,
           Retagging'
    PROVE  RegistryInv' /\ TagsStay
<1>1. Contents' /\ FilesAsked' /\ PodsAsked' /\ JobsDone' /\ TagsStay
  BY DEF RegistryInv, Contents, FilesAsked, PodsAsked, PodAsked, JobsDone, JobDone, TagsStay
<1>2. JobSeen'
  BY DEF RegistryInv, JobSeen, NoneSeen, Me
<1>. QED
  BY <1>1, <1>2 DEF RegistryInv

LEMMA ReadRegistry ==
    ASSUME Types, RegistryInv, [Next]_vars, GetJob \/ DedupHead \/ RetagGet \/ Inspect
    PROVE  RegistryInv' /\ TagsStay
<1>. w \in [point: Points, key: CRs \cup {None}, obj: ImagePatches \cup {None},
            fresh: BOOLEAN, manifest: Images \cup {None}]
  BY DEF Types, TypeOK
<1>1. CopiesAsked' /\ UNCHANGED <<job, cm, pod, registry, jobCache>>
  BY CopiesAskedNext
  DEF RegistryInv, GetJob, DedupHead, RetagGet, Inspect, buildVars
<1>2. CASE GetJob
  <2>1. \/ w' = Idle
        \/ \E o : w' = [w EXCEPT !.point = "observed", !.obj = o]
        \/ jobCache[Me] = None /\ w' = [w EXCEPT !.point = "configMap", !.obj = w.obj]
    BY <1>2 DEF GetJob, Goto, Return
  <2>2. \/ w'.point \in {"idle", "observed"}
        \/ w'.point = "configMap" /\ w'.key = w.key /\ jobCache[Me] = None
    <3>1. w' = Idle => w'.point = "idle"
      BY DEF Idle
    <3>. QED
      BY <2>1, <3>1
  <2>3. Retagging'
    BY <2>2 DEF Retagging, At
  <2>. QED
    BY <1>1, <2>2, <2>3, QuietRegistry DEF Creating, Me
<1>3. CASE DedupHead
  <2>1. /\ w.point = "head"
        /\ w' = [w EXCEPT !.point = IF registry[DedupRef[w.obj.spec]] # None
                                    THEN "retagGet" ELSE "createJob", !.obj = w.obj]
    BY <1>3 DEF DedupHead, Goto, At, InRegistry
  <2>2. /\ w'.key = w.key /\ w'.obj = w.obj
        /\ \/ w'.point = "createJob"
           \/ w'.point = "retagGet" /\ registry[DedupRef[w.obj.spec]] # None
    BY <2>1
  <2>3. Retagging'
    BY <1>1, <2>2 DEF Retagging, At
  <2>. QED
    BY <1>1, <2>1, <2>2, <2>3, QuietRegistry DEF Creating
<1>4. CASE RetagGet
  <2>1. /\ w.point = "retagGet" /\ w'.point = "retagPut"
        /\ w'.key = w.key /\ w'.obj = w.obj
        /\ w'.manifest = registry[DedupRef[w.obj.spec]]
    BY <1>4 DEF RetagGet, At
  <2>2. w.obj.spec \in Specs
    BY <2>1, CopyTypes DEF At
  <2>3. Retagging'
    BY <2>1, <2>2 DEF RegistryInv, Contents, Retagging, At
  <2>. QED
    BY <1>1, <2>1, <2>3, QuietRegistry DEF Creating
<1>5. CASE Inspect
  <2>1. w'.point \in {"reject", "getJob"}
    BY <1>5 DEF Inspect, Goto
  <2>2. Retagging'
    BY <2>1 DEF Retagging, At
  <2>. QED
    BY <1>1, <2>1, <2>2, QuietRegistry DEF Creating
<1>. QED
  BY <1>2, <1>3, <1>4, <1>5

(* The manifest that was read under the hash is put under the target.      *)
LEMMA PutWrites ==
    ASSUME OneContent, Types, RegistryInv, At("retagPut"), registry' = Retagged(w.obj.spec)
    PROVE  /\ Contents' /\ TagsStay
           /\ registry'[Target[w.obj.spec]] = Image[w.obj.spec]
<1>1. w.obj.spec \in Specs
  BY CopyTypes DEF At
<1>2. registry' = [registry EXCEPT ![Target[w.obj.spec]] = Image[w.obj.spec]]
  BY DEF Retagged, RegistryInv, Retagging
<1>3. Contents' /\ TagsStay
  BY <1>1, <1>2, Writes DEF RegistryInv
<1>4. registry'[Target[w.obj.spec]] = Image[w.obj.spec]
  BY <1>1, <1>2, SpecRefs DEF Types, TypeOK, BuildTypeOK
<1>. QED
  BY <1>3, <1>4

LEMMA RetagRegistry ==
    ASSUME OneContent, Types, RegistryInv, [Next]_vars, RetagPut
    PROVE  /\ RegistryInv' /\ TagsStay
           /\ registry'[Target[w.obj.spec]] = Image[w.obj.spec]
<1>1. Contents' /\ TagsStay
  BY PutWrites DEF RetagPut
<1>2. registry'[Target[w.obj.spec]] = Image[w.obj.spec]
  BY PutWrites DEF RetagPut
<1>3. CopiesAsked' /\ FilesAsked'
  BY CopiesAskedNext DEF RegistryInv, FilesAsked, RetagPut
<1>4. PodsAsked'
  BY <1>1, PodAskedStays DEF RegistryInv, PodsAsked, RetagPut
<1>5. JobsDone'
  BY <1>1, JobsDoneStay DEF RegistryInv, JobsDone, RetagPut, Types, TypeOK, BuildTypeOK
<1>6. w'.point = "hit"
  BY DEF RetagPut, Types, TypeOK
<1>7. JobSeen' /\ Retagging'
  BY <1>6 DEF RegistryInv, JobSeen, NoneSeen, Retagging, RetagPut, Creating, At
<1>. QED
  BY <1>1, <1>2, <1>3, <1>4, <1>5, <1>7 DEF RegistryInv

LEMMA DeleteRegistry ==
    ASSUME Types, RegistryInv, [Next]_vars, DeleteJobs \/ DeleteConfigMaps \/ DeleteSecrets
    PROVE  RegistryInv' /\ TagsStay
<1>1. w'.point \in {"deleteConfigMaps", "deleteSecrets", "removeFinalizer"}
  BY DEF DeleteJobs, DeleteConfigMaps, DeleteSecrets, Goto, AfterDelete, Types, TypeOK
<1>2. /\ \A n \in Names : job'[n] \in {job[n], None}
      /\ \A n \in Names : cm'[n] \in {cm[n], None}
      /\ \A n \in Names : pod'[n] \in {pod[n], Orphaned(pod[n])}
      /\ \A n \in Names : job'[n] # job[n] => pod'[n] = Orphaned(pod[n])
      /\ UNCHANGED <<registry, jobCache>>
  BY DEF DeleteJobs, DeleteConfigMaps, DeleteSecrets, Kept, Labelled
<1>3. ASSUME NEW n \in Names
      PROVE  /\ \A g \in Slots : pod'[n][g] \in {None, pod[n]["job"], pod[n]["orphan"]}
             /\ pod'[n]["job"] # None =>
                   pod'[n]["job"] = pod[n]["job"] /\ job'[n] = job[n]
  <2>1. pod[n] \in [Slots -> Pods \cup {None}]
    BY DEF Types, TypeOK, BuildTypeOK
  <2>2. /\ Orphaned(pod[n])["job"] = None
        /\ \A g \in Slots : Orphaned(pod[n])[g] \in {None, pod[n]["job"], pod[n]["orphan"]}
    BY <2>1 DEF Orphaned, Slots
  <2>. QED
    BY <1>2, <2>2 DEF Slots
<1>4. PodsAsked'
  BY <1>2, <1>3 DEF RegistryInv, PodsAsked, PodAsked, Slots
<1>5. Contents' /\ FilesAsked' /\ JobsDone' /\ TagsStay
  BY <1>2 DEF RegistryInv, Contents, FilesAsked, JobsDone, JobDone, TagsStay
<1>6. JobSeen' /\ Retagging'
  BY <1>1, <1>2 DEF RegistryInv, JobSeen, NoneSeen, Retagging, Creating, At
<1>. QED
  BY <1>4, <1>5, <1>6, CopiesAskedNext DEF RegistryInv

LEMMA CreateRegistry ==
    ASSUME Types, RegistryInv, [Next]_vars, ApplyConfigMap \/ ApplyAuthSecret \/ CreateJob
    PROVE  RegistryInv' /\ TagsStay
<1>. ~At("idle")
  BY DEF At, ApplyConfigMap, ApplyAuthSecret, CreateJob
<1>. DEFINE s == w.obj.spec
<1>0. w \in [point: Points, key: CRs \cup {None}, obj: ImagePatches \cup {None},
             fresh: BOOLEAN, manifest: Images \cup {None}]
  BY DEF Types, TypeOK
<1>1. s \in Specs /\ s \in Asked(Me) /\ w.key \in CRs /\ Me \in Names
  BY CopyTypes, CopyAsked DEF RegistryInv
<1>2. UNCHANGED <<pod, registry, jobCache>> /\ CopiesAsked'
  BY CopiesAskedNext DEF RegistryInv, ApplyConfigMap, ApplyAuthSecret, CreateJob
<1>3. Contents' /\ TagsStay
  BY <1>2 DEF RegistryInv, Contents, TagsStay
<1>. HIDE DEF s
<1>4. CASE ApplyConfigMap \/ ApplyAuthSecret
  <2>1. /\ w.point \in Creating
        /\ w'.point \in {"authSecret", "head", "createJob"} /\ w'.key = w.key
        /\ job' = job
    BY <1>0, <1>4
    DEF ApplyConfigMap, ApplyAuthSecret, AfterConfigMap, AfterAuth, Goto, At, Creating
  <2>2. cm' = cm \/ cm' = [cm EXCEPT ![Me] = Applied(cm[Me], w.key, s)]
    BY <1>4 DEF ApplyConfigMap, ApplyAuthSecret, s
  <2>3. Applied(cm[Me], w.key, s).spec = s
    BY <1>1 DEF Applied, Types, TypeOK, BuildTypeOK, Files
  <2>4. FilesAsked'
    BY <1>1, <2>1, <2>2, <2>3 DEF RegistryInv, FilesAsked, Types, TypeOK, BuildTypeOK
  <2>5. PodsAsked' /\ JobsDone'
    BY <1>2, <2>1 DEF RegistryInv, PodsAsked, PodAsked, JobsDone, JobDone
  <2>6. JobSeen' /\ Retagging'
    BY <1>2, <2>1 DEF RegistryInv, JobSeen, NoneSeen, Retagging, At, Me
  <2>. QED
    BY <1>2, <1>3, <2>4, <2>5, <2>6 DEF RegistryInv
<1>5. CASE CreateJob /\ job[Me] # None
  <2>1. w' = Idle /\ UNCHANGED <<job, cm>>
    BY <1>5 DEF CreateJob, Error, Return
  <2>2. w'.point = "idle"
    BY <2>1 DEF Idle
  <2>3. Retagging'
    BY <2>2 DEF Retagging, At
  <2>. QED
    BY <1>2, <2>1, <2>2, <2>3, QuietRegistry DEF Creating
<1>6. CASE CreateJob /\ job[Me] = None
  <2>. DEFINE new == ConstructJob(w.key, s, ConsultsDedup(s))
  <2>1. /\ job' = [job EXCEPT ![Me] = new]
        /\ cm' = cm
        /\ w.point = "createJob" /\ w'.point = "running"
    BY <1>0, <1>6 DEF CreateJob, Goto, At, s
  <2>2. new.spec = s /\ new.state = "pending"
    BY DEF ConstructJob
  <2>. HIDE DEF new
  <2>3. job'[Me] = new /\ \A n \in Names : n # Me => job'[n] = job[n]
    BY <1>1, <2>1 DEF Types, TypeOK, BuildTypeOK
  <2>4. jobCache[Me] = None /\ pod[Me]["job"] = None
    BY <1>1, <1>6, <2>1 DEF RegistryInv, JobSeen, NoneSeen, Creating, Types, PodShape
  <2>5. FilesAsked'
    BY <1>1, <2>1, <2>2, <2>3 DEF RegistryInv, FilesAsked
  <2>6. PodsAsked'
    BY <1>2, <2>3, <2>4 DEF RegistryInv, PodsAsked, PodAsked
  <2>7. JobsDone'
    BY <1>2, <2>2, <2>3 DEF RegistryInv, JobsDone, JobDone
  <2>8. JobSeen' /\ Retagging'
    BY <1>2, <2>1, <2>3, <2>4 DEF RegistryInv, JobSeen, NoneSeen, Retagging, Creating, At
  <2>. QED
    BY <1>2, <1>3, <2>5, <2>6, <2>7, <2>8 DEF RegistryInv
<1>. QED
  BY <1>4, <1>5, <1>6

(* The state of a Job changes, at most.                                    *)
SpecsStay ==
    \A n \in Names : /\ job'[n] # None <=> job[n] # None
                     /\ job[n] # None => job'[n].spec = job[n].spec

LEMMA JobMoves ==
    ASSUME Types, NEW n \in Names, job[n] # None,
           NEW s \in {"active", "succeeded", "failed"}, job' = [job EXCEPT ![n].state = s]
    PROVE  /\ SpecsStay
           /\ job'[n].state = s /\ job'[n].spec = job[n].spec
           /\ \A m \in Names : m # n => job'[m] = job[m]
<1>1. job \in [Names -> Jobs \cup {None}] /\ job[n] \in Jobs
  BY DEF Types, TypeOK, BuildTypeOK
<1>. DEFINE j == [job[n] EXCEPT !.state = s]
<1>2. j \in Jobs /\ j.spec = job[n].spec /\ j.state = s
  BY <1>1 DEF Jobs
<1>3. job' = [job EXCEPT ![n] = j]
  OBVIOUS
<1>. HIDE DEF j
<1>. QED
  BY <1>1, <1>2, <1>3, NoneAssumption DEF SpecsStay

LEMMA PodRegistry ==
    ASSUME Types, RegistryInv, Builds, [Next]_vars,
           NEW n \in Names, NEW g \in Slots, NEW p \in Pods \cup {None},
           pod' = [pod EXCEPT ![n][g] = p],
           p # None => PodAsked(n, p, registry'),
           p # None /\ g = "job" => p.spec = job[n].spec,
           p # None /\ g = "job" => job[n] # None,
           SpecsStay, Contents', TagsStay,
           job[n] # None => JobDone(job[n])',
           \A m \in Names : m # n => job'[m] = job[m],
           cm' = cm
    PROVE  RegistryInv' /\ TagsStay
<1>1. /\ job \in [Names -> Jobs \cup {None}]
      /\ jobCache \in [Names -> Jobs \cup {None}]
      /\ pod \in [Names -> [Slots -> Pods \cup {None}]]
  BY DEF Types, TypeOK, BuildTypeOK
<1>2. UNCHANGED <<w, jobCache>> /\ CopiesAsked'
  BY CopiesAskedNext DEF Builds, RegistryInv
<1>3. FilesAsked'
  BY DEF RegistryInv, FilesAsked, SpecsStay
<1>4. PodsAsked'
  <2>1. ASSUME NEW m \in Names, NEW h \in Slots
        PROVE  pod'[m][h] = IF m = n /\ h = g THEN p ELSE pod[m][h]
    BY <1>1
  <2>2. ASSUME NEW m \in Names, NEW h \in Slots, pod'[m][h] # None
        PROVE  PodAsked(m, pod'[m][h], registry')
    <3>1. CASE m = n /\ h = g
      BY <2>1, <2>2, <3>1
    <3>2. CASE ~(m = n /\ h = g)
      <4>1. pod'[m][h] = pod[m][h]
        BY <2>1, <3>2
      <4>2. PodAsked(m, pod[m][h], registry)
        BY <2>2, <4>1 DEF RegistryInv, PodsAsked
      <4>3. Target[pod[m][h].spec] \in Refs
        BY <4>2, AskedSpecs, SpecRefs DEF PodAsked
      <4>. QED
        BY <4>1, <4>2, <4>3 DEF PodAsked, TagsStay
    <3>. QED
      BY <3>1, <3>2
  <2>3. ASSUME NEW m \in Names, pod'[m]["job"] # None
        PROVE  pod'[m]["job"].spec = job'[m].spec
    <3>1. "job" \in Slots
      BY DEF Slots
    <3>2. CASE m = n /\ g = "job"
      BY <2>1, <2>3, <3>1, <3>2 DEF SpecsStay
    <3>3. CASE ~(m = n /\ g = "job")
      <4>1. pod'[m]["job"] = pod[m]["job"]
        BY <2>1, <3>1, <3>3
      <4>2. job[m] # None /\ pod[m]["job"].spec = job[m].spec
        BY <2>3, <4>1 DEF RegistryInv, PodsAsked, Types, PodShape
      <4>. QED
        BY <4>1, <4>2 DEF SpecsStay
    <3>. QED
      BY <3>2, <3>3
  <2>. QED
    BY <2>2, <2>3 DEF PodsAsked
<1>5. JobsDone'
  <2>1. ASSUME NEW m \in Names
        PROVE  JobDone(jobCache[m])'
    BY <1>1, <1>2, JobsDoneStay DEF RegistryInv, JobsDone
  <2>2. ASSUME NEW m \in Names
        PROVE  JobDone(job[m])'
    <3>1. CASE m = n
      BY <3>1 DEF SpecsStay, JobDone
    <3>2. CASE m # n
      <4>1. JobDone(job[m])
        BY DEF RegistryInv, JobsDone
      <4>2. job[m] # None => Target[job[m].spec] \in Refs
        BY <1>1, SpecRefs DEF Jobs
      <4>. QED
        BY <3>2, <4>1, <4>2 DEF JobDone, TagsStay
    <3>. QED
      BY <3>1, <3>2
  <2>. QED
    BY <2>1, <2>2 DEF JobsDone
<1>6. JobSeen'
  BY <1>2, CopyTypes DEF RegistryInv, JobSeen, NoneSeen, SpecsStay, Creating, At, Me
<1>7. Retagging'
  <2>1. At("retagGet") => DedupRef[w.obj.spec] \in Refs
    BY CopyTypes, SpecRefs DEF At
  <2>. QED
    BY <1>2, <2>1 DEF RegistryInv, Retagging, TagsStay, At
<1>. QED
  BY <1>2, <1>3, <1>4, <1>5, <1>6, <1>7 DEF RegistryInv

LEMMA BuildsRegistry ==
    ASSUME OneContent, Types, RegistryInv, Builds, [Next]_vars
    PROVE  RegistryInv' /\ TagsStay
<1>0. /\ job \in [Names -> Jobs \cup {None}]
      /\ pod \in [Names -> [Slots -> Pods \cup {None}]]
      /\ "job" \in Slots
  BY DEF Types, TypeOK, BuildTypeOK, Slots
<1>1. ASSUME registry' = registry
      PROVE  Contents' /\ TagsStay
  BY <1>1 DEF RegistryInv, Contents, TagsStay
<1>2. ASSUME job' = job, TagsStay
      PROVE  /\ SpecsStay /\ \A m \in Names : job'[m] = job[m]
             /\ \A m \in Names : job[m] # None => JobDone(job[m])'
  <2>1. ASSUME NEW m \in Names, job[m] # None
        PROVE  JobDone(job[m])'
    <3>1. Target[job[m].spec] \in Refs /\ JobDone(job[m])
      BY <1>0, <2>1, SpecRefs DEF Jobs, RegistryInv, JobsDone
    <3>. QED
      BY <1>2, <3>1 DEF JobDone, TagsStay
  <2>. QED
    BY <1>2, <2>1 DEF SpecsStay
<1>3. ASSUME NEW n \in Names, PodStarts(n)
      PROVE  RegistryInv' /\ TagsStay
  <2>. DEFINE p == [spec |-> job[n].spec, auth |-> job[n].auth, dedup |-> job[n].dedup,
                    mounted |-> None, stage |-> "waiting", log |-> None]
  <2>1. /\ job[n] # None /\ job' = [job EXCEPT ![n].state = "active"]
        /\ pod' = [pod EXCEPT ![n]["job"] = p]
        /\ UNCHANGED <<cm, registry>>
    BY <1>3 DEF PodStarts
  <2>2. job[n] \in Jobs /\ job[n].spec \in Asked(n)
    BY <1>0, <2>1 DEF RegistryInv, FilesAsked
  <2>3. p \in Pods /\ p.spec = job[n].spec /\ PodAsked(n, p, registry')
    BY <2>2 DEF Jobs, Pods, PodAsked
  <2>. HIDE DEF p
  <2>4. JobDone(job[n])'
    BY <2>1, JobMoves DEF JobDone
  <2>. QED
    BY <1>0, <1>1, <2>1, <2>3, <2>4, JobMoves, PodRegistry
<1>4. ASSUME NEW n \in Names, NEW g \in Slots, pod[n][g] # None
      PROVE  /\ pod[n][g] \in Pods /\ PodAsked(n, pod[n][g], registry)
             /\ g = "job" => pod[n][g].spec = job[n].spec /\ job[n] # None
  BY <1>0, <1>4 DEF RegistryInv, PodsAsked, Types, PodShape
<1>5. ASSUME NEW n \in Names, NEW g \in Slots, PodMounts(n, g)
      PROVE  RegistryInv' /\ TagsStay
  <2>. DEFINE p == [pod[n][g] EXCEPT !.stage = "running", !.mounted = cm[n].spec]
  <2>1. /\ pod[n][g] # None /\ pod' = [pod EXCEPT ![n][g] = p]
        /\ cm[n] # None /\ UNCHANGED <<job, cm, registry>>
    BY <1>5 DEF PodMounts
  <2>2. cm[n].spec \in Asked(n) /\ cm[n].spec \in Specs
    BY <2>1, AskedSpecs DEF RegistryInv, FilesAsked
  <2>3. /\ p \in Pods /\ p.spec = pod[n][g].spec
        /\ p.mounted = cm[n].spec /\ p.stage = "running"
    <3>1. pod[n][g] \in Pods
      BY <1>4, <2>1
    <3>. QED
      BY <2>2, <3>1 DEF Pods
  <2>. HIDE DEF p
  <2>4. PodAsked(n, p, registry')
    BY <1>4, <2>1, <2>2, <2>3 DEF PodAsked
  <2>5. Contents' /\ TagsStay /\ SpecsStay /\ (job[n] # None => JobDone(job[n])')
    BY <1>1, <1>2, <2>1
  <2>. QED
    BY <1>4, <2>1, <2>3, <2>4, <2>5, PodRegistry
<1>6. ASSUME NEW n \in Names, NEW g \in Slots, PodPushes(n, g)
      PROVE  RegistryInv' /\ TagsStay
  <2>. DEFINE p == [pod[n][g] EXCEPT !.stage = "pushed"]
  <2>1. /\ pod[n][g] # None /\ pod' = [pod EXCEPT ![n][g] = p]
        /\ pod[n][g].mounted \in Specs
        /\ registry' = [registry EXCEPT ![Target[pod[n][g].spec]] = Image[pod[n][g].mounted]]
        /\ UNCHANGED <<job, cm>>
    BY <1>6 DEF PodPushes, Types, PodShape
  <2>2. pod[n][g].spec \in Specs /\ pod[n][g].mounted \in Asked(n) /\ pod[n][g].spec \in Asked(n)
    BY <1>4, <2>1, AskedSpecs, NoneAssumption DEF PodAsked
  <2>3. Image[pod[n][g].mounted] = Image[pod[n][g].spec]
    BY <2>2, AskedSame
  <2>4. Contents' /\ TagsStay /\ registry'[Target[pod[n][g].spec]] # None
    BY <2>1, <2>2, <2>3, Writes DEF RegistryInv
  <2>5. p \in Pods /\ p.spec = pod[n][g].spec /\ PodAsked(n, p, registry')
    BY <1>4, <2>1, <2>2, <2>4 DEF Pods, PodAsked
  <2>. HIDE DEF p
  <2>6. SpecsStay /\ (job[n] # None => JobDone(job[n])')
    BY <1>2, <2>1, <2>4
  <2>. QED
    BY <1>4, <2>1, <2>4, <2>5, <2>6, PodRegistry
<1>7. ASSUME NEW n \in Names, NEW g \in Slots, PodSucceeds(n, g)
      PROVE  RegistryInv' /\ TagsStay
  <2>. DEFINE p == [pod[n][g] EXCEPT !.stage = "done"]
  <2>1. /\ pod[n][g] # None /\ pod' = [pod EXCEPT ![n][g] = p]
        /\ pod[n][g].mounted \in Specs /\ pod[n][g].stage = "pushed"
        /\ \/ registry' = registry
           \/ registry' = [registry EXCEPT ![DedupRef[pod[n][g].spec]] =
                                               Image[pod[n][g].mounted]]
        /\ cm' = cm
        /\ job' = IF g = "job" THEN [job EXCEPT ![n].state = "succeeded"] ELSE job
    BY <1>7 DEF PodSucceeds, Types, PodShape
  <2>2. pod[n][g].spec \in Specs /\ pod[n][g].mounted \in Asked(n) /\ pod[n][g].spec \in Asked(n)
    BY <1>4, <2>1, AskedSpecs, NoneAssumption DEF PodAsked
  <2>3. Image[pod[n][g].mounted] = Image[pod[n][g].spec]
    BY <2>2, AskedSame
  <2>4. Contents' /\ TagsStay
    BY <1>1, <2>1, <2>2, <2>3, Writes DEF RegistryInv
  <2>5. registry'[Target[pod[n][g].spec]] # None
    BY <1>4, <2>1, <2>2, <2>4, SpecRefs DEF PodAsked, TagsStay
  <2>6. p \in Pods /\ p.spec = pod[n][g].spec /\ PodAsked(n, p, registry')
    BY <1>4, <2>1, <2>2, <2>5 DEF Pods, PodAsked
  <2>. HIDE DEF p
  <2>7. CASE g # "job"
    BY <1>2, <1>4, <2>1, <2>4, <2>6, <2>7, PodRegistry
  <2>8. CASE g = "job"
    <3>1. /\ SpecsStay /\ job[n] # None
          /\ job'[n].spec = job[n].spec /\ \A m \in Names : m # n => job'[m] = job[m]
      BY <1>4, <2>1, <2>8, JobMoves
    <3>2. JobDone(job[n])'
      BY <1>4, <2>1, <2>5, <2>8, <3>1 DEF JobDone
    <3>3. /\ pod' = [pod EXCEPT ![n][g] = p] /\ cm' = cm
          /\ p \in Pods /\ PodAsked(n, p, registry') /\ p.spec = job[n].spec
      BY <1>4, <2>1, <2>6, <2>8
    <3>. QED
      BY <2>4, <3>1, <3>2, <3>3, PodRegistry
  <2>. QED
    BY <2>7, <2>8
<1>8. ASSUME NEW n \in Names, NEW g \in Slots, NEW c \in Causes, PodFails(n, g, c)
      PROVE  RegistryInv' /\ TagsStay
  <2>. DEFINE p == [pod[n][g] EXCEPT !.stage = "failed", !.log = c]
  <2>1. /\ pod[n][g] # None /\ pod' = [pod EXCEPT ![n][g] = p]
        /\ UNCHANGED <<cm, registry>>
        /\ job' = IF g = "job" THEN [job EXCEPT ![n].state = "failed"] ELSE job
    BY <1>8 DEF PodFails
  <2>2. p \in Pods /\ p.spec = pod[n][g].spec /\ p.mounted = pod[n][g].mounted
        /\ p.stage = "failed"
    <3>1. pod[n][g] \in Pods
      BY <1>4, <2>1
    <3>. QED
      BY <3>1 DEF Pods
  <2>. HIDE DEF p
  <2>3. PodAsked(n, p, registry') /\ Contents' /\ TagsStay
    BY <1>1, <1>4, <2>1, <2>2 DEF PodAsked
  <2>4. CASE g # "job"
    BY <1>2, <1>4, <2>1, <2>2, <2>4, <2>3, PodRegistry
  <2>5. CASE g = "job"
    <3>1. /\ SpecsStay /\ job[n] # None /\ job'[n].state = "failed"
          /\ \A m \in Names : m # n => job'[m] = job[m]
      BY <1>4, <2>1, <2>5, JobMoves
    <3>2. JobDone(job[n])'
      BY <3>1 DEF JobDone
    <3>3. /\ pod' = [pod EXCEPT ![n][g] = p] /\ cm' = cm
          /\ p \in Pods /\ p.spec = job[n].spec
      BY <1>4, <2>1, <2>2, <2>5
    <3>. QED
      BY <2>3, <3>1, <3>2, <3>3, PodRegistry
  <2>. QED
    BY <2>4, <2>5
<1>9. ASSUME NEW n \in Names, NEW g \in Slots, PodCollected(n, g)
      PROVE  RegistryInv' /\ TagsStay
  BY <1>1, <1>2, <1>9, PodRegistry DEF PodCollected
<1>. QED
  BY <1>3, <1>5, <1>6, <1>7, <1>8, <1>9 DEF Builds, BuildNext

LEMMA OtherRegistry ==
    ASSUME OneContent, Types, RegistryInv, [Next]_vars,
           \/ \E k \in CRs : Fetch(k)
           \/ AddFinalizer \/ RemoveFinalizer \/ Reject \/ WriteObserved \/ WriteDedupHit
           \/ WriteRunning \/ RecordBuildResult
           \/ Faults \/ Delivery \/ Users \/ UNCHANGED vars
    PROVE  RegistryInv' /\ TagsStay
<1>1. CopiesAsked'
  BY CopiesAskedNext DEF RegistryInv
<1>2. ASSUME UNCHANGED <<job, cm, pod, registry, jobCache>>,
             w'.point \notin Creating
      PROVE  RegistryInv' /\ TagsStay
  <2>1. Retagging'
    BY <1>2 DEF Retagging, Creating, At
  <2>. QED
    BY <1>1, <1>2, <2>1, QuietRegistry
<1>3. CASE \/ AddFinalizer \/ RemoveFinalizer \/ Reject \/ WriteObserved \/ WriteDedupHit
           \/ WriteRunning \/ RecordBuildResult \/ \E k \in CRs : Fetch(k)
  <2>1. \/ w' = Idle \/ w'.point = "record"
        \/ \E k \in CRs : w'.point = Entry(crCache[k])
    <3>1. CASE \E k \in CRs : Fetch(k)
      BY <3>1 DEF Fetch, Idle
    <3>2. CASE \/ AddFinalizer \/ RemoveFinalizer \/ Reject \/ WriteObserved \/ WriteDedupHit
               \/ WriteRunning \/ RecordBuildResult
      BY <3>2
      DEF AddFinalizer, RemoveFinalizer, Reject, WriteObserved, WriteDedupHit, WriteRunning,
          RecordBuildResult, Update, Error, Return, Goto, Types, TypeOK
    <3>. QED
      BY <1>3, <3>1, <3>2
  <2>2. \A o : Entry(o) \notin Creating
    BY DEF Entry, Creating
  <2>3. w'.point \notin Creating
    BY <2>1, <2>2 DEF Idle, Creating
  <2>4. UNCHANGED <<job, cm, pod, registry, jobCache>>
    BY <1>3
    DEF AddFinalizer, RemoveFinalizer, Reject, WriteObserved, WriteDedupHit, WriteRunning,
        RecordBuildResult, Fetch, buildVars
  <2>. QED
    BY <1>2, <2>3, <2>4
<1>4. CASE FailOpen
  <2>1. /\ w.point \in Creating /\ w'.point = "createJob" /\ w'.key = w.key
        /\ UNCHANGED <<job, cm, pod, jobCache>>
    BY <1>4 DEF FailOpen, Creating, Types, TypeOK
  <2>2. Retagging'
    BY <2>1 DEF Retagging, At
  <2>3. CASE registry' = registry
    BY <1>1, <2>1, <2>2, <2>3, QuietRegistry
  <2>4. CASE registry' # registry
    <3>1. At("retagPut") /\ registry' = Retagged(w.obj.spec)
      BY <1>4, <2>4 DEF FailOpen
    <3>2. Contents' /\ TagsStay
      BY <3>1, PutWrites
    <3>3. FilesAsked' /\ PodsAsked' /\ JobsDone'
      BY <2>1, <3>2, PodAskedStays, JobsDoneStay
      DEF RegistryInv, FilesAsked, PodsAsked, JobsDone, Types, TypeOK, BuildTypeOK
    <3>4. JobSeen'
      BY <2>1 DEF RegistryInv, JobSeen, NoneSeen, Me
    <3>. QED
      BY <1>1, <2>2, <3>2, <3>3, <3>4 DEF RegistryInv
  <2>. QED
    BY <2>3, <2>4
<1>5. CASE CallFails
  <2>1. w'.point \notin Creating
    BY <1>5 DEF CallFails, Error, Return, Idle, Creating
  <2>. QED
    BY <1>2, <1>5, <2>1 DEF CallFails, buildVars
<1>8. CASE ClassifyFails
  <2>1. w'.point \notin Creating
    BY <1>8 DEF ClassifyFails, Goto, Creating, Types, TypeOK
  <2>. QED
    BY <1>2, <1>8, <2>1 DEF ClassifyFails, buildVars
<1>6. CASE Crash \/ \E n \in Names : SyncJob(n)
  <2>1. /\ UNCHANGED <<job, cm, pod, registry>>
        /\ \A n \in Names : jobCache'[n] \in {jobCache[n], job[n]}
    BY <1>6 DEF Crash, SyncJob, Types, TypeOK, buildVars
  <2>2. Contents' /\ FilesAsked' /\ PodsAsked' /\ JobsDone' /\ TagsStay
    BY <2>1
    DEF RegistryInv, Contents, FilesAsked, PodsAsked, JobsDone, JobDone, TagsStay
  <2>3. w' = w \/ w'.point = "idle"
    <3>1. w' = w \/ w' = Idle
      BY <1>6 DEF Crash, SyncJob
    <3>. QED
      BY <3>1 DEF Idle
  <2>4. JobSeen'
    <3>1. \A n \in Names : job'[n] # None /\ jobCache'[n] # None =>
                              jobCache'[n].spec = job'[n].spec
      BY <2>1 DEF RegistryInv, JobSeen, NoneSeen
    <3>2. w'.point \in Creating /\ job'[NameOf[w'.key]] = None => jobCache'[NameOf[w'.key]] = None
      <4>1. w.point \in Creating => Me \in Names
        BY CopyTypes DEF Creating, At
      <4>. QED
        BY <2>1, <2>3, <4>1 DEF RegistryInv, JobSeen, NoneSeen, Creating, Me
    <3>. QED
      BY <3>1, <3>2 DEF JobSeen, NoneSeen, Me
  <2>5. Retagging'
    BY <2>1, <2>3 DEF RegistryInv, Retagging, At
  <2>. QED
    BY <1>1, <2>2, <2>4, <2>5 DEF RegistryInv
<1>7. CASE \/ Users \/ UNCHANGED vars
           \/ \E k \in CRs : SyncCR(k) \/ TimerFires(k)
  <2>1. /\ UNCHANGED <<job, cm, pod, registry, jobCache>>
        /\ w'.point = w.point /\ w'.key = w.key /\ w'.obj = w.obj /\ w'.manifest = w.manifest
    BY <1>7
    DEF Users, CreateCR, EditSpec, Touch, DeleteCR, UserWrite, SyncCR, TimerFires, vars,
        buildVars, Types, TypeOK
  <2>2. Retagging'
    BY <2>1 DEF RegistryInv, Retagging, At
  <2>. QED
    BY <1>1, <2>1, <2>2, QuietRegistry
<1>. QED
  BY <1>3, <1>4, <1>5, <1>6, <1>7, <1>8 DEF Faults, Delivery

LEMMA RegistryNext ==
    ASSUME OneContent, Types, RegistryInv, [Next]_vars
    PROVE  RegistryInv' /\ TagsStay
  BY ReadRegistry, RetagRegistry, DeleteRegistry, CreateRegistry, BuildsRegistry, OtherRegistry
  DEF Next, Reconcile, ReconcileStep

(* What older releases left: a failed Job, and content under its hash.     *)
LEMMA RegistryInit ==
    ASSUME OneContent, Init
    PROVE  RegistryInv
<1>1. PICK old \in {f \in [Legacy -> Specs] : \A k \in Legacy : f[k] \in Wanted[k]} :
        LET owner(n) == CHOOSE k \in Legacy : NameOf[k] = n
            held(n)  == \E k \in Legacy : NameOf[k] = n
            file(n)  == IF held(n) THEN [src |-> owner(n), spec |-> old[owner(n)]]
                        ELSE None
        IN
        /\ cr = [k \in CRs |-> IF k \in Legacy THEN LegacyImagePatch(old[k]) ELSE None]
        /\ job = [n \in Names |->
                    IF held(n)
                    THEN [ConstructJob(owner(n), old[owner(n)], FALSE)
                            EXCEPT !.state = "failed"]
                    ELSE None]
        /\ cm = [n \in Names |-> file(n)]
  BY DEF Init
<1>. DEFINE owner(n) == CHOOSE k \in Legacy : NameOf[k] = n
            held(n)  == \E k \in Legacy : NameOf[k] = n
<1>0. ASSUME NEW n \in Names, NEW g \in Slots, pod[n][g] # None
      PROVE  /\ held(n) /\ pod[n][g].spec = job[n].spec
             /\ pod[n][g].mounted = job[n].spec /\ pod[n][g].stage = "failed"
  <2>1. PICK old2 \in [Legacy -> Specs], log \in [Legacy -> Causes \cup {None}] :
          LET owner2(m) == CHOOSE k \in Legacy : NameOf[k] = m
              held2(m)  == \E k \in Legacy : NameOf[k] = m
          IN
          pod = [m \in Names |-> [h \in Slots |->
                   IF h = "job" /\ held2(m) /\ log[owner2(m)] # None
                   THEN [spec |-> job[m].spec, auth |-> job[m].auth,
                         dedup |-> FALSE, mounted |-> job[m].spec,
                         stage |-> "failed", log |-> log[owner2(m)]]
                   ELSE None]]
    BY DEF Init
  <2>. QED
    BY <1>0, <2>1
<1>2. ASSUME NEW n, held(n)
      PROVE  owner(n) \in Legacy /\ NameOf[owner(n)] = n
  BY <1>2
<1>3. ASSUME NEW n, held(n)
      PROVE  old[owner(n)] \in Asked(n)
  <2>1. owner(n) \in CRs /\ old[owner(n)] \in Wanted[owner(n)]
    BY <1>1, <1>2, <1>3, ControllerAssumption
  <2>2. NameOf[owner(n)] = n
    BY <1>2, <1>3
  <2>. QED
    BY <2>1, <2>2 DEF Asked
<1>4. ASSUME NEW n \in Names
      PROVE  /\ job[n] # None => held(n) /\ job[n].spec = old[owner(n)] /\ job[n].state = "failed"
             /\ cm[n] # None => held(n) /\ cm[n].spec = old[owner(n)]
  BY <1>1 DEF ConstructJob
<1>5. ASSUME NEW n \in Names, held(n)
      PROVE  job[n].spec = old[owner(n)]
  BY <1>1, <1>5 DEF ConstructJob
<1>. HIDE DEF owner, held
<1>6. Contents
  <2>1. registry = [r \in Refs |-> IF \E s \in Prebuilt : DedupRef[s] = r
                                   THEN Image[CHOOSE s \in Prebuilt : DedupRef[s] = r]
                                   ELSE None]
    BY DEF Init
  <2>2. ASSUME NEW s \in Specs
        PROVE  registry[Target[s]] = None
    BY <2>1, SpecRefs, RefsAssumption, ControllerAssumption
  <2>3. ASSUME NEW s \in Specs
        PROVE  registry[DedupRef[s]] \in {None, Image[s]}
    <3>1. CASE \E t \in Prebuilt : DedupRef[t] = DedupRef[s]
      <4>. DEFINE t == CHOOSE t \in Prebuilt : DedupRef[t] = DedupRef[s]
      <4>1. t \in Specs /\ DedupRef[t] = DedupRef[s]
        BY <3>1, ControllerAssumption
      <4>2. registry[DedupRef[s]] = Image[t]
        BY <2>1, <3>1, SpecRefs
      <4>. HIDE DEF t
      <4>. QED
        BY <4>1, <4>2 DEF OneContent
    <3>2. CASE ~ \E t \in Prebuilt : DedupRef[t] = DedupRef[s]
      BY <2>1, <3>2, SpecRefs
    <3>. QED
      BY <3>1, <3>2
  <2>. QED
    BY <2>2, <2>3 DEF Contents
<1>7. w.point = "idle" /\ crCache = cr /\ jobCache = job
  BY DEF Init, Idle
<1>8. CopiesAsked
  <2>1. ASSUME NEW k \in CRs, cr[k] # None
        PROVE  cr[k].spec \in Wanted[k]
    BY <1>1, <2>1 DEF LegacyImagePatch, NewImagePatch
  <2>. QED
    BY <1>7, <2>1 DEF CopiesAsked
<1>9. FilesAsked
  BY <1>3, <1>4 DEF FilesAsked
<1>10. PodsAsked
  BY <1>0, <1>3, <1>5 DEF PodsAsked, PodAsked, Slots
<1>11. JobsDone
  BY <1>4, <1>7 DEF JobsDone, JobDone
<1>12. JobSeen /\ Retagging
  BY <1>7 DEF JobSeen, NoneSeen, Retagging, Creating, At
<1>. QED
  BY <1>6, <1>8, <1>9, <1>10, <1>11, <1>12 DEF RegistryInv

-----------------------------------------------------------------------------
(* What a status claims.                                                   *)

(* The registry tags shows the content of CR k under r.                    *)
Shows(k, r, tags) == \A s \in Wanted[k] : tags[r] = Image[s]

(* The Job of CR k among jobs pushes to r.                                 *)
JobFor(k, r, jobs) ==
    /\ jobs[NameOf[k]] # None
    /\ jobs[NameOf[k]].src = k
    /\ jobs[NameOf[k]].spec \in Wanted[k]
    /\ Target[jobs[NameOf[k]].spec] = r

Claim(k, o, tags, jobs) ==
    o.image # None =>
        \/ Shows(k, o.image, tags)
        \/ o.phase # "Succeeded" /\ (o.deleting \/ JobFor(k, o.image, jobs))

Claims == \A k \in CRs : Exists(k) => Claim(k, cr[k], registry, job)

(* A CR that was created again while its deletion is all the cache, or the *)
(* worker, has seen of it names no image yet.                              *)
DeletedCopyNoImage ==
    \A k \in CRs :
        Live(k) /\ crCache[k] # None /\ crCache[k].deleting => cr[k].image = None

CleanUpNoImage ==
    w.point \in CleaningUp /\ Live(w.key) => cr[w.key].image = None

CopyClaims ==
    /\ w.fresh /\ w.point \in {"addFinalizer", "inspect", "getJob", "reject", "observed"}
          => w.obj.image = cr[w.key].image
    /\ w.fresh /\ At("addFinalizer") => w.obj.phase = cr[w.key].phase
    /\ At("reject") => w.obj.phase = "Failed"
    /\ w.fresh /\ At("observed") /\ w.obj.phase = "Succeeded" /\ w.obj.image # None
          => Shows(w.key, w.obj.image, registry)
    /\ At("hit") => w.obj.image \in Refs /\ Shows(w.key, w.obj.image, registry)
    /\ At("running") => w.obj.phase = "Running" /\ JobFor(w.key, w.obj.image, job)

ClaimInv ==
    /\ Claims
    /\ DeletedCopyNoImage
    /\ CleanUpNoImage
    /\ CopyClaims

LEMMA ShowsStays ==
    ASSUME OneContent, Types, RegistryInv, [Next]_vars, NEW k \in CRs, NEW r \in Refs,
           Shows(k, r, registry)
    PROVE  Shows(k, r, registry')
<1>1. Contents /\ Contents' /\ TagsStay
  BY RegistryNext DEF RegistryInv
<1>2. PICK t \in Specs : r = Target[t] \/ r = DedupRef[t]
  BY DEF Refs
<1>3. ASSUME NEW s \in Wanted[k]
      PROVE  registry'[r] = Image[s]
  <2>1. registry[r] = Image[s] /\ registry[r] # None
    BY ControllerAssumption, SpecRefs DEF Shows
  <2>2. registry[r] = Image[t] /\ registry'[r] = Image[t]
    BY <1>1, <1>2, <2>1 DEF Contents, TagsStay
  <2>. QED
    BY <2>1, <2>2
<1>. QED
  BY <1>3 DEF Shows

JobsRemain ==
    \A n \in Names : job[n] # None => /\ job'[n] # None
                                      /\ job'[n].src = job[n].src
                                      /\ job'[n].spec = job[n].spec

LEMMA JobForStays ==
    ASSUME JobsRemain, NEW k \in CRs, NEW r, JobFor(k, r, job)
    PROVE  JobFor(k, r, job')
  BY NamesAssumption DEF JobsRemain, JobFor

(* Only the clean-up removes Jobs.                                         *)
LEMMA JobsRemainNext ==
    ASSUME Types, [Next]_vars, ~DeleteJobs
    PROVE  JobsRemain
<1>1. CASE job' = job
  BY <1>1 DEF JobsRemain
<1>2. CASE CreateJob
  BY <1>2 DEF CreateJob, JobsRemain, Types, TypeOK, BuildTypeOK
<1>3. ASSUME NEW n \in Names, NEW s \in {"active", "succeeded", "failed"}, job[n] # None,
             job' = [job EXCEPT ![n].state = s]
      PROVE  JobsRemain
  <2>. DEFINE j == [job[n] EXCEPT !.state = s]
  <2>1. job \in [Names -> Jobs \cup {None}] /\ job[n] \in Jobs
    BY <1>3 DEF Types, TypeOK, BuildTypeOK
  <2>2. j \in Jobs /\ j.src = job[n].src /\ j.spec = job[n].spec
    BY <2>1 DEF Jobs
  <2>3. job' = [job EXCEPT ![n] = j]
    BY <1>3
  <2>. HIDE DEF j
  <2>. QED
    BY <2>1, <2>2, <2>3, NoneAssumption DEF JobsRemain
<1>4. CASE Builds
  <2>1. ASSUME NEW n \in Names, pod[n]["job"] # None
        PROVE  job[n] # None
    BY <2>1 DEF Types, PodShape
  <2>2. \/ job' = job
        \/ \E n \in Names, s \in {"active", "succeeded", "failed"} :
              job[n] # None /\ job' = [job EXCEPT ![n].state = s]
    <3>1. ASSUME NEW n \in Names, PodStarts(n)
          PROVE  job[n] # None /\ job' = [job EXCEPT ![n].state = "active"]
      BY <3>1 DEF PodStarts
    <3>2. ASSUME NEW n \in Names, NEW g \in Slots, PodSucceeds(n, g)
          PROVE  job' = job \/ (job[n] # None /\ job' = [job EXCEPT ![n].state = "succeeded"])
      BY <2>1, <3>2 DEF PodSucceeds
    <3>3. ASSUME NEW n \in Names, NEW g \in Slots, NEW c \in Causes, PodFails(n, g, c)
          PROVE  job' = job \/ (job[n] # None /\ job' = [job EXCEPT ![n].state = "failed"])
      BY <2>1, <3>3 DEF PodFails
    <3>4. ASSUME NEW n \in Names, NEW g \in Slots,
                 PodMounts(n, g) \/ PodPushes(n, g) \/ PodCollected(n, g)
          PROVE  job' = job
      BY <3>4 DEF PodMounts, PodPushes, PodCollected
    <3>. QED
      BY <1>4, <3>1, <3>2, <3>3, <3>4 DEF Builds, BuildNext
  <2>. QED
    BY <1>1, <1>3, <2>2
<1>5. CASE Faults \/ Delivery \/ Users \/ UNCHANGED vars
  BY <1>1, <1>5
  DEF Faults, FailOpen, ClassifyFails, CallFails, Crash, Delivery, SyncCR, TimerFires,
      SyncJob, Users,
      CreateCR, EditSpec, Touch, DeleteCR, vars, buildVars
<1>6. CASE Reconcile /\ ~CreateJob
  BY <1>1, <1>6
  DEF Reconcile, ReconcileStep, Fetch, AddFinalizer, DeleteConfigMaps, DeleteSecrets,
      RemoveFinalizer, Inspect, Reject, GetJob, WriteObserved, ApplyConfigMap,
      ApplyAuthSecret, DedupHead, RetagGet, RetagPut, WriteDedupHit, WriteRunning,
      RecordBuildResult, buildVars
<1>. QED
  BY <1>2, <1>4, <1>5, <1>6 DEF Next

LEMMA ClaimStays ==
    ASSUME OneContent, Types, RegistryInv, [Next]_vars, ~DeleteJobs,
           NEW k \in CRs, NEW o \in ImagePatches, Claim(k, o, registry, job)
    PROVE  Claim(k, o, registry', job')
<1>1. o.image # None => o.image \in Refs
  BY DEF ImagePatches
<1>. QED
  BY <1>1, ShowsStays, JobForStays, JobsRemainNext DEF Claim

(* A Job of the CR's name that has succeeded has published its image.      *)
LEMMA DoneShows ==
    ASSUME OneContent, Types, RegistryInv, NEW k \in CRs, NEW r, JobFor(k, r, job),
           jobCache[NameOf[k]] # None, jobCache[NameOf[k]].state = "succeeded"
    PROVE  Shows(k, r, registry)
<1>. DEFINE n == NameOf[k]
            s == job[n].spec
<1>1. n \in Names /\ s \in Wanted[k] /\ s \in Specs /\ r = Target[s]
  BY NamesAssumption, ControllerAssumption DEF JobFor
<1>2. jobCache[n].spec = s
  BY <1>1 DEF RegistryInv, JobSeen, NoneSeen, JobFor
<1>3. registry[r] # None
  BY <1>1, <1>2 DEF RegistryInv, JobsDone, JobDone
<1>4. registry[r] = Image[s]
  BY <1>1, <1>3 DEF RegistryInv, Contents
<1>5. \A t \in Wanted[k] : Image[t] = Image[s]
  BY <1>1 DEF OneContent
<1>. QED
  BY <1>4, <1>5 DEF Shows

-----------------------------------------------------------------------------
(* Steps that write no CR.                                                 *)

(* The clean-up of a CR that was created again is the only one to take a   *)
(* Job away from a live CR, and that CR names no image.                    *)
LEMMA ClaimsKept ==
    ASSUME OneContent, Types, RegistryInv, ClaimInv, [Next]_vars, cr' = cr
    PROVE  Claims'
<1>. SUFFICES ASSUME NEW k \in CRs, Exists(k)
              PROVE  Claim(k, cr[k], registry', job')
  BY DEF Claims, Exists
<1>1. cr[k] \in ImagePatches /\ Claim(k, cr[k], registry, job)
  BY DEF Exists, Types, TypeOK, ClaimInv, Claims
<1>2. CASE ~DeleteJobs
  BY <1>1, <1>2, ClaimStays
<1>3. CASE DeleteJobs
  <2>1. w.key = k /\ ~cr[k].deleting => cr[k].image = None
    BY <1>3 DEF ClaimInv, CleanUpNoImage, CleaningUp, DeleteJobs, At, Live, Exists
  <2>2. /\ registry' = registry
        /\ NameOf[k] \in Names
        /\ job[NameOf[k]].src # w.key => job'[NameOf[k]] = job[NameOf[k]]
    BY <1>3, NamesAssumption DEF DeleteJobs, Kept
  <2>3. JobFor(k, cr[k].image, job) /\ k # w.key => JobFor(k, cr[k].image, job')
    BY <2>2 DEF JobFor
  <2>. QED
    BY <1>1, <2>1, <2>2, <2>3 DEF Claim
<1>. QED
  BY <1>2, <1>3

LEMMA WorkerClaim ==
    ASSUME OneContent, Types, RegistryInv, ClaimInv, [Next]_vars,
           cr' = cr, crCache' = crCache,
           w'.point \in CleaningUp => w.point \in CleaningUp /\ w'.key = w.key,
           CopyClaims'
    PROVE  ClaimInv'
<1>1. Claims'
  BY ClaimsKept
<1>2. DeletedCopyNoImage' /\ CleanUpNoImage'
  BY DEF ClaimInv, DeletedCopyNoImage, CleanUpNoImage, Live, Exists
<1>. QED
  BY <1>1, <1>2 DEF ClaimInv

LEMMA IdleClaim ==
    ASSUME OneContent, Types, RegistryInv, ClaimInv, [Next]_vars,
           cr' = cr, crCache' = crCache,
           w'.point \in {"idle", "record", "configMap", "authSecret", "head", "retagGet",
                         "retagPut", "createJob"}
    PROVE  ClaimInv'
<1>1. w'.point \notin CleaningUp /\ CopyClaims'
  BY DEF CleaningUp, CopyClaims, At
<1>. QED
  BY <1>1, WorkerClaim

(* The worker's copy is left alone, and stays or becomes stale.            *)
LEMMA CopyClaimsKept ==
    ASSUME OneContent, Types, RegistryInv, ClaimInv, [Next]_vars, ~DeleteJobs,
           w'.point = w.point, w'.key = w.key, w'.obj = w.obj,
           w'.fresh => /\ w.fresh
                       /\ w.point # "idle" => cr'[w.key] = cr[w.key]
    PROVE  CopyClaims'
<1>1. CopyClaims
  BY DEF ClaimInv
<1>2. w.point # "idle" => w.key \in CRs /\ w.obj \in ImagePatches
  BY CopyTypes DEF At
<1>3. w.obj.image # None /\ w.point # "idle" => w.obj.image \in Refs
  BY <1>2 DEF ImagePatches
<1>4. ASSUME w.point # "idle", w.obj.image # None, Shows(w.key, w.obj.image, registry)
      PROVE  Shows(w.key, w.obj.image, registry')
  BY <1>2, <1>3, <1>4, ShowsStays
<1>5. ASSUME w.point # "idle", JobFor(w.key, w.obj.image, job)
      PROVE  JobFor(w.key, w.obj.image, job')
  BY <1>2, <1>5, JobForStays, JobsRemainNext
<1>6. At("hit") => w.obj.image # None
  BY <1>1, NoneAssumption DEF CopyClaims
<1>. QED
  BY <1>1, <1>4, <1>5, <1>6 DEF CopyClaims, At

LEMMA FetchClaim ==
    ASSUME OneContent, Types, CleanupInv, RegistryInv, ClaimInv, [Next]_vars,
           NEW k \in CRs, Fetch(k)
    PROVE  ClaimInv'
<1>. DEFINE o == crCache[k]
<1>0. UNCHANGED <<job, registry, cr, crCache, crLag>>
  BY DEF Fetch, buildVars, crVars
<1>1. CASE Entry(o) = "idle"
  <2>1. w'.point = "idle"
    BY <1>1 DEF Fetch, Idle
  <2>. QED
    BY <1>0, <2>1, IdleClaim
<1>2. CASE Entry(o) # "idle"
  <2>1. /\ w'.point = Entry(o) /\ w'.key = k /\ w'.obj = o
        /\ w'.fresh = (k \notin crLag)
    BY <1>2 DEF Fetch, Idle
  <2>2. o # None /\ o \in ImagePatches
    BY <1>2 DEF Entry, Types, TypeOK
  <2>3. w'.point \in {"deleteJobs", "inspect", "addFinalizer"}
        /\ (w'.point = "deleteJobs" => o.deleting)
    BY <1>2, <2>1, <2>2 DEF Entry
  <2>4. Claims'
    BY <1>0, ClaimsKept
  <2>5. DeletedCopyNoImage' /\ CleanUpNoImage'
    BY <1>0, <2>1, <2>2, <2>3
    DEF ClaimInv, DeletedCopyNoImage, CleanUpNoImage, CleaningUp, Live, Exists
  <2>6. k \notin crLag => o = cr[k]
    BY DEF CleanupInv, CacheCurrent
  <2>7. CopyClaims'
    BY <1>0, <2>1, <2>3, <2>6 DEF CopyClaims, At
  <2>. QED
    BY <2>4, <2>5, <2>7 DEF ClaimInv
<1>. QED
  BY <1>1, <1>2

LEMMA GetJobClaim ==
    ASSUME OneContent, Types, CleanupInv, RegistryInv, ClaimInv, [Next]_vars, GetJob
    PROVE  ClaimInv'
<1>1. /\ w.point = "getJob" /\ w.key \in CRs /\ w.obj \in ImagePatches /\ Me \in Names
  BY CopyTypes DEF GetJob, At
<1>2. UNCHANGED <<job, registry, cr, crCache>>
  BY DEF GetJob, buildVars, crVars
<1>. DEFINE j == jobCache[Me]
            o == Observed(w.obj, j)
<1>3. \/ w' = Idle
      \/ w' = [w EXCEPT !.point = "configMap", !.obj = w.obj]
      \/ j # None /\ StatusChanged(w.obj, o) /\ w' = [w EXCEPT !.point = "observed", !.obj = o]
  BY DEF GetJob, Goto, Return
<1>4. CASE w' = Idle \/ w' = [w EXCEPT !.point = "configMap", !.obj = w.obj]
  <2>1. w'.point \in {"idle", "configMap"}
    <3>1. w' = Idle => w'.point = "idle"
      BY DEF Idle
    <3>. QED
      BY <1>4, <3>1 DEF Types, TypeOK
  <2>. QED
    BY <1>2, <2>1, IdleClaim
<1>5. CASE j # None /\ StatusChanged(w.obj, o) /\ w' = [w EXCEPT !.point = "observed", !.obj = o]
  <2>1. j \in Jobs
    BY <1>1, <1>5 DEF Types, TypeOK
  <2>2. /\ o.image = w.obj.image
        /\ o.phase = "Succeeded" => j.state = "succeeded"
    BY <1>1, <1>5, <2>1 DEF Observed, StatusChanged, ImagePatches, Jobs
  <2>. HIDE DEF j, o
  <2>3. w'.point = "observed" /\ w'.key = w.key /\ w'.obj = o /\ w'.fresh = w.fresh
    BY <1>5 DEF Types, TypeOK
  <2>4. w.fresh => o.image = cr[w.key].image
    BY <1>1, <2>2 DEF ClaimInv, CopyClaims
  <2>5. ASSUME w.fresh, o.phase = "Succeeded", o.image # None
        PROVE  Shows(w.key, o.image, registry)
    <3>1. Exists(w.key) /\ ~cr[w.key].deleting
      BY <1>1, <2>5 DEF CleanupInv, CopyCurrent, BuildsGuarded, Building, CleaningUp, Points, At
    <3>2. Shows(w.key, o.image, registry) \/ JobFor(w.key, o.image, job)
      BY <1>1, <2>4, <2>5, <3>1 DEF ClaimInv, Claims, Claim
    <3>3. jobCache[NameOf[w.key]] # None /\ jobCache[NameOf[w.key]].state = "succeeded"
      BY <1>5, <2>2, <2>5 DEF j, Me
    <3>. QED
      BY <1>1, <3>2, <3>3, DoneShows
  <2>6. CopyClaims'
    BY <1>2, <2>3, <2>4, <2>5 DEF CopyClaims, At
  <2>. QED
    BY <1>2, <2>3, <2>6, WorkerClaim DEF CleaningUp
<1>. QED
  BY <1>3, <1>4, <1>5

LEMMA InspectClaim ==
    ASSUME OneContent, Types, RegistryInv, ClaimInv, [Next]_vars, Inspect
    PROVE  ClaimInv'
<1>. DEFINE o == [w.obj EXCEPT !.phase = "Failed", !.message = "ImageOSNotSupported"]
<1>1. w.point = "inspect" /\ w.obj \in ImagePatches
  BY CopyTypes DEF Inspect, At
<1>2. o.image = w.obj.image /\ o.phase = "Failed"
  BY <1>1 DEF ImagePatches
<1>3. UNCHANGED <<cr, crCache>>
  BY DEF Inspect, crVars
<1>4. \/ w' = [w EXCEPT !.point = "reject", !.obj = o]
      \/ w' = [w EXCEPT !.point = "getJob", !.obj = w.obj]
  BY DEF Inspect, Goto
<1>. HIDE DEF o
<1>5. /\ w'.key = w.key /\ w'.fresh = w.fresh
      /\ \/ w'.point = "reject" /\ w'.obj = o
         \/ w'.point = "getJob" /\ w'.obj = w.obj
  BY <1>4 DEF Types, TypeOK
<1>6. w.fresh => w.obj.image = cr[w.key].image
  BY <1>1 DEF ClaimInv, CopyClaims
<1>7. CopyClaims'
  BY <1>2, <1>3, <1>5, <1>6 DEF CopyClaims, At
<1>. QED
  BY <1>3, <1>5, <1>7, WorkerClaim DEF CleaningUp

LEMMA RetagClaim ==
    ASSUME OneContent, Types, RegistryInv, ClaimInv, [Next]_vars, RetagPut
    PROVE  ClaimInv'
<1>1. w.point = "retagPut" /\ w.obj \in ImagePatches /\ w.obj.spec \in Specs /\ w.key \in CRs
  BY CopyTypes DEF RetagPut, At
<1>2. w.obj.spec \in Wanted[w.key]
  BY <1>1 DEF RegistryInv, CopiesAsked
<1>3. registry'[Target[w.obj.spec]] = Image[w.obj.spec]
  BY RetagRegistry
<1>4. Shows(w.key, Target[w.obj.spec], registry')
  BY <1>1, <1>2, <1>3 DEF Shows, OneContent
<1>. DEFINE o == DedupHit(w.obj)
<1>5. o.image = Target[w.obj.spec]
  BY <1>1 DEF DedupHit, ImagePatches
<1>6. w' = [w EXCEPT !.point = "hit", !.obj = o, !.manifest = None] /\ UNCHANGED <<cr, crCache>>
  BY DEF RetagPut, crVars
<1>. HIDE DEF o
<1>7. w'.point = "hit" /\ w'.key = w.key /\ w'.obj = o
  BY <1>6 DEF Types, TypeOK
<1>8. CopyClaims'
  BY <1>1, <1>4, <1>5, <1>7, SpecRefs DEF CopyClaims, At
<1>. QED
  BY <1>6, <1>7, <1>8, WorkerClaim DEF CleaningUp

LEMMA CreateClaim ==
    ASSUME OneContent, Types, RegistryInv, ClaimInv, [Next]_vars, CreateJob
    PROVE  ClaimInv'
<1>1. w.point = "createJob" /\ w.obj \in ImagePatches /\ w.obj.spec \in Specs
      /\ w.key \in CRs /\ Me \in Names
  BY CopyTypes DEF CreateJob, At
<1>2. w.obj.spec \in Wanted[w.key]
  BY <1>1 DEF RegistryInv, CopiesAsked
<1>3. UNCHANGED <<cr, crCache>>
  BY DEF CreateJob, crVars
<1>. DEFINE o == [w.obj EXCEPT !.phase = "Running", !.jobName = TRUE,
                               !.image = Target[w.obj.spec]]
            new == ConstructJob(w.key, w.obj.spec, ConsultsDedup(w.obj.spec))
<1>4. CASE Error
  <2>1. w'.point = "idle"
    BY <1>4 DEF Error, Return, Idle
  <2>. QED
    BY <1>3, <2>1, IdleClaim
<1>5. CASE job' = [job EXCEPT ![Me] = new] /\ Goto("running", o)
  <2>1. o.image = Target[w.obj.spec] /\ o.phase = "Running"
    BY <1>1 DEF ImagePatches
  <2>2. new \in Jobs /\ new.src = w.key /\ new.spec = w.obj.spec
    BY <1>1, ControllerAssumption DEF ConstructJob, ConsultsDedup, Jobs
  <2>. HIDE DEF o, new
  <2>3. w'.point = "running" /\ w'.key = w.key /\ w'.obj = o
    BY <1>5 DEF Goto, Types, TypeOK
  <2>4. job'[Me] = new /\ new # None
    BY <1>1, <1>5, <2>2, NoneAssumption DEF Types, TypeOK, BuildTypeOK
  <2>5. JobFor(w.key, Target[w.obj.spec], job')
    BY <1>2, <2>2, <2>4 DEF JobFor, Me
  <2>6. CopyClaims'
    BY <2>1, <2>3, <2>5 DEF CopyClaims, At
  <2>. QED
    BY <1>3, <2>3, <2>6, WorkerClaim DEF CleaningUp
<1>. QED
  BY <1>4, <1>5 DEF CreateJob

LEMMA DeleteClaim ==
    ASSUME OneContent, Types, RegistryInv, ClaimInv, [Next]_vars,
           DeleteJobs \/ DeleteConfigMaps \/ DeleteSecrets
    PROVE  ClaimInv'
<1>1. /\ w.point \in CleaningUp /\ w'.key = w.key
      /\ w'.point \in {"deleteConfigMaps", "deleteSecrets", "removeFinalizer"}
      /\ UNCHANGED <<cr, crCache>>
  BY DEF DeleteJobs, DeleteConfigMaps, DeleteSecrets, Goto, At, AfterDelete, CleaningUp,
         Types, TypeOK, crVars
<1>2. CopyClaims'
  BY <1>1 DEF CopyClaims, At
<1>. QED
  BY <1>1, <1>2, WorkerClaim

-----------------------------------------------------------------------------
(* Updates of the CR by the worker.                                        *)

LEMMA StoreClaim ==
    ASSUME OneContent, Types, CleanupInv, RegistryInv, ClaimInv, [Next]_vars,
           w.fresh, ~At("idle"), ~At("record"), ~DeleteJobs,
           NEW o \in ImagePatches \cup {None}, Store(w.key, o),
           o # None => /\ o.deleting = cr[w.key].deleting
                       /\ Claim(w.key, o, registry, job),
           w'.point \in {"idle", "record"}
    PROVE  ClaimInv'
<1>1. w.key \in CRs /\ w.key \notin crLag /\ cr[w.key] # None
  BY CopyTypes DEF CleanupInv, CopyCurrent, Exists
<1>2. crCache[w.key] = cr[w.key]
  BY <1>1 DEF CleanupInv, CacheCurrent
<1>3. /\ cr \in [CRs -> ImagePatches \cup {None}]
      /\ cr' = [cr EXCEPT ![w.key] = o]
      /\ crCache' = crCache
  BY DEF Types, TypeOK, Store
<1>4. Claims'
  <2>. SUFFICES ASSUME NEW k \in CRs, cr'[k] # None
                PROVE  Claim(k, cr'[k], registry', job')
    BY DEF Claims, Exists
  <2>1. cr'[k] \in ImagePatches /\ Claim(k, cr'[k], registry, job)
    BY <1>1, <1>3 DEF ClaimInv, Claims, Exists
  <2>. QED
    BY <2>1, ClaimStays
<1>5. DeletedCopyNoImage'
  BY <1>1, <1>2, <1>3 DEF ClaimInv, DeletedCopyNoImage, Live, Exists
<1>6. CleanUpNoImage' /\ CopyClaims'
  BY DEF CleanUpNoImage, CopyClaims, CleaningUp, At
<1>. QED
  BY <1>4, <1>5, <1>6 DEF ClaimInv

LEMMA CRWriteClaim ==
    ASSUME OneContent, Types, CleanupInv, RegistryInv, ClaimInv, [Next]_vars,
           \/ AddFinalizer \/ RemoveFinalizer \/ Reject
           \/ WriteObserved \/ WriteDedupHit \/ WriteRunning
    PROVE  ClaimInv'
<1>0. ~At("idle") /\ ~At("record") /\ ~DeleteJobs
  BY DEF At, AddFinalizer, RemoveFinalizer, Reject, WriteObserved, WriteDedupHit, WriteRunning,
         DeleteJobs
<1>1. w.obj \in ImagePatches /\ w.key \in CRs
  BY <1>0, CopyTypes
<1>2. w'.point \in {"idle", "record"}
  <2>1. \/ w' = Idle \/ w' = [w EXCEPT !.point = "record", !.obj = w.obj]
    BY DEF AddFinalizer, RemoveFinalizer, Reject, WriteObserved, WriteDedupHit, WriteRunning,
           Update, Error, Return, Goto
  <2>2. w' = Idle => w'.point = "idle"
    BY DEF Idle
  <2>. QED
    BY <2>1, <2>2 DEF Types, TypeOK
<1>3. CASE ~w.fresh
  <2>1. UNCHANGED <<cr, crCache>>
    BY <1>3
    DEF AddFinalizer, RemoveFinalizer, Reject, WriteObserved, WriteDedupHit, WriteRunning,
        Update, crVars
  <2>. QED
    BY <1>2, <2>1, IdleClaim
<1>4. CASE w.fresh
  <2>1. /\ w.obj.deleting = cr[w.key].deleting
        /\ Claim(w.key, cr[w.key], registry, job)
        /\ CopyClaims
    BY <1>0, <1>1, <1>4 DEF CleanupInv, CopyCurrent, ClaimInv, Claims
  <2>2. CASE AddFinalizer
    <3>. DEFINE o == [w.obj EXCEPT !.finalizer = TRUE]
    <3>1. /\ o \in ImagePatches /\ o.deleting = w.obj.deleting
          /\ o.image = w.obj.image /\ o.phase = w.obj.phase
      BY <1>1 DEF ImagePatches
    <3>2. Store(w.key, o)
      BY <1>4, <2>2 DEF AddFinalizer, Update
    <3>. HIDE DEF o
    <3>3. w.obj.image = cr[w.key].image /\ w.obj.phase = cr[w.key].phase
      BY <1>4, <2>1, <2>2 DEF CopyClaims, AddFinalizer, At
    <3>4. Claim(w.key, o, registry, job)
      BY <2>1, <3>1, <3>3 DEF Claim
    <3>. QED
      BY <1>0, <1>2, <1>4, <2>1, <3>1, <3>2, <3>4, StoreClaim
  <2>3. CASE RemoveFinalizer
    <3>1. Store(w.key, None)
      BY <1>4, <2>3 DEF RemoveFinalizer, Update
    <3>. QED
      BY <1>0, <1>2, <1>4, <3>1, StoreClaim
  <2>4. CASE Reject \/ WriteObserved \/ WriteDedupHit \/ WriteRunning
    <3>1. Store(w.key, w.obj)
      BY <1>4, <2>4 DEF Reject, WriteObserved, WriteDedupHit, WriteRunning, Update
    <3>2. Claim(w.key, w.obj, registry, job)
      BY <1>4, <2>1, <2>4
      DEF Reject, WriteObserved, WriteDedupHit, WriteRunning, At, CopyClaims, Claim
    <3>. QED
      BY <1>0, <1>1, <1>2, <1>4, <2>1, <3>1, <3>2, StoreClaim
  <2>. QED
    BY <2>2, <2>3, <2>4
<1>. QED
  BY <1>3, <1>4

-----------------------------------------------------------------------------
(* The other actors.                                                       *)

LEMMA QuietClaim ==
    ASSUME OneContent, Types, RegistryInv, ClaimInv, [Next]_vars,
           cr' = cr, crCache' = crCache, ~DeleteJobs,
           w'.point = w.point, w'.key = w.key, w'.obj = w.obj, w'.fresh => w.fresh
    PROVE  ClaimInv'
<1>1. CopyClaims'
  BY CopyClaimsKept
<1>. QED
  BY <1>1, WorkerClaim

LEMMA UserWriteClaim ==
    ASSUME OneContent, Types, RegistryInv, ClaimInv, [Next]_vars, ~DeleteJobs,
           NEW k \in CRs, NEW o \in ImagePatches \cup {None},
           UserWrite(k, o), UNCHANGED buildVars,
           o # None => /\ Claim(k, o, registry, job)
                       /\ ~o.deleting /\ o.image # None =>
                             Live(k) /\ cr[k].image # None
    PROVE  ClaimInv'
<1>1. /\ cr' = [cr EXCEPT ![k] = o]
      /\ w' = [w EXCEPT !.fresh = w.fresh /\ w.key # k]
      /\ UNCHANGED <<crCache, job, registry>>
  BY DEF UserWrite, Store, buildVars
<1>2. cr \in [CRs -> ImagePatches \cup {None}]
  BY DEF Types, TypeOK
<1>3. /\ w'.point = w.point /\ w'.key = w.key /\ w'.obj = w.obj
      /\ (w'.fresh => w.fresh /\ w.key # k)
  BY <1>1 DEF Types, TypeOK
<1>4. ASSUME NEW j \in CRs, Live(j)', cr'[j].image # None
      PROVE  Live(j) /\ cr[j].image # None
  BY <1>1, <1>2, <1>4 DEF Live, Exists
<1>5. Claims'
  BY <1>1, <1>2 DEF ClaimInv, Claims, Exists
<1>6. DeletedCopyNoImage'
  BY <1>1, <1>4 DEF ClaimInv, DeletedCopyNoImage
<1>7. CleanUpNoImage'
  <2>1. w.point \in CleaningUp => w.key \in CRs
    BY CopyTypes DEF CleaningUp, At
  <2>. QED
    BY <1>3, <1>4, <2>1 DEF ClaimInv, CleanUpNoImage
<1>8. CopyClaims'
  <2>1. w.point # "idle" /\ w.key # k => cr'[w.key] = cr[w.key]
    BY <1>1, <1>2, CopyTypes DEF At
  <2>. QED
    BY <1>3, <2>1, CopyClaimsKept
<1>. QED
  BY <1>5, <1>6, <1>7, <1>8 DEF ClaimInv

LEMMA UserClaim ==
    ASSUME OneContent, Types, RegistryInv, ClaimInv, [Next]_vars, ~DeleteJobs, Users
    PROVE  ClaimInv'
<1>1. ASSUME NEW k \in CRs, NEW s \in Wanted[k], CreateCR(k, s)
      PROVE  ClaimInv'
  <2>1. NewImagePatch(s) \in ImagePatches /\ NewImagePatch(s).image = None
    BY ControllerAssumption, NoneAssumption
    DEF NewImagePatch, ImagePatches, Messages, Phases
  <2>2. Claim(k, NewImagePatch(s), registry, job)
    BY <2>1 DEF Claim
  <2>. QED
    BY <1>1, <2>1, <2>2, UserWriteClaim DEF CreateCR
<1>2. ASSUME NEW k \in CRs, NEW s \in Wanted[k], EditSpec(k, s)
      PROVE  ClaimInv'
  <2>. DEFINE o == [cr[k] EXCEPT !.spec = s]
  <2>1. cr[k] \in ImagePatches /\ s \in Specs /\ cr[k] # None /\ ~cr[k].deleting
    BY <1>2, ControllerAssumption DEF EditSpec, Types, TypeOK
  <2>2. /\ o \in ImagePatches /\ o.image = cr[k].image
        /\ o.phase = cr[k].phase /\ o.deleting = cr[k].deleting
    BY <2>1 DEF ImagePatches
  <2>3. UserWrite(k, o) /\ UNCHANGED buildVars
    BY <1>2 DEF EditSpec
  <2>. HIDE DEF o
  <2>4. Claim(k, o, registry, job)
    BY <2>1, <2>2 DEF ClaimInv, Claims, Claim, Exists
  <2>. QED
    BY <2>1, <2>2, <2>3, <2>4, UserWriteClaim DEF Live, Exists
<1>3. ASSUME NEW k \in CRs, Touch(k)
      PROVE  ClaimInv'
  <2>1. /\ UNCHANGED <<cr, crCache>>
        /\ w'.point = w.point /\ w'.key = w.key /\ w'.obj = w.obj
        /\ (w'.fresh => w.fresh)
    BY <1>3 DEF Touch, Types, TypeOK
  <2>. QED
    BY <2>1, QuietClaim
<1>4. ASSUME NEW k \in CRs, DeleteCR(k)
      PROVE  ClaimInv'
  <2>. DEFINE o == [cr[k] EXCEPT !.deleting = TRUE]
  <2>1. cr[k] \in ImagePatches /\ cr[k] # None
    BY <1>4 DEF DeleteCR, Types, TypeOK
  <2>2. /\ o \in ImagePatches /\ o.image = cr[k].image
        /\ o.phase = cr[k].phase /\ o.deleting
    BY <2>1 DEF ImagePatches
  <2>3. (UserWrite(k, o) \/ UserWrite(k, None)) /\ UNCHANGED buildVars
    BY <1>4 DEF DeleteCR
  <2>. HIDE DEF o
  <2>4. Claim(k, o, registry, job)
    BY <2>1, <2>2 DEF ClaimInv, Claims, Claim, Exists
  <2>. QED
    BY <2>2, <2>3, <2>4, UserWriteClaim
<1>. QED
  BY <1>1, <1>2, <1>3, <1>4 DEF Users

LEMMA DeliveryClaim ==
    ASSUME OneContent, Types, RegistryInv, ClaimInv, [Next]_vars, ~DeleteJobs, Delivery
    PROVE  ClaimInv'
<1>1. UNCHANGED <<cr, w>>
  BY DEF Delivery, SyncCR, TimerFires, SyncJob, crVars
<1>2. crCache' = crCache \/ \E k \in CRs : crCache' = [crCache EXCEPT ![k] = cr[k]]
  BY DEF Delivery, SyncCR, TimerFires, SyncJob, crVars
<1>3. DeletedCopyNoImage'
  BY <1>1, <1>2 DEF ClaimInv, DeletedCopyNoImage, Live, Exists, Types, TypeOK
<1>4. CleanUpNoImage'
  BY <1>1 DEF ClaimInv, CleanUpNoImage, Live, Exists
<1>5. Claims' /\ CopyClaims'
  BY <1>1, ClaimsKept, CopyClaimsKept
<1>. QED
  BY <1>3, <1>4, <1>5 DEF ClaimInv

LEMMA FaultClaim ==
    ASSUME OneContent, Types, RegistryInv, ClaimInv, [Next]_vars, Faults
    PROVE  ClaimInv'
<1>1. CASE FailOpen \/ CallFails
  <2>1. w'.point \in {"idle", "createJob"} /\ UNCHANGED <<cr, crCache>>
    <3>1. w' = Idle => w'.point = "idle"
      BY DEF Idle
    <3>. QED
      BY <1>1, <3>1 DEF FailOpen, CallFails, Error, Return, crVars, Types, TypeOK
  <2>. QED
    BY <2>1, IdleClaim
<1>2. CASE Crash
  <2>1. w'.point = "idle" /\ cr' = cr /\ crCache' = cr
    BY <1>2 DEF Crash, Idle
  <2>2. DeletedCopyNoImage' /\ CleanUpNoImage' /\ CopyClaims'
    BY <2>1 DEF DeletedCopyNoImage, CleanUpNoImage, CopyClaims, CleaningUp, Live, Exists, At
  <2>3. Claims'
    BY <2>1, ClaimsKept
  <2>. QED
    BY <2>2, <2>3 DEF ClaimInv
<1>3. CASE ClassifyFails
  <2>. DEFINE o == [w.obj EXCEPT !.phase = "Failed", !.message = "ControllerInternalError"]
  <2>1. w.point = "getJob" /\ w' = [w EXCEPT !.point = "observed", !.obj = o]
        /\ UNCHANGED <<cr, crCache>>
    BY <1>3 DEF ClassifyFails, Goto, At, crVars
  <2>2. o.image = w.obj.image /\ o.phase = "Failed"
    BY <2>1, CopyTypes DEF ImagePatches, At
  <2>. HIDE DEF o
  <2>3. w'.point = "observed" /\ w'.key = w.key /\ w'.obj = o /\ w'.fresh = w.fresh
    BY <2>1 DEF Types, TypeOK
  <2>4. CopyClaims'
    BY <2>1, <2>2, <2>3 DEF ClaimInv, CopyClaims, At
  <2>. QED
    BY <2>1, <2>3, <2>4, WorkerClaim DEF CleaningUp
<1>. QED
  BY <1>1, <1>2, <1>3 DEF Faults

LEMMA ClaimNext ==
    ASSUME OneContent, Types, CleanupInv, RegistryInv, ClaimInv, [Next]_vars
    PROVE  ClaimInv'
<1>1. CASE DeleteJobs \/ DeleteConfigMaps \/ DeleteSecrets
  BY <1>1, DeleteClaim
<1>2. CASE ApplyConfigMap \/ ApplyAuthSecret \/ DedupHead \/ RetagGet \/ RecordBuildResult
  <2>1. /\ w'.point \in {"idle", "authSecret", "head", "retagGet", "retagPut", "createJob"}
        /\ UNCHANGED <<cr, crCache>>
    <3>1. w' = Idle => w'.point = "idle"
      BY DEF Idle
    <3>. QED
      BY <1>2, <3>1
      DEF ApplyConfigMap, ApplyAuthSecret, DedupHead, RetagGet, RecordBuildResult,
          AfterConfigMap, AfterAuth, Goto, Return, crVars, Types, TypeOK
  <2>. QED
    BY <2>1, IdleClaim
<1>3. CASE ~DeleteJobs /\ (Builds \/ UNCHANGED vars)
  BY <1>3, QuietClaim DEF Builds, vars, crVars
<1>4. CASE ~DeleteJobs /\ (Users \/ Delivery \/ Faults)
  BY <1>4, UserClaim, DeliveryClaim, FaultClaim
<1>. QED
  BY <1>1, <1>2, <1>3, <1>4, FetchClaim, GetJobClaim, InspectClaim, RetagClaim, CreateClaim,
     CRWriteClaim
  DEF Next, Reconcile, ReconcileStep

(* What an older controller left at Failed names its Job's target.         *)
LEMMA ClaimInit ==
    ASSUME Init, RegistryInv
    PROVE  ClaimInv
<1>1. PICK old \in {f \in [Legacy -> Specs] : \A k \in Legacy : f[k] \in Wanted[k]} :
        LET owner(n) == CHOOSE k \in Legacy : NameOf[k] = n
            held(n)  == \E k \in Legacy : NameOf[k] = n
        IN
        /\ cr = [k \in CRs |-> IF k \in Legacy THEN LegacyImagePatch(old[k]) ELSE None]
        /\ job = [n \in Names |->
                    IF held(n)
                    THEN [ConstructJob(owner(n), old[owner(n)], FALSE)
                            EXCEPT !.state = "failed"]
                    ELSE None]
  BY DEF Init
<1>2. ASSUME NEW k \in CRs, Exists(k)
      PROVE  /\ k \in Legacy /\ old[k] \in Wanted[k]
             /\ cr[k].phase = "Failed" /\ ~cr[k].deleting
             /\ cr[k].jobName /\ cr[k].image = Target[old[k]]
  <2>1. k \in Legacy /\ cr[k] = LegacyImagePatch(old[k])
    BY <1>1, <1>2 DEF Exists
  <2>. QED
    BY <1>1, <2>1 DEF LegacyImagePatch, NewImagePatch
<1>3. ASSUME NEW k \in CRs, Exists(k)
      PROVE  JobFor(k, cr[k].image, job)
  <2>1. job[NameOf[k]] # None /\ job[NameOf[k]].src = k
    BY <1>2, <1>3, JobNameInit DEF JobNameInv, StatusNamesOwnJob, OwnJob, Live
  <2>2. (CHOOSE j \in Legacy : NameOf[j] = NameOf[k]) = k
    BY <1>2, <1>3, ControllerAssumption
  <2>3. job[NameOf[k]] = [ConstructJob(k, old[k], FALSE) EXCEPT !.state = "failed"]
    BY <1>1, <1>2, <1>3, <2>2, NamesAssumption
  <2>4. job[NameOf[k]].spec = old[k]
    BY <2>3 DEF ConstructJob
  <2>. QED
    BY <1>2, <1>3, <2>1, <2>4 DEF JobFor
<1>4. w.point = "idle" /\ crCache = cr
  BY DEF Init, Idle
<1>5. Claims
  BY <1>2, <1>3 DEF Claims, Claim
<1>6. DeletedCopyNoImage /\ CleanUpNoImage /\ CopyClaims
  BY <1>2, <1>4 DEF DeletedCopyNoImage, CleanUpNoImage, CopyClaims, CleaningUp, Live, Exists, At
<1>. QED
  BY <1>5, <1>6 DEF ClaimInv

(* A CR whose spec may be edited, but not to other content, and whose name *)
(* and tags it shares only with CRs of that content, reports Succeeded     *)
(* only once the registry serves what its spec asks for, under the         *)
(* reference the status names: whatever build or retag put it there, and   *)
(* whatever was lost, retried or created again on the way.  The invariant  *)
(* of the runs "recreate" and "share" for every such choice of the         *)
(* constants.                                                              *)
THEOREM SuccessPublished ==
    ASSUME OneContent
    PROVE  Spec => []SucceededIsPublished
<1>1. Init => RegistryInv /\ ClaimInv
  BY RegistryInit, ClaimInit
<1>2. Types /\ CleanupInv /\ RegistryInv /\ ClaimInv /\ [Next]_vars => (RegistryInv /\ ClaimInv)'
  BY RegistryNext, ClaimNext
<1>3. RegistryInv /\ ClaimInv => SucceededIsPublished
  BY DEF RegistryInv, CopiesAsked, ClaimInv, Claims, Claim, Shows, SucceededIsPublished,
         InPhase, Exists
<1>. QED
  BY <1>1, <1>2, <1>3, CleanupHolds, PTL DEF Spec

(* Under the same hypothesis a dedup tag only ever names the content it is *)
(* the hash of, so that a retag is as good as a build.  Run "tag_poisoned" *)
(* shows that an edit of the content breaks it.                            *)
THEOREM DedupTagsSound ==
    ASSUME OneContent
    PROVE  Spec => []DedupTagContent
<1>1. Init => RegistryInv /\ ClaimInv
  BY RegistryInit, ClaimInit
<1>2. Types /\ CleanupInv /\ RegistryInv /\ ClaimInv /\ [Next]_vars => (RegistryInv /\ ClaimInv)'
  BY RegistryNext, ClaimNext
<1>3. RegistryInv => DedupTagContent
  BY DEF RegistryInv, Contents, DedupTagContent
<1>. QED
  BY <1>1, <1>2, <1>3, CleanupHolds, PTL DEF Spec

=============================================================================
