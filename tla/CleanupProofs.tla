----------------------------- MODULE CleanupProofs -----------------------------
(***************************************************************************)
(* Proofs that the reconciler never leaves build resources without a CR    *)
(* that will clean them up, never undoes a user's write to a CR, and       *)
(* forgets neither a CR nor a build.                                       *)
(*                                                                         *)
(* The worker decides on a copy of the CR that may be out of date.  What   *)
(* makes its decisions sound is that only the worker removes a finalizer:  *)
(* a cached copy that shows one, and no deletion, is proof that the CR     *)
(* still has it, however old the copy (CacheKeepsFinalizer); and that an   *)
(* update goes through only if the copy is what the server holds           *)
(* (CopyCurrent).                                                          *)
(***************************************************************************)
EXTENDS ControllerTypes

CleaningUp == {"deleteJobs", "deleteConfigMaps", "deleteSecrets", "removeFinalizer"}

Building == Points \ (CleaningUp \cup {"idle", "addFinalizer", "record"})

Guarded(k) == Exists(k) /\ cr[k].finalizer

(* The informer has the server's version, or knows nothing of a later one. *)
CacheCurrent == \A k \in CRs : k \notin crLag => crCache[k] = cr[k]

CacheKeepsFinalizer ==
    \A k \in CRs :
        crCache[k] # None /\ ~crCache[k].deleting /\ crCache[k].finalizer => Guarded(k)

CopyCurrent ==
    w.fresh /\ ~At("idle") /\ ~At("record") =>
        /\ w.key \notin crLag
        /\ Exists(w.key)
        /\ w.obj.spec = cr[w.key].spec
        /\ w.obj.deleting = cr[w.key].deleting

BuildsGuarded ==
    w.point \in Building => w.obj.finalizer /\ ~w.obj.deleting /\ Guarded(w.key)

CleansInOrder ==
    /\ w.point \in CleaningUp => w.obj.deleting
    /\ w.point \in CleaningUp \ {"deleteJobs"} =>
           \A n \in Names : ~Labelled(w.key, job[n])
    /\ w.point \in {"deleteSecrets", "removeFinalizer"} =>
           \A n \in Names : ~Labelled(w.key, cm[n])
    /\ At("removeFinalizer") => \A n \in Names : ~Labelled(w.key, secret[n])

CleanupInv ==
    /\ NoOrphanedResources
    /\ CacheCurrent
    /\ CacheKeepsFinalizer
    /\ CopyCurrent
    /\ BuildsGuarded
    /\ CleansInOrder

-----------------------------------------------------------------------------
(* Steps that leave the CRs and the build namespace alone.                 *)

LEMMA IdleInv ==
    ASSUME CleanupInv, w' = Idle, UNCHANGED <<job, cm, secret, crVars>>
    PROVE  CleanupInv'
<1>1. w'.point = "idle"
  BY DEF Idle
<1>2. NoOrphanedResources' /\ CacheCurrent' /\ CacheKeepsFinalizer'
  BY DEF CleanupInv, NoOrphanedResources, CacheCurrent, CacheKeepsFinalizer, Guarded,
         Exists, crVars
<1>. QED
  BY <1>1, <1>2
  DEF CleanupInv, CopyCurrent, BuildsGuarded, CleansInOrder, At, Building, CleaningUp

LEMMA MoveInv ==
    ASSUME CleanupInv, UNCHANGED <<job, cm, secret, crVars>>,
           w.point \in Building,
           w'.point \in Building \cup {"record"},
           w'.key = w.key, w'.fresh = w.fresh, SameMeta(w.obj, w'.obj)
    PROVE  CleanupInv'
<1>2. NoOrphanedResources' /\ CacheCurrent' /\ CacheKeepsFinalizer'
  BY DEF CleanupInv, NoOrphanedResources, CacheCurrent, CacheKeepsFinalizer, Guarded,
         Exists, crVars
<1>3. CopyCurrent'
  BY DEF CleanupInv, CopyCurrent, Exists, crVars, At, Building, SameMeta
<1>4. BuildsGuarded'
  BY DEF CleanupInv, BuildsGuarded, Guarded, Exists, crVars, SameMeta
<1>5. CleansInOrder'
  BY DEF CleansInOrder, At, Building, CleaningUp
<1>. QED
  BY <1>2, <1>3, <1>4, <1>5 DEF CleanupInv

(* Steps of others than the worker that change neither CRs nor objects.    *)
LEMMA QuietInv ==
    ASSUME CleanupInv, UNCHANGED <<job, cm, secret, crVars, w>>
    PROVE  CleanupInv'
  BY DEF CleanupInv, NoOrphanedResources, CacheCurrent, CacheKeepsFinalizer, CopyCurrent,
         BuildsGuarded, CleansInOrder, Guarded, Exists, At, crVars

LEMMA FetchInv ==
    ASSUME Types, CleanupInv, NEW k \in CRs, Fetch(k)
    PROVE  CleanupInv'
<1>. DEFINE o == crCache[k]
<1>1. CASE Entry(o) = "idle"
  BY <1>1, IdleInv DEF Fetch, crVars, buildVars
<1>2. CASE Entry(o) # "idle"
  <2>1. /\ w'.point = Entry(o) /\ w'.key = k /\ w'.obj = o
        /\ w'.fresh = (k \notin crLag)
        /\ UNCHANGED <<job, cm, secret, cr, crCache, crLag>>
    BY <1>2 DEF Fetch, crVars, buildVars, Idle
  <2>2. o # None
    BY <1>2 DEF Entry
  <2>3. NoOrphanedResources' /\ CacheCurrent' /\ CacheKeepsFinalizer'
    BY <2>1 DEF CleanupInv, NoOrphanedResources, CacheCurrent, CacheKeepsFinalizer,
                Guarded, Exists
  <2>4. CopyCurrent'
    BY <2>1, <2>2 DEF CleanupInv, CopyCurrent, CacheCurrent, Exists
  <2>5. o \in ImagePatches
    BY <2>2 DEF Types, TypeOK
  <2>6. BuildsGuarded' /\ CleansInOrder'
    <3>1. CASE o.deleting
      <4>1. w'.point = "deleteJobs"
        BY <1>2, <2>1, <2>2, <3>1 DEF Entry
      <4>. QED
        BY <2>1, <3>1, <4>1
        DEF BuildsGuarded, CleansInOrder, Building, CleaningUp, At
    <3>2. CASE ~o.deleting /\ o.finalizer
      <4>1. w'.point = "inspect"
        BY <1>2, <2>1, <2>2, <3>2 DEF Entry
      <4>2. Guarded(k)
        BY <2>2, <3>2 DEF CleanupInv, CacheKeepsFinalizer
      <4>. QED
        BY <2>1, <3>2, <4>1, <4>2
        DEF BuildsGuarded, CleansInOrder, CleaningUp, At, Guarded, Exists
    <3>3. CASE ~o.deleting /\ ~o.finalizer
      <4>1. w'.point = "addFinalizer"
        BY <1>2, <2>1, <2>2, <3>3 DEF Entry
      <4>. QED
        BY <4>1 DEF BuildsGuarded, CleansInOrder, Building, CleaningUp, At
    <3>. QED
      BY <3>1, <3>2, <3>3
  <2>. QED
    BY <2>3, <2>4, <2>6 DEF CleanupInv
<1>. QED
  BY <1>1, <1>2

LEMMA ReadInv ==
    ASSUME Types, CleanupInv,
           Inspect \/ GetJob \/ DedupHead \/ RetagGet \/ RetagPut \/ RecordBuildResult
    PROVE  CleanupInv'
<1>. ~At("idle")
  BY DEF At, Inspect, GetJob, DedupHead, RetagGet, RetagPut, RecordBuildResult
<1>. w.obj \in ImagePatches /\ w.obj.spec \in Specs /\ w.key \in CRs /\ Me \in Names
  BY CopyTypes
<1>0. SameMeta(w.obj, w.obj)
  BY DEF SameMeta
<1>7. w \in [point: Points, key: CRs \cup {None}, obj: ImagePatches \cup {None},
             fresh: BOOLEAN, manifest: Images \cup {None}]
  BY DEF Types, TypeOK
<1>1. CASE Inspect
  BY <1>0, <1>1, <1>7, MoveInv, RejectMeta
  DEF Inspect, Goto, At, Building, CleaningUp, Points, buildVars
<1>2. CASE GetJob
  <2>1. jobCache[Me] # None => SameMeta(w.obj, Observed(w.obj, jobCache[Me]))
    BY ObservedMeta DEF Types, TypeOK
  <2>. QED
    BY <1>0, <1>2, <1>7, <2>1, MoveInv, IdleInv
    DEF GetJob, Goto, Return, At, Building, CleaningUp, Points, buildVars
<1>3. CASE DedupHead
  BY <1>0, <1>3, <1>7, MoveInv
  DEF DedupHead, Goto, At, Building, CleaningUp, Points, buildVars
<1>4. CASE RetagGet
  BY <1>0, <1>4, <1>7, MoveInv
  DEF RetagGet, At, Building, CleaningUp, Points, buildVars
<1>5. CASE RetagPut
  BY <1>5, <1>7, MoveInv, DedupHitMeta
  DEF RetagPut, At, Building, CleaningUp, Points
<1>6. CASE RecordBuildResult
  BY <1>6, IdleInv DEF RecordBuildResult, Return, buildVars
<1>. QED
  BY <1>1, <1>2, <1>3, <1>4, <1>5, <1>6

-----------------------------------------------------------------------------
(* Updates of the CR by the worker.                                        *)

LEMMA StoreInv ==
    ASSUME Types, CleanupInv, w.key \in CRs, NEW o \in ImagePatches, o.finalizer,
           Store(w.key, o), UNCHANGED <<job, cm, secret>>,
           w'.point \in {"idle", "record"}
    PROVE  CleanupInv'
<1>1. /\ cr' = [cr EXCEPT ![w.key] = o]
      /\ crLag' = IF o = cr[w.key] THEN crLag ELSE crLag \cup {w.key}
      /\ crCache' = crCache
  BY DEF Store
<1>2. cr \in [CRs -> ImagePatches \cup {None}]
  BY DEF Types, TypeOK
<1>3. ASSUME NEW k \in CRs, Guarded(k)
      PROVE  Guarded(k)'
  BY <1>1, <1>2, <1>3, NoneAssumption, ControllerAssumption DEF Guarded, Exists
<1>4. NoOrphanedResources'
  <2>1. ASSUME NEW n \in Names, NEW x \in {job[n], cm[n], secret[n]}, x # None
        PROVE  x.src \in CRs
    BY <2>1 DEF Types, TypeOK, BuildTypeOK, Jobs, Files
  <2>. QED
    BY <1>3, <2>1 DEF CleanupInv, NoOrphanedResources, Guarded
<1>5. CacheCurrent'
  BY <1>1, <1>2 DEF CleanupInv, CacheCurrent
<1>6. CacheKeepsFinalizer'
  BY <1>1, <1>3 DEF CleanupInv, CacheKeepsFinalizer
<1>7. CopyCurrent' /\ BuildsGuarded' /\ CleansInOrder'
  BY DEF CopyCurrent, BuildsGuarded, CleansInOrder, At, Building, CleaningUp
<1>. QED
  BY <1>4, <1>5, <1>6, <1>7 DEF CleanupInv

(* The finalizer goes when nothing carries the CR's labels any more, and   *)
(* when the cache shows that the CR is being deleted.                      *)
LEMMA RemoveFinalizerInv ==
    ASSUME Types, CleanupInv, RemoveFinalizer
    PROVE  CleanupInv'
<1>. At("removeFinalizer") /\ ~At("idle") /\ ~At("record")
  BY DEF RemoveFinalizer, At
<1>1. w.key \in CRs
  BY CopyTypes
<1>2. CASE ~w.fresh
  BY <1>2, IdleInv DEF RemoveFinalizer, Update, Error, Return, buildVars
<1>3. CASE w.fresh
  <2>1. /\ cr' = [cr EXCEPT ![w.key] = None]
        /\ crLag' = IF None = cr[w.key] THEN crLag ELSE crLag \cup {w.key}
        /\ crCache' = crCache
        /\ w'.point = "idle"
        /\ UNCHANGED <<job, cm, secret>>
    BY <1>3 DEF RemoveFinalizer, Update, Error, Store, Return, Idle, buildVars
  <2>2. cr \in [CRs -> ImagePatches \cup {None}]
    BY DEF Types, TypeOK
  <2>3. ASSUME NEW k \in CRs, k # w.key, Guarded(k)
        PROVE  Guarded(k)'
    BY <2>1, <2>2, <2>3 DEF Guarded, Exists
  <2>4. NoOrphanedResources'
    <3>1. ASSUME NEW n \in Names, NEW x \in {job[n], cm[n], secret[n]}, x # None
          PROVE  x.src \in CRs /\ x.src # w.key /\ Guarded(x.src)
      <4>1. x.src \in CRs
        BY <3>1 DEF Types, TypeOK, BuildTypeOK, Jobs, Files
      <4>2. x.src # w.key
        BY <3>1 DEF CleanupInv, CleansInOrder, CleaningUp, Labelled, At
      <4>. QED
        BY <3>1, <4>1, <4>2 DEF CleanupInv, NoOrphanedResources, Guarded
    <3>. QED
      BY <2>1, <2>3, <3>1 DEF NoOrphanedResources, Guarded
  <2>5. CacheCurrent'
    BY <2>1, <2>2 DEF CleanupInv, CacheCurrent
  <2>6. w.key \notin crLag /\ cr[w.key].deleting
    BY <1>3 DEF CleanupInv, CopyCurrent, CleansInOrder, CleaningUp, At
  <2>7. crCache[w.key].deleting
    BY <1>1, <2>6 DEF CleanupInv, CacheCurrent
  <2>8. CacheKeepsFinalizer'
    BY <2>1, <2>3, <2>7 DEF CleanupInv, CacheKeepsFinalizer
  <2>9. CopyCurrent' /\ BuildsGuarded' /\ CleansInOrder'
    BY <2>1 DEF CopyCurrent, BuildsGuarded, CleansInOrder, At, Building, CleaningUp
  <2>. QED
    BY <2>4, <2>5, <2>8, <2>9 DEF CleanupInv
<1>. QED
  BY <1>2, <1>3

LEMMA CRWriteInv ==
    ASSUME Types, CleanupInv,
           \/ AddFinalizer \/ RemoveFinalizer \/ Reject
           \/ WriteObserved \/ WriteDedupHit \/ WriteRunning
    PROVE  CleanupInv'
<1>. ~At("idle")
  BY DEF At, AddFinalizer, RemoveFinalizer, Reject, WriteObserved, WriteDedupHit, WriteRunning
<1>1. w.obj \in ImagePatches /\ w.key \in CRs
  BY CopyTypes
<1>2. w \in [point: Points, key: CRs \cup {None}, obj: ImagePatches \cup {None},
             fresh: BOOLEAN, manifest: Images \cup {None}]
  BY DEF Types, TypeOK
<1>3. CASE AddFinalizer
  <2>1. /\ [w.obj EXCEPT !.finalizer = TRUE] \in ImagePatches
        /\ [w.obj EXCEPT !.finalizer = TRUE].finalizer
    BY <1>1 DEF ImagePatches
  <2>2. w' = Idle /\ w'.point = "idle"
    BY <1>3 DEF AddFinalizer, Update, Error, Return, Idle
  <2>. QED
    BY <1>1, <1>3, <2>1, <2>2, StoreInv, IdleInv DEF AddFinalizer, Update, buildVars
<1>4. CASE RemoveFinalizer
  BY <1>4, RemoveFinalizerInv
<1>5. CASE Reject \/ WriteObserved \/ WriteDedupHit \/ WriteRunning
  <2>1. w.obj.finalizer
    BY <1>5
    DEF CleanupInv, BuildsGuarded, Building, CleaningUp, Points, At,
        Reject, WriteObserved, WriteDedupHit, WriteRunning
  <2>2. w' = Idle \/ w'.point = "record"
    BY <1>2, <1>5
    DEF Reject, WriteObserved, WriteDedupHit, WriteRunning, Update, Error, Return, Goto
  <2>3. UNCHANGED <<job, cm, secret>>
    BY <1>5 DEF Reject, WriteObserved, WriteDedupHit, WriteRunning, buildVars
  <2>4. \/ Store(w.key, w.obj)
        \/ w' = Idle /\ UNCHANGED crVars
    BY <1>5
    DEF Reject, WriteObserved, WriteDedupHit, WriteRunning, Update, Error, Return
  <2>5. w'.point \in {"idle", "record"}
    BY <2>2 DEF Idle
  <2>. QED
    BY <1>1, <2>1, <2>3, <2>4, <2>5, StoreInv, IdleInv
<1>. QED
  BY <1>3, <1>4, <1>5

-----------------------------------------------------------------------------
(* Steps that change the build namespace.                                  *)

(* A step that leaves the CRs alone and gives nothing to anyone.           *)
LEMMA NothingAcquired ==
    ASSUME CleanupInv, UNCHANGED crVars,
           \A n \in Names : \A o \in {job'[n], cm'[n], secret'[n]} :
               o # None => \E x \in {job[n], cm[n], secret[n]} : x # None /\ x.src = o.src
    PROVE  NoOrphanedResources' /\ CacheCurrent' /\ CacheKeepsFinalizer'
<1>1. NoOrphanedResources'
  <2>. SUFFICES ASSUME NEW n \in Names, NEW o \in {job'[n], cm'[n], secret'[n]}, o # None
                PROVE  Guarded(o.src)
    BY DEF NoOrphanedResources, Guarded, Exists, crVars
  <2>. QED
    BY DEF CleanupInv, NoOrphanedResources, Guarded
<1>2. CacheCurrent' /\ CacheKeepsFinalizer'
  BY DEF CleanupInv, CacheCurrent, CacheKeepsFinalizer, Guarded, Exists, crVars
<1>. QED
  BY <1>1, <1>2

LEMMA DeleteInv ==
    ASSUME Types, CleanupInv, DeleteJobs \/ DeleteConfigMaps \/ DeleteSecrets
    PROVE  CleanupInv'
<1>. w \in [point: Points, key: CRs \cup {None}, obj: ImagePatches \cup {None},
           fresh: BOOLEAN, manifest: Images \cup {None}]
  BY DEF Types, TypeOK
<1>1. /\ w.point \in {"deleteJobs", "deleteConfigMaps", "deleteSecrets"}
      /\ w' = [w EXCEPT !.point = AfterDelete(w.point), !.obj = w.obj]
      /\ UNCHANGED crVars
  BY DEF DeleteJobs, DeleteConfigMaps, DeleteSecrets, Goto, At
<1>2. /\ w'.point \in {"deleteConfigMaps", "deleteSecrets", "removeFinalizer"}
      /\ w'.key = w.key /\ w'.obj = w.obj /\ w'.fresh = w.fresh
  BY <1>1 DEF AfterDelete
<1>3. \A n \in Names : \A o \in {job'[n], cm'[n], secret'[n]} :
         o # None => \E x \in {job[n], cm[n], secret[n]} : x # None /\ x.src = o.src
  BY DEF DeleteJobs, DeleteConfigMaps, DeleteSecrets, Kept
<1>4. NoOrphanedResources' /\ CacheCurrent' /\ CacheKeepsFinalizer'
  BY <1>1, <1>3, NothingAcquired
<1>5. CopyCurrent'
  BY <1>1, <1>2 DEF CleanupInv, CopyCurrent, Exists, crVars, At
<1>6. BuildsGuarded'
  BY <1>2 DEF BuildsGuarded, Building, CleaningUp
<1>7. CleansInOrder'
  <2>1. w.obj.deleting
    BY <1>1 DEF CleanupInv, CleansInOrder, CleaningUp
  <2>2. CASE DeleteJobs
    <3>1. w'.point = "deleteConfigMaps"
      BY <1>1, <2>2 DEF DeleteJobs, At, AfterDelete
    <3>2. \A n \in Names : ~Labelled(w.key, job'[n])
      BY <2>2 DEF DeleteJobs, Kept, Labelled
    <3>. QED
      BY <1>2, <2>1, <3>1, <3>2 DEF CleansInOrder, CleaningUp, At, Labelled
  <2>3. CASE DeleteConfigMaps
    <3>1. w'.point = "deleteSecrets" /\ At("deleteConfigMaps") /\ UNCHANGED job
      BY <1>1, <2>3 DEF DeleteConfigMaps, At, AfterDelete
    <3>2. \A n \in Names : ~Labelled(w.key, cm'[n])
      BY <2>3 DEF DeleteConfigMaps, Kept, Labelled
    <3>3. \A n \in Names : ~Labelled(w.key, job[n])
      BY <3>1 DEF CleanupInv, CleansInOrder, CleaningUp, At
    <3>. QED
      BY <1>2, <2>1, <3>1, <3>2, <3>3 DEF CleansInOrder, CleaningUp, At, Labelled
  <2>4. CASE DeleteSecrets
    <3>1. w'.point = "removeFinalizer" /\ At("deleteSecrets") /\ UNCHANGED <<job, cm>>
      BY <1>1, <2>4 DEF DeleteSecrets, At, AfterDelete
    <3>2. \A n \in Names : ~Labelled(w.key, secret'[n])
      BY <2>4 DEF DeleteSecrets, Kept, Labelled
    <3>3. \A n \in Names : ~Labelled(w.key, job[n]) /\ ~Labelled(w.key, cm[n])
      BY <3>1 DEF CleanupInv, CleansInOrder, CleaningUp, At
    <3>. QED
      BY <1>2, <2>1, <3>1, <3>2, <3>3 DEF CleansInOrder, CleaningUp, At, Labelled
  <2>. QED
    BY <2>2, <2>3, <2>4
<1>. QED
  BY <1>4, <1>5, <1>6, <1>7 DEF CleanupInv

(* What the worker creates carries the labels of a guarded CR.             *)
LEMMA CreateInv ==
    ASSUME Types, CleanupInv, ApplyConfigMap \/ ApplyAuthSecret \/ CreateJob
    PROVE  CleanupInv'
<1>. ~At("idle")
  BY DEF At, ApplyConfigMap, ApplyAuthSecret, CreateJob
<1>1. w.obj \in ImagePatches /\ w.obj.spec \in Specs /\ w.key \in CRs /\ Me \in Names
  BY CopyTypes
<1>2. w \in [point: Points, key: CRs \cup {None}, obj: ImagePatches \cup {None},
             fresh: BOOLEAN, manifest: Images \cup {None}]
  BY DEF Types, TypeOK
<1>3. /\ w.point \in {"configMap", "authSecret", "createJob"}
      /\ UNCHANGED crVars
  BY DEF ApplyConfigMap, ApplyAuthSecret, CreateJob, At
<1>4. Guarded(w.key)
  BY <1>3 DEF CleanupInv, BuildsGuarded, Building, CleaningUp, Points
<1>5. \/ w' = Idle
      \/ /\ w'.point \in {"authSecret", "head", "createJob", "running"}
         /\ w'.key = w.key /\ w'.fresh = w.fresh
         /\ SameMeta(w.obj, w'.obj)
  <2>1. CASE ApplyConfigMap \/ ApplyAuthSecret
    BY <1>1, <1>2, <2>1
    DEF ApplyConfigMap, ApplyAuthSecret, Goto, AfterConfigMap, AfterAuth, SameMeta
  <2>2. CASE CreateJob
    <3>1. CASE job[Me] = None
      <4>1. w' = [w EXCEPT !.point = "running",
                           !.obj = [w.obj EXCEPT !.phase = "Running", !.jobName = TRUE,
                                                 !.image = Target[w.obj.spec]]]
        BY <2>2, <3>1 DEF CreateJob, Goto
      <4>. DEFINE o == [w.obj EXCEPT !.phase = "Running", !.jobName = TRUE,
                                     !.image = Target[w.obj.spec]]
      <4>2. SameMeta(w.obj, o) /\ w' = [w EXCEPT !.point = "running", !.obj = o]
        BY <1>1, <4>1, RunningMeta
      <4>. HIDE DEF o
      <4>. QED
        BY <1>2, <4>2
    <3>2. CASE job[Me] # None
      BY <2>2, <3>2 DEF CreateJob, Error, Return
    <3>. QED
      BY <3>1, <3>2
  <2>. QED
    BY <2>1, <2>2
<1>6. NoOrphanedResources'
  <2>. SUFFICES ASSUME NEW n \in Names, NEW o \in {job'[n], cm'[n], secret'[n]}, o # None
                PROVE  Guarded(o.src)
    BY <1>3 DEF NoOrphanedResources, Guarded, Exists, crVars
  <2>1. o.src = w.key \/ \E x \in {job[n], cm[n], secret[n]} : x # None /\ x.src = o.src
    <3>1. CASE ApplyConfigMap
      BY <1>1, <3>1 DEF ApplyConfigMap, Applied, Types, TypeOK, BuildTypeOK, Files
    <3>2. CASE ApplyAuthSecret
      BY <1>1, <3>2 DEF ApplyAuthSecret, Applied, Types, TypeOK, BuildTypeOK, Files
    <3>3. CASE CreateJob
      <4>. DEFINE new == ConstructJob(w.key, w.obj.spec, ConsultsDedup(w.obj.spec))
      <4>1. new.src = w.key
        BY DEF ConstructJob
      <4>2. job' = job \/ job' = [job EXCEPT ![Me] = new]
        BY <3>3 DEF CreateJob
      <4>3. UNCHANGED <<cm, secret>>
        BY <3>3 DEF CreateJob
      <4>. HIDE DEF new
      <4>4. job'[n] = job[n] \/ job'[n] = new
        BY <1>1, <4>2 DEF Types, TypeOK, BuildTypeOK
      <4>. QED
        BY <4>1, <4>3, <4>4
    <3>. QED
      BY <3>1, <3>2, <3>3
  <2>. QED
    BY <1>4, <2>1 DEF CleanupInv, NoOrphanedResources, Guarded
<1>7. CacheCurrent' /\ CacheKeepsFinalizer'
  BY <1>3 DEF CleanupInv, CacheCurrent, CacheKeepsFinalizer, Guarded, Exists, crVars
<1>8. CopyCurrent'
  <2>1. CASE w' = Idle
    BY <2>1 DEF CopyCurrent, At, Idle
  <2>2. CASE w'.key = w.key /\ w'.fresh = w.fresh /\ SameMeta(w.obj, w'.obj)
    <3>1. ~At("idle") /\ ~At("record")
      BY <1>3 DEF At
    <3>. QED
      BY <1>3, <2>2, <3>1 DEF CleanupInv, CopyCurrent, Exists, crVars, SameMeta
  <2>. QED
    BY <1>5, <2>1, <2>2
<1>9. BuildsGuarded'
  <2>1. w.point \in Building /\ w.obj.finalizer /\ ~w.obj.deleting
    BY <1>3 DEF CleanupInv, BuildsGuarded, Building, CleaningUp, Points
  <2>2. CASE w' = Idle
    BY <2>2 DEF BuildsGuarded, Building, Idle
  <2>3. CASE w'.key = w.key /\ SameMeta(w.obj, w'.obj)
    BY <1>3, <1>4, <2>1, <2>3 DEF BuildsGuarded, Guarded, Exists, crVars, SameMeta
  <2>. QED
    BY <1>5, <2>2, <2>3
<1>10. CleansInOrder'
  BY <1>5 DEF CleansInOrder, CleaningUp, At, Idle
<1>. QED
  BY <1>6, <1>7, <1>8, <1>9, <1>10 DEF CleanupInv

LEMMA BuildsInv ==
    ASSUME Types, CleanupInv, Builds
    PROVE  CleanupInv'
<1>1. UNCHANGED <<cm, secret, crVars, w>>
  <2>1. ASSUME NEW n \in Names, PodStarts(n)
        PROVE  UNCHANGED <<cm, secret>>
    BY <2>1 DEF PodStarts
  <2>2. ASSUME NEW n \in Names, NEW g \in Slots,
               \/ PodMounts(n, g) \/ PodPushes(n, g) \/ PodSucceeds(n, g)
               \/ PodCollected(n, g) \/ \E c \in Causes : PodFails(n, g, c)
        PROVE  UNCHANGED <<cm, secret>>
    BY <2>2 DEF PodMounts, PodPushes, PodSucceeds, PodCollected, PodFails
  <2>. QED
    BY <2>1, <2>2 DEF Builds, BuildNext
<1>2. \A n \in Names : job'[n] # None => job[n] # None /\ job'[n].src = job[n].src
  <2>1. ASSUME NEW m \in Names, NEW s \in {"active", "succeeded", "failed"}, job[m] # None,
               job' = [job EXCEPT ![m].state = s]
        PROVE  \A n \in Names : job'[n] # None => job[n] # None /\ job'[n].src = job[n].src
    <3>1. job[m] \in Jobs
      BY <2>1 DEF Types, TypeOK, BuildTypeOK
    <3>2. [job[m] EXCEPT !.state = s].src = job[m].src
      BY <3>1 DEF Jobs
    <3>. QED
      BY <2>1, <3>2 DEF Types, TypeOK, BuildTypeOK
  <2>2. ASSUME NEW m \in Names, NEW g \in Slots, pod[m][g] # None, g = "job"
        PROVE  job[m] # None
    BY <2>2 DEF Types, PodShape
  <2>3. ASSUME NEW m \in Names, PodStarts(m)
        PROVE  \A n \in Names : job'[n] # None => job[n] # None /\ job'[n].src = job[n].src
    BY <2>1, <2>3 DEF PodStarts
  <2>4. ASSUME NEW m \in Names, NEW g \in Slots, PodSucceeds(m, g)
        PROVE  \A n \in Names : job'[n] # None => job[n] # None /\ job'[n].src = job[n].src
    BY <2>1, <2>2, <2>4 DEF PodSucceeds
  <2>5. ASSUME NEW m \in Names, NEW g \in Slots, NEW c \in Causes, PodFails(m, g, c)
        PROVE  \A n \in Names : job'[n] # None => job[n] # None /\ job'[n].src = job[n].src
    BY <2>1, <2>2, <2>5 DEF PodFails
  <2>6. ASSUME NEW m \in Names, NEW g \in Slots,
               PodMounts(m, g) \/ PodPushes(m, g) \/ PodCollected(m, g)
        PROVE  job' = job
    BY <2>6 DEF PodMounts, PodPushes, PodCollected
  <2>. QED
    BY <2>3, <2>4, <2>5, <2>6 DEF Builds, BuildNext
<1>3. NoOrphanedResources' /\ CacheCurrent' /\ CacheKeepsFinalizer'
  BY <1>1, <1>2, NothingAcquired
<1>4. CopyCurrent' /\ BuildsGuarded'
  BY <1>1 DEF CleanupInv, CopyCurrent, BuildsGuarded, Guarded, Exists, At, crVars
<1>5. CleansInOrder'
  BY <1>1, <1>2 DEF CleanupInv, CleansInOrder, Labelled, At
<1>. QED
  BY <1>3, <1>4, <1>5 DEF CleanupInv

-----------------------------------------------------------------------------
(* Faults, deliveries and users.                                           *)

LEMMA FaultInv ==
    ASSUME Types, CleanupInv, Faults
    PROVE  CleanupInv'
<1>1. CASE FailOpen
  <2>1. w \in [point: Points, key: CRs \cup {None}, obj: ImagePatches \cup {None},
               fresh: BOOLEAN, manifest: Images \cup {None}]
    BY DEF Types, TypeOK
  <2>2. ~At("idle")
    BY <1>1 DEF FailOpen, At
  <2>3. SameMeta(w.obj, w.obj)
    BY <2>2, CopyTypes DEF SameMeta
  <2>. QED
    BY <1>1, <2>1, <2>3, MoveInv DEF FailOpen, Building, CleaningUp, Points, buildVars
<1>2. CASE CallFails
  BY <1>2, IdleInv DEF CallFails, Error, Return, buildVars
<1>3. CASE Crash
  <2>1. /\ w' = Idle /\ UNCHANGED <<job, cm, secret, cr>>
        /\ crCache' = cr /\ crLag' = {}
    BY <1>3 DEF Crash, buildVars
  <2>2. NoOrphanedResources' /\ CacheCurrent' /\ CacheKeepsFinalizer'
    BY <2>1 DEF CleanupInv, NoOrphanedResources, CacheCurrent, CacheKeepsFinalizer,
                Guarded, Exists
  <2>3. CopyCurrent' /\ BuildsGuarded' /\ CleansInOrder'
    BY <2>1 DEF Idle, CopyCurrent, BuildsGuarded, CleansInOrder, At, Building, CleaningUp
  <2>. QED
    BY <2>2, <2>3 DEF CleanupInv
<1>4. CASE ClassifyFails
  <2>. DEFINE o == [w.obj EXCEPT !.phase = "Failed", !.message = "ControllerInternalError"]
  <2>1. w \in [point: Points, key: CRs \cup {None}, obj: ImagePatches \cup {None},
               fresh: BOOLEAN, manifest: Images \cup {None}]
    BY DEF Types, TypeOK
  <2>2. At("getJob") /\ ~At("idle")
    BY <1>4 DEF ClassifyFails, At
  <2>3. SameMeta(w.obj, o)
    BY <2>2, CopyTypes DEF SameMeta, ImagePatches, Messages, FailureLabels, Phases
  <2>4. Goto("observed", o) /\ UNCHANGED <<job, cm, secret, crVars>>
    BY <1>4 DEF ClassifyFails, buildVars
  <2>. HIDE DEF o
  <2>. QED
    BY <2>1, <2>2, <2>3, <2>4, MoveInv DEF Goto, At, Building, CleaningUp, Points
<1>. QED
  BY <1>1, <1>2, <1>3, <1>4 DEF Faults

LEMMA DeliveryInv ==
    ASSUME Types, CleanupInv, Delivery
    PROVE  CleanupInv'
<1>1. ASSUME NEW k \in CRs, SyncCR(k)
      PROVE  CleanupInv'
  <2>1. /\ UNCHANGED <<job, cm, secret, cr, w>>
        /\ crCache' = [crCache EXCEPT ![k] = cr[k]]
        /\ crLag' = crLag \ {k}
    BY <1>1 DEF SyncCR, buildVars
  <2>2. crCache \in [CRs -> ImagePatches \cup {None}]
    BY DEF Types, TypeOK
  <2>3. NoOrphanedResources' /\ BuildsGuarded' /\ CleansInOrder'
    BY <2>1 DEF CleanupInv, NoOrphanedResources, BuildsGuarded, CleansInOrder, Guarded,
                Exists, At
  <2>4. CacheCurrent' /\ CacheKeepsFinalizer'
    BY <2>1, <2>2 DEF CleanupInv, CacheCurrent, CacheKeepsFinalizer, Guarded, Exists
  <2>5. CopyCurrent'
    BY <2>1 DEF CleanupInv, CopyCurrent, Exists, At
  <2>. QED
    BY <2>3, <2>4, <2>5 DEF CleanupInv
<1>2. ASSUME NEW k \in CRs, TimerFires(k)
      PROVE  CleanupInv'
  BY <1>2, QuietInv DEF TimerFires, buildVars
<1>3. ASSUME NEW n \in Names, SyncJob(n)
      PROVE  CleanupInv'
  BY <1>3, QuietInv DEF SyncJob, buildVars
<1>. QED
  BY <1>1, <1>2, <1>3 DEF Delivery

(* A write that leaves the finalizer where there is one, and removes no CR *)
(* that has it, invalidates the worker's copy and nothing else.            *)
LEMMA UserWriteInv ==
    ASSUME Types, CleanupInv, NEW k \in CRs, NEW o \in ImagePatches \cup {None},
           UserWrite(k, o), UNCHANGED buildVars,
           Guarded(k) => o # None /\ o.finalizer
    PROVE  CleanupInv'
<1>1. /\ cr' = [cr EXCEPT ![k] = o]
      /\ crLag' = IF o = cr[k] THEN crLag ELSE crLag \cup {k}
      /\ w' = [w EXCEPT !.fresh = w.fresh /\ w.key # k]
      /\ UNCHANGED <<crCache, job, cm, secret>>
  BY DEF UserWrite, Store, buildVars
<1>2. cr \in [CRs -> ImagePatches \cup {None}]
  BY DEF Types, TypeOK
<1>3. w'.point = w.point /\ w'.key = w.key /\ w'.obj = w.obj
      /\ (w'.fresh => w.fresh /\ w.key # k)
  BY <1>1 DEF Types, TypeOK
<1>4. ASSUME NEW j \in CRs, Guarded(j)
      PROVE  Guarded(j)'
  BY <1>1, <1>2, <1>4 DEF Guarded, Exists
<1>5. NoOrphanedResources'
  <2>1. ASSUME NEW n \in Names, NEW x \in {job[n], cm[n], secret[n]}, x # None
        PROVE  x.src \in CRs
    BY <2>1 DEF Types, TypeOK, BuildTypeOK, Jobs, Files
  <2>. QED
    BY <1>1, <1>4, <2>1 DEF CleanupInv, NoOrphanedResources, Guarded
<1>6. CacheCurrent'
  BY <1>1, <1>2 DEF CleanupInv, CacheCurrent
<1>7. CacheKeepsFinalizer'
  BY <1>1, <1>4 DEF CleanupInv, CacheKeepsFinalizer
<1>8. CopyCurrent'
  <2>. SUFFICES ASSUME w.fresh, w.key # k, ~At("idle"), ~At("record")
                PROVE  /\ w.key \notin crLag'
                       /\ cr'[w.key] # None
                       /\ w.obj.spec = cr'[w.key].spec
                       /\ w.obj.deleting = cr'[w.key].deleting
    BY <1>3 DEF CopyCurrent, Exists, At
  <2>. QED
    BY <1>1, <1>2, CopyTypes DEF CleanupInv, CopyCurrent, Exists
<1>9. BuildsGuarded'
  <2>1. w.point \in Building => w.key \in CRs
    BY CopyTypes DEF Building, At
  <2>. QED
    BY <1>3, <1>4, <2>1 DEF CleanupInv, BuildsGuarded, Guarded
<1>10. CleansInOrder'
  BY <1>1, <1>3 DEF CleanupInv, CleansInOrder, At
<1>. QED
  BY <1>5, <1>6, <1>7, <1>8, <1>9, <1>10 DEF CleanupInv

LEMMA UserInv ==
    ASSUME Types, CleanupInv, Users
    PROVE  CleanupInv'
<1>1. ASSUME NEW k \in CRs, NEW s \in Wanted[k], CreateCR(k, s)
      PROVE  CleanupInv'
  <2>1. NewImagePatch(s) \in ImagePatches
    BY ControllerAssumption, NoneAssumption
    DEF NewImagePatch, ImagePatches, Messages, Phases
  <2>. QED
    BY <1>1, <2>1, UserWriteInv DEF CreateCR, Guarded, Exists
<1>2. ASSUME NEW k \in CRs, NEW s \in Wanted[k], EditSpec(k, s)
      PROVE  CleanupInv'
  <2>1. cr[k] \in ImagePatches /\ s \in Specs
    BY <1>2, ControllerAssumption DEF EditSpec, Types, TypeOK
  <2>2. /\ [cr[k] EXCEPT !.spec = s] \in ImagePatches
        /\ [cr[k] EXCEPT !.spec = s].finalizer = cr[k].finalizer
        /\ [cr[k] EXCEPT !.spec = s] # None
    BY <2>1, ControllerAssumption DEF ImagePatches
  <2>. QED
    BY <1>2, <2>2, UserWriteInv DEF EditSpec, Guarded
<1>3. ASSUME NEW k \in CRs, Touch(k)
      PROVE  CleanupInv'
  <2>1. /\ UNCHANGED <<job, cm, secret, cr, crCache>>
        /\ crLag' = crLag \cup {k}
        /\ w'.point = w.point /\ w'.key = w.key /\ w'.obj = w.obj
        /\ (w'.fresh => w.fresh /\ w.key # k)
    BY <1>3 DEF Touch, buildVars, Types, TypeOK
  <2>2. NoOrphanedResources' /\ CacheCurrent' /\ CacheKeepsFinalizer'
    BY <2>1 DEF CleanupInv, NoOrphanedResources, CacheCurrent, CacheKeepsFinalizer,
                Guarded, Exists
  <2>3. CopyCurrent' /\ BuildsGuarded' /\ CleansInOrder'
    BY <2>1 DEF CleanupInv, CopyCurrent, BuildsGuarded, CleansInOrder, Guarded, Exists, At
  <2>. QED
    BY <2>2, <2>3 DEF CleanupInv
<1>4. ASSUME NEW k \in CRs, DeleteCR(k)
      PROVE  CleanupInv'
  <2>1. cr[k] \in ImagePatches
    BY <1>4 DEF DeleteCR, Types, TypeOK
  <2>2. /\ [cr[k] EXCEPT !.deleting = TRUE] \in ImagePatches
        /\ [cr[k] EXCEPT !.deleting = TRUE].finalizer = cr[k].finalizer
        /\ [cr[k] EXCEPT !.deleting = TRUE] # None
    BY <2>1, ControllerAssumption DEF ImagePatches
  <2>. QED
    BY <1>4, <2>2, UserWriteInv DEF DeleteCR, Guarded
<1>. QED
  BY <1>1, <1>2, <1>3, <1>4 DEF Users

LEMMA CleanupNextInv == Types /\ CleanupInv /\ [Next]_vars => CleanupInv'
<1>. SUFFICES ASSUME Types, CleanupInv, [Next]_vars
              PROVE  CleanupInv'
  OBVIOUS
<1>1. CASE ReconcileStep
  BY <1>1, FetchInv, CRWriteInv, DeleteInv, ReadInv, CreateInv DEF ReconcileStep
<1>2. CASE RecordBuildResult
  BY <1>2, ReadInv
<1>3. CASE UNCHANGED vars
  BY <1>3, QuietInv DEF vars, buildVars
<1>. QED
  BY <1>1, <1>2, <1>3, BuildsInv, FaultInv, DeliveryInv, UserInv DEF Next, Reconcile

(* What an older controller left belongs to a CR that it gave a finalizer. *)
LEMMA CleanupInitInv == Init => CleanupInv
<1>. SUFFICES ASSUME Init
              PROVE  CleanupInv
  OBVIOUS
<1>1. PICK old \in [Legacy -> Specs] :
        LET owner(n) == CHOOSE k \in Legacy : NameOf[k] = n
            held(n)  == \E k \in Legacy : NameOf[k] = n
            file(n)  == IF held(n) THEN [src |-> owner(n), spec |-> old[owner(n)]]
                        ELSE None
        IN
        /\ cr = [k \in CRs |-> IF k \in Legacy THEN LegacyImagePatch(old[k]) ELSE None]
        /\ job = [n \in Names |->
                    IF held(n)
                    THEN [ConstructJob(owner(n), old[owner(n)], FALSE)
                            EXCEPT !.state = "failed"]
                    ELSE None]
        /\ cm = [n \in Names |-> file(n)]
        /\ secret = [n \in Names |->
                       IF held(n) /\ old[owner(n)] \in OwnAuth THEN file(n) ELSE None]
  BY DEF Init
<1>. DEFINE owner(n) == CHOOSE k \in Legacy : NameOf[k] = n
            held(n)  == \E k \in Legacy : NameOf[k] = n
<1>2. ASSUME NEW n, held(n)
      PROVE  owner(n) \in Legacy /\ owner(n) \in CRs
  BY <1>2, ControllerAssumption
<1>3. ASSUME NEW n \in Names
      PROVE  /\ job[n] # None => held(n) /\ job[n].src = owner(n)
             /\ cm[n] # None => held(n) /\ cm[n].src = owner(n)
             /\ secret[n] # None => held(n) /\ secret[n].src = owner(n)
  BY <1>1 DEF ConstructJob
<1>4. ASSUME NEW k \in Legacy
      PROVE  Guarded(k)
  <2>1. k \in CRs /\ cr[k] = LegacyImagePatch(old[k])
    BY <1>1, ControllerAssumption
  <2>2. LegacyImagePatch(old[k]).finalizer
    BY DEF LegacyImagePatch, NewImagePatch
  <2>3. cr[k] \in ImagePatches
    <3>1. LegacyImagePatch(old[k]) \in ImagePatches
      BY RefsAssumption
      DEF LegacyImagePatch, NewImagePatch, ImagePatches, Messages, Phases, Refs
    <3>. QED
      BY <2>1, <3>1
  <2>. QED
    BY <2>1, <2>2, <2>3, ControllerAssumption DEF Guarded, Exists
<1>. HIDE DEF owner, held
<1>5. NoOrphanedResources
  BY <1>2, <1>3, <1>4 DEF NoOrphanedResources, Guarded
<1>6. CacheCurrent /\ CacheKeepsFinalizer
  BY DEF Init, CacheCurrent, CacheKeepsFinalizer, Guarded, Exists
<1>7. CopyCurrent /\ BuildsGuarded /\ CleansInOrder
  BY DEF Init, Idle, CopyCurrent, BuildsGuarded, CleansInOrder, Building, CleaningUp, At
<1>. QED
  BY <1>5, <1>6, <1>7 DEF CleanupInv

(* The inductive invariant of the clean-up: beside the promise itself, how *)
(* far the cached CR and the worker's copy may lag behind the server.      *)
THEOREM CleanupHolds == Spec => [](Types /\ CleanupInv)
<1>1. Init => Types /\ CleanupInv
  BY TypesInit, CleanupInitInv
<1>2. Types /\ CleanupInv /\ [Next]_vars => (Types /\ CleanupInv)'
  BY TypesNext, CleanupNextInv
<1>. QED
  BY <1>1, <1>2, PTL DEF Spec

-----------------------------------------------------------------------------
(* However stale the caches, whatever fails and wherever the process dies, *)
(* a Job, ConfigMap or Secret always bears the labels of a CR that exists  *)
(* and still has the finalizer which will clean it up: the invariant of    *)
(* the runs "recreate" and "share" for every value of the constants.       *)
THEOREM OrphanFree == Spec => []NoOrphanedResources
<1>1. CleanupInv => NoOrphanedResources
  BY DEF CleanupInv
<1>. QED
  BY <1>1, CleanupHolds, PTL

-----------------------------------------------------------------------------
(* Users' writes.                                                          *)

KeepsUserWrites ==
    \A k \in CRs : Exists(k) /\ cr'[k] # None =>
        /\ cr'[k].spec # cr[k].spec => left'["edit"] < left["edit"]
        /\ cr[k].deleting => cr'[k].deleting

LEMMA StoreKeeps ==
    ASSUME Types, NEW k \in CRs, NEW o \in ImagePatches \cup {None}, Store(k, o),
           Exists(k) /\ o # None =>
               /\ o.spec = cr[k].spec
               /\ cr[k].deleting => o.deleting
    PROVE  KeepsUserWrites
  BY DEF Types, TypeOK, Store, KeepsUserWrites, Exists

LEMMA UpdatesKeepUserWrites ==
    ASSUME Types, CleanupInv,
           \/ AddFinalizer \/ RemoveFinalizer \/ Reject
           \/ WriteObserved \/ WriteDedupHit \/ WriteRunning
    PROVE  KeepsUserWrites
<1>. ~At("idle") /\ ~At("record")
  BY DEF At, AddFinalizer, RemoveFinalizer, Reject, WriteObserved, WriteDedupHit, WriteRunning
<1>1. w.obj \in ImagePatches /\ w.key \in CRs
  BY CopyTypes
<1>2. CASE UNCHANGED crVars
  BY <1>2 DEF KeepsUserWrites, crVars
<1>3. CASE w.fresh /\ ~UNCHANGED crVars
  <2>1. w.obj.spec = cr[w.key].spec /\ w.obj.deleting = cr[w.key].deleting
    BY <1>3 DEF CleanupInv, CopyCurrent
  <2>2. CASE AddFinalizer
    <3>1. /\ [w.obj EXCEPT !.finalizer = TRUE] \in ImagePatches
          /\ [w.obj EXCEPT !.finalizer = TRUE].spec = w.obj.spec
          /\ [w.obj EXCEPT !.finalizer = TRUE].deleting = w.obj.deleting
      BY <1>1 DEF ImagePatches
    <3>. QED
      BY <1>1, <1>3, <2>1, <2>2, <3>1, StoreKeeps DEF AddFinalizer, Update
  <2>3. CASE RemoveFinalizer
    BY <1>1, <1>3, <2>3, StoreKeeps DEF RemoveFinalizer, Update
  <2>4. CASE Reject \/ WriteObserved \/ WriteDedupHit \/ WriteRunning
    BY <1>1, <1>3, <2>1, <2>4, StoreKeeps
    DEF Reject, WriteObserved, WriteDedupHit, WriteRunning, Update
  <2>. QED
    BY <2>2, <2>3, <2>4
<1>4. w.fresh \/ UNCHANGED crVars
  BY DEF AddFinalizer, RemoveFinalizer, Reject, WriteObserved, WriteDedupHit, WriteRunning,
         Update
<1>. QED
  BY <1>2, <1>3, <1>4

LEMMA UsersKeepUserWrites ==
    ASSUME Types, CleanupInv, Users
    PROVE  KeepsUserWrites
<1>. cr \in [CRs -> ImagePatches \cup {None}]
  BY DEF Types, TypeOK
<1>1. ASSUME NEW k \in CRs, NEW s \in Wanted[k], CreateCR(k, s)
      PROVE  KeepsUserWrites
  BY <1>1 DEF CreateCR, UserWrite, Store, KeepsUserWrites, Exists
<1>2. ASSUME NEW k \in CRs, NEW s \in Wanted[k], EditSpec(k, s)
      PROVE  KeepsUserWrites
  <2>1. /\ cr' = [cr EXCEPT ![k] = [cr[k] EXCEPT !.spec = s]]
        /\ ~cr[k].deleting
        /\ left["edit"] > 0 /\ left' = [left EXCEPT !["edit"] = @ - 1]
    BY <1>2 DEF EditSpec, UserWrite, Store, Spend
  <2>2. left'["edit"] < left["edit"]
    BY <2>1 DEF Types, TypeOK, Events
  <2>. QED
    BY <2>1, <2>2 DEF KeepsUserWrites
<1>3. ASSUME NEW k \in CRs, Touch(k)
      PROVE  KeepsUserWrites
  BY <1>3 DEF Touch, KeepsUserWrites
<1>4. ASSUME NEW k \in CRs, DeleteCR(k)
      PROVE  KeepsUserWrites
  <2>1. cr[k] \in ImagePatches
    BY <1>4 DEF DeleteCR
  <2>2. /\ [cr[k] EXCEPT !.deleting = TRUE] \in ImagePatches
        /\ [cr[k] EXCEPT !.deleting = TRUE].spec = cr[k].spec
        /\ [cr[k] EXCEPT !.deleting = TRUE].deleting
    BY <2>1 DEF ImagePatches
  <2>. QED
    BY <1>4, <2>2, StoreKeeps DEF DeleteCR, UserWrite
<1>. QED
  BY <1>1, <1>2, <1>3, <1>4 DEF Users

(* The rest of the system does not write CRs.                              *)
LEMMA OthersKeepCRs ==
    ASSUME \/ \E k \in CRs : Fetch(k)
           \/ DeleteJobs \/ DeleteConfigMaps \/ DeleteSecrets
           \/ Inspect \/ GetJob \/ ApplyConfigMap \/ ApplyAuthSecret
           \/ DedupHead \/ RetagGet \/ RetagPut \/ CreateJob \/ RecordBuildResult
           \/ Faults \/ Delivery \/ Builds \/ UNCHANGED vars
    PROVE  cr' = cr
<1>1. CASE Faults
  BY <1>1 DEF Faults, FailOpen, ClassifyFails, CallFails, Crash, crVars
<1>2. CASE Delivery
  BY <1>2 DEF Delivery, SyncCR, TimerFires, SyncJob, crVars
<1>3. CASE Builds \/ UNCHANGED vars
  BY <1>3 DEF Builds, vars, crVars
<1>4. CASE \/ \E k \in CRs : Fetch(k)
           \/ DeleteJobs \/ DeleteConfigMaps \/ DeleteSecrets
  BY <1>4 DEF Fetch, DeleteJobs, DeleteConfigMaps, DeleteSecrets, crVars
<1>5. CASE \/ Inspect \/ GetJob \/ ApplyConfigMap \/ ApplyAuthSecret
           \/ DedupHead \/ RetagGet \/ RetagPut \/ CreateJob \/ RecordBuildResult
  BY <1>5
  DEF Inspect, GetJob, ApplyConfigMap, ApplyAuthSecret, DedupHead, RetagGet, RetagPut,
      CreateJob, RecordBuildResult, crVars
<1>. QED
  BY <1>1, <1>2, <1>3, <1>4, <1>5

(* No update of a reconcile undoes an edit or a deletion that its copy of  *)
(* the CR does not show: optimistic concurrency refuses it.  The property  *)
(* of the runs "recreate" and "edit" for every value of the constants.     *)
THEOREM UserWritesKept == Spec => UserWritesSurvive
<1>1. Types /\ CleanupInv /\ [Next]_vars => [KeepsUserWrites]_vars
  <2>. SUFFICES ASSUME Types, CleanupInv, [Next]_vars
                PROVE  KeepsUserWrites
    OBVIOUS
  <2>1. CASE cr' = cr
    BY <2>1 DEF KeepsUserWrites
  <2>. QED
    BY <2>1, UpdatesKeepUserWrites, UsersKeepUserWrites, OthersKeepCRs
    DEF Next, Reconcile, ReconcileStep
<1>2. UserWritesSurvive <=> [][KeepsUserWrites]_vars
  BY DEF UserWritesSurvive, KeepsUserWrites
<1>. QED
  BY <1>1, <1>2, CleanupHolds, PTL DEF Spec

-----------------------------------------------------------------------------
(* Nobody is forgotten.  A reconcile that returns without asking to be     *)
(* woken relies on what it has read or written: either its copy is what    *)
(* the server holds, and then the CR needs nothing more or has a new       *)
(* version whose event is due; or the copy is out of date, and then the    *)
(* event of the version it lacks is due, or has queued the key meanwhile.  *)

Needy(k) == Exists(k) /\ (cr[k].deleting \/ ~Terminal(k))

StaleCopyWakes == ~At("idle") /\ ~w.fresh => w.key \in crLag \cup queue

DeletedIsGuarded == \A k \in CRs : Exists(k) /\ cr[k].deleting => cr[k].finalizer

CopyUntouched ==
    w.point \in {"addFinalizer", "inspect", "getJob"} /\ w.fresh => w.obj = cr[w.key]

CopyAnswers ==
    /\ At("addFinalizer") => ~w.obj.finalizer
    /\ At("reject") => w.obj.phase = "Failed"
    /\ At("observed") => w.obj.phase \in {"Running", "Succeeded", "Failed"}
    /\ At("hit") => w.obj.phase = "Succeeded"
    /\ At("record") /\ w.fresh => Exists(w.key) /\ ~Needy(w.key)

WakeInv ==
    /\ NobodyForgotten
    /\ StaleCopyWakes
    /\ DeletedIsGuarded
    /\ CopyUntouched
    /\ CopyAnswers

(* A step that neither writes a CR nor moves the worker, and loses nobody. *)
LEMMA QuietWake ==
    ASSUME WakeInv, UNCHANGED <<cr, w>>,
           crLag \cup queue \subseteq crLag' \cup queue',
           timers \subseteq timers' \cup queue'
    PROVE  WakeInv'
<1>1. \A k \in CRs : Attended(k) => Attended(k)'
  BY DEF Attended, At
<1>2. NobodyForgotten' /\ StaleCopyWakes'
  BY <1>1 DEF WakeInv, NobodyForgotten, StaleCopyWakes, Exists, Live, Terminal, At
<1>3. DeletedIsGuarded' /\ CopyUntouched' /\ CopyAnswers'
  BY DEF WakeInv, DeletedIsGuarded, CopyUntouched, CopyAnswers, Needy, Exists, Terminal, At
<1>. QED
  BY <1>2, <1>3 DEF WakeInv

(* The reconcile goes on.                                                  *)
LEMMA MoveWake ==
    ASSUME WakeInv, ~At("idle"), w'.point # "idle",
           w'.key = w.key, w'.fresh = w.fresh, UNCHANGED crVars,
           queue \subseteq queue', timers' = timers, CopyUntouched', CopyAnswers'
    PROVE  WakeInv'
<1>1. \A k \in CRs : Attended(k) => Attended(k)'
  BY DEF Attended, At, crVars
<1>2. NobodyForgotten' /\ StaleCopyWakes' /\ DeletedIsGuarded'
  BY <1>1
  DEF WakeInv, NobodyForgotten, StaleCopyWakes, DeletedIsGuarded, Exists, Live, Terminal,
      At, crVars
<1>. QED
  BY <1>2 DEF WakeInv

(* The reconcile ends, having written nothing.                             *)
LEMMA ReturnWake ==
    ASSUME WakeInv, ~At("idle"), NEW again \in BOOLEAN, Return(again),
           UNCHANGED <<crVars, queue>>,
           again \/ ~w.fresh \/ ~Needy(w.key)
    PROVE  WakeInv'
<1>1. w'.point = "idle" /\ timers \subseteq timers' /\ (again => w.key \in timers')
  BY DEF Return, Idle
<1>2. NobodyForgotten'
  <2>. SUFFICES ASSUME NEW k \in CRs, Needy(k)
                PROVE  k \in queue \cup timers' \cup crLag
    BY DEF NobodyForgotten, Attended, Needy, Exists, Live, Terminal, crVars
  <2>1. CASE k # w.key
    BY <1>1, <2>1 DEF WakeInv, NobodyForgotten, Attended, Needy, Live
  <2>2. CASE k = w.key
    BY <1>1, <2>2 DEF WakeInv, StaleCopyWakes
  <2>. QED
    BY <2>1, <2>2
<1>3. StaleCopyWakes' /\ DeletedIsGuarded' /\ CopyUntouched' /\ CopyAnswers'
  BY <1>1
  DEF WakeInv, StaleCopyWakes, DeletedIsGuarded, CopyUntouched, CopyAnswers, Exists, At,
      crVars
<1>. QED
  BY <1>2, <1>3 DEF WakeInv

LEMMA FetchWake ==
    ASSUME Types, CleanupInv, WakeInv, NEW k \in CRs, Fetch(k)
    PROVE  WakeInv'
<1>1. At("idle") /\ queue' = queue \ {k} /\ UNCHANGED <<cr, crCache, crLag, timers>>
  BY DEF Fetch, crVars
<1>2. ASSUME NEW j \in CRs, j # k, Needy(j)
      PROVE  j \in queue' \cup timers' \cup crLag'
  BY <1>1, <1>2 DEF WakeInv, NobodyForgotten, Attended, Needy, Live
<1>3. DeletedIsGuarded'
  BY <1>1 DEF WakeInv, DeletedIsGuarded, Exists
<1>4. CASE Entry(crCache[k]) = "idle"
  <2>1. w'.point = "idle"
    BY <1>4 DEF Fetch, Idle
  <2>2. Needy(k) => k \in crLag
    BY <1>4
    DEF Entry, CleanupInv, CacheCurrent, WakeInv, DeletedIsGuarded, Needy, Exists
  <2>3. NobodyForgotten'
    BY <1>1, <1>2, <2>2 DEF NobodyForgotten, Attended, Needy, Exists, Live, Terminal
  <2>4. StaleCopyWakes' /\ CopyUntouched' /\ CopyAnswers'
    BY <2>1 DEF StaleCopyWakes, CopyUntouched, CopyAnswers, At
  <2>. QED
    BY <1>3, <2>3, <2>4 DEF WakeInv
<1>5. CASE Entry(crCache[k]) # "idle"
  <2>1. /\ w'.point = Entry(crCache[k]) /\ w'.key = k /\ w'.obj = crCache[k]
        /\ w'.fresh = (k \notin crLag)
    BY <1>5 DEF Fetch, Idle
  <2>2. NobodyForgotten'
    BY <1>1, <1>2, <1>5, <2>1
    DEF NobodyForgotten, Attended, Needy, Exists, Live, Terminal, At
  <2>3. StaleCopyWakes' /\ CopyUntouched'
    BY <1>1, <2>1 DEF StaleCopyWakes, CopyUntouched, CleanupInv, CacheCurrent
  <2>4. CopyAnswers'
    BY <2>1 DEF CopyAnswers, Entry, At
  <2>. QED
    BY <1>3, <2>2, <2>3, <2>4 DEF WakeInv
<1>. QED
  BY <1>4, <1>5

(* The worker has written o: nothing more is needed, or it will be woken,  *)
(* by its timer or by the event of the version it has just made.           *)
LEMMA StoreWake ==
    ASSUME Types, WakeInv, ~At("idle"), w.fresh, NEW o \in ImagePatches \cup {None},
           Store(w.key, o), timers \subseteq timers', UNCHANGED queue,
           o # None /\ o.deleting => o.finalizer,
           \/ o = None
           \/ o # cr[w.key]
           \/ w.key \in timers'
           \/ ~o.deleting /\ o.phase \in {"Succeeded", "Failed"},
           \/ w'.point = "idle"
           \/ /\ w'.point = "record" /\ w'.key = w.key /\ w'.fresh = w.fresh
              /\ o # None /\ ~o.deleting /\ o.phase \in {"Succeeded", "Failed"}
    PROVE  WakeInv'
<1>1. w.key \in CRs
  BY CopyTypes
<1>2. /\ cr' = [cr EXCEPT ![w.key] = o]
      /\ crLag' = IF o = cr[w.key] THEN crLag ELSE crLag \cup {w.key}
  BY DEF Store
<1>3. cr \in [CRs -> ImagePatches \cup {None}]
  BY DEF Types, TypeOK
<1>4. cr'[w.key] = o /\ \A k \in CRs \ {w.key} : cr'[k] = cr[k]
  BY <1>1, <1>2, <1>3
<1>5. NobodyForgotten'
  <2>. SUFFICES ASSUME NEW k \in CRs, Needy(k)'
                PROVE  k \in queue' \cup timers' \cup crLag'
    BY DEF NobodyForgotten, Attended, Needy, Exists, Live, Terminal
  <2>1. CASE k # w.key
    BY <1>2, <1>4, <2>1
    DEF WakeInv, NobodyForgotten, Attended, Needy, Exists, Live, Terminal
  <2>2. CASE k = w.key
    BY <1>2, <1>4, <2>2 DEF Needy, Exists, Terminal
  <2>. QED
    BY <2>1, <2>2
<1>6. DeletedIsGuarded'
  BY <1>4 DEF WakeInv, DeletedIsGuarded, Exists
<1>7. StaleCopyWakes' /\ CopyUntouched'
  BY DEF StaleCopyWakes, CopyUntouched, At
<1>8. CopyAnswers'
  BY <1>4 DEF CopyAnswers, At, Needy, Exists, Terminal
<1>. QED
  BY <1>5, <1>6, <1>7, <1>8 DEF WakeInv

LEMMA ErrorWake ==
    ASSUME WakeInv, ~At("idle"), Error, UNCHANGED <<crVars, queue>>
    PROVE  WakeInv'
  BY ReturnWake DEF Error

LEMMA UpdateWake ==
    ASSUME Types, CleanupInv, WakeInv,
           \/ AddFinalizer \/ RemoveFinalizer \/ Reject
           \/ WriteObserved \/ WriteDedupHit \/ WriteRunning
    PROVE  WakeInv'
<1>. ~At("idle") /\ ~At("record") /\ UNCHANGED queue
  BY DEF At, AddFinalizer, RemoveFinalizer, Reject, WriteObserved, WriteDedupHit, WriteRunning
<1>1. w.obj \in ImagePatches /\ w.key \in CRs
  BY CopyTypes
<1>2. CASE ~w.fresh
  BY <1>2, ErrorWake
  DEF AddFinalizer, RemoveFinalizer, Reject, WriteObserved, WriteDedupHit, WriteRunning, Update
<1>3. CASE w.fresh /\ AddFinalizer
  <2>. DEFINE o == [w.obj EXCEPT !.finalizer = TRUE]
  <2>1. o \in ImagePatches /\ o.finalizer /\ ~w.obj.finalizer /\ w.obj = cr[w.key]
    BY <1>1, <1>3
    DEF ImagePatches, AddFinalizer, WakeInv, CopyAnswers, CopyUntouched, At
  <2>2. Store(w.key, o) /\ w'.point = "idle" /\ timers \subseteq timers'
    BY <1>3 DEF AddFinalizer, Update, Error, Return, Idle
  <2>. HIDE DEF o
  <2>. QED
    BY <1>3, <2>1, <2>2, StoreWake
<1>4. CASE w.fresh /\ RemoveFinalizer
  <2>1. Store(w.key, None) /\ w'.point = "idle" /\ timers \subseteq timers'
    BY <1>4 DEF RemoveFinalizer, Update, Error, Return, Idle
  <2>. QED
    BY <1>4, <2>1, StoreWake
<1>5. ASSUME w.fresh, Reject \/ WriteObserved \/ WriteDedupHit \/ WriteRunning
      PROVE  WakeInv'
  <2>1. Store(w.key, w.obj)
    BY <1>5 DEF Reject, WriteObserved, WriteDedupHit, WriteRunning, Update
  <2>2. ~w.obj.deleting
    BY <1>5
    DEF CleanupInv, BuildsGuarded, Building, CleaningUp, Points, At,
        Reject, WriteObserved, WriteDedupHit, WriteRunning
  <2>3. w \in [point: Points, key: CRs \cup {None}, obj: ImagePatches \cup {None},
               fresh: BOOLEAN, manifest: Images \cup {None}]
    BY DEF Types, TypeOK
  <2>4. CASE Reject
    <3>1. w.obj.phase = "Failed" /\ w'.point = "idle" /\ timers \subseteq timers'
      BY <1>5, <2>4 DEF Reject, Update, Error, Return, Idle, WakeInv, CopyAnswers, At
    <3>. QED
      BY <1>1, <1>5, <2>1, <2>2, <3>1, StoreWake
  <2>5. CASE WriteRunning
    <3>1. w'.point = "idle" /\ timers' = timers \cup {w.key}
      BY <1>5, <2>5 DEF WriteRunning, Update, Error, Return, Idle
    <3>. QED
      BY <1>1, <1>5, <2>1, <2>2, <3>1, StoreWake
  <2>6. CASE WriteDedupHit
    <3>1. w.obj.phase = "Succeeded"
      BY <2>6 DEF WriteDedupHit, WakeInv, CopyAnswers, At
    <3>2. Goto("record", w.obj) \/ Error
      BY <1>5, <2>6 DEF WriteDedupHit, Update
    <3>3. /\ timers \subseteq timers'
          /\ \/ w' = Idle
             \/ w'.point = "record" /\ w'.key = w.key /\ w'.fresh = w.fresh
      BY <2>3, <3>2 DEF Goto, Error, Return
    <3>4. \/ w'.point = "idle"
          \/ w'.point = "record" /\ w'.key = w.key /\ w'.fresh = w.fresh
      BY <3>3 DEF Idle
    <3>. QED
      BY <1>1, <1>5, <2>1, <2>2, <3>1, <3>3, <3>4, StoreWake, NoneAssumption,
         ControllerAssumption
  <2>7. CASE WriteObserved
    <3>1. w.obj.phase \in {"Running", "Succeeded", "Failed"}
      BY <2>7 DEF WriteObserved, WakeInv, CopyAnswers, At
    <3>2. CASE RecordsResult(cr[w.key], w.obj)
      <4>0. Goto("record", w.obj) \/ Error
        BY <1>5, <2>7, <3>2 DEF WriteObserved, Update
      <4>1. /\ timers \subseteq timers'
            /\ \/ w' = Idle
               \/ w'.point = "record" /\ w'.key = w.key /\ w'.fresh = w.fresh
        BY <2>3, <4>0 DEF Goto, Error, Return
      <4>2. w.obj.phase \in {"Succeeded", "Failed"}
        BY <3>1, <3>2 DEF RecordsResult
      <4>3. \/ w'.point = "idle"
            \/ w'.point = "record" /\ w'.key = w.key /\ w'.fresh = w.fresh
        BY <4>1 DEF Idle
      <4>. QED
        BY <1>1, <1>5, <2>1, <2>2, <4>1, <4>2, <4>3, StoreWake, ControllerAssumption
    <3>3. CASE ~RecordsResult(cr[w.key], w.obj)
      <4>1. /\ w'.point = "idle" /\ timers \subseteq timers'
            /\ w.obj.phase = "Running" => w.key \in timers'
        BY <1>5, <2>7, <3>3 DEF WriteObserved, Update, Error, Return, Idle
      <4>. QED
        BY <1>1, <1>5, <2>1, <2>2, <3>1, <4>1, StoreWake
    <3>. QED
      BY <3>2, <3>3
  <2>. QED
    BY <1>5, <2>4, <2>5, <2>6, <2>7
<1>. QED
  BY <1>2, <1>3, <1>4, <1>5

(* What a reconcile does between reading the CR and writing it back.       *)
LEMMA WorkWake ==
    ASSUME Types, CleanupInv, WakeInv,
           \/ DeleteJobs \/ DeleteConfigMaps \/ DeleteSecrets
           \/ Inspect \/ GetJob \/ ApplyConfigMap \/ ApplyAuthSecret
           \/ DedupHead \/ RetagGet \/ RetagPut \/ CreateJob \/ RecordBuildResult
    PROVE  WakeInv'
<1>. ~At("idle") /\ UNCHANGED crVars /\ queue \subseteq queue'
  BY DEF At, DeleteJobs, DeleteConfigMaps, DeleteSecrets, Inspect, GetJob, ApplyConfigMap,
         ApplyAuthSecret, DedupHead, RetagGet, RetagPut, CreateJob, RecordBuildResult, Enqueue,
         queueVars
<1>0. w.obj \in ImagePatches /\ w.key \in CRs /\ Me \in Names
  BY CopyTypes
<1>9. w \in [point: Points, key: CRs \cup {None}, obj: ImagePatches \cup {None},
             fresh: BOOLEAN, manifest: Images \cup {None}]
  BY DEF Types, TypeOK
<1>1. CASE DeleteJobs \/ DeleteConfigMaps \/ DeleteSecrets
  <2>1. /\ w'.point \in {"deleteConfigMaps", "deleteSecrets", "removeFinalizer"}
        /\ w'.key = w.key /\ w'.fresh = w.fresh /\ timers' = timers
    BY <1>1, <1>9 DEF DeleteJobs, DeleteConfigMaps, DeleteSecrets, Goto, AfterDelete
  <2>. QED
    BY <2>1, MoveWake DEF CopyUntouched, CopyAnswers, At
<1>2. CASE ApplyConfigMap \/ ApplyAuthSecret \/ DedupHead \/ RetagGet \/ RetagPut
  <2>1. /\ w'.point \in {"authSecret", "head", "createJob", "retagGet", "retagPut", "hit"}
        /\ w'.point = "hit" => w'.obj = DedupHit(w.obj)
        /\ w'.key = w.key /\ w'.fresh = w.fresh /\ timers' = timers
    BY <1>2, <1>9
    DEF ApplyConfigMap, ApplyAuthSecret, DedupHead, RetagGet, RetagPut, Goto, AfterConfigMap,
        AfterAuth, queueVars
  <2>2. DedupHit(w.obj).phase = "Succeeded"
    BY <1>0 DEF DedupHit, ImagePatches
  <2>. QED
    BY <2>1, <2>2, MoveWake DEF CopyUntouched, CopyAnswers, At
<1>3. CASE CreateJob
  <2>1. CASE Error
    BY <1>3, <2>1, ErrorWake DEF CreateJob
  <2>2. CASE ~Error
    <3>1. /\ w'.point = "running" /\ timers' = timers
          /\ w'.key = w.key /\ w'.fresh = w.fresh
      BY <1>3, <1>9, <2>2 DEF CreateJob, Goto
    <3>. QED
      BY <3>1, MoveWake DEF CopyUntouched, CopyAnswers, At
  <2>. QED
    BY <2>1, <2>2
<1>4. CASE Inspect
  <2>. DEFINE no == [w.obj EXCEPT !.phase = "Failed", !.message = "ImageOSNotSupported"]
  <2>0. no.phase = "Failed"
    BY <1>0 DEF ImagePatches
  <2>4. Goto("reject", no) \/ Goto("getJob", w.obj)
    BY <1>4 DEF Inspect
  <2>5. At("inspect")
    BY <1>4 DEF Inspect
  <2>. HIDE DEF no
  <2>1. /\ \/ w'.point = "getJob" /\ w'.obj = w.obj
           \/ w'.point = "reject" /\ w'.obj.phase = "Failed"
        /\ w'.key = w.key /\ w'.fresh = w.fresh /\ timers' = timers /\ At("inspect")
    BY <1>9, <2>0, <2>4, <2>5 DEF Goto
  <2>2. CopyUntouched'
    BY <2>1 DEF WakeInv, CopyUntouched, At, crVars
  <2>3. CopyAnswers'
    BY <2>1 DEF CopyAnswers, At
  <2>. QED
    BY <2>1, <2>2, <2>3, MoveWake
<1>5. CASE GetJob
  <2>. DEFINE j == jobCache[Me]
  <2>1. At("getJob") /\ UNCHANGED queue
    BY <1>5 DEF GetJob
  <2>2. CASE j = None
    <3>1. w'.point = "configMap" /\ w'.key = w.key /\ w'.fresh = w.fresh /\ timers' = timers
      BY <1>5, <1>9, <2>2 DEF GetJob, Goto
    <3>. QED
      BY <3>1, MoveWake DEF CopyUntouched, CopyAnswers, At
  <2>3. j # None => j \in Jobs
    BY <1>0 DEF Types, TypeOK
  <2>4. CASE j # None /\ ~StatusChanged(w.obj, Observed(w.obj, j))
    <3>1. Return(Polls(j))
      BY <1>5, <2>4 DEF GetJob
    <3>2. ~w.obj.deleting
      BY <2>1 DEF CleanupInv, BuildsGuarded, Building, CleaningUp, Points, At
    <3>3. ~Polls(j) => w.obj.phase \in {"Succeeded", "Failed"}
      <4>1. ~Polls(j) => j.state \in {"succeeded", "failed"}
        BY <2>3, <2>4 DEF Polls, Jobs
      <4>2. j.state \in {"succeeded", "failed"}
              => Observed(w.obj, j).phase \in {"Succeeded", "Failed"}
        BY <1>0 DEF Observed, ImagePatches
      <4>. QED
        BY <2>4, <4>1, <4>2 DEF StatusChanged
    <3>4. w.fresh => w.obj = cr[w.key]
      BY <2>1 DEF WakeInv, CopyUntouched, At
    <3>5. Polls(j) \/ ~w.fresh \/ ~Needy(w.key)
      BY <3>2, <3>3, <3>4 DEF Needy, Terminal
    <3>6. Polls(j) \in BOOLEAN
      BY DEF Polls
    <3>. HIDE DEF j
    <3>. QED
      BY <2>1, <3>1, <3>5, <3>6, ReturnWake
  <2>5. CASE j # None /\ StatusChanged(w.obj, Observed(w.obj, j))
    <3>1. /\ w'.point = "observed" /\ w'.obj = Observed(w.obj, j)
          /\ w'.key = w.key /\ w'.fresh = w.fresh /\ timers' = timers
      BY <1>5, <1>9, <2>5 DEF GetJob, Goto
    <3>2. Observed(w.obj, j).phase \in {"Running", "Succeeded", "Failed"}
      BY <1>0, <2>3, <2>5 DEF Observed, StatusChanged, ImagePatches, Jobs
    <3>. QED
      BY <3>1, <3>2, MoveWake DEF CopyUntouched, CopyAnswers, At
  <2>. QED
    BY <2>2, <2>4, <2>5
<1>6. CASE RecordBuildResult
  <2>1. Return(FALSE) /\ UNCHANGED queue /\ (w.fresh => ~Needy(w.key))
    BY <1>6 DEF RecordBuildResult, WakeInv, CopyAnswers
  <2>. QED
    BY <2>1, ReturnWake
<1>. QED
  BY <1>1, <1>2, <1>3, <1>4, <1>5, <1>6

LEMMA FaultWake ==
    ASSUME Types, WakeInv, Faults
    PROVE  WakeInv'
<1>1. CASE FailOpen
  <2>1. /\ ~At("idle") /\ w'.point = "createJob" /\ w'.key = w.key /\ w'.fresh = w.fresh
        /\ UNCHANGED <<crVars, queue, timers>>
    BY <1>1 DEF FailOpen, At, queueVars, Types, TypeOK
  <2>. QED
    BY <2>1, MoveWake DEF CopyUntouched, CopyAnswers, At
<1>2. CASE CallFails
  BY <1>2, ErrorWake DEF CallFails, At
<1>3. CASE Crash
  <2>1. /\ w'.point = "idle" /\ cr' = cr /\ queue' = {k \in CRs : cr[k] # None}
    BY <1>3 DEF Crash, Idle
  <2>2. NobodyForgotten'
    BY <2>1 DEF NobodyForgotten, Attended, Exists
  <2>3. StaleCopyWakes' /\ DeletedIsGuarded' /\ CopyUntouched' /\ CopyAnswers'
    BY <2>1
    DEF WakeInv, StaleCopyWakes, DeletedIsGuarded, CopyUntouched, CopyAnswers, Exists, At
  <2>. QED
    BY <2>2, <2>3 DEF WakeInv
<1>4. CASE ClassifyFails
  <2>. DEFINE o == [w.obj EXCEPT !.phase = "Failed", !.message = "ControllerInternalError"]
  <2>1. /\ At("getJob") /\ ~At("idle") /\ Goto("observed", o)
        /\ UNCHANGED <<crVars, queue>>
    BY <1>4 DEF ClassifyFails, At
  <2>2. o.phase = "Failed"
    BY <2>1, CopyTypes DEF ImagePatches
  <2>. HIDE DEF o
  <2>3. /\ w'.point = "observed" /\ w'.obj.phase = "Failed"
        /\ w'.key = w.key /\ w'.fresh = w.fresh /\ timers' = timers
    BY <2>1, <2>2 DEF Goto, Types, TypeOK
  <2>. QED
    BY <2>1, <2>3, MoveWake DEF CopyUntouched, CopyAnswers, At
<1>. QED
  BY <1>1, <1>2, <1>3, <1>4 DEF Faults

LEMMA DeliveryWake ==
    ASSUME Types, WakeInv, Delivery
    PROVE  WakeInv'
<1>1. ASSUME NEW k \in CRs, SyncCR(k)
      PROVE  WakeInv'
  BY <1>1, QuietWake DEF SyncCR, Enqueue
<1>2. ASSUME NEW k \in CRs, TimerFires(k)
      PROVE  WakeInv'
  BY <1>2, QuietWake DEF TimerFires, Enqueue, crVars
<1>3. ASSUME NEW n \in Names, SyncJob(n)
      PROVE  WakeInv'
  BY <1>3, QuietWake DEF SyncJob, Enqueue, crVars
<1>. QED
  BY <1>1, <1>2, <1>3 DEF Delivery

(* Somebody else writes a new version of a CR: its event is due.           *)
LEMMA UserWriteWake ==
    ASSUME Types, WakeInv, NEW k \in CRs, NEW o \in ImagePatches \cup {None},
           cr' = [cr EXCEPT ![k] = o], crLag' = crLag \cup {k},
           w' = [w EXCEPT !.fresh = w.fresh /\ w.key # k], UNCHANGED <<queue, timers>>,
           o # None /\ o.deleting => o.finalizer
    PROVE  WakeInv'
<1>1. cr \in [CRs -> ImagePatches \cup {None}]
  BY DEF Types, TypeOK
<1>2. cr'[k] = o /\ \A j \in CRs \ {k} : cr'[j] = cr[j]
  BY <1>1
<1>3. w'.point = w.point /\ w'.key = w.key /\ w'.obj = w.obj
      /\ (w'.fresh <=> w.fresh /\ w.key # k)
  BY DEF Types, TypeOK
<1>4. NobodyForgotten'
  BY <1>2, <1>3 DEF WakeInv, NobodyForgotten, Attended, Exists, Live, Terminal, At
<1>5. StaleCopyWakes'
  BY <1>3 DEF WakeInv, StaleCopyWakes, At
<1>6. DeletedIsGuarded'
  BY <1>2 DEF WakeInv, DeletedIsGuarded, Exists
<1>7. ~At("idle") => w.key \in CRs
  BY CopyTypes
<1>8. CopyUntouched'
  BY <1>2, <1>3, <1>7 DEF WakeInv, CopyUntouched, At
<1>9. CopyAnswers'
  BY <1>2, <1>3, <1>7 DEF WakeInv, CopyAnswers, Needy, Exists, Terminal, At
<1>. QED
  BY <1>4, <1>5, <1>6, <1>8, <1>9 DEF WakeInv

LEMMA UserWake ==
    ASSUME Types, WakeInv, Users
    PROVE  WakeInv'
<1>1. ASSUME NEW k \in CRs, NEW s \in Wanted[k], CreateCR(k, s)
      PROVE  WakeInv'
  <2>1. NewImagePatch(s) \in ImagePatches
    BY ControllerAssumption, NoneAssumption
    DEF NewImagePatch, ImagePatches, Messages, Phases
  <2>2. ~NewImagePatch(s).deleting
    BY DEF NewImagePatch
  <2>3. NewImagePatch(s) # cr[k]
    BY <1>1, <2>1, ControllerAssumption DEF CreateCR
  <2>. QED
    BY <1>1, <2>1, <2>2, <2>3, UserWriteWake DEF CreateCR, UserWrite, Store, queueVars
<1>2. ASSUME NEW k \in CRs, NEW s \in Wanted[k], EditSpec(k, s)
      PROVE  WakeInv'
  <2>. DEFINE o == [cr[k] EXCEPT !.spec = s]
  <2>1. cr[k] \in ImagePatches /\ s \in Specs
    BY <1>2, ControllerAssumption DEF EditSpec, Types, TypeOK
  <2>2. o \in ImagePatches /\ o.deleting = cr[k].deleting /\ o.spec = s
    BY <2>1 DEF ImagePatches
  <2>3. ~cr[k].deleting /\ s # cr[k].spec /\ UserWrite(k, o) /\ UNCHANGED <<queue, timers>>
    BY <1>2 DEF EditSpec, queueVars
  <2>. HIDE DEF o
  <2>. QED
    BY <2>2, <2>3, UserWriteWake DEF UserWrite, Store
<1>3. ASSUME NEW k \in CRs, Touch(k)
      PROVE  WakeInv'
  <2>1. cr' = [cr EXCEPT ![k] = cr[k]] /\ cr[k] \in ImagePatches
    BY <1>3 DEF Touch, Types, TypeOK
  <2>2. cr[k].deleting => cr[k].finalizer
    BY <1>3 DEF Touch, WakeInv, DeletedIsGuarded, Exists
  <2>. QED
    BY <1>3, <2>1, <2>2, UserWriteWake DEF Touch, queueVars
<1>4. ASSUME NEW k \in CRs, DeleteCR(k)
      PROVE  WakeInv'
  <2>. DEFINE o == IF cr[k].finalizer THEN [cr[k] EXCEPT !.deleting = TRUE] ELSE None
  <2>1. cr[k] \in ImagePatches /\ cr[k] # None /\ ~cr[k].deleting
    BY <1>4 DEF DeleteCR, Types, TypeOK
  <2>2. o \in ImagePatches \cup {None} /\ o # cr[k] /\ (o # None => o.finalizer)
    BY <2>1 DEF ImagePatches
  <2>3. UserWrite(k, o) /\ UNCHANGED <<queue, timers>>
    BY <1>4 DEF DeleteCR, queueVars
  <2>. HIDE DEF o
  <2>. QED
    BY <2>2, <2>3, UserWriteWake DEF UserWrite, Store
<1>. QED
  BY <1>1, <1>2, <1>3, <1>4 DEF Users

LEMMA WakeNext == Types /\ CleanupInv /\ WakeInv /\ [Next]_vars => WakeInv'
<1>. SUFFICES ASSUME Types, CleanupInv, WakeInv, [Next]_vars
              PROVE  WakeInv'
  OBVIOUS
<1>1. CASE ReconcileStep
  BY <1>1, FetchWake, UpdateWake, WorkWake DEF ReconcileStep
<1>2. CASE RecordBuildResult
  BY <1>2, WorkWake
<1>3. CASE Builds
  BY <1>3, QuietWake DEF Builds, crVars, queueVars
<1>4. CASE UNCHANGED vars
  BY <1>4, QuietWake DEF vars, crVars, queueVars
<1>. QED
  BY <1>1, <1>2, <1>3, <1>4, FaultWake, DeliveryWake, UserWake DEF Next, Reconcile

LEMMA WakeInit == Init => WakeInv
<1>. SUFFICES ASSUME Init
              PROVE  WakeInv
  OBVIOUS
<1>1. PICK old \in [Legacy -> Specs] :
        cr = [k \in CRs |-> IF k \in Legacy THEN LegacyImagePatch(old[k]) ELSE None]
  BY DEF Init
<1>2. queue = Legacy /\ w.point = "idle"
  BY DEF Init, Idle
<1>3. \A s : ~LegacyImagePatch(s).deleting
  BY DEF LegacyImagePatch, NewImagePatch
<1>4. NobodyForgotten /\ DeletedIsGuarded
  BY <1>1, <1>2, <1>3 DEF NobodyForgotten, Attended, DeletedIsGuarded, Exists
<1>5. StaleCopyWakes /\ CopyUntouched /\ CopyAnswers
  BY <1>2 DEF StaleCopyWakes, CopyUntouched, CopyAnswers, At
<1>. QED
  BY <1>4, <1>5 DEF WakeInv

(* No wake-up is lost, whatever crashes, fails or is refused as out of     *)
(* date: the invariant of the run "recreate" for every value of the        *)
(* constants.  Under fairness of the queue, the timers and the watches it  *)
(* is what EveryPatchTerminates and DeletionCompletes rest on.             *)
THEOREM NobodyIsForgotten == Spec => []NobodyForgotten
<1>1. Init => WakeInv
  BY WakeInit
<1>2. Types /\ CleanupInv /\ WakeInv /\ [Next]_vars => WakeInv'
  BY WakeNext
<1>3. WakeInv => NobodyForgotten
  BY DEF WakeInv
<1>. QED
  BY <1>1, <1>2, <1>3, CleanupHolds, PTL DEF Spec

-----------------------------------------------------------------------------
(* No build is forgotten.  The worker stops to look when the cache shows   *)
(* that the Job has ended.  Then the Job has ended on the server, in the   *)
(* same way (EndSeen): a Job that has ended stays as it is, because its    *)
(* Pod has (EndIsFinal), and the cache does not show a Job that came       *)
(* before it, because a Job is only created after the cache has shown that *)
(* there is none (NoneSeen).                                               *)

Ended == {"succeeded", "failed"}

(* Where the worker takes it that there is no Job.                         *)
Creating == {"configMap", "authSecret", "head", "retagGet", "retagPut", "createJob"}

EndIsFinal ==
    \A n \in Names :
        job[n] # None /\ job[n].state \in Ended /\ pod[n]["job"] # None
            => pod[n]["job"].stage \in {"done", "failed"}

EndSeen ==
    \A n \in Names :
        job[n] # None /\ jobCache[n] # None /\ jobCache[n].state \in Ended
            => job[n].state = jobCache[n].state

NoneSeen == w.point \in Creating /\ job[Me] = None => jobCache[Me] = None

EndInv == EndIsFinal /\ EndSeen /\ NoneSeen

(* Jobs advance: no Job comes, goes or changes hands, none that has ended  *)
(* changes.                                                                *)
JobsAdvance ==
    \A n \in Names :
        /\ job'[n] # None <=> job[n] # None
        /\ job[n] # None => /\ job'[n].src = job[n].src
                            /\ job[n].state \in Ended => job'[n].state = job[n].state

LEMMA StateAdvances ==
    ASSUME Types, NEW n \in Names, job[n] # None, job[n].state \notin Ended,
           NEW s \in {"active", "succeeded", "failed"}, job' = [job EXCEPT ![n].state = s]
    PROVE  JobsAdvance /\ job'[n].state = s
<1>1. job \in [Names -> Jobs \cup {None}] /\ job[n] \in Jobs
  BY DEF Types, TypeOK, BuildTypeOK
<1>. DEFINE j == [job[n] EXCEPT !.state = s]
<1>2. j \in Jobs /\ j.src = job[n].src /\ j.state = s
  BY <1>1 DEF Jobs
<1>3. job' = [job EXCEPT ![n] = j]
  OBVIOUS
<1>. HIDE DEF j
<1>. QED
  BY <1>1, <1>2, <1>3, NoneAssumption DEF JobsAdvance

(* One Pod becomes p.                                                      *)
LEMMA PodEnds ==
    ASSUME Types, EndIsFinal, JobsAdvance,
           NEW n \in Names, NEW g \in Slots, NEW p,
           pod' = [pod EXCEPT ![n][g] = p],
           \A m \in Names : m # n => job'[m] = job[m],
           \/ p = None
           \/ p.stage \in {"done", "failed"}
           \/ g = "job" /\ job'[n].state \notin Ended,
           g # "job" => job' = job \/ pod[n]["job"] = None
    PROVE  EndIsFinal'
<1>1. /\ pod \in [Names -> [Slots -> Pods \cup {None}]]
      /\ "job" \in Slots
  BY DEF Types, TypeOK, BuildTypeOK, Slots
<1>2. ASSUME NEW m \in Names
      PROVE  pod'[m]["job"] = IF m = n /\ g = "job" THEN p ELSE pod[m]["job"]
  BY <1>1
<1>. SUFFICES ASSUME NEW m \in Names, job'[m] # None, job'[m].state \in Ended,
                     pod'[m]["job"] # None
              PROVE  pod'[m]["job"].stage \in {"done", "failed"}
  BY DEF EndIsFinal
<1>3. CASE m = n /\ g = "job"
  BY <1>2, <1>3
<1>4. CASE m # n
  BY <1>2, <1>4 DEF EndIsFinal
<1>5. CASE m = n /\ g # "job"
  BY <1>2, <1>5 DEF EndIsFinal
<1>. QED
  BY <1>3, <1>4, <1>5

LEMMA BuildsAdvance ==
    ASSUME Types, EndIsFinal, Builds
    PROVE  JobsAdvance /\ EndIsFinal'
<1>0. /\ job \in [Names -> Jobs \cup {None}]
      /\ pod \in [Names -> [Slots -> Pods \cup {None}]]
      /\ "job" \in Slots
  BY DEF Types, TypeOK, BuildTypeOK, Slots
<1>1. ASSUME job' = job
      PROVE  JobsAdvance /\ \A m \in Names : job'[m] = job[m]
  BY <1>1 DEF JobsAdvance
<1>2. ASSUME NEW n \in Names, PodStarts(n)
      PROVE  JobsAdvance /\ EndIsFinal'
  <2>. DEFINE p == [spec |-> job[n].spec, auth |-> job[n].auth, dedup |-> job[n].dedup,
                    mounted |-> None, stage |-> "waiting", log |-> None]
  <2>1. /\ job[n] # None /\ job[n].state = "pending"
        /\ job' = [job EXCEPT ![n].state = "active"]
        /\ pod' = [pod EXCEPT ![n]["job"] = p]
    BY <1>2 DEF PodStarts
  <2>. HIDE DEF p
  <2>2. JobsAdvance /\ job'[n].state = "active" /\ \A m \in Names : m # n => job'[m] = job[m]
    BY <1>0, <2>1, StateAdvances DEF Ended
  <2>. QED
    BY <1>0, <2>1, <2>2, PodEnds DEF Ended
<1>3. ASSUME NEW n \in Names, NEW g \in Slots, pod[n][g] # None,
             pod[n][g].stage \in {"waiting", "running", "pushed"}, g = "job"
      PROVE  job[n] # None /\ job[n].state \notin Ended
  BY <1>3 DEF EndIsFinal, Types, PodShape
<1>4. ASSUME NEW n \in Names, NEW g \in Slots, PodMounts(n, g) \/ PodPushes(n, g)
      PROVE  JobsAdvance /\ EndIsFinal'
  <2>1. /\ pod[n][g] # None /\ job' = job
        /\ pod[n][g].stage \in {"waiting", "running", "pushed"}
    BY <1>4 DEF PodMounts, PodPushes
  <2>2. \E p : pod' = [pod EXCEPT ![n][g] = p]
    <3>1. CASE PodMounts(n, g)
      <4>1. pod' = [pod EXCEPT ![n][g] = [pod[n][g] EXCEPT !.stage = "running",
                                                        !.mounted = cm[n].spec]]
        BY <3>1 DEF PodMounts
      <4>. QED
        BY <4>1
    <3>2. CASE PodPushes(n, g)
      <4>1. pod' = [pod EXCEPT ![n][g] = [pod[n][g] EXCEPT !.stage = "pushed"]]
        BY <3>2 DEF PodPushes
      <4>. QED
        BY <4>1
    <3>. QED
      BY <1>4, <3>1, <3>2
  <2>3. PICK p : pod' = [pod EXCEPT ![n][g] = p]
    BY <2>2
  <2>4. ASSUME NEW m \in Names, job[m] # None, job[m].state \in Ended, pod'[m]["job"] # None
        PROVE  pod'[m]["job"] = pod[m]["job"]
    <3>1. ~(m = n /\ g = "job")
      BY <1>3, <2>1, <2>4
    <3>. QED
      BY <1>0, <2>3, <3>1
  <2>5. EndIsFinal'
    BY <2>1, <2>4 DEF EndIsFinal
  <2>. QED
    BY <1>1, <2>1, <2>5
<1>5. ASSUME NEW n \in Names, NEW g \in Slots, NEW s \in Ended, NEW p,
             pod[n][g] # None, pod[n][g].stage \in {"waiting", "running", "pushed"},
             pod' = [pod EXCEPT ![n][g] = p], p.stage \in {"done", "failed"},
             job' = IF g = "job" THEN [job EXCEPT ![n].state = s] ELSE job
      PROVE  JobsAdvance /\ EndIsFinal'
  <2>1. CASE g # "job"
    BY <1>1, <1>5, <2>1, PodEnds
  <2>2. CASE g = "job"
    <3>1. job[n] # None /\ job[n].state \notin Ended /\ job' = [job EXCEPT ![n].state = s]
      BY <1>3, <1>5, <2>2
    <3>2. JobsAdvance /\ \A m \in Names : m # n => job'[m] = job[m]
      BY <1>0, <3>1, StateAdvances DEF Ended
    <3>. QED
      BY <1>5, <2>2, <3>2, PodEnds
  <2>. QED
    BY <2>1, <2>2
<1>6. ASSUME NEW n \in Names, NEW g \in Slots, PodSucceeds(n, g)
      PROVE  JobsAdvance /\ EndIsFinal'
  <2>. DEFINE p == [pod[n][g] EXCEPT !.stage = "done"]
  <2>1. /\ pod[n][g] # None /\ pod[n][g].stage = "pushed"
        /\ pod' = [pod EXCEPT ![n][g] = p]
        /\ job' = IF g = "job" THEN [job EXCEPT ![n].state = "succeeded"] ELSE job
    BY <1>6 DEF PodSucceeds
  <2>2. p.stage = "done"
    <3>1. pod[n][g] \in Pods
      BY <1>0, <2>1
    <3>. QED
      BY <3>1 DEF Pods
  <2>. HIDE DEF p
  <2>. QED
    BY <1>5, <2>1, <2>2 DEF Ended
<1>7. ASSUME NEW n \in Names, NEW g \in Slots, NEW c \in Causes, PodFails(n, g, c)
      PROVE  JobsAdvance /\ EndIsFinal'
  <2>. DEFINE p == [pod[n][g] EXCEPT !.stage = "failed", !.log = c]
  <2>1. /\ pod[n][g] # None /\ pod[n][g].stage \in {"waiting", "running", "pushed"}
        /\ pod' = [pod EXCEPT ![n][g] = p]
        /\ job' = IF g = "job" THEN [job EXCEPT ![n].state = "failed"] ELSE job
    BY <1>7 DEF PodFails
  <2>2. p.stage = "failed"
    <3>1. pod[n][g] \in Pods
      BY <1>0, <2>1
    <3>. QED
      BY <3>1 DEF Pods
  <2>. HIDE DEF p
  <2>. QED
    BY <1>5, <2>1, <2>2 DEF Ended
<1>8. ASSUME NEW n \in Names, NEW g \in Slots, PodCollected(n, g)
      PROVE  JobsAdvance /\ EndIsFinal'
  BY <1>1, <1>8, PodEnds DEF PodCollected
<1>. QED
  BY <1>2, <1>4, <1>6, <1>7, <1>8 DEF Builds, BuildNext

(* A step that changes neither Jobs nor Pods, and leads to no look at the  *)
(* cache: the cache is the same, or shows what the server has.             *)
LEMMA QuietEnd ==
    ASSUME Types, EndInv, UNCHANGED <<job, pod>>,
           \A n \in Names : jobCache'[n] \in {jobCache[n], job[n]},
           \/ w'.point \notin Creating
           \/ w.point \in Creating /\ w'.key = w.key
    PROVE  EndInv'
<1>1. EndIsFinal' /\ EndSeen'
  BY DEF EndInv, EndIsFinal, EndSeen
<1>2. w.point \in Creating => Me \in Names
  BY CopyTypes DEF Creating, At
<1>3. NoneSeen'
  BY <1>2 DEF EndInv, NoneSeen, Me
<1>. QED
  BY <1>1, <1>3 DEF EndInv

LEMMA CreateEnd ==
    ASSUME Types, EndInv, CreateJob
    PROVE  EndInv'
<1>0. w \in [point: Points, key: CRs \cup {None}, obj: ImagePatches \cup {None},
             fresh: BOOLEAN, manifest: Images \cup {None}]
  BY DEF Types, TypeOK
<1>1. Me \in Names /\ UNCHANGED <<pod, jobCache>>
  BY CopyTypes DEF CreateJob, At
<1>2. CASE job[Me] # None
  <2>1. w'.point = "idle" /\ job' = job
    BY <1>2 DEF CreateJob, Error, Return, Idle
  <2>. QED
    BY <1>1, <2>1, QuietEnd DEF Creating
<1>3. CASE job[Me] = None
  <2>1. /\ \E new : job' = [job EXCEPT ![Me] = new]
        /\ At("createJob") /\ w'.point = "running"
    BY <1>0, <1>3 DEF CreateJob, Goto
  <2>2. \A n \in Names : n # Me => job'[n] = job[n]
    BY <2>1 DEF Types, TypeOK, BuildTypeOK
  <2>3. jobCache[Me] = None /\ pod[Me]["job"] = None
    BY <1>1, <1>3, <2>1 DEF EndInv, NoneSeen, Creating, At, Types, PodShape
  <2>4. EndIsFinal'
    BY <1>1, <2>2, <2>3 DEF EndInv, EndIsFinal
  <2>5. EndSeen'
    BY <1>1, <2>2, <2>3 DEF EndInv, EndSeen
  <2>6. NoneSeen'
    BY <2>1 DEF NoneSeen, Creating
  <2>. QED
    BY <2>4, <2>5, <2>6 DEF EndInv
<1>. QED
  BY <1>2, <1>3

LEMMA DeleteEnd ==
    ASSUME Types, EndInv, DeleteJobs
    PROVE  EndInv'
<1>1. w'.point \notin Creating
  BY DEF DeleteJobs, Goto, AfterDelete, Creating, Types, TypeOK
<1>2. ASSUME NEW n \in Names, job'[n] # None
      PROVE  job'[n] = job[n] /\ pod'[n] = pod[n]
  BY <1>2 DEF DeleteJobs, Kept, Labelled, Types, TypeOK, BuildTypeOK
<1>3. EndIsFinal' /\ EndSeen'
  BY <1>2 DEF EndInv, EndIsFinal, EndSeen, DeleteJobs
<1>. QED
  BY <1>1, <1>3 DEF EndInv, NoneSeen

LEMMA EndNext == Types /\ EndInv /\ [Next]_vars => EndInv'
<1>. SUFFICES ASSUME Types, EndInv, [Next]_vars
              PROVE  EndInv'
  OBVIOUS
<1>0. w \in [point: Points, key: CRs \cup {None}, obj: ImagePatches \cup {None},
             fresh: BOOLEAN, manifest: Images \cup {None}]
  BY DEF Types, TypeOK
<1>1. CASE Builds
  <2>1. JobsAdvance /\ EndIsFinal' /\ UNCHANGED <<jobCache, w>>
    BY <1>1, BuildsAdvance DEF EndInv, Builds
  <2>2. EndSeen'
    BY <2>1 DEF EndInv, EndSeen, JobsAdvance
  <2>3. w.point \in Creating => Me \in Names
    BY CopyTypes DEF Creating, At
  <2>4. NoneSeen'
    BY <2>1, <2>3 DEF EndInv, NoneSeen, JobsAdvance, Me
  <2>. QED
    BY <2>1, <2>2, <2>4 DEF EndInv
<1>2. CASE GetJob
  <2>1. UNCHANGED <<job, pod, jobCache>>
    BY <1>2 DEF GetJob, buildVars
  <2>2. CASE jobCache[Me] = None
    <3>1. w'.key = w.key
      BY <1>0, <1>2, <2>2 DEF GetJob, Goto
    <3>2. EndIsFinal' /\ EndSeen' /\ NoneSeen'
      BY <2>1, <2>2, <3>1 DEF EndInv, EndIsFinal, EndSeen, NoneSeen, Me
    <3>. QED
      BY <3>2 DEF EndInv
  <2>3. CASE jobCache[Me] # None
    <3>1. w' = Idle \/ w'.point = "observed"
      BY <1>0, <1>2, <2>3 DEF GetJob, Goto, Return
    <3>. QED
      BY <2>1, <3>1, QuietEnd DEF Creating, Idle
  <2>. QED
    BY <2>2, <2>3
<1>3. CASE \/ ApplyConfigMap \/ ApplyAuthSecret \/ DedupHead \/ RetagGet \/ RetagPut \/ FailOpen
  <2>1. w.point \in Creating /\ w'.key = w.key /\ UNCHANGED <<job, pod, jobCache>>
    BY <1>0, <1>3
    DEF ApplyConfigMap, ApplyAuthSecret, DedupHead, RetagGet, RetagPut, FailOpen, Goto, At,
        Creating, buildVars
  <2>. QED
    BY <2>1, QuietEnd
<1>4. CASE \E k \in CRs : Fetch(k)
  <2>1. PICK k \in CRs : Fetch(k)
    BY <1>4
  <2>2. Entry(crCache[k]) \notin Creating
    BY DEF Entry, Creating
  <2>3. w'.point \notin Creating
    BY <2>1, <2>2 DEF Fetch, Idle, Creating
  <2>. QED
    BY <2>1, <2>3, QuietEnd DEF Fetch, buildVars
<1>5. CASE \/ AddFinalizer \/ RemoveFinalizer \/ Reject \/ WriteObserved \/ WriteDedupHit
           \/ WriteRunning \/ RecordBuildResult \/ CallFails \/ ClassifyFails
  <2>1. w' = Idle \/ w'.point \in {"record", "observed"}
    BY <1>0, <1>5
    DEF AddFinalizer, RemoveFinalizer, Reject, WriteObserved, WriteDedupHit, WriteRunning,
        RecordBuildResult, CallFails, ClassifyFails, Update, Error, Return, Goto
  <2>2. UNCHANGED <<job, pod, jobCache>>
    BY <1>5
    DEF AddFinalizer, RemoveFinalizer, Reject, WriteObserved, WriteDedupHit, WriteRunning,
        RecordBuildResult, CallFails, ClassifyFails, buildVars
  <2>. QED
    BY <2>1, <2>2, QuietEnd DEF Creating, Idle
<1>6. CASE DeleteConfigMaps \/ DeleteSecrets \/ Inspect
  <2>1. /\ w'.point \in {"deleteSecrets", "removeFinalizer", "reject", "getJob"}
        /\ UNCHANGED <<job, pod, jobCache>>
    BY <1>0, <1>6
    DEF DeleteConfigMaps, DeleteSecrets, Inspect, Goto, AfterDelete, buildVars
  <2>. QED
    BY <2>1, QuietEnd DEF Creating
<1>7. CASE Crash \/ Delivery
  <2>1. UNCHANGED <<job, pod>> /\ (w' = w \/ w' = Idle)
    BY <1>7 DEF Crash, Delivery, SyncCR, TimerFires, SyncJob, buildVars
  <2>2. \A n \in Names : jobCache'[n] \in {jobCache[n], job[n]}
    <3>1. ASSUME NEW m \in Names, SyncJob(m)
          PROVE  \A n \in Names : jobCache'[n] \in {jobCache[n], job[n]}
      BY <3>1 DEF SyncJob, Types, TypeOK
    <3>. QED
      BY <1>7, <3>1 DEF Crash, Delivery, SyncCR, TimerFires
  <2>. QED
    BY <2>1, <2>2, QuietEnd DEF Creating, Idle
<1>8. CASE Users \/ UNCHANGED vars
  <2>1. /\ UNCHANGED <<job, pod, jobCache>>
        /\ w'.point = w.point /\ w'.key = w.key
    BY <1>0, <1>8
    DEF Users, CreateCR, EditSpec, Touch, DeleteCR, UserWrite, vars, buildVars
  <2>. QED
    BY <2>1, QuietEnd
<1>. QED
  BY <1>1, <1>2, <1>3, <1>4, <1>5, <1>6, <1>7, <1>8, CreateEnd, DeleteEnd
  DEF Next, Reconcile, ReconcileStep, Faults

(* A live CR whose phase does not say what its Job came to.                *)
Unanswered(k) == Live(k) /\ OwnJob(k) /\ ~Answered(k)

(* What the worker is about to write, or has written, answers for the Job. *)
CopyTells ==
    /\ At("reject") => w.obj.spec \in Mismatch
    /\ At("hit") => w.obj.hit # None
    /\ At("observed") /\ OwnJob(w.key) =>
           \/ w.obj.phase = "Running"
           \/ w.obj.phase = "Succeeded" /\ JobIs(w.key, "succeeded")
           \/ w.obj.phase = "Failed" /\ JobIs(w.key, "failed")
    /\ At("record") /\ w.fresh => ~Unanswered(w.key)

FollowInv == NoBuildForgotten /\ CopyTells

OutcomeKept(k) ==
    OwnJob(k)' => OwnJob(k) /\ \A s \in Ended : JobIs(k, s) => JobIs(k, s)'

LEMMA AdvancesKeep ==
    ASSUME JobsAdvance, NEW k \in CRs
    PROVE  OutcomeKept(k)
  BY NamesAssumption DEF JobsAdvance, OutcomeKept, OwnJob, JobIs

LEMMA StaysUnanswered ==
    ASSUME NEW k, OutcomeKept(k), cr'[k] = cr[k], Unanswered(k)'
    PROVE  Unanswered(k)
  BY DEF OutcomeKept, Unanswered, Answered, Live, Exists, InPhase, Ended

(* A step that neither writes a CR nor moves the worker, and loses nobody. *)
LEMMA QuietFollow ==
    ASSUME Types, FollowInv, UNCHANGED <<cr, w>>,
           crLag \cup queue \subseteq crLag' \cup queue',
           timers \subseteq timers' \cup queue',
           \A k \in CRs : OutcomeKept(k)
    PROVE  FollowInv'
<1>1. ASSUME NEW k \in CRs, Unanswered(k)'
      PROVE  Attended(k)'
  <2>1. Unanswered(k)
    BY <1>1, StaysUnanswered
  <2>2. Attended(k)
    BY <2>1 DEF FollowInv, NoBuildForgotten, Unanswered
  <2>. QED
    BY <2>2 DEF Attended, At
<1>2. NoBuildForgotten'
  BY <1>1 DEF NoBuildForgotten, Unanswered
<1>3. ~At("idle") => w.key \in CRs
  BY CopyTypes
<1>4. /\ (At("reject") => w.obj.spec \in Mismatch)'
      /\ (At("hit") => w.obj.hit # None)'
  BY DEF FollowInv, CopyTells, At
<1>5. (At("record") /\ w.fresh => ~Unanswered(w.key))'
  BY <1>3, StaysUnanswered DEF FollowInv, CopyTells, At
<1>6. (At("observed") /\ OwnJob(w.key) =>
           \/ w.obj.phase = "Running"
           \/ w.obj.phase = "Succeeded" /\ JobIs(w.key, "succeeded")
           \/ w.obj.phase = "Failed" /\ JobIs(w.key, "failed"))'
  <2>1. At("observed") => OutcomeKept(w.key)
    BY <1>3 DEF At
  <2>. QED
    BY <2>1 DEF FollowInv, CopyTells, At, OutcomeKept, OwnJob, JobIs, Ended
<1>. QED
  BY <1>2, <1>4, <1>5, <1>6 DEF FollowInv, CopyTells

(* The reconcile goes on; only the Job of its own CR may be new.           *)
LEMMA MoveFollow ==
    ASSUME FollowInv, ~At("idle"), w'.point # "idle", w'.key = w.key, UNCHANGED crVars,
           queue \subseteq queue', timers' = timers,
           \A k \in CRs : k # w.key => OutcomeKept(k), CopyTells'
    PROVE  FollowInv'
<1>1. ASSUME NEW k \in CRs, Unanswered(k)'
      PROVE  Attended(k)'
  <2>1. CASE k = w.key
    BY <2>1 DEF Attended, At
  <2>2. CASE k # w.key
    <3>1. Unanswered(k)
      BY <1>1, <2>2, StaysUnanswered DEF crVars
    <3>2. Attended(k)
      BY <3>1 DEF FollowInv, NoBuildForgotten, Unanswered
    <3>. QED
      BY <3>2 DEF Attended, At, crVars
  <2>. QED
    BY <2>1, <2>2
<1>. QED
  BY <1>1 DEF FollowInv, NoBuildForgotten, Unanswered

(* The reconcile ends, having written nothing.                             *)
LEMMA ReturnFollow ==
    ASSUME WakeInv, FollowInv, ~At("idle"), NEW again \in BOOLEAN, Return(again),
           UNCHANGED <<crVars, queue, job>>,
           again \/ ~w.fresh \/ ~Unanswered(w.key)
    PROVE  FollowInv'
<1>1. w'.point = "idle" /\ timers \subseteq timers' /\ (again => w.key \in timers')
  BY DEF Return, Idle
<1>2. ASSUME NEW k \in CRs, Unanswered(k)'
      PROVE  k \in queue \cup timers' \cup crLag
  <2>1. Unanswered(k)
    BY <1>2 DEF Unanswered, Answered, Live, Exists, InPhase, OwnJob, JobIs, crVars
  <2>2. Attended(k)
    BY <2>1 DEF FollowInv, NoBuildForgotten, Unanswered
  <2>3. CASE k = w.key
    BY <1>1, <2>1, <2>3 DEF WakeInv, StaleCopyWakes
  <2>. QED
    BY <1>1, <2>2, <2>3 DEF Attended
<1>3. NoBuildForgotten'
  BY <1>2 DEF NoBuildForgotten, Unanswered, Attended, crVars
<1>4. CopyTells'
  BY <1>1 DEF CopyTells, At
<1>. QED
  BY <1>3, <1>4 DEF FollowInv

LEMMA FetchFollow ==
    ASSUME Types, CleanupInv, FollowInv, NEW k \in CRs, Fetch(k)
    PROVE  FollowInv'
<1>1. At("idle") /\ queue' = queue \ {k} /\ UNCHANGED <<cr, crCache, crLag, timers, job>>
  BY DEF Fetch, crVars, buildVars
<1>2. ASSUME NEW j \in CRs, Unanswered(j)'
      PROVE  Unanswered(j) /\ j \in queue \cup timers \cup crLag
  <2>1. Unanswered(j)
    BY <1>1, <1>2 DEF Unanswered, Answered, Live, Exists, InPhase, OwnJob, JobIs
  <2>. QED
    BY <1>1, <2>1 DEF FollowInv, NoBuildForgotten, Unanswered, Attended
<1>3. CASE Entry(crCache[k]) = "idle"
  <2>1. w'.point = "idle"
    BY <1>3 DEF Fetch, Idle
  <2>2. Live(k) => k \in crLag
    BY <1>3 DEF Entry, CleanupInv, CacheCurrent, Live, Exists
  <2>3. NoBuildForgotten'
    BY <1>1, <1>2, <2>2 DEF NoBuildForgotten, Unanswered, Attended
  <2>4. CopyTells'
    BY <2>1 DEF CopyTells, At
  <2>. QED
    BY <2>3, <2>4 DEF FollowInv
<1>4. CASE Entry(crCache[k]) # "idle"
  <2>1. w'.point = Entry(crCache[k]) /\ w'.key = k
    BY <1>4 DEF Fetch, Idle
  <2>2. NoBuildForgotten'
    BY <1>1, <1>2, <1>4, <2>1 DEF NoBuildForgotten, Unanswered, Attended, At
  <2>3. CopyTells'
    BY <2>1 DEF CopyTells, Entry, At
  <2>. QED
    BY <2>2, <2>3 DEF FollowInv
<1>. QED
  BY <1>3, <1>4

(* The worker has written o: it answers for the Job, or the CR will be     *)
(* looked at again.                                                        *)
LEMMA StoreFollow ==
    ASSUME Types, FollowInv, ~At("idle"), NEW o \in ImagePatches \cup {None},
           NEW me \in CRs, me = w.key,
           Store(me, o), timers \subseteq timers', UNCHANGED <<queue, job>>,
           o # cr[me] \/ me \in timers' \/ ~Unanswered(me)',
           w'.point = "idle" \/ (w'.point = "record" /\ w'.key = me /\ ~Unanswered(me)')
    PROVE  FollowInv'
<1>2. /\ crLag \subseteq crLag' /\ (o # cr[me] => me \in crLag')
      /\ \A k \in CRs \ {me} : cr'[k] = cr[k]
  BY DEF Store, Types, TypeOK
<1>3. ASSUME NEW k \in CRs, Unanswered(k)'
      PROVE  k \in queue' \cup timers' \cup crLag'
  <2>1. CASE k # me
    <3>1. Unanswered(k)
      BY <1>2, <1>3, <2>1 DEF Unanswered, Answered, Live, Exists, InPhase, OwnJob, JobIs
    <3>. QED
      BY <1>2, <2>1, <3>1 DEF FollowInv, NoBuildForgotten, Unanswered, Attended
  <2>2. CASE k = me
    BY <1>2, <1>3, <2>2
  <2>. QED
    BY <2>1, <2>2
<1>4. NoBuildForgotten'
  BY <1>3 DEF NoBuildForgotten, Unanswered, Attended
<1>5. CopyTells'
  BY DEF CopyTells, At
<1>. QED
  BY <1>4, <1>5 DEF FollowInv

LEMMA ErrorFollow ==
    ASSUME WakeInv, FollowInv, ~At("idle"), Error, UNCHANGED <<crVars, queue, job>>
    PROVE  FollowInv'
  BY ReturnFollow DEF Error

LEMMA UpdateFollow ==
    ASSUME Types, WakeInv, FollowInv,
           \/ AddFinalizer \/ RemoveFinalizer \/ Reject
           \/ WriteObserved \/ WriteDedupHit \/ WriteRunning
    PROVE  FollowInv'
<1>. ~At("idle") /\ UNCHANGED <<queue, job>>
  BY DEF At, AddFinalizer, RemoveFinalizer, Reject, WriteObserved, WriteDedupHit, WriteRunning,
         buildVars
<1>1. w.obj \in ImagePatches /\ w.key \in CRs
  BY CopyTypes
<1>10. PICK me \in CRs : me = w.key
  BY <1>1
<1>2. CASE ~w.fresh
  BY <1>2, ErrorFollow
  DEF AddFinalizer, RemoveFinalizer, Reject, WriteObserved, WriteDedupHit, WriteRunning, Update
<1>3. CASE w.fresh /\ AddFinalizer
  <2>. DEFINE o == [w.obj EXCEPT !.finalizer = TRUE]
  <2>1. o \in ImagePatches /\ o.finalizer /\ ~w.obj.finalizer /\ w.obj = cr[me]
    BY <1>1, <1>3, <1>10
    DEF ImagePatches, AddFinalizer, WakeInv, CopyAnswers, CopyUntouched, At
  <2>2. Store(me, o) /\ w'.point = "idle" /\ timers \subseteq timers'
    BY <1>3, <1>10 DEF AddFinalizer, Update, Error, Return, Idle
  <2>. HIDE DEF o
  <2>. QED
    BY <1>10, <2>1, <2>2, StoreFollow
<1>4. CASE w.fresh /\ RemoveFinalizer
  <2>1. Store(me, None) /\ w'.point = "idle" /\ timers \subseteq timers'
    BY <1>4, <1>10 DEF RemoveFinalizer, Update, Error, Return, Idle
  <2>2. ~Unanswered(me)'
    BY <1>1, <1>10, <2>1 DEF Store, Types, TypeOK, Unanswered, Live, Exists
  <2>. QED
    BY <1>10, <2>1, <2>2, StoreFollow
<1>5. ASSUME w.fresh, Reject \/ WriteObserved \/ WriteDedupHit \/ WriteRunning
      PROVE  FollowInv'
  <2>1. Store(me, w.obj)
    BY <1>5, <1>10 DEF Reject, WriteObserved, WriteDedupHit, WriteRunning, Update
  <2>2. cr'[me] = w.obj /\ w.obj # None
    BY <1>1, <1>10, <2>1, ControllerAssumption DEF Store, Types, TypeOK
  <2>3. w \in [point: Points, key: CRs \cup {None}, obj: ImagePatches \cup {None},
               fresh: BOOLEAN, manifest: Images \cup {None}]
    BY DEF Types, TypeOK
  <2>4. CASE Reject
    <3>1. /\ w.obj.phase = "Failed" /\ w.obj.spec \in Mismatch
          /\ w'.point = "idle" /\ timers \subseteq timers'
      BY <1>5, <2>4
      DEF Reject, Update, Error, Return, Idle, WakeInv, CopyAnswers, FollowInv, CopyTells, At
    <3>2. ~Unanswered(me)'
      BY <2>2, <3>1 DEF Unanswered, Answered, InPhase, Exists
    <3>. QED
      BY <1>1, <1>10, <2>1, <3>1, <3>2, StoreFollow
  <2>5. CASE WriteRunning
    <3>1. w'.point = "idle" /\ timers' = timers \cup {w.key}
      BY <1>5, <2>5 DEF WriteRunning, Update, Error, Return, Idle
    <3>. QED
      BY <1>1, <1>10, <2>1, <3>1, StoreFollow
  <2>6. CASE WriteDedupHit
    <3>1. w.obj.phase = "Succeeded" /\ w.obj.hit # None
      BY <2>6 DEF WriteDedupHit, WakeInv, CopyAnswers, FollowInv, CopyTells, At
    <3>2. ~Unanswered(me)'
      BY <2>2, <3>1 DEF Unanswered, Answered, InPhase, Exists
    <3>3. Goto("record", w.obj) \/ Error
      BY <1>5, <2>6 DEF WriteDedupHit, Update
    <3>4. /\ timers \subseteq timers'
          /\ w' = Idle \/ (w'.point = "record" /\ w'.key = me)
      BY <1>10, <2>3, <3>3 DEF Goto, Error, Return
    <3>. QED
      BY <1>1, <1>10, <2>1, <3>2, <3>4, StoreFollow DEF Idle
  <2>7. CASE WriteObserved
    <3>1. CASE w.obj.phase = "Running"
      <4>1. ~RecordsResult(cr[w.key], w.obj)
        BY <3>1 DEF RecordsResult
      <4>2. w'.point = "idle" /\ timers' = timers \cup {w.key}
        BY <1>5, <2>7, <3>1, <4>1 DEF WriteObserved, Update, Error, Return, Idle
      <4>. QED
        BY <1>1, <1>10, <2>1, <4>2, StoreFollow
    <3>2. CASE w.obj.phase # "Running"
      <4>1. OwnJob(me) =>
               \/ w.obj.phase = "Succeeded" /\ JobIs(me, "succeeded")
               \/ w.obj.phase = "Failed" /\ JobIs(me, "failed")
        BY <1>10, <2>7, <3>2 DEF WriteObserved, FollowInv, CopyTells
      <4>2. ~Unanswered(me)'
        BY <2>2, <4>1 DEF Unanswered, Answered, InPhase, Exists, OwnJob, JobIs
      <4>3. Goto("record", w.obj) \/ Return(FALSE) \/ Error
        BY <1>5, <2>7, <3>2 DEF WriteObserved, Update
      <4>4. /\ timers \subseteq timers'
            /\ w' = Idle \/ (w'.point = "record" /\ w'.key = me)
        BY <1>10, <2>3, <4>3 DEF Goto, Error, Return
      <4>. QED
        BY <1>1, <1>10, <2>1, <4>2, <4>4, StoreFollow DEF Idle
    <3>. QED
      BY <3>1, <3>2
  <2>. QED
    BY <1>5, <2>4, <2>5, <2>6, <2>7
<1>. QED
  BY <1>2, <1>3, <1>4, <1>5

(* What a reconcile does between reading the CR and writing it back.       *)
LEMMA WorkFollow ==
    ASSUME Types, WakeInv, EndInv, FollowInv,
           \/ DeleteJobs \/ DeleteConfigMaps \/ DeleteSecrets
           \/ Inspect \/ GetJob \/ ApplyConfigMap \/ ApplyAuthSecret
           \/ DedupHead \/ RetagGet \/ RetagPut \/ CreateJob \/ RecordBuildResult
    PROVE  FollowInv'
<1>. ~At("idle") /\ UNCHANGED crVars /\ queue \subseteq queue'
  BY DEF At, DeleteJobs, DeleteConfigMaps, DeleteSecrets, Inspect, GetJob, ApplyConfigMap,
         ApplyAuthSecret, DedupHead, RetagGet, RetagPut, CreateJob, RecordBuildResult, Enqueue,
         queueVars
<1>0. w.obj \in ImagePatches /\ w.key \in CRs /\ Me \in Names
  BY CopyTypes
<1>9. w \in [point: Points, key: CRs \cup {None}, obj: ImagePatches \cup {None},
             fresh: BOOLEAN, manifest: Images \cup {None}]
  BY DEF Types, TypeOK
<1>10. ASSUME job' = job, NEW k \in CRs
       PROVE  OutcomeKept(k)
  BY <1>10 DEF OutcomeKept, OwnJob, JobIs
<1>1. CASE DeleteJobs \/ DeleteConfigMaps \/ DeleteSecrets
  <2>1. /\ w'.point \in {"deleteConfigMaps", "deleteSecrets", "removeFinalizer"}
        /\ w'.key = w.key /\ timers' = timers
    BY <1>1, <1>9 DEF DeleteJobs, DeleteConfigMaps, DeleteSecrets, Goto, AfterDelete
  <2>2. \A n \in Names : job'[n] \in {None, job[n]}
    BY <1>1
    DEF DeleteJobs, DeleteConfigMaps, DeleteSecrets, Kept, Types, TypeOK, BuildTypeOK
  <2>3. \A k \in CRs : OutcomeKept(k)
    BY <2>2, NamesAssumption DEF OutcomeKept, OwnJob, JobIs
  <2>. QED
    BY <2>1, <2>3, MoveFollow DEF CopyTells, At
<1>2. CASE ApplyConfigMap \/ ApplyAuthSecret \/ DedupHead \/ RetagGet \/ RetagPut
  <2>1. /\ w'.point \in {"authSecret", "head", "createJob", "retagGet", "retagPut", "hit"}
        /\ w'.point = "hit" => w'.obj = DedupHit(w.obj)
        /\ w'.key = w.key /\ timers' = timers /\ job' = job
    BY <1>2, <1>9
    DEF ApplyConfigMap, ApplyAuthSecret, DedupHead, RetagGet, RetagPut, Goto, AfterConfigMap,
        AfterAuth, queueVars, buildVars
  <2>2. DedupHit(w.obj).hit # None
    <3>1. DedupHit(w.obj).hit = DedupRef[w.obj.spec]
      BY <1>0 DEF DedupHit, ImagePatches
    <3>2. w.obj.spec \in Specs
      BY CopyTypes
    <3>. QED
      BY <3>1, <3>2, RefsAssumption, NoneAssumption DEF Refs
  <2>. QED
    BY <1>10, <2>1, <2>2, MoveFollow DEF CopyTells, At
<1>3. CASE CreateJob
  <2>1. CASE job[Me] # None
    <3>1. Error /\ UNCHANGED <<queue, job>>
      BY <1>3, <2>1 DEF CreateJob
    <3>. QED
      BY <3>1, ErrorFollow
  <2>2. CASE job[Me] = None
    <3>1. /\ w'.point = "running" /\ timers' = timers /\ w'.key = w.key
      BY <1>3, <1>9, <2>2 DEF CreateJob, Goto
    <3>2. ASSUME NEW k \in CRs, k # w.key
          PROVE  OutcomeKept(k)
      <4>. DEFINE new == ConstructJob(w.key, w.obj.spec, ConsultsDedup(w.obj.spec))
      <4>1. job' = [job EXCEPT ![Me] = new]
        BY <1>3, <2>2 DEF CreateJob
      <4>2. new.src = w.key
        BY DEF ConstructJob
      <4>. HIDE DEF new
      <4>. QED
        BY <1>0, <3>2, <4>1, <4>2, NamesAssumption
        DEF OutcomeKept, OwnJob, JobIs, Types, TypeOK, BuildTypeOK
    <3>3. CopyTells'
      BY <3>1 DEF CopyTells, At
    <3>. QED
      BY <3>1, <3>2, <3>3, MoveFollow
  <2>. QED
    BY <2>1, <2>2
<1>4. CASE Inspect
  <2>. DEFINE no == [w.obj EXCEPT !.phase = "Failed", !.message = "ImageOSNotSupported"]
  <2>1. no.spec = w.obj.spec
    BY <1>0 DEF ImagePatches
  <2>2. /\ (w.obj.spec \in Mismatch /\ Goto("reject", no)) \/ Goto("getJob", w.obj)
        /\ job' = job
    BY <1>4 DEF Inspect, buildVars
  <2>. HIDE DEF no
  <2>3. /\ \/ w'.point = "getJob"
           \/ w'.point = "reject" /\ w'.obj.spec \in Mismatch
        /\ w'.key = w.key /\ timers' = timers
    BY <1>9, <2>1, <2>2 DEF Goto
  <2>4. CopyTells'
    BY <2>3 DEF CopyTells, At
  <2>. QED
    BY <1>10, <2>2, <2>3, <2>4, MoveFollow
<1>5. CASE GetJob
  <2>. DEFINE j == jobCache[Me]
  <2>1. At("getJob") /\ UNCHANGED <<queue, job>>
    BY <1>5 DEF GetJob, buildVars
  <2>2. CASE j = None
    <3>1. w'.point = "configMap" /\ w'.key = w.key /\ timers' = timers
      BY <1>5, <1>9, <2>2 DEF GetJob, Goto
    <3>2. CopyTells'
      BY <3>1 DEF CopyTells, At
    <3>. QED
      BY <1>10, <2>1, <3>1, <3>2, MoveFollow
  <2>3. j # None => j \in Jobs
    BY <1>0 DEF Types, TypeOK
  <2>4. j # None /\ j.state \in Ended /\ OwnJob(w.key) => JobIs(w.key, j.state)
    BY <1>0 DEF EndInv, EndSeen, OwnJob, JobIs, Me
  <2>5. /\ j.state = "succeeded" => Observed(w.obj, j).phase = "Succeeded"
        /\ j.state = "failed" => Observed(w.obj, j).phase = "Failed"
        /\ j.state = "active" => Observed(w.obj, j).phase = "Running"
        /\ j.state = "pending" => Observed(w.obj, j) = w.obj
    BY <1>0 DEF Observed, ImagePatches
  <2>6. CASE j # None /\ ~StatusChanged(w.obj, Observed(w.obj, j))
    <3>1. Return(Polls(j)) /\ Polls(j) \in BOOLEAN
      BY <1>5, <2>6 DEF GetJob, Polls
    <3>2. ~Polls(j) => j.state \in Ended
      BY <2>3, <2>6 DEF Polls, Jobs, Ended
    <3>3. w.obj.phase = Observed(w.obj, j).phase
      BY <2>6 DEF StatusChanged
    <3>4. w.fresh => w.obj = cr[w.key]
      BY <2>1 DEF WakeInv, CopyUntouched, At
    <3>5. ~Polls(j) /\ w.fresh => ~Unanswered(w.key)
      <4>. SUFFICES ASSUME j.state \in Ended, Live(w.key), OwnJob(w.key), w.obj = cr[w.key]
                    PROVE  Answered(w.key)
        BY <3>2, <3>4 DEF Unanswered
      <4>1. JobIs(w.key, j.state)
        BY <2>4, <2>6
      <4>2. cr[w.key].phase = Observed(w.obj, j).phase /\ Exists(w.key)
        BY <3>3 DEF Live
      <4>. HIDE DEF j
      <4>. QED
        BY <2>5, <4>1, <4>2 DEF Answered, InPhase, Ended
    <3>. HIDE DEF j
    <3>. QED
      BY <2>1, <3>1, <3>5, ReturnFollow
  <2>7. CASE j # None /\ StatusChanged(w.obj, Observed(w.obj, j))
    <3>1. /\ w'.point = "observed" /\ w'.obj = Observed(w.obj, j)
          /\ w'.key = w.key /\ timers' = timers
      BY <1>5, <1>9, <2>7 DEF GetJob, Goto
    <3>2. j.state \in {"active", "succeeded", "failed"}
      <4>1. j.state # "pending"
        BY <2>5, <2>7 DEF StatusChanged
      <4>. QED
        BY <2>3, <2>7, <4>1 DEF Jobs
    <3>3. CopyTells'
      <4>. HIDE DEF j
      <4>1. OwnJob(w.key) =>
               \/ w'.obj.phase = "Running"
               \/ w'.obj.phase = "Succeeded" /\ JobIs(w.key, "succeeded")
               \/ w'.obj.phase = "Failed" /\ JobIs(w.key, "failed")
        BY <2>4, <2>5, <2>7, <3>1, <3>2 DEF Ended
      <4>. QED
        BY <2>1, <3>1, <4>1 DEF CopyTells, At, OwnJob, JobIs
    <3>. QED
      BY <1>10, <2>1, <3>1, <3>3, MoveFollow
  <2>. QED
    BY <2>2, <2>6, <2>7
<1>6. CASE RecordBuildResult
  <2>1. Return(FALSE) /\ UNCHANGED <<queue, job>> /\ (w.fresh => ~Unanswered(w.key))
    BY <1>6 DEF RecordBuildResult, FollowInv, CopyTells, buildVars
  <2>. QED
    BY <2>1, ReturnFollow
<1>. QED
  BY <1>1, <1>2, <1>3, <1>4, <1>5, <1>6

LEMMA FaultFollow ==
    ASSUME Types, WakeInv, EndInv, FollowInv, Faults
    PROVE  FollowInv'
<1>0. job' = job /\ \A k \in CRs : OutcomeKept(k)
  BY DEF Faults, FailOpen, ClassifyFails, CallFails, Crash, buildVars, OutcomeKept, OwnJob,
         JobIs
<1>1. CASE FailOpen
  <2>1. /\ ~At("idle") /\ w'.point = "createJob" /\ w'.key = w.key
        /\ UNCHANGED <<crVars, queue, timers>>
    BY <1>1 DEF FailOpen, At, queueVars, Types, TypeOK
  <2>2. CopyTells'
    BY <2>1 DEF CopyTells, At
  <2>. QED
    BY <1>0, <2>1, <2>2, MoveFollow
<1>2. CASE CallFails
  BY <1>0, <1>2, ErrorFollow DEF CallFails, At
<1>3. CASE Crash
  <2>1. /\ w'.point = "idle" /\ cr' = cr /\ queue' = {k \in CRs : cr[k] # None}
    BY <1>3 DEF Crash, Idle
  <2>2. NoBuildForgotten'
    BY <2>1 DEF NoBuildForgotten, Attended, Live, Exists
  <2>3. CopyTells'
    BY <2>1 DEF CopyTells, At
  <2>. QED
    BY <2>2, <2>3 DEF FollowInv
<1>4. CASE ClassifyFails
  <2>. DEFINE o == [w.obj EXCEPT !.phase = "Failed", !.message = "ControllerInternalError"]
  <2>1. /\ At("getJob") /\ ~At("idle") /\ Goto("observed", o)
        /\ jobCache[Me] # None /\ jobCache[Me].state = "failed"
        /\ UNCHANGED <<crVars, queue>>
    BY <1>4 DEF ClassifyFails, At
  <2>2. o.phase = "Failed" /\ Me \in Names
    BY <2>1, CopyTypes DEF ImagePatches
  <2>. HIDE DEF o
  <2>3. /\ w'.point = "observed" /\ w'.obj.phase = "Failed"
        /\ w'.key = w.key /\ timers' = timers
    BY <2>1, <2>2 DEF Goto, Types, TypeOK
  <2>4. OwnJob(w.key) => JobIs(w.key, "failed")
    BY <2>1, <2>2 DEF EndInv, EndSeen, Ended, OwnJob, JobIs, Me
  <2>5. CopyTells'
    BY <1>0, <2>3, <2>4 DEF CopyTells, At, OwnJob, JobIs
  <2>. QED
    BY <1>0, <2>1, <2>3, <2>5, MoveFollow
<1>. QED
  BY <1>1, <1>2, <1>3, <1>4 DEF Faults

(* Somebody else writes a new version of a CR: its event is due.           *)
LEMMA UserFollow ==
    ASSUME Types, FollowInv, Users
    PROVE  FollowInv'
<1>1. PICK k \in CRs : /\ \A j \in CRs : j # k => cr'[j] = cr[j]
                       /\ k \in crLag' \/ cr'[k] = None
                       /\ crLag \subseteq crLag' /\ UNCHANGED <<queue, timers, job>>
                       /\ w' = [w EXCEPT !.fresh = w.fresh /\ w.key # k]
  <2>1. PICK k \in CRs : \/ \E s \in Wanted[k] : CreateCR(k, s) \/ EditSpec(k, s)
                         \/ Touch(k)
                         \/ DeleteCR(k)
    BY DEF Users
  <2>2. UNCHANGED <<queue, timers, job>>
    BY <2>1 DEF CreateCR, EditSpec, Touch, DeleteCR, queueVars, buildVars
  <2>3. \/ Touch(k)
        \/ \E o : UserWrite(k, o) /\ (o # cr[k] \/ o = None)
    <3>1. ASSUME NEW s \in Wanted[k], CreateCR(k, s)
          PROVE  \E o : UserWrite(k, o) /\ (o # cr[k] \/ o = None)
      <4>1. NewImagePatch(s) \in ImagePatches
        BY ControllerAssumption, NoneAssumption
        DEF NewImagePatch, ImagePatches, Messages, Phases
      <4>. QED
        BY <3>1, <4>1, ControllerAssumption DEF CreateCR
    <3>2. ASSUME NEW s \in Wanted[k], EditSpec(k, s)
          PROVE  \E o : UserWrite(k, o) /\ (o # cr[k] \/ o = None)
      <4>1. cr[k] \in ImagePatches
        BY <3>2 DEF EditSpec, Types, TypeOK
      <4>2. [cr[k] EXCEPT !.spec = s] # cr[k]
        BY <3>2, <4>1 DEF EditSpec, ImagePatches
      <4>. QED
        BY <3>2, <4>2 DEF EditSpec
    <3>3. ASSUME DeleteCR(k)
          PROVE  \E o : UserWrite(k, o) /\ (o # cr[k] \/ o = None)
      <4>1. cr[k] \in ImagePatches /\ ~cr[k].deleting
        BY <3>3 DEF DeleteCR, Types, TypeOK
      <4>2. [cr[k] EXCEPT !.deleting = TRUE] # cr[k]
        BY <4>1 DEF ImagePatches
      <4>. QED
        BY <3>3, <4>2 DEF DeleteCR
    <3>. QED
      BY <2>1, <3>1, <3>2, <3>3
  <2>. QED
    BY <2>2, <2>3 DEF Touch, UserWrite, Store, Types, TypeOK
<1>2. w'.point = w.point /\ w'.key = w.key /\ w'.obj = w.obj
      /\ (w'.fresh <=> w.fresh /\ w.key # k)
  BY <1>1 DEF Types, TypeOK
<1>3. ASSUME NEW j \in CRs, j # k, Unanswered(j)'
      PROVE  Unanswered(j)
  BY <1>1, <1>3 DEF Unanswered, Answered, Live, Exists, InPhase, OwnJob, JobIs
<1>4. ASSUME NEW j \in CRs, Unanswered(j)'
      PROVE  Attended(j)'
  <2>1. CASE j = k
    BY <1>1, <1>4, <2>1 DEF Unanswered, Live, Exists, Attended
  <2>2. CASE j # k
    <3>1. Attended(j)
      BY <1>3, <1>4, <2>2 DEF FollowInv, NoBuildForgotten, Unanswered
    <3>. QED
      BY <1>1, <1>2, <3>1 DEF Attended, At
  <2>. QED
    BY <2>1, <2>2
<1>5. NoBuildForgotten'
  BY <1>4 DEF NoBuildForgotten, Unanswered
<1>6. ~At("idle") => w.key \in CRs
  BY CopyTypes
<1>7. CopyTells'
  <2>1. (At("record") /\ w.fresh => ~Unanswered(w.key))'
    BY <1>2, <1>3, <1>6 DEF FollowInv, CopyTells, At
  <2>2. /\ (At("reject") => w.obj.spec \in Mismatch)'
        /\ (At("hit") => w.obj.hit # None)'
        /\ (At("observed") /\ OwnJob(w.key) =>
              \/ w.obj.phase = "Running"
              \/ w.obj.phase = "Succeeded" /\ JobIs(w.key, "succeeded")
              \/ w.obj.phase = "Failed" /\ JobIs(w.key, "failed"))'
    BY <1>1, <1>2 DEF FollowInv, CopyTells, At, OwnJob, JobIs
  <2>. QED
    BY <2>1, <2>2 DEF CopyTells
<1>. QED
  BY <1>5, <1>7 DEF FollowInv

LEMMA FollowNext ==
    Types /\ CleanupInv /\ WakeInv /\ EndInv /\ FollowInv /\ [Next]_vars => FollowInv'
<1>. SUFFICES ASSUME Types, CleanupInv, WakeInv, EndInv, FollowInv, [Next]_vars
              PROVE  FollowInv'
  OBVIOUS
<1>1. CASE ReconcileStep
  BY <1>1, FetchFollow, UpdateFollow, WorkFollow DEF ReconcileStep
<1>2. CASE RecordBuildResult
  BY <1>2, WorkFollow
<1>3. CASE Builds
  <2>1. \A k \in CRs : OutcomeKept(k)
    BY <1>3, BuildsAdvance, AdvancesKeep DEF EndInv
  <2>. QED
    BY <1>3, <2>1, QuietFollow DEF Builds, crVars, queueVars
<1>4. CASE Delivery \/ UNCHANGED vars
  <2>1. UNCHANGED <<cr, w, job>>
    BY <1>4 DEF Delivery, SyncCR, TimerFires, SyncJob, vars, crVars, buildVars
  <2>2. \A k \in CRs : OutcomeKept(k)
    BY <2>1 DEF OutcomeKept, OwnJob, JobIs
  <2>3. /\ crLag \cup queue \subseteq crLag' \cup queue'
        /\ timers \subseteq timers' \cup queue'
    BY <1>4 DEF Delivery, SyncCR, TimerFires, SyncJob, Enqueue, vars, crVars, queueVars
  <2>. QED
    BY <2>1, <2>2, <2>3, QuietFollow
<1>. QED
  BY <1>1, <1>2, <1>3, <1>4, FaultFollow, UserFollow DEF Next, Reconcile

LEMMA FollowInit == Init => EndInv /\ FollowInv
<1>. SUFFICES ASSUME Init
              PROVE  EndInv /\ FollowInv
  OBVIOUS
<1>1. \A k \in CRs \ Legacy : cr[k] = None
  <2>1. PICK old \in [Legacy -> Specs] :
          cr = [k \in CRs |-> IF k \in Legacy THEN LegacyImagePatch(old[k]) ELSE None]
    BY DEF Init
  <2>. QED
    BY <2>1
<1>2. queue = Legacy /\ w.point = "idle" /\ jobCache = job
  BY DEF Init, Idle
<1>3. EndIsFinal
  <2>1. PICK old \in [Legacy -> Specs], log \in [Legacy -> Causes \cup {None}] :
          LET owner(n) == CHOOSE k \in Legacy : NameOf[k] = n
              held(n)  == \E k \in Legacy : NameOf[k] = n
          IN
          pod = [n \in Names |-> [g \in Slots |->
                   IF g = "job" /\ held(n) /\ log[owner(n)] # None
                   THEN [spec |-> job[n].spec, auth |-> job[n].auth,
                         dedup |-> FALSE, mounted |-> job[n].spec,
                         stage |-> "failed", log |-> log[owner(n)]]
                   ELSE None]]
    BY DEF Init
  <2>. QED
    BY <2>1 DEF EndIsFinal, Slots
<1>4. EndSeen /\ NoneSeen
  BY <1>2 DEF EndSeen, NoneSeen, Creating
<1>5. NoBuildForgotten
  BY <1>1, <1>2 DEF NoBuildForgotten, Attended, Live, Exists
<1>6. CopyTells
  BY <1>2 DEF CopyTells, At
<1>. QED
  BY <1>3, <1>4, <1>5, <1>6 DEF EndInv, FollowInv

(* No build and no outcome of a build is forgotten, however the caches     *)
(* lag and the names are reused: the invariant of the runs "recreate" and  *)
(* "edit" for every value of the constants.  It is what OutcomeIsReported  *)
(* rests on.                                                               *)
THEOREM NoBuildIsForgotten == Spec => []NoBuildForgotten
<1>1. Init => WakeInv /\ EndInv /\ FollowInv
  BY WakeInit, FollowInit
<1>2. Types /\ CleanupInv /\ WakeInv /\ EndInv /\ FollowInv /\ [Next]_vars
        => WakeInv' /\ EndInv' /\ FollowInv'
  BY WakeNext, EndNext, FollowNext
<1>3. FollowInv => NoBuildForgotten
  BY DEF FollowInv
<1>. QED
  BY <1>1, <1>2, <1>3, CleanupHolds, PTL DEF Spec

=============================================================================
