----------------------------- MODULE MetricsProofs -----------------------------
(***************************************************************************)
(* Proofs that the results of builds are counted once: at most once when   *)
(* no dedup hit is possible, and at least once but for those whose process *)
(* died, or whose update was done and not answered.                        *)
(*                                                                         *)
(* A transition into a terminal phase is a status update, the recording a  *)
(* later step.  An update that is answered takes the worker to "record",   *)
(* where nobody but the recording and a crash moves it; one whose answer   *)
(* is lost spends an event "lost" instead.                                 *)
(***************************************************************************)
EXTENDS BuildMetrics, CleanupProofs

HitPoints == {"head", "retagGet", "retagPut", "hit"}

(* The dedup cache is off, or the manager was given no registry client.    *)
NoHits == ~(DedupEnabled /\ RegistryClient)

(* What the worker's copy shows of the phase at the points that write it.  *)
PhaseInv ==
    /\ At("observed") => w.obj.phase \in {"Running", "Succeeded", "Failed"}
    /\ At("running") => w.obj.phase = "Running"
    /\ At("addFinalizer") /\ w.fresh => w.obj.phase = cr[w.key].phase
    /\ NoHits => w.point \notin HitPoints

(* All steps but the recording of a result, a crash and the gauges'.       *)
Unmetered ==
    \/ ReconcileStep \/ FailOpen \/ ClassifyFails \/ CallFails
    \/ Delivery \/ Builds \/ Users

CRWrites ==
    \/ AddFinalizer \/ RemoveFinalizer \/ Reject
    \/ WriteObserved \/ WriteDedupHit \/ WriteRunning

-----------------------------------------------------------------------------
(* The points of a reconcile.                                              *)

LEMMA ElsewherePhase ==
    ASSUME w'.point \notin {"observed", "running", "addFinalizer"} \cup HitPoints
    PROVE  PhaseInv'
  BY DEF PhaseInv, At

LEMMA ReconcilePhase ==
    ASSUME Types, CleanupInv, PhaseInv, Reconcile
    PROVE  PhaseInv'
<1>. w \in [point: Points, key: CRs \cup {None}, obj: ImagePatches \cup {None},
            fresh: BOOLEAN, manifest: Images \cup {None}]
  BY DEF Types, TypeOK
<1>1. ASSUME NEW k \in CRs, Fetch(k)
      PROVE  PhaseInv'
  <2>1. CASE Entry(crCache[k]) = "idle"
    BY <1>1, <2>1, ElsewherePhase DEF Fetch, Idle, HitPoints
  <2>2. CASE Entry(crCache[k]) # "idle"
    <3>1. /\ w'.point \in {"deleteJobs", "inspect", "addFinalizer"}
          /\ w'.key = k /\ w'.obj = crCache[k] /\ w'.fresh = (k \notin crLag)
          /\ cr' = cr
      BY <1>1, <2>2 DEF Fetch, Idle, Entry, crVars
    <3>. QED
      BY <3>1 DEF PhaseInv, At, HitPoints, CleanupInv, CacheCurrent
  <2>. QED
    BY <2>1, <2>2
<1>2. CASE DeleteJobs \/ DeleteConfigMaps \/ DeleteSecrets
  BY <1>2, ElsewherePhase
  DEF DeleteJobs, DeleteConfigMaps, DeleteSecrets, Goto, AfterDelete, HitPoints
<1>3. CASE CRWrites
  <2>1. w' = Idle \/ w' = [w EXCEPT !.point = "record", !.obj = w.obj]
    BY <1>3
    DEF CRWrites, AddFinalizer, RemoveFinalizer, Reject, WriteObserved, WriteDedupHit,
        WriteRunning, Update, Error, Return, Goto
  <2>2. w'.point \in {"idle", "record"}
    <3>1. CASE w' = Idle
      BY <3>1 DEF Idle
    <3>2. CASE w' = [w EXCEPT !.point = "record", !.obj = w.obj]
      BY <3>2
    <3>. QED
      BY <2>1, <3>1, <3>2
  <2>. QED
    BY <2>2, ElsewherePhase DEF HitPoints
<1>4. CASE Inspect
  BY <1>4, ElsewherePhase DEF Inspect, Goto, HitPoints
<1>5. CASE GetJob
  <2>1. At("getJob") /\ w.obj \in ImagePatches /\ Me \in Names
    BY <1>5, CopyTypes DEF GetJob, At
  <2>2. jobCache[Me] \in Jobs \cup {None}
    BY <2>1 DEF Types, TypeOK
  <2>. DEFINE o == Observed(w.obj, jobCache[Me])
  <2>3. \/ w' = Idle
        \/ w' = [w EXCEPT !.point = "configMap", !.obj = w.obj]
        \/ /\ w' = [w EXCEPT !.point = "observed", !.obj = o]
           /\ jobCache[Me] # None /\ StatusChanged(w.obj, o)
    BY <1>5 DEF GetJob, Goto, Return
  <2>4. ASSUME jobCache[Me] # None, StatusChanged(w.obj, o)
        PROVE  o.phase \in {"Running", "Succeeded", "Failed"}
    BY <2>1, <2>2, <2>4 DEF Observed, StatusChanged, Jobs, ImagePatches
  <2>. HIDE DEF o
  <2>5. CASE w' = Idle
    BY <2>5, ElsewherePhase DEF Idle, HitPoints
  <2>6. CASE w' = [w EXCEPT !.point = "configMap", !.obj = w.obj]
    BY <2>6, ElsewherePhase DEF HitPoints
  <2>7. CASE /\ w' = [w EXCEPT !.point = "observed", !.obj = o]
             /\ jobCache[Me] # None /\ StatusChanged(w.obj, o)
    BY <2>4, <2>7 DEF PhaseInv, At, HitPoints
  <2>. QED
    BY <2>3, <2>5, <2>6, <2>7
<1>6. CASE ApplyConfigMap \/ ApplyAuthSecret
  BY <1>6
  DEF ApplyConfigMap, ApplyAuthSecret, Goto, AfterConfigMap, AfterAuth, ConsultsDedup,
      NoHits, PhaseInv, At, HitPoints
<1>7. CASE DedupHead \/ RetagGet \/ RetagPut
  <2>1. w.point \in HitPoints
    BY <1>7 DEF DedupHead, RetagGet, RetagPut, At, HitPoints
  <2>2. w'.point \in {"retagGet", "retagPut", "hit", "createJob"}
    BY <1>7 DEF DedupHead, RetagGet, RetagPut, Goto
  <2>. QED
    BY <2>1, <2>2 DEF PhaseInv, At
<1>8. CASE CreateJob
  <2>1. At("createJob") /\ w.obj \in ImagePatches
    BY <1>8, CopyTypes DEF CreateJob, At
  <2>. DEFINE o == [w.obj EXCEPT !.phase = "Running", !.jobName = TRUE,
                                 !.image = Target[w.obj.spec]]
  <2>2. o.phase = "Running"
    BY <2>1 DEF ImagePatches
  <2>3. w' = Idle \/ w' = [w EXCEPT !.point = "running", !.obj = o]
    BY <1>8 DEF CreateJob, Goto, Error, Return
  <2>. HIDE DEF o
  <2>4. CASE w' = Idle
    BY <2>4, ElsewherePhase DEF Idle, HitPoints
  <2>5. CASE w' = [w EXCEPT !.point = "running", !.obj = o]
    BY <2>2, <2>5 DEF PhaseInv, At, HitPoints
  <2>. QED
    BY <2>3, <2>4, <2>5
<1>9. CASE RecordBuildResult
  BY <1>9, ElsewherePhase DEF RecordBuildResult, Return, Idle, HitPoints
<1>. QED
  BY <1>1, <1>2, <1>3, <1>4, <1>5, <1>6, <1>7, <1>8, <1>9
  DEF Reconcile, ReconcileStep, CRWrites

LEMMA UserPhase ==
    ASSUME Types, PhaseInv, Users
    PROVE  PhaseInv'
<1>1. ASSUME NEW k \in CRs, NEW o, UserWrite(k, o)
      PROVE  PhaseInv'
  <2>1. /\ w'.point = w.point /\ w'.obj = w.obj /\ w'.key = w.key
        /\ (w'.fresh => w.fresh /\ w.key # k)
        /\ cr' = [cr EXCEPT ![k] = o]
    BY <1>1 DEF UserWrite, Store, Types, TypeOK
  <2>2. At("addFinalizer") => w.key \in CRs
    BY CopyTypes DEF At
  <2>. QED
    BY <2>1, <2>2 DEF PhaseInv, At, Types, TypeOK
<1>2. ASSUME NEW k \in CRs, Touch(k)
      PROVE  PhaseInv'
  <2>1. /\ w'.point = w.point /\ w'.obj = w.obj /\ w'.key = w.key
        /\ (w'.fresh => w.fresh)
        /\ cr' = cr
    BY <1>2 DEF Touch, Types, TypeOK
  <2>. QED
    BY <2>1 DEF PhaseInv, At
<1>. QED
  BY <1>1, <1>2 DEF Users, CreateCR, EditSpec, DeleteCR

LEMMA PhaseNext == Types /\ CleanupInv /\ PhaseInv /\ [Next]_vars => PhaseInv'
<1>. SUFFICES ASSUME Types, CleanupInv, PhaseInv, [Next]_vars
              PROVE  PhaseInv'
  OBVIOUS
<1>0. CASE ClassifyFails
  <2>1. w.obj \in ImagePatches
    BY <1>0, CopyTypes DEF ClassifyFails, At
  <2>. DEFINE o == [w.obj EXCEPT !.phase = "Failed", !.message = "ControllerInternalError"]
  <2>2. o.phase = "Failed"
    BY <2>1 DEF ImagePatches
  <2>3. w' = [w EXCEPT !.point = "observed", !.obj = o]
    BY <1>0 DEF ClassifyFails, Goto
  <2>. HIDE DEF o
  <2>4. w'.point = "observed" /\ w'.obj = o
    BY <2>3 DEF Types, TypeOK
  <2>. QED
    BY <2>2, <2>4 DEF PhaseInv, At, HitPoints
<1>1. CASE FailOpen \/ CallFails \/ Crash
  <2>1. w' = Idle \/ w'.point = "createJob"
    BY <1>1 DEF FailOpen, CallFails, Crash, Error, Return, Types, TypeOK
  <2>2. w'.point \in {"createJob", "idle"}
    BY <2>1 DEF Idle
  <2>. QED
    BY <2>2, ElsewherePhase DEF HitPoints
<1>2. CASE Delivery \/ Builds \/ UNCHANGED vars
  <2>1. w' = w /\ cr' = cr
    BY <1>2 DEF Delivery, SyncCR, TimerFires, SyncJob, Builds, vars, crVars
  <2>. QED
    BY <2>1 DEF PhaseInv, At
<1>. QED
  BY <1>0, <1>1, <1>2, ReconcilePhase, UserPhase DEF Next, Faults

-----------------------------------------------------------------------------
(* Transitions into a terminal phase.                                      *)

LEMMA NoEnding ==
    ASSUME cr' = cr, NEW k
    PROVE  ~EndsBuild(k)
  BY DEF EndsBuild, IsTerminal, Exists

(* Users neither end builds nor move the worker.                           *)
LEMMA UserEndings ==
    ASSUME Types, Users, NEW k \in CRs
    PROVE  ~EndsBuild(k)
<1>. cr \in [CRs -> ImagePatches \cup {None}]
  BY DEF Types, TypeOK
<1>1. ASSUME NEW j \in CRs, NEW s \in Wanted[j], CreateCR(j, s)
      PROVE  ~EndsBuild(k)
  <2>1. cr' = [cr EXCEPT ![j] = NewImagePatch(s)]
    BY <1>1 DEF CreateCR, UserWrite, Store
  <2>2. NewImagePatch(s).phase = ""
    BY DEF NewImagePatch
  <2>. QED
    BY <2>1, <2>2 DEF EndsBuild, IsTerminal, Exists
<1>2. ASSUME NEW j \in CRs, NEW s \in Wanted[j], EditSpec(j, s)
      PROVE  ~EndsBuild(k)
  <2>1. cr' = [cr EXCEPT ![j] = [cr[j] EXCEPT !.spec = s]] /\ cr[j] # None
    BY <1>2 DEF EditSpec, UserWrite, Store
  <2>2. [cr[j] EXCEPT !.spec = s].phase = cr[j].phase
    BY <2>1 DEF ImagePatches
  <2>. QED
    BY <2>1, <2>2 DEF EndsBuild, IsTerminal, Exists
<1>3. ASSUME NEW j \in CRs, Touch(j)
      PROVE  ~EndsBuild(k)
  BY <1>3, NoEnding DEF Touch
<1>4. ASSUME NEW j \in CRs, DeleteCR(j)
      PROVE  ~EndsBuild(k)
  <2>1. /\ cr' = [cr EXCEPT ![j] = IF cr[j].finalizer THEN [cr[j] EXCEPT !.deleting = TRUE]
                                   ELSE None]
        /\ cr[j] # None
    BY <1>4 DEF DeleteCR, UserWrite, Store
  <2>2. [cr[j] EXCEPT !.deleting = TRUE].phase = cr[j].phase
    BY <2>1 DEF ImagePatches
  <2>. QED
    BY <2>1, <2>2 DEF EndsBuild, IsTerminal, Exists
<1>. QED
  BY <1>1, <1>2, <1>3, <1>4 DEF Users

(* An update of the worker that ends a build leads to the recording, if it *)
(* is answered.                                                            *)
LEMMA WorkerEndings ==
    ASSUME Types, CleanupInv, PhaseInv, CRWrites, NEW k \in CRs, EndsBuild(k)
    PROVE  /\ ~At("record")
           /\ w.key = k
           /\ (w'.point = "record" /\ w'.key = k) \/ Spend("lost")
<1>. ~At("idle") /\ ~At("record")
  BY DEF CRWrites, At, AddFinalizer, RemoveFinalizer, Reject, WriteObserved, WriteDedupHit,
         WriteRunning
<1>1. w.obj \in ImagePatches /\ w.key \in CRs
  BY CopyTypes
<1>2. cr \in [CRs -> ImagePatches \cup {None}]
      /\ w \in [point: Points, key: CRs \cup {None}, obj: ImagePatches \cup {None},
                fresh: BOOLEAN, manifest: Images \cup {None}]
  BY DEF Types, TypeOK
<1>3. w.fresh
  <2>1. ~w.fresh => cr' = cr
    BY DEF CRWrites, AddFinalizer, RemoveFinalizer, Reject, WriteObserved, WriteDedupHit,
           WriteRunning, Update, crVars
  <2>. QED
    BY <2>1, NoEnding
<1>4. Exists(w.key)
  BY <1>3 DEF CleanupInv, CopyCurrent
<1>5. ASSUME NEW o, Store(w.key, o)
      PROVE  k = w.key /\ IsTerminal(o) /\ o.phase # cr[k].phase
  <2>1. cr' = [cr EXCEPT ![w.key] = o]
    BY <1>5 DEF Store
  <2>2. k = w.key
    BY <1>1, <1>2, <2>1 DEF EndsBuild, IsTerminal, Exists
  <2>3. cr'[k] = o
    BY <1>2, <2>1, <2>2
  <2>. QED
    BY <1>4, <2>2, <2>3 DEF EndsBuild
<1>6. ~AddFinalizer
  <2>. SUFFICES ASSUME AddFinalizer PROVE FALSE
    OBVIOUS
  <2>. DEFINE o == [w.obj EXCEPT !.finalizer = TRUE]
  <2>1. Store(w.key, o)
    BY <1>3 DEF AddFinalizer, Update
  <2>2. o.phase = w.obj.phase
    BY <1>1 DEF ImagePatches
  <2>3. w.obj.phase = cr[w.key].phase
    BY <1>3 DEF AddFinalizer, PhaseInv
  <2>. HIDE DEF o
  <2>. QED
    BY <1>5, <2>1, <2>2, <2>3
<1>7. ~RemoveFinalizer
  BY <1>3, <1>5 DEF RemoveFinalizer, Update, IsTerminal
<1>8. ~Reject
  BY DEF Reject, At, EndsBuild
<1>9. ~WriteRunning
  BY <1>3, <1>5 DEF WriteRunning, Update, IsTerminal, PhaseInv
<1>10. CASE WriteObserved
  <2>1. k = w.key /\ IsTerminal(w.obj) /\ w.obj.phase # cr[k].phase
    BY <1>3, <1>5, <1>10 DEF WriteObserved, Update
  <2>2. RecordsResult(cr[w.key], w.obj)
    BY <2>1 DEF RecordsResult, IsTerminal
  <2>3. w' = [w EXCEPT !.point = "record", !.obj = w.obj] \/ Spend("lost")
    BY <1>3, <1>10, <2>2 DEF WriteObserved, Update, Goto
  <2>. QED
    BY <1>2, <2>1, <2>3
<1>11. CASE WriteDedupHit
  <2>1. k = w.key
    BY <1>3, <1>5, <1>11 DEF WriteDedupHit, Update
  <2>2. w' = [w EXCEPT !.point = "record", !.obj = w.obj] \/ Spend("lost")
    BY <1>3, <1>11 DEF WriteDedupHit, Update, Goto
  <2>. QED
    BY <1>2, <2>1, <2>2
<1>. QED
  BY <1>6, <1>7, <1>8, <1>9, <1>10, <1>11 DEF CRWrites

LEMMA Endings ==
    ASSUME Types, CleanupInv, PhaseInv, Unmetered, NEW k \in CRs, EndsBuild(k)
    PROVE  /\ ~At("record")
           /\ w.key = k
           /\ (w'.point = "record" /\ w'.key = k) \/ Spend("lost")
<1>1. CASE CRWrites
  BY <1>1, WorkerEndings
<1>2. CASE Users
  BY <1>2, UserEndings
<1>. QED
  BY <1>1, <1>2, NoEnding, OthersKeepCRs DEF Unmetered, ReconcileStep, Faults, CRWrites

(* Nobody but the recording itself takes the worker from there.            *)
LEMMA RecordStays ==
    ASSUME Types, Unmetered, At("record")
    PROVE  w'.point = "record" /\ w'.key = w.key
<1>1. ~ReconcileStep
  BY DEF ReconcileStep, At, Fetch, AddFinalizer, DeleteJobs, DeleteConfigMaps, DeleteSecrets,
         RemoveFinalizer, Inspect, Reject, GetJob, WriteObserved, ApplyConfigMap,
         ApplyAuthSecret, DedupHead, RetagGet, RetagPut, WriteDedupHit, CreateJob,
         WriteRunning
<1>2. ~FailOpen /\ ~ClassifyFails /\ ~CallFails
  BY DEF FailOpen, ClassifyFails, CallFails, At
<1>3. CASE Delivery \/ Builds
  BY <1>3 DEF Delivery, SyncCR, TimerFires, SyncJob, Builds, At
<1>4. CASE Users
  BY <1>4 DEF Users, CreateCR, EditSpec, Touch, DeleteCR, UserWrite, Types, TypeOK, At
<1>. QED
  BY <1>1, <1>2, <1>3, <1>4 DEF Unmetered

(* Without dedup, the worker comes to the recording from a transition.     *)
LEMMA Arrivals ==
    ASSUME NoHits, Types, CleanupInv, PhaseInv, Unmetered, ~At("record"),
           w'.point = "record"
    PROVE  w.key \in CRs /\ w'.key = w.key /\ EndsBuild(w.key)
<1>. w \in [point: Points, key: CRs \cup {None}, obj: ImagePatches \cup {None},
            fresh: BOOLEAN, manifest: Images \cup {None}]
  BY DEF Types, TypeOK
<1>0. w' # Idle
  BY DEF Idle
<1>1. ~Delivery /\ ~Builds
  BY DEF Delivery, SyncCR, TimerFires, SyncJob, Builds, At
<1>2. ~Users
  BY DEF Users, CreateCR, EditSpec, Touch, DeleteCR, UserWrite, At
<1>3. ~FailOpen /\ ~ClassifyFails /\ ~CallFails
  <2>1. ~FailOpen /\ ~CallFails
    BY <1>0 DEF FailOpen, CallFails, Error, Return
  <2>2. ClassifyFails => \E o : w' = [w EXCEPT !.point = "observed", !.obj = o]
    BY DEF ClassifyFails, Goto
  <2>. QED
    BY <2>1, <2>2
<1>4. ~ \E k \in CRs : Fetch(k)
  <2>. SUFFICES ASSUME NEW k \in CRs, Fetch(k) PROVE FALSE
    OBVIOUS
  <2>1. w'.point = Entry(crCache[k])
    BY <1>0 DEF Fetch, Idle
  <2>. QED
    BY <2>1 DEF Entry
<1>5. ~DeleteJobs /\ ~DeleteConfigMaps /\ ~DeleteSecrets /\ ~Inspect
  BY DEF DeleteJobs, DeleteConfigMaps, DeleteSecrets, Inspect, Goto, AfterDelete
<1>6. ~AddFinalizer /\ ~RemoveFinalizer /\ ~Reject /\ ~WriteRunning
  BY <1>0 DEF AddFinalizer, RemoveFinalizer, Reject, WriteRunning, Update, Error, Return
<1>7. ~GetJob
  <2>. SUFFICES ASSUME GetJob PROVE FALSE
    OBVIOUS
  <2>1. \E p \in {"configMap", "observed"} : \E o : w' = [w EXCEPT !.point = p, !.obj = o]
    BY <1>0 DEF GetJob, Goto, Return
  <2>. QED
    BY <2>1
<1>8. ~ApplyConfigMap /\ ~ApplyAuthSecret
  BY DEF ApplyConfigMap, ApplyAuthSecret, Goto, AfterConfigMap, AfterAuth
<1>9. ~DedupHead /\ ~RetagGet /\ ~RetagPut /\ ~WriteDedupHit
  BY DEF PhaseInv, HitPoints, DedupHead, RetagGet, RetagPut, WriteDedupHit, At
<1>10. ~CreateJob
  <2>. DEFINE o == [w.obj EXCEPT !.phase = "Running", !.jobName = TRUE,
                                 !.image = Target[w.obj.spec]]
  <2>1. CreateJob => w' = [w EXCEPT !.point = "running", !.obj = o]
    BY <1>0 DEF CreateJob, Goto, Error, Return
  <2>. HIDE DEF o
  <2>. QED
    BY <2>1
<1>11. CASE WriteObserved
  <2>1. At("observed") /\ w.key \in CRs /\ w.obj \in ImagePatches
    BY <1>11, CopyTypes DEF WriteObserved, At
  <2>2. /\ Store(w.key, w.obj)
        /\ RecordsResult(cr[w.key], w.obj)
        /\ w' = [w EXCEPT !.point = "record", !.obj = w.obj]
    BY <1>0, <1>11 DEF WriteObserved, Update, Error, Return, Goto
  <2>3. cr' = [cr EXCEPT ![w.key] = w.obj] /\ cr \in [CRs -> ImagePatches \cup {None}]
    BY <2>2 DEF Store, Types, TypeOK
  <2>4. w.obj.phase \in {"Succeeded", "Failed"} /\ w.obj.phase # cr[w.key].phase
    BY <2>1, <2>2 DEF PhaseInv, RecordsResult
  <2>5. EndsBuild(w.key)
    BY <2>1, <2>3, <2>4, ControllerAssumption DEF EndsBuild, IsTerminal, At
  <2>. QED
    BY <2>1, <2>2, <2>5
<1>. QED
  BY <1>1, <1>2, <1>3, <1>4, <1>5, <1>6, <1>7, <1>8, <1>9, <1>10, <1>11
  DEF Unmetered, ReconcileStep

-----------------------------------------------------------------------------
(* The composition with the metrics adds no behaviour to the reconciler.   *)

LEMMA MeteredStep == [MeteredNext]_meteredVars => [Next]_vars
  BY DEF MeteredNext, meteredVars, Tick, Next, Reconcile, Faults

MeteredInv == Types /\ CleanupInv /\ PhaseInv

LEMMA MeteredHolds == MeteredSpec => []MeteredInv
<1>1. MeteredInit => MeteredInv
  <2>. SUFFICES ASSUME MeteredInit PROVE MeteredInv
    OBVIOUS
  <2>1. Init => w = Idle
    BY DEF Init
  <2>2. Init => PhaseInv
    BY <2>1 DEF Idle, PhaseInv, At, HitPoints
  <2>. QED
    BY <2>2, TypesInit, CleanupInitInv DEF MeteredInit, MeteredInv
<1>2. MeteredInv /\ [MeteredNext]_meteredVars => MeteredInv'
  BY MeteredStep, TypesNext, CleanupNextInv, PhaseNext DEF MeteredInv
<1>. QED
  BY <1>1, <1>2, PTL DEF MeteredSpec

(* What a step does to the count.                                          *)
Counted ==
    \/ RecordBuildResult /\ owed' = [owed EXCEPT ![w.key] = @ - 1]
    \/ /\ Unmetered
       /\ owed' = [k \in CRs |-> IF EndsBuild(k) THEN owed[k] + 1 ELSE owed[k]]
    \/ Crash /\ owed' = owed
    \/ UNCHANGED <<vars, owed>>

LEMMA StepsCount == [MeteredNext]_meteredVars => Counted
  BY DEF MeteredNext, meteredVars, Tick, Counted, Unmetered

-----------------------------------------------------------------------------
(* No result is recorded twice.                                            *)

CountInv ==
    /\ owed \in [CRs -> Int]
    /\ NeverDoubleCounts
    /\ At("record") => owed[w.key] >= 1

LEMMA CountNext ==
    ASSUME NoHits, MeteredInv, CountInv, Counted
    PROVE  CountInv'
<1>1. CASE RecordBuildResult /\ owed' = [owed EXCEPT ![w.key] = @ - 1]
  <2>1. w.key \in CRs /\ owed[w.key] >= 1
    BY <1>1, CopyTypes DEF RecordBuildResult, At, MeteredInv, CountInv
  <2>2. w' = Idle
    BY <1>1 DEF RecordBuildResult, Return
  <2>3. w'.point = "idle"
    BY <2>2 DEF Idle
  <2>. QED
    BY <1>1, <2>1, <2>3 DEF CountInv, NeverDoubleCounts, At
<1>2. CASE /\ Unmetered
           /\ owed' = [k \in CRs |-> IF EndsBuild(k) THEN owed[k] + 1 ELSE owed[k]]
  <2>1. owed' \in [CRs -> Int] /\ \A k \in CRs : owed'[k] >= owed[k]
    BY <1>2 DEF CountInv
  <2>2. CASE At("record")
    <3>1. w'.key = w.key /\ w.key \in CRs
      BY <1>2, <2>2, RecordStays, CopyTypes DEF MeteredInv, At
    <3>. QED
      BY <2>1, <2>2, <3>1 DEF CountInv, NeverDoubleCounts
  <2>3. CASE ~At("record") /\ w'.point = "record"
    <3>1. w.key \in CRs /\ w'.key = w.key /\ EndsBuild(w.key)
      BY <1>2, <2>3, Arrivals DEF MeteredInv
    <3>. QED
      BY <1>2, <2>1, <3>1 DEF CountInv, NeverDoubleCounts
  <2>4. CASE w'.point # "record"
    BY <2>1, <2>4 DEF CountInv, NeverDoubleCounts, At
  <2>. QED
    BY <2>2, <2>3, <2>4
<1>3. CASE Crash /\ owed' = owed
  <2>1. w' = Idle
    BY <1>3 DEF Crash
  <2>2. w'.point = "idle"
    BY <2>1 DEF Idle
  <2>. QED
    BY <1>3, <2>2 DEF CountInv, NeverDoubleCounts, At
<1>4. CASE UNCHANGED <<vars, owed>>
  BY <1>4 DEF vars, CountInv, NeverDoubleCounts, At
<1>. QED
  BY <1>1, <1>2, <1>3, <1>4 DEF Counted

(* With the dedup cache off, or without a registry client, no more build   *)
(* results are recorded for a CR than it has entered terminal phases at    *)
(* the end of builds, however often its reconcile is repeated, interrupted *)
(* or refused: the invariant of the run "metrics" for every value of the   *)
(* constants.  With hits possible it fails (run "hit_recounted").          *)
THEOREM CountedOnce ==
    ASSUME ~(DedupEnabled /\ RegistryClient)
    PROVE  MeteredSpec => []NeverDoubleCounts
<1>1. MeteredInit => CountInv
  <2>. SUFFICES ASSUME MeteredInit PROVE CountInv
    OBVIOUS
  <2>1. w = Idle
    BY DEF MeteredInit, Init
  <2>2. w.point = "idle"
    BY <2>1 DEF Idle
  <2>. QED
    BY <2>2 DEF MeteredInit, CountInv, NeverDoubleCounts, At
<1>2. MeteredInv /\ CountInv /\ [MeteredNext]_meteredVars => CountInv'
  BY StepsCount, CountNext DEF NoHits
<1>3. CountInv => NeverDoubleCounts
  BY DEF CountInv
<1>. QED
  BY <1>1, <1>2, <1>3, MeteredHolds, PTL DEF MeteredSpec

-----------------------------------------------------------------------------
(* Results are lost to crashes and to lost answers only.                   *)

LossInv == owed \in [CRs -> Int] /\ NoResultLost

LEMMA Budgets ==
    ASSUME Types, Unmetered \/ RecordBuildResult
    PROVE  left'["crash"] = left["crash"] /\ left'["lost"] <= left["lost"]
<1>. left["crash"] \in Nat /\ left["lost"] \in Nat
  BY DEF Types, TypeOK, Events
<1>1. ASSUME NEW e \in Events, e # "crash", Spend(e)
      PROVE  left'["crash"] = left["crash"] /\ left'["lost"] <= left["lost"]
  BY <1>1 DEF Spend, Types, TypeOK, Events
<1>2. CASE FailOpen \/ ClassifyFails \/ CallFails
  BY <1>1, <1>2 DEF FailOpen, ClassifyFails, CallFails, Events
<1>3. CASE Users
  BY <1>1, <1>3 DEF Users, CreateCR, EditSpec, Touch, DeleteCR, Events
<1>4. CASE Inspect
  BY <1>1, <1>4 DEF Inspect, Events
<1>5. CASE Delivery \/ Builds \/ RecordBuildResult
  <2>1. left' = left
    BY <1>5 DEF Delivery, SyncCR, TimerFires, SyncJob, Builds, RecordBuildResult
  <2>. QED
    BY <2>1
<1>6. CASE CRWrites
  <2>1. left' = left \/ Spend("lost")
    BY <1>6
    DEF CRWrites, AddFinalizer, RemoveFinalizer, Reject, WriteObserved, WriteDedupHit,
        WriteRunning, Update
  <2>. QED
    BY <1>1, <2>1 DEF Events
<1>7. CASE (\E k \in CRs : Fetch(k)) \/ DeleteJobs \/ DeleteConfigMaps \/ DeleteSecrets
  <2>1. left' = left
    BY <1>7 DEF Fetch, DeleteJobs, DeleteConfigMaps, DeleteSecrets
  <2>. QED
    BY <2>1
<1>8. CASE \/ GetJob \/ ApplyConfigMap \/ ApplyAuthSecret
           \/ DedupHead \/ RetagGet \/ RetagPut \/ CreateJob
  <2>1. left' = left
    BY <1>8
    DEF GetJob, ApplyConfigMap, ApplyAuthSecret, DedupHead, RetagGet, RetagPut, CreateJob
  <2>. QED
    BY <2>1
<1>. QED
  BY <1>2, <1>3, <1>4, <1>5, <1>6, <1>7, <1>8 DEF Unmetered, ReconcileStep, CRWrites

(* The result that the reconcile in progress is about to record for k.     *)
InHand(k) == IF At("record") /\ w.key = k THEN 1 ELSE 0

LEMMA LossNext ==
    ASSUME MeteredInv, LossInv, Counted
    PROVE  LossInv'
<1>1. /\ Limits["crash"] \in Nat /\ Limits["lost"] \in Nat
      /\ left["crash"] \in Nat /\ left["lost"] \in Nat
  BY ControllerAssumption DEF MeteredInv, Types, TypeOK, Events
<1>2. ASSUME NEW k \in CRs
      PROVE  owed[k] \in Int /\ owed[k] <= Spent("crash") + Spent("lost") + InHand(k)
  BY DEF LossInv, NoResultLost, InHand
<1>3. SUFFICES /\ owed' \in [CRs -> Int]
               /\ \A k \in CRs :
                    owed'[k] <= Spent("crash")' + Spent("lost")' + InHand(k)'
  BY DEF LossInv, NoResultLost, InHand
<1>4. CASE RecordBuildResult /\ owed' = [owed EXCEPT ![w.key] = @ - 1]
  <2>1. w.key \in CRs /\ At("record")
    BY <1>4, CopyTypes DEF RecordBuildResult, At, MeteredInv
  <2>2. left'["crash"] = left["crash"] /\ left' = left
    BY <1>4 DEF RecordBuildResult
  <2>3. owed' \in [CRs -> Int]
    BY <1>4, <2>1 DEF LossInv
  <2>4. ASSUME NEW k \in CRs
        PROVE  owed'[k] <= Spent("crash")' + Spent("lost")' + InHand(k)'
    <3>1. Spent("crash")' = Spent("crash") /\ Spent("lost")' = Spent("lost")
      BY <2>2 DEF Spent
    <3>2. Spent("crash") \in Int /\ Spent("lost") \in Int
      BY <1>1 DEF Spent
    <3>3. owed'[k] = owed[k] - InHand(k)
      BY <1>2, <1>4, <2>1 DEF LossInv, InHand
    <3>4. InHand(k) \in {0, 1} /\ InHand(k)' \in {0, 1}
      BY DEF InHand
    <3>. HIDE DEF InHand
    <3>. QED
      BY <1>2, <3>1, <3>2, <3>3, <3>4
  <2>. QED
    BY <2>3, <2>4
<1>5. CASE /\ Unmetered
           /\ owed' = [k \in CRs |-> IF EndsBuild(k) THEN owed[k] + 1 ELSE owed[k]]
  <2>1. owed' \in [CRs -> Int]
    BY <1>2, <1>5
  <2>2. left'["crash"] = left["crash"] /\ left'["lost"] <= left["lost"]
    BY <1>5, Budgets DEF MeteredInv
  <2>3. left' \in [Events -> Nat]
    BY <1>5, TypesNext DEF Unmetered, Next, Reconcile, Faults, MeteredInv, Types, TypeOK
  <2>4. left'["crash"] \in Nat /\ left'["lost"] \in Nat
    BY <2>3 DEF Events
  <2>5. ASSUME NEW k \in CRs
        PROVE  owed'[k] <= Spent("crash")' + Spent("lost")' + InHand(k)'
    <3>1. owed'[k] = IF EndsBuild(k) THEN owed[k] + 1 ELSE owed[k]
      BY <1>5
    <3>2. /\ Spent("crash") \in Int /\ Spent("lost") \in Int
          /\ Spent("crash")' = Spent("crash")
          /\ Spent("lost")' \in Int /\ Spent("lost")' >= Spent("lost")
      BY <1>1, <2>2, <2>4 DEF Spent
    <3>3. InHand(k) \in {0, 1} /\ InHand(k)' \in {0, 1}
      BY DEF InHand
    <3>4. CASE EndsBuild(k)
      <4>1. /\ ~At("record")
            /\ (w'.point = "record" /\ w'.key = k) \/ Spend("lost")
        BY <1>5, <3>4, Endings DEF MeteredInv
      <4>2. InHand(k) = 0
        BY <4>1 DEF InHand
      <4>3. InHand(k)' = 1 \/ Spent("lost")' = Spent("lost") + 1
        <5>1. CASE w'.point = "record" /\ w'.key = k
          BY <5>1 DEF InHand, At
        <5>2. CASE Spend("lost")
          BY <1>1, <5>2 DEF Spend, Spent, MeteredInv, Types, TypeOK, Events
        <5>. QED
          BY <4>1, <5>1, <5>2
      <4>. HIDE DEF InHand
      <4>. QED
        BY <1>2, <3>1, <3>2, <3>3, <3>4, <4>2, <4>3
    <3>5. CASE ~EndsBuild(k)
      <4>1. InHand(k) = 1 => InHand(k)' = 1
        BY <1>5, RecordStays DEF InHand, At, MeteredInv
      <4>. HIDE DEF InHand
      <4>. QED
        BY <1>2, <3>1, <3>2, <3>3, <3>5, <4>1
    <3>. QED
      BY <3>4, <3>5
  <2>. QED
    BY <2>1, <2>5
<1>6. CASE Crash /\ owed' = owed
  <2>1. Spend("crash")
    BY <1>6 DEF Crash
  <2>2. /\ left'["crash"] = left["crash"] - 1
        /\ left'["lost"] = left["lost"]
    BY <2>1 DEF Spend, MeteredInv, Types, TypeOK, Events
  <2>3. ASSUME NEW k \in CRs
        PROVE  owed[k] <= Spent("crash")' + Spent("lost")' + InHand(k)'
    <3>1. Spent("crash")' = Spent("crash") + 1 /\ Spent("lost")' = Spent("lost")
      BY <1>1, <2>2 DEF Spent
    <3>2. Spent("crash") \in Int /\ Spent("lost") \in Int
      BY <1>1 DEF Spent
    <3>3. InHand(k) \in {0, 1} /\ InHand(k)' \in {0, 1}
      BY DEF InHand
    <3>. HIDE DEF InHand
    <3>. QED
      BY <1>2, <3>1, <3>2, <3>3
  <2>. QED
    BY <1>6, <2>3 DEF LossInv
<1>7. CASE UNCHANGED <<vars, owed>>
  <2>1. left' = left /\ w' = w /\ owed' = owed
    BY <1>7 DEF vars
  <2>. QED
    BY <1>2, <2>1 DEF LossInv, Spent, InHand, At
<1>. QED
  BY <1>4, <1>5, <1>6, <1>7 DEF Counted

(* The transitions at the end of builds whose result is not recorded are   *)
(* no more than the crashes and the lost answers so far, and the one that  *)
(* the reconcile in progress is about to record: conflicts, failing calls, *)
(* stale copies and users lose none.  The invariant of the run "metrics"   *)
(* for every value of the constants, with dedup and without.               *)
THEOREM NoneLost == MeteredSpec => []NoResultLost
<1>1. MeteredInit => LossInv
  <2>. SUFFICES ASSUME MeteredInit PROVE LossInv
    OBVIOUS
  <2>1. left = Limits /\ Limits["crash"] \in Nat /\ Limits["lost"] \in Nat
    BY ControllerAssumption DEF MeteredInit, Init, Events
  <2>2. Spent("crash") = 0 /\ Spent("lost") = 0
    BY <2>1 DEF Spent
  <2>. QED
    BY <2>2 DEF MeteredInit, LossInv, NoResultLost
<1>2. MeteredInv /\ LossInv /\ [MeteredNext]_meteredVars => LossInv'
  BY StepsCount, LossNext
<1>3. LossInv => NoResultLost
  BY DEF LossInv
<1>. QED
  BY <1>1, <1>2, <1>3, MeteredHolds, PTL DEF MeteredSpec
=============================================================================
