--------------------------- MODULE CleanupRefinement ---------------------------
(***************************************************************************)
(* The reconciler implements BuildCleanup: every step of the reconciler,   *)
(* its environment and its failures is a Guard, an Acquire, a Release or   *)
(* an Unguard of the abstract protocol, or changes nothing it can see.     *)
(***************************************************************************)
EXTENDS CleanupProofs

KindNames == {"job", "cm", "secret"}

Holders(objects) == {k \in CRs : HolderOf(objects, k)}

LEMMA HeldMembers ==
    /\ heldBar = [k \in CRs |-> {x \in KindNames :
                    \/ x = "job" /\ k \in Holders(job)
                    \/ x = "cm" /\ k \in Holders(cm)
                    \/ x = "secret" /\ k \in Holders(secret)}]
    /\ heldBar' = [k \in CRs |-> {x \in KindNames :
                    \/ x = "job" /\ k \in Holders(job')
                    \/ x = "cm" /\ k \in Holders(cm')
                    \/ x = "secret" /\ k \in Holders(secret')}]
  BY DEF heldBar, KindNames, Holders

LEMMA HeldStutters ==
    ASSUME Holders(job') = Holders(job), Holders(cm') = Holders(cm),
           Holders(secret') = Holders(secret)
    PROVE  heldBar' = heldBar
  BY HeldMembers

LEMMA GuardedStutters ==
    ASSUME \A k \in CRs : Guarded(k)' = Guarded(k)
    PROVE  guardedBar' = guardedBar
  BY DEF Guarded, guardedBar

LEMMA ObjectsUnchanged ==
    ASSUME UNCHANGED <<job, cm, secret>>
    PROVE  heldBar' = heldBar
<1>1. Holders(job') = Holders(job) /\ Holders(cm') = Holders(cm) /\ Holders(secret') = Holders(secret)
  OBVIOUS
<1>. QED
  BY <1>1, HeldStutters

LEMMA CRsUnchanged ==
    ASSUME UNCHANGED cr
    PROVE  guardedBar' = guardedBar
  BY DEF guardedBar, Exists

-----------------------------------------------------------------------------
(* Guard and Unguard.                                                      *)

LEMMA GuardStep ==
    ASSUME Types, NEW k \in CRs, NEW o \in ImagePatches, o.finalizer, Store(k, o)
    PROVE  guardedBar' = guardedBar \cup {k}
<1>1. cr' = [cr EXCEPT ![k] = o] /\ o # None
  BY ControllerAssumption DEF Store
<1>. QED
  BY <1>1 DEF guardedBar, Exists, Types, TypeOK

LEMMA UpdateStep ==
    ASSUME Types, CleanupInv,
           \/ AddFinalizer \/ RemoveFinalizer \/ Reject
           \/ WriteObserved \/ WriteDedupHit \/ WriteRunning
    PROVE  [Cleanup!CleanupNext]_<<guardedBar, heldBar>>
<1>. ~At("idle")
  BY DEF At, AddFinalizer, RemoveFinalizer, Reject, WriteObserved, WriteDedupHit, WriteRunning
<1>1. w.obj \in ImagePatches /\ w.key \in CRs
  BY CopyTypes
<1>2. heldBar' = heldBar
  BY ObjectsUnchanged
  DEF AddFinalizer, RemoveFinalizer, Reject, WriteObserved, WriteDedupHit, WriteRunning,
      buildVars
<1>3. CASE UNCHANGED crVars
  BY <1>2, <1>3, CRsUnchanged DEF crVars
<1>4. CASE AddFinalizer /\ Store(w.key, [w.obj EXCEPT !.finalizer = TRUE])
  <2>1. /\ [w.obj EXCEPT !.finalizer = TRUE] \in ImagePatches
        /\ [w.obj EXCEPT !.finalizer = TRUE].finalizer
    BY <1>1 DEF ImagePatches
  <2>. QED
    BY <1>1, <1>2, <1>4, <2>1, GuardStep DEF Cleanup!CleanupNext, Cleanup!Guard
<1>5. CASE RemoveFinalizer /\ Store(w.key, None)
  <2>1. guardedBar' = guardedBar \ {w.key}
    BY <1>1, <1>5 DEF Store, guardedBar, Exists, Types, TypeOK
  <2>2. heldBar[w.key] = {}
    <3>1. w.key \notin Holders(job) \cup Holders(cm) \cup Holders(secret)
      BY <1>5 DEF RemoveFinalizer, CleanupInv, CleansInOrder, CleaningUp, At,
                  Holders, HolderOf
    <3>. QED
      BY <1>1, <3>1, HeldMembers
  <2>. QED
    BY <1>1, <1>2, <2>1, <2>2 DEF Cleanup!CleanupNext, Cleanup!Unguard
<1>6. CASE /\ Reject \/ WriteObserved \/ WriteDedupHit \/ WriteRunning
           /\ Store(w.key, w.obj)
  <2>1. w.obj.finalizer
    BY <1>6
    DEF CleanupInv, BuildsGuarded, Building, CleaningUp, Points, At,
        Reject, WriteObserved, WriteDedupHit, WriteRunning
  <2>. QED
    BY <1>1, <1>2, <1>6, <2>1, GuardStep DEF Cleanup!CleanupNext, Cleanup!Guard
<1>. QED
  BY <1>3, <1>4, <1>5, <1>6
  DEF AddFinalizer, RemoveFinalizer, Reject, WriteObserved, WriteDedupHit, WriteRunning,
      Update

(* No user gives a CR its finalizer, or removes a CR that has it.          *)
LEMMA UserStep ==
    ASSUME Types, Users
    PROVE  [Cleanup!CleanupNext]_<<guardedBar, heldBar>>
<1>1. heldBar' = heldBar
  BY ObjectsUnchanged DEF Users, CreateCR, EditSpec, Touch, DeleteCR, buildVars
<1>2. ASSUME NEW k \in CRs, NEW o \in ImagePatches \cup {None}, cr' = [cr EXCEPT ![k] = o],
             Guarded(k) <=> o # None /\ o.finalizer
      PROVE  guardedBar' = guardedBar
  BY <1>2, GuardedStutters DEF Guarded, Exists, Types, TypeOK
<1>3. ASSUME NEW k \in CRs, NEW s \in Wanted[k], CreateCR(k, s)
      PROVE  guardedBar' = guardedBar
  <2>1. NewImagePatch(s) \in ImagePatches /\ ~NewImagePatch(s).finalizer
    BY ControllerAssumption, NoneAssumption
    DEF NewImagePatch, ImagePatches, Messages, Phases
  <2>. QED
    BY <1>2, <1>3, <2>1 DEF CreateCR, UserWrite, Store, Guarded, Exists
<1>4. ASSUME NEW k \in CRs, NEW s \in Wanted[k], EditSpec(k, s)
      PROVE  guardedBar' = guardedBar
  <2>1. cr[k] \in ImagePatches /\ cr[k] # None /\ s \in Specs
    BY <1>4, ControllerAssumption DEF EditSpec, Types, TypeOK
  <2>2. /\ [cr[k] EXCEPT !.spec = s] \in ImagePatches
        /\ [cr[k] EXCEPT !.spec = s].finalizer = cr[k].finalizer
        /\ [cr[k] EXCEPT !.spec = s] # None
    BY <2>1, ControllerAssumption DEF ImagePatches
  <2>. QED
    BY <1>2, <1>4, <2>1, <2>2 DEF EditSpec, UserWrite, Store, Guarded, Exists
<1>5. ASSUME NEW k \in CRs, Touch(k)
      PROVE  guardedBar' = guardedBar
  BY <1>5, CRsUnchanged DEF Touch
<1>6. ASSUME NEW k \in CRs, DeleteCR(k)
      PROVE  guardedBar' = guardedBar
  <2>1. cr[k] \in ImagePatches /\ cr[k] # None
    BY <1>6 DEF DeleteCR, Types, TypeOK
  <2>2. /\ [cr[k] EXCEPT !.deleting = TRUE] \in ImagePatches
        /\ [cr[k] EXCEPT !.deleting = TRUE].finalizer = cr[k].finalizer
        /\ [cr[k] EXCEPT !.deleting = TRUE] # None
    BY <2>1, ControllerAssumption DEF ImagePatches
  <2>. QED
    BY <1>2, <1>6, <2>1, <2>2 DEF DeleteCR, UserWrite, Store, Guarded, Exists
<1>. QED
  BY <1>1, <1>3, <1>4, <1>5, <1>6 DEF Users

-----------------------------------------------------------------------------
(* Release and Acquire.                                                    *)

LEMMA HeldShrinks ==
    ASSUME NEW k \in CRs, NEW x \in KindNames,
           Holders(job') = IF x = "job" THEN Holders(job) \ {k} ELSE Holders(job),
           Holders(cm') = IF x = "cm" THEN Holders(cm) \ {k} ELSE Holders(cm),
           Holders(secret') = IF x = "secret" THEN Holders(secret) \ {k} ELSE Holders(secret)
    PROVE  heldBar' = [heldBar EXCEPT ![k] = @ \ {x}]
<1>1. \A j \in CRs : heldBar'[j] = IF j = k THEN heldBar[j] \ {x} ELSE heldBar[j]
  BY HeldMembers DEF KindNames
<1>. QED
  BY <1>1, HeldMembers

LEMMA HeldGrows ==
    ASSUME NEW k \in CRs, NEW x \in KindNames,
           Holders(job') = IF x = "job" THEN Holders(job) \cup {k} ELSE Holders(job),
           Holders(cm') = IF x = "cm" THEN Holders(cm) \cup {k} ELSE Holders(cm),
           Holders(secret') = IF x = "secret" THEN Holders(secret) \cup {k} ELSE Holders(secret)
    PROVE  heldBar' = [heldBar EXCEPT ![k] = @ \cup {x}]
<1>1. \A j \in CRs : heldBar'[j] = IF j = k THEN heldBar[j] \cup {x} ELSE heldBar[j]
  BY HeldMembers DEF KindNames
<1>. QED
  BY <1>1, HeldMembers

(* Who holds what after a DeleteAllOf by the labels of k, and after an     *)
(* object is created, or written again without a change of its labels.     *)
LEMMA Deleted ==
    ASSUME NEW objects, NEW k \in CRs
    PROVE  Holders([n \in Names |-> Kept(k, objects[n])]) = Holders(objects) \ {k}
<1>. DEFINE rest == [n \in Names |-> Kept(k, objects[n])]
<1>1. ASSUME NEW n \in Names, NEW j \in CRs
      PROVE  Labelled(j, rest[n]) <=> Labelled(j, objects[n]) /\ j # k
  BY DEF Labelled, Kept
<1>. HIDE DEF rest
<1>2. ASSUME NEW j \in CRs
      PROVE  HolderOf(rest, j) <=> HolderOf(objects, j) /\ j # k
  BY <1>1 DEF HolderOf
<1>3. Holders(rest) = Holders(objects) \ {k}
  BY <1>2 DEF Holders
<1>. QED
  BY <1>3 DEF rest

LEMMA Put ==
    ASSUME NEW objects, DOMAIN objects = Names, NEW n \in Names,
           NEW o, o # None, o.src \in CRs, objects[n] # None => objects[n].src = o.src
    PROVE  Holders([objects EXCEPT ![n] = o]) = Holders(objects) \cup {o.src}
<1>1. ASSUME NEW j \in CRs
      PROVE  HolderOf([objects EXCEPT ![n] = o], j) <=> HolderOf(objects, j) \/ j = o.src
  BY DEF HolderOf, Labelled
<1>. QED
  BY <1>1 DEF Holders

LEMMA ReleaseStep ==
    ASSUME Types, DeleteJobs \/ DeleteConfigMaps \/ DeleteSecrets
    PROVE  [Cleanup!CleanupNext]_<<guardedBar, heldBar>>
<1>1. w.key \in CRs
  BY CopyTypes DEF DeleteJobs, DeleteConfigMaps, DeleteSecrets, At
<1>2. guardedBar' = guardedBar
  BY CRsUnchanged DEF DeleteJobs, DeleteConfigMaps, DeleteSecrets, crVars
<1>3. CASE DeleteJobs
  <2>1. Holders(job') = Holders(job) \ {w.key}
    BY <1>1, <1>3, Deleted DEF DeleteJobs
  <2>2. Holders(cm') = Holders(cm) /\ Holders(secret') = Holders(secret)
    BY <1>3 DEF DeleteJobs
  <2>3. heldBar' = [heldBar EXCEPT ![w.key] = @ \ {"job"}]
    BY <1>1, <2>1, <2>2, HeldShrinks DEF KindNames
  <2>. QED
    BY <1>1, <1>2, <2>3 DEF Cleanup!CleanupNext, Cleanup!Release
<1>4. CASE DeleteConfigMaps
  <2>1. Holders(cm') = Holders(cm) \ {w.key}
    BY <1>1, <1>4, Deleted DEF DeleteConfigMaps
  <2>2. Holders(job') = Holders(job) /\ Holders(secret') = Holders(secret)
    BY <1>4 DEF DeleteConfigMaps
  <2>3. heldBar' = [heldBar EXCEPT ![w.key] = @ \ {"cm"}]
    BY <1>1, <2>1, <2>2, HeldShrinks DEF KindNames
  <2>. QED
    BY <1>1, <1>2, <2>3 DEF Cleanup!CleanupNext, Cleanup!Release
<1>5. CASE DeleteSecrets
  <2>1. Holders(secret') = Holders(secret) \ {w.key}
    BY <1>1, <1>5, Deleted DEF DeleteSecrets
  <2>2. Holders(job') = Holders(job) /\ Holders(cm') = Holders(cm)
    BY <1>5 DEF DeleteSecrets
  <2>3. heldBar' = [heldBar EXCEPT ![w.key] = @ \ {"secret"}]
    BY <1>1, <2>1, <2>2, HeldShrinks DEF KindNames
  <2>. QED
    BY <1>1, <1>2, <2>3 DEF Cleanup!CleanupNext, Cleanup!Release
<1>. QED
  BY <1>3, <1>4, <1>5

(* A ConfigMap or a Secret that is there keeps its labels.                 *)
LEMMA AppliedLabels ==
    ASSUME NEW file, file # None => file \in Files, NEW k \in CRs, NEW s \in Specs
    PROVE  /\ Applied(file, k, s) # None
           /\ Applied(file, k, s).src \in CRs
           /\ Applied(file, k, s).src = IF file = None THEN k ELSE file.src
<1>1. Applied(file, k, s) \in Files
  BY FileTypes
<1>2. Applied(file, k, s) # None /\ Applied(file, k, s).src \in CRs
  BY <1>1, NoneAssumption DEF Files
<1>. QED
  BY <1>2 DEF Applied, Files

LEMMA AcquireStep ==
    ASSUME Types, CleanupInv, ApplyConfigMap \/ ApplyAuthSecret \/ CreateJob
    PROVE  [Cleanup!CleanupNext]_<<guardedBar, heldBar>>
<1>. ~At("idle")
  BY DEF ApplyConfigMap, ApplyAuthSecret, CreateJob, At
<1>1. w.key \in CRs /\ w.obj.spec \in Specs /\ Me \in Names
  BY CopyTypes
<1>2. guardedBar' = guardedBar
  BY CRsUnchanged DEF ApplyConfigMap, ApplyAuthSecret, CreateJob, crVars
<1>3. w.key \in guardedBar
  <2>1. w.point \in Building
    BY DEF ApplyConfigMap, ApplyAuthSecret, CreateJob, At, Building, CleaningUp, Points
  <2>. QED
    BY <1>1, <2>1 DEF CleanupInv, BuildsGuarded, Guarded, guardedBar
<1>4. /\ job \in [Names -> Jobs \cup {None}]
      /\ cm \in [Names -> Files \cup {None}]
      /\ secret \in [Names -> Files \cup {None}]
  BY DEF Types, TypeOK, BuildTypeOK
<1>5. ASSUME NEW x \in KindNames, heldBar' = [heldBar EXCEPT ![w.key] = @ \cup {x}]
      PROVE  Cleanup!CleanupNext
  BY <1>1, <1>2, <1>3, <1>5 DEF Cleanup!CleanupNext, Cleanup!Acquire, KindNames
<1>6. CASE ApplyConfigMap
  <2>. DEFINE o == Applied(cm[Me], w.key, w.obj.spec)
  <2>1. cm' = [cm EXCEPT ![Me] = o]
    BY <1>6 DEF ApplyConfigMap
  <2>2. /\ o # None /\ o.src \in CRs
        /\ o.src = IF cm[Me] = None THEN w.key ELSE cm[Me].src
    BY <1>1, <1>4, AppliedLabels
  <2>. HIDE DEF o
  <2>3. Holders(cm') = Holders(cm) \cup {o.src}
    BY <1>1, <1>4, <2>1, <2>2, Put
  <2>4. o.src = w.key \/ o.src \in Holders(cm)
    BY <1>1, <2>2 DEF Holders, HolderOf, Labelled
  <2>5. Holders(cm') = Holders(cm) \cup {w.key} \/ Holders(cm') = Holders(cm)
    BY <2>3, <2>4
  <2>6. Holders(job') = Holders(job) /\ Holders(secret') = Holders(secret)
    BY <1>6 DEF ApplyConfigMap
  <2>. QED
    BY <1>1, <1>2, <1>5, <2>6, <2>5, HeldGrows, HeldStutters DEF KindNames
<1>7. CASE ApplyAuthSecret
  <2>. DEFINE o == Applied(secret[Me], w.key, w.obj.spec)
  <2>1. secret' = [secret EXCEPT ![Me] = o]
    BY <1>7 DEF ApplyAuthSecret
  <2>2. /\ o # None /\ o.src \in CRs
        /\ o.src = IF secret[Me] = None THEN w.key ELSE secret[Me].src
    BY <1>1, <1>4, AppliedLabels
  <2>. HIDE DEF o
  <2>3. Holders(secret') = Holders(secret) \cup {o.src}
    BY <1>1, <1>4, <2>1, <2>2, Put
  <2>4. o.src = w.key \/ o.src \in Holders(secret)
    BY <1>1, <2>2 DEF Holders, HolderOf, Labelled
  <2>5. Holders(secret') = Holders(secret) \cup {w.key} \/ Holders(secret') = Holders(secret)
    BY <2>3, <2>4
  <2>6. Holders(job') = Holders(job) /\ Holders(cm') = Holders(cm)
    BY <1>7 DEF ApplyAuthSecret
  <2>. QED
    BY <1>1, <1>2, <1>5, <2>6, <2>5, HeldGrows, HeldStutters DEF KindNames
<1>8. CASE CreateJob
  <2>. DEFINE j == ConstructJob(w.key, w.obj.spec, ConsultsDedup(w.obj.spec))
  <2>1. j.src = w.key /\ j # None
    <3>1. j \in Jobs
      BY <1>1, ControllerAssumption DEF ConstructJob, ConsultsDedup, Jobs
    <3>. QED
      BY <3>1, NoneAssumption DEF ConstructJob
  <2>2. job' = job \/ (job[Me] = None /\ job' = [job EXCEPT ![Me] = j])
    BY <1>8 DEF CreateJob
  <2>. HIDE DEF j
  <2>3. Holders(job') = Holders(job) \cup {w.key} \/ Holders(job') = Holders(job)
    BY <1>1, <1>4, <2>1, <2>2, Put
  <2>4. Holders(cm') = Holders(cm) /\ Holders(secret') = Holders(secret)
    BY <1>8 DEF CreateJob
  <2>. QED
    BY <1>1, <1>2, <1>5, <2>3, <2>4, HeldGrows, HeldStutters DEF KindNames
<1>. QED
  BY <1>6, <1>7, <1>8

-----------------------------------------------------------------------------
(* Everything else leaves the finalizers and the labels alone.             *)

(* The Job of a Pod that starts or ends stays the Job of the same CR.      *)
LEMMA BuildStepStutters ==
    ASSUME Types, Builds
    PROVE  UNCHANGED <<guardedBar, heldBar>>
<1>1. guardedBar' = guardedBar
  BY CRsUnchanged DEF Builds, crVars
<1>2. ASSUME NEW m \in Names, NEW s \in {"active", "succeeded", "failed"}, job[m] # None,
             job' = [job EXCEPT ![m].state = s]
      PROVE  Holders(job') = Holders(job)
  <2>1. job[m] \in Jobs
    BY <1>2 DEF Types, TypeOK, BuildTypeOK
  <2>. DEFINE j == [job[m] EXCEPT !.state = s]
  <2>2. j \in Jobs /\ j.src = job[m].src /\ j.src \in CRs
    BY <1>2, <2>1 DEF Jobs
  <2>3. j # None
    BY <2>2, NoneAssumption
  <2>4. job' = [job EXCEPT ![m] = j] /\ DOMAIN job = Names
    BY <1>2 DEF Types, TypeOK, BuildTypeOK
  <2>. HIDE DEF j
  <2>5. Holders(job') = Holders(job) \cup {j.src}
    BY <2>2, <2>3, <2>4, Put
  <2>6. j.src \in Holders(job)
    BY <1>2, <2>2 DEF Holders, HolderOf, Labelled
  <2>. QED
    BY <2>5, <2>6
<1>3. ASSUME NEW n \in Names, PodStarts(n)
      PROVE  heldBar' = heldBar
  BY <1>2, <1>3, HeldStutters DEF PodStarts
<1>4. ASSUME NEW n \in Names, NEW g \in Slots, pod[n][g] # None, g = "job"
      PROVE  job[n] # None
  BY <1>4 DEF Types, PodShape
<1>5. ASSUME NEW n \in Names, NEW g \in Slots, PodSucceeds(n, g)
      PROVE  heldBar' = heldBar
  <2>1. Holders(job') = Holders(job)
    BY <1>2, <1>4, <1>5 DEF PodSucceeds
  <2>. QED
    BY <1>5, <2>1, HeldStutters DEF PodSucceeds
<1>6. ASSUME NEW n \in Names, NEW g \in Slots, NEW c \in Causes, PodFails(n, g, c)
      PROVE  heldBar' = heldBar
  <2>1. Holders(job') = Holders(job)
    BY <1>2, <1>4, <1>6 DEF PodFails
  <2>. QED
    BY <1>6, <2>1, HeldStutters DEF PodFails
<1>7. ASSUME NEW n \in Names, NEW g \in Slots,
             PodMounts(n, g) \/ PodPushes(n, g) \/ PodCollected(n, g)
      PROVE  heldBar' = heldBar
  BY <1>7, ObjectsUnchanged DEF PodMounts, PodPushes, PodCollected
<1>. QED
  BY <1>1, <1>3, <1>5, <1>6, <1>7 DEF Builds, BuildNext

LEMMA OtherStepStutters ==
    ASSUME \/ \E k \in CRs : Fetch(k)
           \/ Inspect \/ GetJob \/ DedupHead \/ RetagGet \/ RetagPut
           \/ RecordBuildResult \/ Faults \/ Delivery \/ UNCHANGED vars
    PROVE  UNCHANGED <<guardedBar, heldBar>>
<1>1. cr' = cr
  BY OthersKeepCRs
<1>2. UNCHANGED <<job, cm, secret>>
  <2>1. CASE Faults
    BY <2>1 DEF Faults, FailOpen, ClassifyFails, CallFails, Crash, buildVars
  <2>2. CASE Delivery
    BY <2>2 DEF Delivery, SyncCR, TimerFires, SyncJob, buildVars
  <2>3. CASE \/ \E k \in CRs : Fetch(k)
             \/ Inspect \/ GetJob \/ DedupHead \/ RetagGet
             \/ RecordBuildResult \/ UNCHANGED vars
    BY <2>3
    DEF Fetch, Inspect, GetJob, DedupHead, RetagGet, RecordBuildResult, vars, buildVars
  <2>4. CASE RetagPut
    BY <2>4 DEF RetagPut
  <2>. QED
    BY <2>1, <2>2, <2>3, <2>4
<1>. QED
  BY <1>1, <1>2, CRsUnchanged, ObjectsUnchanged

-----------------------------------------------------------------------------
(* The reconciler, with its stale caches, lost updates, failed calls and   *)
(* crashes, implements the clean-up protocol: a CR acquires build objects  *)
(* only while its finalizer guards it, and is unguarded only when it holds *)
(* none.  The refinement that the run "recreate" checks, for every value   *)
(* of the constants.                                                       *)
THEOREM CleanupImplemented == Spec => ImplementsCleanup
<1>1. Types /\ CleanupInv => Cleanup!CleanupInit
  <2>. SUFFICES ASSUME Types, CleanupInv
                PROVE  Cleanup!CleanupInit
    OBVIOUS
  <2>1. guardedBar \in SUBSET CRs
    BY DEF guardedBar
  <2>2. heldBar \in [CRs -> SUBSET KindNames]
    BY HeldMembers
  <2>3. ASSUME NEW k \in CRs \ guardedBar
        PROVE  heldBar[k] = {}
    <3>1. k \notin Holders(job) \cup Holders(cm) \cup Holders(secret)
      BY DEF CleanupInv, NoOrphanedResources, guardedBar, Holders, HolderOf, Labelled
    <3>. QED
      BY <3>1, HeldMembers
  <2>. QED
    BY <2>1, <2>2, <2>3 DEF Cleanup!CleanupInit, KindNames
<1>2. Types /\ CleanupInv /\ [Next]_vars => [Cleanup!CleanupNext]_<<guardedBar, heldBar>>
  BY UpdateStep, UserStep, ReleaseStep, AcquireStep, BuildStepStutters, OtherStepStutters
  DEF Next, Reconcile, ReconcileStep
<1>3. Cleanup!CleanupSpec <=>
          Cleanup!CleanupInit /\ [][Cleanup!CleanupNext]_<<guardedBar, heldBar>>
  BY DEF Cleanup!CleanupSpec, Cleanup!cleanupVars
<1>. QED
  BY <1>1, <1>2, <1>3, CleanupHolds, PTL DEF Spec, ImplementsCleanup

=============================================================================
