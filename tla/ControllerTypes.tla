---------------------------- MODULE ControllerTypes ----------------------------
(***************************************************************************)
(* Type correctness of the reconciler and of the build namespace.  TypeOK  *)
(* is not inductive: a Pod may only finish a Job that is there, it may     *)
(* only push what it has mounted, and a step of the worker may only use    *)
(* the copy of the CR that it has fetched.                                 *)
(***************************************************************************)
EXTENDS ReconcileProperties, TLAPS

PodShape ==
    \A n \in Names :
        /\ pod[n]["job"] # None => job[n] # None
        /\ \A g \in Slots :
              pod[n][g] # None /\ pod[n][g].stage \in {"running", "pushed"}
                  => pod[n][g].mounted \in Specs

WorkerShape == ~At("idle") => w.key \in CRs /\ w.obj \in ImagePatches

Types == TypeOK /\ PodShape /\ WorkerShape

-----------------------------------------------------------------------------
(* The copies of a CR that the reconciler computes are CRs again, and      *)
(* differ from the original in the status only, or in the finalizer.       *)

SameMeta(o, p) ==
    /\ p \in ImagePatches
    /\ p.spec = o.spec
    /\ p.deleting = o.deleting
    /\ p.finalizer = o.finalizer

LEMMA ClassifyType ==
    ASSUME BuildTypeOK, NEW n \in Names
    PROVE  Classify(n) \in FailureLabels
<1>1. /\ pod[n]["job"] \in Pods \cup {None}
      /\ pod[n]["orphan"] \in Pods \cup {None}
  BY DEF BuildTypeOK, Slots
<1>2. NewestPod(n) # None => NewestPod(n) \in Pods
  BY <1>1 DEF NewestPod
<1>3. NewestPod(n) \in Pods => NewestPod(n).log \in Causes \cup {None}
  BY DEF Pods
<1>. QED
  BY <1>2, <1>3, NamesAssumption DEF Classify, FailureLabels

LEMMA ObservedMeta ==
    ASSUME TypeOK, w.key \in CRs, NEW o \in ImagePatches, NEW j \in Jobs
    PROVE  SameMeta(o, Observed(o, j))
<1>1. Me \in Names
  BY NamesAssumption DEF Me
<1>2. FailureMessage(o) \in FailureLabels
  BY <1>1, ClassifyType DEF FailureMessage, TypeOK
<1>3. FailureMessage(o) \in Messages
  BY <1>2 DEF Messages
<1>. QED
  BY <1>3 DEF Observed, SameMeta, ImagePatches, Jobs, Messages, Phases

LEMMA DedupHitMeta ==
    ASSUME NEW o \in ImagePatches
    PROVE  SameMeta(o, DedupHit(o))
  BY DEF DedupHit, SameMeta, ImagePatches, Messages, Refs, Phases

LEMMA RejectMeta ==
    ASSUME NEW o \in ImagePatches
    PROVE  SameMeta(o, [o EXCEPT !.phase = "Failed", !.message = "ImageOSNotSupported"])
  BY DEF SameMeta, ImagePatches, Messages, FailureLabels, Phases

LEMMA RunningMeta ==
    ASSUME NEW o \in ImagePatches
    PROVE  SameMeta(o, [o EXCEPT !.phase = "Running", !.jobName = TRUE,
                                 !.image = Target[o.spec]])
  BY DEF SameMeta, ImagePatches, Messages, Refs, Phases

LEMMA MetaEdits ==
    ASSUME NEW o \in ImagePatches, NEW s \in Specs
    PROVE  /\ [o EXCEPT !.finalizer = TRUE] \in ImagePatches
           /\ [o EXCEPT !.deleting = TRUE] \in ImagePatches
           /\ [o EXCEPT !.spec = s] \in ImagePatches
  BY DEF ImagePatches

-----------------------------------------------------------------------------
(* The parts of the state that the worker's calls change.                  *)

CRTypes ==
    /\ cr \in [CRs -> ImagePatches \cup {None}]
    /\ crCache \in [CRs -> ImagePatches \cup {None}]
    /\ crLag \subseteq CRs

WorkerTypes ==
    /\ timers \subseteq CRs
    /\ w \in [point: Points, key: CRs \cup {None}, obj: ImagePatches \cup {None},
              fresh: BOOLEAN, manifest: Images \cup {None}]
    /\ WorkerShape

LEMMA GotoTypes ==
    ASSUME Types, ~At("idle"), NEW p \in Points \ {"idle"}, NEW o \in ImagePatches,
           Goto(p, o)
    PROVE  WorkerTypes'
  BY DEF Types, TypeOK, WorkerShape, WorkerTypes, Goto, At

LEMMA ReturnTypes ==
    ASSUME Types, ~At("idle"), NEW again, Return(again)
    PROVE  WorkerTypes'
<1>1. w.key \in CRs
  BY DEF Types, WorkerShape
<1>2. Idle \in [point: Points, key: CRs \cup {None}, obj: ImagePatches \cup {None},
                fresh: BOOLEAN, manifest: Images \cup {None}]
  BY DEF Idle, Points
<1>. QED
  BY <1>1, <1>2 DEF Types, TypeOK, WorkerShape, WorkerTypes, Return, Idle, At

LEMMA StoreTypes ==
    ASSUME Types, NEW k \in CRs, NEW o \in ImagePatches \cup {None}, Store(k, o)
    PROVE  CRTypes'
  BY DEF Types, TypeOK, CRTypes, Store

(* The copy of the worker is a CR and its name is one.                     *)
LEMMA CopyTypes ==
    ASSUME Types, ~At("idle")
    PROVE  /\ w.key \in CRs
           /\ w.obj \in ImagePatches
           /\ w.obj.spec \in Specs
           /\ Me \in Names
  BY NamesAssumption DEF Types, WorkerShape, Me, ImagePatches

-----------------------------------------------------------------------------
(* Pods, Jobs and the registry.                                            *)

Mounted(p) == p.stage \in {"running", "pushed"} => p.mounted \in Specs

(* A Pod takes a step, its Job at most changes.                            *)
LEMMA PodStepTypes ==
    ASSUME BuildTypeOK, PodShape, NEW n \in Names, NEW g \in Slots,
           NEW p \in Pods, Mounted(p), pod' = [pod EXCEPT ![n][g] = p],
           job' \in [Names -> Jobs \cup {None}],
           \A m \in Names : job[m] # None => job'[m] # None,
           g = "job" => job'[n] # None
    PROVE  pod' \in [Names -> [Slots -> Pods \cup {None}]] /\ PodShape'
<1>1. pod' \in [Names -> [Slots -> Pods \cup {None}]]
  BY DEF BuildTypeOK
<1>2. ASSUME NEW m \in Names, NEW h \in Slots
      PROVE  pod'[m][h] = IF m = n /\ h = g THEN p ELSE pod[m][h]
  BY DEF BuildTypeOK
<1>3. ASSUME NEW m \in Names
      PROVE  pod'[m]["job"] # None => job'[m] # None
  BY <1>2 DEF PodShape, Slots
<1>4. ASSUME NEW m \in Names, NEW h \in Slots, pod'[m][h] # None,
             pod'[m][h].stage \in {"running", "pushed"}
      PROVE  pod'[m][h].mounted \in Specs
  <2>1. CASE m = n /\ h = g
    BY <2>1, <1>2, <1>4 DEF Mounted
  <2>2. CASE ~(m = n /\ h = g)
    <3>1. pod'[m][h] = pod[m][h]
      BY <2>2, <1>2
    <3>. QED
      BY <3>1, <1>4 DEF PodShape
  <2>. QED
    BY <2>1, <2>2
<1>. QED
  BY <1>1, <1>3, <1>4 DEF PodShape

(* A Job whose Pod ends records it in its state.                           *)
LEMMA JobStepTypes ==
    ASSUME BuildTypeOK, PodShape, NEW n \in Names, pod[n]["job"] # None,
           NEW s \in {"succeeded", "failed"},
           job' = [job EXCEPT ![n].state = s]
    PROVE  /\ job' \in [Names -> Jobs \cup {None}]
           /\ \A m \in Names : job[m] # None => job'[m] # None
           /\ job'[n] # None
<1>1. job[n] \in Jobs
  BY DEF BuildTypeOK, PodShape
<1>2. [job[n] EXCEPT !.state = s] \in Jobs
  BY <1>1 DEF Jobs
<1>. QED
  BY <1>2, NoneAssumption DEF BuildTypeOK

LEMMA BuildStepTypes ==
    ASSUME BuildTypeOK, PodShape, BuildNext
    PROVE  BuildTypeOK' /\ PodShape'
<1>1. ASSUME NEW n \in Names, PodStarts(n)
      PROVE  BuildTypeOK' /\ PodShape'
  <2>1. job[n] \in Jobs
    BY <1>1 DEF BuildTypeOK, PodStarts
  <2>2. [job[n] EXCEPT !.state = "active"] \in Jobs
    BY <2>1 DEF Jobs
  <2>3. [spec |-> job[n].spec, auth |-> job[n].auth, dedup |-> job[n].dedup,
         mounted |-> None, stage |-> "waiting", log |-> None] \in Pods
    BY <2>1 DEF Jobs, Pods
  <2>4. /\ job' \in [Names -> Jobs \cup {None}]
        /\ \A m \in Names : job[m] # None => job'[m] # None
        /\ job'[n] # None
    BY <1>1, <2>2, NoneAssumption DEF BuildTypeOK, PodStarts
  <2>5. pod' \in [Names -> [Slots -> Pods \cup {None}]] /\ PodShape'
    BY <1>1, <2>3, <2>4, PodStepTypes DEF PodStarts, Slots, Mounted
  <2>. QED
    BY <1>1, <2>4, <2>5 DEF BuildTypeOK, PodStarts
<1>2. ASSUME NEW n \in Names, NEW g \in Slots, PodMounts(n, g)
      PROVE  BuildTypeOK' /\ PodShape'
  <2>1. pod[n][g] \in Pods /\ cm[n].spec \in Specs
    BY <1>2 DEF BuildTypeOK, PodMounts, Files
  <2>2. [pod[n][g] EXCEPT !.stage = "running", !.mounted = cm[n].spec] \in Pods
    BY <2>1 DEF Pods
  <2>3. pod' = [pod EXCEPT ![n][g] =
                  [pod[n][g] EXCEPT !.stage = "running", !.mounted = cm[n].spec]]
    BY <1>2 DEF PodMounts, BuildTypeOK
  <2>4. Mounted([pod[n][g] EXCEPT !.stage = "running", !.mounted = cm[n].spec])
    BY <2>1 DEF Mounted, Pods
  <2>5. job' = job /\ (g = "job" => job[n] # None)
    BY <1>2 DEF PodMounts, PodShape
  <2>6. pod' \in [Names -> [Slots -> Pods \cup {None}]] /\ PodShape'
    BY <2>2, <2>3, <2>4, <2>5, PodStepTypes DEF BuildTypeOK
  <2>. QED
    BY <1>2, <2>6 DEF BuildTypeOK, PodMounts
<1>3. ASSUME NEW n \in Names, NEW g \in Slots, PodPushes(n, g)
      PROVE  BuildTypeOK' /\ PodShape'
  <2>1. pod[n][g] \in Pods /\ pod[n][g].mounted \in Specs
    BY <1>3 DEF BuildTypeOK, PodPushes, PodShape
  <2>2. /\ [pod[n][g] EXCEPT !.stage = "pushed"] \in Pods
        /\ Mounted([pod[n][g] EXCEPT !.stage = "pushed"])
    BY <2>1 DEF Pods, Mounted
  <2>3. pod' = [pod EXCEPT ![n][g] = [pod[n][g] EXCEPT !.stage = "pushed"]]
    BY <1>3 DEF PodPushes, BuildTypeOK
  <2>4. job' = job /\ (g = "job" => job[n] # None)
    BY <1>3 DEF PodPushes, PodShape
  <2>5. pod' \in [Names -> [Slots -> Pods \cup {None}]] /\ PodShape'
    BY <2>2, <2>3, <2>4, PodStepTypes DEF BuildTypeOK
  <2>6. Image[pod[n][g].mounted] \in Images
    BY <2>1 DEF Images
  <2>. QED
    BY <1>3, <2>5, <2>6 DEF BuildTypeOK, PodPushes
<1>4. ASSUME NEW n \in Names, NEW g \in Slots, PodSucceeds(n, g)
      PROVE  BuildTypeOK' /\ PodShape'
  <2>1. pod[n][g] \in Pods /\ pod[n][g].mounted \in Specs
    BY <1>4 DEF BuildTypeOK, PodSucceeds, PodShape
  <2>2. /\ [pod[n][g] EXCEPT !.stage = "done"] \in Pods
        /\ Mounted([pod[n][g] EXCEPT !.stage = "done"])
    BY <2>1 DEF Pods, Mounted
  <2>3. pod' = [pod EXCEPT ![n][g] = [pod[n][g] EXCEPT !.stage = "done"]]
    BY <1>4 DEF PodSucceeds, BuildTypeOK
  <2>4. /\ job' \in [Names -> Jobs \cup {None}]
        /\ \A m \in Names : job[m] # None => job'[m] # None
        /\ g = "job" => job'[n] # None
    <3>1. CASE g = "job"
      BY <3>1, <1>4, JobStepTypes DEF PodSucceeds
    <3>2. CASE g # "job"
      BY <3>2, <1>4 DEF PodSucceeds, BuildTypeOK
    <3>. QED
      BY <3>1, <3>2
  <2>5. pod' \in [Names -> [Slots -> Pods \cup {None}]] /\ PodShape'
    BY <2>2, <2>3, <2>4, PodStepTypes
  <2>6. registry' \in [Refs -> Images \cup {None}]
    BY <1>4, <2>1 DEF BuildTypeOK, PodSucceeds, Images
  <2>. QED
    BY <1>4, <2>4, <2>5, <2>6 DEF BuildTypeOK, PodSucceeds
<1>5. ASSUME NEW n \in Names, NEW g \in Slots, NEW c \in Causes, PodFails(n, g, c)
      PROVE  BuildTypeOK' /\ PodShape'
  <2>1. pod[n][g] \in Pods
    BY <1>5 DEF BuildTypeOK, PodFails
  <2>2. /\ [pod[n][g] EXCEPT !.stage = "failed", !.log = c] \in Pods
        /\ Mounted([pod[n][g] EXCEPT !.stage = "failed", !.log = c])
    BY <2>1 DEF Pods, Mounted
  <2>3. pod' = [pod EXCEPT ![n][g] =
                  [pod[n][g] EXCEPT !.stage = "failed", !.log = c]]
    BY <1>5 DEF PodFails, BuildTypeOK
  <2>4. /\ job' \in [Names -> Jobs \cup {None}]
        /\ \A m \in Names : job[m] # None => job'[m] # None
        /\ g = "job" => job'[n] # None
    <3>1. CASE g = "job"
      BY <3>1, <1>5, JobStepTypes DEF PodFails
    <3>2. CASE g # "job"
      BY <3>2, <1>5 DEF PodFails, BuildTypeOK
    <3>. QED
      BY <3>1, <3>2
  <2>5. pod' \in [Names -> [Slots -> Pods \cup {None}]] /\ PodShape'
    BY <2>2, <2>3, <2>4, PodStepTypes
  <2>. QED
    BY <1>5, <2>4, <2>5 DEF BuildTypeOK, PodFails
<1>6. ASSUME NEW n \in Names, NEW g \in Slots, PodCollected(n, g)
      PROVE  BuildTypeOK' /\ PodShape'
  BY <1>6 DEF BuildTypeOK, PodShape, PodCollected, Slots
<1>. QED
  BY <1>1, <1>2, <1>3, <1>4, <1>5, <1>6 DEF BuildNext, Slots

-----------------------------------------------------------------------------
(* The steps of the worker.                                                *)

RestTypes ==
    /\ jobCache \in [Names -> Jobs \cup {None}]
    /\ queue \subseteq CRs
    /\ left \in [Events -> Nat]

LEMMA TypesParts ==
    /\ Types <=> BuildTypeOK /\ PodShape /\ CRTypes /\ WorkerTypes /\ RestTypes
    /\ Types' <=> BuildTypeOK' /\ PodShape' /\ CRTypes' /\ WorkerTypes' /\ RestTypes'
  BY DEF Types, TypeOK, CRTypes, WorkerTypes, RestTypes

LEMMA BuildUnchanged ==
    ASSUME Types, UNCHANGED buildVars
    PROVE  BuildTypeOK' /\ PodShape'
  BY DEF Types, TypeOK, buildVars, BuildTypeOK, PodShape

LEMMA CRUnchanged ==
    ASSUME Types, UNCHANGED crVars
    PROVE  CRTypes'
  BY DEF Types, TypeOK, crVars, CRTypes

LEMMA RestUnchanged ==
    ASSUME Types, UNCHANGED <<jobCache, queue, left>>
    PROVE  RestTypes'
  BY DEF Types, TypeOK, RestTypes

LEMMA WorkerUnchanged ==
    ASSUME Types, UNCHANGED <<timers, w>>
    PROVE  WorkerTypes'
  BY DEF Types, TypeOK, WorkerTypes, WorkerShape, At

(* Users and timers move the keys in the queue, never the worker.          *)
LEMMA QueueTypes ==
    ASSUME Types, NEW S \in SUBSET CRs, Enqueue(S), UNCHANGED <<jobCache, left>>
    PROVE  RestTypes'
  BY DEF Types, TypeOK, RestTypes, Enqueue

LEMMA SpendTypes ==
    ASSUME Types, NEW e \in Events, Spend(e), UNCHANGED <<jobCache, queue>>
    PROVE  RestTypes'
  BY DEF Types, TypeOK, RestTypes, Spend

LEMMA EntryTypes ==
    ASSUME NEW o \in ImagePatches \cup {None}
    PROVE  Entry(o) \in Points /\ (Entry(o) # "idle" => o \in ImagePatches)
  BY NoneAssumption DEF Entry, Points, ImagePatches

LEMMA FetchTypes ==
    ASSUME Types, NEW k \in CRs, Fetch(k)
    PROVE  Types'
<1>1. Entry(crCache[k]) \in Points /\ (Entry(crCache[k]) # "idle" => crCache[k] \in ImagePatches)
  BY EntryTypes DEF Types, TypeOK
<1>2. WorkerTypes'
  <2>1. CASE Entry(crCache[k]) = "idle"
    BY <2>1 DEF Fetch, Idle, WorkerTypes, WorkerShape, Types, TypeOK, At, Points
  <2>2. CASE Entry(crCache[k]) # "idle"
    BY <2>2, <1>1 DEF Fetch, Idle, WorkerTypes, WorkerShape, Types, TypeOK, At
  <2>. QED
    BY <2>1, <2>2
<1>3. RestTypes'
  BY DEF Fetch, Types, TypeOK, RestTypes
<1>4. UNCHANGED buildVars /\ UNCHANGED crVars
  BY DEF Fetch
<1>. QED
  BY <1>2, <1>3, <1>4, BuildUnchanged, CRUnchanged, TypesParts

(* A step that writes at most the CR.                                      *)
LEMMA UpdateTypes ==
    ASSUME Types, ~At("idle"), NEW o \in ImagePatches \cup {None},
           Store(w.key, o) \/ UNCHANGED crVars, WorkerTypes',
           UNCHANGED left \/ Spend("lost"),
           UNCHANGED <<buildVars, jobCache, queue>>
    PROVE  Types'
<1>1. w.key \in CRs
  BY CopyTypes
<1>2. CRTypes'
  BY <1>1, StoreTypes, CRUnchanged
<1>3. RestTypes'
  BY RestUnchanged, SpendTypes DEF Events
<1>. QED
  BY <1>2, <1>3, BuildUnchanged, TypesParts

LEMMA CRWriteTypes ==
    ASSUME Types,
           \/ AddFinalizer \/ RemoveFinalizer \/ Reject
           \/ WriteObserved \/ WriteDedupHit \/ WriteRunning
    PROVE  Types'
<1>. ~At("idle")
  BY DEF At, AddFinalizer, RemoveFinalizer, Reject, WriteObserved, WriteDedupHit, WriteRunning
<1>. w.obj \in ImagePatches
  BY CopyTypes
<1>1. CASE AddFinalizer
  <2>1. WorkerTypes'
    BY <1>1, ReturnTypes DEF AddFinalizer, Update, Error
  <2>2. [w.obj EXCEPT !.finalizer = TRUE] \in ImagePatches
    BY DEF ImagePatches
  <2>. QED
    BY <1>1, <2>1, <2>2, UpdateTypes DEF AddFinalizer, Update
<1>2. CASE RemoveFinalizer
  <2>1. WorkerTypes'
    BY <1>2, ReturnTypes DEF RemoveFinalizer, Update, Error
  <2>. QED
    BY <1>2, <2>1, UpdateTypes DEF RemoveFinalizer, Update
<1>3. CASE Reject
  <2>1. WorkerTypes'
    BY <1>3, ReturnTypes DEF Reject, Update, Error
  <2>. QED
    BY <1>3, <2>1, UpdateTypes DEF Reject, Update
<1>4. CASE WriteObserved
  <2>1. WorkerTypes'
    BY <1>4, ReturnTypes, GotoTypes DEF WriteObserved, Update, Error, Points
  <2>. QED
    BY <1>4, <2>1, UpdateTypes DEF WriteObserved, Update
<1>5. CASE WriteDedupHit
  <2>1. WorkerTypes'
    BY <1>5, ReturnTypes, GotoTypes DEF WriteDedupHit, Update, Error, Points
  <2>. QED
    BY <1>5, <2>1, UpdateTypes DEF WriteDedupHit, Update
<1>6. CASE WriteRunning
  <2>1. WorkerTypes'
    BY <1>6, ReturnTypes DEF WriteRunning, Update, Error
  <2>. QED
    BY <1>6, <2>1, UpdateTypes DEF WriteRunning, Update
<1>. QED
  BY <1>1, <1>2, <1>3, <1>4, <1>5, <1>6

(* A step that writes neither CRs nor the build namespace.                 *)
LEMMA ReadTypes ==
    ASSUME Types, Inspect \/ GetJob \/ DedupHead \/ RetagGet \/ RecordBuildResult
    PROVE  Types'
<1>. ~At("idle")
  BY DEF At, Inspect, GetJob, DedupHead, RetagGet, RecordBuildResult
<1>. w.obj \in ImagePatches /\ w.obj.spec \in Specs /\ w.key \in CRs /\ Me \in Names
  BY CopyTypes
<1>1. CASE Inspect
  <2>1. WorkerTypes'
    BY <1>1, RejectMeta, GotoTypes DEF Inspect, SameMeta, Points
  <2>2. RestTypes'
    BY <1>1, SpendTypes, RestUnchanged DEF Inspect, Events
  <2>. QED
    BY <1>1, <2>1, <2>2, BuildUnchanged, CRUnchanged, TypesParts DEF Inspect
<1>2. CASE GetJob
  <2>1. jobCache[Me] # None => SameMeta(w.obj, Observed(w.obj, jobCache[Me]))
    BY ObservedMeta DEF Types, TypeOK
  <2>2. WorkerTypes'
    BY <1>2, <2>1, ReturnTypes, GotoTypes DEF GetJob, SameMeta, Points
  <2>. QED
    BY <1>2, <2>2, BuildUnchanged, CRUnchanged, RestUnchanged, TypesParts DEF GetJob
<1>3. CASE DedupHead
  <2>1. WorkerTypes'
    BY <1>3, GotoTypes DEF DedupHead, Points
  <2>. QED
    BY <1>3, <2>1, BuildUnchanged, CRUnchanged, RestUnchanged, TypesParts DEF DedupHead
<1>4. CASE RetagGet
  <2>1. registry[DedupRef[w.obj.spec]] \in Images \cup {None}
    BY DEF Types, TypeOK, BuildTypeOK, Refs
  <2>2. WorkerTypes'
    BY <1>4, <2>1 DEF RetagGet, WorkerTypes, WorkerShape, Types, TypeOK, Points, At, queueVars
  <2>. QED
    BY <1>4, <2>2, BuildUnchanged, CRUnchanged, RestUnchanged, TypesParts
    DEF RetagGet, queueVars
<1>5. CASE RecordBuildResult
  <2>1. WorkerTypes'
    BY <1>5, ReturnTypes DEF RecordBuildResult
  <2>. QED
    BY <1>5, <2>1, BuildUnchanged, CRUnchanged, RestUnchanged, TypesParts DEF RecordBuildResult
<1>. QED
  BY <1>1, <1>2, <1>3, <1>4, <1>5

LEMMA FileTypes ==
    ASSUME NEW file \in Files \cup {None}, NEW k \in CRs, NEW s \in Specs
    PROVE  Applied(file, k, s) \in Files
  BY DEF Applied, Files

LEMMA OwnersType ==
    ASSUME NEW S
    PROVE  OwnersOf(S) \in SUBSET CRs
  BY ControllerAssumption DEF OwnersOf

LEMMA DeleteTypes ==
    ASSUME Types, DeleteJobs \/ DeleteConfigMaps \/ DeleteSecrets
    PROVE  Types'
<1>. ~At("idle")
  BY DEF At, DeleteJobs, DeleteConfigMaps, DeleteSecrets
<1>. w.obj \in ImagePatches
  BY CopyTypes
<1>. \A p \in {"deleteJobs", "deleteConfigMaps", "deleteSecrets"} :
        AfterDelete(p) \in Points \ {"idle"}
  BY DEF AfterDelete, Points
<1>0. WorkerTypes'
  BY GotoTypes DEF DeleteJobs, DeleteConfigMaps, DeleteSecrets
<1>1. CASE DeleteJobs
  <2>1. job' \in [Names -> Jobs \cup {None}]
    BY <1>1 DEF DeleteJobs, Types, TypeOK, BuildTypeOK, Kept
  <2>2. \A n \in Names : pod'[n] = IF Labelled(w.key, job[n]) THEN Orphaned(pod[n]) ELSE pod[n]
    BY <1>1 DEF DeleteJobs
  <2>3. \A n \in Names : Orphaned(pod[n]) \in [Slots -> Pods \cup {None}]
    BY DEF Types, TypeOK, BuildTypeOK, Orphaned, Slots
  <2>4. pod' \in [Names -> [Slots -> Pods \cup {None}]]
    BY <1>1, <2>3 DEF DeleteJobs, Types, TypeOK, BuildTypeOK
  <2>5. ASSUME NEW n \in Names
        PROVE  /\ pod'[n]["job"] # None => job'[n] # None
               /\ \A g \in Slots :
                     pod'[n][g] # None /\ pod'[n][g].stage \in {"running", "pushed"}
                         => pod'[n][g].mounted \in Specs
    <3>1. CASE Labelled(w.key, job[n])
      <4>1. pod[n] \in [Slots -> Pods \cup {None}]
        BY DEF Types, TypeOK, BuildTypeOK
      <4>2. /\ pod'[n]["job"] = None
            /\ pod'[n]["orphan"] \in {pod[n]["job"], pod[n]["orphan"]}
        BY <3>1, <2>2, <4>1 DEF Orphaned, Slots
      <4>. QED
        BY <4>2 DEF Types, PodShape, Slots
    <3>2. CASE ~Labelled(w.key, job[n])
      <4>1. job'[n] = job[n]
        BY <1>1, <3>2 DEF DeleteJobs, Labelled, Kept
      <4>. QED
        BY <3>2, <4>1, <2>2 DEF Types, PodShape
    <3>. QED
      BY <3>1, <3>2
  <2>. QED
    BY <1>0, <1>1, <2>1, <2>4, <2>5, CRUnchanged, RestUnchanged, TypesParts
    DEF DeleteJobs, Types, TypeOK, BuildTypeOK, PodShape
<1>2. CASE DeleteConfigMaps
  <2>1. BuildTypeOK' /\ PodShape'
    BY <1>2 DEF DeleteConfigMaps, Types, TypeOK, BuildTypeOK, PodShape, Kept
  <2>2. RestTypes'
    BY <1>2, OwnersType, QueueTypes DEF DeleteConfigMaps
  <2>. QED
    BY <1>0, <1>2, <2>1, <2>2, CRUnchanged, TypesParts DEF DeleteConfigMaps
<1>3. CASE DeleteSecrets
  <2>1. BuildTypeOK' /\ PodShape'
    BY <1>3 DEF DeleteSecrets, Types, TypeOK, BuildTypeOK, PodShape, Kept
  <2>2. RestTypes'
    BY <1>3, OwnersType, QueueTypes DEF DeleteSecrets
  <2>. QED
    BY <1>0, <1>3, <2>1, <2>2, CRUnchanged, TypesParts DEF DeleteSecrets
<1>. QED
  BY <1>1, <1>2, <1>3

LEMMA ApplyTypes ==
    ASSUME Types, ApplyConfigMap \/ ApplyAuthSecret \/ RetagPut \/ CreateJob
    PROVE  Types'
<1>. ~At("idle")
  BY DEF At, ApplyConfigMap, ApplyAuthSecret, RetagPut, CreateJob
<1>. w.obj \in ImagePatches /\ w.obj.spec \in Specs /\ w.key \in CRs /\ Me \in Names
  BY CopyTypes
<1>1. CASE ApplyConfigMap
  <2>1. BuildTypeOK' /\ PodShape'
    BY <1>1, FileTypes DEF ApplyConfigMap, Types, TypeOK, BuildTypeOK, PodShape
  <2>2. RestTypes'
    BY <1>1, OwnersType, QueueTypes DEF ApplyConfigMap
  <2>3. AfterConfigMap(w.obj.spec) \in Points \ {"idle"}
    BY DEF AfterConfigMap, AfterAuth, Points
  <2>4. WorkerTypes'
    BY <1>1, <2>3, GotoTypes DEF ApplyConfigMap
  <2>. QED
    BY <1>1, <2>1, <2>2, <2>4, CRUnchanged, TypesParts DEF ApplyConfigMap
<1>2. CASE ApplyAuthSecret
  <2>1. BuildTypeOK' /\ PodShape'
    BY <1>2, FileTypes DEF ApplyAuthSecret, Types, TypeOK, BuildTypeOK, PodShape
  <2>2. RestTypes'
    BY <1>2, OwnersType, QueueTypes DEF ApplyAuthSecret
  <2>3. AfterAuth(w.obj.spec) \in Points \ {"idle"}
    BY DEF AfterAuth, Points
  <2>4. WorkerTypes'
    BY <1>2, <2>3, GotoTypes DEF ApplyAuthSecret
  <2>. QED
    BY <1>2, <2>1, <2>2, <2>4, CRUnchanged, TypesParts DEF ApplyAuthSecret
<1>3. CASE RetagPut
  <2>1. BuildTypeOK' /\ PodShape'
    BY <1>3 DEF RetagPut, Retagged, Types, TypeOK, BuildTypeOK, PodShape
  <2>2. RestTypes' /\ CRTypes'
    BY <1>3, RestUnchanged, CRUnchanged DEF RetagPut, queueVars
  <2>3. WorkerTypes'
    BY <1>3, DedupHitMeta
    DEF RetagPut, SameMeta, WorkerTypes, WorkerShape, Types, TypeOK, Points, At, queueVars
  <2>. QED
    BY <2>1, <2>2, <2>3, TypesParts
<1>4. CASE CreateJob
  <2>1. ConstructJob(w.key, w.obj.spec, ConsultsDedup(w.obj.spec)) \in Jobs
    BY ControllerAssumption DEF ConstructJob, ConsultsDedup, Jobs
  <2>. DEFINE j == ConstructJob(w.key, w.obj.spec, ConsultsDedup(w.obj.spec))
  <2>2. job' = [job EXCEPT ![Me] = j] \/ job' = job
    BY <1>4 DEF CreateJob
  <2>3. j \in Jobs /\ j # None
    BY <2>1, NoneAssumption
  <2>. HIDE DEF j
  <2>4. /\ job' \in [Names -> Jobs \cup {None}]
        /\ \A n \in Names : job[n] # None => job'[n] # None
    BY <2>2, <2>3 DEF Types, TypeOK, BuildTypeOK
  <2>5. BuildTypeOK' /\ PodShape'
    BY <1>4, <2>4 DEF CreateJob, Types, TypeOK, BuildTypeOK, PodShape
  <2>6. WorkerTypes'
    BY <1>4, RunningMeta, GotoTypes, ReturnTypes DEF CreateJob, SameMeta, Points, Error
  <2>. QED
    BY <1>4, <2>5, <2>6, CRUnchanged, RestUnchanged, TypesParts DEF CreateJob
<1>. QED
  BY <1>1, <1>2, <1>3, <1>4

LEMMA ReconcileTypes ==
    ASSUME Types, Reconcile
    PROVE  Types'
  BY FetchTypes, CRWriteTypes, ReadTypes, DeleteTypes, ApplyTypes
  DEF Reconcile, ReconcileStep

-----------------------------------------------------------------------------
(* Faults, deliveries and users.                                           *)

LEMMA FaultTypes ==
    ASSUME Types, Faults
    PROVE  Types'
<1>1. CASE FailOpen
  <2>1. RestTypes'
    BY <1>1, SpendTypes DEF FailOpen, Events, queueVars
  <2>2. WorkerTypes'
    BY <1>1 DEF FailOpen, queueVars, WorkerTypes, WorkerShape, Types, TypeOK, Points, At
  <2>3. registry' = registry \/ registry' = Retagged(w.obj.spec)
    BY <1>1 DEF FailOpen
  <2>4. BuildTypeOK' /\ PodShape'
    BY <1>1, <2>3 DEF FailOpen, Retagged, Types, TypeOK, BuildTypeOK, PodShape
  <2>. QED
    BY <1>1, <2>1, <2>2, <2>4, CRUnchanged, TypesParts DEF FailOpen
<1>2. CASE CallFails
  <2>1. RestTypes'
    BY <1>2, SpendTypes DEF CallFails, Events
  <2>2. WorkerTypes'
    BY <1>2, ReturnTypes DEF CallFails, Error, At
  <2>. QED
    BY <1>2, <2>1, <2>2, BuildUnchanged, CRUnchanged, TypesParts DEF CallFails
<1>3. CASE Crash
  <2>1. CRTypes' /\ RestTypes'
    BY <1>3 DEF Crash, Spend, CRTypes, RestTypes, Types, TypeOK, BuildTypeOK, Events
  <2>2. WorkerTypes'
    BY <1>3 DEF Crash, WorkerTypes, WorkerShape, At, Idle, Points
  <2>. QED
    BY <1>3, <2>1, <2>2, BuildUnchanged, TypesParts DEF Crash
<1>4. CASE ClassifyFails
  <2>1. RestTypes'
    BY <1>4, SpendTypes DEF ClassifyFails, Events
  <2>2. /\ w.obj \in ImagePatches /\ ~At("idle")
        /\ [w.obj EXCEPT !.phase = "Failed", !.message = "ControllerInternalError"]
              \in ImagePatches
    BY <1>4, CopyTypes DEF ClassifyFails, At, ImagePatches, Messages, FailureLabels, Phases
  <2>3. WorkerTypes'
    BY <1>4, <2>2, GotoTypes DEF ClassifyFails, Points
  <2>. QED
    BY <1>4, <2>1, <2>3, BuildUnchanged, CRUnchanged, TypesParts DEF ClassifyFails
<1>. QED
  BY <1>1, <1>2, <1>3, <1>4 DEF Faults

LEMMA DeliveryTypes ==
    ASSUME Types, Delivery
    PROVE  Types'
<1>1. ASSUME NEW k \in CRs, SyncCR(k)
      PROVE  Types'
  <2>1. CRTypes'
    BY <1>1 DEF SyncCR, CRTypes, Types, TypeOK
  <2>. QED
    BY <1>1, <2>1, BuildUnchanged, QueueTypes, WorkerUnchanged, TypesParts DEF SyncCR
<1>2. ASSUME NEW k \in CRs, TimerFires(k)
      PROVE  Types'
  <2>1. WorkerTypes'
    BY <1>2 DEF TimerFires, WorkerTypes, WorkerShape, Types, TypeOK, At
  <2>. QED
    BY <1>2, <2>1, BuildUnchanged, CRUnchanged, QueueTypes, TypesParts DEF TimerFires
<1>3. ASSUME NEW n \in Names, SyncJob(n)
      PROVE  Types'
  <2>1. RestTypes'
    BY <1>3, OwnersType DEF SyncJob, RestTypes, Types, TypeOK, BuildTypeOK, Enqueue
  <2>. QED
    BY <1>3, <2>1, BuildUnchanged, CRUnchanged, WorkerUnchanged, TypesParts DEF SyncJob
<1>. QED
  BY <1>1, <1>2, <1>3 DEF Delivery

LEMMA UserTypes ==
    ASSUME Types, Users
    PROVE  Types'
<1>1. ASSUME NEW k \in CRs, NEW o \in ImagePatches \cup {None}, UserWrite(k, o),
             NEW e \in Events, Spend(e), UNCHANGED <<buildVars, jobCache, queueVars>>
      PROVE  Types'
  <2>1. CRTypes'
    BY <1>1, StoreTypes DEF UserWrite
  <2>2. WorkerTypes'
    BY <1>1 DEF UserWrite, WorkerTypes, WorkerShape, Types, TypeOK, At, queueVars
  <2>. QED
    BY <1>1, <2>1, <2>2, BuildUnchanged, SpendTypes, TypesParts DEF queueVars
<1>2. \A k \in CRs : Wanted[k] \subseteq Specs
  BY ControllerAssumption
<1>3. ASSUME NEW k \in CRs, NEW s \in Wanted[k], CreateCR(k, s)
      PROVE  Types'
  <2>1. NewImagePatch(s) \in ImagePatches
    BY <1>2, NoneAssumption
    DEF NewImagePatch, ImagePatches, Messages, Phases
  <2>. QED
    BY <1>1, <1>3, <2>1 DEF CreateCR, Events
<1>4. ASSUME NEW k \in CRs, NEW s \in Wanted[k], EditSpec(k, s)
      PROVE  Types'
  <2>1. cr[k] \in ImagePatches
    BY <1>4 DEF EditSpec, Types, TypeOK
  <2>. QED
    BY <1>1, <1>2, <1>4, <2>1, MetaEdits DEF EditSpec, Events
<1>5. ASSUME NEW k \in CRs, Touch(k)
      PROVE  Types'
  <2>1. CRTypes'
    BY <1>5 DEF Touch, CRTypes, Types, TypeOK
  <2>2. WorkerTypes'
    BY <1>5 DEF Touch, WorkerTypes, WorkerShape, Types, TypeOK, At, queueVars
  <2>. QED
    BY <1>5, <2>1, <2>2, BuildUnchanged, SpendTypes, TypesParts DEF Touch, Events, queueVars
<1>6. ASSUME NEW k \in CRs, DeleteCR(k)
      PROVE  Types'
  <2>1. cr[k] \in ImagePatches
    BY <1>6 DEF DeleteCR, Types, TypeOK
  <2>2. [cr[k] EXCEPT !.deleting = TRUE] \in ImagePatches
    BY <2>1 DEF ImagePatches
  <2>. QED
    BY <1>1, <1>6, <2>2 DEF DeleteCR, Events
<1>. QED
  BY <1>3, <1>4, <1>5, <1>6 DEF Users

LEMMA TypesNext == Types /\ [Next]_vars => Types'
<1>. SUFFICES ASSUME Types, [Next]_vars
              PROVE  Types'
  OBVIOUS
<1>1. CASE Builds
  <2>1. BuildTypeOK' /\ PodShape'
    BY <1>1, BuildStepTypes DEF Builds, Types, TypeOK
  <2>. QED
    BY <1>1, <2>1, CRUnchanged, RestUnchanged, WorkerUnchanged, TypesParts
    DEF Builds, queueVars
<1>2. CASE UNCHANGED vars
  BY <1>2, BuildUnchanged, CRUnchanged, RestUnchanged, WorkerUnchanged, TypesParts
  DEF vars, queueVars
<1>. QED
  BY <1>1, <1>2, ReconcileTypes, FaultTypes, DeliveryTypes, UserTypes DEF Next

-----------------------------------------------------------------------------
(* The initial states, with what an older controller left behind.          *)

LEMMA TypesInit == Init => Types
<1>. SUFFICES ASSUME Init
              PROVE  Types
  OBVIOUS
<1>1. PICK old \in [Legacy -> Specs], log \in [Legacy -> Causes \cup {None}] :
        LET owner(n) == CHOOSE k \in Legacy : NameOf[k] = n
            held(n)  == \E k \in Legacy : NameOf[k] = n
            file(n)  == IF held(n) THEN [src |-> owner(n), spec |-> old[owner(n)]]
                        ELSE None
        IN
        /\ cr = [k \in CRs |-> IF k \in Legacy THEN LegacyImagePatch(old[k]) ELSE None]
        /\ job = [n \in Names |->
                    IF held(n)
                    THEN [ConstructJob(owner(n), old[owner(n)], FALSE)
                            EXCEPT !.state = "failed"]
                    ELSE None]
        /\ cm = [n \in Names |-> file(n)]
        /\ secret = [n \in Names |->
                       IF held(n) /\ old[owner(n)] \in OwnAuth THEN file(n) ELSE None]
        /\ pod = [n \in Names |-> [g \in Slots |->
                    IF g = "job" /\ held(n) /\ log[owner(n)] # None
                    THEN [spec |-> job[n].spec, auth |-> job[n].auth,
                          dedup |-> FALSE, mounted |-> job[n].spec,
                          stage |-> "failed", log |-> log[owner(n)]]
                    ELSE None]]
  BY DEF Init
<1>. DEFINE owner(n) == CHOOSE k \in Legacy : NameOf[k] = n
            held(n)  == \E k \in Legacy : NameOf[k] = n
<1>2. ASSUME NEW n \in Names, held(n)
      PROVE  owner(n) \in Legacy
  BY <1>2
<1>3. ASSUME NEW n \in Names, held(n)
      PROVE  /\ owner(n) \in CRs
             /\ old[owner(n)] \in Specs
             /\ log[owner(n)] \in Causes \cup {None}
  BY <1>2, <1>3, ControllerAssumption
<1>4. /\ job = [n \in Names |->
                  IF held(n)
                  THEN [ConstructJob(owner(n), old[owner(n)], FALSE)
                          EXCEPT !.state = "failed"]
                  ELSE None]
      /\ cm = [n \in Names |-> IF held(n)
                  THEN [src |-> owner(n), spec |-> old[owner(n)]] ELSE None]
      /\ secret = [n \in Names |-> IF held(n) /\ old[owner(n)] \in OwnAuth
                  THEN IF held(n)
                       THEN [src |-> owner(n), spec |-> old[owner(n)]] ELSE None
                  ELSE None]
      /\ pod = [n \in Names |-> [g \in Slots |->
                  IF g = "job" /\ held(n) /\ log[owner(n)] # None
                  THEN [spec |-> job[n].spec, auth |-> job[n].auth,
                        dedup |-> FALSE, mounted |-> job[n].spec,
                        stage |-> "failed", log |-> log[owner(n)]]
                  ELSE None]]
  BY <1>1
<1>. HIDE DEF owner, held
<1>5. ASSUME NEW n \in Names, held(n)
      PROVE  /\ job[n] \in Jobs
             /\ job[n] # None
             /\ job[n].spec \in Specs
             /\ cm[n] \in Files
  <2>1. job[n] = [ConstructJob(owner(n), old[owner(n)], FALSE) EXCEPT !.state = "failed"]
    BY <1>4, <1>5
  <2>2. job[n] \in Jobs
    <3>1. ConstructJob(owner(n), old[owner(n)], FALSE) \in Jobs
      BY <1>3, <1>5 DEF ConstructJob, Jobs
    <3>. QED
      BY <2>1, <3>1 DEF Jobs
  <2>3. cm[n] \in Files
    BY <1>3, <1>4, <1>5 DEF Files
  <2>. QED
    BY <2>2, <2>3, NoneAssumption DEF Jobs
<1>6. ASSUME NEW n \in Names
      PROVE  /\ job[n] \in Jobs \cup {None}
             /\ cm[n] \in Files \cup {None}
             /\ secret[n] \in Files \cup {None}
  <2>1. CASE held(n)
    <3>1. secret[n] \in {cm[n], None}
      BY <1>4, <2>1
    <3>. QED
      BY <1>5, <2>1, <3>1
  <2>2. CASE ~held(n)
    BY <1>4, <2>2
  <2>. QED
    BY <2>1, <2>2
<1>7. ASSUME NEW n \in Names, NEW g \in Slots
      PROVE  /\ pod[n][g] \in Pods \cup {None}
             /\ pod[n][g] # None => job[n] # None /\ pod[n][g].stage = "failed"
  <2>1. CASE g = "job" /\ held(n) /\ log[owner(n)] # None
    <3>1. pod[n][g] = [spec |-> job[n].spec, auth |-> job[n].auth,
                       dedup |-> FALSE, mounted |-> job[n].spec,
                       stage |-> "failed", log |-> log[owner(n)]]
      BY <1>4, <2>1
    <3>2. job[n] # None /\ job[n].spec \in Specs /\ job[n].auth \in BOOLEAN
      BY <1>5, <2>1 DEF Jobs
    <3>3. log[owner(n)] \in Causes \cup {None}
      BY <1>3, <2>1
    <3>. QED
      BY <3>1, <3>2, <3>3 DEF Pods
  <2>2. CASE ~(g = "job" /\ held(n) /\ log[owner(n)] # None)
    BY <1>4, <2>2
  <2>. QED
    BY <2>1, <2>2
<1>8. PodShape
  BY <1>7 DEF PodShape, Slots
<1>9. registry \in [Refs -> Images \cup {None}]
  <2>1. registry = [r \in Refs |-> IF \E s \in Prebuilt : DedupRef[s] = r
                      THEN Image[CHOOSE s \in Prebuilt : DedupRef[s] = r]
                      ELSE None]
    BY DEF Init
  <2>2. ASSUME NEW r, \E s \in Prebuilt : DedupRef[s] = r
        PROVE  Image[CHOOSE s \in Prebuilt : DedupRef[s] = r] \in Images
    BY <2>2, ControllerAssumption DEF Images
  <2>. QED
    BY <2>1, <2>2
<1>10. BuildTypeOK
  <2>1. /\ job \in [Names -> Jobs \cup {None}]
        /\ cm \in [Names -> Files \cup {None}]
        /\ secret \in [Names -> Files \cup {None}]
    BY <1>4, <1>6
  <2>2. pod \in [Names -> [Slots -> Pods \cup {None}]]
    BY <1>4, <1>7
  <2>. QED
    BY <2>1, <2>2, <1>9 DEF BuildTypeOK
<1>11. CRTypes
  <2>1. ASSUME NEW k \in Legacy
        PROVE  LegacyImagePatch(old[k]) \in ImagePatches
    BY RefsAssumption
    DEF LegacyImagePatch, NewImagePatch, ImagePatches, Messages, Phases, Refs
  <2>. QED
    BY <1>1, <2>1 DEF Init, CRTypes
<1>12. WorkerTypes
  BY DEF Init, WorkerTypes, WorkerShape, At, Idle, Points
<1>13. RestTypes
  BY <1>10, ControllerAssumption DEF Init, RestTypes, BuildTypeOK
<1>. QED
  BY <1>8, <1>10, <1>11, <1>12, <1>13, TypesParts

-----------------------------------------------------------------------------
(* Every variable stays within its type, a Pod finishes only a Job that    *)
(* exists, and the worker acts only on a CR it has read.                   *)
THEOREM TypesHold == Spec => []Types
<1>1. Types /\ [Next]_vars => Types'
  BY TypesNext
<1>. QED
  BY <1>1, TypesInit, PTL DEF Spec

(* No step of the reconciler, of Kubernetes or of a user leaves a variable *)
(* outside its type: TypeOK of the run "recreate", for every set of CRs,   *)
(* names and specs and every budget.                                       *)
THEOREM TypeCorrect == Spec => []TypeOK
<1>1. Types => TypeOK
  BY DEF Types
<1>. QED
  BY <1>1, TypesHold, PTL

=============================================================================
