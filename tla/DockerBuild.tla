----------------------------- MODULE DockerBuild -----------------------------
(***************************************************************************)
(* Builds of ImagePatches, one after the other: the inspection of the base *)
(* image, the run of the generated Dockerfile with the Job's arguments,    *)
(* the label a failure gets from the build's log, and the dedup tag under  *)
(* which the result is kept for specs of the same hash.                    *)
(***************************************************************************)
EXTENDS KanikoSteps, BuildLog

CONSTANTS
    Patches,      \* specs of the ImagePatches that are built
    Mirrors       \* values of KANIKO_BUILD_APT_MIRROR and KANIKO_BUILD_PYPI_MIRROR

VARIABLES
    patch,    \* the spec being built, or None
    job,      \* its Job, or None when the inspection rejected it
    todo,     \* the instructions kaniko has not executed yet
    img,      \* the image they have made so far, or None
    log,      \* the phrases in the tail of the build's log
    stored    \* the latest build under a dedup tag: its hash and its image, or None

vars == <<patch, job, todo, img, log, stored>>

ASSUME BasesAssumption ==
    /\ \A p \in Patches :
          /\ p.base \in DOMAIN BaseImages
          /\ \A n \in DOMAIN p.fromImages :
                p.fromImages[n].image \in DOMAIN BaseImages

ASSUME SpecsAssumption ==
    \A p \in Patches : /\ WellTyped(p)
                       /\ \A n \in DOMAIN p.shell : p.shell[n].run.words \subseteq Phrases

ASSUME RefsAssumption ==
    /\ \A p \in Patches : /\ p.base \in Seq(ToSet(p.base))
                          /\ p.targetImage \in Seq(ToSet(p.targetImage))
    /\ Environment.DEFAULT_IMAGE_REGISTRY \in Seq(ToSet(Environment.DEFAULT_IMAGE_REGISTRY))

ASSUME RegistryMapAssumption ==
    Environment.KANIKO_REGISTRY_MAP \in Seq(ToSet(Environment.KANIKO_REGISTRY_MAP))

Failures == {"Rejected", "InvalidTag", "PushDenied", "BlobUnknown", "PullDenied",
             "Unreachable", "NoPlatform", "NoShell", "ImageOSNotSupported", "NoApt",
             "PermissionDenied", "NoSuchUser", "UserExists", "GroupExists",
             "CommandFailed", "NetworkFailed", "Exit42"}

ASSUME NoneAssumption == None \notin Patches /\ None \notin Failures

Init ==
    /\ patch = None /\ job = None /\ todo = << >> /\ img = None
    /\ log = {} /\ stored = None

-----------------------------------------------------------------------------
(* The inspection of the base image before a Job is made.                  *)

RejectUnlessAllMatch(base) ==       \* mutant: any entry for another platform
    BaseImages[base].platforms # {BuildPlatform}

(* No entry of an index is for the target; or the one image is not.        *)
(* Entries of an index without a platform are None.                        *)
PlatformMismatch(base) == BuildPlatform \notin BaseImages[base].platforms

Inspectable(spec) ==
    LET host == HostOf(spec.base)
    IN  /\ ValidRef(spec.base)
        /\ Registries[host].up
        /\ InspectAccount(spec) \in Registries[host].pull

-----------------------------------------------------------------------------
(* What a build writes into its log.                                       *)

Commands(in) == IF in.op = "RUN" THEN ToSet(in.commands) ELSE {}
StepsOf(in)  == {c.run : c \in {d \in Commands(in) : d.do = "step"}}

(* kaniko repeats the command of a RUN in the log.                         *)
Echo(in) == UNION {r.words : r \in StepsOf(in)}

Online(in) ==
    \/ in.op \in {"FROM", "CHECK-PUSH", "PUSH"}
    \/ \E c \in Commands(in) : c.do \in {"apt-install", "pip-install", "step"}

(* An attempt that fails before a later one succeeds.                      *)
Noise(in) == IF Online(in) THEN {{}, {"network"}} ELSE {{}}

PhrasesOf(why) ==
    CASE why \in {"ImageOSNotSupported", "Exit42"}  -> {"exit-42"}
      [] why = "NoShell"                            -> {"no-shell"}
      [] why \in {"PullDenied", "PushDenied"}       -> {"registry"}
      [] why \in {"Unreachable", "NetworkFailed"}   -> {"network"}
      [] why = "NoApt"                              -> {"not-found"}
      [] OTHER                                      -> {}

Label == IF img.failure = "Rejected" THEN "ImageOSNotSupported" ELSE ClassifyLogTail(log)

-----------------------------------------------------------------------------

(* A failure to read the base image lets the build go ahead, so that no    *)
(* build needs the inspection's consent.                                   *)
RejectBuild(spec) ==
    /\ PlatformMismatch(spec.base)
    /\ Inspectable(spec)
    /\ patch' = spec
    /\ img' = Failed(NewStage(spec.base), "Rejected")
    /\ UNCHANGED <<job, todo, log, stored>>

CreateBuild(spec) ==
    /\ AuthLoads(spec)
    /\ patch' = spec
    /\ job' = JobOf(spec)
    /\ img' = NewStage(spec.base)
    /\ log' = {}
    /\ \E order \in EnvOrders(spec), apt, pypi \in Mirrors :
          todo' = <<CheckPush>> \o GenerateDockerfile(spec, order, apt, pypi) \o <<Push>>
    /\ UNCHANGED stored

(* The tail forgets, but not what comes last.                              *)
Execute ==
    /\ todo # << >>
    /\ img' = Perform(img, Head(todo), job)
    /\ todo' = IF img'.failure = None THEN Tail(todo) ELSE << >>
    /\ \E kept \in {{}, log}, noise \in Noise(Head(todo)) :
          log' = kept \cup noise \cup Echo(Head(todo)) \cup PhrasesOf(img'.failure)
    /\ UNCHANGED <<patch, job, stored>>

(* A RUN that does not succeed for reasons of its own.                     *)
CommandFails(why, lines) ==
    /\ todo # << >>
    /\ Head(todo).op = "RUN"
    /\ HasShell(img)
    /\ why = "NetworkFailed" => Online(Head(todo))
    /\ why = "Exit42" => \E r \in StepsOf(Head(todo)) : r.exits42
    /\ img' = Failed(img, why)
    /\ todo' = << >>
    /\ \E kept \in {{}, log} :
          log' = kept \cup lines \cup Echo(Head(todo)) \cup PhrasesOf(why)
    /\ UNCHANGED <<patch, job, stored>>

Ended == patch # None /\ todo = << >>
Built == Ended /\ img.failure = None

(* The job is over; a successful build is found under its dedup tag.       *)
Finish ==
    /\ Ended
    /\ stored' = IF Built /\ Len(job.destinations) = 2
                 THEN [hash |-> ComputeSpecHash(patch), image |-> Snapshot(img, job)]
                 ELSE stored
    /\ patch' = None /\ job' = None /\ img' = None /\ log' = {}
    /\ UNCHANGED todo

Next ==
    \/ patch = None /\ \E p \in Patches : RejectBuild(p) \/ CreateBuild(p)
    \/ Execute
    \/ \E lines \in {{}, {"not-found"}} : CommandFails("CommandFailed", lines)
    \/ \E why \in {"NetworkFailed", "Exit42"} : CommandFails(why, {})
    \/ Finish

Spec == Init /\ [][Next]_vars

-----------------------------------------------------------------------------

Bases == {p.base : p \in Patches}

(* Specs, instructions and images keep to their fields' types; what is     *)
(* pushed derives from the base image of a spec, not from a stage.         *)
TypeOK ==
    /\ patch \in Patches \cup {None}
    /\ job # None => patch # None /\ job.destinations # << >>
    /\ \A n \in DOMAIN todo :
          todo[n].op \in {"FROM", "SHELL", "USER", "WORKDIR", "ENV", "COPY", "RUN",
                          "ENTRYPOINT", "CMD", "CHECK-PUSH", "PUSH"}
    /\ img # None => /\ img.failure \in Failures \cup {None}
                     /\ img.base \in DOMAIN BaseImages
    /\ log \subseteq Phrases
    /\ stored # None => /\ stored.image.failure = None
                        /\ stored.image.base \in Bases

(* Two specs of one hash make the same image, whatever mirrors and map     *)
(* order the two builds had: the later one may be served by a retag        *)
(* (spec_hash.go:33-34, imagepatch_types.go:266-269).                      *)
SameHashSameImage ==
    Built /\ stored # None /\ stored.hash = ComputeSpecHash(patch)
        => stored.image = Snapshot(img, job)

(* No step the controller adds is refused for lack of root, whatever user  *)
(* the base image sets and the spec switches to                            *)
(* (imagepatch_controller.go:966-975).                                     *)
SystemStepsPermitted == img # None => img.failure # "PermissionDenied"

(* Causes that say nothing of the base image's system.                     *)
Unrelated == {"InvalidTag", "PushDenied", "PullDenied", "Unreachable",
              "CommandFailed", "NetworkFailed", "Exit42"}

(* A base image that cannot be patched (another system, no shell, one      *)
(* image of another architecture) is named as the cause in the CR's        *)
(* message, whatever retries and the user's own commands wrote into the    *)
(* log; and no other image is (imagepatch_controller.go:978-985,           *)
(* classify.go:215-220).  With one exception: an index without linux/amd64 *)
(* is named by the inspection, but when that could not read it and left it *)
(* to the log (inspect.go:50-54), kaniko finds no image to pull, no        *)
(* pattern of the classifier fits, and the label is never the inspection's.*)
UnsupportedBaseIsNamed ==
    Ended /\ img.failure \notin Unrelated \cup {None}
        => (Label = "ImageOSNotSupported"
                <=> ~(HasShell(img) /\ Supported(img)) /\ img.failure # "NoPlatform")

(* The image runs as the user that runAsUser names, and that user exists   *)
(* in it, whatever the user block and the shell steps switched to          *)
(* (imagepatch_types.go, RunAsUser).                                       *)
RunsAsRequested ==
    Built /\ patch.runAsUser # None
        => img.user = patch.runAsUser /\ img.user \in img.users

SpeaksOfErrors(p) == \E n \in DOMAIN p.shell : p.shell[n].run.words # {}
ExitsWith42(p)    == \E n \in DOMAIN p.shell : p.shell[n].run.exits42

(* Unless the user's commands contain the classifier's keywords or exit    *)
(* with 42, a label blames the user's image for the base image or for a    *)
(* registry's refusal exactly when that ended the build, and an outage of  *)
(* the network that ended it is named (classify.go:32-42, 206-212).  A     *)
(* user's own `exit 42` is taken for the check of the base image, although *)
(* the marker "can only have come from the guard" (classify.go:72-75).     *)
NobodyIsMisblamed ==
    Ended /\ img.failure # None /\ ~SpeaksOfErrors(patch) /\ ~ExitsWith42(patch)
        => /\ Label = "ImageOSNotSupported"
                 <=> img.failure \in {"Rejected", "ImageOSNotSupported", "NoShell"}
           /\ Label = "InvalidImage" <=> img.failure \in {"PullDenied", "PushDenied"}
           /\ img.failure \in {"Unreachable", "NetworkFailed"} => Label = "NetworkError"

(* "the gateway must never assert 'your image is broken' without proof"    *)
(* (inspect.go:71-72): an image the inspection rejects is one no build can *)
(* succeed on; no patch of it was ever built, with whatever credentials.   *)
RejectedIsUnbuildable ==
    Ended /\ img.failure = "Rejected" /\ stored # None => stored.hash.base # patch.base

KeysFor(ref)          == {RepositoryKey(HostOf(ref), PathOf(ref)), LoginKey(HostOf(ref))}
HasEntry(config, ref) == KeysFor(ref) \cap DOMAIN config.auths # {}

(* A pull Secret that opens the image gets it pulled, and a push Secret    *)
(* that opens the target gets it pushed, though both reach kaniko in one   *)
(* file; a pull Secret that also names the target's registry takes the     *)
(* place of the push Secret there (imagepatch_controller.go:669-670,       *)
(* 739-742).                                                               *)
CredentialsReachKaniko ==
    Ended =>
        LET pull == OverlayConfig(patch)
            push == ConfigOf(BaseSecret(patch))
        IN  /\ img.failure = "PullDenied"
                  => ~(HasEntry(pull, img.base) /\ May(pull, HostOf(img.base), img.base, "pull"))
            /\ img.failure = "PushDenied"
                  => LET target == job.destinations[1]
                     IN  HasEntry(pull, target) \/ ~May(push, HostOf(target), target, "push")

(* Every tag a build pushes is valid, whether the spec names it or it is   *)
(* derived from the base image with "latest" for a tag that is not there   *)
(* (README.md:188); and the dedup tag is in the target's repository, where *)
(* its blobs are (imagepatch_controller.go:1395-1398).                     *)
TargetsAreTags ==
    Ended /\ job # None
        => \A d \in ToSet(job.destinations) :
              ValidTag(d) /\ SameRepository(d, job.destinations[1])

(* No build fails for want of a registry for which the cluster has a       *)
(* mirror that works with the build's credentials, by whatever name of     *)
(* Docker Hub the mirror is set; of two for one name the later one counts  *)
(* (imagepatch_controller.go:1336-1341).                                   *)
MirrorsAreUsed ==
    Ended /\ img.failure = "Unreachable"
        => LET host  == HostOf(img.base)
               names == {host} \cup (IF host = Hub THEN {DockerIO} ELSE {})
               pairs == Environment.KANIKO_REGISTRY_MAP
               IsSet(n) == << >> \notin {pairs[n][1], pairs[n][2]}
           IN  ~\E n \in DOMAIN pairs :
                   /\ IsSet(n) /\ pairs[n][1] \in names
                   /\ ~\E l \in DOMAIN pairs :
                         l > n /\ IsSet(l) /\ pairs[l][1] = pairs[n][1]
                   /\ Registries[pairs[n][2]].up
                   /\ May(job.auth, pairs[n][2], img.base, "pull")

(* The label "registry" that the metrics cut from status.image is the host *)
(* that kaniko pushed to, though the two parse references by rules of      *)
(* their own (metrics.go:249-256).  status.image is the first destination  *)
(* of the Job, as soon as the update that follows the Job's creation is    *)
(* done; where it never is, it stays empty and the label is docker.io.     *)
LabelNamesTheRegistry ==
    Ended /\ job # None /\ img.failure # "InvalidTag"
        => LET image == job.destinations[1]
               label == SplitImageRef(image).registry
           IN  (IF label = DockerIO THEN Hub ELSE label) = HostOf(image)
=============================================================================
