------------------------------ MODULE KanikoJob ------------------------------
(***************************************************************************)
(* The arguments of the kaniko Job: options of the CR over the defaults of *)
(* the controller's environment, the destinations, and the registry map.   *)
(*                                                                         *)
(* An option that is not set is None.                                      *)
(***************************************************************************)
EXTENDS RegistryAuth

CONSTANT Environment    \* the controller's environment variables

(* singleSnapshot is set by any value, TRUE for two of them; blank entries *)
(* of the ignore list are dropped.  The disable flags have no variable.    *)
BuildOptionsFromEnv ==
    LET paths == ToSet(Environment.KANIKO_IGNORE_PATHS) \ {""}
    IN  [snapshotMode           |-> Environment.KANIKO_SNAPSHOT_MODE,
         singleSnapshot         |-> IF Environment.KANIKO_SINGLE_SNAPSHOT = None THEN None
                                    ELSE Environment.KANIKO_SINGLE_SNAPSHOT \in {"true", "1"},
         ignorePaths            |-> IF paths = {} THEN None ELSE paths,
         cacheTTL               |-> Environment.KANIKO_CACHE_TTL,
         disableBuildCache      |-> None,
         disableBuildLayerCache |-> None]

MergeBuildOptions(defaults, override) ==
    IF override = None THEN defaults
    ELSE [f \in DOMAIN defaults |-> IF override[f] = None THEN defaults[f] ELSE override[f]]

EffectiveOptions(spec) == MergeBuildOptions(BuildOptionsFromEnv, spec.buildOptions)

(* Pairs <target>=<mirror>; those without a target or a mirror are         *)
(* dropped, and of two for one target the later one counts.                *)
RegistryMapFromEnv ==
    LET pairs == Environment.KANIKO_REGISTRY_MAP
        valid == {n \in DOMAIN pairs : << >> \notin {pairs[n][1], pairs[n][2]}}
    IN  [t \in {pairs[n][1] : n \in valid} |->
            pairs[Max({n \in valid : pairs[n][1] = t})][2]]

RegistryMapVerbatim(m) == {<<t, m[t]>> : t \in DOMAIN m}    \* mutant: docker.io as it is

(* kaniko knows Docker Hub as index.docker.io.                             *)
RegistryMapArgs(m) == {<<IF t = DockerIO THEN Hub ELSE t, m[t]>> : t \in DOMAIN m}

-----------------------------------------------------------------------------

Destination(spec) ==
    ResolveDestination(spec.targetImage, spec.base, Environment.DEFAULT_IMAGE_REGISTRY)

(* computeDedupRef is asked unless dedup is off for the cluster or the CR. *)
DedupDestination(spec) ==
    IF Environment.DEDUP_ENABLED # "false" /\ EffectiveOptions(spec).disableBuildCache # TRUE
    THEN ComputeDedupRef(Destination(spec)) ELSE << >>

(* An option that is not set is left to kaniko's default.                  *)
BuildOptionsArgs(options) ==
    [snapshotMode |-> options.snapshotMode,
     oneSnapshot  |-> options.singleSnapshot = TRUE,
     ignorePaths  |-> IF options.ignorePaths = None THEN {} ELSE options.ignorePaths,
     cacheTTL     |-> options.cacheTTL]

(* constructJob: the docker config it mounts and the arguments.            *)
JobOf(spec) ==
    LET options == EffectiveOptions(spec)
        dedup   == DedupDestination(spec)
    IN  [auth         |-> MountedConfig(spec),
         destinations |-> IF dedup \in {<< >>, Destination(spec)} THEN <<Destination(spec)>>
                          ELSE <<Destination(spec), dedup>>,
         layerCache   |-> /\ Environment.KANIKO_BUILD_CACHE_REPO # None
                          /\ options.disableBuildLayerCache # TRUE,
         registryMap  |-> RegistryMapArgs(RegistryMapFromEnv),
         options      |-> BuildOptionsArgs(options)]
=============================================================================
