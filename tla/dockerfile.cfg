SPECIFICATION Spec
CONSTANTS
    None = None
    Patches <- AllPatches
    BaseImages <- MCBaseImages
    Registries <- MCRegistries
    Secrets <- MCSecrets
    Environment <- MCEnvironment
    Mirrors <- MCMirrors
INVARIANTS
    TypeOK
    SameHashSameImage
    SystemStepsPermitted
    UnsupportedBaseIsNamed
    RunsAsRequested
    NobodyIsMisblamed
    RejectedIsUnbuildable
    CredentialsReachKaniko
    TargetsAreTags
    MirrorsAreUsed
    LabelNamesTheRegistry
