SPECIFICATION Spec
CONSTANTS
    None = None
    Patches <- PortPatches
    BaseImages <- MCBaseImages
    Registries <- MCRegistries
    Secrets <- MCSecrets
    Environment <- MCEnvironment
    Mirrors <- MCMirrors
INVARIANTS
    TargetsAreTags
