SPECIFICATION Spec
CONSTANTS
    None = None
    Patches <- EnvPatches
    BaseImages <- MCBaseImages
    Registries <- MCRegistries
    Secrets <- MCSecrets
    Environment <- MCEnvironment
    Mirrors <- MCMirrors
INVARIANTS
    SameHashSameImage
