SPECIFICATION FairSpec
CONSTANTS
    None = None
    CRs <- OneCR
    Names <- NamesUsed
    NameOf <- MCNameOf
    Specs = {"plain"}
    Wanted <- AnySpec
    Target <- MCTarget
    DedupRef <- MCDedupRef
    Image <- MCImage
    OwnAuth <- MCOwnAuth
    Mismatch <- MCMismatch
    Causes = {"NetworkError"}
    DedupEnabled = TRUE
    RegistryClient = TRUE
    Bypass = {}
    Owned = {}
    Prebuilt = {}
    Legacy <- OneCR
    Limits <- ProgressBounds
PROPERTIES
    EveryPatchTerminates
    OutcomeIsReported
    DeletionCompletes
    LegacyIsBackfilled
    NoSilentDowngrade
\* The bounds on the environment are used up, or the CRs are gone.
CHECK_DEADLOCK FALSE
