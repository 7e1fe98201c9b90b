SPECIFICATION Spec
CONSTANTS
    None = None
    CRs <- OneCR
    Names <- NamesUsed
    NameOf <- MCNameOf
    Specs = {"plain", "other", "arm64"}
    Wanted <- AnySpec
    Target <- MCTarget
    DedupRef <- MCDedupRef
    Image <- MCImage
    OwnAuth <- MCOwnAuth
    Mismatch <- MCMismatch
    Causes = {"NetworkError"}
    DedupEnabled = TRUE
    RegistryClient = TRUE
    Bypass = {"other"}
    Owned = {}
    Prebuilt = {}
    Legacy = {}
    Limits <- EditBounds
INVARIANTS
    AuthFollowsTheCR
    BypassLeavesNoTag
    NoBuildForgotten
    StatusNamesOwnJob
PROPERTIES
    UserWritesSurvive
\* The bounds on the environment are used up, or the CRs are gone.
CHECK_DEADLOCK FALSE
