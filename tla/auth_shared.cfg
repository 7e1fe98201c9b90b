SPECIFICATION Spec
CONSTANTS
    None = None
    CRs <- SameName
    Names <- NamesUsed
    NameOf <- MCNameOf
    Specs = {"other"}
    Wanted <- AnySpec
    Target <- MCTarget
    DedupRef <- MCDedupRef
    Image <- MCImage
    OwnAuth <- MCOwnAuth
    Mismatch <- MCMismatch
    Causes = {"NetworkError"}
    DedupEnabled = FALSE
    RegistryClient = TRUE
    Bypass = {}
    Owned = {}
    Prebuilt = {}
    Legacy = {}
    Limits <- ClashBounds
INVARIANTS
    AuthFollowsTheCR
\* The bounds on the environment are used up, or the CRs are gone.
CHECK_DEADLOCK FALSE
