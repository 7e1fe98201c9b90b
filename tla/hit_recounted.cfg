SPECIFICATION MeteredSpec
CONSTANTS
    None = None
    CRs <- OneCR
    Names <- NamesUsed
    NameOf <- MCNameOf
    Specs = {"plain"}
    Wanted <- AnySpec
    Target <- MCTarget
    DedupRef <- MCDedupRef
    Image <- MCImage
    OwnAuth = {}
    Mismatch = {}
    Causes = {"NetworkError"}
    DedupEnabled = TRUE
    RegistryClient = TRUE
    Bypass = {}
    Owned = {}
    Prebuilt = {"plain"}
    Legacy = {}
    Limits <- RepeatBounds
INVARIANTS
    NeverDoubleCounts
\* The bounds on the environment are used up, or the CRs are gone.
CHECK_DEADLOCK FALSE
