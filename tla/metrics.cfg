SPECIFICATION MeteredFairSpec
CONSTANTS
    None = None
    CRs <- OneCR
    Names <- NamesUsed
    NameOf <- MCNameOf
    Specs = {"plain", "arm64"}
    Wanted <- AnySpec
    Target <- MCTarget
    DedupRef <- MCDedupRef
    Image <- MCImage
    OwnAuth = {}
    Mismatch <- MCMismatch
    Causes = {"NetworkError"}
    DedupEnabled = TRUE
    RegistryClient = FALSE
    Bypass = {}
    Owned <- OneCR
    Prebuilt = {"plain"}
    Legacy <- OneCR
    Limits <- MetricsBounds
INVARIANTS
    NeverDoubleCounts
    NoResultLost
PROPERTIES
    GaugesSettle
\* The bounds on the environment are used up, or the CRs are gone.
CHECK_DEADLOCK FALSE
