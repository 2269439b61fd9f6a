SPECIFICATION MCSpec
CONSTANTS
    Content <- MCContent
    NameOrder <- MCNameOrder
    PathOrder <- MCPathOrder
    KnownModels <- MCKnownModels
    ModelOf <- MCModelOf
    Reviewed <- MCReviewed
    Normal <- MCNormal
    Slug <- MCSlug
    Releases <- MCReleases
    Updates <- MCUpdates
    Bundles <- MCBundles
    Torn <- MCTorn
    Requests <- MCRequests
INVARIANTS
    CatalogIsWhole
    
    ResolvedAsDocumented
PROPERTIES
    TuningActsWhereItShould
CHECK_DEADLOCK FALSE
