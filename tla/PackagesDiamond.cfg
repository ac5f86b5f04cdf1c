SPECIFICATION PackagesSpec
CONSTANTS
    Manifests <- MCManifests
    Root = "app"
    NoVersion = NoVersion
INVARIANT
    PlanMatches
CHECK_DEADLOCK FALSE
