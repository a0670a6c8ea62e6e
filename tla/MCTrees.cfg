CONSTANTS
    DotNames = {".", ".h", ".g"}
    NULL = NULL
    Keys <- MCKeys
    Probes <- MCProbes
    Data = {d1, d2}
    Routes <- MCRoutes
    Requests <- MCRequests
SPECIFICATION MCSpec
INVARIANTS TreeShape KeyMeaning RoutesByMeaning DeletedOnce
PROPERTIES ImplementsPathMap
CHECK_DEADLOCK FALSE
