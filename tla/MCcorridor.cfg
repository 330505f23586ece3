CONSTANTS
    Tasks = {t1, t2}
    MaxCrashes = 1
    MaxFailures = 1
SPECIFICATION Spec
INVARIANTS
    CorridorTypeOK
PROPERTY
    LegalOrStale
    BlockReachesCorridor
