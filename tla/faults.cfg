\* Failed calls and a crash anywhere in a pass; the kind changes, to a template that
\* cannot be built; a GKE policy comes and goes.
CONSTANTS
    None = None
    Empty = Empty
    v1 = v1
    v2 = v2
    bad = bad
    Values <- BadValues
    BadTemplates <- MCBad
    Specs <- FaultSpecs
    Scope = {"ConfigMap", "HealthCheckPolicy"}
    Meddling <- NoMeddling
    MaxEdits = 1
    MaxDeletes = 0
    MaxMeddling = 0
    MaxFaults = 2
    MaxCrashes = 1
    MaxRevision = 20
SPECIFICATION FairSpec
INVARIANTS
    TypeOK
    SnapshotsSound
PROPERTIES
    EventuallySettles
    ImplementsLevelTriggered
CHECK_DEADLOCK FALSE
