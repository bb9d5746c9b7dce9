\* The pass after the one that created the policies.
CONSTANTS
    None = None
    Empty = Empty
    v1 = v1
    v2 = v2
    bad = bad
    Values <- MCValues
    BadTemplates <- MCBad
    Specs <- PolicySpecs
    Scope = {"GCPBackendPolicy", "HealthCheckPolicy"}
    Meddling <- NoMeddling
    MaxEdits = 0
    MaxDeletes = 0
    MaxMeddling = 0
    MaxFaults = 0
    MaxCrashes = 0
    MaxRevision = 20
SPECIFICATION Spec
PROPERTIES
    Idempotent
CHECK_DEADLOCK FALSE
