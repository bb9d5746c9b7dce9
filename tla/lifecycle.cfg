\* A Phare is deleted and created again, with garbage collection at any time.
CONSTANTS
    None = None
    Empty = Empty
    v1 = v1
    v2 = v2
    bad = bad
    Values <- MCValues
    BadTemplates <- MCBad
    Specs <- LifeSpecs
    Scope = {"ConfigMap"}
    Meddling <- NoMeddling
    MaxEdits = 0
    MaxDeletes = 1
    MaxMeddling = 0
    MaxFaults = 0
    MaxCrashes = 0
    MaxRevision = 4
SPECIFICATION Spec
INVARIANTS
    NoLostWakeup
PROPERTIES
    ActiveMeansCurrent
CHECK_DEADLOCK FALSE
