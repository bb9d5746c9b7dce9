\* Service and route against others who edit, unlabel, delete and plant them.
CONSTANTS
    None = None
    Empty = Empty
    v1 = v1
    v2 = v2
    bad = bad
    Values <- MCValues
    BadTemplates <- MCBad
    Specs <- TrafficSpecs
    Scope = {"Service", "HTTPRoute"}
    Meddling <- TrafficMeddling
    MaxEdits = 1
    MaxDeletes = 0
    MaxMeddling = 1
    MaxFaults = 0
    MaxCrashes = 0
    MaxRevision = 20
SPECIFICATION Spec
INVARIANTS
    NoLostWakeup
PROPERTIES
    NoLostUpdate
    ActiveMeansCurrent
    ImplementsLevelTriggered
    Idempotent
CHECK_DEADLOCK FALSE
