\* A Phare with its own created-by label; its Service is deleted.
CONSTANTS
    None = None
    Empty = Empty
    v1 = v1
    v2 = v2
    bad = bad
    Values <- MCValues
    BadTemplates <- MCBad
    Specs <- RelabelSpecs
    Scope = {"Service"}
    Meddling <- ServiceDeleted
    MaxEdits = 0
    MaxDeletes = 0
    MaxMeddling = 1
    MaxFaults = 0
    MaxCrashes = 0
    MaxRevision = 20
SPECIFICATION Spec
INVARIANTS
    NoLostWakeup
CHECK_DEADLOCK FALSE
