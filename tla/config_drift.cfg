\* Edits of the config and of the workload's kind, and others who edit or delete the
\* ConfigMap or the StatefulSet.
CONSTANTS
    None = None
    Empty = Empty
    v1 = v1
    v2 = v2
    bad = bad
    Values <- MCValues
    BadTemplates <- MCBad
    Specs <- ConfigSpecs
    Scope = {"ConfigMap"}
    Meddling <- ConfigMeddling
    MaxEdits = 1
    MaxDeletes = 0
    MaxMeddling = 1
    MaxFaults = 0
    MaxCrashes = 0
    MaxRevision = 20
SPECIFICATION Spec
INVARIANTS
    NoLostWakeup
PROPERTIES
    Idempotent
CHECK_DEADLOCK FALSE
