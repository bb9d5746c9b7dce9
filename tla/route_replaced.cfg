\* The route is replaced between the owner check and the delete.
CONSTANTS
    None = None
    Empty = Empty
    v1 = v1
    v2 = v2
    bad = bad
    Values <- MCValues
    BadTemplates <- MCBad
    Specs <- TrafficSpecs
    Scope = {"Service", "HTTPRoute"}
    Meddling <- RouteReplaced
    MaxEdits = 1
    MaxDeletes = 0
    MaxMeddling = 2
    MaxFaults = 0
    MaxCrashes = 0
    MaxRevision = 20
SPECIFICATION Spec
PROPERTIES
    DeletesOnlyOwned
CHECK_DEADLOCK FALSE
