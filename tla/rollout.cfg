\* Edits of the pod part against injected sidecars and touched containers.
SPECIFICATION FairSpec
CONSTANTS
    Names <- PodNames
    Values <- FieldValues
    Labels = {"app"}
    Unset = Unset
    Default = Default
    Nothing = Nothing
    PodSpecs <- RolloutSpecs
    Sidecars <- MeshSidecars
    MaxEdits = 2
    MaxOthers = 2
INVARIANTS
    TypeOK
    MergeResolves
PROPERTIES
    
    SidecarsKeptAlone
    EventuallyApplied
    ClaimChangesWarned
CHECK_DEADLOCK FALSE
