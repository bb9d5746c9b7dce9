\* Nothing but the timing of a probe is edited.
SPECIFICATION FairSpec
CONSTANTS
    Names <- PodNames
    Values <- FieldValues
    Labels = {"app"}
    Unset = Unset
    Default = Default
    Nothing = Nothing
    PodSpecs <- TimingSpecs
    Sidecars <- MeshSidecars
    MaxEdits = 1
    MaxOthers = 0
PROPERTIES
    EventuallyAuthoritative
CHECK_DEADLOCK FALSE
