\* A sidecar injected between the read and the patch.
SPECIFICATION Spec
CONSTANTS
    Names <- PodNames
    Values <- FieldValues
    Labels = {"app"}
    Unset = Unset
    Default = Default
    Nothing = Nothing
    PodSpecs <- ImageSpecs
    Sidecars <- MeshSidecars
    MaxEdits = 1
    MaxOthers = 1
PROPERTIES
    SidecarsKept
CHECK_DEADLOCK FALSE
