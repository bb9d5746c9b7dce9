\* Edits of the service part against others who edit or delete the Service.
SPECIFICATION FairSpec
CONSTANTS
    Unset = Unset
    Cleared = Cleared
    Nothing = Nothing
    Phares <- ServicePhares
    Pool <- NodePortPool
    Meddled <- ServiceMeddling
    MaxEdits = 2
    MaxMeddling = 2
INVARIANTS
    TypeOK
PROPERTIES
    NodePortsStay
    PassesSettle
    EventuallyServed
CHECK_DEADLOCK FALSE
