\* The diff of YAML documents, the validator and the checksum of the configuration.
SPECIFICATION LibrarySpec
CONSTANTS
    Inputs <- DiffInputs
    StringKeys <- YamlKeys
    RawValues <- DiffValues
    Depth <- DiffDepth
    Nesting = 3
    Desired <- ValidatorDocuments
    Current <- ValidatorDocuments
    YamlValues <- ValidatorValues
    Height <- ValidatorHeight
    Highest = 4
    Pending = Pending
    Newline = "newline"
    Tokens <- DataTokens
    Keys <- DataKeys
    Wanted <- Configs
INVARIANTS
    SameMeansEqual
    EveryDocumentOnce
    EqualDocumentsPaired
    DumpIsPatch
    VerdictMeansHas
PROPERTIES
    PassDeliversEdits
CHECK_DEADLOCK FALSE
