SPECIFICATION Spec
CONSTANTS
    Empty = Empty
    Failure = Failure
    Object = Object
    None = None
    Mapping <- MCMapping
    Specs <- MCSpecSet
    CRDs <- MCCRDs
    Elements <- MCElements
    FirstSpecs = {"plain", "ported", "invalid", "none"}
    TemplateCRDs = {"full", "old", "older", "list", "split"}
    Kinds = {"template", "chain"}
    Names = {"f", "c"}
    MaxTries = 2
    MaxEnv = 3
INVARIANT TypeOK
PROPERTIES OnlyDeadFieldsDropped GraphApplied
