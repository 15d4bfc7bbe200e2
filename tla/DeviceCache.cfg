SPECIFICATION Spec
CONSTANTS
    Versions = {a, b}
    Missing = Missing
    Unknown = Unknown
    Torn = Torn
    MaxTokens = 3
INVARIANTS TypeOK AppIsAsAsked FileIsAsAsked
CONSTRAINT OneOfBoth
SYMMETRY VersionsAreAlike
CHECK_DEADLOCK FALSE
