SPECIFICATION Spec
CONSTANTS
    Sizes <- MCSizes
    Ranges <- MCRanges
    OldLengths = {0, 5}
    MaxGarbled = 1
INVARIANT RetriesUntilSuccess
CHECK_DEADLOCK FALSE
