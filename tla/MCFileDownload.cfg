SPECIFICATION FairSpec
CONSTANTS
    Sizes <- MCSizes
    Ranges <- MCRanges
    OldLengths = {0, 5}
    MaxGarbled = 1
INVARIANTS TypeOK BytesInPlace SuccessIsComplete VerifiedSuccess
PROPERTIES ResumeKeepsBytes CancelEnds
CHECK_DEADLOCK FALSE
