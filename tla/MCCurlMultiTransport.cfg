SPECIFICATION FairSpec
CONSTANTS
    Users = {s1, s2, s3}
    MaxPoolSize = 2
    MaxInitFailures = 1
    s1 = s1
    s2 = s2
    s3 = s3
INVARIANTS TypeOK HandlesConserved AnsweredIsGone OnlyLateOnesAreDropped
PROPERTIES EveryRequestAnswered DestructorReturns
CHECK_DEADLOCK FALSE
