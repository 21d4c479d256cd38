SPECIFICATION Spec
CONSTANTS
    Ops = {tok, plain}
    TokenOps = {tok}
    OneShotOps = {}
    MaxAttempts = 2
    CorrectClockSkew = TRUE
    VerifyErrors <- MCVerifyErrors
    SignErrors <- MCSignErrors
    TransportErrors <- MCTransportErrors
    Replies <- MCReplies
    Skews <- MCSkews
    MaxDrifts = 1
    tok = tok
    plain = plain
CHECK_DEADLOCK FALSE
INVARIANT TransportErrorHasNoStatus
