SPECIFICATION Spec
CONSTANTS
    Ops = {tok, plain}
    TokenOps = {tok}
    OneShotOps = {plain}
    MaxAttempts = 3
    CorrectClockSkew = TRUE
    VerifyErrors <- MCVerifyErrors
    SignErrors <- MCSignErrors
    TransportErrors <- MCTransportErrors
    Replies <- MCReplies
    Skews <- MCSkews
    MaxToggles = 1
    MaxDrifts = 1
    tok = tok
    plain = plain
CHECK_DEADLOCK FALSE
PROPERTY DisableCancelsBackoffs
