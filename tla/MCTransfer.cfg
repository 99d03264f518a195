SPECIFICATION Spec
CONSTANTS
    WordSize = 16
    Limits <- MCLimits
    Payloads <- MCPayloads
    Blocks <- MCBlocks
    Interims <- MCInterims
    Finals <- MCFinals
INVARIANTS
    BodyWithinLimit
    SuccessIsComplete
    FailureNamesItsCause
    ErrorStatusSurvives
