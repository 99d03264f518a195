SPECIFICATION Spec
CONSTANTS
    Replies <- MCReplies
    Requested = 2
INVARIANTS
    ResultsMatchByPosition
    FailuresApartFromData
    TypedAsAnswered
    ApiErrorsExplain
