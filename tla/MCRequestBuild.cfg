SPECIFICATION Spec
CONSTANTS
    Absent = Absent
    Inputs <- MCInputs
    MaxIps = 5
    LongMax = 3
INVARIANTS
    OneOfEachControlledHeader
    OtherHeadersKept
    NothingBreaksTheLines
    ListsSentOnceInOrder
    IpsSentOneForOne
    NormalizedIsStable
    AuthoritiesWellFormed
    TimeoutsSurvive
