SPECIFICATION Spec
CONSTANTS
    Inputs <- MCInputs
    Strings = {"a", "b"}
    Scalars = {"1"}
    MaxDepth = 3
    MaxRootItems = 2
INVARIANTS
    AcceptsExactlyJson
    LimitsHoldThroughout
