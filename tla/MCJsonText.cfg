SPECIFICATION Spec
CONSTANTS
    Inputs <- MCInputs
    Unrepresentable <- MCUnrepresentable
    Subnormal <- MCSubnormal
INVARIANTS
    ScalarsReadExactly
