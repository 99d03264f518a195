SPECIFICATION Spec
CONSTANTS
    Bodies <- MCBodies
    Keys <- MCKeys
    MaskLen = 4
    MinLimit = 12
INVARIANTS
    ErrorsHideTheKeyOnly
    MaskBounded
