SPECIFICATION HeadersSpec
CONSTANTS
    Fields <- MCFields
    Spellings = {1, 2}
    Values <- MCValues
    IntMax = 7
    MaxLines = 3
INVARIANTS
    HeadersLossless
    MetadataAsStated
