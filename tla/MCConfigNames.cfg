SPECIFICATION ConfigSpec
CONSTANTS
    ByHand <- ConfigFields
    Infinite = Infinite
    Unknown = Unknown
INVARIANTS
    FileIsRead
