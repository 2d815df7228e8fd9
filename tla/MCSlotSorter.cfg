SPECIFICATION Spec
CONSTANTS
    Slots = 6
    InsertionThreshold = 2
    Slot <- MCSlot
    Outcomes <- MCOutcomes
INVARIANTS
    TypeOK
    PrefixExact
    BufferSuffices
PROPERTIES
    NothingLost
