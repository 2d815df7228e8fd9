SPECIFICATION Spec
CONSTANTS
    sign_bit = 16
    Infinity = 12
    Finer = 4
    KeyBytes = 2
    MaxLength = 3
    Byte <- MCByte
    Char <- MCChar
    Fold <- MCFold
INVARIANTS
    NumbersInOrder
    NeverInverted
    PrefixKeysFaithful
    AsciiPrefixDecides
    NaturalIsTotal
