SPECIFICATION SimdSpec
CONSTANTS
    Half = 200
    Element = {1, 2, 3}
    MaxSize = 141
    Sizes = {0, 1, 2, 3}
    LongCalls <- MCLongCalls
    Preceding = {0}
INVARIANTS
    TypeOK
    AnswersRight
PROPERTIES
    EveryCallReturns
