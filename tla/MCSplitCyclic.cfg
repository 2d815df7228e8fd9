SPECIFICATION SplitSpec
CONSTANTS
    NoValue = NoValue
    BucketLimit = 6
    MaxItems = 6
    Value <- CyclicValue
    Name <- CyclicName
    HasKey <- CyclicHasKey
    KeyOf <- CyclicKeyOf
    CompareOf <- CyclicCompareOf
    GroupCount <- CyclicGroupCount
    GroupOf <- CyclicGroupOf
    Rng <- MCRng
    Plan <- CyclicPlan
INVARIANTS
    PositionsInsideSample
CHECK_DEADLOCK FALSE
