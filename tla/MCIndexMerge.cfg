SPECIFICATION Spec
CONSTANTS
    NoValue = NoValue
    Handle = {h1, h2, h3}
    Ranks = 3
    Name = {"natural", "cyclic"}
    Aliasing = TRUE
    BucketLimit = 65535
    MaxItems = 3
    MaxBulk = 1
    MaxKeys = 1
    MaxChurn = 2
    Directions = {"ascending"}
    Value <- MCValue
    HasKey <- MCHasKey
    KeyOf <- MCKeyOf
    CompareOf <- MCCompareOf
    GroupCount <- MCGroupCount
    GroupOf <- MCGroupOf
    Rng <- MCRng
    Plan <- OneBucketPlan
VIEW NoResult
SYMMETRY Symmetric
INVARIANTS
    GroupingComplete
    PrefixesSorted
PROPERTIES
    SortedWorkKept
    EveryElementOnce
