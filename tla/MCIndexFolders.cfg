SPECIFICATION Spec
CONSTANTS
    NoValue = NoValue
    Handle = {h1, h2, h3, h4}
    Ranks = 3
    Name = {"folders"}
    Aliasing = TRUE
    BucketLimit = 65535
    MaxItems = 3
    MaxBulk = 2
    MaxKeys = 2
    MaxChurn = 1
    Directions = {"ascending", "descending"}
    Value <- MCValue
    HasKey <- MCHasKey
    KeyOf <- MCKeyOf
    CompareOf <- MCCompareOf
    GroupCount <- MCGroupCount
    GroupOf <- MCGroupOf
    Rng <- MCRng
    Plan <- AutoPlan
VIEW NoResult
SYMMETRY Symmetric
INVARIANTS
    TypeOK
    BucketsCurrent
    BucketsInOrder
    CountsExact
    StatsTrue
    SplittersLive
    SkippedChecksAreIdle
PROPERTIES
    ImplementsList
