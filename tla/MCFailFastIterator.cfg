SPECIFICATION IterSpec
CONSTANTS
    NoValue = NoValue
    Handle = {h1, h2}
    Ranks = 2
    Name = {"name"}
    Aliasing = TRUE
    BucketLimit = 65535
    MaxItems = 2
    MaxBulk = 2
    MaxKeys = 2
    MaxChurn = 2
    Directions = {"descending"}
    Value <- MCValue
    HasKey <- MCHasKey
    KeyOf <- MCKeyOf
    CompareOf <- MCCompareOf
    GroupCount <- MCGroupCount
    GroupOf <- MCGroupOf
    Rng <- MCRng
    Plan <- TwoAutoPlans
VIEW IteratorNoResult
SYMMETRY Symmetric
INVARIANTS
    IterationExact
PROPERTIES
    AnswersExact
