SPECIFICATION ElsewhereSpec
CONSTANTS
    NoValue = NoValue
    Handle = {h1, h2, h3}
    Ranks = 2
    Name = {"natural"}
    Aliasing = TRUE
    BucketLimit = 65535
    MaxItems = 3
    MaxBulk = 1
    MaxKeys = 2
    MaxChurn = 2
    Directions = {"ascending"}
    Value <- MCValue
    HasKey <- MCHasKey
    KeyOf <- MCKeyOf
    CompareOf <- MCCompareOf
    GroupCount <- MCGroupCount
    GroupOf <- MCGroupOf
    Rng <- MCRng
    Plan <- OneBucketPlan
VIEW FaultNoResult
SYMMETRY Symmetric
INVARIANTS
    ReportedMeansExact
