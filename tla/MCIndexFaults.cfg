SPECIFICATION FaultSpec
CONSTANTS
    NoValue = NoValue
    Handle = {h1, h2}
    Ranks = 2
    Name = {"name", "natural"}
    Aliasing = TRUE
    BucketLimit = 65535
    MaxItems = 2
    MaxBulk = 1
    MaxKeys = 2
    MaxChurn = 1
    Directions = {"ascending"}
    Value <- MCValue
    HasKey <- MCHasKey
    KeyOf <- MCKeyOf
    CompareOf <- MCCompareOf
    GroupCount <- MCGroupCount
    GroupOf <- MCGroupOf
    Rng <- MCRng
    Plan <- ManualPlan
VIEW FaultNoResult
SYMMETRY Symmetric
INVARIANTS
    ReportedMeansExact
PROPERTIES
    AnswersSurvive
    ActiveKeyKept
