SPECIFICATION Spec
CONSTANTS
    NoValue = NoValue
    BucketLimit = 4
    MaxItems = 5
    Word = 64
    Ulp = 4
    default_page_size = 3
    default_max_buckets = 4
    max_sample_size = 4096
    PageSizes = {0, 1, 2, 5, 61}
    Growths <- MCGrowths
    BucketCounts = {0, 1, 2, 3, 5}
    SizeLists <- MCSizeLists
    SampleSizes = {0, 3}
    Seeds = {2}
    Skews <- MCSkews
    MaxElements = 12
    Value <- MCValue
    Name <- MCName
    HasKey <- MCHasKey
    KeyOf <- MCKeyOf
    CompareOf <- MCCompareOf
    GroupCount <- MCGroupCount
    GroupOf <- MCGroupOf
    Rng <- MCRng
    Plan <- MCPlan
INVARIANTS
    PositionsInsideSample
    SplitsBetweenRuns
    TypeOK
    TargetsPartition
    BucketsFollowOrder
    ExpectedMatchesData
    EndsOnePageLong
    DistinctMeetTargets
    ReadsSettle
CHECK_DEADLOCK FALSE
