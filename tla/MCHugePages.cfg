SPECIFICATION BuildSpec
CONSTANTS
    Word = 64
    Ulp = 4
    default_page_size = 3
    default_max_buckets = 64
    max_bucket_limit = 65535
    max_sample_size = 4096
    PageSizes = {1, 61, 63}
    Growths <- MCGrowths
    BucketCounts = {0, 1, 2, 3, 5}
    SizeLists <- MCSizeLists
    SampleSizes = {0, 3}
    Seeds = {2}
    Skews <- MCSkews
    MaxElements = 6
INVARIANTS
    EndsOnePageLong
