--------------------------- MODULE MCIndexQueries ---------------------------
(* Instances of IndexQueries over the sort keys of MCBucketIndex.          *)
EXTENDS IndexQueries, MCBucketIndex
=============================================================================
