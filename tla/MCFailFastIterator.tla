------------------------- MODULE MCFailFastIterator -------------------------
(***************************************************************************)
(* An instance of FailFastIterator over the sort keys of MCBucketIndex.    *)
(***************************************************************************)
EXTENDS FailFastIterator, MCBucketIndex

\* result is recorded for the checks only, as in MCBucketIndex.
IteratorNoResult == <<NoResult, iterator, promised>>
=============================================================================
