--------------------------- MODULE MCIndexFaults ---------------------------
(***************************************************************************)
(* Instances of IndexFaults over the sort keys of MCBucketIndex.           *)
(***************************************************************************)
EXTENDS IndexFaults, MCBucketIndex

FaultNoResult == <<NoResult, unread, damaged>>
=============================================================================
