------------------------- MODULE MCLayoutEstimation -------------------------
(* Instance of LayoutEstimation for TLC.                                   *)
EXTENDS ReadsAfterLayout, LayoutInstance
=============================================================================
