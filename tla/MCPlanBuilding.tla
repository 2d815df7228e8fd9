--------------------------- MODULE MCPlanBuilding ---------------------------
(* An instance of PlanBuilding with the arguments of the layout runs.      *)
EXTENDS PlanBuilding, LayoutInstance
=============================================================================
