-------------------------- MODULE MCSplitPositions --------------------------
(***************************************************************************)
(* Instances of SplitPositions: the sort keys of the layout runs, and one  *)
(* comparator with cycles over six values.                                 *)
(***************************************************************************)
EXTENDS SplitPositions, LayoutInstance

\* CyclicRow[v][w] = -1 when v is less than w.  Antisymmetric, but 1 < 3 < 4 < 1.
CyclicRow == << << 0,  0, -1,  1,  1, -1>>,
                << 0,  0, -1, -1,  1, -1>>,
                << 1,  1,  0, -1, -1,  1>>,
                <<-1,  1,  1,  0,  1,  0>>,
                <<-1, -1,  1, -1,  0, -1>>,
                << 1,  1, -1,  0,  1,  0>> >>

CyclicValue == 1 .. 6
CyclicName == {"cyclic"}
CyclicHasKey == [n \in CyclicName |-> FALSE]
CyclicKeyOf == [n \in CyclicName |-> [v \in CyclicValue |-> 0]]
CyclicCompareOf == [n \in CyclicName |-> CyclicRow]
CyclicGroupCount == [n \in CyclicName |-> 1]
CyclicGroupOf == [n \in CyclicName |-> [v \in CyclicValue |-> 1]]
CyclicPlan == {[base EXCEPT !.kind = "uniform", !.max_buckets = 6]}
=============================================================================
