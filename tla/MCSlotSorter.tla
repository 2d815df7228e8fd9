---------------------------- MODULE MCSlotSorter ----------------------------
(***************************************************************************)
(* Instances of SlotSorter: a sort key under which neighbours tie, and one *)
(* whose comparator goes in circles.                                       *)
(***************************************************************************)
EXTENDS SlotSorter

CONSTANT Slots  \* how many slots there are

MCSlot == 1 .. Slots

sign(x) == IF x < 0 THEN -1 ELSE IF x > 0 THEN 1 ELSE 0

\* Later slots come first, but 2 and 3 tie, and so do 4 and 5.
Tied == [a \in MCSlot |-> [b \in MCSlot |-> sign((b \div 2) - (a \div 2))]]

\* Every slot comes before the next and after the one behind that.
Circle ==
    [a \in MCSlot |-> [b \in MCSlot |->
        LET d == (b - a) % 3 IN IF d = 0 THEN 0 ELSE IF d = 1 THEN -1 ELSE 1]]

MCOutcomes == {Tied, Circle}
=============================================================================
