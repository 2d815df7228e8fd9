-------------------------- MODULE FailFastIterator --------------------------
(***************************************************************************)
(* The iterator of the Java index (BucketIndex.java), which sorts buckets  *)
(* as it reaches them.  It remembers modCount and refuses to go on once    *)
(* that has moved; the model keeps whether it has.  The calls between two  *)
(* next() are those of BucketIndex, which the Java class ports.            *)
(***************************************************************************)
EXTENDS BucketIndex

VARIABLES
    iterator,  \* what the caller's iterator knows, and what it has returned
    promised   \* the order of the elements when it was made

allvars == <<items, val, states, active, direction, plan, result, iterator, promised>>

\* Every element in the order the collection promises.
Order == List!Elements(0, Len(items))

ModifyingCalls ==
    {"add_sort_key", "sort_by", "unsort", "rebalance", "rebalance_all", "set_plan",
     "add", "add_all", "clear"}

\* Broken: updates in place are no modification.
modifies_without_updates(call) ==
    \/ call.op \in ModifyingCalls /\ call.num # npos
    \/ call.op \in {"remove_sort_key", "remove_if"} /\ call.num > 0

\* Does the call increment modCount?
modifies(call) ==
    \/ call.op \in ModifyingCalls /\ call.num # npos
    \/ call.op \in {"remove_sort_key", "remove_if", "update_if"} /\ call.num > 0

\* iterator()
open ==
    /\ iterator' = [modified |-> FALSE, position |-> 0, seen |-> << >>]
    /\ promised' = Order
    /\ result' = Void("iterator")
    /\ UNCHANGED <<items, val, states, active, direction, plan>>

hasNext == iterator.position < Len(items)

next ==
    /\ IF iterator.modified \/ ~ hasNext
       THEN /\ result' = Thrown("next")
            /\ UNCHANGED <<items, val, states, active, direction, plan, iterator>>
       ELSE /\ at(iterator.position + 1)
            /\ iterator' = [iterator EXCEPT !.position = @ + 1,
                                            !.seen = Append(@, result'.out[1])]
    /\ UNCHANGED promised

\* Any other call of the caller, made while the iterator is in use.  The Java arrays
\* grow for all elements of a call before the first is added: there is no capacity at
\* which part of them is refused, so no such calls are made.
other ==
    /\ Next /\ result' \notin {Thrown("add"), Thrown("add_all")}
    /\ iterator' = [iterator EXCEPT !.modified = @ \/ modifies(result')]
    /\ UNCHANGED promised

IterInit ==
    /\ Init
    /\ iterator = [modified |-> FALSE, position |-> 0, seen |-> << >>]
    /\ promised = << >>

IterNext == open \/ next \/ other

IterSpec == IterInit /\ [][IterNext]_allvars
-----------------------------------------------------------------------------
(* Correctness                                                             *)

\* An iterator that still goes on has returned the first elements of the order
\* it was made for, and the collection still has that order: nothing it was not
\* told of, such as a rebalance in the middle of a read, moves an element past
\* it.
IterationExact ==
    ~ iterator.modified =>
        /\ promised = Order
        /\ iterator.seen = SubSeq(promised, 1, iterator.position)

\* Iterating between them does not change what any call answers: next() sorts
\* and rebalances as at does, under whichever plan was set in between.
AnswersExact == [][result'.op \notin {"iterator", "next"} => List!Next]_allvars
=============================================================================
