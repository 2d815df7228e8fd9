---------------------------- MODULE BucketedList ----------------------------
(***************************************************************************)
(* What the collection promises its callers                                *)
(* (include/speedup/bucketization/bucketed_list.hpp), with no buckets, no  *)
(* caches and no laziness: a read returns the exact order of the active    *)
(* sort key, computed here from the elements by counting how many come     *)
(* before each one.  Rebalancing and sorting ahead change nothing.         *)
(***************************************************************************)
EXTENDS SortKey, StdAlgorithms, FiniteSets

CONSTANTS
    Handle,    \* identities of elements
    PageSize,  \* the page sizes a plan may have
    Capacity,  \* the most elements the collection takes
    MaxBulk    \* bound: elements per add_all

VARIABLES
    items,      \* the elements in insertion order
    val,        \* the value of every element
    names,      \* the registered sort keys, in order of registration
    active,     \* the active sort key, or "" in insertion order
    direction,  \* "ascending" or "descending"
    page,       \* the page size of the plan
    result      \* the last call: what it was and what it returned

vars == <<items, val, names, active, direction, page, result>>

Unsorted == ""

Call(op, arg, out, num) == [op |-> op, arg |-> arg, out |-> out, num |-> num]

\* Slot x comes before slot y under sort key k: compare, then insertion order.
AscendingBefore(k, x, y) ==
    LET c == compare(k, val[items[x]], val[items[y]])
    IN  c < 0 \/ (c = 0 /\ x < y)

\* Descending reverses the order inside each group; groups keep their order.
Before(k, dir, x, y) ==
    IF dir = "ascending" \/ group(k, val[items[x]]) # group(k, val[items[y]])
    THEN AscendingBefore(k, x, y) ELSE AscendingBefore(k, y, x)

\* The position of every slot and the slot at every position.
PositionOf(x) ==
    IF active = Unsorted THEN x
    ELSE 1 + Cardinality({y \in DOMAIN items : Before(active, direction, y, x)})

SlotAt(p) == CHOOSE x \in DOMAIN items : PositionOf(x) = p

Elements(from, to) == [i \in 1 .. to - from |-> items[SlotAt(from + i)]]
-----------------------------------------------------------------------------
Init ==
    /\ items = << >> /\ val = << >>
    /\ names = << >> /\ active = Unsorted /\ direction = "ascending"
    /\ page \in PageSize
    /\ result = Call("init", << >>, << >>, 0)

\* The step answers the call op with arguments arg; what it answers is compared
\* once the call is known to be this one.
Answers(op, arg, out, num) ==
    /\ result'.op = op /\ result'.arg = arg
    /\ result' = Call(op, arg, out, num)

\* A call that leaves the collection as it is.
Observes(op, arg, out, num) ==
    /\ Answers(op, arg, out, num)
    /\ UNCHANGED <<items, val, names, active, direction, page>>

Throws(op) == Observes(op, << >>, << >>, -1)

at(p) == IF p > Len(items) THEN Throws("at") ELSE Observes("at", <<p>>, Elements(p - 1, p), 0)

range(from, until) ==
    Observes("range", <<from, until>>,
             Elements(from, IF until <= Len(items) THEN until ELSE Len(items)), 0)

position_if(matching) ==
    LET first == CHOOSE x \in matching : \A y \in matching : x <= y
    IN  IF matching = {} THEN Observes("position_if", << >>, << >>, 0)
        ELSE Observes("position_if", <<first>>, << >>, PositionOf(first))

for_each == Observes("for_each", << >>, Elements(0, Len(items)), 0)

\* Sorting ahead and rebalancing are invisible.
sort_all == Observes("sort_all", << >>, << >>, 0)
rebalance_all == Observes("rebalance_all", << >>, << >>, 0)
rebalance(k) ==
    IF k \in ToSet(names) THEN Observes("rebalance", << >>, << >>, 0) ELSE Throws("rebalance")

add_sort_key(k) ==
    IF k \in ToSet(names) THEN Throws("add_sort_key")
    ELSE /\ Answers("add_sort_key", << >>, << >>, 0) /\ names' = Append(names, k)
         /\ UNCHANGED <<items, val, active, direction, page>>

remove_sort_key(k) ==
    IF k \notin ToSet(names) THEN Observes("remove_sort_key", << >>, << >>, 0)
    ELSE /\ \E i \in DOMAIN names : names[i] = k /\ names' = RemoveAt(names, i)
         /\ active' = IF active = k THEN Unsorted ELSE active
         /\ Answers("remove_sort_key", << >>, << >>, 1)
         /\ UNCHANGED <<items, val, direction, page>>

sort_by(k, dir) ==
    IF k \notin ToSet(names) THEN Throws("sort_by")
    ELSE /\ Answers("sort_by", << >>, << >>, 0) /\ active' = k /\ direction' = dir
         /\ UNCHANGED <<items, val, names, page>>

unsort ==
    /\ Answers("unsort", << >>, << >>, 0) /\ active' = Unsorted
    /\ UNCHANGED <<items, val, names, direction, page>>

set_plan ==
    /\ Answers("set_plan", << >>, << >>, 0) /\ page' \in PageSize
    /\ UNCHANGED <<items, val, names, active, direction>>

\* The elements hs, with any values, behind the ones there are.
Appends(hs) ==
    /\ items' = items \o hs
    /\ \E vs \in [ToSet(hs) -> Value] :
          val' = [h \in ToSet(items) \cup ToSet(hs) |-> IF h \in DOMAIN vs THEN vs[h] ELSE val[h]]
    /\ UNCHANGED <<names, active, direction, page>>

add(h) ==
    IF Len(items) >= Capacity THEN Throws("add")
    ELSE Answers("add", << >>, << >>, 0) /\ Appends(<<h>>)

\* What fits is added; an exception says that something did not.
add_all(hs) ==
    LET room == Capacity - Len(items)
    IN  IF Len(hs) > room
        THEN Answers("add_all", << >>, << >>, -1) /\ Appends(SubSeq(hs, 1, room))
        ELSE Answers("add_all", << >>, << >>, 0) /\ Appends(hs)

Removes(matching) ==
    /\ items' = only(items, Handle \ matching)
    /\ val' = [h \in DOMAIN val \ matching |-> val[h]]
    /\ UNCHANGED <<names, active, direction, page>>

remove_if(matching) ==
    Answers("remove_if", << >>, << >>, Cardinality(matching)) /\ Removes(matching)

clear == Answers("clear", << >>, << >>, 0) /\ Removes(ToSet(items))

update_if(matching) ==
    /\ Answers("update_if", << >>, << >>, Cardinality(matching))
    /\ \E vs \in [matching -> Value] :
          val' = [h \in DOMAIN val |-> IF h \in matching THEN vs[h] ELSE val[h]]
    /\ UNCHANGED <<items, names, active, direction, page>>
-----------------------------------------------------------------------------
\* Sequences of at most m new, distinct elements.
NewElements(m) ==
    {hs \in UNION {[1 .. i -> Handle \ ToSet(items)] : i \in 0 .. m} :
        \A i, j \in DOMAIN hs : hs[i] = hs[j] => i = j}

\* Which call a step answers is looked at before its arguments are.
Is(op) == result'.op = op

Next ==
    \/ Is("at") /\ \E p \in 1 .. Len(items) + 1 : at(p)
    \/ Is("range") /\ \E from, until \in 0 .. Len(items) + 1 : range(from, until)
    \/ range(0, page)
    \/ Is("position_if") /\ \E matching \in SUBSET DOMAIN items : position_if(matching)
    \/ for_each \/ sort_all \/ rebalance_all \/ unsort \/ set_plan \/ clear
    \/ \E k \in Name : \/ rebalance(k) \/ add_sort_key(k) \/ remove_sort_key(k)
                       \/ \E dir \in {"ascending", "descending"} : sort_by(k, dir)
    \/ \E h \in Handle \ ToSet(items) : add(h)
    \/ Is("add_all") /\ \E hs \in NewElements(MaxBulk) : add_all(hs)
    \/ Is("remove_if") /\ \E matching \in SUBSET ToSet(items) : remove_if(matching)
    \/ Is("update_if") /\ \E matching \in SUBSET ToSet(items) : update_if(matching)

Spec == Init /\ [][Next]_vars
=============================================================================
