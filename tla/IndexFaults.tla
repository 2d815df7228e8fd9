----------------------------- MODULE IndexFaults -----------------------------
(***************************************************************************)
(* BucketIndex among callers who break off and callers who come late: the  *)
(* key, compare, group and mutate functions may throw out of any loop that *)
(* calls them, and an element that is a handle may be changed elsewhere    *)
(* and reported through update() only afterwards (bucketed_list.hpp).      *)
(*                                                                         *)
(* An exception out of a call leaves what its loops had done until then.   *)
(* damaged are the sort keys it left half-way; a caller may go on with the *)
(* others, and repairs those by rebalance, by registering them again or by *)
(* clear.  Where the code has no array for a comparator-only key, the      *)
(* model's keys hold zeros that grow with items.                           *)
(***************************************************************************)
EXTENDS BucketIndex

VARIABLES
    unread,  \* elements changed since all sort keys last read them
    damaged  \* names of the sort keys an exception left half-way

index == <<items, val, states, active, direction, plan>>

faultvars == <<index, result, unread, damaged>>

names_from(i) == {states[j].name : j \in i .. Len(states)}
-----------------------------------------------------------------------------
(* What exceptions leave behind                                            *)

\* append was not finished for the last element; stored: its key was pushed.
half_appended(st, stored, its, vl) ==
    IF has_key(st.name) /\ ~ stored THEN st
    ELSE [st EXCEPT !.keys = Append(@, key(st.name, vl[Last(its)]))]

\* The element is in the collection and under the sort keys before the i-th,
\* whose key function (or, when stored, compare or group function) throws.
add_throws(h, v, i, stored) ==
    /\ Len(items) < MaxItems
    /\ items' = Append(items, h)
    /\ val' = with_added(<<h>>, [x \in {h} |-> v])
    /\ states' = [j \in DOMAIN states |->
          IF j < i THEN append(states[j], Len(items), items', val')
          ELSE half_appended(states[j], j = i /\ stored, items', val')]
    /\ damaged' = damaged \cup names_from(i)
    /\ result' = Thrown("add")
    /\ UNCHANGED <<active, direction, plan, unread>>

\* The loop of update_if ends at slot x: before the i-th sort key has read the
\* element, or with its key read and its bucket not.  No layout is estimated.
\* The caller knows no more than which elements it wanted to change.
update_throws(matching, change, x, i, stored) ==
    LET hit == {items[y] : y \in {z \in matching : z <= x}}
        done(j) == {y \in matching : y < x \/ (y = x /\ j < i)}
        rekeyed(j) == rekey(states[j], done(j), items, val')
    IN  /\ val' = [h \in DOMAIN val |-> IF h \in hit THEN change[h] ELSE val[h]]
        /\ states' = [j \in DOMAIN states |->
              IF j = i /\ stored
              THEN [rekeyed(j) EXCEPT !.keys[x] = key(states[j].name, val'[items[x]])]
              ELSE rekeyed(j)]
        /\ unread' = unread \cup {items[y] : y \in matching}
        /\ result' = Thrown("update_if")
        /\ UNCHANGED <<items, active, direction, plan, damaged>>

\* relayout has a new layout and the buckets of the slots before x.
half_relayouted(st, x, its, vl, pl) ==
    LET fresh == with_layouts(st, estimate_layouts(st.name, values(its, vl), st.keys, pl), its, vl)
        bs == [y \in DOMAIN its |-> IF y < x THEN bucket_for(fresh, vl[its[y]], st.keys[y], vl)
                                    ELSE st.buckets[y]]
    IN  [fresh EXCEPT !.splitter_changed = FALSE,
                      !.estimated_from = Len(its),
                      !.buckets = bs,
                      !.counts = tally(SubSeq(bs, 1, x - 1), bucket_total(fresh))]

\* Rebalancing all sort keys ends at slot x of the i-th.
rebalance_all_throws(i, x) ==
    /\ states' = [j \in DOMAIN states |->
          IF j < i THEN relayout(states[j], items, val, plan)
          ELSE IF j = i THEN half_relayouted(states[j], x, items, val, plan) ELSE states[j]]
    /\ damaged' = damaged \cup {states[i].name}
    /\ result' = Thrown("rebalance_all")
    /\ UNCHANGED <<items, val, active, direction, plan, unread>>

\* A sorted read ends in the merge sort of bucket b, after the buckets in bs:
\* any slots of the bucket may be in its places now, some twice, some not.
sort_throws(bs, b, left) ==
    LET st == sort_buckets(prepare(states[active], items, val, plan), bs, items, val)
    IN  /\ states' = [states EXCEPT ![active] =
              [st EXCEPT !.order = [p \in DOMAIN st.order |->
                  IF p \in st.start[b] + 1 .. st.start[b + 1] THEN left[p] ELSE st.order[p]]]]
        /\ damaged' = damaged \cup {states[active].name}
        /\ result' = Thrown("sort_all")
        /\ UNCHANGED <<items, val, active, direction, plan, unread>>

\* The owner of an element changes it.
change_elsewhere(h, v) ==
    /\ val' = [val EXCEPT ![h] = v]
    /\ unread' = unread \cup {h}
    /\ result' = Void("elsewhere")
    /\ UNCHANGED <<items, states, active, direction, plan, damaged>>
-----------------------------------------------------------------------------
(* What callers do                                                         *)

\* Bound: the next accident happens when the damage of the last is repaired and
\* every change is reported.
Throw == damaged = {} /\ unread = {} /\
    \/ \E h \in Fresh, v \in Value, i \in DOMAIN states, stored \in BOOLEAN :
          Bounded(1) /\ add_throws(h, v, i, stored)
    \/ \E matching \in {S \in SUBSET DOMAIN items : Cardinality(S) <= MaxBulk} :
          Bounded(Cardinality(matching)) /\
          \E change \in [{items[x] : x \in matching} -> Value] :
          \E x \in matching, i \in DOMAIN states, stored \in BOOLEAN :
              update_throws(matching, change, x, i, stored)
    \/ \E i \in DOMAIN states, x \in DOMAIN items : rebalance_all_throws(i, x)
    \/ /\ active # npos
       /\ \E st \in {prepare(states[active], items, val, plan)} :
          \E b \in DOMAIN st.counts : \E a \in 1 .. b :
          LET places == st.start[b] + 1 .. st.start[b + 1]
          IN  /\ st.sorted_len[b] < st.counts[b] /\ st.counts[b] > 1
              /\ \E left \in [places -> ToSet(grouped(st, b))] : sort_throws(a .. b - 1, b, left)

\* Reads under a sort key that is not damaged; range reads like several at.
find ==
    /\ ActiveKey \notin damaged
    /\ \E x \in 1 .. Len(items) + 1 : position_if(x .. Len(items))
    /\ UNCHANGED <<unread, damaged>>

read ==
    /\ ActiveKey \notin damaged
    /\ (\E p \in DOMAIN items : at(p)) \/ first_page \/ for_each \/ sort_all
    /\ UNCHANGED <<unread, damaged>>

select ==
    /\ \/ \E k \in Name : add_sort_key(k) /\ UNCHANGED damaged
       \/ \E k \in Name : remove_sort_key(k) /\ damaged' = damaged \ {k}
       \/ \E k \in Name \ damaged, dir \in Directions : sort_by(k, dir) /\ UNCHANGED damaged
       \/ unsort /\ UNCHANGED damaged
    /\ UNCHANGED unread

\* A key that was not pushed can be repaired by registering the sort key again only.
complete(k) == \A i \in find_state(k) : Len(states[i].keys) = Len(items)

repair ==
    \/ \E k \in Name : complete(k) /\ rebalance(k) /\ damaged' = damaged \ {k} /\ UNCHANGED unread
    \/ clear /\ damaged' = {} /\ unread' = {}

\* Changes need all sort keys; what they replace or remove need not be reported.
grow ==
    /\ damaged = {}
    /\ \E h \in Fresh, v \in Value : Room(1) /\ add(h, v)
    /\ UNCHANGED <<unread, damaged>>

shrink ==
    /\ damaged = {}
    /\ \E kept \in Selections(Len(items)) : Bounded(Len(items) - Len(kept)) /\ remove_if(kept)
    /\ unread' = unread \cap ToSet(items')
    /\ UNCHANGED damaged

report ==
    /\ damaged = {}
    /\ \E matching \in {S \in SUBSET DOMAIN items : Cardinality(S) <= MaxBulk} :
          /\ Bounded(Cardinality(matching))
          /\ \E to \in [{items[x] : x \in matching} -> Value] : update_if(matching, to)
          /\ unread' = unread \ {items[x] : x \in matching}
    /\ UNCHANGED damaged

\* Bound: one element at a time is changed and not reported.
elsewhere ==
    /\ Aliasing /\ unread = {} /\ damaged = {}
    /\ \E h \in ToSet(items) : \E v \in Value \ {val[h]} : change_elsewhere(h, v)

FaultInit == Init /\ unread = {} /\ damaged = {}

\* Callers that report every change before they look at a sorted order again.
FaultNext ==
    \/ (unread = {} \/ active = npos) /\ (read \/ find)
    \/ select \/ repair \/ grow \/ shrink \/ report \/ elsewhere \/ Throw

FaultSpec == FaultInit /\ [][FaultNext]_faultvars

\* Callers that, for an element changed elsewhere, call position_of and update.
ElsewhereNext ==
    \/ (unread = {} \/ active = npos) /\ read
    \/ find \/ select \/ grow \/ report \/ elsewhere

ElsewhereSpec == FaultInit /\ [][ElsewhereNext]_faultvars
-----------------------------------------------------------------------------
(* Correctness                                                             *)

\* The index with no other sort keys than those that are not damaged.
Healthy == INSTANCE BucketIndex WITH
    states <- SelectSeq(states, LAMBDA st : st.name \notin damaged),
    active <- npos

\* Once update() was called for every element that was changed, and whatever was
\* thrown out of whichever callback before, all that is cached for a sort key the
\* exception did not leave half-way is exact; when the damaged ones are repaired
\* that is all of them.
ReportedMeansExact ==
    unread = {} =>
        /\ Healthy!TypeOK /\ Healthy!BucketsCurrent /\ Healthy!CountsExact
        /\ Healthy!GroupingComplete /\ Healthy!PrefixesSorted

\* Every call that returns answers what the promised collection answers,
\* between accidents and after them.
AnswersSurvive ==
    [][result'.num # npos /\ result'.op # "elsewhere" => List!Next]_faultvars
=============================================================================
