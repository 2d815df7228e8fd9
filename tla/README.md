# TLA+ models of SpeedUp

SpeedUp's own logic is **bucketization**: a collection that can be shown in the
order of any of several sort keys, where switching the order costs a counting
pass and only the part on screen is ever sorted. The C++ library
(`include/speedup/bucketization/`) is header-only and single-threaded; the Java
port (`bindings/java/bucketization/`) is the same algorithm. What makes it hard
is not concurrency but **laziness**: a dozen cached arrays per sort key are kept
in step by increments, flags and slot renumbering across adds, updates,
removals, rebalances and reads that sort a little as they go. A mistake shows
only in a read several calls later, under some sort key that was not active
when it was made. Around it are the key encodings, what the Java port does on
its own, and a small C and assembly library of binary searches.

## Inventory

| Component | State it keeps | Operations | Hard behaviour | What makes it correct |
|---|---|---|---|---|
| `BucketIndex` (`bucket_index.hpp`) | elements, one `KeyState` per sort key, active key, direction, plan | `add_sort_key`, `remove_sort_key`, `sort_by`, `unsort`, `at`, `range`, `first_page`, `position_if`, `for_each`, `sort_all`, `rebalance`, `rebalance_all`, `set_plan`, `add`, `add_all`, `remove_if`, `update_if`, `clear`; queries such as `stats` | stale caches, split points that alias elements, slot renumbering, automatic rebalancing inside reads, callbacks that throw half-way, elements changed elsewhere | every call answers as an eagerly sorted list would; caches agree with the elements |
| `BucketedList` (`bucketed_list.hpp`) | the interface | the same | exact order, ties, groups in descending order | the abstract specification |
| `BucketLayout` (`bucket_layout.hpp`) | split points, expected sizes | `estimate`, `bucket_of` | ties, colliding keys, samples, positions at the ends | bucket ids follow the exact order; positions inside the sample |
| `BucketPlan` (`bucket_plan.hpp`) | an immutable description | factories, `with_...`, `target_sizes` | tiny collections, limits, rounding, page sizes near the maximum | sizes are positive and add up |
| `SortKey` (`sort_key.hpp`) | the caller's key, tie-breaker, group functions | `compare`, `group`, `key` | inconsistent comparators | lexicographic by group, key, tie-breaker |
| `keys.hpp` | none | order-preserving encodings | signs, NaN, prefixes cut off inside a letter | order of encodings is order of values |
| Java port | as above, plus `modCount`, grown arrays | as above, plus iterators and `asList` views | iterators against relayouts, exceptions half-way | as above, and fail-fast iteration |
| C binary search and dispatch (`src/algorithms`, `src/core`, `src/backends/gpu`) | three hints | a search, a choice of backend | fall back from a GPU that is not there | finds the key if present, always returns |
| Win64 assembly searches | none | five searches | loads ahead of the comparison, sums of positions | as the reference |
| Legacy benchmark (`legacy/benchmark_win.c`) | none | two AVX2 searches | four probes a round, lanes listed highest first, a switch of loops | as the reference |
| Examples (`file_browser.cpp`) | none | the natural order of names | numbers, zeros and case mixed | a total order |
| init and CPU features, tests, other benchmarks, other bindings, code generation | - | - | stubs, callers and harnesses | - |

The components interact by calls only. `BucketIndex` calls the plan and the
layout whenever it estimates (`relayout`), the layout's `bucket_of` for every
element added or changed, and the caller's functions through `SortKey`. Reads
change state: `prepare` may rebalance, build or regroup, and `sort_bucket`
sorts what a position needs. There are no threads, no messages and nothing is
persisted, so the models have no crashes, losses or interleaved steps: every
public call is one action, and the hard part is the order of the calls. What can
fail are the caller's functions: an exception leaves a call where it stands. The
searches stand alone; nothing in bucketization calls them.

## Modules

| Module | Models | Extends |
|---|---|---|
| `SortKey` | `sort_key.hpp`; the caller's functions are constant tables over the values | - |
| `BucketPlan` | `bucket_plan.hpp`: target sizes | - |
| `StdAlgorithms` | the `std::` algorithms the code calls (external): the searches and merges step by step, because comparators may have cycles | - |
| `BucketLayout` | `bucket_layout.hpp`, and `estimate_layouts` of the index | the three above |
| `SplitPositions` | the first half of `estimate` for a collection that grows, also for comparators that are no order | `BucketLayout` |
| `PlanBuilding` | `bucket_plan.hpp`: the factories and setters, what they refuse, and the rounding of page sizes | `BucketPlan` |
| `LayoutEstimation` | the second half of `estimate`: a plan is built (an instance of `PlanBuilding`), then used for the layouts of the same collection | `SplitPositions` |
| `BucketIndex` | `bucket_index.hpp`: the whole index, one action per public call | `BucketLayout` |
| `BucketedList` | `bucketed_list.hpp`: what a call promises; the abstract specification | `SortKey` |
| `IndexFaults` | the index among callers whose functions throw and who change elements elsewhere and report it later | `BucketIndex` |
| `IndexQueries` | `stats` and `needs_rebalance` as functions of a `KeyState` | `BucketIndex` |
| `ReadsAfterLayout` | reads of the index for the collections and plans of `LayoutEstimation`, with samples that miss elements | `LayoutEstimation`, an instance of `BucketIndex` |
| `LayoutProofs` | lemmas about `StdAlgorithms`, recursive functions and orders; target sizes, samples, splits and buckets of a layout, proved | `BucketLayout` |
| `EstimationProofs` | every property of `LayoutEstimation` and `SplitPositions`, proved | `LayoutEstimation`, `LayoutProofs` |
| `BucketIndexProofs` | types, staleness and the active key; the stages of a call, counts and skipped checks; cached groupings and the order of bucket ids, proved | `BucketIndex`, `LayoutProofs` |
| `ReadingProofs` | what reads show, that sorted prefixes are exact and kept, and that reads come to rest, proved | `BucketIndexProofs` |
| `RefinementProofs` | the index implements `BucketedList`, and its iterators are fail-fast, proved | `ReadingProofs`, `FailFastIterator` |
| `FailFastIterator` | the Java iterator, used between the calls of the index | `BucketIndex` |
| `SlotSorter` | `SlotSorter.java` and its caller: a merge sort in a slot array with a small buffer | - |
| `SlotSorterProofs` | every property of `SlotSorter`, proved | `SlotSorter` |
| `NumericKeys` | `keys.hpp` for numbers, at any register width | - |
| `TextKeys` | `keys.hpp` and `Keys.java` for texts | - |
| `SortKeyOf` | `SortKey::of`: which key and which tie-breaker a projection gets | `NumericKeys`, `TextKeys` |
| `NaturalCompare` | `natural_compare` of the file browser, for the same pairs of texts | `SortKeyOf` |
| `SortKeyOfProofs` | theorems about `SortKeyOf` | `SortKeyOf` |
| `BinarySearch` | the C search, the choice of a backend, three assembly routines | - |
| `SimdSearch` | the two AVX2 searches, which hand over to loops of `BinarySearch` | `BinarySearch` |
| `BinarySearchProofs` | theorems about all the searches | `SimdSearch` |
| `MC*`, `LayoutInstance` | the instances for TLC | |

### How the state corresponds

`items`, `states`, `active`, `direction` and `plan` are the members `items_`,
`states_`, `active_`, `direction_` and `plan_`. A `KeyState` is a record with
the fields of the C++ struct; `group_offset` and `expected` are operators of
the layouts, `splitter_slots` and `moved` are sets. `result` is no member: it
records the last call and what it returned, for the comparison with
`BucketedList`.

- **Elements.** An element is a *handle*, `val` gives the value behind it. With
  `Aliasing` the element type is a pointer or id: a split point that stores an
  element sees later changes of it. Without, it keeps the value it copied. `val`
  is defined for the elements of the collection only, so a bucket computed
  from a removed element would be an evaluation error of TLC. Two elements of
  the collection are never the same handle.
- **Numbering.** Slots, positions, buckets and groups count from 1, in the code
  from 0; `range` keeps the code's half-open interval.
- **Callers.** A predicate is the set of slots it matches, a mutator a function
  to new values. Group, key and compare functions are total, except in `IndexFaults`.
- **Exceptions.** `damaged` names the sort keys an exception left half-way, `unread`
  the elements that some sort key has not read since they changed; the first is
  knowledge of the caller, the code does not keep it. `half_appended`,
  `half_relayouted`, `update_throws` and `sort_throws` give what the loops have
  done when they stop. An exception inside `add_sort_key` changes nothing, because
  the key is built aside (`bucket_index.hpp:46`), so there is no action for it.
- **Doubles.** `growth` and `rebalance_skew` are fractions, so `geometric_sizes`
  and the skew test are exact where the code rounds. `PlanBuilding` rounds the one
  double that can leave the range of `size_t`, the page size; the conversion back
  is undefined there and gives any number.
- **Random sampling.** `Rng[seed]` is a table of draws; the strides and the
  modulus are the code's.
- **Vectors** are sequences; loops that fill a vector are written as the vector
  they fill (`distribute` is the counting sort of `build_order` and `regroup`,
  `recounted` the increments and decrements of `counts`).

- **Iterator.** The model keeps whether `modCount` has moved since the iterator was
  made (`modified`) instead of the two counts; `seen` and `promised` record what it
  returned and the order it was made for. The calls in between are those of
  `BucketIndex` that are not refused for capacity: the C++ `add_all` keeps what fits and
  then throws, while the Java class has no such limit, so no such calls are made there.
- **Bits.** A floating-point number is its bit pattern; flipping bits is arithmetic on
  it. A text key is the sequence of its bytes.
- **Registers.** The assembly routines keep `left`, `right`, `mid` and the loaded
  element in registers; one step is one iteration. Arrays are defined on their
  indices only, so a read outside is an evaluation error. A round of a SIMD search is
  one step; `leading` is the chain of comparisons of the mask with 1, 3, 7 and 15.

Definitions whose comment begins with *Broken* are not used by any
specification: each is a version of the definition below it with a plausible
mistake, kept to show that the properties notice it.

## Runs

| Config | Module | Checks | Question |
|---|---|---|---|
| `MCIndexFolders` | `MCIndexQueries` | `TypeOK`, `BucketsCurrent`, `BucketsInOrder`, `CountsExact`, `StatsTrue`, `SplittersLive`, `SkippedChecksAreIdle`, `ImplementsList` | four handles and room for three, grouped key whose normalized keys collide, both directions, automatic rebalancing inside any call: is every answer exact, with empty groups and groups of one, does nothing cached go stale, and does `stats` tell the truth? |
| `MCIndexMerge` | `MCBucketIndex` | `GroupingComplete`, `PrefixesSorted`, `SortedWorkKept`, `EveryElementOnce` | one bucket: do partial sorts, merges, regroupings and compactions keep prefixes sorted, and keep them at all? And with a comparator that has cycles, is every element still returned once? |
| `MCIndexFaults` | `MCIndexFaults` | `ReportedMeansExact`, `AnswersSurvive`, `ActiveKeyKept` | two sort keys, callbacks that throw, changes made elsewhere: what is still exact, and is everything exact again after the repair? |
| `MCIndexElsewhere` | `MCIndexFaults` | `ReportedMeansExact`, **violated** | `position_of` and `update` for an element changed elsewhere: see below |
| `MCLayoutEstimation` | `MCLayoutEstimation` | `PositionsInsideSample`, `SplitsBetweenRuns`, `TypeOK`, `TargetsPartition`, `BucketsFollowOrder`, `ExpectedMatchesData`, `DistinctMeetTargets`, `EndsOnePageLong`, `ReadsSettle` | every plan that can be built, every collection of up to five elements: do target sizes keep their promises, are split positions legal, is no possible split missed, are layouts what they claim to be, and do reads settle when a layout is stale at once? |
| `MCHugePages` | `MCPlanBuilding` | `EndsOnePageLong`, **violated** | a page size next to the largest `size_t`: see below |
| `MCSplitCyclic` | `MCSplitPositions` | `PositionsInsideSample`, **violated** | a comparator with cycles: see below |
| `MCFailFastIterator` | `MCFailFastIterator` | `IterationExact`, `AnswersExact` | calls between two `next()`, two plans that rebalance inside them: does an iterator that goes on return what it was made for, and do the calls answer as without it? |
| `MCSlotSorter` | `MCSlotSorter` | `TypeOK`, `PrefixExact`, `BufferSuffices`, `NothingLost` | slots join and leave a bucket between sorts: exact, stable, never past the buffer, and no slot lost when the comparator has cycles? |
| `MCSortKeyOf` | `MCSortKeyOf` | `NumbersInOrder`, `NeverInverted`, `PrefixKeysFaithful`, `AsciiPrefixDecides`, `NaturalIsTotal` | all pairs of numbers of five types and of short texts: are keys in their order, does the prefix key agree with the full comparison, and is the natural order an order? |
| `MCNumericExact` | `MCSortKeyOf` | `ExactTellsApart`, **violated** | does a key without tie-breaker tell all numbers apart? See below |
| `MCSearches` | `MCSearches` | `TypeOK`, `AnswersRight`, `EveryCallReturns` | all small arrays, sorted or not, all routines and backends, and long sorted arrays for the SIMD searches: right answers, no read outside, no endless loop? |

### What the properties say

- `ImplementsList` is refinement: `BucketIndex` implements `BucketedList` under
  the mapping that forgets `states` but for the names, and `plan` but for the
  page size. `BucketedList` computes the order by counting, with no buckets; so
  every answer of `at`, `range`, `first_page`, `position_if` and `for_each` is
  exact after any sequence of calls, ties in insertion order, groups in order
  in both directions, exceptions where the code throws them, and what a full
  `add_all` leaves behind is what fitted.
- `PrefixesSorted` is why reads may merge instead of sort: the trusted prefix of
  every bucket of every cached grouping, without the slots marked to move, is in
  order *now*. `GroupingComplete` is why a read that finds no flag set may trust
  the grouping. `BucketsCurrent` and `SplittersLive` are why bucket ids computed
  long ago still mean something, and `BucketsInOrder` is what they mean: no element
  is in a bucket behind one it precedes, and ties share a bucket, so sorting the bucket
  of a position is enough to read it. `CountsExact` is why groupings may be built
  from incrementally kept sizes. None of these is visible in a result until much
  later, which is what makes them hard to test.
- `SortedWorkKept` is the promise of cheap switching (`bucketed_list.hpp:77-79`):
  no selecting, reading or registering call loses sorted work of any key.
- `SkippedChecksAreIdle` justifies the shortcut in `maybe_auto_rebalance`.
- `StatsTrue` compares what `stats` computes from bucket sizes with what `range`
  does: unless the read estimates a new layout first (`prepare` may), the predicted cost
  of the first page is the length of the buckets that `range` would sort for it, in both
  directions and for pages of any size, and when every bucket is reported sorted no read
  changes anything.
- `ReadsSettle` is about `maybe_auto_rebalance`. A layout estimated from a sample can be
  stale the moment it is made, so what makes reads settle is not the new layout: it is that
  a layout is not estimated again before `max(page_size, estimated_from / 8)` changes
  (`bucket_index.hpp:528`). The property reads the whole collection, for every
  collection, key and plan of the layout run, after half of its elements were added to a
  layout of the others, with samples that miss an element; a second read must find nothing to
  estimate, to regroup or to sort. Without the wait (`maybe_auto_rebalance_at_once`) it
  fails.
- `EveryElementOnce` is what is left of the promise for comparators with cycles
  (`docs/bucketization/README.md:92-93`), through cached prefixes and merges.
- `ReportedMeansExact` says what an exception may damage: nothing of a sort key that
  was not at work, and of the others nothing that `rebalance`, registering again or
  `clear` does not bring back. After an exception in `update_if` that is `update_if`
  called again. `AnswersSurvive` is refinement of `BucketedList` by all calls that
  return, before, between and after accidents.
- The layout properties say that target sizes partition the collection, that
  bucket ids are monotone in the exact order for *every* value, in the collection
  or not, that no bucket is empty when estimated, that expected sizes are exact
  when the sample is the whole group, and that colliding keys alone never merge
  buckets. `TargetsPartition` and `EndsOnePageLong` are about every plan that
  factories and setters can build; the second is the promise that makes a plan
  useful, a first page that is cheap in both directions.

- `IterationExact` says two things at once: reads that rebalance or sort may go
  unnoticed because they do not move an element past the iterator, and everything
  that does move one is noticed. `hasNext` does not look at `modCount`; the
  property is about what `next` returns.
- `BufferSuffices` is about the one buffer that `sortBucket` allocates for two
  merges of different shape; `NothingLost` says that merging in place loses no
  slot even if the comparator contradicts itself.
- `NumbersInOrder` is the order documented in `keys.hpp:37`; `NeverInverted`
  is what is left of it for long doubles.
- `PrefixKeysFaithful` says that key and tie-breaker together are the full
  comparison, which fails if the two fold or cut differently.
- `AnswersExact` is the refinement of `BucketedList` again, with `next()` calls
  between the calls of the index and two plans that are switched.
- `NaturalIsTotal` compares `natural_compare` with an order that is one by
  construction: the parts of a name, numbers by value, then its bytes.
- `AnswersRight` holds for unsorted arrays as far as it can: a place that is
  returned does hold the key.

### Bounds, and why they are enough

- Room for three elements, for two in `MCIndexFaults` and `MCFailFastIterator`; two or
  three values. Three slots are enough for a sorted prefix of two, a tail, and a removal or
  update in either; the bugs listed as *Broken* all show with that.
- `MaxItems` is also the capacity (`removed_slot` in the code). `MCIndexFolders` has one
  handle more, so there an `add` is refused and an `add_all` of two (`MaxBulk`) keeps the one
  that fits and then throws; the other runs have as many handles as room, so no
  call is refused in them. Their `MaxBulk` is 1, but 2 in `MCFailFastIterator`.
- `MaxChurn` bounds the changes counted between two layouts of a key. It is what
  makes the state space finite. One change per layout is enough to make a layout
  stale or a splitter move; the merge, iterator and elsewhere runs use two, so that a
  change meets one that is not yet re-placed.
- `MaxKeys` bounds the sort keys registered at a time: one of two in `MCIndexMerge`,
  where one is removed and the other registered in its place, two in `MCIndexFaults`.
  So answers after switching between two keys are checked by the faults run
  (`AnswersSurvive`), and that switching keeps sorted work by the theorem
  `SortedWorkStays` only.
- `Directions` restricts the directions a run sorts in; `MCIndexFolders` has both.
- Plans in the index runs: buckets of 1, 2, 4, ... elements; one bucket for
  `MCIndexMerge`; a sampled uniform plan with pages of two as the second of
  `MCFailFastIterator`. The skew limit is 3/2 so that two more elements than expected
  make a bucket stale.
- `MCIndexFaults`: one accident at a time, the next when the damage of the last is
  repaired and every change is reported; exceptions out of `add`, the loop of `update_if`, `rebalance_all` and the sort of
  a bucket. One element at a time is changed and not reported, and nothing is read in
  sorted order before it is. `MCIndexElsewhere` lifts that for `position_of` only.
- Comparators with cycles: `stable_sort` and `inplace_merge` are modelled as one of
  the possible merges, so no more is claimed than that nothing is lost. The index has such
  comparators with one bucket only (`CyclesInOneBucket`, below). In
  `choose_split_positions`, differences of `size_t` wrap as in the code (`wrapped_less`),
  which only they can make happen; in `MCSplitCyclic` the run ends before the read
  past the sample.
- Elements are interchangeable, so the runs use symmetry over handles; `result` is
  left out of the state by a view, because no action reads it and the
  properties about it are checked on every step.
- `ReadsSettle` takes samples of one element less than the collection and the skew limit
  3/2.
- Layout runs: five values under four keys (exact with ties, colliding with a
  tie-breaker, comparator only, grouped), six plans of every kind, two of them
  with page sizes above 1 and one with a sample smaller than the collection. The
  bucket limit is 4 there instead of 65535, so that the cap per group bites. Plans are
  built from five page sizes, valid or not, four growths and so on, and asked for
  target sizes of up to 12 elements. `Word` is 64 instead of 2^64 and `Ulp` 4 instead of
  2048; page sizes that round up to `Word` are in `MCHugePages` only.
- `MCFailFastIterator`: two elements of two values, descending, automatic
  rebalancing; two are enough to be swapped, removed or moved to another bucket
  behind or ahead of the iterator.
- `MCSlotSorter`: six slots with `InsertionThreshold` 2 instead of 24, so that six
  slots are sorted by two levels of merges; one sort key with ties between
  neighbours, one with cycles.
- `MCSortKeyOf`, `MCNumericExact`: `sign_bit` 16 (five bits) with three NaN patterns per sign, and
  four long doubles per double so that ties in rounding occur; keys of two bytes
  and texts of up to three letters, so that keys end between letters and inside
  letters of two and three bytes. `natural_compare` sees the digits 0 and 1, a letter in
  both cases, and bytes below and above.
- `MCSearches`: arrays of up to three elements of three values: keys below, between,
  equal to and above the elements, repeated elements, unsorted arrays, the empty array.
  The SIMD searches keep their thresholds 32, 16 and 32; lengths on either side of 32
  and up to 141 make each narrow the range twice. Of a sorted array only matters how
  many elements are smaller than and equal to the key (`stepped`), up to two equal ones.
  They are called right after calls on arrays of the lengths in `Preceding`: the
  registers are all set at the start of a call.
- Deadlock is checked in the index runs: there is always a call to make. The
  layout runs end when the collection is full.

### Liveness and fairness

In bucketization nothing happens later by itself: a call runs to its end, and
laziness is resolved by the next read. There is no scheduling to be fair about,
so no fairness is assumed and no liveness is claimed; that the loops terminate
is in the shape of the operators. `BinarySearch` has one step per iteration, and
there termination is a property: `EveryCallReturns`, under weak fairness of the
running routine (`Run`, and the rounds of `SimdSearch`), which says no more than that a thread is not suspended
forever. Callers are not assumed to call.

## Disagreements between code and documentation

`MCSplitCyclic` checks what the comment on `choose_split_positions` says
(`bucket_layout.hpp:54`): positions are increasing and in (0, s). The code tests
`hi < s` but not `lo < s`. With a comparator that has cycles, which the
documentation allows (`docs/bucketization/README.md:92-93`: every element is
returned exactly once and nothing crashes or throws), the binary search for the
start of a run can end behind the last element, `s` is taken for a split, and
`estimate` reads `sorted[s]`. TLC finds it with six elements, one bucket each.
With consistent comparators the position is always inside
(`MCLayoutEstimation`). The Java port has the same lines
(`BucketLayout.java:298-300`), where the read throws.

`MCNumericExact` checks what `keys.hpp:84` says of `is_exact_v` ("True when
`normalize(V)` is the whole value, i.e. no tie-breaker is needed") and
`sort_key.hpp:64-65` of `SortKey::of` ("Numbers are encoded exactly"). Every
arithmetic type is taken to be exact, but `normalize` converts `long double` to
`double` (`keys.hpp:100`). TLC finds two long doubles that share a key, so that the
sort key leaves them in insertion order. `NeverInverted` shows that it is no worse
than that.

`MCIndexElsewhere` checks what `bucketed_list.hpp:169-170` offers: `position_of()` and
`update()` for "handle element types (pointers, ids, shared handles) whose target was
changed elsewhere". `position_of` sorts what it has to look at, with the changed element
at its new value in a bucket whose prefix was sorted with the old one. `update()` then
re-places the changed element and keeps the rest of the prefix, but the rest is not
in order: the merge was misled. TLC finds it with three elements under a comparator; the
wrong order stays until the bucket is built anew. The sentence at
`bucketed_list.hpp:52-54` (elements must not change in a way that affects their order
except through `update_if`) rules the situation out; the two do not go together. A
caller that reports first is safe, which `MCIndexFaults` checks.

`MCHugePages` checks what `bucket_plan.hpp:46` says of geometric plans ("Buckets start
one page long"). Every positive page size is accepted, but one within 1024 of 2^64 becomes
the double 2^64, and converting that back to `size_t` (`bucket_plan.hpp:212`) is
undefined. TLC finds a first bucket of another length. On x86-64, g++ gives 0, and
`target_sizes(5)` is {0, 5, 0}. Page sizes like that mean "everything on one page" and
are far from what a screen shows, but nothing rejects them.

## Proofs

TLAPS proves the following for every value of the constants: any sort keys, groups,
comparators that are orders, plans, capacity and number of handles; any arrays and
register widths. Comparators with cycles are included where the plans have one bucket
(`CyclesInOneBucket`), but for `PrefixesStaySorted`, `BucketsStayInOrder`, the
refinement and the layouts, which speak of sort keys in `Ordering`.

| Theorem | Module | States |
|---|---|---|
| `TypeCorrect` | `BucketIndexProofs` | `Spec => []TypeOK` |
| `SplittersStayLive` | `BucketIndexProofs` | `Spec => []SplittersLive` |
| `BucketsStayCurrent` | `BucketIndexProofs` | `Spec => []BucketsCurrent` |
| `NoSlotStaysForgotten` | `BucketIndexProofs` | `Spec => []NoSlotForgotten` |
| `ActiveKeyStays` | `BucketIndexProofs` | `Spec => ActiveKeyKept` |
| `CountsStayExact` | `BucketIndexProofs` | `Spec => []CountsExact` |
| `SkippedChecksStayIdle` | `BucketIndexProofs` | `Spec => []SkippedChecksAreIdle` |
| `GroupingStaysComplete` | `BucketIndexProofs` | `Spec => []GroupingComplete` |
| `BucketsStayInOrder` | `BucketIndexProofs` | `Spec => []BucketsInOrder` |
| `EveryElementReturned` | `ReadingProofs` | `Spec => EveryElementOnce /\ []EstimatesDefined` |
| `ReadsComeToRest` | `ReadingProofs` | `Spec => [](\A i \in DOMAIN states : SettledAfterRead(states[i], items, val, plan))` |
| `PrefixesStaySorted` | `ReadingProofs` | `Spec => []PrefixesSorted` |
| `SortedWorkStays` | `ReadingProofs` | `Spec => SortedWorkKept` |
| `IndexImplementsList` | `RefinementProofs` | `Spec => ImplementsList`, if `Name \subseteq Ordering` |
| `StepsAnswered` | `RefinementProofs` | `Spec => [][(Read => Sortable) => List!Next]_(List!vars)`, for any sort keys |
| `IterationStaysExact` | `RefinementProofs` | `IterSpec => []IterationExact`, if `Name \subseteq Ordering` |
| `AnswersStayExact` | `RefinementProofs` | `IterSpec => AnswersExact`, if `Name \subseteq Ordering` |
| `LayoutsFollowOrder` | `EstimationProofs` | `Spec => []BucketsFollowOrder` of `LayoutEstimation`, if `Name \subseteq Ordering` |
| `ExpectedStaysExact` | `EstimationProofs` | `Spec => []ExpectedMatchesData`, if `Name \subseteq Ordering` |
| `DistinctStayOnTarget` | `EstimationProofs` | `Spec => []DistinctMeetTargets`, if `Name \subseteq Ordering` |
| `SplitsStayBetweenRuns` | `EstimationProofs` | `Spec => []SplitsBetweenRuns`, if `Name \subseteq Ordering` |
| `PositionsStayInside` | `EstimationProofs` | `Spec => []PositionsInsideSample`, if `Name \subseteq Ordering` |
| `LayoutTypes` | `EstimationProofs` | `Spec => []TypeOK`, if `Name \subseteq Ordering` |
| `TargetsStayPartition` | `EstimationProofs` | `Spec => []TargetsPartition`, if `PagesAreSizes` |
| `EndsStayOnePage` | `EstimationProofs` | `Spec => []EndsOnePageLong`, if `PagesAreSizes` |
| `TargetsArePartition` | `LayoutProofs` | `IsPlan(plan) => Partition(target_sizes(plan, n), plan.max_buckets, n)` for every `n` |
| `SorterTypes` | `SlotSorterProofs` | `Spec => []TypeOK` of `SlotSorter` |
| `PrefixStaysExact` | `SlotSorterProofs` | `Spec => []PrefixExact` |
| `BufferStaysSufficient` | `SlotSorterProofs` | `Spec => []BufferSuffices` |
| `SortingLosesNothing` | `SlotSorterProofs` | `Spec => NothingLost`, for any comparator |
| `BoundsInRange` | `BinarySearchProofs` | `Spec => []TypeOK` of `BinarySearch` |
| `SearchesCorrect` | `BinarySearchProofs` | `Spec => []AnswersRight` of `BinarySearch` |
| `SimdSearchesCorrect` | `BinarySearchProofs` | `SimdSpec => [](TypeOK /\ AnswersRight)` of `SimdSearch`, for every set of long arrays |
| `KeysExact` | `SortKeyOfProofs` | `Spec => []NumbersInOrder` of `SortKeyOf`, for every place of infinity |
| `NumbersStayInOrder` | `SortKeyOfProofs` | `Spec => []NeverInverted` of `SortKeyOf`, long doubles included |
| `PrefixesStayFaithful` | `SortKeyOfProofs` | `Spec => []PrefixKeysFaithful`, for any bytes, code units, folding and length of a key |
| `AsciiStaysDecided` | `SortKeyOfProofs` | `Spec => []AsciiPrefixDecides`, for any length of a key |

The proof modules build on each other: `LayoutProofs` (what the functions of
`StdAlgorithms` return; target sizes, samples, splits) under `EstimationProofs` (layouts of a
collection that grows) and under `BucketIndexProofs` (consistency, stages, counts, groupings, the
order of bucket ids), `ReadingProofs` (reads and sorted prefixes), `RefinementProofs` (the
answers).

### What is assumed

Only the named assumptions of the modules. `SortKeyAssumption`: the caller's functions have
the domains and ranges the code requires. `BucketLayoutAssumption`: no sort key has more
groups than there are bucket ids; the code allows 256 groups (`sort_key.hpp:43`, refused at
`sort_key.hpp:90`) and 65535 ids; and the mark of a split point without an element is no
value. `BucketIndexAssumption`: bounds are numbers, the same mark is no element, every
plan satisfies `IsPlan`, which is what factories and setters make sure of
(`bucket_plan.hpp:36-133`; `PlanBuilding` models what they refuse), and for every
plan that samples at all `SplitMix64` draws a number per stride (`Draws`), of which nothing else
is assumed. `SplitPositionsAssumption` says the same of the plans layouts are estimated with, and
that they have no more than 65535 buckets, which the factories and setters see to (`bucket_plan.hpp:60`, `:87`);
`LayoutEstimationAssumption` says that what callers pass to the factories are numbers.
`SlotSorterAssumption` says that slots are numbers and that the threshold is at least 1.

`CyclesInOneBucket` restricts the index: sort keys whose comparator is no order come with
plans of one bucket only. The reason is the finding of `MCSplitCyclic`: with more
buckets, `estimate` can read one element past the end of its sample (`bucket_layout.hpp:225`),
and whatever a model let the index do after that would be made up, as would be a
theorem about it. `EstimatesDefined` says that the assumption is enough: in every reachable state, no
estimate for any registered sort key under any plan reads outside a sample.

Two hypotheses are written in the theorems that need them. `Name \subseteq Ordering`: the sort
keys order the values. `PagesAreSizes`: no page size becomes 2^64 as a double. Neither is for
convenience: `MCSplitCyclic` and `MCHugePages` violate one each, and TLC finds
`PositionsInsideSample` and `EndsOnePageLong` wrong there.

### The invariant of the index

The properties are not inductive. The first part of the inductive invariant, `IInv`, says of the
collection that its elements are distinct and that each has a value, of the sort
keys that their names differ, and of every `KeyState` that it is `Consistent`:
its keys are those of the present values (`KeysIn`), its buckets are what its
layouts give (`BucketsIn`), its split points refer to elements in
`splitter_slots` (`SplittersIn`), and its flags bound what is missing from the
cached grouping (`FlagsIn`). Distinctness is needed because a split point names an
element and `splitter_slots` a slot: when an update misses every splitter slot,
no value a split point sees has changed, hence no bucket of another element has
(`BucketKept`), which is the heart of the argument. When it hits one,
`splitter_changed` forces `relayout`, which is consistent whatever was there
before (`RelayoutConsistent`).

Each helper of the index preserves `Consistent` (one lemma each: `append`, `rekey`,
`compact`, `regroup`, `build_order`, `sort_buckets`, `prepare`), each action
preserves `IInv` by those lemmas, and `Invariance` puts the actions together.
The action lemmas also say what happens to the active key, which gives
`ActiveKeyStays`.

The other parts are shown by stages. Whatever the call, what happens to one
`KeyState` is a chain of at most five stages (`Chain`): before and after the change of
the collection the state is noted as checked, laid out anew, grouped, regrouped
or has buckets sorted (`Touched`), and the change itself appends, compacts or re-keys
(`Changed`). `StateSteps` proves that of every action of `Next`; from
there on each invariant is a lemma per stage instead of one per call:

- `Books`: the counts are those of the present buckets, although `append`, `rekey` and
  `compact` only add and subtract (`RecountedTally`), and if churn has not moved since the
  last automatic check, that check would fail again (`SkippedChecksAreIdle`).
- `Groupings`: the layouts give bucket ids in range, and `order` with `start` is
  `Arranged`: it lists every slot up to `ordered_slots` once, cut into segments by buckets,
  which for all slots but those in `moved` are the present ones (`Placed`). One
  fact carries it: sequences of distinct elements, one per bucket and joined one behind
  the other, are an arrangement of all their elements (`JoinedArranged`). Counting sort,
  regrouping, filtering and sorting buckets all make an order of that kind. Counts enter
  because boundaries are computed from counts and contents from buckets.
- `Orders`: of every sorted prefix, what does not wait to be re-placed is in order.
  Appending and re-keying leave the grouping alone, and what they change is behind
  `ordered_slots` or in `moved` (`StillOrdered`); regrouping and compacting put
  what is left of a prefix at the front of its bucket, in the same order, and count it
  right (`LeadingStay`: if nothing can get in before an element but what already
  stood before it, the survivors are the first ones); sorting sorts the tail and
  merges it (`SortedInOrder`, `MergeInOrder`). Compaction renumbers slots, and because `kept`
  ascends, ties broken by slot number stay broken the same way (`OrderAgain`).

- `Ladders`: of a sort key in `Ordering`, the split points of every group divide its values in
  the exact order (`SplitsOrdered`), with the values their elements have *now*. A new layout is
  made so: the drawn indices are slots of the group (`IndicesInside`), the sorted sample has no
  later slot before an earlier one (`SortNotInverted`), the positions chosen ascend
  (`SplitPositionsIncrease`), and a split point tells the sampled elements on its two
  sides apart, whether it stores an element or a key only (`PointCuts`), so split points are
  nested (`CutNested`). The binary search of `bucket_of` then follows the order
  (`BucketFollows`). Afterwards, no element a split point stores changes or leaves without a new
  layout (`ResolvedAlike`), so it stays so.

So `IInv /\ Books /\ Groupings /\ Orders /\ Ladders` is inductive, and the theorems about
the index are consequences. `PrefixesStaySorted` is about sort keys in `Ordering`; the proof showed
that these must be defined by antisymmetry as well as transitivity: of a comparator that says
"greater" of a value and itself, prefixes are not in order, and no run had one that was
transitive all the same. `EveryElementReturned` needs no order but `CyclesInOneBucket`: after `prepare` the
grouping covers every slot (`PreparedReadable`), sorting buckets rearranges them, and the
positions `for_each` and `range` visit in either direction run through all segments once
(`ShownLists`, `VisitedLists`). Its second part, `EstimatesDefined`, is that of the layouts:
where the targets are two or more, the comparator is an order, the samples' positions are
inside (`SampleSplitsInside`), and so is what `split_point` reads.

`ReadsComeToRest` holds because of the two ways out of `maybe_auto_rebalance`
(`SettlesAfterRead`): after a read, either the check was made at the present count of
changes, or a layout was just estimated and no change is counted, fewer than any page has.
Whether the layout is stale plays no role, which is the point: nothing keeps a
layout made from a sample from being stale.

`SortedWorkStays` compares two states: `prepare` keeps of every prefix what does not wait
(`RegroupKeeps`), `sort_bucket` only makes prefixes longer (`SortKeeps`), and a relayout by
a read is told apart by `churn`, which was at least a page and is 0 after it (`DueCounts`); for that
`estimated_from` must be a number (`EstimateSizes`).

### The refinement

`IndexImplementsList` rests on all five parts of the invariant (`Known`). The mapping
forgets how the index keeps its orders; so a call that changes nothing a caller sees (`rebalance`,
`set_plan`, `sort_all`) is an observation of the list (`Observed`), and the rest are shown
call by call.

*Changes.* Both modules keep the elements in insertion order, but `BucketedList` filters by a set of
elements where the index keeps slots. The slots kept are different ones from left to right,
and so are the places of the elements that stay; a set of numbers can be listed
upwards in one way only (`SameEnumeration`), so the two collections are equal.

*Reads.* `BucketedList` says where an element is by counting the elements before it, the index
by looking the slot up in its grouping. If the slots in front of a place are before its slot
in the order of the list and the slots behind it are after, the slot is where the list
has it (`PlaceIsPosition`), because the number of slots before an element tells which one it
is (`RankUnique`, in a linear order). It remains to show that the slots are on the right side:
in different buckets by `Orders`' and `Ladders`' facts about bucket ids (`AcrossBuckets`), in the same bucket
because the read has sorted it (`InsideBucket`). A bucket nobody asked for
may be unsorted; it only has to be whole, which is why lazy sorting is invisible. In descending
order, a position is counted from the other end of its group (`PlaceInGroup`,
`TurnedBefore`). `position_if` takes the least position among the matching elements, `range` is
the slots from the first to the last place it shows, and `for_each` joins the
buckets, each in order and each before the next one (`JoinedInOrder`).

*The hypothesis.* `BucketedList` defines positions by the exact order, so its answers are only
meaningful for sort keys whose comparator is one; `bucketed_list.hpp` and
`docs/bucketization/README.md` promise no order otherwise. `StepsAnswered` says what remains
without it: every step is one of the list but for reads while the active sort key is not in
`Ordering`. An inconsistent sort key does no damage beyond its own reads.

### The iterator

`IterationExact` is almost inductive: `IterInv` adds `Known` and that `position` does not
run past the end. `next()` is a `get`, so it is a step of the list (`CallPromised`) and
returns the element at `position + 1` of the list's order (`AtAnswered`), one more of `promised`
(`OneMore`). What is left are the calls in between, and there the
refinement does the work: nothing has to be said about buckets. A
call is one of the list's, and of those each either counts as a modification or leaves
the elements, the values, the active sort key and the direction alone
(`UnmodifiedKeepsOrder`), on which alone the list's order depends (`OrderKept`). That is
what makes `modCount` right: `sortAll`, reads and their rebalances may go uncounted because the
refinement hides them, while `updateIf` and `removeIf` may only because they
return 0.

The proof does not go through for a call that is refused for capacity: the C++ `add_all`
keeps the first elements and throws, which an iterator that counts completed calls would not
notice. `BucketIndex.java` has no such limit: its arrays grow for all elements of a call
before the first is added (an allocation that fails, or an `int` that overflows there, is not
modelled), so `other` makes no refused calls. Key functions that throw while `addAll`
appends are excluded too; `IndexFaults` has them for the C++ index.

### Target sizes

`TargetsArePartition` follows each kind of plan: sizes are made until nothing is left, each
round takes something, and what is beyond `max_buckets` goes into the last bucket.

### The layouts

All properties of `LayoutEstimation` that depend on a collection have one inductive invariant,
`EInv`. Its heart is `Current`: the sample, the positions and the layouts are those of
the collection as it is. Both an empty collection and `Grow` establish it, so what remains is to
show the properties of one estimation, for any plan, sample and draws.

*Splits.* The sorted sample falls into runs of equal elements. `RunFound` and `RunEdges` show that
`lower_bound` and `upper_bound`, called from a desired position, find the two ends of its
run, which needs a comparator without cycles. A choice is one of those ends, inside the
sample and behind the last one (`ChoiceSplits`), and the choices for the desired positions
ascend. When nothing is chosen for a desired position although its run has an end inside the sample,
that end is the last choice (`ChoiceSplits`, by `LaterRuns`: later positions have later
ends). So no split is missed (`ChosenBetweenRuns`, `SplitPositionsByRuns`).

*Buckets.* A split point between two sampled elements sends the sampled values on its left to buckets up
to its own and those on its right behind it (`CutDivides`, and `BucketBoundary` for
the binary search). So the sample is divided at exactly the chosen positions
(`SampleBuckets`), which are strictly increasing: no bucket is empty. When the whole group is
sampled the sample lists every member once (`SampleWhole`), each bucket holds the members
between two positions, and the rounding of `expected` changes nothing because
the shares are whole numbers (`WholeShares`). Without ties every run is one element long, the desired
positions are taken as they are (`UntiedCuts`), and they are the sums of the target sizes
(`DesiredTaken`), whence `DistinctMeetTargets`.

*Sizes.* What a caller builds is a plan (`FactoriesMakePlans`, `CopiesArePlans`), so
`TargetsArePartition` applies. Rounds of a geometric plan start with the page size
(`FirstRound`, `LaterRounds`), and collapsing to `max_buckets` and mirroring keep the first bucket, and the last
one of a symmetric plan (`EndsKept`).

### The merge sort

Every array the sorter writes is described by what it does to a range: the rest stays, the
range is permuted, and if the comparator is an order and the parts were sorted, it is sorted.
`insertion_sort` and `merged` keep that round by round. In a merge the write position
`i + j - mid` stays behind `j` as long as the buffer is not used up, so no slot is overwritten
before it is read, whatever the comparator answers; that is all `SortingLosesNothing` needs.
`sort` is a recursion over calls, and follows by induction over the length of the range. The
buffer suffices because the left half of a range of `n` slots has at most `n` and the
prefix has its own length, the two arguments of `buffer`.

### The searches and the keys

`SearchesCorrect` and `BoundsInRange` follow from `SearchInv`: outside the bounds a sorted array does not
hold the key (`LoopInv`), and in the pipelined loop the register holds the element in
the middle, which lies between the bounds. That the sum of two positions does not
overflow needs `MaxSize < Half`, which holds for any array of 8-byte elements.
`SimdSearchesCorrect` extends the invariant to the rounds: the four probes lie between the
bounds and ascend (`ProbesInRange`), so in a sorted array the smaller lanes are the
first ones (`LeadingLanes`) and what is cut off does not hold the key; the loop that
takes over starts from `LoopInv`.
`KeysExact` is linear arithmetic on bit patterns; it needs that there are quiet
NaNs (`Infinity <= sign_bit - 2`). For `NumbersStayInOrder` it is enough that rounding to the
nearest double never turns two numbers round (`NearestInOrder`) and keeps infinities and
NaNs what they are, so that it does not leave the order either (`RoundedInOrder`).

The theorems about texts compare two sequences at their first difference
(`FirstDifference`, `DifferenceDecides`). The bytes of two different code units differ
before either ends, and in the order of the units (`EncodingDiffers`); so the bytes of
two whole texts are ordered as the texts (`EncodingKeepsOrder`), wherever the units
before the difference end. Cutting such bytes off, or padding them with zeros, may
make two texts equal but turns none round (`CutKeepsOrder`), which is what a key with a
tie-breaker needs. An ASCII character is its own byte, and none is zero (`AsciiEncoding`,
`HeadsDiffer`): a difference among the first ones is a difference of the keys.

### What is only model-checked

Recursive functions over the numbers are within reach: `Recursion` and `Throughout`
(`LayoutProofs`) give their rounds, by the least number for which something would
fail; so is the recursion of `SlotSorter`, by the length of the range. Liveness under
fairness (`EveryCallReturns`) is not. Of the index, `StatsTrue` and the faults are left to TLC,
and so is the natural order of the file browser. `ReadsSettle` is checked where layouts
are stale at once; `ReadsComeToRest` proves the same of the reachable states of the index.

## Not modelled, and why

- **Some places to throw.** Exceptions leave `relayout` in `rebalance_all` only, not
  where `update_if`, `remove_if`, `clear` or automatic rebalancing call it. The
  predicate of `remove_if` runs before anything is changed, and an `add_all` that is
  broken off is `add` repeated. Memory does not run out.
- **Elements changed elsewhere while a sort runs**: one caller, one thread.
- **Sizes from 2^63 on** in `is_stale`, where doubling the page size wraps.
- **The exponents of `long double`.** `NumericKeys` gives it a finer mantissa than a double
  only; values beyond a double's range, which become infinity or zero (`keys.hpp:100`),
  are left out.
- **What follows a read past the sample** (`bucket_layout.hpp:225`): undefined in C++, an
  exception in the Java port. Sort keys that can cause it have one bucket in the index.
- **The other const queries** (`bucket_of`, `bucket_sizes`, `layout`,
  `estimate_bucket_sizes`): they return state or call what is modelled.
- **The Java port** where it repeats the C++ index: it is read against the same
  definitions, not modelled a second time. Array growth (with the overflow of
  `size + elements.size()`), key functions that throw in the middle of `addAll` and the `asList` view
  are left out.
- **`measure_cycles`** of the assembly file, which reads the time-stamp counter, and
  the thread and cache hints, which nothing reads.
- The harnesses of the benchmarks, the directory reading of the example, code
  generation and the other bindings contain no logic of the library
  (`legacy/bsearch.asm` is the assembly file again).

## Plan

In this order:

1. *Done:* plans, layouts, the index, its interface as the abstract
   specification, type and staleness invariants proved.
2. *Done:* counts, groupings, what reads show, and sorted prefixes, proved.
3. *Done:* external changes, and what `update()` may rely on (`IndexFaults`).
4. *Done:* callbacks that throw, and what state they leave (`IndexFaults`).
5. *Done:* plan building, target sizes for collections far larger than
   the layout runs reach, the first-page cost that `stats` reports.
6. *Done:* `SlotSorter` and the fail-fast iterator of the Java port, the key
   encodings, the natural order of the example, the binary searches, SIMD included, with
   their loop invariants proved.
7. *Done:* that bucket ids follow the exact order, proved.
8. *Done:* that the index implements the list, and that iterators over it are
   fail-fast, proved.
9. *Done:* every property of the layouts of `LayoutEstimation`, proved.
10. *Done:* the Java merge sort, proved, and that reads of the index come to rest.
11. Proofs still to do: `stats` and `needs_rebalance` (`IndexQueries`), the faults.
