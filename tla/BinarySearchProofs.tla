------------------------- MODULE BinarySearchProofs -------------------------
(***************************************************************************)
(* Every search routine, the SIMD searches included, answers correctly,    *)
(* for every register width, array length and element.                     *)
(***************************************************************************)
EXTENDS SimdSearch, TLAPS

\* The loop invariant: the bounds are inside the array, and what is outside them
\* is not the key.  In the loop of the pipelined routine the loaded element is
\* the one in the middle, which lies between the bounds.
LoopInv ==
    /\ pc \in {"enter", "loop", "narrow"} =>
          /\ left <= right + 1
          /\ Sorted => \A i \in 0 .. size - 1 : array[i] = key => left <= i /\ i <= right
    /\ pc = "loop" /\ routine = "pipelined" =>
          left <= mid /\ mid <= right /\ loaded = array[mid]

SearchInv == TypeOK /\ LoopInv /\ AnswersRight

\* The middle is between the bounds: the sum of two positions fits a register.
LEMMA MidpointBetween ==
    ASSUME NEW l \in 0 .. size, NEW r \in 0 .. size - 1, l <= r,
           size \in 0 .. MaxSize
    PROVE  midpoint(l, r) \in l .. r
<1>1. l \in Int /\ r \in Int /\ 0 <= l /\ l + r < 2 * Half
  BY BinarySearchAssumption
<1>2. wrapped(l + r) = l + r
  BY <1>1, BinarySearchAssumption DEF wrapped
<1>3. l + (r - l) \div 2 \in l .. r
  BY <1>1
<1>4. (l + r) \div 2 \in l .. r
  BY <1>1
<1> QED
  BY <1>2, <1>3, <1>4 DEF midpoint

\* Looking at one element of the array narrows the bounds and keeps the key
\* between them.
LEMMA Narrows ==
    ASSUME TypeOK, NEW m \in left .. right, left <= right, array[m] # key,
           Sorted => \A i \in 0 .. size - 1 : array[i] = key => left <= i /\ i <= right,
           NEW l, NEW r,
           l = (IF array[m] < key THEN m + 1 ELSE left),
           r = (IF array[m] > key THEN m - 1 ELSE right)
    PROVE  /\ l \in 0 .. size /\ r \in -1 .. size - 1 /\ l <= r + 1
           /\ Sorted => \A i \in 0 .. size - 1 : array[i] = key => l <= i /\ i <= r
<1>1. /\ left \in Int /\ right \in Int /\ size \in Int /\ m \in 0 .. size - 1
      /\ 0 <= left /\ right <= size - 1
  BY DEF TypeOK
<1>2. /\ key \in Int /\ \A i \in 0 .. size - 1 : array[i] \in Int
  BY BinarySearchAssumption DEF TypeOK, Arrays
<1>3. l \in 0 .. size /\ r \in -1 .. size - 1 /\ l <= r + 1
  BY <1>1, <1>2
<1>4. ASSUME Sorted, NEW i \in 0 .. size - 1, array[i] = key
      PROVE  l <= i /\ i <= r
  <2>1. left <= i /\ i <= right
    BY <1>4
  <2>2. i <= m => array[i] <= array[m]
    BY <1>1, <1>4 DEF Sorted
  <2>3. m <= i => array[m] <= array[i]
    BY <1>1, <1>4 DEF Sorted
  <2> QED
    BY <1>1, <1>2, <1>4, <2>1, <2>2, <2>3
<1> QED
  BY <1>3, <1>4

\* Empty bounds say that a sorted array does not hold the key.
LEMMA EmptyMeansAbsent ==
    ASSUME TypeOK, NEW l, NEW r, l \in Int, r \in Int, l > r,
           Sorted => \A i \in 0 .. size - 1 : array[i] = key => l <= i /\ i <= r
    PROVE  Sorted => ~ Occurs(key)
<1> SUFFICES ASSUME Sorted, NEW i \in 0 .. size - 1, array[i] = key PROVE FALSE
  BY DEF Occurs
<1>1. i \in Int /\ l <= i /\ i <= r
  OBVIOUS
<1> QED
  BY <1>1

\* The empty array nobody searches in.
LEMMA InitSearchInv == Init => SearchInv
<1> SUFFICES ASSUME Init PROVE SearchInv
  OBVIOUS
<1>1. TypeOK
  BY BinarySearchAssumption DEF Init, TypeOK, Preference, Routine, not_found
<1>2. LoopInv
  BY DEF Init, LoopInv
<1>3. AnswersRight
  BY DEF Init, AnswersRight, FindsKey, MissesOnlyAbsent, Occurs, not_found
<1> QED
  BY <1>1, <1>2, <1>3 DEF SearchInv

\* Neither backend is there, so the C function always searches itself.
LEMMA DispatchedToReference ==
    ASSUME NEW pref PROVE dispatched(pref) = "ref"
  BY DEF dispatched, cuda_available, opencl_available

\* return: the answer has been found out before.
LEMMA ReturnStep ==
    ASSUME SearchInv, NEW x \in {not_found} \cup 0 .. MaxSize - 1, return(x),
           x # not_found => x < size /\ array[x] = key,
           x = not_found => (Sorted => ~ Occurs(key))
    PROVE  SearchInv'
<1>1. TypeOK'
  BY DEF SearchInv, TypeOK, return, call, Arrays
<1>2. LoopInv'
  BY DEF LoopInv, return, call
<1>3. AnswersRight'
  BY DEF return, call, AnswersRight, FindsKey, MissesOnlyAbsent, Sorted, Occurs
<1> QED
  BY <1>1, <1>2, <1>3 DEF SearchInv

\* A new call: everything is between the bounds.
LEMMA BeginStep ==
    ASSUME SearchInv, NEW r \in Routine, NEW n \in 0 .. MaxSize, NEW k \in Element,
           NEW a \in Arrays(n), begin(r, n, a, k), pc' \in {"enter", "loop", "narrow"},
           pc' = "loop" => r # "pipelined"
    PROVE  SearchInv'
<1>1. n \in Nat /\ n <= MaxSize /\ MaxSize \in Nat
  BY BinarySearchAssumption
<1>2. TypeOK'
  BY <1>1 DEF SearchInv, TypeOK, begin
<1>3. LoopInv'
  BY <1>1 DEF LoopInv, begin
<1>4. AnswersRight'
  BY DEF AnswersRight, FindsKey, MissesOnlyAbsent
<1> QED
  BY <1>2, <1>3, <1>4 DEF SearchInv

\* The reads before the loop of the pipelined routine.
LEMMA EnterStep ==
    ASSUME SearchInv, enter
    PROVE  SearchInv'
<1>1. CASE routine # "pipelined"
  <2>1. TypeOK'
    BY <1>1 DEF SearchInv, TypeOK, enter, call
  <2>2. LoopInv'
    BY <1>1 DEF SearchInv, LoopInv, enter, call, Sorted
  <2>3. AnswersRight'
    BY <1>1 DEF enter, AnswersRight, FindsKey, MissesOnlyAbsent
  <2> QED
    BY <2>1, <2>2, <2>3 DEF SearchInv
<1>2. CASE routine = "pipelined" /\ left > right
  <2>1. return(not_found)
    BY <1>2 DEF enter
  <2>2. Sorted => ~ Occurs(key)
    BY <1>2, EmptyMeansAbsent DEF SearchInv, LoopInv, enter, TypeOK
  <2> QED
    BY <2>1, <2>2, ReturnStep
<1>3. CASE routine = "pipelined" /\ ~ left > right
  <2> DEFINE m == midpoint(left, right)
  <2>1. /\ mid' = m /\ loaded' = array[m] /\ pc' = "loop" /\ pc = "enter"
        /\ UNCHANGED <<preference, call, left, right, answer>>
    BY <1>3 DEF enter
  <2>2. m \in left .. right
    BY <1>3, MidpointBetween DEF SearchInv, TypeOK
  <2> HIDE DEF m
  <2>3. m \in 0 .. size - 1 /\ left <= m /\ m <= right
    BY <2>2 DEF SearchInv, TypeOK
  <2>4. array[m] \in Element
    BY <2>3 DEF SearchInv, TypeOK, Arrays
  <2>5. TypeOK'
    BY <2>1, <2>3, <2>4, BinarySearchAssumption DEF SearchInv, TypeOK, call
  <2>6. LoopInv'
    BY <2>1, <2>3 DEF SearchInv, LoopInv, call, Sorted
  <2>7. AnswersRight'
    BY <2>1 DEF AnswersRight, FindsKey, MissesOnlyAbsent
  <2> QED
    BY <2>5, <2>6, <2>7 DEF SearchInv
<1> QED
  BY <1>1, <1>2, <1>3

\* One iteration of the reference, the branching or the branchless loop.
LEMMA IterateStep ==
    ASSUME SearchInv, iterate
    PROVE  SearchInv'
<1> DEFINE m == midpoint(left, right)
<1>1. /\ pc = "loop" /\ routine # "pipelined" /\ left \in Int /\ right \in Int
      /\ Sorted => \A i \in 0 .. size - 1 : array[i] = key => left <= i /\ i <= right
  BY DEF iterate, SearchInv, TypeOK, LoopInv
<1>2. CASE left > right
  <2>1. return(not_found)
    BY <1>2 DEF iterate
  <2>2. Sorted => ~ Occurs(key)
    BY <1>1, <1>2, EmptyMeansAbsent DEF SearchInv
  <2> QED
    BY <2>1, <2>2, ReturnStep
<1>3. CASE left <= right
  <2>1. m \in left .. right
    BY <1>1, <1>3, MidpointBetween DEF SearchInv, TypeOK
  <2>2. \/ array[m] = key /\ return(m)
        \/ /\ array[m] # key
           /\ left' = (IF array[m] < key THEN m + 1 ELSE left)
           /\ right' = (IF array[m] > key THEN m - 1 ELSE right)
           /\ mid' = m
           /\ UNCHANGED <<preference, call, loaded, pc, answer>>
    BY <1>1, <1>3 DEF iterate
  <2> HIDE DEF m
  <2>3. m \in 0 .. size - 1 /\ m \in 0 .. MaxSize - 1 /\ m < size /\ m # not_found
    BY <2>1, BinarySearchAssumption DEF SearchInv, TypeOK, not_found
  <2>4. CASE array[m] = key /\ return(m)
    BY <2>3, <2>4, ReturnStep
  <2>5. CASE /\ array[m] # key
             /\ left' = (IF array[m] < key THEN m + 1 ELSE left)
             /\ right' = (IF array[m] > key THEN m - 1 ELSE right)
             /\ mid' = m
             /\ UNCHANGED <<preference, call, loaded, pc, answer>>
    <3>1. /\ left' \in 0 .. size /\ right' \in -1 .. size - 1 /\ left' <= right' + 1
          /\ Sorted => \A i \in 0 .. size - 1 : array[i] = key => left' <= i /\ i <= right'
      BY <1>1, <1>3, <2>1, <2>5, Narrows DEF SearchInv
    <3>2. TypeOK'
      BY <2>3, <2>5, <3>1, BinarySearchAssumption DEF SearchInv, TypeOK, call
    <3>3. LoopInv'
      BY <1>1, <2>5, <3>1 DEF LoopInv, call, Sorted
    <3>4. AnswersRight'
      BY <1>1, <2>5 DEF AnswersRight, FindsKey, MissesOnlyAbsent
    <3> QED
      BY <3>2, <3>3, <3>4 DEF SearchInv
  <2> QED
    BY <2>2, <2>4, <2>5
<1> QED
  BY <1>1, <1>2, <1>3

\* One iteration of the pipelined loop: the register holds the middle element.
LEMMA PipelineStep ==
    ASSUME SearchInv, pipeline
    PROVE  SearchInv'
<1> DEFINE l == IF loaded < key THEN mid + 1 ELSE left
           r == IF loaded > key THEN mid - 1 ELSE right
           m == midpoint(l, r)
<1>1. /\ pc = "loop" /\ routine = "pipelined"
      /\ left \in Int /\ right \in Int /\ mid \in left .. right /\ left <= right
      /\ loaded = array[mid]
      /\ mid \in 0 .. size - 1 /\ mid \in 0 .. MaxSize - 1 /\ mid < size /\ mid # not_found
      /\ Sorted => \A i \in 0 .. size - 1 : array[i] = key => left <= i /\ i <= right
  BY BinarySearchAssumption DEF pipeline, SearchInv, TypeOK, LoopInv, not_found
<1>2. \/ loaded = key /\ return(mid)
      \/ loaded # key /\ l > r /\ return(not_found)
      \/ /\ loaded # key /\ ~ l > r
         /\ left' = l /\ right' = r /\ mid' = m /\ loaded' = array[m]
         /\ UNCHANGED <<preference, call, pc, answer>>
  BY DEF pipeline
<1>3. loaded # key =>
          /\ l \in 0 .. size /\ r \in -1 .. size - 1 /\ l <= r + 1
          /\ Sorted => \A i \in 0 .. size - 1 : array[i] = key => l <= i /\ i <= r
  BY <1>1, Narrows DEF SearchInv
<1>4. CASE loaded = key /\ return(mid)
  BY <1>1, <1>4, ReturnStep
<1> HIDE DEF l, r
<1>5. CASE loaded # key /\ l > r /\ return(not_found)
  <2>1. Sorted => ~ Occurs(key)
    BY <1>3, <1>5, EmptyMeansAbsent DEF SearchInv
  <2> QED
    BY <1>5, <2>1, ReturnStep
<1>6. CASE /\ loaded # key /\ ~ l > r
           /\ left' = l /\ right' = r /\ mid' = m /\ loaded' = array[m]
           /\ UNCHANGED <<preference, call, pc, answer>>
  <2>1. l \in Int /\ r \in Int /\ l <= r /\ r \in 0 .. size - 1
    BY <1>3, <1>6 DEF SearchInv, TypeOK
  <2>2. m \in l .. r
    BY <1>3, <1>6, <2>1, MidpointBetween DEF SearchInv, TypeOK
  <2> HIDE DEF m
  <2>3. m \in 0 .. size - 1 /\ m \in 0 .. MaxSize /\ l <= m /\ m <= r
    BY <1>3, <1>6, <2>1, <2>2, BinarySearchAssumption DEF SearchInv, TypeOK
  <2>4. array[m] \in Element
    BY <2>3 DEF SearchInv, TypeOK, Arrays
  <2>5. TypeOK'
    BY <1>3, <1>6, <2>3, <2>4 DEF SearchInv, TypeOK, call
  <2>6. LoopInv'
    BY <1>1, <1>3, <1>6, <2>3 DEF LoopInv, call, Sorted
  <2>7. AnswersRight'
    BY <1>1, <1>6 DEF AnswersRight, FindsKey, MissesOnlyAbsent
  <2> QED
    BY <2>5, <2>6, <2>7 DEF SearchInv
<1> QED
  BY <1>2, <1>4, <1>5, <1>6

\* The probes lie in the range, one behind the other.
LEMMA ProbesInRange ==
    ASSUME TypeOK, right - left > scalar_range(routine)
    PROVE  /\ \A i \in 1 .. 4 : probes[i] \in left .. right
           /\ \A i, j \in 1 .. 4 : i <= j => probes[i] <= probes[j]
<1> DEFINE quarter == (right - left + 1) \div 4
<1>1. left \in Int /\ right \in Int /\ right - left > 0
  BY DEF TypeOK, scalar_range
<1>2. quarter \in Int /\ 0 <= quarter /\ 4 * quarter <= right - left + 1 /\ 3 * quarter <= right - left
  BY <1>1, SMT
<1>3. probes = <<left + quarter, left + quarter * 2, left + quarter * 3, right>>
  BY DEF probes
<1> HIDE DEF quarter
<1>4. /\ probes[1] = left + quarter /\ probes[2] = left + 2 * quarter
      /\ probes[3] = left + 3 * quarter /\ probes[4] = right
  BY <1>1, <1>2, <1>3
<1>5. \A i \in 1 .. 4 : i = 1 \/ i = 2 \/ i = 3 \/ i = 4
  OBVIOUS
<1>6. \A i \in 1 .. 4 : probes[i] \in left .. right
  BY <1>1, <1>2, <1>4, <1>5
<1>7. \A i, j \in 1 .. 4 : i <= j => probes[i] <= probes[j]
  BY <1>1, <1>2, <1>4, <1>5
<1> QED
  BY <1>6, <1>7

\* Of four ascending lanes, the smaller ones are the first.
LEMMA LeadingLanes ==
    ASSUME NEW value, \A i \in 1 .. 4 : value[i] \in Int, key \in Int,
           NEW c, c = leading({i \in 1 .. 4 : value[i] < key})
    PROVE  /\ c \in 0 .. 4
           /\ c > 0 => value[c] < key /\ (c < 4 => value[c + 1] >= key)
           /\ (\A i, j \in 1 .. 4 : i <= j => value[i] <= value[j]) /\ c < 4 => value[c + 1] >= key
<1> DEFINE less == {i \in 1 .. 4 : value[i] < key}
<1>1. \/ \E m \in 1 .. 4 : less = 1 .. m /\ c = m
      \/ (\A m \in 1 .. 4 : less # 1 .. m) /\ c = 0
  BY DEF leading
<1>2. CASE \E m \in 1 .. 4 : less = 1 .. m /\ c = m
  <2>1. PICK m \in 1 .. 4 : less = 1 .. m /\ c = m
    BY <1>2
  <2>2. c \in 1 .. 4 /\ c \in less
    BY <2>1
  <2>3. c < 4 => c + 1 \in 1 .. 4 /\ c + 1 \notin less
    BY <2>1
  <2> QED
    BY <2>2, <2>3
<1>3. CASE (\A m \in 1 .. 4 : less # 1 .. m) /\ c = 0
  <2> SUFFICES ASSUME \A i, j \in 1 .. 4 : i <= j => value[i] <= value[j], value[1] < key
               PROVE  FALSE
    BY <1>3
  <2>1. /\ value[1] \in Int /\ value[2] \in Int /\ value[3] \in Int /\ value[4] \in Int
        /\ value[1] <= value[2] /\ value[2] <= value[3] /\ value[3] <= value[4]
    OBVIOUS
  <2>2. CASE value[4] < key
    <3>1. less = 1 .. 4
      BY <2>1, <2>2
    <3> QED
      BY <1>3, <3>1
  <2>3. CASE value[3] < key /\ ~ value[4] < key
    <3>1. less = 1 .. 3
      BY <2>1, <2>3
    <3> QED
      BY <1>3, <3>1
  <2>4. CASE value[2] < key /\ ~ value[3] < key
    <3>1. less = 1 .. 2
      BY <2>1, <2>4
    <3> QED
      BY <1>3, <3>1
  <2>5. CASE ~ value[2] < key
    <3>1. less = 1 .. 1
      BY <2>1, <2>5
    <3> QED
      BY <1>3, <3>1
  <2> QED
    BY <2>2, <2>3, <2>4, <2>5
<1> QED
  BY <1>1, <1>2, <1>3

\* A round of a SIMD search: what it gives up does not hold the key.
LEMMA NarrowStep ==
    ASSUME SearchInv, narrow
    PROVE  SearchInv'
<1> DEFINE pos == probes
           value == lanes(pos)
           equal == {i \in 1 .. 4 : value[i] = key}
           c == leading({i \in 1 .. 4 : value[i] < key})
<1>1. /\ pc = "narrow" /\ right - left > scalar_range(routine)
      /\ left \in Int /\ right \in Int /\ size \in Int /\ 0 <= left /\ right <= size - 1
      /\ size <= MaxSize /\ MaxSize \in Nat
      /\ Sorted => \A i \in 0 .. size - 1 : array[i] = key => left <= i /\ i <= right
  BY BinarySearchAssumption DEF narrow, SearchInv, TypeOK, LoopInv
<1>2. /\ \A i \in 1 .. 4 : pos[i] \in left .. right
      /\ \A i, j \in 1 .. 4 : i <= j => pos[i] <= pos[j]
  BY <1>1, ProbesInRange DEF SearchInv
<1>3. \/ equal # {} /\ return(pos[CHOOSE i \in equal : \A j \in equal : i <= j])
      \/ /\ equal = {}
         /\ left' = (IF c > 0 THEN pos[c] + 1 ELSE left)
         /\ right' = (IF c < 4 THEN pos[c + 1] - 1 ELSE right)
         /\ UNCHANGED <<preference, call, mid, loaded, pc, answer>>
  BY DEF narrow
<1> HIDE DEF pos
<1>4. \A i \in 1 .. 4 : pos[i] \in 0 .. size - 1 /\ value[i] = array[pos[i]]
  BY <1>1, <1>2 DEF lanes
<1>5. /\ key \in Int /\ \A i \in 0 .. size - 1 : array[i] \in Int
      /\ \A i \in 1 .. 4 : value[i] \in Int
  BY <1>4, BinarySearchAssumption DEF SearchInv, TypeOK, Arrays
<1> HIDE DEF value
<1>6. CASE equal # {} /\ return(pos[CHOOSE i \in equal : \A j \in equal : i <= j])
  <2>1. PICK i \in equal : TRUE
    BY <1>6
  <2>2. \E i1 \in equal : \A j \in equal : i1 <= j
    <3>1. \A i1 \in 1 .. 4 : i1 = 1 \/ i1 = 2 \/ i1 = 3 \/ i1 = 4
      OBVIOUS
    <3>2. equal \subseteq 1 .. 4
      OBVIOUS
    <3> HIDE DEF equal
    <3> QED
      BY <2>1, <3>1, <3>2
  <2>3. PICK e \in equal : return(pos[e])
    BY <1>6, <2>2
  <2>4. e \in 1 .. 4 /\ array[pos[e]] = key /\ pos[e] \in 0 .. size - 1
    BY <1>4, <2>3
  <2>5. pos[e] \in 0 .. MaxSize - 1 /\ pos[e] < size /\ pos[e] # not_found
    BY <1>1, <2>4 DEF not_found
  <2> QED
    BY <2>3, <2>4, <2>5, ReturnStep
<1>7. CASE /\ equal = {}
           /\ left' = (IF c > 0 THEN pos[c] + 1 ELSE left)
           /\ right' = (IF c < 4 THEN pos[c + 1] - 1 ELSE right)
           /\ UNCHANGED <<preference, call, mid, loaded, pc, answer>>
  <2>1. /\ c \in 0 .. 4
        /\ c > 0 => value[c] < key /\ (c < 4 => value[c + 1] >= key)
        /\ (\A i, j \in 1 .. 4 : i <= j => value[i] <= value[j]) /\ c < 4 => value[c + 1] >= key
    BY <1>5, LeadingLanes
  <2>2. \A i \in 1 .. 4 : value[i] # key
    BY <1>7
  <2> HIDE DEF c
  <2>3. /\ c > 0 => /\ pos[c] \in left .. right /\ pos[c] \in 0 .. size - 1
                   /\ array[pos[c]] < key /\ left' = pos[c] + 1
        /\ c < 4 => /\ pos[c + 1] \in left .. right /\ pos[c + 1] \in 0 .. size - 1
                   /\ right' = pos[c + 1] - 1
        /\ c > 0 /\ c < 4 => pos[c] < pos[c + 1]
    <3>1. c > 0 /\ c < 4 => pos[c] <= pos[c + 1] /\ array[pos[c]] # array[pos[c + 1]]
      BY <1>2, <1>4, <1>5, <2>1
    <3> QED
      BY <1>1, <1>2, <1>4, <1>7, <2>1, <3>1
  <2>4. /\ c <= 0 => left' = left
        /\ c >= 4 => right' = right
        /\ c \in Int
    BY <1>7, <2>1
  <2>5. /\ left' \in 0 .. size /\ right' \in -1 .. size - 1 /\ left' <= right' + 1
    BY <1>1, <2>1, <2>3, <2>4 DEF scalar_range
  <2>6. ASSUME Sorted, NEW i \in 0 .. size - 1, array[i] = key
        PROVE  left' <= i /\ i <= right'
    <3>1. left <= i /\ i <= right
      BY <1>1, <2>6
    <3>2. \A j, m \in 1 .. 4 : j <= m => value[j] <= value[m]
      BY <1>2, <1>4, <2>6 DEF Sorted
    <3>3. c < 4 => array[pos[c + 1]] > key
      BY <1>4, <1>5, <2>1, <2>2, <3>2
    <3>4. c > 0 => pos[c] < i
      BY <1>5, <2>3, <2>6 DEF Sorted
    <3>5. c < 4 => i < pos[c + 1]
      BY <1>5, <2>3, <2>6, <3>3 DEF Sorted
    <3> QED
      BY <1>1, <2>1, <2>3, <2>4, <3>1, <3>4, <3>5
  <2>7. TypeOK'
    BY <1>7, <2>5 DEF SearchInv, TypeOK, call
  <2>8. LoopInv'
    BY <1>1, <1>7, <2>5, <2>6 DEF LoopInv, call, Sorted
  <2>9. AnswersRight'
    BY <1>1, <1>7 DEF AnswersRight, FindsKey, MissesOnlyAbsent
  <2> QED
    BY <2>7, <2>8, <2>9 DEF SearchInv
<1> QED
  BY <1>3, <1>6, <1>7

\* The loops that finish a SIMD search start from what it has left.
LEMMA HandOverStep ==
    ASSUME SearchInv, hand_over
    PROVE  SearchInv'
<1>1. TypeOK'
  BY DEF SearchInv, TypeOK, hand_over, Routine, Assembly, Arrays
<1>2. LoopInv'
  BY DEF SearchInv, LoopInv, hand_over, Sorted
<1>3. AnswersRight'
  BY DEF hand_over, AnswersRight, FindsKey, MissesOnlyAbsent
<1> QED
  BY <1>1, <1>2, <1>3 DEF SearchInv

\* Every step of every routine keeps the invariant.
LEMMA NextKeepsSearchInv == SearchInv /\ [Next]_vars => SearchInv'
<1> SUFFICES ASSUME SearchInv, [Next]_vars PROVE SearchInv'
  OBVIOUS
<1>1. ASSUME NEW pref \in Preference, set_backend_preference(pref) PROVE SearchInv'
  BY <1>1 DEF set_backend_preference, call, SearchInv, TypeOK, LoopInv, AnswersRight,
              FindsKey, MissesOnlyAbsent, Sorted, Occurs
<1>2. ASSUME NEW n \in Sizes, NEW k \in Element, NEW a \in Arrays(n),
             speedup_binary_search_i64(n, a, k)
      PROVE  SearchInv'
  <2>1. begin("ref", n, a, k) /\ pc' = "loop"
    BY <1>2, DispatchedToReference DEF speedup_binary_search_i64
  <2> QED
    BY <2>1, BeginStep, BinarySearchAssumption DEF Routine
<1>3. ASSUME NEW n \in Sizes, NEW k \in Element, NEW a \in Arrays(n),
             NEW r \in Assembly, binary_search_win64(r, n, a, k)
      PROVE  SearchInv'
  BY <1>3, BeginStep, BinarySearchAssumption DEF binary_search_win64, Routine
<1>4. CASE Run
  BY <1>4, EnterStep, IterateStep, PipelineStep DEF Run
<1>5. CASE UNCHANGED vars
  BY <1>5 DEF vars, call, SearchInv, TypeOK, LoopInv, AnswersRight, FindsKey,
              MissesOnlyAbsent, Sorted, Occurs
<1> QED
  BY <1>1, <1>2, <1>3, <1>4, <1>5 DEF Next

\* The invariant holds in every reachable state.
LEMMA SearchInvariance == Spec => []SearchInv
<1> QED
  BY InitSearchInv, NextKeepsSearchInv, PTL DEF Spec

\* The bounds never leave the array by more than one, for any array length an
\* int64_t counts.
THEOREM BoundsInRange == Spec => []TypeOK
<1>1. SearchInv => TypeOK
  BY DEF SearchInv
<1> QED
  BY SearchInvariance, <1>1, PTL

\* The C function and the three assembly routines answer with a place of the key,
\* and with -1 only if a sorted array does not hold it, under every preference.
THEOREM SearchesCorrect == Spec => []AnswersRight
<1>1. SearchInv => AnswersRight
  BY DEF SearchInv
<1> QED
  BY SearchInvariance, <1>1, PTL

\* The same of the SIMD searches and of any calls before and after them, for every
\* array they are called with.
THEOREM SimdSearchesCorrect == SimdSpec => [](TypeOK /\ AnswersRight)
<1>1. SearchInv /\ [SimdNext]_vars => SearchInv'
  <2> SUFFICES ASSUME SearchInv, [SimdNext]_vars PROVE SearchInv'
    OBVIOUS
  <2>1. CASE [Next]_vars
    BY <2>1, NextKeepsSearchInv
  <2>2. ASSUME NEW d \in LongCalls, NEW r \in Simd,
               simd_binary_search(r, d.size, d.array, d.key)
        PROVE  SearchInv'
    <3>1. d.size \in 0 .. MaxSize /\ d.array \in Arrays(d.size) /\ d.key \in Element
      BY SimdSearchAssumption
    <3>2. PICK q \in Routine : begin(q, d.size, d.array, d.key) /\ q # "pipelined"
      BY <2>2 DEF simd_binary_search, Routine, Simd
    <3>3. pc' \in {"loop", "narrow"}
      BY <2>2 DEF simd_binary_search
    <3> QED
      BY <3>1, <3>2, <3>3, BeginStep
  <2>3. CASE narrow
    BY <2>3, NarrowStep
  <2>4. CASE hand_over
    BY <2>4, HandOverStep
  <2> QED
    BY <2>1, <2>2, <2>3, <2>4 DEF SimdNext
<1>2. SearchInv => TypeOK /\ AnswersRight
  BY DEF SearchInv
<1> QED
  BY InitSearchInv, <1>1, <1>2, PTL DEF SimdSpec
=============================================================================
