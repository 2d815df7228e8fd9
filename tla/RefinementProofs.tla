-------------------------- MODULE RefinementProofs --------------------------
(***************************************************************************)
(* The bucket index implements the sorted list of BucketedList: a caller   *)
(* who sees the elements, the names, the selection and the answers cannot  *)
(* tell the index, with its cached keys, lazily sorted buckets and pending *)
(* moves, from a list that keeps every order at hand.                      *)
(*                                                                         *)
(* Changes.  Both sides keep the elements in insertion order.  A change    *)
(* names the places it keeps or fills from left to right, and a set of     *)
(* places can be named so in one way only (SameEnumeration).               *)
(*                                                                         *)
(* Reads.  The list's position of an element counts the elements before    *)
(* it; the index has a place for it.  The two agree because a place with   *)
(* the right slots on either side of it is the rank of its slot            *)
(* (PlaceIsPosition), and the slots are on the right side: between buckets *)
(* because bucket ids follow the exact order (Orders), inside a bucket     *)
(* because the read has sorted it (Ladders).  Descending, the positions of *)
(* each group are counted from its other end.                              *)
(*                                                                         *)
(* The Java iterator.  A call of the list either counts as a modification  *)
(* or leaves the list's order alone (UnmodifiedKeepsOrder), and next() is  *)
(* a read, which answers from that order (IterInv).                        *)
(***************************************************************************)
EXTENDS ReadingProofs, FailFastIterator

-----------------------------------------------------------------------------
(* The list the index implements                                           *)

\* The names of the registered sort keys, as the list sees them.
Names == [i \in DOMAIN states |-> states[i].name]

\* The list's copies of library operators are the operators.
LEMMA SameOperators ==
    /\ \A S : List!Cardinality(S) = Cardinality(S)
    /\ \A s : List!ToSet(s) = ToSet(s)
    /\ \A s, T : List!only(s, T) = only(s, T)
<1>1. ASSUME NEW S PROVE List!Cardinality(S) = Cardinality(S)
  BY DEF List!Cardinality, Cardinality
<1>2. ASSUME NEW s PROVE List!ToSet(s) = ToSet(s)
  BY DEF List!ToSet, ToSet
<1>3. ASSUME NEW s, NEW T PROVE List!only(s, T) = only(s, T)
  BY DEF List!only, only
<1> QED
  BY <1>1, <1>2, <1>3

\* The two modules write the last call the same way.
LEMMA CallsAlike ==
    \A op, arg, out, num : List!Call(op, arg, out, num) = Call(op, arg, out, num)
  BY DEF List!Call, Call

\* The initial collection.
LEMMA InitPromised ==
    ASSUME Init
    PROVE  List!Init
<1>1. active = npos /\ ActiveKey = ""
  BY DEF Init, ActiveKey
<1>2. states = << >> /\ [i \in DOMAIN states |-> states[i].name] = << >>
  BY DEF Init
<1> QED
  BY <1>1, <1>2 DEF Init, List!Init, List!Unsorted, List!Call, Void, Call

\* What the list keeps of the states: the names and which of them is active.
LEMMA NamesStay ==
    ASSUME IInv, Updated
    PROVE  Names' = Names
  BY DEF IInv, Updated, Names

\* A call that updates the KeyStates in place leaves the active sort key what it is.
LEMMA ActiveKeyStaysSo ==
    ASSUME IInv, Updated, active' = active
    PROVE  ActiveKey' = ActiveKey
  BY DEF IInv, Updated, ActiveKey

\* A call that leaves the elements, the names and the selection as they are is one
\* the list may see as an observation.
LEMMA Observed ==
    ASSUME UNCHANGED <<items, val, direction, plan>>, Names' = Names, ActiveKey' = ActiveKey,
           NEW op, NEW arg, NEW out, NEW num, result' = Call(op, arg, out, num)
    PROVE  List!Observes(op, arg, out, num)
  BY CallsAlike DEF List!Observes, List!Answers, Names, Call

\* find_state looks a sort key up in what the list calls the names.
LEMMA NamesAre ==
    ASSUME IInv
    PROVE  /\ \A k : k \in ToSet(Names) <=> find_state(k) # {}
           /\ Names \in Seq(Name) /\ DOMAIN Names = DOMAIN states
<1>1. DOMAIN Names = DOMAIN states /\ \A i \in DOMAIN states : Names[i] = states[i].name
  BY DEF Names
<1>2. \A k : k \in ToSet(Names) <=> \E i \in DOMAIN states : states[i].name = k
  BY <1>1 DEF ToSet
<1>3. DOMAIN states = 1 .. Len(states) /\ Len(states) \in Nat
  BY DEF IInv
<1>4. \A i \in DOMAIN states : Names[i] \in Name
  BY <1>1 DEF IInv, Consistent, KeyStateOK
<1>5. Names \in Seq(Name)
  BY <1>1, <1>3, <1>4 DEF Names
<1> QED
  BY <1>1, <1>2, <1>5 DEF find_state

\* The calls that only observe: sorting ahead and rebalancing.
LEMMA SortAllPromised ==
    ASSUME IInv, sort_all
    PROVE  List!Next
<1>1. Read
  BY DEF Read
<1>2. Updated
  BY <1>1, ReadStep
<1>3. UNCHANGED <<items, val, direction, plan, active>> /\ result' = Call("sort_all", << >>, << >>, 0)
  BY DEF sort_all, Void
<1>4. List!sort_all
  BY <1>2, <1>3, NamesStay, ActiveKeyStaysSo, Observed DEF List!sort_all
<1> QED
  BY <1>4 DEF List!Next

\* rebalance, rebalance_all and set_plan rearrange buckets: the list sees nothing of it.
LEMMA TunePromised ==
    ASSUME IInv, Tune
    PROVE  List!Next
<1>1. Updated
  BY TuneStep
<1>2. Names' = Names
  BY <1>1, NamesStay
<1>3. CASE \E k \in Name : rebalance(k)
  <2>1. PICK k \in Name : rebalance(k)
    BY <1>3
  <2>2. UNCHANGED <<items, val, direction, plan, active>>
    BY <2>1 DEF rebalance
  <2>3. ActiveKey' = ActiveKey
    BY <1>1, <2>2, ActiveKeyStaysSo
  <2>4. CASE find_state(k) = {}
    <3>1. result' = Call("rebalance", << >>, << >>, -1) /\ k \notin ToSet(Names)
      BY <2>1, <2>4, NamesAre DEF rebalance, Thrown, npos
    <3>2. List!Observes("rebalance", << >>, << >>, -1)
      BY <1>2, <2>2, <2>3, <3>1, Observed
    <3>3. List!rebalance(k)
      BY <3>1, <3>2, SameOperators DEF List!rebalance, List!Throws, Names
    <3> QED
      BY <3>3 DEF List!Next
  <2>5. CASE find_state(k) # {}
    <3>1. result' = Call("rebalance", << >>, << >>, 0) /\ k \in ToSet(Names)
      BY <2>1, <2>5, NamesAre DEF rebalance, Void
    <3>2. List!Observes("rebalance", << >>, << >>, 0)
      BY <1>2, <2>2, <2>3, <3>1, Observed
    <3>3. List!rebalance(k)
      BY <3>1, <3>2, SameOperators DEF List!rebalance, Names
    <3> QED
      BY <3>3 DEF List!Next
  <2> QED
    BY <2>4, <2>5
<1>4. CASE rebalance_all
  <2>1. UNCHANGED <<items, val, direction, plan, active>>
        /\ result' = Call("rebalance_all", << >>, << >>, 0)
    BY <1>4 DEF rebalance_all, Void
  <2>2. List!rebalance_all
    BY <1>1, <1>2, <2>1, ActiveKeyStaysSo, Observed DEF List!rebalance_all
  <2> QED
    BY <2>2 DEF List!Next
<1>5. CASE \E pl \in Plan : set_plan(pl)
  <2>1. PICK pl \in Plan : set_plan(pl)
    BY <1>5
  <2>2. UNCHANGED <<items, val, direction, active>> /\ plan' = pl
        /\ result' = Call("set_plan", << >>, << >>, 0)
    BY <2>1 DEF set_plan, Void
  <2>3. ActiveKey' = ActiveKey
    BY <1>1, <2>2, ActiveKeyStaysSo
  <2>4. List!set_plan
    BY <1>2, <2>2, <2>3, CallsAlike DEF List!set_plan, List!Answers, Names, Call
  <2> QED
    BY <2>4 DEF List!Next
<1> QED
  BY <1>3, <1>4, <1>5 DEF Tune

-----------------------------------------------------------------------------
(* Registering and selecting sort keys                                     *)

\* The list's copy of RemoveAt is the operator.
LEMMA SameRemoveAt == \A s, i : List!RemoveAt(s, i) = RemoveAt(s, i)
<1>1. ASSUME NEW s, NEW i PROVE List!RemoveAt(s, i) = RemoveAt(s, i)
  BY DEF List!RemoveAt, RemoveAt
<1> QED
  BY <1>1

\* add_sort_key refuses a name it has and puts a new one behind the others.
LEMMA AddSortKeyPromised ==
    ASSUME IInv, NEW k \in Name, add_sort_key(k)
    PROVE  List!Next
<1>1. UNCHANGED <<items, val, active, direction, plan>>
  BY DEF add_sort_key
<1>2. CASE find_state(k) # {}
  <2>1. UNCHANGED states /\ result' = Call("add_sort_key", << >>, << >>, -1)
    BY <1>2 DEF add_sort_key, Thrown, npos
  <2>2. List!Observes("add_sort_key", << >>, << >>, -1)
    <3>1. Names' = Names /\ ActiveKey' = ActiveKey
      BY <1>1, <2>1 DEF Names, ActiveKey
    <3> QED
      BY <1>1, <2>1, <3>1, Observed
  <2>3. k \in ToSet(Names)
    BY <1>2, NamesAre
  <2>4. List!add_sort_key(k)
    BY <2>2, <2>3, SameOperators DEF List!add_sort_key, List!Throws, Names
  <2> QED
    BY <2>4 DEF List!Next
<1>3. CASE find_state(k) = {}
  <2> DEFINE st == new_state(k, [x \in DOMAIN items |-> key(k, val[items[x]])])
             r == relayout(st, items, val, plan)
             n == Len(states)
  <2>1. states' = Append(states, r) /\ result' = Call("add_sort_key", << >>, << >>, 0)
    BY <1>3 DEF add_sort_key, Void
  <2>2. DOMAIN st = KeyFields /\ st.name = k
    BY DEF new_state, KeyFields
  <2> HIDE DEF st
  <2>3. r.name = k
    BY <2>2, RelayoutName
  <2> HIDE DEF r
  <2>4. /\ n \in Nat /\ DOMAIN states = 1 .. n
        /\ DOMAIN states' = 1 .. n + 1
        /\ \A i \in 1 .. n : states'[i] = states[i]
        /\ states'[n + 1] = r
    BY <2>1 DEF IInv
  <2>5. Names \in Seq(Name) /\ DOMAIN Names = 1 .. n /\ Len(Names) = n
    BY <2>4, NamesAre
  <2> HIDE DEF n
  <2>6. Names' = Append(Names, k)
    <3>1. Names' = [i \in 1 .. n + 1 |-> states'[i].name]
      BY <2>4 DEF Names
    <3>2. Names = [i \in 1 .. n |-> states[i].name]
      BY <2>4 DEF Names
    <3>3. DOMAIN Append(Names, k) = 1 .. n + 1 /\ \A i \in 1 .. n : Append(Names, k)[i] = Names[i]
      BY <2>4, <2>5
    <3>4. Append(Names, k)[n + 1] = k
      BY <2>5
    <3>5. Append(Names, k) = [i \in 1 .. n + 1 |-> Append(Names, k)[i]]
      <4> DEFINE s == Append(Names, k)
      <4>1. s \in Seq(Name) /\ DOMAIN s = 1 .. n + 1
        BY <2>5, <3>3
      <4> HIDE DEF s
      <4>2. s = [i \in 1 .. n + 1 |-> s[i]]
        BY <4>1
      <4> QED
        BY <4>2 DEF s
    <3>6. \A i \in 1 .. n + 1 : Append(Names, k)[i] = states'[i].name
      <4>1. \A i \in 1 .. n + 1 : i \in 1 .. n \/ i = n + 1
        BY <2>4
      <4> QED
        BY <2>3, <2>4, <3>2, <3>3, <3>4, <4>1
    <3> QED
      BY <3>1, <3>5, <3>6
  <2>7. ActiveKey' = ActiveKey
    BY <1>1, <2>4 DEF IInv, ActiveKey, n
  <2>8. k \notin ToSet(Names)
    BY <1>3, NamesAre
  <2>9. List!add_sort_key(k)
    BY <1>1, <2>1, <2>6, <2>7, <2>8, SameOperators, CallsAlike
       DEF List!add_sort_key, List!Answers, Names, Call
  <2> QED
    BY <2>9 DEF List!Next
<1> QED
  BY <1>2, <1>3

\* remove_sort_key takes one name out of the list of names, with a copy of the later
\* states, and deselects the sort key when it was the active one.
LEMMA RemoveSortKeyPromised ==
    ASSUME IInv, NEW k \in Name, remove_sort_key(k)
    PROVE  List!Next
<1>1. UNCHANGED <<items, val, direction, plan>>
  BY DEF remove_sort_key
<1>2. CASE find_state(k) = {}
  <2>1. UNCHANGED <<states, active>> /\ result' = Call("remove_sort_key", << >>, << >>, 0)
    BY <1>2 DEF remove_sort_key
  <2>2. List!Observes("remove_sort_key", << >>, << >>, 0)
    <3>1. Names' = Names /\ ActiveKey' = ActiveKey
      BY <2>1 DEF Names, ActiveKey
    <3> QED
      BY <1>1, <2>1, <3>1, Observed
  <2>3. k \notin ToSet(Names)
    BY <1>2, NamesAre
  <2>4. List!remove_sort_key(k)
    BY <2>2, <2>3, SameOperators DEF List!remove_sort_key, Names
  <2> QED
    BY <2>4 DEF List!Next
<1>3. CASE find_state(k) # {}
  <2>1. PICK i \in find_state(k) :
            /\ states' = RemoveAt(states, i)
            /\ active' = IF active = i THEN npos
                         ELSE IF active # npos /\ active > i THEN active - 1 ELSE active
            /\ result' = Call("remove_sort_key", << >>, << >>, 1)
    BY <1>3 DEF remove_sort_key
  <2> DEFINE n == Len(states)
             at_(j) == IF j < i THEN j ELSE j + 1
  <2>2. /\ n \in Nat /\ DOMAIN states = 1 .. n
        /\ i \in 1 .. n /\ states[i].name = k
    BY DEF IInv, find_state
  <2>3. /\ DOMAIN states' = 1 .. n - 1
        /\ \A j \in 1 .. n - 1 : states'[j] = states[at_(j)]
    BY <2>1, <2>2, RemoveAtEntries
  <2>4. /\ \A j \in 1 .. n - 1 : at_(j) \in 1 .. n /\ at_(j) # i
        /\ \A j \in 1 .. n - 1 : (j < i => at_(j) = j) /\ (j >= i => at_(j) = j + 1)
        /\ n - 1 \in Nat
    BY <2>2
  <2>5. Names \in Seq(Name) /\ DOMAIN Names = 1 .. n /\ Len(Names) = n
        /\ \A j \in 1 .. n : Names[j] = states[j].name
    BY <2>2, NamesAre DEF Names
  <2>6. /\ DOMAIN RemoveAt(Names, i) = 1 .. n - 1
        /\ \A j \in 1 .. n - 1 : RemoveAt(Names, i)[j] = Names[at_(j)]
    <3>1. n \in Nat /\ i \in 1 .. n /\ DOMAIN Names = 1 .. n /\ Len(Names) = n
      BY <2>2, <2>5
    <3> HIDE DEF n
    <3>2. /\ DOMAIN RemoveAt(Names, i) = 1 .. n - 1
          /\ \A j \in 1 .. n - 1 : RemoveAt(Names, i)[j] = Names[IF j < i THEN j ELSE j + 1]
      BY <3>1, RemoveAtEntries
    <3> QED
      BY <3>2
  <2>7. RemoveAt(Names, i) = [j \in 1 .. n - 1 |-> RemoveAt(Names, i)[j]]
    <3>1. RemoveAt(Names, i) = [j \in DOMAIN RemoveAt(Names, i) |-> RemoveAt(Names, i)[j]]
      <4>1. RemoveAt(Names, i) \in Seq(Name)
        BY <2>2, <2>5 DEF RemoveAt
      <4> QED
        BY <4>1
    <3> QED
      BY <2>6, <3>1
  <2> HIDE DEF n, at_
  <2>8. Names' = RemoveAt(Names, i)
    <3>1. Names' = [j \in 1 .. n - 1 |-> states'[j].name]
      BY <2>3 DEF Names
    <3>2. \A j \in 1 .. n - 1 : RemoveAt(Names, i)[j] = states'[j].name
      BY <2>3, <2>4, <2>5, <2>6
    <3> QED
      BY <2>7, <3>1, <3>2
  <2>9. active = npos \/ active \in 1 .. n
    BY <2>2 DEF IInv
  <2>10. \A j \in 1 .. n : states[j].name = k => j = i
    BY <2>2 DEF IInv
  <2>11. k # ""
    BY SortKeyAssumption
  <2>12. ActiveKey' = IF ActiveKey = k THEN "" ELSE ActiveKey
    <3>1. CASE active = npos
      <4>1. active' = npos
        BY <2>1, <2>2, <3>1 DEF npos
      <4> QED
        BY <2>11, <3>1, <4>1 DEF ActiveKey
    <3>2. CASE active = i
      <4>1. active' = npos
        BY <2>1, <3>2
      <4>2. active # npos
        BY <2>2, <3>2 DEF npos
      <4> QED
        BY <2>2, <3>2, <4>1, <4>2 DEF ActiveKey
    <3>3. CASE active \in 1 .. n /\ active < i
      <4>1. active' = active /\ active \in 1 .. n - 1 /\ active' # npos /\ active # npos
        BY <2>1, <2>2, <3>3 DEF npos
      <4>2. states'[active'] = states[active]
        BY <2>3, <2>4, <3>3, <4>1
      <4>3. states[active].name # k
        BY <2>2, <2>10, <3>3
      <4> QED
        BY <4>1, <4>2, <4>3 DEF ActiveKey
    <3>4. CASE active \in 1 .. n /\ active > i
      <4>1. active' = active - 1 /\ active' \in 1 .. n - 1 /\ active' # npos /\ active # npos
            /\ active' >= i /\ active' + 1 = active
        <5>1. active # i /\ active # npos
          BY <2>2, <3>4 DEF npos
        <5>2. active' = active - 1
          BY <2>1, <3>4, <5>1
        <5> QED
          BY <2>2, <3>4, <5>1, <5>2 DEF npos
      <4>2. states'[active'] = states[active]
        BY <2>3, <2>4, <4>1
      <4>3. states[active].name # k
        BY <2>2, <2>10, <3>4
      <4> QED
        BY <4>1, <4>2, <4>3 DEF ActiveKey
    <3>5. active = npos \/ active = i \/ (active \in 1 .. n /\ active < i)
          \/ (active \in 1 .. n /\ active > i)
      BY <2>2, <2>9
    <3> QED
      BY <3>1, <3>2, <3>3, <3>4, <3>5
  <2>13. k \in ToSet(Names)
    BY <1>3, NamesAre
  <2>14. i \in DOMAIN Names /\ Names[i] = k
    BY <2>2, <2>5
  <2>15. List!remove_sort_key(k)
    <3>1. ~ (k \notin List!ToSet(Names))
      BY <2>13, SameOperators
    <3>2. \E j \in DOMAIN Names : Names[j] = k /\ Names' = List!RemoveAt(Names, j)
      BY <2>8, <2>14, SameRemoveAt
    <3> QED
      BY <1>1, <2>1, <2>12, <3>1, <3>2, CallsAlike
         DEF List!remove_sort_key, List!Answers, Names, Call, List!Unsorted
  <2> QED
    BY <2>15 DEF List!Next
<1> QED
  BY <1>2, <1>3

\* sort_by selects a registered sort key and refuses any other.
LEMMA SortByPromised ==
    ASSUME IInv, NEW k \in Name, NEW dir \in Direction, sort_by(k, dir)
    PROVE  List!Next
<1>1. UNCHANGED <<items, val, plan>>
  BY DEF sort_by
<1>2. Names' = Names
  BY SortByStep, NamesStay
<1>3. CASE find_state(k) = {}
  <2>1. UNCHANGED <<states, active, direction>> /\ result' = Call("sort_by", << >>, << >>, -1)
    BY <1>3 DEF sort_by, Thrown, npos
  <2>2. List!Observes("sort_by", << >>, << >>, -1)
    <3>1. ActiveKey' = ActiveKey
      BY <2>1 DEF ActiveKey
    <3> QED
      BY <1>1, <1>2, <2>1, <3>1, Observed
  <2>3. k \notin ToSet(Names)
    BY <1>3, NamesAre
  <2>4. List!sort_by(k, dir)
    BY <2>2, <2>3, SameOperators DEF List!sort_by, List!Throws, Names
  <2> QED
    BY <2>4 DEF List!Next, Direction
<1>4. CASE find_state(k) # {}
  <2>1. PICK i \in find_state(k) :
            /\ active' = i /\ direction' = dir
            /\ result' = Call("sort_by", << >>, << >>, 0)
    BY <1>4 DEF sort_by, Void
  <2>2. i \in DOMAIN states /\ states[i].name = k /\ i # npos
    BY DEF find_state, IInv, npos
  <2>3. ActiveKey' = k
    <3>1. states'[i].name = states[i].name
      BY <2>2, SortByStep DEF Updated
    <3> QED
      BY <2>1, <2>2, <3>1 DEF ActiveKey
  <2>4. k \in ToSet(Names)
    BY <1>4, NamesAre
  <2>5. List!sort_by(k, dir)
    BY <1>1, <1>2, <2>1, <2>3, <2>4, SameOperators, CallsAlike
       DEF List!sort_by, List!Answers, Names, Call
  <2> QED
    BY <2>5 DEF List!Next, Direction
<1> QED
  BY <1>3, <1>4

\* The calls that register, remove and select sort keys.
LEMMA SelectPromised ==
    ASSUME IInv, Select
    PROVE  List!Next
<1>1. CASE \E k \in Name : add_sort_key(k)
  BY <1>1, AddSortKeyPromised
<1>2. CASE \E k \in Name : remove_sort_key(k)
  BY <1>2, RemoveSortKeyPromised
<1>3. CASE \E k \in Name, dir \in Directions : sort_by(k, dir)
  BY <1>3, SortByPromised, BucketIndexAssumption
<1>4. CASE unsort
  <2>1. active' = npos /\ UNCHANGED <<items, val, states, direction, plan>>
        /\ result' = Call("unsort", << >>, << >>, 0)
    BY <1>4 DEF unsort, Void
  <2>2. Names' = Names /\ ActiveKey' = ""
    BY <2>1 DEF Names, ActiveKey
  <2>3. List!unsort
    BY <2>1, <2>2, CallsAlike DEF List!unsort, List!Answers, Names, Call, List!Unsorted
  <2> QED
    BY <2>3 DEF List!Next
<1> QED
  BY <1>1, <1>2, <1>3, <1>4 DEF Select

-----------------------------------------------------------------------------
(* Changes of the collection, place by place                               *)

\* e lists the numbers in P from the least to the greatest.
Enumerates(e, m, P) ==
    /\ m \in Nat /\ P \in SUBSET Nat
    /\ e \in [1 .. m -> P]
    /\ \A i, j \in 1 .. m : i < j => e[i] < e[j]
    /\ \A x \in P : \E i \in 1 .. m : e[i] = x

\* The numbers of P up to b.
upto(P, b) == {x \in P : x <= b}

\* An enumeration names each number once, so it is as long as its set.
LEMMA EnumeratedOnce ==
    ASSUME NEW m, NEW e, NEW P, Enumerates(e, m, P)
    PROVE  /\ \A i \in 1 .. m : e[i] \in P /\ e[i] \in Nat
           /\ \A i, j \in 1 .. m : e[i] = e[j] => i = j
           /\ m = Cardinality(P)
<1>1. m \in Nat /\ \A i \in 1 .. m : e[i] \in P /\ e[i] \in Nat
  BY DEF Enumerates
<1>2. \A i, j \in 1 .. m : e[i] = e[j] => i = j
  <2> SUFFICES ASSUME NEW i \in 1 .. m, NEW j \in 1 .. m, e[i] = e[j] PROVE i = j
    OBVIOUS
  <2>1. ~ (i < j) /\ ~ (j < i)
    BY <1>1 DEF Enumerates
  <2> QED
    BY <2>1
<1>3. m = Cardinality(P)
  <2>1. e \in [1 .. m -> P] /\ \A x \in P : \E i \in 1 .. m : e[i] = x
    BY DEF Enumerates
  <2> QED
    BY <1>1, <1>2, <2>1, CountByList
<1> QED
  BY <1>1, <1>2, <1>3

\* The p-th number of an enumeration has p numbers up to it.
LEMMA EnumeratedUpTo ==
    ASSUME NEW m, NEW e, NEW P, Enumerates(e, m, P), NEW p \in 1 .. m
    PROVE  IsFiniteSet(upto(P, e[p])) /\ Cardinality(upto(P, e[p])) = p
<1> DEFINE U == upto(P, e[p])
           f == [i \in 1 .. p |-> e[i]]
<1>1. /\ m \in Nat
      /\ \A i \in 1 .. m : e[i] \in P /\ e[i] \in Nat
      /\ \A i, j \in 1 .. m : e[i] = e[j] => i = j
      /\ \A i, j \in 1 .. m : i < j => e[i] < e[j]
      /\ \A x \in P : \E i \in 1 .. m : e[i] = x
  BY EnumeratedOnce DEF Enumerates
<1>2. p \in Nat /\ \A i \in 1 .. p : i \in 1 .. m /\ (i < p \/ i = p)
  BY <1>1
<1>3. f \in [1 .. p -> U]
  <2>1. ASSUME NEW i \in 1 .. p PROVE e[i] \in U
    <3>1. e[i] \in P /\ e[i] \in Nat /\ e[p] \in Nat /\ (e[i] < e[p] \/ e[i] = e[p])
      BY <1>1, <1>2
    <3> QED
      BY <3>1 DEF upto
  <2> QED
    BY <2>1
<1>4. \A i, j \in 1 .. p : f[i] = f[j] => i = j
  BY <1>1, <1>2
<1>5. \A x \in U : \E i \in 1 .. p : f[i] = x
  <2> SUFFICES ASSUME NEW x \in U PROVE \E i \in 1 .. p : f[i] = x
    OBVIOUS
  <2>1. x \in P /\ x <= e[p]
    BY DEF upto
  <2>2. PICK i \in 1 .. m : e[i] = x
    BY <1>1, <2>1
  <2>3. e[i] \in Nat /\ e[p] \in Nat /\ ~ (e[p] < e[i])
    BY <1>1, <2>1, <2>2
  <2>4. ~ (p < i)
    BY <1>1, <2>3
  <2>5. i \in 1 .. p
    BY <1>2, <2>4
  <2> QED
    BY <2>2, <2>5
<1> HIDE DEF f, U
<1>6. IsFiniteSet(U) /\ Cardinality(U) = p
  BY <1>2, <1>3, <1>4, <1>5, CountByList
<1> QED
  BY <1>6 DEF U

\* No enumeration of a set can have a smaller number in a place than another.
LEMMA NoneBefore ==
    ASSUME NEW m, NEW e, NEW P, Enumerates(e, m, P), NEW d, NEW a, Enumerates(a, d, P),
           NEW p \in 1 .. m, p \in 1 .. d
    PROVE  ~ (e[p] < a[p])
<1> DEFINE u == e[p]
           v == a[p]
           S == upto(P, u)
           T == upto(P, v)
<1>1. IsFiniteSet(S) /\ Cardinality(S) = p
  BY EnumeratedUpTo
<1>2. IsFiniteSet(T) /\ Cardinality(T) = p
  BY EnumeratedUpTo
<1>3. u \in Nat /\ v \in Nat /\ v \in P /\ \A x \in P : x \in Nat
  BY EnumeratedOnce DEF Enumerates
<1> SUFFICES ASSUME u < v PROVE FALSE
  OBVIOUS
<1> HIDE DEF u, v
<1>4. S \in SUBSET T
  <2>1. \A x \in P : x <= u => x <= v
    BY <1>3
  <2> QED
    BY <2>1 DEF upto
<1>5. v \in T /\ v \notin S
  BY <1>3 DEF upto
<1> HIDE DEF S, T
<1> QED
  BY <1>1, <1>2, <1>4, <1>5, FS_Subset

\* So a set is enumerated in one way.
LEMMA SameEnumeration ==
    ASSUME NEW m, NEW e, NEW P, Enumerates(e, m, P), NEW d, NEW a, Enumerates(a, d, P)
    PROVE  m = d /\ \A i \in 1 .. m : e[i] = a[i]
<1>1. m = Cardinality(P) /\ d = Cardinality(P)
  BY EnumeratedOnce
<1>2. ASSUME NEW p \in 1 .. m PROVE e[p] = a[p]
  <2>1. p \in 1 .. d
    BY <1>1
  <2>2. ~ (e[p] < a[p]) /\ ~ (a[p] < e[p])
    BY <2>1, NoneBefore
  <2>3. e[p] \in Nat /\ a[p] \in Nat
    BY <2>1, EnumeratedOnce
  <2> QED
    BY <2>2, <2>3
<1> QED
  BY <1>1, <1>2

\* The elements of s in the places e lists.
picked(s, e, m) == [i \in 1 .. m |-> s[e[i]]]

\* e names m places of s, from left to right.
Picks(e, m, s) ==
    /\ m \in Nat /\ e \in [1 .. m -> 1 .. Len(s)]
    /\ \A i, j \in 1 .. m : i < j => e[i] < e[j]

\* Filtering a sequence by a set picks the places that hold elements of the set.
LEMMA OnlyIs ==
    ASSUME NEW X, NEW s \in Seq(X), NEW T, NEW m, NEW e, Picks(e, m, s),
           \A i \in 1 .. Len(s) : s[i] \in T <=> \E p \in 1 .. m : e[p] = i
    PROVE  only(s, T) = picked(s, e, m)
<1> DEFINE o == only(s, T)
           d == Len(o)
           n == Len(s)
           P == {i \in 1 .. n : s[i] \in T}
<1>1. o \in Seq(X) /\ \E e2 : KeptPlaces(e2, o, s, n, T)
  BY OnlyPlaces
<1> HIDE DEF o
<1>2. PICK a : KeptPlaces(a, o, s, n, T)
  BY <1>1
<1>3. d \in Nat /\ n \in Nat /\ DOMAIN o = 1 .. d /\ o = [i \in 1 .. d |-> o[i]]
  BY <1>1
<1>4. /\ a \in [1 .. d -> 1 .. n]
      /\ \A p \in 1 .. d : o[p] = s[a[p]] /\ s[a[p]] \in T
      /\ \A p, q \in 1 .. d : p < q => a[p] < a[q]
      /\ \A i \in 1 .. n : s[i] \in T => \E p \in 1 .. d : a[p] = i
  BY <1>2 DEF KeptPlaces
<1>5. /\ m \in Nat /\ e \in [1 .. m -> 1 .. n]
      /\ \A i, j \in 1 .. m : i < j => e[i] < e[j]
      /\ \A i \in 1 .. n : s[i] \in T <=> \E p \in 1 .. m : e[p] = i
  BY DEF Picks
<1> HIDE DEF n, d
<1>6. P \in SUBSET Nat
  BY <1>3
<1>7. Enumerates(e, m, P)
  BY <1>5, <1>6 DEF Enumerates
<1>8. Enumerates(a, d, P)
  BY <1>3, <1>4, <1>6 DEF Enumerates
<1> HIDE DEF P
<1>9. m = d /\ \A i \in 1 .. m : e[i] = a[i]
  BY <1>7, <1>8, SameEnumeration
<1>10. o = [i \in 1 .. m |-> s[e[i]]]
  BY <1>3, <1>4, <1>9
<1> QED
  BY <1>10 DEF o, picked

\* Behind its elements the collection has new ones.
LEMMA AppendsPromised ==
    ASSUME Collection(items, val), NEW f \in Nat, NEW fit \in [1 .. f -> Handle \ ToSet(items)],
           NEW vs, \A h \in ToSet(fit) : vs[h] \in Value,
           items' = items \o fit, val' = with_added(fit, vs),
           Names' = Names, ActiveKey' = ActiveKey, UNCHANGED <<direction, plan>>
    PROVE  List!Appends(fit)
<1> DEFINE ws == [h \in ToSet(fit) |-> vs[h]]
           T == ToSet(items)
           F == ToSet(fit)
<1>1. DOMAIN val = T
  BY DEF Collection
<1>2. \A h \in F : h \notin T
  BY DEF ToSet
<1>3. ws \in [F -> Value]
  OBVIOUS
<1>4. val' = [h \in T \cup F |-> IF h \in T THEN val[h] ELSE vs[h]]
  BY <1>1 DEF with_added
<1> HIDE DEF T
<1>5. val' = [h \in T \cup F |-> IF h \in DOMAIN ws THEN ws[h] ELSE val[h]]
  BY <1>2, <1>4
<1> HIDE DEF F, ws
<1>6. /\ List!ToSet(items) = T /\ List!ToSet(fit) = F
  BY SameOperators DEF T, F
<1> QED
  BY <1>3, <1>5, <1>6 DEF List!Appends, Names

\* add puts one element behind the others.
LEMMA AddPromised ==
    ASSUME IInv, NEW h \in Fresh, NEW v \in Value, add(h, v)
    PROVE  List!Next
<1>1. UNCHANGED <<active, direction, plan>>
  BY DEF add
<1>2. Updated
  BY AddStep
<1>3. Names' = Names /\ ActiveKey' = ActiveKey
  BY <1>1, <1>2, NamesStay, ActiveKeyStaysSo
<1>4. h \in Handle \ List!ToSet(items)
  BY SameOperators DEF Fresh
<1>5. CASE Len(items) >= MaxItems
  <2>1. UNCHANGED <<items, val>> /\ result' = Call("add", << >>, << >>, -1)
    BY <1>5 DEF add, Thrown, npos
  <2>2. List!Observes("add", << >>, << >>, -1)
    BY <1>1, <1>3, <2>1, Observed
  <2>3. List!add(h)
    BY <1>5, <2>2 DEF List!add, List!Throws
  <2> QED
    BY <1>4, <2>3 DEF List!Next
<1>6. CASE ~ (Len(items) >= MaxItems)
  <2> DEFINE vs == [x \in {h} |-> v]
  <2>1. /\ items' = Append(items, h) /\ val' = with_added(<<h>>, vs)
        /\ result' = Call("add", << >>, << >>, 0)
    BY <1>6 DEF add, Void
  <2>2. Collection(items, val) /\ items \in Seq(Handle) /\ h \in Handle \ ToSet(items)
    BY DEF IInv, Collection, Fresh
  <2>3. items' = items \o <<h>>
    BY <2>1, <2>2
  <2>4. <<h>> \in [1 .. 1 -> Handle \ ToSet(items)] /\ ToSet(<<h>>) = {h}
    <3>1. DOMAIN <<h>> = 1 .. 1 /\ <<h>>[1] = h /\ \A i \in 1 .. 1 : i = 1
      OBVIOUS
    <3>2. <<h>> \in [1 .. 1 -> Handle \ ToSet(items)]
      BY <2>2, <3>1
    <3> QED
      BY <3>1, <3>2 DEF ToSet
  <2>5. \A x \in ToSet(<<h>>) : vs[x] \in Value
    BY <2>4
  <2>6. List!Appends(<<h>>)
    <3> HIDE DEF vs
    <3>1. UNCHANGED <<direction, plan>> /\ 1 \in Nat
      BY <1>1
    <3>2. val' = with_added(<<h>>, vs)
      BY <2>1
    <3> DEFINE s == <<h>>
    <3>3. /\ items' = items \o s /\ val' = with_added(s, vs)
          /\ s \in [1 .. 1 -> Handle \ ToSet(items)]
          /\ \A x \in ToSet(s) : vs[x] \in Value
      BY <2>3, <2>4, <2>5, <3>2
    <3> HIDE DEF s
    <3>4. List!Appends(s)
      BY <1>3, <2>2, <3>1, <3>3, AppendsPromised
    <3> QED
      BY <3>4 DEF s
  <2>7. List!Answers("add", << >>, << >>, 0)
    BY <2>1, CallsAlike DEF List!Answers, Call
  <2>8. List!add(h)
    BY <1>6, <2>6, <2>7 DEF List!add
  <2> QED
    BY <1>4, <2>8 DEF List!Next
<1> QED
  BY <1>5, <1>6

\* add_all puts the new elements behind the others, in the order they came, however the
\* bulk insertion merges their slots into the buckets.
LEMMA AddAllPromised ==
    ASSUME IInv, NEW m \in 0 .. MaxBulk, NEW hs \in [1 .. m -> Fresh], IsInjective(hs),
           NEW vs \in [ToSet(hs) -> Value], add_all(hs, vs)
    PROVE  List!Next
<1> DEFINE room == MaxItems - Len(items)
           f == min(Len(hs), room)
           fit == SubSeq(hs, 1, f)
<1>1. /\ items' = items \o fit /\ val' = with_added(fit, vs)
      /\ UNCHANGED <<active, direction, plan>>
      /\ result' = IF Len(fit) < Len(hs) THEN Call("add_all", << >>, << >>, -1)
                   ELSE Call("add_all", << >>, << >>, 0)
  BY DEF add_all, Thrown, Void, npos
<1>2. /\ Collection(items, val) /\ Len(items) \in Nat /\ room \in Nat /\ MaxBulk \in Nat
  BY BucketIndexAssumption DEF IInv, Collection
<1>3. /\ m \in Nat /\ f \in Nat /\ f <= m /\ f <= room
      /\ DOMAIN hs = 1 .. m /\ Len(hs) = m
      /\ (m > room => f = room) /\ (m <= room => f = m)
  BY <1>2 DEF min
<1>4. /\ fit \in [1 .. f -> Handle \ ToSet(items)] /\ Len(fit) = f
      /\ \A x \in 1 .. f : fit[x] = hs[x] /\ x \in 1 .. m
      /\ fit = [x \in 1 .. f |-> hs[x]]
  <2>1. \A x \in 1 .. f : x \in 1 .. m /\ hs[x] \in Handle \ ToSet(items)
    BY <1>3 DEF Fresh
  <2>2. fit = [x \in 1 .. f |-> hs[x]] /\ Len(fit) = f
    <3> HIDE DEF f
    <3> QED
      BY <1>3
  <2> QED
    BY <2>1, <2>2
<1>5. Updated
  BY <1>3, AddAllStep
<1>6. Names' = Names /\ ActiveKey' = ActiveKey
  BY <1>1, <1>5, NamesStay, ActiveKeyStaysSo
<1>7. \A h \in ToSet(fit) : vs[h] \in Value
  <2>1. ASSUME NEW h \in ToSet(fit) PROVE vs[h] \in Value
    <3>1. PICK x \in 1 .. f : h = fit[x]
      BY <1>4 DEF ToSet
    <3>2. h \in ToSet(hs)
      BY <1>3, <1>4, <3>1 DEF ToSet
    <3> QED
      BY <3>2
  <2> QED
    BY <2>1
<1>8. List!Appends(fit)
  <2>1. UNCHANGED <<direction, plan>> /\ f \in Nat
    BY <1>1, <1>3
  <2>2. items' = items \o fit /\ val' = with_added(fit, vs)
    BY <1>1
  <2> HIDE DEF fit, f
  <2> QED
    BY <1>2, <1>4, <1>6, <1>7, <2>1, <2>2, AppendsPromised
<1>9. hs \in List!NewElements(MaxBulk)
  <2>1. hs \in [1 .. m -> Handle \ List!ToSet(items)]
    BY SameOperators DEF Fresh
  <2>2. \A i, j \in DOMAIN hs : hs[i] = hs[j] => i = j
    BY DEF IsInjective
  <2> QED
    BY <2>1, <2>2 DEF List!NewElements
<1>10. CASE m > room
  <2>1. Len(fit) < Len(hs) /\ f = room
    BY <1>3, <1>4, <1>10, <1>2
  <2>2. List!Answers("add_all", << >>, << >>, -1)
    BY <1>1, <2>1, CallsAlike DEF List!Answers, Call
  <2>3. List!Appends(SubSeq(hs, 1, room))
    BY <1>8, <2>1
  <2>4. Len(hs) > room
    BY <1>3, <1>10
  <2>5. List!add_all(hs)
    BY <2>2, <2>3, <2>4 DEF List!add_all
  <2>6. result'.op = "add_all"
    BY <2>2 DEF List!Answers
  <2> QED
    BY <1>9, <2>5, <2>6 DEF List!Next, List!Is
<1>11. CASE m <= room
  <2>1. ~ (Len(fit) < Len(hs)) /\ f = m
    BY <1>3, <1>4, <1>11, <1>2
  <2>2. List!Answers("add_all", << >>, << >>, 0)
    BY <1>1, <2>1, CallsAlike DEF List!Answers, Call
  <2>3. fit = hs
    BY <1>4, <2>1
  <2>4. ~ (Len(hs) > room)
    BY <1>2, <1>3, <1>11
  <2>5. List!add_all(hs)
    <3>1. List!Appends(hs)
      BY <1>8, <2>3
    <3> QED
      BY <2>2, <2>4, <3>1 DEF List!add_all
  <2>6. result'.op = "add_all"
    BY <2>2 DEF List!Answers
  <2> QED
    BY <1>9, <2>5, <2>6 DEF List!Next, List!Is
<1> QED
  BY <1>2, <1>3, <1>10, <1>11

\* What is counted out of a collection by its places.
LEMMA PlacesCount ==
    ASSUME NEW its, NEW vl, Collection(its, vl), NEW S \in SUBSET DOMAIN its
    PROVE  Cardinality({its[x] : x \in S}) = Cardinality(S)
<1> DEFINE H == {its[x] : x \in S}
           f == [x \in S |-> its[x]]
           n == Len(its)
<1>1. n \in Nat /\ DOMAIN its = 1 .. n /\ S \in SUBSET (1 .. n)
  BY DEF Collection
<1> HIDE DEF n
<1>2. IsFiniteSet(S)
  BY <1>1, PartOfInterval
<1>3. f \in [S -> H] /\ \A y \in H : \E x \in S : f[x] = y
  OBVIOUS
<1>4. \A x, y \in S : f[x] = f[y] => x = y
  BY DEF Collection
<1> HIDE DEF f, H
<1>5. f \in Bijection(S, H)
  BY <1>3, <1>4 DEF Bijection, Injection, Surjection, IsInjective
<1>6. ExistsBijection(S, H)
  BY <1>5 DEF ExistsBijection
<1> QED
  BY <1>2, <1>6, FS_Bijection DEF H

\* update_if changes values only, and reports how many elements matched.
LEMMA UpdateIfPromised ==
    ASSUME IInv, NEW matching \in SUBSET DOMAIN items,
           NEW change \in [{items[x] : x \in matching} -> Value], update_if(matching, change)
    PROVE  List!Next
<1> DEFINE hit == {items[x] : x \in matching}
<1>1. /\ UNCHANGED <<items, active, direction, plan>>
      /\ val' = [h \in DOMAIN val |-> IF h \in hit THEN change[h] ELSE val[h]]
      /\ result' = Call("update_if", << >>, << >>, Cardinality(matching))
  BY DEF update_if
<1>2. Updated
  BY UpdateIfStep
<1>3. Names' = Names /\ ActiveKey' = ActiveKey
  BY <1>1, <1>2, NamesStay, ActiveKeyStaysSo
<1>4. Cardinality(hit) = Cardinality(matching)
  BY PlacesCount DEF IInv
<1>5. hit \in SUBSET List!ToSet(items)
  BY SameOperators DEF ToSet
<1>6. List!Answers("update_if", << >>, << >>, List!Cardinality(hit))
  <2>1. List!Cardinality(hit) = Cardinality(matching)
    BY <1>4, SameOperators
  <2> HIDE DEF hit
  <2> QED
    BY <1>1, <2>1, CallsAlike DEF List!Answers, Call
<1>7. List!update_if(hit)
  <2>1. change \in [hit -> Value]
    OBVIOUS
  <2> HIDE DEF hit
  <2> QED
    BY <1>1, <1>3, <1>6, <2>1 DEF List!update_if, Names
<1>8. result'.op = "update_if"
  BY <1>6 DEF List!Answers
<1> HIDE DEF hit
<1> QED
  BY <1>5, <1>7, <1>8 DEF List!Next, List!Is

\* What stays when the places kept are all that stays.
LEMMA KeptOnly ==
    ASSUME NEW its, NEW vl, Collection(its, vl),
           NEW m \in Nat, NEW kept \in [1 .. m -> 1 .. Len(its)],
           \A i, j \in 1 .. m : i < j => kept[i] < kept[j],
           NEW gone, gone = ToSet(its) \ {its[kept[i]] : i \in 1 .. m}
    PROVE  only(its, Handle \ gone) = picked(its, kept, m)
<1> DEFINE n == Len(its)
           T == Handle \ gone
           rest == {its[kept[i]] : i \in 1 .. m}
<1>1. /\ its \in Seq(Handle) /\ n \in Nat /\ DOMAIN its = 1 .. n
      /\ \A x, y \in 1 .. n : its[x] = its[y] => x = y
      /\ \A x \in 1 .. n : its[x] \in Handle /\ its[x] \in ToSet(its)
  BY DEF Collection, ToSet
<1>2. \A i \in 1 .. n : its[i] \in T <=> \E p \in 1 .. m : kept[p] = i
  <2> SUFFICES ASSUME NEW i \in 1 .. n PROVE its[i] \in T <=> \E p \in 1 .. m : kept[p] = i
    OBVIOUS
  <2>1. its[i] \in T <=> its[i] \in rest
    BY <1>1
  <2>2. ASSUME its[i] \in rest PROVE \E p \in 1 .. m : kept[p] = i
    <3>1. PICK p \in 1 .. m : its[i] = its[kept[p]]
      BY <2>2
    <3>2. kept[p] \in 1 .. n
      OBVIOUS
    <3> QED
      BY <1>1, <3>1, <3>2
  <2>3. ASSUME NEW p \in 1 .. m, kept[p] = i PROVE its[i] \in rest
    BY <2>3
  <2> QED
    BY <2>1, <2>2, <2>3
<1>3. \A i \in 1 .. Len(its) : its[i] \in T <=> \E p \in 1 .. m : kept[p] = i
  BY <1>2
<1>4. its \in Seq(Handle) /\ \A i, j \in 1 .. m : i < j => kept[i] < kept[j]
  BY <1>1
<1> HIDE DEF T
<1>5. Picks(kept, m, its)
  BY <1>4 DEF Picks
<1>6. only(its, T) = picked(its, kept, m)
  BY <1>3, <1>4, <1>5, OnlyIs
<1> QED
  BY <1>6 DEF T

\* The elements left over, in their order, and their values.
LEMMA RemovesPromised ==
    ASSUME Collection(items, val), NEW m \in Nat, NEW kept \in [1 .. m -> 1 .. Len(items)],
           \A i, j \in 1 .. m : i < j => kept[i] < kept[j],
           NEW rest, rest = {items[kept[i]] : i \in 1 .. m},
           NEW gone, gone = ToSet(items) \ rest,
           items' = [i \in 1 .. m |-> items[kept[i]]], val' = [h \in rest |-> val[h]],
           Names' = Names, ActiveKey' = ActiveKey, UNCHANGED <<direction, plan>>
    PROVE  List!Removes(gone)
<1>1. only(items, Handle \ gone) = picked(items, kept, m)
  BY KeptOnly
<1>2. rest = DOMAIN val \ gone
  <2>1. \A i \in 1 .. m : items[kept[i]] \in ToSet(items)
    BY DEF Collection, ToSet
  <2>2. rest \subseteq ToSet(items)
    BY <2>1
  <2>3. DOMAIN val = ToSet(items)
    BY DEF Collection
  <2> QED
    BY <2>2, <2>3
<1>3. val' = [h \in DOMAIN val \ gone |-> val[h]]
  BY <1>2
<1>4. items' = List!only(items, Handle \ gone)
  BY <1>1, SameOperators DEF picked
<1> QED
  BY <1>3, <1>4 DEF List!Removes, Names

\* The slots remove_if keeps are different ones, from left to right.
LEMMA SelectedPlaces ==
    ASSUME NEW n \in Nat, NEW kept \in Selections(n)
    PROVE  /\ Len(kept) \in 0 .. n /\ DOMAIN kept = 1 .. Len(kept)
           /\ kept \in [1 .. Len(kept) -> 1 .. n]
           /\ \A i, j \in 1 .. Len(kept) : i < j => kept[i] < kept[j]
           /\ \A i, j \in 1 .. Len(kept) : kept[i] = kept[j] => i = j
<1> DEFINE m == Len(kept)
<1>1. PICK l \in 0 .. MaxItems : kept \in [1 .. l -> 1 .. MaxItems]
  BY DEF Selections, Ascending
<1>2. l = m /\ m \in Nat /\ DOMAIN kept = 1 .. m
  BY <1>1, BucketIndexAssumption
<1>3. /\ m <= n /\ \A i \in DOMAIN kept : kept[i] <= n
      /\ \A i, j \in DOMAIN kept : i < j => kept[i] < kept[j]
  BY DEF Selections, Ascending
<1> HIDE DEF m
<1>4. \A i \in 1 .. m : kept[i] \in 1 .. n
  BY <1>1, <1>2, <1>3, BucketIndexAssumption
<1>5. kept \in [1 .. m -> 1 .. n] /\ \A i, j \in 1 .. m : i < j => kept[i] < kept[j]
  BY <1>1, <1>2, <1>3, <1>4
<1>6. \A i, j \in 1 .. m : kept[i] = kept[j] => i = j
  BY <1>2, <1>5, AscendingDistinct
<1> QED
  BY <1>2, <1>3, <1>5, <1>6 DEF m

\* remove_if keeps the remaining elements in their order and counts the others: the list
\* sees which elements went, not how the slots of every sort key were renumbered.
LEMMA RemoveIfPromised ==
    ASSUME IInv, NEW kept \in Selections(Len(items)), remove_if(kept)
    PROVE  List!Next
<1> DEFINE n == Len(items)
           m == Len(kept)
           rest == {items[kept[i]] : i \in 1 .. m}
           gone == ToSet(items) \ rest
<1>1. /\ Collection(items, val) /\ n \in Nat /\ DOMAIN items = 1 .. n
      /\ items \in Seq(Handle) /\ DOMAIN val = ToSet(items)
  BY DEF IInv, Collection
<1>2. /\ m \in 0 .. n /\ kept \in [1 .. m -> 1 .. n] /\ DOMAIN kept = 1 .. m
      /\ \A i, j \in 1 .. m : i < j => kept[i] < kept[j]
      /\ \A i, j \in 1 .. m : kept[i] = kept[j] => i = j
  BY <1>1, SelectedPlaces
<1>3. UNCHANGED <<active, direction, plan>> /\ result' = Call("remove_if", << >>, << >>, n - m)
  BY DEF remove_if
<1>4. Updated
  BY RemoveIfStep
<1>5. Names' = Names /\ ActiveKey' = ActiveKey
  BY <1>3, <1>4, NamesStay, ActiveKeyStaysSo
<1>6. m # n => /\ items' = [i \in 1 .. m |-> items[kept[i]]]
               /\ val' = [h \in rest |-> val[h]]
  BY <1>2 DEF remove_if
<1>7. m = n => UNCHANGED <<items, val>>
  BY DEF remove_if
<1>8. rest \subseteq ToSet(items) /\ IsFiniteSet(rest) /\ Cardinality(rest) = m
  <2> DEFINE f == [i \in 1 .. m |-> items[kept[i]]]
  <2>1. \A i \in 1 .. m : kept[i] \in 1 .. n
    BY <1>2
  <2>2. rest \subseteq ToSet(items)
    BY <1>1, <2>1 DEF ToSet
  <2>3. f \in [1 .. m -> rest] /\ \A x \in rest : \E i \in 1 .. m : f[i] = x
    OBVIOUS
  <2>4. \A i, j \in 1 .. m : f[i] = f[j] => i = j
    <3>1. \A i, j \in 1 .. m : items[kept[i]] = items[kept[j]] => kept[i] = kept[j]
      BY <1>1, <2>1 DEF Collection
    <3> QED
      BY <1>2, <3>1
  <2>5. m \in Nat
    BY <1>2
  <2> HIDE DEF f, rest, m
  <2>6. IsFiniteSet(rest) /\ Cardinality(rest) = m
    BY <2>3, <2>4, <2>5, CountByList
  <2> QED
    BY <2>2, <2>6
<1>9. IsFiniteSet(ToSet(items)) /\ Cardinality(ToSet(items)) = n
  <2>1. items \in [1 .. n -> ToSet(items)] /\ \A x \in ToSet(items) : \E i \in 1 .. n : items[i] = x
    BY <1>1 DEF ToSet
  <2>2. \A i, j \in 1 .. n : items[i] = items[j] => i = j
    BY <1>1 DEF Collection
  <2> HIDE DEF n
  <2> QED
    BY <1>1, <2>1, <2>2, CountByList
<1> HIDE DEF rest, gone, m, n
<1>10. Cardinality(gone) = n - m /\ IsFiniteSet(gone)
  <2>1. ToSet(items) \cap rest = rest
    BY <1>8
  <2>2. Cardinality(ToSet(items) \ rest) = Cardinality(ToSet(items)) - Cardinality(ToSet(items) \cap rest)
        /\ IsFiniteSet(ToSet(items) \ rest)
    BY <1>9, FS_Difference
  <2> QED
    BY <1>8, <1>9, <2>1, <2>2 DEF gone
<1>11. UNCHANGED <<direction, plan>>
  BY <1>3
<1>12. List!Removes(gone)
  <2>1. CASE m # n
    <3>1. m \in Nat /\ kept \in [1 .. m -> 1 .. Len(items)]
      BY <1>1, <1>2 DEF n
    <3>2. rest = {items[kept[i]] : i \in 1 .. m} /\ gone = ToSet(items) \ rest
      BY DEF rest, gone
    <3>3. items' = [i \in 1 .. m |-> items[kept[i]]] /\ val' = [h \in rest |-> val[h]]
      BY <1>6, <2>1
    <3> QED
      BY <1>1, <1>2, <1>5, <1>11, <3>1, <3>2, <3>3, RemovesPromised
  <2>2. CASE m = n
    <3> DEFINE id == [i \in 1 .. n |-> i]
    <3>1. gone = {} /\ rest = ToSet(items)
      <4>1. Cardinality(gone) = 0
        BY <1>1, <1>10, <2>2
      <4>2. gone = {}
        BY <1>10, <4>1, FS_EmptySet
      <4> QED
        BY <1>8, <4>2 DEF gone
    <3>2. \A i \in 1 .. n : id[i] = i
      OBVIOUS
    <3>3. id \in [1 .. n -> 1 .. Len(items)] /\ \A i, j \in 1 .. n : i < j => id[i] < id[j]
      BY DEF n
    <3>4. {items[id[i]] : i \in 1 .. n} = rest
      BY <1>1, <3>1 DEF ToSet
    <3>5. items' = [i \in 1 .. n |-> items[id[i]]]
      BY <1>1, <1>7, <2>2
    <3>6. val' = [h \in rest |-> val[h]]
      BY <1>1, <1>7, <2>2, <3>1 DEF Collection
    <3> HIDE DEF id
    <3>7. gone = ToSet(items) \ rest
      BY DEF gone
    <3> QED
      BY <1>1, <1>5, <1>11, <3>3, <3>4, <3>5, <3>6, <3>7, RemovesPromised
  <2> QED
    BY <2>1, <2>2
<1>13. gone \in SUBSET List!ToSet(items)
  BY SameOperators DEF gone
<1>14. List!Answers("remove_if", << >>, << >>, List!Cardinality(gone))
  <2>1. List!Cardinality(gone) = n - m
    BY <1>10, SameOperators
  <2> QED
    BY <1>3, <2>1, CallsAlike DEF List!Answers, Call
<1>15. List!remove_if(gone)
  BY <1>12, <1>14 DEF List!remove_if
<1>16. result'.op = "remove_if"
  BY <1>14 DEF List!Answers
<1> QED
  BY <1>13, <1>15, <1>16 DEF List!Next, List!Is

\* clear removes every element.
LEMMA ClearPromised ==
    ASSUME IInv, clear
    PROVE  List!Next
<1> DEFINE none == [i \in 1 .. 0 |-> 1]
           rest == {}
           gone == ToSet(items)
<1>1. /\ UNCHANGED <<active, direction, plan>> /\ items' = << >> /\ val' = << >>
      /\ result' = Call("clear", << >>, << >>, 0)
  BY DEF clear, Void
<1>2. Updated
  BY ClearStep
<1>3. Names' = Names /\ ActiveKey' = ActiveKey
  BY <1>1, <1>2, NamesStay, ActiveKeyStaysSo
<1>4. 1 .. 0 = {}
  OBVIOUS
<1>5. /\ items' = [i \in 1 .. 0 |-> items[none[i]]]
      /\ val' = [h \in rest |-> val[h]]
  BY <1>1, <1>4
<1>6. /\ 0 \in Nat /\ none \in [1 .. 0 -> 1 .. Len(items)]
      /\ \A i, j \in 1 .. 0 : i < j => none[i] < none[j]
      /\ rest = {items[none[i]] : i \in 1 .. 0}
      /\ gone = ToSet(items) \ rest
  BY <1>4
<1> HIDE DEF none, rest, gone
<1>7. List!Removes(gone)
  <2>1. Collection(items, val) /\ UNCHANGED <<direction, plan>>
    BY <1>1 DEF IInv
  <2> QED
    BY <1>3, <1>5, <1>6, <2>1, RemovesPromised
<1>8. List!Removes(List!ToSet(items))
  BY <1>7, SameOperators DEF gone
<1>9. List!clear
  BY <1>1, <1>8, CallsAlike DEF List!clear, List!Answers, Call
<1> QED
  BY <1>9 DEF List!Next

\* The calls that change the collection.
LEMMA ChangePromised ==
    ASSUME IInv, Change
    PROVE  List!Next
<1>1. CASE \E h \in Fresh, v \in Value : Room(1) /\ add(h, v)
  BY <1>1, AddPromised
<1>2. CASE \E m \in 0 .. MaxBulk : \E hs \in [1 .. m -> Fresh] :
              Room(m) /\ IsInjective(hs) /\ \E vs \in [ToSet(hs) -> Value] : add_all(hs, vs)
  BY <1>2, AddAllPromised
<1>3. CASE \E kept \in Selections(Len(items)) : Bounded(Len(items) - Len(kept)) /\ remove_if(kept)
  BY <1>3, RemoveIfPromised
<1>4. CASE \E matching \in {S \in SUBSET DOMAIN items : Cardinality(S) <= MaxBulk} :
              Bounded(Cardinality(matching))
              /\ \E change \in [{items[x] : x \in matching} -> Value] : update_if(matching, change)
  <2>1. PICK matching \in SUBSET DOMAIN items :
            \E change \in [{items[x] : x \in matching} -> Value] : update_if(matching, change)
    BY <1>4
  <2> QED
    BY <2>1, UpdateIfPromised
<1>5. CASE clear
  BY <1>5, ClearPromised
<1> QED
  BY <1>1, <1>2, <1>3, <1>4, <1>5 DEF Change

-----------------------------------------------------------------------------
(* The list's order                                                        *)

\* The list's order of the slots, as a comparator.
ListOrder(k, dir) ==
    {p \in (1 .. Len(items)) \X (1 .. Len(items)) : List!Before(k, dir, p[1], p[2])}

\* That comparator is Before.
LEMMA ListOrderIs ==
    ASSUME NEW k, NEW dir, NEW x \in 1 .. Len(items), NEW y \in 1 .. Len(items)
    PROVE  <<x, y>> \in ListOrder(k, dir) <=> List!Before(k, dir, x, y)
  BY DEF ListOrder

\* Index and list ask the same sort keys.
LEMMA ComparedAlike ==
    /\ \A k, v, w : List!compare(k, v, w) = compare(k, v, w)
    /\ \A k, v : List!group(k, v) = group(k, v)
<1>1. ASSUME NEW k, NEW v PROVE List!group(k, v) = group(k, v)
  BY DEF List!group, group
<1>2. ASSUME NEW k, NEW v PROVE List!key(k, v) = key(k, v)
  BY DEF List!key, key
<1>3. ASSUME NEW k, NEW v, NEW w PROVE List!tie_break(k, v, w) = tie_break(k, v, w)
  BY DEF List!tie_break, tie_break
<1>4. ASSUME NEW k, NEW v, NEW w PROVE List!compare(k, v, w) = compare(k, v, w)
  BY <1>1, <1>2, <1>3 DEF List!compare, compare
<1> QED
  BY <1>1, <1>4

\* The group of the element in slot x.
SlotGroup(k, x) == group(k, val[items[x]])

\* The slots of a collection hold values.
LEMMA ValuesOf ==
    ASSUME Collection(items, val)
    PROVE  /\ Len(items) \in Nat /\ DOMAIN items = 1 .. Len(items)
           /\ \A x \in 1 .. Len(items) : values(items, val)[x] = val[items[x]] /\ val[items[x]] \in Value
<1>1. items \in Seq(Handle) /\ val \in [ToSet(items) -> Value]
  BY DEF Collection
<1>2. DOMAIN items = 1 .. Len(items) /\ Len(items) \in Nat
  BY <1>1
<1>3. \A x \in 1 .. Len(items) : items[x] \in ToSet(items)
  BY <1>2 DEF ToSet
<1> QED
  BY <1>1, <1>2, <1>3 DEF values

\* The list's ascending order: compare, and the slot among equal elements.
LEMMA AscendingIs ==
    ASSUME NEW k, NEW x, NEW y
    PROVE  LET c == compare(k, val[items[x]], val[items[y]])
           IN  List!AscendingBefore(k, x, y) <=> c < 0 \/ (c = 0 /\ x < y)
  BY ComparedAlike DEF List!AscendingBefore

\* Descending turns the order of two elements of one group round and keeps the groups.
LEMMA BeforeIs ==
    ASSUME NEW k, NEW dir, NEW x, NEW y
    PROVE  List!Before(k, dir, x, y) <=>
               IF dir = "ascending" \/ SlotGroup(k, x) # SlotGroup(k, y)
               THEN List!AscendingBefore(k, x, y) ELSE List!AscendingBefore(k, y, x)
  BY ComparedAlike DEF List!Before, SlotGroup

\* The list's ascending order is the one the buckets are sorted by.
LEMMA AscendingRanked ==
    ASSUME Collection(items, val), NEW k \in Name
    PROVE  Ranked(ListOrder(k, "ascending"), k, values(items, val), 1 .. Len(items))
<1> SUFFICES ASSUME NEW a \in 1 .. Len(items), NEW b \in 1 .. Len(items)
             PROVE  <<a, b>> \in ListOrder(k, "ascending") <=>
                        \/ compare(k, values(items, val)[a], values(items, val)[b]) < 0
                        \/ compare(k, values(items, val)[a], values(items, val)[b]) = 0 /\ a < b
  BY DEF Ranked
<1>1. values(items, val)[a] = val[items[a]] /\ values(items, val)[b] = val[items[b]]
  BY ValuesOf
<1> QED
  BY <1>1, ListOrderIs, AscendingIs, BeforeIs

\* It is a linear order when the functions of the sort key order the values.
LEMMA AscendingLinear ==
    ASSUME Collection(items, val), NEW k \in Ordering
    PROVE  Linear(ListOrder(k, "ascending"), 1 .. Len(items))
<1> DEFINE U == 1 .. Len(items)
           w == values(items, val)
           less == ListOrder(k, "ascending")
<1>1. k \in Name
  BY DEF Ordering
<1>2. U \in SUBSET Nat /\ \A a \in U : w[a] \in Value
  BY ValuesOf
<1>3. Ranked(less, k, w, U)
  BY <1>1, AscendingRanked
<1> HIDE DEF U, w, less
<1>4. Linear(less, U)
  BY <1>2, <1>3, RankedLinear
<1> QED
  BY <1>4 DEF less, U

\* Turning an order round inside groups it does not mix leaves it linear.
TurnsInGroups(D, A, g, U) ==
    /\ \A x, y \in U : g[x] \in Nat /\ (g[x] < g[y] => <<x, y>> \in A)
    /\ \A x, y \in U : <<x, y>> \in D <=> IF g[x] # g[y] THEN <<x, y>> \in A ELSE <<y, x>> \in A

\* An order turned round inside its groups is linear still.
LEMMA TurnedLinear ==
    ASSUME NEW A, NEW U, Linear(A, U), NEW g, NEW D, TurnsInGroups(D, A, g, U)
    PROVE  Linear(D, U)
<1>1. /\ \A x, y \in U : ~ (<<x, y>> \in A /\ <<y, x>> \in A)
      /\ \A x, y \in U : x # y => <<x, y>> \in A \/ <<y, x>> \in A
      /\ \A x, y, z \in U : <<x, y>> \in A /\ <<y, z>> \in A => <<x, z>> \in A
  BY DEF Linear
<1>2. /\ \A x, y \in U : g[x] \in Nat /\ (g[x] < g[y] => <<x, y>> \in A)
      /\ \A x, y \in U : <<x, y>> \in D <=> IF g[x] # g[y] THEN <<x, y>> \in A ELSE <<y, x>> \in A
  BY DEF TurnsInGroups
<1>3. \A x, y \in U : <<x, y>> \in A => g[x] <= g[y]
  <2> SUFFICES ASSUME NEW x \in U, NEW y \in U, <<x, y>> \in A PROVE g[x] <= g[y]
    OBVIOUS
  <2>1. g[x] \in Nat /\ g[y] \in Nat /\ ~ (g[y] < g[x])
    BY <1>1, <1>2
  <2> QED
    BY <2>1
<1>4. \A x, y \in U : ~ (<<x, y>> \in D /\ <<y, x>> \in D)
  BY <1>1, <1>2
<1>5. \A x, y \in U : x # y => <<x, y>> \in D \/ <<y, x>> \in D
  BY <1>1, <1>2
<1>6. ASSUME NEW x \in U, NEW y \in U, NEW z \in U, <<x, y>> \in D, <<y, z>> \in D
      PROVE  <<x, z>> \in D
  <2> DEFINE a == g[x]
             b == g[y]
             c == g[z]
  <2>1. a \in Nat /\ b \in Nat /\ c \in Nat
    BY <1>2
  <2>2. a <= b /\ b <= c
    BY <1>2, <1>3, <1>6
  <2>3. CASE a = b /\ b = c
    <3>1. <<y, x>> \in A /\ <<z, y>> \in A
      BY <1>2, <1>6, <2>3
    <3>2. <<z, x>> \in A
      BY <1>1, <3>1
    <3> QED
      BY <1>2, <2>3, <3>2
  <2>4. CASE a < b \/ b < c
    <3>1. a < c
      <4> HIDE DEF a, b, c
      <4> QED
        BY <2>1, <2>2, <2>4
    <3>2. a # c
      <4> HIDE DEF a, b, c
      <4> QED
        BY <2>1, <3>1
    <3> QED
      BY <1>2, <3>1, <3>2
  <2>5. (a = b /\ b = c) \/ a < b \/ b < c
    <3> HIDE DEF a, b, c
    <3> QED
      BY <2>1, <2>2
  <2> QED
    BY <2>3, <2>4, <2>5
<1> QED
  BY <1>4, <1>5, <1>6 DEF Linear

\* Both directions of the list are linear orders.
LEMMA ListLinear ==
    ASSUME Collection(items, val), NEW k \in Ordering, NEW dir
    PROVE  Linear(ListOrder(k, dir), 1 .. Len(items))
<1> DEFINE U == 1 .. Len(items)
           A == ListOrder(k, "ascending")
           D == ListOrder(k, dir)
           g == [x \in U |-> SlotGroup(k, x)]
<1>1. k \in Name
  BY DEF Ordering
<1>2. Linear(A, U)
  BY AscendingLinear
<1>3. CASE dir = "ascending"
  BY <1>2, <1>3
<1>4. CASE dir # "ascending"
  <2>1. \A x \in U : val[items[x]] \in Value
    BY ValuesOf
  <2>2. ASSUME NEW x \in U, NEW y \in U
        PROVE  g[x] \in Nat /\ (g[x] < g[y] => <<x, y>> \in A)
    <3>1. g[x] = group(k, val[items[x]]) /\ g[y] = group(k, val[items[y]])
      BY DEF SlotGroup
    <3>2. g[x] \in 1 .. GroupCount[k] /\ g[y] \in 1 .. GroupCount[k] /\ GroupCount[k] \in Nat
      BY <1>1, <2>1, <3>1, KeyRange
    <3>3. ASSUME g[x] < g[y] PROVE <<x, y>> \in A
      <4>1. group(k, val[items[x]]) # group(k, val[items[y]])
            /\ group(k, val[items[x]]) < group(k, val[items[y]])
        BY <3>1, <3>2, <3>3
      <4>2. compare(k, val[items[x]], val[items[y]]) = -1
        BY <4>1 DEF compare
      <4>3. List!AscendingBefore(k, x, y)
        BY <4>2, AscendingIs
      <4> QED
        BY <4>3, ListOrderIs, BeforeIs
    <3> HIDE DEF g
    <3> QED
      BY <3>2, <3>3
  <2>3. ASSUME NEW x \in U, NEW y \in U
        PROVE  <<x, y>> \in D <=> IF g[x] # g[y] THEN <<x, y>> \in A ELSE <<y, x>> \in A
    <3>1. <<x, y>> \in A <=> List!AscendingBefore(k, x, y)
      BY ListOrderIs, BeforeIs
    <3>2. <<y, x>> \in A <=> List!AscendingBefore(k, y, x)
      BY ListOrderIs, BeforeIs
    <3>3. <<x, y>> \in D <=> IF SlotGroup(k, x) # SlotGroup(k, y)
                             THEN List!AscendingBefore(k, x, y) ELSE List!AscendingBefore(k, y, x)
      BY <1>4, ListOrderIs, BeforeIs
    <3>4. g[x] = SlotGroup(k, x) /\ g[y] = SlotGroup(k, y)
      OBVIOUS
    <3> HIDE DEF g, A, D
    <3> QED
      BY <3>1, <3>2, <3>3, <3>4
  <2> HIDE DEF U, A, D, g
  <2>4. TurnsInGroups(D, A, g, U)
    BY <2>2, <2>3 DEF TurnsInGroups
  <2>5. Linear(D, U)
    BY <1>2, <2>4, TurnedLinear
  <2> QED
    BY <2>5 DEF D, U
<1> QED
  BY <1>3, <1>4

-----------------------------------------------------------------------------
(* Positions as ranks                                                      *)

\* What is before x.
before(less, n, x) == {y \in 1 .. n : <<y, x>> \in less}

\* The p-th of q is behind the ones before it and before the ones behind it.
Around(q, p, less) ==
    \A i \in 1 .. Len(q) : /\ i < p => <<q[i], q[p]>> \in less
                           /\ p < i => <<q[p], q[i]>> \in less

\* A slot with the right ones around it has as many before it as its place says.
LEMMA RankOfPlace ==
    ASSUME NEW n \in Nat, NEW less, Linear(less, 1 .. n), NEW q, Lists(q, 1 .. n),
           NEW p \in 1 .. n, Around(q, p, less)
    PROVE  Cardinality(before(less, n, q[p])) = p - 1
<1> DEFINE K == before(less, n, q[p])
           l == p - 1
           f == [i \in 1 .. l |-> q[i]]
<1>1. /\ Len(q) = n
      /\ \A i \in 1 .. n : q[i] \in 1 .. n
      /\ \A x \in 1 .. n : \E i \in 1 .. n : q[i] = x
  BY ListsWhole
<1>2. \A i, j \in 1 .. n : q[i] = q[j] => i = j
  BY <1>1 DEF Lists
<1>3. \A x, y \in 1 .. n : ~ (<<x, y>> \in less /\ <<y, x>> \in less)
  BY DEF Linear
<1>4. l \in Nat /\ \A i \in 1 .. l : i \in 1 .. n /\ i < p
  OBVIOUS
<1>5. \A i \in 1 .. n : /\ i < p => <<q[i], q[p]>> \in less
                        /\ p < i => <<q[p], q[i]>> \in less
  BY <1>1 DEF Around
<1>6. \A i \in 1 .. l : f[i] = q[i]
  OBVIOUS
<1>7. f \in [1 .. l -> K]
  <2>1. \A i \in 1 .. l : q[i] \in K
    BY <1>1, <1>4, <1>5 DEF before
  <2> QED
    BY <2>1
<1>8. \A i, j \in 1 .. l : f[i] = f[j] => i = j
  BY <1>2, <1>4, <1>6
<1>9. \A x \in K : \E i \in 1 .. l : f[i] = x
  <2> SUFFICES ASSUME NEW x \in K PROVE \E i \in 1 .. l : f[i] = x
    OBVIOUS
  <2>1. x \in 1 .. n /\ <<x, q[p]>> \in less
    BY DEF before
  <2>2. PICK i \in 1 .. n : q[i] = x
    BY <1>1, <2>1
  <2>3. ~ (<<q[p], q[i]>> \in less) /\ i # p
    BY <1>1, <1>3, <2>1, <2>2
  <2>6. ~ (p < i)
    BY <1>5, <2>3
  <2>4. i < p
    BY <2>3, <2>6
  <2>5. i \in 1 .. l
    BY <2>4
  <2> QED
    BY <1>6, <2>2, <2>5
<1> HIDE DEF f, K, l
<1>10. Cardinality(K) = l
  BY <1>4, <1>7, <1>8, <1>9, CountByList
<1> QED
  BY <1>10 DEF K, l

\* In a linear order a later slot has more slots before it,
LEMMA RankGrows ==
    ASSUME NEW n \in Nat, NEW less, Linear(less, 1 .. n), NEW x \in 1 .. n, NEW y \in 1 .. n,
           <<x, y>> \in less
    PROVE  Cardinality(before(less, n, x)) # Cardinality(before(less, n, y))
<1> DEFINE S == before(less, n, x)
           T == before(less, n, y)
<1>1. T \in SUBSET (1 .. n)
  BY DEF before
<1>2. S \in SUBSET T
  BY DEF before, Linear
<1>3. x \in T /\ x \notin S
  BY DEF before, Linear
<1> HIDE DEF S, T
<1>4. IsFiniteSet(T)
  BY <1>1, PartOfInterval
<1>5. Cardinality(S) # Cardinality(T)
  BY <1>2, <1>3, <1>4, FS_Subset
<1> QED
  BY <1>5 DEF S, T

\* so the number of slots before it tells which slot it is.
LEMMA RankUnique ==
    ASSUME NEW n \in Nat, NEW less, Linear(less, 1 .. n), NEW x \in 1 .. n, NEW y \in 1 .. n,
           Cardinality(before(less, n, x)) = Cardinality(before(less, n, y))
    PROVE  x = y
<1>1. x # y => <<x, y>> \in less \/ <<y, x>> \in less
  BY DEF Linear
<1> QED
  BY <1>1, RankGrows

\* The list's position of a slot counts the slots before it.
LEMMA PositionByRank ==
    ASSUME Collection(items, val), ActiveKey # "", NEW x \in 1 .. Len(items)
    PROVE  List!PositionOf(x)
               = 1 + Cardinality(before(ListOrder(ActiveKey, direction), Len(items), x))
<1>1. DOMAIN items = 1 .. Len(items)
  BY ValuesOf
<1>2. {y \in DOMAIN items : List!Before(ActiveKey, direction, y, x)}
        = before(ListOrder(ActiveKey, direction), Len(items), x)
  BY <1>1, ListOrderIs DEF before
<1>3. List!PositionOf(x)
        = 1 + List!Cardinality({y \in DOMAIN items : List!Before(ActiveKey, direction, y, x)})
  BY DEF List!PositionOf, List!Unsorted
<1> QED
  BY <1>2, <1>3, SameOperators

\* In a list of all slots, one that has the right ones around it has the list's
\* position, and is the slot the list has there.
LEMMA PlaceIsPosition ==
    ASSUME Collection(items, val), ActiveKey \in Ordering, NEW q, Lists(q, 1 .. Len(items)),
           NEW p \in 1 .. Len(items), Around(q, p, ListOrder(ActiveKey, direction))
    PROVE  List!PositionOf(q[p]) = p /\ List!SlotAt(p) = q[p] /\ q[p] \in 1 .. Len(items)
<1> DEFINE n == Len(items)
           less == ListOrder(ActiveKey, direction)
<1>1. n \in Nat /\ DOMAIN items = 1 .. n
  BY ValuesOf
<1>2. ActiveKey # "" /\ Linear(less, 1 .. n)
  <2>1. "" \notin Name
    BY SortKeyAssumption
  <2>2. ActiveKey \in Name
    BY DEF Ordering
  <2> QED
    BY <2>1, <2>2, ListLinear
<1>3. q[p] \in 1 .. n
  BY <1>1, ListsWhole
<1>4. Cardinality(before(less, n, q[p])) = p - 1
  <2> HIDE DEF less, n
  <2>1. Lists(q, 1 .. n) /\ p \in 1 .. n
    BY DEF n
  <2>2. Around(q, p, less)
    BY DEF less
  <2> QED
    BY <1>1, <1>2, <2>1, <2>2, RankOfPlace
<1>5. \A x \in 1 .. n : List!PositionOf(x) = 1 + Cardinality(before(less, n, x))
  BY <1>2, PositionByRank
<1>6. List!PositionOf(q[p]) = p
  BY <1>3, <1>4, <1>5
<1>7. ASSUME NEW x \in 1 .. n, List!PositionOf(x) = p PROVE x = q[p]
  <2>1. Cardinality(before(less, n, x)) \in Nat
    <3>1. before(less, n, x) \in SUBSET (1 .. n)
      BY DEF before
    <3> QED
      BY <1>1, <3>1, PartOfInterval
  <2>2. Cardinality(before(less, n, x)) = p - 1
    BY <1>5, <1>7, <2>1
  <2> HIDE DEF less, n
  <2> QED
    BY <1>1, <1>2, <1>3, <1>4, <2>2, RankUnique
<1>8. List!SlotAt(p) = CHOOSE x \in 1 .. n : List!PositionOf(x) = p
  BY <1>1 DEF List!SlotAt
<1>9. List!SlotAt(p) = q[p]
  BY <1>3, <1>6, <1>7, <1>8
<1> QED
  BY <1>3, <1>6, <1>9

\* In insertion order, slots are their own positions.
LEMMA UnsortedPositions ==
    ASSUME Collection(items, val), active = npos
    PROVE  /\ \A x \in 1 .. Len(items) : List!PositionOf(x) = x
           /\ \A p \in 1 .. Len(items) : List!SlotAt(p) = p
<1>1. DOMAIN items = 1 .. Len(items)
  BY ValuesOf
<1>2. ActiveKey = ""
  BY DEF ActiveKey
<1>3. \A x : List!PositionOf(x) = x
  BY <1>2 DEF List!PositionOf, List!Unsorted
<1>4. ASSUME NEW p \in 1 .. Len(items) PROVE List!SlotAt(p) = p
  <2>1. List!SlotAt(p) = CHOOSE x \in 1 .. Len(items) : x = p
    BY <1>1, <1>3 DEF List!SlotAt
  <2> QED
    BY <2>1
<1> QED
  BY <1>3, <1>4

-----------------------------------------------------------------------------
(* Places, buckets and the list's order                                    *)

\* Bucket starts do not fall.
LEMMA LadderRises ==
    ASSUME NEW k \in Nat, NEW off, Ladder(off, k), NEW i \in 1 .. k + 1, NEW j \in i .. k + 1
    PROVE  off[i] \in Nat /\ off[j] \in Nat /\ off[i] <= off[j]
<1>1. Offsets(off, k, gaps(off, k)) /\ \A b \in 1 .. k : gaps(off, k)[b] \in Nat
  BY DEF Ladder
<1> QED
  BY <1>1, OffsetsGrow

\* Segments follow each other.
LEMMA SegmentsRise ==
    ASSUME NEW k \in Nat, NEW off, Ladder(off, k), NEW a \in 1 .. k, NEW b \in 1 .. k,
           NEW y, y \in off[a] + 1 .. off[a + 1], NEW z, z \in off[b] + 1 .. off[b + 1], y <= z
    PROVE  a <= b
<1> SUFFICES ASSUME b < a PROVE FALSE
  OBVIOUS
<1>1. b + 1 \in 1 .. k + 1 /\ a \in b + 1 .. k + 1
  OBVIOUS
<1> DEFINE j == b + 1
           u == off[j]
           v == off[a]
           w == off[b]
           x == off[a + 1]
<1>2. j \in 1 .. k + 1 /\ a \in j .. k + 1
  BY <1>1
<1>3. off[a] \in Nat /\ off[a + 1] \in Nat /\ off[b] \in Nat /\ off[b + 1] \in Nat
  BY LadderBounds
<1>4. off[b + 1] <= off[a]
  <2> HIDE DEF j
  <2>1. off[j] <= off[a]
    BY <1>2, LadderRises
  <2> QED
    BY <2>1 DEF j
<1>5. y \in v + 1 .. x /\ z \in w + 1 .. u /\ u <= v /\ v \in Nat /\ x \in Nat /\ u \in Nat /\ w \in Nat
  BY <1>3, <1>4
<1> HIDE DEF u, v, w, x
<1> QED
  BY <1>5

\* The bucket of a place.
LEMMA PlaceBucket ==
    ASSUME NEW st, Readable(st), NEW u \in 1 .. Len(items)
    PROVE  LET b == st.buckets[st.order[u]]
           IN  /\ st.order[u] \in 1 .. Len(items)
               /\ b \in 1 .. bucket_total(st) /\ u \in st.start[b] + 1 .. st.start[b + 1]
               /\ bucket_at(st, u) = b
<1> DEFINE n == Len(items)
           k == bucket_total(st)
           r == st.order
           z == st.start
           d == st.buckets
<1>1. Arranged(r, z, k, 1 .. n, d) /\ k \in Nat /\ n \in Nat
  BY ReadableArranged DEF Typed
<1> HIDE DEF n, k, r, z, d
<1>2. u \in 1 .. n
  BY DEF n
<1>3. Lists(r, 1 .. n) /\ Ladder(z, k) /\ z[k + 1] = Len(r)
  BY <1>1 DEF Arranged
<1>4. Len(r) = n /\ r[u] \in 1 .. n
  BY <1>1, <1>2, <1>3, ListsWhole
<1>5. PICK b \in 1 .. k : u \in z[b] + 1 .. z[b + 1]
  <2>1. u \in 1 .. z[k + 1]
    BY <1>2, <1>3, <1>4
  <2> QED
    BY <1>1, <1>3, <2>1, LadderSegment
<1>6. d[r[u]] = b
  BY <1>1, <1>5 DEF Arranged
<1>7. first_above(Len(z), {i \in DOMAIN z : z[i] >= u}) = b
  BY <1>1, <1>3, <1>5, SegmentFound
<1>8. bucket_at(st, u) = b
  BY <1>7 DEF bucket_at, z
<1> QED
  BY <1>4, <1>5, <1>6, <1>8 DEF n, k, r, z, d

\* A later place is in the same bucket or in a later one.
LEMMA BucketsRise ==
    ASSUME NEW st, Readable(st), NEW u \in 1 .. Len(items), NEW v \in 1 .. Len(items), u <= v
    PROVE  /\ bucket_at(st, u) \in 1 .. bucket_total(st)
           /\ bucket_at(st, v) \in 1 .. bucket_total(st)
           /\ bucket_at(st, u) <= bucket_at(st, v)
<1> DEFINE k == bucket_total(st)
           z == st.start
           a == bucket_at(st, u)
           b == bucket_at(st, v)
<1>1. a \in 1 .. k /\ u \in z[a] + 1 .. z[a + 1]
  BY PlaceBucket
<1>2. b \in 1 .. k /\ v \in z[b] + 1 .. z[b + 1]
  BY PlaceBucket
<1>3. Arranged(st.order, st.start, k, 1 .. Len(items), st.buckets) /\ k \in Nat
  BY ReadableArranged DEF Typed
<1>4. Ladder(z, k)
  BY <1>3 DEF Arranged
<1> HIDE DEF k, z, a, b
<1>5. a <= b
  BY <1>1, <1>2, <1>3, <1>4, SegmentsRise
<1> QED
  BY <1>1, <1>2, <1>5 DEF a, b, k

\* What a read knows of a KeyState whose functions order the values.
Orderly(st) ==
    /\ Readable(st) /\ st.name \in Ordering
    /\ OrderedIn(st, items, val) /\ LaddersIn(st, val)

\* Bucket b is sorted to its end.
FullySorted(st, b) == st.sorted_len[b] = st.start[b + 1] - st.start[b]

\* Between buckets the order of the places is the list's.
LEMMA AcrossBuckets ==
    ASSUME NEW st, Orderly(st), NEW x \in 1 .. Len(items), NEW w \in 1 .. Len(items),
           st.buckets[x] < st.buckets[w]
    PROVE  List!AscendingBefore(st.name, x, w)
<1> DEFINE k == st.name
           v == val[items[x]]
           u == val[items[w]]
           c == compare(k, v, u)
           e == compare(k, u, v)
<1>1. Ready(st, items, val) /\ k \in Ordering /\ LaddersIn(st, val)
  BY DEF Orderly, Readable
<1>2. Collection(items, val) /\ Consistent(st, items, val) /\ LayoutsIn(st)
  BY <1>1 DEF Ready
<1>3. k \in Name /\ v \in Value /\ u \in Value /\ x \in DOMAIN items /\ w \in DOMAIN items
  BY <1>1, <1>2, ValuesOf DEF Ordering
<1>4. c \in {-1, 0, 1} /\ e \in {-1, 0, 1}
  BY <1>3, CompareRange
<1>5. c = 0 - e
  BY <1>1, <1>3 DEF Ordering
<1>6. ~ (e <= 0)
  <2> SUFFICES ASSUME e <= 0 PROVE FALSE
    OBVIOUS
  <2>1. st.buckets[w] \in Nat /\ st.buckets[x] \in Nat /\ st.buckets[w] <= st.buckets[x]
    BY <1>1, <1>2, <1>3, IdsFollowOrder
  <2> QED
    BY <2>1
<1>7. c < 0
  <2> HIDE DEF c, e
  <2> QED
    BY <1>4, <1>5, <1>6
<1> QED
  BY <1>7, AscendingIs

\* Inside a bucket that is sorted to its end it is too.
LEMMA InsideBucket ==
    ASSUME NEW st, Orderly(st), NEW b \in 1 .. bucket_total(st), FullySorted(st, b),
           NEW y, y \in st.start[b] + 1 .. st.start[b + 1],
           NEW z, z \in st.start[b] + 1 .. st.start[b + 1], y < z
    PROVE  List!AscendingBefore(st.name, st.order[y], st.order[z])
<1> DEFINE n == Len(items)
           k == bucket_total(st)
           r == st.order
           off == st.start
           lo == off[b]
           hi == off[b + 1]
           q == grouped(st, b)
           P == leading(q, st.sorted_len[b], Unmoved(st, items))
           x == r[y]
           w == r[z]
           less == slot_order(st, items, val)
<1>1. Readable(st) /\ Ready(st, items, val) /\ st.name \in Ordering /\ OrderedIn(st, items, val)
  BY DEF Orderly, Readable
<1>2. Arranged(r, off, k, 1 .. n, st.buckets) /\ k \in Nat /\ n \in Nat
  BY <1>1, ReadableArranged DEF Typed
<1>3. Lists(r, 1 .. n) /\ Ladder(off, k) /\ off[k + 1] = Len(r)
  BY <1>2 DEF Arranged
<1>4. /\ lo \in Nat /\ hi \in Nat /\ off[k + 1] \in Nat
      /\ lo <= hi /\ hi <= off[k + 1]
  <2> HIDE DEF k, off
  <2> QED
    BY <1>2, <1>3, LadderBounds DEF k, off
<1>5. y \in lo + 1 .. hi /\ z \in lo + 1 .. hi
  OBVIOUS
<1>6. st.buckets[x] = b /\ st.buckets[w] = b
  BY <1>2, <1>5 DEF Arranged
<1>7. Len(r) = n /\ \A i \in 1 .. n : r[i] \in 1 .. n
  BY <1>2, <1>3, ListsWhole
<1>8. x \in 1 .. n /\ w \in 1 .. n
  <2> HIDE DEF lo, hi, n, r, off
  <2>1. y \in 1 .. n /\ z \in 1 .. n
    BY <1>2, <1>3, <1>4, <1>5, <1>7
  <2> QED
    BY <1>7, <2>1
<1>9. q = SubSeq(r, lo + 1, hi)
  BY DEF grouped
<1>10. r \in Seq(1 .. n)
  BY <1>3 DEF Lists
<1>11. st.moved = {}
  BY <1>1, CurrentGrouping DEF Readable
<1>12. st.sorted_len[b] = hi - lo
  BY DEF FullySorted
<1>13. PrefixInOrder(st, items, val, b)
  BY <1>1 DEF OrderedIn, Readable
<1>14. \A p, i \in P : p < i => <<q[p], q[i]>> \in less
  BY <1>13 DEF PrefixInOrder
<1> HIDE DEF lo, hi, n, k, r, off, q
<1>15. /\ \A i \in 1 .. hi - lo : q[i] = r[lo + i]
  <2>1. lo \in 0 .. Len(r) /\ hi \in lo .. Len(r)
    BY <1>2, <1>3, <1>4, <1>7
  <2> QED
    BY <1>9, <1>10, <2>1, Slice
<1>16. /\ y - lo \in 1 .. hi - lo /\ z - lo \in 1 .. hi - lo /\ y - lo < z - lo
       /\ lo + (y - lo) = y /\ lo + (z - lo) = z
  BY <1>4, <1>5
<1>17. q[y - lo] = x /\ q[z - lo] = w
  BY <1>15, <1>16
<1>18. y - lo \in P /\ z - lo \in P
  <2>1. x \in Unmoved(st, items) /\ w \in Unmoved(st, items)
    BY <1>8, <1>11 DEF Unmoved, n
  <2> HIDE DEF x, w
  <2> QED
    BY <1>12, <1>16, <1>17, <2>1 DEF leading
<1> HIDE DEF x, w, P, less
<1>19. <<x, w>> \in less
  BY <1>14, <1>16, <1>17, <1>18
<1> DEFINE U == {x, w}
<1>20. Ranked(less, st.name, values(items, val), U)
  <2>1. U \in SUBSET (1 .. Len(items)) /\ \A i, j \in U : st.buckets[i] = st.buckets[j]
    BY <1>6, <1>8 DEF n
  <2> HIDE DEF U
  <2> QED
    BY <1>1, <2>1, BucketRanked DEF less
<1>21. Collection(items, val)
  BY <1>1 DEF Ready
<1>22. values(items, val)[x] = val[items[x]] /\ values(items, val)[w] = val[items[w]]
  BY <1>8, <1>21, ValuesOf DEF n
<1>23. \/ compare(st.name, val[items[x]], val[items[w]]) < 0
       \/ compare(st.name, val[items[x]], val[items[w]]) = 0 /\ x < w
  BY <1>19, <1>20, <1>22 DEF Ranked
<1>24. List!AscendingBefore(st.name, x, w)
  BY <1>23, AscendingIs
<1> QED
  BY <1>24 DEF x, w, r

\* Ascending: places in order, when the bucket they share is sorted.
LEMMA PlacesAscend ==
    ASSUME NEW st, Orderly(st), NEW y \in 1 .. Len(items), NEW z \in 1 .. Len(items), y < z,
           bucket_at(st, y) = bucket_at(st, z) => FullySorted(st, bucket_at(st, y))
    PROVE  List!AscendingBefore(st.name, st.order[y], st.order[z])
<1> DEFINE a == bucket_at(st, y)
           b == bucket_at(st, z)
<1>1. Readable(st)
  BY DEF Orderly
<1>2. /\ st.order[y] \in 1 .. Len(items) /\ st.buckets[st.order[y]] = a
      /\ a \in 1 .. bucket_total(st) /\ y \in st.start[a] + 1 .. st.start[a + 1]
  BY <1>1, PlaceBucket
<1>3. /\ st.order[z] \in 1 .. Len(items) /\ st.buckets[st.order[z]] = b
      /\ b \in 1 .. bucket_total(st) /\ z \in st.start[b] + 1 .. st.start[b + 1]
  BY <1>1, PlaceBucket
<1>4. a <= b
  BY <1>1, BucketsRise
<1>5. bucket_total(st) \in Nat
  BY <1>1, ReadableArranged DEF Typed
<1> HIDE DEF a, b
<1>6. CASE a = b
  BY <1>2, <1>3, <1>6, InsideBucket DEF a, b
<1>7. CASE a < b
  BY <1>2, <1>3, <1>7, AcrossBuckets
<1> QED
  BY <1>2, <1>3, <1>4, <1>5, <1>6, <1>7

-----------------------------------------------------------------------------
(* Positions of both directions                                            *)

\* A KeyState has one layout for each group of its sort key.
LEMMA GroupsAre ==
    ASSUME NEW st, Readable(st)
    PROVE  /\ st.name \in Name /\ Len(st.layouts) = GroupCount[st.name]
           /\ Len(st.layouts) \in Nat \ {0}
<1> DEFINE c == Len(st.layouts)
           e == GroupCount[st.name]
<1>1. Consistent(st, items, val)
  BY DEF Readable, Ready
<1>2. st.name \in Name /\ DOMAIN st.layouts = 1 .. e
  BY <1>1 DEF Consistent, KeyStateOK
<1>3. c \in Nat \ {0} /\ DOMAIN st.layouts = 1 .. c
  BY GroupsShare
<1>4. e \in Nat \ {0}
  <2>1. GroupCount \in [Name -> Nat \ {0}]
    BY SortKeyAssumption
  <2> QED
    BY <1>2, <2>1
<1> HIDE DEF c, e
<1>5. c = e
  <2>1. 1 .. c = 1 .. e
    BY <1>2, <1>3
  <2>2. c \in 1 .. c /\ e \in 1 .. e
    BY <1>3, <1>4
  <2>3. c \in 1 .. e /\ e \in 1 .. c
    BY <2>1, <2>2
  <2> QED
    BY <1>3, <1>4, <2>3
<1> QED
  BY <1>2, <1>3, <1>5 DEF c, e

\* The group of the element at a place is the group whose boundaries it is between.
LEMMA GroupOfPlace ==
    ASSUME NEW st, Readable(st), NEW u \in 1 .. Len(items)
    PROVE  LET F == group_start(st)
               g == SlotGroup(st.name, st.order[u])
           IN  g \in 1 .. Len(st.layouts) /\ u \in F[g] + 1 .. F[g + 1]
<1> DEFINE n == Len(items)
           z == st.start
           c == Len(st.layouts)
           k == bucket_total(st)
           off == group_offset(st)
           F == group_start(st)
           x == st.order[u]
           b == st.buckets[x]
           g == SlotGroup(st.name, x)
<1>1. x \in 1 .. n /\ b \in 1 .. k /\ u \in z[b] + 1 .. z[b + 1]
  BY PlaceBucket
<1>2. Collection(items, val) /\ Consistent(st, items, val) /\ LayoutsIn(st)
  BY DEF Readable, Ready
<1>3. st.name \in Name /\ c = GroupCount[st.name] /\ c \in Nat \ {0}
  BY GroupsAre
<1>4. x \in DOMAIN items /\ val[items[x]] \in Value
  BY <1>1, <1>2, ValuesOf
<1>5. DOMAIN st.layouts = 1 .. GroupCount[st.name]
  BY <1>2 DEF Consistent, KeyStateOK
<1>6. b = bucket_for(st, val[items[x]], st.keys[x], val)
  BY <1>2, <1>4 DEF Consistent, BucketsIn
<1>7. g \in 1 .. c /\ b \in off[g] + 1 .. off[g + 1]
  <2> DEFINE v == val[items[x]]
  <2> HIDE DEF v
  <2>1. /\ bucket_for(st, v, st.keys[x], val) \in
              off[group(st.name, v)] + 1 .. off[group(st.name, v) + 1]
        /\ group(st.name, v) \in 1 .. GroupCount[st.name]
    BY <1>2, <1>3, <1>4, <1>5, IdInRange DEF v
  <2> QED
    BY <1>3, <1>6, <2>1 DEF v, SlotGroup
<1>8. Ladder(off, c) /\ off[c + 1] = k
  BY GroupsShare DEF Shared
<1>9. Ladder(z, k) /\ k \in Nat
  BY ReadableArranged DEF Arranged, Typed
<1>10. \A m \in 1 .. c + 1 : F[m] = z[off[m] + 1]
  BY DEF group_start
<1> HIDE DEF x, b, g, off, F, z, k, c, n
<1>11. /\ off[g] \in Nat /\ off[g + 1] \in Nat /\ off[g] <= off[g + 1] /\ off[g + 1] <= k
  BY <1>3, <1>7, <1>8, LadderBounds
<1>12. F[g] = z[off[g] + 1] /\ F[g + 1] = z[off[g + 1] + 1]
  BY <1>3, <1>7, <1>10
<1>13. z[off[g] + 1] <= z[b] /\ z[off[g] + 1] \in Nat /\ z[b] \in Nat
  <2>1. off[g] + 1 \in 1 .. k + 1 /\ b \in off[g] + 1 .. k + 1
    BY <1>1, <1>7, <1>9, <1>11
  <2> DEFINE i == off[g] + 1
  <2> HIDE DEF i
  <2>2. i \in 1 .. k + 1 /\ b \in i .. k + 1
    BY <2>1 DEF i
  <2>3. z[i] <= z[b] /\ z[i] \in Nat /\ z[b] \in Nat
    BY <1>9, <2>2, LadderRises
  <2> QED
    BY <2>3 DEF i
<1>14. z[b + 1] <= z[off[g + 1] + 1] /\ z[b + 1] \in Nat /\ z[off[g + 1] + 1] \in Nat
  <2> DEFINE i == b + 1
             j == off[g + 1] + 1
  <2>1. i \in 1 .. k + 1 /\ j \in i .. k + 1
    BY <1>1, <1>7, <1>9, <1>11
  <2> HIDE DEF i, j
  <2>3. z[i] <= z[j] /\ z[i] \in Nat /\ z[j] \in Nat
    BY <1>9, <2>1, LadderRises
  <2> QED
    BY <2>3 DEF i, j
<1>15. u \in F[g] + 1 .. F[g + 1]
  <2> DEFINE p == F[g]
             q == F[g + 1]
             s == z[b]
             t == z[b + 1]
  <2>1. /\ p \in Nat /\ q \in Nat /\ s \in Nat /\ t \in Nat /\ p <= s /\ t <= q
        /\ u \in s + 1 .. t
    BY <1>1, <1>12, <1>13, <1>14
  <2> HIDE DEF p, q, s, t
  <2>2. u \in p + 1 .. q
    BY <2>1
  <2> QED
    BY <2>2 DEF p, q
<1> QED
  BY <1>7, <1>15 DEF g, c, F, x

\* In descending order with several groups a position and its place are in the
\* same group.
LEMMA PlaceInGroup ==
    ASSUME NEW st, Readable(st), NEW dir, dir # "ascending", Len(st.layouts) # 1,
           NEW p \in 1 .. Len(items), NEW u, u = to_ascending(st, Len(items), dir, p)
    PROVE  LET F == group_start(st)
               g == SlotGroup(st.name, st.order[u])
           IN  /\ g \in 1 .. Len(st.layouts) /\ p \in F[g] + 1 .. F[g + 1]
               /\ u \in F[g] + 1 .. F[g + 1] /\ u = F[g] + F[g + 1] + 1 - p
<1> DEFINE n == Len(items)
           c == Len(st.layouts)
           F == group_start(st)
           g == SlotGroup(st.name, st.order[u])
<1>1. n \in Nat
  BY ReadableArranged DEF Typed
<1>2. c \in Nat \ {0} /\ Ladder(F, c) /\ F[c + 1] = n
  BY GroupsAre, GroupLadder
<1>3. u \in 1 .. n
  BY PositionsTurn
<1>4. g \in 1 .. c /\ u \in F[g] + 1 .. F[g + 1]
  BY <1>3, GroupOfPlace
<1>5. PICK h \in 1 .. c : p \in F[h] + 1 .. F[h + 1]
  <2> HIDE DEF c, F
  <2>1. p \in 1 .. F[c + 1]
    BY <1>2
  <2> QED
    BY <1>2, <2>1, LadderSegment
<1>6. u = F[h] + F[h + 1] + 1 - p
  BY <1>5, PositionInGroup
<1> HIDE DEF n, c, F, g
<1>7. F[h] \in Nat /\ F[h + 1] \in Nat /\ F[h + 1] <= n
  BY <1>2, LadderBounds
<1>8. u \in F[h] + 1 .. F[h + 1]
  <2> DEFINE a == F[h]
             b == F[h + 1]
  <2>1. a \in Nat /\ b \in Nat /\ b <= n /\ p \in a + 1 .. b /\ u = a + b + 1 - p
    BY <1>5, <1>6, <1>7
  <2> HIDE DEF a, b
  <2>2. u \in a + 1 .. b
    BY <1>1, <2>1, TurnedRound
  <2> QED
    BY <2>2 DEF a, b
<1>9. g = h
  BY <1>2, <1>4, <1>8, SegmentUnique
<1> QED
  BY <1>4, <1>5, <1>6, <1>9 DEF g, F, c

\* The places of two positions hold slots the list puts in the order of the positions,
\* when the bucket they share, if they share one, is sorted.
LEMMA TurnedBefore ==
    ASSUME NEW st, Orderly(st), NEW dir, NEW i \in 1 .. Len(items), NEW j \in 1 .. Len(items),
           i < j, NEW a, a = to_ascending(st, Len(items), dir, i),
           NEW b, b = to_ascending(st, Len(items), dir, j),
           bucket_at(st, a) = bucket_at(st, b) => FullySorted(st, bucket_at(st, a))
    PROVE  List!Before(st.name, dir, st.order[a], st.order[b])
<1> DEFINE n == Len(items)
           c == Len(st.layouts)
           F == group_start(st)
           x == st.order[a]
           y == st.order[b]
           g == SlotGroup(st.name, x)
           h == SlotGroup(st.name, y)
<1>1. Readable(st)
  BY DEF Orderly
<1>2. a \in 1 .. n /\ b \in 1 .. n
  BY <1>1, PositionsTurn
<1>3. n \in Nat /\ c \in Nat \ {0}
  BY <1>1, ReadableArranged, GroupsAre DEF Typed
<1>4. a < b => List!AscendingBefore(st.name, x, y)
  BY <1>2, PlacesAscend
<1>5. b < a => List!AscendingBefore(st.name, y, x)
  BY <1>2, PlacesAscend
<1>6. CASE dir = "ascending"
  <2>1. a = i /\ b = j
    BY <1>6 DEF to_ascending
  <2> QED
    BY <1>4, <1>6, <2>1, BeforeIs
<1>7. CASE dir # "ascending" /\ c = 1
  <2>1. a = n + 1 - i /\ b = n + 1 - j
    BY <1>7 DEF to_ascending
  <2>2. b < a
    <3> HIDE DEF n
    <3>1. i \in Int /\ j \in Int
      OBVIOUS
    <3> QED
      BY <1>3, <2>1, <3>1
  <2>3. g \in 1 .. c /\ h \in 1 .. c
    BY <1>1, <1>2, GroupOfPlace
  <2>4. g = h
    <3> HIDE DEF g, h, c
    <3> QED
      BY <1>7, <2>3
  <2> QED
    BY <1>5, <1>7, <2>2, <2>4, BeforeIs
<1>8. CASE dir # "ascending" /\ c # 1
  <2>1. /\ g \in 1 .. c /\ i \in F[g] + 1 .. F[g + 1]
        /\ a \in F[g] + 1 .. F[g + 1] /\ a = F[g] + F[g + 1] + 1 - i
    BY <1>1, <1>8, PlaceInGroup
  <2>2. /\ h \in 1 .. c /\ j \in F[h] + 1 .. F[h + 1]
        /\ b \in F[h] + 1 .. F[h + 1] /\ b = F[h] + F[h + 1] + 1 - j
    BY <1>1, <1>8, PlaceInGroup
  <2>3. Ladder(F, c)
    BY <1>1, GroupLadder
  <2>4. CASE g = h
    <3>1. b < a
      <4> DEFINE u == F[g]
                 v == F[g + 1]
      <4>1. u \in Nat /\ v \in Nat
        <5> HIDE DEF F, g, c
        <5> QED
          BY <1>3, <2>1, <2>3, LadderBounds
      <4>2. a = u + v + 1 - i /\ b = u + v + 1 - j
        BY <2>1, <2>2, <2>4
      <4> HIDE DEF u, v
      <4> QED
        BY <4>1, <4>2
    <3> QED
      BY <1>5, <1>8, <2>4, <3>1, BeforeIs
  <2>5. CASE g # h
    <3>1. g <= h
      <4> HIDE DEF F, g, h, c
      <4>1. i <= j
        OBVIOUS
      <4> QED
        BY <1>3, <2>1, <2>2, <2>3, <4>1, SegmentsRise
    <3>2. ~ (b <= a)
      <4> SUFFICES ASSUME b <= a PROVE FALSE
        OBVIOUS
      <4> HIDE DEF F, g, h, c
      <4>1. h <= g
        BY <1>3, <2>1, <2>2, <2>3, SegmentsRise
      <4> QED
        BY <1>3, <2>1, <2>2, <2>5, <3>1, <4>1
    <3>3. a < b
      <4> HIDE DEF n
      <4> QED
        BY <1>2, <3>2
    <3> QED
      BY <1>4, <2>5, <3>3, BeforeIs
  <2> QED
    BY <2>4, <2>5
<1> QED
  BY <1>6, <1>7, <1>8

\* The slot at the place of a position is the list's, when its bucket is sorted.
LEMMA ShownExactly ==
    ASSUME NEW st, Orderly(st), st.name = ActiveKey, NEW p \in 1 .. Len(items),
           NEW u, u = to_ascending(st, Len(items), direction, p),
           FullySorted(st, bucket_at(st, u))
    PROVE  /\ List!PositionOf(st.order[u]) = p /\ List!SlotAt(p) = st.order[u]
           /\ st.order[u] \in 1 .. Len(items)
<1> DEFINE n == Len(items)
           q == [i \in 1 .. n |-> st.order[to_ascending(st, n, direction, i)]]
           less == ListOrder(ActiveKey, direction)
<1>1. Readable(st) /\ ActiveKey \in Ordering
  BY DEF Orderly
<1>2. Lists(q, 1 .. n)
  BY <1>1, ShownLists
<1>3. n \in Nat
  BY <1>1, ReadableArranged DEF Typed
<1>4. Len(q) = n /\ q[p] = st.order[u] /\ \A i \in 1 .. n : q[i] \in 1 .. n
  <2>1. Len(q) = n /\ \A i \in 1 .. n : q[i] \in 1 .. n
    <3> HIDE DEF q, n
    <3> QED
      BY <1>2, <1>3, ListsWhole
  <2> QED
    BY <2>1
<1>5. ASSUME NEW i \in 1 .. n
      PROVE  /\ i < p => <<q[i], q[p]>> \in less
             /\ p < i => <<q[p], q[i]>> \in less
  <2> DEFINE a == to_ascending(st, n, direction, i)
  <2>1. q[i] = st.order[a] /\ q[p] = st.order[u] /\ q[i] \in 1 .. n /\ q[p] \in 1 .. n
    BY <1>4
  <2>2. i < p => List!Before(ActiveKey, direction, st.order[a], st.order[u])
    BY TurnedBefore
  <2>3. p < i => List!Before(ActiveKey, direction, st.order[u], st.order[a])
    BY TurnedBefore
  <2> HIDE DEF q
  <2> QED
    BY <2>1, <2>2, <2>3, ListOrderIs
<1>6. Around(q, p, less)
  BY <1>4, <1>5 DEF Around
<1>7. Collection(items, val)
  BY <1>1 DEF Readable, Ready
<1>8. List!PositionOf(q[p]) = p /\ List!SlotAt(p) = q[p] /\ q[p] \in 1 .. Len(items)
  <2> HIDE DEF q, less
  <2> QED
    BY <1>1, <1>2, <1>6, <1>7, PlaceIsPosition DEF less
<1> QED
  BY <1>4, <1>8

-----------------------------------------------------------------------------
(* What a read starts from                                                 *)

\* What is known in every reachable state.
Known == IInv /\ Books /\ Groupings /\ Orders /\ Ladders

\* The functions of the active sort key, if one is active, order the values.
Sortable == ActiveKey \in Ordering \cup {""}

\* What a read makes of the prepared state st when it sorts the buckets bs.
ReadSorted(t, st, bs) ==
    /\ Orderly(t) /\ t.name = ActiveKey
    /\ t.layouts = st.layouts /\ t.start = st.start /\ t.buckets = st.buckets
    /\ \A b \in bs \cap 1 .. bucket_total(st) : FullySorted(t, b)

\* Sorting buckets moves no bucket and no position.
LEMMA SamePlaces ==
    ASSUME NEW st, NEW t, t.layouts = st.layouts, t.start = st.start
    PROVE  /\ \A n, dir, p : to_ascending(t, n, dir, p) = to_ascending(st, n, dir, p)
           /\ \A p : bucket_at(t, p) = bucket_at(st, p)
           /\ bucket_total(t) = bucket_total(st)
<1>1. group_offset(t) = group_offset(st)
  BY DEF group_offset
<1>2. bucket_total(t) = bucket_total(st)
  BY <1>1 DEF bucket_total
<1>3. \A p : bucket_at(t, p) = bucket_at(st, p)
  BY DEF bucket_at
<1>4. \A n, dir, p : to_ascending(t, n, dir, p) = to_ascending(st, n, dir, p)
  BY <1>1 DEF to_ascending
<1> QED
  BY <1>2, <1>3, <1>4

\* Every read prepares the active KeyState and then sorts the buckets it shows: what it
\* has then is orderly, whether the rebalance, the grouping and the re-placing of waiting
\* slots that prepare does were due or not.
LEMMA ReadStart ==
    ASSUME Known, active # npos, Sortable,
           NEW st, st = prepare(states[active], items, val, plan)
    PROVE  /\ Readable(st) /\ ActiveKey \in Ordering
           /\ \A bs : ReadSorted(sort_buckets(st, bs, items, val), st, bs)
<1> DEFINE s == states[active]
           s1 == maybe_auto_rebalance(s, items, val, plan)
<1>0. IInv /\ Books /\ Groupings /\ Orders /\ Ladders
  BY DEF Known
<1>1. /\ active \in DOMAIN states /\ items \in Seq(Handle) /\ plan \in Plan
      /\ Collection(items, val) /\ Len(items) <= MaxItems
  BY <1>0 DEF IInv, Collection
<1>2. Ready(states[active], items, val) /\ GroupedIn(states[active])
  BY <1>0, <1>1 DEF IInv, Books, BooksIn, Groupings, Ready
<1>3. OrderedIn(states[active], items, val) /\ LaddersIn(states[active], val)
  BY <1>0, <1>1 DEF Orders, Ladders
<1>4. IsPlan(plan)
  BY <1>1, BucketIndexAssumption
<1>5. Consistent(s, items, val) /\ s.name = ActiveKey
  BY <1>2 DEF Ready, ActiveKey
<1>6. /\ Readable(st)
      /\ \A bs : /\ Readable(sort_buckets(st, bs, items, val))
                 /\ SortResult(sort_buckets(st, bs, items, val), st, bs, items, val)
  BY <1>0, PreparedReadable
<1>7. st.name = ActiveKey
  BY <1>1, <1>5, PrepareConsistent
<1> HIDE DEF s
<1>8. /\ Touched(s, s1, items, val, plan)
      /\ Touched(s1, st, items, val, plan)
      /\ \A bs : Touched(st, sort_buckets(st, bs, items, val), items, val, plan)
  BY <1>1, <1>5, ReadStages DEF s
<1> HIDE DEF s1
<1>9. Ready(s1, items, val) /\ GroupedIn(s1)
  BY <1>2, <1>4, <1>8, TouchedKeepsGrouping DEF s
<1>10. Ready(st, items, val) /\ GroupedIn(st)
  BY <1>4, <1>8, <1>9, TouchedKeepsGrouping
<1>11. OrderedIn(s1, items, val)
  BY <1>2, <1>3, <1>4, <1>8, TouchedKeepsOrder DEF s
<1>12. OrderedIn(st, items, val)
  BY <1>4, <1>8, <1>9, <1>11, TouchedKeepsOrder
<1>13. Consistent(s1, items, val) /\ LaddersIn(s1, val)
  BY <1>1, <1>3, <1>5, <1>8, TouchedKeepsLadders DEF s
<1>14. Consistent(st, items, val) /\ LaddersIn(st, val)
  BY <1>1, <1>8, <1>13, TouchedKeepsLadders
<1>15. ActiveKey \in Ordering
  <2>1. ActiveKey \in Name
    BY <1>7, <1>14 DEF Consistent, KeyStateOK
  <2> QED
    BY <2>1, SortKeyAssumption DEF Sortable
<1>16. ASSUME NEW bs
       PROVE  ReadSorted(sort_buckets(st, bs, items, val), st, bs)
  <2> DEFINE t == sort_buckets(st, bs, items, val)
  <2>1. Readable(t) /\ SortResult(t, st, bs, items, val) /\ Touched(st, t, items, val, plan)
    BY <1>6, <1>8
  <2>2. t.name = ActiveKey
    BY <1>1, <1>7, <1>14, SortBucketsConsistent
  <2> HIDE DEF t
  <2>3. OrderedIn(t, items, val)
    BY <1>4, <1>10, <1>12, <2>1, TouchedKeepsOrder
  <2>4. LaddersIn(t, val)
    BY <1>1, <1>14, <2>1, TouchedKeepsLadders
  <2>5. Orderly(t)
    BY <1>15, <2>1, <2>2, <2>3, <2>4 DEF Orderly
  <2>6. t.layouts = st.layouts /\ t.start = st.start /\ t.buckets = st.buckets
    BY <2>1 DEF SortResult
  <2>7. DOMAIN st.sorted_len = 1 .. bucket_total(st)
    BY <1>6, CurrentGrouping DEF Readable, PrefixesIn
  <2>8. t.sorted_len = [b \in DOMAIN st.sorted_len |->
                           IF b \in bs THEN st.start[b + 1] - st.start[b] ELSE st.sorted_len[b]]
    BY <2>1 DEF SortResult
  <2>9. \A b \in bs \cap 1 .. bucket_total(st) : FullySorted(t, b)
    BY <2>6, <2>7, <2>8 DEF FullySorted
  <2> QED
    BY <2>2, <2>5, <2>6, <2>9 DEF ReadSorted, t
<1> QED
  BY <1>6, <1>15, <1>16

\* A position whose bucket a read has sorted shows the list's slot.
LEMMA ReadShows ==
    ASSUME NEW st, NEW bs, NEW t, ReadSorted(t, st, bs), NEW p \in 1 .. Len(items),
           NEW u, u = to_ascending(st, Len(items), direction, p), bucket_at(st, u) \in bs
    PROVE  /\ List!PositionOf(t.order[u]) = p /\ List!SlotAt(p) = t.order[u]
           /\ t.order[u] \in 1 .. Len(items)
<1>1. Orderly(t) /\ t.name = ActiveKey /\ t.layouts = st.layouts /\ t.start = st.start
  BY DEF ReadSorted
<1>2. u = to_ascending(t, Len(items), direction, p) /\ bucket_at(t, u) = bucket_at(st, u)
      /\ bucket_total(t) = bucket_total(st)
  BY <1>1, SamePlaces
<1>3. Readable(t)
  BY <1>1 DEF Orderly
<1>4. u \in 1 .. Len(items)
  BY <1>2, <1>3, PositionsTurn
<1>5. bucket_at(t, u) \in 1 .. bucket_total(t)
  BY <1>3, <1>4, BucketsRise
<1>6. FullySorted(t, bucket_at(t, u))
  BY <1>2, <1>5 DEF ReadSorted
<1> QED
  BY <1>1, <1>2, <1>6, ShownExactly

\* A read that answers what it should is an observation of the list.
LEMMA ReadObserved ==
    ASSUME IInv, Read, NEW op, NEW arg, NEW out, NEW num, result' = Call(op, arg, out, num)
    PROVE  List!Observes(op, arg, out, num)
<1>1. Updated /\ UNCHANGED <<items, val, active, direction, plan>>
  BY ReadStep DEF Read, at, range, first_page, position_if, for_each, sort_all
<1>2. Names' = Names /\ ActiveKey' = ActiveKey
  BY <1>1, NamesStay, ActiveKeyStaysSo
<1> QED
  BY <1>1, <1>2, Observed

\* at(p) sorts one bucket and answers with the element the list has at p, or with an
\* error behind the end.
LEMMA AtAnswered ==
    ASSUME Known, Sortable, NEW p \in 1 .. Len(items) + 1, at(p)
    PROVE  List!at(p)
<1> DEFINE n == Len(items)
<1>1. Read /\ IInv /\ Collection(items, val)
  BY DEF Read, Known, IInv
<1>2. n \in Nat
  BY <1>1, ValuesOf
<1>3. CASE p > n
  <2>1. result' = Call("at", << >>, << >>, -1)
    BY <1>3 DEF at, Thrown, npos
  <2>2. List!Observes("at", << >>, << >>, -1)
    BY <1>1, <2>1, ReadObserved
  <2> QED
    BY <1>3, <2>2 DEF List!at, List!Throws
<1>4. CASE ~ (p > n)
  <2>1. p \in 1 .. n /\ p - (p - 1) = 1 /\ p - 1 + 1 = p
    BY <1>2, <1>4
  <2>2. ASSUME result' = Call("at", <<p>>, <<items[List!SlotAt(p)]>>, 0)
        PROVE  List!at(p)
    <3> DEFINE out == <<items[List!SlotAt(p)]>>
    <3>1. out = [i \in 1 .. 1 |-> out[i]] /\ out[1] = items[List!SlotAt(p)]
      OBVIOUS
    <3> HIDE DEF out
    <3>2. \A i \in 1 .. 1 : out[i] = items[List!SlotAt(p - 1 + i)]
      <4>1. \A i \in 1 .. 1 : i = 1
        OBVIOUS
      <4> QED
        BY <2>1, <3>1, <4>1
    <3>3. List!Elements(p - 1, p) = out
      <4> DEFINE l == p - 1
      <4>1. 1 .. p - l = 1 .. 1
        BY <2>1
      <4>2. \A i \in 1 .. 1 : out[i] = items[List!SlotAt(l + i)]
        BY <3>2
      <4> HIDE DEF l
      <4>3. out = [i \in 1 .. p - l |-> out[i]]
        BY <3>1, <4>1
      <4>4. \A i \in 1 .. p - l : out[i] = items[List!SlotAt(l + i)]
        BY <4>1, <4>2
      <4>5. List!Elements(l, p) = out
        <5>1. List!Elements(l, p) = [i \in 1 .. p - l |-> items[List!SlotAt(l + i)]]
          BY DEF List!Elements
        <5> QED
          BY <4>3, <4>4, <5>1
      <4> QED
        BY <4>5 DEF l
    <3>4. List!Observes("at", <<p>>, out, 0)
      BY <1>1, <2>2, ReadObserved DEF out
    <3> QED
      BY <1>4, <3>3, <3>4 DEF List!at
  <2>3. CASE active = npos
    <3>1. List!SlotAt(p) = p
      BY <1>1, <2>1, <2>3, UnsortedPositions
    <3>2. result' = Call("at", <<p>>, <<items[p]>>, 0)
      BY <1>4, <2>3 DEF at
    <3> QED
      BY <2>2, <3>1, <3>2
  <2>4. CASE active # npos
    <3> DEFINE st == prepare(states[active], items, val, plan)
               u == to_ascending(st, n, direction, p)
               bs == {bucket_at(st, u)}
               t == sort_buckets(st, bs, items, val)
    <3>1. result' = Call("at", <<p>>, <<items[t.order[u]]>>, 0)
      BY <1>4, <2>4 DEF at
    <3>2. ReadSorted(t, st, bs)
      BY <2>4, ReadStart
    <3> HIDE DEF t, st
    <3>3. List!SlotAt(p) = t.order[u]
      BY <2>1, <3>2, ReadShows
    <3> QED
      BY <2>2, <3>1, <3>3
  <2> QED
    BY <2>3, <2>4
<1> QED
  BY <1>3, <1>4

LEMMA AtPromised ==
    ASSUME Known, Sortable, NEW p \in 1 .. Len(items) + 1, at(p)
    PROVE  List!Next
<1>1. List!at(p)
  BY AtAnswered
<1>2. result'.op = "at"
  BY <1>1 DEF List!at, List!Throws, List!Observes, List!Answers
<1> QED
  BY <1>1, <1>2 DEF List!Next, List!Is

\* position_if sorts the buckets of the elements that match and answers with the least of
\* their positions.
LEMMA PositionIfPromised ==
    ASSUME Known, Sortable, Read,
           NEW matching \in SUBSET (1 .. Len(items)), position_if(matching)
    PROVE  List!Next
<1> DEFINE n == Len(items)
           slot == Min(matching)
<1>1. IInv /\ Collection(items, val)
  BY DEF Known, IInv
<1>2. n \in Nat /\ DOMAIN items = 1 .. n
  BY <1>1, ValuesOf
<1>3. List!position_if(matching) => List!Next
  <2> SUFFICES ASSUME List!position_if(matching) PROVE List!Next
    OBVIOUS
  <2>1. result'.op = "position_if"
    BY DEF List!position_if, List!Observes, List!Answers
  <2> QED
    BY <1>2, <2>1 DEF List!Next, List!Is
<1>4. CASE matching = {}
  <2>1. result' = Call("position_if", << >>, << >>, 0)
    BY <1>4 DEF position_if, Void
  <2>2. List!Observes("position_if", << >>, << >>, 0)
    BY <1>1, <2>1, ReadObserved
  <2> QED
    BY <1>3, <1>4, <2>2 DEF List!position_if
<1>5. CASE matching # {}
  <2>1. slot = CHOOSE x \in matching : \A y \in matching : x <= y
    BY DEF Min
  <2>2. slot \in 1 .. n
    <3>1. \E x \in matching : \A y \in matching : x <= y
      BY <1>5, Least
    <3> QED
      BY <2>1, <3>1
  <2>3. ASSUME result' = Call("position_if", <<slot>>, << >>, List!PositionOf(slot))
        PROVE  List!Next
    <3>1. List!Observes("position_if", <<slot>>, << >>, List!PositionOf(slot))
      BY <1>1, <2>3, ReadObserved
    <3>2. List!position_if(matching)
      BY <1>5, <2>1, <3>1 DEF List!position_if
    <3> QED
      BY <1>3, <3>2
  <2>4. CASE active = npos
    <3>1. List!PositionOf(slot) = slot
      BY <1>1, <2>2, <2>4, UnsortedPositions
    <3>2. result' = Call("position_if", <<slot>>, << >>, slot)
      BY <1>5, <2>4 DEF position_if
    <3> QED
      BY <2>3, <3>1, <3>2
  <2>5. CASE active # npos
    <3> DEFINE st == prepare(states[active], items, val, plan)
               bs == {st.buckets[slot]}
               t == sort_buckets(st, bs, items, val)
               u == CHOOSE i \in DOMAIN t.order : t.order[i] = slot
               p == to_ascending(st, n, direction, u)
    <3>1. result' = Call("position_if", <<slot>>, << >>, p)
      BY <1>5, <2>5 DEF position_if
    <3>2. ReadSorted(t, st, bs) /\ Readable(st)
      BY <2>5, ReadStart
    <3> HIDE DEF t, st, slot
    <3>3. Readable(t) /\ t.layouts = st.layouts /\ t.start = st.start /\ t.buckets = st.buckets
      BY <3>2 DEF ReadSorted, Orderly
    <3>4. Lists(t.order, 1 .. n)
      BY <3>3, ReadableArranged DEF Arranged
    <3>5. u \in 1 .. n /\ t.order[u] = slot
      <4> DEFINE q == t.order
      <4> HIDE DEF q, n
      <4>1. DOMAIN q = 1 .. n /\ \A x \in 1 .. n : \E i \in 1 .. n : q[i] = x
        BY <1>2, <3>4, ListsWhole DEF q
      <4>2. \E i \in DOMAIN q : q[i] = slot
        BY <2>2, <4>1
      <4> QED
        BY <4>1, <4>2 DEF q
    <3> HIDE DEF u
    <3>6. p \in 1 .. n /\ u = to_ascending(st, n, direction, p)
      BY <3>2, <3>5, PositionsTurn
    <3>7. bucket_at(st, u) \in bs
      <4>1. bucket_at(t, u) = t.buckets[t.order[u]]
        BY <3>3, <3>5, PlaceBucket
      <4> QED
        BY <3>3, <3>5, <4>1, SamePlaces
    <3>8. List!PositionOf(t.order[u]) = p
      <4> HIDE DEF p, bs
      <4> QED
        BY <3>2, <3>6, <3>7, ReadShows
    <3> QED
      BY <2>3, <3>1, <3>5, <3>8
  <2> QED
    BY <2>4, <2>5
<1> QED
  BY <1>4, <1>5

-----------------------------------------------------------------------------
(* Ranges                                                                  *)

\* range sorts the bucket of every position it shows.
LEMMA ShownBuckets ==
    ASSUME NEW st, Readable(st), NEW dir \in Direction, NEW from \in Nat, NEW to \in 1 .. Len(items),
           from < to, NEW p \in from + 1 .. to, NEW u, u = to_ascending(st, Len(items), dir, p)
    PROVE  bucket_at(st, u) \in buckets_shown(st, Len(items), dir, from, to)
<1> DEFINE n == Len(items)
           c == Len(st.layouts)
           lo == IF dir = "ascending" THEN from ELSE n - to
           hi == IF dir = "ascending" THEN to ELSE n - from
<1>1. n \in Nat /\ c \in Nat \ {0}
  BY ReadableArranged, GroupsAre DEF Typed
<1>2. dir \in {"ascending", "descending"}
  BY DEF Direction
<1>3. p \in 1 .. n
  <2> HIDE DEF n
  <2> QED
    BY <1>1 DEF n
<1>4. u \in 1 .. n
  BY <1>3, PositionsTurn
<1>5. CASE dir = "descending" /\ c > 1
  BY <1>5 DEF buckets_shown
<1>6. CASE ~ (dir = "descending" /\ c > 1)
  <2>1. buckets_shown(st, n, dir, from, to) = bucket_at(st, lo + 1) .. bucket_at(st, hi)
    BY <1>6 DEF buckets_shown
  <2>2. lo + 1 \in 1 .. n /\ hi \in 1 .. n /\ lo + 1 <= u /\ u <= hi
    <3>1. CASE dir = "ascending"
      <4>1. u = p
        BY <3>1 DEF to_ascending
      <4>2. lo = from /\ hi = to
        BY <3>1
      <4> HIDE DEF lo, hi, n
      <4> QED
        BY <1>1, <4>1, <4>2 DEF n
    <3>2. CASE dir # "ascending"
      <4>1. c = 1
        <5> HIDE DEF c
        <5> QED
          BY <1>1, <1>2, <1>6, <3>2
      <4>2. u = n + 1 - p
        BY <3>2, <4>1 DEF to_ascending
      <4>3. lo = n - to /\ hi = n - from
        BY <3>2
      <4>4. to \in 1 .. n
        OBVIOUS
      <4> HIDE DEF lo, hi, n
      <4> QED
        BY <1>1, <4>2, <4>3, <4>4
    <3> QED
      BY <3>1, <3>2
  <2> DEFINE l == lo + 1
  <2>3. l \in 1 .. n /\ hi \in 1 .. n /\ l <= u /\ u <= hi
    BY <2>2
  <2> HIDE DEF lo, hi, l
  <2>4. /\ bucket_at(st, l) \in 1 .. bucket_total(st) /\ bucket_at(st, u) \in 1 .. bucket_total(st)
        /\ bucket_at(st, l) <= bucket_at(st, u)
    BY <1>4, <2>3, BucketsRise
  <2>5. /\ bucket_at(st, hi) \in 1 .. bucket_total(st)
        /\ bucket_at(st, u) <= bucket_at(st, hi)
    BY <1>4, <2>3, BucketsRise
  <2> DEFINE a == bucket_at(st, l)
             b == bucket_at(st, u)
             d == bucket_at(st, hi)
  <2>6. a \in Int /\ b \in Int /\ d \in Int /\ a <= b /\ b <= d
    BY <2>4, <2>5
  <2> HIDE DEF a, b, d
  <2>7. b \in a .. d
    BY <2>6
  <2> QED
    BY <2>1, <2>7 DEF a, b, d, l
<1> QED
  BY <1>5, <1>6

\* range sorts the buckets its positions are in, cuts its end to the number of elements,
\* and answers with the list's elements there.
LEMMA RangeObserved ==
    ASSUME Known, Sortable, Read, NEW from \in Nat, NEW until \in Nat, range(from, until)
    PROVE  List!range(from, until)
<1> DEFINE n == Len(items)
           to == min(until, n)
           shown == IF until <= n THEN until ELSE n
<1>1. IInv /\ Collection(items, val) /\ direction \in Direction
  BY DEF Known, IInv
<1>2. n \in Nat /\ DOMAIN items = 1 .. n
  BY <1>1, ValuesOf
<1>3. to \in 0 .. n /\ shown = to
  <2> HIDE DEF n
  <2> QED
    BY <1>2 DEF min
<1>4. ASSUME NEW out, result' = Call("range", <<from, until>>, out, 0),
             out = [i \in 1 .. to - from |-> out[i]],
             \A i \in 1 .. to - from : out[i] = items[List!SlotAt(from + i)]
      PROVE  List!range(from, until)
  <2>1. List!Observes("range", <<from, until>>, out, 0)
    BY <1>1, <1>4, ReadObserved
  <2>2. List!Elements(from, shown) = [i \in 1 .. shown - from |-> items[List!SlotAt(from + i)]]
    BY DEF List!Elements
  <2>3. List!Elements(from, shown) = out
    <3> HIDE DEF to, shown
    <3> QED
      BY <1>3, <1>4, <2>2
  <2>4. List!range(from, until) = List!Observes("range", <<from, until>>, List!Elements(from, shown), 0)
    BY DEF List!range
  <2> QED
    BY <2>1, <2>3, <2>4
<1>5. CASE from >= to
  <2>1. result' = Call("range", <<from, until>>, << >>, 0)
    BY <1>5 DEF range
  <2>2. 1 .. to - from = {}
    <3> HIDE DEF to, n
    <3> QED
      BY <1>2, <1>3, <1>5
  <2> DEFINE D == 1 .. to - from
             out == << >>
  <2>3. << >> = [i \in D |-> out[i]]
    <3>1. D = {}
      BY <2>2
    <3> HIDE DEF D
    <3> QED
      BY <3>1
  <2> HIDE DEF to
  <2>4. out = [i \in 1 .. to - from |-> out[i]]
    BY <2>3 DEF to
  <2>5. \A i \in 1 .. to - from : out[i] = items[List!SlotAt(from + i)]
    BY <2>2 DEF to
  <2>6. result' = Call("range", <<from, until>>, out, 0)
    BY <2>1
  <2> HIDE DEF out
  <2> QED
    BY <1>4, <2>4, <2>5, <2>6 DEF to
<1>6. CASE ~ (from >= to)
  <2>1. from < to /\ to \in 1 .. n
    <3> HIDE DEF to, n
    <3> QED
      BY <1>2, <1>3, <1>6
  <2>2. \A i \in 1 .. to - from : from + i \in from + 1 .. to /\ from + i \in 1 .. n
    <3> HIDE DEF to, n
    <3> QED
      BY <1>2, <2>1
  <2>3. CASE active = npos
    <3> DEFINE out == SubSeq(items, from + 1, to)
    <3>1. result' = Call("range", <<from, until>>, out, 0)
      BY <1>6, <2>3 DEF range
    <3>2. \A i \in 1 .. to - from : List!SlotAt(from + i) = from + i
      BY <1>1, <2>2, <2>3, UnsortedPositions
    <3>3. /\ out \in Seq(Handle) /\ Len(out) = to - from
          /\ \A i \in 1 .. to - from : out[i] = items[from + i]
      <4>1. items \in Seq(Handle)
        BY <1>1 DEF Collection
      <4>2. from \in 0 .. Len(items) /\ to \in from .. Len(items)
        <5> HIDE DEF to
        <5> QED
          BY <1>2, <2>1
      <4> HIDE DEF to
      <4> QED
        BY <4>1, <4>2, Slice
    <3>4. \A i \in 1 .. to - from : out[i] = items[List!SlotAt(from + i)]
      <4> HIDE DEF out, to
      <4> QED
        BY <3>2, <3>3
    <3>5. out = [i \in 1 .. to - from |-> out[i]]
      <4> HIDE DEF out, to
      <4>1. out = [i \in 1 .. Len(out) |-> out[i]]
        BY <3>3
      <4> QED
        BY <3>3, <4>1
    <3> HIDE DEF out
    <3> QED
      BY <1>4, <3>1, <3>4, <3>5
  <2>4. CASE active # npos
    <3> DEFINE st == prepare(states[active], items, val, plan)
               bs == buckets_shown(st, n, direction, from, to)
               t == sort_buckets(st, bs, items, val)
               up(i) == to_ascending(st, n, direction, from + i)
               out == [i \in 1 .. to - from |-> items[t.order[up(i)]]]
    <3>1. result' = Call("range", <<from, until>>, out, 0)
      BY <1>6, <2>4 DEF range
    <3>2. ReadSorted(t, st, bs) /\ Readable(st)
      BY <2>4, ReadStart
    <3> HIDE DEF t, st
    <3>3. ASSUME NEW i \in 1 .. to - from
          PROVE  List!SlotAt(from + i) = t.order[up(i)]
      <4> DEFINE p == from + i
                 u == up(i)
      <4>1. p \in 1 .. n /\ p \in from + 1 .. to
        BY <2>2
      <4>2. u = to_ascending(st, n, direction, p)
        OBVIOUS
      <4> HIDE DEF p, u, to
      <4>3. bucket_at(st, u) \in buckets_shown(st, n, direction, from, to)
        BY <1>1, <2>1, <3>2, <4>1, <4>2, ShownBuckets
      <4>4. List!SlotAt(p) = t.order[u]
        BY <3>2, <4>1, <4>2, <4>3, ReadShows
      <4> QED
        BY <4>4 DEF p, u
    <3>4. \A i \in 1 .. to - from : out[i] = items[List!SlotAt(from + i)]
      BY <3>3
    <3>5. out = [i \in 1 .. to - from |-> out[i]]
      OBVIOUS
    <3> HIDE DEF out
    <3> QED
      BY <1>4, <3>1, <3>4, <3>5
  <2> QED
    BY <2>3, <2>4
<1> QED
  BY <1>5, <1>6

\* That is a step of the list,
LEMMA RangePromised ==
    ASSUME Known, Sortable, NEW from \in 0 .. Len(items),
           NEW until \in from .. Len(items) + 1, range(from, until)
    PROVE  List!Next
<1>1. Read
  BY DEF Read
<1>2. Collection(items, val)
  BY DEF Known, IInv
<1>3. Len(items) \in Nat
  BY <1>2, ValuesOf
<1>4. from \in Nat /\ until \in Nat /\ from \in 0 .. Len(items) + 1 /\ until \in 0 .. Len(items) + 1
  BY <1>3
<1>5. List!range(from, until)
  BY <1>1, <1>4, RangeObserved
<1>6. result'.op = "range"
  BY <1>5 DEF List!range, List!Observes, List!Answers
<1> QED
  BY <1>4, <1>5, <1>6 DEF List!Next, List!Is

\* and so is first_page, which is range with the page size of the plan.
LEMMA FirstPagePromised ==
    ASSUME Known, Sortable, first_page
    PROVE  List!Next
<1>1. Read
  BY DEF Read
<1>2. plan \in Plan
  BY DEF Known, IInv
<1>3. IsPlan(plan)
  BY <1>2, BucketIndexAssumption
<1>4. plan.page_size \in Nat
  BY <1>3 DEF IsPlan
<1>5. List!range(0, plan.page_size)
  BY <1>1, <1>4, RangeObserved DEF first_page
<1> QED
  BY <1>5 DEF List!Next

-----------------------------------------------------------------------------
(* Visits, part by part                                                    *)

\* Everything in s is before everything in t.
Precedes(s, t, less) ==
    \A i \in 1 .. Len(s), j \in 1 .. Len(t) : <<s[i], t[j]>> \in less

\* Parts in order, each before the next ones, are in order when they are joined.
LEMMA JoinedInOrder ==
    ASSUME NEW X, NEW k \in Nat, NEW parts, Len(parts) = k, \A b \in 1 .. k : parts[b] \in Seq(X),
           NEW less, \A b \in 1 .. k : InOrder(parts[b], less),
           \A a, b \in 1 .. k : a < b => Precedes(parts[a], parts[b], less)
    PROVE  InOrder(joined(parts), less)
<1> DEFINE r == joined(parts)
           s == lengths(parts, k)
           off == prefix_sums(s)
<1>1. JoinedAt(r, off, parts, k, X)
  BY JoinedPlaces
<1>2. \A b \in 1 .. k : s[b] = Len(parts[b]) /\ s[b] \in Nat
  BY DEF lengths
<1> HIDE DEF r, off, s
<1>3. /\ Len(r) = off[k + 1] /\ Offsets(off, k, s)
      /\ \A b \in 1 .. k : \A j \in 1 .. Len(parts[b]) : r[off[b] + j] = parts[b][j]
  BY <1>1 DEF JoinedAt, s
<1>4. Ladder(off, k)
  <2>1. \A b \in 1 .. k : s[b] \in Nat
    BY <1>2
  <2>2. Offsets(off, k, s)
    BY <1>3
  <2> QED
    BY <2>1, <2>2, OffsetsLadder
<1>5. ASSUME NEW p \in 1 .. Len(r)
      PROVE  \E b \in 1 .. k : \E j \in 1 .. Len(parts[b]) :
                 p \in off[b] + 1 .. off[b + 1] /\ p = off[b] + j /\ r[p] = parts[b][j]
  <2>1. p \in 1 .. off[k + 1]
    BY <1>3
  <2>2. PICK b \in 1 .. k : p \in off[b] + 1 .. off[b + 1]
    BY <1>4, <2>1, LadderSegment
  <2>3. off[b] \in Nat /\ off[b + 1] \in Nat /\ off[b + 1] = off[b] + Len(parts[b])
    <3>1. off[b] \in Nat /\ off[b + 1] \in Nat
      BY <1>4, LadderBounds
    <3>2. off[b + 1] = off[b] + s[b]
      BY <1>3 DEF Offsets
    <3> QED
      BY <1>2, <3>1, <3>2
  <2> DEFINE j == p - off[b]
             l == Len(parts[b])
             x == off[b]
             y == off[b + 1]
  <2>4. l \in Nat
    BY <1>2
  <2>5. j \in 1 .. l /\ x + j = p
    <3>1. p \in x + 1 .. y /\ x \in Nat /\ y = x + l /\ j = p - x
      BY <2>2, <2>3
    <3> HIDE DEF x, y, l, j
    <3> QED
      BY <2>4, <3>1
  <2>6. r[p] = parts[b][j]
    BY <1>3, <2>5
  <2> QED
    BY <2>2, <2>5, <2>6
<1> SUFFICES ASSUME NEW p \in 1 .. Len(r), NEW q \in 1 .. Len(r), p < q
             PROVE  <<r[p], r[q]>> \in less
  BY DEF InOrder, r
<1>6. PICK a \in 1 .. k : \E i \in 1 .. Len(parts[a]) :
          p \in off[a] + 1 .. off[a + 1] /\ p = off[a] + i /\ r[p] = parts[a][i]
  BY <1>5
<1>7. PICK i \in 1 .. Len(parts[a]) :
          p \in off[a] + 1 .. off[a + 1] /\ p = off[a] + i /\ r[p] = parts[a][i]
  BY <1>6
<1>8. PICK b \in 1 .. k : \E j \in 1 .. Len(parts[b]) :
          q \in off[b] + 1 .. off[b + 1] /\ q = off[b] + j /\ r[q] = parts[b][j]
  BY <1>5
<1>9. PICK j \in 1 .. Len(parts[b]) :
          q \in off[b] + 1 .. off[b + 1] /\ q = off[b] + j /\ r[q] = parts[b][j]
  BY <1>8
<1>10. a <= b
  <2>1. p <= q
    OBVIOUS
  <2> QED
    BY <1>4, <1>7, <1>9, <2>1, SegmentsRise
<1>11. CASE a = b
  <2>1. i < j
    <3> DEFINE x == off[a]
    <3>1. x \in Nat /\ p = x + i /\ q = x + j
      BY <1>4, <1>7, <1>9, <1>11, LadderBounds
    <3>2. i \in Int /\ j \in Int
      BY <1>2
    <3> HIDE DEF x
    <3> QED
      BY <3>1, <3>2
  <2> QED
    BY <1>7, <1>9, <1>11, <2>1 DEF InOrder
<1>12. CASE a # b
  <2>1. a < b
    BY <1>10, <1>12
  <2> QED
    BY <1>7, <1>9, <2>1 DEF Precedes
<1> QED
  BY <1>11, <1>12

\* What a bucket of the grouping holds, and where.
LEMMA GroupedElements ==
    ASSUME NEW st, Readable(st), NEW b \in 1 .. bucket_total(st)
    PROVE  /\ grouped(st, b) \in Seq(1 .. Len(items))
           /\ \A i \in 1 .. Len(grouped(st, b)) :
                 /\ grouped(st, b)[i] = st.order[st.start[b] + i]
                 /\ st.start[b] + i \in st.start[b] + 1 .. st.start[b + 1]
                 /\ grouped(st, b)[i] \in 1 .. Len(items)
                 /\ st.buckets[grouped(st, b)[i]] = b
<1> DEFINE n == Len(items)
           k == bucket_total(st)
           r == st.order
           off == st.start
           lo == off[b]
           hi == off[b + 1]
           q == grouped(st, b)
<1>1. Arranged(r, off, k, 1 .. n, st.buckets) /\ k \in Nat /\ n \in Nat
  BY ReadableArranged DEF Typed
<1>2. Lists(r, 1 .. n) /\ Ladder(off, k) /\ off[k + 1] = Len(r)
  BY <1>1 DEF Arranged
<1>3. lo \in Nat /\ hi \in Nat /\ lo <= hi /\ hi <= Len(r) /\ Len(r) \in Nat
  <2>1. /\ off[b] \in Nat /\ off[b + 1] \in Nat /\ off[k + 1] \in Nat
        /\ off[b] <= off[b + 1] /\ off[b + 1] <= off[k + 1]
    <3> HIDE DEF k, off, r
    <3>1. b \in 1 .. k
      BY DEF k
    <3> QED
      BY <1>1, <1>2, <3>1, LadderBounds
  <2> QED
    BY <1>2, <2>1
<1>4. q = SubSeq(r, lo + 1, hi) /\ r \in Seq(1 .. n)
  BY <1>2 DEF grouped, Lists
<1>5. \A p \in lo + 1 .. hi : st.buckets[r[p]] = b
  BY <1>1 DEF Arranged
<1> HIDE DEF q, lo, hi, r, n
<1>6. q \in Seq(1 .. n) /\ Len(q) = hi - lo /\ \A i \in 1 .. hi - lo : q[i] = r[lo + i]
  <2>1. lo \in 0 .. Len(r) /\ hi \in lo .. Len(r)
    BY <1>3
  <2> QED
    BY <1>4, <2>1, Slice
<1>7. ASSUME NEW i \in 1 .. Len(q)
      PROVE  /\ q[i] = r[lo + i] /\ lo + i \in lo + 1 .. hi /\ q[i] \in 1 .. n
             /\ st.buckets[q[i]] = b
  <2>1. i \in 1 .. hi - lo /\ lo + i \in lo + 1 .. hi
    BY <1>3, <1>6
  <2>2. q[i] \in 1 .. n
    <3> DEFINE V == 1 .. n
    <3>1. q \in Seq(V) /\ i \in 1 .. Len(q)
      BY <1>6
    <3> HIDE DEF V
    <3>2. q[i] \in V
      BY <3>1
    <3> QED
      BY <3>2 DEF V
  <2> QED
    BY <1>5, <1>6, <2>1, <2>2
<1> QED
  BY <1>6, <1>7 DEF q, lo, hi, r, n

\* A sorted bucket is in the list's ascending order.
LEMMA GroupedAscends ==
    ASSUME NEW st, Orderly(st), NEW b \in 1 .. bucket_total(st), FullySorted(st, b),
           NEW i \in 1 .. Len(grouped(st, b)), NEW j \in 1 .. Len(grouped(st, b)), i < j
    PROVE  List!AscendingBefore(st.name, grouped(st, b)[i], grouped(st, b)[j])
<1>1. Readable(st)
  BY DEF Orderly
<1> DEFINE lo == st.start[b]
           hi == st.start[b + 1]
           y == lo + i
           z == lo + j
<1>2. /\ grouped(st, b)[i] = st.order[y] /\ y \in lo + 1 .. hi
      /\ grouped(st, b)[j] = st.order[z] /\ z \in lo + 1 .. hi
  BY <1>1, GroupedElements
<1>3. lo \in Nat /\ i \in Int /\ j \in Int
  <2>1. Ladder(st.start, bucket_total(st)) /\ bucket_total(st) \in Nat
    BY <1>1, ReadableArranged DEF Arranged, Typed
  <2>2. lo \in Nat
    BY <2>1, LadderBounds
  <2>3. grouped(st, b) \in Seq(1 .. Len(items))
    BY <1>1, GroupedElements
  <2> QED
    BY <2>2, <2>3
<1>4. y < z
  <2> HIDE DEF lo
  <2> QED
    BY <1>3
<1> HIDE DEF y, z
<1>5. List!AscendingBefore(st.name, st.order[y], st.order[z])
  BY <1>2, <1>4, InsideBucket
<1> QED
  BY <1>2, <1>5

\* A slot with a bucket of group g is of group g.
LEMMA SlotOfGroup ==
    ASSUME NEW st, Readable(st), NEW x \in 1 .. Len(items), NEW g \in 1 .. Len(st.layouts),
           st.buckets[x] \in group_offset(st)[g] + 1 .. group_offset(st)[g + 1]
    PROVE  SlotGroup(st.name, x) = g
<1> DEFINE c == Len(st.layouts)
           off == group_offset(st)
           h == SlotGroup(st.name, x)
           b == st.buckets[x]
           v == val[items[x]]
<1>1. Collection(items, val) /\ Consistent(st, items, val) /\ LayoutsIn(st)
  BY DEF Readable, Ready
<1>2. st.name \in Name /\ c = GroupCount[st.name] /\ c \in Nat \ {0}
  BY GroupsAre
<1>3. x \in DOMAIN items /\ v \in Value
  BY <1>1, ValuesOf
<1>4. DOMAIN st.layouts = 1 .. GroupCount[st.name]
  BY <1>1 DEF Consistent, KeyStateOK
<1>5. b = bucket_for(st, v, st.keys[x], val)
  BY <1>1, <1>3 DEF Consistent, BucketsIn
<1>6. h \in 1 .. c /\ b \in off[h] + 1 .. off[h + 1]
  <2> HIDE DEF v
  <2>1. /\ bucket_for(st, v, st.keys[x], val) \in
              off[group(st.name, v)] + 1 .. off[group(st.name, v) + 1]
        /\ group(st.name, v) \in 1 .. GroupCount[st.name]
    BY <1>1, <1>2, <1>3, <1>4, IdInRange
  <2> QED
    BY <1>2, <1>5, <2>1 DEF v, SlotGroup
<1>7. Ladder(off, c)
  BY GroupsShare DEF Shared
<1>8. b \in off[g] + 1 .. off[g + 1]
  OBVIOUS
<1> HIDE DEF off, h, b, c
<1> QED
  BY <1>2, <1>6, <1>7, <1>8, SegmentUnique DEF h, c

\* The buckets of the grouping follow each other in the ascending order.
LEMMA BucketsPrecede ==
    ASSUME NEW st, Orderly(st), NEW a \in 1 .. bucket_total(st), NEW b \in 1 .. bucket_total(st), a < b
    PROVE  Precedes(grouped(st, a), grouped(st, b), ListOrder(st.name, "ascending"))
<1> SUFFICES ASSUME NEW i \in 1 .. Len(grouped(st, a)), NEW j \in 1 .. Len(grouped(st, b))
             PROVE  <<grouped(st, a)[i], grouped(st, b)[j]>> \in ListOrder(st.name, "ascending")
  BY DEF Precedes
<1> DEFINE x == grouped(st, a)[i]
           w == grouped(st, b)[j]
<1>1. Readable(st)
  BY DEF Orderly
<1>2. x \in 1 .. Len(items) /\ st.buckets[x] = a
  BY <1>1, GroupedElements
<1>3. w \in 1 .. Len(items) /\ st.buckets[w] = b
  BY <1>1, GroupedElements
<1> HIDE DEF x, w
<1>4. List!AscendingBefore(st.name, x, w)
  BY <1>2, <1>3, AcrossBuckets
<1>5. <<x, w>> \in ListOrder(st.name, "ascending")
  BY <1>2, <1>3, <1>4, BeforeIs, ListOrderIs
<1> QED
  BY <1>5 DEF x, w

\* The visit of for_each, ascending: all buckets, one behind the other.
LEMMA AscendingVisit ==
    ASSUME NEW st, Orderly(st), \A b \in 1 .. bucket_total(st) : FullySorted(st, b)
    PROVE  InOrder(visited(st, "ascending"), ListOrder(st.name, "ascending"))
<1> DEFINE k == bucket_total(st)
           X == 1 .. Len(items)
           parts == [b \in 1 .. k |-> grouped(st, b)]
           less == ListOrder(st.name, "ascending")
<1>1. Readable(st)
  BY DEF Orderly
<1>2. k \in Nat
  BY <1>1, ReadableArranged DEF Typed
<1>3. visited(st, "ascending") = joined(parts)
  BY DEF visited
<1>4. Len(parts) = k /\ \A b \in 1 .. k : parts[b] = grouped(st, b)
  BY <1>2
<1>5. \A b \in 1 .. k : parts[b] \in Seq(X)
  BY <1>1, <1>4, GroupedElements
<1>6. ASSUME NEW b \in 1 .. k
      PROVE  InOrder(parts[b], less)
  <2> SUFFICES ASSUME NEW i \in 1 .. Len(grouped(st, b)), NEW j \in 1 .. Len(grouped(st, b)), i < j
               PROVE  <<grouped(st, b)[i], grouped(st, b)[j]>> \in less
    BY <1>4 DEF InOrder
  <2> DEFINE x == grouped(st, b)[i]
             w == grouped(st, b)[j]
  <2>1. x \in X /\ w \in X
    BY <1>1, GroupedElements
  <2>2. List!AscendingBefore(st.name, x, w)
    BY GroupedAscends
  <2> HIDE DEF x, w
  <2>3. <<x, w>> \in less
    BY <2>1, <2>2, BeforeIs, ListOrderIs
  <2> QED
    BY <2>3 DEF x, w
<1>7. \A a, b \in 1 .. k : a < b => Precedes(parts[a], parts[b], less)
  BY <1>4, BucketsPrecede
<1> HIDE DEF k, parts, less
<1>8. InOrder(joined(parts), less)
  BY <1>2, <1>4, <1>5, <1>6, <1>7, JoinedInOrder
<1> QED
  BY <1>3, <1>8 DEF less

\* Inside a group descending order is ascending order turned round.
LEMMA TurnedInGroup ==
    ASSUME NEW k, NEW dir, dir # "ascending", NEW x \in 1 .. Len(items), NEW y \in 1 .. Len(items),
           SlotGroup(k, x) = SlotGroup(k, y), List!AscendingBefore(k, y, x)
    PROVE  <<x, y>> \in ListOrder(k, dir)
  BY BeforeIs, ListOrderIs

\* What Reverse does to the places of a sequence.
LEMMA ReversedElements ==
    ASSUME NEW X, NEW s \in Seq(X)
    PROVE  /\ Reverse(s) \in Seq(X) /\ Len(Reverse(s)) = Len(s)
           /\ \A i \in 1 .. Len(s) : Len(s) + 1 - i \in 1 .. Len(s) /\ Reverse(s)[i] = s[Len(s) + 1 - i]
<1> DEFINE n == Len(s)
           r == Reverse(s)
<1>1. n \in Nat /\ \A i \in 1 .. n : s[i] \in X
  OBVIOUS
<1>2. r = [i \in 1 .. n |-> s[(n - i) + 1]]
  BY DEF Reverse
<1> HIDE DEF n, r
<1>3. \A i \in 1 .. n : n + 1 - i \in 1 .. n /\ (n - i) + 1 = n + 1 - i
  BY <1>1
<1>4. \A i \in 1 .. n : r[i] = s[n + 1 - i] /\ r[i] \in X
  BY <1>1, <1>2, <1>3
<1>5. r \in Seq(X) /\ Len(r) = n
  <2>1. r \in [1 .. n -> X]
    BY <1>2, <1>4
  <2> QED
    BY <1>1, <2>1
<1> QED
  BY <1>3, <1>4, <1>5 DEF n, r

\* The visit of one group, descending: the buckets of the group from the last to the
\* first, each turned round.
LEMMA DownwardInOrder ==
    ASSUME NEW st, Orderly(st), \A b \in 1 .. bucket_total(st) : FullySorted(st, b),
           NEW dir, dir # "ascending", NEW g \in 1 .. Len(st.layouts)
    PROVE  InOrder(Downward(st, group_offset(st), g), ListOrder(st.name, dir))
<1> DEFINE n == Len(items)
           X == 1 .. n
           k == bucket_total(st)
           c == Len(st.layouts)
           off == group_offset(st)
           lo == off[g]
           hi == off[g + 1]
           w == hi - lo
           bucket(i) == hi + 1 - i
           parts == [i \in 1 .. w |-> Reverse(grouped(st, bucket(i)))]
           less == ListOrder(st.name, dir)
<1>1. Readable(st)
  BY DEF Orderly
<1>2. k \in Nat /\ c \in Nat \ {0} /\ Ladder(off, c) /\ off[c + 1] = k
  BY <1>1, ReadableArranged, GroupsShare DEF Typed, Shared
<1>3. lo \in Nat /\ hi \in Nat /\ lo <= hi /\ hi <= k
  <2>1. g \in 1 .. c
    OBVIOUS
  <2> HIDE DEF off, c, k
  <2> QED
    BY <1>2, <2>1, LadderBounds
<1>4. Downward(st, off, g) = joined(parts)
  BY DEF Downward
<1> HIDE DEF lo, hi, off, k, c
<1>5. w \in Nat /\ \A i \in 1 .. w : bucket(i) \in 1 .. k /\ bucket(i) \in lo + 1 .. hi
  BY <1>2, <1>3
<1>6. \A i, j \in 1 .. w : i < j => bucket(j) < bucket(i)
  BY <1>3
<1>7. Len(parts) = w /\ \A i \in 1 .. w : parts[i] = Reverse(grouped(st, bucket(i)))
  BY <1>5
<1> HIDE DEF bucket, w, parts
\* The elements of a part.
<1>8. ASSUME NEW i \in 1 .. w
      PROVE  LET q == grouped(st, bucket(i))
             IN  /\ q \in Seq(X) /\ Len(q) \in Nat
                 /\ parts[i] \in Seq(X) /\ Len(parts[i]) = Len(q)
                 /\ \A y \in 1 .. Len(q) : /\ Len(q) + 1 - y \in 1 .. Len(q)
                                           /\ parts[i][y] = q[Len(q) + 1 - y]
                 /\ \A y \in 1 .. Len(q) : /\ q[y] \in X /\ st.buckets[q[y]] = bucket(i)
                                           /\ SlotGroup(st.name, q[y]) = g
  <2> DEFINE b == bucket(i)
             q == grouped(st, b)
  <2>1. b \in 1 .. k /\ b \in lo + 1 .. hi
    BY <1>5
  <2> HIDE DEF b
  <2>2. q \in Seq(X) /\ \A y \in 1 .. Len(q) : q[y] \in X /\ st.buckets[q[y]] = b
    BY <1>1, <2>1, GroupedElements DEF k
  <2>3. \A y \in 1 .. Len(q) : SlotGroup(st.name, q[y]) = g
    <3> HIDE DEF q
    <3> QED
      BY <1>1, <2>1, <2>2, SlotOfGroup DEF lo, hi, off
  <2>4. parts[i] = Reverse(q)
    BY <1>7 DEF b
  <2> HIDE DEF q, X
  <2>5. /\ parts[i] \in Seq(X) /\ Len(parts[i]) = Len(q)
        /\ \A y \in 1 .. Len(q) : Len(q) + 1 - y \in 1 .. Len(q) /\ parts[i][y] = q[Len(q) + 1 - y]
    BY <2>2, <2>4, ReversedElements
  <2>6. Len(q) \in Nat
    BY <2>2
  <2> QED
    BY <2>2, <2>3, <2>5, <2>6 DEF q, b
<1>9. ASSUME NEW i \in 1 .. w
      PROVE  InOrder(parts[i], less)
  <2> DEFINE q == grouped(st, bucket(i))
             l == Len(q)
  <2>1. /\ l \in Nat /\ Len(parts[i]) = l
        /\ \A y \in 1 .. l : l + 1 - y \in 1 .. l /\ parts[i][y] = q[l + 1 - y]
        /\ \A y \in 1 .. l : q[y] \in X /\ SlotGroup(st.name, q[y]) = g
    BY <1>8
  <2> SUFFICES ASSUME NEW y \in 1 .. l, NEW z \in 1 .. l, y < z
               PROVE  <<parts[i][y], parts[i][z]>> \in less
    BY <2>1 DEF InOrder
  <2> DEFINE u == l + 1 - y
             v == l + 1 - z
  <2>2. u \in 1 .. l /\ v \in 1 .. l /\ parts[i][y] = q[u] /\ parts[i][z] = q[v]
    BY <2>1
  <2>3. v < u
    <3> HIDE DEF l
    <3> QED
      BY <2>1
  <2> HIDE DEF u, v
  <2>4. bucket(i) \in 1 .. bucket_total(st)
    BY <1>5 DEF k
  <2>5. List!AscendingBefore(st.name, q[v], q[u])
    BY <2>2, <2>3, <2>4, GroupedAscends
  <2> DEFINE a == q[u]
             b == q[v]
  <2>6. a \in X /\ b \in X /\ SlotGroup(st.name, a) = SlotGroup(st.name, b)
    BY <2>1, <2>2
  <2>7. List!AscendingBefore(st.name, b, a)
    BY <2>5
  <2> HIDE DEF a, b
  <2>8. <<a, b>> \in less
    BY <2>6, <2>7, TurnedInGroup
  <2> QED
    BY <2>2, <2>8 DEF a, b
<1>10. ASSUME NEW i \in 1 .. w, NEW j \in 1 .. w, i < j
       PROVE  Precedes(parts[i], parts[j], less)
  <2> SUFFICES ASSUME NEW y \in 1 .. Len(parts[i]), NEW z \in 1 .. Len(parts[j])
               PROVE  <<parts[i][y], parts[j][z]>> \in less
    BY DEF Precedes
  <2> DEFINE a == parts[i][y]
             b == parts[j][z]
  <2>1. a \in X /\ st.buckets[a] = bucket(i) /\ SlotGroup(st.name, a) = g
    <3> DEFINE q == grouped(st, bucket(i))
               u == Len(q) + 1 - y
    <3>1. /\ Len(parts[i]) = Len(q)
          /\ \A v \in 1 .. Len(q) : Len(q) + 1 - v \in 1 .. Len(q) /\ parts[i][v] = q[Len(q) + 1 - v]
          /\ \A v \in 1 .. Len(q) : q[v] \in X /\ st.buckets[q[v]] = bucket(i) /\ SlotGroup(st.name, q[v]) = g
      BY <1>8
    <3>2. u \in 1 .. Len(q) /\ a = q[u]
      BY <3>1
    <3> HIDE DEF u, q, a
    <3> QED
      BY <3>1, <3>2
  <2>2. b \in X /\ st.buckets[b] = bucket(j) /\ SlotGroup(st.name, b) = g
    <3> DEFINE q == grouped(st, bucket(j))
               u == Len(q) + 1 - z
    <3>1. /\ Len(parts[j]) = Len(q)
          /\ \A v \in 1 .. Len(q) : Len(q) + 1 - v \in 1 .. Len(q) /\ parts[j][v] = q[Len(q) + 1 - v]
          /\ \A v \in 1 .. Len(q) : q[v] \in X /\ st.buckets[q[v]] = bucket(j) /\ SlotGroup(st.name, q[v]) = g
      BY <1>8
    <3>2. u \in 1 .. Len(q) /\ b = q[u]
      BY <3>1
    <3> HIDE DEF u, q, b
    <3> QED
      BY <3>1, <3>2
  <2>3. bucket(j) < bucket(i)
    BY <1>6, <1>10
  <2> HIDE DEF a, b
  <2>4. List!AscendingBefore(st.name, b, a)
    BY <2>1, <2>2, <2>3, AcrossBuckets
  <2>5. <<a, b>> \in less
    BY <2>1, <2>2, <2>4, TurnedInGroup
  <2> QED
    BY <2>5 DEF a, b
<1>11. \A i \in 1 .. w : parts[i] \in Seq(X)
  BY <1>8
<1> HIDE DEF X, less
<1>12. InOrder(joined(parts), less)
  BY <1>5, <1>7, <1>9, <1>10, <1>11, JoinedInOrder
<1> QED
  BY <1>4, <1>12 DEF less, off

\* The visit of for_each, descending: the groups upwards, each of them downwards.
LEMMA DescendingVisit ==
    ASSUME NEW st, Orderly(st), \A b \in 1 .. bucket_total(st) : FullySorted(st, b),
           NEW dir, dir # "ascending"
    PROVE  InOrder(visited(st, dir), ListOrder(st.name, dir))
<1> DEFINE n == Len(items)
           X == 1 .. n
           k == bucket_total(st)
           c == Len(st.layouts)
           off == group_offset(st)
           parts == [g \in 1 .. c |-> Downward(st, off, g)]
           less == ListOrder(st.name, dir)
<1>1. Readable(st)
  BY DEF Orderly
<1>2. /\ k \in Nat /\ n \in Nat /\ c \in Nat \ {0} /\ DOMAIN st.layouts = 1 .. c
      /\ Shared(off, c, k)
  BY <1>1, ReadableArranged, GroupsShare DEF Typed
<1>3. Arranged(st.order, st.start, k, 1 .. n, st.buckets)
  BY <1>1, ReadableArranged
<1>4. visited(st, dir) = joined(parts)
  BY <1>2 DEF visited, Downward
<1>5. Len(parts) = c /\ \A g \in 1 .. c : parts[g] = Downward(st, off, g)
  BY <1>2
<1> HIDE DEF k, n, c, off, parts
<1>6. ASSUME NEW g \in 1 .. c
      PROVE  Lists(parts[g], GroupSlots(off, n, st.buckets, g))
  <2>1. Lists(Downward(st, off, g), GroupSlots(off, n, st.buckets, g))
    BY <1>2, <1>3, DownwardLists
  <2> QED
    BY <1>5, <2>1
<1>7. ASSUME NEW g \in 1 .. c
      PROVE  /\ parts[g] \in Seq(X)
             /\ \A i \in 1 .. Len(parts[g]) :
                   /\ parts[g][i] \in X
                   /\ st.buckets[parts[g][i]] \in off[g] + 1 .. off[g + 1]
  <2> DEFINE U == GroupSlots(off, n, st.buckets, g)
             q == parts[g]
  <2>1. q \in Seq(U)
    BY <1>6 DEF Lists
  <2>2. \A x \in U : x \in X /\ st.buckets[x] \in off[g] + 1 .. off[g + 1]
    BY DEF GroupSlots
  <2> HIDE DEF U, q, X
  <2>3. q \in Seq(X)
    BY <2>1, <2>2
  <2>4. \A i \in 1 .. Len(q) : q[i] \in U
    BY <2>1
  <2> QED
    BY <2>2, <2>3, <2>4 DEF q
<1>8. ASSUME NEW g \in 1 .. c
      PROVE  InOrder(parts[g], less)
  <2>1. g \in 1 .. Len(st.layouts)
    BY DEF c
  <2>2. InOrder(Downward(st, group_offset(st), g), less)
    BY <2>1, DownwardInOrder
  <2> QED
    BY <1>5, <2>2 DEF off
<1>9. ASSUME NEW g \in 1 .. c, NEW h \in 1 .. c, g < h
      PROVE  Precedes(parts[g], parts[h], less)
  <2> SUFFICES ASSUME NEW y \in 1 .. Len(parts[g]), NEW z \in 1 .. Len(parts[h])
               PROVE  <<parts[g][y], parts[h][z]>> \in less
    BY DEF Precedes
  <2> DEFINE a == parts[g][y]
             b == parts[h][z]
             u == st.buckets[a]
             v == st.buckets[b]
  <2>1. a \in X /\ u \in off[g] + 1 .. off[g + 1]
    BY <1>7
  <2>2. b \in X /\ v \in off[h] + 1 .. off[h + 1]
    BY <1>7
  <2>3. SlotGroup(st.name, a) = g
    <3> HIDE DEF a
    <3> QED
      BY <1>1, <2>1, SlotOfGroup DEF off, c, n
  <2>4. SlotGroup(st.name, b) = h
    <3> HIDE DEF b
    <3> QED
      BY <1>1, <2>2, SlotOfGroup DEF off, c, n
  <2>5. u < v
    <3> SUFFICES ASSUME ~ (u < v) PROVE FALSE
      OBVIOUS
    <3>1. Ladder(off, c)
      BY <1>2 DEF Shared
    <3> HIDE DEF u, v
    <3>2. v <= u
      <4>1. off[g] \in Nat /\ off[g + 1] \in Nat /\ off[h] \in Nat /\ off[h + 1] \in Nat
        BY <1>2, <3>1, LadderBounds
      <4>2. u \in Int /\ v \in Int
        BY <2>1, <2>2, <4>1
      <4> QED
        BY <4>2
    <3>3. h <= g
      BY <1>2, <2>1, <2>2, <3>1, <3>2, SegmentsRise
    <3> QED
      BY <1>2, <1>9, <3>3
  <2>6. g # h
    BY <1>2, <1>9
  <2> HIDE DEF a, b
  <2>7. List!AscendingBefore(st.name, a, b)
    BY <2>1, <2>2, <2>5, AcrossBuckets DEF u, v, n
  <2>8. <<a, b>> \in less
    BY <2>1, <2>2, <2>3, <2>4, <2>6, <2>7, BeforeIs, ListOrderIs DEF n
  <2> QED
    BY <2>8 DEF a, b
<1>10. \A g \in 1 .. c : parts[g] \in Seq(X)
  BY <1>7
<1> HIDE DEF X, less
<1>11. InOrder(joined(parts), less)
  BY <1>2, <1>5, <1>8, <1>9, <1>10, JoinedInOrder
<1> QED
  BY <1>4, <1>11 DEF less

\* for_each sorts every bucket and visits the elements in the list's order.
LEMMA ForEachPromised ==
    ASSUME Known, Sortable, for_each
    PROVE  List!Next
<1> DEFINE n == Len(items)
<1>1. Read /\ IInv /\ Collection(items, val)
  BY DEF Read, Known, IInv
<1>2. n \in Nat /\ n - 0 = n /\ DOMAIN items = 1 .. n /\ \A i \in 1 .. n : 0 + i = i
  BY <1>1, ValuesOf
<1>3. List!for_each => List!Next
  BY DEF List!Next
<1>4. ASSUME NEW out, result' = Call("for_each", << >>, out, 0),
             out = [i \in 1 .. n |-> out[i]],
             \A i \in 1 .. n : out[i] = items[List!SlotAt(i)]
      PROVE  List!Next
  <2>1. List!Observes("for_each", << >>, out, 0)
    BY <1>1, <1>4, ReadObserved
  <2>2. List!Elements(0, n) = [i \in 1 .. n - 0 |-> items[List!SlotAt(0 + i)]]
    BY DEF List!Elements
  <2>3. List!Elements(0, n) = out
    <3> HIDE DEF n
    <3> QED
      BY <1>2, <1>4, <2>2
  <2>4. List!for_each = List!Observes("for_each", << >>, List!Elements(0, n), 0)
    BY DEF List!for_each
  <2> QED
    BY <1>3, <2>1, <2>3, <2>4
<1>5. CASE active = npos
  <2>1. result' = Call("for_each", << >>, items, 0)
    BY <1>5 DEF for_each
  <2>2. items = [i \in 1 .. n |-> items[i]]
    <3>1. items \in Seq(Handle)
      BY <1>1 DEF Collection
    <3> QED
      BY <3>1
  <2>3. \A i \in 1 .. n : items[i] = items[List!SlotAt(i)]
    BY <1>1, <1>5, UnsortedPositions
  <2> HIDE DEF n
  <2> QED
    BY <1>4, <2>1, <2>2, <2>3
<1>6. CASE active # npos
  <2> DEFINE st == prepare(states[active], items, val, plan)
             bs == 1 .. bucket_total(st)
             t == sort_buckets(st, bs, items, val)
             q == visited(t, direction)
             out == [i \in DOMAIN q |-> items[q[i]]]
             less == ListOrder(ActiveKey, direction)
  <2>1. result' = Call("for_each", << >>, out, 0)
    BY <1>6 DEF for_each
  <2>2. ReadSorted(t, st, bs) /\ ActiveKey \in Ordering
    BY <1>6, ReadStart
  <2> HIDE DEF t, st
  <2>3. /\ Orderly(t) /\ t.name = ActiveKey /\ Readable(t)
        /\ t.layouts = st.layouts /\ t.start = st.start
        /\ \A b \in bs \cap 1 .. bucket_total(st) : FullySorted(t, b)
    BY <2>2 DEF ReadSorted, Orderly
  <2>4. bucket_total(t) = bucket_total(st)
    BY <2>3, SamePlaces
  <2>5. \A b \in 1 .. bucket_total(t) : FullySorted(t, b)
    BY <2>3, <2>4
  <2>6. InOrder(q, less)
    <3>1. CASE direction = "ascending"
      BY <2>3, <2>5, <3>1, AscendingVisit
    <3>2. CASE direction # "ascending"
      BY <2>3, <2>5, <3>2, DescendingVisit
    <3> QED
      BY <3>1, <3>2
  <2>7. Lists(q, 1 .. n)
    BY <2>3, VisitedLists
  <2> HIDE DEF q
  <2>8. Len(q) = n /\ DOMAIN q = 1 .. n
    <3> HIDE DEF n
    <3> QED
      BY <1>2, <2>7, ListsWhole
  <2>9. ASSUME NEW p \in 1 .. n
        PROVE  List!SlotAt(p) = q[p]
    <3>1. Around(q, p, less)
      BY <2>6, <2>8 DEF Around, InOrder
    <3> QED
      BY <1>1, <2>2, <2>7, <3>1, PlaceIsPosition
  <2>10. out = [i \in 1 .. n |-> out[i]] /\ \A i \in 1 .. n : out[i] = items[List!SlotAt(i)]
    BY <2>8, <2>9
  <2> HIDE DEF out
  <2> QED
    BY <1>4, <2>1, <2>10
<1> QED
  BY <1>5, <1>6

\* The calls that read.
LEMMA ReadPromised ==
    ASSUME Known, Sortable, Read
    PROVE  List!Next
<1>1. IInv
  BY DEF Known
<1>2. Collection(items, val)
  BY <1>1 DEF IInv
<1>3. \A x \in 1 .. Len(items) + 1 : x .. Len(items) \in SUBSET (1 .. Len(items))
  BY <1>2, ValuesOf
<1>4. CASE \E p \in 1 .. Len(items) + 1 : at(p)
  BY <1>4, AtPromised
<1>5. CASE \E from \in 0 .. Len(items) : \E until \in from .. Len(items) + 1 : range(from, until)
  BY <1>5, RangePromised
<1>6. CASE first_page
  BY <1>6, FirstPagePromised
<1>7. CASE \E x \in 1 .. Len(items) + 1 : position_if(x .. Len(items))
  BY <1>3, <1>7, PositionIfPromised
<1>8. CASE for_each
  BY <1>8, ForEachPromised
<1>9. CASE sort_all
  BY <1>1, <1>9, SortAllPromised
<1> QED
  BY <1>4, <1>5, <1>6, <1>7, <1>8, <1>9 DEF Read

\* Each call of the index is one of the list.
LEMMA CallPromised ==
    ASSUME Known, Next, Read => Sortable
    PROVE  List!Next
<1>1. IInv
  BY DEF Known
<1>2. CASE Read
  BY <1>2, ReadPromised
<1>3. CASE Select
  BY <1>1, <1>3, SelectPromised
<1>4. CASE Tune
  BY <1>1, <1>4, TunePromised
<1>5. CASE Change
  BY <1>1, <1>5, ChangePromised
<1> QED
  BY <1>2, <1>3, <1>4, <1>5 DEF Next

\* When the index does nothing, so does the list.
LEMMA StepPromised ==
    ASSUME Known, [Next]_vars, Read => Sortable
    PROVE  List!Next \/ UNCHANGED List!vars
<1>1. CASE Next
  BY <1>1, CallPromised
<1>2. CASE UNCHANGED vars
  <2>1. UNCHANGED <<items, val, states, active, direction, plan, result>>
    BY <1>2 DEF vars
  <2>2. ActiveKey' = ActiveKey
    BY <2>1 DEF ActiveKey
  <2> QED
    BY <2>1, <2>2 DEF List!vars
<1> QED
  BY <1>1, <1>2

\* When all sort keys order the values, the active one does.
LEMMA SortableAlways ==
    ASSUME IInv, Name \subseteq Ordering
    PROVE  Sortable
  BY DEF IInv, Consistent, KeyStateOK, Sortable, ActiveKey

\* Whatever sort keys are registered: each step of the index is a step of the list,
\* but for a read while the active sort key contradicts itself, whose answers the
\* buckets then decide.  The other calls never fall out of step, so that reads are
\* right again as soon as another sort key is selected.
THEOREM StepsAnswered ==
    Spec => [][(Read => Sortable) => List!Next]_(List!vars)
<1>1. Known /\ [Next]_vars => [(Read => Sortable) => List!Next]_(List!vars)
  BY StepPromised
<1>2. Spec => []Known
  BY OrdersInvariance, LaddersInvariance, PTL DEF Known
<1> QED
  BY <1>1, <1>2, PTL DEF Spec

\* When every sort key orders the values, as the comparators of a sort key must, the
\* index implements the list: every answer of every sequence of calls is the one the
\* list gives.
THEOREM IndexImplementsList ==
    ASSUME Name \subseteq Ordering
    PROVE  Spec => ImplementsList
<1>2. Known => Sortable
  BY SortableAlways DEF Known
<1>3. Known /\ [Next]_vars => [List!Next]_(List!vars)
  BY <1>2, StepPromised
<1>4. Spec => []Known
  BY OrdersInvariance, LaddersInvariance, PTL DEF Known
<1>5. Init => List!Init
  BY InitPromised
<1> QED
  BY <1>3, <1>4, <1>5, PTL DEF Spec, ImplementsList, List!Spec

-----------------------------------------------------------------------------
(* The Java iterator                                                       *)

\* What the order of the list depends on stays as it is.
KeepsOrder ==
    items' = items /\ val' = val /\ ActiveKey' = ActiveKey /\ direction' = direction

LEMMA OrderKept ==
    ASSUME KeepsOrder
    PROVE  Order' = Order
<1> USE DEF KeepsOrder
<1>1. ASSUME NEW x, NEW y
      PROVE  List!Before(ActiveKey, direction, x, y)' <=> List!Before(ActiveKey, direction, x, y)
  BY DEF List!Before, List!AscendingBefore
<1>2. ASSUME NEW x
      PROVE  List!PositionOf(x)' = List!PositionOf(x)
  BY DEF List!PositionOf, List!Unsorted, List!Before, List!AscendingBefore
<1>3. ASSUME NEW p
      PROVE  List!SlotAt(p)' = List!SlotAt(p)
  BY DEF List!SlotAt, List!PositionOf, List!Unsorted, List!Before, List!AscendingBefore
<1> QED
  BY <1>3 DEF Order, List!Elements

\* A collection is finite, and filtering it by all handles leaves all of it.
LEMMA WholeCollection ==
    ASSUME NEW its, NEW vl, Collection(its, vl)
    PROVE  IsFiniteSet(ToSet(its)) /\ only(its, Handle) = its
<1> DEFINE n == Len(its)
           e == [i \in 1 .. n |-> i]
           f == [i \in 1 .. n |-> its[i]]
<1>1. n \in Nat /\ DOMAIN its = 1 .. n /\ its = f /\ \A i \in 1 .. n : its[i] \in Handle
  BY DEF Collection
<1> HIDE DEF n
<1>2. IsFiniteSet(ToSet(its))
  <2>1. f \in Surjection(1 .. n, ToSet(its))
    BY <1>1 DEF Surjection, ToSet
  <2>2. IsFiniteSet(1 .. n)
    BY <1>1, PartOfInterval
  <2> QED
    BY <2>1, <2>2, FS_Surjection
<1>3. Picks(e, n, its)
  BY <1>1 DEF Picks, n
<1>4. \A i \in 1 .. Len(its) : its[i] \in Handle <=> \E p \in 1 .. n : e[p] = i
  BY <1>1 DEF n
<1>5. only(its, Handle) = picked(its, e, n)
  BY <1>3, <1>4, OnlyIs DEF Collection
<1>6. picked(its, e, n) = f
  BY DEF picked
<1> QED
  BY <1>1, <1>2, <1>5, <1>6

\* A call of the list that does not count as a modification leaves its order alone.
LEMMA UnmodifiedKeepsOrder ==
    ASSUME Collection(items, val), List!Next, result' # Thrown("add_all"), ~ modifies(result')
    PROVE  KeepsOrder
<1> DEFINE call == result'
<1>1. ASSUME NEW op, NEW arg, NEW out, NEW num, List!Observes(op, arg, out, num)
      PROVE  KeepsOrder
  BY <1>1 DEF List!Observes, KeepsOrder
<1>2. ASSUME NEW op, List!Throws(op)
      PROVE  KeepsOrder
  BY <1>1, <1>2 DEF List!Throws
<1>3. ASSUME NEW op \in ModifyingCalls, List!Answers(op, << >>, << >>, 0)
      PROVE  FALSE
  <2>1. result'.op = op /\ result'.num = 0
    BY <1>3 DEF List!Answers, List!Call
  <2> QED
    BY <1>3, <2>1 DEF modifies, npos
<1>4. CASE \E p \in 1 .. Len(items) + 1 : List!at(p)
  BY <1>1, <1>2, <1>4 DEF List!at
<1>5. CASE \/ \E from, until \in 0 .. Len(items) + 1 : List!range(from, until)
           \/ List!range(0, plan.page_size)
  BY <1>1, <1>5 DEF List!range
<1>6. CASE \E matching \in SUBSET DOMAIN items : List!position_if(matching)
  BY <1>1, <1>6 DEF List!position_if
<1>7. CASE List!for_each \/ List!sort_all \/ List!rebalance_all
  BY <1>1, <1>7 DEF List!for_each, List!sort_all, List!rebalance_all
<1>8. CASE List!unsort
  BY <1>3, <1>8 DEF List!unsort, ModifyingCalls
<1>9. CASE List!set_plan
  BY <1>9 DEF List!set_plan, KeepsOrder
<1>10. CASE List!clear
  BY <1>3, <1>10 DEF List!clear, ModifyingCalls
<1>11. ASSUME NEW k \in Name, List!rebalance(k)
       PROVE  KeepsOrder
  BY <1>1, <1>2, <1>11 DEF List!rebalance
<1>12. ASSUME NEW k \in Name, List!add_sort_key(k)
       PROVE  KeepsOrder
  BY <1>2, <1>3, <1>12 DEF List!add_sort_key, ModifyingCalls
<1>13. ASSUME NEW k \in Name, List!remove_sort_key(k)
       PROVE  KeepsOrder
  <2>1. CASE k \notin List!ToSet(Names)
    BY <1>1, <1>13, <2>1 DEF List!remove_sort_key, Names
  <2>2. CASE k \in List!ToSet(Names)
    <3>1. List!Answers("remove_sort_key", << >>, << >>, 1)
      BY <1>13, <2>2 DEF List!remove_sort_key, Names
    <3>2. result'.op = "remove_sort_key" /\ result'.num = 1
      BY <3>1 DEF List!Answers, List!Call
    <3> QED
      BY <3>2 DEF modifies
  <2> QED
    BY <2>1, <2>2
<1>14. ASSUME NEW k \in Name, NEW dir, List!sort_by(k, dir)
       PROVE  KeepsOrder
  BY <1>2, <1>3, <1>14 DEF List!sort_by, ModifyingCalls
<1>15. ASSUME NEW h, List!add(h)
       PROVE  KeepsOrder
  BY <1>2, <1>3, <1>15 DEF List!add, ModifyingCalls
<1>16. ASSUME NEW hs, List!add_all(hs)
       PROVE  KeepsOrder
  <2>1. ASSUME List!Answers("add_all", << >>, << >>, -1)
        PROVE  FALSE
    BY <2>1 DEF List!Answers, List!Call, Thrown, Call, npos
  <2> QED
    BY <1>3, <1>16, <2>1 DEF List!add_all, ModifyingCalls
<1>17. ASSUME NEW matching \in SUBSET ToSet(items),
              \/ List!remove_if(matching) \/ List!update_if(matching)
       PROVE  KeepsOrder
  <2>1. \E op \in {"remove_if", "update_if"} :
           List!Answers(op, << >>, << >>, Cardinality(matching))
    BY <1>17, SameOperators DEF List!remove_if, List!update_if
  <2>2. result'.op \in {"remove_if", "update_if"} /\ result'.num = Cardinality(matching)
    BY <2>1 DEF List!Answers, List!Call
  <2>3. IsFiniteSet(matching) /\ Cardinality(matching) \in Nat
    <3>1. IsFiniteSet(ToSet(items))
      BY WholeCollection
    <3> QED
      BY <3>1, FS_Subset, FS_CardinalityType
  <2>4. matching = {}
    BY <2>2, <2>3, FS_EmptySet DEF modifies
  <2>5. val = [h \in DOMAIN val |-> val[h]]
    BY DEF Collection
  <2>6. CASE List!update_if(matching)
    BY <2>4, <2>5, <2>6 DEF List!update_if, KeepsOrder
  <2>7. CASE List!remove_if(matching)
    <3>1. List!Removes({})
      BY <2>4, <2>7 DEF List!remove_if
    <3>2. items' = only(items, Handle)
      BY <3>1, SameOperators DEF List!Removes
    <3>3. only(items, Handle) = items
      BY WholeCollection
    <3>4. val' = val
      BY <2>5, <3>1 DEF List!Removes
    <3> QED
      BY <3>1, <3>2, <3>3, <3>4 DEF List!Removes, KeepsOrder
  <2> QED
    BY <1>17, <2>6, <2>7
<1> QED
  BY <1>4, <1>5, <1>6, <1>7, <1>8, <1>9, <1>10, <1>11, <1>12, <1>13, <1>14, <1>15, <1>16, <1>17,
     SameOperators DEF List!Next, List!Is

\* What the iterator knows is right until it has to be told of a change.
IterInv ==
    /\ Known
    /\ DOMAIN iterator = {"modified", "position", "seen"}
    /\ iterator.modified \in BOOLEAN /\ iterator.position \in Nat
    /\ ~ iterator.modified =>
          /\ promised = Order /\ iterator.position <= Len(items)
          /\ iterator.seen = SubSeq(promised, 1, iterator.position)

\* The variables of the index itself.
IndexVars == <<items, val, states, active, direction, plan>>

\* A step of the index, whether it counts as a call or not, keeps what is known.
LEMMA KnownStays ==
    ASSUME Known, [Next]_vars \/ UNCHANGED IndexVars
    PROVE  Known'
<1>1. CASE UNCHANGED IndexVars
  BY <1>1 DEF IndexVars, Known, IInv, Books, Groupings, Orders, Ladders
<1>2. CASE [Next]_vars
  <2>1. IInv /\ Books /\ Groupings /\ Orders /\ Ladders
    BY DEF Known
  <2>2. IInv'
    BY <1>2, <2>1, NextStep
  <2>3. Books'
    BY <1>2, <2>1, BooksStep
  <2>4. Groupings'
    BY <1>2, <2>1, <2>2, <2>3, GroupingsStep
  <2>5. Orders'
    BY <1>2, <2>1, <2>2, <2>3, <2>4, OrdersStep
  <2>6. Ladders'
    BY <1>2, <2>1, <2>2, LaddersStep
  <2> QED
    BY <2>2, <2>3, <2>4, <2>5, <2>6 DEF Known
<1> QED
  BY <1>1, <1>2

\* The order is a sequence of as many elements as there are.
LEMMA OrderIs ==
    ASSUME Collection(items, val)
    PROVE  /\ Order = [i \in 1 .. Len(items) |-> items[List!SlotAt(i)]]
           /\ Len(items) \in Nat
<1>1. Len(items) \in Nat
  BY ValuesOf
<1> DEFINE n == Len(items)
<1>2. Order = [i \in 1 .. n - 0 |-> items[List!SlotAt(0 + i)]]
  BY DEF Order, List!Elements
<1> HIDE DEF n
<1>3. 1 .. n - 0 = 1 .. n /\ \A i \in 1 .. n : 0 + i = i
  BY <1>1 DEF n
<1>4. Order = [i \in 1 .. n |-> items[List!SlotAt(i)]]
  BY <1>2, <1>3
<1> QED
  BY <1>1, <1>4 DEF n

\* The first elements of a sequence.
LEMMA FirstOnes ==
    ASSUME NEW X, NEW q \in Seq(X), NEW b \in 0 .. Len(q)
    PROVE  /\ SubSeq(q, 1, b) \in Seq(X) /\ Len(SubSeq(q, 1, b)) = b
           /\ \A i \in 1 .. b : SubSeq(q, 1, b)[i] = q[i]
<1>1. 0 \in 0 .. Len(q) /\ b \in 0 .. Len(q) /\ b \in Nat
  OBVIOUS
<1>2. /\ SubSeq(q, 0 + 1, b) \in Seq(X) /\ Len(SubSeq(q, 0 + 1, b)) = b - 0
      /\ \A i \in 1 .. b - 0 : SubSeq(q, 0 + 1, b)[i] = q[0 + i]
  BY <1>1, Slice
<1> QED
  BY <1>1, <1>2

\* One more element of a sequence.
LEMMA OneMore ==
    ASSUME NEW q, NEW n \in Nat, q = [i \in 1 .. n |-> q[i]], NEW p \in 1 .. n,
           NEW s, s = SubSeq(q, 1, p - 1)
    PROVE  Append(s, q[p]) = SubSeq(q, 1, p)
<1> DEFINE X == {q[i] : i \in 1 .. n}
<1>1. q \in [1 .. n -> X]
  OBVIOUS
<1> HIDE DEF X
<1>2. q \in Seq(X) /\ Len(q) = n
  BY <1>1
<1>3. s \in Seq(X) /\ Len(s) = p - 1 /\ \A i \in 1 .. p - 1 : s[i] = q[i]
  <2> DEFINE b == p - 1
  <2>1. b \in 0 .. Len(q)
    BY <1>2
  <2> HIDE DEF b
  <2>2. /\ SubSeq(q, 1, b) \in Seq(X) /\ Len(SubSeq(q, 1, b)) = b
        /\ \A i \in 1 .. b : SubSeq(q, 1, b)[i] = q[i]
    BY <1>2, <2>1, FirstOnes
  <2> QED
    BY <2>2 DEF b
<1>4. SubSeq(q, 1, p) = [i \in 1 .. p |-> q[i]]
  BY <1>2
<1>5. Append(s, q[p]) = [i \in 1 .. p |-> IF i = p THEN q[p] ELSE s[i]]
  BY <1>3
<1> QED
  BY <1>3, <1>4, <1>5

\* iterator() starts in front of the order there is.
LEMMA OpenStep ==
    ASSUME IterInv, open
    PROVE  IterInv'
<1>1. Collection(items, val)
  BY DEF IterInv, Known, IInv
<1>2. Known'
  BY KnownStays DEF IterInv, open, IndexVars
<1>3. /\ iterator' = [modified |-> FALSE, position |-> 0, seen |-> << >>]
      /\ promised' = Order /\ KeepsOrder
  BY DEF open, KeepsOrder, ActiveKey
<1>4. Order' = Order /\ items' = items /\ Len(items) \in Nat
  BY <1>1, <1>3, OrderKept, OrderIs DEF KeepsOrder
<1>5. SubSeq(promised', 1, 0) = << >>
  <2> DEFINE X == {Order[i] : i \in 1 .. Len(items)}
             n == Len(items)
             q == Order
  <2>1. q = [i \in 1 .. n |-> q[i]] /\ n \in Nat
    BY <1>1, OrderIs
  <2> HIDE DEF q, n
  <2>2. q \in Seq({q[i] : i \in 1 .. n})
    BY <2>1
  <2>3. SubSeq(q, 1, 0) = << >>
    BY <2>2
  <2> QED
    BY <1>3, <2>3 DEF q
<1> QED
  BY <1>2, <1>3, <1>4, <1>5 DEF IterInv

\* next() returns the element behind the last one, or refuses.
LEMMA NextStepOfIterator ==
    ASSUME IterInv, Sortable, next
    PROVE  /\ IterInv' /\ promised' = promised
           /\ result'.op \notin {"iterator", "next"} => List!Next
<1>1. Known /\ Collection(items, val) /\ Len(items) \in Nat /\ iterator.position \in Nat
  BY ValuesOf DEF IterInv, Known, IInv
<1>2. promised' = promised
  BY DEF next
<1>3. CASE iterator.modified \/ ~ hasNext
  <2>1. UNCHANGED IndexVars /\ iterator' = iterator /\ result'.op = "next"
    BY <1>3 DEF next, IndexVars, Thrown, Call
  <2>2. Known'
    BY <1>1, <2>1, KnownStays
  <2>3. Order' = Order /\ items' = items
    BY <2>1, OrderKept DEF KeepsOrder, IndexVars, ActiveKey
  <2> QED
    BY <1>2, <2>1, <2>2, <2>3 DEF IterInv
<1>4. CASE ~ (iterator.modified \/ ~ hasNext)
  <2> DEFINE p == iterator.position + 1
  <2>1. p \in 1 .. Len(items) /\ p \in 1 .. Len(items) + 1 /\ ~ (p > Len(items))
    BY <1>1, <1>4 DEF hasNext
  <2>2. /\ at(p)
        /\ iterator' = [iterator EXCEPT !.position = p, !.seen = Append(iterator.seen, result'.out[1])]
    BY <1>4 DEF next
  <2> HIDE DEF p
  <2>3. List!at(p) /\ List!Next
    BY <1>1, <2>1, <2>2, AtAnswered, AtPromised
  <2>4. List!Observes("at", <<p>>, List!Elements(p - 1, p), 0)
    BY <2>1, <2>3 DEF List!at
  <2>5. KeepsOrder
    BY <2>4 DEF List!Observes, KeepsOrder
  <2>6. Known'
    <3>1. Next
      BY <2>1, <2>2 DEF Next, Read
    <3> QED
      BY <1>1, <3>1, KnownStays
  <2>7. result'.out[1] = Order[p]
    <3> DEFINE l == p - 1
    <3>1. result'.out = List!Elements(l, p)
      BY <2>4 DEF List!Observes, List!Answers, List!Call
    <3>2. p - l = 1 /\ l + 1 = p
      BY <1>1, <2>1 DEF p
    <3>3. List!Elements(l, p) = [i \in 1 .. p - l |-> items[List!SlotAt(l + i)]]
      BY DEF List!Elements
    <3> HIDE DEF l
    <3>4. List!Elements(l, p)[1] = items[List!SlotAt(p)]
      BY <3>2, <3>3
    <3>5. Order[p] = items[List!SlotAt(p)]
      BY <1>1, <2>1, OrderIs
    <3> QED
      BY <3>1, <3>4, <3>5 DEF l
  <2>8. Order' = Order /\ items' = items
    BY <2>5, OrderKept DEF KeepsOrder
  <2>9. /\ promised = Order /\ iterator.seen = SubSeq(promised, 1, p - 1)
        /\ iterator.modified = FALSE
    <3>1. p - 1 = iterator.position
      BY <1>1 DEF p
    <3> QED
      BY <1>4, <3>1 DEF IterInv
  <2>10. Append(iterator.seen, Order[p]) = SubSeq(Order, 1, p)
    <3> DEFINE q == Order
               n == Len(items)
    <3>1. q = [i \in 1 .. n |-> q[i]]
      BY <1>1, OrderIs
    <3>2. n \in Nat /\ p \in 1 .. n /\ iterator.seen = SubSeq(q, 1, p - 1)
      BY <1>1, <2>1, <2>9
    <3> HIDE DEF q, n
    <3>3. Append(iterator.seen, q[p]) = SubSeq(q, 1, p)
      BY <3>1, <3>2, OneMore
    <3> QED
      BY <3>3 DEF q
  <2>11. /\ DOMAIN iterator' = {"modified", "position", "seen"}
         /\ iterator'.modified = iterator.modified /\ iterator'.position = p
         /\ iterator'.seen = Append(iterator.seen, result'.out[1])
    BY <2>2 DEF IterInv
  <2>12. p \in Nat /\ p <= Len(items)
    BY <1>1, <2>1
  <2> QED
    BY <1>2, <2>3, <2>6, <2>7, <2>8, <2>9, <2>10, <2>11, <2>12 DEF IterInv
<1> QED
  BY <1>3, <1>4

\* What happens between two next() is noticed, or does not matter.
LEMMA OtherStep ==
    ASSUME IterInv, Sortable, other
    PROVE  /\ IterInv'
           /\ result'.op \notin {"iterator", "next"} => List!Next
<1>1. Known /\ Collection(items, val)
  BY DEF IterInv, Known, IInv
<1>2. /\ promised' = promised
      /\ DOMAIN iterator' = {"modified", "position", "seen"}
      /\ iterator'.position = iterator.position /\ iterator'.seen = iterator.seen
      /\ iterator'.modified = (iterator.modified \/ modifies(result'))
  BY DEF other, IterInv
<1>3. Next /\ result' # Thrown("add_all")
  BY DEF other
<1>4. Known'
  BY <1>1, <1>3, KnownStays
<1>5. List!Next
  BY <1>1, <1>3, CallPromised
<1>6. ~ modifies(result') => KeepsOrder
  BY <1>1, <1>3, <1>5, UnmodifiedKeepsOrder
<1>7. ~ modifies(result') => Order' = Order /\ items' = items
  BY <1>6, OrderKept DEF KeepsOrder
<1>8. modifies(result') \in BOOLEAN
  BY DEF modifies
<1>9. IterInv'
  BY <1>2, <1>4, <1>7, <1>8 DEF IterInv
<1> QED
  BY <1>5, <1>9

\* Each step of the caller, the iterator's or another, keeps what is known.
LEMMA IterStep ==
    ASSUME IterInv, [IterNext]_allvars, Name \subseteq Ordering
    PROVE  /\ IterInv'
           /\ IterNext => (result'.op \notin {"iterator", "next"} => List!Next)
<1>1. Sortable
  BY SortableAlways DEF IterInv, Known
<1>2. CASE open
  BY <1>2, OpenStep DEF open, Void, Call
<1>3. CASE next
  BY <1>1, <1>3, NextStepOfIterator
<1>4. CASE other
  BY <1>1, <1>4, OtherStep
<1>5. CASE UNCHANGED allvars
  <2>1. UNCHANGED IndexVars /\ UNCHANGED <<iterator, promised>>
    BY <1>5 DEF allvars, IndexVars
  <2>2. Known'
    BY <2>1, KnownStays DEF IterInv
  <2>3. Order' = Order /\ items' = items
    BY <2>1, OrderKept DEF KeepsOrder, IndexVars, ActiveKey
  <2>4. IterInv'
    BY <2>1, <2>2, <2>3 DEF IterInv
  <2> QED
    BY <2>4, <1>2, <1>3, <1>4 DEF IterNext
<1> QED
  BY <1>2, <1>3, <1>4, <1>5 DEF IterNext

\* Nothing is known of an iterator that has returned nothing.
LEMMA IterInitially ==
    ASSUME IterInit
    PROVE  IterInv
<1>1. Known
  BY InitIInv DEF IterInit, Init, Known, Books, Groupings, Orders, Ladders
<1>2. items = << >> /\ promised = << >> /\ Len(items) = 0
  BY DEF IterInit, Init
<1>3. Order = << >>
  <2>1. Collection(items, val)
    BY <1>1 DEF Known, IInv
  <2>2. Order = [i \in 1 .. 0 |-> items[List!SlotAt(i)]]
    BY <1>2, <2>1, OrderIs
  <2>3. Order \in [1 .. 0 -> {}]
    BY <2>2
  <2> QED
    BY <2>3
<1>4. SubSeq(promised, 1, 0) = << >>
  BY <1>2
<1> QED
  BY <1>1, <1>2, <1>3, <1>4 DEF IterInit, IterInv

\* BucketIndex.java's iterators are fail-fast: modCount moves with every change to
\* the elements or to how they are sorted.  It moves often enough: as long as next()
\* does not refuse, what it has returned is the beginning of the order the iterator
\* was made for, whatever other calls sorted, rebalanced or replanned in between.
THEOREM IterationStaysExact ==
    ASSUME Name \subseteq Ordering
    PROVE  IterSpec => []IterationExact
<1>1. IterInit => IterInv
  BY IterInitially
<1>2. IterInv /\ [IterNext]_allvars => IterInv'
  BY IterStep
<1>3. IterInv => IterationExact
  BY DEF IterInv, IterationExact
<1> QED
  BY <1>1, <1>2, <1>3, PTL DEF IterSpec

\* An iterator sorts and rebalances as it goes (next() is a get), and other calls
\* come between.  All of them answer what the list answers.
THEOREM AnswersStayExact ==
    ASSUME Name \subseteq Ordering
    PROVE  IterSpec => AnswersExact
<1>1. IterInit => IterInv
  BY IterInitially
<1>2. IterInv /\ [IterNext]_allvars => IterInv'
  BY IterStep
<1>3. IterInv /\ [IterNext]_allvars
        => [result'.op \notin {"iterator", "next"} => List!Next]_allvars
  BY IterStep
<1> QED
  BY <1>1, <1>2, <1>3, PTL DEF IterSpec, AnswersExact
=============================================================================
