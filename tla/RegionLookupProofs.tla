------------------------- MODULE RegionLookupProofs -------------------------
(***************************************************************************)
(* Both region lookups are correct for every table and every address.      *)
(***************************************************************************)
EXTENDS RegionLookup, TLAPS

\* The table a lookup reads is sorted; its entries are addresses and states.
LEMMA TableFacts ==
    ASSUME TypeOK
    PROVE  /\ Len(regions) \in Nat
           /\ pc \in Nat
           /\ \A k \in Numbers : regions[k].first_ip \in Nat
           /\ \A k \in Numbers : regions[k].state \in Nat \cup {-1}
           /\ \A k, m \in Numbers : k < m => regions[k].first_ip < regions[m].first_ip
<1>1. IsRegionTable(regions)
  BY RegionsAssumption DEF TypeOK
<1>2. regions \in Seq(EhRegion)
  BY <1>1 DEF IsRegionTable
<1>3. Len(regions) \in Nat /\ DOMAIN regions = Numbers
  BY <1>2 DEF Numbers
<1>4. \A k \in Numbers : regions[k] \in EhRegion
  BY <1>2 DEF Numbers
<1>5. \A k, m \in Numbers : k < m => regions[k].first_ip < regions[m].first_ip
  BY <1>1, <1>3 DEF IsRegionTable
<1> QED
  BY <1>3, <1>4, <1>5, AddressesAssumption DEF TypeOK, EhRegion

\* The distances of an FH4 table are not negative.
LEMMA DistanceFacts ==
    ASSUME TypeOK, NEW k \in Numbers
    PROVE  /\ Distance(k) \in Nat
           /\ k = 1 => Distance(k) = regions[k].first_ip
           /\ k # 1 => /\ k - 1 \in Numbers
                       /\ regions[k - 1].first_ip + Distance(k) = regions[k].first_ip
<1>1. Len(regions) \in Nat /\ k \in Nat /\ k >= 1 /\ k <= Len(regions)
  BY TableFacts DEF Numbers
<1>2. CASE k = 1
  BY <1>1, <1>2, TableFacts DEF Distance
<1>3. CASE k # 1
  <2>1. k - 1 \in Numbers /\ k - 1 < k
    BY <1>1, <1>3 DEF Numbers
  <2> QED
    BY <1>1, <1>3, <2>1, TableFacts DEF Distance
<1> QED
  BY <1>2, <1>3

\* While a loop runs, the region it looks at is one of the table's.
LEMMA ThisFacts ==
    ASSUME TypeOK, NEW h \in Handler, Looking(h)
    PROVE  /\ i \in Nat /\ This \in Numbers /\ This = i + 1
           /\ i # 0 => i \in Numbers
<1>1. Len(regions) \in Nat
  BY TableFacts
<1> QED
  BY <1>1 DEF TypeOK, Looking, This, Numbers

\* What every lookup starts from.
LEMMA Start ==
    ASSUME Init
    PROVE  TypeOK /\ Passed
<1>0. regions \in Regions /\ pc \in Addresses /\ fn_rva = 0 /\ fn_rva \in Nat /\ done = FALSE
  BY DEF Init
<1>1. regions \in Seq(EhRegion)
  BY RegionsAssumption DEF Init, IsRegionTable
<1>2. Len(regions) \in Nat
  BY <1>1
<1>3. handler \in Handler /\ Fits(handler, regions)
  BY DEF Init
<1>4. CASE handler = "FH3"
  <2>1. regions # <<>> /\ regions[1].first_ip = 0
    BY <1>3, <1>4 DEF Fits
  <2>2. Len(regions) # 0
    BY <1>1, <2>1
  <2>3. Len(regions) \in Numbers /\ i = 1 /\ i \in 0..Len(regions)
    BY <1>2, <1>4, <2>2 DEF Init, Numbers
  <2>4. pc \in Nat
    BY AddressesAssumption DEF Init
  <2>5. \A k \in 1..i : regions[k].first_ip <= pc
    BY <2>1, <2>3, <2>4
  <2>6. state \in {regions[k].state : k \in Numbers}
    BY <1>4, <2>3 DEF Init
  <2> QED
    <3>1. TypeOK
      BY <1>0, <1>3, <2>3, <2>6 DEF TypeOK
    <3>2. state = regions[Len(regions)].state
      BY <1>4 DEF Init
    <3> QED
      BY <1>4, <2>3, <2>5, <3>1, <3>2 DEF Passed
<1>5. CASE handler = "FH4"
  <2>1. i = 0 /\ state = -1 /\ i \in 0..Len(regions)
    BY <1>2, <1>5 DEF Init
  <2> QED
    <3>1. TypeOK
      BY <1>0, <1>3, <2>1 DEF TypeOK
    <3>2. \A k \in 1..i : regions[k].first_ip <= pc
      BY <2>1
    <3> QED
      BY <1>0, <1>5, <2>1, <3>1, <3>2 DEF Passed
<1> QED
  BY <1>3, <1>4, <1>5 DEF Handler

\* A step of a lookup stays within the table.
LEMMA TypeStep ==
    ASSUME TypeOK, Passed, [Next]_vars
    PROVE  TypeOK'
<1>0. Len(regions) \in Nat
  BY TableFacts
<1>1. CASE Stop3
  <2>1. This - 1 \in Numbers
    BY <1>1, ThisFacts DEF Stop3, Handler, Looking, Passed
  <2> QED
    BY <1>1, <2>1 DEF Stop3, TypeOK, Numbers
<1>2. CASE Pass3
  <2>1. i + 1 \in 0..Len(regions)
    BY <1>0, <1>2, ThisFacts DEF Pass3, Handler, Numbers
  <2> QED
    BY <1>2, <2>1 DEF Pass3, TypeOK, Numbers
<1>3. CASE Stop4
  <2>1. fn_rva + Distance(This) \in Nat
    BY <1>3, ThisFacts, DistanceFacts DEF Stop4, Handler, TypeOK
  <2> QED
    BY <1>3, <2>1 DEF Stop4, TypeOK, Numbers
<1>4. CASE Pass4
  <2>1. i + 1 \in 0..Len(regions) /\ This \in Numbers
    BY <1>0, <1>4, ThisFacts DEF Pass4, Handler, Numbers
  <2>2. fn_rva + Distance(This) \in Nat
    BY <2>1, DistanceFacts DEF TypeOK
  <2>3. state' = regions[This].state
    BY <1>4, <2>1, TableFacts DEF Pass4, ReadState, StoredState
  <2> QED
    BY <1>4, <2>1, <2>2, <2>3 DEF Pass4, TypeOK, Numbers
<1>5. CASE End
  BY <1>5 DEF End, TypeOK, Numbers
<1>6. CASE UNCHANGED vars
  BY <1>6 DEF vars, TypeOK, Numbers
<1> QED
  BY <1>1, <1>2, <1>3, <1>4, <1>5, <1>6 DEF Next

\* The regions passed stay before the address.
LEMMA PassedStep ==
    ASSUME TypeOK, Passed, [Next]_vars
    PROVE  Passed'
<1>1. CASE Stop3 \/ Stop4 \/ End
  BY <1>1 DEF Stop3, Stop4, End, Passed
<1>2. CASE Pass3
  <2>1. i \in Nat /\ This \in Numbers /\ This = i + 1 /\ i' = i + 1
    BY <1>2, ThisFacts DEF Pass3, Handler
  <2>2. regions[This].first_ip <= pc
    BY <1>2, <2>1, TableFacts DEF Pass3, Beyond
  <2>3. \A k \in 1..i + 1 : k \in 1..i \/ k = This
    BY <2>1
  <2>4. \A k \in 1..i' : regions'[k].first_ip <= pc'
    BY <1>2, <2>1, <2>2, <2>3 DEF Pass3, Passed, Looking
  <2> QED
    BY <1>2, <2>1, <2>4 DEF Pass3, Passed, Looking
<1>3. CASE Pass4
  <2>1. /\ i \in Nat /\ This \in Numbers /\ This = i + 1 /\ i' = This
        /\ handler = "FH4" /\ ~done
    BY <1>3, ThisFacts DEF Pass4, Handler, Looking
  <2>2. fn_rva' = regions[This].first_ip
    <3>1. CASE i = 0
      BY <1>3, <2>1, <3>1, DistanceFacts, TableFacts DEF Pass4, Passed
    <3>2. CASE i # 0
      <4>1. fn_rva = regions[This - 1].first_ip
        BY <2>1, <3>2 DEF Passed
      <4> QED
        BY <1>3, <2>1, <3>2, <4>1, DistanceFacts DEF Pass4
    <3> QED
      BY <3>1, <3>2
  <2>3. regions[This].first_ip <= pc
    BY <1>3, <2>1, <2>2, TableFacts DEF Pass4, Beyond
  <2>4. \A k \in 1..i + 1 : k \in 1..i \/ k = This
    BY <2>1
  <2>5. \A k \in 1..i' : regions'[k].first_ip <= pc'
    BY <1>3, <2>1, <2>3, <2>4 DEF Pass4, Passed
  <2>6. state' = regions[This].state
    BY <1>3, <2>1, TableFacts DEF Pass4, ReadState, StoredState
  <2> QED
    BY <1>3, <2>1, <2>2, <2>5, <2>6 DEF Pass4, Passed
<1>4. CASE UNCHANGED vars
  BY <1>4 DEF vars, Passed
<1> QED
  BY <1>1, <1>2, <1>3, <1>4 DEF Next

\* The step that ends a lookup has found the state.
LEMMA FoundStep ==
    ASSUME TypeOK, Passed, FindsTheState, [Next]_vars
    PROVE  FindsTheState'
<1>1. CASE Stop3
  <2>1. /\ i \in Nat /\ This \in Numbers /\ This = i + 1 /\ i \in Numbers
        /\ i >= 1
    BY <1>1, ThisFacts DEF Stop3, Handler, Looking, Passed
  <2>2. regions[i].first_ip <= pc /\ pc < regions[i + 1].first_ip
    BY <1>1, <2>1 DEF Stop3, Beyond, Passed, Looking
  <2>3. state' = regions[i].state
    BY <1>1, <2>1 DEF Stop3
  <2> QED
    BY <1>1, <2>1, <2>2, <2>3 DEF Stop3, FindsTheState, InRegion, Numbers
<1>2. CASE Stop4
  <2>1. /\ i \in Nat /\ This \in Numbers /\ This = i + 1
        /\ i # 0 => i \in Numbers
        /\ handler = "FH4" /\ ~done
    BY <1>2, ThisFacts DEF Stop4, Handler, Looking
  <2>2. CASE i = 0
    <3>1. pc < regions[1].first_ip /\ 1 \in Numbers
      BY <1>2, <2>1, <2>2, DistanceFacts, TableFacts DEF Stop4, Beyond, Passed
    <3>2. \A k \in Numbers : k = 1 \/ 1 < k
      BY TableFacts DEF Numbers
    <3>3. \A k \in Numbers : pc < regions[k].first_ip
      BY <3>1, <3>2, TableFacts
    <3> QED
      BY <1>2, <2>1, <2>2, <3>3 DEF Stop4, FindsTheState, Passed, Numbers
  <2>3. CASE i # 0
    <3>1. fn_rva = regions[This - 1].first_ip /\ state = regions[i].state
      BY <2>1, <2>3 DEF Passed
    <3>2. pc < regions[i + 1].first_ip
      BY <1>2, <2>1, <2>3, <3>1, DistanceFacts DEF Stop4, Beyond
    <3>3. regions[i].first_ip <= pc
      BY <2>1, <2>3, TableFacts DEF Passed, Numbers
    <3> QED
      BY <1>2, <2>1, <2>3, <3>1, <3>2, <3>3 DEF Stop4, FindsTheState, InRegion, Numbers
  <2> QED
    BY <2>2, <2>3
<1>3. CASE End
  <2>1. Len(regions) \in Nat /\ i = Len(regions) /\ ~done
    BY <1>3, TableFacts DEF End
  <2>2. CASE i = 0
    <3>1. handler = "FH4" /\ state = -1
      BY <2>1, <2>2 DEF TypeOK, Handler, Passed
    <3> QED
      BY <1>3, <2>1, <2>2, <3>1 DEF End, FindsTheState, Numbers
  <2>3. CASE i # 0
    <3>1. i \in Numbers /\ i + 1 \notin Numbers
      BY <2>1, <2>3 DEF Numbers
    <3>2. regions[i].first_ip <= pc
      BY <2>1, <2>3 DEF Passed
    <3>3. state = regions[i].state
      BY <2>1, <2>3 DEF TypeOK, Handler, Passed
    <3> QED
      BY <1>3, <3>1, <3>2, <3>3 DEF End, FindsTheState, InRegion, Numbers
  <2> QED
    BY <2>2, <2>3
<1>4. CASE Pass3 \/ Pass4
  BY <1>4 DEF Pass3, Pass4, Looking, FindsTheState
<1>5. CASE UNCHANGED vars
  BY <1>5 DEF vars, FindsTheState, InRegion, Numbers
<1> QED
  BY <1>1, <1>2, <1>3, <1>4, <1>5 DEF Next

\* The lookups stay within the table and find one of its states or -1.
THEOREM TypeCorrect == Spec => []TypeOK
<1>1. Init => TypeOK /\ Passed
  BY Start
<1>2. TypeOK /\ Passed /\ [Next]_vars => (TypeOK /\ Passed)'
  BY TypeStep, PassedStep
<1> QED
  BY <1>1, <1>2, PTL DEF Spec

\* Whatever both loops have stepped over begins at or below the address, and
\* FH4's running sum is the address that FH3 reads from the table.
THEOREM LoopInvariantHolds == Spec => []Passed
<1>1. Init => TypeOK /\ Passed
  BY Start
<1>2. TypeOK /\ Passed /\ [Next]_vars => (TypeOK /\ Passed)'
  BY TypeStep, PassedStep
<1> QED
  BY <1>1, <1>2, PTL DEF Spec

\* The handlers find the state of the region that an address lies in.
THEOREM LookupIsCorrect == Spec => []FindsTheState
<1>1. Init => TypeOK /\ Passed /\ FindsTheState
  BY Start DEF Init, FindsTheState
<1>2. TypeOK /\ Passed /\ FindsTheState /\ [Next]_vars
        => (TypeOK /\ Passed /\ FindsTheState)'
  BY TypeStep, PassedStep, FoundStep
<1> QED
  BY <1>1, <1>2, PTL DEF Spec

=============================================================================
