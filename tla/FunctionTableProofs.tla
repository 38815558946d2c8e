------------------------ MODULE FunctionTableProofs ------------------------
(***************************************************************************)
(* The binary search of FunctionTable is correct for every table, however  *)
(* long, and every address.                                                *)
(***************************************************************************)
EXTENDS FunctionTable, TLAPS

\* The table a search runs over is sorted, and its entries have addresses.
LEMMA TableFacts ==
    ASSUME TypeOK
    PROVE  /\ Len(functions) \in Nat
           /\ pc_rva \in Int
           /\ \A i \in Entries : Fn(i).begin \in Nat /\ Fn(i).end \in Nat
           /\ \A i \in Entries : Fn(i).begin < Fn(i).end
           /\ \A i, j \in Entries : i < j => Fn(i).end <= Fn(j).begin
<1>1. IsTable(functions)
  BY TablesAssumption DEF TypeOK
<1>2. functions \in Seq(PeFunction)
  BY <1>1 DEF IsTable
<1>3. Len(functions) \in Nat /\ DOMAIN functions = 1..Len(functions)
  BY <1>2
<1>4. \A i \in Entries : i + 1 \in DOMAIN functions
  BY <1>3 DEF Entries
<1>5. \A i \in Entries : Fn(i) \in PeFunction
  <2>1. \A k \in 1..Len(functions) : functions[k] \in PeFunction
    BY <1>2
  <2> QED
    BY <1>3, <1>4, <2>1 DEF Fn
<1>6. \A i, j \in Entries : i < j => i + 1 < j + 1
  BY <1>3 DEF Entries
<1>7. \A i \in Entries : Fn(i).begin < Fn(i).end
  BY <1>1, <1>4 DEF IsTable, Fn
<1>8. \A i, j \in Entries : i < j => Fn(i).end <= Fn(j).begin
  BY <1>1, <1>4, <1>6 DEF IsTable, Fn
<1> QED
  BY <1>3, <1>5, <1>7, <1>8, AddressesAssumption DEF TypeOK, PeFunction

\* The entry looked at lies in the interval, and either half is at most half.
LEMMA MidFacts ==
    ASSUME TypeOK, Probing
    PROVE  /\ Mid \in Entries
           /\ l <= Mid /\ Mid < r
           /\ Mid - l <= (r - l) \div 2
           /\ r - (Mid + 1) <= (r - l) \div 2
<1>1. Len(functions) \in Nat
  BY TableFacts
<1>2. l \in Nat /\ r \in Nat /\ l < r /\ r <= Len(functions)
  BY <1>1 DEF TypeOK, Probing
<1> DEFINE half == (r - l) \div 2
<1>3. half \in Int /\ 0 <= half /\ half < r - l /\ r - l <= 2 * half + 1
  BY <1>2
<1> QED
  BY <1>1, <1>2, <1>3 DEF Mid, Entries

\* The search never leaves the table.
THEOREM TypeCorrect == Spec => []TypeOK
<1>1. Init => TypeOK
  <2> SUFFICES ASSUME Init PROVE TypeOK
    OBVIOUS
  <2>1. functions \in Seq(PeFunction)
    BY TablesAssumption DEF Init, IsTable
  <2>2. Len(functions) \in Nat
    BY <2>1
  <2> QED
    BY <2>2 DEF Init, TypeOK, Phase, Null
<1>2. TypeOK /\ [Next]_vars => TypeOK'
  <2> SUFFICES ASSUME TypeOK, [Next]_vars PROVE TypeOK'
    OBVIOUS
  <2> USE DEF TypeOK, Phase, Null, Entries
  <2>0. Len(functions) \in Nat
    BY TableFacts
  <2>1. CASE Reject
    BY <2>1 DEF Reject
  <2>2. CASE Begin
    BY <2>0, <2>2 DEF Begin
  <2>3. CASE GoDown
    <3>1. Mid \in 0..Len(functions)
      BY <2>0, <2>3, MidFacts DEF GoDown
    <3> QED
      BY <2>3, <3>1 DEF GoDown, LowerHalf
  <2>4. CASE GoUp
    <3>1. Mid + 1 \in 0..Len(functions)
      BY <2>0, <2>4, MidFacts DEF GoUp
    <3> QED
      BY <2>4, <3>1 DEF GoUp, UpperHalf
  <2>5. CASE Hit
    <3>1. Mid \in Entries
      BY <2>5, MidFacts DEF Hit
    <3> QED
      BY <2>5, <3>1 DEF Hit
  <2>6. CASE Miss
    BY <2>6 DEF Miss
  <2>7. CASE UNCHANGED vars
    BY <2>7 DEF vars
  <2> QED
    BY <2>1, <2>2, <2>3, <2>4, <2>5, <2>6, <2>7 DEF Next
<1> QED
  BY <1>1, <1>2, PTL DEF Spec

----------------------------------------------------------------------------
\* What a search knows half-way, and what it has found.
SearchInv == Excluded /\ FindsTheFunction

\* An entry that excludes the address excludes it for all entries on its side.
LEMMA ProbeFacts ==
    ASSUME TypeOK, Probing
    PROVE  /\ pc_rva < Fn(Mid).begin =>
                \A i \in Entries : Mid <= i => pc_rva < Fn(i).begin
           /\ Fn(Mid).end <= pc_rva =>
                \A i \in Entries : i < Mid + 1 => Fn(i).end <= pc_rva
<1>1. Mid \in Entries
  BY MidFacts
<1>2. \A i \in Entries : i \in Int
  BY TableFacts DEF Entries
<1>3. ASSUME pc_rva < Fn(Mid).begin, NEW i \in Entries, Mid <= i
      PROVE  pc_rva < Fn(i).begin
  BY <1>1, <1>2, <1>3, TableFacts
<1>4. ASSUME Fn(Mid).end <= pc_rva, NEW i \in Entries, i < Mid + 1
      PROVE  Fn(i).end <= pc_rva
  BY <1>1, <1>2, <1>4, TableFacts
<1> QED
  BY <1>3, <1>4

\* No two functions of the table cover an address.
LEMMA CoveredOnce ==
    ASSUME TypeOK, NEW i \in Entries, NEW j \in Entries, Covers(i), Covers(j)
    PROVE  i = j
<1>1. i \in Int /\ j \in Int
  BY TableFacts DEF Entries
<1> QED
  BY <1>1, TableFacts DEF Covers

\* A search knows enough before the first step, and after each.
LEMMA SearchInductive ==
    /\ Init => SearchInv
    /\ TypeOK /\ SearchInv /\ [Next]_vars => SearchInv'
<1>1. Init => SearchInv
  BY DEF Init, SearchInv, Excluded, FindsTheFunction
<1>2. TypeOK /\ SearchInv /\ [Next]_vars => SearchInv'
  <2> SUFFICES ASSUME TypeOK, SearchInv, [Next]_vars PROVE SearchInv'
    OBVIOUS
  <2>1. CASE Reject
    BY <2>1 DEF Reject, SearchInv, Excluded, FindsTheFunction
  <2>2. CASE Begin
    <3>1. \A i \in Entries : ~(i < 0) /\ ~(Len(functions) <= i)
      BY TableFacts DEF Entries
    <3> QED
      BY <2>2, <3>1 DEF Begin, SearchInv, Excluded, FindsTheFunction, Entries, Fn
  <2>3. CASE GoDown
    <3>1. \A i \in Entries : Mid <= i => pc_rva < Fn(i).begin
      BY <2>3, ProbeFacts DEF GoDown
    <3> QED
      BY <2>3, <3>1 DEF GoDown, LowerHalf, Probing, SearchInv, Excluded,
                        FindsTheFunction, Entries, Fn
  <2>4. CASE GoUp
    <3>1. \A i \in Entries : i < Mid + 1 => Fn(i).end <= pc_rva
      BY <2>4, ProbeFacts DEF GoUp, Above
    <3> QED
      BY <2>4, <3>1 DEF GoUp, UpperHalf, Probing, SearchInv, Excluded,
                        FindsTheFunction, Entries, Fn
  <2>5. CASE Hit
    <3>1. Mid \in Entries /\ Mid # Null
      BY <2>5, MidFacts, TableFacts DEF Hit, Null, Entries
    <3>2. Covers(Mid)
      BY <2>5, <3>1, TableFacts DEF Hit, Above, Covers
    <3>3. \A i \in Entries \ {Mid} : ~Covers(i)
      BY <3>1, <3>2, CoveredOnce
    <3> QED
      BY <2>5, <3>1, <3>2, <3>3 DEF Hit, SearchInv, Excluded, FindsTheFunction,
                                    Entries, Covers, Fn
  <2>6. CASE Miss
    <3>1. \A i \in Entries : ~Covers(i)
      <4>1. l \in Int /\ r \in Int /\ \A i \in Entries : i \in Int
        BY TableFacts DEF TypeOK, Entries
      <4>2. \A i \in Entries : i < l \/ r <= i
        BY <2>6, <4>1 DEF Miss
      <4> QED
        BY <2>6, <4>2, TableFacts DEF Miss, SearchInv, Excluded, Covers
    <3> QED
      BY <2>6, <3>1 DEF Miss, SearchInv, Excluded, FindsTheFunction, Entries,
                        Covers, Fn
  <2>7. CASE UNCHANGED vars
    BY <2>7 DEF vars, SearchInv, Excluded, FindsTheFunction, Entries, Covers, Fn
  <2> QED
    BY <2>1, <2>2, <2>3, <2>4, <2>5, <2>6, <2>7 DEF Next
<1> QED
  BY <1>1, <1>2

\* The search finds the function that covers the address, if there is one.
THEOREM SearchIsCorrect == Spec => []FindsTheFunction
<1>1. SearchInv => FindsTheFunction
  BY DEF SearchInv
<1> QED
  BY <1>1, SearchInductive, TypeCorrect, PTL DEF Spec

\* At every moment of a search the entries outside the interval are ruled out.
THEOREM SearchExcludes == Spec => []Excluded
<1>1. SearchInv => Excluded
  BY DEF SearchInv
<1> QED
  BY <1>1, SearchInductive, TypeCorrect, PTL DEF Spec

\* Every probe halves the interval, for every table.
THEOREM SearchHalves == Spec => Halves
<1>1. TypeOK /\ [Next]_vars => [GoDown \/ GoUp => r' - l' <= (r - l) \div 2]_vars
  <2> SUFFICES ASSUME TypeOK PROVE GoDown \/ GoUp => r' - l' <= (r - l) \div 2
    OBVIOUS
  <2>1. ASSUME GoDown PROVE r' - l' <= (r - l) \div 2
    BY <2>1, MidFacts DEF GoDown, LowerHalf
  <2>2. ASSUME GoUp PROVE r' - l' <= (r - l) \div 2
    BY <2>2, MidFacts DEF GoUp, UpperHalf
  <2> QED
    BY <2>1, <2>2
<1> QED
  BY <1>1, TypeCorrect, PTL DEF Spec, Halves

=============================================================================
