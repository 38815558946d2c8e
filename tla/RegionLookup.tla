---------------------------- MODULE RegionLookup ----------------------------
(***************************************************************************)
(* From an instruction to the EH state it is in.  A function's code is cut *)
(* into regions, each in one state; the table says where each begins.  FH3 *)
(* (x64/fh3.cpp) keeps addresses and searches for the first region that    *)
(* begins beyond the instruction; FH4 (x64/fh4.cpp) keeps distances and    *)
(* states plus one, and adds up.                                           *)
(*                                                                         *)
(* Addresses are relative to the start of the function.  Regions are       *)
(* numbered from 0 in the code, from 1 here.                               *)
(***************************************************************************)
EXTENDS Integers, Sequences

CONSTANTS
    Regions,    \* the region tables that functions have
    Addresses   \* the addresses within a function

\* cxx_eh_region
EhRegion == [first_ip : Nat, state : Nat \cup {-1}]

\* Regions are sorted and none is empty.
IsRegionTable(t) ==
    /\ t \in Seq(EhRegion)
    /\ \A i, j \in DOMAIN t : i < j => t[i].first_ip < t[j].first_ip

ASSUME RegionsAssumption == \A t \in Regions : IsRegionTable(t)

ASSUME AddressesAssumption == Addresses \subseteq Nat

VARIABLES
    regions,    \* the table, as the compiler sees it
    pc,         \* the address
    handler,    \* which of the two handlers looks it up
    i,          \* the regions the loop has passed
    fn_rva,     \* FH4: the sum of the distances read
    state,      \* the state found so far
    done        \* the loop has ended

vars == <<regions, pc, handler, i, fn_rva, state, done>>

Handler == {"FH3", "FH4"}

\* FH3 takes the table's first region to begin with the function.
Fits(h, t) == h = "FH3" => t # <<>> /\ t[1].first_ip = 0

\* What an FH4 table holds instead of region k.
Distance(k) == regions[k].first_ip - (IF k = 1 THEN 0 ELSE regions[k - 1].first_ip)
StoredState(k) == regions[k].state + 1

----------------------------------------------------------------------------
Init ==
    /\ regions \in Regions
    /\ pc \in Addresses
    /\ handler \in {h \in Handler : Fits(h, regions)}
    /\ i = IF handler = "FH3" THEN 1 ELSE 0
    /\ fn_rva = 0
    /\ state = IF handler = "FH3" THEN regions[Len(regions)].state ELSE -1
    /\ done = FALSE

Looking(h) == handler = h /\ ~done /\ i # Len(regions)

\* The region the loop looks at.
This == i + 1

\* Mutation: an instruction at the start of a region is left to the one before.
BeyondMutant(ip) == pc <= ip

\* A region that begins at ip begins beyond the instruction.
Beyond(ip) == pc < ip

\* FH3: the region before is the one.
Stop3 ==
    /\ Looking("FH3")
    /\ Beyond(regions[This].first_ip)
    /\ state' = regions[This - 1].state
    /\ done' = TRUE
    /\ UNCHANGED <<regions, pc, handler, i, fn_rva>>

Pass3 ==
    /\ Looking("FH3")
    /\ ~Beyond(regions[This].first_ip)
    /\ i' = i + 1
    /\ UNCHANGED <<regions, pc, handler, fn_rva, state, done>>

\* FH4: the state of the region before has been read.
Stop4 ==
    /\ Looking("FH4")
    /\ fn_rva' = fn_rva + Distance(This)
    /\ Beyond(fn_rva')
    /\ done' = TRUE
    /\ UNCHANGED <<regions, pc, handler, i, state>>

\* Mutation: states are stored as they are.
ReadStateMutant == StoredState(This)

\* The state of a region.
ReadState == StoredState(This) - 1

Pass4 ==
    /\ Looking("FH4")
    /\ fn_rva' = fn_rva + Distance(This)
    /\ ~Beyond(fn_rva')
    /\ state' = ReadState
    /\ i' = i + 1
    /\ UNCHANGED <<regions, pc, handler, done>>

\* The table ends.
End ==
    /\ ~done
    /\ i = Len(regions)
    /\ done' = TRUE
    /\ UNCHANGED <<regions, pc, handler, i, fn_rva, state>>

\* A function without a table of regions (fh4.cpp:125-126) is looked up as one
\* with the empty table.
Next == Stop3 \/ Pass3 \/ Stop4 \/ Pass4 \/ End

Spec == Init /\ [][Next]_vars

----------------------------------------------------------------------------
(* Properties                                                              *)

Numbers == 1..Len(regions)

\* The state has the shape the declarations above give it; the state found is
\* one of the table's or -1, and the loop stays within the table.
TypeOK ==
    /\ regions \in Regions
    /\ pc \in Addresses
    /\ handler \in Handler
    /\ Fits(handler, regions)
    /\ i \in 0..Len(regions)
    /\ fn_rva \in Nat
    /\ state \in {-1} \cup {regions[k].state : k \in Numbers}
    /\ done \in BOOLEAN

\* The address lies in region k.
InRegion(k) ==
    /\ regions[k].first_ip <= pc
    /\ k + 1 \in Numbers => pc < regions[k + 1].first_ip

\* Both handlers find the state of the region the address lies in, and -1 before
\* the first one, although one reads ahead and the other reads behind
\* (fh3.cpp:46-55, fh4.cpp:123-143).
FindsTheState ==
    done => \/ \E k \in Numbers : InRegion(k) /\ state = regions[k].state
            \/ /\ \A k \in Numbers : pc < regions[k].first_ip
               /\ state = -1

\* What is known half-way: the regions passed begin before the address, and
\* state and fn_rva are those of the last one an FH4 loop has passed.
Passed ==
    ~done =>
        /\ \A k \in 1..i : regions[k].first_ip <= pc
        /\ handler = "FH3" => i >= 1 /\ state = regions[Len(regions)].state
        /\ handler = "FH4" =>
              IF i = 0 THEN fn_rva = 0 /\ state = -1
              ELSE fn_rva = regions[i].first_ip /\ state = regions[i].state

=============================================================================
