--------------------------- MODULE FunctionTable ---------------------------
(***************************************************************************)
(* find_function_entry (x64/unwind_handler.cpp): the binary search for the *)
(* function that an address lies in, in the image's table of functions.    *)
(*                                                                         *)
(* Addresses are relative to the image base.  A function covers the        *)
(* addresses from its begin up to, not including, its end; addresses       *)
(* between functions belong to leaf functions, which have no entry.  The   *)
(* code counts entries from 0, so its entry i is functions[i + 1].         *)
(***************************************************************************)
EXTENDS Integers, Sequences

CONSTANTS
    Tables,     \* the function tables an image may have
    Addresses,  \* the addresses that are looked up
    ImageSize   \* _image_size

\* pe_function, without its unwind information
PeFunction == [begin : Nat, end : Nat]

\* The linker sorts the table, and functions do not overlap.
IsTable(t) ==
    /\ t \in Seq(PeFunction)
    /\ \A i \in DOMAIN t : t[i].begin < t[i].end
    /\ \A i, j \in DOMAIN t : i < j => t[i].end <= t[j].begin

ASSUME TablesAssumption == \A t \in Tables : IsTable(t)

ASSUME AddressesAssumption == Addresses \subseteq Int /\ ImageSize \in Nat

VARIABLES
    functions,  \* _functions
    pc_rva,     \* the address
    l, r,       \* the entries still to be searched: l, ..., r - 1
    phase,      \* where the search is, see Phase
    answer      \* the entry returned, Null for none

vars == <<functions, pc_rva, l, r, phase, answer>>

Null == -1

Phase == {"called", "searching", "returned", "bugcheck"}

\* Entry i of the table.
Fn(i) == functions[i + 1]

Covers(i) == Fn(i).begin <= pc_rva /\ pc_rva < Fn(i).end

Entries == 0..Len(functions) - 1

----------------------------------------------------------------------------
Init ==
    /\ functions \in Tables
    /\ pc_rva \in Addresses
    /\ l = 0
    /\ r = 0
    /\ phase = "called"
    /\ answer = Null

\* contains_address
ContainsAddress == 0 <= pc_rva /\ pc_rva < ImageSize

\* Addresses of other modules fail the verify at the entry.
Reject ==
    /\ phase = "called"
    /\ ~ContainsAddress
    /\ phase' = "bugcheck"
    /\ UNCHANGED <<functions, pc_rva, l, r, answer>>

Begin ==
    /\ phase = "called"
    /\ ContainsAddress
    /\ l' = 0
    /\ r' = Len(functions)
    /\ phase' = "searching"
    /\ UNCHANGED <<functions, pc_rva, answer>>

\* The entry looked at next.
Mid == l + (r - l) \div 2

Probing == phase = "searching" /\ l < r

\* Mutation: the bound of a search over closed intervals.
LowerHalfMutant == Mid - 1

\* The new upper bound when the address lies below entry Mid.
LowerHalf == Mid

GoDown ==
    /\ Probing
    /\ pc_rva < Fn(Mid).begin
    /\ r' = LowerHalf
    /\ UNCHANGED <<functions, pc_rva, l, phase, answer>>

\* Mutation: the last address is taken for the end.
AboveMutant(i) == Fn(i).end - 1 <= pc_rva

\* The address lies above entry i.
Above(i) == Fn(i).end <= pc_rva

\* Mutation: the entry looked at is kept.
UpperHalfMutant == Mid

\* The new lower bound when the address lies above entry Mid.
UpperHalf == Mid + 1

GoUp ==
    /\ Probing
    /\ Fn(Mid).begin <= pc_rva
    /\ Above(Mid)
    /\ l' = UpperHalf
    /\ UNCHANGED <<functions, pc_rva, r, phase, answer>>

Hit ==
    /\ Probing
    /\ Fn(Mid).begin <= pc_rva
    /\ ~Above(Mid)
    /\ answer' = Mid
    /\ phase' = "returned"
    /\ UNCHANGED <<functions, pc_rva, l, r>>

Miss ==
    /\ phase = "searching"
    /\ l >= r
    /\ answer' = Null
    /\ phase' = "returned"
    /\ UNCHANGED <<functions, pc_rva, l, r>>

Next == Reject \/ Begin \/ GoDown \/ GoUp \/ Hit \/ Miss

Spec == Init /\ [][Next]_vars

----------------------------------------------------------------------------
(* Properties                                                              *)

\* The state has the shape the declarations above give it; in particular no
\* entry outside the table is looked at.
TypeOK ==
    /\ functions \in Tables
    /\ pc_rva \in Addresses
    /\ l \in 0..Len(functions)
    /\ r \in 0..Len(functions)
    /\ phase \in Phase
    /\ answer \in Entries \cup {Null}

\* The search returns the entry whose function covers the address, and null
\* only if the address is in no function of the table: frames of functions with
\* a handler are never mistaken for leaf functions (unwind_handler.cpp:74-95).
FindsTheFunction ==
    phase = "returned" =>
        IF answer = Null THEN \A i \in Entries : ~Covers(i)
        ELSE /\ Covers(answer)
             /\ \A i \in Entries \ {answer} : ~Covers(i)

\* Every entry looked at halves what is left to search, so the search ends, and
\* after a number of steps that is logarithmic in the table: it runs once for
\* every frame of every dispatch and every probe (throw.cpp:124).
Halves ==
    [][GoDown \/ GoUp => r' - l' <= (r - l) \div 2]_vars

\* What is known half-way: the entries outside the interval are ruled out.
Excluded ==
    phase = "searching" =>
        /\ \A i \in Entries : i < l => Fn(i).end <= pc_rva
        /\ \A i \in Entries : r <= i => pc_rva < Fn(i).begin

=============================================================================
