--------------------------- MODULE MCRegionLookup ---------------------------
(***************************************************************************)
(* Every region table of a small function, for TLC.                        *)
(***************************************************************************)
EXTENDS RegionLookup

CONSTANTS
    CodeSize,   \* the size of the function
    LastState,  \* its highest state
    MaxRegions  \* the length of the longest table

MCAddresses == 0..CodeSize - 1

\* A set of first addresses, in order, each with a state.
MCRegions ==
    LET region == [first_ip : 0..CodeSize - 1, state : -1..LastState]
    IN  {t \in UNION {[1..n -> region] : n \in 0..MaxRegions} :
            \A k \in 1..Len(t) - 1 : t[k].first_ip < t[k + 1].first_ip}

=============================================================================
