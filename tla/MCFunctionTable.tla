-------------------------- MODULE MCFunctionTable --------------------------
(***************************************************************************)
(* Every function table of a small image, for TLC.                         *)
(***************************************************************************)
EXTENDS FunctionTable

CONSTANT MaxFunctions   \* the length of the longest table

MCAddresses == -1..ImageSize + 1

MCTables ==
    LET function == {fn \in [begin : 0..ImageSize - 1, end : 1..ImageSize] :
                        fn.begin < fn.end}
    IN  {t \in UNION {[1..n -> function] : n \in 0..MaxFunctions} :
            \A i \in 1..Len(t) - 1 : t[i].end <= t[i + 1].begin}

=============================================================================
