--------------------------- MODULE MCPdataUnwind ---------------------------
(***************************************************************************)
(* Where the prologues of PdataUnwind's runs save registers: in the        *)
(* smallest frame, and so far up that the offset takes two slots.          *)
(***************************************************************************)
EXTENDS PdataUnwind

MCSaved == {"rsi", "r15"} \X {8, 48} \cup {"xmm6", "xmm15"} \X {16, 1048576}

\* With a general register too far up for one slot.
MCSavedFar == MCSaved \cup {<<"rsi", 524288>>}

=============================================================================
