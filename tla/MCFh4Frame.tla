----------------------------- MODULE MCFh4Frame -----------------------------
(***************************************************************************)
(* FH4 tables of small functions, for TLC.                                 *)
(***************************************************************************)
EXTENDS Fh4Frame, TLC

Ref(t) == [adjectives |-> {"reference"}, type |-> t]
Try(low, high, catch_high, handlers) ==
    [try_low |-> low, try_high |-> high, catch_high |-> catch_high, handlers |-> handlers]

\* Two unrelated types.
MCThrowInfo ==
    [t \in Types |->
        [attributes |-> {}, destroy_exc_obj |-> TRUE,
         catchables |-> <<[type |-> t, by_reference_only |-> FALSE, copies |-> FALSE]>>]]

\* void guarded() {
\*   try {                              // state 0
\*     Obj a;                           // state 1
\*     { Obj b; }                       // state 2
\*     Obj c;                           // state 3
\*     try {                            // state 4
\*       Obj d;                         // state 5
\*       try { Obj e; }                 // states 6, 7
\*       catch (B &) { }                // state 8
\*     } catch (A &) { }                // state 9
\*   } catch (B &) { }                  // state 10
\* }
Guarded ==
    [last |-> 10,
     next |-> [s \in 0..10 |-> CASE s \in {0, 10} -> -1
                                 [] s = 1 -> 0
                                 [] s \in {2, 3} -> 1
                                 [] s \in {4, 9} -> 3
                                 [] s = 5 -> 4
                                 [] s \in {6, 8} -> 5
                                 [] s = 7 -> 6],
     cleanup |-> {1, 2, 3, 5, 7},
     try_blocks |-> <<Try(6, 7, 8, <<Ref("B")>>),
                      Try(4, 8, 9, <<Ref("A")>>),
                      Try(0, 9, 10, <<Ref("B")>>)>>,
     is_noexcept |-> FALSE]

\* void twice() {
\*   try { Obj a; try { Obj b; } catch (A &) { } Obj c; }   // 0, 1, 2, 3, 4, 5
\*   catch (A &) { }                                        // 6
\*   try { Obj d; } catch (B &) { }                         // 7, 8, 9
\* }
Twice ==
    [last |-> 9,
     next |-> [s \in 0..9 |-> CASE s \in {0, 6, 7, 9} -> -1
                                [] s = 1 -> 0
                                [] s \in {2, 4, 5} -> 1
                                [] s = 3 -> 2
                                [] s = 8 -> 7],
     cleanup |-> {1, 3, 5, 8},
     try_blocks |-> <<Try(2, 3, 4, <<Ref("A")>>),
                      Try(0, 5, 6, <<Ref("A")>>),
                      Try(7, 8, 9, <<Ref("B")>>)>>,
     is_noexcept |-> FALSE]

\* void plain() { Obj a; Obj b; }       // states 0, 1
Plain ==
    [last |-> 1, next |-> [s \in 0..1 |-> s - 1], cleanup |-> {0, 1},
     try_blocks |-> <<>>, is_noexcept |-> FALSE]

MCEh == [f \in Fns |-> CASE f = "guarded" -> Guarded [] f = "twice" -> Twice
                         [] f = "plain" -> Plain]

\* The bytes of a function's unwind graph: their number, then the entries.  An
\* edge to -1 leads to where the graph begins.  Other bytes precede it.
Before == <<171, 205, 239>>
ObjectOffset == 200

\* An object's entry has each of the three types that destroy something.
Type(f, s) == IF s \in Eh[f].cleanup THEN (s % 3) + 1 ELSE 0

MCImage ==
    [f \in Fns |->
        LET edge(s, offset) ==
                Encoded(4 * offset + Type(f, s))
                \o (IF Type(f, s) = 0 THEN <<>> ELSE <<1, 2, 3, 4>>)
                \o (IF Type(f, s) \in {1, 2} THEN Encoded(ObjectOffset) ELSE <<>>)
            with(image, s) ==
                LET here == Len(image.bytes)
                IN  [bytes |-> image.bytes \o edge(s, here - image.at[Eh[f].next[s]]),
                     at |-> (s :> here) @@ image.at]
            images[s \in States(f)] ==
                IF s = -1
                THEN [bytes |-> Before \o Encoded(Eh[f].last + 1), at |-> (-1 :> Len(Before))]
                ELSE CHOOSE image \in {with(before, s) : before \in {images[s - 1]}} : TRUE
        IN  images[Eh[f].last]]

MCGraph == [f \in Fns |-> MCImage[f].bytes]
MCEntryAt == [f \in Fns |-> MCImage[f].at]
MCGraphAt == [f \in Fns |-> Len(Before)]

MCEdge ==
    [f \in Fns |-> [s \in 0..Eh[f].last |-> [type |-> Type(f, s), object |-> ObjectOffset]]]

MCArriving == [f \in Fns |-> Types]

ASSUME \A f \in Fns : CleanTryEntry(f)

=============================================================================
