------------------------------ MODULE Programs ------------------------------
(***************************************************************************)
(* Small programs for TLC, for the x64 and the x86 runtime: the tables the *)
(* compiler emits for the functions in the comments.                       *)
(***************************************************************************)
EXTENDS EhTables

Ref(t) == [adjectives |-> {"reference"}, type |-> t]
Value(t) == [adjectives |-> {}, type |-> t]
Ellipsis == [adjectives |-> {"ellipsis"}, type |-> "A"]

Try(low, high, catch_high, handlers) ==
    [try_low |-> low, try_high |-> high, catch_high |-> catch_high, handlers |-> handlers]

As(t, copies) == [type |-> t, by_reference_only |-> FALSE, copies |-> copies]

\* A has a destructor and a copy constructor; B has neither, and A for a base.
MCThrowInfo ==
    [t \in Types |->
        IF t = "A"
        THEN [attributes |-> {}, catchables |-> <<As("A", TRUE)>>, destroy_exc_obj |-> TRUE]
        ELSE [attributes |-> {}, catchables |-> <<As("B", FALSE), As("A", FALSE)>>,
              destroy_exc_obj |-> FALSE]]

\* void nested() {
\*   try {                              // state 0
\*     Obj a;                           // state 1
\*     try {                            // state 2
\*       Obj b;                         // state 3
\*     } catch (A &) {                  // state 4
\*       Obj c;                         // state 5
\*       try { }                        // state 6
\*       catch (...) { }                // state 7
\*     }
\*   } catch (A &) { }                  // state 8
\* }
Nested ==
    [last |-> 8,
     next |-> [s \in 0..8 |-> CASE s \in {0, 8} -> -1
                                [] s = 1 -> 0
                                [] s \in {2, 4} -> 1
                                [] s = 3 -> 2
                                [] s = 5 -> 4
                                [] s \in {6, 7} -> 5],
     cleanup |-> {1, 3, 5},
     try_blocks |-> <<Try(2, 3, 7, <<Ref("A")>>),
                      Try(6, 6, 7, <<Ellipsis>>),
                      Try(0, 7, 8, <<Ref("A")>>)>>,
     is_noexcept |-> FALSE]

\* void quiet() noexcept {
\*   try { }                            // state 0
\*   catch (A x) { }                    // state 1
\* }
Quiet ==
    [last |-> 1, next |-> [s \in 0..1 |-> -1], cleanup |-> {},
     try_blocks |-> <<Try(0, 0, 1, <<Value("A")>>)>>, is_noexcept |-> TRUE]

\* void loud() { }
Loud ==
    [last |-> -1, next |-> [s \in {} |-> -1], cleanup |-> {}, try_blocks |-> <<>>,
     is_noexcept |-> FALSE]

\* void retry() {
\*   try { }                            // state 0
\*   catch (...) { }                    // state 1
\* }
Retry ==
    [last |-> 1, next |-> [s \in 0..1 |-> -1], cleanup |-> {},
     try_blocks |-> <<Try(0, 0, 1, <<Ellipsis>>)>>, is_noexcept |-> FALSE]

\* void siblings() {
\*   { Obj a; }                         // state 0
\*   try { }                            // state 1
\*   catch (...) { }                    // state 2
\* }
Siblings ==
    [last |-> 2, next |-> [s \in 0..2 |-> -1], cleanup |-> {0},
     try_blocks |-> <<Try(1, 1, 2, <<Ellipsis>>)>>, is_noexcept |-> FALSE]

\* void classify() {
\*   try { }                            // state 0
\*   catch (A &) { }                    // state 1
\* }
Classify ==
    [last |-> 1, next |-> [s \in 0..1 |-> -1], cleanup |-> {},
     try_blocks |-> <<Try(0, 0, 1, <<Ref("A")>>)>>, is_noexcept |-> FALSE]

\* The same, but the handler is for B.
Filter == [Classify EXCEPT !.try_blocks = <<Try(0, 0, 1, <<Ref("B")>>)>>]

\* void twice() {
\*   try { }                            // state 0
\*   catch (A &) {                      // state 1
\*     try { }                          // state 2
\*     catch (...) { }                  // state 3
\*   }
\* }
Twice ==
    [last |-> 3, next |-> [s \in 0..3 |-> IF s \in {0, 1} THEN -1 ELSE 1], cleanup |-> {},
     try_blocks |-> <<Try(0, 0, 3, <<Ref("A")>>), Try(2, 2, 3, <<Ellipsis>>)>>,
     is_noexcept |-> FALSE]

\* void two() {
\*   try { }                            // state 0
\*   catch (A &) { }                    // state 1
\*   try { }                            // state 2
\*   catch (A &) {                      // state 3
\*     try { }                          // state 4
\*     catch (A &) { }                  // state 5
\*   }
\* }
Two ==
    [last |-> 5,
     next |-> [s \in 0..5 |-> IF s \in {4, 5} THEN 3 ELSE -1],
     cleanup |-> {},
     try_blocks |-> <<Try(0, 0, 1, <<Ref("A")>>), Try(2, 2, 5, <<Ref("A")>>),
                      Try(4, 4, 5, <<Ref("A")>>)>>,
     is_noexcept |-> FALSE]

MCEh == [f \in Fns |-> CASE f = "nested" -> Nested
                         [] f \in {"quiet", "silent"} -> Quiet
                         [] f \in {"loud", "declared", "corrupt"} -> Loud
                         [] f \in {"retry", "again"} -> Retry [] f = "siblings" -> Siblings
                         [] f = "classify" -> Classify [] f = "filter" -> Filter
                         [] f = "twice" -> Twice
                         [] f = "two" -> Two]

=============================================================================
