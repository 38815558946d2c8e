------------------------------ MODULE EhTables ------------------------------
(***************************************************************************)
(* The read-only tables a frame handler interprets: what the compiler      *)
(* emits for each function (cxx_function_eh_info) and for each thrown type *)
(* (cxx_throw_info), and the questions the x64 code asks of them.          *)
(*                                                                         *)
(* EH states and unwind-graph edges keep their numbers, -1 being "nothing  *)
(* to unwind".  Try blocks are numbered from 1 in table order (the code    *)
(* counts from 0), so the code's home_block_index -1 is 0 here.  A type    *)
(* descriptor, a throw info and the type it describes are one value.       *)
(***************************************************************************)
EXTENDS Integers, Sequences

CONSTANTS
    Fns,        \* the functions of the image
    Types,      \* the types that are thrown or caught
    Eh,         \* Eh[f] is the cxx_function_eh_info of function f
    ThrowInfo,  \* ThrowInfo[t] is the cxx_throw_info of type t
    NoInfo      \* the null cxx_throw_info pointer

Flag == {"const", "volatile", "unaligned", "reference", "ellipsis"}

\* cxx_catch_handler: the adjectives and the type it names.
CatchHandler == [adjectives : SUBSET Flag, type : Types]

\* cxx_try_block
TryBlock == [try_low : Nat, try_high : Nat, catch_high : Nat,
             handlers : Seq(CatchHandler)]

\* cxx_catchable_type; copies: has a copy_fn and is not a simple type.
CatchableType == [type : Types, by_reference_only : BOOLEAN, copies : BOOLEAN]

----------------------------------------------------------------------------
(* What every function's table looks like to the handlers.                 *)

ASSUME EhAssumption ==
    \A f \in Fns :
        /\ Eh[f].last \in Nat \cup {-1}
        /\ Eh[f].next \in [0..Eh[f].last -> Int]
        /\ \A s \in 0..Eh[f].last : -1 <= Eh[f].next[s] /\ Eh[f].next[s] < s
        /\ Eh[f].cleanup \subseteq 0..Eh[f].last
        /\ Eh[f].try_blocks \in Seq(TryBlock)
        /\ Eh[f].is_noexcept \in BOOLEAN

ASSUME ThrowInfoAssumption ==
    /\ NoInfo \notin Types
    /\ \A t \in Types :
        /\ ThrowInfo[t].attributes \subseteq Flag
        /\ ThrowInfo[t].catchables \in Seq(CatchableType)
        /\ ThrowInfo[t].destroy_exc_obj \in BOOLEAN

----------------------------------------------------------------------------
States(f) == -1..Eh[f].last

Blocks(f) == 1..Len(Eh[f].try_blocks)

Block(f, i) == Eh[f].try_blocks[i]

\* State s of f lies in a catch handler of block i ...
InCatch(f, i, s) == Block(f, i).try_high < s /\ s <= Block(f, i).catch_high

\* ... or in its try statement.
InTry(f, i, s) == Block(f, i).try_low <= s /\ s <= Block(f, i).try_high

\* The downward search for the catch block that owns state s, from block
\* `from`: home is the first block met, or 0 when there is none.
IsHomeBlock(f, s, from, home) ==
    /\ home \in 0..from
    /\ home # 0 => InCatch(f, home, s)
    /\ \A i \in home + 1 .. from : ~InCatch(f, i, s)

\* The state below which the funclet of block `home` owns nothing.
FuncletLow(f, home) == IF home = 0 THEN -1 ELSE Block(f, home).try_low

\* The first state of a handler of block i: the one after the try's own.
HandlerState(f, i) == Block(f, i).try_high + 1

----------------------------------------------------------------------------
(* process_catch_block                                                     *)

\* The catchable types under which handler h may take an exception of type t.
CatchableAs(t, h) ==
    {i \in DOMAIN ThrowInfo[t].catchables :
        LET c == ThrowInfo[t].catchables[i]
        IN  /\ c.type = h.type
            /\ c.by_reference_only => "reference" \in h.adjectives}

Catches(t, h) ==
    \/ "ellipsis" \in h.adjectives
    \/ /\ ThrowInfo[t].attributes \cap {"const", "volatile", "unaligned"}
            \subseteq h.adjectives
       /\ CatchableAs(t, h) # {}

\* Whether taking it runs a copy constructor: the first catchable type met
\* decides, and a reference or an ellipsis copies nothing.
CopiesInto(t, h) ==
    /\ h.adjectives \cap {"ellipsis", "reference"} = {}
    /\ \E i \in CatchableAs(t, h) :
        /\ \A j \in CatchableAs(t, h) : i <= j
        /\ ThrowInfo[t].catchables[i].copies

\* Handler j of block i of f is the first of that block to take type t.
IsFirstHandler(f, i, j, t) ==
    /\ j \in DOMAIN Block(f, i).handlers
    /\ Catches(t, Block(f, i).handlers[j])
    /\ \A m \in 1..j-1 : ~Catches(t, Block(f, i).handlers[m])

BlockCatches(f, i, t) ==
    \E j \in DOMAIN Block(f, i).handlers : Catches(t, Block(f, i).handlers[j])

----------------------------------------------------------------------------
(* What the compiler guarantees of its tables beyond their types.  The     *)
(* handlers rely on it: blocks are sorted so that an inner try precedes    *)
(* the one around it and the blocks inside a handler follow its block, and *)
(* the edges out of a try statement lead through its first state.          *)

\* The states on the unwind chain from s: those of every set that contains s
\* and, with a state, the one its edge leads to.
UnwindChain ==
    [f \in Fns |->
        LET closed == {S \in SUBSET (0..Eh[f].last) :
                        \A r \in S : Eh[f].next[r] \in S \cup {-1}}
        IN  [s \in States(f) |->
                {r \in 0..Eh[f].last : \A S \in closed : s \in S \cup {-1} => r \in S}]]

Chain(f, s) == UnwindChain[f][s]

\* Those that still have a cleanup to run.
Owed(f, s) == Chain(f, s) \cap Eh[f].cleanup

\* The catch block whose handler state s belongs to, 0 for the function body.
HomeBlock(f, s) ==
    CHOOSE h \in 0..Len(Eh[f].try_blocks) :
        IsHomeBlock(f, s, Len(Eh[f].try_blocks), h)

WellFormed(f) ==
    /\ \A i \in Blocks(f) :
        LET b == Block(f, i)
        IN  /\ b.try_low <= b.try_high
            /\ b.try_high < b.catch_high
            /\ b.catch_high <= Eh[f].last
            /\ b.try_low \notin Eh[f].cleanup
            /\ b.try_high + 1 \notin Eh[f].cleanup
            /\ Eh[f].next[b.try_high + 1] = Eh[f].next[b.try_low]
            /\ \A s \in b.try_low + 1 .. b.try_high : b.try_low <= Eh[f].next[s]
            /\ \A s \in b.try_high + 1 .. Eh[f].last : ~InTry(f, i, Eh[f].next[s])
            /\ HomeBlock(f, HandlerState(f, i)) = i
            /\ b.handlers # <<>>
    /\ \A i, j \in Blocks(f) : i < j =>
        LET a == Block(f, i)
            b == Block(f, j)
        IN  \/ a.catch_high < b.try_low                               \* a then b
            \/ b.try_low < a.try_low /\ a.catch_high <= b.try_high    \* a within b
            \/ /\ HandlerState(f, i) < b.try_low                      \* b in a's handler
               /\ b.catch_high <= a.catch_high

ASSUME WellFormedAssumption == \A f \in Fns : WellFormed(f)

\* Tables in which the state before a try statement owes the same cleanups
\* as the state the try statement was entered from.  A compiler is free to
\* emit others: see DestroyedOnce in ThrowX64.
CleanTryEntry(f) ==
    \A i \in Blocks(f) :
        Owed(f, Block(f, i).try_low - 1) = Owed(f, Eh[f].next[Block(f, i).try_low])

=============================================================================
