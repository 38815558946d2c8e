------------------------------ MODULE Fh4Frame ------------------------------
(***************************************************************************)
(* The FH4 frame handler (x64/fh4.cpp) and one activation of a function    *)
(* compiled for it: its primary funclet, with the handlers of its try      *)
(* blocks seen from outside.                                               *)
(*                                                                         *)
(* An FH4 table has the contents of an FH3 one, so EhTables describes it,  *)
(* but its unwind graph is here the bytes the handler reads: a sequence of *)
(* entries of different lengths that can only be read forwards.  An edge   *)
(* is the distance from the start of its entry back to the start of the    *)
(* next entry to visit.  The handler steps over entries to find the one to *)
(* start from, remembers a position on the way, and stops as soon as an    *)
(* edge leads below it.                                                    *)
(*                                                                         *)
(* How an exception reaches the frame, and how its type is found, is the   *)
(* business of the dispatcher: see ThrowX64.  Here exceptions arrive.      *)
(***************************************************************************)
EXTENDS EhTables, Fh4Encoding

CONSTANTS
    Graph,      \* Graph[f]: the image up to the end of the unwind graph of f
    GraphAt,    \* GraphAt[f]: the position its unwind graph begins at
    EntryAt,    \* EntryAt[f][s]: the position of the entry of state s of f; an
                \* edge to -1 leads to EntryAt[f][-1], before the first entry
    Edge,       \* Edge[f][s]: the type of that entry and the offset of its object
    Arriving    \* Arriving[f]: the types of the exceptions that reach f

ASSUME GraphAssumption ==
    \A f \in Fns : Graph[f] \in Seq(Byte) /\ GraphAt[f] \in 3..Len(Graph[f]) - 1

ASSUME EntryAssumption ==
    \A f \in Fns :
        /\ EntryAt[f] \in [States(f) -> 0..Len(Graph[f]) - 1]
        /\ \A r, s \in States(f) : r < s => EntryAt[f][r] < EntryAt[f][s]
        /\ EntryAt[f][-1] = GraphAt[f]

\* What the compiler writes: the number of entries, then the entries.  The
\* number an entry begins with is the distance back to the entry its edge leads
\* to, and its type; a function to call and the offset of its object follow.
NumberOfEntries(f) == Encoded(Eh[f].last + 1)

EdgeNumber(f, s) ==
    Encoded(4 * (EntryAt[f][s] - EntryAt[f][Eh[f].next[s]]) + Edge[f][s].type)

ObjectNumber(f, s) == Encoded(Edge[f][s].object)

EdgeLength(f, s) ==
    Len(EdgeNumber(f, s))
    + (IF Edge[f][s].type = 0 THEN 0 ELSE 4)
    + (IF Edge[f][s].type \in {1, 2} THEN Len(ObjectNumber(f, s)) ELSE 0)

\* Numbers of a table have 32 bits, two of which an edge needs for its type.
ImageLimit == 268435456

ASSUME EncodingAssumption ==
    \A f \in Fns : Eh[f].last # -1 =>
        /\ Len(Graph[f]) <= ImageLimit /\ Eh[f].last + 1 < ImageLimit
        /\ HasAt(Graph[f], GraphAt[f], NumberOfEntries(f))
        /\ EntryAt[f][0] = GraphAt[f] + Len(NumberOfEntries(f))
        /\ \A s \in 0..Eh[f].last :
            /\ Edge[f][s].type \in 0..3
            /\ Edge[f][s].object \in Nat /\ Edge[f][s].object < ImageLimit
            /\ Edge[f][s].type # 0 <=> s \in Eh[f].cleanup
            /\ HasAt(Graph[f], EntryAt[f][s], EdgeNumber(f, s))
            /\ Edge[f][s].type \in {1, 2} =>
                HasAt(Graph[f], EntryAt[f][s] + Len(EdgeNumber(f, s)) + 4, ObjectNumber(f, s))
            /\ s < Eh[f].last => EntryAt[f][s + 1] = EntryAt[f][s] + EdgeLength(f, s)

ASSUME ArrivingAssumption == Arriving \in [Fns -> SUBSET Types]

VARIABLES
    fn,     \* the function
    state,  \* the state its rip is in
    live,   \* the states whose objects are alive
    pc,     \* where control is, see Control
    block,  \* the try block that catches, 0 for none
    cached, \* catch_info.unwind_context while a handler is above the frame
    entered, \* the state an exception finds the frame in
    passed, \* the entries stepped over
    p,      \* the entry about to be read
    last    \* target_edge_last

vars == <<fn, state, live, pc, block, cached, entered, passed, p, last>>
walk == <<entered, passed, p, last>>

\* The function runs, the entry to start from is looked for, the frame is
\* unwound, a handler of it runs, or the exception has gone on to the caller.
Control == {"running", "skipping", "unwinding", "handler", "left"}

----------------------------------------------------------------------------
(* unwind_edge_t                                                           *)

\* The type of an edge: 0 calls nothing, 1 and 2 destroy an object at an offset
\* that follows, 3 calls a function.
EdgeType(f, q) == ReadUnsigned(Graph[f], q) % 4
TargetOffset(f, q) == ReadUnsigned(Graph[f], q) \div 4

\* Mutation: an entry without an object is skipped as if it had one.
AfterEdgeMutant(f, q) ==
    LET destroy_fn == AfterUnsigned(Graph[f], q)
    IN  IF EdgeType(f, q) = 0 THEN destroy_fn ELSE AfterUnsigned(Graph[f], destroy_fn + 4)

\* unwind_edge_t::skip: the position after the entry at q.
AfterEdge(f, q) ==
    LET destroy_fn == AfterUnsigned(Graph[f], q)
    IN  IF EdgeType(f, q) = 0 THEN destroy_fn
        ELSE IF EdgeType(f, q) = 3 THEN destroy_fn + 4
        ELSE AfterUnsigned(Graph[f], destroy_fn + 4)

----------------------------------------------------------------------------
(* The lookups of _frame_handler.                                          *)

\* In state s, block i takes an exception of type t; 0, if none does.
Selects(s, t, i) ==
    LET takes(b) == InTry(fn, b, s) /\ BlockCatches(fn, b, t)
    IN  IF i = 0 THEN \A b \in Blocks(fn) : ~takes(b)
        ELSE takes(i) /\ \A b \in 1..i-1 : ~takes(b)

\* Mutation: the target is one state too far out.
TargetOffByOne(i) == IF i = 0 THEN -1 ELSE Block(fn, i).try_low - 2

\* target_state
Target(i) == IF i = 0 THEN -1 ELSE Block(fn, i).try_low - 1

----------------------------------------------------------------------------
Init ==
    /\ fn \in Fns
    /\ state = -1
    /\ live = {}
    /\ pc = "running"
    /\ block = 0
    /\ cached = -1
    /\ entered = -1
    /\ passed = 0
    /\ p = 0
    /\ last = 0

\* Control enters state s of the function's body.
Enter(s) ==
    /\ pc = "running"
    /\ s \in 0..Eh[fn].last
    /\ Eh[fn].next[s] = state
    /\ HomeBlock(fn, s) = 0
    /\ state' = s
    /\ live' = live \cup (Eh[fn].cleanup \cap {s})
    /\ UNCHANGED <<fn, pc, block, cached, walk>>

\* Control leaves its innermost state in the ordinary way.
Leave ==
    /\ pc = "running"
    /\ state # -1
    /\ state' = Eh[fn].next[state]
    /\ live' = live \ {state}
    /\ UNCHANGED <<fn, pc, block, cached, walk>>

\* Where the dispatcher goes on once the frame handler has returned.
After(i) == IF i = 0 THEN "left" ELSE "handler"

\* The frame handler is called for an exception of type t, the frame being in
\* state s.  It chooses a handler, and goes to the first entry of the graph if
\* there is anything to unwind.  The graph has an entry for every state, so the
\* verify of fh4.cpp:311 holds.
Visit(s, t) ==
    \E b \in 0..Len(Eh[fn].try_blocks) :
        /\ Selects(s, t, b)
        /\ block' = b
        /\ cached' = IF b = 0 THEN cached ELSE Target(b)
        /\ IF Target(b) >= s
           THEN /\ pc' = After(b)
                /\ UNCHANGED walk
           ELSE /\ pc' = "skipping"
                /\ entered' = s
                /\ passed' = 0
                /\ p' = AfterUnsigned(Graph[fn], GraphAt[fn])
                /\ last' = p'
        /\ UNCHANGED <<fn, state, live>>

\* An exception arrives from the body, or from a function it called: no
\* handler of this activation is above the frame, rip tells the state.
Arrive(t) ==
    /\ pc = "running"
    /\ t \in Arriving[fn]
    /\ Visit(state, t)

\* Mutation: the rip of a frame whose handler runs is trusted.
StateOfCatcherMutant == state

\* The state of a frame whose handler another exception leaves.
StateOfCatcher == cached

\* An exception leaves the handler.  The catch frame under it has handed on
\* what was cached, as rip still points into the try block.
ArriveFromHandler(t) ==
    /\ pc = "handler"
    /\ t \in Arriving[fn]
    /\ Visit(StateOfCatcher, t)

\* Mutation: the position is remembered before the step.
PassesTargetMutant(k) == Target(block) + 2 = k

\* After stepping over k + 1 entries, the position is remembered.
PassesTarget(k) == Target(block) + 1 = k

\* The entries before the one of the frame's state are stepped over.
SkipEdge ==
    /\ pc = "skipping" /\ passed # entered
    /\ p' = AfterEdge(fn, p)
    /\ last' = IF PassesTarget(passed) THEN p' ELSE last
    /\ passed' = passed + 1
    /\ UNCHANGED <<fn, state, live, pc, block, cached, entered>>

FindEdge ==
    /\ pc = "skipping" /\ passed = entered
    /\ last' = IF PassesTarget(passed) THEN p ELSE last
    /\ pc' = "unwinding"
    /\ UNCHANGED <<fn, state, live, block, cached, entered, passed, p>>

\* Mutation: the stopping rule is forgotten.
DoneMutant(offset) == FALSE

\* The edge leads below target_edge_last.
Done(offset) == p - last < offset

\* One entry of the unwind graph: its destructor, if any, is called.  An offset
\* is never 0 (EncodingAssumption), so the verify of fh4.cpp:330 holds.
UnwindEdge ==
    /\ pc = "unwinding"
    /\ \E s \in 0..Eh[fn].last :
        /\ EntryAt[fn][s] = p
        /\ LET offset == TargetOffset(fn, p)
           IN  /\ live' = IF EdgeType(fn, p) = 0 THEN live ELSE live \ {s}
               /\ p' = p - offset
               /\ pc' = IF Done(offset) THEN After(block) ELSE pc
    /\ UNCHANGED <<fn, state, block, cached, entered, passed, last>>

\* The handler returns: the function goes on after its try statement.
HandlerReturns ==
    /\ pc = "handler"
    /\ pc' = "running"
    /\ state' = Eh[fn].next[Block(fn, block).try_low]
    /\ block' = 0
    /\ UNCHANGED <<fn, live, cached, walk>>

Next ==
    \/ \E s \in UNION {0..Eh[f].last : f \in Fns} : Enter(s)
    \/ Leave
    \/ \E t \in Types : Arrive(t)
    \/ \E t \in Types : ArriveFromHandler(t)
    \/ SkipEdge
    \/ FindEdge
    \/ UnwindEdge
    \/ HandlerReturns

Spec == Init /\ [][Next]_vars

\* The frame handler runs on the thread that threw; destructors return.
FairSpec == Spec /\ WF_vars(SkipEdge \/ FindEdge \/ UnwindEdge)

----------------------------------------------------------------------------
(* Properties                                                              *)

\* The state has the shape the declarations above give it.
TypeOK ==
    /\ fn \in Fns
    /\ state \in States(fn)
    /\ live \subseteq Eh[fn].cleanup
    /\ pc \in Control
    /\ block \in 0..Len(Eh[fn].try_blocks)
    /\ cached \in States(fn)
    /\ entered \in States(fn)
    /\ passed \in 0..entered + 1
    /\ p \in 0..Len(Graph[fn])
    /\ last \in 0..Len(Graph[fn])

\* Every object is destroyed exactly when the walk over the unwind graph has
\* passed its entry: the positions computed with relative offsets are those of
\* entries on the chain the objects were constructed along, and what is left
\* for the next exception is what the state cached for it owes (fh4.cpp:294-296
\* and 309-363).
LiveIsOwed ==
    /\ pc = "running" => live = Owed(fn, state)
    /\ pc = "skipping" => EntryAt[fn][passed] = p /\ live = Owed(fn, entered)
    /\ pc = "unwinding" =>
            \E s \in 0..Eh[fn].last : EntryAt[fn][s] = p /\ live = Owed(fn, s)
    /\ pc = "handler" => live = Owed(fn, cached)

\* An exception that goes on to the caller leaves no object of the frame behind
\* (x64/README.md:22, "functions which require the destruction of local
\* variables").
NothingLeftBehind == pc = "left" => live = {}

\* The states that control is in, told from the unwind graph alone:
\* of the body, or of what surrounds the try statement whose handler runs.
Around ==
    Chain(fn, IF pc = "handler" THEN Eh[fn].next[Block(fn, block).try_low] ELSE state)

\* An exception of type t gets to the innermost of the try statements around it
\* that accept it, or to none.
TakenByInnermost(t) ==
    LET accepting == {i \in Blocks(fn) :
                        Block(fn, i).try_low \in Around /\ BlockCatches(fn, i, t)}
    IN  IF accepting = {} THEN block' = 0
        ELSE /\ block' \in accepting
             /\ \A i \in accepting : Block(fn, i).try_low <= Block(fn, block').try_low

\* Of the try statements that surround the point an exception comes from, the
\* innermost that accepts it gets it, whether it comes from the body or from a
\* handler: what the cached state and the order of the table must give.
InnermostCatches ==
    [][\A t \in Types : Arrive(t) \/ ArriveFromHandler(t) => TakenByInnermost(t)]_vars

\* Both walks over the unwind graph end.
UnwindingEnds ==
    pc \in {"skipping", "unwinding"} ~> pc \in {"handler", "left"}

=============================================================================
