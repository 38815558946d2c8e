--------------------------- MODULE ThrowX64Proofs ---------------------------
(***************************************************************************)
(* Theorems about ThrowX64, for every program and every depth of stack:    *)
(* the shape of the stack, then who owns the exceptions, then what the     *)
(* dispatcher caches about an activation and which objects it destroys,    *)
(* then which exception a frame is about, and last that the runtime        *)
(* implements ExceptionLifetime.                                           *)
(***************************************************************************)
EXTENDS ThrowX64, EhTablesProofs, SequenceTheorems

----------------------------------------------------------------------------
(***************************************************************************)
(* The shape of the stack.                                                 *)
(***************************************************************************)

Inv == TypeOK /\ StackShape

----------------------------------------------------------------------------
(* The values a slot can hold, by kind.                                    *)

\* A code frame is nothing else, and has the fields of one.
LEMMA CodeFrameType ==
    ASSUME TypeOK, NEW k \in Slot, IsCode(k)
    PROVE  /\ frame[k] \in CodeFrame
           /\ frame[k] # Free
           /\ ~IsRuntime(k)
BY DEF TypeOK, IsCode, IsRuntime, Frame, Free, CodeFrame, RuntimeFrame

\* A runtime frame is nothing else, and has the fields of one.
LEMMA RuntimeFrameType ==
    ASSUME TypeOK, NEW k \in Slot, IsRuntime(k)
    PROVE  /\ frame[k] \in RuntimeFrame
           /\ frame[k] # Free
           /\ ~IsCode(k)
BY DEF TypeOK, IsCode, IsRuntime, Frame, Free, CodeFrame, RuntimeFrame

\* A slot is free, or holds a code frame, or a runtime frame.
LEMMA FreeFrameType ==
    ASSUME TypeOK, NEW k \in Slot
    PROVE  /\ frame[k] = Free \/ IsCode(k) \/ IsRuntime(k)
           /\ frame[k] = Free => ~IsCode(k) /\ ~IsRuntime(k)
BY DEF TypeOK, IsCode, IsRuntime, Frame, Free, CodeFrame, RuntimeFrame

----------------------------------------------------------------------------
(* The tables.                                                             *)

\* The states a try block names are states of its function.
LEMMA BlockType ==
    ASSUME NEW f \in Fns, NEW i \in Blocks(f)
    PROVE  /\ Block(f, i) \in TryBlock
           /\ Block(f, i).try_low \in 0..Eh[f].last
           /\ HandlerState(f, i) \in States(f)
           /\ Block(f, i).try_low - 1 \in States(f)
           /\ Eh[f].next[Block(f, i).try_low] \in States(f)
<1>1. Block(f, i) \in TryBlock
  BY EhAssumption DEF Blocks, Block
<1>2. /\ Block(f, i).try_low <= Block(f, i).try_high
      /\ Block(f, i).try_high < Block(f, i).catch_high
      /\ Block(f, i).catch_high <= Eh[f].last
  BY WellFormedAssumption DEF WellFormed
<1>3. Eh[f].last \in Nat \cup {-1}
  BY EhAssumption
<1>4. Block(f, i).try_low \in 0..Eh[f].last
  BY <1>1, <1>2, <1>3 DEF TryBlock
<1>5. Eh[f].next[Block(f, i).try_low] \in States(f)
  BY <1>3, <1>4, EhAssumption DEF States
<1> QED
  BY <1>1, <1>2, <1>3, <1>4, <1>5 DEF TryBlock, HandlerState, States

\* Edges of the unwind graph lead to lower states of the same function.
LEMMA EdgeType ==
    ASSUME NEW f \in Fns, NEW s \in States(f), s # -1
    PROVE  /\ s \in 0..Eh[f].last
           /\ Eh[f].next[s] \in States(f)
           /\ Eh[f].next[s] < s
BY EhAssumption DEF States

\* Numbers of states and of try blocks are integers.
LEMMA BlocksType ==
    ASSUME NEW f \in Fns
    PROVE  /\ Len(Eh[f].try_blocks) \in Nat
           /\ Blocks(f) \subseteq Nat \ {0}
           /\ -1 \in States(f)
           /\ States(f) \subseteq Int
BY EhAssumption DEF Blocks, States

----------------------------------------------------------------------------
\* The oldest frame alone is a well-shaped stack.
THEOREM InitInv == Init => Inv
<1> SUFFICES ASSUME Init PROVE Inv
  OBVIOUS
<1> USE DEF Init
<1>1. 1 \in Slot /\ Main \in Fns
  BY ProgramAssumption DEF Slot
<1>2. TypeOK
  <2>1. [kind |-> "code", fn |-> Main, block |-> 0, state |-> -1, primary |-> 1] \in Frame
    BY <1>1 DEF Frame, CodeFrame
  <2>2. Free \in Frame
    BY DEF Frame
  <2>3. frame \in [Slot -> Frame]
    BY <2>1, <2>2
  <2> QED
    BY <1>1, <2>3 DEF TypeOK
<1>3. \A k \in Slot : ~IsRuntime(k) /\ (IsCode(k) => k = 1)
  BY DEF IsRuntime, IsCode, Free
<1>4. CodeShape(1)
  BY <1>1, BlocksType DEF CodeShape
<1>5. frame[top] # Free /\ \A k \in Slot : k > top => frame[k] = Free
  BY <1>1 DEF Free, Slot
<1> QED
  BY <1>2, <1>3, <1>4, <1>5 DEF Inv, StackShape


----------------------------------------------------------------------------
(* Steps change the stack at its top only, or from some slot n upwards.    *)

\* The newest frame is a code frame or a runtime frame of the right shape.
LEMMA TopType ==
    ASSUME Inv
    PROVE  /\ top \in Slot
           /\ MaxDepth \in Nat
           /\ IsCode(top) \/ IsRuntime(top)
           /\ IsCode(top) => CodeShape(top) /\ T \in CodeFrame
           /\ IsRuntime(top) => RuntimeShape(top) /\ T \in RuntimeFrame
BY ProgramAssumption, FreeFrameType, CodeFrameType, RuntimeFrameType
   DEF Inv, TypeOK, StackShape, T

\* What stands below the first changed slot keeps its shape: nothing refers
\* upwards.
LEMMA KeptBelow ==
    ASSUME Inv, NEW n \in Int, \A q \in Slot : q < n => frame'[q] = frame[q],
           NEW k \in Slot, k < n
    PROVE  /\ IsCode(k)' => CodeShape(k)'
           /\ IsRuntime(k)' => RuntimeShape(k)'
<1>1. frame'[k] = frame[k] /\ k \in Nat /\ k >= 1 /\ MaxDepth \in Nat
  BY ProgramAssumption DEF Slot
<1>2. ASSUME IsCode(k)' PROVE CodeShape(k)'
  <2>1. IsCode(k) /\ CodeShape(k)
    BY <1>1, <1>2 DEF IsCode, Inv, StackShape
  <2>2. k > 1 => k - 1 \in Slot /\ frame'[k - 1] = frame[k - 1]
    BY <1>1 DEF Slot
  <2> QED
    BY <1>1, <2>1, <2>2 DEF CodeShape, Free
<1>3. ASSUME IsRuntime(k)' PROVE RuntimeShape(k)'
  <2>1. IsRuntime(k) /\ RuntimeShape(k)
    BY <1>1, <1>3 DEF IsRuntime, Inv, StackShape
  <2>2. frame[k] \in RuntimeFrame
    BY <2>1, RuntimeFrameType DEF Inv
  <2> DEFINE m == frame[k].mach
  <2>3. m \in 0..MaxDepth /\ m < k
    BY <2>1, <2>2 DEF RuntimeShape, RuntimeFrame
  <2>4. m >= 1 => m \in Slot /\ frame'[m] = frame[m]
    BY <1>1, <2>3 DEF Slot
  <2>5. \A q \in Slot : m < q /\ q < k => frame'[q] = Free
    BY <1>1, <2>1 DEF RuntimeShape, Slot, Free
  <2>6. frame[k].kind = "throw" => ThrowShape(k)'
    <3>1. SUFFICES ASSUME frame[k].kind = "throw" PROVE ThrowShape(k)'
      OBVIOUS
    <3>2. ThrowShape(k)
      BY <2>1, <3>1 DEF RuntimeShape
    <3>3. CASE m >= 1
      BY <1>1, <2>4, <3>2, <3>3 DEF ThrowShape, CachedFor, IsCode, IsFresh, Free
    <3>4. CASE ~(m >= 1)
      BY <1>1, <3>2, <3>4 DEF ThrowShape, Free
    <3> QED
      BY <3>3, <3>4
  <2>7. frame[k].kind # "throw" => CatchShape(k)'
    BY <1>1, <2>1, <2>4 DEF RuntimeShape, CatchShape, CachedFor, IsCode
  <2> QED
    BY <1>1, <2>3, <2>5, <2>6, <2>7 DEF RuntimeShape
<1> QED
  BY <1>2, <1>3

----------------------------------------------------------------------------
(* The steps of user code.                                                 *)

\* A frame pushed on the newest one.
LEMMA PushInv ==
    ASSUME Inv, NEW n \in Slot, n = top + 1,
           NEW x \in CodeFrame \cup RuntimeFrame,
           frame' = [frame EXCEPT ![n] = x], top' = n,
           IsCode(n)' => CodeShape(n)', IsRuntime(n)' => RuntimeShape(n)',
           exc' \in [Slot -> Types \cup {NoInfo}], objects' = objects,
           halted' \in BOOLEAN
    PROVE  Inv'
<1>1. top \in Slot /\ MaxDepth \in Nat
  BY TopType
<1>2. x \in Frame /\ x # Free
  BY DEF Frame, Free, CodeFrame, RuntimeFrame
<1>3. TypeOK'
  BY <1>1, <1>2 DEF Inv, TypeOK
<1>4. frame'[n] = x /\ \A q \in Slot : q # n => frame'[q] = frame[q]
  BY DEF Inv, TypeOK
<1>5. \A q \in Slot : q > n => frame'[q] = Free /\ ~IsCode(q)' /\ ~IsRuntime(q)'
  BY <1>1, <1>4 DEF Inv, StackShape, Slot, Free, IsCode, IsRuntime
<1>6. ASSUME NEW k \in Slot
      PROVE  (IsCode(k)' => CodeShape(k)') /\ (IsRuntime(k)' => RuntimeShape(k)')
  <2>1. CASE k < n
    <3>1. \A q \in Slot : q < n => frame'[q] = frame[q]
      BY <1>4 DEF Slot
    <3> QED
      BY <2>1, <3>1, KeptBelow DEF Slot
  <2>2. CASE k = n
    BY <2>2
  <2>3. CASE k > n
    BY <1>5, <2>3
  <2> QED
    BY <2>1, <2>2, <2>3 DEF Slot
<1>7. StackShape'
  BY <1>2, <1>4, <1>5, <1>6 DEF StackShape, Free
<1> QED
  BY <1>3, <1>7 DEF Inv

\* A call pushes the primary funclet of the function called.
LEMMA CallInv == ASSUME Inv, NEW f \in Fns, Call(f) PROVE Inv'
<1>1. PICK n \in Slot : n = top + 1
  BY TopType DEF Call, Slot
<1> DEFINE x == [kind |-> "code", fn |-> f, block |-> 0, state |-> -1, primary |-> n]
<1>2. x \in CodeFrame
  BY DEF CodeFrame
<1>3. frame' = [frame EXCEPT ![n] = x] /\ top' = n
  BY <1>1 DEF Call
<1>4. top \in Slot /\ frame'[n] = x /\ frame'[top] = frame[top]
  BY <1>1, <1>3, TopType DEF Inv, TypeOK, Slot
<1>5. CodeShape(n)' /\ ~IsRuntime(n)'
  <2>1. frame[top] # Free
    BY DEF Inv, StackShape
  <2>2. -1 \in States(f) /\ 0 \in 0..Len(Eh[f].try_blocks)
    BY BlocksType
  <2>3. frame'[n - 1] = frame[top]
    BY <1>1, <1>4 DEF Slot
  <2> QED
    BY <1>4, <2>1, <2>2, <2>3 DEF CodeShape, IsRuntime, Free
<1>6. exc' \in [Slot -> Types \cup {NoInfo}] /\ objects' = objects /\ halted' \in BOOLEAN
  BY DEF Call, Inv, TypeOK
<1> HIDE DEF x
<1> QED
  BY <1>1, <1>2, <1>3, <1>5, <1>6, PushInv

\* _CxxThrowException pushes a dispatch that has not visited any frame.
LEMMA PushThrowInv ==
    ASSUME Inv, Running, NEW obj \in ObjOrLink, NEW info \in Types \cup {NoInfo},
           PushThrowFrame(obj, info), exc' \in [Slot -> Types \cup {NoInfo}]
    PROVE  Inv'
<1>1. PICK n \in Slot : n = top + 1 /\ n < MaxDepth /\ MaxDepth \in Nat
  BY TopType DEF PushThrowFrame, Slot
<1> DEFINE x == [kind |-> "throw", mach |-> top, pc |-> "visit",
                 ci |-> [exception_object_or_link |-> obj,
                         throw_info_if_owner |-> info,
                         primary_frame_ptr |-> NullFrame,
                         unwind_context |-> [state |-> -1, home_block_index |-> 0]],
                 state |-> -1, target_state |-> -1, handler |-> 0]
<1>2. x \in RuntimeFrame
  BY <1>1, TopType DEF RuntimeFrame, CatchInfo, UnwindContext, FramePtr, NullFrame, Slot
<1>3. frame' = [frame EXCEPT ![n] = x] /\ top' = n
  BY <1>1 DEF PushThrowFrame
<1>4. top \in Slot /\ frame'[n] = x /\ frame'[top] = frame[top]
  BY <1>1, <1>3, TopType DEF Inv, TypeOK, Slot
<1>5. RuntimeShape(n)' /\ ~IsCode(n)'
  <2>1. frame[top] # Free
    BY DEF Inv, StackShape
  <2>2. x.ci.primary_frame_ptr = MaxDepth + 1
    BY DEF NullFrame
  <2>3. ThrowShape(n)'
    BY <1>1, <1>4, <2>1, <2>2 DEF ThrowShape, IsFresh, Below, Slot, Free
  <2> QED
    BY <1>1, <1>4, <2>3 DEF RuntimeShape, IsCode, Slot
<1>6. objects' = objects /\ halted' \in BOOLEAN
  BY DEF PushThrowFrame, Inv, TypeOK
<1> HIDE DEF x
<1> QED
  BY <1>1, <1>2, <1>3, <1>5, <1>6, PushInv

\* A throw keeps the invariant: the dispatch is about a new exception ...
LEMMA ThrowInv == ASSUME Inv, NEW t \in Types, Throw(t) PROVE Inv'
<1>1. Object(top) \in ObjOrLink
  BY TopType DEF Object, ObjOrLink, Slot
<1>2. exc' \in [Slot -> Types \cup {NoInfo}]
  BY DEF Throw, Inv, TypeOK
<1> QED
  BY <1>1, <1>2, PushThrowInv DEF Throw

\* ... and a rethrow, about none yet.
LEMMA RethrowInv == ASSUME Inv, Rethrow PROVE Inv'
<1>1. Null \in ObjOrLink
  BY TopType DEF Null, ObjOrLink
<1>2. exc' \in [Slot -> Types \cup {NoInfo}]
  BY DEF Rethrow, Inv, TypeOK
<1> QED
  BY <1>1, <1>2, PushThrowInv DEF Rethrow

\* Any other step changes the stack from some slot n upwards.
LEMMA ChangeInv ==
    ASSUME Inv, NEW n \in Slot, NEW p \in Slot, top' = p,
           \A q \in Slot : q < n => frame'[q] = frame[q],
           TypeOK', frame'[p] # Free,
           \A k \in Slot : k > p => frame'[k] = Free,
           \A k \in Slot : k >= n /\ k <= p =>
                (IsCode(k)' => CodeShape(k)') /\ (IsRuntime(k)' => RuntimeShape(k)')
    PROVE  Inv'
<1>1. ASSUME NEW k \in Slot
      PROVE  (IsCode(k)' => CodeShape(k)') /\ (IsRuntime(k)' => RuntimeShape(k)')
  <2>1. CASE k < n
    BY <2>1, KeptBelow DEF Slot
  <2>2. CASE k >= n /\ k <= p
    BY <2>2
  <2>3. CASE k > p
    BY <2>3 DEF IsCode, IsRuntime, Free
  <2> QED
    BY <2>1, <2>2, <2>3 DEF Slot
<1>2. StackShape'
  BY <1>1 DEF StackShape, Free
<1> QED
  BY <1>2 DEF Inv

\* Entering a state of the running funclet keeps the invariant.
LEMMA EnterInv == ASSUME Inv, NEW s \in Nat, Enter(s) PROVE Inv'
<1>1. PICK p \in Slot : p = top
  BY TopType
<1>2. IsCode(p) /\ frame[p] \in CodeFrame /\ CodeShape(p) /\ T = frame[p]
  BY <1>1, TopType DEF Enter, Running, T
<1> DEFINE x == [frame[p] EXCEPT !.state = s]
<1>3. x \in CodeFrame /\ s \in States(frame[p].fn)
  BY <1>1, <1>2, EhAssumption DEF Enter, CodeFrame, States
<1>4. frame' = [frame EXCEPT ![p] = x]
  BY <1>1, <1>2 DEF Enter
<1>5. \A q \in Slot : frame'[q] = IF q = p THEN x ELSE frame[q]
  BY <1>4 DEF Inv, TypeOK
<1>6. TypeOK'
  <2>1. x \in Frame
    BY <1>3 DEF Frame
  <2>2. frame' \in [Slot -> Frame]
    BY <1>4, <2>1 DEF Inv, TypeOK
  <2>3. objects' \subseteq Slot \X Nat
    BY <1>2 DEF Enter, Inv, TypeOK, CodeFrame
  <2> QED
    BY <2>2, <2>3 DEF Enter, Inv, TypeOK
<1>7. CodeShape(p)' /\ ~IsRuntime(p)'
  <2>1. x.fn = frame[p].fn /\ x.block = frame[p].block /\ x.primary = frame[p].primary
        /\ x.kind = "code" /\ x.state = s
    BY <1>2 DEF CodeFrame, IsCode
  <2>2. p > 1 => p - 1 \in Slot /\ frame'[p - 1] = frame[p - 1]
    BY <1>5, ProgramAssumption DEF Slot
  <2>3. frame'[p] = x
    BY <1>5
  <2> HIDE DEF x
  <2> QED
    BY <1>2, <1>3, <2>1, <2>2, <2>3 DEF CodeShape, IsRuntime, Free
<1>8. top' = p /\ frame'[p] # Free /\ \A k \in Slot : k > p => frame'[k] = Free
  <2>1. x # Free
    BY <1>3 DEF CodeFrame, Free
  <2> HIDE DEF x
  <2> QED
    BY <1>1, <1>5, <2>1 DEF Enter, Inv, StackShape, Slot
<1> QED
  BY <1>5, <1>6, <1>7, <1>8, ChangeInv DEF Slot

\* Leaving a state leads to a state of the same function.
LEMMA LeaveInv == ASSUME Inv, Leave PROVE Inv'
<1>1. PICK p \in Slot : p = top
  BY TopType
<1>2. IsCode(p) /\ frame[p] \in CodeFrame /\ CodeShape(p) /\ T = frame[p]
  BY <1>1, TopType DEF Leave, Running, T
<1> DEFINE s == Eh[frame[p].fn].next[frame[p].state]
           x == [frame[p] EXCEPT !.state = s]
<1>3. s \in States(frame[p].fn)
  BY <1>2, EdgeType DEF Leave, CodeShape, CodeFrame
<1>4. x \in CodeFrame
  BY <1>2, <1>3, BlocksType DEF CodeFrame
<1>5. frame' = [frame EXCEPT ![p] = x]
  BY <1>1, <1>2 DEF Leave
<1>6. \A q \in Slot : frame'[q] = IF q = p THEN x ELSE frame[q]
  BY <1>5 DEF Inv, TypeOK
<1>7. TypeOK'
  <2>1. x \in Frame
    BY <1>4 DEF Frame
  <2>2. frame' \in [Slot -> Frame]
    BY <1>5, <2>1 DEF Inv, TypeOK
  <2> QED
    BY <2>2 DEF Leave, Inv, TypeOK
<1>8. CodeShape(p)' /\ ~IsRuntime(p)'
  <2>1. x.fn = frame[p].fn /\ x.block = frame[p].block /\ x.primary = frame[p].primary
        /\ x.kind = "code" /\ x.state = s
    BY <1>2 DEF CodeFrame, IsCode
  <2>2. p > 1 => p - 1 \in Slot /\ frame'[p - 1] = frame[p - 1]
    BY <1>6, ProgramAssumption DEF Slot
  <2>3. frame'[p] = x
    BY <1>6
  <2> HIDE DEF x
  <2> QED
    BY <1>2, <1>3, <2>1, <2>2, <2>3 DEF CodeShape, IsRuntime, Free
<1>9. top' = p /\ frame'[p] # Free /\ \A k \in Slot : k > p => frame'[k] = Free
  <2>1. x # Free
    BY <1>4 DEF CodeFrame, Free
  <2> HIDE DEF x
  <2> QED
    BY <1>1, <1>6, <2>1 DEF Leave, Inv, StackShape, Slot
<1> QED
  BY <1>6, <1>7, <1>8, <1>9, ChangeInv DEF Slot

\* A primary funclet returns to the frame under it.
LEMMA ReturnInv == ASSUME Inv, Return PROVE Inv'
<1>1. PICK p \in Slot : p = top - 1
  BY TopType DEF Return, Slot
<1>2. top \in Slot /\ p < top /\ IsCode(top) /\ CodeShape(top)
  BY <1>1, TopType DEF Return, Running, Slot
<1>3. frame' = [frame EXCEPT ![top] = Free] /\ top' = p
  BY <1>1 DEF Return
<1>4. \A q \in Slot : frame'[q] = IF q = top THEN Free ELSE frame[q]
  BY <1>3 DEF Inv, TypeOK
<1>5. TypeOK'
  <2>1. Free \in Frame
    BY DEF Frame
  <2> QED
    BY <1>3, <2>1 DEF Return, Inv, TypeOK
<1>6. frame'[p] # Free
  BY <1>1, <1>2, <1>4 DEF CodeShape, Slot
<1>7. \A q \in Slot : q < top => frame'[q] = frame[q]
  BY <1>2, <1>4 DEF Slot
<1>8. \A k \in Slot : k > p => frame'[k] = Free
  BY <1>1, <1>2, <1>4 DEF Inv, StackShape, Slot
<1>9. \A k \in Slot : ~(k >= top /\ k <= p)
  BY <1>2 DEF Slot
<1> QED
  BY <1>2, <1>3, <1>5, <1>6, <1>7, <1>8, <1>9, ChangeInv

\* A catch funclet returns to its catch frame, which is still the catcher's.
LEMMA CatchReturnInv == ASSUME Inv, CatchReturn PROVE Inv'
<1>1. /\ top \in Slot /\ IsCode(top) /\ CodeShape(top) /\ T = frame[top]
      /\ MaxDepth \in Nat
  BY TopType DEF CatchReturn, Running, T
<1>2. PICK p \in Slot : p = top - 1 /\ frame[p].kind = "catch"
  BY <1>1 DEF CatchReturn, CodeShape, Slot
<1>3. IsRuntime(p) /\ frame[p] \in RuntimeFrame /\ RuntimeShape(p)
  BY <1>2, RuntimeFrameType DEF IsRuntime, Inv, StackShape
<1> DEFINE x == [frame[p] EXCEPT !.kind = "destroy", !.pc = "destroy"]
           m == frame[p].mach
<1>4. x \in RuntimeFrame
  BY <1>3 DEF RuntimeFrame
<1>5. frame' = [frame EXCEPT ![top] = Free, ![p] = x]
  <2>1. frame[top - 1] = frame[p] /\ top - 1 = p /\ p # top
    BY <1>1, <1>2 DEF Slot
  <2> QED
    BY <1>1, <2>1 DEF CatchReturn, Inv, TypeOK
<1>6. \A q \in Slot : frame'[q] = IF q = p THEN x ELSE IF q = top THEN Free ELSE frame[q]
  BY <1>5 DEF Inv, TypeOK
<1>7. frame' \in [Slot -> Frame]
  <2>1. x \in Frame /\ Free \in Frame
    BY <1>4 DEF Frame
  <2> HIDE DEF x
  <2> QED
    BY <1>5, <2>1 DEF Inv, TypeOK
<1>8. TypeOK'
  BY <1>1, <1>2, <1>7 DEF CatchReturn, Inv, TypeOK
<1>9. frame'[p] = x /\ p < top
  BY <1>1, <1>2, <1>6 DEF Slot
<1>10. m \in Slot /\ m < p /\ frame'[m] = frame[m]
  BY <1>1, <1>2, <1>3, <1>6 DEF RuntimeShape, CatchShape, RuntimeFrame, Slot
<1>11. RuntimeShape(p)' /\ ~IsCode(p)'
  <2>1. x.mach = m /\ x.kind = "destroy" /\ x.pc = "destroy"
        /\ x.ci = frame[p].ci /\ x.handler = frame[p].handler
    BY <1>3 DEF RuntimeFrame
  <2> HIDE DEF x
  <2>2. \A q \in Slot : m < q /\ q < p => frame'[q] = Free
    BY <1>1, <1>3, <1>6, <1>9 DEF RuntimeShape, Slot
  <2>3. CatchShape(p)
    BY <1>2, <1>3 DEF RuntimeShape
  <2>4. CatchShape(p)'
    BY <1>9, <1>10, <2>1, <2>3 DEF CatchShape, CachedFor, IsCode
  <2> QED
    BY <1>9, <1>10, <2>1, <2>2, <2>4 DEF RuntimeShape, IsCode, Free
<1>12. /\ top' = p /\ frame'[p] # Free
       /\ \A k \in Slot : k > p => frame'[k] = Free
       /\ \A k \in Slot : k < p => frame'[k] = frame[k]
  <2>1. x # Free
    BY <1>4 DEF RuntimeFrame, Free
  <2>2. top' = p
    BY <1>2 DEF CatchReturn
  <2> HIDE DEF x
  <2>3. \A k \in Slot : k > p => frame'[k] = Free
    BY <1>1, <1>2, <1>6, <1>9 DEF Inv, StackShape, Slot
  <2>4. \A k \in Slot : k < p => frame'[k] = frame[k]
    BY <1>6, <1>9 DEF Slot
  <2> QED
    BY <1>9, <2>1, <2>2, <2>3, <2>4
<1> QED
  BY <1>8, <1>11, <1>12, ChangeInv DEF Slot

----------------------------------------------------------------------------
(* The steps of the dispatcher.                                            *)

\* A running dispatcher is a throw frame in slot top.
LEMMA DispatchingType ==
    ASSUME Inv, NEW pc, Dispatching(pc)
    PROVE  /\ top \in Slot /\ IsRuntime(top) /\ T = frame[top]
           /\ T \in RuntimeFrame /\ T.kind = "throw" /\ T.pc = pc
           /\ RuntimeShape(top) /\ ThrowShape(top)
<1>1. IsRuntime(top)
  BY DEF Dispatching, IsRuntime
<1> QED
  BY <1>1, TopType DEF Dispatching, T, RuntimeShape

\* A step inside a frame handler: only the dispatcher's own frame changes.
LEMMA StepInv ==
    ASSUME Inv, NEW p \in Slot, p = top, frame[p].kind = "throw",
           NEW x \in RuntimeFrame, x.kind = "throw", x.mach = frame[p].mach,
           frame' = [frame EXCEPT ![p] = x], top' = top,
           exc' = exc, objects' \subseteq objects, halted' = halted,
           ThrowShape(p)'
    PROVE  Inv'
<1>1. IsRuntime(p) /\ frame[p] \in RuntimeFrame /\ RuntimeShape(p)
  BY RuntimeFrameType DEF IsRuntime, Inv, StackShape
<1>2. \A q \in Slot : frame'[q] = IF q = p THEN x ELSE frame[q]
  BY DEF Inv, TypeOK
<1>3. TypeOK'
  BY DEF Inv, TypeOK, Frame
<1>4. RuntimeShape(p)' /\ ~IsCode(p)'
  BY <1>1, <1>2 DEF RuntimeShape, IsCode, Slot
<1>5. frame'[p] # Free
  BY <1>2 DEF RuntimeFrame, Free
<1>6. \A k \in Slot : k > p => frame'[k] = Free
  BY <1>2 DEF Inv, StackShape, Slot
<1> QED
  BY <1>2, <1>3, <1>4, <1>5, <1>6, ChangeInv DEF Slot

\* After a copy or a cleanup the dispatcher is where it was.
LEMMA CalloutReturnsInv == ASSUME Inv, CalloutReturns PROVE Inv'
<1>1. PICK p \in Slot : p = top
  BY TopType
<1>2. /\ T = frame[p] /\ frame[p] \in RuntimeFrame /\ ThrowShape(p)
      /\ frame[p].kind = "throw" /\ frame[p].pc \in {"copy", "cleanup"}
  BY <1>1, DispatchingType DEF CalloutReturns
<1> DEFINE x == [frame[p] EXCEPT !.pc = "unwind"]
<1>3. /\ x \in RuntimeFrame /\ x.kind = "throw" /\ x.pc = "unwind"
      /\ x.mach = frame[p].mach /\ x.ci = frame[p].ci
      /\ x.state = frame[p].state /\ x.target_state = frame[p].target_state
      /\ x.handler = frame[p].handler
  BY <1>2 DEF RuntimeFrame
<1>4. /\ frame' = [frame EXCEPT ![p] = x] /\ top' = top /\ exc' = exc
      /\ objects' = objects /\ halted' = halted
  BY <1>1, <1>2 DEF CalloutReturns, Step
<1> HIDE DEF x
<1>5. ThrowShape(p)'
  <2>1. frame'[p] = x
    BY <1>4 DEF Inv, TypeOK
  <2>2. frame[p].mach \in Slot /\ frame'[frame[p].mach] = frame[frame[p].mach]
    BY <1>2, <1>4 DEF ThrowShape, IsCode, RuntimeFrame, Slot, Inv, TypeOK
  <2> QED
    BY <1>2, <1>3, <2>1, <2>2 DEF ThrowShape, CachedFor, IsCode, IsFresh
<1> QED
  BY <1>1, <1>2, <1>3, <1>4, <1>5, StepInv

\* Following an edge leads to a state of the function being unwound.
LEMMA UnwindEdgeInv == ASSUME Inv, UnwindEdge PROVE Inv'
<1>1. PICK p \in Slot : p = top
  BY TopType
<1>2. /\ T = frame[p] /\ frame[p] \in RuntimeFrame /\ ThrowShape(p)
      /\ frame[p].kind = "throw" /\ frame[p].pc = "unwind"
  BY <1>1, DispatchingType DEF UnwindEdge
<1> DEFINE m == frame[p].mach
           f == frame[m].fn
           s == Eh[f].next[frame[p].state]
<1>3. m \in Slot /\ IsCode(m) /\ f \in Fns
  BY <1>2, CodeFrameType DEF ThrowShape, RuntimeFrame, CodeFrame, Slot, Inv
<1>4. s \in States(f)
  BY <1>1, <1>2, <1>3, EdgeType, BlocksType DEF UnwindEdge, ThrowShape, RuntimeFrame
<1>5. PICK pc \in {"cleanup", "unwind"} :
        frame' = [frame EXCEPT ![p] = [frame[p] EXCEPT !.state = s, !.pc = pc]]
  <2>1. CASE frame[p].state \in Eh[f].cleanup
    <3>1. frame' = [frame EXCEPT ![p].state = s, ![p].pc = "cleanup"]
      BY <1>1, <1>2, <2>1 DEF UnwindEdge
    <3>2. frame' = [frame EXCEPT ![p] = [frame[p] EXCEPT !.state = s, !.pc = "cleanup"]]
      BY <3>1 DEF Inv, TypeOK
    <3> QED
      BY <3>2
  <2>2. CASE frame[p].state \notin Eh[f].cleanup
    <3>1. frame' = [frame EXCEPT ![p].state = s]
      BY <1>1, <1>2, <2>2 DEF UnwindEdge
    <3>2. [frame[p] EXCEPT !.state = s] = [frame[p] EXCEPT !.state = s, !.pc = "unwind"]
      BY <1>2 DEF RuntimeFrame
    <3>3. frame' = [frame EXCEPT ![p] = [frame[p] EXCEPT !.state = s, !.pc = "unwind"]]
      BY <3>1, <3>2 DEF Inv, TypeOK
    <3> QED
      BY <3>3
  <2> QED
    BY <2>1, <2>2
<1> DEFINE x == [frame[p] EXCEPT !.state = s, !.pc = pc]
<1>6. /\ x \in RuntimeFrame /\ x.kind = "throw" /\ x.pc = pc
      /\ x.mach = m /\ x.ci = frame[p].ci /\ x.state = s
      /\ x.target_state = frame[p].target_state /\ x.handler = frame[p].handler
  BY <1>2, <1>3, <1>4, BlocksType DEF RuntimeFrame
<1>7. /\ frame' = [frame EXCEPT ![p] = x] /\ top' = top /\ exc' = exc
      /\ objects' \subseteq objects /\ halted' = halted
  BY <1>1, <1>2, <1>5 DEF UnwindEdge
<1> HIDE DEF x
<1>8. ThrowShape(p)'
  <2>1. frame'[p] = x /\ m # p
    BY <1>1, <1>2, <1>3, <1>7 DEF Inv, TypeOK, IsCode
  <2>2. frame'[m] = frame[m]
    BY <1>3, <1>7, <2>1 DEF Inv, TypeOK
  <2> QED
    BY <1>2, <1>3, <1>4, <1>6, <2>1, <2>2 DEF ThrowShape, CachedFor, IsCode, IsFresh
<1> QED
  BY <1>1, <1>2, <1>6, <1>7, <1>8, StepInv

\* What the FH3 handler is run on.
LEMMA AtCodeFrameType ==
    ASSUME Inv, AtCodeFrame
    PROVE  /\ top \in Slot /\ T = frame[top] /\ T \in RuntimeFrame
           /\ T.kind = "throw" /\ T.pc = "visit" /\ T.handler = 0 /\ ThrowShape(top)
           /\ T.mach \in Slot /\ IsCode(T.mach) /\ CodeShape(T.mach)
           /\ frame[T.mach] \in CodeFrame /\ frame[T.mach].fn \in Fns
           /\ CurrentState(T.ci, T.mach) \in States(frame[T.mach].fn)
<1>1. /\ top \in Slot /\ T = frame[top] /\ T \in RuntimeFrame
      /\ T.kind = "throw" /\ T.pc = "visit" /\ ThrowShape(top) /\ T.handler = 0
  BY DispatchingType DEF AtCodeFrame, ThrowShape
<1>2. T.mach \in Slot /\ IsCode(T.mach)
  BY <1>1 DEF AtCodeFrame, RuntimeFrame, Slot
<1>3. CodeShape(T.mach) /\ frame[T.mach] \in CodeFrame /\ frame[T.mach].fn \in Fns
  BY <1>2, CodeFrameType DEF Inv, StackShape, CodeFrame
<1>4. CurrentState(T.ci, T.mach) \in States(frame[T.mach].fn)
  BY <1>1, <1>2, <1>3 DEF CurrentState, ThrowShape, CodeShape, CachedFor, Slot
<1> QED
  BY <1>1, <1>2, <1>3, <1>4

\* A probe changes the exception of the dispatch, not its position.
LEMMA ProbeForObjectInv == ASSUME Inv, ProbeForObject PROVE Inv'
<1>1. PICK p \in Slot : p = top
  BY TopType
<1>2. PICK q \in Slot : CanProbe(q) /\ Step([T EXCEPT !.ci.exception_object_or_link = ProbedObject(q)])
  BY DEF ProbeForObject
<1>3. /\ T = frame[p] /\ frame[p] \in RuntimeFrame /\ ThrowShape(p) /\ frame[p].handler = 0
      /\ frame[p].kind = "throw" /\ frame[p].pc = "visit" /\ frame[p].mach \in Slot
      /\ IsCode(frame[p].mach)
  BY <1>1, AtCodeFrameType DEF ProbeForObject
<1>4. frame[q] \in RuntimeFrame
  BY <1>2, RuntimeFrameType DEF CanProbe, IsRuntime, Inv
<1>5. ProbedObject(q) \in ObjOrLink
  BY <1>4, ProgramAssumption DEF ProbedObject, RuntimeFrame, CatchInfo, ObjOrLink, Link, Slot
<1> DEFINE x == [frame[p] EXCEPT !.ci.exception_object_or_link = ProbedObject(q)]
<1>6. /\ x \in RuntimeFrame /\ x.kind = "throw" /\ x.pc = "visit"
      /\ x.mach = frame[p].mach /\ x.handler = 0
      /\ x.ci.primary_frame_ptr = frame[p].ci.primary_frame_ptr
      /\ x.ci.unwind_context = frame[p].ci.unwind_context
  BY <1>3, <1>5 DEF RuntimeFrame, CatchInfo
<1>7. /\ frame' = [frame EXCEPT ![p] = x] /\ top' = top /\ exc' = exc
      /\ objects' = objects /\ halted' = halted
  BY <1>1, <1>2, <1>3 DEF Step
<1> HIDE DEF x
<1>8. ThrowShape(p)'
  <2>1. frame'[p] = x /\ frame[p].mach # p
    BY <1>3, <1>7 DEF Inv, TypeOK, IsCode
  <2>2. frame'[frame[p].mach] = frame[frame[p].mach]
    BY <1>3, <1>7, <2>1 DEF Inv, TypeOK
  <2> QED
    BY <1>3, <1>6, <2>1, <2>2 DEF ThrowShape, CachedFor, IsCode, IsFresh, Slot
<1> QED
  BY <1>1, <1>3, <1>6, <1>7, <1>8, StepInv

\* A visit that finds no handler unwinds a funclet from a state of its own.
LEMMA VisitPassingInv == ASSUME Inv, VisitPassing PROVE Inv'
<1>1. PICK p \in Slot : p = top
  BY TopType
<1> DEFINE m == frame[p].mach
           f == frame[m].fn
<1>2. /\ T = frame[p] /\ frame[p] \in RuntimeFrame /\ ThrowShape(p) /\ frame[p].handler = 0
      /\ frame[p].kind = "throw" /\ m \in Slot /\ IsCode(m) /\ f \in Fns
      /\ CurrentState(T.ci, m) \in States(f)
  BY <1>1, AtCodeFrameType DEF VisitPassing
<1>3. PICK home \in 0..Len(Eh[f].try_blocks) :
        Step([T EXCEPT !.pc = "unwind", !.state = CurrentState(T.ci, m),
                       !.target_state = FuncletLow(f, home)])
  BY <1>2 DEF VisitPassing
<1> DEFINE x == [frame[p] EXCEPT !.pc = "unwind", !.state = CurrentState(T.ci, m),
                       !.target_state = FuncletLow(f, home)]
<1>4. FuncletLow(f, home) \in Int /\ FuncletLow(f, home) >= -1
  BY <1>2, BlockType, BlocksType DEF FuncletLow, Blocks
<1>5. /\ x \in RuntimeFrame /\ x.kind = "throw" /\ x.pc = "unwind"
      /\ x.mach = m /\ x.ci = frame[p].ci /\ x.state = CurrentState(T.ci, m)
      /\ x.target_state >= -1 /\ x.handler = 0
  BY <1>2, <1>4, BlocksType DEF RuntimeFrame
<1>6. /\ frame' = [frame EXCEPT ![p] = x] /\ top' = top /\ exc' = exc
      /\ objects' = objects /\ halted' = halted
  BY <1>1, <1>2, <1>3 DEF Step
<1>7. x.state \in States(f)
  BY <1>2, <1>5
<1> HIDE DEF x
<1>8. ThrowShape(p)'
  <2>1. frame'[p] = x /\ m # p
    BY <1>2, <1>6 DEF Inv, TypeOK, IsCode
  <2>2. frame'[m] = frame[m]
    BY <1>2, <1>6, <2>1 DEF Inv, TypeOK
  <2> QED
    BY <1>2, <1>5, <1>7, <2>1, <2>2 DEF ThrowShape, CachedFor, IsCode, IsFresh, Slot
<1> QED
  BY <1>1, <1>2, <1>5, <1>6, <1>8, StepInv

\* A visit that finds a handler caches a position of the catcher.
LEMMA VisitCatchingInv == ASSUME Inv, VisitCatching PROVE Inv'
<1>1. PICK p \in Slot : p = top
  BY TopType
<1> DEFINE m == T.mach
           f == frame[m].fn
           t == GetThrowInfo(T.ci)
<1>2. /\ T = frame[p] /\ frame[p] \in RuntimeFrame /\ ThrowShape(p)
      /\ frame[p].kind = "throw" /\ m \in Slot /\ IsCode(m) /\ f \in Fns
      /\ CodeShape(m) /\ frame[m] \in CodeFrame
      /\ CurrentState(T.ci, m) \in States(f)
  BY <1>1, AtCodeFrameType DEF VisitCatching
<1>3. PICK home \in 0..Len(Eh[f].try_blocks), i \in Blocks(f) :
        \E j \in DOMAIN Block(f, i).handlers :
            Step([T EXCEPT
                        !.pc = IF CopiesInto(t, Block(f, i).handlers[j]) THEN "copy" ELSE "unwind",
                        !.handler = i,
                        !.state = CurrentState(T.ci, m),
                        !.target_state = Block(f, i).try_low - 1,
                        !.ci.primary_frame_ptr = PrimaryFrame(T.ci, m, home),
                        !.ci.unwind_context = [state |-> Block(f, i).try_low - 1,
                                               home_block_index |-> home]])
  BY DEF VisitCatching
<1>4. PICK pc \in {"copy", "unwind"} :
            Step([T EXCEPT
                        !.pc = pc,
                        !.handler = i,
                        !.state = CurrentState(T.ci, m),
                        !.target_state = Block(f, i).try_low - 1,
                        !.ci.primary_frame_ptr = PrimaryFrame(T.ci, m, home),
                        !.ci.unwind_context = [state |-> Block(f, i).try_low - 1,
                                               home_block_index |-> home]])
  BY <1>3
<1> DEFINE low == Block(f, i).try_low - 1
           prim == PrimaryFrame(T.ci, m, home)
           x == [frame[p] EXCEPT
                        !.pc = pc,
                        !.handler = i,
                        !.state = CurrentState(T.ci, m),
                        !.target_state = low,
                        !.ci.primary_frame_ptr = prim,
                        !.ci.unwind_context = [state |-> low, home_block_index |-> home]]
<1>5. low \in States(f) /\ low \in Int /\ low >= -1 /\ home \in Nat /\ i \in Nat /\ i # 0
  BY <1>2, BlockType, BlocksType
<1>6. prim \in {m, frame[m].primary} /\ prim \in FramePtr
  <2>1. frame[m].primary \in Slot
    BY <1>2 DEF CodeFrame
  <2>2. prim \in {m, frame[m].primary}
    BY <1>2 DEF PrimaryFrame, ThrowShape, CachedFor, Slot
  <2>3. Slot \subseteq FramePtr
    BY ProgramAssumption DEF Slot, FramePtr, NullFrame
  <2> QED
    BY <1>2, <2>1, <2>2, <2>3
<1>7. CurrentState(T.ci, m) \in Int
  BY <1>2, BlocksType
<1>8. /\ x \in RuntimeFrame /\ x.kind = "throw" /\ x.pc = pc /\ x.mach = m /\ frame[p].mach = m
      /\ x.state = CurrentState(T.ci, m) /\ x.target_state = low /\ x.handler = i
      /\ x.ci.primary_frame_ptr = prim
      /\ x.ci.unwind_context = [state |-> low, home_block_index |-> home]
  <2>1. frame[p] \in RuntimeFrame /\ frame[p].kind = "throw" /\ frame[p].mach = m
    BY <1>2
  <2>2. x \in RuntimeFrame
    <3>1. PICK ci \in CatchInfo :
            ci = [frame[p].ci EXCEPT !.primary_frame_ptr = prim,
                    !.unwind_context = [state |-> low, home_block_index |-> home]]
      BY <1>5, <1>6, <2>1 DEF RuntimeFrame, CatchInfo, UnwindContext
    <3>2. PICK st \in Int : st = CurrentState(T.ci, m)
      BY <1>7
    <3>3. x = [frame[p] EXCEPT !.pc = pc, !.handler = i, !.state = st, !.target_state = low,
                 !.ci = ci]
      BY <2>1, <3>1, <3>2 DEF RuntimeFrame, CatchInfo
    <3> HIDE DEF low, prim, x
    <3> QED
      BY <1>4, <1>5, <2>1, <3>3 DEF RuntimeFrame
  <2>3. /\ x.kind = "throw" /\ x.pc = pc /\ x.mach = m /\ x.state = CurrentState(T.ci, m)
        /\ x.target_state = low /\ x.handler = i
    BY <2>1 DEF RuntimeFrame
  <2>4. /\ x.ci.primary_frame_ptr = prim
        /\ x.ci.unwind_context = [state |-> low, home_block_index |-> home]
    BY <2>1 DEF RuntimeFrame, CatchInfo
  <2> QED
    BY <2>1, <2>2, <2>3, <2>4
<1>9. /\ frame' = [frame EXCEPT ![p] = x] /\ top' = top /\ exc' = exc
      /\ objects' = objects /\ halted' = halted
  BY <1>1, <1>2, <1>4 DEF Step
<1>10. x.state \in States(f)
  BY <1>2, <1>8
<1> HIDE DEF x, prim, low
<1>11. ThrowShape(p)'
  <2>1. frame'[p] = x /\ m # p
    BY <1>2, <1>9 DEF Inv, TypeOK, IsCode
  <2>2. frame'[m] = frame[m]
    BY <1>2, <1>9, <2>1 DEF Inv, TypeOK
  <2>3. /\ x.ci.unwind_context.state \in States(f)
        /\ x.ci.unwind_context.home_block_index \in 0..Len(Eh[f].try_blocks)
        /\ x.ci.primary_frame_ptr \in {m, frame[m].primary}
    BY <1>5, <1>6, <1>8
  <2>4. frame[m] # Free /\ m >= 1 /\ p < MaxDepth
    BY <1>2 DEF ThrowShape, IsCode, Free, Slot
  <2>5. f = frame[m].fn
    OBVIOUS
  <2> HIDE DEF m, f, t
  <2> QED
    BY <1>2, <1>5, <1>8, <1>10, <2>5, <2>1, <2>2, <2>3, <2>4 DEF ThrowShape, CachedFor, IsCode
<1> QED
  BY <1>1, <1>2, <1>8, <1>9, <1>11, StepInv

\* Destroying the exception of a catch frame leaves the walk at that frame.
LEMMA DestroyAtCatchFrameInv == ASSUME Inv, DestroyAtCatchFrame PROVE Inv'
<1>1. PICK p \in Slot : p = top
  BY TopType
<1>2. /\ T = frame[p] /\ frame[p] \in RuntimeFrame /\ ThrowShape(p)
      /\ frame[p].kind = "throw" /\ frame[p].pc = "visit"
  BY <1>1, DispatchingType DEF DestroyAtCatchFrame, AtCatchFrame
<1> DEFINE x == [frame[p] EXCEPT !.pc = "destroy"]
<1>3. frame[p].mach \in Slot /\ frame[frame[p].mach].kind = "catch"
  BY <1>2 DEF DestroyAtCatchFrame, AtCatchFrame, RuntimeFrame, Slot
<1>4. /\ x \in RuntimeFrame /\ x.kind = "throw" /\ x.pc = "destroy"
      /\ x.mach = frame[p].mach /\ x.ci = frame[p].ci /\ x.handler = frame[p].handler
  BY <1>2 DEF RuntimeFrame
<1>5. /\ frame' = [frame EXCEPT ![p] = x] /\ top' = top /\ exc' = exc
      /\ objects' = objects /\ halted' = halted
  BY <1>1, <1>2 DEF DestroyAtCatchFrame, Step
<1> HIDE DEF x
<1>6. ThrowShape(p)'
  <2>1. frame'[p] = x /\ frame[p].mach # p
    BY <1>2, <1>3, <1>5 DEF Inv, TypeOK
  <2>2. frame'[frame[p].mach] = frame[frame[p].mach]
    BY <1>3, <1>5, <2>1 DEF Inv, TypeOK
  <2> QED
    BY <1>2, <1>3, <1>4, <2>1, <2>2 DEF ThrowShape, CachedFor, IsCode, IsFresh, Slot
<1> QED
  BY <1>1, <1>2, <1>4, <1>5, <1>6, StepInv

----------------------------------------------------------------------------
(* The steps that unwind a frame.                                          *)

\* Two slots written at once.
LEMMA ReplaceTwo ==
    ASSUME Inv, NEW m \in Slot, NEW p \in Slot, NEW x \in RuntimeFrame,
           frame' = [frame EXCEPT ![m] = Free, ![p] = x]
    PROVE  /\ frame' \in [Slot -> Frame]
           /\ \A q \in Slot : frame'[q] = IF q = p THEN x ELSE IF q = m THEN Free ELSE frame[q]
BY DEF Inv, TypeOK, Frame

\* The frame m the dispatcher in p is at goes, the walk moves to its caller.
LEMMA UnwindInv ==
    ASSUME Inv, NEW p \in Slot, p = top, frame[p].kind = "throw",
           NEW m \in Slot, m = frame[p].mach, IsCode(m) \/ frame[m].kind = "catch",
           NEW c \in 0..MaxDepth, c = Caller(m),
           NEW x \in RuntimeFrame, x.kind = "throw", x.pc = "visit", x.mach = c,
           x.handler = 0,
           c >= 1 /\ IsCode(c) /\ ~IsFresh(x.ci, c) => CachedFor(x.ci, c),
           frame' \in [Slot -> Frame],
           \A q \in Slot : frame'[q] = IF q = p THEN x ELSE IF q = m THEN Free ELSE frame[q],
           top' = top, exc' \in [Slot -> Types \cup {NoInfo}], objects' = objects, halted' = halted
    PROVE  Inv'
<1>1. /\ IsRuntime(p) /\ RuntimeShape(p) /\ ThrowShape(p)
      /\ m < p /\ p < MaxDepth /\ MaxDepth \in Nat
  BY TopType DEF IsRuntime, Inv, StackShape, RuntimeShape, ThrowShape
<1>3. /\ c < m
      /\ c >= 1 => frame[c] # Free
      /\ \A q \in Slot : c < q /\ q < m => frame[q] = Free
  <2>1. CASE IsCode(m)
    <3>1. CodeShape(m) /\ c = m - 1
      BY <2>1, CodeFrameType DEF Caller, Inv, StackShape
    <3> QED
      BY <3>1 DEF CodeShape, Slot
  <2>2. CASE frame[m].kind = "catch"
    <3>1. RuntimeShape(m) /\ c = frame[m].mach
      BY <2>2 DEF Caller, Inv, StackShape, IsRuntime
    <3>2. IsCode(c)
      BY <2>2, <3>1 DEF RuntimeShape, CatchShape
    <3> QED
      BY <3>1, <3>2 DEF RuntimeShape, IsCode, Free
  <2> QED
    BY <2>1, <2>2
<1>4. TypeOK'
  BY DEF Inv, TypeOK
<1>5. frame'[p] = x /\ x # Free
  BY DEF RuntimeFrame, Free
<1>6. c >= 1 => c \in Slot /\ frame'[c] = frame[c]
  BY <1>1, <1>3 DEF Slot
<1>7. ThrowShape(p)'
  <2>1. c >= 1 /\ IsCode(c)' /\ ~IsFresh(x.ci, c) => CachedFor(x.ci, c)
    BY <1>6 DEF IsCode
  <2> QED
    BY <1>1, <1>3, <1>5, <1>6, <2>1 DEF ThrowShape, CachedFor, IsCode, IsFresh
<1>8. \A q \in Slot : c < q /\ q < p => frame'[q] = Free
  BY <1>1, <1>3 DEF RuntimeShape, Slot
<1>9. RuntimeShape(p)' /\ ~IsCode(p)'
  BY <1>1, <1>3, <1>5, <1>7, <1>8 DEF RuntimeShape, IsCode, Slot
<1>10. \A k \in Slot : k > p => frame'[k] = Free
  BY <1>1 DEF Inv, StackShape, Slot
<1>11. \A q \in Slot : q < m => frame'[q] = frame[q]
  BY <1>1 DEF Slot
<1>12. ASSUME NEW k \in Slot, k >= m, k <= p
       PROVE  (IsCode(k)' => CodeShape(k)') /\ (IsRuntime(k)' => RuntimeShape(k)')
  <2>1. CASE k = p
    BY <1>9, <2>1
  <2>2. CASE k < p
    <3>1. frame'[k] = Free
      BY <1>3, <1>8, <1>12, <2>2 DEF Slot
    <3> QED
      BY <3>1 DEF IsCode, IsRuntime, Free
  <2> QED
    BY <1>12, <2>1, <2>2 DEF Slot
<1>13. top' = p
  OBVIOUS
<1> QED
  BY <1>4, <1>5, <1>10, <1>11, <1>12, <1>13, ChangeInv

\* The dispatcher's frame, moved on to c with catch info ci.
Moved(t, c, ci) ==
    [t EXCEPT !.mach = c, !.pc = "visit", !.state = -1, !.target_state = -1, !.ci = ci]

\* It is a dispatch like the one before it.
LEMMA MovedType ==
    ASSUME NEW t \in RuntimeFrame, NEW c \in 0..MaxDepth, NEW ci \in CatchInfo
    PROVE  /\ Moved(t, c, ci) \in RuntimeFrame
           /\ Moved(t, c, ci).kind = t.kind
           /\ Moved(t, c, ci).pc = "visit"
           /\ Moved(t, c, ci).mach = c
           /\ Moved(t, c, ci).handler = t.handler
           /\ Moved(t, c, ci).ci = ci
<1>1. -1 \in Int
  OBVIOUS
<1> QED
  BY <1>1 DEF RuntimeFrame, Moved

\* What is cached when a code frame is unwound was about that frame, or about
\* one further up: for the frames below, nothing is cached.
LEMMA UnwindFrameInv == ASSUME Inv, UnwindFrame PROVE Inv'
<1>1. PICK p \in Slot : p = top
  BY TopType
<1>2. /\ T = frame[p] /\ frame[p] \in RuntimeFrame /\ ThrowShape(p)
      /\ frame[p].kind = "throw" /\ frame[p].pc = "unwind" /\ frame[p].handler = 0
  BY <1>1, DispatchingType DEF UnwindFrame
<1>3. PICK m \in Slot : m = frame[p].mach /\ IsCode(m)
  BY <1>2 DEF ThrowShape, RuntimeFrame, Slot
<1>4. CodeShape(m) /\ ~IsRuntime(m)
  BY <1>3, CodeFrameType DEF Inv, StackShape
<1>5. PICK c \in 0..MaxDepth : c = Caller(m) /\ c = m - 1
  BY <1>4, ProgramAssumption DEF Caller, Slot
<1> DEFINE ci == frame[p].ci
           x == Moved(frame[p], c, ci)
<1>6. /\ x \in RuntimeFrame /\ x.kind = "throw" /\ x.pc = "visit" /\ x.mach = c
      /\ x.handler = 0 /\ x.ci = frame[p].ci
  <2>1. ci \in CatchInfo
    BY <1>2 DEF RuntimeFrame
  <2> HIDE DEF ci
  <2>2. x \in RuntimeFrame /\ x.kind = frame[p].kind /\ x.pc = "visit" /\ x.mach = c
        /\ x.handler = frame[p].handler /\ x.ci = ci
    BY <1>2, <2>1, MovedType
  <2> QED
    BY <1>2, <2>2 DEF ci
<1>7. c >= 1 /\ IsCode(c) => IsFresh(frame[p].ci, c)
  <2>1. SUFFICES ASSUME c >= 1, IsCode(c) PROVE frame[p].ci.primary_frame_ptr > c
    BY DEF IsFresh, Below
  <2>2. frame[m].block = 0
    BY <1>4, <1>5, <2>1 DEF CodeShape, IsCode
  <2>3. IsFresh(frame[p].ci, m) \/ CachedFor(frame[p].ci, m)
    BY <1>2, <1>3 DEF ThrowShape, Slot
  <2>4. frame[p].ci.primary_frame_ptr \in Int
    BY <1>2 DEF RuntimeFrame, CatchInfo, FramePtr
  <2> QED
    BY <1>4, <1>5, <2>2, <2>3, <2>4 DEF IsFresh, Below, CachedFor, CodeShape, Slot
<1>8. /\ frame' = [frame EXCEPT ![m] = Free, ![p] = x] /\ top' = top
      /\ exc' = exc /\ objects' = objects /\ halted' = halted
  <2>1. x = UnwoundFrame(frame[p])
    <3>1. frame[p] = [frame[p] EXCEPT !.ci = ci]
      BY <1>2 DEF RuntimeFrame
    <3>2. Caller(frame[p].mach) = c
      BY <1>3, <1>5
    <3> QED
      BY <1>2, <3>2 DEF UnwoundFrame, Moved, RuntimeFrame
  <2> HIDE DEF x
  <2> QED
    BY <1>1, <1>2, <1>3, <2>1 DEF UnwindFrame
<1>9. exc' \in [Slot -> Types \cup {NoInfo}]
  BY <1>8 DEF Inv, TypeOK
<1> HIDE DEF x
<1>10. /\ frame' \in [Slot -> Frame]
       /\ \A q \in Slot : frame'[q] = IF q = p THEN x ELSE IF q = m THEN Free ELSE frame[q]
  BY <1>2, <1>3, <1>6, <1>8, ReplaceTwo
<1>11. c >= 1 /\ IsCode(c) /\ ~IsFresh(x.ci, c) => CachedFor(x.ci, c)
  BY <1>6, <1>7 DEF IsFresh
<1>12. /\ x.kind = "throw" /\ x.pc = "visit" /\ x.mach = c /\ x.handler = 0
       /\ top' = top /\ objects' = objects /\ halted' = halted
       /\ p = top /\ frame[p].kind = "throw" /\ m = frame[p].mach /\ c = Caller(m)
       /\ IsCode(m) \/ frame[m].kind = "catch"
  BY <1>1, <1>2, <1>3, <1>5, <1>6, <1>8
<1> QED
  BY <1>1, <1>5, <1>6, <1>9, <1>10, <1>11, <1>12, UnwindInv, Zenon

\* What the walk finds at a catch frame: its caller is the catcher, about
\* which its catch info is true.
LEMMA CatchFrameType ==
    ASSUME Inv, NEW m \in Slot, frame[m].kind = "catch"
    PROVE  /\ frame[m] \in RuntimeFrame /\ IsRuntime(m) /\ Caller(m) = frame[m].mach
           /\ Caller(m) \in 0..MaxDepth
           /\ CachedFor(frame[m].ci, Caller(m))
<1>1. IsRuntime(m) /\ RuntimeShape(m) /\ frame[m] \in RuntimeFrame
  BY RuntimeFrameType DEF IsRuntime, Inv, StackShape
<1>2. Caller(m) = frame[m].mach
  BY <1>1 DEF Caller
<1> QED
  BY <1>1, <1>2 DEF RuntimeShape, CatchShape, RuntimeFrame

\* Taking over the catch info of a catch frame brings its cached position ...
LEMMA TakeFromCatchFrameInv == ASSUME Inv, TakeFromCatchFrame PROVE Inv'
<1>1. PICK p \in Slot : p = top
  BY TopType
<1>2. /\ T = frame[p] /\ frame[p] \in RuntimeFrame /\ ThrowShape(p)
      /\ frame[p].kind = "throw" /\ frame[p].pc = "visit" /\ frame[p].handler = 0
  BY <1>1, DispatchingType DEF TakeFromCatchFrame, AtCatchFrame, ThrowShape
<1>3. PICK m \in Slot : m = frame[p].mach /\ frame[m].kind = "catch"
  BY <1>2 DEF TakeFromCatchFrame, AtCatchFrame, RuntimeFrame, Slot
<1>4. PICK c \in 0..MaxDepth : c = Caller(m)
  BY <1>3, CatchFrameType
<1> DEFINE ci == frame[m].ci
           x == Moved(frame[p], c, ci)
<1>5. ci \in CatchInfo
  BY <1>3, CatchFrameType DEF RuntimeFrame
<1>6. /\ x \in RuntimeFrame /\ x.kind = "throw" /\ x.pc = "visit" /\ x.mach = c
      /\ x.handler = 0 /\ x.ci = ci
  <2> HIDE DEF ci
  <2>1. x \in RuntimeFrame /\ x.kind = frame[p].kind /\ x.pc = "visit" /\ x.mach = c
        /\ x.handler = frame[p].handler /\ x.ci = ci
    BY <1>2, <1>5, MovedType
  <2> QED
    BY <1>2, <2>1
<1>7. CachedFor(x.ci, c)
  BY <1>3, <1>4, <1>6, CatchFrameType
<1>8. /\ frame' = [frame EXCEPT ![m] = Free, ![p] = x] /\ top' = top
      /\ exc' = exc /\ objects' = objects /\ halted' = halted
  <2>1. x = [UnwoundFrame(frame[p]) EXCEPT !.ci = frame[m].ci]
    <3>1. Caller(frame[p].mach) = c
      BY <1>3, <1>4
    <3> QED
      BY <1>2, <3>1 DEF UnwoundFrame, Moved, RuntimeFrame
  <2> HIDE DEF x
  <2> QED
    BY <1>1, <1>2, <1>3, <2>1 DEF TakeFromCatchFrame
<1>9. exc' \in [Slot -> Types \cup {NoInfo}]
  BY <1>8 DEF Inv, TypeOK
<1> HIDE DEF x
<1>10. /\ frame' \in [Slot -> Frame]
       /\ \A q \in Slot : frame'[q] = IF q = p THEN x ELSE IF q = m THEN Free ELSE frame[q]
  BY <1>2, <1>3, <1>6, <1>8, ReplaceTwo
<1> QED
  BY <1>1, <1>2, <1>3, <1>4, <1>6, <1>7, <1>8, <1>9, <1>10, UnwindInv

\* ... and so does passing one whose exception is destroyed.
LEMMA PassCatchFrameInv == ASSUME Inv, PassCatchFrame PROVE Inv'
<1>1. PICK p \in Slot : p = top
  BY TopType
<1>2. /\ T = frame[p] /\ frame[p] \in RuntimeFrame /\ ThrowShape(p)
      /\ frame[p].kind = "throw" /\ frame[p].pc = "destroy" /\ frame[p].handler = 0
  BY <1>1, DispatchingType DEF PassCatchFrame, ThrowShape
<1>3. PICK m \in Slot : m = frame[p].mach /\ frame[m].kind = "catch"
  BY <1>2 DEF ThrowShape, RuntimeFrame, Slot
<1>4. PICK c \in 0..MaxDepth : c = Caller(m)
  BY <1>3, CatchFrameType
<1> DEFINE k == frame[m].ci
           ci == [frame[p].ci EXCEPT !.primary_frame_ptr = k.primary_frame_ptr,
                                     !.unwind_context = k.unwind_context]
           x == Moved(frame[p], c, ci)
<1>5. k \in CatchInfo
  BY <1>3, CatchFrameType DEF RuntimeFrame
<1>6. /\ x \in RuntimeFrame /\ x.kind = "throw" /\ x.pc = "visit" /\ x.mach = c
      /\ x.handler = 0 /\ x.ci.primary_frame_ptr = k.primary_frame_ptr
      /\ x.ci.unwind_context = k.unwind_context
  <2>1. /\ ci \in CatchInfo /\ ci.primary_frame_ptr = k.primary_frame_ptr
        /\ ci.unwind_context = k.unwind_context
    BY <1>2, <1>5 DEF RuntimeFrame, CatchInfo
  <2> HIDE DEF ci, k
  <2>2. x \in RuntimeFrame /\ x.kind = frame[p].kind /\ x.pc = "visit" /\ x.mach = c
        /\ x.handler = frame[p].handler /\ x.ci = ci
    BY <1>2, <2>1, MovedType
  <2> QED
    BY <1>2, <2>1, <2>2
<1>7. CachedFor(x.ci, c)
  <2>1. CachedFor(k, c)
    BY <1>3, <1>4, CatchFrameType
  <2> QED
    BY <1>6, <2>1 DEF CachedFor
<1>8. /\ frame' = [frame EXCEPT ![m] = Free, ![p] = x] /\ top' = top
      /\ objects' = objects /\ halted' = halted
  <2>1. x = [UnwoundFrame(frame[p]) EXCEPT
                !.ci.primary_frame_ptr = k.primary_frame_ptr,
                !.ci.unwind_context = k.unwind_context]
    <3>1. Caller(frame[p].mach) = c
      BY <1>3, <1>4
    <3> QED
      BY <1>2, <3>1 DEF UnwoundFrame, Moved, RuntimeFrame, CatchInfo
  <2> HIDE DEF x
  <2> QED
    BY <1>1, <1>2, <1>3, <2>1 DEF PassCatchFrame
<1>9. exc' \in [Slot -> Types \cup {NoInfo}]
  BY DEF PassCatchFrame, Inv, TypeOK
<1> HIDE DEF x
<1>10. /\ frame' \in [Slot -> Frame]
       /\ \A q \in Slot : frame'[q] = IF q = p THEN x ELSE IF q = m THEN Free ELSE frame[q]
  BY <1>2, <1>3, <1>6, <1>8, ReplaceTwo
<1> QED
  BY <1>1, <1>2, <1>3, <1>4, <1>6, <1>7, <1>8, <1>9, <1>10, UnwindInv

----------------------------------------------------------------------------
(* The steps of capture.asm.                                               *)

\* The throw frame becomes the catch frame under the handler it calls.
LEMMA CallHandlerInv == ASSUME Inv, CallHandler PROVE Inv'
<1>1. PICK p \in Slot : p = top
  BY TopType
<1>2. /\ T = frame[p] /\ frame[p] \in RuntimeFrame /\ ThrowShape(p) /\ RuntimeShape(p)
      /\ frame[p].kind = "throw" /\ frame[p].pc = "unwind" /\ frame[p].handler # 0
  BY <1>1, DispatchingType DEF CallHandler
<1>3. PICK m \in Slot : m = frame[p].mach /\ IsCode(m)
  BY <1>2 DEF ThrowShape, RuntimeFrame, Slot
<1>4. PICK q \in Slot : q = p + 1
  BY <1>2, ProgramAssumption DEF ThrowShape, Slot
<1>5. frame[m] \in CodeFrame /\ CodeShape(m) /\ frame[m] # Free
  BY <1>3, CodeFrameType DEF Inv, StackShape
<1>6. PICK f \in Fns : f = frame[m].fn
  BY <1>5 DEF CodeFrame
<1>7. frame[p].handler \in Blocks(f) /\ CachedFor(frame[p].ci, m) /\ m < p
  BY <1>2, <1>3, <1>6 DEF ThrowShape, RuntimeShape
<1>8. frame[p].ci.primary_frame_ptr \in Slot
  BY <1>5, <1>7 DEF CachedFor, CodeFrame
<1> DEFINE x == [frame[p] EXCEPT !.kind = "catch", !.pc = "handler",
                                 !.state = -1, !.target_state = -1]
           y == [kind |-> "code", fn |-> f, block |-> frame[p].handler,
                 state |-> HandlerState(f, frame[p].handler),
                 primary |-> frame[p].ci.primary_frame_ptr]
<1>9. /\ x \in RuntimeFrame /\ x.kind = "catch" /\ x.pc = "handler"
      /\ x.mach = m /\ x.ci = frame[p].ci /\ x.handler = frame[p].handler
  <2>1. -1 \in Int
    OBVIOUS
  <2> QED
    BY <1>2, <1>3, <2>1 DEF RuntimeFrame
<1>10. /\ y \in CodeFrame /\ y.kind = "code" /\ y.fn = f
       /\ y.block \in Blocks(f) /\ y.block # 0 /\ y.state \in States(f)
  BY <1>7, <1>8, BlockType, BlocksType DEF CodeFrame
<1>11. frame' = [frame EXCEPT ![p] = x, ![q] = y] /\ top' = q
  BY <1>1, <1>2, <1>3, <1>4, <1>6 DEF CallHandler
<1> HIDE DEF x, y
<1>12. \A k \in Slot : frame'[k] = IF k = q THEN y ELSE IF k = p THEN x ELSE frame[k]
  BY <1>11 DEF Inv, TypeOK
<1>13. TypeOK'
  <2>1. frame' \in [Slot -> Frame]
    BY <1>9, <1>10, <1>11 DEF Inv, TypeOK, Frame
  <2> QED
    BY <1>11, <2>1 DEF CallHandler, Inv, TypeOK
<1>14. frame'[p] = x /\ frame'[q] = y /\ frame'[m] = frame[m]
  BY <1>4, <1>7, <1>12 DEF Slot
<1>15. RuntimeShape(p)' /\ ~IsCode(p)'
  <2>1. \A k \in Slot : m < k /\ k < p => frame'[k] = Free
    BY <1>2, <1>3, <1>4, <1>12 DEF RuntimeShape, Slot
  <2>2. CatchShape(p)'
    BY <1>3, <1>6, <1>7, <1>9, <1>14 DEF CatchShape, CachedFor, IsCode, Slot
  <2> QED
    BY <1>7, <1>9, <1>14, <2>1, <2>2 DEF RuntimeShape, IsCode
<1>16. CodeShape(q)' /\ ~IsRuntime(q)'
  <2>1. q - 1 = p /\ q > 1
    BY <1>4 DEF Slot
  <2>2. x # Free
    BY <1>9 DEF Free
  <2>3. y.block \in 0..Len(Eh[f].try_blocks)
    BY <1>10, BlocksType DEF Blocks
  <2> QED
    BY <1>9, <1>10, <1>14, <2>1, <2>2, <2>3 DEF CodeShape, IsRuntime
<1>17. frame'[q] # Free
  BY <1>10, <1>14 DEF Free
<1>18. /\ \A k \in Slot : k < p => frame'[k] = frame[k]
       /\ \A k \in Slot : k > q => frame'[k] = Free
  BY <1>1, <1>4, <1>12 DEF Inv, StackShape, Slot
<1>19. ASSUME NEW k \in Slot, k >= p, k <= q
       PROVE  (IsCode(k)' => CodeShape(k)') /\ (IsRuntime(k)' => RuntimeShape(k)')
  <2>1. CASE k = p
    BY <1>15, <2>1
  <2>2. CASE k = q
    BY <1>16, <2>2
  <2> QED
    BY <1>4, <1>19, <2>1, <2>2 DEF Slot
<1> QED
  BY <1>11, <1>13, <1>17, <1>18, <1>19, ChangeInv

\* The catcher resumes at the state outside its try statement.
LEMMA ContinueAfterExceptionInv == ASSUME Inv, ContinueAfterException PROVE Inv'
<1>1. PICK p \in Slot : p = top
  BY TopType
<1>2. /\ T = frame[p] /\ frame[p] \in RuntimeFrame /\ RuntimeShape(p) /\ CatchShape(p)
      /\ frame[p].kind = "destroy"
  BY <1>1, TopType DEF ContinueAfterException, IsRuntime, T, RuntimeShape
<1>3. PICK m \in Slot : m = frame[p].mach /\ IsCode(m) /\ m < p
  BY <1>2 DEF CatchShape, RuntimeShape, RuntimeFrame, Slot
<1>4. frame[m] \in CodeFrame /\ CodeShape(m)
  BY <1>3, CodeFrameType DEF Inv, StackShape
<1>5. PICK f \in Fns : f = frame[m].fn
  BY <1>4 DEF CodeFrame
<1>6. PICK s \in States(f) : s = Eh[f].next[Block(f, frame[p].handler).try_low]
  BY <1>2, <1>3, <1>5, BlockType DEF CatchShape
<1> DEFINE x == [frame[m] EXCEPT !.state = s]
<1>7. /\ x \in CodeFrame /\ x.kind = "code" /\ x.fn = f /\ x.state = s
      /\ x.block = frame[m].block /\ x.primary = frame[m].primary
  BY <1>3, <1>4, <1>5, <1>6, BlocksType DEF CodeFrame, IsCode
<1>8. frame' = [frame EXCEPT ![p] = Free, ![m] = x] /\ top' = m
  <2>1. frame' = [frame EXCEPT ![p] = Free, ![m].state = s] /\ top' = m
    BY <1>1, <1>2, <1>3, <1>5, <1>6 DEF ContinueAfterException
  <2>2. m # p /\ frame \in [Slot -> Frame]
    BY <1>3 DEF Inv, TypeOK, Slot
  <2> QED
    BY <2>1, <2>2
<1>9. exc' \in [Slot -> Types \cup {NoInfo}] /\ objects' = objects /\ halted' = halted
  BY DEF ContinueAfterException, Inv, TypeOK
<1> HIDE DEF x
<1>10. \A k \in Slot : frame'[k] = IF k = m THEN x ELSE IF k = p THEN Free ELSE frame[k]
  BY <1>8 DEF Inv, TypeOK
<1>11. TypeOK'
  <2>1. frame' \in [Slot -> Frame]
    BY <1>7, <1>8 DEF Inv, TypeOK, Frame
  <2> QED
    BY <1>8, <1>9, <2>1 DEF Inv, TypeOK
<1>12. frame'[m] = x /\ x # Free
  BY <1>7, <1>10 DEF Free
<1>13. /\ \A k \in Slot : k < m => frame'[k] = frame[k]
       /\ \A k \in Slot : k > m => frame'[k] = Free
  BY <1>1, <1>2, <1>3, <1>10 DEF Inv, StackShape, RuntimeShape, Slot
<1>14. CodeShape(m)' /\ ~IsRuntime(m)'
  <2>1. m > 1 => m - 1 \in Slot /\ frame'[m - 1] = frame[m - 1]
    BY <1>13, ProgramAssumption DEF Slot
  <2> QED
    BY <1>4, <1>5, <1>6, <1>7, <1>12, <2>1 DEF CodeShape, IsRuntime
<1>15. \A k \in Slot : k >= m /\ k <= m => k = m
  BY DEF Slot
<1> QED
  BY <1>8, <1>11, <1>12, <1>13, <1>14, <1>15, ChangeInv

----------------------------------------------------------------------------
\* A bug check, and stuttering, leave the stack as it is.
LEMMA StackUnchangedInv ==
    ASSUME Inv, UNCHANGED <<frame, top, exc, objects>>, halted' \in BOOLEAN
    PROVE  Inv'
BY DEF Inv, TypeOK, StackShape, IsCode, IsRuntime, CodeShape, RuntimeShape, ThrowShape,
       CatchShape, CachedFor, IsFresh

\* The invariant is inductive.
THEOREM NextInv == Inv /\ [Next]_vars => Inv'
<1> SUFFICES ASSUME Inv, [Next]_vars PROVE Inv'
  OBVIOUS
<1>1. CASE UserCode
  <2>1. ASSUME NEW s \in UNION {0..Eh[f].last : f \in Fns}, Enter(s) PROVE Inv'
    <3>1. s \in Nat
      BY EhAssumption
    <3> QED
      BY <2>1, <3>1, EnterInv
  <2> QED
    BY <1>1, <2>1, CallInv, LeaveInv, ReturnInv, CatchReturnInv, ThrowInv, RethrowInv
       DEF UserCode
<1>2. CASE Runtime
  <2>1. CASE BugCheck
    BY <2>1, StackUnchangedInv DEF BugCheck
  <2>2. CASE ProbeFails \/ VisitVerifyFails \/ VisitForeignFrame
    BY <2>1, <2>2 DEF ProbeFails, VisitVerifyFails, VisitForeignFrame
  <2> QED
    BY <1>2, <2>2, ProbeForObjectInv, VisitCatchingInv, VisitPassingInv, UnwindEdgeInv,
       CalloutReturnsInv, UnwindFrameInv, TakeFromCatchFrameInv, DestroyAtCatchFrameInv,
       PassCatchFrameInv, CallHandlerInv, ContinueAfterExceptionInv
       DEF Runtime
<1>3. CASE Halted \/ UNCHANGED vars
  <2>1. UNCHANGED <<frame, top, exc, objects>> /\ halted' \in BOOLEAN
    BY <1>3 DEF Halted, vars, Inv, TypeOK
  <2> QED
    BY <2>1, StackUnchangedInv
<1> QED
  BY <1>1, <1>2, <1>3 DEF Next

\* Every reachable state has the declared shape.
THEOREM TypeCorrect == Spec => []TypeOK
<1>1. Inv => TypeOK
  BY DEF Inv
<1> QED
  BY <1>1, InitInv, NextInv, PTL DEF Spec

\* In every program and however deep the stack, the runtime never uses a frame
\* that is not there: what stands between a runtime frame and the frame it has
\* unwound to is empty, a handler runs on its catch frame, and positions cached
\* by fh3.cpp:140-142 are positions of the function they are used for.
THEOREM StackShapeHolds == Spec => []StackShape
<1>1. Inv => StackShape
  BY DEF Inv
<1> QED
  BY <1>1, InitInv, NextInv, PTL DEF Spec

----------------------------------------------------------------------------
(***************************************************************************)
(* Who owns the exception objects.                                         *)
(***************************************************************************)

Obj(k) == frame[k].ci.exception_object_or_link
Info(k) == frame[k].ci.throw_info_if_owner

\* The owner in slot k knows where its exception is and what it is.
OwnerShape(k) ==
    /\ Obj(k) = Object(Obj(k).slot)
    /\ Obj(k).slot \in Slot
    /\ frame[k].mach <= Obj(k).slot /\ Obj(k).slot < k
    /\ exc[Obj(k).slot] = Info(k)

\* The frame in slot k, which owns nothing, searches or links to an owner.
LinkShape(k) ==
    \/ Obj(k) = Null /\ frame[k].kind = "throw"
    \/ /\ Obj(k).to = "link"
       /\ Obj(k).slot \in 1..frame[k].mach
       /\ frame[Obj(k).slot].kind = "catch"
       /\ Owns(Obj(k).slot)

\* A dispatch that has chosen a handler has found its exception, and one that
\* destroys another exception is neither about that one nor about none.
Resolved(k) ==
    frame[k].kind = "throw" =>
        /\ frame[k].handler # 0 => Obj(k) # Null
        /\ frame[k].pc = "destroy" => Obj(k) # Null /\ Obj(k) # Link(frame[k].mach)

OwnInv ==
    /\ \A k \in Slot : Owns(k) => OwnerShape(k)
    /\ \A j, k \in Slot : Owns(j) /\ Owns(k) /\ Obj(j) = Obj(k) => j = k
    /\ \A t \in Slot : exc[t] # NoInfo => \E k \in Slot : Owns(k) /\ Obj(k) = Object(t)
    /\ \A k \in Slot : IsRuntime(k) /\ ~Owns(k) => LinkShape(k)
    /\ \A k \in Slot : Resolved(k)

----------------------------------------------------------------------------
\* OwnInv says what the two properties say, and Resolved.
LEMMA OwnInvImplies == OwnInv => OneOwner /\ LinksReachOwner
<1> SUFFICES ASSUME OwnInv PROVE OneOwner /\ LinksReachOwner
  OBVIOUS
<1>1. LinksReachOwner
  BY DEF OwnInv, LinksReachOwner, LinkShape, Obj
<1>2. ASSUME NEW k \in Slot, Owns(k), NEW j \in Slot \ {k}, Owns(j)
      PROVE  Obj(j) # Object(Obj(k).slot)
  BY <1>2 DEF OwnInv, OwnerShape
<1>3. OneOwner
  BY <1>2 DEF OwnInv, OneOwner, OwnerShape, Obj, Info
<1> QED
  BY <1>1, <1>3

\* At the start nothing is thrown.
LEMMA InitOwn == Init => OwnInv
<1> SUFFICES ASSUME Init PROVE OwnInv
  OBVIOUS
<1>1. \A k \in Slot : ~IsRuntime(k)
  BY DEF Init, IsRuntime, Free
<1>2. \A k \in Slot : exc[k] = NoInfo
  BY DEF Init
<1> QED
  BY <1>1, <1>2 DEF OwnInv, Owns, Resolved, IsRuntime

\* What the invariant says of one runtime frame: it refers downwards, to its
\* exception or to the catch frame that owns it.
LEMMA RuntimeRefers ==
    ASSUME Inv, OwnInv, NEW k \in Slot, IsRuntime(k)
    PROVE  /\ frame[k].mach \in 0..MaxDepth /\ frame[k].mach < k /\ k <= top
           /\ top \in Slot /\ MaxDepth \in Nat
           /\ \A q \in Slot : frame[k].mach < q /\ q < k => frame[q] = Free
           /\ Owns(k) => OwnerShape(k) /\ Obj(k).to = "object"
           /\ ~Owns(k) => LinkShape(k)
           /\ ~Owns(k) /\ Obj(k).to # "link" => Obj(k) = Null /\ frame[k].kind = "throw"
           /\ ~Owns(k) /\ Obj(k).to = "link" =>
                /\ Obj(k).slot \in Slot /\ Obj(k).slot <= frame[k].mach
                /\ frame[Obj(k).slot].kind = "catch" /\ Owns(Obj(k).slot)
<1>1. top \in Slot /\ MaxDepth \in Nat
  BY TopType
<1>2. frame[k] \in RuntimeFrame /\ frame[k] # Free /\ RuntimeShape(k)
  BY RuntimeFrameType DEF Inv, StackShape
<1>3. frame[k].mach \in 0..MaxDepth /\ frame[k].mach < k /\ k <= top
  BY <1>1, <1>2 DEF RuntimeFrame, RuntimeShape, Inv, StackShape, Slot
<1>4. \A q \in Slot : frame[k].mach < q /\ q < k => frame[q] = Free
  BY <1>2 DEF RuntimeShape
<1>5. Owns(k) => OwnerShape(k) /\ Obj(k).to = "object"
  <2>1. Owns(k) => OwnerShape(k)
    BY DEF OwnInv
  <2>2. OwnerShape(k) => Obj(k).to = "object"
    BY DEF OwnerShape, Object
  <2> QED
    BY <2>1, <2>2
<1>6. ~Owns(k) => LinkShape(k)
  BY DEF OwnInv
<1>7. Null.to = "null"
  BY DEF Null
<1>8. 1..frame[k].mach \subseteq Slot
  BY <1>1, <1>3 DEF Slot
<1>9. \A q \in 1..frame[k].mach : q <= frame[k].mach
  BY <1>3
<1> QED
  BY <1>1, <1>3, <1>4, <1>5, <1>6, <1>7, <1>8, <1>9 DEF LinkShape

\* Nobody links to the newest runtime frame: links lead down the stack.
LEMMA LinksLeadDown ==
    ASSUME Inv, OwnInv, NEW p \in Slot, \A k \in Slot : k > p => ~IsRuntime(k),
           NEW k \in Slot, IsRuntime(k), ~Owns(k), Obj(k).to = "link"
    PROVE  Obj(k).slot # p
<1>1. Obj(k).slot \in Slot /\ Obj(k).slot <= frame[k].mach /\ frame[k].mach < k
      /\ frame[k].mach \in Int
  BY RuntimeRefers
<1>2. ~(k > p)
  OBVIOUS
<1> QED
  BY <1>1, <1>2 DEF Slot

----------------------------------------------------------------------------
(* Steps that neither create, destroy nor move an exception.               *)

\* Only the runtime frame in slot p changes, and it stays one about the same
\* exception.
LEMMA KeepOwn ==
    ASSUME Inv, OwnInv, exc' = exc, NEW p \in Slot, IsRuntime(p), IsRuntime(p)',
           \A k \in Slot : k # p /\ (IsRuntime(k) \/ IsRuntime(k)') => frame'[k] = frame[k],
           Info(p)' = Info(p),
           Owns(p) => Obj(p)' = Obj(p) /\ frame'[p].mach <= frame[p].mach
                      /\ frame'[p].mach \in Int,
           ~Owns(p) => LinkShape(p)',
           \/ frame'[p].kind = "catch"
           \/ \A k \in Slot : IsRuntime(k) /\ ~Owns(k) /\ Obj(k).to = "link" => Obj(k).slot # p,
           Resolved(p)'
    PROVE  OwnInv'
<1>1. \A k \in Slot : IsRuntime(k)' <=> IsRuntime(k)
  BY DEF IsRuntime
<1>2. \A k \in Slot : IsRuntime(k) => Info(k)' = Info(k)
  BY DEF Info
<1>3. \A k \in Slot : Owns(k)' <=> Owns(k)
  BY <1>1, <1>2 DEF Owns, Info
<1>4. \A k \in Slot : Owns(k) => IsRuntime(k)
  BY DEF Owns
<1>5. \A k \in Slot : Owns(k) => Obj(k)' = Obj(k)
  BY <1>4 DEF Obj
<1>6. ASSUME NEW k \in Slot, Owns(k)' PROVE OwnerShape(k)'
  <2>1. Owns(k) /\ OwnerShape(k) /\ Obj(k)' = Obj(k) /\ Info(k)' = Info(k)
    BY <1>2, <1>3, <1>4, <1>5, <1>6 DEF OwnInv
  <2>2. frame'[k].mach <= frame[k].mach /\ frame'[k].mach \in Int /\ frame[k].mach \in Int
    <3>1. frame[k].mach \in Int
      BY <1>4, <2>1, RuntimeRefers
    <3> QED
      BY <1>4, <2>1, <3>1
  <2> QED
    BY <2>1, <2>2 DEF OwnerShape, Slot
<1>7. \A j, k \in Slot : Owns(j)' /\ Owns(k)' /\ Obj(j)' = Obj(k)' => j = k
  BY <1>3, <1>5 DEF OwnInv
<1>8. \A t \in Slot : exc'[t] # NoInfo => \E k \in Slot : Owns(k)' /\ Obj(k)' = Object(t)
  BY <1>3, <1>5 DEF OwnInv
<1>9. ASSUME NEW k \in Slot, IsRuntime(k)', ~Owns(k)' PROVE LinkShape(k)'
  <2>1. CASE k = p
    BY <1>3, <1>9, <2>1
  <2>2. CASE k # p
    <3>1. IsRuntime(k) /\ ~Owns(k) /\ frame'[k] = frame[k] /\ LinkShape(k)
      BY <1>1, <1>3, <1>9, <2>2 DEF OwnInv
    <3>2. Obj(k)' = Obj(k)
      BY <3>1 DEF Obj
    <3>3. ASSUME Obj(k).to = "link"
          PROVE  frame'[Obj(k)'.slot].kind = "catch" /\ Owns(Obj(k).slot)'
      <4>1. PICK q \in Slot : q = Obj(k).slot /\ frame[q].kind = "catch" /\ Owns(q)
        BY <3>1, <3>3, RuntimeRefers
      <4>2. frame'[q].kind = "catch" /\ Owns(q)'
        BY <1>3, <1>4, <3>1, <3>3, <4>1
      <4> QED
        BY <3>2, <4>1, <4>2
    <3> QED
      BY <3>1, <3>2, <3>3, <1>3 DEF LinkShape
  <2> QED
    BY <2>1, <2>2
<1>10. ASSUME NEW k \in Slot PROVE Resolved(k)'
  <2>1. CASE k = p
    BY <2>1
  <2>2. CASE k # p
    <3>1. CASE IsRuntime(k)
      <4>1. frame'[k] = frame[k] /\ Resolved(k)
        BY <2>2, <3>1 DEF OwnInv
      <4> QED
        BY <4>1 DEF Resolved, Obj
    <3>2. CASE ~IsRuntime(k)
      <4>1. ~IsRuntime(k)'
        BY <1>1, <3>2
      <4> QED
        BY <4>1 DEF Resolved, IsRuntime
    <3> QED
      BY <3>1, <3>2
  <2> QED
    BY <2>1, <2>2
<1> QED
  BY <1>6, <1>7, <1>8, <1>9, <1>10 DEF OwnInv

\* Steps of user code leave the runtime's frames alone.
LEMMA OwnUnchanged ==
    ASSUME Inv, OwnInv, exc' = exc,
           \A k \in Slot : IsRuntime(k) \/ IsRuntime(k)' => frame'[k] = frame[k]
    PROVE  OwnInv'
<1>1. \A k \in Slot : IsRuntime(k)' <=> IsRuntime(k)
  BY DEF IsRuntime
<1>2. \A k \in Slot : Owns(k)' <=> Owns(k)
  BY <1>1 DEF Owns
<1>3. \A k \in Slot : IsRuntime(k) => Obj(k)' = Obj(k) /\ Info(k)' = Info(k)
                                      /\ frame'[k] = frame[k]
  BY DEF Obj, Info
<1>4. \A k \in Slot : Owns(k) => IsRuntime(k)
  BY DEF Owns
<1>5. \A k \in Slot : Owns(k)' => OwnerShape(k)'
  BY <1>2, <1>3, <1>4 DEF OwnInv, OwnerShape
<1>6. \A j, k \in Slot : Owns(j)' /\ Owns(k)' /\ Obj(j)' = Obj(k)' => j = k
  BY <1>2, <1>3, <1>4 DEF OwnInv
<1>7. \A t \in Slot : exc'[t] # NoInfo => \E k \in Slot : Owns(k)' /\ Obj(k)' = Object(t)
  BY <1>2, <1>3, <1>4 DEF OwnInv
<1>8. ASSUME NEW k \in Slot, IsRuntime(k)', ~Owns(k)' PROVE LinkShape(k)'
  <2>1. IsRuntime(k) /\ ~Owns(k) /\ LinkShape(k) /\ Obj(k)' = Obj(k) /\ frame'[k] = frame[k]
    BY <1>1, <1>2, <1>3, <1>8 DEF OwnInv
  <2>2. ASSUME Obj(k).to = "link"
        PROVE  frame'[Obj(k)'.slot].kind = "catch" /\ Owns(Obj(k).slot)'
    <3>1. PICK q \in Slot : q = Obj(k).slot /\ frame[q].kind = "catch" /\ Owns(q)
      BY <2>1, <2>2, RuntimeRefers
    <3>2. frame'[q].kind = "catch" /\ Owns(q)'
      BY <1>2, <1>3, <1>4, <3>1
    <3> QED
      BY <2>1, <3>1, <3>2
  <2> QED
    BY <2>1, <2>2 DEF LinkShape
<1>9. \A k \in Slot : Resolved(k)'
  BY <1>1, <1>3 DEF OwnInv, Resolved, IsRuntime
<1> QED
  BY <1>5, <1>6, <1>7, <1>8, <1>9 DEF OwnInv

\* A step inside a frame handler is about the same exception as the last.
LEMMA StepOwn ==
    ASSUME Inv, OwnInv, NEW p \in Slot, p = top, frame[p].kind = "throw",
           NEW x \in RuntimeFrame, x.kind = "throw", x.mach = frame[p].mach,
           x.ci.exception_object_or_link = Obj(p), x.ci.throw_info_if_owner = Info(p),
           frame' = [frame EXCEPT ![p] = x], exc' = exc,
           x.handler # 0 => Obj(p) # Null,
           x.pc = "destroy" => Obj(p) # Null /\ Obj(p) # Link(x.mach)
    PROVE  OwnInv'
<1>1. IsRuntime(p) /\ \A k \in Slot : k > p => ~IsRuntime(k)
  BY DEF IsRuntime, Inv, StackShape, Free
<1>2. frame'[p] = x /\ \A k \in Slot : k # p => frame'[k] = frame[k]
  BY DEF Inv, TypeOK
<1>3. IsRuntime(p)' /\ Obj(p)' = Obj(p) /\ Info(p)' = Info(p)
  BY <1>2 DEF IsRuntime, Obj, Info
<1>4. frame[p].mach \in Int /\ x.mach <= frame[p].mach
  BY <1>1, RuntimeRefers
<1>5. \A k \in Slot : IsRuntime(k) /\ ~Owns(k) /\ Obj(k).to = "link" => Obj(k).slot # p
  BY <1>1, LinksLeadDown
<1>6. ASSUME ~Owns(p) PROVE LinkShape(p)'
  <2>1. CASE Obj(p).to # "link"
    BY <1>1, <1>2, <1>3, <1>6, <2>1, RuntimeRefers DEF LinkShape
  <2>2. CASE Obj(p).to = "link"
    <3>1. LinkShape(p) /\ Obj(p).slot \in 1..frame[p].mach
      BY <1>1, <1>6, <2>2, RuntimeRefers DEF LinkShape, Null
    <3>2. PICK q \in Slot : q = Obj(p).slot /\ frame[q].kind = "catch" /\ Owns(q)
      BY <1>1, <1>6, <2>2, RuntimeRefers
    <3>3. frame'[q] = frame[q]
      BY <1>2, <3>2
    <3>4. Owns(q)'
      BY <3>2, <3>3 DEF Owns, IsRuntime
    <3> QED
      BY <1>2, <1>3, <2>2, <3>1, <3>2, <3>3, <3>4 DEF LinkShape
  <2> QED
    BY <2>1, <2>2
<1>7. Resolved(p)'
  BY <1>2, <1>3 DEF Resolved
<1> HIDE DEF Obj, Info
<1> QED
  BY <1>1, <1>2, <1>3, <1>4, <1>5, <1>6, <1>7, KeepOwn

\* A dispatch that knows the type of its exception has an exception.
LEMMA InfoMeansObject ==
    ASSUME Inv, OwnInv, NEW p \in Slot, IsRuntime(p),
           NEW ci, ci = frame[p].ci, GetThrowInfo(ci) # NoInfo
    PROVE  Obj(p) # Null
<1>1. CASE Owns(p)
  BY <1>1, RuntimeRefers DEF Null
<1>2. CASE ~Owns(p)
  BY <1>2 DEF GetThrowInfo, Owns, Obj, Null
<1> QED
  BY <1>1, <1>2

\* After a copy or a cleanup the dispatch is about what it was about.
LEMMA CalloutReturnsOwn == ASSUME Inv, OwnInv, CalloutReturns PROVE OwnInv'
<1>1. PICK p \in Slot : p = top
  BY TopType
<1>2. /\ T = frame[p] /\ frame[p] \in RuntimeFrame
      /\ frame[p].kind = "throw" /\ frame[p].pc \in {"copy", "cleanup"}
  BY <1>1, DispatchingType DEF CalloutReturns
<1> DEFINE x == [frame[p] EXCEPT !.pc = "unwind"]
<1>3. /\ x \in RuntimeFrame /\ x.kind = "throw" /\ x.pc = "unwind"
      /\ x.mach = frame[p].mach /\ x.ci = frame[p].ci
      /\ x.handler = frame[p].handler
  BY <1>2 DEF RuntimeFrame
<1>4. frame' = [frame EXCEPT ![p] = x] /\ exc' = exc
  BY <1>1, <1>2 DEF CalloutReturns, Step
<1>5. x.handler # 0 => Obj(p) # Null
  BY <1>2, <1>3 DEF OwnInv, Resolved
<1> HIDE DEF x
<1>6. x.ci.exception_object_or_link = Obj(p) /\ x.ci.throw_info_if_owner = Info(p)
  BY <1>3 DEF Obj, Info
<1> QED
  BY <1>1, <1>2, <1>3, <1>4, <1>5, <1>6, StepOwn

\* So it is after an edge of the unwind graph ...
LEMMA UnwindEdgeOwn == ASSUME Inv, OwnInv, UnwindEdge PROVE OwnInv'
<1>1. PICK p \in Slot : p = top
  BY TopType
<1>2. /\ T = frame[p] /\ frame[p] \in RuntimeFrame /\ ThrowShape(p)
      /\ frame[p].kind = "throw" /\ frame[p].pc = "unwind"
  BY <1>1, DispatchingType DEF UnwindEdge
<1> DEFINE m == frame[p].mach
           f == frame[m].fn
           s == Eh[f].next[frame[p].state]
<1>3. m \in Slot /\ IsCode(m) /\ f \in Fns
  BY <1>2, CodeFrameType DEF ThrowShape, RuntimeFrame, CodeFrame, Slot, Inv
<1>4. s \in Int
  BY <1>1, <1>2, <1>3, EdgeType, BlocksType DEF UnwindEdge, ThrowShape, RuntimeFrame
<1>5. PICK pc \in {"cleanup", "unwind"} :
        frame' = [frame EXCEPT ![p] = [frame[p] EXCEPT !.state = s, !.pc = pc]]
  <2>1. CASE frame[p].state \in Eh[f].cleanup
    <3>1. frame' = [frame EXCEPT ![p].state = s, ![p].pc = "cleanup"]
      BY <1>1, <1>2, <2>1 DEF UnwindEdge
    <3>2. frame' = [frame EXCEPT ![p] = [frame[p] EXCEPT !.state = s, !.pc = "cleanup"]]
      BY <3>1 DEF Inv, TypeOK
    <3> QED
      BY <3>2
  <2>2. CASE frame[p].state \notin Eh[f].cleanup
    <3>1. frame' = [frame EXCEPT ![p].state = s]
      BY <1>1, <1>2, <2>2 DEF UnwindEdge
    <3>2. [frame[p] EXCEPT !.state = s] = [frame[p] EXCEPT !.state = s, !.pc = "unwind"]
      BY <1>2 DEF RuntimeFrame
    <3>3. frame' = [frame EXCEPT ![p] = [frame[p] EXCEPT !.state = s, !.pc = "unwind"]]
      BY <3>1, <3>2 DEF Inv, TypeOK
    <3> QED
      BY <3>3
  <2> QED
    BY <2>1, <2>2
<1> DEFINE x == [frame[p] EXCEPT !.state = s, !.pc = pc]
<1>6. /\ x \in RuntimeFrame /\ x.kind = "throw" /\ x.pc = pc
      /\ x.mach = m /\ x.ci = frame[p].ci /\ x.handler = frame[p].handler
  BY <1>2, <1>3, <1>4 DEF RuntimeFrame
<1>7. frame' = [frame EXCEPT ![p] = x] /\ exc' = exc
  BY <1>5 DEF UnwindEdge
<1>8. x.handler # 0 => Obj(p) # Null
  BY <1>2, <1>6 DEF OwnInv, Resolved
<1> HIDE DEF x
<1>9. x.ci.exception_object_or_link = Obj(p) /\ x.ci.throw_info_if_owner = Info(p)
  BY <1>6 DEF Obj, Info
<1> QED
  BY <1>1, <1>2, <1>6, <1>7, <1>8, <1>9, StepOwn

\* ... after a visit that passes the frame ...
LEMMA VisitPassingOwn == ASSUME Inv, OwnInv, VisitPassing PROVE OwnInv'
<1>1. PICK p \in Slot : p = top
  BY TopType
<1> DEFINE m == T.mach
           f == frame[m].fn
<1>2. /\ T = frame[p] /\ frame[p] \in RuntimeFrame /\ frame[p].handler = 0
      /\ frame[p].kind = "throw" /\ f \in Fns /\ CurrentState(T.ci, m) \in States(f)
  BY <1>1, AtCodeFrameType DEF VisitPassing
<1>3. PICK home \in 0..Len(Eh[f].try_blocks) :
        Step([T EXCEPT !.pc = "unwind", !.state = CurrentState(T.ci, m),
                       !.target_state = FuncletLow(f, home)])
  BY <1>2 DEF VisitPassing
<1> DEFINE x == [frame[p] EXCEPT !.pc = "unwind", !.state = CurrentState(T.ci, m),
                       !.target_state = FuncletLow(f, home)]
<1>4. FuncletLow(f, home) \in Int
  BY <1>2, BlockType, BlocksType DEF FuncletLow, Blocks
<1>5. /\ x \in RuntimeFrame /\ x.kind = "throw" /\ x.pc = "unwind"
      /\ x.mach = frame[p].mach /\ x.ci = frame[p].ci /\ x.handler = 0
  BY <1>2, <1>4, BlocksType DEF RuntimeFrame
<1>6. frame' = [frame EXCEPT ![p] = x] /\ exc' = exc
  BY <1>1, <1>2, <1>3 DEF Step
<1> HIDE DEF x
<1>7. x.ci.exception_object_or_link = Obj(p) /\ x.ci.throw_info_if_owner = Info(p)
  BY <1>5 DEF Obj, Info
<1> QED
  BY <1>1, <1>2, <1>5, <1>6, <1>7, StepOwn

\* ... and after one that catches: the handler was chosen by a type.
LEMMA VisitCatchingOwn == ASSUME Inv, OwnInv, VisitCatching PROVE OwnInv'
<1>1. PICK p \in Slot : p = top
  BY TopType
<1> DEFINE m == T.mach
           f == frame[m].fn
           t == GetThrowInfo(T.ci)
<1>2. /\ T = frame[p] /\ frame[p] \in RuntimeFrame /\ ThrowShape(p)
      /\ frame[p].kind = "throw" /\ m \in Slot /\ f \in Fns
      /\ frame[m] \in CodeFrame /\ CurrentState(T.ci, m) \in States(f)
  BY <1>1, AtCodeFrameType DEF VisitCatching
<1>3. PICK home \in 0..Len(Eh[f].try_blocks), i \in Blocks(f) :
        /\ ~NeedsProbe(T.ci, m, home)
        /\ \E j \in DOMAIN Block(f, i).handlers :
            /\ Selects(T.ci, m, home, t, i, j)
            /\ Step([T EXCEPT
                        !.pc = IF CopiesInto(t, Block(f, i).handlers[j]) THEN "copy" ELSE "unwind",
                        !.handler = i,
                        !.state = CurrentState(T.ci, m),
                        !.target_state = Block(f, i).try_low - 1,
                        !.ci.primary_frame_ptr = PrimaryFrame(T.ci, m, home),
                        !.ci.unwind_context = [state |-> Block(f, i).try_low - 1,
                                               home_block_index |-> home]])
  BY DEF VisitCatching
<1>4. Obj(p) # Null
  <2>1. i \in Candidates(T.ci, m, home)
    BY <1>3 DEF Selects
  <2>2. GetThrowInfo(T.ci) # NoInfo
    BY <1>3, <2>1 DEF NeedsProbe
  <2> QED
    BY <1>2, <2>2, InfoMeansObject DEF IsRuntime
<1> DEFINE low == Block(f, i).try_low - 1
           prim == PrimaryFrame(T.ci, m, home)
           state == CurrentState(T.ci, m)
<1>5. PICK pc \in {"copy", "unwind"} :
        Step([T EXCEPT !.pc = pc, !.handler = i, !.state = state, !.target_state = low,
                       !.ci.primary_frame_ptr = prim,
                       !.ci.unwind_context = [state |-> low, home_block_index |-> home]])
  BY <1>3
<1> DEFINE x == [frame[p] EXCEPT !.pc = pc, !.handler = i, !.state = state,
                       !.target_state = low, !.ci.primary_frame_ptr = prim,
                       !.ci.unwind_context = [state |-> low, home_block_index |-> home]]
<1>6. low \in Int /\ state \in Int /\ home \in Nat /\ i \in Nat
  BY <1>2, BlockType, BlocksType
<1>7. prim \in FramePtr
  <2>1. frame[m].primary \in Slot
    BY <1>2 DEF CodeFrame
  <2>2. prim \in {T.ci.primary_frame_ptr, frame[m].primary, m}
    BY DEF PrimaryFrame
  <2>3. T.ci.primary_frame_ptr \in FramePtr
    BY <1>2 DEF RuntimeFrame, CatchInfo
  <2>4. Slot \subseteq FramePtr
    BY ProgramAssumption DEF Slot, FramePtr, NullFrame
  <2> QED
    BY <1>2, <2>1, <2>2, <2>3, <2>4
<1> HIDE DEF prim, low, state
<1>8. /\ x \in RuntimeFrame /\ x.kind = "throw" /\ x.pc = pc
      /\ x.mach = frame[p].mach
      /\ x.ci.exception_object_or_link = frame[p].ci.exception_object_or_link
      /\ x.ci.throw_info_if_owner = frame[p].ci.throw_info_if_owner
  BY <1>2, <1>6, <1>7 DEF RuntimeFrame, CatchInfo, UnwindContext
<1>9. frame' = [frame EXCEPT ![p] = x] /\ exc' = exc
  BY <1>1, <1>2, <1>5 DEF Step
<1> HIDE DEF x, m, f, t
<1>10. x.ci.exception_object_or_link = Obj(p) /\ x.ci.throw_info_if_owner = Info(p)
  BY <1>8 DEF Obj, Info
<1> QED
  BY <1>1, <1>2, <1>4, <1>8, <1>9, <1>10, StepOwn

\* A dispatch that destroys the exception of a catch frame has one of its own.
LEMMA DestroyAtCatchFrameOwn == ASSUME Inv, OwnInv, DestroyAtCatchFrame PROVE OwnInv'
<1>1. PICK p \in Slot : p = top
  BY TopType
<1>2. /\ T = frame[p] /\ frame[p] \in RuntimeFrame
      /\ frame[p].kind = "throw" /\ frame[p].handler = 0
  BY <1>1, DispatchingType DEF DestroyAtCatchFrame, AtCatchFrame, ThrowShape
<1> DEFINE x == [frame[p] EXCEPT !.pc = "destroy"]
<1>3. /\ x \in RuntimeFrame /\ x.kind = "throw" /\ x.handler = 0
      /\ x.mach = frame[p].mach /\ x.ci = frame[p].ci
  BY <1>2 DEF RuntimeFrame
<1>4. frame' = [frame EXCEPT ![p] = x] /\ exc' = exc
  BY <1>1, <1>2 DEF DestroyAtCatchFrame, Step
<1> HIDE DEF x
<1>5. Obj(p) # Null /\ Obj(p) # Link(x.mach)
  BY <1>2, <1>3 DEF DestroyAtCatchFrame, TakesException, Obj
<1>6. x.ci.exception_object_or_link = Obj(p) /\ x.ci.throw_info_if_owner = Info(p)
  BY <1>3 DEF Obj, Info
<1> QED
  BY <1>1, <1>2, <1>3, <1>4, <1>5, <1>6, StepOwn

\* A probe finds an owner, or a frame that links to one.
LEMMA ProbeForObjectOwn == ASSUME Inv, OwnInv, ProbeForObject PROVE OwnInv'
<1>1. PICK p \in Slot : p = top
  BY TopType
<1>2. PICK q \in Slot :
        CanProbe(q) /\ Step([T EXCEPT !.ci.exception_object_or_link = ProbedObject(q)])
  BY DEF ProbeForObject
<1>3. /\ T = frame[p] /\ frame[p] \in RuntimeFrame /\ frame[p].handler = 0
      /\ frame[p].kind = "throw" /\ frame[p].pc = "visit" /\ IsRuntime(p)
      /\ frame[p].mach \in Int
  BY <1>1, AtCodeFrameType DEF ProbeForObject, IsRuntime, RuntimeFrame
<1>4. /\ frame[q].kind = "catch" /\ IsRuntime(q) /\ q \in 1..frame[p].mach
      /\ Obj(p) = Null /\ q # p
  BY <1>2, <1>3 DEF CanProbe, IsInnermostRuntime, Obj
<1>5. ~Owns(p)
  BY <1>3, <1>4, RuntimeRefers DEF Null
<1> DEFINE x == [frame[p] EXCEPT !.ci.exception_object_or_link = ProbedObject(q)]
<1>6. frame' = [frame EXCEPT ![p] = x] /\ exc' = exc
  BY <1>1, <1>2, <1>3 DEF Step
<1>7. x.kind = "throw" /\ x.pc = "visit" /\ x.handler = 0 /\ x.mach = frame[p].mach
      /\ x.ci.throw_info_if_owner = frame[p].ci.throw_info_if_owner
      /\ x.ci.exception_object_or_link = ProbedObject(q)
  BY <1>3 DEF RuntimeFrame, CatchInfo
<1> HIDE DEF x
<1>8. frame'[p] = x /\ \A k \in Slot : k # p => frame'[k] = frame[k]
  BY <1>6 DEF Inv, TypeOK
<1>9. PICK r \in Slot : /\ ProbedObject(q) = Link(r) /\ r \in 1..frame[p].mach
                        /\ frame[r].kind = "catch" /\ Owns(r)
  <2>1. CASE Owns(q)
    BY <1>4, <2>1 DEF ProbedObject, Owns
  <2>2. CASE ~Owns(q)
    <3>1. Obj(q).to = "link" /\ ProbedObject(q) = Obj(q)
      BY <1>4, <2>2, RuntimeRefers DEF ProbedObject, Owns, Obj
    <3>2. /\ Obj(q).slot \in Slot /\ Obj(q).slot <= frame[q].mach
          /\ frame[Obj(q).slot].kind = "catch" /\ Owns(Obj(q).slot)
          /\ frame[q].mach < q /\ frame[q].mach \in Int
      BY <1>4, <2>2, <3>1, RuntimeRefers
    <3>3. Obj(q) = Link(Obj(q).slot)
      <4>1. Obj(q) \in ObjOrLink
        BY <1>4, RuntimeFrameType DEF Inv, Obj, RuntimeFrame, CatchInfo
      <4> QED
        BY <3>1, <4>1 DEF ObjOrLink, Link
    <3> QED
      BY <1>3, <1>4, <3>1, <3>2, <3>3 DEF Slot
  <2> QED
    BY <2>1, <2>2
<1>10. LinkShape(p)'
  <2>1. r # p /\ frame'[r] = frame[r]
    BY <1>3, <1>8, <1>9
  <2>2. Owns(r)'
    BY <1>9, <2>1 DEF Owns, IsRuntime
  <2>3. Obj(p)' = Link(r)
    BY <1>7, <1>8, <1>9 DEF Obj
  <2> QED
    BY <1>7, <1>8, <1>9, <2>1, <2>2, <2>3 DEF LinkShape, Link
<1>11. IsRuntime(p)' /\ Info(p)' = Info(p)
  BY <1>7, <1>8 DEF IsRuntime, Info
<1>12. Resolved(p)'
  BY <1>7, <1>8 DEF Resolved
<1>13. \A k \in Slot : IsRuntime(k) /\ ~Owns(k) /\ Obj(k).to = "link" => Obj(k).slot # p
  <2>1. \A k \in Slot : k > p => ~IsRuntime(k)
    BY <1>1 DEF IsRuntime, Inv, StackShape, Free
  <2> QED
    BY <2>1, LinksLeadDown
<1> QED
  BY <1>3, <1>5, <1>6, <1>8, <1>10, <1>11, <1>12, <1>13, KeepOwn

\* The dispatcher moves past a code frame, which nobody links to.
LEMMA UnwindFrameOwn == ASSUME Inv, OwnInv, UnwindFrame PROVE OwnInv'
<1>1. PICK p \in Slot : p = top
  BY TopType
<1>2. /\ T = frame[p] /\ frame[p] \in RuntimeFrame /\ ThrowShape(p) /\ RuntimeShape(p)
      /\ frame[p].kind = "throw" /\ frame[p].pc = "unwind" /\ frame[p].handler = 0
      /\ IsRuntime(p)
  BY <1>1, DispatchingType DEF UnwindFrame
<1>3. PICK m \in Slot : m = frame[p].mach /\ IsCode(m) /\ m < p
  BY <1>2 DEF ThrowShape, RuntimeShape, RuntimeFrame, Slot
<1>4. ~IsRuntime(m)
  BY <1>3, CodeFrameType DEF Inv
<1> DEFINE x == UnwoundFrame(frame[p])
<1>5. /\ x.kind = "throw" /\ x.pc = "visit" /\ x.mach = m - 1
      /\ x.handler = 0 /\ x.ci = frame[p].ci
  BY <1>2, <1>3, <1>4 DEF UnwoundFrame, Caller, RuntimeFrame
<1>6. frame' = [frame EXCEPT ![m] = Free, ![p] = x] /\ exc' = exc
  BY <1>1, <1>2, <1>3 DEF UnwindFrame
<1> HIDE DEF x
<1>7. \A q \in Slot : frame'[q] = IF q = p THEN x ELSE IF q = m THEN Free ELSE frame[q]
  BY <1>6 DEF Inv, TypeOK
<1>8. IsRuntime(p)' /\ Obj(p)' = Obj(p) /\ Info(p)' = Info(p)
  BY <1>5, <1>7 DEF IsRuntime, Obj, Info
<1>9. \A k \in Slot : k # p /\ (IsRuntime(k) \/ IsRuntime(k)') => frame'[k] = frame[k]
  BY <1>4, <1>7 DEF IsRuntime, Free
<1>10. \A k \in Slot : IsRuntime(k) /\ ~Owns(k) /\ Obj(k).to = "link" => Obj(k).slot # p
  <2>1. \A k \in Slot : k > p => ~IsRuntime(k)
    BY <1>1 DEF IsRuntime, Inv, StackShape, Free
  <2> QED
    BY <2>1, LinksLeadDown
<1>11. ASSUME ~Owns(p) PROVE LinkShape(p)'
  <2>1. CASE Obj(p).to # "link"
    BY <1>2, <1>5, <1>7, <1>8, <1>11, <2>1, RuntimeRefers DEF LinkShape
  <2>2. CASE Obj(p).to = "link"
    <3>1. PICK q \in Slot : q = Obj(p).slot /\ q <= m /\ frame[q].kind = "catch" /\ Owns(q)
      BY <1>2, <1>3, <1>11, <2>2, RuntimeRefers
    <3>2. q # m
      BY <1>3, <3>1 DEF IsCode
    <3>3. q # p /\ frame'[q] = frame[q]
      BY <1>3, <1>7, <3>1, <3>2 DEF Slot
    <3>4. Owns(q)'
      BY <3>1, <3>3 DEF Owns, IsRuntime
    <3>5. q \in 1..x.mach
      BY <1>3, <1>5, <3>1, <3>2 DEF Slot
    <3> QED
      BY <1>7, <1>8, <2>2, <3>1, <3>3, <3>4, <3>5 DEF LinkShape
  <2> QED
    BY <2>1, <2>2
<1>12. Resolved(p)'
  BY <1>5, <1>7 DEF Resolved
<1>13. frame'[p].mach <= frame[p].mach /\ frame'[p].mach \in Int
  BY <1>3, <1>5, <1>7 DEF Slot
<1> QED
  BY <1>2, <1>6, <1>8, <1>9, <1>10, <1>11, <1>12, <1>13, KeepOwn

\* A dispatch that calls a handler hands its exception to the catch frame.
LEMMA CallHandlerOwn == ASSUME Inv, OwnInv, CallHandler PROVE OwnInv'
<1>1. PICK p \in Slot : p = top
  BY TopType
<1>2. /\ T = frame[p] /\ frame[p] \in RuntimeFrame /\ ThrowShape(p) /\ RuntimeShape(p)
      /\ frame[p].kind = "throw" /\ frame[p].pc = "unwind" /\ frame[p].handler # 0
      /\ IsRuntime(p)
  BY <1>1, DispatchingType DEF CallHandler
<1>3. PICK n \in Slot : n = p + 1
  BY <1>2, ProgramAssumption DEF ThrowShape, Slot
<1> DEFINE x == [frame[p] EXCEPT !.kind = "catch", !.pc = "handler",
                                 !.state = -1, !.target_state = -1]
           f == frame[frame[p].mach].fn
           y == [kind |-> "code", fn |-> f, block |-> frame[p].handler,
                 state |-> HandlerState(f, frame[p].handler),
                 primary |-> frame[p].ci.primary_frame_ptr]
<1>4. x.kind = "catch" /\ x.mach = frame[p].mach /\ x.ci = frame[p].ci
  BY <1>2 DEF RuntimeFrame
<1>5. y.kind = "code"
  OBVIOUS
<1>6. frame' = [frame EXCEPT ![p] = x, ![n] = y] /\ exc' = exc
  BY <1>1, <1>2, <1>3 DEF CallHandler
<1> HIDE DEF x, y
<1>7. \A q \in Slot : frame'[q] = IF q = n THEN y ELSE IF q = p THEN x ELSE frame[q]
  BY <1>6 DEF Inv, TypeOK
<1>8. p # n /\ frame'[p] = x /\ frame[n] = Free
  BY <1>1, <1>3, <1>7 DEF Inv, StackShape, Slot
<1>9. IsRuntime(p)' /\ Obj(p)' = Obj(p) /\ Info(p)' = Info(p)
  BY <1>4, <1>8 DEF IsRuntime, Obj, Info
<1>10. \A k \in Slot : k # p /\ (IsRuntime(k) \/ IsRuntime(k)') => frame'[k] = frame[k]
  BY <1>5, <1>7, <1>8 DEF IsRuntime, Free
<1>11. ASSUME ~Owns(p) PROVE LinkShape(p)'
  <2>1. Obj(p).to = "link" /\ Obj(p).slot \in 1..frame[p].mach
    BY <1>2, <1>11, RuntimeRefers DEF OwnInv, Resolved, LinkShape
  <2>2. PICK q \in Slot : q = Obj(p).slot /\ frame[q].kind = "catch" /\ Owns(q)
    BY <1>2, <1>11, <2>1, RuntimeRefers
  <2>3. q # p /\ IsRuntime(q) /\ frame'[q] = frame[q]
    BY <1>2, <1>10, <2>2 DEF IsRuntime
  <2>4. Owns(q)'
    BY <2>2, <2>3 DEF Owns, IsRuntime
  <2> QED
    BY <1>4, <1>8, <1>9, <2>1, <2>2, <2>3, <2>4 DEF LinkShape
<1>12. Resolved(p)'
  BY <1>4, <1>8 DEF Resolved
<1>13. frame'[p].mach <= frame[p].mach /\ frame'[p].mach \in Int
  BY <1>2, <1>4, <1>8, RuntimeRefers
<1>14. frame'[p].kind = "catch"
  BY <1>4, <1>8
<1> QED
  BY <1>2, <1>6, <1>9, <1>10, <1>11, <1>12, <1>13, <1>14, KeepOwn

\* A handler that returns leaves its catch frame what it owns or links to.
LEMMA CatchReturnOwn == ASSUME Inv, OwnInv, CatchReturn PROVE OwnInv'
<1>1. /\ top \in Slot /\ IsCode(top) /\ CodeShape(top) /\ T = frame[top]
      /\ MaxDepth \in Nat /\ ~IsRuntime(top)
  BY TopType, CodeFrameType DEF CatchReturn, Running, T, Inv
<1>2. PICK p \in Slot : p = top - 1 /\ frame[p].kind = "catch"
  BY <1>1 DEF CatchReturn, CodeShape, Slot
<1>3. IsRuntime(p) /\ frame[p] \in RuntimeFrame
  BY <1>2, RuntimeFrameType DEF IsRuntime, Inv
<1> DEFINE x == [frame[p] EXCEPT !.kind = "destroy", !.pc = "destroy"]
<1>4. x.kind = "destroy" /\ x.mach = frame[p].mach /\ x.ci = frame[p].ci
  BY <1>3 DEF RuntimeFrame
<1>5. frame' = [frame EXCEPT ![top] = Free, ![p] = x] /\ exc' = exc
  <2>1. frame[top - 1] = frame[p] /\ top - 1 = p /\ p # top
    BY <1>1, <1>2 DEF Slot
  <2> QED
    BY <1>1, <2>1 DEF CatchReturn, Inv, TypeOK
<1> HIDE DEF x
<1>6. \A q \in Slot : frame'[q] = IF q = p THEN x ELSE IF q = top THEN Free ELSE frame[q]
  BY <1>5 DEF Inv, TypeOK
<1>7. IsRuntime(p)' /\ Obj(p)' = Obj(p) /\ Info(p)' = Info(p)
  BY <1>4, <1>6 DEF IsRuntime, Obj, Info
<1>8. \A k \in Slot : k # p /\ (IsRuntime(k) \/ IsRuntime(k)') => frame'[k] = frame[k]
  BY <1>1, <1>6 DEF IsRuntime, Free
<1>9. \A k \in Slot : IsRuntime(k) /\ ~Owns(k) /\ Obj(k).to = "link" => Obj(k).slot # p
  <2>1. ASSUME NEW k \in Slot, k > p PROVE ~IsRuntime(k)
    <3>1. k = top \/ k > top
      BY <1>1, <1>2, <2>1 DEF Slot
    <3> QED
      BY <1>1, <3>1 DEF IsRuntime, Inv, StackShape, Free
  <2> QED
    BY <2>1, LinksLeadDown
<1>10. ASSUME ~Owns(p) PROVE LinkShape(p)'
  <2>1. Obj(p).to = "link" /\ Obj(p).slot \in 1..frame[p].mach
    BY <1>2, <1>3, <1>10, RuntimeRefers DEF LinkShape
  <2>2. PICK q \in Slot : q = Obj(p).slot /\ frame[q].kind = "catch" /\ Owns(q)
    BY <1>3, <1>10, <2>1, RuntimeRefers
  <2>3. q # p /\ IsRuntime(q) /\ frame'[q] = frame[q]
    BY <1>8, <1>10, <2>2 DEF IsRuntime
  <2>4. Owns(q)'
    BY <2>2, <2>3 DEF Owns, IsRuntime
  <2> QED
    BY <1>4, <1>6, <1>7, <2>1, <2>2, <2>3, <2>4 DEF LinkShape
<1>11. Resolved(p)'
  BY <1>4, <1>6 DEF Resolved
<1>12. frame'[p].mach <= frame[p].mach /\ frame'[p].mach \in Int
  BY <1>3, <1>4, <1>6, RuntimeRefers
<1> QED
  BY <1>3, <1>5, <1>7, <1>8, <1>9, <1>10, <1>11, <1>12, KeepOwn

----------------------------------------------------------------------------
(* A throw, which creates an exception, and a rethrow, which does not.     *)

\* A dispatch pushed on the newest frame owns the exception stored in that
\* frame, or searches.
LEMMA PushOwn ==
    ASSUME Inv, OwnInv, Running, NEW n \in Slot, n = top + 1,
           NEW x, x.kind = "throw", x.pc = "visit", x.mach = top, x.handler = 0,
           frame' = [frame EXCEPT ![n] = x],
           \/ /\ x.ci.exception_object_or_link = Object(top)
              /\ x.ci.throw_info_if_owner # NoInfo
              /\ exc' = [exc EXCEPT ![top] = x.ci.throw_info_if_owner]
           \/ /\ x.ci.exception_object_or_link = Null
              /\ x.ci.throw_info_if_owner = NoInfo
              /\ exc' = exc
    PROVE  OwnInv'
<1>1. top \in Slot /\ MaxDepth \in Nat
  BY TopType
<1>2. \A k \in Slot : IsRuntime(k) => k # n /\ k <= top
  BY <1>1, RuntimeRefers DEF Slot
<1>3. frame'[n] = x /\ \A k \in Slot : k # n => frame'[k] = frame[k]
  BY DEF Inv, TypeOK
<1>4. /\ IsRuntime(n)' /\ Obj(n)' = x.ci.exception_object_or_link
      /\ Info(n)' = x.ci.throw_info_if_owner
  BY <1>3 DEF IsRuntime, Obj, Info
<1>5. \A k \in Slot : k # n => (IsRuntime(k)' <=> IsRuntime(k)) /\ (Owns(k)' <=> Owns(k))
                               /\ Obj(k)' = Obj(k) /\ Info(k)' = Info(k)
  BY <1>3 DEF IsRuntime, Owns, Obj, Info
<1>6. \A k \in Slot : Owns(k) => k # n /\ OwnerShape(k) /\ Obj(k).slot \in Slot
                                 /\ Obj(k).slot # top /\ Obj(k) = Object(Obj(k).slot)
  <2>1. SUFFICES ASSUME NEW k \in Slot, Owns(k)
                 PROVE  k # n /\ OwnerShape(k) /\ Obj(k).slot \in Slot /\ Obj(k).slot # top
                        /\ Obj(k) = Object(Obj(k).slot)
    OBVIOUS
  <2>2. IsRuntime(k)
    BY <2>1 DEF Owns
  <2>3. OwnerShape(k) /\ k # n /\ k <= top
    BY <1>2, <2>1, <2>2, RuntimeRefers
  <2> QED
    BY <1>1, <2>3 DEF OwnerShape, Slot
<1>7. \A t \in Slot : t # top => exc'[t] = exc[t]
  BY DEF Inv, TypeOK
<1>8. Owns(n)' <=> x.ci.throw_info_if_owner # NoInfo
  BY <1>3, <1>4 DEF Owns
<1>9. Owns(n)' => /\ Obj(n)' = Object(top) /\ exc'[top] = Info(n)'
                  /\ Object(top).slot = top
  BY <1>1, <1>4, <1>8 DEF Object, Null, Inv, TypeOK
<1>10. ASSUME NEW k \in Slot, Owns(k)' PROVE OwnerShape(k)'
  <2>1. CASE k = n
    <3>1. Obj(k)' = Object(top) /\ exc'[top] = Info(k)' /\ Object(top).slot = top
      BY <1>9, <1>10, <2>1
    <3> QED
      BY <1>1, <1>3, <2>1, <3>1 DEF OwnerShape, Slot
  <2>2. CASE k # n
    <3>1. Owns(k) /\ OwnerShape(k) /\ Obj(k)' = Obj(k) /\ Info(k)' = Info(k)
          /\ Obj(k).slot # top /\ Obj(k).slot \in Slot /\ frame'[k] = frame[k]
      BY <1>3, <1>5, <1>6, <1>10, <2>2
    <3>2. exc'[Obj(k).slot] = exc[Obj(k).slot]
      BY <1>7, <3>1
    <3> QED
      BY <3>1, <3>2 DEF OwnerShape
  <2> QED
    BY <2>1, <2>2
<1>11. ASSUME NEW j \in Slot, NEW k \in Slot, Owns(j)', Owns(k)', Obj(j)' = Obj(k)' PROVE j = k
  <2>1. \A i \in Slot : i # n /\ Owns(i)' => Obj(i)' # Object(top)
    BY <1>5, <1>6 DEF Object
  <2>2. CASE j # n /\ k # n
    BY <1>5, <1>11, <2>2 DEF OwnInv
  <2> QED
    BY <1>9, <1>11, <2>1, <2>2
<1>12. ASSUME NEW t \in Slot, exc'[t] # NoInfo
       PROVE  \E k \in Slot : Owns(k)' /\ Obj(k)' = Object(t)
  <2>1. CASE Owns(n)' /\ t = top
    BY <1>9, <2>1
  <2>2. CASE ~(Owns(n)' /\ t = top)
    <3>1. exc[t] # NoInfo
      BY <1>7, <1>8, <1>12, <2>2
    <3>2. PICK k \in Slot : Owns(k) /\ Obj(k) = Object(t)
      BY <3>1 DEF OwnInv
    <3> QED
      BY <1>5, <1>6, <3>2
  <2> QED
    BY <2>1, <2>2
<1>13. ASSUME NEW k \in Slot, IsRuntime(k)', ~Owns(k)' PROVE LinkShape(k)'
  <2>1. CASE k = n
    BY <1>3, <1>4, <1>8, <1>13, <2>1 DEF LinkShape
  <2>2. CASE k # n
    <3>1. IsRuntime(k) /\ ~Owns(k) /\ LinkShape(k) /\ Obj(k)' = Obj(k) /\ frame'[k] = frame[k]
      BY <1>3, <1>5, <1>13, <2>2 DEF OwnInv
    <3>2. ASSUME Obj(k).to = "link"
          PROVE  frame'[Obj(k)'.slot].kind = "catch" /\ Owns(Obj(k).slot)'
      <4>1. PICK q \in Slot : q = Obj(k).slot /\ frame[q].kind = "catch" /\ Owns(q)
        BY <3>1, <3>2, RuntimeRefers
      <4>2. frame'[q].kind = "catch" /\ Owns(q)'
        BY <1>3, <1>5, <1>6, <4>1
      <4> QED
        BY <3>1, <4>1, <4>2
    <3> QED
      BY <3>1, <3>2 DEF LinkShape
  <2> QED
    BY <2>1, <2>2
<1>14. ASSUME NEW k \in Slot PROVE Resolved(k)'
  <2>1. CASE k = n
    BY <1>3, <2>1 DEF Resolved
  <2>2. CASE k # n
    <3>1. Resolved(k) /\ frame'[k] = frame[k] /\ Obj(k)' = Obj(k)
      BY <1>3, <1>5, <2>2 DEF OwnInv
    <3> QED
      BY <3>1 DEF Resolved
  <2> QED
    BY <2>1, <2>2
<1> QED
  BY <1>10, <1>11, <1>12, <1>13, <1>14 DEF OwnInv

\* The dispatch a throw starts owns the exception thrown.
LEMMA ThrowOwn == ASSUME Inv, OwnInv, NEW t \in Types, Throw(t) PROVE OwnInv'
<1>1. PICK n \in Slot : n = top + 1
  BY TopType DEF Throw, PushThrowFrame, Slot
<1> DEFINE x == [kind |-> "throw", mach |-> top, pc |-> "visit",
                 ci |-> [exception_object_or_link |-> Object(top),
                         throw_info_if_owner |-> t,
                         primary_frame_ptr |-> NullFrame,
                         unwind_context |-> [state |-> -1, home_block_index |-> 0]],
                 state |-> -1, target_state |-> -1, handler |-> 0]
<1>2. frame' = [frame EXCEPT ![n] = x] /\ exc' = [exc EXCEPT ![top] = t] /\ Running
  BY <1>1 DEF Throw, PushThrowFrame
<1>3. /\ x.kind = "throw" /\ x.pc = "visit" /\ x.mach = top /\ x.handler = 0
      /\ x.ci.exception_object_or_link = Object(top) /\ x.ci.throw_info_if_owner = t
  OBVIOUS
<1>4. t # NoInfo
  BY ThrowInfoAssumption
<1> HIDE DEF x
<1> QED
  BY <1>1, <1>2, <1>3, <1>4, PushOwn

\* The dispatch a rethrow starts owns nothing.
LEMMA RethrowOwn == ASSUME Inv, OwnInv, Rethrow PROVE OwnInv'
<1>1. PICK n \in Slot : n = top + 1
  BY TopType DEF Rethrow, PushThrowFrame, Slot
<1> DEFINE x == [kind |-> "throw", mach |-> top, pc |-> "visit",
                 ci |-> [exception_object_or_link |-> Null,
                         throw_info_if_owner |-> NoInfo,
                         primary_frame_ptr |-> NullFrame,
                         unwind_context |-> [state |-> -1, home_block_index |-> 0]],
                 state |-> -1, target_state |-> -1, handler |-> 0]
<1>2. frame' = [frame EXCEPT ![n] = x] /\ exc' = exc /\ Running
  BY <1>1 DEF Rethrow, PushThrowFrame
<1>3. /\ x.kind = "throw" /\ x.pc = "visit" /\ x.mach = top /\ x.handler = 0
      /\ x.ci.exception_object_or_link = Null /\ x.ci.throw_info_if_owner = NoInfo
  OBVIOUS
<1> HIDE DEF x
<1> QED
  BY <1>1, <1>2, <1>3, PushOwn

----------------------------------------------------------------------------
(* The steps that destroy an exception, or move it.                        *)

\* The runtime frame in slot m goes, and the exception it owns with it.  The
\* others stay about what they were about, and none of them linked to m.
LEMMA RemoveOwn ==
    ASSUME Inv, OwnInv, NEW m \in Slot, IsRuntime(m), ~IsRuntime(m)',
           exc' = IF Info(m) # NoInfo THEN [exc EXCEPT ![Obj(m).slot] = NoInfo] ELSE exc,
           \A k \in Slot \ {m} : IsRuntime(k)' <=> IsRuntime(k),
           \A k \in Slot \ {m} : IsRuntime(k) =>
                /\ frame'[k].kind = frame[k].kind
                /\ frame'[k].ci.throw_info_if_owner = Info(k)
                /\ frame'[k].ci.exception_object_or_link = Obj(k)
                /\ frame'[k].mach <= frame[k].mach /\ frame'[k].mach \in Int,
           \A k \in Slot \ {m} : IsRuntime(k) /\ ~Owns(k) /\ Obj(k).to = "link" =>
                Obj(k).slot # m /\ Obj(k).slot <= frame'[k].mach,
           \A k \in Slot \ {m} : IsRuntime(k) => Resolved(k)'
    PROVE  OwnInv'
<1>1. \A k \in Slot \ {m} : IsRuntime(k) => Info(k)' = Info(k) /\ Obj(k)' = Obj(k)
  BY DEF Info, Obj
<1>2. \A k \in Slot : Owns(k)' <=> Owns(k) /\ k # m
  BY DEF Owns, Info
<1>3. \A k \in Slot : Owns(k) => IsRuntime(k) /\ OwnerShape(k)
  BY RuntimeRefers DEF Owns
<1>4. \A k \in Slot \ {m} : Owns(k) => exc'[Obj(k).slot] = exc[Obj(k).slot]
  <2>1. SUFFICES ASSUME NEW k \in Slot \ {m}, Owns(k), Owns(m)
                 PROVE  exc'[Obj(k).slot] = exc[Obj(k).slot]
    BY DEF Owns, Info
  <2>2. Obj(k).slot # Obj(m).slot
    <3>1. Obj(k) = Object(Obj(k).slot) /\ Obj(m) = Object(Obj(m).slot)
      BY <1>3, <2>1 DEF OwnerShape
    <3>2. Obj(k) # Obj(m)
      BY <2>1 DEF OwnInv
    <3> QED
      BY <3>1, <3>2
  <2>3. Obj(k).slot \in Slot
    BY <1>3, <2>1 DEF OwnerShape
  <2> QED
    BY <2>2, <2>3 DEF Inv, TypeOK
<1>5. ASSUME NEW k \in Slot, Owns(k)' PROVE OwnerShape(k)'
  <2>1. /\ k # m /\ Owns(k) /\ OwnerShape(k) /\ Obj(k)' = Obj(k) /\ Info(k)' = Info(k)
        /\ frame'[k].mach <= frame[k].mach /\ frame'[k].mach \in Int
        /\ frame[k].mach \in Int
    BY <1>1, <1>2, <1>3, <1>5, RuntimeRefers
  <2>2. exc'[Obj(k).slot] = exc[Obj(k).slot]
    BY <1>4, <2>1
  <2> QED
    BY <2>1, <2>2 DEF OwnerShape, Slot
<1>6. \A j, k \in Slot : Owns(j)' /\ Owns(k)' /\ Obj(j)' = Obj(k)' => j = k
  BY <1>1, <1>2, <1>3 DEF OwnInv
<1>7. ASSUME NEW t \in Slot, exc'[t] # NoInfo
      PROVE  \E k \in Slot : Owns(k)' /\ Obj(k)' = Object(t)
  <2>1. exc[t] # NoInfo /\ (Owns(m) => t # Obj(m).slot)
    BY <1>7 DEF Owns, Info, Inv, TypeOK
  <2>2. PICK k \in Slot : Owns(k) /\ Obj(k) = Object(t)
    BY <2>1 DEF OwnInv
  <2>3. k # m
    BY <2>1, <2>2 DEF Object
  <2> QED
    BY <1>1, <1>2, <1>3, <2>2, <2>3
<1>8. ASSUME NEW k \in Slot, IsRuntime(k)', ~Owns(k)' PROVE LinkShape(k)'
  <2>1. /\ k # m /\ IsRuntime(k) /\ ~Owns(k) /\ LinkShape(k)
        /\ Obj(k)' = Obj(k) /\ frame'[k].kind = frame[k].kind
    BY <1>1, <1>2, <1>8 DEF OwnInv
  <2>2. CASE Obj(k).to # "link"
    BY <2>1, <2>2, RuntimeRefers DEF LinkShape
  <2>3. CASE Obj(k).to = "link"
    <3>1. PICK q \in Slot : q = Obj(k).slot /\ frame[q].kind = "catch" /\ Owns(q)
      BY <2>1, <2>3, RuntimeRefers
    <3>2. q # m /\ q <= frame'[k].mach
      BY <2>1, <2>3, <3>1
    <3>3. frame'[q].kind = "catch" /\ Owns(q)'
      BY <1>2, <1>3, <3>1, <3>2
    <3>4. q \in 1..frame'[k].mach
      BY <2>1, <3>2 DEF Slot
    <3> QED
      BY <2>1, <2>3, <3>1, <3>3, <3>4 DEF LinkShape
  <2> QED
    BY <2>2, <2>3
<1>9. \A k \in Slot : Resolved(k)'
  BY DEF Resolved, IsRuntime
<1> QED
  BY <1>5, <1>6, <1>7, <1>8, <1>9 DEF OwnInv

\* A dispatch passes a catch frame about another exception, which dies.
LEMMA PassCatchFrameOwn == ASSUME Inv, OwnInv, PassCatchFrame PROVE OwnInv'
<1>1. PICK p \in Slot : p = top
  BY TopType
<1>2. /\ T = frame[p] /\ frame[p] \in RuntimeFrame /\ ThrowShape(p) /\ IsRuntime(p)
      /\ frame[p].kind = "throw" /\ frame[p].pc = "destroy" /\ frame[p].handler = 0
  BY <1>1, DispatchingType DEF PassCatchFrame, ThrowShape
<1>3. PICK m \in Slot : m = frame[p].mach /\ frame[m].kind = "catch" /\ m < p
  BY <1>2, RuntimeRefers DEF ThrowShape, Slot
<1>4. IsRuntime(m)
  BY <1>3 DEF IsRuntime
<1>5. frame[m].mach \in Int /\ frame[m].mach < m
  BY <1>4, RuntimeRefers
<1> DEFINE x == [UnwoundFrame(frame[p]) EXCEPT
                    !.ci.primary_frame_ptr = frame[m].ci.primary_frame_ptr,
                    !.ci.unwind_context = frame[m].ci.unwind_context]
<1>6. /\ x.kind = "throw" /\ x.pc = "visit" /\ x.mach = frame[m].mach /\ x.handler = 0
      /\ x.ci.exception_object_or_link = frame[p].ci.exception_object_or_link
      /\ x.ci.throw_info_if_owner = frame[p].ci.throw_info_if_owner
  BY <1>2, <1>3, <1>4 DEF UnwoundFrame, Caller, RuntimeFrame, CatchInfo
<1>7. /\ frame' = [frame EXCEPT ![m] = Free, ![p] = x]
      /\ exc' = IF Info(m) # NoInfo THEN [exc EXCEPT ![Obj(m).slot] = NoInfo] ELSE exc
  BY <1>1, <1>2, <1>3 DEF PassCatchFrame, Info, Obj
<1> HIDE DEF x
<1>8. \A q \in Slot : frame'[q] = IF q = p THEN x ELSE IF q = m THEN Free ELSE frame[q]
  BY <1>7 DEF Inv, TypeOK
<1>9. frame'[m] = Free /\ ~IsRuntime(m)'
  BY <1>3, <1>8 DEF IsRuntime, Free, Slot
<1>10. \A k \in Slot \ {m} : IsRuntime(k)' <=> IsRuntime(k)
  BY <1>2, <1>6, <1>8 DEF IsRuntime
<1>11. ASSUME NEW k \in Slot \ {m}, IsRuntime(k)
       PROVE  /\ frame'[k].kind = frame[k].kind
              /\ frame'[k].ci.throw_info_if_owner = Info(k)
              /\ frame'[k].ci.exception_object_or_link = Obj(k)
              /\ frame'[k].mach <= frame[k].mach /\ frame'[k].mach \in Int
  <2>1. frame[k].mach \in Int
    BY <1>11, RuntimeRefers
  <2> QED
    BY <1>2, <1>3, <1>5, <1>6, <1>8, <2>1 DEF Info, Obj, Slot
<1>12. Obj(p) # Null /\ Obj(p) # Link(m)
  BY <1>2, <1>3 DEF OwnInv, Resolved
<1>13. ASSUME NEW k \in Slot \ {m}, IsRuntime(k), ~Owns(k), Obj(k).to = "link"
       PROVE  Obj(k).slot # m /\ Obj(k).slot <= frame'[k].mach
  <2>1. PICK q \in Slot : q = Obj(k).slot /\ q <= frame[k].mach /\ frame[q].kind = "catch"
    BY <1>13, RuntimeRefers
  <2>2. k <= top /\ frame[k].mach < k /\ frame[k].mach \in Int
    BY <1>13, RuntimeRefers
  <2>3. CASE k = p
    <3>1. q # m
      <4>1. Obj(p) \in ObjOrLink
        BY <1>2 DEF Obj, RuntimeFrame, CatchInfo
      <4> QED
        BY <1>12, <1>13, <2>1, <2>3, <4>1 DEF ObjOrLink, Link
    <3>2. q < m /\ frame[q] # Free
      BY <1>3, <2>1, <2>3, <3>1 DEF Free, Slot
    <3>3. ~(frame[m].mach < q)
      BY <1>4, <3>2, RuntimeRefers
    <3> QED
      BY <1>5, <1>6, <1>8, <2>1, <2>3, <3>1, <3>3 DEF Slot
  <2>4. CASE k # p
    <3>1. k < m
      <4>1. k < p
        BY <1>1, <2>2, <2>4 DEF Slot
      <4>2. frame[k] # Free
        BY <1>13 DEF IsRuntime, Free
      <4>3. ~(m < k)
        BY <1>2, <1>3, <4>1, <4>2, RuntimeRefers
      <4> QED
        BY <1>13, <4>3 DEF Slot
    <3>2. frame'[k] = frame[k]
      BY <1>8, <1>13, <2>4
    <3> QED
      BY <2>1, <2>2, <3>1, <3>2 DEF Slot
  <2> QED
    BY <2>3, <2>4
<1>14. ASSUME NEW k \in Slot \ {m}, IsRuntime(k) PROVE Resolved(k)'
  <2>1. CASE k = p
    BY <1>6, <1>8, <2>1 DEF Resolved
  <2>2. CASE k # p
    <3>1. frame'[k] = frame[k] /\ Resolved(k)
      BY <1>8, <2>2 DEF OwnInv
    <3> QED
      BY <3>1 DEF Resolved, Obj
  <2> QED
    BY <2>1, <2>2
<1> HIDE DEF x
<1> QED
  BY <1>4, <1>7, <1>9, <1>10, <1>11, <1>13, <1>14, RemoveOwn

\* A catch frame that has run its handler goes, and its exception with it.
LEMMA ContinueAfterExceptionOwn ==
    ASSUME Inv, OwnInv, ContinueAfterException PROVE OwnInv'
<1>1. PICK p \in Slot : p = top
  BY TopType
<1>2. /\ T = frame[p] /\ frame[p].kind = "destroy" /\ IsRuntime(p)
      /\ RuntimeShape(p) /\ CatchShape(p)
  BY <1>1, TopType DEF ContinueAfterException, IsRuntime, T, RuntimeShape
<1>3. PICK m \in Slot : m = frame[p].mach /\ IsCode(m) /\ m < p
  BY <1>2, RuntimeRefers DEF CatchShape, Slot
<1> DEFINE s == Eh[frame[m].fn].next[Block(frame[m].fn, frame[p].handler).try_low]
           x == [frame[m] EXCEPT !.state = s]
<1>4. x.kind = "code"
  BY <1>3, CodeFrameType DEF Inv, CodeFrame
<1>5. exc' = IF Info(p) # NoInfo THEN [exc EXCEPT ![Obj(p).slot] = NoInfo] ELSE exc
  BY <1>1, <1>2 DEF ContinueAfterException, Info, Obj
<1>6. frame' = [frame EXCEPT ![p] = Free, ![m] = x]
  <2>1. frame' = [frame EXCEPT ![p] = Free, ![m].state = s]
    BY <1>1, <1>2, <1>3 DEF ContinueAfterException
  <2>2. m # p /\ frame \in [Slot -> Frame]
    BY <1>3 DEF Inv, TypeOK, Slot
  <2> QED
    BY <2>1, <2>2
<1> HIDE DEF x
<1>7. \A k \in Slot : frame'[k] = IF k = m THEN x ELSE IF k = p THEN Free ELSE frame[k]
  BY <1>6 DEF Inv, TypeOK
<1>8. ~IsRuntime(p)' /\ p # m /\ ~IsRuntime(m)
  BY <1>3, <1>7, CodeFrameType DEF IsRuntime, Free, Slot, Inv
<1>9. \A k \in Slot \ {p} : IsRuntime(k)' <=> IsRuntime(k)
  BY <1>4, <1>7, <1>8 DEF IsRuntime
<1>10. \A k \in Slot \ {p} : IsRuntime(k) => frame'[k] = frame[k] /\ frame[k].mach \in Int
  BY <1>7, <1>8, RuntimeRefers
<1>11. ASSUME NEW k \in Slot \ {p}, IsRuntime(k), ~Owns(k), Obj(k).to = "link"
       PROVE  Obj(k).slot # p /\ Obj(k).slot <= frame'[k].mach
  <2>1. \A q \in Slot : q > p => ~IsRuntime(q)
    BY <1>1 DEF IsRuntime, Inv, StackShape, Free
  <2> QED
    BY <1>10, <1>11, <2>1, LinksLeadDown, RuntimeRefers
<1>12. \A k \in Slot \ {p} : IsRuntime(k) => Resolved(k)'
  BY <1>10 DEF OwnInv, Resolved, Obj
<1>13. \A k \in Slot \ {p} : IsRuntime(k) =>
            /\ frame'[k].kind = frame[k].kind
            /\ frame'[k].ci.throw_info_if_owner = Info(k)
            /\ frame'[k].ci.exception_object_or_link = Obj(k)
            /\ frame'[k].mach <= frame[k].mach /\ frame'[k].mach \in Int
  BY <1>10 DEF Info, Obj
<1> QED
  BY <1>2, <1>5, <1>8, <1>9, <1>11, <1>12, <1>13, RemoveOwn

\* A rethrow takes over what the catch frame it reaches owns or links to.
LEMMA TakeFromCatchFrameOwn == ASSUME Inv, OwnInv, TakeFromCatchFrame PROVE OwnInv'
<1>1. PICK p \in Slot : p = top
  BY TopType
<1>2. /\ T = frame[p] /\ frame[p] \in RuntimeFrame /\ IsRuntime(p)
      /\ frame[p].kind = "throw" /\ frame[p].handler = 0
  BY <1>1, DispatchingType DEF TakeFromCatchFrame, AtCatchFrame, ThrowShape
<1>3. PICK m \in Slot : m = frame[p].mach /\ frame[m].kind = "catch" /\ m < p
  BY <1>2, RuntimeRefers DEF TakeFromCatchFrame, AtCatchFrame, Slot
<1>4. IsRuntime(m)
  BY <1>3 DEF IsRuntime
<1>5. frame[m].mach \in Int /\ frame[m].mach < m
  BY <1>4, RuntimeRefers
<1> DEFINE x == [UnwoundFrame(frame[p]) EXCEPT !.ci = frame[m].ci]
<1>6. /\ x.kind = "throw" /\ x.pc = "visit" /\ x.mach = frame[m].mach /\ x.handler = 0
      /\ x.ci = frame[m].ci
  BY <1>2, <1>3, <1>4 DEF UnwoundFrame, Caller, RuntimeFrame
<1>7. frame' = [frame EXCEPT ![m] = Free, ![p] = x] /\ exc' = exc
  BY <1>1, <1>2, <1>3 DEF TakeFromCatchFrame
<1>8. ~Owns(p)
  <2>1. Obj(p) \in {Null, Link(m)}
    BY <1>2, <1>3 DEF TakeFromCatchFrame, TakesException, Obj
  <2>2. Obj(p).to # "object"
    BY <2>1 DEF Null, Link
  <2> QED
    BY <1>2, <2>2, RuntimeRefers
<1> HIDE DEF x
<1>9. \A q \in Slot : frame'[q] = IF q = p THEN x ELSE IF q = m THEN Free ELSE frame[q]
  BY <1>7 DEF Inv, TypeOK
<1>10. /\ ~IsRuntime(m)' /\ ~Owns(m)' /\ IsRuntime(p)'
       /\ Obj(p)' = Obj(m) /\ Info(p)' = Info(m) /\ frame'[p] = x
  BY <1>3, <1>6, <1>9 DEF IsRuntime, Owns, Obj, Info, Free, Slot
<1>11. Owns(p)' <=> Owns(m)
  BY <1>4, <1>6, <1>10 DEF Owns
<1>12. \A k \in Slot \ {m, p} : frame'[k] = frame[k] /\ (IsRuntime(k)' <=> IsRuntime(k))
          /\ (Owns(k)' <=> Owns(k)) /\ Obj(k)' = Obj(k) /\ Info(k)' = Info(k)
  BY <1>9 DEF IsRuntime, Owns, Obj, Info
<1>13. ASSUME NEW k \in Slot, IsRuntime(k), ~Owns(k), Obj(k).to = "link", k # p
       PROVE  Obj(k).slot # m /\ Obj(k).slot # p
  <2>1. /\ Obj(k).slot \in Slot /\ Obj(k).slot <= frame[k].mach
        /\ frame[k].mach < k /\ k <= top /\ frame[k].mach \in Int
    BY <1>13, RuntimeRefers
  <2>2. ~(m < k /\ k < p)
    <3>1. frame[k] # Free
      BY <1>13 DEF IsRuntime, Free
    <3> QED
      BY <1>2, <1>3, <3>1, RuntimeRefers
  <2> QED
    BY <1>1, <1>3, <1>13, <2>1, <2>2 DEF Slot
<1>14. ASSUME NEW k \in Slot, Owns(k)' PROVE OwnerShape(k)'
  <2>1. CASE k = p
    <3>1. Owns(m) /\ OwnerShape(m)
      BY <1>4, <1>11, <1>14, <2>1, RuntimeRefers
    <3> QED
      BY <1>3, <1>6, <1>7, <1>10, <2>1, <3>1 DEF OwnerShape, Slot
  <2>2. CASE k # p
    <3>1. k # m /\ Owns(k) /\ OwnerShape(k) /\ frame'[k] = frame[k]
          /\ Obj(k)' = Obj(k) /\ Info(k)' = Info(k)
      BY <1>10, <1>12, <1>14, <2>2 DEF OwnInv
    <3> QED
      BY <1>7, <3>1 DEF OwnerShape
  <2> QED
    BY <2>1, <2>2
<1>15. ASSUME NEW j \in Slot, NEW k \in Slot, Owns(j)', Owns(k)', Obj(j)' = Obj(k)' PROVE j = k
  <2>1. \A i \in Slot : Owns(i)' => /\ i # m
                                    /\ i = p => Owns(m) /\ Obj(i)' = Obj(m)
                                    /\ i # p => Owns(i) /\ Obj(i)' = Obj(i)
    BY <1>10, <1>11, <1>12
  <2> QED
    BY <1>15, <2>1 DEF OwnInv
<1>16. ASSUME NEW t \in Slot, exc'[t] # NoInfo
       PROVE  \E k \in Slot : Owns(k)' /\ Obj(k)' = Object(t)
  <2>1. PICK k \in Slot : Owns(k) /\ Obj(k) = Object(t)
    BY <1>7, <1>16 DEF OwnInv
  <2>2. k # p
    BY <1>8, <2>1
  <2> QED
    BY <1>10, <1>11, <1>12, <2>1, <2>2
<1>17. ASSUME NEW k \in Slot, IsRuntime(k)', ~Owns(k)' PROVE LinkShape(k)'
  <2>1. CASE k = p
    <3>1. ~Owns(m) /\ LinkShape(m)
      BY <1>4, <1>11, <1>17, <2>1, RuntimeRefers
    <3>2. Obj(m).to = "link" /\ Obj(m).slot \in 1..frame[m].mach
      BY <1>3, <3>1 DEF LinkShape
    <3>3. PICK q \in Slot : q = Obj(m).slot /\ frame[q].kind = "catch" /\ Owns(q)
      BY <1>4, <3>1, <3>2, RuntimeRefers
    <3>4. q \in Slot \ {m, p}
      BY <1>8, <3>1, <3>3
    <3>5. frame'[q].kind = "catch" /\ Owns(q)'
      BY <1>12, <3>3, <3>4
    <3> QED
      BY <1>6, <1>10, <2>1, <3>2, <3>3, <3>5 DEF LinkShape
  <2>2. CASE k # p
    <3>1. /\ k # m /\ IsRuntime(k) /\ ~Owns(k) /\ LinkShape(k) /\ frame'[k] = frame[k]
          /\ Obj(k)' = Obj(k)
      BY <1>10, <1>12, <1>17, <2>2 DEF OwnInv
    <3>2. ASSUME Obj(k).to = "link"
          PROVE  frame'[Obj(k)'.slot].kind = "catch" /\ Owns(Obj(k).slot)'
      <4>1. PICK q \in Slot : q = Obj(k).slot /\ frame[q].kind = "catch" /\ Owns(q)
        BY <3>1, <3>2, RuntimeRefers
      <4>2. q # m /\ q # p
        BY <1>13, <2>2, <3>1, <3>2, <4>1
      <4>3. frame'[q].kind = "catch" /\ Owns(q)'
        BY <1>12, <4>1, <4>2
      <4> QED
        BY <3>1, <4>1, <4>3
    <3> QED
      BY <3>1, <3>2 DEF LinkShape
  <2> QED
    BY <2>1, <2>2
<1>18. ASSUME NEW k \in Slot PROVE Resolved(k)'
  <2>1. CASE k = p
    BY <1>6, <1>10, <2>1 DEF Resolved
  <2>2. CASE k = m
    BY <1>10, <2>2 DEF Resolved, IsRuntime
  <2>3. CASE k # p /\ k # m
    <3>1. frame'[k] = frame[k] /\ Obj(k)' = Obj(k) /\ Resolved(k)
      BY <1>12, <2>3 DEF OwnInv
    <3> QED
      BY <3>1 DEF Resolved
  <2> QED
    BY <2>1, <2>2, <2>3
<1> QED
  BY <1>14, <1>15, <1>16, <1>17, <1>18 DEF OwnInv

----------------------------------------------------------------------------
\* Calls, returns and the states control enters and leaves are no business of
\* the runtime's frames.
LEMMA UserStepOwn ==
    ASSUME Inv, OwnInv, (\E f \in Fns : Call(f)) \/ (\E s \in Nat : Enter(s)) \/ Leave \/ Return
    PROVE  OwnInv'
<1>1. ASSUME NEW n \in Slot, ~IsRuntime(n), ~IsRuntime(n)', exc' = exc,
             \A k \in Slot : k # n => frame'[k] = frame[k]
      PROVE  OwnInv'
  <2>1. \A k \in Slot : IsRuntime(k) \/ IsRuntime(k)' => frame'[k] = frame[k]
    BY <1>1
  <2> QED
    BY <1>1, <2>1, OwnUnchanged
<1>2. PICK p \in Slot : p = top
  BY TopType
<1>3. ASSUME NEW f \in Fns, Call(f) PROVE OwnInv'
  <2>1. PICK n \in Slot : n = p + 1
    BY <1>2, <1>3, TopType DEF Call, Slot
  <2>2. ~IsRuntime(n)
    BY <1>2, <2>1 DEF Inv, StackShape, IsRuntime, Free, Slot
  <2>3. frame'[n].kind = "code" /\ (\A k \in Slot : k # n => frame'[k] = frame[k]) /\ exc' = exc
    BY <1>2, <1>3, <2>1 DEF Call, Inv, TypeOK
  <2> QED
    BY <1>1, <2>2, <2>3 DEF IsRuntime
<1>4. Running => IsCode(p) /\ ~IsRuntime(p) /\ T = frame[p] /\ frame[p] \in CodeFrame
  BY <1>2, CodeFrameType DEF Running, Inv, T
<1>5. ASSUME NEW s, Running, frame' = [frame EXCEPT ![p].state = s], exc' = exc PROVE OwnInv'
  <2>1. frame'[p].kind = "code" /\ \A k \in Slot : k # p => frame'[k] = frame[k]
    BY <1>4, <1>5 DEF CodeFrame, Inv, TypeOK
  <2> QED
    BY <1>1, <1>4, <1>5, <2>1 DEF IsRuntime
<1>6. ASSUME NEW s \in Nat, Enter(s) PROVE OwnInv'
  BY <1>2, <1>5, <1>6 DEF Enter
<1>7. CASE Leave
  BY <1>2, <1>5, <1>7 DEF Leave
<1>8. CASE Return
  <2>1. frame'[p].kind = "free" /\ (\A k \in Slot : k # p => frame'[k] = frame[k]) /\ exc' = exc
    BY <1>2, <1>8 DEF Return, Inv, TypeOK, Free
  <2> QED
    BY <1>1, <1>4, <1>8, <2>1 DEF Return, IsRuntime
<1> QED
  BY <1>3, <1>6, <1>7, <1>8

\* The invariant is inductive, relative to the shape of the stack.
LEMMA NextOwn == Inv /\ OwnInv /\ [Next]_vars => OwnInv'
<1> SUFFICES ASSUME Inv, OwnInv, [Next]_vars PROVE OwnInv'
  OBVIOUS
<1>1. ASSUME UNCHANGED <<frame, exc>> PROVE OwnInv'
  BY <1>1, OwnUnchanged
<1>2. CASE UserCode
  <2>1. UNION {0..Eh[f].last : f \in Fns} \subseteq Nat
    BY EhAssumption
  <2> QED
    BY <1>2, <2>1, UserStepOwn, CatchReturnOwn, ThrowOwn, RethrowOwn DEF UserCode
<1>3. CASE Runtime
  <2>1. CASE ProbeFails \/ VisitVerifyFails \/ VisitForeignFrame
    BY <1>1, <2>1 DEF ProbeFails, VisitVerifyFails, VisitForeignFrame, BugCheck
  <2> QED
    BY <1>3, <2>1, ProbeForObjectOwn, VisitCatchingOwn, VisitPassingOwn, UnwindEdgeOwn,
       CalloutReturnsOwn, UnwindFrameOwn, TakeFromCatchFrameOwn, DestroyAtCatchFrameOwn,
       PassCatchFrameOwn, CallHandlerOwn, ContinueAfterExceptionOwn
       DEF Runtime
<1>4. CASE Halted \/ UNCHANGED vars
  BY <1>1, <1>4 DEF Halted, vars
<1> QED
  BY <1>2, <1>3, <1>4 DEF Next

\* Every live exception object has exactly one owner, which keeps the part of
\* the stack it lies in, and no owner is left without its object.  So
\* throw.cpp:237-259 and capture.asm:245-275 neither leak an exception nor
\* destroy one twice, whatever is thrown where and however deep handlers and
\* destructors nest.
THEOREM OwnershipHolds == Spec => []OneOwner
<1>1. Init => Inv /\ OwnInv
  BY InitInv, InitOwn
<1>2. Inv /\ OwnInv /\ [Next]_vars => Inv' /\ OwnInv'
  BY NextInv, NextOwn
<1>3. OwnInv => OneOwner
  BY OwnInvImplies
<1> QED
  BY <1>1, <1>2, <1>3, PTL DEF Spec

\* get_throw_info and get_exception_object (throw.h:15-48) find the exception
\* by following one link, however often it was rethrown.
THEOREM LinksHold == Spec => []LinksReachOwner
<1>1. Init => Inv /\ OwnInv
  BY InitInv, InitOwn
<1>2. Inv /\ OwnInv /\ [Next]_vars => Inv' /\ OwnInv'
  BY NextInv, NextOwn
<1>3. OwnInv => LinksReachOwner
  BY OwnInvImplies
<1> QED
  BY <1>1, <1>2, <1>3, PTL DEF Spec

----------------------------------------------------------------------------
(***************************************************************************)
(* What the dispatcher caches and destroys: the funclets of one            *)
(* activation, the positions that fh3.cpp keeps of them, and the automatic *)
(* objects they own.                                                       *)
(***************************************************************************)

(* The frames of an activation.                                            *)

\* The code frame c is inside of try block i, which its own funclet entered.
TryAround(c, i) ==
    /\ i \in Blocks(c.fn) /\ c.block < i
    /\ Block(c.fn, i).try_low \in Chain(c.fn, c.state)
    /\ c.block # 0 => HandlerState(c.fn, c.block) < Block(c.fn, i).try_low

\* What ci caches is what fh3.cpp:140-142 writes when try block i, around the
\* code frame c, is chosen.
CachedIs(ci, c, i) ==
    /\ TryAround(c, i)
    /\ ci.primary_frame_ptr = c.primary
    /\ ci.unwind_context.home_block_index = c.block
    /\ ci.unwind_context.state = Block(c.fn, i).try_low - 1

\* The control of the code frame c in slot m is in a state of its own funclet,
\* and a catch funclet is above the frame that holds its variables.
CodeActivation(m, c) ==
    /\ Within(c.fn, c.block, c.state)
    /\ c.primary <= m
    /\ c.block # 0 => c.primary # m

\* What the dispatch in frame t finds cached at the code frame c, and what it
\* caches there once it has chosen a handler.
ThrowActivation(t, c) ==
    /\ ~IsFresh(t.ci, t.mach) => \E i \in Blocks(c.fn) : CachedIs(t.ci, c, i)
    /\ t.handler # 0 => CachedIs(t.ci, c, t.handler)

\* Above the catch frame in slot k runs its handler, or it has been unwound.
HandlerAbove(k) ==
    /\ k < top
    /\ \/ /\ IsCode(k + 1)
          /\ frame[k + 1].fn = frame[frame[k].mach].fn
          /\ frame[k + 1].primary = frame[frame[k].mach].primary
          /\ frame[k + 1].block = frame[k].handler
       \/ /\ frame[k + 1] = Free
          /\ \E j \in Slot : frame[j].kind = "throw" /\ frame[j].mach = k

Activation ==
    /\ \A m \in Slot : IsCode(m) => CodeActivation(m, frame[m])
    /\ \A k, m \in Slot :
        frame[k].kind = "throw" /\ frame[k].mach = m /\ IsCode(m) => ThrowActivation(frame[k], frame[m])
    /\ \A k, m \in Slot :
        frame[k].kind \in {"catch", "destroy"} /\ frame[k].mach = m
            => CachedIs(frame[k].ci, frame[m], frame[k].handler)
    /\ \A k \in Slot : frame[k].kind = "catch" => HandlerAbove(k)
    /\ \A j, m \in Slot :
        IsCode(j) /\ IsCode(m) /\ j < m /\ frame[j].primary = frame[m].primary
            => frame[j].fn = frame[m].fn /\ frame[j].block < frame[m].block

----------------------------------------------------------------------------
\* What the proofs below use of the shape of the stack.
LEMMA StackFacts ==
    ASSUME Inv
    PROVE  /\ top \in Slot /\ MaxDepth \in Nat /\ frame[top] # Free
           /\ \A k \in Slot : k > top => frame[k] = Free
           /\ \A k \in Slot : k < top => k + 1 \in Slot
           /\ \A k \in Slot : frame[k].kind \in {"free", "code", "throw", "catch", "destroy"}
           /\ \A k \in Slot : frame[k].kind = "free" <=> frame[k] = Free
           /\ \A k \in Slot : IsRuntime(k) => frame[k].mach \in 0..MaxDepth /\ frame[k].mach < k
           /\ \A k \in Slot : frame[k].kind \in {"catch", "destroy"} =>
                /\ frame[k].mach \in Slot /\ IsCode(frame[k].mach)
                /\ frame[k].handler \in Blocks(frame[frame[k].mach].fn) /\ frame[k].handler # 0
           /\ \A k, q \in Slot : IsRuntime(k) /\ frame[k].mach < q /\ q < k => frame[q] = Free
<1>1. /\ top \in Slot /\ MaxDepth \in Nat /\ frame[top] # Free
      /\ \A k \in Slot : k > top => frame[k] = Free
  BY ProgramAssumption DEF Inv, TypeOK, StackShape
<1>0. \A k \in Slot : k < top => k + 1 \in Slot
  BY <1>1 DEF Slot
<1>2. \A k \in Slot : /\ frame[k].kind \in {"free", "code", "throw", "catch", "destroy"}
                      /\ frame[k].kind = "free" <=> frame[k] = Free
  BY DEF Inv, TypeOK, Frame, Free, CodeFrame, RuntimeFrame
<1>3. ASSUME NEW k \in Slot, IsRuntime(k)
      PROVE  /\ frame[k].mach \in 0..MaxDepth /\ frame[k].mach < k
             /\ \A q \in Slot : frame[k].mach < q /\ q < k => frame[q] = Free
             /\ frame[k].kind \in {"catch", "destroy"} => frame[k].mach \in Slot /\ CatchShape(k)
  <2>1. RuntimeShape(k) /\ frame[k] \in RuntimeFrame
    BY <1>3, RuntimeFrameType DEF Inv, StackShape
  <2> QED
    BY <2>1 DEF RuntimeShape, RuntimeFrame, CatchShape, Slot
<1>4. ASSUME NEW k \in Slot, frame[k].kind \in {"catch", "destroy"}
      PROVE  /\ frame[k].mach \in Slot /\ IsCode(frame[k].mach)
             /\ frame[k].handler \in Blocks(frame[frame[k].mach].fn) /\ frame[k].handler # 0
  <2>1. frame[k].mach \in Slot /\ CatchShape(k)
    BY <1>3, <1>4 DEF IsRuntime
  <2>2. frame[frame[k].mach].fn \in Fns
    BY <2>1, CodeFrameType DEF CatchShape, CodeFrame, Inv
  <2> QED
    BY <2>1, <2>2, BlocksType DEF CatchShape
<1> QED
  BY <1>0, <1>1, <1>2, <1>3, <1>4

LEMMA CodeFacts ==
    ASSUME Inv, NEW m \in Slot, IsCode(m)
    PROVE  /\ frame[m] \in CodeFrame /\ frame[m].fn \in Fns
           /\ frame[m].state \in States(frame[m].fn)
           /\ frame[m].block \in 0..Len(Eh[frame[m].fn].try_blocks)
           /\ frame[m].primary \in Slot
           /\ frame[m].block = 0 => frame[m].primary = m
           /\ frame[m].block # 0 => frame[m].block \in Blocks(frame[m].fn)
<1>1. frame[m] \in CodeFrame /\ CodeShape(m)
  BY CodeFrameType DEF Inv, StackShape
<1>2. frame[m].fn \in Fns /\ frame[m].primary \in Slot
  BY <1>1 DEF CodeFrame
<1> QED
  BY <1>1, <1>2, BlocksType DEF CodeShape, Blocks

----------------------------------------------------------------------------
(* What the FH3 handler finds at a code frame.                             *)

\* Whether it reads its own state or a cached one, the handler finds out which
\* funclet it is run for and which frame holds the variables.
LEMMA FindsItself ==
    ASSUME Inv, Activation, NEW ci, NEW m \in Slot, IsCode(m),
           ~IsFresh(ci, m) => \E i \in Blocks(frame[m].fn) : CachedIs(ci, frame[m], i),
           NEW home, IsHome(ci, m, home)
    PROVE  /\ home = frame[m].block
           /\ PrimaryFrame(ci, m, home) = frame[m].primary
           /\ home # 0 => InCatch(frame[m].fn, home, CurrentState(ci, m))
<1> DEFINE c == frame[m]
           f == c.fn
<1>1. /\ f \in Fns /\ c.state \in States(f) /\ c.block \in 0..Len(Eh[f].try_blocks)
      /\ c.block = 0 => c.primary = m
      /\ CodeActivation(m, c)
  BY CodeFacts DEF Activation
<1>2. CASE ci.primary_frame_ptr = m
  <2>1. home = 0 /\ ~IsFresh(ci, m)
    BY <1>2 DEF IsHome, IsFresh, Below, Slot
  <2>2. c.primary = m
    BY <1>2, <2>1 DEF CachedIs
  <2>3. c.block = 0
    BY <1>1, <2>2 DEF CodeActivation
  <2> QED
    BY <1>2, <2>1, <2>2, <2>3 DEF PrimaryFrame
<1>3. CASE ci.primary_frame_ptr # m /\ IsFresh(ci, m)
  <2>1. /\ IsHomeBlock(f, c.state, Len(Eh[f].try_blocks), home)
        /\ CurrentState(ci, m) = c.state
    BY <1>3 DEF IsHome, CurrentState
  <2>2. home = c.block
    <3>1. Within(f, c.block, c.state)
      BY <1>1 DEF CodeActivation
    <3>2. HomeBlock(f, c.state) = c.block
      BY <1>1, <3>1, WithinHome
    <3>3. HomeBlock(f, c.state) = home
      BY <1>1, <2>1, HomeBlockIs
    <3> QED
      BY <3>2, <3>3
  <2>3. PrimaryFrame(ci, m, home) = c.primary
    BY <1>1, <1>3, <2>2 DEF PrimaryFrame
  <2> QED
    BY <2>1, <2>2, <2>3 DEF IsHomeBlock
<1>4. CASE ci.primary_frame_ptr # m /\ ~IsFresh(ci, m)
  <2>1. PICK i \in Blocks(f) : CachedIs(ci, c, i)
    BY <1>4
  <2>2. /\ IsHomeBlock(f, Block(f, i).try_low - 1, c.block, home)
        /\ CurrentState(ci, m) = Block(f, i).try_low - 1
    BY <1>4, <2>1 DEF IsHome, CurrentState, CachedIs
  <2>3. HomeBlock(f, Block(f, i).try_low) = c.block
    <3>1. c.block # 0 => HandlerState(f, c.block) < Block(f, i).try_low
      BY <2>1 DEF CachedIs, TryAround
    <3>2. c.block # 0 => HandlerState(f, c.block) \in Int /\ Block(f, i).try_low \in Int
      BY <1>1, CodeFacts, HandlerFacts, BlockFacts DEF Blocks
    <3>3. c.block # 0 => HandlerState(f, c.block) <= Block(f, i).try_low
      BY <3>1, <3>2
    <3> QED
      BY <1>1, <2>1, <3>3 DEF CodeActivation, Within, CachedIs, TryAround
  <2>4. home = c.block
    BY <1>1, <2>1, <2>2, <2>3, BeforeTryHome DEF CachedIs, TryAround
  <2>5. PrimaryFrame(ci, m, home) = c.primary
    BY <1>4, <2>1 DEF PrimaryFrame, CachedIs
  <2> QED
    BY <2>2, <2>4, <2>5 DEF IsHomeBlock
<1> QED
  BY <1>2, <1>3, <1>4

\* The try blocks the handler examines are around the frame it is run for.
LEMMA ExaminesAround ==
    ASSUME Inv, Activation, NEW ci, NEW m \in Slot, IsCode(m),
           CurrentState(ci, m) \in States(frame[m].fn),
           ~IsFresh(ci, m) => \E i \in Blocks(frame[m].fn) : CachedIs(ci, frame[m], i),
           NEW home, IsHome(ci, m, home), NEW i \in Candidates(ci, m, home)
    PROVE  TryAround(frame[m], i)
<1>1. PICK c, f, s : c = frame[m] /\ f = c.fn /\ s = CurrentState(ci, m)
  OBVIOUS
<1>2. /\ f \in Fns /\ c.state \in States(f) /\ c.block \in 0..Len(Eh[f].try_blocks)
      /\ s \in States(f) /\ s \in Int /\ Len(Eh[f].try_blocks) \in Nat
  <2>1. f \in Fns /\ c.state \in States(f) /\ c.block \in 0..Len(Eh[f].try_blocks)
    BY <1>1, CodeFacts
  <2>2. s \in States(f)
    BY <1>1
  <2> QED
    BY <2>1, <2>2, BlocksType
<1>3. /\ home = c.block /\ home \in Nat
      /\ home # 0 => InCatch(f, home, s)
  <2>1. /\ home = frame[m].block
        /\ home # 0 => InCatch(frame[m].fn, home, CurrentState(ci, m))
    BY FindsItself
  <2> QED
    BY <1>1, <1>2, <2>1
<1>4. home # 0 => home \in Blocks(f)
  BY <1>1, <1>3, CodeFacts
<1>5. i \in home + 1 .. Len(Eh[f].try_blocks) /\ InTry(f, i, s) /\ Block(f, i).try_low >= FuncletLow(f, home)
  BY <1>1 DEF Candidates
<1>6. i \in Blocks(f) /\ home < i
  BY <1>2, <1>3, <1>5 DEF Blocks
<1>7. Block(f, i).try_low \in Chain(f, c.state)
  <2>1. CASE IsFresh(ci, m)
    BY <1>1, <1>2, <1>5, <1>6, <2>1, InTryIsChain DEF CurrentState
  <2>2. CASE ~IsFresh(ci, m)
    <3>1. PICK b \in Blocks(f) : CachedIs(ci, c, b)
      BY <1>1, <2>2
    <3>2. s = Block(f, b).try_low - 1 /\ Block(f, b).try_low \in Chain(f, c.state)
      BY <1>1, <2>2, <3>1 DEF CurrentState, CachedIs, TryAround
    <3>3. InTry(f, i, Eh[f].next[Block(f, b).try_low])
      BY <1>2, <1>5, <1>6, <3>2, BeforeTry
    <3>4. Eh[f].next[Block(f, b).try_low] \in States(f)
      BY <1>2, HandlerFacts
    <3>5. Block(f, i).try_low \in Chain(f, Eh[f].next[Block(f, b).try_low])
      BY <1>2, <1>6, <3>3, <3>4, InTryIsChain
    <3> QED
      BY <1>2, <3>2, <3>5, ChainPart
  <2> QED
    BY <2>1, <2>2
<1>8. home # 0 => HandlerState(f, home) < Block(f, i).try_low
  BY <1>2, <1>3, <1>4, <1>5, <1>6, BlockOfFunclet
<1> QED
  BY <1>1, <1>3, <1>6, <1>7, <1>8 DEF TryAround

----------------------------------------------------------------------------
(* The steps of user code keep the activations as they should be.          *)

\* A catch frame whose neighbours keep what matters.
LEMMA AboveKept ==
    ASSUME NEW k \in Slot, HandlerAbove(k), NEW q \in Slot, q = k + 1,
           NEW c \in Slot, c = frame[k].mach, k < top',
           frame'[k].mach = c, frame'[k].handler = frame[k].handler,
           frame'[c].fn = frame[c].fn, frame'[c].primary = frame[c].primary,
           \/ frame'[q] = frame[q]
           \/ IsCode(q) /\ frame'[q].kind = "code" /\ frame'[q].fn = frame[q].fn
                /\ frame'[q].primary = frame[q].primary /\ frame'[q].block = frame[q].block,
           \A j \in Slot : frame[j].kind = "throw" /\ frame[j].mach = k =>
                \E i \in Slot : frame'[i].kind = "throw" /\ frame'[i].mach = k
    PROVE  HandlerAbove(k)'
<1>1. IsCode(q) => frame[q] # Free
  BY DEF IsCode, Free
<1> QED
  BY <1>1 DEF HandlerAbove, IsCode

LEMMA InitActs == Init => Activation
<1> SUFFICES ASSUME Init PROVE Activation
  OBVIOUS
<1>1. \A k \in Slot : k # 1 => frame[k] = Free
  BY DEF Init
<1>2. 1 \in Slot => frame[1] = [kind |-> "code", fn |-> Main, block |-> 0, state |-> -1, primary |-> 1]
  BY DEF Init
<1>3. 1 \in Slot => CodeActivation(1, frame[1])
  BY <1>2, WithinStart, ProgramAssumption DEF CodeActivation
<1>4. \A k \in Slot : frame[k].kind \in {"free", "code"} /\ (IsCode(k) => k = 1)
  BY <1>1, <1>2 DEF IsCode, Free
<1> QED
  BY <1>3, <1>4 DEF Activation

\* A frame pushed on the newest one.
LEMMA PushActs ==
    ASSUME Inv, Activation, NEW n \in Slot, n = top + 1, top' = n, NEW x, frame'[n] = x,
           \A q \in Slot : q # n => frame'[q] = frame[q],
           \/ x.kind = "code" /\ CodeActivation(n, x) /\ x.primary = n
           \/ x.kind = "throw" /\ x.mach = top /\ (IsCode(top) => ThrowActivation(x, frame[top]))
    PROVE  Activation'
<1>1. /\ top \in Slot /\ top < n /\ \A k \in Slot : k > top => frame[k].kind = "free"
      /\ \A k \in Slot : IsRuntime(k) => frame[k].mach < k
      /\ \A k \in Slot : IsCode(k) => frame[k].primary <= k
  <2>1. \A k \in Slot : IsCode(k) => frame[k].primary <= k
    BY DEF Activation, CodeActivation
  <2> QED
    BY <2>1, StackFacts DEF Slot
<1>0. \A k \in Slot : (k < n => k # n) /\ (k > n => k # n /\ k > top)
  BY <1>1 DEF Slot
<1>2. \A k \in Slot : k < n => frame'[k] = frame[k]
  BY <1>0
<1>3. \A k \in Slot : k > n => frame'[k].kind = "free"
  BY <1>0, <1>1
<1>4. \A k \in Slot : k < n \/ k = n \/ k > n
  BY DEF Slot
<1>5. ASSUME NEW m \in Slot, IsCode(m)' PROVE CodeActivation(m, frame'[m])
  BY <1>2, <1>3, <1>4, <1>5 DEF Activation, IsCode
<1>6. ASSUME NEW k \in Slot, NEW m \in Slot, frame'[k].kind = "throw", frame'[k].mach = m, IsCode(m)'
      PROVE  ThrowActivation(frame'[k], frame'[m])
  <2>1. CASE k = n
    BY <1>1, <1>2, <1>6, <2>1 DEF IsCode
  <2>2. CASE k < n
    <3>1. frame'[k] = frame[k] /\ m < n
      BY <1>1, <1>2, <1>6, <2>2 DEF IsRuntime, Slot
    <3> QED
      BY <1>2, <1>6, <3>1 DEF Activation, IsCode
  <2> QED
    BY <1>3, <1>4, <1>6, <2>1, <2>2
<1>7. ASSUME NEW k \in Slot, NEW m \in Slot, frame'[k].kind \in {"catch", "destroy"}, frame'[k].mach = m
      PROVE  CachedIs(frame'[k].ci, frame'[m], frame'[k].handler)
  <2>1. k < n
    BY <1>3, <1>4, <1>7
  <2>2. frame'[k] = frame[k] /\ m < n
    BY <1>1, <1>2, <1>7, <2>1 DEF IsRuntime, Slot
  <2> QED
    BY <1>2, <1>7, <2>2 DEF Activation
<1>8. ASSUME NEW k \in Slot, frame'[k].kind = "catch" PROVE HandlerAbove(k)'
  <2>1. k < n
    BY <1>3, <1>4, <1>8
  <2>2. frame'[k] = frame[k] /\ HandlerAbove(k)
    BY <1>2, <1>8, <2>1 DEF Activation
  <2>3. PICK q \in Slot : q = k + 1 /\ q < n
    BY <1>1, <2>2, StackFacts DEF HandlerAbove, Slot
  <2>4. PICK c \in Slot : c = frame[k].mach /\ c < n
    BY <1>1, <1>8, <2>1, <2>2, StackFacts DEF IsRuntime, Slot
  <2>5. \A j \in Slot : frame[j].kind = "throw" => frame'[j] = frame[j]
    BY <1>1, <1>2, <1>4
  <2>6. frame'[q] = frame[q] /\ frame'[c] = frame[c] /\ k < top'
    BY <1>2, <2>1, <2>3, <2>4
  <2> QED
    BY <2>2, <2>3, <2>4, <2>5, <2>6, AboveKept
<1>9. ASSUME NEW j \in Slot, NEW m \in Slot, IsCode(j)', IsCode(m)', j < m,
             frame'[j].primary = frame'[m].primary
      PROVE  frame'[j].fn = frame'[m].fn /\ frame'[j].block < frame'[m].block
  <2>1. CASE m = n
    BY <1>1, <1>2, <1>9, <2>1 DEF IsCode, Slot
  <2>2. CASE m < n
    BY <1>2, <1>9, <2>2 DEF Activation, IsCode, Slot
  <2> QED
    BY <1>3, <1>4, <1>9, <2>1, <2>2 DEF IsCode
<1> QED
  BY <1>5, <1>6, <1>7, <1>8, <1>9 DEF Activation

\* The newest frame enters or leaves a state of its funclet.
LEMMA StateActs ==
    ASSUME Inv, Activation, NEW p \in Slot, p = top, top' = p, IsCode(p), NEW x, x.kind = "code",
           x.fn = frame[p].fn, x.block = frame[p].block, x.primary = frame[p].primary,
           Within(x.fn, x.block, x.state), frame'[p] = x,
           \A q \in Slot : q # p => frame'[q] = frame[q]
    PROVE  Activation'
<1>1. /\ \A k \in Slot : k > p => frame[k].kind = "free" /\ frame'[k] = frame[k]
      /\ \A k \in Slot : IsRuntime(k) => frame[k].mach < k
      /\ \A k \in Slot : k < p => frame'[k] = frame[k]
      /\ \A k \in Slot : k < p \/ k = p \/ k > p
  BY StackFacts DEF Slot
<1>2. ASSUME NEW m \in Slot, IsCode(m)' PROVE CodeActivation(m, frame'[m])
  <2>1. CASE m = p
    BY <2>1 DEF Activation, CodeActivation
  <2>2. CASE m # p
    BY <1>2, <2>2 DEF Activation, IsCode
  <2> QED
    BY <2>1, <2>2
<1>3. ASSUME NEW k \in Slot, NEW m \in Slot, frame'[k].kind = "throw", frame'[k].mach = m, IsCode(m)'
      PROVE  ThrowActivation(frame'[k], frame'[m])
  <2>1. k < p
    BY <1>1, <1>3
  <2>2. frame'[k] = frame[k] /\ m < k
    BY <1>1, <1>3, <2>1 DEF IsRuntime
  <2>3. m < p
    BY <2>1, <2>2 DEF Slot
  <2> QED
    BY <1>1, <1>3, <2>2, <2>3 DEF Activation, IsCode
<1>4. ASSUME NEW k \in Slot, NEW m \in Slot, frame'[k].kind \in {"catch", "destroy"}, frame'[k].mach = m
      PROVE  CachedIs(frame'[k].ci, frame'[m], frame'[k].handler)
  <2>1. k < p
    BY <1>1, <1>4
  <2>2. frame'[k] = frame[k] /\ m < k
    BY <1>1, <1>4, <2>1 DEF IsRuntime
  <2>3. m < p
    BY <2>1, <2>2 DEF Slot
  <2> QED
    BY <1>1, <1>4, <2>2, <2>3 DEF Activation
<1>5. ASSUME NEW k \in Slot, frame'[k].kind = "catch" PROVE HandlerAbove(k)'
  <2>1. k < p /\ frame'[k] = frame[k] /\ HandlerAbove(k)
    BY <1>1, <1>5 DEF Activation
  <2>2. PICK q \in Slot : q = k + 1
    BY <2>1, StackFacts DEF HandlerAbove
  <2>3. PICK c \in Slot : c = frame[k].mach /\ c < k
    BY <1>1, <1>5, <2>1, StackFacts DEF IsRuntime
  <2>4. frame'[c] = frame[c]
    BY <1>1, <2>1, <2>3 DEF Slot
  <2>5. \A j \in Slot : frame[j].kind = "throw" => frame'[j] = frame[j]
    BY DEF IsCode
  <2> QED
    BY <2>1, <2>2, <2>3, <2>4, <2>5, AboveKept
<1>6. ASSUME NEW j \in Slot, NEW m \in Slot, IsCode(j)', IsCode(m)', j < m,
             frame'[j].primary = frame'[m].primary
      PROVE  frame'[j].fn = frame'[m].fn /\ frame'[j].block < frame'[m].block
  <2>1. \A k \in {j, m} : /\ IsCode(k)
                          /\ frame'[k].fn = frame[k].fn /\ frame'[k].block = frame[k].block
                          /\ frame'[k].primary = frame[k].primary
    BY <1>6 DEF IsCode
  <2> QED
    BY <1>6, <2>1 DEF Activation
<1> QED
  BY <1>2, <1>3, <1>4, <1>5, <1>6 DEF Activation

\* A step of the dispatcher that stays at its frame.
LEMMA StepActs ==
    ASSUME Inv, Activation, NEW p \in Slot, p = top, top' = p, frame[p].kind = "throw",
           NEW x, x.kind = "throw", x.mach = frame[p].mach, frame'[p] = x,
           \A q \in Slot : q # p => frame'[q] = frame[q],
           \A m \in Slot : m = x.mach /\ IsCode(m) => ThrowActivation(x, frame[m])
    PROVE  Activation'
<1>1. \A q \in Slot : frame'[q].kind = frame[q].kind
  OBVIOUS
<1>2. \A q \in Slot : IsCode(q)' <=> IsCode(q)
  BY <1>1 DEF IsCode
<1>3. \A q \in Slot : frame[q].kind # "throw" => frame'[q] = frame[q]
  OBVIOUS
<1>4. ASSUME NEW m \in Slot, IsCode(m)' PROVE CodeActivation(m, frame'[m])
  BY <1>2, <1>3, <1>4 DEF Activation, IsCode
<1>5. ASSUME NEW k \in Slot, NEW m \in Slot, frame'[k].kind = "throw", frame'[k].mach = m, IsCode(m)'
      PROVE  ThrowActivation(frame'[k], frame'[m])
  <2>1. frame'[m] = frame[m] /\ IsCode(m)
    BY <1>2, <1>3, <1>5 DEF IsCode
  <2> QED
    BY <1>1, <1>5, <2>1 DEF Activation
<1>6. ASSUME NEW k \in Slot, NEW m \in Slot, frame'[k].kind \in {"catch", "destroy"}, frame'[k].mach = m
      PROVE  CachedIs(frame'[k].ci, frame'[m], frame'[k].handler)
  <2>1. frame'[k] = frame[k]
    BY <1>1, <1>3, <1>6
  <2>2. frame'[m] = frame[m]
    BY <1>3, <1>6, <2>1, StackFacts DEF IsCode
  <2> QED
    BY <1>6, <2>1, <2>2 DEF Activation
<1>7. ASSUME NEW k \in Slot, frame'[k].kind = "catch" PROVE HandlerAbove(k)'
  <2>1. frame'[k] = frame[k] /\ HandlerAbove(k) /\ k < top'
    BY <1>1, <1>3, <1>7 DEF Activation, HandlerAbove
  <2>2. PICK q \in Slot : q = k + 1
    BY <2>1, StackFacts DEF HandlerAbove
  <2>3. PICK c \in Slot : c = frame[k].mach /\ IsCode(c)
    BY <1>7, <2>1, StackFacts
  <2>4. frame'[c] = frame[c]
    BY <1>3, <2>3 DEF IsCode
  <2>5. frame'[q] = frame[q]
    BY <1>3, <2>1, <2>2 DEF HandlerAbove, IsCode, Free
  <2>6. \A j \in Slot : frame[j].kind = "throw" => frame'[j].kind = "throw" /\ frame'[j].mach = frame[j].mach
    OBVIOUS
  <2> QED
    BY <2>1, <2>2, <2>3, <2>4, <2>5, <2>6, AboveKept
<1>8. ASSUME NEW j \in Slot, NEW m \in Slot, IsCode(j)', IsCode(m)', j < m,
             frame'[j].primary = frame'[m].primary
      PROVE  frame'[j].fn = frame'[m].fn /\ frame'[j].block < frame'[m].block
  <2>1. IsCode(j) /\ IsCode(m) /\ frame'[j] = frame[j] /\ frame'[m] = frame[m]
    BY <1>2, <1>3, <1>8 DEF IsCode
  <2> QED
    BY <1>8, <2>1 DEF Activation
<1> QED
  BY <1>4, <1>5, <1>6, <1>7, <1>8 DEF Activation

\* The newest funclet returns: to its caller, or to its catch frame.
LEMMA PopActs ==
    ASSUME Inv, Activation, NEW n \in Slot, n = top, IsCode(n), NEW p \in Slot, p = n - 1, top' = p,
           frame'[n] = Free, NEW x, frame'[p] = x, \A q \in Slot : q # n /\ q # p => frame'[q] = frame[q],
           \/ x = frame[p] /\ frame[n].block = 0
           \/ frame[p].kind = "catch" /\ x.kind = "destroy" /\ x.mach = frame[p].mach
                /\ x.ci = frame[p].ci /\ x.handler = frame[p].handler
    PROVE  Activation'
<1>1. /\ p < n /\ \A k \in Slot : k < n => k <= p
      /\ \A k \in Slot : k > n => frame[k].kind = "free" /\ frame'[k] = frame[k]
      /\ \A k \in Slot : k < n \/ k = n \/ k > n
  BY StackFacts DEF Slot
<1>2. \A q \in Slot : IsCode(q)' => IsCode(q) /\ q # n /\ frame'[q] = frame[q]
  BY DEF IsCode, Free
<1>3. ASSUME NEW m \in Slot, IsCode(m)' PROVE CodeActivation(m, frame'[m])
  BY <1>2, <1>3 DEF Activation
<1>4. ASSUME NEW k \in Slot, NEW m \in Slot, frame'[k].kind = "throw", frame'[k].mach = m, IsCode(m)'
      PROVE  ThrowActivation(frame'[k], frame'[m])
  <2>1. frame'[k] = frame[k]
    BY <1>4 DEF Free
  <2> QED
    BY <1>2, <1>4, <2>1 DEF Activation
<1>5. ASSUME NEW k \in Slot, NEW m \in Slot, frame'[k].kind \in {"catch", "destroy"}, frame'[k].mach = m
      PROVE  CachedIs(frame'[k].ci, frame'[m], frame'[k].handler)
  <2>1. /\ frame[k].kind \in {"catch", "destroy"} /\ frame[k].mach = m
        /\ frame'[k].ci = frame[k].ci /\ frame'[k].handler = frame[k].handler
    BY <1>5 DEF Free
  <2>2. IsCode(m) /\ m < k /\ k <= n
    BY <1>1, <2>1, StackFacts DEF IsRuntime, Slot
  <2>3. frame'[m] = frame[m]
    <3>1. m # n
      BY <2>2 DEF Slot
    <3>2. frame[p].kind = "catch" => m # p
      BY <2>2 DEF IsCode
    <3> QED
      BY <3>1, <3>2
  <2> QED
    BY <2>1, <2>3 DEF Activation
<1>6. ASSUME NEW k \in Slot, frame'[k].kind = "catch" PROVE HandlerAbove(k)'
  <2>1. frame'[k] = frame[k] /\ HandlerAbove(k) /\ k < n
    BY <1>6 DEF Activation, HandlerAbove, Free
  <2>2. PICK q \in Slot : q = k + 1
    BY <2>1, StackFacts DEF HandlerAbove
  <2>3. q # n
    <3>1. q = n => frame[n].block = frame[k].handler
      BY <2>1, <2>2 DEF HandlerAbove, IsCode, Free
    <3>2. q = n => frame[n].block # 0 /\ k = p
      BY <1>6, <2>1, <2>2, <3>1, StackFacts DEF Slot
    <3> QED
      BY <1>6, <3>2
  <2>4. frame'[q] = frame[q] /\ k < p
    <3>1. frame[p].kind = "catch" => q # p
      BY <2>1, <2>2 DEF HandlerAbove, IsCode, Free
    <3> QED
      BY <1>1, <2>1, <2>2, <2>3, <3>1 DEF Slot
  <2>5. PICK c \in Slot : c = frame[k].mach /\ IsCode(c) /\ c < k
    BY <1>6, <2>1, StackFacts DEF IsRuntime
  <2>6. frame'[c] = frame[c]
    BY <2>1, <2>4, <2>5 DEF Slot
  <2>7. \A j \in Slot : frame[j].kind = "throw" => frame'[j] = frame[j]
    BY DEF IsCode
  <2> QED
    BY <2>1, <2>2, <2>4, <2>5, <2>6, <2>7, AboveKept
<1>7. ASSUME NEW j \in Slot, NEW m \in Slot, IsCode(j)', IsCode(m)', j < m,
             frame'[j].primary = frame'[m].primary
      PROVE  frame'[j].fn = frame'[m].fn /\ frame'[j].block < frame'[m].block
  BY <1>2, <1>7 DEF Activation
<1> QED
  BY <1>3, <1>4, <1>5, <1>6, <1>7 DEF Activation

----------------------------------------------------------------------------
(* The steps that unwind a frame, call a handler or resume a catcher.      *)

\* The walk leaves the frame m, which goes, for the frame below it.
LEMMA UnwindActs ==
    ASSUME Inv, Activation, NEW p \in Slot, p = top, top' = p, frame[p].kind = "throw",
           NEW m \in Slot, m = frame[p].mach, IsCode(m) \/ frame[m].kind = "catch",
           NEW c \in 0..MaxDepth, c = Caller(m), NEW x, x.kind = "throw", x.mach = c,
           \A q \in Slot : frame'[q] = IF q = p THEN x ELSE IF q = m THEN Free ELSE frame[q],
           \A q \in Slot : q = c /\ IsCode(q) => ThrowActivation(x, frame[q])
    PROVE  Activation'
<1>1. m < p /\ m # p
  BY StackFacts DEF IsRuntime, Slot
<1>2. \A q \in Slot : q # p /\ frame'[q].kind # "free" => frame'[q] = frame[q] /\ q # m
  BY DEF Free
<1>3. \A q \in Slot : IsCode(q)' => IsCode(q) /\ frame'[q] = frame[q]
  BY <1>2 DEF IsCode
<1>4. ASSUME NEW k \in Slot, NEW d \in Slot, frame'[k].kind = "throw", frame'[k].mach = d, IsCode(d)'
      PROVE  ThrowActivation(frame'[k], frame'[d])
  <2>1. CASE k = p
    BY <1>3, <1>4, <2>1
  <2>2. CASE k # p
    BY <1>2, <1>3, <1>4, <2>2 DEF Activation
  <2> QED
    BY <2>1, <2>2
<1>5. ASSUME NEW k \in Slot, NEW d \in Slot, frame'[k].kind \in {"catch", "destroy"}, frame'[k].mach = d
      PROVE  CachedIs(frame'[k].ci, frame'[d], frame'[k].handler)
  <2>1. frame'[k] = frame[k] /\ k # m
    BY <1>2, <1>5
  <2>2. IsCode(d) /\ d < k
    BY <1>5, <2>1, StackFacts DEF IsRuntime
  <2>3. d # m
    <3>1. SUFFICES ASSUME d = m PROVE FALSE
      OBVIOUS
    <3>2. k < p
      BY <1>5, <2>1, StackFacts DEF Slot
    <3> QED
      BY <1>5, <2>1, <2>2, <3>1, <3>2, StackFacts DEF IsRuntime, Free
  <2>4. frame'[d] = frame[d]
    BY <2>2, <2>3 DEF IsCode
  <2> QED
    BY <1>5, <2>1, <2>4 DEF Activation
<1>6. ASSUME NEW k \in Slot, frame'[k].kind = "catch" PROVE HandlerAbove(k)'
  <2>1. frame'[k] = frame[k] /\ k # m /\ HandlerAbove(k) /\ k < top'
    BY <1>2, <1>6 DEF Activation, HandlerAbove
  <2>2. PICK q \in Slot : q = k + 1
    BY <2>1, StackFacts DEF HandlerAbove
  <2>3. PICK d \in Slot : d = frame[k].mach /\ IsCode(d) /\ d < k
    BY <1>6, <2>1, StackFacts DEF IsRuntime
  <2>4. d # m
    <3>1. SUFFICES ASSUME d = m PROVE FALSE
      OBVIOUS
    <3> QED
      BY <1>6, <2>1, <2>3, <3>1, StackFacts DEF IsRuntime, Free
  <2>5. frame'[d] = frame[d] /\ q # p
    BY <2>1, <2>2, <2>3, <2>4 DEF IsCode, HandlerAbove, Free
  <2>6. CASE q = m
    <3>1. IsCode(m) /\ k = c
      BY <2>1, <2>2, <2>6, StackFacts DEF HandlerAbove, IsCode, IsRuntime, Caller, Free, Slot
    <3>2. frame'[q] = Free /\ frame'[p].kind = "throw" /\ frame'[p].mach = k
      BY <1>1, <2>6, <3>1
    <3> QED
      BY <2>1, <2>2, <3>2 DEF HandlerAbove
  <2>7. CASE q # m
    <3>1. frame'[q] = frame[q]
      BY <2>5, <2>7
    <3>2. \A j \in Slot : frame[j].kind = "throw" /\ frame[j].mach = k => j # p /\ frame'[j] = frame[j]
      BY <2>1 DEF IsCode
    <3> QED
      BY <2>1, <2>2, <2>3, <2>5, <3>1, <3>2, AboveKept
  <2> QED
    BY <2>6, <2>7
<1>7. ASSUME NEW j \in Slot, NEW d \in Slot, IsCode(j)', IsCode(d)', j < d,
             frame'[j].primary = frame'[d].primary
      PROVE  frame'[j].fn = frame'[d].fn /\ frame'[j].block < frame'[d].block
  BY <1>3, <1>7 DEF Activation
<1>8. ASSUME NEW d \in Slot, IsCode(d)' PROVE CodeActivation(d, frame'[d])
  BY <1>3, <1>8 DEF Activation
<1> QED
  BY <1>4, <1>5, <1>6, <1>7, <1>8 DEF Activation

\* The dispatcher in slot p, at slot m, becomes the catch frame x under the
\* handler y.
Handles(p, m, n, x, y) ==
    /\ p = top /\ n = p + 1 /\ top' = n /\ objects' = objects
    /\ frame[p].kind = "throw" /\ frame[p].pc = "unwind" /\ frame[p].handler # 0
    /\ m = frame[p].mach /\ IsCode(m)
    /\ frame[p].state <= frame[p].target_state /\ frame[p].state \in States(frame[m].fn)
    /\ x.kind = "catch" /\ x.mach = m /\ x.ci = frame[p].ci /\ x.handler = frame[p].handler
    /\ y.kind = "code" /\ y.fn = frame[m].fn /\ y.block = x.handler
    /\ y.primary = x.ci.primary_frame_ptr /\ y.state = HandlerState(y.fn, y.block)
    /\ \A q \in Slot : frame'[q] = IF q = n THEN y ELSE IF q = p THEN x ELSE frame[q]

\* The dispatch becomes the catch frame under the handler it calls.
LEMMA HandlerActs ==
    ASSUME Inv, Activation, NEW p \in Slot, NEW m \in Slot, NEW n \in Slot, NEW x, NEW y,
           Handles(p, m, n, x, y)
    PROVE  Activation'
<1> USE DEF Handles
<1>1. /\ m < p /\ p < n /\ m # n /\ frame[n].kind = "free"
      /\ \A q \in Slot : m < q /\ q < p => frame[q].kind = "free"
      /\ \A q \in Slot : q < m \/ q = m \/ (m < q /\ q < p) \/ q = p \/ q = n \/ q > n
      /\ \A q \in Slot : q > n => frame[q].kind = "free"
  BY StackFacts DEF IsRuntime, Slot
<1>2. CachedIs(x.ci, frame[m], x.handler)
  BY DEF Activation, ThrowActivation
<1>3. /\ frame[m].fn \in Fns /\ frame[m].primary <= m /\ frame[m].primary \in Slot
      /\ x.handler \in Blocks(frame[m].fn) /\ frame[m].block < x.handler
      /\ y.primary = frame[m].primary
  BY <1>2, CodeFacts DEF Activation, CodeActivation, CachedIs, TryAround
<1>4. CodeActivation(n, y)
  <2>1. Within(y.fn, y.block, y.state)
    BY <1>3, WithinStart
  <2> QED
    BY <1>1, <1>3, <2>1 DEF CodeActivation, Slot
<1>5. \A q \in Slot : q # n /\ q # p => frame'[q] = frame[q]
  OBVIOUS
<1>6. frame'[n] = y /\ frame'[p] = x /\ frame'[m] = frame[m]
  BY <1>1, <1>5
<1>7. \A q \in Slot : IsCode(q)' => q = n \/ (IsCode(q) /\ frame'[q] = frame[q])
  BY <1>5, <1>6 DEF IsCode
<1>8. ASSUME NEW q \in Slot, IsCode(q)' PROVE CodeActivation(q, frame'[q])
  BY <1>4, <1>6, <1>7, <1>8 DEF Activation
<1>9. ASSUME NEW k \in Slot, NEW d \in Slot, frame'[k].kind = "throw", frame'[k].mach = d, IsCode(d)'
      PROVE  ThrowActivation(frame'[k], frame'[d])
  <2>1. k # n /\ k # p /\ frame'[k] = frame[k]
    BY <1>5, <1>6, <1>9
  <2>2. d # n
    BY <1>1, <1>9, <2>1, StackFacts DEF IsRuntime, Slot
  <2> QED
    BY <1>7, <1>9, <2>1, <2>2 DEF Activation
<1>10. ASSUME NEW k \in Slot, NEW d \in Slot, frame'[k].kind \in {"catch", "destroy"}, frame'[k].mach = d
       PROVE  CachedIs(frame'[k].ci, frame'[d], frame'[k].handler)
  <2>1. CASE k = p
    BY <1>2, <1>6, <1>10, <2>1
  <2>2. CASE k # p
    <3>1. k # n /\ frame'[k] = frame[k]
      BY <1>5, <1>6, <1>10, <2>2
    <3>2. IsCode(d)
      BY <1>10, <3>1, StackFacts
    <3>3. frame'[d] = frame[d]
      BY <1>1, <1>5, <3>2 DEF IsCode
    <3> QED
      BY <1>10, <3>1, <3>3 DEF Activation
  <2> QED
    BY <2>1, <2>2
<1>11. ASSUME NEW k \in Slot, frame'[k].kind = "catch" PROVE HandlerAbove(k)'
  <2>1. CASE k = p
    <3>1. k < top' /\ k + 1 = n /\ frame'[k].mach = m /\ IsCode(n)'
      BY <1>1, <1>6, <2>1 DEF IsCode
    <3>2. frame'[n].fn = frame'[m].fn /\ frame'[n].primary = frame'[m].primary /\ frame'[n].block = frame'[k].handler
      BY <1>3, <1>6, <2>1
    <3> QED
      BY <3>1, <3>2 DEF HandlerAbove
  <2>2. CASE k # p
    <3>1. k # n /\ frame'[k] = frame[k] /\ HandlerAbove(k) /\ k < top'
      BY <1>1, <1>5, <1>6, <1>11, <2>2 DEF Activation, HandlerAbove, Slot
    <3>2. PICK q \in Slot : q = k + 1
      BY <3>1, StackFacts DEF HandlerAbove
    <3>3. PICK d \in Slot : d = frame[k].mach /\ IsCode(d)
      BY <1>11, <3>1, StackFacts
    <3>4. frame'[d] = frame[d]
      BY <1>1, <1>5, <3>3 DEF IsCode
    <3>5. q # p /\ q # n
      BY <2>2, <3>1, <3>2 DEF HandlerAbove, IsCode, Free, Slot
    <3>6. frame'[q] = frame[q]
      BY <1>5, <3>5
    <3>7. \A j \in Slot : frame[j].kind = "throw" /\ frame[j].mach = k => j # p /\ frame'[j] = frame[j]
      BY <1>1, <1>5, <1>11, <3>1 DEF IsCode
    <3> QED
      BY <3>1, <3>2, <3>3, <3>4, <3>6, <3>7, AboveKept
  <2> QED
    BY <2>1, <2>2
<1>12. ASSUME NEW j \in Slot, NEW d \in Slot, IsCode(j)', IsCode(d)', j < d,
              frame'[j].primary = frame'[d].primary
       PROVE  frame'[j].fn = frame'[d].fn /\ frame'[j].block < frame'[d].block
  <2>1. j # n /\ IsCode(j) /\ frame'[j] = frame[j]
    BY <1>1, <1>7, <1>12, StackFacts DEF IsCode, Slot
  <2>2. CASE d = n
    <3>1. frame[j].primary = frame[m].primary
      BY <1>3, <1>6, <1>12, <2>1, <2>2
    <3>2. j < m \/ j = m
      BY <1>1, <2>1 DEF IsCode
    <3>3. j < m => frame[j].fn = frame[m].fn /\ frame[j].block < frame[m].block
      BY <2>1, <3>1 DEF Activation
    <3>4. frame[j].block \in Int /\ frame[m].block \in Int /\ x.handler \in Int
      BY <1>3, <2>1, CodeFacts, BlocksType
    <3> QED
      BY <1>3, <1>6, <2>1, <2>2, <3>2, <3>3, <3>4
  <2>3. CASE d # n
    BY <1>7, <1>12, <2>1, <2>3 DEF Activation
  <2> QED
    BY <2>2, <2>3
<1> QED
  BY <1>8, <1>9, <1>10, <1>11, <1>12 DEF Activation

\* The runtime frame p is gone and its catcher, slot m, resumes as x.
Resumes(p, m, x) ==
    /\ p = top /\ top' = m /\ objects' = objects
    /\ frame[p].kind = "destroy" /\ m = frame[p].mach
    /\ x.kind = "code" /\ x.fn = frame[m].fn /\ x.block = frame[m].block
    /\ x.primary = frame[m].primary
    /\ x.state = Eh[x.fn].next[Block(x.fn, frame[p].handler).try_low]
    /\ \A q \in Slot : frame'[q] = IF q = p THEN Free ELSE IF q = m THEN x ELSE frame[q]

\* The catcher m resumes: at a state of its own funclet, outside the try
\* statement that caught.
LEMMA ResumeActs ==
    ASSUME Inv, Activation, NEW p \in Slot, NEW m \in Slot, NEW x, Resumes(p, m, x)
    PROVE  Activation'
<1> USE DEF Resumes
<1>1. /\ m < p /\ IsCode(m)
      /\ \A q \in Slot : m < q /\ q < p => frame[q].kind = "free"
      /\ \A q \in Slot : q < m \/ q = m \/ (m < q /\ q < p) \/ q = p \/ q > p
      /\ \A q \in Slot : q > p => frame[q].kind = "free"
  BY StackFacts, SMTT(30) DEF IsRuntime, Slot
<1>2. CachedIs(frame[p].ci, frame[m], frame[p].handler)
  BY DEF Activation
<1>3. Within(x.fn, x.block, x.state)
  <2>1. PICK f, h, b, s :
            /\ f \in Fns
            /\ f = frame[m].fn /\ h = frame[p].handler /\ h \in Blocks(f)
            /\ b = frame[m].block /\ s = frame[m].state
    BY <1>1, <1>2, CodeFacts DEF CachedIs, TryAround
  <2>2. /\ Block(f, h).try_low \in Chain(f, s)
        /\ b # 0 => HandlerState(f, b) < Block(f, h).try_low
    BY <1>2, <2>1 DEF CachedIs, TryAround
  <2>3. Within(f, b, s) /\ s \in States(f)
    BY <1>1, <2>1, CodeFacts DEF Activation, CodeActivation
  <2> QED
    BY <2>1, <2>2, <2>3, WithinLeave, SMTT(30)
<1>4. /\ frame'[m] = x
      /\ \A q \in Slot : q < m => frame'[q] = frame[q]
      /\ \A q \in Slot : q > m => frame'[q].kind = "free"
      /\ \A q \in Slot : q < m \/ q = m \/ q > m
  BY <1>1, SMTT(30) DEF Slot, Free
<1>5. \A q \in Slot : IsCode(q)' =>
        /\ IsCode(q)
        /\ frame'[q].fn = frame[q].fn /\ frame'[q].block = frame[q].block
        /\ frame'[q].primary = frame[q].primary
  BY <1>1, <1>4 DEF IsCode
<1>6. ASSUME NEW q \in Slot, IsCode(q)' PROVE CodeActivation(q, frame'[q])
  <2>1. CASE q = m
    <3>1. CodeActivation(m, frame[m])
      BY <1>1 DEF Activation
    <3>2. CodeActivation(m, x)
      BY <1>3, <3>1 DEF CodeActivation
    <3> QED
      BY <1>4, <2>1, <3>2
  <2>2. CASE q < m
    BY <1>4, <1>6, <2>2 DEF Activation, IsCode
  <2> QED
    BY <1>4, <1>6, <2>1, <2>2 DEF IsCode
<1>7. ASSUME NEW k \in Slot, IsRuntime(k)'
      PROVE  /\ frame'[k] = frame[k] /\ k < m /\ frame[k].mach < m
             /\ \A d \in Slot : d = frame[k].mach => frame'[d] = frame[d]
  <2>1. k < m /\ frame'[k] = frame[k]
    BY <1>4, <1>7 DEF IsRuntime
  <2>2. frame[k].mach < k /\ frame[k].mach \in 0..MaxDepth
    BY <1>7, <2>1, StackFacts DEF IsRuntime
  <2>3. frame[k].mach < m
    BY <2>1, <2>2 DEF Slot
  <2> QED
    BY <1>4, <2>1, <2>3
<1>8. ASSUME NEW k \in Slot, NEW d \in Slot, frame'[k].kind = "throw", frame'[k].mach = d, IsCode(d)'
      PROVE  ThrowActivation(frame'[k], frame'[d])
  <2>1. frame'[k] = frame[k] /\ frame'[d] = frame[d]
    BY <1>7, <1>8 DEF IsRuntime
  <2> QED
    BY <1>8, <2>1 DEF Activation, IsCode
<1>9. ASSUME NEW k \in Slot, NEW d \in Slot, frame'[k].kind \in {"catch", "destroy"}, frame'[k].mach = d
      PROVE  CachedIs(frame'[k].ci, frame'[d], frame'[k].handler)
  <2>1. frame'[k] = frame[k] /\ frame'[d] = frame[d]
    BY <1>7, <1>9 DEF IsRuntime
  <2> QED
    BY <1>9, <2>1 DEF Activation
<1>10. ASSUME NEW k \in Slot, frame'[k].kind = "catch" PROVE HandlerAbove(k)'
  <2>1. frame'[k] = frame[k] /\ HandlerAbove(k) /\ k < top' /\ k < m
    BY <1>7, <1>10 DEF Activation, IsRuntime
  <2>2. PICK q \in Slot : q = k + 1
    BY <2>1, StackFacts DEF HandlerAbove, Slot
  <2>3. PICK d \in Slot : d = frame[k].mach /\ frame'[d] = frame[d]
    <3>1. frame[k].kind = "catch" /\ IsRuntime(k) /\ IsRuntime(k)'
      BY <1>10, <2>1 DEF IsRuntime
    <3>2. frame[k].mach \in Slot
      BY <3>1, StackFacts, Zenon
    <3> QED
      BY <1>7, <3>1, <3>2
  <2>4. CASE q < m
    <3>1. frame'[q] = frame[q]
      BY <1>4, <2>4
    <3>2. \A j \in Slot : frame[j].kind = "throw" => frame'[j] = frame[j]
      BY <1>1 DEF IsCode
    <3> QED
      BY <2>1, <2>2, <2>3, <3>1, <3>2, AboveKept, SMTT(30)
  <2>5. CASE q = m
    <3>1. /\ IsCode(q) /\ frame'[q].kind = "code" /\ frame'[q].fn = frame[q].fn
          /\ frame'[q].primary = frame[q].primary /\ frame'[q].block = frame[q].block
      BY <1>1, <1>4, <2>5
    <3>2. \A j \in Slot : frame[j].kind = "throw" => frame'[j] = frame[j]
      BY <1>1 DEF IsCode
    <3> QED
      BY <2>1, <2>2, <2>3, <3>1, <3>2, AboveKept, SMTT(30)
  <2> QED
    BY <2>1, <2>2, <2>4, <2>5 DEF Slot
<1>11. ASSUME NEW j \in Slot, NEW d \in Slot, IsCode(j)', IsCode(d)', j < d,
              frame'[j].primary = frame'[d].primary
       PROVE  frame'[j].fn = frame'[d].fn /\ frame'[j].block < frame'[d].block
  BY <1>5, <1>11, SMTT(30) DEF Activation
<1> QED
  BY <1>6, <1>8, <1>9, <1>10, <1>11 DEF Activation

----------------------------------------------------------------------------
(* What each action does to the stack, slot by slot.                       *)

LEMMA CallForm ==
    ASSUME Inv, NEW f \in Fns, Call(f)
    PROVE  \E n, x :
            /\ n \in Slot
            /\ n = top + 1 /\ top' = n /\ objects' = objects /\ frame'[n] = x
            /\ x.kind = "code" /\ x.fn = f /\ x.block = 0 /\ x.state = -1 /\ x.primary = n
            /\ \A q \in Slot : q # n => frame'[q] = frame[q]
<1>1. PICK n \in Slot : n = top + 1
  BY TopType DEF Call, Slot
<1> DEFINE x == [kind |-> "code", fn |-> f, block |-> 0, state |-> -1, primary |-> n]
<1>2. frame' = [frame EXCEPT ![n] = x] /\ top' = n /\ objects' = objects
  BY <1>1 DEF Call
<1>3. x.kind = "code" /\ x.fn = f /\ x.block = 0 /\ x.state = -1 /\ x.primary = n
  OBVIOUS
<1> HIDE DEF x
<1>4. frame'[n] = x /\ \A q \in Slot : q # n => frame'[q] = frame[q]
  BY <1>2 DEF Inv, TypeOK
<1> QED
  BY <1>1, <1>2, <1>3, <1>4

\* Entering and leaving a state.
LEMMA EnterForm ==
    ASSUME Inv, NEW s \in Nat, Enter(s)
    PROVE  \E p, x :
            /\ p \in Slot
            /\ p = top /\ top' = p /\ IsCode(p) /\ frame'[p] = x
            /\ x.kind = "code" /\ x.fn = frame[p].fn /\ x.block = frame[p].block
            /\ x.primary = frame[p].primary /\ x.state = s
            /\ \A q \in Slot : q # p => frame'[q] = frame[q]
            /\ s \in 0..Eh[x.fn].last /\ Eh[x.fn].next[s] = frame[p].state
            /\ HomeBlock(x.fn, s) = x.block
            /\ objects' = IF s \in Eh[x.fn].cleanup THEN objects \cup {<<x.primary, s>>} ELSE objects
<1>1. PICK p \in Slot : p = top
  BY TopType
<1>2. IsCode(p) /\ frame[p] \in CodeFrame /\ T = frame[p]
  BY <1>1, TopType DEF Enter, Running, T
<1> DEFINE x == [frame[p] EXCEPT !.state = s]
<1>3. /\ x.kind = "code" /\ x.fn = frame[p].fn /\ x.block = frame[p].block
      /\ x.primary = frame[p].primary /\ x.state = s
  BY <1>2 DEF CodeFrame, IsCode
<1>4. frame' = [frame EXCEPT ![p] = x] /\ top' = p
  BY <1>1, <1>2 DEF Enter
<1> HIDE DEF x
<1>5. frame'[p] = x /\ \A q \in Slot : q # p => frame'[q] = frame[q]
  BY <1>4 DEF Inv, TypeOK
<1>6. /\ s \in 0..Eh[x.fn].last /\ Eh[x.fn].next[s] = frame[p].state
      /\ HomeBlock(x.fn, s) = x.block
      /\ objects' = IF s \in Eh[x.fn].cleanup THEN objects \cup {<<x.primary, s>>} ELSE objects
  BY <1>2, <1>3 DEF Enter
<1> QED
  BY <1>1, <1>2, <1>3, <1>4, <1>5, <1>6

LEMMA LeaveForm ==
    ASSUME Inv, Leave
    PROVE  \E p, x :
            /\ p \in Slot
            /\ p = top /\ top' = p /\ IsCode(p) /\ frame'[p] = x
            /\ x.kind = "code" /\ x.fn = frame[p].fn /\ x.block = frame[p].block
            /\ x.primary = frame[p].primary /\ x.state = Eh[x.fn].next[frame[p].state]
            /\ \A q \in Slot : q # p => frame'[q] = frame[q]
            /\ frame[p].state # -1
            /\ x.block # 0 => frame[p].state # HandlerState(x.fn, x.block)
            /\ objects' = objects \ {<<x.primary, frame[p].state>>}
<1>1. PICK p \in Slot : p = top
  BY TopType
<1>2. IsCode(p) /\ frame[p] \in CodeFrame /\ T = frame[p]
  BY <1>1, TopType DEF Leave, Running, T
<1> DEFINE x == [frame[p] EXCEPT !.state = Eh[frame[p].fn].next[frame[p].state]]
<1>3. /\ x.kind = "code" /\ x.fn = frame[p].fn /\ x.block = frame[p].block
      /\ x.primary = frame[p].primary /\ x.state = Eh[x.fn].next[frame[p].state]
  BY <1>2 DEF CodeFrame, IsCode
<1>4. frame' = [frame EXCEPT ![p] = x] /\ top' = p
  BY <1>1, <1>2 DEF Leave
<1> HIDE DEF x
<1>5. frame'[p] = x /\ \A q \in Slot : q # p => frame'[q] = frame[q]
  BY <1>4 DEF Inv, TypeOK
<1>6. /\ frame[p].state # -1
      /\ x.block # 0 => frame[p].state # HandlerState(x.fn, x.block)
      /\ objects' = objects \ {<<x.primary, frame[p].state>>}
  BY <1>2, <1>3 DEF Leave
<1> QED
  BY <1>1, <1>2, <1>3, <1>4, <1>5, <1>6

LEMMA ReturnForm ==
    ASSUME Inv, Return
    PROVE  \E n, p \in Slot :
            /\ n = top /\ IsCode(n) /\ p = n - 1 /\ top' = p /\ frame'[n] = Free /\ objects' = objects
            /\ \A q \in Slot : q # n => frame'[q] = frame[q]
            /\ frame[n].block = 0 /\ frame[n].state = -1
<1>1. PICK n \in Slot : n = top
  BY TopType
<1>2. PICK p \in Slot : p = n - 1
  BY <1>1, TopType DEF Return, Slot
<1>3. IsCode(n) /\ frame[n].block = 0 /\ frame[n].state = -1
  BY <1>1 DEF Return, Running, T
<1>4. frame' = [frame EXCEPT ![n] = Free] /\ top' = p /\ objects' = objects
  BY <1>1, <1>2 DEF Return
<1>5. frame'[n] = Free /\ \A q \in Slot : q # n => frame'[q] = frame[q]
  BY <1>4 DEF Inv, TypeOK
<1> QED
  BY <1>1, <1>2, <1>3, <1>4, <1>5

LEMMA CatchReturnForm ==
    ASSUME Inv, CatchReturn
    PROVE  \E n, p, x :
            /\ n \in Slot /\ p \in Slot
            /\ n = top /\ IsCode(n) /\ p = n - 1 /\ top' = p /\ frame'[n] = Free /\ objects' = objects
            /\ \A q \in Slot : q # n /\ q # p => frame'[q] = frame[q]
            /\ frame[n].block # 0 /\ frame[n].state = HandlerState(frame[n].fn, frame[n].block)
            /\ frame[p].kind = "catch" /\ frame'[p] = x
            /\ x.kind = "destroy" /\ x.mach = frame[p].mach
            /\ x.ci = frame[p].ci /\ x.handler = frame[p].handler
<1>1. PICK n \in Slot : n = top
  BY TopType
<1>2. /\ IsCode(n) /\ CodeShape(n) /\ frame[n].block # 0
      /\ frame[n].state = HandlerState(frame[n].fn, frame[n].block)
  BY <1>1, TopType DEF CatchReturn, Running, T
<1>3. PICK p \in Slot : p = n - 1 /\ frame[p].kind = "catch"
  BY <1>1, <1>2, TopType DEF CodeShape, Slot
<1>4. frame[p] \in RuntimeFrame
  BY <1>3, RuntimeFrameType DEF IsRuntime, Inv
<1> DEFINE x == [frame[p] EXCEPT !.kind = "destroy", !.pc = "destroy"]
<1>5. /\ x.kind = "destroy" /\ x.mach = frame[p].mach
      /\ x.ci = frame[p].ci /\ x.handler = frame[p].handler
  BY <1>4 DEF RuntimeFrame
<1>6. frame' = [frame EXCEPT ![n] = Free, ![p] = x] /\ top' = p /\ objects' = objects
  <2>1. frame[top - 1] = frame[p] /\ top - 1 = p /\ p # n
    BY <1>1, <1>3 DEF Slot
  <2>2. frame' = [frame EXCEPT ![n] = Free, ![p] = [@ EXCEPT !.kind = "destroy", !.pc = "destroy"]]
        /\ top' = p /\ objects' = objects
    BY <1>1, <2>1 DEF CatchReturn
  <2> QED
    BY <2>1, <2>2 DEF Inv, TypeOK
<1> HIDE DEF x
<1>7. /\ frame'[n] = Free /\ frame'[p] = x
      /\ \A q \in Slot : q # n /\ q # p => frame'[q] = frame[q]
  BY <1>1, <1>3, <1>6 DEF Inv, TypeOK, Slot
<1>8. /\ n = top /\ IsCode(n) /\ p = n - 1 /\ top' = p /\ frame'[n] = Free /\ objects' = objects
      /\ \A q \in Slot : q # n /\ q # p => frame'[q] = frame[q]
      /\ frame[n].block # 0 /\ frame[n].state = HandlerState(frame[n].fn, frame[n].block)
      /\ frame[p].kind = "catch" /\ frame'[p] = x
      /\ x.kind = "destroy" /\ x.mach = frame[p].mach
      /\ x.ci = frame[p].ci /\ x.handler = frame[p].handler
  BY <1>1, <1>2, <1>3, <1>5, <1>6, <1>7
<1> QED
  BY <1>8

\* A throw or a rethrow pushes a dispatch that has visited nothing.
LEMMA ThrowForm ==
    ASSUME Inv, NEW obj, NEW info, Running, PushThrowFrame(obj, info)
    PROVE  \E n, x :
            /\ n \in Slot
            /\ n = top + 1 /\ top' = n /\ IsCode(top) /\ objects' = objects /\ frame'[n] = x
            /\ x.kind = "throw" /\ x.mach = top /\ x.pc = "visit" /\ x.handler = 0
            /\ x.ci.exception_object_or_link = obj /\ x.ci.throw_info_if_owner = info
            /\ IsFresh(x.ci, top)
            /\ \A q \in Slot : q # n => frame'[q] = frame[q]
<1>1. PICK n \in Slot : n = top + 1 /\ n < MaxDepth /\ MaxDepth \in Nat
  BY TopType DEF PushThrowFrame, Slot
<1> DEFINE x == [kind |-> "throw", mach |-> top, pc |-> "visit",
                 ci |-> [exception_object_or_link |-> obj,
                         throw_info_if_owner |-> info,
                         primary_frame_ptr |-> NullFrame,
                         unwind_context |-> [state |-> -1, home_block_index |-> 0]],
                 state |-> -1, target_state |-> -1, handler |-> 0]
<1>2. frame' = [frame EXCEPT ![n] = x] /\ top' = n /\ objects' = objects
  BY <1>1 DEF PushThrowFrame
<1>3. /\ x.kind = "throw" /\ x.mach = top /\ x.pc = "visit" /\ x.handler = 0
      /\ x.ci.primary_frame_ptr = NullFrame
      /\ x.ci.exception_object_or_link = obj /\ x.ci.throw_info_if_owner = info
  OBVIOUS
<1> HIDE DEF x
<1>4. frame'[n] = x /\ \A q \in Slot : q # n => frame'[q] = frame[q]
  BY <1>2 DEF Inv, TypeOK
<1>5. IsFresh(x.ci, top)
  BY <1>1, <1>3, TopType DEF IsFresh, Below, NullFrame, Slot
<1>6. IsCode(top)
  BY DEF Running
<1> QED
  BY <1>1, <1>2, <1>3, <1>4, <1>5, <1>6

\* The dispatcher in slot p, at slot m, changes its own frame to x.
Steps(p, m, x) ==
    /\ p = top /\ top' = p /\ frame[p].kind = "throw" /\ frame[p].mach = m
    /\ x.kind = "throw" /\ x.mach = m /\ frame'[p] = x
    /\ \A q \in Slot : q # p => frame'[q] = frame[q]

LEMMA StepForm ==
    ASSUME Inv, NEW p \in Slot, p = top, frame[p].kind = "throw", NEW m, m = frame[p].mach,
           NEW x, x.kind = "throw", x.mach = m, frame' = [frame EXCEPT ![p] = x], top' = top
    PROVE  Steps(p, m, x)
BY DEF Steps, Inv, TypeOK

LEMMA ProbeForm ==
    ASSUME Inv, ProbeForObject
    PROVE  \E p, m, x :
            /\ p \in Slot /\ m \in Slot
            /\ Steps(p, m, x) /\ objects' = objects /\ IsCode(m)
            /\ frame[p].pc = "visit" /\ x.pc = "visit" /\ frame[p].handler = 0 /\ x.handler = 0
            /\ x.ci.primary_frame_ptr = frame[p].ci.primary_frame_ptr
            /\ x.ci.unwind_context = frame[p].ci.unwind_context
<1>1. PICK p, m \in Slot : p = top /\ m = T.mach
  BY TopType, AtCodeFrameType DEF ProbeForObject
<1>2. PICK q \in Slot : Step([T EXCEPT !.ci.exception_object_or_link = ProbedObject(q)])
  BY DEF ProbeForObject
<1>3. /\ T = frame[p] /\ frame[p] \in RuntimeFrame /\ frame[p].handler = 0
      /\ frame[p].kind = "throw" /\ frame[p].pc = "visit" /\ IsCode(m)
  BY <1>1, AtCodeFrameType DEF ProbeForObject
<1> DEFINE x == [frame[p] EXCEPT !.ci.exception_object_or_link = ProbedObject(q)]
<1>4. /\ x.kind = "throw" /\ x.pc = "visit" /\ x.mach = m /\ x.handler = 0
      /\ x.ci.primary_frame_ptr = frame[p].ci.primary_frame_ptr
      /\ x.ci.unwind_context = frame[p].ci.unwind_context
  BY <1>1, <1>3 DEF RuntimeFrame, CatchInfo
<1>5. frame' = [frame EXCEPT ![p] = x] /\ top' = top /\ objects' = objects
  BY <1>1, <1>2, <1>3 DEF Step
<1> HIDE DEF x
<1>6. Steps(p, m, x)
  BY <1>1, <1>3, <1>4, <1>5, StepForm
<1> QED
  BY <1>3, <1>4, <1>5, <1>6

LEMMA VisitPassingForm ==
    ASSUME Inv, VisitPassing
    PROVE  \E p, m, x, home :
            /\ p \in Slot /\ m \in Slot
            /\ Steps(p, m, x) /\ objects' = objects /\ IsCode(m)
            /\ frame[p].pc = "visit" /\ x.pc = "unwind" /\ x.ci = frame[p].ci /\ x.handler = 0
            /\ IsHome(x.ci, m, home)
            /\ x.state = CurrentState(x.ci, m) /\ x.state \in States(frame[m].fn)
            /\ x.target_state = FuncletLow(frame[m].fn, home)
<1>1. PICK p, m \in Slot : p = top /\ m = T.mach
  BY TopType, AtCodeFrameType DEF VisitPassing
<1>2. /\ T = frame[p] /\ frame[p] \in RuntimeFrame /\ frame[p].handler = 0
      /\ frame[p].kind = "throw" /\ frame[p].pc = "visit" /\ IsCode(m)
      /\ CurrentState(frame[p].ci, m) \in States(frame[m].fn)
  BY <1>1, AtCodeFrameType DEF VisitPassing
<1>3. PICK home : /\ IsHome(T.ci, m, home)
                  /\ Step([T EXCEPT !.pc = "unwind", !.state = CurrentState(T.ci, m),
                                    !.target_state = FuncletLow(frame[m].fn, home)])
  BY <1>1 DEF VisitPassing
<1> DEFINE x == [frame[p] EXCEPT !.pc = "unwind", !.state = CurrentState(frame[p].ci, m),
                       !.target_state = FuncletLow(frame[m].fn, home)]
<1>4. /\ x.kind = "throw" /\ x.pc = "unwind" /\ x.mach = m /\ x.ci = frame[p].ci /\ x.handler = 0
      /\ x.state = CurrentState(frame[p].ci, m) /\ x.target_state = FuncletLow(frame[m].fn, home)
  BY <1>1, <1>2 DEF RuntimeFrame
<1>5. frame' = [frame EXCEPT ![p] = x] /\ top' = top /\ objects' = objects
  BY <1>1, <1>2, <1>3 DEF Step
<1> HIDE DEF x
<1>6. Steps(p, m, x)
  BY <1>1, <1>2, <1>4, <1>5, StepForm
<1>7. /\ IsHome(x.ci, m, home) /\ x.state = CurrentState(x.ci, m)
      /\ x.state \in States(frame[m].fn)
  BY <1>2, <1>3, <1>4
<1> QED
  BY <1>2, <1>4, <1>5, <1>6, <1>7

\* The dispatcher in slot p, at slot m, chooses try block i.
CatchingVisit(p, m, x, home, i) ==
    /\ p \in Slot /\ m \in Slot
    /\ Steps(p, m, x) /\ objects' = objects /\ IsCode(m)
    /\ frame[p].pc = "visit" /\ x.pc \in {"copy", "unwind"} /\ x.handler = i
    /\ IsHome(frame[p].ci, m, home) /\ i \in Candidates(frame[p].ci, m, home)
    /\ x.state = CurrentState(frame[p].ci, m) /\ x.state \in States(frame[m].fn)
    /\ x.target_state = Block(frame[m].fn, i).try_low - 1
    /\ x.ci.primary_frame_ptr = PrimaryFrame(frame[p].ci, m, home)
    /\ x.ci.unwind_context = [state |-> Block(frame[m].fn, i).try_low - 1, home_block_index |-> home]
    /\ x.ci.exception_object_or_link = Obj(p) /\ x.ci.throw_info_if_owner = Info(p)

LEMMA VisitCatchingForm ==
    ASSUME Inv, VisitCatching
    PROVE  \E p, m, x, home, i : CatchingVisit(p, m, x, home, i)
<1>1. PICK p, m \in Slot : p = top /\ m = T.mach
  BY TopType, AtCodeFrameType DEF VisitCatching
<1>2. /\ T = frame[p] /\ frame[p] \in RuntimeFrame
      /\ frame[p].kind = "throw" /\ frame[p].pc = "visit" /\ IsCode(m)
      /\ CurrentState(frame[p].ci, m) \in States(frame[m].fn)
  BY <1>1, AtCodeFrameType DEF VisitCatching
<1>3. PICK home \in 0..Len(Eh[frame[T.mach].fn].try_blocks), i \in Blocks(frame[T.mach].fn) :
        /\ IsHome(T.ci, T.mach, home)
        /\ \E j \in DOMAIN Block(frame[T.mach].fn, i).handlers :
            /\ Selects(T.ci, T.mach, home, GetThrowInfo(T.ci), i, j)
            /\ Step([T EXCEPT
                        !.pc = IF CopiesInto(GetThrowInfo(T.ci), Block(frame[T.mach].fn, i).handlers[j])
                               THEN "copy" ELSE "unwind",
                        !.handler = i,
                        !.state = CurrentState(T.ci, T.mach),
                        !.target_state = Block(frame[T.mach].fn, i).try_low - 1,
                        !.ci.primary_frame_ptr = PrimaryFrame(T.ci, T.mach, home),
                        !.ci.unwind_context = [state |-> Block(frame[T.mach].fn, i).try_low - 1,
                                               home_block_index |-> home]])
  BY DEF VisitCatching
<1>4. i \in Candidates(T.ci, T.mach, home)
  BY <1>3 DEF Selects
<1>5. PICK pc \in {"copy", "unwind"} :
            Step([T EXCEPT
                        !.pc = pc,
                        !.handler = i,
                        !.state = CurrentState(T.ci, T.mach),
                        !.target_state = Block(frame[T.mach].fn, i).try_low - 1,
                        !.ci.primary_frame_ptr = PrimaryFrame(T.ci, T.mach, home),
                        !.ci.unwind_context = [state |-> Block(frame[T.mach].fn, i).try_low - 1,
                                               home_block_index |-> home]])
  BY <1>3
<1>6. PICK low, prim, s : /\ low = Block(frame[m].fn, i).try_low - 1 /\ prim = PrimaryFrame(T.ci, m, home)
                          /\ s = CurrentState(T.ci, m)
  OBVIOUS
<1> DEFINE x == [frame[p] EXCEPT
                        !.pc = pc,
                        !.handler = i,
                        !.state = s,
                        !.target_state = low,
                        !.ci.primary_frame_ptr = prim,
                        !.ci.unwind_context = [state |-> low, home_block_index |-> home]]
<1>7. /\ x.kind = "throw" /\ x.pc = pc /\ x.mach = m
      /\ x.state = s /\ x.target_state = low /\ x.handler = i
      /\ x.ci.primary_frame_ptr = prim
      /\ x.ci.unwind_context = [state |-> low, home_block_index |-> home]
      /\ x.ci.exception_object_or_link = Obj(p) /\ x.ci.throw_info_if_owner = Info(p)
  BY <1>1, <1>2 DEF RuntimeFrame, CatchInfo, Obj, Info
<1>8. frame' = [frame EXCEPT ![p] = x] /\ top' = top /\ objects' = objects
  BY <1>1, <1>2, <1>5, <1>6 DEF Step
<1> HIDE DEF x
<1>9. Steps(p, m, x)
  BY <1>1, <1>2, <1>7, <1>8, StepForm
<1>10. /\ frame[p].pc = "visit" /\ x.pc \in {"copy", "unwind"} /\ x.handler = i
       /\ IsHome(frame[p].ci, m, home) /\ i \in Candidates(frame[p].ci, m, home)
       /\ x.state = CurrentState(frame[p].ci, m) /\ x.state \in States(frame[m].fn)
       /\ x.target_state = Block(frame[m].fn, i).try_low - 1
       /\ x.ci.primary_frame_ptr = PrimaryFrame(frame[p].ci, m, home)
       /\ x.ci.unwind_context = [state |-> Block(frame[m].fn, i).try_low - 1, home_block_index |-> home]
       /\ x.ci.exception_object_or_link = Obj(p) /\ x.ci.throw_info_if_owner = Info(p)
  BY <1>1, <1>2, <1>3, <1>4, <1>6, <1>7
<1> QED
  BY <1>2, <1>8, <1>9, <1>10 DEF CatchingVisit

LEMMA UnwindEdgeForm ==
    ASSUME Inv, UnwindEdge
    PROVE  \E p, m, x :
            /\ p \in Slot /\ m \in Slot
            /\ Steps(p, m, x) /\ IsCode(m)
            /\ frame[p].pc = "unwind" /\ x.pc \in {"unwind", "cleanup"}
            /\ x.ci = frame[p].ci /\ x.handler = frame[p].handler
            /\ x.target_state = frame[p].target_state
            /\ frame[p].state > frame[p].target_state /\ frame[p].target_state >= -1
            /\ frame[p].target_state \in Int
            /\ frame[p].state \in 0..Eh[frame[m].fn].last
            /\ x.state = Eh[frame[m].fn].next[frame[p].state]
            /\ frame[p].state \in Eh[frame[m].fn].cleanup =>
                objects' = objects \ {<<frame[m].primary, frame[p].state>>}
            /\ frame[p].state \notin Eh[frame[m].fn].cleanup => objects' = objects
<1>1. PICK p \in Slot : p = top
  BY TopType
<1>2. /\ T = frame[p] /\ frame[p] \in RuntimeFrame /\ ThrowShape(p)
      /\ frame[p].kind = "throw" /\ frame[p].pc = "unwind"
  BY <1>1, DispatchingType DEF UnwindEdge
<1>3. PICK m \in Slot : m = frame[p].mach /\ IsCode(m) /\ frame[m].fn \in Fns
  BY <1>2, CodeFrameType DEF ThrowShape, RuntimeFrame, CodeFrame, Slot, Inv
<1>4. /\ frame[p].state > frame[p].target_state /\ frame[p].target_state >= -1
      /\ frame[p].target_state \in Int /\ frame[p].state \in States(frame[m].fn)
      /\ frame[p].state # -1
  BY <1>1, <1>2, <1>3 DEF UnwindEdge, ThrowShape, RuntimeFrame
<1>5. frame[p].state \in 0..Eh[frame[m].fn].last
  BY <1>3, <1>4, EdgeType
<1>6. PICK s : s = Eh[frame[m].fn].next[frame[p].state]
  OBVIOUS
<1>7. PICK pc \in {"cleanup", "unwind"} :
        frame' = [frame EXCEPT ![p] = [frame[p] EXCEPT !.state = s, !.pc = pc]]
  <2>1. CASE frame[p].state \in Eh[frame[m].fn].cleanup
    <3>1. frame' = [frame EXCEPT ![p].state = s, ![p].pc = "cleanup"]
      BY <1>1, <1>2, <1>3, <1>6, <2>1 DEF UnwindEdge
    <3>2. frame' = [frame EXCEPT ![p] = [frame[p] EXCEPT !.state = s, !.pc = "cleanup"]]
      BY <3>1 DEF Inv, TypeOK
    <3> QED
      BY <3>2
  <2>2. CASE frame[p].state \notin Eh[frame[m].fn].cleanup
    <3>1. frame' = [frame EXCEPT ![p].state = s]
      BY <1>1, <1>2, <1>3, <1>6, <2>2 DEF UnwindEdge
    <3>2. [frame[p] EXCEPT !.state = s] = [frame[p] EXCEPT !.state = s, !.pc = "unwind"]
      BY <1>2 DEF RuntimeFrame
    <3>3. frame' = [frame EXCEPT ![p] = [frame[p] EXCEPT !.state = s, !.pc = "unwind"]]
      BY <3>1, <3>2 DEF Inv, TypeOK
    <3> QED
      BY <3>3
  <2> QED
    BY <2>1, <2>2
<1> DEFINE x == [frame[p] EXCEPT !.state = s, !.pc = pc]
<1>8. /\ x.kind = "throw" /\ x.pc = pc
      /\ x.mach = m /\ x.ci = frame[p].ci /\ x.state = s
      /\ x.target_state = frame[p].target_state /\ x.handler = frame[p].handler
  BY <1>2, <1>3 DEF RuntimeFrame
<1>9. /\ frame' = [frame EXCEPT ![p] = x] /\ top' = top
      /\ frame[p].state \in Eh[frame[m].fn].cleanup =>
            objects' = objects \ {<<frame[m].primary, frame[p].state>>}
      /\ frame[p].state \notin Eh[frame[m].fn].cleanup => objects' = objects
  BY <1>1, <1>2, <1>3, <1>7 DEF UnwindEdge
<1> HIDE DEF x
<1>10. Steps(p, m, x)
  BY <1>1, <1>2, <1>3, <1>8, <1>9, StepForm
<1> QED
  BY <1>2, <1>3, <1>4, <1>5, <1>6, <1>8, <1>9, <1>10

LEMMA CalloutReturnsForm ==
    ASSUME Inv, CalloutReturns
    PROVE  \E p, m, x :
            /\ p \in Slot /\ m \in Slot
            /\ Steps(p, m, x) /\ objects' = objects /\ IsCode(m)
            /\ frame[p].pc \in {"copy", "cleanup"} /\ x.pc = "unwind"
            /\ x.ci = frame[p].ci /\ x.handler = frame[p].handler
            /\ x.state = frame[p].state /\ x.target_state = frame[p].target_state
<1>1. PICK p \in Slot : p = top
  BY TopType
<1>2. /\ T = frame[p] /\ frame[p] \in RuntimeFrame /\ ThrowShape(p)
      /\ frame[p].kind = "throw" /\ frame[p].pc \in {"copy", "cleanup"}
  BY <1>1, DispatchingType DEF CalloutReturns
<1>3. PICK m \in Slot : m = frame[p].mach /\ IsCode(m)
  BY <1>2 DEF ThrowShape, RuntimeFrame, Slot
<1> DEFINE x == [frame[p] EXCEPT !.pc = "unwind"]
<1>4. /\ x.kind = "throw" /\ x.pc = "unwind" /\ x.mach = m /\ x.ci = frame[p].ci
      /\ x.state = frame[p].state /\ x.target_state = frame[p].target_state
      /\ x.handler = frame[p].handler
  BY <1>2, <1>3 DEF RuntimeFrame
<1>5. frame' = [frame EXCEPT ![p] = x] /\ top' = top /\ objects' = objects
  BY <1>1, <1>2 DEF CalloutReturns, Step
<1> HIDE DEF x
<1>6. Steps(p, m, x)
  BY <1>1, <1>2, <1>3, <1>4, <1>5, StepForm
<1> QED
  BY <1>2, <1>3, <1>4, <1>5, <1>6

LEMMA DestroyAtCatchFrameForm ==
    ASSUME Inv, DestroyAtCatchFrame
    PROVE  \E p, m, x :
            /\ p \in Slot /\ m \in Slot
            /\ Steps(p, m, x) /\ objects' = objects /\ frame[m].kind = "catch" /\ x.pc = "destroy"
            /\ x.ci = frame[p].ci
<1>1. PICK p \in Slot : p = top
  BY TopType
<1>2. T = frame[p] /\ frame[p] \in RuntimeFrame /\ frame[p].kind = "throw"
  BY <1>1, DispatchingType DEF DestroyAtCatchFrame, AtCatchFrame
<1>3. PICK m \in Slot : m = frame[p].mach /\ frame[m].kind = "catch"
  BY <1>2 DEF DestroyAtCatchFrame, AtCatchFrame, RuntimeFrame, Slot
<1> DEFINE x == [frame[p] EXCEPT !.pc = "destroy"]
<1>4. x.kind = "throw" /\ x.pc = "destroy" /\ x.mach = m /\ x.ci = frame[p].ci
  BY <1>2, <1>3 DEF RuntimeFrame
<1>5. frame' = [frame EXCEPT ![p] = x] /\ top' = top /\ objects' = objects
  BY <1>1, <1>2 DEF DestroyAtCatchFrame, Step
<1> HIDE DEF x
<1>6. Steps(p, m, x)
  BY <1>1, <1>2, <1>3, <1>4, <1>5, StepForm
<1> QED
  BY <1>3, <1>4, <1>5, <1>6

\* The dispatcher in slot p leaves slot m, which it empties, for slot c.
Unwinds(p, m, c, x) ==
    /\ p = top /\ top' = p /\ objects' = objects
    /\ frame[p].kind = "throw" /\ frame[p].mach = m /\ c = Caller(m)
    /\ x.kind = "throw" /\ x.mach = c /\ x.pc = "visit" /\ x.handler = 0
    /\ \A q \in Slot : frame'[q] = IF q = p THEN x ELSE IF q = m THEN Free ELSE frame[q]

LEMMA UnwindFrameForm ==
    ASSUME Inv, UnwindFrame
    PROVE  \E p, m, c, x :
            /\ p \in Slot /\ m \in Slot /\ c \in 0..MaxDepth
            /\ Unwinds(p, m, c, x) /\ IsCode(m) /\ c = m - 1
            /\ x.ci = frame[p].ci
            /\ frame[p].pc = "unwind" /\ frame[p].handler = 0
            /\ frame[p].state <= frame[p].target_state /\ frame[p].state \in States(frame[m].fn)
<1>1. PICK p \in Slot : p = top
  BY TopType
<1>2. /\ T = frame[p] /\ frame[p] \in RuntimeFrame /\ ThrowShape(p)
      /\ frame[p].kind = "throw" /\ frame[p].pc = "unwind" /\ frame[p].handler = 0
  BY <1>1, DispatchingType DEF UnwindFrame
<1>3. PICK m \in Slot : m = frame[p].mach /\ IsCode(m)
  BY <1>2 DEF ThrowShape, RuntimeFrame, Slot
<1>4. PICK c \in 0..MaxDepth : c = Caller(m) /\ c = m - 1
  BY <1>3, ProgramAssumption, CodeFrameType DEF Caller, Slot, Inv
<1> DEFINE x == Moved(frame[p], c, frame[p].ci)
<1>5. /\ x.kind = "throw" /\ x.pc = "visit" /\ x.mach = c /\ x.handler = 0 /\ x.ci = frame[p].ci
      /\ x \in RuntimeFrame
  <2>1. frame[p].ci \in CatchInfo
    BY <1>2 DEF RuntimeFrame
  <2> QED
    BY <1>2, <2>1, MovedType
<1>6. frame' = [frame EXCEPT ![m] = Free, ![p] = x] /\ top' = p /\ objects' = objects
  <2>1. x = UnwoundFrame(frame[p])
    <3>1. frame[p] = [frame[p] EXCEPT !.ci = frame[p].ci]
      BY <1>2 DEF RuntimeFrame
    <3>2. Caller(frame[p].mach) = c
      BY <1>3, <1>4
    <3> QED
      BY <1>2, <3>2 DEF UnwoundFrame, Moved, RuntimeFrame
  <2> HIDE DEF x
  <2> QED
    BY <1>1, <1>2, <1>3, <2>1 DEF UnwindFrame
<1> HIDE DEF x
<1>7. \A q \in Slot : frame'[q] = IF q = p THEN x ELSE IF q = m THEN Free ELSE frame[q]
  BY <1>5, <1>6, ReplaceTwo
<1>8. Unwinds(p, m, c, x)
  BY <1>1, <1>2, <1>3, <1>4, <1>5, <1>6, <1>7 DEF Unwinds
<1>9. frame[p].state <= frame[p].target_state /\ frame[p].state \in States(frame[m].fn)
  BY <1>2, <1>3 DEF UnwindFrame, ThrowShape
<1> QED
  BY <1>2, <1>3, <1>4, <1>5, <1>8, <1>9

LEMMA CatchFrameForm ==
    ASSUME Inv, TakeFromCatchFrame \/ PassCatchFrame
    PROVE  \E p, m, c, x :
            /\ p \in Slot /\ m \in Slot /\ c \in 0..MaxDepth
            /\ Unwinds(p, m, c, x) /\ frame[m].kind = "catch" /\ c = frame[m].mach
            /\ x.ci.primary_frame_ptr = frame[m].ci.primary_frame_ptr
            /\ x.ci.unwind_context = frame[m].ci.unwind_context
            /\ TakeFromCatchFrame => x.ci = frame[m].ci
            /\ ~TakeFromCatchFrame =>
                x.ci.exception_object_or_link = Obj(p) /\ x.ci.throw_info_if_owner = Info(p)
<1>1. PICK p \in Slot : p = top
  BY TopType
<1>2. /\ T = frame[p] /\ frame[p] \in RuntimeFrame /\ ThrowShape(p)
      /\ frame[p].kind = "throw" /\ frame[p].handler = 0
      /\ frame[p].mach >= 1 /\ frame[frame[p].mach].kind = "catch"
  <2>1. CASE TakeFromCatchFrame
    BY <1>1, <2>1, DispatchingType DEF TakeFromCatchFrame, AtCatchFrame, ThrowShape
  <2>2. CASE PassCatchFrame
    BY <1>1, <2>2, DispatchingType DEF PassCatchFrame, ThrowShape
  <2> QED
    BY <2>1, <2>2
<1>3. PICK m \in Slot : m = frame[p].mach /\ frame[m].kind = "catch"
  BY <1>2 DEF RuntimeFrame, Slot
<1>4. PICK c \in 0..MaxDepth : c = Caller(m) /\ c = frame[m].mach
  BY <1>3, CatchFrameType
<1>5. PICK k : k = frame[m].ci /\ k \in CatchInfo
  BY <1>3, CatchFrameType DEF RuntimeFrame
<1> DEFINE ci == IF TakeFromCatchFrame THEN k
                 ELSE [frame[p].ci EXCEPT !.primary_frame_ptr = k.primary_frame_ptr,
                                          !.unwind_context = k.unwind_context]
           x == Moved(frame[p], c, ci)
<1>6. /\ ci \in CatchInfo /\ ci.primary_frame_ptr = k.primary_frame_ptr
      /\ ci.unwind_context = k.unwind_context
      /\ TakeFromCatchFrame => ci = k
      /\ ~TakeFromCatchFrame => ci.exception_object_or_link = Obj(p) /\ ci.throw_info_if_owner = Info(p)
  BY <1>2, <1>5 DEF RuntimeFrame, CatchInfo, Obj, Info
<1>7. /\ x.kind = "throw" /\ x.pc = "visit" /\ x.mach = c /\ x.handler = 0 /\ x.ci = ci
      /\ x \in RuntimeFrame
  <2> HIDE DEF ci
  <2> QED
    BY <1>2, <1>6, MovedType
<1>8. Caller(frame[p].mach) = c
  BY <1>3, <1>4
<1>9. frame' = [frame EXCEPT ![m] = Free, ![p] = x] /\ top' = p /\ objects' = objects
  <2>1. CASE TakeFromCatchFrame
    <3>1. x = [UnwoundFrame(frame[p]) EXCEPT !.ci = k]
      BY <1>2, <1>8, <2>1 DEF UnwoundFrame, Moved, RuntimeFrame
    <3> HIDE DEF x
    <3> QED
      BY <1>1, <1>2, <1>3, <1>5, <2>1, <3>1 DEF TakeFromCatchFrame
  <2>2. CASE PassCatchFrame /\ ~TakeFromCatchFrame
    <3>1. x = [UnwoundFrame(frame[p]) EXCEPT
                  !.ci.primary_frame_ptr = k.primary_frame_ptr,
                  !.ci.unwind_context = k.unwind_context]
      BY <1>2, <1>8, <2>2 DEF UnwoundFrame, Moved, RuntimeFrame, CatchInfo
    <3> HIDE DEF x
    <3> QED
      BY <1>1, <1>2, <1>3, <1>5, <2>2, <3>1 DEF PassCatchFrame
  <2> QED
    BY <2>1, <2>2
<1> HIDE DEF x
<1>10. \A q \in Slot : frame'[q] = IF q = p THEN x ELSE IF q = m THEN Free ELSE frame[q]
  BY <1>7, <1>9, ReplaceTwo
<1>11. Unwinds(p, m, c, x)
  BY <1>1, <1>2, <1>3, <1>4, <1>7, <1>9, <1>10 DEF Unwinds
<1>12. /\ x.ci.primary_frame_ptr = frame[m].ci.primary_frame_ptr
       /\ x.ci.unwind_context = frame[m].ci.unwind_context
       /\ TakeFromCatchFrame => x.ci = frame[m].ci
       /\ ~TakeFromCatchFrame =>
            x.ci.exception_object_or_link = Obj(p) /\ x.ci.throw_info_if_owner = Info(p)
  BY <1>5, <1>6, <1>7
<1> QED
  BY <1>3, <1>4, <1>11, <1>12

LEMMA CallHandlerForm ==
    ASSUME Inv, CallHandler
    PROVE  \E p, m, n, x, y : p \in Slot /\ m \in Slot /\ n \in Slot /\ Handles(p, m, n, x, y)
<1>1. PICK p \in Slot : p = top
  BY TopType
<1>2. /\ T = frame[p] /\ frame[p] \in RuntimeFrame /\ ThrowShape(p)
      /\ frame[p].kind = "throw" /\ frame[p].pc = "unwind" /\ frame[p].handler # 0
      /\ frame[p].state <= frame[p].target_state
  BY <1>1, DispatchingType DEF CallHandler
<1>3. PICK m \in Slot : m = frame[p].mach /\ IsCode(m)
  BY <1>2 DEF ThrowShape, RuntimeFrame, Slot
<1>4. PICK n \in Slot : n = p + 1
  BY <1>2, ProgramAssumption DEF ThrowShape, Slot
<1> DEFINE x == [frame[p] EXCEPT !.kind = "catch", !.pc = "handler",
                                 !.state = -1, !.target_state = -1]
           y == [kind |-> "code", fn |-> frame[m].fn, block |-> frame[p].handler,
                 state |-> HandlerState(frame[m].fn, frame[p].handler),
                 primary |-> frame[p].ci.primary_frame_ptr]
<1>5. x.kind = "catch" /\ x.mach = m /\ x.ci = frame[p].ci /\ x.handler = frame[p].handler
  BY <1>2, <1>3 DEF RuntimeFrame
<1>6. /\ y.kind = "code" /\ y.fn = frame[m].fn /\ y.block = frame[p].handler
      /\ y.primary = frame[p].ci.primary_frame_ptr /\ y.state = HandlerState(frame[m].fn, frame[p].handler)
  OBVIOUS
<1>7. frame' = [frame EXCEPT ![p] = x, ![n] = y] /\ top' = n /\ objects' = objects
  BY <1>1, <1>2, <1>3, <1>4 DEF CallHandler
<1> HIDE DEF x, y
<1>8. \A q \in Slot : frame'[q] = IF q = n THEN y ELSE IF q = p THEN x ELSE frame[q]
  BY <1>7 DEF Inv, TypeOK
<1>9. frame[p].state \in States(frame[m].fn)
  BY <1>2, <1>3 DEF ThrowShape
<1>10. y.block = x.handler /\ y.primary = x.ci.primary_frame_ptr /\ y.state = HandlerState(y.fn, y.block)
  BY <1>5, <1>6
<1>11. /\ p = top /\ n = p + 1 /\ top' = n /\ objects' = objects
       /\ frame[p].kind = "throw" /\ frame[p].pc = "unwind" /\ frame[p].handler # 0
       /\ m = frame[p].mach /\ IsCode(m)
       /\ frame[p].state <= frame[p].target_state /\ frame[p].state \in States(frame[m].fn)
  BY <1>1, <1>2, <1>3, <1>4, <1>7, <1>9
<1>12. /\ x.kind = "catch" /\ x.mach = m /\ x.ci = frame[p].ci /\ x.handler = frame[p].handler
       /\ y.kind = "code" /\ y.fn = frame[m].fn /\ y.block = x.handler
       /\ y.primary = x.ci.primary_frame_ptr /\ y.state = HandlerState(y.fn, y.block)
  BY <1>5, <1>6, <1>10
<1>13. Handles(p, m, n, x, y)
  BY <1>8, <1>11, <1>12, Zenon DEF Handles
<1> QED
  BY <1>13

LEMMA ContinueForm ==
    ASSUME Inv, ContinueAfterException
    PROVE  \E p, m, x : p \in Slot /\ m \in Slot /\ Resumes(p, m, x)
<1>1. PICK p \in Slot : p = top
  BY TopType
<1>2. /\ T = frame[p] /\ frame[p] \in RuntimeFrame /\ CatchShape(p) /\ frame[p].mach < p
      /\ frame[p].kind = "destroy"
  BY <1>1, TopType DEF ContinueAfterException, IsRuntime, T, RuntimeShape
<1>3. PICK m \in Slot : m = frame[p].mach /\ IsCode(m) /\ m # p
  BY <1>2 DEF CatchShape, RuntimeFrame, Slot
<1>4. frame[m] \in CodeFrame
  BY <1>3, CodeFrameType DEF Inv
<1>5. PICK s : s = Eh[frame[m].fn].next[Block(frame[m].fn, frame[p].handler).try_low]
  OBVIOUS
<1> DEFINE x == [frame[m] EXCEPT !.state = s]
<1>6. /\ x.kind = "code" /\ x.fn = frame[m].fn /\ x.state = s
      /\ x.block = frame[m].block /\ x.primary = frame[m].primary
  BY <1>3, <1>4 DEF CodeFrame, IsCode
<1>7. frame' = [frame EXCEPT ![p] = Free, ![m] = x] /\ top' = m /\ objects' = objects
  <2>1. frame' = [frame EXCEPT ![p] = Free, ![m].state = s] /\ top' = m /\ objects' = objects
    BY <1>1, <1>2, <1>3, <1>5 DEF ContinueAfterException
  <2>2. m # p /\ frame \in [Slot -> Frame]
    BY <1>3 DEF Inv, TypeOK
  <2> QED
    BY <2>1, <2>2
<1> HIDE DEF x
<1>8. \A q \in Slot : frame'[q] = IF q = p THEN Free ELSE IF q = m THEN x ELSE frame[q]
  BY <1>3, <1>7 DEF Inv, TypeOK
<1>9. x.state = Eh[x.fn].next[Block(x.fn, frame[p].handler).try_low]
  BY <1>5, <1>6
<1>10. /\ p = top /\ top' = m /\ objects' = objects
       /\ frame[p].kind = "destroy" /\ m = frame[p].mach
       /\ x.kind = "code" /\ x.fn = frame[m].fn /\ x.block = frame[m].block
       /\ x.primary = frame[m].primary
  BY <1>1, <1>2, <1>3, <1>6, <1>7
<1>11. Resumes(p, m, x)
  BY <1>8, <1>9, <1>10, Zenon DEF Resumes
<1> QED
  BY <1>11

----------------------------------------------------------------------------
(* Every step keeps the activations as they should be.                     *)

LEMMA ActsUnchanged == ASSUME Activation, frame' = frame, top' = top PROVE Activation'
BY DEF Activation, HandlerAbove, IsCode

LEMMA UserActs == ASSUME Inv, Activation, UserCode PROVE Activation'
<1>1. ASSUME NEW f \in Fns, Call(f) PROVE Activation'
  <2>1. PICK n, x :
            /\ n \in Slot
            /\ n = top + 1 /\ top' = n /\ frame'[n] = x
            /\ x.kind = "code" /\ x.fn = f /\ x.block = 0 /\ x.state = -1 /\ x.primary = n
            /\ \A q \in Slot : q # n => frame'[q] = frame[q]
    BY <1>1, CallForm
  <2>2. CodeActivation(n, x)
    BY <2>1, WithinStart DEF CodeActivation, Slot
  <2> QED
    BY <2>1, <2>2, PushActs
<1>2. ASSUME NEW s \in UNION {0..Eh[f].last : f \in Fns}, Enter(s) PROVE Activation'
  <2>1. s \in Nat
    BY EhAssumption
  <2>2. PICK p, x :
            /\ p \in Slot
            /\ p = top /\ top' = p /\ IsCode(p) /\ frame'[p] = x
            /\ x.kind = "code" /\ x.fn = frame[p].fn /\ x.block = frame[p].block
            /\ x.primary = frame[p].primary /\ x.state = s
            /\ \A q \in Slot : q # p => frame'[q] = frame[q]
            /\ s \in 0..Eh[x.fn].last /\ Eh[x.fn].next[s] = frame[p].state
            /\ HomeBlock(x.fn, s) = x.block
    BY <1>2, <2>1, EnterForm
  <2>3. x.fn \in Fns /\ Within(x.fn, x.block, frame[p].state)
    BY <2>2, CodeFacts DEF Activation, CodeActivation
  <2>4. Within(x.fn, x.block, x.state)
    BY <2>2, <2>3, WithinEnter
  <2> QED
    BY <2>2, <2>4, StateActs
<1>3. CASE Leave
  <2>1. PICK p, x :
            /\ p \in Slot
            /\ p = top /\ top' = p /\ IsCode(p) /\ frame'[p] = x
            /\ x.kind = "code" /\ x.fn = frame[p].fn /\ x.block = frame[p].block
            /\ x.primary = frame[p].primary /\ x.state = Eh[x.fn].next[frame[p].state]
            /\ \A q \in Slot : q # p => frame'[q] = frame[q]
            /\ frame[p].state # -1
            /\ x.block # 0 => frame[p].state # HandlerState(x.fn, x.block)
    BY <1>3, LeaveForm
  <2>2. PICK f, b, s :
            /\ f \in Fns
            /\ b \in 0..Len(Eh[f].try_blocks) /\ s \in States(f)
            /\ f = frame[p].fn /\ b = frame[p].block /\ s = frame[p].state
            /\ Within(f, b, s)
    BY <2>1, CodeFacts DEF Activation, CodeActivation
  <2>3. s \in 0..Eh[f].last
    BY <2>1, <2>2, EdgeType
  <2>4. s \in Chain(f, s)
    BY <2>2, <2>3, ChainStep
  <2>5. b # 0 => HandlerState(f, b) < s
    <3> SUFFICES ASSUME b # 0 PROVE HandlerState(f, b) < s
      OBVIOUS
    <3>1. b \in Blocks(f) /\ HandlerState(f, b) <= s
      BY <2>2, WithinHome
    <3>2. HandlerState(f, b) \in States(f) /\ s \in States(f)
      BY <2>2, <3>1, HandlerFacts
    <3>3. HandlerState(f, b) \in Int /\ s \in Int /\ s # HandlerState(f, b)
      BY <2>1, <2>2, <3>2, BlocksType
    <3> QED
      BY <3>1, <3>3
  <2>6. Within(x.fn, x.block, x.state)
    BY <2>1, <2>2, <2>4, <2>5, WithinLeave
  <2> QED
    BY <2>1, <2>6, StateActs
<1>4. CASE Return
  <2>1. PICK n, p \in Slot :
            /\ n = top /\ IsCode(n) /\ p = n - 1 /\ top' = p /\ frame'[n] = Free
            /\ \A q \in Slot : q # n => frame'[q] = frame[q]
            /\ frame[n].block = 0
    BY <1>4, ReturnForm
  <2>2. PICK x : x = frame[p] /\ frame'[p] = x
    BY <2>1 DEF Slot
  <2> QED
    BY <2>1, <2>2, PopActs
<1>5. CASE CatchReturn
  <2>1. PICK n, p, x :
            /\ n \in Slot /\ p \in Slot
            /\ n = top /\ IsCode(n) /\ p = n - 1 /\ top' = p /\ frame'[n] = Free
            /\ \A q \in Slot : q # n /\ q # p => frame'[q] = frame[q]
            /\ frame[p].kind = "catch" /\ frame'[p] = x
            /\ x.kind = "destroy" /\ x.mach = frame[p].mach
            /\ x.ci = frame[p].ci /\ x.handler = frame[p].handler
    BY <1>5, CatchReturnForm
  <2> QED
    BY <2>1, PopActs
<1>6. ASSUME Running, NEW obj, NEW info, PushThrowFrame(obj, info) PROVE Activation'
  <2>1. PICK n, x :
            /\ n \in Slot
            /\ n = top + 1 /\ top' = n /\ IsCode(top) /\ frame'[n] = x
            /\ x.kind = "throw" /\ x.mach = top /\ x.pc = "visit" /\ x.handler = 0
            /\ IsFresh(x.ci, top)
            /\ \A q \in Slot : q # n => frame'[q] = frame[q]
    BY <1>6, ThrowForm
  <2>2. ThrowActivation(x, frame[top])
    BY <2>1 DEF ThrowActivation
  <2> QED
    BY <2>1, <2>2, PushActs
<1>7. ASSUME NEW t \in Types, Throw(t) PROVE Activation'
  BY <1>6, <1>7 DEF Throw
<1>8. CASE Rethrow
  BY <1>6, <1>8 DEF Rethrow
<1> QED
  BY <1>1, <1>2, <1>3, <1>4, <1>5, <1>7, <1>8 DEF UserCode

\* The walk arrives at a code frame it has unwound a whole activation to, and
\* finds nothing cached for it.
LEMMA FreshAtCaller ==
    ASSUME Inv, Activation, NEW p \in Slot, NEW m \in Slot, NEW c, NEW x, Unwinds(p, m, c, x),
           IsCode(m), c = m - 1, x.ci = frame[p].ci, frame[p].handler = 0,
           NEW q \in Slot, q = c, IsCode(q)
    PROVE  IsFresh(x.ci, q)
<1>1. frame[m].primary = m
  <2>1. CodeShape(m) /\ frame[m - 1].kind = "code"
    BY DEF Inv, StackShape, IsCode
  <2>2. frame[m].block = 0
    BY <2>1 DEF CodeShape
  <2> QED
    BY <2>2, CodeFacts
<1>2. IsFresh(x.ci, m) \/ x.ci.primary_frame_ptr = m
  BY <1>1 DEF Activation, ThrowActivation, Unwinds, CachedIs
<1>3. x.ci.primary_frame_ptr \in Nat
  <2>1. frame[p] \in RuntimeFrame
    BY RuntimeFrameType DEF Unwinds, IsRuntime, Inv
  <2> QED
    BY <2>1, ProgramAssumption DEF RuntimeFrame, CatchInfo, FramePtr, NullFrame
<1> QED
  BY <1>2, <1>3 DEF IsFresh, Below, Slot

LEMMA RuntimeActs == ASSUME Inv, Activation, Runtime PROVE Activation'
<1>1. CASE ProbeForObject
  <2>1. PICK p, m, x :
            /\ p \in Slot /\ m \in Slot
            /\ Steps(p, m, x) /\ IsCode(m) /\ x.handler = 0
            /\ x.ci.primary_frame_ptr = frame[p].ci.primary_frame_ptr
            /\ x.ci.unwind_context = frame[p].ci.unwind_context
    BY <1>1, ProbeForm
  <2>2. ThrowActivation(frame[p], frame[m])
    BY <2>1 DEF Activation, Steps
  <2>3. ThrowActivation(x, frame[m])
    BY <2>1, <2>2 DEF ThrowActivation, CachedIs, IsFresh, Steps
  <2> QED
    BY <2>1, <2>3, StepActs DEF Steps
<1>2. CASE VisitCatching
  <2>1. PICK p, m, x, home, i :
            /\ p \in Slot /\ m \in Slot
            /\ Steps(p, m, x) /\ IsCode(m) /\ x.handler = i
            /\ IsHome(frame[p].ci, m, home) /\ i \in Candidates(frame[p].ci, m, home)
            /\ CurrentState(frame[p].ci, m) \in States(frame[m].fn)
            /\ x.ci.primary_frame_ptr = PrimaryFrame(frame[p].ci, m, home)
            /\ x.ci.unwind_context = [state |-> Block(frame[m].fn, i).try_low - 1, home_block_index |-> home]
    <3>1. PICK p, m, x, home, i : CatchingVisit(p, m, x, home, i)
      BY <1>2, VisitCatchingForm
    <3>2. CurrentState(frame[p].ci, m) \in States(frame[m].fn)
      BY <3>1 DEF CatchingVisit
    <3> QED
      BY <3>1, <3>2 DEF CatchingVisit
  <2>2. PICK ci : /\ ci = frame[p].ci /\ ThrowActivation(frame[p], frame[m])
                  /\ ~IsFresh(ci, m) => \E b \in Blocks(frame[m].fn) : CachedIs(ci, frame[m], b)
    BY <2>1 DEF Activation, Steps, ThrowActivation
  <2>3. home = frame[m].block /\ PrimaryFrame(ci, m, home) = frame[m].primary
    BY <2>1, <2>2, FindsItself
  <2>4. TryAround(frame[m], i)
    BY <2>1, <2>2, ExaminesAround
  <2>5. CachedIs(x.ci, frame[m], i) /\ i \in Blocks(frame[m].fn)
    BY <2>1, <2>2, <2>3, <2>4 DEF CachedIs, TryAround
  <2>6. ThrowActivation(x, frame[m])
    BY <2>1, <2>5 DEF ThrowActivation
  <2> QED
    BY <2>1, <2>6, StepActs DEF Steps
<1>3. CASE VisitPassing
  <2>1. PICK p, m, x :
            p \in Slot /\ m \in Slot /\ Steps(p, m, x) /\ IsCode(m) /\ x.ci = frame[p].ci /\ x.handler = 0
    BY <1>3, VisitPassingForm
  <2>2. ThrowActivation(x, frame[m])
    BY <2>1 DEF Activation, Steps, ThrowActivation
  <2> QED
    BY <2>1, <2>2, StepActs DEF Steps
<1>4. CASE UnwindEdge
  <2>1. PICK p, m, x :
            p \in Slot /\ m \in Slot /\ Steps(p, m, x) /\ IsCode(m) /\ x.ci = frame[p].ci /\ x.handler = frame[p].handler
    BY <1>4, UnwindEdgeForm
  <2>2. ThrowActivation(x, frame[m])
    BY <2>1 DEF Activation, Steps, ThrowActivation
  <2> QED
    BY <2>1, <2>2, StepActs DEF Steps
<1>5. CASE CalloutReturns
  <2>1. PICK p, m, x :
            p \in Slot /\ m \in Slot /\ Steps(p, m, x) /\ IsCode(m) /\ x.ci = frame[p].ci /\ x.handler = frame[p].handler
    BY <1>5, CalloutReturnsForm
  <2>2. ThrowActivation(x, frame[m])
    BY <2>1 DEF Activation, Steps, ThrowActivation
  <2> QED
    BY <2>1, <2>2, StepActs DEF Steps
<1>6. CASE DestroyAtCatchFrame
  <2>1. PICK p, m, x : p \in Slot /\ m \in Slot /\ Steps(p, m, x) /\ frame[m].kind = "catch"
    BY <1>6, DestroyAtCatchFrameForm
  <2> QED
    BY <2>1, StepActs DEF Steps, IsCode
<1>7. CASE UnwindFrame
  <2>1. PICK p, m, c, x :
            /\ p \in Slot /\ m \in Slot /\ c \in 0..MaxDepth
            /\ Unwinds(p, m, c, x) /\ IsCode(m) /\ c = m - 1
            /\ x.ci = frame[p].ci /\ frame[p].handler = 0
    BY <1>7, UnwindFrameForm
  <2>2. \A q \in Slot : q = c /\ IsCode(q) => IsFresh(x.ci, q)
    BY <2>1, FreshAtCaller
  <2>3. \A q \in Slot : q = c /\ IsCode(q) => ThrowActivation(x, frame[q])
    BY <2>1, <2>2 DEF ThrowActivation, Unwinds
  <2> QED
    BY <2>1, <2>3, UnwindActs DEF Unwinds
<1>8. CASE TakeFromCatchFrame \/ PassCatchFrame
  <2>1. PICK p, m, c, x :
            /\ p \in Slot /\ m \in Slot /\ c \in 0..MaxDepth
            /\ Unwinds(p, m, c, x) /\ frame[m].kind = "catch" /\ c = frame[m].mach
            /\ x.ci.primary_frame_ptr = frame[m].ci.primary_frame_ptr
            /\ x.ci.unwind_context = frame[m].ci.unwind_context
    BY <1>8, CatchFrameForm
  <2>2. \A q \in Slot : q = c /\ IsCode(q) => ThrowActivation(x, frame[q])
    <3> SUFFICES ASSUME NEW q \in Slot, q = c, IsCode(q) PROVE ThrowActivation(x, frame[q])
      OBVIOUS
    <3>1. CachedIs(frame[m].ci, frame[q], frame[m].handler)
      BY <2>1 DEF Activation
    <3>2. CachedIs(x.ci, frame[q], frame[m].handler) /\ frame[m].handler \in Blocks(frame[q].fn)
      BY <2>1, <3>1 DEF CachedIs, TryAround
    <3> QED
      BY <2>1, <3>2 DEF ThrowActivation, Unwinds
  <2> QED
    BY <2>1, <2>2, UnwindActs DEF Unwinds
<1>9. CASE CallHandler
  <2>1. PICK p, m, n, x, y : p \in Slot /\ m \in Slot /\ n \in Slot /\ Handles(p, m, n, x, y)
    BY <1>9, CallHandlerForm
  <2> QED
    BY <2>1, HandlerActs
<1>10. CASE ContinueAfterException
  <2>1. PICK p, m, x : p \in Slot /\ m \in Slot /\ Resumes(p, m, x)
    BY <1>10, ContinueForm
  <2> QED
    BY <2>1, ResumeActs
<1>11. CASE ProbeFails \/ VisitVerifyFails \/ VisitForeignFrame
  BY <1>11, ActsUnchanged DEF ProbeFails, VisitVerifyFails, VisitForeignFrame, BugCheck
<1> QED
  BY <1>1, <1>2, <1>3, <1>4, <1>5, <1>6, <1>7, <1>8, <1>9, <1>10, <1>11 DEF Runtime

LEMMA NextActs == Inv /\ Activation /\ [Next]_vars => Activation'
<1> SUFFICES ASSUME Inv, Activation, [Next]_vars PROVE Activation'
  OBVIOUS
<1>1. CASE Halted \/ UNCHANGED vars
  BY <1>1, ActsUnchanged DEF Halted, vars
<1> QED
  BY <1>1, UserActs, RuntimeActs DEF Next

\* What fh3.cpp:140-142 caches about an activation is true of it for as long as
\* it may be used: every catch frame stands between its catcher and its
\* handler, which agree on the function and on the frame of its variables.
THEOREM HandlersShare == Spec => []HandlersShareFrame
<1>1. Inv /\ Activation => HandlersShareFrame
  <2> SUFFICES ASSUME Inv, Activation, NEW k \in Slot, frame[k].kind = "catch"
               PROVE  /\ k < top /\ frame[k].mach >= 1 /\ IsCode(frame[k].mach)
                      /\ frame[k].ci.primary_frame_ptr = frame[frame[k].mach].primary
                      /\ frame[k].ci.unwind_context.home_block_index = frame[frame[k].mach].block
                      /\ HandlerAbove(k)
    BY DEF HandlersShareFrame, HandlerAbove
  <2>1. HandlerAbove(k)
    BY DEF Activation
  <2>2. frame[k].mach \in Slot /\ IsCode(frame[k].mach)
    BY StackFacts
  <2>3. CachedIs(frame[k].ci, frame[frame[k].mach], frame[k].handler)
    BY <2>2 DEF Activation
  <2> QED
    BY <2>1, <2>2, <2>3 DEF HandlerAbove, CachedIs, Slot
<1>2. Init => Inv /\ Activation
  BY InitInv, InitActs
<1>3. Inv /\ Activation /\ [Next]_vars => Inv' /\ Activation'
  BY NextInv, NextActs
<1> QED
  BY <1>1, <1>2, <1>3, PTL DEF Spec

----------------------------------------------------------------------------
(* The objects of a frame.                                                 *)

\* <<n, s>> is an object of the funclet whose frame is c.
Mine(c, n, s) == n = c.primary /\ s \in 0..Eh[c.fn].last /\ HomeBlock(c.fn, s) = c.block

\* The objects of the funclet with frame c are those it owes at state e.
Exact(c, e, objs) ==
    \A s \in 0..Eh[c.fn].last :
        HomeBlock(c.fn, s) = c.block => (<<c.primary, s>> \in objs <=> s \in Owed(c.fn, e))

\* The two sets of objects differ only in objects of c.
OnlyMine(c, objs, objs1) ==
    \A n, s : Mine(c, n, s) \/ (<<n, s>> \in objs <=> <<n, s>> \in objs1)

\* The state that the runtime frame t keeps for the code frame c in slot m.
KeptState(t, m, c) ==
    IF t.kind # "throw" THEN t.ci.unwind_context.state
    ELSE IF t.pc = "visit" THEN (IF IsFresh(t.ci, m) THEN c.state ELSE t.ci.unwind_context.state)
    ELSE t.state

\* The walk t, which is unwinding the code frame c, runs only cleanups that c
\* owes, down to the end of the funclet or to the try that catches.
WalkShape(t, c) ==
    /\ Owed(c.fn, t.state) \subseteq Owed(c.fn, c.state)
    /\ t.handler = 0 => t.target_state = FuncletLow(c.fn, c.block)
    /\ t.handler # 0 =>
        LET low == Block(c.fn, t.handler).try_low
        IN  /\ t.target_state = low - 1
            /\ t.state = Eh[c.fn].next[low] \/ low \in Chain(c.fn, t.state)

StandsOn(k, j) == IsRuntime(k) /\ frame[k].mach = j

CleanAt(j) ==
    /\ \/ \E k \in Slot : StandsOn(k, j)
       \/ Exact(frame[j], frame[j].state, objects)
    /\ \A k \in Slot : StandsOn(k, j) =>
        /\ Exact(frame[j], KeptState(frame[k], j, frame[j]), objects)
        /\ frame[k].kind = "throw" /\ frame[k].pc \in {"copy", "unwind", "cleanup"}
            => WalkShape(frame[k], frame[j])

Cleaned ==
    /\ \A j \in Slot : IsCode(j) => CleanAt(j)
    /\ \A n, s : <<n, s>> \in objects => \E j \in Slot : IsCode(j) /\ Mine(frame[j], n, s)

\* What is checked of every function's table on top of WellFormed.
CleanTryEntries == \A f \in Fns : CleanTryEntry(f)

LEMMA KeepCleanAt ==
    ASSUME NEW j \in Slot, CleanAt(j), frame'[j] = frame[j],
           \A k \in Slot : StandsOn(k, j)' <=> StandsOn(k, j),
           \A k \in Slot : StandsOn(k, j) => frame'[k] = frame[k],
           \A e : Exact(frame[j], e, objects) => Exact(frame[j], e, objects')
    PROVE  CleanAt(j)'
BY DEF CleanAt

\* No object belongs to two frames.
LEMMA MineOnce ==
    ASSUME Inv, Activation, NEW i \in Slot, IsCode(i), NEW j \in Slot, IsCode(j), i # j,
           NEW n, NEW s, Mine(frame[i], n, s)
    PROVE  ~Mine(frame[j], n, s)
<1>1. \A k, m \in Slot :
        IsCode(k) /\ IsCode(m) /\ k < m /\ frame[k].primary = frame[m].primary
            => frame[k].fn = frame[m].fn /\ frame[k].block # frame[m].block
  <2> SUFFICES ASSUME NEW k \in Slot, NEW m \in Slot, IsCode(k), IsCode(m), k < m,
                      frame[k].primary = frame[m].primary
               PROVE  frame[k].fn = frame[m].fn /\ frame[k].block # frame[m].block
    OBVIOUS
  <2>1. frame[k].fn = frame[m].fn /\ frame[k].block < frame[m].block
    BY DEF Activation
  <2>2. frame[k].block \in Nat /\ frame[m].block \in Nat
    BY CodeFacts
  <2> QED
    BY <2>1, <2>2
<1>2. i < j \/ j < i
  BY DEF Slot
<1> QED
  BY <1>1, <1>2 DEF Mine

LEMMA OthersExact ==
    ASSUME Inv, Activation, NEW m \in Slot, IsCode(m), NEW objs, OnlyMine(frame[m], objects, objs),
           NEW j \in Slot, IsCode(j), j # m, NEW e, Exact(frame[j], e, objects)
    PROVE  Exact(frame[j], e, objs)
<1> SUFFICES ASSUME NEW s \in 0..Eh[frame[j].fn].last, HomeBlock(frame[j].fn, s) = frame[j].block
             PROVE  <<frame[j].primary, s>> \in objs <=> s \in Owed(frame[j].fn, e)
  BY DEF Exact
<1>1. Mine(frame[j], frame[j].primary, s)
  BY DEF Mine
<1>2. ~Mine(frame[m], frame[j].primary, s)
  BY <1>1, MineOnce
<1> QED
  BY <1>2 DEF Exact, OnlyMine

\* Two runtime frames never stand on one frame, and only the newest runtime
\* frame may be the newest frame.
LEMMA StandAlone ==
    ASSUME Inv, NEW k \in Slot, NEW i \in Slot, NEW j, StandsOn(k, j), StandsOn(i, j)
    PROVE  k = i
<1>1. ASSUME NEW a \in Slot, NEW b \in Slot, StandsOn(a, j), StandsOn(b, j) PROVE ~(a < b)
  BY <1>1, StackFacts DEF StandsOn, IsRuntime, Free
<1> QED
  BY <1>1 DEF Slot

----------------------------------------------------------------------------
(* The steps of user code keep the objects exact.                          *)

LEMMA PushCleans ==
    ASSUME Inv, Activation, Cleaned, NEW n \in Slot, n = top + 1, NEW x, frame'[n] = x,
           objects' = objects, \A q \in Slot : q # n => frame'[q] = frame[q],
           \/ x.kind = "code" /\ x.fn \in Fns /\ x.state = -1 /\ x.primary = n
           \/ x.kind = "throw" /\ x.mach = top /\ x.pc = "visit" /\ IsFresh(x.ci, top)
    PROVE  Cleaned'
<1>1. /\ top \in Slot /\ top < n
      /\ \A k \in Slot : k > top => frame[k].kind = "free"
      /\ \A k \in Slot : IsRuntime(k) => frame[k].mach < k
      /\ \A k \in Slot : IsCode(k) => frame[k].primary <= k
  <2>1. \A k \in Slot : IsCode(k) => frame[k].primary <= k
    BY DEF Activation, CodeActivation
  <2> QED
    BY <2>1, StackFacts DEF Slot
<1>2. \A k \in Slot : frame[k].kind # "free" => k # n /\ k < n /\ frame'[k] = frame[k]
  BY <1>1 DEF Slot
<1>3. ~IsRuntime(n) /\ ~IsCode(n)
  BY <1>1 DEF IsRuntime, IsCode
<1>4. \A k, j \in Slot : k # n => (StandsOn(k, j)' <=> StandsOn(k, j)) /\ ~StandsOn(n, j)
  BY <1>3 DEF StandsOn, IsRuntime
<1>5. ASSUME NEW j \in Slot, IsCode(j)', j # n, ~StandsOn(n, j)' PROVE CleanAt(j)'
  <2>1. frame'[j] = frame[j] /\ IsCode(j) /\ CleanAt(j)
    BY <1>5 DEF IsCode, Cleaned
  <2>2. \A k \in Slot : StandsOn(k, j)' <=> StandsOn(k, j)
    BY <1>3, <1>4, <1>5 DEF StandsOn
  <2>3. \A k \in Slot : StandsOn(k, j) => frame'[k] = frame[k]
    BY <1>3 DEF StandsOn
  <2> QED
    BY <2>1, <2>2, <2>3, KeepCleanAt
<1>6. ASSUME NEW j \in Slot, IsCode(j)', j # n, StandsOn(n, j)' PROVE CleanAt(j)'
  <2>1. /\ x.kind = "throw" /\ x.mach = top /\ x.pc = "visit" /\ IsFresh(x.ci, top)
        /\ j = top /\ frame'[j] = frame[j] /\ IsCode(j) /\ CleanAt(j)
    BY <1>6 DEF StandsOn, IsRuntime, IsCode, Cleaned
  <2>2. \A k \in Slot : ~StandsOn(k, j)
    BY <1>1, <2>1 DEF StandsOn, IsRuntime, Slot
  <2>3. Exact(frame[j], frame[j].state, objects)
    BY <2>1, <2>2 DEF CleanAt
  <2>4. \A k \in Slot : StandsOn(k, j)' => k = n
    BY <1>4, <2>2
  <2>5. KeptState(x, j, frame[j]) = frame[j].state
    BY <2>1 DEF KeptState
  <2> QED
    BY <1>6, <2>1, <2>3, <2>4, <2>5 DEF CleanAt
<1>7. ASSUME IsCode(n)' PROVE CleanAt(n)'
  <2>1. x.kind = "code" /\ x.fn \in Fns /\ x.state = -1 /\ x.primary = n
    BY <1>7 DEF IsCode
  <2>2. \A k \in Slot : ~StandsOn(k, n)'
    <3>1. \A k \in Slot : ~StandsOn(k, n)
      BY <1>1, <1>2 DEF StandsOn, IsRuntime, Slot
    <3>2. ~IsRuntime(n)'
      BY <2>1 DEF IsRuntime
    <3> QED
      BY <1>4, <3>1, <3>2 DEF StandsOn
  <2>3. \A s : <<n, s>> \notin objects
    <3> SUFFICES ASSUME NEW s, <<n, s>> \in objects PROVE FALSE
      OBVIOUS
    <3>1. PICK j \in Slot : IsCode(j) /\ Mine(frame[j], n, s)
      BY DEF Cleaned
    <3>2. frame[j].primary = n /\ j < n /\ frame[j].primary <= j
      BY <1>1, <1>2, <3>1 DEF Mine, IsCode
    <3> QED
      BY <3>2 DEF Slot
  <2>4. Exact(x, x.state, objects)
    BY <2>1, <2>3, ChainEmpty DEF Exact
  <2> QED
    BY <2>2, <2>4 DEF CleanAt
<1>8. ASSUME NEW a, NEW s, <<a, s>> \in objects' PROVE \E j \in Slot : IsCode(j)' /\ Mine(frame'[j], a, s)
  <2>1. PICK j \in Slot : IsCode(j) /\ Mine(frame[j], a, s)
    BY <1>8 DEF Cleaned
  <2>2. frame'[j] = frame[j]
    BY <1>2, <2>1 DEF IsCode
  <2> QED
    BY <2>1, <2>2 DEF IsCode
<1> QED
  BY <1>5, <1>6, <1>7, <1>8 DEF Cleaned

LEMMA StateCleans ==
    ASSUME Inv, Activation, Cleaned, NEW p \in Slot, p = top, IsCode(p), NEW x, x.kind = "code",
           x.fn = frame[p].fn, x.block = frame[p].block, x.primary = frame[p].primary,
           frame'[p] = x, \A q \in Slot : q # p => frame'[q] = frame[q],
           OnlyMine(frame[p], objects, objects'),
           Exact(frame[p], frame[p].state, objects) => Exact(x, x.state, objects')
    PROVE  Cleaned'
<1>1. \A k \in Slot : ~StandsOn(k, p)
  BY StackFacts DEF StandsOn, IsRuntime, Slot
<1>2. \A k, j \in Slot : StandsOn(k, j)' <=> StandsOn(k, j)
  BY DEF StandsOn, IsRuntime, IsCode
<1>3. \A k, j \in Slot : StandsOn(k, j) => frame'[k] = frame[k]
  BY DEF StandsOn, IsRuntime, IsCode
<1>4. \A j \in Slot : IsCode(j)' <=> IsCode(j)
  BY DEF IsCode
<1>5. ASSUME NEW j \in Slot, IsCode(j)', j # p PROVE CleanAt(j)'
  <2>1. IsCode(j) /\ CleanAt(j) /\ frame'[j] = frame[j]
    BY <1>4, <1>5 DEF Cleaned
  <2>2. \A e : Exact(frame[j], e, objects) => Exact(frame[j], e, objects')
    BY <1>5, <2>1, OthersExact
  <2> QED
    BY <1>2, <1>3, <2>1, <2>2, KeepCleanAt
<1>6. CleanAt(p)'
  <2>1. CleanAt(p)
    BY DEF Cleaned
  <2>2. Exact(x, x.state, objects')
    BY <1>1, <2>1 DEF CleanAt
  <2> QED
    BY <1>1, <1>2, <2>2 DEF CleanAt
<1>7. ASSUME NEW a, NEW s, <<a, s>> \in objects' PROVE \E j \in Slot : IsCode(j)' /\ Mine(frame'[j], a, s)
  <2>1. PICK j \in Slot : IsCode(j) /\ Mine(frame[j], a, s)
    BY <1>7 DEF Cleaned, OnlyMine
  <2>2. Mine(frame'[j], a, s)
    BY <2>1 DEF Mine
  <2> QED
    BY <1>4, <2>1, <2>2
<1> QED
  BY <1>5, <1>6, <1>7 DEF Cleaned

LEMMA PopCleans ==
    ASSUME Inv, Activation, Cleaned, NEW n \in Slot, n = top, IsCode(n), NEW p \in Slot, p = n - 1,
           frame'[n] = Free, objects' = objects, NEW x, frame'[p] = x,
           \A q \in Slot : q # n /\ q # p => frame'[q] = frame[q],
           \A s \in Owed(frame[n].fn, frame[n].state) : HomeBlock(frame[n].fn, s) # frame[n].block,
           \/ x = frame[p]
           \/ frame[p].kind = "catch" /\ x.kind = "destroy" /\ x.mach = frame[p].mach /\ x.ci = frame[p].ci
    PROVE  Cleaned'
<1>1. /\ p # n /\ \A k \in Slot : ~StandsOn(k, n)
      /\ \A k \in Slot : IsCode(k)' <=> IsCode(k) /\ k # n
  <2>1. p # n
    BY DEF Slot
  <2>2. \A k \in Slot : ~StandsOn(k, n)
    BY StackFacts DEF StandsOn, IsRuntime, Slot
  <2>3. \A k \in Slot : IsCode(k)' <=> IsCode(k) /\ k # n
    BY <2>1 DEF IsCode, Free
  <2> QED
    BY <2>1, <2>2, <2>3
<1>2. \A k, j \in Slot : StandsOn(k, j)' <=> StandsOn(k, j)
  BY <1>1 DEF StandsOn, IsRuntime, IsCode, Free
<1>3. \A s : ~(<<frame[n].primary, s>> \in objects /\ Mine(frame[n], frame[n].primary, s))
  <2>1. CleanAt(n)
    BY DEF Cleaned
  <2>2. Exact(frame[n], frame[n].state, objects)
    BY <1>1, <2>1 DEF CleanAt
  <2> QED
    BY <2>2 DEF Exact, Mine
<1>4. ASSUME NEW j \in Slot, IsCode(j)' PROVE CleanAt(j)'
  <2>1. IsCode(j) /\ CleanAt(j) /\ frame'[j] = frame[j]
    BY <1>1, <1>4 DEF Cleaned, IsCode
  <2>2. CASE x = frame[p]
    <3>1. \A k \in Slot : StandsOn(k, j) => frame'[k] = frame[k]
      BY <1>1, <2>2 DEF StandsOn, IsRuntime, IsCode
    <3> QED
      BY <1>2, <2>1, <3>1, KeepCleanAt
  <2>3. CASE frame[p].kind = "catch" /\ x.kind = "destroy" /\ x.mach = frame[p].mach /\ x.ci = frame[p].ci
    <3>1. \A k \in Slot : StandsOn(k, j) /\ k # p => frame'[k] = frame[k]
      BY <1>1 DEF StandsOn, IsRuntime, IsCode
    <3>2. KeptState(x, j, frame[j]) = KeptState(frame[p], j, frame[j]) /\ x.kind # "throw"
      BY <2>3 DEF KeptState
    <3>3. ASSUME NEW k \in Slot, StandsOn(k, j)'
          PROVE  /\ Exact(frame[j], KeptState(frame'[k], j, frame[j]), objects)
                 /\ frame'[k].kind = "throw" /\ frame'[k].pc \in {"copy", "unwind", "cleanup"}
                        => WalkShape(frame'[k], frame[j])
      <4>1. StandsOn(k, j)
        BY <1>2, <3>3
      <4> QED
        BY <2>1, <3>1, <3>2, <4>1 DEF CleanAt
    <3>4. \/ \E k \in Slot : StandsOn(k, j)'
          \/ Exact(frame[j], frame[j].state, objects)
      BY <1>2, <2>1 DEF CleanAt
    <3> QED
      BY <2>1, <3>3, <3>4 DEF CleanAt
  <2> QED
    BY <2>2, <2>3
<1>5. ASSUME NEW a, NEW s, <<a, s>> \in objects' PROVE \E j \in Slot : IsCode(j)' /\ Mine(frame'[j], a, s)
  <2>1. PICK j \in Slot : IsCode(j) /\ Mine(frame[j], a, s)
    BY <1>5 DEF Cleaned
  <2>2. j # n
    BY <1>3, <1>5, <2>1 DEF Mine
  <2>3. IsCode(j)' /\ frame'[j] = frame[j]
    BY <1>1, <2>1, <2>2 DEF IsCode
  <2> QED
    BY <2>1, <2>3
<1> QED
  BY <1>4, <1>5 DEF Cleaned

----------------------------------------------------------------------------
(* The steps of the runtime keep the objects exact.                        *)

LEMMA StepCleans ==
    ASSUME Inv, Activation, Cleaned, NEW p \in Slot, NEW m \in Slot, NEW x, Steps(p, m, x),
           \/ /\ IsCode(m) /\ OnlyMine(frame[m], objects, objects')
              /\ Exact(frame[m], KeptState(x, m, frame[m]), objects')
              /\ x.pc \in {"copy", "unwind", "cleanup"} => WalkShape(x, frame[m])
           \/ ~IsCode(m) /\ objects' = objects
    PROVE  Cleaned'
<1>1. /\ \A k \in Slot : IsCode(k)' <=> IsCode(k)
      /\ \A k \in Slot : IsCode(k) => frame'[k] = frame[k]
      /\ \A k, j \in Slot : StandsOn(k, j)' <=> StandsOn(k, j)
      /\ \A k \in Slot : k # p => frame'[k] = frame[k]
      /\ StandsOn(p, m) /\ frame'[p] = x
  BY DEF Steps, IsCode, StandsOn, IsRuntime
<1>2. \A k \in Slot : StandsOn(k, m) => k = p
  BY <1>1, StandAlone
<1>3. ASSUME NEW j \in Slot, IsCode(j), j # m PROVE CleanAt(j)'
  <2>1. CleanAt(j) /\ frame'[j] = frame[j]
    BY <1>1, <1>3 DEF Cleaned
  <2>2. \A e : Exact(frame[j], e, objects) => Exact(frame[j], e, objects')
    BY <1>3, OthersExact
  <2>3. \A k \in Slot : StandsOn(k, j) => frame'[k] = frame[k]
    BY <1>1, <1>3 DEF StandsOn
  <2> QED
    BY <1>1, <2>1, <2>2, <2>3, KeepCleanAt
<1>4. ASSUME IsCode(m) PROVE CleanAt(m)'
  BY <1>1, <1>2, <1>4 DEF CleanAt
<1>5. ASSUME NEW a, NEW s, <<a, s>> \in objects' PROVE \E j \in Slot : IsCode(j)' /\ Mine(frame'[j], a, s)
  <2>1. PICK j \in Slot : IsCode(j) /\ Mine(frame[j], a, s)
    BY <1>5 DEF Cleaned, OnlyMine
  <2> QED
    BY <1>1, <2>1
<1> QED
  BY <1>1, <1>3, <1>4, <1>5 DEF Cleaned

LEMMA UnwindCleans ==
    ASSUME Inv, Activation, Cleaned, NEW p \in Slot, NEW m \in Slot, NEW c, NEW x, Unwinds(p, m, c, x),
           \/ /\ IsCode(m)
              /\ \A s : ~(<<frame[m].primary, s>> \in objects /\ Mine(frame[m], frame[m].primary, s))
           \/ frame[m].kind = "catch",
           \A j \in Slot : j = c /\ IsCode(j) =>
                /\ \A k \in Slot : StandsOn(k, j) => k = m
                /\ Exact(frame[j], KeptState(x, j, frame[j]), objects)
    PROVE  Cleaned'
<1>1. /\ p # m /\ frame'[p] = x /\ frame'[m] = Free /\ objects' = objects
      /\ \A k \in Slot : k # p /\ k # m => frame'[k] = frame[k]
      /\ StandsOn(p, m) /\ ~IsCode(p) /\ ~IsCode(p)'
      /\ x.kind = "throw" /\ x.mach = c /\ x.pc = "visit"
  BY DEF Unwinds, StandsOn, IsRuntime, IsCode
<1>2. \A k \in Slot : IsCode(k)' => IsCode(k) /\ k # m /\ k # p /\ frame'[k] = frame[k]
  BY <1>1 DEF IsCode, Free
<1>3. \A j \in Slot : StandsOn(p, j)' <=> j = c
  BY <1>1 DEF StandsOn, IsRuntime
<1>4. \A k, j \in Slot : k # p => (StandsOn(k, j)' <=> StandsOn(k, j) /\ k # m)
  BY <1>1 DEF StandsOn, IsRuntime, Free
<1>5. ASSUME NEW j \in Slot, IsCode(j)', j # c PROVE CleanAt(j)'
  <2>1. CleanAt(j) /\ frame'[j] = frame[j] /\ j # m /\ IsCode(j)
    BY <1>2, <1>5 DEF Cleaned
  <2>2. ~StandsOn(p, j) /\ ~StandsOn(p, j)'
    BY <1>1, <1>3, <1>5, <2>1 DEF StandsOn
  <2>3. ~StandsOn(m, j)
    <3>1. c = Caller(m)
      BY DEF Unwinds
    <3> QED
      BY <1>5, <3>1 DEF StandsOn, Caller
  <2>4. \A k \in Slot : (StandsOn(k, j)' <=> StandsOn(k, j)) /\ (StandsOn(k, j) => frame'[k] = frame[k])
    BY <1>1, <1>4, <2>2, <2>3
  <2> QED
    BY <1>1, <2>1, <2>4, KeepCleanAt
<1>6. ASSUME NEW j \in Slot, IsCode(j)', j = c PROVE CleanAt(j)'
  <2>1. /\ Exact(frame[j], KeptState(x, j, frame[j]), objects) /\ frame'[j] = frame[j]
        /\ \A k \in Slot : StandsOn(k, j) => k = m
    BY <1>2, <1>6
  <2>2. \A k \in Slot : StandsOn(k, j)' <=> k = p
    BY <1>3, <1>4, <1>6, <2>1
  <2> QED
    BY <1>1, <2>1, <2>2 DEF CleanAt
<1>7. ASSUME NEW a, NEW s, <<a, s>> \in objects' PROVE \E j \in Slot : IsCode(j)' /\ Mine(frame'[j], a, s)
  <2>1. PICK j \in Slot : IsCode(j) /\ Mine(frame[j], a, s)
    BY <1>1, <1>7 DEF Cleaned
  <2>2. j # m
    BY <1>1, <1>7, <2>1 DEF Mine, IsCode
  <2>3. IsCode(j)' /\ frame'[j] = frame[j]
    BY <1>1, <2>1, <2>2 DEF IsCode
  <2> QED
    BY <2>1, <2>3
<1> QED
  BY <1>5, <1>6, <1>7 DEF Cleaned

LEMMA HandlerCleans ==
    ASSUME Inv, Activation, Cleaned, NEW p \in Slot, NEW m \in Slot, NEW n \in Slot, NEW x, NEW y,
           Handles(p, m, n, x, y),
           Exact(frame[m], x.ci.unwind_context.state, objects),
           Exact(y, y.state, objects)
    PROVE  Cleaned'
<1>1. /\ p # n /\ p # m /\ m # n /\ frame'[p] = x /\ frame'[n] = y /\ objects' = objects
      /\ \A k \in Slot : k # p /\ k # n => frame'[k] = frame[k]
      /\ StandsOn(p, m) /\ ~IsCode(p) /\ ~IsCode(p)' /\ IsCode(m)
      /\ x.kind = "catch" /\ x.mach = m /\ y.kind = "code"
  <2>1. p = top /\ n = p + 1 /\ frame[p].kind = "throw" /\ frame[p].mach = m /\ frame[p].mach < p
    BY StackFacts DEF Handles, IsRuntime
  <2>2. p # n /\ p # m /\ m # n
    BY <2>1 DEF Slot
  <2> QED
    BY <2>2 DEF Handles, StandsOn, IsRuntime, IsCode
<1>2. frame[n].kind = "free"
  BY StackFacts DEF Handles, Slot
<1>3. \A k, j \in Slot : StandsOn(k, j)' <=> StandsOn(k, j)
  BY <1>1, <1>2 DEF StandsOn, IsRuntime
<1>4. \A k \in Slot : StandsOn(k, m) => k = p
  BY <1>1, StandAlone
<1>5. \A k, j \in Slot : StandsOn(k, j) /\ k # p => frame'[k] = frame[k]
  BY <1>1, <1>2 DEF StandsOn, IsRuntime
<1>6. ASSUME NEW j \in Slot, IsCode(j)', j # m, j # n PROVE CleanAt(j)'
  <2>1. CleanAt(j) /\ frame'[j] = frame[j]
    BY <1>1, <1>6 DEF Cleaned, IsCode
  <2>2. \A k \in Slot : StandsOn(k, j) => frame'[k] = frame[k]
    BY <1>1, <1>5, <1>6 DEF StandsOn
  <2> QED
    BY <1>1, <1>3, <2>1, <2>2, KeepCleanAt
<1>7. CleanAt(m)'
  <2>1. Exact(frame[m], KeptState(x, m, frame[m]), objects)
    BY <1>1 DEF KeptState
  <2>2. frame'[m] = frame[m] /\ \A k \in Slot : StandsOn(k, m)' <=> k = p
    BY <1>1, <1>3, <1>4
  <2> QED
    BY <1>1, <2>1, <2>2 DEF CleanAt
<1>8. CleanAt(n)'
  <2>1. \A k \in Slot : ~StandsOn(k, n)
    BY <1>1, <1>2, StackFacts DEF StandsOn, IsRuntime, Handles, Slot
  <2> QED
    BY <1>1, <1>3, <2>1 DEF CleanAt
<1>9. ASSUME NEW a, NEW s, <<a, s>> \in objects' PROVE \E j \in Slot : IsCode(j)' /\ Mine(frame'[j], a, s)
  <2>1. PICK j \in Slot : IsCode(j) /\ Mine(frame[j], a, s)
    BY <1>1, <1>9 DEF Cleaned
  <2>2. frame'[j] = frame[j]
    BY <1>1, <1>2, <2>1 DEF IsCode
  <2> QED
    BY <2>1, <2>2 DEF IsCode
<1> QED
  BY <1>6, <1>7, <1>8, <1>9 DEF Cleaned

LEMMA ResumeCleans ==
    ASSUME Inv, Activation, Cleaned, NEW p \in Slot, NEW m \in Slot, NEW x, Resumes(p, m, x),
           Exact(x, x.state, objects)
    PROVE  Cleaned'
<1>1. /\ p # m /\ frame'[p] = Free /\ frame'[m] = x /\ objects' = objects
      /\ \A k \in Slot : k # p /\ k # m => frame'[k] = frame[k]
      /\ StandsOn(p, m) /\ ~IsCode(p) /\ ~IsCode(p)' /\ IsCode(m) /\ x.kind = "code"
      /\ x.fn = frame[m].fn /\ x.block = frame[m].block /\ x.primary = frame[m].primary
  <2>1. frame[p].kind = "destroy" /\ frame[p].mach = m /\ frame[p].mach < p /\ IsCode(m)
    BY StackFacts DEF Resumes, IsRuntime
  <2>2. p # m
    BY <2>1 DEF Slot
  <2>3. /\ x.kind = "code" /\ x.fn = frame[m].fn /\ x.block = frame[m].block
        /\ x.primary = frame[m].primary /\ objects' = objects
    BY DEF Resumes
  <2>4. \A q \in Slot : frame'[q] = IF q = p THEN Free ELSE IF q = m THEN x ELSE frame[q]
    BY DEF Resumes
  <2>5. frame'[p] = Free /\ frame'[m] = x /\ \A k \in Slot : k # p /\ k # m => frame'[k] = frame[k]
    BY <2>2, <2>4
  <2>6. StandsOn(p, m) /\ ~IsCode(p) /\ ~IsCode(p)'
    BY <2>1, <2>5 DEF StandsOn, IsRuntime, IsCode, Free
  <2> QED
    BY <2>1, <2>2, <2>3, <2>5, <2>6
<1>2. \A k \in Slot : StandsOn(k, m) => k = p
  BY <1>1, StandAlone
<1>3. \A k, j \in Slot : StandsOn(k, j)' <=> StandsOn(k, j) /\ k # p
  BY <1>1 DEF StandsOn, IsRuntime, IsCode, Free
<1>4. \A k, j \in Slot : StandsOn(k, j) /\ k # p => frame'[k] = frame[k]
  BY <1>1 DEF StandsOn, IsRuntime, IsCode
<1>5. ASSUME NEW j \in Slot, IsCode(j)', j # m PROVE CleanAt(j)'
  <2>1. IsCode(j) /\ CleanAt(j) /\ frame'[j] = frame[j] /\ ~StandsOn(p, j)
    BY <1>1, <1>5 DEF Cleaned, IsCode, StandsOn
  <2> QED
    BY <1>1, <1>3, <1>4, <2>1, KeepCleanAt
<1>6. CleanAt(m)'
  BY <1>1, <1>2, <1>3 DEF CleanAt
<1>7. ASSUME NEW a, NEW s, <<a, s>> \in objects' PROVE \E j \in Slot : IsCode(j)' /\ Mine(frame'[j], a, s)
  <2>1. PICK j \in Slot : IsCode(j) /\ Mine(frame[j], a, s)
    BY <1>1, <1>7 DEF Cleaned
  <2>2. CASE j = m
    BY <1>1, <2>1, <2>2 DEF IsCode, Mine
  <2>3. CASE j # m
    BY <1>1, <2>1, <2>3 DEF IsCode
  <2> QED
    BY <2>2, <2>3
<1> QED
  BY <1>5, <1>6, <1>7 DEF Cleaned

----------------------------------------------------------------------------
(* Every step keeps the objects exact.                                     *)

LEMMA CleanUnchanged ==
    ASSUME Cleaned, frame' = frame, objects' = objects
    PROVE  Cleaned'
BY DEF Cleaned, CleanAt, StandsOn, IsRuntime, IsCode

\* A funclet that has just been entered owes nothing of its own.
LEMMA HandlerOwesNothing ==
    ASSUME NEW f \in Fns, NEW b \in Blocks(f), NEW s \in Owed(f, HandlerState(f, b))
    PROVE  HomeBlock(f, s) # b
<1>1. PICK h, low : h = HandlerState(f, b) /\ low = Block(f, b).try_low
  OBVIOUS
<1>2. /\ h \in 0..Eh[f].last /\ h \notin Eh[f].cleanup /\ Eh[f].next[h] = Eh[f].next[low]
      /\ Eh[f].next[low] \in States(f) /\ Eh[f].next[low] < low /\ FuncletLow(f, b) = low
      /\ low \in 0..Eh[f].last /\ Eh[f].last \in Nat
  BY <1>1, HandlerFacts, BlockFacts
<1>3. Owed(f, h) = Owed(f, Eh[f].next[h]) \cup ({h} \cap Eh[f].cleanup)
  BY <1>2, OwedStep
<1>4. s \in Chain(f, Eh[f].next[low])
  BY <1>1, <1>2, <1>3 DEF Owed
<1>5. s \in 0..Eh[f].last /\ s <= Eh[f].next[low]
  BY <1>2, <1>4, ChainBelow
<1>6. s <= FuncletLow(f, b)
  BY <1>2, <1>5 DEF States
<1>7. b \in 0..Len(Eh[f].try_blocks)
  BY BlocksType DEF Blocks
<1> QED
  BY <1>5, <1>6, <1>7, NotOwnBelow

\* Nor does one that has been unwound to its end.
LEMMA LowOwesNothing ==
    ASSUME NEW f \in Fns, NEW b \in 0..Len(Eh[f].try_blocks), NEW e \in States(f),
           e <= FuncletLow(f, b), NEW s \in Owed(f, e)
    PROVE  HomeBlock(f, s) # b
<1>1. s \in 0..Eh[f].last /\ s <= e
  BY ChainBelow DEF Owed
<1>2. FuncletLow(f, b) \in Int /\ e \in Int /\ s \in Int
  BY <1>1, BlockFacts, BlocksType DEF FuncletLow, Blocks
<1>3. s <= FuncletLow(f, b)
  BY <1>1, <1>2
<1> QED
  BY <1>1, <1>3, NotOwnBelow

LEMMA UserCleans == ASSUME Inv, Activation, Cleaned, UserCode PROVE Cleaned'
<1>1. ASSUME NEW f \in Fns, Call(f) PROVE Cleaned'
  BY <1>1, CallForm, PushCleans
<1>2. ASSUME NEW s \in UNION {0..Eh[f].last : f \in Fns}, Enter(s) PROVE Cleaned'
  <2>1. s \in Nat
    BY EhAssumption
  <2>2. PICK p, x :
            /\ p \in Slot
            /\ p = top /\ top' = p /\ IsCode(p) /\ frame'[p] = x
            /\ x.kind = "code" /\ x.fn = frame[p].fn /\ x.block = frame[p].block
            /\ x.primary = frame[p].primary /\ x.state = s
            /\ \A q \in Slot : q # p => frame'[q] = frame[q]
            /\ s \in 0..Eh[x.fn].last /\ Eh[x.fn].next[s] = frame[p].state
            /\ HomeBlock(x.fn, s) = x.block
            /\ objects' = IF s \in Eh[x.fn].cleanup THEN objects \cup {<<x.primary, s>>} ELSE objects
    BY <1>2, <2>1, EnterForm
  <2>3. Mine(frame[p], x.primary, s)
    BY <2>2 DEF Mine
  <2>4. OnlyMine(frame[p], objects, objects')
    <3> SUFFICES ASSUME NEW a, NEW r, ~Mine(frame[p], a, r)
                 PROVE  <<a, r>> \in objects <=> <<a, r>> \in objects'
      BY DEF OnlyMine
    <3>1. <<a, r>> # <<x.primary, s>>
      BY <2>3
    <3> QED
      BY <2>2, <3>1
  <2>5. ASSUME Exact(frame[p], frame[p].state, objects) PROVE Exact(x, x.state, objects')
    <3>1. x.fn \in Fns
      BY <2>2, CodeFacts
    <3>2. Owed(x.fn, s) = Owed(x.fn, frame[p].state) \cup ({s} \cap Eh[x.fn].cleanup)
      BY <2>2, <3>1, OwedStep
    <3>3. ASSUME NEW r \in 0..Eh[x.fn].last, HomeBlock(x.fn, r) = x.block
          PROVE  <<x.primary, r>> \in objects' <=> r \in Owed(x.fn, s)
      <4>1. <<x.primary, r>> \in objects <=> r \in Owed(x.fn, frame[p].state)
        BY <2>2, <2>5, <3>3 DEF Exact
      <4>2. <<x.primary, r>> \in objects' <=> <<x.primary, r>> \in objects \/ (r = s /\ s \in Eh[x.fn].cleanup)
        BY <2>2
      <4> QED
        BY <3>2, <4>1, <4>2
    <3> QED
      BY <2>2, <3>3 DEF Exact
  <2> QED
    BY <2>2, <2>4, <2>5, StateCleans
<1>3. CASE Leave
  <2>1. PICK p, x :
            /\ p \in Slot
            /\ p = top /\ top' = p /\ IsCode(p) /\ frame'[p] = x
            /\ x.kind = "code" /\ x.fn = frame[p].fn /\ x.block = frame[p].block
            /\ x.primary = frame[p].primary /\ x.state = Eh[x.fn].next[frame[p].state]
            /\ \A q \in Slot : q # p => frame'[q] = frame[q]
            /\ frame[p].state # -1
            /\ x.block # 0 => frame[p].state # HandlerState(x.fn, x.block)
            /\ objects' = objects \ {<<x.primary, frame[p].state>>}
    BY <1>3, LeaveForm
  <2>2. PICK s : s = frame[p].state
    OBVIOUS
  <2>3. x.fn \in Fns /\ s \in 0..Eh[x.fn].last /\ HomeBlock(x.fn, s) = x.block
    <3>1. /\ frame[p].fn \in Fns /\ s \in States(frame[p].fn)
          /\ frame[p].block \in 0..Len(Eh[frame[p].fn].try_blocks)
          /\ Within(frame[p].fn, frame[p].block, s)
      BY <2>1, <2>2, CodeFacts DEF Activation, CodeActivation
    <3>2. HomeBlock(frame[p].fn, s) = frame[p].block
      BY <3>1, WithinHome
    <3>3. s \in 0..Eh[frame[p].fn].last
      BY <2>1, <2>2, <3>1, EdgeType
    <3> QED
      BY <2>1, <3>1, <3>2, <3>3
  <2>4. OnlyMine(frame[p], objects, objects')
    <3> SUFFICES ASSUME NEW a, NEW r, ~Mine(frame[p], a, r)
                 PROVE  <<a, r>> \in objects <=> <<a, r>> \in objects'
      BY DEF OnlyMine
    <3>1. Mine(frame[p], x.primary, s)
      BY <2>1, <2>3 DEF Mine
    <3>2. <<a, r>> # <<x.primary, s>>
      BY <3>1
    <3> QED
      BY <2>1, <2>2, <3>2
  <2>5. ASSUME Exact(frame[p], s, objects) PROVE Exact(x, x.state, objects')
    <3>1. Owed(x.fn, x.state) = Owed(x.fn, s) \ {s}
      BY <2>1, <2>2, <2>3, OwedStep
    <3>2. ASSUME NEW r \in 0..Eh[x.fn].last, HomeBlock(x.fn, r) = x.block
          PROVE  <<x.primary, r>> \in objects' <=> r \in Owed(x.fn, x.state)
      <4>1. <<x.primary, r>> \in objects <=> r \in Owed(x.fn, s)
        BY <2>1, <2>5, <3>2 DEF Exact
      <4>2. <<x.primary, r>> \in objects' <=> <<x.primary, r>> \in objects /\ r # s
        BY <2>1, <2>2
      <4> QED
        BY <3>1, <4>1, <4>2
    <3> QED
      BY <3>2 DEF Exact
  <2> QED
    BY <2>1, <2>2, <2>4, <2>5, StateCleans
<1>4. CASE Return
  <2>1. PICK n, p \in Slot :
            /\ n = top /\ IsCode(n) /\ p = n - 1 /\ top' = p /\ frame'[n] = Free /\ objects' = objects
            /\ \A q \in Slot : q # n => frame'[q] = frame[q]
            /\ frame[n].block = 0 /\ frame[n].state = -1
    BY <1>4, ReturnForm
  <2>2. \A s \in Owed(frame[n].fn, frame[n].state) : HomeBlock(frame[n].fn, s) # frame[n].block
    BY <2>1, CodeFacts, ChainEmpty
  <2>3. PICK x : x = frame[p] /\ frame'[p] = x
    BY <2>1 DEF Slot
  <2> QED
    BY <2>1, <2>2, <2>3, PopCleans
<1>5. CASE CatchReturn
  <2>1. PICK n, p, x :
            /\ n \in Slot /\ p \in Slot
            /\ n = top /\ IsCode(n) /\ p = n - 1 /\ top' = p /\ frame'[n] = Free /\ objects' = objects
            /\ \A q \in Slot : q # n /\ q # p => frame'[q] = frame[q]
            /\ frame[n].block # 0 /\ frame[n].state = HandlerState(frame[n].fn, frame[n].block)
            /\ frame[p].kind = "catch" /\ frame'[p] = x
            /\ x.kind = "destroy" /\ x.mach = frame[p].mach
            /\ x.ci = frame[p].ci /\ x.handler = frame[p].handler
    BY <1>5, CatchReturnForm
  <2>2. \A s \in Owed(frame[n].fn, frame[n].state) : HomeBlock(frame[n].fn, s) # frame[n].block
    BY <2>1, CodeFacts, HandlerOwesNothing
  <2> QED
    BY <2>1, <2>2, PopCleans
<1>6. ASSUME Running, NEW obj, NEW info, PushThrowFrame(obj, info) PROVE Cleaned'
  BY <1>6, ThrowForm, PushCleans
<1>7. ASSUME NEW t \in Types, Throw(t) PROVE Cleaned'
  BY <1>6, <1>7 DEF Throw
<1>8. CASE Rethrow
  BY <1>6, <1>8 DEF Rethrow
<1> QED
  BY <1>1, <1>2, <1>3, <1>4, <1>5, <1>7, <1>8 DEF UserCode

\* What a dispatch arriving at a frame finds: the objects are exact for the
\* state the handler reads, and that state owes nothing the frame does not.
LEMMA VisitOwes ==
    ASSUME Inv, Activation, Cleaned, CleanTryEntries, NEW p \in Slot, NEW m \in Slot, IsCode(m),
           frame[p].kind = "throw", frame[p].mach = m, frame[p].pc = "visit",
           NEW e, e = CurrentState(frame[p].ci, m)
    PROVE  /\ Exact(frame[m], e, objects)
           /\ Owed(frame[m].fn, e) \subseteq Owed(frame[m].fn, frame[m].state)
<1>1. KeptState(frame[p], m, frame[m]) = e
  BY DEF KeptState, CurrentState
<1>2. Exact(frame[m], KeptState(frame[p], m, frame[m]), objects)
  BY DEF Cleaned, CleanAt, StandsOn, IsRuntime
<1>3. Owed(frame[m].fn, e) \subseteq Owed(frame[m].fn, frame[m].state)
  <2>1. CASE IsFresh(frame[p].ci, m)
    BY <2>1 DEF CurrentState
  <2>2. CASE ~IsFresh(frame[p].ci, m)
    <3>1. PICK c, f, s : c = frame[m] /\ f = c.fn /\ s = c.state /\ f \in Fns /\ s \in States(f)
      BY CodeFacts
    <3>2. PICK b \in Blocks(f) : CachedIs(frame[p].ci, c, b)
      BY <2>2, <3>1 DEF Activation, ThrowActivation
    <3>3. e = Block(f, b).try_low - 1 /\ Block(f, b).try_low \in Chain(f, s)
      BY <2>2, <3>1, <3>2 DEF CurrentState, CachedIs, TryAround
    <3>4. Owed(f, Block(f, b).try_low - 1) = Owed(f, Eh[f].next[Block(f, b).try_low])
      BY <3>1 DEF CleanTryEntries, CleanTryEntry
    <3>5. Owed(f, Eh[f].next[Block(f, b).try_low]) \subseteq Owed(f, s)
      BY <3>1, <3>3, ChainPart
    <3> QED
      BY <3>1, <3>3, <3>4, <3>5
  <2> QED
    BY <2>1, <2>2
<1> QED
  BY <1>1, <1>2, <1>3

\* The state whose cleanup a walk is about to run is the funclet's own.
LEMMA EdgeIsOwn ==
    ASSUME Inv, Activation, NEW p \in Slot, NEW m \in Slot, IsCode(m),
           WalkShape(frame[p], frame[m]), NEW r, r = frame[p].state,
           r \in 0..Eh[frame[m].fn].last, r \in Eh[frame[m].fn].cleanup,
           frame[p].handler # 0 => TryAround(frame[m], frame[p].handler),
           r > frame[p].target_state
    PROVE  HomeBlock(frame[m].fn, r) = frame[m].block
<1>1. PICK f, b, s, h : /\ f = frame[m].fn /\ b = frame[m].block /\ s = frame[m].state
                        /\ h = frame[p].handler
  OBVIOUS
<1>2. /\ f \in Fns /\ b \in 0..Len(Eh[f].try_blocks) /\ s \in States(f) /\ Within(f, b, s)
      /\ b # 0 => b \in Blocks(f)
      /\ Eh[f].last \in Nat \cup {-1}
  BY <1>1, CodeFacts, EhAssumption DEF Activation, CodeActivation
<1>3. r \in Chain(f, s)
  <2>1. r \in Owed(f, r)
    BY <1>1, <1>2, OwedStep
  <2>2. r \in Owed(f, s)
    BY <1>1, <2>1 DEF WalkShape
  <2> QED
    BY <2>2 DEF Owed
<1>4. r > FuncletLow(f, b)
  <2>1. CASE h = 0
    BY <1>1, <2>1 DEF WalkShape
  <2>2. CASE h # 0 /\ b = 0
    BY <1>1, <1>2, <2>2 DEF FuncletLow
  <2>3. CASE h # 0 /\ b # 0
    <3>1. PICK low, g, l : /\ low = Block(f, h).try_low /\ g = HandlerState(f, b)
                           /\ l = FuncletLow(f, b)
      OBVIOUS
    <3>2. g < low /\ h \in Blocks(f) /\ frame[p].target_state = low - 1
      BY <1>1, <2>3, <3>1 DEF TryAround, WalkShape
    <3>3. low \in Nat /\ g \in States(f) /\ l = Block(f, b).try_low /\ l < g /\ l \in 0..Eh[f].last
      BY <1>2, <2>3, <3>1, <3>2, BlockFacts, HandlerFacts
    <3>4. g \in Int /\ l \in Int /\ r \in Int
      BY <1>1, <1>2, <3>3 DEF States
    <3> QED
      BY <3>1, <3>2, <3>3, <3>4
  <2> QED
    BY <2>1, <2>2, <2>3
<1> QED
  BY <1>1, <1>2, <1>3, <1>4, OwnOnChain

LEMMA UnwindEdgeCleans == ASSUME Inv, Activation, Cleaned, UnwindEdge PROVE Cleaned'
<1>1. PICK p, m, x :
            /\ p \in Slot /\ m \in Slot
            /\ Steps(p, m, x) /\ IsCode(m)
            /\ frame[p].pc = "unwind" /\ x.pc \in {"unwind", "cleanup"}
            /\ x.ci = frame[p].ci /\ x.handler = frame[p].handler
            /\ x.target_state = frame[p].target_state
            /\ frame[p].state > frame[p].target_state /\ frame[p].target_state >= -1
            /\ frame[p].target_state \in Int
            /\ frame[p].state \in 0..Eh[frame[m].fn].last
            /\ x.state = Eh[frame[m].fn].next[frame[p].state]
            /\ frame[p].state \in Eh[frame[m].fn].cleanup =>
                objects' = objects \ {<<frame[m].primary, frame[p].state>>}
            /\ frame[p].state \notin Eh[frame[m].fn].cleanup => objects' = objects
  BY UnwindEdgeForm
<1>2. PICK c, f, r, e : c = frame[m] /\ f = c.fn /\ r = frame[p].state /\ e = x.state
  OBVIOUS
<1>3. f \in Fns /\ r \in 0..Eh[f].last /\ e = Eh[f].next[r]
  BY <1>1, <1>2, CodeFacts
<1>4. /\ Exact(c, r, objects) /\ WalkShape(frame[p], c)
      /\ frame[p].handler # 0 => TryAround(c, frame[p].handler)
  <2>1. StandsOn(p, m) /\ frame[p].kind = "throw" /\ frame[p].pc = "unwind" /\ CleanAt(m)
    BY <1>1 DEF Steps, StandsOn, IsRuntime, Cleaned
  <2>2. KeptState(frame[p], m, c) = r
    BY <1>2, <2>1 DEF KeptState
  <2>3. Exact(c, r, objects) /\ WalkShape(frame[p], c)
    BY <1>1, <1>2, <2>1, <2>2 DEF CleanAt
  <2>4. frame[p].handler # 0 => TryAround(c, frame[p].handler)
    BY <1>1, <1>2 DEF Steps, Activation, ThrowActivation, CachedIs
  <2> QED
    BY <2>3, <2>4
<1>5. r \in Eh[f].cleanup => HomeBlock(f, r) = c.block
  BY <1>1, <1>2, <1>3, <1>4, EdgeIsOwn
<1>6. r \in Eh[f].cleanup => Mine(c, c.primary, r)
  BY <1>2, <1>3, <1>5 DEF Mine
<1>7. \A a, s : <<a, s>> \in objects' <=>
                <<a, s>> \in objects /\ ~(r \in Eh[f].cleanup /\ a = c.primary /\ s = r)
  BY <1>1, <1>2
<1>8. OnlyMine(c, objects, objects')
  BY <1>6, <1>7 DEF OnlyMine
<1>9. Owed(f, e) = Owed(f, r) \ {r}
  BY <1>3, OwedStep
<1>10. Exact(c, e, objects')
  <2> SUFFICES ASSUME NEW s \in 0..Eh[f].last, HomeBlock(f, s) = c.block
               PROVE  <<c.primary, s>> \in objects' <=> s \in Owed(f, e)
    BY <1>2 DEF Exact
  <2>1. <<c.primary, s>> \in objects <=> s \in Owed(f, r)
    BY <1>2, <1>4 DEF Exact
  <2>2. r \notin Eh[f].cleanup => r \notin Owed(f, r)
    BY DEF Owed
  <2> QED
    BY <1>7, <1>9, <2>1, <2>2
<1>11. WalkShape(x, c)
  <2>1. Owed(f, e) \subseteq Owed(f, c.state)
    BY <1>2, <1>4, <1>9 DEF WalkShape
  <2>2. x.handler = 0 => x.target_state = FuncletLow(f, c.block)
    BY <1>1, <1>2, <1>4 DEF WalkShape
  <2>3. ASSUME x.handler # 0
        PROVE  LET low == Block(f, x.handler).try_low
               IN  x.target_state = low - 1 /\ (e = Eh[f].next[low] \/ low \in Chain(f, e))
    <3>1. PICK h, low : h = x.handler /\ low = Block(f, h).try_low
      OBVIOUS
    <3>2. /\ h \in Blocks(f) /\ x.target_state = low - 1 /\ r > low - 1
          /\ r = Eh[f].next[low] \/ low \in Chain(f, r)
      BY <1>1, <1>2, <1>4, <2>3, <3>1 DEF WalkShape, TryAround
    <3>3. Eh[f].next[low] < low /\ Eh[f].next[low] \in Int /\ low \in Int
      BY <1>3, <3>1, <3>2, HandlerFacts, BlockFacts, BlocksType
    <3>4. low \in Chain(f, r)
      BY <3>2, <3>3
    <3>5. low = r \/ low \in Chain(f, e)
      BY <1>3, <3>4, ChainStep
    <3> QED
      BY <1>3, <3>1, <3>2, <3>5
  <2> QED
    BY <1>2, <2>1, <2>2, <2>3 DEF WalkShape
<1>12. KeptState(x, m, c) = e
  BY <1>1, <1>2 DEF KeptState, Steps
<1> QED
  BY <1>1, <1>2, <1>8, <1>10, <1>11, <1>12, StepCleans

LEMMA VisitPassingCleans ==
    ASSUME Inv, Activation, Cleaned, CleanTryEntries, VisitPassing PROVE Cleaned'
<1>1. PICK p, m, x, home :
            /\ p \in Slot /\ m \in Slot
            /\ Steps(p, m, x) /\ objects' = objects /\ IsCode(m)
            /\ frame[p].pc = "visit" /\ x.pc = "unwind" /\ x.ci = frame[p].ci /\ x.handler = 0
            /\ IsHome(x.ci, m, home)
            /\ x.state = CurrentState(x.ci, m) /\ x.state \in States(frame[m].fn)
            /\ x.target_state = FuncletLow(frame[m].fn, home)
  BY VisitPassingForm
<1>2. /\ frame[p].kind = "throw" /\ frame[p].mach = m /\ x.kind = "throw"
      /\ x.state = CurrentState(frame[p].ci, m) /\ ThrowActivation(frame[p], frame[m])
  BY <1>1 DEF Steps, Activation
<1>3. /\ Exact(frame[m], x.state, objects)
      /\ Owed(frame[m].fn, x.state) \subseteq Owed(frame[m].fn, frame[m].state)
  BY <1>1, <1>2, VisitOwes
<1>4. home = frame[m].block
  BY <1>1, <1>2, FindsItself DEF ThrowActivation
<1>5. WalkShape(x, frame[m])
  BY <1>1, <1>3, <1>4 DEF WalkShape
<1>6. KeptState(x, m, frame[m]) = x.state
  BY <1>1, <1>2 DEF KeptState
<1> QED
  BY <1>1, <1>3, <1>5, <1>6, StepCleans DEF OnlyMine

LEMMA VisitCatchingCleans ==
    ASSUME Inv, Activation, Cleaned, CleanTryEntries, VisitCatching PROVE Cleaned'
<1>1. PICK p, m, x, home, i : CatchingVisit(p, m, x, home, i)
  BY VisitCatchingForm
<1> USE DEF CatchingVisit
<1>2. PICK ci, f, e : ci = frame[p].ci /\ f = frame[m].fn /\ e = x.state
  OBVIOUS
<1>3. /\ frame[p].kind = "throw" /\ frame[p].mach = m /\ x.kind = "throw"
      /\ e = CurrentState(ci, m) /\ e \in States(f) /\ f \in Fns
      /\ ThrowActivation(frame[p], frame[m])
  BY <1>1, <1>2, CodeFacts DEF Steps, Activation
<1>4. Exact(frame[m], e, objects) /\ Owed(f, e) \subseteq Owed(f, frame[m].state)
  BY <1>1, <1>2, <1>3, VisitOwes
<1>5. i \in Blocks(f) /\ i # 0
  <2>1. CurrentState(ci, m) \in States(frame[m].fn)
    BY <1>2, <1>3
  <2>2. TryAround(frame[m], i)
    BY <1>1, <1>2, <1>3, <2>1, ExaminesAround DEF ThrowActivation
  <2> QED
    BY <1>2, <1>3, <2>2, BlocksType DEF TryAround
<1>6. Block(f, i).try_low \in Chain(f, e)
  BY <1>1, <1>2, <1>3, <1>5, InTryIsChain DEF Candidates
<1>7. WalkShape(x, frame[m])
  BY <1>1, <1>2, <1>4, <1>5, <1>6 DEF WalkShape
<1>8. KeptState(x, m, frame[m]) = e
  BY <1>1, <1>2, <1>3 DEF KeptState
<1> QED
  BY <1>1, <1>4, <1>7, <1>8, StepCleans DEF OnlyMine

LEMMA UnwindFrameCleans == ASSUME Inv, Activation, Cleaned, UnwindFrame PROVE Cleaned'
<1>1. PICK p, m, c, x :
            /\ p \in Slot /\ m \in Slot /\ c \in 0..MaxDepth
            /\ Unwinds(p, m, c, x) /\ IsCode(m) /\ c = m - 1
            /\ x.ci = frame[p].ci
            /\ frame[p].pc = "unwind" /\ frame[p].handler = 0
            /\ frame[p].state <= frame[p].target_state /\ frame[p].state \in States(frame[m].fn)
  BY UnwindFrameForm
<1>2. StandsOn(p, m) /\ frame[p].kind = "throw" /\ x.kind = "throw" /\ x.pc = "visit"
  BY <1>1 DEF Unwinds, StandsOn, IsRuntime
<1>3. Exact(frame[m], frame[p].state, objects) /\ WalkShape(frame[p], frame[m])
  <2>1. CleanAt(m)
    BY <1>1 DEF Cleaned
  <2>2. KeptState(frame[p], m, frame[m]) = frame[p].state
    BY <1>1, <1>2 DEF KeptState
  <2> QED
    BY <1>1, <1>2, <2>1, <2>2 DEF CleanAt
<1>4. \A s : ~(<<frame[m].primary, s>> \in objects /\ Mine(frame[m], frame[m].primary, s))
  <2> SUFFICES ASSUME NEW s, <<frame[m].primary, s>> \in objects, Mine(frame[m], frame[m].primary, s)
               PROVE  FALSE
    OBVIOUS
  <2>1. s \in Owed(frame[m].fn, frame[p].state) /\ HomeBlock(frame[m].fn, s) = frame[m].block
    BY <1>3 DEF Exact, Mine
  <2>2. frame[p].state <= FuncletLow(frame[m].fn, frame[m].block)
    BY <1>1, <1>3 DEF WalkShape
  <2> QED
    BY <1>1, <2>1, <2>2, CodeFacts, LowOwesNothing
<1>5. ASSUME NEW j \in Slot, j = c, IsCode(j)
      PROVE  /\ \A k \in Slot : StandsOn(k, j) => k = m
             /\ Exact(frame[j], KeptState(x, j, frame[j]), objects)
  <2>1. \A k \in Slot : ~StandsOn(k, j)
    <3> SUFFICES ASSUME NEW k \in Slot, StandsOn(k, j) PROVE FALSE
      OBVIOUS
    <3>1. j < m /\ j < k /\ k # m
      BY <1>1, <1>5, StackFacts DEF StandsOn, IsRuntime, IsCode, Slot
    <3>2. m < k
      BY <1>1, <1>5, <3>1 DEF Slot
    <3> QED
      BY <1>1, <3>1, <3>2, StackFacts DEF StandsOn, IsCode, Free
  <2>2. Exact(frame[j], frame[j].state, objects)
    BY <1>5, <2>1 DEF Cleaned, CleanAt
  <2>3. IsFresh(x.ci, j)
    BY <1>1, <1>5, FreshAtCaller
  <2> QED
    BY <1>2, <2>1, <2>2, <2>3 DEF KeptState
<1> QED
  BY <1>1, <1>4, <1>5, UnwindCleans

LEMMA CatchFrameCleans ==
    ASSUME Inv, Activation, Cleaned, TakeFromCatchFrame \/ PassCatchFrame PROVE Cleaned'
<1>1. PICK p, m, c, x :
            /\ p \in Slot /\ m \in Slot /\ c \in 0..MaxDepth
            /\ Unwinds(p, m, c, x) /\ frame[m].kind = "catch" /\ c = frame[m].mach
            /\ x.ci.primary_frame_ptr = frame[m].ci.primary_frame_ptr
            /\ x.ci.unwind_context = frame[m].ci.unwind_context
  BY CatchFrameForm
<1>2. x.kind = "throw" /\ x.pc = "visit"
  BY <1>1 DEF Unwinds
<1>3. ASSUME NEW j \in Slot, j = c, IsCode(j)
      PROVE  /\ \A k \in Slot : StandsOn(k, j) => k = m
             /\ Exact(frame[j], KeptState(x, j, frame[j]), objects)
  <2>1. StandsOn(m, j)
    BY <1>1, <1>3 DEF StandsOn, IsRuntime
  <2>2. Exact(frame[j], KeptState(frame[m], j, frame[j]), objects)
    BY <1>1, <1>3, <2>1 DEF Cleaned, CleanAt
  <2>3. ~IsFresh(x.ci, j)
    <3>1. x.ci.primary_frame_ptr = frame[j].primary
      BY <1>1, <1>3 DEF Activation, CachedIs
    <3>2. frame[j].primary <= j /\ frame[j].primary \in Slot
      BY <1>3, CodeFacts DEF Activation, CodeActivation
    <3> QED
      BY <3>1, <3>2 DEF IsFresh, Below, Slot
  <2>4. KeptState(x, j, frame[j]) = KeptState(frame[m], j, frame[j])
    BY <1>1, <1>2, <2>3 DEF KeptState
  <2> QED
    BY <1>1, <2>1, <2>2, <2>4, StandAlone
<1> QED
  BY <1>1, <1>3, UnwindCleans

LEMMA CallHandlerCleans ==
    ASSUME Inv, Activation, Cleaned, CleanTryEntries, CallHandler PROVE Cleaned'
<1>1. PICK p, m, n, x, y : p \in Slot /\ m \in Slot /\ n \in Slot /\ Handles(p, m, n, x, y)
  BY CallHandlerForm
<1>2. PICK c, f, h, e, low : /\ c = frame[m] /\ f = c.fn /\ h = frame[p].handler
                             /\ e = frame[p].state /\ low = Block(f, h).try_low
  OBVIOUS
<1>3. /\ StandsOn(p, m) /\ frame[p].kind = "throw" /\ frame[p].pc = "unwind"
      /\ IsCode(m) /\ f \in Fns /\ h # 0 /\ c.primary \in Slot
      /\ e \in States(f) /\ e <= frame[p].target_state
  BY <1>1, <1>2, CodeFacts DEF Handles, StandsOn, IsRuntime
<1>4. CachedIs(frame[p].ci, c, h)
  BY <1>1, <1>2, <1>3 DEF Activation, ThrowActivation, StandsOn
<1>5. Exact(c, e, objects) /\ WalkShape(frame[p], c)
  <2>1. CleanAt(m)
    BY <1>1, <1>3 DEF Cleaned
  <2>2. KeptState(frame[p], m, c) = e
    BY <1>2, <1>3 DEF KeptState
  <2> QED
    BY <1>1, <1>2, <1>3, <2>1, <2>2 DEF CleanAt
<1>6. h \in Blocks(f) /\ c.block < h
  BY <1>2, <1>4 DEF CachedIs, TryAround
<1>7. e = Eh[f].next[low]
  <2>1. low \in Nat /\ e \in Int /\ e <= low - 1
    BY <1>2, <1>3, <1>5, <1>6, BlockFacts, BlocksType DEF WalkShape
  <2>2. low \notin Chain(f, e)
    <3>1. low \in Chain(f, e) => low <= e
      BY <1>3, ChainBelow
    <3> QED
      BY <2>1, <3>1
  <2> QED
    BY <1>2, <1>3, <1>5, <2>2 DEF WalkShape
<1>8. Exact(c, x.ci.unwind_context.state, objects)
  <2>1. x.ci.unwind_context.state = low - 1
    BY <1>1, <1>2, <1>4 DEF Handles, CachedIs
  <2>2. Owed(f, low - 1) = Owed(f, e)
    BY <1>2, <1>3, <1>6, <1>7 DEF CleanTryEntries, CleanTryEntry
  <2> QED
    BY <1>2, <1>5, <2>1, <2>2 DEF Exact
<1>9. y.fn = f /\ y.block = h /\ y.primary = c.primary /\ y.state = HandlerState(f, h)
  BY <1>1, <1>2, <1>4 DEF Handles, CachedIs
<1>10. ASSUME NEW s \in 0..Eh[f].last, HomeBlock(f, s) = h PROVE <<c.primary, s>> \notin objects
  <2> SUFFICES ASSUME <<c.primary, s>> \in objects PROVE FALSE
    OBVIOUS
  <2>1. PICK j \in Slot : IsCode(j) /\ Mine(frame[j], c.primary, s)
    BY DEF Cleaned
  <2>2. j < m \/ j = m
    <3>1. p = top /\ m < p /\ j # p
      BY <1>1, <1>3, <2>1, StackFacts DEF Handles, StandsOn, IsRuntime, IsCode
    <3>2. ~(m < j /\ j < p) /\ ~(j > p)
      BY <1>3, <2>1, <3>1, StackFacts DEF StandsOn, IsCode, Free
    <3> QED
      BY <1>1, <3>1, <3>2 DEF Slot
  <2>3. frame[j].primary = c.primary /\ HomeBlock(frame[j].fn, s) = frame[j].block
    BY <2>1 DEF Mine
  <2>4. j < m => frame[j].fn = f /\ frame[j].block < c.block
    BY <1>1, <1>2, <1>3, <2>1, <2>3 DEF Activation
  <2>5. frame[j].block \in Nat /\ c.block \in Nat /\ h \in Nat
    BY <1>1, <1>2, <1>3, <1>6, <2>1, CodeFacts, BlocksType
  <2> QED
    BY <1>2, <1>6, <1>10, <2>2, <2>3, <2>4, <2>5
<1>11. Exact(y, y.state, objects)
  BY <1>3, <1>6, <1>9, <1>10, HandlerOwesNothing DEF Exact
<1> QED
  BY <1>1, <1>2, <1>8, <1>11, HandlerCleans

LEMMA RuntimeCleans ==
    ASSUME Inv, Activation, Cleaned, CleanTryEntries, Runtime PROVE Cleaned'
<1>1. CASE ProbeForObject
  <2>1. PICK p, m, x :
            /\ p \in Slot /\ m \in Slot
            /\ Steps(p, m, x) /\ objects' = objects /\ IsCode(m)
            /\ frame[p].pc = "visit" /\ x.pc = "visit" /\ frame[p].handler = 0 /\ x.handler = 0
            /\ x.ci.primary_frame_ptr = frame[p].ci.primary_frame_ptr
            /\ x.ci.unwind_context = frame[p].ci.unwind_context
    BY <1>1, ProbeForm
  <2>2. StandsOn(p, m) /\ CleanAt(m)
    BY <2>1 DEF Steps, StandsOn, IsRuntime, Cleaned
  <2>3. KeptState(x, m, frame[m]) = KeptState(frame[p], m, frame[m])
    BY <2>1 DEF KeptState, IsFresh, Steps
  <2>4. Exact(frame[m], KeptState(x, m, frame[m]), objects)
    BY <2>1, <2>2, <2>3 DEF CleanAt
  <2> QED
    BY <2>1, <2>4, StepCleans DEF OnlyMine
<1>2. CASE CalloutReturns
  <2>1. PICK p, m, x :
            /\ p \in Slot /\ m \in Slot
            /\ Steps(p, m, x) /\ objects' = objects /\ IsCode(m)
            /\ frame[p].pc \in {"copy", "cleanup"} /\ x.pc = "unwind"
            /\ x.ci = frame[p].ci /\ x.handler = frame[p].handler
            /\ x.state = frame[p].state /\ x.target_state = frame[p].target_state
    BY <1>2, CalloutReturnsForm
  <2>2. StandsOn(p, m) /\ CleanAt(m) /\ frame[p].kind = "throw"
    BY <2>1 DEF Steps, StandsOn, IsRuntime, Cleaned
  <2>3. KeptState(x, m, frame[m]) = KeptState(frame[p], m, frame[m])
    BY <2>1 DEF KeptState, Steps
  <2>4. Exact(frame[m], KeptState(x, m, frame[m]), objects) /\ WalkShape(frame[p], frame[m])
    BY <2>1, <2>2, <2>3 DEF CleanAt
  <2>5. WalkShape(x, frame[m])
    BY <2>1, <2>4 DEF WalkShape
  <2> QED
    BY <2>1, <2>4, <2>5, StepCleans DEF OnlyMine
<1>3. CASE DestroyAtCatchFrame
  <2>1. PICK p, m, x :
            p \in Slot /\ m \in Slot /\ Steps(p, m, x) /\ objects' = objects /\ frame[m].kind = "catch" /\ x.pc = "destroy"
    BY <1>3, DestroyAtCatchFrameForm
  <2> QED
    BY <2>1, StepCleans DEF IsCode
<1>4. CASE ContinueAfterException
  <2>1. PICK p, m, x : p \in Slot /\ m \in Slot /\ Resumes(p, m, x)
    BY <1>4, ContinueForm
  <2>2. PICK c, f, h, low : /\ c = frame[m] /\ f = c.fn /\ h = frame[p].handler
                            /\ low = Block(f, h).try_low
    OBVIOUS
  <2>3. StandsOn(p, m) /\ frame[p].kind = "destroy" /\ IsCode(m) /\ f \in Fns
    BY <2>1, <2>2, StackFacts, CodeFacts DEF Resumes, StandsOn, IsRuntime
  <2>4. CachedIs(frame[p].ci, c, h)
    BY <2>1, <2>2, <2>3 DEF Activation, StandsOn
  <2>5. Exact(c, low - 1, objects)
    <3>1. CleanAt(m)
      BY <2>1, <2>3 DEF Cleaned
    <3>2. KeptState(frame[p], m, c) = low - 1
      BY <2>2, <2>3, <2>4 DEF KeptState, CachedIs
    <3> QED
      BY <2>1, <2>2, <2>3, <3>1, <3>2 DEF CleanAt
  <2>6. h \in Blocks(f)
    BY <2>2, <2>4 DEF CachedIs, TryAround
  <2>7. Owed(f, low - 1) = Owed(f, Eh[f].next[low])
    BY <2>2, <2>3, <2>6 DEF CleanTryEntries, CleanTryEntry
  <2>8. x.fn = f /\ x.block = c.block /\ x.primary = c.primary /\ x.state = Eh[f].next[low]
    BY <2>1, <2>2 DEF Resumes
  <2>9. Exact(x, x.state, objects)
    BY <2>2, <2>5, <2>7, <2>8 DEF Exact
  <2> QED
    BY <2>1, <2>9, ResumeCleans
<1>5. CASE ProbeFails \/ VisitVerifyFails \/ VisitForeignFrame
  BY <1>5, CleanUnchanged DEF ProbeFails, VisitVerifyFails, VisitForeignFrame, BugCheck
<1> QED
  BY <1>1, <1>2, <1>3, <1>4, <1>5, VisitPassingCleans, VisitCatchingCleans, UnwindEdgeCleans,
     UnwindFrameCleans, CatchFrameCleans, CallHandlerCleans DEF Runtime

LEMMA InitClean == Init => Cleaned
<1> SUFFICES ASSUME Init PROVE Cleaned
  OBVIOUS
<1>1. \A k \in Slot : k # 1 => frame[k] = Free
  BY DEF Init
<1>2. 1 \in Slot => frame[1] = [kind |-> "code", fn |-> Main, block |-> 0, state |-> -1, primary |-> 1]
  BY DEF Init
<1>3. \A k \in Slot : ~IsRuntime(k) /\ (IsCode(k) => k = 1)
  BY <1>1, <1>2 DEF IsRuntime, IsCode, Free
<1>4. 1 \in Slot => Exact(frame[1], frame[1].state, objects)
  BY <1>2, ChainEmpty, ProgramAssumption DEF Init, Exact
<1>5. \A j \in Slot : IsCode(j) => CleanAt(j)
  BY <1>3, <1>4 DEF CleanAt, StandsOn
<1>6. objects = {}
  BY DEF Init
<1> QED
  BY <1>5, <1>6 DEF Cleaned

LEMMA NextCleans == ASSUME CleanTryEntries PROVE Inv /\ Activation /\ Cleaned /\ [Next]_vars => Cleaned'
<1> SUFFICES ASSUME Inv, Activation, Cleaned, [Next]_vars PROVE Cleaned'
  OBVIOUS
<1>1. CASE Halted \/ UNCHANGED vars
  BY <1>1, CleanUnchanged DEF Halted, vars
<1> QED
  BY <1>1, UserCleans, RuntimeCleans DEF Next

LEMMA CleanedHolds == ASSUME CleanTryEntries PROVE Spec => [](Inv /\ Activation /\ Cleaned)
<1>1. Init => Inv /\ Activation /\ Cleaned
  BY InitInv, InitActs, InitClean
<1>2. Inv /\ Activation /\ Cleaned /\ [Next]_vars => Inv' /\ Activation' /\ Cleaned'
  BY NextInv, NextActs, NextCleans
<1> QED
  BY <1>1, <1>2, PTL DEF Spec

\* Whatever is thrown and rethrown through whatever nesting of handlers, also by
\* cleanups and copy constructors that run in the middle of an unwinding
\* (fh3.cpp:158-168): the live objects of every funclet are exactly those its
\* unwind graph owes at the state it has been unwound to.
THEOREM CleanupsAreExact == ASSUME CleanTryEntries PROVE Spec => []CleanupsExact
<1>1. ASSUME Inv, Activation, Cleaned PROVE CleanupsExact
  <2>1. ASSUME NEW m \in Slot, IsCode(m) PROVE Exact(frame[m], EffectiveState(m), objects)
    <3> DEFINE above == {k \in Slot : IsRuntime(k) /\ frame[k].mach = m}
    <3>1. CleanAt(m)
      BY <1>1, <2>1 DEF Cleaned
    <3>2. CASE above = {}
      BY <3>1, <3>2 DEF CleanAt, StandsOn, EffectiveState
    <3>3. CASE above # {}
      <4>1. PICK i \in above : i = CHOOSE k \in above : TRUE
        BY <3>3
      <4>2. EffectiveState(m) = KeptState(frame[i], m, frame[m])
        BY <3>3, <4>1 DEF EffectiveState, KeptState, CurrentState
      <4> QED
        BY <3>1, <4>1, <4>2 DEF CleanAt, StandsOn
    <3> QED
      BY <3>2, <3>3
  <2>2. ASSUME NEW m \in Slot, IsCode(m)
        PROVE  {s \in 0..Eh[frame[m].fn].last :
                    HomeBlock(frame[m].fn, s) = frame[m].block /\ <<frame[m].primary, s>> \in objects}
               = {s \in Owed(frame[m].fn, EffectiveState(m)) : HomeBlock(frame[m].fn, s) = frame[m].block}
    <3>1. Owed(frame[m].fn, EffectiveState(m)) \subseteq 0..Eh[frame[m].fn].last
      BY <2>2, CodeFacts, EhAssumption, <1>1 DEF Owed
    <3> QED
      BY <2>1, <2>2, <3>1 DEF Exact
  <2>3. ASSUME NEW o \in objects
        PROVE  \E m \in Slot : /\ IsCode(m) /\ frame[m].primary = o[1]
                               /\ HomeBlock(frame[m].fn, o[2]) = frame[m].block
    <3>1. o = <<o[1], o[2]>>
      BY <1>1 DEF Inv, TypeOK
    <3>2. PICK m \in Slot : IsCode(m) /\ Mine(frame[m], o[1], o[2])
      BY <1>1, <3>1 DEF Cleaned
    <3> QED
      BY <3>2 DEF Mine
  <2> QED
    BY <2>2, <2>3 DEF CleanupsExact
<1> QED
  BY <1>1, CleanedHolds, PTL

\* No destructor is run for an object that is not there, so none runs twice.
THEOREM NothingDestroyedTwice == ASSUME CleanTryEntries PROVE Spec => []DestroyedOnce
<1>1. ASSUME Inv, Activation, Cleaned PROVE DestroyedOnce
  <2> SUFFICES ASSUME Dispatching("unwind"), T.state > T.target_state,
                      T.state \in Eh[frame[T.mach].fn].cleanup
               PROVE  <<frame[T.mach].primary, T.state>> \in objects
    BY DEF DestroyedOnce
  <2> USE <1>1
  <2>1. PICK p \in Slot : p = top
    BY TopType
  <2>2. /\ T = frame[p] /\ frame[p] \in RuntimeFrame /\ ThrowShape(p)
        /\ frame[p].kind = "throw" /\ frame[p].pc = "unwind"
    BY <2>1, DispatchingType
  <2>3. PICK m \in Slot : m = frame[p].mach /\ IsCode(m)
    BY <2>2 DEF ThrowShape, RuntimeFrame, Slot
  <2>4. PICK c, f, r : c = frame[m] /\ f = c.fn /\ r = frame[p].state
    OBVIOUS
  <2>5. f \in Fns /\ r \in 0..Eh[f].last /\ r \in Eh[f].cleanup /\ r > frame[p].target_state
    BY <2>2, <2>3, <2>4, CodeFacts, EhAssumption
  <2>6. StandsOn(p, m) /\ CleanAt(m)
    BY <2>2, <2>3 DEF StandsOn, IsRuntime, Cleaned
  <2>7. KeptState(frame[p], m, c) = r
    BY <2>2, <2>4 DEF KeptState
  <2>8. Exact(c, r, objects) /\ WalkShape(frame[p], c)
    BY <2>2, <2>4, <2>6, <2>7 DEF CleanAt
  <2>9. frame[p].handler # 0 => TryAround(c, frame[p].handler)
    BY <2>2, <2>3, <2>4 DEF Activation, ThrowActivation, CachedIs
  <2>10. HomeBlock(f, r) = c.block
    BY <2>3, <2>4, <2>5, <2>8, <2>9, EdgeIsOwn
  <2>11. r \in Owed(f, r)
    BY <2>5, OwedStep
  <2> QED
    BY <2>2, <2>3, <2>4, <2>5, <2>8, <2>10, <2>11 DEF Exact
<1> QED
  BY <1>1, CleanedHolds, PTL

----------------------------------------------------------------------------
(***************************************************************************)
(* What the frames are about: the exception a runtime frame refers to.     *)
(***************************************************************************)

\* There is one innermost runtime frame, or none.
LEMMA InnermostIs ==
    ASSUME Inv, NEW m \in 0..MaxDepth
    PROVE  /\ InnermostRuntime(m) \in 0..m
           /\ \A q \in InnermostRuntime(m) + 1 .. m : ~IsRuntime(q)
           /\ InnermostRuntime(m) # 0 => InnermostRuntime(m) \in Slot /\ IsRuntime(InnermostRuntime(m))
<1> DEFINE Found(p) == IF p = 0 THEN \A q \in 1..m : ~IsRuntime(q) ELSE IsInnermostRuntime(m, p)
<1>1. MaxDepth \in Nat /\ m \in Nat
  BY TopType
<1>2. \E p \in 0..m : Found(p)
  <2>1. CASE \A q \in 1..m : ~IsRuntime(q)
    BY <1>1, <2>1
  <2>2. CASE \E q \in 1..m : IsRuntime(q)
    <3> DEFINE dist == {m - q : q \in {r \in 1..m : IsRuntime(r)}}
    <3>1. dist \in SUBSET Nat /\ dist # {}
      BY <1>1, <2>2
    <3>2. PICK d \in dist : \A e \in dist : d <= e
      BY <3>1, Least
    <3>3. PICK p \in 1..m : IsRuntime(p) /\ d = m - p
      BY <3>2
    <3>4. \A q \in p + 1 .. m : ~IsRuntime(q)
      <4> SUFFICES ASSUME NEW q \in p + 1 .. m, IsRuntime(q) PROVE FALSE
        OBVIOUS
      <4>1. q \in 1..m
        BY <1>1, <3>3
      <4>2. m - q \in dist
        BY <4>1
      <4> HIDE DEF dist
      <4>3. m - p <= m - q
        BY <3>2, <3>3, <4>2
      <4> QED
        BY <1>1, <4>1, <4>3
    <3>5. Found(p)
      BY <3>3, <3>4, <1>1 DEF IsInnermostRuntime
    <3> QED
      BY <1>1, <3>5
  <2> QED
    BY <2>1, <2>2
<1>3. PICK p : p = InnermostRuntime(m)
  OBVIOUS
<1>4. p \in 0..m /\ Found(p)
  BY <1>2, <1>3 DEF InnermostRuntime
<1>5. p = 0 => \A q \in p + 1 .. m : ~IsRuntime(q)
  BY <1>1, <1>4
<1>6. p # 0 => p \in Slot /\ IsRuntime(p) /\ \A q \in p + 1 .. m : ~IsRuntime(q)
  BY <1>1, <1>4 DEF IsInnermostRuntime, Slot
<1> QED
  BY <1>3, <1>4, <1>5, <1>6

\* What a frame is about depends on the frames below it only.
LEMMA AboutBelow ==
    ASSUME Inv, NEW k \in Slot, IsRuntime(k), NEW r, NEW s, \A j \in 0 .. k - 1 : r[j] = s[j]
    PROVE  About(k, r) = About(k, s)
<1>1. frame[k] \in RuntimeFrame /\ k \in Nat /\ k >= 1
  BY RuntimeFrameType, TopType DEF Inv, Slot
<1>2. frame[k].ci.exception_object_or_link \in ObjOrLink /\ frame[k].mach \in 0..MaxDepth
  BY <1>1 DEF RuntimeFrame, CatchInfo
<1>3. PICK o, p, m : /\ o = frame[k].ci.exception_object_or_link /\ m = frame[k].mach
                     /\ p = InnermostRuntime(m)
  OBVIOUS
<1>4. o.slot < k => r[o.slot] = s[o.slot]
  BY <1>1, <1>2, <1>3, TopType DEF ObjOrLink
<1>5. p < k => r[p] = s[p]
  BY <1>1, <1>2, <1>3, InnermostIs, TopType
<1> QED
  BY <1>3, <1>4, <1>5 DEF About

AboutOf(k, r) == IF k >= 1 /\ IsRuntime(k) THEN About(k, r) ELSE 0

\* The recursion over the stack is well-founded.
LEMMA ReferentIs ==
    ASSUME Inv, NEW k \in Slot
    PROVE  Referent[k] = IF IsRuntime(k) THEN About(k, Referent) ELSE 0
<1>1. MaxDepth \in Nat /\ k \in 0..MaxDepth /\ k >= 1
  BY TopType DEF Slot
<1> DEFINE Solves(r, n) == \A j \in 0..n : r[j] = AboutOf(j, r)
           Unsolved == {n \in 0..MaxDepth : ~ \E r : Solves(r, n)}
<1>2. Unsolved = {}
  <2> SUFFICES ASSUME Unsolved # {} PROVE FALSE
    OBVIOUS
  <2>1. PICK n \in Unsolved : \A i \in Unsolved : n <= i
    <3>1. Unsolved \in SUBSET Nat
      BY <1>1
    <3> HIDE DEF Unsolved
    <3> QED
      BY <3>1, Least
  <2>2. n \in Nat /\ n <= MaxDepth /\ ~ \E r : Solves(r, n)
    BY <1>1, <2>1
  <2>3. PICK r : \A j \in 0..n - 1 : r[j] = AboutOf(j, r)
    <3>1. CASE n = 0
      <4>1. 0..n - 1 = {}
        BY <3>1
      <4> QED
        BY <4>1
    <3>2. CASE n # 0
      <4>1. n - 1 \in 0..MaxDepth /\ ~(n <= n - 1)
        BY <1>1, <2>2, <3>2
      <4>2. n - 1 \notin Unsolved
        BY <2>1, <4>1
      <4>3. \E r : Solves(r, n - 1)
        BY <4>1, <4>2
      <4> QED
        BY <4>3
    <3> QED
      BY <3>1, <3>2
  <2> DEFINE s == [j \in 0..n |-> IF j = n THEN AboutOf(n, r) ELSE r[j]]
  <2>4. \A j \in 0..n - 1 : s[j] = r[j]
    BY <2>2
  <2>5. s[n] = AboutOf(n, r)
    BY <2>2
  <2> HIDE DEF s
  <2>6. ASSUME NEW j \in 0..n PROVE AboutOf(j, s) = AboutOf(j, r)
    <3>1. CASE j >= 1 /\ IsRuntime(j)
      <4>1. j \in Slot
        BY <1>1, <2>2, <3>1 DEF Slot
      <4>2. \A i \in 0..j - 1 : s[i] = r[i]
        BY <2>2, <2>4
      <4>3. About(j, s) = About(j, r)
        BY <3>1, <4>1, <4>2, AboutBelow
      <4> QED
        BY <4>3 DEF AboutOf
    <3>2. CASE ~(j >= 1 /\ IsRuntime(j))
      BY <3>2 DEF AboutOf
    <3> QED
      BY <3>1, <3>2
  <2>7. \A j \in 0..n : j = n \/ j \in 0..n - 1
    BY <2>2
  <2>8. Solves(s, n)
    BY <2>3, <2>4, <2>5, <2>6, <2>7
  <2> QED
    BY <2>2, <2>8
<1>3. PICK r : Solves(r, MaxDepth)
  BY <1>1, <1>2
<1> DEFINE s == [j \in 0..MaxDepth |-> r[j]]
<1>4. \A j \in 0..MaxDepth : s[j] = r[j]
  OBVIOUS
<1> HIDE DEF s
<1>5. ASSUME NEW j \in 0..MaxDepth PROVE s[j] = AboutOf(j, s)
  <2>1. CASE j >= 1 /\ IsRuntime(j)
    <3>1. j \in Slot
      BY <1>1, <2>1 DEF Slot
    <3>2. \A i \in 0..j - 1 : s[i] = r[i]
      BY <1>1, <1>4
    <3>3. About(j, s) = About(j, r)
      BY <2>1, <3>1, <3>2, AboutBelow
    <3> QED
      BY <1>3, <1>4, <3>3 DEF AboutOf
  <2>2. CASE ~(j >= 1 /\ IsRuntime(j))
    BY <1>3, <1>4, <2>2 DEF AboutOf
  <2> QED
    BY <2>1, <2>2
<1>6. s = [j \in 0..MaxDepth |-> AboutOf(j, s)]
  BY <1>5 DEF s
<1>7. Referent = [j \in 0..MaxDepth |-> AboutOf(j, Referent)]
  BY <1>6 DEF Referent, AboutOf
<1> QED
  BY <1>1, <1>7 DEF AboutOf

\* The exception a runtime frame is about: the one it owns, the one its link
\* leads to, or, while it searches, the one the innermost handler is about.
LEMMA ReferentOf ==
    ASSUME Inv, OwnInv, NEW k \in Slot, IsRuntime(k)
    PROVE  /\ Owns(k) => Referent[k] = Obj(k).slot /\ Obj(k).slot \in Slot /\ exc[Obj(k).slot] = Info(k)
           /\ ~Owns(k) /\ Obj(k).to = "link" =>
                /\ Referent[k] = Referent[Obj(k).slot]
                /\ Obj(k).slot \in Slot /\ Owns(Obj(k).slot)
           /\ Obj(k) = Null =>
                LET p == InnermostRuntime(frame[k].mach)
                IN  Referent[k] = IF p # 0 /\ frame[p].kind = "catch" THEN Referent[p] ELSE 0
           /\ Owns(k) \/ Obj(k).to = "link" \/ Obj(k) = Null
<1>1. /\ frame[k].mach \in 0..MaxDepth /\ frame[k].mach < k /\ k \in Nat /\ k >= 1
      /\ Owns(k) => OwnerShape(k) /\ Obj(k).to = "object"
      /\ ~Owns(k) /\ Obj(k).to # "link" => Obj(k) = Null
      /\ ~Owns(k) /\ Obj(k).to = "link" =>
            /\ Obj(k).slot \in Slot /\ Obj(k).slot <= frame[k].mach /\ Owns(Obj(k).slot)
  BY RuntimeRefers DEF Slot
<1>2. Referent[k] = About(k, Referent)
  BY ReferentIs
<1>3. Owns(k) => Referent[k] = Obj(k).slot /\ Obj(k).slot \in Slot /\ exc[Obj(k).slot] = Info(k)
  BY <1>1, <1>2 DEF About, Obj, OwnerShape
<1>4. ~Owns(k) /\ Obj(k).to = "link" => Referent[k] = Referent[Obj(k).slot]
  <2> SUFFICES ASSUME ~Owns(k), Obj(k).to = "link" PROVE Referent[k] = Referent[Obj(k).slot]
    OBVIOUS
  <2>1. Obj(k).slot < k
    BY <1>1 DEF Slot
  <2> QED
    BY <1>2, <2>1 DEF About, Obj
<1>5. ASSUME Obj(k) = Null, NEW p, p = InnermostRuntime(frame[k].mach)
      PROVE  Referent[k] = IF p # 0 /\ frame[p].kind = "catch" THEN Referent[p] ELSE 0
  <2>1. p \in 0..frame[k].mach
    BY <1>1, <1>5, InnermostIs
  <2>2. 1 <= p /\ p < k <=> p # 0
    BY <1>1, <2>1
  <2>3. Obj(k).to # "object" /\ Obj(k).to # "link"
    BY <1>5 DEF Null
  <2> QED
    BY <1>2, <1>5, <2>2, <2>3 DEF About, Obj
<1> QED
  BY <1>1, <1>3, <1>4, <1>5

\* A frame that has found its exception knows its type; one that has not is
\* about the exception of the innermost handler, whose frame always has one.
LEMMA ReferentKnown ==
    ASSUME Inv, OwnInv, NEW k \in Slot, IsRuntime(k)
    PROVE  /\ Obj(k) # Null => /\ Referent[k] \in Slot
                               /\ exc[Referent[k]] = GetThrowInfo(frame[k].ci)
                               /\ GetThrowInfo(frame[k].ci) # NoInfo
           /\ Obj(k) = Null => GetThrowInfo(frame[k].ci) = NoInfo /\ ~Owns(k)
           /\ frame[k].kind # "throw" => Obj(k) # Null
<1>1. /\ Owns(k) => OwnerShape(k) /\ Obj(k).to = "object"
      /\ ~Owns(k) /\ Obj(k).to # "link" => Obj(k) = Null /\ frame[k].kind = "throw"
      /\ ~Owns(k) /\ Obj(k).to = "link" => Obj(k).slot \in Slot /\ Owns(Obj(k).slot)
  BY RuntimeRefers
<1>2. Null.to = "null"
  BY DEF Null
<1>3. CASE Owns(k)
  <2>1. Referent[k] = Obj(k).slot /\ Obj(k).slot \in Slot /\ exc[Obj(k).slot] = Info(k)
    BY <1>3, ReferentOf
  <2>2. GetThrowInfo(frame[k].ci) = Info(k) /\ Info(k) # NoInfo
    BY <1>3 DEF Owns, Info, GetThrowInfo
  <2> QED
    BY <1>1, <1>2, <1>3, <2>1, <2>2
<1>4. CASE ~Owns(k) /\ Obj(k).to = "link"
  <2>1. PICK o \in Slot : o = Obj(k).slot /\ Owns(o)
    BY <1>1, <1>4
  <2>2. IsRuntime(o) /\ Info(o) # NoInfo
    BY <2>1 DEF Owns, Info
  <2>3. Referent[o] = Obj(o).slot /\ Obj(o).slot \in Slot /\ exc[Obj(o).slot] = Info(o)
    BY <2>1, <2>2, ReferentOf
  <2>4. Referent[k] = Referent[o]
    BY <1>4, <2>1, ReferentOf
  <2>5. GetThrowInfo(frame[k].ci) = Info(o)
    BY <1>4, <2>1 DEF Owns, Info, Obj, GetThrowInfo
  <2> QED
    BY <1>2, <1>4, <2>2, <2>3, <2>4, <2>5
<1>5. CASE ~Owns(k) /\ Obj(k).to # "link"
  <2>1. Obj(k) = Null /\ frame[k].kind = "throw"
    BY <1>1, <1>5
  <2>2. GetThrowInfo(frame[k].ci) = NoInfo
    BY <1>5 DEF Owns, Obj, GetThrowInfo
  <2> QED
    BY <1>5, <2>1, <2>2
<1> QED
  BY <1>3, <1>4, <1>5

----------------------------------------------------------------------------
(* What the handler examines is what encloses the control of the funclet.  *)

\* The dispatcher in slot p is about to run the handler for the code frame in
\* slot m.
Visits(p, m) ==
    /\ p = top /\ ~halted /\ frame[p].kind = "throw" /\ frame[p].pc = "visit"
    /\ m = frame[p].mach /\ IsCode(m)

LEMMA VisitIs ==
    ASSUME Inv, AtCodeFrame
    PROVE  \E p, m \in Slot : Visits(p, m) /\ T = frame[p] /\ T.mach = m
<1>1. PICK p, m \in Slot : p = top /\ m = T.mach
  BY AtCodeFrameType
<1>2. T = frame[p] /\ T.kind = "throw" /\ T.pc = "visit" /\ IsCode(m) /\ ~halted
  BY <1>1, AtCodeFrameType DEF AtCodeFrame, Dispatching
<1> QED
  BY <1>1, <1>2 DEF Visits

\* At a visit the state looked up is the one the funclet has been unwound to.
LEMMA VisitState ==
    ASSUME Inv, NEW p \in Slot, NEW m \in Slot, Visits(p, m)
    PROVE  EffectiveState(m) = CurrentState(frame[p].ci, m)
<1> DEFINE above == {k \in Slot : IsRuntime(k) /\ frame[k].mach = m}
<1>1. p \in above
  BY DEF Visits, IsRuntime
<1>2. \A k \in above : k = p
  BY <1>1, StandAlone DEF StandsOn
<1>3. p = CHOOSE k \in above : TRUE
  BY <1>1, <1>2
<1>4. above # {}
  BY <1>1
<1> QED
  BY <1>3, <1>4 DEF EffectiveState, Visits

LEMMA CandidatesEnclose ==
    ASSUME Inv, Activation, NEW p \in Slot, NEW m \in Slot, Visits(p, m),
           NEW home, IsHome(frame[p].ci, m, home)
    PROVE  /\ home = frame[m].block
           /\ PrimaryFrame(frame[p].ci, m, home) = frame[m].primary
           /\ Candidates(frame[p].ci, m, home) = Enclosing(m)
           /\ CurrentState(frame[p].ci, m) \in States(frame[m].fn)
           /\ \A i \in Enclosing(m) : TryAround(frame[m], i)
<1>1. PICK ci, c, f, s : ci = frame[p].ci /\ c = frame[m] /\ f = c.fn /\ s = CurrentState(ci, m)
  OBVIOUS
<1>2. /\ IsCode(m) /\ f \in Fns /\ c.state \in States(f) /\ c.block \in 0..Len(Eh[f].try_blocks)
      /\ Len(Eh[f].try_blocks) \in Nat
  BY <1>1, CodeFacts, BlocksType DEF Visits
<1>3. ~IsFresh(ci, m) => \E i \in Blocks(f) : CachedIs(ci, c, i)
  BY <1>1 DEF Activation, ThrowActivation, Visits
<1>4. s \in States(f)
  <2>1. CASE IsFresh(ci, m)
    BY <1>1, <1>2, <2>1 DEF CurrentState
  <2>2. CASE ~IsFresh(ci, m)
    BY <1>1, <1>2, <1>3, <2>2, HandlerFacts DEF CurrentState, CachedIs
  <2> QED
    BY <2>1, <2>2
<1>5. home = c.block /\ PrimaryFrame(ci, m, home) = c.primary
  <2>1. /\ home = frame[m].block
        /\ PrimaryFrame(ci, m, home) = frame[m].primary
    BY <1>1, <1>2, <1>3, FindsItself
  <2> QED
    BY <1>1, <2>1
<1>6. ASSUME NEW i \in Candidates(ci, m, home) PROVE TryAround(c, i) /\ i \in Enclosing(m)
  <2>1. TryAround(c, i)
    BY <1>1, <1>2, <1>3, <1>4, ExaminesAround
  <2>2. /\ i \in Blocks(f) /\ Block(f, i).try_low \in Chain(f, c.state)
        /\ c.block # 0 => HandlerState(f, c.block) < Block(f, i).try_low
    BY <1>1, <2>1 DEF TryAround
  <2>3. Block(f, i).try_low > FuncletLow(f, c.block)
    <3>1. Block(f, i).try_low \in Nat
      BY <1>2, <2>2, BlockFacts
    <3>2. CASE c.block = 0
      BY <3>1, <3>2 DEF FuncletLow
    <3>3. CASE c.block # 0
      <4>1. c.block \in Blocks(f)
        BY <1>1, <1>2, <3>3, CodeFacts
      <4>2. FuncletLow(f, c.block) \in Int /\ FuncletLow(f, c.block) < HandlerState(f, c.block)
            /\ HandlerState(f, c.block) \in Int
        BY <1>2, <4>1, HandlerFacts, BlockFacts
      <4> QED
        BY <2>2, <3>1, <3>3, <4>2
    <3> QED
      BY <3>2, <3>3
  <2>4. Within(f, c.block, c.state)
    BY <1>1, <1>2 DEF Activation, CodeActivation
  <2>5. HomeBlock(f, Block(f, i).try_low) = c.block
    BY <1>2, <2>2, <2>3, <2>4, OwnOnChain
  <2>6. InTry(f, i, s)
    BY <1>1 DEF Candidates
  <2>7. EffectiveState(m) = s
    BY <1>1, VisitState
  <2> QED
    BY <1>1, <2>1, <2>2, <2>5, <2>6, <2>7 DEF Enclosing
<1>7. ASSUME NEW i \in Enclosing(m) PROVE i \in Candidates(ci, m, home)
  <2>1. i \in Blocks(f) /\ HomeBlock(f, Block(f, i).try_low) = c.block /\ InTry(f, i, s)
    <3>1. EffectiveState(m) = s
      BY <1>1, VisitState
    <3> QED
      BY <1>1, <3>1 DEF Enclosing
  <2>2. c.block < i /\ Block(f, i).try_low > FuncletLow(f, c.block)
    BY <1>2, <2>1, OwnTries
  <2>3. FuncletLow(f, c.block) \in Int /\ Block(f, i).try_low \in Int
    <3>1. c.block # 0 => c.block \in Blocks(f)
      BY <1>1, <1>2, CodeFacts
    <3> QED
      BY <1>2, <2>1, <3>1, BlockFacts DEF FuncletLow
  <2>4. i \in home + 1 .. Len(Eh[f].try_blocks)
    BY <1>2, <1>5, <2>1, <2>2 DEF Blocks
  <2> QED
    BY <1>1, <1>5, <2>1, <2>2, <2>3, <2>4 DEF Candidates
<1>8. Candidates(ci, m, home) = Enclosing(m)
  BY <1>6, <1>7
<1> QED
  BY <1>1, <1>4, <1>5, <1>6, <1>8

LEMMA WalksHold == Spec => [](Inv /\ OwnInv /\ Activation)
<1>1. Init => Inv /\ OwnInv /\ Activation
  BY InitInv, InitOwn, InitActs
<1>2. (Inv /\ OwnInv /\ Activation) /\ [Next]_vars => (Inv /\ OwnInv /\ Activation)'
  BY NextInv, NextOwn, NextActs
<1> QED
  BY <1>1, <1>2, PTL DEF Spec

\* With the exception at hand, the handler's test of a block is the property's.
LEMMA AcceptingIs ==
    ASSUME Inv, OwnInv, Activation, NEW p \in Slot, NEW m \in Slot, Visits(p, m),
           NEW home, IsHome(frame[p].ci, m, home), ~NeedsProbe(frame[p].ci, m, home)
    PROVE  Accepting(m) = {i \in Candidates(frame[p].ci, m, home) :
                              BlockCatches(frame[m].fn, i, GetThrowInfo(frame[p].ci))}
<1>1. Candidates(frame[p].ci, m, home) = Enclosing(m)
  BY CandidatesEnclose
<1>2. IsRuntime(p) /\ p = top
  BY DEF Visits, IsRuntime
<1>3. CASE Candidates(frame[p].ci, m, home) = {}
  BY <1>1, <1>3 DEF Accepting
<1>4. CASE Candidates(frame[p].ci, m, home) # {}
  <2>1. GetThrowInfo(frame[p].ci) # NoInfo
    BY <1>4 DEF NeedsProbe
  <2>2. Referent[p] \in Slot /\ exc[Referent[p]] = GetThrowInfo(frame[p].ci)
    BY <1>2, <2>1, ReferentKnown
  <2>3. Referent[p] # 0
    BY <2>2 DEF Slot
  <2> QED
    BY <1>1, <1>2, <2>2, <2>3 DEF Accepting
<1> QED
  BY <1>3, <1>4

\* What a visit that catches chooses.
Chooses(p, m, home, i) ==
    /\ Visits(p, m) /\ IsHome(frame[p].ci, m, home) /\ ~NeedsProbe(frame[p].ci, m, home)
    /\ i \in Candidates(frame[p].ci, m, home)
    /\ BlockCatches(frame[m].fn, i, GetThrowInfo(frame[p].ci))
    /\ \A b \in Candidates(frame[p].ci, m, home) :
            b < i => ~BlockCatches(frame[m].fn, b, GetThrowInfo(frame[p].ci))

LEMMA SelectsChooses ==
    ASSUME NEW p, NEW m, Visits(p, m), NEW home, IsHome(frame[p].ci, m, home),
           ~NeedsProbe(frame[p].ci, m, home), NEW i, NEW j,
           Selects(frame[p].ci, m, home, GetThrowInfo(frame[p].ci), i, j)
    PROVE  Chooses(p, m, home, i)
BY DEF Chooses, Selects, IsFirstHandler, BlockCatches

LEMMA VisitChooses ==
    ASSUME Inv, VisitCatching
    PROVE  \E p, m \in Slot : \E home, i : Chooses(p, m, home, i) /\ frame'[p].handler = i
<1>1. PICK p, m \in Slot : Visits(p, m) /\ T = frame[p] /\ T.mach = m /\ p = top
  BY VisitIs DEF VisitCatching, Visits
<1>2. frame[p] \in RuntimeFrame
  BY <1>1, AtCodeFrameType DEF VisitCatching
<1>3. PICK home \in 0..Len(Eh[frame[T.mach].fn].try_blocks), i \in Blocks(frame[T.mach].fn) :
        /\ IsHome(T.ci, T.mach, home)
        /\ ~NeedsProbe(T.ci, T.mach, home)
        /\ \E j \in DOMAIN Block(frame[T.mach].fn, i).handlers :
            /\ Selects(T.ci, T.mach, home, GetThrowInfo(T.ci), i, j)
            /\ Step([T EXCEPT
                        !.pc = IF CopiesInto(GetThrowInfo(T.ci), Block(frame[T.mach].fn, i).handlers[j])
                               THEN "copy" ELSE "unwind",
                        !.handler = i,
                        !.state = CurrentState(T.ci, T.mach),
                        !.target_state = Block(frame[T.mach].fn, i).try_low - 1,
                        !.ci.primary_frame_ptr = PrimaryFrame(T.ci, T.mach, home),
                        !.ci.unwind_context = [state |-> Block(frame[T.mach].fn, i).try_low - 1,
                                               home_block_index |-> home]])
  BY DEF VisitCatching
<1>4. Chooses(p, m, home, i)
  <2>1. PICK j : Selects(T.ci, T.mach, home, GetThrowInfo(T.ci), i, j)
    BY <1>3
  <2> QED
    BY <1>1, <1>3, <2>1, SelectsChooses
<1>5. PICK pc, prim, s, low, ctx :
        Step([T EXCEPT !.pc = pc, !.handler = i, !.state = s, !.target_state = low,
                       !.ci.primary_frame_ptr = prim, !.ci.unwind_context = ctx])
  BY <1>3
<1> DEFINE x == [frame[p] EXCEPT !.pc = pc, !.handler = i, !.state = s, !.target_state = low,
                                 !.ci.primary_frame_ptr = prim, !.ci.unwind_context = ctx]
<1>6. x.handler = i
  BY <1>2 DEF RuntimeFrame
<1>7. frame' = [frame EXCEPT ![p] = x]
  BY <1>1, <1>5 DEF Step
<1> HIDE DEF x
<1>8. frame'[p] = x
  BY <1>7 DEF Inv, TypeOK
<1> QED
  BY <1>4, <1>6, <1>8

\* What a visit that catches nothing does.
LEMMA VisitPasses ==
    ASSUME Inv, VisitPassing
    PROVE  \E p, m \in Slot : \E home :
            /\ Visits(p, m) /\ IsHome(frame[p].ci, m, home) /\ ~NeedsProbe(frame[p].ci, m, home)
            /\ \A i \in Candidates(frame[p].ci, m, home) :
                    ~BlockCatches(frame[m].fn, i, GetThrowInfo(frame[p].ci))
            /\ ~(home = 0 /\ Eh[frame[m].fn].is_noexcept)
            /\ frame'[p].handler = 0
<1>1. PICK p, m \in Slot : Visits(p, m) /\ T = frame[p] /\ T.mach = m /\ p = top
  BY VisitIs DEF VisitPassing, Visits
<1>2. frame[p] \in RuntimeFrame /\ frame[p].handler = 0
  BY <1>1, AtCodeFrameType DEF VisitPassing
<1>3. PICK home : /\ IsHome(T.ci, T.mach, home)
                  /\ ~NeedsProbe(T.ci, T.mach, home)
                  /\ \A i \in Candidates(T.ci, T.mach, home) :
                        ~BlockCatches(frame[T.mach].fn, i, GetThrowInfo(T.ci))
                  /\ ~(home = 0 /\ Eh[frame[T.mach].fn].is_noexcept)
                  /\ Step([T EXCEPT !.pc = "unwind", !.state = CurrentState(T.ci, T.mach),
                                    !.target_state = FuncletLow(frame[T.mach].fn, home)])
  BY DEF VisitPassing
<1>4. PICK s, low : Step([T EXCEPT !.pc = "unwind", !.state = s, !.target_state = low])
  BY <1>3
<1> DEFINE x == [frame[p] EXCEPT !.pc = "unwind", !.state = s, !.target_state = low]
<1>5. x.handler = 0
  BY <1>2 DEF RuntimeFrame
<1>6. frame' = [frame EXCEPT ![p] = x]
  BY <1>1, <1>4 DEF Step
<1> HIDE DEF x
<1>7. frame'[p] = x
  BY <1>6 DEF Inv, TypeOK
<1> QED
  BY <1>1, <1>3, <1>5, <1>7

LEMMA DecisionStep ==
    ASSUME Inv, [Next]_vars, Dispatching("visit"),
           frame'[top].kind = "throw", frame'[top].pc \in {"copy", "unwind"}
    PROVE  VisitCatching \/ VisitPassing
<1>1. PICK p \in Slot : p = top /\ T = frame[p] /\ frame[p].kind = "throw" /\ frame[p].pc = "visit"
  BY DispatchingType
<1>2. frame[p] \in RuntimeFrame
  BY <1>1, DispatchingType
<1>3. ~Running /\ ~CallsOut
  BY <1>1 DEF Running, CallsOut, IsCode
<1>4. ~UserCode
  BY <1>3 DEF UserCode, Call, Enter, Leave, Return, CatchReturn, Throw, Rethrow
<1>5. frame'[p] # frame[p]
  BY <1>1
<1>6. ~Halted /\ ~(UNCHANGED vars)
  BY <1>5 DEF Halted, vars
<1>7. ~ProbeFails /\ ~VisitVerifyFails /\ ~VisitForeignFrame
  BY <1>5 DEF ProbeFails, VisitVerifyFails, VisitForeignFrame, BugCheck
<1>8. ~UnwindEdge /\ ~CalloutReturns /\ ~UnwindFrame /\ ~CallHandler /\ ~PassCatchFrame /\ ~ContinueAfterException
  BY <1>1 DEF UnwindEdge, CalloutReturns, UnwindFrame, CallHandler, PassCatchFrame,
              ContinueAfterException, Dispatching
<1>9. ~ProbeForObject
  <2> SUFFICES ASSUME ProbeForObject PROVE FALSE
    OBVIOUS
  <2>1. PICK q, n, x : q \in Slot /\ n \in Slot /\ Steps(q, n, x) /\ x.pc = "visit"
    BY ProbeForm
  <2> QED
    BY <1>1, <2>1 DEF Steps
<1>10. ~DestroyAtCatchFrame
  <2> SUFFICES ASSUME DestroyAtCatchFrame PROVE FALSE
    OBVIOUS
  <2>1. PICK q, n, x : q \in Slot /\ n \in Slot /\ Steps(q, n, x) /\ x.pc = "destroy"
    BY DestroyAtCatchFrameForm
  <2> QED
    BY <1>1, <2>1 DEF Steps
<1>11. ~TakeFromCatchFrame
  <2> SUFFICES ASSUME TakeFromCatchFrame PROVE FALSE
    OBVIOUS
  <2>1. PICK q, n, c, x : q \in Slot /\ n \in Slot /\ Unwinds(q, n, c, x)
    BY CatchFrameForm
  <2> QED
    BY <1>1, <2>1 DEF Unwinds
<1> QED
  BY <1>4, <1>6, <1>7, <1>8, <1>9, <1>10, <1>11 DEF Next, Runtime

LEMMA HaltStep ==
    ASSUME Inv, [Next]_vars, halted', ~halted
    PROVE  ProbeFails \/ VisitVerifyFails \/ VisitForeignFrame
<1>1. ~(UNCHANGED halted)
  OBVIOUS
<1>2. ~UserCode
  BY <1>1 DEF UserCode, Call, Enter, Leave, Return, CatchReturn, Throw, Rethrow, PushThrowFrame
<1>3. ~Halted /\ ~(UNCHANGED vars)
  BY <1>1 DEF Halted, vars
<1>4. ~(\E t : Step(t))
  BY <1>1 DEF Step
<1>5. ~ProbeForObject /\ ~CalloutReturns /\ ~DestroyAtCatchFrame
  BY <1>4 DEF ProbeForObject, CalloutReturns, DestroyAtCatchFrame
<1>6. ~VisitCatching
  BY <1>4 DEF VisitCatching
<1>7. ~VisitPassing
  BY <1>4 DEF VisitPassing
<1>8. ~UnwindEdge /\ ~UnwindFrame /\ ~TakeFromCatchFrame /\ ~PassCatchFrame
  BY <1>1 DEF UnwindEdge, UnwindFrame, TakeFromCatchFrame, PassCatchFrame
<1>9. ~CallHandler /\ ~ContinueAfterException
  BY <1>1 DEF CallHandler, ContinueAfterException
<1> QED
  BY <1>2, <1>3, <1>5, <1>6, <1>7, <1>8, <1>9 DEF Next, Runtime

\* fh3.cpp:72-146, for all its cached positions and its reliance on the order
\* of the tables, finds the handler the language means: the innermost one of
\* the funclet whose type fits, and it leaves a funclet only if there is none.
THEOREM InnermostHandlerRuns == Spec => HandlerIsInnermost
<1> DEFINE Decides ==
        Dispatching("visit") /\ frame'[top].kind = "throw" /\ frame'[top].pc \in {"copy", "unwind"}
        => LET m == T.mach
               chosen == frame'[top].handler
               low(i) == Block(frame[m].fn, i).try_low
           IN  IF Accepting(m) = {}
               THEN chosen = 0 /\ ~(frame[m].block = 0 /\ Eh[frame[m].fn].is_noexcept)
               ELSE chosen \in Accepting(m) /\ \A i \in Accepting(m) : low(i) <= low(chosen)
<1>1. ASSUME Inv, OwnInv, Activation, [Next]_vars PROVE Decides
  <2> SUFFICES ASSUME Dispatching("visit"), frame'[top].kind = "throw", frame'[top].pc \in {"copy", "unwind"},
                      NEW n, n = T.mach, NEW chosen, chosen = frame'[top].handler
               PROVE  IF Accepting(n) = {}
                      THEN chosen = 0 /\ ~(frame[n].block = 0 /\ Eh[frame[n].fn].is_noexcept)
                      ELSE chosen \in Accepting(n)
                           /\ \A i \in Accepting(n) : Block(frame[n].fn, i).try_low <= Block(frame[n].fn, chosen).try_low
    OBVIOUS
  <2>1. VisitCatching \/ VisitPassing
    BY <1>1, DecisionStep
  <2>2. CASE VisitCatching
    <3>1. PICK p, m, home, i :
            p \in Slot /\ m \in Slot /\ Chooses(p, m, home, i) /\ frame'[p].handler = i
      BY <1>1, <2>2, VisitChooses
    <3>2. /\ p \in Slot /\ m \in Slot
          /\ Visits(p, m) /\ IsHome(frame[p].ci, m, home) /\ ~NeedsProbe(frame[p].ci, m, home)
          /\ n = m /\ chosen = i
      BY <3>1 DEF Chooses, Visits, T
    <3>3. Accepting(m) = {b \in Candidates(frame[p].ci, m, home) :
                              BlockCatches(frame[m].fn, b, GetThrowInfo(frame[p].ci))}
      BY <1>1, <3>2, AcceptingIs
    <3>4. i \in Accepting(m) /\ \A b \in Accepting(m) : ~(b < i)
      BY <3>1, <3>3 DEF Chooses
    <3>5. PICK f, s : f = frame[m].fn /\ s = CurrentState(frame[p].ci, m)
      OBVIOUS
    <3>6. f \in Fns /\ s \in States(f)
      BY <1>1, <3>2, <3>5, CandidatesEnclose, CodeFacts DEF Visits
    <3>7. \A b \in Accepting(m) : b \in Blocks(f) /\ InTry(f, b, s)
      <4>1. EffectiveState(m) = s
        BY <1>1, <3>2, <3>5, VisitState
      <4> QED
        BY <3>5, <4>1 DEF Accepting, Enclosing
    <3>8. ASSUME NEW b \in Accepting(m) PROVE Block(f, b).try_low <= Block(f, i).try_low
      <4>1. i \in Blocks(f) /\ InTry(f, i, s) /\ b \in Blocks(f) /\ InTry(f, b, s) /\ ~(b < i)
        BY <3>4, <3>7
      <4>2. i \in Nat /\ b \in Nat /\ Block(f, i).try_low \in Nat
        BY <3>6, <4>1, BlockFacts, BlocksType
      <4>3. CASE i = b
        BY <4>2, <4>3
      <4>4. CASE i < b
        BY <3>6, <4>1, <4>4, InnerFirst
      <4> QED
        BY <4>1, <4>2, <4>3, <4>4
    <3> QED
      BY <3>2, <3>4, <3>5, <3>8
  <2>3. CASE VisitPassing
    <3>1. PICK p, m, home :
            /\ p \in Slot /\ m \in Slot
            /\ Visits(p, m) /\ IsHome(frame[p].ci, m, home) /\ ~NeedsProbe(frame[p].ci, m, home)
            /\ \A i \in Candidates(frame[p].ci, m, home) :
                    ~BlockCatches(frame[m].fn, i, GetThrowInfo(frame[p].ci))
            /\ ~(home = 0 /\ Eh[frame[m].fn].is_noexcept)
            /\ frame'[p].handler = 0
      BY <1>1, <2>3, VisitPasses
    <3>2. n = m /\ chosen = 0
      BY <3>1 DEF Visits, T
    <3>3. Accepting(m) = {}
      BY <1>1, <3>1, AcceptingIs
    <3>4. home = frame[m].block
      BY <1>1, <3>1, CandidatesEnclose
    <3> QED
      BY <3>1, <3>2, <3>3, <3>4
  <2> QED
    BY <2>1, <2>2, <2>3
<1>2. Inv /\ OwnInv /\ Activation /\ [Next]_vars => [Decides]_vars
  BY <1>1
<1> QED
  BY <1>2, WalksHold, PTL DEF Spec, HandlerIsInnermost

----------------------------------------------------------------------------
(* What halts the machine.                                                 *)

\* Runtime frame k is dispatching, or destroying an exception.
Works(k) == frame[k].kind \in {"throw", "destroy"}

\* It works for the frames above it, if any: it has called user code.
CalledOut ==
    \A k \in Slot : Works(k) /\ k < top => frame[k].pc \in {"copy", "cleanup", "destroy"}

\* No frame that has work below it is touched, but by a call that starts there.
WorkKept(k) ==
    /\ frame'[k] = frame[k] /\ k <= top
    /\ k = top => \E f \in Fns : Call(f)

LEMMA WorkKeptBelow ==
    ASSUME Inv, Inv', [Next]_vars, NEW k \in Slot, Works(k)', k < top'
    PROVE  WorkKept(k)
<1>1. /\ top \in Slot /\ MaxDepth \in Nat /\ top' \in Slot
      /\ \A q \in Slot : IsCode(q) => ~Works(q)
  BY TopType DEF Inv, TypeOK, IsCode, Works
<1>2. ASSUME UNCHANGED <<frame, top>> PROVE WorkKept(k)
  BY <1>1, <1>2 DEF WorkKept, Slot
<1>3. CASE UserCode
  <2>1. ASSUME NEW f \in Fns, Call(f) PROVE WorkKept(k)
    <3>1. PICK n, x : n \in Slot /\ n = top + 1 /\ top' = n /\ frame'[n] = x
                      /\ x.kind = "code" /\ \A q \in Slot : q # n => frame'[q] = frame[q]
      BY <2>1, CallForm
    <3> QED
      BY <1>1, <2>1, <3>1 DEF WorkKept, Slot
  <2>2. ASSUME NEW s \in UNION {0..Eh[f].last : f \in Fns}, Enter(s) PROVE WorkKept(k)
    <3>1. s \in Nat
      BY EhAssumption
    <3>2. PICK p, x : p \in Slot /\ p = top /\ top' = p
                      /\ \A q \in Slot : q # p => frame'[q] = frame[q]
      BY <2>2, <3>1, EnterForm
    <3> QED
      BY <1>1, <3>2 DEF WorkKept, Slot
  <2>3. CASE Leave
    <3>1. PICK p, x : p \in Slot /\ p = top /\ top' = p
                      /\ \A q \in Slot : q # p => frame'[q] = frame[q]
      BY <2>3, LeaveForm
    <3> QED
      BY <1>1, <3>1 DEF WorkKept, Slot
  <2>4. CASE Return
    <3>1. PICK n, p \in Slot : n = top /\ p = n - 1 /\ top' = p
                               /\ \A q \in Slot : q # n => frame'[q] = frame[q]
      BY <2>4, ReturnForm
    <3> QED
      BY <1>1, <3>1 DEF WorkKept, Slot
  <2>5. CASE CatchReturn
    <3>1. PICK n, p, x : n \in Slot /\ p \in Slot /\ n = top /\ p = n - 1 /\ top' = p
                         /\ \A q \in Slot : q # n /\ q # p => frame'[q] = frame[q]
      BY <2>5, CatchReturnForm
    <3> QED
      BY <1>1, <3>1 DEF WorkKept, Slot
  <2>6. ASSUME NEW obj, NEW info, Running, PushThrowFrame(obj, info) PROVE WorkKept(k)
    <3>1. PICK n, x : n \in Slot /\ n = top + 1 /\ top' = n /\ IsCode(top)
                      /\ \A q \in Slot : q # n => frame'[q] = frame[q]
      BY <2>6, ThrowForm
    <3>2. k # top
      <4>1. k # n
        BY <3>1, <1>1 DEF Slot
      <4>2. Works(k)
        BY <3>1, <4>1 DEF Works
      <4> QED
        BY <1>1, <3>1, <4>2
    <3> QED
      BY <1>1, <3>1, <3>2 DEF WorkKept, Slot
  <2> QED
    BY <1>3, <2>1, <2>2, <2>3, <2>4, <2>5, <2>6 DEF UserCode, Throw, Rethrow
<1>4. CASE Runtime
  <2>1. ASSUME NEW p \in Slot, NEW m, NEW x, Steps(p, m, x) PROVE WorkKept(k)
    BY <1>1, <2>1 DEF WorkKept, Steps, Slot
  <2>2. ASSUME NEW p \in Slot, NEW m \in Slot, NEW c, NEW x, Unwinds(p, m, c, x)
        PROVE  WorkKept(k)
    BY <1>1, <2>2 DEF WorkKept, Unwinds, Slot, Works, Free
  <2>3. CASE CallHandler
    <3>1. PICK p, m, n, x, y : p \in Slot /\ m \in Slot /\ n \in Slot /\ Handles(p, m, n, x, y)
      BY <2>3, CallHandlerForm
    <3>2. k # p
      BY <1>1, <3>1 DEF Handles, Works, Slot
    <3> QED
      BY <1>1, <3>1, <3>2 DEF WorkKept, Handles, Slot
  <2>4. CASE ContinueAfterException
    <3>1. PICK p, m, x : p \in Slot /\ m \in Slot /\ Resumes(p, m, x)
      BY <2>4, ContinueForm
    <3>2. m < p
      <4>1. IsRuntime(p)
        BY <3>1 DEF Resumes, IsRuntime
      <4> QED
        BY <3>1, <4>1 DEF Inv, StackShape, RuntimeShape, Resumes
    <3> QED
      BY <1>1, <3>1, <3>2 DEF WorkKept, Resumes, Slot
  <2>5. CASE ProbeFails \/ VisitVerifyFails \/ VisitForeignFrame
    BY <1>2, <2>5 DEF ProbeFails, VisitVerifyFails, VisitForeignFrame, BugCheck
  <2>6. CASE ProbeForObject \/ DestroyAtCatchFrame
    BY <2>1, <2>6, ProbeForm, DestroyAtCatchFrameForm
  <2>7. CASE VisitPassing
    BY <2>1, <2>7, VisitPassingForm
  <2>8. CASE VisitCatching
    <3>1. PICK p, m, x, home, i : CatchingVisit(p, m, x, home, i)
      BY <2>8, VisitCatchingForm
    <3>2. p \in Slot /\ Steps(p, m, x)
      BY <3>1 DEF CatchingVisit
    <3> QED
      BY <2>1, <3>2
  <2>9. CASE UnwindEdge
    BY <2>1, <2>9, UnwindEdgeForm
  <2>10. CASE CalloutReturns
    BY <2>1, <2>10, CalloutReturnsForm
  <2>11. CASE UnwindFrame
    BY <2>2, <2>11, UnwindFrameForm
  <2>12. CASE TakeFromCatchFrame \/ PassCatchFrame
    BY <2>2, <2>12, CatchFrameForm
  <2> QED
    BY <1>4, <2>3, <2>4, <2>5, <2>6, <2>7, <2>8, <2>9, <2>10, <2>11, <2>12 DEF Runtime
<1>5. CASE Halted \/ UNCHANGED vars
  BY <1>2, <1>5 DEF Halted, vars
<1> QED
  BY <1>3, <1>4, <1>5 DEF Next

\* So a frame with another above it has called user code.
LEMMA CalledOutHolds == Spec => []CalledOut
<1>1. Init => CalledOut
  <2> SUFFICES ASSUME Init PROVE CalledOut
    OBVIOUS
  <2> QED
    BY DEF Init, CalledOut, Works, Free, Slot
<1>2. ASSUME Inv, Inv', CalledOut, [Next]_vars PROVE CalledOut'
  <2> SUFFICES ASSUME NEW k \in Slot, Works(k)', k < top'
               PROVE  frame'[k].pc \in {"copy", "cleanup", "destroy"}
    BY DEF CalledOut
  <2>1. WorkKept(k)
    BY <1>2, WorkKeptBelow
  <2>2. Works(k) /\ frame'[k] = frame[k]
    BY <2>1 DEF WorkKept, Works
  <2>3. CASE k < top
    BY <1>2, <2>2, <2>3 DEF CalledOut
  <2>4. CASE k = top
    <3>1. PICK f \in Fns : Call(f)
      BY <2>1, <2>4 DEF WorkKept
    <3>2. ~Running
      BY <2>2, <2>4 DEF Works, Running, IsCode
    <3>3. CallsOut
      BY <3>1, <3>2 DEF Call
    <3> QED
      BY <2>2, <2>4, <3>3 DEF CallsOut, T
  <2>5. k <= top /\ top \in Int /\ k \in Int
    BY <1>2, <2>1, TopType DEF WorkKept, Slot
  <2> QED
    BY <2>3, <2>4, <2>5
<1>3. Inv /\ Inv' /\ CalledOut /\ [Next]_vars => CalledOut'
  BY <1>2
<1>4. Spec => []Inv
  BY InitInv, NextInv, PTL DEF Spec
<1> QED
  BY <1>1, <1>3, <1>4, PTL DEF Spec

\* All the reasons there are for the runtime to halt the machine.
HaltReason ==
    \/ T.mach = 0
    \/ LeavesDestructor
    \/ LeavesNoexcept
    \/ RethrowsNothing
    \/ LeavesCopyConstructor
    \/ RethrowsPastRuntime

LEMMA HaltHasReason ==
    ASSUME Inv, OwnInv, Activation, CalledOut, [Next]_vars, halted', ~halted
    PROVE  HaltReason
<1>1. ProbeFails \/ VisitVerifyFails \/ VisitForeignFrame
  BY HaltStep
<1>2. CASE ProbeFails
  <2>1. PICK p, m \in Slot : Visits(p, m) /\ T = frame[p] /\ T.mach = m
    BY <1>2, VisitIs DEF ProbeFails
  <2>2. PICK home : IsHome(frame[p].ci, m, home) /\ NeedsProbe(frame[p].ci, m, home)
    BY <1>2, <2>1 DEF ProbeFails
  <2>3. Enclosing(m) # {}
    BY <2>1, <2>2, CandidatesEnclose DEF NeedsProbe
  <2>4. IsRuntime(p) /\ p = top /\ m = frame[p].mach
    BY <2>1 DEF Visits, IsRuntime
  <2>5. Obj(p) = Null
    BY <2>2, <2>4, ReferentKnown DEF NeedsProbe
  <2>6. T.ci.exception_object_or_link = Null /\ Enclosing(T.mach) # {}
    BY <2>1, <2>3, <2>5 DEF Obj
  <2>7. CASE \A k \in Slot : frame[k].kind # "catch"
    BY <2>6, <2>7 DEF HaltReason, RethrowsNothing
  <2>8. CASE \E k \in Slot : frame[k].kind = "catch"
    <3>1. PICK k \in Slot : frame[k].kind = "catch"
      BY <2>8
    <3>2. IsRuntime(k) /\ k # p
      BY <2>1, <3>1 DEF IsRuntime, Visits
    <3>3. k <= p
      BY <2>4, <3>2, RuntimeRefers
    <3>4. ~(m < k /\ k < p)
      BY <2>4, <3>1, RuntimeRefers DEF Free
    <3>5. k \in 1..m
      BY <2>1, <3>2, <3>3, <3>4, TopType DEF Slot
    <3>6. PICK q : q = InnermostRuntime(m)
      OBVIOUS
    <3>7. q \in 0..m /\ (q # 0 => IsRuntime(q))
          /\ \A r \in q + 1 .. m : ~IsRuntime(r)
      BY <2>1, <3>6, InnermostIs, TopType DEF Slot
    <3>8. q # 0
      BY <3>2, <3>5, <3>7
    <3>9. q \in Slot /\ IsInnermostRuntime(m, q)
      BY <2>1, <3>7, <3>8, TopType DEF IsInnermostRuntime, Slot
    <3>10. ASSUME frame[q].kind = "catch" PROVE FALSE
      <4>1. Obj(q) # Null
        BY <3>7, <3>8, <3>9, <3>10, ReferentKnown
      <4>2. CanProbe(q)
        BY <2>1, <2>5, <3>9, <3>10, <4>1 DEF CanProbe, Obj
      <4> QED
        BY <1>2, <3>9, <4>2 DEF ProbeFails
    <3> QED
      BY <2>1, <2>6, <3>9, <3>10 DEF HaltReason, RethrowsPastRuntime
  <2> QED
    BY <2>7, <2>8
<1>3. CASE VisitVerifyFails
  <2>1. PICK p, m \in Slot : Visits(p, m) /\ T = frame[p] /\ T.mach = m
    BY <1>3, VisitIs DEF VisitVerifyFails
  <2>2. PICK home :
          /\ IsHome(frame[p].ci, m, home)
          /\ ~NeedsProbe(frame[p].ci, m, home)
          /\ \/ Below(PrimaryFrame(frame[p].ci, m, home), m)
             \/ /\ home = 0 /\ Eh[frame[m].fn].is_noexcept
                /\ \A i \in Candidates(frame[p].ci, m, home) :
                      ~BlockCatches(frame[m].fn, i, GetThrowInfo(frame[p].ci))
             \/ \E i \in Candidates(frame[p].ci, m, home) :
                      Block(frame[m].fn, i).try_low - 1 < FuncletLow(frame[m].fn, home)
    BY <1>3, <2>1 DEF VisitVerifyFails
  <2>3. /\ home = frame[m].block
        /\ PrimaryFrame(frame[p].ci, m, home) = frame[m].primary
        /\ Candidates(frame[p].ci, m, home) = Enclosing(m)
    <3>1. Inv /\ Activation /\ Visits(p, m) /\ IsHome(frame[p].ci, m, home)
      BY <2>1, <2>2
    <3> QED
      BY <3>1, CandidatesEnclose, Zenon
  <2>4. IsCode(m)
    BY <2>1 DEF Visits
  <2>5. ~Below(PrimaryFrame(frame[p].ci, m, home), m)
    <3>1. frame[m].primary <= m /\ frame[m].primary \in Slot
      BY <2>4, CodeFacts DEF Activation, CodeActivation
    <3> QED
      BY <2>3, <3>1 DEF Below, Slot
  <2>6. ASSUME NEW i \in Candidates(frame[p].ci, m, home)
        PROVE  ~(Block(frame[m].fn, i).try_low - 1 < FuncletLow(frame[m].fn, home))
    <3>1. PICK f : f = frame[m].fn /\ f \in Fns
      BY <2>4, CodeFacts
    <3>2. i \in Blocks(f) /\ home = HomeBlock(f, Block(f, i).try_low)
      BY <2>3, <2>6, <3>1 DEF Enclosing
    <3>3. Block(f, i).try_low > FuncletLow(f, home)
      BY <3>1, <3>2, OwnTries
    <3>4. home # 0 => home \in Blocks(f)
      BY <2>3, <2>4, <3>1, CodeFacts
    <3>5. FuncletLow(f, home) \in Int /\ Block(f, i).try_low \in Int
      BY <3>1, <3>2, <3>4, BlockFacts DEF FuncletLow
    <3> QED
      BY <3>1, <3>3, <3>5
  <2>7. home = 0 /\ Eh[frame[m].fn].is_noexcept
        /\ \A i \in Candidates(frame[p].ci, m, home) :
              ~BlockCatches(frame[m].fn, i, GetThrowInfo(frame[p].ci))
    BY <2>2, <2>5, <2>6
  <2>8. Accepting(m) = {}
    BY <2>1, <2>2, <2>7, AcceptingIs
  <2>9. T.mach >= 1
    BY <2>1 DEF Slot
  <2> QED
    BY <2>1, <2>3, <2>4, <2>7, <2>8, <2>9 DEF HaltReason, LeavesNoexcept
<1>4. CASE VisitForeignFrame
  <2>1. PICK p \in Slot : p = top /\ T = frame[p] /\ frame[p] \in RuntimeFrame /\ IsRuntime(p)
    BY <1>4, DispatchingType DEF VisitForeignFrame
  <2>2. T.mach \in 0..MaxDepth
    BY <2>1 DEF RuntimeFrame
  <2>3. CASE T.mach = 0
    BY <2>3 DEF HaltReason
  <2>4. CASE T.mach >= 1
    <3>1. PICK m \in Slot : m = T.mach /\ Works(m) /\ m < top
      BY <1>4, <2>1, <2>2, <2>4, RuntimeRefers DEF VisitForeignFrame, Works, Slot
    <3>2. frame[m].pc \in {"copy", "cleanup", "destroy"}
      BY <3>1 DEF CalledOut
    <3>3. ASSUME frame[m].kind = "destroy" PROVE frame[m].pc = "destroy"
      BY <3>1, <3>3 DEF Inv, StackShape, IsRuntime, RuntimeShape, CatchShape
    <3>4. LeavesDestructor \/ LeavesCopyConstructor
      BY <2>4, <3>1, <3>2, <3>3 DEF LeavesDestructor, LeavesCopyConstructor, Works
    <3> QED
      BY <3>4 DEF HaltReason
  <2> QED
    BY <2>2, <2>3, <2>4, TopType
<1> QED
  BY <1>1, <1>2, <1>3, <1>4

\* Whatever the program does, the runtime halts the machine for one of these six
\* reasons: the verifies of fh3.cpp:89-155 that test the tables never fail, only
\* that of a noexcept function, and a `throw;` finds the innermost handler that
\* runs unless a dispatch or a destruction lies between (throw.cpp:175-215).
THEOREM HaltsForCause == Spec => [][halted' /\ ~halted => HaltReason]_vars
<1>1. Inv /\ OwnInv /\ Activation /\ CalledOut /\ [Next]_vars
        => [halted' /\ ~halted => HaltReason]_vars
  BY HaltHasReason
<1> QED
  BY <1>1, WalksHold, CalledOutHolds, PTL DEF Spec

----------------------------------------------------------------------------
(* Programs whose callouts behave.                                         *)

\* Callouts are made to functions of Q, which call only each other and do not
\* rethrow; the copy constructors among them are noexcept.
Behaves(Q) ==
    /\ CopyCalls \subseteq Q /\ DestructorCalls \subseteq Q
    /\ \A f \in Q : Calls[f] \subseteq Q /\ f \notin Rethrows
    /\ \A f \in CopyCalls : Eh[f].is_noexcept

\* The code frame in slot k is the body of a noexcept function.
Guards(k) == IsCode(k) /\ frame[k].block = 0 /\ Eh[frame[k].fn].is_noexcept

\* Runtime frame k is to unwind the code frame it is at for good.
Passes(k) ==
    frame[k].kind = "throw" /\ frame[k].pc \in {"copy", "unwind", "cleanup"} /\ frame[k].handler = 0

\* A copy constructor's frame stays while it is being worked for ...
CopyGuarded ==
    \A k \in Slot :
        frame[k].kind = "throw" /\ frame[k].pc = "copy" /\ k < top => Guards(k + 1)
\* ... because no exception passes the body of a noexcept function.
GuardsHold == \A k, m \in Slot : Passes(k) /\ frame[k].mach = m => ~Guards(m)

\* Above a frame that works there is only code of Q ...
QuietAbove(Q) == \A j, k \in Slot : Works(k) /\ k < j /\ IsCode(j) => frame[j].fn \in Q
\* ... and so no rethrow that searches for its exception.
SearchesAlone ==
    \A j, k \in Slot : frame[k].kind = "throw" /\ Obj(k) = Null /\ j < k => ~Works(j)

Quiet(Q) == CopyGuarded /\ GuardsHold /\ QuietAbove(Q) /\ SearchesAlone

\* The code frame in slot j is the one that was there.
SameCode(j) == IsCode(j) /\ frame'[j].fn = frame[j].fn /\ frame'[j].block = frame[j].block

\* The handler of a frame further down runs in slot j.
IsHandlerOf(j, m) ==
    /\ j = top + 1 /\ m = frame[top].mach /\ IsCode(m)
    /\ frame[top].kind = "throw" /\ frame'[top].kind = "catch"
    /\ frame'[j].fn = frame[m].fn

\* The code frame in slot j is pushed by a call.
IsCalled(j) ==
    \E f \in Fns : Call(f) /\ j = top + 1 /\ frame'[j].fn = f /\ frame'[j].block = 0

\* A code frame was there, or is called, or runs a handler; one that goes does
\* so with all above it, or is unwound.
CodeKept(j) ==
    /\ IsCode(j)' => SameCode(j) \/ IsCalled(j) \/ \E m \in Slot : IsHandlerOf(j, m)
    /\ IsCode(j) /\ ~IsCode(j)' => j > top' \/ (Passes(top) /\ frame[top].mach = j)

LEMMA CodeStays ==
    ASSUME Inv, Inv', [Next]_vars, NEW j \in Slot
    PROVE  CodeKept(j)
<1>1. top \in Slot /\ MaxDepth \in Nat /\ top' \in Slot
  BY TopType DEF Inv, TypeOK
<1>2. ASSUME IsCode(j) => SameCode(j), IsCode(j)' => IsCode(j), IsCode(j) => IsCode(j)'
      PROVE  CodeKept(j)
  BY <1>2 DEF CodeKept
<1>3. ASSUME UNCHANGED frame PROVE CodeKept(j)
  BY <1>3 DEF CodeKept, SameCode, IsCode
<1>4. ASSUME NEW p, p = top, ~IsCode(p), ~IsCode(p)',
             \A q \in Slot : q # p => frame'[q] = frame[q]
      PROVE  CodeKept(j)
  BY <1>4 DEF CodeKept, SameCode, IsCode
<1>5. CASE UserCode
  <2>1. ASSUME NEW f \in Fns, Call(f) PROVE CodeKept(j)
    <3>1. PICK n, x : n \in Slot /\ n = top + 1 /\ top' = n /\ frame'[n] = x
                      /\ x.kind = "code" /\ x.fn = f /\ x.block = 0
                      /\ \A q \in Slot : q # n => frame'[q] = frame[q]
      BY <2>1, CallForm
    <3>2. CASE j = n
      <4>1. IsCalled(j) /\ IsCode(j)'
        BY <2>1, <3>1, <3>2 DEF IsCalled, IsCode
      <4> QED
        BY <4>1 DEF CodeKept
    <3>3. CASE j # n
      BY <3>1, <3>3 DEF CodeKept, SameCode, IsCode
    <3> QED
      BY <3>2, <3>3
  <2>2. ASSUME NEW p, NEW x, p \in Slot, p = top, IsCode(p), frame'[p] = x, x.kind = "code",
               x.fn = frame[p].fn, x.block = frame[p].block,
               \A q \in Slot : q # p => frame'[q] = frame[q]
        PROVE  CodeKept(j)
    BY <2>2 DEF CodeKept, SameCode, IsCode
  <2>3. ASSUME NEW s \in UNION {0..Eh[f].last : f \in Fns}, Enter(s) PROVE CodeKept(j)
    <3>1. s \in Nat
      BY EhAssumption
    <3> QED
      BY <2>2, <2>3, <3>1, EnterForm
  <2>4. CASE Leave
    BY <2>2, <2>4, LeaveForm
  <2>5. CASE Return
    <3>1. PICK n, p \in Slot : n = top /\ p = n - 1 /\ top' = p
                               /\ frame'[n] = Free
                               /\ \A q \in Slot : q # n => frame'[q] = frame[q]
      BY <2>5, ReturnForm
    <3>2. n > top'
      BY <3>1 DEF Slot
    <3>3. CASE j = n
      <4>1. IsCode(j)' => SameCode(j) \/ IsCalled(j) \/ \E m \in Slot : IsHandlerOf(j, m)
        BY <3>1, <3>3 DEF IsCode, Free
      <4> QED
        BY <3>2, <3>3, <4>1 DEF CodeKept
    <3>4. CASE j # n
      BY <3>1, <3>4 DEF CodeKept, SameCode, IsCode
    <3> QED
      BY <3>3, <3>4
  <2>6. CASE CatchReturn
    <3>1. PICK n, p, x : n \in Slot /\ p \in Slot /\ n = top /\ p = n - 1 /\ top' = p
                         /\ frame'[n] = Free /\ frame[p].kind = "catch"
                         /\ frame'[p] = x /\ x.kind = "destroy"
                         /\ \A q \in Slot : q # n /\ q # p => frame'[q] = frame[q]
      BY <2>6, CatchReturnForm
    <3>2. n > top'
      BY <3>1 DEF Slot
    <3>3. CASE j = n
      <4>1. ~IsCode(j)'
        BY <3>1, <3>3 DEF IsCode, Free
      <4> QED
        BY <3>2, <3>3, <4>1 DEF CodeKept
    <3>4. CASE j = p
      <4>1. ~IsCode(j) /\ ~IsCode(j)'
        BY <3>1, <3>4 DEF IsCode
      <4> QED
        BY <4>1 DEF CodeKept
    <3>5. CASE j # n /\ j # p
      BY <3>1, <3>5 DEF CodeKept, SameCode, IsCode
    <3> QED
      BY <3>3, <3>4, <3>5
  <2>7. ASSUME NEW obj, NEW info, Running, PushThrowFrame(obj, info) PROVE CodeKept(j)
    <3>1. PICK n, x : n \in Slot /\ n = top + 1 /\ frame'[n] = x /\ x.kind = "throw"
                      /\ \A q \in Slot : q # n => frame'[q] = frame[q]
      BY <2>7, ThrowForm
    <3>2. frame[n] = Free
      BY <1>1, <3>1 DEF Inv, StackShape, Slot
    <3> QED
      BY <3>1, <3>2 DEF CodeKept, SameCode, IsCode, Free
  <2> QED
    BY <1>5, <2>1, <2>3, <2>4, <2>5, <2>6, <2>7 DEF UserCode, Throw, Rethrow
<1>6. CASE Runtime
  <2>1. ASSUME NEW p \in Slot, NEW m, NEW x, Steps(p, m, x) PROVE CodeKept(j)
    BY <1>4, <2>1 DEF Steps, IsCode
  <2>2. ASSUME NEW p \in Slot, NEW m \in Slot, NEW c, NEW x, Unwinds(p, m, c, x),
               IsCode(m) => Passes(top)
        PROVE  CodeKept(j)
    <3>1. CASE j = m /\ IsCode(m)
      BY <2>2, <3>1 DEF CodeKept, Unwinds, IsCode, Free
    <3>2. CASE j # m \/ ~IsCode(m)
      BY <2>2, <3>2 DEF CodeKept, Unwinds, SameCode, IsCode, Free
    <3> QED
      BY <3>1, <3>2
  <2>3. CASE CallHandler
    <3>1. PICK p, m, n, x, y : p \in Slot /\ m \in Slot /\ n \in Slot /\ Handles(p, m, n, x, y)
      BY <2>3, CallHandlerForm
    <3>2. frame[n] = Free /\ p # n
      BY <1>1, <3>1 DEF Inv, StackShape, Slot, Handles
    <3>3. CASE j = n
      <4>1. frame'[n] = y /\ frame'[p] = x
        BY <3>1, <3>2 DEF Handles
      <4>2. IsHandlerOf(j, m) /\ ~IsCode(j)
        BY <3>1, <3>2, <3>3, <4>1 DEF IsHandlerOf, Handles, IsCode, Free
      <4> QED
        BY <3>1, <4>2 DEF CodeKept
    <3>4. CASE j # n
      BY <3>1, <3>4 DEF CodeKept, Handles, SameCode, IsCode
    <3> QED
      BY <3>3, <3>4
  <2>4. CASE ContinueAfterException
    <3>1. PICK p, m, x : p \in Slot /\ m \in Slot /\ Resumes(p, m, x)
      BY <2>4, ContinueForm
    <3>2. IsRuntime(p) /\ IsCode(m) /\ m # p
      <4>1. IsRuntime(p) /\ frame[p].kind # "throw"
        BY <3>1 DEF Resumes, IsRuntime
      <4> QED
        BY <3>1, <4>1 DEF Inv, StackShape, RuntimeShape, CatchShape, Resumes
    <3> QED
      BY <3>1, <3>2 DEF CodeKept, Resumes, SameCode, IsCode, IsRuntime, Free
  <2>5. CASE ProbeFails \/ VisitVerifyFails \/ VisitForeignFrame
    BY <1>3, <2>5 DEF ProbeFails, VisitVerifyFails, VisitForeignFrame, BugCheck
  <2>6. CASE ProbeForObject \/ DestroyAtCatchFrame
    BY <2>1, <2>6, ProbeForm, DestroyAtCatchFrameForm
  <2>7. CASE VisitPassing
    BY <2>1, <2>7, VisitPassingForm
  <2>8. CASE VisitCatching
    <3>1. PICK p, m, x, home, i : CatchingVisit(p, m, x, home, i)
      BY <2>8, VisitCatchingForm
    <3>2. p \in Slot /\ Steps(p, m, x)
      BY <3>1 DEF CatchingVisit
    <3> QED
      BY <2>1, <3>2
  <2>9. CASE UnwindEdge
    BY <2>1, <2>9, UnwindEdgeForm
  <2>10. CASE CalloutReturns
    BY <2>1, <2>10, CalloutReturnsForm
  <2>11. CASE UnwindFrame
    <3>1. PICK p, m, c, x : p \in Slot /\ m \in Slot /\ Unwinds(p, m, c, x)
                            /\ frame[p].pc = "unwind" /\ frame[p].handler = 0
      BY <2>11, UnwindFrameForm
    <3>2. Passes(top)
      BY <3>1 DEF Passes, Unwinds
    <3> QED
      BY <2>2, <3>1, <3>2
  <2>12. CASE TakeFromCatchFrame \/ PassCatchFrame
    <3>1. PICK p, m, c, x : p \in Slot /\ m \in Slot /\ Unwinds(p, m, c, x)
                            /\ frame[m].kind = "catch"
      BY <2>12, CatchFrameForm
    <3>2. ~IsCode(m)
      BY <3>1 DEF IsCode
    <3> QED
      BY <2>2, <3>1, <3>2
  <2> QED
    BY <1>6, <2>3, <2>4, <2>5, <2>6, <2>7, <2>8, <2>9, <2>10, <2>11, <2>12 DEF Runtime
<1>7. CASE Halted \/ UNCHANGED vars
  BY <1>3, <1>7 DEF Halted, vars
<1> QED
  BY <1>5, <1>6, <1>7 DEF Next

\* The dispatch on top is the one that was there ...
TopKept(p) == frame'[p] = frame[p] /\ p <= top
\* ... or has just been started ...
TopPushed(p) ==
    /\ p = top + 1 /\ IsCode(top) /\ frame'[p].pc = "visit"
    /\ Obj(p)' = Null => frame[top].fn \in Rethrows
\* ... or goes on, and neither forgets its exception nor passes a noexcept body.
TopGoesOn(p) ==
    /\ p = top /\ frame[p].kind = "throw"
    /\ Passes(p)' => /\ frame'[p].mach = frame[p].mach
                     /\ Passes(p) \/ ~Guards(frame[p].mach)
    /\ Obj(p)' = Null => Obj(p) = Null

LEMMA TopChanges ==
    ASSUME Inv, Inv', OwnInv, Activation, [Next]_vars,
           NEW p \in Slot, p = top', frame'[p].kind = "throw"
    PROVE  TopKept(p) \/ TopPushed(p) \/ TopGoesOn(p)
<1> DEFINE Goal == TopKept(p) \/ TopPushed(p) \/ TopGoesOn(p)
<1> SUFFICES Goal
  OBVIOUS
<1>1. top \in Slot
  BY TopType
<1>2. ASSUME UNCHANGED <<frame, top>> PROVE Goal
  BY <1>1, <1>2 DEF TopKept, Slot
<1>3. ASSUME frame'[p].kind # "throw" PROVE Goal
  BY <1>3
<1> HIDE DEF Goal
<1>4. CASE UserCode
  <2>1. ASSUME NEW f \in Fns, Call(f) PROVE Goal
    BY <1>3, <2>1, CallForm
  <2>2. ASSUME NEW s \in UNION {0..Eh[f].last : f \in Fns}, Enter(s) PROVE Goal
    <3>1. s \in Nat
      BY EhAssumption
    <3> QED
      BY <1>3, <2>2, <3>1, EnterForm
  <2>3. CASE Leave
    BY <1>3, <2>3, LeaveForm
  <2>4. CASE Return
    <3>1. PICK n, q \in Slot : n = top /\ q = n - 1 /\ top' = q
                               /\ \A r \in Slot : r # n => frame'[r] = frame[r]
      BY <2>4, ReturnForm
    <3> QED
      BY <1>1, <3>1 DEF Goal, TopKept, Slot
  <2>5. CASE CatchReturn
    BY <1>3, <2>5, CatchReturnForm
  <2>6. ASSUME NEW t \in Types, Throw(t) PROVE Goal
    <3>1. Running /\ PushThrowFrame(Object(top), t)
      BY <2>6 DEF Throw
    <3>2. PICK n, x : n \in Slot /\ n = top + 1 /\ top' = n /\ IsCode(top) /\ frame'[n] = x
                      /\ x.pc = "visit" /\ x.ci.exception_object_or_link = Object(top)
      BY <3>1, ThrowForm
    <3> QED
      BY <3>2 DEF Goal, TopPushed, Obj, Object, Null
  <2>7. CASE Rethrow
    <3>1. Running /\ PushThrowFrame(Null, NoInfo) /\ frame[top].fn \in Rethrows
      BY <2>7 DEF Rethrow, T
    <3>2. PICK n, x : n \in Slot /\ n = top + 1 /\ top' = n /\ IsCode(top) /\ frame'[n] = x
                      /\ x.pc = "visit"
      BY <3>1, ThrowForm
    <3> QED
      BY <3>1, <3>2 DEF Goal, TopPushed
  <2> QED
    BY <1>4, <2>1, <2>2, <2>3, <2>4, <2>5, <2>6, <2>7 DEF UserCode
<1>5. CASE Runtime
  <2>1. ASSUME NEW q \in Slot, NEW m, NEW x, Steps(q, m, x),
               x.ci = frame[q].ci \/ Obj(q) = Null \/ x.ci.exception_object_or_link = Obj(q),
               Passes(q)' => Passes(q) \/ ~Guards(m)
        PROVE  Goal
    <3>1. q = p /\ p = top /\ frame[p].kind = "throw" /\ frame'[p] = x
          /\ frame[p].mach = m /\ frame'[p].mach = m
      BY <2>1 DEF Steps
    <3>2. Obj(p)' = x.ci.exception_object_or_link
      BY <3>1 DEF Obj
    <3> QED
      BY <2>1, <3>1, <3>2 DEF Goal, TopGoesOn, Obj
  <2>2. ASSUME NEW q \in Slot, NEW m, NEW c, NEW x, Unwinds(q, m, c, x),
               x.ci.exception_object_or_link = Null => Obj(q) = Null
        PROVE  Goal
    <3>1. q = p /\ p = top /\ frame[p].kind = "throw" /\ frame'[p] = x /\ x.pc = "visit"
      BY <2>2 DEF Unwinds
    <3>2. ~Passes(p)' /\ Obj(p)' = x.ci.exception_object_or_link
      BY <3>1 DEF Passes, Obj
    <3> QED
      BY <2>2, <3>1, <3>2 DEF Goal, TopGoesOn
  <2>3. CASE CallHandler
    <3>1. PICK q, m, n, x, y : q \in Slot /\ m \in Slot /\ n \in Slot /\ Handles(q, m, n, x, y)
      BY <2>3, CallHandlerForm
    <3> QED
      BY <1>3, <3>1 DEF Handles
  <2>4. CASE ContinueAfterException
    <3>1. PICK q, m, x : q \in Slot /\ m \in Slot /\ Resumes(q, m, x)
      BY <2>4, ContinueForm
    <3>2. m # q
      <4>1. IsRuntime(q)
        BY <3>1 DEF Resumes, IsRuntime
      <4> QED
        BY <3>1, <4>1 DEF Inv, StackShape, RuntimeShape, Resumes
    <3> QED
      BY <1>3, <3>1, <3>2 DEF Resumes
  <2>5. CASE ProbeFails \/ VisitVerifyFails \/ VisitForeignFrame
    BY <1>2, <2>5 DEF ProbeFails, VisitVerifyFails, VisitForeignFrame, BugCheck
  <2>6. CASE ProbeForObject
    <3>1. PICK q, m, x : q \in Slot /\ Steps(q, m, x) /\ x.pc = "visit"
      BY <2>6, ProbeForm
    <3>2. ~Passes(q)' /\ Obj(q) = Null
      BY <2>6, <3>1 DEF Steps, Passes, ProbeForObject, CanProbe, Obj, T
    <3> QED
      BY <2>1, <3>1, <3>2
  <2>7. CASE DestroyAtCatchFrame
    <3>1. PICK q, m, x : q \in Slot /\ Steps(q, m, x) /\ x.pc = "destroy" /\ x.ci = frame[q].ci
      BY <2>7, DestroyAtCatchFrameForm
    <3>2. ~Passes(q)'
      BY <3>1 DEF Steps, Passes
    <3> QED
      BY <2>1, <3>1, <3>2
  <2>8. CASE VisitPassing
    <3>1. PICK q, m, x : q \in Slot /\ m \in Slot /\ Steps(q, m, x) /\ x.ci = frame[q].ci
      BY <2>8, VisitPassingForm
    <3>2. PICK q1, m1 \in Slot : \E home :
            /\ Visits(q1, m1) /\ IsHome(frame[q1].ci, m1, home)
            /\ ~(home = 0 /\ Eh[frame[m1].fn].is_noexcept)
      BY <2>8, VisitPasses
    <3>3. q1 = q /\ m1 = m
      BY <3>1, <3>2 DEF Visits, Steps
    <3>4. ~Guards(m)
      <4>1. PICK home :
              /\ Visits(q, m) /\ IsHome(frame[q].ci, m, home)
              /\ ~(home = 0 /\ Eh[frame[m].fn].is_noexcept)
        BY <3>2, <3>3
      <4>2. Inv /\ Activation /\ Visits(q, m) /\ IsHome(frame[q].ci, m, home)
        BY <4>1
      <4>3. home = frame[m].block
        BY <3>1, <4>2, CandidatesEnclose, Zenon
      <4> QED
        BY <4>1, <4>3 DEF Guards
    <3> QED
      BY <2>1, <3>1, <3>4
  <2>9. CASE VisitCatching
    <3>1. PICK q, m, x, home, i : CatchingVisit(q, m, x, home, i)
      BY <2>9, VisitCatchingForm
    <3>2. /\ q \in Slot /\ m \in Slot /\ Steps(q, m, x)
          /\ x.ci.exception_object_or_link = Obj(q) /\ x.handler = i
          /\ IsHome(frame[q].ci, m, home) /\ i \in Candidates(frame[q].ci, m, home)
      BY <3>1 DEF CatchingVisit
    <3>3. Visits(q, m)
      BY <2>9, <3>1, <3>2 DEF CatchingVisit, Visits, Steps, VisitCatching, AtCodeFrame, Dispatching
    <3>4. i \in Blocks(frame[m].fn) /\ frame[m].fn \in Fns
      <4>1. i \in Enclosing(m)
        BY <3>2, <3>3, CandidatesEnclose
      <4>2. IsCode(m)
        BY <3>3 DEF Visits
      <4> QED
        BY <3>2, <4>1, <4>2, CodeFacts DEF Enclosing
    <3>5. i # 0
      BY <3>4, BlocksType
    <3>6. ~Passes(q)'
      BY <3>2, <3>5 DEF Steps, Passes
    <3> QED
      BY <2>1, <3>2, <3>6
  <2>10. CASE UnwindEdge \/ CalloutReturns
    <3>1. PICK q, m, x : q \in Slot /\ Steps(q, m, x) /\ x.ci = frame[q].ci
                         /\ x.handler = frame[q].handler
                         /\ frame[q].pc \in {"copy", "unwind", "cleanup"}
      BY <2>10, UnwindEdgeForm, CalloutReturnsForm
    <3>2. Passes(q)' => Passes(q)
      BY <3>1 DEF Steps, Passes
    <3> QED
      BY <2>1, <3>1, <3>2
  <2>11. CASE UnwindFrame
    <3>1. PICK q, m, c, x : q \in Slot /\ Unwinds(q, m, c, x) /\ x.ci = frame[q].ci
      BY <2>11, UnwindFrameForm
    <3> QED
      BY <2>2, <3>1 DEF Obj
  <2>12. CASE TakeFromCatchFrame \/ PassCatchFrame
    <3>1. PICK q, m, c, x :
            /\ q \in Slot /\ m \in Slot /\ Unwinds(q, m, c, x) /\ frame[m].kind = "catch"
            /\ TakeFromCatchFrame => x.ci = frame[m].ci
            /\ ~TakeFromCatchFrame => x.ci.exception_object_or_link = Obj(q)
      BY <2>12, CatchFrameForm
    <3>2. IsRuntime(m)
      BY <3>1 DEF IsRuntime
    <3>3. Obj(m) # Null
      BY <3>1, <3>2, ReferentKnown
    <3>4. x.ci.exception_object_or_link = Null => Obj(q) = Null
      BY <3>1, <3>3 DEF Obj
    <3> QED
      BY <2>2, <3>1, <3>4
  <2> QED
    BY <1>5, <2>3, <2>4, <2>5, <2>6, <2>7, <2>8, <2>9, <2>10, <2>11, <2>12 DEF Runtime
<1>6. CASE Halted \/ UNCHANGED vars
  BY <1>2, <1>6 DEF Halted, vars
<1> QED
  BY <1>4, <1>5, <1>6 DEF Next

LEMMA QuietStep ==
    ASSUME NEW Q, Behaves(Q), Inv, Inv', OwnInv, Activation, Quiet(Q), [Next]_vars
    PROVE  Quiet(Q)'
<1>1. /\ top \in Slot /\ top' \in Slot /\ MaxDepth \in Nat
      /\ \A k \in Slot : k > top' => frame'[k] = Free
  BY TopType DEF Inv, TypeOK, StackShape
<1>2. ASSUME NEW k \in Slot, Works(k)', k < top' PROVE WorkKept(k) /\ Works(k)
  <2>1. WorkKept(k)
    BY <1>2, WorkKeptBelow
  <2> QED
    BY <1>2, <2>1 DEF WorkKept, Works
<1>3. ASSUME NEW k \in Slot, frame'[k].kind = "throw"
      PROVE  /\ k <= top'
             /\ k # top' => TopKept(k)
             /\ k = top' => TopKept(k) \/ TopPushed(k) \/ TopGoesOn(k)
  <2>1. k <= top'
    BY <1>1, <1>3 DEF Free, Slot
  <2>2. Works(k)'
    BY <1>3 DEF Works
  <2>3. ASSUME k # top' PROVE TopKept(k)
    <3>1. WorkKept(k)
      BY <1>1, <1>2, <2>1, <2>2, <2>3 DEF Slot
    <3> QED
      BY <3>1 DEF WorkKept, TopKept
  <2> QED
    BY <1>3, <2>1, <2>3, TopChanges
<1>4. CopyGuarded'
  <2> SUFFICES ASSUME NEW k \in Slot, frame'[k].kind = "throw", frame'[k].pc = "copy", k < top'
               PROVE  Guards(k + 1)'
    BY DEF CopyGuarded
  <2>1. Works(k)'
    BY DEF Works
  <2>2. WorkKept(k) /\ frame[k].kind = "throw" /\ frame[k].pc = "copy"
    BY <1>2, <2>1 DEF WorkKept
  <2>3. CASE k = top
    <3>1. PICK f \in Fns : Call(f)
      BY <2>2, <2>3 DEF WorkKept
    <3>2. f \in CopyCalls
      BY <2>2, <2>3, <3>1 DEF Call, Running, IsCode, T
    <3>3. PICK n, x : n \in Slot /\ n = top + 1 /\ frame'[n] = x
                      /\ x.kind = "code" /\ x.fn = f /\ x.block = 0
      BY <3>1, CallForm
    <3> QED
      BY <2>3, <3>2, <3>3 DEF Guards, IsCode, Behaves
  <2>4. CASE k # top
    <3>1. PICK j \in Slot : j = k + 1 /\ j <= top' /\ j <= top /\ k < top
      BY <1>1, <2>2, <2>4 DEF WorkKept, Slot
    <3>2. Guards(j)
      BY <2>2, <3>1 DEF Quiet, CopyGuarded
    <3>3. ~(Passes(top) /\ frame[top].mach = j)
      BY <1>1, <3>2 DEF Quiet, GuardsHold
    <3>4. CodeKept(j)
      BY CodeStays
    <3>5. IsCode(j)'
      BY <1>1, <3>1, <3>2, <3>3, <3>4 DEF CodeKept, Guards, Slot
    <3>6. j # top + 1
      BY <1>1, <3>1 DEF Slot
    <3>7. SameCode(j)
      BY <3>4, <3>5, <3>6 DEF CodeKept, IsCalled, IsHandlerOf
    <3> QED
      BY <3>1, <3>2, <3>5, <3>7 DEF SameCode, Guards
  <2> QED
    BY <2>3, <2>4
<1>5. GuardsHold'
  <2> SUFFICES ASSUME NEW k \in Slot, NEW m \in Slot, Passes(k)', frame'[k].mach = m, Guards(m)'
               PROVE  FALSE
    BY DEF GuardsHold
  <2>1. frame'[k].kind = "throw" /\ frame'[k].pc \in {"copy", "unwind", "cleanup"}
    BY DEF Passes
  <2>2. m < k
    <3>1. IsRuntime(k)'
      BY <2>1 DEF IsRuntime
    <3> QED
      BY <3>1 DEF Inv, StackShape, RuntimeShape
  <2>3. ~TopPushed(k)
    BY <2>1 DEF TopPushed
  <2>4. TopKept(k) \/ TopGoesOn(k)
    BY <1>3, <2>1, <2>3
  <2>5. m # top + 1
    BY <1>1, <2>2, <2>4 DEF TopKept, TopGoesOn, Slot
  <2>6. IsCode(m)'
    BY DEF Guards
  <2>7. SameCode(m)
    BY <2>5, <2>6, CodeStays DEF CodeKept, IsCalled, IsHandlerOf
  <2>8. Guards(m)
    BY <2>7 DEF SameCode, Guards
  <2>9. CASE TopKept(k)
    <3>1. Passes(k) /\ frame[k].mach = m
      BY <2>9 DEF TopKept, Passes
    <3> QED
      BY <2>8, <3>1 DEF Quiet, GuardsHold
  <2>10. CASE TopGoesOn(k)
    BY <2>8, <2>10 DEF TopGoesOn, Quiet, GuardsHold
  <2> QED
    BY <2>4, <2>9, <2>10
<1>6. QuietAbove(Q)'
  <2> SUFFICES ASSUME NEW j \in Slot, NEW k \in Slot, Works(k)', k < j, IsCode(j)'
               PROVE  frame'[j].fn \in Q
    BY DEF QuietAbove
  <2>1. j <= top' /\ k < top'
    BY <1>1 DEF IsCode, Free, Slot
  <2>2. WorkKept(k) /\ Works(k) /\ k <= top
    BY <1>2, <2>1 DEF WorkKept
  <2>3. ~IsCode(k)
    BY <2>2 DEF Works, IsCode
  <2>4. CASE SameCode(j)
    BY <2>2, <2>4 DEF SameCode, Quiet, QuietAbove
  <2>5. CASE IsCalled(j)
    <3>1. PICK f \in Fns : Call(f) /\ frame'[j].fn = f
      BY <2>5 DEF IsCalled
    <3>2. ASSUME Running PROVE f \in Q
      <4>1. IsCode(top) /\ ~CallsOut
        BY <3>2 DEF Running, CallsOut, IsCode, IsRuntime
      <4>2. k < top
        BY <1>1, <2>2, <2>3, <4>1 DEF Slot
      <4>3. frame[top].fn \in Q
        BY <1>1, <2>2, <4>1, <4>2 DEF Quiet, QuietAbove
      <4>4. f \in Calls[frame[top].fn]
        BY <3>1, <4>1 DEF Call, T
      <4> QED
        BY <4>3, <4>4 DEF Behaves
    <3>3. ASSUME ~Running PROVE f \in Q
      BY <3>1, <3>3 DEF Call, Behaves
    <3> QED
      BY <3>1, <3>2, <3>3
  <2>6. ASSUME NEW m \in Slot, IsHandlerOf(j, m) PROVE frame'[j].fn \in Q
    <3>1. k # top
      BY <2>6 DEF IsHandlerOf, Works
    <3>2. IsRuntime(top) /\ IsCode(m) /\ m = frame[top].mach
      BY <2>6 DEF IsHandlerOf, IsRuntime
    <3>3. m < top /\ \A q \in Slot : m < q /\ q < top => frame[q] = Free
      BY <1>1, <3>2 DEF Inv, StackShape, RuntimeShape
    <3>4. k < m
      BY <1>1, <2>2, <2>3, <3>1, <3>2, <3>3 DEF Works, Free, Slot
    <3>5. frame[m].fn \in Q
      BY <2>2, <3>2, <3>4 DEF Quiet, QuietAbove
    <3> QED
      BY <2>6, <3>5 DEF IsHandlerOf
  <2> QED
    BY <2>4, <2>5, <2>6, CodeStays DEF CodeKept
<1>7. SearchesAlone'
  <2> SUFFICES ASSUME NEW j \in Slot, NEW k \in Slot, frame'[k].kind = "throw", Obj(k)' = Null,
                      j < k, Works(j)'
               PROVE  FALSE
    BY DEF SearchesAlone
  <2>1. k <= top' /\ j < top'
    BY <1>1, <1>3 DEF Slot
  <2>2. WorkKept(j) /\ Works(j) /\ j <= top
    BY <1>2, <2>1 DEF WorkKept
  <2>3. TopKept(k) \/ TopPushed(k) \/ TopGoesOn(k)
    BY <1>3
  <2>4. CASE TopKept(k)
    <3>1. frame[k].kind = "throw" /\ Obj(k) = Null
      BY <2>4 DEF TopKept, Obj
    <3> QED
      BY <2>2, <3>1 DEF Quiet, SearchesAlone
  <2>5. CASE TopPushed(k)
    <3>1. IsCode(top) /\ frame[top].fn \in Rethrows
      BY <2>5 DEF TopPushed
    <3>2. j < top
      BY <1>1, <2>2, <3>1 DEF Works, IsCode, Slot
    <3>3. frame[top].fn \in Q
      BY <1>1, <2>2, <3>1, <3>2 DEF Quiet, QuietAbove
    <3> QED
      BY <3>1, <3>3 DEF Behaves
  <2>6. CASE TopGoesOn(k)
    BY <2>2, <2>6 DEF TopGoesOn, Quiet, SearchesAlone
  <2> QED
    BY <2>3, <2>4, <2>5, <2>6
<1> QED
  BY <1>4, <1>5, <1>6, <1>7 DEF Quiet

\* The runtime halts the machine only for a documented reason if callouts behave:
\* an exception never gets out of a noexcept copy constructor, whatever that
\* calls, catches and throws, so it never meets the dispatcher's own frame; and a
\* `throw;` outside callouts always finds its handler.
THEOREM HaltsAsDocumented ==
    ASSUME NEW Q, Behaves(Q)
    PROVE  Spec => BugCheckIsJustified
<1> DEFINE Justified ==
        halted' /\ ~halted => T.mach = 0 \/ LeavesDestructor \/ LeavesNoexcept \/ RethrowsNothing
<1>1. Init => Quiet(Q)
  <2> SUFFICES ASSUME Init PROVE Quiet(Q)
    OBVIOUS
  <2>1. \A k \in Slot : ~Works(k) /\ frame[k].kind # "throw"
    BY DEF Init, Works, Free, Slot
  <2> QED
    BY <2>1 DEF Quiet, CopyGuarded, GuardsHold, QuietAbove, SearchesAlone, Passes
<1>2. Inv /\ Inv' /\ OwnInv /\ Activation /\ Quiet(Q) /\ [Next]_vars => Quiet(Q)'
  BY QuietStep
<1>3. ASSUME Inv, OwnInv, Activation, CalledOut, Quiet(Q), [Next]_vars, halted', ~halted
      PROVE  Justified
  <2>1. HaltReason
    BY <1>3, HaltHasReason
  <2>2. Dispatching("visit")
    BY <1>3, HaltStep DEF ProbeFails, VisitVerifyFails, VisitForeignFrame, AtCodeFrame
  <2>3. PICK p \in Slot : p = top /\ T = frame[p] /\ IsRuntime(p) /\ frame[p].kind = "throw"
    BY <1>3, <2>2, DispatchingType
  <2>4. PICK m : m = frame[p].mach /\ m \in 0..MaxDepth /\ m < p
                 /\ \A q \in Slot : m < q /\ q < p => frame[q] = Free
    BY <1>3, <2>3, RuntimeRefers
  <2>5. ~LeavesCopyConstructor
    <3> SUFFICES ASSUME LeavesCopyConstructor PROVE FALSE
      OBVIOUS
    <3>1. m \in Slot /\ frame[m].kind = "throw" /\ frame[m].pc = "copy"
      BY <2>3, <2>4 DEF LeavesCopyConstructor, Slot
    <3>2. PICK c \in Slot : c = m + 1 /\ c <= p
      <4>1. p \in Nat /\ p >= 1 /\ p <= MaxDepth /\ m \in Nat /\ m >= 1 /\ m < p
        BY <2>4, <3>1, ProgramAssumption DEF Slot
      <4>2. m + 1 \in Slot /\ m + 1 <= p
        BY <4>1, ProgramAssumption DEF Slot
      <4> QED
        BY <4>2
    <3>3. IsCode(c)
      BY <1>3, <2>3, <2>4, <3>1, <3>2 DEF Quiet, CopyGuarded, Guards
    <3>4. c = p
      BY <2>4, <3>2, <3>3 DEF IsCode, Free, Slot
    <3> QED
      BY <2>3, <3>3, <3>4 DEF IsCode
  <2>6. ~RethrowsPastRuntime
    <3> SUFFICES ASSUME RethrowsPastRuntime PROVE FALSE
      OBVIOUS
    <3>1. PICK q \in Slot : q \in 1..m /\ IsRuntime(q) /\ frame[q].kind # "catch"
      BY <2>3, <2>4 DEF RethrowsPastRuntime, IsInnermostRuntime
    <3>2. Works(q) /\ q < p
      BY <2>4, <3>1 DEF Works, IsRuntime, Slot
    <3>3. Obj(p) = Null
      BY <2>3 DEF RethrowsPastRuntime, Obj
    <3> QED
      BY <1>3, <2>3, <3>2, <3>3 DEF Quiet, SearchesAlone
  <2> QED
    BY <2>1, <2>5, <2>6 DEF HaltReason
<1>4. Inv /\ OwnInv /\ Activation /\ CalledOut /\ Quiet(Q) /\ [Next]_vars => [Justified]_vars
  BY <1>3
<1>5. Spec => []Quiet(Q)
  BY <1>1, <1>2, WalksHold, PTL DEF Spec
<1> QED
  BY <1>4, <1>5, WalksHold, CalledOutHolds, PTL DEF Spec, BugCheckIsJustified

----------------------------------------------------------------------------
(* The activities, slot by slot.                                           *)

\* What holds of 0 and goes up step by step holds up to n.
LEMMA Ascend ==
    ASSUME NEW n \in Nat, NEW G, 0 \in G, \A k \in 1..n : k - 1 \in G => k \in G
    PROVE  0..n \subseteq G
<1> DEFINE missing == {k \in 0..n : k \notin G}
<1>1. missing = {}
  <2> SUFFICES ASSUME missing # {} PROVE FALSE
    OBVIOUS
  <2>1. missing \in SUBSET Nat
    OBVIOUS
  <2>2. PICK k \in missing : \A i \in missing : k <= i
    <3> HIDE DEF missing
    <3> QED
      BY <2>1, Least
  <2>3. k \in 0..n /\ k # 0 /\ k - 1 \notin G
    BY <2>2
  <2>4. k - 1 \in missing /\ ~(k <= k - 1)
    BY <2>3
  <2> HIDE DEF missing
  <2> QED
    BY <2>2, <2>4
<1> QED
  BY <1>1

\* A slot without a runtime frame.
Idle == [role |-> "idle", about |-> 0]

\* a[k] is the sequence of those of c[1], ..., c[k] that are not idle.
Builds(a, c) ==
    /\ a[0] = <<>>
    /\ \A k \in Slot : a[k] = IF c[k] = Idle THEN a[k - 1] ELSE Append(a[k - 1], c[k])

SlotActivity == Lifetime!Activity \cup {Idle}

LEMMA SlotIs == MaxDepth \in Nat /\ \A k : k \in Slot <=> k \in 1..MaxDepth
BY ProgramAssumption DEF Slot

LEMMA ActivityType ==
    /\ Idle \notin Lifetime!Activity
    /\ Lifetime!Activity = [role : {"flying", "handling", "leaving"}, about : 0..MaxDepth]
<1>1. Slot \cup {0} = 0..MaxDepth
  BY SlotIs
<1>2. Lifetime!Activity = [role : {"flying", "handling", "leaving"}, about : 0..MaxDepth]
  BY <1>1 DEF Lifetime!Activity
<1>3. Idle.role = "idle"
  BY DEF Idle
<1> QED
  BY <1>2, <1>3

\* What is built up to slot n depends on the slots up to n only.
LEMMA BuiltSame ==
    ASSUME NEW a, NEW b, NEW c, NEW d, Builds(a, c), Builds(b, d), NEW n \in 0..MaxDepth,
           \A j \in Slot : j <= n => c[j] = d[j]
    PROVE  a[n] = b[n]
<1> DEFINE G == {k \in Nat : a[k] = b[k]}
<1>1. 0 \in G
  BY DEF Builds
<1>2. ASSUME NEW k \in 1..n, k - 1 \in G PROVE k \in G
  BY <1>2, SlotIs DEF Builds
<1>3. n \in Nat
  BY SlotIs
<1>4. 0..n \subseteq G
  <2> HIDE DEF G
  <2> QED
    BY <1>1, <1>2, <1>3, Ascend
<1> QED
  BY <1>3, <1>4

\* Idle slots add nothing.
LEMMA BuiltSkips ==
    ASSUME NEW a, NEW c, Builds(a, c), NEW n \in 0..MaxDepth, NEW m \in 0..n,
           \A j \in Slot : m < j /\ j <= n => c[j] = Idle
    PROVE  a[n] = a[m]
<1> DEFINE G == {k \in Nat : k >= m => a[k] = a[m]}
<1>0. n \in Nat /\ m \in Nat
  BY SlotIs
<1>1. 0 \in G
  BY <1>0
<1>2. ASSUME NEW k \in 1..n, k - 1 \in G PROVE k \in G
  <2>1. k \in Slot /\ k \in Nat /\ k <= n
    BY SlotIs
  <2>2. CASE k <= m
    BY <1>0, <2>1, <2>2
  <2>3. CASE k > m
    <3>1. a[k] = a[k - 1]
      BY <2>1, <2>3 DEF Builds
    <3>2. k - 1 >= m
      BY <1>0, <2>1, <2>3
    <3> QED
      BY <1>2, <2>1, <3>1, <3>2
  <2> QED
    BY <1>0, <2>1, <2>2, <2>3
<1>3. 0..n \subseteq G
  <2> HIDE DEF G
  <2> QED
    BY <1>0, <1>1, <1>2, Ascend
<1> QED
  BY <1>0, <1>3

\* The newest activity is the last.
LEMMA BuiltLast ==
    ASSUME NEW a, NEW c, Builds(a, c), NEW p \in Slot, c[p] # Idle,
           \A j \in Slot : j > p => c[j] = Idle
    PROVE  a[MaxDepth] = Append(a[p - 1], c[p])
<1>1. MaxDepth \in 0..MaxDepth /\ p \in 0..MaxDepth
  BY SlotIs
<1>2. a[MaxDepth] = a[p]
  BY <1>1, BuiltSkips
<1> QED
  BY <1>2 DEF Builds

\* What the activities of the slots up to n are about.
BusyAbout(c, n) == {c[j].about : j \in {i \in Slot : i <= n /\ c[i] # Idle}}

LEMMA BuiltType ==
    ASSUME NEW a, NEW c, Builds(a, c), \A j \in Slot : c[j] \in SlotActivity, NEW n \in 0..MaxDepth
    PROVE  /\ a[n] \in Seq(Lifetime!Activity)
           /\ Lifetime!Referred(a[n]) = BusyAbout(c, n)
<1> DEFINE G == {k \in Nat : a[k] \in Seq(Lifetime!Activity) /\ Lifetime!Referred(a[k]) = BusyAbout(c, k)}
<1>0. n \in Nat
  BY SlotIs
<1>1. 0 \in G
  <2>1. a[0] = <<>>
    BY DEF Builds
  <2>2. {i \in Slot : i <= 0 /\ c[i] # Idle} = {}
    BY SlotIs
  <2>3. BusyAbout(c, 0) = {}
    BY <2>2 DEF BusyAbout
  <2>4. Lifetime!Referred(a[0]) = {}
    BY <2>1 DEF Lifetime!Referred
  <2>5. a[0] \in Seq(Lifetime!Activity)
    BY <2>1
  <2> QED
    BY <2>3, <2>4, <2>5
<1>2. ASSUME NEW k \in 1..n, k - 1 \in G PROVE k \in G
  <2>1. k \in Slot /\ k \in Nat
    BY SlotIs
  <2>2. PICK s : s = a[k - 1] /\ s \in Seq(Lifetime!Activity) /\ Lifetime!Referred(s) = BusyAbout(c, k - 1)
    BY <1>2
  <2>3. \A i \in Slot : i <= k <=> i <= k - 1 \/ i = k
    BY <2>1, SlotIs
  <2>4. CASE c[k] = Idle
    <3>1. a[k] = s
      BY <2>1, <2>2, <2>4 DEF Builds
    <3>2. BusyAbout(c, k) = BusyAbout(c, k - 1)
      BY <2>3, <2>4 DEF BusyAbout
    <3> QED
      BY <2>1, <2>2, <3>1, <3>2
  <2>5. CASE c[k] # Idle
    <3>1. PICK e : e = c[k] /\ e \in Lifetime!Activity
      BY <2>1, <2>5 DEF SlotActivity
    <3>2. a[k] = Append(s, e)
      BY <2>1, <2>2, <2>5, <3>1 DEF Builds
    <3>3. BusyAbout(c, k) = BusyAbout(c, k - 1) \cup {e.about}
      BY <2>1, <2>3, <2>5, <3>1 DEF BusyAbout
    <3>4. Append(s, e) \in Seq(Lifetime!Activity)
      BY <2>2, <3>1
    <3>5. Lifetime!Referred(Append(s, e)) = Lifetime!Referred(s) \cup {e.about}
      <4> HIDE DEF G
      <4>1. Len(Append(s, e)) = Len(s) + 1 /\ Len(s) \in Nat
        BY <2>2, <3>1
      <4>2. \A i \in 1..Len(s) : Append(s, e)[i] = s[i]
        BY <2>2, <3>1
      <4>3. Append(s, e)[Len(s) + 1] = e
        BY <2>2, <3>1
      <4>4. \A i : i \in 1..Len(s) + 1 <=> i \in 1..Len(s) \/ i = Len(s) + 1
        BY <4>1
      <4> QED
        BY <4>1, <4>2, <4>3, <4>4 DEF Lifetime!Referred
    <3> QED
      BY <2>1, <2>2, <3>2, <3>3, <3>4, <3>5
  <2> QED
    BY <2>4, <2>5
<1>3. 0..n \subseteq G
  <2> HIDE DEF G
  <2> QED
    BY <1>0, <1>1, <1>2, Ascend
<1> QED
  BY <1>0, <1>3

\* From a to b, slot n becomes busy, above all others.
Pushes(a, b, c, d, n) ==
    /\ Builds(a, c) /\ Builds(b, d) /\ n \in Slot /\ d[n] # Idle
    /\ \A j \in Slot : j < n => d[j] = c[j]
    /\ \A j \in Slot : j >= n => c[j] = Idle
    /\ \A j \in Slot : j > n => d[j] = Idle

\* The newest activity is a new one.
LEMMA BuiltPush ==
    ASSUME NEW a, NEW b, NEW c, NEW d, NEW n, Pushes(a, b, c, d, n)
    PROVE  b[MaxDepth] = Append(a[MaxDepth], d[n])
<1> USE DEF Pushes
<1>1. /\ n - 1 \in 0..MaxDepth /\ MaxDepth \in 0..MaxDepth /\ n - 1 \in 0..MaxDepth
      /\ \A j \in Slot : (j <= n - 1 => j < n) /\ (n - 1 < j => j >= n)
  BY SlotIs
<1>2. b[MaxDepth] = Append(b[n - 1], d[n])
  BY BuiltLast
<1>3. b[n - 1] = a[n - 1]
  BY <1>1, BuiltSame
<1>4. a[MaxDepth] = a[n - 1]
  BY <1>1, BuiltSkips
<1> QED
  BY <1>2, <1>3, <1>4

\* From a to b, only slot p, the last busy one, changes.
Changes(a, b, c, d, p) ==
    /\ Builds(a, c) /\ Builds(b, d) /\ p \in Slot /\ c[p] # Idle
    /\ \A j \in Slot : c[j] \in SlotActivity
    /\ \A j \in Slot : j < p => d[j] = c[j]
    /\ \A j \in Slot : j > p => c[j] = Idle /\ d[j] = Idle

\* The newest activity changes, or ends.
LEMMA BuiltChange ==
    ASSUME NEW a, NEW b, NEW c, NEW d, NEW p, Changes(a, b, c, d, p)
    PROVE  \E s \in Seq(Lifetime!Activity) :
                /\ a[MaxDepth] = Append(s, c[p])
                /\ b[MaxDepth] = IF d[p] = Idle THEN s ELSE Append(s, d[p])
<1> USE DEF Changes
<1>1. /\ p - 1 \in 0..MaxDepth /\ MaxDepth \in 0..MaxDepth
      /\ \A j \in Slot : (j <= p - 1 => j < p) /\ (p - 1 < j => j = p \/ j > p)
  BY SlotIs
<1>2. PICK s : s = a[p - 1] /\ s \in Seq(Lifetime!Activity)
  BY <1>1, BuiltType
<1>3. a[MaxDepth] = Append(s, c[p])
  BY <1>2, BuiltLast
<1>4. b[p - 1] = s
  BY <1>1, <1>2, BuiltSame
<1>5. CASE d[p] = Idle
  <2>1. \A j \in Slot : p - 1 < j /\ j <= MaxDepth => d[j] = Idle
    BY <1>1, <1>5
  <2>2. b[MaxDepth] = s
    BY <1>1, <1>4, <2>1, BuiltSkips
  <2> QED
    BY <1>2, <1>3, <1>5, <2>2
<1>6. CASE d[p] # Idle
  <2>1. b[MaxDepth] = Append(s, d[p])
    BY <1>4, <1>6, BuiltLast
  <2> QED
    BY <1>2, <1>3, <1>6, <2>1
<1> QED
  BY <1>5, <1>6

\* From a to b, slot m, the last busy one but for slot p, becomes idle.
Abandons(a, b, c, d, m, p) ==
    /\ Builds(a, c) /\ Builds(b, d) /\ m \in Slot /\ p \in Slot /\ m < p
    /\ c[m] # Idle /\ c[p] # Idle /\ d[m] = Idle /\ d[p] = c[p]
    /\ \A j \in Slot : c[j] \in SlotActivity
    /\ \A j \in Slot : j < m => d[j] = c[j]
    /\ \A j \in Slot : j > m /\ j # p => c[j] = Idle /\ d[j] = Idle

\* The newest activity stays, the one before it ends.
LEMMA BuiltAbandon ==
    ASSUME NEW a, NEW b, NEW c, NEW d, NEW m, NEW p, Abandons(a, b, c, d, m, p)
    PROVE  \E s \in Seq(Lifetime!Activity) :
                /\ a[MaxDepth] = Append(Append(s, c[m]), c[p])
                /\ b[MaxDepth] = Append(s, c[p])
<1> USE DEF Abandons
<1>1. /\ p - 1 \in 0..MaxDepth /\ m - 1 \in 0..MaxDepth /\ m \in 0..p - 1 /\ m - 1 \in 0..p - 1
      /\ \A j \in Slot : (j <= m - 1 => j < m) /\ (j > p => j > m /\ j # p)
      /\ \A j \in Slot : (m < j /\ j <= p - 1 => j > m /\ j # p)
      /\ \A j \in Slot : (m - 1 < j /\ j <= p - 1 => j = m \/ (j > m /\ j # p))
  BY SlotIs
<1>2. PICK s : s = a[m - 1] /\ s \in Seq(Lifetime!Activity)
  BY <1>1, BuiltType
<1>3. a[MaxDepth] = Append(a[p - 1], c[p]) /\ b[MaxDepth] = Append(b[p - 1], c[p])
  <2>1. \A j \in Slot : j > p => c[j] = Idle /\ d[j] = Idle
    BY <1>1
  <2>2. d[p] # Idle
    OBVIOUS
  <2>3. b[MaxDepth] = Append(b[p - 1], d[p])
    BY <2>1, <2>2, BuiltLast
  <2> QED
    BY <2>1, <2>3, BuiltLast
<1>4. a[p - 1] = a[m]
  BY <1>1, BuiltSkips
<1>5. a[m] = Append(s, c[m])
  BY <1>2 DEF Builds
<1>6. b[p - 1] = b[m - 1]
  <2>1. \A j \in Slot : m - 1 < j /\ j <= p - 1 => d[j] = Idle
    BY <1>1
  <2> QED
    BY <1>1, <2>1, BuiltSkips
<1>7. b[m - 1] = s
  BY <1>1, <1>2, BuiltSame
<1> QED
  BY <1>2, <1>3, <1>4, <1>5, <1>6, <1>7

LEMMA SeqLast ==
    ASSUME NEW S, NEW s \in Seq(S), NEW e \in S
    PROVE  /\ Append(s, e) \in Seq(S) /\ Append(s, e) # <<>>
           /\ Len(s) \in Nat /\ Len(Append(s, e)) = Len(s) + 1 /\ Append(s, e)[Len(s) + 1] = e
           /\ SubSeq(Append(s, e), 1, Len(s)) = s
           /\ \A i \in 1..Len(s) : Append(s, e)[i] = s[i]
<1>1. /\ Append(s, e) \in Seq(S) /\ Len(s) \in Nat /\ Len(Append(s, e)) = Len(s) + 1
      /\ Append(s, e)[Len(s) + 1] = e
      /\ \A i \in 1..Len(s) : Append(s, e)[i] = s[i]
  OBVIOUS
<1>2. Append(s, e) # <<>>
  BY <1>1
<1>3. SubSeq(Append(s, e), 1, Len(s)) = s
  OBVIOUS
<1> QED
  BY <1>1, <1>2, <1>3

----------------------------------------------------------------------------
(* The activities of a state.                                              *)

Acts == [k \in Slot |-> IF IsRuntime(k) THEN ActivityOf(k) ELSE Idle]

LEMMA RoleOf ==
    ASSUME NEW k, IsRuntime(k)
    PROVE  /\ ActivityOf(k).role \in {"flying", "handling", "leaving"}
           /\ frame[k].kind = "throw" => ActivityOf(k).role = "flying"
           /\ frame[k].kind = "catch" => ActivityOf(k).role = "handling"
           /\ frame[k].kind = "destroy" => ActivityOf(k).role = "leaving"
           /\ ActivityOf(k) = [role |-> ActivityOf(k).role, about |-> Referent[k]]
           /\ ActivityOf(k) # Idle
<1>1. PICK w : w = frame[k].kind /\ w \in {"throw", "catch", "destroy"}
  BY DEF IsRuntime
<1>2. PICK r : r = [throw |-> "flying", catch |-> "handling", destroy |-> "leaving"][w]
  OBVIOUS
<1>3. /\ r \in {"flying", "handling", "leaving"}
      /\ w = "throw" => r = "flying"
      /\ w = "catch" => r = "handling"
      /\ w = "destroy" => r = "leaving"
  BY <1>1, <1>2
<1>4. ActivityOf(k) = [role |-> r, about |-> Referent[k]]
  BY <1>1, <1>2 DEF ActivityOf
<1> QED
  BY <1>1, <1>3, <1>4 DEF Idle

\* The recursion over the slots is well-founded.
LEMMA ActivitiesBuilt == Builds(ActivitiesUpTo, Acts)
<1> DEFINE Next1(r, k) == IF Acts[k] = Idle THEN r[k - 1] ELSE Append(r[k - 1], Acts[k])
           Solves(r, n) == r[0] = <<>> /\ \A j \in 1..n : r[j] = Next1(r, j)
           G == {n \in Nat : \E r : Solves(r, n)}
<1>0. MaxDepth \in Nat /\ \A k : k \in Slot <=> k \in 1..MaxDepth
  BY SlotIs
<1>1. 0 \in G
  <2>1. Solves([j \in {0} |-> <<>>], 0)
    OBVIOUS
  <2> QED
    BY <2>1
<1>2. ASSUME NEW n \in 1..MaxDepth, n - 1 \in G PROVE n \in G
  <2>1. PICK r : Solves(r, n - 1)
    BY <1>2
  <2> DEFINE s == [j \in 0..n |-> IF j = n THEN Next1(r, n) ELSE r[j]]
  <2>2. \A j \in 0..n - 1 : s[j] = r[j]
    OBVIOUS
  <2>3. s[n] = Next1(r, n)
    OBVIOUS
  <2> HIDE DEF s
  <2>4. ASSUME NEW j \in 1..n PROVE s[j] = Next1(s, j)
    <3>1. j - 1 \in 0..n - 1 /\ s[j - 1] = r[j - 1]
      BY <2>2
    <3>2. CASE j = n
      BY <2>3, <3>1, <3>2
    <3>3. CASE j # n
      <4>1. j \in 1..n - 1 /\ j \in 0..n - 1
        BY <3>3
      <4> QED
        BY <2>1, <2>2, <3>1, <4>1
    <3> QED
      BY <3>2, <3>3
  <2>5. s[0] = <<>>
    BY <2>1, <2>2
  <2> QED
    BY <2>4, <2>5
<1>3. 0..MaxDepth \subseteq G
  <2> HIDE DEF G
  <2> QED
    BY <1>0, <1>1, <1>2, Ascend
<1>4. PICK r : Solves(r, MaxDepth)
  BY <1>0, <1>3
<1> DEFINE s == [j \in 0..MaxDepth |-> r[j]]
<1>5. \A j \in 0..MaxDepth : s[j] = r[j]
  OBVIOUS
<1> HIDE DEF s
<1>6. s[0] = <<>> /\ \A j \in 1..MaxDepth : s[j] = Next1(s, j)
  <2>1. \A j \in 1..MaxDepth : j - 1 \in 0..MaxDepth /\ j \in 0..MaxDepth /\ 0 \in 0..MaxDepth
    BY <1>0
  <2> QED
    BY <1>0, <1>4, <1>5, <2>1
<1>7. \A j \in Slot : Acts[j] = IF IsRuntime(j) THEN ActivityOf(j) ELSE Idle
  BY DEF Acts
<1>8. \A j \in Slot : Acts[j] = Idle <=> ~IsRuntime(j)
  BY <1>7, RoleOf
<1> DEFINE Rec(g, k) == IF k = 0 THEN <<>>
                        ELSE IF IsRuntime(k) THEN Append(g[k - 1], ActivityOf(k))
                        ELSE g[k - 1]
<1>9. \A j \in 0..MaxDepth : s[j] = Rec(s, j)
  <2>1. \A j \in 0..MaxDepth : j = 0 \/ j \in 1..MaxDepth
    BY <1>0
  <2> QED
    BY <1>0, <1>6, <1>7, <1>8, <2>1
<1>10. s = [j \in 0..MaxDepth |-> Rec(s, j)]
  BY <1>9 DEF s
<1>11. ActivitiesUpTo = [j \in 0..MaxDepth |-> Rec(ActivitiesUpTo, j)]
  BY <1>10 DEF ActivitiesUpTo
<1>12. \A j \in Slot : j \in 0..MaxDepth /\ j # 0 /\ 0 \in 0..MaxDepth
  BY <1>0
<1>13. ActivitiesUpTo[0] = <<>>
  BY <1>0, <1>11
<1>14. ASSUME NEW j \in Slot
       PROVE  ActivitiesUpTo[j] = IF Acts[j] = Idle THEN ActivitiesUpTo[j - 1]
                                  ELSE Append(ActivitiesUpTo[j - 1], Acts[j])
  <2>1. ActivitiesUpTo[j] = Rec(ActivitiesUpTo, j)
    BY <1>11, <1>12
  <2> QED
    BY <1>7, <1>8, <1>12, <2>1
<1> QED
  BY <1>13, <1>14 DEF Builds

\* What a runtime frame is about is alive.
LEMMA ReferentLive ==
    ASSUME Inv, OwnInv, NEW k \in Slot, IsRuntime(k)
    PROVE  /\ Referent[k] \in 0..MaxDepth
           /\ Referent[k] # 0 => Referent[k] \in Slot /\ exc[Referent[k]] # NoInfo
<1>1. CASE Obj(k) # Null
  BY <1>1, ReferentKnown, SlotIs
<1>2. CASE Obj(k) = Null
  <2>1. PICK p : p = InnermostRuntime(frame[k].mach)
    OBVIOUS
  <2>2. Referent[k] = IF p # 0 /\ frame[p].kind = "catch" THEN Referent[p] ELSE 0
    BY <1>2, <2>1, ReferentOf
  <2>3. frame[k].mach \in 0..MaxDepth
    BY RuntimeRefers
  <2>4. ASSUME p # 0, frame[p].kind = "catch"
        PROVE  Referent[p] \in Slot /\ exc[Referent[p]] # NoInfo
    <3>1. p \in Slot /\ IsRuntime(p)
      BY <2>1, <2>3, <2>4, InnermostIs
    <3> QED
      BY <2>4, <3>1, ReferentKnown
  <2> QED
    BY <2>2, <2>4, SlotIs
<1> QED
  BY <1>1, <1>2

LEMMA ActsType ==
    ASSUME Inv, OwnInv, NEW k \in Slot
    PROVE  /\ Acts[k] \in SlotActivity
           /\ Acts[k] = Idle <=> ~IsRuntime(k)
           /\ IsRuntime(k) => Acts[k] = ActivityOf(k) /\ Acts[k].about = Referent[k]
<1>1. Acts[k] = IF IsRuntime(k) THEN ActivityOf(k) ELSE Idle
  BY DEF Acts
<1>2. CASE IsRuntime(k)
  <2>1. PICK e, r, t : e = ActivityOf(k) /\ r = e.role /\ t = Referent[k]
    OBVIOUS
  <2>2. e = [role |-> r, about |-> t] /\ r \in {"flying", "handling", "leaving"} /\ e # Idle
    BY <1>2, <2>1, RoleOf
  <2>3. t \in 0..MaxDepth
    BY <1>2, <2>1, ReferentLive
  <2>4. e \in Lifetime!Activity
    BY <2>2, <2>3, ActivityType
  <2> QED
    BY <1>1, <1>2, <2>1, <2>2, <2>4 DEF SlotActivity
<1>3. CASE ~IsRuntime(k)
  BY <1>1, <1>3 DEF SlotActivity
<1> QED
  BY <1>2, <1>3

Alive == {t \in Slot : exc[t] # NoInfo}

\* Exactly the exceptions some runtime frame is about are alive.
LEMMA AliveIsReferred == Inv /\ OwnInv => Lifetime!AliveIffReferred
<1> SUFFICES ASSUME Inv, OwnInv PROVE Alive = Lifetime!Referred(Activities) \ {0}
  BY DEF Lifetime!AliveIffReferred, Alive
<1>1. MaxDepth \in 0..MaxDepth /\ \A k \in Slot : k <= MaxDepth
  BY SlotIs
<1>2. Lifetime!Referred(Activities) = BusyAbout(Acts, MaxDepth)
  <2>1. PICK a, c : a = ActivitiesUpTo /\ c = Acts
    OBVIOUS
  <2>2. Builds(a, c) /\ \A j \in Slot : c[j] \in SlotActivity
    BY <2>1, ActivitiesBuilt, ActsType
  <2> QED
    BY <1>1, <2>1, <2>2, BuiltType DEF Activities
<1>3. \A t : t \in BusyAbout(Acts, MaxDepth) <=> \E k \in Slot : IsRuntime(k) /\ t = Referent[k]
  BY <1>1, ActsType DEF BusyAbout
<1>4. ASSUME NEW t \in Alive PROVE t # 0 /\ \E k \in Slot : IsRuntime(k) /\ t = Referent[k]
  <2>1. PICK k \in Slot : Owns(k) /\ Obj(k) = Object(t)
    BY <1>4 DEF Alive, OwnInv
  <2>2. IsRuntime(k) /\ Obj(k).slot = t
    BY <2>1 DEF Owns, Object
  <2>3. Referent[k] = t
    BY <2>1, <2>2, ReferentOf
  <2> QED
    BY <1>4, <2>2, <2>3, SlotIs DEF Alive
<1>5. ASSUME NEW k \in Slot, IsRuntime(k), Referent[k] # 0 PROVE Referent[k] \in Alive
  BY <1>5, ReferentLive DEF Alive
<1> QED
  BY <1>2, <1>3, <1>4, <1>5

\* No exception object leaks, and none is used after it was destroyed: one is
\* alive exactly while some flight or handler is about it, through any nesting
\* of handlers, rethrows, and exceptions thrown inside destructors.
THEOREM ExceptionsLiveWhileReferred == Spec => []AliveIffReferred
<1>1. Inv /\ OwnInv => AliveIffReferred
  BY AliveIsReferred DEF AliveIffReferred
<1> QED
  BY <1>1, WalksHold, PTL

----------------------------------------------------------------------------
(* The runtime implements ExceptionLifetime.                               *)

\* Frame k owns the exception in slot t, or is one link away from its owner.
Direct(k, t) ==
    \/ Owns(k) /\ Obj(k) = Object(t)
    \/ /\ ~Owns(k) /\ Obj(k).to = "link"
       /\ \E o \in Slot : o = Obj(k).slot /\ Owns(o) /\ Obj(o) = Object(t)

InnermostAt(m, q) ==
    /\ q \in 0..m
    /\ \A r \in q + 1 .. m : ~IsRuntime(r)
    /\ q # 0 => q \in Slot /\ IsRuntime(q)

Role(kind) == IF kind = "throw" THEN "flying" ELSE IF kind = "catch" THEN "handling" ELSE "leaving"

\* What is proved above of the exceptions that the frames are about, as a
\* formula about one state.
View ==
    /\ \A k \in Slot : \A t : IsRuntime(k) /\ Direct(k, t) => Referent[k] = t /\ t \in Slot
    /\ \A k \in Slot : IsRuntime(k) /\ Obj(k) # Null => \E t \in Slot : Direct(k, t)
    /\ \A k \in Slot, m \in 0..MaxDepth : \A q :
        IsRuntime(k) /\ Obj(k) = Null /\ frame[k].mach = m /\ InnermostAt(m, q)
            => Referent[k] = IF q # 0 /\ frame[q].kind = "catch" THEN Referent[q] ELSE 0
    /\ \A k \in Slot : frame[k].kind \in {"catch", "destroy"} => Obj(k) # Null
    /\ Builds(ActivitiesUpTo, Acts)
    /\ \A k \in Slot : Acts[k] \in SlotActivity
    /\ \A k \in Slot : ~IsRuntime(k) => Acts[k] = Idle
    /\ \A k \in Slot : \A w : IsRuntime(k) /\ frame[k].kind = w
        => Acts[k] = [role |-> Role(w), about |-> Referent[k]] /\ Acts[k] # Idle
    /\ Alive = Lifetime!Referred(Activities) \ {0}
    /\ \A k \in Slot : k > top => ~IsRuntime(k)

LEMMA OneInnermost ==
    ASSUME Inv, NEW m \in 0..MaxDepth, NEW q, InnermostAt(m, q)
    PROVE  q = InnermostRuntime(m)
<1>1. PICK p : p = InnermostRuntime(m)
  OBVIOUS
<1>2. InnermostAt(m, p)
  BY <1>1, InnermostIs DEF InnermostAt
<1>3. p \in Nat /\ q \in Nat /\ p <= m /\ q <= m /\ m \in Nat
  BY <1>2, SlotIs DEF InnermostAt
<1>4. p < q => q \in p + 1 .. m /\ q # 0
  BY <1>3
<1>5. q < p => p \in q + 1 .. m /\ p # 0
  BY <1>3
<1>6. ~(p < q)
  BY <1>2, <1>4 DEF InnermostAt
<1>7. ~(q < p)
  BY <1>2, <1>5 DEF InnermostAt
<1> QED
  BY <1>1, <1>3, <1>6, <1>7

LEMMA ViewHolds == Inv /\ OwnInv => View
<1> SUFFICES ASSUME Inv, OwnInv PROVE View
  OBVIOUS
<1>1. ASSUME NEW k \in Slot, NEW t, IsRuntime(k), Direct(k, t) PROVE Referent[k] = t /\ t \in Slot
  <2>1. CASE Owns(k)
    <3>1. Obj(k) = Object(t)
      BY <1>1, <2>1 DEF Direct
    <3>2. Obj(k).slot = t
      BY <3>1 DEF Object
    <3> QED
      BY <1>1, <2>1, <3>2, ReferentOf
  <2>2. CASE ~Owns(k)
    <3>1. PICK o \in Slot : o = Obj(k).slot /\ Owns(o) /\ Obj(o) = Object(t) /\ Obj(k).to = "link"
      BY <1>1, <2>2 DEF Direct
    <3>2. Obj(o).slot = t /\ IsRuntime(o)
      BY <3>1 DEF Object, Owns
    <3>3. Referent[o] = t /\ t \in Slot
      BY <3>1, <3>2, ReferentOf
    <3> QED
      BY <1>1, <2>2, <3>1, <3>3, ReferentOf
  <2> QED
    BY <2>1, <2>2
<1>2. ASSUME NEW k \in Slot, IsRuntime(k), Obj(k) # Null PROVE \E t \in Slot : Direct(k, t)
  <2>0. \A j \in Slot : Owns(j) => Obj(j) = Object(Obj(j).slot) /\ Obj(j).slot \in Slot
    BY DEF OwnInv, OwnerShape
  <2>1. CASE Owns(k)
    BY <2>0, <2>1 DEF Direct
  <2>2. CASE ~Owns(k)
    <3>1. Obj(k).to = "link" /\ Obj(k).slot \in Slot /\ Owns(Obj(k).slot)
      BY <1>2, <2>2, RuntimeRefers
    <3>2. PICK o \in Slot : o = Obj(k).slot /\ Owns(o)
      BY <3>1
    <3> QED
      BY <2>0, <2>2, <3>1, <3>2 DEF Direct
  <2> QED
    BY <2>1, <2>2
<1>3. ASSUME NEW k \in Slot, NEW m \in 0..MaxDepth, NEW q, IsRuntime(k), Obj(k) = Null,
             frame[k].mach = m, InnermostAt(m, q)
      PROVE  Referent[k] = IF q # 0 /\ frame[q].kind = "catch" THEN Referent[q] ELSE 0
  <2>1. q = InnermostRuntime(m)
    BY <1>3, OneInnermost
  <2> QED
    BY <1>3, <2>1, ReferentOf
<1>4. ASSUME NEW k \in Slot, frame[k].kind \in {"catch", "destroy"} PROVE Obj(k) # Null
  BY <1>4, ReferentKnown DEF IsRuntime
<1>5. Builds(ActivitiesUpTo, Acts) /\ Alive = Lifetime!Referred(Activities) \ {0}
  BY ActivitiesBuilt, AliveIsReferred DEF Lifetime!AliveIffReferred, Alive
<1>6. \A k \in Slot : Acts[k] \in SlotActivity /\ (~IsRuntime(k) => Acts[k] = Idle)
  BY ActsType
<1>7. ASSUME NEW k \in Slot, NEW w, IsRuntime(k), frame[k].kind = w
      PROVE  Acts[k] = [role |-> Role(w), about |-> Referent[k]] /\ Acts[k] # Idle
  <2>1. Acts[k] = ActivityOf(k) /\ Acts[k] # Idle
    BY <1>7, ActsType
  <2>2. ActivityOf(k) = [role |-> ActivityOf(k).role, about |-> Referent[k]]
    BY <1>7, RoleOf
  <2>3. ActivityOf(k).role = Role(w)
    BY <1>7, RoleOf DEF Role, IsRuntime
  <2> QED
    BY <2>1, <2>2, <2>3
<1>8. \A k \in Slot : k > top => ~IsRuntime(k)
  BY DEF Inv, StackShape, IsRuntime, Free
<1> QED
  BY <1>1, <1>2, <1>3, <1>4, <1>5, <1>6, <1>7, <1>8 DEF View

LEMMA ViewNext == Inv' /\ OwnInv' => View'
BY ViewHolds, PTL

\* A step changes no runtime frame below slot n.
KeptBelowSlot(n) ==
    \A q \in Slot : q < n => (IsRuntime(q)' <=> IsRuntime(q)) /\ (IsRuntime(q) => frame'[q] = frame[q])

LEMMA DirectKept ==
    ASSUME Inv, OwnInv, NEW n \in Int, KeptBelowSlot(n), NEW k \in Slot, k < n, IsRuntime(k),
           NEW t, Direct(k, t)
    PROVE  Direct(k, t)'
<1>1. IsRuntime(k)' /\ frame'[k] = frame[k]
  BY DEF KeptBelowSlot
<1>2. Obj(k)' = Obj(k) /\ (Owns(k)' <=> Owns(k))
  BY <1>1 DEF Obj, Owns
<1>3. CASE Owns(k)
  BY <1>2, <1>3 DEF Direct
<1>4. CASE ~Owns(k)
  <2>1. PICK o \in Slot : o = Obj(k).slot /\ Owns(o) /\ Obj(o) = Object(t) /\ Obj(k).to = "link"
    BY <1>4 DEF Direct
  <2>2. o < n /\ IsRuntime(o)
    <3>1. o <= frame[k].mach /\ frame[k].mach < k /\ frame[k].mach \in 0..MaxDepth
      BY <1>4, <2>1, RuntimeRefers
    <3> QED
      BY <2>1, <3>1, SlotIs DEF Owns
  <2>3. IsRuntime(o)' /\ frame'[o] = frame[o]
    BY <2>2 DEF KeptBelowSlot
  <2>4. Owns(o)' /\ Obj(o)' = Object(t)
    BY <2>1, <2>3 DEF Obj, Owns
  <2> QED
    BY <1>2, <1>4, <2>1, <2>4 DEF Direct
<1> QED
  BY <1>3, <1>4

\* A runtime frame that keeps its exception, over frames that do not change, is
\* about the same exception; code frames it has unwound do not matter.
LEMMA SameReferent ==
    ASSUME Inv, OwnInv, View', NEW p \in Slot, KeptBelowSlot(p), IsRuntime(p), IsRuntime(p)',
           Obj(p)' = Obj(p), Info(p)' = Info(p),
           NEW m, m = frame[p].mach, NEW n, n = frame'[p].mach, n \in 0..m,
           \A q \in Slot : n < q /\ q <= m => ~IsRuntime(q)
    PROVE  Referent'[p] = Referent[p]
<1>0. m \in 0..MaxDepth /\ m < p /\ n \in 0..MaxDepth /\ n <= m /\ n \in Nat /\ m \in Nat /\ p \in Nat
  BY RuntimeRefers, SlotIs
<1>1. Owns(p)' <=> Owns(p)
  BY DEF Owns, Info
<1>2. View
  BY ViewHolds
<1>3. CASE Obj(p) # Null
  <2>1. PICK t \in Slot : Direct(p, t)
    BY <1>2, <1>3 DEF View
  <2>2. Direct(p, t)'
    <3>1. CASE Owns(p)
      BY <1>1, <2>1, <3>1 DEF Direct
    <3>2. CASE ~Owns(p)
      <4>1. PICK o \in Slot : o = Obj(p).slot /\ Owns(o) /\ Obj(o) = Object(t) /\ Obj(p).to = "link"
        BY <2>1, <3>2 DEF Direct
      <4>2. o < p /\ IsRuntime(o)
        <5>1. o <= m
          BY <3>2, <4>1, RuntimeRefers
        <5> QED
          BY <1>0, <4>1, <5>1, SlotIs DEF Owns
      <4>3. IsRuntime(o)' /\ frame'[o] = frame[o]
        BY <4>2 DEF KeptBelowSlot
      <4>4. Owns(o)' /\ Obj(o)' = Object(t)
        BY <4>1, <4>3 DEF Obj, Owns
      <4> QED
        BY <1>1, <3>2, <4>1, <4>4 DEF Direct
    <3> QED
      BY <3>1, <3>2
  <2>3. Referent[p] = t
    BY <1>2, <2>1 DEF View
  <2>4. Referent'[p] = t
    BY <2>2 DEF View
  <2> QED
    BY <2>3, <2>4
<1>4. CASE Obj(p) = Null
  <2>1. PICK q : q = InnermostRuntime(m)
    OBVIOUS
  <2>2. InnermostAt(m, q)
    BY <1>0, <2>1, InnermostIs DEF InnermostAt
  <2>3. q \in Nat /\ q <= n
    BY <1>0, <2>2, SlotIs DEF InnermostAt
  <2>4. ASSUME NEW r \in q + 1 .. n PROVE ~IsRuntime(r)'
    <3>1. r \in Slot /\ r \in q + 1 .. m /\ r < p
      BY <1>0, <2>3, SlotIs
    <3> QED
      BY <2>2, <3>1 DEF InnermostAt, KeptBelowSlot
  <2>5. q # 0 => q \in Slot /\ IsRuntime(q) /\ IsRuntime(q)' /\ frame'[q] = frame[q]
    BY <1>0, <2>2, <2>3 DEF InnermostAt, KeptBelowSlot
  <2>6. InnermostAt(n, q)'
    BY <2>3, <2>4, <2>5 DEF InnermostAt
  <2>7. Referent[p] = IF q # 0 /\ frame[q].kind = "catch" THEN Referent[q] ELSE 0
    BY <1>0, <1>2, <1>4, <2>2 DEF View
  <2>8. Referent'[p] = IF q # 0 /\ frame'[q].kind = "catch" THEN Referent'[q] ELSE 0
    BY <1>0, <1>4, <2>6 DEF View
  <2>9. ASSUME q # 0, frame[q].kind = "catch" PROVE Referent'[q] = Referent[q]
    <3>1. PICK t \in Slot : Direct(q, t)
      BY <1>2, <2>5, <2>9 DEF View
    <3>2. q < p /\ p \in Int
      BY <1>0, <2>3
    <3>3. Direct(q, t)'
      BY <2>5, <2>9, <3>1, <3>2, DirectKept
    <3> QED
      BY <1>2, <2>5, <2>9, <3>1, <3>3 DEF View
  <2> QED
    BY <2>5, <2>7, <2>8, <2>9
<1> QED
  BY <1>3, <1>4

LEMMA SameBelow ==
    ASSUME Inv, OwnInv, View', NEW n \in Int, KeptBelowSlot(n), NEW k \in Slot, k < n
    PROVE  Acts'[k] = Acts[k]
<1>1. View
  BY ViewHolds
<1>2. CASE ~IsRuntime(k)
  BY <1>1, <1>2 DEF View, KeptBelowSlot
<1>3. CASE IsRuntime(k)
  <2>1. IsRuntime(k)' /\ frame'[k] = frame[k]
    BY <1>3 DEF KeptBelowSlot
  <2>2. KeptBelowSlot(k)
    BY SlotIs DEF KeptBelowSlot
  <2>3. PICK m : m = frame[k].mach /\ m \in 0..MaxDepth
    BY <1>3, RuntimeRefers
  <2>4. Referent'[k] = Referent[k]
    <3>1. Obj(k)' = Obj(k) /\ Info(k)' = Info(k) /\ m = frame'[k].mach
      BY <2>1, <2>3 DEF Obj, Info
    <3>2. m \in 0..m /\ \A q \in Slot : ~(m < q /\ q <= m)
      BY <2>3, SlotIs
    <3> QED
      BY <1>3, <2>1, <2>2, <2>3, <3>1, <3>2, SameReferent
  <2>5. PICK w : w = frame[k].kind
    OBVIOUS
  <2>6. Acts[k] = [role |-> Role(w), about |-> Referent[k]]
    BY <1>1, <1>3, <2>5 DEF View
  <2>7. Acts'[k] = [role |-> Role(w), about |-> Referent'[k]]
    BY <2>1, <2>5 DEF View
  <2> QED
    BY <2>4, <2>6, <2>7
<1> QED
  BY <1>2, <1>3

\* No runtime frame is newer than the one in slot p.
NewestAt(p) == IsRuntime(p) /\ \A j \in Slot : j > p => ~IsRuntime(j)

Activity(kind, t) == [role |-> Role(kind), about |-> t]

LEMMA ActivityIs ==
    ASSUME NEW kind \in {"throw", "catch", "destroy"}, NEW t \in 0..MaxDepth
    PROVE  Activity(kind, t) \in Lifetime!Activity
BY ActivityType DEF Activity, Role

\* A step that changes the newest runtime frame, and leaves it about the same
\* exception, changes the role of the newest activity and nothing else.
LEMMA NewestChanges ==
    ASSUME Inv, OwnInv, View', NEW p \in Slot, NewestAt(p), NewestAt(p)', KeptBelowSlot(p),
           Referent'[p] = Referent[p], NEW v, v = frame[p].kind, NEW w, w = frame'[p].kind
    PROVE  \E s \in Seq(Lifetime!Activity), t \in 0..MaxDepth :
                /\ t = Referent[p]
                /\ Activities = Append(s, Activity(v, t)) /\ Activity(v, t) \in Lifetime!Activity
                /\ Activities' = Append(s, Activity(w, t)) /\ Activity(w, t) \in Lifetime!Activity
<1>1. View
  BY ViewHolds
<1>2. PICK a, b, c, d : a = ActivitiesUpTo /\ b = ActivitiesUpTo' /\ c = Acts /\ d = Acts'
  OBVIOUS
<1>3. PICK t : t = Referent[p] /\ t \in 0..MaxDepth
  BY ReferentLive DEF NewestAt
<1>4. c[p] = Activity(v, t) /\ c[p] # Idle
  BY <1>1, <1>2, <1>3 DEF View, NewestAt, Activity
<1>5. d[p] = Activity(w, t) /\ d[p] # Idle
  BY <1>2, <1>3 DEF View, NewestAt, Activity
<1>6. Builds(a, c) /\ Builds(b, d) /\ \A j \in Slot : c[j] \in SlotActivity
  BY <1>1, <1>2 DEF View
<1>7. \A j \in Slot : j < p => d[j] = c[j]
  BY <1>2, SameBelow, SlotIs
<1>8. \A j \in Slot : j > p => c[j] = Idle /\ d[j] = Idle
  BY <1>1, <1>2 DEF View, NewestAt
<1>9. PICK s \in Seq(Lifetime!Activity) :
        a[MaxDepth] = Append(s, c[p]) /\ b[MaxDepth] = Append(s, d[p])
  <2>1. c[p] # Idle /\ d[p] # Idle
    BY <1>4, <1>5
  <2>2. PICK s \in Seq(Lifetime!Activity) :
          /\ a[MaxDepth] = Append(s, c[p])
          /\ b[MaxDepth] = IF d[p] = Idle THEN s ELSE Append(s, d[p])
    <3>1. Changes(a, b, c, d, p)
      BY <1>6, <1>7, <1>8, <2>1 DEF Changes
    <3> QED
      BY <3>1, BuiltChange
  <2>3. b[MaxDepth] = Append(s, d[p])
    BY <2>1, <2>2
  <2> QED
    BY <2>2, <2>3
<1>10. Activity(v, t) \in Lifetime!Activity /\ Activity(w, t) \in Lifetime!Activity
  <2>1. v \in {"throw", "catch", "destroy"} /\ w \in {"throw", "catch", "destroy"}
    BY DEF NewestAt, IsRuntime
  <2> QED
    BY <1>3, <2>1, ActivityIs
<1> QED
  BY <1>2, <1>3, <1>4, <1>5, <1>9, <1>10 DEF Activities

\* A step that keeps the role of the newest activity too is a stutter.
LEMMA NewestStays ==
    ASSUME Inv, OwnInv, View', NEW p \in Slot, NewestAt(p), NewestAt(p)', KeptBelowSlot(p),
           Referent'[p] = Referent[p], frame'[p].kind = frame[p].kind, exc' = exc
    PROVE  UNCHANGED Lifetime!vars
<1>1. PICK v : v = frame[p].kind /\ v = frame'[p].kind
  OBVIOUS
<1>2. Activities' = Activities
  BY <1>1, NewestChanges
<1> QED
  BY <1>2 DEF Lifetime!vars

\* So is one that touches no runtime frame.
LEMMA AllStay ==
    ASSUME Inv, OwnInv, View', KeptBelowSlot(MaxDepth + 1), exc' = exc
    PROVE  UNCHANGED Lifetime!vars
<1>1. PICK a, b, c, d : a = ActivitiesUpTo /\ b = ActivitiesUpTo' /\ c = Acts /\ d = Acts'
  OBVIOUS
<1>2. Builds(a, c) /\ Builds(b, d)
  BY <1>1, ViewHolds DEF View
<1>3. \A j \in Slot : c[j] = d[j]
  BY <1>1, SameBelow, SlotIs
<1>4. MaxDepth \in 0..MaxDepth
  BY SlotIs
<1>5. a[MaxDepth] = b[MaxDepth]
  BY <1>2, <1>3, <1>4, BuiltSame
<1> QED
  BY <1>1, <1>5 DEF Activities, Lifetime!vars

\* A step that adds a runtime frame above all others adds an activity.
LEMMA NewestAdded ==
    ASSUME Inv, OwnInv, View', NEW n \in Slot, KeptBelowSlot(n), NewestAt(n)',
           \A j \in Slot : j >= n => ~IsRuntime(j), NEW w, w = frame'[n].kind
    PROVE  Activities' = Append(Activities, Activity(w, Referent'[n]))
<1>1. View
  BY ViewHolds
<1>2. PICK a, b, c, d : a = ActivitiesUpTo /\ b = ActivitiesUpTo' /\ c = Acts /\ d = Acts'
  OBVIOUS
<1>3. d[n] = Activity(w, Referent'[n]) /\ d[n] # Idle
  BY <1>2 DEF View, NewestAt, Activity
<1>4. \A j \in Slot : j < n => d[j] = c[j]
  BY <1>2, SameBelow, SlotIs
<1>5. (\A j \in Slot : j >= n => c[j] = Idle) /\ \A j \in Slot : j > n => d[j] = Idle
  BY <1>1, <1>2 DEF View, NewestAt
<1>6. Pushes(a, b, c, d, n)
  BY <1>1, <1>2, <1>3, <1>4, <1>5 DEF Pushes, View
<1>7. b[MaxDepth] = Append(a[MaxDepth], d[n])
  BY <1>6, BuiltPush
<1> QED
  BY <1>2, <1>3, <1>7 DEF Activities

\* A step that removes the newest runtime frame ends the newest activity.
LEMMA NewestRemoved ==
    ASSUME Inv, OwnInv, View', NEW p \in Slot, NewestAt(p), KeptBelowSlot(p),
           \A j \in Slot : j >= p => ~IsRuntime(j)', NEW v, v = frame[p].kind
    PROVE  \E s \in Seq(Lifetime!Activity), t \in 0..MaxDepth :
                /\ Activities = Append(s, Activity(v, t)) /\ Activity(v, t) \in Lifetime!Activity
                /\ Activities' = s
<1>1. View
  BY ViewHolds
<1>2. PICK a, b, c, d : a = ActivitiesUpTo /\ b = ActivitiesUpTo' /\ c = Acts /\ d = Acts'
  OBVIOUS
<1>3. PICK t : t = Referent[p] /\ t \in 0..MaxDepth
  BY ReferentLive DEF NewestAt
<1>4. c[p] = Activity(v, t) /\ c[p] # Idle
  BY <1>1, <1>2, <1>3 DEF View, NewestAt, Activity
<1>5. d[p] = Idle
  BY <1>2, SlotIs DEF View
<1>6. \A j \in Slot : j < p => d[j] = c[j]
  BY <1>2, SameBelow, SlotIs
<1>7. \A j \in Slot : j > p => c[j] = Idle /\ d[j] = Idle
  BY <1>1, <1>2, SlotIs DEF View, NewestAt
<1>8. Changes(a, b, c, d, p)
  BY <1>1, <1>2, <1>4, <1>6, <1>7 DEF Changes, View
<1>9. PICK s \in Seq(Lifetime!Activity) : a[MaxDepth] = Append(s, c[p]) /\ b[MaxDepth] = s
  BY <1>5, <1>8, BuiltChange
<1>10. Activity(v, t) \in Lifetime!Activity
  BY <1>3, ActivityIs DEF NewestAt, IsRuntime
<1> QED
  BY <1>2, <1>3, <1>4, <1>9, <1>10 DEF Activities

\* A step removes runtime frame m, of kind u, before the newest one p, of kind
\* v, which goes on about the same exception.
SecondGoes(m, p, u, v) ==
    /\ m < p /\ NewestAt(p) /\ NewestAt(p)'
    /\ IsRuntime(m) /\ ~IsRuntime(m)' /\ KeptBelowSlot(m)
    /\ \A j \in Slot : m < j /\ j < p => ~IsRuntime(j) /\ ~IsRuntime(j)'
    /\ Referent'[p] = Referent[p]
    /\ u = frame[m].kind /\ v = frame[p].kind /\ v = frame'[p].kind

\* Such a step ends the activity before the newest.
LEMMA SecondRemoved ==
    ASSUME Inv, OwnInv, View', NEW m \in Slot, NEW p \in Slot, NEW u, NEW v, SecondGoes(m, p, u, v)
    PROVE  \E s \in Seq(Lifetime!Activity), r, t \in 0..MaxDepth :
                /\ Activities = Append(Append(s, Activity(u, r)), Activity(v, t))
                /\ Activities' = Append(s, Activity(v, t))
                /\ Activity(u, r) \in Lifetime!Activity /\ Activity(v, t) \in Lifetime!Activity
<1>0. /\ m < p /\ NewestAt(p) /\ NewestAt(p)'
      /\ IsRuntime(m) /\ ~IsRuntime(m)' /\ KeptBelowSlot(m)
      /\ \A j \in Slot : m < j /\ j < p => ~IsRuntime(j) /\ ~IsRuntime(j)'
      /\ Referent'[p] = Referent[p]
      /\ u = frame[m].kind /\ v = frame[p].kind /\ v = frame'[p].kind
  BY DEF SecondGoes
<1> USE <1>0
<1>1. View
  BY ViewHolds
<1>2. PICK a, b, c, d : a = ActivitiesUpTo /\ b = ActivitiesUpTo' /\ c = Acts /\ d = Acts'
  OBVIOUS
<1>3. PICK r, t : r = Referent[m] /\ r \in 0..MaxDepth /\ t = Referent[p] /\ t \in 0..MaxDepth
  BY ReferentLive DEF NewestAt
<1>4. c[p] = Activity(v, t) /\ c[p] # Idle
  BY <1>1, <1>2, <1>3, Zenon DEF View, NewestAt, Activity
<1>5. d[p] = Activity(v, t)
  BY <1>2, <1>3 DEF View, NewestAt, Activity
<1>6. c[m] = Activity(u, r) /\ c[m] # Idle
  BY <1>1, <1>2, <1>3 DEF View, Activity
<1>7. d[m] = Idle
  BY <1>2 DEF View
<1>8. \A j \in Slot : j < m => d[j] = c[j]
  BY <1>2, SameBelow, SlotIs
<1>9. \A j \in Slot : j > m /\ j # p => c[j] = Idle /\ d[j] = Idle
  <2>1. \A j \in Slot : j > m /\ j # p => ~IsRuntime(j) /\ ~IsRuntime(j)'
    <3>1. \A j \in Slot : j > m /\ j # p => (m < j /\ j < p) \/ j > p
      BY SlotIs
    <3> QED
      BY <3>1 DEF NewestAt
  <2> QED
    BY <1>1, <1>2, <2>1 DEF View
<1>10. Abandons(a, b, c, d, m, p)
  BY <1>1, <1>2, <1>4, <1>5, <1>6, <1>7, <1>8, <1>9 DEF Abandons, View
<1>11. PICK s \in Seq(Lifetime!Activity) :
        a[MaxDepth] = Append(Append(s, c[m]), c[p]) /\ b[MaxDepth] = Append(s, c[p])
  BY <1>10, BuiltAbandon, SMTT(30)
<1>12. Activity(v, t) \in Lifetime!Activity /\ Activity(u, r) \in Lifetime!Activity
  BY <1>3, ActivityIs DEF NewestAt, IsRuntime
<1> QED
  BY <1>2, <1>3, <1>4, <1>6, <1>11, <1>12 DEF Activities

----------------------------------------------------------------------------
(* The steps of ExceptionLifetime, as changes of the activities.           *)

Replaced(a, n, d) == [a EXCEPT ![n] = d]

\* Replacing the last element.
LEMMA SeqReplaceLast ==
    ASSUME NEW S, NEW s \in Seq(S), NEW e \in S, NEW d \in S
    PROVE  Replaced(Append(s, e), Len(s) + 1, d) = Append(s, d)
<1>1. PICK a, b, c, n : a = Append(s, e) /\ b = Append(s, d) /\ n = Len(s) + 1 /\ c = Replaced(a, n, d)
  OBVIOUS
<1>2. a \in Seq(S) /\ b \in Seq(S) /\ n \in 1..Len(a) /\ Len(a) = n /\ Len(b) = n
  BY <1>1
<1>3. a \in [1..n -> S] /\ b \in [1..n -> S]
  BY <1>2, LenProperties
<1>4. \A i \in 1..n : i # n => b[i] = a[i]
  <2>1. \A i \in 1..n : i # n => i \in 1..Len(s)
    BY <1>1
  <2>2. \A i \in 1..Len(s) : a[i] = s[i] /\ b[i] = s[i]
    BY <1>1
  <2> QED
    BY <2>1, <2>2
<1>5. b[n] = d /\ n \in 1..n
  BY <1>1, <1>2
<1>6. c \in [1..n -> S] /\ c[n] = d /\ \A i \in 1..n : i # n => c[i] = a[i]
  BY <1>1, <1>3, <1>5 DEF Replaced
<1>7. \A i \in 1..n : c[i] = b[i]
  BY <1>4, <1>5, <1>6
<1>8. c = b
  <2>1. c = [i \in 1..n |-> c[i]] /\ b = [i \in 1..n |-> b[i]]
    BY <1>3, <1>6
  <2>2. [i \in 1..n |-> c[i]] = [i \in 1..n |-> b[i]]
    BY <1>7, Zenon
  <2> QED
    BY <2>1, <2>2, Zenon
<1> QED
  BY <1>1, <1>8

\* A handler is found ...
LEMMA IsCatch ==
    ASSUME NEW s \in Seq(Lifetime!Activity), NEW t \in 0..MaxDepth, t # 0, exc' = exc,
           Activities = Append(s, Activity("throw", t)), Activities' = Append(s, Activity("catch", t)),
           Activity("throw", t) \in Lifetime!Activity, Activity("catch", t) \in Lifetime!Activity
    PROVE  Lifetime!Catch
<1>1. PICK a, b, e, d, n : /\ a = Activities /\ b = Activities' /\ n = Len(a)
                           /\ e = Activity("throw", t) /\ d = Activity("catch", t)
  OBVIOUS
<1>2. /\ e = [role |-> "flying", about |-> t] /\ d = [role |-> "handling", about |-> t]
      /\ e \in Lifetime!Activity /\ d \in Lifetime!Activity /\ a = Append(s, e) /\ b = Append(s, d)
  BY <1>1 DEF Activity, Role
<1>3. a # <<>> /\ a[n] = e
  BY <1>1, <1>2, SeqLast
<1>4. [e EXCEPT !.role = "handling"] = d
  BY <1>2
<1>5. [a EXCEPT ![n].role = "handling"] = [a EXCEPT ![n] = d]
  BY <1>3, <1>4, Zenon
<1>6. [a EXCEPT ![n] = d] = b
  <2>1. Replaced(Append(s, e), Len(s) + 1, d) = Append(s, d)
    BY <1>2, SeqReplaceLast
  <2>2. n = Len(s) + 1
    BY <1>1, <1>2, SeqLast
  <2> QED
    BY <1>2, <2>1, <2>2 DEF Replaced
<1>7. e.role = "flying" /\ e.about # 0
  BY <1>2
<1> QED
  BY <1>1, <1>3, <1>5, <1>6, <1>7 DEF Lifetime!Catch, Lifetime!Newest

\* ... and left.
LEMMA IsLeaveHandler ==
    ASSUME NEW s \in Seq(Lifetime!Activity), NEW t \in 0..MaxDepth, exc' = exc,
           Activities = Append(s, Activity("catch", t)), Activities' = Append(s, Activity("destroy", t)),
           Activity("catch", t) \in Lifetime!Activity, Activity("destroy", t) \in Lifetime!Activity
    PROVE  Lifetime!LeaveHandler
<1>1. PICK a, b, e, d, n : /\ a = Activities /\ b = Activities' /\ n = Len(a)
                           /\ e = Activity("catch", t) /\ d = Activity("destroy", t)
  OBVIOUS
<1>2. /\ e = [role |-> "handling", about |-> t] /\ d = [role |-> "leaving", about |-> t]
      /\ e \in Lifetime!Activity /\ d \in Lifetime!Activity /\ a = Append(s, e) /\ b = Append(s, d)
  BY <1>1 DEF Activity, Role
<1>3. a # <<>> /\ a[n] = e
  BY <1>1, <1>2, SeqLast
<1>4. [e EXCEPT !.role = "leaving"] = d
  BY <1>2
<1>5. [a EXCEPT ![n].role = "leaving"] = [a EXCEPT ![n] = d]
  BY <1>3, <1>4, Zenon
<1>6. [a EXCEPT ![n] = d] = b
  <2>1. Replaced(Append(s, e), Len(s) + 1, d) = Append(s, d)
    BY <1>2, SeqReplaceLast
  <2>2. n = Len(s) + 1
    BY <1>1, <1>2, SeqLast
  <2> QED
    BY <1>2, <2>1, <2>2 DEF Replaced
<1>7. e.role = "handling"
  BY <1>2
<1> QED
  BY <1>1, <1>3, <1>5, <1>6, <1>7 DEF Lifetime!LeaveHandler, Lifetime!Newest

\* What is alive after a step that destroys, at most: what was and is still
\* referred to.
LEMMA AliveKept ==
    ASSUME Inv, OwnInv, View', Alive' \subseteq Alive
    PROVE  Alive' = Alive \cap Lifetime!Referred(Activities')
<1>1. PICK r : r = Lifetime!Referred(Activities')
  OBVIOUS
<1>2. Alive' = r \ {0}
  BY <1>1 DEF View
<1>3. 0 \notin Alive
  BY SlotIs DEF Alive
<1> QED
  BY <1>1, <1>2, <1>3

\* A handler ends with its exception ...
LEMMA IsEndHandler ==
    ASSUME Inv, OwnInv, View', Alive' \subseteq Alive,
           NEW s \in Seq(Lifetime!Activity), NEW t \in 0..MaxDepth,
           Activities = Append(s, Activity("destroy", t)), Activities' = s,
           Activity("destroy", t) \in Lifetime!Activity
    PROVE  Lifetime!EndHandler
<1>1. PICK a, b, e, n : a = Activities /\ b = Activities' /\ n = Len(a) /\ e = Activity("destroy", t)
  OBVIOUS
<1>2. e.role = "leaving" /\ e \in Lifetime!Activity /\ a = Append(s, e) /\ b = s
  BY <1>1 DEF Activity, Role
<1>3. a # <<>> /\ a[n] = e /\ n - 1 = Len(s) /\ SubSeq(a, 1, Len(s)) = s
  BY <1>1, <1>2, SeqLast
<1>4. b = SubSeq(a, 1, n - 1)
  BY <1>2, <1>3
<1>5. Alive' = Alive \cap Lifetime!Referred(Activities')
  BY AliveKept
<1> QED
  BY <1>1, <1>2, <1>3, <1>4, <1>5 DEF Lifetime!EndHandler, Lifetime!Newest, Alive

\* ... or is abandoned by another.
LEMMA IsAbandonHandler ==
    ASSUME Inv, OwnInv, View', Alive' \subseteq Alive,
           NEW s \in Seq(Lifetime!Activity), NEW r \in 0..MaxDepth, NEW t \in 0..MaxDepth,
           Activities = Append(Append(s, Activity("catch", r)), Activity("throw", t)),
           Activities' = Append(s, Activity("throw", t)),
           Activity("catch", r) \in Lifetime!Activity, Activity("throw", t) \in Lifetime!Activity
    PROVE  Lifetime!AbandonHandler
<1>1. PICK a, b, e, d, n : /\ a = Activities /\ b = Activities' /\ n = Len(a)
                           /\ d = Activity("catch", r) /\ e = Activity("throw", t)
  OBVIOUS
<1>2. PICK q : q = Append(s, d)
  OBVIOUS
<1>3. /\ d.role = "handling" /\ e.role = "flying" /\ a = Append(q, e) /\ b = Append(s, e)
      /\ d \in Lifetime!Activity /\ e \in Lifetime!Activity
  BY <1>1, <1>2 DEF Activity, Role
<1>4. /\ q \in Seq(Lifetime!Activity) /\ Len(s) \in Nat /\ Len(q) = Len(s) + 1 /\ q[Len(s) + 1] = d
      /\ SubSeq(q, 1, Len(s)) = s
  BY <1>2, <1>3, SeqLast
<1>5. /\ Len(q) \in Nat /\ n = Len(q) + 1 /\ a[Len(q) + 1] = e /\ SubSeq(a, 1, Len(q)) = q
      /\ \A i \in 1..Len(q) : a[i] = q[i]
  BY <1>1, <1>3, <1>4, SeqLast
<1>6. n >= 2 /\ a[n] = e /\ a[n - 1] = d
  <2>1. n - 1 = Len(q) /\ n - 1 \in 1..Len(q)
    BY <1>4, <1>5
  <2> QED
    BY <1>4, <1>5, <2>1
<1>7. SubSeq(a, 1, n - 2) = s
  <2>1. n - 2 = Len(s)
    BY <1>4, <1>5
  <2>2. SubSeq(a, 1, Len(s)) = SubSeq(q, 1, Len(s))
    <3>1. \A i \in 1..Len(s) : a[i] = q[i]
      BY <1>4, <1>5
    <3> QED
      BY <1>3, <1>4, <3>1
  <2> QED
    BY <1>4, <2>1, <2>2
<1>8. Alive' = Alive \cap Lifetime!Referred(Activities')
  BY AliveKept
<1> QED
  BY <1>1, <1>3, <1>6, <1>7, <1>8 DEF Lifetime!AbandonHandler, Lifetime!Newest, Alive

----------------------------------------------------------------------------
(* Steps of the runtime that ExceptionLifetime does not see.               *)

\* A dispatch that stays about its exception.
LEMMA StepStays ==
    ASSUME Inv, OwnInv, View', NEW p \in Slot, NEW m \in Slot, NEW x, Steps(p, m, x),
           x.ci.exception_object_or_link = Obj(p), x.ci.throw_info_if_owner = Info(p), exc' = exc
    PROVE  UNCHANGED Lifetime!vars
<1>1. /\ frame'[p] = x /\ frame[p].kind = "throw" /\ x.kind = "throw" /\ frame[p].mach = m /\ x.mach = m
      /\ p = top /\ p = top' /\ \A q \in Slot : q # p => frame'[q] = frame[q]
  BY DEF Steps
<1>2. IsRuntime(p) /\ IsRuntime(p)'
  BY <1>1 DEF IsRuntime
<1>3. NewestAt(p) /\ NewestAt(p)'
  BY <1>1, <1>2, ViewHolds DEF View, NewestAt
<1>4. KeptBelowSlot(p)
  BY <1>1, SlotIs DEF KeptBelowSlot, IsRuntime
<1>5. Obj(p)' = Obj(p) /\ Info(p)' = Info(p)
  BY <1>1 DEF Obj, Info
<1>6. m \in 0..m /\ \A q \in Slot : ~(m < q /\ q <= m)
  BY SlotIs
<1>7. Referent'[p] = Referent[p]
  BY <1>1, <1>2, <1>4, <1>5, <1>6, SameReferent
<1> QED
  BY <1>1, <1>3, <1>4, <1>7, NewestStays

\* The dispatch leaves a code frame behind.
LEMMA UnwindFrameStays ==
    ASSUME Inv, OwnInv, View', UnwindFrame PROVE UNCHANGED Lifetime!vars
<1>1. PICK p, m, c, x :
            /\ p \in Slot /\ m \in Slot /\ c \in 0..MaxDepth
            /\ Unwinds(p, m, c, x) /\ IsCode(m) /\ c = m - 1
            /\ x.ci = frame[p].ci
  BY UnwindFrameForm
<1>2. /\ frame[p].kind = "throw" /\ x.kind = "throw" /\ frame[p].mach = m /\ x.mach = c
      /\ p = top /\ p = top'
      /\ \A q \in Slot : frame'[q] = IF q = p THEN x ELSE IF q = m THEN Free ELSE frame[q]
  BY <1>1 DEF Unwinds
<1>3. exc' = exc
  BY DEF UnwindFrame
<1>4. frame'[p] = x /\ IsRuntime(p) /\ IsRuntime(p)'
  BY <1>1, <1>2 DEF IsRuntime
<1>5. NewestAt(p) /\ NewestAt(p)'
  BY <1>1, <1>2, <1>4, ViewHolds DEF View, NewestAt
<1>6. ~IsRuntime(m)
  BY <1>1, CodeFrameType DEF Inv
<1>7. KeptBelowSlot(p)
  <2>1. ASSUME NEW q \in Slot, q < p
        PROVE  (IsRuntime(q)' <=> IsRuntime(q)) /\ (IsRuntime(q) => frame'[q] = frame[q])
    <3>1. q # p
      BY <1>1, <2>1, SlotIs
    <3>2. CASE q = m
      BY <1>2, <1>6, <3>1, <3>2 DEF IsRuntime, Free
    <3>3. CASE q # m
      BY <1>2, <3>1, <3>3 DEF IsRuntime
    <3> QED
      BY <3>2, <3>3
  <2> QED
    BY <2>1 DEF KeptBelowSlot
<1>8. Obj(p)' = Obj(p) /\ Info(p)' = Info(p)
  BY <1>1, <1>4 DEF Obj, Info
<1>9. c \in 0..m /\ \A q \in Slot : c < q /\ q <= m => q = m
  BY <1>1, SlotIs
<1>10. Referent'[p] = Referent[p]
  BY <1>1, <1>2, <1>4, <1>6, <1>7, <1>8, <1>9, SameReferent
<1> QED
  BY <1>1, <1>2, <1>3, <1>4, <1>5, <1>7, <1>10, NewestStays

\* A rethrow that looks for its exception finds the one it is about.
LEMMA ProbeStays ==
    ASSUME Inv, OwnInv, View', ProbeForObject PROVE UNCHANGED Lifetime!vars
<1>1. PICK p, m, x : p \in Slot /\ m \in Slot /\ Steps(p, m, x) /\ IsCode(m)
  <2>1. PICK p, m, x :
            /\ p \in Slot /\ m \in Slot
            /\ Steps(p, m, x) /\ objects' = objects /\ IsCode(m)
            /\ frame[p].pc = "visit" /\ x.pc = "visit" /\ frame[p].handler = 0 /\ x.handler = 0
            /\ x.ci.primary_frame_ptr = frame[p].ci.primary_frame_ptr
            /\ x.ci.unwind_context = frame[p].ci.unwind_context
    BY ProbeForm
  <2> QED
    BY <2>1
<1>2. PICK q \in Slot :
        CanProbe(q) /\ Step([T EXCEPT !.ci.exception_object_or_link = ProbedObject(q)])
  BY DEF ProbeForObject
<1>3. /\ frame'[p] = x /\ frame[p].kind = "throw" /\ x.kind = "throw" /\ frame[p].mach = m /\ x.mach = m
      /\ p = top /\ p = top' /\ T = frame[p] /\ \A k \in Slot : k # p => frame'[k] = frame[k]
  BY <1>1 DEF Steps, T
<1>4. IsRuntime(p) /\ IsRuntime(p)'
  BY <1>3 DEF IsRuntime
<1>5. NewestAt(p) /\ NewestAt(p)'
  BY <1>1, <1>3, <1>4, ViewHolds DEF View, NewestAt
<1>6. KeptBelowSlot(p)
  BY <1>1, <1>3, SlotIs DEF KeptBelowSlot, IsRuntime
<1>7. exc' = exc /\ Obj(p)' = ProbedObject(q) /\ Info(p)' = Info(p)
  <2>1. frame[p] \in RuntimeFrame
    BY <1>1, <1>4, RuntimeFrameType DEF Inv
  <2>2. frame' = [frame EXCEPT ![p] = [frame[p] EXCEPT !.ci.exception_object_or_link = ProbedObject(q)]]
    BY <1>2, <1>3 DEF Step
  <2>3. frame'[p] = [frame[p] EXCEPT !.ci.exception_object_or_link = ProbedObject(q)]
    BY <1>1, <2>2 DEF Inv, TypeOK
  <2>4. exc' = exc
    BY <1>2 DEF Step
  <2> QED
    BY <2>1, <2>3, <2>4 DEF Obj, Info, RuntimeFrame, CatchInfo
<1>8. /\ Obj(p) = Null /\ frame[q].kind = "catch" /\ IsRuntime(q) /\ InnermostAt(m, q) /\ q # 0
      /\ q < p /\ m \in 0..MaxDepth
  <2>1. Obj(p) = Null /\ frame[q].kind = "catch" /\ IsRuntime(q) /\ InnermostAt(m, q) /\ q # 0 /\ q <= m
    BY <1>1, <1>2, <1>3, SlotIs DEF CanProbe, IsInnermostRuntime, InnermostAt, Obj
  <2>2. m < p /\ m \in 0..MaxDepth
    BY <1>1, <1>3, <1>4, RuntimeRefers
  <2> QED
    BY <1>1, <2>1, <2>2, SlotIs
<1>9. Referent[p] = Referent[q]
  <2>1. \A k \in Slot, n \in 0..MaxDepth : \A r :
            IsRuntime(k) /\ Obj(k) = Null /\ frame[k].mach = n /\ InnermostAt(n, r)
                => Referent[k] = IF r # 0 /\ frame[r].kind = "catch" THEN Referent[r] ELSE 0
    BY ViewHolds DEF View
  <2>2. p \in Slot /\ m \in 0..MaxDepth /\ IsRuntime(p) /\ Obj(p) = Null /\ frame[p].mach = m
        /\ InnermostAt(m, q) /\ q # 0 /\ frame[q].kind = "catch"
    BY <1>1, <1>3, <1>4, <1>8
  <2> QED
    BY ONLY <2>1, <2>2
<1>10. PICK t \in Slot : Direct(q, t) /\ Referent[q] = t
  <2>1. Obj(q) # Null
    BY <1>8, ViewHolds DEF View
  <2> QED
    BY <1>8, <2>1, ViewHolds DEF View
<1>11. ~Owns(p)'
  <2>1. ~Owns(p)
    BY <1>1, <1>4, <1>8, RuntimeRefers DEF Null
  <2> QED
    BY <1>4, <1>7, <2>1 DEF Owns, Info
<1>12. Direct(p, t)'
  <2>0. Info(q) = frame[q].ci.throw_info_if_owner /\ Obj(q) = frame[q].ci.exception_object_or_link
    BY DEF Info, Obj
  <2>1. CASE Owns(q)
    <3>1. ProbedObject(q) = Link(q) /\ Link(q).to = "link" /\ Link(q).slot = q
      BY <2>1 DEF ProbedObject, Owns, Link
    <3>2. Obj(q) = Object(t)
      BY <1>10, <2>1 DEF Direct
    <3>3. Owns(q)' /\ Obj(q)' = Object(t)
      BY <1>3, <1>8, <2>1, <3>2, SlotIs DEF Owns, Obj, IsRuntime
    <3> QED
      BY <1>7, <1>11, <3>1, <3>3 DEF Direct
  <2>2. CASE ~Owns(q)
    <3>1. ProbedObject(q) = Obj(q)
      BY <1>8, <2>2 DEF ProbedObject, Owns, Obj
    <3>2. PICK o \in Slot : o = Obj(q).slot /\ Owns(o) /\ Obj(o) = Object(t) /\ Obj(q).to = "link"
      BY <1>10, <2>2 DEF Direct
    <3>3. o # p
      <4>1. o <= frame[q].mach /\ frame[q].mach < q /\ frame[q].mach \in 0..MaxDepth
        BY <1>8, <2>2, <3>2, RuntimeRefers
      <4> QED
        BY <1>1, <1>8, <4>1, SlotIs
    <3>4. Owns(o)' /\ Obj(o)' = Object(t)
      BY <1>3, <3>2, <3>3 DEF Owns, Obj, IsRuntime
    <3> QED
      BY <1>7, <1>11, <3>1, <3>2, <3>4 DEF Direct
  <2> QED
    BY <2>1, <2>2
<1>13. Referent'[p] = Referent[p]
  BY <1>1, <1>4, <1>9, <1>10, <1>12 DEF View
<1> QED
  BY <1>1, <1>3, <1>5, <1>6, <1>7, <1>13, NewestStays

\* The program calls, returns, enters and leaves scopes.
LEMMA UserStays ==
    ASSUME Inv, OwnInv, View', (\E f \in Fns : Call(f)) \/ (\E s \in Nat : Enter(s)) \/ Leave \/ Return
    PROVE  UNCHANGED Lifetime!vars
<1>1. ASSUME NEW n \in Slot, ~IsRuntime(n), ~IsRuntime(n)', exc' = exc,
             \A k \in Slot : k # n => frame'[k] = frame[k]
      PROVE  UNCHANGED Lifetime!vars
  <2>1. KeptBelowSlot(MaxDepth + 1)
    BY <1>1 DEF KeptBelowSlot, IsRuntime
  <2> QED
    BY <1>1, <2>1, AllStay
<1>2. PICK p \in Slot : p = top
  BY TopType
<1>3. ASSUME NEW f \in Fns, Call(f) PROVE UNCHANGED Lifetime!vars
  <2>1. PICK n \in Slot : n = p + 1
    BY <1>2, <1>3, TopType DEF Call, Slot
  <2>2. ~IsRuntime(n)
    BY <1>2, <2>1 DEF Inv, StackShape, IsRuntime, Free, Slot
  <2>3. frame'[n].kind = "code" /\ (\A k \in Slot : k # n => frame'[k] = frame[k]) /\ exc' = exc
    BY <1>2, <1>3, <2>1 DEF Call, Inv, TypeOK
  <2> QED
    BY <1>1, <2>2, <2>3 DEF IsRuntime
<1>4. Running => IsCode(p) /\ ~IsRuntime(p) /\ T = frame[p] /\ frame[p] \in CodeFrame
  BY <1>2, CodeFrameType DEF Running, Inv, T
<1>5. ASSUME NEW s, Running, frame' = [frame EXCEPT ![p].state = s], exc' = exc
      PROVE  UNCHANGED Lifetime!vars
  <2>1. frame'[p].kind = "code" /\ \A k \in Slot : k # p => frame'[k] = frame[k]
    BY <1>4, <1>5 DEF CodeFrame, Inv, TypeOK
  <2> QED
    BY <1>1, <1>4, <1>5, <2>1 DEF IsRuntime
<1>6. ASSUME NEW s \in Nat, Enter(s) PROVE UNCHANGED Lifetime!vars
  BY <1>2, <1>5, <1>6 DEF Enter
<1>7. CASE Leave
  BY <1>2, <1>5, <1>7 DEF Leave
<1>8. CASE Return
  <2>1. frame'[p].kind = "free" /\ (\A k \in Slot : k # p => frame'[k] = frame[k]) /\ exc' = exc
    BY <1>2, <1>8 DEF Return, Inv, TypeOK, Free
  <2> QED
    BY <1>1, <1>4, <1>8, <2>1 DEF Return, IsRuntime
<1> QED
  BY <1>3, <1>6, <1>7, <1>8

\* The frame handlers decide, and the dispatch unwinds edge by edge.
LEMMA RuntimeStays ==
    ASSUME Inv, OwnInv, View',
           VisitCatching \/ VisitPassing \/ UnwindEdge \/ CalloutReturns \/ DestroyAtCatchFrame
    PROVE  UNCHANGED Lifetime!vars
<1>1. CASE VisitCatching
  <2>1. PICK p, m, x, home, i : CatchingVisit(p, m, x, home, i)
    BY <1>1, VisitCatchingForm
  <2>2. /\ p \in Slot /\ m \in Slot /\ Steps(p, m, x)
        /\ x.ci.exception_object_or_link = Obj(p) /\ x.ci.throw_info_if_owner = Info(p)
    BY <2>1 DEF CatchingVisit
  <2>3. exc' = exc
    BY <1>1 DEF VisitCatching, Step
  <2> QED
    BY <2>2, <2>3, StepStays
<1>2. ASSUME NEW p \in Slot, NEW m \in Slot, NEW x, Steps(p, m, x), x.ci = frame[p].ci, exc' = exc
      PROVE  UNCHANGED Lifetime!vars
  BY <1>2, StepStays DEF Obj, Info
<1>3. CASE VisitPassing
  <2>1. PICK p, m, x : p \in Slot /\ m \in Slot /\ Steps(p, m, x) /\ x.ci = frame[p].ci
    BY <1>3, VisitPassingForm
  <2>2. exc' = exc
    BY <1>3 DEF VisitPassing, Step
  <2> QED
    BY <1>2, <2>1, <2>2
<1>4. CASE UnwindEdge
  <2>1. PICK p, m, x : p \in Slot /\ m \in Slot /\ Steps(p, m, x) /\ x.ci = frame[p].ci
    BY <1>4, UnwindEdgeForm
  <2>2. exc' = exc
    BY <1>4 DEF UnwindEdge
  <2> QED
    BY <1>2, <2>1, <2>2
<1>5. CASE CalloutReturns
  <2>1. PICK p, m, x : p \in Slot /\ m \in Slot /\ Steps(p, m, x) /\ x.ci = frame[p].ci
    BY <1>5, CalloutReturnsForm
  <2>2. exc' = exc
    BY <1>5 DEF CalloutReturns, Step
  <2> QED
    BY <1>2, <2>1, <2>2
<1>6. CASE DestroyAtCatchFrame
  <2>1. PICK p, m, x : p \in Slot /\ m \in Slot /\ Steps(p, m, x) /\ x.ci = frame[p].ci
    BY <1>6, DestroyAtCatchFrameForm
  <2>2. exc' = exc
    BY <1>6 DEF DestroyAtCatchFrame, Step
  <2> QED
    BY <1>2, <2>1, <2>2
<1> QED
  BY <1>1, <1>3, <1>4, <1>5, <1>6

----------------------------------------------------------------------------
(* Steps of the runtime that are steps of ExceptionLifetime.               *)

\* The newest activity is that of the innermost runtime frame.
LEMMA NewestIs ==
    ASSUME Inv, OwnInv, NEW q, InnermostAt(top, q)
    PROVE  /\ q = 0 => Activities = <<>>
           /\ q # 0 => \E s \in Seq(Lifetime!Activity), w \in {"throw", "catch", "destroy"} :
                /\ w = frame[q].kind
                /\ Activities = Append(s, Activity(w, Referent[q]))
                /\ Activity(w, Referent[q]) \in Lifetime!Activity
<1>1. View
  BY ViewHolds
<1>2. PICK a, c : a = ActivitiesUpTo /\ c = Acts /\ Builds(a, c) /\ \A j \in Slot : c[j] \in SlotActivity
  BY <1>1 DEF View
<1>3. top \in Slot /\ q \in 0..top /\ 0..top \subseteq Nat
  BY TopType DEF InnermostAt, Slot
<1>4. \A j \in Slot : j > q => c[j] = Idle
  <2>1. ASSUME NEW j \in Slot, j > q PROVE ~IsRuntime(j)
    <3>1. CASE j > top
      BY <1>1, <3>1 DEF View
    <3>2. CASE ~(j > top)
      <4>1. j \in q + 1 .. top
        BY <1>3, <2>1, <3>2, SlotIs
      <4> QED
        BY <4>1 DEF InnermostAt
    <3> QED
      BY <3>1, <3>2
  <2> QED
    BY <1>1, <1>2, <2>1 DEF View
<1>5. CASE q = 0
  <2>1. MaxDepth \in 0..MaxDepth /\ 0 \in 0..MaxDepth /\ \A j \in Slot : 0 < j
    BY SlotIs
  <2>2. a[MaxDepth] = a[0]
    BY <1>2, <1>4, <1>5, <2>1, BuiltSkips
  <2>3. a[0] = <<>>
    BY <1>2 DEF Builds
  <2> QED
    BY <1>2, <1>5, <2>2, <2>3 DEF Activities
<1>6. CASE q # 0
  <2>1. q \in Slot /\ IsRuntime(q)
    BY <1>6 DEF InnermostAt
  <2>2. PICK w, t : w = frame[q].kind /\ t = Referent[q] /\ t \in 0..MaxDepth
    BY <2>1, ReferentLive
  <2>3. w \in {"throw", "catch", "destroy"}
    BY <2>1, <2>2 DEF IsRuntime
  <2>4. c[q] = Activity(w, t) /\ c[q] # Idle
    BY <1>1, <1>2, <2>1, <2>2 DEF View, Activity
  <2>5. a[MaxDepth] = Append(a[q - 1], c[q])
    BY <1>2, <1>4, <2>1, <2>4, BuiltLast
  <2>6. a[q - 1] \in Seq(Lifetime!Activity)
    <3>1. q - 1 \in 0..MaxDepth
      BY <2>1, SlotIs
    <3> QED
      BY <1>2, <3>1, BuiltType
  <2>7. Activity(w, t) \in Lifetime!Activity
    BY <2>2, <2>3, ActivityIs
  <2> QED
    BY <1>2, <1>6, <2>2, <2>3, <2>4, <2>5, <2>6, <2>7 DEF Activities
<1> QED
  BY <1>5, <1>6

\* What a throw or a rethrow pushes.
LEMMA PushedIs ==
    ASSUME Inv, OwnInv, View', NEW obj, NEW info, Running, PushThrowFrame(obj, info)
    PROVE  \E n \in Slot :
            /\ n = top + 1 /\ frame'[n].kind = "throw" /\ frame'[n].mach = top
            /\ Obj(n)' = obj /\ Info(n)' = info /\ IsRuntime(n)'
            /\ KeptBelowSlot(n) /\ \A q \in Slot : q # n => frame'[q] = frame[q]
            /\ Activities' = Append(Activities, Activity("throw", Referent'[n]))
<1>1. PICK n, x :
            /\ n \in Slot
            /\ n = top + 1 /\ top' = n /\ IsCode(top) /\ objects' = objects /\ frame'[n] = x
            /\ x.kind = "throw" /\ x.mach = top /\ x.pc = "visit" /\ x.handler = 0
            /\ x.ci.exception_object_or_link = obj /\ x.ci.throw_info_if_owner = info
            /\ IsFresh(x.ci, top)
            /\ \A q \in Slot : q # n => frame'[q] = frame[q]
  BY ThrowForm
<1>2. /\ frame'[n].kind = "throw" /\ frame'[n].mach = top /\ IsRuntime(n)'
      /\ Obj(n)' = obj /\ Info(n)' = info
  BY <1>1 DEF IsRuntime, Obj, Info
<1>3. KeptBelowSlot(n)
  BY <1>1, SlotIs DEF KeptBelowSlot, IsRuntime
<1>4. NewestAt(n)'
  BY <1>1, <1>2 DEF View, NewestAt
<1>5. \A j \in Slot : j >= n => ~IsRuntime(j)
  <2>1. \A j \in Slot : j >= n => j > top
    BY <1>1, TopType, SlotIs
  <2> QED
    BY <2>1, ViewHolds DEF View
<1>6. Activities' = Append(Activities, Activity("throw", Referent'[n]))
  BY <1>1, <1>2, <1>3, <1>4, <1>5, NewestAdded
<1> QED
  BY <1>1, <1>2, <1>3, <1>6

\* A throw raises a new exception.
LEMMA ThrowRaises ==
    ASSUME Inv, OwnInv, View', NEW t \in Types, Throw(t) PROVE \E e \in Slot : Lifetime!Raise(e)
<1>1. PICK e \in Slot : e = top
  BY TopType
<1>2. Running /\ PushThrowFrame(Object(e), t) /\ exc' = [exc EXCEPT ![e] = t]
  BY <1>1 DEF Throw
<1>3. PICK n \in Slot :
            /\ Obj(n)' = Object(e) /\ Info(n)' = t /\ IsRuntime(n)'
            /\ Activities' = Append(Activities, Activity("throw", Referent'[n]))
  BY <1>2, PushedIs
<1>4. t # NoInfo
  BY ThrowInfoAssumption
<1>5. Direct(n, e)'
  BY <1>3, <1>4 DEF Direct, Owns, Info
<1>6. Referent'[n] = e
  BY <1>3, <1>5 DEF View
<1>7. exc[e] = NoInfo
  <2>1. SUFFICES ASSUME exc[e] # NoInfo PROVE FALSE
    OBVIOUS
  <2>2. PICK k \in Slot : Owns(k) /\ Obj(k) = Object(e)
    BY <2>1 DEF OwnInv
  <2>3. OwnerShape(k) /\ k <= top
    BY <2>2, RuntimeRefers DEF Owns
  <2>4. e < k
    BY <2>2, <2>3 DEF OwnerShape, Object
  <2> QED
    BY <1>1, <2>3, <2>4, SlotIs
<1>8. Alive' = Alive \cup {e} /\ e \notin Alive
  BY <1>2, <1>4, <1>7 DEF Alive, Inv, TypeOK
<1>9. e # 0
  BY SlotIs
<1>10. Activities' = Append(Activities, [role |-> "flying", about |-> e])
  BY <1>3, <1>6 DEF Activity, Role
<1>11. Lifetime!Raise(e)
  BY <1>8, <1>9, <1>10 DEF Lifetime!Raise, Alive
<1> QED
  BY <1>11

\* A rethrow starts a flight about what the handler it is executed in is about.
LEMMA RethrowReraises ==
    ASSUME Inv, OwnInv, View', Rethrow PROVE Lifetime!Reraise
<1>0. Running /\ PushThrowFrame(Null, NoInfo) /\ exc' = exc
  BY DEF Rethrow
<1>1. PICK n \in Slot :
            /\ n = top + 1 /\ frame'[n].kind = "throw" /\ frame'[n].mach = top
            /\ Obj(n)' = Null /\ Info(n)' = NoInfo /\ IsRuntime(n)'
            /\ KeptBelowSlot(n) /\ \A q \in Slot : q # n => frame'[q] = frame[q]
            /\ Activities' = Append(Activities, Activity("throw", Referent'[n]))
  BY <1>0, PushedIs
<1>2. PICK m : m = top /\ m \in 0..MaxDepth /\ m \in Slot
  BY TopType DEF Slot
<1>3. PICK q : InnermostAt(m, q)
  <2>1. InnermostAt(m, InnermostRuntime(m))
    BY <1>2, InnermostIs DEF InnermostAt
  <2> QED
    BY <2>1
<1>4. q \in Nat /\ q <= m /\ m \in Nat /\ m < n /\ q < n /\ n \in Int
  BY <1>1, <1>2, <1>3, SlotIs DEF InnermostAt
<1>5. InnermostAt(m, q)'
  <2>1. ASSUME NEW r \in q + 1 .. m PROVE ~IsRuntime(r)'
    <3>1. r \in Slot /\ r < n
      BY <1>1, <1>2, <1>4, SlotIs
    <3> QED
      BY <1>1, <1>3, <3>1 DEF InnermostAt, KeptBelowSlot
  <2>2. q # 0 => q \in Slot /\ IsRuntime(q)'
    BY <1>1, <1>3, <1>4 DEF InnermostAt, KeptBelowSlot
  <2> QED
    BY <1>3, <2>1, <2>2 DEF InnermostAt
<1>6. Referent'[n] = IF q # 0 /\ frame'[q].kind = "catch" THEN Referent'[q] ELSE 0
  BY <1>1, <1>2, <1>5 DEF View
<1>7. CASE q = 0
  <2>1. Activities = <<>> /\ Referent'[n] = 0
    BY <1>2, <1>3, <1>6, <1>7, NewestIs
  <2> QED
    BY <1>0, <1>1, <2>1 DEF Lifetime!Reraise, Activity, Role
<1>8. CASE q # 0
  <2>1. q \in Slot /\ IsRuntime(q) /\ frame'[q] = frame[q] /\ IsRuntime(q)'
    BY <1>1, <1>3, <1>4, <1>8 DEF InnermostAt, KeptBelowSlot
  <2>2. PICK s \in Seq(Lifetime!Activity), w \in {"throw", "catch", "destroy"} :
            /\ w = frame[q].kind
            /\ Activities = Append(s, Activity(w, Referent[q]))
            /\ Activity(w, Referent[q]) \in Lifetime!Activity
    BY <1>2, <1>3, <1>8, NewestIs
  <2>3. PICK a, e, r : a = Activities /\ e = Activity(w, r) /\ r = Referent[q]
    OBVIOUS
  <2>4. a # <<>> /\ a[Len(a)] = e /\ e \in Lifetime!Activity
    BY <2>2, <2>3, SeqLast
  <2>5. e.about = r /\ (e.role = "handling" <=> w = "catch")
    BY <2>3 DEF Activity, Role
  <2>6. w = "catch" => Referent'[q] = r
    <3> SUFFICES ASSUME w = "catch" PROVE Referent'[q] = r
      OBVIOUS
    <3>1. PICK t \in Slot : Direct(q, t) /\ Referent[q] = t
      <4>1. Obj(q) # Null
        BY <2>1, <2>2, ViewHolds DEF View
      <4> QED
        BY <2>1, <4>1, ViewHolds DEF View
    <3>2. Direct(q, t)'
      BY <1>1, <1>4, <2>1, <3>1, DirectKept
    <3> QED
      BY <2>1, <2>3, <3>1, <3>2 DEF View
  <2>7. Referent'[n] = IF a # <<>> /\ a[Len(a)].role = "handling" THEN a[Len(a)].about ELSE 0
    BY <1>6, <1>8, <2>1, <2>2, <2>4, <2>5, <2>6
  <2>8. Activities' = Append(a, [role |-> "flying", about |-> Referent'[n]])
    BY <1>1, <2>3 DEF Activity, Role
  <2> QED
    BY <1>0, <2>3, <2>7, <2>8 DEF Lifetime!Reraise, Lifetime!Newest
<1> QED
  BY <1>7, <1>8

\* A dispatch that calls a handler has caught its exception.
LEMMA CallHandlerCatches ==
    ASSUME Inv, OwnInv, View', CallHandler PROVE Lifetime!Catch
<1>1. PICK p, m, n, x, y : p \in Slot /\ m \in Slot /\ n \in Slot /\ Handles(p, m, n, x, y)
  BY CallHandlerForm
<1>2. /\ p = top /\ n = p + 1 /\ top' = n /\ frame[p].kind = "throw" /\ frame[p].handler # 0
      /\ m = frame[p].mach /\ x.mach = m /\ x.kind = "catch" /\ x.ci = frame[p].ci
      /\ y.kind = "code" /\ n # p
      /\ \A q \in Slot : frame'[q] = IF q = n THEN y ELSE IF q = p THEN x ELSE frame[q]
  BY <1>1, SlotIs DEF Handles
<1>3. exc' = exc
  BY DEF CallHandler
<1>4. frame'[p] = x /\ frame'[n] = y
  BY <1>1, <1>2
<1>5. IsRuntime(p) /\ IsRuntime(p)' /\ ~IsRuntime(n)'
  BY <1>2, <1>4 DEF IsRuntime
<1>6. NewestAt(p)
  BY <1>1, <1>2, <1>5, ViewHolds DEF View, NewestAt
<1>7. NewestAt(p)'
  <2>1. \A j \in Slot : j > p => j = n \/ j > top'
    BY <1>1, <1>2, SlotIs
  <2> QED
    BY <1>1, <1>2, <1>5, <2>1 DEF View, NewestAt
<1>8. KeptBelowSlot(p)
  <2>1. \A q \in Slot : q < p => q # p /\ q # n
    BY <1>1, <1>2, SlotIs
  <2> QED
    BY <1>2, <2>1 DEF KeptBelowSlot, IsRuntime
<1>9. Obj(p)' = Obj(p) /\ Info(p)' = Info(p)
  BY <1>2, <1>4 DEF Obj, Info
<1>10. m \in 0..m /\ \A q \in Slot : ~(m < q /\ q <= m)
  BY <1>1, SlotIs
<1>11. Referent'[p] = Referent[p]
  BY <1>1, <1>2, <1>4, <1>5, <1>8, <1>9, <1>10, SameReferent
<1>12. Referent[p] # 0
  <2>1. Obj(p) # Null
    BY <1>1, <1>2 DEF OwnInv, Resolved
  <2>2. Referent[p] \in Slot
    BY <1>1, <1>5, <2>1, ReferentKnown
  <2> QED
    BY <2>2, SlotIs
<1>13. PICK s \in Seq(Lifetime!Activity), t \in 0..MaxDepth :
                /\ t = Referent[p]
                /\ Activities = Append(s, Activity("throw", t)) /\ Activity("throw", t) \in Lifetime!Activity
                /\ Activities' = Append(s, Activity("catch", t)) /\ Activity("catch", t) \in Lifetime!Activity
  BY <1>1, <1>2, <1>4, <1>6, <1>7, <1>8, <1>11, NewestChanges
<1> QED
  BY <1>3, <1>12, <1>13, IsCatch

\* A handler returns.
LEMMA CatchReturnLeaves ==
    ASSUME Inv, OwnInv, View', CatchReturn PROVE Lifetime!LeaveHandler
<1>1. PICK n, p, x :
            /\ n \in Slot /\ p \in Slot
            /\ n = top /\ IsCode(n) /\ p = n - 1 /\ top' = p /\ frame'[n] = Free /\ objects' = objects
            /\ \A q \in Slot : q # n /\ q # p => frame'[q] = frame[q]
            /\ frame[n].block # 0 /\ frame[n].state = HandlerState(frame[n].fn, frame[n].block)
            /\ frame[p].kind = "catch" /\ frame'[p] = x
            /\ x.kind = "destroy" /\ x.mach = frame[p].mach
            /\ x.ci = frame[p].ci /\ x.handler = frame[p].handler
  BY CatchReturnForm
<1>2. exc' = exc
  BY DEF CatchReturn
<1>3. IsRuntime(p) /\ IsRuntime(p)'
  BY <1>1 DEF IsRuntime
<1>4. NewestAt(p)
  <2>1. \A j \in Slot : j > p => j = n \/ j > top
    BY <1>1, SlotIs
  <2>2. ~IsRuntime(n)
    BY <1>1, CodeFrameType DEF Inv
  <2> QED
    BY <1>3, <2>1, <2>2, ViewHolds DEF View, NewestAt
<1>5. NewestAt(p)'
  BY <1>1, <1>3 DEF View, NewestAt
<1>6. KeptBelowSlot(p)
  <2>1. \A q \in Slot : q < p => q # p /\ q # n
    BY <1>1, SlotIs
  <2> QED
    BY <1>1, <2>1 DEF KeptBelowSlot, IsRuntime
<1>7. Obj(p)' = Obj(p) /\ Info(p)' = Info(p)
  BY <1>1 DEF Obj, Info
<1>8. PICK m \in 0..MaxDepth : m = frame[p].mach /\ m = frame'[p].mach
  BY <1>1, <1>3, RuntimeRefers
<1>9. m \in 0..m /\ \A q \in Slot : ~(m < q /\ q <= m)
  BY SlotIs
<1>10. Referent'[p] = Referent[p]
  BY <1>1, <1>3, <1>6, <1>7, <1>8, <1>9, SameReferent
<1>11. PICK s \in Seq(Lifetime!Activity), t \in 0..MaxDepth :
                /\ t = Referent[p]
                /\ Activities = Append(s, Activity("catch", t)) /\ Activity("catch", t) \in Lifetime!Activity
                /\ Activities' = Append(s, Activity("destroy", t)) /\ Activity("destroy", t) \in Lifetime!Activity
  BY <1>1, <1>4, <1>5, <1>6, <1>10, NewestChanges
<1> QED
  BY <1>2, <1>11, IsLeaveHandler

\* What a runtime frame destroys, as it goes, is one exception at most.
LEMMA DestroysOnly ==
    ASSUME Inv, NEW b, NEW t, exc' = IF b THEN [exc EXCEPT ![t] = NoInfo] ELSE exc
    PROVE  Alive' \subseteq Alive
BY DEF Alive, Inv, TypeOK

\* A runtime frame that has called its handler goes.
LEMMA ContinueEnds ==
    ASSUME Inv, OwnInv, View', ContinueAfterException PROVE Lifetime!EndHandler
<1>1. PICK p, m, x : p \in Slot /\ m \in Slot /\ Resumes(p, m, x)
  BY ContinueForm
<1>2. /\ p = top /\ top' = m /\ frame[p].kind = "destroy" /\ m = frame[p].mach /\ x.kind = "code"
      /\ \A q \in Slot : frame'[q] = IF q = p THEN Free ELSE IF q = m THEN x ELSE frame[q]
  BY <1>1 DEF Resumes
<1>3. IsRuntime(p)
  BY <1>2 DEF IsRuntime
<1>4. IsCode(m) /\ m < p
  BY <1>1, <1>2, <1>3, RuntimeRefers DEF Inv, StackShape, RuntimeShape, CatchShape
<1>5. ~IsRuntime(m) /\ ~IsRuntime(m)'
  BY <1>1, <1>2, <1>4, CodeFrameType, SlotIs DEF Inv, IsRuntime
<1>6. NewestAt(p)
  BY <1>1, <1>2, <1>3, ViewHolds DEF View, NewestAt
<1>7. \A j \in Slot : j >= p => ~IsRuntime(j)'
  <2>1. \A j \in Slot : j >= p => j > top'
    BY <1>1, <1>2, <1>4, SlotIs
  <2> QED
    BY <2>1 DEF View
<1>8. KeptBelowSlot(p)
  <2>1. ASSUME NEW q \in Slot, q < p
        PROVE  (IsRuntime(q)' <=> IsRuntime(q)) /\ (IsRuntime(q) => frame'[q] = frame[q])
    <3>1. q # p
      BY <1>1, <2>1, SlotIs
    <3>2. CASE q = m
      BY <1>5, <3>2
    <3>3. CASE q # m
      BY <1>2, <3>1, <3>3 DEF IsRuntime
    <3> QED
      BY <3>2, <3>3
  <2> QED
    BY <2>1 DEF KeptBelowSlot
<1>9. Alive' \subseteq Alive
  <2>1. PICK b, t : b = (T.ci.throw_info_if_owner # NoInfo) /\ t = T.ci.exception_object_or_link.slot
    OBVIOUS
  <2>2. exc' = IF b THEN [exc EXCEPT ![t] = NoInfo] ELSE exc
    BY <2>1 DEF ContinueAfterException
  <2> QED
    BY <2>2, DestroysOnly
<1>10. PICK s \in Seq(Lifetime!Activity), t \in 0..MaxDepth :
                /\ Activities = Append(s, Activity("destroy", t)) /\ Activity("destroy", t) \in Lifetime!Activity
                /\ Activities' = s
  BY <1>1, <1>2, <1>6, <1>7, <1>8, NewestRemoved
<1> QED
  BY <1>9, <1>10, IsEndHandler

\* The exception of frame k is out of reach of a change to slot n.
LEMMA DirectOver ==
    ASSUME Inv, OwnInv, NEW n \in Slot, KeptBelowSlot(n), NEW p \in Slot, IsRuntime(p)',
           NEW k \in Slot, IsRuntime(k), Obj(p)' = Obj(k), Info(p)' = Info(k),
           ~Owns(k) => Obj(k).slot < n,
           NEW t, Direct(k, t)
    PROVE  Direct(p, t)'
<1>1. Owns(p)' <=> Owns(k)
  BY DEF Owns, Info
<1>2. CASE Owns(k)
  BY <1>1, <1>2 DEF Direct
<1>3. CASE ~Owns(k)
  <2>1. PICK o \in Slot : o = Obj(k).slot /\ Owns(o) /\ Obj(o) = Object(t) /\ Obj(k).to = "link"
    BY <1>3 DEF Direct
  <2>2. IsRuntime(o) /\ o < n
    BY <1>3, <2>1 DEF Owns
  <2>3. IsRuntime(o)' /\ frame'[o] = frame[o]
    BY <2>2 DEF KeptBelowSlot
  <2>4. Owns(o)' /\ Obj(o)' = Object(t)
    BY <2>1, <2>3 DEF Obj, Owns
  <2> QED
    BY <1>1, <1>3, <2>1, <2>4 DEF Direct
<1> QED
  BY <1>2, <1>3

\* A dispatch unwinds a catch frame: it takes its exception, or destroys it.
LEMMA CatchFrameAbandons ==
    ASSUME Inv, OwnInv, View', TakeFromCatchFrame \/ PassCatchFrame PROVE Lifetime!AbandonHandler
<1>1. PICK p, m, c, x :
            /\ p \in Slot /\ m \in Slot /\ c \in 0..MaxDepth
            /\ Unwinds(p, m, c, x) /\ frame[m].kind = "catch" /\ c = frame[m].mach
            /\ x.ci.primary_frame_ptr = frame[m].ci.primary_frame_ptr
            /\ x.ci.unwind_context = frame[m].ci.unwind_context
            /\ TakeFromCatchFrame => x.ci = frame[m].ci
            /\ ~TakeFromCatchFrame =>
                x.ci.exception_object_or_link = Obj(p) /\ x.ci.throw_info_if_owner = Info(p)
  BY CatchFrameForm
<1>2. /\ frame[p].kind = "throw" /\ x.kind = "throw" /\ frame[p].mach = m /\ x.mach = c
      /\ p = top /\ p = top'
      /\ \A q \in Slot : frame'[q] = IF q = p THEN x ELSE IF q = m THEN Free ELSE frame[q]
  BY <1>1 DEF Unwinds
<1>3. frame'[p] = x /\ IsRuntime(p) /\ IsRuntime(p)' /\ IsRuntime(m)
  BY <1>1, <1>2 DEF IsRuntime
<1>4. /\ m < p /\ m \in 0..MaxDepth
      /\ \A q \in Slot : m < q /\ q < p => frame[q] = Free
  BY <1>1, <1>2, <1>3, RuntimeRefers
<1>5. m # p /\ frame'[m] = Free /\ ~IsRuntime(m)'
  BY <1>1, <1>2, <1>4, SlotIs DEF IsRuntime, Free
<1>6. NewestAt(p) /\ NewestAt(p)'
  BY <1>1, <1>2, <1>3, ViewHolds DEF View, NewestAt
<1>7. KeptBelowSlot(m)
  <2>1. \A q \in Slot : q < m => q # m /\ q # p
    BY <1>1, <1>4, SlotIs
  <2> QED
    BY <1>2, <2>1 DEF KeptBelowSlot, IsRuntime
<1>8. \A j \in Slot : m < j /\ j < p => ~IsRuntime(j) /\ ~IsRuntime(j)'
  <2>1. \A j \in Slot : m < j /\ j < p => j # p /\ j # m
    BY <1>1, <1>4, SlotIs
  <2> QED
    BY <1>2, <1>4, <2>1 DEF IsRuntime, Free
<1>9. View
  BY ViewHolds
<1>10. Obj(m) # Null
  BY <1>1, <1>9 DEF View
<1>11. ~Owns(m) => Obj(m).slot < m
  BY <1>1, <1>3, <1>10, RuntimeRefers, SlotIs
<1>12. ASSUME TakeFromCatchFrame PROVE Referent'[p] = Referent[p] /\ Alive' \subseteq Alive
  <2>1. PICK t \in Slot : Direct(m, t) /\ Referent[m] = t
    BY <1>1, <1>3, <1>9, <1>10 DEF View
  <2>2. Referent[p] = t
    <3>1. Obj(p) \in {Null, Link(m)}
      BY <1>2, <1>12 DEF TakeFromCatchFrame, TakesException, Obj, T
    <3>2. CASE Obj(p) = Null
      <4>1. InnermostAt(m, m) /\ m # 0
        BY <1>1, <1>3, SlotIs DEF InnermostAt
      <4>2. Referent[p] = IF m # 0 /\ frame[m].kind = "catch" THEN Referent[m] ELSE 0
        <5>1. \A k \in Slot, n \in 0..MaxDepth : \A q :
                IsRuntime(k) /\ Obj(k) = Null /\ frame[k].mach = n /\ InnermostAt(n, q)
                    => Referent[k] = IF q # 0 /\ frame[q].kind = "catch" THEN Referent[q] ELSE 0
          BY <1>9 DEF View
        <5> QED
          BY <1>1, <1>2, <1>3, <1>4, <3>2, <4>1, <5>1
      <4> QED
        BY <1>1, <2>1, <4>1, <4>2
    <3>3. CASE Obj(p) = Link(m)
      <4>1. Obj(p).to = "link" /\ Obj(p).slot = m
        BY <3>3 DEF Link
      <4>2. ~Owns(p)
        <5>1. Owns(p) => Obj(p).to = "object"
          BY <1>1, <1>3, RuntimeRefers
        <5> QED
          BY <4>1, <5>1
      <4>3. Owns(m)
        BY <1>1, <1>3, <4>1, <4>2, RuntimeRefers
      <4>4. Obj(m) = Object(t)
        BY <2>1, <4>3 DEF Direct
      <4>5. Direct(p, t)
        BY <1>1, <4>1, <4>2, <4>3, <4>4 DEF Direct
      <4> QED
        BY <1>1, <1>3, <1>9, <4>5 DEF View
    <3> QED
      BY <3>1, <3>2, <3>3
  <2>3. Obj(p)' = Obj(m) /\ Info(p)' = Info(m)
    BY <1>1, <1>3, <1>12 DEF Obj, Info
  <2>4. Direct(p, t)'
    BY <1>1, <1>3, <1>7, <1>11, <2>1, <2>3, DirectOver
  <2>5. Referent'[p] = t
    BY <1>1, <1>3, <2>4 DEF View
  <2>6. exc' = exc
    BY <1>12 DEF TakeFromCatchFrame
  <2> QED
    BY <2>2, <2>5, <2>6 DEF Alive
<1>13. ASSUME ~TakeFromCatchFrame PROVE Referent'[p] = Referent[p] /\ Alive' \subseteq Alive
  <2>1. /\ PassCatchFrame
        /\ Obj(p)' = Obj(p) /\ Info(p)' = Info(p)
    BY <1>1, <1>3, <1>13 DEF Obj, Info
  <2>2. frame[p].pc = "destroy"
    BY <1>2, <2>1 DEF PassCatchFrame, Dispatching
  <2>3. Obj(p) # Null /\ Obj(p) # Link(m)
    BY <1>1, <1>2, <2>2 DEF OwnInv, Resolved
  <2>4. PICK t \in Slot : Direct(p, t) /\ Referent[p] = t
    BY <1>1, <1>3, <1>9, <2>3 DEF View
  <2>5. ASSUME ~Owns(p) PROVE Obj(p).slot < m
    <3>1. Obj(p) \in ObjOrLink /\ m \in Int
      BY <1>1, <1>3, RuntimeFrameType, SlotIs DEF Inv, Obj, RuntimeFrame, CatchInfo
    <3>2. PICK o \in Slot : o = Obj(p).slot /\ Owns(o) /\ Obj(p).to = "link"
      BY <2>4, <2>5 DEF Direct
    <3>3. o # m
      BY <2>3, <3>1, <3>2 DEF ObjOrLink, Link
    <3>4. o <= frame[p].mach
      BY <1>1, <1>3, <2>5, <3>2, RuntimeRefers
    <3>5. o \in Int
      BY <3>2, SlotIs
    <3>6. o < m
      BY <1>2, <3>1, <3>3, <3>4, <3>5
    <3> QED
      BY <3>2, <3>6
  <2>6. Direct(p, t)'
    BY <1>1, <1>3, <1>7, <2>1, <2>4, <2>5, DirectOver
  <2>7. Referent'[p] = t
    BY <1>1, <1>3, <2>6 DEF View
  <2>8. PICK b, r : b = (frame[T.mach].ci.throw_info_if_owner # NoInfo)
                    /\ r = frame[T.mach].ci.exception_object_or_link.slot
    OBVIOUS
  <2>9. exc' = IF b THEN [exc EXCEPT ![r] = NoInfo] ELSE exc
    BY <2>1, <2>8 DEF PassCatchFrame
  <2> QED
    BY <2>4, <2>7, <2>9, DestroysOnly
<1>14. Referent'[p] = Referent[p] /\ Alive' \subseteq Alive
  BY <1>12, <1>13
<1>15. PICK u, v : u = "catch" /\ v = "throw"
  OBVIOUS
<1>16. /\ u = frame[m].kind /\ v = frame[p].kind /\ v = frame'[p].kind
  BY <1>1, <1>2, <1>3, <1>15
<1>17. PICK s \in Seq(Lifetime!Activity), r, t \in 0..MaxDepth :
                    /\ Activities = Append(Append(s, Activity(u, r)), Activity(v, t))
                    /\ Activities' = Append(s, Activity(v, t))
                    /\ Activity(u, r) \in Lifetime!Activity /\ Activity(v, t) \in Lifetime!Activity
  <2>1. SecondGoes(m, p, u, v)
    BY <1>3, <1>4, <1>5, <1>6, <1>7, <1>8, <1>14, <1>16 DEF SecondGoes
  <2> QED
    BY <1>1, <2>1, SecondRemoved
<1> QED
  BY <1>14, <1>15, <1>17, IsAbandonHandler

\* A step that leaves every frame and every exception object leaves the
\* activities.
LEMMA FrameStays ==
    ASSUME Inv, OwnInv, View', UNCHANGED <<frame, exc>>
    PROVE  UNCHANGED Lifetime!vars
BY AllStay DEF KeptBelowSlot, IsRuntime

\* Every step is one of ExceptionLifetime, or none.
LEMMA NextLifetime ==
    Inv /\ OwnInv /\ Inv' /\ OwnInv' /\ [Next]_vars => [Lifetime!Next]_(Lifetime!vars)
<1> SUFFICES ASSUME Inv, OwnInv, Inv', OwnInv', [Next]_vars
             PROVE  [Lifetime!Next]_(Lifetime!vars)
  OBVIOUS
<1>1. View'
  BY ViewNext
<1>2. CASE UserCode
  <2>1. UNION {0..Eh[f].last : f \in Fns} \subseteq Nat
    BY EhAssumption
  <2>2. CASE (\E f \in Fns : Call(f)) \/ (\E s \in Nat : Enter(s)) \/ Leave \/ Return
    BY <1>1, <2>2, UserStays
  <2>3. CASE CatchReturn
    BY <1>1, <2>3, CatchReturnLeaves DEF Lifetime!Next
  <2>4. ASSUME NEW t \in Types, Throw(t) PROVE \E e \in Slot : Lifetime!Raise(e)
    BY <1>1, <2>4, ThrowRaises
  <2>5. CASE Rethrow
    BY <1>1, <2>5, RethrowReraises DEF Lifetime!Next
  <2>6. CASE \E t \in Types : Throw(t)
    BY <2>4, <2>6 DEF Lifetime!Next
  <2> QED
    BY <1>2, <2>1, <2>2, <2>3, <2>5, <2>6 DEF UserCode
<1>3. CASE Runtime
  <2>1. CASE ProbeFails \/ VisitVerifyFails \/ VisitForeignFrame
    BY <1>1, <2>1, FrameStays DEF ProbeFails, VisitVerifyFails, VisitForeignFrame, BugCheck
  <2>2. CASE ProbeForObject
    BY <1>1, <2>2, ProbeStays
  <2>3. CASE UnwindFrame
    BY <1>1, <2>3, UnwindFrameStays
  <2>4. CASE VisitCatching \/ VisitPassing \/ UnwindEdge \/ CalloutReturns \/ DestroyAtCatchFrame
    BY <1>1, <2>4, RuntimeStays
  <2>5. CASE TakeFromCatchFrame \/ PassCatchFrame
    BY <1>1, <2>5, CatchFrameAbandons DEF Lifetime!Next
  <2>6. CASE CallHandler
    BY <1>1, <2>6, CallHandlerCatches DEF Lifetime!Next
  <2>7. CASE ContinueAfterException
    BY <1>1, <2>7, ContinueEnds DEF Lifetime!Next
  <2> QED
    BY <1>3, <2>1, <2>2, <2>3, <2>4, <2>5, <2>6, <2>7 DEF Runtime
<1>4. CASE Halted \/ UNCHANGED vars
  BY <1>1, <1>4, FrameStays DEF Halted, vars
<1> QED
  BY <1>2, <1>3, <1>4 DEF Next

\* At first nothing is thrown.
LEMMA InitLifetime == Init => Lifetime!Init
<1> SUFFICES ASSUME Init PROVE Lifetime!Init
  OBVIOUS
<1>1. Inv /\ OwnInv
  BY InitInv, InitOwn
<1>2. \A k \in Slot : ~IsRuntime(k)
  BY DEF Init, IsRuntime, Free
<1>3. InnermostAt(top, 0)
  BY <1>1, <1>2, TopType, SlotIs DEF InnermostAt
<1>4. Activities = <<>>
  BY <1>1, <1>3, NewestIs
<1>5. {t \in Slot : exc[t] # NoInfo} = {}
  BY DEF Init
<1> QED
  BY <1>4, <1>5 DEF Lifetime!Init

\* The runtime implements ExceptionLifetime.  A throw (throw.cpp:147-163) is a
\* Raise, `throw;` a Reraise, the call of a handler a Catch and its return a
\* LeaveHandler (capture.asm:322-359); the end of the destroying frame ends the
\* handler (capture.asm:361-381), and a dispatch that crosses a catch frame
\* abandons it (throw.cpp:246-260).  Every other step, whatever the dispatcher
\* visits, unwinds or calls out to, changes no activity and no exception object.
\* So each object is destroyed by the step that ends the last activity about it.
THEOREM RefinesLifetime == Spec => ImplementsLifetime
<1>1. Init => Inv /\ OwnInv /\ Lifetime!Init
  BY InitInv, InitOwn, InitLifetime
<1>2. Inv /\ OwnInv /\ [Next]_vars => Inv' /\ OwnInv'
  BY NextInv, NextOwn
<1>3. Inv /\ OwnInv /\ Inv' /\ OwnInv' /\ [Next]_vars => [Lifetime!Next]_(Lifetime!vars)
  BY NextLifetime
<1> QED
  BY <1>1, <1>2, <1>3, PTL DEF Spec, ImplementsLifetime, Lifetime!Spec

----------------------------------------------------------------------------
(***************************************************************************)
(* What ExceptionLifetime promises, for every number of exceptions: the    *)
(* module it is proved of has parameters of its own.                       *)
(***************************************************************************)

CONSTANTS
    Exceptions,  \* the identities of exception objects
    NoException  \* what a rethrow outside every handler is about

VARIABLES
    living,     \* the exception objects constructed and not yet destroyed
    activities  \* the activities, the newest last

Promise == INSTANCE ExceptionLifetime
           WITH Exception <- Exceptions, None <- NoException, alive <- living, stack <- activities

PromiseInv == Promise!TypeOK /\ Promise!AliveIffReferred

\* Starting an activity about e refers to e as well.
LEMMA ReferredAppend ==
    ASSUME NEW s \in Seq(Promise!Activity), NEW a \in Promise!Activity
    PROVE  /\ Append(s, a) \in Seq(Promise!Activity)
           /\ Promise!Referred(Append(s, a)) = Promise!Referred(s) \cup {a.about}
<1> DEFINE t == Append(s, a)
<1>1. /\ t \in Seq(Promise!Activity) /\ Len(s) \in Nat /\ Len(t) = Len(s) + 1
      /\ \A i \in 1..Len(s) : t[i] = s[i]
      /\ t[Len(s) + 1] = a
  OBVIOUS
<1>2. 1..Len(t) = (1..Len(s)) \cup {Len(s) + 1}
  BY <1>1
<1> HIDE DEF t
<1>3. Promise!Referred(t) = Promise!Referred(s) \cup {a.about}
  BY <1>1, <1>2 DEF Promise!Referred
<1> QED
  BY <1>1, <1>3 DEF t

\* Ending the newest activities of a stack refers to nothing new.
LEMMA ReferredFront ==
    ASSUME NEW s \in Seq(Promise!Activity), NEW n \in 0..Len(s)
    PROVE  /\ SubSeq(s, 1, n) \in Seq(Promise!Activity)
           /\ Promise!Referred(SubSeq(s, 1, n)) \subseteq Promise!Referred(s)
<1> DEFINE t == SubSeq(s, 1, n)
<1>1. /\ t \in Seq(Promise!Activity) /\ Len(t) = n /\ Len(s) \in Nat
      /\ \A i \in 1..n : t[i] = s[i]
  OBVIOUS
<1> HIDE DEF t
<1>2. Promise!Referred(t) \subseteq Promise!Referred(s)
  BY <1>1 DEF Promise!Referred
<1> QED
  BY <1>1, <1>2 DEF t

\* A change of role is about the same exceptions.
LEMMA ReferredRole ==
    ASSUME NEW s \in Seq(Promise!Activity), s # <<>>,
           NEW r \in {"flying", "handling", "leaving"}
    PROVE  /\ [s EXCEPT ![Len(s)].role = r] \in Seq(Promise!Activity)
           /\ Promise!Referred([s EXCEPT ![Len(s)].role = r]) = Promise!Referred(s)
<1> DEFINE t == [s EXCEPT ![Len(s)].role = r]
<1>1. Len(s) \in Nat /\ Len(s) >= 1
  OBVIOUS
<1>2. s[Len(s)] \in Promise!Activity
  BY <1>1
<1>3. [s[Len(s)] EXCEPT !.role = r] \in Promise!Activity
  BY <1>2 DEF Promise!Activity
<1>4. /\ t \in Seq(Promise!Activity) /\ Len(t) = Len(s)
      /\ \A i \in 1..Len(s) : t[i].about = s[i].about
  BY <1>1, <1>2, <1>3 DEF Promise!Activity
<1> HIDE DEF t
<1>5. Promise!Referred(t) = Promise!Referred(s)
  BY <1>4 DEF Promise!Referred
<1> QED
  BY <1>4, <1>5 DEF t

\* The newest activity is one of the stack's.
LEMMA NewestType ==
    ASSUME Promise!TypeOK, activities # <<>>
    PROVE  /\ Promise!Newest \in Promise!Activity
           /\ Promise!Newest.about \in Exceptions \cup {NoException}
           /\ Promise!Newest.about \in Promise!Referred(activities)
           /\ Len(activities) \in Nat /\ Len(activities) >= 1
<1>1. Len(activities) \in Nat /\ Len(activities) >= 1
  BY DEF Promise!TypeOK
<1>2. Promise!Newest \in Promise!Activity
  BY <1>1 DEF Promise!TypeOK, Promise!Newest
<1> QED
  BY <1>1, <1>2 DEF Promise!Newest, Promise!Referred, Promise!Activity

----------------------------------------------------------------------------
\* Nothing is alive, and nothing referred to, before the first throw.
LEMMA PromiseInit == Promise!Init => PromiseInv
<1> SUFFICES ASSUME Promise!Init PROVE PromiseInv
  OBVIOUS
<1>1. activities \in Seq(Promise!Activity) /\ Len(activities) = 0
  BY DEF Promise!Init
<1> QED
  BY <1>1 DEF Promise!Init, PromiseInv, Promise!TypeOK, Promise!AliveIffReferred, Promise!Referred

\* Every step keeps alive exactly what the remaining activities are about.
LEMMA PromiseNext == PromiseInv /\ [Promise!Next]_(Promise!vars) => PromiseInv'
<1> SUFFICES ASSUME PromiseInv, [Promise!Next]_(Promise!vars) PROVE PromiseInv'
  OBVIOUS
<1> USE DEF PromiseInv
<1>1. /\ living = Promise!Referred(activities) \ {NoException} /\ living \subseteq Exceptions
      /\ activities \in Seq(Promise!Activity)
  BY DEF Promise!AliveIffReferred, Promise!TypeOK
<1>2. ASSUME NEW e \in Exceptions, Promise!Raise(e) PROVE PromiseInv'
  <2>1. [role |-> "flying", about |-> e] \in Promise!Activity
    BY DEF Promise!Activity
  <2>2. /\ activities' \in Seq(Promise!Activity)
        /\ Promise!Referred(activities') = Promise!Referred(activities) \cup {e}
    BY <1>1, <1>2, <2>1, ReferredAppend DEF Promise!Raise
  <2> QED
    BY <1>1, <1>2, <2>2 DEF Promise!Raise, Promise!TypeOK, Promise!AliveIffReferred, Promise!Referred
<1>3. CASE Promise!Reraise
  <2> DEFINE a == IF activities # <<>> /\ Promise!Newest.role = "handling"
                  THEN Promise!Newest.about ELSE NoException
  <2>1. /\ a \in Promise!Referred(activities) \cup {NoException}
        /\ [role |-> "flying", about |-> a] \in Promise!Activity
    BY NewestType DEF Promise!Activity
  <2>2. /\ activities' \in Seq(Promise!Activity)
        /\ Promise!Referred(activities') = Promise!Referred(activities) \cup {a}
    <3>1. activities' = Append(activities, [role |-> "flying", about |-> a])
      BY <1>3 DEF Promise!Reraise
    <3> HIDE DEF a
    <3> QED
      BY <1>1, <2>1, <3>1, ReferredAppend
  <2> HIDE DEF a
  <2>3. living' = living
    BY <1>3 DEF Promise!Reraise
  <2> QED
    BY <1>1, <2>1, <2>2, <2>3 DEF Promise!TypeOK, Promise!AliveIffReferred, Promise!Referred
<1>4. CASE Promise!Catch \/ Promise!LeaveHandler
  <2>1. /\ activities' \in Seq(Promise!Activity) /\ living' = living
        /\ Promise!Referred(activities') = Promise!Referred(activities)
    BY <1>1, <1>4, ReferredRole DEF Promise!Catch, Promise!LeaveHandler
  <2> QED
    BY <1>1, <2>1 DEF Promise!TypeOK, Promise!AliveIffReferred, Promise!Referred
<1>5. CASE Promise!EndHandler
  <2>1. Len(activities) - 1 \in 0..Len(activities)
    BY <1>1, <1>5, NewestType DEF Promise!EndHandler
  <2>2. /\ activities' \in Seq(Promise!Activity)
        /\ Promise!Referred(activities') \subseteq Promise!Referred(activities)
    BY <1>1, <1>5, <2>1, ReferredFront DEF Promise!EndHandler
  <2>3. living' = living \cap Promise!Referred(activities')
    BY <1>5 DEF Promise!EndHandler
  <2> QED
    BY <1>1, <2>2, <2>3 DEF Promise!TypeOK, Promise!AliveIffReferred, Promise!Referred
<1>6. CASE Promise!AbandonHandler
  <2> DEFINE front == SubSeq(activities, 1, Len(activities) - 2)
  <2>1. activities # <<>> /\ Len(activities) - 2 \in 0..Len(activities)
    BY <1>1, <1>6 DEF Promise!AbandonHandler
  <2>2. front \in Seq(Promise!Activity) /\ Promise!Referred(front) \subseteq Promise!Referred(activities)
    BY <1>1, <2>1, ReferredFront
  <2>3. activities' = Append(front, Promise!Newest) /\ living' = living \cap Promise!Referred(activities')
    BY <1>6 DEF Promise!AbandonHandler
  <2> HIDE DEF front
  <2>4. /\ activities' \in Seq(Promise!Activity)
        /\ Promise!Referred(activities') \subseteq Promise!Referred(activities)
    BY <2>1, <2>2, <2>3, ReferredAppend, NewestType
  <2> QED
    BY <1>1, <2>3, <2>4 DEF Promise!TypeOK, Promise!AliveIffReferred, Promise!Referred
<1>7. CASE UNCHANGED Promise!vars
  BY <1>7 DEF Promise!vars, Promise!TypeOK, Promise!AliveIffReferred, Promise!Referred
<1> QED
  BY <1>2, <1>3, <1>4, <1>5, <1>6, <1>7 DEF Promise!Next

\* With any number of exceptions and activities, an exception object is alive
\* exactly as long as some flight or handler is about it: what capture.asm and
\* throw.cpp promise their callers, given ImplementsLifetime of ThrowX64.
THEOREM AliveWhileReferred == Promise!Spec => []Promise!AliveIffReferred
<1>1. PromiseInv => Promise!AliveIffReferred
  BY DEF PromiseInv
<1> QED
  BY <1>1, PromiseInit, PromiseNext, PTL DEF Promise!Spec

=============================================================================
