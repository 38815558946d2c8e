--------------------------- MODULE ThrowX86Proofs ---------------------------
(***************************************************************************)
(* Theorems about ThrowX86, for every program and every depth of stack:    *)
(* the shape of the stack and of the chain of registrations through it,    *)
(* which automatic objects the states in the functions' frames owe, how    *)
(* far the function is unwound when an exception leaves a handler, and     *)
(* which frame owns an exception.                                          *)
(***************************************************************************)
EXTENDS ThrowX86, EhTablesProofs

----------------------------------------------------------------------------
(***************************************************************************)
(* The invariant.                                                          *)
(***************************************************************************)

\* The registration that was the newest when that of frame k was made, or
\* when the dispatch in slot k came to where it is.
Before(k) == IF IsFunction(k) THEN frame[k].next ELSE frame[k].reg

\* Between frame k and the registration before it nothing is registered.
Linked(k) ==
    /\ Before(k) < k
    /\ Before(k) \in Registered \cup {0}
    /\ \A q \in Slot : Before(k) < q /\ q < k => q \notin Registered
    /\ k \in Registered => frame[k].next = Before(k)

\* fs:[0] is the newest registration.
HeadIsNewest ==
    /\ head \in Registered \cup {0}
    /\ \A q \in Slot : head < q => q \notin Registered

\* Registration r is that of a function, or of a catch frame for one.
Catcher(r) == r >= 1 /\ (IsFunction(r) \/ frame[r].kind = "catch")

\* The newest frame of the code under registration r.
Body(r) == IF IsFunction(r) THEN r ELSE r + 1

\* The dispatch in slot q abandons the handler of catch frame r: it has searched
\* it for a catcher and found none.
Abandons(q, r) == frame[q].kind = "throw" /\ frame[q].pc = "abandon" /\ frame[q].reg = r

\* A handler has been chosen for the exception of frame k.
Handles(k) ==
    \/ frame[k].kind \in {"catch", "destroy"}
    \/ frame[k].kind = "throw" /\ frame[k].block # 0

\* It is one of the function under the registration the dispatch was at, and
\* nothing is left between that code and frame x in slot k.  While the runtime
\* works on a function, in a slot below k, only functions above it have chosen
\* handlers.
HandlingOf(x, k) ==
    LET r == x.reg
        p == x.tf.primary_frame_base
    IN  /\ Catcher(r)
        /\ p = Primary(r) /\ p \in Slot /\ p < k /\ IsFunction(p)
        /\ x.block \in Blocks(frame[p].fn)
        /\ x.tf.unwound_state = Block(frame[p].fn, x.block).try_low - 1
        /\ \A q \in Slot : Body(r) < q /\ q < k => frame[q] = Free
        /\ \A q \in Slot : q < k /\ frame[q].kind \in {"throw", "destroy"} => q < p

HandlingShape(k) == HandlingOf(frame[k], k)

\* A dispatch is at a function or a handler except when it looks for one.
ThrowOf(x, k) ==
    LET r == x.reg
    IN  /\ k < MaxDepth
        /\ x.pc \in {"visit", "search", "unwind", "cleanup", "copy", "call", "abandon"}
        /\ x.pc # "visit" => Catcher(r)
        /\ x.pc \in {"visit", "search", "abandon"} => x.block = 0
        /\ x.pc \in {"copy", "call"} => x.block # 0
        /\ x.pc \in {"unwind", "cleanup"} => x.target >= -1
        /\ x.pc \in {"unwind", "cleanup"} /\ x.block = 0 => x.target = UnwoundState(r)
        /\ x.pc = "abandon" => frame[r].kind = "catch" /\ State(r) <= UnwoundState(r)

ThrowShape(k) == ThrowOf(frame[k], k)

\* What stands between that code and the throw frame are dispatches whose
\* exceptions were abandoned with the destructors they ran.
GapShape(k) ==
    LET r == frame[k].reg
    IN  Catcher(r) => \A q \in Slot : Body(r) < q /\ q < k => frame[q] = Free \/ Abandons(q, r)

FunctionShape(k) == frame[k].state \in States(frame[k].fn)

\* A funclet runs on the catch frame that called it.
FuncletShape(k) ==
    /\ k > 1 /\ frame[k - 1].kind = "catch"
    /\ frame[k].block = frame[k - 1].block
    /\ frame[k].primary = frame[k - 1].tf.primary_frame_base

\* What is in slot k and how it stands on what is below.
SlotShape(k) ==
    /\ k > top => frame[k] = Free
    /\ k > 1 /\ frame[k - 1].kind = "catch" => frame[k].kind = "funclet"
    /\ frame[k].kind = "catch" => k < MaxDepth
    /\ frame[k].kind = "function" => FunctionShape(k)
    /\ frame[k].kind = "funclet" => FuncletShape(k)
    /\ frame[k].kind = "throw" => ThrowShape(k) /\ GapShape(k)
    /\ Handles(k) => HandlingShape(k)
    /\ IsFunction(k) \/ IsRuntime(k) => Linked(k)

\* The dispatches below the newest frame have called user code.
OthersWait ==
    \A k \in Slot : frame[k].kind = "throw" /\ k # top => frame[k].pc \in {"cleanup", "copy", "abandon"}

Shape == (\A k \in Slot : SlotShape(k)) /\ HeadIsNewest /\ OthersWait

IInv == TypeOK /\ Shape

----------------------------------------------------------------------------
(* The values a slot can hold, and what is under the newest frame.         *)

LEMMA Depth == MaxDepth \in Nat /\ MaxDepth >= 1 /\ 1 \in Slot /\ Slot \subseteq Nat
BY ProgramAssumption DEF Slot

\* A slot holds nothing but what its kind says.
LEMMA Kinds ==
    ASSUME TypeOK, NEW k \in Slot
    PROVE  /\ frame[k].kind \in {"free", "function", "funclet", "throw", "catch", "destroy"}
           /\ frame[k].kind = "free" => frame[k] = Free
           /\ IsFunction(k) => frame[k] \in FunctionFrame
           /\ frame[k].kind = "funclet" => frame[k] \in Funclet
           /\ IsRuntime(k) => frame[k] \in RuntimeFrame
BY DEF TypeOK, IsFunction, IsRuntime, Frame, Free, FunctionFrame, Funclet, RuntimeFrame

\* The newest frame is never one that waits for a catch funclet, and fs:[0] is
\* its registration or the newest one below.
LEMMA TopFacts ==
    ASSUME IInv
    PROVE  /\ top \in Slot
           /\ \A k \in Slot : k > top => frame[k] = Free
           /\ frame[top].kind # "catch"
           /\ head \in Registered \cup {0} /\ head <= top
           /\ \A q \in Slot : head < q => q \notin Registered
           /\ IsFunction(top) => head = top
           /\ frame[top].kind = "funclet" =>
                top > 1 /\ top - 1 \in Slot /\ frame[top - 1].kind = "catch" /\ head = top - 1
           /\ HasBoundary(top) => head = top
           /\ frame[top].kind = "throw" /\ ~HasBoundary(top) => head = frame[top].reg
<1>1. top \in Slot /\ head \in 0..MaxDepth /\ MaxDepth \in Nat /\ Slot \subseteq Nat
  BY Depth DEF IInv, TypeOK
<1>2. \A k \in Slot : k > top => frame[k] = Free
  BY DEF IInv, Shape, SlotShape
<1>3. frame[top].kind # "catch"
  <2>1. SUFFICES ASSUME frame[top].kind = "catch" PROVE FALSE
    OBVIOUS
  <2>2. PICK n \in Slot : n = top + 1
    BY <1>1, <2>1 DEF IInv, Shape, SlotShape, Slot
  <2>3. frame[n].kind = "funclet"
    BY <1>1, <2>1, <2>2 DEF IInv, Shape, SlotShape, Slot
  <2> QED
    BY <1>1, <1>2, <2>2, <2>3 DEF Free
<1>4. head \in Registered \cup {0} /\ \A q \in Slot : head < q => q \notin Registered
  BY DEF IInv, Shape, HeadIsNewest
<1>5. head <= top
  <2>1. \A k \in Slot : k > top => k \notin Registered
    BY <1>2 DEF Registered, IsFunction, HasBoundary, Free
  <2> QED
    BY <1>1, <1>4, <2>1 DEF Slot
<1>6. top \in Registered => head = top
  BY <1>1, <1>4, <1>5
<1>7. IsFunction(top) \/ HasBoundary(top) => top \in Registered
  BY <1>1 DEF Registered
<1>8. ASSUME frame[top].kind = "funclet"
      PROVE  top > 1 /\ top - 1 \in Slot /\ frame[top - 1].kind = "catch" /\ head = top - 1
  <2>1. top > 1 /\ top - 1 \in Slot /\ frame[top - 1].kind = "catch"
    BY <1>1, <1>8 DEF IInv, Shape, SlotShape, FuncletShape, Slot
  <2>2. top - 1 \in Registered /\ top \notin Registered
    BY <1>8, <2>1 DEF Registered, IsFunction, HasBoundary
  <2> QED
    BY <1>1, <1>4, <1>5, <2>1, <2>2
<1>9. ASSUME frame[top].kind = "throw", ~HasBoundary(top) PROVE head = frame[top].reg
  <2>1. Linked(top) /\ Before(top) = frame[top].reg /\ frame[top].reg \in 0..MaxDepth
    BY <1>1, <1>9, Kinds DEF IInv, Shape, SlotShape, IsRuntime, IsFunction, Before, RuntimeFrame
  <2>2. top \notin Registered
    BY <1>9 DEF Registered, IsFunction
  <2>3. Registered \subseteq Slot
    BY DEF Registered
  <2> QED
    BY <1>1, <1>4, <1>5, <2>1, <2>2, <2>3 DEF Linked
<1> QED
  BY <1>1, <1>2, <1>3, <1>4, <1>5, <1>6, <1>7, <1>8, <1>9

\* Under a registration with handlers there is a function, in one of its states.
LEMMA UnderCatcher ==
    ASSUME IInv, NEW r \in Slot, Catcher(r)
    PROVE  /\ r \in Registered
           /\ Primary(r) \in Slot /\ Primary(r) <= r /\ IsFunction(Primary(r))
           /\ frame[Primary(r)] \in FunctionFrame
           /\ Fn(r) \in Fns /\ State(r) \in States(Fn(r)) /\ State(r) \in Int
           /\ UnwoundState(r) \in Int /\ UnwoundState(r) >= -1
           /\ Body(r) \in Slot /\ Body(r) >= r
           /\ frame[r].kind = "catch" =>
                /\ frame[r + 1].kind = "funclet" /\ r + 1 \in Slot
                /\ HandlingShape(r) /\ frame[r] \in RuntimeFrame
<1>1. r \in Nat /\ r >= 1 /\ MaxDepth \in Nat /\ TypeOK /\ r \in Registered
  BY Depth DEF IInv, Slot, Registered, Catcher
<1>2. ASSUME NEW p \in Slot, IsFunction(p)
      PROVE  /\ frame[p].fn \in Fns /\ frame[p].state \in States(frame[p].fn) /\ frame[p].state \in Int
             /\ frame[p] \in FunctionFrame
  BY <1>1, <1>2, Kinds DEF IInv, Shape, SlotShape, FunctionShape, IsFunction, FunctionFrame
<1>3. CASE IsFunction(r)
  BY <1>1, <1>2, <1>3 DEF Primary, IsFunction, Fn, State, UnwoundState, Body
<1>4. CASE frame[r].kind = "catch"
  <2>1. HandlingShape(r) /\ frame[r] \in RuntimeFrame /\ r < MaxDepth
    BY <1>1, <1>4, Kinds DEF IInv, Shape, SlotShape, Handles, IsRuntime
  <2>2. r + 1 \in Slot /\ frame[r + 1].kind = "funclet"
    BY <1>1, <1>4, <2>1 DEF IInv, Shape, SlotShape, Slot
  <2>3. PICK p : p = frame[r].tf.primary_frame_base
    OBVIOUS
  <2>4. Primary(r) = p /\ p \in Slot /\ p < r /\ IsFunction(p)
    BY <1>4, <2>1, <2>3 DEF HandlingShape, HandlingOf, Primary
  <2>5. Block(frame[p].fn, frame[r].block).try_low \in Nat
    BY <1>2, <2>1, <2>3, <2>4, BlockFacts DEF HandlingShape, HandlingOf
  <2>6. UnwoundState(r) \in Int /\ UnwoundState(r) >= -1
    BY <1>4, <2>1, <2>3, <2>5 DEF UnwoundState, IsFunction, HandlingShape, HandlingOf
  <2> QED
    BY <1>1, <1>2, <1>4, <2>1, <2>2, <2>4, <2>6 DEF Fn, State, Body, IsFunction
<1> QED
  BY <1>3, <1>4 DEF Catcher

----------------------------------------------------------------------------
(* What a step leaves below the first slot it changes.                     *)

\* The frame in slot q is left alone, or the function in it changes its state:
\* to a lower one, or with no dispatch between it and slot n.
Kept(q, n) ==
    \/ frame'[q] = frame[q]
    \/ /\ frame[q].kind = "function" /\ frame'[q].kind = "function"
       /\ frame'[q].fn = frame[q].fn /\ frame'[q].next = frame[q].next
       /\ frame'[q].state \in States(frame[q].fn)
       /\ \/ frame'[q].state <= frame[q].state
          \/ \A j \in Slot : q < j /\ j < n => frame[j].kind # "throw"

KeptBelow(n) == \A q \in Slot : q < n => Kept(q, n)

\* What depends on nothing but the kinds and the registrations.
LEMMA KeptSlot ==
    ASSUME NEW n \in Int, KeptBelow(n), NEW k \in Slot, k < n
    PROVE  /\ frame'[k].kind = frame[k].kind
           /\ frame[k].kind # "function" => frame'[k] = frame[k]
           /\ IsFunction(k) => frame'[k].fn = frame[k].fn /\ frame'[k].next = frame[k].next
           /\ frame[k] = Free => frame'[k] = Free
           /\ k \in Registered' <=> k \in Registered
           /\ Before(k)' = Before(k)
           /\ Primary(k)' = Primary(k)
           /\ Body(k)' = Body(k)
           /\ (Catcher(k))' <=> Catcher(k)
           /\ UnwoundState(k)' = UnwoundState(k)
<1>1. Kept(k, n)
  BY DEF KeptBelow
<1>2. /\ frame'[k].kind = frame[k].kind
      /\ frame[k].kind # "function" => frame'[k] = frame[k]
      /\ frame[k].kind = "function" => frame'[k].fn = frame[k].fn /\ frame'[k].next = frame[k].next
  BY <1>1 DEF Kept
<1>3. CASE IsFunction(k)
  BY <1>2, <1>3 DEF IsFunction, Registered, HasBoundary, Before, Primary, Body, Catcher, UnwoundState, Free
<1>4. CASE ~IsFunction(k)
  BY <1>2, <1>4 DEF IsFunction, Registered, HasBoundary, Before, Primary, Body, Catcher, UnwoundState
<1> QED
  BY <1>3, <1>4

\* The registration a frame refers to is below it.
LEMMA RegBelow ==
    ASSUME IInv, NEW k \in Slot, IsRuntime(k)
    PROVE  /\ frame[k] \in RuntimeFrame
           /\ Before(k) = frame[k].reg
           /\ frame[k].reg \in Nat /\ frame[k].reg < k
           /\ frame[k].reg # 0 => frame[k].reg \in Slot /\ frame[k].reg \in Registered
           /\ k \in Registered => frame[k].next = frame[k].reg
<1>1. frame[k] \in RuntimeFrame /\ Linked(k) /\ ~IsFunction(k) /\ MaxDepth \in Nat
  BY Kinds, Depth DEF IInv, Shape, SlotShape, IsRuntime, IsFunction
<1> QED
  BY <1>1 DEF Linked, Before, RuntimeFrame, Registered, Slot

\* What is asked of a frame that has chosen a handler, or looks for one, asks
\* nothing of the slots from its own on.
LEMMA KeptHandling ==
    ASSUME IInv, NEW n \in Int, KeptBelow(n), NEW k \in Slot, k <= n,
           NEW x, x.reg \in Nat, x.reg < k, HandlingOf(x, k)
    PROVE  HandlingOf(x, k)'
<1>1. PICK r, p : r = x.reg /\ p = x.tf.primary_frame_base
  OBVIOUS
<1>2. /\ Catcher(r) /\ r >= 1
      /\ p = Primary(r) /\ p \in Slot /\ p < k /\ IsFunction(p)
      /\ x.block \in Blocks(frame[p].fn)
      /\ x.tf.unwound_state = Block(frame[p].fn, x.block).try_low - 1
      /\ \A q \in Slot : Body(r) < q /\ q < k => frame[q] = Free
      /\ \A q \in Slot : q < k /\ frame[q].kind \in {"throw", "destroy"} => q < p
  BY <1>1 DEF HandlingOf, Catcher
<1>3. \A q \in Slot : q < k => q < n
  BY Depth
<1>4. r \in Slot /\ r < n /\ p < n
  BY <1>1, <1>2, <1>3, Depth DEF Slot
<1>5. /\ Catcher(r)' /\ Primary(r)' = Primary(r) /\ Body(r)' = Body(r)
      /\ IsFunction(p)' /\ frame'[p].fn = frame[p].fn
  BY <1>2, <1>4, KeptSlot DEF IsFunction
<1>6. ASSUME NEW q \in Slot, q < k
      PROVE  frame'[q].kind = frame[q].kind /\ (frame[q] = Free => frame'[q] = Free)
  BY <1>3, <1>6, KeptSlot
<1> QED
  BY <1>1, <1>2, <1>5, <1>6 DEF HandlingOf

LEMMA KeptThrow ==
    ASSUME IInv, NEW n \in Int, KeptBelow(n), NEW k \in Slot, k <= n,
           NEW x, x.reg \in Nat, x.reg < k, ThrowOf(x, k),
           Catcher(x.reg) => State(x.reg)' \in Int /\ State(x.reg)' <= State(x.reg)
    PROVE  ThrowOf(x, k)'
<1>1. PICK r : r = x.reg
  OBVIOUS
<1>2. CASE r = 0
  BY <1>1, <1>2 DEF ThrowOf, Catcher
<1>3. CASE r # 0
  <2>1. r \in Slot /\ r < n
    BY <1>1, <1>3, Depth DEF Slot
  <2>2. ((Catcher(r))' <=> Catcher(r)) /\ UnwoundState(r)' = UnwoundState(r) /\ frame'[r].kind = frame[r].kind
    BY <2>1, KeptSlot
  <2>3. ASSUME x.pc = "abandon" PROVE frame'[r].kind = "catch" /\ State(r)' <= UnwoundState(r)'
    <3>1. Catcher(r) /\ frame[r].kind = "catch" /\ State(r) <= UnwoundState(r)
      BY <1>1, <2>3 DEF ThrowOf
    <3>2. State(r) \in Int /\ UnwoundState(r) \in Int /\ State(r)' \in Int /\ State(r)' <= State(r)
      BY <1>1, <2>1, <3>1, UnderCatcher
    <3> QED
      BY <2>2, <3>1, <3>2
  <2> QED
    BY <1>1, <2>2, <2>3 DEF ThrowOf
<1> QED
  BY <1>2, <1>3

\* A slot below the first one changed keeps its shape: nothing refers upwards.
LEMMA KeptShape ==
    ASSUME IInv, NEW n \in Int, KeptBelow(n), NEW k \in Slot, k < n, k <= top', top' \in Int
    PROVE  SlotShape(k)'
<1>1. /\ Slot \subseteq Nat /\ MaxDepth \in Nat /\ TypeOK /\ k \in Nat /\ k >= 1 /\ SlotShape(k)
      /\ k - 1 >= 1 => k - 1 \in Slot
  BY Depth DEF IInv, Shape, Slot
<1> DEFINE Same(q) ==
        /\ frame'[q].kind = frame[q].kind
        /\ frame[q].kind # "function" => frame'[q] = frame[q]
        /\ IsFunction(q) => frame'[q].fn = frame[q].fn /\ frame'[q].next = frame[q].next
        /\ frame[q] = Free => frame'[q] = Free
        /\ q \in Registered' <=> q \in Registered
        /\ Before(q)' = Before(q)
        /\ Primary(q)' = Primary(q)
        /\ Body(q)' = Body(q)
        /\ (Catcher(q))' <=> Catcher(q)
        /\ UnwoundState(q)' = UnwoundState(q)
<1>2. \A q \in Slot : q <= k => Same(q)
  BY <1>1, KeptSlot
<1> HIDE DEF Same
<1>3. Same(k) /\ \A q \in Slot : q < k => Same(q)
  BY <1>1, <1>2
<1>4. k > top' => frame'[k] = Free
  BY <1>1
<1>5. k > 1 /\ frame'[k - 1].kind = "catch" => frame'[k].kind = "funclet"
  <2>1. k > 1 => Same(k - 1)
    BY <1>1, <1>2
  <2> QED
    BY <1>1, <1>3, <2>1 DEF Same, SlotShape
<1>6. frame'[k].kind = "catch" => k < MaxDepth
  BY <1>1, <1>3 DEF Same, SlotShape
<1>7. ASSUME frame'[k].kind = "function" PROVE FunctionShape(k)'
  <2>1. Kept(k, n) /\ IsFunction(k) /\ FunctionShape(k)
    BY <1>1, <1>3, <1>7 DEF KeptBelow, Same, SlotShape, IsFunction
  <2> QED
    BY <1>3, <2>1 DEF Kept, FunctionShape, Same
<1>8. ASSUME frame'[k].kind = "funclet" PROVE FuncletShape(k)'
  <2>1. FuncletShape(k) /\ frame'[k] = frame[k]
    BY <1>1, <1>3, <1>8 DEF Same, SlotShape
  <2>2. Same(k - 1)
    BY <1>1, <1>2, <2>1 DEF FuncletShape
  <2> QED
    BY <2>1, <2>2 DEF Same, FuncletShape
<1>9. ASSUME NEW r, r = frame[k].reg, IsRuntime(k)
      PROVE  /\ frame'[k] = frame[k] /\ frame[k] \in RuntimeFrame
             /\ r \in Nat /\ r < k /\ (r # 0 => r \in Slot /\ Same(r))
             /\ (Catcher(r))' <=> Catcher(r)
  <2>1. /\ frame'[k] = frame[k] /\ frame[k] \in RuntimeFrame
        /\ r \in Nat /\ r < k /\ (r # 0 => r \in Slot /\ Same(r))
    BY <1>3, <1>9, RegBelow DEF Same, IsRuntime
  <2> QED
    BY <2>1 DEF Same, Catcher
<1>10. ASSUME Handles(k)' PROVE HandlingShape(k)'
  <2>1. IsRuntime(k) /\ frame'[k] = frame[k] /\ HandlingOf(frame[k], k)
    BY <1>1, <1>3, <1>10 DEF Handles, Same, SlotShape, IsRuntime, HandlingShape
  <2>2. PICK x : x = frame[k]
    OBVIOUS
  <2>3. HandlingOf(x, k) /\ x.reg \in Nat /\ x.reg < k /\ k <= n
    BY <1>1, <1>9, <2>1, <2>2
  <2>4. HandlingOf(x, k)'
    BY <2>3, KeptHandling
  <2> QED
    BY <2>1, <2>2, <2>4 DEF HandlingShape
<1>11. ASSUME frame'[k].kind = "throw" PROVE ThrowShape(k)' /\ GapShape(k)'
  <2>1. PICK x, r : x = frame[k] /\ r = x.reg
    OBVIOUS
  <2>2. IsRuntime(k) /\ frame[k].kind = "throw" /\ frame'[k] = frame[k] /\ ThrowOf(x, k) /\ GapShape(k)
    BY <1>1, <1>3, <1>11, <2>1 DEF Same, SlotShape, IsRuntime, ThrowShape
  <2>3. /\ r \in Nat /\ r < k /\ (r # 0 => r \in Slot /\ Same(r))
        /\ (Catcher(r))' <=> Catcher(r)
    BY <1>9, <2>1, <2>2
  <2>4. ASSUME Catcher(r) PROVE Body(r)' = Body(r) /\ r \in Slot
    BY <2>3, <2>4 DEF Same, Catcher
  <2>5. ASSUME Catcher(r) PROVE State(r)' \in Int /\ State(r)' <= State(r)
    <3>1. PICK p \in Slot : p = Primary(r) /\ p <= r /\ IsFunction(p) /\ frame[p].fn \in Fns
      BY <2>4, <2>5, UnderCatcher DEF Fn
    <3>2. Same(r) /\ p < k
      <4>1. r # 0
        BY <2>5 DEF Catcher
      <4>2. Same(r)
        BY <2>3, <4>1
      <4> QED
        BY <1>1, <2>3, <2>4, <2>5, <3>1, <4>2
    <3>3. State(r)' = frame'[p].state /\ State(r) = frame[p].state /\ State(r) \in Int
      BY <2>4, <2>5, <3>1, <3>2, UnderCatcher DEF State, Same, Fn
    <3>4. Kept(p, n)
      BY <1>1, <3>2 DEF KeptBelow
    <3>5. ~(\A j \in Slot : p < j /\ j < n => frame[j].kind # "throw")
      BY <2>2, <3>2
    <3> QED
      BY <3>1, <3>3, <3>4, <3>5, EhAssumption DEF Kept, States
  <2>6. GapShape(k)'
    <3>1. SUFFICES ASSUME Catcher(r), NEW q \in Slot, Body(r) < q, q < k
                   PROVE  frame'[q] = Free \/ Abandons(q, r)'
      BY <2>1, <2>2, <2>3, <2>4 DEF GapShape
    <3>2. Same(q) /\ (frame[q] = Free \/ Abandons(q, r))
      BY <1>3, <2>1, <2>2, <3>1 DEF GapShape
    <3> QED
      BY <3>2 DEF Same, Abandons
  <2>7. ThrowOf(x, k)'
    BY <1>1, <2>1, <2>2, <2>3, <2>5, KeptThrow
  <2> QED
    BY <2>1, <2>2, <2>6, <2>7 DEF ThrowShape
<1>12. ASSUME (IsFunction(k) \/ IsRuntime(k))' PROVE Linked(k)'
  <2>1. PICK b : b = Before(k)
    OBVIOUS
  <2>2. Linked(k)
    BY <1>1, <1>3, <1>12 DEF Same, SlotShape, IsFunction, IsRuntime
  <2>3. /\ b < k /\ b \in Registered \cup {0}
        /\ \A q \in Slot : b < q /\ q < k => q \notin Registered
        /\ k \in Registered => frame[k].next = b
    BY <2>1, <2>2 DEF Linked
  <2>4. b \in Registered' \cup {0}
    BY <1>3, <2>3 DEF Same, Registered
  <2>5. \A q \in Slot : b < q /\ q < k => q \notin Registered'
    BY <1>3, <2>3 DEF Same
  <2>6. k \in Registered' => frame'[k].next = b
    BY <1>3, <2>3 DEF Same, IsFunction
  <2> QED
    BY <1>3, <2>1, <2>3, <2>4, <2>5, <2>6 DEF Linked, Same
<1> QED
  BY <1>4, <1>5, <1>6, <1>7, <1>8, <1>10, <1>11, <1>12 DEF SlotShape

----------------------------------------------------------------------------
(* The shape after a step, from the slots it changes.                      *)

ShapeFrom(n) == \A k \in Slot : k >= n \/ k > top => SlotShape(k)

UnchangedAbove(n) == \A k \in Slot : k > n => frame'[k] = frame[k]

\* Only the slots from n on have to be looked at.
LEMMA StepShape ==
    ASSUME IInv, NEW n \in Int, KeptBelow(n), top' \in Int,
           ShapeFrom(n)', HeadIsNewest', OthersWait'
    PROVE  Shape'
<1>1. ASSUME NEW k \in Slot PROVE SlotShape(k)'
  <2>1. CASE k >= n \/ k > top'
    BY <2>1 DEF ShapeFrom
  <2>2. CASE ~(k >= n \/ k > top')
    <3>1. k \in Int
      BY Depth
    <3>2. k < n
      BY <2>2, <3>1
    <3>3. k <= top'
      BY <2>2, <3>1
    <3> QED
      BY <3>2, <3>3, KeptShape
  <2> QED
    BY <2>1, <2>2
<1> QED
  BY <1>1 DEF Shape

\* A free slot asks for nothing but that no funclet is missing in it.
LEMMA FreeShape ==
    ASSUME NEW k \in Slot, frame'[k] = Free, k > 1 => frame'[k - 1].kind # "catch"
    PROVE  SlotShape(k)' /\ k \notin Registered'
BY DEF SlotShape, Free, Handles, IsFunction, IsRuntime, Registered, HasBoundary

\* A step of the newest dispatch that leaves it at the same registration.
LEMMA DispatchShape ==
    ASSUME IInv, NEW n \in Slot, n = top, frame[n].kind = "throw", KeptBelow(n), UnchangedAbove(n),
           top' = n, frame'[n].kind = "throw", frame'[n].reg = frame[n].reg,
           ThrowShape(n)', frame'[n].block # 0 => HandlingShape(n)',
           HasBoundary(n)' => head' = n /\ frame'[n].next = frame[n].reg,
           ~HasBoundary(n)' => head' = frame[n].reg
    PROVE  Shape'
<1>1. /\ Slot \subseteq Nat /\ MaxDepth \in Nat /\ n \in Nat /\ n >= 1
      /\ n > 1 => n - 1 \in Slot
  BY Depth DEF Slot
<1>2. PICK r : r = frame[n].reg
  OBVIOUS
<1>3. SlotShape(n) /\ IsRuntime(n) /\ GapShape(n) /\ Linked(n) /\ Before(n) = r
  BY <1>2 DEF IInv, Shape, SlotShape, IsRuntime, IsFunction, Before
<1>4. /\ r \in Nat /\ r < n
      /\ r # 0 => r \in Slot /\ r \in Registered
      /\ \A q \in Slot : r < q /\ q < n => q \notin Registered
  BY <1>2, <1>3, RegBelow DEF Linked
<1>5. /\ r # 0 => r \in Registered'
      /\ (Catcher(r))' => Catcher(r) /\ Body(r)' = Body(r)
  <2>1. CASE r = 0
    BY <2>1 DEF Catcher
  <2>2. CASE r # 0
    BY <1>1, <1>4, <2>2, KeptSlot
  <2> QED
    BY <2>1, <2>2
<1>6. \A q \in Slot : q > n => frame'[q] = Free /\ q \notin Registered'
  BY TopFacts DEF UnchangedAbove, Registered, IsFunction, HasBoundary, Free
<1>7. \A q \in Slot : r < q /\ q < n => q \notin Registered'
  BY <1>1, <1>4, KeptSlot
<1>8. n \in Registered' <=> HasBoundary(n)'
  BY DEF Registered, IsFunction
<1>9. HeadIsNewest'
  <2>1. CASE HasBoundary(n)'
    <3>1. head' = n
      BY <2>1
    <3>2. n \in Registered'
      BY <1>8, <2>1
    <3> QED
      BY <1>6, <3>1, <3>2 DEF HeadIsNewest
  <2>2. CASE ~HasBoundary(n)'
    <3>1. head' = r
      BY <1>2, <2>2
    <3>2. n \notin Registered'
      BY <1>8, <2>2
    <3>3. \A q \in Slot : r < q => q \notin Registered'
      BY <1>1, <1>6, <1>7, <3>2
    <3> QED
      BY <1>5, <3>1, <3>3 DEF HeadIsNewest
  <2> QED
    BY <2>1, <2>2
<1>10. GapShape(n)'
  <2>1. SUFFICES ASSUME Catcher(r), Body(r)' = Body(r), NEW q \in Slot, Body(r) < q, q < n
                 PROVE  frame'[q] = Free \/ Abandons(q, r)'
    BY <1>2, <1>5 DEF GapShape
  <2>2. frame[q] = Free \/ Abandons(q, r)
    BY <1>2, <1>3, <2>1 DEF GapShape
  <2>3. frame[q].kind # "function"
    BY <2>2 DEF Abandons, Free
  <2>4. frame'[q] = frame[q]
    BY <1>1, <2>1, <2>3, KeptSlot
  <2> QED
    BY <2>2, <2>4 DEF Abandons
<1>11. Linked(n)'
  <2>1. Before(n)' = r
    BY <1>2 DEF Before, IsFunction
  <2>2. n \in Registered' => frame'[n].next = r
    BY <1>2, <1>8
  <2> QED
    BY <1>4, <1>5, <1>7, <2>1, <2>2 DEF Linked
<1>12. SlotShape(n)'
  <2>1. n > 1 => frame'[n - 1].kind # "catch"
    <3>1. n > 1 => frame[n - 1].kind # "catch"
      BY <1>3 DEF SlotShape, IsRuntime
    <3>2. n > 1 => frame'[n - 1].kind = frame[n - 1].kind
      BY <1>1, KeptSlot
    <3> QED
      BY <3>1, <3>2
  <2>2. ~(n > top')
    BY <1>1
  <2> QED
    BY <1>10, <1>11, <2>1, <2>2 DEF SlotShape, Handles
<1>13. ASSUME NEW k \in Slot, k > n PROVE SlotShape(k)'
  <2>1. PICK j \in Slot : j = k - 1 /\ j >= n
    BY <1>1, <1>13 DEF Slot
  <2>2. frame'[j].kind # "catch"
    BY <1>1, <1>6, <2>1 DEF Free
  <2> QED
    BY <1>6, <1>13, <2>1, <2>2, FreeShape
<1>14. ShapeFrom(n)'
  <2>1. ASSUME NEW k \in Slot, k >= n \/ k > top' PROVE SlotShape(k)'
    BY <1>1, <1>12, <1>13, <2>1
  <2> QED
    BY <2>1 DEF ShapeFrom
<1>15. OthersWait'
  <2>1. SUFFICES ASSUME NEW k \in Slot, frame'[k].kind = "throw", k # n
                 PROVE  frame'[k].pc \in {"cleanup", "copy", "abandon"}
    BY DEF OthersWait
  <2>2. k < n
    BY <1>1, <1>6, <2>1 DEF Free
  <2>3. frame'[k] = frame[k]
    BY <1>1, <2>1, <2>2, KeptSlot
  <2> QED
    BY <2>1, <2>3 DEF IInv, Shape, OthersWait
<1> QED
  BY <1>1, <1>9, <1>14, <1>15, StepShape

\* ... and changes nothing else.
LEMMA RewriteTop ==
    ASSUME IInv, NEW n \in Slot, n = top, frame[n].kind = "throw",
           NEW x \in RuntimeFrame, x.kind = "throw", x.reg = frame[n].reg,
           frame' = [frame EXCEPT ![n] = x], top' = n,
           ThrowOf(x, n), x.block # 0 => HandlingOf(x, n),
           x.pc \in {"search", "unwind", "cleanup", "copy"} => head' = n /\ x.next = x.reg,
           x.pc \notin {"search", "unwind", "cleanup", "copy"} => head' = x.reg
    PROVE  Shape' /\ frame' \in [Slot -> Frame] /\ head' \in 0..MaxDepth
<1>1. /\ frame \in [Slot -> Frame] /\ x \in Frame
      /\ frame'[n] = x /\ \A q \in Slot : q # n => frame'[q] = frame[q]
      /\ n \in Int /\ n <= n /\ Slot \subseteq Nat /\ MaxDepth \in Nat
  BY Depth DEF IInv, TypeOK, Frame
<1>2. frame' \in [Slot -> Frame] /\ head' \in 0..MaxDepth
  BY <1>1 DEF RuntimeFrame, Slot
<1>3. KeptBelow(n) /\ UnchangedAbove(n)
  BY <1>1 DEF KeptBelow, Kept, UnchangedAbove
<1>4. PICK r : r = x.reg
  OBVIOUS
<1>5. r \in Nat /\ r < n /\ (r # 0 => r \in Slot)
  BY <1>4, RegBelow DEF IsRuntime
<1>6. ASSUME Catcher(r) PROVE State(r)' \in Int /\ State(r)' <= State(r)
  <2>1. r \in Slot
    BY <1>5, <1>6 DEF Catcher
  <2>2. PICK p \in Slot : p = Primary(r) /\ p <= r /\ State(r) \in Int
    BY <1>6, <2>1, UnderCatcher
  <2>3. Primary(r)' = p
    BY <1>1, <1>3, <1>5, <2>1, <2>2, KeptSlot
  <2>4. frame'[p] = frame[p]
    BY <1>1, <1>5, <2>2
  <2> QED
    BY <2>2, <2>3, <2>4 DEF State
<1>7. ThrowOf(x, n)'
  BY <1>1, <1>3, <1>4, <1>5, <1>6, KeptThrow
<1>8. x.block # 0 => HandlingOf(x, n)'
  BY <1>1, <1>3, <1>4, <1>5, KeptHandling
<1>9. ThrowShape(n)' /\ (frame'[n].block # 0 => HandlingShape(n)')
  BY <1>1, <1>7, <1>8 DEF ThrowShape, HandlingShape
<1>10. HasBoundary(n)' <=> x.pc \in {"search", "unwind", "cleanup", "copy"}
  BY <1>1 DEF HasBoundary
<1> QED
  BY <1>1, <1>2, <1>3, <1>9, <1>10, DispatchShape

\* The dispatch on top, and what is under it.
LEMMA TopDispatch ==
    ASSUME IInv, NEW n \in Slot, n = top, frame[n].kind = "throw"
    PROVE  /\ T = frame[n] /\ frame[n] \in RuntimeFrame
           /\ ThrowOf(frame[n], n) /\ GapShape(n) /\ Linked(n) /\ Before(n) = frame[n].reg
           /\ frame[n].block # 0 => HandlingOf(frame[n], n)
           /\ frame[n].reg \in Nat /\ frame[n].reg < n
           /\ frame[n].reg # 0 => frame[n].reg \in Slot /\ frame[n].reg \in Registered
           /\ HasBoundary(n) => head = n /\ frame[n].next = frame[n].reg
           /\ ~HasBoundary(n) => head = frame[n].reg
<1>1. /\ SlotShape(n) /\ frame[n] \in RuntimeFrame /\ Before(n) = frame[n].reg
      /\ frame[n].reg \in Nat /\ frame[n].reg < n
      /\ frame[n].reg # 0 => frame[n].reg \in Slot /\ frame[n].reg \in Registered
      /\ n \in Registered => frame[n].next = frame[n].reg
  BY RegBelow DEF IInv, Shape, IsRuntime
<1>2. HasBoundary(n) => n \in Registered
  BY DEF Registered
<1> QED
  BY <1>1, <1>2, TopFacts DEF SlotShape, T, Handles, ThrowShape, HandlingShape, IsRuntime

----------------------------------------------------------------------------
(* The steps of the search.                                                *)

\* _fh3_handler is entered, with a throw frame tf.
LEMMA EnterHandlerStep ==
    ASSUME IInv, Dispatching("visit"), Catcher(T.reg), NEW tf \in ThrowFrame, EnterHandler(tf)
    PROVE  IInv'
<1>1. PICK n \in Slot : n = top
  BY DEF IInv, TypeOK
<1>2. PICK d : d = frame[n]
  OBVIOUS
<1>3. d.kind = "throw" /\ d.pc = "visit" /\ T = d
  BY <1>1, <1>2 DEF Dispatching, T
<1>4. /\ d \in RuntimeFrame /\ ThrowOf(d, n) /\ d.reg \in Slot
      /\ head = d.reg /\ ~HasBoundary(n) /\ Catcher(d.reg)
  BY <1>1, <1>2, <1>3, TopDispatch DEF HasBoundary, Catcher
<1> DEFINE x == [d EXCEPT !.pc = "search", !.next = head, !.tf = tf, !.entry = State(d.reg)]
<1>5. State(d.reg) \in Int /\ head \in 0..MaxDepth
  BY <1>4, UnderCatcher DEF IInv, TypeOK
<1>6. x \in RuntimeFrame /\ x.kind = "throw" /\ x.reg = d.reg /\ x.pc = "search"
      /\ x.next = head /\ x.block = d.block
  BY <1>3, <1>4, <1>5 DEF RuntimeFrame
<1>7. ThrowOf(x, n) /\ x.block = 0
  BY <1>3, <1>4, <1>6 DEF ThrowOf
<1>8. frame' = [frame EXCEPT ![n] = x] /\ head' = n /\ top' = n
      /\ UNCHANGED <<exc, objects, halted>>
  BY <1>1, <1>3 DEF EnterHandler
<1> HIDE DEF x
<1>9. Shape' /\ frame' \in [Slot -> Frame] /\ head' \in 0..MaxDepth
  BY <1>1, <1>2, <1>3, <1>4, <1>6, <1>7, <1>8, RewriteTop
<1> QED
  BY <1>8, <1>9 DEF IInv, TypeOK

\* What a dispatch takes from, or finds out about, a catch frame.
LEMMA ThrowFrameTypes ==
    ASSUME IInv, NEW tf \in ThrowFrame, NEW p \in Slot, frame[p].kind = "catch"
    PROVE  /\ Link(p) \in ObjOrLink
           /\ TakeFrom(tf, p) \in ThrowFrame
           /\ Arriving(tf, p) \in ThrowFrame
<1>1. frame[p] \in RuntimeFrame
  BY Kinds DEF IInv, IsRuntime
<1>2. frame[p].tf \in ThrowFrame
  BY <1>1 DEF RuntimeFrame
<1>3. Link(p) \in ObjOrLink
  BY Depth DEF Link, ObjOrLink, Slot
<1>4. TakeFrom(tf, p) \in ThrowFrame
  BY <1>2 DEF TakeFrom, ThrowFrame
<1>5. [tf EXCEPT !.exception_object_or_link = Link(p)] \in ThrowFrame
  BY <1>3 DEF ThrowFrame
<1> QED
  BY <1>3, <1>4, <1>5 DEF Arriving

LEMMA VisitFunctionStep == ASSUME IInv, VisitFunction PROVE IInv'
<1>1. T \in RuntimeFrame
  BY Kinds DEF IInv, TypeOK, VisitFunction, Dispatching, IsRuntime, T
<1>2. T.tf \in ThrowFrame
  BY <1>1 DEF RuntimeFrame
<1>3. Catcher(T.reg) /\ Dispatching("visit") /\ EnterHandler(T.tf)
  BY DEF VisitFunction, Catcher
<1> QED
  BY <1>2, <1>3, EnterHandlerStep

LEMMA VisitCatchFrameStep == ASSUME IInv, VisitCatchFrame PROVE IInv'
<1>1. T \in RuntimeFrame
  BY Kinds DEF IInv, TypeOK, VisitCatchFrame, Dispatching, IsRuntime, T
<1>2. PICK p, tf : p = T.reg /\ tf = T.tf
  OBVIOUS
<1>3. tf \in ThrowFrame /\ p \in Slot
  BY <1>1, <1>2, Depth DEF RuntimeFrame, VisitCatchFrame, Slot
<1>4. frame[p].kind = "catch" /\ Catcher(T.reg) /\ Dispatching("visit") /\ EnterHandler(Arriving(tf, p))
  BY <1>2 DEF VisitCatchFrame, Catcher
<1>5. Arriving(tf, p) \in ThrowFrame
  BY <1>3, <1>4, ThrowFrameTypes
<1>6. PICK a : a = Arriving(tf, p)
  OBVIOUS
<1>7. a \in ThrowFrame /\ EnterHandler(a)
  BY <1>4, <1>5, <1>6
<1> QED
  BY <1>4, <1>7, EnterHandlerStep

LEMMA ProbeForObjectStep == ASSUME IInv, ProbeForObject PROVE IInv'
<1>1. PICK n \in Slot, p \in Slot :
        /\ n = top /\ frame[p].kind = "catch"
        /\ frame' = [frame EXCEPT ![n].tf.exception_object_or_link = Link(p)]
  BY DEF IInv, TypeOK, ProbeForObject, Probes
<1>2. PICK d, link : d = frame[n] /\ link = Link(p)
  OBVIOUS
<1>3. d.kind = "throw" /\ d.pc = "search"
  BY <1>1, <1>2 DEF ProbeForObject, Dispatching
<1>4. /\ d \in RuntimeFrame /\ ThrowOf(d, n)
      /\ head = n /\ d.next = d.reg
  BY <1>1, <1>2, <1>3, TopDispatch DEF HasBoundary
<1> DEFINE x == [d EXCEPT !.tf.exception_object_or_link = link]
<1>5. x.kind = "throw" /\ x.reg = d.reg /\ x.pc = "search" /\ x.next = d.next /\ x.block = d.block
  BY <1>3, <1>4 DEF RuntimeFrame
<1>6. x \in RuntimeFrame
  <2>1. d.tf \in ThrowFrame
    BY <1>4 DEF RuntimeFrame
  <2>2. link \in ObjOrLink
    BY <1>1, <1>2, <2>1, ThrowFrameTypes
  <2>3. [d.tf EXCEPT !.exception_object_or_link = link] \in ThrowFrame
    BY <2>1, <2>2 DEF ThrowFrame
  <2> QED
    BY <1>4, <2>3 DEF RuntimeFrame
<1>7. ThrowOf(x, n) /\ x.block = 0
  BY <1>3, <1>4, <1>5 DEF ThrowOf
<1>8. frame' = [frame EXCEPT ![n] = x] /\ head' = n /\ top' = n
      /\ UNCHANGED <<exc, objects, halted>>
  BY <1>1, <1>2, <1>4 DEF ProbeForObject
<1> HIDE DEF x
<1>9. Shape' /\ frame' \in [Slot -> Frame] /\ head' \in 0..MaxDepth
  BY <1>1, <1>2, <1>3, <1>4, <1>5, <1>6, <1>7, <1>8, RewriteTop
<1> QED
  BY <1>8, <1>9 DEF IInv, TypeOK

\* A try block that is searched begins above what is unwound already.
LEMMA CandidateFacts ==
    ASSUME IInv, NEW r \in Slot, Catcher(r), NEW i \in Candidates(r)
    PROVE  LET low == Block(Fn(r), i).try_low
           IN  /\ i \in Blocks(Fn(r)) /\ i \in Nat /\ i # 0 /\ low \in 0..Eh[Fn(r)].last
               /\ low <= State(r) /\ UnwoundState(r) < low
               /\ InTry(Fn(r), i, State(r))
<1>1. PICK f, s, u : f = Fn(r) /\ s = State(r) /\ u = UnwoundState(r)
  OBVIOUS
<1>2. f \in Fns /\ s \in Int /\ u \in Int
  BY <1>1, UnderCatcher
<1>3. i \in Blocks(f) /\ InTry(f, i, s) /\ \A j \in 1..i : Block(f, j).try_low > u
  BY <1>1 DEF Candidates
<1>4. i \in Nat /\ i # 0 /\ i \in 1..i
  BY <1>2, <1>3, EhAssumption DEF Blocks
<1>5. Block(f, i).try_low \in 0..Eh[f].last /\ Block(f, i).try_low \in Int
  BY <1>2, <1>3, BlockFacts
<1>6. Block(f, i).try_low > u
  BY <1>3, <1>4
<1> QED
  BY <1>1, <1>2, <1>3, <1>4, <1>5, <1>6 DEF InTry

LEMMA SelectHandlerStep == ASSUME IInv, SelectHandler PROVE IInv'
<1>1. PICK n \in Slot : n = top
  BY DEF IInv, TypeOK
<1>2. PICK d, r, f, p : d = frame[n] /\ r = d.reg /\ f = Fn(r) /\ p = Primary(r)
  OBVIOUS
<1>3. d.kind = "throw" /\ d.pc = "search" /\ T = d
  BY <1>1, <1>2 DEF SelectHandler, Dispatching, T
<1>4. /\ d \in RuntimeFrame /\ ThrowOf(d, n) /\ GapShape(n)
      /\ r \in Nat /\ r < n /\ head = n /\ d.next = r
  BY <1>1, <1>2, <1>3, TopDispatch DEF HasBoundary
<1>5. r \in Slot /\ Catcher(r)
  BY <1>1, <1>2, <1>3, <1>4, TopDispatch DEF ThrowOf, Catcher
<1>6. f \in Fns /\ p \in Slot /\ p <= r /\ IsFunction(p) /\ f = frame[p].fn
  BY <1>2, <1>5, UnderCatcher DEF Fn
<1>7. PICK i, j :
        /\ i \in Blocks(f) /\ j \in DOMAIN Block(f, i).handlers
        /\ Selects(r, GetThrowInfo(d.tf), i, j)
        /\ frame' = [frame EXCEPT ![top] =
                [T EXCEPT !.pc = "unwind", !.block = i, !.clause = j,
                          !.target = CatcherTarget(Fn(T.reg), i),
                          !.tf.primary_frame_base = Primary(T.reg),
                          !.tf.unwound_state = Block(Fn(T.reg), i).try_low - 1]]
  <2>1. PICK i, j :
          /\ i \in Blocks(Fn(T.reg)) /\ j \in DOMAIN Block(Fn(T.reg), i).handlers
          /\ Selects(T.reg, GetThrowInfo(T.tf), i, j)
          /\ frame' = [frame EXCEPT ![top] =
                [T EXCEPT !.pc = "unwind", !.block = i, !.clause = j,
                          !.target = CatcherTarget(Fn(T.reg), i),
                          !.tf.primary_frame_base = Primary(T.reg),
                          !.tf.unwound_state = Block(Fn(T.reg), i).try_low - 1]]
    BY DEF SelectHandler
  <2>2. i \in Blocks(f) /\ j \in DOMAIN Block(f, i).handlers /\ Selects(r, GetThrowInfo(d.tf), i, j)
    BY <1>2, <1>3, <2>1
  <2> QED
    BY <2>1, <2>2
<1>8. PICK low : low = Block(f, i).try_low
  OBVIOUS
<1>9. i \in Candidates(r)
  BY <1>7 DEF Selects, IsFirst
<1>10. /\ i \in Nat /\ i # 0 /\ low \in Nat /\ low <= State(r) /\ UnwoundState(r) < low
  BY <1>2, <1>5, <1>8, <1>9, CandidateFacts
<1>11. j \in Nat
  <2>1. Block(f, i) \in TryBlock
    BY <1>6, <1>7, EhAssumption DEF Blocks, Block
  <2> QED
    BY <1>7, <2>1 DEF TryBlock
<1> DEFINE x == [d EXCEPT !.pc = "unwind", !.block = i, !.clause = j, !.target = low,
                          !.tf.primary_frame_base = p, !.tf.unwound_state = low - 1]
<1>12. frame' = [frame EXCEPT ![n] = x] /\ head' = n /\ top' = n
       /\ UNCHANGED <<exc, objects, halted>>
  <2>1. frame' = [frame EXCEPT ![n] =
            [d EXCEPT !.pc = "unwind", !.block = i, !.clause = j, !.target = CatcherTarget(f, i),
                      !.tf.primary_frame_base = p, !.tf.unwound_state = Block(f, i).try_low - 1]]
    BY <1>1, <1>2, <1>3, <1>7
  <2>2. frame' = [frame EXCEPT ![n] = x]
    BY <1>8, <2>1 DEF CatcherTarget
  <2> QED
    BY <1>1, <1>4, <2>2 DEF SelectHandler
<1>13. x \in RuntimeFrame
  <2>1. d.tf \in ThrowFrame
    BY <1>4 DEF RuntimeFrame
  <2>2. p \in 0..MaxDepth /\ low - 1 \in Int /\ low \in Int
    BY <1>6, <1>10, Depth DEF Slot
  <2> DEFINE tf == [d.tf EXCEPT !.primary_frame_base = p, !.unwound_state = low - 1]
  <2>3. tf \in ThrowFrame
    BY <2>1, <2>2 DEF ThrowFrame
  <2>4. x = [d EXCEPT !.pc = "unwind", !.block = i, !.clause = j, !.target = low, !.tf = tf]
    BY <1>4 DEF RuntimeFrame
  <2> HIDE DEF tf
  <2> QED
    BY <1>4, <1>10, <1>11, <2>2, <2>3, <2>4 DEF RuntimeFrame
<1>14. /\ x.kind = "throw" /\ x.reg = r /\ x.pc = "unwind" /\ x.next = r /\ x.block = i /\ x.target = low
       /\ x.tf.primary_frame_base = p /\ x.tf.unwound_state = low - 1
  <2>1. d.tf \in ThrowFrame
    BY <1>4 DEF RuntimeFrame
  <2> QED
    BY <1>2, <1>3, <1>4, <2>1 DEF RuntimeFrame, ThrowFrame
<1>15. ThrowOf(x, n)
  BY <1>3, <1>4, <1>5, <1>10, <1>14 DEF ThrowOf
<1>16. \A q \in Slot : Body(r) < q /\ q < n => frame[q] = Free
  <2>1. SUFFICES ASSUME NEW q \in Slot, Abandons(q, r) PROVE FALSE
    BY <1>1, <1>2, <1>4, <1>5 DEF GapShape
  <2>2. ThrowOf(frame[q], q) /\ frame[q].pc = "abandon" /\ frame[q].reg = r
    BY <2>1 DEF Abandons, IInv, Shape, SlotShape, ThrowShape
  <2>3. State(r) <= UnwoundState(r)
    BY <2>2 DEF ThrowOf
  <2>4. State(r) \in Int /\ UnwoundState(r) \in Int
    BY <1>5, UnderCatcher
  <2> QED
    BY <1>10, <2>3, <2>4
<1>17. \A q \in Slot : q < n /\ frame[q].kind \in {"throw", "destroy"} => q < p
  <2>1. SUFFICES ASSUME NEW q \in Slot, q < n, frame[q].kind \in {"throw", "destroy"} PROVE q < p
    OBVIOUS
  <2>2. ~(Body(r) < q)
    BY <1>16, <2>1 DEF Free
  <2>3. q \in Nat /\ p \in Nat /\ r \in Nat
    BY <1>5, <1>6, Depth
  <2>4. CASE IsFunction(r)
    <3>1. Body(r) = r /\ p = r
      BY <1>2, <2>4 DEF Body, Primary, IsFunction
    <3>2. q # r
      BY <2>1, <2>4 DEF IsFunction
    <3> QED
      BY <2>2, <2>3, <3>1, <3>2
  <2>5. CASE ~IsFunction(r)
    <3>1. frame[r].kind = "catch" /\ Body(r) = r + 1 /\ r + 1 \in Slot /\ frame[r + 1].kind = "funclet"
          /\ HandlingOf(frame[r], r)
      BY <1>5, <2>5, UnderCatcher DEF Body, Catcher, HandlingShape
    <3>2. frame[r].tf.primary_frame_base = p
      BY <1>2, <3>1 DEF Primary
    <3>3. q # r /\ q # r + 1
      BY <2>1, <3>1
    <3>4. q < r
      BY <2>2, <2>3, <3>1, <3>3
    <3> QED
      BY <2>1, <3>1, <3>2, <3>4 DEF HandlingOf
  <2> QED
    BY <2>4, <2>5
<1>18. HandlingOf(x, n)
  <2>1. p < n
    BY <1>4, <1>6, Depth
  <2> QED
    BY <1>2, <1>5, <1>6, <1>7, <1>8, <1>14, <1>16, <1>17, <2>1 DEF HandlingOf
<1> HIDE DEF x
<1>19. Shape' /\ frame' \in [Slot -> Frame] /\ head' \in 0..MaxDepth
  BY <1>1, <1>2, <1>3, <1>12, <1>13, <1>14, <1>15, <1>18, RewriteTop
<1> QED
  BY <1>12, <1>19 DEF IInv, TypeOK

LEMMA SelectNothingStep == ASSUME IInv, SelectNothing PROVE IInv'
<1>1. PICK n \in Slot : n = top
  BY DEF IInv, TypeOK
<1>2. PICK d, r, u : d = frame[n] /\ r = d.reg /\ u = UnwoundState(r)
  OBVIOUS
<1>3. d.kind = "throw" /\ d.pc = "search" /\ T = d
  BY <1>1, <1>2 DEF SelectNothing, Dispatching, T
<1>4. /\ d \in RuntimeFrame /\ ThrowOf(d, n) /\ head = n /\ d.next = r
  BY <1>1, <1>2, <1>3, TopDispatch DEF HasBoundary
<1>5. r \in Slot /\ Catcher(r) /\ d.block = 0
  BY <1>1, <1>2, <1>3, <1>4, TopDispatch DEF ThrowOf, Catcher
<1>6. u \in Int /\ u >= -1
  BY <1>2, <1>5, UnderCatcher
<1> DEFINE x == [d EXCEPT !.pc = "unwind", !.target = u]
<1>7. /\ x \in RuntimeFrame /\ x.kind = "throw" /\ x.reg = r /\ x.pc = "unwind" /\ x.next = r
      /\ x.block = 0 /\ x.target = u
  BY <1>2, <1>3, <1>4, <1>5, <1>6 DEF RuntimeFrame
<1>8. ThrowOf(x, n)
  BY <1>2, <1>3, <1>4, <1>5, <1>6, <1>7 DEF ThrowOf
<1>9. frame' = [frame EXCEPT ![n] = x] /\ head' = n /\ top' = n
      /\ UNCHANGED <<exc, objects, halted>>
  BY <1>1, <1>2, <1>3, <1>4 DEF SelectNothing
<1> HIDE DEF x
<1>10. Shape' /\ frame' \in [Slot -> Frame] /\ head' \in 0..MaxDepth
  BY <1>1, <1>2, <1>3, <1>7, <1>8, <1>9, RewriteTop
<1> QED
  BY <1>9, <1>10 DEF IInv, TypeOK

----------------------------------------------------------------------------
(* The steps that unwind a function and enter its handler.                 *)

\* The dispatch d on top goes on as x and puts function p, the one it works on,
\* in state s.
Works(n, d, p, s, x) ==
    /\ n = top /\ d = frame[n] /\ d.kind = "throw" /\ Catcher(d.reg)
    /\ p = Primary(d.reg) /\ s \in States(frame[p].fn)
    /\ s <= frame[p].state \/ d.block # 0
    /\ x \in RuntimeFrame /\ x.kind = "throw" /\ x.reg = d.reg /\ x.tf = d.tf /\ x.block = d.block
    /\ ThrowOf(x, n) /\ x.pc # "abandon"
    /\ frame' = [frame EXCEPT ![p].state = s, ![n] = x] /\ top' = n
    /\ x.pc \in {"search", "unwind", "cleanup", "copy"} => head' = n /\ x.next = x.reg
    /\ x.pc \notin {"search", "unwind", "cleanup", "copy"} => head' = x.reg

LEMMA WorkStep ==
    ASSUME IInv, NEW n \in Slot, NEW d, NEW p, NEW s, NEW x, Works(n, d, p, s, x)
    PROVE  Shape' /\ frame' \in [Slot -> Frame] /\ head' \in 0..MaxDepth
<1>0. /\ n = top /\ d = frame[n] /\ d.kind = "throw" /\ Catcher(d.reg)
      /\ p = Primary(d.reg) /\ s \in States(frame[p].fn)
      /\ s <= frame[p].state \/ d.block # 0
      /\ x \in RuntimeFrame /\ x.kind = "throw" /\ x.reg = d.reg /\ x.tf = d.tf /\ x.block = d.block
      /\ ThrowOf(x, n) /\ x.pc # "abandon"
      /\ frame' = [frame EXCEPT ![p].state = s, ![n] = x] /\ top' = n
      /\ x.pc \in {"search", "unwind", "cleanup", "copy"} => head' = n /\ x.next = x.reg
      /\ x.pc \notin {"search", "unwind", "cleanup", "copy"} => head' = x.reg
  BY DEF Works
<1> USE <1>0
<1>1. PICK r : r = d.reg
  OBVIOUS
<1>2. r \in Nat /\ r < n /\ r \in Slot /\ Slot \subseteq Nat /\ MaxDepth \in Nat
  BY <1>1, TopDispatch, Depth DEF Catcher
<1>3. p \in Slot /\ p <= r /\ IsFunction(p) /\ frame[p] \in FunctionFrame /\ frame[p].fn \in Fns
  BY <1>1, <1>2, UnderCatcher DEF Fn
<1> DEFINE y == [frame[p] EXCEPT !.state = s]
<1>4. y \in FunctionFrame /\ y.kind = "function" /\ y.fn = frame[p].fn /\ y.next = frame[p].next /\ y.state = s
  BY <1>3, EhAssumption DEF FunctionFrame, States
<1>5. p < n /\ p # n
  BY <1>2, <1>3
<1>6. frame' = [frame EXCEPT ![p] = y, ![n] = x]
  OBVIOUS
<1> HIDE DEF y
<1>7. y \in Frame /\ x \in Frame /\ frame \in [Slot -> Frame]
  BY <1>4 DEF Frame, IInv, TypeOK
<1>8. /\ frame' \in [Slot -> Frame]
      /\ frame'[n] = x /\ frame'[p] = y
      /\ \A q \in Slot : q # n /\ q # p => frame'[q] = frame[q]
  BY <1>3, <1>5, <1>6, <1>7
<1>9. HandlingOf(d, n) \/ d.block = 0
  BY TopDispatch
<1>10. Kept(p, n)
  <2>1. CASE s <= frame[p].state
    BY <1>3, <1>4, <1>8, <2>1 DEF Kept, IsFunction
  <2>2. CASE d.block # 0
    <3>1. \A q \in Slot : q < n /\ frame[q].kind \in {"throw", "destroy"} => q < p
      BY <1>9, <2>2 DEF HandlingOf
    <3>2. \A j \in Slot : p < j /\ j < n => frame[j].kind # "throw"
      BY <1>2, <1>3, <3>1
    <3> QED
      BY <1>3, <1>4, <1>8, <3>2 DEF Kept, IsFunction
  <2> QED
    BY <2>1, <2>2
<1>11. KeptBelow(n) /\ UnchangedAbove(n)
  BY <1>2, <1>5, <1>8, <1>10, SMTT(30) DEF KeptBelow, UnchangedAbove, Kept
<1>12. x.reg \in Nat /\ x.reg < n
  BY <1>1, <1>2
<1>13. ThrowOf(x, n)'
  <2>1. (Catcher(r)' <=> Catcher(r)) /\ UnwoundState(r)' = UnwoundState(r)
    BY <1>2, <1>11, KeptSlot
  <2> QED
    BY <1>1, <2>1 DEF ThrowOf
<1>14. d.block # 0 => HandlingOf(x, n)'
  <2>1. HandlingOf(d, n) => HandlingOf(x, n)
    BY DEF HandlingOf
  <2> QED
    BY <1>2, <1>9, <1>11, <1>12, <2>1, KeptHandling
<1>15. ThrowShape(n)' /\ (frame'[n].block # 0 => HandlingShape(n)')
  BY <1>8, <1>13, <1>14 DEF ThrowShape, HandlingShape
<1>16. HasBoundary(n)' <=> x.pc \in {"search", "unwind", "cleanup", "copy"}
  BY <1>8 DEF HasBoundary
<1>17. head' \in 0..MaxDepth
  BY <1>1, <1>2 DEF Slot
<1> QED
  BY <1>1, <1>8, <1>11, <1>15, <1>16, <1>17, DispatchShape

LEMMA UnwindEdgeStep == ASSUME IInv, UnwindEdge PROVE IInv'
<1>1. PICK n \in Slot : n = top
  BY DEF IInv, TypeOK
<1>2. PICK d, r, p, f, s :
        d = frame[n] /\ r = d.reg /\ p = Primary(r) /\ f = Fn(r) /\ s = State(r)
  OBVIOUS
<1>3. d.kind = "throw" /\ d.pc = "unwind" /\ T = d /\ s > d.target
  BY <1>1, <1>2 DEF UnwindEdge, Dispatching, T
<1>4. /\ d \in RuntimeFrame /\ ThrowOf(d, n) /\ head = n /\ d.next = r
  BY <1>1, <1>2, <1>3, TopDispatch DEF HasBoundary
<1>5. r \in Slot /\ Catcher(r) /\ d.target >= -1 /\ d.target \in Int
  BY <1>1, <1>2, <1>3, <1>4, TopDispatch DEF ThrowOf, Catcher, RuntimeFrame
<1>6. f \in Fns /\ s \in States(f) /\ s \in Int /\ f = frame[p].fn /\ s = frame[p].state /\ p \in Slot
  BY <1>2, <1>5, UnderCatcher DEF Fn, State
<1>7. s \in 0..Eh[f].last
  <2>1. Eh[f].last \in Int
    BY <1>6, EhAssumption
  <2> QED
    BY <1>3, <1>5, <1>6, <2>1 DEF States
<1>8. PICK t : t = Eh[f].next[s]
  OBVIOUS
<1>9. t \in States(f) /\ t <= s
  BY <1>6, <1>7, <1>8, StateFacts
<1>10. PICK pc : pc = IF s \in Eh[f].cleanup THEN "cleanup" ELSE "unwind"
  OBVIOUS
<1> DEFINE x == [d EXCEPT !.pc = pc]
<1>11. pc \in {"cleanup", "unwind"}
  BY <1>10
<1>12. /\ x \in RuntimeFrame /\ x.kind = "throw" /\ x.reg = r /\ x.pc = pc /\ x.next = r
       /\ x.block = d.block /\ x.target = d.target /\ x.tf = d.tf
  BY <1>2, <1>3, <1>4, <1>11 DEF RuntimeFrame
<1>13. ThrowOf(x, n)
  BY <1>2, <1>3, <1>4, <1>11, <1>12 DEF ThrowOf
<1>14. p # n
  BY <1>1, <1>2, <1>3, <1>5, UnderCatcher DEF IsFunction
<1>15. frame' = [frame EXCEPT ![p].state = t, ![n] = x]
  <2>1. frame' = [frame EXCEPT ![p].state = t, ![n].pc = pc]
    BY <1>1, <1>2, <1>3, <1>8, <1>10 DEF UnwindEdge
  <2> QED
    BY <1>2, <1>14, <2>1
<1>16. /\ head' = n /\ top' = n /\ UNCHANGED <<exc, halted>>
       /\ objects' = objects \ {<<p, s>>}
  BY <1>1, <1>2, <1>3, <1>4 DEF UnwindEdge
<1> HIDE DEF x
<1>17. Works(n, d, p, t, x)
  BY <1>1, <1>2, <1>3, <1>5, <1>6, <1>9, <1>11, <1>12, <1>13, <1>15, <1>16 DEF Works
<1>18. Shape' /\ frame' \in [Slot -> Frame] /\ head' \in 0..MaxDepth
  BY <1>17, WorkStep
<1> QED
  BY <1>16, <1>18 DEF IInv, TypeOK

LEMMA CleanupReturnsStep == ASSUME IInv, CleanupReturns PROVE IInv'
<1>1. PICK n \in Slot : n = top
  BY DEF IInv, TypeOK
<1>2. PICK d : d = frame[n]
  OBVIOUS
<1>3. d.kind = "throw" /\ d.pc = "cleanup"
  BY <1>1, <1>2 DEF CleanupReturns, Dispatching
<1>4. /\ d \in RuntimeFrame /\ ThrowOf(d, n) /\ head = n /\ d.next = d.reg
      /\ d.block # 0 => HandlingOf(d, n)
  BY <1>1, <1>2, <1>3, TopDispatch DEF HasBoundary
<1> DEFINE x == [d EXCEPT !.pc = "unwind"]
<1>5. /\ x \in RuntimeFrame /\ x.kind = "throw" /\ x.reg = d.reg /\ x.pc = "unwind" /\ x.next = d.reg
      /\ x.block = d.block /\ x.target = d.target /\ x.tf = d.tf
  BY <1>3, <1>4 DEF RuntimeFrame
<1>6. frame' = [frame EXCEPT ![n] = x] /\ head' = n /\ top' = n
      /\ UNCHANGED <<exc, objects, halted>>
  BY <1>1, <1>2, <1>4 DEF CleanupReturns
<1> HIDE DEF x
<1>7. ThrowOf(x, n)
  BY <1>3, <1>4, <1>5 DEF ThrowOf
<1>8. x.block # 0 => HandlingOf(x, n)
  BY <1>4, <1>5 DEF HandlingOf
<1>9. Shape' /\ frame' \in [Slot -> Frame] /\ head' \in 0..MaxDepth
  BY <1>1, <1>2, <1>3, <1>5, <1>6, <1>7, <1>8, RewriteTop
<1> QED
  BY <1>6, <1>9 DEF IInv, TypeOK

LEMMA CopyReturnsStep == ASSUME IInv, CopyReturns PROVE IInv'
<1>1. PICK n \in Slot : n = top
  BY DEF IInv, TypeOK
<1>2. PICK d : d = frame[n]
  OBVIOUS
<1>3. d.kind = "throw" /\ d.pc = "copy" /\ T = d
  BY <1>1, <1>2 DEF CopyReturns, Dispatching, T
<1>4. /\ d \in RuntimeFrame /\ ThrowOf(d, n) /\ head = n /\ d.next = d.reg
      /\ d.block # 0 => HandlingOf(d, n)
  BY <1>1, <1>2, <1>3, TopDispatch DEF HasBoundary
<1> DEFINE x == [d EXCEPT !.pc = "call"]
<1>5. /\ x \in RuntimeFrame /\ x.kind = "throw" /\ x.reg = d.reg /\ x.pc = "call"
      /\ x.block = d.block /\ x.tf = d.tf
  BY <1>3, <1>4 DEF RuntimeFrame
<1>6. frame' = [frame EXCEPT ![n] = x] /\ head' = d.reg /\ top' = n
      /\ UNCHANGED <<exc, objects, halted>>
  BY <1>1, <1>2, <1>3, <1>4 DEF CopyReturns
<1> HIDE DEF x
<1>7. ThrowOf(x, n)
  BY <1>3, <1>4, <1>5 DEF ThrowOf
<1>8. x.block # 0 => HandlingOf(x, n)
  BY <1>4, <1>5 DEF HandlingOf
<1>9. Shape' /\ frame' \in [Slot -> Frame] /\ head' \in 0..MaxDepth
  BY <1>1, <1>2, <1>3, <1>5, <1>6, <1>7, <1>8, RewriteTop
<1> QED
  BY <1>6, <1>9 DEF IInv, TypeOK

LEMMA BindCatchVariableStep == ASSUME IInv, BindCatchVariable PROVE IInv'
<1>1. PICK n \in Slot : n = top
  BY DEF IInv, TypeOK
<1>2. PICK d, r, p, f, i :
        d = frame[n] /\ r = d.reg /\ p = Primary(r) /\ f = Fn(r) /\ i = d.block
  OBVIOUS
<1>3. d.kind = "throw" /\ d.pc = "unwind" /\ T = d /\ i # 0
  BY <1>1, <1>2 DEF BindCatchVariable, Unwound, Dispatching, T
<1>4. /\ d \in RuntimeFrame /\ ThrowOf(d, n) /\ head = n /\ d.next = r /\ HandlingOf(d, n)
  BY <1>1, <1>2, <1>3, TopDispatch DEF HasBoundary
<1>5. r \in Slot /\ Catcher(r)
  BY <1>1, <1>2, <1>3, <1>4, TopDispatch DEF ThrowOf, Catcher
<1>6. f \in Fns /\ f = frame[p].fn /\ p \in Slot /\ p # n
  BY <1>1, <1>2, <1>3, <1>5, UnderCatcher DEF Fn, IsFunction
<1>7. i \in Blocks(f)
  BY <1>2, <1>4, <1>6 DEF HandlingOf
<1>8. PICK s : s = HandlerState(f, i)
  OBVIOUS
<1>9. s \in States(f)
  BY <1>6, <1>7, <1>8, HandlerFacts
<1>10. PICK copies : copies = CopiesFor(Block(f, i).handlers[d.clause], GetThrowInfo(d.tf))
  OBVIOUS
<1>11. PICK pc : pc = IF copies THEN "copy" ELSE "call"
  OBVIOUS
<1> DEFINE x == [d EXCEPT !.pc = pc]
<1>12. pc \in {"copy", "call"}
  BY <1>11
<1>13. /\ x \in RuntimeFrame /\ x.kind = "throw" /\ x.reg = r /\ x.pc = pc /\ x.next = r
       /\ x.block = i /\ x.tf = d.tf
  BY <1>2, <1>3, <1>4, <1>12 DEF RuntimeFrame
<1>14. ThrowOf(x, n)
  BY <1>2, <1>3, <1>4, <1>5, <1>12, <1>13 DEF ThrowOf
<1>15. frame' = [frame EXCEPT ![p].state = s, ![n] = x]
  <2>1. frame' = [frame EXCEPT ![p].state = s, ![n].pc = pc]
    BY <1>1, <1>2, <1>3, <1>8, <1>10, <1>11 DEF BindCatchVariable
  <2> QED
    BY <1>2, <1>6, <2>1
<1>16. /\ top' = n /\ UNCHANGED <<exc, objects, halted>>
       /\ pc = "copy" => head' = n
       /\ pc # "copy" => head' = r
  BY <1>1, <1>2, <1>3, <1>4, <1>10, <1>11 DEF BindCatchVariable
<1> HIDE DEF x
<1>17. Works(n, d, p, s, x)
  BY <1>1, <1>2, <1>3, <1>5, <1>6, <1>9, <1>12, <1>13, <1>14, <1>15, <1>16 DEF Works
<1>18. Shape' /\ frame' \in [Slot -> Frame] /\ head' \in 0..MaxDepth
  BY <1>17, WorkStep
<1> QED
  BY <1>16, <1>18 DEF IInv, TypeOK

LEMMA AbandonExceptionStep == ASSUME IInv, AbandonException PROVE IInv'
<1>1. PICK n \in Slot : n = top
  BY DEF IInv, TypeOK
<1>2. PICK d, r : d = frame[n] /\ r = d.reg
  OBVIOUS
<1>3. /\ d.kind = "throw" /\ d.pc = "unwind" /\ T = d /\ d.block = 0
      /\ State(r) <= d.target /\ frame[r].kind = "catch"
  BY <1>1, <1>2 DEF AbandonException, NothingHere, Unwound, Dispatching, T
<1>4. /\ d \in RuntimeFrame /\ ThrowOf(d, n) /\ head = n /\ d.next = r
  BY <1>1, <1>2, <1>3, TopDispatch DEF HasBoundary
<1>5. Catcher(r) /\ d.target = UnwoundState(r)
  BY <1>2, <1>3, <1>4 DEF ThrowOf
<1> DEFINE x == [d EXCEPT !.pc = "abandon"]
<1>6. /\ x \in RuntimeFrame /\ x.kind = "throw" /\ x.reg = r /\ x.pc = "abandon" /\ x.block = 0
  BY <1>2, <1>3, <1>4 DEF RuntimeFrame
<1>7. frame' = [frame EXCEPT ![n] = x] /\ head' = r /\ top' = n
      /\ UNCHANGED <<exc, objects, halted>>
  BY <1>1, <1>2, <1>3, <1>4 DEF AbandonException
<1> HIDE DEF x
<1>8. ThrowOf(x, n)
  BY <1>2, <1>3, <1>4, <1>5, <1>6 DEF ThrowOf
<1>9. Shape' /\ frame' \in [Slot -> Frame] /\ head' \in 0..MaxDepth
  BY <1>1, <1>2, <1>3, <1>6, <1>7, <1>8, RewriteTop
<1> QED
  BY <1>7, <1>9 DEF IInv, TypeOK

----------------------------------------------------------------------------
(* The dispatcher moves down the chain.                                    *)

\* Between a registration and the code under the one before it nothing stands
\* but dispatches that were abandoned there.
LEMMA GapBelow ==
    ASSUME IInv, NEW r \in Slot, r \in Registered, r < top, NEW b, b = Before(r), Catcher(b),
           IsFunction(r) \/ IsRuntime(r), NEW q \in Slot, Body(b) < q, q < r
    PROVE  frame[q] = Free \/ Abandons(q, b)
<1>1. /\ Slot \subseteq Nat /\ MaxDepth \in Nat /\ TypeOK /\ top \in Slot
      /\ Registered \subseteq Slot
  BY Depth DEF IInv, TypeOK, Registered
<1>2. /\ b < r /\ b \in Slot /\ b \in Registered
      /\ \A j \in Slot : b < j /\ j < r => j \notin Registered
  <2>1. Linked(r)
    BY DEF IInv, Shape, SlotShape
  <2>2. b < r /\ b \in Registered \cup {0} /\ \A j \in Slot : b < j /\ j < r => j \notin Registered
    BY <2>1 DEF Linked
  <2>3. b # 0
    BY DEF Catcher
  <2> QED
    BY <1>1, <2>2, <2>3
<1>3. b < q /\ q \notin Registered /\ Body(b) \in Slot /\ Body(b) >= b
  <2>1. Body(b) \in Slot /\ Body(b) >= b
    BY <1>2, UnderCatcher
  <2>2. b \in Nat /\ Body(b) \in Nat /\ q \in Nat
    BY <1>1, <1>2, <2>1
  <2>3. b < q
    BY <2>1, <2>2
  <2> QED
    BY <1>2, <2>1, <2>3
<1>4. frame[q].kind \in {"free", "funclet", "throw"} /\ (frame[q].kind = "free" => frame[q] = Free)
  BY <1>1, <1>3, Kinds DEF Registered, IsFunction, HasBoundary
<1>5. frame[q].kind # "funclet"
  <2>1. SUFFICES ASSUME frame[q].kind = "funclet" PROVE FALSE
    OBVIOUS
  <2>2. PICK j \in Slot : j = q - 1 /\ frame[j].kind = "catch"
    BY <1>1, <2>1 DEF IInv, Shape, SlotShape, FuncletShape, Slot
  <2>3. j \in Registered
    BY <2>2 DEF Registered
  <2>4. j = b
    BY <1>1, <1>2, <1>3, <2>2, <2>3
  <2>5. Body(b) = b + 1
    BY <2>2, <2>4 DEF Body, IsFunction
  <2> QED
    BY <1>1, <2>2, <2>4, <2>5
<1>6. ASSUME frame[q].kind = "throw" PROVE Abandons(q, b)
  <2>1. frame[q].pc = "abandon"
    <3>1. q # top
      BY <1>1
    <3>2. frame[q].pc \in {"cleanup", "copy", "abandon"}
      BY <1>6, <3>1 DEF IInv, Shape, OthersWait
    <3> QED
      BY <1>3, <1>6, <3>2 DEF Registered, HasBoundary
  <2>2. PICK c : c = frame[q].reg
    OBVIOUS
  <2>3. c = Before(q) /\ Linked(q)
    BY <1>6, <2>2 DEF IInv, Shape, SlotShape, IsRuntime, IsFunction, Before
  <2>4. c < q /\ c \in Nat /\ (c # 0 => c \in Slot /\ c \in Registered)
        /\ \A j \in Slot : c < j /\ j < q => j \notin Registered
    BY <1>6, <2>2, <2>3, RegBelow DEF Linked, IsRuntime
  <2>5. ~(c < b)
    BY <1>1, <1>2, <1>3, <2>4
  <2>6. ~(b < c)
    BY <1>1, <1>2, <1>3, <2>4
  <2>7. c = b
    BY <1>1, <1>2, <2>4, <2>5, <2>6
  <2> QED
    BY <1>6, <2>1, <2>2, <2>7 DEF Abandons
<1> QED
  BY <1>4, <1>5, <1>6

LEMMA PassRegistrationStep ==
    ASSUME IInv, frame[top].kind = "throw", T.block = 0, Catcher(T.reg),
           NEW tf \in ThrowFrame, PassRegistration(tf)
    PROVE  Shape' /\ frame' \in [Slot -> Frame] /\ head' \in 0..MaxDepth
<1>1. PICK n \in Slot : n = top
  BY DEF IInv, TypeOK
<1>2. PICK d, r, b : d = frame[n] /\ r = d.reg /\ b = frame[r].next
  OBVIOUS
<1>3. d.kind = "throw" /\ T = d /\ d.block = 0 /\ Catcher(r)
  BY <1>1, <1>2 DEF T
<1>4. /\ d \in RuntimeFrame /\ ThrowOf(d, n) /\ r \in Slot /\ r < n /\ r \in Registered
      /\ Slot \subseteq Nat /\ MaxDepth \in Nat /\ n \in Slot
      /\ n < MaxDepth
  BY <1>1, <1>2, <1>3, TopDispatch, Depth DEF Catcher, ThrowOf
<1>5. IsFunction(r) \/ IsRuntime(r)
  BY <1>3 DEF Catcher, IsRuntime
<1>6. Linked(r) /\ b = Before(r)
  BY <1>2, <1>4, <1>5 DEF IInv, Shape, SlotShape, Linked
<1>7. /\ b < r /\ b \in Registered \cup {0} /\ b \in Nat /\ b \in 0..MaxDepth
      /\ b # 0 => b \in Slot /\ b \in Registered
      /\ \A q \in Slot : b < q /\ q < r => q \notin Registered
  <2>1. b < r /\ b \in Registered \cup {0} /\ \A q \in Slot : b < q /\ q < r => q \notin Registered
    BY <1>6 DEF Linked
  <2>2. b # 0 => b \in Slot /\ b \in Registered
    BY <2>1 DEF Registered
  <2>3. b \in Nat /\ b \in 0..MaxDepth
    BY <1>4, <2>2 DEF Slot
  <2> QED
    BY <2>1, <2>2, <2>3
<1> DEFINE x == [d EXCEPT !.reg = b, !.next = 0, !.pc = "visit", !.tf = tf, !.entry = -1, !.target = -1]
<1>8. x \in RuntimeFrame /\ x.kind = "throw" /\ x.reg = b /\ x.pc = "visit" /\ x.block = 0
  <2>1. b \in 0..MaxDepth /\ 0 \in 0..MaxDepth /\ -1 \in Int
    BY <1>4, <1>7
  <2> QED
    BY <1>3, <1>4, <2>1 DEF RuntimeFrame
<1>9. frame' = [k \in Slot |-> IF k = n THEN x ELSE IF r <= k /\ k < n THEN Free ELSE frame[k]]
      /\ head' = b /\ top' = n
  BY <1>1, <1>2, <1>3 DEF PassRegistration, NextRegistration
<1> HIDE DEF x
<1>10. /\ frame'[n] = x
       /\ \A q \in Slot : r <= q /\ q < n => frame'[q] = Free
       /\ \A q \in Slot : q < r \/ q > n => frame'[q] = frame[q]
  BY <1>4, <1>9
<1>11. \A q \in Slot : q > n => frame'[q] = Free
  BY <1>1, <1>10, TopFacts
<1>12. frame' \in [Slot -> Frame]
  <2>1. x \in Frame /\ Free \in Frame /\ \A k \in Slot : frame[k] \in Frame
    BY <1>8 DEF Frame, IInv, TypeOK
  <2> QED
    BY <1>9, <2>1
<1>13. KeptBelow(r)
  BY <1>4, <1>10 DEF KeptBelow, Kept
<1>14. \A q \in Slot : q >= r => q \notin Registered'
  <2>1. n \notin Registered'
    BY <1>8, <1>10 DEF Registered, IsFunction, HasBoundary
  <2>2. ASSUME NEW q \in Slot, q >= r, q # n PROVE frame'[q] = Free
    BY <1>4, <1>10, <1>11, <2>2
  <2> QED
    BY <2>1, <2>2 DEF Registered, IsFunction, HasBoundary, Free
<1>15. \A q \in Slot : q < r => (q \in Registered' <=> q \in Registered)
  BY <1>4, <1>13, KeptSlot
<1>16. \A q \in Slot : b < q => q \notin Registered'
  BY <1>4, <1>7, <1>14, <1>15
<1>17. b \in Registered' \cup {0}
  BY <1>7, <1>15
<1>18. HeadIsNewest'
  BY <1>9, <1>16, <1>17 DEF HeadIsNewest
<1>19. OthersWait'
  <2>1. SUFFICES ASSUME NEW k \in Slot, frame'[k].kind = "throw", k # n
                 PROVE  frame'[k].pc \in {"cleanup", "copy", "abandon"}
    BY <1>9 DEF OthersWait
  <2>2. frame'[k] # Free /\ k \in Nat /\ n \in Nat /\ r \in Nat
    BY <1>4, <2>1 DEF Free
  <2>3. k < r \/ k > n
    BY <1>10, <2>1, <2>2
  <2>4. frame'[k] = frame[k]
    BY <1>10, <2>3
  <2> QED
    BY <1>1, <2>1, <2>4 DEF IInv, Shape, OthersWait
<1>20. GapShape(n)'
  <2>1. SUFFICES ASSUME Catcher(b)', NEW q \in Slot, Body(b)' < q, q < n
                 PROVE  frame'[q] = Free \/ Abandons(q, b)'
    BY <1>8, <1>10 DEF GapShape
  <2>2. b \in Slot
    BY <1>7, <2>1 DEF Catcher
  <2>3. Catcher(b) /\ Body(b)' = Body(b)
    <3>1. r \in Int /\ b < r
      BY <1>4, <1>7
    <3>2. (Catcher(b)' <=> Catcher(b)) /\ Body(b)' = Body(b)
      BY <1>13, <2>2, <3>1, KeptSlot
    <3> QED
      BY <2>1, <3>2
  <2>4. CASE q < r
    <3>1. frame[q] = Free \/ Abandons(q, b)
      BY <1>1, <1>4, <1>5, <1>6, <2>1, <2>3, <2>4, GapBelow
    <3> QED
      BY <1>10, <2>4, <3>1 DEF Abandons
  <2>5. CASE ~(q < r)
    BY <1>4, <1>10, <2>1, <2>5
  <2> QED
    BY <2>4, <2>5
<1>21. ThrowShape(n)'
  BY <1>4, <1>8, <1>10 DEF ThrowShape, ThrowOf
<1>22. Linked(n)'
  <2>1. Before(n)' = b
    BY <1>8, <1>10 DEF Before, IsFunction
  <2> QED
    BY <1>4, <1>7, <1>14, <1>16, <1>17, <2>1 DEF Linked
<1>23. ASSUME NEW j \in Slot, r <= j + 1 PROVE frame'[j].kind # "catch"
  <2>1. CASE j = n
    BY <1>8, <1>10, <2>1
  <2>2. CASE j # n /\ r <= j
    BY <1>4, <1>10, <1>11, <2>2 DEF Free
  <2>3. CASE j = r - 1
    <3>1. frame[r].kind # "funclet"
      BY <1>3 DEF Catcher, IsFunction
    <3>2. SlotShape(r) /\ r > 1 /\ r - 1 = j
      BY <1>4, <2>3 DEF IInv, Shape, Slot
    <3>3. frame[j].kind # "catch"
      BY <3>1, <3>2 DEF SlotShape
    <3> QED
      BY <1>4, <1>10, <2>3, <3>3
  <2>4. j \in Nat /\ r \in Nat
    BY <1>4
  <2>5. j = n \/ (j # n /\ r <= j) \/ j = r - 1
    BY <1>23, <2>4
  <2> QED
    BY <2>1, <2>2, <2>3, <2>5
<1>24. ShapeFrom(r)'
  <2>1. SUFFICES ASSUME NEW k \in Slot, k >= r PROVE SlotShape(k)'
    BY <1>4, <1>9 DEF ShapeFrom
  <2>2. k > 1 => frame'[k - 1].kind # "catch"
    <3>1. SUFFICES ASSUME k > 1 PROVE frame'[k - 1].kind # "catch"
      OBVIOUS
    <3>2. PICK j \in Slot : j = k - 1 /\ r <= j + 1
      BY <1>4, <2>1, <3>1 DEF Slot
    <3> QED
      BY <1>23, <3>2
  <2>3. CASE k = n
    <3>1. ~(k > top')
      BY <1>4, <1>9, <2>3
    <3> QED
      BY <1>8, <1>10, <1>20, <1>21, <1>22, <2>2, <2>3, <3>1 DEF SlotShape, Handles
  <2>4. CASE k # n
    <3>1. frame'[k] = Free
      BY <1>4, <1>10, <1>11, <2>1, <2>4
    <3> QED
      BY <2>2, <3>1, FreeShape
  <2> QED
    BY <2>3, <2>4
<1>25. top' \in Int
  BY <1>4, <1>9
<1> QED
  BY <1>4, <1>7, <1>9, <1>12, <1>13, <1>18, <1>19, <1>24, <1>25, StepShape

\* No exception object comes into being when one is destroyed.
LEMMA DestroyedType ==
    ASSUME TypeOK, NEW tf
    PROVE  DestroyedBy(tf) \in [Slot -> Types \cup {NoInfo}]
BY DEF TypeOK, DestroyedBy

LEMMA PassFunctionStep == ASSUME IInv, PassFunction PROVE IInv'
<1>1. /\ frame[top].kind = "throw" /\ T.block = 0 /\ Catcher(T.reg) /\ PassRegistration(T.tf)
      /\ UNCHANGED <<exc, halted, objects>> /\ top' = top
  <2>1. NothingHere /\ IsFunction(T.reg)
    BY DEF PassFunction
  <2>2. T \in RuntimeFrame /\ frame[top].kind = "throw" /\ frame[top].pc = "unwind" /\ T.block = 0
    BY <2>1, Kinds DEF NothingHere, Unwound, Dispatching, IInv, TypeOK, IsRuntime, T
  <2>3. Catcher(T.reg)
    BY <2>2, TopDispatch DEF IInv, TypeOK, ThrowOf
  <2> QED
    BY <2>2, <2>3 DEF PassFunction, PassRegistration
<1>2. T.tf \in ThrowFrame
  BY <1>1, Kinds DEF IInv, TypeOK, IsRuntime, T, RuntimeFrame
<1>3. Shape' /\ frame' \in [Slot -> Frame] /\ head' \in 0..MaxDepth
  BY <1>1, <1>2, PassRegistrationStep
<1> QED
  BY <1>1, <1>3 DEF IInv, TypeOK

LEMMA TakeFromCatchFrameStep == ASSUME IInv, TakeFromCatchFrame PROVE IInv'
<1>1. PICK tf, r : tf = T.tf /\ r = T.reg
  OBVIOUS
<1>2. /\ frame[top].kind = "throw" /\ frame[top].pc = "unwind" /\ T.block = 0
      /\ frame[r].kind = "catch" /\ Catcher(T.reg) /\ r \in Slot /\ tf \in ThrowFrame
  <2>1. NothingHere /\ frame[r].kind = "catch"
    BY <1>1 DEF TakeFromCatchFrame
  <2>2. T \in RuntimeFrame /\ frame[top].kind = "throw" /\ frame[top].pc = "unwind" /\ T.block = 0
    BY <2>1, Kinds DEF NothingHere, Unwound, Dispatching, IInv, TypeOK, IsRuntime, T
  <2>3. Catcher(T.reg)
    BY <2>2, TopDispatch DEF IInv, TypeOK, ThrowOf
  <2> QED
    BY <1>1, <2>1, <2>2, <2>3, Depth DEF RuntimeFrame, Catcher, Slot
<1>3. PICK a : a = TakeFrom(tf, r)
  OBVIOUS
<1>4. a \in ThrowFrame
  BY <1>2, <1>3, ThrowFrameTypes
<1>5. PassRegistration(a) /\ UNCHANGED <<exc, halted, objects>> /\ top' = top
  BY <1>1, <1>3 DEF TakeFromCatchFrame, PassRegistration
<1>6. Shape' /\ frame' \in [Slot -> Frame] /\ head' \in 0..MaxDepth
  BY <1>2, <1>4, <1>5, PassRegistrationStep
<1> QED
  BY <1>5, <1>6 DEF IInv, TypeOK

LEMMA PassCatchFrameStep == ASSUME IInv, PassCatchFrame PROVE IInv'
<1>1. /\ T \in RuntimeFrame /\ frame[top].kind = "throw" /\ frame[top].pc = "abandon" /\ T = frame[top]
  BY Kinds DEF PassCatchFrame, Dispatching, IInv, TypeOK, IsRuntime, T
<1>2. T.block = 0 /\ Catcher(T.reg)
  BY <1>1, TopDispatch DEF IInv, TypeOK, ThrowOf
<1>3. T.tf \in ThrowFrame
  BY <1>1 DEF RuntimeFrame
<1>4. PassRegistration(T.tf) /\ UNCHANGED <<halted, objects>> /\ top' = top
  BY DEF PassCatchFrame, PassRegistration
<1>5. Shape' /\ frame' \in [Slot -> Frame] /\ head' \in 0..MaxDepth
  BY <1>1, <1>2, <1>3, <1>4, PassRegistrationStep
<1>6. exc' \in [Slot -> Types \cup {NoInfo}]
  BY DestroyedType DEF PassCatchFrame, IInv
<1> QED
  BY <1>4, <1>5, <1>6 DEF IInv, TypeOK

----------------------------------------------------------------------------
(* The handler's call, and what follows it.                                *)

LEMMA CallHandlerStep == ASSUME IInv, CallHandler PROVE IInv'
<1>1. PICK n \in Slot : n = top
  BY DEF IInv, TypeOK
<1>2. PICK d, r, i, p : d = frame[n] /\ r = d.reg /\ i = d.block /\ p = d.tf.primary_frame_base
  OBVIOUS
<1>3. d.kind = "throw" /\ d.pc = "call" /\ T = d
  BY <1>1, <1>2 DEF CallHandler, Dispatching, T
<1>4. /\ d \in RuntimeFrame /\ ThrowOf(d, n) /\ Linked(n) /\ Before(n) = r
      /\ r \in Nat /\ r < n /\ head = r /\ i # 0 /\ i \in Nat
      /\ HandlingOf(d, n) /\ n < MaxDepth /\ p \in Slot
  <2>1. /\ d \in RuntimeFrame /\ ThrowOf(d, n) /\ Linked(n) /\ Before(n) = r
        /\ r \in Nat /\ r < n /\ head = r
        /\ i # 0 => HandlingOf(d, n)
    BY <1>1, <1>2, <1>3, TopDispatch DEF HasBoundary
  <2>2. i # 0 /\ n < MaxDepth
    BY <1>2, <1>3, <2>1 DEF ThrowOf
  <2> QED
    BY <1>2, <2>1, <2>2 DEF HandlingOf, RuntimeFrame
<1>5. PICK m \in Slot : m = n + 1
  BY <1>4, Depth DEF Slot
<1>6. /\ Slot \subseteq Nat /\ MaxDepth \in Nat /\ n \in Nat /\ m \in Nat /\ m = n + 1 /\ r \in 0..MaxDepth
  BY <1>4, <1>5, Depth DEF RuntimeFrame, Slot
<1> DEFINE x == [d EXCEPT !.kind = "catch", !.pc = "handler", !.next = r, !.entry = -1, !.target = -1, !.clause = 0]
           y == [kind |-> "funclet", block |-> i, primary |-> p]
<1>7. /\ x \in RuntimeFrame /\ x.kind = "catch" /\ x.reg = r /\ x.next = r /\ x.tf = d.tf /\ x.block = i
  <2>1. d \in RuntimeFrame /\ r \in 0..MaxDepth /\ -1 \in Int /\ 0 \in Nat
    BY <1>4, <1>6
  <2>2. x \in RuntimeFrame
    BY <2>1 DEF RuntimeFrame
  <2>3. x.kind = "catch" /\ x.reg = r /\ x.next = r /\ x.tf = d.tf /\ x.block = i
    BY <1>2, <2>1 DEF RuntimeFrame
  <2> QED
    BY <2>2, <2>3
<1>8. y \in Funclet /\ y.kind = "funclet" /\ y.block = i /\ y.primary = p
  BY <1>4 DEF Funclet
<1>9. /\ frame' = [frame EXCEPT ![n] = x, ![m] = y] /\ head' = n /\ top' = m
      /\ UNCHANGED <<exc, objects, halted>>
  BY <1>1, <1>2, <1>3, <1>4, <1>5 DEF CallHandler, Primary
<1> HIDE DEF x, y
<1>10. /\ frame' \in [Slot -> Frame] /\ frame'[n] = x /\ frame'[m] = y
       /\ \A q \in Slot : q # n /\ q # m => frame'[q] = frame[q]
  BY <1>6, <1>7, <1>8, <1>9 DEF IInv, TypeOK, Frame
<1>11. KeptBelow(n)
  <2>1. SUFFICES ASSUME NEW q \in Slot, q < n PROVE frame'[q] = frame[q]
    BY DEF KeptBelow, Kept
  <2>2. q \in Nat
    BY <1>6
  <2>3. q # n /\ q # m
    BY <1>6, <2>1, <2>2
  <2> QED
    BY <1>10, <2>3
<1>12. \A q \in Slot : q > m => frame'[q] = Free
  BY <1>1, <1>6, <1>10, TopFacts
<1>13. n \in Registered' /\ \A q \in Slot : q > n => q \notin Registered'
  <2>1. n \in Registered' /\ m \notin Registered'
    BY <1>7, <1>8, <1>10 DEF Registered, IsFunction, HasBoundary
  <2>2. \A q \in Slot : q > m => q \notin Registered'
    BY <1>12 DEF Registered, IsFunction, HasBoundary, Free
  <2>3. \A q \in Slot : q > n => q = m \/ q > m
    BY <1>6
  <2> QED
    BY <2>1, <2>2, <2>3
<1>14. HeadIsNewest'
  BY <1>9, <1>13 DEF HeadIsNewest
<1>15. OthersWait'
  BY <1>1, <1>7, <1>8, <1>9, <1>10 DEF IInv, Shape, OthersWait
<1>16. HandlingShape(n)'
  <2>1. HandlingOf(x, n)
    BY <1>4, <1>7, <1>2 DEF HandlingOf
  <2>2. n <= n /\ x.reg \in Nat /\ x.reg < n /\ n \in Int
    BY <1>4, <1>6, <1>7
  <2>3. HandlingOf(x, n)'
    BY <1>11, <2>1, <2>2, KeptHandling
  <2> QED
    BY <1>10, <2>3 DEF HandlingShape
<1>17. Linked(n)'
  <2>1. /\ r < n /\ r \in Registered \cup {0}
        /\ \A q \in Slot : r < q /\ q < n => q \notin Registered
    BY <1>4 DEF Linked
  <2>2. \A q \in Slot : q < n => (q \in Registered' <=> q \in Registered)
    BY <1>6, <1>11, KeptSlot
  <2>3. r \in Registered' \cup {0}
    BY <2>1, <2>2 DEF Registered
  <2>4. Before(n)' = r /\ frame'[n].next = r
    BY <1>7, <1>10 DEF Before, IsFunction
  <2> QED
    BY <2>1, <2>2, <2>3, <2>4 DEF Linked
<1>18. SlotShape(n)'
  <2>1. n > 1 => frame'[n - 1].kind # "catch"
    <3>1. n > 1 => n - 1 \in Slot /\ n - 1 # n /\ n - 1 # m
      BY <1>6 DEF Slot
    <3>2. n > 1 => frame[n - 1].kind # "catch"
      BY <1>2, <1>3 DEF IInv, Shape, SlotShape
    <3> QED
      BY <1>10, <3>1, <3>2
  <2>2. ~(n > top')
    BY <1>6, <1>9
  <2> QED
    BY <1>4, <1>7, <1>10, <1>16, <1>17, <2>1, <2>2 DEF SlotShape
<1>19. SlotShape(m)'
  <2>1. m > 1 /\ m - 1 = n
    BY <1>6 DEF Slot
  <2>2. FuncletShape(m)'
    BY <1>2, <1>7, <1>8, <1>10, <2>1 DEF FuncletShape
  <2>3. ~(m > m) /\ frame'[n].kind = "catch" /\ frame'[m].kind = "funclet"
    BY <1>6, <1>7, <1>8, <1>10
  <2> QED
    BY <1>8, <1>9, <1>10, <2>1, <2>2, <2>3 DEF SlotShape, Handles, IsFunction, IsRuntime
<1>20. ASSUME NEW k \in Slot, k > m PROVE SlotShape(k)'
  <2>1. PICK j \in Slot : j = k - 1 /\ j >= m
    BY <1>6, <1>20 DEF Slot
  <2>2. j = m \/ j > m
    BY <1>6, <2>1
  <2>3. frame'[j].kind # "catch"
    BY <1>8, <1>10, <1>12, <2>2 DEF Free
  <2> QED
    BY <1>12, <1>20, <2>1, <2>3, FreeShape
<1>21. ShapeFrom(n)'
  <2>1. SUFFICES ASSUME NEW k \in Slot, k >= n PROVE SlotShape(k)'
    BY <1>6, <1>9 DEF ShapeFrom
  <2>2. k = n \/ k = m \/ k > m
    BY <1>6, <2>1
  <2> QED
    BY <1>18, <1>19, <1>20, <2>2
<1>22. Shape'
  BY <1>6, <1>9, <1>11, <1>14, <1>15, <1>21, StepShape
<1> QED
  BY <1>5, <1>9, <1>10, <1>22, Depth DEF IInv, TypeOK, Slot

LEMMA CatchReturnStep == ASSUME IInv, CatchReturn PROVE IInv'
<1>1. PICK m \in Slot : m = top
  BY DEF IInv, TypeOK
<1>2. frame[m].kind = "funclet"
  BY <1>1 DEF CatchReturn, Running, InHandlerState, IsUser, IsFunction
<1>3. m > 1 /\ m - 1 \in Slot /\ frame[m - 1].kind = "catch" /\ head = m - 1
  BY <1>1, <1>2, TopFacts
<1>4. PICK n \in Slot : n = m - 1
  BY <1>3
<1>5. PICK d, r : d = frame[n] /\ r = d.reg
  OBVIOUS
<1>6. /\ m > 1 /\ m \in Nat /\ n \in Nat /\ m = n + 1 /\ n < m /\ d.kind = "catch" /\ head = n
      /\ MaxDepth \in Nat
  BY <1>3, <1>4, <1>5, Depth DEF Slot
<1>7. /\ d \in RuntimeFrame /\ HandlingOf(d, n) /\ Linked(n) /\ Before(n) = r
      /\ r \in Nat /\ r < n /\ d.next = r
  <2>1. SlotShape(n) /\ IsRuntime(n) /\ Handles(n)
    BY <1>5, <1>6 DEF IInv, Shape, Handles, IsRuntime
  <2>2. n \in Registered
    BY <1>5, <1>6 DEF Registered
  <2> QED
    BY <1>5, <2>1, <2>2, RegBelow DEF SlotShape, HandlingShape
<1> DEFINE x == [d EXCEPT !.kind = "destroy", !.pc = "destroy"]
<1>8. /\ x \in RuntimeFrame /\ x.kind = "destroy" /\ x.reg = r /\ x.next = r /\ x.tf = d.tf /\ x.block = d.block
  BY <1>5, <1>7 DEF RuntimeFrame
<1>9. /\ frame' = [frame EXCEPT ![m] = Free, ![n] = x] /\ head' = n /\ top' = n
      /\ UNCHANGED <<exc, objects, halted>>
  <2>1. frame' = [frame EXCEPT ![m] = Free, ![n] = [@ EXCEPT !.kind = "destroy", !.pc = "destroy"]]
    BY <1>1, <1>4 DEF CatchReturn
  <2>2. frame' = [frame EXCEPT ![m] = Free, ![n] = x]
    BY <1>5, <1>6, <2>1
  <2> QED
    BY <1>1, <1>4, <1>6, <2>2 DEF CatchReturn
<1> HIDE DEF x
<1>10. /\ frame' \in [Slot -> Frame] /\ frame'[n] = x /\ frame'[m] = Free
       /\ \A q \in Slot : q # n /\ q # m => frame'[q] = frame[q]
  BY <1>6, <1>8, <1>9 DEF IInv, TypeOK, Frame
<1>11. KeptBelow(n)
  <2>1. SUFFICES ASSUME NEW q \in Slot, q < n PROVE frame'[q] = frame[q]
    BY DEF KeptBelow, Kept
  <2>2. q \in Nat
    BY Depth
  <2>3. q # n /\ q # m
    BY <1>6, <2>1, <2>2
  <2> QED
    BY <1>10, <2>3
<1>12. \A q \in Slot : q > n => frame'[q] = Free
  <2>1. SUFFICES ASSUME NEW q \in Slot, q > n, q # m PROVE frame'[q] = Free
    BY <1>10
  <2>2. q \in Nat
    BY Depth
  <2>3. q > m /\ q # n
    BY <1>6, <2>1, <2>2
  <2> QED
    BY <1>1, <1>10, <2>3, TopFacts
<1>13. n \in Registered' /\ \A q \in Slot : q > n => q \notin Registered'
  BY <1>8, <1>10, <1>12 DEF Registered, IsFunction, HasBoundary, Free
<1>14. HeadIsNewest'
  BY <1>9, <1>13 DEF HeadIsNewest
<1>15. OthersWait'
  <2>1. frame'[m].kind # "throw" /\ frame'[n].kind # "throw"
    BY <1>8, <1>10 DEF Free
  <2> QED
    BY <1>1, <1>9, <1>10, <2>1 DEF IInv, Shape, OthersWait
<1>16. HandlingShape(n)'
  <2>1. HandlingOf(x, n)
    BY <1>5, <1>7, <1>8 DEF HandlingOf
  <2>2. n <= n /\ x.reg \in Nat /\ x.reg < n /\ n \in Int
    BY <1>6, <1>7, <1>8
  <2>3. HandlingOf(x, n)'
    BY <1>11, <2>1, <2>2, KeptHandling
  <2> QED
    BY <1>10, <2>3 DEF HandlingShape
<1>17. Linked(n)'
  <2>1. /\ r < n /\ r \in Registered \cup {0}
        /\ \A q \in Slot : r < q /\ q < n => q \notin Registered
    BY <1>7 DEF Linked
  <2>2. \A q \in Slot : q < n => (q \in Registered' <=> q \in Registered)
    BY <1>6, <1>11, KeptSlot
  <2>3. r \in Registered' \cup {0}
    BY <2>1, <2>2 DEF Registered
  <2>4. Before(n)' = r /\ frame'[n].next = r
    BY <1>8, <1>10 DEF Before, IsFunction
  <2> QED
    BY <2>1, <2>2, <2>3, <2>4 DEF Linked
<1>18. SlotShape(n)'
  <2>1. n > 1 => frame'[n - 1].kind # "catch"
    <3>1. n > 1 => n - 1 \in Slot /\ n - 1 # n /\ n - 1 # m
      BY <1>6 DEF Slot
    <3>2. n > 1 => frame[n - 1].kind # "catch"
      BY <1>5, <1>6 DEF IInv, Shape, SlotShape
    <3> QED
      BY <1>10, <3>1, <3>2
  <2>2. ~(n > top')
    BY <1>6, <1>9
  <2> QED
    BY <1>8, <1>10, <1>16, <1>17, <2>1, <2>2 DEF SlotShape
<1>19. ASSUME NEW k \in Slot, k > n PROVE SlotShape(k)'
  <2>1. PICK j \in Slot : j = k - 1 /\ j >= n
    BY <1>6, <1>19 DEF Slot
  <2>2. j = n \/ j > n
    BY <1>6, <2>1
  <2>3. frame'[j].kind # "catch"
    BY <1>8, <1>10, <1>12, <2>2 DEF Free
  <2> QED
    BY <1>12, <1>19, <2>1, <2>3, FreeShape
<1>20. ShapeFrom(n)'
  <2>1. SUFFICES ASSUME NEW k \in Slot, k >= n PROVE SlotShape(k)'
    BY <1>6, <1>9 DEF ShapeFrom
  <2>2. k = n \/ k > n
    BY <1>6, <2>1, Depth
  <2> QED
    BY <1>18, <1>19, <2>2
<1>21. Shape'
  BY <1>6, <1>9, <1>11, <1>14, <1>15, <1>20, StepShape
<1> QED
  BY <1>4, <1>9, <1>10, <1>21, Depth DEF IInv, TypeOK, Slot

LEMMA ContinueAfterExceptionStep == ASSUME IInv, ContinueAfterException PROVE IInv'
<1>1. PICK n \in Slot : n = top
  BY DEF IInv, TypeOK
<1>2. PICK d, r, p, i, f : d = frame[n] /\ r = d.reg /\ p = d.tf.primary_frame_base /\ i = d.block /\ f = frame[p].fn
  OBVIOUS
<1>3. d.kind = "destroy" /\ T = d
  BY <1>1, <1>2 DEF ContinueAfterException, T
<1>4. /\ d \in RuntimeFrame /\ HandlingOf(d, n)
      /\ r \in Nat /\ r < n /\ d.next = r
  <2>1. SlotShape(n) /\ IsRuntime(n) /\ Handles(n)
    BY <1>2, <1>3 DEF IInv, Shape, Handles, IsRuntime
  <2>2. n \in Registered
    BY <1>2, <1>3 DEF Registered, HasBoundary
  <2> QED
    BY <1>2, <2>1, <2>2, RegBelow DEF SlotShape, HandlingShape
<1>5. /\ Catcher(r) /\ r \in Slot /\ r \in Registered
      /\ p = Primary(r) /\ p \in Slot /\ p < n /\ IsFunction(p) /\ i \in Blocks(f)
      /\ \A q \in Slot : Body(r) < q /\ q < n => frame[q] = Free
      /\ \A q \in Slot : q < n /\ frame[q].kind \in {"throw", "destroy"} => q < p
      /\ f \in Fns
  <2>1. Catcher(r) /\ r \in Slot
    BY <1>2, <1>4, Depth DEF HandlingOf, Catcher, Slot
  <2>2. r \in Registered /\ Fn(r) \in Fns
    BY <2>1, UnderCatcher
  <2> QED
    BY <1>2, <1>4, <2>1, <2>2 DEF HandlingOf, Fn
<1>6. PICK t : t = Eh[f].next[Block(f, i).try_low]
  OBVIOUS
<1>7. t \in States(f)
  BY <1>5, <1>6, HandlerFacts
<1>8. PICK b : b = Body(r)
  OBVIOUS
<1>9. b \in Slot /\ b \in Nat /\ r \in Nat /\ n \in Nat /\ p \in Nat /\ p <= r /\ r <= b /\ b < n
      /\ frame[b].kind # "catch" /\ frame[b].kind # "destroy"
      /\ (IF IsFunction(r) THEN r ELSE r + 1) = b
  <2>1. b \in Slot /\ r <= b /\ p <= r /\ b \in Nat /\ r \in Nat /\ n \in Nat /\ p \in Nat
    BY <1>5, <1>8, UnderCatcher, Depth
  <2>2. CASE IsFunction(r)
    BY <1>4, <1>8, <2>1, <2>2 DEF Body, IsFunction
  <2>3. CASE ~IsFunction(r)
    <3>1. frame[r + 1].kind = "funclet" /\ b = r + 1
      BY <1>5, <1>8, <2>3, UnderCatcher DEF Catcher, Body
    <3>2. b # n
      BY <1>2, <1>3, <3>1
    <3> QED
      BY <1>4, <2>1, <2>3, <3>1, <3>2
  <2> QED
    BY <2>2, <2>3
<1> DEFINE y == [frame[p] EXCEPT !.state = t]
<1>10. y \in FunctionFrame /\ y.kind = "function" /\ y.fn = f /\ y.next = frame[p].next /\ y.state = t
  <2>1. frame[p] \in FunctionFrame
    BY <1>5, Kinds DEF IInv
  <2> QED
    BY <1>2, <1>5, <1>7, <2>1, EhAssumption DEF FunctionFrame, States
<1>11. /\ frame' = [frame EXCEPT ![n] = Free, ![p] = y] /\ head' = r /\ top' = b
       /\ UNCHANGED <<objects, halted>> /\ exc' = DestroyedBy(d.tf)
  <2>1. frame' = [frame EXCEPT ![n] = Free, ![p].state = Eh[frame[p].fn].next[Block(frame[p].fn, T.block).try_low]]
    BY <1>1, <1>2, <1>3 DEF ContinueAfterException
  <2>2. p # n
    BY <1>2, <1>3, <1>5 DEF IsFunction
  <2>3. frame' = [frame EXCEPT ![n] = Free, ![p].state = t]
    BY <1>2, <1>3, <1>6, <2>1
  <2>4. frame' = [frame EXCEPT ![n] = Free, ![p] = y]
    BY <2>2, <2>3
  <2> QED
    BY <1>1, <1>2, <1>3, <1>4, <1>9, <2>4 DEF ContinueAfterException
<1> HIDE DEF y
<1>12. /\ frame' \in [Slot -> Frame] /\ frame'[n] = Free /\ frame'[p] = y
       /\ \A q \in Slot : q # n /\ q # p => frame'[q] = frame[q]
  BY <1>5, <1>10, <1>11 DEF IInv, TypeOK, Frame
<1>13. PICK m \in Int : m = b + 1
  BY <1>9
<1>14. KeptBelow(m)
  <2>1. SUFFICES ASSUME NEW q \in Slot, q < m PROVE Kept(q, m)
    BY DEF KeptBelow
  <2>2. q \in Nat /\ q # n
    BY <1>9, <1>13, <2>1, Depth
  <2>3. CASE q # p
    BY <1>12, <2>2, <2>3 DEF Kept
  <2>4. CASE q = p
    <3>1. \A j \in Slot : p < j /\ j < m => frame[j].kind # "throw"
      <4>1. SUFFICES ASSUME NEW j \in Slot, p < j, j < m, frame[j].kind = "throw" PROVE FALSE
        OBVIOUS
      <4>2. j \in Nat
        BY Depth
      <4>3. j < n
        BY <1>9, <1>13, <4>1, <4>2
      <4>4. j < p
        BY <1>5, <4>1, <4>3
      <4> QED
        BY <1>9, <4>1, <4>2, <4>4
    <3> QED
      BY <1>2, <1>5, <1>7, <1>10, <1>12, <2>4, <3>1 DEF Kept, IsFunction
  <2> QED
    BY <2>3, <2>4
<1>15. \A q \in Slot : q > b => frame'[q] = Free
  <2>1. SUFFICES ASSUME NEW q \in Slot, q > b, q # n PROVE frame'[q] = Free
    BY <1>12
  <2>2. q \in Nat /\ q # p
    BY <1>9, <2>1, Depth
  <2>3. frame'[q] = frame[q]
    BY <1>12, <2>1, <2>2
  <2>4. CASE q > n
    BY <1>1, <2>3, <2>4, TopFacts
  <2>5. CASE q < n
    BY <1>5, <1>8, <2>1, <2>3, <2>5
  <2> QED
    BY <1>9, <2>1, <2>2, <2>4, <2>5
<1>16. \A q \in Slot : r < q => q \notin Registered'
  <2>1. SUFFICES ASSUME NEW q \in Slot, r < q PROVE q \notin Registered'
    OBVIOUS
  <2>2. CASE q > b
    BY <1>15, <2>2 DEF Registered, IsFunction, HasBoundary, Free
  <2>3. CASE ~(q > b)
    <3>1. q = b /\ ~IsFunction(r) /\ b = r + 1
      BY <1>9, <2>1, <2>3, Depth
    <3>2. frame[b].kind = "funclet"
      BY <1>5, <3>1, UnderCatcher DEF Catcher
    <3>3. frame'[b] = frame[b]
      <4>1. b # n /\ b # p
        BY <1>9, <2>1, <3>1
      <4> QED
        BY <1>9, <1>12, <4>1
    <3> QED
      BY <3>1, <3>2, <3>3 DEF Registered, IsFunction, HasBoundary
  <2> QED
    BY <2>2, <2>3
<1>17. r \in Registered'
  <2>1. r < m
    BY <1>9, <1>13
  <2> QED
    BY <1>5, <1>13, <1>14, <2>1, KeptSlot
<1>18. HeadIsNewest'
  BY <1>11, <1>16, <1>17 DEF HeadIsNewest
<1>19. OthersWait'
  <2>1. SUFFICES ASSUME NEW k \in Slot, frame'[k].kind = "throw"
                 PROVE  frame'[k].pc \in {"cleanup", "copy", "abandon"}
    BY DEF OthersWait
  <2>2. k # n /\ k # p
    BY <1>10, <1>12, <2>1 DEF Free
  <2> QED
    BY <1>1, <1>12, <2>1, <2>2 DEF IInv, Shape, OthersWait
<1>20. ASSUME NEW k \in Slot, k > b PROVE SlotShape(k)'
  <2>1. PICK j \in Slot : j = k - 1 /\ j >= b
    BY <1>9, <1>20, Depth DEF Slot
  <2>2. j = b \/ j > b
    BY <1>9, <2>1, Depth
  <2>3. frame'[b].kind # "catch"
    BY <1>9, <1>10, <1>12
  <2>4. frame'[j].kind # "catch"
    BY <1>15, <2>2, <2>3 DEF Free
  <2> QED
    BY <1>15, <1>20, <2>1, <2>4, FreeShape
<1>21. ShapeFrom(m)'
  <2>1. SUFFICES ASSUME NEW k \in Slot, k >= m \/ k > b PROVE SlotShape(k)'
    BY <1>11 DEF ShapeFrom
  <2>2. k > b
    BY <1>9, <1>13, <2>1, Depth
  <2> QED
    BY <1>20, <2>2
<1>22. Shape'
  BY <1>9, <1>11, <1>13, <1>14, <1>18, <1>19, <1>21, StepShape
<1>23. exc' \in [Slot -> Types \cup {NoInfo}] /\ head' \in 0..MaxDepth
  BY <1>5, <1>11, DestroyedType, Depth DEF IInv, Slot
<1> QED
  BY <1>9, <1>11, <1>12, <1>22, <1>23 DEF IInv, TypeOK

----------------------------------------------------------------------------
(* The steps of the program.                                               *)

\* A new frame x on the newest one: of a function that registers itself, or of
\* a dispatch that has not looked at any registration.
Pushes(m, x) ==
    /\ m = top + 1 /\ frame' = [frame EXCEPT ![m] = x] /\ top' = m
    /\ \/ /\ x \in FunctionFrame /\ x.kind = "function" /\ x.state \in States(x.fn) /\ x.next = head
          /\ head' = m
          /\ frame[top].kind = "throw" => frame[top].pc \in {"cleanup", "copy", "abandon"}
       \/ /\ x \in RuntimeFrame /\ x.kind = "throw" /\ x.reg = head /\ x.pc = "visit" /\ x.block = 0
          /\ head' = head /\ m < MaxDepth /\ IsUser(top)

LEMMA PushStep ==
    ASSUME IInv, NEW m \in Slot, NEW x, Pushes(m, x)
    PROVE  Shape' /\ frame' \in [Slot -> Frame] /\ head' \in 0..MaxDepth
<1>1. PICK n \in Slot : n = top
  BY DEF IInv, TypeOK
<1>2. /\ m = n + 1 /\ frame' = [frame EXCEPT ![m] = x] /\ top' = m /\ x \in Frame
      /\ n \in Nat /\ m \in Nat /\ m > 1 /\ MaxDepth \in Nat
  <2>1. n \in Nat /\ n >= 1 /\ m \in Nat /\ MaxDepth \in Nat
    BY Depth DEF Slot
  <2>2. m = n + 1 /\ frame' = [frame EXCEPT ![m] = x] /\ top' = m
    BY <1>1 DEF Pushes
  <2>3. x \in FunctionFrame \/ x \in RuntimeFrame
    BY DEF Pushes
  <2>4. x \in Frame
    BY <2>3 DEF Frame
  <2>5. m > 1
    BY <2>1, <2>2
  <2> QED
    BY <2>1, <2>2, <2>4, <2>5
<1>3. /\ frame' \in [Slot -> Frame] /\ frame'[m] = x /\ \A q \in Slot : q # m => frame'[q] = frame[q]
  BY <1>2 DEF IInv, TypeOK
<1>4. KeptBelow(m)
  <2>1. SUFFICES ASSUME NEW q \in Slot, q < m PROVE frame'[q] = frame[q]
    BY DEF KeptBelow, Kept
  <2>2. q # m
    BY <1>2, <2>1, Depth
  <2> QED
    BY <1>3, <2>2
<1>5. \A q \in Slot : q > m => frame'[q] = Free /\ q \notin Registered'
  <2>1. SUFFICES ASSUME NEW q \in Slot, q > m PROVE frame'[q] = Free
    BY DEF Registered, IsFunction, HasBoundary, Free
  <2>2. q # m /\ q > n
    BY <1>2, <2>1, Depth
  <2> QED
    BY <1>1, <1>3, <2>2, TopFacts
<1>6. PICK h : h = head
  OBVIOUS
<1>7. /\ h \in Registered \cup {0} /\ h < m /\ h \in 0..MaxDepth
      /\ \A q \in Slot : h < q => q \notin Registered
  <2>1. h \in Registered \cup {0} /\ h <= n /\ h \in 0..MaxDepth
        /\ \A q \in Slot : h < q => q \notin Registered
    BY <1>1, <1>6, TopFacts DEF IInv, TypeOK
  <2> QED
    BY <1>2, <2>1
<1>8. \A q \in Slot : q < m => (q \in Registered' <=> q \in Registered)
  BY <1>2, <1>4, KeptSlot
<1>9. h \in Registered' \cup {0}
  BY <1>7, <1>8 DEF Registered
<1>10. Before(m)' = h /\ frame'[m].kind \in {"function", "throw"} /\ (frame'[m].kind = "function" => frame'[m].next = h)
  BY <1>3, <1>6 DEF Before, IsFunction, Pushes
<1>11. Linked(m)'
  <2>1. \A q \in Slot : h < q /\ q < m => q \notin Registered'
    BY <1>7, <1>8
  <2>2. m \in Registered' => frame'[m].next = h
    BY <1>3, <1>10 DEF Registered, IsFunction, HasBoundary, Pushes
  <2> QED
    BY <1>7, <1>9, <1>10, <2>1, <2>2 DEF Linked
<1>12. HeadIsNewest'
  <2>1. CASE x.kind = "function"
    <3>1. head' = m /\ m \in Registered'
      BY <1>3, <2>1 DEF Pushes, Registered, IsFunction
    <3> QED
      BY <1>5, <3>1 DEF HeadIsNewest
  <2>2. CASE x.kind = "throw"
    <3>1. head' = h /\ m \notin Registered'
      BY <1>3, <1>6, <2>2 DEF Pushes, Registered, IsFunction, HasBoundary
    <3>2. ASSUME NEW q \in Slot, h < q PROVE q \notin Registered'
      <4>1. q < m \/ q = m \/ q > m
        BY <1>2, Depth
      <4> QED
        BY <1>5, <1>7, <1>8, <3>1, <3>2, <4>1
    <3> QED
      BY <1>9, <3>1, <3>2 DEF HeadIsNewest
  <2> QED
    BY <1>3, <1>10, <2>1, <2>2
<1>13. OthersWait'
  <2>1. SUFFICES ASSUME NEW k \in Slot, frame'[k].kind = "throw", k # m
                 PROVE  frame'[k].pc \in {"cleanup", "copy", "abandon"}
    BY <1>2 DEF OthersWait
  <2>2. frame'[k] = frame[k]
    BY <1>3, <2>1
  <2>3. CASE k # n
    BY <1>1, <2>1, <2>2, <2>3 DEF IInv, Shape, OthersWait
  <2>4. CASE k = n
    BY <1>1, <2>1, <2>2, <2>4 DEF Pushes, IsUser
  <2> QED
    BY <2>3, <2>4
<1>14. SlotShape(m)'
  <2>1. frame'[m - 1].kind # "catch" /\ ~(m > top')
    <3>1. m - 1 = n /\ n # m
      BY <1>2
    <3>2. frame[n].kind # "catch"
      BY <1>1, TopFacts
    <3>3. ~(m > m)
      BY <1>2
    <3> QED
      BY <1>2, <1>3, <3>1, <3>2, <3>3
  <2>2. CASE x.kind = "function"
    <3>1. FunctionShape(m)'
      BY <1>3, <2>2 DEF Pushes, FunctionShape
    <3> QED
      BY <1>3, <1>11, <2>1, <2>2, <3>1 DEF SlotShape, Handles
  <2>3. CASE x.kind = "throw"
    <3>1. x.reg = h /\ x.pc = "visit" /\ x.block = 0 /\ m < MaxDepth /\ IsUser(n)
      BY <1>1, <1>6, <2>3 DEF Pushes
    <3>2. ThrowShape(m)'
      BY <1>3, <3>1 DEF ThrowShape, ThrowOf
    <3>3. GapShape(m)'
      <4>1. SUFFICES ASSUME NEW q \in Slot, Catcher(h)', Body(h)' < q, q < m PROVE FALSE
        BY <1>3, <3>1 DEF GapShape
      <4>2. h \in Slot /\ h < m /\ q \in Nat /\ q <= n /\ h \in Nat
        BY <1>2, <1>7, <4>1, Depth DEF Catcher, Slot
      <4>3. Body(h)' = Body(h)
        BY <1>2, <1>4, <4>2, KeptSlot
      <4>4. CASE IsFunction(n)
        BY <1>1, <1>6, <4>1, <4>2, <4>3, <4>4, TopFacts DEF Body
      <4>5. CASE frame[n].kind = "funclet"
        <5>1. h = n - 1 /\ frame[n - 1].kind = "catch"
          BY <1>1, <1>6, <4>5, TopFacts
        <5>2. Body(h) = h + 1
          BY <5>1 DEF Body, IsFunction
        <5> QED
          BY <1>2, <4>1, <4>2, <4>3, <5>1, <5>2
      <4> QED
        BY <3>1, <4>4, <4>5 DEF IsUser, IsFunction
    <3> QED
      BY <1>3, <1>11, <2>1, <2>3, <3>1, <3>2, <3>3 DEF SlotShape, Handles
  <2> QED
    BY <1>3, <1>10, <2>2, <2>3
<1>15. ASSUME NEW k \in Slot, k > m PROVE SlotShape(k)'
  <2>1. PICK j \in Slot : j = k - 1 /\ j >= m
    BY <1>2, <1>15 DEF Slot
  <2>2. j = m \/ j > m
    BY <1>2, <2>1, Depth
  <2>3. frame'[j].kind # "catch"
    BY <1>5, <1>10, <2>2 DEF Free
  <2> QED
    BY <1>5, <1>15, <2>1, <2>3, FreeShape
<1>16. ShapeFrom(m)'
  <2>1. SUFFICES ASSUME NEW k \in Slot, k >= m PROVE SlotShape(k)'
    BY <1>2 DEF ShapeFrom
  <2>2. k = m \/ k > m
    BY <1>2, <2>1, Depth
  <2> QED
    BY <1>14, <1>15, <2>2
<1>17. head' \in 0..MaxDepth
  BY <1>2, <1>6, <1>7 DEF Pushes, Slot
<1> QED
  BY <1>2, <1>3, <1>4, <1>12, <1>13, <1>16, <1>17, StepShape

LEMMA CallPushes ==
    ASSUME IInv, NEW f \in Fns, Call(f)
    PROVE  \E m \in Slot : \E x : Pushes(m, x) /\ x.kind = "function" /\ x.fn = f /\ x.state = -1
<1>1. PICK m \in Slot : m = top + 1
  BY Depth DEF Call, IInv, TypeOK, Slot
<1> DEFINE x == [kind |-> "function", fn |-> f, state |-> -1, next |-> head]
<1>2. /\ x \in FunctionFrame /\ x.kind = "function" /\ x.state \in States(x.fn) /\ x.next = head
      /\ x.fn = f /\ x.state = -1
  BY EhAssumption DEF FunctionFrame, States, IInv, TypeOK
<1>3. frame' = [frame EXCEPT ![m] = x] /\ top' = m /\ head' = m
  BY <1>1 DEF Call
<1>4. frame[top].kind = "throw" => frame[top].pc \in {"cleanup", "copy", "abandon"}
  <2>1. CASE Running
    BY <2>1 DEF Running, IsUser
  <2>2. CASE CallsOut
    <3>1. T.pc \in {"copy", "cleanup", "abandon", "destroy"}
      BY <2>2 DEF CallsOut
    <3>2. ASSUME frame[top].kind = "throw" PROVE frame[top].pc # "destroy"
      BY <3>2 DEF IInv, TypeOK, Shape, SlotShape, ThrowShape, ThrowOf
    <3> QED
      BY <3>1, <3>2 DEF T
  <2> QED
    BY <2>1, <2>2 DEF Call
<1> HIDE DEF x
<1>5. Pushes(m, x)
  BY <1>1, <1>2, <1>3, <1>4 DEF Pushes
<1> QED
  BY <1>2, <1>5

LEMMA CallStep == ASSUME IInv, NEW f \in Fns, Call(f) PROVE IInv'
<1>1. PICK m \in Slot : \E x : Pushes(m, x)
  BY CallPushes
<1>2. Shape' /\ frame' \in [Slot -> Frame] /\ head' \in 0..MaxDepth
  BY <1>1, PushStep
<1>3. top' \in Slot /\ UNCHANGED <<exc, objects, halted>>
  BY <1>1 DEF Call, Pushes
<1> QED
  BY <1>2, <1>3 DEF IInv, TypeOK

LEMMA ThrowFramePushes ==
    ASSUME IInv, Running, NEW obj \in ObjOrLink, NEW info \in Types \cup {NoInfo}, PushThrowFrame(obj, info)
    PROVE  \E m \in Slot : \E x : Pushes(m, x) /\ x.kind = "throw"
<1>1. PICK m \in Slot : m = top + 1 /\ m < MaxDepth
  BY Depth DEF PushThrowFrame, IInv, TypeOK, Slot
<1> DEFINE x == [kind |-> "throw", reg |-> head, next |-> 0, pc |-> "visit",
                 tf |-> [unwound_state |-> 0, primary_frame_base |-> 0,
                         exception_object_or_link |-> obj, throw_info_if_owner |-> info],
                 entry |-> -1, target |-> -1, block |-> 0, clause |-> 0]
<1>2. x \in RuntimeFrame /\ x.kind = "throw" /\ x.reg = head /\ x.pc = "visit" /\ x.block = 0
  BY Depth DEF RuntimeFrame, ThrowFrame, IInv, TypeOK
<1>3. frame' = [frame EXCEPT ![m] = x] /\ top' = m /\ head' = head
  BY <1>1 DEF PushThrowFrame
<1>4. IsUser(top)
  BY DEF Running
<1> HIDE DEF x
<1>5. Pushes(m, x)
  BY <1>1, <1>2, <1>3, <1>4 DEF Pushes
<1> QED
  BY <1>2, <1>5

LEMMA PushThrowFrameStep ==
    ASSUME IInv, Running, NEW obj \in ObjOrLink, NEW info \in Types \cup {NoInfo}, PushThrowFrame(obj, info),
           exc' \in [Slot -> Types \cup {NoInfo}]
    PROVE  IInv'
<1>1. PICK m \in Slot : \E x : Pushes(m, x)
  BY ThrowFramePushes
<1>2. Shape' /\ frame' \in [Slot -> Frame] /\ head' \in 0..MaxDepth
  BY <1>1, PushStep
<1>3. top' \in Slot /\ UNCHANGED <<head, objects, halted>>
  BY <1>1 DEF PushThrowFrame, Pushes
<1> QED
  BY <1>2, <1>3 DEF IInv, TypeOK

\* `throw` and `throw;` differ in what the throw frame refers to.
LEMMA ThrowArguments ==
    ASSUME IInv
    PROVE  /\ \A t \in Types : Throw(t) =>
                Running /\ \E obj \in ObjOrLink : PushThrowFrame(obj, t)
           /\ Rethrow => Running /\ PushThrowFrame(Null, NoInfo) /\ Null \in ObjOrLink
<1>1. Object(top) \in ObjOrLink /\ Null \in ObjOrLink
  BY Depth DEF Object, Null, ObjOrLink, IInv, TypeOK, Slot
<1> QED
  BY <1>1 DEF Throw, Rethrow

LEMMA ThrowStep == ASSUME IInv, NEW t \in Types, Throw(t) PROVE IInv'
<1>1. exc' \in [Slot -> Types \cup {NoInfo}]
  BY DEF Throw, IInv, TypeOK
<1>2. Running /\ \E obj \in ObjOrLink : PushThrowFrame(obj, t)
  BY ThrowArguments
<1> QED
  BY <1>1, <1>2, PushThrowFrameStep

LEMMA RethrowStep == ASSUME IInv, Rethrow PROVE IInv'
<1>1. exc' \in [Slot -> Types \cup {NoInfo}]
  BY DEF Rethrow, IInv, TypeOK
<1> QED
  BY <1>1, ThrowArguments, PushThrowFrameStep

\* The code on top works on a function under which nothing is dispatched.
LEMMA RunningOn ==
    ASSUME IInv, Running, NEW p, p = Primary(top)
    PROVE  /\ p \in Slot /\ p <= top /\ IsFunction(p) /\ frame[p].fn \in Fns /\ frame[p] \in FunctionFrame
           /\ frame[p].fn = Fn(top) /\ frame[p].state = State(top) /\ State(top) \in States(Fn(top))
           /\ \A j \in Slot : p < j /\ j <= top => frame[j].kind \notin {"throw", "destroy"}
<1>1. PICK n \in Slot : n = top
  BY DEF IInv, TypeOK
<1>2. n \in Nat /\ MaxDepth \in Nat /\ (IsFunction(n) \/ frame[n].kind = "funclet")
  BY <1>1, Depth DEF Running, IsUser, IsFunction
<1>3. PICK m \in Int : m = n + 1
  BY <1>2
<1>4. /\ p \in Slot /\ p <= n /\ IsFunction(p) /\ frame[p].fn \in Fns /\ frame[p] \in FunctionFrame
      /\ \A j \in Slot : p < j /\ j < m => frame[j].kind \notin {"throw", "destroy"}
  <2>1. ASSUME p \in Slot, IsFunction(p) PROVE frame[p].fn \in Fns /\ frame[p] \in FunctionFrame
    BY <2>1, Kinds DEF IInv, FunctionFrame
  <2>2. CASE IsFunction(n)
    <3>1. p = n
      BY <1>1, <2>2 DEF Primary, IsFunction
    <3>2. ASSUME NEW j \in Slot PROVE ~(p < j /\ j < m)
      <4>1. j \in Nat /\ n \in Nat
        BY Depth
      <4> QED
        BY <1>3, <3>1, <4>1
    <3>3. p \in Slot /\ IsFunction(p) /\ p <= n
      BY <1>1, <1>2, <2>2, <3>1
    <3> QED
      BY <2>1, <3>2, <3>3
  <2>3. CASE frame[n].kind = "funclet"
    <3>1. PICK c \in Slot : c = n - 1 /\ frame[c].kind = "catch"
      BY <1>1, <2>3, TopFacts
    <3>2. frame[n].primary = frame[c].tf.primary_frame_base
      BY <1>1, <2>3, <3>1 DEF IInv, Shape, SlotShape, FuncletShape
    <3>3. p = frame[c].tf.primary_frame_base
      BY <1>1, <2>3, <3>2 DEF Primary
    <3>4. HandlingOf(frame[c], c)
      BY <3>1, UnderCatcher DEF Catcher, HandlingShape, Slot
    <3>5. /\ p \in Slot /\ p < c /\ IsFunction(p)
          /\ \A q \in Slot : q < c /\ frame[q].kind \in {"throw", "destroy"} => q < p
      BY <3>3, <3>4 DEF HandlingOf
    <3>6. ASSUME NEW j \in Slot, p < j, j < m, frame[j].kind \in {"throw", "destroy"} PROVE FALSE
      <4>1. j \in Nat /\ c \in Nat /\ p \in Nat
        BY <3>5, Depth
      <4>2. j < c
        BY <1>2, <1>3, <2>3, <3>1, <3>6, <4>1
      <4> QED
        BY <3>5, <3>6, <4>1, <4>2
    <3>7. p <= n
      BY <1>2, <3>1, <3>5, Depth
    <3> QED
      BY <2>1, <3>5, <3>6, <3>7
  <2> QED
    BY <1>2, <2>2, <2>3
<1>5. \A j \in Slot : p < j /\ j <= n => frame[j].kind \notin {"throw", "destroy"}
  BY <1>2, <1>3, <1>4, Depth
<1>6. frame[p].fn = Fn(top) /\ frame[p].state = State(top) /\ frame[p].state \in States(frame[p].fn)
  BY <1>4 DEF Fn, State, IInv, Shape, SlotShape, FunctionShape, IsFunction
<1> QED
  BY <1>1, <1>4, <1>5, <1>6

\* The code on top changes the state of its function.
LEMMA MoveStep ==
    ASSUME IInv, Running, NEW p, p = Primary(top), NEW s, s \in States(frame[p].fn),
           frame' = [frame EXCEPT ![p].state = s], top' = top, head' = head
    PROVE  Shape' /\ frame' \in [Slot -> Frame]
<1>1. PICK n \in Slot : n = top
  BY DEF IInv, TypeOK
<1>2. n \in Nat /\ MaxDepth \in Nat /\ (IsFunction(n) \/ frame[n].kind = "funclet")
  BY <1>1, Depth DEF Running, IsUser, IsFunction
<1>3. PICK m \in Int : m = n + 1
  BY <1>2
<1>4. /\ p \in Slot /\ p <= n /\ IsFunction(p) /\ frame[p].fn \in Fns /\ frame[p] \in FunctionFrame
      /\ \A j \in Slot : p < j /\ j < m => frame[j].kind # "throw"
  <2>1. /\ p \in Slot /\ p <= n /\ IsFunction(p) /\ frame[p].fn \in Fns /\ frame[p] \in FunctionFrame
        /\ \A j \in Slot : p < j /\ j <= n => frame[j].kind \notin {"throw", "destroy"}
    BY <1>1, RunningOn
  <2> QED
    BY <1>2, <1>3, <2>1, Depth
<1> DEFINE y == [frame[p] EXCEPT !.state = s]
<1>5. y \in FunctionFrame /\ y.kind = "function" /\ y.fn = frame[p].fn /\ y.next = frame[p].next /\ y.state = s
  BY <1>4, EhAssumption DEF FunctionFrame, States
<1>6. frame' = [frame EXCEPT ![p] = y]
  OBVIOUS
<1> HIDE DEF y
<1>7. frame' \in [Slot -> Frame] /\ frame'[p] = y /\ \A q \in Slot : q # p => frame'[q] = frame[q]
  BY <1>4, <1>5, <1>6 DEF Frame, IInv, TypeOK
<1>8. KeptBelow(m)
  <2>1. Kept(p, m)
    BY <1>4, <1>5, <1>7 DEF Kept, IsFunction
  <2> QED
    BY <1>7, <2>1 DEF KeptBelow, Kept
<1>9. \A q \in Slot : q > n => frame'[q] = Free
  <2>1. SUFFICES ASSUME NEW q \in Slot, q > n PROVE frame'[q] = Free
    OBVIOUS
  <2>2. q # p
    BY <1>2, <1>4, <2>1, Depth
  <2> QED
    BY <1>1, <1>7, <2>1, <2>2, TopFacts
<1>10. \A q \in Slot : q \in Registered' <=> q \in Registered
  BY <1>4, <1>5, <1>7 DEF Registered, IsFunction, HasBoundary
<1>11. HeadIsNewest'
  BY <1>10 DEF IInv, Shape, HeadIsNewest, Registered
<1>12. OthersWait'
  <2>1. SUFFICES ASSUME NEW k \in Slot, frame'[k].kind = "throw", k # n
                 PROVE  frame'[k].pc \in {"cleanup", "copy", "abandon"}
    BY <1>1 DEF OthersWait
  <2>2. k # p
    BY <1>5, <1>7, <2>1
  <2> QED
    BY <1>1, <1>7, <2>1, <2>2 DEF IInv, Shape, OthersWait
<1>13. frame'[n].kind # "catch"
  <2>1. frame[n].kind # "catch"
    BY <1>1, TopFacts
  <2> QED
    BY <1>5, <1>7, <2>1
<1>14. ASSUME NEW k \in Slot, k > n PROVE SlotShape(k)'
  <2>1. PICK j \in Slot : j = k - 1 /\ j >= n
    BY <1>2, <1>14, Depth DEF Slot
  <2>2. j = n \/ j > n
    BY <1>2, <2>1, Depth
  <2>3. frame'[j].kind # "catch"
    BY <1>9, <1>13, <2>2 DEF Free
  <2> QED
    BY <1>9, <1>14, <2>1, <2>3, FreeShape
<1>15. ShapeFrom(m)'
  <2>1. SUFFICES ASSUME NEW k \in Slot, k >= m \/ k > n PROVE SlotShape(k)'
    BY <1>1 DEF ShapeFrom
  <2>2. k > n
    BY <1>2, <1>3, <2>1, Depth
  <2> QED
    BY <1>14, <2>2
<1>16. top' \in Int
  BY <1>1, <1>2
<1> QED
  BY <1>3, <1>7, <1>8, <1>11, <1>12, <1>15, <1>16, StepShape

LEMMA EnterStep == ASSUME IInv, NEW s, Enter(s) PROVE IInv'
<1>1. PICK p : p = Primary(top)
  OBVIOUS
<1>2. Running /\ p \in Slot /\ frame[p].fn = Fn(top)
  BY <1>1, RunningOn DEF Enter
<1>3. s \in States(frame[p].fn) /\ s \in Nat
  BY <1>2 DEF Enter, States
<1>4. frame' = [frame EXCEPT ![p].state = s] /\ top' = top /\ head' = head /\ UNCHANGED <<exc, halted>>
  BY <1>1 DEF Enter
<1>5. Shape' /\ frame' \in [Slot -> Frame]
  BY <1>1, <1>2, <1>3, <1>4, MoveStep
<1>6. objects' \subseteq Slot \X Nat
  <2>1. objects' \subseteq objects \cup {<<p, s>>}
    BY <1>1 DEF Enter
  <2> QED
    BY <1>2, <1>3, <2>1 DEF IInv, TypeOK
<1> QED
  BY <1>4, <1>5, <1>6 DEF IInv, TypeOK

LEMMA LeaveStep == ASSUME IInv, Leave PROVE IInv'
<1>1. PICK p, s : p = Primary(top) /\ s = Eh[Fn(top)].next[State(top)]
  OBVIOUS
<1>2. Running /\ p \in Slot /\ frame[p].fn = Fn(top) /\ Fn(top) \in Fns /\ State(top) \in States(Fn(top))
  BY <1>1, RunningOn DEF Leave
<1>3. s \in States(frame[p].fn)
  <2>1. State(top) \in 0..Eh[Fn(top)].last
    BY <1>2, EhAssumption DEF Leave, States
  <2> QED
    BY <1>1, <1>2, <2>1, StateFacts
<1>4. frame' = [frame EXCEPT ![p].state = s] /\ top' = top /\ head' = head /\ UNCHANGED <<exc, halted>>
  BY <1>1 DEF Leave
<1>5. Shape' /\ frame' \in [Slot -> Frame]
  BY <1>1, <1>2, <1>3, <1>4, MoveStep
<1>6. objects' \subseteq Slot \X Nat
  BY DEF Leave, IInv, TypeOK
<1> QED
  BY <1>4, <1>5, <1>6 DEF IInv, TypeOK

LEMMA ReturnStep == ASSUME IInv, Return PROVE IInv'
<1>1. PICK n \in Slot : n = top
  BY DEF IInv, TypeOK
<1>2. PICK h : h = frame[n].next
  OBVIOUS
<1>3. /\ n \in Nat /\ n > 1 /\ IsFunction(n) /\ MaxDepth \in Nat
      /\ frame' = [frame EXCEPT ![n] = Free] /\ head' = h /\ UNCHANGED <<exc, objects, halted>>
  BY <1>1, <1>2, Depth DEF Return, T
<1>4. PICK m \in Slot : m = n - 1
  BY <1>3 DEF Slot
<1>5. m \in Nat /\ m < n /\ top' = m
  BY <1>1, <1>3, <1>4, Depth DEF Return
<1>6. /\ frame' \in [Slot -> Frame] /\ frame'[n] = Free /\ \A q \in Slot : q # n => frame'[q] = frame[q]
  BY <1>3 DEF IInv, TypeOK, Frame
<1>7. KeptBelow(n)
  <2>1. SUFFICES ASSUME NEW q \in Slot, q < n PROVE frame'[q] = frame[q]
    BY DEF KeptBelow, Kept
  <2>2. q # n
    BY <1>3, <2>1, Depth
  <2> QED
    BY <1>6, <2>2
<1>8. \A q \in Slot : q >= n => frame'[q] = Free
  <2>1. SUFFICES ASSUME NEW q \in Slot, q > n PROVE frame'[q] = Free
    BY <1>3, <1>6, Depth
  <2>2. q # n
    BY <1>3, <2>1, Depth
  <2> QED
    BY <1>1, <1>6, <2>1, <2>2, TopFacts
<1>9. /\ h < n /\ h \in Registered \cup {0} /\ h \in 0..MaxDepth
      /\ \A q \in Slot : h < q /\ q < n => q \notin Registered
  <2>1. Linked(n) /\ frame[n] \in FunctionFrame
    BY <1>3, Kinds DEF IInv, Shape, SlotShape
  <2> QED
    BY <1>2, <1>3, <2>1 DEF Linked, Before, FunctionFrame
<1>10. \A q \in Slot : q < n => (q \in Registered' <=> q \in Registered)
  BY <1>3, <1>7, KeptSlot
<1>11. h \in Registered' \cup {0}
  BY <1>9, <1>10 DEF Registered
<1>12. HeadIsNewest'
  <2>1. ASSUME NEW q \in Slot, h < q PROVE q \notin Registered'
    <3>1. CASE q >= n
      BY <1>8, <3>1 DEF Registered, IsFunction, HasBoundary, Free
    <3>2. CASE q < n
      BY <1>9, <1>10, <2>1, <3>2
    <3> QED
      BY <1>3, <3>1, <3>2, Depth
  <2> QED
    BY <1>3, <1>11, <2>1 DEF HeadIsNewest
<1>13. OthersWait'
  <2>1. SUFFICES ASSUME NEW k \in Slot, frame'[k].kind = "throw"
                 PROVE  frame'[k].pc \in {"cleanup", "copy", "abandon"}
    BY DEF OthersWait
  <2>2. k # n
    BY <1>6, <2>1 DEF Free
  <2> QED
    BY <1>1, <1>6, <2>1, <2>2 DEF IInv, Shape, OthersWait
<1>14. ASSUME NEW k \in Slot, k >= n PROVE SlotShape(k)'
  <2>1. PICK j \in Slot : j = k - 1 /\ j >= m
    BY <1>3, <1>4, <1>14, Depth DEF Slot
  <2>2. j = m \/ j >= n
    BY <1>3, <1>4, <1>5, <2>1, Depth
  <2>3. frame'[m].kind # "catch"
    <3>1. frame'[m] = frame[m] /\ SlotShape(n)
      BY <1>5, <1>6 DEF IInv, Shape
    <3> QED
      BY <1>3, <1>4, <3>1 DEF SlotShape, IsFunction
  <2>4. frame'[j].kind # "catch"
    BY <1>8, <2>1, <2>2, <2>3 DEF Free
  <2> QED
    BY <1>8, <1>14, <2>1, <2>4, FreeShape
<1>15. ShapeFrom(n)'
  <2>1. SUFFICES ASSUME NEW k \in Slot, k >= n \/ k > m PROVE SlotShape(k)'
    BY <1>5 DEF ShapeFrom
  <2>2. k >= n
    BY <1>3, <1>4, <1>5, <2>1, Depth
  <2> QED
    BY <1>14, <2>2
<1>16. Shape'
  <2>1. ShapeFrom(n)' /\ KeptBelow(n) /\ top' \in Int /\ n \in Int
    BY <1>3, <1>5, <1>7, <1>15
  <2> QED
    BY <1>3, <1>5, <1>12, <1>13, <2>1, StepShape
<1> QED
  BY <1>3, <1>5, <1>6, <1>9, <1>16 DEF IInv, TypeOK

----------------------------------------------------------------------------
(* The invariant holds.                                                    *)

\* A step that stops the machine, or does nothing, moves nothing.
LEMMA StillStep ==
    ASSUME IInv, UNCHANGED <<frame, top, head, exc, objects>>, halted' \in {"no", "bug_check", "fault"}
    PROVE  IInv'
<1>1. Shape'
  BY SMTT(30) DEF IInv, Shape, SlotShape, FunctionShape, FuncletShape, ThrowShape, ThrowOf, GapShape, Handles,
         HandlingShape, HandlingOf, Linked, HeadIsNewest, OthersWait, Before, Registered, HasBoundary, Catcher,
         Body, Abandons, IsFunction, IsRuntime, Primary, State, UnwoundState
<1> QED
  BY <1>1 DEF IInv, TypeOK

LEMMA InitIInv == Init => IInv
<1> SUFFICES ASSUME Init PROVE IInv
  OBVIOUS
<1>1. MaxDepth \in Nat /\ MaxDepth >= 1 /\ 1 \in Slot /\ Slot \subseteq Nat /\ 0 \in 0..MaxDepth /\ 1 \in 0..MaxDepth
  BY Depth DEF Slot
<1> DEFINE m == [kind |-> "function", fn |-> Main, state |-> -1, next |-> 0]
<1>2. /\ m \in FunctionFrame /\ m.kind = "function" /\ m.state = -1 /\ m.next = 0 /\ m.fn \in Fns
      /\ -1 \in States(m.fn)
  BY <1>1, ProgramAssumption, EhAssumption DEF FunctionFrame, States
<1>3. frame = [k \in Slot |-> IF k = 1 THEN m ELSE Free] /\ top = 1 /\ head = 1
  BY DEF Init
<1> HIDE DEF m
<1>4. frame[1] = m /\ \A k \in Slot : k # 1 => frame[k] = Free
  BY <1>1, <1>3
<1>5. TypeOK
  <2>1. frame \in [Slot -> Frame]
    BY <1>2, <1>3 DEF Frame
  <2> QED
    BY <1>1, <1>3, <2>1 DEF TypeOK, Init
<1>6. Registered = {1}
  BY <1>1, <1>2, <1>4 DEF Registered, IsFunction, HasBoundary, Free
<1>7. \A k \in Slot : k < 1 \/ k = 1 \/ k > 1
  BY <1>1
<1>8. HeadIsNewest /\ OthersWait
  BY <1>2, <1>3, <1>4, <1>6, <1>7 DEF HeadIsNewest, OthersWait, Free
<1>9. SlotShape(1)
  <2>1. Before(1) = 0
    BY <1>2, <1>4 DEF Before, IsFunction
  <2>2. Linked(1)
    BY <1>1, <1>2, <1>4, <2>1 DEF Linked
  <2> QED
    BY <1>2, <1>3, <1>4, <2>2 DEF SlotShape, FunctionShape, Handles
<1>10. ASSUME NEW k \in Slot, k # 1 PROVE SlotShape(k)
  <2>1. frame[k - 1].kind # "catch" \/ ~(k > 1)
    <3>1. k > 1 => k - 1 \in Slot
      BY <1>1 DEF Slot
    <3> QED
      BY <1>2, <1>4, <3>1 DEF Free
  <2> QED
    BY <1>4, <1>10, <2>1 DEF SlotShape, Free, Handles, IsFunction, IsRuntime
<1> QED
  BY <1>5, <1>8, <1>9, <1>10 DEF IInv, Shape

LEMMA NextIInv == IInv /\ [Next]_vars => IInv'
<1> SUFFICES ASSUME IInv, [Next]_vars PROVE IInv'
  OBVIOUS
<1>1. ASSUME NEW f \in Fns, Call(f) PROVE IInv'
  BY <1>1, CallStep
<1>2. ASSUME NEW s, Enter(s) PROVE IInv'
  BY <1>2, EnterStep
<1>3. CASE Leave
  BY <1>3, LeaveStep
<1>4. CASE Return
  BY <1>4, ReturnStep
<1>5. CASE CatchReturn
  BY <1>5, CatchReturnStep
<1>6. ASSUME NEW t \in Types, Throw(t) PROVE IInv'
  BY <1>6, ThrowStep
<1>7. CASE Rethrow
  BY <1>7, RethrowStep
<1>8. CASE VisitFunction
  BY <1>8, VisitFunctionStep
<1>9. CASE VisitCatchFrame
  BY <1>9, VisitCatchFrameStep
<1>10. CASE RejectTable \/ VisitForeign
  BY <1>10, StillStep DEF RejectTable, VisitForeign, Halt
<1>11. CASE ProbeForObject
  BY <1>11, ProbeForObjectStep
<1>12. CASE SearchFails
  BY <1>12, StillStep DEF SearchFails, Halt
<1>13. CASE SelectHandler
  BY <1>13, SelectHandlerStep
<1>14. CASE SelectNothing
  BY <1>14, SelectNothingStep
<1>15. CASE UnwindEdge
  BY <1>15, UnwindEdgeStep
<1>16. CASE CleanupReturns
  BY <1>16, CleanupReturnsStep
<1>17. CASE BindCatchVariable
  BY <1>17, BindCatchVariableStep
<1>18. CASE CopyReturns
  BY <1>18, CopyReturnsStep
<1>19. CASE NoexceptViolation
  BY <1>19, StillStep DEF NoexceptViolation, Halt
<1>20. CASE PassFunction
  BY <1>20, PassFunctionStep
<1>21. CASE TakeFromCatchFrame
  BY <1>21, TakeFromCatchFrameStep
<1>22. CASE AbandonException
  BY <1>22, AbandonExceptionStep
<1>23. CASE PassCatchFrame
  BY <1>23, PassCatchFrameStep
<1>24. CASE CallHandler
  BY <1>24, CallHandlerStep
<1>25. CASE ContinueAfterException
  BY <1>25, ContinueAfterExceptionStep
<1>26. CASE UNCHANGED vars
  BY <1>26, StillStep DEF vars, IInv, TypeOK
<1> QED
  BY <1>1, <1>2, <1>3, <1>4, <1>5, <1>6, <1>7, <1>8, <1>9, <1>10, <1>11, <1>12, <1>13, <1>14,
     <1>15, <1>16, <1>17, <1>18, <1>19, <1>20, <1>21, <1>22, <1>23, <1>24, <1>25, <1>26
     DEF Next, UserCode, Runtime, Halted

\* The stack keeps its shape, whatever is thrown, called, returned from and
\* unwound.
THEOREM StackShape == Spec => []IInv
<1>1. Init => IInv
  BY InitIInv
<1>2. IInv /\ [Next]_vars => IInv'
  BY NextIInv
<1> QED
  BY <1>1, <1>2, PTL DEF Spec

\* No frame ever holds a state its function does not have, the number of a
\* slot that is not on the stack or a throw frame that is not one: every value
\* the runtime and the program write is of its type.
THEOREM TypeCorrect == Spec => []TypeOK
<1>1. IInv => TypeOK
  BY DEF IInv
<1> QED
  BY <1>1, StackShape, PTL

----------------------------------------------------------------------------
(* The chain of registrations.                                             *)

\* What a walk down the chain comes to: every registration from there down.
Reached(k) ==
    IF k = 0 THEN {} ELSE IF k \in Registered THEN {q \in Registered : q <= k} ELSE {k}

\* The next pointer of a registration is the newest one below it.
LEMMA NextPointer ==
    ASSUME IInv, NEW k \in Registered
    PROVE  /\ k \in Slot /\ frame[k].next \in Registered \cup {0}
           /\ frame[k].next \in 0..MaxDepth /\ frame[k].next < k
           /\ \A q \in Slot : frame[k].next < q /\ q < k => q \notin Registered
<1>1. k \in Slot /\ (IsFunction(k) \/ IsRuntime(k))
  BY DEF Registered, HasBoundary, IsRuntime
<1>2. Linked(k) /\ frame[k].next = Before(k)
  BY <1>1 DEF IInv, Shape, SlotShape, Linked
<1>3. Registered \subseteq 0..MaxDepth
  BY Depth DEF Registered, Slot
<1>4. PICK n : n = Before(k)
  OBVIOUS
<1>5. /\ n < k /\ n \in Registered \cup {0}
      /\ \A q \in Slot : n < q /\ q < k => q \notin Registered
  BY <1>2, <1>4 DEF Linked
<1>6. 0 \in 0..MaxDepth
  BY Depth
<1>7. n \in 0..MaxDepth
  BY <1>3, <1>5, <1>6
<1> QED
  BY <1>1, <1>2, <1>4, <1>5, <1>7

LEMMA ReachedStep ==
    ASSUME IInv, NEW k \in Registered
    PROVE  Reached(k) = {k} \cup Reached(frame[k].next)
<1>1. PICK n : n = frame[k].next
  OBVIOUS
<1>2. /\ k \in Nat /\ k # 0 /\ Registered \subseteq Nat /\ 0 \notin Registered
      /\ n \in Registered \cup {0} /\ n \in Nat /\ n < k
      /\ \A q \in Registered : q <= n \/ q >= k
  <2>1. Registered \subseteq Slot /\ 0 \notin Slot
    BY Depth DEF Registered, Slot
  <2>2. /\ k \in Slot /\ n \in Registered \cup {0} /\ n \in 0..MaxDepth /\ n < k
        /\ \A q \in Slot : n < q /\ q < k => q \notin Registered
    BY <1>1, NextPointer
  <2> QED
    BY <2>1, <2>2, Depth
<1>3. Reached(k) = {q \in Registered : q <= k}
  BY <1>2 DEF Reached
<1>4. CASE n = 0
  <2>1. \A q \in Registered : q <= k <=> q = k
    BY <1>2, <1>4
  <2> QED
    BY <1>1, <1>3, <1>4, <2>1 DEF Reached
<1>5. CASE n # 0
  <2>1. Reached(n) = {q \in Registered : q <= n}
    BY <1>2, <1>5 DEF Reached
  <2>2. \A q \in Registered : q <= k <=> q = k \/ q <= n
    BY <1>2
  <2> QED
    BY <1>1, <1>3, <2>1, <2>2
<1> QED
  BY <1>4, <1>5

\* The walk is defined by following the next pointers, and they go down.
LEMMA ChainReaches ==
    ASSUME IInv, NEW k \in 0..MaxDepth
    PROVE  ChainFrom[k] = Reached(k)
<1> DEFINE Step(c, j) ==
        IF j = 0 THEN {} ELSE IF j \in Registered THEN {j} \cup c[frame[j].next] ELSE {j}
           Walk(c) == c = [j \in 0..MaxDepth |-> Step(c, j)]
<1>1. ChainFrom = CHOOSE c : Walk(c)
  BY DEF ChainFrom
<1>2. \A j \in Registered : frame[j].next \in 0..MaxDepth /\ frame[j].next < j
  BY NextPointer
<1>3. Walk([j \in 0..MaxDepth |-> Reached(j)])
  <2>1. PICK g : g = [j \in 0..MaxDepth |-> Reached(j)]
    OBVIOUS
  <2>2. ASSUME NEW j \in 0..MaxDepth PROVE Reached(j) = Step(g, j)
    <3>1. CASE j \in Registered
      <4>1. Reached(j) = {j} \cup Reached(frame[j].next) /\ frame[j].next \in 0..MaxDepth
        BY <1>2, <3>1, ReachedStep
      <4>2. g[frame[j].next] = Reached(frame[j].next)
        BY <2>1, <4>1
      <4>3. j # 0
        BY <3>1, Depth DEF Registered, Slot
      <4> QED
        BY <3>1, <4>1, <4>2, <4>3
    <3>2. CASE j \notin Registered
      BY <3>2 DEF Reached
    <3> QED
      BY <3>1, <3>2
  <2>3. [j \in 0..MaxDepth |-> Reached(j)] = [j \in 0..MaxDepth |-> Step(g, j)]
    BY <2>2
  <2> QED
    BY <2>1, <2>3
<1>4. Walk(ChainFrom)
  BY <1>1, <1>3
<1>5. PICK c : c = ChainFrom
  OBVIOUS
<1>6. \A j \in 0..MaxDepth : c[j] = Step(c, j)
  BY <1>4, <1>5
<1> HIDE DEF Walk
<1> DEFINE Wrong == {j \in 0..MaxDepth : c[j] # Reached(j)}
<1>7. Wrong \in SUBSET Nat
  BY Depth
<1>8. Wrong = {}
  <2>1. SUFFICES ASSUME Wrong # {} PROVE FALSE
    OBVIOUS
  <2>2. PICK m \in Wrong : \A n \in Wrong : m <= n
    <3> HIDE DEF Wrong
    <3> QED
      BY <1>7, <2>1, Least
  <2>3. m \in 0..MaxDepth /\ c[m] # Reached(m) /\ c[m] = Step(c, m)
    BY <1>6, <2>2
  <2>4. m \in Registered
    BY <2>3 DEF Reached
  <2>5. PICK n : n = frame[m].next
    OBVIOUS
  <2>6. n \in 0..MaxDepth /\ n < m
    BY <1>2, <2>4, <2>5
  <2>7. n \notin Wrong
    <3>1. ~(m <= n)
      BY <2>3, <2>6, Depth
    <3> HIDE DEF Wrong
    <3> QED
      BY <2>2, <3>1
  <2>8. c[n] = Reached(n)
    BY <2>6, <2>7
  <2>9. m # 0
    BY <2>4, Depth DEF Registered, Slot
  <2> QED
    BY <2>3, <2>4, <2>5, <2>8, <2>9, ReachedStep
<1> QED
  BY <1>5, <1>8

\* fs:[0] leads through every registration on the stack, from the newest to
\* the oldest, and through nothing else (throw_x86.cpp:372-385,
\* fh3_x86.asm:135-144): no walk down the chain, by the dispatcher or by the
\* probe for an exception, meets a frame that is gone or misses one that is not.
THEOREM ChainHolds == Spec => []ChainIsTheStack
<1>1. IInv => ChainIsTheStack
  <2> SUFFICES ASSUME IInv PROVE ChainIsTheStack
    OBVIOUS
  <2>1. \A k \in Registered : frame[k].next < k /\ frame[k].next \in Registered \cup {0}
    BY NextPointer
  <2>2. head \in Registered \cup {0} /\ \A q \in Slot : head < q => q \notin Registered
    BY TopFacts
  <2>3. ChainFrom[head] = Registered
    <3>1. ChainFrom[head] = Reached(head)
      BY ChainReaches DEF IInv, TypeOK
    <3>2. \A q \in Registered : q \in Slot /\ q \in Nat /\ q # 0 /\ q <= head
      BY <2>2, Depth DEF Registered, Slot, IInv, TypeOK
    <3> QED
      BY <2>2, <3>1, <3>2 DEF Reached
  <2>4. \A k \in Slot : frame[k].kind = "throw" /\ ~HasBoundary(k) /\ k = top => head = frame[k].reg
    BY TopFacts
  <2> QED
    BY <2>1, <2>2, <2>3, <2>4 DEF ChainIsTheStack
<1> QED
  BY <1>1, StackShape, PTL

----------------------------------------------------------------------------
(***************************************************************************)
(* The automatic objects.                                                  *)
(***************************************************************************)

\* The states of the objects alive in the frame in slot k.
ObjectsAt(k) == {s \in Nat : <<k, s>> \in objects}

\* They are those the state of the function says; no other frame has objects.
ExactAt(k) == ObjectsAt(k) = IF IsFunction(k) THEN Owed(frame[k].fn, frame[k].state) ELSE {}

\* A dispatch unwinds its catcher to the state the chosen try began in.
Unwinds(k) == frame[k].kind = "throw" /\ frame[k].block # 0 /\ frame[k].pc \in {"unwind", "cleanup"}

Target(x, y) ==
    /\ x.target = Block(y.fn, x.block).try_low
    /\ x.target \in Chain(y.fn, y.state)

\* The catcher y is in the state its handler was entered in.
Entered(x, y) == y.state = HandlerState(y.fn, x.block)

\* What runtime frame k expects of the function it works for.
Expects(k) ==
    LET y == frame[frame[k].tf.primary_frame_base]
    IN  /\ Unwinds(k) => Target(frame[k], y)
        /\ frame[k].kind = "destroy" => Entered(frame[k], y)

Exact == (\A k \in Slot : ExactAt(k)) /\ (\A k \in Slot : Expects(k))

EInv == IInv /\ Exact

\* The handler, its try and the state around them owe the same objects.
LEMMA OwedInHandler ==
    ASSUME NEW f \in Fns, NEW i \in Blocks(f), NEW low, low = Block(f, i).try_low
    PROVE  Owed(f, HandlerState(f, i)) = Owed(f, low) /\ Owed(f, Eh[f].next[low]) = Owed(f, low)
<1>1. PICK h : h = HandlerState(f, i)
  OBVIOUS
<1>2. h \in 0..Eh[f].last /\ h \notin Eh[f].cleanup /\ Eh[f].next[h] = Eh[f].next[low]
  BY <1>1, HandlerFacts
<1>3. Owed(f, h) = Owed(f, Eh[f].next[h])
  <2>1. Owed(f, h) = Owed(f, Eh[f].next[h]) \cup ({h} \cap Eh[f].cleanup)
    BY <1>2, OwedStep
  <2> QED
    BY <1>2, <2>1
<1> QED
  BY <1>1, <1>2, <1>3, OwedAtTry

Expecting(k) == Unwinds(k) \/ frame[k].kind = "destroy"

\* What runtime frame k expects is asked of a function below it, which nothing
\* that dispatches or destroys works on any more.
LEMMA ExpectsOf ==
    ASSUME IInv, NEW k \in Slot, Expecting(k)
    PROVE  LET p == frame[k].tf.primary_frame_base
           IN  /\ p \in Slot /\ p < k /\ IsFunction(p) /\ frame[p].fn \in Fns
               /\ frame[k].block \in Blocks(frame[p].fn)
               /\ k <= top /\ k \in Registered
               /\ \A q \in Slot : q < k /\ Expecting(q) => q < p
<1>1. Handles(k) /\ k \in Registered /\ frame[k] # Free
  BY DEF Expecting, Unwinds, Handles, Registered, HasBoundary, Free
<1>2. HandlingOf(frame[k], k) /\ ~(k > top)
  BY <1>1 DEF IInv, Shape, SlotShape, HandlingShape
<1>3. PICK p : p = frame[k].tf.primary_frame_base
  OBVIOUS
<1>4. /\ p \in Slot /\ p < k /\ IsFunction(p) /\ frame[k].block \in Blocks(frame[p].fn)
      /\ \A q \in Slot : q < k /\ frame[q].kind \in {"throw", "destroy"} => q < p
  BY <1>2, <1>3 DEF HandlingOf
<1>5. frame[p].fn \in Fns
  BY <1>4, Kinds DEF IInv, FunctionFrame
<1>6. k <= top
  BY <1>2, Depth DEF IInv, TypeOK
<1> QED
  BY <1>1, <1>3, <1>4, <1>5, <1>6 DEF Expecting, Unwinds

\* The newest dispatch works on a function above every runtime frame that
\* expects something of another.
LEMMA WorkerAbove ==
    ASSUME IInv, frame[top].kind = "throw", NEW r, r = frame[top].reg, Catcher(r),
           NEW k \in Slot, k # top, Expecting(k)
    PROVE  k < Primary(r) /\ r \in Slot
<1>1. PICK n \in Slot : n = top
  BY DEF IInv, TypeOK
<1>2. r \in Slot /\ Linked(n) /\ Before(n) = r
  BY <1>1, TopDispatch DEF Catcher
<1>3. k \in Registered /\ k <= n
  BY <1>1, ExpectsOf
<1>4. k \in Nat /\ n \in Nat /\ r \in Nat
  BY <1>2, Depth
<1>5. ~(r < k)
  <2>1. k < n
    BY <1>1, <1>3, <1>4
  <2> QED
    BY <1>2, <1>3, <2>1 DEF Linked
<1>6. frame[k].kind \in {"throw", "destroy"}
  BY DEF Expecting, Unwinds
<1>7. k # r
  BY <1>6 DEF Catcher, IsFunction
<1>8. k < r
  BY <1>4, <1>5, <1>7
<1>9. CASE IsFunction(r)
  BY <1>2, <1>8, <1>9 DEF Primary, IsFunction
<1>10. CASE frame[r].kind = "catch"
  <2>1. HandlingOf(frame[r], r)
    BY <1>2, <1>10, UnderCatcher DEF HandlingShape
  <2>2. k < frame[r].tf.primary_frame_base
    BY <1>6, <1>8, <2>1 DEF HandlingOf
  <2> QED
    BY <1>2, <1>10, <2>2 DEF Primary
<1> QED
  BY <1>9, <1>10 DEF Catcher

\* A step that changes the objects and the function of slot p only, and
\* nothing below slot m.
Settles(p, m) ==
    /\ \A q \in Slot : q # p => ObjectsAt(q)' = ObjectsAt(q)
    /\ \A q \in Slot : q # p => frame'[q] = frame[q] \/ (~IsFunction(q) /\ frame'[q].kind # "function")
    /\ p \in Slot => ExactAt(p)'
    /\ \A q \in Slot : q < m => frame'[q] = frame[q]
    /\ \A k \in Slot : Expects(k)' \/ (frame'[k] = frame[k] /\ (Expecting(k) => k <= m))

LEMMA ExactStep == ASSUME EInv, NEW p, NEW m \in Int, Settles(p, m) PROVE Exact'
<1>0. /\ \A q \in Slot : q # p => ObjectsAt(q)' = ObjectsAt(q)
      /\ \A q \in Slot : q # p => frame'[q] = frame[q] \/ (~IsFunction(q) /\ frame'[q].kind # "function")
      /\ p \in Slot => ExactAt(p)'
      /\ \A q \in Slot : q < m => frame'[q] = frame[q]
      /\ \A k \in Slot : Expects(k)' \/ (frame'[k] = frame[k] /\ (Expecting(k) => k <= m))
  BY DEF Settles
<1>1. ASSUME NEW k \in Slot PROVE ExactAt(k)'
  <2>1. CASE k = p
    BY <1>0, <2>1
  <2>2. CASE k # p
    <3>1. ExactAt(k) /\ ObjectsAt(k)' = ObjectsAt(k)
      BY <1>0, <2>2 DEF EInv, Exact
    <3>2. CASE frame'[k] = frame[k]
      BY <3>1, <3>2 DEF ExactAt, IsFunction
    <3>3. CASE ~IsFunction(k) /\ frame'[k].kind # "function"
      BY <3>1, <3>3 DEF ExactAt, IsFunction
    <3> QED
      BY <1>0, <2>2, <3>2, <3>3
  <2> QED
    BY <2>1, <2>2
<1>2. ASSUME NEW k \in Slot PROVE Expects(k)'
  <2>1. SUFFICES ASSUME frame'[k] = frame[k], Expecting(k) => k <= m PROVE Expects(k)'
    BY <1>0
  <2>2. CASE ~Expecting(k)
    BY <2>1, <2>2 DEF Expecting, Expects, Unwinds
  <2>3. CASE Expecting(k)
    <3>1. PICK b : b = frame[k].tf.primary_frame_base
      OBVIOUS
    <3>2. b \in Slot /\ b < k
      BY <2>3, <3>1, ExpectsOf DEF EInv
    <3>3. frame'[b] = frame[b]
      <4>1. b \in Nat /\ k \in Nat /\ k <= m
        BY <2>1, <2>3, <3>2, Depth
      <4>2. b < m
        BY <3>2, <4>1
      <4> QED
        BY <1>0, <3>2, <4>2
    <3>4. Expects(k)
      BY DEF EInv, Exact
    <3> QED
      BY <2>1, <3>1, <3>3, <3>4 DEF Expects, Unwinds, Target, Entered
  <2> QED
    BY <2>2, <2>3
<1> QED
  BY <1>1, <1>2 DEF Exact

\* One object more, or one less.
LEMMA ObjectsChange ==
    ASSUME NEW p, NEW s \in Nat
    PROVE  /\ objects' = objects \cup {<<p, s>>} =>
                ObjectsAt(p)' = ObjectsAt(p) \cup {s} /\ \A q \in Slot : q # p => ObjectsAt(q)' = ObjectsAt(q)
           /\ objects' = objects \ {<<p, s>>} =>
                ObjectsAt(p)' = ObjectsAt(p) \ {s} /\ \A q \in Slot : q # p => ObjectsAt(q)' = ObjectsAt(q)
           /\ objects' = objects => ObjectsAt(p)' = ObjectsAt(p) /\ \A q \in Slot : ObjectsAt(q)' = ObjectsAt(q)
BY DEF ObjectsAt

\* Nothing is expected for the sake of a frame that dispatches nothing.
LEMMA NothingExpected ==
    ASSUME NEW k, \/ frame'[k].kind \notin {"throw", "destroy"}
                  \/ frame'[k].kind = "throw" /\ (frame'[k].block = 0 \/ frame'[k].pc \notin {"unwind", "cleanup"})
    PROVE  Expects(k)'
BY DEF Expects, Unwinds

\* The newest dispatch changes its own frame.
LEMMA TopExact ==
    ASSUME EInv, NEW n \in Slot, n = top, IsRuntime(n), UNCHANGED objects,
           NEW x, frame' = [frame EXCEPT ![n] = x], x.kind # "function", Expects(n)'
    PROVE  Exact'
<1>1. n \in Slot /\ n = top
  OBVIOUS
<1>2. frame'[n] = x /\ \A q \in Slot : q # n => frame'[q] = frame[q]
  BY <1>1 DEF EInv, IInv, TypeOK
<1>3. \A q \in Slot : ObjectsAt(q)' = ObjectsAt(q)
  BY DEF ObjectsAt
<1>4. \A q \in Slot : frame'[q] = frame[q] \/ (~IsFunction(q) /\ frame'[q].kind # "function")
  BY <1>1, <1>2 DEF IsFunction, IsRuntime
<1>5. ASSUME NEW q \in Slot, q < n PROVE frame'[q] = frame[q]
  <2>1. q \in Nat
    BY Depth
  <2>2. q # n
    BY <1>5, <2>1
  <2> QED
    BY <1>2, <2>2
<1>6. ASSUME NEW k \in Slot PROVE Expects(k)' \/ (frame'[k] = frame[k] /\ (Expecting(k) => k <= n))
  <2>1. CASE k = n
    BY <2>1
  <2>2. CASE k # n
    BY <1>1, <1>2, <2>2, ExpectsOf DEF EInv
  <2> QED
    BY <2>1, <2>2
<1>7. 0 \notin Slot /\ n \in Int
  BY Depth DEF Slot
<1>8. Settles(0, n)
  BY <1>3, <1>4, <1>5, <1>6, <1>7 DEF Settles
<1> QED
  BY <1>7, <1>8, ExactStep

LEMMA TopThrow ==
    ASSUME IInv, NEW pc, Dispatching(pc)
    PROVE  /\ IsRuntime(top) /\ T = frame[top] /\ T \in RuntimeFrame /\ T.kind = "throw" /\ T.pc = pc
           /\ frame \in [Slot -> Frame] /\ top \in Slot
BY Kinds DEF Dispatching, IInv, TypeOK, IsRuntime, T

LEMMA SearchExact ==
    ASSUME EInv, VisitFunction \/ VisitCatchFrame \/ ProbeForObject \/ SelectNothing \/ CopyReturns \/ AbandonException
    PROVE  Exact'
<1>1. PICK n \in Slot : n = top
  BY DEF EInv, IInv, TypeOK
<1>2. frame \in [Slot -> Frame]
  BY DEF EInv, IInv, TypeOK
<1>3. ASSUME NEW pc, Dispatching(pc), NEW x, frame' = [frame EXCEPT ![top] = x], UNCHANGED objects,
             x.kind = "throw", x.block = 0 \/ x.pc \notin {"unwind", "cleanup"}
      PROVE  Exact'
  <2>1. frame'[n] = x
    BY <1>1, <1>2, <1>3
  <2>2. Expects(n)'
    BY <1>3, <2>1, NothingExpected
  <2>3. IsRuntime(n) /\ x.kind # "function" /\ frame' = [frame EXCEPT ![n] = x] /\ UNCHANGED objects
    BY <1>1, <1>3, TopThrow DEF EInv
  <2> QED
    BY <1>1, <2>2, <2>3, TopExact
<1>4. ASSUME NEW tf, EnterHandler(tf), Dispatching("visit") PROVE Exact'
  <2>1. PICK x : x = [T EXCEPT !.pc = "search", !.next = head, !.tf = tf, !.entry = State(T.reg)]
    OBVIOUS
  <2>2. x.kind = "throw" /\ x.pc = "search"
    BY <1>4, <2>1, TopThrow DEF EInv, RuntimeFrame
  <2>3. frame' = [frame EXCEPT ![top] = x] /\ UNCHANGED objects
    BY <1>4, <2>1 DEF EnterHandler
  <2> QED
    BY <1>3, <1>4, <2>2, <2>3
<1>5. CASE VisitFunction
  BY <1>4, <1>5 DEF VisitFunction
<1>6. CASE VisitCatchFrame
  BY <1>4, <1>6 DEF VisitCatchFrame
<1>7. CASE ProbeForObject
  <2>1. PICK p \in Slot : frame' = [frame EXCEPT ![top].tf.exception_object_or_link = Link(p)]
    BY <1>7 DEF ProbeForObject
  <2>2. PICK x : x = [T EXCEPT !.tf.exception_object_or_link = Link(p)]
    OBVIOUS
  <2>3. x.kind = "throw" /\ x.pc = "search" /\ Dispatching("search")
    BY <1>7, <2>2, TopThrow DEF EInv, RuntimeFrame, ProbeForObject
  <2>4. frame' = [frame EXCEPT ![top] = x] /\ UNCHANGED objects
    BY <1>7, <2>1, <2>2 DEF ProbeForObject, T
  <2> QED
    BY <1>3, <2>3, <2>4
<1>8. CASE SelectNothing
  <2>1. PICK x : x = [T EXCEPT !.pc = "unwind", !.target = UnwoundState(T.reg)]
    OBVIOUS
  <2>2. Dispatching("search") /\ frame' = [frame EXCEPT ![top] = x] /\ UNCHANGED objects
    BY <1>8, <2>1 DEF SelectNothing
  <2>3. T.block = 0
    <3>1. frame[n].kind = "throw" /\ frame[n].pc = "search" /\ T = frame[n]
      BY <1>1, <2>2 DEF Dispatching, T
    <3>2. ThrowOf(frame[n], n)
      BY <1>1, <3>1, TopDispatch DEF EInv
    <3> QED
      BY <3>1, <3>2 DEF ThrowOf
  <2>4. x.kind = "throw" /\ x.block = 0
    BY <2>1, <2>2, <2>3, TopThrow DEF EInv, RuntimeFrame
  <2> QED
    BY <1>3, <2>2, <2>4
<1>9. CASE CopyReturns
  <2>1. PICK x : x = [T EXCEPT !.pc = "call"]
    OBVIOUS
  <2>2. Dispatching("copy") /\ frame' = [frame EXCEPT ![top] = x] /\ UNCHANGED objects
    BY <1>9, <2>1 DEF CopyReturns, T
  <2>3. x.kind = "throw" /\ x.pc = "call"
    BY <2>1, <2>2, TopThrow DEF EInv, RuntimeFrame
  <2> QED
    BY <1>3, <2>2, <2>3
<1>10. CASE AbandonException
  <2>1. PICK x : x = [T EXCEPT !.pc = "abandon"]
    OBVIOUS
  <2>2. Dispatching("unwind") /\ frame' = [frame EXCEPT ![top] = x] /\ UNCHANGED objects
    BY <1>10, <2>1 DEF AbandonException, NothingHere, Unwound, T
  <2>3. x.kind = "throw" /\ x.pc = "abandon"
    BY <2>1, <2>2, TopThrow DEF EInv, RuntimeFrame
  <2> QED
    BY <1>3, <2>2, <2>3
<1> QED
  BY <1>5, <1>6, <1>7, <1>8, <1>9, <1>10

LEMMA CleanupReturnsExact == ASSUME EInv, CleanupReturns PROVE Exact'
<1>1. PICK n \in Slot : n = top
  BY DEF EInv, IInv, TypeOK
<1>2. PICK d, x : d = frame[n] /\ x = [d EXCEPT !.pc = "unwind"]
  OBVIOUS
<1>3. Dispatching("cleanup") /\ frame' = [frame EXCEPT ![n] = x] /\ UNCHANGED objects
  BY <1>1, <1>2 DEF CleanupReturns
<1>4. d \in RuntimeFrame /\ d.kind = "throw" /\ d.pc = "cleanup" /\ IsRuntime(n)
  BY <1>1, <1>2, <1>3, TopThrow DEF EInv
<1>5. x.kind = "throw" /\ x.pc = "unwind" /\ x.block = d.block /\ x.target = d.target /\ x.tf = d.tf
  BY <1>2, <1>4 DEF RuntimeFrame
<1>6. frame'[n] = x
  BY <1>3 DEF EInv, IInv, TypeOK
<1>7. Expects(n)'
  <2>1. CASE d.block = 0
    BY <1>5, <1>6, <2>1, NothingExpected
  <2>2. CASE d.block # 0
    <3>1. Unwinds(n) /\ Expects(n)
      BY <1>2, <1>4, <2>2 DEF Unwinds, EInv, Exact
    <3>2. PICK p : p = d.tf.primary_frame_base
      OBVIOUS
    <3>3. p \in Slot /\ p # n
      <4>1. p \in Slot /\ IsFunction(p)
        BY <1>2, <3>1, <3>2, ExpectsOf DEF EInv, Expecting
      <4> QED
        BY <1>2, <1>4, <4>1 DEF IsFunction
    <3>4. frame'[p] = frame[p]
      BY <1>3, <3>3 DEF EInv, IInv, TypeOK
    <3> QED
      BY <1>2, <1>5, <1>6, <3>1, <3>2, <3>4 DEF Expects, Target
  <2> QED
    BY <2>1, <2>2
<1> QED
  <2>1. x.kind # "function"
    BY <1>5
  <2> QED
    BY <1>1, <1>3, <1>4, <1>7, <2>1, TopExact

LEMMA SelectHandlerExact == ASSUME EInv, SelectHandler PROVE Exact'
<1>1. PICK n \in Slot : n = top
  BY DEF EInv, IInv, TypeOK
<1>2. PICK d, r, f, p : d = frame[n] /\ r = d.reg /\ f = Fn(r) /\ p = Primary(r)
  OBVIOUS
<1>3. Dispatching("search") /\ T = d /\ d \in RuntimeFrame /\ d.kind = "throw" /\ d.pc = "search" /\ IsRuntime(n)
  BY <1>1, <1>2, TopThrow DEF SelectHandler, EInv
<1>4. r \in Slot /\ Catcher(r)
  BY <1>1, <1>2, <1>3, TopDispatch DEF EInv, ThrowOf, Catcher
<1>5. f \in Fns /\ p \in Slot /\ p # n /\ f = frame[p].fn /\ State(r) = frame[p].state /\ State(r) \in States(f)
  <2>1. f \in Fns /\ p \in Slot /\ IsFunction(p) /\ f = frame[p].fn /\ State(r) = frame[p].state /\ State(r) \in States(f)
    BY <1>2, <1>4, UnderCatcher DEF Fn, State, EInv
  <2> QED
    BY <1>2, <1>3, <2>1 DEF IsFunction
<1>6. PICK i, j :
        /\ i \in Blocks(Fn(T.reg)) /\ j \in DOMAIN Block(Fn(T.reg), i).handlers
        /\ Selects(T.reg, GetThrowInfo(T.tf), i, j)
        /\ frame' = [frame EXCEPT ![top] =
                [T EXCEPT !.pc = "unwind", !.block = i, !.clause = j,
                          !.target = CatcherTarget(Fn(T.reg), i),
                          !.tf.primary_frame_base = Primary(T.reg),
                          !.tf.unwound_state = Block(Fn(T.reg), i).try_low - 1]]
  BY DEF SelectHandler
<1>7. i \in Blocks(f) /\ Selects(r, GetThrowInfo(d.tf), i, j)
  BY <1>2, <1>3, <1>6
<1>8. Block(f, i).try_low \in Chain(f, State(r))
  <2>1. i \in Candidates(r)
    BY <1>7 DEF Selects, IsFirst
  <2>2. InTry(f, i, State(r))
    BY <1>2, <2>1 DEF Candidates
  <2> QED
    BY <1>5, <1>7, <2>2, InTryIsChain
<1> DEFINE tf == [d.tf EXCEPT !.primary_frame_base = p, !.unwound_state = Block(f, i).try_low - 1]
           x == [d EXCEPT !.pc = "unwind", !.block = i, !.clause = j, !.target = Block(f, i).try_low, !.tf = tf]
<1>9. /\ x.kind = "throw" /\ x.pc = "unwind" /\ x.block = i /\ x.target = Block(f, i).try_low
      /\ x.tf.primary_frame_base = p
  BY <1>3 DEF RuntimeFrame, ThrowFrame
<1>10. frame' = [frame EXCEPT ![n] = x]
  <2>1. d.tf \in ThrowFrame
    BY <1>3 DEF RuntimeFrame
  <2> QED
    BY <1>1, <1>2, <1>3, <1>6, <2>1 DEF RuntimeFrame, ThrowFrame, CatcherTarget
<1>11. UNCHANGED objects
  BY DEF SelectHandler
<1> HIDE DEF x
<1>12. frame'[n] = x /\ frame'[p] = frame[p]
  BY <1>5, <1>10 DEF EInv, IInv, TypeOK
<1>13. Expects(n)'
  BY <1>5, <1>8, <1>9, <1>12 DEF Expects, Target, Unwinds
<1>14. x.kind # "function" /\ IsRuntime(n)
  BY <1>3, <1>9
<1> QED
  BY <1>1, <1>10, <1>11, <1>13, <1>14, TopExact

\* The code on top puts its function in another state, that owes the objects
\* there are.
LEMMA MoveExact ==
    ASSUME EInv, Running, NEW p, p = Primary(top), NEW s \in Int, frame' = [frame EXCEPT ![p].state = s],
           ObjectsAt(p)' = Owed(Fn(top), s), NEW moved, moved = {q \in Slot : ObjectsAt(q)' # ObjectsAt(q)},
           moved \subseteq {p}
    PROVE  Exact'
<1>1. /\ p \in Slot /\ IsFunction(p) /\ frame[p] \in FunctionFrame /\ frame[p].fn = Fn(top)
      /\ \A j \in Slot : p < j /\ j <= top => frame[j].kind \notin {"throw", "destroy"}
  BY RunningOn DEF EInv
<1> DEFINE y == [frame[p] EXCEPT !.state = s]
<1>2. y.kind = "function" /\ y.fn = Fn(top) /\ y.state = s
  BY <1>1 DEF IsFunction, FunctionFrame
<1>3. frame' = [frame EXCEPT ![p] = y]
  OBVIOUS
<1> HIDE DEF y
<1>4. frame'[p] = y /\ \A q \in Slot : q # p => frame'[q] = frame[q]
  BY <1>1, <1>3 DEF EInv, IInv, TypeOK
<1>5. \A q \in Slot : q # p => ObjectsAt(q)' = ObjectsAt(q)
  OBVIOUS
<1>6. ExactAt(p)'
  BY <1>2, <1>4 DEF ExactAt, IsFunction
<1>7. ASSUME NEW q \in Slot, q < p PROVE frame'[q] = frame[q]
  <2>1. q \in Nat
    BY Depth
  <2>2. q # p
    BY <1>1, <1>7, <2>1
  <2> QED
    BY <1>4, <2>2
<1>8. ASSUME NEW k \in Slot PROVE Expects(k)' \/ (frame'[k] = frame[k] /\ (Expecting(k) => k <= p))
  <2>1. CASE k = p
    <3>1. frame'[p].kind \notin {"throw", "destroy"}
      BY <1>2, <1>4
    <3> QED
      BY <2>1, <3>1, NothingExpected
  <2>2. CASE k # p
    <3>1. ASSUME Expecting(k) PROVE k <= p
      <4>1. k <= top /\ frame[k].kind \in {"throw", "destroy"}
        BY <3>1, ExpectsOf DEF EInv, Expecting, Unwinds
      <4>2. ~(p < k)
        BY <1>1, <4>1
      <4> QED
        BY <1>1, <4>2, Depth
    <3> QED
      BY <1>4, <2>2, <3>1
  <2> QED
    BY <2>1, <2>2
<1>9. p \in Int
  BY <1>1, Depth
<1>10. Settles(p, p)
  BY <1>4, <1>5, <1>6, <1>7, <1>8 DEF Settles
<1> QED
  BY <1>9, <1>10, ExactStep

LEMMA EnterExact == ASSUME EInv, NEW s, Enter(s) PROVE Exact'
<1>1. PICK p, f : p = Primary(top) /\ f = Fn(top)
  OBVIOUS
<1>2. Running /\ p \in Slot /\ IsFunction(p) /\ f \in Fns /\ frame[p].fn = f /\ frame[p].state = State(top)
  BY <1>1, RunningOn DEF Enter, EInv
<1>3. s \in 0..Eh[f].last /\ s \in Nat /\ Eh[f].next[s] = frame[p].state
  BY <1>1, <1>2 DEF Enter
<1>4. ObjectsAt(p) = Owed(f, frame[p].state)
  BY <1>2 DEF EInv, Exact, ExactAt
<1>5. Owed(f, s) = ObjectsAt(p) \cup ({s} \cap Eh[f].cleanup)
  BY <1>2, <1>3, <1>4, OwedStep
<1>6. frame' = [frame EXCEPT ![p].state = s]
  BY <1>1 DEF Enter
<1>7. ObjectsAt(p)' = Owed(f, s) /\ \A q \in Slot : q # p => ObjectsAt(q)' = ObjectsAt(q)
  <2>1. CASE s \in Eh[f].cleanup
    <3>1. objects' = objects \cup {<<p, s>>}
      BY <1>1, <2>1 DEF Enter
    <3>2. ObjectsAt(p)' = ObjectsAt(p) \cup {s} /\ \A q \in Slot : q # p => ObjectsAt(q)' = ObjectsAt(q)
      BY <1>3, <3>1, ObjectsChange
    <3> QED
      BY <1>5, <2>1, <3>2
  <2>2. CASE s \notin Eh[f].cleanup
    <3>1. objects' = objects
      BY <1>1, <2>2 DEF Enter
    <3>2. \A q \in Slot : ObjectsAt(q)' = ObjectsAt(q)
      BY <3>1 DEF ObjectsAt
    <3> QED
      BY <1>2, <1>5, <2>2, <3>2
  <2> QED
    BY <2>1, <2>2
<1>8. PICK moved : moved = {q \in Slot : ObjectsAt(q)' # ObjectsAt(q)}
  OBVIOUS
<1>9. moved \subseteq {p}
  BY <1>7, <1>8
<1>10. s \in Int /\ ObjectsAt(p)' = Owed(Fn(top), s)
  BY <1>1, <1>3, <1>7
<1> QED
  BY <1>1, <1>2, <1>6, <1>8, <1>9, <1>10, MoveExact

LEMMA LeaveExact == ASSUME EInv, Leave PROVE Exact'
<1>1. PICK p, f, s : p = Primary(top) /\ f = Fn(top) /\ s = State(top)
  OBVIOUS
<1>2. Running /\ p \in Slot /\ IsFunction(p) /\ f \in Fns /\ frame[p].fn = f /\ frame[p].state = s /\ s \in States(f)
  BY <1>1, RunningOn DEF Leave, EInv
<1>3. s \in 0..Eh[f].last /\ s \in Nat
  <2>1. s # -1
    BY <1>1 DEF Leave
  <2> QED
    BY <1>2, <2>1, EhAssumption DEF States
<1>4. ObjectsAt(p) = Owed(f, s)
  BY <1>2 DEF EInv, Exact, ExactAt
<1>5. PICK t : t = Eh[f].next[s]
  OBVIOUS
<1>6. Owed(f, t) = ObjectsAt(p) \ {s} /\ t \in Int
  <2>1. t \in Int
    BY <1>2, <1>3, <1>5, EhAssumption
  <2> QED
    BY <1>2, <1>3, <1>4, <1>5, <2>1, OwedStep
<1>7. frame' = [frame EXCEPT ![p].state = t] /\ objects' = objects \ {<<p, s>>}
  BY <1>1, <1>5 DEF Leave
<1>8. ObjectsAt(p)' = Owed(f, t) /\ \A q \in Slot : q # p => ObjectsAt(q)' = ObjectsAt(q)
  BY <1>3, <1>6, <1>7, ObjectsChange
<1>9. PICK moved : moved = {q \in Slot : ObjectsAt(q)' # ObjectsAt(q)}
  OBVIOUS
<1>10. moved \subseteq {p}
  BY <1>8, <1>9
<1> QED
  BY <1>1, <1>2, <1>6, <1>7, <1>8, <1>9, <1>10, MoveExact

\* A function that returns has destroyed what it owed.
LEMMA ReturnExact == ASSUME EInv, Return PROVE Exact'
<1>1. PICK n \in Slot : n = top
  BY DEF EInv, IInv, TypeOK
<1>2. IsFunction(n) /\ frame' = [frame EXCEPT ![n] = Free] /\ UNCHANGED objects
  BY <1>1 DEF Return
<1>3. frame[n].state = -1 /\ frame[n].fn \in Fns
  <2>1. State(n) = -1
    BY <1>1 DEF Return
  <2>2. frame[n] \in FunctionFrame
    BY <1>2, Kinds DEF EInv, IInv
  <2> QED
    BY <1>2, <2>1, <2>2 DEF State, Primary, IsFunction, FunctionFrame
<1>4. frame'[n] = Free /\ \A q \in Slot : q # n => frame'[q] = frame[q]
  BY <1>2 DEF EInv, IInv, TypeOK
<1>5. \A q \in Slot : ObjectsAt(q)' = ObjectsAt(q)
  BY <1>2 DEF ObjectsAt
<1>6. ExactAt(n)'
  <2>1. ObjectsAt(n) = {}
    BY <1>2, <1>3, ChainEmpty DEF EInv, Exact, ExactAt
  <2> QED
    BY <1>4, <1>5, <2>1 DEF ExactAt, IsFunction, Free
<1>7. ASSUME NEW q \in Slot, q < n PROVE frame'[q] = frame[q]
  <2>1. q \in Nat
    BY Depth
  <2>2. q # n
    BY <1>7, <2>1
  <2> QED
    BY <1>4, <2>2
<1>8. ASSUME NEW k \in Slot PROVE Expects(k)' \/ (frame'[k] = frame[k] /\ (Expecting(k) => k <= n))
  <2>1. CASE k = n
    <3>1. frame'[n].kind \notin {"throw", "destroy"}
      BY <1>4 DEF Free
    <3> QED
      BY <2>1, <3>1, NothingExpected
  <2>2. CASE k # n
    BY <1>1, <1>4, <2>2, ExpectsOf DEF EInv
  <2> QED
    BY <2>1, <2>2
<1>9. n \in Int
  BY Depth
<1>10. Settles(n, n)
  BY <1>4, <1>5, <1>6, <1>7, <1>8 DEF Settles
<1> QED
  BY <1>9, <1>10, ExactStep

\* A new frame owes nothing.
LEMMA PushExact ==
    ASSUME EInv, NEW m \in Slot, NEW x, Pushes(m, x), UNCHANGED objects,
           x.kind = "function" => x.fn \in Fns /\ x.state = -1
    PROVE  Exact'
<1>1. PICK n \in Slot : n = top
  BY DEF EInv, IInv, TypeOK
<1>2. m = n + 1 /\ frame' = [frame EXCEPT ![m] = x]
  BY <1>1 DEF Pushes
<1>3. n \in Nat /\ m \in Nat /\ m > n
  BY <1>2, Depth
<1>4. frame'[m] = x /\ \A q \in Slot : q # m => frame'[q] = frame[q]
  BY <1>2 DEF EInv, IInv, TypeOK
<1>5. \A q \in Slot : ObjectsAt(q)' = ObjectsAt(q)
  BY DEF ObjectsAt
<1>6. x.kind \in {"function", "throw"} /\ (x.kind = "throw" => x.block = 0)
  BY DEF Pushes
<1>7. ExactAt(m)'
  <2>1. frame[m] = Free
    BY <1>1, <1>3, TopFacts DEF EInv
  <2>2. ObjectsAt(m) = {}
    BY <2>1 DEF EInv, Exact, ExactAt, IsFunction, Free
  <2>3. CASE x.kind = "function"
    BY <1>4, <1>5, <2>2, <2>3, ChainEmpty DEF ExactAt, IsFunction
  <2>4. CASE x.kind # "function"
    BY <1>4, <1>5, <2>2, <2>4 DEF ExactAt, IsFunction
  <2> QED
    BY <2>3, <2>4
<1>8. ASSUME NEW q \in Slot, q < m PROVE frame'[q] = frame[q]
  <2>1. q \in Nat
    BY Depth
  <2>2. q # m
    BY <1>3, <1>8, <2>1
  <2> QED
    BY <1>4, <2>2
<1>9. ASSUME NEW k \in Slot PROVE Expects(k)' \/ (frame'[k] = frame[k] /\ (Expecting(k) => k <= m))
  <2>1. CASE k = m
    <3>1. Expects(m)'
      BY <1>4, <1>6, NothingExpected
    <3> QED
      BY <2>1, <3>1
  <2>2. CASE k # m
    <3>1. Expecting(k) => k <= n
      BY <1>1, ExpectsOf DEF EInv
    <3> QED
      BY <1>3, <1>4, <2>2, <3>1, Depth
  <2> QED
    BY <2>1, <2>2
<1>10. Settles(m, m)
  BY <1>4, <1>5, <1>7, <1>8, <1>9 DEF Settles
<1> QED
  BY <1>3, <1>10, ExactStep

LEMMA CallExact == ASSUME EInv, NEW f \in Fns, Call(f) PROVE Exact'
<1>1. PICK m \in Slot : \E x : Pushes(m, x) /\ x.kind = "function" /\ x.fn = f /\ x.state = -1
  BY CallPushes DEF EInv
<1>2. UNCHANGED objects
  BY DEF Call
<1> QED
  BY <1>1, <1>2, PushExact

LEMMA ThrowExact ==
    ASSUME EInv, Rethrow \/ \E t \in Types : Throw(t)
    PROVE  Exact'
<1>1. ASSUME NEW obj \in ObjOrLink, NEW info \in Types \cup {NoInfo}, Running, PushThrowFrame(obj, info)
      PROVE  Exact'
  <2>1. PICK m \in Slot : \E x : Pushes(m, x) /\ x.kind = "throw"
    BY <1>1, ThrowFramePushes DEF EInv
  <2>2. UNCHANGED objects
    BY <1>1 DEF PushThrowFrame
  <2> QED
    BY <2>1, <2>2, PushExact
<1> QED
  BY <1>1, ThrowArguments DEF EInv

LEMMA CallHandlerExact == ASSUME EInv, CallHandler PROVE Exact'
<1>1. PICK n \in Slot : n = top
  BY DEF EInv, IInv, TypeOK
<1>2. PICK d, x, y :
        /\ d = frame[n]
        /\ x = [T EXCEPT !.kind = "catch", !.pc = "handler", !.next = head,
                         !.entry = -1, !.target = -1, !.clause = 0]
        /\ y = [kind |-> "funclet", block |-> T.block, primary |-> Primary(top)]
  OBVIOUS
<1>3. Dispatching("call") /\ frame' = [frame EXCEPT ![n] = x, ![n + 1] = y] /\ UNCHANGED objects
  BY <1>1, <1>2 DEF CallHandler
<1>4. d \in RuntimeFrame /\ T = d /\ d.kind = "throw" /\ d.pc = "call"
  BY <1>1, <1>2, <1>3, TopThrow DEF EInv
<1>5. x.kind = "catch" /\ y.kind = "funclet"
  BY <1>2, <1>4 DEF RuntimeFrame
<1>6. PICK m \in Slot : m = n + 1
  <2>1. n < MaxDepth
    BY <1>1, <1>2, <1>4, TopDispatch DEF EInv, ThrowOf
  <2> QED
    BY <2>1, Depth DEF Slot
<1>7. n \in Nat /\ m \in Nat /\ n < m
  BY <1>6, Depth
<1>8. frame'[n] = x /\ frame'[m] = y /\ \A q \in Slot : q # n /\ q # m => frame'[q] = frame[q]
  BY <1>3, <1>6, <1>7 DEF EInv, IInv, TypeOK
<1>9. frame[m] = Free
  BY <1>1, <1>7, TopFacts DEF EInv
<1>10. \A q \in Slot : ObjectsAt(q)' = ObjectsAt(q)
  BY <1>3 DEF ObjectsAt
<1>11. \A q \in Slot : frame'[q] = frame[q] \/ (~IsFunction(q) /\ frame'[q].kind # "function")
  <2>1. ~IsFunction(n) /\ frame'[n].kind # "function"
    BY <1>2, <1>4, <1>5, <1>8 DEF IsFunction
  <2>2. ~IsFunction(m) /\ frame'[m].kind # "function"
    BY <1>5, <1>8, <1>9 DEF IsFunction, Free
  <2> QED
    BY <1>8, <2>1, <2>2
<1>12. ASSUME NEW q \in Slot, q < n PROVE frame'[q] = frame[q]
  <2>1. q \in Nat
    BY Depth
  <2>2. q # n /\ q # m
    BY <1>7, <1>12, <2>1
  <2> QED
    BY <1>8, <2>2
<1>13. ASSUME NEW k \in Slot PROVE Expects(k)' \/ (frame'[k] = frame[k] /\ (Expecting(k) => k <= n))
  <2>1. CASE k = n \/ k = m
    <3>1. frame'[k].kind \notin {"throw", "destroy"}
      BY <1>5, <1>8, <2>1
    <3> QED
      BY <3>1, NothingExpected
  <2>2. CASE k # n /\ k # m
    BY <1>1, <1>8, <2>2, ExpectsOf DEF EInv
  <2> QED
    BY <2>1, <2>2
<1>14. 0 \notin Slot /\ n \in Int
  BY Depth DEF Slot
<1>15. Settles(0, n)
  BY <1>10, <1>11, <1>12, <1>13, <1>14 DEF Settles
<1> QED
  BY <1>14, <1>15, ExactStep

\* A handler returns in the state it was entered in.
LEMMA CatchReturnExact == ASSUME EInv, CatchReturn PROVE Exact'
<1>1. PICK m \in Slot : m = top
  BY DEF EInv, IInv, TypeOK
<1>2. frame[m].kind = "funclet" /\ State(m) = HandlerState(Fn(m), Home(m))
  BY <1>1 DEF CatchReturn, Running, InHandlerState, IsUser, IsFunction
<1>3. PICK n \in Slot : n = m - 1 /\ frame[n].kind = "catch"
  BY <1>1, <1>2, TopFacts DEF EInv
<1>4. PICK d, x, p : d = frame[n] /\ x = [d EXCEPT !.kind = "destroy", !.pc = "destroy"] /\ p = d.tf.primary_frame_base
  OBVIOUS
<1>5. n \in Nat /\ m \in Nat /\ n < m /\ m = n + 1
  BY <1>3, Depth
<1>6. d \in RuntimeFrame /\ x.kind = "destroy" /\ x.tf = d.tf /\ x.block = d.block
  <2>1. d \in RuntimeFrame
    BY <1>3, <1>4, Kinds DEF EInv, IInv, IsRuntime
  <2> QED
    BY <1>4, <2>1 DEF RuntimeFrame
<1>7. frame[m].block = d.block /\ frame[m].primary = p
  BY <1>2, <1>3, <1>4 DEF EInv, IInv, Shape, SlotShape, FuncletShape
<1>8. p \in Slot /\ p # n /\ p # m
  <2>1. HandlingOf(d, n)
    BY <1>3, <1>4 DEF EInv, IInv, Shape, SlotShape, Handles, HandlingShape
  <2>2. p \in Slot /\ p < n
    BY <1>4, <2>1 DEF HandlingOf
  <2> QED
    BY <1>5, <2>2, Depth
<1>9. frame' = [frame EXCEPT ![m] = Free, ![n] = x] /\ UNCHANGED objects
  <2>1. frame' = [frame EXCEPT ![m] = Free, ![n] = [@ EXCEPT !.kind = "destroy", !.pc = "destroy"]]
    BY <1>1, <1>3 DEF CatchReturn
  <2> QED
    BY <1>4, <1>5, <2>1 DEF CatchReturn
<1>10. frame'[n] = x /\ frame'[m] = Free /\ \A q \in Slot : q # n /\ q # m => frame'[q] = frame[q]
  BY <1>5, <1>9 DEF EInv, IInv, TypeOK
<1>11. \A q \in Slot : ObjectsAt(q)' = ObjectsAt(q)
  BY <1>9 DEF ObjectsAt
<1>12. \A q \in Slot : frame'[q] = frame[q] \/ (~IsFunction(q) /\ frame'[q].kind # "function")
  BY <1>2, <1>3, <1>6, <1>10 DEF IsFunction, Free
<1>13. ASSUME NEW q \in Slot, q < n PROVE frame'[q] = frame[q]
  <2>1. q \in Nat
    BY Depth
  <2>2. q # n /\ q # m
    BY <1>5, <1>13, <2>1
  <2> QED
    BY <1>10, <2>2
<1>14. Expects(n)'
  <2>1. frame'[p] = frame[p]
    BY <1>8, <1>10
  <2>2. Primary(m) = p /\ Home(m) = d.block
    BY <1>2, <1>7 DEF Primary, Home, IsFunction
  <2>3. frame[p].state = HandlerState(frame[p].fn, d.block)
    BY <1>2, <2>2 DEF State, Fn
  <2> QED
    BY <1>4, <1>6, <1>10, <2>1, <2>3 DEF Expects, Entered, Unwinds
<1>15. ASSUME NEW k \in Slot PROVE Expects(k)' \/ (frame'[k] = frame[k] /\ (Expecting(k) => k <= n))
  <2>1. CASE k = n
    BY <1>14, <2>1
  <2>2. CASE k = m
    <3>1. frame'[m].kind \notin {"throw", "destroy"}
      BY <1>10 DEF Free
    <3> QED
      BY <2>2, <3>1, NothingExpected
  <2>3. CASE k # n /\ k # m
    <3>1. Expecting(k) => k <= m
      BY <1>1, ExpectsOf DEF EInv
    <3>2. Expecting(k) => k <= n
      BY <1>5, <2>3, <3>1, Depth
    <3> QED
      BY <1>10, <2>3, <3>2
  <2> QED
    BY <2>1, <2>2, <2>3
<1>16. 0 \notin Slot /\ n \in Int
  BY Depth DEF Slot
<1>17. Settles(0, n)
  BY <1>11, <1>12, <1>13, <1>15, <1>16 DEF Settles
<1> QED
  BY <1>16, <1>17, ExactStep

\* The newest dispatch, under a runtime frame that expects something of its
\* function, puts the function in slot p in another state.
LEMMA WorkExact ==
    ASSUME EInv, NEW n \in Slot, n = top, IsRuntime(n), NEW p \in Slot, p < n, IsFunction(p),
           NEW x, x.kind \notin {"function"}, NEW y, y.kind = "function",
           frame' = [frame EXCEPT ![p] = y, ![n] = x],
           ObjectsAt(p)' = Owed(y.fn, y.state),
           NEW moved, moved = {q \in Slot : ObjectsAt(q)' # ObjectsAt(q)}, moved \subseteq {p},
           NEW above, above = {k \in Slot : Expecting(k) /\ k # n /\ ~(k < p)}, above = {},
           Expects(n)'
    PROVE  Exact'
<1>1. n \in Nat /\ p \in Nat /\ p # n
  BY Depth
<1>2. frame'[n] = x /\ frame'[p] = y /\ \A q \in Slot : q # n /\ q # p => frame'[q] = frame[q]
  BY <1>1 DEF EInv, IInv, TypeOK
<1>3. \A q \in Slot : q # p => ObjectsAt(q)' = ObjectsAt(q)
  OBVIOUS
<1>4. ExactAt(p)'
  BY <1>2 DEF ExactAt, IsFunction
<1>5. \A q \in Slot : q # p => frame'[q] = frame[q] \/ (~IsFunction(q) /\ frame'[q].kind # "function")
  BY <1>2 DEF IsFunction, IsRuntime
<1>6. ASSUME NEW q \in Slot, q < p PROVE frame'[q] = frame[q]
  <2>1. q \in Nat
    BY Depth
  <2>2. q # p /\ q # n
    BY <1>1, <1>6, <2>1
  <2> QED
    BY <1>2, <2>2
<1>7. ASSUME NEW k \in Slot PROVE Expects(k)' \/ (frame'[k] = frame[k] /\ (Expecting(k) => k <= p))
  <2>1. CASE k = n
    BY <2>1
  <2>2. CASE k = p
    <3>1. frame'[p].kind \notin {"throw", "destroy"}
      BY <1>2
    <3> QED
      BY <2>2, <3>1, NothingExpected
  <2>3. CASE k # n /\ k # p
    <3>1. Expecting(k) => k < p
      BY <2>3
    <3>2. Expecting(k) => k <= p
      BY <1>1, <3>1, Depth
    <3> QED
      BY <1>2, <2>3, <3>2
  <2> QED
    BY <2>1, <2>2, <2>3
<1>8. p \in Int
  BY <1>1
<1>9. Settles(p, p)
  BY <1>3, <1>4, <1>5, <1>6, <1>7 DEF Settles
<1> QED
  BY <1>8, <1>9, ExactStep

\* The function the newest dispatch works on, and what that expects.
LEMMA Worked ==
    ASSUME EInv, NEW n \in Slot, n = top, frame[n].kind = "throw", frame[n].pc # "visit",
           NEW r, r = frame[n].reg, NEW p, p = Primary(r)
    PROVE  /\ r \in Slot /\ Catcher(r) /\ r < n
           /\ p \in Slot /\ p < n /\ IsFunction(p) /\ frame[p] \in FunctionFrame
           /\ frame[p].fn \in Fns /\ frame[p].state \in States(frame[p].fn)
           /\ Fn(r) = frame[p].fn /\ State(r) = frame[p].state
           /\ ObjectsAt(p) = Owed(frame[p].fn, frame[p].state)
           /\ Unwinds(n) => frame[n].tf.primary_frame_base = p /\ frame[n].block \in Blocks(frame[p].fn)
                            /\ Target(frame[n], frame[p])
           /\ {k \in Slot : Expecting(k) /\ k # n /\ ~(k < p)} = {}
<1>1. ThrowOf(frame[n], n) /\ r \in Nat /\ r < n /\ (frame[n].block # 0 => HandlingOf(frame[n], n))
  BY TopDispatch DEF EInv
<1>2. Catcher(r) /\ r \in Slot
  <2>1. Catcher(r)
    BY <1>1 DEF ThrowOf
  <2> QED
    BY <1>1, <2>1, Depth DEF Catcher, Slot
<1>3. /\ p \in Slot /\ p <= r /\ IsFunction(p) /\ frame[p] \in FunctionFrame
      /\ frame[p].fn \in Fns /\ frame[p].state \in States(frame[p].fn)
      /\ Fn(r) = frame[p].fn /\ State(r) = frame[p].state
  BY <1>2, UnderCatcher DEF EInv, Fn, State
<1>4. p < n
  BY <1>1, <1>3, Depth
<1>5. ObjectsAt(p) = Owed(frame[p].fn, frame[p].state)
  BY <1>3 DEF EInv, Exact, ExactAt
<1>6. ASSUME Unwinds(n)
      PROVE  frame[n].tf.primary_frame_base = p /\ frame[n].block \in Blocks(frame[p].fn)
             /\ Target(frame[n], frame[p])
  <2>1. HandlingOf(frame[n], n) /\ Expects(n)
    BY <1>1, <1>6 DEF Unwinds, EInv, Exact
  <2>2. frame[n].tf.primary_frame_base = p
    BY <2>1 DEF HandlingOf
  <2> QED
    BY <1>6, <2>1, <2>2 DEF HandlingOf, Expects
<1>7. ASSUME NEW k \in Slot, Expecting(k), k # n PROVE k < p
  BY <1>2, <1>7, WorkerAbove DEF EInv
<1> QED
  BY <1>1, <1>2, <1>3, <1>4, <1>5, <1>6, <1>7

\* An edge is walked: its object is destroyed, if it has one, and the function
\* owes one object less.
LEMMA UnwindEdgeExact == ASSUME EInv, UnwindEdge PROVE Exact'
<1>1. PICK n \in Slot : n = top
  BY DEF EInv, IInv, TypeOK
<1>2. PICK d, r, p, f, s :
        d = frame[n] /\ r = d.reg /\ p = Primary(r) /\ f = Fn(r) /\ s = State(r)
  OBVIOUS
<1>3. d.kind = "throw" /\ d.pc = "unwind" /\ T = d /\ s > d.target /\ d \in RuntimeFrame /\ IsRuntime(n)
  BY <1>1, <1>2, TopThrow DEF UnwindEdge, EInv
<1>4. /\ r \in Slot /\ Catcher(r) /\ p \in Slot /\ p < n /\ IsFunction(p) /\ frame[p] \in FunctionFrame
      /\ f \in Fns /\ f = frame[p].fn /\ s = frame[p].state /\ s \in States(f)
      /\ ObjectsAt(p) = Owed(f, s)
      /\ Unwinds(n) => d.tf.primary_frame_base = p /\ d.block \in Blocks(f) /\ Target(d, frame[p])
      /\ {k \in Slot : Expecting(k) /\ k # n /\ ~(k < p)} = {}
  <2>1. frame[n].kind = "throw" /\ frame[n].pc # "visit" /\ r = frame[n].reg
    BY <1>2, <1>3
  <2> QED
    BY <1>1, <1>2, <2>1, Worked
<1>5. s \in 0..Eh[f].last /\ s \in Nat
  <2>1. d.target >= -1 /\ d.target \in Int
    BY <1>1, <1>2, <1>3, TopDispatch DEF EInv, ThrowOf, RuntimeFrame
  <2>2. Eh[f].last \in Int
    BY <1>4, EhAssumption
  <2> QED
    BY <1>3, <1>4, <2>1, <2>2 DEF States
<1>6. PICK t, pc : t = Eh[f].next[s] /\ pc = IF s \in Eh[f].cleanup THEN "cleanup" ELSE "unwind"
  OBVIOUS
<1>7. Owed(f, t) = ObjectsAt(p) \ {s}
  BY <1>4, <1>5, <1>6, OwedStep
<1> DEFINE x == [d EXCEPT !.pc = pc]
           y == [frame[p] EXCEPT !.state = t]
<1>8. x.kind = "throw" /\ x.block = d.block /\ x.target = d.target /\ x.tf = d.tf
  BY <1>3 DEF RuntimeFrame
<1>9. y.kind = "function" /\ y.fn = f /\ y.state = t
  BY <1>4 DEF FunctionFrame
<1>10. p # n
  BY <1>4, Depth
<1>11. frame' = [frame EXCEPT ![p] = y, ![n] = x] /\ objects' = objects \ {<<p, s>>}
  <2>1. frame' = [frame EXCEPT ![p].state = t, ![n].pc = pc] /\ objects' = objects \ {<<p, s>>}
    BY <1>1, <1>2, <1>3, <1>6 DEF UnwindEdge
  <2> QED
    BY <1>2, <1>10, <2>1
<1> HIDE DEF x, y
<1>12. frame'[n] = x /\ frame'[p] = y
  BY <1>4, <1>10, <1>11 DEF EInv, IInv, TypeOK
<1>13. ObjectsAt(p)' = Owed(y.fn, y.state) /\ \A q \in Slot : q # p => ObjectsAt(q)' = ObjectsAt(q)
  BY <1>5, <1>7, <1>9, <1>11, ObjectsChange
<1>14. Expects(n)'
  <2>1. CASE d.block = 0
    BY <1>8, <1>12, <2>1, NothingExpected
  <2>2. CASE d.block # 0
    <3>1. d.tf.primary_frame_base = p /\ Target(d, frame[p])
      BY <1>2, <1>3, <1>4, <2>2 DEF Unwinds
    <3>2. d.target = Block(f, d.block).try_low /\ d.target \in Chain(f, s)
      BY <1>4, <3>1 DEF Target
    <3>3. d.target # s
      BY <1>3, <1>5, <3>2, ChainBelow, <1>4
    <3>4. d.target \in Chain(f, t)
      BY <1>4, <1>5, <1>6, <3>2, <3>3, ChainStep
    <3>5. Target(x, y)
      BY <1>8, <1>9, <3>2, <3>4 DEF Target
    <3> QED
      BY <1>8, <1>12, <3>1, <3>5 DEF Expects
  <2> QED
    BY <2>1, <2>2
<1>15. PICK moved, above :
         /\ moved = {q \in Slot : ObjectsAt(q)' # ObjectsAt(q)}
         /\ above = {k \in Slot : Expecting(k) /\ k # n /\ ~(k < p)}
  OBVIOUS
<1>16. moved \subseteq {p} /\ above = {}
  BY <1>4, <1>13, <1>15
<1>17. x.kind \notin {"function"}
  BY <1>8
<1> QED
  BY <1>1, <1>3, <1>4, <1>9, <1>11, <1>13, <1>14, <1>15, <1>16, <1>17, WorkExact

\* The catcher enters its handler's state from the first one of its try.
LEMMA BindExact == ASSUME EInv, BindCatchVariable PROVE Exact'
<1>1. PICK n \in Slot : n = top
  BY DEF EInv, IInv, TypeOK
<1>2. PICK d, r, p, f, s, i :
        d = frame[n] /\ r = d.reg /\ p = Primary(r) /\ f = Fn(r) /\ s = State(r) /\ i = d.block
  OBVIOUS
<1>3. /\ d.kind = "throw" /\ d.pc = "unwind" /\ T = d /\ s <= d.target /\ i # 0
      /\ d \in RuntimeFrame /\ IsRuntime(n)
  BY <1>1, <1>2, TopThrow DEF BindCatchVariable, Unwound, EInv
<1>4. /\ p \in Slot /\ p < n /\ IsFunction(p) /\ frame[p] \in FunctionFrame
      /\ f \in Fns /\ f = frame[p].fn /\ s = frame[p].state /\ s \in States(f)
      /\ ObjectsAt(p) = Owed(f, s)
      /\ Unwinds(n) => d.tf.primary_frame_base = p /\ d.block \in Blocks(f) /\ Target(d, frame[p])
      /\ {k \in Slot : Expecting(k) /\ k # n /\ ~(k < p)} = {}
  <2>1. frame[n].kind = "throw" /\ frame[n].pc # "visit" /\ r = frame[n].reg
    BY <1>2, <1>3
  <2> QED
    BY <1>1, <1>2, <2>1, Worked
<1>5. i \in Blocks(f) /\ Target(d, frame[p])
  BY <1>2, <1>3, <1>4 DEF Unwinds
<1>6. PICK low, h : low = Block(f, i).try_low /\ h = HandlerState(f, i)
  OBVIOUS
<1>7. s = low
  <2>1. low \in Chain(f, s) /\ d.target = low
    BY <1>2, <1>4, <1>5, <1>6 DEF Target
  <2>2. low <= s /\ low \in Int
    BY <1>4, <1>5, <1>6, <2>1, ChainBelow, BlockFacts
  <2>3. s \in Int
    BY <1>4, EhAssumption DEF States
  <2> QED
    BY <1>3, <2>1, <2>2, <2>3
<1>8. Owed(f, h) = ObjectsAt(p)
  BY <1>4, <1>5, <1>6, <1>7, OwedInHandler
<1>9. PICK copies : copies = CopiesFor(Block(Fn(T.reg), T.block).handlers[T.clause], GetThrowInfo(T.tf))
  OBVIOUS
<1>10. PICK pc : pc = IF copies THEN "copy" ELSE "call"
  OBVIOUS
<1> DEFINE x == [d EXCEPT !.pc = pc]
           y == [frame[p] EXCEPT !.state = h]
<1>11. x.kind = "throw" /\ x.pc \in {"copy", "call"}
  BY <1>3, <1>10 DEF RuntimeFrame
<1>12. y.kind = "function" /\ y.fn = f /\ y.state = h
  BY <1>4 DEF FunctionFrame
<1>13. p # n
  BY <1>4, Depth
<1>14. frame' = [frame EXCEPT ![p] = y, ![n] = x] /\ UNCHANGED objects
  <2>1. frame' = [frame EXCEPT ![p].state = h, ![n].pc = pc] /\ UNCHANGED objects
    BY <1>1, <1>2, <1>3, <1>6, <1>9, <1>10 DEF BindCatchVariable
  <2> QED
    BY <1>2, <1>13, <2>1
<1> HIDE DEF x, y
<1>15. frame'[n] = x
  BY <1>13, <1>14 DEF EInv, IInv, TypeOK
<1>16. \A q \in Slot : ObjectsAt(q)' = ObjectsAt(q)
  BY <1>14 DEF ObjectsAt
<1>17. ObjectsAt(p)' = Owed(y.fn, y.state)
  BY <1>4, <1>8, <1>12, <1>16
<1>18. Expects(n)'
  BY <1>11, <1>15, NothingExpected
<1>19. PICK moved, above :
         /\ moved = {q \in Slot : ObjectsAt(q)' # ObjectsAt(q)}
         /\ above = {k \in Slot : Expecting(k) /\ k # n /\ ~(k < p)}
  OBVIOUS
<1>20. moved \subseteq {p} /\ above = {} /\ x.kind \notin {"function"}
  BY <1>4, <1>11, <1>16, <1>19
<1> QED
  BY <1>1, <1>3, <1>4, <1>12, <1>14, <1>17, <1>18, <1>19, <1>20, WorkExact

\* Code after a handler is in the state around the try statement.
LEMMA ContinueExact == ASSUME EInv, ContinueAfterException PROVE Exact'
<1>1. PICK n \in Slot : n = top
  BY DEF EInv, IInv, TypeOK
<1>2. PICK d, p, f, i : d = frame[n] /\ p = d.tf.primary_frame_base /\ f = frame[p].fn /\ i = d.block
  OBVIOUS
<1>3. d.kind = "destroy" /\ T = d /\ IsRuntime(n) /\ Expecting(n)
  BY <1>1, <1>2 DEF ContinueAfterException, T, IsRuntime, Expecting
<1>4. /\ p \in Slot /\ p < n /\ IsFunction(p) /\ f \in Fns /\ i \in Blocks(f)
      /\ \A q \in Slot : q < n /\ Expecting(q) => q < p
  BY <1>2, <1>3, ExpectsOf DEF EInv
<1>5. frame[p].state = HandlerState(f, i) /\ ObjectsAt(p) = Owed(f, frame[p].state)
  BY <1>2, <1>3, <1>4 DEF EInv, Exact, Expects, Entered, ExactAt
<1>6. PICK t : t = Eh[f].next[Block(f, i).try_low]
  OBVIOUS
<1>7. Owed(f, t) = ObjectsAt(p)
  <2>1. PICK low : low = Block(f, i).try_low
    OBVIOUS
  <2>2. Owed(f, HandlerState(f, i)) = Owed(f, low) /\ Owed(f, Eh[f].next[low]) = Owed(f, low)
    BY <1>4, <2>1, OwedInHandler
  <2> QED
    BY <1>5, <1>6, <2>1, <2>2
<1> DEFINE y == [frame[p] EXCEPT !.state = t]
<1>8. y.kind = "function" /\ y.fn = f /\ y.state = t
  BY <1>2, <1>4, Kinds DEF EInv, IInv, FunctionFrame
<1>9. p # n
  BY <1>4, Depth
<1>10. frame' = [frame EXCEPT ![p] = y, ![n] = Free] /\ UNCHANGED objects
  <2>1. frame' = [frame EXCEPT ![n] = Free, ![p].state = Eh[frame[p].fn].next[Block(frame[p].fn, T.block).try_low]]
        /\ UNCHANGED objects
    BY <1>1, <1>2, <1>3 DEF ContinueAfterException
  <2>2. frame' = [frame EXCEPT ![n] = Free, ![p].state = t]
    BY <1>2, <1>3, <1>6, <2>1
  <2> QED
    BY <1>9, <2>1, <2>2
<1> HIDE DEF y
<1>11. frame'[n] = Free
  BY <1>9, <1>10 DEF EInv, IInv, TypeOK
<1>12. \A q \in Slot : ObjectsAt(q)' = ObjectsAt(q)
  BY <1>10 DEF ObjectsAt
<1>13. ObjectsAt(p)' = Owed(y.fn, y.state)
  BY <1>4, <1>7, <1>8, <1>12
<1>14. Expects(n)'
  <2>1. frame'[n].kind \notin {"throw", "destroy"}
    BY <1>11 DEF Free
  <2> QED
    BY <2>1, NothingExpected
<1>15. PICK moved, above :
         /\ moved = {q \in Slot : ObjectsAt(q)' # ObjectsAt(q)}
         /\ above = {k \in Slot : Expecting(k) /\ k # n /\ ~(k < p)}
  OBVIOUS
<1>16. above = {}
  <2>1. SUFFICES ASSUME NEW k \in Slot, Expecting(k), k # n PROVE k < p
    BY <1>15
  <2>2. k <= n
    BY <1>1, <2>1, ExpectsOf DEF EInv
  <2>3. k < n
    BY <2>1, <2>2, Depth
  <2> QED
    BY <1>4, <2>1, <2>3
<1>17. moved \subseteq {p} /\ Free.kind \notin {"function"}
  BY <1>12, <1>15 DEF Free
<1> QED
  BY <1>1, <1>3, <1>4, <1>8, <1>10, <1>13, <1>14, <1>15, <1>16, <1>17, WorkExact

\* What is dead below the newest dispatch holds no function but the one that is
\* passed, and that one owes nothing.
LEMMA PassExact ==
    ASSUME EInv, frame[top].kind = "throw", frame[top].pc # "visit", T.block = 0,
           NEW tf, PassRegistration(tf), IsFunction(T.reg) => State(T.reg) = -1
    PROVE  Exact'
<1>1. PICK n \in Slot : n = top
  BY DEF EInv, IInv, TypeOK
<1>2. PICK d, r : d = frame[n] /\ r = d.reg
  OBVIOUS
<1>3. T = d /\ d.kind = "throw" /\ d.block = 0 /\ d \in RuntimeFrame /\ GapShape(n)
  BY <1>1, <1>2, TopDispatch DEF EInv, T
<1>4. r \in Slot /\ Catcher(r) /\ r < n /\ r \in Nat /\ n \in Nat
  <2>1. frame[n].kind = "throw" /\ frame[n].pc # "visit" /\ r = frame[n].reg
    BY <1>1, <1>2
  <2> QED
    BY <1>1, <2>1, Worked, Depth
<1>5. PICK x : x = [T EXCEPT !.reg = NextRegistration, !.next = 0, !.pc = "visit",
                             !.tf = tf, !.entry = -1, !.target = -1]
  OBVIOUS
<1>6. x.kind = "throw" /\ x.block = 0
  BY <1>3, <1>5 DEF RuntimeFrame
<1>7. /\ frame' = [k \in Slot |-> IF k = n THEN x ELSE IF r <= k /\ k < n THEN Free ELSE frame[k]]
      /\ UNCHANGED objects
  BY <1>1, <1>2, <1>3, <1>5 DEF PassRegistration
<1>8. /\ frame'[n] = x
      /\ \A q \in Slot : r <= q /\ q < n => frame'[q] = Free
      /\ \A q \in Slot : q < r \/ q > n => frame'[q] = frame[q]
  <2>1. frame'[n] = x
    BY <1>7
  <2>2. ASSUME NEW q \in Slot
        PROVE  (r <= q /\ q < n => frame'[q] = Free) /\ (q < r \/ q > n => frame'[q] = frame[q])
    <3>1. q \in Nat
      BY Depth
    <3>2. frame'[q] = IF q = n THEN x ELSE IF r <= q /\ q < n THEN Free ELSE frame[q]
      BY <1>7
    <3> QED
      BY <1>4, <3>1, <3>2
  <2> QED
    BY <2>1, <2>2
<1>9. \A q \in Slot : q < r \/ q = r \/ (r < q /\ q < n) \/ q = n \/ q > n
  BY <1>4, Depth
<1>10. ASSUME NEW q \in Slot, r < q, q < n PROVE ~IsFunction(q)
  <2>1. \A j \in Slot : Body(r) < j /\ j < n => frame[j] = Free \/ Abandons(j, r)
    BY <1>2, <1>3, <1>4 DEF GapShape
  <2>2. CASE Body(r) < q
    BY <1>10, <2>1, <2>2 DEF IsFunction, Free, Abandons
  <2>3. CASE ~(Body(r) < q)
    <3>1. q \in Nat
      BY Depth
    <3>2. frame[r].kind = "catch" /\ Body(r) = r + 1 /\ frame[r + 1].kind = "funclet"
      <4>1. ~IsFunction(r)
        BY <1>10, <2>3 DEF Body
      <4>2. frame[r].kind = "catch"
        BY <1>4, <4>1 DEF Catcher
      <4> QED
        BY <1>4, <4>1, <4>2, UnderCatcher DEF Body, EInv
    <3>3. q = r + 1
      BY <1>4, <1>10, <2>3, <3>1, <3>2
    <3> QED
      BY <3>2, <3>3 DEF IsFunction
  <2> QED
    BY <2>2, <2>3
<1>11. \A q \in Slot : ObjectsAt(q)' = ObjectsAt(q)
  BY <1>7 DEF ObjectsAt
<1>12. ASSUME NEW q \in Slot, q # r
       PROVE  frame'[q] = frame[q] \/ (~IsFunction(q) /\ frame'[q].kind # "function")
  <2>1. CASE r < q /\ q < n
    <3>1. frame'[q] = Free
      BY <1>4, <1>8, <2>1, Depth
    <3> QED
      BY <1>10, <2>1, <3>1 DEF Free
  <2>2. CASE q = n
    BY <1>2, <1>3, <1>6, <1>8, <2>2 DEF IsFunction
  <2> QED
    BY <1>8, <1>9, <1>12, <2>1, <2>2
<1>13. ExactAt(r)'
  <2>1. frame'[r] = Free
    BY <1>4, <1>8
  <2>2. ObjectsAt(r) = {}
    <3>1. CASE IsFunction(r)
      <4>1. frame[r] \in FunctionFrame /\ frame[r].fn \in Fns
        BY <1>4, <3>1, Kinds DEF EInv, IInv, FunctionFrame
      <4>2. frame[r].state = -1
        BY <1>2, <1>3, <3>1 DEF State, Primary, IsFunction
      <4> QED
        BY <1>4, <3>1, <4>1, <4>2, ChainEmpty DEF EInv, Exact, ExactAt
    <3>2. CASE ~IsFunction(r)
      BY <1>4, <3>2 DEF EInv, Exact, ExactAt
    <3> QED
      BY <3>1, <3>2
  <2> QED
    BY <1>4, <1>11, <2>1, <2>2 DEF ExactAt, IsFunction, Free
<1>14. ASSUME NEW k \in Slot PROVE Expects(k)' \/ (frame'[k] = frame[k] /\ (Expecting(k) => k <= r))
  <2>1. CASE k < r
    BY <1>4, <1>8, <2>1, Depth
  <2>2. CASE k = r \/ (r < k /\ k < n)
    <3>1. frame'[k] = Free
      BY <1>4, <1>8, <2>2, Depth
    <3>2. frame'[k].kind \notin {"throw", "destroy"}
      BY <3>1 DEF Free
    <3> QED
      BY <3>2, NothingExpected
  <2>3. CASE k = n
    <3>1. Expects(n)'
      BY <1>6, <1>8, NothingExpected
    <3> QED
      BY <2>3, <3>1
  <2>4. CASE k > n
    <3>1. ~Expecting(k)
      <4>1. Expecting(k) => k <= n
        BY <1>1, ExpectsOf DEF EInv
      <4> QED
        BY <1>4, <2>4, <4>1, Depth
    <3> QED
      BY <1>8, <2>4, <3>1
  <2> QED
    BY <1>9, <2>1, <2>2, <2>3, <2>4
<1>15. \A q \in Slot : q < r => frame'[q] = frame[q]
  BY <1>8
<1>16. Settles(r, r)
  BY <1>11, <1>12, <1>13, <1>14, <1>15 DEF Settles
<1> QED
  BY <1>4, <1>16, ExactStep

LEMMA PassRegistrationExact ==
    ASSUME EInv, PassFunction \/ TakeFromCatchFrame \/ PassCatchFrame
    PROVE  Exact'
<1>1. PICK n \in Slot : n = top
  BY DEF EInv, IInv, TypeOK
<1>2. PICK d, r : d = frame[n] /\ r = d.reg
  OBVIOUS
<1>3. PICK tf : PassRegistration(tf)
  BY DEF PassFunction, TakeFromCatchFrame, PassCatchFrame
<1>4. d.kind = "throw" /\ d.pc \in {"unwind", "abandon"} /\ T = d
  BY <1>1, <1>2 DEF PassFunction, TakeFromCatchFrame, PassCatchFrame, NothingHere, Unwound, Dispatching, T
<1>5. ThrowOf(d, n) /\ d \in RuntimeFrame
  BY <1>1, <1>2, <1>4, TopDispatch DEF EInv
<1>6. T.block = 0
  BY <1>4, <1>5 DEF PassFunction, TakeFromCatchFrame, PassCatchFrame, NothingHere, Dispatching, ThrowOf, T
<1>7. ASSUME IsFunction(r) PROVE State(r) = -1
  <2>1. NothingHere
    BY <1>2, <1>4, <1>5, <1>7 DEF PassFunction, TakeFromCatchFrame, PassCatchFrame, Dispatching, ThrowOf, T, IsFunction
  <2>2. State(r) <= d.target /\ d.pc = "unwind"
    BY <1>1, <1>2, <1>4, <2>1 DEF NothingHere, Unwound, Dispatching
  <2>3. d.target = -1
    BY <1>2, <1>4, <1>5, <1>6, <1>7, <2>2 DEF ThrowOf, UnwoundState
  <2>4. State(r) \in States(Fn(r)) /\ Fn(r) \in Fns
    <3>1. frame[n].kind = "throw" /\ frame[n].pc # "visit" /\ r = frame[n].reg
      BY <1>2, <1>4
    <3>2. PICK p : p = Primary(r)
      OBVIOUS
    <3> QED
      BY <1>1, <3>1, <3>2, Worked
  <2> QED
    BY <2>2, <2>3, <2>4, EhAssumption DEF States
<1> QED
  BY <1>1, <1>2, <1>3, <1>4, <1>6, <1>7, PassExact

LEMMA ExactStill == ASSUME EInv, UNCHANGED <<frame, top, objects>> PROVE Exact'
BY DEF EInv, Exact, ExactAt, ObjectsAt, Expects, Unwinds, Target, Entered, IsFunction

LEMMA InitExact == Init => Exact
<1> SUFFICES ASSUME Init PROVE Exact
  OBVIOUS
<1>1. /\ objects = {} /\ 1 \in Slot
      /\ \A k \in Slot : frame[k] = IF k = 1 THEN [kind |-> "function", fn |-> Main, state |-> -1, next |-> 0] ELSE Free
  BY Depth DEF Init
<1>2. ASSUME NEW k \in Slot PROVE ExactAt(k)
  <2>1. ObjectsAt(k) = {} /\ Owed(Main, -1) = {}
    BY <1>1, ChainEmpty, ProgramAssumption DEF ObjectsAt
  <2> QED
    BY <1>1, <2>1 DEF ExactAt, IsFunction, Free
<1>3. ASSUME NEW k \in Slot PROVE Expects(k)
  <2>1. frame[k].kind \in {"function", "free"}
    BY <1>1 DEF Free
  <2> QED
    BY <2>1 DEF Expects, Unwinds
<1> QED
  BY <1>2, <1>3 DEF Exact

LEMMA NextExact == EInv /\ [Next]_vars => Exact'
<1> SUFFICES ASSUME EInv, [Next]_vars PROVE Exact'
  OBVIOUS
<1>1. ASSUME NEW f \in Fns, Call(f) PROVE Exact'
  BY <1>1, CallExact
<1>2. ASSUME NEW s, Enter(s) PROVE Exact'
  BY <1>2, EnterExact
<1>3. CASE Leave
  BY <1>3, LeaveExact
<1>4. CASE Return
  BY <1>4, ReturnExact
<1>5. CASE CatchReturn
  BY <1>5, CatchReturnExact
<1>6. CASE Rethrow \/ \E t \in Types : Throw(t)
  BY <1>6, ThrowExact
<1>7. CASE VisitFunction \/ VisitCatchFrame \/ ProbeForObject \/ SelectNothing \/ CopyReturns \/ AbandonException
  BY <1>7, SearchExact
<1>8. CASE RejectTable \/ VisitForeign
  BY <1>8, ExactStill DEF RejectTable, VisitForeign, Halt
<1>9. CASE SearchFails
  BY <1>9, ExactStill DEF SearchFails, Halt
<1>10. CASE NoexceptViolation
  BY <1>10, ExactStill DEF NoexceptViolation, Halt
<1>11. CASE SelectHandler
  BY <1>11, SelectHandlerExact
<1>12. CASE UnwindEdge
  BY <1>12, UnwindEdgeExact
<1>13. CASE CleanupReturns
  BY <1>13, CleanupReturnsExact
<1>14. CASE BindCatchVariable
  BY <1>14, BindExact
<1>15. CASE PassFunction \/ TakeFromCatchFrame \/ PassCatchFrame
  BY <1>15, PassRegistrationExact
<1>16. CASE CallHandler
  BY <1>16, CallHandlerExact
<1>17. CASE ContinueAfterException
  BY <1>17, ContinueExact
<1>18. CASE UNCHANGED vars
  BY <1>18, ExactStill DEF vars
<1> QED
  BY <1>1, <1>2, <1>3, <1>4, <1>5, <1>6, <1>7, <1>8, <1>9, <1>10, <1>11, <1>12, <1>13, <1>14,
     <1>15, <1>16, <1>17, <1>18
     DEF Next, UserCode, Runtime, Halted

\* The state in a function's frame says which of its objects are alive,
\* whoever wrote it: the function's body, its handlers (which share the frame),
\* _unwind_frame (throw_x86.cpp:148-160) or the code after a handler; and an
\* object never outlives its frame.  Unwinding stores each state before it
\* calls the cleanup, so this holds while destructors throw and catch, too.
THEOREM CleanupsAreExact == Spec => []CleanupsExact
<1>1. Init => EInv
  BY InitIInv, InitExact DEF EInv
<1>2. EInv /\ [Next]_vars => EInv'
  BY NextIInv, NextExact DEF EInv
<1>3. EInv => CleanupsExact
  <2> SUFFICES ASSUME EInv PROVE CleanupsExact
    OBVIOUS
  <2>1. ASSUME NEW k \in Slot, IsFunction(k) PROVE LiveObjects(k) = Owed(Fn(k), State(k))
    <3>1. Primary(k) = k /\ Fn(k) = frame[k].fn /\ State(k) = frame[k].state
      BY <2>1 DEF Primary, IsFunction, Fn, State
    <3>2. {s \in Nat : <<k, s>> \in objects} = Owed(Fn(k), State(k))
      BY <2>1, <3>1 DEF EInv, Exact, ExactAt, ObjectsAt
    <3>3. Fn(k) \in Fns /\ State(k) \in States(Fn(k))
      BY <2>1, <3>1, Kinds DEF EInv, IInv, Shape, SlotShape, FunctionShape, FunctionFrame, IsFunction
    <3>4. Owed(Fn(k), State(k)) \subseteq 0..Eh[Fn(k)].last
      BY <3>3, ChainBelow DEF Owed
    <3>5. 0..Eh[Fn(k)].last \subseteq Nat
      OBVIOUS
    <3> QED
      BY <3>1, <3>2, <3>4, <3>5 DEF LiveObjects
  <2>2. ASSUME NEW o \in objects PROVE IsFunction(o[1])
    <3>1. PICK k \in Slot, s \in Nat : o = <<k, s>>
      BY DEF EInv, IInv, TypeOK
    <3>2. s \in ObjectsAt(k)
      BY <3>1 DEF ObjectsAt
    <3> QED
      BY <3>1, <3>2 DEF EInv, Exact, ExactAt
  <2> QED
    BY <2>1, <2>2 DEF CleanupsExact
<1> QED
  BY <1>1, <1>2, <1>3, PTL DEF Spec

----------------------------------------------------------------------------
(***************************************************************************)
(* The states of functions with handlers in progress.                      *)
(***************************************************************************)

\* The handler that frame k was, or will be, called for is in state s of the
\* function, or further in.
InsideOf(k, f, s) == HandlerState(f, frame[k].block) \in Chain(f, s)

\* Frame k has its handler under it, or its function is in the handler's state.
Called(k) ==
    \/ frame[k].kind = "catch"
    \/ frame[k].kind = "throw" /\ frame[k].pc \in {"copy", "call"}

Base(k) == frame[k].tf.primary_frame_base

Inside(k) == InsideOf(k, frame[Base(k)].fn, frame[Base(k)].state)

\* The dispatch in slot q has found nothing in the handler of catch frame k.
Leaves(q, k) ==
    /\ frame[q].kind = "throw" /\ frame[q].reg = k /\ frame[q].block = 0
    /\ frame[q].pc \in {"unwind", "cleanup", "abandon"}

\* The state in which a try statement, and its handlers, are entered.
Around(f, i) == Eh[f].next[Block(f, i).try_low]

\* The handler of frame k has been unwound, by a dispatch that goes further.
Left(k) ==
    /\ frame[Base(k)].state = Around(frame[Base(k)].fn, frame[k].block)
    /\ \E q \in Slot : Leaves(q, k)

HandlerShape(k) == Called(k) => Inside(k) \/ Left(k)

\* A handler chosen for a function that has handlers in progress lies in them.
NestedShape(k) ==
    Handles(k) =>
        \A j \in Slot : j < k /\ frame[j].kind = "catch" /\ Base(j) = Base(k) =>
            InsideOf(j, frame[Base(k)].fn, Around(frame[Base(k)].fn, frame[k].block))

Handlers ==
    /\ \A k \in Slot : HandlerShape(k)
    /\ \A k \in Slot : NestedShape(k)

HInv == EInv /\ Handlers

\* What frame k, called or about to be called, knows of its function.
LEMMA CalledFacts ==
    ASSUME IInv, NEW k \in Slot, Called(k), NEW p, p = Base(k)
    PROVE  /\ p \in Slot /\ p < k /\ p # k /\ IsFunction(p) /\ frame[p] \in FunctionFrame
           /\ frame[p].fn \in Fns /\ frame[p].state \in States(frame[p].fn)
           /\ frame[k].block \in Blocks(frame[p].fn)
           /\ k \in Nat /\ k <= top /\ Handles(k) /\ IsRuntime(k)
           /\ \A q \in Slot : q < k /\ frame[q].kind \in {"throw", "destroy"} => q < p
<1>1. IsRuntime(k) /\ SlotShape(k) /\ frame[k] # Free
  BY DEF Called, IsRuntime, IInv, Shape, Free
<1>2. Handles(k)
  <2>1. CASE frame[k].kind = "catch"
    BY <2>1 DEF Handles
  <2>2. CASE frame[k].kind = "throw" /\ frame[k].pc \in {"copy", "call"}
    BY <1>1, <2>2 DEF Handles, SlotShape, ThrowShape, ThrowOf
  <2> QED
    BY <2>1, <2>2 DEF Called
<1>3. HandlingOf(frame[k], k)
  BY <1>1, <1>2 DEF SlotShape, HandlingShape
<1>4. /\ p \in Slot /\ p < k /\ IsFunction(p) /\ frame[k].block \in Blocks(frame[p].fn)
      /\ \A q \in Slot : q < k /\ frame[q].kind \in {"throw", "destroy"} => q < p
  BY <1>3 DEF HandlingOf, Base
<1>5. frame[p] \in FunctionFrame /\ frame[p].fn \in Fns /\ frame[p].state \in States(frame[p].fn)
  BY <1>4, Kinds DEF IInv, Shape, SlotShape, FunctionShape, FunctionFrame, IsFunction
<1>6. k \in Nat /\ p \in Nat /\ top \in Nat
  BY <1>4, Depth DEF IInv, TypeOK
<1>7. ~(k > top)
  BY <1>1 DEF SlotShape
<1> QED
  BY <1>1, <1>2, <1>4, <1>5, <1>6, <1>7

\* A state inside a handler, or the one around its try statement, is inside of
\* whatever the try statement is in.
LEMMA AroundIn ==
    ASSUME NEW f \in Fns, NEW i \in Blocks(f), NEW s \in States(f),
           HandlerState(f, i) \in Chain(f, s) \/ s = Around(f, i)
    PROVE  Chain(f, Around(f, i)) \subseteq Chain(f, s)
<1>1. CASE s = Around(f, i)
  BY <1>1
<1>2. CASE HandlerState(f, i) \in Chain(f, s)
  <2>1. PICK h : h = HandlerState(f, i)
    OBVIOUS
  <2>2. h \in Chain(f, s) /\ Eh[f].next[h] = Around(f, i)
    BY <1>2, <2>1, HandlerFacts DEF Around
  <2>3. Chain(f, Eh[f].next[h]) \subseteq Chain(f, s)
    BY <2>2, ChainPart
  <2> QED
    BY <2>2, <2>3
<1> QED
  BY <1>1, <1>2

----------------------------------------------------------------------------
(* How the steps keep it.                                                  *)

\* Frame k, its function and whoever has left its handler stay.
Steady(k) ==
    /\ frame'[k] = frame[k] /\ frame'[Base(k)] = frame[Base(k)]
    /\ (\E q \in Slot : Leaves(q, k)) => \E q \in Slot : Leaves(q, k)'

SameHandler(k) ==
    /\ Handles(k)
    /\ frame'[k].block = frame[k].block /\ frame'[k].tf.primary_frame_base = Base(k)

Carries(k) ==
    /\ IsFunction(k) /\ frame'[k].kind = "function" => frame'[k].fn = frame[k].fn
    /\ frame'[k].kind = "catch" => frame'[k] = frame[k] \/ k = top
    /\ Steady(k) \/ HandlerShape(k)'
    /\ SameHandler(k) \/ NestedShape(k)'

LEMMA CarriesHandlers ==
    ASSUME IInv, IInv', Handlers, \A k \in Slot : Carries(k)
    PROVE  Handlers'
<1>1. ASSUME NEW k \in Slot PROVE HandlerShape(k)'
  <2>1. SUFFICES ASSUME Steady(k) PROVE HandlerShape(k)'
    BY <1>1 DEF Carries
  <2>2. HandlerShape(k)
    BY DEF Handlers
  <2>3. Called(k)' <=> Called(k)
    BY <2>1 DEF Steady, Called
  <2>4. Inside(k)' <=> Inside(k)
    BY <2>1 DEF Steady, Inside, InsideOf, Base
  <2>5. Left(k) => Left(k)'
    BY <2>1 DEF Steady, Left, Base
  <2> QED
    BY <2>2, <2>3, <2>4, <2>5 DEF HandlerShape
<1>2. ASSUME NEW k \in Slot PROVE NestedShape(k)'
  <2>1. SUFFICES ASSUME SameHandler(k), Handles(k)' PROVE NestedShape(k)'
    BY <1>2 DEF Carries, NestedShape
  <2>2. PICK p : p = Base(k)
    OBVIOUS
  <2>3. Handles(k) /\ frame'[k].block = frame[k].block /\ Base(k)' = p
    BY <2>1, <2>2 DEF SameHandler, Base
  <2>4. p \in Slot /\ IsFunction(p)
    BY <2>2, <2>3 DEF IInv, Shape, SlotShape, HandlingShape, HandlingOf, Base
  <2>5. frame'[p].kind = "function"
    BY <2>1, <2>3 DEF IInv, Shape, SlotShape, HandlingShape, HandlingOf, Base, IsFunction
  <2>6. frame'[p].fn = frame[p].fn
    BY <2>4, <2>5 DEF Carries
  <2>7. k <= top
    <3>1. ~(k > top)
      BY <2>3 DEF IInv, Shape, SlotShape, Handles, Free
    <3> QED
      BY <3>1, Depth DEF IInv, TypeOK
  <2>8. ASSUME NEW j \in Slot, j < k, frame'[j].kind = "catch", Base(j)' = p
        PROVE  InsideOf(j, frame[p].fn, Around(frame[p].fn, frame[k].block))'
    <3>1. j # top
      BY <2>7, <2>8, Depth DEF IInv, TypeOK
    <3>2. frame'[j] = frame[j]
      BY <2>8, <3>1 DEF Carries
    <3>3. NestedShape(k) /\ Base(j) = Base(k)
      BY <2>2, <2>8, <3>2 DEF Handlers, Base
    <3>4. InsideOf(j, frame[p].fn, Around(frame[p].fn, frame[k].block))
      BY <2>2, <2>3, <2>8, <3>2, <3>3 DEF NestedShape
    <3> QED
      BY <2>3, <2>6, <3>2, <3>4 DEF InsideOf, Around
  <2> QED
    BY <2>3, <2>8 DEF NestedShape
<1> QED
  BY <1>1, <1>2 DEF Handlers

\* Nothing is asked of a frame that has no handler.
LEMMA NothingHandled ==
    ASSUME NEW k, \/ frame'[k].kind \notin {"throw", "catch", "destroy"}
                  \/ frame'[k].kind = "throw" /\ frame'[k].block = 0 /\ frame'[k].pc \notin {"copy", "call"}
    PROVE  HandlerShape(k)' /\ NestedShape(k)'
BY DEF HandlerShape, NestedShape, Called, Handles

\* A frame below the first slot that changes.
LEMMA UntouchedCarries ==
    ASSUME IInv, NEW k \in Slot, frame'[k] = frame[k],
           Called(k) => frame'[Base(k)] = frame[Base(k)],
           Called(k) => \A q \in Slot : Leaves(q, k) => \E o \in Slot : Leaves(o, k)'
    PROVE  Carries(k)
<1>1. Steady(k) \/ HandlerShape(k)'
  <2>1. CASE Called(k)
    BY <2>1 DEF Steady
  <2>2. CASE ~Called(k)
    BY <2>2 DEF HandlerShape, Called
  <2> QED
    BY <2>1, <2>2
<1>2. SameHandler(k) \/ NestedShape(k)'
  BY DEF SameHandler, NestedShape, Handles, Base
<1> QED
  BY <1>1, <1>2 DEF Carries


----------------------------------------------------------------------------
(* Steps that put no function in another state.                            *)

\* The newest dispatch changes its own frame.
LEMMA TopHandlers ==
    ASSUME HInv, IInv', NEW n \in Slot, n = top, frame[n].kind = "throw",
           NEW x, frame' = [frame EXCEPT ![n] = x], x.kind = "throw",
           (frame[n].block = 0 /\ frame[n].pc \in {"unwind", "cleanup", "abandon"}) =>
                x.block = 0 /\ x.pc \in {"unwind", "cleanup", "abandon"} /\ x.reg = frame[n].reg,
           HandlerShape(n)', SameHandler(n) \/ NestedShape(n)'
    PROVE  Handlers'
<1>1. frame'[n] = x /\ \A q \in Slot : q # n => frame'[q] = frame[q]
  BY DEF HInv, EInv, IInv, TypeOK
<1>2. ASSUME NEW k \in Slot, NEW q \in Slot, Leaves(q, k) PROVE Leaves(q, k)'
  <2>1. CASE q = n
    BY <1>1, <1>2, <2>1 DEF Leaves
  <2>2. CASE q # n
    BY <1>1, <1>2, <2>2 DEF Leaves
  <2> QED
    BY <2>1, <2>2
<1>3. ASSUME NEW k \in Slot PROVE Carries(k)
  <2>1. CASE k = n
    BY <1>1, <2>1 DEF Carries, IsFunction
  <2>2. CASE k # n
    <3>1. Called(k) => frame'[Base(k)] = frame[Base(k)]
      <4>1. Called(k) => Base(k) \in Slot /\ IsFunction(Base(k))
        BY CalledFacts DEF HInv, EInv
      <4> QED
        BY <1>1, <4>1 DEF IsFunction
    <3>2. frame'[k] = frame[k]
      BY <1>1, <2>2
    <3> QED
      BY <1>2, <3>1, <3>2, UntouchedCarries DEF HInv, EInv
  <2> QED
    BY <2>1, <2>2
<1> QED
  BY <1>3, CarriesHandlers DEF HInv, EInv

LEMMA SearchHandlers ==
    ASSUME HInv, IInv', VisitFunction \/ VisitCatchFrame \/ ProbeForObject \/ SelectNothing \/ AbandonException
    PROVE  Handlers'
<1>1. PICK n \in Slot : n = top
  BY DEF HInv, EInv, IInv, TypeOK
<1>2. frame \in [Slot -> Frame]
  BY DEF HInv, EInv, IInv, TypeOK
<1>3. ASSUME NEW pc, Dispatching(pc), T.block = 0, NEW x, frame' = [frame EXCEPT ![top] = x],
             x.kind = "throw", x.block = T.block, x.pc \in {"search", "unwind", "abandon"},
             pc \in {"visit", "search"} \/ (x.pc = "abandon" /\ x.reg = T.reg)
      PROVE  Handlers'
  <2>1. frame'[n] = x /\ frame' = [frame EXCEPT ![n] = x]
    BY <1>1, <1>2, <1>3
  <2>2. HandlerShape(n)' /\ NestedShape(n)'
    BY <1>3, <2>1, NothingHandled
  <2>3. frame[n].kind = "throw" /\ frame[n].pc = pc /\ T = frame[n]
    BY <1>1, <1>3, TopThrow DEF HInv, EInv
  <2>4. (frame[n].block = 0 /\ frame[n].pc \in {"unwind", "cleanup", "abandon"}) =>
            x.block = 0 /\ x.pc \in {"unwind", "cleanup", "abandon"} /\ x.reg = frame[n].reg
    BY <1>3, <2>3
  <2> QED
    BY <1>1, <1>3, <2>1, <2>2, <2>3, <2>4, TopHandlers
<1>4. ASSUME NEW pc \in {"visit", "search"}, Dispatching(pc) PROVE T.block = 0
  <2>1. frame[n].kind = "throw" /\ frame[n].pc = pc /\ T = frame[n]
    BY <1>1, <1>4, TopThrow DEF HInv, EInv
  <2>2. ThrowOf(frame[n], n)
    BY <1>1, <2>1, TopDispatch DEF HInv, EInv
  <2> QED
    BY <2>1, <2>2 DEF ThrowOf
<1>5. ASSUME NEW tf, EnterHandler(tf), Dispatching("visit") PROVE Handlers'
  <2>1. PICK x : x = [T EXCEPT !.pc = "search", !.next = head, !.tf = tf, !.entry = State(T.reg)]
    OBVIOUS
  <2>2. x.kind = "throw" /\ x.pc = "search" /\ x.block = T.block
    BY <1>5, <2>1, TopThrow DEF HInv, EInv, RuntimeFrame
  <2>3. frame' = [frame EXCEPT ![top] = x]
    BY <1>5, <2>1 DEF EnterHandler
  <2>4. T.block = 0
    BY <1>4, <1>5
  <2> QED
    BY <1>3, <1>5, <2>2, <2>3, <2>4
<1>6. CASE VisitFunction
  BY <1>5, <1>6 DEF VisitFunction
<1>7. CASE VisitCatchFrame
  BY <1>5, <1>7 DEF VisitCatchFrame
<1>8. CASE ProbeForObject
  <2>1. PICK p \in Slot : frame' = [frame EXCEPT ![top].tf.exception_object_or_link = Link(p)]
    BY <1>8 DEF ProbeForObject
  <2>2. PICK x : x = [T EXCEPT !.tf.exception_object_or_link = Link(p)]
    OBVIOUS
  <2>3. x.kind = "throw" /\ x.pc = "search" /\ x.block = T.block /\ Dispatching("search")
    BY <1>8, <2>2, TopThrow DEF HInv, EInv, RuntimeFrame, ProbeForObject
  <2>4. frame' = [frame EXCEPT ![top] = x]
    BY <2>1, <2>2 DEF T
  <2>5. T.block = 0
    BY <1>4, <2>3
  <2> QED
    BY <1>3, <2>3, <2>4, <2>5
<1>9. CASE SelectNothing
  <2>1. PICK x : x = [T EXCEPT !.pc = "unwind", !.target = UnwoundState(T.reg)]
    OBVIOUS
  <2>2. Dispatching("search") /\ frame' = [frame EXCEPT ![top] = x]
    BY <1>9, <2>1 DEF SelectNothing
  <2>3. x.kind = "throw" /\ x.block = T.block /\ x.pc = "unwind"
    BY <2>1, <2>2, TopThrow DEF HInv, EInv, RuntimeFrame
  <2>4. T.block = 0
    BY <1>4, <2>2
  <2> QED
    BY <1>3, <2>2, <2>3, <2>4
<1>10. CASE AbandonException
  <2>1. PICK x : x = [T EXCEPT !.pc = "abandon"]
    OBVIOUS
  <2>2. Dispatching("unwind") /\ T.block = 0 /\ frame' = [frame EXCEPT ![top] = x]
    BY <1>10, <2>1 DEF AbandonException, NothingHere, Unwound, T
  <2>3. x.kind = "throw" /\ x.block = T.block /\ x.pc = "abandon" /\ x.reg = T.reg
    BY <2>1, <2>2, TopThrow DEF HInv, EInv, RuntimeFrame
  <2> QED
    BY <1>3, <2>2, <2>3
<1> QED
  BY <1>6, <1>7, <1>8, <1>9, <1>10

LEMMA CleanupReturnsHandlers == ASSUME HInv, IInv', CleanupReturns PROVE Handlers'
<1>1. PICK n \in Slot : n = top
  BY DEF HInv, EInv, IInv, TypeOK
<1>2. PICK d, x : d = frame[n] /\ x = [d EXCEPT !.pc = "unwind"]
  OBVIOUS
<1>3. Dispatching("cleanup") /\ frame' = [frame EXCEPT ![n] = x]
  BY <1>1, <1>2 DEF CleanupReturns
<1>4. d \in RuntimeFrame /\ d.kind = "throw" /\ d.pc = "cleanup"
  BY <1>1, <1>2, <1>3, TopThrow DEF HInv, EInv
<1>5. x.kind = "throw" /\ x.pc = "unwind" /\ x.block = d.block /\ x.tf = d.tf /\ x.reg = d.reg
  BY <1>2, <1>4 DEF RuntimeFrame
<1>6. frame'[n] = x
  BY <1>3 DEF HInv, EInv, IInv, TypeOK
<1>7. HandlerShape(n)'
  BY <1>5, <1>6 DEF HandlerShape, Called
<1>8. SameHandler(n) \/ NestedShape(n)'
  <2>1. CASE d.block = 0
    BY <1>5, <1>6, <2>1 DEF NestedShape, Handles
  <2>2. CASE d.block # 0
    BY <1>2, <1>4, <1>5, <1>6, <2>2 DEF SameHandler, Handles, Base
  <2> QED
    BY <2>1, <2>2
<1> QED
  BY <1>1, <1>2, <1>3, <1>4, <1>5, <1>7, <1>8, TopHandlers

\* Nothing stands on a dispatch that has chosen a handler.
LEMMA NotLeft ==
    ASSUME IInv, NEW n \in Slot, NEW m \in Int, m >= n, \A j \in Slot : j > m => frame[j] = Free,
           \A j \in Slot : n <= j /\ j <= m => frame[j].kind # "throw" \/ frame[j].block # 0
    PROVE  ~Left(n)
<1>1. SUFFICES ASSUME NEW q \in Slot, Leaves(q, n) PROVE FALSE
  BY DEF Left
<1>2. frame[q].kind = "throw" /\ frame[q].reg = n /\ frame[q].block = 0
  BY <1>1 DEF Leaves
<1>3. frame[q].reg < q
  BY <1>2, RegBelow DEF IsRuntime
<1>4. n \in Int /\ q \in Int /\ frame[q] # Free
  BY <1>2, Depth DEF Free
<1> QED
  BY <1>2, <1>3, <1>4

LEMMA CopyReturnsHandlers == ASSUME HInv, IInv', CopyReturns PROVE Handlers'
<1>1. PICK n \in Slot : n = top
  BY DEF HInv, EInv, IInv, TypeOK
<1>2. PICK d, x : d = frame[n] /\ x = [d EXCEPT !.pc = "call"]
  OBVIOUS
<1>3. Dispatching("copy") /\ frame' = [frame EXCEPT ![n] = x]
  BY <1>1, <1>2 DEF CopyReturns
<1>4. d \in RuntimeFrame /\ d.kind = "throw" /\ d.pc = "copy"
  BY <1>1, <1>2, <1>3, TopThrow DEF HInv, EInv
<1>5. x.kind = "throw" /\ x.pc = "call" /\ x.block = d.block /\ x.tf = d.tf
  BY <1>2, <1>4 DEF RuntimeFrame
<1>6. frame'[n] = x /\ \A q \in Slot : q # n => frame'[q] = frame[q]
  BY <1>3 DEF HInv, EInv, IInv, TypeOK
<1>7. PICK p : p = Base(n)
  OBVIOUS
<1>8. Called(n) /\ Handles(n) /\ p \in Slot /\ p # n
  <2>1. Called(n)
    BY <1>2, <1>4 DEF Called
  <2> QED
    BY <1>7, <2>1, CalledFacts DEF HInv, EInv
<1>9. d.block # 0
  BY <1>2, <1>4, <1>8 DEF Handles
<1>10. ~Left(n)
  <2>1. n \in Int /\ \A j \in Slot : j > n => frame[j] = Free
    BY <1>1, TopFacts, Depth DEF HInv, EInv
  <2>2. \A j \in Slot : n <= j /\ j <= n => j = n
    BY <2>1, Depth
  <2> QED
    BY <1>2, <1>9, <2>1, <2>2, NotLeft DEF HInv, EInv
<1>11. Inside(n)
  BY <1>8, <1>10 DEF HInv, Handlers, HandlerShape
<1>12. Inside(n)'
  <2>1. frame'[p] = frame[p]
    BY <1>6, <1>8
  <2>2. Base(n)' = p
    BY <1>2, <1>5, <1>6, <1>7 DEF Base
  <2> QED
    BY <1>2, <1>5, <1>6, <1>7, <1>11, <2>1, <2>2 DEF Inside, InsideOf
<1>13. HandlerShape(n)'
  BY <1>12 DEF HandlerShape
<1>14. SameHandler(n)
  BY <1>2, <1>5, <1>6, <1>8 DEF SameHandler, Base
<1> QED
  BY <1>1, <1>2, <1>3, <1>4, <1>5, <1>13, <1>14, TopHandlers

\* Nothing stands on the newest frame.
LEMMA PushHandlers ==
    ASSUME HInv, IInv', NEW m \in Slot, NEW x, Pushes(m, x)
    PROVE  Handlers'
<1>1. PICK n \in Slot : n = top
  BY DEF HInv, EInv, IInv, TypeOK
<1>2. m = n + 1 /\ frame' = [frame EXCEPT ![m] = x]
  BY <1>1 DEF Pushes
<1>3. frame'[m] = x /\ \A q \in Slot : q # m => frame'[q] = frame[q]
  BY <1>2 DEF HInv, EInv, IInv, TypeOK
<1>4. x.kind = "function" \/ (x.kind = "throw" /\ x.block = 0 /\ x.pc = "visit")
  BY DEF Pushes
<1>5. n \in Nat /\ m \in Nat /\ m > n
  BY <1>2, Depth
<1>6. frame[m] = Free
  BY <1>1, <1>5, TopFacts DEF HInv, EInv
<1>7. ASSUME NEW k \in Slot PROVE Carries(k)
  <2>1. CASE k = m
    <3>1. HandlerShape(m)' /\ NestedShape(m)'
      BY <1>3, <1>4, NothingHandled
    <3> QED
      BY <1>3, <1>4, <1>6, <2>1, <3>1 DEF Carries, IsFunction, Free
  <2>2. CASE k # m
    <3>1. Called(k) => frame'[Base(k)] = frame[Base(k)]
      <4>1. Called(k) => Base(k) \in Slot /\ IsFunction(Base(k))
        BY CalledFacts DEF HInv, EInv
      <4> QED
        BY <1>3, <1>6, <4>1 DEF IsFunction, Free
    <3>2. \A q \in Slot : Leaves(q, k) => Leaves(q, k)'
      BY <1>3, <1>6 DEF Leaves, Free
    <3>3. frame'[k] = frame[k]
      BY <1>3, <2>2
    <3> QED
      BY <3>1, <3>2, <3>3, UntouchedCarries DEF HInv, EInv
  <2> QED
    BY <2>1, <2>2
<1> QED
  BY <1>7, CarriesHandlers DEF HInv, EInv

LEMMA CallThrowHandlers ==
    ASSUME HInv, IInv', (\E f \in Fns : Call(f)) \/ Rethrow \/ (\E t \in Types : Throw(t))
    PROVE  Handlers'
<1>1. ASSUME NEW f \in Fns, Call(f) PROVE Handlers'
  <2>1. PICK m \in Slot : \E x : Pushes(m, x)
    BY <1>1, CallPushes DEF HInv, EInv
  <2> QED
    BY <2>1, PushHandlers
<1>2. ASSUME NEW obj \in ObjOrLink, NEW info \in Types \cup {NoInfo}, Running, PushThrowFrame(obj, info)
      PROVE  Handlers'
  <2>1. PICK m \in Slot : \E x : Pushes(m, x)
    BY <1>2, ThrowFramePushes DEF HInv, EInv
  <2> QED
    BY <2>1, PushHandlers
<1> QED
  BY <1>1, <1>2, ThrowArguments DEF HInv, EInv


\* A dispatch or a code frame below the newest goes, or becomes a catch frame.
LEMMA ReturnHandlers == ASSUME HInv, IInv', Return PROVE Handlers'
<1>1. PICK n \in Slot : n = top
  BY DEF HInv, EInv, IInv, TypeOK
<1>2. IsFunction(n) /\ frame' = [frame EXCEPT ![n] = Free]
  BY <1>1 DEF Return
<1>3. frame'[n] = Free /\ \A q \in Slot : q # n => frame'[q] = frame[q]
  BY <1>2 DEF HInv, EInv, IInv, TypeOK
<1>4. ASSUME NEW k \in Slot PROVE Carries(k)
  <2>1. CASE k = n
    <3>1. HandlerShape(n)' /\ NestedShape(n)'
      BY <1>3, NothingHandled DEF Free
    <3> QED
      BY <1>3, <2>1, <3>1 DEF Carries, Free
  <2>2. CASE k # n
    <3>1. Called(k) => frame'[Base(k)] = frame[Base(k)]
      <4>1. SUFFICES ASSUME Called(k) PROVE Base(k) \in Slot /\ Base(k) # n
        BY <1>3
      <4>2. Base(k) \in Slot /\ Base(k) < k /\ k <= n
        BY <1>1, <4>1, CalledFacts DEF HInv, EInv
      <4> QED
        BY <4>2, Depth
    <3>2. \A q \in Slot : Leaves(q, k) => Leaves(q, k)'
      BY <1>2, <1>3 DEF Leaves, IsFunction
    <3>3. frame'[k] = frame[k]
      BY <1>3, <2>2
    <3> QED
      BY <3>1, <3>2, <3>3, UntouchedCarries DEF HInv, EInv
  <2> QED
    BY <2>1, <2>2
<1> QED
  BY <1>4, CarriesHandlers DEF HInv, EInv

LEMMA CatchReturnHandlers == ASSUME HInv, IInv', CatchReturn PROVE Handlers'
<1>1. PICK m \in Slot : m = top
  BY DEF HInv, EInv, IInv, TypeOK
<1>2. frame[m].kind = "funclet"
  BY <1>1 DEF CatchReturn, Running, InHandlerState, IsUser, IsFunction
<1>3. PICK n \in Slot : n = m - 1 /\ frame[n].kind = "catch"
  BY <1>1, <1>2, TopFacts DEF HInv, EInv
<1>4. PICK d, x : d = frame[n] /\ x = [d EXCEPT !.kind = "destroy", !.pc = "destroy"]
  OBVIOUS
<1>5. n \in Nat /\ m \in Nat /\ n < m /\ m = n + 1
  BY <1>3, Depth
<1>6. d \in RuntimeFrame /\ x.kind = "destroy" /\ x.tf = d.tf /\ x.block = d.block
  <2>1. d \in RuntimeFrame
    BY <1>3, <1>4, Kinds DEF HInv, EInv, IInv, IsRuntime
  <2> QED
    BY <1>4, <2>1 DEF RuntimeFrame
<1>7. frame' = [frame EXCEPT ![m] = Free, ![n] = x]
  <2>1. frame' = [frame EXCEPT ![m] = Free, ![n] = [@ EXCEPT !.kind = "destroy", !.pc = "destroy"]]
    BY <1>1, <1>3 DEF CatchReturn
  <2> QED
    BY <1>4, <1>5, <2>1
<1>8. frame'[n] = x /\ frame'[m] = Free /\ \A q \in Slot : q # n /\ q # m => frame'[q] = frame[q]
  BY <1>5, <1>7 DEF HInv, EInv, IInv, TypeOK
<1>9. ASSUME NEW k \in Slot PROVE Carries(k)
  <2>1. CASE k = n
    <3>1. HandlerShape(n)'
      BY <1>6, <1>8 DEF HandlerShape, Called
    <3>2. SameHandler(n)
      BY <1>3, <1>4, <1>6, <1>8 DEF SameHandler, Handles, Base
    <3> QED
      BY <1>3, <1>6, <1>8, <2>1, <3>1, <3>2 DEF Carries, IsFunction
  <2>2. CASE k = m
    <3>1. HandlerShape(m)' /\ NestedShape(m)'
      BY <1>8, NothingHandled DEF Free
    <3> QED
      BY <1>2, <1>8, <2>2, <3>1 DEF Carries, Free
  <2>3. CASE k # n /\ k # m
    <3>1. Called(k) => frame'[Base(k)] = frame[Base(k)]
      <4>1. Called(k) => Base(k) \in Slot /\ IsFunction(Base(k))
        BY CalledFacts DEF HInv, EInv
      <4>2. ~IsFunction(n) /\ ~IsFunction(m)
        BY <1>2, <1>3 DEF IsFunction
      <4> QED
        BY <1>8, <4>1, <4>2
    <3>2. \A q \in Slot : Leaves(q, k) => Leaves(q, k)'
      BY <1>2, <1>3, <1>8 DEF Leaves
    <3>3. frame'[k] = frame[k]
      BY <1>8, <2>3
    <3> QED
      BY <3>1, <3>2, <3>3, UntouchedCarries DEF HInv, EInv
  <2> QED
    BY <2>1, <2>2, <2>3
<1> QED
  BY <1>9, CarriesHandlers DEF HInv, EInv

\* A handler is called in its first state.
LEMMA CallHandlerHandlers == ASSUME HInv, IInv', CallHandler PROVE Handlers'
<1>1. PICK n \in Slot : n = top
  BY DEF HInv, EInv, IInv, TypeOK
<1>2. PICK d, x, y :
        /\ d = frame[n]
        /\ x = [T EXCEPT !.kind = "catch", !.pc = "handler", !.next = head,
                         !.entry = -1, !.target = -1, !.clause = 0]
        /\ y = [kind |-> "funclet", block |-> T.block, primary |-> Primary(top)]
  OBVIOUS
<1>3. Dispatching("call") /\ frame' = [frame EXCEPT ![n] = x, ![n + 1] = y]
  BY <1>1, <1>2 DEF CallHandler
<1>4. d \in RuntimeFrame /\ T = d /\ d.kind = "throw" /\ d.pc = "call"
  BY <1>1, <1>2, <1>3, TopThrow DEF HInv, EInv
<1>5. x.kind = "catch" /\ x.block = d.block /\ x.tf = d.tf /\ y.kind = "funclet"
  BY <1>2, <1>4 DEF RuntimeFrame
<1>6. PICK m \in Slot : m = n + 1
  <2>1. n < MaxDepth
    BY <1>1, <1>2, <1>4, TopDispatch DEF HInv, EInv, ThrowOf
  <2> QED
    BY <2>1, Depth DEF Slot
<1>7. n \in Nat /\ m \in Nat /\ n < m
  BY <1>6, Depth
<1>8. frame'[n] = x /\ frame'[m] = y /\ \A q \in Slot : q # n /\ q # m => frame'[q] = frame[q]
  BY <1>3, <1>6, <1>7 DEF HInv, EInv, IInv, TypeOK
<1>9. \A j \in Slot : j > n => frame[j] = Free
  BY <1>1, TopFacts DEF HInv, EInv
<1>10. frame[m] = Free
  BY <1>7, <1>9
<1>11. PICK p : p = Base(n)
  OBVIOUS
<1>12. Called(n) /\ Handles(n) /\ p \in Slot /\ p # n /\ p # m
  <2>1. Called(n)
    BY <1>2, <1>4 DEF Called
  <2>2. Handles(n) /\ p \in Slot /\ p # n /\ IsFunction(p)
    BY <1>11, <2>1, CalledFacts DEF HInv, EInv
  <2> QED
    BY <1>10, <2>1, <2>2 DEF IsFunction, Free
<1>13. Inside(n)
  <2>1. d.block # 0
    BY <1>2, <1>4, <1>12 DEF Handles
  <2>2. \A j \in Slot : n <= j /\ j <= n => j = n
    BY <1>7, Depth
  <2>3. ~Left(n)
    BY <1>2, <1>7, <1>9, <2>1, <2>2, NotLeft DEF HInv, EInv
  <2> QED
    BY <1>12, <2>3 DEF HInv, Handlers, HandlerShape
<1>14. HandlerShape(n)' /\ SameHandler(n)
  <2>1. frame'[p] = frame[p]
    BY <1>8, <1>12
  <2>2. Base(n)' = p
    BY <1>2, <1>5, <1>8, <1>11 DEF Base
  <2>3. Inside(n)'
    BY <1>2, <1>5, <1>8, <1>11, <1>13, <2>1, <2>2 DEF Inside, InsideOf
  <2> QED
    BY <1>2, <1>5, <1>8, <1>12, <2>3 DEF HandlerShape, SameHandler, Base
<1>15. ASSUME NEW k \in Slot PROVE Carries(k)
  <2>1. CASE k = n
    <3>1. ~IsFunction(n)
      BY <1>2, <1>4 DEF IsFunction
    <3> QED
      BY <1>1, <1>14, <2>1, <3>1 DEF Carries
  <2>2. CASE k = m
    <3>1. HandlerShape(m)' /\ NestedShape(m)'
      BY <1>5, <1>8, NothingHandled
    <3> QED
      BY <1>5, <1>8, <2>2, <3>1 DEF Carries
  <2>3. CASE k # n /\ k # m
    <3>1. Called(k) => frame'[Base(k)] = frame[Base(k)]
      <4>1. Called(k) => Base(k) \in Slot /\ IsFunction(Base(k))
        BY CalledFacts DEF HInv, EInv
      <4>2. ~IsFunction(n) /\ ~IsFunction(m)
        BY <1>2, <1>4, <1>10 DEF IsFunction, Free
      <4> QED
        BY <1>8, <4>1, <4>2
    <3>2. \A q \in Slot : Leaves(q, k) => Leaves(q, k)'
      BY <1>2, <1>4, <1>8, <1>10 DEF Leaves, Free
    <3>3. frame'[k] = frame[k]
      BY <1>8, <2>3
    <3> QED
      BY <3>1, <3>2, <3>3, UntouchedCarries DEF HInv, EInv
  <2> QED
    BY <2>1, <2>2, <2>3
<1> QED
  BY <1>15, CarriesHandlers DEF HInv, EInv

\* With a registration go those that have left its handler.
LEMMA PassHandlers ==
    ASSUME HInv, IInv', frame[top].kind = "throw", frame[top].pc # "visit", T.block = 0,
           NEW tf, PassRegistration(tf)
    PROVE  Handlers'
<1>1. PICK n \in Slot : n = top
  BY DEF HInv, EInv, IInv, TypeOK
<1>2. PICK d, r : d = frame[n] /\ r = d.reg
  OBVIOUS
<1>3. T = d /\ d.kind = "throw" /\ d.block = 0 /\ d \in RuntimeFrame /\ GapShape(n)
  BY <1>1, <1>2, TopDispatch DEF HInv, EInv, T
<1>4. r \in Slot /\ Catcher(r) /\ r < n /\ r \in Nat /\ n \in Nat
  <2>1. frame[n].kind = "throw" /\ frame[n].pc # "visit" /\ r = frame[n].reg
    BY <1>1, <1>2
  <2> QED
    BY <1>1, <2>1, Worked, Depth DEF HInv
<1>5. PICK x : x = [T EXCEPT !.reg = NextRegistration, !.next = 0, !.pc = "visit",
                             !.tf = tf, !.entry = -1, !.target = -1]
  OBVIOUS
<1>6. x.kind = "throw" /\ x.block = 0 /\ x.pc = "visit"
  BY <1>3, <1>5 DEF RuntimeFrame
<1>7. frame' = [k \in Slot |-> IF k = n THEN x ELSE IF r <= k /\ k < n THEN Free ELSE frame[k]]
  BY <1>1, <1>2, <1>3, <1>5 DEF PassRegistration
<1>8. ASSUME NEW q \in Slot
      PROVE  /\ q = n => frame'[q] = x
             /\ r <= q /\ q < n => frame'[q] = Free
             /\ q < r => frame'[q] = frame[q]
             /\ q > n => frame'[q] = Free /\ frame[q] = Free
             /\ q \in Nat
  <2>1. q \in Nat
    BY Depth
  <2>2. frame'[q] = IF q = n THEN x ELSE IF r <= q /\ q < n THEN Free ELSE frame[q]
    BY <1>7
  <2>3. q > n => frame[q] = Free
    BY <1>1, TopFacts DEF HInv, EInv
  <2> QED
    BY <1>4, <2>1, <2>2, <2>3
<1>9. ASSUME NEW k \in Slot, k < r, NEW q \in Slot, Leaves(q, k) PROVE q < r
  <2>1. frame[q].kind = "throw" /\ frame[q].reg = k
    BY <1>9 DEF Leaves
  <2>2. k \in Nat /\ q \in Nat /\ k # r
    BY <1>4, <1>9, Depth
  <2>3. q # n
    BY <1>2, <2>1, <2>2
  <2>4. q # r
    BY <1>4, <2>1 DEF Catcher, IsFunction
  <2>5. ~(q > n)
    BY <1>8, <2>1 DEF Free
  <2>6. SUFFICES ASSUME r < q, q < n PROVE FALSE
    BY <1>4, <2>2, <2>3, <2>4, <2>5
  <2>7. \A j \in Slot : Body(r) < j /\ j < n => frame[j] = Free \/ Abandons(j, r)
    BY <1>2, <1>3, <1>4 DEF GapShape
  <2>8. CASE Body(r) < q
    <3>1. frame[q] = Free \/ Abandons(q, r)
      BY <2>6, <2>7, <2>8
    <3> QED
      BY <2>1, <2>2, <3>1 DEF Free, Abandons
  <2>9. CASE ~(Body(r) < q)
    <3>1. frame[r].kind = "catch" /\ Body(r) = r + 1 /\ frame[r + 1].kind = "funclet"
      <4>1. ~IsFunction(r)
        BY <2>6, <2>9 DEF Body
      <4>2. frame[r].kind = "catch"
        BY <1>4, <4>1 DEF Catcher
      <4> QED
        BY <1>4, <4>1, <4>2, UnderCatcher DEF Body, HInv, EInv
    <3>2. q = r + 1
      BY <1>4, <2>2, <2>6, <2>9, <3>1
    <3> QED
      BY <2>1, <3>1, <3>2
  <2> QED
    BY <2>8, <2>9
<1>10. ASSUME NEW k \in Slot PROVE Carries(k)
  <2>1. CASE k < r
    <3>1. frame'[k] = frame[k]
      BY <1>8, <2>1
    <3>2. Called(k) => frame'[Base(k)] = frame[Base(k)]
      <4>1. SUFFICES ASSUME Called(k) PROVE Base(k) \in Slot /\ Base(k) < r
        BY <1>8
      <4>2. PICK b : b = Base(k)
        OBVIOUS
      <4>3. b \in Slot /\ b < k
        BY <4>1, <4>2, CalledFacts DEF HInv, EInv
      <4> QED
        BY <1>4, <2>1, <4>2, <4>3, Depth
    <3>3. \A q \in Slot : Leaves(q, k) => Leaves(q, k)'
      <4>1. SUFFICES ASSUME NEW q \in Slot, Leaves(q, k) PROVE Leaves(q, k)'
        OBVIOUS
      <4>2. q < r
        BY <1>9, <2>1, <4>1
      <4>3. frame'[q] = frame[q]
        BY <1>8, <4>2
      <4> QED
        BY <4>1, <4>3 DEF Leaves
    <3> QED
      BY <3>1, <3>2, <3>3, UntouchedCarries DEF HInv, EInv
  <2>2. CASE k = n
    <3>1. HandlerShape(n)' /\ NestedShape(n)'
      BY <1>6, <1>8, NothingHandled
    <3> QED
      BY <1>6, <1>8, <2>2, <3>1 DEF Carries
  <2>3. CASE ~(k < r) /\ k # n
    <3>1. frame'[k] = Free
      BY <1>4, <1>8, <2>3
    <3>2. HandlerShape(k)' /\ NestedShape(k)'
      BY <3>1, NothingHandled DEF Free
    <3> QED
      BY <3>1, <3>2 DEF Carries, Free
  <2> QED
    BY <2>1, <2>2, <2>3
<1> QED
  BY <1>10, CarriesHandlers DEF HInv, EInv

LEMMA PassRegistrationHandlers ==
    ASSUME HInv, IInv', PassFunction \/ TakeFromCatchFrame \/ PassCatchFrame
    PROVE  Handlers'
<1>1. PICK n \in Slot : n = top
  BY DEF HInv, EInv, IInv, TypeOK
<1>2. PICK d : d = frame[n]
  OBVIOUS
<1>3. PICK tf : PassRegistration(tf)
  BY DEF PassFunction, TakeFromCatchFrame, PassCatchFrame
<1>4. d.kind = "throw" /\ d.pc \in {"unwind", "abandon"} /\ T = d
  BY <1>1, <1>2 DEF PassFunction, TakeFromCatchFrame, PassCatchFrame, NothingHere, Unwound, Dispatching, T
<1>5. ThrowOf(d, n)
  BY <1>1, <1>2, <1>4, TopDispatch DEF HInv, EInv
<1>6. T.block = 0
  BY <1>4, <1>5 DEF PassFunction, TakeFromCatchFrame, PassCatchFrame, NothingHere, Dispatching, ThrowOf, T
<1> QED
  BY <1>1, <1>2, <1>3, <1>4, <1>6, PassHandlers


----------------------------------------------------------------------------
(* The search for a handler keeps to the handler in progress.              *)

\* A try statement around a state inside a handler, which does not begin
\* before the handler's own, is inside the handler.
LEMMA Encloses ==
    ASSUME NEW f \in Fns, NEW b \in Blocks(f), NEW i \in Blocks(f), NEW s \in States(f),
           HandlerState(f, b) \in Chain(f, s), InTry(f, i, s),
           Block(f, b).try_low <= Block(f, i).try_low
    PROVE  HandlerState(f, b) \in Chain(f, Around(f, i))
<1>1. PICK h, low : h = HandlerState(f, b) /\ low = Block(f, i).try_low
  OBVIOUS
<1>2. /\ Block(f, b).try_low \in Nat /\ Block(f, b).try_high \in Nat /\ Block(f, b).catch_high \in Nat
      /\ Block(f, b).try_low <= Block(f, b).try_high /\ Block(f, b).try_high < Block(f, b).catch_high
      /\ h = Block(f, b).try_high + 1
  BY <1>1, BlockFacts DEF HandlerState
<1>3. /\ low \in Nat /\ Block(f, i).try_high \in Nat /\ Block(f, i).catch_high \in Nat
      /\ low <= Block(f, i).try_high /\ Block(f, i).try_high < Block(f, i).catch_high
  BY <1>1, BlockFacts
<1>4. s \in Int /\ h \in Chain(f, s) /\ h <= s /\ low \in Chain(f, s) /\ low <= s /\ s <= Block(f, i).try_high
  <2>1. s \in Int
    BY EhAssumption DEF States
  <2>2. h \in Chain(f, s) /\ h <= s
    BY <1>1, ChainBelow
  <2>3. low \in Chain(f, s)
    BY <1>1, InTryIsChain
  <2> QED
    BY <1>1, <2>1, <2>2, <2>3 DEF InTry
<1>5. b < i
  <2>1. Len(Eh[f].try_blocks) \in Nat
    BY EhAssumption
  <2>2. i \in Int /\ b \in Int
    BY <2>1 DEF Blocks
  <2>3. i # b
    BY <1>2, <1>3, <1>4
  <2>4. SUFFICES ASSUME i < b PROVE FALSE
    BY <2>2, <2>3
  <2>5. \/ Block(f, i).catch_high < Block(f, b).try_low
        \/ Block(f, b).try_low < low /\ Block(f, i).catch_high <= Block(f, b).try_high
        \/ Block(f, i).try_high + 1 < Block(f, b).try_low
    BY <1>1, <2>4, BlockOrder
  <2> QED
    BY <1>2, <1>3, <1>4, <2>5
<1>6. h < low
  <2>1. \/ Block(f, b).catch_high < low
        \/ low < Block(f, b).try_low
        \/ Block(f, b).try_high + 1 < low
    BY <1>1, <1>5, BlockOrder
  <2> QED
    BY <1>1, <1>2, <1>3, <2>1
<1>7. h \in Chain(f, Eh[f].next[low])
  BY <1>4, <1>6, ChainLinear
<1> QED
  BY <1>1, <1>7 DEF Around

\* Handlers of the function the newest dispatch works on are those of the
\* registration it is at and of the ones below.
LEMMA UnderWorker ==
    ASSUME IInv, NEW n \in Slot, n = top, frame[n].kind = "throw", frame[n].pc # "visit",
           NEW r, r = frame[n].reg, NEW j \in Slot, j # n, Called(j), Base(j) = Primary(r)
    PROVE  /\ j <= r /\ frame[j].kind = "catch"
           /\ r \in Slot /\ frame[r].kind = "catch" /\ Base(r) = Primary(r) /\ Called(r)
<1>1. r \in Slot /\ Catcher(r) /\ Linked(n) /\ Before(n) = r
  BY TopDispatch DEF ThrowOf, Catcher
<1>2. j \in Registered
  <2>1. CASE frame[j].kind = "catch"
    BY <2>1 DEF Registered
  <2>2. CASE frame[j].kind = "throw" /\ frame[j].pc \in {"copy", "call"}
    <3>1. frame[j].pc = "copy"
      BY <2>2 DEF IInv, Shape, OthersWait
    <3> QED
      BY <2>2, <3>1 DEF Registered, HasBoundary
  <2> QED
    BY <2>1, <2>2 DEF Called
<1>3. PICK p : p = Base(j)
  OBVIOUS
<1>4. p \in Slot /\ p < j /\ j <= n
  BY <1>3, CalledFacts
<1>5. p \in Nat /\ j \in Nat /\ n \in Nat /\ r \in Nat
  BY <1>1, <1>4, Depth
<1>6. j <= r
  <2>1. ~(r < j /\ j < n)
    BY <1>1, <1>2 DEF Linked
  <2> QED
    BY <1>4, <1>5, <2>1
<1>7. frame[r].kind = "catch"
  <2>1. ~IsFunction(r)
    BY <1>3, <1>4, <1>5, <1>6 DEF Primary, IsFunction
  <2> QED
    BY <1>1, <2>1 DEF Catcher
<1>8. Base(r) = Primary(r) /\ Called(r)
  BY <1>7 DEF Base, Primary, Called
<1>9. frame[j].kind = "catch"
  <2>1. SUFFICES ASSUME frame[j].kind = "throw" PROVE FALSE
    BY DEF Called
  <2>2. j < r
    <3>1. j # r
      BY <1>7, <2>1
    <3> QED
      BY <1>5, <1>6, <3>1
  <2>3. j < Base(r)
    BY <1>1, <1>8, <2>1, <2>2, CalledFacts
  <2> QED
    BY <1>3, <1>4, <1>5, <1>8, <2>3
<1> QED
  BY <1>1, <1>6, <1>7, <1>8, <1>9

LEMMA SelectHandlerHandlers == ASSUME HInv, IInv', SelectHandler PROVE Handlers'
<1>1. PICK n \in Slot : n = top
  BY DEF HInv, EInv, IInv, TypeOK
<1>2. PICK d, r, f, p, s : d = frame[n] /\ r = d.reg /\ f = Fn(r) /\ p = Primary(r) /\ s = State(r)
  OBVIOUS
<1>3. Dispatching("search") /\ T = d /\ d \in RuntimeFrame /\ d.kind = "throw" /\ d.pc = "search"
  BY <1>1, <1>2, TopThrow DEF SelectHandler, HInv, EInv
<1>4. /\ r \in Slot /\ Catcher(r) /\ p \in Slot /\ p < n /\ IsFunction(p)
      /\ f \in Fns /\ f = frame[p].fn /\ s = frame[p].state /\ s \in States(f)
  <2>1. frame[n].kind = "throw" /\ frame[n].pc # "visit" /\ r = frame[n].reg
    BY <1>2, <1>3
  <2> QED
    BY <1>1, <1>2, <2>1, Worked DEF HInv
<1>5. PICK i, c :
        /\ i \in Blocks(Fn(T.reg)) /\ c \in DOMAIN Block(Fn(T.reg), i).handlers
        /\ Selects(T.reg, GetThrowInfo(T.tf), i, c)
        /\ frame' = [frame EXCEPT ![top] =
                [T EXCEPT !.pc = "unwind", !.block = i, !.clause = c,
                          !.target = CatcherTarget(Fn(T.reg), i),
                          !.tf.primary_frame_base = Primary(T.reg),
                          !.tf.unwound_state = Block(Fn(T.reg), i).try_low - 1]]
  BY DEF SelectHandler
<1>6. i \in Blocks(f) /\ InTry(f, i, s) /\ Block(f, i).try_low > UnwoundState(r)
  <2>1. i \in Blocks(f) /\ i \in Candidates(r)
    BY <1>2, <1>3, <1>5 DEF Selects, IsFirst
  <2>2. i \in 1..i
    <3>1. Len(Eh[f].try_blocks) \in Nat
      BY <1>4, EhAssumption
    <3> QED
      BY <2>1, <3>1 DEF Blocks
  <2> QED
    BY <1>2, <2>1, <2>2 DEF Candidates
<1> DEFINE tf == [d.tf EXCEPT !.primary_frame_base = p, !.unwound_state = Block(f, i).try_low - 1]
           x == [d EXCEPT !.pc = "unwind", !.block = i, !.clause = c, !.target = Block(f, i).try_low, !.tf = tf]
<1>7. x.kind = "throw" /\ x.pc = "unwind" /\ x.block = i /\ x.tf.primary_frame_base = p
  BY <1>3 DEF RuntimeFrame, ThrowFrame
<1>8. frame' = [frame EXCEPT ![n] = x]
  <2>1. d.tf \in ThrowFrame
    BY <1>3 DEF RuntimeFrame
  <2> QED
    BY <1>1, <1>2, <1>3, <1>5, <2>1 DEF RuntimeFrame, ThrowFrame, CatcherTarget
<1> HIDE DEF x
<1>9. frame'[n] = x /\ \A q \in Slot : q # n => frame'[q] = frame[q]
  BY <1>8 DEF HInv, EInv, IInv, TypeOK
<1>10. p # n
  BY <1>4, Depth
<1>11. ASSUME NEW j \in Slot, j < n, frame[j].kind = "catch", Base(j) = p
       PROVE  InsideOf(j, f, Around(f, i))
  <2>1. j # n /\ Called(j)
    BY <1>11, Depth DEF Called
  <2>2. /\ j <= r /\ frame[r].kind = "catch" /\ Base(r) = p /\ Called(r)
    <3>1. frame[n].kind = "throw" /\ frame[n].pc # "visit" /\ r = frame[n].reg
      BY <1>2, <1>3
    <3> QED
      BY <1>1, <1>2, <1>11, <2>1, <3>1, UnderWorker DEF HInv, EInv
  <2>3. PICK b : b = frame[r].block
    OBVIOUS
  <2>4. b \in Blocks(f) /\ Handles(r)
    BY <1>4, <2>2, <2>3, CalledFacts DEF HInv, EInv
  <2>5. Block(f, b).try_low <= Block(f, i).try_low
    <3>1. UnwoundState(r) = Block(f, b).try_low - 1
      <4>1. HandlingShape(r)
        BY <1>4, <2>4 DEF HInv, EInv, IInv, Shape, SlotShape
      <4>2. frame[r].tf.unwound_state = Block(f, b).try_low - 1
        BY <1>4, <2>2, <2>3, <4>1 DEF HandlingShape, HandlingOf, Base
      <4> QED
        BY <2>2, <4>2 DEF UnwoundState, IsFunction
    <3>2. Block(f, b).try_low \in Int /\ Block(f, i).try_low \in Int
      BY <1>4, <1>6, <2>4, BlockFacts
    <3> QED
      BY <1>6, <3>1, <3>2
  <2>6. HandlerState(f, b) \in Chain(f, s)
    <3>1. Inside(r) \/ Left(r)
      BY <1>4, <2>2 DEF HInv, Handlers, HandlerShape
    <3>2. ~Left(r)
      <4>1. SUFFICES ASSUME s = Around(f, b) PROVE FALSE
        BY <1>4, <2>2, <2>3 DEF Left
      <4>2. Around(f, b) < Block(f, b).try_low /\ Around(f, b) \in Int
        <5>1. Around(f, b) \in States(f)
          BY <1>4, <2>4, HandlerFacts DEF Around
        <5> QED
          BY <1>4, <2>4, <5>1, HandlerFacts, EhAssumption DEF Around, States
      <4>3. Block(f, i).try_low <= s
        BY <1>6 DEF InTry
      <4>4. Block(f, b).try_low \in Int /\ Block(f, i).try_low \in Int
        BY <1>4, <1>6, <2>4, BlockFacts
      <4> QED
        BY <2>5, <4>1, <4>2, <4>3, <4>4
    <3> QED
      BY <1>4, <2>2, <2>3, <3>1, <3>2 DEF Inside, InsideOf
  <2>7. HandlerState(f, b) \in Chain(f, Around(f, i))
    BY <1>4, <1>6, <2>4, <2>5, <2>6, Encloses
  <2>8. CASE j = r
    BY <2>3, <2>7, <2>8 DEF InsideOf
  <2>9. CASE j # r
    <3>1. j < r
      BY <1>4, <2>2, <2>9, Depth
    <3>2. InsideOf(j, f, Around(f, b))
      BY <1>4, <1>11, <2>2, <2>3, <2>4, <3>1 DEF HInv, Handlers, NestedShape
    <3>3. Around(f, i) \in States(f)
      BY <1>4, <1>6, HandlerFacts DEF Around
    <3>4. Chain(f, Around(f, b)) \subseteq Chain(f, Around(f, i))
      BY <1>4, <2>4, <2>7, <3>3, AroundIn
    <3> QED
      BY <3>2, <3>4 DEF InsideOf
  <2> QED
    BY <2>8, <2>9
<1>12. NestedShape(n)'
  <2>1. Base(n)' = p /\ frame'[n].block = i /\ frame'[p].fn = f
    BY <1>4, <1>7, <1>9, <1>10 DEF Base
  <2>2. ASSUME NEW j \in Slot, j < n, frame'[j].kind = "catch", Base(j)' = p
        PROVE  InsideOf(j, f, Around(f, i))'
    <3>1. frame'[j] = frame[j]
      <4>1. j # n
        BY <2>2, Depth
      <4> QED
        BY <1>9, <4>1
    <3>2. InsideOf(j, f, Around(f, i))
      BY <1>11, <2>2, <3>1 DEF Base
    <3> QED
      BY <3>1, <3>2 DEF InsideOf, Around
  <2> QED
    BY <2>1, <2>2 DEF NestedShape
<1>13. HandlerShape(n)'
  BY <1>7, <1>9 DEF HandlerShape, Called
<1>14. frame[n].kind = "throw" /\ frame[n].pc = "search"
  BY <1>2, <1>3
<1> QED
  BY <1>1, <1>7, <1>8, <1>12, <1>13, <1>14, TopHandlers


----------------------------------------------------------------------------
(* Steps that put a function in another state.                             *)

\* Frame k is called in a state of its handler still.
LEMMA InsideNow ==
    ASSUME NEW k \in Slot, Called(k), frame'[k] = frame[k], NEW p, p = Base(k), NEW f, NEW t,
           frame'[p].fn = f, frame'[p].state = t, InsideOf(k, f, t)
    PROVE  HandlerShape(k)'
<1>1. Base(k)' = p /\ InsideOf(k, f, t)'
  BY DEF Base, InsideOf
<1>2. Inside(k)'
  BY <1>1 DEF Inside, InsideOf
<1> QED
  BY <1>2 DEF HandlerShape

\* The code on top puts its function in a state that is as far inside of its
\* handler as it was.
LEMMA MoveHandlers ==
    ASSUME HInv, IInv', Running, NEW p, p = Primary(top), NEW f, f = Fn(top),
           NEW t \in States(f), frame' = [frame EXCEPT ![p].state = t],
           NEW h, h = HandlerState(f, Home(top)),
           frame[top].kind = "funclet" /\ h \in Chain(f, State(top)) => h \in Chain(f, t)
    PROVE  Handlers'
<1>1. PICK n \in Slot : n = top
  BY DEF HInv, EInv, IInv, TypeOK
<1>2. /\ p \in Slot /\ p <= n /\ IsFunction(p) /\ frame[p] \in FunctionFrame /\ frame[p].fn = f /\ f \in Fns
      /\ frame[p].state = State(n)
      /\ \A j \in Slot : p < j /\ j <= n => frame[j].kind \notin {"throw", "destroy"}
  BY <1>1, RunningOn DEF HInv, EInv
<1> DEFINE y == [frame[p] EXCEPT !.state = t]
<1>3. y.kind = "function" /\ y.fn = f /\ y.state = t
  BY <1>2 DEF IsFunction, FunctionFrame
<1>4. frame' = [frame EXCEPT ![p] = y]
  OBVIOUS
<1> HIDE DEF y
<1>5. frame'[p] = y /\ \A q \in Slot : q # p => frame'[q] = frame[q]
  BY <1>2, <1>4 DEF HInv, EInv, IInv, TypeOK
<1>6. ASSUME NEW k \in Slot, Called(k), Base(k) = p PROVE HandlerShape(k)'
  <2>1. p < k /\ k <= n /\ p # k
    BY <1>1, <1>6, CalledFacts DEF HInv, EInv
  <2>2. frame[k].kind = "catch"
    BY <1>2, <1>6, <2>1 DEF Called
  <2>3. frame[n].kind = "funclet"
    <3>1. ~IsFunction(n)
      <4>1. IsFunction(n) => p = n
        BY <1>1 DEF Primary, IsFunction
      <4> QED
        BY <2>1, <4>1, Depth
    <3> QED
      BY <1>1, <3>1 DEF Running, IsUser, IsFunction
  <2>4. PICK c \in Slot : c = n - 1 /\ frame[c].kind = "catch"
    BY <1>1, <2>3, TopFacts DEF HInv, EInv
  <2>5. Base(c) = p /\ frame[c].block = Home(n) /\ Called(c)
    <3>1. FuncletShape(n)
      BY <2>3 DEF HInv, EInv, IInv, Shape, SlotShape
    <3>2. Primary(n) = frame[n].primary /\ Home(n) = frame[n].block
      BY <2>3 DEF Primary, Home, IsFunction
    <3> QED
      BY <1>1, <2>4, <3>1, <3>2 DEF FuncletShape, Base, Called
  <2>6. k <= c
    <3>1. k # n
      BY <2>2, <2>3
    <3> QED
      BY <2>1, <2>4, <3>1, Depth
  <2>7. Home(n) \in Blocks(f) /\ Handles(c)
    BY <1>2, <2>5, CalledFacts DEF HInv, EInv
  <2>8. ~Left(c)
    <3>1. \A j \in Slot : j > n => frame[j] = Free
      BY <1>1, TopFacts DEF HInv, EInv
    <3>2. c \in Nat /\ n \in Nat /\ n >= c
      BY <2>4, Depth
    <3>3. \A j \in Slot : c <= j /\ j <= n => j = c \/ j = n
      BY <2>4, <3>2, Depth
    <3>4. \A j \in Slot : c <= j /\ j <= n => frame[j].kind # "throw" \/ frame[j].block # 0
      BY <2>3, <2>4, <3>3
    <3> QED
      BY <3>1, <3>2, <3>4, NotLeft DEF HInv, EInv
  <2>9. HandlerState(f, Home(n)) \in Chain(f, frame[p].state)
    <3>1. Inside(c)
      BY <2>5, <2>8 DEF HInv, Handlers, HandlerShape
    <3> QED
      BY <1>2, <2>5, <3>1 DEF Inside, InsideOf
  <2>10. HandlerState(f, Home(n)) \in Chain(f, t)
    BY <1>1, <1>2, <2>3, <2>9
  <2>11. InsideOf(k, f, t)
    <3>1. CASE k = c
      BY <2>5, <2>10, <3>1 DEF InsideOf
    <3>2. CASE k # c
      <4>1. k < c
        BY <2>6, <3>2, Depth
      <4>2. InsideOf(k, f, Around(f, Home(n)))
        BY <1>2, <1>6, <2>2, <2>5, <2>7, <4>1 DEF HInv, Handlers, NestedShape
      <4>3. Chain(f, Around(f, Home(n))) \subseteq Chain(f, t)
        BY <1>2, <2>7, <2>10, AroundIn
      <4> QED
        BY <4>2, <4>3 DEF InsideOf
    <3> QED
      BY <3>1, <3>2
  <2>12. frame'[k] = frame[k] /\ frame'[p].fn = f /\ frame'[p].state = t
    BY <1>3, <1>5, <2>1
  <2> QED
    BY <1>6, <2>11, <2>12, InsideNow
<1>7. \A q, k \in Slot : Leaves(q, k) => Leaves(q, k)'
  BY <1>2, <1>5 DEF Leaves, IsFunction
<1>8. ASSUME NEW k \in Slot PROVE Carries(k)
  <2>1. CASE k = p
    <3>1. frame'[p].kind = "function"
      BY <1>3, <1>5
    <3>2. HandlerShape(p)' /\ NestedShape(p)'
      BY <3>1, NothingHandled
    <3> QED
      BY <1>2, <1>3, <1>5, <2>1, <3>1, <3>2 DEF Carries
  <2>2. CASE k # p /\ Called(k) /\ Base(k) = p
    <3>1. frame'[k] = frame[k]
      BY <1>5, <2>2
    <3>2. HandlerShape(k)' /\ SameHandler(k)
      BY <1>6, <2>2, <3>1, CalledFacts DEF HInv, EInv, SameHandler, Base
    <3> QED
      BY <3>1, <3>2 DEF Carries
  <2>3. CASE k # p /\ (Called(k) => Base(k) # p)
    <3>1. Called(k) => frame'[Base(k)] = frame[Base(k)]
      <4>1. Called(k) => Base(k) \in Slot
        BY CalledFacts DEF HInv, EInv
      <4> QED
        BY <1>5, <2>3, <4>1
    <3>2. frame'[k] = frame[k]
      BY <1>5, <2>3
    <3> QED
      BY <1>7, <3>1, <3>2, UntouchedCarries DEF HInv, EInv
  <2> QED
    BY <2>1, <2>2, <2>3
<1> QED
  BY <1>8, CarriesHandlers DEF HInv, EInv

LEMMA EnterHandlers == ASSUME HInv, IInv', NEW s, Enter(s) PROVE Handlers'
<1>1. PICK p, f, h : p = Primary(top) /\ f = Fn(top) /\ h = HandlerState(f, Home(top))
  OBVIOUS
<1>2. Running /\ f \in Fns
  BY <1>1, RunningOn DEF Enter, HInv, EInv
<1>3. s \in 0..Eh[f].last /\ s \in States(f) /\ Eh[f].next[s] = State(top) /\ frame' = [frame EXCEPT ![p].state = s]
  <2>1. s \in 0..Eh[f].last /\ Eh[f].next[s] = State(top) /\ frame' = [frame EXCEPT ![p].state = s]
    BY <1>1 DEF Enter
  <2> QED
    BY <1>2, <2>1, EhAssumption DEF States
<1>4. h \in Chain(f, State(top)) => h \in Chain(f, s)
  BY <1>2, <1>3, ChainStep
<1> QED
  BY <1>1, <1>2, <1>3, <1>4, MoveHandlers

LEMMA LeaveHandlers == ASSUME HInv, IInv', Leave PROVE Handlers'
<1>1. PICK p, f, h, s : p = Primary(top) /\ f = Fn(top) /\ h = HandlerState(f, Home(top)) /\ s = State(top)
  OBVIOUS
<1>2. Running /\ f \in Fns /\ s \in States(f)
  BY <1>1, RunningOn DEF Leave, HInv, EInv
<1>3. s \in 0..Eh[f].last
  <2>1. s # -1
    BY <1>1 DEF Leave
  <2> QED
    BY <1>2, <2>1, EhAssumption DEF States
<1>4. PICK t : t = Eh[f].next[s]
  OBVIOUS
<1>5. t \in States(f) /\ frame' = [frame EXCEPT ![p].state = t]
  <2>1. t \in States(f)
    BY <1>2, <1>3, <1>4, StateFacts
  <2> QED
    BY <1>1, <1>4, <2>1 DEF Leave
<1>6. frame[top].kind = "funclet" /\ h \in Chain(f, s) => h \in Chain(f, t)
  <2>1. frame[top].kind = "funclet" => s # h
    BY <1>1 DEF Leave, InHandlerState, IsFunction
  <2> QED
    BY <1>2, <1>3, <1>4, <2>1, ChainStep
<1> QED
  BY <1>1, <1>2, <1>5, <1>6, MoveHandlers

\* The newest runtime frame puts the function in slot p in another state.
LEMMA WorkHandlers ==
    ASSUME HInv, IInv', NEW n \in Slot, n = top, IsRuntime(n), NEW p \in Slot, p < n, IsFunction(p),
           NEW x, x.kind \notin {"function", "catch"}, NEW y, y.kind = "function", y.fn = frame[p].fn,
           frame' = [frame EXCEPT ![p] = y, ![n] = x],
           NEW r, Leaves(n, r) => x.kind = "throw" /\ x.reg = r /\ x.block = 0 /\ x.pc \in {"unwind", "cleanup"},
           frame[n].kind = "throw" => r = frame[n].reg,
           HandlerShape(n)', SameHandler(n) \/ NestedShape(n)',
           NEW open, open = {k \in Slot : k # n /\ Called(k) /\ Base(k) = p /\ ~(HandlerShape(k)')}, open = {}
    PROVE  Handlers'
<1>1. p # n
  BY Depth
<1>2. frame'[n] = x /\ frame'[p] = y /\ \A q \in Slot : q # n /\ q # p => frame'[q] = frame[q]
  BY <1>1 DEF HInv, EInv, IInv, TypeOK
<1>3. ASSUME NEW k \in Slot, NEW q \in Slot, Leaves(q, k) PROVE Leaves(q, k)'
  <2>1. q # p
    BY <1>3 DEF Leaves, IsFunction
  <2>2. CASE q = n
    <3>1. k = r
      BY <1>3, <2>2 DEF Leaves
    <3> QED
      BY <1>2, <1>3, <2>2, <3>1 DEF Leaves
  <2>3. CASE q # n
    BY <1>2, <1>3, <2>1, <2>3 DEF Leaves
  <2> QED
    BY <2>2, <2>3
<1>4. ASSUME NEW k \in Slot PROVE Carries(k)
  <2>1. CASE k = p
    <3>1. HandlerShape(p)' /\ NestedShape(p)'
      BY <1>2, NothingHandled
    <3> QED
      BY <1>2, <2>1, <3>1 DEF Carries
  <2>2. CASE k = n
    BY <1>2, <2>2 DEF Carries
  <2>3. CASE k # p /\ k # n /\ Called(k) /\ Base(k) = p
    <3>1. frame'[k] = frame[k]
      BY <1>2, <2>3
    <3>2. HandlerShape(k)' /\ SameHandler(k)
      BY <2>3, <3>1, CalledFacts DEF HInv, EInv, SameHandler, Base
    <3> QED
      BY <3>1, <3>2 DEF Carries
  <2>4. CASE k # p /\ k # n /\ (Called(k) => Base(k) # p)
    <3>1. Called(k) => frame'[Base(k)] = frame[Base(k)]
      <4>1. Called(k) => Base(k) \in Slot /\ IsFunction(Base(k))
        BY CalledFacts DEF HInv, EInv
      <4>2. ~IsFunction(n)
        BY DEF IsFunction, IsRuntime
      <4> QED
        BY <1>2, <2>4, <4>1, <4>2
    <3>2. frame'[k] = frame[k]
      BY <1>2, <2>4
    <3> QED
      BY <1>3, <3>1, <3>2, UntouchedCarries DEF HInv, EInv
  <2> QED
    BY <2>1, <2>2, <2>3, <2>4
<1> QED
  BY <1>4, CarriesHandlers DEF HInv, EInv

\* The walk stays inside of the handler in progress, or ends around its try.
LEMMA UnwindEdgeHandlers == ASSUME HInv, IInv', UnwindEdge PROVE Handlers'
<1>1. PICK n \in Slot : n = top
  BY DEF HInv, EInv, IInv, TypeOK
<1>2. PICK d, r, p, f, s :
        d = frame[n] /\ r = d.reg /\ p = Primary(r) /\ f = Fn(r) /\ s = State(r)
  OBVIOUS
<1>3. d.kind = "throw" /\ d.pc = "unwind" /\ T = d /\ s > d.target /\ d \in RuntimeFrame /\ IsRuntime(n)
  BY <1>1, <1>2, TopThrow DEF UnwindEdge, HInv, EInv
<1>4. /\ r \in Slot /\ Catcher(r) /\ p \in Slot /\ p < n /\ IsFunction(p) /\ frame[p] \in FunctionFrame
      /\ f \in Fns /\ f = frame[p].fn /\ s = frame[p].state /\ s \in States(f)
      /\ Unwinds(n) => d.tf.primary_frame_base = p /\ d.block \in Blocks(f) /\ Target(d, frame[p])
  <2>1. frame[n].kind = "throw" /\ frame[n].pc # "visit" /\ r = frame[n].reg
    BY <1>2, <1>3
  <2> QED
    BY <1>1, <1>2, <2>1, Worked DEF HInv
<1>5. /\ d.target >= -1 /\ d.target \in Int
      /\ d.block = 0 => d.target = UnwoundState(r)
  BY <1>1, <1>2, <1>3, TopDispatch DEF HInv, EInv, ThrowOf, RuntimeFrame
<1>6. s \in 0..Eh[f].last /\ s \in Int
  <2>1. Eh[f].last \in Int
    BY <1>4, EhAssumption
  <2> QED
    BY <1>3, <1>4, <1>5, <2>1 DEF States
<1>7. PICK t, pc : t = Eh[f].next[s] /\ pc = IF s \in Eh[f].cleanup THEN "cleanup" ELSE "unwind"
  OBVIOUS
<1>8. t \in States(f) /\ Chain(f, s) = {s} \cup Chain(f, t)
  BY <1>4, <1>6, <1>7, StateFacts, ChainStep
<1> DEFINE x == [d EXCEPT !.pc = pc]
           y == [frame[p] EXCEPT !.state = t]
<1>9. x.kind = "throw" /\ x.block = d.block /\ x.tf = d.tf /\ x.reg = r /\ x.pc \in {"unwind", "cleanup"}
  BY <1>2, <1>3, <1>7 DEF RuntimeFrame
<1>10. y.kind = "function" /\ y.fn = f /\ y.state = t
  BY <1>4 DEF FunctionFrame
<1>11. p # n
  BY <1>4, Depth
<1>12. frame' = [frame EXCEPT ![p] = y, ![n] = x]
  <2>1. frame' = [frame EXCEPT ![p].state = t, ![n].pc = pc]
    BY <1>1, <1>2, <1>3, <1>7 DEF UnwindEdge
  <2> QED
    BY <1>2, <1>11, <2>1
<1> HIDE DEF x, y
<1>13. frame'[n] = x /\ frame'[p] = y /\ \A q \in Slot : q # n /\ q # p => frame'[q] = frame[q]
  BY <1>4, <1>11, <1>12 DEF HInv, EInv, IInv, TypeOK
<1>14. ASSUME NEW k \in Slot, k # n, Called(k), Base(k) = p PROVE HandlerShape(k)'
  <2>1. k <= r /\ frame[k].kind = "catch" /\ frame[r].kind = "catch" /\ Base(r) = p /\ Called(r)
    <3>1. frame[n].kind = "throw" /\ frame[n].pc # "visit" /\ r = frame[n].reg
      BY <1>2, <1>3
    <3> QED
      BY <1>1, <1>2, <1>14, <3>1, UnderWorker DEF HInv, EInv
  <2>2. frame'[k] = frame[k] /\ frame'[r] = frame[r] /\ frame'[p].fn = f /\ frame'[p].state = t
    <3>1. k # p /\ r # p /\ r # n
      BY <1>2, <1>3, <1>4, <2>1 DEF IsFunction
    <3> QED
      BY <1>4, <1>10, <1>13, <1>14, <3>1
  <2>3. k < n
    BY <1>1, <1>14, CalledFacts, Depth DEF HInv, EInv
  <2>4. CASE d.block # 0
    <3>1. d.block \in Blocks(f) /\ d.tf.primary_frame_base = p /\ Target(d, frame[p])
      BY <1>2, <1>3, <1>4, <2>4 DEF Unwinds
    <3>2. PICK low : low = Block(f, d.block).try_low
      OBVIOUS
    <3>3. low \in Chain(f, t)
      <4>1. d.target = low /\ low \in Chain(f, s)
        BY <1>4, <3>1, <3>2 DEF Target
      <4>2. low # s
        BY <1>3, <1>6, <4>1
      <4> QED
        BY <1>8, <4>1, <4>2
    <3>4. Chain(f, Around(f, d.block)) \subseteq Chain(f, t)
      BY <1>4, <1>8, <3>2, <3>3, ChainPart DEF Around
    <3>5. InsideOf(k, f, Around(f, d.block))
      <4>1. Handles(n) /\ Base(n) = p /\ NestedShape(n)
        BY <1>2, <1>3, <2>4, <3>1 DEF Handles, Base, HInv, Handlers
      <4> QED
        BY <1>2, <1>4, <1>14, <2>1, <2>3, <4>1 DEF NestedShape
    <3>6. InsideOf(k, f, t)
      BY <3>4, <3>5 DEF InsideOf
    <3> QED
      BY <1>14, <2>2, <3>6, InsideNow
  <2>5. CASE d.block = 0
    <3>1. PICK b : b = frame[r].block
      OBVIOUS
    <3>2. b \in Blocks(f) /\ Handles(r)
      BY <1>4, <2>1, <3>1, CalledFacts DEF HInv, EInv
    <3>3. d.target = Block(f, b).try_low - 1 /\ Block(f, b).try_low \in Int
      <4>1. HandlingShape(r)
        BY <1>4, <3>2 DEF HInv, EInv, IInv, Shape, SlotShape
      <4>2. frame[r].tf.unwound_state = Block(f, b).try_low - 1
        BY <1>4, <2>1, <3>1, <4>1 DEF HandlingShape, HandlingOf, Base
      <4> QED
        BY <1>4, <1>5, <2>1, <2>5, <3>2, <4>2, BlockFacts DEF UnwoundState, IsFunction
    <3>4. PICK h : h = HandlerState(f, b)
      OBVIOUS
    <3>5. h \in Chain(f, s)
      <4>1. Inside(r) \/ Left(r)
        BY <1>4, <2>1 DEF HInv, Handlers, HandlerShape
      <4>2. ~Left(r)
        <5>1. SUFFICES ASSUME s = Around(f, b) PROVE FALSE
          BY <1>4, <2>1, <3>1 DEF Left
        <5>2. Around(f, b) < Block(f, b).try_low
          BY <1>4, <3>2, HandlerFacts DEF Around
        <5> QED
          BY <1>3, <1>6, <3>3, <5>1, <5>2
      <4> QED
        BY <1>4, <2>1, <3>1, <3>4, <4>1, <4>2 DEF Inside, InsideOf
    <3>6. h \in Chain(f, t) \/ t = Around(f, b)
      <4>1. CASE s = h
        BY <1>4, <1>7, <3>2, <3>4, <4>1, HandlerFacts DEF Around
      <4>2. CASE s # h
        BY <1>8, <3>5, <4>2
      <4> QED
        BY <4>1, <4>2
    <3>7. CASE k = r
      <4>1. CASE h \in Chain(f, t)
        <5>1. InsideOf(k, f, t)
          BY <3>1, <3>4, <3>7, <4>1 DEF InsideOf
        <5> QED
          BY <1>14, <2>2, <5>1, InsideNow
      <4>2. CASE t = Around(f, b)
        <5>1. Leaves(n, k)'
          BY <1>9, <1>13, <2>5, <3>7 DEF Leaves
        <5>2. Base(k)' = p /\ frame'[k].block = b
          BY <1>14, <2>2, <3>1, <3>7 DEF Base
        <5>3. Left(k)'
          BY <2>2, <4>2, <5>1, <5>2 DEF Left, Around
        <5> QED
          BY <5>3 DEF HandlerShape
      <4> QED
        BY <3>6, <4>1, <4>2
    <3>8. CASE k # r
      <4>1. k < r
        BY <1>4, <2>1, <3>8, Depth
      <4>2. InsideOf(k, f, Around(f, b))
        BY <1>4, <1>14, <2>1, <3>1, <3>2, <4>1 DEF HInv, Handlers, NestedShape
      <4>3. Chain(f, Around(f, b)) \subseteq Chain(f, t)
        BY <1>4, <1>8, <3>2, <3>4, <3>6, AroundIn
      <4>4. InsideOf(k, f, t)
        BY <4>2, <4>3 DEF InsideOf
      <4> QED
        BY <1>14, <2>2, <4>4, InsideNow
    <3> QED
      BY <3>7, <3>8
  <2> QED
    BY <2>4, <2>5
<1>15. PICK open : open = {k \in Slot : k # n /\ Called(k) /\ Base(k) = p /\ ~(HandlerShape(k)')}
  OBVIOUS
<1>16. open = {}
  BY <1>14, <1>15
<1>17. HandlerShape(n)'
  BY <1>9, <1>13 DEF HandlerShape, Called
<1>18. SameHandler(n) \/ NestedShape(n)'
  <2>1. CASE d.block = 0
    BY <1>9, <1>13, <2>1 DEF NestedShape, Handles
  <2>2. CASE d.block # 0
    BY <1>2, <1>3, <1>9, <1>13, <2>2 DEF SameHandler, Handles, Base
  <2> QED
    BY <2>1, <2>2
<1>19. Leaves(n, r) => x.kind = "throw" /\ x.reg = r /\ x.block = 0 /\ x.pc \in {"unwind", "cleanup"}
  BY <1>2, <1>9 DEF Leaves
<1>20. y.fn = frame[p].fn /\ x.kind \notin {"function", "catch"} /\ (frame[n].kind = "throw" => r = frame[n].reg)
  BY <1>2, <1>4, <1>9, <1>10
<1> QED
  BY <1>1, <1>3, <1>4, <1>10, <1>12, <1>15, <1>16, <1>17, <1>18, <1>19, <1>20, WorkHandlers

\* The handler a catcher enters is inside of those in progress.
LEMMA BindHandlers == ASSUME HInv, IInv', BindCatchVariable PROVE Handlers'
<1>1. PICK n \in Slot : n = top
  BY DEF HInv, EInv, IInv, TypeOK
<1>2. PICK d, r, p, f, i :
        d = frame[n] /\ r = d.reg /\ p = Primary(r) /\ f = Fn(r) /\ i = d.block
  OBVIOUS
<1>3. d.kind = "throw" /\ d.pc = "unwind" /\ T = d /\ i # 0 /\ d \in RuntimeFrame /\ IsRuntime(n)
  BY <1>1, <1>2, TopThrow DEF BindCatchVariable, Unwound, HInv, EInv
<1>4. /\ r \in Slot /\ p \in Slot /\ p < n /\ IsFunction(p) /\ frame[p] \in FunctionFrame
      /\ f \in Fns /\ f = frame[p].fn
      /\ Unwinds(n) => d.tf.primary_frame_base = p /\ d.block \in Blocks(f) /\ Target(d, frame[p])
  <2>1. frame[n].kind = "throw" /\ frame[n].pc # "visit" /\ r = frame[n].reg
    BY <1>2, <1>3
  <2> QED
    BY <1>1, <1>2, <2>1, Worked DEF HInv
<1>5. i \in Blocks(f) /\ Base(n) = p /\ Handles(n)
  BY <1>2, <1>3, <1>4 DEF Unwinds, Base, Handles
<1>6. PICK h : h = HandlerState(f, i)
  OBVIOUS
<1>7. h \in Chain(f, h) /\ h \in States(f) /\ Chain(f, Around(f, i)) \subseteq Chain(f, h)
  <2>1. h \in 0..Eh[f].last /\ h \in States(f)
    BY <1>4, <1>5, <1>6, HandlerFacts
  <2>2. h \in Chain(f, h)
    BY <1>4, <2>1, ChainStep
  <2> QED
    BY <1>4, <1>5, <1>6, <2>1, <2>2, AroundIn
<1>8. PICK copies : copies = CopiesFor(Block(Fn(T.reg), T.block).handlers[T.clause], GetThrowInfo(T.tf))
  OBVIOUS
<1>9. PICK pc : pc = IF copies THEN "copy" ELSE "call"
  OBVIOUS
<1> DEFINE x == [d EXCEPT !.pc = pc]
           y == [frame[p] EXCEPT !.state = h]
<1>10. x.kind = "throw" /\ x.pc \in {"copy", "call"} /\ x.block = i /\ x.tf = d.tf
  BY <1>2, <1>3, <1>9 DEF RuntimeFrame
<1>11. y.kind = "function" /\ y.fn = f /\ y.state = h
  BY <1>4 DEF FunctionFrame
<1>12. p # n
  BY <1>4, Depth
<1>13. frame' = [frame EXCEPT ![p] = y, ![n] = x]
  <2>1. frame' = [frame EXCEPT ![p].state = h, ![n].pc = pc]
    BY <1>1, <1>2, <1>3, <1>6, <1>8, <1>9 DEF BindCatchVariable
  <2> QED
    BY <1>2, <1>12, <2>1
<1> HIDE DEF x, y
<1>14. frame'[n] = x /\ frame'[p] = y /\ \A q \in Slot : q # n /\ q # p => frame'[q] = frame[q]
  BY <1>4, <1>12, <1>13 DEF HInv, EInv, IInv, TypeOK
<1>15. ASSUME NEW k \in Slot, k # n, Called(k), Base(k) = p PROVE HandlerShape(k)'
  <2>1. frame[k].kind = "catch"
    <3>1. frame[n].kind = "throw" /\ frame[n].pc # "visit" /\ r = frame[n].reg
      BY <1>2, <1>3
    <3> QED
      BY <1>1, <1>2, <1>15, <3>1, UnderWorker DEF HInv, EInv
  <2>2. frame'[k] = frame[k] /\ frame'[p].fn = f /\ frame'[p].state = h
    BY <1>4, <1>11, <1>14, <1>15, <2>1 DEF IsFunction
  <2>3. k < n
    BY <1>1, <1>15, CalledFacts, Depth DEF HInv, EInv
  <2>4. InsideOf(k, f, Around(f, i))
    BY <1>2, <1>4, <1>5, <1>15, <2>1, <2>3 DEF HInv, Handlers, NestedShape
  <2>5. InsideOf(k, f, h)
    BY <1>7, <2>4 DEF InsideOf
  <2> QED
    BY <1>15, <2>2, <2>5, InsideNow
<1>16. PICK open : open = {k \in Slot : k # n /\ Called(k) /\ Base(k) = p /\ ~(HandlerShape(k)')}
  OBVIOUS
<1>17. open = {}
  BY <1>15, <1>16
<1>18. HandlerShape(n)'
  <2>1. Base(n)' = p /\ frame'[n].block = i
    BY <1>2, <1>5, <1>10, <1>14 DEF Base
  <2>2. Inside(n)'
    BY <1>6, <1>7, <1>11, <1>14, <2>1 DEF Inside, InsideOf
  <2> QED
    BY <2>2 DEF HandlerShape
<1>19. SameHandler(n)
  BY <1>2, <1>5, <1>10, <1>14 DEF SameHandler, Base
<1>20. ~Leaves(n, r)
  BY <1>2, <1>3 DEF Leaves
<1>21. y.fn = frame[p].fn /\ x.kind \notin {"function", "catch"} /\ (frame[n].kind = "throw" => r = frame[n].reg)
  BY <1>2, <1>4, <1>10, <1>11
<1> QED
  BY <1>1, <1>3, <1>4, <1>11, <1>13, <1>16, <1>17, <1>18, <1>19, <1>20, <1>21, WorkHandlers

LEMMA ContinueHandlers == ASSUME HInv, IInv', ContinueAfterException PROVE Handlers'
<1>1. PICK n \in Slot : n = top
  BY DEF HInv, EInv, IInv, TypeOK
<1>2. PICK d, p, f, i : d = frame[n] /\ p = Base(n) /\ f = frame[p].fn /\ i = d.block
  OBVIOUS
<1>3. d.kind = "destroy" /\ T = d /\ IsRuntime(n) /\ Handles(n)
  BY <1>1, <1>2 DEF ContinueAfterException, T, IsRuntime, Handles
<1>4. /\ p \in Slot /\ p < n /\ IsFunction(p) /\ i \in Blocks(f)
      /\ \A q \in Slot : q < n /\ frame[q].kind \in {"throw", "destroy"} => q < p
  <2>1. HandlingOf(d, n)
    BY <1>2, <1>3 DEF HInv, EInv, IInv, Shape, SlotShape, HandlingShape
  <2> QED
    BY <1>2, <2>1 DEF HandlingOf, Base
<1>5. f \in Fns /\ frame[p] \in FunctionFrame
  BY <1>2, <1>4, Kinds DEF HInv, EInv, IInv, FunctionFrame
<1> DEFINE y == [frame[p] EXCEPT !.state = Around(f, i)]
<1>6. y.kind = "function" /\ y.fn = f /\ y.state = Around(f, i)
  BY <1>2, <1>4, <1>5 DEF FunctionFrame
<1>7. p # n
  BY <1>4, Depth
<1>8. frame' = [frame EXCEPT ![p] = y, ![n] = Free]
  <2>1. frame' = [frame EXCEPT ![n] = Free, ![p].state = Eh[frame[p].fn].next[Block(frame[p].fn, T.block).try_low]]
    BY <1>1, <1>2, <1>3 DEF ContinueAfterException, Base
  <2>2. frame' = [frame EXCEPT ![n] = Free, ![p].state = Around(f, i)]
    BY <1>2, <1>3, <2>1 DEF Around
  <2> QED
    BY <1>7, <2>2
<1> HIDE DEF y
<1>9. frame'[n] = Free /\ frame'[p] = y /\ \A q \in Slot : q # n /\ q # p => frame'[q] = frame[q]
  BY <1>4, <1>7, <1>8 DEF HInv, EInv, IInv, TypeOK
<1>10. ASSUME NEW k \in Slot, k # n, Called(k), Base(k) = p PROVE HandlerShape(k)'
  <2>1. p < k /\ k < n
    BY <1>1, <1>10, CalledFacts, Depth DEF HInv, EInv
  <2>2. frame[k].kind = "catch"
    <3>1. ~(k < p)
      BY <1>4, <2>1, Depth
    <3> QED
      BY <1>4, <1>10, <2>1, <3>1 DEF Called
  <2>3. frame'[k] = frame[k] /\ frame'[p].fn = f /\ frame'[p].state = Around(f, i)
    BY <1>4, <1>6, <1>9, <1>10, <2>2 DEF IsFunction
  <2>4. InsideOf(k, f, Around(f, i))
    BY <1>2, <1>3, <1>10, <2>1, <2>2 DEF HInv, Handlers, NestedShape
  <2> QED
    BY <1>10, <2>3, <2>4, InsideNow
<1>11. PICK open : open = {k \in Slot : k # n /\ Called(k) /\ Base(k) = p /\ ~(HandlerShape(k)')}
  OBVIOUS
<1>12. open = {}
  BY <1>10, <1>11
<1>13. HandlerShape(n)' /\ NestedShape(n)'
  BY <1>9, NothingHandled DEF Free
<1>14. \A r : ~Leaves(n, r)
  BY <1>2, <1>3 DEF Leaves
<1>15. y.fn = frame[p].fn /\ Free.kind \notin {"function", "catch"} /\ frame[n].kind # "throw"
  BY <1>2, <1>3, <1>6 DEF Free
<1> QED
  BY <1>1, <1>3, <1>4, <1>6, <1>8, <1>11, <1>12, <1>13, <1>14, <1>15, WorkHandlers


LEMMA HandlersStill == ASSUME Handlers, UNCHANGED frame PROVE Handlers'
<1>1. ASSUME NEW k \in Slot PROVE HandlerShape(k)' <=> HandlerShape(k)
  BY DEF HandlerShape, Called, Inside, Left, Leaves, InsideOf, Base
<1>2. ASSUME NEW k \in Slot PROVE NestedShape(k)' <=> NestedShape(k)
  BY DEF NestedShape, Handles, InsideOf, Around, Base
<1> QED
  BY <1>1, <1>2 DEF Handlers

LEMMA InitHandlers == Init => Handlers
<1> SUFFICES ASSUME Init, NEW k \in Slot PROVE HandlerShape(k) /\ NestedShape(k)
  BY DEF Handlers
<1>1. frame[k].kind \in {"function", "free"}
  BY DEF Init, Free
<1> QED
  BY <1>1 DEF HandlerShape, NestedShape, Called, Handles

LEMMA NextHandlers == HInv /\ [Next]_vars => Handlers'
<1> SUFFICES ASSUME HInv, [Next]_vars PROVE Handlers'
  OBVIOUS
<1> IInv' /\ Handlers
  BY NextIInv DEF HInv, EInv
<1>1. CASE (\E f \in Fns : Call(f)) \/ Rethrow \/ \E t \in Types : Throw(t)
  BY <1>1, CallThrowHandlers
<1>2. ASSUME NEW s, Enter(s) PROVE Handlers'
  BY <1>2, EnterHandlers
<1>3. CASE Leave
  BY <1>3, LeaveHandlers
<1>4. CASE Return
  BY <1>4, ReturnHandlers
<1>5. CASE CatchReturn
  BY <1>5, CatchReturnHandlers
<1>6. CASE VisitFunction \/ VisitCatchFrame \/ ProbeForObject \/ SelectNothing \/ AbandonException
  BY <1>6, SearchHandlers
<1>7. CASE RejectTable \/ VisitForeign
  BY <1>7, HandlersStill DEF RejectTable, VisitForeign, Halt
<1>8. CASE SearchFails
  BY <1>8, HandlersStill DEF SearchFails, Halt
<1>9. CASE NoexceptViolation
  BY <1>9, HandlersStill DEF NoexceptViolation, Halt
<1>10. CASE SelectHandler
  BY <1>10, SelectHandlerHandlers
<1>11. CASE UnwindEdge
  BY <1>11, UnwindEdgeHandlers
<1>12. CASE CleanupReturns
  BY <1>12, CleanupReturnsHandlers
<1>13. CASE CopyReturns
  BY <1>13, CopyReturnsHandlers
<1>14. CASE BindCatchVariable
  BY <1>14, BindHandlers
<1>15. CASE PassFunction \/ TakeFromCatchFrame \/ PassCatchFrame
  BY <1>15, PassRegistrationHandlers
<1>16. CASE CallHandler
  BY <1>16, CallHandlerHandlers
<1>17. CASE ContinueAfterException
  BY <1>17, ContinueHandlers
<1>18. CASE UNCHANGED vars
  BY <1>18, HandlersStill DEF vars
<1> QED
  BY <1>1, <1>2, <1>3, <1>4, <1>5, <1>6, <1>7, <1>8, <1>9, <1>10, <1>11, <1>12, <1>13, <1>14,
     <1>15, <1>16, <1>17, <1>18
     DEF Next, UserCode, Runtime, Halted

\* A handler that an exception leaves is unwound to the state its try statement
\* was entered in, and no further, before its exception is destroyed
\* (fh3_x86.asm:65-71): everything the handler constructed is gone, and nothing
\* outside of the try statement is.  It takes the handlers' invariant to know
\* that the function was inside this handler, or already at that state, when
\* the dispatch began to unwind it: the function's other handlers in progress,
\* and the destructors they run, throw and catch meanwhile.
THEOREM HandlersAreLeftInOrder == Spec => []DestructionOrder
<1>1. Init => HInv
  BY InitIInv, InitExact, InitHandlers DEF HInv, EInv
<1>2. HInv /\ [Next]_vars => HInv'
  BY NextIInv, NextExact, NextHandlers DEF HInv, EInv
<1>3. HInv => DestructionOrder
  <2> SUFFICES ASSUME HInv, Dispatching("abandon") PROVE DestructionOrder
    BY DEF DestructionOrder
  <2>1. PICK n \in Slot : n = top
    BY DEF HInv, EInv, IInv, TypeOK
  <2>2. PICK k : k = T.reg
    OBVIOUS
  <2>3. ThrowOf(frame[n], n) /\ T = frame[n] /\ frame[n].kind = "throw" /\ frame[n].reg = k
    BY <2>1, <2>2, TopDispatch DEF HInv, EInv, Dispatching, T
  <2>4. frame[n].pc = "abandon"
    BY <2>1 DEF Dispatching
  <2>5. frame[k].kind = "catch" /\ State(k) <= UnwoundState(k) /\ k \in Slot
    <3>1. frame[k].kind = "catch" /\ State(k) <= UnwoundState(k) /\ Catcher(k)
      BY <2>3, <2>4 DEF ThrowOf
    <3>2. k # 0
      BY <3>1 DEF Catcher
    <3> QED
      BY <2>1, <2>3, <3>1, <3>2, TopDispatch DEF HInv, EInv
  <2>6. PICK p : p = Base(k)
    OBVIOUS
  <2>7. /\ p \in Slot /\ IsFunction(p) /\ frame[p].fn \in Fns /\ frame[p].state \in States(frame[p].fn)
        /\ frame[k].block \in Blocks(frame[p].fn) /\ HandlingOf(frame[k], k)
    <3>1. Called(k)
      BY <2>5 DEF Called
    <3>2. HandlingOf(frame[k], k)
      BY <2>5 DEF HInv, EInv, IInv, Shape, SlotShape, Handles, HandlingShape
    <3> QED
      BY <2>5, <2>6, <3>1, <3>2, CalledFacts DEF HInv, EInv
  <2>8. PICK f, s, i : /\ f = frame[p].fn /\ s = frame[p].state /\ i = frame[k].block
                       /\ f \in Fns /\ s \in States(f) /\ i \in Blocks(f)
    BY <2>7
  <2>9. Primary(k) = p /\ Fn(k) = f /\ State(k) = s /\ UnwoundState(k) = Block(f, i).try_low - 1
    BY <2>5, <2>6, <2>7, <2>8 DEF Primary, Fn, State, UnwoundState, Base, HandlingOf, IsFunction
  <2>10. s = Around(f, i)
    <3>1. ~Inside(k)
      <4>1. PICK h \in Int : h = HandlerState(f, i) /\ h > Block(f, i).try_low /\ Block(f, i).try_low \in Int
        BY <2>8, HandlerFacts
      <4>2. s \in Int /\ s <= Block(f, i).try_low - 1
        BY <2>5, <2>8, <2>9 DEF States
      <4>3. h \notin Chain(f, s)
        BY <2>8, <4>1, <4>2, ChainBelow
      <4> QED
        BY <2>6, <2>8, <4>1, <4>3 DEF Inside, InsideOf
    <3>2. Called(k) /\ HandlerShape(k)
      BY <2>5 DEF Called, HInv, Handlers
    <3> QED
      BY <2>6, <2>8, <3>1, <3>2 DEF HandlerShape, Left
  <2>11. {o \in Nat : <<p, o>> \in objects} = Owed(f, s)
    BY <2>7, <2>8 DEF HInv, EInv, Exact, ExactAt, ObjectsAt
  <2>12. Owed(f, s) \subseteq 0..Eh[f].last
    BY <2>8, ChainBelow DEF Owed
  <2>13. LiveObjects(k) = Owed(f, s)
    <3>1. 0..Eh[f].last \subseteq Nat
      OBVIOUS
    <3> QED
      BY <2>9, <2>11, <2>12, <3>1 DEF LiveObjects
  <2> QED
    BY <2>2, <2>8, <2>9, <2>10, <2>13 DEF DestructionOrder, Around
<1> QED
  BY <1>1, <1>2, <1>3, PTL DEF Spec

----------------------------------------------------------------------------
(***************************************************************************)
(* Who owns the exceptions.  OneOwner is an invariant as it stands, with   *)
(* the shape of the stack, unless one of two things happens that the code  *)
(* takes no account of.                                                    *)
(***************************************************************************)

\* The dispatch on top has linked its throw frame to a catch frame it comes to
\* only now, which owns the exception: what the link leads to is taken while the
\* catch frame keeps it (throw_x86.cpp:329-336).
ReturnsToOwner ==
    /\ frame[top].kind = "throw" /\ frame[top].pc = "visit"
    /\ T.reg >= 1 /\ frame[T.reg].kind = "catch"
    /\ T.tf.exception_object_or_link = Link(T.reg) /\ Owns(T.reg)

\* The dispatch on top is at a registration whose handler an older dispatch is
\* abandoning: its exception leaves the destructor of the one that handler had,
\* which nothing stops (throw_x86.cpp:355).
DestructorEscapes ==
    frame[top].kind = "throw" /\ \E q \in Slot : q # top /\ Abandons(q, T.reg)

OwnershipRespected == ~ReturnsToOwner /\ ~DestructorEscapes

\* Runtime frame k owns after the step what it owned before.
KeepsOwned(k) ==
    /\ Owns(k)' <=> Owns(k)
    /\ Owns(k) =>
        /\ frame'[k].tf.exception_object_or_link = frame[k].tf.exception_object_or_link
        /\ frame'[k].tf.throw_info_if_owner = frame[k].tf.throw_info_if_owner
        /\ frame'[k].reg <= frame[k].reg

\* What OneOwner says of one owner.
OwnerOf(k, t) ==
    /\ Owns(k) /\ frame[k].tf.exception_object_or_link = Object(t)
    /\ frame[k].reg <= t /\ t < k
    /\ exc[t] = frame[k].tf.throw_info_if_owner

\* OneOwner, object by object and owner by owner.
Owners ==
    /\ \A k \in Slot : Owns(k) => \E t \in Slot : OwnerOf(k, t)
    /\ \A k \in Slot, j \in Slot, t \in Slot : OwnerOf(k, t) /\ OwnerOf(j, t) => j = k
    /\ \A t \in Slot : exc[t] # NoInfo => \E k \in Slot : OwnerOf(k, t)

LEMMA OwnersAreOne == Owners => OneOwner
<1> SUFFICES ASSUME Owners PROVE OneOwner
  OBVIOUS
<1>1. ASSUME NEW k \in Slot, Owns(k)
      PROVE  LET obj == frame[k].tf.exception_object_or_link
             IN  /\ obj = Object(obj.slot)
                 /\ frame[k].reg <= obj.slot /\ obj.slot < k
                 /\ exc[obj.slot] = frame[k].tf.throw_info_if_owner
                 /\ \A j \in Slot \ {k} : Owns(j) => frame[j].tf.exception_object_or_link # obj
  <2>1. PICK t \in Slot : OwnerOf(k, t)
    BY <1>1 DEF Owners
  <2>2. PICK obj : obj = frame[k].tf.exception_object_or_link
    OBVIOUS
  <2>3. obj = Object(t) /\ obj.slot = t
    BY <2>1, <2>2 DEF OwnerOf, Object
  <2>4. ASSUME NEW j \in Slot \ {k}, Owns(j), frame[j].tf.exception_object_or_link = obj PROVE FALSE
    <3>1. PICK s \in Slot : OwnerOf(j, s)
      BY <2>4 DEF Owners
    <3>2. s = t
      BY <2>3, <2>4, <3>1 DEF OwnerOf, Object
    <3> QED
      BY <2>1, <2>4, <3>1, <3>2 DEF Owners
  <2> QED
    BY <2>1, <2>2, <2>3, <2>4 DEF OwnerOf
<1>2. \A t \in Slot : exc[t] # NoInfo =>
          \E k \in Slot : Owns(k) /\ frame[k].tf.exception_object_or_link = Object(t)
  BY DEF Owners, OwnerOf
<1> QED
  BY <1>1, <1>2 DEF OneOwner

\* Frames that keep what they own still own it, if it has not been destroyed.
LEMMA OwnerKept ==
    ASSUME TypeOK, TypeOK', NEW k \in Slot, KeepsOwned(k), NEW t \in Slot
    PROVE  /\ OwnerOf(k, t) /\ exc'[t] = exc[t] => OwnerOf(k, t)'
           /\ Owns(k)' => Owns(k)
           /\ OwnerOf(k, t)' /\ (\E s \in Slot : OwnerOf(k, s)) => OwnerOf(k, t)
<1>1. ASSUME OwnerOf(k, t), exc'[t] = exc[t] PROVE OwnerOf(k, t)'
  <2>1. Owns(k) /\ Owns(k)'
    BY <1>1 DEF OwnerOf, KeepsOwned
  <2>2. frame[k] \in RuntimeFrame /\ frame'[k] \in RuntimeFrame
    BY <2>1, Kinds DEF Owns, TypeOK, IsRuntime, Frame, FunctionFrame, Funclet, Free
  <2>3. frame[k].reg \in Nat /\ frame'[k].reg \in Nat /\ t \in Nat /\ k \in Nat
    BY <2>2, Depth DEF RuntimeFrame
  <2>4. frame'[k].reg <= frame[k].reg /\ frame[k].reg <= t /\ t < k
    BY <1>1 DEF KeepsOwned, OwnerOf
  <2>5. frame'[k].reg <= t /\ t < k
    BY <2>3, <2>4
  <2> QED
    BY <1>1, <2>1, <2>5 DEF OwnerOf, KeepsOwned, Object
<1>2. ASSUME OwnerOf(k, t)', NEW s \in Slot, OwnerOf(k, s) PROVE OwnerOf(k, t)
  <2>1. Object(t) = Object(s)
    BY <1>2 DEF OwnerOf, KeepsOwned, Object
  <2>2. t = s
    BY <2>1 DEF Object
  <2> QED
    BY <1>2, <2>2
<1> QED
  BY <1>1, <1>2 DEF KeepsOwned

\* Nothing changes hands.
LEMMA OwnersStay ==
    ASSUME TypeOK, TypeOK', Owners, \A k \in Slot : KeepsOwned(k), exc' = exc
    PROVE  Owners'
<1>1. ASSUME NEW k \in Slot, NEW t \in Slot
      PROVE  /\ OwnerOf(k, t) => OwnerOf(k, t)'
             /\ OwnerOf(k, t)' => OwnerOf(k, t)
             /\ Owns(k)' => Owns(k)
  <2>1. KeepsOwned(k)
    OBVIOUS
  <2>2. Owns(k)' => Owns(k)
    BY <2>1 DEF KeepsOwned
  <2>3. OwnerOf(k, t)' => Owns(k)
    BY <2>2 DEF OwnerOf
  <2>4. Owns(k) => \E s \in Slot : OwnerOf(k, s)
    BY DEF Owners
  <2> QED
    BY <2>1, <2>2, <2>3, <2>4, OwnerKept
<1>2. ASSUME NEW k \in Slot, Owns(k)' PROVE \E t \in Slot : OwnerOf(k, t)'
  <2>1. Owns(k)
    BY <1>2 DEF KeepsOwned
  <2>2. PICK t \in Slot : OwnerOf(k, t)
    BY <2>1 DEF Owners
  <2> QED
    BY <1>1, <2>2
<1>3. ASSUME NEW t \in Slot, exc'[t] # NoInfo PROVE \E k \in Slot : OwnerOf(k, t)'
  <2>1. PICK k \in Slot : OwnerOf(k, t)
    BY <1>3 DEF Owners
  <2>2. t \in Slot
    BY Depth DEF Slot
  <2> QED
    BY <1>1, <2>1, <2>2
<1>4. ASSUME NEW k \in Slot, NEW j \in Slot, NEW t \in Slot, OwnerOf(k, t)', OwnerOf(j, t)'
      PROVE  j = k
  <2>1. OwnerOf(k, t) /\ OwnerOf(j, t)
    BY <1>1, <1>4
  <2> QED
    BY <2>1 DEF Owners
<1> QED
  BY <1>2, <1>3, <1>4 DEF Owners

\* Frame m owns nothing any more, and what it owned is destroyed.
LEMMA OwnerGone ==
    ASSUME TypeOK, TypeOK', Owners, NEW m \in Slot, IsRuntime(m), ~Owns(m)',
           \A k \in Slot : k # m => KeepsOwned(k), exc' = DestroyedBy(frame[m].tf)
    PROVE  Owners'
<1>1. PICK o \in 0..MaxDepth :
        /\ \A t \in Slot : t # o => exc'[t] = exc[t]
        /\ o \in Slot => exc'[o] = NoInfo
        /\ Owns(m) => OwnerOf(m, o) /\ o \in Slot
        /\ ~Owns(m) => o = 0
  <2>1. MaxDepth \in Nat /\ exc \in [Slot -> Types \cup {NoInfo}]
    BY Depth DEF TypeOK
  <2>2. CASE Owns(m)
    <3>1. PICK o \in Slot : OwnerOf(m, o)
      BY <2>2 DEF Owners
    <3>2. frame[m].tf.exception_object_or_link.slot = o
      BY <3>1 DEF OwnerOf, Object
    <3>3. exc' = [exc EXCEPT ![o] = NoInfo]
      BY <2>2, <3>2 DEF DestroyedBy, Owns
    <3>4. \A t : t # o => exc'[t] = exc[t]
      BY <2>1, <3>3
    <3>5. exc'[o] = NoInfo
      BY <2>1, <3>3
    <3>6. o \in 0..MaxDepth
      BY <2>1 DEF Slot
    <3> QED
      BY <2>2, <3>1, <3>4, <3>5, <3>6
  <2>3. CASE ~Owns(m)
    <3>1. exc' = exc
      BY <2>3 DEF DestroyedBy, Owns
    <3> QED
      BY <2>1, <2>3, <3>1 DEF Slot
  <2> QED
    BY <2>2, <2>3
<1>2. ASSUME NEW k \in Slot, k # m, NEW t \in Slot
      PROVE  /\ OwnerOf(k, t) => OwnerOf(k, t)'
             /\ OwnerOf(k, t)' => OwnerOf(k, t)
  <2>1. KeepsOwned(k)
    BY <1>2
  <2>2. OwnerOf(k, t)' => Owns(k)
    BY <2>1 DEF KeepsOwned, OwnerOf
  <2>3. Owns(k) => \E s \in Slot : OwnerOf(k, s)
    BY DEF Owners
  <2>4. ASSUME OwnerOf(k, t) PROVE exc'[t] = exc[t]
    <3>1. SUFFICES ASSUME t = o PROVE FALSE
      BY <1>1
    <3>2. Owns(m)
      BY <1>1, <3>1, Depth DEF Slot
    <3>3. OwnerOf(m, t)
      BY <1>1, <3>1, <3>2
    <3> QED
      BY <1>2, <2>4, <3>3 DEF Owners
  <2> QED
    BY <2>1, <2>2, <2>3, <2>4, OwnerKept
<1>3. ASSUME NEW k \in Slot, Owns(k)' PROVE k # m /\ \E t \in Slot : OwnerOf(k, t)'
  <2>1. k # m /\ Owns(k)
    BY <1>3 DEF KeepsOwned
  <2>2. PICK t \in Slot : OwnerOf(k, t)
    BY <2>1 DEF Owners
  <2> QED
    BY <1>2, <2>1, <2>2
<1>4. ASSUME NEW t \in Slot, exc'[t] # NoInfo PROVE \E k \in Slot : OwnerOf(k, t)'
  <2>1. t \in Slot /\ t # o
    BY <1>1, <1>4, Depth DEF Slot
  <2>2. PICK k \in Slot : OwnerOf(k, t)
    BY <1>1, <1>4, <2>1 DEF Owners
  <2>3. k # m
    <3>1. SUFFICES ASSUME k = m PROVE FALSE
      OBVIOUS
    <3>2. OwnerOf(m, o) /\ o \in Slot
      BY <1>1, <2>2, <3>1 DEF OwnerOf
    <3>3. Object(o) = Object(t)
      BY <2>2, <3>1, <3>2 DEF OwnerOf
    <3> QED
      BY <2>1, <3>3 DEF Object
  <2> QED
    BY <1>2, <2>1, <2>2, <2>3
<1>5. ASSUME NEW k \in Slot, NEW j \in Slot, NEW t \in Slot, OwnerOf(k, t)', OwnerOf(j, t)'
      PROVE  j = k
  <2>1. k # m /\ j # m
    BY <1>5 DEF OwnerOf
  <2>2. OwnerOf(k, t) /\ OwnerOf(j, t)
    BY <1>2, <1>5, <2>1
  <2> QED
    BY <2>2 DEF Owners
<1> QED
  BY <1>3, <1>4, <1>5 DEF Owners

\* Frame n takes over what frame m, an older one, owned.
LEMMA OwnerMoves ==
    ASSUME TypeOK, TypeOK', Owners, NEW m \in Slot, NEW n \in Slot, m < n,
           Owns(m), ~Owns(n), ~Owns(m)', Owns(n)',
           frame'[n].tf.exception_object_or_link = frame[m].tf.exception_object_or_link,
           frame'[n].tf.throw_info_if_owner = frame[m].tf.throw_info_if_owner,
           frame'[n].reg <= frame[m].reg,
           \A k \in Slot : k # m /\ k # n => KeepsOwned(k), exc' = exc
    PROVE  Owners'
<1>1. PICK o \in Slot : OwnerOf(m, o)
  BY DEF Owners
<1>2. OwnerOf(n, o)'
  <2>1. frame[m] \in RuntimeFrame /\ frame'[n] \in RuntimeFrame
    BY Kinds DEF Owns, TypeOK, IsRuntime, Frame, FunctionFrame, Funclet, Free
  <2>2. frame[m].reg \in Nat /\ frame'[n].reg \in Nat /\ o \in Nat /\ m \in Nat /\ n \in Nat
    BY <2>1, Depth DEF RuntimeFrame
  <2>3. frame[m].reg <= o /\ o < m
    BY <1>1 DEF OwnerOf
  <2>4. frame'[n].reg <= o /\ o < n
    BY <2>2, <2>3
  <2> QED
    BY <1>1, <2>4 DEF OwnerOf, Object
<1>3. ASSUME NEW k \in Slot, k # m, k # n, NEW t \in Slot
      PROVE  /\ OwnerOf(k, t) => OwnerOf(k, t)'
             /\ OwnerOf(k, t)' => OwnerOf(k, t)
  <2>1. KeepsOwned(k)
    BY <1>3
  <2>2. OwnerOf(k, t)' => Owns(k)
    BY <2>1 DEF KeepsOwned, OwnerOf
  <2>3. Owns(k) => \E s \in Slot : OwnerOf(k, s)
    BY DEF Owners
  <2> QED
    BY <2>1, <2>2, <2>3, OwnerKept
<1>4. ASSUME NEW k \in Slot, Owns(k)' PROVE \E t \in Slot : OwnerOf(k, t)'
  <2>1. CASE k = n
    BY <1>2, <2>1
  <2>2. CASE k # n
    <3>1. k # m /\ Owns(k)
      BY <1>4, <2>2 DEF KeepsOwned
    <3>2. PICK t \in Slot : OwnerOf(k, t)
      BY <3>1 DEF Owners
    <3> QED
      BY <1>3, <2>2, <3>1, <3>2
  <2> QED
    BY <2>1, <2>2
<1>5. \A t : OwnerOf(m, t) \/ OwnerOf(n, t)' => t = o
  BY <1>1, <1>2 DEF OwnerOf, Object
<1>6. ASSUME NEW t \in Slot, exc'[t] # NoInfo PROVE \E k \in Slot : OwnerOf(k, t)'
  <2>1. PICK k \in Slot : OwnerOf(k, t)
    BY <1>6 DEF Owners
  <2>2. t \in Slot
    BY Depth DEF Slot
  <2>3. k # n
    BY <2>1 DEF OwnerOf
  <2>4. CASE k = m
    BY <1>2, <1>5, <2>1, <2>4
  <2>5. CASE k # m
    BY <1>3, <2>1, <2>2, <2>3, <2>5
  <2> QED
    BY <2>4, <2>5
<1>7. ASSUME NEW k \in Slot, NEW j \in Slot, NEW t \in Slot, OwnerOf(k, t)', OwnerOf(j, t)'
      PROVE  j = k
  <2>1. k # m /\ j # m
    BY <1>7 DEF OwnerOf
  <2>2. ASSUME NEW i \in Slot, i # m, i # n, OwnerOf(i, t)', OwnerOf(n, t)' PROVE FALSE
    <3>1. OwnerOf(i, o)
      BY <1>3, <1>5, <2>2
    <3> QED
      BY <1>1, <2>2, <3>1 DEF Owners
  <2>3. CASE k = n \/ j = n
    BY <1>7, <2>1, <2>2, <2>3
  <2>4. CASE k # n /\ j # n
    <3>1. OwnerOf(k, t) /\ OwnerOf(j, t)
      BY <1>3, <1>7, <2>1, <2>4
    <3> QED
      BY <3>1 DEF Owners
  <2> QED
    BY <2>3, <2>4
<1> QED
  BY <1>4, <1>6, <1>7 DEF Owners

----------------------------------------------------------------------------
(* What each step leaves to whom.                                          *)

\* A frame that is not changed, or that owns nothing before and after.
LEMMA PlainOwner ==
    ASSUME TypeOK, NEW k \in Slot, frame'[k] = frame[k] \/ (~IsRuntime(k) /\ ~IsRuntime(k)')
    PROVE  KeepsOwned(k)
<1>1. CASE frame'[k] = frame[k]
  <2>1. ASSUME Owns(k) PROVE frame[k].reg <= frame[k].reg
    <3>1. frame[k].reg \in Int
      BY <2>1, Kinds, Depth DEF Owns, RuntimeFrame
    <3> QED
      BY <3>1
  <2> QED
    BY <1>1, <2>1 DEF KeepsOwned, Owns, IsRuntime
<1>2. CASE ~IsRuntime(k) /\ ~IsRuntime(k)'
  BY <1>2 DEF KeepsOwned, Owns
<1> QED
  BY <1>1, <1>2

\* A runtime frame that stays where it is and owns what it owned.
LEMMA RuntimeOwner ==
    ASSUME TypeOK, NEW k \in Slot, IsRuntime(k), IsRuntime(k)', frame'[k].reg = frame[k].reg,
           frame'[k].tf.throw_info_if_owner = frame[k].tf.throw_info_if_owner,
           Owns(k) => frame'[k].tf.exception_object_or_link = frame[k].tf.exception_object_or_link
    PROVE  KeepsOwned(k)
<1>1. frame[k].reg \in Int
  BY Kinds, Depth DEF RuntimeFrame
<1> QED
  BY <1>1 DEF KeepsOwned, Owns

\* The newest dispatch does something, to itself and perhaps to a function.
LEMMA DispatchOwners ==
    ASSUME IInv, TypeOK', Owners, NEW n \in Slot, IsRuntime(n), IsRuntime(n)', frame'[n].reg = frame[n].reg,
           frame'[n].tf.throw_info_if_owner = frame[n].tf.throw_info_if_owner,
           Owns(n) => frame'[n].tf.exception_object_or_link = frame[n].tf.exception_object_or_link,
           NEW p, \A q \in Slot : q # n /\ q # p => frame'[q] = frame[q],
           p \in Slot /\ p # n => IsFunction(p) /\ IsFunction(p)', exc' = exc
    PROVE  Owners'
<1>1. TypeOK
  BY DEF IInv
<1>2. ASSUME NEW k \in Slot PROVE KeepsOwned(k)
  <2>1. CASE k = n
    BY <1>1, <2>1, RuntimeOwner
  <2>2. CASE k # n
    <3>1. frame'[k] = frame[k] \/ (~IsRuntime(k) /\ ~IsRuntime(k)')
      BY <2>2 DEF IsFunction, IsRuntime
    <3> QED
      BY <1>1, <3>1, PlainOwner
  <2> QED
    BY <2>1, <2>2
<1> QED
  BY <1>1, <1>2, OwnersStay

\* The code on top does something to its function.
LEMMA MoveOwners ==
    ASSUME IInv, TypeOK', Owners, NEW p \in Slot, IsFunction(p), NEW s,
           frame' = [frame EXCEPT ![p].state = s], exc' = exc
    PROVE  Owners'
<1>1. TypeOK /\ frame \in [Slot -> Frame]
  BY DEF IInv, TypeOK
<1>2. frame[p] \in FunctionFrame
  BY <1>1, Kinds
<1>3. IsFunction(p)' /\ \A q \in Slot : q # p => frame'[q] = frame[q]
  BY <1>1, <1>2 DEF IsFunction, FunctionFrame
<1>4. ASSUME NEW k \in Slot PROVE KeepsOwned(k)
  <2>1. frame'[k] = frame[k] \/ (~IsRuntime(k) /\ ~IsRuntime(k)')
    BY <1>3 DEF IsFunction, IsRuntime
  <2> QED
    BY <1>1, <2>1, PlainOwner
<1> QED
  BY <1>1, <1>4, OwnersStay

LEMMA EnterOwners == ASSUME IInv, IInv', Owners, NEW s, Enter(s) PROVE Owners'
<1>1. PICK p \in Slot : p = Primary(top) /\ IsFunction(p)
  BY RunningOn DEF Enter
<1>2. frame' = [frame EXCEPT ![p].state = s] /\ exc' = exc
  BY <1>1 DEF Enter
<1> QED
  BY <1>1, <1>2, MoveOwners DEF IInv

LEMMA LeaveOwners == ASSUME IInv, IInv', Owners, Leave PROVE Owners'
<1>1. PICK p \in Slot : p = Primary(top) /\ IsFunction(p)
  BY RunningOn DEF Leave
<1>2. PICK s : s = Eh[Fn(top)].next[State(top)]
  OBVIOUS
<1>3. frame' = [frame EXCEPT ![p].state = s] /\ exc' = exc
  BY <1>1, <1>2 DEF Leave
<1> QED
  BY <1>1, <1>3, MoveOwners DEF IInv

LEMMA ReturnOwners == ASSUME IInv, IInv', Owners, Return PROVE Owners'
<1>1. /\ TypeOK /\ TypeOK' /\ top \in Slot /\ exc' = exc /\ ~IsRuntime(top)
      /\ frame' = [frame EXCEPT ![top] = Free] /\ frame \in [Slot -> Frame]
  BY DEF IInv, TypeOK, Return, IsFunction, IsRuntime
<1>2. ASSUME NEW k \in Slot PROVE KeepsOwned(k)
  <2>1. frame'[k] = frame[k] \/ (~IsRuntime(k) /\ frame'[k] = Free)
    BY <1>1
  <2> QED
    BY <1>1, <2>1, PlainOwner DEF Free, IsRuntime
<1> QED
  BY <1>1, <1>2, OwnersStay

\* A new frame that owns nothing.
LEMMA PushOwners ==
    ASSUME IInv, IInv', Owners, NEW m \in Slot, NEW x, Pushes(m, x), exc' = exc,
           x.kind = "function" \/ x.tf.throw_info_if_owner = NoInfo
    PROVE  Owners'
<1>1. /\ TypeOK /\ TypeOK' /\ frame \in [Slot -> Frame] /\ frame' = [frame EXCEPT ![m] = x]
      /\ m = top + 1 /\ top \in Nat
  BY Depth DEF IInv, TypeOK, Pushes
<1>2. frame[m] = Free /\ frame'[m] = x
  BY <1>1, TopFacts
<1>3. ~Owns(m) /\ ~Owns(m)'
  BY <1>2 DEF Owns, IsRuntime, Free
<1>4. ASSUME NEW k \in Slot PROVE KeepsOwned(k)
  <2>1. CASE k = m
    BY <1>3, <2>1 DEF KeepsOwned
  <2>2. CASE k # m
    BY <1>1, <2>2, PlainOwner
  <2> QED
    BY <2>1, <2>2
<1> QED
  BY <1>1, <1>4, OwnersStay

LEMMA CallOwners == ASSUME IInv, IInv', Owners, NEW f \in Fns, Call(f) PROVE Owners'
<1>1. PICK m \in Slot : \E x : Pushes(m, x) /\ x.kind = "function"
  BY CallPushes
<1>2. PICK x : Pushes(m, x) /\ x.kind = "function"
  BY <1>1
<1> QED
  BY <1>2, PushOwners DEF Call

\* The throw frame that is pushed, and what it refers to.
LEMMA ThrowFramePushed ==
    ASSUME IInv, Running, NEW obj \in ObjOrLink, NEW info \in Types \cup {NoInfo}, PushThrowFrame(obj, info)
    PROVE  \E m \in Slot : \E x :
            /\ Pushes(m, x) /\ x.kind = "throw" /\ x.reg = head
            /\ x.tf.exception_object_or_link = obj /\ x.tf.throw_info_if_owner = info
<1>1. PICK m \in Slot : m = top + 1 /\ m < MaxDepth
  BY Depth DEF PushThrowFrame, IInv, TypeOK, Slot
<1> DEFINE x == [kind |-> "throw", reg |-> head, next |-> 0, pc |-> "visit",
                 tf |-> [unwound_state |-> 0, primary_frame_base |-> 0,
                         exception_object_or_link |-> obj, throw_info_if_owner |-> info],
                 entry |-> -1, target |-> -1, block |-> 0, clause |-> 0]
<1>2. /\ x \in RuntimeFrame /\ x.kind = "throw" /\ x.reg = head /\ x.pc = "visit" /\ x.block = 0
      /\ x.tf.exception_object_or_link = obj /\ x.tf.throw_info_if_owner = info
  BY Depth DEF RuntimeFrame, ThrowFrame, IInv, TypeOK
<1>3. frame' = [frame EXCEPT ![m] = x] /\ top' = m /\ head' = head
  BY <1>1 DEF PushThrowFrame
<1>4. IsUser(top)
  BY DEF Running
<1> HIDE DEF x
<1>5. Pushes(m, x)
  BY <1>1, <1>2, <1>3, <1>4 DEF Pushes
<1> QED
  BY <1>2, <1>5

LEMMA RethrowOwners == ASSUME IInv, IInv', Owners, Rethrow PROVE Owners'
<1>1. Running /\ PushThrowFrame(Null, NoInfo) /\ Null \in ObjOrLink /\ exc' = exc
  BY ThrowArguments DEF Rethrow
<1>2. PICK m \in Slot : \E x : Pushes(m, x) /\ x.tf.throw_info_if_owner = NoInfo
  BY <1>1, ThrowFramePushed
<1>3. PICK x : Pushes(m, x) /\ x.tf.throw_info_if_owner = NoInfo
  BY <1>2
<1> QED
  BY <1>1, <1>3, PushOwners

\* A new exception is owned by the frame of the dispatch that throws it.
LEMMA ThrowOwners == ASSUME IInv, IInv', Owners, NEW t \in Types, Throw(t) PROVE Owners'
<1>1. PICK n \in Slot : n = top
  BY DEF IInv, TypeOK
<1>2. /\ Running /\ PushThrowFrame(Object(n), t) /\ Object(n) \in ObjOrLink
      /\ exc' = [exc EXCEPT ![n] = t] /\ t # NoInfo /\ t \in Types \cup {NoInfo}
      /\ exc \in [Slot -> Types \cup {NoInfo}]
  <2>1. Object(n) \in ObjOrLink
    BY Depth DEF Object, ObjOrLink, Slot
  <2>2. t # NoInfo
    BY ThrowInfoAssumption
  <2> QED
    BY <1>1, <2>1, <2>2 DEF Throw, IInv, TypeOK
<1>3. PICK m \in Slot : \E x :
        /\ Pushes(m, x) /\ x.kind = "throw" /\ x.reg = head
        /\ x.tf.exception_object_or_link = Object(n) /\ x.tf.throw_info_if_owner = t
  BY <1>2, ThrowFramePushed
<1>4. PICK x :
        /\ Pushes(m, x) /\ x.kind = "throw" /\ x.reg = head
        /\ x.tf.exception_object_or_link = Object(n) /\ x.tf.throw_info_if_owner = t
  BY <1>3
<1>5. /\ TypeOK /\ TypeOK' /\ frame \in [Slot -> Frame] /\ frame' = [frame EXCEPT ![m] = x]
      /\ m = n + 1 /\ n \in Nat /\ m \in Nat /\ head \in Nat /\ head <= n
  BY <1>1, <1>4, Depth, TopFacts DEF IInv, TypeOK, Pushes
<1>6. frame[m] = Free /\ frame'[m] = x /\ \A k \in Slot : k # m => frame'[k] = frame[k]
  BY <1>1, <1>5, TopFacts
<1>7. ASSUME NEW k \in Slot, NEW s \in Slot, OwnerOf(k, s) PROVE k <= n /\ s < n /\ k # m
  <2>1. frame[k] # Free
    BY <1>7 DEF OwnerOf, Owns, IsRuntime, Free
  <2>2. ~(k > n)
    BY <1>1, <2>1, TopFacts
  <2>3. k \in Nat /\ s \in Nat /\ s < k
    BY <1>7, Depth DEF OwnerOf
  <2> QED
    BY <1>5, <2>2, <2>3
<1>8. OwnerOf(m, n)'
  <2>1. exc'[n] = t
    BY <1>2
  <2> QED
    BY <1>2, <1>4, <1>5, <1>6, <2>1 DEF OwnerOf, Owns, IsRuntime, Object
<1>9. ASSUME NEW k \in Slot, k # m, NEW s \in Slot
      PROVE  (OwnerOf(k, s) => OwnerOf(k, s)') /\ (OwnerOf(k, s)' => OwnerOf(k, s))
  <2>1. KeepsOwned(k)
    BY <1>5, <1>6, <1>9, PlainOwner
  <2>2. Owns(k) => \E i \in Slot : OwnerOf(k, i)
    BY DEF Owners
  <2>3. OwnerOf(k, s)' => Owns(k)
    BY <2>1 DEF OwnerOf, KeepsOwned
  <2>4. OwnerOf(k, s) => exc'[s] = exc[s]
    <3>1. OwnerOf(k, s) => s # n
      BY <1>5, <1>7, <1>9
    <3> QED
      BY <1>2, <3>1
  <2> QED
    BY <1>5, <2>1, <2>2, <2>3, <2>4, OwnerKept
<1>10. ASSUME NEW s \in Slot, OwnerOf(m, s)' PROVE s = n
  BY <1>8, <1>10 DEF OwnerOf, Object
<1>11. ASSUME NEW k \in Slot, Owns(k)' PROVE \E s \in Slot : OwnerOf(k, s)'
  <2>1. CASE k = m
    BY <1>8, <2>1
  <2>2. CASE k # m
    <3>1. Owns(k)
      BY <1>6, <1>11, <2>2 DEF Owns, IsRuntime
    <3>2. PICK s \in Slot : OwnerOf(k, s)
      BY <3>1 DEF Owners
    <3> QED
      BY <1>9, <2>2, <3>2
  <2> QED
    BY <2>1, <2>2
<1>12. ASSUME NEW s \in Slot, exc'[s] # NoInfo PROVE \E k \in Slot : OwnerOf(k, s)'
  <2>1. CASE s = n
    BY <1>8, <2>1
  <2>2. CASE s # n
    <3>1. exc[s] # NoInfo
      BY <1>2, <1>12, <2>2
    <3>2. PICK k \in Slot : OwnerOf(k, s)
      BY <3>1 DEF Owners
    <3> QED
      BY <1>7, <1>9, <3>2
  <2> QED
    BY <2>1, <2>2
<1>13. ASSUME NEW k \in Slot, NEW j \in Slot, NEW s \in Slot, OwnerOf(k, s)', OwnerOf(j, s)'
       PROVE  j = k
  <2>1. ASSUME NEW i \in Slot, i # m, OwnerOf(i, s)', OwnerOf(m, s)' PROVE FALSE
    <3>1. OwnerOf(i, s) /\ s = n
      BY <1>9, <1>10, <2>1
    <3>2. s < n
      BY <1>7, <2>1, <3>1
    <3> QED
      BY <1>5, <3>1, <3>2
  <2>2. CASE k # m /\ j # m
    <3>1. OwnerOf(k, s) /\ OwnerOf(j, s)
      BY <1>9, <1>13, <2>2
    <3> QED
      BY <3>1 DEF Owners
  <2> QED
    BY <1>13, <2>1, <2>2
<1> QED
  BY <1>11, <1>12, <1>13 DEF Owners

\* _fh3_handler is entered with a throw frame that owns what the dispatch owned.
LEMMA EnterHandlerOwners ==
    ASSUME IInv, IInv', Owners, Dispatching("visit"), NEW tf \in ThrowFrame, EnterHandler(tf),
           tf.throw_info_if_owner = T.tf.throw_info_if_owner,
           T.tf.throw_info_if_owner # NoInfo =>
                tf.exception_object_or_link = T.tf.exception_object_or_link
    PROVE  Owners'
<1>1. PICK n, d : n \in Slot /\ n = top /\ d = frame[n]
  BY DEF IInv, TypeOK
<1>2. /\ IsRuntime(n) /\ T = d /\ d \in RuntimeFrame /\ d.kind = "throw"
      /\ frame \in [Slot -> Frame]
  BY <1>1, TopThrow
<1> DEFINE x == [d EXCEPT !.pc = "search", !.next = head, !.tf = tf, !.entry = State(d.reg)]
<1>3. frame' = [frame EXCEPT ![n] = x] /\ exc' = exc
  BY <1>1, <1>2 DEF EnterHandler
<1>4. x.kind = "throw" /\ x.reg = d.reg /\ x.tf = tf
  BY <1>2 DEF RuntimeFrame
<1> HIDE DEF x
<1>5. frame'[n] = x /\ \A q \in Slot : q # n => frame'[q] = frame[q]
  BY <1>1, <1>2, <1>3
<1>6. IsRuntime(n)'
  BY <1>4, <1>5 DEF IsRuntime
<1>7. /\ frame'[n].reg = frame[n].reg
      /\ frame'[n].tf.throw_info_if_owner = frame[n].tf.throw_info_if_owner
      /\ Owns(n) => frame'[n].tf.exception_object_or_link = frame[n].tf.exception_object_or_link
  BY <1>1, <1>2, <1>4, <1>5 DEF Owns
<1>8. \A q \in Slot : q # n /\ q # n => frame'[q] = frame[q]
  BY <1>5
<1> QED
  BY <1>1, <1>2, <1>3, <1>6, <1>7, <1>8, DispatchOwners DEF IInv

\* Whoever owns refers to an object.
LEMMA OwnsObject ==
    ASSUME Owners, NEW k \in Slot, Owns(k)
    PROVE  /\ frame[k].tf.exception_object_or_link # Null
           /\ \A p : frame[k].tf.exception_object_or_link # Link(p)
<1>1. PICK t \in Slot : frame[k].tf.exception_object_or_link = Object(t)
  BY DEF Owners, OwnerOf
<1> QED
  BY <1>1 DEF Object, Null, Link

LEMMA VisitFunctionOwners == ASSUME IInv, IInv', Owners, VisitFunction PROVE Owners'
<1>1. Dispatching("visit") /\ EnterHandler(T.tf)
  BY DEF VisitFunction
<1>2. T.tf \in ThrowFrame
  BY <1>1, TopThrow DEF RuntimeFrame
<1> QED
  BY <1>1, <1>2, EnterHandlerOwners

\* The catch frame visited owns nothing if the dispatch is linked to it.
LEMMA VisitCatchFrameOwners ==
    ASSUME IInv, IInv', Owners, ~ReturnsToOwner, VisitCatchFrame PROVE Owners'
<1>1. PICK n, p, tf : n \in Slot /\ n = top /\ p = T.reg /\ tf = T.tf
  BY DEF IInv, TypeOK
<1>2. /\ Dispatching("visit") /\ p >= 1 /\ frame[p].kind = "catch"
      /\ EnterHandler(Arriving(tf, p))
  BY <1>1 DEF VisitCatchFrame
<1>3. T = frame[n] /\ T \in RuntimeFrame /\ tf \in ThrowFrame /\ T.kind = "throw" /\ IsRuntime(n)
      /\ T.pc = "visit"
  BY <1>1, <1>2, TopThrow DEF RuntimeFrame
<1>4. p \in Slot
  BY <1>1, <1>2, <1>3, Depth DEF RuntimeFrame, Slot
<1>5. Arriving(tf, p) \in ThrowFrame
  BY <1>2, <1>3, <1>4, ThrowFrameTypes
<1>6. /\ Arriving(tf, p).throw_info_if_owner = tf.throw_info_if_owner
      /\ tf.throw_info_if_owner # NoInfo =>
            Arriving(tf, p).exception_object_or_link = tf.exception_object_or_link
  <2>1. Owns(n) <=> tf.throw_info_if_owner # NoInfo
    BY <1>1, <1>3 DEF Owns
  <2>2. CASE tf.exception_object_or_link = Link(p)
    <3>1. tf.throw_info_if_owner = NoInfo
      BY <1>1, <1>3, <2>1, <2>2, OwnsObject
    <3>2. ~Owns(p)
      BY <1>1, <1>2, <1>3, <2>2 DEF ReturnsToOwner
    <3>3. frame[p].tf.throw_info_if_owner = NoInfo
      BY <1>2, <3>2 DEF Owns, IsRuntime
    <3> QED
      BY <1>3, <2>2, <3>1, <3>3 DEF Arriving, TakeFrom, ThrowFrame
  <2>3. CASE tf.exception_object_or_link = Null
    <3>1. tf.throw_info_if_owner = NoInfo
      BY <1>1, <1>3, <2>1, <2>3, OwnsObject
    <3>2. Null # Link(p)
      BY DEF Null, Link
    <3> QED
      BY <1>3, <2>3, <3>1, <3>2 DEF Arriving, ThrowFrame
  <2>4. CASE tf.exception_object_or_link # Null /\ tf.exception_object_or_link # Link(p)
    BY <2>4 DEF Arriving
  <2> QED
    BY <2>2, <2>3, <2>4
<1>7. PICK a : a = Arriving(tf, p)
  OBVIOUS
<1> QED
  BY <1>1, <1>2, <1>5, <1>6, <1>7, EnterHandlerOwners

\* The steps that change nothing of the dispatch on top but where it is.
LEMMA ProbeForObjectOwners == ASSUME IInv, IInv', Owners, ProbeForObject PROVE Owners'
<1>1. PICK n \in Slot, p \in Slot :
        n = top /\ frame' = [frame EXCEPT ![n].tf.exception_object_or_link = Link(p)]
  BY DEF IInv, TypeOK, ProbeForObject
<1>2. PICK d, link : d = frame[n] /\ link = Link(p)
  OBVIOUS
<1>3. /\ IsRuntime(n) /\ T = d /\ d \in RuntimeFrame /\ d.kind = "throw" /\ d.tf \in ThrowFrame
      /\ frame \in [Slot -> Frame] /\ exc' = exc /\ d.tf.exception_object_or_link = Null
  BY <1>1, <1>2, TopThrow DEF ProbeForObject, RuntimeFrame
<1> DEFINE x == [d EXCEPT !.tf.exception_object_or_link = link]
<1>4. x.kind = "throw" /\ x.reg = d.reg /\ x.tf.throw_info_if_owner = d.tf.throw_info_if_owner
  BY <1>3 DEF RuntimeFrame, ThrowFrame
<1>5. frame'[n] = x /\ \A q \in Slot : q # n => frame'[q] = frame[q]
  BY <1>1, <1>2, <1>3
<1> HIDE DEF x
<1>6. IsRuntime(n)' /\ ~Owns(n)
  BY <1>2, <1>3, <1>4, <1>5, OwnsObject DEF IsRuntime
<1>7. /\ frame'[n].reg = frame[n].reg
      /\ frame'[n].tf.throw_info_if_owner = frame[n].tf.throw_info_if_owner
      /\ \A q \in Slot : q # n /\ q # n => frame'[q] = frame[q]
  BY <1>2, <1>4, <1>5
<1> QED
  BY <1>3, <1>6, <1>7, DispatchOwners DEF IInv

\* A step that rewrites the frame on top, and at most the state of a function.
TopRewritten(n, p, x) ==
    /\ n = top /\ frame[n].kind = "throw" /\ x.kind = "throw"
    /\ x.reg = frame[n].reg /\ x.entry = frame[n].entry /\ frame[n].pc # "visit"
    /\ x.pc = "abandon" => frame[n].tf.exception_object_or_link # Link(x.reg)
    /\ x.tf.throw_info_if_owner = frame[n].tf.throw_info_if_owner
    /\ x.tf.exception_object_or_link = frame[n].tf.exception_object_or_link
    /\ frame'[n] = x
    /\ p \in Slot /\ p # n => IsFunction(p) /\ IsFunction(p)'
    /\ \A q \in Slot : q # n /\ q # p => frame'[q] = frame[q]
    /\ exc' = exc

LEMMA TopRewrittenOwners ==
    ASSUME IInv, IInv', Owners, NEW n \in Slot, NEW p, NEW x, TopRewritten(n, p, x)
    PROVE  Owners'
<1>1. IsRuntime(n) /\ IsRuntime(n)'
  BY DEF TopRewritten, IsRuntime
<1> QED
  BY <1>1, DispatchOwners DEF TopRewritten, IInv

LEMMA SelectHandlerRewrites ==
    ASSUME IInv, SelectHandler PROVE \E n \in Slot : \E x : TopRewritten(n, n, x)
<1>1. PICK n, d : n \in Slot /\ n = top /\ d = frame[n]
  BY DEF IInv, TypeOK
<1>2. /\ T = d /\ d \in RuntimeFrame /\ d.kind = "throw" /\ d.tf \in ThrowFrame
      /\ frame \in [Slot -> Frame] /\ exc' = exc /\ d.pc = "search"
  BY <1>1, TopThrow DEF SelectHandler, RuntimeFrame
<1>3. PICK i, j :
        frame' = [frame EXCEPT ![top] =
            [T EXCEPT !.pc = "unwind", !.block = i, !.clause = j,
                      !.target = CatcherTarget(Fn(T.reg), i),
                      !.tf.primary_frame_base = Primary(T.reg),
                      !.tf.unwound_state = Block(Fn(T.reg), i).try_low - 1]]
  BY DEF SelectHandler
<1> DEFINE t == CatcherTarget(Fn(T.reg), i)
           p == Primary(T.reg)
           u == Block(Fn(T.reg), i).try_low - 1
<1> DEFINE x == [d EXCEPT !.pc = "unwind", !.block = i, !.clause = j, !.target = t,
                          !.tf.primary_frame_base = p, !.tf.unwound_state = u]
<1>4. /\ x.kind = "throw" /\ x.reg = d.reg /\ x.entry = d.entry /\ x.pc = "unwind"
      /\ x.tf.throw_info_if_owner = d.tf.throw_info_if_owner
      /\ x.tf.exception_object_or_link = d.tf.exception_object_or_link
  BY <1>2 DEF RuntimeFrame, ThrowFrame
<1>5. frame'[n] = x /\ \A q \in Slot : q # n => frame'[q] = frame[q]
  BY <1>1, <1>2, <1>3
<1> HIDE DEF x
<1> QED
  BY <1>1, <1>2, <1>4, <1>5 DEF TopRewritten

LEMMA MarchRewrites ==
    ASSUME IInv, SelectNothing \/ CleanupReturns \/ CopyReturns \/ AbandonException
    PROVE  \E n \in Slot : \E x : TopRewritten(n, n, x)
<1>1. PICK n, d : n \in Slot /\ n = top /\ d = frame[n]
  BY DEF IInv, TypeOK
<1>2. PICK pc : pc # "visit" /\ Dispatching(pc)
  BY DEF SelectNothing, CleanupReturns, CopyReturns, AbandonException, NothingHere, Unwound
<1>3. /\ T = d /\ d \in RuntimeFrame /\ d.kind = "throw" /\ d.tf \in ThrowFrame
      /\ frame \in [Slot -> Frame] /\ d.pc # "visit"
  BY <1>1, <1>2, TopThrow DEF RuntimeFrame
<1>4. /\ exc' = exc
      /\ \E s, t :
            /\ frame' = [frame EXCEPT ![n] = [d EXCEPT !.pc = s, !.target = t]]
            /\ s = "abandon" => d.tf.exception_object_or_link # Link(d.reg)
  <2>1. ASSUME NEW s, NEW t, frame' = [frame EXCEPT ![n] = [d EXCEPT !.pc = s, !.target = t]],
               s = "abandon" => d.tf.exception_object_or_link # Link(d.reg), exc' = exc
        PROVE  /\ exc' = exc
               /\ \E v, w :
                    /\ frame' = [frame EXCEPT ![n] = [d EXCEPT !.pc = v, !.target = w]]
                    /\ v = "abandon" => d.tf.exception_object_or_link # Link(d.reg)
    BY <2>1
  <2>2. CASE SelectNothing
    <3>1. PICK u : u = UnwoundState(T.reg)
      OBVIOUS
    <3>2. frame' = [frame EXCEPT ![n] = [d EXCEPT !.pc = "unwind", !.target = u]] /\ exc' = exc
      BY <1>1, <1>3, <2>2, <3>1 DEF SelectNothing
    <3> QED
      BY <2>1, <3>2
  <2>3. ASSUME NEW s, frame' = [frame EXCEPT ![top].pc = s], exc' = exc,
               s = "abandon" => d.tf.exception_object_or_link # Link(d.reg)
        PROVE  /\ exc' = exc
               /\ \E v, w :
                    /\ frame' = [frame EXCEPT ![n] = [d EXCEPT !.pc = v, !.target = w]]
                    /\ v = "abandon" => d.tf.exception_object_or_link # Link(d.reg)
    <3>1. [d EXCEPT !.pc = s] = [d EXCEPT !.pc = s, !.target = d.target]
      BY <1>3 DEF RuntimeFrame
    <3>2. PICK t : t = d.target
      OBVIOUS
    <3>3. frame' = [frame EXCEPT ![n] = [d EXCEPT !.pc = s, !.target = t]]
      BY <1>1, <1>3, <2>3, <3>1, <3>2
    <3> QED
      BY <2>1, <2>3, <3>3
  <2>4. CASE CleanupReturns
    BY <2>3, <2>4 DEF CleanupReturns
  <2>5. CASE CopyReturns
    BY <2>3, <2>5 DEF CopyReturns
  <2>6. CASE AbandonException
    <3>1. d.tf.exception_object_or_link # Link(d.reg)
      BY <1>3, <2>6 DEF AbandonException, IsRethrow
    <3> QED
      BY <2>3, <2>6, <3>1 DEF AbandonException
  <2> QED
    BY <2>2, <2>4, <2>5, <2>6
<1>5. PICK s, t :
        /\ frame' = [frame EXCEPT ![n] = [d EXCEPT !.pc = s, !.target = t]]
        /\ s = "abandon" => d.tf.exception_object_or_link # Link(d.reg)
  BY <1>4
<1> DEFINE x == [d EXCEPT !.pc = s, !.target = t]
<1>6. x.kind = "throw" /\ x.reg = d.reg /\ x.tf = d.tf /\ x.entry = d.entry /\ x.pc = s
  BY <1>3 DEF RuntimeFrame
<1>7. frame'[n] = x /\ \A q \in Slot : q # n => frame'[q] = frame[q]
  BY <1>1, <1>3, <1>5
<1>8. x.pc = "abandon" => frame[n].tf.exception_object_or_link # Link(x.reg)
  BY <1>1, <1>5, <1>6
<1>9. d = frame[n] /\ d.kind = "throw" /\ d.pc # "visit"
  BY <1>1, <1>3
<1> HIDE DEF x
<1> QED
  <2>1. /\ x.tf.throw_info_if_owner = frame[n].tf.throw_info_if_owner
        /\ x.tf.exception_object_or_link = frame[n].tf.exception_object_or_link
        /\ x.reg = frame[n].reg /\ x.entry = frame[n].entry /\ x.kind = "throw"
        /\ frame[n].kind = "throw" /\ frame[n].pc # "visit"
    BY <1>6, <1>9, Zenon
  <2>2. TopRewritten(n, n, x)
    BY <1>1, <1>4, <1>7, <1>8, <2>1 DEF TopRewritten
  <2> QED
    BY <1>1, <2>2

LEMMA WorkRewrites ==
    ASSUME IInv, UnwindEdge \/ BindCatchVariable
    PROVE  \E n \in Slot, p \in Slot : \E x : TopRewritten(n, p, x)
<1>1. PICK n, d, r : n \in Slot /\ n = top /\ d = frame[n] /\ r = d.reg
  BY DEF IInv, TypeOK
<1>2. Dispatching("unwind")
  BY DEF UnwindEdge, BindCatchVariable, Unwound
<1>3. /\ T = d /\ d \in RuntimeFrame /\ d.kind = "throw" /\ d.pc = "unwind"
      /\ frame \in [Slot -> Frame]
  BY <1>1, <1>2, TopThrow
<1>4. PICK p \in Slot : p = Primary(r) /\ IsFunction(p) /\ p # n
  <2>1. Catcher(r) /\ r \in Slot /\ r < n
    <3>1. ThrowOf(d, n) /\ r \in Nat /\ r < n /\ (r # 0 => r \in Slot)
      BY <1>1, <1>3, TopDispatch
    <3> QED
      BY <1>1, <1>3, <3>1 DEF ThrowOf, Catcher
  <2> QED
    BY <1>1, <2>1, UnderCatcher, Depth
<1>5. /\ exc' = exc
      /\ \E s, pc : pc # "abandon" /\ frame' = [frame EXCEPT ![p].state = s, ![n].pc = pc]
  <2>1. CASE UnwindEdge
    <3>1. PICK f, e : f = Fn(r) /\ e = State(r)
      OBVIOUS
    <3>2. PICK s, pc : s = Eh[f].next[e] /\ pc = IF e \in Eh[f].cleanup THEN "cleanup" ELSE "unwind"
      OBVIOUS
    <3>3. frame' = [frame EXCEPT ![p].state = s, ![n].pc = pc] /\ exc' = exc /\ pc # "abandon"
      BY <1>1, <1>3, <1>4, <2>1, <3>1, <3>2 DEF UnwindEdge
    <3> QED
      BY <3>3
  <2>2. CASE BindCatchVariable
    <3>1. PICK s, copies :
            /\ s = HandlerState(Fn(T.reg), T.block)
            /\ copies = CopiesFor(Block(Fn(T.reg), T.block).handlers[T.clause], GetThrowInfo(T.tf))
      OBVIOUS
    <3>2. PICK pc : pc = IF copies THEN "copy" ELSE "call"
      OBVIOUS
    <3>3. frame' = [frame EXCEPT ![p].state = s, ![n].pc = pc] /\ exc' = exc /\ pc # "abandon"
      BY <1>1, <1>3, <1>4, <2>2, <3>1, <3>2 DEF BindCatchVariable
    <3> QED
      BY <3>3
  <2> QED
    BY <2>1, <2>2
<1>6. PICK s, pc : pc # "abandon" /\ frame' = [frame EXCEPT ![p].state = s, ![n].pc = pc]
  BY <1>5
<1>7. frame[p] \in FunctionFrame
  BY <1>4, Kinds DEF IInv
<1> DEFINE x == [d EXCEPT !.pc = pc]
<1>8. x.kind = "throw" /\ x.reg = d.reg /\ x.tf = d.tf /\ x.entry = d.entry /\ x.pc = pc
  BY <1>3 DEF RuntimeFrame
<1>9. frame'[n] = x /\ \A q \in Slot : q # n /\ q # p => frame'[q] = frame[q]
  BY <1>1, <1>3, <1>4, <1>6
<1>10. IsFunction(p)'
  <2>1. frame'[p] = [frame[p] EXCEPT !.state = s]
    BY <1>3, <1>4, <1>6
  <2> QED
    BY <1>4, <1>7, <2>1 DEF IsFunction, FunctionFrame
<1> HIDE DEF x
<1> QED
  BY <1>1, <1>3, <1>4, <1>5, <1>6, <1>8, <1>9, <1>10 DEF TopRewritten

LEMMA RewritingOwners ==
    ASSUME IInv, IInv', Owners,
           \/ SelectHandler \/ SelectNothing \/ CleanupReturns \/ CopyReturns \/ AbandonException
           \/ UnwindEdge \/ BindCatchVariable
    PROVE  Owners'
<1>1. PICK n, p, x : n \in Slot /\ TopRewritten(n, p, x)
  BY SelectHandlerRewrites, MarchRewrites, WorkRewrites
<1> QED
  BY <1>1, TopRewrittenOwners

\* Between a dispatch and the registration it is at nothing owns an exception,
\* unless it has left the destructor of one.
LEMMA GapOwnsNothing ==
    ASSUME IInv, ~DestructorEscapes, NEW n \in Slot, n = top, frame[n].kind = "throw",
           NEW r \in Slot, r = frame[n].reg, Catcher(r), NEW k \in Slot, r < k, k < n
    PROVE  ~Owns(k)
<1>1. T = frame[n] /\ GapShape(n)
  BY TopDispatch
<1>2. CASE Body(r) < k
  <2>1. frame[k] = Free \/ Abandons(k, r)
    BY <1>1, <1>2 DEF GapShape
  <2>2. ~Abandons(k, r)
    BY <1>1, Depth DEF DestructorEscapes
  <2> QED
    BY <2>1, <2>2 DEF Owns, IsRuntime, Free
<1>3. CASE ~(Body(r) < k)
  <2>1. Body(r) \in Nat /\ r \in Nat /\ k \in Nat
    BY UnderCatcher, Depth
  <2>2. ~IsFunction(r) /\ k = r + 1
    BY <1>3, <2>1 DEF Body
  <2>3. frame[k].kind = "funclet"
    BY <2>2, UnderCatcher DEF Catcher
  <2> QED
    BY <2>3 DEF Owns, IsRuntime
<1> QED
  BY <1>2, <1>3

\* What a dispatch that passes registration r leaves, and what it becomes.
LEMMA PassesOwners ==
    ASSUME IInv, ~DestructorEscapes, NEW n \in Slot, n = top, frame[n].kind = "throw", T.block = 0,
           NEW r \in Slot, r = T.reg, Catcher(r), NEW tf, PassRegistration(tf)
    PROVE  /\ r < n /\ IsRuntime(n)' /\ frame'[n].tf = tf /\ ~Owns(r)'
           /\ frame[r].kind = "catch" => frame'[n].reg = frame[r].reg
           /\ frame'[n].reg <= frame[n].reg
           /\ \A k \in Slot : k # n /\ k # r => KeepsOwned(k)
<1>1. PICK d : d = frame[n]
  OBVIOUS
<1>2. /\ T = d /\ d \in RuntimeFrame /\ d.kind = "throw" /\ r = d.reg /\ r \in Nat /\ r < n
      /\ Slot \subseteq Nat /\ TypeOK
  BY <1>1, TopDispatch, Depth DEF IInv
<1> DEFINE x == [d EXCEPT !.reg = NextRegistration, !.next = 0, !.pc = "visit",
                          !.tf = tf, !.entry = -1, !.target = -1]
<1>3. x.kind = "throw" /\ x.reg = NextRegistration /\ x.tf = tf
  BY <1>2 DEF RuntimeFrame
<1>4. frame' = [k \in Slot |-> IF k = n THEN x ELSE IF r <= k /\ k < n THEN Free ELSE frame[k]]
  BY <1>1, <1>2 DEF PassRegistration
<1> HIDE DEF x
<1>5. /\ frame'[n] = x
      /\ \A k \in Slot : k # n /\ r <= k /\ k < n => frame'[k] = Free
      /\ \A k \in Slot : k # n /\ ~(r <= k /\ k < n) => frame'[k] = frame[k]
  BY <1>4
<1>6. NextRegistration = Before(r) /\ Before(r) < r /\ Before(r) \in Nat
  <2>1. SlotShape(r) /\ (IsFunction(r) \/ IsRuntime(r)) /\ r \in Registered
    BY UnderCatcher DEF IInv, Shape, Catcher, IsRuntime
  <2>2. Linked(r)
    BY <2>1 DEF SlotShape
  <2>3. frame[r].next = Before(r) /\ Before(r) < r /\ Before(r) \in Registered \cup {0}
    BY <2>1, <2>2 DEF Linked
  <2> QED
    BY <1>2, <2>3 DEF NextRegistration, Registered
<1>7. IsRuntime(n)' /\ frame'[n].tf = tf /\ frame'[n].reg = NextRegistration
  BY <1>3, <1>5 DEF IsRuntime
<1>8. frame[r].kind = "catch" => frame'[n].reg = frame[r].reg
  BY <1>6, <1>7 DEF Before, IsFunction
<1>9. frame'[n].reg <= frame[n].reg
  BY <1>1, <1>2, <1>6, <1>7
<1>10. ~Owns(r)'
  <2>1. frame'[r] = Free
    BY <1>2, <1>5
  <2> QED
    BY <2>1 DEF Owns, IsRuntime, Free
<1>11. ASSUME NEW k \in Slot, k # n, k # r PROVE KeepsOwned(k)
  <2>1. CASE r < k /\ k < n
    <3>1. ~Owns(k)
      BY <1>1, <1>2, <2>1, GapOwnsNothing
    <3>2. frame'[k] = Free
      BY <1>2, <1>5, <1>11, <2>1
    <3> QED
      BY <3>1, <3>2 DEF KeepsOwned, Owns, IsRuntime, Free
  <2>2. CASE ~(r < k /\ k < n)
    <3>1. k \in Nat
      BY <1>2
    <3>2. ~(r <= k /\ k < n)
      BY <1>2, <1>11, <2>2, <3>1
    <3>3. frame'[k] = frame[k]
      BY <1>5, <1>11, <3>2
    <3> QED
      BY <1>2, <3>3, PlainOwner
  <2> QED
    BY <2>1, <2>2
<1> QED
  BY <1>2, <1>7, <1>8, <1>9, <1>10, <1>11

\* The dispatch itself, when it passes a registration with the frame it has.
LEMMA PasserOwns ==
    ASSUME IInv, NEW n \in Slot, IsRuntime(n), IsRuntime(n)', frame'[n].tf = frame[n].tf,
           frame'[n].reg <= frame[n].reg
    PROVE  KeepsOwned(n)
BY DEF KeepsOwned, Owns

LEMMA PassFunctionOwners ==
    ASSUME IInv, IInv', Owners, ~DestructorEscapes, PassFunction PROVE Owners'
<1>1. PICK n, r, tf : n \in Slot /\ n = top /\ r = T.reg /\ tf = T.tf
  BY DEF IInv, TypeOK
<1>2. /\ Dispatching("unwind") /\ T.block = 0 /\ IsFunction(r) /\ PassRegistration(tf) /\ exc' = exc
  BY <1>1 DEF PassFunction, NothingHere, Unwound
<1>3. T = frame[n] /\ T \in RuntimeFrame /\ frame[n].kind = "throw" /\ IsRuntime(n) /\ T.pc = "unwind"
  BY <1>1, <1>2, TopThrow
<1>4. Catcher(r) /\ r \in Slot /\ r < n
  <2>1. ThrowOf(frame[n], n) /\ r \in Nat /\ r < n /\ (r # 0 => r \in Slot)
    BY <1>1, <1>3, TopDispatch
  <2> QED
    BY <1>1, <1>3, <2>1 DEF ThrowOf, Catcher
<1>5. /\ IsRuntime(n)' /\ frame'[n].tf = tf /\ ~Owns(r)'
      /\ frame'[n].reg <= frame[n].reg
      /\ \A k \in Slot : k # n /\ k # r => KeepsOwned(k)
  BY <1>1, <1>2, <1>3, <1>4, PassesOwners
<1>6. KeepsOwned(n)
  BY <1>1, <1>3, <1>5, PasserOwns
<1>7. KeepsOwned(r)
  BY <1>2, <1>5 DEF KeepsOwned, Owns, IsRuntime, IsFunction
<1>8. \A k \in Slot : KeepsOwned(k)
  BY <1>5, <1>6, <1>7
<1> QED
  BY <1>2, <1>8, OwnersStay DEF IInv

\* A rethrow that passes the catch frame it is linked to takes over what that
\* frame owns.
LEMMA TakeFromCatchFrameOwners ==
    ASSUME IInv, IInv', Owners, ~DestructorEscapes, TakeFromCatchFrame PROVE Owners'
<1>1. PICK n, r, tf : n \in Slot /\ n = top /\ r = T.reg /\ tf = T.tf
  BY DEF IInv, TypeOK
<1>2. /\ Dispatching("unwind") /\ T.block = 0 /\ frame[r].kind = "catch" /\ exc' = exc
      /\ PassRegistration(TakeFrom(tf, r)) /\ tf.exception_object_or_link = Link(r)
  BY <1>1 DEF TakeFromCatchFrame, NothingHere, Unwound, IsRethrow
<1>3. /\ T = frame[n] /\ T \in RuntimeFrame /\ frame[n].kind = "throw" /\ IsRuntime(n) /\ T.pc = "unwind"
      /\ tf \in ThrowFrame
  BY <1>1, <1>2, TopThrow DEF RuntimeFrame
<1>4. Catcher(r) /\ r \in Slot /\ r < n
  <2>1. ThrowOf(frame[n], n) /\ r \in Nat /\ r < n /\ (r # 0 => r \in Slot)
    BY <1>1, <1>3, TopDispatch
  <2> QED
    BY <1>1, <1>3, <2>1 DEF ThrowOf, Catcher
<1>5. PICK a : a = TakeFrom(tf, r)
  OBVIOUS
<1>6. /\ a.throw_info_if_owner = frame[r].tf.throw_info_if_owner
      /\ a.exception_object_or_link = frame[r].tf.exception_object_or_link
  BY <1>3, <1>5 DEF TakeFrom, ThrowFrame
<1>7. /\ IsRuntime(n)' /\ frame'[n].tf = a /\ ~Owns(r)'
      /\ frame'[n].reg = frame[r].reg
      /\ \A k \in Slot : k # n /\ k # r => KeepsOwned(k)
  BY <1>1, <1>2, <1>3, <1>4, <1>5, PassesOwners
<1>8. ~Owns(n)
  BY <1>1, <1>2, <1>3, OwnsObject
<1>9. Owns(n)' <=> Owns(r)
  BY <1>2, <1>6, <1>7 DEF Owns, IsRuntime
<1>10. CASE Owns(r)
  <2>1. frame'[n].reg <= frame[r].reg
    <3>1. frame[r] \in RuntimeFrame /\ MaxDepth \in Nat
      BY <1>4, <1>10, Kinds, Depth DEF Owns, IInv
    <3>2. frame[r].reg \in Int
      BY <3>1 DEF RuntimeFrame
    <3> QED
      BY <1>7, <3>2
  <2>2. /\ Owns(n)'
        /\ frame'[n].tf.exception_object_or_link = frame[r].tf.exception_object_or_link
        /\ frame'[n].tf.throw_info_if_owner = frame[r].tf.throw_info_if_owner
        /\ \A k \in Slot : k # r /\ k # n => KeepsOwned(k)
    BY <1>6, <1>7, <1>9, <1>10
  <2> QED
    BY <1>1, <1>2, <1>4, <1>7, <1>8, <1>10, <2>1, <2>2, OwnerMoves DEF IInv
<1>11. CASE ~Owns(r)
  <2>1. KeepsOwned(r) /\ KeepsOwned(n)
    BY <1>7, <1>8, <1>9, <1>11 DEF KeepsOwned
  <2>2. \A k \in Slot : KeepsOwned(k)
    BY <1>7, <2>1
  <2> QED
    BY <1>2, <2>2, OwnersStay DEF IInv
<1> QED
  BY <1>10, <1>11

\* The exception of an abandoned handler is destroyed with its frame.
LEMMA PassCatchFrameOwners ==
    ASSUME IInv, IInv', Owners, ~DestructorEscapes, PassCatchFrame PROVE Owners'
<1>1. PICK n, r, tf : n \in Slot /\ n = top /\ r = T.reg /\ tf = T.tf
  BY DEF IInv, TypeOK
<1>2. /\ Dispatching("abandon") /\ PassRegistration(tf) /\ exc' = DestroyedBy(frame[r].tf)
  BY <1>1 DEF PassCatchFrame
<1>3. T = frame[n] /\ T \in RuntimeFrame /\ frame[n].kind = "throw" /\ IsRuntime(n) /\ T.pc = "abandon"
  BY <1>1, <1>2, TopThrow
<1>4. Catcher(r) /\ r \in Slot /\ r < n /\ frame[r].kind = "catch" /\ T.block = 0
  <2>1. ThrowOf(frame[n], n) /\ r \in Nat /\ r < n /\ (r # 0 => r \in Slot)
    BY <1>1, <1>3, TopDispatch
  <2> QED
    BY <1>1, <1>3, <2>1 DEF ThrowOf, Catcher
<1>5. /\ IsRuntime(n)' /\ frame'[n].tf = tf /\ ~Owns(r)'
      /\ frame'[n].reg <= frame[n].reg
      /\ \A k \in Slot : k # n /\ k # r => KeepsOwned(k)
  BY <1>1, <1>2, <1>3, <1>4, PassesOwners
<1>6. KeepsOwned(n)
  BY <1>1, <1>3, <1>5, PasserOwns
<1>7. IsRuntime(r) /\ \A k \in Slot : k # r => KeepsOwned(k)
  BY <1>4, <1>5, <1>6 DEF IsRuntime
<1> QED
  BY <1>2, <1>4, <1>5, <1>7, OwnerGone DEF IInv

\* A throw frame becomes a catch frame, and its exception stays where it is.
LEMMA CallHandlerOwners == ASSUME IInv, IInv', Owners, CallHandler PROVE Owners'
<1>1. PICK n, d : n \in Slot /\ n = top /\ d = frame[n]
  BY DEF IInv, TypeOK
<1>2. /\ IsRuntime(n) /\ T = d /\ d \in RuntimeFrame /\ d.kind = "throw" /\ frame \in [Slot -> Frame]
      /\ TypeOK /\ TypeOK'
  BY <1>1, TopThrow DEF CallHandler, IInv
<1>3. PICK m \in Slot : m = n + 1 /\ m # n /\ m > n
  BY <1>1, <1>2, TopDispatch, Depth DEF ThrowOf, Slot
<1> DEFINE x == [d EXCEPT !.kind = "catch", !.pc = "handler", !.next = head,
                          !.entry = -1, !.target = -1, !.clause = 0]
           y == [kind |-> "funclet", block |-> T.block, primary |-> Primary(top)]
<1>4. x.kind = "catch" /\ x.reg = d.reg /\ x.tf = d.tf /\ y.kind = "funclet"
  BY <1>2 DEF RuntimeFrame
<1>5. frame' = [frame EXCEPT ![n] = x, ![m] = y] /\ exc' = exc
  BY <1>1, <1>2, <1>3 DEF CallHandler
<1> HIDE DEF x, y
<1>6. frame'[n] = x /\ frame'[m] = y /\ \A q \in Slot : q # n /\ q # m => frame'[q] = frame[q]
  BY <1>1, <1>2, <1>3, <1>5
<1>7. KeepsOwned(n)
  <2>1. IsRuntime(n)'
    BY <1>4, <1>6 DEF IsRuntime
  <2> QED
    BY <1>1, <1>2, <1>4, <1>6, <2>1, RuntimeOwner
<1>8. KeepsOwned(m)
  <2>1. frame[m] = Free
    BY <1>1, <1>3, TopFacts
  <2>2. ~IsRuntime(m) /\ ~IsRuntime(m)'
    BY <1>4, <1>6, <2>1 DEF IsRuntime, Free
  <2> QED
    BY <1>2, <2>2, PlainOwner
<1>9. ASSUME NEW k \in Slot PROVE KeepsOwned(k)
  <2>1. CASE k # n /\ k # m
    BY <1>2, <1>6, <2>1, PlainOwner
  <2> QED
    BY <1>7, <1>8, <2>1
<1> QED
  BY <1>2, <1>5, <1>9, OwnersStay

\* A catch frame becomes one to destroy.
LEMMA CatchReturnOwners == ASSUME IInv, IInv', Owners, CatchReturn PROVE Owners'
<1>1. PICK m \in Slot : m = top
  BY DEF IInv, TypeOK
<1>2. frame[m].kind = "funclet"
  BY <1>1 DEF CatchReturn, Running, InHandlerState, IsUser, IsFunction
<1>3. PICK n \in Slot : n = m - 1 /\ frame[n].kind = "catch" /\ n # m
  BY <1>1, <1>2, TopFacts, Depth
<1>4. PICK d : d = frame[n]
  OBVIOUS
<1>5. d \in RuntimeFrame /\ frame \in [Slot -> Frame] /\ IsRuntime(n) /\ d.kind = "catch" /\ TypeOK /\ TypeOK'
  BY <1>3, <1>4, Kinds DEF IInv, TypeOK, IsRuntime
<1> DEFINE x == [d EXCEPT !.kind = "destroy", !.pc = "destroy"]
<1>6. x.kind = "destroy" /\ x.reg = d.reg /\ x.tf = d.tf
  BY <1>5 DEF RuntimeFrame
<1>7. frame' = [frame EXCEPT ![m] = Free, ![n] = x] /\ exc' = exc
  <2>1. frame' = [frame EXCEPT ![m] = Free, ![n] = [@ EXCEPT !.kind = "destroy", !.pc = "destroy"]]
    BY <1>1, <1>3 DEF CatchReturn
  <2>2. frame' = [frame EXCEPT ![m] = Free, ![n] = x]
    BY <1>3, <1>4, <2>1
  <2> QED
    BY <2>2 DEF CatchReturn
<1> HIDE DEF x
<1>8. frame'[n] = x /\ frame'[m] = Free /\ \A q \in Slot : q # n /\ q # m => frame'[q] = frame[q]
  BY <1>3, <1>5, <1>7
<1>9. KeepsOwned(n)
  <2>1. IsRuntime(n)'
    BY <1>6, <1>8 DEF IsRuntime
  <2> QED
    BY <1>4, <1>5, <1>6, <1>8, <2>1, RuntimeOwner
<1>10. KeepsOwned(m)
  <2>1. ~IsRuntime(m) /\ ~IsRuntime(m)'
    BY <1>2, <1>8 DEF IsRuntime, Free
  <2> QED
    BY <1>5, <2>1, PlainOwner
<1>11. ASSUME NEW k \in Slot PROVE KeepsOwned(k)
  <2>1. CASE k # n /\ k # m
    BY <1>5, <1>8, <2>1, PlainOwner
  <2> QED
    BY <1>9, <1>10, <2>1
<1> QED
  BY <1>5, <1>7, <1>11, OwnersStay

\* The exception of a handler that has returned is destroyed with its frame.
LEMMA ContinueOwners == ASSUME IInv, IInv', Owners, ContinueAfterException PROVE Owners'
<1>1. PICK n, d, p : n \in Slot /\ n = top /\ d = frame[n] /\ p = d.tf.primary_frame_base
  BY DEF IInv, TypeOK
<1>2. d.kind = "destroy" /\ T = d /\ IsRuntime(n) /\ TypeOK /\ TypeOK' /\ frame \in [Slot -> Frame]
  BY <1>1 DEF ContinueAfterException, T, IsRuntime, IInv, TypeOK
<1>3. p \in Slot /\ IsFunction(p) /\ frame[p] \in FunctionFrame /\ p # n
  <2>1. HandlingOf(d, n)
    BY <1>1, <1>2 DEF IInv, Shape, SlotShape, Handles, HandlingShape
  <2>2. p \in Slot /\ IsFunction(p) /\ p < n
    BY <1>1, <2>1 DEF HandlingOf
  <2>3. p \in Nat /\ n \in Nat
    BY <1>1, <2>2, Depth
  <2> QED
    BY <1>2, <2>2, <2>3, Kinds
<1>4. PICK s : s = Eh[frame[p].fn].next[Block(frame[p].fn, d.block).try_low]
  OBVIOUS
<1>5. frame' = [frame EXCEPT ![n] = Free, ![p].state = s] /\ exc' = DestroyedBy(d.tf)
  BY <1>1, <1>2, <1>4 DEF ContinueAfterException
<1>6. /\ frame'[n] = Free /\ frame'[p] = [frame[p] EXCEPT !.state = s]
      /\ \A q \in Slot : q # n /\ q # p => frame'[q] = frame[q]
  BY <1>1, <1>2, <1>3, <1>5
<1>7. ~IsRuntime(p) /\ ~IsRuntime(p)' /\ ~Owns(n)'
  BY <1>3, <1>6 DEF IsFunction, IsRuntime, FunctionFrame, Owns, Free
<1>8. ASSUME NEW k \in Slot, k # n PROVE KeepsOwned(k)
  BY <1>2, <1>6, <1>7, <1>8, PlainOwner
<1>9. exc' = DestroyedBy(frame[n].tf)
  BY <1>1, <1>5
<1> QED
  BY <1>1, <1>2, <1>7, <1>8, <1>9, OwnerGone

LEMMA OwnersStill == ASSUME Owners, UNCHANGED <<frame, exc>> PROVE Owners'
BY DEF Owners, OwnerOf, Owns, IsRuntime, Object

LEMMA InitOwners == Init => Owners
<1> SUFFICES ASSUME Init PROVE Owners
  OBVIOUS
<1>1. ASSUME NEW k \in Slot PROVE ~Owns(k)
  BY DEF Init, Owns, IsRuntime, Free
<1>2. \A t \in Slot : exc[t] = NoInfo
  BY DEF Init
<1> QED
  BY <1>1, <1>2 DEF Owners, OwnerOf

LEMMA NextOwners == IInv /\ Owners /\ OwnershipRespected /\ [Next]_vars => Owners'
<1> SUFFICES ASSUME IInv, Owners, OwnershipRespected, [Next]_vars PROVE Owners'
  OBVIOUS
<1>1. IInv' /\ ~ReturnsToOwner /\ ~DestructorEscapes
  BY NextIInv DEF OwnershipRespected
<1>2. ASSUME NEW f \in Fns, Call(f) PROVE Owners'
  BY <1>1, <1>2, CallOwners
<1>3. ASSUME NEW s, Enter(s) PROVE Owners'
  BY <1>1, <1>3, EnterOwners
<1>4. CASE Leave
  BY <1>1, <1>4, LeaveOwners
<1>5. CASE Return
  BY <1>1, <1>5, ReturnOwners
<1>6. CASE CatchReturn
  BY <1>1, <1>6, CatchReturnOwners
<1>7. ASSUME NEW t \in Types, Throw(t) PROVE Owners'
  BY <1>1, <1>7, ThrowOwners
<1>8. CASE Rethrow
  BY <1>1, <1>8, RethrowOwners
<1>9. CASE VisitFunction
  BY <1>1, <1>9, VisitFunctionOwners
<1>10. CASE VisitCatchFrame
  BY <1>1, <1>10, VisitCatchFrameOwners
<1>11. CASE RejectTable \/ VisitForeign \/ SearchFails \/ NoexceptViolation
  BY <1>11, OwnersStill DEF RejectTable, VisitForeign, SearchFails, NoexceptViolation, Halt
<1>12. CASE ProbeForObject
  BY <1>1, <1>12, ProbeForObjectOwners
<1>13. CASE \/ SelectHandler \/ SelectNothing \/ CleanupReturns \/ CopyReturns \/ AbandonException
            \/ UnwindEdge \/ BindCatchVariable
  BY <1>1, <1>13, RewritingOwners
<1>14. CASE PassFunction
  BY <1>1, <1>14, PassFunctionOwners
<1>15. CASE TakeFromCatchFrame
  BY <1>1, <1>15, TakeFromCatchFrameOwners
<1>16. CASE PassCatchFrame
  BY <1>1, <1>16, PassCatchFrameOwners
<1>17. CASE CallHandler
  BY <1>1, <1>17, CallHandlerOwners
<1>18. CASE ContinueAfterException
  BY <1>1, <1>18, ContinueOwners
<1>19. CASE UNCHANGED vars
  BY <1>19, OwnersStill DEF vars
<1> QED
  BY <1>2, <1>3, <1>4, <1>5, <1>6, <1>7, <1>8, <1>9, <1>10, <1>11, <1>12, <1>13, <1>14,
     <1>15, <1>16, <1>17, <1>18, <1>19
     DEF Next, UserCode, Runtime, Halted

\* As long as no rethrow links itself to a handler's catch frame before it comes
\* to it, and no exception leaves the destructor of an abandoned one, every live
\* exception object has exactly one owner, a frame that knows its type, whoever
\* throws, rethrows, abandons and catches.
THEOREM OwnersAreUnique == Spec /\ []OwnershipRespected => []OneOwner
<1>1. Init => IInv /\ Owners
  BY InitIInv, InitOwners
<1>2. IInv /\ Owners /\ OwnershipRespected /\ [Next]_vars => (IInv /\ Owners)'
  BY NextIInv, NextOwners
<1>3. Owners => OneOwner
  BY OwnersAreOne
<1> QED
  BY <1>1, <1>2, <1>3, PTL DEF Spec

=============================================================================
