------------------------- MODULE ThrowX86SearchProofs -------------------------
(***************************************************************************)
(* More theorems about ThrowX86, for every program and every depth of      *)
(* stack, on top of the invariants of ThrowX86Proofs: where control is in  *)
(* each function, what each runtime frame refers to and which exception it *)
(* is about, when the machine stops, which handler is chosen, and that the *)
(* runtime implements ExceptionLifetime.                                   *)
(***************************************************************************)
EXTENDS ThrowX86Proofs, SequenceTheorems

----------------------------------------------------------------------------
(***************************************************************************)
(* Where control is in the functions: what a handler, or a function's      *)
(* body, goes on with is the state its own code has left.                  *)
(***************************************************************************)

\* Frame q runs a handler for the function in slot p, or unwinds the function.
Covers(q, p) ==
    \/ frame[q].kind = "funclet" /\ frame[q].primary = p
    \/ (Called(q) \/ frame[q].kind = "destroy") /\ Base(q) = p
    \/ /\ frame[q].kind = "throw" /\ frame[q].pc \in {"unwind", "cleanup", "abandon"}
       /\ Primary(frame[q].reg) = p

\* Code whose function nothing above it works on is where its function's state
\* says: in its own handler, or in the body, and in scopes of that.
HomeShape(k) ==
    IsUser(k) /\ (\A q \in Slot : q > k => ~Covers(q, Primary(k))) =>
        Within(Fn(k), Home(k), State(k))

\* The code that is searched for a handler goes on, after the handler or from it,
\* around the try statement.
HomeOf(k) ==
    Handles(k) =>
        Within(frame[Base(k)].fn, Home(frame[k].reg), Around(frame[Base(k)].fn, frame[k].block))

\* A handler about to be called is the one its function has entered.
EnteredShape(k) ==
    frame[k].kind = "throw" /\ frame[k].pc \in {"copy", "call"} =>
        Within(frame[Base(k)].fn, frame[k].block, frame[Base(k)].state)

\* What holds of control in frame k.
HomeAt(k) == HomeShape(k) /\ HomeOf(k) /\ EnteredShape(k)

Homes == \A k \in Slot : HomeAt(k)

\* Slot j keeps its frame, or the function in it.
Stays(j) ==
    \/ frame'[j] = frame[j]
    \/ IsFunction(j) /\ frame'[j].kind = "function" /\ frame'[j].fn = frame[j].fn

StaysBelow(n) == \A j \in Slot : j < n => Stays(j)

\* What works above slot n on a function worked on still does, or something else.
CoveredAbove(n) ==
    \A k \in Slot, p \in Slot :
        k < n /\ IsUser(k) /\ Primary(k) = p /\ (\E q \in Slot : q >= n /\ Covers(q, p)) =>
            \E q \in Slot : q > k /\ Covers(q, p)'

\* What keeps its frame, or its function, keeps its place.
LEMMA StaysFacts ==
    ASSUME NEW j, Stays(j)
    PROVE  /\ frame'[j].kind = frame[j].kind
           /\ IsFunction(j) => IsFunction(j)' /\ frame'[j].fn = frame[j].fn
           /\ ~IsFunction(j) => frame'[j] = frame[j]
           /\ Primary(j)' = Primary(j) /\ Home(j)' = Home(j)
BY DEF Stays, IsFunction, Primary, Home

\* User code has the frame of a function below it.
LEMMA UserFacts ==
    ASSUME IInv, NEW k \in Slot, IsUser(k), NEW p, p = Primary(k)
    PROVE  /\ p \in Slot /\ p <= k /\ IsFunction(p) /\ frame[p] \in FunctionFrame
           /\ frame[p].fn \in Fns /\ frame[p].state \in States(frame[p].fn)
           /\ k \in Nat /\ p \in Nat /\ k <= top
           /\ ~IsFunction(k) => k > 1 /\ frame[k - 1].kind = "catch" /\ k - 1 \in Slot /\ p < k - 1
                /\ frame[k].kind = "funclet" /\ frame[k].primary = p /\ p = Base(k - 1)
                /\ Home(k) = frame[k - 1].block /\ frame[k].block = frame[k - 1].block
           /\ IsFunction(k) => p = k /\ Home(k) = 0
<1>1. k \in Nat /\ top \in Nat /\ SlotShape(k) /\ frame[k] # Free
  BY Depth DEF IInv, TypeOK, Shape, IsUser, Free
<1>2. k <= top
  <2>1. ~(k > top)
    BY <1>1 DEF SlotShape
  <2> QED
    BY <1>1, <2>1
<1>3. CASE IsFunction(k)
  <2>1. p = k /\ Home(k) = 0
    BY <1>3 DEF Primary, Home, IsFunction
  <2>2. frame[k] \in FunctionFrame /\ frame[k].state \in States(frame[k].fn)
    BY <1>1, <1>3, Kinds DEF IInv, SlotShape, FunctionShape, IsFunction
  <2>3. frame[k].fn \in Fns
    BY <2>2 DEF FunctionFrame
  <2> QED
    BY <1>1, <1>2, <1>3, <2>1, <2>2, <2>3
<1>4. CASE ~IsFunction(k)
  <2>1. frame[k].kind = "funclet"
    BY <1>4 DEF IsUser, IsFunction
  <2>2. /\ k > 1 /\ frame[k - 1].kind = "catch" /\ frame[k].block = frame[k - 1].block
        /\ frame[k].primary = frame[k - 1].tf.primary_frame_base
    BY <1>1, <2>1 DEF SlotShape, FuncletShape
  <2>3. PICK c \in Slot : c = k - 1
    BY <1>1, <2>2, Depth DEF Slot
  <2>4. p = frame[k].primary /\ p = Base(c) /\ Home(k) = frame[c].block
    BY <1>4, <2>1, <2>2, <2>3 DEF Primary, Home, Base, IsFunction
  <2>5. Called(c)
    BY <2>2, <2>3 DEF Called
  <2>6. /\ p \in Slot /\ p < c /\ IsFunction(p) /\ frame[p] \in FunctionFrame
        /\ frame[p].fn \in Fns /\ frame[p].state \in States(frame[p].fn)
    BY <2>4, <2>5, CalledFacts
  <2>7. p \in Nat /\ c \in Nat
    BY <2>3, <2>6, Depth
  <2>8. p < k - 1 /\ p <= k
    BY <1>1, <2>3, <2>6, <2>7
  <2> QED
    BY <1>1, <1>2, <1>4, <2>1, <2>2, <2>3, <2>4, <2>6, <2>7, <2>8
<1> QED
  BY <1>3, <1>4

\* Whatever works on a function below slot n still does.
LEMMA CoversStay ==
    ASSUME IInv, NEW n \in Int, StaysBelow(n), NEW q \in Slot, q < n, NEW p, Covers(q, p)
    PROVE  Covers(q, p)'
<1>1. ~IsFunction(q) /\ Stays(q)
  BY DEF Covers, Called, IsFunction, StaysBelow
<1>2. frame'[q] = frame[q]
  BY <1>1, StaysFacts
<1>3. CASE frame[q].kind = "throw" /\ frame[q].pc \in {"unwind", "cleanup", "abandon"}
           /\ Primary(frame[q].reg) = p
  <2>1. PICK r : r = frame[q].reg
    OBVIOUS
  <2>2. SlotShape(q) /\ IsRuntime(q)
    BY <1>3 DEF IInv, Shape, IsRuntime
  <2>3. Linked(q) /\ Before(q) = r /\ Catcher(r)
    BY <1>1, <1>3, <2>1, <2>2 DEF SlotShape, Before, ThrowShape, ThrowOf
  <2>4. r < q /\ r \in Slot
    BY <2>3, Depth DEF Linked, Catcher, Registered
  <2>5. Stays(r)
    <3>1. r \in Int /\ q \in Int
      BY <2>4, Depth
    <3>2. r < n
      BY <2>4, <3>1
    <3> QED
      BY <2>4, <3>2 DEF StaysBelow
  <2>6. Primary(r)' = Primary(r)
    BY <2>5, StaysFacts
  <2> QED
    BY <1>2, <1>3, <2>1, <2>6 DEF Covers
<1>4. CASE ~(frame[q].kind = "throw" /\ frame[q].pc \in {"unwind", "cleanup", "abandon"}
             /\ Primary(frame[q].reg) = p)
  BY <1>2, <1>4 DEF Covers, Called, Base
<1> QED
  BY <1>3, <1>4

\* Below slot n only the function in slot p has changed.
LEMMA HomesBelow ==
    ASSUME IInv, IInv', Homes, NEW n \in Int, StaysBelow(n), CoveredAbove(n),
           NEW k \in Slot, k < n, NEW p, \A j \in Slot : j < n /\ j # p => frame'[j] = frame[j],
           IsUser(k) /\ Primary(k) = p => HomeShape(k)',
           Called(k) /\ Base(k) = p => EnteredShape(k)'
    PROVE  HomeAt(k)'
<1>1. HomeShape(k) /\ HomeOf(k) /\ EnteredShape(k) /\ Stays(k)
  BY DEF Homes, HomeAt, StaysBelow
<1>2. k \in Int
  BY Depth
<1>3. HomeShape(k)'
  <2>1. SUFFICES ASSUME IsUser(k)', \A q \in Slot : q > k => ~(Covers(q, Primary(k))')
                 PROVE  Within(Fn(k), Home(k), State(k))'
    BY DEF HomeShape
  <2>2. IsUser(k) /\ Primary(k)' = Primary(k) /\ Home(k)' = Home(k)
    BY <1>1, <2>1, StaysFacts DEF IsUser
  <2>3. PICK P : P = Primary(k)
    OBVIOUS
  <2>4. P \in Slot /\ P <= k /\ P \in Int /\ IsFunction(P)
    BY <2>2, <2>3, UserFacts
  <2>5. CASE P = p
    <3>1. HomeShape(k)'
      BY <2>2, <2>3, <2>5
    <3> QED
      BY <2>1, <3>1 DEF HomeShape
  <2>6. CASE P # p
    <3>1. frame'[P] = frame[P]
      BY <1>2, <2>4, <2>6
    <3>2. ASSUME NEW q \in Slot, q > k, Covers(q, P) PROVE FALSE
      <4>1. q \in Int
        BY Depth
      <4>2. CASE q < n
        <5>1. Covers(q, P)'
          BY <3>2, <4>2, CoversStay
        <5> QED
          BY <2>1, <2>2, <2>3, <3>2, <5>1
      <4>3. CASE ~(q < n)
        <5>1. q >= n
          BY <4>1, <4>3
        <5>2. \E o \in Slot : o > k /\ Covers(o, P)'
          BY <2>2, <2>3, <2>4, <3>2, <5>1 DEF CoveredAbove
        <5> QED
          BY <2>1, <2>2, <2>3, <5>2
      <4> QED
        BY <4>2, <4>3
    <3>3. Within(Fn(k), Home(k), State(k))
      BY <1>1, <2>2, <2>3, <3>2 DEF HomeShape
    <3>4. Fn(k)' = Fn(k) /\ State(k)' = State(k)
      BY <2>2, <2>3, <3>1 DEF Fn, State
    <3> QED
      BY <2>2, <3>3, <3>4 DEF Within
  <2> QED
    BY <2>5, <2>6
<1>4. HomeOf(k)'
  <2>1. SUFFICES ASSUME Handles(k)' PROVE HomeOf(k)'
    BY DEF HomeOf
  <2>2. frame'[k] = frame[k] /\ IsRuntime(k)
    <3>1. ~IsFunction(k)' /\ ~IsFunction(k)
      BY <1>1, <2>1 DEF Handles, Stays, IsFunction
    <3>2. frame'[k] = frame[k]
      BY <1>1, <3>1, StaysFacts
    <3> QED
      BY <2>1, <3>2 DEF Handles, IsRuntime
  <2>3. Handles(k)
    BY <2>1, <2>2 DEF Handles
  <2>4. PICK b, r : b = Base(k) /\ r = frame[k].reg
    OBVIOUS
  <2>5. HandlingOf(frame[k], k) /\ Linked(k) /\ Before(k) = r
    BY <2>2, <2>3, <2>4 DEF IInv, Shape, SlotShape, HandlingShape, Before, IsRuntime, IsFunction
  <2>6. b \in Slot /\ b < k /\ IsFunction(b) /\ r \in Slot /\ r < k
    BY <2>4, <2>5, Depth DEF HandlingOf, Linked, Catcher, Registered, Base
  <2>7. Stays(b) /\ Stays(r)
    <3>1. b \in Int /\ r \in Int
      BY <2>6, Depth
    <3>2. b < n /\ r < n
      BY <1>2, <2>6, <3>1
    <3> QED
      BY <2>6, <3>2 DEF StaysBelow
  <2>8. frame'[b].fn = frame[b].fn /\ Home(r)' = Home(r)
    BY <2>6, <2>7, StaysFacts
  <2>9. Within(frame[b].fn, Home(r), Around(frame[b].fn, frame[k].block))
    BY <1>1, <2>3, <2>4 DEF HomeOf
  <2>10. PICK h : h = Home(r)
    OBVIOUS
  <2>11. /\ frame'[k].tf.primary_frame_base = b /\ frame'[b].fn = frame[b].fn
         /\ Home(frame[k].reg)' = h /\ frame'[k].block = frame[k].block
    BY <2>2, <2>4, <2>8, <2>10 DEF Base, Home
  <2> QED
    BY <2>9, <2>10, <2>11 DEF HomeOf, Base, Within, Around
<1>5. EnteredShape(k)'
  <2>1. SUFFICES ASSUME frame'[k].kind = "throw", frame'[k].pc \in {"copy", "call"} PROVE EnteredShape(k)'
    BY DEF EnteredShape
  <2>2. frame'[k] = frame[k]
    BY <1>1, <2>1 DEF Stays
  <2>3. Called(k)
    BY <2>1, <2>2 DEF Called
  <2>4. PICK b : b = Base(k)
    OBVIOUS
  <2>5. b \in Slot /\ b < k
    BY <2>3, <2>4, CalledFacts
  <2>6. CASE b = p
    BY <2>3, <2>4, <2>6
  <2>7. CASE b # p
    <3>1. frame'[b] = frame[b]
      <4>1. b \in Int
        BY ONLY <2>5, Depth
      <4> QED
        BY <1>2, <2>5, <2>7, <4>1
    <3> QED
      BY <1>1, <2>1, <2>2, <2>4, <3>1 DEF EnteredShape, Base, Within
  <2> QED
    BY <2>6, <2>7
<1> QED
  BY <1>3, <1>4, <1>5 DEF HomeAt

\* What a step owes to the frames below slot n, of which only function p moves,
\* and to those from there on.
OnlyMoves(n, p) == \A j \in Slot : j < n /\ j # p => frame'[j] = frame[j]

HomesWith(n, p) ==
    \A k \in Slot : k < n =>
        /\ IsUser(k) /\ Primary(k) = p => HomeShape(k)'
        /\ Called(k) /\ Base(k) = p => EnteredShape(k)'

HomesAbove(n) == \A k \in Slot : k >= n => HomeAt(k)'

\* Whatever a step leaves as it is, or moves only downwards, stays home.
LEMMA HomesStep ==
    ASSUME IInv, IInv', Homes, NEW n \in Int, StaysBelow(n), CoveredAbove(n),
           NEW p, OnlyMoves(n, p), HomesWith(n, p), HomesAbove(n)
    PROVE  Homes'
<1>1. ASSUME NEW k \in Slot PROVE HomeAt(k)'
  <2>1. k \in Int
    BY Depth
  <2>2. CASE k < n
    <3>1. \A j \in Slot : j < n /\ j # p => frame'[j] = frame[j]
      BY DEF OnlyMoves
    <3>2. /\ IsUser(k) /\ Primary(k) = p => HomeShape(k)'
          /\ Called(k) /\ Base(k) = p => EnteredShape(k)'
      BY <2>2 DEF HomesWith
    <3> QED
      BY <2>2, <3>1, <3>2, HomesBelow
  <2>3. CASE ~(k < n)
    <3>1. k >= n
      BY <2>1, <2>3
    <3> QED
      BY <3>1 DEF HomesAbove
  <2> QED
    BY <2>2, <2>3
<1> QED
  BY <1>1 DEF Homes

\* No function is in slot 0.
LEMMA NoneMoves ==
    ASSUME IInv, NEW n, \A j \in Slot : j < n => frame'[j] = frame[j]
    PROVE  StaysBelow(n) /\ OnlyMoves(n, 0) /\ HomesWith(n, 0)
<1>1. StaysBelow(n) /\ OnlyMoves(n, 0)
  BY DEF StaysBelow, Stays, OnlyMoves
<1>2. ASSUME NEW k \in Slot, IsUser(k) PROVE Primary(k) # 0
  <2>1. Primary(k) \in Slot
    BY <1>2, UserFacts
  <2> QED
    BY <2>1 DEF Slot
<1>3. ASSUME NEW k \in Slot, Called(k) PROVE Base(k) # 0
  <2>1. Base(k) \in Slot
    BY <1>3, CalledFacts
  <2> QED
    BY <2>1 DEF Slot
<1> QED
  BY <1>1, <1>2, <1>3 DEF HomesWith

\* A free slot is home.
LEMMA NothingHome ==
    ASSUME NEW k, \/ frame'[k] = Free
                  \/ frame'[k].kind = "throw" /\ frame'[k].block = 0 /\ frame'[k].pc \notin {"copy", "call"}
    PROVE  HomeAt(k)'
BY DEF HomeAt, HomeShape, HomeOf, EnteredShape, Handles, IsUser, Free

\* Nothing above the newest frame works on anything.
LEMMA CoversTop ==
    ASSUME IInv, NEW n \in Slot, n = top, NEW q \in Slot, q >= n, NEW p, Covers(q, p)
    PROVE  q = n
<1>1. n \in Nat /\ q \in Nat
  BY Depth
<1>2. ~(q > n)
  BY TopFacts DEF Covers, Called, Free
<1> QED
  BY <1>1, <1>2

\* The newest dispatch changes its own frame.
LEMMA TopHomes ==
    ASSUME IInv, IInv', Homes, NEW n \in Slot, n = top, NEW x, frame' = [frame EXCEPT ![n] = x],
           \A p \in Slot : Covers(n, p) => Covers(n, p)', HomeAt(n)'
    PROVE  Homes'
<1>1. n \in Int /\ \A q \in Slot : q \in Int
  BY Depth
<1>2. frame'[n] = x /\ \A q \in Slot : q # n => frame'[q] = frame[q]
  BY DEF IInv, TypeOK
<1>3. StaysBelow(n) /\ OnlyMoves(n, 0) /\ HomesWith(n, 0)
  <2>1. \A j \in Slot : j < n => frame'[j] = frame[j]
    BY <1>1, <1>2
  <2> QED
    BY <2>1, NoneMoves
<1>4. CoveredAbove(n)
  <2>1. ASSUME NEW k \in Slot, NEW p \in Slot, k < n, NEW q \in Slot, q >= n, Covers(q, p)
        PROVE  \E o \in Slot : o > k /\ Covers(o, p)'
    <3>1. q = n
      BY <2>1, CoversTop
    <3>2. Covers(n, p)' /\ n > k
      BY <1>1, <2>1, <3>1
    <3> QED
      BY <3>2
  <2> QED
    BY <2>1 DEF CoveredAbove
<1>5. HomesAbove(n)
  <2>1. ASSUME NEW k \in Slot, k >= n PROVE HomeAt(k)'
    <3>1. CASE k = n
      BY <3>1
    <3>2. CASE k # n
      <4>1. k > n
        BY <1>1, <2>1, <3>2
      <4>2. frame'[k] = Free
        BY <1>2, <3>2, <4>1, TopFacts
      <4> QED
        BY <4>2, NothingHome
    <3> QED
      BY <3>1, <3>2
  <2> QED
    BY <2>1 DEF HomesAbove
<1> QED
  BY <1>1, <1>3, <1>4, <1>5, HomesStep

\* A runtime frame goes on with the handler it has chosen.
LEMMA HomeOfSame ==
    ASSUME IInv, Homes, NEW n \in Slot, IsRuntime(n), Handles(n), StaysBelow(n),
           frame'[n].block = frame[n].block, frame'[n].tf.primary_frame_base = Base(n),
           frame'[n].reg = frame[n].reg
    PROVE  HomeOf(n)'
<1>1. PICK b, r : b = Base(n) /\ r = frame[n].reg
  OBVIOUS
<1>2. HandlingOf(frame[n], n) /\ Linked(n) /\ Before(n) = r
  BY <1>1 DEF IInv, Shape, SlotShape, HandlingShape, Before, IsRuntime, IsFunction
<1>3. b \in Slot /\ b < n /\ IsFunction(b) /\ r \in Slot /\ r < n
  BY <1>1, <1>2, Depth DEF HandlingOf, Linked, Catcher, Registered, Base
<1>4. Stays(b) /\ Stays(r)
  BY <1>3 DEF StaysBelow
<1>5. PICK f, h : f = frame[b].fn /\ h = Home(r)
  OBVIOUS
<1>6. frame'[b].fn = f /\ Home(r)' = h
  BY <1>3, <1>4, <1>5, StaysFacts
<1>7. Within(f, h, Around(f, frame[n].block))
  BY <1>1, <1>5 DEF Homes, HomeAt, HomeOf
<1>8. Home(frame[n].reg)' = h
  BY <1>1, <1>6 DEF Home
<1> QED
  BY <1>1, <1>6, <1>7, <1>8 DEF HomeOf, Base, Within, Around, Home

\* The newest dispatch looks at a registration, or has found nothing there.
SearchesOn(n, x) ==
    /\ n = top /\ frame[n].kind = "throw" /\ frame[n].block = 0 /\ x.kind = "throw" /\ x.block = 0
    /\ frame' = [frame EXCEPT ![n] = x]
    /\ x.pc \in {"search", "unwind", "abandon"}
    /\ \/ frame[n].pc \in {"visit", "search"}
       \/ frame[n].pc = "unwind" /\ x.pc = "abandon" /\ x.reg = frame[n].reg

\* A dispatch goes on in the registration it searches.
LEMMA SearchGoesOn ==
    ASSUME IInv, VisitFunction \/ VisitCatchFrame \/ ProbeForObject \/ SelectNothing \/ AbandonException
    PROVE  \E n \in Slot : \E x : SearchesOn(n, x)
<1>1. PICK n \in Slot : n = top
  BY DEF IInv, TypeOK
<1>2. ASSUME NEW pc \in {"visit", "search"}, Dispatching(pc)
      PROVE  T = frame[n] /\ T \in RuntimeFrame /\ T.kind = "throw" /\ T.pc = pc /\ T.block = 0
  <2>1. T = frame[n] /\ T \in RuntimeFrame /\ T.kind = "throw" /\ T.pc = pc
    BY <1>1, <1>2, TopThrow
  <2>2. ThrowOf(frame[n], n)
    BY <1>1, <2>1, TopDispatch
  <2> QED
    BY <2>1, <2>2 DEF ThrowOf
<1>3. ASSUME NEW tf, EnterHandler(tf), Dispatching("visit") PROVE \E x : SearchesOn(n, x)
  <2>1. PICK x : x = [T EXCEPT !.pc = "search", !.next = head, !.tf = tf, !.entry = State(T.reg)]
    OBVIOUS
  <2>2. x.kind = "throw" /\ x.pc = "search" /\ x.block = T.block
    BY <1>2, <1>3, <2>1 DEF RuntimeFrame
  <2>3. frame' = [frame EXCEPT ![n] = x]
    BY <1>1, <1>3, <2>1 DEF EnterHandler
  <2>4. SearchesOn(n, x)
    BY <1>1, <1>2, <1>3, <2>2, <2>3 DEF SearchesOn
  <2> QED
    BY <2>4
<1>4. CASE VisitFunction \/ VisitCatchFrame
  <2>1. PICK tf : EnterHandler(tf) /\ Dispatching("visit")
    BY <1>4 DEF VisitFunction, VisitCatchFrame
  <2> QED
    BY <1>3, <2>1
<1>5. CASE ProbeForObject
  <2>1. PICK p \in Slot : frame' = [frame EXCEPT ![top].tf.exception_object_or_link = Link(p)]
    BY <1>5 DEF ProbeForObject
  <2>2. PICK x : x = [T EXCEPT !.tf.exception_object_or_link = Link(p)]
    OBVIOUS
  <2>3. Dispatching("search")
    BY <1>5 DEF ProbeForObject
  <2>4. x.kind = "throw" /\ x.pc = "search" /\ x.block = T.block
    BY <1>2, <2>2, <2>3 DEF RuntimeFrame
  <2>5. frame' = [frame EXCEPT ![n] = x]
    BY <1>1, <2>1, <2>2 DEF T
  <2>6. SearchesOn(n, x)
    BY <1>1, <1>2, <2>3, <2>4, <2>5 DEF SearchesOn
  <2> QED
    BY <2>6
<1>6. CASE SelectNothing
  <2>1. PICK x : x = [T EXCEPT !.pc = "unwind", !.target = UnwoundState(T.reg)]
    OBVIOUS
  <2>2. Dispatching("search") /\ frame' = [frame EXCEPT ![n] = x]
    BY <1>1, <1>6, <2>1 DEF SelectNothing
  <2>3. x.kind = "throw" /\ x.block = T.block /\ x.pc = "unwind"
    BY <1>2, <2>1, <2>2 DEF RuntimeFrame
  <2>4. SearchesOn(n, x)
    BY <1>1, <1>2, <2>2, <2>3 DEF SearchesOn
  <2> QED
    BY <2>4
<1>7. CASE AbandonException
  <2>1. PICK x : x = [T EXCEPT !.pc = "abandon"]
    OBVIOUS
  <2>2. Dispatching("unwind") /\ T.block = 0 /\ frame' = [frame EXCEPT ![n] = x]
    BY <1>1, <1>7, <2>1 DEF AbandonException, NothingHere, Unwound, T
  <2>3. T = frame[n] /\ T \in RuntimeFrame /\ T.kind = "throw" /\ T.pc = "unwind"
    BY <1>1, <2>2, TopThrow
  <2>4. x.kind = "throw" /\ x.block = T.block /\ x.pc = "abandon" /\ x.reg = T.reg
    BY <2>1, <2>3 DEF RuntimeFrame
  <2>5. SearchesOn(n, x)
    BY <1>1, <2>2, <2>3, <2>4 DEF SearchesOn
  <2> QED
    BY <2>5
<1> QED
  BY <1>4, <1>5, <1>6, <1>7

\* A dispatch visits, probes and searches: no control moves.
LEMMA SearchHomes ==
    ASSUME HInv, IInv', Homes,
           VisitFunction \/ VisitCatchFrame \/ ProbeForObject \/ SelectNothing \/ AbandonException
    PROVE  Homes'
<1>1. IInv
  BY DEF HInv, EInv
<1>2. PICK n \in Slot : \E x : SearchesOn(n, x)
  BY <1>1, SearchGoesOn
<1>3. PICK x : SearchesOn(n, x)
  BY <1>2
<1>4. frame'[n] = x /\ \A q \in Slot : q # n => frame'[q] = frame[q]
  BY <1>1, <1>3 DEF SearchesOn, IInv, TypeOK
<1>5. HomeAt(n)'
  BY <1>3, <1>4, NothingHome DEF SearchesOn
<1>6. ASSUME NEW p \in Slot, Covers(n, p) PROVE Covers(n, p)'
  <2>1. frame[n].pc = "unwind" /\ x.pc = "abandon" /\ x.reg = frame[n].reg /\ Primary(frame[n].reg) = p
    BY <1>3, <1>6 DEF SearchesOn, Covers, Called
  <2>2. PICK r : r = x.reg
    OBVIOUS
  <2>3. r \in Slot /\ r # n
    <3>1. n = top /\ frame[n].kind = "throw"
      BY <1>3 DEF SearchesOn
    <3>2. r < n /\ r \in Nat /\ ThrowOf(frame[n], n)
      BY <1>1, <2>1, <2>2, <3>1, TopDispatch
    <3>3. Catcher(r)
      BY <2>1, <2>2, <3>2 DEF ThrowOf
    <3> QED
      BY <3>2, <3>3, Depth DEF Catcher, Slot
  <2>4. frame'[r] = frame[r]
    BY <1>4, <2>3
  <2>5. Primary(r)' = p
    BY <2>1, <2>2, <2>4 DEF Primary
  <2> QED
    BY <1>3, <1>4, <2>1, <2>2, <2>5 DEF SearchesOn, Covers
<1> QED
  BY <1>1, <1>3, <1>5, <1>6, TopHomes DEF SearchesOn

\* The cleanup or the copy constructor a dispatch has called returns.
LEMMA CalloutHomes ==
    ASSUME HInv, IInv', Homes, CleanupReturns \/ CopyReturns PROVE Homes'
<1>1. IInv
  BY DEF HInv, EInv
<1>2. PICK n \in Slot : n = top
  BY <1>1 DEF IInv, TypeOK
<1>3. PICK d, from, to :
        /\ d = frame[n] /\ Dispatching(from) /\ frame' = [frame EXCEPT ![top].pc = to]
        /\ (from = "cleanup" /\ to = "unwind") \/ (from = "copy" /\ to = "call")
  BY DEF CleanupReturns, CopyReturns
<1>4. d \in RuntimeFrame /\ d.kind = "throw" /\ d.pc = from /\ IsRuntime(n) /\ frame[n].kind = "throw"
      /\ T = frame[n]
  BY <1>1, <1>2, <1>3, TopThrow
<1> DEFINE x == [d EXCEPT !.pc = to]
<1>5. x.kind = "throw" /\ x.pc = to /\ x.block = d.block /\ x.tf = d.tf /\ x.reg = d.reg
  BY <1>4 DEF RuntimeFrame
<1>6. frame' = [frame EXCEPT ![n] = x]
  BY <1>2, <1>3
<1> HIDE DEF x
<1>7. frame'[n] = x /\ \A q \in Slot : q # n => frame'[q] = frame[q]
  BY <1>1, <1>6 DEF IInv, TypeOK
<1>8. ThrowOf(d, n) /\ d.reg < n /\ d.reg \in Slot
  <2>1. ThrowOf(d, n) /\ d.reg < n /\ (d.reg # 0 => d.reg \in Slot) /\ d.reg \in Nat
    BY <1>1, <1>2, <1>3, <1>4, TopDispatch
  <2>2. Catcher(d.reg)
    BY <1>3, <1>4, <2>1 DEF ThrowOf
  <2> QED
    BY <2>1, <2>2 DEF Catcher
<1>9. ASSUME NEW p \in Slot, Covers(n, p) PROVE Covers(n, p)'
  <2>1. CASE from = "cleanup"
    <3>1. PICK r : r = d.reg
      OBVIOUS
    <3>2. Primary(r) = p /\ r # n /\ r \in Slot
      BY <1>3, <1>4, <1>8, <1>9, <2>1, <3>1, Depth DEF Covers, Called
    <3>3. Primary(r)' = p
      BY <1>7, <3>2 DEF Primary
    <3> QED
      BY <1>3, <1>5, <1>7, <2>1, <3>1, <3>3 DEF Covers
  <2>2. CASE from = "copy"
    BY <1>3, <1>4, <1>5, <1>7, <1>9, <2>2 DEF Covers, Called, Base
  <2> QED
    BY <1>3, <2>1, <2>2
<1>10. StaysBelow(n)
  <2>1. \A j \in Slot : j < n => frame'[j] = frame[j]
    BY <1>7, Depth
  <2> QED
    BY <2>1 DEF StaysBelow, Stays
<1>11. HomeOf(n)'
  <2>1. CASE d.block = 0
    BY <1>5, <1>7, <2>1 DEF HomeOf, Handles
  <2>2. CASE d.block # 0
    <3>1. Handles(n)
      BY <1>3, <1>4, <2>2 DEF Handles
    <3> QED
      BY <1>1, <1>3, <1>4, <1>5, <1>7, <1>10, <3>1, HomeOfSame DEF Base
  <2> QED
    BY <2>1, <2>2
<1>12. EnteredShape(n)'
  <2>1. CASE from = "cleanup"
    BY <1>3, <1>5, <1>7, <2>1 DEF EnteredShape
  <2>2. CASE from = "copy"
    <3>1. PICK b : b = Base(n)
      OBVIOUS
    <3>2. Called(n)
      BY <1>3, <1>4, <2>2 DEF Called
    <3>3. b \in Slot /\ b # n
      BY <1>1, <3>1, <3>2, CalledFacts
    <3>4. frame'[b] = frame[b] /\ EnteredShape(n)
      BY <1>7, <3>3 DEF Homes, HomeAt
    <3> QED
      BY <1>3, <1>4, <1>5, <1>7, <2>2, <3>1, <3>4 DEF EnteredShape, Base, Within
  <2> QED
    BY <1>3, <2>1, <2>2
<1>13. HomeAt(n)'
  BY <1>5, <1>7, <1>11, <1>12 DEF HomeAt, HomeShape, IsUser
<1> QED
  BY <1>1, <1>2, <1>6, <1>9, <1>13, TopHomes

\* The code under a registration is what its handlers, and the function, go on with.
LEMMA BodyFacts ==
    ASSUME IInv, NEW r \in Slot, Catcher(r), NEW k, k = Body(r)
    PROVE  /\ k \in Slot /\ k >= r /\ IsUser(k) /\ k \in Nat
           /\ Primary(k) = Primary(r) /\ Home(k) = Home(r)
           /\ IsFunction(r) => k = r /\ Primary(r) = r
           /\ frame[r].kind = "catch" =>
                /\ k = r + 1 /\ frame[k].kind = "funclet" /\ frame[k].primary = Primary(r)
                /\ Base(r) = Primary(r)
<1>1. r \in Nat
  BY Depth
<1>2. CASE IsFunction(r)
  BY <1>1, <1>2 DEF Body, IsUser, IsFunction, Primary
<1>3. CASE frame[r].kind = "catch"
  <2>1. k = r + 1 /\ k \in Slot /\ frame[k].kind = "funclet" /\ k \in Nat
    BY <1>1, <1>3, UnderCatcher, Depth DEF Body, IsFunction
  <2>2. k - 1 = r /\ IsUser(k)
    BY <1>1, <2>1 DEF IsUser
  <2>3. ~IsFunction(k)
    BY <2>1 DEF IsFunction
  <2>4. Primary(k) = Base(r) /\ Home(k) = frame[r].block /\ frame[k].primary = Base(r)
    BY <2>1, <2>2, <2>3, UserFacts
  <2> QED
    BY <1>1, <1>3, <2>1, <2>2, <2>4 DEF Base, Primary, Home, IsFunction
<1> QED
  BY <1>2, <1>3 DEF Catcher

\* It works on the function for which it runs a handler.
LEMMA BodyCovers ==
    ASSUME IInv, NEW r \in Slot, Catcher(r), NEW k \in Slot, IsUser(k), Primary(k) = Primary(r),
           k < Body(r)
    PROVE  Covers(Body(r), Primary(r)) /\ ~IsFunction(r)
<1>1. k \in Nat /\ Primary(k) <= k /\ r \in Nat
  BY UserFacts, Depth
<1>2. ~IsFunction(r)
  <2>1. SUFFICES ASSUME IsFunction(r) PROVE FALSE
    OBVIOUS
  <2>2. Body(r) = r /\ Primary(r) = r
    BY <2>1, BodyFacts
  <2> QED
    BY <1>1, <2>2
<1>3. PICK b : b = Body(r)
  OBVIOUS
<1>4. frame[b].kind = "funclet" /\ frame[b].primary = Primary(r)
  BY <1>2, <1>3, BodyFacts DEF Catcher
<1> QED
  BY <1>2, <1>3, <1>4 DEF Covers

\* The code under a registration that is searched, and that no dispatch abandons,
\* is where the state of its function says.
LEMMA SearchedHome ==
    ASSUME HInv, Homes, NEW n \in Slot, n = top, frame[n].kind = "throw",
           frame[n].pc \in {"visit", "search"},
           NEW r, r = frame[n].reg, Catcher(r), \A q \in Slot : ~Abandons(q, r)
    PROVE  Within(Fn(r), Home(r), State(r))
<1>1. IInv /\ r \in Slot /\ r < n /\ GapShape(n) /\ n \in Nat
  <2>1. IInv /\ GapShape(n) /\ r < n /\ (r # 0 => r \in Slot)
    BY TopDispatch DEF HInv, EInv
  <2>2. r # 0
    BY DEF Catcher
  <2> QED
    BY <2>1, <2>2, Depth
<1>2. PICK k : k = Body(r)
  OBVIOUS
<1>3. k \in Slot /\ k >= r /\ IsUser(k) /\ Primary(k) = Primary(r) /\ Home(k) = Home(r) /\ k \in Nat
  BY <1>1, <1>2, BodyFacts
<1>4. ASSUME NEW q \in Slot, q > k, Covers(q, Primary(k)) PROVE FALSE
  <2>1. q \in Nat
    BY Depth
  <2>2. CASE q < n
    <3>1. frame[q] = Free \/ Abandons(q, r)
      BY <1>1, <1>2, <1>4, <2>2 DEF GapShape
    <3> QED
      BY <1>4, <3>1 DEF Covers, Called, Free
  <2>3. CASE ~(q < n)
    <3>1. q = n
      BY <1>1, <1>4, <2>1, <2>3, CoversTop
    <3> QED
      BY <1>4, <3>1 DEF Covers, Called
  <2> QED
    BY <2>2, <2>3
<1> QED
  BY <1>3, <1>4 DEF Homes, HomeAt, HomeShape, Fn, State

\* A dispatch at a handler that another one is abandoning finds no candidates.
LEMMA AbandonedHasNone ==
    ASSUME IInv, NEW r \in Slot, NEW q \in Slot, Abandons(q, r), Catcher(r)
    PROVE  Candidates(r) = {}
<1>1. State(r) <= UnwoundState(r)
  BY DEF Abandons, IInv, Shape, SlotShape, ThrowShape, ThrowOf
<1>2. SUFFICES ASSUME NEW i \in Candidates(r) PROVE FALSE
  OBVIOUS
<1>3. i \in Blocks(Fn(r)) /\ InTry(Fn(r), i, State(r)) /\ Block(Fn(r), i).try_low > UnwoundState(r)
  <2>1. Len(Eh[Fn(r)].try_blocks) \in Nat
    BY UnderCatcher, EhAssumption
  <2>2. i \in 1..i
    BY <2>1 DEF Candidates, Blocks
  <2> QED
    BY <2>2 DEF Candidates
<1>4. Block(Fn(r), i).try_low \in Int /\ State(r) \in Int /\ UnwoundState(r) \in Int
  BY <1>3, UnderCatcher, BlockFacts
<1> QED
  BY <1>1, <1>3, <1>4 DEF InTry

\* A candidate is entered from the code that is searched.
LEMMA CandidateHome ==
    ASSUME HInv, NEW r \in Slot, Catcher(r), NEW f, f = Fn(r), NEW i, i \in Candidates(r),
           Within(f, Home(r), State(r))
    PROVE  Within(f, Home(r), Around(f, i))
<1>1. PICK b, s, low : b = Home(r) /\ s = State(r) /\ low = Block(f, i).try_low
  OBVIOUS
<1>2. IInv /\ f \in Fns /\ s \in States(f) /\ Primary(r) \in Slot /\ f = frame[Primary(r)].fn
  BY <1>1, UnderCatcher DEF HInv, EInv, Fn
<1>3. i \in Blocks(f) /\ InTry(f, i, s) /\ low > UnwoundState(r)
  <2>1. Len(Eh[f].try_blocks) \in Nat
    BY <1>2, EhAssumption
  <2>2. i \in 1..i
    BY <2>1 DEF Candidates, Blocks
  <2> QED
    BY <1>1, <2>2 DEF Candidates
<1>4. low \in Chain(f, s) /\ low \in 0..Eh[f].last /\ Eh[f].next[low] = Around(f, i)
      /\ Around(f, i) \in States(f) /\ Around(f, i) < low /\ low \in Int
  BY <1>1, <1>2, <1>3, InTryIsChain, HandlerFacts, BlockFacts DEF Around
<1>5. ASSUME b # 0 PROVE HandlerState(f, b) < low
  <2>1. frame[r].kind = "catch" /\ b = frame[r].block
    BY <1>1, <1>5 DEF Home, Catcher
  <2>2. HandlingOf(frame[r], r)
    BY <1>2, <2>1, UnderCatcher DEF HandlingShape
  <2>3. b \in Blocks(f) /\ UnwoundState(r) = Block(f, b).try_low - 1
    BY <1>2, <2>1, <2>2 DEF HandlingOf, UnwoundState, IsFunction, Primary
  <2>4. Block(f, b).try_low \in Int /\ Block(f, b).try_low <= low
    BY <1>2, <1>3, <1>4, <2>3, BlockFacts
  <2>5. HandlerState(f, b) \in Chain(f, s)
    BY <1>1, <1>5 DEF Within
  <2>6. PICK h : h = HandlerState(f, b)
    OBVIOUS
  <2>7. h \in Chain(f, Around(f, i))
    BY <1>1, <1>2, <1>3, <2>3, <2>4, <2>5, <2>6, Encloses
  <2>8. h <= Around(f, i) /\ h \in Int /\ Around(f, i) \in Int
    BY <1>2, <1>4, <2>7, ChainBelow, EhAssumption DEF States
  <2> QED
    BY <1>4, <2>6, <2>8
<1>6. Within(f, b, Eh[f].next[low])
  BY <1>1, <1>2, <1>4, <1>5, WithinLeave
<1> QED
  BY <1>1, <1>4, <1>6

\* The handler chosen is one of those around control.
LEMMA SelectHandlerHomes == ASSUME HInv, IInv', Homes, SelectHandler PROVE Homes'
<1>1. PICK n \in Slot : n = top
  BY DEF HInv, EInv, IInv, TypeOK
<1>2. PICK d, r, f, p : d = frame[n] /\ r = d.reg /\ f = Fn(r) /\ p = Primary(r)
  OBVIOUS
<1>3. /\ T = d /\ d \in RuntimeFrame /\ d.kind = "throw" /\ d.pc = "search" /\ IInv
      /\ frame[n].kind = "throw" /\ frame[n].pc = "search" /\ r = frame[n].reg
  BY <1>1, <1>2, TopThrow DEF SelectHandler, HInv, EInv
<1>4. r \in Slot /\ Catcher(r) /\ r < n /\ p \in Slot /\ p < n /\ IsFunction(p) /\ f = frame[p].fn
  BY <1>1, <1>2, <1>3, Worked DEF HInv
<1>5. PICK i, c :
        /\ i \in Blocks(Fn(T.reg)) /\ Selects(T.reg, GetThrowInfo(T.tf), i, c)
        /\ frame' = [frame EXCEPT ![top] =
                [T EXCEPT !.pc = "unwind", !.block = i, !.clause = c,
                          !.target = CatcherTarget(Fn(T.reg), i),
                          !.tf.primary_frame_base = Primary(T.reg),
                          !.tf.unwound_state = Block(Fn(T.reg), i).try_low - 1]]
  BY DEF SelectHandler
<1>6. i \in Candidates(r)
  BY <1>2, <1>3, <1>5 DEF Selects, IsFirst
<1>7. \A q \in Slot : ~Abandons(q, r)
  BY <1>3, <1>4, <1>6, AbandonedHasNone
<1>8. Within(f, Home(r), Around(f, i))
  <2>1. Within(f, Home(r), State(r))
    BY <1>1, <1>2, <1>3, <1>4, <1>7, SearchedHome
  <2> QED
    BY <1>2, <1>4, <1>6, <2>1, CandidateHome
<1> DEFINE tf == [d.tf EXCEPT !.primary_frame_base = p, !.unwound_state = Block(f, i).try_low - 1]
           x == [d EXCEPT !.pc = "unwind", !.block = i, !.clause = c, !.target = Block(f,
           i).try_low, !.tf = tf]
<1>9. x.kind = "throw" /\ x.pc = "unwind" /\ x.block = i /\ x.tf.primary_frame_base = p /\ x.reg = r
  BY <1>2, <1>3 DEF RuntimeFrame, ThrowFrame
<1>10. frame' = [frame EXCEPT ![n] = x]
  <2>1. d.tf \in ThrowFrame
    BY <1>3 DEF RuntimeFrame
  <2> QED
    BY <1>1, <1>2, <1>3, <1>5, <2>1 DEF RuntimeFrame, ThrowFrame, CatcherTarget
<1> HIDE DEF x
<1>11. frame'[n] = x /\ \A q \in Slot : q # n => frame'[q] = frame[q]
  BY <1>3, <1>10 DEF IInv, TypeOK
<1>12. frame'[p] = frame[p] /\ frame'[r] = frame[r]
  <2>1. p \in Nat /\ r \in Nat
    BY <1>4, Depth
  <2>2. p # n /\ r # n
    BY <1>4, <2>1
  <2> QED
    BY <1>4, <1>11, <2>2
<1>13. PICK h : h = Home(r)
  OBVIOUS
<1>14. Home(r)' = h
  BY <1>12, <1>13 DEF Home, IsFunction
<1>15. HomeOf(n)'
  <2>1. /\ frame'[n].tf.primary_frame_base = p /\ frame'[n].block = i /\ frame'[p].fn = f
        /\ Home(frame[n].reg)' = h /\ frame'[n].reg = r
    BY <1>3, <1>4, <1>9, <1>11, <1>12, <1>14 DEF Home
  <2> QED
    BY <1>3, <1>8, <1>13, <1>14, <2>1 DEF HomeOf, Base, Within, Around, Home
<1>16. HomeAt(n)'
  BY <1>9, <1>11, <1>15 DEF HomeAt, HomeShape, EnteredShape, IsUser
<1>17. \A q \in Slot : Covers(n, q) => Covers(n, q)'
  BY <1>3 DEF Covers, Called
<1> QED
  BY <1>1, <1>3, <1>10, <1>16, <1>17, TopHomes

\* A frame is pushed: a function in no state yet, or a dispatch.
LEMMA PushHomes ==
    ASSUME IInv, IInv', Homes, NEW m \in Slot, NEW x, Pushes(m, x),
           x.kind = "function" => x.state = -1
    PROVE  Homes'
<1>1. m = top + 1 /\ frame' = [frame EXCEPT ![m] = x] /\ m \in Nat /\ top \in Slot /\ top \in Nat
  BY TopFacts, Depth DEF Pushes
<1>2. frame'[m] = x /\ \A q \in Slot : q # m => frame'[q] = frame[q]
  BY <1>1 DEF IInv, TypeOK
<1>3. \A j \in Slot : j >= m => frame[j] = Free
  <2>1. ASSUME NEW j \in Slot, j >= m PROVE frame[j] = Free
    <3>1. j \in Nat
      BY Depth
    <3>2. j > top
      BY <1>1, <2>1, <3>1
    <3> QED
      BY <3>2, TopFacts
  <2> QED
    BY <2>1
<1>4. StaysBelow(m) /\ OnlyMoves(m, 0) /\ HomesWith(m, 0)
  <2>1. \A j \in Slot : j < m => frame'[j] = frame[j]
    BY <1>1, <1>2, Depth
  <2> QED
    BY <2>1, NoneMoves
<1>5. CoveredAbove(m)
  BY <1>3 DEF CoveredAbove, Covers, Called, Free
<1>6. HomeAt(m)'
  <2>1. CASE x.kind = "function"
    <3>1. x.fn \in Fns
      BY <2>1 DEF Pushes, FunctionFrame
    <3>2. Within(x.fn, 0, -1)
      BY <3>1, WithinStart
    <3>3. Primary(m)' = m /\ Home(m)' = 0
      BY <1>2, <2>1 DEF Primary, Home, IsFunction
    <3>4. Fn(m)' = x.fn /\ State(m)' = -1
      BY <1>2, <2>1, <3>3 DEF Fn, State
    <3>5. HomeShape(m)'
      BY <3>2, <3>3, <3>4 DEF HomeShape, Within
    <3> QED
      BY <1>2, <2>1, <3>5 DEF HomeAt, HomeOf, EnteredShape, Handles
  <2>2. CASE x.kind = "throw" /\ x.pc = "visit" /\ x.block = 0
    BY <1>2, <2>2, NothingHome
  <2> QED
    BY <2>1, <2>2 DEF Pushes
<1>7. HomesAbove(m)
  <2>1. ASSUME NEW k \in Slot, k >= m PROVE HomeAt(k)'
    <3>1. CASE k = m
      BY <1>6, <3>1
    <3>2. CASE k # m
      <4>1. frame'[k] = Free
        BY <1>2, <1>3, <2>1, <3>2
      <4> QED
        BY <4>1, NothingHome
    <3> QED
      BY <3>1, <3>2
  <2> QED
    BY <2>1 DEF HomesAbove
<1> QED
  BY <1>1, <1>4, <1>5, <1>7, HomesStep

\* A function is called, from a callout too, or an exception thrown.
LEMMA CallThrowHomes ==
    ASSUME HInv, IInv', Homes, (\E f \in Fns : Call(f)) \/ Rethrow \/ (\E t \in Types : Throw(t))
    PROVE  Homes'
<1>1. IInv
  BY DEF HInv, EInv
<1>2. ASSUME NEW f \in Fns, Call(f) PROVE Homes'
  <2>1. PICK m \in Slot : \E x : Pushes(m, x) /\ x.kind = "function"
    BY <1>1, <1>2, CallPushes
  <2>2. PICK x : Pushes(m, x) /\ x.kind = "function"
    BY <2>1
  <2>3. m = top + 1 /\ frame'[m] = x /\ frame \in [Slot -> Frame]
    BY <1>1, <2>2 DEF Pushes, IInv, TypeOK
  <2>4. x.state = -1
    BY <1>2, <2>3 DEF Call
  <2> QED
    BY <1>1, <2>2, <2>4, PushHomes
<1>3. ASSUME NEW obj \in ObjOrLink, NEW info \in Types \cup {NoInfo}, Running, PushThrowFrame(obj, info)
      PROVE  Homes'
  <2>1. PICK m \in Slot : \E x : Pushes(m, x) /\ x.kind = "throw"
    BY <1>1, <1>3, ThrowFramePushed
  <2>2. PICK x : Pushes(m, x) /\ x.kind = "throw"
    BY <2>1
  <2> QED
    BY <1>1, <2>2, PushHomes
<1> QED
  BY <1>1, <1>2, <1>3, ThrowArguments

\* The code on top moves to another state of its own.
LEMMA MoveHomes ==
    ASSUME IInv, IInv', Homes, Running, NEW p, p = Primary(top), NEW f, f = Fn(top),
           NEW t, frame' = [frame EXCEPT ![p].state = t], Within(f, Home(top), t)
    PROVE  Homes'
<1>1. PICK n \in Slot : n = top
  BY DEF IInv, TypeOK
<1>2. /\ p \in Slot /\ p <= n /\ IsFunction(p) /\ frame[p] \in FunctionFrame /\ frame[p].fn = f /\ f \in Fns
      /\ \A j \in Slot : p < j /\ j <= n => frame[j].kind \notin {"throw", "destroy"}
      /\ n \in Nat /\ p \in Nat /\ IsUser(n)
  BY <1>1, RunningOn, Depth DEF Running
<1> DEFINE y == [frame[p] EXCEPT !.state = t]
<1>3. y.kind = "function" /\ y.fn = f /\ y.state = t
  BY <1>2 DEF IsFunction, FunctionFrame
<1>4. frame' = [frame EXCEPT ![p] = y]
  OBVIOUS
<1> HIDE DEF y
<1>5. frame'[p] = y /\ \A q \in Slot : q # p => frame'[q] = frame[q]
  BY <1>2, <1>4 DEF IInv, TypeOK
<1>6. \A j \in Slot : Stays(j)
  BY <1>2, <1>3, <1>5 DEF Stays
<1>7. StaysBelow(n) /\ OnlyMoves(n, p)
  BY <1>5, <1>6 DEF StaysBelow, OnlyMoves
<1>8. p # n => Covers(n, p) /\ Covers(n, p)'
  <2>1. SUFFICES ASSUME p # n PROVE Covers(n, p) /\ Covers(n, p)'
    OBVIOUS
  <2>2. ~IsFunction(n)
    BY <1>1, <2>1 DEF Primary, IsFunction
  <2>3. frame[n].kind = "funclet" /\ frame[n].primary = p
    BY <1>1, <1>2, <2>2, UserFacts
  <2> QED
    BY <1>5, <2>1, <2>3 DEF Covers
<1>9. CoveredAbove(n)
  <2>1. ASSUME NEW k \in Slot, NEW P \in Slot, k < n, NEW q \in Slot, q >= n, Covers(q, P)
        PROVE  \E o \in Slot : o > k /\ Covers(o, P)'
    <3>1. q = n
      BY <1>1, <2>1, CoversTop
    <3>2. frame[n].kind = "funclet" /\ P = p
      BY <1>1, <1>2, <2>1, <3>1, UserFacts DEF Covers, Called, IsUser, IsFunction
    <3>3. p # n
      BY <1>2, <3>2 DEF IsFunction
    <3>4. n > k
      BY <1>2, <2>1, Depth
    <3> QED
      BY <1>8, <3>2, <3>3, <3>4
  <2> QED
    BY <2>1 DEF CoveredAbove
<1>10. HomesWith(n, p)
  <2>1. ASSUME NEW k \in Slot, k < n, IsUser(k), Primary(k) = p PROVE HomeShape(k)'
    <3>1. p <= k /\ k \in Nat
      BY <2>1, UserFacts
    <3>2. p # n /\ n > k
      BY <1>2, <2>1, <3>1
    <3>3. Primary(k)' = p
      BY <1>6, <2>1, StaysFacts
    <3> QED
      BY <1>8, <3>2, <3>3 DEF HomeShape
  <2>2. ASSUME NEW k \in Slot, k < n, Called(k), Base(k) = p PROVE EnteredShape(k)'
    <3>1. p < k /\ k \in Nat
      BY <2>2, CalledFacts
    <3>2. k <= n /\ k # p
      BY <1>2, <2>2, <3>1
    <3>3. frame[k].kind = "catch" /\ frame'[k] = frame[k]
      BY <1>2, <1>5, <2>2, <3>1, <3>2 DEF Called
    <3> QED
      BY <3>3 DEF EnteredShape
  <2> QED
    BY <2>1, <2>2 DEF HomesWith
<1>11. HomesAbove(n)
  <2>1. ASSUME NEW k \in Slot, k >= n PROVE HomeAt(k)'
    <3>1. CASE k = n
      <4>1. Primary(n)' = p /\ Home(n)' = Home(n)
        BY <1>1, <1>6, StaysFacts
      <4>2. Fn(n)' = f /\ State(n)' = t
        BY <1>3, <1>5, <4>1 DEF Fn, State
      <4>3. PICK h : h = Home(n)
        OBVIOUS
      <4>4. Within(f, h, t) /\ Home(n)' = h
        BY <1>1, <4>1, <4>3
      <4>5. HomeShape(n)'
        BY <4>2, <4>4 DEF HomeShape, Within
      <4>6. frame'[n].kind \in {"function", "funclet"}
        BY <1>2, <1>6, StaysFacts DEF IsUser
      <4> QED
        BY <3>1, <4>5, <4>6 DEF HomeAt, HomeOf, EnteredShape, Handles
    <3>2. CASE k # n
      <4>1. k > n /\ k \in Nat
        BY <1>2, <2>1, <3>2, Depth
      <4>2. k # p
        BY <1>2, <4>1
      <4>3. frame'[k] = Free
        BY <1>1, <1>5, <4>1, <4>2, TopFacts
      <4> QED
        BY <4>3, NothingHome
    <3> QED
      BY <3>1, <3>2
  <2> QED
    BY <2>1 DEF HomesAbove
<1> QED
  BY <1>2, <1>7, <1>9, <1>10, <1>11, HomesStep

\* What HomeShape says of the code on top.
LEMMA HomeOfTop ==
    ASSUME IInv, Homes, Running PROVE Within(Fn(top), Home(top), State(top))
<1>1. PICK n \in Slot : n = top
  BY DEF IInv, TypeOK
<1>2. IsUser(n) /\ n \in Nat
  BY <1>1, Depth DEF Running
<1>3. ASSUME NEW q \in Slot, q > n, Covers(q, Primary(n)) PROVE FALSE
  <2>1. q >= n /\ q # n
    BY <1>2, <1>3, Depth
  <2> QED
    BY <1>1, <1>3, <2>1, CoversTop
<1> QED
  BY <1>1, <1>2, <1>3 DEF Homes, HomeAt, HomeShape

\* A scope is entered from the state around it ...
LEMMA EnterHomes == ASSUME HInv, IInv', Homes, NEW s, Enter(s) PROVE Homes'
<1>1. IInv /\ Running
  BY DEF HInv, EInv, Enter
<1>2. PICK p, f, b, t : p = Primary(top) /\ f = Fn(top) /\ b = Home(top) /\ t = State(top)
  OBVIOUS
<1>3. f \in Fns
  BY <1>1, <1>2, RunningOn
<1>4. /\ s \in 0..Eh[f].last /\ Eh[f].next[s] = t /\ HomeBlock(f, s) = b
      /\ frame' = [frame EXCEPT ![p].state = s]
  BY <1>2 DEF Enter
<1>5. Within(f, b, t)
  BY <1>1, <1>2, HomeOfTop
<1>6. Within(f, b, s)
  BY <1>3, <1>4, <1>5, WithinEnter
<1> QED
  BY <1>1, <1>2, <1>4, <1>6, MoveHomes

\* ... and left for it.
LEMMA LeaveHomes == ASSUME HInv, IInv', Homes, Leave PROVE Homes'
<1>1. IInv /\ Running
  BY DEF HInv, EInv, Leave
<1>2. PICK p, f, b, s : p = Primary(top) /\ f = Fn(top) /\ b = Home(top) /\ s = State(top)
  OBVIOUS
<1>3. f \in Fns /\ s \in States(f)
  BY <1>1, <1>2, RunningOn
<1>4. s # -1 /\ ~InHandlerState /\ frame' = [frame EXCEPT ![p].state = Eh[f].next[s]]
  BY <1>2 DEF Leave
<1>5. s \in 0..Eh[f].last /\ s \in Int
  BY <1>3, <1>4, EhAssumption DEF States
<1>6. s \in Chain(f, s)
  BY <1>3, <1>5, ChainStep
<1>7. Within(f, b, s)
  BY <1>1, <1>2, HomeOfTop
<1>8. ASSUME b # 0 PROVE HandlerState(f, b) < s
  <2>1. HandlerState(f, b) \in Chain(f, s)
    BY <1>7, <1>8 DEF Within
  <2>2. HandlerState(f, b) # s
    BY <1>2, <1>4, <1>8 DEF InHandlerState, Home
  <2>3. HandlerState(f, b) \in Int /\ HandlerState(f, b) <= s
    BY <1>3, <2>1, ChainBelow
  <2> QED
    BY <1>5, <2>2, <2>3
<1>9. Within(f, b, Eh[f].next[s])
  BY <1>3, <1>6, <1>7, <1>8, WithinLeave
<1> QED
  BY <1>1, <1>2, <1>4, <1>9, MoveHomes

\* From the first slot that is freed, nothing is left.
LEMMA FreedHomes ==
    ASSUME NEW n \in Slot, \A q \in Slot : q >= n => frame'[q] = Free
    PROVE  HomesAbove(n)
BY NothingHome DEF HomesAbove

\* A function returns to its caller, or to the dispatch that called it.
LEMMA ReturnHomes == ASSUME HInv, IInv', Homes, Return PROVE Homes'
<1>1. IInv
  BY DEF HInv, EInv
<1>2. PICK n \in Slot : n = top
  BY <1>1 DEF IInv, TypeOK
<1>3. IsFunction(n) /\ frame' = [frame EXCEPT ![n] = Free] /\ n \in Int
  BY <1>2, Depth DEF Return
<1>4. frame'[n] = Free /\ \A q \in Slot : q # n => frame'[q] = frame[q]
  BY <1>1, <1>3 DEF IInv, TypeOK
<1>5. StaysBelow(n) /\ OnlyMoves(n, 0) /\ HomesWith(n, 0)
  <2>1. \A j \in Slot : j < n => frame'[j] = frame[j]
    BY <1>3, <1>4, Depth
  <2> QED
    BY <1>1, <2>1, NoneMoves
<1>6. CoveredAbove(n)
  <2>1. ASSUME NEW p \in Slot, NEW q \in Slot, q >= n, Covers(q, p) PROVE FALSE
    <3>1. q = n
      BY <1>1, <1>2, <2>1, CoversTop
    <3> QED
      BY <1>3, <2>1, <3>1 DEF Covers, Called, IsFunction
  <2> QED
    BY <2>1 DEF CoveredAbove
<1>7. HomesAbove(n)
  <2>1. ASSUME NEW q \in Slot, q >= n PROVE frame'[q] = Free
    <3>1. q \in Nat
      BY Depth
    <3>2. CASE q = n
      BY <1>4, <3>2
    <3>3. CASE q # n
      <4>1. q > n
        BY <1>3, <2>1, <3>1, <3>3
      <4> QED
        BY <1>1, <1>2, <1>4, <3>3, <4>1, TopFacts
    <3> QED
      BY <3>2, <3>3
  <2> QED
    BY <2>1, FreedHomes
<1> QED
  BY <1>1, <1>3, <1>5, <1>6, <1>7, HomesStep

\* The exception of a handler that has returned is destroyed next.
LEMMA CatchReturnHomes == ASSUME HInv, IInv', Homes, CatchReturn PROVE Homes'
<1>1. IInv
  BY DEF HInv, EInv
<1>2. PICK m \in Slot : m = top
  BY <1>1 DEF IInv, TypeOK
<1>3. frame[m].kind = "funclet"
  BY <1>2 DEF CatchReturn, Running, InHandlerState, IsUser, IsFunction
<1>4. PICK n \in Slot : n = m - 1 /\ frame[n].kind = "catch"
  BY <1>1, <1>2, <1>3, TopFacts
<1>5. PICK d, x : d = frame[n] /\ x = [d EXCEPT !.kind = "destroy", !.pc = "destroy"]
  OBVIOUS
<1>6. n \in Nat /\ m \in Nat /\ n < m /\ m = n + 1
  BY <1>4, Depth
<1>7. d \in RuntimeFrame /\ x.kind = "destroy" /\ x.tf = d.tf /\ x.block = d.block /\ x.reg = d.reg
  <2>1. d \in RuntimeFrame
    BY <1>1, <1>4, <1>5, Kinds DEF IInv, IsRuntime
  <2> QED
    BY <1>5, <2>1 DEF RuntimeFrame
<1>8. frame' = [frame EXCEPT ![m] = Free, ![n] = x]
  <2>1. frame' = [frame EXCEPT ![m] = Free, ![n] = [@ EXCEPT !.kind = "destroy", !.pc = "destroy"]]
    BY <1>2, <1>4 DEF CatchReturn
  <2> QED
    BY <1>5, <1>6, <2>1
<1>9. frame'[n] = x /\ frame'[m] = Free /\ \A q \in Slot : q # n /\ q # m => frame'[q] = frame[q]
  BY <1>1, <1>6, <1>8 DEF IInv, TypeOK
<1>10. PICK p : p = Base(n)
  OBVIOUS
<1>11. Called(n) /\ Handles(n) /\ IsRuntime(n) /\ Base(n)' = p
  BY <1>4, <1>5, <1>7, <1>9, <1>10 DEF Called, Handles, IsRuntime, Base
<1>12. StaysBelow(n) /\ OnlyMoves(n, 0) /\ HomesWith(n, 0)
  <2>1. \A j \in Slot : j < n => frame'[j] = frame[j]
    BY <1>6, <1>9, Depth
  <2> QED
    BY <1>1, <2>1, NoneMoves
<1>13. ASSUME NEW q \in Slot, q > n PROVE q = m \/ frame[q] = Free
  <2>1. q \in Nat
    BY Depth
  <2>2. q = m \/ q > m
    BY <1>6, <1>13, <2>1
  <2> QED
    BY <1>1, <1>2, <2>2, TopFacts
<1>14. CoveredAbove(n)
  <2>1. ASSUME NEW k \in Slot, NEW P \in Slot, k < n, NEW q \in Slot, q >= n, Covers(q, P)
        PROVE  \E o \in Slot : o > k /\ Covers(o, P)'
    <3>1. q \in Nat /\ k \in Nat /\ n > k
      BY <1>6, <2>1, Depth
    <3>2. P = p
      <4>1. CASE q = n
        BY <1>4, <1>10, <2>1, <4>1 DEF Covers
      <4>2. CASE q # n
        <5>1. q > n
          BY <1>6, <2>1, <3>1, <4>2
        <5>2. q = m
          BY <1>13, <2>1, <5>1 DEF Covers, Called, Free
        <5>3. FuncletShape(m)
          BY <1>1, <1>3 DEF IInv, Shape, SlotShape
        <5> QED
          BY <1>3, <1>4, <1>10, <2>1, <5>2, <5>3 DEF Covers, Called, FuncletShape, Base
      <4> QED
        BY <4>1, <4>2
    <3>3. Covers(n, P)'
      BY <1>7, <1>9, <1>11, <3>2 DEF Covers
    <3> QED
      BY <3>1, <3>3
  <2> QED
    BY <2>1 DEF CoveredAbove
<1>15. HomesAbove(n)
  <2>1. ASSUME NEW q \in Slot, q >= n PROVE HomeAt(q)'
    <3>1. CASE q = n
      <4>1. HomeOf(n)'
        <5>1. StaysBelow(n) /\ frame'[n].block = frame[n].block /\ frame'[n].reg = frame[n].reg
              /\ frame'[n].tf.primary_frame_base = Base(n)
          BY <1>5, <1>7, <1>9, <1>10, <1>11, <1>12 DEF Base
        <5> QED
          BY <1>1, <1>11, <5>1, HomeOfSame
      <4> QED
        BY <1>7, <1>9, <3>1, <4>1 DEF HomeAt, HomeShape, EnteredShape, IsUser
    <3>2. CASE q # n
      <4>1. q > n
        BY <1>6, <2>1, <3>2, Depth
      <4>2. frame'[q] = Free
        BY <1>9, <1>13, <3>2, <4>1
      <4> QED
        BY <4>2, NothingHome
    <3> QED
      BY <3>1, <3>2
  <2> QED
    BY <2>1 DEF HomesAbove
<1> QED
  BY <1>1, <1>6, <1>12, <1>14, <1>15, HomesStep

\* A handler starts in the state its function has entered.
LEMMA CallHandlerHomes == ASSUME HInv, IInv', Homes, CallHandler PROVE Homes'
<1>1. IInv
  BY DEF HInv, EInv
<1>2. PICK n \in Slot : n = top
  BY <1>1 DEF IInv, TypeOK
<1>3. PICK d, x, y :
        /\ d = frame[n]
        /\ x = [T EXCEPT !.kind = "catch", !.pc = "handler", !.next = head,
                         !.entry = -1, !.target = -1, !.clause = 0]
        /\ y = [kind |-> "funclet", block |-> T.block, primary |-> Primary(top)]
  OBVIOUS
<1>4. Dispatching("call") /\ frame' = [frame EXCEPT ![n] = x, ![n + 1] = y]
  BY <1>2, <1>3 DEF CallHandler
<1>5. d \in RuntimeFrame /\ T = d /\ d.kind = "throw" /\ d.pc = "call"
  BY <1>1, <1>2, <1>3, <1>4, TopThrow
<1>6. PICK p : p = Base(n)
  OBVIOUS
<1>7. x.kind = "catch" /\ x.block = d.block /\ x.tf = d.tf /\ x.reg = d.reg
      /\ y.kind = "funclet" /\ y.primary = p /\ y.block = d.block
  <2>1. Primary(top) = p
    BY <1>2, <1>3, <1>5, <1>6 DEF Primary, Base
  <2> QED
    BY <1>3, <1>5, <2>1 DEF RuntimeFrame
<1>8. PICK m \in Slot : m = n + 1
  <2>1. n < MaxDepth
    BY <1>1, <1>2, <1>3, <1>5, TopDispatch DEF ThrowOf
  <2> QED
    BY <2>1, Depth DEF Slot
<1>9. n \in Nat /\ m \in Nat /\ n < m
  BY <1>8, Depth
<1>10. frame'[n] = x /\ frame'[m] = y /\ \A q \in Slot : q # n /\ q # m => frame'[q] = frame[q]
  BY <1>1, <1>4, <1>8, <1>9 DEF IInv, TypeOK
<1>11. Called(n) /\ Handles(n) /\ IsRuntime(n) /\ p \in Slot /\ p < n /\ IsFunction(p)
  <2>1. Called(n)
    BY <1>3, <1>5 DEF Called
  <2> QED
    BY <1>1, <1>6, <2>1, CalledFacts
<1>12. frame'[p] = frame[p]
  <2>1. p \in Nat
    BY <1>11, Depth
  <2> QED
    BY <1>9, <1>10, <1>11, <2>1
<1>13. StaysBelow(n) /\ OnlyMoves(n, 0) /\ HomesWith(n, 0)
  <2>1. \A j \in Slot : j < n => frame'[j] = frame[j]
    BY <1>9, <1>10, Depth
  <2> QED
    BY <1>1, <2>1, NoneMoves
<1>14. CoveredAbove(n)
  <2>1. ASSUME NEW k \in Slot, NEW P \in Slot, k < n, NEW q \in Slot, q >= n, Covers(q, P)
        PROVE  \E o \in Slot : o > k /\ Covers(o, P)'
    <3>1. k \in Nat /\ n > k
      BY <1>9, <2>1, Depth
    <3>2. q = n
      BY <1>1, <1>2, <2>1, CoversTop
    <3>3. P = p
      BY <1>3, <1>5, <1>6, <2>1, <3>2 DEF Covers
    <3>4. Covers(n, P)'
      BY <1>6, <1>7, <1>3, <1>10, <3>3 DEF Covers, Called, Base
    <3> QED
      BY <3>1, <3>4
  <2> QED
    BY <2>1 DEF CoveredAbove
<1>15. HomesAbove(n)
  <2>1. ASSUME NEW q \in Slot, q >= n PROVE HomeAt(q)'
    <3>1. CASE q = n
      <4>1. HomeOf(n)'
        BY <1>1, <1>3, <1>6, <1>7, <1>10, <1>11, <1>13, HomeOfSame DEF Base
      <4> QED
        BY <1>7, <1>10, <3>1, <4>1 DEF HomeAt, HomeShape, EnteredShape, IsUser
    <3>2. CASE q = m
      <4>1. PICK f, b, s : f = frame[p].fn /\ b = d.block /\ s = frame[p].state
        OBVIOUS
      <4>2. Within(f, b, s)
        BY <1>3, <1>5, <1>6, <4>1 DEF Homes, HomeAt, EnteredShape
      <4>3. Primary(m)' = p /\ Home(m)' = b
        BY <1>7, <1>10, <4>1 DEF Primary, Home, IsFunction
      <4>4. Fn(m)' = f /\ State(m)' = s
        BY <1>12, <4>1, <4>3 DEF Fn, State
      <4>5. HomeShape(m)'
        BY <4>2, <4>3, <4>4 DEF HomeShape, Within
      <4> QED
        BY <1>7, <1>10, <3>2, <4>5 DEF HomeAt, HomeOf, EnteredShape, Handles
    <3>3. CASE q # n /\ q # m
      <4>1. q > n
        BY <1>9, <2>1, <3>3, Depth
      <4>2. frame'[q] = Free
        BY <1>1, <1>2, <1>10, <3>3, <4>1, TopFacts
      <4> QED
        BY <4>2, NothingHome
    <3> QED
      BY <3>1, <3>2, <3>3
  <2> QED
    BY <2>1 DEF HomesAbove
<1> QED
  BY <1>1, <1>9, <1>13, <1>14, <1>15, HomesStep

\* The newest dispatch works on the function in slot p.
LEMMA WorkHomes ==
    ASSUME IInv, IInv', Homes, NEW n \in Slot, n = top, frame[n].kind = "throw",
           frame[n].pc = "unwind",
           NEW p \in Slot, p < n, IsFunction(p), p = Primary(frame[n].reg), frame[n].reg \in Nat,
           NEW x, x.kind = "throw", NEW y, y.kind = "function", y.fn = frame[p].fn,
           frame' = [frame EXCEPT ![p] = y, ![n] = x],
           Covers(n, p)', HomeOf(n)', EnteredShape(n)'
    PROVE  Homes'
<1>1. n \in Int /\ p # n
  BY Depth
<1>2. frame'[n] = x /\ frame'[p] = y /\ \A q \in Slot : q # n /\ q # p => frame'[q] = frame[q]
  BY <1>1 DEF IInv, TypeOK
<1>3. \A j \in Slot : j < n => Stays(j)
  <2>1. ASSUME NEW j \in Slot, j < n PROVE Stays(j)
    <3>1. j # n
      BY <1>1, <2>1, Depth
    <3> QED
      BY <1>2, <3>1 DEF Stays
  <2> QED
    BY <2>1
<1>4. StaysBelow(n) /\ OnlyMoves(n, p)
  <2>1. \A j \in Slot : j < n => j # n
    BY <1>1, Depth
  <2> QED
    BY <1>2, <1>3, <2>1 DEF StaysBelow, OnlyMoves
<1>5. CoveredAbove(n)
  <2>1. ASSUME NEW k \in Slot, NEW P \in Slot, k < n, NEW q \in Slot, q >= n, Covers(q, P)
        PROVE  \E o \in Slot : o > k /\ Covers(o, P)'
    <3>1. q = n
      BY <2>1, CoversTop
    <3>2. P = p
      BY <2>1, <3>1 DEF Covers, Called
    <3>3. n > k
      BY <1>1, <2>1, Depth
    <3> QED
      BY <3>2, <3>3
  <2> QED
    BY <2>1 DEF CoveredAbove
<1>6. HomesWith(n, p)
  <2>1. ASSUME NEW k \in Slot, k < n, IsUser(k), Primary(k) = p PROVE HomeShape(k)'
    <3>1. Primary(k)' = p /\ n > k
      BY <1>1, <1>3, <2>1, StaysFacts, Depth
    <3> QED
      BY <3>1 DEF HomeShape
  <2>2. ASSUME NEW k \in Slot, k < n, Called(k), Base(k) = p PROVE EnteredShape(k)'
    <3>1. k # n
      BY <1>1, <2>2, Depth
    <3>2. frame[k].kind = "catch"
      BY <2>2, <3>1, UnderWorker
    <3>3. frame'[k] = frame[k]
      BY <1>2, <3>1, <3>2 DEF IsFunction
    <3> QED
      BY <3>2, <3>3 DEF EnteredShape
  <2> QED
    BY <2>1, <2>2 DEF HomesWith
<1>7. HomesAbove(n)
  <2>1. ASSUME NEW k \in Slot, k >= n PROVE HomeAt(k)'
    <3>1. CASE k = n
      BY <1>2, <3>1 DEF HomeAt, HomeShape, IsUser
    <3>2. CASE k # n
      <4>1. k > n /\ k # p
        BY <1>1, <2>1, <3>2, Depth
      <4>2. frame'[k] = Free
        BY <1>2, <3>2, <4>1, TopFacts
      <4> QED
        BY <4>2, NothingHome
    <3> QED
      BY <3>1, <3>2
  <2> QED
    BY <2>1 DEF HomesAbove
<1> QED
  BY <1>1, <1>4, <1>5, <1>6, <1>7, HomesStep

\* The function is unwound by one state.
LEMMA UnwindEdgeHomes == ASSUME HInv, IInv', Homes, UnwindEdge PROVE Homes'
<1>1. PICK n \in Slot : n = top
  BY DEF HInv, EInv, IInv, TypeOK
<1>2. PICK d, r, p, f, s : d = frame[n] /\ r = d.reg /\ p = Primary(r) /\ f = Fn(r) /\ s = State(r)
  OBVIOUS
<1>3. /\ d.kind = "throw" /\ d.pc = "unwind" /\ T = d /\ d \in RuntimeFrame /\ IsRuntime(n) /\ IInv
      /\ frame[n].kind = "throw" /\ frame[n].pc = "unwind" /\ r = frame[n].reg
  BY <1>1, <1>2, TopThrow DEF UnwindEdge, HInv, EInv
<1>4. /\ r \in Slot /\ r < n /\ p \in Slot /\ p < n /\ IsFunction(p) /\ frame[p] \in FunctionFrame /\ f = frame[p].fn
      /\ Unwinds(n) => d.tf.primary_frame_base = p
  BY <1>1, <1>2, <1>3, Worked DEF HInv
<1>5. PICK t, pc : t = Eh[f].next[s] /\ pc = IF s \in Eh[f].cleanup THEN "cleanup" ELSE "unwind"
  OBVIOUS
<1> DEFINE x == [d EXCEPT !.pc = pc]
           y == [frame[p] EXCEPT !.state = t]
<1>6. x.kind = "throw" /\ x.block = d.block /\ x.tf = d.tf /\ x.reg = r /\ x.pc \in {"unwind", "cleanup"}
  BY <1>2, <1>3, <1>5 DEF RuntimeFrame
<1>7. y.kind = "function" /\ y.fn = f /\ y.fn = frame[p].fn
  BY <1>4 DEF FunctionFrame, IsFunction
<1>8. p # n /\ r # n
  BY <1>4, Depth
<1>9. frame' = [frame EXCEPT ![p] = y, ![n] = x]
  <2>1. frame' = [frame EXCEPT ![p].state = t, ![n].pc = pc]
    BY <1>1, <1>2, <1>3, <1>5 DEF UnwindEdge
  <2> QED
    BY <1>2, <1>8, <2>1
<1> HIDE DEF x, y
<1>10. frame'[n] = x /\ frame'[p] = y /\ \A q \in Slot : q # n /\ q # p => frame'[q] = frame[q]
  BY <1>3, <1>4, <1>8, <1>9 DEF IInv, TypeOK
<1>11. \A j \in Slot : j # n => Stays(j)
  BY <1>4, <1>7, <1>10 DEF Stays
<1>12. Covers(n, p)'
  <2>1. Primary(r)' = p
    BY <1>2, <1>4, <1>8, <1>11, StaysFacts
  <2> QED
    BY <1>6, <1>10, <2>1 DEF Covers
<1>13. HomeOf(n)'
  <2>1. CASE d.block = 0
    BY <1>6, <1>10, <2>1 DEF HomeOf, Handles
  <2>2. CASE d.block # 0
    <3>1. Handles(n)
      BY <1>2, <1>3, <2>2 DEF Handles
    <3>2. StaysBelow(n)
      BY <1>11, Depth DEF StaysBelow
    <3> QED
      BY <1>2, <1>3, <1>6, <1>10, <3>1, <3>2, HomeOfSame DEF Base
  <2> QED
    BY <2>1, <2>2
<1>14. EnteredShape(n)'
  BY <1>6, <1>10 DEF EnteredShape
<1>15. r \in Nat
  BY <1>4, Depth
<1> QED
  BY <1>1, <1>2, <1>3, <1>4, <1>6, <1>7, <1>9, <1>12, <1>13, <1>14, <1>15, WorkHomes

\* The catcher is put in the first state of the handler it will go on with.
LEMMA BindHomes == ASSUME HInv, IInv', Homes, BindCatchVariable PROVE Homes'
<1>1. PICK n \in Slot : n = top
  BY DEF HInv, EInv, IInv, TypeOK
<1>2. PICK d, r, p, f, i : d = frame[n] /\ r = d.reg /\ p = Primary(r) /\ f = Fn(r) /\ i = d.block
  OBVIOUS
<1>3. /\ d.kind = "throw" /\ d.pc = "unwind" /\ T = d /\ i # 0 /\ d \in RuntimeFrame /\ IsRuntime(n) /\ IInv
      /\ frame[n].kind = "throw" /\ frame[n].pc = "unwind" /\ r = frame[n].reg
  BY <1>1, <1>2, TopThrow DEF BindCatchVariable, Unwound, HInv, EInv
<1>4. /\ r \in Slot /\ r < n /\ p \in Slot /\ p < n /\ IsFunction(p) /\ frame[p] \in FunctionFrame /\ f = frame[p].fn
      /\ f \in Fns /\ (Unwinds(n) => d.tf.primary_frame_base = p /\ d.block \in Blocks(f))
  BY <1>1, <1>2, <1>3, Worked DEF HInv
<1>5. i \in Blocks(f) /\ Base(n) = p /\ Handles(n)
  BY <1>2, <1>3, <1>4 DEF Unwinds, Base, Handles
<1>6. PICK h, copies :
        /\ h = HandlerState(f, i)
        /\ copies = CopiesFor(Block(Fn(T.reg), T.block).handlers[T.clause], GetThrowInfo(T.tf))
  OBVIOUS
<1>7. PICK pc : pc = IF copies THEN "copy" ELSE "call"
  OBVIOUS
<1> DEFINE x == [d EXCEPT !.pc = pc]
           y == [frame[p] EXCEPT !.state = h]
<1>8. x.kind = "throw" /\ x.pc \in {"copy", "call"} /\ x.block = i /\ x.tf = d.tf /\ x.reg = r
  BY <1>2, <1>3, <1>7 DEF RuntimeFrame
<1>9. y.kind = "function" /\ y.fn = f /\ y.state = h
  BY <1>4 DEF FunctionFrame, IsFunction
<1>10. p # n
  BY <1>4, Depth
<1>11. frame' = [frame EXCEPT ![p] = y, ![n] = x]
  <2>1. frame' = [frame EXCEPT ![p].state = h, ![n].pc = pc]
    BY <1>1, <1>2, <1>3, <1>6, <1>7 DEF BindCatchVariable
  <2> QED
    BY <1>2, <1>10, <2>1
<1> HIDE DEF x, y
<1>12. frame'[n] = x /\ frame'[p] = y /\ \A q \in Slot : q # n /\ q # p => frame'[q] = frame[q]
  BY <1>3, <1>4, <1>10, <1>11 DEF IInv, TypeOK
<1>13. Base(n)' = p /\ frame'[n].block = i
  BY <1>2, <1>5, <1>8, <1>12 DEF Base
<1>14. Covers(n, p)'
  BY <1>8, <1>12, <1>13 DEF Covers, Called
<1>15. HomeOf(n)'
  <2>1. StaysBelow(n)
    <3>1. ASSUME NEW j \in Slot, j < n PROVE Stays(j)
      <4>1. j # n
        BY <3>1, Depth
      <4> QED
        BY <1>4, <1>9, <1>12, <4>1 DEF Stays
    <3> QED
      BY <3>1 DEF StaysBelow
  <2> QED
    BY <1>2, <1>3, <1>5, <1>8, <1>12, <1>13, <2>1, HomeOfSame DEF Base
<1>16. EnteredShape(n)'
  <2>1. Within(f, i, h)
    BY <1>4, <1>5, <1>6, WithinStart
  <2>2. frame'[p].fn = f /\ frame'[p].state = h
    BY <1>9, <1>12
  <2> QED
    BY <1>13, <2>1, <2>2 DEF EnteredShape, Within
<1>17. y.fn = frame[p].fn /\ r \in Nat
  BY <1>4, <1>9, Depth
<1> QED
  BY <1>1, <1>2, <1>3, <1>4, <1>8, <1>9, <1>11, <1>14, <1>15, <1>16, <1>17, WorkHomes

\* The catcher goes on after its try statement.
LEMMA ContinueHomes == ASSUME HInv, IInv', Homes, ContinueAfterException PROVE Homes'
<1>1. IInv
  BY DEF HInv, EInv
<1>2. PICK n \in Slot : n = top
  BY <1>1 DEF IInv, TypeOK
<1>3. PICK d, p, f, i, r, k :
        d = frame[n] /\ p = Base(n) /\ f = frame[p].fn /\ i = d.block /\ r = d.reg /\ k = Body(r)
  OBVIOUS
<1>4. d.kind = "destroy" /\ T = d /\ IsRuntime(n) /\ Handles(n)
  BY <1>2, <1>3 DEF ContinueAfterException, T, IsRuntime, Handles
<1>5. HandlingOf(d, n) /\ r < n
  BY <1>1, <1>3, <1>4, RegBelow DEF IInv, Shape, SlotShape, HandlingShape
<1>6. /\ p \in Slot /\ p < n /\ IsFunction(p) /\ i \in Blocks(f) /\ p = Primary(r) /\ Catcher(r)
      /\ \A q \in Slot : k < q /\ q < n => frame[q] = Free
      /\ \A q \in Slot : q < n /\ frame[q].kind \in {"throw", "destroy"} => q < p
  BY <1>3, <1>5 DEF HandlingOf, Base
<1>7. r \in Slot /\ frame[p] \in FunctionFrame /\ n \in Nat /\ r \in Nat /\ p \in Nat
  BY <1>1, <1>3, <1>4, <1>6, RegBelow, Kinds, Depth DEF IInv, Catcher
<1>8. /\ k \in Slot /\ k \in Nat /\ k >= r /\ IsUser(k) /\ Primary(k) = p /\ Home(k) = Home(r)
      /\ IsFunction(r) => k = r /\ p = r
      /\ frame[r].kind = "catch" =>
            k = r + 1 /\ frame[k].kind = "funclet" /\ frame[k].primary = p
  BY <1>1, <1>3, <1>6, <1>7, BodyFacts
<1>9. k < n
  <2>1. k # n
    BY <1>3, <1>4, <1>8 DEF IsUser
  <2> QED
    BY <1>5, <1>6, <1>7, <1>8, <2>1 DEF Catcher
<1> DEFINE y == [frame[p] EXCEPT !.state = Around(f, i)]
<1>10. y.kind = "function" /\ y.fn = f /\ y.state = Around(f, i)
  BY <1>3, <1>6, <1>7 DEF FunctionFrame, IsFunction
<1>11. frame' = [frame EXCEPT ![p] = y, ![n] = Free]
  <2>1. frame' = [frame EXCEPT ![n] = Free, ![p].state = Eh[frame[p].fn].next[Block(frame[p].fn, T.block).try_low]]
    BY <1>2, <1>3, <1>4 DEF ContinueAfterException, Base
  <2>2. frame' = [frame EXCEPT ![n] = Free, ![p].state = Around(f, i)]
    BY <1>3, <1>4, <2>1 DEF Around
  <2>3. p # n
    BY <1>6, <1>7
  <2> QED
    BY <2>2, <2>3
<1> HIDE DEF y
<1>12. frame'[n] = Free /\ frame'[p] = y /\ \A q \in Slot : q # n /\ q # p => frame'[q] = frame[q]
  BY <1>1, <1>6, <1>7, <1>11 DEF IInv, TypeOK
<1>13. \A j \in Slot : j # n => Stays(j)
  BY <1>3, <1>6, <1>10, <1>12 DEF Stays
<1>14. StaysBelow(k) /\ OnlyMoves(k, p)
  <2>1. \A j \in Slot : j < k => j # n
    BY <1>8, <1>9, Depth
  <2> QED
    BY <1>12, <1>13, <2>1 DEF StaysBelow, OnlyMoves
<1>15. ASSUME NEW j \in Slot, IsUser(j), Primary(j) = p, j < k PROVE Covers(k, p)'
  <2>1. ~IsFunction(r)
    BY <1>1, <1>3, <1>6, <1>7, <1>15, BodyCovers
  <2>2. frame[k].kind = "funclet" /\ frame[k].primary = p
    BY <1>6, <1>8, <2>1 DEF Catcher
  <2>3. frame'[k] = frame[k]
    BY <1>6, <1>7, <1>8, <1>9, <1>12, <2>2 DEF IsFunction
  <2> QED
    BY <2>2, <2>3 DEF Covers
<1>16. CoveredAbove(k)
  <2>1. ASSUME NEW j \in Slot, NEW P \in Slot, j < k, IsUser(j), Primary(j) = P,
               NEW q \in Slot, q >= k, Covers(q, P)
        PROVE  \E o \in Slot : o > j /\ Covers(o, P)'
    <3>1. q \in Nat /\ j \in Nat /\ k > j
      BY <1>8, <2>1, Depth
    <3>2. P = p
      <4>1. CASE q = k
        BY <1>8, <2>1, <4>1 DEF Covers, Called, IsUser, Primary, IsFunction
      <4>2. CASE q = n
        BY <1>3, <1>4, <2>1, <4>2 DEF Covers, Called
      <4>3. CASE q # k /\ q # n
        <5>1. frame[q] = Free
          <6>1. (k < q /\ q < n) \/ q > n
            BY <1>7, <1>8, <2>1, <3>1, <4>3
          <6> QED
            BY <1>1, <1>2, <1>6, <6>1, TopFacts
        <5> QED
          BY <2>1, <5>1 DEF Covers, Called, Free
      <4> QED
        BY <4>1, <4>2, <4>3
    <3> QED
      BY <1>8, <1>15, <2>1, <3>1, <3>2
  <2> QED
    BY <2>1 DEF CoveredAbove
<1>17. HomesWith(k, p)
  <2>1. ASSUME NEW j \in Slot, j < k, IsUser(j), Primary(j) = p PROVE HomeShape(j)'
    <3>1. k > j /\ j # n
      BY <1>8, <1>9, <2>1, Depth
    <3>2. Covers(k, p)' /\ Primary(j)' = p
      BY <1>13, <1>15, <2>1, <3>1, StaysFacts
    <3> QED
      BY <1>8, <3>1, <3>2 DEF HomeShape
  <2>2. ASSUME NEW j \in Slot, j < k, Called(j), Base(j) = p PROVE EnteredShape(j)'
    <3>1. p < j /\ j # p /\ j < n
      BY <1>1, <1>8, <1>9, <2>2, CalledFacts, Depth
    <3>2. frame[j].kind = "catch"
      <4>1. ~(j < p)
        BY <1>7, <3>1, Depth
      <4> QED
        BY <1>6, <2>2, <3>1, <4>1 DEF Called
    <3>3. frame'[j] = frame[j]
      BY <1>7, <1>12, <3>1, Depth
    <3> QED
      BY <3>2, <3>3 DEF EnteredShape
  <2> QED
    BY <2>1, <2>2 DEF HomesWith
<1>18. HomesAbove(k)
  <2>1. ASSUME NEW q \in Slot, q >= k PROVE HomeAt(q)'
    <3>1. CASE q = k
      <4>1. PICK h : h = Home(r)
        OBVIOUS
      <4>2. Within(f, h, Around(f, i))
        BY <1>3, <1>4, <4>1 DEF Homes, HomeAt, HomeOf
      <4>3. Stays(k)
        BY <1>7, <1>8, <1>9, <1>13
      <4>4. Primary(k)' = p /\ Home(k)' = h
        BY <1>8, <4>1, <4>3, StaysFacts
      <4>5. Fn(k)' = f /\ State(k)' = Around(f, i)
        BY <1>10, <1>12, <4>4 DEF Fn, State
      <4>6. HomeShape(k)'
        BY <4>2, <4>4, <4>5 DEF HomeShape, Within
      <4>7. frame'[k].kind \in {"function", "funclet"}
        BY <1>8, <4>3, StaysFacts DEF IsUser
      <4> QED
        BY <3>1, <4>6, <4>7 DEF HomeAt, HomeOf, EnteredShape, Handles
    <3>2. CASE q # k
      <4>1. q \in Nat /\ q > k /\ q # p
        <5>1. p <= k
          BY <1>1, <1>8, UserFacts
        <5> QED
          BY <1>7, <1>8, <2>1, <3>2, <5>1, Depth
      <4>2. frame'[q] = Free
        <5>1. q = n \/ q < n \/ q > n
          BY <1>7, <4>1
        <5>2. q > n => frame[q] = Free
          BY <1>1, <1>2, TopFacts
        <5> QED
          BY <1>6, <1>12, <4>1, <5>1, <5>2
      <4> QED
        BY <4>2, NothingHome
    <3> QED
      BY <3>1, <3>2
  <2> QED
    BY <2>1 DEF HomesAbove
<1> QED
  BY <1>1, <1>8, <1>14, <1>16, <1>17, <1>18, HomesStep

\* A handler that an exception leaves has brought its function to where the code
\* around it was.
LEMMA LeavesAround ==
    ASSUME HInv, NEW n \in Slot, n = top, frame[n].kind = "throw", frame[n].block = 0,
           NEW r, r = frame[n].reg, frame[r].kind = "catch",
           frame[n].pc = "abandon" \/ (frame[n].pc = "unwind" /\ State(r) <= frame[n].target),
           NEW p, p = Base(r)
    PROVE  frame[p].state = Around(frame[p].fn, frame[r].block)
<1>1. IInv /\ ThrowOf(frame[n], n) /\ r \in Slot /\ Catcher(r)
  BY Worked, TopDispatch DEF HInv, EInv
<1>2. State(r) <= UnwoundState(r)
  BY <1>1 DEF ThrowOf
<1>3. Called(r)
  BY DEF Called
<1>4. /\ p \in Slot /\ IsFunction(p) /\ frame[p].fn \in Fns /\ frame[p].state \in States(frame[p].fn)
      /\ frame[r].block \in Blocks(frame[p].fn)
  BY <1>1, <1>3, CalledFacts
<1>5. HandlingOf(frame[r], r)
  BY <1>1, UnderCatcher DEF HandlingShape
<1>6. PICK f, s, i : f = frame[p].fn /\ s = frame[p].state /\ i = frame[r].block
  OBVIOUS
<1>7. State(r) = s /\ UnwoundState(r) = Block(f, i).try_low - 1
  BY <1>1, <1>5, <1>6 DEF Primary, State, UnwoundState, Base, HandlingOf, IsFunction
<1>8. ~Inside(r)
  <2>1. PICK h \in Int : h = HandlerState(f, i) /\ h > Block(f, i).try_low /\ Block(f, i).try_low \in Int
    BY <1>4, <1>6, HandlerFacts
  <2>2. s \in Int /\ s <= Block(f, i).try_low - 1
    BY <1>2, <1>4, <1>6, <1>7 DEF States
  <2>3. h \notin Chain(f, s)
    BY <1>4, <1>6, <2>1, <2>2, ChainBelow
  <2> QED
    BY <1>6, <2>1, <2>3 DEF Inside, InsideOf
<1> QED
  BY <1>1, <1>3, <1>8 DEF HInv, Handlers, HandlerShape, Left

\* What a dispatch that passes registration r leaves behind.
Passes(n, r, x) ==
    /\ n = top /\ r = frame[n].reg /\ frame[n].kind = "throw" /\ frame[n].block = 0
    /\ \/ frame[n].pc = "abandon"
       \/ frame[n].pc = "unwind" /\ State(r) <= frame[n].target
    /\ x.kind = "throw" /\ x.block = 0 /\ x.pc = "visit"
    /\ frame' = [k \in Slot |-> IF k = n THEN x ELSE IF r <= k /\ k < n THEN Free ELSE frame[k]]

\* A registration is passed in three ways, which leave the same behind.
LEMMA PassRegistrationPasses ==
    ASSUME IInv, PassFunction \/ TakeFromCatchFrame \/ PassCatchFrame
    PROVE  \E n \in Slot : \E r, x : Passes(n, r, x)
<1>1. PICK n \in Slot : n = top
  BY DEF IInv, TypeOK
<1>2. PICK d, r : d = frame[n] /\ r = d.reg
  OBVIOUS
<1>3. PICK tf : PassRegistration(tf)
  BY DEF PassFunction, TakeFromCatchFrame, PassCatchFrame
<1>4. \/ Dispatching("abandon")
      \/ Dispatching("unwind") /\ State(T.reg) <= T.target /\ T.block = 0
  BY DEF PassFunction, TakeFromCatchFrame, PassCatchFrame, NothingHere, Unwound
<1>5. T = d /\ d.kind = "throw" /\ d.pc \in {"abandon", "unwind"} /\ d \in RuntimeFrame
  BY <1>1, <1>2, <1>4, TopThrow
<1>6. d.block = 0 /\ (d.pc = "abandon" \/ (d.pc = "unwind" /\ State(r) <= d.target))
  <2>1. ThrowOf(d, n)
    BY <1>1, <1>2, <1>5, TopDispatch
  <2> QED
    BY <1>2, <1>4, <1>5, <2>1 DEF ThrowOf, Dispatching, T
<1>7. PICK x : x = [T EXCEPT !.reg = NextRegistration, !.next = 0, !.pc = "visit",
                             !.tf = tf, !.entry = -1, !.target = -1]
  OBVIOUS
<1>8. x.kind = "throw" /\ x.block = 0 /\ x.pc = "visit"
  BY <1>5, <1>6, <1>7 DEF RuntimeFrame
<1>9. frame' = [k \in Slot |-> IF k = n THEN x ELSE IF r <= k /\ k < n THEN Free ELSE frame[k]]
  BY <1>1, <1>2, <1>3, <1>5, <1>7 DEF PassRegistration
<1>10. Passes(n, r, x)
  BY <1>1, <1>2, <1>5, <1>6, <1>8, <1>9 DEF Passes
<1> QED
  BY <1>10

\* A dispatch passes a registration: what was above it is gone.
LEMMA PassHomes ==
    ASSUME HInv, IInv', Homes, PassFunction \/ TakeFromCatchFrame \/ PassCatchFrame
    PROVE  Homes'
<1>1. IInv
  BY DEF HInv, EInv
<1>2. PICK n \in Slot : \E r, x : Passes(n, r, x)
  BY <1>1, PassRegistrationPasses
<1>3. PICK r, x : Passes(n, r, x)
  BY <1>2
<1>4. PICK p, k : p = Primary(r) /\ k = Body(r)
  OBVIOUS
<1>5. /\ n = top /\ r = frame[n].reg /\ frame[n].kind = "throw" /\ frame[n].block = 0
      /\ frame[n].pc \in {"abandon", "unwind"} /\ x.kind = "throw" /\ x.block = 0 /\ x.pc = "visit"
  BY <1>3 DEF Passes
<1>6. r \in Slot /\ Catcher(r) /\ r < n /\ r \in Nat /\ n \in Nat /\ GapShape(n)
  BY <1>5, Worked, TopDispatch, Depth DEF HInv, EInv
<1>7. /\ k \in Slot /\ k \in Nat /\ k >= r
      /\ IsFunction(r) => k = r /\ p = r
      /\ frame[r].kind = "catch" =>
            k = r + 1 /\ frame[k].kind = "funclet" /\ frame[k].primary = p /\ Base(r) = p
  BY <1>1, <1>4, <1>6, BodyFacts
<1>8. ASSUME NEW q \in Slot
      PROVE  /\ q \in Nat
             /\ q < r => frame'[q] = frame[q]
             /\ q >= r => HomeAt(q)'
  <2>1. q \in Nat
    BY Depth
  <2>2. frame'[q] = IF q = n THEN x ELSE IF r <= q /\ q < n THEN Free ELSE frame[q]
    BY <1>3 DEF Passes
  <2>3. q > n => frame[q] = Free
    BY <1>1, <1>5, TopFacts
  <2>4. q = n => frame'[q] = x
    BY <2>2
  <2>5. q >= r /\ q # n => frame'[q] = Free
    BY <1>6, <2>1, <2>2, <2>3
  <2>6. q >= r => HomeAt(q)'
    BY <1>5, <2>4, <2>5, NothingHome
  <2> QED
    BY <1>6, <2>1, <2>2, <2>6
<1>9. ASSUME NEW q \in Slot, q >= r, NEW P, Covers(q, P) PROVE P = p
  <2>1. q \in Nat /\ frame[q] # Free
    BY <1>9, Depth DEF Covers, Called, Free
  <2>2. ~(q > n)
    BY <1>1, <1>5, <2>1, TopFacts
  <2>3. CASE q = n
    BY <1>4, <1>5, <1>9, <2>3 DEF Covers, Called
  <2>4. CASE q = r
    BY <1>6, <1>7, <1>9, <2>4 DEF Covers, Called, Catcher, IsFunction
  <2>5. CASE r < q /\ q <= k
    <3>1. frame[r].kind = "catch"
      BY <1>6, <1>7, <2>1, <2>5 DEF Catcher
    <3>2. q = k
      BY <1>6, <1>7, <2>1, <2>5, <3>1
    <3> QED
      BY <1>7, <1>9, <3>1, <3>2 DEF Covers, Called
  <2>6. CASE k < q /\ q < n
    <3>1. Abandons(q, r)
      BY <1>4, <1>5, <1>6, <2>1, <2>6 DEF GapShape
    <3> QED
      BY <1>4, <1>9, <3>1 DEF Abandons, Covers, Called
  <2> QED
    BY <1>6, <1>7, <1>9, <2>1, <2>2, <2>3, <2>4, <2>5, <2>6
<1>10. CASE IsFunction(r)
  <2>1. StaysBelow(r) /\ OnlyMoves(r, 0) /\ HomesWith(r, 0)
    BY <1>1, <1>8, NoneMoves
  <2>2. CoveredAbove(r)
    <3>1. ASSUME NEW j \in Slot, NEW P \in Slot, j < r, IsUser(j), Primary(j) = P,
                 NEW q \in Slot, q >= r, Covers(q, P)
          PROVE  FALSE
      <4>1. P <= j /\ P \in Nat /\ j \in Nat
        BY <1>1, <3>1, UserFacts
      <4>2. P = r
        BY <1>7, <1>9, <1>10, <3>1
      <4> QED
        BY <1>6, <3>1, <4>1, <4>2
    <3> QED
      BY <3>1 DEF CoveredAbove
  <2>3. HomesAbove(r)
    BY <1>8 DEF HomesAbove
  <2> QED
    BY <1>1, <1>6, <2>1, <2>2, <2>3, HomesStep
<1>11. CASE frame[r].kind = "catch"
  <2>1. PICK r0, k0, f, i : r0 = frame[r].reg /\ k0 = Body(r0) /\ f = frame[p].fn /\ i = frame[r].block
    OBVIOUS
  <2>2. Handles(r) /\ IsRuntime(r) /\ HandlingOf(frame[r], r) /\ r0 < r /\ Base(r) = p
    BY <1>1, <1>6, <1>7, <1>11, <2>1, RegBelow, UnderCatcher DEF Handles, IsRuntime, HandlingShape
  <2>3. /\ Catcher(r0) /\ Primary(r0) = p /\ p \in Slot /\ IsFunction(p)
        /\ \A q \in Slot : k0 < q /\ q < r => frame[q] = Free
    BY <2>1, <2>2 DEF HandlingOf, Base
  <2>4. r0 \in Slot /\ r0 \in Nat
    <3>1. r0 # 0
      BY <2>3 DEF Catcher
    <3>2. r0 \in Slot
      BY <1>1, <1>6, <2>1, <2>2, <3>1, RegBelow
    <3> QED
      BY <3>2, Depth
  <2>5. /\ k0 \in Slot /\ k0 \in Nat /\ k0 >= r0 /\ IsUser(k0) /\ Primary(k0) = p /\ Home(k0) = Home(r0)
        /\ IsFunction(r0) => k0 = r0 /\ p = r0
        /\ frame[r0].kind = "catch" => k0 = r0 + 1 /\ frame[k0].kind = "funclet" /\ frame[k0].primary = p
    BY <1>1, <2>1, <2>3, <2>4, BodyFacts
  <2>6. k0 < r
    <3>1. k0 # r
      BY <1>11, <2>5 DEF IsUser
    <3> QED
      BY <1>6, <2>2, <2>3, <2>4, <2>5, <3>1 DEF Catcher
  <2>7. p <= k0 /\ p \in Nat
    BY <1>1, <2>5, UserFacts
  <2>8. StaysBelow(k0) /\ OnlyMoves(k0, 0) /\ HomesWith(k0, 0)
    <3>1. ASSUME NEW j \in Slot, j < k0 PROVE frame'[j] = frame[j]
      <4>1. j \in Nat
        BY <1>8
      <4>2. j < r
        BY <1>6, <2>5, <2>6, <3>1, <4>1
      <4> QED
        BY <1>8, <4>2
    <3> QED
      BY <1>1, <3>1, NoneMoves
  <2>9. frame'[k0] = frame[k0] /\ frame'[p] = frame[p]
    BY <1>6, <1>8, <2>3, <2>5, <2>6, <2>7
  <2>10. CoveredAbove(k0)
    <3>1. ASSUME NEW j \in Slot, NEW P \in Slot, j < k0, IsUser(j), Primary(j) = P,
                 NEW q \in Slot, q >= k0, Covers(q, P)
          PROVE  \E o \in Slot : o > j /\ Covers(o, P)'
      <4>1. q \in Nat /\ j \in Nat /\ k0 > j
        BY <1>8, <2>5, <3>1
      <4>2. P = p
        <5>1. CASE q = k0
          BY <2>5, <3>1, <5>1 DEF Covers, Called, IsUser, Primary, IsFunction
        <5>2. CASE k0 < q /\ q < r
          BY <2>3, <3>1, <5>2 DEF Covers, Called, Free
        <5>3. CASE q >= r
          BY <1>9, <3>1, <5>3
        <5> QED
          BY <1>6, <2>5, <3>1, <4>1, <5>1, <5>2, <5>3
      <4>3. ~IsFunction(r0)
        BY <1>1, <2>1, <2>3, <2>4, <3>1, <4>2, BodyCovers
      <4>4. frame[k0].kind = "funclet" /\ frame[k0].primary = p
        BY <2>3, <2>5, <4>3 DEF Catcher
      <4>5. Covers(k0, p)'
        BY <2>9, <4>4 DEF Covers
      <4> QED
        BY <2>5, <4>1, <4>2, <4>5
    <3> QED
      BY <3>1 DEF CoveredAbove
  <2>11. HomesAbove(k0)
    <3>1. ASSUME NEW q \in Slot, q >= k0 PROVE HomeAt(q)'
      <4>1. CASE q = k0
        <5>1. PICK h : h = Home(r0)
          OBVIOUS
        <5>2. Within(f, h, Around(f, i))
          BY <1>6, <2>1, <2>2, <5>1 DEF Homes, HomeAt, HomeOf
        <5>3. frame[p].state = Around(f, i)
          <6>1. frame[n].pc = "abandon" \/ (frame[n].pc = "unwind" /\ State(r) <= frame[n].target)
            BY <1>3 DEF Passes
          <6> QED
            BY <1>5, <1>11, <2>1, <2>2, <6>1, LeavesAround
        <5>4. Primary(k0)' = p /\ Home(k0)' = h
          BY <2>5, <2>9, <5>1 DEF Primary, Home, IsFunction
        <5>5. Fn(k0)' = f /\ State(k0)' = Around(f, i)
          BY <2>1, <2>9, <5>3, <5>4 DEF Fn, State
        <5>6. HomeShape(k0)'
          BY <5>2, <5>4, <5>5 DEF HomeShape, Within
        <5> QED
          BY <2>5, <2>9, <4>1, <5>6 DEF HomeAt, HomeOf, EnteredShape, Handles, IsUser
      <4>2. CASE k0 < q /\ q < r
        <5>1. frame'[q] = Free
          BY <1>8, <2>3, <4>2
        <5> QED
          BY <5>1, NothingHome
      <4>3. CASE q >= r
        BY <1>8, <4>3
      <4> QED
        <5>1. q \in Nat
          BY <1>8
        <5>2. q = k0 \/ (k0 < q /\ q < r) \/ q >= r
          BY <1>6, <2>5, <3>1, <5>1
        <5> QED
          BY <4>1, <4>2, <4>3, <5>2
    <3> QED
      BY <3>1 DEF HomesAbove
  <2> QED
    BY <1>1, <2>5, <2>8, <2>10, <2>11, HomesStep
<1> QED
  BY <1>6, <1>10, <1>11 DEF Catcher

\* The invariant is about the frames alone.
LEMMA HomesStill == ASSUME Homes, UNCHANGED frame PROVE Homes'
<1>1. ASSUME NEW q \in Slot, NEW p PROVE Covers(q, p)' <=> Covers(q, p)
  BY DEF Covers, Called, Base, Primary
<1>2. ASSUME NEW k \in Slot PROVE HomeAt(k)'
  <2>1. HomeShape(k) /\ HomeOf(k) /\ EnteredShape(k)
    BY DEF Homes, HomeAt
  <2>2. HomeShape(k)'
    BY <1>1, <2>1 DEF HomeShape, IsUser, Primary, Fn, Home, State, IsFunction, Within
  <2>3. HomeOf(k)'
    BY <2>1 DEF HomeOf, Handles, Base, Home, IsFunction, Within, Around
  <2>4. EnteredShape(k)'
    BY <2>1 DEF EnteredShape, Base, Within
  <2> QED
    BY <2>2, <2>3, <2>4 DEF HomeAt
<1> QED
  BY <1>2 DEF Homes

LEMMA InitHomes == Init => Homes
<1> SUFFICES ASSUME Init, NEW k \in Slot PROVE HomeAt(k)
  BY DEF Homes
<1>1. CASE k = 1
  <2>1. frame[k].kind = "function" /\ frame[k].fn = Main /\ frame[k].state = -1
    BY <1>1 DEF Init
  <2>2. Within(Main, 0, -1)
    BY ProgramAssumption, WithinStart
  <2>3. Primary(k) = k /\ Home(k) = 0
    BY <2>1 DEF Primary, Home, IsFunction
  <2> QED
    BY <2>1, <2>2, <2>3 DEF HomeAt, HomeShape, HomeOf, EnteredShape, Handles, Fn, State
<1>2. CASE k # 1
  <2>1. frame[k] = Free
    BY <1>2 DEF Init
  <2> QED
    BY <2>1 DEF HomeAt, HomeShape, HomeOf, EnteredShape, Handles, IsUser, Free
<1> QED
  BY <1>1, <1>2

\* Control stays where the states say, whatever is thrown and wherever it is caught.
LEMMA NextHomes == HInv /\ Homes /\ [Next]_vars => Homes'
<1> SUFFICES ASSUME HInv, Homes, [Next]_vars PROVE Homes'
  OBVIOUS
<1> IInv'
  BY NextIInv DEF HInv, EInv
<1>1. CASE (\E f \in Fns : Call(f)) \/ Rethrow \/ \E t \in Types : Throw(t)
  BY <1>1, CallThrowHomes
<1>2. ASSUME NEW s, Enter(s) PROVE Homes'
  BY <1>2, EnterHomes
<1>3. CASE Leave
  BY <1>3, LeaveHomes
<1>4. CASE Return
  BY <1>4, ReturnHomes
<1>5. CASE CatchReturn
  BY <1>5, CatchReturnHomes
<1>6. CASE VisitFunction \/ VisitCatchFrame \/ ProbeForObject \/ SelectNothing \/ AbandonException
  BY <1>6, SearchHomes
<1>7. CASE RejectTable \/ VisitForeign
  BY <1>7, HomesStill DEF RejectTable, VisitForeign, Halt
<1>8. CASE SearchFails
  BY <1>8, HomesStill DEF SearchFails, Halt
<1>9. CASE NoexceptViolation
  BY <1>9, HomesStill DEF NoexceptViolation, Halt
<1>10. CASE SelectHandler
  BY <1>10, SelectHandlerHomes
<1>11. CASE UnwindEdge
  BY <1>11, UnwindEdgeHomes
<1>12. CASE CleanupReturns \/ CopyReturns
  BY <1>12, CalloutHomes
<1>13. CASE BindCatchVariable
  BY <1>13, BindHomes
<1>14. CASE PassFunction \/ TakeFromCatchFrame \/ PassCatchFrame
  BY <1>14, PassHomes
<1>15. CASE CallHandler
  BY <1>15, CallHandlerHomes
<1>16. CASE ContinueAfterException
  BY <1>16, ContinueHomes
<1>17. CASE UNCHANGED vars
  BY <1>17, HomesStill DEF vars
<1> QED
  BY <1>1, <1>2, <1>3, <1>4, <1>5, <1>6, <1>7, <1>8, <1>9, <1>10, <1>11, <1>12, <1>13, <1>14,
     <1>15, <1>16, <1>17
     DEF Next, UserCode, Runtime, Halted

----------------------------------------------------------------------------
(***************************************************************************)
(* What a runtime frame refers to: an exception it owns, or a catch frame  *)
(* further down, that of the handler which throws the exception again.     *)
(***************************************************************************)

\* What a throw frame refers to that has come as far as slot m.
Refers(tf, m) ==
    LET obj == tf.exception_object_or_link
    IN  /\ obj.to = "object" <=> tf.throw_info_if_owner # NoInfo
        /\ obj.to = "null" => obj = Null
        /\ obj.to = "link" =>
            obj = Link(obj.slot) /\ obj.slot \in Slot /\ obj.slot <= m /\ frame[obj.slot].kind = "catch"

\* A dispatch that destroys the exception of the catch frame it is at does not
\* refer to that frame.
Destroys(x) == x.kind = "throw" /\ x.pc = "abandon"

\* What frame k refers to.
LinkShape(k) ==
    IsRuntime(k) =>
        /\ Refers(frame[k].tf, frame[k].reg)
        /\ Destroys(frame[k]) => frame[k].tf.exception_object_or_link # Link(frame[k].reg)

Links == \A k \in Slot : LinkShape(k)

\* Slot j keeps its frame, or stays a function.
Holds(j) == frame'[j] = frame[j] \/ (IsFunction(j) /\ IsFunction(j)')

\* After a step that moves only functions below slot n, no runtime frame is there
\* or above but x, in slot m.
Leads(n, m, x) ==
    /\ n \in Int /\ \A j \in Slot : j < n => Holds(j)
    /\ \A k \in Slot : k >= n /\ IsRuntime(k)' => k = m
    /\ m \in Slot => m >= n /\ frame'[m] = x /\ x.reg \in Nat /\ x.reg < n

\* Where x refers to nothing, y does not either.
NothingFrom(x, y) ==
    x.tf.exception_object_or_link = Null => y.tf.exception_object_or_link = Null

\* How a dispatch in slot m has come to search the registration it is at: it
\* has just been called for it, or it was there before.
Searching(m, x) ==
    \/ /\ m = top /\ Dispatching("visit") /\ frame[m].reg = x.reg /\ x.pc = "search"
       /\ x.entry = State(x.reg) /\ Catcher(x.reg)
       /\ frame[x.reg].kind = "catch" => NothingFrom(x, frame[x.reg])
    \/ /\ frame[m].kind = "throw" /\ frame[m].pc # "visit"
       /\ x.entry = frame[m].entry /\ x.reg = frame[m].reg /\ NothingFrom(x, frame[m])

\* How the frame of a handler, or of one that has returned, came to be.
Settling(m, x) ==
    /\ x.tf = frame[m].tf /\ x.reg = frame[m].reg
    /\ \/ x.kind = "catch" /\ m = top /\ Dispatching("call")
       \/ x.kind = "destroy" /\ frame[m].kind = "catch"

\* What each step does to the references.
Outcome(n, m, x) ==
    /\ Leads(n, m, x)
    /\ m \in Slot =>
        /\ Refers(x.tf, x.reg)
        /\ Destroys(x) => x.tf.exception_object_or_link # Link(x.reg)
        /\ x.kind = "throw" /\ x.pc # "visit" => Searching(m, x)
        /\ x.kind \in {"catch", "destroy"} => Settling(m, x)

\* What keeps its frame, or stays a function, keeps its kind.
LEMMA HoldsFacts ==
    ASSUME NEW j, Holds(j)
    PROVE  /\ IsRuntime(j) <=> IsRuntime(j)'
           /\ frame'[j].kind = frame[j].kind
           /\ IsRuntime(j) => frame'[j] = frame[j]
BY DEF Holds, IsRuntime, IsFunction

\* What a frame refers to further down is still there.
LEMMA RefersStays ==
    ASSUME NEW n \in Int, \A j \in Slot : j < n => Holds(j), NEW tf, NEW m \in Nat, m < n,
           Refers(tf, m)
    PROVE  Refers(tf, m)'
<1>1. PICK obj : obj = tf.exception_object_or_link
  OBVIOUS
<1>2. ASSUME obj.to = "link" PROVE frame'[obj.slot].kind = "catch"
  <2>1. obj.slot \in Slot /\ obj.slot <= m /\ frame[obj.slot].kind = "catch"
    BY <1>1, <1>2 DEF Refers
  <2>2. obj.slot \in Nat
    BY <2>1, Depth
  <2>3. obj.slot < n
    BY <2>1, <2>2
  <2> QED
    BY <2>1, <2>3, HoldsFacts
<1> QED
  BY <1>1, <1>2 DEF Refers

\* So the references survive every outcome of a step.
LEMMA LinksStep ==
    ASSUME IInv, Links, NEW n, NEW m, NEW x, Outcome(n, m, x)
    PROVE  Links'
<1>1. /\ n \in Int /\ \A j \in Slot : j < n => Holds(j)
      /\ \A k \in Slot : k >= n /\ IsRuntime(k)' => k = m
      /\ m \in Slot => /\ m >= n /\ frame'[m] = x /\ x.reg \in Nat /\ x.reg < n
                       /\ Refers(x.tf, x.reg)
                       /\ Destroys(x) => x.tf.exception_object_or_link # Link(x.reg)
  BY DEF Outcome, Leads
<1>2. ASSUME NEW k \in Slot, IsRuntime(k)' PROVE LinkShape(k)'
  <2>1. k \in Int
    BY Depth
  <2>2. CASE k < n
    <3>1. IsRuntime(k) /\ frame'[k] = frame[k] /\ LinkShape(k)
      BY <1>1, <1>2, <2>2, HoldsFacts DEF Links
    <3>2. PICK d : d = frame[k]
      OBVIOUS
    <3>3. d.reg \in Nat /\ d.reg < k
      BY <3>1, <3>2, RegBelow
    <3>4. d.reg < n /\ Refers(d.tf, d.reg)
      BY <1>1, <2>1, <2>2, <3>1, <3>2, <3>3 DEF LinkShape
    <3>5. Refers(d.tf, d.reg)'
      BY <1>1, <3>3, <3>4, RefersStays
    <3>6. Destroys(d) => d.tf.exception_object_or_link # Link(d.reg)
      BY <3>1, <3>2 DEF LinkShape
    <3> QED
      BY <3>1, <3>2, <3>5, <3>6 DEF LinkShape, Refers, Link, Destroys
  <2>3. CASE ~(k < n)
    <3>1. k = m /\ m \in Slot
      BY <1>1, <1>2, <2>1, <2>3
    <3>2. Refers(x.tf, x.reg)'
      BY <1>1, <3>1, RefersStays
    <3> QED
      BY <1>1, <3>1, <3>2 DEF LinkShape, Refers, Link, Destroys
  <2> QED
    BY <2>2, <2>3
<1>3. ASSUME NEW k \in Slot PROVE LinkShape(k)'
  BY <1>2 DEF LinkShape
<1> QED
  BY <1>3 DEF Links

\* A step after which no runtime frame is there but those it has kept.
LEMMA QuietOutcome ==
    ASSUME NEW n \in Int, \A j \in Slot : j < n => Holds(j),
           \A k \in Slot : k >= n => ~IsRuntime(k)'
    PROVE  \E i, m, x : Outcome(i, m, x)
<1>1. 0 \notin Slot
  BY DEF Slot
<1>2. Outcome(n, 0, 0)
  BY <1>1 DEF Outcome, Leads
<1> QED
  BY <1>2

\* A step that rewrites the dispatch on top, and functions below it.
LEMMA TopOutcome ==
    ASSUME IInv, NEW n \in Slot, n = top, NEW x, frame'[n] = x,
           \A j \in Slot : j # n => Holds(j), x.reg \in Nat, x.reg < n, Refers(x.tf, x.reg),
           Destroys(x) => x.tf.exception_object_or_link # Link(x.reg),
           x.kind = "throw" /\ x.pc # "visit" => Searching(n, x),
           x.kind \in {"catch", "destroy"} => Settling(n, x)
    PROVE  \E i, m, z : Outcome(i, m, z)
<1>1. n \in Int /\ \A j \in Slot : j \in Int
  BY Depth
<1>2. \A j \in Slot : j < n => Holds(j)
  BY <1>1
<1>3. ASSUME NEW k \in Slot, k >= n, IsRuntime(k)' PROVE k = n
  <2>1. SUFFICES ASSUME k # n PROVE FALSE
    OBVIOUS
  <2>2. k > n /\ Holds(k)
    <3>1. k \in Int /\ n \in Int
      BY <1>1
    <3>2. k > n
      BY <1>3, <2>1, <3>1
    <3> QED
      BY <2>1, <3>2
  <2>3. frame[k] = Free
    BY <2>2, TopFacts
  <2>4. IsRuntime(k)
    BY <1>3, <2>2, HoldsFacts
  <2> QED
    BY <2>3, <2>4 DEF IsRuntime, Free
<1>4. Leads(n, n, x)
  BY <1>1, <1>2, <1>3 DEF Leads
<1>5. Outcome(n, n, x)
  BY <1>4 DEF Outcome
<1> QED
  BY <1>5

\* The steps of a dispatch that has found, or looks for, its registration.
LEMMA RewritingOutcome ==
    ASSUME IInv, Links, NEW n \in Slot, NEW p, NEW x, TopRewritten(n, p, x)
    PROVE  \E i, m, z : Outcome(i, m, z)
<1>1. /\ n = top /\ frame[n].kind = "throw" /\ frame[n].pc # "visit" /\ x.kind = "throw"
      /\ x.reg = frame[n].reg /\ x.entry = frame[n].entry /\ frame'[n] = x
      /\ x.tf.throw_info_if_owner = frame[n].tf.throw_info_if_owner
      /\ x.tf.exception_object_or_link = frame[n].tf.exception_object_or_link
      /\ x.pc = "abandon" => frame[n].tf.exception_object_or_link # Link(x.reg)
  BY DEF TopRewritten
<1>2. \A j \in Slot : j # n => Holds(j)
  BY DEF TopRewritten, Holds
<1>3. IsRuntime(n) /\ x.reg \in Nat /\ x.reg < n
  BY <1>1, RegBelow DEF IsRuntime
<1>4. Refers(frame[n].tf, frame[n].reg)
  BY <1>3 DEF Links, LinkShape
<1>5. Refers(x.tf, x.reg)
  BY <1>1, <1>4 DEF Refers
<1>6. Searching(n, x)
  BY <1>1 DEF Searching, NothingFrom
<1>7. Destroys(x) => x.tf.exception_object_or_link # Link(x.reg)
  BY <1>1 DEF Destroys
<1> QED
  BY <1>1, <1>2, <1>3, <1>5, <1>6, <1>7, TopOutcome

\* _fh3_handler is entered.
LEMMA EnterHandlerOutcome ==
    ASSUME IInv, Dispatching("visit"), Catcher(T.reg), NEW tf, EnterHandler(tf), Refers(tf, T.reg),
           frame[T.reg].kind = "catch" /\ tf.exception_object_or_link = Null
                => frame[T.reg].tf.exception_object_or_link = Null
    PROVE  \E i, m, x : Outcome(i, m, x)
<1>1. PICK n, d : n \in Slot /\ n = top /\ d = frame[n]
  BY DEF IInv, TypeOK
<1>2. /\ T = d /\ d \in RuntimeFrame /\ d.kind = "throw" /\ d.pc = "visit" /\ frame \in [Slot -> Frame]
      /\ IsRuntime(n)
  BY <1>1, TopThrow
<1> DEFINE x == [d EXCEPT !.pc = "search", !.next = head, !.tf = tf, !.entry = State(d.reg)]
<1>3. frame' = [frame EXCEPT ![n] = x]
  BY <1>1, <1>2 DEF EnterHandler
<1>4. x.kind = "throw" /\ x.reg = d.reg /\ x.tf = tf /\ x.pc = "search" /\ x.entry = State(d.reg)
  BY <1>2 DEF RuntimeFrame
<1> HIDE DEF x
<1>5. frame'[n] = x /\ \A q \in Slot : q # n => Holds(q)
  BY <1>1, <1>2, <1>3 DEF Holds
<1>6. x.reg \in Nat /\ x.reg < n
  BY <1>1, <1>2, <1>4, RegBelow
<1>7. frame[x.reg].kind = "catch" => NothingFrom(x, frame[x.reg])
  BY <1>2, <1>4 DEF NothingFrom
<1>10. Searching(n, x)
  BY <1>1, <1>2, <1>4, <1>7 DEF Searching
<1>8. ~Destroys(x)
  BY <1>4 DEF Destroys
<1>9. Refers(x.tf, x.reg)
  BY <1>2, <1>4
<1> QED
  BY <1>1, <1>4, <1>5, <1>6, <1>10, <1>8, <1>9, TopOutcome

\* What a catch frame refers to is further down.
LEMMA TakenRefers ==
    ASSUME IInv, Links, NEW p \in Slot, frame[p].kind = "catch", NEW tf \in ThrowFrame
    PROVE  Refers(TakeFrom(tf, p), frame[p].reg)
<1>1. Refers(frame[p].tf, frame[p].reg)
  BY DEF Links, LinkShape, IsRuntime
<1>2. /\ TakeFrom(tf, p).exception_object_or_link = frame[p].tf.exception_object_or_link
      /\ TakeFrom(tf, p).throw_info_if_owner = frame[p].tf.throw_info_if_owner
  BY DEF TakeFrom, ThrowFrame
<1>3. PICK z : z = TakeFrom(tf, p)
  OBVIOUS
<1> QED
  BY <1>1, <1>2, <1>3 DEF Refers

\* A reference to further down is one for every slot from there on.
LEMMA RefersFurther ==
    ASSUME NEW tf, NEW m \in Nat, NEW r \in Nat, m <= r, Refers(tf, m) PROVE Refers(tf, r)
<1>1. PICK s : s = tf.exception_object_or_link.slot
  OBVIOUS
<1>2. tf.exception_object_or_link.to = "link" => s \in Nat
  BY <1>1, Depth DEF Refers
<1> QED
  BY <1>1, <1>2 DEF Refers

\* A registration is visited.
LEMMA VisitOutcome ==
    ASSUME IInv, Links, VisitFunction \/ VisitCatchFrame PROVE \E i, m, x : Outcome(i, m, x)
<1>1. PICK n, d, r : n \in Slot /\ n = top /\ d = frame[n] /\ r = d.reg
  BY DEF IInv, TypeOK
<1>2. Dispatching("visit")
  BY DEF VisitFunction, VisitCatchFrame
<1>3. T = d /\ d \in RuntimeFrame /\ IsRuntime(n) /\ d.tf \in ThrowFrame
  BY <1>1, <1>2, TopThrow DEF RuntimeFrame
<1>4. Refers(d.tf, r) /\ r \in Nat
  BY <1>1, <1>3, RegBelow DEF Links, LinkShape
<1>5. CASE VisitFunction
  <2>1. IsFunction(r) /\ r >= 1 /\ EnterHandler(d.tf)
    BY <1>1, <1>3, <1>5 DEF VisitFunction
  <2> QED
    BY <1>1, <1>2, <1>3, <1>4, <2>1, EnterHandlerOutcome DEF Catcher, IsFunction
<1>6. CASE VisitCatchFrame
  <2>1. frame[r].kind = "catch" /\ r >= 1 /\ Catcher(r) /\ EnterHandler(Arriving(d.tf, r))
    BY <1>1, <1>3, <1>6 DEF VisitCatchFrame, Catcher
  <2>2. r \in Slot
    BY <1>1, <1>3, <1>4, <2>1, RegBelow
  <2>3. Refers(Arriving(d.tf, r), r)
    <3>1. CASE d.tf.exception_object_or_link = Link(r)
      <4>1. frame[r].reg \in Nat /\ frame[r].reg < r
        BY <2>1, <2>2, RegBelow DEF IsRuntime
      <4>2. Refers(TakeFrom(d.tf, r), frame[r].reg)
        BY <1>3, <2>1, <2>2, TakenRefers
      <4>3. PICK z : z = TakeFrom(d.tf, r)
        OBVIOUS
      <4>4. Refers(z, r)
        BY <1>4, <4>1, <4>2, <4>3, RefersFurther
      <4> QED
        BY <3>1, <4>3, <4>4 DEF Arriving
    <3>2. CASE d.tf.exception_object_or_link = Null
      <4>1. Null # Link(r) /\ Link(r).to = "link" /\ Link(r).slot = r /\ Null.to = "null"
        BY DEF Null, Link
      <4>2. PICK z : z = [d.tf EXCEPT !.exception_object_or_link = Link(r)]
        OBVIOUS
      <4>3. z.exception_object_or_link = Link(r) /\ z.throw_info_if_owner = d.tf.throw_info_if_owner
        BY <1>3, <4>2 DEF ThrowFrame
      <4>4. d.tf.throw_info_if_owner = NoInfo
        BY <1>4, <3>2, <4>1 DEF Refers
      <4>5. Refers(z, r)
        BY <1>4, <2>1, <2>2, <4>1, <4>3, <4>4 DEF Refers
      <4> QED
        BY <3>2, <4>1, <4>2, <4>5 DEF Arriving
    <3>3. CASE d.tf.exception_object_or_link # Null /\ d.tf.exception_object_or_link # Link(r)
      BY <1>4, <3>3 DEF Arriving
    <3> QED
      BY <3>1, <3>2, <3>3
  <2>4. PICK z : z = Arriving(d.tf, r)
    OBVIOUS
  <2>5. z.exception_object_or_link = Null => frame[r].tf.exception_object_or_link = Null
    <3>1. Null # Link(r)
      BY DEF Null, Link
    <3>2. \A t : t = TakeFrom(d.tf, r) =>
            t.exception_object_or_link = frame[r].tf.exception_object_or_link
      BY <1>3 DEF TakeFrom, ThrowFrame
    <3>3. \A t : t = [d.tf EXCEPT !.exception_object_or_link = Link(r)] =>
            t.exception_object_or_link = Link(r)
      BY <1>3 DEF ThrowFrame
    <3> QED
      BY <2>4, <3>1, <3>2, <3>3 DEF Arriving
  <2>6. EnterHandler(z) /\ Refers(z, r)
    BY <2>1, <2>3, <2>4
  <2> QED
    BY <1>1, <1>2, <1>3, <2>1, <2>5, <2>6, EnterHandlerOutcome
<1> QED
  BY <1>5, <1>6

\* The nearest catch frame on the chain is at the registration, or further down.
LEMMA ProbeOutcome ==
    ASSUME IInv, Links, ProbeForObject PROVE \E i, m, x : Outcome(i, m, x)
<1>1. PICK n, d, p : n \in Slot /\ n = top /\ d = frame[n] /\ p \in Slot /\ Probes(p)
        /\ frame' = [frame EXCEPT ![n].tf.exception_object_or_link = Link(p)]
  BY DEF IInv, TypeOK, ProbeForObject
<1>2. Dispatching("search") /\ T.tf.exception_object_or_link = Null
  BY DEF ProbeForObject
<1>3. /\ IsRuntime(n) /\ frame[n].kind = "throw" /\ T = d /\ d \in RuntimeFrame /\ d.kind = "throw"
      /\ d.pc = "search" /\ d.tf \in ThrowFrame /\ frame \in [Slot -> Frame]
  BY <1>1, <1>2, TopThrow DEF RuntimeFrame
<1>4. PICK r : r = d.reg
  OBVIOUS
<1>5. r \in Nat /\ r < n /\ HasBoundary(n) /\ head = n /\ Linked(n) /\ Before(n) = r
  BY <1>1, <1>3, <1>4, TopDispatch DEF HasBoundary
<1>6. p <= r /\ frame[p].kind = "catch"
  <2>1. n \in Registered
    BY <1>1, <1>5 DEF Registered
  <2>2. ChainFrom[head] = Reached(n) /\ n # 0
    BY <1>1, <1>5, Depth, ChainReaches DEF Slot
  <2>3. p \in Registered /\ p <= n /\ frame[p].kind = "catch"
    BY <1>1, <2>1, <2>2 DEF Probes, Reached
  <2>4. p # n /\ p \in Nat /\ n \in Nat
    BY <1>1, <1>3, <2>3, Depth
  <2>5. ~(r < p /\ p < n)
    BY <1>1, <1>5, <2>3 DEF Linked
  <2> QED
    BY <1>5, <2>3, <2>4, <2>5
<1>7. PICK link : link = Link(p)
  OBVIOUS
<1> DEFINE x == [d EXCEPT !.tf.exception_object_or_link = link]
<1>8. /\ x.kind = "throw" /\ x.reg = r /\ x.entry = d.entry /\ x.pc = "search"
      /\ x.tf.throw_info_if_owner = d.tf.throw_info_if_owner /\ x.tf.exception_object_or_link = link
  BY <1>3, <1>4 DEF RuntimeFrame, ThrowFrame
<1>9. frame'[n] = x /\ \A q \in Slot : q # n => frame'[q] = frame[q]
  BY <1>1, <1>3, <1>7
<1> HIDE DEF x
<1>10. \A q \in Slot : q # n => Holds(q)
  BY <1>9 DEF Holds
<1>11. Refers(x.tf, x.reg)
  <2>1. Refers(d.tf, r) /\ d.tf.exception_object_or_link = Null
    BY <1>1, <1>2, <1>3, <1>4 DEF Links, LinkShape
  <2>2. d.tf.throw_info_if_owner = NoInfo
    BY <2>1 DEF Refers, Null
  <2>3. link = Link(p) /\ link.to = "link" /\ link.slot = p
    BY <1>7 DEF Link
  <2> QED
    BY <1>1, <1>6, <1>8, <2>2, <2>3 DEF Refers
<1>12. Searching(n, x)
  <2>1. NothingFrom(x, d)
    BY <1>7, <1>8 DEF NothingFrom, Link, Null
  <2> QED
    BY <1>1, <1>3, <1>4, <1>8, <2>1 DEF Searching
<1>13. ~Destroys(x)
  BY <1>8 DEF Destroys
<1> QED
  BY <1>1, <1>5, <1>8, <1>9, <1>10, <1>11, <1>12, <1>13, TopOutcome

\* What a dispatch that passes registration r leaves of the runtime frames, and
\* where it is then.
LEMMA PassLeaves ==
    ASSUME IInv, NEW n \in Slot, n = top, frame[n].kind = "throw",
           NEW r \in Slot, r = T.reg, Catcher(r), NEW tf, PassRegistration(tf)
    PROVE  /\ frame'[n].kind = "throw" /\ frame'[n].pc = "visit" /\ frame'[n].tf = tf
           /\ frame'[n].reg = Before(r) /\ Before(r) \in Nat /\ Before(r) < r
           /\ r \in Nat /\ n \in Nat /\ r < n
           /\ \A j \in Slot : j < r => frame'[j] = frame[j]
           /\ \A j \in Slot : j >= r /\ IsRuntime(j)' => j = n
<1>1. PICK d : d = frame[n]
  OBVIOUS
<1>2. T = d /\ d \in RuntimeFrame /\ d.kind = "throw" /\ r = d.reg /\ r \in Nat /\ n \in Nat /\ r < n
  BY <1>1, TopDispatch, Depth
<1> DEFINE x == [d EXCEPT !.reg = NextRegistration, !.next = 0, !.pc = "visit",
                          !.tf = tf, !.entry = -1, !.target = -1]
<1>3. x.kind = "throw" /\ x.reg = NextRegistration /\ x.tf = tf /\ x.pc = "visit"
  BY <1>2 DEF RuntimeFrame
<1>4. frame' = [k \in Slot |-> IF k = n THEN x ELSE IF r <= k /\ k < n THEN Free ELSE frame[k]]
  BY <1>1, <1>2 DEF PassRegistration
<1> HIDE DEF x
<1>5. NextRegistration = Before(r) /\ Before(r) < r /\ Before(r) \in Nat
  <2>1. SlotShape(r) /\ (IsFunction(r) \/ IsRuntime(r)) /\ r \in Registered
    BY UnderCatcher DEF IInv, Shape, Catcher, IsRuntime
  <2>2. Linked(r)
    BY <2>1 DEF SlotShape
  <2>3. frame[r].next = Before(r) /\ Before(r) < r /\ Before(r) \in Registered \cup {0}
    BY <2>1, <2>2 DEF Linked
  <2>4. Before(r) \in Nat
    BY <2>3, Depth DEF Registered
  <2> QED
    BY <1>2, <2>3, <2>4 DEF NextRegistration
<1>6. ASSUME NEW j \in Slot, j < r PROVE frame'[j] = frame[j]
  <2>1. j \in Nat
    BY Depth
  <2>2. j # n /\ ~(r <= j /\ j < n)
    BY <1>2, <1>6, <2>1
  <2> QED
    BY <1>4, <2>2
<1>7. ASSUME NEW k \in Slot, k >= r, IsRuntime(k)' PROVE k = n
  <2>1. SUFFICES ASSUME k # n PROVE FALSE
    OBVIOUS
  <2>2. k \in Nat
    BY Depth
  <2>3. CASE k < n
    <3>1. frame'[k] = Free
      BY <1>4, <1>7, <2>1, <2>3
    <3> QED
      BY <1>7, <3>1 DEF IsRuntime, Free
  <2>4. CASE ~(k < n)
    <3>1. k > n
      BY <1>2, <2>1, <2>2, <2>4
    <3>2. frame'[k] = frame[k]
      BY <1>4, <2>1, <2>4
    <3>3. frame[k] = Free
      BY <3>1, TopFacts
    <3> QED
      BY <1>7, <3>2, <3>3 DEF IsRuntime, Free
  <2> QED
    BY <2>3, <2>4
<1>8. frame'[n] = x
  BY <1>4
<1> QED
  BY <1>2, <1>3, <1>5, <1>6, <1>7, <1>8

\* A dispatch passes a registration, with what it refers to beyond it.
LEMMA PassOutcome ==
    ASSUME IInv, Links, NEW n \in Slot, n = top, frame[n].kind = "throw",
           NEW r \in Slot, r = T.reg, Catcher(r), NEW tf, PassRegistration(tf), Refers(tf,
           Before(r))
    PROVE  \E i, m, x : Outcome(i, m, x)
<1>1. PICK x : x = frame'[n]
  OBVIOUS
<1>2. /\ x.kind = "throw" /\ x.pc = "visit" /\ x.tf = tf /\ x.reg = Before(r)
      /\ Before(r) \in Nat /\ Before(r) < r /\ r \in Nat /\ n \in Nat /\ r < n
  BY <1>1, PassLeaves
<1>3. (\A j \in Slot : j < r => Holds(j)) /\ \A j \in Slot : j >= r /\ IsRuntime(j)' => j = n
  BY PassLeaves DEF Holds
<1>4. Leads(r, n, x)
  BY <1>1, <1>2, <1>3 DEF Leads
<1>5. Refers(x.tf, x.reg) /\ ~Destroys(x)
  BY <1>2 DEF Destroys
<1>6. Outcome(r, n, x)
  BY <1>2, <1>4, <1>5 DEF Outcome
<1> QED
  BY <1>6

\* A registration is passed, or its exception taken over, or destroyed.
LEMMA PassRegistrationOutcome ==
    ASSUME IInv, Links, PassFunction \/ TakeFromCatchFrame \/ PassCatchFrame
    PROVE  \E i, m, x : Outcome(i, m, x)
<1>1. PICK n, d, r : n \in Slot /\ n = top /\ d = frame[n] /\ r = d.reg
  BY DEF IInv, TypeOK
<1>2. PICK pc : pc \in {"unwind", "abandon"} /\ Dispatching(pc)
  BY DEF PassFunction, TakeFromCatchFrame, PassCatchFrame, NothingHere, Unwound
<1>3. /\ IsRuntime(n) /\ frame[n].kind = "throw" /\ T = d /\ d \in RuntimeFrame /\ d.kind = "throw"
      /\ d.pc = pc /\ d.tf \in ThrowFrame
  BY <1>1, <1>2, TopThrow DEF RuntimeFrame
<1>4. r \in Slot /\ Catcher(r) /\ r \in Nat
  <2>1. ThrowOf(d, n) /\ (r # 0 => r \in Slot) /\ r \in Nat
    BY <1>1, <1>3, TopDispatch
  <2> QED
    BY <1>1, <1>2, <1>3, <2>1 DEF ThrowOf, Catcher
<1>5. Refers(d.tf, r) /\ (d.pc = "abandon" => d.tf.exception_object_or_link # Link(r))
  BY <1>1, <1>3 DEF Links, LinkShape, Destroys
<1>6. Linked(r) /\ r \in Registered
  BY <1>4, UnderCatcher DEF IInv, Shape, SlotShape, Catcher, IsRuntime
<1>7. ASSUME d.tf.exception_object_or_link # Link(r) PROVE Refers(d.tf, Before(r))
  <2>1. PICK obj : obj = d.tf.exception_object_or_link
    OBVIOUS
  <2>2. ASSUME obj.to = "link" PROVE obj.slot <= Before(r)
    <3>1. PICK p : p = obj.slot
      OBVIOUS
    <3>2. obj = Link(p) /\ p \in Slot /\ p <= r /\ frame[p].kind = "catch"
      BY <1>5, <2>1, <2>2, <3>1 DEF Refers
    <3>3. p # r /\ p \in Nat /\ p \in Registered
      BY <1>7, <2>1, <3>2, Depth DEF Registered
    <3>4. p < r /\ ~(Before(r) < p)
      BY <1>4, <1>6, <3>2, <3>3 DEF Linked
    <3>5. Before(r) \in Nat
      <4>1. PICK b : b = Before(r)
        OBVIOUS
      <4>2. b = 0 \/ b \in Slot
        BY <1>6, <4>1 DEF Linked, Registered
      <4>3. b \in Nat
        <5>1. CASE b = 0
          BY <5>1
        <5>2. CASE b \in Slot
          BY <5>2, Depth
        <5> QED
          BY <4>2, <5>1, <5>2
      <4> QED
        BY <4>1, <4>3
    <3> QED
      BY <3>1, <3>3, <3>4, <3>5
  <2> QED
    BY <1>5, <2>1, <2>2 DEF Refers
<1>8. CASE PassFunction
  <2>1. IsFunction(r) /\ PassRegistration(d.tf)
    BY <1>1, <1>3, <1>8 DEF PassFunction
  <2>2. d.tf.exception_object_or_link # Link(r)
    BY <1>5, <2>1 DEF Refers, Link, IsFunction
  <2> QED
    BY <1>1, <1>3, <1>4, <1>7, <2>1, <2>2, PassOutcome
<1>9. CASE TakeFromCatchFrame
  <2>1. frame[r].kind = "catch" /\ PassRegistration(TakeFrom(d.tf, r))
    BY <1>1, <1>3, <1>9 DEF TakeFromCatchFrame
  <2>2. Refers(TakeFrom(d.tf, r), frame[r].reg) /\ frame[r].reg = Before(r)
    BY <1>3, <1>4, <2>1, TakenRefers DEF Before, IsFunction
  <2>3. PICK z : z = TakeFrom(d.tf, r)
    OBVIOUS
  <2> QED
    BY <1>1, <1>3, <1>4, <2>1, <2>2, <2>3, PassOutcome
<1>10. CASE PassCatchFrame
  <2>1. d.pc = "abandon" /\ PassRegistration(d.tf)
    BY <1>1, <1>3, <1>10 DEF PassCatchFrame, Dispatching, T
  <2> QED
    BY <1>1, <1>3, <1>4, <1>5, <1>7, <2>1, PassOutcome
<1> QED
  BY <1>8, <1>9, <1>10

\* The handler is called, returns, and its frame is destroyed.
LEMMA CallHandlerOutcome ==
    ASSUME IInv, Links, CallHandler PROVE \E i, m, x : Outcome(i, m, x)
<1>1. PICK n, d : n \in Slot /\ n = top /\ d = frame[n]
  BY DEF IInv, TypeOK
<1>2. /\ IsRuntime(n) /\ frame[n].kind = "throw" /\ T = d /\ d \in RuntimeFrame /\ d.kind = "throw"
      /\ frame \in [Slot -> Frame] /\ Dispatching("call")
  BY <1>1, TopThrow DEF CallHandler
<1>3. PICK m \in Slot : m = n + 1 /\ m # n /\ m > n
  BY <1>1, <1>2, TopDispatch, Depth DEF ThrowOf, Slot
<1> DEFINE x == [d EXCEPT !.kind = "catch", !.pc = "handler", !.next = head,
                          !.entry = -1, !.target = -1, !.clause = 0]
           y == [kind |-> "funclet", block |-> T.block, primary |-> Primary(top)]
<1>4. x.kind = "catch" /\ x.reg = d.reg /\ x.tf = d.tf /\ y.kind = "funclet"
  BY <1>2 DEF RuntimeFrame
<1>5. frame' = [frame EXCEPT ![n] = x, ![m] = y]
  BY <1>1, <1>2, <1>3 DEF CallHandler
<1> HIDE DEF x, y
<1>6. frame'[n] = x /\ frame'[m] = y /\ \A q \in Slot : q # n /\ q # m => frame'[q] = frame[q]
  BY <1>1, <1>2, <1>3, <1>5
<1>7. d.reg \in Nat /\ d.reg < n /\ n \in Nat
  BY <1>1, <1>2, RegBelow, Depth
<1>8. \A j \in Slot : j < n => Holds(j)
  <2>1. ASSUME NEW j \in Slot, j < n PROVE frame'[j] = frame[j]
    <3>1. j # n /\ j # m
      BY <1>3, <1>7, <2>1, Depth
    <3> QED
      BY <1>6, <3>1
  <2> QED
    BY <2>1 DEF Holds
<1>9. ASSUME NEW k \in Slot, k >= n, IsRuntime(k)' PROVE k = n
  <2>1. SUFFICES ASSUME k # n PROVE FALSE
    OBVIOUS
  <2>2. k # m
    BY <1>4, <1>6, <1>9 DEF IsRuntime
  <2>3. k > n
    <3>1. k \in Nat
      BY Depth
    <3> QED
      BY <1>7, <1>9, <2>1, <3>1
  <2>4. frame[k] = Free
    BY <1>1, <2>3, TopFacts
  <2> QED
    BY <1>6, <1>9, <2>1, <2>2, <2>4 DEF IsRuntime, Free
<1>10. Leads(n, n, x)
  BY <1>4, <1>6, <1>7, <1>8, <1>9 DEF Leads
<1>11. Refers(x.tf, x.reg) /\ Settling(n, x) /\ ~Destroys(x)
  BY <1>1, <1>2, <1>4 DEF Links, LinkShape, Settling, Destroys
<1>12. Outcome(n, n, x)
  BY <1>4, <1>10, <1>11 DEF Outcome
<1> QED
  BY <1>12

\* A handler returns: its frame becomes the one that destroys the exception.
LEMMA CatchReturnOutcome ==
    ASSUME IInv, Links, CatchReturn PROVE \E i, m, x : Outcome(i, m, x)
<1>1. PICK m \in Slot : m = top
  BY DEF IInv, TypeOK
<1>2. frame[m].kind = "funclet"
  BY <1>1 DEF CatchReturn, Running, InHandlerState, IsUser, IsFunction
<1>3. PICK n \in Slot : n = m - 1 /\ frame[n].kind = "catch" /\ n # m
  BY <1>1, <1>2, TopFacts, Depth
<1>4. PICK d : d = frame[n]
  OBVIOUS
<1>5. d \in RuntimeFrame /\ frame \in [Slot -> Frame] /\ IsRuntime(n) /\ d.kind = "catch"
  BY <1>3, <1>4, Kinds DEF IInv, TypeOK, IsRuntime
<1> DEFINE x == [d EXCEPT !.kind = "destroy", !.pc = "destroy"]
<1>6. x.kind = "destroy" /\ x.reg = d.reg /\ x.tf = d.tf
  BY <1>5 DEF RuntimeFrame
<1>7. frame' = [frame EXCEPT ![m] = Free, ![n] = x]
  <2>1. frame' = [frame EXCEPT ![m] = Free, ![n] = [@ EXCEPT !.kind = "destroy", !.pc = "destroy"]]
    BY <1>1, <1>3 DEF CatchReturn
  <2> QED
    BY <1>3, <1>4, <2>1
<1> HIDE DEF x
<1>8. frame'[n] = x /\ frame'[m] = Free /\ \A q \in Slot : q # n /\ q # m => frame'[q] = frame[q]
  BY <1>3, <1>5, <1>7
<1>9. d.reg \in Nat /\ d.reg < n /\ n \in Nat /\ m \in Nat
  BY <1>4, <1>5, RegBelow, Depth
<1>10. \A j \in Slot : j < n => Holds(j)
  <2>1. ASSUME NEW j \in Slot, j < n PROVE frame'[j] = frame[j]
    <3>1. j # n /\ j # m
      BY <1>3, <1>9, <2>1, Depth
    <3> QED
      BY <1>8, <3>1
  <2> QED
    BY <2>1 DEF Holds
<1>11. ASSUME NEW k \in Slot, k >= n, IsRuntime(k)' PROVE k = n
  <2>1. SUFFICES ASSUME k # n PROVE FALSE
    OBVIOUS
  <2>2. k # m
    BY <1>8, <1>11 DEF IsRuntime, Free
  <2>3. k > m
    <3>1. k \in Nat
      BY Depth
    <3> QED
      BY <1>3, <1>9, <1>11, <2>1, <2>2, <3>1
  <2>4. frame[k] = Free
    BY <1>1, <2>3, TopFacts
  <2> QED
    BY <1>8, <1>11, <2>1, <2>2, <2>4 DEF IsRuntime, Free
<1>12. Leads(n, n, x)
  BY <1>6, <1>8, <1>9, <1>10, <1>11 DEF Leads
<1>13. Refers(x.tf, x.reg) /\ Settling(n, x) /\ ~Destroys(x)
  BY <1>4, <1>5, <1>6 DEF Links, LinkShape, Settling, Destroys
<1>14. Outcome(n, n, x)
  BY <1>6, <1>12, <1>13 DEF Outcome
<1> QED
  BY <1>14

\* Steps that leave fewer runtime frames, or the same.
LEMMA FewerOutcome ==
    ASSUME IInv, NEW n \in Slot, n = top, ~IsRuntime(n)', \A j \in Slot : j # n => Holds(j)
    PROVE  \E i, m, x : Outcome(i, m, x)
<1>1. n \in Int /\ \A j \in Slot : j \in Int
  BY Depth
<1>2. \A j \in Slot : j < n => Holds(j)
  BY <1>1
<1>3. ASSUME NEW k \in Slot, k >= n, IsRuntime(k)' PROVE FALSE
  <2>1. k # n /\ k \in Int
    BY <1>1, <1>3
  <2>2. k > n
    BY <1>1, <1>3, <2>1
  <2>3. frame[k] = Free /\ Holds(k)
    BY <2>1, <2>2, TopFacts
  <2>4. IsRuntime(k)
    BY <1>3, <2>3, HoldsFacts
  <2> QED
    BY <2>3, <2>4 DEF IsRuntime, Free
<1> QED
  BY <1>1, <1>2, <1>3, QuietOutcome

\* The exception is destroyed, and the catcher continues.
LEMMA ContinueOutcome ==
    ASSUME IInv, ContinueAfterException PROVE \E i, m, x : Outcome(i, m, x)
<1>1. PICK n, d, p : n \in Slot /\ n = top /\ d = frame[n] /\ p = d.tf.primary_frame_base
  BY DEF IInv, TypeOK
<1>2. d.kind = "destroy" /\ T = d /\ frame \in [Slot -> Frame]
  BY <1>1 DEF ContinueAfterException, T, IInv, TypeOK
<1>3. p \in Slot /\ IsFunction(p) /\ frame[p] \in FunctionFrame /\ p # n
  <2>1. HandlingOf(d, n)
    BY <1>1, <1>2 DEF IInv, Shape, SlotShape, Handles, HandlingShape
  <2>2. p \in Slot /\ IsFunction(p) /\ p < n
    BY <1>1, <2>1 DEF HandlingOf
  <2>3. p \in Nat /\ n \in Nat
    BY <1>1, <2>2, Depth
  <2> QED
    BY <2>2, <2>3, Kinds DEF IInv
<1>4. PICK s : s = Eh[frame[p].fn].next[Block(frame[p].fn, d.block).try_low]
  OBVIOUS
<1>5. frame' = [frame EXCEPT ![n] = Free, ![p].state = s]
  BY <1>1, <1>2, <1>4 DEF ContinueAfterException
<1>6. /\ frame'[n] = Free /\ frame'[p] = [frame[p] EXCEPT !.state = s]
      /\ \A q \in Slot : q # n /\ q # p => frame'[q] = frame[q]
  BY <1>1, <1>2, <1>3, <1>5
<1>7. IsFunction(p)' /\ ~IsRuntime(n)'
  BY <1>3, <1>6 DEF IsFunction, IsRuntime, FunctionFrame, Free
<1>8. \A j \in Slot : j # n => Holds(j)
  BY <1>3, <1>6, <1>7 DEF Holds
<1> QED
  BY <1>1, <1>7, <1>8, FewerOutcome

\* The code of a function moves.
LEMMA MovesHold ==
    ASSUME IInv, (\E s : Enter(s)) \/ Leave \/ UNCHANGED frame
    PROVE  \A j \in Slot : Holds(j)
<1>1. CASE UNCHANGED frame
  BY <1>1 DEF Holds
<1>2. CASE ~UNCHANGED frame
  <2>1. PICK p \in Slot : p = Primary(top) /\ IsFunction(p)
    BY <1>2, RunningOn DEF Enter, Leave
  <2>2. frame[p] \in FunctionFrame /\ frame \in [Slot -> Frame]
    BY <2>1, Kinds DEF IInv, TypeOK
  <2>3. PICK s : frame' = [frame EXCEPT ![p].state = s]
    <3>1. CASE \E s : Enter(s)
      BY <2>1, <3>1 DEF Enter
    <3>2. CASE Leave
      <4>1. PICK s : s = Eh[Fn(top)].next[State(top)]
        OBVIOUS
      <4>2. frame' = [frame EXCEPT ![p].state = s]
        BY <2>1, <3>2, <4>1 DEF Leave
      <4> QED
        BY <4>2
    <3> QED
      BY <1>2, <3>1, <3>2
  <2>4. IsFunction(p)' /\ \A q \in Slot : q # p => frame'[q] = frame[q]
    BY <2>1, <2>2, <2>3 DEF IsFunction, FunctionFrame
  <2> QED
    BY <2>1, <2>4 DEF Holds
<1> QED
  BY <1>1, <1>2

\* No runtime frame is touched by that.
LEMMA MovesOutcome ==
    ASSUME IInv, (\E s : Enter(s)) \/ Leave \/ UNCHANGED frame
    PROVE  \E i, m, x : Outcome(i, m, x)
<1>1. \A j \in Slot : Holds(j)
  BY MovesHold
<1>2. PICK n \in Int : n = MaxDepth + 1
  BY Depth
<1>3. \A k \in Slot : ~(k >= n)
  BY <1>2, Depth DEF Slot
<1> QED
  BY <1>1, <1>3, QuietOutcome

\* A function returns.
LEMMA ReturnOutcome == ASSUME IInv, Return PROVE \E i, m, x : Outcome(i, m, x)
<1>1. PICK n \in Slot : n = top
  BY DEF IInv, TypeOK
<1>2. frame'[n] = Free /\ \A j \in Slot : j # n => frame'[j] = frame[j]
  BY <1>1 DEF Return, IInv, TypeOK
<1>3. ~IsRuntime(n)' /\ \A j \in Slot : j # n => Holds(j)
  BY <1>2 DEF Free, IsRuntime, Holds
<1> QED
  BY <1>1, <1>3, FewerOutcome

\* A function is called, or an exception thrown.
LEMMA PushOutcome ==
    ASSUME IInv, Links, NEW m \in Slot, NEW x, Pushes(m, x),
           x.kind = "throw" => Refers(x.tf, head)
    PROVE  \E i, j, z : Outcome(i, j, z)
<1>1. /\ frame' = [frame EXCEPT ![m] = x] /\ frame \in [Slot -> Frame] /\ m = top + 1 /\ top \in Nat
      /\ top \in Slot /\ m \in Nat
  BY Depth DEF IInv, TypeOK, Pushes
<1>2. frame'[m] = x /\ \A k \in Slot : k # m => frame'[k] = frame[k]
  BY <1>1
<1>3. \A k \in Slot : k # m => Holds(k)
  BY <1>2 DEF Holds
<1>4. \A k \in Slot : k < m => Holds(k)
  BY <1>1, <1>3, Depth
<1>5. ASSUME NEW k \in Slot, k >= m, k # m PROVE ~IsRuntime(k)'
  <2>1. k > top
    <3>1. k \in Nat
      BY Depth
    <3> QED
      BY <1>1, <1>5, <3>1
  <2>2. frame[k] = Free
    BY <2>1, TopFacts
  <2> QED
    BY <1>2, <1>5, <2>2 DEF IsRuntime, Free
<1>6. CASE x.kind = "function"
  <2>1. ~IsRuntime(m)'
    BY <1>2, <1>6 DEF IsRuntime
  <2>2. m \in Int /\ \A k \in Slot : k >= m => ~IsRuntime(k)'
    BY <1>1, <1>5, <2>1
  <2> QED
    BY <1>4, <2>2, QuietOutcome
<1>7. CASE x.kind = "throw"
  <2>1. x.reg = head /\ x.pc = "visit" /\ head \in Nat /\ head < m
    BY <1>1, <1>7, TopFacts DEF Pushes, IInv, TypeOK
  <2>2. Leads(m, m, x)
    BY <1>1, <1>2, <1>4, <1>5, <2>1 DEF Leads
  <2>3. Outcome(m, m, x)
    BY <1>7, <2>1, <2>2 DEF Outcome, Destroys
  <2> QED
    BY <2>3
<1> QED
  BY <1>6, <1>7 DEF Pushes

\* A function is called, or an exception thrown.
LEMMA CallThrowOutcome ==
    ASSUME IInv, Links, (\E f \in Fns : Call(f)) \/ Rethrow \/ (\E t \in Types : Throw(t))
    PROVE  \E i, m, x : Outcome(i, m, x)
<1>1. CASE \E f \in Fns : Call(f)
  <2>1. PICK m \in Slot : \E x : Pushes(m, x) /\ x.kind = "function"
    BY <1>1, CallPushes
  <2>2. PICK x : Pushes(m, x) /\ x.kind = "function"
    BY <2>1
  <2> QED
    BY <2>2, PushOutcome
<1>2. ASSUME NEW obj \in ObjOrLink, NEW info \in Types \cup {NoInfo}, Running, PushThrowFrame(obj, info),
             \/ obj.to = "null" /\ obj = Null /\ info = NoInfo
             \/ obj.to = "object" /\ info # NoInfo
      PROVE  \E i, m, x : Outcome(i, m, x)
  <2>1. PICK m \in Slot : \E x :
            /\ Pushes(m, x) /\ x.kind = "throw" /\ x.reg = head
            /\ x.tf.exception_object_or_link = obj /\ x.tf.throw_info_if_owner = info
    BY <1>2, ThrowFramePushed
  <2>2. PICK x :
            /\ Pushes(m, x) /\ x.kind = "throw" /\ x.reg = head
            /\ x.tf.exception_object_or_link = obj /\ x.tf.throw_info_if_owner = info
    BY <2>1
  <2>3. Refers(x.tf, head)
    BY <1>2, <2>2 DEF Refers
  <2> QED
    BY <2>2, <2>3, PushOutcome
<1>3. CASE Rethrow
  <2>1. Running /\ PushThrowFrame(Null, NoInfo) /\ Null \in ObjOrLink /\ Null.to = "null"
    BY <1>3, ThrowArguments DEF Null
  <2> QED
    BY <1>2, <2>1
<1>4. CASE \E t \in Types : Throw(t)
  <2>1. PICK t \in Types : Throw(t)
    BY <1>4
  <2>2. Running /\ PushThrowFrame(Object(top), t) /\ Object(top).to = "object" /\ Object(top) \in ObjOrLink
    BY <2>1, Depth DEF Throw, Object, ObjOrLink, Slot, IInv, TypeOK
  <2>3. t # NoInfo
    BY ThrowInfoAssumption
  <2>4. PICK obj \in ObjOrLink : obj = Object(top)
    BY <2>2
  <2> QED
    BY <1>2, <2>2, <2>3, <2>4
<1> QED
  BY <1>1, <1>3, <1>4

\* What stops the machine leaves the stack as it is.
LEMMA HaltFrame == ASSUME NEW how, Halt(how) PROVE UNCHANGED frame
BY DEF Halt

LEMMA StillFrame ==
    ASSUME \/ RejectTable \/ VisitForeign \/ SearchFails \/ NoexceptViolation
           \/ Halted \/ UNCHANGED vars
    PROVE  UNCHANGED frame
<1>1. CASE RejectTable \/ VisitForeign
  BY <1>1 DEF RejectTable, VisitForeign, Halt
<1>2. CASE SearchFails
  BY <1>2, HaltFrame DEF SearchFails
<1>3. CASE NoexceptViolation
  BY <1>3 DEF NoexceptViolation, Halt
<1> QED
  BY <1>1, <1>2, <1>3 DEF Halted, vars

\* Every step has one of these outcomes.
LEMMA NextOutcome == IInv /\ Links /\ [Next]_vars => \E n, m, x : Outcome(n, m, x)
<1> SUFFICES ASSUME IInv, Links, [Next]_vars PROVE \E n, m, x : Outcome(n, m, x)
  OBVIOUS
<1>1. CASE UserCode
  <2>1. CASE \/ \E f \in Fns : Call(f)
             \/ Rethrow
             \/ \E t \in Types : Throw(t)
    BY <2>1, CallThrowOutcome
  <2>2. CASE \/ \E s : Enter(s)
             \/ Leave
    BY <2>2, MovesOutcome
  <2>3. CASE Return
    BY <2>3, ReturnOutcome
  <2>4. CASE CatchReturn
    BY <2>4, CatchReturnOutcome
  <2> QED
    BY <1>1, <2>1, <2>2, <2>3, <2>4 DEF UserCode
<1>2. CASE \/ SelectHandler \/ SelectNothing \/ CleanupReturns \/ CopyReturns \/ AbandonException
           \/ UnwindEdge \/ BindCatchVariable
  <2>1. PICK n, p, x : n \in Slot /\ TopRewritten(n, p, x)
    BY <1>2, SelectHandlerRewrites, MarchRewrites, WorkRewrites
  <2> QED
    BY <2>1, RewritingOutcome
<1>3. CASE VisitFunction \/ VisitCatchFrame
  BY <1>3, VisitOutcome
<1>4. CASE ProbeForObject
  BY <1>4, ProbeOutcome
<1>5. CASE PassFunction \/ TakeFromCatchFrame \/ PassCatchFrame
  BY <1>5, PassRegistrationOutcome
<1>6. CASE CallHandler
  BY <1>6, CallHandlerOutcome
<1>7. CASE ContinueAfterException
  BY <1>7, ContinueOutcome
<1>8. CASE \/ RejectTable \/ VisitForeign \/ SearchFails \/ NoexceptViolation
           \/ Halted \/ UNCHANGED vars
  BY <1>8, StillFrame, MovesOutcome
<1> QED
  BY <1>1, <1>2, <1>3, <1>4, <1>5, <1>6, <1>7, <1>8 DEF Next, Runtime

LEMMA InitLinks == Init => Links
<1> SUFFICES ASSUME Init PROVE Links
  OBVIOUS
<1>1. \A k \in Slot : ~IsRuntime(k)
  BY DEF Init, IsRuntime, Free
<1> QED
  BY <1>1 DEF Links, LinkShape

\* No step leaves a reference to a frame that is gone.
LEMMA NextLinks == IInv /\ Links /\ [Next]_vars => Links'
<1> SUFFICES ASSUME IInv, Links, [Next]_vars PROVE Links'
  OBVIOUS
<1>1. PICK n, m, x : Outcome(n, m, x)
  BY NextOutcome
<1> QED
  BY <1>1, LinksStep

----------------------------------------------------------------------------
(***************************************************************************)
(* Which exception a runtime frame is about.                               *)
(***************************************************************************)

\* The newest runtime frame in slots 1 to m is in slot p.
Nearest(m, p) == p \in 1..m /\ IsRuntime(p) /\ \A q \in p + 1 .. m : ~IsRuntime(q)

\* It is the frame of a handler.
NearCatch(m, p) == Nearest(m, p) /\ frame[p].kind = "catch"

\* One step of the recursion of Referent: ref says it of the slots below.
AboutBy(k, ref) ==
    IF k = 0 \/ ~IsRuntime(k) THEN 0
    ELSE LET obj == frame[k].tf.exception_object_or_link
             from == IF frame[k].kind = "throw" THEN frame[k].reg ELSE frame[k].next
         IN  IF obj.to = "object" THEN obj.slot
             ELSE IF obj.to = "link" THEN (IF obj.slot < k THEN ref[obj.slot] ELSE 0)
             ELSE IF from >= k \/ \A p \in 1..from : ~Nearest(from, p) THEN 0
             ELSE LET p == CHOOSE q \in 1..from : Nearest(from, q)
                  IN  IF frame[p].kind = "catch" THEN ref[p] ELSE 0

\* Only the slots below matter.
LEMMA AboutBelow ==
    ASSUME IInv, NEW k \in 0..MaxDepth, NEW r, NEW s, \A i \in 0..k - 1 : r[i] = s[i]
    PROVE  AboutBy(k, r) = AboutBy(k, s)
<1>1. SUFFICES ASSUME k # 0, IsRuntime(k) PROVE AboutBy(k, r) = AboutBy(k, s)
  BY DEF AboutBy
<1>2. k \in Slot /\ k \in Nat
  BY <1>1, Depth DEF Slot
<1>3. PICK obj, from, p :
        /\ obj = frame[k].tf.exception_object_or_link
        /\ from = IF frame[k].kind = "throw" THEN frame[k].reg ELSE frame[k].next
        /\ p = CHOOSE q \in 1..from : Nearest(from, q)
  OBVIOUS
<1>4. frame[k] \in RuntimeFrame
  BY <1>1, <1>2, RegBelow
<1>5. obj \in ObjOrLink /\ from \in 0..MaxDepth
  <2>1. frame[k].tf \in ThrowFrame /\ frame[k].reg \in 0..MaxDepth /\ frame[k].next \in 0..MaxDepth
    BY <1>4 DEF RuntimeFrame
  <2> QED
    BY <1>3, <2>1 DEF ThrowFrame
<1>6. obj.slot < k => r[obj.slot] = s[obj.slot]
  BY <1>2, <1>5, Depth DEF ObjOrLink
<1>7. ASSUME from < k, ~ \A q \in 1..from : ~Nearest(from, q) PROVE r[p] = s[p]
  <2>1. p \in 1..from
    BY <1>3, <1>7
  <2> QED
    BY <1>2, <1>5, <1>7, <2>1, Depth
<1>8. from >= k \/ from < k
  BY <1>2, <1>5, Depth
<1> QED
  BY <1>1, <1>3, <1>6, <1>7, <1>8 DEF AboutBy

\* The recursion over the stack is well-founded.
LEMMA ReferentIs ==
    ASSUME IInv, NEW k \in 0..MaxDepth
    PROVE  Referent[k] = AboutBy(k, Referent)
<1>1. MaxDepth \in Nat
  BY Depth
<1> DEFINE Solves(r, n) == \A j \in 0..n : r[j] = AboutBy(j, r)
           Unsolved == {n \in 0..MaxDepth : ~ \E r : Solves(r, n)}
<1>2. Unsolved = {}
  <2> SUFFICES ASSUME Unsolved # {} PROVE FALSE
    OBVIOUS
  <2>1. PICK n \in Unsolved : \A i \in Unsolved : n <= i
    <3>1. Unsolved \in SUBSET Nat
      BY <1>1
    <3> HIDE DEF Unsolved
    <3> QED
      BY <3>1, Least
  <2>2. n \in Nat /\ n <= MaxDepth /\ ~ \E r : Solves(r, n)
    BY <1>1, <2>1
  <2>3. PICK r : \A j \in 0..n - 1 : r[j] = AboutBy(j, r)
    <3>1. CASE n = 0
      <4>1. 0..n - 1 = {}
        BY <3>1
      <4> QED
        BY <4>1
    <3>2. CASE n # 0
      <4>1. n - 1 \in 0..MaxDepth /\ ~(n <= n - 1)
        BY <1>1, <2>2, <3>2
      <4>2. n - 1 \notin Unsolved
        BY <2>1, <4>1
      <4>3. \E r : Solves(r, n - 1)
        BY <4>1, <4>2
      <4> QED
        BY <4>3
    <3> QED
      BY <3>1, <3>2
  <2> DEFINE s == [j \in 0..n |-> IF j = n THEN AboutBy(n, r) ELSE r[j]]
  <2>4. \A j \in 0..n - 1 : s[j] = r[j]
    BY <2>2
  <2>5. s[n] = AboutBy(n, r)
    BY <2>2
  <2> HIDE DEF s
  <2>6. ASSUME NEW j \in 0..n PROVE AboutBy(j, s) = AboutBy(j, r)
    <3>1. j \in 0..MaxDepth /\ \A i \in 0..j - 1 : s[i] = r[i]
      BY <1>1, <2>2, <2>4
    <3> QED
      BY <3>1, AboutBelow
  <2>7. \A j \in 0..n : j = n \/ j \in 0..n - 1
    BY <2>2
  <2>8. Solves(s, n)
    BY <2>3, <2>4, <2>5, <2>6, <2>7
  <2> QED
    BY <2>2, <2>8
<1>3. PICK r : Solves(r, MaxDepth)
  BY <1>1, <1>2
<1> DEFINE s == [j \in 0..MaxDepth |-> r[j]]
<1>4. \A j \in 0..MaxDepth : s[j] = r[j]
  OBVIOUS
<1> HIDE DEF s
<1>5. ASSUME NEW j \in 0..MaxDepth PROVE s[j] = AboutBy(j, s)
  <2>1. \A i \in 0..j - 1 : s[i] = r[i]
    BY <1>1, <1>4
  <2>2. AboutBy(j, s) = AboutBy(j, r)
    BY <2>1, AboutBelow
  <2> QED
    BY <1>3, <1>4, <2>2
<1>6. s = [j \in 0..MaxDepth |-> AboutBy(j, s)]
  BY <1>5 DEF s
<1>7. Referent = CHOOSE ref : ref = [j \in 0..MaxDepth |-> AboutBy(j, ref)]
  BY DEF Referent, AboutBy, Nearest
<1>8. Referent = [j \in 0..MaxDepth |-> AboutBy(j, Referent)]
  BY <1>6, <1>7
<1>9. PICK ref : ref = Referent
  OBVIOUS
<1> QED
  BY <1>8, <1>9

\* There is at most one.
LEMMA OneNearest ==
    ASSUME IInv, NEW m \in 0..MaxDepth, NEW p, Nearest(m, p), NEW q, Nearest(m, q)
    PROVE  p = q
<1>1. p \in Nat /\ q \in Nat /\ p <= m /\ q <= m /\ m \in Nat
  BY Depth DEF Nearest
<1>2. ~(p < q)
  BY <1>1 DEF Nearest
<1>3. ~(q < p)
  BY <1>1 DEF Nearest
<1> QED
  BY <1>1, <1>2, <1>3

\* A frame is about the exception it refers to, in its own or in another's name;
\* one that refers to nothing is about that of the handler it is in.
LEMMA ReferentOf ==
    ASSUME IInv, Links, NEW k \in Slot, IsRuntime(k), NEW obj,
           obj = frame[k].tf.exception_object_or_link
    PROVE  /\ obj.to = "object" => Referent[k] = obj.slot
           /\ obj.to = "link" => Referent[k] = Referent[obj.slot]
           /\ obj.to = "null" => \A p : NearCatch(frame[k].reg, p) => Referent[k] = Referent[p]
           /\ obj.to = "null" => (Referent[k] # 0 => \E p : NearCatch(frame[k].reg, p))
<1>1. k \in 0..MaxDepth /\ k \in Nat /\ k # 0
  BY Depth DEF Slot
<1>2. Referent[k] = AboutBy(k, Referent)
  BY <1>1, ReferentIs
<1>3. Refers(frame[k].tf, frame[k].reg) /\ frame[k].reg \in Nat /\ frame[k].reg < k
      /\ (k \in Registered => frame[k].next = frame[k].reg)
  BY RegBelow DEF Links, LinkShape
<1>4. frame[k].kind # "throw" => k \in Registered
  BY DEF IsRuntime, Registered, HasBoundary
<1>5. PICK from : from = IF frame[k].kind = "throw" THEN frame[k].reg ELSE frame[k].next
  OBVIOUS
<1>6. from = frame[k].reg /\ from < k /\ from \in Nat /\ ~(from >= k) /\ from \in 0..MaxDepth
  <2>1. from = frame[k].reg
    BY <1>3, <1>4, <1>5
  <2>2. from \in 0..MaxDepth
    BY <1>1, <1>3, <2>1, Depth
  <2> QED
    BY <1>1, <1>3, <2>1, <2>2
<1>7. obj.to = "object" => Referent[k] = obj.slot
  BY <1>1, <1>2 DEF AboutBy
<1>8. obj.to = "link" => Referent[k] = Referent[obj.slot]
  <2>1. SUFFICES ASSUME obj.to = "link" PROVE Referent[k] = Referent[obj.slot]
    OBVIOUS
  <2>2. PICK s : s = obj.slot
    OBVIOUS
  <2>3. s \in Slot /\ s <= frame[k].reg
    BY <1>3, <2>1, <2>2 DEF Refers
  <2>4. s < k
    BY <1>1, <1>3, <2>3, Depth
  <2> QED
    BY <1>1, <1>2, <2>1, <2>2, <2>4 DEF AboutBy
<1>9. ASSUME obj.to = "null"
      PROVE  Referent[k] = IF \A p \in 1..from : ~Nearest(from, p) THEN 0
                           ELSE LET p == CHOOSE q \in 1..from : Nearest(from, q)
                                IN  IF frame[p].kind = "catch" THEN Referent[p] ELSE 0
  BY <1>1, <1>2, <1>5, <1>6, <1>9 DEF AboutBy
<1>10. ASSUME obj.to = "null", NEW p, NearCatch(from, p) PROVE Referent[k] = Referent[p]
  <2>1. Nearest(from, p) /\ p \in 1..from /\ frame[p].kind = "catch"
    BY <1>10 DEF NearCatch, Nearest
  <2>2. PICK q : q = CHOOSE i \in 1..from : Nearest(from, i)
    OBVIOUS
  <2>3. Nearest(from, q)
    BY <2>1, <2>2
  <2>4. q = p
    BY <1>6, <2>1, <2>3, OneNearest
  <2> QED
    BY <1>9, <1>10, <2>1, <2>2, <2>4
<1>11. ASSUME obj.to = "null", Referent[k] # 0 PROVE \E p : NearCatch(from, p)
  <2>1. PICK q : q = CHOOSE i \in 1..from : Nearest(from, i)
    OBVIOUS
  <2>2. ~(\A p \in 1..from : ~Nearest(from, p)) /\ frame[q].kind = "catch"
    BY <1>9, <1>11, <2>1
  <2>3. Nearest(from, q)
    BY <2>1, <2>2
  <2> QED
    BY <2>2, <2>3 DEF NearCatch
<1> QED
  BY <1>6, <1>7, <1>8, <1>10, <1>11

----------------------------------------------------------------------------
(***************************************************************************)
(* Why the machine stops.                                                  *)
(***************************************************************************)

\* A handler that is searched had entered a state.
EntryShape(k) ==
    /\ frame[k].kind = "throw" /\ frame[k].pc # "visit"
    /\ frame[k].reg \in Slot /\ frame[frame[k].reg].kind = "catch"
    => frame[k].entry # -1

\* The same of every frame.
Entries == \A k \in Slot : EntryShape(k)

\* The handler of a catch frame is one of its function.
LEMMA HandledBlock ==
    ASSUME NEW r, frame[r].kind = "catch", HandlingOf(frame[r], r)
    PROVE  /\ frame[r].block \in Blocks(frame[Primary(r)].fn)
           /\ UnwoundState(r) = Block(frame[Primary(r)].fn, frame[r].block).try_low - 1
BY DEF HandlingOf, UnwoundState, IsFunction, Primary

\* What has been entered is in some state, unless a destructor has let an
\* exception out into the handler whose exception was to be destroyed.
LEMMA EnteredState ==
    ASSUME HInv, Homes, ~DestructorEscapes, Dispatching("visit"), NEW r, r = T.reg, r \in Slot,
           frame[r].kind = "catch"
    PROVE  State(r) # -1
<1>1. PICK n \in Slot : n = top
  BY DEF HInv, EInv, IInv, TypeOK
<1>2. IInv /\ frame[n].kind = "throw" /\ frame[n].pc = "visit" /\ r = frame[n].reg /\ T = frame[n]
  BY <1>1, TopThrow DEF HInv, EInv
<1>3. Catcher(r)
  BY Depth DEF Catcher, Slot
<1>4. ASSUME NEW q \in Slot PROVE ~Abandons(q, r)
  BY <1>1, <1>2 DEF DestructorEscapes, Abandons
<1>5. Within(Fn(r), Home(r), State(r))
  BY <1>1, <1>2, <1>3, <1>4, SearchedHome
<1>6. /\ Fn(r) \in Fns /\ HandlingOf(frame[r], r) /\ Home(r) = frame[r].block
      /\ Fn(r) = frame[Primary(r)].fn
  BY <1>2, <1>3, UnderCatcher DEF HandlingShape, Home, IsFunction, Fn
<1>7. Home(r) \in Blocks(Fn(r))
  BY <1>6, HandledBlock
<1>8. Home(r) # 0
  BY <1>6, <1>7, HandlerFacts
<1>9. HandlerState(Fn(r), Home(r)) \in Chain(Fn(r), State(r))
  BY <1>5, <1>8 DEF Within
<1> QED
  BY <1>6, <1>9, ChainEmpty

\* The entry states survive every outcome of a step.
LEMMA EntriesStep ==
    ASSUME HInv, Homes, Entries, ~DestructorEscapes, NEW n, NEW m, NEW x, Outcome(n, m, x)
    PROVE  Entries'
<1>1. /\ n \in Int /\ \A j \in Slot : j < n => Holds(j)
      /\ \A k \in Slot : k >= n /\ IsRuntime(k)' => k = m
      /\ m \in Slot => /\ m >= n /\ frame'[m] = x /\ x.reg \in Nat /\ x.reg < n
                       /\ x.kind = "throw" /\ x.pc # "visit" => Searching(m, x)
  BY DEF Outcome, Leads
<1>2. ASSUME NEW k \in Slot, frame'[k].kind = "throw", frame'[k].pc # "visit",
             frame'[k].reg \in Slot, frame'[frame'[k].reg].kind = "catch"
      PROVE  frame'[k].entry # -1
  <2>1. k \in Int /\ IsRuntime(k)'
    BY <1>2, Depth DEF IsRuntime
  <2>2. PICK d, r : d = frame'[k] /\ r = d.reg
    OBVIOUS
  <2>3. r \in Slot /\ r \in Int /\ d.kind = "throw" /\ d.pc # "visit" /\ frame'[r].kind = "catch"
    <3>1. r \in Slot /\ d.kind = "throw" /\ d.pc # "visit" /\ frame'[r].kind = "catch"
      BY <1>2, <2>2
    <3> QED
      BY <3>1, Depth
  <2>4. CASE k < n
    <3>1. IsRuntime(k) /\ d = frame[k]
      BY <1>1, <2>1, <2>2, <2>4, HoldsFacts
    <3>2. r < k
      BY <2>2, <3>1, RegBelow DEF HInv, EInv
    <3>3. r < n
      BY <1>1, <2>1, <2>3, <2>4, <3>2
    <3>4. frame[r].kind = "catch"
      BY <1>1, <2>3, <3>3, HoldsFacts
    <3> QED
      BY <2>2, <2>3, <3>1, <3>4 DEF Entries, EntryShape
  <2>5. CASE ~(k < n)
    <3>1. k = m /\ m \in Slot /\ d = x
      BY <1>1, <2>1, <2>2, <2>5
    <3>2. r < n
      BY <1>1, <2>2, <3>1
    <3>3. frame[r].kind = "catch"
      BY <1>1, <2>3, <3>2, HoldsFacts
    <3>4. Searching(m, x)
      BY <1>1, <2>3, <3>1
    <3>5. CASE frame[m].kind = "throw" /\ frame[m].pc # "visit" /\ x.entry = frame[m].entry /\ x.reg = frame[m].reg
      <4>1. frame[m].reg = r
        BY <2>2, <3>1, <3>5
      <4> QED
        BY <2>2, <2>3, <3>1, <3>3, <3>5, <4>1 DEF Entries, EntryShape
    <3>6. CASE m = top /\ Dispatching("visit") /\ frame[m].reg = x.reg /\ x.entry = State(x.reg)
      <4>1. T.reg = r
        BY <2>2, <3>1, <3>6 DEF T
      <4>2. State(r) # -1
        BY <2>3, <3>3, <3>6, <4>1, EnteredState
      <4> QED
        BY <2>2, <3>1, <3>6, <4>2
    <3> QED
      BY <3>4, <3>5, <3>6 DEF Searching
  <2> QED
    BY <2>4, <2>5
<1>3. ASSUME NEW k \in Slot PROVE EntryShape(k)'
  BY <1>2 DEF EntryShape
<1> QED
  BY <1>3 DEF Entries

LEMMA InitEntries == Init => Entries
<1> SUFFICES ASSUME Init PROVE Entries
  OBVIOUS
<1>1. \A k \in Slot : frame[k].kind # "throw"
  BY DEF Init, Free
<1> QED
  BY <1>1 DEF Entries, EntryShape

\* A dispatch never comes to code that is in no state.
LEMMA NextEntries ==
    HInv /\ Homes /\ Links /\ Entries /\ ~DestructorEscapes /\ [Next]_vars => Entries'
<1> SUFFICES ASSUME HInv, Homes, Links, Entries, ~DestructorEscapes, [Next]_vars PROVE Entries'
  OBVIOUS
<1>1. PICK n, m, x : Outcome(n, m, x)
  BY NextOutcome DEF HInv, EInv
<1> QED
  BY <1>1, EntriesStep

\* What the loop over the table examines is what encloses the control of the
\* code under the registration.
LEMMA CandidateEncloses ==
    ASSUME HInv, Homes, Dispatching("search"), NEW r, r = T.reg, NEW i \in Candidates(r)
    PROVE  i \in Enclosing(r)
<1>1. PICK n \in Slot : n = top
  BY DEF HInv, EInv, IInv, TypeOK
<1>2. IInv /\ frame[n].kind = "throw" /\ frame[n].pc = "search" /\ r = frame[n].reg
  BY <1>1, TopThrow DEF HInv, EInv, T
<1>3. r \in Slot /\ Catcher(r)
  BY <1>1, <1>2, Worked DEF HInv
<1>4. \A q \in Slot : ~Abandons(q, r)
  BY <1>2, <1>3, AbandonedHasNone
<1>5. PICK f, b, s, low : f = Fn(r) /\ b = Home(r) /\ s = State(r) /\ low = Block(f, i).try_low
  OBVIOUS
<1>6. Within(f, b, s)
  BY <1>1, <1>2, <1>3, <1>4, <1>5, SearchedHome
<1>7. f \in Fns /\ s \in States(f)
  BY <1>2, <1>3, <1>5, UnderCatcher
<1>8. i \in Blocks(f) /\ InTry(f, i, s) /\ low > UnwoundState(r)
  BY <1>2, <1>3, <1>5, CandidateFacts
<1>9. low \in Chain(f, s)
  BY <1>5, <1>7, <1>8, InTryIsChain
<1>10. b \in 0..Len(Eh[f].try_blocks) /\ low > FuncletLow(f, b)
  <2>1. CASE IsFunction(r)
    <3>1. b = 0 /\ UnwoundState(r) = -1
      BY <1>5, <2>1 DEF Home, UnwoundState
    <3> QED
      BY <1>7, <1>8, <3>1, HomeBlockIs DEF FuncletLow
  <2>2. CASE frame[r].kind = "catch"
    <3>1. HandlingOf(frame[r], r) /\ f = frame[Primary(r)].fn /\ b = frame[r].block /\ ~IsFunction(r)
      BY <1>2, <1>3, <1>5, <2>2, UnderCatcher DEF HandlingShape, Home, IsFunction, Fn
    <3>2. b \in Blocks(f) /\ UnwoundState(r) = Block(f, b).try_low - 1
      BY <2>2, <3>1, HandledBlock
    <3>3. b # 0 /\ Block(f, b).try_low \in Int /\ low \in Int /\ b \in 0..Len(Eh[f].try_blocks)
      <4>1. Len(Eh[f].try_blocks) \in Nat
        BY <1>7, EhAssumption
      <4>2. b # 0 /\ Block(f, b).try_low \in Int /\ low \in Int
        BY <1>5, <1>7, <1>8, <3>2, HandlerFacts, BlockFacts
      <4> QED
        BY <3>2, <4>1, <4>2 DEF Blocks
    <3>4. PICK u : u = Block(f, b).try_low
      OBVIOUS
    <3>5. FuncletLow(f, b) = u /\ UnwoundState(r) = u - 1 /\ u \in Int
      BY <3>2, <3>3, <3>4 DEF FuncletLow
    <3>6. low > u
      <4>1. u <= low
        BY <1>8, <3>3, <3>5
      <4>2. HandlerState(f, b) \in Chain(f, s) /\ Block(f, b).try_low <= low
        BY <1>6, <3>3, <3>4, <4>1 DEF Within
      <4>3. PICK h : h = HandlerState(f, b)
        OBVIOUS
      <4>4. h \in Chain(f, Around(f, i))
        BY <1>5, <1>7, <1>8, <3>2, <4>2, <4>3, Encloses
      <4>5. /\ Around(f, i) \in States(f) /\ Around(f, i) \in Int /\ Around(f, i) < low
            /\ h \in Int /\ u < h
        <5>1. Around(f, i) \in States(f) /\ Around(f, i) < low
          BY <1>5, <1>7, <1>8, HandlerFacts DEF Around
        <5>2. h \in States(f) /\ u < h
          BY <1>7, <3>2, <3>4, <4>3, HandlerFacts
        <5> QED
          BY <1>7, <5>1, <5>2, EhAssumption DEF States
      <4>6. h <= Around(f, i)
        BY <1>7, <4>4, <4>5, ChainBelow
      <4> QED
        BY <3>3, <3>5, <4>5, <4>6
    <3> QED
      BY <3>3, <3>5, <3>6
  <2> QED
    BY <1>3, <2>1, <2>2 DEF Catcher
<1>11. HomeBlock(f, low) = b
  BY <1>6, <1>7, <1>9, <1>10, OwnOnChain
<1> QED
  BY <1>5, <1>8, <1>11 DEF Enclosing

\* A dispatch that looks for a type, in or around a try statement, and refers to
\* a catch frame that refers on, to another, or to nothing: get_throw_info
\* follows one link, never two, and the null it comes back with is read.
RefersOn ==
    /\ Dispatching("search") /\ Enclosing(T.reg) # {}
    /\ LET obj == T.tf.exception_object_or_link
       IN  /\ obj.to = "link" /\ frame[obj.slot].kind = "catch"
           /\ frame[obj.slot].tf.exception_object_or_link.to # "object"

\* The exception of a destructor of an abandoned exception leaves the handler
\* that one was of, of a noexcept function, once more (throw_x86.cpp:355).
LeavesHandlerAgain ==
    /\ Dispatching("unwind") /\ T.entry = -1
    /\ T.reg >= 1 /\ frame[T.reg].kind = "catch" /\ Eh[Fn(T.reg)].is_noexcept

\* Why the machine stops.
StopReason ==
    IF halted' = "bug_check"
    THEN \/ T.reg = 0
         \/ LeavesDestructor
         \/ LeavesCopyConstructor
         \/ LeavesNoexcept
         \/ LeavesHandlerAgain
         \/ MeetsUnknownTable
         \/ RethrowsNothing
    ELSE halted' = "fault" /\ RefersOn

\* Four actions stop the machine.
LEMMA OnlyStops ==
    ASSUME Next, halted = "no", halted' # "no"
    PROVE  RejectTable \/ VisitForeign \/ SearchFails \/ NoexceptViolation
<1>1. ~Halted
  BY DEF Halted
<1>2. ~UserCode
  BY DEF UserCode, Call, Enter, Leave, Return, CatchReturn, Throw, Rethrow, PushThrowFrame
<1>3. CASE VisitFunction \/ VisitCatchFrame \/ ProbeForObject \/ SelectHandler \/ SelectNothing
  BY <1>3 DEF VisitFunction, VisitCatchFrame, EnterHandler, ProbeForObject, SelectHandler,
     SelectNothing
<1>4. CASE UnwindEdge \/ CleanupReturns \/ BindCatchVariable \/ CopyReturns \/ AbandonException
  BY <1>4 DEF UnwindEdge, CleanupReturns, BindCatchVariable, CopyReturns, AbandonException
<1>5. CASE PassFunction \/ TakeFromCatchFrame \/ PassCatchFrame
  BY <1>5 DEF PassFunction, TakeFromCatchFrame, PassCatchFrame, PassRegistration
<1>6. CASE CallHandler \/ ContinueAfterException
  BY <1>6 DEF CallHandler, ContinueAfterException
<1> QED
  BY <1>1, <1>2, <1>3, <1>4, <1>5, <1>6 DEF Next, Runtime

\* fs:[0] leads to every registration.
LEMMA ChainIsAll == ASSUME IInv PROVE ChainFrom[head] = Registered
<1>1. head \in Registered \cup {0} /\ \A q \in Slot : head < q => q \notin Registered
  BY TopFacts
<1>2. head \in 0..MaxDepth /\ Registered \subseteq Slot /\ 0 \notin Slot
  BY DEF IInv, TypeOK, Registered, Slot
<1>3. ChainFrom[head] = Reached(head)
  BY <1>2, ChainReaches
<1>4. \A q \in Registered : q <= head
  BY <1>1, <1>2, Depth
<1>5. CASE head = 0
  <2>1. Registered = {}
    BY <1>1, <1>2, <1>5, Depth DEF Slot
  <2> QED
    BY <1>3, <1>5, <2>1 DEF Reached
<1>6. CASE head # 0
  BY <1>1, <1>2, <1>3, <1>4, <1>6 DEF Reached
<1> QED
  BY <1>5, <1>6

\* What the probe finds is the catch frame whose exception a rethrow is about.
LEMMA ProbeFinds ==
    ASSUME IInv, NEW n \in Slot, n = top, frame[n].kind = "throw",
           NEW r, r = frame[n].reg, r \in Slot, Catcher(r), NEW p, NearCatch(r, p),
           NEW c \in Slot, Probes(c)
    PROVE  p = c
<1>1. n \in Nat /\ r \in Nat /\ r < n /\ MaxDepth \in Nat /\ n <= MaxDepth
  BY TopDispatch, Depth DEF Slot
<1>2. p \in 1..r /\ frame[p].kind = "catch" /\ \A q \in p + 1 .. r : ~IsRuntime(q)
  BY DEF NearCatch, Nearest
<1>3. p \in Slot /\ p \in Nat
  BY <1>1, <1>2 DEF Slot
<1>4. ChainFrom[head] = Registered
  BY ChainIsAll
<1>5. ASSUME NEW q \in Slot, frame[q].kind = "catch" PROVE q <= p
  <2>1. q \in Nat
    BY Depth
  <2>2. q <= n
    BY <1>1, <1>5, <2>1, TopFacts DEF Free
  <2>3. q # n
    BY <1>5
  <2>4. ~(Body(r) < q)
    <3>1. GapShape(n)
      BY TopDispatch
    <3> QED
      BY <1>1, <1>5, <2>1, <2>2, <2>3, <3>1 DEF GapShape, Abandons, Free
  <2>5. q <= r
    <3>1. CASE IsFunction(r)
      BY <1>1, <2>1, <2>4, <3>1 DEF Body
    <3>2. CASE ~IsFunction(r)
      <4>1. Body(r) = r + 1 /\ frame[r + 1].kind = "funclet"
        BY <3>2, UnderCatcher DEF Body, Catcher
      <4>2. q # r + 1
        BY <1>5, <4>1
      <4> QED
        BY <1>1, <2>1, <2>4, <4>1, <4>2
    <3> QED
      BY <3>1, <3>2
  <2>6. IsRuntime(q)
    BY <1>5 DEF IsRuntime
  <2>7. q \notin p + 1 .. r
    BY <1>2, <2>6
  <2> QED
    BY <1>1, <1>3, <2>1, <2>5, <2>7
<1>6. p \in Registered
  BY <1>2, <1>3 DEF Registered
<1>7. frame[c].kind = "catch" /\ p <= c
  BY <1>2, <1>4, <1>6 DEF Probes
<1> QED
  BY <1>3, <1>5, <1>7, Depth DEF Slot

\* A search that fails has no exception, and no catch frame on the stack but
\* below a table that is not taken; or it refers on. It is about to catch.
LEMMA SearchStops ==
    ASSUME HInv, Homes, Links, SearchFails
    PROVE  \/ halted' = "bug_check" /\ RethrowsNothing
           \/ halted' = "fault" /\ RefersOn
<1>1. PICK n, r, obj : n \in Slot /\ n = top /\ r = T.reg /\ obj = T.tf.exception_object_or_link
  BY DEF HInv, EInv, IInv, TypeOK
<1>2. Dispatching("search") /\ LacksThrowInfo
  BY DEF SearchFails
<1>3. /\ IInv /\ T = frame[n] /\ frame[n].kind = "throw" /\ frame[n].pc = "search"
      /\ r = frame[n].reg /\ IsRuntime(n)
  BY <1>1, <1>2, TopThrow DEF HInv, EInv
<1>4. PICK i \in Candidates(r) : TRUE
  BY <1>1, <1>2 DEF LacksThrowInfo, NeedsThrowInfo, IsFirst
<1>5. Enclosing(r) # {}
  BY <1>1, <1>2, <1>4, CandidateEncloses
<1>6. CASE obj = Null
  <2>1. halted' = "bug_check" /\ \A p \in Slot : ~Probes(p)
    BY <1>1, <1>6 DEF SearchFails, Halt
  <2> DEFINE Handling == {p \in Slot : frame[p].kind = "catch"}
             Above == {MaxDepth - p : p \in Handling}
  <2>2. ASSUME NEW p \in Slot, frame[p].kind = "catch"
        PROVE  \E q \in Slot : p < q /\ IsFunction(q) /\ Fn(q) \in Corrupted
    <3>1. Above \in SUBSET Nat /\ Above # {}
      BY <2>2, Depth DEF Slot
    <3>2. PICK a \in Above : \A b \in Above : a <= b
      <4> HIDE DEF Above
      <4> QED
        BY <3>1, Least
    <3>3. PICK c \in Slot : frame[c].kind = "catch" /\ a = MaxDepth - c
      BY <3>2
    <3>4. ASSUME NEW q \in Slot, frame[q].kind = "catch" PROVE q <= c
      <4>1. MaxDepth - c <= MaxDepth - q
        BY <3>2, <3>3, <3>4
      <4> QED
        BY <4>1, Depth
    <3>5. ChainFrom[head] = Registered /\ c \in Registered
      BY <1>3, <3>3, ChainIsAll DEF Registered
    <3>6. PICK q \in Registered : IsFunction(q) /\ Fn(q) \in Corrupted /\ ~(q < c)
      BY <2>1, <3>3, <3>4, <3>5 DEF Probes, Registered
    <3>7. q \in Slot /\ q # c
      BY <3>3, <3>6 DEF Registered, IsFunction
    <3>8. p <= c
      BY <2>2, <3>4
    <3>9. p < q
      BY <3>6, <3>7, <3>8, Depth
    <3> QED
      BY <3>6, <3>7, <3>9
  <2> QED
    BY <1>1, <1>5, <1>6, <2>1, <2>2 DEF RethrowsNothing
<1>7. CASE obj # Null
  <2>1. halted' = "fault"
    BY <1>1, <1>7 DEF SearchFails, Halt
  <2>2. GetThrowInfo(frame[n].tf) = NoInfo /\ Refers(frame[n].tf, r)
    BY <1>1, <1>2, <1>3 DEF LacksThrowInfo, Links, LinkShape
  <2>3. frame[n].tf.throw_info_if_owner = NoInfo
    BY <2>2 DEF GetThrowInfo
  <2>4. obj.to # "object" /\ obj.to # "null"
    BY <1>1, <1>3, <1>7, <2>2, <2>3 DEF Refers
  <2>5. obj.to = "link"
    <3>1. frame[n] \in RuntimeFrame
      BY <1>3, TopDispatch, <1>1
    <3>2. obj \in ObjOrLink
      BY <1>1, <1>3, <3>1 DEF RuntimeFrame, ThrowFrame
    <3> QED
      BY <2>4, <3>2 DEF ObjOrLink
  <2>6. PICK p \in Slot : p = obj.slot /\ frame[p].kind = "catch"
    BY <1>1, <1>3, <2>2, <2>5 DEF Refers
  <2>7. frame[p].tf.throw_info_if_owner = NoInfo
    BY <1>1, <1>3, <2>2, <2>3, <2>5, <2>6 DEF GetThrowInfo
  <2>8. frame[p].tf.exception_object_or_link.to # "object"
    BY <2>6, <2>7 DEF Links, LinkShape, IsRuntime, Refers
  <2> QED
    BY <1>1, <1>2, <1>5, <2>1, <2>5, <2>6, <2>8 DEF RefersOn
<1> QED
  BY <1>6, <1>7

\* A noexcept function is stopped when the exception leaves it from outside
\* every try statement.
LEMMA NoexceptStops ==
    ASSUME HInv, NoexceptViolation
    PROVE  halted' = "bug_check" /\ (LeavesNoexcept \/ LeavesHandlerAgain)
<1>1. PICK n, r : n \in Slot /\ n = top /\ r = T.reg
  BY DEF HInv, EInv, IInv, TypeOK
<1>2. /\ Dispatching("unwind") /\ T.entry = -1 /\ T.block = 0 /\ Eh[Fn(r)].is_noexcept
      /\ State(r) <= T.target /\ halted' = "bug_check"
  BY <1>1 DEF NoexceptViolation, Unwound, IsViolation, Halt
<1>3. /\ IInv /\ T = frame[n] /\ frame[n].kind = "throw" /\ frame[n].pc = "unwind"
      /\ r = frame[n].reg
  BY <1>1, <1>2, TopThrow DEF HInv, EInv
<1>4. r \in Slot /\ Catcher(r)
  BY <1>1, <1>3, Worked DEF HInv
<1>5. CASE IsFunction(r)
  <2>1. T.target = -1
    BY <1>1, <1>2, <1>3, <1>5, TopDispatch DEF ThrowOf, UnwoundState
  <2>2. Fn(r) \in Fns /\ State(r) \in States(Fn(r)) /\ State(r) \in Int
    BY <1>3, <1>4, UnderCatcher
  <2>3. ASSUME NEW i \in Blocks(Fn(r)), InTry(Fn(r), i, State(r)) PROVE FALSE
    BY <1>2, <2>1, <2>2, <2>3, BlockFacts DEF InTry
  <2>4. Accepting(r) = {}
    BY <2>3 DEF Accepting, Enclosing
  <2> QED
    BY <1>1, <1>2, <1>4, <1>5, <2>4 DEF LeavesNoexcept, Catcher
<1>6. CASE ~IsFunction(r)
  BY <1>1, <1>2, <1>4, <1>6 DEF Catcher, LeavesHandlerAgain
<1> QED
  BY <1>5, <1>6

\* At the end of the chain, or at a registration of the runtime's own, one of
\* its dispatches or destructions of exceptions has called user code.
LEMMA ForeignStops ==
    ASSUME IInv, VisitForeign
    PROVE  halted' = "bug_check" /\ (T.reg = 0 \/ LeavesDestructor \/ LeavesCopyConstructor)
<1>1. PICK n, r : n \in Slot /\ n = top /\ r = T.reg
  BY DEF IInv, TypeOK
<1>2. T = frame[n] /\ frame[n].kind = "throw"
  BY <1>1, TopThrow DEF VisitForeign
<1>3. r \in Nat /\ r < n /\ (r # 0 => r \in Slot /\ r \in Registered)
  BY <1>1, <1>2, TopDispatch
<1>4. halted' = "bug_check" /\ (r >= 1 => frame[r].kind \in {"throw", "destroy"})
  BY <1>1 DEF VisitForeign, Halt
<1>5. ASSUME r # 0, frame[r].kind = "throw" PROVE frame[r].pc \in {"cleanup", "copy"}
  <2>1. frame[r].pc \in {"cleanup", "copy", "abandon"}
    BY <1>1, <1>3, <1>5, Depth DEF IInv, Shape, OthersWait
  <2>2. HasBoundary(r)
    BY <1>3, <1>5 DEF Registered, IsFunction
  <2> QED
    BY <1>5, <2>1, <2>2 DEF HasBoundary
<1> QED
  BY <1>1, <1>3, <1>4, <1>5 DEF LeavesDestructor, LeavesCopyConstructor

\* Every step that stops the machine does so for one of these reasons.
LEMMA NextStops ==
    HInv /\ Homes /\ Links /\ [Next]_vars => [halted' # "no" /\ halted = "no" => StopReason]_vars
<1> SUFFICES ASSUME HInv, Homes, Links, [Next]_vars, halted' # "no", halted = "no"
             PROVE  StopReason
  OBVIOUS
<1>1. IInv
  BY DEF HInv, EInv
<1>2. RejectTable \/ VisitForeign \/ SearchFails \/ NoexceptViolation
  BY OnlyStops DEF vars
<1>3. CASE RejectTable
  BY <1>3, TopThrow, <1>1 DEF RejectTable, Halt, MeetsUnknownTable, StopReason
<1>4. CASE VisitForeign
  BY <1>1, <1>4, ForeignStops DEF StopReason
<1>5. CASE SearchFails
  BY <1>5, SearchStops DEF StopReason
<1>6. CASE NoexceptViolation
  BY <1>6, NoexceptStops DEF StopReason
<1> QED
  BY <1>2, <1>3, <1>4, <1>5, <1>6

\* Whatever is thrown, called and unwound, in every program, on_bug_check is
\* called because the chain has ended, an exception leaves a destructor, a copy
\* constructor or a noexcept function, or a handler of such a function once more,
\* a table is corrupted or has an exception specification, or a rethrow that
\* has to know its exception has no handler on the stack to find it in, or one
\* under a corrupted table; and a null throw info is read only by a rethrow whose
\* link leads to a handler that refers on (throw_x86.cpp:41-49, 132-133, 166-167, 193-200,
\* 266-271, 291-292, 378-379).
THEOREM StopsForCause ==
    Spec => [][halted' # "no" /\ halted = "no" => StopReason]_vars
<1>1. Init => HInv /\ Homes /\ Links
  BY InitIInv, InitExact, InitHandlers, InitHomes, InitLinks DEF HInv, EInv
<1>2. HInv /\ Homes /\ Links /\ [Next]_vars => (HInv /\ Homes /\ Links)'
  BY NextIInv, NextExact, NextHandlers, NextHomes, NextLinks DEF HInv, EInv
<1> QED
  BY <1>1, <1>2, NextStops, PTL DEF Spec

\* A handler of a noexcept function is mistaken for the function only after an
\* exception has left the destructor of the one it had: in every other program
\* the entry state of a handler is a state (throw_x86.cpp:173, 266).
THEOREM HandlersAreNoFunctions == Spec /\ []~DestructorEscapes => []~LeavesHandlerAgain
<1>1. Init => HInv /\ Homes /\ Links /\ Entries
  BY InitIInv, InitExact, InitHandlers, InitHomes, InitLinks, InitEntries DEF HInv, EInv
<1>2. HInv /\ Homes /\ Links /\ Entries /\ ~DestructorEscapes /\ [Next]_vars
        => (HInv /\ Homes /\ Links /\ Entries)'
  BY NextIInv, NextExact, NextHandlers, NextHomes, NextLinks, NextEntries DEF HInv, EInv
<1>3. HInv /\ Entries => ~LeavesHandlerAgain
  <2> SUFFICES ASSUME HInv, Entries, LeavesHandlerAgain PROVE FALSE
    OBVIOUS
  <2>1. PICK n : n \in Slot /\ n = top /\ IInv /\ Dispatching("unwind")
    BY DEF HInv, EInv, IInv, TypeOK, LeavesHandlerAgain
  <2>2. T = frame[n] /\ frame[n].kind = "throw" /\ frame[n].pc = "unwind"
    BY <2>1, TopThrow
  <2>3. frame[n].reg \in Slot
    BY <2>1, <2>2, TopDispatch DEF LeavesHandlerAgain
  <2> QED
    BY <2>1, <2>2, <2>3 DEF LeavesHandlerAgain, Entries, EntryShape
<1> QED
  BY <1>1, <1>2, <1>3, PTL DEF Spec

----------------------------------------------------------------------------
(***************************************************************************)
(* The handler that is chosen.                                             *)
(***************************************************************************)

\* No table has, before a try statement inside a handler, one that begins before
\* the handler's own: at such a one the loop over the table ends.
NoEarlierTry ==
    \A f \in Fns : \A b \in Blocks(f), i \in Blocks(f) :
        HomeBlock(f, Block(f, i).try_low) = b
        => \A j \in 1..i : Block(f, j).try_low >= Block(f, b).try_low

\* A handler has been chosen for a `throw;` that there is no exception for.
CatchesNothing ==
    \E k \in Slot :
        /\ frame[k].kind = "throw" /\ frame[k].block # 0
        /\ frame[k].tf.exception_object_or_link = Null
        /\ Referent[k] = 0

\* A handler that refers to nothing is inside that of the exception it is about.
RootShape(k) ==
    /\ frame[k].kind \in {"catch", "destroy"}
    /\ frame[k].tf.exception_object_or_link = Null
    => \E p : NearCatch(frame[k].reg, p)

Roots == \A k \in Slot : RootShape(k)

\* The nearest handler stays the nearest.
LEMMA NearKept ==
    ASSUME NEW n \in Int, \A j \in Slot : j < n => Holds(j),
           NEW m \in Nat, m < n, m <= MaxDepth, NEW p, NearCatch(m, p)
    PROVE  NearCatch(m, p)'
<1>1. p \in 1..m /\ frame[p].kind = "catch" /\ \A q \in p + 1 .. m : ~IsRuntime(q)
  BY DEF NearCatch, Nearest
<1>2. ASSUME NEW q \in 1..m PROVE Holds(q)
  <2>1. q \in Slot /\ q < n
    BY <1>2, Depth DEF Slot
  <2> QED
    BY <2>1
<1>3. \A q \in p + 1 .. m : q \in 1..m
  BY <1>1
<1>4. ASSUME NEW q \in p + 1 .. m PROVE ~IsRuntime(q)'
  BY <1>1, <1>2, <1>3, HoldsFacts
<1>5. frame'[p].kind = "catch" /\ IsRuntime(p)'
  BY <1>1, <1>2, HoldsFacts DEF IsRuntime
<1> QED
  BY <1>1, <1>4, <1>5 DEF NearCatch, Nearest

\* So do the roots survive every outcome of a step.
LEMMA RootsStep ==
    ASSUME IInv, Links, Roots, ~CatchesNothing, NEW n, NEW m, NEW x, Outcome(n, m, x)
    PROVE  Roots'
<1>1. /\ n \in Int /\ \A j \in Slot : j < n => Holds(j)
      /\ \A k \in Slot : k >= n /\ IsRuntime(k)' => k = m
      /\ m \in Slot => /\ m >= n /\ frame'[m] = x /\ x.reg \in Nat /\ x.reg < n
                       /\ x.kind \in {"catch", "destroy"} => Settling(m, x)
  BY DEF Outcome, Leads
<1>2. ASSUME NEW k \in Slot, frame'[k].kind \in {"catch", "destroy"},
             frame'[k].tf.exception_object_or_link = Null
      PROVE  (\E p : NearCatch(frame[k].reg, p))'
  <2>1. k \in Int /\ IsRuntime(k)'
    BY <1>2, Depth DEF IsRuntime
  <2>2. PICK d, r : d = frame'[k] /\ r = d.reg
    OBVIOUS
  <2>3. SUFFICES ASSUME r \in Nat /\ r < n /\ r <= MaxDepth /\ \E p : NearCatch(r, p)
                 PROVE  \E p : NearCatch(r, p)'
    <3>1. CASE k < n
      <4>1. IsRuntime(k) /\ d = frame[k]
        BY <1>1, <2>1, <2>2, <3>1, HoldsFacts
      <4>2. r < k /\ r \in Nat
        BY <2>2, <4>1, RegBelow
      <4>3. \E p : NearCatch(r, p)
        BY <1>2, <2>2, <4>1 DEF Roots, RootShape
      <4>4. r < n /\ r <= MaxDepth
        BY <1>1, <2>1, <3>1, <4>2, Depth DEF Slot
      <4> QED
        BY <2>2, <2>3, <4>2, <4>3, <4>4 DEF NearCatch, Nearest
    <3>2. CASE ~(k < n)
      <4>1. k = m /\ m \in Slot /\ d = x
        BY <1>1, <2>1, <2>2, <3>2
      <4>2. Settling(m, x) /\ r \in Nat /\ r < n
        BY <1>1, <1>2, <2>2, <4>1
      <4>3. x.tf = frame[m].tf /\ r = frame[m].reg
        BY <2>2, <4>1, <4>2 DEF Settling
      <4>4. IsRuntime(m) /\ \E p : NearCatch(r, p)
        <5>1. CASE m = top /\ Dispatching("call")
          <6>1. frame[m].kind = "throw" /\ frame[m].pc = "call" /\ ThrowOf(frame[m], m)
            BY <4>1, <5>1, TopThrow, TopDispatch
          <6>2. frame[m].block # 0 /\ frame[m].tf.exception_object_or_link = Null
            BY <1>2, <2>2, <4>1, <4>3, <6>1 DEF ThrowOf
          <6>3. Referent[m] # 0 /\ IsRuntime(m)
            BY <4>1, <6>1, <6>2 DEF CatchesNothing, IsRuntime
          <6> QED
            BY <4>1, <4>3, <6>2, <6>3, ReferentOf DEF Null
        <5>2. CASE frame[m].kind = "catch"
          BY <1>2, <2>2, <4>1, <4>3, <5>2 DEF Roots, RootShape, IsRuntime
        <5> QED
          BY <4>2, <5>1, <5>2 DEF Settling
      <4>5. r < m
        BY <4>1, <4>3, <4>4, RegBelow
      <4>6. r <= MaxDepth
        BY <2>1, <4>1, <4>2, <4>5, Depth DEF Slot
      <4> QED
        BY <2>2, <2>3, <4>2, <4>4, <4>6 DEF NearCatch, Nearest
    <3> QED
      BY <3>1, <3>2
  <2> QED
    BY <1>1, <2>3, NearKept
<1>3. ASSUME NEW k \in Slot PROVE RootShape(k)'
  BY <1>2 DEF RootShape
<1> QED
  BY <1>3 DEF Roots

LEMMA InitRoots == Init => Roots
<1> SUFFICES ASSUME Init PROVE Roots
  OBVIOUS
<1>1. \A k \in Slot : frame[k].kind \notin {"catch", "destroy"}
  BY DEF Init, Free
<1> QED
  BY <1>1 DEF Roots, RootShape

\* Every handler has a root, as long as no handler is chosen for nothing.
LEMMA NextRoots == IInv /\ Links /\ Roots /\ ~CatchesNothing /\ [Next]_vars => Roots'
<1> SUFFICES ASSUME IInv, Links, Roots, ~CatchesNothing, [Next]_vars PROVE Roots'
  OBVIOUS
<1>1. PICK n, m, x : Outcome(n, m, x)
  BY NextOutcome
<1> QED
  BY <1>1, RootsStep

\* What a frame owns, it is about.
LEMMA OwnerReferent ==
    ASSUME IInv, Links, Owners, NEW k \in Slot, IsRuntime(k),
           NEW obj, obj = frame[k].tf.exception_object_or_link, obj.to = "object"
    PROVE  /\ Referent[k] \in Slot
           /\ exc[Referent[k]] = frame[k].tf.throw_info_if_owner
<1>1. Refers(frame[k].tf, frame[k].reg)
  BY DEF Links, LinkShape
<1>2. Owns(k)
  BY <1>1 DEF Refers, Owns
<1>3. PICK t \in Slot : OwnerOf(k, t)
  BY <1>2 DEF Owners
<1>4. obj = Object(t) /\ exc[t] = frame[k].tf.throw_info_if_owner
  BY <1>3 DEF OwnerOf
<1>5. obj.slot = t
  BY <1>4 DEF Object
<1>6. Referent[k] = obj.slot
  BY ReferentOf
<1> QED
  BY <1>4, <1>5, <1>6

\* Every handler is about some exception.
LEMMA Rooted ==
    ASSUME IInv, Links, Owners, Roots, NEW c \in Slot, frame[c].kind \in {"catch", "destroy"}
    PROVE  Referent[c] \in Slot
<1> DEFINE S == {k \in Slot : frame[k].kind \in {"catch", "destroy"} /\ Referent[k] \notin Slot}
<1> SUFFICES ASSUME S # {} PROVE FALSE
  OBVIOUS
<1>1. PICK k \in S : \A j \in S : k <= j
  <2>1. S \in SUBSET Nat
    BY Depth
  <2> HIDE DEF S
  <2> QED
    BY <2>1, Least
<1>2. k \in Slot /\ frame[k].kind \in {"catch", "destroy"} /\ Referent[k] \notin Slot /\ IsRuntime(k)
  BY <1>1 DEF IsRuntime
<1>3. ASSUME NEW p \in Slot, frame[p].kind = "catch", p < k PROVE Referent[p] \in Slot
  <2>1. p \in Nat /\ k \in Nat
    BY <1>2, Depth
  <2>2. p \notin S
    BY <1>1, <1>3, <2>1
  <2> QED
    BY <1>3, <2>2
<1> HIDE DEF S
<1>4. PICK obj, r : obj = frame[k].tf.exception_object_or_link /\ r = frame[k].reg
  OBVIOUS
<1>5. Refers(frame[k].tf, r) /\ r \in Nat /\ r < k /\ k \in Nat /\ k <= MaxDepth
  BY <1>2, <1>4, RegBelow, Depth DEF Links, LinkShape, Slot
<1>6. obj.to \in {"null", "object", "link"}
  <2>1. frame[k].tf \in ThrowFrame
    BY <1>2, RegBelow DEF RuntimeFrame
  <2> QED
    BY <1>4, <2>1 DEF ThrowFrame, ObjOrLink
<1>7. obj.to # "object"
  BY <1>2, <1>4, OwnerReferent
<1>8. CASE obj.to = "link"
  <2>1. PICK p : p = obj.slot
    OBVIOUS
  <2>2. p \in Slot /\ p <= r /\ frame[p].kind = "catch" /\ Referent[k] = Referent[p]
    BY <1>2, <1>4, <1>5, <1>8, <2>1, ReferentOf DEF Refers
  <2>3. p < k
    BY <1>5, <2>2, Depth
  <2> QED
    BY <1>2, <1>3, <2>2, <2>3
<1>9. CASE obj.to = "null"
  <2>1. obj = Null
    BY <1>4, <1>5, <1>9 DEF Refers
  <2>2. PICK p : NearCatch(r, p)
    BY <1>2, <1>4, <2>1 DEF Roots, RootShape
  <2>3. p \in 1..r /\ frame[p].kind = "catch" /\ Referent[k] = Referent[p]
    BY <1>2, <1>4, <1>9, <2>2, ReferentOf DEF NearCatch, Nearest
  <2>4. p \in Slot /\ p < k
    BY <1>5, <2>3, Depth DEF Slot
  <2> QED
    BY <1>2, <1>3, <2>3, <2>4
<1> QED
  BY <1>6, <1>7, <1>8, <1>9

\* The try blocks the loop over the table examines are those around the place
\* control is in.
LEMMA CandidatesEnclose ==
    ASSUME NoEarlierTry, HInv, Homes, Dispatching("search"), NEW r, r = T.reg
    PROVE  Candidates(r) = Enclosing(r)
<1>1. PICK n \in Slot : n = top
  BY DEF HInv, EInv, IInv, TypeOK
<1>2. IInv /\ frame[n].kind = "throw" /\ frame[n].pc = "search" /\ r = frame[n].reg
  BY <1>1, TopThrow DEF HInv, EInv, T
<1>3. r \in Slot /\ Catcher(r)
  BY <1>1, <1>2, Worked DEF HInv
<1>4. Fn(r) \in Fns
  BY <1>2, <1>3, UnderCatcher
<1>5. ASSUME NEW i \in Enclosing(r), NEW j \in 1..i
      PROVE  Block(Fn(r), j).try_low > UnwoundState(r)
  <2>1. PICK f, b : f = Fn(r) /\ b = Home(r)
    OBVIOUS
  <2>2. i \in Blocks(f) /\ HomeBlock(f, Block(f, i).try_low) = b
    BY <1>5, <2>1 DEF Enclosing
  <2>3. j \in Blocks(f)
    <3>1. Len(Eh[f].try_blocks) \in Nat
      BY <1>4, <2>1, EhAssumption
    <3> QED
      BY <1>5, <2>2, <3>1 DEF Blocks
  <2>4. PICK low : low = Block(f, j).try_low
    OBVIOUS
  <2>5. low \in Nat
    BY <1>4, <2>1, <2>3, <2>4, BlockFacts
  <2>6. CASE IsFunction(r)
    BY <2>1, <2>4, <2>5, <2>6 DEF UnwoundState
  <2>7. CASE frame[r].kind = "catch"
    <3>1. HandlingOf(frame[r], r) /\ f = frame[Primary(r)].fn /\ b = frame[r].block
      BY <1>2, <1>3, <2>1, <2>7, UnderCatcher DEF HandlingShape, Home, IsFunction, Fn
    <3>2. b \in Blocks(f) /\ UnwoundState(r) = Block(f, b).try_low - 1
      BY <2>7, <3>1, HandledBlock
    <3>3. low >= Block(f, b).try_low
      BY <1>4, <1>5, <2>1, <2>2, <2>4, <3>2 DEF NoEarlierTry
    <3>4. PICK u : u = Block(f, b).try_low
      OBVIOUS
    <3>5. u \in Nat /\ UnwoundState(r) = u - 1 /\ low >= u
      BY <1>4, <2>1, <3>2, <3>3, <3>4, BlockFacts
    <3> QED
      BY <2>1, <2>4, <2>5, <3>5
  <2> QED
    BY <1>3, <2>6, <2>7 DEF Catcher
<1>6. ASSUME NEW i \in Enclosing(r) PROVE i \in Candidates(r)
  BY <1>5, <1>6 DEF Enclosing, Candidates
<1>7. Candidates(r) \subseteq Enclosing(r)
  BY CandidateEncloses
<1> QED
  BY <1>6, <1>7

\* Of the try blocks examined the first is the innermost.
LEMMA FirstIsInner ==
    ASSUME IInv, NEW r \in Slot, Catcher(r), NEW i \in Candidates(r), NEW j \in Candidates(r),
           i <= j
    PROVE  Block(Fn(r), j).try_low <= Block(Fn(r), i).try_low
<1>1. PICK f, s : f = Fn(r) /\ s = State(r)
  OBVIOUS
<1>2. f \in Fns /\ s \in States(f)
  BY <1>1, UnderCatcher
<1>3. i \in Blocks(f) /\ j \in Blocks(f) /\ InTry(f, i, s) /\ InTry(f, j, s) /\ i \in Nat /\ j \in Nat
  BY <1>1, CandidateFacts
<1>4. CASE i < j
  BY <1>1, <1>2, <1>3, <1>4, InnerFirst
<1>5. CASE i = j
  BY <1>1, <1>2, <1>3, <1>5, BlockFacts
<1> QED
  BY <1>3, <1>4, <1>5

\* The throw info a dispatch finds is that of the exception it is about.
LEMMA FoundInfo ==
    ASSUME IInv, Links, Owners, NEW n \in Slot, IsRuntime(n),
           NEW info, info = GetThrowInfo(frame[n].tf), info # NoInfo
    PROVE  Referent[n] \in Slot /\ exc[Referent[n]] = info
<1>1. PICK obj : obj = frame[n].tf.exception_object_or_link
  OBVIOUS
<1>2. Refers(frame[n].tf, frame[n].reg)
  BY DEF Links, LinkShape
<1>3. CASE frame[n].tf.throw_info_if_owner # NoInfo
  <2>1. info = frame[n].tf.throw_info_if_owner /\ obj.to = "object"
    BY <1>1, <1>2, <1>3 DEF GetThrowInfo, Refers
  <2> QED
    BY <1>1, <2>1, OwnerReferent
<1>4. CASE frame[n].tf.throw_info_if_owner = NoInfo
  <2>1. obj.to = "link"
    BY <1>1, <1>4 DEF GetThrowInfo
  <2>2. PICK p : p = obj.slot
    OBVIOUS
  <2>3. info = frame[p].tf.throw_info_if_owner /\ p \in Slot /\ frame[p].kind = "catch"
    BY <1>1, <1>2, <1>4, <2>1, <2>2 DEF GetThrowInfo, Refers
  <2>4. IsRuntime(p) /\ Refers(frame[p].tf, frame[p].reg)
    BY <2>3 DEF Links, LinkShape, IsRuntime
  <2>5. frame[p].tf.exception_object_or_link.to = "object"
    BY <2>3, <2>4 DEF Refers
  <2>6. Referent[n] = Referent[p]
    BY <1>1, <2>1, <2>2, ReferentOf
  <2> QED
    BY <2>3, <2>4, <2>5, <2>6, OwnerReferent
<1> QED
  BY <1>3, <1>4

\* A frame that refers to nothing is about what the handler it is in is about.
LEMMA AboutANearCatch ==
    IInv /\ Links =>
        \A k \in Slot :
            /\ IsRuntime(k) /\ frame[k].tf.exception_object_or_link.to = "null"
            /\ Referent[k] # 0
            => \E p : NearCatch(frame[k].reg, p)
BY ReferentOf

\* A dispatch that has found no throw info, and takes a handler without one, is
\* about an exception all the same.
LEMMA TakenReferent ==
    ASSUME HInv, HInv', Links, Links', Owners, Roots, ~CatchesNothing', SelectHandler,
           NEW n \in Slot, n = top, GetThrowInfo(frame[n].tf) = NoInfo
    PROVE  Referent[n] \in Slot
<1>1. PICK d, r, obj : d = frame[n] /\ r = d.reg /\ obj = d.tf.exception_object_or_link
  OBVIOUS
<1>2. /\ IInv /\ IInv' /\ T = d /\ d \in RuntimeFrame /\ d.kind = "throw" /\ d.pc = "search"
      /\ IsRuntime(n) /\ frame \in [Slot -> Frame]
  BY <1>1, TopThrow DEF SelectHandler, HInv, EInv
<1>3. Refers(d.tf, r) /\ r \in Nat /\ r < n
  BY <1>1, <1>2, RegBelow DEF Links, LinkShape
<1>4. d.tf \in ThrowFrame /\ obj \in ObjOrLink
  BY <1>1, <1>2 DEF RuntimeFrame, ThrowFrame
<1>5. obj.to # "object"
  BY <1>1, <1>3 DEF Refers, GetThrowInfo
<1>6. CASE obj.to = "link"
  <2>1. PICK p : p = obj.slot
    OBVIOUS
  <2>2. p \in Slot /\ frame[p].kind = "catch"
    BY <1>1, <1>3, <1>6, <2>1 DEF Refers
  <2>3. Referent[n] = Referent[p]
    BY <1>1, <1>2, <1>6, <2>1, ReferentOf
  <2> QED
    BY <1>2, <2>2, <2>3, Rooted
<1>7. CASE obj.to = "null"
  <2>1. obj = Null
    BY <1>1, <1>3, <1>7 DEF Refers
  <2>2. PICK i, c :
        /\ i \in Blocks(Fn(r))
        /\ frame' = [frame EXCEPT ![n] =
                [d EXCEPT !.pc = "unwind", !.block = i, !.clause = c,
                          !.target = CatcherTarget(Fn(r), i),
                          !.tf.primary_frame_base = Primary(r),
                          !.tf.unwound_state = Block(Fn(r), i).try_low - 1]]
    <3>1. PICK i, c :
            /\ i \in Blocks(Fn(T.reg))
            /\ frame' = [frame EXCEPT ![top] =
                    [T EXCEPT !.pc = "unwind", !.block = i, !.clause = c,
                              !.target = CatcherTarget(Fn(T.reg), i),
                              !.tf.primary_frame_base = Primary(T.reg),
                              !.tf.unwound_state = Block(Fn(T.reg), i).try_low - 1]]
      BY DEF SelectHandler
    <3> QED
      BY <1>1, <1>2, <3>1
  <2>3. PICK x : x = frame'[n]
    OBVIOUS
  <2>4. /\ x.kind = "throw" /\ x.block = i /\ x.reg = r /\ x.tf.exception_object_or_link = obj
        /\ \A q \in Slot : q # n => frame'[q] = frame[q]
    BY <1>1, <1>2, <1>4, <2>2, <2>3 DEF RuntimeFrame, ThrowFrame
  <2>5. i # 0
    BY <2>2 DEF Blocks
  <2>6. Referent'[n] # 0
    BY <2>1, <2>3, <2>4, <2>5 DEF CatchesNothing, Null
  <2>7. IsRuntime(n)'
    BY <2>3, <2>4 DEF IsRuntime
  <2>8. (\E p : NearCatch(frame[n].reg, p))'
    <3>1. frame'[n].tf.exception_object_or_link = obj
      BY <2>3, <2>4
    <3>2. (IInv /\ Links =>
            \A k \in Slot :
                /\ IsRuntime(k) /\ frame[k].tf.exception_object_or_link.to = "null"
                /\ Referent[k] # 0
                => \E p : NearCatch(frame[k].reg, p))'
      BY AboutANearCatch, PTL
    <3> QED
      BY <1>2, <1>7, <2>6, <2>7, <3>1, <3>2
  <2>9. PICK p : NearCatch(r, p)'
    BY <2>3, <2>4, <2>8 DEF NearCatch, Nearest
  <2>10. p \in 1..r /\ frame'[p].kind = "catch" /\ \A q \in p + 1 .. r : ~IsRuntime(q)'
    BY <2>9 DEF NearCatch, Nearest
  <2>11. ASSUME NEW q \in 1..r PROVE q \in Slot /\ frame'[q] = frame[q]
    BY <1>3, <2>4, <2>11, Depth DEF Slot
  <2>12. frame[p].kind = "catch" /\ p \in Slot /\ IsRuntime(p)
    BY <2>10, <2>11 DEF IsRuntime
  <2>13. \A q \in p + 1 .. r : q \in 1..r
    BY <1>3, <2>10
  <2>14. \A q \in p + 1 .. r : ~IsRuntime(q)
    BY <2>10, <2>11, <2>13 DEF IsRuntime
  <2>15. NearCatch(r, p)
    BY <2>10, <2>12, <2>14 DEF NearCatch, Nearest
  <2>16. Referent[n] = Referent[p]
    BY <1>1, <1>2, <1>7, <2>15, ReferentOf
  <2> QED
    BY <1>2, <2>12, <2>16, Rooted
<1> QED
  BY <1>4, <1>5, <1>6, <1>7 DEF ObjOrLink

\* A search ends in a choice.
LEMMA OnlySelects ==
    ASSUME IInv, Next, Dispatching("search"), frame'[top].pc = "unwind"
    PROVE  SelectHandler \/ SelectNothing
<1>1. /\ T = frame[top] /\ T.kind = "throw" /\ T.pc = "search" /\ T \in RuntimeFrame /\ halted = "no"
      /\ frame \in [Slot -> Frame] /\ top \in Slot /\ ~IsUser(top) /\ top \in Nat
  BY TopThrow, Depth DEF Dispatching, IsUser
<1>2. ~(frame' = frame)
  BY <1>1
<1>3. ~Running /\ ~CallsOut
  BY <1>1 DEF Running, CallsOut
<1>4. ~UserCode
  BY <1>3 DEF UserCode, Call, Enter, Leave, Return, CatchReturn, Throw, Rethrow
<1>5. ~Halted /\ ~SearchFails /\ ~RejectTable /\ ~VisitForeign /\ ~NoexceptViolation
  BY <1>1, <1>2 DEF Halted, vars, SearchFails, RejectTable, VisitForeign, NoexceptViolation, Halt
<1>6. ~VisitFunction /\ ~VisitCatchFrame
  BY <1>1 DEF VisitFunction, VisitCatchFrame, Dispatching
<1>7. ~ProbeForObject
  <2>1. SUFFICES ASSUME ProbeForObject PROVE FALSE
    OBVIOUS
  <2>2. PICK p : frame' = [frame EXCEPT ![top].tf.exception_object_or_link = Link(p)]
    BY <2>1 DEF ProbeForObject
  <2>3. frame'[top].pc = T.pc
    BY <1>1, <2>2 DEF RuntimeFrame
  <2> QED
    BY <1>1, <2>3
<1>8. ~UnwindEdge /\ ~CleanupReturns /\ ~BindCatchVariable /\ ~CopyReturns /\ ~AbandonException
  BY <1>1 DEF UnwindEdge, CleanupReturns, BindCatchVariable, CopyReturns, AbandonException,
              NothingHere, Unwound, Dispatching
<1>9. ~PassFunction /\ ~TakeFromCatchFrame /\ ~PassCatchFrame /\ ~CallHandler
  BY <1>1 DEF PassFunction, TakeFromCatchFrame, PassCatchFrame, CallHandler, NothingHere,
     Unwound, Dispatching
<1>10. ~ContinueAfterException
  BY <1>1 DEF ContinueAfterException
<1> QED
  BY <1>4, <1>5, <1>6, <1>7, <1>8, <1>9, <1>10 DEF Next, Runtime

\* A search that does not look for the throw info has an ellipsis before it.
LEMMA FirstTakes ==
    ASSUME IInv, NEW r \in Slot, Catcher(r), ~NeedsThrowInfo(r), Candidates(r) # {}
    PROVE  \E i \in Candidates(r) : (\A j \in Candidates(r) : i <= j) /\ BlockTakes(Fn(r), i,
    NoInfo)
<1>1. Candidates(r) \in SUBSET Nat
  BY CandidateFacts
<1>2. PICK i \in Candidates(r) : \A j \in Candidates(r) : i <= j
  BY <1>1, Least
<1>3. i \in Blocks(Fn(r)) /\ Fn(r) \in Fns
  BY CandidateFacts, UnderCatcher
<1>4. "ellipsis" \in Block(Fn(r), i).handlers[1].adjectives
  BY <1>2, <1>3 DEF NeedsThrowInfo, IsFirst
<1>5. 1 \in DOMAIN Block(Fn(r), i).handlers
  <2>1. PICK hs : hs = Block(Fn(r), i).handlers
    OBVIOUS
  <2>2. hs \in Seq(CatchHandler) /\ hs # <<>>
    <3>1. Block(Fn(r), i) \in TryBlock
      BY <1>3, EhAssumption DEF Blocks, Block
    <3>2. Block(Fn(r), i).handlers # <<>>
      BY <1>3, WellFormedAssumption DEF WellFormed
    <3> QED
      BY <2>1, <3>1, <3>2 DEF TryBlock
  <2>3. Len(hs) \in Nat /\ Len(hs) # 0 /\ DOMAIN hs = 1..Len(hs)
    BY <2>2
  <2> QED
    BY <2>1, <2>3
<1>6. BlockTakes(Fn(r), i, NoInfo)
  BY <1>4, <1>5 DEF BlockTakes, Takes
<1> QED
  BY <1>2, <1>6

\* What takes anything takes the exception.
LEMMA EllipsisTakes ==
    ASSUME NEW f, NEW i, NEW info, BlockTakes(f, i, NoInfo)
    PROVE  BlockTakes(f, i, info)
BY DEF BlockTakes, Takes

\* The handler in block c of the code under registration r is the innermost that
\* takes the exception, or c is 0 and there is none.
IsInnermost(r, c) ==
    IF Accepting(r) = {} THEN c = 0
    ELSE /\ c \in Accepting(r)
         /\ \A i \in Accepting(r) : Block(Fn(r), i).try_low <= Block(Fn(r), c).try_low

\* The handler selected is the innermost that takes the exception ...
LEMMA SelectedIsInnermost ==
    ASSUME NoEarlierTry, HInv, HInv', Homes, Links, Links', Owners, Roots, ~CatchesNothing',
           SelectHandler
    PROVE  IsInnermost(T.reg, frame'[top].block)
<1>1. PICK n, d, r, f, info :
        n \in Slot /\ n = top /\ d = frame[n] /\ r = d.reg /\ f = Fn(r) /\ info = GetThrowInfo(d.tf)
  BY DEF HInv, EInv, IInv, TypeOK
<1>2. /\ IInv /\ T = d /\ d \in RuntimeFrame /\ d.kind = "throw" /\ d.pc = "search"
      /\ IsRuntime(n) /\ frame \in [Slot -> Frame] /\ Dispatching("search")
  BY <1>1, TopThrow DEF SelectHandler, HInv, EInv
<1>3. r \in Slot /\ Catcher(r)
  BY <1>1, <1>2, Worked DEF HInv
<1>4. PICK i, c :
        /\ i \in Blocks(Fn(T.reg)) /\ Selects(T.reg, GetThrowInfo(T.tf), i, c)
        /\ frame' = [frame EXCEPT ![top] =
                [T EXCEPT !.pc = "unwind", !.block = i, !.clause = c,
                          !.target = CatcherTarget(Fn(T.reg), i),
                          !.tf.primary_frame_base = Primary(T.reg),
                          !.tf.unwound_state = Block(Fn(T.reg), i).try_low - 1]]
  BY DEF SelectHandler
<1>5. frame'[n].block = i
  BY <1>1, <1>2, <1>4 DEF RuntimeFrame
<1>6. /\ i \in Candidates(r) /\ BlockTakes(f, i, info)
      /\ \A b \in Candidates(r) : BlockTakes(f, b, info) => i <= b
  BY <1>1, <1>2, <1>4 DEF Selects, IsFirst
<1>7. Candidates(r) = Enclosing(r)
  BY <1>1, <1>2, CandidatesEnclose
<1>8. ~LacksThrowInfo
  BY DEF SelectHandler
<1>9. PICK e : e = exc[Referent[n]]
  OBVIOUS
<1>10. /\ Referent[n] \in Slot
       /\ BlockTakes(f, i, e)
       /\ \A b \in Candidates(r) : BlockTakes(f, b, e) => i <= b
  <2>1. CASE info # NoInfo
    <3>1. Referent[n] \in Slot /\ e = info
      BY <1>1, <1>2, <1>9, <2>1, FoundInfo DEF HInv, EInv
    <3> QED
      BY <1>6, <3>1
  <2>2. CASE info = NoInfo
    <3>1. Referent[n] \in Slot
      BY <1>1, <2>2, TakenReferent
    <3>2. ~NeedsThrowInfo(r)
      BY <1>1, <1>2, <1>8, <2>2 DEF LacksThrowInfo
    <3>3. PICK j \in Candidates(r) : (\A b \in Candidates(r) : j <= b) /\ BlockTakes(f, j, NoInfo)
      BY <1>1, <1>2, <1>3, <1>6, <3>2, FirstTakes
    <3>4. i <= j
      BY <1>6, <2>2, <3>3
    <3>5. \A b \in Candidates(r) : i <= b
      <4>1. i \in Nat /\ j \in Nat /\ \A b \in Candidates(r) : b \in Nat
        BY <1>2, <1>3, <1>6, <3>3, CandidateFacts
      <4> QED
        BY <3>3, <3>4, <4>1
    <3> QED
      BY <1>6, <2>2, <3>1, <3>5, EllipsisTakes
  <2> QED
    BY <2>1, <2>2
<1>11. Referent[top] # 0 /\ Accepting(r) = {b \in Candidates(r) : BlockTakes(f, b, e)}
  <2>1. Referent[top] # 0
    BY <1>1, <1>10 DEF Slot
  <2> QED
    BY <1>1, <1>7, <1>9, <2>1 DEF Accepting
<1>12. i \in Accepting(r) /\ \A b \in Accepting(r) : b \in Candidates(r) /\ i <= b
  BY <1>6, <1>10, <1>11
<1>13. \A b \in Accepting(r) : Block(f, b).try_low <= Block(f, i).try_low
  BY <1>1, <1>2, <1>3, <1>6, <1>12, FirstIsInner
<1> QED
  BY <1>1, <1>2, <1>5, <1>12, <1>13 DEF IsInnermost

\* ... and where none is selected there is none.
LEMMA NothingIsInnermost ==
    ASSUME NoEarlierTry, HInv, Homes, Links, Owners, SelectNothing
    PROVE  IsInnermost(T.reg, frame'[top].block)
<1>1. PICK n, d, r, f, info :
        n \in Slot /\ n = top /\ d = frame[n] /\ r = d.reg /\ f = Fn(r) /\ info = GetThrowInfo(d.tf)
  BY DEF HInv, EInv, IInv, TypeOK
<1>2. /\ IInv /\ T = d /\ d \in RuntimeFrame /\ d.kind = "throw" /\ d.pc = "search"
      /\ IsRuntime(n) /\ frame \in [Slot -> Frame] /\ Dispatching("search")
  BY <1>1, TopThrow DEF SelectNothing, HInv, EInv
<1>3. r \in Slot /\ Catcher(r) /\ d.block = 0
  <2>1. ThrowOf(d, n)
    BY <1>1, <1>2, TopDispatch
  <2> QED
    BY <1>1, <1>2, <2>1, Worked DEF HInv, ThrowOf
<1>4. frame'[n].block = 0
  <2>1. frame' = [frame EXCEPT ![n] = [d EXCEPT !.pc = "unwind", !.target = UnwoundState(r)]]
    BY <1>1, <1>2 DEF SelectNothing
  <2> QED
    BY <1>1, <1>2, <1>3, <2>1 DEF RuntimeFrame
<1>5. ~LacksThrowInfo /\ \A i \in Candidates(r) : ~BlockTakes(f, i, info)
  BY <1>1, <1>2 DEF SelectNothing
<1>6. Candidates(r) = Enclosing(r)
  BY <1>1, <1>2, CandidatesEnclose
<1>7. Accepting(r) = {}
  <2>1. CASE info # NoInfo
    <3>1. exc[Referent[n]] = info
      BY <1>1, <1>2, <2>1, FoundInfo
    <3> QED
      BY <1>1, <1>5, <1>6, <3>1 DEF Accepting
  <2>2. CASE info = NoInfo
    <3>1. ~NeedsThrowInfo(r)
      BY <1>1, <1>2, <1>5, <2>2 DEF LacksThrowInfo
    <3>2. Candidates(r) = {}
      BY <1>1, <1>2, <1>3, <1>5, <2>2, <3>1, FirstTakes
    <3> QED
      BY <1>6, <3>2 DEF Accepting
  <2> QED
    BY <2>1, <2>2
<1> QED
  BY <1>1, <1>2, <1>4, <1>7 DEF IsInnermost

\* HandlerIsInnermost, of one step.
ChoosesInnermost ==
    Dispatching("search") /\ frame'[top].pc = "unwind"
        => LET chosen == frame'[top].block
               low(i) == Block(Fn(T.reg), i).try_low
           IN  IF Accepting(T.reg) = {} THEN chosen = 0
               ELSE chosen \in Accepting(T.reg)
                    /\ \A i \in Accepting(T.reg) : low(i) <= low(chosen)

\* Every step that ends a search chooses the innermost handler.
LEMMA NextChoosesInnermost ==
    ASSUME NoEarlierTry, HInv, HInv', Homes, Links, Links', Owners, Roots, ~CatchesNothing', Next
    PROVE  ChoosesInnermost
<1> SUFFICES ASSUME Dispatching("search"), frame'[top].pc = "unwind" PROVE ChoosesInnermost
  BY DEF ChoosesInnermost
<1>1. SelectHandler \/ SelectNothing
  BY OnlySelects DEF HInv, EInv
<1>2. IsInnermost(T.reg, frame'[top].block)
  BY <1>1, SelectedIsInnermost, NothingIsInnermost
<1> QED
  BY <1>2 DEF ChoosesInnermost, IsInnermost

\* The single loop over the function's table (throw_x86.cpp:175-264), cut short by
\* the state the registration has been unwound to, finds what the language means:
\* the innermost handler around the place control is in, in the body or in the
\* catch handler that is searched, for the type of the exception in flight,
\* however it was thrown, rethrown and passed on; and a registration is passed
\* only when there is none.  The tables have to keep a try statement inside a
\* handler ahead of those that begin before the handler's own, or the loop ends
\* before it (throw_x86.cpp:178); ownership is what OwnersAreUnique asks for; and
\* no `throw;` that has no exception may meet a handler for anything.
THEOREM InnermostHandlerRuns ==
    ASSUME NoEarlierTry
    PROVE  Spec /\ []OwnershipRespected /\ []~CatchesNothing => HandlerIsInnermost
<1>1. Init => HInv /\ Homes /\ Links /\ Owners /\ Roots
  BY InitIInv, InitExact, InitHandlers, InitHomes, InitLinks, InitOwners, InitRoots DEF HInv, EInv
<1>2. HInv /\ Homes /\ Links /\ Owners /\ Roots /\ OwnershipRespected /\ ~CatchesNothing /\ [Next]_vars
        => (HInv /\ Homes /\ Links /\ Owners /\ Roots)'
  BY NextIInv, NextExact, NextHandlers, NextHomes, NextLinks, NextOwners, NextRoots DEF HInv, EInv
<1>3. /\ HInv /\ Homes /\ Links /\ Owners /\ Roots /\ (HInv /\ Links)' /\ ~CatchesNothing' /\ [Next]_vars
      => [ChoosesInnermost]_vars
  BY NextChoosesInnermost
<1>4. [][ChoosesInnermost]_vars => HandlerIsInnermost
  BY PTL DEF HandlerIsInnermost, ChoosesInnermost
<1> QED
  BY <1>1, <1>2, <1>3, <1>4, PTL DEF Spec

----------------------------------------------------------------------------
(* What the frames are about is alive.                                     *)

\* What a frame is about is alive: it owns that, or another frame does.
LEMMA ReferentLive ==
    ASSUME IInv, Links, Owners, NEW k \in Slot, IsRuntime(k)
    PROVE  Referent[k] = 0 \/ (Referent[k] \in Slot /\ exc[Referent[k]] # NoInfo)
<1> DEFINE Lives(j) == Referent[j] = 0 \/ (Referent[j] \in Slot /\ exc[Referent[j]] # NoInfo)
           S == {j \in Slot : IsRuntime(j) /\ ~Lives(j)}
<1> SUFFICES ASSUME S # {} PROVE FALSE
  OBVIOUS
<1>1. PICK j \in S : \A i \in S : j <= i
  <2>1. S \in SUBSET Nat
    BY Depth
  <2> HIDE DEF S
  <2> QED
    BY <2>1, Least
<1>2. j \in Slot /\ IsRuntime(j) /\ ~Lives(j)
  BY <1>1
<1>3. ASSUME NEW p \in Slot, frame[p].kind = "catch", p < j PROVE Lives(p)
  <2>1. p \in Nat /\ j \in Nat
    BY <1>2, Depth
  <2>2. p \notin S
    BY <1>1, <1>3, <2>1
  <2> QED
    BY <1>3, <2>2 DEF IsRuntime
<1> HIDE DEF S
<1>4. PICK obj, r : obj = frame[j].tf.exception_object_or_link /\ r = frame[j].reg
  OBVIOUS
<1>5. Refers(frame[j].tf, r) /\ r \in Nat /\ r < j /\ j \in Nat /\ j <= MaxDepth
  BY <1>2, <1>4, RegBelow, Depth DEF Links, LinkShape, Slot
<1>6. obj.to \in {"null", "object", "link"}
  <2>1. frame[j].tf \in ThrowFrame
    BY <1>2, RegBelow DEF RuntimeFrame
  <2> QED
    BY <1>4, <2>1 DEF ThrowFrame, ObjOrLink
<1>7. CASE obj.to = "object"
  <2>1. frame[j].tf.throw_info_if_owner # NoInfo
    BY <1>4, <1>5, <1>7 DEF Refers
  <2>2. Referent[j] \in Slot /\ exc[Referent[j]] = frame[j].tf.throw_info_if_owner
    BY <1>2, <1>4, <1>7, OwnerReferent
  <2> QED
    BY <1>2, <2>1, <2>2
<1>8. CASE obj.to = "link"
  <2>1. PICK p : p = obj.slot
    OBVIOUS
  <2>2. p \in Slot /\ p <= r /\ frame[p].kind = "catch" /\ Referent[j] = Referent[p]
    BY <1>2, <1>4, <1>5, <1>8, <2>1, ReferentOf DEF Refers
  <2>3. p < j
    BY <1>5, <2>2, Depth
  <2> QED
    BY <1>2, <1>3, <2>2, <2>3
<1>9. CASE obj.to = "null"
  <2>1. PICK p : NearCatch(r, p)
    BY <1>2, <1>4, <1>9, ReferentOf
  <2>2. p \in 1..r /\ frame[p].kind = "catch" /\ Referent[j] = Referent[p]
    BY <1>2, <1>4, <1>9, <2>1, ReferentOf DEF NearCatch, Nearest
  <2>3. p \in Slot /\ p < j
    BY <1>5, <2>2, Depth DEF Slot
  <2> QED
    BY <1>2, <1>3, <2>2, <2>3
<1> QED
  BY <1>6, <1>7, <1>8, <1>9

\* The exceptions and what refers to them stay as they should be.
LEMMA ReferencesHold ==
    Spec /\ []OwnershipRespected => [](IInv /\ Links /\ Owners)
<1>1. Init => IInv /\ Links /\ Owners
  BY InitIInv, InitLinks, InitOwners
<1>2. IInv /\ Links /\ Owners /\ OwnershipRespected /\ [Next]_vars => (IInv /\ Links /\ Owners)'
  BY NextIInv, NextLinks, NextOwners
<1> QED
  BY <1>1, <1>2, PTL DEF Spec

\* No runtime frame is about an exception that has been destroyed: what a throw
\* frame holds, or is linked to, is there until the frame that owns it destroys
\* it (throw_x86.cpp:329-356, fh3_x86.asm:39-40).  The two steps excluded are the
\* ones by which an exception comes to have two owners: it is then destroyed by
\* the first of them while the other still refers to it.
THEOREM ReferencesAreLive == Spec /\ []OwnershipRespected => []UsesLiveException
<1>1. IInv /\ Links /\ Owners => UsesLiveException
  BY ReferentLive DEF UsesLiveException
<1> QED
  BY <1>1, ReferencesHold, PTL

----------------------------------------------------------------------------
(***************************************************************************)
(* The runtime implements ExceptionLifetime.                               *)
(***************************************************************************)
\* What holds of 0 and goes up step by step holds up to n.
LEMMA Ascend ==
    ASSUME NEW n \in Nat, NEW G, 0 \in G, \A k \in 1..n : k - 1 \in G => k \in G
    PROVE  0..n \subseteq G
<1> DEFINE missing == {k \in 0..n : k \notin G}
<1>1. missing = {}
  <2> SUFFICES ASSUME missing # {} PROVE FALSE
    OBVIOUS
  <2>1. missing \in SUBSET Nat
    OBVIOUS
  <2>2. PICK k \in missing : \A i \in missing : k <= i
    <3> HIDE DEF missing
    <3> QED
      BY <2>1, Least
  <2>3. k \in 0..n /\ k # 0 /\ k - 1 \notin G
    BY <2>2
  <2>4. k - 1 \in missing /\ ~(k <= k - 1)
    BY <2>3
  <2> HIDE DEF missing
  <2> QED
    BY <2>2, <2>4
<1> QED
  BY <1>1

\* A slot without a runtime frame.
Idle == [role |-> "idle", about |-> 0]

\* a[k] is the sequence of those of c[1], ..., c[k] that are not idle.
Builds(a, c) ==
    /\ a[0] = <<>>
    /\ \A k \in Slot : a[k] = IF c[k] = Idle THEN a[k - 1] ELSE Append(a[k - 1], c[k])

SlotActivity == Lifetime!Activity \cup {Idle}

LEMMA SlotIs == MaxDepth \in Nat /\ \A k : k \in Slot <=> k \in 1..MaxDepth
BY ProgramAssumption DEF Slot

LEMMA ActivityType ==
    /\ Idle \notin Lifetime!Activity
    /\ Lifetime!Activity = [role : {"flying", "handling", "leaving"}, about : 0..MaxDepth]
<1>1. Slot \cup {0} = 0..MaxDepth
  BY SlotIs
<1>2. Lifetime!Activity = [role : {"flying", "handling", "leaving"}, about : 0..MaxDepth]
  BY <1>1 DEF Lifetime!Activity
<1>3. Idle.role = "idle"
  BY DEF Idle
<1> QED
  BY <1>2, <1>3

\* What is built up to slot n depends on the slots up to n only.
LEMMA BuiltSame ==
    ASSUME NEW a, NEW b, NEW c, NEW d, Builds(a, c), Builds(b, d), NEW n \in 0..MaxDepth,
           \A j \in Slot : j <= n => c[j] = d[j]
    PROVE  a[n] = b[n]
<1> DEFINE G == {k \in Nat : a[k] = b[k]}
<1>1. 0 \in G
  BY DEF Builds
<1>2. ASSUME NEW k \in 1..n, k - 1 \in G PROVE k \in G
  BY <1>2, SlotIs DEF Builds
<1>3. n \in Nat
  BY SlotIs
<1>4. 0..n \subseteq G
  <2> HIDE DEF G
  <2> QED
    BY <1>1, <1>2, <1>3, Ascend
<1> QED
  BY <1>3, <1>4

\* Idle slots add nothing.
LEMMA BuiltSkips ==
    ASSUME NEW a, NEW c, Builds(a, c), NEW n \in 0..MaxDepth, NEW m \in 0..n,
           \A j \in Slot : m < j /\ j <= n => c[j] = Idle
    PROVE  a[n] = a[m]
<1> DEFINE G == {k \in Nat : k >= m => a[k] = a[m]}
<1>0. n \in Nat /\ m \in Nat
  BY SlotIs
<1>1. 0 \in G
  BY <1>0
<1>2. ASSUME NEW k \in 1..n, k - 1 \in G PROVE k \in G
  <2>1. k \in Slot /\ k \in Nat /\ k <= n
    BY SlotIs
  <2>2. CASE k <= m
    BY <1>0, <2>1, <2>2
  <2>3. CASE k > m
    <3>1. a[k] = a[k - 1]
      BY <2>1, <2>3 DEF Builds
    <3>2. k - 1 >= m
      BY <1>0, <2>1, <2>3
    <3> QED
      BY <1>2, <2>1, <3>1, <3>2
  <2> QED
    BY <1>0, <2>1, <2>2, <2>3
<1>3. 0..n \subseteq G
  <2> HIDE DEF G
  <2> QED
    BY <1>0, <1>1, <1>2, Ascend
<1> QED
  BY <1>0, <1>3

\* The newest activity is the last.
LEMMA BuiltLast ==
    ASSUME NEW a, NEW c, Builds(a, c), NEW p \in Slot, c[p] # Idle,
           \A j \in Slot : j > p => c[j] = Idle
    PROVE  a[MaxDepth] = Append(a[p - 1], c[p])
<1>1. MaxDepth \in 0..MaxDepth /\ p \in 0..MaxDepth
  BY SlotIs
<1>2. a[MaxDepth] = a[p]
  BY <1>1, BuiltSkips
<1> QED
  BY <1>2 DEF Builds

\* What the activities of the slots up to n are about.
BusyAbout(c, n) == {c[j].about : j \in {i \in Slot : i <= n /\ c[i] # Idle}}

LEMMA BuiltType ==
    ASSUME NEW a, NEW c, Builds(a, c), \A j \in Slot : c[j] \in SlotActivity, NEW n \in 0..MaxDepth
    PROVE  /\ a[n] \in Seq(Lifetime!Activity)
           /\ Lifetime!Referred(a[n]) = BusyAbout(c, n)
<1> DEFINE G == {k \in Nat : a[k] \in Seq(Lifetime!Activity) /\ Lifetime!Referred(a[k]) = BusyAbout(c, k)}
<1>0. n \in Nat
  BY SlotIs
<1>1. 0 \in G
  <2>1. a[0] = <<>>
    BY DEF Builds
  <2>2. {i \in Slot : i <= 0 /\ c[i] # Idle} = {}
    BY SlotIs
  <2>3. BusyAbout(c, 0) = {}
    BY <2>2 DEF BusyAbout
  <2>4. Lifetime!Referred(a[0]) = {}
    BY <2>1 DEF Lifetime!Referred
  <2>5. a[0] \in Seq(Lifetime!Activity)
    BY <2>1
  <2> QED
    BY <2>3, <2>4, <2>5
<1>2. ASSUME NEW k \in 1..n, k - 1 \in G PROVE k \in G
  <2>1. k \in Slot /\ k \in Nat
    BY SlotIs
  <2>2. PICK s : s = a[k - 1] /\ s \in Seq(Lifetime!Activity) /\ Lifetime!Referred(s) = BusyAbout(c, k - 1)
    BY <1>2
  <2>3. \A i \in Slot : i <= k <=> i <= k - 1 \/ i = k
    BY <2>1, SlotIs
  <2>4. CASE c[k] = Idle
    <3>1. a[k] = s
      BY <2>1, <2>2, <2>4 DEF Builds
    <3>2. BusyAbout(c, k) = BusyAbout(c, k - 1)
      BY <2>3, <2>4 DEF BusyAbout
    <3> QED
      BY <2>1, <2>2, <3>1, <3>2
  <2>5. CASE c[k] # Idle
    <3>1. PICK e : e = c[k] /\ e \in Lifetime!Activity
      BY <2>1, <2>5 DEF SlotActivity
    <3>2. a[k] = Append(s, e)
      BY <2>1, <2>2, <2>5, <3>1 DEF Builds
    <3>3. BusyAbout(c, k) = BusyAbout(c, k - 1) \cup {e.about}
      BY <2>1, <2>3, <2>5, <3>1 DEF BusyAbout
    <3>4. Append(s, e) \in Seq(Lifetime!Activity)
      BY <2>2, <3>1
    <3>5. Lifetime!Referred(Append(s, e)) = Lifetime!Referred(s) \cup {e.about}
      <4> HIDE DEF G
      <4>1. Len(Append(s, e)) = Len(s) + 1 /\ Len(s) \in Nat
        BY <2>2, <3>1
      <4>2. \A i \in 1..Len(s) : Append(s, e)[i] = s[i]
        BY <2>2, <3>1
      <4>3. Append(s, e)[Len(s) + 1] = e
        BY <2>2, <3>1
      <4>4. \A i : i \in 1..Len(s) + 1 <=> i \in 1..Len(s) \/ i = Len(s) + 1
        BY <4>1
      <4> QED
        BY <4>1, <4>2, <4>3, <4>4 DEF Lifetime!Referred
    <3> QED
      BY <2>1, <2>2, <3>2, <3>3, <3>4, <3>5
  <2> QED
    BY <2>4, <2>5
<1>3. 0..n \subseteq G
  <2> HIDE DEF G
  <2> QED
    BY <1>0, <1>1, <1>2, Ascend
<1> QED
  BY <1>0, <1>3

\* From a to b, slot n becomes busy, above all others.
Adds(a, b, c, d, n) ==
    /\ Builds(a, c) /\ Builds(b, d) /\ n \in Slot /\ d[n] # Idle
    /\ \A j \in Slot : j < n => d[j] = c[j]
    /\ \A j \in Slot : j >= n => c[j] = Idle
    /\ \A j \in Slot : j > n => d[j] = Idle

\* The newest activity is a new one.
LEMMA BuiltPush ==
    ASSUME NEW a, NEW b, NEW c, NEW d, NEW n, Adds(a, b, c, d, n)
    PROVE  b[MaxDepth] = Append(a[MaxDepth], d[n])
<1> USE DEF Adds
<1>1. /\ n - 1 \in 0..MaxDepth /\ MaxDepth \in 0..MaxDepth /\ n - 1 \in 0..MaxDepth
      /\ \A j \in Slot : (j <= n - 1 => j < n) /\ (n - 1 < j => j >= n)
  BY SlotIs
<1>2. b[MaxDepth] = Append(b[n - 1], d[n])
  BY BuiltLast
<1>3. b[n - 1] = a[n - 1]
  BY <1>1, BuiltSame
<1>4. a[MaxDepth] = a[n - 1]
  BY <1>1, BuiltSkips
<1> QED
  BY <1>2, <1>3, <1>4

\* From a to b, only slot p, the last busy one, changes.
Changes(a, b, c, d, p) ==
    /\ Builds(a, c) /\ Builds(b, d) /\ p \in Slot /\ c[p] # Idle
    /\ \A j \in Slot : c[j] \in SlotActivity
    /\ \A j \in Slot : j < p => d[j] = c[j]
    /\ \A j \in Slot : j > p => c[j] = Idle /\ d[j] = Idle

\* The newest activity changes, or ends.
LEMMA BuiltChange ==
    ASSUME NEW a, NEW b, NEW c, NEW d, NEW p, Changes(a, b, c, d, p)
    PROVE  \E s \in Seq(Lifetime!Activity) :
                /\ a[MaxDepth] = Append(s, c[p])
                /\ b[MaxDepth] = IF d[p] = Idle THEN s ELSE Append(s, d[p])
<1> USE DEF Changes
<1>1. /\ p - 1 \in 0..MaxDepth /\ MaxDepth \in 0..MaxDepth
      /\ \A j \in Slot : (j <= p - 1 => j < p) /\ (p - 1 < j => j = p \/ j > p)
  BY SlotIs
<1>2. PICK s : s = a[p - 1] /\ s \in Seq(Lifetime!Activity)
  BY <1>1, BuiltType
<1>3. a[MaxDepth] = Append(s, c[p])
  BY <1>2, BuiltLast
<1>4. b[p - 1] = s
  BY <1>1, <1>2, BuiltSame
<1>5. CASE d[p] = Idle
  <2>1. \A j \in Slot : p - 1 < j /\ j <= MaxDepth => d[j] = Idle
    BY <1>1, <1>5
  <2>2. b[MaxDepth] = s
    BY <1>1, <1>4, <2>1, BuiltSkips
  <2> QED
    BY <1>2, <1>3, <1>5, <2>2
<1>6. CASE d[p] # Idle
  <2>1. b[MaxDepth] = Append(s, d[p])
    BY <1>4, <1>6, BuiltLast
  <2> QED
    BY <1>2, <1>3, <1>6, <2>1
<1> QED
  BY <1>5, <1>6

\* From a to b, slot m, the last busy one but for slot p, becomes idle.
Drops(a, b, c, d, m, p) ==
    /\ Builds(a, c) /\ Builds(b, d) /\ m \in Slot /\ p \in Slot /\ m < p
    /\ c[m] # Idle /\ c[p] # Idle /\ d[m] = Idle /\ d[p] = c[p]
    /\ \A j \in Slot : c[j] \in SlotActivity
    /\ \A j \in Slot : j < m => d[j] = c[j]
    /\ \A j \in Slot : j > m /\ j # p => c[j] = Idle /\ d[j] = Idle

\* The newest activity stays, the one before it ends.
LEMMA BuiltAbandon ==
    ASSUME NEW a, NEW b, NEW c, NEW d, NEW m, NEW p, Drops(a, b, c, d, m, p)
    PROVE  \E s \in Seq(Lifetime!Activity) :
                /\ a[MaxDepth] = Append(Append(s, c[m]), c[p])
                /\ b[MaxDepth] = Append(s, c[p])
<1> USE DEF Drops
<1>1. /\ p - 1 \in 0..MaxDepth /\ m - 1 \in 0..MaxDepth /\ m \in 0..p - 1 /\ m - 1 \in 0..p - 1
      /\ \A j \in Slot : (j <= m - 1 => j < m) /\ (j > p => j > m /\ j # p)
      /\ \A j \in Slot : (m < j /\ j <= p - 1 => j > m /\ j # p)
      /\ \A j \in Slot : (m - 1 < j /\ j <= p - 1 => j = m \/ (j > m /\ j # p))
  BY SlotIs
<1>2. PICK s : s = a[m - 1] /\ s \in Seq(Lifetime!Activity)
  BY <1>1, BuiltType
<1>3. a[MaxDepth] = Append(a[p - 1], c[p]) /\ b[MaxDepth] = Append(b[p - 1], c[p])
  <2>1. \A j \in Slot : j > p => c[j] = Idle /\ d[j] = Idle
    BY <1>1
  <2>2. d[p] # Idle
    OBVIOUS
  <2>3. b[MaxDepth] = Append(b[p - 1], d[p])
    BY <2>1, <2>2, BuiltLast
  <2> QED
    BY <2>1, <2>3, BuiltLast
<1>4. a[p - 1] = a[m]
  BY <1>1, BuiltSkips
<1>5. a[m] = Append(s, c[m])
  BY <1>2 DEF Builds
<1>6. b[p - 1] = b[m - 1]
  <2>1. \A j \in Slot : m - 1 < j /\ j <= p - 1 => d[j] = Idle
    BY <1>1
  <2> QED
    BY <1>1, <2>1, BuiltSkips
<1>7. b[m - 1] = s
  BY <1>1, <1>2, BuiltSame
<1> QED
  BY <1>2, <1>3, <1>4, <1>5, <1>6, <1>7

LEMMA SeqLast ==
    ASSUME NEW S, NEW s \in Seq(S), NEW e \in S
    PROVE  /\ Append(s, e) \in Seq(S) /\ Append(s, e) # <<>>
           /\ Len(s) \in Nat /\ Len(Append(s, e)) = Len(s) + 1 /\ Append(s, e)[Len(s) + 1] = e
           /\ SubSeq(Append(s, e), 1, Len(s)) = s
           /\ \A i \in 1..Len(s) : Append(s, e)[i] = s[i]
<1>1. /\ Append(s, e) \in Seq(S) /\ Len(s) \in Nat /\ Len(Append(s, e)) = Len(s) + 1
      /\ Append(s, e)[Len(s) + 1] = e
      /\ \A i \in 1..Len(s) : Append(s, e)[i] = s[i]
  OBVIOUS
<1>2. Append(s, e) # <<>>
  BY <1>1
<1>3. SubSeq(Append(s, e), 1, Len(s)) = s
  OBVIOUS
<1> QED
  BY <1>1, <1>2, <1>3

Acts == [k \in Slot |-> IF IsRuntime(k) THEN ActivityOf(k) ELSE Idle]

LEMMA RoleOf ==
    ASSUME NEW k, IsRuntime(k)
    PROVE  /\ ActivityOf(k).role \in {"flying", "handling", "leaving"}
           /\ frame[k].kind = "throw" => ActivityOf(k).role = "flying"
           /\ frame[k].kind = "catch" => ActivityOf(k).role = "handling"
           /\ frame[k].kind = "destroy" => ActivityOf(k).role = "leaving"
           /\ ActivityOf(k) = [role |-> ActivityOf(k).role, about |-> Referent[k]]
           /\ ActivityOf(k) # Idle
<1>1. PICK w : w = frame[k].kind /\ w \in {"throw", "catch", "destroy"}
  BY DEF IsRuntime
<1>2. PICK r : r = [throw |-> "flying", catch |-> "handling", destroy |-> "leaving"][w]
  OBVIOUS
<1>3. /\ r \in {"flying", "handling", "leaving"}
      /\ w = "throw" => r = "flying"
      /\ w = "catch" => r = "handling"
      /\ w = "destroy" => r = "leaving"
  BY <1>1, <1>2
<1>4. ActivityOf(k) = [role |-> r, about |-> Referent[k]]
  BY <1>1, <1>2 DEF ActivityOf
<1> QED
  BY <1>1, <1>3, <1>4 DEF Idle

\* The recursion over the slots is well-founded.
LEMMA ActivitiesBuilt == Builds(ActivitiesUpTo, Acts)
<1> DEFINE Next1(r, k) == IF Acts[k] = Idle THEN r[k - 1] ELSE Append(r[k - 1], Acts[k])
           Solves(r, n) == r[0] = <<>> /\ \A j \in 1..n : r[j] = Next1(r, j)
           G == {n \in Nat : \E r : Solves(r, n)}
<1>0. MaxDepth \in Nat /\ \A k : k \in Slot <=> k \in 1..MaxDepth
  BY SlotIs
<1>1. 0 \in G
  <2>1. Solves([j \in {0} |-> <<>>], 0)
    OBVIOUS
  <2> QED
    BY <2>1
<1>2. ASSUME NEW n \in 1..MaxDepth, n - 1 \in G PROVE n \in G
  <2>1. PICK r : Solves(r, n - 1)
    BY <1>2
  <2> DEFINE s == [j \in 0..n |-> IF j = n THEN Next1(r, n) ELSE r[j]]
  <2>2. \A j \in 0..n - 1 : s[j] = r[j]
    OBVIOUS
  <2>3. s[n] = Next1(r, n)
    OBVIOUS
  <2> HIDE DEF s
  <2>4. ASSUME NEW j \in 1..n PROVE s[j] = Next1(s, j)
    <3>1. j - 1 \in 0..n - 1 /\ s[j - 1] = r[j - 1]
      BY <2>2
    <3>2. CASE j = n
      BY <2>3, <3>1, <3>2
    <3>3. CASE j # n
      <4>1. j \in 1..n - 1 /\ j \in 0..n - 1
        BY <3>3
      <4> QED
        BY <2>1, <2>2, <3>1, <4>1
    <3> QED
      BY <3>2, <3>3
  <2>5. s[0] = <<>>
    BY <2>1, <2>2
  <2> QED
    BY <2>4, <2>5
<1>3. 0..MaxDepth \subseteq G
  <2> HIDE DEF G
  <2> QED
    BY <1>0, <1>1, <1>2, Ascend
<1>4. PICK r : Solves(r, MaxDepth)
  BY <1>0, <1>3
<1> DEFINE s == [j \in 0..MaxDepth |-> r[j]]
<1>5. \A j \in 0..MaxDepth : s[j] = r[j]
  OBVIOUS
<1> HIDE DEF s
<1>6. s[0] = <<>> /\ \A j \in 1..MaxDepth : s[j] = Next1(s, j)
  <2>1. \A j \in 1..MaxDepth : j - 1 \in 0..MaxDepth /\ j \in 0..MaxDepth /\ 0 \in 0..MaxDepth
    BY <1>0
  <2> QED
    BY <1>0, <1>4, <1>5, <2>1
<1>7. \A j \in Slot : Acts[j] = IF IsRuntime(j) THEN ActivityOf(j) ELSE Idle
  BY DEF Acts
<1>8. \A j \in Slot : Acts[j] = Idle <=> ~IsRuntime(j)
  BY <1>7, RoleOf
<1> DEFINE Rec(g, k) == IF k = 0 THEN <<>>
                        ELSE IF IsRuntime(k) THEN Append(g[k - 1], ActivityOf(k))
                        ELSE g[k - 1]
<1>9. \A j \in 0..MaxDepth : s[j] = Rec(s, j)
  <2>1. \A j \in 0..MaxDepth : j = 0 \/ j \in 1..MaxDepth
    BY <1>0
  <2> QED
    BY <1>0, <1>6, <1>7, <1>8, <2>1
<1>10. s = [j \in 0..MaxDepth |-> Rec(s, j)]
  BY <1>9 DEF s
<1>11. ActivitiesUpTo = [j \in 0..MaxDepth |-> Rec(ActivitiesUpTo, j)]
  BY <1>10 DEF ActivitiesUpTo
<1>12. \A j \in Slot : j \in 0..MaxDepth /\ j # 0 /\ 0 \in 0..MaxDepth
  BY <1>0
<1>13. ActivitiesUpTo[0] = <<>>
  BY <1>0, <1>11
<1>14. ASSUME NEW j \in Slot
       PROVE  ActivitiesUpTo[j] = IF Acts[j] = Idle THEN ActivitiesUpTo[j - 1]
                                  ELSE Append(ActivitiesUpTo[j - 1], Acts[j])
  <2>1. ActivitiesUpTo[j] = Rec(ActivitiesUpTo, j)
    BY <1>11, <1>12
  <2> QED
    BY <1>7, <1>8, <1>12, <2>1
<1> QED
  BY <1>13, <1>14 DEF Builds
\* What is activity in the states of the stack.
Role(kind) == IF kind = "throw" THEN "flying" ELSE IF kind = "catch" THEN "handling" ELSE "leaving"

Activity(kind, t) == [role |-> Role(kind), about |-> t]

\* The exceptions that are alive.
Alive == {t \in Slot : exc[t] # NoInfo}

LEMMA ActsType ==
    ASSUME IInv, Links, Owners, NEW k \in Slot
    PROVE  /\ Acts[k] \in SlotActivity
           /\ Acts[k] = Idle <=> ~IsRuntime(k)
           /\ IsRuntime(k) => Acts[k] = ActivityOf(k) /\ Acts[k].about = Referent[k]
<1>1. Acts[k] = IF IsRuntime(k) THEN ActivityOf(k) ELSE Idle
  BY DEF Acts
<1>2. CASE IsRuntime(k)
  <2>1. PICK e, r, t : e = ActivityOf(k) /\ r = e.role /\ t = Referent[k]
    OBVIOUS
  <2>2. e = [role |-> r, about |-> t] /\ r \in {"flying", "handling", "leaving"} /\ e # Idle
    BY <1>2, <2>1, RoleOf
  <2>3. t \in 0..MaxDepth
    BY <1>2, <2>1, ReferentLive, SlotIs
  <2>4. e \in Lifetime!Activity
    BY <2>2, <2>3, ActivityType
  <2> QED
    BY <1>1, <1>2, <2>1, <2>2, <2>4 DEF SlotActivity
<1>3. CASE ~IsRuntime(k)
  BY <1>1, <1>3 DEF SlotActivity
<1> QED
  BY <1>2, <1>3

LEMMA AliveIsReferred == IInv /\ Links /\ Owners => Lifetime!AliveIffReferred
<1> SUFFICES ASSUME IInv, Links, Owners PROVE Alive = Lifetime!Referred(Activities) \ {0}
  BY DEF Lifetime!AliveIffReferred, Alive
<1>1. MaxDepth \in 0..MaxDepth /\ \A k \in Slot : k <= MaxDepth
  BY SlotIs
<1>2. Lifetime!Referred(Activities) = BusyAbout(Acts, MaxDepth)
  <2>1. PICK a, c : a = ActivitiesUpTo /\ c = Acts
    OBVIOUS
  <2>2. Builds(a, c) /\ \A j \in Slot : c[j] \in SlotActivity
    BY <2>1, ActivitiesBuilt, ActsType
  <2> QED
    BY <1>1, <2>1, <2>2, BuiltType DEF Activities
<1>3. \A t : t \in BusyAbout(Acts, MaxDepth) <=> \E k \in Slot : IsRuntime(k) /\ t = Referent[k]
  BY <1>1, ActsType DEF BusyAbout
<1>4. ASSUME NEW t \in Alive PROVE t # 0 /\ \E k \in Slot : IsRuntime(k) /\ t = Referent[k]
  <2>1. t \in Slot /\ exc[t] # NoInfo
    BY <1>4 DEF Alive
  <2>2. PICK k \in Slot : OwnerOf(k, t)
    BY <2>1 DEF Owners
  <2>3. PICK obj : obj = frame[k].tf.exception_object_or_link /\ obj = Object(t) /\ IsRuntime(k)
    BY <2>2 DEF OwnerOf, Owns
  <2>4. obj.to = "object" /\ obj.slot = t
    BY <2>3 DEF Object
  <2>5. Referent[k] = t
    BY <2>3, <2>4, ReferentOf
  <2> QED
    BY <2>1, <2>3, <2>5, SlotIs
<1>5. ASSUME NEW k \in Slot, IsRuntime(k), Referent[k] # 0 PROVE Referent[k] \in Alive
  BY <1>5, ReferentLive DEF Alive
<1> QED
  BY <1>2, <1>3, <1>4, <1>5

\* What the abstract state shows of the frames, as a formula about one state.
View ==
    /\ Builds(ActivitiesUpTo, Acts)
    /\ \A k \in Slot : Acts[k] \in SlotActivity
    /\ \A k \in Slot : ~IsRuntime(k) => Acts[k] = Idle
    /\ \A k \in Slot : \A w : IsRuntime(k) /\ frame[k].kind = w
        => /\ Acts[k] = [role |-> Role(w), about |-> Referent[k]] /\ Acts[k] # Idle
           /\ Referent[k] \in 0..MaxDepth
    /\ Alive = Lifetime!Referred(Activities) \ {0}
    /\ \A k \in Slot : k > top => ~IsRuntime(k)

LEMMA ViewHolds == IInv /\ Links /\ Owners => View
<1> SUFFICES ASSUME IInv, Links, Owners PROVE View
  OBVIOUS
<1>1. Builds(ActivitiesUpTo, Acts) /\ Alive = Lifetime!Referred(Activities) \ {0}
  BY ActivitiesBuilt, AliveIsReferred DEF Lifetime!AliveIffReferred, Alive
<1>2. \A k \in Slot : Acts[k] \in SlotActivity /\ (~IsRuntime(k) => Acts[k] = Idle)
  BY ActsType
<1>3. ASSUME NEW k \in Slot, NEW w, IsRuntime(k), frame[k].kind = w
      PROVE  /\ Acts[k] = [role |-> Role(w), about |-> Referent[k]] /\ Acts[k] # Idle
             /\ Referent[k] \in 0..MaxDepth
  <2>1. Acts[k] = ActivityOf(k) /\ Acts[k] # Idle
    BY <1>3, ActsType
  <2>2. ActivityOf(k) = [role |-> ActivityOf(k).role, about |-> Referent[k]]
    BY <1>3, RoleOf
  <2>3. ActivityOf(k).role = Role(w)
    BY <1>3, RoleOf DEF Role, IsRuntime
  <2>4. Referent[k] \in 0..MaxDepth
    BY <1>3, ReferentLive, SlotIs
  <2> QED
    BY <2>1, <2>2, <2>3, <2>4
<1>4. \A k \in Slot : k > top => ~IsRuntime(k)
  BY TopFacts DEF IsRuntime, Free
<1> QED
  BY <1>1, <1>2, <1>3, <1>4 DEF View

LEMMA ViewNext == IInv' /\ Links' /\ Owners' => View'
BY ViewHolds, PTL

\* A step leaves what the slots below n show.
SameBelow(n) == \A j \in Slot : j < n => Acts'[j] = Acts[j]

\* No runtime frame is newer than the one in slot p.
NewestAt(p) == IsRuntime(p) /\ \A j \in Slot : j > p => ~IsRuntime(j)

LEMMA ActivityIs ==
    ASSUME NEW kind \in {"throw", "catch", "destroy"}, NEW t \in 0..MaxDepth
    PROVE  Activity(kind, t) \in Lifetime!Activity
BY ActivityType DEF Activity, Role

\* A step that changes the newest runtime frame, and leaves it about the same
\* exception, changes the role of the newest activity and nothing else.
LEMMA NewestChanges ==
    ASSUME View, View', NEW p \in Slot, NewestAt(p), NewestAt(p)', SameBelow(p),
           Referent'[p] = Referent[p], NEW v, v = frame[p].kind, NEW w, w = frame'[p].kind
    PROVE  \E s \in Seq(Lifetime!Activity), t \in 0..MaxDepth :
                /\ t = Referent[p]
                /\ Activities = Append(s, Activity(v, t)) /\ Activity(v, t) \in Lifetime!Activity
                /\ Activities' = Append(s, Activity(w, t)) /\ Activity(w, t) \in Lifetime!Activity
<1>1. View
  OBVIOUS
<1>2. PICK a, b, c, d : a = ActivitiesUpTo /\ b = ActivitiesUpTo' /\ c = Acts /\ d = Acts'
  OBVIOUS
<1>3. PICK t : t = Referent[p] /\ t \in 0..MaxDepth
  BY DEF View, NewestAt
<1>4. c[p] = Activity(v, t) /\ c[p] # Idle
  BY <1>1, <1>2, <1>3 DEF View, NewestAt, Activity
<1>5. d[p] = Activity(w, t) /\ d[p] # Idle
  BY <1>2, <1>3 DEF View, NewestAt, Activity
<1>6. Builds(a, c) /\ Builds(b, d) /\ \A j \in Slot : c[j] \in SlotActivity
  BY <1>1, <1>2 DEF View
<1>7. \A j \in Slot : j < p => d[j] = c[j]
  BY <1>2, SlotIs DEF SameBelow
<1>8. \A j \in Slot : j > p => c[j] = Idle /\ d[j] = Idle
  BY <1>1, <1>2 DEF View, NewestAt
<1>9. PICK s \in Seq(Lifetime!Activity) :
        a[MaxDepth] = Append(s, c[p]) /\ b[MaxDepth] = Append(s, d[p])
  <2>1. c[p] # Idle /\ d[p] # Idle
    BY <1>4, <1>5
  <2>2. PICK s \in Seq(Lifetime!Activity) :
          /\ a[MaxDepth] = Append(s, c[p])
          /\ b[MaxDepth] = IF d[p] = Idle THEN s ELSE Append(s, d[p])
    <3>1. Changes(a, b, c, d, p)
      BY <1>6, <1>7, <1>8, <2>1 DEF Changes
    <3> QED
      BY <3>1, BuiltChange
  <2>3. b[MaxDepth] = Append(s, d[p])
    BY <2>1, <2>2
  <2> QED
    BY <2>2, <2>3
<1>10. Activity(v, t) \in Lifetime!Activity /\ Activity(w, t) \in Lifetime!Activity
  <2>1. v \in {"throw", "catch", "destroy"} /\ w \in {"throw", "catch", "destroy"}
    BY DEF NewestAt, IsRuntime
  <2> QED
    BY <1>3, <2>1, ActivityIs
<1> QED
  BY <1>2, <1>3, <1>4, <1>5, <1>9, <1>10 DEF Activities

\* A step that keeps the role of the newest activity too is a stutter.
LEMMA NewestStays ==
    ASSUME View, View', NEW p \in Slot, NewestAt(p), NewestAt(p)', SameBelow(p),
           Referent'[p] = Referent[p], frame'[p].kind = frame[p].kind, exc' = exc
    PROVE  UNCHANGED Lifetime!vars
<1>1. PICK v : v = frame[p].kind /\ v = frame'[p].kind
  OBVIOUS
<1>2. Activities' = Activities
  BY <1>1, NewestChanges
<1> QED
  BY <1>2 DEF Lifetime!vars

\* So is one that touches no runtime frame.
LEMMA AllStay ==
    ASSUME View, View', SameBelow(MaxDepth + 1), exc' = exc
    PROVE  UNCHANGED Lifetime!vars
<1>1. PICK a, b, c, d : a = ActivitiesUpTo /\ b = ActivitiesUpTo' /\ c = Acts /\ d = Acts'
  OBVIOUS
<1>2. Builds(a, c) /\ Builds(b, d)
  BY <1>1 DEF View
<1>3. \A j \in Slot : c[j] = d[j]
  BY <1>1, SlotIs DEF SameBelow
<1>4. MaxDepth \in 0..MaxDepth
  BY SlotIs
<1>5. a[MaxDepth] = b[MaxDepth]
  BY <1>2, <1>3, <1>4, BuiltSame
<1> QED
  BY <1>1, <1>5 DEF Activities, Lifetime!vars

\* A step that adds a runtime frame above all others adds an activity.
LEMMA NewestAdded ==
    ASSUME View, View', NEW n \in Slot, SameBelow(n), NewestAt(n)',
           \A j \in Slot : j >= n => ~IsRuntime(j), NEW w, w = frame'[n].kind
    PROVE  Activities' = Append(Activities, Activity(w, Referent'[n]))
<1>1. View
  OBVIOUS
<1>2. PICK a, b, c, d : a = ActivitiesUpTo /\ b = ActivitiesUpTo' /\ c = Acts /\ d = Acts'
  OBVIOUS
<1>3. d[n] = Activity(w, Referent'[n]) /\ d[n] # Idle
  BY <1>2 DEF View, NewestAt, Activity
<1>4. \A j \in Slot : j < n => d[j] = c[j]
  BY <1>2, SlotIs DEF SameBelow
<1>5. (\A j \in Slot : j >= n => c[j] = Idle) /\ \A j \in Slot : j > n => d[j] = Idle
  BY <1>1, <1>2 DEF View, NewestAt
<1>6. Adds(a, b, c, d, n)
  BY <1>1, <1>2, <1>3, <1>4, <1>5 DEF Adds, View
<1>7. b[MaxDepth] = Append(a[MaxDepth], d[n])
  BY <1>6, BuiltPush
<1> QED
  BY <1>2, <1>3, <1>7 DEF Activities

\* A step that removes the newest runtime frame ends the newest activity.
LEMMA NewestRemoved ==
    ASSUME View, View', NEW p \in Slot, NewestAt(p), SameBelow(p),
           \A j \in Slot : j >= p => ~IsRuntime(j)', NEW v, v = frame[p].kind
    PROVE  \E s \in Seq(Lifetime!Activity), t \in 0..MaxDepth :
                /\ Activities = Append(s, Activity(v, t)) /\ Activity(v, t) \in Lifetime!Activity
                /\ Activities' = s
<1>1. View
  OBVIOUS
<1>2. PICK a, b, c, d : a = ActivitiesUpTo /\ b = ActivitiesUpTo' /\ c = Acts /\ d = Acts'
  OBVIOUS
<1>3. PICK t : t = Referent[p] /\ t \in 0..MaxDepth
  BY DEF View, NewestAt
<1>4. c[p] = Activity(v, t) /\ c[p] # Idle
  BY <1>1, <1>2, <1>3 DEF View, NewestAt, Activity
<1>5. d[p] = Idle
  BY <1>2, SlotIs DEF View
<1>6. \A j \in Slot : j < p => d[j] = c[j]
  BY <1>2, SlotIs DEF SameBelow
<1>7. \A j \in Slot : j > p => c[j] = Idle /\ d[j] = Idle
  BY <1>1, <1>2, SlotIs DEF View, NewestAt
<1>8. Changes(a, b, c, d, p)
  BY <1>1, <1>2, <1>4, <1>6, <1>7 DEF Changes, View
<1>9. PICK s \in Seq(Lifetime!Activity) : a[MaxDepth] = Append(s, c[p]) /\ b[MaxDepth] = s
  BY <1>5, <1>8, BuiltChange
<1>10. Activity(v, t) \in Lifetime!Activity
  BY <1>3, ActivityIs DEF NewestAt, IsRuntime
<1> QED
  BY <1>2, <1>3, <1>4, <1>9, <1>10 DEF Activities

\* A step removes runtime frame m, of kind u, before the newest one p, of kind
\* v, which goes on about the same exception.
SecondGoes(m, p, u, v) ==
    /\ m < p /\ NewestAt(p) /\ NewestAt(p)'
    /\ IsRuntime(m) /\ ~IsRuntime(m)' /\ SameBelow(m)
    /\ \A j \in Slot : m < j /\ j < p => ~IsRuntime(j) /\ ~IsRuntime(j)'
    /\ Referent'[p] = Referent[p]
    /\ u = frame[m].kind /\ v = frame[p].kind /\ v = frame'[p].kind

\* Such a step ends the activity before the newest.
LEMMA SecondRemoved ==
    ASSUME View, View', NEW m \in Slot, NEW p \in Slot, NEW u, NEW v, SecondGoes(m, p, u, v)
    PROVE  \E s \in Seq(Lifetime!Activity), r, t \in 0..MaxDepth :
                /\ Activities = Append(Append(s, Activity(u, r)), Activity(v, t))
                /\ Activities' = Append(s, Activity(v, t))
                /\ Activity(u, r) \in Lifetime!Activity /\ Activity(v, t) \in Lifetime!Activity
<1>0. /\ m < p /\ NewestAt(p) /\ NewestAt(p)'
      /\ IsRuntime(m) /\ ~IsRuntime(m)' /\ SameBelow(m)
      /\ \A j \in Slot : m < j /\ j < p => ~IsRuntime(j) /\ ~IsRuntime(j)'
      /\ Referent'[p] = Referent[p]
      /\ u = frame[m].kind /\ v = frame[p].kind /\ v = frame'[p].kind
  BY DEF SecondGoes
<1> USE <1>0
<1>1. View
  OBVIOUS
<1>2. PICK a, b, c, d : a = ActivitiesUpTo /\ b = ActivitiesUpTo' /\ c = Acts /\ d = Acts'
  OBVIOUS
<1>3. PICK r, t : r = Referent[m] /\ r \in 0..MaxDepth /\ t = Referent[p] /\ t \in 0..MaxDepth
  BY DEF View, NewestAt
<1>4. c[p] = Activity(v, t) /\ c[p] # Idle
  BY <1>1, <1>2, <1>3, Zenon DEF View, NewestAt, Activity
<1>5. d[p] = Activity(v, t)
  BY <1>2, <1>3 DEF View, NewestAt, Activity
<1>6. c[m] = Activity(u, r) /\ c[m] # Idle
  BY <1>1, <1>2, <1>3 DEF View, Activity
<1>7. d[m] = Idle
  BY <1>2 DEF View
<1>8. \A j \in Slot : j < m => d[j] = c[j]
  BY <1>2, SlotIs DEF SameBelow
<1>9. \A j \in Slot : j > m /\ j # p => c[j] = Idle /\ d[j] = Idle
  <2>1. \A j \in Slot : j > m /\ j # p => ~IsRuntime(j) /\ ~IsRuntime(j)'
    <3>1. \A j \in Slot : j > m /\ j # p => (m < j /\ j < p) \/ j > p
      BY SlotIs
    <3> QED
      BY <3>1 DEF NewestAt
  <2> QED
    BY <1>1, <1>2, <2>1 DEF View
<1>10. Drops(a, b, c, d, m, p)
  BY <1>1, <1>2, <1>4, <1>5, <1>6, <1>7, <1>8, <1>9 DEF Drops, View
<1>11. PICK s \in Seq(Lifetime!Activity) :
        a[MaxDepth] = Append(Append(s, c[m]), c[p]) /\ b[MaxDepth] = Append(s, c[p])
  BY <1>10, BuiltAbandon, SMTT(30)
<1>12. Activity(v, t) \in Lifetime!Activity /\ Activity(u, r) \in Lifetime!Activity
  BY <1>3, ActivityIs DEF NewestAt, IsRuntime
<1> QED
  BY <1>2, <1>3, <1>4, <1>6, <1>11, <1>12 DEF Activities

----------------------------------------------------------------------------
(* The steps of ExceptionLifetime, as changes of the activities.           *)

Replaced(a, n, d) == [a EXCEPT ![n] = d]

\* Replacing the last element.
LEMMA SeqReplaceLast ==
    ASSUME NEW S, NEW s \in Seq(S), NEW e \in S, NEW d \in S
    PROVE  Replaced(Append(s, e), Len(s) + 1, d) = Append(s, d)
<1>1. PICK a, b, c, n : a = Append(s, e) /\ b = Append(s, d) /\ n = Len(s) + 1 /\ c = Replaced(a, n, d)
  OBVIOUS
<1>2. a \in Seq(S) /\ b \in Seq(S) /\ n \in 1..Len(a) /\ Len(a) = n /\ Len(b) = n
  BY <1>1
<1>3. a \in [1..n -> S] /\ b \in [1..n -> S]
  BY <1>2, LenProperties
<1>4. \A i \in 1..n : i # n => b[i] = a[i]
  <2>1. \A i \in 1..n : i # n => i \in 1..Len(s)
    BY <1>1
  <2>2. \A i \in 1..Len(s) : a[i] = s[i] /\ b[i] = s[i]
    BY <1>1
  <2> QED
    BY <2>1, <2>2
<1>5. b[n] = d /\ n \in 1..n
  BY <1>1, <1>2
<1>6. c \in [1..n -> S] /\ c[n] = d /\ \A i \in 1..n : i # n => c[i] = a[i]
  BY <1>1, <1>3, <1>5 DEF Replaced
<1>7. \A i \in 1..n : c[i] = b[i]
  BY <1>4, <1>5, <1>6
<1>8. c = b
  <2>1. c = [i \in 1..n |-> c[i]] /\ b = [i \in 1..n |-> b[i]]
    BY <1>3, <1>6
  <2>2. [i \in 1..n |-> c[i]] = [i \in 1..n |-> b[i]]
    BY <1>7, Zenon
  <2> QED
    BY <2>1, <2>2, Zenon
<1> QED
  BY <1>1, <1>8

\* A handler is found ...
LEMMA IsCatch ==
    ASSUME NEW s \in Seq(Lifetime!Activity), NEW t \in 0..MaxDepth, t # 0, exc' = exc,
           Activities = Append(s, Activity("throw", t)), Activities' = Append(s, Activity("catch", t)),
           Activity("throw", t) \in Lifetime!Activity, Activity("catch", t) \in Lifetime!Activity
    PROVE  Lifetime!Catch
<1>1. PICK a, b, e, d, n : /\ a = Activities /\ b = Activities' /\ n = Len(a)
                           /\ e = Activity("throw", t) /\ d = Activity("catch", t)
  OBVIOUS
<1>2. /\ e = [role |-> "flying", about |-> t] /\ d = [role |-> "handling", about |-> t]
      /\ e \in Lifetime!Activity /\ d \in Lifetime!Activity /\ a = Append(s, e) /\ b = Append(s, d)
  BY <1>1 DEF Activity, Role
<1>3. a # <<>> /\ a[n] = e
  BY <1>1, <1>2, SeqLast
<1>4. [e EXCEPT !.role = "handling"] = d
  BY <1>2
<1>5. [a EXCEPT ![n].role = "handling"] = [a EXCEPT ![n] = d]
  BY <1>3, <1>4, Zenon
<1>6. [a EXCEPT ![n] = d] = b
  <2>1. Replaced(Append(s, e), Len(s) + 1, d) = Append(s, d)
    BY <1>2, SeqReplaceLast
  <2>2. n = Len(s) + 1
    BY <1>1, <1>2, SeqLast
  <2> QED
    BY <1>2, <2>1, <2>2 DEF Replaced
<1>7. e.role = "flying" /\ e.about # 0
  BY <1>2
<1> QED
  BY <1>1, <1>3, <1>5, <1>6, <1>7 DEF Lifetime!Catch, Lifetime!Newest

\* ... and left.
LEMMA IsLeaveHandler ==
    ASSUME NEW s \in Seq(Lifetime!Activity), NEW t \in 0..MaxDepth, exc' = exc,
           Activities = Append(s, Activity("catch", t)), Activities' = Append(s, Activity("destroy", t)),
           Activity("catch", t) \in Lifetime!Activity, Activity("destroy", t) \in Lifetime!Activity
    PROVE  Lifetime!LeaveHandler
<1>1. PICK a, b, e, d, n : /\ a = Activities /\ b = Activities' /\ n = Len(a)
                           /\ e = Activity("catch", t) /\ d = Activity("destroy", t)
  OBVIOUS
<1>2. /\ e = [role |-> "handling", about |-> t] /\ d = [role |-> "leaving", about |-> t]
      /\ e \in Lifetime!Activity /\ d \in Lifetime!Activity /\ a = Append(s, e) /\ b = Append(s, d)
  BY <1>1 DEF Activity, Role
<1>3. a # <<>> /\ a[n] = e
  BY <1>1, <1>2, SeqLast
<1>4. [e EXCEPT !.role = "leaving"] = d
  BY <1>2
<1>5. [a EXCEPT ![n].role = "leaving"] = [a EXCEPT ![n] = d]
  BY <1>3, <1>4, Zenon
<1>6. [a EXCEPT ![n] = d] = b
  <2>1. Replaced(Append(s, e), Len(s) + 1, d) = Append(s, d)
    BY <1>2, SeqReplaceLast
  <2>2. n = Len(s) + 1
    BY <1>1, <1>2, SeqLast
  <2> QED
    BY <1>2, <2>1, <2>2 DEF Replaced
<1>7. e.role = "handling"
  BY <1>2
<1> QED
  BY <1>1, <1>3, <1>5, <1>6, <1>7 DEF Lifetime!LeaveHandler, Lifetime!Newest
\* What is alive after a step that destroys, at most: what was and is still
\* referred to.
LEMMA AliveKept ==
    ASSUME View', Alive' \subseteq Alive
    PROVE  Alive' = Alive \cap Lifetime!Referred(Activities')
<1>1. PICK r : r = Lifetime!Referred(Activities')
  OBVIOUS
<1>2. Alive' = r \ {0}
  BY <1>1 DEF View
<1>3. 0 \notin Alive
  BY SlotIs DEF Alive
<1> QED
  BY <1>1, <1>2, <1>3

\* A handler ends with its exception ...
LEMMA IsEndHandler ==
    ASSUME View', Alive' \subseteq Alive,
           NEW s \in Seq(Lifetime!Activity), NEW t \in 0..MaxDepth,
           Activities = Append(s, Activity("destroy", t)), Activities' = s,
           Activity("destroy", t) \in Lifetime!Activity
    PROVE  Lifetime!EndHandler
<1>1. PICK a, b, e, n : a = Activities /\ b = Activities' /\ n = Len(a) /\ e = Activity("destroy", t)
  OBVIOUS
<1>2. e.role = "leaving" /\ e \in Lifetime!Activity /\ a = Append(s, e) /\ b = s
  BY <1>1 DEF Activity, Role
<1>3. a # <<>> /\ a[n] = e /\ n - 1 = Len(s) /\ SubSeq(a, 1, Len(s)) = s
  BY <1>1, <1>2, SeqLast
<1>4. b = SubSeq(a, 1, n - 1)
  BY <1>2, <1>3
<1>5. Alive' = Alive \cap Lifetime!Referred(Activities')
  BY AliveKept
<1> QED
  BY <1>1, <1>2, <1>3, <1>4, <1>5 DEF Lifetime!EndHandler, Lifetime!Newest, Alive

\* ... or is abandoned by another.
LEMMA IsAbandonHandler ==
    ASSUME View', Alive' \subseteq Alive,
           NEW s \in Seq(Lifetime!Activity), NEW r \in 0..MaxDepth, NEW t \in 0..MaxDepth,
           Activities = Append(Append(s, Activity("catch", r)), Activity("throw", t)),
           Activities' = Append(s, Activity("throw", t)),
           Activity("catch", r) \in Lifetime!Activity, Activity("throw", t) \in Lifetime!Activity
    PROVE  Lifetime!AbandonHandler
<1>1. PICK a, b, e, d, n : /\ a = Activities /\ b = Activities' /\ n = Len(a)
                           /\ d = Activity("catch", r) /\ e = Activity("throw", t)
  OBVIOUS
<1>2. PICK q : q = Append(s, d)
  OBVIOUS
<1>3. /\ d.role = "handling" /\ e.role = "flying" /\ a = Append(q, e) /\ b = Append(s, e)
      /\ d \in Lifetime!Activity /\ e \in Lifetime!Activity
  BY <1>1, <1>2 DEF Activity, Role
<1>4. /\ q \in Seq(Lifetime!Activity) /\ Len(s) \in Nat /\ Len(q) = Len(s) + 1 /\ q[Len(s) + 1] = d
      /\ SubSeq(q, 1, Len(s)) = s
  BY <1>2, <1>3, SeqLast
<1>5. /\ Len(q) \in Nat /\ n = Len(q) + 1 /\ a[Len(q) + 1] = e /\ SubSeq(a, 1, Len(q)) = q
      /\ \A i \in 1..Len(q) : a[i] = q[i]
  BY <1>1, <1>3, <1>4, SeqLast
<1>6. n >= 2 /\ a[n] = e /\ a[n - 1] = d
  <2>1. n - 1 = Len(q) /\ n - 1 \in 1..Len(q)
    BY <1>4, <1>5
  <2> QED
    BY <1>4, <1>5, <2>1
<1>7. SubSeq(a, 1, n - 2) = s
  <2>1. n - 2 = Len(s)
    BY <1>4, <1>5
  <2>2. SubSeq(a, 1, Len(s)) = SubSeq(q, 1, Len(s))
    <3>1. \A i \in 1..Len(s) : a[i] = q[i]
      BY <1>4, <1>5
    <3> QED
      BY <1>3, <1>4, <3>1
  <2> QED
    BY <1>4, <2>1, <2>2
<1>8. Alive' = Alive \cap Lifetime!Referred(Activities')
  BY AliveKept
<1> QED
  BY <1>1, <1>3, <1>6, <1>7, <1>8 DEF Lifetime!AbandonHandler, Lifetime!Newest, Alive

----------------------------------------------------------------------------
(* What a frame is about after a step.                                     *)

\* A frame that refers to obj, and has come as far as slot m, is about t.
AboutAt(obj, m, t) ==
    \/ obj.to = "object" /\ t = obj.slot
    \/ obj.to = "link" /\ t = Referent[obj.slot]
    \/ /\ obj.to = "null"
       /\ \/ \E p : NearCatch(m, p) /\ t = Referent[p]
          \/ t = 0 /\ \A p : ~NearCatch(m, p)

\* So is every frame that is there ...
AllAbout ==
    \A k \in Slot : \A obj, m :
        IsRuntime(k) /\ obj = frame[k].tf.exception_object_or_link /\ m = frame[k].reg
        => AboutAt(obj, m, Referent[k])

LEMMA AboutIs == IInv /\ Links => AllAbout
<1> SUFFICES ASSUME IInv, Links, NEW k \in Slot, NEW obj, NEW m, IsRuntime(k),
                    obj = frame[k].tf.exception_object_or_link, m = frame[k].reg
             PROVE  AboutAt(obj, m, Referent[k])
  BY DEF AllAbout
<1>1. obj.to \in {"null", "object", "link"}
  <2>1. frame[k].tf \in ThrowFrame
    BY RegBelow DEF RuntimeFrame
  <2> QED
    BY <2>1 DEF ThrowFrame, ObjOrLink
<1>2. /\ obj.to = "object" => Referent[k] = obj.slot
      /\ obj.to = "link" => Referent[k] = Referent[obj.slot]
      /\ obj.to = "null" => \A p : NearCatch(m, p) => Referent[k] = Referent[p]
      /\ obj.to = "null" => (Referent[k] # 0 => \E p : NearCatch(m, p))
  BY ReferentOf
<1>3. CASE obj.to = "null"
  <2>1. CASE \E p : NearCatch(m, p)
    BY <1>2, <1>3, <2>1 DEF AboutAt
  <2>2. CASE \A p : ~NearCatch(m, p)
    BY <1>2, <1>3, <2>2 DEF AboutAt
  <2> QED
    BY <2>1, <2>2
<1> QED
  BY <1>1, <1>2, <1>3 DEF AboutAt

\* ... and about nothing else.
LEMMA OneAbout ==
    IInv =>
        \A m \in 0..MaxDepth : \A obj, t, u : AboutAt(obj, m, t) /\ AboutAt(obj, m, u) => t = u
<1> SUFFICES ASSUME IInv, NEW m \in 0..MaxDepth, NEW obj, NEW t, NEW u,
                    AboutAt(obj, m, t), AboutAt(obj, m, u)
             PROVE  t = u
  OBVIOUS
<1>1. CASE obj.to = "null"
  <2>1. \A p, q : NearCatch(m, p) /\ NearCatch(m, q) => p = q
    BY OneNearest DEF NearCatch
  <2>2. ASSUME NEW p, NearCatch(m, p) PROVE t = Referent[p] /\ u = Referent[p]
    BY <1>1, <2>1, <2>2 DEF AboutAt
  <2>3. CASE \E p : NearCatch(m, p)
    BY <2>2, <2>3
  <2>4. CASE \A p : ~NearCatch(m, p)
    BY <1>1, <2>4 DEF AboutAt
  <2> QED
    BY <2>3, <2>4
<1>2. CASE obj.to # "null"
  BY <1>2 DEF AboutAt
<1> QED
  BY <1>1, <1>2

\* Slot j holds after the step the runtime frame it held, or again none.
Keeps(j) == (IsRuntime(j)' <=> IsRuntime(j)) /\ (IsRuntime(j) => frame'[j] = frame[j])

KeepsBelow(n) == \A j \in Slot : j < n => Keeps(j)

\* Below slot n the nearest handler is the one it was.
LEMMA NearSame ==
    ASSUME NEW n \in Int, KeepsBelow(n), NEW m \in Nat, m < n, m <= MaxDepth, NEW p
    PROVE  NearCatch(m, p)' <=> NearCatch(m, p)
<1>1. \A q \in 1..m : q \in Slot /\ q < n
  BY Depth DEF Slot
<1>2. \A q \in 1..m : (IsRuntime(q)' <=> IsRuntime(q)) /\ (IsRuntime(q) => frame'[q] = frame[q])
  BY <1>1 DEF KeepsBelow, Keeps
<1>3. ASSUME p \in 1..m PROVE \A q \in p + 1 .. m : q \in 1..m
  BY <1>3
<1>4. Nearest(m, p)' <=> Nearest(m, p)
  BY <1>2, <1>3 DEF Nearest
<1>5. Nearest(m, p) => p \in 1..m /\ IsRuntime(p)
  BY DEF Nearest
<1> QED
  BY <1>2, <1>4, <1>5 DEF NearCatch

\* Frames that stay, over frames that stay, are about what they were about.
LEMMA SameReferent ==
    ASSUME IInv, IInv', Links, Links', NEW n \in Int, KeepsBelow(n),
           NEW k \in Slot, k < n, IsRuntime(k)
    PROVE  Referent'[k] = Referent[k]
<1> DEFINE S == {j \in Slot : j < n /\ IsRuntime(j) /\ Referent'[j] # Referent[j]}
<1> SUFFICES ASSUME S # {} PROVE FALSE
  OBVIOUS
<1>1. PICK j \in S : \A i \in S : j <= i
  <2>1. S \in SUBSET Nat
    BY Depth
  <2> HIDE DEF S
  <2> QED
    BY <2>1, Least
<1>2. j \in Slot /\ j < n /\ IsRuntime(j) /\ Referent'[j] # Referent[j] /\ j \in Nat /\ j <= MaxDepth
  BY <1>1, Depth DEF Slot
<1>3. ASSUME NEW p \in Slot, frame[p].kind = "catch", p < j PROVE Referent'[p] = Referent[p]
  <2>1. p \in Nat /\ p < n /\ IsRuntime(p) /\ ~(j <= p)
    BY <1>2, <1>3, Depth DEF IsRuntime
  <2>2. p \notin S
    <3> HIDE DEF S
    <3> QED
      BY <1>1, <2>1
  <2> QED
    BY <1>3, <2>1, <2>2
<1> HIDE DEF S
<1>4. PICK obj, r : obj = frame[j].tf.exception_object_or_link /\ r = frame[j].reg
  OBVIOUS
<1>5. IsRuntime(j)' /\ frame'[j] = frame[j]
  BY <1>2 DEF KeepsBelow, Keeps
<1>6. Refers(frame[j].tf, r) /\ r \in Nat /\ r < j /\ r \in 0..MaxDepth
  BY <1>2, <1>4, RegBelow, Depth DEF Links, LinkShape, Slot
<1>7. AboutAt(obj, r, Referent[j])
  BY <1>2, <1>4, AboutIs DEF AllAbout
<1>8. AboutAt(obj, r, Referent[j])'
  <2>1. AllAbout'
    BY AboutIs, PTL
  <2> QED
    BY <1>2, <1>4, <1>5, <2>1 DEF AllAbout
<1>9. CASE obj.to = "object"
  BY <1>2, <1>7, <1>8, <1>9 DEF AboutAt
<1>10. CASE obj.to = "link"
  <2>1. PICK p : p = obj.slot
    OBVIOUS
  <2>2. p \in Slot /\ p <= r /\ frame[p].kind = "catch"
    BY <1>4, <1>6, <1>10, <2>1 DEF Refers
  <2>3. p < j
    BY <1>2, <1>6, <2>2, Depth
  <2> QED
    BY <1>2, <1>3, <1>7, <1>8, <1>10, <2>1, <2>2, <2>3 DEF AboutAt
<1>11. CASE obj.to = "null"
  <2>1. \A p : NearCatch(r, p)' <=> NearCatch(r, p)
    BY <1>2, <1>6, NearSame
  <2>2. ASSUME NEW p, NearCatch(r, p) PROVE Referent'[p] = Referent[p]
    <3>1. p \in 1..r /\ frame[p].kind = "catch"
      BY <2>2 DEF NearCatch, Nearest
    <3>2. p \in Slot /\ p < j
      BY <1>2, <1>6, <3>1, Depth DEF Slot
    <3> QED
      BY <1>3, <3>1, <3>2
  <2>3. ASSUME NEW p, NearCatch(r, p), NEW q, NearCatch(r, q) PROVE p = q
    BY <1>6, <2>3, OneNearest DEF NearCatch
  <2>4. CASE \A p : ~NearCatch(r, p)
    BY <1>2, <1>7, <1>8, <1>11, <2>1, <2>4 DEF AboutAt
  <2>5. CASE \E p : NearCatch(r, p)
    <3>1. PICK p : NearCatch(r, p)
      BY <2>5
    <3>2. Referent[j] = Referent[p]
      BY <1>7, <1>11, <2>3, <3>1 DEF AboutAt
    <3>3. Referent'[j] = Referent'[p]
      BY <1>8, <1>11, <2>1, <2>3, <3>1 DEF AboutAt
    <3> QED
      BY <1>2, <2>2, <3>1, <3>2, <3>3
  <2> QED
    BY <2>4, <2>5
<1> QED
  <2>1. obj.to = "object" \/ obj.to = "link" \/ obj.to = "null"
    BY <1>7 DEF AboutAt
  <2> QED
    BY <1>9, <1>10, <1>11, <2>1

\* So the slots below show what they showed.
LEMMA KeptShowsSame ==
    ASSUME IInv, IInv', Links, Links', View, View', NEW n \in Int, KeepsBelow(n)
    PROVE  SameBelow(n)
<1> SUFFICES ASSUME NEW k \in Slot, k < n PROVE Acts'[k] = Acts[k]
  BY DEF SameBelow
<1>1. CASE ~IsRuntime(k)
  BY <1>1 DEF View, KeepsBelow, Keeps
<1>2. CASE IsRuntime(k)
  <2>1. IsRuntime(k)' /\ frame'[k] = frame[k]
    BY <1>2 DEF KeepsBelow, Keeps
  <2>2. Referent'[k] = Referent[k]
    BY <1>2, SameReferent
  <2>3. PICK w : w = frame[k].kind
    OBVIOUS
  <2>4. Acts[k] = [role |-> Role(w), about |-> Referent[k]]
    BY <1>2, <2>3 DEF View
  <2>5. Acts'[k] = [role |-> Role(w), about |-> Referent'[k]]
    BY <2>1, <2>3 DEF View
  <2> QED
    BY <2>2, <2>4, <2>5
<1> QED
  BY <1>1, <1>2

\* A frame that refers, after the step, to what made it be about t before, is
\* about t.
LEMMA Follows ==
    ASSUME IInv, IInv', Links, Links', NEW i \in Int, KeepsBelow(i),
           NEW n \in Slot, IsRuntime(n)', NEW obj, obj = frame'[n].tf.exception_object_or_link,
           NEW m \in Nat, m = frame'[n].reg, m < i, m <= MaxDepth, NEW t, AboutAt(obj, m, t)
    PROVE  Referent'[n] = t
<1>1. AboutAt(obj, m, Referent[n])'
  <2>1. AllAbout'
    BY AboutIs, PTL
  <2> QED
    BY <2>1 DEF AllAbout
<1>2. \A p \in Slot : p <= m => p < i /\ p \in Nat
  BY Depth
<1>3. ASSUME NEW p \in Slot, p <= m, frame[p].kind = "catch" PROVE Referent'[p] = Referent[p]
  BY <1>2, <1>3, SameReferent DEF IsRuntime
<1>4. CASE obj.to = "object"
  BY <1>1, <1>4 DEF AboutAt
<1>5. CASE obj.to = "link"
  <2>1. PICK p : p = obj.slot
    OBVIOUS
  <2>2. p \in Slot /\ p <= m /\ frame'[p].kind = "catch"
    BY <1>5, <2>1 DEF Links, LinkShape, Refers
  <2>3. frame[p].kind = "catch"
    BY <1>2, <2>2 DEF KeepsBelow, Keeps, IsRuntime
  <2>4. Referent'[p] = Referent[p]
    BY <1>3, <2>2, <2>3
  <2> QED
    BY <1>1, <1>5, <2>1, <2>4 DEF AboutAt
<1>6. CASE obj.to = "null"
  <2>1. \A p : NearCatch(m, p)' <=> NearCatch(m, p)
    BY NearSame
  <2>2. CASE \A p : ~NearCatch(m, p)
    BY <1>1, <1>6, <2>1, <2>2 DEF AboutAt
  <2>3. CASE \E p : NearCatch(m, p)
    <3>1. PICK p : NearCatch(m, p)
      BY <2>3
    <3>2. \A q : NearCatch(m, q) => q = p
      <4>1. m \in 0..MaxDepth
        BY Depth
      <4> QED
        BY <3>1, <4>1, OneNearest DEF NearCatch
    <3>3. t = Referent[p]
      BY <1>6, <3>1, <3>2 DEF AboutAt
    <3>4. Referent'[n] = Referent'[p]
      BY <1>1, <1>6, <2>1, <3>1, <3>2 DEF AboutAt
    <3>5. p \in Slot /\ p <= m /\ frame[p].kind = "catch"
      BY <3>1, Depth DEF NearCatch, Nearest, Slot
    <3> QED
      BY <1>3, <3>3, <3>4, <3>5
  <2> QED
    BY <2>2, <2>3
<1> QED
  <2>1. obj.to = "object" \/ obj.to = "link" \/ obj.to = "null"
    BY <1>1 DEF AboutAt
  <2> QED
    BY <1>4, <1>5, <1>6, <2>1

----------------------------------------------------------------------------
(* Steps that ExceptionLifetime does not see.                              *)

\* What a proof about a step needs of the state before it and after it.
RInv == IInv /\ Links /\ Owners

LEMMA BothViews == RInv /\ RInv' => View /\ View'
BY ViewHolds, PTL DEF RInv

\* A step that touches no runtime frame and no exception is a stutter.
LEMMA NothingStays ==
    ASSUME RInv, RInv', \A j \in Slot : Keeps(j), exc' = exc
    PROVE  UNCHANGED Lifetime!vars
<1>1. PICK n \in Int : n = MaxDepth + 1
  BY Depth
<1>2. KeepsBelow(n)
  BY DEF KeepsBelow
<1>3. View /\ View'
  BY BothViews
<1>4. SameBelow(n)
  BY <1>2, <1>3, KeptShowsSame DEF RInv
<1> QED
  BY <1>1, <1>3, <1>4, AllStay

\* What holds, or stays a function, keeps the runtime frame it is.
LEMMA HoldsKeeps == ASSUME NEW j, Holds(j) PROVE Keeps(j)
BY HoldsFacts DEF Keeps

\* Nothing is in a slot above the newest frame.
LEMMA NoneAbove ==
    IInv => \A k \in Slot : k > top => ~IsRuntime(k)
BY TopFacts DEF IsRuntime, Free

\* The code of a function moves, it calls another one, or returns.
LEMMA CodeStays ==
    ASSUME RInv, RInv', (\E f \in Fns : Call(f)) \/ (\E s : Enter(s)) \/ Leave \/ Return
    PROVE  UNCHANGED Lifetime!vars
<1>0. IInv
  BY DEF RInv
<1>1. exc' = exc
  BY DEF Call, Enter, Leave, Return
<1>2. CASE (\E s : Enter(s)) \/ Leave
  BY <1>0, <1>1, <1>2, MovesHold, HoldsKeeps, NothingStays
<1>3. CASE Return
  <2>1. PICK n \in Slot : n = top /\ IsFunction(n)
    BY <1>0, <1>3 DEF Return, IInv, TypeOK
  <2>2. frame'[n] = Free /\ \A j \in Slot : j # n => frame'[j] = frame[j]
    BY <1>0, <1>3, <2>1 DEF Return, IInv, TypeOK
  <2>3. Keeps(n)
    BY <2>1, <2>2 DEF Keeps, IsRuntime, IsFunction, Free
  <2>4. \A j \in Slot : j # n => Keeps(j)
    BY <2>2 DEF Keeps, IsRuntime
  <2> QED
    BY <1>1, <2>3, <2>4, NothingStays
<1>4. CASE \E f \in Fns : Call(f)
  <2>1. PICK m \in Slot : \E x : Pushes(m, x) /\ x.kind = "function"
    BY <1>0, <1>4, CallPushes
  <2>2. PICK x : Pushes(m, x) /\ x.kind = "function"
    BY <2>1
  <2>3. frame' = [frame EXCEPT ![m] = x] /\ m = top + 1 /\ frame \in [Slot -> Frame] /\ top \in Nat
    BY <1>0, <2>2, Depth DEF Pushes, IInv, TypeOK
  <2>4. frame'[m] = x /\ \A j \in Slot : j # m => frame'[j] = frame[j]
    BY <2>3
  <2>5. Keeps(m)
    <3>1. ~IsRuntime(m)
      BY <1>0, <2>3, NoneAbove
    <3>2. ~IsRuntime(m)'
      BY <2>2, <2>4 DEF IsRuntime
    <3> QED
      BY <3>1, <3>2 DEF Keeps
  <2>6. \A j \in Slot : j # m => Keeps(j)
    BY <2>4 DEF Keeps, IsRuntime
  <2> QED
    BY <1>1, <2>5, <2>6, NothingStays
<1> QED
  BY <1>2, <1>3, <1>4

\* What is in a slot after the step has its registration below it.
AllRegs ==
    \A k \in Slot : IsRuntime(k) =>
        frame[k].reg \in Nat /\ frame[k].reg < k /\ frame[k].reg <= MaxDepth

LEMMA RegsBelow == IInv => AllRegs
<1> SUFFICES ASSUME IInv, NEW k \in Slot, IsRuntime(k)
             PROVE  frame[k].reg \in Nat /\ frame[k].reg < k /\ frame[k].reg <= MaxDepth
  BY DEF AllRegs
<1>1. frame[k].reg \in Nat /\ frame[k].reg < k
  BY RegBelow
<1>2. k \in Nat /\ k <= MaxDepth /\ MaxDepth \in Nat
  BY Depth DEF Slot
<1> QED
  BY <1>1, <1>2

\* The newest frame goes on as frame x, with what makes it be about what it was.
GoesOn(n, x) ==
    /\ n = top /\ IsRuntime(n) /\ IsRuntime(n)' /\ frame'[n] = x
    /\ KeepsBelow(n) /\ (\A j \in Slot : j > n => ~IsRuntime(j)')
    /\ AboutAt(x.tf.exception_object_or_link, x.reg, Referent[n])

LEMMA WhatGoesOn ==
    ASSUME RInv, RInv', NEW n \in Slot, NEW x, GoesOn(n, x)
    PROVE  /\ NewestAt(n) /\ NewestAt(n)' /\ SameBelow(n)
           /\ Referent'[n] = Referent[n] /\ View /\ View'
<1>1. /\ n = top /\ IsRuntime(n) /\ IsRuntime(n)' /\ frame'[n] = x /\ KeepsBelow(n)
      /\ (\A j \in Slot : j > n => ~IsRuntime(j)')
      /\ AboutAt(x.tf.exception_object_or_link, x.reg, Referent[n])
  BY DEF GoesOn
<1>2. IInv /\ Links /\ IInv' /\ Links'
  BY DEF RInv
<1>3. View /\ View'
  BY BothViews
<1>4. n \in Int
  BY Depth
<1>5. SameBelow(n)
  BY <1>1, <1>2, <1>3, <1>4, KeptShowsSame
<1>6. AllRegs'
  BY <1>2, RegsBelow, PTL
<1>7. x.reg \in Nat /\ x.reg < n /\ x.reg <= MaxDepth
  BY <1>1, <1>6 DEF AllRegs
<1>8. Referent'[n] = Referent[n]
  <2>1. PICK obj, m, t : obj = x.tf.exception_object_or_link /\ m = x.reg /\ t = Referent[n]
    OBVIOUS
  <2> QED
    BY <1>1, <1>2, <1>4, <1>7, <2>1, Follows
<1>9. NewestAt(n) /\ NewestAt(n)'
  BY <1>1, <1>2, NoneAbove DEF NewestAt
<1> QED
  BY <1>3, <1>5, <1>8, <1>9

\* A dispatch that stays about its exception.
LEMMA DispatchStays ==
    ASSUME RInv, RInv', NEW n \in Slot, NEW x, GoesOn(n, x), x.kind = frame[n].kind, exc' = exc
    PROVE  UNCHANGED Lifetime!vars
<1>1. /\ NewestAt(n) /\ NewestAt(n)' /\ SameBelow(n)
      /\ Referent'[n] = Referent[n] /\ View /\ View'
  BY WhatGoesOn
<1>2. frame'[n].kind = frame[n].kind
  BY DEF GoesOn
<1> QED
  BY <1>1, <1>2, NewestStays

\* The frame on top changes, and at most a function with it.
LEMMA TopGoesOn ==
    ASSUME RInv, NEW n \in Slot, n = top, IsRuntime(n), NEW x, x.kind \in {"throw", "catch", "destroy"},
           frame'[n] = x, \A j \in Slot : j < n => Keeps(j), \A j \in Slot : j > n => ~IsRuntime(j)',
           AboutAt(x.tf.exception_object_or_link, x.reg, Referent[n])
    PROVE  GoesOn(n, x)
<1>1. IsRuntime(n)'
  BY DEF IsRuntime
<1> QED
  BY <1>1 DEF GoesOn, KeepsBelow

\* What a frame on top is about, as a fact about the present.
LEMMA AboutTop ==
    ASSUME RInv, NEW n \in Slot, IsRuntime(n), NEW obj, obj = frame[n].tf.exception_object_or_link,
           NEW m, m = frame[n].reg
    PROVE  AboutAt(obj, m, Referent[n])
BY AboutIs DEF RInv, AllAbout

\* The search, the unwinding and the callouts leave the exception in flight.
LEMMA RewritingStays ==
    ASSUME RInv, RInv', NEW n \in Slot, NEW p, NEW x, TopRewritten(n, p, x)
    PROVE  UNCHANGED Lifetime!vars
<1>1. /\ n = top /\ frame[n].kind = "throw" /\ x.kind = "throw" /\ IsRuntime(n)
      /\ x.reg = frame[n].reg /\ frame'[n] = x /\ exc' = exc
      /\ x.tf.exception_object_or_link = frame[n].tf.exception_object_or_link
  BY DEF TopRewritten, IsRuntime
<1>2. \A j \in Slot : j # n => Holds(j)
  BY DEF TopRewritten, Holds
<1>3. n \in Nat /\ IInv
  BY Depth DEF RInv
<1>4. \A j \in Slot : j < n => Keeps(j)
  BY <1>2, <1>3, HoldsKeeps
<1>5. \A j \in Slot : j > n => ~IsRuntime(j)'
  BY <1>1, <1>2, <1>3, NoneAbove, HoldsFacts
<1>6. AboutAt(x.tf.exception_object_or_link, x.reg, Referent[n])
  BY <1>1, AboutTop
<1>7. GoesOn(n, x)
  BY <1>1, <1>4, <1>5, <1>6, TopGoesOn
<1> QED
  BY <1>1, <1>7, DispatchStays


\* The frame on top is rewritten, and stays about its exception.
LEMMA TopStays ==
    ASSUME RInv, RInv', NEW n \in Slot, n = top, IsRuntime(n), NEW x, x.kind = frame[n].kind,
           frame' = [frame EXCEPT ![n] = x], exc' = exc,
           NEW obj, obj = x.tf.exception_object_or_link, NEW m, m = x.reg, AboutAt(obj, m, Referent[n])
    PROVE  UNCHANGED Lifetime!vars
<1>1. IInv /\ frame \in [Slot -> Frame] /\ n \in Nat
  BY Depth DEF RInv, IInv, TypeOK
<1>2. frame'[n] = x /\ \A j \in Slot : j # n => frame'[j] = frame[j]
  BY <1>1
<1>3. \A j \in Slot : j < n => Keeps(j)
  BY <1>1, <1>2, Depth DEF Keeps, IsRuntime
<1>4. \A j \in Slot : j > n => ~IsRuntime(j)'
  BY <1>1, <1>2, NoneAbove, Depth DEF IsRuntime
<1>5. x.kind \in {"throw", "catch", "destroy"}
  BY DEF IsRuntime
<1>6. AboutAt(x.tf.exception_object_or_link, x.reg, Referent[n])
  OBVIOUS
<1>7. GoesOn(n, x)
  BY <1>2, <1>3, <1>4, <1>5, <1>6, TopGoesOn
<1> QED
  BY <1>7, DispatchStays

\* _fh3_handler is entered, about the same exception.
LEMMA EnterHandlerStays ==
    ASSUME RInv, RInv', Dispatching("visit"), NEW tf, EnterHandler(tf),
           NEW obj, obj = tf.exception_object_or_link, NEW m, m = T.reg, AboutAt(obj, m, Referent[top])
    PROVE  UNCHANGED Lifetime!vars
<1>1. PICK n, d : n \in Slot /\ n = top /\ d = frame[n]
  BY DEF RInv, IInv, TypeOK
<1>2. T = d /\ d \in RuntimeFrame /\ IsRuntime(n) /\ d.kind = "throw"
  BY <1>1, TopThrow DEF RInv
<1> DEFINE x == [d EXCEPT !.pc = "search", !.next = head, !.tf = tf, !.entry = State(d.reg)]
<1>3. x.kind = d.kind /\ x.reg = d.reg /\ x.tf = tf
  BY <1>2 DEF RuntimeFrame
<1>4. frame' = [frame EXCEPT ![n] = x] /\ exc' = exc
  BY <1>1, <1>2 DEF EnterHandler
<1> HIDE DEF x
<1> QED
  BY <1>1, <1>2, <1>3, <1>4, TopStays

\* A catch frame is the nearest to itself, and the only one.
LEMMA AtCatch ==
    ASSUME IInv, NEW r \in Slot, frame[r].kind = "catch"
    PROVE  \A p : NearCatch(r, p) <=> p = r
<1>1. r \in Nat /\ r >= 1 /\ r \in 0..MaxDepth /\ r \in 1..r
  BY SlotIs
<1>2. \A q \in r + 1 .. r : FALSE
  BY <1>1
<1>3. NearCatch(r, r)
  BY <1>1, <1>2 DEF NearCatch, Nearest, IsRuntime
<1> QED
  BY <1>1, <1>3, OneNearest DEF NearCatch

\* What a catch frame refers to makes whatever comes to it be about the same.
LEMMA TakenAbout ==
    ASSUME RInv, NEW r \in Slot, frame[r].kind = "catch",
           NEW obj, obj = frame[r].tf.exception_object_or_link
    PROVE  AboutAt(obj, r, Referent[r]) /\ AboutAt(obj, frame[r].reg, Referent[r])
<1>1. IInv /\ IsRuntime(r)
  BY DEF RInv, IsRuntime
<1>2. PICK m, t : m = frame[r].reg /\ t = Referent[r]
  OBVIOUS
<1>3. AboutAt(obj, m, t)
  BY <1>1, <1>2, AboutTop
<1>4. NearCatch(r, r)
  BY <1>1, AtCatch
<1>5. AboutAt(obj, r, t)
  BY <1>2, <1>3, <1>4 DEF AboutAt
<1> QED
  BY <1>2, <1>3, <1>5

\* A registration is visited, still about the same exception.
LEMMA VisitStays ==
    ASSUME RInv, RInv', VisitFunction \/ VisitCatchFrame PROVE UNCHANGED Lifetime!vars
<1>1. PICK n, d, r, t : n \in Slot /\ n = top /\ d = frame[n] /\ r = d.reg /\ t = Referent[n]
  BY DEF RInv, IInv, TypeOK
<1>2. Dispatching("visit") /\ IInv
  BY DEF VisitFunction, VisitCatchFrame, RInv
<1>3. T = d /\ d \in RuntimeFrame /\ IsRuntime(n) /\ d.tf \in ThrowFrame
  BY <1>1, <1>2, TopThrow DEF RuntimeFrame
<1>4. PICK obj : obj = d.tf.exception_object_or_link
  OBVIOUS
<1>5. AboutAt(obj, r, t)
  BY <1>1, <1>3, <1>4, AboutTop
<1>6. CASE VisitFunction
  <2>1. EnterHandler(d.tf)
    BY <1>3, <1>6 DEF VisitFunction
  <2> QED
    BY <1>1, <1>2, <1>3, <1>4, <1>5, <2>1, EnterHandlerStays
<1>7. CASE VisitCatchFrame
  <2>1. frame[r].kind = "catch" /\ r >= 1 /\ EnterHandler(Arriving(d.tf, r))
    BY <1>1, <1>3, <1>7 DEF VisitCatchFrame
  <2>2. r \in Slot
    BY <1>1, <1>2, <1>3, <2>1, RegBelow
  <2>3. PICK z, y : z = Arriving(d.tf, r) /\ y = z.exception_object_or_link
    OBVIOUS
  <2>4. Null # Link(r) /\ Link(r).to = "link" /\ Link(r).slot = r /\ Null.to = "null"
    BY DEF Null, Link
  <2>5. AboutAt(y, r, t)
    <3>1. CASE obj = Link(r)
      <4>1. y = frame[r].tf.exception_object_or_link
        BY <1>3, <1>4, <2>3, <3>1 DEF Arriving, TakeFrom, ThrowFrame
      <4>2. t = Referent[r]
        BY <1>5, <2>4, <3>1 DEF AboutAt
      <4> QED
        BY <2>1, <2>2, <4>1, <4>2, TakenAbout
    <3>2. CASE obj = Null
      <4>1. y = Link(r)
        BY <1>3, <1>4, <2>3, <2>4, <3>2 DEF Arriving, ThrowFrame
      <4>2. t = Referent[r]
        BY <1>2, <1>5, <2>1, <2>2, <2>4, <3>2, AtCatch DEF AboutAt
      <4> QED
        BY <2>4, <4>1, <4>2 DEF AboutAt
    <3>3. CASE obj # Null /\ obj # Link(r)
      BY <1>4, <1>5, <2>3, <3>3 DEF Arriving
    <3> QED
      BY <3>1, <3>2, <3>3
  <2>6. EnterHandler(z)
    BY <2>1, <2>3
  <2> QED
    BY <1>1, <1>2, <1>3, <2>3, <2>5, <2>6, EnterHandlerStays
<1> QED
  BY <1>6, <1>7

\* _probe_for_exception_object finds a catch frame for a `throw;` that is in no
\* handler: that of an older exception, further down the stack
\* (throw_x86.cpp:119-127).
FindsOther ==
    /\ Dispatching("search") /\ LacksThrowInfo
    /\ T.tf.exception_object_or_link = Null
    /\ Referent[top] = 0
    /\ \E p \in Slot : Probes(p)

\* The exception a rethrow is about is found.
LEMMA ProbeStays ==
    ASSUME RInv, RInv', ~FindsOther, ProbeForObject PROVE UNCHANGED Lifetime!vars
<1>1. PICK n, d, p : n \in Slot /\ n = top /\ d = frame[n] /\ p \in Slot /\ Probes(p)
        /\ frame' = [frame EXCEPT ![n].tf.exception_object_or_link = Link(p)]
  BY DEF RInv, IInv, TypeOK, ProbeForObject
<1>2. Dispatching("search") /\ LacksThrowInfo /\ T.tf.exception_object_or_link = Null /\ exc' = exc /\ IInv
  BY DEF ProbeForObject, RInv
<1>3. /\ IsRuntime(n) /\ frame[n].kind = "throw" /\ T = d /\ d \in RuntimeFrame /\ d.kind = "throw"
      /\ d.pc = "search" /\ d.tf \in ThrowFrame /\ frame \in [Slot -> Frame]
  BY <1>1, <1>2, TopThrow DEF RuntimeFrame
<1>4. PICK r, t : r = d.reg /\ t = Referent[n]
  OBVIOUS
<1>5. PICK link : link = Link(p)
  OBVIOUS
<1> DEFINE x == [d EXCEPT !.tf.exception_object_or_link = link]
<1>6. x.kind = d.kind /\ x.reg = r /\ x.tf.exception_object_or_link = link
  BY <1>3, <1>4 DEF RuntimeFrame, ThrowFrame
<1>7. frame' = [frame EXCEPT ![n] = x]
  BY <1>1, <1>3, <1>5
<1> HIDE DEF x
<1>8. AboutAt(Null, r, t)
  BY <1>1, <1>2, <1>3, <1>4, AboutTop
<1>9. t # 0
  BY <1>1, <1>2, <1>4 DEF FindsOther
<1>10. PICK c : NearCatch(r, c) /\ t = Referent[c]
  BY <1>8, <1>9 DEF AboutAt, Null
<1>11. Catcher(r) /\ r \in Slot
  <2>1. ThrowOf(d, n) /\ r \in Nat /\ (r # 0 => r \in Slot)
    BY <1>1, <1>2, <1>3, <1>4, TopDispatch
  <2>2. Catcher(r)
    BY <1>3, <1>4, <2>1 DEF ThrowOf
  <2> QED
    BY <2>1, <2>2 DEF Catcher
<1>12. c = p
  BY <1>1, <1>2, <1>3, <1>4, <1>10, <1>11, ProbeFinds
<1>14. AboutAt(link, r, t)
  BY <1>5, <1>10, <1>12 DEF AboutAt, Link
<1> QED
  BY <1>1, <1>2, <1>3, <1>4, <1>6, <1>7, <1>14, TopStays

\* Nothing stands between a dispatch and the registration it is at, unless an
\* exception has left the destructor of one.
LEMMA GapHasNone ==
    ASSUME IInv, ~DestructorEscapes, NEW n \in Slot, n = top, frame[n].kind = "throw",
           NEW r \in Slot, r = frame[n].reg, Catcher(r), NEW k \in Slot, r < k, k < n
    PROVE  ~IsRuntime(k)
<1>1. T = frame[n] /\ GapShape(n)
  BY TopDispatch
<1>2. CASE Body(r) < k
  <2>1. frame[k] = Free \/ Abandons(k, r)
    BY <1>1, <1>2 DEF GapShape
  <2>2. ~Abandons(k, r)
    BY <1>1, Depth DEF DestructorEscapes
  <2> QED
    BY <2>1, <2>2 DEF IsRuntime, Free
<1>3. CASE ~(Body(r) < k)
  <2>1. Body(r) \in Nat /\ r \in Nat /\ k \in Nat
    BY UnderCatcher, Depth
  <2>2. ~IsFunction(r) /\ k = r + 1
    BY <1>3, <2>1 DEF Body
  <2>3. frame[k].kind = "funclet"
    <3>1. frame[r].kind = "catch"
      BY <2>2 DEF Catcher
    <3> QED
      BY <2>2, <3>1, UnderCatcher
  <2> QED
    BY <2>3 DEF IsRuntime
<1> QED
  BY <1>2, <1>3

\* What stands between two registrations is abandoning the older one.
LEMMA RuntimeGap ==
    ASSUME IInv, NEW r \in Slot, r \in Registered, r < top, IsFunction(r) \/ IsRuntime(r),
           NEW b, b = Before(r), NEW q \in Slot, b < q, q < r, IsRuntime(q)
    PROVE  Abandons(q, b)
<1>1. /\ Slot \subseteq Nat /\ MaxDepth \in Nat /\ TypeOK /\ top \in Slot
      /\ Registered \subseteq Slot
  BY Depth DEF IInv, TypeOK, Registered
<1>2. /\ b < r /\ b \in Nat /\ (b # 0 => b \in Slot /\ b \in Registered)
      /\ \A j \in Slot : b < j /\ j < r => j \notin Registered
  <2>1. Linked(r)
    BY DEF IInv, Shape, SlotShape
  <2>2. b < r /\ b \in Registered \cup {0} /\ \A j \in Slot : b < j /\ j < r => j \notin Registered
    BY <2>1 DEF Linked
  <2> QED
    BY <1>1, <2>2
<1>3. q \notin Registered
  BY <1>2
<1>4. frame[q].kind = "throw"
  BY <1>3 DEF Registered, IsRuntime, HasBoundary
<1>5. frame[q].pc = "abandon"
  <2>1. q # top
    BY <1>1
  <2>2. frame[q].pc \in {"cleanup", "copy", "abandon"}
    BY <1>4, <2>1 DEF IInv, Shape, OthersWait
  <2> QED
    BY <1>3, <1>4, <2>2 DEF Registered, HasBoundary
<1>6. PICK c : c = frame[q].reg
  OBVIOUS
<1>7. c = Before(q) /\ Linked(q)
  BY <1>4, <1>6 DEF IInv, Shape, SlotShape, IsRuntime, IsFunction, Before
<1>8. c < q /\ c \in Nat /\ (c # 0 => c \in Slot /\ c \in Registered)
      /\ \A j \in Slot : c < j /\ j < q => j \notin Registered
  BY <1>4, <1>6, <1>7, RegBelow DEF Linked, IsRuntime
<1>9. ~(c < b)
  BY <1>1, <1>2, <1>8
<1>10. ~(b < c)
  BY <1>1, <1>2, <1>8
<1>11. c = b
  BY <1>1, <1>2, <1>8, <1>9, <1>10
<1> QED
  BY <1>4, <1>5, <1>6, <1>11 DEF Abandons

\* Where nothing stands between two slots, the same handler is near to both.
LEMMA NearThrough ==
    ASSUME NEW b \in Nat, NEW m \in Nat, b <= m, m <= MaxDepth,
           \A q \in Slot : b < q /\ q <= m => ~IsRuntime(q), NEW obj, NEW t, AboutAt(obj, m, t)
    PROVE  AboutAt(obj, b, t)
<1>1. \A q \in 1..m : q \in Slot
  BY SlotIs
<1>2. \A p : Nearest(b, p) <=> Nearest(m, p)
  <2>1. ASSUME NEW p, Nearest(m, p) PROVE Nearest(b, p)
    <3>1. p \in 1..m /\ IsRuntime(p) /\ \A q \in p + 1 .. m : ~IsRuntime(q)
      BY <2>1 DEF Nearest
    <3>2. p \in 1..b
      BY <1>1, <3>1
    <3> QED
      BY <3>1, <3>2 DEF Nearest
  <2>2. ASSUME NEW p, Nearest(b, p) PROVE Nearest(m, p)
    <3>1. p \in 1..b /\ IsRuntime(p) /\ \A q \in p + 1 .. b : ~IsRuntime(q)
      BY <2>2 DEF Nearest
    <3>2. \A q \in p + 1 .. m : q \in 1..m /\ (q \in p + 1 .. b \/ b < q)
      BY <3>1
    <3>3. p \in 1..m
      BY <3>1
    <3> QED
      BY <1>1, <3>1, <3>2, <3>3 DEF Nearest
  <2> QED
    BY <2>1, <2>2
<1>3. \A p : NearCatch(b, p) <=> NearCatch(m, p)
  BY <1>2 DEF NearCatch
<1> QED
  BY <1>3 DEF AboutAt

\* A dispatch that passes a function stays about its exception.
LEMMA PassFunctionStays ==
    ASSUME RInv, RInv', ~DestructorEscapes, ~DestructorEscapes', PassFunction
    PROVE  UNCHANGED Lifetime!vars
<1>1. PICK n, d, r, t : n \in Slot /\ n = top /\ d = frame[n] /\ r = d.reg /\ t = Referent[n]
  BY DEF RInv, IInv, TypeOK
<1>2. Dispatching("unwind") /\ IInv /\ exc' = exc
  BY DEF PassFunction, NothingHere, Unwound, RInv
<1>3. T = d /\ d \in RuntimeFrame /\ IsRuntime(n) /\ frame[n].kind = "throw"
  BY <1>1, <1>2, TopThrow DEF RuntimeFrame
<1>4. IsFunction(r) /\ PassRegistration(d.tf)
  BY <1>1, <1>3 DEF PassFunction
<1>5. r \in Slot /\ Catcher(r) /\ r \in Registered
  <2>1. ThrowOf(d, n) /\ r \in Nat /\ (r # 0 => r \in Slot /\ r \in Registered)
    BY <1>1, <1>2, <1>3, TopDispatch
  <2>2. d.pc = "unwind"
    BY <1>1, <1>2, <1>3 DEF Dispatching
  <2>3. Catcher(r)
    BY <1>1, <2>1, <2>2 DEF ThrowOf
  <2> QED
    BY <2>1, <2>3 DEF Catcher
<1>6. PICK x, b : x = frame'[n] /\ b = Before(r)
  OBVIOUS
<1>7. /\ x.kind = "throw" /\ x.tf = d.tf /\ x.reg = b /\ b \in Nat /\ b < r
      /\ r \in Nat /\ n \in Nat /\ r < n
      /\ \A j \in Slot : j < r => frame'[j] = frame[j]
      /\ \A j \in Slot : j >= r /\ IsRuntime(j)' => j = n
  BY <1>1, <1>2, <1>3, <1>4, <1>5, <1>6, PassLeaves
<1>8. top' = n
  BY <1>1, <1>4 DEF PassRegistration
<1>9. \A q \in Slot : b < q /\ q < r => ~IsRuntime(q)
  <2> SUFFICES ASSUME NEW q \in Slot, b < q, q < r, IsRuntime(q) PROVE FALSE
    OBVIOUS
  <2>1. Abandons(q, b)
    BY <1>1, <1>2, <1>4, <1>5, <1>6, <1>7, RuntimeGap
  <2>2. frame'[q] = frame[q]
    BY <1>7
  <2>3. Abandons(q, b)'
    BY <2>1, <2>2 DEF Abandons
  <2>4. frame'[top'].kind = "throw" /\ frame'[top'].reg = b /\ q # top'
    BY <1>6, <1>7, <1>8, Depth
  <2> QED
    BY <2>3, <2>4 DEF DestructorEscapes, Abandons, T
<1>10. \A q \in Slot : b < q /\ q <= r => ~IsRuntime(q)
  <2>1. ~IsRuntime(r)
    BY <1>4 DEF IsFunction, IsRuntime
  <2>2. \A q \in Slot : q <= r => q < r \/ q = r
    BY <1>7, Depth
  <2> QED
    BY <1>9, <2>1, <2>2
<1>11. PICK obj : obj = d.tf.exception_object_or_link
  OBVIOUS
<1>12. AboutAt(obj, r, t)
  BY <1>1, <1>3, <1>11, AboutTop
<1>13. AboutAt(obj, b, t)
  <2>1. b <= r /\ r <= MaxDepth
    BY <1>5, <1>7, SlotIs
  <2> QED
    BY <1>7, <1>10, <1>12, <2>1, NearThrough
<1>14. \A j \in Slot : j < n => Keeps(j)
  <2> SUFFICES ASSUME NEW j \in Slot, j < n PROVE Keeps(j)
    OBVIOUS
  <2>1. CASE j < r
    BY <1>7, <2>1 DEF Keeps, IsRuntime
  <2>2. CASE ~(j < r)
    <3>1. j \in Nat /\ j >= r /\ j # n
      BY <1>7, <2>2, Depth
    <3>2. ~IsRuntime(j)'
      BY <1>7, <3>1
    <3>3. ~IsRuntime(j)
      <4>1. CASE j = r
        BY <1>4, <4>1 DEF IsFunction, IsRuntime
      <4>2. CASE j # r
        <5>1. r < j
          BY <1>7, <3>1, <4>2
        <5> QED
          BY <1>1, <1>2, <1>3, <1>5, <5>1, GapHasNone
      <4> QED
        BY <4>1, <4>2
    <3> QED
      BY <3>2, <3>3 DEF Keeps
  <2> QED
    BY <2>1, <2>2
<1>15. \A j \in Slot : j > n => ~IsRuntime(j)'
  <2>1. \A j \in Slot : j > n => j >= r /\ j # n
    BY <1>7, Depth
  <2> QED
    BY <1>7, <2>1
<1>16. AboutAt(x.tf.exception_object_or_link, x.reg, Referent[n])
  BY <1>1, <1>7, <1>11, <1>13
<1>17. GoesOn(n, x)
  BY <1>1, <1>3, <1>6, <1>7, <1>14, <1>15, <1>16, TopGoesOn
<1> QED
  BY <1>1, <1>2, <1>3, <1>7, <1>17, DispatchStays

\* Where a dispatch in search of a handler refers to nothing, the handler it is
\* at does not either.
NullShape(k) ==
    /\ frame[k].kind = "throw" /\ frame[k].pc # "visit"
    /\ frame[k].reg \in Slot /\ frame[frame[k].reg].kind = "catch"
    /\ frame[k].tf.exception_object_or_link = Null
    => frame[frame[k].reg].tf.exception_object_or_link = Null

Nulls == \A k \in Slot : NullShape(k)

\* So it is after every outcome of a step.
LEMMA NullsStep ==
    ASSUME IInv, Nulls, NEW n, NEW m, NEW x, Outcome(n, m, x) PROVE Nulls'
<1>1. /\ n \in Int /\ \A j \in Slot : j < n => Holds(j)
      /\ \A k \in Slot : k >= n /\ IsRuntime(k)' => k = m
      /\ m \in Slot => /\ m >= n /\ frame'[m] = x /\ x.reg \in Nat /\ x.reg < n
                       /\ x.kind = "throw" /\ x.pc # "visit" => Searching(m, x)
  BY DEF Outcome, Leads
<1>2. ASSUME NEW k \in Slot, frame'[k].kind = "throw", frame'[k].pc # "visit",
             frame'[k].reg \in Slot, frame'[frame'[k].reg].kind = "catch",
             frame'[k].tf.exception_object_or_link = Null
      PROVE  frame'[frame'[k].reg].tf.exception_object_or_link = Null
  <2>1. k \in Int /\ IsRuntime(k)'
    BY <1>2, Depth DEF IsRuntime
  <2>2. PICK d, r : d = frame'[k] /\ r = d.reg
    OBVIOUS
  <2>3. /\ r \in Slot /\ r \in Int /\ d.kind = "throw" /\ d.pc # "visit" /\ frame'[r].kind = "catch"
        /\ d.tf.exception_object_or_link = Null
    <3>1. /\ r \in Slot /\ d.kind = "throw" /\ d.pc # "visit" /\ frame'[r].kind = "catch"
          /\ d.tf.exception_object_or_link = Null
      BY <1>2, <2>2
    <3> QED
      BY <3>1, Depth
  <2>4. ASSUME r < n PROVE frame[r].kind = "catch" /\ frame'[r] = frame[r]
    <3>1. frame[r].kind = "catch"
      BY <1>1, <2>3, <2>4, HoldsFacts
    <3>2. IsRuntime(r)
      BY <3>1 DEF IsRuntime
    <3> QED
      BY <1>1, <2>3, <2>4, <3>1, <3>2, HoldsFacts
  <2>5. CASE k < n
    <3>1. IsRuntime(k) /\ d = frame[k]
      BY <1>1, <2>1, <2>2, <2>5, HoldsFacts
    <3>2. r < k
      BY <2>2, <3>1, RegBelow
    <3>3. r < n
      BY <1>1, <2>1, <2>3, <2>5, <3>2
    <3>4. frame[r].tf.exception_object_or_link = Null
      BY <2>2, <2>3, <2>4, <3>1, <3>3 DEF Nulls, NullShape
    <3> QED
      BY <2>2, <2>4, <3>3, <3>4
  <2>6. CASE ~(k < n)
    <3>1. k = m /\ m \in Slot /\ d = x
      BY <1>1, <2>1, <2>2, <2>6
    <3>2. r < n
      BY <1>1, <2>2, <3>1
    <3>3. Searching(m, x)
      BY <1>1, <2>3, <3>1
    <3>4. CASE frame[m].kind = "throw" /\ frame[m].pc # "visit" /\ x.reg = frame[m].reg /\ NothingFrom(x, frame[m])
      <4>1. frame[m].reg = r /\ frame[m].tf.exception_object_or_link = Null
        BY <2>2, <2>3, <3>1, <3>4 DEF NothingFrom
      <4>2. frame[r].tf.exception_object_or_link = Null
        BY <2>3, <2>4, <3>1, <3>2, <3>4, <4>1 DEF Nulls, NullShape
      <4> QED
        BY <2>2, <2>4, <3>2, <4>2
    <3>5. CASE frame[x.reg].kind = "catch" => NothingFrom(x, frame[x.reg])
      <4>1. x.reg = r /\ frame[r].kind = "catch"
        BY <2>2, <2>4, <3>1, <3>2
      <4>2. frame[r].tf.exception_object_or_link = Null
        BY <2>3, <3>1, <3>5, <4>1 DEF NothingFrom
      <4> QED
        BY <2>2, <2>4, <3>2, <4>2
    <3> QED
      BY <3>3, <3>4, <3>5 DEF Searching
  <2> QED
    BY <2>5, <2>6
<1>3. ASSUME NEW k \in Slot PROVE NullShape(k)'
  BY <1>2 DEF NullShape
<1> QED
  BY <1>3 DEF Nulls

LEMMA InitNulls == Init => Nulls
<1> SUFFICES ASSUME Init PROVE Nulls
  OBVIOUS
<1>1. \A k \in Slot : frame[k].kind # "throw"
  BY DEF Init, Free
<1> QED
  BY <1>1 DEF Nulls, NullShape

LEMMA NextNulls == IInv /\ Links /\ Nulls /\ [Next]_vars => Nulls'
<1> SUFFICES ASSUME IInv, Links, Nulls, [Next]_vars PROVE Nulls'
  OBVIOUS
<1>1. PICK n, m, x : Outcome(n, m, x)
  BY NextOutcome
<1> QED
  BY <1>1, NullsStep

\* What is destroyed is not alive any more.
LEMMA DestroyedAlive ==
    ASSUME IInv, NEW tf, exc' = DestroyedBy(tf) PROVE Alive' \subseteq Alive
<1>1. exc \in [Slot -> Types \cup {NoInfo}]
  BY DEF IInv, TypeOK
<1>2. \A t \in Slot : exc'[t] = exc[t] \/ exc'[t] = NoInfo
  BY <1>1 DEF DestroyedBy
<1> QED
  BY <1>2 DEF Alive

\* A dispatch in slot n passes the catch frame in slot r, and refers to obj then,
\* still about the same exception.
PassesCatch(n, r, tf) ==
    /\ n = top /\ frame[n].kind = "throw" /\ r = T.reg /\ frame[r].kind = "catch"
    /\ PassRegistration(tf)
    /\ AboutAt(tf.exception_object_or_link, frame[r].reg, Referent[n])

\* The handler is abandoned.
LEMMA PassesAbandons ==
    ASSUME RInv, RInv', ~DestructorEscapes, Alive' \subseteq Alive,
           NEW n \in Slot, NEW r \in Slot, NEW tf, PassesCatch(n, r, tf)
    PROVE  Lifetime!AbandonHandler
<1>1. /\ n = top /\ frame[n].kind = "throw" /\ r = T.reg /\ frame[r].kind = "catch"
      /\ PassRegistration(tf) /\ IInv /\ IInv' /\ Links /\ Links' /\ IsRuntime(r) /\ IsRuntime(n)
  BY DEF PassesCatch, RInv, IsRuntime
<1>2. PICK obj, t, m : /\ obj = tf.exception_object_or_link /\ t = Referent[n] /\ m = frame[r].reg
                       /\ AboutAt(obj, m, t)
  BY DEF PassesCatch
<1>3. Catcher(r) /\ r = frame[n].reg
  BY <1>1, SlotIs DEF Catcher, T
<1>4. m = Before(r)
  BY <1>1, <1>2 DEF Before, IsFunction
<1>5. /\ frame'[n].kind = "throw" /\ frame'[n].tf = tf /\ frame'[n].reg = m /\ m \in Nat /\ m < r
      /\ r \in Nat /\ n \in Nat /\ r < n
      /\ \A j \in Slot : j < r => frame'[j] = frame[j]
      /\ \A j \in Slot : j >= r /\ IsRuntime(j)' => j = n
  BY <1>1, <1>3, <1>4, PassLeaves
<1>6. KeepsBelow(r)
  BY <1>5 DEF KeepsBelow, Keeps, IsRuntime
<1>7. View /\ View'
  BY BothViews
<1>8. SameBelow(r)
  BY <1>1, <1>5, <1>6, <1>7, KeptShowsSame
<1>9. IsRuntime(n)' /\ ~IsRuntime(r)'
  <2>1. IsRuntime(n)'
    BY <1>5 DEF IsRuntime
  <2> QED
    BY <1>5, <2>1
<1>10. Referent'[n] = Referent[n]
  <2>1. r \in Int /\ m <= MaxDepth /\ obj = frame'[n].tf.exception_object_or_link /\ m = frame'[n].reg
    BY <1>2, <1>5, SlotIs
  <2>2. Referent'[n] = t
    BY <1>1, <1>2, <1>5, <1>6, <1>9, <2>1, Follows
  <2> QED
    BY <1>2, <2>2
<1>11. NewestAt(n) /\ NewestAt(n)'
  <2>1. \A j \in Slot : j > n => ~IsRuntime(j)
    BY <1>1, NoneAbove
  <2>2. \A j \in Slot : j > n => j >= r /\ j # n
    BY <1>5, Depth
  <2> QED
    BY <1>1, <1>5, <1>9, <2>1, <2>2 DEF NewestAt
<1>12. \A j \in Slot : r < j /\ j < n => ~IsRuntime(j) /\ ~IsRuntime(j)'
  <2>1. \A j \in Slot : r < j /\ j < n => ~IsRuntime(j)
    BY <1>1, <1>3, GapHasNone
  <2>2. \A j \in Slot : r < j /\ j < n => j >= r /\ j # n
    BY <1>5, Depth
  <2> QED
    BY <1>5, <2>1, <2>2
<1>13. PICK u, v : u = "catch" /\ v = "throw"
  OBVIOUS
<1>14. SecondGoes(r, n, u, v)
  BY <1>1, <1>5, <1>8, <1>9, <1>10, <1>11, <1>12, <1>13 DEF SecondGoes
<1>15. PICK s \in Seq(Lifetime!Activity), i, j \in 0..MaxDepth :
            /\ Activities = Append(Append(s, Activity(u, i)), Activity(v, j))
            /\ Activities' = Append(s, Activity(v, j))
            /\ Activity(u, i) \in Lifetime!Activity /\ Activity(v, j) \in Lifetime!Activity
  BY <1>7, <1>14, SecondRemoved
<1> QED
  BY <1>7, <1>13, <1>15, IsAbandonHandler

\* A rethrow that passes the handler whose exception it throws again, or another
\* exception that passes a handler.
LEMMA CatchFrameAbandons ==
    ASSUME RInv, RInv', Nulls, ~DestructorEscapes, TakeFromCatchFrame \/ PassCatchFrame
    PROVE  Lifetime!AbandonHandler
<1>1. PICK n, d, r, t, obj : /\ n \in Slot /\ n = top /\ d = frame[n] /\ r = d.reg /\ t = Referent[n]
                             /\ obj = d.tf.exception_object_or_link
  BY DEF RInv, IInv, TypeOK
<1>2. PICK pc : pc \in {"unwind", "abandon"} /\ Dispatching(pc)
  BY DEF TakeFromCatchFrame, PassCatchFrame, NothingHere, Unwound
<1>3. /\ IsRuntime(n) /\ frame[n].kind = "throw" /\ T = d /\ d \in RuntimeFrame /\ d.kind = "throw"
      /\ d.pc = pc /\ d.tf \in ThrowFrame /\ IInv
  BY <1>1, <1>2, TopThrow DEF RuntimeFrame, RInv
<1>4. r \in Slot /\ frame[r].kind = "catch"
  <2>1. ThrowOf(d, n) /\ r \in Nat /\ (r # 0 => r \in Slot)
    BY <1>1, <1>3, TopDispatch
  <2>2. Catcher(r)
    BY <1>1, <1>2, <1>3, <2>1 DEF ThrowOf
  <2>3. CASE TakeFromCatchFrame
    BY <1>1, <1>3, <2>1, <2>2, <2>3 DEF TakeFromCatchFrame, Catcher
  <2>4. CASE PassCatchFrame
    BY <1>1, <1>3, <2>1, <2>2, <2>4 DEF PassCatchFrame, Dispatching, ThrowOf, Catcher
  <2> QED
    BY <2>3, <2>4
<1>5. PICK m, got : m = frame[r].reg /\ got = frame[r].tf.exception_object_or_link
  OBVIOUS
<1>6. AboutAt(obj, r, t) /\ AboutAt(got, m, Referent[r])
  BY <1>1, <1>3, <1>4, <1>5, AboutTop, TakenAbout
<1>7. CASE TakeFromCatchFrame
  <2>1. obj = Link(r) /\ PassRegistration(TakeFrom(d.tf, r)) /\ exc' = exc
    BY <1>1, <1>3, <1>7 DEF TakeFromCatchFrame, IsRethrow
  <2>2. PICK tf : tf = TakeFrom(d.tf, r)
    OBVIOUS
  <2>3. tf.exception_object_or_link = got
    BY <1>3, <1>5, <2>2 DEF TakeFrom, ThrowFrame
  <2>4. t = Referent[r]
    BY <1>6, <2>1 DEF AboutAt, Link
  <2>5. PassesCatch(n, r, tf)
    BY <1>1, <1>3, <1>4, <1>5, <1>6, <2>1, <2>2, <2>3, <2>4 DEF PassesCatch
  <2>6. Alive' \subseteq Alive
    BY <2>1 DEF Alive
  <2> QED
    BY <1>1, <1>4, <2>5, <2>6, PassesAbandons
<1>8. CASE PassCatchFrame
  <2>1. PassRegistration(d.tf) /\ exc' = DestroyedBy(frame[r].tf) /\ d.pc = "abandon"
    BY <1>1, <1>3, <1>8 DEF PassCatchFrame, Dispatching
  <2>2. Alive' \subseteq Alive
    BY <1>3, <2>1, DestroyedAlive
  <2>3. obj # Link(r) /\ (obj.to = "null" => obj = Null)
    BY <1>1, <1>3, <2>1 DEF RInv, Links, LinkShape, Refers, Destroys
  <2>4. AboutAt(obj, m, t)
    <3>1. CASE obj.to = "null"
      <4>1. got = Null
        BY <1>1, <1>3, <1>4, <1>5, <2>1, <2>3, <3>1 DEF Nulls, NullShape
      <4>2. t = Referent[r]
        BY <1>3, <1>4, <1>6, <3>1, AtCatch DEF AboutAt
      <4> QED
        BY <1>6, <2>3, <3>1, <4>1, <4>2
    <3>2. CASE obj.to # "null"
      BY <1>6, <3>2 DEF AboutAt
    <3> QED
      BY <3>1, <3>2
  <2>5. PassesCatch(n, r, d.tf)
    BY <1>1, <1>3, <1>4, <1>5, <2>1, <2>4 DEF PassesCatch
  <2> QED
    BY <1>1, <1>4, <2>2, <2>5, PassesAbandons
<1> QED
  BY <1>7, <1>8

----------------------------------------------------------------------------
(* Steps that ExceptionLifetime sees.                                      *)

\* Every handler is about some exception.
AllRooted == \A c \in Slot : frame[c].kind \in {"catch", "destroy"} => Referent[c] \in Slot

LEMMA RootedAll == IInv /\ Links /\ Owners /\ Roots => AllRooted
BY Rooted DEF AllRooted

\* The handler a dispatch has chosen is called.
LEMMA CallHandlerCatches ==
    ASSUME RInv, RInv', Roots', CallHandler PROVE Lifetime!Catch
<1>0. PICK n \in Slot : n = top
  BY DEF RInv, IInv, TypeOK
<1>1. PICK d, t : n = top /\ d = frame[n] /\ t = Referent[n]
  BY <1>0
<1>2. /\ IsRuntime(n) /\ frame[n].kind = "throw" /\ T = d /\ d \in RuntimeFrame /\ d.kind = "throw"
      /\ frame \in [Slot -> Frame] /\ IInv /\ exc' = exc
  BY <1>1, TopThrow DEF CallHandler, RInv
<1>3. PICK m \in Slot : m = n + 1 /\ m # n /\ m > n
  BY <1>1, <1>2, TopDispatch, Depth DEF ThrowOf, Slot
<1>4. PICK x, y :
        /\ x = [d EXCEPT !.kind = "catch", !.pc = "handler", !.next = head,
                         !.entry = -1, !.target = -1, !.clause = 0]
        /\ y = [kind |-> "funclet", block |-> T.block, primary |-> Primary(top)]
  OBVIOUS
<1>41. x.kind = "catch" /\ x.reg = d.reg /\ x.tf = d.tf /\ y.kind = "funclet"
  <2>1. d \in RuntimeFrame
    BY <1>2
  <2>2. x.kind = "catch" /\ x.reg = d.reg /\ x.tf = d.tf
    BY <1>4, <2>1 DEF RuntimeFrame
  <2>3. y.kind = "funclet"
    BY <1>4
  <2> QED
    BY <2>2, <2>3
<1>5. frame' = [frame EXCEPT ![n] = x, ![m] = y]
  <2>1. T = d /\ top = n /\ top + 1 = m
    BY <1>1, <1>2, <1>3
  <2> QED
    BY <1>4, <2>1 DEF CallHandler
<1>6. frame'[n] = x /\ frame'[m] = y /\ \A q \in Slot : q # n /\ q # m => frame'[q] = frame[q]
  BY <1>1, <1>2, <1>3, <1>5
<1>7. \A j \in Slot : j < n => Keeps(j)
  <2>1. \A j \in Slot : j < n => j # n /\ j # m
    BY <1>3, Depth
  <2> QED
    BY <1>6, <2>1 DEF Keeps, IsRuntime
<1>8. \A j \in Slot : j > n => ~IsRuntime(j)'
  <2>1. ~IsRuntime(m)'
    BY <1>41, <1>6 DEF IsRuntime
  <2>2. \A j \in Slot : j > n /\ j # m => ~IsRuntime(j) /\ j # n
    BY <1>1, <1>2, NoneAbove, Depth
  <2> QED
    BY <1>6, <2>1, <2>2 DEF IsRuntime
<1>9. PICK obj, r : obj = d.tf.exception_object_or_link /\ r = d.reg
  OBVIOUS
<1>10. AboutAt(obj, r, t)
  BY <1>1, <1>2, <1>9, AboutTop
<1>11. AboutAt(x.tf.exception_object_or_link, x.reg, Referent[n])
  BY <1>1, <1>41, <1>9, <1>10
<1>12. GoesOn(n, x)
  BY <1>1, <1>2, <1>41, <1>6, <1>7, <1>8, <1>11, TopGoesOn
<1>13. /\ NewestAt(n) /\ NewestAt(n)' /\ SameBelow(n)
       /\ Referent'[n] = Referent[n] /\ View /\ View'
  BY <1>12, WhatGoesOn
<1>14. PICK v, w : v = "throw" /\ w = "catch" /\ v = frame[n].kind /\ w = frame'[n].kind
  BY <1>2, <1>41, <1>6
<1>15. PICK s \in Seq(Lifetime!Activity), u \in 0..MaxDepth :
            /\ u = Referent[n]
            /\ Activities = Append(s, Activity(v, u)) /\ Activity(v, u) \in Lifetime!Activity
            /\ Activities' = Append(s, Activity(w, u)) /\ Activity(w, u) \in Lifetime!Activity
  BY <1>13, <1>14, NewestChanges
<1>16. u # 0
  <2>1. AllRooted'
    BY RootedAll, PTL DEF RInv
  <2>2. Referent'[n] \in Slot
    BY <1>14, <2>1 DEF AllRooted
  <2> QED
    BY <1>13, <1>15, <2>2, SlotIs
<1> QED
  BY <1>2, <1>14, <1>15, <1>16, IsCatch

\* The handler returns.
LEMMA CatchReturnLeaves ==
    ASSUME RInv, RInv', CatchReturn PROVE Lifetime!LeaveHandler
<1>0. IInv /\ IInv' /\ Links /\ Links' /\ exc' = exc /\ View /\ View'
  BY BothViews DEF CatchReturn, RInv
<1>1. PICK m \in Slot : m = top
  BY <1>0 DEF IInv, TypeOK
<1>2. frame[m].kind = "funclet"
  BY <1>1 DEF CatchReturn, Running, InHandlerState, IsUser, IsFunction
<1>3. PICK n \in Slot : n = m - 1 /\ frame[n].kind = "catch" /\ n # m
  BY <1>0, <1>1, <1>2, TopFacts, Depth
<1>4. PICK d, obj, r, t : d = frame[n] /\ obj = d.tf.exception_object_or_link /\ r = d.reg /\ t = Referent[n]
  OBVIOUS
<1>5. d \in RuntimeFrame /\ frame \in [Slot -> Frame] /\ IsRuntime(n) /\ d.kind = "catch"
  BY <1>0, <1>3, <1>4, Kinds DEF IInv, TypeOK, IsRuntime
<1> DEFINE x == [d EXCEPT !.kind = "destroy", !.pc = "destroy"]
<1>6. x.kind = "destroy" /\ x.reg = d.reg /\ x.tf = d.tf
  BY <1>5 DEF RuntimeFrame
<1>7. frame' = [frame EXCEPT ![m] = Free, ![n] = x]
  <2>1. frame' = [frame EXCEPT ![m] = Free, ![n] = [@ EXCEPT !.kind = "destroy", !.pc = "destroy"]]
    BY <1>1, <1>3 DEF CatchReturn
  <2> QED
    BY <1>3, <1>4, <2>1
<1> HIDE DEF x
<1>8. frame'[n] = x /\ frame'[m] = Free /\ \A q \in Slot : q # n /\ q # m => frame'[q] = frame[q]
  BY <1>3, <1>5, <1>7
<1>9. r \in Nat /\ r < n /\ n \in Nat /\ m \in Nat /\ n \in Int /\ r <= MaxDepth
  BY <1>0, <1>4, <1>5, RegsBelow, Depth DEF AllRegs
<1>10. KeepsBelow(n)
  <2>1. \A j \in Slot : j < n => j # n /\ j # m
    BY <1>3, <1>9, Depth
  <2> QED
    BY <1>8, <2>1 DEF KeepsBelow, Keeps, IsRuntime
<1>11. SameBelow(n)
  BY <1>0, <1>9, <1>10, KeptShowsSame
<1>12. AboutAt(obj, r, t)
  BY <1>4, <1>5, AboutTop
<1>13. IsRuntime(n)'
  BY <1>6, <1>8 DEF IsRuntime
<1>14. Referent'[n] = Referent[n]
  <2>1. obj = frame'[n].tf.exception_object_or_link /\ r = frame'[n].reg
    BY <1>4, <1>6, <1>8
  <2>2. Referent'[n] = t
    BY <1>0, <1>9, <1>10, <1>12, <1>13, <2>1, Follows
  <2> QED
    BY <1>4, <2>2
<1>15. NewestAt(n) /\ NewestAt(n)'
  <2>1. ASSUME NEW j \in Slot, j > n PROVE ~IsRuntime(j) /\ ~IsRuntime(j)'
    <3>1. CASE j = m
      BY <1>2, <1>8, <3>1 DEF IsRuntime, Free
    <3>2. CASE j # m
      <4>1. j > m /\ j # n
        <5>1. j \in Nat /\ n \in Nat /\ m = n + 1
          BY <1>3, <1>9, Depth
        <5> QED
          BY <2>1, <3>2, <5>1
      <4>2. ~IsRuntime(j)
        BY <1>0, <1>1, <4>1, NoneAbove
      <4> QED
        BY <1>8, <3>2, <4>1, <4>2 DEF IsRuntime
    <3> QED
      BY <3>1, <3>2
  <2> QED
    BY <1>5, <1>13, <2>1 DEF NewestAt
<1>16. PICK v, w : v = "catch" /\ w = "destroy" /\ v = frame[n].kind /\ w = frame'[n].kind
  BY <1>3, <1>6, <1>8
<1>17. PICK s \in Seq(Lifetime!Activity), u \in 0..MaxDepth :
            /\ Activities = Append(s, Activity(v, u)) /\ Activity(v, u) \in Lifetime!Activity
            /\ Activities' = Append(s, Activity(w, u)) /\ Activity(w, u) \in Lifetime!Activity
  BY <1>0, <1>11, <1>14, <1>15, <1>16, NewestChanges
<1> QED
  BY <1>0, <1>16, <1>17, IsLeaveHandler

\* The exception is destroyed, unless another frame owns it, and the handler is
\* over.
LEMMA ContinueEnds ==
    ASSUME RInv, RInv', ContinueAfterException PROVE Lifetime!EndHandler
<1>0. IInv /\ IInv' /\ Links /\ Links' /\ View /\ View'
  BY BothViews DEF RInv
<1>1. PICK n, d, p : n \in Slot /\ n = top /\ d = frame[n] /\ p = d.tf.primary_frame_base
  BY <1>0 DEF IInv, TypeOK
<1>2. d.kind = "destroy" /\ T = d /\ frame \in [Slot -> Frame] /\ exc' = DestroyedBy(d.tf)
  BY <1>0, <1>1 DEF ContinueAfterException, T, IInv, TypeOK
<1>3. p \in Slot /\ IsFunction(p) /\ frame[p] \in FunctionFrame /\ p # n
  <2>1. HandlingOf(d, n)
    BY <1>0, <1>1, <1>2 DEF IInv, Shape, SlotShape, Handles, HandlingShape
  <2>2. p \in Slot /\ IsFunction(p) /\ p < n
    BY <1>1, <2>1 DEF HandlingOf
  <2>3. p \in Nat /\ n \in Nat
    BY <1>1, <2>2, Depth
  <2> QED
    BY <1>0, <2>2, <2>3, Kinds DEF IInv
<1>4. PICK s : s = Eh[frame[p].fn].next[Block(frame[p].fn, d.block).try_low]
  OBVIOUS
<1>5. frame' = [frame EXCEPT ![n] = Free, ![p].state = s]
  BY <1>1, <1>2, <1>4 DEF ContinueAfterException
<1>6. /\ frame'[n] = Free /\ frame'[p] = [frame[p] EXCEPT !.state = s]
      /\ \A q \in Slot : q # n /\ q # p => frame'[q] = frame[q]
  BY <1>1, <1>2, <1>3, <1>5
<1>7. IsFunction(p)' /\ ~IsRuntime(n)'
  BY <1>3, <1>6 DEF IsFunction, IsRuntime, FunctionFrame, Free
<1>8. ASSUME NEW j \in Slot, j # n PROVE Keeps(j)
  <2>1. Holds(j)
    BY <1>3, <1>6, <1>7, <1>8 DEF Holds
  <2> QED
    BY <2>1, HoldsKeeps
<1>9. n \in Int /\ KeepsBelow(n)
  BY <1>1, <1>8, Depth DEF KeepsBelow
<1>10. SameBelow(n)
  BY <1>0, <1>9, KeptShowsSame
<1>11. \A j \in Slot : j > n => ~IsRuntime(j)
  BY <1>0, <1>1, NoneAbove
<1>12. NewestAt(n)
  BY <1>1, <1>2, <1>11 DEF NewestAt, IsRuntime
<1>13. \A j \in Slot : j >= n => ~IsRuntime(j)'
  <2>1. \A j \in Slot : j >= n => j = n \/ j > n
    BY <1>9, Depth
  <2> QED
    BY <1>7, <1>8, <1>11, <2>1 DEF Keeps
<1>14. PICK v : v = "destroy" /\ v = frame[n].kind
  BY <1>1, <1>2
<1>15. PICK a \in Seq(Lifetime!Activity), t \in 0..MaxDepth :
            /\ Activities = Append(a, Activity(v, t)) /\ Activity(v, t) \in Lifetime!Activity
            /\ Activities' = a
  BY <1>0, <1>1, <1>10, <1>12, <1>13, <1>14, NewestRemoved
<1>16. Alive' \subseteq Alive
  BY <1>0, <1>2, DestroyedAlive
<1> QED
  BY <1>0, <1>14, <1>15, <1>16, IsEndHandler

\* A throw frame is pushed that is about t.
PushesAbout(m, x, t) ==
    /\ Pushes(m, x) /\ x.kind = "throw" /\ x.reg = head
    /\ AboutAt(x.tf.exception_object_or_link, head, t)

\* It is a new activity.
LEMMA ThrowAdds ==
    ASSUME RInv, RInv', NEW m \in Slot, NEW x, NEW t, PushesAbout(m, x, t)
    PROVE  Activities' = Append(Activities, Activity("throw", t))
<1>0. IInv /\ IInv' /\ Links /\ Links' /\ View /\ View'
  BY BothViews DEF RInv
<1>1. PICK obj, r : /\ obj = x.tf.exception_object_or_link /\ r = head /\ AboutAt(obj, r, t)
                    /\ x.reg = r /\ x.kind = "throw"
  BY DEF PushesAbout
<1>2. /\ frame' = [frame EXCEPT ![m] = x] /\ frame \in [Slot -> Frame] /\ m = top + 1 /\ top \in Nat
      /\ m \in Nat
  BY <1>0, Depth DEF IInv, TypeOK, PushesAbout, Pushes
<1>3. frame'[m] = x /\ \A k \in Slot : k # m => frame'[k] = frame[k]
  BY <1>2
<1>4. r \in Nat /\ r < m /\ r <= MaxDepth /\ m \in Int
  BY <1>0, <1>1, <1>2, TopFacts, SlotIs DEF IInv, TypeOK
<1>5. KeepsBelow(m)
  BY <1>2, <1>3, Depth DEF KeepsBelow, Keeps, IsRuntime
<1>6. SameBelow(m)
  BY <1>0, <1>4, <1>5, KeptShowsSame
<1>7. \A j \in Slot : j >= m => ~IsRuntime(j)
  <2>1. \A j \in Slot : j >= m => j > top
    BY <1>2, Depth
  <2> QED
    BY <1>0, <2>1, NoneAbove
<1>8. IsRuntime(m)'
  BY <1>1, <1>3 DEF IsRuntime
<1>9. NewestAt(m)'
  <2>1. \A j \in Slot : j > m => j >= m /\ j # m
    BY <1>2, Depth
  <2> QED
    BY <1>3, <1>7, <1>8, <2>1 DEF NewestAt, IsRuntime
<1>10. Referent'[m] = t
  <2>1. obj = frame'[m].tf.exception_object_or_link /\ r = frame'[m].reg
    BY <1>1, <1>3
  <2> QED
    BY <1>0, <1>1, <1>4, <1>5, <1>8, <2>1, Follows
<1>11. PICK w : w = "throw" /\ w = frame'[m].kind
  BY <1>1, <1>3
<1>12. Activities' = Append(Activities, Activity(w, Referent'[m]))
  BY <1>0, <1>6, <1>7, <1>9, <1>11, NewestAdded
<1> QED
  BY <1>10, <1>11, <1>12

\* `throw` raises an exception that is not alive yet.
LEMMA ThrowRaises ==
    ASSUME RInv, RInv', NEW t \in Types, Throw(t) PROVE \E e \in Slot : Lifetime!Raise(e)
<1>1. PICK n \in Slot : n = top
  BY DEF RInv, IInv, TypeOK
<1>2. /\ Running /\ PushThrowFrame(Object(n), t) /\ Object(n) \in ObjOrLink
      /\ exc' = [exc EXCEPT ![n] = t] /\ t # NoInfo /\ t \in Types \cup {NoInfo}
      /\ exc \in [Slot -> Types \cup {NoInfo}] /\ IInv
  <2>1. Object(n) \in ObjOrLink
    BY Depth DEF Object, ObjOrLink, Slot
  <2>2. t # NoInfo
    BY ThrowInfoAssumption
  <2> QED
    BY <1>1, <2>1, <2>2 DEF Throw, RInv, IInv, TypeOK
<1>3. PICK m \in Slot : \E x :
        /\ Pushes(m, x) /\ x.kind = "throw" /\ x.reg = head
        /\ x.tf.exception_object_or_link = Object(n) /\ x.tf.throw_info_if_owner = t
  BY <1>2, ThrowFramePushed
<1>4. PICK x :
        /\ Pushes(m, x) /\ x.kind = "throw" /\ x.reg = head
        /\ x.tf.exception_object_or_link = Object(n) /\ x.tf.throw_info_if_owner = t
  BY <1>3
<1>5. PushesAbout(m, x, n)
  BY <1>4 DEF PushesAbout, AboutAt, Object
<1>6. Activities' = Append(Activities, Activity("throw", n))
  BY <1>5, ThrowAdds
<1>7. n \notin Alive
  <2> SUFFICES ASSUME n \in Alive PROVE FALSE
    OBVIOUS
  <2>1. PICK k \in Slot : OwnerOf(k, n)
    BY DEF RInv, Owners, Alive
  <2>2. k > n /\ IsRuntime(k)
    BY <2>1, Depth DEF OwnerOf, Owns
  <2> QED
    BY <1>1, <1>2, <2>2, NoneAbove
<1>8. Alive' = Alive \cup {n}
  BY <1>2 DEF Alive
<1>9. n # 0
  BY SlotIs
<1>10. Lifetime!Raise(n)
  BY <1>6, <1>7, <1>8, <1>9 DEF Lifetime!Raise, Alive, Activity, Role
<1> QED
  BY <1>10

\* The newest runtime frame shows in the newest activity.
LEMMA NewestShows ==
    ASSUME View, NEW p \in Slot, NewestAt(p), NEW w, w = frame[p].kind, NEW t, t = Referent[p]
    PROVE  \E s \in Seq(Lifetime!Activity) :
                Activities = Append(s, Activity(w, t)) /\ Activity(w, t) \in Lifetime!Activity
<1>1. PICK a, c : a = ActivitiesUpTo /\ c = Acts
  OBVIOUS
<1>2. c[p] = Activity(w, t) /\ c[p] # Idle /\ t \in 0..MaxDepth
  BY <1>1 DEF View, NewestAt, Activity
<1>3. Builds(a, c) /\ \A j \in Slot : c[j] \in SlotActivity
  BY <1>1 DEF View
<1>4. \A j \in Slot : j > p => c[j] = Idle
  BY <1>1 DEF View, NewestAt
<1>5. a[MaxDepth] = Append(a[p - 1], c[p])
  BY <1>2, <1>3, <1>4, BuiltLast
<1>6. a[p - 1] \in Seq(Lifetime!Activity)
  <2>1. p - 1 \in 0..MaxDepth
    BY SlotIs
  <2> QED
    BY <1>3, <2>1, BuiltType
<1>7. Activity(w, t) \in Lifetime!Activity
  BY <1>2, ActivityIs DEF NewestAt, IsRuntime
<1> QED
  BY <1>1, <1>2, <1>5, <1>6, <1>7 DEF Activities

\* Without one there is no activity.
LEMMA NothingShows ==
    ASSUME View, \A p \in Slot : ~IsRuntime(p) PROVE Activities = <<>>
<1>1. PICK a, c : a = ActivitiesUpTo /\ c = Acts
  OBVIOUS
<1>2. Builds(a, c) /\ \A j \in Slot : c[j] = Idle
  BY <1>1 DEF View
<1>3. a[MaxDepth] = a[0]
  <2>1. MaxDepth \in 0..MaxDepth /\ 0 \in 0..MaxDepth
    BY SlotIs
  <2> QED
    BY <1>2, <2>1, BuiltSkips
<1>4. a[0] = <<>>
  BY <1>2 DEF Builds
<1> QED
  BY <1>1, <1>3, <1>4 DEF Activities

\* The handler user code is in, if any, is the newest runtime frame.
LEMMA HandlerIsNewest ==
    ASSUME IInv, Running
    PROVE  \A p \in Slot : Nearest(head, p) <=> NewestAt(p)
<1>1. PICK n \in Slot : n = top /\ n \in Nat
  BY Depth DEF IInv, TypeOK
<1>2. head \in Nat /\ head <= n /\ (head = n \/ head = n - 1) /\ ~IsRuntime(n)
  <2>1. frame[n].kind \in {"function", "funclet"}
    BY <1>1 DEF Running, IsUser
  <2>2. ~IsRuntime(n)
    BY <2>1 DEF IsRuntime
  <2>3. head = n \/ head = n - 1
    BY <1>1, <2>1, TopFacts DEF IsFunction
  <2>4. head \in Nat
    BY Depth DEF IInv, TypeOK
  <2> QED
    BY <1>1, <2>2, <2>3, <2>4
<1>3. ASSUME NEW q \in Slot, q > head PROVE ~IsRuntime(q)
  <2>1. q = n \/ q > n
    BY <1>1, <1>2, <1>3, Depth
  <2> QED
    BY <1>1, <1>2, <2>1, NoneAbove
<1>4. ASSUME NEW p \in Slot, Nearest(head, p) PROVE NewestAt(p)
  <2>1. p \in 1..head /\ IsRuntime(p) /\ \A q \in p + 1 .. head : ~IsRuntime(q)
    BY <1>4 DEF Nearest
  <2>2. \A q \in Slot : q > p => q \in p + 1 .. head \/ q > head
    BY <1>2, <2>1, SlotIs
  <2> QED
    BY <1>3, <2>1, <2>2 DEF NewestAt
<1>5. ASSUME NEW p \in Slot, NewestAt(p) PROVE Nearest(head, p)
  <2>1. IsRuntime(p) /\ \A q \in Slot : q > p => ~IsRuntime(q)
    BY <1>5 DEF NewestAt
  <2>2. p \in 1..head
    BY <1>2, <1>3, <2>1, SlotIs
  <2>3. \A q \in p + 1 .. head : q \in Slot /\ q > p
    BY <1>1, <1>2, <2>2, SlotIs
  <2> QED
    BY <2>1, <2>2, <2>3 DEF Nearest
<1> QED
  BY <1>4, <1>5

\* If there is a runtime frame there is a newest.
LEMMA SomeNewest ==
    ASSUME IInv, NEW k \in Slot, IsRuntime(k) PROVE \E p \in Slot : NewestAt(p)
<1> DEFINE S == {MaxDepth - j : j \in {i \in Slot : IsRuntime(i)}}
<1>1. S \in SUBSET Nat
  BY SlotIs
<1>2. MaxDepth - k \in S
  OBVIOUS
<1>3. PICK x \in S : \A y \in S : x <= y
  <2> HIDE DEF S
  <2> QED
    BY <1>1, <1>2, Least
<1>4. PICK p \in Slot : IsRuntime(p) /\ x = MaxDepth - p
  BY <1>3
<1>5. ASSUME NEW j \in Slot, j > p PROVE ~IsRuntime(j)
  <2> SUFFICES ASSUME IsRuntime(j) PROVE FALSE
    OBVIOUS
  <2>1. MaxDepth - j \in S
    OBVIOUS
  <2>2. MaxDepth - p <= MaxDepth - j
    BY <1>3, <1>4, <2>1
  <2> QED
    BY <1>5, <2>2, SlotIs
<1> QED
  BY <1>4, <1>5 DEF NewestAt

\* `throw;` raises again what the handler it is in is about.
LEMMA RethrowReraises ==
    ASSUME RInv, RInv', Rethrow PROVE Lifetime!Reraise
<1>0. IInv /\ View
  BY BothViews DEF RInv
<1>1. Running /\ PushThrowFrame(Null, NoInfo) /\ Null \in ObjOrLink /\ exc' = exc /\ Null.to = "null"
  BY <1>0, ThrowArguments DEF Rethrow, Null
<1>2. PICK m \in Slot : \E x :
        /\ Pushes(m, x) /\ x.kind = "throw" /\ x.reg = head
        /\ x.tf.exception_object_or_link = Null /\ x.tf.throw_info_if_owner = NoInfo
  BY <1>0, <1>1, ThrowFramePushed
<1>3. PICK x :
        /\ Pushes(m, x) /\ x.kind = "throw" /\ x.reg = head
        /\ x.tf.exception_object_or_link = Null /\ x.tf.throw_info_if_owner = NoInfo
  BY <1>2
<1>4. \A p \in Slot : Nearest(head, p) <=> NewestAt(p)
  BY <1>0, <1>1, HandlerIsNewest
<1>5. \A p : NearCatch(head, p) => p \in Slot
  <2>1. head \in Nat /\ head <= MaxDepth
    BY <1>0, Depth DEF IInv, TypeOK
  <2> QED
    BY <2>1, SlotIs DEF NearCatch, Nearest
<1>6. ASSUME NEW t, AboutAt(Null, head, t)
      PROVE  Activities' = Append(Activities, Activity("throw", t))
  <2>1. PushesAbout(m, x, t)
    BY <1>3, <1>6 DEF PushesAbout
  <2> QED
    BY <2>1, ThrowAdds
<1>7. CASE \A p \in Slot : ~IsRuntime(p)
  <2>1. Activities = <<>>
    BY <1>0, <1>7, NothingShows
  <2>2. AboutAt(Null, head, 0)
    BY <1>1, <1>5, <1>7 DEF AboutAt, NearCatch, Nearest
  <2>3. Activities' = Append(Activities, Activity("throw", 0))
    BY <1>6, <2>2
  <2> QED
    BY <1>1, <2>1, <2>3 DEF Lifetime!Reraise, Activity, Role
<1>8. CASE \E p \in Slot : IsRuntime(p)
  <2>1. PICK p \in Slot : NewestAt(p)
    BY <1>0, <1>8, SomeNewest
  <2>2. PICK w, u : w = frame[p].kind /\ u = Referent[p]
    OBVIOUS
  <2>3. PICK s \in Seq(Lifetime!Activity) :
            Activities = Append(s, Activity(w, u)) /\ Activity(w, u) \in Lifetime!Activity
    BY <1>0, <2>1, <2>2, NewestShows
  <2>4. PICK a, e : a = Activities /\ e = Activity(w, u)
    OBVIOUS
  <2>5. a # <<>> /\ a[Len(a)] = e /\ e \in Lifetime!Activity
    BY <2>3, <2>4, SeqLast
  <2>6. w \in {"throw", "catch", "destroy"}
    BY <2>1, <2>2 DEF NewestAt, IsRuntime
  <2>7. e.about = u /\ (e.role = "handling" <=> w = "catch")
    BY <2>4, <2>6 DEF Activity, Role
  <2>8. PICK t : t = IF w = "catch" THEN u ELSE 0
    OBVIOUS
  <2>9. AboutAt(Null, head, t)
    <3>1. Nearest(head, p)
      BY <1>4, <2>1
    <3>2. CASE w = "catch"
      BY <1>1, <2>2, <2>8, <3>1, <3>2 DEF AboutAt, NearCatch
    <3>3. CASE w # "catch"
      <4>1. ASSUME NEW q, NearCatch(head, q) PROVE FALSE
        <5>1. Nearest(head, q)
          BY <4>1 DEF NearCatch
        <5>2. q = p
          BY <1>0, <3>1, <5>1, OneNearest DEF IInv, TypeOK
        <5> QED
          BY <2>2, <3>3, <4>1, <5>2 DEF NearCatch
      <4> QED
        BY <1>1, <2>8, <3>3, <4>1 DEF AboutAt
    <3> QED
      BY <3>2, <3>3
  <2>10. Activities' = Append(a, [role |-> "flying", about |-> t])
    BY <1>6, <2>4, <2>9 DEF Activity, Role
  <2>11. t = IF a # <<>> /\ a[Len(a)].role = "handling" THEN a[Len(a)].about ELSE 0
    BY <2>5, <2>7, <2>8
  <2> QED
    BY <1>1, <2>4, <2>10, <2>11 DEF Lifetime!Reraise, Lifetime!Newest
<1> QED
  BY <1>7, <1>8

----------------------------------------------------------------------------
(* The x86 runtime implements ExceptionLifetime.                           *)

\* Stopping touches nothing.
LEMMA StillStays ==
    ASSUME RInv, RInv',
           \/ RejectTable \/ VisitForeign \/ SearchFails \/ NoexceptViolation
           \/ Halted \/ UNCHANGED vars
    PROVE  UNCHANGED Lifetime!vars
<1>1. UNCHANGED frame
  BY StillFrame
<1>2. exc' = exc
  BY DEF RejectTable, VisitForeign, SearchFails, NoexceptViolation, Halted, Halt, vars
<1>3. \A j \in Slot : Keeps(j)
  BY <1>1 DEF Keeps, IsRuntime
<1> QED
  BY <1>2, <1>3, NothingStays

\* The dispatcher at the frame it is at.
LEMMA RewritesStay ==
    ASSUME RInv, RInv',
           \/ SelectHandler \/ SelectNothing \/ CleanupReturns \/ CopyReturns \/ AbandonException
           \/ UnwindEdge \/ BindCatchVariable
    PROVE  UNCHANGED Lifetime!vars
<1>1. IInv
  BY DEF RInv
<1>2. PICK n, p, x : n \in Slot /\ TopRewritten(n, p, x)
  BY <1>1, SelectHandlerRewrites, MarchRewrites, WorkRewrites
<1> QED
  BY <1>2, RewritingStays

\* A step of the program.
LEMMA UserLifetime ==
    ASSUME RInv, RInv', UserCode
    PROVE  UNCHANGED Lifetime!vars \/ Lifetime!Next
<1>1. CASE (\E f \in Fns : Call(f)) \/ (\E s : Enter(s)) \/ Leave \/ Return
  BY <1>1, CodeStays
<1>2. CASE CatchReturn
  BY <1>2, CatchReturnLeaves DEF Lifetime!Next
<1>3. ASSUME NEW t \in Types, Throw(t) PROVE \E e \in Slot : Lifetime!Raise(e)
  BY <1>3, ThrowRaises
<1>4. CASE \E t \in Types : Throw(t)
  BY <1>3, <1>4 DEF Lifetime!Next
<1>5. CASE Rethrow
  BY <1>5, RethrowReraises DEF Lifetime!Next
<1> QED
  BY <1>1, <1>2, <1>4, <1>5 DEF UserCode

\* A step of the runtime.
LEMMA RuntimeLifetime ==
    ASSUME RInv, RInv', Roots', Nulls, ~DestructorEscapes, ~DestructorEscapes', ~FindsOther, Runtime
    PROVE  UNCHANGED Lifetime!vars \/ Lifetime!Next
<1>1. CASE VisitFunction \/ VisitCatchFrame
  BY <1>1, VisitStays
<1>2. CASE RejectTable \/ VisitForeign \/ SearchFails \/ NoexceptViolation
  BY <1>2, StillStays
<1>3. CASE ProbeForObject
  BY <1>3, ProbeStays
<1>4. CASE \/ SelectHandler \/ SelectNothing \/ CleanupReturns \/ CopyReturns \/ AbandonException
           \/ UnwindEdge \/ BindCatchVariable
  BY <1>4, RewritesStay
<1>5. CASE PassFunction
  BY <1>5, PassFunctionStays
<1>6. CASE TakeFromCatchFrame \/ PassCatchFrame
  BY <1>6, CatchFrameAbandons DEF Lifetime!Next
<1>7. CASE CallHandler
  BY <1>7, CallHandlerCatches DEF Lifetime!Next
<1>8. CASE ContinueAfterException
  BY <1>8, ContinueEnds DEF Lifetime!Next
<1> QED
  BY <1>1, <1>2, <1>3, <1>4, <1>5, <1>6, <1>7, <1>8 DEF Runtime

LEMMA NextLifetime ==
    /\ RInv /\ RInv' /\ Roots' /\ Nulls /\ ~DestructorEscapes /\ ~DestructorEscapes' /\ ~FindsOther
    /\ [Next]_vars
    => [Lifetime!Next]_(Lifetime!vars)
<1> SUFFICES ASSUME RInv, RInv', Roots', Nulls, ~DestructorEscapes, ~DestructorEscapes', ~FindsOther,
                    [Next]_vars
             PROVE  UNCHANGED Lifetime!vars \/ Lifetime!Next
  OBVIOUS
<1>1. CASE UserCode
  BY <1>1, UserLifetime
<1>2. CASE Runtime
  BY <1>2, RuntimeLifetime
<1>3. CASE Halted \/ UNCHANGED vars
  BY <1>3, StillStays
<1> QED
  BY <1>1, <1>2, <1>3 DEF Next

\* At first nothing is thrown.
LEMMA InitLifetime == Init => Lifetime!Init
<1> SUFFICES ASSUME Init PROVE Lifetime!Init
  OBVIOUS
<1>1. View
  BY InitIInv, InitLinks, InitOwners, ViewHolds
<1>2. \A k \in Slot : ~IsRuntime(k)
  BY DEF Init, IsRuntime, Free
<1>3. Activities = <<>>
  BY <1>1, <1>2, NothingShows
<1>4. {t \in Slot : exc[t] # NoInfo} = {}
  BY DEF Init
<1> QED
  BY <1>3, <1>4 DEF Lifetime!Init

\* The x86 runtime implements ExceptionLifetime: an exception object is destroyed
\* by the step that ends the last activity about it, and no other.  A throw
\* (throw_x86.cpp:372-379) is a Raise, `throw;` a Reraise, the call of a handler a
\* Catch and its return a LeaveHandler; the end of the frame that destroys the
\* exception ends the handler (fh3_x86.asm:39-40), and a dispatch that crosses a
\* catch frame abandons it (throw_x86.cpp:329-356).  Every other step changes no
\* activity and no exception object.  Excluded are the steps by which an
\* exception comes to have two owners, a handler chosen for no exception, and a
\* `throw;` within a destructor or a copy constructor the runtime has called,
\* where the probe of the frames (throw_x86.cpp:119-127) finds an exception
\* although ExceptionLifetime, like the x64 runtime, has none there.
THEOREM RefinesLifetime ==
    Spec /\ []OwnershipRespected /\ []~CatchesNothing /\ []~FindsOther => ImplementsLifetime
<1>1. Init => RInv /\ Roots /\ Nulls /\ Lifetime!Init
  BY InitIInv, InitLinks, InitOwners, InitRoots, InitNulls, InitLifetime DEF RInv
<1>2. RInv /\ Roots /\ Nulls /\ OwnershipRespected /\ ~CatchesNothing /\ [Next]_vars
        => RInv' /\ Roots' /\ Nulls'
  BY NextIInv, NextLinks, NextOwners, NextRoots, NextNulls DEF RInv
<1>3. OwnershipRespected => ~DestructorEscapes
  BY DEF OwnershipRespected
<1>4. /\ RInv /\ RInv' /\ Roots' /\ Nulls /\ ~DestructorEscapes /\ ~DestructorEscapes' /\ ~FindsOther
      /\ [Next]_vars
      => [Lifetime!Next]_(Lifetime!vars)
  BY NextLifetime
<1> QED
  BY <1>1, <1>2, <1>3, <1>4, PTL DEF Spec, ImplementsLifetime, Lifetime!Spec

===============================================================================
