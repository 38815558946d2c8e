--------------------------- MODULE EhTablesProofs ---------------------------
(***************************************************************************)
(* The unwind chains and the try statements of every well-formed table:    *)
(* what a frame handler finds by comparing state numbers is what the       *)
(* nesting of the function's statements says.                              *)
(***************************************************************************)
EXTENDS EhTables, WellFoundedInduction, TLAPS

R == OpToRel(<, Nat)

\* A set of numbers has a least element.
LEMMA Least ==
    ASSUME NEW T \in SUBSET Nat, T # {}
    PROVE  \E m \in T : \A n \in T : m <= n
<1>1. \A a, b \in Nat : <<a, b>> \in R <=> a < b
  BY DEF R, OpToRel
<1>2. IsWellFoundedOn(R, Nat)
  BY NatLessThanWellFounded DEF R
<1>3. \E x \in T : \A y \in T : ~(<<y, x>> \in R)
  BY <1>2, WFMin
<1>4. PICK x \in T : \A y \in T : ~(<<y, x>> \in R)
  BY <1>3
<1>5. \A y \in T : ~(y < x)
  BY <1>1, <1>4
<1> QED
  BY <1>5

----------------------------------------------------------------------------
(* The unwind chain of a state.                                            *)

\* The sets of states that no edge leads out of.
Closed(f) ==
    {S \in SUBSET (0..Eh[f].last) : \A r \in S : Eh[f].next[r] \in S \cup {-1}}

LEMMA StateFacts ==
    ASSUME NEW f \in Fns, NEW s \in 0..Eh[f].last
    PROVE  /\ Eh[f].last \in Nat /\ s \in Nat /\ s \in States(f)
           /\ Eh[f].next[s] \in States(f) /\ Eh[f].next[s] < s
           /\ Eh[f].next[s] # -1 => Eh[f].next[s] \in 0..Eh[f].last
BY EhAssumption DEF States

LEMMA ChainOf ==
    ASSUME NEW f \in Fns, NEW s \in States(f)
    PROVE  Chain(f, s) = {r \in 0..Eh[f].last : \A S \in Closed(f) : s \in S \cup {-1} => r \in S}
BY DEF Chain, UnwindChain, Closed

\* The states up to s are closed, so a chain leads downwards.
LEMMA ChainBelow ==
    ASSUME NEW f \in Fns, NEW s \in States(f), NEW r \in Chain(f, s)
    PROVE  r \in 0..Eh[f].last /\ r <= s
<1>1. Eh[f].last \in Nat \cup {-1} /\ s \in Int /\ s <= Eh[f].last /\ -1 <= s
  BY EhAssumption DEF States
<1>2. 0..s \in Closed(f)
  <2>1. 0..s \subseteq 0..Eh[f].last
    BY <1>1
  <2>2. \A q \in 0..s : Eh[f].next[q] \in (0..s) \cup {-1}
    <3> SUFFICES ASSUME NEW q \in 0..s PROVE Eh[f].next[q] \in (0..s) \cup {-1}
      OBVIOUS
    <3>1. q \in 0..Eh[f].last
      BY <2>1
    <3>2. Eh[f].next[q] \in States(f) /\ Eh[f].next[q] < q
      BY <3>1, StateFacts
    <3> QED
      BY <1>1, <3>2 DEF States
  <2> QED
    BY <2>1, <2>2 DEF Closed
<1>3. s \in (0..s) \cup {-1}
  BY <1>1
<1>4. r \in 0..Eh[f].last /\ r \in 0..s
  BY <1>2, <1>3, ChainOf
<1> QED
  BY <1>1, <1>4

LEMMA ChainEmpty ==
    ASSUME NEW f \in Fns
    PROVE  Chain(f, -1) = {} /\ Owed(f, -1) = {}
<1>1. -1 \in States(f)
  BY EhAssumption DEF States
<1>2. \A r \in Chain(f, -1) : r \in 0..Eh[f].last /\ r <= -1
  BY <1>1, ChainBelow
<1>3. Chain(f, -1) = {}
  BY <1>2, EhAssumption
<1> QED
  BY <1>3 DEF Owed

\* The chain of a state is that state, then the chain of the one its edge leads to.
LEMMA ChainStep ==
    ASSUME NEW f \in Fns, NEW s \in 0..Eh[f].last
    PROVE  /\ Chain(f, s) = {s} \cup Chain(f, Eh[f].next[s])
           /\ s \notin Chain(f, Eh[f].next[s])
<1> DEFINE n == Eh[f].next[s]
<1>1. s \in Nat /\ s \in States(f) /\ n \in States(f) /\ n < s /\ Eh[f].last \in Nat
  BY StateFacts
<1>2. ASSUME NEW r \in Chain(f, s)
      PROVE  r \in {s} \cup Chain(f, n)
  <2> SUFFICES ASSUME r # s PROVE r \in Chain(f, n)
    OBVIOUS
  <2>1. r \in 0..Eh[f].last
    BY <1>1, ChainOf
  <2>2. ASSUME NEW S \in Closed(f), n \in S \cup {-1}
        PROVE  r \in S
    <3>1. S \cup {s} \in Closed(f)
      BY <2>2 DEF Closed
    <3>2. r \in S \cup {s}
      BY <1>1, <3>1, ChainOf
    <3> QED
      BY <3>2
  <2> QED
    BY <1>1, <2>1, <2>2, ChainOf
<1>3. s \in Chain(f, s)
  <2>1. \A S \in Closed(f) : s \in S \cup {-1} => s \in S
    BY <1>1
  <2> QED
    BY <1>1, <2>1, ChainOf
<1>4. ASSUME NEW r \in Chain(f, n)
      PROVE  r \in Chain(f, s)
  <2>1. r \in 0..Eh[f].last
    BY <1>1, ChainOf
  <2>2. ASSUME NEW S \in Closed(f), s \in S \cup {-1}
        PROVE  r \in S
    <3>1. s \in S
      BY <1>1, <2>2
    <3>2. n \in S \cup {-1}
      BY <3>1 DEF Closed
    <3> QED
      BY <1>1, <3>2, ChainOf
  <2> QED
    BY <1>1, <2>1, <2>2, ChainOf
<1>5. s \notin Chain(f, n)
  <2>1. \A r \in Chain(f, n) : r <= n /\ r \in 0..Eh[f].last
    BY <1>1, ChainBelow
  <2> QED
    BY <1>1, <2>1 DEF States
<1> QED
  BY <1>2, <1>3, <1>4, <1>5

LEMMA OwedStep ==
    ASSUME NEW f \in Fns, NEW s \in 0..Eh[f].last
    PROVE  /\ Owed(f, s) = Owed(f, Eh[f].next[s]) \cup ({s} \cap Eh[f].cleanup)
           /\ Owed(f, Eh[f].next[s]) = Owed(f, s) \ {s}
BY ChainStep DEF Owed

----------------------------------------------------------------------------
(* Try statements.                                                         *)

LEMMA BlockFacts ==
    ASSUME NEW f \in Fns, NEW i \in Blocks(f)
    PROVE  LET b == Block(f, i)
           IN  /\ b.try_low \in Nat /\ b.try_high \in Nat /\ b.catch_high \in Nat
               /\ Eh[f].last \in Nat
               /\ b.try_low <= b.try_high /\ b.try_high < b.catch_high
               /\ b.catch_high <= Eh[f].last
               /\ b.try_low \in 0..Eh[f].last
               /\ b.try_low \notin Eh[f].cleanup
               /\ \A s \in b.try_low + 1 .. b.try_high : b.try_low <= Eh[f].next[s]
               /\ \A s \in b.try_high + 1 .. Eh[f].last : ~InTry(f, i, Eh[f].next[s])
<1>1. Eh[f].try_blocks[i] \in TryBlock /\ Eh[f].last \in Nat \cup {-1}
  BY EhAssumption DEF Blocks
<1> DEFINE b == Block(f, i)
<1>2. b.try_low \in Nat /\ b.try_high \in Nat /\ b.catch_high \in Nat
  BY <1>1 DEF TryBlock, Block
<1>3. /\ b.try_low <= b.try_high /\ b.try_high < b.catch_high
      /\ b.catch_high <= Eh[f].last
      /\ b.try_low \notin Eh[f].cleanup
      /\ \A s \in b.try_low + 1 .. b.try_high : b.try_low <= Eh[f].next[s]
      /\ \A s \in b.try_high + 1 .. Eh[f].last : ~InTry(f, i, Eh[f].next[s])
  BY WellFormedAssumption DEF WellFormed
<1> HIDE DEF b
<1>4. b.try_low \in 0..Eh[f].last /\ Eh[f].last \in Nat
  BY <1>1, <1>2, <1>3
<1> QED
  BY <1>2, <1>3, <1>4 DEF b

\* How two blocks of a function lie.
LEMMA BlockOrder ==
    ASSUME NEW f \in Fns, NEW i \in Blocks(f), NEW j \in Blocks(f), i < j
    PROVE  LET a == Block(f, i)
               b == Block(f, j)
           IN  \/ a.catch_high < b.try_low
               \/ b.try_low < a.try_low /\ a.catch_high <= b.try_high
               \/ a.try_high + 1 < b.try_low
BY WellFormedAssumption DEF WellFormed, HandlerState

\* A state is in a try statement exactly when the first state of the try is on
\* its unwind chain: the comparison of numbers in process_catch_block asks for
\* the nesting.
LEMMA InTryIsChain ==
    ASSUME NEW f \in Fns, NEW i \in Blocks(f), NEW s \in States(f)
    PROVE  InTry(f, i, s) <=> Block(f, i).try_low \in Chain(f, s)
<1> DEFINE low == Block(f, i).try_low
           high == Block(f, i).try_high
<1>1. /\ low \in Nat /\ high \in Nat /\ low <= high /\ Eh[f].last \in Nat
      /\ low \in 0..Eh[f].last /\ high < Eh[f].last
      /\ \A q \in low + 1 .. high : low <= Eh[f].next[q]
      /\ \A q \in high + 1 .. Eh[f].last : ~InTry(f, i, Eh[f].next[q])
  BY BlockFacts
<1>2. s \in Int /\ -1 <= s /\ s <= Eh[f].last
  BY <1>1 DEF States
<1>3. \A q : InTry(f, i, q) <=> low <= q /\ q <= high
  BY DEF InTry
<1> HIDE DEF low, high
<1>4. ASSUME InTry(f, i, s), low \notin Chain(f, s)
      PROVE  FALSE
  <2> DEFINE T == {q \in low..high : low \notin Chain(f, q)}
  <2>1. s \in T /\ T \in SUBSET Nat
    BY <1>1, <1>2, <1>3, <1>4
  <2>2. PICK m \in T : \A n \in T : m <= n
    <3> HIDE DEF T
    <3> QED
      BY <2>1, Least
  <2>3. m \in 0..Eh[f].last /\ m \in low..high
    BY <1>1, <2>2
  <2>4. /\ Chain(f, m) = {m} \cup Chain(f, Eh[f].next[m])
        /\ Eh[f].next[m] < m /\ Eh[f].next[m] \in Int
    BY <2>3, ChainStep, StateFacts DEF States
  <2>5. m # low
    BY <2>2, <2>4
  <2>6. Eh[f].next[m] \in low..high
    BY <1>1, <2>3, <2>4, <2>5
  <2>7. Eh[f].next[m] \in T
    BY <2>2, <2>4, <2>6
  <2> QED
    BY <1>1, <2>2, <2>3, <2>4, <2>7
<1>5. ASSUME low \in Chain(f, s), ~InTry(f, i, s)
      PROVE  FALSE
  <2> DEFINE S == {q \in 0..Eh[f].last : ~InTry(f, i, q) /\ q <= s}
  <2>1. \A q \in S : Eh[f].next[q] \in S \cup {-1}
    <3> SUFFICES ASSUME NEW q \in S, Eh[f].next[q] # -1 PROVE Eh[f].next[q] \in S
      OBVIOUS
    <3>1. Eh[f].next[q] \in 0..Eh[f].last /\ Eh[f].next[q] < q /\ q <= s
      BY StateFacts
    <3>2. CASE q < low
      BY <1>1, <1>2, <1>3, <3>1, <3>2
    <3>3. CASE high < q
      <4>1. q \in high + 1 .. Eh[f].last
        BY <1>1, <3>3
      <4> QED
        BY <1>1, <1>2, <3>1, <4>1
    <3> QED
      BY <1>1, <1>3, <3>2, <3>3
  <2>2. S \in Closed(f)
    BY <2>1 DEF Closed
  <2>3. s \in S \cup {-1}
    BY <1>2, <1>5
  <2>4. low \in S
    <3> HIDE DEF S
    <3> QED
      BY <2>2, <2>3, <1>5, ChainOf
  <2> QED
    BY <1>1, <1>3, <2>4
<1> QED
  BY <1>4, <1>5 DEF low

\* The state before a try statement, which an x64 handler caches for the frame,
\* is in the same try statements as the state the try was entered from.
LEMMA BeforeTry ==
    ASSUME NEW f \in Fns, NEW i \in Blocks(f), NEW b \in Blocks(f)
    PROVE  InTry(f, i, Block(f, b).try_low - 1)
           <=> InTry(f, i, Eh[f].next[Block(f, b).try_low])
<1> DEFINE low == Block(f, b).try_low
           out == Eh[f].next[low]
           ilow == Block(f, i).try_low
           ihigh == Block(f, i).try_high
<1>1. /\ low \in Nat /\ low \in 0..Eh[f].last /\ Block(f, b).try_high \in Nat
      /\ low <= Block(f, b).try_high /\ Block(f, b).try_high < Block(f, b).catch_high
      /\ Block(f, b).catch_high \in Nat
  BY BlockFacts
<1>2. /\ ilow \in Nat /\ ihigh \in Nat /\ ilow <= ihigh /\ Eh[f].last \in Nat
      /\ ihigh < Block(f, i).catch_high /\ Block(f, i).catch_high \in Nat
      /\ \A q \in ilow + 1 .. ihigh : ilow <= Eh[f].next[q]
      /\ \A q \in ihigh + 1 .. Eh[f].last : ~InTry(f, i, Eh[f].next[q])
  BY BlockFacts
<1>3. out < low /\ out \in Int
  BY <1>1, StateFacts DEF States
<1>4. \A q : InTry(f, i, q) <=> ilow <= q /\ q <= ihigh
  BY DEF InTry
<1>5. i \in Int /\ b \in Int
  BY DEF Blocks
<1>6. CASE low <= ilow
  BY <1>1, <1>2, <1>3, <1>4, <1>6
<1>7. CASE ihigh < low
  <2>1. low \in ihigh + 1 .. Eh[f].last
    BY <1>1, <1>2, <1>7
  <2>2. ~InTry(f, i, out)
    BY <1>2, <2>1
  <2>3. low # ihigh + 1
    <3>1. CASE i < b
      BY <1>1, <1>2, <3>1, BlockOrder
    <3>2. CASE b < i
      BY <1>1, <1>2, <3>2, BlockOrder
    <3>3. CASE i = b
      BY <1>1, <1>2, <3>3
    <3> QED
      BY <1>5, <3>1, <3>2, <3>3
  <2> QED
    BY <1>1, <1>2, <1>4, <1>7, <2>2, <2>3
<1>8. CASE ilow < low /\ low <= ihigh
  <2>1. low \in ilow + 1 .. ihigh
    BY <1>1, <1>2, <1>8
  <2>2. ilow <= out
    BY <1>2, <2>1
  <2> QED
    BY <1>1, <1>2, <1>3, <1>4, <1>8, <2>2
<1> QED
  BY <1>1, <1>2, <1>6, <1>7, <1>8

\* Of two try statements around one state, the one with the smaller number is
\* the inner one.
LEMMA InnerFirst ==
    ASSUME NEW f \in Fns, NEW i \in Blocks(f), NEW j \in Blocks(f), i < j,
           NEW s \in States(f), InTry(f, i, s), InTry(f, j, s)
    PROVE  Block(f, j).try_low <= Block(f, i).try_low
<1>1. /\ Block(f, i).try_high < Block(f, i).catch_high
      /\ Block(f, i).catch_high \in Nat /\ Block(f, i).try_high \in Nat
      /\ Block(f, i).try_low \in Nat
      /\ Block(f, j).try_low \in Nat /\ s \in Int
  BY BlockFacts DEF States
<1>2. Block(f, i).try_low <= s /\ s <= Block(f, i).try_high /\ Block(f, j).try_low <= s
  BY DEF InTry
<1> QED
  BY <1>1, <1>2, BlockOrder

\* A try statement owns no cleanup of its own.
LEMMA OwedAtTry ==
    ASSUME NEW f \in Fns, NEW b \in Blocks(f)
    PROVE  Owed(f, Block(f, b).try_low) = Owed(f, Eh[f].next[Block(f, b).try_low])
<1>1. Block(f, b).try_low \in 0..Eh[f].last /\ Block(f, b).try_low \notin Eh[f].cleanup
  BY BlockFacts
<1> QED
  BY <1>1, OwedStep

----------------------------------------------------------------------------
(* Chains are linear.                                                      *)

LEMMA ChainClosed ==
    ASSUME NEW f \in Fns, NEW s \in States(f)
    PROVE  Chain(f, s) \in Closed(f)
<1>1. Chain(f, s) \subseteq 0..Eh[f].last
  BY ChainOf
<1>2. ASSUME NEW r \in Chain(f, s), Eh[f].next[r] # -1
      PROVE  Eh[f].next[r] \in Chain(f, s)
  <2>1. r \in 0..Eh[f].last
    BY <1>1
  <2>2. Eh[f].next[r] \in 0..Eh[f].last
    BY <1>2, <2>1, StateFacts
  <2>3. ASSUME NEW S \in Closed(f), s \in S \cup {-1}
        PROVE  Eh[f].next[r] \in S
    <3>1. r \in S
      BY <2>3, ChainOf
    <3> QED
      BY <1>2, <3>1 DEF Closed
  <2> QED
    BY <2>2, <2>3, ChainOf
<1>3. \A r \in Chain(f, s) : Eh[f].next[r] \in Chain(f, s) \cup {-1}
  BY <1>2
<1> QED
  BY <1>1, <1>3 DEF Closed

\* The chain of a state on a chain is part of it.
LEMMA ChainPart ==
    ASSUME NEW f \in Fns, NEW s \in States(f), NEW r \in Chain(f, s)
    PROVE  /\ r \in 0..Eh[f].last /\ r \in Chain(f, r)
           /\ Chain(f, r) \subseteq Chain(f, s)
           /\ Chain(f, Eh[f].next[r]) \subseteq Chain(f, s)
           /\ Owed(f, r) \subseteq Owed(f, s)
           /\ Owed(f, Eh[f].next[r]) \subseteq Owed(f, s)
<1>1. r \in 0..Eh[f].last /\ r \in States(f)
  BY ChainBelow, StateFacts
<1>2. Chain(f, r) = {r} \cup Chain(f, Eh[f].next[r])
  BY <1>1, ChainStep
<1>3. Chain(f, s) \in Closed(f)
  BY ChainClosed
<1>4. \A q \in Chain(f, r) : q \in Chain(f, s)
  BY <1>1, <1>3, ChainOf
<1> QED
  BY <1>1, <1>2, <1>4 DEF Owed

\* What is below a state of a chain is on the chain of the state it leads to.
LEMMA ChainLinear ==
    ASSUME NEW f \in Fns, NEW s \in States(f),
           NEW r \in Chain(f, s), NEW q \in Chain(f, s), q < r
    PROVE  q \in Chain(f, Eh[f].next[r])
<1>1. /\ Chain(f, s) \subseteq 0..Eh[f].last /\ Eh[f].last \in Int
      /\ r \in 0..Eh[f].last /\ q \in 0..Eh[f].last
      /\ r \in States(f)
  BY ChainOf, StateFacts, EhAssumption
<1> DEFINE S == {t \in Chain(f, s) : t \in Chain(f, r) \/ r \in Chain(f, t)}
<1>2. ASSUME NEW t \in S, Eh[f].next[t] # -1
      PROVE  Eh[f].next[t] \in S
  <2>1. Eh[f].next[t] \in Chain(f, s) /\ t \in 0..Eh[f].last
    BY <1>1, <1>2, ChainClosed DEF Closed
  <2>2. CASE t \in Chain(f, r)
    <3>1. Eh[f].next[t] \in Chain(f, r)
      BY <1>1, <1>2, <2>2, ChainClosed DEF Closed
    <3> QED
      BY <2>1, <3>1
  <2>3. CASE t \notin Chain(f, r)
    <3>1. r \in Chain(f, t) /\ t # r
      BY <1>1, <1>2, <2>3, ChainStep
    <3>2. r \in Chain(f, Eh[f].next[t])
      BY <2>1, <3>1, ChainStep
    <3> QED
      BY <2>1, <3>2
  <2> QED
    BY <2>2, <2>3
<1>3. \A t \in S : Eh[f].next[t] = -1 \/ Eh[f].next[t] \in S
  BY <1>2
<1>4. S \in Closed(f)
  BY <1>1, <1>3 DEF Closed
<1>5. s \in S \cup {-1}
  <2>1. s # -1 => s \in 0..Eh[f].last
    BY <1>1 DEF States
  <2>2. s # -1 => s \in Chain(f, s)
    BY <2>1, ChainStep
  <2> QED
    BY <2>2
<1>6. q \in S
  <2> HIDE DEF S
  <2> QED
    BY <1>4, <1>5, ChainOf
<1>7. ~(r \in Chain(f, q))
  <2>1. q \in States(f)
    BY <1>1, StateFacts
  <2>2. r \in Chain(f, q) => r <= q
    BY <2>1, ChainBelow
  <2> QED
    BY <1>1, <2>2
<1>8. q \in Chain(f, r) /\ q # r
  BY <1>1, <1>6, <1>7
<1> QED
  BY <1>1, <1>8, ChainStep

----------------------------------------------------------------------------
(* Catch blocks and their funclets.                                        *)

LEMMA OneHomeBlock ==
    ASSUME NEW f \in Fns, NEW s, NEW n \in Nat, NEW g, NEW h,
           IsHomeBlock(f, s, n, g), IsHomeBlock(f, s, n, h)
    PROVE  g = h
<1>1. g \in 0..n /\ h \in 0..n
  BY DEF IsHomeBlock
<1>2. ASSUME g < h PROVE FALSE
  <2>1. h \in g + 1 .. n /\ h # 0
    BY <1>1, <1>2
  <2> QED
    BY <2>1 DEF IsHomeBlock
<1>3. ASSUME h < g PROVE FALSE
  <2>1. g \in h + 1 .. n /\ g # 0
    BY <1>1, <1>3
  <2> QED
    BY <2>1 DEF IsHomeBlock
<1> QED
  BY <1>1, <1>2, <1>3

\* The search for the catch block that owns a state always has one answer.
LEMMA HomeBlockIs ==
    ASSUME NEW f \in Fns, NEW s
    PROVE  /\ Len(Eh[f].try_blocks) \in Nat
           /\ IsHomeBlock(f, s, Len(Eh[f].try_blocks), HomeBlock(f, s))
           /\ HomeBlock(f, s) \in 0..Len(Eh[f].try_blocks)
           /\ HomeBlock(f, s) # 0 => HomeBlock(f, s) \in Blocks(f) /\ InCatch(f, HomeBlock(f, s), s)
           /\ \A h : IsHomeBlock(f, s, Len(Eh[f].try_blocks), h) => HomeBlock(f, s) = h
<1> DEFINE n == Len(Eh[f].try_blocks)
           C == {i \in 1..n : InCatch(f, i, s)}
<1>1. n \in Nat
  BY EhAssumption
<1>2. \E h \in 0..n : IsHomeBlock(f, s, n, h)
  <2>1. CASE C = {}
    BY <1>1, <2>1 DEF IsHomeBlock
  <2>2. CASE C # {}
    <3> DEFINE D == {n - i : i \in C}
    <3>0. \A i \in C : i \in Nat /\ i <= n /\ n - i \in Nat
      BY <1>1
    <3>1. D \in SUBSET Nat /\ D # {}
      <4> HIDE DEF C, n
      <4> QED
        BY <2>2, <3>0
    <3>2. PICK d \in D : \A e \in D : d <= e
      <4> HIDE DEF D
      <4> QED
        BY <3>1, Least
    <3>3. PICK h \in C : d = n - h
      BY <3>2
    <3>4. \A i \in C : i <= h
      <4> SUFFICES ASSUME NEW i \in C PROVE i <= h
        OBVIOUS
      <4>1. n - i \in D
        OBVIOUS
      <4>2. d <= n - i
        BY <3>2, <4>1
      <4> HIDE DEF C, D, n
      <4> QED
        BY <1>1, <3>0, <3>3, <4>2
    <3>5. \A i \in h + 1 .. n : ~InCatch(f, i, s)
      <4> SUFFICES ASSUME NEW i \in h + 1 .. n, InCatch(f, i, s) PROVE FALSE
        OBVIOUS
      <4>1. i \in C
        BY <1>1
      <4> QED
        BY <1>1, <3>4, <4>1
    <3> QED
      BY <1>1, <3>5 DEF IsHomeBlock
  <2> QED
    BY <2>1, <2>2
<1>3. IsHomeBlock(f, s, n, HomeBlock(f, s)) /\ HomeBlock(f, s) \in 0..n
  BY <1>2 DEF HomeBlock
<1>4. \A h : IsHomeBlock(f, s, n, h) => HomeBlock(f, s) = h
  BY <1>1, <1>3, OneHomeBlock
<1> HIDE DEF C
<1> QED
  BY <1>1, <1>3, <1>4 DEF IsHomeBlock, Blocks

\* State -1 is in no catch handler.
LEMMA NoHome == ASSUME NEW f \in Fns PROVE HomeBlock(f, -1) = 0
<1>1. \A i \in Blocks(f) : ~InCatch(f, i, -1)
  BY BlockFacts DEF InCatch
<1>2. HomeBlock(f, -1) # 0 => HomeBlock(f, -1) \in Blocks(f) /\ InCatch(f, HomeBlock(f, -1), -1)
  BY HomeBlockIs
<1> QED
  BY <1>1, <1>2

LEMMA HandlerFacts ==
    ASSUME NEW f \in Fns, NEW i \in Blocks(f)
    PROVE  LET h == HandlerState(f, i)
               low == Block(f, i).try_low
           IN  /\ i # 0 /\ h \in 0..Eh[f].last /\ h \in States(f) /\ h \notin Eh[f].cleanup
               /\ Eh[f].next[h] = Eh[f].next[low]
               /\ Eh[f].next[low] \in States(f) /\ Eh[f].next[low] < low
               /\ low \in 0..Eh[f].last /\ low - 1 \in States(f) /\ low < h
               /\ HomeBlock(f, h) = i /\ FuncletLow(f, i) = low
<1> DEFINE h == HandlerState(f, i)
           low == Block(f, i).try_low
<1>1. /\ low \in Nat /\ Block(f, i).try_high \in Nat /\ Block(f, i).catch_high \in Nat
      /\ Eh[f].last \in Nat /\ low <= Block(f, i).try_high
      /\ Block(f, i).try_high < Block(f, i).catch_high /\ Block(f, i).catch_high <= Eh[f].last
      /\ low \in 0..Eh[f].last
  BY BlockFacts
<1>2. h = Block(f, i).try_high + 1
  BY DEF HandlerState
<1>3. h \in 0..Eh[f].last /\ low < h /\ low - 1 \in States(f)
  BY <1>1, <1>2 DEF States
<1>4. h \notin Eh[f].cleanup /\ Eh[f].next[h] = Eh[f].next[low] /\ HomeBlock(f, h) = i
  BY <1>2, WellFormedAssumption DEF WellFormed
<1>5. Eh[f].next[low] \in States(f) /\ Eh[f].next[low] < low /\ h \in States(f)
  BY <1>1, <1>3, StateFacts
<1>6. i # 0
  BY DEF Blocks
<1> QED
  BY <1>1, <1>3, <1>4, <1>5, <1>6 DEF FuncletLow

\* The try statements the search of a catch funclet examines are inside its
\* handler.
LEMMA BlockOfFunclet ==
    ASSUME NEW f \in Fns, NEW b \in Blocks(f), NEW i \in Blocks(f), b < i,
           NEW s \in Int, InTry(f, i, s), InCatch(f, b, s), Block(f, i).try_low >= FuncletLow(f, b)
    PROVE  HandlerState(f, b) < Block(f, i).try_low
<1>1. /\ Block(f, i).try_low \in Nat /\ Block(f, b).catch_high \in Nat
      /\ Block(f, b).try_low \in Nat
  BY BlockFacts
<1>2. FuncletLow(f, b) = Block(f, b).try_low
  BY HandlerFacts
<1>3. \/ Block(f, b).catch_high < Block(f, i).try_low
      \/ Block(f, i).try_low < Block(f, b).try_low
      \/ Block(f, b).try_high + 1 < Block(f, i).try_low
  BY BlockOrder
<1>4. Block(f, i).try_low <= s /\ s <= Block(f, b).catch_high
  BY DEF InTry, InCatch
<1> QED
  BY <1>1, <1>2, <1>3, <1>4 DEF HandlerState

\* The state before a try statement inside a handler is in the handler, too.
LEMMA BeforeTryHome ==
    ASSUME NEW f \in Fns, NEW b \in 0..Len(Eh[f].try_blocks), NEW i \in Blocks(f),
           b # 0 => HandlerState(f, b) < Block(f, i).try_low,
           HomeBlock(f, Block(f, i).try_low) = b,
           NEW home, IsHomeBlock(f, Block(f, i).try_low - 1, b, home)
    PROVE  home = b
<1>1. b \in Nat
  BY HomeBlockIs
<1>2. CASE b = 0
  BY <1>2 DEF IsHomeBlock
<1>3. CASE b # 0
  <2>1. b \in Blocks(f) /\ InCatch(f, b, Block(f, i).try_low)
    BY <1>3, HomeBlockIs
  <2>2. /\ Block(f, i).try_low \in Nat /\ Block(f, b).catch_high \in Nat
        /\ Block(f, b).try_high \in Nat
    BY <2>1, BlockFacts
  <2>3. InCatch(f, b, Block(f, i).try_low - 1)
    BY <1>3, <2>1, <2>2 DEF InCatch, HandlerState
  <2>4. IsHomeBlock(f, Block(f, i).try_low - 1, b, b)
    BY <1>1, <2>3 DEF IsHomeBlock
  <2> QED
    BY <1>1, <2>4, OneHomeBlock
<1> QED
  BY <1>2, <1>3

\* A funclet has no state at or below its low one.
LEMMA NotOwnBelow ==
    ASSUME NEW f \in Fns, NEW b \in 0..Len(Eh[f].try_blocks), NEW s \in 0..Eh[f].last,
           s <= FuncletLow(f, b)
    PROVE  HomeBlock(f, s) # b
<1>1. CASE b = 0
  BY <1>1, EhAssumption DEF FuncletLow
<1>2. CASE b # 0
  <2>1. HomeBlock(f, s) = b => b \in Blocks(f) /\ InCatch(f, b, s)
    BY <1>2, HomeBlockIs
  <2>2. b \in Blocks(f) => s <= Block(f, b).try_high /\ s \in Int
    <3> SUFFICES ASSUME b \in Blocks(f) PROVE s <= Block(f, b).try_high /\ s \in Int
      OBVIOUS
    <3>1. /\ Block(f, b).try_low \in Nat /\ Block(f, b).try_high \in Nat
          /\ Block(f, b).try_low <= Block(f, b).try_high /\ Eh[f].last \in Nat
      BY BlockFacts
    <3> QED
      BY <1>2, <3>1 DEF FuncletLow
  <2> QED
    BY <2>1, <2>2, BlockFacts DEF InCatch
<1> QED
  BY <1>1, <1>2

\* A try statement of a handler's funclet follows the handler's block.
LEMMA OwnTries ==
    ASSUME NEW f \in Fns, NEW i \in Blocks(f), NEW b, b = HomeBlock(f, Block(f, i).try_low)
    PROVE  /\ b \in 0..Len(Eh[f].try_blocks) /\ b < i
           /\ Block(f, i).try_low > FuncletLow(f, b)
<1>1. /\ b \in 0..Len(Eh[f].try_blocks) /\ i \in Nat /\ i >= 1 /\ Block(f, i).try_low \in Nat
      /\ Block(f, i).try_low \in 0..Eh[f].last
      /\ Block(f, i).try_low <= Block(f, i).try_high /\ Block(f, i).try_high \in Nat
      /\ Block(f, i).try_high < Block(f, i).catch_high /\ Block(f, i).catch_high \in Nat
  BY HomeBlockIs, BlockFacts DEF Blocks
<1>2. CASE b = 0
  BY <1>1, <1>2 DEF FuncletLow
<1>3. CASE b # 0
  <2>1. b \in Blocks(f) /\ InCatch(f, b, Block(f, i).try_low)
    BY <1>3, HomeBlockIs
  <2>2. /\ Block(f, b).try_low \in Nat /\ Block(f, b).try_high \in Nat /\ Block(f, b).catch_high \in Nat
        /\ Block(f, b).try_low <= Block(f, b).try_high
        /\ FuncletLow(f, b) = Block(f, b).try_low
    BY <1>3, <2>1, BlockFacts DEF FuncletLow
  <2>3. Block(f, b).try_high < Block(f, i).try_low /\ Block(f, i).try_low <= Block(f, b).catch_high
    BY <2>1 DEF InCatch
  <2>4. b # i
    BY <1>1, <2>3
  <2>5. ~(i < b)
    <3> SUFFICES ASSUME i < b PROVE FALSE
      OBVIOUS
    <3>1. \/ Block(f, i).catch_high < Block(f, b).try_low
          \/ Block(f, b).try_low < Block(f, i).try_low /\ Block(f, i).catch_high <= Block(f, b).try_high
          \/ Block(f, i).try_high + 1 < Block(f, b).try_low
      BY <2>1, BlockOrder
    <3> QED
      BY <1>1, <2>2, <2>3, <3>1
  <2> QED
    BY <1>1, <2>1, <2>2, <2>3, <2>4, <2>5 DEF Blocks
<1> QED
  BY <1>2, <1>3

----------------------------------------------------------------------------
(* Where the control of a funclet can be.                                  *)

\* Control in funclet b of f, which has entered states one in another, is in
\* state s: from s inwards of the handler's first state, all are the funclet's.
Within(f, b, s) ==
    /\ b # 0 => HandlerState(f, b) \in Chain(f, s)
    /\ \A r \in Chain(f, s) : (b # 0 => HandlerState(f, b) <= r) => HomeBlock(f, r) = b

LEMMA WithinStart ==
    ASSUME NEW f \in Fns
    PROVE  Within(f, 0, -1) /\ \A b \in Blocks(f) : Within(f, b, HandlerState(f, b))
<1>1. Within(f, 0, -1)
  BY ChainEmpty DEF Within
<1>2. ASSUME NEW b \in Blocks(f) PROVE Within(f, b, HandlerState(f, b))
  <2>1. /\ HandlerState(f, b) \in 0..Eh[f].last /\ HomeBlock(f, HandlerState(f, b)) = b
        /\ HandlerState(f, b) \in States(f) /\ Eh[f].last \in Int
    BY HandlerFacts, BlockFacts
  <2>2. HandlerState(f, b) \in Chain(f, HandlerState(f, b))
    BY <2>1, ChainStep
  <2>3. \A r \in Chain(f, HandlerState(f, b)) : r \in Int /\ r <= HandlerState(f, b)
    BY <2>1, ChainBelow
  <2>4. \A r \in Chain(f, HandlerState(f, b)) : HandlerState(f, b) <= r => r = HandlerState(f, b)
    BY <2>1, <2>3
  <2>5. b # 0
    BY HandlerFacts
  <2> QED
    BY <2>1, <2>2, <2>4, <2>5 DEF Within
<1> QED
  BY <1>1, <1>2

LEMMA WithinHome ==
    ASSUME NEW f \in Fns, NEW b \in 0..Len(Eh[f].try_blocks), NEW s \in States(f), Within(f, b, s)
    PROVE  /\ HomeBlock(f, s) = b
           /\ b # 0 => b \in Blocks(f) /\ HandlerState(f, b) <= s
<1>1. b # 0 => b \in Blocks(f)
  BY EhAssumption DEF Blocks
<1>2. b # 0 => HandlerState(f, b) <= s
  BY ChainBelow DEF Within
<1>3. CASE s = -1
  <2>1. Chain(f, s) = {}
    BY <1>3, ChainEmpty
  <2>2. b = 0
    BY <2>1 DEF Within
  <2> QED
    BY <1>3, <2>2, NoHome
<1>4. CASE s # -1
  <2>1. s \in 0..Eh[f].last
    BY <1>4, EhAssumption DEF States
  <2>2. s \in Chain(f, s)
    BY <2>1, ChainStep
  <2> QED
    BY <1>1, <1>2, <2>2 DEF Within
<1> QED
  BY <1>1, <1>2, <1>3, <1>4

LEMMA WithinEnter ==
    ASSUME NEW f \in Fns, NEW b, NEW s \in 0..Eh[f].last,
           Within(f, b, Eh[f].next[s]), HomeBlock(f, s) = b
    PROVE  Within(f, b, s)
BY ChainStep DEF Within

\* Leaving a scope of the funclet leaves the funclet in one of its states.
LEMMA WithinLeave ==
    ASSUME NEW f \in Fns, NEW b, NEW s \in States(f), Within(f, b, s),
           NEW r \in Chain(f, s), b # 0 => HandlerState(f, b) < r
    PROVE  Within(f, b, Eh[f].next[r])
<1>1. Chain(f, Eh[f].next[r]) \subseteq Chain(f, s)
  BY ChainPart
<1>2. b # 0 => HandlerState(f, b) \in Chain(f, Eh[f].next[r])
  BY ChainLinear DEF Within
<1> QED
  BY <1>1, <1>2 DEF Within

\* What is on the chain above the funclet's low state is its own.
LEMMA OwnOnChain ==
    ASSUME NEW f \in Fns, NEW b \in 0..Len(Eh[f].try_blocks), NEW s \in States(f), Within(f, b, s),
           NEW r \in Chain(f, s), r > FuncletLow(f, b)
    PROVE  HomeBlock(f, r) = b
<1>1. CASE b = 0
  BY <1>1 DEF Within
<1>2. CASE b # 0
  <2> DEFINE h == HandlerState(f, b)
             n == Eh[f].next[h]
  <2>1. /\ b \in Blocks(f) /\ h \in 0..Eh[f].last /\ h \in Chain(f, s) /\ n \in States(f)
        /\ n < FuncletLow(f, b) /\ FuncletLow(f, b) \in 0..Eh[f].last /\ Eh[f].last \in Int
    BY <1>2, WithinHome, HandlerFacts, BlockFacts DEF Within
  <2>2. r \in 0..Eh[f].last
    BY ChainPart
  <2>3. ~(r < h)
    <3> SUFFICES ASSUME r < h PROVE FALSE
      OBVIOUS
    <3>1. r \in Chain(f, n)
      BY <2>1, ChainLinear
    <3>2. r <= n
      BY <2>1, <3>1, ChainBelow
    <3> QED
      BY <2>1, <2>2, <3>2 DEF States
  <2>4. h <= r
    BY <2>1, <2>2, <2>3
  <2> QED
    BY <2>4 DEF Within
<1> QED
  BY <1>1, <1>2

=============================================================================
