--------------------------- MODULE Fh4FrameProofs ---------------------------
(***************************************************************************)
(* Every number an FH4 table can hold is read as it was written, and so is *)
(* every edge of an unwind graph; the walks over the graph find the edges  *)
(* of the states that are left, whatever the function.                     *)
(***************************************************************************)
EXTENDS Fh4Frame, EhTablesProofs, TLAPS

\* uint32_t
Word == {n \in Nat : n < 65536 * 65536}

\* A part of a table is found where the bytes before it end.
LEMMA PartOfTable ==
    ASSUME NEW before \in Seq(Byte), NEW part \in Seq(Byte), NEW after \in Seq(Byte),
           NEW k \in 1..Len(part)
    PROVE  ((before \o part) \o after)[Len(before) + k] = part[k]
<1>1. before \o part \in Seq(Byte) /\ Len(before \o part) = Len(before) + Len(part)
  OBVIOUS
<1>2. Len(before) + k \in 1..Len(before \o part)
  BY <1>1
<1>3. ((before \o part) \o after)[Len(before) + k] = (before \o part)[Len(before) + k]
  BY <1>1, <1>2
<1> QED
  BY <1>3

\* An encoding consists of bytes: the quotients and remainders fit.
LEMMA EncodedType ==
    ASSUME NEW n \in Word
    PROVE  Encoded(n) \in Seq(Byte) /\ Len(Encoded(n)) \in 1..5
<1>1. CASE n < 128
  BY <1>1 DEF Encoded, Byte, Word
<1>2. CASE n >= 128 /\ n < 16384
  <2>1. 4 * (n % 64) + 1 \in Byte /\ n \div 64 \in Byte
    BY <1>2 DEF Byte, Word
  <2>2. Encoded(n) = <<4 * (n % 64) + 1, n \div 64>>
    BY <1>2 DEF Encoded, Word
  <2> QED
    BY <2>1, <2>2
<1>3. CASE n >= 16384 /\ n < 2097152
  <2>1. 8 * (n % 32) + 3 \in Byte /\ (n \div 32) % 256 \in Byte /\ n \div 8192 \in Byte
    BY <1>3 DEF Byte, Word
  <2>2. Encoded(n) = <<8 * (n % 32) + 3, (n \div 32) % 256, n \div 8192>>
    BY <1>3 DEF Encoded, Word
  <2> QED
    BY <2>1, <2>2
<1>4. CASE n >= 2097152 /\ n < 268435456
  <2>1. 16 * (n % 16) + 7 \in Byte /\ (n \div 16) % 256 \in Byte
        /\ (n \div 4096) % 256 \in Byte /\ n \div 1048576 \in Byte
    BY <1>4 DEF Byte, Word
  <2>2. Encoded(n)
        = <<16 * (n % 16) + 7, (n \div 16) % 256, (n \div 4096) % 256, n \div 1048576>>
    BY <1>4 DEF Encoded, Word
  <2> QED
    BY <2>1, <2>2
<1>5. CASE n >= 268435456
  <2>1. 15 \in Byte /\ n % 256 \in Byte /\ (n \div 256) % 256 \in Byte
        /\ (n \div 65536) % 256 \in Byte /\ n \div 16777216 \in Byte
    BY <1>5 DEF Byte, Word
  <2>2. Encoded(n)
        = <<15, n % 256, (n \div 256) % 256, (n \div 65536) % 256, n \div 16777216>>
    BY <1>5 DEF Encoded, Word
  <2> QED
    BY <2>1, <2>2
<1> QED
  BY <1>1, <1>2, <1>3, <1>4, <1>5 DEF Word

\* Wherever in a table the encoding of a number stands, it is read as that number.
LEMMA ReadsNumber ==
    ASSUME NEW n \in Word, NEW table, NEW q \in Nat, HasAt(table, q, Encoded(n))
    PROVE  /\ ReadUnsigned(table, q) = n
           /\ AfterUnsigned(table, q) = q + Len(Encoded(n))
<1>1. q \in Nat
  OBVIOUS
<1>2. \A k \in 1..Len(Encoded(n)) : table[q + k] = Encoded(n)[k]
  BY DEF HasAt
<1>3. CASE n < 128
  <2>1. Encoded(n) = <<2 * n>>
    BY <1>3 DEF Encoded, Word
  <2>2. /\ table[q + 1] = 2 * n
    BY <1>2, <2>1
  <2>3. EncType(table, q) \in {0, 2, 4, 6, 8, 10, 12, 14}
    BY <2>2, <1>3 DEF EncType, Word
  <2>4. Length(table, q) = 1 /\ Shift(table, q) = 25
    BY <2>3 DEF Length, Shift, Lengths, Shifts
  <2>5. Len(Encoded(n)) = 1
    BY <2>1
  <2> QED
    BY <1>1, <1>3, <2>2, <2>4, <2>5
    DEF ReadUnsigned, AfterUnsigned, LoadBefore, ShiftedRight, Word
<1>4. CASE n >= 128 /\ n < 16384
  <2>1. Encoded(n) = <<4 * (n % 64) + 1, n \div 64>>
    BY <1>4 DEF Encoded, Word
  <2>2. /\ table[q + 1] = 4 * (n % 64) + 1
        /\ table[q + 2] = n \div 64
    BY <1>2, <2>1
  <2>3. EncType(table, q) \in {1, 5, 9, 13}
    BY <2>2, <1>4 DEF EncType, Word
  <2>4. Length(table, q) = 2 /\ Shift(table, q) = 18
    BY <2>3 DEF Length, Shift, Lengths, Shifts
  <2>5. Len(Encoded(n)) = 2
    BY <2>1
  <2>6. q + 2 - 1 = q + 1
    BY <1>1
  <2>7. ReadUnsigned(table, q) = (table[q + 1] + 256 * table[q + 2]) \div 4
    BY <1>1, <2>4, <2>6 DEF ReadUnsigned, LoadBefore, ShiftedRight
  <2>8. ((4 * (n % 64) + 1) + 256 * (n \div 64)) \div 4 = n
    BY <1>4 DEF Word
  <2> QED
    BY <2>2, <2>4, <2>5, <2>7, <2>8 DEF AfterUnsigned
<1>5. CASE n >= 16384 /\ n < 2097152
  <2>1. Encoded(n) = <<8 * (n % 32) + 3, (n \div 32) % 256, n \div 8192>>
    BY <1>5 DEF Encoded, Word
  <2>2. /\ table[q + 1] = 8 * (n % 32) + 3
        /\ table[q + 2] = (n \div 32) % 256
        /\ table[q + 3] = n \div 8192
    BY <1>2, <2>1
  <2>3. EncType(table, q) \in {3, 11}
    BY <2>2, <1>5 DEF EncType, Word
  <2>4. Length(table, q) = 3 /\ Shift(table, q) = 11
    BY <2>3 DEF Length, Shift, Lengths, Shifts
  <2>5. Len(Encoded(n)) = 3
    BY <2>1
  <2>6. q + 3 - 2 = q + 1 /\ q + 3 - 1 = q + 2
    BY <1>1
  <2>7. ReadUnsigned(table, q) = (table[q + 1] + 256 * table[q + 2] + 65536 * table[q + 3]) \div 8
    BY <1>1, <2>4, <2>6 DEF ReadUnsigned, LoadBefore, ShiftedRight
  <2>8. ((8 * (n % 32) + 3) + 256 * ((n \div 32) % 256) + 65536 * (n \div 8192)) \div 8 = n
    BY <1>5 DEF Word
  <2> QED
    BY <2>2, <2>4, <2>5, <2>7, <2>8 DEF AfterUnsigned
<1>6. CASE n >= 2097152 /\ n < 268435456
  <2>1. Encoded(n)
        = <<16 * (n % 16) + 7, (n \div 16) % 256, (n \div 4096) % 256, n \div 1048576>>
    BY <1>6 DEF Encoded, Word
  <2>2. /\ table[q + 1] = 16 * (n % 16) + 7
        /\ table[q + 2] = (n \div 16) % 256
        /\ table[q + 3] = (n \div 4096) % 256
        /\ table[q + 4] = n \div 1048576
    BY <1>2, <2>1
  <2>3. EncType(table, q) \in {7}
    BY <2>2, <1>6 DEF EncType, Word
  <2>4. Length(table, q) = 4 /\ Shift(table, q) = 4
    BY <2>3 DEF Length, Shift, Lengths, Shifts
  <2>5. Len(Encoded(n)) = 4
    BY <2>1
  <2>6. q + 4 - 3 = q + 1 /\ q + 4 - 2 = q + 2 /\ q + 4 - 1 = q + 3
    BY <1>1
  <2>7. ReadUnsigned(table, q) = (table[q + 1] + 256 * table[q + 2] + 65536 * table[q + 3]) \div 16
        + 1048576 * table[q + 4]
    BY <1>1, <2>4, <2>6 DEF ReadUnsigned, LoadBefore, ShiftedRight
  <2>8. ((16 * (n % 16) + 7) + 256 * ((n \div 16) % 256) + 65536 * ((n \div 4096) % 256)) \div 16
        + 1048576 * (n \div 1048576) = n
    BY <1>6 DEF Word
  <2> QED
    BY <2>2, <2>4, <2>5, <2>7, <2>8 DEF AfterUnsigned
<1>7. CASE n >= 268435456
  <2>1. Encoded(n)
        = <<15, n % 256, (n \div 256) % 256, (n \div 65536) % 256, n \div 16777216>>
    BY <1>7 DEF Encoded, Word
  <2>2. /\ table[q + 1] = 15
        /\ table[q + 2] = n % 256
        /\ table[q + 3] = (n \div 256) % 256
        /\ table[q + 4] = (n \div 65536) % 256
        /\ table[q + 5] = n \div 16777216
    BY <1>2, <2>1
  <2>3. EncType(table, q) \in {15}
    BY <2>2, <1>7 DEF EncType, Word
  <2>4. Length(table, q) = 5 /\ Shift(table, q) = 0
    BY <2>3 DEF Length, Shift, Lengths, Shifts
  <2>5. Len(Encoded(n)) = 5
    BY <2>1
  <2>6. q + 5 - 3 = q + 2 /\ q + 5 - 2 = q + 3 /\ q + 5 - 1 = q + 4
    BY <1>1
  <2>7. ReadUnsigned(table, q) = table[q + 2] + 256 * table[q + 3] + 65536 * table[q + 4]
        + 16777216 * table[q + 5]
    BY <1>1, <2>4, <2>6 DEF ReadUnsigned, LoadBefore, ShiftedRight
  <2>8. (n % 256) + 256 * ((n \div 256) % 256) + 65536 * ((n \div 65536) % 256)
        + 16777216 * (n \div 16777216) = n
    BY <1>7 DEF Word
  <2> QED
    BY <2>2, <2>4, <2>5, <2>7, <2>8 DEF AfterUnsigned
<1> QED
  BY <1>3, <1>4, <1>5, <1>6, <1>7 DEF Word

\* Whatever bytes precede and follow it in the image, read_unsigned
\* (fh4.cpp:42-64) reads from the encoding of a 32-bit number that number, and
\* goes on behind it: no bit of the word it loads is left over from before.
THEOREM ReadsWhatWasWritten ==
    ASSUME NEW n \in Word, NEW before \in Seq(Byte), NEW after \in Seq(Byte)
    PROVE  LET table == (before \o Encoded(n)) \o after
           IN  /\ ReadUnsigned(table, Len(before)) = n
               /\ AfterUnsigned(table, Len(before)) = Len(before) + Len(Encoded(n))
<1> DEFINE table == (before \o Encoded(n)) \o after
<1>1. Encoded(n) \in Seq(Byte) /\ Len(before) \in Nat
  BY EncodedType
<1>2. \A k \in 1..Len(Encoded(n)) : table[Len(before) + k] = Encoded(n)[k]
  <2> HIDE DEF table
  <2> SUFFICES ASSUME NEW k \in 1..Len(Encoded(n))
               PROVE  table[Len(before) + k] = Encoded(n)[k]
    OBVIOUS
  <2> QED
    BY <1>1, PartOfTable DEF table
<1> HIDE DEF table
<1>3. HasAt(table, Len(before), Encoded(n))
  BY <1>2 DEF HasAt
<1> QED
  BY <1>1, <1>3, ReadsNumber DEF table

----------------------------------------------------------------------------
(* The unwind graph is read as it was written.                             *)

\* The numbers of a graph are numbers of 32 bits.
LEMMA WordFacts ==
    /\ ImageLimit \in Nat
    /\ \A n \in Nat, t \in 0..3 : n < ImageLimit => 4 * n + t \in Word
    /\ \A n \in Nat : n < ImageLimit => n \in Word
BY SMT DEF Word, ImageLimit

\* The table of a function, and where an edge and its target are.
LEMMA EdgeFacts ==
    ASSUME NEW f \in Fns, NEW s \in 0..Eh[f].last
    PROVE  /\ Eh[f].last \in Nat /\ s \in States(f) /\ s \in Nat
           /\ Eh[f].next[s] \in States(f) /\ Eh[f].next[s] < s
           /\ EntryAt[f][s] \in Nat /\ EntryAt[f][Eh[f].next[s]] \in Nat
           /\ EntryAt[f][s] < Len(Graph[f]) /\ Len(Graph[f]) \in Nat
           /\ Len(Graph[f]) <= ImageLimit
           /\ EntryAt[f][Eh[f].next[s]] < EntryAt[f][s]
           /\ Edge[f][s].type \in 0..3 /\ Edge[f][s].object \in Nat /\ Edge[f][s].object < ImageLimit
           /\ Edge[f][s].type # 0 <=> s \in Eh[f].cleanup
<1>1. Eh[f].last \in Nat /\ s \in States(f) /\ s \in Nat
  BY EhAssumption DEF States
<1>2. Eh[f].next[s] \in States(f) /\ Eh[f].next[s] < s
  BY <1>1, EhAssumption DEF States
<1>3. Len(Graph[f]) \in Nat
  BY GraphAssumption
<1>4. /\ EntryAt[f] \in [States(f) -> 0..Len(Graph[f]) - 1]
      /\ EntryAt[f][Eh[f].next[s]] < EntryAt[f][s]
  BY <1>1, <1>2, EntryAssumption
<1>5. EntryAt[f][s] \in 0..Len(Graph[f]) - 1 /\ EntryAt[f][Eh[f].next[s]] \in 0..Len(Graph[f]) - 1
  BY <1>1, <1>2, <1>4
<1>6. /\ Len(Graph[f]) <= ImageLimit
      /\ Edge[f][s].type \in 0..3 /\ Edge[f][s].object \in Nat /\ Edge[f][s].object < ImageLimit
      /\ Edge[f][s].type # 0 <=> s \in Eh[f].cleanup
  <2>1. Eh[f].last # -1
    BY <1>1
  <2>2. Len(Graph[f]) <= ImageLimit
    BY <2>1, EncodingAssumption
  <2>3. /\ Edge[f][s].type \in 0..3 /\ Edge[f][s].object \in Nat /\ Edge[f][s].object < ImageLimit
        /\ Edge[f][s].type # 0 <=> s \in Eh[f].cleanup
    BY <2>1, EncodingAssumption, Zenon
  <2> QED
    BY <2>2, <2>3
<1> QED
  BY <1>1, <1>2, <1>3, <1>4, <1>5, <1>6

\* An edge is shorter than its table.
LEMMA EdgeDistance ==
    ASSUME NEW f \in Fns, NEW s \in 0..Eh[f].last
    PROVE  /\ EntryAt[f][s] - EntryAt[f][Eh[f].next[s]] \in Nat
           /\ EntryAt[f][s] - EntryAt[f][Eh[f].next[s]] < ImageLimit
<1>1. PICK a, b, n : a = EntryAt[f][s] /\ b = EntryAt[f][Eh[f].next[s]] /\ n = Len(Graph[f])
  OBVIOUS
<1>2. /\ a \in Nat /\ b \in Nat /\ n \in Nat
      /\ b < a /\ a < n /\ n <= ImageLimit
  BY <1>1, EdgeFacts
<1>3. a - b \in Nat /\ a - b < ImageLimit
  BY <1>2 DEF ImageLimit
<1> QED
  BY <1>1, <1>3

\* unwind_edge_t finds the type and the target of an edge in its bytes.
LEMMA EdgeIsRead ==
    ASSUME NEW f \in Fns, NEW s \in 0..Eh[f].last
    PROVE  LET q == EntryAt[f][s]
           IN  /\ EdgeType(f, q) = Edge[f][s].type
               /\ TargetOffset(f, q) = q - EntryAt[f][Eh[f].next[s]]
               /\ AfterUnsigned(Graph[f], q) = q + Len(EdgeNumber(f, s))
<1> DEFINE q == EntryAt[f][s]
           d == q - EntryAt[f][Eh[f].next[s]]
           t == Edge[f][s].type
<1>1. d \in Nat /\ d < ImageLimit /\ t \in 0..3 /\ q \in Nat
  BY EdgeFacts, EdgeDistance
<1>2. 4 * d + t \in Word
  BY <1>1, WordFacts
<1>3. HasAt(Graph[f], q, Encoded(4 * d + t))
  BY EdgeFacts, EncodingAssumption DEF EdgeNumber
<1>4. /\ ReadUnsigned(Graph[f], q) = 4 * d + t
      /\ AfterUnsigned(Graph[f], q) = q + Len(Encoded(4 * d + t))
  BY <1>1, <1>2, <1>3, ReadsNumber
<1>5. EdgeNumber(f, s) = Encoded(4 * d + t)
  BY DEF EdgeNumber
<1> HIDE DEF q, d, t
<1>6. (4 * d + t) % 4 = t /\ (4 * d + t) \div 4 = d
  BY <1>1
<1>7. EdgeType(f, q) = t /\ TargetOffset(f, q) = d
  BY <1>4, <1>6 DEF EdgeType, TargetOffset
<1> QED
  BY <1>4, <1>5, <1>7 DEF q, d, t

\* unwind_edge_t::skip goes on at the entry of the next state.
LEMMA SkipIsRead ==
    ASSUME NEW f \in Fns, NEW s \in 0..Eh[f].last, s < Eh[f].last
    PROVE  AfterEdge(f, EntryAt[f][s]) = EntryAt[f][s + 1]
<1> DEFINE q == EntryAt[f][s]
           r == q + Len(EdgeNumber(f, s))
           object == Edge[f][s].object
<1>1. /\ EdgeType(f, q) = Edge[f][s].type /\ Edge[f][s].type \in 0..3
      /\ AfterUnsigned(Graph[f], q) = r
  BY EdgeIsRead, EdgeFacts
<1>2. EntryAt[f][s + 1] = q + EdgeLength(f, s)
  BY EdgeFacts, EncodingAssumption
<1>3. Len(EdgeNumber(f, s)) \in Nat /\ q \in Nat
  <2> DEFINE n == 4 * (EntryAt[f][s] - EntryAt[f][Eh[f].next[s]]) + Edge[f][s].type
  <2>1. /\ EntryAt[f][s] - EntryAt[f][Eh[f].next[s]] \in Nat
        /\ EntryAt[f][s] - EntryAt[f][Eh[f].next[s]] < ImageLimit
    BY EdgeDistance
  <2>2. n \in Word
    BY <2>1, EdgeFacts, WordFacts
  <2> HIDE DEF n
  <2>3. Len(Encoded(n)) \in Nat
    BY <2>2, EncodedType
  <2> QED
    BY <2>3, EdgeFacts DEF EdgeNumber, n
<1>4. CASE Edge[f][s].type = 0
  BY <1>1, <1>2, <1>3, <1>4 DEF AfterEdge, EdgeLength
<1>5. CASE Edge[f][s].type = 3
  BY <1>1, <1>2, <1>3, <1>5 DEF AfterEdge, EdgeLength
<1>6. CASE Edge[f][s].type \in {1, 2}
  <2>1. HasAt(Graph[f], r + 4, Encoded(object))
    BY <1>6, EdgeFacts, EncodingAssumption DEF ObjectNumber
  <2>2. object \in Word /\ r + 4 \in Nat
    BY <1>3, EdgeFacts, WordFacts
  <2>3. AfterUnsigned(Graph[f], r + 4) = r + 4 + Len(Encoded(object))
    BY <2>1, <2>2, ReadsNumber
  <2>4. Len(Encoded(object)) \in Nat /\ ObjectNumber(f, s) = Encoded(object)
    BY <2>2, EncodedType DEF ObjectNumber
  <2>5. AfterEdge(f, q) = AfterUnsigned(Graph[f], r + 4)
    BY <1>1, <1>6 DEF AfterEdge
  <2>6. EdgeLength(f, s) = Len(EdgeNumber(f, s)) + 4 + Len(Encoded(object))
    BY <1>6, <2>4 DEF EdgeLength
  <2> HIDE DEF q, r, object
  <2> QED
    BY <1>2, <1>3, <2>3, <2>4, <2>5, <2>6 DEF r, q
<1> QED
  BY <1>1, <1>4, <1>5, <1>6

\* The walk over the graph begins at the entry of state 0.
LEMMA StartIsRead ==
    ASSUME NEW f \in Fns, Eh[f].last # -1
    PROVE  AfterUnsigned(Graph[f], GraphAt[f]) = EntryAt[f][0]
<1>1. Eh[f].last + 1 \in Nat /\ Eh[f].last + 1 < ImageLimit /\ GraphAt[f] \in Nat
  BY EhAssumption, GraphAssumption, EncodingAssumption, WordFacts
<1> QED
  BY <1>1, WordFacts, ReadsNumber, EncodingAssumption DEF NumberOfEntries

----------------------------------------------------------------------------
(* The walks.                                                              *)

\* State s is one that may have to be unwound.
ToUnwind(s) ==
    /\ s \in 0..Eh[fn].last
    /\ Target(block) < s /\ s <= entered
    /\ block # 0 => InTry(fn, block, s)

\* The position the first walk has remembered once it has passed k entries, and
\* when it is over.
RememberedAt(k) == EntryAt[fn][IF k > Target(block) + 1 THEN Target(block) + 2 ELSE 0]
Remembered == EntryAt[fn][IF entered = Target(block) + 1 THEN entered ELSE Target(block) + 2]

\* The positions of a walk are those of the entries of the states it passes.
Walks ==
    /\ pc = "skipping" =>
        /\ ToUnwind(entered)
        /\ passed \in 0..entered
        /\ p = EntryAt[fn][passed]
        /\ last = RememberedAt(passed)
    /\ pc = "unwinding" =>
        /\ ToUnwind(entered)
        /\ \E s \in 0..Eh[fn].last : ToUnwind(s) /\ EntryAt[fn][s] = p
        /\ last = Remembered
    /\ pc = "handler" => block # 0
    /\ pc \in {"skipping", "unwinding", "handler"} /\ block # 0 => cached = Target(block)

IInv == TypeOK /\ Walks

LEMMA TargetFacts ==
    ASSUME TypeOK, NEW i \in 0..Len(Eh[fn].try_blocks)
    PROVE  /\ i # 0 => i \in Blocks(fn)
           /\ Target(i) \in States(fn) /\ Target(i) \in Int /\ -1 <= Target(i)
           /\ Target(i) + 1 \in Nat
           /\ i # 0 => Target(i) + 1 = Block(fn, i).try_low
<1>1. fn \in Fns /\ (i # 0 => i \in Blocks(fn)) /\ Eh[fn].last \in Nat \cup {-1}
  BY EhAssumption DEF TypeOK, Blocks
<1>2. CASE i = 0
  BY <1>1, <1>2 DEF Target, States
<1>3. CASE i # 0
  <2>1. Block(fn, i).try_low \in Nat /\ Block(fn, i).try_low \in 0..Eh[fn].last
    BY <1>1, <1>3, BlockFacts
  <2> QED
    BY <1>1, <1>3, <2>1 DEF Target, States
<1> QED
  BY <1>2, <1>3

\* Positions in the image, and the order of the entries.
LEMMA EntryFacts ==
    ASSUME NEW f \in Fns
    PROVE  /\ \A s \in States(f) : EntryAt[f][s] \in 0..Len(Graph[f])
           /\ \A r, s \in States(f) : EntryAt[f][r] = EntryAt[f][s] => r = s
           /\ \A r, s \in States(f) : EntryAt[f][r] < EntryAt[f][s] <=> r < s
           /\ Len(Graph[f]) \in Nat
           /\ States(f) \subseteq Int
           /\ -1 \in States(f) /\ 0..Eh[f].last \subseteq States(f)
<1>1. Eh[f].last \in Nat \cup {-1} /\ Len(Graph[f]) \in Nat
  BY EhAssumption, GraphAssumption
<1>2. States(f) \subseteq Int /\ -1 \in States(f) /\ 0..Eh[f].last \subseteq States(f)
  BY <1>1 DEF States
<1>3. \A s \in States(f) : EntryAt[f][s] \in 0..Len(Graph[f]) - 1
  BY EntryAssumption
<1>4. \A r, s \in States(f) : r < s => EntryAt[f][r] < EntryAt[f][s]
  BY EntryAssumption
<1> QED
  BY <1>1, <1>2, <1>3, <1>4

LEMMA InitIInv == Init => IInv
<1> SUFFICES ASSUME Init PROVE IInv
  OBVIOUS
<1>1. fn \in Fns /\ -1 \in States(fn) /\ Len(Graph[fn]) \in Nat /\ Len(Eh[fn].try_blocks) \in Nat
  BY EntryFacts, EhAssumption DEF Init
<1> QED
  BY <1>1 DEF Init, IInv, TypeOK, Walks, Control

\* The frame handler is called: whether there is anything to unwind depends on
\* the target alone.
LEMMA VisitFacts ==
    ASSUME IInv, NEW s \in States(fn), NEW t, Visit(s, t)
    PROVE  /\ block' \in 0..Len(Eh[fn].try_blocks) /\ Selects(s, t, block')
           /\ fn' = fn /\ state' = state /\ live' = live
           /\ cached' = IF block' = 0 THEN cached ELSE Target(block')
           /\ \/ /\ s = -1 /\ block' = 0 /\ pc' = "left" /\ UNCHANGED walk
              \/ /\ s \in 0..Eh[fn].last /\ Target(block') < s
                 /\ block' # 0 => InTry(fn, block', s)
                 /\ pc' = "skipping" /\ entered' = s /\ passed' = 0
                 /\ p' = EntryAt[fn][0] /\ last' = EntryAt[fn][0]
<1>1. PICK b \in 0..Len(Eh[fn].try_blocks) :
        /\ Selects(s, t, b)
        /\ block' = b
        /\ cached' = IF b = 0 THEN cached ELSE Target(b)
        /\ IF Target(b) >= s
           THEN pc' = After(b) /\ UNCHANGED walk
           ELSE /\ pc' = "skipping" /\ entered' = s /\ passed' = 0
                /\ p' = AfterUnsigned(Graph[fn], GraphAt[fn]) /\ last' = p'
        /\ UNCHANGED <<fn, state, live>>
  BY DEF Visit
<1>2. fn \in Fns /\ Target(b) \in Int /\ -1 <= Target(b) /\ (b # 0 => Target(b) + 1 = Block(fn, b).try_low)
  BY TargetFacts DEF IInv, TypeOK
<1>3. s \in Int /\ -1 <= s /\ s <= Eh[fn].last /\ Eh[fn].last \in Nat \cup {-1}
  BY <1>2, EhAssumption DEF States
<1>4. b # 0 => InTry(fn, b, s) /\ Target(b) < s
  BY <1>1, <1>2, <1>3 DEF Selects, InTry
<1>5. CASE Target(b) >= s
  <2>1. b = 0 /\ s = -1
    BY <1>2, <1>3, <1>4, <1>5 DEF Target
  <2> QED
    BY <1>1, <1>5, <2>1 DEF After
<1>6. CASE ~(Target(b) >= s)
  <2>1. s \in 0..Eh[fn].last /\ Eh[fn].last # -1 /\ Target(b) < s
    BY <1>2, <1>3, <1>6
  <2>2. AfterUnsigned(Graph[fn], GraphAt[fn]) = EntryAt[fn][0]
    BY <1>2, <2>1, StartIsRead
  <2> QED
    BY <1>1, <1>4, <1>6, <2>1, <2>2
<1> QED
  BY <1>5, <1>6

LEMMA VisitIInv ==
    ASSUME IInv, NEW s \in States(fn), NEW t, Visit(s, t)
    PROVE  IInv'
<1>1. fn \in Fns /\ 0 \in Nat
  BY DEF IInv, TypeOK
<1>2. cached' \in States(fn)
  BY VisitFacts, TargetFacts DEF IInv, TypeOK
<1>3. CASE s = -1 /\ block' = 0 /\ pc' = "left" /\ UNCHANGED walk
  BY <1>2, <1>3, VisitFacts DEF IInv, TypeOK, Walks, Control, walk
<1>4. CASE /\ s \in 0..Eh[fn].last /\ Target(block') < s
           /\ block' # 0 => InTry(fn, block', s)
           /\ pc' = "skipping" /\ entered' = s /\ passed' = 0
           /\ p' = EntryAt[fn][0] /\ last' = EntryAt[fn][0]
  <2>1. 0 \in States(fn) /\ s \in Nat /\ Eh[fn].last \in Nat
    BY <1>1, <1>4, EhAssumption DEF States
  <2>2. EntryAt[fn][0] \in 0..Len(Graph[fn])
    BY <1>1, <2>1, EntryFacts
  <2>3. fn' = fn /\ state' = state /\ live' = live /\ block' \in 0..Len(Eh[fn].try_blocks)
    BY VisitFacts
  <2>4. TypeOK'
    BY <1>2, <1>4, <2>1, <2>2, <2>3 DEF IInv, TypeOK, Control
  <2>5. Target(block') \in Int /\ -1 <= Target(block')
    BY <2>3, TargetFacts DEF IInv
  <2>6. ToUnwind(entered)'
    BY <1>4, <2>3, <2>5 DEF ToUnwind, Target
  <2>7. Target(block)' = Target(block')
    BY <2>3 DEF Target
  <2>8. RememberedAt(passed)' = EntryAt[fn][0]
    BY <1>4, <2>3, <2>5, <2>7 DEF RememberedAt
  <2>9. block' # 0 => cached' = Target(block)'
    BY <2>7, VisitFacts
  <2> QED
    BY <1>4, <2>1, <2>3, <2>4, <2>6, <2>8, <2>9 DEF IInv, Walks
<1> QED
  BY <1>3, <1>4, VisitFacts

\* Every step over an entry reaches that of the next state.
LEMMA SkipIInv == ASSUME IInv, SkipEdge PROVE IInv' /\ p' = EntryAt[fn][passed']
<1> DEFINE b == block
<1>1. /\ fn \in Fns /\ Target(b) \in Int /\ -1 <= Target(b)
      /\ entered \in 0..Eh[fn].last /\ Target(b) < entered
      /\ passed \in 0..entered /\ passed # entered
      /\ p = EntryAt[fn][passed] /\ last = RememberedAt(passed)
  BY TargetFacts DEF IInv, TypeOK, Walks, SkipEdge, ToUnwind
<1>2. Eh[fn].last \in Nat
  BY <1>1, StateFacts
<1>3. passed \in 0..Eh[fn].last /\ passed < Eh[fn].last /\ passed + 1 \in 0..entered
      /\ passed + 1 \in States(fn) /\ passed \in Nat
  BY <1>1, <1>2 DEF States
<1>4. p' = EntryAt[fn][passed + 1] /\ passed' = passed + 1
  BY <1>1, <1>3, SkipIsRead DEF SkipEdge
<1>5. p' \in 0..Len(Graph[fn])
  BY <1>1, <1>3, <1>4, EntryFacts
<1>6. UNCHANGED <<fn, state, live, pc, block, cached, entered>>
  BY DEF SkipEdge
<1>7. Target(block)' = Target(block)
  BY <1>6 DEF Target
<1>8. last' = RememberedAt(passed)'
  <2>1. CASE Target(block) + 1 = passed
    BY <1>1, <1>3, <1>4, <1>6, <1>7, <2>1 DEF SkipEdge, PassesTarget, RememberedAt
  <2>2. CASE Target(block) + 1 # passed
    BY <1>1, <1>3, <1>4, <1>6, <1>7, <2>2 DEF SkipEdge, PassesTarget, RememberedAt
  <2> QED
    BY <2>1, <2>2
<1>9. ToUnwind(entered)'
  BY <1>6, <1>7 DEF IInv, Walks, SkipEdge, ToUnwind
<1>10. TypeOK'
  <2>1. last' \in 0..Len(Graph[fn])
    BY <1>5 DEF IInv, TypeOK, SkipEdge
  <2>2. passed' \in 0..entered + 1
    BY <1>1, <1>3, <1>4
  <2>3. fn' = fn /\ state' = state /\ live' = live /\ pc' = pc /\ block' = block
        /\ cached' = cached /\ entered' = entered
    BY <1>6
  <2> QED
    BY <1>5, <2>1, <2>2, <2>3 DEF IInv, TypeOK
<1> QED
  BY <1>3, <1>4, <1>6, <1>7, <1>8, <1>9, <1>10 DEF IInv, Walks, SkipEdge

LEMMA FindIInv == ASSUME IInv, FindEdge PROVE IInv'
<1>1. /\ fn \in Fns /\ Target(block) \in Int /\ -1 <= Target(block)
      /\ entered \in 0..Eh[fn].last /\ Target(block) < entered
      /\ passed = entered
      /\ p = EntryAt[fn][entered] /\ last = RememberedAt(entered)
      /\ ToUnwind(entered)
  BY TargetFacts DEF IInv, TypeOK, Walks, FindEdge, ToUnwind
<1>2. UNCHANGED <<fn, state, live, block, cached, entered, passed, p>> /\ pc' = "unwinding"
  BY DEF FindEdge
<1>3. Target(block)' = Target(block)
  BY <1>2 DEF Target
<1>4. last' = Remembered'
  <2>1. CASE Target(block) + 1 = passed
    BY <1>1, <1>2, <1>3, <2>1 DEF FindEdge, PassesTarget, Remembered
  <2>2. CASE Target(block) + 1 # passed
    BY <1>1, <1>2, <1>3, <2>2 DEF FindEdge, PassesTarget, RememberedAt, Remembered
  <2> QED
    BY <2>1, <2>2
<1>5. ToUnwind(entered)' /\ EntryAt[fn'][entered] = p'
  BY <1>1, <1>2, <1>3 DEF ToUnwind
<1>6. \E s \in 0..Eh[fn'].last : ToUnwind(s)' /\ EntryAt[fn'][s] = p'
  BY <1>1, <1>2, <1>5
<1>7. last' \in 0..Len(Graph[fn])
  BY DEF IInv, TypeOK, FindEdge
<1>8. TypeOK'
  BY <1>2, <1>7 DEF IInv, TypeOK, Control
<1> QED
  BY <1>2, <1>3, <1>4, <1>5, <1>6, <1>8 DEF IInv, Walks, FindEdge

\* An edge of the graph is followed, and the rule to stop, which compares
\* positions, compares states.
LEMMA UnwindFacts ==
    ASSUME IInv, UnwindEdge
    PROVE  \E s \in 0..Eh[fn].last :
            LET n == Eh[fn].next[s]
            IN  /\ EntryAt[fn][s] = p /\ ToUnwind(s)
                /\ p' = EntryAt[fn][n]
                /\ live' = live \ {s}
                /\ pc' = IF n <= Target(block) + 1 THEN After(block) ELSE "unwinding"
<1>1. PICK s \in 0..Eh[fn].last :
        /\ EntryAt[fn][s] = p
        /\ live' = IF EdgeType(fn, p) = 0 THEN live ELSE live \ {s}
        /\ p' = p - TargetOffset(fn, p)
        /\ pc' = IF Done(TargetOffset(fn, p)) THEN After(block) ELSE pc
  BY DEF UnwindEdge
<1> DEFINE n == Eh[fn].next[s]
<1>2. /\ fn \in Fns /\ live \subseteq Eh[fn].cleanup
      /\ Target(block) \in Int /\ -1 <= Target(block) /\ Target(block) + 1 \in Nat
  BY TargetFacts DEF IInv, TypeOK
<1>3. PICK q \in 0..Eh[fn].last : ToUnwind(q) /\ EntryAt[fn][q] = p
  BY DEF IInv, Walks, UnwindEdge
<1>4. ToUnwind(s)
  <2>1. s = q
    BY <1>1, <1>2, <1>3, EntryFacts
  <2> QED
    BY <1>3, <2>1
<1>5. EdgeType(fn, p) = Edge[fn][s].type /\ TargetOffset(fn, p) = p - EntryAt[fn][n]
  BY <1>1, <1>2, EdgeIsRead
<1>6. /\ Eh[fn].last \in Nat /\ s \in Nat /\ s \in States(fn)
      /\ n \in States(fn) /\ n < s /\ n \in Int
      /\ EntryAt[fn][n] \in Nat /\ p \in Nat
  <2>1. EntryAt[fn][s] \in Nat /\ EntryAt[fn][n] \in Nat
    BY <1>2, EdgeFacts
  <2>2. p = EntryAt[fn][s]
    BY <1>1
  <2>3. /\ Eh[fn].last \in Nat /\ s \in Nat /\ s \in States(fn)
        /\ n \in States(fn) /\ n < s
    BY <1>2, EdgeFacts
  <2>4. n \in Int
    BY <1>2, <2>3, EntryFacts
  <2> QED
    BY <2>1, <2>2, <2>3, <2>4
<1>7. live' = live \ {s}
  <2>1. Edge[fn][s].type # 0 <=> s \in Eh[fn].cleanup
    BY <1>2, EdgeFacts
  <2> QED
    BY <1>1, <1>2, <1>5, <2>1
<1>8. p' = EntryAt[fn][n]
  BY <1>1, <1>5, <1>6
<1>9. ToUnwind(entered) /\ last = Remembered
  BY DEF IInv, Walks, UnwindEdge
<1> DEFINE stop == IF entered = Target(block) + 1 THEN entered ELSE Target(block) + 2
<1>10. /\ stop \in States(fn) /\ stop \in Int /\ last = EntryAt[fn][stop]
       /\ n < stop <=> n <= Target(block) + 1
  <2>1. entered \in 0..Eh[fn].last /\ Target(block) < entered /\ s <= entered
    BY <1>4, <1>9 DEF ToUnwind
  <2>2. last = EntryAt[fn][stop]
    BY <1>9 DEF Remembered
  <2> QED
    BY <1>2, <1>6, <2>1, <2>2 DEF States
<1>11. Done(TargetOffset(fn, p)) <=> n <= Target(block) + 1
  <2>1. last \in Nat
    BY <1>2, GraphAssumption DEF IInv, TypeOK
  <2> HIDE DEF n, stop
  <2>2. Done(TargetOffset(fn, p)) <=> EntryAt[fn][n] < last
    BY <1>5, <1>6, <2>1 DEF Done
  <2>3. EntryAt[fn][n] < EntryAt[fn][stop] <=> n < stop
    BY <1>2, <1>6, <1>10, EntryFacts
  <2> QED
    BY <1>10, <2>2, <2>3
<1> QED
  BY <1>1, <1>4, <1>7, <1>8, <1>11 DEF UnwindEdge

LEMMA UnwindIInv == ASSUME IInv, UnwindEdge PROVE IInv'
<1>1. PICK s \in 0..Eh[fn].last :
        /\ EntryAt[fn][s] = p /\ ToUnwind(s)
        /\ p' = EntryAt[fn][Eh[fn].next[s]]
        /\ live' = live \ {s}
        /\ pc' = IF Eh[fn].next[s] <= Target(block) + 1 THEN After(block) ELSE "unwinding"
  BY UnwindFacts
<1> DEFINE n == Eh[fn].next[s]
<1>2. /\ fn \in Fns /\ block \in 0..Len(Eh[fn].try_blocks)
      /\ Target(block) \in Int /\ -1 <= Target(block)
      /\ block # 0 => Target(block) + 1 = Block(fn, block).try_low
      /\ block # 0 => block \in Blocks(fn)
  BY TargetFacts DEF IInv, TypeOK
<1>3. Eh[fn].last \in Nat /\ s \in Nat /\ n \in States(fn) /\ n < s /\ n \in Int
  BY <1>2, StateFacts DEF States
<1>4. /\ fn' = fn /\ state' = state /\ block' = block /\ cached' = cached
      /\ entered' = entered /\ passed' = passed /\ last' = last
  BY DEF UnwindEdge
<1>5. Target(block)' = Target(block) /\ Remembered' = Remembered /\ ToUnwind(entered)' = ToUnwind(entered)
  BY <1>4 DEF Target, Remembered, ToUnwind
<1>6. p' \in 0..Len(Graph[fn])
  BY <1>1, <1>2, <1>3, EntryFacts
<1>7. pc' \in {"unwinding", "left", "handler"} /\ (pc' = "handler" => block # 0)
  BY <1>1 DEF After
<1>8. TypeOK'
  BY <1>1, <1>4, <1>6, <1>7 DEF IInv, TypeOK, Control
<1>9. /\ ToUnwind(entered) /\ last = Remembered
      /\ block # 0 => cached = Target(block)
  BY DEF IInv, Walks, UnwindEdge
<1>10. pc' = "unwinding" => n \in 0..Eh[fn].last /\ ToUnwind(n)'
  <2> SUFFICES ASSUME pc' = "unwinding" PROVE n \in 0..Eh[fn].last /\ ToUnwind(n)'
    OBVIOUS
  <2>1. n > Target(block) + 1
    BY <1>1, <1>2, <1>3 DEF After
  <2>2. n \in 0..Eh[fn].last /\ Target(block) < n
    BY <1>2, <1>3, <2>1 DEF States
  <2>3. s <= entered /\ (block # 0 => InTry(fn, block, s)) /\ entered \in 0..Eh[fn].last
    BY <1>1, <1>9 DEF ToUnwind
  <2>4. block # 0 => InTry(fn, block, n)
    <3>1. block # 0 => Block(fn, block).try_high \in Nat
      BY <1>2, BlockFacts
    <3> QED
      BY <1>2, <1>3, <2>1, <2>3, <3>1 DEF InTry
  <2>5. n <= entered
    BY <1>3, <2>3
  <2> QED
    BY <1>4, <1>5, <2>2, <2>4, <2>5 DEF ToUnwind
<1>11. Walks'
  <2> HIDE DEF n
  <2>1. pc' = "unwinding" => \E r \in 0..Eh[fn'].last : ToUnwind(r)' /\ EntryAt[fn'][r] = p'
    BY <1>1, <1>4, <1>10 DEF n
  <2> QED
    BY <1>4, <1>5, <1>7, <1>9, <2>1 DEF Walks
<1> QED
  BY <1>8, <1>11 DEF IInv

LEMMA BodyIInv ==
    ASSUME IInv, (\E s \in 0..Eh[fn].last : Enter(s)) \/ Leave \/ HandlerReturns
    PROVE  IInv'
<1>1. fn \in Fns /\ fn' = fn /\ cached' = cached /\ UNCHANGED walk /\ pc' = "running"
      /\ live' \subseteq Eh[fn].cleanup
  BY DEF IInv, TypeOK, Enter, Leave, HandlerReturns
<1>2. block' \in 0..Len(Eh[fn].try_blocks)
  <2>1. Len(Eh[fn].try_blocks) \in Nat
    BY <1>1, EhAssumption
  <2> QED
    BY <2>1 DEF IInv, TypeOK, Enter, Leave, HandlerReturns
<1>3. state' \in States(fn)
  <2>1. CASE \E s \in 0..Eh[fn].last : Enter(s)
    BY <1>1, <2>1, EntryFacts DEF Enter
  <2>2. CASE Leave
    <3>1. state \in 0..Eh[fn].last
      BY <2>2, <1>1, EhAssumption DEF Leave, IInv, TypeOK, States
    <3> QED
      BY <1>1, <2>2, <3>1, StateFacts DEF Leave
  <2>3. CASE HandlerReturns
    <3>1. block \in Blocks(fn)
      BY <2>3, TargetFacts DEF HandlerReturns, IInv, TypeOK, Walks
    <3>2. Block(fn, block).try_low \in 0..Eh[fn].last
      BY <1>1, <3>1, BlockFacts
    <3> QED
      BY <1>1, <2>3, <3>2, StateFacts DEF HandlerReturns
  <2> QED
    BY <2>1, <2>2, <2>3
<1> QED
  BY <1>1, <1>2, <1>3 DEF IInv, TypeOK, Walks, walk, Control

\* The steps of Next, the function's own told from the handler's.
LEMMA NextSteps ==
    ASSUME IInv, [Next]_vars
    PROVE  \/ (\E s \in 0..Eh[fn].last : Enter(s)) \/ Leave \/ HandlerReturns
           \/ \E t \in Types : pc = "running" /\ state \in States(fn) /\ Visit(state, t)
           \/ \E t \in Types : pc = "handler" /\ cached \in States(fn) /\ Visit(cached, t)
           \/ SkipEdge \/ FindEdge \/ UnwindEdge
           \/ UNCHANGED vars
<1>1. \A s : Enter(s) => s \in 0..Eh[fn].last
  BY DEF Enter
<1>2. \A t : Arrive(t) => pc = "running" /\ Visit(state, t)
  BY DEF Arrive
<1>3. \A t : ArriveFromHandler(t) => pc = "handler" /\ Visit(cached, t)
  BY DEF ArriveFromHandler, StateOfCatcher
<1> QED
  BY <1>1, <1>2, <1>3 DEF Next, IInv, TypeOK

LEMMA StepIInv == ASSUME IInv, [Next]_vars PROVE IInv'
<1>1. CASE UNCHANGED vars
  <2>1. /\ fn' = fn /\ state' = state /\ live' = live /\ pc' = pc /\ block' = block
        /\ cached' = cached /\ entered' = entered /\ passed' = passed /\ p' = p /\ last' = last
    BY <1>1 DEF vars, walk
  <2>2. TypeOK'
    BY <2>1 DEF IInv, TypeOK
  <2>3. Walks'
    BY <2>1 DEF IInv, Walks, ToUnwind, Remembered, RememberedAt, Target
  <2> QED
    BY <2>2, <2>3 DEF IInv
<1> QED
  BY <1>1, NextSteps, VisitIInv, SkipIInv, FindIInv, UnwindIInv, BodyIInv

\* The state keeps its shape: every position stays in the image, and the first
\* walk never passes the entry of the state it looks for.
THEOREM TypeCorrect == Spec => []TypeOK
<1>1. IInv => TypeOK
  BY DEF IInv
<1> QED
  BY <1>1, InitIInv, StepIInv, PTL DEF Spec

----------------------------------------------------------------------------
(* Objects.                                                                *)

LEMMA LiveIsOwedStep ==
    ASSUME \A f \in Fns : CleanTryEntry(f),
           IInv, IInv', LiveIsOwed, [Next]_vars
    PROVE  LiveIsOwed'
<1>1. fn \in Fns /\ fn' = fn
  BY DEF IInv, TypeOK, Next, Enter, Leave, Arrive, ArriveFromHandler, Visit, SkipEdge, FindEdge,
         UnwindEdge, HandlerReturns, vars
<1>2. ASSUME NEW b \in Blocks(fn)
      PROVE  /\ Owed(fn, Block(fn, b).try_low - 1) = Owed(fn, Eh[fn].next[Block(fn, b).try_low])
             /\ Owed(fn, Block(fn, b).try_low - 1) = Owed(fn, Block(fn, b).try_low)
  BY <1>1, <1>2, OwedAtTry DEF CleanTryEntry
<1>3. ASSUME NEW s \in 0..Eh[fn].last, Enter(s)
      PROVE  LiveIsOwed'
  <2>1. Owed(fn, s) = Owed(fn, state) \cup ({s} \cap Eh[fn].cleanup)
    BY <1>1, <1>3, OwedStep DEF Enter
  <2> QED
    BY <1>1, <1>3, <2>1 DEF Enter, LiveIsOwed
<1>4. CASE Leave
  <2>1. state \in 0..Eh[fn].last
    BY <1>4, <1>1, EhAssumption DEF Leave, IInv, TypeOK, States
  <2>2. Owed(fn, state') = Owed(fn, state) \ {state}
    BY <1>1, <1>4, <2>1, OwedStep DEF Leave
  <2> QED
    BY <1>1, <1>4, <2>2 DEF Leave, LiveIsOwed
<1>5. CASE HandlerReturns
  <2>1. block \in Blocks(fn) /\ cached = Block(fn, block).try_low - 1
    BY <1>5, TargetFacts DEF HandlerReturns, IInv, TypeOK, Walks, Target
  <2>2. live = Owed(fn, state')
    BY <1>2, <1>5, <2>1 DEF HandlerReturns, LiveIsOwed
  <2> QED
    BY <1>1, <1>5, <2>2 DEF HandlerReturns, LiveIsOwed
<1>6. ASSUME NEW s \in States(fn), NEW t, Visit(s, t), live = Owed(fn, s)
      PROVE  LiveIsOwed'
  <2>1. pc' \in {"left", "skipping"} /\ live' = live
    BY <1>6, VisitFacts
  <2>2. CASE pc' = "skipping"
    <3>1. entered' = s /\ passed' = 0 /\ p' = EntryAt[fn][0]
      BY <1>6, <2>2, VisitFacts
    <3> QED
      BY <1>1, <1>6, <2>1, <2>2, <3>1 DEF LiveIsOwed
  <2> QED
    BY <2>1, <2>2 DEF LiveIsOwed
<1>7. CASE SkipEdge
  <2>1. p' = EntryAt[fn][passed'] /\ pc' = "skipping" /\ live = Owed(fn, entered)
        /\ live' = live /\ entered' = entered
    BY <1>7, SkipIInv DEF SkipEdge, LiveIsOwed
  <2> QED
    BY <1>1, <2>1 DEF LiveIsOwed
<1>8. CASE FindEdge
  <2>1. /\ entered \in 0..Eh[fn].last /\ EntryAt[fn][entered] = p /\ live = Owed(fn, entered)
        /\ pc' = "unwinding" /\ live' = live /\ p' = p
    BY <1>8 DEF FindEdge, LiveIsOwed, IInv, Walks, ToUnwind
  <2> QED
    BY <1>1, <2>1 DEF LiveIsOwed
<1>9. CASE UnwindEdge
  <2>1. PICK s \in 0..Eh[fn].last :
          /\ EntryAt[fn][s] = p /\ ToUnwind(s)
          /\ p' = EntryAt[fn][Eh[fn].next[s]]
          /\ live' = live \ {s}
          /\ pc' = IF Eh[fn].next[s] <= Target(block) + 1 THEN After(block) ELSE "unwinding"
    BY <1>9, UnwindFacts
  <2> DEFINE n == Eh[fn].next[s]
  <2>2. live = Owed(fn, s)
    <3>1. PICK q \in 0..Eh[fn].last : EntryAt[fn][q] = p /\ live = Owed(fn, q)
      BY <1>9 DEF UnwindEdge, LiveIsOwed
    <3>2. q = s
      BY <1>1, <2>1, <3>1, EntryFacts
    <3> QED
      BY <3>1, <3>2
  <2>3. live' = Owed(fn, n)
    BY <1>1, <2>1, <2>2, OwedStep
  <2>4. n \in States(fn) /\ n < s /\ n \in Int /\ s \in Int
    BY <1>1, StateFacts, EntryFacts
  <2>5. Target(block) \in Int /\ -1 <= Target(block) /\ Eh[fn].last \in Nat
    BY <1>1, TargetFacts, StateFacts DEF IInv, TypeOK
  <2>6. CASE pc' = "unwinding"
    <3>1. n \in 0..Eh[fn].last
      BY <2>1, <2>4, <2>5, <2>6 DEF After, States
    <3> QED
      BY <1>1, <2>1, <2>3, <2>6, <3>1 DEF LiveIsOwed
  <2>7. CASE pc' = "handler"
    <3>1. /\ block \in Blocks(fn) /\ block # 0 /\ cached = Block(fn, block).try_low - 1
          /\ cached' = cached /\ block' = block
          /\ Target(block) + 1 = Block(fn, block).try_low
          /\ InTry(fn, block, s)
      BY <1>9, <2>1, <2>7, TargetFacts
      DEF After, UnwindEdge, IInv, TypeOK, Walks, Target, ToUnwind
    <3>2. n <= Target(block) + 1
      BY <2>1, <2>7
    <3>3. /\ Block(fn, block).try_low <= s /\ s <= Block(fn, block).try_high
          /\ Block(fn, block).try_low \in Nat /\ Block(fn, block).try_high \in Nat
          /\ \A q \in Block(fn, block).try_low + 1 .. Block(fn, block).try_high :
                Block(fn, block).try_low <= Eh[fn].next[q]
      BY <1>1, <3>1, BlockFacts DEF InTry
    <3>4. CASE s = Block(fn, block).try_low
      BY <1>1, <1>2, <2>3, <2>7, <3>1, <3>4 DEF LiveIsOwed
    <3>5. CASE s # Block(fn, block).try_low
      <4>1. s \in Block(fn, block).try_low + 1 .. Block(fn, block).try_high
        BY <2>4, <3>3, <3>5
      <4>2. n = Block(fn, block).try_low
        BY <2>4, <3>1, <3>2, <3>3, <4>1
      <4> QED
        BY <1>1, <1>2, <2>3, <2>7, <3>1, <4>2 DEF LiveIsOwed
    <3> QED
      BY <3>4, <3>5
  <2> QED
    BY <2>1, <2>6, <2>7 DEF After, LiveIsOwed
<1>10. CASE UNCHANGED vars
  BY <1>1, <1>10 DEF vars, walk, LiveIsOwed
<1>11. pc = "running" => live = Owed(fn, state)
  BY DEF LiveIsOwed
<1>12. pc = "handler" => live = Owed(fn, cached)
  BY DEF LiveIsOwed
<1> QED
  BY <1>3, <1>4, <1>5, <1>6, <1>7, <1>8, <1>9, <1>10, <1>11, <1>12, NextSteps

LEMMA InitLive == Init => LiveIsOwed
BY ChainEmpty DEF Init, LiveIsOwed

\* Every object is destroyed exactly when the walk passes its entry, in every
\* program: the relative offsets lead along the chain the objects were
\* constructed on, and what a caught exception leaves alive is what the state
\* cached for the next one owes.  The assumption on try statements is the one
\* the code makes by caching the state before the first of the try.
THEOREM LiveAlwaysOwed ==
    ASSUME \A f \in Fns : CleanTryEntry(f)
    PROVE  Spec => []LiveIsOwed
<1>1. Init => IInv /\ LiveIsOwed
  BY InitIInv, InitLive
<1>2. IInv /\ LiveIsOwed /\ [Next]_vars => (IInv /\ LiveIsOwed)'
  BY StepIInv, LiveIsOwedStep
<1> QED
  BY <1>1, <1>2, PTL DEF Spec

LEMMA NothingLeftStep ==
    ASSUME \A f \in Fns : 0 \notin Eh[f].cleanup,
           IInv, LiveIsOwed, NothingLeftBehind, [Next]_vars
    PROVE  NothingLeftBehind'
<1>1. fn \in Fns
  BY DEF IInv, TypeOK
<1>2. ASSUME NEW s \in States(fn), NEW t, Visit(s, t), live = Owed(fn, s)
      PROVE  NothingLeftBehind'
  <2> SUFFICES ASSUME pc' = "left" PROVE live' = {}
    BY DEF NothingLeftBehind
  <2>1. s = -1 /\ live' = live
    BY <1>2, VisitFacts
  <2> QED
    BY <1>1, <1>2, <2>1, ChainEmpty
<1>3. CASE UnwindEdge
  <2> SUFFICES ASSUME pc' = "left" PROVE live' = {}
    BY DEF NothingLeftBehind
  <2>1. PICK s \in 0..Eh[fn].last :
          /\ EntryAt[fn][s] = p
          /\ live' = live \ {s}
          /\ pc' = IF Eh[fn].next[s] <= Target(block) + 1 THEN After(block) ELSE "unwinding"
    BY <1>3, UnwindFacts
  <2> DEFINE n == Eh[fn].next[s]
  <2>2. live = Owed(fn, s)
    <3>1. PICK q \in 0..Eh[fn].last : EntryAt[fn][q] = p /\ live = Owed(fn, q)
      BY <1>3 DEF UnwindEdge, LiveIsOwed
    <3>2. q = s
      BY <1>1, <2>1, <3>1, EntryFacts
    <3> QED
      BY <3>1, <3>2
  <2>3. live' = Owed(fn, n)
    BY <1>1, <2>1, <2>2, OwedStep
  <2>4. n \in States(fn) /\ n \in Int /\ n < s /\ Eh[fn].last \in Nat
    BY <1>1, StateFacts, EntryFacts
  <2>5. n \in {-1, 0}
    <3>1. block = 0 /\ n <= Target(block) + 1
      BY <2>1 DEF After
    <3> QED
      BY <2>4, <3>1 DEF Target, States
  <2>6. 0 \in 0..Eh[fn].last /\ Eh[fn].next[0] = -1
    <3>1. 0 \in 0..Eh[fn].last
      BY <2>4
    <3>2. Eh[fn].next[0] \in States(fn) /\ Eh[fn].next[0] < 0 /\ Eh[fn].next[0] \in Int
      BY <1>1, <3>1, StateFacts, EntryFacts
    <3> QED
      BY <3>1, <3>2 DEF States
  <2>7. Owed(fn, 0) = {}
    BY <1>1, <2>6, OwedStep, ChainEmpty
  <2> QED
    BY <1>1, <2>3, <2>5, <2>7, ChainEmpty
<1>4. pc = "running" => live = Owed(fn, state)
  BY DEF LiveIsOwed
<1>5. pc = "handler" => live = Owed(fn, cached)
  BY DEF LiveIsOwed
<1>6. CASE (\E s \in 0..Eh[fn].last : Enter(s)) \/ Leave \/ HandlerReturns \/ SkipEdge \/ FindEdge
  BY <1>6 DEF Enter, Leave, HandlerReturns, SkipEdge, FindEdge, NothingLeftBehind
<1>7. CASE UNCHANGED vars
  BY <1>7 DEF vars, NothingLeftBehind
<1> QED
  BY <1>2, <1>3, <1>4, <1>5, <1>6, <1>7, NextSteps

\* No object survives an exception that goes on to the caller, provided that
\* state 0 destroys nothing: see Fh4Outermost for what happens to one that does.
THEOREM NeverLeavesBehind ==
    ASSUME \A f \in Fns : CleanTryEntry(f), \A f \in Fns : 0 \notin Eh[f].cleanup
    PROVE  Spec => []NothingLeftBehind
<1>1. Init => IInv /\ LiveIsOwed /\ NothingLeftBehind
  BY InitIInv, InitLive DEF Init, NothingLeftBehind
<1>2. IInv /\ LiveIsOwed /\ NothingLeftBehind /\ [Next]_vars
        => (IInv /\ LiveIsOwed /\ NothingLeftBehind)'
  BY StepIInv, LiveIsOwedStep, NothingLeftStep
<1> QED
  BY <1>1, <1>2, PTL DEF Spec

----------------------------------------------------------------------------
(* The choice of a handler.                                                *)

\* The first block of the table that is found to be around a state and takes the
\* exception is the innermost of the try statements there.
LEMMA FirstIsInnermost ==
    ASSUME IInv, NEW s \in States(fn), NEW t, Visit(s, t),
           \A i \in Blocks(fn) : InTry(fn, i, s) <=> Block(fn, i).try_low \in Around
    PROVE  TakenByInnermost(t)
<1> DEFINE accepting == {i \in Blocks(fn) :
                            Block(fn, i).try_low \in Around /\ BlockCatches(fn, i, t)}
<1>1. fn \in Fns /\ block' \in 0..Len(Eh[fn].try_blocks) /\ Selects(s, t, block')
  BY VisitFacts DEF IInv, TypeOK
<1>2. \A i \in Blocks(fn) : i \in accepting <=> InTry(fn, i, s) /\ BlockCatches(fn, i, t)
  OBVIOUS
<1>3. CASE block' = 0
  BY <1>1, <1>2, <1>3 DEF Selects, TakenByInnermost
<1>4. CASE block' # 0
  <2>1. /\ block' \in Blocks(fn) /\ block' \in Nat
        /\ InTry(fn, block', s) /\ BlockCatches(fn, block', t)
        /\ \A b \in 1..block' - 1 : ~(InTry(fn, b, s) /\ BlockCatches(fn, b, t))
    <3>1. Len(Eh[fn].try_blocks) \in Nat
      BY <1>1, EhAssumption
    <3>2. block' \in Blocks(fn) /\ block' \in Nat
      BY <1>1, <1>4, <3>1 DEF Blocks
    <3> QED
      BY <1>1, <1>4, <3>2 DEF Selects
  <2>2. ASSUME NEW i \in accepting
        PROVE  Block(fn, i).try_low <= Block(fn, block').try_low
    <3>1. i \in Blocks(fn) /\ i \in Nat /\ InTry(fn, i, s) /\ ~(i < block')
      <4>1. i \in Blocks(fn) /\ i \in Nat /\ 1 <= i
        BY <2>2 DEF Blocks
      <4>2. InTry(fn, i, s) /\ BlockCatches(fn, i, t)
        BY <1>2, <2>2
      <4>3. i < block' => i \in 1..block' - 1
        <5>1. i \in Nat /\ 1 <= i /\ block' \in Nat
          BY <2>1, <4>1
        <5>2. \A k, m \in Nat : 1 <= k /\ k < m => k \in 1..m - 1
          OBVIOUS
        <5> QED
          BY <5>1, <5>2
      <4> QED
        BY <2>1, <4>1, <4>2, <4>3
    <3>2. CASE i = block'
      <4>1. Block(fn, i).try_low \in Nat
        BY <1>1, <3>1, BlockFacts
      <4> QED
        BY <3>2, <4>1
    <3>3. CASE block' < i
      BY <1>1, <2>1, <3>1, <3>3, InnerFirst
    <3> QED
      BY <2>1, <3>1, <3>2, <3>3
  <2>3. block' \in accepting
    BY <1>2, <2>1
  <2> QED
    BY <2>2, <2>3 DEF TakenByInnermost
<1> QED
  BY <1>3, <1>4

LEMMA InnermostStep ==
    ASSUME IInv, [Next]_vars
    PROVE  [\A t \in Types : Arrive(t) \/ ArriveFromHandler(t) => TakenByInnermost(t)]_vars
<1>1. fn \in Fns /\ state \in States(fn) /\ cached \in States(fn)
  BY DEF IInv, TypeOK
<1>2. ASSUME NEW t \in Types, Arrive(t)
      PROVE  TakenByInnermost(t)
  <2>1. Around = Chain(fn, state) /\ Visit(state, t)
    BY <1>2 DEF Arrive, Around
  <2>2. \A i \in Blocks(fn) : InTry(fn, i, state) <=> Block(fn, i).try_low \in Around
    BY <1>1, <2>1, InTryIsChain
  <2> QED
    BY <1>1, <2>1, <2>2, FirstIsInnermost
<1>3. ASSUME NEW t \in Types, ArriveFromHandler(t)
      PROVE  TakenByInnermost(t)
  <2> DEFINE low == Block(fn, block).try_low
  <2>1. /\ Around = Chain(fn, Eh[fn].next[low]) /\ Visit(cached, t)
        /\ block \in Blocks(fn) /\ cached = low - 1
    BY <1>3, TargetFacts
    DEF ArriveFromHandler, StateOfCatcher, Around, IInv, TypeOK, Walks, Target
  <2>2. Eh[fn].next[low] \in States(fn)
    BY <1>1, <2>1, BlockFacts, StateFacts
  <2>3. \A i \in Blocks(fn) : InTry(fn, i, cached) <=> Block(fn, i).try_low \in Around
    BY <1>1, <2>1, <2>2, BeforeTry, InTryIsChain
  <2> QED
    BY <1>1, <2>1, <2>3, FirstIsInnermost
<1> QED
  BY <1>2, <1>3

\* The innermost try statement that accepts an exception gets it, in every
\* program and also when the exception leaves a handler.
THEOREM AlwaysInnermost == Spec => InnermostCatches
<1> QED
  BY InitIInv, StepIInv, InnermostStep, PTL DEF Spec, InnermostCatches

=============================================================================
