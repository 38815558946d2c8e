------------------------- MODULE PdataUnwindProofs -------------------------
(***************************************************************************)
(* Whatever the prologue: the unwinder reads the unwind information as it  *)
(* was written, gives up only for the reason the code names, finds the     *)
(* frame pointer, and ends with the registers of the caller.               *)
(***************************************************************************)
EXTENDS PdataUnwind, TLAPS

IsEntry(s) == s.code # "operand"

Code ==
    {"push_nonvolatile_reg", "alloc_large", "alloc_small", "set_frame_pointer",
     "save_nonvolatile_reg", "save_nonvolatile_reg_far", "epilog", "save_xmm128",
     "save_xmm128_far", "push_machine_frame"}

Slot ==
    [code : Code, info : 0..15, at : Nat] \cup [code : {"operand"}, value : HalfWord]

\* The slots of one code: its entry and as many operands as belong to it.
IsCode(c) ==
    /\ c \in Seq(Slot)
    /\ Len(c) = 1 + Operands(c[1])
    /\ IsEntry(c[1])
    /\ \A k \in 2..Len(c) : ~IsEntry(c[k])

\* After an entry and its operands comes the next entry, or the end.
WellFormed(d) ==
    /\ Len(d) >= 1 => IsEntry(d[1])
    /\ \A k \in 1..Len(d) : IsEntry(d[k]) =>
        LET next == k + 1 + Operands(d[k])
        IN  /\ next <= Len(d) + 1
            /\ next <= Len(d) => IsEntry(d[next])
            /\ \A m \in 1..Operands(d[k]) : ~IsEntry(d[k + m])

\* The size or the offset that a code tells.
CodeSize(c) ==
    IF c[1].code = "alloc_small" THEN c[1].info * 8 + 8
    ELSE IF c[1].info = 0 THEN AsNumber(c[2]) * 8
    ELSE AsNumber(c[2]) + 65536 * AsNumber(c[3])

CodeOffset(c) ==
    IF c[1].code = "save_nonvolatile_reg" THEN AsNumber(c[2]) * 8
    ELSE IF c[1].code = "save_xmm128" THEN AsNumber(c[2]) * 16
    ELSE AsNumber(c[2]) + 65536 * AsNumber(c[3])

XmmSaves == {"save_xmm128", "save_xmm128_far"}

Inv ==
    /\ data \in Seq(Slot)
    /\ WellFormed(data)
    /\ i \in Nat
    /\ phase \in {"prologue", "body"} => i = 0
    /\ ReadsEntries

----------------------------------------------------------------------------
\* The registers, and the numbers that codes know them by.
LEMMA FieldFacts ==
    /\ Elements(GpFields) = {"rbx", "rbp", "rsi", "rdi", "r12", "r13", "r14", "r15"}
    /\ Elements(XmmFields) = {"xmm6", "xmm7", "xmm8", "xmm9", "xmm10", "xmm11", "xmm12", "xmm13", "xmm14", "xmm15"}
<1>1. DOMAIN GpFields = 1..8 /\ DOMAIN XmmFields = 1..10
  BY DEF GpFields, XmmFields
<1>2. /\ GpFields[1] = "rbx" /\ GpFields[2] = "rbp" /\ GpFields[3] = "rsi" /\ GpFields[4] = "rdi"
      /\ GpFields[5] = "r12" /\ GpFields[6] = "r13" /\ GpFields[7] = "r14" /\ GpFields[8] = "r15"
  BY DEF GpFields
<1>3. /\ XmmFields[1] = "xmm6" /\ XmmFields[2] = "xmm7" /\ XmmFields[3] = "xmm8" /\ XmmFields[4] = "xmm9"
      /\ XmmFields[5] = "xmm10" /\ XmmFields[6] = "xmm11" /\ XmmFields[7] = "xmm12" /\ XmmFields[8] = "xmm13"
      /\ XmmFields[9] = "xmm14" /\ XmmFields[10] = "xmm15"
  BY DEF XmmFields
<1>4. 1..8 = {1, 2, 3, 4, 5, 6, 7, 8} /\ 1..10 = {1, 2, 3, 4, 5, 6, 7, 8, 9, 10}
  OBVIOUS
<1>5. Elements(GpFields) = {GpFields[k] : k \in {1, 2, 3, 4, 5, 6, 7, 8}}
  BY <1>1, <1>4 DEF Elements
<1>6. Elements(XmmFields) = {XmmFields[k] : k \in {1, 2, 3, 4, 5, 6, 7, 8, 9, 10}}
  BY <1>1, <1>4 DEF Elements
<1>7. Elements(GpFields) = {"rbx", "rbp", "rsi", "rdi", "r12", "r13", "r14", "r15"}
  BY <1>2, <1>5
<1> QED
  BY <1>3, <1>6, <1>7

LEMMA RegisterFacts ==
    /\ NonVolatile = Elements(GpFields) \cup Elements(XmmFields)
    /\ Register = NonVolatile \cup {"rax"} /\ "rax" \notin NonVolatile
    /\ Elements(GpFields) \cap Elements(XmmFields) = {}
BY FieldFacts DEF NonVolatile, Register, Number

LEMMA NumberFacts ==
    /\ \A r \in Elements(GpFields) : GpIndex(Number[r]) >= 0 /\ Gp(Number[r]) = r
    /\ \A r \in Elements(XmmFields) : Xmm(Number[r]) = r
    /\ GpIndex(Number["rax"]) = -1
    /\ \A r \in Register : Number[r] \in 0..15
<1>1. \A r \in Elements(GpFields) : GpIndex(Number[r]) >= 0 /\ Gp(Number[r]) = r
  BY FieldFacts DEF Gp, GpIndex, Number, GpFields
<1>2. \A r \in Elements(XmmFields) : Xmm(Number[r]) = r
  BY FieldFacts DEF Xmm, Number, XmmFields
<1> QED
  BY <1>1, <1>2, FieldFacts, RegisterFacts DEF Number, GpIndex

LEMMA CallerFacts ==
    \A r \in Register : InCaller(r) \in Int /\ InCaller(r) # 0
BY NumberFacts DEF InCaller

----------------------------------------------------------------------------
\* An entry has at most two operands.
LEMMA OperandsType == \A s : Operands(s) \in {0, 1, 2}
BY DEF Operands

\* A code in front of well-formed codes makes well-formed codes; only its first
\* slot is an entry.
LEMMA Prepend ==
    ASSUME NEW c, IsCode(c), NEW d \in Seq(Slot), WellFormed(d)
    PROVE  c \o d \in Seq(Slot) /\ WellFormed(c \o d)
<1> DEFINE e == c \o d
<1>1. e \in Seq(Slot) /\ Len(e) = Len(c) + Len(d) /\ Len(c) \in Nat /\ Len(d) \in Nat
  BY DEF IsCode
<1>2. \A k \in 1..Len(c) : e[k] = c[k]
  BY DEF IsCode
<1>3. \A k \in 1..Len(d) : e[Len(c) + k] = d[k]
  BY DEF IsCode
<1> HIDE DEF e
<1>4. Len(c) >= 1 /\ IsEntry(e[1])
  BY <1>1, <1>2, OperandsType DEF IsCode
<1>5. ASSUME NEW k \in 1..Len(e), IsEntry(e[k])
      PROVE  LET next == k + 1 + Operands(e[k])
             IN  /\ next <= Len(e) + 1
                 /\ next <= Len(e) => IsEntry(e[next])
                 /\ \A m \in 1..Operands(e[k]) : ~IsEntry(e[k + m])
  <2>1. CASE k = 1
    <3>1. e[1] = c[1]
      BY <1>1, <1>2, <1>4
    <3>2. Len(c) = 1 + Operands(e[1])
      BY <3>1 DEF IsCode
    <3>3. Len(d) >= 1 => IsEntry(e[Len(c) + 1])
      BY <1>1, <1>3 DEF WellFormed
    <3>4. k + 1 + Operands(e[k]) = Len(c) + 1
      BY <1>1, <2>1, <3>2, OperandsType
    <3>5. ASSUME NEW m \in 1..Operands(e[1])
          PROVE  ~IsEntry(e[1 + m])
      <4>1. 1 + m \in 2..Len(c) /\ 1 + m \in 1..Len(c)
        BY <1>1, <3>2, OperandsType
      <4> QED
        BY <1>2, <4>1 DEF IsCode
    <3> QED
      BY <1>1, <2>1, <3>3, <3>4, <3>5
  <2>2. CASE k > Len(c)
    <3> DEFINE j == k - Len(c)
    <3>1. j \in 1..Len(d) /\ k = Len(c) + j /\ e[k] = d[j]
      BY <1>1, <1>3, <2>2
    <3>2. Operands(d[j]) \in {0, 1, 2}
      BY OperandsType
    <3> HIDE DEF j
    <3>3. /\ j + 1 + Operands(d[j]) <= Len(d) + 1
          /\ j + 1 + Operands(d[j]) <= Len(d) => IsEntry(d[j + 1 + Operands(d[j])])
          /\ \A m \in 1..Operands(d[j]) : ~IsEntry(d[j + m])
      <4>1. IsEntry(d[j])
        BY <1>5, <3>1
      <4> QED
        BY <3>1, <4>1 DEF WellFormed
    <3>4. Operands(e[k]) = Operands(d[j])
      BY <3>1
    <3>5. j \in Int /\ Len(c) \in Int /\ k = Len(c) + j
      BY <1>1, <3>1
    <3>6. k + 1 + Operands(e[k]) = Len(c) + (j + 1 + Operands(d[j]))
      BY <3>2, <3>4, <3>5
    <3>7. j + 1 + Operands(d[j]) <= Len(d)
          => e[k + 1 + Operands(e[k])] = d[j + 1 + Operands(d[j])]
      BY <1>1, <1>3, <3>1, <3>2, <3>6
    <3>8. ASSUME NEW m \in 1..Operands(e[k])
          PROVE  ~IsEntry(e[k + m])
      <4>1. m \in 1..Operands(d[j]) /\ m \in Int
        BY <3>4
      <4>2. j + m \in 1..Len(d)
        BY <1>1, <3>1, <3>2, <3>3, <3>5, <4>1
      <4>3. k + m = Len(c) + (j + m)
        BY <3>5, <4>1
      <4>4. e[k + m] = d[j + m]
        BY <1>3, <4>2, <4>3
      <4> QED
        BY <3>3, <4>1, <4>4
    <3> QED
      <4>1. k + 1 + Operands(e[k]) <= Len(e) + 1
        BY <1>1, <3>2, <3>3, <3>5, <3>6
      <4>2. k + 1 + Operands(e[k]) <= Len(e) => IsEntry(e[k + 1 + Operands(e[k])])
        BY <1>1, <3>2, <3>3, <3>5, <3>6, <3>7
      <4> QED
        BY <3>8, <4>1, <4>2
  <2>3. k = 1 \/ k > Len(c)
    BY <1>1, <1>2, <1>5 DEF IsCode
  <2> QED
    BY <2>1, <2>2, <2>3
<1> QED
  BY <1>1, <1>4, <1>5 DEF WellFormed, e

\* The codes of a prologue are code after code, each put in front of the others.
LEMMA PutInFront ==
    ASSUME Inv, NEW c, IsCode(c),
           phase \in {"prologue", "body"}, phase' \in {"prologue", "body"},
           data' = c \o data, i' = i
    PROVE  Inv'
BY Prepend DEF Inv, ReadsEntries

LEMMA EntryType ==
    ASSUME NEW code \in Code, NEW info \in 0..15, data \in Seq(Slot)
    PROVE  Entry(code, info) \in Slot /\ IsEntry(Entry(code, info))
<1>1. Len(data) \in Nat
  OBVIOUS
<1>2. Entry(code, info) \in [code : Code, info : 0..15, at : Nat]
  BY <1>1 DEF Entry
<1>3. code # "operand"
  BY DEF Code
<1>4. Entry(code, info) \in Slot
  BY <1>2 DEF Slot
<1>5. Entry(code, info).code # "operand"
  BY <1>3 DEF Entry
<1> QED
  BY <1>4, <1>5 DEF IsEntry

LEMMA OperandType ==
    ASSUME NEW n \in HalfWord
    PROVE  Operand(n) \in Slot /\ ~IsEntry(Operand(n))
BY DEF Operand, Slot, IsEntry

LEMMA OneSlot ==
    ASSUME NEW code \in Code, NEW info \in 0..15, data \in Seq(Slot),
           Operands(Entry(code, info)) = 0
    PROVE  IsCode(<<Entry(code, info)>>)
BY EntryType DEF IsCode

LEMMA TwoSlots ==
    ASSUME NEW code \in Code, NEW info \in 0..15, NEW n \in HalfWord, data \in Seq(Slot),
           Operands(Entry(code, info)) = 1
    PROVE  IsCode(<<Entry(code, info), Operand(n)>>)
<1>1. Entry(code, info) \in Slot /\ IsEntry(Entry(code, info))
  BY EntryType
<1>2. Operand(n) \in Slot /\ ~IsEntry(Operand(n))
  BY OperandType
<1> QED
  BY <1>1, <1>2 DEF IsCode

LEMMA ThreeSlots ==
    ASSUME NEW code \in Code, NEW info \in 0..15, NEW n \in Word, data \in Seq(Slot),
           Operands(Entry(code, info)) = 2
    PROVE  IsCode(<<Entry(code, info), Low(n), High(n)>>)
<1>1. n % 65536 \in HalfWord /\ n \div 65536 \in HalfWord
  BY DEF Word, HalfWord
<1>2. Entry(code, info) \in Slot /\ IsEntry(Entry(code, info))
  BY EntryType
<1>3. /\ Low(n) \in Slot /\ ~IsEntry(Low(n))
      /\ High(n) \in Slot /\ ~IsEntry(High(n))
  BY <1>1, OperandType DEF Low, High
<1> QED
  BY <1>2, <1>3 DEF IsCode

LEMMA OperandNumber ==
    /\ \A n : AsNumber(Operand(n)) = n
    /\ \A n \in Word : AsNumber(Low(n)) + 65536 * AsNumber(High(n)) = n
<1>1. \A n : AsNumber(Operand(n)) = n
  BY DEF AsNumber, Operand
<1>2. \A n \in Word : (n % 65536) + 65536 * (n \div 65536) = n
  BY DEF Word
<1> QED
  BY <1>1, <1>2 DEF Low, High

LEMMA SavedType ==
    ASSUME NEW s \in Saved
    PROVE  /\ s[1] \in NonVolatile /\ s[1] \in Register /\ Number[s[1]] \in 0..15
           /\ s[2] \in Word /\ s[2] \in Nat
           /\ IF s[1] \in Elements(XmmFields) THEN s[2] % 16 = 0 ELSE s[2] % 8 = 0
BY FunctionAssumption, SizesAssumption, RegisterFacts, NumberFacts DEF Word

\* Each instruction puts its code in front of the others, and an allocation's or
\* a save's tells how much or where.
LEMMA PushCode ==
    ASSUME data \in Seq(Slot), NEW r \in Pushed, Push(r)
    PROVE  \E c : /\ Instruction(c) /\ IsCode(c)
                  /\ c[1].code = "push_nonvolatile_reg" /\ c[1].info = Number[r]
<1>1. Number[r] \in 0..15
  BY FunctionAssumption, NumberFacts, RegisterFacts
<1>2. Operands(Entry("push_nonvolatile_reg", Number[r])) = 0
  BY DEF Operands, TakesOne, TakesTwo, Entry
<1> DEFINE c == <<Entry("push_nonvolatile_reg", Number[r])>>
<1>3. IsCode(c)
  BY <1>1, <1>2, OneSlot DEF Code
<1>4. c[1].code = "push_nonvolatile_reg" /\ c[1].info = Number[r]
  BY DEF Entry
<1>5. Instruction(c)
  BY DEF Push
<1> HIDE DEF c
<1> QED
  BY <1>3, <1>4, <1>5

LEMMA AllocCode ==
    ASSUME data \in Seq(Slot), NEW n \in Allocs, Alloc(n)
    PROVE  \E c : /\ Instruction(c) /\ IsCode(c)
                  /\ c[1].code \in Allocates /\ CodeSize(c) = n
<1>1. n \in Word /\ n \in Nat /\ n > 0 /\ n % 8 = 0
  BY SizesAssumption DEF Word
<1>2. CASE n <= 128 /\ Instruction(<<Entry("alloc_small", n \div 8 - 1)>>)
  <2> DEFINE c == <<Entry("alloc_small", n \div 8 - 1)>>
  <2>1. Operands(Entry("alloc_small", n \div 8 - 1)) = 0
    BY DEF Operands, TakesOne, TakesTwo, Entry
  <2>2. n \div 8 - 1 \in 0..15 /\ (n \div 8 - 1) * 8 + 8 = n
    BY <1>1, <1>2
  <2>3. IsCode(c)
    BY <2>1, <2>2, OneSlot DEF Code
  <2>4. c[1].code = "alloc_small" /\ c[1].info = n \div 8 - 1
    BY DEF Entry
  <2> HIDE DEF c
  <2>5. c[1].code \in Allocates /\ CodeSize(c) = n
    BY <2>2, <2>4 DEF CodeSize, Allocates
  <2> QED
    BY <1>2, <2>3, <2>5 DEF c
<1>3. CASE n \div 8 < 65536 /\ Instruction(<<Entry("alloc_large", 0), Operand(n \div 8)>>)
  <2> DEFINE c == <<Entry("alloc_large", 0), Operand(n \div 8)>>
  <2>1. Operands(Entry("alloc_large", 0)) = 1
    BY DEF Operands, TakesOne, TakesTwo, Entry
  <2>2. n \div 8 \in HalfWord /\ (n \div 8) * 8 = n
    BY <1>1, <1>3 DEF HalfWord
  <2>3. "alloc_large" \in Code /\ 0 \in 0..15
    BY DEF Code
  <2>4. IsCode(c)
    BY <2>1, <2>2, <2>3, TwoSlots
  <2>5. c[1].code = "alloc_large" /\ c[1].info = 0 /\ c[2] = Operand(n \div 8)
    BY DEF Entry
  <2> HIDE DEF c
  <2>6. c[1].code \in Allocates /\ CodeSize(c) = n
    BY <2>2, <2>5, OperandNumber DEF CodeSize, Allocates
  <2> QED
    BY <1>3, <2>4, <2>6 DEF c
<1>4. CASE Instruction(<<Entry("alloc_large", 1), Low(n), High(n)>>)
  <2> DEFINE c == <<Entry("alloc_large", 1), Low(n), High(n)>>
  <2>1. Operands(Entry("alloc_large", 1)) = 2
    BY DEF Operands, TakesOne, TakesTwo, Entry
  <2>2. "alloc_large" \in Code /\ 1 \in 0..15
    BY DEF Code
  <2>3. IsCode(c)
    BY <1>1, <2>1, <2>2, ThreeSlots
  <2>4. c[1].code = "alloc_large" /\ c[1].info = 1 /\ c[2] = Low(n) /\ c[3] = High(n)
    BY DEF Entry
  <2> HIDE DEF c
  <2>5. c[1].code \in Allocates /\ CodeSize(c) = n
    BY <1>1, <2>4, OperandNumber DEF CodeSize, Allocates
  <2> QED
    BY <1>4, <2>3, <2>5 DEF c
<1> QED
  BY <1>2, <1>3, <1>4 DEF Alloc

LEMMA SetFrameCode ==
    ASSUME data \in Seq(Slot), NEW d, SetFrame(d)
    PROVE  \E c : Instruction(c) /\ IsCode(c) /\ c[1].code = "set_frame_pointer"
<1> DEFINE c == <<Entry("set_frame_pointer", 0)>>
<1>1. Operands(Entry("set_frame_pointer", 0)) = 0
  BY DEF Operands, TakesOne, TakesTwo, Entry
<1>2. IsCode(c)
  BY <1>1, OneSlot DEF Code
<1>3. c[1].code = "set_frame_pointer"
  BY DEF Entry
<1>4. Instruction(c)
  BY DEF SetFrame
<1> HIDE DEF c
<1> QED
  BY <1>2, <1>3, <1>4

LEMMA SaveCode ==
    ASSUME data \in Seq(Slot), NEW s \in Saved, Save(s[1], s[2])
    PROVE  \E c : /\ Instruction(c) /\ IsCode(c)
                  /\ c[1].code \in Saves /\ c[1].info = Number[s[1]]
                  /\ c[1].code \in XmmSaves <=> s[1] \in Elements(XmmFields)
                  /\ c[1].code = "save_nonvolatile_reg_far" => ~(s[2] \div 8 < 65536)
                  /\ c[1].code # "save_nonvolatile_reg_far" => CodeOffset(c) = s[2]
<1> DEFINE r == s[1]
           off == s[2]
<1>1. Number[r] \in 0..15 /\ off \in Word /\ off \in Nat
  BY SavedType
<1>2. IF r \in Elements(XmmFields) THEN off % 16 = 0 ELSE off % 8 = 0
  BY SavedType
<1> HIDE DEF r, off
<1>3. CASE /\ r \in Elements(XmmFields) /\ off \div 16 < 65536
           /\ Instruction(<<Entry("save_xmm128", Number[r]), Operand(off \div 16)>>)
  <2> DEFINE c == <<Entry("save_xmm128", Number[r]), Operand(off \div 16)>>
  <2>1. Operands(Entry("save_xmm128", Number[r])) = 1
    BY DEF Operands, TakesOne, TakesTwo, Entry
  <2>2. off \div 16 \in HalfWord /\ (off \div 16) * 16 = off
    BY <1>1, <1>2, <1>3 DEF HalfWord
  <2>3. "save_xmm128" \in Code
    BY DEF Code
  <2>4. IsCode(c)
    BY <1>1, <2>1, <2>2, <2>3, TwoSlots
  <2>5. c[1].code = "save_xmm128" /\ c[1].info = Number[r] /\ c[2] = Operand(off \div 16)
    BY DEF Entry
  <2> HIDE DEF c
  <2>6. c[1].code \in Saves /\ c[1].code \in XmmSaves /\ CodeOffset(c) = off
    BY <2>2, <2>5, OperandNumber DEF CodeOffset, Saves, XmmSaves
  <2> QED
    BY <1>3, <2>4, <2>5, <2>6 DEF c, r, off
<1>4. CASE /\ r \in Elements(XmmFields)
           /\ Instruction(<<Entry("save_xmm128_far", Number[r]), Low(off), High(off)>>)
  <2> DEFINE c == <<Entry("save_xmm128_far", Number[r]), Low(off), High(off)>>
  <2>1. Operands(Entry("save_xmm128_far", Number[r])) = 2
    BY DEF Operands, TakesOne, TakesTwo, Entry
  <2>2. "save_xmm128_far" \in Code
    BY DEF Code
  <2>3. IsCode(c)
    BY <1>1, <2>1, <2>2, ThreeSlots
  <2>4. /\ c[1].code = "save_xmm128_far" /\ c[1].info = Number[r]
        /\ c[2] = Low(off) /\ c[3] = High(off)
    BY DEF Entry
  <2> HIDE DEF c
  <2>5. c[1].code \in Saves /\ c[1].code \in XmmSaves /\ CodeOffset(c) = off
    BY <1>1, <2>4, OperandNumber DEF CodeOffset, Saves, XmmSaves
  <2> QED
    BY <1>4, <2>3, <2>4, <2>5 DEF c, r, off
<1>5. CASE /\ r \notin Elements(XmmFields) /\ off \div 8 < 65536
           /\ Instruction(<<Entry("save_nonvolatile_reg", Number[r]), Operand(off \div 8)>>)
  <2> DEFINE c == <<Entry("save_nonvolatile_reg", Number[r]), Operand(off \div 8)>>
  <2>1. Operands(Entry("save_nonvolatile_reg", Number[r])) = 1
    BY DEF Operands, TakesOne, TakesTwo, Entry
  <2>2. off \div 8 \in HalfWord /\ (off \div 8) * 8 = off
    BY <1>1, <1>2, <1>5 DEF HalfWord
  <2>3. "save_nonvolatile_reg" \in Code
    BY DEF Code
  <2>4. IsCode(c)
    BY <1>1, <2>1, <2>2, <2>3, TwoSlots
  <2>5. c[1].code = "save_nonvolatile_reg" /\ c[1].info = Number[r] /\ c[2] = Operand(off \div 8)
    BY DEF Entry
  <2> HIDE DEF c
  <2>6. c[1].code \in Saves /\ c[1].code \notin XmmSaves /\ CodeOffset(c) = off
    BY <2>2, <2>5, OperandNumber DEF CodeOffset, Saves, XmmSaves
  <2> QED
    BY <1>5, <2>4, <2>5, <2>6 DEF c, r, off
<1>6. CASE /\ r \notin Elements(XmmFields) /\ ~(off \div 8 < 65536)
           /\ Instruction(<<Entry("save_nonvolatile_reg_far", Number[r]), Low(off), High(off)>>)
  <2> DEFINE c == <<Entry("save_nonvolatile_reg_far", Number[r]), Low(off), High(off)>>
  <2>1. Operands(Entry("save_nonvolatile_reg_far", Number[r])) = 2
    BY DEF Operands, TakesOne, TakesTwo, Entry
  <2>2. "save_nonvolatile_reg_far" \in Code
    BY DEF Code
  <2>3. IsCode(c)
    BY <1>1, <2>1, <2>2, ThreeSlots
  <2>4. c[1].code = "save_nonvolatile_reg_far" /\ c[1].info = Number[r]
    BY DEF Entry
  <2> HIDE DEF c
  <2>5. c[1].code \in Saves /\ c[1].code \notin XmmSaves
    BY <2>4 DEF Saves, XmmSaves
  <2> QED
    BY <1>6, <2>3, <2>4, <2>5 DEF c, r, off
<1> QED
  BY <1>3, <1>4, <1>5, <1>6 DEF Save, r, off

LEMMA EpilogCode ==
    ASSUME data \in Seq(Slot)
    PROVE  LET c == <<Entry("epilog", 0), Operand(0)>>
           IN  IsCode(c) /\ c[1].code = "epilog"
<1> DEFINE c == <<Entry("epilog", 0), Operand(0)>>
<1>1. Operands(Entry("epilog", 0)) = 1
  BY DEF Operands, TakesOne, TakesTwo, Entry
<1>2. "epilog" \in Code /\ 0 \in 0..15 /\ 0 \in HalfWord
  BY DEF Code, HalfWord
<1>3. IsCode(c)
  BY <1>1, <1>2, TwoSlots
<1>4. c[1].code = "epilog"
  BY DEF Entry
<1> QED
  BY <1>3, <1>4

\* The unwinder steps from an entry to the next one, or to the end.
LEMMA Skips ==
    ASSUME Inv, phase = "unwinding", i < Len(data), NextCode, UNCHANGED <<data, phase>>
    PROVE  Inv'
<1>1. i + 1 \in 1..Len(data) /\ IsEntry(data[i + 1])
  BY DEF Inv, ReadsEntries, Current, IsEntry
<1>2. Operands(data[i + 1]) \in {0, 1, 2}
  BY OperandsType
<1>3. LET next == i + 1 + 1 + Operands(data[i + 1])
      IN  next <= Len(data) + 1 /\ (next <= Len(data) => IsEntry(data[next]))
  BY <1>1 DEF Inv, WellFormed
<1>4. i' = i + 1 + Operands(data[i + 1])
  BY DEF NextCode, Current
<1>5. i' <= Len(data) /\ (i' < Len(data) => IsEntry(data[i' + 1])) /\ i' \in Nat
  BY <1>1, <1>2, <1>3, <1>4 DEF Inv
<1> QED
  BY <1>5 DEF Inv, ReadsEntries, Current, IsEntry

----------------------------------------------------------------------------
LEMMA InitInv == Init => Inv
<1> SUFFICES ASSUME Init PROVE Inv
  OBVIOUS
<1>1. data \in Seq(Slot) /\ WellFormed(data)
  <2>1. CASE data = <<>>
    BY <2>1 DEF WellFormed
  <2>2. CASE data # <<>>
    <3> DEFINE info == IF entered = "machine_frame" THEN 0 ELSE 1
    <3>1. data = <<[code |-> "push_machine_frame", info |-> info, at |-> 0]>>
      BY <2>2, Zenon DEF Init
    <3>2. info \in 0..15
      OBVIOUS
    <3> HIDE DEF info
    <3>3. data \in Seq(Slot) /\ Len(data) = 1
      <4>1. [code |-> "push_machine_frame", info |-> info, at |-> 0] \in Slot
        BY <3>2 DEF Code, Slot
      <4> QED
        BY <3>1, <4>1
    <3>4. IsEntry(data[1]) /\ Operands(data[1]) = 0
      BY <3>1 DEF IsEntry, Operands, TakesOne, TakesTwo
    <3> QED
      BY <3>3, <3>4 DEF WellFormed
  <2> QED
    BY <2>1, <2>2
<1> QED
  BY <1>1 DEF Init, Inv, ReadsEntries

LEMMA NextInv == Inv /\ [Next]_vars => Inv'
<1> SUFFICES ASSUME Inv, [Next]_vars PROVE Inv'
  OBVIOUS
<1> USE FunctionAssumption
<1>1. data \in Seq(Slot)
  BY DEF Inv
<1>2. ASSUME NEW c, Instruction(c), IsCode(c)
      PROVE  Inv'
  BY <1>2, PutInFront DEF Instruction
<1>3. ASSUME NEW r \in Pushed, Push(r) PROVE Inv'
  BY <1>1, <1>2, <1>3, PushCode
<1>4. ASSUME NEW n \in Allocs, Alloc(n) PROVE Inv'
  BY <1>1, <1>2, <1>4, AllocCode
<1>5. ASSUME NEW d \in Displacements, SetFrame(d) PROVE Inv'
  BY <1>1, <1>2, <1>5, SetFrameCode
<1>6. ASSUME NEW s \in Saved, Save(s[1], s[2]) PROVE Inv'
  BY <1>1, <1>2, <1>6, SaveCode
<1>7. ASSUME NEW b \in BOOLEAN, EnterBody(b) PROVE Inv'
  <2> DEFINE c == <<Entry("epilog", 0), Operand(0)>>
  <2>1. IsCode(c)
    BY <1>1, EpilogCode
  <2>2. /\ phase \in {"prologue", "body"} /\ phase' \in {"prologue", "body"} /\ i' = i
        /\ data' = c \o data \/ data' = data
    BY <1>7 DEF EnterBody
  <2> HIDE DEF c
  <2>3. CASE data' = c \o data
    BY <2>1, <2>2, <2>3, PutInFront
  <2>4. CASE data' = data
    BY <2>2, <2>4 DEF Inv, ReadsEntries
  <2> QED
    BY <2>2, <2>3, <2>4
<1>8. ASSUME NEW n \in DynamicAllocs, AllocDynamically(n) PROVE Inv'
  BY <1>8 DEF AllocDynamically, function, Inv, ReadsEntries, Current
<1>9. CASE StartUnwinding
  BY <1>9 DEF StartUnwinding, function, Inv, WellFormed, ReadsEntries, Current, IsEntry
<1>10. CASE UnwindPush
  BY <1>10, Skips DEF UnwindPush, AtCode, Restores, function
<1>11. CASE Corrupted
  BY <1>11 DEF Corrupted, function, Inv, ReadsEntries
<1>12. CASE UnwindAlloc \/ UnwindSetFrame \/ SkipEpilog
  BY <1>12, Skips DEF UnwindAlloc, UnwindSetFrame, SkipEpilog, AtCode, Moves, function
<1>13. CASE UnwindSave
  BY <1>13, Skips DEF UnwindSave, AtCode, Restores, function
<1>14. CASE UnwindMachineFrame
  BY <1>14, Skips DEF UnwindMachineFrame, AtCode, function
<1>15. CASE FinishUnwinding
  BY <1>15 DEF FinishUnwinding, function, Inv, ReadsEntries
<1>16. CASE UNCHANGED vars
  BY <1>16 DEF vars, Inv, ReadsEntries, Current
<1> QED
  BY <1>3, <1>4, <1>5, <1>6, <1>7, <1>8, <1>9, <1>10, <1>11, <1>12, <1>13, <1>14, <1>15,
     <1>16 DEF Next, Finished

\* For every prologue, of any length and with any sizes and offsets, the loop
\* of frame_walk_pdata_t::unwind takes no operand for a code.
THEOREM ReadsAsWritten == Spec => []ReadsEntries
<1>1. Inv => ReadsEntries
  BY DEF Inv
<1> QED
  BY <1>1, InitInv, NextInv, PTL DEF Spec

----------------------------------------------------------------------------
(* What the codes that are left say of the stack.                          *)

\* The slot from which on there are n.
Left(n) == data[Len(data) - n + 1]

\* How many are left after its code.
Rest(n) == n - 1 - Operands(Left(n))

\* The size or the offset that a code and its operands tell.
SizeAt(n) ==
    IF Left(n).code = "alloc_small" THEN Left(n).info * 8 + 8
    ELSE IF Left(n).info = 0 THEN AsNumber(Left(n - 1)) * 8
    ELSE AsNumber(Left(n - 1)) + 65536 * AsNumber(Left(n - 2))

OffsetAt(n) ==
    IF Left(n).code = "save_nonvolatile_reg" THEN AsNumber(Left(n - 1)) * 8
    ELSE IF Left(n).code = "save_xmm128" THEN AsNumber(Left(n - 1)) * 16
    ELSE AsNumber(Left(n - 1)) + 65536 * AsNumber(Left(n - 2))

\* A function that gives the stack pointer between the instructions, for each
\* number of slots there were then, agrees with a code and with the memory.
Explains(sp, n) ==
    LET s == Left(n)
    IN  /\ s.code = "push_nonvolatile_reg" =>
            /\ sp[Rest(n)] = sp[n] + 8
            /\ \E r \in Pushed : s.info = Number[r] /\ At(sp[n]) = InCaller(r)
        /\ s.code \in Allocates => sp[Rest(n)] = sp[n] + SizeAt(n)
        /\ s.code \in Saves =>
            /\ sp[Rest(n)] = sp[n]
            /\ s.code # "save_nonvolatile_reg_far"
            /\ \E r \in NonVolatile \ {FrameRegister} :
                /\ s.info = Number[r]
                /\ r \in Elements(XmmFields) <=> s.code \in XmmSaves
                /\ At(sp[n] + OffsetAt(n)) = InCaller(r)
        /\ s.code \in {"set_frame_pointer", "epilog"} => sp[Rest(n)] = sp[n]
        /\ s.code = "push_machine_frame" =>
            /\ n = 1 /\ entered # "call"
            /\ sp[1] + 8 * s.info = Bottom /\ At(Bottom + 24) = sp[0]

\* The code at n restores register r.
RestoresAt(n, r) ==
    /\ \/ Left(n).code \in {"push_nonvolatile_reg", "save_nonvolatile_reg"} /\ r \in Elements(GpFields)
       \/ Left(n).code \in XmmSaves /\ r \in Elements(XmmFields)
    /\ Left(n).info = Number[r]

SetsFrameAt(n) == Left(n).code = "set_frame_pointer"

\* The stack before the prologue, which the caller or the processor left.
EntryFrame(sp) ==
    /\ At(Bottom) = ReturnAddress
    /\ sp[0] = IF entered = "call" THEN Bottom ELSE Interrupted
    /\ entered # "call" => Len(data) > 0 /\ Left(1).code = "push_machine_frame"

\* Nothing is pushed or allocated once the frame pointer is set or a register
\* is saved.
InOrder ==
    \A n \in 1..Len(data), m \in 1..Len(data) :
        m < n /\ Left(n).code \in Allocates \cup {"push_nonvolatile_reg", "push_machine_frame"}
            => Left(m).code \notin Saves \cup {"set_frame_pointer"}

\* With the codes from n on still to be undone: where the stack pointer is,
\* unless the frame pointer will tell; the frame pointer; the registers.
StackAt(sp, n) ==
    \/ rsp = sp[n]
    \/ ~Has(Saves) /\ \E m \in 1..n : SetsFrameAt(m)

FrameAt(sp, n) ==
    \A m \in 1..n : SetsFrameAt(m) => disp # -1 /\ regs[FrameRegister] = sp[m] + 16 * disp

RegistersAt(n) ==
    \A r \in NonVolatile : regs[r] = InCaller(r) \/ \E m \in 1..n : RestoresAt(m, r)

Explained(sp) ==
    /\ EntryFrame(sp)
    /\ \A n \in 1..Len(data) : IsEntry(Left(n)) => Explains(sp, n)

Undoable(sp) ==
    /\ Explained(sp)
    /\ StackAt(sp, Len(data) - i)
    /\ FrameAt(sp, Len(data) - i)
    /\ phase = "prologue" => rsp = sp[Len(data)]

Unwindable ==
    phase \in {"prologue", "body", "unwinding"} =>
        /\ InOrder
        /\ RegistersAt(Len(data) - i)
        /\ \E sp \in [Nat -> Int] : Undoable(sp)
        /\ rip_updated <=> entered # "call" /\ i = Len(data)
        /\ rip_updated => rip = ReturnAddress

\* A prologue writes below the stack pointer or where nothing was, and until it saves
\* or sets the frame pointer, all registers are still the caller's.
Untouched ==
    phase = "prologue" =>
        /\ \A a \in DOMAIN mem : rsp <= a
        /\ ~Has(Saves \cup {"set_frame_pointer"}) => \A r \in Register : regs[r] = InCaller(r)

----------------------------------------------------------------------------
(* Slots and their numbers.                                                *)

LEMMA LeftType ==
    ASSUME Inv, NEW n \in 1..Len(data)
    PROVE  /\ Left(n) \in Slot
           /\ IsEntry(Left(n)) => Left(n).code \in Code /\ Left(n).info \in 0..15
           /\ ~IsEntry(Left(n)) => AsNumber(Left(n)) \in HalfWord
<1>1. data \in Seq(Slot) /\ Len(data) - n + 1 \in 1..Len(data)
  BY DEF Inv
<1>2. Left(n) \in Slot
  BY <1>1 DEF Left
<1>3. CASE Left(n) \in [code : Code, info : 0..15, at : Nat]
  <2>1. Left(n).code # "operand"
    BY <1>3 DEF Code
  <2> QED
    BY <1>2, <1>3, <2>1 DEF IsEntry
<1>4. CASE Left(n) \in [code : {"operand"}, value : HalfWord]
  BY <1>2, <1>4 DEF IsEntry, AsNumber
<1> QED
  BY <1>2, <1>3, <1>4 DEF Slot

\* The code at n ends where the next one, if any, begins.
LEMMA RestFacts ==
    ASSUME Inv, NEW n \in 1..Len(data), IsEntry(Left(n))
    PROVE  /\ Rest(n) \in 0..n - 1
           /\ Operands(Left(n)) \in {0, 1, 2} /\ Rest(n) = n - 1 - Operands(Left(n))
           /\ \A m \in Rest(n) + 1 .. n - 1 : m \in 1..Len(data) /\ ~IsEntry(Left(m))
           /\ Rest(n) # 0 => IsEntry(Left(Rest(n)))
<1> DEFINE k == Len(data) - n + 1
           o == Operands(Left(n))
<1>1. Len(data) \in Nat /\ k \in 1..Len(data) /\ Left(n) = data[k]
  BY DEF Left, Inv
<1>2. o \in {0, 1, 2}
  BY OperandsType
<1>3. /\ k + 1 + o <= Len(data) + 1
      /\ k + 1 + o <= Len(data) => IsEntry(data[k + 1 + o])
      /\ \A m \in 1..o : ~IsEntry(data[k + m])
  <2> HIDE DEF k
  <2> QED
    BY <1>1 DEF Inv, WellFormed
<1>4. Rest(n) = n - 1 - o
  BY DEF Rest
<1> HIDE DEF o
<1>5. Rest(n) \in 0..n - 1
  BY <1>1, <1>2, <1>3, <1>4
<1>6. ASSUME NEW m \in Rest(n) + 1 .. n - 1
      PROVE  m \in 1..Len(data) /\ ~IsEntry(Left(m))
  <2>1. n - m \in 1..o /\ k + (n - m) = Len(data) - m + 1 /\ m \in 1..Len(data)
    BY <1>1, <1>2, <1>4, <1>5
  <2>2. ~IsEntry(data[k + (n - m)])
    BY <1>3, <2>1
  <2> QED
    BY <2>1, <2>2 DEF Left
<1>7. Rest(n) # 0 => IsEntry(Left(Rest(n)))
  <2>1. Len(data) - Rest(n) + 1 = k + 1 + o
    BY <1>1, <1>2, <1>4
  <2>2. Left(Rest(n)) = data[k + 1 + o]
    BY <2>1 DEF Left
  <2> QED
    BY <1>1, <1>2, <1>3, <1>4, <1>5, <2>2
<1> QED
  BY <1>2, <1>4, <1>5, <1>6, <1>7 DEF o

\* Codes with operands are told from those without.
LEMMA OperandsOf ==
    ASSUME NEW n
    PROVE  LET s == Left(n)
           IN  /\ s.code = "alloc_large" /\ s.info = 0 => Operands(s) = 1
               /\ s.code = "alloc_large" /\ s.info # 0 => Operands(s) = 2
               /\ s.code \in {"save_nonvolatile_reg", "save_xmm128"} => Operands(s) = 1
               /\ s.code \in {"save_nonvolatile_reg_far", "save_xmm128_far"} => Operands(s) = 2
               /\ s.code = "epilog" => Operands(s) = 1
               /\ s.code \in {"push_nonvolatile_reg", "alloc_small", "set_frame_pointer",
                              "push_machine_frame"} => Operands(s) = 0
BY DEF Operands, TakesOne, TakesTwo

\* What an allocation or a save tells is a number.
LEMMA NumbersType ==
    ASSUME Inv, NEW n \in 1..Len(data), IsEntry(Left(n))
    PROVE  /\ Left(n).code \in Allocates => SizeAt(n) \in Nat
           /\ Left(n).code \in Saves => OffsetAt(n) \in Nat
<1>1. Left(n).info \in 0..15
  BY LeftType
<1>2. n \in Nat /\ Operands(Left(n)) \in {0, 1, 2} /\ Rest(n) = n - 1 - Operands(Left(n))
  BY RestFacts
<1>3. Operands(Left(n)) >= 1 => AsNumber(Left(n - 1)) \in Nat
  <2>1. Operands(Left(n)) >= 1 => n - 1 \in Rest(n) + 1 .. n - 1
    BY <1>2
  <2> QED
    BY <2>1, RestFacts, LeftType DEF HalfWord
<1>4. Operands(Left(n)) = 2 => AsNumber(Left(n - 2)) \in Nat
  <2>1. Operands(Left(n)) = 2 => n - 2 \in Rest(n) + 1 .. n - 1
    BY <1>2
  <2> QED
    BY <2>1, RestFacts, LeftType DEF HalfWord
<1>5. ASSUME Left(n).code \in Allocates PROVE SizeAt(n) \in Nat
  <2>1. CASE Left(n).code = "alloc_small"
    BY <1>1, <2>1 DEF SizeAt
  <2>2. CASE Left(n).code = "alloc_large" /\ Left(n).info = 0
    BY <1>3, <2>2, OperandsOf DEF SizeAt
  <2>3. CASE Left(n).code = "alloc_large" /\ Left(n).info # 0
    BY <1>3, <1>4, <2>3, OperandsOf DEF SizeAt
  <2> QED
    BY <1>5, <2>1, <2>2, <2>3 DEF Allocates
<1>6. ASSUME Left(n).code \in Saves PROVE OffsetAt(n) \in Nat
  <2>1. CASE Left(n).code \in {"save_nonvolatile_reg", "save_xmm128"}
    BY <1>3, <2>1, OperandsOf DEF OffsetAt
  <2>2. CASE Left(n).code \in {"save_nonvolatile_reg_far", "save_xmm128_far"}
    BY <1>3, <1>4, <2>2, OperandsOf DEF OffsetAt
  <2> QED
    BY <1>6, <2>1, <2>2 DEF Saves
<1> QED
  BY <1>5, <1>6

\* What the unwinder reads at i it reads of the code from which Len(data) - i
\* slots are left.
LEMMA ReadsCode ==
    ASSUME Inv, phase = "unwinding", i < Len(data)
    PROVE  LET n == Len(data) - i
           IN  /\ n \in 1..Len(data) /\ Current = Left(n) /\ IsEntry(Left(n))
               /\ Current.code \in Allocates => Allocated = SizeAt(n)
               /\ Current.code \in Saves \ {"save_nonvolatile_reg_far"} => SaveOffset = OffsetAt(n)
               /\ NextCode /\ data' = data => Len(data') - i' = Rest(n)
<1> DEFINE n == Len(data) - i
<1>1. i \in Nat /\ Len(data) \in Nat
  BY DEF Inv
<1>2. n \in 1..Len(data) /\ Current = Left(n)
  <2>1. Len(data) - n + 1 = i + 1
    BY <1>1
  <2> QED
    BY <1>1, <2>1 DEF Current, Left
<1>3. IsEntry(Left(n))
  BY <1>2 DEF Inv, ReadsEntries, IsEntry
<1>4. Short(i + 1) = AsNumber(Left(n - 1)) /\ Short(i + 2) = AsNumber(Left(n - 2))
  <2>1. Len(data) - (n - 1) + 1 = i + 1 + 1 /\ Len(data) - (n - 2) + 1 = i + 2 + 1
    BY <1>1
  <2> QED
    BY <2>1 DEF Short, Left
<1>5. Long(i + 1) = AsNumber(Left(n - 1)) + 65536 * AsNumber(Left(n - 2))
  <2>1. i + 1 + 1 = i + 2
    BY <1>1
  <2> QED
    BY <1>4, <2>1 DEF Long
<1>6. NextCode /\ data' = data => Len(data') - i' = Rest(n)
  BY <1>1, <1>2, OperandsType DEF NextCode, Rest
<1> HIDE DEF n
<1>7. Current.code \in Allocates => Allocated = SizeAt(n)
  <2>1. CASE Current.code = "alloc_small"
    BY <1>2, <2>1 DEF Allocated, SizeAt
  <2>2. CASE Current.code = "alloc_large" /\ Current.info = 0
    BY <1>2, <1>4, <2>2 DEF Allocated, SizeAt
  <2>3. CASE Current.code = "alloc_large" /\ Current.info # 0
    BY <1>2, <1>5, <2>3 DEF Allocated, SizeAt
  <2> QED
    BY <2>1, <2>2, <2>3 DEF Allocates
<1>8. Current.code \in Saves \ {"save_nonvolatile_reg_far"} => SaveOffset = OffsetAt(n)
  <2>1. CASE Current.code = "save_nonvolatile_reg"
    BY <1>2, <1>4, <2>1 DEF SaveOffset, OffsetAt
  <2>2. CASE Current.code = "save_xmm128"
    BY <1>2, <1>4, <2>2 DEF SaveOffset, OffsetAt
  <2>3. CASE Current.code = "save_xmm128_far"
    BY <1>2, <1>5, <2>3 DEF SaveOffset, OffsetAt
  <2> QED
    BY <2>1, <2>2, <2>3 DEF Saves
<1> QED
  BY <1>2, <1>3, <1>6, <1>7, <1>8 DEF n

----------------------------------------------------------------------------
(* Types.                                                                  *)

\* The types of all variables but the codes, whose type Inv knows.
Types ==
    /\ regs \in [Register -> Int] /\ rsp \in Int /\ rip \in Int
    /\ \A a \in DOMAIN mem : a \in Int /\ mem[a] \in Int
    /\ entered \in {"call", "machine_frame", "machine_frame_with_error_code"}
    /\ base \in Int /\ disp \in -1..15
    /\ phase \in {"prologue", "body", "unwinding", "unwound", "bug_check"}
    /\ rip_updated \in BOOLEAN
    /\ phase \in {"unwound", "bug_check"} => i <= Len(data)

LEMMA AtType == ASSUME Types, NEW a PROVE At(a) \in Int
BY DEF Types, At, Overwritten

LEMMA BottomType == Bottom \in Int /\ Interrupted \in Int /\ Interrupted # 0
BY DEF Bottom, Interrupted

LEMMA InitTypes == Init => Types
<1> SUFFICES ASSUME Init PROVE Types
  OBVIOUS
<1>1. regs \in [Register -> Int]
  BY CallerFacts DEF Init
<1>2. rip \in Int /\ base \in Int /\ disp \in -1..15 /\ phase = "prologue" /\ rip_updated = FALSE
      /\ entered \in {"call", "machine_frame", "machine_frame_with_error_code"}
  BY DEF Init, Body
<1>3. CASE entered = "call"
  <2>1. rsp = Bottom /\ mem = [a \in {Bottom} |-> ReturnAddress]
    BY <1>3 DEF Init
  <2>2. \A a \in DOMAIN mem : a \in Int /\ mem[a] \in Int
    BY <2>1, BottomType DEF ReturnAddress
  <2>3. rsp \in Int
    BY <2>1, BottomType
  <2> QED
    BY <1>1, <1>2, <2>2, <2>3 DEF Types
<1>4. CASE entered # "call"
  <2>1. /\ mem = [a \in {Bottom, Bottom + 24} |-> IF a = Bottom THEN ReturnAddress ELSE Interrupted]
        /\ rsp = Bottom - 8 * (IF entered = "machine_frame" THEN 0 ELSE 1)
    BY <1>4 DEF Init
  <2>2. \A a \in DOMAIN mem : a \in Int /\ mem[a] \in Int
    BY <2>1, BottomType DEF ReturnAddress
  <2>3. rsp \in Int
    BY <2>1, BottomType
  <2> QED
    BY <1>1, <1>2, <2>2, <2>3 DEF Types
<1> QED
  BY <1>3, <1>4

LEMMA WrittenType ==
    ASSUME Types, NEW A \in SUBSET Int, NEW v \in Int, mem' = Written(A, v)
    PROVE  \A a \in DOMAIN mem' : a \in Int /\ mem'[a] \in Int
<1>1. DOMAIN mem' = DOMAIN mem \cup A
  BY DEF Written
<1>2. \A a \in DOMAIN mem' : mem'[a] = IF a \in A THEN v ELSE mem[a]
  BY DEF Written
<1> QED
  BY <1>1, <1>2 DEF Types

LEMMA NextTypes == ASSUME Inv, Types, [Next]_vars PROVE Types'
<1> USE FunctionAssumption
<1>1. ASSUME NEW r \in Pushed, Push(r) PROVE Types'
  <2>1. r \in Register /\ regs[r] \in Int /\ rsp - 8 \in Int
    BY DEF Types
  <2>2. \A a \in DOMAIN mem' : a \in Int /\ mem'[a] \in Int
    BY <1>1, <2>1, WrittenType DEF Push
  <2> QED
    BY <1>1, <2>1, <2>2 DEF Push, Instruction, Types
<1>2. ASSUME NEW n \in Allocs, Alloc(n) PROVE Types'
  <2>1. rsp - n \in Int
    BY DEF Types
  <2> QED
    BY <1>2, <2>1 DEF Alloc, Instruction, Types
<1>3. ASSUME NEW d \in Displacements, SetFrame(d) PROVE Types'
  <2>1. d \in 0..15 /\ d \in -1..15 /\ rsp + 16 * d \in Int
    BY DEF Types
  <2> QED
    BY <1>3, <2>1 DEF SetFrame, Instruction, Types
<1>4. ASSUME NEW s \in Saved, Save(s[1], s[2]) PROVE Types'
  <2>1. s[1] \in Register /\ s[2] \in Nat
    BY SavedType
  <2>2. Words(s[1], rsp + s[2]) \in SUBSET Int /\ regs[s[1]] \in Int
    BY <2>1 DEF Words, Types
  <2>3. \A a \in DOMAIN mem' : a \in Int /\ mem'[a] \in Int
    BY <1>4, <2>2, WrittenType DEF Save
  <2>4. regs' \in [Register -> Int]
    <3>1. regs' = [regs EXCEPT ![s[1]] = 0]
      BY <1>4 DEF Save, Overwritten
    <3>2. regs \in [Register -> Int] /\ 0 \in Int
      BY DEF Types
    <3>3. \A r \in Register : [regs EXCEPT ![r] = 0] \in [Register -> Int]
      BY <3>2
    <3> QED
      BY <2>1, <3>1, <3>3
  <2> QED
    BY <1>4, <2>3, <2>4 DEF Save, Instruction, Types
<1>5. ASSUME NEW b \in BOOLEAN, EnterBody(b) PROVE Types'
  <2>1. regs' \in [Register -> Int]
    BY <1>5 DEF EnterBody, Types, Overwritten
  <2> QED
    BY <1>5, <2>1 DEF EnterBody, Types
<1>6. ASSUME NEW n \in DynamicAllocs, AllocDynamically(n) PROVE Types'
  <2>1. rsp - n \in Int
    BY DEF Types
  <2> QED
    BY <1>6, <2>1 DEF AllocDynamically, function, Types
<1>7. CASE StartUnwinding \/ Corrupted
  <2>1. UNCHANGED <<regs, rsp, rip, mem, entered, base, data, disp, i, rip_updated>>
    BY <1>7 DEF StartUnwinding, Corrupted, function
  <2>2. CASE StartUnwinding
    BY <2>1, <2>2 DEF StartUnwinding, Types
  <2>3. CASE Corrupted
    <3>1. i <= Len(data) /\ phase' = "bug_check"
      BY <2>3 DEF Corrupted, AtCode, Inv, ReadsEntries
    <3> QED
      BY <2>1, <3>1 DEF Types
  <2> QED
    BY <1>7, <2>2, <2>3
<1>8. ASSUME NEW r, NEW a, phase = "unwinding", Restores(r, a), rsp' \in Int PROVE Types'
  <2>1. regs' \in [Register -> Int]
    BY <1>8, AtType DEF Restores, Types
  <2> QED
    BY <1>8, <2>1 DEF Restores, function, Types
<1>9. ASSUME NEW to \in Int, phase = "unwinding", Moves(to) PROVE Types'
  BY <1>9 DEF Moves, function, Types
<1>10. CASE UnwindPush
  <2>1. rsp' \in Int
    BY <1>10 DEF UnwindPush, Types
  <2> QED
    BY <1>8, <1>10, <2>1 DEF UnwindPush, AtCode
<1>11. CASE UnwindAlloc
  <2>1. /\ Allocated = SizeAt(Len(data) - i) /\ Len(data) - i \in 1..Len(data)
        /\ IsEntry(Left(Len(data) - i)) /\ Left(Len(data) - i).code \in Allocates
    BY <1>11, ReadsCode DEF UnwindAlloc, AtCode
  <2>2. rsp + Allocated \in Int
    BY <2>1, NumbersType DEF Types
  <2> QED
    BY <1>9, <1>11, <2>2 DEF UnwindAlloc, AtCode
<1>12. CASE UnwindSetFrame
  <2>1. Gp(Number[FrameRegister]) \in Register
    BY NumberFacts, RegisterFacts
  <2>2. regs[Gp(Number[FrameRegister])] - disp * 16 \in Int
    BY <2>1 DEF Types
  <2> QED
    BY <1>9, <1>12, <2>2 DEF UnwindSetFrame, AtCode
<1>13. CASE UnwindSave
  <2>1. rsp' \in Int
    BY <1>13 DEF UnwindSave, Types
  <2> QED
    BY <1>8, <1>13, <2>1 DEF UnwindSave, AtCode
<1>14. CASE SkipEpilog
  BY <1>9, <1>14 DEF SkipEpilog, AtCode, Types
<1>15. CASE UnwindMachineFrame
  <2>1. rip' \in Int /\ rsp' \in Int
    BY <1>15, AtType DEF UnwindMachineFrame
  <2> QED
    BY <1>15, <2>1 DEF UnwindMachineFrame, AtCode, function, Types
<1>16. CASE FinishUnwinding
  <2>1. rip' \in Int /\ rsp' \in Int
    BY <1>16, AtType DEF FinishUnwinding, Types
  <2> QED
    BY <1>16, <2>1 DEF FinishUnwinding, function, Types
<1>17. CASE UNCHANGED vars
  BY <1>17 DEF vars, Types
<1> QED
  BY <1>1, <1>2, <1>3, <1>4, <1>5, <1>6, <1>7, <1>10, <1>11, <1>12, <1>13, <1>14, <1>15,
     <1>16, <1>17 DEF Next, Finished

\* Registers, stack and codes keep their types, every info and operand fits its
\* bits, and the index of the unwinder never passes the codes.
THEOREM TypeCorrect == Spec => []TypeOK
<1>1. Inv /\ Types => TypeOK
  <2> SUFFICES ASSUME Inv, Types PROVE TypeOK
    OBVIOUS
  <2>1. i \in 0..Len(data)
    BY DEF Types, Inv, ReadsEntries
  <2>2. ASSUME NEW k \in DOMAIN data
        PROVE  \/ data[k].code \in DOMAIN CodeNumber /\ data[k].info \in 0..15 /\ data[k].at \in Nat
               \/ data[k].code = "operand" /\ data[k].value \in HalfWord
    <3>1. data[k] \in Slot
      BY <2>2 DEF Inv
    <3>2. DOMAIN CodeNumber = Code
      BY DEF CodeNumber, Code
    <3> QED
      BY <3>1, <3>2 DEF Slot
  <2> QED
    BY <2>1, <2>2 DEF Types, TypeOK
<1>2. Init => Inv /\ Types
  BY InitInv, InitTypes
<1>3. Inv /\ Types /\ [Next]_vars => (Inv /\ Types)'
  BY NextInv, NextTypes
<1> QED
  BY <1>1, <1>2, <1>3, PTL DEF Spec

----------------------------------------------------------------------------
(* The frame pointer, and the registers that are pushed.                   *)

\* The frame pointer is where disp says, once it is set.
Framed ==
    /\ phase = "prologue" =>
        /\ Has({"set_frame_pointer"}) <=> disp # -1
        /\ disp # -1 => regs[FrameRegister] = rsp + 16 * disp
    /\ phase = "body" =>
        /\ disp # -1 => Has({"set_frame_pointer"}) /\ regs[FrameRegister] = base + 16 * disp
        /\ disp = -1 => rsp = base

PushesPushed ==
    \A k \in DOMAIN data : data[k].code = "push_nonvolatile_reg" =>
        \E r \in Pushed : data[k].info = Number[r]

Justified == PushesPushed /\ Framed /\ StopIsJustified

\* The entries are those there were and that of the new code.
LEMMA EntriesPrepended ==
    ASSUME Inv, NEW c, IsCode(c), data' = c \o data
    PROVE  /\ \A s : IsEntry(s) =>
                ((\E k \in DOMAIN data' : data'[k] = s) <=> s = c[1] \/ \E k \in DOMAIN data : data[k] = s)
           /\ \A codes \in SUBSET Code : Has(codes)' <=> Has(codes) \/ c[1].code \in codes
<1>1. data \in Seq(Slot) /\ c \in Seq(Slot) /\ Len(c) \in Nat /\ Len(c) >= 1
  BY OperandsType DEF Inv, IsCode
<1>2. Len(data') = Len(c) + Len(data) /\ data' \in Seq(Slot)
  BY <1>1
<1>3. \A k \in 1..Len(c) : data'[k] = c[k]
  BY <1>1
<1>4. \A k \in 1..Len(data) : data'[Len(c) + k] = data[k]
  BY <1>1
<1>5. \A k \in 2..Len(c) : ~IsEntry(c[k])
  BY DEF IsCode
<1>6. DOMAIN data' = 1..Len(data') /\ DOMAIN data = 1..Len(data) /\ Len(data) \in Nat
  BY <1>1, <1>2
<1>7. ASSUME NEW s, IsEntry(s)
      PROVE  (\E k \in DOMAIN data' : data'[k] = s) <=> s = c[1] \/ \E k \in DOMAIN data : data[k] = s
  <2>1. ASSUME NEW k \in DOMAIN data', data'[k] = s
        PROVE  s = c[1] \/ \E m \in DOMAIN data : data[m] = s
    <3>1. CASE k \in 1..Len(c)
      <4>1. k = 1
        BY <1>1, <1>3, <1>5, <1>7, <2>1, <3>1
      <4> QED
        BY <1>3, <2>1, <3>1, <4>1
    <3>2. CASE k \notin 1..Len(c)
      <4>1. k - Len(c) \in 1..Len(data) /\ Len(c) + (k - Len(c)) = k
        BY <1>1, <1>2, <1>6, <3>2
      <4> QED
        BY <1>4, <1>6, <2>1, <4>1
    <3> QED
      BY <3>1, <3>2
  <2>2. ASSUME s = c[1] PROVE \E k \in DOMAIN data' : data'[k] = s
    <3>1. 1 \in 1..Len(c) /\ 1 \in DOMAIN data'
      BY <1>1, <1>2, <1>6
    <3> QED
      BY <1>3, <2>2, <3>1
  <2>3. ASSUME NEW m \in DOMAIN data, data[m] = s PROVE \E k \in DOMAIN data' : data'[k] = s
    <3>1. Len(c) + m \in DOMAIN data'
      BY <1>1, <1>2, <1>6
    <3> QED
      BY <1>4, <1>6, <2>3, <3>1
  <2> QED
    BY <2>1, <2>2, <2>3
<1>8. ASSUME NEW codes \in SUBSET Code
      PROVE  Has(codes)' <=> Has(codes) \/ c[1].code \in codes
  <2>1. \A s : s.code \in codes => IsEntry(s)
    BY DEF Code, IsEntry
  <2>2. Has(codes) <=> \E s : s.code \in codes /\ \E k \in DOMAIN data : data[k] = s
    BY DEF Has
  <2>3. Has(codes)' <=> \E s : s.code \in codes /\ \E k \in DOMAIN data' : data'[k] = s
    BY DEF Has
  <2> QED
    BY <1>7, <2>1, <2>2, <2>3
<1> QED
  BY <1>7, <1>8

\* A code that is not a push, or one of a register in Pushed, in front of others.
LEMMA PushesPrepended ==
    ASSUME Inv, PushesPushed, NEW c, IsCode(c), data' = c \o data,
           c[1].code = "push_nonvolatile_reg" => \E r \in Pushed : c[1].info = Number[r]
    PROVE  PushesPushed'
<1> SUFFICES ASSUME NEW k \in DOMAIN data', data'[k].code = "push_nonvolatile_reg"
             PROVE  \E r \in Pushed : data'[k].info = Number[r]
  BY DEF PushesPushed
<1>1. IsEntry(data'[k])
  BY DEF IsEntry
<1>2. \A s : IsEntry(s) =>
        ((\E m \in DOMAIN data' : data'[m] = s) <=> s = c[1] \/ \E m \in DOMAIN data : data[m] = s)
  BY EntriesPrepended
<1>3. data'[k] = c[1] \/ \E m \in DOMAIN data : data[m] = data'[k]
  BY <1>1, <1>2
<1> QED
  BY <1>3 DEF PushesPushed

LEMMA InitJustified == Init => Justified
<1> SUFFICES ASSUME Init PROVE Justified
  OBVIOUS
<1>1. phase = "prologue" /\ disp = -1
  BY DEF Init
<1>2. \A k \in DOMAIN data : data[k].code = "push_machine_frame"
  <2>1. CASE data = <<>>
    BY <2>1
  <2>2. CASE data # <<>>
    <3> DEFINE info == IF entered = "machine_frame" THEN 0 ELSE 1
    <3>1. data = <<[code |-> "push_machine_frame", info |-> info, at |-> 0]>>
      BY <2>2, Zenon DEF Init
    <3> HIDE DEF info
    <3> QED
      BY <3>1
  <2> QED
    BY <2>1, <2>2
<1> QED
  BY <1>1, <1>2 DEF Justified, PushesPushed, Framed, StopIsJustified, Has

LEMMA NextJustified == ASSUME Inv, Types, Justified, [Next]_vars PROVE Justified'
<1> USE FunctionAssumption
<1>1. /\ data \in Seq(Slot) /\ PushesPushed /\ Framed /\ StopIsJustified
      /\ regs \in [Register -> Int] /\ rsp \in Int /\ disp \in -1..15
  BY DEF Inv, Types, Justified
<1>2. FrameRegister \in NonVolatile /\ FrameRegister \in Register
  BY RegisterFacts
<1>3. {"set_frame_pointer"} \in SUBSET Code
  BY DEF Code
<1>4. ASSUME NEW c, Instruction(c), IsCode(c),
             c[1].code = "push_nonvolatile_reg" => \E r \in Pushed : c[1].info = Number[r]
      PROVE  /\ PushesPushed' /\ StopIsJustified'
             /\ phase = "prologue" /\ phase' = "prologue"
             /\ Has({"set_frame_pointer"})' <=> Has({"set_frame_pointer"}) \/ c[1].code = "set_frame_pointer"
  <2>1. phase = "prologue" /\ phase' = "prologue" /\ data' = c \o data
    BY <1>4 DEF Instruction
  <2>2. PushesPushed'
    BY <1>1, <1>4, <2>1, PushesPrepended
  <2>3. Has({"set_frame_pointer"})' <=> Has({"set_frame_pointer"}) \/ c[1].code \in {"set_frame_pointer"}
    BY <1>3, <1>4, <2>1, EntriesPrepended
  <2> QED
    BY <2>1, <2>2, <2>3 DEF StopIsJustified
<1>5. ASSUME NEW r \in Pushed, Push(r) PROVE Justified'
  <2>1. PICK c : /\ Instruction(c) /\ IsCode(c)
                 /\ c[1].code = "push_nonvolatile_reg" /\ c[1].info = Number[r]
    BY <1>1, <1>5, PushCode
  <2>2. ~Has({"set_frame_pointer"}) /\ UNCHANGED disp
    BY <1>5 DEF Push, Has
  <2>3. Framed'
    BY <1>1, <1>4, <2>1, <2>2 DEF Framed
  <2> QED
    BY <1>4, <2>1, <2>3 DEF Justified
<1>6. ASSUME NEW n \in Allocs, Alloc(n) PROVE Justified'
  <2>1. PICK c : /\ Instruction(c) /\ IsCode(c)
                 /\ c[1].code \in Allocates /\ CodeSize(c) = n
    BY <1>1, <1>6, AllocCode
  <2>2. c[1].code # "push_nonvolatile_reg" /\ c[1].code # "set_frame_pointer"
    BY <2>1 DEF Allocates
  <2>3. ~Has({"set_frame_pointer"}) /\ UNCHANGED disp
    BY <1>6 DEF Alloc, Has
  <2>4. Framed'
    BY <1>1, <1>4, <2>1, <2>2, <2>3 DEF Framed
  <2> QED
    BY <1>4, <2>1, <2>2, <2>4 DEF Justified
<1>7. ASSUME NEW d \in Displacements, SetFrame(d) PROVE Justified'
  <2>1. PICK c : Instruction(c) /\ IsCode(c) /\ c[1].code = "set_frame_pointer"
    BY <1>1, <1>7, SetFrameCode
  <2>2. disp' = d /\ d \in 0..15 /\ UNCHANGED rsp /\ regs'[FrameRegister] = rsp + 16 * d
    BY <1>1, <1>2, <1>7 DEF SetFrame
  <2>3. Framed'
    BY <1>4, <2>1, <2>2 DEF Framed
  <2> QED
    BY <1>4, <2>1, <2>3 DEF Justified
<1>8. ASSUME NEW s \in Saved, Save(s[1], s[2]) PROVE Justified'
  <2>1. PICK c : Instruction(c) /\ IsCode(c) /\ c[1].code \in Saves
    BY <1>1, <1>8, SaveCode
  <2>2. c[1].code # "push_nonvolatile_reg" /\ c[1].code # "set_frame_pointer"
    BY <2>1 DEF Saves
  <2>3. UNCHANGED <<rsp, disp>> /\ regs'[FrameRegister] = regs[FrameRegister]
    <3>1. s[1] # FrameRegister /\ regs' = [regs EXCEPT ![s[1]] = Overwritten] /\ UNCHANGED <<rsp, disp>>
      BY <1>8 DEF Save
    <3> QED
      BY <1>1, <1>2, <3>1
  <2>4. Framed'
    BY <1>1, <1>4, <2>1, <2>2, <2>3 DEF Framed
  <2> QED
    BY <1>4, <2>1, <2>2, <2>4 DEF Justified
<1>9. ASSUME NEW b \in BOOLEAN, EnterBody(b) PROVE Justified'
  <2> DEFINE c == <<Entry("epilog", 0), Operand(0)>>
  <2>1. /\ phase = "prologue" /\ phase' = "body" /\ base' = rsp /\ UNCHANGED <<rsp, disp>>
        /\ disp # -1 => regs'[FrameRegister] = regs[FrameRegister]
        /\ data' = c \o data \/ data' = data
    BY <1>2, <1>9 DEF EnterBody
  <2>2. IsCode(c) /\ c[1].code = "epilog"
    BY <1>1, EpilogCode
  <2> HIDE DEF c
  <2>3. PushesPushed' /\ (Has({"set_frame_pointer"})' <=> Has({"set_frame_pointer"}))
    <3>1. CASE data' = c \o data
      <4>1. PushesPushed'
        BY <1>1, <2>2, <3>1, PushesPrepended
      <4>2. Has({"set_frame_pointer"})' <=> Has({"set_frame_pointer"}) \/ c[1].code \in {"set_frame_pointer"}
        BY <1>3, <2>2, <3>1, EntriesPrepended
      <4> QED
        BY <2>2, <4>1, <4>2
    <3>2. CASE data' = data
      BY <1>1, <3>2 DEF PushesPushed, Has
    <3> QED
      BY <2>1, <3>1, <3>2
  <2>4. Framed' /\ StopIsJustified'
    BY <1>1, <2>1, <2>3 DEF Framed, StopIsJustified
  <2> QED
    BY <2>3, <2>4 DEF Justified
<1>10. ASSUME NEW n \in DynamicAllocs, AllocDynamically(n) PROVE Justified'
  <2>1. /\ phase = "body" /\ phase' = "body" /\ disp # -1
        /\ UNCHANGED <<regs, base, data, disp>>
    BY <1>10 DEF AllocDynamically, function
  <2> QED
    BY <1>1, <2>1 DEF Justified, PushesPushed, Framed, StopIsJustified, Has
<1>11. CASE Corrupted
  <2>1. /\ i + 1 \in DOMAIN data /\ data[i + 1].code = "push_nonvolatile_reg"
        /\ GpIndex(data[i + 1].info) < 0
    BY <1>11 DEF Corrupted, AtCode, Current, Inv
  <2>2. PICK r \in Pushed : data[i + 1].info = Number[r]
    BY <1>1, <2>1 DEF PushesPushed
  <2>3. r \notin Elements(GpFields) /\ r \notin Elements(XmmFields)
    <3>1. ASSUME r \in Elements(GpFields) PROVE FALSE
      <4>1. GpIndex(Number[r]) >= 0 /\ GpIndex(Number[r]) < 0 /\ GpIndex(Number[r]) \in Int
        BY <2>1, <2>2, <3>1, FieldFacts, NumberFacts DEF GpIndex, Number
      <4> QED
        BY <4>1
    <3> QED
      BY <3>1
  <2>4. r \in Pushed \ NonVolatile /\ IsPushed(r)
    BY <2>1, <2>2, <2>3, RegisterFacts DEF IsPushed
  <2>5. phase' = "bug_check" /\ UNCHANGED data
    BY <1>11 DEF Corrupted, function
  <2> QED
    BY <1>1, <2>4, <2>5 DEF Justified, PushesPushed, Framed, StopIsJustified, IsPushed
<1>12. ASSUME phase' \in {"unwinding", "unwound"}, UNCHANGED data PROVE Justified'
  BY <1>1, <1>12 DEF Justified, PushesPushed, Framed, StopIsJustified
<1>13. CASE \/ StartUnwinding \/ UnwindPush \/ UnwindAlloc \/ UnwindSetFrame \/ UnwindSave
            \/ SkipEpilog \/ UnwindMachineFrame \/ FinishUnwinding
  BY <1>12, <1>13 DEF StartUnwinding, UnwindPush, UnwindAlloc, UnwindSetFrame, UnwindSave,
     SkipEpilog, UnwindMachineFrame, FinishUnwinding, AtCode, Moves, Restores, function
<1>14. CASE UNCHANGED vars
  BY <1>1, <1>14 DEF vars, Justified, PushesPushed, Framed, StopIsJustified, Has, IsPushed
<1> QED
  BY <1>5, <1>6, <1>7, <1>8, <1>9, <1>10, <1>11, <1>13, <1>14 DEF Next, Finished

LEMMA AlwaysJustified == Spec => [](Inv /\ Types /\ Justified)
<1>1. Init => Inv /\ Types /\ Justified
  BY InitInv, InitTypes, InitJustified
<1>2. Inv /\ Types /\ Justified /\ [Next]_vars => (Inv /\ Types /\ Justified)'
  BY NextInv, NextTypes, NextJustified
<1> QED
  BY <1>1, <1>2, PTL DEF Spec

\* A frame handler is called with the frame pointer that its function has set up,
\* at the recorded distance from the fixed part of the frame, however much the
\* function allocated dynamically.
THEOREM FrameHandedOver == Spec => []HandlerGetsFrame
<1>1. Types /\ Justified => HandlerGetsFrame
  BY DEF Types, Justified, Framed, HandlerGetsFrame, FramePointer
<1> QED
  BY <1>1, AlwaysJustified, PTL

\* unwind refuses an unwind information only for a pushed register that functions
\* need not preserve.
THEOREM StopsAreJustified == Spec => []StopIsJustified
<1>1. Justified => StopIsJustified
  BY DEF Justified
<1> QED
  BY <1>1, AlwaysJustified, PTL

----------------------------------------------------------------------------
(* What a new code tells, and what the others go on telling.               *)

LEMMA LeftGrows ==
    ASSUME Inv, NEW c, IsCode(c), data' = c \o data,
           NEW top, top = Len(c) + Len(data)
    PROVE  /\ Len(data') = top /\ Len(c) \in 1..3 /\ Len(data) \in Nat
           /\ \A n \in 1..Len(data) : Left(n)' = Left(n) /\ Rest(n)' = Rest(n)
           /\ Left(top)' = c[1] /\ Rest(top)' = Len(data)
           /\ \A n \in Len(data) + 1 .. top - 1 : ~IsEntry(Left(n)')
           /\ Len(c) >= 2 => Left(top - 1)' = c[2]
           /\ Len(c) >= 3 => Left(top - 2)' = c[3]
<1>1. /\ data \in Seq(Slot) /\ c \in Seq(Slot) /\ Len(c) = 1 + Operands(c[1])
      /\ Len(c) \in 1..3 /\ Len(data) \in Nat
  BY OperandsType DEF Inv, IsCode
<1>2. Len(data') = Len(c) + Len(data)
  BY <1>1
<1>3. \A k \in 1..Len(c) : data'[k] = c[k]
  BY <1>1
<1>4. \A k \in 1..Len(data) : data'[Len(c) + k] = data[k]
  BY <1>1
<1>5. ASSUME NEW n \in 1..Len(data)
      PROVE  Left(n)' = Left(n) /\ Rest(n)' = Rest(n)
  <2>1. /\ Len(data') - n + 1 = Len(c) + (Len(data) - n + 1)
        /\ Len(data) - n + 1 \in 1..Len(data)
    BY <1>1, <1>2, <1>5
  <2>2. data'[Len(c) + (Len(data) - n + 1)] = data[Len(data) - n + 1]
    BY <1>4, <2>1
  <2>3. Left(n)' = Left(n)
    BY <2>1, <2>2 DEF Left
  <2> QED
    BY <2>3 DEF Rest, Operands, TakesOne, TakesTwo
<1>6. \A n \in 0..Len(c) - 1 : Left(top - n)' = c[n + 1]
  <2> SUFFICES ASSUME NEW n \in 0..Len(c) - 1 PROVE Left(top - n)' = c[n + 1]
    OBVIOUS
  <2>1. Len(data') - (top - n) + 1 = n + 1 /\ n + 1 \in 1..Len(c)
    BY <1>1, <1>2
  <2> QED
    BY <1>3, <2>1 DEF Left
<1>7. Left(top)' = c[1] /\ Rest(top)' = Len(data)
  <2>1. top - 0 = top /\ 0 + 1 = 1 /\ 0 \in 0..Len(c) - 1
    BY <1>1
  <2>2. Left(top)' = c[1]
    BY <1>6, <2>1
  <2>3. Rest(top)' = top - 1 - Operands(Left(top)')
    BY DEF Rest, Operands, TakesOne, TakesTwo
  <2> QED
    BY <1>1, <2>2, <2>3, OperandsType
<1>8. ASSUME NEW n \in Len(data) + 1 .. top - 1
      PROVE  ~IsEntry(Left(n)')
  <2>1. top - n \in 1..Len(c) - 1 /\ top - n \in 0..Len(c) - 1 /\ top - (top - n) = n /\ top - n + 1 \in 2..Len(c)
    BY <1>1
  <2>2. Left(n)' = c[top - n + 1]
    BY <1>6, <2>1
  <2> QED
    BY <2>1, <2>2 DEF IsCode
<1>9. /\ Len(c) >= 2 => Left(top - 1)' = c[2]
      /\ Len(c) >= 3 => Left(top - 2)' = c[3]
  BY <1>1, <1>6
<1> QED
  BY <1>1, <1>2, <1>5, <1>7, <1>8, <1>9

\* Of the slots there are with a new code, the entries are those there were, and the first.
LEMMA EntriesGrow ==
    ASSUME Inv, NEW c, IsCode(c), data' = c \o data,
           NEW top, top = Len(c) + Len(data), NEW n \in 1..top, IsEntry(Left(n)')
    PROVE  n \in 1..Len(data) \/ n = top
<1>1. /\ Len(c) \in 1..3 /\ Len(data) \in Nat
      /\ \A m \in Len(data) + 1 .. top - 1 : ~IsEntry(Left(m)')
  BY LeftGrows
<1> QED
  BY <1>1

\* The new code tells the size or offset it was made with; the others what they told.
LEMMA NumbersGrow ==
    ASSUME Inv, NEW c, IsCode(c), data' = c \o data,
           NEW top, top = Len(c) + Len(data)
    PROVE  /\ c[1].code \in Allocates => SizeAt(top)' = CodeSize(c)
           /\ c[1].code \in Saves => OffsetAt(top)' = CodeOffset(c)
           /\ \A n \in 1..Len(data) : IsEntry(Left(n)) =>
                /\ Left(n).code \in Allocates => SizeAt(n)' = SizeAt(n)
                /\ Left(n).code \in Saves => OffsetAt(n)' = OffsetAt(n)
<1>1. /\ Len(c) \in 1..3 /\ Len(data) \in Nat /\ Left(top)' = c[1]
      /\ Len(c) >= 2 => Left(top - 1)' = c[2]
      /\ Len(c) >= 3 => Left(top - 2)' = c[3]
      /\ \A n \in 1..Len(data) : Left(n)' = Left(n)
  BY LeftGrows
<1>2. Len(c) = 1 + Operands(c[1])
  BY DEF IsCode
<1>3. c[1].code \in Allocates => SizeAt(top)' = CodeSize(c)
  <2>1. CASE c[1].code = "alloc_small"
    BY <1>1, <2>1 DEF SizeAt, CodeSize
  <2>2. CASE c[1].code = "alloc_large" /\ c[1].info = 0
    <3>1. Len(c) = 2
      BY <1>2, <2>2 DEF Operands, TakesOne, TakesTwo
    <3> QED
      BY <1>1, <2>2, <3>1 DEF SizeAt, CodeSize, AsNumber
  <2>3. CASE c[1].code = "alloc_large" /\ c[1].info # 0
    <3>1. Len(c) = 3
      BY <1>2, <2>3 DEF Operands, TakesOne, TakesTwo
    <3> QED
      BY <1>1, <2>3, <3>1 DEF SizeAt, CodeSize, AsNumber
  <2> QED
    BY <2>1, <2>2, <2>3 DEF Allocates
<1>4. c[1].code \in Saves => OffsetAt(top)' = CodeOffset(c)
  <2>1. CASE c[1].code \in {"save_nonvolatile_reg", "save_xmm128"}
    <3>1. Len(c) = 2
      BY <1>2, <2>1 DEF Operands, TakesOne, TakesTwo
    <3> QED
      BY <1>1, <2>1, <3>1 DEF OffsetAt, CodeOffset, AsNumber
  <2>2. CASE c[1].code \in {"save_nonvolatile_reg_far", "save_xmm128_far"}
    <3>1. Len(c) = 3
      BY <1>2, <2>2 DEF Operands, TakesOne, TakesTwo
    <3> QED
      BY <1>1, <2>2, <3>1 DEF OffsetAt, CodeOffset, AsNumber
  <2> QED
    BY <2>1, <2>2 DEF Saves
<1>5. ASSUME NEW n \in 1..Len(data), IsEntry(Left(n))
      PROVE  /\ Left(n).code \in Allocates => SizeAt(n)' = SizeAt(n)
             /\ Left(n).code \in Saves => OffsetAt(n)' = OffsetAt(n)
  <2>1. /\ Operands(Left(n)) >= 1 => Left(n - 1)' = Left(n - 1)
        /\ Operands(Left(n)) = 2 => Left(n - 2)' = Left(n - 2)
    <3>1. Rest(n) \in 0..n - 1 /\ Operands(Left(n)) \in {0, 1, 2} /\ Rest(n) = n - 1 - Operands(Left(n))
      BY <1>5, RestFacts
    <3> QED
      BY <1>1, <1>5, <3>1
  <2>2. Left(n)' = Left(n)
    BY <1>1, <1>5
  <2>3. ASSUME Left(n).code \in Allocates PROVE SizeAt(n)' = SizeAt(n)
    <3>1. CASE Left(n).code = "alloc_small"
      BY <2>2, <3>1 DEF SizeAt
    <3>2. CASE Left(n).code = "alloc_large" /\ Left(n).info = 0
      BY <2>1, <2>2, <3>2, OperandsOf DEF SizeAt, AsNumber
    <3>3. CASE Left(n).code = "alloc_large" /\ Left(n).info # 0
      BY <2>1, <2>2, <3>3, OperandsOf DEF SizeAt, AsNumber
    <3> QED
      BY <2>3, <3>1, <3>2, <3>3 DEF Allocates
  <2>4. ASSUME Left(n).code \in Saves PROVE OffsetAt(n)' = OffsetAt(n)
    <3>1. CASE Left(n).code \in {"save_nonvolatile_reg", "save_xmm128"}
      BY <2>1, <2>2, <3>1, OperandsOf DEF OffsetAt, AsNumber
    <3>2. CASE Left(n).code \in {"save_nonvolatile_reg_far", "save_xmm128_far"}
      BY <2>1, <2>2, <3>2, OperandsOf DEF OffsetAt, AsNumber
    <3> QED
      BY <2>4, <3>1, <3>2 DEF Saves
  <2> QED
    BY <2>3, <2>4
<1> QED
  BY <1>3, <1>4, <1>5

\* An instruction writes only where nothing was.
KeepsWritten == \A a : At(a) # 0 => At(a)' = At(a)

\* What explained the codes there were explains them with a new one in front, if the
\* instruction wrote only where nothing was.
LEMMA ExplainsGrows ==
    ASSUME Inv, NEW c, IsCode(c), data' = c \o data,
           NEW top, top = Len(c) + Len(data),
           UNCHANGED entered, KeepsWritten,
           NEW sp \in [Nat -> Int], Explained(sp),
           NEW sp1 \in [Nat -> Int], \A n \in 0..Len(data) : sp1[n] = sp[n]
    PROVE  /\ EntryFrame(sp1)'
           /\ \A n \in 1..Len(data) : IsEntry(Left(n)) => Explains(sp1, n)'
<1> USE DEF Explained, KeepsWritten
<1>1. /\ Len(data') = top /\ Len(c) \in 1..3 /\ Len(data) \in Nat
      /\ \A n \in 1..Len(data) : Left(n)' = Left(n) /\ Rest(n)' = Rest(n)
  BY LeftGrows
<1>3. sp1[0] = sp[0]
  BY <1>1
<1>4. EntryFrame(sp1)'
  <2>1. At(Bottom)' = ReturnAddress
    BY DEF EntryFrame, ReturnAddress
  <2>2. entered' # "call" => Len(data') > 0 /\ Left(1)'.code = "push_machine_frame"
    <3> SUFFICES ASSUME entered' # "call" PROVE Len(data') > 0 /\ Left(1)'.code = "push_machine_frame"
      OBVIOUS
    <3>1. Len(data) > 0 /\ Left(1).code = "push_machine_frame"
      BY DEF EntryFrame
    <3>2. 1 \in 1..Len(data) /\ Len(data') > 0
      BY <1>1, <3>1
    <3> QED
      BY <1>1, <3>1, <3>2
  <2>3. sp1[0] = IF entered' = "call" THEN Bottom ELSE Interrupted
    BY <1>3 DEF EntryFrame
  <2> QED
    BY <2>1, <2>2, <2>3 DEF EntryFrame
<1>5. ASSUME NEW n \in 1..Len(data), IsEntry(Left(n))
      PROVE  Explains(sp1, n)'
  <2> DEFINE s == Left(n)
  <2>1. Explains(sp, n)
    BY <1>5
  <2>2. Left(n)' = Left(n) /\ Rest(n)' = Rest(n) /\ sp1[n] = sp[n] /\ sp1[Rest(n)] = sp[Rest(n)]
    <3>1. Rest(n) \in 0..n - 1
      BY <1>5, RestFacts
    <3>2. n \in 0..Len(data) /\ Rest(n) \in 0..Len(data)
      BY <1>1, <3>1
    <3> QED
      BY <1>1, <3>2
  <2>3. /\ Left(n).code \in Allocates => SizeAt(n)' = SizeAt(n)
        /\ Left(n).code \in Saves => OffsetAt(n)' = OffsetAt(n)
    BY <1>5, NumbersGrow
  <2>4. s.code = "push_nonvolatile_reg" =>
            /\ sp[Rest(n)] = sp[n] + 8
            /\ \E r \in Pushed : s.info = Number[r] /\ At(sp[n])' = InCaller(r)
    <3>1. \A r \in Pushed : InCaller(r) # 0
      BY FunctionAssumption, CallerFacts, RegisterFacts
    <3> QED
      BY <2>1, <3>1 DEF Explains
  <2>5. s.code \in Allocates => sp[Rest(n)] = sp[n] + SizeAt(n)'
    BY <2>1, <2>3 DEF Explains
  <2>6. s.code \in Saves =>
            /\ sp[Rest(n)] = sp[n]
            /\ s.code # "save_nonvolatile_reg_far"
            /\ \E r \in NonVolatile \ {FrameRegister} :
                /\ s.info = Number[r]
                /\ r \in Elements(XmmFields) <=> s.code \in XmmSaves
                /\ At(sp[n] + OffsetAt(n))' = InCaller(r)
    <3> SUFFICES ASSUME s.code \in Saves
                 PROVE /\ sp[Rest(n)] = sp[n]
                       /\ s.code # "save_nonvolatile_reg_far"
                       /\ \E r \in NonVolatile \ {FrameRegister} :
                            /\ s.info = Number[r]
                            /\ r \in Elements(XmmFields) <=> s.code \in XmmSaves
                            /\ At(sp[n] + OffsetAt(n))' = InCaller(r)
      OBVIOUS
    <3>1. PICK r \in NonVolatile \ {FrameRegister} :
                /\ s.info = Number[r]
                /\ r \in Elements(XmmFields) <=> s.code \in XmmSaves
                /\ At(sp[n] + OffsetAt(n)) = InCaller(r)
      BY <2>1 DEF Explains
    <3>2. InCaller(r) # 0
      BY CallerFacts, RegisterFacts
    <3>3. PICK a : a = sp[n] + OffsetAt(n)
      OBVIOUS
    <3>4. At(a)' = InCaller(r)
      BY <3>1, <3>2, <3>3
    <3>5. a = sp[n] + OffsetAt(n)'
      BY <2>3, <3>3
    <3>6. At(sp[n] + OffsetAt(n))' = InCaller(r)
      BY <3>4, <3>5 DEF At
    <3>7. sp[Rest(n)] = sp[n] /\ s.code # "save_nonvolatile_reg_far"
      BY <2>1 DEF Explains
    <3> QED
      BY <3>1, <3>6, <3>7
  <2>7. s.code \in {"set_frame_pointer", "epilog"} => sp[Rest(n)] = sp[n]
    BY <2>1 DEF Explains
  <2>8. s.code = "push_machine_frame" =>
            /\ n = 1 /\ entered' # "call"
            /\ sp[1] + 8 * s.info = Bottom /\ At(Bottom + 24)' = sp[0]
    BY <2>1, BottomType DEF Explains, EntryFrame
  <2>9. n = 1 => sp1[1] = sp[1]
    BY <2>2
  <2> QED
    BY <1>3, <2>2, <2>4, <2>5, <2>6, <2>7, <2>8, <2>9 DEF Explains
<1> QED
  BY <1>4, <1>5

\* Has is about the same slots as Left.
LEMMA HasLeft ==
    ASSUME Inv, NEW codes
    PROVE  Has(codes) <=> \E n \in 1..Len(data) : Left(n).code \in codes
<1>1. Len(data) \in Nat /\ DOMAIN data = 1..Len(data)
  BY DEF Inv
<1>2. ASSUME NEW k \in DOMAIN data, data[k].code \in codes
      PROVE  \E n \in 1..Len(data) : Left(n).code \in codes
  <2>1. Len(data) - k + 1 \in 1..Len(data) /\ Len(data) - (Len(data) - k + 1) + 1 = k
    BY <1>1
  <2> QED
    BY <1>2, <2>1 DEF Left
<1>3. ASSUME NEW n \in 1..Len(data), Left(n).code \in codes
      PROVE  \E k \in DOMAIN data : data[k].code \in codes
  <2>1. Len(data) - n + 1 \in DOMAIN data
    BY <1>1
  <2> QED
    BY <1>3, <2>1 DEF Left
<1> QED
  BY <1>2, <1>3 DEF Has

LEMMA InOrderGrows ==
    ASSUME Inv, InOrder, NEW c, IsCode(c), data' = c \o data,
           c[1].code \in Allocates \cup {"push_nonvolatile_reg"} =>
                ~Has(Saves \cup {"set_frame_pointer"}),
           c[1].code # "push_machine_frame"
    PROVE  InOrder'
<1> DEFINE Moving == Allocates \cup {"push_nonvolatile_reg", "push_machine_frame"}
           Late == Saves \cup {"set_frame_pointer"}
<1>1. Moving \subseteq Code /\ Late \subseteq Code
  BY DEF Allocates, Saves, Code
<1> PICK top : top = Len(c) + Len(data)
  OBVIOUS
<1>2. /\ Len(data') = top /\ Len(c) \in 1..3 /\ Len(data) \in Nat
      /\ \A n \in 1..Len(data) : Left(n)' = Left(n)
      /\ Left(top)' = c[1]
  BY LeftGrows
<1>3. \A s : s.code \in Code => IsEntry(s)
  BY DEF IsEntry, Code
<1> SUFFICES ASSUME NEW n \in 1..top, NEW m \in 1..top, m < n,
                    Left(n)'.code \in Moving, Left(m)'.code \in Late
             PROVE  FALSE
  BY <1>2 DEF InOrder
<1>4. IsEntry(Left(n)') /\ IsEntry(Left(m)')
  BY <1>1, <1>3
<1>5. n \in 1..Len(data) \/ n = top
  BY <1>4, EntriesGrow
<1>6. m \in 1..Len(data)
  <2>1. m \in 1..Len(data) \/ m = top
    BY <1>4, EntriesGrow
  <2>2. m # top
    BY <1>2
  <2> QED
    BY <2>1, <2>2
<1>7. Left(m).code \in Late /\ Has(Late)
  BY <1>2, <1>6, HasLeft
<1>8. CASE n \in 1..Len(data)
  BY <1>2, <1>6, <1>7, <1>8 DEF InOrder
<1>9. CASE n = top
  <2>1. c[1].code \in Allocates \cup {"push_nonvolatile_reg"}
    BY <1>2, <1>9
  <2> QED
    BY <1>7, <2>1
<1> QED
  BY <1>5, <1>8, <1>9

\* What a code says of the registers and the stack pointers before and after its
\* instruction: the new conjuncts of Explains.
Describes(c, from, to) ==
    /\ c[1].code = "push_nonvolatile_reg" =>
        /\ from = to + 8
        /\ \E r \in Pushed : c[1].info = Number[r] /\ At(to)' = InCaller(r)
    /\ c[1].code \in Allocates => from = to + CodeSize(c)
    /\ c[1].code \in Saves =>
        /\ from = to
        /\ c[1].code # "save_nonvolatile_reg_far"
        /\ \E r \in NonVolatile \ {FrameRegister} :
            /\ c[1].info = Number[r]
            /\ r \in Elements(XmmFields) <=> c[1].code \in XmmSaves
            /\ At(to + CodeOffset(c))' = InCaller(r)
    /\ c[1].code \in {"set_frame_pointer", "epilog"} => from = to

\* The new code restores r.
CodeRestores(c, r) ==
    /\ \/ c[1].code \in {"push_nonvolatile_reg", "save_nonvolatile_reg"} /\ r \in Elements(GpFields)
       \/ c[1].code \in XmmSaves /\ r \in Elements(XmmFields)
    /\ c[1].info = Number[r]

\* The new code, with the stack pointer after its instruction, is explained too.
LEMMA NewExplained ==
    ASSUME Inv, NEW c, IsCode(c), data' = c \o data,
           NEW top, top = Len(c) + Len(data),
           c[1].code # "push_machine_frame",
           NEW from, NEW to, Describes(c, from, to),
           NEW sp, sp[top] = to, sp[Len(data)] = from
    PROVE  Explains(sp, top)'
<1>1. Left(top)' = c[1] /\ Rest(top)' = Len(data)
  BY LeftGrows
<1>2. /\ c[1].code \in Allocates => SizeAt(top)' = CodeSize(c)
      /\ c[1].code \in Saves => OffsetAt(top)' = CodeOffset(c)
  BY NumbersGrow
<1>3. c[1].code \in Saves =>
        \E r \in NonVolatile \ {FrameRegister} :
            /\ c[1].info = Number[r]
            /\ r \in Elements(XmmFields) <=> c[1].code \in XmmSaves
            /\ At(sp[top] + OffsetAt(top))' = InCaller(r)
  BY <1>2 DEF Describes, At
<1> QED
  BY <1>1, <1>2, <1>3 DEF Describes, Explains

LEMMA CodeUndoable ==
    ASSUME Inv, Types, Unwindable,
           phase = "prologue", phase' \in {"prologue", "body"},
           NEW c, IsCode(c), data' = c \o data, c[1].code # "push_machine_frame",
           UNCHANGED <<i, rip, rip_updated, entered>>,
           KeepsWritten,
           c[1].code \in Allocates \cup {"push_nonvolatile_reg"} =>
                ~Has(Saves \cup {"set_frame_pointer"}),
           NEW to \in Int, to = rsp', Describes(c, rsp, to),
           \A r \in NonVolatile :
                \/ regs'[r] = regs[r]
                \/ CodeRestores(c, r)
                \/ \E m \in 1..Len(data) : RestoresAt(m, r),
           c[1].code = "set_frame_pointer" =>
                disp' # -1 /\ regs'[FrameRegister] = rsp' + 16 * disp',
           Has({"set_frame_pointer"}) =>
                /\ c[1].code # "set_frame_pointer"
                /\ disp' = disp /\ regs'[FrameRegister] = regs[FrameRegister]
    PROVE  Unwindable'
<1>1. PICK top : top = Len(c) + Len(data)
  OBVIOUS
<1>2. /\ Len(data') = top /\ Len(c) \in 1..3 /\ Len(data) \in Nat
      /\ \A n \in 1..Len(data) : Left(n)' = Left(n)
      /\ Left(top)' = c[1]
      /\ \A n \in Len(data) + 1 .. top - 1 : ~IsEntry(Left(n)')
  BY <1>1, LeftGrows
<1>3. i = 0 /\ i' = 0 /\ top - 0 = top /\ Len(data) - 0 = Len(data) /\ top \in Nat /\ top > Len(data)
  <2>1. i = 0 /\ i' = 0
    BY DEF Inv
  <2>2. \A a \in 1..3, b \in Nat : a + b - 0 = a + b /\ b - 0 = b /\ a + b \in Nat /\ a + b > b
    OBVIOUS
  <2> QED
    BY <1>1, <1>2, <2>1, <2>2
<1>4. PICK sp \in [Nat -> Int] : Undoable(sp)
  BY DEF Unwindable
<1>5. PICK sp1 : sp1 = [sp EXCEPT ![top] = to]
  OBVIOUS
<1>6. /\ InOrder /\ RegistersAt(Len(data))
      /\ Explained(sp)
      /\ FrameAt(sp, Len(data)) /\ rsp = sp[Len(data)]
      /\ rip_updated <=> entered # "call" /\ 0 = Len(data)
      /\ rip_updated => rip = ReturnAddress
  BY <1>3, <1>4 DEF Unwindable, Undoable
<1>7. sp1 \in [Nat -> Int] /\ sp1[top] = to /\ \A n \in 0..Len(data) : sp1[n] = sp[n]
  <2>1. top \in Nat /\ \A n \in 0..Len(data) : n \in Nat /\ n # top
    BY <1>2, <1>3
  <2>2. sp1 \in [Nat -> Int] /\ \A n \in Nat : sp1[n] = IF n = top THEN to ELSE sp[n]
    BY <1>4, <1>5
  <2> QED
    BY <2>1, <2>2
<1>8. EntryFrame(sp1)' /\ \A n \in 1..Len(data) : IsEntry(Left(n)) => Explains(sp1, n)'
  <2>1. UNCHANGED entered
    OBVIOUS
  <2> QED
    BY <1>1, <1>4, <1>6, <1>7, <2>1, ExplainsGrows
<1>9. InOrder'
  BY <1>6, InOrderGrows
<1>10. \A n \in 1..Len(data) : \A r : RestoresAt(n, r) => RestoresAt(n, r)'
  BY <1>2 DEF RestoresAt
<1>11. top \in 1..top /\ \A n \in 1..Len(data) : n \in 1..top
  BY <1>3
<1>12. \A r \in NonVolatile : regs'[r] = InCaller(r) \/ \E m \in 1..top : RestoresAt(m, r)'
  <2> SUFFICES ASSUME NEW r \in NonVolatile, regs'[r] # InCaller(r)
               PROVE  \E m \in 1..top : RestoresAt(m, r)'
    OBVIOUS
  <2>1. CASE \E m \in 1..Len(data) : RestoresAt(m, r)
    BY <1>10, <1>11, <2>1
  <2>2. CASE CodeRestores(c, r)
    <3>1. RestoresAt(top, r)'
      BY <1>2, <2>2 DEF RestoresAt, CodeRestores
    <3> QED
      BY <1>11, <3>1
  <2>3. CASE regs'[r] = regs[r]
    BY <1>6, <2>1, <2>3 DEF RegistersAt
  <2> QED
    BY <2>1, <2>2, <2>3
<1>13. \A n \in 1..top : IsEntry(Left(n)') => Explains(sp1, n)'
  <2> SUFFICES ASSUME NEW n \in 1..top, IsEntry(Left(n)') PROVE Explains(sp1, n)'
    OBVIOUS
  <2>1. CASE n \in 1..Len(data)
    BY <1>2, <1>8, <2>1
  <2>2. CASE n = top
    <3>1. sp1[Len(data)] = rsp
      BY <1>2, <1>6, <1>7
    <3> QED
      BY <1>1, <1>7, <2>2, <3>1, NewExplained
  <2> QED
    BY <1>1, <2>1, <2>2, EntriesGrow
<1>14. \A m \in 1..top : SetsFrameAt(m)' => disp' # -1 /\ regs'[FrameRegister] = sp1[m] + 16 * disp'
  <2> SUFFICES ASSUME NEW m \in 1..top, SetsFrameAt(m)'
               PROVE  disp' # -1 /\ regs'[FrameRegister] = sp1[m] + 16 * disp'
    OBVIOUS
  <2>1. Left(m)'.code = "set_frame_pointer" /\ IsEntry(Left(m)')
    BY DEF SetsFrameAt, IsEntry
  <2>2. CASE m \in 1..Len(data)
    <3>1. SetsFrameAt(m) /\ sp1[m] = sp[m]
      <4>1. Left(m)' = Left(m)
        BY <1>2, <2>2
      <4>2. m \in 0..Len(data)
        BY <2>2
      <4> QED
        BY <1>7, <2>1, <4>1, <4>2 DEF SetsFrameAt
    <3>2. Has({"set_frame_pointer"})
      BY <2>2, <3>1, HasLeft DEF SetsFrameAt
    <3> QED
      BY <1>6, <2>2, <3>1, <3>2 DEF FrameAt
  <2>3. CASE m = top
    BY <1>2, <1>7, <2>1, <2>3
  <2> QED
    BY <1>1, <2>1, <2>2, <2>3, EntriesGrow
<1>15. rip_updated' = FALSE
  BY <1>6 DEF Explained, EntryFrame, Types
<1>16. Len(data') - i' = top
  BY <1>2, <1>3
<1>17. Undoable(sp1)'
  <2>1. StackAt(sp1, top)' /\ FrameAt(sp1, top)'
    BY <1>7, <1>14 DEF StackAt, FrameAt
  <2>2. StackAt(sp1, Len(data) - i)' /\ FrameAt(sp1, Len(data) - i)'
    BY <1>16, <2>1 DEF StackAt, FrameAt
  <2>3. rsp' = sp1[Len(data')]
    BY <1>2, <1>7
  <2> QED
    BY <1>2, <1>13, <1>8, <2>2, <2>3 DEF Explained, Undoable
<1>18. RegistersAt(Len(data) - i)'
  BY <1>12, <1>16 DEF RegistersAt
<1> QED
  BY <1>2, <1>3, <1>7, <1>9, <1>15, <1>17, <1>18 DEF Unwindable

----------------------------------------------------------------------------
(* The instructions of the prologue.                                       *)

LEMMA WrittenKeeps ==
    ASSUME NEW A, NEW v, mem' = Written(A, v), \A a \in A : a \notin DOMAIN mem
    PROVE  KeepsWritten /\ \A a \in A : At(a)' = v
<1>1. DOMAIN mem' = DOMAIN mem \cup A
  BY DEF Written
<1>2. \A a \in DOMAIN mem' : mem'[a] = IF a \in A THEN v ELSE mem[a]
  BY DEF Written
<1> QED
  BY <1>1, <1>2 DEF KeepsWritten, At, Overwritten

\* A register that was pushed is among those the codes restore.
LEMMA PushedRestored ==
    ASSUME Inv, NEW r \in NonVolatile, IsPushed(r)
    PROVE  \E m \in 1..Len(data) : RestoresAt(m, r)
<1>1. PICK k \in DOMAIN data : data[k].code = "push_nonvolatile_reg" /\ data[k].info = Number[r]
  BY DEF IsPushed
<1>2. r \in Elements(GpFields)
  BY RegisterFacts DEF IsPushed
<1>3. Len(data) \in Nat /\ DOMAIN data = 1..Len(data)
  BY DEF Inv
<1>4. PICK m : m = Len(data) - k + 1
  OBVIOUS
<1>5. m \in 1..Len(data) /\ Len(data) - m + 1 = k
  BY <1>1, <1>3, <1>4
<1>6. RestoresAt(m, r)
  BY <1>1, <1>2, <1>5 DEF RestoresAt, Left
<1> QED
  BY <1>5, <1>6

LEMMA PushUndoable ==
    ASSUME Inv, Types, Unwindable, Untouched, NEW r \in Pushed, Push(r)
    PROVE  Unwindable' /\ Untouched'
<1>1. data \in Seq(Slot)
  BY DEF Inv
<1>2. PICK c : /\ Instruction(c) /\ IsCode(c)
               /\ c[1].code = "push_nonvolatile_reg" /\ c[1].info = Number[r]
  BY <1>1, PushCode
<1>3. /\ ~Has(Allocates \cup Saves \cup {"set_frame_pointer"})
      /\ rsp' = rsp - 8 /\ mem' = Written({rsp - 8}, regs[r]) /\ UNCHANGED <<regs, disp>>
  BY DEF Push
<1>4. /\ phase = "prologue" /\ phase' = "prologue" /\ data' = c \o data
      /\ UNCHANGED <<i, rip, rip_updated, entered>>
  BY <1>2 DEF Instruction
<1>5. ~Has(Saves \cup {"set_frame_pointer"}) /\ ~Has({"set_frame_pointer"})
  BY <1>3 DEF Has
<1>6. regs[r] = InCaller(r)
  BY <1>4, <1>5, FunctionAssumption, RegisterFacts DEF Untouched
<1>7. PICK to : to = rsp - 8
  OBVIOUS
<1>8. to \in Int /\ rsp \in Int /\ rsp = to + 8 /\ to = rsp'
  BY <1>3, <1>7 DEF Types
<1>9. \A a \in {to} : a \notin DOMAIN mem
  BY <1>4, <1>8 DEF Untouched, Types
<1>10. KeepsWritten /\ At(to)' = InCaller(r)
  BY <1>3, <1>6, <1>7, <1>9, WrittenKeeps
<1>11. Describes(c, rsp, to)
  BY <1>2, <1>8, <1>10 DEF Describes, Allocates, Saves
<1>12. Unwindable'
  BY <1>2, <1>3, <1>4, <1>5, <1>8, <1>10, <1>11, CodeUndoable
<1>13. Untouched'
  <2>1. DOMAIN mem' = DOMAIN mem \cup {to}
    BY <1>3, <1>7 DEF Written
  <2>2. \A a \in DOMAIN mem' : rsp' <= a
    BY <1>4, <1>8, <2>1 DEF Untouched, Types
  <2> QED
    BY <1>3, <1>4, <1>5, <2>2 DEF Untouched
<1> QED
  BY <1>12, <1>13

LEMMA AllocUndoable ==
    ASSUME Inv, Types, Unwindable, Untouched, NEW n \in Allocs, Alloc(n)
    PROVE  Unwindable' /\ Untouched'
<1>1. data \in Seq(Slot)
  BY DEF Inv
<1>2. PICK c : /\ Instruction(c) /\ IsCode(c)
               /\ c[1].code \in Allocates /\ CodeSize(c) = n
  BY <1>1, AllocCode
<1>3. /\ ~Has(Allocates \cup Saves \cup {"set_frame_pointer"})
      /\ rsp' = rsp - n /\ UNCHANGED <<regs, mem, disp>>
  BY DEF Alloc
<1>4. /\ phase = "prologue" /\ phase' = "prologue" /\ data' = c \o data
      /\ UNCHANGED <<i, rip, rip_updated, entered>>
  BY <1>2 DEF Instruction
<1>5. ~Has(Saves \cup {"set_frame_pointer"}) /\ ~Has({"set_frame_pointer"})
  BY <1>3 DEF Has
<1>6. c[1].code \notin Saves \cup {"set_frame_pointer", "epilog", "push_nonvolatile_reg", "push_machine_frame"}
  BY <1>2 DEF Allocates, Saves
<1>7. PICK to : to = rsp - n
  OBVIOUS
<1>8. to \in Int /\ rsp \in Int /\ rsp = to + n /\ to = rsp' /\ to <= rsp
  BY <1>3, <1>7, FunctionAssumption DEF Types
<1>9. KeepsWritten
  BY <1>3 DEF KeepsWritten, At
<1>10. Describes(c, rsp, to)
  BY <1>2, <1>6, <1>8 DEF Describes
<1>11. Unwindable'
  BY <1>2, <1>3, <1>4, <1>5, <1>6, <1>8, <1>9, <1>10, CodeUndoable
<1>12. Untouched'
  BY <1>3, <1>4, <1>5, <1>8 DEF Untouched, Types
<1> QED
  BY <1>11, <1>12

LEMMA SetFrameUndoable ==
    ASSUME Inv, Types, Unwindable, Untouched, NEW d \in Displacements, SetFrame(d)
    PROVE  Unwindable' /\ Untouched'
<1>1. data \in Seq(Slot)
  BY DEF Inv
<1>2. PICK c : Instruction(c) /\ IsCode(c) /\ c[1].code = "set_frame_pointer"
  BY <1>1, SetFrameCode
<1>3. /\ ~Has(Saves \cup {"set_frame_pointer"}) /\ IsPushed(FrameRegister) /\ disp' = d
      /\ regs' = [regs EXCEPT ![FrameRegister] = rsp + 16 * d] /\ UNCHANGED <<rsp, mem>>
  BY DEF SetFrame
<1>4. /\ phase = "prologue" /\ phase' = "prologue" /\ data' = c \o data
      /\ UNCHANGED <<i, rip, rip_updated, entered>>
  BY <1>2 DEF Instruction
<1>5. ~Has({"set_frame_pointer"})
  BY <1>3 DEF Has
<1>6. FrameRegister \in NonVolatile /\ NonVolatile \subseteq Register
  BY FunctionAssumption, RegisterFacts
<1>7. /\ regs'[FrameRegister] = rsp' + 16 * disp'
      /\ \A r \in NonVolatile : r # FrameRegister => regs'[r] = regs[r]
  BY <1>3, <1>6 DEF Types
<1>8. \E m \in 1..Len(data) : RestoresAt(m, FrameRegister)
  BY <1>3, <1>6, PushedRestored
<1>9. disp' # -1
  BY <1>3, FunctionAssumption
<1>10. KeepsWritten
  BY <1>3 DEF KeepsWritten, At
<1>11. Describes(c, rsp, rsp)
  BY <1>2 DEF Describes, Allocates, Saves
<1>12. PICK to : to = rsp
  OBVIOUS
<1>13. to \in Int /\ to = rsp' /\ Describes(c, rsp, to)
  BY <1>3, <1>11, <1>12 DEF Types
<1>14. c[1].code \notin Allocates \cup {"push_nonvolatile_reg", "push_machine_frame"}
  BY <1>2 DEF Allocates
<1>15. \A r \in NonVolatile :
                \/ regs'[r] = regs[r]
                \/ CodeRestores(c, r)
                \/ \E m \in 1..Len(data) : RestoresAt(m, r)
  BY <1>7, <1>8
<1>16. Unwindable'
  BY <1>2, <1>4, <1>5, <1>7, <1>9, <1>10, <1>13, <1>14, <1>15, CodeUndoable
<1>17. Untouched'
  <2>1. Saves \cup {"set_frame_pointer"} \in SUBSET Code
    BY DEF Saves, Code
  <2>2. Has(Saves \cup {"set_frame_pointer"})'
    BY <1>2, <1>4, <2>1, EntriesPrepended
  <2> QED
    BY <1>3, <1>4, <2>2 DEF Untouched
<1> QED
  BY <1>16, <1>17

\* Every general purpose register is saved where the short code reaches.
SavesAreNear == \A s \in Saved : s[1] \in Elements(GpFields) => s[2] \div 8 < 65536

LEMMA SaveUndoable ==
    ASSUME SavesAreNear, Inv, Types, Justified, Unwindable, Untouched,
           NEW s \in Saved, Save(s[1], s[2])
    PROVE  Unwindable' /\ Untouched'
<1> DEFINE r == s[1]
           off == s[2]
<1>1. data \in Seq(Slot)
  BY DEF Inv
<1>2. PICK c : /\ Instruction(c) /\ IsCode(c)
               /\ c[1].code \in Saves /\ c[1].info = Number[r]
               /\ c[1].code \in XmmSaves <=> r \in Elements(XmmFields)
               /\ c[1].code = "save_nonvolatile_reg_far" => ~(off \div 8 < 65536)
               /\ c[1].code # "save_nonvolatile_reg_far" => CodeOffset(c) = off
  BY <1>1, SaveCode
<1>3. r \in NonVolatile /\ r \in Register /\ off \in Nat
  BY SavedType
<1>4. r \in Elements(GpFields) \/ r \in Elements(XmmFields)
  BY <1>3, RegisterFacts
<1>5. c[1].code # "save_nonvolatile_reg_far" /\ CodeOffset(c) = off
  <2>1. CASE r \in Elements(XmmFields)
    <3>1. c[1].code # "save_nonvolatile_reg_far"
      BY <1>2, <2>1 DEF XmmSaves
    <3> QED
      BY <1>2, <3>1
  <2>2. CASE r \in Elements(GpFields)
    <3>1. off \div 8 < 65536
      BY <2>2 DEF SavesAreNear
    <3> QED
      BY <1>2, <3>1
  <2> QED
    BY <1>4, <2>1, <2>2
<1>6. /\ regs[r] = InCaller(r) /\ r # FrameRegister
      /\ \A a \in Words(r, rsp + off) : a \notin DOMAIN mem
      /\ mem' = Written(Words(r, rsp + off), regs[r])
      /\ regs' = [regs EXCEPT ![r] = Overwritten] /\ UNCHANGED <<rsp, disp>>
  BY DEF Save
<1> HIDE DEF r, off
<1>7. /\ phase = "prologue" /\ phase' = "prologue" /\ data' = c \o data
      /\ UNCHANGED <<i, rip, rip_updated, entered>>
  BY <1>2 DEF Instruction
<1>8. PICK to : to = rsp
  OBVIOUS
<1>9. to \in Int /\ to = rsp'
  BY <1>6, <1>8 DEF Types
<1>10. KeepsWritten /\ \A a \in Words(r, rsp + off) : At(a)' = InCaller(r)
  BY <1>6, WrittenKeeps
<1>11. to + CodeOffset(c) \in Words(r, rsp + off)
  BY <1>5, <1>8 DEF Words
<1>12. At(to + CodeOffset(c))' = InCaller(r)
  BY <1>10, <1>11
<1>13. c[1].code \notin Allocates \cup {"push_nonvolatile_reg", "push_machine_frame", "set_frame_pointer", "epilog"}
  BY <1>2 DEF Saves, Allocates
<1>14. Describes(c, rsp, to)
  BY <1>2, <1>3, <1>5, <1>6, <1>8, <1>12, <1>13 DEF Describes
<1>15. CodeRestores(c, r)
  <2>1. CASE r \in Elements(XmmFields)
    BY <1>2, <2>1 DEF CodeRestores
  <2>2. CASE r \in Elements(GpFields)
    <3>1. c[1].code \notin XmmSaves
      BY <1>2, <2>2, RegisterFacts
    <3>2. c[1].code = "save_nonvolatile_reg"
      BY <1>2, <1>5, <3>1 DEF Saves, XmmSaves
    <3> QED
      BY <1>2, <2>2, <3>2 DEF CodeRestores
  <2> QED
    BY <1>4, <2>1, <2>2
<1>16. \A q \in NonVolatile : q # r => regs'[q] = regs[q]
  BY <1>6, RegisterFacts DEF Types
<1>17. /\ regs'[FrameRegister] = regs[FrameRegister]
  BY <1>6, <1>16, FunctionAssumption, RegisterFacts
<1>18. \A q \in NonVolatile :
                \/ regs'[q] = regs[q]
                \/ CodeRestores(c, q)
                \/ \E m \in 1..Len(data) : RestoresAt(m, q)
  BY <1>15, <1>16
<1>19. Unwindable'
  <2>1. /\ phase = "prologue" /\ phase' \in {"prologue", "body"} /\ IsCode(c) /\ data' = c \o data
        /\ UNCHANGED <<i, rip, rip_updated, entered>> /\ KeepsWritten /\ to \in Int /\ to = rsp'
    BY <1>2, <1>7, <1>9, <1>10
  <2>2. /\ c[1].code # "push_machine_frame" /\ c[1].code # "set_frame_pointer"
        /\ c[1].code \notin Allocates \cup {"push_nonvolatile_reg"}
        /\ disp' = disp /\ regs'[FrameRegister] = regs[FrameRegister]
    BY <1>6, <1>13, <1>17
  <2> QED
    BY <1>14, <1>18, <2>1, <2>2, CodeUndoable
<1>20. Untouched'
  <2>1. Saves \cup {"set_frame_pointer"} \in SUBSET Code
    BY DEF Saves, Code
  <2>2. Has(Saves \cup {"set_frame_pointer"})'
    <3>1. c[1].code \in Saves \cup {"set_frame_pointer"} /\ IsCode(c) /\ data' = c \o data
      BY <1>2, <1>7
    <3> QED
      BY <2>1, <3>1, EntriesPrepended
  <2>3. DOMAIN mem' = DOMAIN mem \cup Words(r, rsp + off)
    BY <1>6 DEF Written
  <2>4. \A a \in Words(r, rsp + off) : rsp <= a
    <3>1. \A x \in Int, n \in Nat : x <= x + n /\ x <= x + n + 8
      OBVIOUS
    <3>2. rsp \in Int
      BY DEF Types
    <3> QED
      BY <1>3, <3>1, <3>2 DEF Words
  <2> QED
    BY <1>6, <1>7, <2>2, <2>3, <2>4 DEF Untouched
<1> QED
  BY <1>19, <1>20

\* With the same codes and memory, the same explains them.
LEMMA SameExplained ==
    ASSUME UNCHANGED <<data, mem, entered>>
    PROVE  /\ \A sp : Explained(sp) => Explained(sp)'
           /\ InOrder => InOrder'
           /\ \A n, r : RestoresAt(n, r) => RestoresAt(n, r)'
           /\ \A n : SetsFrameAt(n)' => SetsFrameAt(n)
           /\ \A n : SetsFrameAt(n) => SetsFrameAt(n)'
           /\ \A codes : Has(codes)' => Has(codes)
<1>1. \A n : Left(n)' = Left(n)
  BY DEF Left
<1>2. \A n : Rest(n)' = Rest(n) /\ SizeAt(n)' = SizeAt(n) /\ OffsetAt(n)' = OffsetAt(n)
  BY <1>1 DEF Rest, SizeAt, OffsetAt, AsNumber, Operands, TakesOne, TakesTwo
<1>3. \A a : At(a)' = At(a)
  BY DEF At
<1>4. \A sp : EntryFrame(sp) => EntryFrame(sp)'
  BY <1>1, <1>3 DEF EntryFrame
<1>5. ASSUME NEW sp, NEW n, Explains(sp, n)
      PROVE  Explains(sp, n)'
  <2>1. At(sp[n])' = At(sp[n]) /\ At(Bottom + 24)' = At(Bottom + 24)
    BY <1>3
  <2>2. At(sp[n] + OffsetAt(n))' = At(sp[n] + OffsetAt(n))
    BY <1>2 DEF At
  <2> QED
    BY <1>1, <1>2, <1>5, <2>1, <2>2 DEF Explains
<1>6. \A sp : Explained(sp) => Explained(sp)'
  BY <1>1, <1>4, <1>5 DEF Explained
<1> QED
  BY <1>1, <1>6 DEF InOrder, RestoresAt, SetsFrameAt, Has

LEMMA EnterBodyUndoable ==
    ASSUME Inv, Types, Justified, Unwindable, NEW b \in BOOLEAN, EnterBody(b)
    PROVE  Unwindable'
<1>1. /\ phase = "prologue" /\ phase' = "body" /\ UNCHANGED <<rsp, rip, mem, entered, disp, i, rip_updated>>
      /\ regs' = [r \in Register |->
                    IF r = FrameRegister /\ disp # -1 THEN regs[r]
                    ELSE IF IsPushed(r) \/ r \notin NonVolatile THEN Overwritten
                    ELSE regs[r]]
  BY DEF EnterBody
<1>2. \A r \in NonVolatile : regs'[r] = regs[r] \/ \E m \in 1..Len(data) : RestoresAt(m, r)
  <2>1. \A r \in NonVolatile : regs'[r] = regs[r] \/ IsPushed(r)
    BY <1>1, RegisterFacts
  <2> QED
    BY <2>1, PushedRestored
<1>3. FrameRegister \in Register
  BY FunctionAssumption, RegisterFacts
<1>4. disp # -1 => regs'[FrameRegister] = regs[FrameRegister]
  BY <1>1, <1>3
<1>5. Has({"set_frame_pointer"}) => disp # -1
  BY <1>1 DEF Justified, Framed
<1>6. KeepsWritten
  BY <1>1 DEF KeepsWritten, At
<1>7. CASE data' # data
  <2> DEFINE c == <<Entry("epilog", 0), Operand(0)>>
  <2>1. IsCode(c) /\ c[1].code = "epilog"
    BY EpilogCode DEF Inv
  <2>2. data' = c \o data
    BY <1>7 DEF EnterBody
  <2> HIDE DEF c
  <2>3. c[1].code \notin Allocates \cup Saves \cup {"push_nonvolatile_reg", "push_machine_frame", "set_frame_pointer"}
    BY <2>1 DEF Saves, Allocates
  <2>4. PICK to : to = rsp
    OBVIOUS
  <2>5. to \in Int /\ to = rsp' /\ Describes(c, rsp, to)
    BY <1>1, <2>3, <2>4 DEF Types, Describes
  <2>6. \A r \in NonVolatile :
            \/ regs'[r] = regs[r]
            \/ CodeRestores(c, r)
            \/ \E m \in 1..Len(data) : RestoresAt(m, r)
    BY <1>2
  <2>7. UNCHANGED <<i, rip, rip_updated, entered>> /\ disp' = disp /\ phase' \in {"prologue", "body"}
    BY <1>1
  <2>8. Has({"set_frame_pointer"}) => regs'[FrameRegister] = regs[FrameRegister]
    BY <1>4, <1>5
  <2> QED
    BY <1>1, <1>6, <2>1, <2>2, <2>3, <2>5, <2>6, <2>7, <2>8, CodeUndoable
<1>8. CASE data' = data
  <2>1. /\ \A sp : Explained(sp) => Explained(sp)'
        /\ InOrder => InOrder'
        /\ \A n, r : RestoresAt(n, r) => RestoresAt(n, r)'
        /\ \A n : SetsFrameAt(n)' => SetsFrameAt(n)
    BY <1>1, <1>8, SameExplained
  <2>2. Len(data') - i' = Len(data) - i /\ i = 0 /\ Len(data) - i = Len(data)
    BY <1>1, <1>8 DEF Inv
  <2>3. PICK sp \in [Nat -> Int] : Undoable(sp)
    BY <1>1 DEF Unwindable
  <2>4. StackAt(sp, Len(data) - i)'
    BY <1>1, <2>2, <2>3 DEF Undoable, StackAt
  <2>5. FrameAt(sp, Len(data) - i)'
    <3>1. \A m \in 1..Len(data) : SetsFrameAt(m) => disp # -1
      BY <1>5, HasLeft DEF SetsFrameAt
    <3>2. FrameAt(sp, Len(data))
      BY <2>2, <2>3 DEF Undoable
    <3> QED
      BY <1>1, <1>4, <1>8, <2>1, <2>2, <3>1, <3>2 DEF FrameAt
  <2>6. Undoable(sp)'
    BY <1>1, <2>1, <2>3, <2>4, <2>5 DEF Undoable
  <2>7. RegistersAt(Len(data) - i)'
    <3>1. RegistersAt(Len(data))
      BY <1>1, <2>2 DEF Unwindable
    <3> QED
      BY <1>2, <2>1, <2>2, <3>1 DEF RegistersAt
  <2>8. InOrder'
    BY <1>1, <2>1 DEF Unwindable
  <2> QED
    BY <1>1, <1>8, <2>3, <2>6, <2>7, <2>8 DEF Unwindable
<1> QED
  BY <1>7, <1>8

----------------------------------------------------------------------------
(* The unwinder.                                                           *)

LEMMA InitUnwindable == Init => Unwindable /\ Untouched
<1> SUFFICES ASSUME Init PROVE Unwindable /\ Untouched
  OBVIOUS
<1>1. Inv
  BY InitInv
<1>2. /\ phase = "prologue" /\ i = 0 /\ rip_updated = FALSE /\ \A r \in Register : regs[r] = InCaller(r)
      /\ rsp \in Int
  BY InitTypes DEF Init, Types
<1>3. /\ Bottom \in Int /\ Interrupted \in Int /\ Bottom # Bottom + 24 /\ Bottom <= Bottom + 24
  BY BottomType
<1>4. CASE entered = "call"
  <2>1. rsp = Bottom /\ mem = [a \in {Bottom} |-> ReturnAddress] /\ data = <<>> /\ Len(data) = 0
    BY <1>4 DEF Init
  <2>2. PICK sp : sp = [n \in Nat |-> Bottom]
    OBVIOUS
  <2>3. sp \in [Nat -> Int] /\ sp[0] = Bottom
    BY <1>3, <2>2
  <2>4. At(Bottom) = ReturnAddress
    BY <2>1 DEF At
  <2>5. Explained(sp)
    BY <1>4, <2>1, <2>3, <2>4 DEF Explained, EntryFrame
  <2>6. Len(data) - i = 0
    BY <1>2, <2>1
  <2>7. Undoable(sp)
    BY <2>1, <2>3, <2>5, <2>6 DEF Undoable, StackAt, FrameAt
  <2>8. InOrder /\ RegistersAt(Len(data) - i)
    BY <1>2, <2>1, RegisterFacts DEF InOrder, RegistersAt
  <2>9. Untouched
    BY <1>2, <1>3, <2>1 DEF Untouched
  <2> QED
    BY <1>2, <1>4, <2>3, <2>7, <2>8, <2>9 DEF Unwindable
<1>5. CASE entered # "call"
  <2> DEFINE info == IF entered = "machine_frame" THEN 0 ELSE 1
  <2>1. /\ mem = [a \in {Bottom, Bottom + 24} |-> IF a = Bottom THEN ReturnAddress ELSE Interrupted]
        /\ rsp = Bottom - 8 * info
        /\ data = <<[code |-> "push_machine_frame", info |-> info, at |-> 0]>>
    BY <1>5 DEF Init
  <2>2. info \in {0, 1}
    OBVIOUS
  <2> HIDE DEF info
  <2>3. PICK sp : sp = [n \in Nat |-> IF n = 0 THEN Interrupted ELSE rsp]
    OBVIOUS
  <2>4. sp \in [Nat -> Int] /\ sp[0] = Interrupted /\ sp[1] = rsp
    BY <1>2, <1>3, <2>3
  <2>5. At(Bottom) = ReturnAddress /\ At(Bottom + 24) = Interrupted
    BY <1>3, <2>1 DEF At
  <2>6. Len(data) = 1 /\ Left(1) = data[1] /\ data[1].code = "push_machine_frame" /\ data[1].info = info
    <3>1. Len(data) = 1
      BY <2>1
    <3>2. Left(1) = data[1]
      BY <3>1 DEF Left
    <3> QED
      BY <2>1, <3>1, <3>2
  <2>7. sp[1] + 8 * info = Bottom
    BY <1>3, <2>1, <2>2, <2>4
  <2>8. Explains(sp, 1)
    BY <1>5, <2>4, <2>5, <2>6, <2>7 DEF Explains, Allocates, Saves
  <2>9. Explained(sp)
    BY <1>5, <2>4, <2>5, <2>6, <2>8 DEF Explained, EntryFrame
  <2>10. Len(data) - i = 1
    BY <1>2, <2>6
  <2>11. Undoable(sp)
    <3>1. FrameAt(sp, 1)
      BY <2>6 DEF FrameAt, SetsFrameAt
    <3> QED
      BY <2>4, <2>6, <2>9, <2>10, <3>1 DEF Undoable, StackAt
  <2>12. InOrder /\ RegistersAt(Len(data) - i)
    BY <1>2, <2>6, RegisterFacts DEF InOrder, RegistersAt
  <2>13. Untouched
    BY <1>2, <1>3, <2>1, <2>2 DEF Untouched
  <2> QED
    BY <1>2, <1>5, <2>4, <2>6, <2>11, <2>12, <2>13 DEF Unwindable
<1> QED
  BY <1>4, <1>5

\* A code is undone: what has to hold of the registers and the stack pointer for the
\* codes that follow to be undone too.
LEMMA StepUndoable ==
    ASSUME Inv, Types, Unwindable, phase = "unwinding", phase' = "unwinding",
           i < Len(data), NextCode, UNCHANGED function,
           NEW n, n = Len(data) - i, NEW rest, rest = Rest(n),
           NEW sp \in [Nat -> Int], Undoable(sp),
           StackAt(sp, rest)',
           \A m \in 1..rest : SetsFrameAt(m) => regs'[FrameRegister] = regs[FrameRegister],
           \A q \in NonVolatile :
                regs'[q] = InCaller(q) \/ (regs'[q] = regs[q] /\ ~RestoresAt(n, q)),
           IF Left(n).code = "push_machine_frame" THEN rip_updated' = TRUE /\ rip' = ReturnAddress
           ELSE UNCHANGED <<rip, rip_updated>>
    PROVE  Unwindable'
<1>1. UNCHANGED <<data, mem, entered, disp>>
  BY DEF function
<1>2. /\ n \in 1..Len(data) /\ IsEntry(Left(n)) /\ Len(data') - i' = rest
  BY <1>1, ReadsCode
<1>3. /\ rest \in 0..n - 1 /\ n \in Nat /\ Len(data) \in Nat
      /\ \A m \in rest + 1 .. n - 1 : m \in 1..Len(data) /\ ~IsEntry(Left(m))
      /\ rest = n - 1 - Operands(Left(n))
  <2>1. Len(data) \in Nat /\ n \in Nat
    BY <1>2 DEF Inv
  <2> QED
    BY <1>2, <2>1, RestFacts
<1>4. /\ \A x : Explained(x) => Explained(x)'
      /\ InOrder => InOrder'
      /\ \A m, r : RestoresAt(m, r) => RestoresAt(m, r)'
      /\ \A m : SetsFrameAt(m)' => SetsFrameAt(m)
  BY <1>1, SameExplained
<1>5. /\ InOrder /\ RegistersAt(n) /\ Explained(sp) /\ FrameAt(sp, n)
      /\ rip_updated <=> entered # "call" /\ i = Len(data)
  BY DEF Unwindable, Undoable
<1>6. \A m \in 1..rest : m \in 1..n
  BY <1>3
<1>7. FrameAt(sp, rest)'
  BY <1>1, <1>4, <1>5, <1>6 DEF FrameAt
<1>8. RegistersAt(rest)'
  <2> SUFFICES ASSUME NEW q \in NonVolatile, regs'[q] # InCaller(q)
               PROVE  \E m \in 1..rest : RestoresAt(m, q)'
    BY DEF RegistersAt
  <2>1. regs[q] # InCaller(q) /\ ~RestoresAt(n, q)
    OBVIOUS
  <2>2. PICK m \in 1..n : RestoresAt(m, q)
    BY <1>5, <2>1 DEF RegistersAt
  <2>3. IsEntry(Left(m)) /\ m # n
    BY <2>1, <2>2 DEF RestoresAt, IsEntry, XmmSaves
  <2>4. m \in 1..rest
    BY <1>3, <2>2, <2>3
  <2> QED
    BY <1>4, <2>2, <2>4
<1>9. Undoable(sp)'
  <2>1. StackAt(sp, Len(data) - i)' /\ FrameAt(sp, Len(data) - i)'
    BY <1>2, <1>7 DEF StackAt, FrameAt
  <2> QED
    BY <1>4, <1>5, <2>1 DEF Undoable
<1>10. /\ rip_updated' <=> entered' # "call" /\ i' = Len(data')
       /\ rip_updated' => rip' = ReturnAddress
  <2>1. i' = Len(data') <=> rest = 0
    <3>1. i' \in Int
      BY <1>2, <1>3, NextInv DEF NextCode, Inv, Operands
    <3> QED
      BY <1>1, <1>2, <1>3, <3>1
  <2>2. CASE Left(n).code = "push_machine_frame"
    <3>1. n = 1 /\ entered # "call"
      BY <1>2, <1>5, <2>2 DEF Explained, Explains
    <3>2. rest = 0
      BY <1>3, <3>1
    <3> QED
      BY <1>1, <2>1, <2>2, <3>1, <3>2
  <2>3. CASE Left(n).code # "push_machine_frame"
    <3>1. rip_updated' = FALSE
      BY <1>5, <2>3 DEF Types
    <3>2. ASSUME entered # "call", rest = 0 PROVE FALSE
      <4>1. Left(1).code = "push_machine_frame"
        BY <1>5, <3>2 DEF Explained, EntryFrame
      <4>2. n # 1 /\ IsEntry(Left(1))
        BY <2>3, <4>1 DEF IsEntry
      <4>3. 1 \in rest + 1 .. n - 1
        BY <1>2, <1>3, <3>2, <4>2
      <4> QED
        BY <1>3, <4>2, <4>3
    <3> QED
      BY <1>1, <2>1, <3>1, <3>2
  <2> QED
    BY <2>2, <2>3
<1>11. RegistersAt(Len(data) - i)'
  BY <1>2, <1>8 DEF RegistersAt
<1> QED
  BY <1>4, <1>5, <1>9, <1>10, <1>11 DEF Unwindable

\* Where a code that moves the stack pointer by itself is undone, the frame pointer
\* has not been set, and the stack pointer is where it was.
LEMMA StackKnown ==
    ASSUME Inv, Unwindable, phase = "unwinding", NEW n \in 1..Len(data), n = Len(data) - i,
           NEW sp, Undoable(sp)
    PROVE  /\ Left(n).code \in Allocates \cup {"push_nonvolatile_reg", "push_machine_frame"} =>
                rsp = sp[n] /\ \A m \in 1..n : ~SetsFrameAt(m)
           /\ Left(n).code \in Saves => rsp = sp[n]
<1>1. StackAt(sp, n) /\ InOrder /\ n \in Nat
  BY DEF Undoable, Unwindable
<1>2. ASSUME Left(n).code \in Allocates \cup {"push_nonvolatile_reg", "push_machine_frame"}
      PROVE  rsp = sp[n] /\ \A m \in 1..n : ~SetsFrameAt(m)
  <2>1. ASSUME NEW m \in 1..n, SetsFrameAt(m) PROVE FALSE
    <3>1. Left(m).code = "set_frame_pointer"
      BY <2>1 DEF SetsFrameAt
    <3>2. m # n
      BY <1>2, <3>1 DEF Allocates
    <3>3. m \in 1..Len(data) /\ m < n
      BY <1>1, <3>2
    <3> QED
      BY <1>1, <1>2, <3>1, <3>3 DEF InOrder
  <2> QED
    BY <1>1, <2>1 DEF StackAt
<1>3. ASSUME Left(n).code \in Saves PROVE rsp = sp[n]
  <2>1. Has(Saves)
    BY <1>3, HasLeft
  <2> QED
    BY <1>1, <2>1 DEF StackAt
<1> QED
  BY <1>2, <1>3

LEMMA UnwindPushUndoable ==
    ASSUME Inv, Types, Unwindable, UnwindPush
    PROVE  Unwindable'
<1>1. /\ phase = "unwinding" /\ i < Len(data) /\ Current.code = "push_nonvolatile_reg"
      /\ GpIndex(Current.info) >= 0
      /\ regs' = [regs EXCEPT ![Gp(Current.info)] = At(rsp)] /\ rsp' = rsp + 8
      /\ NextCode /\ UNCHANGED <<rip, function, phase, rip_updated>>
  BY DEF UnwindPush, AtCode, Restores
<1>2. PICK n : n = Len(data) - i
  OBVIOUS
<1>3. PICK rest : rest = Rest(n)
  OBVIOUS
<1>4. n \in 1..Len(data) /\ Current = Left(n) /\ IsEntry(Left(n))
  BY <1>1, <1>2, ReadsCode
<1>5. PICK sp \in [Nat -> Int] : Undoable(sp)
  BY <1>1 DEF Unwindable
<1>6. Explains(sp, n) /\ rsp = sp[n] /\ \A m \in 1..n : ~SetsFrameAt(m)
  BY <1>1, <1>2, <1>4, <1>5, StackKnown DEF Undoable, Explained
<1>7. /\ rsp' = sp[rest]
      /\ \E r \in Pushed : Left(n).info = Number[r] /\ At(rsp) = InCaller(r)
  BY <1>1, <1>3, <1>4, <1>6 DEF Explains
<1>8. PICK r \in Pushed : Left(n).info = Number[r] /\ At(rsp) = InCaller(r)
  BY <1>7
<1>9. r \in Elements(GpFields) /\ Gp(Left(n).info) = r
  <2>1. r # "rax"
    BY <1>1, <1>4, <1>8, NumberFacts
  <2> QED
    BY <1>8, <2>1, FunctionAssumption, RegisterFacts, NumberFacts
<1>10. \A q \in NonVolatile : regs'[q] = InCaller(q) \/ (regs'[q] = regs[q] /\ ~RestoresAt(n, q))
  <2> SUFFICES ASSUME NEW q \in NonVolatile
               PROVE  regs'[q] = InCaller(q) \/ (regs'[q] = regs[q] /\ ~RestoresAt(n, q))
    OBVIOUS
  <2>1. q \in Register /\ regs'[q] = IF q = r THEN InCaller(r) ELSE regs[q]
    BY <1>1, <1>4, <1>8, <1>9, RegisterFacts DEF Types
  <2>2. RestoresAt(n, q) => q = r
    <3>1. Left(n).code = "push_nonvolatile_reg"
      BY <1>1, <1>4
    <3> QED
      BY <1>9, <3>1, NumberFacts DEF RestoresAt, XmmSaves
  <2> QED
    BY <2>1, <2>2
<1>11. StackAt(sp, rest)'
  BY <1>7 DEF StackAt
<1>12. \A m \in 1..rest : ~SetsFrameAt(m)
  BY <1>3, <1>4, <1>6, RestFacts
<1>13. IF Left(n).code = "push_machine_frame" THEN rip_updated' = TRUE /\ rip' = ReturnAddress
       ELSE UNCHANGED <<rip, rip_updated>>
  BY <1>1, <1>4
<1>14. phase' = "unwinding" /\ UNCHANGED function
  BY <1>1
<1> QED
  BY <1>1, <1>2, <1>3, <1>5, <1>10, <1>11, <1>12, <1>13, <1>14, StepUndoable

\* The codes that only move the stack pointer.
LEMMA MovesUndoable ==
    ASSUME Inv, Types, Unwindable, UnwindAlloc \/ UnwindSetFrame \/ SkipEpilog
    PROVE  Unwindable'
<1>1. /\ phase = "unwinding" /\ i < Len(data)
      /\ Current.code \in Allocates \cup {"set_frame_pointer", "epilog"}
      /\ NextCode /\ UNCHANGED <<regs, rip, function, phase, rip_updated>>
  BY DEF UnwindAlloc, UnwindSetFrame, SkipEpilog, AtCode, Moves
<1>2. PICK n : n = Len(data) - i
  OBVIOUS
<1>3. PICK rest : rest = Rest(n)
  OBVIOUS
<1>4. /\ n \in 1..Len(data) /\ Current = Left(n) /\ IsEntry(Left(n))
      /\ Current.code \in Allocates => Allocated = SizeAt(n)
  BY <1>1, <1>2, ReadsCode
<1>5. PICK sp \in [Nat -> Int] : Undoable(sp)
  BY <1>1 DEF Unwindable
<1>6. Explains(sp, n) /\ StackAt(sp, n) /\ FrameAt(sp, n)
  BY <1>2, <1>4, <1>5 DEF Undoable, Explained
<1>7. n \in Nat /\ rest \in 0..n - 1 /\ \A m \in rest + 1 .. n - 1 : ~IsEntry(Left(m))
  BY <1>3, <1>4, RestFacts
<1>8. UNCHANGED <<data, disp>>
  BY <1>1 DEF function
<1>9. StackAt(sp, rest)'
  <2>1. CASE UnwindAlloc
    <3>1. Current.code \in Allocates /\ rsp' = rsp + Allocated
      BY <2>1 DEF UnwindAlloc, AtCode, Moves
    <3>2. rsp = sp[n] /\ sp[rest] = sp[n] + SizeAt(n)
      BY <1>1, <1>2, <1>3, <1>4, <1>5, <1>6, <3>1, StackKnown DEF Explains
    <3> QED
      BY <1>4, <3>1, <3>2 DEF StackAt
  <2>2. CASE UnwindSetFrame
    <3>1. /\ Current.code = "set_frame_pointer"
          /\ rsp' = regs[Gp(Number[FrameRegister])] - disp * 16
      BY <2>2 DEF UnwindSetFrame, AtCode, Moves
    <3>2. Gp(Number[FrameRegister]) = FrameRegister
      BY FunctionAssumption, NumberFacts
    <3>3. regs[FrameRegister] = sp[n] + 16 * disp /\ n \in 1..n
      BY <1>4, <1>6, <1>7, <3>1 DEF FrameAt, SetsFrameAt
    <3>4. sp[n] \in Int /\ disp \in Int
      BY <1>5, <1>7 DEF Types
    <3>5. \A a, d \in Int : a + 16 * d - d * 16 = a
      OBVIOUS
    <3>6. rsp' = sp[n]
      BY <3>1, <3>2, <3>3, <3>4, <3>5
    <3>7. sp[rest] = sp[n]
      BY <1>3, <1>4, <1>6, <3>1 DEF Explains
    <3> QED
      BY <3>6, <3>7 DEF StackAt
  <2>3. CASE SkipEpilog
    <3>1. Current.code = "epilog" /\ rsp' = rsp
      BY <2>3 DEF SkipEpilog, AtCode, Moves
    <3>2. sp[rest] = sp[n]
      BY <1>3, <1>4, <1>6, <3>1 DEF Explains
    <3>3. ASSUME NEW m \in 1..n, SetsFrameAt(m) PROVE m \in 1..rest
      <4>1. Left(m).code = "set_frame_pointer" /\ IsEntry(Left(m))
        BY <3>3 DEF SetsFrameAt, IsEntry
      <4>2. m # n
        BY <1>4, <3>1, <4>1
      <4> QED
        BY <1>7, <4>1, <4>2
    <3>4. \A m : SetsFrameAt(m)' <=> SetsFrameAt(m)
      BY <1>8 DEF SetsFrameAt, Left
    <3> QED
      BY <1>6, <1>8, <3>1, <3>2, <3>3, <3>4 DEF StackAt, Has
  <2> QED
    BY <2>1, <2>2, <2>3
<1>10. \A q \in NonVolatile : regs'[q] = InCaller(q) \/ (regs'[q] = regs[q] /\ ~RestoresAt(n, q))
  BY <1>1, <1>4 DEF RestoresAt, XmmSaves, Allocates
<1>11. IF Left(n).code = "push_machine_frame" THEN rip_updated' = TRUE /\ rip' = ReturnAddress
       ELSE UNCHANGED <<rip, rip_updated>>
  BY <1>1, <1>4 DEF Allocates
<1>12. phase' = "unwinding" /\ UNCHANGED function /\ regs' = regs
  BY <1>1
<1> QED
  BY <1>1, <1>2, <1>3, <1>5, <1>9, <1>10, <1>11, <1>12, StepUndoable

LEMMA UnwindSaveUndoable ==
    ASSUME Inv, Types, Unwindable, UnwindSave
    PROVE  Unwindable'
<1> DEFINE target == IF Current.code \in XmmSaves THEN Xmm(Current.info) ELSE Gp(Current.info)
<1>1. /\ phase = "unwinding" /\ i < Len(data) /\ Current.code \in Saves
      /\ regs' = [regs EXCEPT ![target] = At(rsp + SaveOffset)] /\ rsp' = rsp
      /\ NextCode /\ UNCHANGED <<rip, function, phase, rip_updated>>
  BY DEF UnwindSave, AtCode, Restores, XmmSaves
<1>2. PICK n : n = Len(data) - i
  OBVIOUS
<1>3. PICK rest : rest = Rest(n)
  OBVIOUS
<1>4. /\ n \in 1..Len(data) /\ Current = Left(n) /\ IsEntry(Left(n))
      /\ Current.code \in Saves \ {"save_nonvolatile_reg_far"} => SaveOffset = OffsetAt(n)
  BY <1>1, <1>2, ReadsCode
<1>5. PICK sp \in [Nat -> Int] : Undoable(sp)
  BY <1>1 DEF Unwindable
<1>6. Explains(sp, n) /\ FrameAt(sp, n) /\ rsp = sp[n]
  BY <1>1, <1>2, <1>4, <1>5, StackKnown DEF Undoable, Explained
<1>7. /\ rsp' = sp[rest] /\ Left(n).code # "save_nonvolatile_reg_far"
      /\ \E r \in NonVolatile \ {FrameRegister} :
            /\ Left(n).info = Number[r]
            /\ r \in Elements(XmmFields) <=> Left(n).code \in XmmSaves
            /\ At(sp[n] + OffsetAt(n)) = InCaller(r)
  BY <1>1, <1>3, <1>4, <1>6 DEF Explains
<1>8. PICK r \in NonVolatile \ {FrameRegister} :
            /\ Left(n).info = Number[r]
            /\ r \in Elements(XmmFields) <=> Left(n).code \in XmmSaves
            /\ At(sp[n] + OffsetAt(n)) = InCaller(r)
  BY <1>7
<1>9. target = r
  BY <1>4, <1>8, RegisterFacts, NumberFacts
<1>10. At(rsp + SaveOffset) = InCaller(r)
  BY <1>1, <1>4, <1>6, <1>7, <1>8
<1> HIDE DEF target
<1>11. \A q \in NonVolatile : regs'[q] = IF q = r THEN InCaller(r) ELSE regs[q]
  BY <1>1, <1>9, <1>10, RegisterFacts DEF Types
<1>12. \A q \in NonVolatile : RestoresAt(n, q) => q = r
  <2> SUFFICES ASSUME NEW q \in NonVolatile, RestoresAt(n, q) PROVE q = r
    OBVIOUS
  <2>1. Number[q] = Number[r] /\ (q \in Elements(XmmFields) <=> r \in Elements(XmmFields))
    BY <1>8, RegisterFacts DEF RestoresAt, XmmSaves
  <2> QED
    BY <2>1, RegisterFacts, NumberFacts
<1>13. \A q \in NonVolatile : regs'[q] = InCaller(q) \/ (regs'[q] = regs[q] /\ ~RestoresAt(n, q))
  BY <1>11, <1>12
<1>14. regs'[FrameRegister] = regs[FrameRegister]
  BY <1>8, <1>11, FunctionAssumption, RegisterFacts
<1>15. StackAt(sp, rest)'
  BY <1>7 DEF StackAt
<1>16. IF Left(n).code = "push_machine_frame" THEN rip_updated' = TRUE /\ rip' = ReturnAddress
       ELSE UNCHANGED <<rip, rip_updated>>
  BY <1>1, <1>4 DEF Saves
<1>17. phase' = "unwinding" /\ UNCHANGED function
  BY <1>1
<1> QED
  BY <1>1, <1>2, <1>3, <1>5, <1>13, <1>14, <1>15, <1>16, <1>17, StepUndoable

LEMMA UnwindMachineFrameUndoable ==
    ASSUME Inv, Types, Unwindable, UnwindMachineFrame
    PROVE  Unwindable'
<1>1. /\ phase = "unwinding" /\ i < Len(data) /\ Current.code = "push_machine_frame"
      /\ rip' = At(rsp + Current.info * 8) /\ rsp' = At(rsp + Current.info * 8 + 24)
      /\ rip_updated' = TRUE
      /\ NextCode /\ UNCHANGED <<regs, function, phase>>
  BY DEF UnwindMachineFrame, AtCode
<1>2. PICK n : n = Len(data) - i
  OBVIOUS
<1>3. PICK rest : rest = Rest(n)
  OBVIOUS
<1>4. n \in 1..Len(data) /\ Current = Left(n) /\ IsEntry(Left(n))
  BY <1>1, <1>2, ReadsCode
<1>5. PICK sp \in [Nat -> Int] : Undoable(sp)
  BY <1>1 DEF Unwindable
<1>6. Explains(sp, n) /\ EntryFrame(sp) /\ rsp = sp[n]
  BY <1>1, <1>2, <1>4, <1>5, StackKnown DEF Undoable, Explained
<1>7. n = 1 /\ sp[1] + 8 * Left(1).info = Bottom /\ At(Bottom + 24) = sp[0]
  BY <1>1, <1>4, <1>6 DEF Explains
<1>8. rest = 0
  <2>1. Operands(Left(n)) = 0
    BY <1>1, <1>4, OperandsOf
  <2> QED
    BY <1>3, <1>7, <2>1 DEF Rest
<1>9. rsp + Current.info * 8 = Bottom
  <2>1. Left(n).info \in Int /\ rsp \in Int
    BY <1>4, LeftType DEF Types
  <2> QED
    BY <1>4, <1>6, <1>7, <2>1
<1>10. rip' = ReturnAddress /\ rsp' = sp[rest]
  BY <1>1, <1>6, <1>7, <1>8, <1>9 DEF EntryFrame
<1>11. StackAt(sp, rest)'
  BY <1>10 DEF StackAt
<1>12. \A q \in NonVolatile : regs'[q] = InCaller(q) \/ (regs'[q] = regs[q] /\ ~RestoresAt(n, q))
  BY <1>1, <1>4 DEF RestoresAt, XmmSaves
<1>13. phase' = "unwinding" /\ UNCHANGED function /\ regs' = regs
  BY <1>1
<1>14. IF Left(n).code = "push_machine_frame" THEN rip_updated' = TRUE /\ rip' = ReturnAddress
       ELSE UNCHANGED <<rip, rip_updated>>
  BY <1>1, <1>4, <1>10
<1> QED
  BY <1>1, <1>2, <1>3, <1>5, <1>11, <1>12, <1>13, <1>14, StepUndoable

\* With no code left, the frame is the caller's.
LEMMA FinishIsCaller ==
    ASSUME Inv, Types, Unwindable, FinishUnwinding
    PROVE  UnwoundIsCaller'
<1>1. /\ phase = "unwinding" /\ i = Len(data)
      /\ rip' = IF rip_updated THEN rip ELSE At(rsp)
      /\ rsp' = IF rip_updated THEN rsp ELSE rsp + 8
      /\ UNCHANGED <<regs, entered>>
  BY DEF FinishUnwinding, function
<1>2. Len(data) - i = 0 /\ 1..0 = {}
  BY <1>1 DEF Inv
<1>3. PICK sp \in [Nat -> Int] : Undoable(sp)
  BY <1>1 DEF Unwindable
<1>4. EntryFrame(sp) /\ rsp = sp[0]
  BY <1>2, <1>3 DEF Undoable, Explained, StackAt
<1>5. /\ rip_updated <=> entered # "call"
      /\ rip_updated => rip = ReturnAddress
  BY <1>1 DEF Unwindable
<1>6. rsp' = IF entered' = "call" THEN Bottom + 8 ELSE Interrupted
  BY <1>1, <1>4, <1>5 DEF EntryFrame
<1>7. rip' = ReturnAddress
  BY <1>1, <1>4, <1>5 DEF EntryFrame
<1>8. \A r \in NonVolatile : regs'[r] = InCaller(r)
  BY <1>1, <1>2 DEF Unwindable, RegistersAt
<1> QED
  BY <1>6, <1>7, <1>8 DEF UnwoundIsCaller, CallerRsp

LEMMA NextUnwindable ==
    ASSUME SavesAreNear, Inv, Types, Justified, Unwindable, Untouched, UnwoundIsCaller, [Next]_vars
    PROVE  Unwindable' /\ Untouched' /\ UnwoundIsCaller'
<1>1. ASSUME phase' = "prologue", Unwindable' /\ Untouched' PROVE Unwindable' /\ Untouched' /\ UnwoundIsCaller'
  BY <1>1 DEF UnwoundIsCaller
<1>2. ASSUME phase' \in {"body", "unwinding"}, Unwindable' PROVE Unwindable' /\ Untouched' /\ UnwoundIsCaller'
  BY <1>2 DEF UnwoundIsCaller, Untouched
<1>3. CASE \E r \in Pushed : Push(r)
  BY <1>1, <1>3, PushUndoable DEF Push, Instruction
<1>4. ASSUME NEW n \in Allocs, Alloc(n) PROVE Unwindable' /\ Untouched' /\ UnwoundIsCaller'
  <2>1. PICK c : Instruction(c)
    BY <1>4 DEF Alloc
  <2>2. phase' = "prologue"
    BY <2>1 DEF Instruction
  <2> QED
    BY <1>1, <1>4, <2>2, AllocUndoable
<1>5. CASE \E d \in Displacements : SetFrame(d)
  BY <1>1, <1>5, SetFrameUndoable DEF SetFrame, Instruction
<1>6. ASSUME NEW s \in Saved, Save(s[1], s[2]) PROVE Unwindable' /\ Untouched' /\ UnwoundIsCaller'
  <2>1. PICK c : Instruction(c)
    BY <1>6 DEF Save
  <2>2. phase' = "prologue"
    BY <2>1 DEF Instruction
  <2> QED
    BY <1>1, <1>6, <2>2, SaveUndoable
<1>7. CASE \E b \in BOOLEAN : EnterBody(b)
  BY <1>2, <1>7, EnterBodyUndoable DEF EnterBody
<1>8. ASSUME UNCHANGED <<regs, rip, function, i, rip_updated>>, Unwindable,
             phase \in {"body", "unwinding"}, phase' \in {"body", "unwinding"},
             \A sp \in [Nat -> Int] : \A n : StackAt(sp, n) /\ Undoable(sp) /\ n = Len(data) => StackAt(sp, n)'
      PROVE  phase = "body" => Unwindable'
  <2> SUFFICES ASSUME phase = "body" PROVE Unwindable'
    OBVIOUS
  <2>1. UNCHANGED <<data, mem, entered, disp>>
    BY <1>8 DEF function
  <2>2. /\ \A sp : Explained(sp) => Explained(sp)'
        /\ InOrder => InOrder'
        /\ \A m, r : RestoresAt(m, r) => RestoresAt(m, r)'
        /\ \A m : SetsFrameAt(m)' => SetsFrameAt(m)
    BY <2>1, SameExplained
  <2>3. i = 0 /\ Len(data) - i = Len(data) /\ Len(data') - i' = Len(data)
    BY <1>8, <2>1 DEF Inv
  <2>4. PICK sp \in [Nat -> Int] : Undoable(sp)
    BY DEF Unwindable
  <2>5. PICK n : n = Len(data)
    OBVIOUS
  <2>6. StackAt(sp, n) /\ FrameAt(sp, n) /\ Explained(sp)
    BY <2>3, <2>4, <2>5 DEF Undoable
  <2>7. StackAt(sp, n)'
    BY <1>8, <2>4, <2>5, <2>6
  <2>8. FrameAt(sp, n)'
    BY <1>8, <2>1, <2>2, <2>6 DEF FrameAt
  <2>9. Undoable(sp)'
    <3>1. StackAt(sp, Len(data) - i)' /\ FrameAt(sp, Len(data) - i)'
      BY <2>3, <2>5, <2>7, <2>8 DEF StackAt, FrameAt
    <3> QED
      BY <1>8, <2>2, <2>6, <3>1 DEF Undoable
  <2>10. RegistersAt(Len(data) - i)'
    <3>1. RegistersAt(Len(data))
      BY <2>3 DEF Unwindable
    <3> QED
      BY <1>8, <2>2, <2>3, <3>1 DEF RegistersAt
  <2>11. InOrder'
    BY <2>2 DEF Unwindable
  <2> QED
    BY <1>8, <2>1, <2>4, <2>9, <2>10, <2>11 DEF Unwindable
<1>9. ASSUME NEW n \in DynamicAllocs, AllocDynamically(n)
      PROVE  Unwindable' /\ Untouched' /\ UnwoundIsCaller'
  <2>1. /\ phase = "body" /\ phase' = "body" /\ disp # -1 /\ ~Has(Saves)
        /\ UNCHANGED <<regs, rip, function, i, rip_updated>> /\ UNCHANGED data
    BY <1>9 DEF AllocDynamically, function
  <2>2. \E m \in 1..Len(data) : SetsFrameAt(m)
    BY <2>1, HasLeft DEF Justified, Framed, SetsFrameAt
  <2>3. \A sp \in [Nat -> Int] : \A m : m = Len(data) => StackAt(sp, m)'
    BY <2>1, <2>2 DEF StackAt, Has, SetsFrameAt, Left
  <2> QED
    BY <1>2, <1>8, <2>1, <2>3
<1>10. CASE StartUnwinding
  <2>1. /\ phase = "body" /\ phase' = "unwinding"
        /\ UNCHANGED <<regs, rip, function, i, rip_updated>> /\ UNCHANGED <<rsp, data>>
    BY <1>10 DEF StartUnwinding, function
  <2>2. \A sp \in [Nat -> Int] : \A m : StackAt(sp, m) => StackAt(sp, m)'
    BY <2>1 DEF StackAt, Has, SetsFrameAt, Left
  <2> QED
    BY <1>2, <1>8, <2>1, <2>2
<1>11. CASE UnwindPush
  BY <1>2, <1>11, UnwindPushUndoable DEF UnwindPush, AtCode, Restores
<1>12. CASE UnwindAlloc \/ UnwindSetFrame \/ SkipEpilog
  BY <1>2, <1>12, MovesUndoable DEF UnwindAlloc, UnwindSetFrame, SkipEpilog, AtCode, Moves
<1>13. CASE UnwindSave
  BY <1>2, <1>13, UnwindSaveUndoable DEF UnwindSave, AtCode, Restores
<1>14. CASE UnwindMachineFrame
  BY <1>2, <1>14, UnwindMachineFrameUndoable DEF UnwindMachineFrame, AtCode
<1>15. CASE FinishUnwinding
  <2>1. phase' = "unwound"
    BY <1>15 DEF FinishUnwinding
  <2> QED
    BY <1>15, <2>1, FinishIsCaller DEF Unwindable, Untouched
<1>16. CASE Corrupted
  BY <1>16 DEF Corrupted, Unwindable, Untouched, UnwoundIsCaller
<1>17. CASE UNCHANGED vars
  <2>1. UNCHANGED <<regs, rsp, rip, mem, entered, base, data, disp, phase, i, rip_updated>>
    BY <1>17 DEF vars
  <2>2. /\ \A sp : Explained(sp) => Explained(sp)'
        /\ InOrder => InOrder'
        /\ \A m, r : RestoresAt(m, r) => RestoresAt(m, r)'
        /\ \A m : SetsFrameAt(m)' => SetsFrameAt(m)
        /\ \A m : SetsFrameAt(m) => SetsFrameAt(m)'
        /\ \A codes : Has(codes)' => Has(codes)
    BY <2>1, SameExplained
  <2>3. \A sp : Undoable(sp) => Undoable(sp)'
    BY <2>1, <2>2 DEF Undoable, StackAt, FrameAt
  <2>4. Unwindable'
    BY <2>1, <2>2, <2>3 DEF Unwindable, RegistersAt
  <2>5. Untouched'
    BY <2>1 DEF Untouched, Has
  <2> QED
    BY <2>1, <2>4, <2>5 DEF UnwoundIsCaller, CallerRsp
<1> QED
  BY <1>3, <1>4, <1>5, <1>6, <1>7, <1>9, <1>10, <1>11, <1>12, <1>13, <1>14, <1>15, <1>16,
     <1>17 DEF Next, Finished

\* The registers after unwind are the caller's, for every prologue: whatever it
\* pushes, saves and allocates, with a frame pointer and dynamic allocations or
\* without, called or entered with a machine frame.  The one condition is about the
\* constants and not about the code that runs: general purpose registers are saved
\* near the stack pointer.  Run SaveFar shows that without it the property fails.
THEOREM UnwindsToCaller == ASSUME SavesAreNear PROVE Spec => []UnwoundIsCaller
<1> DEFINE I == Inv /\ Types /\ Justified /\ Unwindable /\ Untouched /\ UnwoundIsCaller
<1>1. Init => I
  BY InitInv, InitTypes, InitJustified, InitUnwindable DEF Init, UnwoundIsCaller
<1>2. I /\ [Next]_vars => I'
  BY NextInv, NextTypes, NextJustified, NextUnwindable
<1> QED
  BY <1>1, <1>2, PTL DEF Spec

=============================================================================
