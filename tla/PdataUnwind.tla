---------------------------- MODULE PdataUnwind ----------------------------
(***************************************************************************)
(* frame_walk_pdata_t::unwind (x64/unwind_handler.cpp): from the registers *)
(* in the body of a function, and the unwind codes the compiler emitted    *)
(* for its prologue, to the registers of its caller.                       *)
(*                                                                         *)
(* The first actions are a function: it is entered by a call or, like the  *)
(* runtime's own frames, with a machine frame; its prologue pushes and     *)
(* saves registers and allocates stack; its body overwrites the registers. *)
(* The unwinder then reads the codes, which are in the order opposite to   *)
(* the prologue's, and changes the same registers.                         *)
(*                                                                         *)
(* Addresses are in bytes; a register is saved at the address of its first *)
(* byte.  A slot is 16 bits: an entry (a code and its info) or an operand. *)
(***************************************************************************)
EXTENDS Integers, Sequences

CONSTANTS
    Pushed,          \* the registers a prologue may push
    Saved,           \* those it may save by mov: <<register, offset>>
    Allocs,          \* the sizes of a fixed allocation
    FrameRegister,   \* the register of a frame pointer
    Displacements,   \* frame_reg_disp: a frame pointer's, in units of 16 bytes
    DynamicAllocs,   \* how much a function with a frame pointer may allocate later
    MaxInstructions  \* bound: instructions in a prologue

\* The number of a register in an unwind code.
Number ==
    [rax |-> 0, rbx |-> 3, rbp |-> 5, rsi |-> 6, rdi |-> 7,
     r12 |-> 12, r13 |-> 13, r14 |-> 14, r15 |-> 15,
     xmm6 |-> 6, xmm7 |-> 7, xmm8 |-> 8, xmm9 |-> 9, xmm10 |-> 10,
     xmm11 |-> 11, xmm12 |-> 12, xmm13 |-> 13, xmm14 |-> 14, xmm15 |-> 15]

Register == DOMAIN Number

\* frame_walk_context_t
XmmFields == <<"xmm6", "xmm7", "xmm8", "xmm9", "xmm10", "xmm11", "xmm12", "xmm13", "xmm14", "xmm15">>
GpFields == <<"rbx", "rbp", "rsi", "rdi", "r12", "r13", "r14", "r15">>

Elements(s) == {s[k] : k \in DOMAIN s}
NonVolatile == Elements(XmmFields) \cup Elements(GpFields)

ASSUME FunctionAssumption ==
    /\ Pushed \subseteq Register \ Elements(XmmFields)
    /\ Saved \subseteq NonVolatile \X Nat
    /\ Allocs \subseteq Nat /\ DynamicAllocs \subseteq Nat
    /\ FrameRegister \in Elements(GpFields)
    /\ Displacements \subseteq 0..15
    /\ MaxInstructions \in Nat

\* Numbers of one slot, and of two.  Sizes and offsets are multiples of 8 bytes, and those of
\* xmm registers of 16, or no code could tell them.
HalfWord == {n \in Nat : n < 65536}
Word == {n \in Nat : n \div 65536 < 65536}

ASSUME SizesAssumption ==
    /\ \A n \in Allocs : n \in Word /\ n > 0 /\ n % 8 = 0
    /\ \A s \in Saved :
        /\ s[2] \in Word
        /\ IF s[1] \in Elements(XmmFields) THEN s[2] % 16 = 0 ELSE s[2] % 8 = 0

VARIABLES
    regs,     \* the registers: the function's, then those being unwound
    rsp, rip, \* mach_frame_t
    mem,      \* the stack, as far as it was written: address -> value
    entered,  \* how the function was entered
    base,     \* rsp at the end of the prologue, 0 before
    data,     \* the unwind codes; data[k + 1] is the code's data[k]
    disp,     \* frame_reg_disp; -1 when frame_reg is 0
    phase,    \* "prologue", "body", "unwinding", "unwound" or "bug_check"
    i, rip_updated

vars == <<regs, rsp, rip, mem, entered, base, data, disp, phase, i, rip_updated>>
function == <<mem, entered, base, data, disp>>

----------------------------------------------------------------------------
(* The function                                                            *)

\* What a register holds in the caller: any value that occurs once.
InCaller(r) == -Number[r] - (IF r \in Elements(XmmFields) THEN 100 ELSE 1)
ReturnAddress == -200
Body == -300       \* an address in the function
Overwritten == 0   \* what the body leaves in registers

Bottom == 3 * 1048576  \* where the frame of the caller ends
Interrupted == 2 * Bottom

CallerRsp == IF entered = "call" THEN Bottom + 8 ELSE Interrupted

Entry(code, info) == [code |-> code, info |-> info, at |-> Len(data)]
Operand(n) == [code |-> "operand", value |-> n]

Low(n) == Operand(n % 65536)
High(n) == Operand(n \div 65536)

Init ==
    /\ regs = [r \in Register |-> InCaller(r)]
    /\ rip = Body
    /\ base = 0 /\ disp = -1 /\ phase = "prologue" /\ i = 0 /\ rip_updated = FALSE
    /\ entered \in {"call", "machine_frame", "machine_frame_with_error_code"}
    /\ \/ /\ entered = "call"
          /\ rsp = Bottom
          /\ mem = [a \in {Bottom} |-> ReturnAddress]
          /\ data = <<>>
       \/ /\ entered # "call"
          /\ mem = [a \in {Bottom, Bottom + 24} |->
                        IF a = Bottom THEN ReturnAddress ELSE Interrupted]
          /\ LET info == IF entered = "machine_frame" THEN 0 ELSE 1
             IN  /\ rsp = Bottom - 8 * info
                 /\ data = <<[code |-> "push_machine_frame", info |-> info, at |-> 0]>>

\* The entries of an unwind information, without their operands.
Entries == SelectSeq(data, LAMBDA s : s.code # "operand")

Has(codes) == \E k \in DOMAIN data : data[k].code \in codes

Allocates == {"alloc_small", "alloc_large"}
Saves == {"save_nonvolatile_reg", "save_nonvolatile_reg_far", "save_xmm128", "save_xmm128_far"}

Instruction(code) ==
    /\ phase = "prologue" /\ Len(Entries) < MaxInstructions
    /\ data' = code \o data
    /\ UNCHANGED <<rip, entered, base, phase, i, rip_updated>>

Written(A, v) == [a \in DOMAIN mem \cup A |-> IF a \in A THEN v ELSE mem[a]]

IsPushed(r) ==
    r \notin Elements(XmmFields) /\ \E k \in DOMAIN data : data[k].code = "push_nonvolatile_reg" /\ data[k].info = Number[r]

Push(r) ==
    /\ ~Has(Allocates \cup Saves \cup {"set_frame_pointer"}) /\ ~IsPushed(r)
    /\ Instruction(<<Entry("push_nonvolatile_reg", Number[r])>>)
    /\ rsp' = rsp - 8
    /\ mem' = Written({rsp - 8}, regs[r])
    /\ UNCHANGED <<regs, disp>>

Alloc(n) ==
    /\ ~Has(Allocates \cup Saves \cup {"set_frame_pointer"})
    /\ Instruction(IF n <= 128 THEN <<Entry("alloc_small", n \div 8 - 1)>>
                   ELSE IF n \div 8 < 65536 THEN <<Entry("alloc_large", 0), Operand(n \div 8)>>
                   ELSE <<Entry("alloc_large", 1), Low(n), High(n)>>)
    /\ rsp' = rsp - n
    /\ UNCHANGED <<regs, mem, disp>>

SetFrame(d) ==
    /\ ~Has(Saves \cup {"set_frame_pointer"})
    /\ IsPushed(FrameRegister)
    /\ Instruction(<<Entry("set_frame_pointer", 0)>>)
    /\ disp' = d
    /\ regs' = [regs EXCEPT ![FrameRegister] = rsp + 16 * d]
    /\ UNCHANGED <<rsp, mem>>

\* The words in which r is saved at address a; the home area of a function that
\* was called, above its return address, is part of its frame.
Words(r, a) == IF r \in Elements(XmmFields) THEN {a, a + 8} ELSE {a}
FrameEnd == IF entered = "call" THEN Bottom + 40 ELSE Bottom

\* A register that was not pushed is stored where the frame has room.
Save(r, off) ==
    /\ regs[r] = InCaller(r) /\ r # FrameRegister
    /\ \A a \in Words(r, rsp + off) : a \notin DOMAIN mem /\ a < FrameEnd
    /\ Instruction(
        IF r \in Elements(XmmFields)
        THEN IF off \div 16 < 65536 THEN <<Entry("save_xmm128", Number[r]), Operand(off \div 16)>>
             ELSE <<Entry("save_xmm128_far", Number[r]), Low(off), High(off)>>
        ELSE IF off \div 8 < 65536 THEN <<Entry("save_nonvolatile_reg", Number[r]), Operand(off \div 8)>>
             ELSE <<Entry("save_nonvolatile_reg_far", Number[r]), Low(off), High(off)>>)
    /\ mem' = Written(Words(r, rsp + off), regs[r])
    /\ regs' = [regs EXCEPT ![r] = Overwritten]
    /\ UNCHANGED <<rsp, disp>>

\* The body, and the codes of its epilogues, which precede the others.
EnterBody(epilogues) ==
    /\ phase = "prologue"
    /\ phase' = "body"
    /\ base' = rsp
    /\ data' = IF epilogues THEN <<Entry("epilog", 0), Operand(0)>> \o data ELSE data
    /\ regs' = [r \in Register |->
                  IF r = FrameRegister /\ disp # -1 THEN regs[r]
                  ELSE IF IsPushed(r) \/ r \notin NonVolatile THEN Overwritten
                  ELSE regs[r]]
    /\ UNCHANGED <<rsp, rip, mem, entered, disp, i, rip_updated>>

\* With a frame pointer, the stack may grow.  Here only where the registers are
\* restored relative to a stack pointer that set_frame_pointer has corrected.
AllocDynamically(n) ==
    /\ phase = "body" /\ rsp = base
    /\ disp # -1 /\ ~Has(Saves)
    /\ rsp' = rsp - n
    /\ UNCHANGED <<regs, rip, function, phase, i, rip_updated>>

----------------------------------------------------------------------------
(* unwind                                                                  *)

\* The 16 bits of a slot that is read as a number.
CodeNumber ==
    [push_nonvolatile_reg |-> 0, alloc_large |-> 1, alloc_small |-> 2, set_frame_pointer |-> 3,
     save_nonvolatile_reg |-> 4, save_nonvolatile_reg_far |-> 5, epilog |-> 6,
     save_xmm128 |-> 8, save_xmm128_far |-> 9, push_machine_frame |-> 10]

AsNumber(s) ==
    IF s.code = "operand" THEN s.value ELSE s.at + 256 * (CodeNumber[s.code] + 16 * s.info)

Short(k) == AsNumber(data[k + 1])
Long(k) == Short(k) + 65536 * Short(k + 1)

At(a) == IF a \in DOMAIN mem THEN mem[a] ELSE Overwritten

\* Mutation: the table has no row for rbp.
GpIndexMutant(idx) == <<-1, -1, -1, 0, -1, -1, 1, 2, -1, -1, -1, -1, 3, 4, 5, 6>>[idx + 1]

\* frame_walk_context_t::gp, and _xmm
GpIndex(idx) == <<-1, -1, -1, 0, -1, 1, 2, 3, -1, -1, -1, -1, 4, 5, 6, 7>>[idx + 1]

Gp(idx) == GpFields[GpIndex(idx) + 1]
Xmm(idx) == XmmFields[idx - 6 + 1]

Current == data[i + 1]
AtCode(codes) == phase = "unwinding" /\ i < Len(data) /\ Current.code \in codes

\* Mutation: the size of an allocation always takes two slots.
TakesTwoMutant(s) == s.code \in {"save_nonvolatile_reg_far", "save_xmm128_far", "alloc_large"}

\* The entries that two slots follow, and those that one does.
TakesTwo(s) ==
    \/ s.code \in {"save_nonvolatile_reg_far", "save_xmm128_far"}
    \/ s.code = "alloc_large" /\ s.info # 0

TakesOne(s) ==
    \/ s.code \in {"save_nonvolatile_reg", "save_xmm128", "epilog"}
    \/ s.code = "alloc_large" /\ s.info = 0

\* Mutation: the next version's epilog codes, which take one slot.
OperandsMutant(s) == IF TakesTwo(s) THEN 2 ELSE IF TakesOne(s) /\ s.code # "epilog" THEN 1 ELSE 0

\* How many slots are skipped with an entry.
Operands(s) == IF TakesTwo(s) THEN 2 ELSE IF TakesOne(s) THEN 1 ELSE 0

NextCode == i' = i + 1 + Operands(Current)

Moves(to) ==
    /\ rsp' = to
    /\ NextCode
    /\ UNCHANGED <<regs, rip, function, phase, rip_updated>>

Restores(r, from) ==
    /\ regs' = [regs EXCEPT ![r] = At(from)]
    /\ NextCode
    /\ UNCHANGED <<rip, function, phase, rip_updated>>

\* _execute_handler, whose frame_ptr is FramePointer, then unwind.
StartUnwinding ==
    /\ phase = "body"
    /\ phase' = "unwinding"
    /\ UNCHANGED <<regs, rsp, rip, function, i, rip_updated>>

\* Mutation: the frame is where the stack pointer is.
FramePointerMutant == rsp

\* The frame_ptr a frame handler is called with.
FramePointer == IF disp # -1 THEN regs[FrameRegister] ELSE rsp

UnwindPush ==
    /\ AtCode({"push_nonvolatile_reg"})
    /\ GpIndex(Current.info) >= 0
    /\ Restores(Gp(Current.info), rsp)
    /\ rsp' = rsp + 8

\* gp refuses a register that is not preserved across calls.
Corrupted ==
    /\ AtCode({"push_nonvolatile_reg"})
    /\ GpIndex(Current.info) < 0
    /\ phase' = "bug_check"
    /\ UNCHANGED <<regs, rsp, rip, function, i, rip_updated>>

\* Mutation: the size is not biased.
AllocatedMutant ==
    IF Current.code = "alloc_small" THEN Current.info * 8
    ELSE IF Current.info = 0 THEN Short(i + 1) * 8
    ELSE Long(i + 1)

Allocated ==
    IF Current.code = "alloc_small" THEN Current.info * 8 + 8
    ELSE IF Current.info = 0 THEN Short(i + 1) * 8
    ELSE Long(i + 1)

UnwindAlloc == AtCode(Allocates) /\ Moves(rsp + Allocated)

UnwindSetFrame ==
    /\ AtCode({"set_frame_pointer"})
    /\ Moves(regs[Gp(Number[FrameRegister])] - disp * 16)

\* save_nonvolatile_reg_far reads its offset from the slot of the entry itself.
SaveOffset ==
    CASE Current.code = "save_nonvolatile_reg" -> Short(i + 1) * 8
      [] Current.code = "save_nonvolatile_reg_far" -> Long(i)
      [] Current.code = "save_xmm128" -> Short(i + 1) * 16
      [] OTHER -> Long(i + 1)

\* The registers that a prologue saves are nonvolatile ones (Saved), so gp and _xmm
\* do not give up here (unwind_handler.cpp:125-127, 134-135).
UnwindSave ==
    /\ AtCode(Saves)
    /\ Restores(IF Current.code \in {"save_xmm128", "save_xmm128_far"}
                THEN Xmm(Current.info) ELSE Gp(Current.info), rsp + SaveOffset)
    /\ UNCHANGED rsp

SkipEpilog == AtCode({"epilog"}) /\ Moves(rsp)

UnwindMachineFrame ==
    /\ AtCode({"push_machine_frame"})
    /\ LET frame == rsp + Current.info * 8
       IN  rip' = At(frame) /\ rsp' = At(frame + 24)
    /\ rip_updated' = TRUE
    /\ NextCode
    /\ UNCHANGED <<regs, function, phase>>

FinishUnwinding ==
    /\ phase = "unwinding" /\ i = Len(data)
    /\ phase' = "unwound"
    /\ rip' = IF rip_updated THEN rip ELSE At(rsp)
    /\ rsp' = IF rip_updated THEN rsp ELSE rsp + 8
    /\ UNCHANGED <<regs, function, i, rip_updated>>

Finished == phase \in {"unwound", "bug_check"} /\ UNCHANGED vars

Next ==
    \/ \E r \in Pushed : Push(r)
    \/ \E n \in Allocs : Alloc(n)
    \/ \E d \in Displacements : SetFrame(d)
    \/ \E s \in Saved : Save(s[1], s[2])
    \/ \E b \in BOOLEAN : EnterBody(b)
    \/ \E n \in DynamicAllocs : AllocDynamically(n)
    \/ StartUnwinding
    \/ UnwindPush
    \/ Corrupted
    \/ UnwindAlloc
    \/ UnwindSetFrame
    \/ UnwindSave
    \/ SkipEpilog
    \/ UnwindMachineFrame
    \/ FinishUnwinding
    \/ Finished

Spec == Init /\ [][Next]_vars

----------------------------------------------------------------------------
(* Properties                                                              *)

\* The state has the shape the declarations above give it.
TypeOK ==
    /\ regs \in [Register -> Int] /\ rsp \in Int /\ rip \in Int
    /\ \A a \in DOMAIN mem : a \in Int /\ mem[a] \in Int
    /\ \A k \in DOMAIN data :
        \/ data[k].code \in DOMAIN CodeNumber /\ data[k].info \in 0..15 /\ data[k].at \in Nat
        \/ data[k].code = "operand" /\ data[k].value \in HalfWord
    /\ base \in Int /\ disp \in -1..15 /\ i \in 0..Len(data)
    /\ phase \in {"prologue", "body", "unwinding", "unwound", "bug_check"}
    /\ rip_updated \in BOOLEAN

\* The operands of a code are never taken for codes, whatever the codes before
\* them: the loop steps from entry to entry and ends exactly at the last slot.
ReadsEntries ==
    phase = "unwinding" => i <= Len(data) /\ (i < Len(data) => Current.code # "operand")

\* The walk goes on in the caller of the frame it left: unwinding puts back the
\* stack pointer, the return address and every register a function preserves,
\* wherever and in whatever encoding the prologue saved it.
UnwoundIsCaller ==
    phase = "unwound" =>
        /\ rsp = CallerRsp /\ rip = ReturnAddress
        /\ \A r \in NonVolatile : regs[r] = InCaller(r)

\* While the function runs, however much it allocates dynamically, the frame
\* pointer its frame handler would get (throw.cpp:135-136) is at the distance
\* from the fixed part of the frame that the unwind information records.
HandlerGetsFrame ==
    phase = "body" => FramePointer = base + IF disp # -1 THEN 16 * disp ELSE 0

\* The unwinder gives up only on a register that functions do not preserve.
StopIsJustified == phase = "bug_check" => \E r \in Pushed \ NonVolatile : IsPushed(r)

=============================================================================
