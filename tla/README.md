# Formal verification of vcrtl

vcrtl is a C++ runtime for Windows kernel drivers: it implements `throw`,
`catch` and stack unwinding for code compiled by MSVC, on x64 and on x86,
without the system's two-phase SEH machinery and without thread-local storage.
An exception is thrown by a call of `_CxxThrowException`, which walks the
stack, asks the frame handler of each function on the way what to do, unwinds
frames as it goes, and in the end becomes the frame under the catch handler it
calls. Everything it knows about exceptions in progress is in stack frames.

This directory holds TLA+ models of that code, their TLC configurations, and
proofs checked by TLAPS. Paths below are relative to the repository's `src/`.

## Inventory

The program is sequential: one thread, no locks, no I/O, nothing persistent.
What makes it hard is re-entrancy. The dispatcher calls user code (copy
constructors of catch variables, cleanups, exception destructors, catch
funclets), and that code calls, throws, catches and rethrows in turn, on top of
frames the dispatcher is in the middle of unwinding.

| Part | State it keeps | Operations | Interacts with |
|---|---|---|---|
| x64 dispatcher, `x64/throw.cpp`, `x64/throw.h` | `cxx_throw_frame_t`: captured context (`ctx`, `mach`), `cxx_catch_info_t` | `__cxx_dispatch_exception`, `_execute_handler`, `probe_for_exception_object`, `process_catch_block`, `__cxx_destroy_exception` | calls frame handlers and the unwinder; called by `capture.asm` |
| throw and catch frames, `x64/capture.asm` | the frame of `_CxxThrowException`, which shrinks to a catch frame and then to a destroying frame | `_CxxThrowException`, `__cxx_eh_apply_context`, `__cxx_call_catch_handler`, `__cxx_call_exception_destructor`, `__cxx_continue_after_exception` | calls the dispatcher and catch funclets |
| frame handlers of those frames, `x64/throw.cpp:200-267` | none of their own | `__cxx_call_catch_frame_handler`, `__cxx_seh_frame_handler` | hand catch info from frame to frame |
| x64 FH3 handler, `x64/fh3.cpp` | `fh3_fn_ctx_t` in the catch info | `_frame_handler` behind `__CxxFrameHandler3`, `__GSHandlerCheck_EH` | reads tables of `x64/eh_structs_x64.h`; calls `process_catch_block`, the probe, cleanups |
| x64 FH4 handler, `x64/fh4.cpp` | one state number in the catch info | the same, over compressed tables | the same |
| PE unwinder, `x64/unwind_handler.cpp` | none: it updates the captured context | `find_function_entry`, `unwind`, header checks | called by the dispatcher |
| x86 dispatcher and FH3, `x86/throw_x86.cpp` | `cxx_throw_frame_t`, `fh3_frame_t::state`, the `fs:[0]` chain | dispatch, probe, frame handlers, `_unwind_frame` | called by `x86/fh3_x86.asm`; calls funclets, copy constructors, destructors |
| x86 throw and catch frames, `x86/fh3_x86.asm` | the frame of `_CxxThrowException`, its registrations | throwing, calling funclets and handlers, destroying the exception, resuming | calls the x86 dispatcher |
| x86 prologs, `x86/eh_helpers.asm` | registers and a frame | the helpers compiled code calls to set up and remove frames | none |
| helpers: `rva.h`, `flags.h`, `algorithm.h`, `ptr_to_member.h`, `utils.h` | none | address arithmetic, `binary_search`, pointer-to-member adjustment | used throughout |
| `assert.cpp`, `bugcheck.h`, `runtime.cpp`, `type_info.*` | none | `verify`, `on_bug_check` | halts the machine |
| language headers, build files, test driver | none | | |

What makes each of them correct:

- **Exceptions** (dispatcher, frames): an exception object is destroyed exactly
  once, when the last flight or handler about it is over, however often it has
  been rethrown; the links between frames lead to a live owner; its storage
  lies in a part of the stack that is kept.
- **Frames**: a frame is unwound once; what is cached about a function is used
  for the same activation of it, and is true of it.
- **Frame handlers**: the innermost enclosing handler that accepts the type
  is chosen, among those of the funclet that throws and the enclosing ones;
  every object is destroyed exactly when control leaves its scope.
- **Dispatch** ends: in a handler, or in a bug check, and in a bug check only
  for a documented reason.
- **Unwinder and tables**: an unwind restores the caller's context; lookups
  find the entry that covers the address.

The hazards, each with the line where it bites, are listed in `PROJECT.json`.

## Modules

| Module | Models |
|---|---|
| `EhTables` | the read-only tables of a function and of a thrown type, and `process_catch_block`'s decision |
| `ThrowX64` | `x64/throw.cpp`, `x64/throw.h`, `x64/capture.asm` and `x64/fh3.cpp` walking one stack, with the program on it; extends `EhTables` |
| `ThrowX86` | `x86/throw_x86.cpp` and `x86/fh3_x86.asm` with a program on one stack; extends `EhTables` |
| `ExceptionLifetime` | the abstract specification of exception objects: what both runtimes promise |
| `Programs` | small functions as tables, for both runtimes |
| `MCThrowX64`, `MCThrowX86` | who calls, throws and rethrows what; extend `Programs` |
| `Fh4Frame` | `x64/fh4.cpp` for one activation of a function; extends `EhTables` and `Fh4Encoding` |
| `Fh4Encoding` | `read_unsigned`, fh4.cpp:42-63, and what it reads |
| `RegionLookup` | the lookup of a frame's state, fh3.cpp:43-55 and fh4.cpp:123-144 |
| `FunctionTable` | `find_function_entry`, `x64/unwind_handler.cpp:69-95` |
| `PdataUnwind` | `unwind`, `x64/unwind_handler.cpp:118-213`, on the prologues that compilers emit |
| `MCFh4Frame`, `MCRegionLookup`, `MCFunctionTable`, `MCPdataUnwind` | instances for TLC: three functions and the bytes of their graphs, every small table, places to save registers in |
| `EhTablesProofs` | lemmas about `EhTables`, for both dispatchers and the frame handlers |
| `ThrowX64Proofs`, `ThrowX86Proofs`, `RegionLookupProofs`, `FunctionTableProofs`, `Fh4FrameProofs`, `PdataUnwindProofs` | theorems and proofs about the modules they are named after; `ThrowX64Proofs` ends with those about `ExceptionLifetime` |
| `ThrowX86SearchProofs` | more theorems about `ThrowX86`, on top of `ThrowX86Proofs`: why the machine stops, which handler is chosen, which exceptions are alive, and that it implements `ExceptionLifetime` |

### ThrowX64: state and steps

The stack is an array of slots, oldest first; addresses grow the other way.
`frame[k]` is a *code frame* (a funclet of a function: its EH state, its block,
the primary frame that holds its variables), a *runtime frame*, or free. One
runtime frame goes through three lives in place, as the code's frame does:
`throw` (`_CxxThrowException` with `__cxx_dispatch_exception` above it),
`catch` (`__cxx_call_catch_handler`) and `destroy`
(`__cxx_call_exception_destructor`). Its `mach` is the slot its captured machine
context has been unwound to, and its `ci` is the `cxx_catch_info_t`, field by
field. `exc[k]` says that a live exception object of that type is in slot k,
`objects` holds the live automatic objects that have cleanups.

A step of the model ends where the code calls out to user code or takes up the
next frame:

| Action | Code |
|---|---|
| `Throw`, `Rethrow` | `_CxxThrowException` up to the loop of `__cxx_dispatch_exception` |
| `VisitCatching`, `VisitPassing`, `VisitVerifyFails` | `_frame_handler`, fh3.cpp:28-155, with `process_catch_block` |
| `ProbeForObject`, `ProbeFails` | `probe_for_exception_object`, the walk and the catch frame's answer |
| `UnwindEdge`, `CalloutReturns` | the loop at fh3.cpp:158-168, one edge per step |
| `UnwindFrame` | `pdata.unwind` after a handler that found nothing |
| `TakeFromCatchFrame`, `DestroyAtCatchFrame`, `PassCatchFrame` | `__cxx_call_catch_frame_handler` when unwinding |
| `VisitForeignFrame` | `__cxx_seh_frame_handler` under the verify of `_execute_handler` |
| `CallHandler` | `capture.asm` from the dispatcher's return to the call of the funclet |
| `CatchReturn`, `ContinueAfterException` | from the funclet's return to `iretq` |
| `Call`, `Enter`, `Leave`, `Return` | compiled code, as far as its tables describe it |

While a copy constructor, a cleanup or a destructor runs, the runtime frame
stands in pc `copy`, `cleanup` or `destroy` and user code may run above it.

What is abstracted: values of variables and registers, the text of type
descriptors, pointer adjustment, the map from instruction addresses to states
(a code frame carries its state), NLG notifications, and the bytes of frames:
frame addresses keep only their order. The tables are assumed to be what a
compiler emits (`EhAssumption`, `WellFormedAssumption`): edges lead down, try
blocks nest or are disjoint and are sorted with inner before outer, blocks of a
handler after the block the handler belongs to. Edges leave a try statement
through its first state, as they do a handler, which has no other way back into
its try; those two states are the compiler's own and have no cleanup.

Cleanups of catch funclets are assumed to reach their object although they are
called with the funclet's frame pointer (see Divergences). `CopyCalls` and
`DestructorCalls` say which functions copy constructors, and cleanups and
destructors, are or call: the runtime calls nothing else.

### ThrowX86: state and steps

The stack is an array of slots as in `ThrowX64`. What differs follows the code:

- `head` is `fs:[0]`, and each registered frame has the `next` of its
  registration. A function registers itself; its catch funclets register
  nothing and share its frame, so a `funclet` slot only names its try block.
  The catch frame registers on their behalf. `_fh3_handler` and
  `__cxx_destroy_throw_frame` are `noexcept` and register while they call user
  code: the *boundary*, kept in the slot of the runtime frame they work for.
- The EH state of a function is in its frame (`state`), where the body, the
  unwinding (`UnwindEdge`) and the code after a handler write it. x64 tells it
  from an instruction address and what is cached in `cxx_catch_info_t`.
- One pass over the chain searches and unwinds. `tf` is `cxx_throw_frame_t`,
  field by field; `entry`, `target`, `block` and `clause` are the variables of
  the `_fh3_handler` call in progress.
- An exception that leaves a handler is told from another by its link
  (`IsRethrow`), and ownership moves in two places: before the search
  (`VisitCatchFrame`, throw_x86.cpp:332-336) and after it
  (`TakeFromCatchFrame`, throw_x86.cpp:347-351).
- `halted` also says how: `"fault"` is a read through a null throw info.

| Action | Code |
|---|---|
| `Throw`, `Rethrow` | fh3_x86.asm:95-119 |
| `RejectTable` | the checks of a function's table: `magic` (throw_x86.cpp:291-292) for its registration, `es_types` (166-167) for it and for its handlers' |
| `VisitFunction`, `VisitCatchFrame`, `VisitForeign` | the registration's handler up to `_fh3_handler`, with the verify of `_seh_verifier` |
| `ProbeForObject`, `SearchFails` | `_probe_for_exception_object`; no catch frame, or a null throw info |
| `SelectHandler`, `SelectNothing` | throw_x86.cpp:175-218, the search |
| `UnwindEdge`, `CleanupReturns` | `_unwind_frame`, one edge per step |
| `BindCatchVariable`, `CopyReturns` | throw_x86.cpp:221-257 |
| `NoexceptViolation`, `PassFunction` | throw_x86.cpp:266-273, and on to the next registration |
| `TakeFromCatchFrame`, `AbandonException`, `PassCatchFrame` | throw_x86.cpp:345-358 |
| `CallHandler`, `CatchReturn`, `ContinueAfterException` | fh3_x86.asm:121-158 |

Abstracted as in `ThrowX64`; besides, `__cxx_call_funclet`'s registers and the
SafeSEH table, in which every handler of a well-formed image is found.

### Fh4Frame: state and steps

The model is one activation of a function compiled for FH4. `state` is the
state its rip is in, `live` the states whose objects are alive, `cached` what
`catch_info.unwind_context` hands on from the frame's own catch handler, and
`p` and `last` are the pointers `p` and `target_edge_last`.

| Action | Code |
|---|---|
| `Arrive`, `ArriveFromHandler` (by `Visit`) | `_frame_handler`, fh4.cpp:208-313: the state, the handler chosen |
| `SkipEdge`, `FindEdge` | one round of the loop at fh4.cpp:314-319; its end, and lines 321-322 |
| `UnwindEdge` | one round of the loop at fh4.cpp:324-363 |
| `Enter`, `Leave`, `HandlerReturns` | compiled code, as far as its tables describe it |

The unwind graph is the bytes the code reads. `AfterEdge` and `TargetOffset`
decode an entry with `Fh4Encoding`'s `ReadUnsigned`, which loads four bytes that
END with the number, as the code does, so bytes of the previous datum are part
of the word. The constants `EntryAt` and `Edge` say where each entry begins and
what it holds, for the properties and for which object an entry destroys;
`EncodingAssumption` says that the bytes are their encoding, entry after entry.
The handler finds its way by the bytes alone. The rest of the tables enters decoded, from `EhTables`. Catch funclets are seen
from outside, so the frame handler's calls for them are left out; so are the
probe of a rethrow and the copies of catch variables, which `ThrowX64` models
for the code both handlers share. `is_noexcept` is left out as the code leaves
it out.

### PdataUnwind: state and steps

`regs`, `rsp` and `rip` are the registers, the function's first and then, from
the same values, the unwinder's `frame_walk_context_t` and `mach_frame_t`. The
actions `Push`, `Alloc`, `SetFrame` and `Save` are instructions of a prologue,
each of which puts its unwind code in front of the others, in the encoding that
its operand calls for. `EnterBody` overwrites what a body may overwrite, and
`AllocDynamically` is `alloca`. Then the unwinder reads the slots:

| Action | Code |
|---|---|
| `StartUnwinding`, `FramePointer` | the dispatcher's calls, throw.cpp:135-136 and 166-172 |
| `UnwindPush`, `Corrupted` | unwind_handler.cpp:148-151, with the verdict of `gp` |
| `UnwindAlloc` | 153-167 |
| `UnwindSetFrame` | 169-171 |
| `UnwindSave` | 173-180 and 190-197 |
| `SkipEpilog`, `UnwindMachineFrame` | 182-184, 199-204 |
| `FinishUnwinding` | 208-212 |

A slot is an entry or an operand; read as a number, an entry is the 16 bits its
fields make, which is what `save_nonvolatile_reg_far` does (`SaveOffset`). An
xmm register takes two words of the stack. Not modelled: code 7, which nothing
emits; the 8-bit count of slots; chained unwind information and instructions in
the middle of a prologue, which the code does not look at either: `prolog_offset` is never
read, and the model stops in the body only.

### RegionLookup and FunctionTable

Both are loops over a read-only table, one step per round, with the table and
the address chosen at the start. Entries have the code's numbers in
`FunctionTable`; `RegionLookup` shows one abstract table to both handlers, to
FH3 as it is and to FH4 as distances and states plus one. An FH3 table is taken
to have a region at the start of its function, because fh3.cpp:47 reads the
last entry without asking whether there is one.

### ExceptionLifetime

The abstract state is the set of live exceptions and the stack of activities:
a flight, a handler being executed, a handler that is leaving. An exception
dies at the step that ends the last activity about it. `ImplementsLifetime` maps
each runtime frame to an activity and follows its links to the exception it
is about; slots with an exception are the live ones. `ThrowX86` implements the
same specification by the same mapping, although it moves ownership elsewhere, as
long as the program stays clear of three situations (see `RefinesLifetime` of
`ThrowX86SearchProofs` below).

## What TLC checks

| Run | Bounds | Shows |
|---|---|---|
| `ThrowX64` | 7 slots; functions `nested`, `quiet`, `silent` and `loud`; two types | `TypeOK`, `StackShape`, `OneOwner`, `LinksReachOwner`, `HandlersShareFrame`, `CleanupsExact`, `DestroyedOnce`, `AliveIffReferred`, `HandlerIsInnermost`, `BugCheckIsJustified`, `ImplementsLifetime` |
| `Rethrows` | 10 slots; functions `nested` and `retry`; `FairSpec` | `BugCheckIsJustified`, `ImplementsLifetime` and `DispatchEnds` under deep nesting of handlers |
| `ThrowX86` | 12 slots; functions `nested`, `quiet`, `classify`, `retry`, `again`, `silent`, `loud`, `declared`, `corrupt`; two types; `FairSpec` | `TypeOK`, `ChainIsTheStack`, `OneOwner`, `CleanupsExact`, `DestructionOrder`, `HandlerIsInnermost`, `StopIsJustified`, `ImplementsLifetime`, `DispatchEnds` |
| `Fh4Frame` | functions `guarded` and `twice`, two types; `FairSpec` | `TypeOK`, `LiveIsOwed`, `NothingLeftBehind`, `InnermostCatches`, `UnwindingEnds` |
| `PdataUnwind` | prologues of up to 6 instructions | `TypeOK`, `ReadsEntries`, `UnwoundIsCaller`, `HandlerGetsFrame`, `StopIsJustified` |
| `RegionLookup` | up to 3 regions in 4 addresses | `TypeOK`, `FindsTheState`, `Passed` |
| `FunctionTable` | up to 4 functions in 5 addresses | `TypeOK`, `FindsTheFunction`, `Excluded`, `Halves` |
| `Fh4Outermost` | function `plain` | counterexample to `NothingLeftBehind` |
| `SiblingScopes` | 5 slots; function `siblings` | counterexample to `DestroyedOnce` |
| `CopyConstructor` | 6 slots; functions `nested`, `quiet` and `loud` | counterexample to `BugCheckIsJustified` |
| `FilteredX86` | 6 slots; functions `nested` and `filter` | counterexample to `UsesLiveException` |
| `SaveFar` | as `PdataUnwind`, and a register saved far up | counterexample to `UnwoundIsCaller` |

The functions are given in `Programs` as C++ with their states. `nested` has
a try block in a try block and another in the inner handler, with an object at
each level; `quiet` is `noexcept` and catches by value; `retry` and `again` catch
everything; `classify` and `filter` rethrow in a try statement for one type;
`siblings` has a try statement after a scope that has ended.
`declared` has an exception specification and `corrupt` a table of a format
that the runtime does not know; either stops an x86 dispatch that comes to it. A
throw takes a slot and its handler another, so 7 slots hold a handler within a
handler with a callout above. In `Rethrows`, 10 slots hold up to four handlers within each other,
where links need to reach over owners that are not the nearest frame, and a
rethrow in `retry` may run before anything has looked for the exception. On x86
12 slots hold the same with the callouts.
Types: `A` has a destructor and a copy constructor, `B` neither, and `A` for a
base, so all three outcomes of `process_catch_block` occur.

Two functions are called by callouts only: `silent`, with the table of `quiet`,
catches what it throws itself or stops the machine, `loud` lets its exception
out. The copy constructors of the passing runs call `silent`; what happens when
one calls `loud` is the run `CopyConstructor`. Cleanups call both, so exceptions
that leave them stop the machine in these runs. So do the destructors of
exceptions on x64; on x86 they call `silent`, as that runtime goes wrong before it stops
when an exception leaves one (throw_x86.cpp:355, see Divergences). No callout of
these runs rethrows, and in `Rethrows` they call nothing.

The x86 program of the passing run rethrows where that runtime keeps track of
exceptions: in the handler that was called with the exception, in a function
that takes what it rethrows, and in one that has rethrown and caught before.
`MCThrowX86` says in which states. The code is wrong outside that fragment:
`FilteredX86` leaves it in one way, and two more are under Divergences.

The tables of the passing x64 runs satisfy `CleanTryEntry` (asserted in
`MCThrowX64` and `MCFh4Frame`): the number before a try block belongs to the same scope as its
outer state. The run `SiblingScopes` shows what happens otherwise. x86 needs no
such assumption: `_unwind_frame` takes `try_low - 1` for a bound only, and the
edges it follows lead to the outer state.

In `MCFh4Frame`, `guarded` has three try blocks in one another with objects at
each level and an ended scope between them, so that the walk skips entries and
stops in the middle of the graph; `twice` has consecutive and nested try
statements, the inner ones catching the type the outer ones catch. Objects have
entries of each of the three types, so entries are one to eight bytes long and
their numbers take one and two bytes. State 0 has no cleanup in these tables: `Fh4Outermost` shows what happens when
it has. Three regions and four functions give tables in which an address lies
before, in, between and after the entries, and in which the binary search takes
each turn after each other; the proofs cover all lengths.

In `PdataUnwind`, six instructions are enough for each kind of code after each
other one: two pushes, the frame pointer, an allocation and two saves. The three
sizes need the three encodings of an allocation, the offsets of saves both of an
xmm register's and the near one of a general register; displacements of the
frame pointer are none and two, frames are entered by a call and with a machine
frame, with and without an error code. `rax` is pushed, too, which no unwind
information may say of a register that functions do not preserve: the unwinder
must give up.

Deadlock is switched off where the modelled call returns: a function that has
been left, a finished lookup. It is checked in every other run: a
halted machine or an unwound frame is the only state without progress, and stutters explicitly.

**Fairness.** `FairSpec` is weak fairness of the runtime's own steps: the
dispatcher runs on the thread that threw and nothing preempts it for ever.
`CalloutReturns` (on x86 `CleanupReturns` and `CopyReturns`) is among those steps, which assumes that the copy constructors
and destructors it calls return. In `Rethrows` they call nothing. In `ThrowX86`
they do, and since user code gets no fairness and may run for ever, `DispatchEnds` of `ThrowX86` says
that a dispatch ends, or stops, or is in a callout again and again: the runtime
by itself does not loop. `FairSpec` of `Fh4Frame`
is weak fairness of the two walks, under the same assumption that the
destructors they call return.

**Mutants.** Each property of a passing run is broken by a plausible bug in one
definition (for instance: the catch frame hands its exception to whoever flies
past; a rethrow links to the nearest catch frame, owner or not; the state is
always taken from the stale rip; the unwinder skips the wrong number of slots). They are the definitions named `...Mutant`,
`TakesExceptionAlways`, `TakesExceptionUnprobed` and `TargetOffByOne`.

### Findings

1. **Double destruction (`SiblingScopes`).** fh3.cpp:136 and 142 take
   `try_low - 1` for the state outside the try statement. The number before may
   belong to a sibling scope that has ended; if the handler is left by another
   exception, that scope's cleanup runs again.
2. **Copy constructor (`CopyConstructor`).** A copy constructor of a catch
   variable that throws stops the machine: throw.cpp:98 calls it under the
   dispatcher's own frame, which answers `continue_search`. On x86 likewise:
   throw_x86.cpp:256 calls it inside a `noexcept` function. `x64/README.md:165-167`
   and fh3_x86.asm:113-115 say that the exception propagates.
3. **Outermost cleanup (`Fh4Outermost`).** fh4.cpp:317 stops the walk at the end
   of the entry of state `target_state + 1`. For a try block that state has no
   cleanup; when the whole frame is unwound it is state 0, whose object is not
   destroyed unless the exception arrives in state 0 itself.
4. **Destroyed in flight (`FilteredX86`).** When a rethrow reaches the catch
   frame it is linked to, throw_x86.cpp:332-336 makes it an owner before the
   search, and the catch frame stays one. If the search finds nothing,
   throw_x86.cpp:347 no longer recognises the exception and destroys it as
   another one, while it flies on. `catch (A &) { g(); }` where `g` is
   `try { throw; } catch (B &) { }` is enough.
5. **Far saves (`SaveFar`).** unwind_handler.cpp:178 reads the offset of
   `save_nonvolatile_reg_far` from the slot of the code itself.

### Divergences without a run

Read in the code while it was modelled; the models follow the code.

- fh3.cpp:166 calls a catch funclet's cleanups with the funclet's own frame
  pointer, where `x64/README.md:75-79` puts all variables into the primary
  funclet's frame.
- On x86, a rethrow links to the nearest catch frame whether or not it owns an
  exception (throw_x86.cpp:323-327), and one link is followed; an exception
  rethrown and caught in its own handler, and rethrown again by a function
  called from there, is looked up through null. With the function `twice` of
  `Programs` as `Main` and `classify` beside it, `ThrowX86.cfg` violates
  `StopIsJustified`.
- On x86, the search of a catch frame ends at the first block of the table
  that begins at or below the unwound state (throw_x86.cpp:178), which may be
  an earlier, finished try statement. With `two` as `Main`,
  `HandlerIsInnermost` is violated.
- On x86, `noexcept` is enforced only for an exception that arrives in state -1
  (throw_x86.cpp:266); FH4 does not enforce it at all (fh4.cpp:306).
- On x86, a destructor of an abandoned exception that throws is called again by
  the second dispatch (throw_x86.cpp:355), as its catch frame is still the head
  of the chain.
- A `throw;` in a destructor or a copy constructor that a dispatch calls finds, on
  x86, the exception of a handler below that dispatch (throw_x86.cpp:119-127); on
  x64 the probe does not go past the dispatcher's frame and the machine stops.
- A base class that is not at the start of the thrown object is adjusted for
  only when pointers and bitwise copies are caught, not for references and copy
  constructors (throw.cpp:66 and 92-98, throw_x86.cpp:221-256).
- A frame handler gets the frame register itself (throw.cpp:135-136), without
  the displacement that unwinding subtracts (unwind_handler.cpp:170).
- Registers saved after the frame pointer is set are restored relative to the
  body's stack pointer (unwind_handler.cpp:174 and 191), which `alloca` has moved.
  `AllocDynamically` excludes the case by `~Has(Saves)`.

## What is proved

The theorems hold for every value of the constants that satisfies the named
assumptions: every program, every table, every depth of stack. A theorem that
needs more says so in its `ASSUME`, and a run shows what happens without.

| Theorem | States | Condition beyond the assumptions |
|---|---|---|
| `ThrowX64Proofs!TypeCorrect`, `StackShapeHolds` | `TypeOK`, `StackShape` | |
| `OwnershipHolds`, `LinksHold` | `OneOwner`, `LinksReachOwner` | |
| `HandlersShare` | `HandlersShareFrame` | |
| `InnermostHandlerRuns` | `HandlerIsInnermost` | |
| `HaltsForCause` | every halt has one of six reasons (`HaltReason`) | |
| `HaltsAsDocumented` | `BugCheckIsJustified` | `Behaves(Q)`: callouts call only functions in `Q`, which do not rethrow, copy constructors only `noexcept` ones; without it: `CopyConstructor` |
| `ExceptionsLiveWhileReferred` | `AliveIffReferred` | |
| `RefinesLifetime` | `ImplementsLifetime` | |
| `CleanupsAreExact`, `NothingDestroyedTwice` | `CleanupsExact`, `DestroyedOnce` | `CleanTryEntries`; without it: `SiblingScopes` |
| `ThrowX86Proofs!TypeCorrect`, `ChainHolds` | `TypeOK`, `ChainIsTheStack` | |
| `CleanupsAreExact`, `HandlersAreLeftInOrder` | `CleanupsExact`, `DestructionOrder` | |
| `OwnersAreUnique` | `OneOwner` | `OwnershipRespected`; without it: `FilteredX86` |
| `ThrowX86SearchProofs!StopsForCause` | every stop has one of eight reasons (`StopReason`) | |
| `HandlersAreNoFunctions` | one of these, `LeavesHandlerAgain`, does not occur | never `DestructorEscapes` |
| `InnermostHandlerRuns` | `HandlerIsInnermost` | `NoEarlierTry`, `OwnershipRespected`, never `CatchesNothing` |
| `ReferencesAreLive` | `UsesLiveException` | `OwnershipRespected`; without it: `FilteredX86` |
| `RefinesLifetime` | `ImplementsLifetime` | `OwnershipRespected`, never `CatchesNothing`, never `FindsOther` |
| `Fh4FrameProofs!TypeCorrect`, `AlwaysInnermost` | `TypeOK`, `InnermostCatches` | |
| `LiveAlwaysOwed` | `LiveIsOwed` | `CleanTryEntry` of every function |
| `NeverLeavesBehind` | `NothingLeftBehind` | the same, and no cleanup in state 0; without it: `Fh4Outermost` |
| `ReadsWhatWasWritten` | `read_unsigned` decodes what was encoded | |
| `PdataUnwindProofs!TypeCorrect`, `ReadsAsWritten`, `FrameHandedOver`, `StopsAreJustified` | `TypeOK`, `ReadsEntries`, `HandlerGetsFrame`, `StopIsJustified` | |
| `UnwindsToCaller` | `UnwoundIsCaller` | `SavesAreNear`; without it: `SaveFar` |
| `FunctionTableProofs!TypeCorrect`, `SearchIsCorrect`, `SearchExcludes`, `SearchHalves` | `TypeOK`, `FindsTheFunction`, `Excluded`, `Halves` | |
| `RegionLookupProofs!TypeCorrect`, `LookupIsCorrect`, `LoopInvariantHolds` | `TypeOK`, `FindsTheState`, `Passed` | |
| `ThrowX64Proofs!AliveWhileReferred` | `AliveIffReferred` of `ExceptionLifetime`, whatever its exceptions | |

### ThrowX64

**The stack.** `TypeOK` is not inductive: a step of the dispatcher indexes the tables of a
function by states and handlers it has read or cached earlier, so it must be
known that they belong to that function. `StackShape` says so, and says why:
between a runtime frame and the frame it has unwound to there is nothing, a
funclet stands on its catch frame, and what a dispatch carries is either stale
(it is about a frame above, `IsFresh`) or about the activation it visits. The
two together, `Inv`, are inductive, one lemma per action. Steps of user code change
the stack at its top; steps of the dispatcher change its own frame and the one
it is at; `KeptBelow` and `ChangeInv` say once that frames below the change
keep their shape, because nothing refers upwards.

**Owners.** Neither `OneOwner` nor `LinksReachOwner` is inductive. A dispatch
that has chosen a handler could be about no
exception, and the catch frame it becomes would then own and link to nothing;
and a dispatch could destroy the very exception its link leads to. `Resolved`
excludes both: a handler is chosen by the type of an exception, which
`InfoMeansObject` turns into an exception, and a catch frame's exception is
destroyed only under a dispatch that neither searches nor links to that frame
(`TakesException`, throw.cpp:248-256). `OwnInv` is the two properties
and `Resolved`; with the stack shape it is inductive. The argument for each
step is about who may refer to the frame that goes: links lead down the stack
(`LinksLeadDown`) and nothing stands between a dispatch and the frame it is at
(`RuntimeRefers`), so only the dispatch itself can. Steps fall in four
classes, each with a lemma that does the work: those about the same exception
(`KeepOwn`, `StepOwn`), those that push a dispatch (`PushOwn`), those that end
an owner (`RemoveOwn`), and the one that moves an owner
(`TakeFromCatchFrameOwn`).

**Activations.** `Activation` is what `HandlersShareFrame` needs to be
inductive, with `Inv`: a code frame is in a state of its funclet (`Within`), the
code frames of one activation are of one function and their blocks lie further
in the higher they stand, and the position fh3.cpp:140-142 caches is that of a
try statement which the frame it was cached at has entered and is still inside
of (`CachedIs`). The last is what makes a position safe to use later: a catch
frame keeps it while its handler runs arbitrary code, and the next exception
that leaves the handler finds it as it was.

**Objects.** `Cleaned` says that the objects of each funclet are those its
unwind graph owes at the state *kept* for it: by itself, or by the runtime frame
that stands on it (`KeptState`, `CleanAt`), and that no object is without its
funclet. A walk in progress owes a part of what the funclet owed and goes to the
end of the funclet, or to the first state of the try that catches (`WalkShape`).
With `Inv` and `Activation` this is inductive, if the state before each try
statement owes what the try statement's outer state owes (`CleanTryEntries`):
`CallHandler` replaces the one by the other. `HandlerOwesNothing` and
`LowOwesNothing` say that a funclet just called, or just left, has no
objects; `EdgeIsOwn` that an edge never runs the cleanup of another funclet.
`CleanupsExact` follows, and `DestroyedOnce`, since a walk stands at a state that
is owed.

**What a frame is about.** `Referent` is a recursion over the stack. That it is
what its equation says (`ReferentIs`) is shown by a least counterexample among
the slots, since a frame refers downwards only. `ReferentKnown` and
`ReferentLive` say what it yields: the exception the frame owns, the one its link
leads to, or, for a rethrow that has not looked yet, that of the innermost
handler, alive in each case. `InnermostHandlerRuns` then joins this with
`Activation`: at the cached position the blocks fh3.cpp:72-90 goes through are
those around the control of the funclet (`CandidatesEnclose`), and the first in
the table that accepts is the innermost (`SelectsChooses`). It is an action
property, from the invariant `Inv /\ OwnInv /\ Activation` (`WalksHold`).

**Halts.** `HaltsForCause` goes through the three places that call `on_bug_check` and
says for each what has happened: six reasons, of every program. That
the verifies which test the tables never fail is `HaltStep`; that a dispatch or a destruction
an exception comes down to has called user code, and which, is `CalledOut`: no frame with
work below it is touched (`WorkKeptBelow`). Two of the
reasons are not documented: an exception leaves a copy constructor, and a
`throw;` called from a callout looks for its handler below the callout.
`HaltsAsDocumented` shows that they are all that is wrong, and what a program can
do about it. Callouts that keep to the functions of a `Q` without `throw;` leave
no rethrow above a frame that works (`QuietAbove`, `SearchesAlone`). A `noexcept`
copy constructor keeps its frame above the dispatch that called it (`CopyGuarded`),
whatever it calls, throws and catches, since no dispatch ever unwinds the body of
a `noexcept` function for good (`GuardsHold`, from the verify at fh3.cpp:149-154).
`Quiet(Q)` is the four together, inductive with the invariants before
(`QuietStep`); `TopChanges` says once how a step can change the top of the
stack.

**Refinement.** `Activities` is built slot by slot (`Builds`), so what a
step does to it follows from what the step does to one or two slots: a sequence
stays (`NewestStays`, `AllStay`), grows (`NewestAdded`), loses its last
(`NewestRemoved`) or last but one (`SecondRemoved`), or has its last changed
(`NewestChanges`). `View` collects what is known of a state's frames,
exceptions and activities, and holds before and after each step (`ViewNext`).
`NextLifetime` has one case per action:

| Step of `ThrowX64` | Step of `ExceptionLifetime` | Lemma |
|---|---|---|
| `Throw`, `Rethrow` | `Raise`, `Reraise` | `ThrowRaises`, `RethrowReraises` |
| `CallHandler` | `Catch` | `CallHandlerCatches` |
| `CatchReturn` | `LeaveHandler` | `CatchReturnLeaves` |
| `ContinueAfterException` | `EndHandler` | `ContinueEnds` |
| `TakeFromCatchFrame`, `PassCatchFrame` | `AbandonHandler` | `CatchFrameAbandons` |
| every other | none | `UserStays`, `ProbeStays`, `UnwindFrameStays`, `RuntimeStays`, `FrameStays` |

That the right exceptions die at `EndHandler` and `AbandonHandler` takes no
look at the destructors: a step destroys one at most (`DestroysOnly`), and
`AliveIffReferred` holds after it (`AliveKept`). That the exception of the flight is the
same before and after the catch frame has gone (`DirectOver`) is where
`TakesException` matters.

### ThrowX86

Two modules. The invariants of the stack, the objects, the handlers and where
control is hold for every program; those about exceptions need that the program
never does what makes this runtime lose track of them. Each is inductive
relative to those before it. Most have one lemma per action, named `...Step`,
`...Exact`, `...Handlers`, `...Owners` and `...Homes` after the action.

**The stack.** Neither `TypeOK` nor `ChainIsTheStack` is inductive. A dispatch
follows the pointer in the registration it is at, unwinds the function it finds
there to a state it has read earlier, and ends up as a catch frame whose code
pops what it takes for its own registration. `IInv == TypeOK /\ Shape` says what
all of them count on. A frame's pointer, or the registration a dispatch has
come to, is the newest one below the frame (`Linked`), and `fs:[0]` the newest of
all (`HeadIsNewest`). What a dispatch has chosen is a handler of the function
at that registration (`HandlingShape`, `ThrowShape`). Between the two stand only
dispatches whose exceptions are being abandoned (`GapShape`): a destructor of
an abandoned exception that throws leaves one behind, because its catch frame
is still the head of the chain (throw_x86.cpp:355). A funclet stands on its catch frame
(`FuncletShape`), and every dispatch but the newest waits for user code
(`OthersWait`). `KeptShape` says once that frames below a change
keep their shape, `PushStep`, `PassRegistrationStep`, `WorkStep` and `MoveStep`
what a push, a step down the chain, a step of the dispatcher and a step of user
code do. `ChainFrom` is a recursion over pointers; that it yields the registered
frames (`ChainReaches`) is shown by a least counterexample, since pointers lead down.

**Objects.** `Exact` says that the objects of a frame are those its state owes
(`ExactAt`), and what makes the two steps harmless that set a state without
running a cleanup: a dispatch that has chosen a handler unwinds its function to
a state on the function's chain, the first of the try statement (`Target`), and
calls the handler there; and the code after a handler finds the function in the
state the handler was entered in (`Entered`), which owes what the code after the try
statement owes (`OwedInHandler`). In between, destructors and copy constructors
run and throw themselves: `WorkerAbove` says that whatever they dispatch works on
functions above. No condition on the tables is needed, unlike on x64: `_unwind_frame`
(throw_x86.cpp:148-160) follows the edges and never starts from `try_low - 1`.

**Leaving a handler.** `DestructionOrder` says how far a function is unwound when
the exception of one of its handlers is destroyed. The code stops at the first
state at or below `try_low - 1`. That this is the state around the try statement,
and not one further out, is certain only when the unwinding begins inside the
handler. `Handlers` says so: a function with a called
handler is in a state inside that handler, or has been unwound to the
state around the try statement by a dispatch that is leaving it
(`HandlerShape`); and a handler that is called while others of the function are
in progress lies inside those (`NestedShape`). The step that matters is the
search: a try statement around the current state that does not begin before the
handler's own lies inside the handler (`Encloses`), and throw_x86.cpp:178 looks at
no other. Frames that a step does not touch carry it over (`UntouchedCarries`);
`WorkHandlers` and `UnderWorker` say which handlers a dispatch can affect.

**Owners.** `OneOwner` is not true of every program (finding 4), so
`OwnersAreUnique` names what has to be excluded: a rethrow that comes to the
owner it is already linked to (`ReturnsToOwner`, throw_x86.cpp:329-336), and an
exception that leaves the destructor of an abandoned one (`DestructorEscapes`,
throw_x86.cpp:355). Both are about a single state, both are what the code does
wrong and neither mentions `OneOwner`. `Owners` is inductive without them: a frame
that owns an exception has its object, alive and of its type, which no other
frame owns.

**Control.** `Homes` relates three views of where a function is: the state in
its frame, the handler on top of it that runs, and the handler a dispatch has
chosen for it. Code that nothing works on is in a scope of its own handler, or
of the body (`HomeShape`); what goes on when a handler ends does so around its
try statement (`HomeOf`); a handler about to be called is one that its function
has entered (`EnteredShape`). `CoveredAbove` says which frames a step may leave
without something that works on their function.

**References.** `Links` says that a runtime frame refers to an object it owns, to
nothing, or to a catch frame further down. A step has one of three outcomes for
the runtime frames (`Outcome`): those that remain are as they were, or there is
one more, or the newest has changed, and `Searching` and `Settling` say how; `NextOutcome`
goes through the actions once, and `Links`, `Entries` and `Roots` are each
shown from it. `Referent` is a recursion over the stack as on x64
(`ReferentIs`, `ReferentOf`). `Roots` says that a handler which refers to nothing is
inside another handler, so that every handler is about an exception (`Rooted`), as long as
no `catch (...)` is chosen for a `throw;` without one (`CatchesNothing`).

**Stops.** `StopsForCause` goes through the four places that stop the
machine (`OnlyStops`): a table the runtime does not know (`RejectTable`), the
end of the chain or a runtime frame (`ForeignStops`), a search without an
exception (`SearchStops`), the noexcept check (`NoexceptStops`). It assumes nothing of the
program, and so names what this runtime does and no document says: a copy
constructor's exception stops it; a null throw info is read, precisely by a rethrow linked to
a handler that refers on itself (`RefersOn`; get_throw_info follows one
link, throw_x86.cpp:41-49); and a handler is taken for the noexcept function it is in
(`LeavesHandlerAgain`). `HandlersAreNoFunctions` shows where the last comes from, the
exception of an abandoned exception's destructor only: a handler that is
searched otherwise had entered a state (`Entries`, from `Homes`).

**The handler chosen.** `InnermostHandlerRuns` joins control and references: the
blocks that throw_x86.cpp:175-264 goes through before its early end are those
around control (`CandidateEncloses`; all of them under `NoEarlierTry`,
`CandidatesEnclose`), the first of them in the table is the innermost
(`FirstIsInner`), and the throw info looked up through at most one link is that
of the exception the dispatch is about (`FoundInfo`).

**Live references.** `ReferentLive` says that every runtime frame is about no
exception or about a live one, by a least counterexample over `Links` and
`Owners`: a frame owns what it is about, or refers down the stack to the catch
frame that does. `ReferencesAreLive` is therefore no more than `OwnersAreUnique`
together with the links.

**Refinement.** As on x64, `Activities` is built slot by slot, and a step changes
one or two slots. What a frame is about after a step follows from what it refers
to and from the frames below it that stay (`AboutAt`, `Follows`, `SameReferent`).
`NextLifetime` has one case per action:

| Step of `ThrowX86` | Step of `ExceptionLifetime` | Lemma |
|---|---|---|
| `Throw`, `Rethrow` | `Raise`, `Reraise` | `ThrowRaises`, `RethrowReraises` |
| `CallHandler` | `Catch` | `CallHandlerCatches` |
| `CatchReturn` | `LeaveHandler` | `CatchReturnLeaves` |
| `ContinueAfterException` | `EndHandler` | `ContinueEnds` |
| `TakeFromCatchFrame`, `PassCatchFrame` | `AbandonHandler` | `CatchFrameAbandons` |
| every other | none | `CodeStays`, `VisitStays`, `ProbeStays`, `RewritesStay`, `PassFunctionStays`, `StillStays` |

The hard cases are those where a dispatch refers to nothing, so that what it is
about depends on where it has come to. Passing a function leaves the nearest
handler the same, because nothing stands between the dispatch and its
registration (`GapHasNone`, `NearThrough`; here `DestructorEscapes` matters also
after the step). At a catch frame such a dispatch takes what the catch frame
refers to (`TakenAbout`), so if it goes on with nothing, the catch frame had
nothing either (`Nulls`, one more invariant over `Outcome`), and removing it
changes nothing for the dispatch. A handler is called for an exception, never for
none (`Rooted`). What is left is the probe: for a `throw;` in a destructor or a copy
constructor that a dispatch has called, throw_x86.cpp:119-127 goes down the whole
chain and may find a handler below that dispatch. There `ExceptionLifetime` has
no exception, and the x64 probe stops at the dispatcher's own frame
(`ProbeFails`). `FindsOther` is exactly that state.

The program of the run `ThrowX86` satisfies every one of these conditions in
every state; the functions `filter`, `twice` and `two` of `Programs` violate
`OwnershipRespected` (`filter`, `twice`) and
`NoEarlierTry` (`two`), and are what shows that the conditions are needed; `twice`
also reaches `RefersOn`. With `classify`, which rethrows, in `CleanupCalls`, the program comes to `FindsOther`,
and `ImplementsLifetime` is violated.

### EhTables

`Chain` is the set of states that the edges lead to from a state, the least
set closed under them. `ChainStep` unfolds it once;
`ChainBelow`, and that the chain of a state inside a try statement passes
through its first state, are shown by a least counterexample, which is what the
library's `WFMin` gives without induction over an operator. `HomeBlock` is
unique, and `Within` says that a state belongs to a funclet or to a try
statement or a handler it has entered: entering and leaving a scope, and
unwinding along an edge, stay within the funclet.

### Fh4Frame

The inductive invariant is `IInv == TypeOK /\ Walks`. `Walks` says that the
pointers of the two loops are the positions of entries: the first has passed
`passed` entries and remembers where the walk is to end, the second is at the
entry of a state that may have to be unwound. That an entry is decoded to what
the compiler wrote, and that skipping it leads to the next, is `EdgeFacts`, from
`ReadsWhatWasWritten`: for every number of 32 bits and
whatever bytes stand before and after it, `read_unsigned` returns what was
encoded and moves behind it. The argument is by the five lengths: the low bits
of the first byte tell the length, and the shift drops exactly the foreign bytes.
`LiveIsOwed` and `NothingLeftBehind` are then inductive relative to `IInv`.
`AlwaysInnermost` is about the order of the table: the blocks
from one on that a state lies in are one within the next, so the
first that accepts is the innermost.

### PdataUnwind

`ReadsAsWritten` rests on `Inv`: after an entry
and as many operands as the unwinder's `Operands` gives it comes an entry, or the
end. Each instruction puts one code in front (`Prepend`); the unwinder then
goes from entry to entry (`Skips`). `Types` gives the widths, and
`Justified` that the frame pointer stays what the prologue made it until it is
used. For the stack, `Unwindable` says that there is a function `sp` which gives
the stack pointer as it was after each number of slots, and that every code and
the memory agree with it (`Explains`): a push has stored the caller's value at
`sp`, an allocation lies between two values of it, a save is at its offset from
it. Codes are counted from the end of the array, where they stay while others are put
in front. While the codes are undone, the unwinder's stack
pointer is `sp` of the codes that are left, and each register is the caller's or
will be restored by one of them. At the end none is left.

### FunctionTable and RegionLookup

For every table that is sorted and without overlaps (`TablesAssumption`),
`Excluded` is inductive: entries below `l` end before the address, entries from
`r` on begin after it; `MidFacts` keeps the entry looked at inside.
For every sorted region table (`RegionsAssumption`), `Passed` is
inductive: it ties FH4's running sum to the address that FH3 reads.

### What stays with TLC

- Liveness: `DispatchEnds`, `UnwindingEnds`.

## Not modelled yet, and the plan

In this order:

1. `Fh4Frame`, the rest: the frames of catch funclets, where fh4.cpp:341 takes
   objects at offsets from the funclet's frame; the composition with the
   dispatcher of `ThrowX64`; the header (`_load_eh_info`) and the handlers in
   the compressed tables; continuation addresses.
2. Catch variables: where they live, when they are initialised relative to the
   cleanups of the same frame (fh3.cpp:129 and 158), the adjustment to a base.
3. `SehInterop`: which calls of the system's two-phase unwinder each frame
   handler accepts.
4. `EhPrologX86` (`x86/eh_helpers.asm`): the frames that the prolog helpers set
   up and remove; `binary_search` and the address arithmetic of `rva.h`.
5. The image headers that `from_image_base` checks: arithmetic over a fixed
   layout, with nothing a model would add so far.

Left out for good: the language headers (declarations), the build files and the
test driver (no state), `std::type_info` and the purecall stub, the debugger
notifications of `x86/nlg.asm` and `x86/memcpy.asm`.
