------------------------------ MODULE ThrowX64 ------------------------------
(***************************************************************************)
(* The x64 exception runtime (throw.cpp, throw.h, capture.asm) walking a   *)
(* stack of functions compiled with the FH3 tables (fh3.cpp).              *)
(*                                                                         *)
(* The stack is an array of slots, slot 1 the oldest.  The machine stack   *)
(* grows towards lower addresses, so frame p lies at a LOWER address than  *)
(* frame q exactly when p > q; the null frame pointer, lower than any      *)
(* frame, is MaxDepth + 1.  A slot holds a code frame (a funclet of a      *)
(* function), a frame of the runtime, or nothing.  A runtime frame starts  *)
(* as _CxxThrowException dispatching an exception ("throw"), shrinks in    *)
(* place to __cxx_call_catch_handler under the handler it calls ("catch")  *)
(* and ends as __cxx_call_exception_destructor ("destroy").  Frames it has *)
(* unwound leave their slots empty; the exception object, which lives in   *)
(* the frame that threw it, stays there.                                   *)
(*                                                                         *)
(* One step is one call of the handler, of user code, or of the unwinder.  *)
(* Copy constructors, cleanups and exception destructors are callouts: the *)
(* runtime waits in pc "copy", "cleanup" or "destroy" while the user code  *)
(* above its frame calls, throws and catches as it likes.                  *)
(***************************************************************************)
EXTENDS EhTables

CONSTANTS
    MaxDepth,   \* bound: slots on the stack
    Main,       \* the function of the oldest frame, which never returns
    Calls,      \* Calls[f]: the functions f may call
    CopyCalls,  \* the functions the copy constructors of exceptions may call
    DestructorCalls, \* those that cleanups and exception destructors may call
    Throws,     \* Throws[f]: the types f may throw
    Rethrows    \* the functions that may execute `throw;`

ASSUME ProgramAssumption ==
    /\ MaxDepth \in Nat /\ MaxDepth >= 1
    /\ Main \in Fns
    /\ Calls \in [Fns -> SUBSET Fns]
    /\ CopyCalls \subseteq Fns
    /\ DestructorCalls \subseteq Fns
    /\ Throws \in [Fns -> SUBSET Types]
    /\ Rethrows \subseteq Fns

VARIABLES
    frame,   \* frame[k]: what slot k of the stack holds
    top,     \* the newest frame
    exc,     \* exc[k]: type of the live exception object stored in slot k
    objects, \* the live automatic objects, as <<primary frame, EH state>>
    halted   \* the machine has bug-checked

vars == <<frame, top, exc, objects, halted>>

----------------------------------------------------------------------------
(* Frames                                                                  *)

Slot == 1..MaxDepth
NullFrame == MaxDepth + 1
FramePtr == 1..NullFrame

\* Address order of frame pointers.
Below(p, q) == p > q

\* exception_object_or_link: null, the exception object in the frame of slot
\* k, or the catch info of the runtime frame in slot k.
ObjOrLink == [to : {"null", "object", "link"}, slot : 0..MaxDepth]
Null == [to |-> "null", slot |-> 0]
Object(k) == [to |-> "object", slot |-> k]
Link(k) == [to |-> "link", slot |-> k]

\* fh3_fn_ctx_t, kept in cxx_catch_info_t::unwind_context.
UnwindContext == [state : Int, home_block_index : Nat]

\* cxx_catch_info_t
CatchInfo ==
    [exception_object_or_link : ObjOrLink, throw_info_if_owner : Types \cup {NoInfo},
     primary_frame_ptr : FramePtr, unwind_context : UnwindContext]

Free == [kind |-> "free"]

\* A funclet of fn: block 0 is the primary one, block i a handler of try block
\* i; primary is the frame that holds the function's variables.
CodeFrame == [kind : {"code"}, fn : Fns, block : Nat, state : Int, primary : Slot]

\* mach is the slot the captured context (tf.mach) has been unwound to, 0 when
\* it has left the image; state, target_state and handler (the chosen try
\* block, 0 for null) are the variables of the frame handler in progress.
RuntimeFrame ==
    [kind : {"throw", "catch", "destroy"}, mach : 0..MaxDepth,
     pc : {"visit", "copy", "unwind", "cleanup", "destroy", "handler"},
     ci : CatchInfo, state : Int, target_state : Int, handler : Nat]

Frame == {Free} \cup CodeFrame \cup RuntimeFrame

IsCode(k) == frame[k].kind = "code"
IsRuntime(k) == frame[k].kind \in {"throw", "catch", "destroy"}

\* The running frame is user code ...
Running == top >= 1 /\ IsCode(top) /\ ~halted
\* ... or the dispatcher, about to execute the step named by pc.
Dispatching(pc) == frame[top].kind = "throw" /\ frame[top].pc = pc /\ ~halted

T == frame[top]

\* Mutation: the unwinder ignores the machine frame of a runtime frame.
CallerMutant(k) == k - 1

\* The slot of the frame that called into slot k.
Caller(k) == IF IsRuntime(k) THEN frame[k].mach ELSE k - 1

----------------------------------------------------------------------------
(* cxx_catch_info_t::get_throw_info: one link is followed, never two.      *)

GetThrowInfo(ci) ==
    IF ci.throw_info_if_owner # NoInfo THEN ci.throw_info_if_owner
    ELSE IF ci.exception_object_or_link.to = "link"
         THEN frame[ci.exception_object_or_link.slot].ci.throw_info_if_owner
         ELSE NoInfo

----------------------------------------------------------------------------
(* Where the FH3 handler finds itself when it is run for the code frame c  *)
(* in slot m, with the catch info ci handed on by the frames above.        *)

\* Mutation: the primary frame itself is taken for a frame not yet visited.
IsFreshMutant(ci, m) == ci.primary_frame_ptr >= m

\* No frame of this activation has been visited: nothing is cached.
IsFresh(ci, m) == Below(ci.primary_frame_ptr, m)

\* Mutation: the state is always looked up from the (stale) rip.
CurrentStateMutant(ci, m) == frame[m].state

CurrentState(ci, m) == IF IsFresh(ci, m) THEN frame[m].state ELSE ci.unwind_context.state

\* home is the catch block whose funclet this is, 0 for the primary funclet.
IsHome(ci, m, home) ==
    LET f == frame[m].fn
    IN  IF ci.primary_frame_ptr = m
        THEN home = 0
        ELSE IsHomeBlock(f, CurrentState(ci, m),
                IF IsFresh(ci, m) THEN Len(Eh[f].try_blocks)
                                  ELSE ci.unwind_context.home_block_index, home)

\* Mutation: a catch funclet takes its own frame for the primary one.
PrimaryFrameMutant(ci, m, home) ==
    IF ~IsFresh(ci, m) THEN ci.primary_frame_ptr ELSE m

\* The frame that holds the function's variables: handed on, read from the
\* funclet's own frame, or the frame itself.
PrimaryFrame(ci, m, home) ==
    IF ~IsFresh(ci, m) THEN ci.primary_frame_ptr
    ELSE IF home # 0 /\ frame[m].block = home THEN frame[m].primary
    ELSE m

\* The try blocks the handler examines, in this order.
Candidates(ci, m, home) ==
    LET f == frame[m].fn
    IN  {i \in home + 1 .. Len(Eh[f].try_blocks) :
            /\ InTry(f, i, CurrentState(ci, m))
            /\ Block(f, i).try_low >= FuncletLow(f, home)}

\* The handler is about to read a throw info it does not have.
NeedsProbe(ci, m, home) ==
    Candidates(ci, m, home) # {} /\ GetThrowInfo(ci) = NoInfo

\* Mutation: the search does not stop at the first block that catches.
SelectsMutant(ci, m, home, t, i, j) ==
    /\ i \in Candidates(ci, m, home)
    /\ IsFirstHandler(frame[m].fn, i, j, t)
    /\ \A b \in Candidates(ci, m, home) : b > i => ~BlockCatches(frame[m].fn, b, t)

\* Try block i, handler j takes an exception of type t.
Selects(ci, m, home, t, i, j) ==
    LET f == frame[m].fn
    IN  /\ i \in Candidates(ci, m, home)
        /\ IsFirstHandler(f, i, j, t)
        /\ \A b \in Candidates(ci, m, home) : b < i => ~BlockCatches(f, b, t)

\* The walk of probe_for_exception_object from slot m meets runtime frame p
\* first.
IsInnermostRuntime(m, p) ==
    /\ p \in 1..m
    /\ IsRuntime(p)
    /\ \A q \in p + 1 .. m : ~IsRuntime(q)

----------------------------------------------------------------------------
Init ==
    /\ frame = [k \in Slot |->
                  IF k = 1 THEN [kind |-> "code", fn |-> Main, block |-> 0,
                                 state |-> -1, primary |-> 1]
                  ELSE Free]
    /\ top = 1
    /\ exc = [k \in Slot |-> NoInfo]
    /\ objects = {}
    /\ halted = FALSE

\* on_bug_check does not return.
BugCheck == halted' = TRUE /\ UNCHANGED <<frame, top, exc, objects>>

----------------------------------------------------------------------------
(* The program: compiled functions, as far as their tables describe them.  *)

\* The runtime frame on top has called user code.
CallsOut ==
    /\ ~halted
    /\ IsRuntime(top)
    /\ \/ T.pc \in {"copy", "cleanup"}
       \/ /\ T.pc = "destroy"
          /\ LET ci == frame[IF T.kind = "throw" THEN T.mach ELSE top].ci
             IN  /\ ci.throw_info_if_owner # NoInfo
                 /\ ThrowInfo[ci.throw_info_if_owner].destroy_exc_obj

Call(f) ==
    /\ \/ Running /\ f \in Calls[T.fn]
       \/ CallsOut /\ T.pc = "copy" /\ f \in CopyCalls
       \/ CallsOut /\ T.pc # "copy" /\ f \in DestructorCalls
    /\ top < MaxDepth
    /\ frame' = [frame EXCEPT ![top + 1] =
                   [kind |-> "code", fn |-> f, block |-> 0,
                    state |-> -1, primary |-> top + 1]]
    /\ top' = top + 1
    /\ UNCHANGED <<exc, objects, halted>>

\* Control enters state s: an object is constructed or a try begins.
Enter(s) ==
    /\ Running
    /\ s \in 0..Eh[T.fn].last
    /\ Eh[T.fn].next[s] = T.state
    /\ HomeBlock(T.fn, s) = T.block
    /\ frame' = [frame EXCEPT ![top].state = s]
    /\ objects' = IF s \in Eh[T.fn].cleanup THEN objects \cup {<<T.primary, s>>} ELSE objects
    /\ UNCHANGED <<top, exc, halted>>

\* Control leaves its innermost state: the object is destroyed, the try ends.
Leave ==
    /\ Running
    /\ T.state # -1
    /\ T.block # 0 => T.state # HandlerState(T.fn, T.block)
    /\ frame' = [frame EXCEPT ![top].state = Eh[T.fn].next[T.state]]
    /\ objects' = objects \ {<<T.primary, T.state>>}
    /\ UNCHANGED <<top, exc, halted>>

Return ==
    /\ Running
    /\ top > 1
    /\ T.block = 0 /\ T.state = -1
    /\ frame' = [frame EXCEPT ![top] = Free]
    /\ top' = top - 1
    /\ UNCHANGED <<exc, objects, halted>>

\* The catch funclet returns its continuation address to the runtime frame
\* below it, which goes on to destroy the exception.
CatchReturn ==
    /\ Running
    /\ T.block # 0 /\ T.state = HandlerState(T.fn, T.block)
    /\ frame' = [frame EXCEPT ![top] = Free,
                              ![top - 1] = [@ EXCEPT !.kind = "destroy", !.pc = "destroy"]]
    /\ top' = top - 1
    /\ UNCHANGED <<exc, objects, halted>>

----------------------------------------------------------------------------
(* _CxxThrowException                                                      *)

\* The frame the dispatcher starts from, with room above it for the handler.
PushThrowFrame(obj, info) ==
    /\ top + 2 <= MaxDepth
    /\ frame' = [frame EXCEPT ![top + 1] =
                   [kind |-> "throw", mach |-> top, pc |-> "visit",
                    ci |-> [exception_object_or_link |-> obj,
                            throw_info_if_owner |-> info,
                            primary_frame_ptr |-> NullFrame,
                            unwind_context |-> [state |-> -1, home_block_index |-> 0]],
                    state |-> -1, target_state |-> -1, handler |-> 0]]
    /\ top' = top + 1
    /\ UNCHANGED <<objects, halted>>

Throw(t) ==
    /\ Running
    /\ t \in Throws[T.fn]
    /\ PushThrowFrame(Object(top), t)
    /\ exc' = [exc EXCEPT ![top] = t]

Rethrow ==
    /\ Running
    /\ T.fn \in Rethrows
    /\ PushThrowFrame(Null, NoInfo)
    /\ UNCHANGED exc

\* pdata.unwind: the frame in mach is gone, the walk goes on at its caller.
UnwoundFrame(t) ==
    [t EXCEPT !.mach = Caller(t.mach), !.pc = "visit",
              !.state = -1, !.target_state = -1]

Step(t) == frame' = [frame EXCEPT ![top] = t] /\ UNCHANGED <<top, exc, objects, halted>>

----------------------------------------------------------------------------
(* The FH3 frame handler                                                   *)

AtCodeFrame == Dispatching("visit") /\ T.mach >= 1 /\ IsCode(T.mach)

\* What a catch frame hands to a rethrow that looks for its exception.
ProbedObject(p) ==
    IF frame[p].ci.throw_info_if_owner # NoInfo THEN Link(p)
    ELSE frame[p].ci.exception_object_or_link

\* Mutation: the probe gives up after one frame.
CanProbeMutant(p) ==
    /\ T.ci.exception_object_or_link = Null
    /\ p = T.mach - 1
    /\ frame[p].kind = "catch"

CanProbe(p) ==
    /\ T.ci.exception_object_or_link = Null
    /\ IsInnermostRuntime(T.mach, p)
    /\ frame[p].kind = "catch"
    /\ frame[p].ci.exception_object_or_link # Null

\* probe_for_exception_object; the handler then goes on where it was.
ProbeForObject ==
    /\ AtCodeFrame
    /\ \E home \in 0..Len(Eh[frame[T.mach].fn].try_blocks) :
        IsHome(T.ci, T.mach, home) /\ NeedsProbe(T.ci, T.mach, home)
    /\ \E p \in Slot :
        /\ CanProbe(p)
        /\ Step([T EXCEPT !.ci.exception_object_or_link = ProbedObject(p)])

\* The probe leaves the image, meets a frame that is not C++ or finds nothing.
ProbeFails ==
    /\ AtCodeFrame
    /\ \E home \in 0..Len(Eh[frame[T.mach].fn].try_blocks) :
        IsHome(T.ci, T.mach, home) /\ NeedsProbe(T.ci, T.mach, home)
    /\ \A p \in Slot : ~CanProbe(p)
    /\ BugCheck

\* Mutation: the frame of the catching function is not recorded.
VisitCatchingMutant ==
    /\ AtCodeFrame
    /\ LET m == T.mach
           f == frame[m].fn
           t == GetThrowInfo(T.ci)
       IN  \E home \in 0..Len(Eh[f].try_blocks), i \in Blocks(f) :
            /\ IsHome(T.ci, m, home)
            /\ ~NeedsProbe(T.ci, m, home)
            /\ ~Below(PrimaryFrame(T.ci, m, home), m)
            /\ Block(f, i).try_low - 1 >= FuncletLow(f, home)
            /\ \E j \in DOMAIN Block(f, i).handlers :
                /\ Selects(T.ci, m, home, t, i, j)
                /\ Step([T EXCEPT
                        !.pc = IF CopiesInto(t, Block(f, i).handlers[j]) THEN "copy" ELSE "unwind",
                        !.handler = i,
                        !.state = CurrentState(T.ci, m),
                        !.target_state = Block(f, i).try_low - 1,
                        !.ci.unwind_context = [state |-> Block(f, i).try_low - 1,
                                               home_block_index |-> home]])

\* A handler of try block i takes the exception: its catch variable is
\* initialised at once, before anything is unwound.
VisitCatching ==
    /\ AtCodeFrame
    /\ LET m == T.mach
           f == frame[m].fn
           t == GetThrowInfo(T.ci)
       IN  \E home \in 0..Len(Eh[f].try_blocks), i \in Blocks(f) :
            /\ IsHome(T.ci, m, home)
            /\ ~NeedsProbe(T.ci, m, home)
            /\ ~Below(PrimaryFrame(T.ci, m, home), m)
            /\ Block(f, i).try_low - 1 >= FuncletLow(f, home)
            /\ \E j \in DOMAIN Block(f, i).handlers :
                /\ Selects(T.ci, m, home, t, i, j)
                /\ Step([T EXCEPT
                        !.pc = IF CopiesInto(t, Block(f, i).handlers[j]) THEN "copy" ELSE "unwind",
                        !.handler = i,
                        !.state = CurrentState(T.ci, m),
                        !.target_state = Block(f, i).try_low - 1,
                        !.ci.primary_frame_ptr = PrimaryFrame(T.ci, m, home),
                        !.ci.unwind_context = [state |-> Block(f, i).try_low - 1,
                                               home_block_index |-> home]])

\* No block takes it: the whole funclet is to be unwound.
VisitPassing ==
    /\ AtCodeFrame
    /\ LET m == T.mach
           f == frame[m].fn
       IN  \E home \in 0..Len(Eh[f].try_blocks) :
            /\ IsHome(T.ci, m, home)
            /\ ~NeedsProbe(T.ci, m, home)
            /\ \A i \in Candidates(T.ci, m, home) : ~BlockCatches(f, i, GetThrowInfo(T.ci))
            /\ ~Below(PrimaryFrame(T.ci, m, home), m)
            /\ ~(home = 0 /\ Eh[f].is_noexcept)
            /\ Step([T EXCEPT !.pc = "unwind", !.state = CurrentState(T.ci, m),
                              !.target_state = FuncletLow(f, home)])

\* A verify of the handler fails: an exception is leaving a noexcept function,
\* or the tables do not nest.
VisitVerifyFails ==
    /\ AtCodeFrame
    /\ LET m == T.mach
           f == frame[m].fn
           t == GetThrowInfo(T.ci)
       IN  \E home \in 0..Len(Eh[f].try_blocks) :
            /\ IsHome(T.ci, m, home)
            /\ ~NeedsProbe(T.ci, m, home)
            /\ \/ Below(PrimaryFrame(T.ci, m, home), m)
               \/ /\ home = 0 /\ Eh[f].is_noexcept
                  /\ \A i \in Candidates(T.ci, m, home) : ~BlockCatches(f, i, t)
               \/ \E i \in Candidates(T.ci, m, home) :
                    \E j \in DOMAIN Block(f, i).handlers :
                        /\ Selects(T.ci, m, home, t, i, j)
                        /\ Block(f, i).try_low - 1 < FuncletLow(f, home)
    /\ BugCheck

\* One edge of the unwind graph; its cleanup handler, if any, is called.
UnwindEdge ==
    /\ Dispatching("unwind")
    /\ T.state > T.target_state
    /\ LET f == frame[T.mach].fn
       IN  IF T.state \in Eh[f].cleanup
           THEN /\ frame' = [frame EXCEPT ![top].state = Eh[f].next[T.state],
                                          ![top].pc = "cleanup"]
                /\ objects' = objects \ {<<frame[T.mach].primary, T.state>>}
           ELSE /\ frame' = [frame EXCEPT ![top].state = Eh[f].next[T.state]]
                /\ UNCHANGED objects
    /\ UNCHANGED <<top, exc, halted>>

\* The copy constructor, or the cleanup handler, has returned.
CalloutReturns ==
    /\ Dispatching("copy") \/ Dispatching("cleanup")
    /\ Step([T EXCEPT !.pc = "unwind"])

\* Nothing was found in this frame: __cxx_dispatch_exception unwinds it.
UnwindFrame ==
    /\ Dispatching("unwind")
    /\ T.state <= T.target_state
    /\ T.handler = 0
    /\ frame' = [frame EXCEPT ![T.mach] = Free, ![top] = UnwoundFrame(T)]
    /\ UNCHANGED <<top, exc, objects, halted>>

----------------------------------------------------------------------------
(* The frame handlers of the runtime's own frames                          *)

AtCatchFrame == Dispatching("visit") /\ T.mach >= 1 /\ frame[T.mach].kind = "catch"

\* Mutations: the exception is taken whoever flies past, or only by a rethrow
\* that has not looked for it yet.
TakesExceptionAlways == TRUE
TakesExceptionUnprobed == T.ci.exception_object_or_link = Null

\* A rethrow of the exception this catch frame refers to.
TakesException ==
    T.ci.exception_object_or_link \in {Null, Link(T.mach)}

\* __cxx_call_catch_frame_handler hands its catch info on, and is unwound.
TakeFromCatchFrame ==
    /\ AtCatchFrame
    /\ TakesException
    /\ frame' = [frame EXCEPT ![T.mach] = Free,
                              ![top] = [UnwoundFrame(T) EXCEPT !.ci = frame[T.mach].ci]]
    /\ UNCHANGED <<top, exc, objects, halted>>

\* Another exception: the one this catch frame owns, if any, is destroyed.
DestroyAtCatchFrame ==
    /\ AtCatchFrame
    /\ ~TakesException
    /\ Step([T EXCEPT !.pc = "destroy"])

\* ... and then the rest of its catch info is handed on.
PassCatchFrame ==
    /\ Dispatching("destroy")
    /\ LET k == frame[T.mach].ci
       IN  /\ frame' = [frame EXCEPT ![T.mach] = Free,
                ![top] = [UnwoundFrame(T) EXCEPT
                            !.ci.primary_frame_ptr = k.primary_frame_ptr,
                            !.ci.unwind_context = k.unwind_context]]
           /\ exc' = IF k.throw_info_if_owner # NoInfo
                     THEN [exc EXCEPT ![k.exception_object_or_link.slot] = NoInfo] ELSE exc
    /\ UNCHANGED <<top, objects, halted>>

\* __cxx_seh_frame_handler, or an address outside the image.
VisitForeignFrame ==
    /\ Dispatching("visit")
    /\ T.mach >= 1 => frame[T.mach].kind \in {"throw", "destroy"}
    /\ BugCheck

----------------------------------------------------------------------------
(* capture.asm, once the dispatcher has returned a handler                 *)

\* The throw frame applies the context, shrinks and calls the catch funclet.
CallHandler ==
    /\ Dispatching("unwind")
    /\ T.state <= T.target_state
    /\ T.handler # 0
    /\ LET f == frame[T.mach].fn
       IN  frame' = [frame EXCEPT
            ![top] = [T EXCEPT !.kind = "catch", !.pc = "handler",
                               !.state = -1, !.target_state = -1],
            ![top + 1] = [kind |-> "code", fn |-> f, block |-> T.handler,
                          state |-> HandlerState(f, T.handler),
                          primary |-> T.ci.primary_frame_ptr]]
    /\ top' = top + 1
    /\ UNCHANGED <<exc, objects, halted>>

\* The exception is destroyed if the frame owns it; iretq resumes the catching
\* funclet after its try statement.
ContinueAfterException ==
    /\ ~halted
    /\ T.kind = "destroy"
    /\ LET f == frame[T.mach].fn
       IN  frame' = [frame EXCEPT ![top] = Free,
                ![T.mach].state = Eh[f].next[Block(f, T.handler).try_low]]
    /\ exc' = IF T.ci.throw_info_if_owner # NoInfo
              THEN [exc EXCEPT ![T.ci.exception_object_or_link.slot] = NoInfo] ELSE exc
    /\ top' = T.mach
    /\ UNCHANGED <<objects, halted>>

----------------------------------------------------------------------------
Halted == halted /\ UNCHANGED vars

UserCode ==
    \/ \E f \in Fns : Call(f)
    \/ \E s \in UNION {0..Eh[f].last : f \in Fns} : Enter(s)
    \/ Leave
    \/ Return
    \/ CatchReturn
    \/ \E t \in Types : Throw(t)
    \/ Rethrow

Runtime ==
    \/ ProbeForObject
    \/ ProbeFails
    \/ VisitCatching
    \/ VisitPassing
    \/ VisitVerifyFails
    \/ UnwindEdge
    \/ CalloutReturns
    \/ UnwindFrame
    \/ TakeFromCatchFrame
    \/ DestroyAtCatchFrame
    \/ PassCatchFrame
    \/ VisitForeignFrame
    \/ CallHandler
    \/ ContinueAfterException

Next == UserCode \/ Runtime \/ Halted

Spec == Init /\ [][Next]_vars

----------------------------------------------------------------------------
(* Properties                                                              *)

\* The state has the shape the declarations above give it.
TypeOK ==
    /\ frame \in [Slot -> Frame]
    /\ top \in Slot
    /\ exc \in [Slot -> Types \cup {NoInfo}]
    /\ objects \subseteq Slot \X Nat
    /\ halted \in BOOLEAN

\* A code frame is at a state of its function.  It stands on the frame that
\* called it: a funclet of a catch handler on the catch frame of the runtime.
CodeShape(k) ==
    /\ frame[k].state \in States(frame[k].fn)
    /\ frame[k].block \in 0..Len(Eh[frame[k].fn].try_blocks)
    /\ frame[k].block = 0 => frame[k].primary = k
    /\ frame[k].block # 0 => k > 1 /\ frame[k - 1].kind = "catch"
    /\ k > 1 => frame[k - 1] # Free

\* What is cached in ci is about the activation of the code frame in slot m.
CachedFor(ci, m) ==
    /\ ci.unwind_context.state \in States(frame[m].fn)
    /\ ci.unwind_context.home_block_index \in 0..Len(Eh[frame[m].fn].try_blocks)
    /\ ci.primary_frame_ptr \in {m, frame[m].primary}

\* A dispatch is at a frame that is there; while it runs the frame handler of
\* a code frame its state is one of that function's, and what it finds cached
\* it may use.
ThrowShape(k) ==
    LET m == frame[k].mach
        ci == frame[k].ci
        f == frame[m].fn
    IN  /\ k < MaxDepth
        /\ frame[k].pc \in {"visit", "copy", "unwind", "cleanup", "destroy"}
        /\ m >= 1 => frame[m] # Free
        /\ frame[k].pc = "destroy" => m >= 1 /\ frame[m].kind = "catch"
        /\ frame[k].pc \in {"visit", "destroy"} => frame[k].handler = 0
        /\ frame[k].pc \in {"copy", "unwind", "cleanup"} =>
            /\ m >= 1 /\ IsCode(m)
            /\ frame[k].state \in States(f)
            /\ frame[k].target_state >= -1
            /\ frame[k].handler # 0 => frame[k].handler \in Blocks(f) /\ CachedFor(ci, m)
        /\ m >= 1 /\ IsCode(m) /\ ~IsFresh(ci, m) => CachedFor(ci, m)

\* A catch frame, or one destroying its exception, stands on its catcher.
CatchShape(k) ==
    LET m == frame[k].mach
    IN  /\ m >= 1 /\ IsCode(m)
        /\ frame[k].handler \in Blocks(frame[m].fn)
        /\ CachedFor(frame[k].ci, m)
        /\ frame[k].pc = IF frame[k].kind = "catch" THEN "handler" ELSE "destroy"

\* Nothing is left between a runtime frame and the frame it has unwound to:
\* capture.asm:268-271, "all stack frames above the catcher's become part of
\* our frame".
RuntimeShape(k) ==
    /\ frame[k].mach < k
    /\ \A q \in Slot : frame[k].mach < q /\ q < k => frame[q] = Free
    /\ frame[k].kind = "throw" => ThrowShape(k)
    /\ frame[k].kind # "throw" => CatchShape(k)

\* The stack below the newest frame is what its frames take it to be, and
\* nothing is above: the conditions under which the runtime may use a frame
\* pointer, a state or a handler that it read or cached some calls ago.
StackShape ==
    /\ frame[top] # Free
    /\ \A k \in Slot : k > top => frame[k] = Free
    /\ \A k \in Slot : IsCode(k) => CodeShape(k)
    /\ \A k \in Slot : IsRuntime(k) => RuntimeShape(k)

Owns(k) == IsRuntime(k) /\ frame[k].ci.throw_info_if_owner # NoInfo

\* Every live exception object has exactly one owner, a runtime frame that
\* knows its type, and lies in the part of the stack that frame keeps (see
\* StackShape).  This is what throw.cpp:237-259 and capture.asm:245-275 hand
\* from frame to frame.
OneOwner ==
    /\ \A k \in Slot : Owns(k) =>
        LET ci == frame[k].ci
            t == ci.exception_object_or_link.slot
        IN  /\ ci.exception_object_or_link = Object(t)
            /\ t \in Slot /\ frame[k].mach <= t /\ t < k
            /\ exc[t] = ci.throw_info_if_owner
            /\ \A j \in Slot \ {k} :
                Owns(j) => frame[j].ci.exception_object_or_link # Object(t)
    /\ \A t \in Slot : exc[t] # NoInfo =>
        \E k \in Slot : Owns(k) /\ frame[k].ci.exception_object_or_link = Object(t)

\* A frame that owns nothing is a rethrow still looking for its exception, or
\* is one link away from a live owner further down the stack, so that
\* get_throw_info and get_exception_object (throw.h:15-48), which follow one
\* link, find the exception however deeply it was rethrown.
LinksReachOwner ==
    \A k \in Slot : IsRuntime(k) /\ ~Owns(k) =>
        LET obj == frame[k].ci.exception_object_or_link
        IN  \/ obj = Null /\ frame[k].kind = "throw"
            \/ /\ obj.to = "link"
               /\ obj.slot \in 1..frame[k].mach
               /\ frame[obj.slot].kind = "catch"
               /\ Owns(obj.slot)

\* A catch frame stands between the funclet that caught and the handler it
\* calls, unless an exception has just unwound that handler.  The three agree
\* on the function, the frame of its variables and the catch blocks they
\* belong to: what fh3.cpp:140-142 caches for the next exception that unwinds
\* this activation is true of it.
HandlersShareFrame ==
    \A k \in Slot : frame[k].kind = "catch" =>
        /\ k < top /\ frame[k].mach >= 1 /\ IsCode(frame[k].mach)
        /\ frame[k].ci.primary_frame_ptr = frame[frame[k].mach].primary
        /\ frame[k].ci.unwind_context.home_block_index = frame[frame[k].mach].block
        /\ \/ /\ IsCode(k + 1)
              /\ frame[k + 1].fn = frame[frame[k].mach].fn
              /\ frame[k + 1].primary = frame[frame[k].mach].primary
              /\ frame[k + 1].block = frame[k].handler
           \/ /\ frame[k + 1] = Free
              /\ \E j \in Slot : frame[j].kind = "throw" /\ frame[j].mach = k

\* The state a code frame has been unwound to: its own, or the one the runtime
\* frame that walks it or was called from it keeps for it.
EffectiveState(m) ==
    LET above == {k \in Slot : IsRuntime(k) /\ frame[k].mach = m}
    IN  IF above = {} THEN frame[m].state
        ELSE LET r == frame[CHOOSE k \in above : TRUE]
             IN  IF r.kind # "throw" THEN r.ci.unwind_context.state
                 ELSE IF r.pc = "visit" THEN CurrentState(r.ci, m)
                 ELSE r.state

\* Every object is destroyed exactly when control has left its scope, whether
\* by running off its end or by any sequence of throws, rethrows, nested
\* handlers and exceptions thrown and caught inside destructors: the live
\* objects of each funclet are those its unwind graph owes (fh3.cpp:42-102
\* finds the state, 158-168 unwinds), and none outlives its funclet.
CleanupsExact ==
    /\ \A m \in Slot : IsCode(m) =>
        LET f == frame[m].fn
            own(s) == HomeBlock(f, s) = frame[m].block
        IN  {s \in 0..Eh[f].last : own(s) /\ <<frame[m].primary, s>> \in objects}
              = {s \in Owed(f, EffectiveState(m)) : own(s)}
    /\ \A o \in objects : \E m \in Slot :
        /\ IsCode(m) /\ frame[m].primary = o[1]
        /\ HomeBlock(frame[m].fn, o[2]) = frame[m].block

\* No cleanup is run for an object that has already been destroyed: "the
\* unwound part of the frame must not be unwound again" (x64/README.md:115,
\* and capture.asm:269-271).
DestroyedOnce ==
    Dispatching("unwind") /\ T.state > T.target_state
        /\ T.state \in Eh[frame[T.mach].fn].cleanup
        => <<frame[T.mach].primary, T.state>> \in objects

----------------------------------------------------------------------------
\* The innermost runtime frame at or below slot m, 0 if there is none.
InnermostRuntime(m) ==
    CHOOSE p \in 0..m : IF p = 0 THEN \A q \in 1..m : ~IsRuntime(q) ELSE IsInnermostRuntime(m, p)

\* The slot of the exception runtime frame k is about, given those of the
\* frames below it; 0 if there is none.
About(k, ref) ==
    LET obj == frame[k].ci.exception_object_or_link
        p == InnermostRuntime(frame[k].mach)
    IN  IF obj.to = "object" THEN obj.slot
        ELSE IF obj.to = "link" THEN (IF obj.slot < k THEN ref[obj.slot] ELSE 0)
        ELSE IF 1 <= p /\ p < k /\ frame[p].kind = "catch" THEN ref[p] ELSE 0

\* ... however many links or rethrows away.
Referent[k \in 0..MaxDepth] == IF k >= 1 /\ IsRuntime(k) THEN About(k, Referent) ELSE 0

\* The try blocks of the funclet in slot m that its control is inside of.
Enclosing(m) ==
    {i \in Blocks(frame[m].fn) :
        /\ HomeBlock(frame[m].fn, Block(frame[m].fn, i).try_low) = frame[m].block
        /\ InTry(frame[m].fn, i, EffectiveState(m))}

\* Those that name the type of the exception in flight.
Accepting(m) ==
    {i \in Enclosing(m) :
        Referent[top] # 0 /\ BlockCatches(frame[m].fn, i, exc[Referent[top]])}

\* The handler that runs is the innermost one, lexically, of the funclet being
\* visited that accepts the exception, and the walk leaves a funclet only when
\* it has none and is not the body of a noexcept function.  Says what
\* fh3.cpp:72-146, with its cached positions and table order, must compute.
HandlerIsInnermost ==
    [][Dispatching("visit") /\ frame'[top].kind = "throw" /\ frame'[top].pc \in {"copy", "unwind"}
        => LET m == T.mach
               chosen == frame'[top].handler
               low(i) == Block(frame[m].fn, i).try_low
           IN  IF Accepting(m) = {}
               THEN chosen = 0 /\ ~(frame[m].block = 0 /\ Eh[frame[m].fn].is_noexcept)
               ELSE chosen \in Accepting(m) /\ \A i \in Accepting(m) : low(i) <= low(chosen)]_vars

\* The exception at hand leaves a cleanup, or the destructor of an exception:
\* "the unwind itself should not leak any exceptions" (x86/fh3_x86.asm:115-116),
\* bug_check_reason::destructor_threw_during_unwind.
LeavesDestructor ==
    T.mach >= 1 /\ frame[T.mach].kind \in {"throw", "destroy"}
        /\ frame[T.mach].pc \in {"cleanup", "destroy"}

\* It leaves a copy constructor that a dispatch called for a catch variable.
LeavesCopyConstructor ==
    T.mach >= 1 /\ frame[T.mach].kind = "throw" /\ frame[T.mach].pc = "copy"

\* It leaves the body of a noexcept function.
LeavesNoexcept ==
    /\ T.mach >= 1 /\ IsCode(T.mach) /\ frame[T.mach].block = 0
    /\ Eh[frame[T.mach].fn].is_noexcept
    /\ Accepting(T.mach) = {}

\* It is a `throw;` that may have to be caught here, and no handler runs whose
\* exception it could mean.
RethrowsNothing ==
    /\ T.ci.exception_object_or_link = Null /\ Enclosing(T.mach) # {}
    /\ \A k \in Slot : frame[k].kind # "catch"

\* The same, but a handler does run: below a dispatch, or the destruction of an
\* exception, from which the `throw;` was called.
RethrowsPastRuntime ==
    /\ T.ci.exception_object_or_link = Null /\ Enclosing(T.mach) # {}
    /\ \E p \in Slot : IsInnermostRuntime(T.mach, p) /\ frame[p].kind # "catch"

\* The machine is halted only for a reason the runtime documents: an exception
\* leaves the image, a destructor or a noexcept function, or there is none to
\* rethrow.  The exception of a copy constructor is to propagate
\* (x64/README.md:165-167), and a `throw;` to find the handler it is in.
BugCheckIsJustified ==
    [][halted' /\ ~halted =>
        \/ T.mach = 0
        \/ LeavesDestructor
        \/ LeavesNoexcept
        \/ RethrowsNothing]_vars

----------------------------------------------------------------------------
(* The abstract view: each runtime frame is an activity.                   *)

ActivityOf(k) ==
    [role |-> [throw |-> "flying", catch |-> "handling", destroy |-> "leaving"][frame[k].kind],
     about |-> Referent[k]]

\* The activities of the frames up to slot k.
ActivitiesUpTo[k \in 0..MaxDepth] ==
    IF k = 0 THEN <<>>
    ELSE IF IsRuntime(k) THEN Append(ActivitiesUpTo[k - 1], ActivityOf(k))
    ELSE ActivitiesUpTo[k - 1]

Activities == ActivitiesUpTo[MaxDepth]

Lifetime == INSTANCE ExceptionLifetime WITH
    Exception <- Slot, None <- 0,
    alive <- {t \in Slot : exc[t] # NoInfo}, stack <- Activities

\* The runtime implements ExceptionLifetime: through any nesting of handlers,
\* rethrows and exceptions thrown inside destructors, an exception object is
\* destroyed at the step that ends the last activity about it, and only there.
ImplementsLifetime == Lifetime!Spec

\* So an exception object is alive exactly while some flight or handler is
\* about it: none leaks, and none is used after it was destroyed.
AliveIffReferred == Lifetime!AliveIffReferred

----------------------------------------------------------------------------
(* Liveness                                                                *)

\* The runtime runs on the thread that threw, so it takes its next step; that
\* CalloutReturns is among its steps assumes that copy constructors and
\* destructors return.
FairSpec == Spec /\ WF_vars(Runtime)

\* Every dispatch ends: it calls a handler, or it halts the machine.  The walk
\* gets to the end of the stack, the unwinding of each frame to its target.
DispatchEnds ==
    \A k \in Slot : frame[k].kind = "throw" ~> frame[k].kind = "catch" \/ halted

=============================================================================
