------------------------------ MODULE ThrowX86 ------------------------------
(***************************************************************************)
(* The x86 exception runtime (throw_x86.cpp, fh3_x86.asm).  Frames are     *)
(* found along the chain of registrations that starts at fs:[0], not by    *)
(* unwinding a context; one pass over the chain searches and unwinds.      *)
(*                                                                         *)
(* The stack is an array of slots as in ThrowX64, slot 1 the oldest, and a *)
(* runtime frame again turns from "throw" to "catch" to "destroy" where it *)
(* stands.  A function registers itself in its prolog; its catch funclets  *)
(* register nothing and share its frame, the EH state in it included.  The *)
(* catch frame registers on their behalf.                                  *)
(*                                                                         *)
(* _fh3_handler and __cxx_destroy_throw_frame are noexcept, so while they  *)
(* call user code a registration of theirs is the head of the chain, in    *)
(* the slot of the runtime frame they work for: the "boundary".            *)
(***************************************************************************)
EXTENDS EhTables

CONSTANTS
    MaxDepth,     \* bound: slots on the stack
    Main,         \* the function of the oldest frame, which never returns
    Calls,        \* <<f, s, g>>: f, in state s, may call g
    CopyCalls,    \* the functions the copy constructors of exceptions may call
    CleanupCalls, \* those the destructors of automatic objects may call
    DestructorCalls, \* those the destructors of exceptions may call
    Throws,       \* <<f, t>>: f may throw an exception of type t
    Rethrows,     \* <<f, s>>: f, in state s, may execute `throw;`
    Specified,    \* the functions with an exception specification (es_types)
    Corrupted     \* the functions whose table is of no known format (_magic)

ASSUME ProgramAssumption ==
    /\ MaxDepth \in Nat /\ MaxDepth >= 1
    /\ Main \in Fns
    /\ Calls \subseteq Fns \X Int \X Fns
    /\ CopyCalls \subseteq Fns /\ CleanupCalls \subseteq Fns /\ DestructorCalls \subseteq Fns
    /\ Throws \subseteq Fns \X Types
    /\ Rethrows \subseteq Fns \X Int
    /\ Specified \subseteq Fns /\ Corrupted \subseteq Fns

VARIABLES
    frame,   \* frame[k]: what slot k of the stack holds
    top,     \* the newest frame
    head,    \* fs:[0]: the slot of the newest registration, 0 for the end
    exc,     \* exc[k]: type of the live exception object stored in slot k
    objects, \* the live automatic objects, as <<function's frame, EH state>>
    halted   \* "bug_check": on_bug_check was called; "fault": null was read

vars == <<frame, top, head, exc, objects, halted>>

----------------------------------------------------------------------------
Slot == 1..MaxDepth

\* exception_object_or_link, as in ThrowX64: null, the exception in the frame
\* of slot k, or the throw frame inside the catch frame in slot k.
ObjOrLink == [to : {"null", "object", "link"}, slot : 0..MaxDepth]
Null == [to |-> "null", slot |-> 0]
Object(k) == [to |-> "object", slot |-> k]
Link(k) == [to |-> "link", slot |-> k]

\* cxx_throw_frame_t; its eh_info is that of the function in primary_frame_base.
ThrowFrame ==
    [unwound_state : Int, primary_frame_base : 0..MaxDepth,
     exception_object_or_link : ObjOrLink, throw_info_if_owner : Types \cup {NoInfo}]

Free == [kind |-> "free"]

\* fh3_frame_t, with the next pointer of its registration.
FunctionFrame == [kind : {"function"}, fn : Fns, state : Int, next : 0..MaxDepth]

\* A handler of try block `block`, running on the frame of its function.
Funclet == [kind : {"funclet"}, block : Nat, primary : Slot]

\* reg is the dispatcher's seh_head; next belongs to the boundary or to
\* cxx_catch_frame_t's registration; entry, target, block and clause are the
\* variables of the _fh3_handler call in progress (block 0: ctx.handler null).
RuntimeFrame ==
    [kind : {"throw", "catch", "destroy"}, reg : 0..MaxDepth, next : 0..MaxDepth,
     pc : {"visit", "search", "unwind", "cleanup", "copy", "call", "abandon", "handler", "destroy"},
     tf : ThrowFrame, entry : Int, target : Int, block : Nat, clause : Nat]

Frame == {Free} \cup FunctionFrame \cup Funclet \cup RuntimeFrame

IsFunction(k) == frame[k].kind = "function"
IsUser(k) == frame[k].kind \in {"function", "funclet"}
IsRuntime(k) == frame[k].kind \in {"throw", "catch", "destroy"}

T == frame[top]
Running == top >= 1 /\ IsUser(top) /\ halted = "no"
Dispatching(pc) == frame[top].kind = "throw" /\ frame[top].pc = pc /\ halted = "no"

\* The fh3_frame_t that user code, or a registration, in slot k works on.
Primary(k) ==
    CASE frame[k].kind = "function" -> k
      [] frame[k].kind = "funclet" -> frame[k].primary
      [] OTHER -> frame[k].tf.primary_frame_base

Fn(k) == frame[Primary(k)].fn
State(k) == frame[Primary(k)].state

\* The try block whose handler runs in, or under, slot k; 0: the body.
Home(k) == IF IsFunction(k) THEN 0 ELSE frame[k].block

\* Runtime frame k stands under a noexcept function of the runtime's own.
HasBoundary(k) ==
    \/ frame[k].kind = "throw" /\ frame[k].pc \in {"search", "unwind", "cleanup", "copy"}
    \/ frame[k].kind = "destroy"

Registered == {k \in Slot : IsFunction(k) \/ frame[k].kind = "catch" \/ HasBoundary(k)}

\* The slots a walk down the chain from slot k comes to; only a registration
\* has a next pointer to follow.
ChainFrom ==
    LET chain[k \in 0..MaxDepth] ==
            IF k = 0 THEN {}
            ELSE IF k \in Registered THEN {k} \cup chain[frame[k].next]
            ELSE {k}
    IN  chain

----------------------------------------------------------------------------
(* The search of _fh3_handler                                              *)

\* cxx_throw_frame_t::get_throw_info: one link is followed, never two.
GetThrowInfo(tf) ==
    IF tf.throw_info_if_owner # NoInfo THEN tf.throw_info_if_owner
    ELSE IF tf.exception_object_or_link.to = "link"
         THEN frame[tf.exception_object_or_link.slot].tf.throw_info_if_owner
         ELSE NoInfo

\* Mutation: a catch frame has the whole function searched and unwound.
UnwoundStateMutant(r) == -1

\* The unwound_state _fh3_handler is called with for registration r.
UnwoundState(r) == IF IsFunction(r) THEN -1 ELSE frame[r].tf.unwound_state

\* The try blocks whose handlers are examined: the loop goes on to the next
\* block when the state is outside the try, but ends at the first that begins
\* at or below the unwound state.
Candidates(r) ==
    {i \in Blocks(Fn(r)) :
        /\ InTry(Fn(r), i, State(r))
        /\ \A j \in 1..i : Block(Fn(r), j).try_low > UnwoundState(r)}

IsFirst(i, S) == i \in S /\ \A j \in S : i <= j

\* A type descriptor is compared with those of the throw info, and nothing else.
Matches(h, info) ==
    {c \in DOMAIN ThrowInfo[info].catchables : ThrowInfo[info].catchables[c].type = h.type}

Takes(h, info) ==
    \/ "ellipsis" \in h.adjectives
    \/ info # NoInfo /\ Matches(h, info) # {}

BlockTakes(f, i, info) == \E h \in DOMAIN Block(f, i).handlers : Takes(Block(f, i).handlers[h], info)

\* A handler that names a type is examined before one that takes anything.
NeedsThrowInfo(r) ==
    \E i \in Blocks(Fn(r)) :
        /\ IsFirst(i, Candidates(r))
        /\ "ellipsis" \notin Block(Fn(r), i).handlers[1].adjectives

\* Mutation: a later block that takes the exception wins.
SelectsMutant(r, info, i, j) ==
    /\ i \in Candidates(r)
    /\ IsFirst(j, {h \in DOMAIN Block(Fn(r), i).handlers : Takes(Block(Fn(r), i).handlers[h], info)})
    /\ \A b \in Candidates(r) : b > i => ~BlockTakes(Fn(r), b, info)

\* Clause j of try block i takes the exception.
Selects(r, info, i, j) ==
    /\ IsFirst(i, {b \in Candidates(r) : BlockTakes(Fn(r), b, info)})
    /\ IsFirst(j, {h \in DOMAIN Block(Fn(r), i).handlers : Takes(Block(Fn(r), i).handlers[h], info)})

\* The catch variable is initialised by a copy constructor.
CopiesFor(h, info) ==
    /\ h.adjectives \cap {"ellipsis", "reference"} = {}
    /\ \E c \in Matches(h, info) :
        IsFirst(c, Matches(h, info)) /\ ThrowInfo[info].catchables[c].copies

----------------------------------------------------------------------------
Init ==
    /\ frame = [k \in Slot |->
                  IF k = 1 THEN [kind |-> "function", fn |-> Main, state |-> -1, next |-> 0]
                  ELSE Free]
    /\ top = 1
    /\ head = 1
    /\ exc = [k \in Slot |-> NoInfo]
    /\ objects = {}
    /\ halted = "no"

Halt(how) == halted' = how /\ UNCHANGED <<frame, top, head, exc, objects>>

----------------------------------------------------------------------------
(* The program: compiled functions, as far as their tables describe them.  *)

\* Runtime frame k destroys, or is about to destroy, the exception it owns.
HasDestructor(tf) ==
    tf.throw_info_if_owner # NoInfo /\ ThrowInfo[tf.throw_info_if_owner].destroy_exc_obj

\* The runtime frame on top has called user code.
CallsOut ==
    /\ halted = "no" /\ IsRuntime(top)
    /\ \/ T.pc \in {"copy", "cleanup"}
       \/ T.pc = "abandon" /\ HasDestructor(frame[T.reg].tf)
       \/ T.pc = "destroy" /\ HasDestructor(T.tf)

\* The prolog registers the new frame.
Call(f) ==
    /\ \/ Running /\ <<Fn(top), State(top), f>> \in Calls
       \/ CallsOut /\ T.pc = "copy" /\ f \in CopyCalls
       \/ CallsOut /\ T.pc = "cleanup" /\ f \in CleanupCalls
       \/ CallsOut /\ T.pc \in {"abandon", "destroy"} /\ f \in DestructorCalls
    /\ top < MaxDepth
    /\ frame' = [frame EXCEPT ![top + 1] =
                    [kind |-> "function", fn |-> f, state |-> -1, next |-> head]]
    /\ top' = top + 1
    /\ head' = top + 1
    /\ UNCHANGED <<exc, objects, halted>>

\* Control enters state s: an object is constructed or a try begins.
Enter(s) ==
    /\ Running
    /\ s \in 0..Eh[Fn(top)].last
    /\ Eh[Fn(top)].next[s] = State(top)
    /\ HomeBlock(Fn(top), s) = Home(top)
    /\ frame' = [frame EXCEPT ![Primary(top)].state = s]
    /\ objects' = IF s \in Eh[Fn(top)].cleanup THEN objects \cup {<<Primary(top), s>>} ELSE objects
    /\ UNCHANGED <<top, head, exc, halted>>

InHandlerState == ~IsFunction(top) /\ State(top) = HandlerState(Fn(top), Home(top))

\* Control leaves its innermost state: the object is destroyed, the try ends.
Leave ==
    /\ Running
    /\ State(top) # -1 /\ ~InHandlerState
    /\ frame' = [frame EXCEPT ![Primary(top)].state = Eh[Fn(top)].next[State(top)]]
    /\ objects' = objects \ {<<Primary(top), State(top)>>}
    /\ UNCHANGED <<top, head, exc, halted>>

\* The epilog removes the registration.
Return ==
    /\ Running
    /\ top > 1
    /\ IsFunction(top) /\ State(top) = -1
    /\ frame' = [frame EXCEPT ![top] = Free]
    /\ top' = top - 1
    /\ head' = T.next
    /\ UNCHANGED <<exc, objects, halted>>

----------------------------------------------------------------------------
(* __CxxThrowException@8 up to the call of the dispatcher                  *)

\* The throw frame, with room above it for the handler.
PushThrowFrame(obj, info) ==
    /\ top + 2 <= MaxDepth
    /\ frame' = [frame EXCEPT ![top + 1] =
            [kind |-> "throw", reg |-> head, next |-> 0, pc |-> "visit",
             tf |-> [unwound_state |-> 0, primary_frame_base |-> 0,
                     exception_object_or_link |-> obj, throw_info_if_owner |-> info],
             entry |-> -1, target |-> -1, block |-> 0, clause |-> 0]]
    /\ top' = top + 1
    /\ UNCHANGED <<head, objects, halted>>

Throw(t) ==
    /\ Running
    /\ <<Fn(top), t>> \in Throws
    /\ PushThrowFrame(Object(top), t)
    /\ exc' = [exc EXCEPT ![top] = t]

Rethrow ==
    /\ Running
    /\ <<Fn(top), State(top)>> \in Rethrows
    /\ PushThrowFrame(Null, NoInfo)
    /\ UNCHANGED exc

----------------------------------------------------------------------------
(* __cxx_dispatch_exception and the frame handlers it calls                *)

\* _fh3_handler is entered: its own registration becomes the head.
EnterHandler(tf) ==
    /\ frame' = [frame EXCEPT ![top] =
            [T EXCEPT !.pc = "search", !.next = head, !.tf = tf, !.entry = State(T.reg)]]
    /\ head' = top
    /\ UNCHANGED <<top, exc, objects, halted>>

\* __fh3_primary_handler takes no table of an unknown format, and _fh3_handler
\* none with an exception specification.
Rejects(r) == Fn(r) \in Specified \/ (IsFunction(r) /\ Fn(r) \in Corrupted)

\* __fh3_primary_handler
VisitFunction ==
    /\ Dispatching("visit")
    /\ T.reg >= 1 /\ IsFunction(T.reg) /\ ~Rejects(T.reg)
    /\ EnterHandler(T.tf)

\* A link to the throw frame in catch frame p is replaced by what it holds.
TakeFrom(tf, p) ==
    [tf EXCEPT !.exception_object_or_link = frame[p].tf.exception_object_or_link,
               !.throw_info_if_owner = frame[p].tf.throw_info_if_owner]

\* Mutation: a rethrow that has not looked for its exception goes on so.
ArrivingMutant(tf, p) == IF tf.exception_object_or_link = Link(p) THEN TakeFrom(tf, p) ELSE tf

\* What the throw frame refers to while catch frame p is searched.
Arriving(tf, p) ==
    IF tf.exception_object_or_link = Link(p) THEN TakeFrom(tf, p)
    ELSE IF tf.exception_object_or_link = Null
         THEN [tf EXCEPT !.exception_object_or_link = Link(p)]
         ELSE tf

\* __cxx_catch_frame_handler
VisitCatchFrame ==
    /\ Dispatching("visit")
    /\ T.reg >= 1 /\ frame[T.reg].kind = "catch" /\ ~Rejects(T.reg)
    /\ EnterHandler(Arriving(T.tf, T.reg))

RejectTable ==
    /\ Dispatching("visit")
    /\ T.reg >= 1 /\ frame[T.reg].kind \in {"function", "catch"} /\ Rejects(T.reg)
    /\ Halt("bug_check")

\* The chain ends, or the registration is the boundary of a noexcept function
\* of the runtime.
VisitForeign ==
    /\ Dispatching("visit")
    /\ T.reg >= 1 => frame[T.reg].kind \in {"throw", "destroy"}
    /\ Halt("bug_check")

LacksThrowInfo == NeedsThrowInfo(T.reg) /\ GetThrowInfo(T.tf) = NoInfo

\* Mutation: only the newest registration is asked.
ProbesMutant(p) == p = T.reg /\ frame[p].kind = "catch"

\* _probe_for_exception_object stops at the nearest catch frame on the chain, if
\* the handlers of the functions it passes take their tables.
Probes(p) ==
    /\ p \in ChainFrom[head] /\ frame[p].kind = "catch"
    /\ \A q \in ChainFrom[head] :
        /\ frame[q].kind = "catch" => q <= p
        /\ IsFunction(q) /\ Fn(q) \in Corrupted => q < p

ProbeForObject ==
    /\ Dispatching("search")
    /\ LacksThrowInfo
    /\ T.tf.exception_object_or_link = Null
    /\ \E p \in Slot :
        /\ Probes(p)
        /\ frame' = [frame EXCEPT ![top].tf.exception_object_or_link = Link(p)]
    /\ UNCHANGED <<top, head, exc, objects, halted>>

\* The probe runs off the chain or into a table it does not take; or there is a
\* link already, the catch frame it leads to owns nothing, and the null throw
\* info is read.
SearchFails ==
    /\ Dispatching("search")
    /\ LacksThrowInfo
    /\ T.tf.exception_object_or_link = Null => \A p \in Slot : ~Probes(p)
    /\ Halt(IF T.tf.exception_object_or_link = Null THEN "bug_check" ELSE "fault")

\* Mutation: the objects of the try statement stay alive.
CatcherTargetMutant(f, i) == Block(f, i).try_high

\* The state the function is in when a handler of block i is entered.
CatcherTarget(f, i) == Block(f, i).try_low

\* Mutation: the throw frame is not told whose handler it will call.
SelectHandlerMutant ==
    /\ Dispatching("search")
    /\ ~LacksThrowInfo
    /\ \E i \in Blocks(Fn(T.reg)) : \E j \in DOMAIN Block(Fn(T.reg), i).handlers :
        /\ Selects(T.reg, GetThrowInfo(T.tf), i, j)
        /\ frame' = [frame EXCEPT ![top] =
                [T EXCEPT !.pc = "unwind", !.block = i, !.clause = j,
                          !.target = CatcherTarget(Fn(T.reg), i),
                          !.tf.unwound_state = Block(Fn(T.reg), i).try_low - 1]]
    /\ UNCHANGED <<top, head, exc, objects, halted>>

\* A clause takes the exception; the function will be unwound to its try.
SelectHandler ==
    /\ Dispatching("search")
    /\ ~LacksThrowInfo
    /\ \E i \in Blocks(Fn(T.reg)) : \E j \in DOMAIN Block(Fn(T.reg), i).handlers :
        /\ Selects(T.reg, GetThrowInfo(T.tf), i, j)
        /\ frame' = [frame EXCEPT ![top] =
                [T EXCEPT !.pc = "unwind", !.block = i, !.clause = j,
                          !.target = CatcherTarget(Fn(T.reg), i),
                          !.tf.primary_frame_base = Primary(T.reg),
                          !.tf.unwound_state = Block(Fn(T.reg), i).try_low - 1]]
    /\ UNCHANGED <<top, head, exc, objects, halted>>

\* None does: the function will be unwound to where this registration began.
SelectNothing ==
    /\ Dispatching("search")
    /\ ~LacksThrowInfo
    /\ \A i \in Candidates(T.reg) : ~BlockTakes(Fn(T.reg), i, GetThrowInfo(T.tf))
    /\ frame' = [frame EXCEPT ![top] =
                    [T EXCEPT !.pc = "unwind", !.target = UnwoundState(T.reg)]]
    /\ UNCHANGED <<top, head, exc, objects, halted>>

\* One edge of the unwind graph: the state is stored, then the cleanup called.
UnwindEdge ==
    /\ Dispatching("unwind")
    /\ State(T.reg) > T.target
    /\ LET f == Fn(T.reg)
           s == State(T.reg)
       IN  /\ frame' = [frame EXCEPT
                ![Primary(T.reg)].state = Eh[f].next[s],
                ![top].pc = IF s \in Eh[f].cleanup THEN "cleanup" ELSE "unwind"]
           /\ objects' = objects \ {<<Primary(T.reg), s>>}
    /\ UNCHANGED <<top, head, exc, halted>>

CleanupReturns ==
    /\ Dispatching("cleanup")
    /\ frame' = [frame EXCEPT ![top].pc = "unwind"]
    /\ UNCHANGED <<top, head, exc, objects, halted>>

Unwound == Dispatching("unwind") /\ State(T.reg) <= T.target

\* The function enters its handler's state; the catch variable is bound or
\* copied, and without a copy constructor to call _fh3_handler returns.
BindCatchVariable ==
    /\ Unwound
    /\ T.block # 0
    /\ LET copies == CopiesFor(Block(Fn(T.reg), T.block).handlers[T.clause], GetThrowInfo(T.tf))
       IN  /\ frame' = [frame EXCEPT
                ![Primary(T.reg)].state = HandlerState(Fn(T.reg), T.block),
                ![top].pc = IF copies THEN "copy" ELSE "call"]
           /\ head' = IF copies THEN head ELSE T.next
    /\ UNCHANGED <<top, exc, objects, halted>>

CopyReturns ==
    /\ Dispatching("copy")
    /\ frame' = [frame EXCEPT ![top].pc = "call"]
    /\ head' = T.next
    /\ UNCHANGED <<top, exc, objects, halted>>

\* The function's flags are looked at when it was in no state at all.
IsViolation == T.block = 0 /\ T.entry = -1 /\ Eh[Fn(T.reg)].is_noexcept

NoexceptViolation ==
    /\ Unwound
    /\ IsViolation
    /\ Halt("bug_check")

\* Mutation: the dispatcher's own frame stays registered.
NextRegistrationMutant == T.reg

NextRegistration == frame[T.reg].next

\* The dispatcher moves to the next registration; the stack from this one up
\* to the throw frame is dead.
PassRegistration(tf) ==
    /\ frame' = [k \in Slot |->
            IF k = top THEN [T EXCEPT !.reg = NextRegistration, !.next = 0, !.pc = "visit",
                                      !.tf = tf, !.entry = -1, !.target = -1]
            ELSE IF T.reg <= k /\ k < top THEN Free ELSE frame[k]]
    /\ head' = NextRegistration
    /\ UNCHANGED <<top, objects, halted>>

NothingHere == Unwound /\ T.block = 0 /\ ~IsViolation

PassFunction ==
    /\ NothingHere
    /\ IsFunction(T.reg)
    /\ PassRegistration(T.tf)
    /\ UNCHANGED exc

\* Mutation: every exception that passes is taken for a rethrow.
IsRethrowMutant == TRUE

\* The exception is a rethrow of the one this catch frame refers to.
IsRethrow == T.tf.exception_object_or_link = Link(T.reg)

TakeFromCatchFrame ==
    /\ NothingHere
    /\ frame[T.reg].kind = "catch" /\ IsRethrow
    /\ PassRegistration(TakeFrom(T.tf, T.reg))
    /\ UNCHANGED exc

\* Another exception: the one the catch frame owns is destroyed.  _fh3_handler
\* has returned, so no boundary is registered during this call.
AbandonException ==
    /\ NothingHere
    /\ frame[T.reg].kind = "catch" /\ ~IsRethrow
    /\ frame' = [frame EXCEPT ![top].pc = "abandon"]
    /\ head' = T.next
    /\ UNCHANGED <<top, exc, objects, halted>>

DestroyedBy(tf) ==
    IF tf.throw_info_if_owner # NoInfo
    THEN [exc EXCEPT ![tf.exception_object_or_link.slot] = NoInfo] ELSE exc

PassCatchFrame ==
    /\ Dispatching("abandon")
    /\ PassRegistration(T.tf)
    /\ exc' = DestroyedBy(frame[T.reg].tf)

----------------------------------------------------------------------------
(* __CxxThrowException@8 after the dispatcher has returned                 *)

\* __cxx_catch_frame_handler is registered and the funclet called.
CallHandler ==
    /\ Dispatching("call")
    /\ frame' = [frame EXCEPT
            ![top] = [T EXCEPT !.kind = "catch", !.pc = "handler", !.next = head,
                               !.entry = -1, !.target = -1, !.clause = 0],
            ![top + 1] = [kind |-> "funclet", block |-> T.block, primary |-> Primary(top)]]
    /\ top' = top + 1
    /\ head' = top
    /\ UNCHANGED <<exc, objects, halted>>

\* The funclet returns its continuation address.  The registration is removed,
\* and that of the noexcept __cxx_destroy_throw_frame takes its place.
CatchReturn ==
    /\ Running
    /\ InHandlerState
    /\ frame' = [frame EXCEPT ![top] = Free,
                              ![top - 1] = [@ EXCEPT !.kind = "destroy", !.pc = "destroy"]]
    /\ top' = top - 1
    /\ UNCHANGED <<head, exc, objects, halted>>

\* The exception is destroyed if the frame owns it, and the catcher goes on
\* after its try statement: in the funclet above the catch frame it was found
\* by, or in the function itself.
ContinueAfterException ==
    /\ halted = "no"
    /\ T.kind = "destroy"
    /\ LET p == T.tf.primary_frame_base
       IN  frame' = [frame EXCEPT ![top] = Free,
                ![p].state = Eh[frame[p].fn].next[Block(frame[p].fn, T.block).try_low]]
    /\ exc' = DestroyedBy(T.tf)
    /\ head' = T.next
    /\ top' = IF IsFunction(T.reg) THEN T.reg ELSE T.reg + 1
    /\ UNCHANGED <<objects, halted>>

----------------------------------------------------------------------------
Halted == halted # "no" /\ UNCHANGED vars

UserCode ==
    \/ \E f \in Fns : Call(f)
    \/ \E s \in UNION {0..Eh[f].last : f \in Fns} : Enter(s)
    \/ Leave
    \/ Return
    \/ CatchReturn
    \/ \E t \in Types : Throw(t)
    \/ Rethrow

Runtime ==
    \/ VisitFunction
    \/ VisitCatchFrame
    \/ RejectTable
    \/ VisitForeign
    \/ ProbeForObject
    \/ SearchFails
    \/ SelectHandler
    \/ SelectNothing
    \/ UnwindEdge
    \/ CleanupReturns
    \/ BindCatchVariable
    \/ CopyReturns
    \/ NoexceptViolation
    \/ PassFunction
    \/ TakeFromCatchFrame
    \/ AbandonException
    \/ PassCatchFrame
    \/ CallHandler
    \/ ContinueAfterException

Next == UserCode \/ Runtime \/ Halted

Spec == Init /\ [][Next]_vars

----------------------------------------------------------------------------
(* Properties                                                              *)

\* The state has the shape the declarations above give it.
TypeOK ==
    /\ frame \in [Slot -> Frame]
    /\ top \in Slot
    /\ head \in 0..MaxDepth
    /\ exc \in [Slot -> Types \cup {NoInfo}]
    /\ objects \subseteq Slot \X Nat
    /\ halted \in {"no", "bug_check", "fault"}

\* Whatever is thrown, called, returned from and unwound, fs:[0] leads through
\* every registered frame that is still on the stack, from the newest to the
\* oldest, and through nothing else (throw_x86.cpp:372-385, fh3_x86.asm:135-144).
ChainIsTheStack ==
    /\ \A k \in Registered : frame[k].next < k /\ frame[k].next \in Registered \cup {0}
    /\ head \in Registered \cup {0}
    /\ ChainFrom[head] = Registered
    /\ \A k \in Slot : frame[k].kind = "throw" /\ ~HasBoundary(k) /\ k = top => head = frame[k].reg

Owns(k) == IsRuntime(k) /\ frame[k].tf.throw_info_if_owner # NoInfo

\* Every live exception object has exactly one owner, a runtime frame that
\* knows its type, and lies between the registration that frame has unwound to
\* and the frame itself (throw_x86.cpp:332-356).
OneOwner ==
    /\ \A k \in Slot : Owns(k) =>
        LET obj == frame[k].tf.exception_object_or_link
        IN  /\ obj = Object(obj.slot)
            /\ frame[k].reg <= obj.slot /\ obj.slot < k
            /\ exc[obj.slot] = frame[k].tf.throw_info_if_owner
            /\ \A j \in Slot \ {k} : Owns(j) => frame[j].tf.exception_object_or_link # obj
    /\ \A t \in Slot : exc[t] # NoInfo =>
        \E k \in Slot : Owns(k) /\ frame[k].tf.exception_object_or_link = Object(t)

LiveObjects(k) == {s \in 0..Eh[Fn(k)].last : <<Primary(k), s>> \in objects}

\* The state in a function's frame, which its body, its catch funclets, the
\* unwinding and the compiled code after a handler all write, always says which
\* of the function's objects are alive, and none outlives the frame.
CleanupsExact ==
    /\ \A k \in Slot : IsFunction(k) => LiveObjects(k) = Owed(Fn(k), State(k))
    /\ \A o \in objects : IsFunction(o[1])

\* "1. Local variables in the catch handler funclet should be destroyed, then
\* 2. the exception object owned by this frame, and then 3. the rest of the
\* local variables" (fh3_x86.asm:65-71): when the exception of a handler is about
\* to be destroyed (OneOwner says that it is alive) the handler's locals are
\* gone, and those outside its try statement are not.
DestructionOrder ==
    Dispatching("abandon") =>
        LET p == T.reg
            try == Block(Fn(p), frame[p].block)
        IN  LiveObjects(p) = Owed(Fn(p), Eh[Fn(p)].next[try.try_low])

----------------------------------------------------------------------------
\* The slot of the exception runtime frame k is about; 0 if there is none.  A
\* rethrow that has not looked yet is about that of the next catch frame.
Referent ==
    LET nearest(m, p) == p \in 1..m /\ IsRuntime(p) /\ \A q \in p + 1 .. m : ~IsRuntime(q)
        ref[k \in 0..MaxDepth] ==
            IF k = 0 \/ ~IsRuntime(k) THEN 0
            ELSE LET obj == frame[k].tf.exception_object_or_link
                     from == IF frame[k].kind = "throw" THEN frame[k].reg ELSE frame[k].next
                 IN  IF obj.to = "object" THEN obj.slot
                     ELSE IF obj.to = "link" THEN (IF obj.slot < k THEN ref[obj.slot] ELSE 0)
                     ELSE IF from >= k \/ \A p \in 1..from : ~nearest(from, p) THEN 0
                     ELSE LET p == CHOOSE q \in 1..from : nearest(from, q)
                          IN  IF frame[p].kind = "catch" THEN ref[p] ELSE 0
    IN  ref

\* The try blocks of the code under registration r that its control is inside.
Enclosing(r) ==
    {i \in Blocks(Fn(r)) :
        HomeBlock(Fn(r), Block(Fn(r), i).try_low) = Home(r) /\ InTry(Fn(r), i, State(r))}

\* Those that name the type of the exception in flight.
Accepting(r) ==
    {i \in Enclosing(r) : Referent[top] # 0 /\ BlockTakes(Fn(r), i, exc[Referent[top]])}

\* The handler chosen is the innermost one around the place control was in, in
\* the body or in the catch handler being visited, that takes the exception,
\* and a registration is passed only when there is none: what the single loop
\* over the function's whole table (throw_x86.cpp:175-264) must compute.
HandlerIsInnermost ==
    [][Dispatching("search") /\ frame'[top].pc = "unwind"
        => LET chosen == frame'[top].block
               low(i) == Block(Fn(T.reg), i).try_low
           IN  IF Accepting(T.reg) = {} THEN chosen = 0
               ELSE chosen \in Accepting(T.reg)
                    /\ \A i \in Accepting(T.reg) : low(i) <= low(chosen)]_vars

\* The exception at hand leaves a cleanup, or the destructor of an exception:
\* "the unwind itself should not leak any exceptions" (fh3_x86.asm:115-116).
LeavesDestructor ==
    /\ T.reg >= 1
    /\ \/ frame[T.reg].kind = "throw" /\ frame[T.reg].pc = "cleanup"
       \/ frame[T.reg].kind = "destroy"

\* It leaves a copy constructor that a dispatch called for a catch variable.
LeavesCopyConstructor ==
    T.reg >= 1 /\ frame[T.reg].kind = "throw" /\ frame[T.reg].pc = "copy"

\* It leaves a noexcept function that has no handler for it.
LeavesNoexcept ==
    /\ T.reg >= 1 /\ IsFunction(T.reg) /\ Eh[Fn(T.reg)].is_noexcept
    /\ Accepting(T.reg) = {}

\* The registration met is of a function with a table the runtime does not know.
MeetsUnknownTable ==
    /\ T.pc = "visit"
    /\ T.reg >= 1 /\ frame[T.reg].kind \in {"function", "catch"} /\ Rejects(T.reg)

\* It is a `throw;` that may have to be caught here, and no handler runs whose
\* exception it could mean, or a table the runtime does not know is on the way.
RethrowsNothing ==
    /\ T.tf.exception_object_or_link = Null /\ Enclosing(T.reg) # {}
    /\ \A p \in Slot : frame[p].kind = "catch" =>
        \E q \in Slot : p < q /\ IsFunction(q) /\ Fn(q) \in Corrupted

\* The machine stops only for a reason the runtime names: an exception leaves
\* the chain, a destructor or a noexcept function, there is none to rethrow, or
\* a table is corrupted or not supported.  The exception of a copy constructor
\* is to propagate (fh3_x86.asm:113-115), and a null throw info never read.
StopIsJustified ==
    [][halted' # "no" /\ halted = "no" =>
        /\ halted' = "bug_check"
        /\ \/ T.reg = 0
           \/ LeavesDestructor
           \/ LeavesNoexcept
           \/ MeetsUnknownTable
           \/ RethrowsNothing]_vars

----------------------------------------------------------------------------
(* The abstract view, as in ThrowX64: each runtime frame is an activity.   *)

ActivityOf(k) ==
    [role |-> [throw |-> "flying", catch |-> "handling", destroy |-> "leaving"][frame[k].kind],
     about |-> Referent[k]]

\* The activities of the frames up to slot k.
ActivitiesUpTo[k \in 0..MaxDepth] ==
    IF k = 0 THEN <<>>
    ELSE IF IsRuntime(k) THEN Append(ActivitiesUpTo[k - 1], ActivityOf(k))
    ELSE ActivitiesUpTo[k - 1]

Activities == ActivitiesUpTo[MaxDepth]

Lifetime == INSTANCE ExceptionLifetime WITH
    Exception <- Slot, None <- 0,
    alive <- {t \in Slot : exc[t] # NoInfo}, stack <- Activities

\* The x86 runtime keeps the promise the x64 one keeps: an exception object is
\* destroyed at the step that ends the last activity about it, and only there.
ImplementsLifetime == Lifetime!Spec

----------------------------------------------------------------------------
(* Liveness                                                                *)

\* The runtime runs on the thread that threw; a copy constructor or destructor
\* that has nothing more to call returns.
FairSpec == Spec /\ WF_vars(Runtime)

\* Every dispatch ends in a handler or with the machine stopped, unless the
\* user code it calls does not return.
DispatchEnds ==
    \A k \in Slot :
        frame[k].kind = "throw" ~> frame[k].kind = "catch" \/ halted # "no" \/ IsUser(top)

----------------------------------------------------------------------------
(* What the documentation says and the code does not do                    *)

\* "We take ownership of the exception object here and are responsible for
\* destroying it" (fh3_x86.asm:39-40): no frame is about an exception that has
\* already been destroyed.
UsesLiveException ==
    \A k \in Slot : IsRuntime(k) /\ Referent[k] # 0 => exc[Referent[k]] # NoInfo

=============================================================================
