-------------------------- MODULE ExceptionLifetime --------------------------
(***************************************************************************)
(* What the exception runtime promises about exception objects: one is     *)
(* alive from the throw that creates it until the last activity about it   *)
(* is over, and is destroyed then, once.                                   *)
(*                                                                         *)
(* An activity is an exception in flight, a handler being executed, or a   *)
(* handler that has returned and is waiting for its exception to go.       *)
(* Activities nest, so they form a stack: destructors and copy             *)
(* constructors that run during a flight, and handlers, start new ones.    *)
(***************************************************************************)
EXTENDS Sequences, Naturals

CONSTANTS
    Exception,  \* the identities of exception objects
    None        \* what a rethrow outside every handler is about

VARIABLES
    alive,  \* the exception objects constructed and not yet destroyed
    stack   \* the activities, the newest last

vars == <<alive, stack>>

Activity == [role : {"flying", "handling", "leaving"}, about : Exception \cup {None}]

Newest == stack[Len(stack)]

\* The exceptions the activities of s are about.
Referred(s) == {s[i].about : i \in 1..Len(s)}

Init == alive = {} /\ stack = <<>>

----------------------------------------------------------------------------
Raise(e) ==
    /\ e \notin alive /\ e # None
    /\ alive' = alive \cup {e}
    /\ stack' = Append(stack, [role |-> "flying", about |-> e])

\* `throw;` is about the exception of the handler it is executed in.
Reraise ==
    /\ stack' = Append(stack, [role |-> "flying",
                    about |-> IF stack # <<>> /\ Newest.role = "handling"
                              THEN Newest.about ELSE None])
    /\ UNCHANGED alive

Catch ==
    /\ stack # <<>> /\ Newest.role = "flying" /\ Newest.about # None
    /\ stack' = [stack EXCEPT ![Len(stack)].role = "handling"]
    /\ UNCHANGED alive

\* Control leaves a handler normally ...
LeaveHandler ==
    /\ stack # <<>> /\ Newest.role = "handling"
    /\ stack' = [stack EXCEPT ![Len(stack)].role = "leaving"]
    /\ UNCHANGED alive

\* ... and its exception dies with it, unless an activity remains about it.
EndHandler ==
    /\ stack # <<>> /\ Newest.role = "leaving"
    /\ stack' = SubSeq(stack, 1, Len(stack) - 1)
    /\ alive' = alive \cap Referred(stack')

\* An exception flies out of the handler it was thrown in.
AbandonHandler ==
    /\ Len(stack) >= 2 /\ Newest.role = "flying"
    /\ stack[Len(stack) - 1].role = "handling"
    /\ stack' = Append(SubSeq(stack, 1, Len(stack) - 2), Newest)
    /\ alive' = alive \cap Referred(stack')

Next ==
    \/ \E e \in Exception : Raise(e)
    \/ Reraise
    \/ Catch
    \/ LeaveHandler
    \/ EndHandler
    \/ AbandonHandler

Spec == Init /\ [][Next]_vars

----------------------------------------------------------------------------
TypeOK ==
    /\ alive \subseteq Exception
    /\ stack \in Seq(Activity)

\* Exactly the exceptions that some activity is about are alive: none leaks,
\* and no flight or handler uses one that has been destroyed.
AliveIffReferred == alive = Referred(stack) \ {None}

=============================================================================
