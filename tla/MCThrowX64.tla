----------------------------- MODULE MCThrowX64 -----------------------------
(***************************************************************************)
(* The programs of ThrowX64's runs: who calls and throws what.             *)
(***************************************************************************)
EXTENDS ThrowX64, Programs

\* quiet, and silent and loud that only callouts call, are leaves; the others may
\* call anything else, retry itself only.
Leaves == {"quiet", "silent", "loud"}
MCCalls ==
    [f \in Fns |-> IF f \in Leaves THEN {}
                   ELSE IF "retry" \in Fns THEN {"retry"} ELSE Fns \ {"silent", "loud"}]
MCThrows == [f \in Fns |-> IF f \in {"quiet", "silent"} THEN Types ELSE {"A"}]

\* "siblings" is the table the others are free of.
ASSUME \A f \in Fns \ {"siblings"} : CleanTryEntry(f)

=============================================================================
