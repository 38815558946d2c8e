----------------------------- MODULE MCThrowX86 -----------------------------
(***************************************************************************)
(* The programs of ThrowX86's runs: who calls, throws and rethrows what in *)
(* which states (see Programs).  The passing ones rethrow where the x86    *)
(* runtime keeps track of the exception: from the handler that was called  *)
(* with it, or in a try of a function called by that handler which takes   *)
(* it.  The others rethrow elsewhere.                                      *)
(***************************************************************************)
EXTENDS ThrowX86, Programs

AllCalls ==
    {<<"nested", s, "nested">> : s \in {1, 4}}
    \cup {<<"nested", s, "quiet">> : s \in {3, 5}}
    \cup {<<"nested", s, "classify">> : s \in {-1, 4}}
    \cup {<<"nested", 4, "filter">>, <<"twice", 3, "classify">>}
    \cup {<<"retry", s, "retry">> : s \in {0, 1}} \cup {<<"retry", 1, "again">>}
    \cup {<<"nested", s, "retry">> : s \in {3, 5}}
    \cup {<<"nested", 3, "declared">>, <<"nested", 4, "corrupt">>, <<"corrupt", -1, "classify">>}

MCCalls == {c \in AllCalls : c[1] \in Fns /\ c[3] \in Fns}

MCThrows ==
    {c \in {<<"nested", "A">>, <<"quiet", "A">>, <<"quiet", "B">>, <<"classify", "A">>,
            <<"retry", "A">>, <<"again", "A">>, <<"two", "A">>, <<"twice", "A">>,
            <<"silent", "A">>, <<"silent", "B">>, <<"loud", "A">>, <<"declared", "A">>,
            <<"corrupt", "A">>} :
        c[1] \in Fns /\ c[2] \in Types}

AllRethrows ==
    {<<"nested", s>> : s \in {4, 5, 6, 8}}
    \cup {<<"classify", 0>>, <<"retry", 1>>, <<"again", 0>>, <<"again", 1>>, <<"filter", 0>>}
    \cup {<<"twice", 2>>}

MCRethrows == {r \in AllRethrows : r[1] \in Fns}

=============================================================================
