------------------------------ MODULE MCStorage ------------------------------
(***************************************************************************)
(* Two accounts, one of them an administrator, in a tree of two levels     *)
(* below the root, with a protected file and another one.                  *)
(***************************************************************************)
EXTENDS Storage, TLC

MCAccounts == {1, 2}

MCAdmins == {1}

MCFiles == {<<"f">>}

MCQuota == [k \in MCAccounts |-> IF k = 1 THEN 2 ELSE 3]

MCHome == <<"s">>

MCTree ==
    (<<>> :> Dir) @@ (<<"s">> :> Dir)
        @@ (<<"s", "a">> :> Dir) @@ (<<"s", "f">> :> 2)

\* Names, the directory above, a path that goes up first and one from the root.
MCArguments == {<<"a">>, <<"f">>, <<"..">>, <<"..", "a">>, <<"", "a">>}
=============================================================================
