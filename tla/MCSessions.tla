----------------------------- MODULE MCSessions -----------------------------
(***************************************************************************)
(* Three accounts, two of them with the same password as in config.json,   *)
(* and two descriptors, the command descriptors of the first connections.  *)
(* An account nobody logged in yet may hold the first of them.             *)
(***************************************************************************)
EXTENDS SessionsH

MCUsers == <<[user |-> "Ali", password |-> "1234"],
             [user |-> "Mohsen", password |-> "1234"],
             [user |-> "Sara", password |-> "99"]>>

MCFds == {6, 8}

MCGarbage == {0, 6}

MCCommands ==
    {<<"user", "Ali">>, <<"user", "Mohsen">>, <<"user", "Sara">>,
     <<"user", "Reza">>, <<"user">>,
     <<"pass", "1234">>, <<"pass", "99">>, <<"pass">>,
     <<"quit">>, <<"quit", "now">>}
=============================================================================
