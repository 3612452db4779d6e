----------------------------- MODULE MCClientLoop -----------------------------
(***************************************************************************)
(* A buffer of two bytes and sockets of three: listings and files that fit *)
(* in one recv(), in the sockets, and in neither.                          *)
(***************************************************************************)
EXTENDS ClientLoop

MCListings == {0, 2, 3, 4}

MCContents == {"a", "b"}

\* No two pieces of a text are the same.
Text(n) == [i \in 1 .. n |-> IF i \in {1, 4} THEN "a" ELSE "b"]

\* A text of each number of pieces, and one with a NUL in its first piece.
MCFiles == {Text(0), Text(1), Text(2), Text(3), Text(5), <<"a", "NUL", "b">>}

MCOverrun == {0, 1}
=============================================================================
