---------------------------- MODULE MCDirectories ----------------------------
(* An instance of Directories for model checking. *)
EXTENDS Directories

CONSTANTS p1, p2

\* Every way of writing up to four parts, against a few that meet them.
Spellings == UNION {[1..n -> {"", ".", "..", "a"}] : n \in 1..4}
Meeting == {<<"", "a", "a">>, <<"..", "a", "a", "a">>, <<"a", "..", "b">>}

MCTwoCreators == {p1, p2}
MCPaths == [c \in MCTwoCreators |-> IF c = p1 THEN Spellings ELSE Meeting]
MCNames == {"a", "b"}
MCCwd == <<"a">>
=============================================================================
