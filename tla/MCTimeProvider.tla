--------------------------- MODULE MCTimeProvider ---------------------------
(* Instances of TimeProvider, and of ThreadStart within it, for model checking. *)
EXTENDS TimeProvider

CONSTANTS c1, c2

MCTwoCallers == {c1, c2}
MCOneCaller == {c1}
MCTimeOf(n) == 4 * n + 3
MCBothUsers == {"pool", "provider"}
=============================================================================
