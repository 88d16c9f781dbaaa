--------------------------- MODULE MCThreadQueue ---------------------------
(* Instances of ThreadQueue for model checking. *)
EXTENDS ThreadQueue

CONSTANTS t1, t2, t3, a, b

MCThreads == {t1, t2, t3}
MCTwoItems == {a, b}
=============================================================================
