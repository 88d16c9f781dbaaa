--------------------------- MODULE MCSingleton ---------------------------
(* Instances of Singleton for model checking. *)
EXTENDS Singleton

CONSTANTS t2, t3

MCThreads == {Main, t2, t3}
=============================================================================
