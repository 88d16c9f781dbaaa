--------------------------- MODULE MCLoggerGroup ---------------------------
(* Instances of LoggerGroup for model checking. *)
EXTENDS LoggerGroup

CONSTANTS j1, p1, f1

MCNone == {}
MCOneJob == {j1}
MCMain == {Main}
MCMainAndWriter == {Main, p1}
MCOneFlusher == {f1}
MCOneSize == {1}
=============================================================================
