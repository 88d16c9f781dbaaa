---------------------------- MODULE MCAutoPtr ----------------------------
(* Instances of AutoPtr for model checking. *)
EXTENDS AutoPtr, TLC

CONSTANTS t1, t2, o1, o2, s1

MCThreads == {t1, t2}
MCObjects == {o1, o2}
MCShared == {s1}
MCSymmetry == Permutations(MCThreads) \cup Permutations(MCObjects)
=============================================================================
