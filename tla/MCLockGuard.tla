---------------------------- MODULE MCLockGuard ----------------------------
(* Instances of LockGuard for model checking. *)
EXTENDS LockGuard

CONSTANTS t1, t2, t3

MCThree == {t1, t2, t3}
=============================================================================
