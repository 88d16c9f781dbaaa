---------------------------- MODULE MCSyncLogger ----------------------------
(* An instance of SyncLogger for model checking. *)
EXTENDS SyncLogger

MCTwoOrThree == {2, 3}
MCLengths == {2, 4}
=============================================================================
