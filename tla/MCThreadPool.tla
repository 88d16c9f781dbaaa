---------------------------- MODULE MCThreadPool ----------------------------
(* Instances of ThreadPool for model checking. *)
EXTENDS ThreadPool

CONSTANTS j1, j2, c1

MCNone == {}
MCOneJob == {j1}
MCTwoJobs == {j1, j2}
MCOneWaiter == {c1}
MCStartStop == {"init", "start", "stop"}
MCStartInit == {"init", "start"}
=============================================================================
