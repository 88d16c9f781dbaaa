---------------------------- MODULE TaskExecutor ----------------------------
(***************************************************************************)
(* What YR_ThreadPool promises about the jobs given to exec(): each is     *)
(* taken at most once and finished at most once, by nobody but a worker,   *)
(* and none is thrown away while the pool is open, that is, before stop(), *)
(* init() or the destructor has been called.  Workers, queue and locks are *)
(* hidden.                                                                 *)
(***************************************************************************)
CONSTANT Jobs

VARIABLES
  status,   \* the life of each job
  open      \* nobody has asked the pool to stop

Stages == {"new", "queued", "taken", "done", "dropped"}

TypeOK == status \in [Jobs -> Stages] /\ open \in BOOLEAN

Init == status = [j \in Jobs |-> "new"] /\ open = TRUE
-----------------------------------------------------------------------------
Move(j, from, to) ==
  /\ status[j] = from
  /\ status' = [status EXCEPT ![j] = to]
  /\ UNCHANGED open

Submit(j) == Move(j, "new", "queued")
Take(j) == Move(j, "queued", "taken")
Finish(j) == Move(j, "taken", "done")

\* A stopping pool throws away whatever is queued.
Queued == {j \in Jobs : status[j] = "queued"}
Discard ==
  /\ ~open
  /\ status' = [j \in Jobs |-> IF j \in Queued THEN "dropped" ELSE status[j]]

Close == open' = FALSE /\ UNCHANGED status
Reopen == Discard /\ open' = TRUE

Next ==
  \/ \E j \in Jobs : Submit(j) \/ Take(j) \/ Finish(j)
  \/ Discard /\ UNCHANGED open
  \/ Close \/ Reopen

Spec == Init /\ [][Next]_<<status, open>>
=============================================================================
