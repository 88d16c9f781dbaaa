--------------------------- MODULE QueueContract ---------------------------
(***************************************************************************)
(* What a caller of YR_Thread_Queue may rely on: a sequence, and the set   *)
(* of threads that are inside a blocking pop_front or swap because they    *)
(* found the sequence empty.  Condition variable, signals and timeouts are *)
(* hidden.  ThreadQueue implements this module; ThreadPool is built on it. *)
(***************************************************************************)
EXTENDS Naturals, Sequences

CONSTANTS
  Threads,   \* the threads that pop
  Items,     \* the values that are queued
  MaxBatch   \* longest batch one push may carry

VARIABLES
  queue,     \* the items, head first
  pending    \* threads blocked since they found the queue empty

Batches == UNION {[1..n -> Items] : n \in 0..MaxBatch}

TypeOK == queue \in Seq(Items) /\ pending \subseteq Threads

Init == queue = <<>> /\ pending = {}
-----------------------------------------------------------------------------
PushBack(s) == queue' = queue \o s /\ UNCHANGED pending
PushFront(s) == queue' = s \o queue /\ UNCHANGED pending
Clear == queue' = <<>> /\ UNCHANGED pending

TakeHead(x) == queue # <<>> /\ x = Head(queue) /\ queue' = Tail(queue)
TakeAll == queue # <<>> /\ queue' = <<>>

\* A call that finds data returns it at once; no call with data at hand blocks.
PopNow(x) == TakeHead(x) /\ UNCHANGED pending
SwapNow == TakeAll /\ UNCHANGED pending
Block(t) ==
  /\ queue = <<>> /\ t \in Threads \ pending
  /\ pending' = pending \cup {t}
  /\ UNCHANGED queue

\* A blocked call ends with data, or without, whatever the queue then holds: it
\* may have timed out, and another thread may have been faster.
Leave(t) == t \in pending /\ pending' = pending \ {t}
PopLate(t, x) == Leave(t) /\ TakeHead(x)
SwapLate(t) == Leave(t) /\ TakeAll
Miss(t) == Leave(t) /\ UNCHANGED queue

Next ==
  \/ \E s \in Batches : PushBack(s) \/ PushFront(s)
  \/ Clear \/ SwapNow
  \/ \E x \in Items : PopNow(x)
  \/ \E t \in Threads :
       \/ Block(t) \/ SwapLate(t) \/ Miss(t)
       \/ \E x \in Items : PopLate(t, x)

Spec == Init /\ [][Next]_<<queue, pending>>
=============================================================================
