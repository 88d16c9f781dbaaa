---------------------------- MODULE ThreadQueue ----------------------------
(***************************************************************************)
(* YR_Thread_Queue (util/YR_Thread_Queue.h): a deque behind one monitor.   *)
(*                                                                         *)
(* Every member function runs from end to end under a scoped Lock of the   *)
(* monitor, except that pop_front and swap may release it once, in wait()  *)
(* or timeWait().  One action is therefore one stretch of code between     *)
(* acquiring the mutex and releasing it.  Notifications asked for inside   *)
(* such a stretch reach the condition variable when the mutex is released  *)
(* (module Monitor), which is the end of the same action.                  *)
(***************************************************************************)
EXTENDS Naturals, Sequences, FiniteSets, SequencesExt

CONSTANTS
  Threads,          \* the threads that share the queue
  Items,            \* the values; each is pushed at most once
  MaxBatch,         \* longest batch given to push_back / push_front
  Ops,              \* the member functions the threads call
  SpuriousWakeups   \* may a condition wait return without a signal?

AllOps == {"push_back", "push_front", "pop_front", "swap", "notifyT", "clear"}

ASSUME ThreadsAssumption == IsFiniteSet(Threads)
ASSUME MaxBatchAssumption == MaxBatch \in Nat \ {0}
ASSUME OpsAssumption == Ops \subseteq AllOps /\ SpuriousWakeups \in BOOLEAN

VARIABLES
  queue,     \* _queue
  size,      \* _size, the length the class keeps by hand
  waiting,   \* threads blocked in the condition variable
  woken,     \* threads taken out of it by a signal, mutex not yet regained
  expired,   \* threads whose timed wait ran out, mutex not yet regained
  call,      \* the blocking call a thread is inside, or NoCall
  fresh,     \* history: items nobody has pushed yet
  sent,      \* history: items given to push_back, in order
  taken,     \* history: items handed to callers, in order
  dropped    \* history: items discarded by clear()

vars == <<queue, size, waiting, woken, expired, call, fresh, sent, taken, dropped>>
waitVars == <<waiting, woken, expired, call>>
-----------------------------------------------------------------------------
\* The millsecond argument: 0 is "poll", (size_t)-1 is "forever".
Modes == {"poll", "timed", "forever"}
Calls == [op : {"pop_front", "swap"}, mode : {"timed", "forever"}]
NoCall == [op |-> "none", mode |-> "poll"]

\* The arguments of the two overloads of a push: one item or a queue_type.
Batches == UNION {[1..n -> Items] : n \in 0..MaxBatch}
FreshBatches == {s \in Batches : /\ ToSet(s) \subseteq fresh
                                 /\ IsInjective(s)}

TypeOK ==
  /\ queue \in Seq(Items)
  /\ size \in Nat
  /\ waiting \subseteq Threads
  /\ woken \subseteq Threads
  /\ expired \subseteq Threads
  /\ call \in [Threads -> Calls \cup {NoCall}]
  /\ fresh \subseteq Items
  /\ sent \in Seq(Items)
  /\ taken \in Seq(Items)
  /\ dropped \subseteq Items

Init ==
  /\ queue = <<>> /\ size = 0
  /\ waiting = {} /\ woken = {} /\ expired = {}
  /\ call = [t \in Threads |-> NoCall]
  /\ fresh = Items
  /\ sent = <<>> /\ taken = <<>> /\ dropped = {}
-----------------------------------------------------------------------------
\* Mutated forms: one signal for a whole batch; clear forgetting _size; swap copying the
\* deque instead of exchanging it; pop taking the wrong end.
SignalOnce(n) ==
  IF n = 0 \/ waiting = {} THEN UNCHANGED <<waiting, woken>>
  ELSE \E t \in waiting : waiting' = waiting \ {t} /\ woken' = woken \cup {t}
ClearKeepingSize(t) ==
  /\ "clear" \in Ops /\ call[t] = NoCall
  /\ dropped' = dropped \cup ToSet(queue)
  /\ queue' = <<>>
  /\ UNCHANGED <<size, waiting, woken, expired, call, fresh, sent, taken>>
CopyAll == queue # <<>> /\ taken' = taken \o queue /\ UNCHANGED <<queue, size>>
TakeLast ==
  /\ queue # <<>>
  /\ taken' = Append(taken, queue[Len(queue)])
  /\ queue' = SubSeq(queue, 1, Len(queue) - 1)
  /\ size' = size - 1

\* n signals: n waiters leave the condition variable, or all when fewer wait.
Signal(n) ==
  \E S \in SUBSET waiting :
    /\ \/ Cardinality(S) = n
       \/ S = waiting /\ Cardinality(S) <= n
    /\ waiting' = waiting \ S
    /\ woken' = woken \cup S

Idle(t) == call[t] = NoCall

\* push_back: append the batch, one notify() per item.
PushBack(t, s) ==
  /\ "push_back" \in Ops /\ Idle(t)
  /\ queue' = queue \o s
  /\ size' = size + Len(s)
  /\ Signal(Len(s))
  /\ fresh' = fresh \ ToSet(s)
  /\ sent' = sent \o s
  /\ UNCHANGED <<expired, call, taken, dropped>>

\* push_front: each item of the batch in turn goes to the head.
PushFront(t, s) ==
  /\ "push_front" \in Ops /\ Idle(t)
  /\ queue' = Reverse(s) \o queue
  /\ size' = size + Len(s)
  /\ Signal(Len(s))
  /\ fresh' = fresh \ ToSet(s)
  /\ UNCHANGED <<expired, call, sent, taken, dropped>>

\* The tail of pop_front: the head of a non-empty queue goes to the caller.
TakeHead ==
  /\ queue # <<>>
  /\ taken' = Append(taken, Head(queue))
  /\ queue' = Tail(queue)
  /\ size' = size - 1

\* The tail of swap, with the empty queue_type its only caller passes
\* (YR_LoggerRoll::flush): the whole content goes to the caller.
TakeAll ==
  /\ queue # <<>>
  /\ taken' = taken \o queue
  /\ queue' = <<>>
  /\ size' = 0

Take(op) == IF op = "swap" THEN TakeAll ELSE TakeHead

\* What the call leaves behind when it returns false.
ReturnFalse == UNCHANGED <<queue, size, taken>>

\* Lines up to the wait: take at once, give up at once, or block.
Enter(t, op, mode) ==
  /\ op \in Ops /\ Idle(t)
  /\ \/ /\ Take(op)
        /\ UNCHANGED waitVars
     \/ /\ queue = <<>> /\ mode = "poll"
        /\ ReturnFalse
        /\ UNCHANGED waitVars
     \/ /\ queue = <<>> /\ mode # "poll"
        /\ waiting' = waiting \cup {t}
        /\ call' = [call EXCEPT ![t] = [op |-> op, mode |-> mode]]
        /\ UNCHANGED <<queue, size, taken, woken, expired>>
  /\ UNCHANGED <<fresh, sent, dropped>>

\* wait() or timeWait() returned because of a signal: look at the queue once.
Resume(t) ==
  /\ t \in woken
  /\ woken' = woken \ {t}
  /\ call' = [call EXCEPT ![t] = NoCall]
  /\ \/ Take(call[t].op)
     \/ queue = <<>> /\ ReturnFalse
  /\ UNCHANGED <<waiting, expired, fresh, sent, dropped>>

\* The deadline of a timed wait passes before a signal reaches the thread.
Expire(t) ==
  /\ t \in waiting /\ call[t].mode = "timed"
  /\ waiting' = waiting \ {t}
  /\ expired' = expired \cup {t}
  /\ UNCHANGED <<queue, size, woken, call, fresh, sent, taken, dropped>>

\* timeWait() returned false: the call gives up without looking at the queue.
GiveUp(t) ==
  /\ t \in expired
  /\ expired' = expired \ {t}
  /\ call' = [call EXCEPT ![t] = NoCall]
  /\ ReturnFalse
  /\ UNCHANGED <<waiting, woken, fresh, sent, dropped>>

\* pthread_cond_wait may return although nobody signalled.
Spurious(t) ==
  /\ SpuriousWakeups /\ t \in waiting
  /\ waiting' = waiting \ {t}
  /\ woken' = woken \cup {t}
  /\ UNCHANGED <<queue, size, expired, call, fresh, sent, taken, dropped>>

\* notifyT: every waiter leaves the condition variable.
NotifyT(t) ==
  /\ "notifyT" \in Ops /\ Idle(t)
  /\ waiting' = {}
  /\ woken' = woken \cup waiting
  /\ UNCHANGED <<queue, size, expired, call, fresh, sent, taken, dropped>>

Clear(t) ==
  /\ "clear" \in Ops /\ Idle(t)
  /\ dropped' = dropped \cup ToSet(queue)
  /\ queue' = <<>>
  /\ size' = 0
  /\ UNCHANGED <<waiting, woken, expired, call, fresh, sent, taken>>

Next ==
  \E t \in Threads :
    \/ \E s \in FreshBatches : PushBack(t, s) \/ PushFront(t, s)
    \/ \E op \in {"pop_front", "swap"}, mode \in Modes : Enter(t, op, mode)
    \/ Resume(t) \/ Expire(t) \/ GiveUp(t) \/ Spurious(t)
    \/ NotifyT(t) \/ Clear(t)

Spec == Init /\ [][Next]_vars

\* A signalled thread regains the mutex, and the clock runs.  No caller is
\* obliged to call anything.
FairSpec ==
  /\ Spec
  /\ \A t \in Threads : WF_vars(Resume(t)) /\ WF_vars(Expire(t)) /\ WF_vars(GiveUp(t))
-----------------------------------------------------------------------------
\* _size, which size() reports and pop_front asserts to be positive before
\* decrementing it, is the number of queued items at every release of the mutex.
SizeMatches == size = Len(queue)

\* No lost wake-up: while some thread sleeps in the condition variable, each
\* queued item has a signalled thread of its own on its way to fetch it.  This is
\* what makes signalling once per item, instead of broadcasting, enough.
NoStrandedItem == waiting # {} => Cardinality(woken) >= Len(queue)

\* A thread inside a blocking call is in exactly one of the three places the
\* condition wait can leave it in, and nobody else is.
BlockedOnce ==
  /\ waiting \cap woken = {} /\ waiting \cap expired = {} /\ woken \cap expired = {}
  /\ waiting \cup woken \cup expired = {t \in Threads : call[t] # NoCall}

\* No item is lost, duplicated or invented by any interleaving: each is unpushed,
\* queued once, handed out once, or discarded by clear().
NothingLost ==
  /\ fresh \cup ToSet(queue) \cup ToSet(taken) \cup dropped = Items
  /\ Cardinality(fresh) + Len(queue) + Len(taken) + Cardinality(dropped)
       = Cardinality(Items)

\* First in, first out among push_back calls, whatever push_front, swap and clear
\* do in between: when an item has been handed out, none pushed to the back before
\* it is still queued, and none is handed out after it.
PositionIn(s, x) == CHOOSE i \in DOMAIN s : s[i] = x
BackOrder ==
  \A i, j \in DOMAIN sent :
    i < j /\ sent[j] \in ToSet(taken) =>
      /\ sent[i] \notin ToSet(queue)
      /\ sent[i] \in ToSet(taken) =>
           PositionIn(taken, sent[i]) < PositionIn(taken, sent[j])

\* The queue keeps its contract: seen without signals, timeouts and _size, every
\* step is one of an atomic sequence on which only calls that found it empty block.
Contract == INSTANCE QueueContract WITH pending <- {t \in Threads : call[t] # NoCall}
KeepsContract == Contract!Spec

\* YR_Thread_Queue.h:23 says -1 blocks for ever, so when nobody calls notifyT or
\* clear a call with -1 returns only with data.
ForeverMeansData ==
  [][\A t \in Threads : call[t].mode = "forever" /\ call'[t] = NoCall
                          => taken' # taken]_vars
=============================================================================
