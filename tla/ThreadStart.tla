----------------------------- MODULE ThreadStart -----------------------------
(***************************************************************************)
(* YR_Thread (util/YR_Thread.h, .cpp): start() creates the thread with     *)
(* _lock held and waits, once and without a test, for the notifyAll of     *)
(* threadEntry; isAlive() reads the flag _running, which the new thread    *)
(* sets before that and clears after run().  ThreadPool takes start() for  *)
(* one step and isAlive() for the truth; this module says when it may.     *)
(***************************************************************************)
EXTENDS Naturals, FiniteSets

CONSTANTS
  Callers,         \* the threads that use one YR_Thread object
  MaxCreated,      \* bound: OS threads created for the object
  OneAtATime       \* do the callers hold a lock of their own around start()?

Created == 1..MaxCreated

ASSUME CallersAssumption == IsFiniteSet(Callers) /\ MaxCreated \in Nat \ {0}
ASSUME FlagAssumption == OneAtATime \in BOOLEAN

VARIABLES
  running,  \* _running
  tid,      \* _tid: the thread created last, 0 for none
  thread,   \* where each OS thread is
  at,       \* where each caller is: "out", in start() "waiting" or "woken", "joining"
  mine,     \* the thread that each caller's last start() created
  early     \* history: a wait of start() has returned without a signal

vars == <<running, tid, thread, at, mine, early>>

TypeOK ==
  /\ running \in BOOLEAN
  /\ tid \in 0..MaxCreated
  /\ thread \in [Created -> {"none", "new", "entered", "run", "ending", "done"}]
  /\ at \in [Callers -> {"out", "waiting", "woken", "joining"}]
  /\ mine \in [Callers -> 0..MaxCreated]
  /\ early \in BOOLEAN
  /\ \A n \in Created : thread[n] = "none" <=> n > tid

Init ==
  /\ running = FALSE /\ tid = 0
  /\ thread = [n \in Created |-> "none"]
  /\ at = [c \in Callers |-> "out"]
  /\ mine = [c \in Callers |-> 0]
  /\ early = FALSE
-----------------------------------------------------------------------------
\* Mutated forms: _running set once run() is entered; a start() that does not look
\* at it; an entry that notifies nobody.
EnterUnflagged(n) ==
  /\ thread[n] = "new"
  /\ thread' = [thread EXCEPT ![n] = "entered"]
  /\ UNCHANGED <<running, tid, at, mine, early>>
AnnounceLate(n) ==
  /\ thread[n] = "entered"
  /\ thread' = [thread EXCEPT ![n] = "run"]
  /\ UNCHANGED <<running, tid, at, mine, early>>
StartUnchecked(c) ==
  /\ at[c] = "out" /\ tid < MaxCreated
  /\ tid' = tid + 1
  /\ thread' = [thread EXCEPT ![tid'] = "new"]
  /\ at' = [at EXCEPT ![c] = "waiting"] /\ mine' = [mine EXCEPT ![c] = tid']
  /\ UNCHANGED <<running, early>>

\* start() up to the release of _lock inside wait().  While _running is set it
\* throws and changes nothing.
Start(c) ==
  /\ at[c] = "out" /\ tid < MaxCreated /\ ~running
  /\ tid' = tid + 1
  /\ thread' = [thread EXCEPT ![tid'] = "new"]
  /\ at' = [at EXCEPT ![c] = "waiting"] /\ mine' = [mine EXCEPT ![c] = tid']
  /\ UNCHANGED <<running, early>>

\* ThreadPool's calls of start(), for example, are made with its mutex held.
StartInTurn(c) ==
  /\ OneAtATime => \A d \in Callers : at[d] \notin {"waiting", "woken"}
  /\ Start(c)

\* pthread_cond_wait may return although nobody signalled.
SpuriousWakeup(c) ==
  /\ at[c] = "waiting"
  /\ at' = [at EXCEPT ![c] = "woken"] /\ early' = TRUE
  /\ UNCHANGED <<running, tid, thread, mine>>

\* The wait is over and _lock, which nobody keeps, is regained.
StartReturns(c) ==
  /\ at[c] = "woken"
  /\ at' = [at EXCEPT ![c] = "out"]
  /\ UNCHANGED <<running, tid, thread, mine, early>>

\* threadEntry: the flag first, without the lock ...
Enter(n) ==
  /\ thread[n] = "new"
  /\ thread' = [thread EXCEPT ![n] = "entered"] /\ running' = TRUE
  /\ UNCHANGED <<tid, at, mine, early>>

\* ... then notifyAll under the lock, whose release wakes every waiting start().
Announce(n) ==
  /\ thread[n] = "entered"
  /\ thread' = [thread EXCEPT ![n] = "run"]
  /\ at' = [c \in Callers |-> IF at[c] = "waiting" THEN "woken" ELSE at[c]]
  /\ UNCHANGED <<running, tid, mine, early>>

\* run() returns.  (What it throws is thrown on, and ends the process.)
RunEnds(n) ==
  /\ thread[n] = "run"
  /\ thread' = [thread EXCEPT ![n] = "ending"] /\ running' = FALSE
  /\ UNCHANGED <<tid, at, mine, early>>

End(n) ==
  /\ thread[n] = "ending"
  /\ thread' = [thread EXCEPT ![n] = "done"]
  /\ UNCHANGED <<running, tid, at, mine, early>>

\* Join the thread when it is alive, as the pool's stop() does.
Join(c) ==
  /\ at[c] = "out" /\ running
  /\ at' = [at EXCEPT ![c] = "joining"] /\ mine' = [mine EXCEPT ![c] = tid]
  /\ UNCHANGED <<running, tid, thread, early>>
JoinReturns(c) ==
  /\ at[c] = "joining" /\ thread[mine[c]] = "done"
  /\ at' = [at EXCEPT ![c] = "out"]
  /\ UNCHANGED <<running, tid, thread, mine, early>>

Thread(n) == Enter(n) \/ Announce(n) \/ RunEnds(n) \/ End(n)

Next ==
  \/ \E c \in Callers :
       StartInTurn(c) \/ SpuriousWakeup(c) \/ StartReturns(c) \/ Join(c) \/ JoinReturns(c)
  \/ \E n \in Created : Thread(n)

Spec == Init /\ [][Next]_vars

\* Threads are scheduled; run() need not end.
FairSpec ==
  /\ Spec
  /\ \A c \in Callers : WF_vars(StartReturns(c)) /\ WF_vars(JoinReturns(c))
  /\ \A n \in Created : WF_vars(Enter(n) \/ Announce(n) \/ End(n))
-----------------------------------------------------------------------------
\* YR_Thread.h:66 says that isAlive() tells whether the thread is alive: outside
\* start(), "no" means that no thread of the object will enter run() or is in it.  The
\* pool deletes such a worker without joining it.  A wait that has returned early breaks
\* this, and the next property with it.
OutsideStart == \A c \in Callers : at[c] \notin {"waiting", "woken"}
NotAliveMeansEnded ==
  ~early /\ OutsideStart /\ ~running =>
    \A n \in Created : thread[n] \notin {"new", "entered", "run"}

\* "[YR_Thread::start] thread has start" (YR_Thread.cpp:95): one object never has two
\* threads that will enter or are in its run().
OneThread ==
  ~early => Cardinality({n \in Created : thread[n] \in {"new", "entered", "run"}}) <= 1

\* start() and the announcement it waits for cannot miss each other: it returns.
StartComesBack == \A c \in Callers : at[c] = "waiting" ~> at[c] = "out"
=============================================================================
