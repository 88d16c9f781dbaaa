----------------------------- MODULE Singleton -----------------------------
(***************************************************************************)
(* YR_Singleton (util/YR_Singleton.h): getInstance() with its double-      *)
(* checked lock, and destroySingleton(), which exit() calls and which      *)
(* takes no lock.  YRRollLogger and YRLoggerThread are singletons with     *)
(* CreateUsingNew and PhoneixLifetime; the other lifetimes are frozen in   *)
(* `policy` beside it.                                                     *)
(*                                                                         *)
(* Instances are numbered as they are made.  Every access to _pInstance    *)
(* and _destroyed outside the lock is a step of its own; the stores of a   *)
(* constructor reach other threads before the store of _pInstance, as they *)
(* do on the x86 processors that YR_Atomic.h is written for.               *)
(***************************************************************************)
EXTENDS Naturals, FiniteSets

CONSTANTS
  Threads,     \* the threads of the program
  Main,        \* the one that calls exit()
  MaxCreated,  \* bound: instances made
  Free,        \* nobody holds _tl
  None         \* _pInstance is NULL

ASSUME ThreadAssumption ==
  Main \in Threads /\ Free \notin Threads /\ None \notin Nat /\ MaxCreated \in Nat

Policies == {"Default", "Phoenix", "NoDestroy"}

VARIABLES
  policy,         \* LifetimePolicy
  pInstance,      \* _pInstance
  destroyed,      \* _destroyed
  destroyedOnce,  \* _bDestroyedOnce
  tl,             \* the thread that holds _tl
  live,           \* instances that have been constructed and not deleted
  created,        \* history: instances made
  handlers,       \* destroySingleton registrations exit() has yet to call
  exiting,        \* exit() has been called
  ended,          \* how the process has ended: "no", "exit", "abort"
  pc,             \* where each thread is in getInstance() or destroySingleton()
  got,            \* what getInstance() last returned to each thread
  late            \* history: another thread was in getInstance() during exit()

vars == <<policy, pInstance, destroyed, destroyedOnce, tl, live, created, handlers,
          exiting, ended, pc, got, late>>

Places ==
  {"out", "lock", "inside", "create", "schedule", "unlock", "return", "null", "flag"}

TypeOK ==
  /\ policy \in Policies /\ pInstance \in {None} \cup 1..created
  /\ destroyed \in BOOLEAN /\ destroyedOnce \in BOOLEAN
  /\ tl \in Threads \cup {Free}
  /\ live \subseteq 1..created /\ created \in 0..MaxCreated /\ handlers \in 0..created
  /\ exiting \in BOOLEAN /\ ended \in {"no", "exit", "abort"}
  /\ pc \in [Threads -> Places] /\ got \in [Threads -> {None} \cup 1..created]
  /\ late \in BOOLEAN

Init ==
  /\ policy \in Policies
  /\ pInstance = None /\ destroyed = FALSE /\ destroyedOnce = FALSE /\ tl = Free
  /\ live = {} /\ created = 0 /\ handlers = 0
  /\ exiting = FALSE /\ ended = "no"
  /\ pc = [t \in Threads |-> "out"] /\ got = [t \in Threads |-> None]
  /\ late = FALSE
-----------------------------------------------------------------------------
At(t, place) == ended = "no" /\ pc[t] = place
Goto(t, place) == pc' = [pc EXCEPT ![t] = place]
Leave(t) == Goto(t, "unlock") /\ UNCHANGED tl
Late(t) == late' = (late \/ (exiting /\ t # Main))

\* Mutated forms: no second test; a registration by whoever has waited for the lock;
\* _pInstance never reset.
ReviveUntested(t) ==
  /\ At(t, "inside") /\ destroyed' = FALSE /\ Goto(t, "create") /\ Late(t)
  /\ UNCHANGED <<policy, pInstance, destroyedOnce, tl, live, created, handlers, exiting,
                 ended, got>>
FoundAndScheduled(t) ==
  /\ At(t, "inside") /\ pInstance # None
  /\ handlers' = handlers + 1 /\ Leave(t) /\ Late(t)
  /\ UNCHANGED <<policy, pInstance, destroyed, destroyedOnce, live, created, exiting, ended,
                 got>>
ResetNot ==
  /\ At(Main, "null") /\ Goto(Main, "flag")
  /\ UNCHANGED <<policy, pInstance, destroyed, destroyedOnce, tl, live, created, handlers,
                 exiting, ended, got, late>>

\* getInstance() outside the lock.
GetInstance(t) ==
  /\ At(t, "out") /\ Goto(t, IF pInstance = None THEN "lock" ELSE "return")
  /\ Late(t)
  /\ UNCHANGED <<policy, pInstance, destroyed, destroyedOnce, tl, live, created, handlers,
                 exiting, ended, got>>

Lock(t) ==
  /\ At(t, "lock") /\ tl = Free /\ tl' = t /\ Goto(t, "inside") /\ Late(t)
  /\ UNCHANGED <<policy, pInstance, destroyed, destroyedOnce, live, created, handlers,
                 exiting, ended, got>>

\* The thread leaves with an exception; the scoped lock is undone.
Throw(t) == Goto(t, "out") /\ tl' = Free

FoundInside(t) ==
  /\ At(t, "inside") /\ pInstance # None
  /\ Leave(t) /\ Late(t)
  /\ UNCHANGED <<policy, pInstance, destroyed, destroyedOnce, live, created, handlers,
                 exiting, ended, got>>

\* deadReference() of DefaultLifetime.
DeadThrows(t) ==
  /\ At(t, "inside") /\ pInstance = None /\ destroyed /\ policy = "Default"
  /\ Throw(t) /\ Late(t)
  /\ UNCHANGED <<policy, pInstance, destroyed, destroyedOnce, live, created, handlers,
                 exiting, ended, got>>

\* deadReference() of PhoneixLifetime remembers that there was a death.
Revive(t) ==
  /\ At(t, "inside") /\ pInstance = None
  /\ destroyed => policy # "Default"
  /\ destroyedOnce' = (destroyedOnce \/ (destroyed /\ policy = "Phoenix"))
  /\ destroyed' = FALSE
  /\ Goto(t, "create") /\ Late(t)
  /\ UNCHANGED <<policy, pInstance, tl, live, created, handlers, exiting, ended, got>>

\* create(), or a constructor that throws.
Create(t) ==
  /\ At(t, "create") /\ Late(t)
  /\ \/ /\ created < MaxCreated
        /\ created' = created + 1 /\ live' = live \cup {created'} /\ pInstance' = created'
        /\ Goto(t, "schedule") /\ UNCHANGED tl
     \/ Throw(t) /\ UNCHANGED <<pInstance, live, created>>
  /\ UNCHANGED <<policy, destroyed, destroyedOnce, handlers, exiting, ended, got>>

\* scheduleDestruction(): a phoenix that has died once is not registered again.
ScheduleDestruction(t) ==
  /\ At(t, "schedule")
  /\ handlers' = IF policy = "NoDestroy" \/ (policy = "Phoenix" /\ destroyedOnce)
                 THEN handlers ELSE handlers + 1
  /\ Leave(t) /\ Late(t)
  /\ UNCHANGED <<policy, pInstance, destroyed, destroyedOnce, live, created, exiting, ended,
                 got>>

Unlock(t) ==
  /\ At(t, "unlock") /\ tl' = Free /\ Goto(t, "return") /\ Late(t)
  /\ UNCHANGED <<policy, pInstance, destroyed, destroyedOnce, live, created, handlers,
                 exiting, ended, got>>

\* _pInstance is read once more.
Return(t) ==
  /\ At(t, "return") /\ got' = [got EXCEPT ![t] = pInstance] /\ Goto(t, "out") /\ Late(t)
  /\ UNCHANGED <<policy, pInstance, destroyed, destroyedOnce, tl, live, created, handlers,
                 exiting, ended>>
-----------------------------------------------------------------------------
\* main() returns.  The others may be in the middle of getInstance().
CallExit ==
  /\ At(Main, "out") /\ ~exiting /\ exiting' = TRUE
  /\ late' = \E t \in Threads \ {Main} : pc[t] # "out"
  /\ UNCHANGED <<policy, pInstance, destroyed, destroyedOnce, tl, live, created, handlers,
                 ended, pc, got>>

\* destroySingleton(): the assertion and the deletion, then _pInstance, then _destroyed.
DestroySingleton ==
  /\ At(Main, "out") /\ exiting /\ handlers > 0
  /\ handlers' = handlers - 1
  /\ IF destroyed
     THEN ended' = "abort" /\ UNCHANGED <<live, pc>>
     ELSE live' = live \ {pInstance} /\ Goto(Main, "null") /\ UNCHANGED ended
  /\ UNCHANGED <<policy, pInstance, destroyed, destroyedOnce, tl, created, exiting, got,
                 late>>

ResetPointer ==
  /\ At(Main, "null") /\ pInstance' = None /\ Goto(Main, "flag")
  /\ UNCHANGED <<policy, destroyed, destroyedOnce, tl, live, created, handlers, exiting,
                 ended, got, late>>

SetDestroyed ==
  /\ At(Main, "flag") /\ destroyed' = TRUE /\ Goto(Main, "out")
  /\ UNCHANGED <<policy, pInstance, destroyedOnce, tl, live, created, handlers, exiting,
                 ended, got, late>>

\* No handler is left.
Exit ==
  /\ At(Main, "out") /\ exiting /\ handlers = 0 /\ ended' = "exit"
  /\ UNCHANGED <<policy, pInstance, destroyed, destroyedOnce, tl, live, created, handlers,
                 exiting, pc, got, late>>

Next ==
  \/ \E t \in Threads :
       \/ GetInstance(t) \/ Lock(t) \/ FoundInside(t) \/ DeadThrows(t) \/ Revive(t)
       \/ Create(t) \/ ScheduleDestruction(t) \/ Unlock(t) \/ Return(t)
  \/ CallExit \/ DestroySingleton \/ ResetPointer \/ SetDestroyed \/ Exit

Spec == Init /\ [][Next]_vars
-----------------------------------------------------------------------------
\* There are never two instances, whoever calls getInstance() and even while exit()
\* destroys without the lock.
OneInstance == Cardinality(live) <= 1

\* getInstance() hands out the living instance, although it reads _pInstance again after
\* its tests: before exit(), and in a handler of exit() that runs between the others.
ReturnsLiving ==
  [][\A t \in Threads : pc[t] = "return" /\ pc'[t] = "out" /\ ~late' => got'[t] \in live]_vars

\* exit() destroys what was made, once, and its assertion holds, when no other thread calls
\* getInstance() during it.  Left alive are the instances that no lifetime promises to
\* destroy: NoDestroyLifetime's, and a phoenix that has risen.
ExitDestroysOnce ==
  ended # "no" /\ ~late =>
    /\ ended = "exit"
    /\ live = {} \/ policy = "NoDestroy" \/ (policy = "Phoenix" /\ destroyedOnce)
=============================================================================
