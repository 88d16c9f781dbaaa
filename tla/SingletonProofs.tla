-------------------------- MODULE SingletonProofs --------------------------
(***************************************************************************)
(* Theorems about YR_Singleton for every number of threads and instances   *)
(* and for the three lifetimes.                                            *)
(***************************************************************************)
EXTENDS Singleton, FiniteSetTheorems, TLAPS

\* The lock: who is between the second test and the registration holds it.
LockInv ==
  /\ pc \in [Threads -> Places] /\ got \in [Threads -> {None} \cup Nat]
  /\ \A t \in Threads : pc[t] \in {"inside", "create", "schedule", "unlock"} => tl = t

\* The instance: _pInstance shows it from its birth until it is deleted, and as long as it
\* does not, or the registration is to come, exit() has nothing to call.
InstanceInv ==
  /\ created \in Nat /\ handlers \in 0..1 /\ pInstance \in {None} \cup Nat
  /\ pInstance = None => live = {} /\ handlers = 0
  /\ pInstance # None /\ pc[Main] # "null" => live = {pInstance}
  /\ pc[Main] = "null" => pInstance # None /\ live = {} /\ handlers = 0
  /\ \A t \in Threads : pc[t] = "create" => pInstance = None
  /\ \A t \in Threads : pc[t] = "schedule" => pInstance # None /\ handlers = 0 /\ pc[Main] # "null"

\* exit(): as long as the other threads stay out of getInstance(), Main finds what it left.
ExitInv ==
  /\ exiting \in BOOLEAN /\ late \in BOOLEAN /\ destroyed \in BOOLEAN
  /\ pc[Main] \in {"null", "flag"} => exiting
  /\ late => exiting
  /\ ended # "no" => pc[Main] = "out"
  /\ exiting /\ ~late => \A t \in Threads : t = Main \/ pc[t] = "out"
  /\ ~late => \A t \in Threads : pc[t] \in {"unlock", "return"} => pInstance # None
  /\ ~late /\ pc[Main] = "flag" => pInstance = None
  /\ ~late /\ destroyed => pInstance = None
  /\ ~late /\ destroyed => \A t \in Threads : pc[t] # "create"

\* What no handler of exit() deletes.
Spared == policy = "NoDestroy" \/ (policy = "Phoenix" /\ destroyedOnce)
SparedInv ==
  /\ ~late /\ live # {} /\ ~Spared /\ (\A t \in Threads : pc[t] # "schedule") => handlers = 1
  /\ ~late => ended # "abort"
  /\ ~late /\ ended = "exit" => live = {} \/ Spared
  /\ ended \in {"no", "exit", "abort"}

IInv == LockInv /\ InstanceInv /\ ExitInv /\ SparedInv
-----------------------------------------------------------------------------
\* At first there is nothing.
LEMMA InitInv == Init => IInv
PROOF
  <1> SUFFICES ASSUME Init PROVE IInv
    OBVIOUS
  <1>1. \A t \in Threads : pc[t] = "out"
    BY DEF Init
  <1>2. LockInv
    BY <1>1 DEF Init, LockInv, Places
  <1>3. pc[Main] = "out"
    BY <1>1, ThreadAssumption
  <1>4. InstanceInv
    BY <1>1, <1>3 DEF Init, InstanceInv
  <1>5. ExitInv
    BY <1>1, <1>3 DEF Init, ExitInv
  <1>6. SparedInv
    BY DEF Init, SparedInv
  <1> QED BY <1>2, <1>4, <1>5, <1>6 DEF IInv

\* A step of one thread moves that thread only.
LEMMA OneMoves ==
  ASSUME IInv, NEW t \in Threads, NEW place \in Places, Goto(t, place)
  PROVE  /\ pc' \in [Threads -> Places] /\ pc'[t] = place
         /\ \A u \in Threads \ {t} : pc'[u] = pc[u]
PROOF BY DEF IInv, LockInv, Goto

\* A thread in getInstance() once exit() has been called makes it late.
LEMMA LateMoves ==
  ASSUME IInv, NEW t \in Threads, Late(t)
  PROVE  late' \in BOOLEAN /\ (~late' => ~late /\ (exiting => t = Main)) /\ (late' => exiting)
PROOF BY DEF IInv, ExitInv, Late

\* The tests and the lock, with and without an instance.
LEMMA TestStep ==
  ASSUME IInv, NEW t \in Threads, GetInstance(t) \/ Lock(t) \/ FoundInside(t) \/ DeadThrows(t)
  PROVE  IInv'
PROOF
  <1>t. /\ UNCHANGED <<policy, pInstance, destroyed, destroyedOnce, live, created, handlers,
                       exiting, ended, got>>
        /\ Late(t) /\ ended = "no"
    BY DEF GetInstance, Lock, FoundInside, DeadThrows, At
  <1>1. PICK place \in {"lock", "return", "inside", "unlock", "out"} :
          /\ Goto(t, place)
          /\ place \in {"unlock", "return"} => pInstance # None
          /\ pc[t] \in {"out", "lock", "inside"}
          /\ \/ place \in {"lock", "return"} /\ pc[t] = "out" /\ tl' = tl
             \/ place = "inside" /\ tl = Free /\ tl' = t
             \/ place = "unlock" /\ pc[t] = "inside" /\ tl' = tl
             \/ place = "out" /\ pc[t] = "inside" /\ tl' = Free
    BY DEF GetInstance, Lock, FoundInside, DeadThrows, At, Leave, Throw, Goto
  <1>2. /\ pc' \in [Threads -> Places] /\ pc'[t] = place
        /\ \A u \in Threads \ {t} : pc'[u] = pc[u]
    BY <1>1, OneMoves DEF Places
  <1>3. late' \in BOOLEAN /\ (~late' => ~late /\ (exiting => t = Main)) /\ (late' => exiting)
    BY <1>t, LateMoves
  <1>4. LockInv'
    BY <1>t, <1>1, <1>2, ThreadAssumption DEF IInv, LockInv
  <1>m. pc'[Main] = pc[Main] \/ (t = Main /\ pc[Main] \notin {"null", "flag"}
                                         /\ pc'[Main] \notin {"null", "flag"})
    BY <1>1, <1>2, ThreadAssumption
  <1>5. InstanceInv'
    BY <1>t, <1>1, <1>2, <1>m DEF IInv, InstanceInv
  <1>6. ExitInv'
    BY <1>t, <1>1, <1>2, <1>3, <1>m, ThreadAssumption DEF IInv, ExitInv
  <1>7. SparedInv'
    BY <1>t, <1>1, <1>2, <1>3 DEF IInv, SparedInv, Spared
  <1> QED BY <1>4, <1>5, <1>6, <1>7 DEF IInv

\* deadReference() with the lock held.
LEMMA ReviveStep == ASSUME IInv, NEW t \in Threads, Revive(t) PROVE IInv'
PROOF
  <1>t. /\ UNCHANGED <<policy, pInstance, live, created, handlers, exiting, ended, got, tl>>
        /\ destroyed' = FALSE /\ Late(t) /\ ended = "no" /\ pInstance = None
        /\ pc[t] = "inside" /\ Goto(t, "create") /\ (destroyedOnce => destroyedOnce')
    BY DEF Revive, At
  <1>2. /\ pc' \in [Threads -> Places] /\ pc'[t] = "create"
        /\ \A u \in Threads \ {t} : pc'[u] = pc[u]
    BY <1>t, OneMoves DEF Places
  <1>3. late' \in BOOLEAN /\ (~late' => ~late /\ (exiting => t = Main)) /\ (late' => exiting)
    BY <1>t, LateMoves
  <1>4. LockInv'
    BY <1>t, <1>2 DEF IInv, LockInv
  <1>m. pc'[Main] = pc[Main] \/ (t = Main /\ pc[Main] = "inside" /\ pc'[Main] = "create")
    BY <1>t, <1>2, ThreadAssumption
  <1>5. InstanceInv'
    BY <1>t, <1>2, <1>m DEF IInv, InstanceInv
  <1>6. ExitInv'
    BY <1>t, <1>2, <1>3, <1>m, ThreadAssumption DEF IInv, ExitInv
  <1>7. SparedInv'
    BY <1>t, <1>3, <1>5 DEF IInv, SparedInv, Spared, InstanceInv
  <1> QED BY <1>4, <1>5, <1>6, <1>7 DEF IInv

\* The birth of an instance: none was alive, and exit() has none to delete.
LEMMA CreateStep == ASSUME IInv, NEW t \in Threads, Create(t) PROVE IInv'
PROOF
  <1>t. /\ UNCHANGED <<policy, destroyed, destroyedOnce, handlers, exiting, ended, got>>
        /\ Late(t) /\ ended = "no" /\ pc[t] = "create"
    BY DEF Create, At
  <1>0. /\ pInstance = None /\ live = {} /\ handlers = 0 /\ pc[Main] # "null"
        /\ \A u \in Threads : pc[u] # "schedule"
        /\ \A u \in Threads : pc[u] = "create" => u = t
        /\ created \in Nat
    BY <1>t DEF IInv, InstanceInv, LockInv
  <1>3. late' \in BOOLEAN /\ (~late' => ~late /\ (exiting => t = Main)) /\ (late' => exiting)
    BY <1>t, LateMoves
  <1>1. CASE Goto(t, "schedule") /\ UNCHANGED tl /\ created' = created + 1
             /\ live' = live \cup {created'} /\ pInstance' = created'
    <2>2. /\ pc' \in [Threads -> Places] /\ pc'[t] = "schedule"
          /\ \A u \in Threads \ {t} : pc'[u] = pc[u]
      BY <1>1, OneMoves DEF Places
    <2>4. LockInv'
      BY <1>t, <1>1, <2>2 DEF IInv, LockInv
    <2>m. pc'[Main] # "null"
      BY <1>0, <2>2, ThreadAssumption
    <2>n. pInstance' \in Nat /\ pInstance' # None /\ live' = {pInstance'}
      BY <1>0, <1>1, ThreadAssumption
    <2>5. InstanceInv'
      BY <1>t, <1>0, <1>1, <2>2, <2>m, <2>n DEF InstanceInv
    <2>6. ExitInv'
      <3>1. pc'[Main] \in {"null", "flag"} => exiting /\ pc[Main] = "flag" /\ t # Main
        BY <1>t, <2>2, <2>m, ThreadAssumption DEF IInv, ExitInv
      <3>2. ~late' => pc'[Main] # "flag" /\ ~destroyed
        BY <1>t, <1>3, <3>1 DEF IInv, ExitInv
      <3> QED BY <1>t, <1>3, <2>2, <2>m, <2>n, <3>1, <3>2, ThreadAssumption DEF IInv, ExitInv
    <2>7. SparedInv'
      BY <1>t, <1>3, <2>2 DEF IInv, SparedInv
    <2> QED BY <2>4, <2>5, <2>6, <2>7 DEF IInv
  <1>2. CASE Throw(t) /\ UNCHANGED <<pInstance, live, created>>
    <2>2. /\ pc' \in [Threads -> Places] /\ pc'[t] = "out" /\ tl' = Free
          /\ \A u \in Threads \ {t} : pc'[u] = pc[u]
      BY <1>2, OneMoves DEF Places, Throw
    <2>4. LockInv'
      BY <1>t, <2>2 DEF IInv, LockInv
    <2>m. pc'[Main] = pc[Main] \/ (t = Main /\ pc[Main] = "create" /\ pc'[Main] = "out")
      BY <1>t, <2>2, ThreadAssumption
    <2>5. InstanceInv'
      BY <1>t, <1>2, <2>2, <2>m DEF IInv, InstanceInv
    <2>6. ExitInv'
      BY <1>t, <1>2, <1>3, <2>2, <2>m, ThreadAssumption DEF IInv, ExitInv
    <2>7. SparedInv'
      BY <1>t, <1>0, <1>2, <1>3 DEF IInv, SparedInv, Spared
    <2> QED BY <2>4, <2>5, <2>6, <2>7 DEF IInv
  <1> QED BY <1>1, <1>2 DEF Create

\* The registration, by the thread that made the instance.
LEMMA ScheduleStep == ASSUME IInv, NEW t \in Threads, ScheduleDestruction(t) PROVE IInv'
PROOF
  <1>t. /\ UNCHANGED <<policy, pInstance, destroyed, destroyedOnce, live, created, exiting,
                       ended, got, tl>>
        /\ Late(t) /\ ended = "no" /\ pc[t] = "schedule" /\ Goto(t, "unlock")
        /\ handlers' = IF Spared THEN handlers ELSE handlers + 1
    BY DEF ScheduleDestruction, At, Leave, Spared
  <1>0. handlers = 0 /\ pInstance # None /\ pc[Main] # "null"
    BY <1>t DEF IInv, InstanceInv
  <1>1. handlers' = IF Spared THEN 0 ELSE 1
    BY <1>t, <1>0
  <1>2. /\ pc' \in [Threads -> Places] /\ pc'[t] = "unlock"
        /\ \A u \in Threads \ {t} : pc'[u] = pc[u]
    BY <1>t, OneMoves DEF Places
  <1>3. late' \in BOOLEAN /\ (~late' => ~late /\ (exiting => t = Main)) /\ (late' => exiting)
    BY <1>t, LateMoves
  <1>4. LockInv' /\ \A u \in Threads \ {t} : pc[u] \notin {"create", "schedule"}
    BY <1>t, <1>2 DEF IInv, LockInv
  <1>m. pc'[Main] = pc[Main] \/ (t = Main /\ pc[Main] = "schedule" /\ pc'[Main] = "unlock")
    BY <1>t, <1>2, ThreadAssumption
  <1>5. InstanceInv'
    BY <1>t, <1>0, <1>1, <1>2, <1>4, <1>m DEF IInv, InstanceInv
  <1>6. ExitInv'
    BY <1>t, <1>0, <1>2, <1>3, <1>m, ThreadAssumption DEF IInv, ExitInv
  <1>7. SparedInv'
    <2>1. Spared' <=> Spared
      BY <1>t DEF Spared
    <2> QED BY <1>t, <1>1, <1>3, <2>1 DEF IInv, SparedInv
  <1> QED BY <1>4, <1>5, <1>6, <1>7 DEF IInv

\* The lock is let go, and _pInstance is read.
LEMMA ReturnStep == ASSUME IInv, NEW t \in Threads, Unlock(t) \/ Return(t) PROVE IInv'
PROOF
  <1>t. /\ UNCHANGED <<policy, pInstance, destroyed, destroyedOnce, live, created, handlers,
                       exiting, ended>>
        /\ Late(t) /\ ended = "no"
    BY DEF Unlock, Return, At
  <1>1. PICK place \in {"return", "out"} :
          /\ Goto(t, place) /\ pc[t] \in {"unlock", "return"}
          /\ \/ place = "return" /\ pc[t] = "unlock" /\ tl' = Free /\ got' = got
             \/ place = "out" /\ pc[t] = "return" /\ tl' = tl
                  /\ got' = [got EXCEPT ![t] = pInstance]
    BY DEF Unlock, Return, At
  <1>2. /\ pc' \in [Threads -> Places] /\ pc'[t] = place
        /\ \A u \in Threads \ {t} : pc'[u] = pc[u]
    BY <1>1, OneMoves DEF Places
  <1>3. late' \in BOOLEAN /\ (~late' => ~late /\ (exiting => t = Main)) /\ (late' => exiting)
    BY <1>t, LateMoves
  <1>g. got' \in [Threads -> {None} \cup Nat]
    BY <1>1 DEF IInv, LockInv, InstanceInv
  <1>4. LockInv'
    BY <1>1, <1>2, <1>g DEF IInv, LockInv
  <1>m. pc'[Main] = pc[Main] \/ (t = Main /\ pc[Main] \notin {"null", "flag"}
                                         /\ pc'[Main] \notin {"null", "flag"})
    BY <1>1, <1>2, ThreadAssumption
  <1>5. InstanceInv'
    BY <1>t, <1>1, <1>2, <1>m DEF IInv, InstanceInv
  <1>6. ExitInv'
    BY <1>t, <1>1, <1>2, <1>3, <1>m, ThreadAssumption DEF IInv, ExitInv
  <1>7. SparedInv'
    BY <1>t, <1>1, <1>2, <1>3 DEF IInv, SparedInv, Spared
  <1> QED BY <1>4, <1>5, <1>6, <1>7 DEF IInv

\* exit() begins, finds nothing more to call, or deletes the instance.
LEMMA ExitStep == ASSUME IInv, CallExit \/ Exit \/ DestroySingleton PROVE IInv'
PROOF
  <1>t. /\ UNCHANGED <<policy, pInstance, destroyed, destroyedOnce, tl, created, got>>
        /\ Main \in Threads /\ pc[Main] = "out" /\ ended = "no"
    BY ThreadAssumption DEF CallExit, Exit, DestroySingleton, At
  <1>1. CASE CallExit
    <2>1. /\ UNCHANGED <<live, handlers, ended, pc>> /\ exiting' = TRUE /\ exiting = FALSE
          /\ late' = \E t \in Threads \ {Main} : pc[t] # "out"
      BY <1>1 DEF CallExit, IInv, ExitInv
    <2>2. late' \in BOOLEAN /\ (~late' => \A t \in Threads : t = Main \/ pc[t] = "out")
      BY <2>1, Zenon
    <2>3. LockInv' /\ InstanceInv'
      BY <1>t, <2>1 DEF IInv, LockInv, InstanceInv
    <2>4. ~late' => \A t \in Threads : pc[t] = "out"
      BY <1>t, <2>2
    <2>5. ~late /\ (~late' => (destroyed => pInstance = None))
      BY <2>1 DEF IInv, ExitInv
    <2>6. ExitInv'
      BY <1>t, <2>1, <2>2, <2>4, <2>5 DEF IInv, ExitInv
    <2>7. SparedInv'
      BY <1>t, <2>1, <2>5 DEF IInv, SparedInv, Spared
    <2> QED BY <2>3, <2>6, <2>7 DEF IInv
  <1>2. CASE Exit
    <2>1. UNCHANGED <<live, handlers, exiting, late, pc>> /\ ended' = "exit" /\ handlers = 0
          /\ exiting
      BY <1>2 DEF Exit
    <2>2. LockInv' /\ InstanceInv' /\ ExitInv'
      BY <1>t, <2>1 DEF IInv, LockInv, InstanceInv, ExitInv
    <2>3. ~late => \A t \in Threads : pc[t] # "schedule"
      BY <1>t, <2>1 DEF IInv, ExitInv
    <2>4. SparedInv'
      BY <1>t, <2>1, <2>3 DEF IInv, SparedInv, Spared
    <2> QED BY <2>2, <2>4 DEF IInv
  <1>3. CASE DestroySingleton
    <2>1. /\ UNCHANGED <<exiting, late>> /\ handlers > 0 /\ handlers' = handlers - 1 /\ exiting
          /\ pInstance # None /\ handlers = 1 /\ \A t \in Threads : pc[t] # "schedule"
      BY <1>3 DEF DestroySingleton, IInv, InstanceInv
    <2>2. CASE destroyed
      <3>1. ended' = "abort" /\ UNCHANGED <<live, pc>> /\ late
        BY <1>3, <2>1, <2>2 DEF DestroySingleton, IInv, ExitInv
      <3>2. LockInv' /\ InstanceInv' /\ ExitInv'
        BY <1>t, <2>1, <3>1 DEF IInv, LockInv, InstanceInv, ExitInv
      <3> QED BY <2>1, <3>1, <3>2 DEF IInv, SparedInv
    <2>3. CASE ~destroyed
      <3>1. live' = live \ {pInstance} /\ Goto(Main, "null") /\ UNCHANGED ended
        BY <1>3, <2>3 DEF DestroySingleton
      <3>2. /\ pc' \in [Threads -> Places] /\ pc'[Main] = "null"
            /\ \A u \in Threads \ {Main} : pc'[u] = pc[u]
        BY <1>t, <3>1, OneMoves DEF Places
      <3>3. live' = {}
        BY <1>t, <2>1, <3>1 DEF IInv, InstanceInv
      <3>4. LockInv'
        BY <1>t, <3>2 DEF IInv, LockInv
      <3>5. InstanceInv'
        BY <1>t, <2>1, <3>2, <3>3 DEF IInv, InstanceInv
      <3>6. ExitInv'
        BY <1>t, <2>1, <2>3, <3>1, <3>2 DEF IInv, ExitInv
      <3>7. SparedInv'
        BY <1>t, <3>1, <3>3 DEF SparedInv
      <3> QED BY <3>4, <3>5, <3>6, <3>7 DEF IInv
    <2> QED BY <2>2, <2>3
  <1> QED BY <1>1, <1>2, <1>3

\* ... and its two stores after the deletion.
LEMMA StoreStep == ASSUME IInv, ResetPointer \/ SetDestroyed PROVE IInv'
PROOF
  <1>t. /\ UNCHANGED <<policy, destroyedOnce, tl, live, created, handlers, exiting, ended,
                       got, late>>
        /\ Main \in Threads /\ ended = "no"
    BY ThreadAssumption DEF ResetPointer, SetDestroyed, At
  <1>1. CASE ResetPointer
    <2>1. pc[Main] = "null" /\ Goto(Main, "flag") /\ pInstance' = None /\ UNCHANGED destroyed
      BY <1>1 DEF ResetPointer, At
    <2>2. /\ pc' \in [Threads -> Places] /\ pc'[Main] = "flag"
          /\ \A u \in Threads \ {Main} : pc'[u] = pc[u]
      BY <1>t, <2>1, OneMoves DEF Places
    <2>3. live = {} /\ handlers = 0 /\ \A u \in Threads : pc[u] # "schedule"
      BY <2>1 DEF IInv, InstanceInv
    <2>4. LockInv'
      BY <1>t, <2>2 DEF IInv, LockInv
    <2>5. InstanceInv'
      BY <1>t, <2>1, <2>2, <2>3 DEF IInv, InstanceInv
    <2>6. ~late => \A u \in Threads : pc'[u] \in {"out", "flag"}
      BY <1>t, <2>1, <2>2 DEF IInv, ExitInv
    <2>7. ExitInv'
      BY <1>t, <2>1, <2>2, <2>6 DEF IInv, ExitInv
    <2>8. SparedInv'
      BY <1>t, <2>3 DEF IInv, SparedInv
    <2> QED BY <2>4, <2>5, <2>7, <2>8 DEF IInv
  <1>2. CASE SetDestroyed
    <2>1. pc[Main] = "flag" /\ Goto(Main, "out") /\ destroyed' = TRUE /\ UNCHANGED pInstance
      BY <1>2 DEF SetDestroyed, At
    <2>2. /\ pc' \in [Threads -> Places] /\ pc'[Main] = "out"
          /\ \A u \in Threads \ {Main} : pc'[u] = pc[u]
      BY <1>t, <2>1, OneMoves DEF Places
    <2>4. LockInv'
      BY <1>t, <2>2 DEF IInv, LockInv
    <2>5. InstanceInv'
      BY <1>t, <2>1, <2>2 DEF IInv, InstanceInv
    <2>6. ~late => \A u \in Threads : pc'[u] = "out"
      BY <1>t, <2>1, <2>2 DEF IInv, ExitInv
    <2>7. ExitInv'
      BY <1>t, <2>1, <2>2, <2>6 DEF IInv, ExitInv
    <2>8. SparedInv'
      BY <1>t, <2>1, <2>5 DEF IInv, SparedInv, Spared, ExitInv, InstanceInv
    <2> QED BY <2>4, <2>5, <2>7, <2>8 DEF IInv
  <1> QED BY <1>1, <1>2
-----------------------------------------------------------------------------
\* Every step keeps lock, instance and exit() in order.
LEMMA NextInv == IInv /\ [Next]_vars => IInv'
PROOF
  <1>1. ASSUME IInv, UNCHANGED vars PROVE IInv'
    BY <1>1 DEF vars, IInv, LockInv, InstanceInv, ExitInv, SparedInv, Spared
  <1> QED
    BY <1>1, TestStep, ReviveStep, CreateStep, ScheduleStep, ReturnStep, ExitStep, StoreStep
    DEF Next

\* So they always are.
LEMMA InvCorrect == Spec => []IInv
PROOF BY InitInv, NextInv, PTL DEF Spec

\* There are never two instances, whoever calls getInstance() (YR_Singleton.h:196-223), even
\* while exit() destroys one without the lock.
THEOREM OneInstanceEver == Spec => []OneInstance
PROOF
  <1>1. IInv => OneInstance
    <2> SUFFICES ASSUME IInv PROVE Cardinality(live) <= 1
      BY DEF OneInstance
    <2>1. live = {} \/ live = {pInstance}
      BY DEF IInv, InstanceInv
    <2>2. Cardinality({}) = 0 /\ Cardinality({pInstance}) = 1
      BY FS_EmptySet, FS_Singleton
    <2> QED BY <2>1, <2>2
  <1> QED BY <1>1, InvCorrect, PTL

\* What getInstance() hands out is alive, as long as no other thread calls it during exit().
THEOREM HandsOutLiving == Spec => ReturnsLiving
PROOF
  <1> DEFINE Living == \A t \in Threads : pc[t] = "return" /\ pc'[t] = "out" /\ ~late' => got'[t] \in live
  <1>1. ASSUME IInv, Next, NEW t \in Threads, pc[t] = "return", pc'[t] = "out", ~late'
        PROVE  got'[t] \in live
    <2>1. Return(t)
      <3>1. ASSUME NEW u \in Threads, u # t,
                   \/ GetInstance(u) \/ Lock(u) \/ FoundInside(u) \/ DeadThrows(u) \/ Revive(u)
                   \/ Create(u) \/ ScheduleDestruction(u) \/ Unlock(u) \/ Return(u)
            PROVE  pc'[t] = pc[t]
        <4>1. \E place : pc' = [pc EXCEPT ![u] = place]
          BY <3>1 DEF GetInstance, Lock, FoundInside, DeadThrows, Revive, Create,
                      ScheduleDestruction, Unlock, Return, Goto, Leave, Throw
        <4> QED BY <1>1, <3>1, <4>1 DEF IInv, LockInv
      <3>2. ASSUME CallExit \/ DestroySingleton \/ ResetPointer \/ SetDestroyed \/ Exit
            PROVE  pc'[t] = pc[t]
        <4>1. pc' = pc \/ (Main # t /\ \E place : pc' = [pc EXCEPT ![Main] = place])
          BY <1>1, <3>2 DEF CallExit, DestroySingleton, ResetPointer, SetDestroyed, Exit, At, Goto
        <4> QED BY <1>1, <4>1 DEF IInv, LockInv
      <3>3. pc'[t] # pc[t] /\ pc[t] = "return"
        BY <1>1
      <3>4. \/ GetInstance(t) \/ Lock(t) \/ FoundInside(t) \/ DeadThrows(t) \/ Revive(t)
            \/ Create(t) \/ ScheduleDestruction(t) \/ Unlock(t) \/ Return(t)
        BY <1>1, <3>1, <3>2, <3>3 DEF Next
      <3> QED
        BY <3>3, <3>4 DEF GetInstance, Lock, FoundInside, DeadThrows, Revive, Create,
                          ScheduleDestruction, Unlock, At
    <2>2. got'[t] = pInstance /\ ~late /\ (exiting => t = Main)
      BY <1>1, <2>1, LateMoves DEF Return, IInv, LockInv
    <2>3. pInstance # None /\ pc[Main] # "null"
      BY <1>1, <2>2 DEF IInv, ExitInv
    <2> QED BY <1>1, <2>2, <2>3 DEF IInv, InstanceInv
  <1>2. IInv /\ [Next]_vars => [Living]_vars
    BY <1>1
  <1> QED BY <1>2, InvCorrect, PTL DEF Spec, ReturnsLiving

\* exit() ends without its assertion and leaves alive only what no lifetime promises to
\* destroy, as long as no other thread calls getInstance() during it.
THEOREM ExitLeavesNothing == Spec => []ExitDestroysOnce
PROOF
  <1>1. IInv => ExitDestroysOnce
    BY DEF IInv, SparedInv, Spared, ExitDestroysOnce
  <1> QED BY <1>1, InvCorrect, PTL
=============================================================================
