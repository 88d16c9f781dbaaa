------------------------------- MODULE Monitor -------------------------------
(***************************************************************************)
(* YR_Monitor (util/YR_Monitor.h) over YR_ThreadMutex or YR_ThreadRecMutex *)
(* and YR_ThreadCond: a mutex, a condition variable, and the counter       *)
(* _nnotify in which notify() and notifyAll() note what unlock() and wait  *)
(* pass on to the condition variable.                                      *)
(*                                                                         *)
(* The pthread mutex is locked once however often a thread has called      *)
(* lock(): the recursive class counts in _count and undoes further locks   *)
(* at once.  A relock of the plain class throws and changes nothing, as    *)
(* does a tryLock that fails; neither is an action.                        *)
(***************************************************************************)
EXTENDS Integers, FiniteSets

CONSTANTS
  Threads,     \* the threads that use the monitor
  Classes,     \* the classes considered: TRUE is YR_ThreadRecLock, FALSE YR_ThreadLock
  MaxDepth,    \* bound: nested lock() calls of one thread
  MaxNotify,   \* bound: notify() calls of one critical section
  NoThread     \* the mutex is free

ASSUME ThreadsAssumption == IsFiniteSet(Threads) /\ NoThread \notin Threads
ASSUME BoundsAssumption ==
  /\ Classes \subseteq BOOLEAN
  /\ MaxDepth \in Nat \ {0} /\ MaxNotify \in Nat

VARIABLES
  recursive, \* the class of this monitor, which never changes
  owner,    \* holder of the pthread mutex
  count,    \* _count of YR_ThreadRecMutex; 0 in the plain class
  nnotify,  \* _nnotify; -1 is notifyAll
  asleep,   \* threads in the condition variable
  awake,    \* threads that have left it and want the mutex back
  timed,    \* of the threads in either, those in timeWait
  saved,    \* what YR_ThreadCond::wait keeps of _count on its stack
  depth,    \* history: lock() calls of each thread not yet undone
  asked     \* history: notifications asked for since the mutex was gained last

vars == <<recursive, owner, count, nnotify, asleep, awake, timed, saved, depth, asked>>

All == -1
Blocked == asleep \cup awake

TypeOK ==
  /\ recursive \in Classes
  /\ owner \in Threads \cup {NoThread}
  /\ count \in 0..MaxDepth
  /\ nnotify \in All..MaxNotify
  /\ asleep \subseteq Threads /\ awake \subseteq Threads /\ timed \subseteq Threads
  /\ saved \in [Threads -> 0..MaxDepth]
  /\ depth \in [Threads -> 0..MaxDepth]
  /\ asked \in All..MaxNotify

Init ==
  /\ recursive \in Classes
  /\ owner = NoThread /\ count = 0 /\ nnotify = 0
  /\ asleep = {} /\ awake = {} /\ timed = {}
  /\ saved = [t \in Threads |-> 0]
  /\ depth = [t \in Threads |-> 0] /\ asked = 0
-----------------------------------------------------------------------------
\* Mutated form: a broadcast taken for "no signal".
NotifyImplOnlyCounting(S, n) ==
  S \subseteq asleep
  /\ (Cardinality(S) = n \/ (S = asleep /\ Cardinality(S) <= n) \/ (n = All /\ S = {}))

\* notifyImpl: n signals, or a broadcast; surplus signals are lost.
NotifyImpl(S, n) ==
  \/ n = All /\ S = asleep
  \/ n # All /\ S \subseteq asleep
     /\ (Cardinality(S) = n \/ (S = asleep /\ Cardinality(S) <= n))

\* Mutated forms: wait() that forgets the signals; a wait that leaves _count behind.
WaitWithoutSignals(t, isTimed) ==
  /\ owner = t
  /\ asleep' = asleep \cup {t} /\ UNCHANGED awake
  /\ timed' = IF isTimed THEN timed \cup {t} ELSE timed
  /\ owner' = NoThread
  /\ saved' = [saved EXCEPT ![t] = count] /\ count' = 0 /\ asked' = 0
  /\ UNCHANGED <<recursive, nnotify, depth>>
WaitKeepingCount(t, isTimed) ==
  \E S \in SUBSET asleep :
    /\ owner = t
    /\ NotifyImpl(S, nnotify)
    /\ asleep' = (asleep \ S) \cup {t} /\ awake' = awake \cup S
    /\ timed' = IF isTimed THEN timed \cup {t} ELSE timed
    /\ owner' = NoThread
    /\ saved' = [saved EXCEPT ![t] = count] /\ asked' = 0
    /\ UNCHANGED <<recursive, count, nnotify, depth>>

\* lock(), and tryLock() when it succeeds.
Lock(t) ==
  /\ t \notin Blocked /\ depth[t] < MaxDepth
  /\ owner = NoThread \/ (recursive /\ owner = t)
  /\ owner' = t
  /\ count' = IF recursive THEN count + 1 ELSE count
  /\ nnotify' = 0
  /\ depth' = [depth EXCEPT ![t] = @ + 1]
  /\ UNCHANGED <<recursive, asleep, awake, timed, saved, asked>>

Notify(t) ==
  /\ owner = t /\ nnotify # All /\ nnotify < MaxNotify /\ asked < MaxNotify
  /\ nnotify' = nnotify + 1
  /\ asked' = IF asked = All THEN All ELSE asked + 1
  /\ UNCHANGED <<recursive, owner, count, asleep, awake, timed, saved, depth>>

NotifyAll(t) ==
  /\ owner = t
  /\ nnotify' = All /\ asked' = All
  /\ UNCHANGED <<recursive, owner, count, asleep, awake, timed, saved, depth>>

\* The mutex is released by the outermost unlock(); _nnotify stays as it is.
Unlock(t) ==
  /\ owner = t
  /\ \E S \in SUBSET asleep :
       /\ NotifyImpl(S, nnotify)
       /\ asleep' = asleep \ S /\ awake' = awake \cup S
  /\ count' = IF recursive THEN count - 1 ELSE count
  /\ owner' = IF count' = 0 THEN NoThread ELSE t
  /\ depth' = [depth EXCEPT ![t] = @ - 1]
  /\ asked' = IF owner' = NoThread THEN 0 ELSE asked
  /\ UNCHANGED <<recursive, nnotify, timed, saved>>

\* wait() and timeWait() up to the release inside pthread_cond_wait.
Wait(t, isTimed) ==
  /\ owner = t
  /\ \E S \in SUBSET asleep :
       /\ NotifyImpl(S, nnotify)
       /\ asleep' = (asleep \ S) \cup {t} /\ awake' = awake \cup S
  /\ timed' = IF isTimed THEN timed \cup {t} ELSE timed
  /\ owner' = NoThread
  /\ saved' = [saved EXCEPT ![t] = count] /\ count' = 0 /\ asked' = 0
  /\ UNCHANGED <<recursive, nnotify, depth>>

\* The deadline of a timeWait, or a spurious wake-up.
WakeUnasked(t) ==
  /\ t \in asleep
  /\ asleep' = asleep \ {t} /\ awake' = awake \cup {t}
  /\ UNCHANGED <<recursive, owner, count, nnotify, timed, saved, depth, asked>>
Timeout(t) == t \in timed /\ WakeUnasked(t)

\* The mutex is regained and the call returns.
Resume(t) ==
  /\ t \in awake /\ owner = NoThread
  /\ owner' = t
  /\ count' = saved[t]
  /\ nnotify' = 0
  /\ awake' = awake \ {t} /\ timed' = timed \ {t}
  /\ saved' = [saved EXCEPT ![t] = 0]
  /\ UNCHANGED <<recursive, asleep, depth, asked>>

Next ==
  \E t \in Threads :
    \/ Lock(t) \/ Notify(t) \/ NotifyAll(t) \/ Unlock(t)
    \/ (\E isTimed \in BOOLEAN : Wait(t, isTimed))
    \/ WakeUnasked(t) \/ Resume(t)

Spec == Init /\ [][Next]_vars
-----------------------------------------------------------------------------
\* _count follows the nesting of the holder through every wait: a thread that waits
\* at depth n has let the mutex go altogether and has it n deep again afterwards.
NestingCounted ==
  /\ \A t \in Threads : depth[t] > 0 <=> t = owner \/ t \in Blocked
  /\ recursive => count = IF owner = NoThread THEN 0 ELSE depth[owner]
  /\ recursive => \A t \in Blocked : saved[t] = depth[t]
  /\ asleep \cap awake = {} /\ owner \notin Blocked

\* Deferring the signals loses none and invents none: when a YR_ThreadLock is let go,
\* exactly as many sleepers have been signalled as the section asked for.
NotifiedExactly ==
  [][~recursive /\ owner # NoThread /\ owner' = NoThread =>
       NotifyImpl(asleep \ asleep', asked)]_vars

\* notifyAll wakes all threads that wait on a YR_ThreadLock ...
Called(t) == t \in asleep /\ owner # NoThread /\ nnotify = All
NotifyAllWakes == \A t \in Threads : ~recursive /\ Called(t) ~> t \notin asleep

\* ... and, as YR_Monitor.h:88 has it, on the lock, whatever its class.
NotifyAllAlwaysWakes == \A t \in Threads : Called(t) ~> t \notin asleep
=============================================================================
