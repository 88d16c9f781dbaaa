----------------------------- MODULE LockGuard -----------------------------
(***************************************************************************)
(* YR_LockT and YR_TryLock (util/YR_Lock.h) on a monitor: scoped objects   *)
(* whose flag _acquired decides whether their destructor unlocks.  The     *)
(* threads use the monitor through guards only, nested as scopes are, and  *)
(* wait and notify inside them.  Calls that throw, because of the flag or  *)
(* because a plain mutex is locked twice, change nothing.                  *)
(***************************************************************************)
EXTENDS Monitor, Sequences, SequencesExt

CONSTANTS
  MaxGuards,  \* bound: guards that exist at a time; MaxDepth bounds those of one thread
  RetryHeld   \* may tryAcquired() be called on a guard that holds the mutex?

ASSUME GuardAssumption == MaxGuards \in Nat \ {0} /\ RetryHeld \in BOOLEAN

VARIABLE guards   \* the flag _acquired of each thread's guards, the innermost last

guardVars == <<vars, guards>>

GuardInit == Init /\ guards = [t \in Threads |-> <<>>]

Running(t) == t \notin Blocked
Open(t, flag) ==
  /\ Running(t) /\ Len(guards[t]) < MaxDepth
  /\ SumFunction([u \in Threads |-> Len(guards[u])]) < MaxGuards
  /\ guards' = [guards EXCEPT ![t] = Append(@, flag)]
Flag(t, i, flag) == guards' = [guards EXCEPT ![t][i] = flag]

\* tryLock() fails: somebody holds the mutex, in the plain class perhaps t itself.
Busy(t) == owner # NoThread /\ (recursive => owner # t) /\ UNCHANGED vars
-----------------------------------------------------------------------------
\* Mutated form: a destructor that never unlocks.
DestructSilently(t) ==
  /\ Running(t) /\ guards[t] # <<>>
  /\ guards' = [guards EXCEPT ![t] = Front(@)] /\ UNCHANGED vars

\* YR_LockT(mutex).
Construct(t) == Lock(t) /\ Open(t, TRUE)

\* YR_TryLock(mutex).
TryConstruct(t) == (Lock(t) /\ Open(t, TRUE)) \/ (Busy(t) /\ Open(t, FALSE))

Acquire(t, i) == ~guards[t][i] /\ Lock(t) /\ Flag(t, i, TRUE)

\* tryAcquired() overwrites _acquired with the result of tryLock().
TryAcquired(t, i) ==
  /\ guards[t][i] => RetryHeld
  /\ (Lock(t) /\ Flag(t, i, TRUE)) \/ (Busy(t) /\ Flag(t, i, FALSE))

Release(t, i) == guards[t][i] /\ Unlock(t) /\ Flag(t, i, FALSE)

\* The end of the innermost scope, reached or unwound.
Destruct(t) ==
  /\ Running(t) /\ guards[t] # <<>>
  /\ IF Last(guards[t]) THEN Unlock(t) ELSE UNCHANGED vars
  /\ guards' = [guards EXCEPT ![t] = Front(@)]

\* The monitor's own calls inside the scope.
Inside(t) ==
  /\ UNCHANGED guards
  /\ \/ Notify(t) \/ NotifyAll(t)
     \/ \E isTimed \in BOOLEAN : Wait(t, isTimed)
     \/ WakeUnasked(t) \/ Resume(t)

GuardNext ==
  \E t \in Threads :
    \/ Construct(t) \/ TryConstruct(t) \/ Destruct(t) \/ Inside(t)
    \/ Running(t) /\ \E i \in DOMAIN guards[t] :
         Acquire(t, i) \/ TryAcquired(t, i) \/ Release(t, i)

GuardSpec == GuardInit /\ [][GuardNext]_guardVars

\* Scopes nested at most twice are left unless their thread waits for ever, deadlines pass, and a thread that wants the
\* mutex back gets it in the end.  No wake-up without a reason is counted on.
GuardFairSpec ==
  /\ GuardSpec
  /\ \A t \in Threads :
       /\ SF_guardVars(Destruct(t) /\ Len(guards[t]) = 1) /\ WF_guardVars(Destruct(t))
       /\ WF_guardVars(Timeout(t) /\ UNCHANGED guards)
       /\ SF_guardVars(Resume(t) /\ UNCHANGED guards)
-----------------------------------------------------------------------------
\* YR_Lock.h:29 says of the destructor that it unlocks: a thread that has left the
\* scopes of its guards does not keep the mutex.
ScopeEndsUnlocked == \A t \in Threads : guards[t] = <<>> => owner # t
=============================================================================
