--------------------------- MODULE MonitorProofs ---------------------------
(***************************************************************************)
(* Theorems about Monitor for every set of threads, both mutex classes and *)
(* every depth of nesting, and about the scoped guards of LockGuard.       *)
(***************************************************************************)
EXTENDS LockGuard, FiniteSetTheorems, SequenceTheorems, TLAPS

\* In the plain class _count stays 0 and no thread holds the mutex twice.
PlainInv ==
  ~recursive => count = 0 /\ \A t \in Threads : saved[t] = 0 /\ depth[t] <= 1

\* ... and _nnotify is what was asked for since the mutex was gained.
AskedInv == ~recursive => asked = IF owner = NoThread THEN 0 ELSE nnotify

IInv == TypeOK /\ NestingCounted /\ PlainInv /\ AskedInv
-----------------------------------------------------------------------------
\* At first nobody holds the mutex.
LEMMA InitInv == Init => IInv
PROOF
  <1> SUFFICES ASSUME Init PROVE IInv
    OBVIOUS
  <1>1. 0 \in 0..MaxDepth /\ 0 \in All..MaxNotify
    BY BoundsAssumption DEF All
  <1>2. TypeOK
    BY <1>1 DEF Init, TypeOK
  <1>3. NestingCounted
    BY ThreadsAssumption DEF Init, NestingCounted, Blocked
  <1> QED BY <1>2, <1>3 DEF Init, IInv, PlainInv, AskedInv

\* Threads that leave the condition variable, whoever wakes them, stay blocked.
LEMMA WakingInv ==
  ASSUME IInv, NEW S \in SUBSET asleep,
         asleep' = asleep \ S, awake' = awake \cup S,
         UNCHANGED <<recursive, owner, count, nnotify, timed, saved, depth, asked>>
  PROVE  IInv'
PROOF
  <1>1. Blocked' = Blocked
    BY DEF Blocked
  <1>2. TypeOK'
    BY DEF IInv, TypeOK
  <1>3. NestingCounted'
    BY <1>1 DEF IInv, NestingCounted
  <1> QED BY <1>2, <1>3 DEF IInv, PlainInv, AskedInv

\* The holder's own counters.
LEMMA NotifyInv == ASSUME IInv, NEW t \in Threads, Notify(t) \/ NotifyAll(t) PROVE IInv'
PROOF
  <1> USE DEF IInv
  <1>1. nnotify' \in All..MaxNotify /\ asked' \in All..MaxNotify
    BY BoundsAssumption DEF Notify, NotifyAll, TypeOK, All
  <1>2. TypeOK'
    BY <1>1 DEF Notify, NotifyAll, TypeOK
  <1>3. NestingCounted' /\ PlainInv'
    BY DEF Notify, NotifyAll, NestingCounted, PlainInv, Blocked
  <1>4. ~recursive => asked' = nnotify'
    BY ThreadsAssumption DEF Notify, NotifyAll, AskedInv, TypeOK
  <1>5. AskedInv'
    BY <1>4, ThreadsAssumption DEF Notify, NotifyAll, AskedInv
  <1> QED BY <1>2, <1>3, <1>5

\* lock(): the thread holds the mutex once more, or for the first time.
LEMMA LockInv == ASSUME IInv, NEW t \in Threads, Lock(t) PROVE IInv'
PROOF
  <1> USE DEF IInv
  <1>1. owner = NoThread => depth[t] = 0
    BY ThreadsAssumption DEF Lock, NestingCounted, TypeOK
  <1>2. depth'[t] = depth[t] + 1 /\ depth[t] \in 0..MaxDepth /\ depth'[t] \in 1..MaxDepth
        /\ \A u \in Threads \ {t} : depth'[u] = depth[u]
    BY BoundsAssumption DEF Lock, TypeOK
  <1>3. CASE recursive
    <2>1. count = depth[t] /\ count' = depth'[t]
      BY <1>1, <1>2, <1>3, ThreadsAssumption DEF Lock, NestingCounted
    <2>2. TypeOK'
      BY <1>2, <2>1, BoundsAssumption DEF Lock, TypeOK, All
    <2>3. NestingCounted'
      BY <1>2, <2>1, ThreadsAssumption DEF Lock, NestingCounted, Blocked, TypeOK
    <2>4. recursive'
      BY <1>3 DEF Lock
    <2> QED BY <2>2, <2>3, <2>4 DEF PlainInv, AskedInv
  <1>4. CASE ~recursive
    <2>1. owner = NoThread /\ count' = count /\ ~recursive' /\ nnotify' = 0 /\ asked' = asked
      BY <1>4 DEF Lock
    <2>2. TypeOK'
      BY <1>2, <2>1, BoundsAssumption DEF Lock, TypeOK, All
    <2>3. NestingCounted'
      BY <1>2, <2>1, ThreadsAssumption DEF Lock, NestingCounted, Blocked, TypeOK
    <2>4. PlainInv'
      BY <1>1, <1>2, <1>4, <2>1 DEF Lock, PlainInv
    <2>5. AskedInv'
      BY <1>4, <2>1, ThreadsAssumption DEF AskedInv
    <2> QED BY <2>2, <2>3, <2>4, <2>5
  <1> QED BY <1>3, <1>4

\* unlock(): one lock() less, and the mutex is free with the last.
LEMMA UnlockInv == ASSUME IInv, NEW t \in Threads, Unlock(t) PROVE IInv'
PROOF
  <1> USE DEF IInv
  <1>1. depth[t] \in 1..MaxDepth /\ depth'[t] = depth[t] - 1
        /\ \A u \in Threads \ {t} : depth'[u] = depth[u]
    BY BoundsAssumption DEF Unlock, TypeOK, NestingCounted
  <1>2. PICK S \in SUBSET asleep : asleep' = asleep \ S /\ awake' = awake \cup S
    BY DEF Unlock
  <1>3. Blocked' = Blocked /\ asleep' \subseteq Threads /\ awake' \subseteq Threads
        /\ asleep' \cap awake' = {}
    BY <1>2 DEF Blocked, TypeOK, NestingCounted
  <1>4. owner = t /\ t \notin Blocked /\ t # NoThread
    BY ThreadsAssumption DEF Unlock, NestingCounted
  <1>5. owner' = (IF depth'[t] = 0 THEN NoThread ELSE t) /\ count' \in 0..MaxDepth
        /\ (recursive => count' = depth'[t]) /\ (~recursive => count' = 0 /\ depth'[t] = 0)
    <2>1. CASE recursive
      <3>1. count = depth[t] /\ count' = count - 1
        BY <1>4, <2>1, ThreadsAssumption DEF Unlock, NestingCounted
      <3>2. owner' = IF count' = 0 THEN NoThread ELSE t
        BY DEF Unlock
      <3> QED BY <1>1, <2>1, <3>1, <3>2, BoundsAssumption
    <2>2. CASE ~recursive
      <3>1. count' = 0 /\ depth[t] <= 1
        BY <2>2 DEF Unlock, PlainInv
      <3>2. owner' = NoThread
        BY <3>1 DEF Unlock
      <3> QED BY <1>1, <2>2, <3>1, <3>2, BoundsAssumption
    <2>3. recursive \/ ~recursive
      OBVIOUS
    <2>4. owner' = (IF depth'[t] = 0 THEN NoThread ELSE t)
      BY <2>1, <2>2, <2>3, Zenon
    <2>5. count' \in 0..MaxDepth
      BY <2>1, <2>2, <2>3, Zenon
    <2>6. (recursive => count' = depth'[t]) /\ (~recursive => count' = 0 /\ depth'[t] = 0)
      BY <2>1, <2>2, <2>3, Zenon
    <2> QED BY <2>4, <2>5, <2>6, Zenon
  <1>6. TypeOK'
    <2>1. owner' \in Threads \cup {NoThread} /\ depth' \in [Threads -> 0..MaxDepth]
      BY <1>1, <1>5, BoundsAssumption DEF Unlock, TypeOK
    <2>2. asked' \in All..MaxNotify
      BY BoundsAssumption DEF Unlock, TypeOK, All
    <2> QED BY <1>3, <1>5, <2>1, <2>2 DEF Unlock, TypeOK
  <1>7. NestingCounted'
    <2>1. \A u \in Threads : depth'[u] > 0 <=> u = owner' \/ u \in Blocked'
      <3>1. ASSUME NEW u \in Threads, u # t PROVE depth'[u] > 0 <=> u = owner' \/ u \in Blocked'
        BY <1>1, <1>3, <1>4, <1>5, <3>1, ThreadsAssumption DEF NestingCounted
      <3>2. depth'[t] > 0 <=> t = owner' \/ t \in Blocked'
        BY <1>1, <1>3, <1>4, <1>5, BoundsAssumption
      <3> QED BY <3>1, <3>2
    <2>2. UNCHANGED <<recursive, saved>> /\ owner' \notin Blocked'
      BY <1>3, <1>4, <1>5, ThreadsAssumption DEF Unlock, Blocked, TypeOK
    <2>3. recursive => count' = IF owner' = NoThread THEN 0 ELSE depth'[owner']
      BY <1>4, <1>5
    <2>4. recursive => \A u \in Blocked : saved[u] = depth'[u]
      BY <1>1, <1>4 DEF NestingCounted, Blocked, TypeOK
    <2> QED BY <1>3, <2>1, <2>2, <2>3, <2>4 DEF NestingCounted
  <1>8. PlainInv'
    BY <1>1, <1>5 DEF Unlock, PlainInv
  <1>9. AskedInv'
    BY <1>5 DEF Unlock, AskedInv
  <1> QED BY <1>6, <1>7, <1>8, <1>9

\* A wait lets the mutex go whatever the depth, and keeps the depth on its stack.
LEMMA WaitInv ==
  ASSUME IInv, NEW t \in Threads, NEW isTimed \in BOOLEAN, Wait(t, isTimed)
  PROVE  IInv'
PROOF
  <1> USE DEF IInv
  <1>1. PICK S \in SUBSET asleep :
          asleep' = (asleep \ S) \cup {t} /\ awake' = awake \cup S
    BY DEF Wait
  <1>2. owner = t /\ t \notin Blocked /\ t # NoThread /\ depth[t] > 0
    BY ThreadsAssumption DEF Wait, NestingCounted
  <1>3. Blocked' = Blocked \cup {t} /\ asleep' \subseteq Threads /\ awake' \subseteq Threads
        /\ asleep' \cap awake' = {}
    BY <1>1, <1>2 DEF Blocked, TypeOK, NestingCounted
  <1>4. timed' \subseteq Threads
    BY DEF Wait, TypeOK
  <1>5. saved'[t] = count /\ \A u \in Threads \ {t} : saved'[u] = saved[u]
    BY DEF Wait, TypeOK
  <1>6. TypeOK'
    BY <1>3, <1>4, BoundsAssumption DEF Wait, TypeOK, All
  <1>7. NestingCounted'
    <2>1. \A u \in Threads : depth[u] > 0 <=> u \in Blocked'
      BY <1>2, <1>3 DEF NestingCounted
    <2>2. owner' = NoThread /\ count' = 0 /\ UNCHANGED <<recursive, depth>>
      BY DEF Wait
    <2>3. recursive => \A u \in Blocked' : saved'[u] = depth[u]
      BY <1>2, <1>3, <1>5 DEF NestingCounted, Blocked, TypeOK
    <2>4. NoThread \notin Blocked'
      BY <1>3, ThreadsAssumption DEF Blocked
    <2> QED BY <1>3, <2>1, <2>2, <2>3, <2>4, ThreadsAssumption DEF NestingCounted
  <1>8. PlainInv'
    BY <1>5 DEF Wait, PlainInv
  <1>9. AskedInv'
    BY DEF Wait, AskedInv
  <1> QED BY <1>6, <1>7, <1>8, <1>9

\* The mutex regained at the depth at which it was let go.
LEMMA ResumeInv == ASSUME IInv, NEW t \in Threads, Resume(t) PROVE IInv'
PROOF
  <1> USE DEF IInv
  <1>1. t \in Blocked /\ depth[t] > 0 /\ t # NoThread /\ t \notin asleep
    BY ThreadsAssumption DEF Resume, NestingCounted, Blocked
  <1>2. Blocked' = Blocked \ {t}
    BY <1>1 DEF Resume, Blocked
  <1>3. \A u \in Threads \ {t} : saved'[u] = saved[u]
    BY DEF Resume, TypeOK
  <1>4. saved'[t] = 0
    BY DEF Resume, TypeOK
  <1>5. TypeOK'
    BY BoundsAssumption DEF Resume, TypeOK, All
  <1>6. NestingCounted'
    <2>1. \A u \in Threads : depth[u] > 0 <=> u = t \/ u \in Blocked'
      BY <1>1, <1>2, ThreadsAssumption DEF Resume, NestingCounted
    <2>2. owner' = t /\ UNCHANGED <<recursive, depth>> /\ count' = saved[t]
      BY DEF Resume
    <2>3. recursive => count' = depth[t]
      BY <1>1, <2>2 DEF NestingCounted
    <2>4. recursive => \A u \in Blocked' : saved'[u] = depth[u]
      BY <1>2, <1>3 DEF NestingCounted, Blocked, TypeOK
    <2>5. asleep' \cap awake' = {} /\ t \notin Blocked'
      BY <1>2 DEF Resume, NestingCounted
    <2> QED BY <1>1, <2>1, <2>2, <2>3, <2>4, <2>5 DEF NestingCounted
  <1>7. PlainInv'
    BY <1>3, <1>4 DEF Resume, PlainInv
  <1>8. AskedInv'
    BY <1>1 DEF Resume, AskedInv
  <1> QED BY <1>5, <1>6, <1>7, <1>8

\* Every step keeps all four.
LEMMA NextInv == IInv /\ [Next]_vars => IInv'
PROOF
  <1>1. ASSUME IInv, UNCHANGED vars PROVE IInv'
    BY <1>1 DEF vars, IInv, TypeOK, NestingCounted, Blocked, PlainInv, AskedInv
  <1>2. ASSUME IInv, NEW t \in Threads, WakeUnasked(t) PROVE IInv'
    <2>1. {t} \in SUBSET asleep
      BY <1>2 DEF WakeUnasked
    <2> QED BY <1>2, <2>1, WakingInv DEF WakeUnasked
  <1> QED
    BY <1>1, <1>2, NotifyInv, LockInv, UnlockInv, WaitInv, ResumeInv DEF Next

\* So they always hold.
LEMMA InvCorrect == Spec => []IInv
PROOF BY InitInv, NextInv, PTL DEF Spec

\* Every variable of the monitor keeps its type.
THEOREM TypeCorrect == Spec => []TypeOK
PROOF
  <1>1. IInv => TypeOK BY DEF IInv
  <1> QED BY <1>1, InvCorrect, PTL

\* _count follows the nesting of lock() through every wait (YR_ThreadCond.h:36-38).
THEOREM NestingCorrect == Spec => []NestingCounted
PROOF
  <1>1. IInv => NestingCounted BY DEF IInv
  <1> QED BY <1>1, InvCorrect, PTL

\* unlock() and wait pass on exactly the signals that notify() and notifyAll() asked
\* for while a YR_ThreadLock was held (YR_Monitor.h:30 and :47).
THEOREM SignalsPassedOn == Spec => NotifiedExactly
PROOF
  <1> DEFINE Exact == ~recursive /\ owner # NoThread /\ owner' = NoThread
                        => NotifyImpl(asleep \ asleep', asked)
  <1>1. ASSUME IInv, Next, ~recursive, owner # NoThread, owner' = NoThread
        PROVE  NotifyImpl(asleep \ asleep', asked)
    <2>1. PICK t \in Threads :
            Unlock(t) \/ \E isTimed \in BOOLEAN : Wait(t, isTimed)
      BY <1>1, ThreadsAssumption DEF Next, Lock, Notify, NotifyAll, WakeUnasked, Resume
    <2>2. PICK S \in SUBSET asleep :
            /\ NotifyImpl(S, nnotify)
            /\ asleep' = asleep \ S \/ asleep' = (asleep \ S) \cup {t}
      BY <2>1 DEF Unlock, Wait
    <2>3. owner = t /\ t \notin asleep
      BY <1>1, <2>1 DEF Unlock, Wait, IInv, NestingCounted, Blocked
    <2>4. asleep \ asleep' = S
      BY <2>2, <2>3
    <2>5. asked = nnotify
      BY <1>1 DEF IInv, AskedInv
    <2> QED BY <2>2, <2>4, <2>5
  <1>2. IInv /\ [Next]_vars => [Exact]_vars
    BY <1>1
  <1> QED BY <1>2, InvCorrect, PTL DEF Spec, NotifiedExactly
-----------------------------------------------------------------------------
(* The guards.  The destructor decides by its flag alone, so the number of guards of a   *)
(* thread that believe they hold the mutex has to be its lock() calls not yet undone.    *)

\* The guards among flags that are set.
HeldIn(flags) == {i \in DOMAIN flags : flags[i] = TRUE}

GuardsInv ==
  /\ guards \in [Threads -> Seq(BOOLEAN)]
  /\ \A t \in Threads : Cardinality(HeldIn(guards[t])) = depth[t]

\* A thread has finitely many guards.
LEMMA HeldFinite ==
  ASSUME NEW s \in Seq(BOOLEAN)
  PROVE  IsFiniteSet(HeldIn(s)) /\ Cardinality(HeldIn(s)) \in Nat
PROOF
  <1>1. HeldIn(s) \subseteq 1..Len(s)
    BY DEF HeldIn
  <1>2. IsFiniteSet(1..Len(s))
    BY FS_Interval
  <1>3. IsFiniteSet(HeldIn(s))
    BY <1>1, <1>2, FS_Subset
  <1> QED BY <1>3, FS_CardinalityType

\* A new guard, an old one whose flag is set or reset, and the innermost one left.
LEMMA HeldAppended ==
  ASSUME NEW s \in Seq(BOOLEAN), NEW flag \in BOOLEAN
  PROVE  Cardinality(HeldIn(Append(s, flag))) = Cardinality(HeldIn(s)) + (IF flag = TRUE THEN 1 ELSE 0)
PROOF
  <1>1. CASE flag = TRUE
    <2>1. HeldIn(Append(s, flag)) = HeldIn(s) \cup {Len(s) + 1}
      BY <1>1 DEF HeldIn
    <2>2. Len(s) + 1 \notin HeldIn(s)
      BY DEF HeldIn
    <2> QED BY <1>1, <2>1, <2>2, HeldFinite, FS_AddElement
  <1>2. CASE flag = FALSE
    <2>1. HeldIn(Append(s, flag)) = HeldIn(s)
      BY <1>2 DEF HeldIn
    <2> QED BY <1>2, <2>1, HeldFinite
  <1> QED BY <1>1, <1>2

LEMMA HeldSet ==
  ASSUME NEW s \in Seq(BOOLEAN), NEW i \in DOMAIN s, s[i] = FALSE
  PROVE  Cardinality(HeldIn([s EXCEPT ![i] = TRUE])) = Cardinality(HeldIn(s)) + 1
PROOF
  <1>1. HeldIn([s EXCEPT ![i] = TRUE]) = HeldIn(s) \cup {i} /\ i \notin HeldIn(s)
    BY DEF HeldIn
  <1> QED BY <1>1, HeldFinite, FS_AddElement

LEMMA HeldReset ==
  ASSUME NEW s \in Seq(BOOLEAN), NEW i \in DOMAIN s, s[i] = TRUE
  PROVE  Cardinality(HeldIn([s EXCEPT ![i] = FALSE])) = Cardinality(HeldIn(s)) - 1
PROOF
  <1>1. HeldIn([s EXCEPT ![i] = FALSE]) = HeldIn(s) \ {i} /\ i \in HeldIn(s)
    BY DEF HeldIn
  <1> QED BY <1>1, HeldFinite, FS_RemoveElement

LEMMA HeldLeft ==
  ASSUME NEW s \in Seq(BOOLEAN), s # <<>>
  PROVE  /\ Front(s) \in Seq(BOOLEAN) /\ Last(s) \in BOOLEAN
         /\ Cardinality(HeldIn(Front(s))) =
              Cardinality(HeldIn(s)) - (IF Last(s) = TRUE THEN 1 ELSE 0)
PROOF
  <1> DEFINE n == Len(s) - 1
  <1>a. Len(s) \in Nat \ {0} /\ n \in Nat /\ s \in [1..Len(s) -> BOOLEAN]
    BY EmptySeq, LenProperties
  <1>b. /\ SubSeq(s, 1, n) \in Seq(BOOLEAN) /\ Len(SubSeq(s, 1, n)) = n
        /\ \A i \in 1..n : SubSeq(s, 1, n)[i] = s[i]
    BY <1>a
  <1>1. /\ Len(s) \in Nat \ {0} /\ Front(s) \in Seq(BOOLEAN) /\ Last(s) \in BOOLEAN
        /\ Len(Front(s)) = Len(s) - 1 /\ \A i \in 1..(Len(s) - 1) : Front(s)[i] = s[i]
    BY <1>a, <1>b DEF Front, Last
  <1>2. CASE Last(s) = TRUE
    <2>1. HeldIn(Front(s)) = HeldIn(s) \ {Len(s)} /\ Len(s) \in HeldIn(s)
      BY <1>1, <1>2 DEF HeldIn, Last
    <2> QED BY <1>1, <1>2, <2>1, HeldFinite, FS_RemoveElement
  <1>3. CASE Last(s) = FALSE
    <2>1. HeldIn(Front(s)) = HeldIn(s)
      BY <1>1, <1>3 DEF HeldIn, Last
    <2> QED BY <1>1, <1>3, <2>1, HeldFinite
  <1> QED BY <1>1, <1>2, <1>3

\* At first there are no guards.
LEMMA InitGuards == GuardInit => GuardsInv
PROOF
  <1>1. HeldIn(<<>>) = {}
    BY DEF HeldIn
  <1>2. Cardinality({}) = 0
    BY FS_EmptySet
  <1>3. ASSUME GuardInit, NEW t \in Threads
        PROVE  guards[t] = <<>> /\ depth[t] = 0
    BY <1>3 DEF GuardInit, Init
  <1>4. GuardInit => guards \in [Threads -> Seq(BOOLEAN)]
    BY DEF GuardInit
  <1> QED BY <1>1, <1>2, <1>3, <1>4 DEF GuardsInv

\* A step of one thread: its flags and its lock() calls change alike.
LEMMA FlagsFollow ==
  ASSUME IInv, GuardsInv, NEW t \in Threads,
         NEW flags \in Seq(BOOLEAN), guards' = [guards EXCEPT ![t] = flags],
         \A u \in Threads \ {t} : depth'[u] = depth[u],
         Cardinality(HeldIn(flags)) = depth'[t]
  PROVE  GuardsInv'
PROOF
  <1>1. guards' \in [Threads -> Seq(BOOLEAN)] /\ guards'[t] = flags
        /\ \A u \in Threads \ {t} : guards'[u] = guards[u]
    BY DEF GuardsInv
  <1> QED BY <1>1 DEF GuardsInv

\* What lock(), unlock() and a failing tryLock() do to the nesting.
LEMMA DepthMoves ==
  ASSUME IInv, NEW t \in Threads
  PROVE  /\ \A u \in Threads : depth[u] \in Nat
         /\ Lock(t) => depth'[t] = depth[t] + 1 /\ \A u \in Threads \ {t} : depth'[u] = depth[u]
         /\ Unlock(t) => depth'[t] = depth[t] - 1 /\ \A u \in Threads \ {t} : depth'[u] = depth[u]
         /\ Busy(t) => \A u \in Threads : depth'[u] = depth[u]
PROOF
  <1>1. depth \in [Threads -> 0..MaxDepth]
    BY DEF IInv, TypeOK
  <1> QED BY <1>1, BoundsAssumption DEF Lock, Unlock, Busy, vars

\* A flag that is set with lock(), or reset with unlock().
LEMMA FlagMoves ==
  ASSUME IInv, GuardsInv, NEW t \in Threads, NEW i \in DOMAIN guards[t],
         \/ ~guards[t][i] /\ Lock(t) /\ Flag(t, i, TRUE)
         \/ ~guards[t][i] /\ Busy(t) /\ Flag(t, i, FALSE)
         \/ Release(t, i)
  PROVE  GuardsInv'
PROOF
  <1>t. /\ guards[t] \in Seq(BOOLEAN) /\ guards[t][i] \in BOOLEAN
        /\ Cardinality(HeldIn(guards[t])) = depth[t]
    BY DEF GuardsInv
  <1>1. CASE ~guards[t][i] /\ Lock(t) /\ Flag(t, i, TRUE)
    <2> DEFINE flags == [guards[t] EXCEPT ![i] = TRUE]
    <2>1. guards[t][i] = FALSE
      BY <1>t, <1>1
    <2>2. flags \in Seq(BOOLEAN)
      BY <1>t
    <2>3. Cardinality(HeldIn(flags)) = depth[t] + 1
      BY <1>t, <2>1, HeldSet
    <2>4. guards' = [guards EXCEPT ![t] = flags]
      BY <1>1 DEF Flag
    <2>5. Cardinality(HeldIn(flags)) = depth'[t] /\ \A u \in Threads \ {t} : depth'[u] = depth[u]
      BY <1>1, <2>3, DepthMoves
    <2> HIDE DEF flags
    <2> QED BY <2>2, <2>4, <2>5, FlagsFollow
  <1>2. CASE ~guards[t][i] /\ Busy(t) /\ Flag(t, i, FALSE)
    <2> DEFINE flags == [guards[t] EXCEPT ![i] = FALSE]
    <2>1. guards[t][i] = FALSE
      BY <1>t, <1>2
    <2>2. flags \in Seq(BOOLEAN)
      BY <1>t
    <2>3. HeldIn(flags) = HeldIn(guards[t])
      BY <1>t, <2>1 DEF HeldIn
    <2>4. guards' = [guards EXCEPT ![t] = flags]
      BY <1>2 DEF Flag
    <2>5. Cardinality(HeldIn(flags)) = depth'[t] /\ \A u \in Threads \ {t} : depth'[u] = depth[u]
      BY <1>t, <1>2, <2>3, DepthMoves
    <2> HIDE DEF flags
    <2> QED BY <2>2, <2>4, <2>5, FlagsFollow
  <1>3. CASE Release(t, i)
    <2> DEFINE flags == [guards[t] EXCEPT ![i] = FALSE]
    <2>1. guards[t][i] = TRUE
      BY <1>t, <1>3 DEF Release
    <2>2. flags \in Seq(BOOLEAN)
      BY <1>t
    <2>3. Cardinality(HeldIn(flags)) = depth[t] - 1
      BY <1>t, <2>1, HeldReset
    <2>4. guards' = [guards EXCEPT ![t] = flags]
      BY <1>3 DEF Release, Flag
    <2>5. Cardinality(HeldIn(flags)) = depth'[t] /\ \A u \in Threads \ {t} : depth'[u] = depth[u]
      BY <1>3, <2>3, DepthMoves DEF Release
    <2> HIDE DEF flags
    <2> QED BY <2>2, <2>4, <2>5, FlagsFollow
  <1> QED BY <1>1, <1>2, <1>3

\* The beginning and the end of a scope.
LEMMA ScopeMoves ==
  ASSUME IInv, GuardsInv, NEW t \in Threads, Construct(t) \/ TryConstruct(t) \/ Destruct(t)
  PROVE  GuardsInv'
PROOF
  <1>t. guards[t] \in Seq(BOOLEAN) /\ Cardinality(HeldIn(guards[t])) = depth[t]
    BY DEF GuardsInv
  <1>1. ASSUME NEW flag \in BOOLEAN, Open(t, flag), IF flag = TRUE THEN Lock(t) ELSE Busy(t)
        PROVE  GuardsInv'
    <2> DEFINE flags == Append(guards[t], flag)
    <2>1. flags \in Seq(BOOLEAN)
      BY <1>t
    <2>2. Cardinality(HeldIn(flags)) = depth[t] + IF flag = TRUE THEN 1 ELSE 0
      BY <1>t, HeldAppended
    <2>3. guards' = [guards EXCEPT ![t] = flags]
      BY <1>1 DEF Open
    <2>4. Cardinality(HeldIn(flags)) = depth'[t] /\ \A u \in Threads \ {t} : depth'[u] = depth[u]
      <3>1. CASE flag = TRUE
        BY <1>1, <2>2, <3>1, DepthMoves
      <3>2. CASE flag # TRUE
        <4>1. Busy(t) /\ Cardinality(HeldIn(flags)) = depth[t] + 0
          BY <1>1, <2>2, <3>2
        <4> QED BY <4>1, DepthMoves
      <3> QED BY <3>1, <3>2
    <2> HIDE DEF flags
    <2> QED BY <2>1, <2>3, <2>4, FlagsFollow
  <1>2. CASE Destruct(t)
    <2> DEFINE flags == Front(guards[t])
    <2>1. guards[t] # <<>> /\ guards' = [guards EXCEPT ![t] = flags]
      BY <1>2 DEF Destruct
    <2>2. /\ flags \in Seq(BOOLEAN) /\ Last(guards[t]) \in BOOLEAN
          /\ Cardinality(HeldIn(flags)) = depth[t] - IF Last(guards[t]) = TRUE THEN 1 ELSE 0
      BY <1>t, <2>1, HeldLeft
    <2>3. Cardinality(HeldIn(flags)) = depth'[t] /\ \A u \in Threads \ {t} : depth'[u] = depth[u]
      <3>1. CASE Last(guards[t]) = TRUE
        <4>1. Unlock(t)
          BY <1>2, <3>1 DEF Destruct
        <4> QED BY <2>2, <3>1, <4>1, DepthMoves
      <3>2. CASE Last(guards[t]) = FALSE
        <4>1. depth' = depth
          BY <1>2, <3>2 DEF Destruct, vars
        <4> QED BY <2>2, <3>2, <4>1, DepthMoves
      <3> QED BY <2>2, <3>1, <3>2
    <2> HIDE DEF flags
    <2> QED BY <2>1, <2>2, <2>3, FlagsFollow
  <1> QED BY <1>1, <1>2 DEF Construct, TryConstruct

\* Whatever the guards do is what the monitor allows.
LEMMA GuardMapped == [GuardNext]_guardVars => [Next]_vars
PROOF
  <1>1. ASSUME NEW t \in Threads, Construct(t) \/ TryConstruct(t) \/ Destruct(t) \/ Inside(t)
        PROVE  [Next]_vars
    BY <1>1 DEF Construct, TryConstruct, Destruct, Inside, Busy, Next
  <1>2. ASSUME NEW t \in Threads, NEW i \in DOMAIN guards[t],
               Acquire(t, i) \/ TryAcquired(t, i) \/ Release(t, i)
        PROVE  [Next]_vars
    BY <1>2 DEF Acquire, TryAcquired, Release, Busy, Next
  <1> QED BY <1>1, <1>2 DEF GuardNext, guardVars

\* A tryAcquired() on a guard that holds the mutex would overwrite its flag.
LEMMA NextGuards == ~RetryHeld /\ IInv /\ GuardsInv /\ [GuardNext]_guardVars => GuardsInv'
PROOF
  <1> SUFFICES ASSUME ~RetryHeld, IInv, GuardsInv, [GuardNext]_guardVars PROVE GuardsInv'
    OBVIOUS
  <1>1. CASE UNCHANGED <<guards, depth>>
    BY <1>1 DEF GuardsInv
  <1>2. ASSUME NEW t \in Threads, Inside(t) PROVE UNCHANGED <<guards, depth>>
    BY <1>2 DEF Inside, Notify, NotifyAll, Wait, WakeUnasked, Resume
  <1>3. ASSUME NEW t \in Threads, NEW i \in DOMAIN guards[t],
               Acquire(t, i) \/ TryAcquired(t, i) \/ Release(t, i)
        PROVE  GuardsInv'
    BY <1>3, FlagMoves DEF Acquire, TryAcquired
  <1> QED BY <1>1, <1>2, <1>3, ScopeMoves DEF GuardNext, guardVars, vars

\* The scoped guards never ask the monitor for what it does not offer: all that is proved
\* of a monitor holds of one that is used through YR_LockT and YR_TryLock.
THEOREM GuardsUseMonitor == GuardSpec => Spec
PROOF
  <1>1. GuardInit => Init
    BY DEF GuardInit
  <1> QED BY <1>1, GuardMapped, PTL DEF GuardSpec, Spec

\* A thread that has left the scopes of its guards does not keep the mutex, as long as
\* tryAcquired() is not called on a guard that holds it (YR_Lock.h:29 and :65).
THEOREM ScopesUnlock == ASSUME ~RetryHeld PROVE GuardSpec => []ScopeEndsUnlocked
PROOF
  <1>1. IInv /\ GuardsInv => ScopeEndsUnlocked
    <2> SUFFICES ASSUME IInv, GuardsInv, NEW t \in Threads, guards[t] = <<>> PROVE owner # t
      BY DEF ScopeEndsUnlocked
    <2>1. HeldIn(guards[t]) = {}
      BY DEF HeldIn
    <2>2. depth[t] = 0
      BY <2>1, FS_EmptySet DEF GuardsInv
    <2> QED BY <2>2 DEF IInv, NestingCounted
  <1>2. GuardSpec => []IInv
    BY GuardsUseMonitor, InvCorrect, PTL
  <1>3. ~RetryHeld
    OBVIOUS
  <1>4. IInv /\ GuardsInv /\ [GuardNext]_guardVars => GuardsInv'
    BY <1>3, NextGuards
  <1>5. GuardSpec => []GuardsInv
    BY <1>2, <1>4, InitGuards, PTL DEF GuardSpec
  <1> QED BY <1>1, <1>2, <1>5, PTL
=============================================================================
