---------------------------- MODULE TimeProvider ----------------------------
(***************************************************************************)
(* YR_TimeProvider (util/YR_TimeProvider.h, .cpp): a YR_Thread that stamps *)
(* the time into the back one of two buffers every 800 ms and swaps them,  *)
(* while any thread reads the front one, word by word and without a lock.  *)
(* getInstance() makes the one instance and starts it with g_tl held.      *)
(*                                                                         *)
(* It composes with ThreadStart: the object is either used by a pool, as   *)
(* in that module, or it is the provider, whose start() is called here and *)
(* whose run() is modelled here.  A word of a buffer is the number of the  *)
(* refresh that stamped it, so that old and new words can be told apart;   *)
(* TimeOf gives its time, in ticks of 200 ms, and so do the answers.       *)
(***************************************************************************)
EXTENDS ThreadStart, Sequences

CONSTANTS
  Readers,     \* the callers that read the time; the others want cpuMHz() only
  Users,       \* the uses considered: "pool", "provider"
  MaxRefresh,  \* bound: refreshes of the provider's time
  TimeOf(_),   \* the time of gettimeofday() at a refresh; 0 is the constructor
  MaxHeld,     \* bound: how far gettimeofday() may be past the last refresh
  CreateFails, \* may pthread_create fail?
  Nobody       \* g_tl is free

ASSUME ProviderAssumption ==
  /\ Users \subseteq {"pool", "provider"} /\ Readers \subseteq Callers /\ MaxRefresh \in Nat
  /\ CreateFails \in BOOLEAN /\ Nobody \notin Callers /\ MaxHeld \in Nat
\* Nobody sets the system's clock back.
ASSUME TimeAssumption ==
  /\ \A n \in 0..MaxRefresh : TimeOf(n) \in Nat
  /\ \A m, n \in 0..MaxRefresh : m <= n => TimeOf(m) <= TimeOf(n)

VARIABLES
  user,       \* who uses the YR_Thread, which never changes
  exists,     \* g_tp is set
  gtl,        \* holder of g_tl, which nobody but a caller keeps over a step
  call,       \* where each caller is in getInstance() and getNow()
  refresh,    \* where run() is
  front,      \* _buf_idx
  word,       \* _t and _tsc: the two words of the time and the time stamp counter
  cycle,      \* _cpu_cycle is not 0
  useTsc,     \* _use_tsc
  terminate,  \* _terminate
  dtor,       \* the destructor: "no", "joining", "over", or the end of the process
  index,      \* the buffer each call of getNow() has chosen
  copied,     \* the words it has copied
  tv,         \* the time it is about to return
  slept,      \* history: a wait of run() has ended during the call
  latest      \* history: no call without that has told its caller that it is earlier

instanceVars == <<exists, gtl, call>>
clockVars == <<refresh, front, word, cycle, terminate>>
readVars == <<index, copied, tv, slept, latest, useTsc>>
providerVars == <<user, instanceVars, clockVars, readVars, dtor>>

Words == {"sec", "usec", "tsc"}
Reading(c) == call[c] \in {"sec", "usec", "decide", "tsc", "offset", "return", "system"}
Back == 1 - front

Second == 5
Seconds(time) == Second * (time \div Second)
Fraction(time) == time % Second

ProviderInit ==
  /\ Init
  /\ user \in Users
  /\ exists = FALSE /\ gtl = Nobody
  /\ call = [c \in Callers |-> "out"]
  /\ refresh = "test" /\ front = 0 /\ cycle = FALSE /\ useTsc = TRUE
  /\ word = [b \in 0..1 |-> [w \in Words |-> 0]]
  /\ terminate = FALSE /\ dtor = "no"
  /\ index = [c \in Callers |-> 0] /\ copied = [c \in Callers |-> <<>>]
  /\ tv = [c \in Callers |-> 0]
  /\ slept = [c \in Callers |-> FALSE] /\ latest = [c \in Callers |-> 0]
-----------------------------------------------------------------------------
Goto(c, from, to) == call[c] = from /\ call' = [call EXCEPT ![c] = to]

\* Mutated forms: a getInstance() that returns with g_tl locked; a getNow() that reads the
\* buffer in the back; a destructor that leaves _terminate alone.
StartedKeeping(c) ==
  /\ at[c] = "out"
  /\ Goto(c, "starting", "have")
  /\ UNCHANGED <<vars, user, exists, gtl, clockVars, readVars, dtor>>
ReadIndexBack(c) ==
  /\ c \in Readers /\ Goto(c, "have", "sec")
  /\ index' = [index EXCEPT ![c] = Back]
  /\ UNCHANGED <<vars, user, exists, gtl, clockVars, copied, tv, slept, latest, useTsc, dtor>>
DestructWithoutFlag ==
  /\ exists /\ dtor = "no" /\ gtl = Nobody /\ \A c \in Callers : call[c] = "out"
  /\ dtor' = "joining"
  /\ refresh' = IF refresh = "asleep" THEN "awake" ELSE refresh
  /\ UNCHANGED <<vars, user, instanceVars, front, word, cycle, terminate, readVars>>

\* getInstance(): the test without the lock, ...
TestUnlocked(c) ==
  /\ at[c] = "out" /\ dtor = "no"
  /\ Goto(c, "out", IF exists THEN "have" ELSE "lock")
  /\ UNCHANGED <<vars, user, exists, gtl, clockVars, readVars, dtor>>
TakeLock(c) ==
  /\ gtl = Nobody /\ gtl' = c
  /\ Goto(c, "lock", "test")
  /\ UNCHANGED <<vars, user, exists, clockVars, readVars, dtor>>

\* ... the test with it, ...
Found(c) ==
  /\ exists /\ gtl' = Nobody
  /\ Goto(c, "test", "have")
  /\ UNCHANGED <<vars, user, exists, clockVars, readVars, dtor>>
\* ... and the instance, which g_tp shows to the others before it is started.
Create(c) ==
  /\ ~exists /\ exists' = TRUE
  /\ Goto(c, "test", "start")
  /\ UNCHANGED <<vars, user, gtl, clockVars, readVars, dtor>>
CallStart(c) ==
  /\ Goto(c, "start", "starting")
  /\ Start(c)
  /\ UNCHANGED <<user, exists, gtl, clockVars, readVars, dtor>>
\* When start() throws, g_tp keeps an instance without a thread.
StartFails(c) ==
  /\ CreateFails /\ gtl' = Nobody
  /\ Goto(c, "start", "out")
  /\ UNCHANGED <<vars, user, exists, clockVars, readVars, dtor>>
Started(c) ==
  /\ at[c] = "out" /\ gtl' = Nobody
  /\ Goto(c, "starting", "have")
  /\ UNCHANGED <<vars, user, exists, clockVars, readVars, dtor>>
-----------------------------------------------------------------------------
\* run() between the steps that other threads can tell apart.
Step(from, to) == thread[1] = "run" /\ refresh = from /\ refresh' = to

\* Mutated forms: a refresh of the front buffer; a wait() in place of the timeWait().
StampFront(w, next) ==
  /\ Step(w, next)
  /\ word' = [word EXCEPT ![front][w] = word[front].sec + 1]
  /\ cycle' = IF w = "tsc" THEN word[0].tsc # 0 /\ word[1].tsc # 0 ELSE cycle
  /\ UNCHANGED <<vars, user, instanceVars, front, terminate, readVars, dtor>>

WakeByNotify == FALSE

LoopTest ==
  /\ terminate \/ word[front].sec < MaxRefresh
  /\ Step("test", IF terminate THEN "over" ELSE "sec")
  /\ UNCHANGED <<vars, user, instanceVars, front, word, cycle, terminate, readVars, dtor>>

\* gettimeofday() into the back buffer, and setTsc(), which has _cpu_cycle only when both
\* buffers have been stamped before.
Stamp(w, next) ==
  /\ Step(w, next)
  /\ word' = [word EXCEPT ![Back][w] = word[front].sec + 1]
  /\ cycle' = IF w = "tsc" THEN word[0].tsc # 0 /\ word[1].tsc # 0 ELSE cycle
  /\ UNCHANGED <<vars, user, instanceVars, front, terminate, readVars, dtor>>

SwapBuffers ==
  /\ Step("swap", "lock") /\ front' = Back
  /\ UNCHANGED <<vars, user, instanceVars, word, cycle, terminate, readVars, dtor>>
TimeWait ==
  /\ Step("lock", "asleep") /\ gtl = Nobody
  /\ UNCHANGED <<vars, user, instanceVars, front, word, cycle, terminate, readVars, dtor>>
\* The 800 ms are over, or the wait returns for no reason.
WakeUp ==
  /\ Step("asleep", "awake")
  /\ slept' = [c \in Callers |-> slept[c] \/ Reading(c)]
  /\ UNCHANGED <<vars, user, instanceVars, front, word, cycle, terminate,
                 index, copied, tv, latest, useTsc, dtor>>
Regain ==
  /\ Step("awake", "test") /\ gtl = Nobody
  /\ UNCHANGED <<vars, user, instanceVars, front, word, cycle, terminate, readVars, dtor>>

Refresh ==
  \/ LoopTest \/ SwapBuffers \/ TimeWait \/ WakeUp \/ Regain
  \/ Stamp("sec", "usec") \/ Stamp("usec", "tsc") \/ Stamp("tsc", "swap")
-----------------------------------------------------------------------------
\* getNow(): the index first, then as many of its words as the caller wants.
ReadIndex(c) ==
  /\ c \in Readers /\ Goto(c, "have", "sec")
  /\ index' = [index EXCEPT ![c] = front]
  /\ UNCHANGED <<vars, user, exists, gtl, clockVars, copied, tv, slept, latest, useTsc, dtor>>
Copy(c, w, next) ==
  /\ Goto(c, w, next)
  /\ copied' = [copied EXCEPT ![c] = Append(@, word[index[c]][w])]
  /\ UNCHANGED <<vars, user, exists, gtl, clockVars, index, tv, slept, latest, useTsc, dtor>>

\* _cpu_cycle and _use_tsc say whether addTimeOffset() is called ...
Decide(c) ==
  /\ cycle /\ useTsc
  /\ Goto(c, "decide", "tsc")
  /\ UNCHANGED <<vars, user, exists, gtl, clockVars, readVars, dtor>>

Answer(c, from, to, time) ==
  /\ Goto(c, from, to)
  /\ tv' = [tv EXCEPT ![c] = time]
  /\ UNCHANGED <<vars, user, exists, gtl, clockVars, index, copied, slept, latest, dtor>>

\* ... or gettimeofday().  addTimeOffset() itself may turn to that, for good, when the
\* caller was held up for long or has changed to a processor with another counter.
LastStamp == IF word[0].sec > word[1].sec THEN word[0].sec ELSE word[1].sec
SystemTime(c) ==
  \E ahead \in 0..MaxHeld :
    \/ /\ ~(cycle /\ useTsc) /\ UNCHANGED useTsc
       /\ Answer(c, "decide", "system", TimeOf(LastStamp) + ahead)
    \/ /\ useTsc' = FALSE
       /\ Answer(c, "offset", "system", TimeOf(LastStamp) + ahead)

\* getNow() answers with the seconds of the stamp, getNow(&tv) with all of it and what
\* addTimeOffset() makes of the counter, which is a second at the most.
StampSeconds(c) == Seconds(TimeOf(copied[c][1]))
StampTime(c) ==
  /\ UNCHANGED useTsc
  /\ \/ Answer(c, "usec", "return", StampSeconds(c))
     \/ \E offset \in 0..Second :
          Answer(c, "offset", "return",
                 StampSeconds(c) + Fraction(TimeOf(copied[c][2])) + offset)

\* What the caller may take for past, now that it has been told tv: a getNow() tells it
\* the seconds, the other function may be ahead by the offset.
Told(c) == IF Len(copied[c]) = 1 THEN tv[c] ELSE Seconds(tv[c]) - Second
Return(c) ==
  /\ call[c] \in {"return", "system"} /\ Goto(c, call[c], "out")
  /\ latest' = IF call[c] = "return" /\ ~slept[c] /\ Told(c) > latest[c]
               THEN [latest EXCEPT ![c] = Told(c)] ELSE latest
  /\ index' = [index EXCEPT ![c] = 0] /\ copied' = [copied EXCEPT ![c] = <<>>]
  /\ tv' = [tv EXCEPT ![c] = 0] /\ slept' = [slept EXCEPT ![c] = FALSE]
  /\ UNCHANGED <<vars, user, exists, gtl, clockVars, useTsc, dtor>>

CpuMHz(c) ==
  /\ Goto(c, "have", "out")
  /\ UNCHANGED <<vars, user, exists, gtl, clockVars, readVars, dtor>>

GetNow(c) ==
  \/ ReadIndex(c) \/ Decide(c) \/ SystemTime(c) \/ StampTime(c) \/ Return(c) \/ CpuMHz(c)
  \/ Copy(c, "sec", "usec") \/ Copy(c, "usec", "decide") \/ Copy(c, "tsc", "offset")
GetInstance(c) ==
  \/ TestUnlocked(c) \/ TakeLock(c) \/ Found(c) \/ Create(c)
  \/ CallStart(c) \/ StartFails(c) \/ Started(c)
-----------------------------------------------------------------------------
\* The program ends, when nobody reads the time any more: the flag and the notify, which
\* run() misses unless it is in its wait, ...
Destruct ==
  /\ exists /\ dtor = "no" /\ gtl = Nobody /\ \A c \in Callers : call[c] = "out"
  /\ dtor' = "joining" /\ terminate' = TRUE
  /\ refresh' = IF refresh = "asleep" THEN "awake" ELSE refresh
  /\ UNCHANGED <<vars, user, instanceVars, front, word, cycle, readVars>>
\* ... and the join.
DestructorEnds ==
  /\ dtor = "joining" /\ thread[1] = "done"
  /\ dtor' = "over"
  /\ UNCHANGED <<vars, user, instanceVars, clockVars, readVars>>
\* When there never was a thread, join() has no valid _tid and throws at best, and no
\* exception may leave a destructor: the process ends.
DestructorThrows ==
  /\ dtor = "joining" /\ tid = 0
  /\ dtor' = "terminated"
  /\ UNCHANGED <<vars, user, instanceVars, clockVars, readVars>>

\* start() and threadEntry() around all this.
Surroundings ==
  /\ \/ \E c \in Callers : SpuriousWakeup(c) \/ StartReturns(c)
     \/ \E n \in Created : Enter(n) \/ Announce(n) \/ End(n)
     \/ RunEnds(1) /\ refresh = "over"
  /\ UNCHANGED providerVars

ProviderNext ==
  \/ user = "pool" /\ Next /\ UNCHANGED providerVars
  \/ /\ user = "provider"
     /\ \/ Surroundings \/ Refresh \/ Destruct \/ DestructorEnds \/ DestructorThrows
        \/ \E c \in Callers : GetInstance(c) \/ GetNow(c)

allVars == <<vars, providerVars>>
ProviderSpec == ProviderInit /\ [][ProviderNext]_allVars

\* Threads are scheduled, a caller that is inside a function goes on, and a timed wait
\* comes back.
ProviderFairSpec ==
  /\ ProviderSpec
  /\ \A c \in Callers :
       /\ WF_allVars(StartReturns(c) /\ UNCHANGED providerVars)
       /\ WF_allVars(user = "pool" /\ JoinReturns(c) /\ UNCHANGED providerVars)
       /\ WF_allVars(call[c] # "out" /\ (GetInstance(c) \/ GetNow(c)))
  /\ \A n \in Created :
       WF_allVars((Enter(n) \/ Announce(n) \/ End(n)) /\ UNCHANGED providerVars)
  /\ WF_allVars(user = "provider" /\ RunEnds(1) /\ refresh = "over" /\ UNCHANGED providerVars)
  /\ WF_allVars(Refresh) /\ WF_allVars(DestructorEnds \/ DestructorThrows)
-----------------------------------------------------------------------------
\* The buffers are swapped so that nobody reads what is being written.  They are two
\* only, so a call that sleeps through a whole wait of run() may be caught up with; any
\* other gets words of one and the same refresh.
CopyWhole ==
  \A c \in Callers : ~slept[c] => \A i, j \in DOMAIN copied[c] : copied[c][i] = copied[c][j]

\* "The current time" (YR_TimeProvider.h:35, :38): what getNow() has told a thread stays
\* past: no later answer of either function, not even a torn one, is older.  After an
\* answer of getNow(&tv) that was taken from a stamp, a later one may be older by the
\* offset and the fraction of a second, but by no more.  Calls that have been caught up
\* with and answers of gettimeofday() promise nothing for the next call.
NeverBackwards == \A c \in Callers : call[c] \in {"return", "system"} => tv[c] >= latest[c]

\* The destructor comes back at the latest when the wait runs out, although its notify is
\* missed while run() is between its test and its wait, if there is a thread to join.
DestructorReturns == dtor = "joining" /\ tid > 0 ~> dtor = "over"

\* Time goes on once the thread has been created: whatever the callers do to g_tl, the
\* next refresh comes, until the program ends.
TimeGoesOn ==
  \A k \in 1..MaxRefresh :
    user = "provider" /\ tid > 0 ~> word[front].sec >= k \/ terminate
=============================================================================
