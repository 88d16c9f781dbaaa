----------------------------- MODULE ThreadPool -----------------------------
(***************************************************************************)
(* YR_ThreadPool (util/YR_ThreadPool.h, .cpp): a job queue, a queue of     *)
(* start tasks, worker threads, the set of busy workers under _tmutex, and *)
(* the flag _bAllDone that start() clears and idle() sets.                 *)
(*                                                                         *)
(* Actors: the worker threads; one control thread that calls init, start,  *)
(* stop and the destructor; any number of threads that call exec; the      *)
(* threads in Waiters, which call waitForAllDone.  An action is a stretch  *)
(* of one thread between two points where another thread can see or change *)
(* what it uses.                                                           *)
(***************************************************************************)
EXTENDS Naturals, Sequences, FiniteSets, SequencesExt

CONSTANTS
  MaxThreads,    \* bound: the most worker threads
  Sizes,         \* the values of num given to init
  MaxStartTasks, \* bound: the longest _startqueue
  Jobs,          \* the jobs; each is given to exec at most once
  AskingJobs,    \* the jobs whose body calls getThreadNum() of their pool
  Waiters,       \* the threads that call waitForAllDone
  Controls,      \* the control calls made: "start", "startWith", "stop", "init", "destroy"
  CreateFails,   \* may pthread_create fail?
  NoJob          \* no std::function in hand

AllControls == {"start", "startWith", "stop", "init", "destroy"}
Workers == 1..MaxThreads

ASSUME BoundsAssumption == MaxThreads \in Nat \ {0} /\ MaxStartTasks \in Nat
ASSUME SizesAssumption == Sizes \subseteq 0..MaxThreads
ASSUME JobsAssumption == AskingJobs \subseteq Jobs /\ NoJob \notin Jobs
ASSUME ControlsAssumption == Controls \subseteq AllControls /\ CreateFails \in BOOLEAN

VARIABLES
  jobqueue,    \* _jobqueue
  startqueue,  \* length of _startqueue
  threadNum,   \* _jobthread.size(); the workers are 1..threadNum
  busthread,   \* _busthread
  bAllDone,    \* _bAllDone
  bTerminate,  \* _bTerminate of each worker
  pc,          \* where each worker's thread is
  job,         \* the std::function each worker holds
  ctl,         \* where the control thread is
  cur,         \* its iterator over _jobthread
  after,       \* what follows the stop() it is in
  at,          \* where each waiter is inside waitForAllDone
  timed,       \* its millsecond argument is not negative
  late,        \* its last timeWait ran out
  said,        \* history: what its last call returned
  before,      \* history: jobs submitted when its call began
  fresh,       \* history: jobs not submitted yet
  done,        \* history: jobs executed
  dropped      \* history: jobs cleared out of the queue

poolVars == <<jobqueue, startqueue, threadNum, busthread, bAllDone, bTerminate>>
workerVars == <<pc, job>>
ctlVars == <<ctl, cur, after>>
waitVars == <<at, timed, late, said, before>>
histVars == <<fresh, done, dropped>>
vars == <<poolVars, workerVars, ctlVars, waitVars, histVars>>

\* The job queue: YR_Thread_Queue through its contract.
JobQueue == INSTANCE QueueContract WITH
  Threads <- Workers, Items <- Jobs, MaxBatch <- 1,
  queue <- jobqueue, pending <- {w \in Workers : pc[w] = "wait"}
-----------------------------------------------------------------------------
\* none: no thread; boot: take a start task; loop: test _bTerminate; get, wait:
\* inside pop_front; popped: job in hand, not yet in _busthread; busy: running it;
\* idle: about to call idle(); exit, ending: leaving run(); done: thread finished.
Places == {"none", "boot", "loop", "get", "wait", "popped", "busy", "idle",
           "exit", "ending", "done"}

\* YR_Thread::isAlive
Running(w) == pc[w] \notin {"none", "done"}
Live == {w \in Workers : Running(w)}

\* The pool's own mutex is held by start() and stop() throughout; whoever else
\* takes it lets it go within one action.
PoolLocked == ctl \in {"starting", "stopping", "joining"}

\* _tmutex is held across actions only by a waiter between the reads of finish().
TMutexFree == \A c \in Waiters : at[c] \notin {"jobs", "busy"}

TypeOK ==
  /\ jobqueue \in Seq(Jobs)
  /\ startqueue \in Nat
  /\ threadNum \in 0..MaxThreads
  /\ busthread \subseteq Workers
  /\ bAllDone \in BOOLEAN
  /\ bTerminate \in [Workers -> BOOLEAN]
  /\ pc \in [Workers -> Places]
  /\ job \in [Workers -> Jobs \cup {NoJob}]
  /\ ctl \in {"free", "queueing", "starting", "stopping", "joining", "clearing", "gone"}
  /\ cur \in 1..(MaxThreads + 1)
  /\ after \in {"none", "init", "destroy"}
  /\ at \in [Waiters -> {"out", "check", "jobs", "busy", "asleep"}]
  /\ timed \in [Waiters -> BOOLEAN]
  /\ late \in [Waiters -> BOOLEAN]
  /\ said \in [Waiters -> {"nothing", "true", "false"}]
  /\ before \in [Waiters -> SUBSET Jobs]
  /\ fresh \subseteq Jobs /\ done \subseteq Jobs /\ dropped \subseteq Jobs

Init ==
  /\ jobqueue = <<>> /\ startqueue = 0 /\ threadNum = 0
  /\ busthread = {} /\ bAllDone = TRUE
  /\ bTerminate = [w \in Workers |-> FALSE]
  /\ pc = [w \in Workers |-> "none"] /\ job = [w \in Workers |-> NoJob]
  /\ ctl = "free" /\ cur = 1 /\ after = "none"
  /\ at = [c \in Waiters |-> "out"]
  /\ timed = [c \in Waiters |-> FALSE] /\ late = [c \in Waiters |-> FALSE]
  /\ said = [c \in Waiters |-> "nothing"] /\ before = [c \in Waiters |-> {}]
  /\ fresh = Jobs /\ done = {} /\ dropped = {}
-----------------------------------------------------------------------------
(* exec, start, stop, init, the destructor *)

Exec(j) ==
  /\ j \in fresh /\ ctl # "gone"
  /\ fresh' = fresh \ {j}
  /\ UNCHANGED <<startqueue, threadNum, busthread, bAllDone, bTerminate,
                 workerVars, ctlVars, waitVars, done, dropped>>
  /\ JobQueue!PushBack(<<j>>)

CallStart ==
  /\ "start" \in Controls /\ ctl = "free"
  /\ ctl' = "starting" /\ cur' = 1
  /\ UNCHANGED <<poolVars, workerVars, after, waitVars, histVars>>

\* start(tf) queues a start task for each worker, without the mutex, then calls start().
CallStartWith ==
  /\ "startWith" \in Controls /\ ctl = "free"
  /\ startqueue + threadNum <= MaxStartTasks
  /\ ctl' = "queueing" /\ cur' = 1
  /\ UNCHANGED <<poolVars, workerVars, after, waitVars, histVars>>

QueueStart ==
  /\ ctl = "queueing"
  /\ IF cur <= threadNum
     THEN startqueue' = startqueue + 1 /\ cur' = cur + 1 /\ UNCHANGED ctl
     ELSE ctl' = "starting" /\ cur' = 1 /\ UNCHANGED startqueue
  /\ UNCHANGED <<jobqueue, threadNum, busthread, bAllDone, bTerminate,
                 workerVars, after, waitVars, histVars>>

\* YR_Thread::start of the next worker, up to the handshake with its thread.
StartWorker ==
  /\ ctl = "starting" /\ cur <= threadNum /\ ~Running(cur)
  /\ pc' = [pc EXCEPT ![cur] = "boot"]
  /\ cur' = cur + 1
  /\ UNCHANGED <<poolVars, job, ctl, after, waitVars, histVars>>

\* YR_Thread::start throws through start() when the worker still runs, or when no
\* thread is to be had for it; the workers before it have been started.
StartThrows ==
  /\ ctl = "starting" /\ cur <= threadNum /\ (Running(cur) \/ CreateFails)
  /\ ctl' = "free"
  /\ UNCHANGED <<poolVars, workerVars, cur, after, waitVars, histVars>>

StartDone ==
  /\ ctl = "starting" /\ cur > threadNum
  /\ bAllDone' = FALSE
  /\ ctl' = "free"
  /\ UNCHANGED <<jobqueue, startqueue, threadNum, busthread, bTerminate,
                 workerVars, cur, after, waitVars, histVars>>

\* stop() itself, or the stop() that init and the destructor begin with.
CallStop(next) ==
  /\ ctl = "free"
  /\ CASE next = "none" -> "stop" \in Controls
       [] next = "init" -> "init" \in Controls
       [] next = "destroy" -> /\ "destroy" \in Controls
                              /\ \A c \in Waiters : at[c] = "out"
  /\ ctl' = "stopping" /\ cur' = 1 /\ after' = next
  /\ UNCHANGED <<poolVars, workerVars, waitVars, histVars>>

\* Mutated forms: stop() that does not join; terminate() that forgets the flag.
TerminateWithoutJoin ==
  /\ ctl = "stopping" /\ cur <= threadNum /\ Running(cur)
  /\ bTerminate' = [bTerminate EXCEPT ![cur] = TRUE]
  /\ cur' = cur + 1
  /\ UNCHANGED <<jobqueue, startqueue, threadNum, busthread, bAllDone,
                 workerVars, ctl, after, waitVars, histVars>>
TerminateWithoutFlag ==
  /\ ctl = "stopping" /\ cur <= threadNum /\ Running(cur)
  /\ ctl' = "joining"
  /\ UNCHANGED <<poolVars, workerVars, cur, after, waitVars, histVars>>

\* terminate() sets the flag, then wakes the workers blocked in pop_front, which
\* the contract lets return at any time.
TerminateWorker ==
  /\ ctl = "stopping" /\ cur <= threadNum /\ Running(cur)
  /\ bTerminate' = [bTerminate EXCEPT ![cur] = TRUE]
  /\ ctl' = "joining"
  /\ UNCHANGED <<jobqueue, startqueue, threadNum, busthread, bAllDone,
                 workerVars, cur, after, waitVars, histVars>>

JoinWorker ==
  /\ ctl = "joining" /\ pc[cur] = "done"
  /\ ctl' = "stopping" /\ cur' = cur + 1
  /\ UNCHANGED <<poolVars, workerVars, after, waitVars, histVars>>

SkipWorker ==
  /\ ctl = "stopping" /\ cur <= threadNum /\ ~Running(cur)
  /\ cur' = cur + 1
  /\ UNCHANGED <<poolVars, workerVars, ctl, after, waitVars, histVars>>

\* The mutex is free again before init or the destructor goes on.
StopDone ==
  /\ ctl = "stopping" /\ cur > threadNum
  /\ ctl' = IF after = "none" THEN "free" ELSE "clearing"
  /\ UNCHANGED <<poolVars, workerVars, cur, after, waitVars, histVars>>

\* Queued jobs are destroyed, start tasks are not.
ClearJobs ==
  /\ JobQueue!Clear
  /\ dropped' = dropped \cup ToSet(jobqueue)

\* clear() deletes the workers; init then makes num new ones.
InitClear(num) ==
  /\ ctl = "clearing" /\ after = "init"
  /\ pc' = [w \in Workers |-> "none"]
  /\ ClearJobs
  /\ bTerminate' = [w \in Workers |-> FALSE]
  /\ threadNum' = num
  /\ ctl' = "free" /\ after' = "none"
  /\ UNCHANGED <<startqueue, busthread, bAllDone, job, cur, waitVars, fresh, done>>

Destroy ==
  /\ ctl = "clearing" /\ after = "destroy"
  /\ pc' = [w \in Workers |-> "none"]
  /\ ClearJobs
  /\ threadNum' = 0
  /\ ctl' = "gone"
  /\ UNCHANGED <<startqueue, busthread, bAllDone, bTerminate, job, cur, after,
                 waitVars, fresh, done>>
-----------------------------------------------------------------------------
(* ThreadWorker::run *)

Goto(w, place) == pc' = [pc EXCEPT ![w] = place]

\* Mutated forms: a worker that leaves when it finds no job; one that copies the head of
\* the queue; one that waits without a deadline for a push that signals nobody, until
\* terminate() wakes it; idle() that forgets to erase.
LoopTestLeaving(w) ==
  /\ pc[w] = "loop"
  /\ Goto(w, IF bTerminate[w] \/ jobqueue = <<>> THEN "exit" ELSE "get")
  /\ UNCHANGED <<poolVars, job, ctlVars, waitVars, histVars>>
GetJobCopying(w) ==
  /\ pc[w] = "get" /\ jobqueue # <<>>
  /\ job' = [job EXCEPT ![w] = Head(jobqueue)]
  /\ Goto(w, "popped")
  /\ UNCHANGED <<poolVars, ctlVars, waitVars, histVars>>
GetJobDeaf(w) ==
  /\ \/ /\ pc[w] = "get"
        /\ \/ \E j \in Jobs : /\ job' = [job EXCEPT ![w] = j]
                              /\ Goto(w, "popped")
                              /\ JobQueue!PopNow(j)
           \/ Goto(w, "wait") /\ JobQueue!Block(w) /\ UNCHANGED job
     \/ /\ pc[w] = "wait" /\ bTerminate[w]
        /\ Goto(w, "loop") /\ JobQueue!Miss(w) /\ UNCHANGED job
  /\ UNCHANGED <<startqueue, threadNum, busthread, bAllDone, bTerminate,
                 ctlVars, waitVars, histVars>>
GoIdleKeeping(w) ==
  /\ pc[w] = "idle" /\ TMutexFree
  /\ bAllDone' = (bAllDone \/ busthread = {w})
  /\ job' = [job EXCEPT ![w] = NoJob]
  /\ Goto(w, "loop")
  /\ UNCHANGED <<jobqueue, startqueue, threadNum, busthread, bTerminate,
                 ctlVars, waitVars, histVars>>

\* A start task, when there is one, is taken and run before the loop.
Boot(w) ==
  /\ pc[w] = "boot"
  /\ startqueue' = IF startqueue > 0 THEN startqueue - 1 ELSE 0
  /\ Goto(w, "loop")
  /\ UNCHANGED <<jobqueue, threadNum, busthread, bAllDone, bTerminate, job,
                 ctlVars, waitVars, histVars>>

LoopTest(w) ==
  /\ pc[w] = "loop"
  /\ Goto(w, IF bTerminate[w] THEN "exit" ELSE "get")
  /\ UNCHANGED <<poolVars, job, ctlVars, waitVars, histVars>>

\* get(ptw): pop_front(res, 1000), at once or after blocking.
GetJob(w) ==
  /\ \/ /\ pc[w] = "get"
        /\ \/ \E j \in Jobs : /\ job' = [job EXCEPT ![w] = j]
                              /\ Goto(w, "popped")
                              /\ JobQueue!PopNow(j)
           \/ Goto(w, "wait") /\ JobQueue!Block(w) /\ UNCHANGED job
     \/ /\ pc[w] = "wait"
        /\ \/ \E j \in Jobs : /\ job' = [job EXCEPT ![w] = j]
                              /\ Goto(w, "popped")
                              /\ JobQueue!PopLate(w, j)
           \/ Goto(w, "loop") /\ JobQueue!Miss(w) /\ UNCHANGED job
  /\ UNCHANGED <<startqueue, threadNum, busthread, bAllDone, bTerminate,
                 ctlVars, waitVars, histVars>>

\* The rest of get(ptw), under _tmutex.
MarkBusy(w) ==
  /\ pc[w] = "popped" /\ TMutexFree
  /\ busthread' = busthread \cup {w}
  /\ Goto(w, "busy")
  /\ UNCHANGED <<jobqueue, startqueue, threadNum, bAllDone, bTerminate, job,
                 ctlVars, waitVars, histVars>>

\* The job runs to its end, or throws; one that calls getThreadNum() has to wait
\* for the pool's mutex first.
RunJob(w) ==
  /\ pc[w] = "busy"
  /\ job[w] \in AskingJobs => ~PoolLocked
  /\ done' = done \cup {job[w]}
  /\ Goto(w, "idle")
  /\ UNCHANGED <<poolVars, job, ctlVars, waitVars, fresh, dropped>>

\* idle(ptw), under _tmutex; its notifyAll only lets sleeping waiters look again.
GoIdle(w) ==
  /\ pc[w] = "idle" /\ TMutexFree
  /\ busthread' = busthread \ {w}
  /\ bAllDone' = (bAllDone \/ busthread' = {})
  /\ job' = [job EXCEPT ![w] = NoJob]
  /\ Goto(w, "loop")
  /\ UNCHANGED <<jobqueue, startqueue, threadNum, bTerminate,
                 ctlVars, waitVars, histVars>>

\* exit(): a leaving worker clears the whole job queue.
Exit(w) ==
  /\ pc[w] = "exit"
  /\ Goto(w, "ending")
  /\ ClearJobs
  /\ UNCHANGED <<startqueue, threadNum, busthread, bAllDone, bTerminate, job,
                 ctlVars, waitVars, fresh, done>>

\* _running becomes false and the thread can be joined.
End(w) ==
  /\ pc[w] = "ending"
  /\ Goto(w, "done")
  /\ UNCHANGED <<poolVars, job, ctlVars, waitVars, histVars>>
-----------------------------------------------------------------------------
(* waitForAllDone *)

WaitCall(c, isTimed) ==
  /\ at[c] = "out" /\ ctl # "gone" /\ after # "destroy"
  /\ at' = [at EXCEPT ![c] = "check"]
  /\ timed' = [timed EXCEPT ![c] = isTimed]
  /\ late' = [late EXCEPT ![c] = FALSE]
  /\ said' = [said EXCEPT ![c] = "nothing"]
  /\ before' = [before EXCEPT ![c] = Jobs \ fresh]
  /\ UNCHANGED <<poolVars, workerVars, ctlVars, histVars>>

\* What the call kept is dropped when it returns.
Return(c, answer) ==
  /\ at' = [at EXCEPT ![c] = "out"]
  /\ said' = [said EXCEPT ![c] = answer]
  /\ timed' = [timed EXCEPT ![c] = FALSE]
  /\ late' = [late EXCEPT ![c] = FALSE]
  /\ before' = [before EXCEPT ![c] = {}]

GoOn(c, place) ==
  at' = [at EXCEPT ![c] = place] /\ UNCHANGED <<timed, late, said, before>>

\* finish() was false: give up when the time is over, sleep again otherwise.
NotFinished(c) ==
  IF timed[c] /\ late[c] THEN Return(c, "false") ELSE GoOn(c, "asleep")

\* Mutated form: finish() without the job queue.
CheckJobQueueNot(c) ==
  /\ at[c] = "jobs" /\ GoOn(c, "busy")
  /\ UNCHANGED <<poolVars, workerVars, ctlVars, histVars>>

\* finish(), with _tmutex held: the two queues, each under its own lock ...
CheckStartQueue(c) ==
  /\ at[c] = "check" /\ TMutexFree
  /\ IF startqueue = 0 THEN GoOn(c, "jobs") ELSE NotFinished(c)
  /\ UNCHANGED <<poolVars, workerVars, ctlVars, histVars>>

CheckJobQueue(c) ==
  /\ at[c] = "jobs"
  /\ IF jobqueue = <<>> THEN GoOn(c, "busy") ELSE NotFinished(c)
  /\ UNCHANGED <<poolVars, workerVars, ctlVars, histVars>>

\* ... then _busthread, which nobody changes without _tmutex, and the flag.
CheckBusy(c) ==
  /\ at[c] = "busy"
  /\ IF busthread = {} /\ bAllDone THEN Return(c, "true") ELSE NotFinished(c)
  /\ UNCHANGED <<poolVars, workerVars, ctlVars, histVars>>

\* timeWait returns: woken by idle() or for no reason, or its time has passed.
WakeUp(c, timedOut) ==
  /\ at[c] = "asleep"
  /\ at' = [at EXCEPT ![c] = "check"]
  /\ late' = [late EXCEPT ![c] = timed[c] /\ timedOut]
  /\ UNCHANGED <<poolVars, workerVars, ctlVars, timed, said, before, histVars>>
-----------------------------------------------------------------------------
\* What the control thread does once it is inside a call.
ControlStep ==
  \/ QueueStart \/ StartWorker \/ StartThrows \/ StartDone
  \/ TerminateWorker \/ JoinWorker \/ SkipWorker \/ StopDone
  \/ \E num \in Sizes : InitClear(num)
  \/ Destroy

Control ==
  \/ CallStart \/ CallStartWith
  \/ \E next \in {"none", "init", "destroy"} : CallStop(next)
  \/ ControlStep

\* The steps of a worker that need no mutex another thread keeps, and the others.
FreeStep(w) == Boot(w) \/ LoopTest(w) \/ GetJob(w) \/ Exit(w) \/ End(w)
LockedStep(w) == MarkBusy(w) \/ RunJob(w) \/ GoIdle(w)

Wait(c) ==
  \/ \E isTimed \in BOOLEAN : WaitCall(c, isTimed)
  \/ CheckStartQueue(c) \/ CheckJobQueue(c) \/ CheckBusy(c)
  \/ \E timedOut \in BOOLEAN : WakeUp(c, timedOut)

Next ==
  \/ \E j \in Jobs : Exec(j)
  \/ Control
  \/ \E w \in Workers : FreeStep(w) \/ LockedStep(w)
  \/ \E c \in Waiters : Wait(c)

Spec == Init /\ [][Next]_vars

\* Threads are scheduled, jobs end, timed waits run out, and a thread that asks for a
\* mutex gets it in the end (strong fairness): waiters hold _tmutex only for the reads
\* of finish() and sleep in between.  A waiter's deadline comes however often it is
\* woken before.  Nobody is obliged to call exec, start, stop or waitForAllDone.
Fairness ==
  /\ WF_vars(ControlStep)
  /\ \A w \in Workers : WF_vars(FreeStep(w)) /\ SF_vars(LockedStep(w))
  /\ \A c \in Waiters :
       /\ SF_vars(CheckStartQueue(c)) /\ WF_vars(CheckJobQueue(c) \/ CheckBusy(c))
       /\ SF_vars(WakeUp(c, TRUE))

FairSpec == Spec /\ Fairness
-----------------------------------------------------------------------------
\* _busthread, which finish() relies on, is the set of workers between get() and
\* idle(): no worker is forgotten in it, or erased from it while it runs a job.
BusyExactly == busthread = {w \in Workers : pc[w] \in {"busy", "idle"}}

\* Every job is in one place: not submitted, queued once, in the hands of one worker,
\* executed, or cleared away.  So none is lost and none is executed twice.
Holders == {w \in Workers : pc[w] \in {"popped", "busy"}}
Held == {job[w] : w \in Holders}
OnePlace ==
  /\ IsInjective(jobqueue)
  /\ \A v, w \in Holders : job[v] = job[w] => v = w
  /\ fresh \cup ToSet(jobqueue) \cup Held \cup done \cup dropped = Jobs
  /\ fresh \cap (ToSet(jobqueue) \cup Held \cup done \cup dropped) = {}
  /\ ToSet(jobqueue) \cap (Held \cup done \cup dropped) = {}
  /\ Held \cap (done \cup dropped) = {}
  /\ done \cap dropped = {}

\* When stop() lets go of the mutex, and from there until init() or the destructor
\* has deleted the workers, no worker thread exists.
StopJoins == (ctl = "stopping" /\ cur > threadNum) \/ ctl \in {"clearing", "gone"} => Live = {}

\* Each job is taken at most once, what is taken is executed, and jobs are thrown
\* away only after somebody asked the pool to stop.
Executor == INSTANCE TaskExecutor WITH
  status <- [j \in Jobs |-> CASE j \in fresh -> "new"
                              [] j \in ToSet(jobqueue) -> "queued"
                              [] j \in done -> "done"
                              [] j \in dropped -> "dropped"
                              [] OTHER -> "taken"],
  open <- after = "none" /\ \A w \in Workers : ~bTerminate[w]
ImplementsExecutor == Executor!Spec

\* What "true" from waitForAllDone is worth: of the jobs submitted before the call,
\* none is still queued and none is inside _busthread; at most the short way of a job
\* from pop_front to _busthread is overlooked.
Overlooked == {job[w] : w \in {v \in Workers : pc[v] = "popped"}}
SaysTrue(c) == said[c] # "true" /\ said'[c] = "true"
TrueMeansAlmostDone ==
  [][\A c \in Waiters : SaysTrue(c) =>
       before[c] \subseteq done \cup dropped \cup Overlooked]_vars

\* YR_ThreadPool.h:63 says that it waits until all work has ended.
TrueMeansDone ==
  [][\A c \in Waiters : SaysTrue(c) => before[c] \subseteq done \cup dropped]_vars

\* The same line, and test/threadpool_test.cpp:32 ("-1: wait until executed"): a call
\* with -1 ends once a started pool has executed all the jobs it was given.
Serving == {w \in Workers : Running(w) /\ pc[w] # "ending"}
NothingLeft ==
  /\ ctl = "free" /\ Serving # {} /\ startqueue = 0
  /\ done # {} /\ done = Jobs \ fresh
WaitEndsWithTheWork ==
  \A c \in Waiters : at[c] # "out" /\ NothingLeft ~> at[c] = "out" \/ ~NothingLeft

\* YR_ThreadPool.h:41 and :44 say that stop() stops all threads and start() starts
\* them: a worker leaves its loop only while stop() is waiting for it.
LeaveOnlyInStop ==
  [][\A w \in Workers : pc[w] = "loop" /\ pc'[w] = "exit" => ctl = "joining"]_vars

\* stop() joins with the pool locked, so it deadlocks with a job that calls
\* getThreadNum() in a worker it has yet to join.  Nothing else can keep stop(), or
\* the stop() inside init() and the destructor, from returning.
JobWantsLock == \E w \in Workers : pc[w] = "busy" /\ job[w] \in AskingJobs
Deadlocked == ctl = "joining" /\ JobWantsLock
StopReturns == ctl \in {"stopping", "joining"} ~> ctl \in {"free", "clearing"} \/ Deadlocked

\* A queued job does not stay queued next to a worker that has not yet left run(),
\* busy or not: it is taken, or cleared away when such a worker leaves.
QueuedJobIsServed ==
  \A j \in Jobs :
    j \in ToSet(jobqueue) /\ Serving # {} ~> j \notin ToSet(jobqueue) \/ Deadlocked

\* Once some worker has been idle after start(), waitForAllDone returns, unless the
\* pool is stopped or started again under its caller or keeps unserved start tasks.
WaitReturns ==
  \A c \in Waiters :
    at[c] # "out" /\ bAllDone /\ startqueue = 0 /\ Serving # {}
      ~> at[c] = "out" \/ ~bAllDone \/ startqueue > 0 \/ Serving = {} \/ Deadlocked
=============================================================================
