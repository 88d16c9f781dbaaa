----------------------------- MODULE PoolProofs -----------------------------
(***************************************************************************)
(* Theorems about ThreadPool for every number of workers, every set of     *)
(* jobs and of waiters, and every choice of control calls; and then about  *)
(* LoggerGroup, which extends it, for every number of writers, flushers    *)
(* and lines, whether roll() may fail or not: the logger uses its pool as  *)
(* any program may, and no line goes astray.                               *)
(***************************************************************************)
EXTENDS LoggerGroup, SequenceTheorems, TLAPS

\* What the control thread's place says about the workers: behind its iterator a
\* stopping pool has no running thread, and beyond threadNum there never was one.
ControlInv ==
  /\ \A w \in Workers : w > threadNum => pc[w] = "none"
  /\ ctl \in {"stopping", "joining"} => \A w \in Workers : w < cur => ~Running(w)
  /\ ctl = "joining" => cur <= threadNum
  /\ ctl \in {"clearing", "gone"} => Live = {}

\* A worker between the queue and the end of its job has a job in hand.
HoldersInv == \A w \in Holders : job[w] \in Jobs

IInv == TypeOK /\ BusyExactly /\ ControlInv /\ HoldersInv
-----------------------------------------------------------------------------
(* Sequences without repetition, which is what a queue of distinct jobs is. *)

\* Putting one item at the back adds it to the elements, and keeps the sequence free
\* of repetitions when it was not in it.
LEMMA PushBackElements ==
  ASSUME NEW S, NEW s \in Seq(S), NEW x \in S
  PROVE  /\ ToSet(s \o <<x>>) = ToSet(s) \cup {x}
         /\ IsInjective(s) /\ x \notin ToSet(s) => IsInjective(s \o <<x>>)
PROOF
  <1> DEFINE r == s \o <<x>>
  <1>1. /\ r \in Seq(S) /\ Len(r) = Len(s) + 1 /\ Len(s) \in Nat
        /\ \A i \in 1..Len(s) : r[i] = s[i]
        /\ r[Len(s) + 1] = x
    OBVIOUS
  <1>2. DOMAIN r = 1..(Len(s) + 1) /\ DOMAIN s = 1..Len(s)
    BY <1>1
  <1>3. \A i \in 1..(Len(s) + 1) : i \in 1..Len(s) \/ i = Len(s) + 1
    BY <1>1
  <1>4. 1..Len(s) \subseteq 1..(Len(s) + 1) /\ Len(s) + 1 \in 1..(Len(s) + 1)
    BY <1>1
  <1> HIDE DEF r
  <1>5. ToSet(r) = ToSet(s) \cup {x}
    BY <1>1, <1>2, <1>3, <1>4 DEF ToSet
  <1>6. IsInjective(s) /\ x \notin ToSet(s) => IsInjective(r)
    BY <1>1, <1>2, <1>3 DEF ToSet, IsInjective
  <1> QED BY <1>5, <1>6 DEF r

\* Taking the front item removes it from the elements of a sequence without
\* repetitions, which stays one.
LEMMA TakeFrontElements ==
  ASSUME NEW S, NEW s \in Seq(S), s # <<>>, IsInjective(s)
  PROVE  /\ Head(s) \in ToSet(s)
         /\ ToSet(Tail(s)) = ToSet(s) \ {Head(s)}
         /\ IsInjective(Tail(s))
PROOF
  <1> DEFINE r == Tail(s)
  <1>1. /\ r \in Seq(S) /\ Len(r) = Len(s) - 1 /\ Len(s) \in Nat \ {0}
        /\ \A i \in 1..Len(r) : r[i] = s[i + 1]
        /\ Head(s) = s[1]
    BY EmptySeq, HeadTailProperties
  <1>2. DOMAIN r = 1..Len(r) /\ DOMAIN s = 1..Len(s) /\ 1 \in 1..Len(s)
    BY <1>1
  <1>3. \A i \in 1..Len(r) : i + 1 \in 1..Len(s) /\ i + 1 # 1
    BY <1>1
  <1>4. \A k \in 1..Len(s) : k = 1 \/ (k - 1 \in 1..Len(r) /\ (k - 1) + 1 = k)
    BY <1>1
  <1> HIDE DEF r
  <1>5. Head(s) \in ToSet(s)
    BY <1>1, <1>2 DEF ToSet
  <1>6. ToSet(r) \subseteq ToSet(s) \ {Head(s)}
    <2> SUFFICES ASSUME NEW i \in 1..Len(r)
                 PROVE  r[i] \in ToSet(s) /\ r[i] # Head(s)
      BY <1>2 DEF ToSet
    <2>1. r[i] = s[i + 1] /\ i + 1 \in DOMAIN s /\ i + 1 # 1 /\ 1 \in DOMAIN s
      BY <1>1, <1>2, <1>3
    <2> QED BY <2>1, <1>1 DEF ToSet, IsInjective
  <1>7. ToSet(s) \ {Head(s)} \subseteq ToSet(r)
    <2> SUFFICES ASSUME NEW k \in 1..Len(s), s[k] # Head(s) PROVE s[k] \in ToSet(r)
      BY <1>2 DEF ToSet
    <2>1. k - 1 \in 1..Len(r) /\ r[k - 1] = s[k]
      <3>1. k - 1 \in 1..Len(r) /\ (k - 1) + 1 = k
        BY <1>1, <1>4
      <3> QED BY <1>1, <3>1
    <2> QED BY <2>1, <1>2 DEF ToSet
  <1>8. IsInjective(r)
    <2> SUFFICES ASSUME NEW i \in 1..Len(r), NEW k \in 1..Len(r), r[i] = r[k]
                 PROVE  i = k
      BY <1>2 DEF IsInjective
    <2>1. s[i + 1] = s[k + 1] /\ i + 1 \in DOMAIN s /\ k + 1 \in DOMAIN s
      BY <1>1, <1>2, <1>3
    <2>2. i + 1 = k + 1
      BY <2>1 DEF IsInjective
    <2> QED BY <2>2
  <1> QED BY <1>5, <1>6, <1>7, <1>8 DEF r
-----------------------------------------------------------------------------
\* At first no worker runs.
LEMMA InitInv == Init => IInv
PROOF
  <1> SUFFICES ASSUME Init PROVE IInv
    OBVIOUS
  <1>1. 1 \in 1..(MaxThreads + 1) /\ 0 \in 0..MaxThreads
    BY BoundsAssumption
  <1>2. TypeOK
    BY <1>1 DEF Init, TypeOK, Places
  <1>3. BusyExactly /\ HoldersInv
    BY DEF Init, BusyExactly, HoldersInv, Holders
  <1>4. ControlInv
    BY DEF Init, ControlInv, Running
  <1> QED BY <1>2, <1>3, <1>4 DEF IInv

\* Moving one worker's thread changes nobody else's place.
LEMMA Moved ==
  ASSUME TypeOK, NEW w \in Workers, NEW place, Goto(w, place)
  PROVE  pc'[w] = place /\ \A v \in Workers \ {w} : pc'[v] = pc[v]
PROOF BY DEF TypeOK, Goto

\* Whatever the job queue does within its contract leaves it a sequence of jobs.
LEMMA QueueType ==
  ASSUME TypeOK
  PROVE  /\ \A j \in Jobs : JobQueue!PushBack(<<j>>) => jobqueue' \in Seq(Jobs)
         /\ \A j : JobQueue!TakeHead(j) =>
              /\ jobqueue' \in Seq(Jobs) /\ j \in Jobs
              /\ jobqueue # <<>> /\ j = Head(jobqueue) /\ jobqueue' = Tail(jobqueue)
         /\ JobQueue!Clear => jobqueue' \in Seq(Jobs)
PROOF
  <1>1. jobqueue \in Seq(Jobs)
    BY DEF TypeOK
  <1>2. ASSUME NEW j \in Jobs, JobQueue!PushBack(<<j>>) PROVE jobqueue' \in Seq(Jobs)
    <2>1. <<j>> \in Seq(Jobs)
      OBVIOUS
    <2> QED BY <1>1, <1>2, <2>1, ConcatProperties DEF JobQueue!PushBack
  <1>3. ASSUME NEW j, JobQueue!TakeHead(j)
        PROVE  /\ jobqueue' \in Seq(Jobs) /\ j \in Jobs
               /\ jobqueue # <<>> /\ j = Head(jobqueue) /\ jobqueue' = Tail(jobqueue)
    BY <1>1, <1>3, HeadTailProperties DEF JobQueue!TakeHead
  <1>4. JobQueue!Clear => jobqueue' \in Seq(Jobs)
    BY DEF JobQueue!Clear
  <1> QED BY <1>2, <1>3, <1>4
-----------------------------------------------------------------------------
\* One step of a worker's thread keeps what the control thread relies on.
LEMMA WorkerKeepsControl ==
  ASSUME IInv, NEW w \in Workers, NEW place, place # "none",
         Running(w), Goto(w, place), UNCHANGED <<threadNum, ctlVars>>
  PROVE  ControlInv'
PROOF
  <1>1. pc'[w] = place /\ \A v \in Workers \ {w} : pc'[v] = pc[v]
    BY Moved DEF IInv
  <1>2. ~(w > threadNum)
    BY DEF IInv, ControlInv, Running
  <1>3. ctl \in {"stopping", "joining"} => ~(w < cur)
    BY DEF IInv, ControlInv
  <1>4. ctl \notin {"clearing", "gone"}
    BY DEF IInv, ControlInv, Live
  <1>5. \A v \in Workers : v > threadNum => pc'[v] = "none"
    BY <1>1, <1>2 DEF IInv, ControlInv
  <1>6. ctl \in {"stopping", "joining"} =>
          \A v \in Workers : v < cur => pc'[v] \in {"none", "done"}
    BY <1>1, <1>3 DEF IInv, ControlInv, Running
  <1> QED BY <1>4, <1>5, <1>6 DEF ControlInv, Running, Live, ctlVars, IInv

\* A step of a worker that adds itself to _busthread exactly when it comes to the
\* places between get() and idle(), and holds a job exactly from pop_front to the
\* end of the job, keeps both invariants.
LEMMA WorkerKeepsBusy ==
  ASSUME IInv, NEW w \in Workers, NEW place, Goto(w, place),
         busthread' = IF place \in {"busy", "idle"} THEN busthread \cup {w}
                      ELSE busthread \ {w}
  PROVE  BusyExactly'
PROOF
  <1>1. pc'[w] = place /\ \A v \in Workers \ {w} : pc'[v] = pc[v]
    BY Moved DEF IInv
  <1> QED BY <1>1 DEF IInv, BusyExactly

\* A step of one worker leaves the jobs of the others alone.
LEMMA WorkerKeepsHolders ==
  ASSUME IInv, NEW w \in Workers, NEW place, Goto(w, place),
         \A v \in Workers \ {w} : job'[v] = job[v],
         place \in {"popped", "busy"} => job'[w] \in Jobs
  PROVE  HoldersInv'
PROOF
  <1>1. pc'[w] = place /\ \A v \in Workers \ {w} : pc'[v] = pc[v]
    BY Moved DEF IInv
  <1> QED BY <1>1 DEF IInv, HoldersInv, Holders

\* A worker's steps outside _tmutex ...
LEMMA FreeStepInv == ASSUME IInv, NEW w \in Workers, FreeStep(w) PROVE IInv'
PROOF
  <1> USE DEF poolVars, workerVars, ctlVars, waitVars, histVars
  <1>1. CASE Boot(w)
    <2>1. /\ Running(w) /\ Goto(w, "loop") /\ startqueue' \in Nat
          /\ w \notin busthread
          /\ UNCHANGED <<jobqueue, threadNum, busthread, bAllDone, bTerminate, job,
                         ctlVars, waitVars, histVars>>
      BY <1>1 DEF Boot, Running, IInv, TypeOK, BusyExactly
    <2>2. TypeOK'
      BY <2>1 DEF IInv, TypeOK, Goto, Places
    <2>3. ControlInv' BY <2>1, WorkerKeepsControl
    <2>4. BusyExactly' BY <2>1, WorkerKeepsBusy
    <2>5. HoldersInv' BY <2>1, WorkerKeepsHolders
    <2> QED BY <2>2, <2>3, <2>4, <2>5 DEF IInv
  <1>2. CASE LoopTest(w)
    <2>1. PICK place \in {"exit", "get"} :
            /\ Running(w) /\ Goto(w, place) /\ w \notin busthread
            /\ UNCHANGED <<poolVars, job, ctlVars, waitVars, histVars>>
      BY <1>2 DEF LoopTest, Running, IInv, BusyExactly
    <2>2. TypeOK'
      BY <2>1 DEF IInv, TypeOK, Goto, Places
    <2>3. ControlInv' BY <2>1, WorkerKeepsControl
    <2>4. BusyExactly' BY <2>1, WorkerKeepsBusy
    <2>5. HoldersInv' BY <2>1, WorkerKeepsHolders
    <2> QED BY <2>2, <2>3, <2>4, <2>5 DEF IInv
  <1>3. CASE GetJob(w)
    <2>1. /\ Running(w) /\ w \notin busthread
          /\ UNCHANGED <<startqueue, threadNum, busthread, bAllDone, bTerminate,
                         ctlVars, waitVars, histVars>>
      BY <1>3 DEF GetJob, Running, IInv, BusyExactly
    <2>2. CASE \E j \in Jobs : /\ job' = [job EXCEPT ![w] = j]
                               /\ Goto(w, "popped")
                               /\ JobQueue!TakeHead(j)
      <3>1. PICK j \in Jobs : /\ job' = [job EXCEPT ![w] = j]
                              /\ Goto(w, "popped")
                              /\ JobQueue!TakeHead(j)
        BY <2>2
      <3>2. /\ job'[w] = j /\ \A v \in Workers \ {w} : job'[v] = job[v]
            /\ job' \in [Workers -> Jobs \cup {NoJob}]
        BY <3>1 DEF IInv, TypeOK
      <3>3. jobqueue' \in Seq(Jobs)
        BY <3>1, QueueType DEF IInv
      <3>4. TypeOK'
        BY <2>1, <3>1, <3>2, <3>3 DEF IInv, TypeOK, Goto, Places
      <3>5. ControlInv' BY <2>1, <3>1, WorkerKeepsControl
      <3>6. BusyExactly' BY <2>1, <3>1, WorkerKeepsBusy
      <3>7. HoldersInv' BY <3>1, <3>2, WorkerKeepsHolders
      <3> QED BY <3>4, <3>5, <3>6, <3>7 DEF IInv
    <2>3. CASE \E place \in {"wait", "loop"} :
                 Goto(w, place) /\ UNCHANGED <<job, jobqueue>>
      <3>1. PICK place \in {"wait", "loop"} :
              Goto(w, place) /\ UNCHANGED <<job, jobqueue>>
        BY <2>3
      <3>2. TypeOK'
        BY <2>1, <3>1 DEF IInv, TypeOK, Goto, Places
      <3>3. ControlInv' BY <2>1, <3>1, WorkerKeepsControl
      <3>4. BusyExactly' BY <2>1, <3>1, WorkerKeepsBusy
      <3>5. HoldersInv' BY <3>1, WorkerKeepsHolders
      <3> QED BY <3>2, <3>3, <3>4, <3>5 DEF IInv
    <2> QED
      BY <1>3, <2>2, <2>3
      DEF GetJob, JobQueue!PopNow, JobQueue!PopLate, JobQueue!Block, JobQueue!Miss
  <1>4. CASE Exit(w)
    <2>1. /\ Running(w) /\ Goto(w, "ending") /\ w \notin busthread
          /\ JobQueue!Clear /\ dropped' = dropped \cup ToSet(jobqueue)
          /\ UNCHANGED <<startqueue, threadNum, busthread, bAllDone, bTerminate, job,
                         ctlVars, waitVars, fresh, done>>
      BY <1>4 DEF Exit, ClearJobs, Running, IInv, BusyExactly
    <2>2. ToSet(jobqueue) \subseteq Jobs /\ jobqueue' \in Seq(Jobs)
      BY <2>1, QueueType DEF IInv, TypeOK, ToSet
    <2>3. TypeOK'
      BY <2>1, <2>2 DEF IInv, TypeOK, Goto, Places
    <2>4. ControlInv' BY <2>1, WorkerKeepsControl
    <2>5. BusyExactly' BY <2>1, WorkerKeepsBusy
    <2>6. HoldersInv' BY <2>1, WorkerKeepsHolders
    <2> QED BY <2>3, <2>4, <2>5, <2>6 DEF IInv
  <1>5. CASE End(w)
    <2>1. /\ Running(w) /\ Goto(w, "done") /\ w \notin busthread
          /\ UNCHANGED <<poolVars, job, ctlVars, waitVars, histVars>>
      BY <1>5 DEF End, Running, IInv, BusyExactly
    <2>2. TypeOK'
      BY <2>1 DEF IInv, TypeOK, Goto, Places
    <2>3. ControlInv' BY <2>1, WorkerKeepsControl
    <2>4. BusyExactly' BY <2>1, WorkerKeepsBusy
    <2>5. HoldersInv' BY <2>1, WorkerKeepsHolders
    <2> QED BY <2>2, <2>3, <2>4, <2>5 DEF IInv
  <1> QED BY <1>1, <1>2, <1>3, <1>4, <1>5 DEF FreeStep

\* ... and inside it.
LEMMA LockedStepInv == ASSUME IInv, NEW w \in Workers, LockedStep(w) PROVE IInv'
PROOF
  <1> USE DEF poolVars, workerVars, ctlVars, waitVars, histVars
  <1>1. CASE MarkBusy(w)
    <2>1. /\ Running(w) /\ Goto(w, "busy") /\ busthread' = busthread \cup {w}
          /\ job[w] \in Jobs
          /\ UNCHANGED <<jobqueue, startqueue, threadNum, bAllDone, bTerminate, job,
                         ctlVars, waitVars, histVars>>
      BY <1>1 DEF MarkBusy, Running, IInv, HoldersInv, Holders
    <2>2. TypeOK'
      BY <2>1 DEF IInv, TypeOK, Goto, Places
    <2>3. ControlInv' BY <2>1, WorkerKeepsControl
    <2>4. BusyExactly' BY <2>1, WorkerKeepsBusy
    <2>5. HoldersInv' BY <2>1, WorkerKeepsHolders
    <2> QED BY <2>2, <2>3, <2>4, <2>5 DEF IInv
  <1>2. CASE RunJob(w)
    <2>1. /\ Running(w) /\ Goto(w, "idle") /\ w \in busthread /\ job[w] \in Jobs
          /\ done' = done \cup {job[w]}
          /\ UNCHANGED <<poolVars, job, ctlVars, waitVars, fresh, dropped>>
      BY <1>2 DEF RunJob, Running, IInv, BusyExactly, HoldersInv, Holders
    <2>2. TypeOK'
      BY <2>1 DEF IInv, TypeOK, Goto, Places
    <2>3. ControlInv' BY <2>1, WorkerKeepsControl
    <2>4. BusyExactly' BY <2>1, WorkerKeepsBusy
    <2>5. HoldersInv' BY <2>1, WorkerKeepsHolders
    <2> QED BY <2>2, <2>3, <2>4, <2>5 DEF IInv
  <1>3. CASE GoIdle(w)
    <2>1. /\ Running(w) /\ Goto(w, "loop") /\ busthread' = busthread \ {w}
          /\ bAllDone' \in BOOLEAN /\ job' = [job EXCEPT ![w] = NoJob]
          /\ UNCHANGED <<jobqueue, startqueue, threadNum, bTerminate,
                         ctlVars, waitVars, histVars>>
      BY <1>3 DEF GoIdle, Running
    <2>2. TypeOK'
      BY <2>1 DEF IInv, TypeOK, Goto, Places
    <2>3. ControlInv' BY <2>1, WorkerKeepsControl
    <2>4. BusyExactly' BY <2>1, WorkerKeepsBusy
    <2>5. HoldersInv'
      <3>1. \A v \in Workers \ {w} : job'[v] = job[v]
        BY <2>1 DEF IInv, TypeOK
      <3> QED BY <2>1, <3>1, WorkerKeepsHolders
    <2> QED BY <2>2, <2>3, <2>4, <2>5 DEF IInv
  <1> QED BY <1>1, <1>2, <1>3 DEF LockedStep
-----------------------------------------------------------------------------
\* A step that moves no worker and leaves what they hold alone.
LEMMA WorkersUntouched ==
  ASSUME BusyExactly, HoldersInv, UNCHANGED <<pc, job, busthread>>
  PROVE  BusyExactly' /\ HoldersInv'
PROOF BY DEF BusyExactly, HoldersInv, Holders

\* A step within start() or stop().
LEMMA ControlStepInv == ASSUME IInv, ControlStep PROVE IInv'
PROOF
  <1> USE DEF poolVars, workerVars, ctlVars, waitVars, histVars
  <1>n. /\ MaxThreads \in Nat /\ threadNum \in 0..MaxThreads /\ cur \in Nat
        /\ TypeOK /\ BusyExactly /\ HoldersInv /\ ControlInv
    BY BoundsAssumption DEF IInv, TypeOK
  <1>1. CASE StartWorker
    <2>1. /\ ctl = "starting" /\ cur <= threadNum /\ ~Running(cur) /\ cur \in Workers
          /\ Goto(cur, "boot") /\ cur' = cur + 1
          /\ UNCHANGED <<poolVars, job, ctl, after, waitVars, histVars>>
      BY <1>1, <1>n DEF StartWorker, Goto, Workers, TypeOK
    <2>2. pc'[cur] = "boot" /\ \A v \in Workers \ {cur} : pc'[v] = pc[v]
      BY <2>1, Moved, <1>n
    <2>3. TypeOK'
      BY <2>1, <1>n DEF TypeOK, Goto, Places
    <2>4. cur \notin busthread
      BY <2>1, <1>n DEF BusyExactly, Running
    <2>5. BusyExactly'
      BY <2>1, <2>4, WorkerKeepsBusy, <1>n DEF IInv
    <2>6. HoldersInv'
      BY <2>1, WorkerKeepsHolders, <1>n DEF IInv
    <2>7. ControlInv'
      BY <2>1, <2>2, <1>n DEF ControlInv
    <2> QED BY <2>3, <2>5, <2>6, <2>7 DEF IInv
  <1>2. CASE StartThrows
    <2>1. TypeOK' /\ ControlInv'
      BY <1>2, <1>n DEF StartThrows, TypeOK, ControlInv
    <2> QED BY <1>2, <2>1, <1>n, WorkersUntouched DEF IInv, StartThrows
  <1>3. CASE StartDone
    <2>1. TypeOK' /\ ControlInv'
      BY <1>3, <1>n DEF StartDone, TypeOK, ControlInv
    <2> QED BY <1>3, <2>1, <1>n, WorkersUntouched DEF IInv, StartDone
  <1>4. CASE TerminateWorker
    <2>1. TypeOK' /\ ControlInv'
      BY <1>4, <1>n DEF TerminateWorker, TypeOK, ControlInv, Running
    <2> QED BY <1>4, <2>1, <1>n, WorkersUntouched DEF IInv, TerminateWorker
  <1>5. CASE JoinWorker
    <2>1. /\ ctl = "joining" /\ pc[cur] = "done" /\ cur <= threadNum
          /\ ctl' = "stopping" /\ cur' = cur + 1
          /\ UNCHANGED <<poolVars, workerVars, after, waitVars, histVars>>
      BY <1>5, <1>n DEF JoinWorker, ControlInv
    <2>2. TypeOK'
      BY <2>1, <1>n DEF TypeOK
    <2>3. \A w \in Workers : w < cur' => w < cur \/ w = cur
      BY <2>1, <1>n DEF Workers
    <2>4. ControlInv'
      BY <2>1, <2>3, <1>n DEF ControlInv, Running
    <2> QED BY <2>1, <2>2, <2>4, <1>n, WorkersUntouched DEF IInv
  <1>6. CASE SkipWorker
    <2>1. /\ ctl = "stopping" /\ ~Running(cur) /\ cur <= threadNum
          /\ cur' = cur + 1
          /\ UNCHANGED <<poolVars, workerVars, ctl, after, waitVars, histVars>>
      BY <1>6 DEF SkipWorker
    <2>2. TypeOK'
      BY <2>1, <1>n DEF TypeOK
    <2>3. \A w \in Workers : w < cur' => w < cur \/ w = cur
      BY <2>1, <1>n DEF Workers
    <2>4. ControlInv'
      BY <2>1, <2>3, <1>n DEF ControlInv, Running
    <2> QED BY <2>1, <2>2, <2>4, <1>n, WorkersUntouched DEF IInv
  <1>7. CASE StopDone
    <2>1. /\ ctl = "stopping" /\ cur > threadNum
          /\ ctl' \in {"free", "clearing"}
          /\ UNCHANGED <<poolVars, workerVars, cur, after, waitVars, histVars>>
      BY <1>7 DEF StopDone
    <2>2. TypeOK'
      BY <2>1, <1>n DEF TypeOK
    <2>3. \A w \in Workers : w < cur \/ w > threadNum
      BY <2>1, <1>n DEF Workers
    <2>4. Live = {}
      BY <2>1, <2>3, <1>n DEF ControlInv, Live, Running
    <2>5. ControlInv'
      BY <2>1, <2>4, <1>n DEF ControlInv, Live, Running
    <2> QED BY <2>1, <2>2, <2>5, <1>n, WorkersUntouched DEF IInv
  <1>8. ASSUME NEW num \in Sizes, InitClear(num) PROVE IInv'
    <2>1. /\ ctl = "clearing" /\ ctl' = "free"
          /\ pc' = [w \in Workers |-> "none"]
          /\ threadNum' \in 0..MaxThreads /\ after' = "none"
          /\ JobQueue!Clear /\ dropped' = dropped \cup ToSet(jobqueue)
          /\ bTerminate' \in [Workers -> BOOLEAN]
          /\ UNCHANGED <<startqueue, busthread, bAllDone, job, cur, waitVars,
                         fresh, done>>
      BY <1>8, <1>n, SizesAssumption DEF InitClear, ClearJobs
    <2>2. jobqueue' \in Seq(Jobs) /\ ToSet(jobqueue) \subseteq Jobs
      BY <2>1, <1>n, QueueType DEF TypeOK, ToSet
    <2>3. TypeOK'
      BY <2>1, <2>2, <1>n DEF TypeOK, Places
    <2>4. busthread = {}
      BY <2>1, <1>n DEF ControlInv, BusyExactly, Live, Running
    <2>5. BusyExactly' /\ HoldersInv'
      BY <2>1, <2>4 DEF BusyExactly, HoldersInv, Holders
    <2>6. ControlInv'
      BY <2>1 DEF ControlInv, Live, Running
    <2> QED BY <2>3, <2>5, <2>6 DEF IInv
  <1>9. CASE Destroy
    <2>1. /\ ctl = "clearing" /\ ctl' = "gone"
          /\ pc' = [w \in Workers |-> "none"]
          /\ threadNum' = 0 /\ UNCHANGED bTerminate
          /\ JobQueue!Clear /\ dropped' = dropped \cup ToSet(jobqueue)
          /\ UNCHANGED <<startqueue, busthread, bAllDone, job, cur, after, waitVars,
                         fresh, done>>
      BY <1>9 DEF Destroy, ClearJobs
    <2>2. jobqueue' \in Seq(Jobs) /\ ToSet(jobqueue) \subseteq Jobs
      BY <2>1, <1>n, QueueType DEF TypeOK, ToSet
    <2>3. TypeOK'
      BY <2>1, <2>2, <1>n DEF TypeOK, Places
    <2>4. busthread = {}
      BY <2>1, <1>n DEF ControlInv, BusyExactly, Live, Running
    <2>5. BusyExactly' /\ HoldersInv'
      BY <2>1, <2>4 DEF BusyExactly, HoldersInv, Holders
    <2>6. ControlInv'
      BY <2>1 DEF ControlInv, Live, Running
    <2> QED BY <2>3, <2>5, <2>6 DEF IInv
  <1>10. CASE QueueStart
    <2>1. TypeOK' /\ ControlInv'
      BY <1>10, <1>n DEF QueueStart, TypeOK, ControlInv
    <2> QED BY <1>10, <2>1, <1>n, WorkersUntouched DEF IInv, QueueStart
  <1> QED
    BY <1>1, <1>2, <1>3, <1>4, <1>5, <1>6, <1>7, <1>8, <1>9, <1>10 DEF ControlStep

\* A control call begins.
LEMMA CallInv ==
  ASSUME IInv, CallStart \/ CallStartWith \/ \E next \in {"none", "init", "destroy"} : CallStop(next)
  PROVE  IInv'
PROOF
  <1> USE DEF poolVars, workerVars, ctlVars, waitVars, histVars
  <1>1. /\ ctl = "free" /\ ctl' \in {"queueing", "starting", "stopping"} /\ cur' = 1
        /\ startqueue' \in Nat /\ after' \in {"none", "init", "destroy"}
        /\ UNCHANGED <<jobqueue, threadNum, busthread, bAllDone, bTerminate,
                       workerVars, waitVars, histVars>>
    BY DEF CallStart, CallStartWith, CallStop, IInv, TypeOK
  <1>2. TypeOK'
    BY <1>1, BoundsAssumption DEF IInv, TypeOK
  <1>3. ControlInv'
    BY <1>1 DEF IInv, ControlInv, Workers
  <1> QED BY <1>1, <1>2, <1>3, WorkersUntouched DEF IInv

\* exec() touches the queue only.
LEMMA ExecInv == ASSUME IInv, NEW j \in Jobs, Exec(j) PROVE IInv'
PROOF
  <1> USE DEF poolVars, workerVars, ctlVars, waitVars, histVars
  <1>1. jobqueue' \in Seq(Jobs)
    BY QueueType DEF Exec, IInv
  <1>2. TypeOK'
    BY <1>1 DEF Exec, IInv, TypeOK
  <1>3. ControlInv'
    BY DEF Exec, IInv, ControlInv, Live, Running
  <1> QED BY <1>2, <1>3, WorkersUntouched DEF IInv, Exec

\* waitForAllDone() touches its own place only.
LEMMA WaitInv == ASSUME IInv, NEW c \in Waiters, Wait(c) PROVE IInv'
PROOF
  <1> USE DEF poolVars, workerVars, ctlVars, waitVars, histVars
  <1>1. UNCHANGED <<poolVars, workerVars, ctlVars, histVars>>
    BY DEF Wait, WaitCall, CheckStartQueue, CheckJobQueue, CheckBusy, WakeUp
  <1>2. /\ at' \in [Waiters -> {"out", "check", "jobs", "busy", "asleep"}]
        /\ timed' \in [Waiters -> BOOLEAN] /\ late' \in [Waiters -> BOOLEAN]
        /\ said' \in [Waiters -> {"nothing", "true", "false"}]
        /\ before' \in [Waiters -> SUBSET Jobs]
    <2>1. ASSUME NEW isTimed \in BOOLEAN, WaitCall(c, isTimed) PROVE <1>2!:
      BY <2>1 DEF WaitCall, IInv, TypeOK
    <2>2. CASE CheckStartQueue(c) \/ CheckJobQueue(c)
      BY <2>2 DEF CheckStartQueue, CheckJobQueue, NotFinished, GoOn, Return, IInv, TypeOK
    <2>3. CASE CheckBusy(c)
      BY <2>3 DEF CheckBusy, NotFinished, GoOn, Return, IInv, TypeOK
    <2>4. ASSUME NEW timedOut \in BOOLEAN, WakeUp(c, timedOut) PROVE <1>2!:
      BY <2>4 DEF WakeUp, IInv, TypeOK
    <2> QED BY <2>1, <2>2, <2>3, <2>4 DEF Wait
  <1>3. TypeOK'
    BY <1>1, <1>2 DEF IInv, TypeOK
  <1>4. ControlInv'
    BY <1>1 DEF IInv, ControlInv, Live, Running
  <1> QED BY <1>1, <1>3, <1>4, WorkersUntouched DEF IInv

\* Every step of the pool.
LEMMA NextInv == IInv /\ [Next]_vars => IInv'
PROOF
  <1>1. ASSUME IInv, UNCHANGED vars PROVE IInv'
    BY <1>1 DEF vars, poolVars, workerVars, ctlVars, waitVars, histVars, IInv, TypeOK,
       BusyExactly, HoldersInv, Holders, ControlInv, Live, Running
  <1> QED
    BY <1>1, ExecInv, CallInv, ControlStepInv, FreeStepInv, LockedStepInv, WaitInv
    DEF Next, Control

\* Every variable of the pool keeps its type.
THEOREM TypeCorrect == Spec => []TypeOK
PROOF
  <1>1. IInv => TypeOK BY DEF IInv
  <1> QED BY <1>1, InitInv, NextInv, PTL DEF Spec

\* _busthread is exact: a worker is in it from the moment get() returns a job until
\* idle(), in every interleaving with other workers, stop() and init().
THEOREM BusyCorrect == Spec => []BusyExactly
PROOF
  <1>1. IInv => BusyExactly BY DEF IInv
  <1> QED BY <1>1, InitInv, NextInv, PTL DEF Spec

\* stop() returns only when every worker thread has ended, so init() and the
\* destructor never delete a worker whose thread is alive.
THEOREM StopJoinsAll == Spec => []StopJoins
PROOF
  <1>1. IInv => StopJoins
    <2> SUFFICES ASSUME IInv, ctl = "stopping" /\ cur > threadNum PROVE Live = {}
      BY DEF StopJoins, IInv, ControlInv
    <2>1. \A w \in Workers : w < cur \/ w > threadNum
      BY BoundsAssumption DEF IInv, TypeOK, Workers
    <2> QED BY <2>1 DEF IInv, ControlInv, Live, Running
  <1> QED BY <1>1, InitInv, NextInv, PTL DEF Spec
-----------------------------------------------------------------------------
(* OnePlace *)

\* What is queued are jobs.
LEMMA ElementsType == ASSUME TypeOK PROVE ToSet(jobqueue) \subseteq Jobs
PROOF BY DEF TypeOK, ToSet

\* The jobs in hand change only with the places and the jobs of the holders.
LEMMA SameHolders ==
  ASSUME Holders' = Holders, \A v \in Holders : job'[v] = job[v]
  PROVE  Held' = Held
PROOF BY DEF Held

\* A step that moves no job from one place to another keeps OnePlace.
LEMMA NoJobMoves ==
  ASSUME OnePlace, Holders' = Holders, \A v \in Holders : job'[v] = job[v],
         UNCHANGED <<jobqueue, fresh, done, dropped>>
  PROVE  OnePlace'
PROOF BY SameHolders DEF OnePlace

\* Emptying the queue moves its jobs to the dropped ones.
LEMMA ClearMoves ==
  ASSUME TypeOK, OnePlace, ClearJobs, Held' = Held,
         \A v, w \in Holders' : job'[v] = job'[w] => v = w,
         UNCHANGED <<fresh, done>>
  PROVE  OnePlace'
PROOF
  <1>1. jobqueue' = <<>> /\ dropped' = dropped \cup ToSet(jobqueue)
    BY DEF ClearJobs, JobQueue!Clear
  <1>2. ToSet(jobqueue') = {} /\ IsInjective(jobqueue')
    BY <1>1 DEF ToSet, IsInjective
  <1> QED BY <1>1, <1>2 DEF OnePlace

\* A new job goes into the queue, ...
LEMMA ExecMoves == ASSUME IInv, OnePlace, NEW j \in Jobs, Exec(j) PROVE OnePlace'
PROOF
  <1>1. /\ j \in fresh /\ fresh' = fresh \ {j} /\ jobqueue' = jobqueue \o <<j>>
        /\ UNCHANGED <<pc, job, done, dropped>>
    BY DEF Exec, JobQueue!PushBack, workerVars
  <1>2. j \notin ToSet(jobqueue)
    BY <1>1 DEF OnePlace
  <1>3. ToSet(jobqueue') = ToSet(jobqueue) \cup {j} /\ IsInjective(jobqueue')
    BY <1>1, <1>2, PushBackElements DEF IInv, TypeOK, OnePlace
  <1>4. Holders' = Holders /\ Held' = Held
    BY <1>1 DEF Holders, Held
  <1> QED BY <1>1, <1>3, <1>4 DEF OnePlace

\* ... from there to a worker, ...
LEMMA TakeMoves ==
  ASSUME IInv, OnePlace, NEW w \in Workers, w \notin Holders, NEW j \in Jobs,
         job' = [job EXCEPT ![w] = j], Goto(w, "popped"), JobQueue!TakeHead(j),
         UNCHANGED histVars
  PROVE  OnePlace'
PROOF
  <1>1. jobqueue # <<>> /\ j = Head(jobqueue) /\ jobqueue' = Tail(jobqueue)
    BY QueueType DEF IInv
  <1>2. /\ j \in ToSet(jobqueue) /\ ToSet(jobqueue') = ToSet(jobqueue) \ {j}
        /\ IsInjective(jobqueue')
    BY <1>1, TakeFrontElements DEF IInv, TypeOK, OnePlace
  <1>3. pc'[w] = "popped" /\ \A v \in Workers \ {w} : pc'[v] = pc[v]
    BY Moved DEF IInv
  <1>4. job'[w] = j /\ \A v \in Workers \ {w} : job'[v] = job[v]
    BY DEF IInv, TypeOK
  <1>5. Holders' = Holders \cup {w}
    BY <1>3 DEF Holders
  <1>6. \A v \in Holders : v # w /\ v \in Workers /\ job'[v] = job[v]
    BY <1>4 DEF Holders
  <1>7. Held' = Held \cup {j}
    BY <1>4, <1>5, <1>6 DEF Held
  <1>8. \A v \in Holders : job[v] # j
    BY <1>2 DEF OnePlace, Held
  <1>9. \A u, v \in Holders' : job'[u] = job'[v] => u = v
    BY <1>4, <1>5, <1>6, <1>8 DEF OnePlace
  <1> QED BY <1>2, <1>7, <1>9 DEF OnePlace, histVars

\* ... and is executed.
LEMMA RunMoves == ASSUME IInv, OnePlace, NEW w \in Workers, RunJob(w) PROVE OnePlace'
PROOF
  <1>1. /\ w \in Holders /\ Goto(w, "idle") /\ done' = done \cup {job[w]}
        /\ UNCHANGED <<jobqueue, job, fresh, dropped>>
    BY DEF RunJob, Holders, poolVars
  <1>2. pc'[w] = "idle" /\ \A v \in Workers \ {w} : pc'[v] = pc[v]
    BY <1>1, Moved DEF IInv
  <1>3. Holders' = Holders \ {w}
    BY <1>2 DEF Holders
  <1>4. Held' = Held \ {job[w]} /\ job[w] \in Held
    BY <1>1, <1>3 DEF Held, OnePlace
  <1> QED BY <1>1, <1>3, <1>4 DEF OnePlace

\* A worker's step between two places that both hold a job, or both do not.
LEMMA OtherMoves ==
  ASSUME IInv, OnePlace, NEW w \in Workers, NEW place, Goto(w, place),
         w \in Holders <=> place \in {"popped", "busy"},
         \A v \in Holders : job'[v] = job[v]
  PROVE  /\ Holders' = Holders
         /\ UNCHANGED <<jobqueue, fresh, done, dropped>> => OnePlace'
PROOF
  <1>1. pc'[w] = place /\ \A v \in Workers \ {w} : pc'[v] = pc[v]
    BY Moved DEF IInv
  <1>2. Holders' = Holders
    BY <1>1 DEF Holders
  <1> QED BY <1>2, NoJobMoves

\* So no step of a worker puts a job in two places, ...
LEMMA WorkerOnePlace ==
  ASSUME IInv, OnePlace, NEW w \in Workers, FreeStep(w) \/ LockedStep(w)
  PROVE  OnePlace'
PROOF
  <1> USE DEF poolVars, histVars
  <1>1. CASE Boot(w) \/ LoopTest(w) \/ End(w)
    <2>1. PICK place \in {"loop", "exit", "get", "done"} : Goto(w, place)
      BY <1>1 DEF Boot, LoopTest, End
    <2>2. w \notin Holders /\ UNCHANGED <<job, jobqueue, fresh, done, dropped>>
      BY <1>1 DEF Boot, LoopTest, End, Holders
    <2> QED BY <2>1, <2>2, OtherMoves
  <1>2. CASE GetJob(w)
    <2>1. w \notin Holders /\ UNCHANGED histVars
      BY <1>2 DEF GetJob, Holders
    <2>2. CASE \E j \in Jobs : /\ job' = [job EXCEPT ![w] = j]
                               /\ Goto(w, "popped")
                               /\ JobQueue!TakeHead(j)
      BY <2>1, <2>2, TakeMoves
    <2>3. CASE \E place \in {"wait", "loop"} :
                 Goto(w, place) /\ UNCHANGED <<job, jobqueue>>
      BY <2>1, <2>3, OtherMoves
    <2> QED
      BY <1>2, <2>2, <2>3
      DEF GetJob, JobQueue!PopNow, JobQueue!PopLate, JobQueue!Block, JobQueue!Miss
  <1>3. CASE MarkBusy(w)
    BY <1>3, OtherMoves DEF MarkBusy, Holders
  <1>4. CASE RunJob(w)
    BY <1>4, RunMoves
  <1>5. CASE GoIdle(w)
    <2>1. w \notin Holders /\ Goto(w, "loop")
          /\ UNCHANGED <<jobqueue, fresh, done, dropped>>
      BY <1>5 DEF GoIdle, Holders
    <2>2. \A v \in Holders : job'[v] = job[v]
      BY <1>5, <2>1 DEF GoIdle, Holders, IInv, TypeOK
    <2> QED BY <2>1, <2>2, OtherMoves
  <1>6. CASE Exit(w)
    <2>1. w \notin Holders /\ Goto(w, "ending") /\ ClearJobs
          /\ UNCHANGED <<job, fresh, done>>
      BY <1>6 DEF Exit, Holders
    <2>2. Holders' = Holders
      BY <2>1, OtherMoves
    <2>3. Held' = Held
      BY <2>1, <2>2, SameHolders
    <2>4. \A u, v \in Holders' : job'[u] = job'[v] => u = v
      BY <2>1, <2>2 DEF OnePlace
    <2> QED BY <2>1, <2>3, <2>4, ClearMoves DEF IInv
  <1> QED
    BY <1>1, <1>2, <1>3, <1>4, <1>5, <1>6 DEF FreeStep, LockedStep

\* ... nor does a control call, ...
LEMMA ControlOnePlace == ASSUME IInv, OnePlace, Control PROVE OnePlace'
PROOF
  <1> USE DEF poolVars, workerVars, histVars
  <1>1. CASE StartWorker
    <2>1. /\ cur \in Workers /\ Goto(cur, "boot") /\ cur \notin Holders
          /\ UNCHANGED <<job, jobqueue, fresh, done, dropped>>
      BY <1>1, BoundsAssumption
      DEF StartWorker, Goto, Workers, IInv, TypeOK, Holders, Running
    <2> QED BY <2>1, OtherMoves
  <1>2. ASSUME ctl = "clearing", ClearJobs, pc' = [w \in Workers |-> "none"],
               UNCHANGED <<job, fresh, done>>
        PROVE  OnePlace'
    <2>1. Holders = {} /\ Holders' = {}
      BY <1>2 DEF IInv, ControlInv, Live, Running, Holders
    <2>2. Held' = Held
      BY <2>1, SameHolders
    <2> QED BY <1>2, <2>1, <2>2, ClearMoves DEF IInv
  <1>3. CASE \/ CallStart \/ CallStartWith
             \/ \E next \in {"none", "init", "destroy"} : CallStop(next)
             \/ QueueStart \/ StartThrows \/ StartDone \/ TerminateWorker \/ JoinWorker
             \/ SkipWorker \/ StopDone
    <2>1. UNCHANGED <<pc, job, jobqueue, fresh, done, dropped>>
      BY <1>3 DEF CallStart, CallStartWith, CallStop, QueueStart, StartThrows, StartDone,
         TerminateWorker, JoinWorker, SkipWorker, StopDone
    <2> QED BY <2>1, NoJobMoves DEF Holders
  <1> QED
    BY <1>1, <1>2, <1>3 DEF Control, ControlStep, InitClear, Destroy

\* ... nor any other step.
LEMMA NextOnePlace == IInv /\ OnePlace /\ [Next]_vars => OnePlace'
PROOF
  <1> SUFFICES ASSUME IInv, OnePlace, [Next]_vars PROVE OnePlace'
    OBVIOUS
  <1> USE DEF poolVars, workerVars, histVars
  <1>1. ASSUME NEW c \in Waiters, Wait(c) PROVE OnePlace'
    <2>1. UNCHANGED <<pc, job, jobqueue, fresh, done, dropped>>
      BY <1>1 DEF Wait, WaitCall, CheckStartQueue, CheckJobQueue, CheckBusy, WakeUp
    <2> QED BY <2>1, NoJobMoves DEF Holders
  <1>2. CASE UNCHANGED vars
    BY <1>2, NoJobMoves DEF vars, Holders
  <1> QED
    BY <1>1, <1>2, ExecMoves, ControlOnePlace, WorkerOnePlace DEF Next

\* No interleaving of exec, workers, stop, init and the destructor loses a job,
\* queues it twice, gives it to two workers or executes it a second time.
THEOREM JobsInOnePlace == Spec => []OnePlace
PROOF
  <1>1. Init => OnePlace
    BY DEF Init, OnePlace, Held, Holders, ToSet, IsInjective
  <1> QED BY <1>1, InitInv, NextInv, NextOnePlace, PTL DEF Spec
-----------------------------------------------------------------------------
(* TrueMeansAlmostDone and ImplementsExecutor *)

\* How jobs move, as far as those who only watch the queue can tell: it gets no other
\* job than a new one, and no job becomes new again.
JobsMoveOn == fresh' \subseteq fresh /\ ToSet(jobqueue') \subseteq ToSet(jobqueue) \cup fresh

\* Taking the head of the queue takes its job out of the elements.
LEMMA TakeHeadElements ==
  ASSUME IInv, OnePlace, NEW j, JobQueue!TakeHead(j)
  PROVE  j \in ToSet(jobqueue) /\ ToSet(jobqueue') = ToSet(jobqueue) \ {j}
PROOF
  <1>1. jobqueue # <<>> /\ j = Head(jobqueue) /\ jobqueue' = Tail(jobqueue)
    BY QueueType DEF IInv
  <1> QED BY <1>1, TakeFrontElements DEF IInv, TypeOK, OnePlace

\* Clearing the queue leaves no elements.
LEMMA ClearElements ==
  ASSUME ClearJobs
  PROVE  ToSet(jobqueue') = {} /\ dropped' = dropped \cup ToSet(jobqueue)
PROOF BY DEF ClearJobs, JobQueue!Clear, ToSet

\* Submitting a job puts it among the elements.
LEMMA ExecElements ==
  ASSUME IInv, NEW j \in Jobs, Exec(j)
  PROVE  ToSet(jobqueue') = ToSet(jobqueue) \cup {j}
PROOF
  <1>1. jobqueue' = jobqueue \o <<j>>
    BY DEF Exec, JobQueue!PushBack
  <1> QED BY <1>1, PushBackElements DEF IInv, TypeOK

\* What each step of a worker does with the jobs.
LEMMA WorkerMovesJobs ==
  ASSUME IInv, OnePlace, NEW w \in Workers, FreeStep(w) \/ LockedStep(w)
  PROVE  /\ fresh' = fresh
         /\ \/ UNCHANGED <<jobqueue, done, dropped>>
            \/ \E j \in Jobs : JobQueue!TakeHead(j) /\ UNCHANGED <<done, dropped>>
            \/ /\ pc[w] = "busy" /\ done' = done \cup {job[w]}
               /\ UNCHANGED <<jobqueue, dropped>>
            \/ pc[w] = "exit" /\ ClearJobs /\ UNCHANGED done
PROOF
  <1> USE DEF poolVars, histVars
  <1>1. CASE GetJob(w)
    BY <1>1 DEF GetJob, JobQueue!PopNow, JobQueue!PopLate, JobQueue!Block, JobQueue!Miss
  <1>2. CASE RunJob(w)
    BY <1>2 DEF RunJob
  <1>3. CASE Exit(w)
    BY <1>3 DEF Exit
  <1>4. CASE Boot(w) \/ LoopTest(w) \/ End(w) \/ MarkBusy(w) \/ GoIdle(w)
    BY <1>4 DEF Boot, LoopTest, End, MarkBusy, GoIdle
  <1> QED BY <1>1, <1>2, <1>3, <1>4 DEF FreeStep, LockedStep

\* What each step of the control thread does with them.
LEMMA ControlMovesJobs ==
  ASSUME Control
  PROVE  /\ UNCHANGED <<fresh, done>>
         /\ \/ UNCHANGED <<jobqueue, dropped>>
            \/ ctl = "clearing" /\ ClearJobs
PROOF
  <1> USE DEF poolVars, histVars
  <1>1. CASE \E num \in Sizes : InitClear(num)
    BY <1>1 DEF InitClear
  <1>2. CASE Destroy
    BY <1>2 DEF Destroy
  <1>3. CASE \/ CallStart \/ CallStartWith
             \/ \E next \in {"none", "init", "destroy"} : CallStop(next)
             \/ QueueStart \/ StartWorker \/ StartThrows \/ StartDone \/ TerminateWorker
             \/ JoinWorker \/ SkipWorker \/ StopDone
    BY <1>3 DEF CallStart, CallStartWith, CallStop, QueueStart, StartWorker, StartThrows,
       StartDone, TerminateWorker, JoinWorker, SkipWorker, StopDone
  <1> QED BY <1>1, <1>2, <1>3 DEF Control, ControlStep

\* A waiter moves none.
LEMMA WaiterMovesNone ==
  ASSUME NEW c \in Waiters, Wait(c)
  PROVE  UNCHANGED <<poolVars, workerVars, ctlVars, histVars>>
PROOF BY DEF Wait, WaitCall, CheckStartQueue, CheckJobQueue, CheckBusy, WakeUp

\* So every step moves the jobs on.
LEMMA NextMovesOn ==
  ASSUME IInv, OnePlace, [Next]_vars PROVE JobsMoveOn
PROOF
  <1>1. ASSUME NEW j \in Jobs, Exec(j) PROVE JobsMoveOn
    BY <1>1, ExecElements DEF Exec, JobsMoveOn
  <1>2. CASE Control
    BY <1>2, ControlMovesJobs, ClearElements DEF JobsMoveOn
  <1>3. ASSUME NEW w \in Workers, FreeStep(w) \/ LockedStep(w) PROVE JobsMoveOn
    BY <1>3, WorkerMovesJobs, ClearElements, TakeHeadElements DEF JobsMoveOn
  <1>4. ASSUME NEW c \in Waiters, Wait(c) PROVE JobsMoveOn
    BY <1>4, WaiterMovesNone DEF poolVars, histVars, JobsMoveOn
  <1>5. CASE UNCHANGED vars
    BY <1>5 DEF vars, poolVars, histVars, JobsMoveOn
  <1> QED BY <1>1, <1>2, <1>3, <1>4, <1>5 DEF Next

\* A waiter that has seen the job queue empty knows that no job of before its call is
\* queued, then or later: the queue gets new jobs only.
SeenInv ==
  \A c \in Waiters :
    /\ before[c] \cap fresh = {}
    /\ at[c] = "busy" => before[c] \cap ToSet(jobqueue) = {}

\* The other threads do not take this knowledge away ...
LEMMA OthersKeepSeen ==
  ASSUME SeenInv, JobsMoveOn, UNCHANGED <<at, before>> PROVE SeenInv'
PROOF BY DEF SeenInv, JobsMoveOn

\* ... and a waiter gets it in the right order.
LEMMA WaiterKeepsSeen ==
  ASSUME IInv, SeenInv, NEW c \in Waiters, Wait(c) PROVE SeenInv'
PROOF
  <1>1. /\ at \in [Waiters -> {"out", "check", "jobs", "busy", "asleep"}]
        /\ before \in [Waiters -> SUBSET Jobs]
    BY DEF IInv, TypeOK
  <1>2. UNCHANGED <<jobqueue, fresh>>
    BY WaiterMovesNone DEF poolVars, histVars
  <1>3. CASE \E isTimed \in BOOLEAN : WaitCall(c, isTimed)
    <2>1. /\ at'[c] = "check" /\ before'[c] = Jobs \ fresh
          /\ \A d \in Waiters \ {c} : at'[d] = at[d] /\ before'[d] = before[d]
      BY <1>1, <1>3 DEF WaitCall
    <2> QED BY <1>2, <2>1 DEF SeenInv
  <1>4. CASE CheckJobQueue(c)
    <2>1. /\ before'[c] \in {before[c], {}}
          /\ at'[c] = "busy" => jobqueue = <<>>
          /\ \A d \in Waiters \ {c} : at'[d] = at[d] /\ before'[d] = before[d]
      BY <1>1, <1>4 DEF CheckJobQueue, NotFinished, GoOn, Return
    <2>2. jobqueue = <<>> => ToSet(jobqueue) = {}
      BY DEF ToSet
    <2> QED BY <1>2, <2>1, <2>2 DEF SeenInv
  <1>5. CASE \/ CheckStartQueue(c) \/ CheckBusy(c)
             \/ \E timedOut \in BOOLEAN : WakeUp(c, timedOut)
    <2>1. /\ before'[c] \in {before[c], {}} /\ at'[c] # "busy"
          /\ \A d \in Waiters \ {c} : at'[d] = at[d] /\ before'[d] = before[d]
      BY <1>1, <1>5 DEF CheckStartQueue, CheckBusy, WakeUp, NotFinished, GoOn, Return
    <2> QED BY <1>2, <2>1 DEF SeenInv
  <1> QED BY <1>3, <1>4, <1>5 DEF Wait

\* Every step keeps it.
LEMMA NextSeen == IInv /\ OnePlace /\ SeenInv /\ [Next]_vars => SeenInv'
PROOF
  <1> SUFFICES ASSUME IInv, OnePlace, SeenInv, [Next]_vars PROVE SeenInv'
    OBVIOUS
  <1>1. CASE \/ \E j \in Jobs : Exec(j)
             \/ Control
             \/ \E w \in Workers : FreeStep(w) \/ LockedStep(w)
             \/ UNCHANGED vars
    <2>1. UNCHANGED waitVars
      BY <1>1
      DEF vars, Exec, Control, ControlStep, CallStart, CallStartWith, CallStop, QueueStart,
          StartWorker, StartThrows, StartDone, TerminateWorker, JoinWorker, SkipWorker, StopDone,
          InitClear, Destroy, FreeStep, LockedStep, Boot, LoopTest, GetJob, Exit, End,
          MarkBusy, RunJob, GoIdle
    <2> QED BY <2>1, NextMovesOn, OthersKeepSeen DEF waitVars
  <1> QED BY <1>1, WaiterKeepsSeen DEF Next

\* "True" overlooks at most the jobs between pop_front and _busthread: the three reads
\* of finish(), made one after the other while workers go on, find every other job.
LEMMA StepSaysTruth ==
  ASSUME IInv, OnePlace, SeenInv, [Next]_vars, NEW c \in Waiters, SaysTrue(c)
  PROVE  before[c] \subseteq done \cup dropped \cup Overlooked
PROOF
  <1>1. said \in [Waiters -> {"nothing", "true", "false"}] /\ before[c] \subseteq Jobs
    BY DEF IInv, TypeOK
  <1>2. PICK d \in Waiters : Wait(d)
    <2>1. said' # said
      BY DEF SaysTrue
    <2> QED
      BY <2>1
      DEF Next, vars, waitVars, Exec, Control, ControlStep, CallStart, CallStartWith,
          CallStop, QueueStart, StartWorker, StartThrows, StartDone, TerminateWorker,
          JoinWorker, SkipWorker, StopDone, InitClear, Destroy, FreeStep, LockedStep, Boot, LoopTest,
          GetJob, Exit, End, MarkBusy, RunJob, GoIdle
  <1>3. d = c /\ at[c] = "busy" /\ busthread = {}
    BY <1>1, <1>2
    DEF SaysTrue, Wait, WaitCall, CheckStartQueue, CheckJobQueue, CheckBusy, WakeUp,
        NotFinished, GoOn, Return
  <1>4. before[c] \cap (fresh \cup ToSet(jobqueue)) = {}
    BY <1>3 DEF SeenInv
  <1>5. \A w \in Holders : pc[w] = "popped"
    BY <1>3 DEF IInv, BusyExactly, Holders
  <1>6. Held \subseteq Overlooked
    BY <1>5 DEF Held, Holders, Overlooked
  <1> QED BY <1>1, <1>4, <1>6 DEF OnePlace

\* What "true" from waitForAllDone is worth, for any number of workers and waiters.
THEOREM TrueAlmostMeansDone == Spec => TrueMeansAlmostDone
PROOF
  <1>1. Init => OnePlace /\ SeenInv
    BY DEF Init, OnePlace, Held, Holders, ToSet, IsInjective, SeenInv
  <1>2. IInv /\ OnePlace /\ SeenInv /\ [Next]_vars =>
          [\A c \in Waiters : SaysTrue(c) =>
             before[c] \subseteq done \cup dropped \cup Overlooked]_vars
    BY StepSaysTruth
  <1> QED
    BY <1>1, <1>2, InitInv, NextInv, NextOnePlace, NextSeen, PTL
    DEF Spec, TrueMeansAlmostDone

\* The life of each job, and whether the pool is open, as TaskExecutor sees them.
Status == [j \in Jobs |-> CASE j \in fresh -> "new"
                            [] j \in ToSet(jobqueue) -> "queued"
                            [] j \in done -> "done"
                            [] j \in dropped -> "dropped"
                            [] OTHER -> "taken"]
Open == after = "none" /\ \A w \in Workers : ~bTerminate[w]

\* Workers leave only after they were asked to, and the control thread is in no call of
\* init() or the destructor when it is free or starts threads.
OpenInv ==
  /\ \A w \in Workers : pc[w] = "exit" => bTerminate[w]
  /\ ctl \in {"free", "queueing", "starting"} => after = "none"

\* Every step keeps it.
LEMMA NextOpen == IInv /\ OpenInv /\ [Next]_vars => OpenInv'
PROOF
  <1> SUFFICES ASSUME IInv, OpenInv, [Next]_vars PROVE OpenInv'
    OBVIOUS
  <1>1. CASE \/ \E j \in Jobs : Exec(j)
             \/ \E c \in Waiters : Wait(c)
             \/ UNCHANGED vars
    <2>1. UNCHANGED <<pc, bTerminate, ctl, after>>
      BY <1>1, WaiterMovesNone DEF Exec, vars, poolVars, workerVars, ctlVars
    <2> QED BY <2>1 DEF OpenInv
  <1>2. ASSUME NEW w \in Workers, FreeStep(w) \/ LockedStep(w) PROVE OpenInv'
    <2>1. UNCHANGED <<bTerminate, ctl, after>>
      BY <1>2
      DEF ctlVars, poolVars, FreeStep, LockedStep, Boot, LoopTest, GetJob, Exit, End,
          MarkBusy, RunJob, GoIdle
    <2>2. PICK place \in Places :
            Goto(w, place) /\ (place = "exit" => bTerminate[w])
      BY <1>2
      DEF Places, FreeStep, LockedStep, Boot, LoopTest, GetJob, Exit, End,
          MarkBusy, RunJob, GoIdle
    <2>3. pc'[w] = place /\ \A v \in Workers \ {w} : pc'[v] = pc[v]
      BY <2>2, Moved DEF IInv
    <2> QED BY <2>1, <2>2, <2>3 DEF OpenInv
  <1>3. CASE Control
    <2>1. CASE StartWorker
      <3>1. cur \in Workers
        BY <2>1, BoundsAssumption DEF StartWorker, Workers, IInv, TypeOK
      <3>2. pc'[cur] = "boot" /\ \A v \in Workers \ {cur} : pc'[v] = pc[v]
        BY <2>1, <3>1 DEF StartWorker, IInv, TypeOK
      <3> QED BY <2>1, <3>2 DEF StartWorker, OpenInv, poolVars
    <2>2. CASE TerminateWorker
      <3>1. /\ \A w \in Workers : bTerminate[w] => bTerminate'[w]
            /\ UNCHANGED <<pc, after>> /\ ctl' = "joining"
        BY <2>2 DEF TerminateWorker, workerVars, IInv, TypeOK
      <3> QED BY <3>1 DEF OpenInv
    <2>3. CASE (\E num \in Sizes : InitClear(num)) \/ Destroy
      BY <2>3 DEF InitClear, Destroy, OpenInv
    <2>4. CASE \/ CallStart \/ CallStartWith \/ StartThrows \/ StartDone
               \/ \E next \in {"none", "init", "destroy"} : CallStop(next)
               \/ JoinWorker \/ SkipWorker \/ StopDone
      BY <2>4
      DEF CallStart, CallStartWith, StartThrows, StartDone, CallStop, JoinWorker,
          SkipWorker, StopDone, poolVars, workerVars, OpenInv
    <2>5. CASE QueueStart
      BY <2>5 DEF QueueStart, workerVars, OpenInv
    <2> QED BY <1>3, <2>1, <2>2, <2>3, <2>4, <2>5 DEF Control, ControlStep
  <1> QED BY <1>1, <1>2, <1>3 DEF Next

\* How the life of a job follows from the sets: it depends on nothing else, ...
LEMMA SameStatus ==
  ASSUME UNCHANGED <<jobqueue, fresh, done, dropped>> PROVE Status' = Status
PROOF BY DEF Status

\* ... and a job that changes its set changes nobody else's life.
LEMMA MoveInstance ==
  ASSUME NEW j \in Jobs, NEW from, NEW to,
         Status[j] = from, Status'[j] = to, \A k \in Jobs \ {j} : Status'[k] = Status[k],
         UNCHANGED Open
  PROVE  Executor!Move(j, from, to)
PROOF
  <1>1. Status' = [Status EXCEPT ![j] = to]
    <2>1. DOMAIN Status = Jobs /\ Status = [k \in Jobs |-> Status[k]]
      BY DEF Status
    <2>2. DOMAIN Status' = Jobs /\ Status' = [k \in Jobs |-> Status'[k]]
      BY DEF Status
    <2> QED BY <2>1, <2>2
  <1>2. Executor!Move(j, from, to) <=>
          Status[j] = from /\ Status' = [Status EXCEPT ![j] = to] /\ UNCHANGED Open
    BY Zenon DEF Executor!Move, Status, Open
  <1> QED BY <1>1, <1>2

\* Clearing the queue is the executor's Discard.
LEMMA ClearDiscards ==
  ASSUME OnePlace, ClearJobs, UNCHANGED <<fresh, done>>, ~Open
  PROVE  Executor!Discard
PROOF
  <1>1. ToSet(jobqueue') = {} /\ dropped' = dropped \cup ToSet(jobqueue)
    BY ClearElements
  <1>2. ASSUME NEW j \in Jobs
        PROVE  Status'[j] = IF Status[j] = "queued" THEN "dropped" ELSE Status[j]
    BY <1>1 DEF Status, OnePlace
  <1>3. Status' = [j \in Jobs |-> IF j \in {k \in Jobs : Status[k] = "queued"}
                                  THEN "dropped" ELSE Status[j]]
    BY <1>2 DEF Status
  <1> QED BY <1>3 DEF Executor!Discard, Executor!Queued, Status, Open

\* The steps of a worker, ...
LEMMA WorkerImplements ==
  ASSUME IInv, OnePlace, OpenInv, NEW w \in Workers, FreeStep(w) \/ LockedStep(w)
  PROVE  Executor!Next \/ (Status' = Status /\ Open' = Open)
PROOF
  <1>1. Open' = Open
    <2>1. UNCHANGED <<after, bTerminate>>
      BY DEF ctlVars, poolVars, FreeStep, LockedStep, Boot, LoopTest, GetJob, Exit, End,
             MarkBusy, RunJob, GoIdle
    <2> QED BY <2>1 DEF Open
  <1>2. fresh' = fresh
    BY WorkerMovesJobs
  <1>3. CASE UNCHANGED <<jobqueue, done, dropped>>
    BY <1>1, <1>2, <1>3, SameStatus
  <1>4. ASSUME NEW j \in Jobs, JobQueue!TakeHead(j), UNCHANGED <<done, dropped>>
        PROVE  Executor!Next
    <2>1. j \in ToSet(jobqueue) /\ ToSet(jobqueue') = ToSet(jobqueue) \ {j}
      BY <1>4, TakeHeadElements
    <2>2. j \notin fresh /\ j \notin done /\ j \notin dropped
      BY <2>1 DEF OnePlace
    <2>3. Status[j] = "queued" /\ Status'[j] = "taken"
      BY <1>2, <1>4, <2>1, <2>2 DEF Status
    <2>4. \A k \in Jobs \ {j} : Status'[k] = Status[k]
      BY <1>2, <1>4, <2>1 DEF Status
    <2> QED BY <1>1, <2>3, <2>4, MoveInstance DEF Executor!Next, Executor!Take
  <1>5. ASSUME pc[w] = "busy", done' = done \cup {job[w]}, UNCHANGED <<jobqueue, dropped>>
        PROVE  Executor!Next
    <2>1. job[w] \in Held /\ job[w] \in Jobs
      BY <1>5 DEF Held, Holders, IInv, HoldersInv
    <2>2. /\ job[w] \notin fresh /\ job[w] \notin ToSet(jobqueue)
          /\ job[w] \notin done /\ job[w] \notin dropped
      BY <2>1 DEF OnePlace
    <2>3. Status[job[w]] = "taken" /\ Status'[job[w]] = "done"
      BY <1>2, <1>5, <2>1, <2>2 DEF Status
    <2>4. \A k \in Jobs \ {job[w]} : Status'[k] = Status[k]
      BY <1>2, <1>5 DEF Status
    <2> QED BY <1>1, <2>1, <2>3, <2>4, MoveInstance DEF Executor!Next, Executor!Finish
  <1>6. ASSUME pc[w] = "exit", ClearJobs, UNCHANGED done PROVE Executor!Next
    <2>1. ~Open
      BY <1>6 DEF Open, OpenInv
    <2>2. Executor!Discard
      BY <1>2, <1>6, <2>1, ClearDiscards
    <2> QED BY <1>1, <2>2 DEF Executor!Next, Open
  <1> QED BY <1>3, <1>4, <1>5, <1>6, WorkerMovesJobs

\* ... of the control thread ...
LEMMA ControlImplements ==
  ASSUME IInv, OnePlace, OpenInv, Control
  PROVE  Executor!Next \/ (Status' = Status /\ Open' = Open)
PROOF
  <1> USE DEF poolVars, histVars
  <1>1. CASE \E num \in Sizes : InitClear(num)
    <2>1. PICK num \in Sizes : InitClear(num)
      BY <1>1
    <2>2. ~Open /\ Open' = TRUE
      BY <2>1 DEF InitClear, Open
    <2>3. Executor!Discard
      BY <2>1, <2>2, ClearDiscards DEF InitClear
    <2> QED BY <2>2, <2>3 DEF Executor!Next, Executor!Reopen, Open
  <1>2. CASE Destroy
    <2>1. ~Open /\ Open' = Open
      BY <1>2 DEF Destroy, Open
    <2>2. Executor!Discard
      BY <1>2, <2>1, ClearDiscards DEF Destroy
    <2> QED BY <2>1, <2>2 DEF Executor!Next, Open
  <1>3. CASE TerminateWorker
    <2>1. cur \in Workers
      BY <1>3, BoundsAssumption DEF TerminateWorker, Workers, IInv, TypeOK
    <2>2. Open' = FALSE
      BY <1>3, <2>1 DEF TerminateWorker, Open, IInv, TypeOK
    <2>3. Status' = Status
      BY <1>3, SameStatus DEF TerminateWorker
    <2> QED BY <2>2, <2>3 DEF Executor!Next, Executor!Close, Open, Status
  <1>4. ASSUME NEW next \in {"none", "init", "destroy"}, CallStop(next)
        PROVE  Executor!Next \/ (Status' = Status /\ Open' = Open)
    <2>1. Status' = Status
      BY <1>4, SameStatus DEF CallStop
    <2>2. /\ after = "none" /\ after' = next /\ UNCHANGED bTerminate
      BY <1>4 DEF CallStop, OpenInv
    <2>3. Open' = Open \/ Open' = FALSE
      BY <2>2 DEF Open
    <2> QED BY <2>1, <2>3 DEF Executor!Next, Executor!Close, Open, Status
  <1>5. CASE \/ CallStart \/ CallStartWith \/ QueueStart \/ StartWorker
             \/ StartThrows \/ StartDone \/ JoinWorker \/ SkipWorker \/ StopDone
    <2>1. UNCHANGED <<after, bTerminate, jobqueue, fresh, done, dropped>>
      BY <1>5
      DEF CallStart, CallStartWith, QueueStart, StartWorker, StartThrows, StartDone,
          JoinWorker, SkipWorker, StopDone
    <2> QED BY <2>1, SameStatus DEF Open
  <1> QED BY <1>1, <1>2, <1>3, <1>4, <1>5 DEF Control, ControlStep

\* ... and all others are steps of the executor, or invisible to it.
LEMMA NextImplements ==
  IInv /\ OnePlace /\ OpenInv /\ [Next]_vars => [Executor!Next]_<<Status, Open>>
PROOF
  <1> SUFFICES ASSUME IInv, OnePlace, OpenInv, [Next]_vars
               PROVE  Executor!Next \/ (Status' = Status /\ Open' = Open)
    OBVIOUS
  <1> USE DEF poolVars, workerVars, ctlVars, histVars
  <1>1. ASSUME NEW j \in Jobs, Exec(j) PROVE Executor!Next
    <2>1. /\ j \in fresh /\ fresh' = fresh \ {j}
          /\ UNCHANGED <<after, bTerminate, done, dropped>>
      BY <1>1 DEF Exec
    <2>2. ToSet(jobqueue') = ToSet(jobqueue) \cup {j}
      BY <1>1, ExecElements
    <2>3. Status[j] = "new" /\ Status'[j] = "queued"
      <3>1. j \notin ToSet(jobqueue) /\ j \notin done /\ j \notin dropped
        BY <2>1 DEF OnePlace
      <3> QED BY <2>1, <2>2, <3>1 DEF Status
    <2>4. \A k \in Jobs \ {j} : Status'[k] = Status[k]
      BY <2>1, <2>2 DEF Status
    <2>5. Open' = Open
      BY <2>1 DEF Open
    <2> QED BY <2>3, <2>4, <2>5, MoveInstance DEF Executor!Next, Executor!Submit
  <1>2. CASE UNCHANGED vars \/ \E c \in Waiters : Wait(c)
    <2>1. UNCHANGED <<after, bTerminate, jobqueue, fresh, done, dropped>>
      BY <1>2, WaiterMovesNone DEF vars
    <2> QED BY <2>1, SameStatus DEF Open
  <1> QED BY <1>1, <1>2, WorkerImplements, ControlImplements DEF Next

\* The pool implements the executor: what is taken is queued before, what is finished
\* is taken before, and nothing is thrown away unless stop(), init() or the destructor
\* has been called.
THEOREM ImplementsTaskExecutor == Spec => ImplementsExecutor
PROOF
  <1>1. Init => OnePlace /\ OpenInv
    BY DEF Init, OnePlace, Held, Holders, ToSet, IsInjective, OpenInv
  <1>2. Init => Executor!Init
    <2> SUFFICES ASSUME Init PROVE Executor!Init
      OBVIOUS
    <2>1. Status = [j \in Jobs |-> "new"]
      BY DEF Init, Status, ToSet
    <2>2. Open = TRUE
      BY DEF Init, Open
    <2> QED BY <2>1, <2>2 DEF Executor!Init, Status, Open
  <1> QED
    BY <1>1, <1>2, InitInv, NextInv, NextOnePlace, NextOpen, NextImplements, PTL
    DEF Spec, ImplementsExecutor, Executor!Spec, Status, Open
-----------------------------------------------------------------------------
(* How stop() comes to its end.  That it does is liveness; this is the argument for it, *)
(* for any number of workers.                                                           *)

Stopping == ctl \in {"stopping", "joining"}

\* The most steps that a worker which was told to leave takes to the end of its thread.
ToGo(w) ==
  CASE pc[w] = "boot" -> 9 [] pc[w] = "get" -> 8 [] pc[w] = "wait" -> 7
    [] pc[w] = "popped" -> 6 [] pc[w] = "busy" -> 5 [] pc[w] = "idle" -> 4
    [] pc[w] = "loop" -> 3 [] pc[w] = "exit" -> 2 [] pc[w] = "ending" -> 1
    [] OTHER -> 0

\* What stop() still has before it: the workers from its iterator on, and in the join the
\* rest of the way of one of them.
StopLeft == 12 * (threadNum + 1 - cur) + (IF ctl = "joining" THEN ToGo(cur) ELSE 11)

\* It joins a worker that has a thread and was told to leave.
JoinInv ==
  /\ Stopping => cur <= threadNum + 1
  /\ ctl = "joining" => pc[cur] # "none" /\ bTerminate[cur]

StopStep ==
  Stopping /\ Stopping' =>
    \/ StopLeft' < StopLeft
    \/ UNCHANGED <<ctl, cur>> /\ (ctl = "joining" => pc'[cur] = pc[cur])

\* It is a number.
LEMMA StopLeftType == ASSUME IInv, JoinInv, Stopping PROVE StopLeft \in Nat
PROOF
  <1>1. /\ threadNum \in Nat /\ cur \in Nat /\ cur <= threadNum + 1
    BY BoundsAssumption DEF IInv, TypeOK, JoinInv
  <1>2. threadNum + 1 - cur \in Nat
    BY <1>1
  <1>3. ToGo(cur) \in Nat
    BY DEF ToGo
  <1> QED BY <1>2, <1>3 DEF StopLeft

\* A worker that was told to leave goes one way only.
LEMMA WorkerNearsItsEnd ==
  ASSUME IInv, NEW w \in Workers, FreeStep(w) \/ LockedStep(w), bTerminate[w]
  PROVE  ToGo(w)' < ToGo(w)
PROOF
  <1>1. /\ pc \in [Workers -> Places]
        /\ \A place : Goto(w, place) => pc'[w] = place
    BY Moved DEF IInv, TypeOK
  <1>2. CASE Boot(w)
    <2>1. pc[w] = "boot" /\ pc'[w] = "loop"
      BY <1>1, <1>2 DEF Boot
    <2> QED BY <2>1 DEF ToGo
  <1>3. CASE LoopTest(w)
    <2>1. pc[w] = "loop" /\ pc'[w] = "exit"
      BY <1>1, <1>3 DEF LoopTest
    <2> QED BY <2>1 DEF ToGo
  <1>4. CASE GetJob(w)
    <2>1. \/ pc[w] = "get" /\ pc'[w] \in {"popped", "wait"}
          \/ pc[w] = "wait" /\ pc'[w] \in {"popped", "loop"}
      BY <1>1, <1>4 DEF GetJob
    <2> QED BY <2>1 DEF ToGo
  <1>5. CASE Exit(w)
    <2>1. pc[w] = "exit" /\ pc'[w] = "ending"
      BY <1>1, <1>5 DEF Exit
    <2> QED BY <2>1 DEF ToGo
  <1>6. CASE End(w)
    <2>1. pc[w] = "ending" /\ pc'[w] = "done"
      BY <1>1, <1>6 DEF End
    <2> QED BY <2>1 DEF ToGo
  <1>7. CASE MarkBusy(w)
    <2>1. pc[w] = "popped" /\ pc'[w] = "busy"
      BY <1>1, <1>7 DEF MarkBusy
    <2> QED BY <2>1 DEF ToGo
  <1>8. CASE RunJob(w)
    <2>1. pc[w] = "busy" /\ pc'[w] = "idle"
      BY <1>1, <1>8 DEF RunJob
    <2> QED BY <2>1 DEF ToGo
  <1>9. CASE GoIdle(w)
    <2>1. pc[w] = "idle" /\ pc'[w] = "loop"
      BY <1>1, <1>9 DEF GoIdle
    <2> QED BY <2>1 DEF ToGo
  <1> QED BY <1>2, <1>3, <1>4, <1>5, <1>6, <1>7, <1>8, <1>9 DEF FreeStep, LockedStep

\* Inside stop(), whoever is not its caller and not the worker it joins changes nothing of it.
LEMMA StopSeesWorker ==
  ASSUME IInv, JoinInv, NEW w \in Workers, FreeStep(w) \/ LockedStep(w)
  PROVE  JoinInv' /\ StopStep
PROOF
  <1>1. /\ UNCHANGED <<bTerminate, ctl, cur, threadNum>>
        /\ \E place \in Places \ {"none"} : Goto(w, place)
    BY DEF ctlVars, poolVars, FreeStep, LockedStep, Boot, LoopTest, GetJob, Exit, End,
           MarkBusy, RunJob, GoIdle, Places
  <1>2. pc'[w] # "none" /\ \A v \in Workers \ {w} : pc'[v] = pc[v]
    BY <1>1, Moved DEF IInv
  <1>3. cur \in Workers \/ ctl # "joining"
    BY BoundsAssumption DEF IInv, TypeOK, ControlInv, Workers
  <1>4. JoinInv'
    BY <1>1, <1>2, <1>3 DEF JoinInv, Stopping
  <1>5. CASE ctl = "joining" /\ cur = w
    <2>1. ToGo(w)' < ToGo(w)
      BY <1>5, WorkerNearsItsEnd DEF JoinInv
    <2>2. ToGo(w) \in Nat /\ ToGo(w)' \in Nat
      BY DEF ToGo
    <2>3. threadNum \in Nat /\ cur \in Nat
      BY BoundsAssumption DEF IInv, TypeOK
    <2>4. StopLeft = 12 * (threadNum + 1 - cur) + ToGo(w)
      BY <1>5 DEF StopLeft
    <2>5. StopLeft' = 12 * (threadNum + 1 - cur) + ToGo(w)'
      BY <1>1, <1>5 DEF StopLeft, ToGo
    <2>6. StopLeft' < StopLeft
      BY <2>1, <2>2, <2>3, <2>4, <2>5
    <2> QED BY <1>4, <2>6 DEF StopStep
  <1>6. CASE ~(ctl = "joining" /\ cur = w)
    <2>1. ctl = "joining" => pc'[cur] = pc[cur]
      BY <1>2, <1>3, <1>6
    <2> QED BY <1>1, <1>4, <2>1 DEF StopStep
  <1> QED BY <1>5, <1>6

\* What stop() itself does, and the other control calls.
LEMMA StopSeesControl ==
  ASSUME IInv, JoinInv, Control
  PROVE  JoinInv' /\ StopStep
PROOF
  <1>1. /\ threadNum \in Nat /\ cur \in Nat /\ bTerminate \in [Workers -> BOOLEAN]
        /\ Workers = 1..MaxThreads /\ threadNum \in 0..MaxThreads /\ cur >= 1
        /\ MaxThreads \in Nat
    BY BoundsAssumption DEF IInv, TypeOK, Workers
  <1>2. CASE TerminateWorker
    <2>1. /\ ctl = "stopping" /\ ctl' = "joining" /\ cur <= threadNum
          /\ bTerminate' = [bTerminate EXCEPT ![cur] = TRUE]
          /\ UNCHANGED <<threadNum, cur, pc>> /\ Running(cur)
      BY <1>2 DEF TerminateWorker, workerVars
    <2>2. cur \in Workers
      BY <1>1, <2>1
    <2>3. bTerminate'[cur] /\ pc[cur] # "none"
      BY <1>1, <2>1, <2>2 DEF Running
    <2>4. JoinInv'
      BY <2>1, <2>3, <1>1 DEF JoinInv, Stopping
    <2>5. ToGo(cur) \in 0..9
      BY DEF ToGo
    <2>6. StopLeft = 12 * (threadNum + 1 - cur) + 11
      BY <2>1 DEF StopLeft
    <2>7. StopLeft' = 12 * (threadNum + 1 - cur) + ToGo(cur)
      BY <2>1 DEF StopLeft, ToGo
    <2>8. StopLeft' < StopLeft
      BY <1>1, <2>5, <2>6, <2>7
    <2> QED BY <2>4, <2>8 DEF StopStep
  <1>3. CASE JoinWorker
    <2>1. /\ ctl = "joining" /\ ctl' = "stopping" /\ pc[cur] = "done" /\ cur <= threadNum
          /\ cur' = cur + 1 /\ UNCHANGED <<threadNum, pc>>
      BY <1>3 DEF JoinWorker, poolVars, workerVars, IInv, ControlInv
    <2>2. JoinInv'
      BY <1>1, <2>1 DEF JoinInv, Stopping
    <2>3. ToGo(cur) = 0
      BY <2>1 DEF ToGo
    <2>4. StopLeft = 12 * (threadNum + 1 - cur) + 0
      BY <2>1, <2>3 DEF StopLeft
    <2>5. StopLeft' = 12 * (threadNum + 1 - (cur + 1)) + 11
      BY <2>1 DEF StopLeft
    <2>6. StopLeft' < StopLeft
      BY <1>1, <2>4, <2>5
    <2> QED BY <2>2, <2>6 DEF StopStep
  <1>4. CASE SkipWorker
    <2>1. /\ ctl = "stopping" /\ ctl' = "stopping" /\ cur <= threadNum
          /\ cur' = cur + 1 /\ UNCHANGED <<threadNum, pc>>
      BY <1>4 DEF SkipWorker, poolVars, workerVars
    <2>2. JoinInv'
      BY <1>1, <2>1 DEF JoinInv, Stopping
    <2>3. StopLeft = 12 * (threadNum + 1 - cur) + 11
      BY <2>1 DEF StopLeft
    <2>4. StopLeft' = 12 * (threadNum + 1 - (cur + 1)) + 11
      BY <2>1 DEF StopLeft
    <2>5. StopLeft' < StopLeft
      BY <1>1, <2>3, <2>4
    <2> QED BY <2>2, <2>5 DEF StopStep
  <1>5. CASE \E next \in {"none", "init", "destroy"} : CallStop(next)
    <2>1. ctl = "free" /\ ctl' = "stopping" /\ cur' = 1 /\ threadNum' = threadNum
      BY <1>5 DEF CallStop, poolVars
    <2> QED BY <1>1, <2>1 DEF JoinInv, StopStep, Stopping
  <1>6. CASE \/ CallStart \/ CallStartWith \/ QueueStart \/ StartWorker
             \/ StartThrows \/ StartDone \/ StopDone \/ (\E num \in Sizes : InitClear(num)) \/ Destroy
    <2>1. ctl' \notin {"stopping", "joining"}
      BY <1>6 DEF CallStart, CallStartWith, QueueStart, StartWorker, StartThrows,
                  StartDone, StopDone, InitClear, Destroy
    <2> QED BY <2>1 DEF JoinInv, StopStep, Stopping
  <1> QED BY <1>2, <1>3, <1>4, <1>5, <1>6 DEF Control, ControlStep

LEMMA NextJoin == IInv /\ JoinInv /\ [Next]_vars => JoinInv' /\ [StopStep]_vars
PROOF
  <1> SUFFICES ASSUME IInv, JoinInv, [Next]_vars PROVE JoinInv' /\ StopStep
    OBVIOUS
  <1>1. CASE \/ \E j \in Jobs : Exec(j)
             \/ \E c \in Waiters : Wait(c)
             \/ UNCHANGED vars
    <2>1. UNCHANGED <<pc, bTerminate, ctl, cur, threadNum>>
      BY <1>1, WaiterMovesNone DEF Exec, vars, poolVars, workerVars, ctlVars
    <2> QED BY <2>1 DEF JoinInv, StopStep, Stopping
  <1> QED BY <1>1, StopSeesWorker, StopSeesControl DEF Next

\* stop() joins threads that were started and told to leave (so a join never waits for a
\* thread that does not know), and the steps before it are counted: whatever other threads
\* do meanwhile, no step puts its end farther away, and each of its own steps, and of the
\* worker that it joins, brings it nearer.
THEOREM StopNearsItsEnd ==
  Spec => [](JoinInv /\ (Stopping => StopLeft \in Nat)) /\ [][StopStep]_vars
PROOF
  <1>1. Init => JoinInv
    BY DEF Init, JoinInv, Stopping
  <1>2. IInv /\ JoinInv => (Stopping => StopLeft \in Nat)
    BY StopLeftType
  <1>3. IInv /\ JoinInv /\ [Next]_vars => JoinInv' /\ [StopStep]_vars
    BY NextJoin
  <1> QED BY <1>1, <1>2, <1>3, InitInv, NextInv, PTL DEF Spec
-----------------------------------------------------------------------------
\* The roll is in the group's set when it knows the group, but for the moment in which
\* main changes the one after the other.
MembershipInv ==
  /\ registered => rollGroup
  /\ rollGroup /\ ~registered => step \in {"insert", "unlink"}
  /\ step = "insert" => rollGroup
  /\ step = "unlink" => ~registered

\* What is so until another thread than main logs or flushes: nobody else is inside the
\* roll, main inside a stream's destructor, once it has m_mutex, has text in the stream
\* buffer and goes the way that _pThreadGroup still asks for, and lines wait in the buffer
\* only in asynchronous mode, up to the flush that comes first.
AloneInv ==
  ~others =>
    /\ \A t \in Flushers : batch[t] = <<>>
    /\ \A t \in Writers : writing[t] # "out" =>
         /\ t = Main /\ step = "run"
         /\ writing[t] # "lock" => held # <<>> /\ (writing[t] = "push" <=> rollGroup)
    /\ buffer # <<>> => rollGroup /\ step \in {"run", "unset", "groupFlush"}

GroupInv == LogTypeOK /\ MembershipInv /\ AloneInv
-----------------------------------------------------------------------------
(* The pool of the logger *)

\* Every step of the logger is a step of its pool or leaves the pool as it is.
LEMMA LogStepIsPoolStep == [LogNext]_allVars => [Next]_vars
PROOF
  <1> SUFFICES ASSUME LogNext PROVE Next \/ UNCHANGED vars
    BY DEF allVars
  <1>m. Waiters = {Main}
    BY GroupAssumption
  <1>1. CASE MainStep
    <2>1. CASE SetLogInfo
      BY <2>1 DEF SetLogInfo, Next, Control
    <2>2. CASE DestructorStop
      BY <1>m, <2>2 DEF DestructorStop, Next, Control, Wait
    <2>3. CASE DestructorUnlock
      BY <2>3 DEF DestructorUnlock, Next, Control
    <2>4. CASE Unset \/ GroupFlush \/ GroupRoll \/ Unregister \/ Unlink \/ OwnFlush
               \/ OwnRoll \/ Register \/ Insert \/ Term \/ DestructorLock
      BY <2>4 DEF Unset, GroupFlush, GroupRoll, Unregister, Unlink, OwnFlush, OwnRoll,
         Register, Insert, Term, DestructorLock
    <2> QED BY <1>1, <2>1, <2>2, <2>3, <2>4 DEF MainStep
  <1>2. CASE \/ \E mode \in {"sync", "async"} : CallSync(mode)
             \/ Leave
             \/ \E t \in Writers : CallLog(t) \/ Write(t)
             \/ \E t \in Flushers : FlusherSwap(t) \/ FlusherRoll(t)
             \/ \E t \in Threads : TakeFile(t)
    BY <1>2 DEF CallSync, Leave, CallLog, Write, WriteLine, WritePush, WriteRoll,
       FlusherSwap, FlusherRoll, TakeFile
  <1>3. ASSUME NEW w \in Workers, Run(w) PROVE Next \/ UNCHANGED vars
    BY <1>3 DEF Run, RunTest, RunLock, RunSleep, RunWake, RunRegain, RunFlush, Next,
       LockedStep
  <1>4. CASE MainInPool \/ \E w \in Workers : WorkerInPool(w)
    BY <1>m, <1>4 DEF MainInPool, WorkerInPool, Next, Control, LockedStep, Wait
  <1> QED BY <1>1, <1>2, <1>3, <1>4 DEF LogNext

\* The logger uses its thread pool as ThreadPool allows: setLogInfo, the group's
\* destructor and run() are calls and jobs of the pool, so what is proved of the pool
\* holds in the logger.
THEOREM LoggerUsesPool == LogSpec => Spec
PROOF
  <1>1. LogInit => Init
    BY DEF LogInit
  <1> QED BY <1>1, LogStepIsPoolStep, PTL DEF LogSpec, Spec

\* In particular run() of the group is a job in one place, which is thrown away only after
\* the destructor has called stop(), the destructor joins every worker before the pool is
\* deleted, and the stop() it waits in, with the group's mutex held, comes nearer its end.
THEOREM LoggerPoolSafe ==
  LogSpec => [](OnePlace /\ StopJoins) /\ ImplementsExecutor /\ [][StopStep]_vars
PROOF
  BY LoggerUsesPool, JobsInOnePlace, StopJoinsAll, ImplementsTaskExecutor, StopNearsItsEnd, PTL
-----------------------------------------------------------------------------
(* Types, and what is so while main is alone *)

\* A sequence of some lines is one of more lines.
LEMMA SequencesGrow ==
  ASSUME NEW S, NEW T, S \subseteq T
  PROVE  Seq(S) \subseteq Seq(T)
PROOF OBVIOUS

\* Main flushes, and is not one of the other flushers.
LEMMA MainFlushes == Main \in Flushing /\ Main \notin Flushers /\ Flushers \subseteq Flushing
PROOF BY GroupAssumption DEF Flushing

\* Whoever takes the group's mutex from a thread that is no worker, or gives it back,
\* leaves it to one worker at most.
LEMMA WorkersExclusive ==
  ASSUME LogTypeOK, body' = body, grpOwner' = grpOwner \/ grpOwner # "worker"
  PROVE  \A w \in Holding' : grpOwner' = "worker" /\ Holding' = {w}
PROOF
  <1>1. Holding' = Holding
    BY DEF Holding
  <1> QED BY <1>1 DEF LogTypeOK

\* At first nothing is logged.
LEMMA InitGroup == LogInit => GroupInv
PROOF
  <1> SUFFICES ASSUME LogInit PROVE GroupInv
    OBVIOUS
  <1>1. LogTypeOK
    <2>1. {held, buffer, file} \subseteq Seq(Lines) /\ batch \in [Flushing -> Seq(Lines)]
      BY DEF LogInit
    <2>2. batch[Main] = <<>> /\ grpOwner # Main
      BY MainFlushes, GroupAssumption DEF LogInit, Threads
    <2>3. /\ writing \in [Writers -> {"out", "lock", "push", "roll"}]
          /\ body \in [Workers -> {"test", "enter", "locked", "asleep", "awake", "flush"}]
          /\ Holding = {}
      BY DEF LogInit, Holding
    <2> QED BY <2>1, <2>2, <2>3 DEF LogInit, LogTypeOK
  <1>2. MembershipInv /\ AloneInv
    BY DEF LogInit, MembershipInv, AloneInv, Flushing
  <1> QED BY <1>1, <1>2 DEF GroupInv

\* A text that is rolled goes to the end of the file or is lost.
LEMMA RollOutEffect ==
  ASSUME LogTypeOK, NEW s \in Seq(Lines), RollOut(s)
  PROVE  /\ file' \in Seq(Lines) /\ lost' \subseteq Lines
         /\ \/ file' = file \o s /\ lost' = lost
            \/ file' = file /\ lost' = lost \cup ToSet(s)
PROOF
  <1>1. file \in Seq(Lines) /\ lost \subseteq Lines
    BY DEF LogTypeOK
  <1>2. file \o s \in Seq(Lines) /\ ToSet(s) \subseteq Lines
    BY <1>1, ConcatProperties, ElementOfSeq DEF ToSet
  <1> QED BY <1>1, <1>2 DEF RollOut

\* A batch that is rolled leaves its flush.
LEMMA RollEffect ==
  ASSUME LogTypeOK, NEW t \in Flushing, NEW threw \in BOOLEAN, RollBatch(t, threw)
  PROVE  /\ batch' = [batch EXCEPT ![t] = <<>>] /\ fileOwner' = "free"
         /\ UNCHANGED <<rollGroup, held, buffer, repeated>>
         /\ file' \in Seq(Lines) /\ lost' \subseteq Lines
         /\ \/ file' = file \o batch[t] /\ lost' = lost
            \/ file' = file /\ lost' = lost \cup ToSet(batch[t])
PROOF
  <1>1. batch[t] \in Seq(Lines)
    BY DEF LogTypeOK
  <1>2. RollOut(batch[t])
    BY DEF RollBatch, RollThrows
  <1> QED BY <1>1, <1>2, RollOutEffect DEF RollBatch

\* The steps of main that roll a batch.
LEMMA MainRollsGroup ==
  ASSUME GroupInv, GroupRoll \/ OwnRoll
  PROVE  GroupInv'
PROOF
  <1>t. LogTypeOK /\ MembershipInv /\ AloneInv
    BY DEF GroupInv
  <1>1. PICK threw \in BOOLEAN : RollBatch(Main, threw)
    BY DEF GroupRoll, OwnRoll
  <1>2. /\ batch' = [batch EXCEPT ![Main] = <<>>] /\ fileOwner' = "free"
        /\ UNCHANGED <<rollGroup, held, buffer, repeated>>
        /\ file' \in Seq(Lines) /\ lost' \subseteq Lines
    BY <1>t, <1>1, MainFlushes, RollEffect
  <1>3. /\ UNCHANGED <<goal, grpTerm, registered, body, writing, logged, others>>
        /\ step \in {"groupRoll", "ownRoll"}
        /\ step' \in {"term", "unregister", "register", "run"}
        /\ step = "groupRoll" => grpOwner' = "free"
        /\ step = "ownRoll" => grpOwner' = grpOwner
    BY DEF GroupRoll, OwnRoll, Flushed, Unsetup, grpVars, writerVars
  <1>4. Lines' = Lines
    BY <1>3 DEF Lines
  <1>5. batch' \in [Flushing -> Seq(Lines)] /\ batch'[Main] = <<>>
        /\ \A t \in Flushers : batch'[t] = batch[t]
    <2>1. <<>> \in Seq(Lines) OBVIOUS
    <2> QED BY <1>t, <1>2, <2>1, MainFlushes DEF LogTypeOK
  <1>6. /\ grpOwner' \in {"free", "worker"} \cup Flushing /\ grpOwner' # Main
        /\ \A w \in Holding' : grpOwner' = "worker" /\ Holding' = {w}
    <2>1. grpOwner = Main <=> step = "groupRoll"
      BY <1>t, <1>3 DEF LogTypeOK
    <2>2. "free" # Main /\ "worker" # Main
      BY GroupAssumption, MainFlushes DEF Threads
    <2> QED BY <1>t, <1>3, <2>1, <2>2, WorkersExclusive DEF LogTypeOK
  <1>7. LogTypeOK'
    BY <1>t, <1>2, <1>3, <1>4, <1>5, <1>6 DEF LogTypeOK
  <1>8. MembershipInv' /\ AloneInv'
    BY <1>t, <1>2, <1>3, <1>5 DEF MembershipInv, AloneInv
  <1> QED BY <1>7, <1>8 DEF GroupInv

\* The steps of main that swap a batch out, or find nothing to swap.
LEMMA MainSwapsGroup ==
  ASSUME GroupInv, GroupFlush \/ OwnFlush
  PROVE  GroupInv'
PROOF
  <1>t. LogTypeOK /\ MembershipInv /\ AloneInv
    BY DEF GroupInv
  <1>1. /\ UNCHANGED <<goal, grpTerm, registered, body, rollGroup, held, file, fileOwner,
                       lost, repeated, writing, logged, others>>
        /\ step \in {"groupFlush", "ownFlush"}
    BY DEF GroupFlush, OwnFlush, grpVars, writerVars
  <1>2. Lines' = Lines /\ <<>> \in Seq(Lines)
    BY <1>1 DEF Lines
  <1>3. CASE buffer' = buffer /\ batch' = batch
    <2>1. /\ step' \in {"term", "unregister", "register", "run"} /\ grpOwner' = grpOwner
      <3>1. ASSUME SwapOut(Main), buffer # <<>> PROVE FALSE
        BY <1>3, <3>1 DEF SwapOut
      <3> QED BY <3>1 DEF GroupFlush, OwnFlush, Flushed, Unsetup, grpVars
    <2>2. ~others => buffer = <<>>
      BY <1>t, <1>3 DEF GroupFlush, OwnFlush, SwapOut, AloneInv, MembershipInv
    <2>3. Holding' = Holding
      BY <1>1 DEF Holding
    <2>4. LogTypeOK'
      BY <1>t, <1>1, <1>2, <1>3, <2>1, <2>3 DEF LogTypeOK
    <2>5. MembershipInv'
      BY <1>t, <1>1, <2>1 DEF MembershipInv
    <2>6. AloneInv'
      BY <1>t, <1>1, <1>3, <2>2 DEF AloneInv
    <2> QED BY <2>4, <2>5, <2>6 DEF GroupInv
  <1>4. CASE SwapOut(Main) /\ buffer # <<>>
    <2>1. batch' = [batch EXCEPT ![Main] = buffer] /\ buffer' = <<>>
      BY <1>4 DEF SwapOut
    <2>2. \/ step' = "groupRoll" /\ grpOwner' = Main /\ grpOwner = "free"
          \/ step' = "ownRoll" /\ grpOwner' = grpOwner
      BY <1>4, <2>1 DEF GroupFlush, OwnFlush, grpVars
    <2>3. /\ batch' \in [Flushing -> Seq(Lines)] /\ batch'[Main] # <<>>
          /\ \A t \in Flushers : batch'[t] = batch[t]
      BY <1>t, <1>4, <2>1, MainFlushes DEF LogTypeOK
    <2>4. /\ grpOwner' \in {"free", "worker"} \cup Flushing
          /\ grpOwner' = Main <=> step' = "groupRoll"
          /\ \A w \in Holding' : grpOwner' = "worker" /\ Holding' = {w}
      <3>1. grpOwner # Main
        BY <1>t, <1>1 DEF LogTypeOK
      <3> QED BY <1>t, <1>1, <2>2, <3>1, MainFlushes, WorkersExclusive DEF LogTypeOK
    <2>5. LogTypeOK'
      BY <1>t, <1>1, <1>2, <2>1, <2>2, <2>3, <2>4 DEF LogTypeOK
    <2>6. MembershipInv'
      BY <1>t, <1>1, <2>2 DEF MembershipInv
    <2>7. AloneInv'
      BY <1>t, <1>1, <2>1, <2>3 DEF AloneInv
    <2> QED BY <2>5, <2>6, <2>7 DEF GroupInv
  <1> QED BY <1>3, <1>4 DEF GroupFlush, OwnFlush

\* The other steps of main, but for those that touch the group's mutex.
LEMMA MainWalksGroup ==
  ASSUME GroupInv, UNCHANGED <<grpOwner, body, held, buffer, batch, file, fileOwner, lost,
                               repeated, writing, logged, others>>,
         goal' \in {"async", "sync", "exit"},
         grpTerm' \in BOOLEAN, registered' \in BOOLEAN, rollGroup' \in BOOLEAN,
         step' \in {"start", "exec", "unset", "groupFlush", "unlink", "ownFlush", "insert",
                    "run", "lock"} \/ (step = "stop" /\ step' = "wait")
                    \/ (step = "wait" /\ step' = "unlock"),
         step \notin {"groupRoll", "ownRoll"},
         step \in {"stop", "wait", "unlock"} => step' \in {"wait", "unlock"}
  PROVE  LogTypeOK'
PROOF
  <1>1. Lines' = Lines /\ Holding' = Holding
    BY DEF Lines, Holding
  <1> QED BY <1>1 DEF GroupInv, LogTypeOK

LEMMA MainGroup == ASSUME GroupInv, MainStep PROVE GroupInv'
PROOF
  <1>t. LogTypeOK /\ MembershipInv /\ AloneInv
    BY DEF GroupInv
  <1> USE DEF grpVars, rollVars, writerVars
  <1>1. CASE SetLogInfo
    <2>1. /\ UNCHANGED <<goal, grpVars, rollVars, writerVars>>
          /\ step \in {"init", "start", "exec"} /\ step' \in {"start", "exec", "unset"}
      BY <1>1 DEF SetLogInfo, PoolCall
    <2>2. LogTypeOK'
      BY <1>t, <2>1, MainWalksGroup DEF LogTypeOK
    <2> QED BY <1>t, <2>1, <2>2 DEF GroupInv, MembershipInv, AloneInv
  <1>2. CASE Unset
    <2>1. LogTypeOK'
      BY <1>t, <1>2, MainWalksGroup DEF Unset, LogTypeOK
    <2> QED BY <1>t, <1>2, <2>1 DEF Unset, GroupInv, MembershipInv, AloneInv
  <1>3. CASE Unregister \/ Unlink \/ Register \/ Insert
    <2>1. LogTypeOK'
      BY <1>t, <1>3, MainWalksGroup DEF Unregister, Unlink, Register, Insert, LogTypeOK
    <2>2. MembershipInv'
      BY <1>t, <1>3 DEF Unregister, Unlink, Register, Insert, MembershipInv
    <2>3. AloneInv'
      BY <1>t, <1>3 DEF Unregister, Unlink, Register, Insert, AloneInv
    <2> QED BY <2>1, <2>2, <2>3 DEF GroupInv
  <1>4. CASE Term
    <2>1. LogTypeOK'
      BY <1>t, <1>4, MainWalksGroup DEF Term, LogTypeOK
    <2> QED BY <1>t, <1>4, <2>1 DEF Term, GroupInv, MembershipInv, AloneInv
  <1>5. CASE DestructorLock
    <2>1. /\ UNCHANGED <<goal, grpTerm, registered, body, rollVars, writerVars>>
          /\ step = "lock" /\ step' = "stop" /\ grpOwner = "free" /\ grpOwner' = Main
      BY <1>5 DEF DestructorLock
    <2>2. Lines' = Lines
      BY <2>1 DEF Lines
    <2>3. LogTypeOK'
      BY <1>t, <2>1, <2>2, MainFlushes, WorkersExclusive DEF LogTypeOK
    <2> QED BY <1>t, <2>1, <2>3 DEF GroupInv, MembershipInv, AloneInv
  <1>6. CASE DestructorStop
    <2>1. /\ UNCHANGED <<goal, grpVars, rollVars, writerVars>>
          /\ \/ step = "stop" /\ step' = "wait"
             \/ step = "wait" /\ step' = "unlock"
      BY <1>6 DEF DestructorStop, PoolCall
    <2>2. LogTypeOK'
      BY <1>t, <2>1, MainWalksGroup DEF LogTypeOK
    <2> QED BY <1>t, <2>1, <2>2 DEF GroupInv, MembershipInv, AloneInv
  <1>7. CASE DestructorUnlock
    <2>1. /\ UNCHANGED <<goal, grpTerm, registered, body, rollVars, writerVars>>
          /\ step = "unlock" /\ step' = "end" /\ grpOwner' = "free"
      BY <1>7 DEF DestructorUnlock, PoolCall
    <2>2. Lines' = Lines
      BY <2>1 DEF Lines
    <2>3. grpOwner = Main /\ Main \notin {"free", "worker"}
      BY <1>t, <2>1, GroupAssumption, MainFlushes DEF LogTypeOK, Threads
    <2>4. LogTypeOK'
      BY <1>t, <2>1, <2>2, <2>3, WorkersExclusive DEF LogTypeOK
    <2> QED BY <1>t, <2>1, <2>4 DEF GroupInv, MembershipInv, AloneInv
  <1> QED
    BY <1>1, <1>2, <1>3, <1>4, <1>5, <1>6, <1>7, MainRollsGroup, MainSwapsGroup DEF MainStep

\* main begins to switch, or returns from main().
LEMMA CallGroup ==
  ASSUME GroupInv, Leave \/ \E mode \in {"sync", "async"} : CallSync(mode)
  PROVE  GroupInv'
PROOF
  <1>t. LogTypeOK /\ MembershipInv /\ AloneInv
    BY DEF GroupInv
  <1>1. /\ UNCHANGED <<grpVars, rollVars, writerVars>> /\ Idle
        /\ step = "run" /\ step' \in {"unset", "groupFlush"}
        /\ goal' \in {"sync", "async", "exit"}
    BY DEF Leave, CallSync
  <1>2. LogTypeOK'
    BY <1>t, <1>1, MainWalksGroup DEF LogTypeOK, grpVars, rollVars, writerVars
  <1> QED BY <1>t, <1>1, <1>2 DEF grpVars, rollVars, writerVars, GroupInv, MembershipInv,
          AloneInv, Idle

\* A thread asks for m_mutex, or for the mutex of YR_RollBySize.
LEMMA AskGroup ==
  ASSUME GroupInv, \/ \E t \in Writers : CallLog(t)
                   \/ \E t \in Threads : TakeFile(t)
  PROVE  GroupInv'
PROOF
  <1>t. LogTypeOK /\ MembershipInv /\ AloneInv
    BY DEF GroupInv
  <1>1. ASSUME NEW t \in Writers, CallLog(t) PROVE GroupInv'
    <2>1. /\ UNCHANGED <<mainVars, grpVars, rollVars, logged>>
          /\ writing' = [writing EXCEPT ![t] = "lock"]
          /\ others' = (others \/ t # Main)
          /\ t = Main => step = "run"
      BY <1>1 DEF CallLog
    <2>6. others' \in BOOLEAN /\ (~others' => ~others /\ t = Main)
      BY <1>t, <2>1 DEF LogTypeOK
    <2>7. /\ writing' \in [Writers -> {"out", "lock", "push", "roll"}]
          /\ writing'[t] = "lock" /\ \A u \in Writers \ {t} : writing'[u] = writing[u]
      BY <1>t, <2>1 DEF LogTypeOK
    <2>2. Lines' = Lines /\ Holding' = Holding
      BY <2>1 DEF Lines, Holding, grpVars
    <2>3. LogTypeOK'
      BY <1>t, <2>1, <2>2, <2>6, <2>7 DEF LogTypeOK, mainVars, grpVars, rollVars
    <2>4. AloneInv'
      BY <1>t, <2>1, <2>6, <2>7 DEF AloneInv, mainVars, rollVars
    <2> QED BY <1>t, <2>1, <2>3, <2>4 DEF GroupInv, MembershipInv, mainVars, grpVars, rollVars
  <1>2. ASSUME NEW t \in Threads, TakeFile(t) PROVE GroupInv'
    <2>1. /\ UNCHANGED <<mainVars, grpVars, rollGroup, held, buffer, batch, file, lost,
                         repeated, writerVars>>
          /\ fileOwner' = t
      BY <1>2 DEF TakeFile
    <2>2. Lines' = Lines /\ Holding' = Holding
      BY <2>1 DEF Lines, Holding, grpVars, writerVars
    <2>3. LogTypeOK'
      BY <1>t, <2>1, <2>2 DEF LogTypeOK, mainVars, grpVars, writerVars
    <2> QED BY <1>t, <2>1, <2>3 DEF GroupInv, MembershipInv, AloneInv, mainVars, grpVars,
            writerVars
  <1> QED BY <1>1, <1>2

\* A line is logged.
LEMMA LineGroup == ASSUME GroupInv, NEW t \in Writers, WriteLine(t) PROVE GroupInv'
PROOF
  <1>t. LogTypeOK /\ MembershipInv /\ AloneInv
    BY DEF GroupInv
  <1>1. /\ UNCHANGED <<mainVars, grpVars, rollGroup, buffer, batch, file, fileOwner, lost,
                       repeated, others>>
        /\ logged' = logged + 1
        /\ held' = Append(held, logged')
        /\ writing' = [writing EXCEPT ![t] = IF rollGroup THEN "push" ELSE "roll"]
        /\ writing[t] = "lock"
    BY DEF WriteLine
  <1>2. logged \in Nat /\ logged' \in Nat /\ Lines \subseteq Lines' /\ logged' \in Lines'
    BY <1>t, <1>1 DEF LogTypeOK, Lines
  <1>3. Seq(Lines) \subseteq Seq(Lines')
    BY <1>2, SequencesGrow
  <1>4. held' \in Seq(Lines') /\ held' # <<>>
    <2>1. held \in Seq(Lines')
      BY <1>t, <1>3 DEF LogTypeOK
    <2> QED BY <1>1, <1>2, <2>1, AppendProperties
  <1>5. batch' \in [Flushing -> Seq(Lines')]
    BY <1>t, <1>1, <1>3 DEF LogTypeOK
  <1>6. /\ writing' \in [Writers -> {"out", "lock", "push", "roll"}]
        /\ writing'[t] = IF rollGroup THEN "push" ELSE "roll"
        /\ \A u \in Writers \ {t} : writing'[u] = writing[u]
    BY <1>t, <1>1 DEF LogTypeOK
  <1>7. LogTypeOK'
    <2>1. /\ grpOwner' = grpOwner /\ step' = step /\ goal' = goal /\ grpTerm' = grpTerm
          /\ registered' = registered /\ body' = body /\ Holding' = Holding
      BY <1>1 DEF mainVars, grpVars, Holding
    <2>2. {held', buffer', file'} \subseteq Seq(Lines')
      BY <1>t, <1>1, <1>3, <1>4 DEF LogTypeOK
    <2>3. lost' \subseteq Lines' /\ repeated' \subseteq Lines' /\ others' \in BOOLEAN
      BY <1>t, <1>1, <1>2 DEF LogTypeOK
    <2> QED BY <1>t, <1>1, <1>2, <1>5, <1>6, <2>1, <2>2, <2>3 DEF LogTypeOK
  <1>8. MembershipInv' /\ AloneInv'
    BY <1>t, <1>1, <1>4, <1>6 DEF MembershipInv, AloneInv, mainVars, grpVars
  <1> QED BY <1>7, <1>8 DEF GroupInv

\* The destructor of the stream hands its text on.
LEMMA StreamGroup ==
  ASSUME GroupInv, NEW t \in Writers, WritePush(t) \/ WriteRoll(t)
  PROVE  GroupInv'
PROOF
  <1>t. LogTypeOK /\ MembershipInv /\ AloneInv
    BY DEF GroupInv
  <1>1. /\ UNCHANGED <<mainVars, grpVars, rollGroup, batch, logged, others>>
        /\ writing' = [writing EXCEPT ![t] = "out"] /\ Lines' = Lines
        /\ writing[t] \in {"push", "roll"} /\ fileOwner' \in {fileOwner, "free"}
    BY DEF WritePush, WriteRoll, Lines
  <1>2. /\ writing' \in [Writers -> {"out", "lock", "push", "roll"}]
        /\ writing'[t] = "out"
        /\ \A u \in Writers \ {t} : writing'[u] = writing[u]
    BY <1>t, <1>1 DEF LogTypeOK
  <1>3. /\ held \in Seq(Lines) /\ buffer \in Seq(Lines) /\ file \in Seq(Lines)
        /\ <<>> \in Seq(Lines)
    BY <1>t DEF LogTypeOK
  <1>4. /\ buffer \o held \in Seq(Lines) /\ file \o held \in Seq(Lines)
        /\ ToSet(held) \subseteq Lines
    BY <1>3, ConcatProperties, ElementOfSeq DEF ToSet
  <1>5. /\ {held', buffer', file'} \subseteq Seq(Lines) /\ repeated' \subseteq Lines
        /\ lost' \subseteq Lines
    <2>1. CASE WritePush(t)
      BY <1>t, <1>3, <1>4, <2>1 DEF WritePush, LogTypeOK
    <2>2. CASE WriteRoll(t)
      BY <1>t, <1>3, <1>4, <2>2, RollOutEffect DEF WriteRoll, LogTypeOK
    <2> QED BY <2>1, <2>2
  <1>6. LogTypeOK'
    <2>1. Holding' = Holding
      BY <1>1 DEF Holding, grpVars
    <2> QED BY <1>t, <1>1, <1>2, <1>5, <2>1 DEF LogTypeOK, mainVars, grpVars
  <1>7. MembershipInv'
    BY <1>t, <1>1 DEF MembershipInv, mainVars, grpVars
  <1>8. AloneInv'
    <2> SUFFICES ASSUME ~others PROVE AloneInv'
      BY <1>1 DEF AloneInv
    <2>1. /\ t = Main /\ step = "run" /\ step' = "run"
          /\ \A u \in Writers : u # Main => writing[u] = "out"
          /\ writing[t] = "push" <=> rollGroup
      BY <1>t, <1>1 DEF AloneInv, mainVars
    <2>2. buffer' # <<>> => rollGroup
      BY <1>t, <2>1 DEF WritePush, WriteRoll, AloneInv
    <2> QED BY <1>t, <1>1, <1>2, <2>1, <2>2 DEF AloneInv
  <1> QED BY <1>6, <1>7, <1>8 DEF GroupInv

\* Another thread flushes the roll, by itself or through the group.
LEMMA FlusherGroup ==
  ASSUME GroupInv, NEW t \in Flushers, FlusherSwap(t) \/ FlusherRoll(t)
  PROVE  GroupInv'
PROOF
  <1>m. t \in Flushing /\ t # Main /\ Main \in Flushing /\ t \notin {"free", "worker"}
        /\ Main \notin {"free", "worker"}
    BY MainFlushes, GroupAssumption DEF Threads
  <1>t. LogTypeOK /\ MembershipInv /\ AloneInv
    BY DEF GroupInv
  <1>1. CASE FlusherSwap(t)
    <2>1. /\ batch' = [batch EXCEPT ![t] = buffer] /\ buffer' = <<>> /\ others' = TRUE
          /\ UNCHANGED <<mainVars, grpTerm, registered, body, rollGroup, held, file,
                         fileOwner, lost, repeated, writing, logged>>
          /\ grpOwner' = grpOwner \/ (grpOwner = "free" /\ grpOwner' = t)
      BY <1>1 DEF FlusherSwap, SwapOut
    <2>2. Lines' = Lines /\ <<>> \in Seq(Lines)
      BY <2>1 DEF Lines
    <2>3. batch' \in [Flushing -> Seq(Lines)] /\ batch'[Main] = batch[Main]
      BY <1>m, <1>t, <2>1 DEF LogTypeOK
    <2>4. /\ grpOwner' \in {"free", "worker"} \cup Flushing
          /\ grpOwner' = Main <=> grpOwner = Main
          /\ \A w \in Holding' : grpOwner' = "worker" /\ Holding' = {w}
      BY <1>m, <1>t, <2>1, WorkersExclusive DEF LogTypeOK
    <2>5. LogTypeOK'
      BY <1>t, <2>1, <2>2, <2>3, <2>4 DEF LogTypeOK, mainVars
    <2> QED BY <1>t, <2>1, <2>5 DEF GroupInv, MembershipInv, AloneInv, mainVars
  <1>2. CASE FlusherRoll(t)
    <2>1. PICK threw \in BOOLEAN : RollBatch(t, threw)
      BY <1>2 DEF FlusherRoll
    <2>2. /\ batch' = [batch EXCEPT ![t] = <<>>] /\ fileOwner' = "free"
          /\ UNCHANGED <<rollGroup, held, buffer, repeated>>
          /\ file' \in Seq(Lines) /\ lost' \subseteq Lines
      BY <1>m, <1>t, <2>1, RollEffect
    <2>3. UNCHANGED <<mainVars, grpTerm, registered, body, writerVars>> /\ batch[t] # <<>>
          /\ grpOwner' = IF grpOwner = t THEN "free" ELSE grpOwner
      BY <1>2 DEF FlusherRoll
    <2>4. Lines' = Lines /\ <<>> \in Seq(Lines)
      BY <2>3 DEF Lines, writerVars
    <2>5. batch' \in [Flushing -> Seq(Lines)] /\ batch'[Main] = batch[Main]
      BY <1>m, <1>t, <2>2, <2>4 DEF LogTypeOK
    <2>6. /\ grpOwner' \in {"free", "worker"} \cup Flushing
          /\ grpOwner' = Main <=> grpOwner = Main
          /\ \A w \in Holding' : grpOwner' = "worker" /\ Holding' = {w}
      BY <1>m, <1>t, <2>3, WorkersExclusive DEF LogTypeOK
    <2>7. LogTypeOK'
      BY <1>t, <2>2, <2>3, <2>4, <2>5, <2>6 DEF LogTypeOK, mainVars, writerVars
    <2>8. others /\ others'
      BY <1>t, <2>3 DEF AloneInv, writerVars
    <2> QED BY <1>t, <2>2, <2>3, <2>7, <2>8 DEF GroupInv, MembershipInv, AloneInv, mainVars
  <1> QED BY <1>1, <1>2

\* run() of the group takes the group's mutex and lets it go, and leaves the lines alone.
LEMMA RunGroup ==
  ASSUME GroupInv, NEW w \in Workers, Run(w)
  PROVE  GroupInv' /\ UNCHANGED <<mainVars, rollVars, writerVars>>
PROOF
  <1>t. LogTypeOK /\ MembershipInv /\ AloneInv
    BY DEF GroupInv
  <1>m. Main \notin {"free", "worker"}
    BY MainFlushes, GroupAssumption DEF Threads
  <1>1. /\ UNCHANGED <<mainVars, grpTerm, registered, rollVars, writerVars>>
        /\ \/ /\ body[w] \notin {"locked", "flush"} /\ body'[w] \notin {"locked", "flush"}
              /\ grpOwner' = grpOwner
           \/ /\ body[w] \notin {"locked", "flush"} /\ body'[w] \in {"locked", "flush"}
              /\ grpOwner = "free" /\ grpOwner' = "worker"
           \/ /\ body[w] \in {"locked", "flush"} /\ body'[w] \notin {"locked", "flush"}
              /\ grpOwner' = "free"
        /\ body' \in [Workers -> {"test", "enter", "locked", "asleep", "awake", "flush"}]
        /\ \A v \in Workers \ {w} : body'[v] = body[v]
    BY <1>t DEF Run, RunTest, RunLock, RunSleep, RunWake, RunRegain, RunFlush, BodyAt, Body,
       LogTypeOK
  <1>2. /\ grpOwner' \in {"free", "worker"} \cup Flushing
        /\ grpOwner' = Main <=> grpOwner = Main
        /\ \A v \in Holding' : grpOwner' = "worker" /\ Holding' = {v}
    <2>1. CASE /\ body[w] \notin {"locked", "flush"} /\ body'[w] \notin {"locked", "flush"}
               /\ grpOwner' = grpOwner
      <3>1. Holding' = Holding
        BY <1>1, <2>1 DEF Holding
      <3> QED BY <1>t, <2>1, <3>1 DEF LogTypeOK
    <2>2. CASE /\ body[w] \notin {"locked", "flush"} /\ body'[w] \in {"locked", "flush"}
               /\ grpOwner = "free" /\ grpOwner' = "worker"
      <3>1. Holding = {}
        BY <1>t, <2>2 DEF LogTypeOK
      <3>2. Holding' = {w}
        BY <1>1, <2>2, <3>1 DEF Holding
      <3> QED BY <1>m, <2>2, <3>2
    <2>3. CASE /\ body[w] \in {"locked", "flush"} /\ body'[w] \notin {"locked", "flush"}
               /\ grpOwner' = "free"
      <3>1. Holding = {w} /\ grpOwner = "worker"
        BY <1>t, <2>3 DEF LogTypeOK, Holding
      <3>2. Holding' = {}
        BY <1>1, <2>3, <3>1 DEF Holding
      <3> QED BY <1>m, <2>3, <3>1, <3>2
    <2> QED BY <1>1, <2>1, <2>2, <2>3
  <1>3. LogTypeOK'
    BY <1>t, <1>1, <1>2 DEF LogTypeOK, Lines, mainVars, rollVars, writerVars
  <1> QED BY <1>t, <1>1, <1>3 DEF GroupInv, MembershipInv, AloneInv, mainVars, rollVars,
          writerVars

\* The workers and the pool leave the lines alone.
LEMMA WorkerGroup ==
  ASSUME GroupInv, MainInPool \/ \E w \in Workers : Run(w) \/ WorkerInPool(w)
  PROVE  /\ GroupInv'
         /\ UNCHANGED <<mainVars, rollVars, writerVars>>
PROOF
  <1>1. CASE UNCHANGED logVars
    BY <1>1 DEF logVars, mainVars, grpVars, rollVars, writerVars, GroupInv, LogTypeOK, Lines,
       Holding, MembershipInv, AloneInv
  <1> QED BY <1>1, RunGroup DEF MainInPool, WorkerInPool

\* Every step keeps the invariant.
LEMMA NextGroup == GroupInv /\ [LogNext]_allVars => GroupInv'
PROOF
  <1> SUFFICES ASSUME GroupInv, [LogNext]_allVars PROVE GroupInv'
    OBVIOUS
  <1>1. CASE UNCHANGED allVars
    BY <1>1 DEF allVars, logVars, mainVars, grpVars, rollVars, writerVars, GroupInv,
       LogTypeOK, Lines, Holding, MembershipInv, AloneInv
  <1> QED BY <1>1, MainGroup, CallGroup, AskGroup, LineGroup, StreamGroup, FlusherGroup,
          WorkerGroup DEF LogNext, Write

\* Types of the logger's variables; main has the group's mutex while it flushes through the
\* group and at the end of the destructor, one worker at most has it in run(), and main has
\* a batch while it rolls one.
THEOREM GroupTypeCorrect == LogSpec => []LogTypeOK
PROOF
  <1>1. GroupInv => LogTypeOK BY DEF GroupInv
  <1> QED BY <1>1, InitGroup, NextGroup, PTL DEF LogSpec

\* When sync(true) has returned, and when the destructor goes on to stop the pool, main
\* has left no line in the roll's memory, unless another thread has logged or flushed.
THEOREM NothingStaysBehind == LogSpec => []NothingLeftBehind
PROOF
  <1>1. GroupInv => NothingLeftBehind
    BY DEF GroupInv, LogTypeOK, AloneInv, NothingLeftBehind, SyncReturned, GroupFlushed
  <1> QED BY <1>1, InitGroup, NextGroup, PTL DEF LogSpec
-----------------------------------------------------------------------------
(* Where the lines are *)

\* OnlyOnce and Stored of any contents c of the stores; R may be doubled.
Once(c, R) ==
  \A p, q \in Stores : \A k \in DOMAIN c[p], m \in DOMAIN c[q] :
    c[p][k] = c[q][m] => c[p][k] \in R \/ (p = q /\ k = m)
AllIn(c) == UNION {ToSet(c[p]) : p \in Stores}

\* What has been written before a roll() threw is in the file.
LinesInv == LineInOnePlace /\ repeated \subseteq ToSet(file)

\* The elements of a sequence.
LEMMA ElementsOf ==
  ASSUME NEW S, NEW s \in Seq(S)
  PROVE  /\ DOMAIN s = 1..Len(s) /\ Len(s) \in Nat
         /\ ToSet(s) = {s[k] : k \in 1..Len(s)} /\ ToSet(s) \subseteq S
PROOF
  <1>1. DOMAIN s = 1..Len(s) /\ Len(s) \in Nat /\ \A k \in 1..Len(s) : s[k] \in S
    OBVIOUS
  <1> QED BY <1>1 DEF ToSet

\* The elements of two sequences, one behind the other.
LEMMA JoinedElements ==
  ASSUME NEW S, NEW a \in Seq(S), NEW b \in Seq(S)
  PROVE  /\ DOMAIN (a \o b) = 1..(Len(a) + Len(b))
         /\ \A k \in 1..Len(a) : (a \o b)[k] = a[k]
         /\ \A k \in DOMAIN (a \o b) :
              k > Len(a) => k - Len(a) \in 1..Len(b) /\ (a \o b)[k] = b[k - Len(a)]
         /\ ToSet(a \o b) = ToSet(a) \cup ToSet(b)
PROOF
  <1> DEFINE r == a \o b
  <1>1. /\ Len(a) \in Nat /\ Len(b) \in Nat
        /\ ToSet(a) = {a[k] : k \in 1..Len(a)} /\ ToSet(b) = {b[k] : k \in 1..Len(b)}
    BY ElementsOf
  <1>2. /\ r \in Seq(S) /\ Len(r) = Len(a) + Len(b)
        /\ \A k \in 1..(Len(a) + Len(b)) : r[k] = IF k <= Len(a) THEN a[k] ELSE b[k - Len(a)]
    BY ConcatProperties
  <1> HIDE DEF r
  <1>3. DOMAIN r = 1..(Len(a) + Len(b)) /\ ToSet(r) = {r[k] : k \in 1..(Len(a) + Len(b))}
    BY <1>2, ElementsOf
  <1>4. /\ \A k \in 1..Len(a) : r[k] = a[k]
        /\ \A k \in DOMAIN r : k > Len(a) => k - Len(a) \in 1..Len(b) /\ r[k] = b[k - Len(a)]
    BY <1>1, <1>2, <1>3
  <1>5. ToSet(r) \subseteq ToSet(a) \cup ToSet(b)
    <2> SUFFICES ASSUME NEW k \in DOMAIN r PROVE r[k] \in ToSet(a) \cup ToSet(b)
      BY <1>3
    <2>1. k \in 1..Len(a) \/ k > Len(a)
      BY <1>1, <1>3
    <2> QED BY <1>1, <1>4, <2>1
  <1>6. ToSet(a) \subseteq ToSet(r)
    <2>1. \A k \in 1..Len(a) : k \in 1..(Len(a) + Len(b))
      BY <1>1
    <2> QED BY <1>1, <1>3, <1>4, <2>1
  <1>7. ToSet(b) \subseteq ToSet(r)
    <2> SUFFICES ASSUME NEW k \in 1..Len(b) PROVE b[k] \in ToSet(r)
      BY <1>1
    <2>1. k + Len(a) \in 1..(Len(a) + Len(b)) /\ k + Len(a) > Len(a)
          /\ (k + Len(a)) - Len(a) = k
      BY <1>1
    <2> QED BY <1>3, <1>4, <2>1
  <1> QED BY <1>3, <1>4, <1>5, <1>6, <1>7 DEF r

\* What is in the stores, by their names, before a step and after it.
LEMMA Contents ==
  /\ Content["held"] = held /\ Content["buffer"] = buffer /\ Content["file"] = file
  /\ \A t \in Flushing : Content[t] = batch[t]
  /\ Content'["held"] = held' /\ Content'["buffer"] = buffer' /\ Content'["file"] = file'
  /\ \A t \in Flushing : Content'[t] = batch'[t]
  /\ LogTypeOK => Content \in [Stores -> Seq(Lines)]
PROOF
  <1>1. Flushing \cap {"held", "buffer", "file"} = {}
    BY GroupAssumption DEF Flushing, Threads
  <1>2. /\ Content["held"] = held /\ Content["buffer"] = buffer /\ Content["file"] = file
        /\ \A t \in Flushing : Content[t] = batch[t]
    BY <1>1 DEF Content, Stores
  <1>3. /\ Content'["held"] = held' /\ Content'["buffer"] = buffer'
        /\ Content'["file"] = file' /\ \A t \in Flushing : Content'[t] = batch'[t]
    BY <1>1 DEF Content, Stores
  <1>4. ASSUME LogTypeOK PROVE Content \in [Stores -> Seq(Lines)]
    <2>1. \A p \in Stores : Content[p] \in Seq(Lines)
      BY <1>2, <1>4 DEF LogTypeOK, Stores
    <2> QED BY <2>1 DEF Content
  <1> QED BY <1>2, <1>3, <1>4

\* Sets with the same elements are the same.
LEMMA SameElements ==
  ASSUME NEW A, NEW B, \A x : x \in A <=> x \in B
  PROVE  A = B
PROOF OBVIOUS

\* A line is somewhere exactly when it is in one of the stores.
LEMMA InAStore ==
  ASSUME NEW c, NEW x
  PROVE  x \in AllIn(c) <=> \E p \in Stores : x \in ToSet(c[p])
PROOF BY DEF AllIn

\* The contents of one store going to the end of another move no line away.
LEMMA StoreMoves ==
  ASSUME NEW S, NEW c \in [Stores -> Seq(S)], NEW d, NEW R,
         NEW p \in Stores, NEW q \in Stores, p # q,
         d[p] = c[p] \o c[q], d[q] = <<>>, \A r \in Stores \ {p, q} : d[r] = c[r]
  PROVE  /\ AllIn(d) = AllIn(c)
         /\ Once(c, R) => Once(d, R)
PROOF
  <1>1. /\ DOMAIN c[p] = 1..Len(c[p]) /\ Len(c[p]) \in Nat
        /\ DOMAIN c[q] = 1..Len(c[q]) /\ Len(c[q]) \in Nat
    BY ElementsOf
  <1>2. /\ DOMAIN d[p] = 1..(Len(c[p]) + Len(c[q]))
        /\ \A k \in 1..Len(c[p]) : d[p][k] = c[p][k]
        /\ \A k \in DOMAIN d[p] :
             k > Len(c[p]) => k - Len(c[p]) \in 1..Len(c[q]) /\ d[p][k] = c[q][k - Len(c[p])]
        /\ ToSet(d[p]) = ToSet(c[p]) \cup ToSet(c[q])
    BY JoinedElements
  <1>3. DOMAIN d[q] = {} /\ ToSet(d[q]) = {}
    BY DEF ToSet
  <1>4. AllIn(d) = AllIn(c)
    <2>1. \A r \in Stores \ {p, q} : ToSet(d[r]) = ToSet(c[r])
      OBVIOUS
    <2>2. ASSUME NEW x PROVE x \in AllIn(d) <=> x \in AllIn(c)
      <3>1. /\ x \in AllIn(d) <=> \E r \in Stores : x \in ToSet(d[r])
            /\ x \in AllIn(c) <=> \E r \in Stores : x \in ToSet(c[r])
        BY InAStore
      <3>2. x \in AllIn(d) => x \in AllIn(c)
        BY <1>2, <1>3, <2>1, <3>1
      <3>3. x \in AllIn(c) => x \in AllIn(d)
        BY <1>2, <1>3, <2>1, <3>1
      <3> QED BY <3>2, <3>3
    <2> QED BY <2>2, SameElements
  <1>5. ASSUME Once(c, R) PROVE Once(d, R)
    <2> DEFINE Place(s, k) == IF s = p /\ k > Len(c[p]) THEN q ELSE s
               Index(s, k) == IF s = p /\ k > Len(c[p]) THEN k - Len(c[p]) ELSE k
    <2>1. ASSUME NEW s \in Stores, NEW k \in DOMAIN d[s]
          PROVE  /\ s # q /\ Place(s, k) \in Stores
                 /\ Index(s, k) \in DOMAIN c[Place(s, k)]
                 /\ d[s][k] = c[Place(s, k)][Index(s, k)]
      <3>1. CASE s = p
        <4>1. k \in 1..(Len(c[p]) + Len(c[q]))
          BY <1>2, <3>1
        <4>2. k > Len(c[p]) \/ k \in 1..Len(c[p])
          BY <1>1, <4>1
        <4>3. CASE k > Len(c[p])
          BY <1>1, <1>2, <3>1, <4>1, <4>3
        <4>4. CASE k \in 1..Len(c[p])
          <5>1. ~(k > Len(c[p]))
            BY <1>1, <4>4
          <5> QED BY <1>1, <1>2, <3>1, <4>4, <5>1
        <4> QED BY <4>2, <4>3, <4>4
      <3>2. CASE s # p
        BY <1>3, <3>2
      <3> QED BY <3>1, <3>2
    <2>2. ASSUME NEW s \in Stores, NEW k \in DOMAIN d[s],
                 NEW t \in Stores, NEW m \in DOMAIN d[t],
                 Place(s, k) = Place(t, m), Index(s, k) = Index(t, m)
          PROVE  s = t /\ k = m
      <3>1. s # q /\ t # q
        BY <2>1
      <3>2. s = t
        BY <2>2, <3>1
      <3>3. CASE s = p
        <4>1. k \in 1..(Len(c[p]) + Len(c[q])) /\ m \in 1..(Len(c[p]) + Len(c[q]))
          BY <1>2, <3>2, <3>3
        <4> QED BY <1>1, <2>2, <3>2, <3>3, <4>1
      <3>4. CASE s # p
        BY <2>2, <3>2, <3>4
      <3> QED BY <3>2, <3>3, <3>4
    <2> HIDE DEF Place, Index
    <2>3. ASSUME NEW s \in Stores, NEW t \in Stores,
                 NEW k \in DOMAIN d[s], NEW m \in DOMAIN d[t], d[s][k] = d[t][m]
          PROVE  d[s][k] \in R \/ (s = t /\ k = m)
      BY <1>5, <2>1, <2>2, <2>3 DEF Once
    <2> QED BY <2>3 DEF Once
  <1> QED BY <1>4, <1>5

\* A store that is emptied takes its lines with it, but for those that are elsewhere.
LEMMA StoreEmptied ==
  ASSUME NEW c, NEW d, NEW R, NEW p \in Stores, NEW f \in Stores, f # p,
         d[p] = <<>>, \A r \in Stores \ {p} : d[r] = c[r],
         Once(c, R), R \subseteq ToSet(c[f])
  PROVE  AllIn(d) = (AllIn(c) \ ToSet(c[p])) \cup R /\ Once(d, R)
PROOF
  <1>1. DOMAIN d[p] = {} /\ ToSet(d[p]) = {}
    BY DEF ToSet
  <1>2. Once(d, R)
    <2> SUFFICES ASSUME NEW s \in Stores, NEW t \in Stores,
                        NEW k \in DOMAIN d[s], NEW m \in DOMAIN d[t], d[s][k] = d[t][m]
                 PROVE  d[s][k] \in R \/ (s = t /\ k = m)
      BY DEF Once
    <2>1. d[s] = c[s] /\ d[t] = c[t]
      BY <1>1
    <2> QED BY <2>1 DEF Once
  <1>3. ASSUME NEW x PROVE x \in AllIn(d) <=> x \in (AllIn(c) \ ToSet(c[p])) \cup R
    <2>1. ASSUME x \in AllIn(d) PROVE x \in (AllIn(c) \ ToSet(c[p])) \cup R
      <3>1. PICK s \in Stores : x \in ToSet(d[s])
        BY <2>1 DEF AllIn
      <3>2. s # p /\ x \in ToSet(c[s]) /\ x \in AllIn(c)
        BY <1>1, <3>1 DEF AllIn
      <3>3. ASSUME x \in ToSet(c[p]) PROVE x \in R
        <4>1. PICK k \in DOMAIN c[s] : c[s][k] = x
          BY <3>2 DEF ToSet
        <4>2. PICK m \in DOMAIN c[p] : c[p][m] = x
          BY <3>3 DEF ToSet
        <4> QED BY <3>2, <4>1, <4>2 DEF Once
      <3> QED BY <3>2, <3>3
    <2>2. ASSUME x \in AllIn(c), x \notin ToSet(c[p]) PROVE x \in AllIn(d)
      BY <2>2 DEF AllIn
    <2>3. ASSUME x \in R PROVE x \in AllIn(d)
      BY <2>3 DEF AllIn
    <2> QED BY <2>1, <2>2, <2>3
  <1> QED BY <1>2, <1>3

\* Lines that are copied from one store to the end of another, and may be doubled.
LEMMA StoreCopied ==
  ASSUME NEW S, NEW c \in [Stores -> Seq(S)], NEW d, NEW R,
         NEW p \in Stores, NEW q \in Stores,
         d[p] = c[p] \o c[q], \A r \in Stores \ {p} : d[r] = c[r], Once(c, R)
  PROVE  AllIn(d) = AllIn(c) /\ Once(d, R \cup ToSet(c[q]))
PROOF
  <1>1. /\ DOMAIN c[p] = 1..Len(c[p]) /\ Len(c[p]) \in Nat
        /\ DOMAIN c[q] = 1..Len(c[q]) /\ Len(c[q]) \in Nat
    BY ElementsOf
  <1>2. /\ DOMAIN d[p] = 1..(Len(c[p]) + Len(c[q]))
        /\ \A k \in 1..Len(c[p]) : d[p][k] = c[p][k]
        /\ \A k \in DOMAIN d[p] :
             k > Len(c[p]) => k - Len(c[p]) \in 1..Len(c[q]) /\ d[p][k] = c[q][k - Len(c[p])]
        /\ ToSet(d[p]) = ToSet(c[p]) \cup ToSet(c[q])
    BY JoinedElements
  <1>3. AllIn(d) = AllIn(c)
    <2>1. \A r \in Stores \ {p} : ToSet(d[r]) = ToSet(c[r])
      OBVIOUS
    <2>2. ASSUME NEW x PROVE x \in AllIn(d) <=> x \in AllIn(c)
      <3>1. /\ x \in AllIn(d) <=> \E r \in Stores : x \in ToSet(d[r])
            /\ x \in AllIn(c) <=> \E r \in Stores : x \in ToSet(c[r])
        BY InAStore
      <3>2. x \in AllIn(d) => x \in AllIn(c)
        BY <1>2, <2>1, <3>1
      <3>3. x \in AllIn(c) => x \in AllIn(d)
        BY <1>2, <2>1, <3>1
      <3> QED BY <3>2, <3>3
    <2> QED BY <2>2, SameElements
  <1>4. ASSUME NEW s \in Stores, NEW k \in DOMAIN d[s], d[s][k] \notin ToSet(c[q])
        PROVE  k \in DOMAIN c[s] /\ d[s][k] = c[s][k]
    <2>1. CASE s = p
      <3>1. k \in 1..(Len(c[p]) + Len(c[q]))
        BY <1>2, <2>1
      <3>2. ASSUME k > Len(c[p]) PROVE FALSE
        BY <1>1, <1>2, <1>4, <2>1, <3>2 DEF ToSet
      <3>3. k \in 1..Len(c[p])
        BY <1>1, <3>1, <3>2
      <3> QED BY <1>1, <1>2, <2>1, <3>3
    <2>2. CASE s # p
      BY <2>2
    <2> QED BY <2>1, <2>2
  <1>5. Once(d, R \cup ToSet(c[q]))
    <2> SUFFICES ASSUME NEW s \in Stores, NEW t \in Stores,
                        NEW k \in DOMAIN d[s], NEW m \in DOMAIN d[t], d[s][k] = d[t][m],
                        d[s][k] \notin R, d[s][k] \notin ToSet(c[q])
                 PROVE  s = t /\ k = m
      BY DEF Once
    <2>1. k \in DOMAIN c[s] /\ d[s][k] = c[s][k] /\ m \in DOMAIN c[t] /\ d[t][m] = c[t][m]
      BY <1>4
    <2>2. c[s][k] = c[t][m] => c[s][k] \in R \/ (s = t /\ k = m)
      BY <2>1 DEF Once
    <2> QED BY <2>1, <2>2
  <1> QED BY <1>3, <1>5

\* The elements of a sequence with one more at its end.
LEMMA AppendedElements ==
  ASSUME NEW S, NEW s \in Seq(S), NEW x \in S
  PROVE  /\ DOMAIN Append(s, x) = 1..(Len(s) + 1)
         /\ \A k \in 1..Len(s) : Append(s, x)[k] = s[k]
         /\ Append(s, x)[Len(s) + 1] = x
         /\ ToSet(Append(s, x)) = ToSet(s) \cup {x}
PROOF
  <1> DEFINE r == Append(s, x)
  <1>1. /\ r \in Seq(S) /\ Len(r) = Len(s) + 1 /\ Len(s) \in Nat
        /\ \A k \in 1..Len(s) : r[k] = s[k]
        /\ r[Len(s) + 1] = x
    BY AppendProperties
  <1> HIDE DEF r
  <1>2. /\ DOMAIN r = 1..(Len(s) + 1) /\ ToSet(r) = {r[k] : k \in 1..(Len(s) + 1)}
        /\ ToSet(s) = {s[k] : k \in 1..Len(s)}
    BY <1>1, ElementsOf
  <1>3. 1..(Len(s) + 1) = 1..Len(s) \cup {Len(s) + 1}
    BY <1>1
  <1>4. ToSet(r) = ToSet(s) \cup {x}
    <2>1. {r[k] : k \in 1..Len(s)} = {s[k] : k \in 1..Len(s)}
      BY <1>1
    <2>2. {r[k] : k \in 1..(Len(s) + 1)} = {r[k] : k \in 1..Len(s)} \cup {r[Len(s) + 1]}
      BY <1>3
    <2> QED BY <1>1, <1>2, <2>1, <2>2
  <1> QED BY <1>1, <1>2, <1>4 DEF r

\* A new line at the end of a store.
LEMMA StoreGrows ==
  ASSUME NEW S, NEW c \in [Stores -> Seq(S)], NEW d, NEW R, NEW p \in Stores,
         NEW x \in S, x \notin AllIn(c),
         d[p] = Append(c[p], x), \A r \in Stores \ {p} : d[r] = c[r], Once(c, R)
  PROVE  AllIn(d) = AllIn(c) \cup {x} /\ Once(d, R)
PROOF
  <1>1. DOMAIN c[p] = 1..Len(c[p]) /\ Len(c[p]) \in Nat
    BY ElementsOf
  <1>2. /\ DOMAIN d[p] = 1..(Len(c[p]) + 1)
        /\ \A k \in 1..Len(c[p]) : d[p][k] = c[p][k]
        /\ d[p][Len(c[p]) + 1] = x
        /\ ToSet(d[p]) = ToSet(c[p]) \cup {x}
    BY AppendedElements
  <1>3. \A k \in DOMAIN d[p] : k > Len(c[p]) => k = Len(c[p]) + 1 /\ d[p][k] = x
    BY <1>1, <1>2
  <1>4. AllIn(d) = AllIn(c) \cup {x}
    <2>1. \A r \in Stores \ {p} : ToSet(d[r]) = ToSet(c[r])
      OBVIOUS
    <2>2. ASSUME NEW y PROVE y \in AllIn(d) <=> y \in AllIn(c) \cup {x}
      <3>1. /\ y \in AllIn(d) <=> \E r \in Stores : y \in ToSet(d[r])
            /\ y \in AllIn(c) <=> \E r \in Stores : y \in ToSet(c[r])
        BY InAStore
      <3>2. y \in AllIn(d) => y \in AllIn(c) \cup {x}
        BY <1>2, <2>1, <3>1
      <3>3. y \in AllIn(c) \cup {x} => y \in AllIn(d)
        BY <1>2, <2>1, <3>1
      <3> QED BY <3>2, <3>3
    <2> QED BY <2>2, SameElements
  <1>5. ASSUME NEW s \in Stores, NEW k \in DOMAIN d[s]
        PROVE  \/ k \in DOMAIN c[s] /\ d[s][k] = c[s][k] /\ d[s][k] # x
               \/ s = p /\ k = Len(c[p]) + 1 /\ d[s][k] = x
    <2>1. \A m \in DOMAIN c[s] : c[s][m] # x
      BY DEF AllIn, ToSet
    <2>2. CASE s = p
      <3>1. k \in 1..Len(c[p]) \/ (k = Len(c[p]) + 1 /\ k > Len(c[p]))
        BY <1>1, <1>2, <1>3, <2>2
      <3> QED BY <1>1, <1>2, <1>3, <2>1, <2>2, <3>1
    <2>3. CASE s # p
      BY <2>1, <2>3
    <2> QED BY <2>2, <2>3
  <1>6. Once(d, R)
    <2> SUFFICES ASSUME NEW s \in Stores, NEW t \in Stores,
                        NEW k \in DOMAIN d[s], NEW m \in DOMAIN d[t], d[s][k] = d[t][m]
                 PROVE  d[s][k] \in R \/ (s = t /\ k = m)
      BY DEF Once
    <2>1. CASE d[s][k] = x
      BY <1>5, <2>1
    <2>2. CASE d[s][k] # x
      BY <1>5, <2>2 DEF Once
    <2> QED BY <2>1, <2>2
  <1> QED BY <1>4, <1>6
-----------------------------------------------------------------------------
\* The two facts about the contents that each step is shown to keep, put together.
LEMMA LinesKept ==
  ASSUME NEW c, NEW R, c = Content, R = repeated
  PROVE  LinesInv <=> AllIn(c) = (Lines \ lost) \cup R /\ Once(c, R) /\ R \subseteq ToSet(file)
PROOF BY DEF LinesInv, LineInOnePlace, OnlyOnce, Stored, Once, AllIn

\* A batch that is rolled is in the file then, or lost as a whole.
LEMMA RollKeepsLines ==
  ASSUME LogTypeOK, LinesInv, NEW t \in Flushing, NEW threw \in BOOLEAN,
         RollBatch(t, threw), logged' = logged
  PROVE  LinesInv'
PROOF
  <1> DEFINE c == Content
             d == Content'
             R == repeated
  <1>1. /\ c["held"] = held /\ c["buffer"] = buffer /\ c["file"] = file
        /\ \A u \in Flushing : c[u] = batch[u]
        /\ d["held"] = held' /\ d["buffer"] = buffer' /\ d["file"] = file'
        /\ \A u \in Flushing : d[u] = batch'[u]
        /\ c \in [Stores -> Seq(Lines)]
    BY Contents
  <1>2. /\ batch' = [batch EXCEPT ![t] = <<>>]
        /\ UNCHANGED <<rollGroup, held, buffer, repeated>>
        /\ \/ file' = file \o batch[t] /\ lost' = lost
           \/ file' = file /\ lost' = lost \cup ToSet(batch[t])
    BY RollEffect
  <1>3. batch \in [Flushing -> Seq(Lines)] /\ Lines' = Lines /\ file \in Seq(Lines)
    BY DEF LogTypeOK, Lines
  <1>4. t \in Stores /\ "file" \in Stores /\ t # "file"
    BY GroupAssumption DEF Stores, Flushing, Threads
  <1>5. d[t] = <<>> /\ \A p \in Stores \ {"file", t} : d[p] = c[p]
    BY <1>1, <1>2, <1>3 DEF Stores
  <1>6. /\ AllIn(c) = (Lines \ lost) \cup R /\ Once(c, R) /\ R \subseteq ToSet(c["file"])
        /\ R' = R
    BY <1>1, <1>2, LinesKept
  <1>7. LinesInv' <=>
          AllIn(d) = (Lines \ lost') \cup R /\ Once(d, R) /\ R \subseteq ToSet(file')
    BY <1>2, <1>3 DEF LinesInv, LineInOnePlace, OnlyOnce, Stored, Once, AllIn
  <1> HIDE DEF c, d, R
  <1>8. CASE file' = file \o batch[t] /\ lost' = lost
    <2>1. d["file"] = c["file"] \o c[t]
      BY <1>1, <1>8
    <2>2. /\ c \in [Stores -> Seq(Lines)] /\ d["file"] = c["file"] \o c[t] /\ d[t] = <<>>
          /\ \A p \in Stores \ {"file", t} : d[p] = c[p]
          /\ "file" \in Stores /\ t \in Stores /\ "file" # t
      BY <1>1, <1>4, <1>5, <2>1
    <2>4. AllIn(d) = AllIn(c) /\ (Once(c, R) => Once(d, R))
      BY <2>2, StoreMoves, ZenonT(60)
    <2>3. ToSet(file') = ToSet(file) \cup ToSet(batch[t])
      BY <1>3, <1>8, JoinedElements
    <2> QED BY <1>1, <1>6, <1>7, <1>8, <2>4, <2>3
  <1>9. CASE file' = file /\ lost' = lost \cup ToSet(batch[t])
    <2>1. \A p \in Stores \ {t} : d[p] = c[p]
      BY <1>1, <1>5, <1>9
    <2>2. AllIn(d) = (AllIn(c) \ ToSet(c[t])) \cup R /\ Once(d, R)
      BY <1>4, <1>5, <1>6, <2>1, StoreEmptied
    <2>3. c[t] = batch[t]
      BY <1>1
    <2> QED BY <1>1, <1>6, <1>7, <1>9, <2>2, <2>3
  <1> QED BY <1>2, <1>8, <1>9

\* What is swapped out of the buffer is the batch then.
LEMMA SwapKeepsLines ==
  ASSUME LogTypeOK, LinesInv, NEW t \in Flushing, batch[t] = <<>>, SwapOut(t),
         UNCHANGED <<held, file, lost, repeated, logged>>
  PROVE  LinesInv'
PROOF
  <1> DEFINE c == Content
             d == Content'
             R == repeated
  <1>1. /\ c["held"] = held /\ c["buffer"] = buffer /\ c["file"] = file
        /\ \A u \in Flushing : c[u] = batch[u]
        /\ d["held"] = held' /\ d["buffer"] = buffer' /\ d["file"] = file'
        /\ \A u \in Flushing : d[u] = batch'[u]
        /\ c \in [Stores -> Seq(Lines)]
    BY Contents
  <1>2. /\ batch' = [batch EXCEPT ![t] = buffer] /\ buffer' = <<>>
        /\ batch \in [Flushing -> Seq(Lines)] /\ buffer \in Seq(Lines) /\ Lines' = Lines
    BY DEF SwapOut, LogTypeOK, Lines
  <1>3. t \in Stores /\ "buffer" \in Stores /\ t # "buffer"
    BY GroupAssumption DEF Stores, Flushing, Threads
  <1>4. d["buffer"] = <<>> /\ \A p \in Stores \ {t, "buffer"} : d[p] = c[p]
    BY <1>1, <1>2 DEF Stores
  <1>5. d[t] = c[t] \o c["buffer"]
    <2>1. c[t] = <<>> /\ c["buffer"] = buffer /\ d[t] = buffer
      BY <1>1, <1>2
    <2> QED BY <1>2, <2>1, ConcatEmptySeq
  <1>6. AllIn(c) = (Lines \ lost) \cup R /\ Once(c, R) /\ R \subseteq ToSet(file)
    BY LinesKept
  <1>7. LinesInv' <=> AllIn(d) = (Lines \ lost) \cup R /\ Once(d, R) /\ R \subseteq ToSet(file)
    BY <1>2 DEF LinesInv, LineInOnePlace, OnlyOnce, Stored, Once, AllIn
  <1> HIDE DEF c, d, R
  <1>8. /\ c \in [Stores -> Seq(Lines)] /\ t \in Stores /\ "buffer" \in Stores /\ t # "buffer"
        /\ d[t] = c[t] \o c["buffer"] /\ d["buffer"] = <<>>
        /\ \A p \in Stores \ {t, "buffer"} : d[p] = c[p]
    BY <1>1, <1>3, <1>4, <1>5
  <1>9. AllIn(d) = AllIn(c) /\ (Once(c, R) => Once(d, R))
    BY <1>8, StoreMoves, ZenonT(60)
  <1> QED BY <1>6, <1>7, <1>9

\* A stream's destructor hands its text on to the buffer, or to the file, or it is lost;
\* when roll() throws it keeps it, and what the file has already got may be doubled.
LEMMA StreamKeepsLines ==
  ASSUME LogTypeOK, LinesInv, NEW t \in Writers, WritePush(t) \/ WriteRoll(t)
  PROVE  LinesInv'
PROOF
  <1> DEFINE c == Content
             d == Content'
             R == repeated
  <1>1. /\ c["held"] = held /\ c["buffer"] = buffer /\ c["file"] = file
        /\ \A u \in Flushing : c[u] = batch[u]
        /\ d["held"] = held' /\ d["buffer"] = buffer' /\ d["file"] = file'
        /\ \A u \in Flushing : d[u] = batch'[u]
        /\ c \in [Stores -> Seq(Lines)]
    BY Contents
  <1>2. /\ batch' = batch /\ Lines' = Lines
        /\ held \in Seq(Lines) /\ file \in Seq(Lines)
    BY DEF WritePush, WriteRoll, LogTypeOK, Lines
  <1>3. {"held", "buffer", "file"} \subseteq Stores
    BY DEF Stores
  <1>4. \A p \in Stores \ {"held", "buffer", "file"} : d[p] = c[p]
    BY <1>1, <1>2 DEF Stores
  <1>6. AllIn(c) = (Lines \ lost) \cup R /\ Once(c, R) /\ R \subseteq ToSet(file)
    BY LinesKept
  <1>7. LinesInv' <=>
          /\ AllIn(d) = (Lines \ lost') \cup repeated' /\ Once(d, repeated')
          /\ repeated' \subseteq ToSet(file')
    BY <1>2 DEF LinesInv, LineInOnePlace, OnlyOnce, Stored, Once, AllIn
  <1> HIDE DEF c, d
  <1>8. CASE WritePush(t)
    <2>1. buffer' = buffer \o held /\ held' = <<>> /\ UNCHANGED <<file, lost, repeated>>
      BY <1>8 DEF WritePush
    <2> DEFINE p == "buffer"
               q == "held"
    <2>2. /\ d[p] = c[p] \o c[q] /\ d[q] = <<>>
          /\ \A r \in Stores \ {p, q} : d[r] = c[r]
          /\ p \in Stores /\ q \in Stores /\ p # q
          /\ c \in [Stores -> Seq(Lines)]
      BY <1>1, <1>3, <1>4, <2>1
    <2>3. AllIn(d) = AllIn(c) /\ (Once(c, R) => Once(d, R))
      <3> HIDE DEF p, q, R
      <3> QED BY <2>2, StoreMoves, ZenonT(60)
    <2> QED BY <1>6, <1>7, <2>1, <2>3
  <1>9. CASE file' = file \o held /\ held' = <<>> /\ UNCHANGED <<buffer, lost, repeated>>
    <2> DEFINE p == "file"
               q == "held"
    <2>1. /\ d[p] = c[p] \o c[q] /\ d[q] = <<>>
          /\ \A r \in Stores \ {p, q} : d[r] = c[r]
          /\ p \in Stores /\ q \in Stores /\ p # q
          /\ c \in [Stores -> Seq(Lines)]
      BY <1>1, <1>3, <1>4, <1>9
    <2>2. AllIn(d) = AllIn(c) /\ (Once(c, R) => Once(d, R))
      <3> HIDE DEF p, q, R
      <3> QED BY <2>1, StoreMoves, ZenonT(60)
    <2>3. ToSet(file') = ToSet(file) \cup ToSet(held)
      BY <1>2, <1>9, JoinedElements
    <2> QED BY <1>6, <1>7, <1>9, <2>2, <2>3
  <1>10. CASE UNCHANGED <<held, buffer, file, lost, repeated>>
    BY <1>2, <1>10 DEF LinesInv, LineInOnePlace, OnlyOnce, Stored, Content
  <1>11. CASE /\ file' = file \o held /\ UNCHANGED <<held, buffer, lost>>
              /\ repeated' = repeated \cup ToSet(held)
    <2>1. /\ d["file"] = c["file"] \o c["held"]
          /\ \A p \in Stores \ {"file"} : d[p] = c[p]
      BY <1>1, <1>4, <1>11
    <2>2. AllIn(d) = AllIn(c) /\ Once(d, R \cup ToSet(c["held"]))
      BY <1>1, <1>3, <1>6, <2>1, StoreCopied, Zenon
    <2>3. ToSet(file') = ToSet(file) \cup ToSet(held)
      BY <1>2, <1>11, JoinedElements
    <2>4. ToSet(held) \subseteq AllIn(c)
      BY <1>1, <1>3, InAStore
    <2> QED BY <1>1, <1>6, <1>7, <1>11, <2>2, <2>3, <2>4
  <1>12. CASE /\ lost' = lost \cup ToSet(held) /\ held' = <<>>
              /\ UNCHANGED <<buffer, file, repeated>>
    <2>1. d["held"] = <<>> /\ \A p \in Stores \ {"held"} : d[p] = c[p]
      BY <1>1, <1>4, <1>12
    <2>2. AllIn(d) = (AllIn(c) \ ToSet(c["held"])) \cup R /\ Once(d, R)
      <3>1. R \subseteq ToSet(c["file"]) /\ "held" \in Stores /\ "file" \in Stores
        BY <1>1, <1>3, <1>6
      <3> QED BY <1>6, <2>1, <3>1, StoreEmptied
    <2> QED BY <1>1, <1>6, <1>7, <1>12, <2>2
  <1> QED BY <1>8, <1>9, <1>10, <1>11, <1>12 DEF WriteRoll, RollOut

\* A new line is nowhere yet.
LEMMA LineKeepsLines ==
  ASSUME LogTypeOK, LinesInv, NEW t \in Writers, WriteLine(t)
  PROVE  LinesInv'
PROOF
  <1> DEFINE c == Content
             d == Content'
             R == repeated
             x == logged + 1
  <1>1. /\ c["held"] = held /\ c["buffer"] = buffer /\ c["file"] = file
        /\ \A u \in Flushing : c[u] = batch[u]
        /\ d["held"] = held' /\ d["buffer"] = buffer' /\ d["file"] = file'
        /\ \A u \in Flushing : d[u] = batch'[u]
        /\ c \in [Stores -> Seq(Lines)]
    BY Contents
  <1>2. /\ held' = Append(held, x) /\ logged' = x
        /\ UNCHANGED <<buffer, batch, file, lost, repeated>>
    BY DEF WriteLine
  <1>3. /\ logged \in Nat /\ lost \subseteq Lines /\ repeated \subseteq Lines
        /\ x \notin Lines /\ x \in Lines' /\ Lines' = Lines \cup {x}
    BY <1>2, GroupAssumption DEF LogTypeOK, Lines
  <1>4. c \in [Stores -> Seq(Lines')]
    BY <1>1, <1>3, SequencesGrow
  <1>5. /\ d["held"] = Append(c["held"], x) /\ "held" \in Stores
        /\ \A p \in Stores \ {"held"} : d[p] = c[p]
    BY <1>1, <1>2 DEF Stores
  <1>6. AllIn(c) = (Lines \ lost) \cup R /\ Once(c, R) /\ R \subseteq ToSet(file)
    BY LinesKept
  <1>7. LinesInv' <=>
          AllIn(d) = (Lines' \ lost) \cup R /\ Once(d, R) /\ R \subseteq ToSet(file)
    BY <1>2 DEF LinesInv, LineInOnePlace, OnlyOnce, Stored, Once, AllIn
  <1>8. x \notin AllIn(c)
    BY <1>3, <1>6
  <1> HIDE DEF c, d, R, x
  <1>9. /\ c \in [Stores -> Seq(Lines')] /\ "held" \in Stores /\ x \in Lines'
        /\ x \notin AllIn(c) /\ d["held"] = Append(c["held"], x)
        /\ \A p \in Stores \ {"held"} : d[p] = c[p]
        /\ Once(c, R)
    BY <1>3, <1>4, <1>5, <1>6, <1>8
  <1>10. AllIn(d) = AllIn(c) \cup {x} /\ Once(d, R)
    BY <1>9, StoreGrows, Zenon
  <1> QED BY <1>3, <1>6, <1>7, <1>10

\* Every step keeps every line in its place, or moves it to one.
LEMMA NextKeepsLines ==
  GroupInv /\ LinesInv /\ [LogNext]_allVars => LinesInv'
PROOF
  <1> SUFFICES ASSUME GroupInv, LinesInv, [LogNext]_allVars PROVE LinesInv'
    OBVIOUS
  <1>t. LogTypeOK
    BY DEF GroupInv
  <1>m. Main \in Flushing /\ \A t \in Flushers : t \in Flushing
    BY DEF Flushing
  <1>1. CASE UNCHANGED <<held, buffer, batch, file, lost, repeated, logged>>
    BY <1>1 DEF LinesInv, LineInOnePlace, OnlyOnce, Stored, Content, Lines
  <1>2. CASE GroupFlush \/ OwnFlush
    <2>1. batch[Main] = <<>>
      BY <1>2, <1>t DEF GroupFlush, OwnFlush, LogTypeOK
    <2>2. /\ UNCHANGED <<held, file, lost, repeated, logged>>
          /\ SwapOut(Main) \/ UNCHANGED <<buffer, batch>>
      BY <1>2 DEF GroupFlush, OwnFlush, writerVars
    <2> QED BY <1>t, <1>m, <1>1, <2>1, <2>2, SwapKeepsLines
  <1>3. CASE GroupRoll \/ OwnRoll
    <2>1. PICK threw \in BOOLEAN : RollBatch(Main, threw)
      BY <1>3 DEF GroupRoll, OwnRoll
    <2>2. logged' = logged
      BY <1>3 DEF GroupRoll, OwnRoll, writerVars
    <2> QED BY <1>t, <1>m, <2>1, <2>2, RollKeepsLines
  <1>4. ASSUME NEW t \in Flushers, FlusherSwap(t) PROVE LinesInv'
    <2>1. /\ batch[t] = <<>> /\ SwapOut(t)
          /\ UNCHANGED <<held, file, lost, repeated, logged>>
      BY <1>4 DEF FlusherSwap
    <2> QED BY <1>t, <1>m, <2>1, SwapKeepsLines
  <1>5. ASSUME NEW t \in Flushers, FlusherRoll(t) PROVE LinesInv'
    <2>1. PICK threw \in BOOLEAN : RollBatch(t, threw)
      BY <1>5 DEF FlusherRoll
    <2>2. logged' = logged
      BY <1>5 DEF FlusherRoll, writerVars
    <2> QED BY <1>t, <1>m, <2>1, <2>2, RollKeepsLines
  <1>6. ASSUME NEW t \in Writers, Write(t) PROVE LinesInv'
    BY <1>6, <1>t, LineKeepsLines, StreamKeepsLines DEF Write
  <1>7. CASE \/ SetLogInfo \/ Unset \/ Unregister \/ Unlink \/ Register \/ Insert
             \/ Term \/ DestructorLock \/ DestructorStop \/ DestructorUnlock
             \/ Leave \/ \E mode \in {"sync", "async"} : CallSync(mode)
             \/ \E t \in Writers : CallLog(t)
             \/ \E t \in Threads : TakeFile(t)
    <2>1. UNCHANGED <<held, buffer, batch, file, lost, repeated, logged>>
      BY <1>7 DEF SetLogInfo, Unset, Unregister, Unlink, Register, Insert, Term,
         DestructorLock, DestructorStop, DestructorUnlock, Leave, CallSync, CallLog,
         TakeFile, rollVars, writerVars
    <2> QED BY <1>1, <2>1
  <1>8. CASE MainInPool \/ \E w \in Workers : Run(w) \/ WorkerInPool(w)
    BY <1>1, <1>8, WorkerGroup DEF rollVars, writerVars
  <1>9. CASE UNCHANGED allVars
    BY <1>1, <1>9 DEF allVars, logVars, rollVars, writerVars
  <1> QED BY <1>2, <1>3, <1>4, <1>5, <1>6, <1>7, <1>8, <1>9 DEF LogNext, MainStep

\* A line that was logged is held, buffered, in one batch, in the file or lost with a
\* batch, and nowhere twice unless roll() threw after it had written it, for any number
\* of writers, flushers and switches at once.
THEOREM NoLineAstray == LogSpec => []LineInOnePlace
PROOF
  <1>1. LogInit => LinesInv
    <2> SUFFICES ASSUME LogInit PROVE LinesInv
      OBVIOUS
    <2>1. \A p \in Stores : Content[p] = <<>>
      BY Contents DEF Stores, LogInit, Flushing
    <2>2. Stored = {} /\ OnlyOnce
      BY <2>1 DEF Stored, OnlyOnce, ToSet
    <2>3. Lines = {} /\ lost = {} /\ repeated = {}
      BY DEF LogInit, Lines
    <2> QED BY <2>2, <2>3 DEF LinesInv, LineInOnePlace
  <1>2. LinesInv => LineInOnePlace
    BY DEF LinesInv
  <1> QED BY <1>1, <1>2, InitGroup, NextGroup, NextKeepsLines, PTL DEF LogSpec
-----------------------------------------------------------------------------
(* In which order the lines are, while main is alone *)

\* What a sequence of lines is when a line n + 1 is put at its end.
LEMMA LineAppended ==
  ASSUME NEW n \in Nat, NEW s \in Seq(1..n), NEW r, r = Append(s, n + 1)
  PROVE  /\ Len(s) \in Nat /\ DOMAIN s = 1..Len(s) /\ DOMAIN r = 1..(Len(s) + 1)
         /\ \A k \in 1..Len(s) : r[k] = s[k] /\ s[k] \in 1..n
         /\ r[Len(s) + 1] = n + 1
PROOF
  <1>1. 1..n \subseteq 1..(n + 1) /\ n + 1 \in 1..(n + 1)
    OBVIOUS
  <1>2. s \in Seq(1..(n + 1)) /\ DOMAIN s = 1..Len(s) /\ Len(s) \in Nat
        /\ \A k \in 1..Len(s) : s[k] \in 1..n
    BY <1>1, SequencesGrow, ElementsOf
  <1> QED BY <1>1, <1>2, AppendedElements

\* A younger line at the end keeps a sequence of lines in order ...
LEMMA AppendIncreasing ==
  ASSUME NEW n \in Nat, NEW s \in Seq(1..n), Increasing(s)
  PROVE  Increasing(Append(s, n + 1))
PROOF
  <1> DEFINE r == Append(s, n + 1)
  <1>1. /\ Len(s) \in Nat /\ DOMAIN s = 1..Len(s) /\ DOMAIN r = 1..(Len(s) + 1)
        /\ \A k \in 1..Len(s) : r[k] = s[k] /\ s[k] \in 1..n
        /\ r[Len(s) + 1] = n + 1
    BY LineAppended
  <1> HIDE DEF r
  <1>2. ASSUME NEW k \in DOMAIN r, NEW m \in DOMAIN r, k < m PROVE r[k] < r[m]
    <2>1. k \in 1..Len(s) /\ (m \in 1..Len(s) \/ m = Len(s) + 1)
      BY <1>1, <1>2
    <2> QED BY <1>1, <1>2, <2>1 DEF Increasing
  <1> QED BY <1>2 DEF Increasing, r

\* ... and its lines first come in order, when they did.
LEMMA AppendFirsts ==
  ASSUME NEW n \in Nat, NEW s \in Seq(1..n), FirstsInOrder(s)
  PROVE  FirstsInOrder(Append(s, n + 1))
PROOF
  <1> DEFINE r == Append(s, n + 1)
  <1>1. /\ Len(s) \in Nat /\ DOMAIN s = 1..Len(s) /\ DOMAIN r = 1..(Len(s) + 1)
        /\ \A k \in 1..Len(s) : r[k] = s[k] /\ s[k] \in 1..n
        /\ r[Len(s) + 1] = n + 1
    BY LineAppended
  <1> HIDE DEF r
  <1>2. ASSUME NEW k \in DOMAIN r, NEW m \in DOMAIN r, k < m, r[m] < r[k]
        PROVE  \E i \in DOMAIN r : i < k /\ r[i] = r[m]
    <2>1. k \in 1..Len(s) /\ (m \in 1..Len(s) \/ m = Len(s) + 1)
      BY <1>1, <1>2
    <2>2. m \in 1..Len(s)
      BY <1>1, <1>2, <2>1
    <2>3. PICK i \in DOMAIN s : i < k /\ s[i] = s[m]
      BY <1>1, <1>2, <2>1, <2>2 DEF FirstsInOrder
    <2> QED BY <1>1, <2>2, <2>3
  <1> QED BY <1>2 DEF FirstsInOrder, r

\* Where the elements of three sequences are in the one made of them, and in the one made
\* of the first and the third.
LEMMA Joined ==
  ASSUME NEW S, NEW a \in Seq(S), NEW b \in Seq(S), NEW e \in Seq(S), NEW w, NEW r,
         w = (a \o b) \o e, r = a \o e
  PROVE  /\ Len(a) \in Nat /\ Len(b) \in Nat /\ Len(e) \in Nat
         /\ DOMAIN w = 1..(Len(a) + Len(b) + Len(e)) /\ DOMAIN r = 1..(Len(a) + Len(e))
         /\ \A k \in 1..Len(a) : w[k] = a[k] /\ r[k] = a[k]
         /\ \A k \in 1..Len(b) : w[Len(a) + k] = b[k]
         /\ \A k \in 1..Len(e) : w[Len(a) + Len(b) + k] = e[k] /\ r[Len(a) + k] = e[k]
PROOF
  <1>1. /\ Len(a) \in Nat /\ Len(b) \in Nat /\ Len(e) \in Nat
        /\ a \o b \in Seq(S) /\ Len(a \o b) = Len(a) + Len(b)
    BY ElementsOf, ConcatProperties
  <1>2. /\ DOMAIN r = 1..(Len(a) + Len(e))
        /\ \A k \in 1..(Len(a) + Len(e)) : r[k] = IF k <= Len(a) THEN a[k] ELSE e[k - Len(a)]
    BY ConcatProperties, ElementsOf
  <1>3. \A k \in 1..(Len(a) + Len(b)) :
          (a \o b)[k] = IF k <= Len(a) THEN a[k] ELSE b[k - Len(a)]
    BY ConcatProperties
  <1>4. /\ DOMAIN w = 1..(Len(a) + Len(b) + Len(e))
        /\ \A k \in 1..(Len(a) + Len(b) + Len(e)) :
             w[k] = IF k <= Len(a) + Len(b) THEN (a \o b)[k] ELSE e[k - (Len(a) + Len(b))]
    BY <1>1, ConcatProperties, ElementsOf
  <1>5. ASSUME NEW k \in 1..Len(a) PROVE w[k] = a[k] /\ r[k] = a[k]
    <2>1. /\ k \in 1..(Len(a) + Len(e)) /\ k \in 1..(Len(a) + Len(b))
          /\ k \in 1..(Len(a) + Len(b) + Len(e)) /\ k <= Len(a) /\ k <= Len(a) + Len(b)
      BY <1>1
    <2> QED BY <1>2, <1>3, <1>4, <2>1
  <1>6. ASSUME NEW k \in 1..Len(b) PROVE w[Len(a) + k] = b[k]
    <2> DEFINE p == Len(a) + k
    <2>1. /\ p \in 1..(Len(a) + Len(b)) /\ p \in 1..(Len(a) + Len(b) + Len(e))
          /\ ~(p <= Len(a)) /\ p <= Len(a) + Len(b) /\ p - Len(a) = k
      BY <1>1
    <2> HIDE DEF p
    <2>2. w[p] = b[k]
      BY <1>3, <1>4, <2>1
    <2> QED BY <2>2 DEF p
  <1>7. ASSUME NEW k \in 1..Len(e)
        PROVE  w[Len(a) + Len(b) + k] = e[k] /\ r[Len(a) + k] = e[k]
    <2> DEFINE p == Len(a) + Len(b) + k
               q == Len(a) + k
    <2>1. /\ p \in 1..(Len(a) + Len(b) + Len(e)) /\ ~(p <= Len(a) + Len(b))
          /\ p - (Len(a) + Len(b)) = k
          /\ q \in 1..(Len(a) + Len(e)) /\ ~(q <= Len(a)) /\ q - Len(a) = k
      BY <1>1
    <2> HIDE DEF p, q
    <2>2. w[p] = e[k] /\ r[q] = e[k]
      BY <1>2, <1>4, <2>1
    <2> QED BY <2>2 DEF p, q
  <1> QED BY <1>1, <1>2, <1>4, <1>5, <1>6, <1>7

\* Two places behind the first la of la + le, as places of the last le.
LEMMA PastFirst ==
  ASSUME NEW la \in Nat, NEW le \in Nat, NEW k \in Int, NEW m \in Int,
         k \in 1..(la + le), m \in 1..(la + le), k > la, k < m
  PROVE  /\ k - la \in 1..le /\ m - la \in 1..le /\ k - la < m - la
         /\ k = la + (k - la) /\ m = la + (m - la)
PROOF OBVIOUS

\* When the text between a and e is lost, what is left of a sequence in which the lines
\* first come in order is one, when e by itself is in order.
LEMMA MiddleLost ==
  ASSUME NEW S, NEW a \in Seq(S), NEW b \in Seq(S), NEW e \in Seq(S), S \subseteq Nat,
         FirstsInOrder((a \o b) \o e), Increasing(e)
  PROVE  FirstsInOrder(a \o e)
PROOF
  <1> DEFINE w == (a \o b) \o e
             r == a \o e
  <1>0. /\ Len(a) \in Nat /\ Len(b) \in Nat /\ Len(e) \in Nat
        /\ DOMAIN w = 1..(Len(a) + Len(b) + Len(e)) /\ DOMAIN r = 1..(Len(a) + Len(e))
    BY Joined
  <1>1. /\ \A k \in 1..Len(a) : w[k] = a[k] /\ r[k] = a[k]
        /\ \A k \in 1..Len(e) : w[Len(a) + Len(b) + k] = e[k] /\ r[Len(a) + k] = e[k]
    BY Joined
  <1>2. DOMAIN e = 1..Len(e) /\ \A k \in 1..Len(e) : e[k] \in Nat
    <2>1. DOMAIN e = 1..Len(e) /\ \A k \in 1..Len(e) : e[k] \in S
      BY ElementsOf
    <2> QED BY <2>1
  <1> HIDE DEF r, w
  <1>3. ASSUME NEW k \in DOMAIN r, NEW m \in DOMAIN r, k < m, r[m] < r[k]
        PROVE  \E i \in DOMAIN r : i < k /\ r[i] = r[m]
    <2>1. CASE k > Len(a)
      <3> DEFINE x == k - Len(a)
                 y == m - Len(a)
      <3>0. k \in 1..(Len(a) + Len(e)) /\ m \in 1..(Len(a) + Len(e)) /\ k < m
        BY <1>0, <1>3
      <3>1. /\ x \in 1..Len(e) /\ y \in 1..Len(e) /\ x < y
            /\ k = Len(a) + x /\ m = Len(a) + y
        <4>1. /\ k \in Int /\ m \in Int
              /\ k \in 1..(Len(a) + Len(e)) /\ m \in 1..(Len(a) + Len(e))
              /\ k > Len(a) /\ k < m
          BY <1>0, <2>1, <3>0
        <4> QED BY <1>0, <4>1, PastFirst
      <3> HIDE DEF x, y
      <3>2. r[k] = e[x] /\ r[m] = e[y] /\ e[x] < e[y] /\ e[x] \in Nat /\ e[y] \in Nat
        BY <1>1, <1>2, <3>1 DEF Increasing
      <3> QED BY <1>3, <3>2
    <2>2. CASE ~(k > Len(a))
      <3>1. k \in 1..Len(a)
        BY <1>0, <2>2
      <3>2. PICK p \in DOMAIN w : k < p /\ w[p] = r[m]
        <4>1. CASE m <= Len(a)
          <5>1. m \in 1..Len(a) /\ m \in DOMAIN w
            BY <1>0, <1>3, <4>1
          <5> QED BY <1>1, <1>3, <5>1
        <4>2. CASE ~(m <= Len(a))
          <5> DEFINE y == m - Len(a)
                     p == Len(a) + Len(b) + y
          <5>1. y \in 1..Len(e) /\ m = Len(a) + y /\ p \in DOMAIN w /\ k < p
            BY <1>0, <1>3, <3>1, <4>2
          <5>2. w[p] = e[y] /\ r[m] = e[y]
            <6> HIDE DEF y
            <6> QED BY <1>1, <5>1
          <5> QED BY <5>1, <5>2
        <4> QED BY <4>1, <4>2
      <3>3. k \in DOMAIN w /\ w[k] = r[k]
        BY <1>0, <1>1, <3>1
      <3>4. PICK i \in DOMAIN w : i < k /\ w[i] = w[p]
        BY <1>3, <3>2, <3>3 DEF FirstsInOrder, w
      <3>5. i \in 1..Len(a) /\ i \in DOMAIN r
        BY <1>0, <3>1, <3>4
      <3> QED BY <1>1, <3>2, <3>4, <3>5
    <2> QED BY <2>1, <2>2
  <1> QED BY <1>3 DEF FirstsInOrder, r

\* A text e in order may be repeated: its lines have come already.
LEMMA EndRepeated ==
  ASSUME NEW S, NEW a \in Seq(S), NEW e \in Seq(S), S \subseteq Nat,
         FirstsInOrder(a \o e), Increasing(e)
  PROVE  FirstsInOrder((a \o e) \o e)
PROOF
  <1> DEFINE w == (a \o e) \o e
             r == a \o e
  <1>0. /\ Len(a) \in Nat /\ Len(e) \in Nat
        /\ DOMAIN w = 1..(Len(a) + Len(e) + Len(e)) /\ DOMAIN r = 1..(Len(a) + Len(e))
    BY Joined
  <1>1. /\ \A k \in 1..Len(a) : w[k] = a[k] /\ r[k] = a[k]
        /\ \A k \in 1..Len(e) : w[Len(a) + k] = e[k] /\ r[Len(a) + k] = e[k]
        /\ \A k \in 1..Len(e) : w[Len(a) + Len(e) + k] = e[k]
    BY Joined
  <1>2. DOMAIN e = 1..Len(e) /\ \A k \in 1..Len(e) : e[k] \in Nat
    <2>1. DOMAIN e = 1..Len(e) /\ \A k \in 1..Len(e) : e[k] \in S
      BY ElementsOf
    <2> QED BY <2>1
  <1> HIDE DEF r, w
  <1>3. ASSUME NEW k \in DOMAIN r PROVE k \in DOMAIN w /\ w[k] = r[k]
    <2>1. CASE k \in 1..Len(a)
      BY <1>0, <1>1, <2>1
    <2>2. CASE k \notin 1..Len(a)
      <3> DEFINE x == k - Len(a)
      <3>1. x \in 1..Len(e) /\ k = Len(a) + x /\ k \in DOMAIN w
        BY <1>0, <1>3, <2>2
      <3> HIDE DEF x
      <3> QED BY <1>1, <3>1
    <2> QED BY <2>1, <2>2
  <1>4. ASSUME NEW k \in DOMAIN w, NEW m \in DOMAIN w, k < m, w[m] < w[k]
        PROVE  \E i \in DOMAIN w : i < k /\ w[i] = w[m]
    <2>1. CASE m \in DOMAIN r
      <3>1. k \in DOMAIN r
        BY <1>0, <1>4, <2>1
      <3>2. PICK i \in DOMAIN r : i < k /\ r[i] = r[m]
        BY <1>3, <1>4, <2>1, <3>1 DEF FirstsInOrder, r
      <3> QED BY <1>3, <2>1, <3>2
    <2>2. CASE m \notin DOMAIN r
      <3> DEFINE y == m - Len(a) - Len(e)
                 p == Len(a) + y
      <3>1. /\ y \in 1..Len(e) /\ m = Len(a) + Len(e) + y /\ p \in DOMAIN r
            /\ p = Len(a) + y
        BY <1>0, <1>4, <2>2
      <3> HIDE DEF y, p
      <3>2. w[m] = e[y] /\ r[p] = e[y] /\ w[p] = e[y] /\ p \in DOMAIN w
        BY <1>1, <1>3, <3>1
      <3>3. CASE p < k
        BY <3>2, <3>3
      <3>4. CASE k < p
        <4>1. k \in DOMAIN r /\ r[k] = w[k]
          <5>1. k \in DOMAIN r
            BY <1>0, <1>4, <3>1, <3>4
          <5> QED BY <1>3, <5>1
        <4>2. PICK i \in DOMAIN r : i < k /\ r[i] = r[p]
          BY <1>4, <3>1, <3>2, <3>4, <4>1 DEF FirstsInOrder, r
        <4> QED BY <1>3, <3>2, <4>2
      <3>5. CASE k = p
        <4>1. e[y] \in Nat
          BY <1>2, <3>1
        <4> QED BY <1>4, <3>2, <3>5, <4>1
      <3>6. k \in Int /\ p \in Int
        BY <1>0, <1>4, <3>1
      <3> QED BY <3>3, <3>4, <3>5, <3>6
    <2> QED BY <2>1, <2>2
  <1> QED BY <1>4 DEF FirstsInOrder, w

\* Three sequences one after the other, and an empty one before or after another.
LEMMA OneAfterTheOther ==
  ASSUME NEW S, NEW a \in Seq(S), NEW b \in Seq(S), NEW e \in Seq(S)
  PROVE  a \o (b \o e) = (a \o b) \o e /\ <<>> \o e = e /\ e \o <<>> = e
PROOF BY ConcatAssociative, ConcatEmptySeq

\* The lines that are still in the program, and all lines, are lines that were logged.
LEMMA PendingType ==
  ASSUME LogTypeOK
  PROVE  /\ {file, batch[Main], buffer, held} \subseteq Seq(Lines)
         /\ batch[Main] \o buffer \in Seq(Lines) /\ Pending \in Seq(Lines)
         /\ file \o Pending \in Seq(Lines) /\ Lines \subseteq Nat
PROOF
  <1>1. {file, batch[Main], buffer, held} \subseteq Seq(Lines)
    BY MainFlushes DEF LogTypeOK
  <1>2. batch[Main] \o buffer \in Seq(Lines)
    BY <1>1, ConcatProperties
  <1>3. Pending \in Seq(Lines)
    BY <1>1, <1>2, ConcatProperties DEF Pending
  <1>4. file \o Pending \in Seq(Lines)
    BY <1>1, <1>3, ConcatProperties
  <1>5. Lines \subseteq Nat
    BY GroupAssumption DEF LogTypeOK, Lines
  <1> QED BY <1>1, <1>2, <1>3, <1>4, <1>5

\* With no batch and nothing in the buffer, the lines in the program are those held.
LEMMA HeldAlone ==
  ASSUME LogTypeOK, batch[Main] = <<>>, buffer = <<>>
  PROVE  Pending = held
PROOF
  <1>1. <<>> \o <<>> = <<>> /\ <<>> \o held = held
    BY PendingType, ConcatEmptySeq
  <1> QED BY <1>1 DEF Pending

\* Swapping the buffer out leaves the lines in their order.
LEMMA SwapKeepsOrder ==
  ASSUME LogTypeOK, batch[Main] = <<>>, SwapOut(Main), held' = held
  PROVE  Pending' = Pending
PROOF
  <1>1. batch'[Main] = buffer /\ buffer' = <<>>
    BY MainFlushes DEF SwapOut, LogTypeOK
  <1>2. <<>> \o buffer = buffer /\ buffer \o <<>> = buffer
    BY PendingType, ConcatEmptySeq
  <1> QED BY <1>1, <1>2 DEF Pending

\* Of the lines in the program those at the front get into the file, or are lost.
LEMMA FrontKeepsOrder ==
  ASSUME LogTypeOK, NEW b \in Seq(Lines), NEW e \in Seq(Lines),
         Pending = b \o e, Pending' = e,
         file' = file \o b \/ file' = file,
         Increasing(Pending), FirstsInOrder(file \o Pending)
  PROVE  Increasing(Pending') /\ FirstsInOrder(file' \o Pending')
PROOF
  <1>1. file \in Seq(Lines) /\ Lines \subseteq Nat
    BY PendingType
  <1>2. file \o (b \o e) = (file \o b) \o e
    BY <1>1, OneAfterTheOther
  <1>3. Increasing(e)
    <2> DEFINE w == b \o e
    <2>1. /\ Len(b) \in Nat /\ Len(e) \in Nat /\ DOMAIN e = 1..Len(e)
          /\ DOMAIN w = 1..(Len(b) + Len(e))
          /\ \A k \in 1..Len(e) : w[Len(b) + k] = e[k]
      <3>1. <<>> \in Seq(Lines) /\ (b \o <<>>) \o e = b \o e
        BY ConcatEmptySeq
      <3> QED BY <3>1, Joined, ElementsOf
    <2> HIDE DEF w
    <2>2. ASSUME NEW k \in DOMAIN e, NEW m \in DOMAIN e, k < m PROVE e[k] < e[m]
      <3>1. Len(b) + k \in DOMAIN w /\ Len(b) + m \in DOMAIN w /\ Len(b) + k < Len(b) + m
        BY <2>1, <2>2
      <3>2. w[Len(b) + k] < w[Len(b) + m]
        BY <3>1 DEF Increasing, w
      <3> QED BY <2>1, <3>2
    <2> QED BY <2>2 DEF Increasing
  <1>4. FirstsInOrder((file \o b) \o e)
    BY <1>2
  <1>5. FirstsInOrder(file \o e)
    BY <1>1, <1>3, <1>4, MiddleLost
  <1> QED BY <1>3, <1>4, <1>5

\* main rolls a batch.
LEMMA RollKeepsOrder ==
  ASSUME LogTypeOK, NEW threw \in BOOLEAN, RollBatch(Main, threw), buffer = <<>>,
         Increasing(Pending), FirstsInOrder(file \o Pending)
  PROVE  Increasing(Pending') /\ FirstsInOrder(file' \o Pending')
PROOF
  <1>1. /\ batch'[Main] = <<>> /\ held' = held /\ buffer' = <<>>
        /\ file' = file \o batch[Main] \/ file' = file
    BY MainFlushes, RollEffect DEF LogTypeOK
  <1>2. batch[Main] \in Seq(Lines) /\ held \in Seq(Lines)
    BY PendingType
  <1>3. Pending = batch[Main] \o held
    BY <1>2, ConcatEmptySeq DEF Pending
  <1>4. Pending' = held
    BY <1>1, <1>2, ConcatEmptySeq DEF Pending
  <1> QED BY <1>1, <1>2, <1>3, <1>4, FrontKeepsOrder

\* main's stream hands its text on.
LEMMA StreamKeepsOrder ==
  ASSUME GroupInv, InOrder, NEW t \in Writers, WritePush(t) \/ WriteRoll(t)
  PROVE  InOrder'
PROOF
  <1> SUFFICES ASSUME ~others'
               PROVE  Increasing(Pending') /\ FirstsInOrder(file' \o Pending')
    BY DEF InOrder
  <1>t. LogTypeOK /\ AloneInv
    BY DEF GroupInv
  <1>1. /\ others' = others /\ batch' = batch /\ ~others
        /\ Increasing(Pending) /\ FirstsInOrder(file \o Pending)
    BY DEF WritePush, WriteRoll, InOrder
  <1>2. {file, batch[Main], buffer, held} \subseteq Seq(Lines) /\ Lines \subseteq Nat
    BY <1>t, PendingType
  <1>3. CASE WritePush(t)
    <2>1. buffer' = buffer \o held /\ held' = <<>> /\ file' = file
      BY <1>3 DEF WritePush
    <2> DEFINE b == batch[Main]
    <2>2. b \in Seq(Lines) /\ buffer \in Seq(Lines) /\ held \in Seq(Lines)
      BY <1>2
    <2>3. Pending = (b \o buffer) \o held /\ Pending' = (b \o (buffer \o held)) \o <<>>
      BY <1>1, <2>1 DEF Pending
    <2> HIDE DEF b
    <2>4. buffer \o held \in Seq(Lines) /\ b \o (buffer \o held) \in Seq(Lines)
      BY <2>2, ConcatProperties
    <2>5. Pending' = Pending
      BY <2>2, <2>3, <2>4, ConcatEmptySeq, ConcatAssociative
    <2> QED BY <1>1, <2>1, <2>5
  <1>4. CASE WriteRoll(t)
    <2>1. batch[Main] = <<>> /\ buffer = <<>> /\ buffer' = <<>> /\ batch'[Main] = <<>>
      <3>1. writing[t] = "roll" /\ UNCHANGED <<buffer, batch>>
        BY <1>4 DEF WriteRoll
      <3>2. step = "run" /\ ~rollGroup
        BY <1>t, <1>1, <3>1 DEF AloneInv
      <3> QED BY <1>t, <1>1, <3>1, <3>2 DEF LogTypeOK, AloneInv
    <2>2. Pending = held
      BY <1>t, <2>1, HeldAlone
    <2>3. held' \in Seq(Lines) /\ Pending' = held'
      <3>1. held' = held \/ held' = <<>>
        BY <1>4 DEF WriteRoll
      <3>2. held' \in Seq(Lines)
        <4>1. <<>> \in Seq(Lines)
          OBVIOUS
        <4> QED BY <1>2, <3>1, <4>1
      <3>3. <<>> \o <<>> = <<>> /\ <<>> \o held' = held'
        BY <3>2, OneAfterTheOther
      <3> QED BY <2>1, <3>2, <3>3 DEF Pending
    <2>4. CASE held' = <<>> /\ (file' = file \o held \/ file' = file)
      <3>1. Pending = held \o <<>> /\ <<>> \in Seq(Lines)
        BY <1>2, <2>2, ConcatEmptySeq
      <3> QED BY <1>t, <1>1, <1>2, <2>3, <2>4, <3>1, FrontKeepsOrder
    <2>5. CASE held' = held /\ file' = file
      BY <1>1, <2>2, <2>3, <2>5
    <2>6. CASE held' = held /\ file' = file \o held
      BY <1>1, <1>2, <2>2, <2>3, <2>6, EndRepeated
    <2> QED BY <1>4, <2>4, <2>5, <2>6 DEF WriteRoll, RollOut
  <1> QED BY <1>3, <1>4

\* main logs a line, the youngest of all.
LEMMA LineKeepsOrder ==
  ASSUME GroupInv, InOrder, NEW t \in Writers, WriteLine(t)
  PROVE  InOrder'
PROOF
  <1> SUFFICES ASSUME ~others'
               PROVE  Increasing(Pending') /\ FirstsInOrder(file' \o Pending')
    BY DEF InOrder
  <1> DEFINE x == logged + 1
  <1>1. /\ ~others /\ held' = Append(held, x) /\ UNCHANGED <<file, batch, buffer>>
        /\ Increasing(Pending) /\ FirstsInOrder(file \o Pending)
    BY DEF WriteLine, InOrder
  <1>2. logged \in Nat /\ Lines = 1..logged /\ x \in Nat /\ 1..logged \subseteq Nat
    BY GroupAssumption DEF GroupInv, LogTypeOK, Lines
  <1>3. /\ batch[Main] \o buffer \in Seq(1..logged) /\ held \in Seq(1..logged)
        /\ file \in Seq(1..logged) /\ Pending \in Seq(1..logged)
        /\ file \o Pending \in Seq(1..logged)
    BY <1>2, PendingType DEF GroupInv
  <1>4. /\ batch[Main] \o buffer \in Seq(Nat) /\ held \in Seq(Nat)
        /\ file \in Seq(Nat) /\ Pending \in Seq(Nat) /\ file \o Pending \in Seq(Nat)
    BY <1>2, <1>3, SequencesGrow
  <1>5. ASSUME NEW a \in Seq(Nat), NEW s \in Seq(Nat), a \o s \in Seq(Nat)
        PROVE  a \o Append(s, x) = Append(a \o s, x)
    <2> HIDE DEF x
    <2>1. x \in Nat
      BY <1>2
    <2>2. Append(s, x) = s \o <<x>> /\ Append(a \o s, x) = (a \o s) \o <<x>>
      BY <1>5, <2>1, AppendIsConcat
    <2>3. <<x>> \in Seq(Nat)
      BY <2>1
    <2> QED BY <1>5, <2>2, <2>3, OneAfterTheOther
  <1>6. Pending' = Append(Pending, x)
    BY <1>1, <1>4, <1>5 DEF Pending
  <1>7. file' \o Pending' = Append(file \o Pending, x)
    BY <1>1, <1>4, <1>5, <1>6
  <1> QED BY <1>1, <1>2, <1>3, <1>6, <1>7, AppendIncreasing, AppendFirsts

\* Every step keeps the order, or is not main's alone.
LEMMA NextKeepsOrder == GroupInv /\ InOrder /\ [LogNext]_allVars => InOrder'
PROOF
  <1> SUFFICES ASSUME GroupInv, InOrder, [LogNext]_allVars PROVE InOrder'
    OBVIOUS
  <1>t. LogTypeOK /\ AloneInv
    BY DEF GroupInv
  <1>1. CASE UNCHANGED <<held, buffer, batch, file>> /\ (others => others')
    BY <1>1 DEF InOrder, Pending
  <1>2. CASE GroupFlush \/ OwnFlush
    <2>1. batch[Main] = <<>>
      BY <1>2, <1>t DEF GroupFlush, OwnFlush, LogTypeOK
    <2>2. /\ UNCHANGED <<held, file, others>>
          /\ SwapOut(Main) \/ UNCHANGED <<buffer, batch>>
      BY <1>2 DEF GroupFlush, OwnFlush, writerVars
    <2>3. CASE SwapOut(Main)
      BY <1>t, <2>1, <2>2, <2>3, SwapKeepsOrder DEF InOrder
    <2> QED BY <1>1, <2>2, <2>3
  <1>3. CASE GroupRoll \/ OwnRoll
    <2>1. PICK threw \in BOOLEAN : RollBatch(Main, threw)
      BY <1>3 DEF GroupRoll, OwnRoll
    <2>2. others' = others
      BY <1>3 DEF GroupRoll, OwnRoll, writerVars
    <2>3. ~others => buffer = <<>>
      BY <1>3, <1>t DEF GroupRoll, OwnRoll, AloneInv
    <2> QED BY <1>t, <2>1, <2>2, <2>3, RollKeepsOrder DEF InOrder
  <1>4. ASSUME NEW t \in Flushers, FlusherSwap(t) \/ FlusherRoll(t) PROVE InOrder'
    BY <1>4, <1>t DEF FlusherSwap, FlusherRoll, AloneInv, InOrder, writerVars
  <1>5. ASSUME NEW t \in Writers, Write(t) PROVE InOrder'
    BY <1>5, LineKeepsOrder, StreamKeepsOrder DEF Write
  <1>6. CASE \/ SetLogInfo \/ Unset \/ Unregister \/ Unlink \/ Register \/ Insert
             \/ Term \/ DestructorLock \/ DestructorStop \/ DestructorUnlock
             \/ Leave \/ \E mode \in {"sync", "async"} : CallSync(mode)
             \/ \E t \in Writers : CallLog(t)
             \/ \E t \in Threads : TakeFile(t)
    <2>1. UNCHANGED <<held, buffer, batch, file>>
      BY <1>6 DEF SetLogInfo, Unset, Unregister, Unlink, Register, Insert, Term,
         DestructorLock, DestructorStop, DestructorUnlock, Leave, CallSync, CallLog,
         TakeFile, rollVars
    <2>2. CASE \E t \in Writers : CallLog(t)
      BY <1>1, <2>1, <2>2 DEF CallLog
    <2>3. CASE ~\E t \in Writers : CallLog(t)
      <3>1. UNCHANGED others
        BY <1>6, <2>3 DEF SetLogInfo, Unset, Unregister, Unlink, Register, Insert, Term,
           DestructorLock, DestructorStop, DestructorUnlock, Leave, CallSync, TakeFile,
           writerVars
      <3> QED BY <1>1, <2>1, <3>1
    <2> QED BY <2>2, <2>3
  <1>7. CASE MainInPool \/ \E w \in Workers : Run(w) \/ WorkerInPool(w)
    BY <1>1, <1>7, WorkerGroup DEF rollVars, writerVars
  <1>8. CASE UNCHANGED allVars
    BY <1>1, <1>8 DEF allVars, logVars, rollVars, writerVars
  <1> QED BY <1>2, <1>3, <1>4, <1>5, <1>6, <1>7, <1>8 DEF LogNext, MainStep

\* As long as main alone logs and flushes, whatever fails: the lines that are still in the
\* program are in the order in which they were logged, and a line in the file is behind a
\* younger one only as the repetition of one that came in its place.
THEOREM LinesInOrder == LogSpec => []InOrder
PROOF
  <1>1. LogInit => InOrder
    <2> SUFFICES ASSUME LogInit PROVE Increasing(Pending) /\ FirstsInOrder(file \o Pending)
      BY DEF InOrder
    <2>1. Pending = <<>> /\ file \o Pending = <<>>
      BY MainFlushes DEF Pending, LogInit
    <2> QED BY <2>1 DEF Increasing, FirstsInOrder
  <1> QED BY <1>1, InitGroup, NextGroup, NextKeepsOrder, PTL DEF LogSpec
=============================================================================
