----------------------------- MODULE LoggerGroup -----------------------------
(***************************************************************************)
(* The asynchronous logger: YRRollLogger (YRLogger.cpp) with its roll      *)
(* (YR_LoggerRoll), its stream buffer and its thread group                 *)
(* (YR_LoggerThreadGroup, util/YR_Logger.cpp), on top of ThreadPool.       *)
(*                                                                         *)
(* The main thread calls setLogInfo, then logs and switches between        *)
(* synchronous and asynchronous writing as it likes, then runs the         *)
(* group's destructor, as a program does that returns from main().  Other  *)
(* threads log, or flush the roll.  The workers of the group's pool run    *)
(* YR_LoggerThreadGroup::run, the job of this pool.                        *)
(***************************************************************************)
EXTENDS ThreadPool

CONSTANTS
  Main,        \* the main thread
  Writers,     \* the threads that log, Main perhaps among them
  Flushers,    \* threads that call flush() of the roll or of the group by themselves
  MaxLines,    \* bound: lines logged when other threads log or flush
  MaxAlone,    \* bound: lines logged as long as only main does
  MaySwitch,   \* does the program call sync() after setLogInfo?
  RollMayFail  \* may roll() be refused a write, or a file before or after it writes?

Flushing == Flushers \cup {Main}
Threads == Writers \cup Flushing

\* A thread that logs and flushes is two here.  When no thread is to be had the program
\* ends: setLogInfo lets the exception out of main().
ASSUME GroupAssumption ==
  /\ Waiters = {Main} /\ Main \notin Flushers /\ Flushers \cap Writers = {}
  /\ AskingJobs = {} /\ Controls = AllControls /\ Sizes = {MaxThreads} /\ ~CreateFails
  /\ MaySwitch \in BOOLEAN /\ RollMayFail \in BOOLEAN /\ MaxLines \in Nat /\ MaxAlone \in Nat
  /\ Threads \cap {"held", "buffer", "file", "free", "worker"} = {}

VARIABLES
  step,        \* the statement of the main thread that comes next
  goal,        \* what unSetupThread or flush was called for
  grpOwner,    \* holder of the group's mutex: "free", "worker" or a thread that flushes
  grpTerm,     \* _bTerminate of the group
  registered,  \* the roll is in the group's set _logger
  rollGroup,   \* _pThreadGroup of the roll is set
  held,        \* what LoggerBuffer holds
  buffer,      \* _buffer of the roll
  batch,       \* what a flush() has swapped out and not yet rolled
  file,        \* the lines in the log file
  fileOwner,   \* holder of the mutex of YR_RollBySize, or "free"
  writing,     \* where each writer is inside a LoggerStream's destructor
  body,        \* where each worker is inside run()
  logged,      \* history: lines logged; a line goes by its number
  others,      \* history: a thread other than main has logged or flushed
  lost,        \* history: lines of batches that could not be rolled
  repeated     \* history: lines held after they have been written

mainVars == <<step, goal>>
grpVars == <<grpOwner, grpTerm, registered, body>>
rollVars == <<rollGroup, held, buffer, batch, file, fileOwner, lost, repeated>>
writerVars == <<writing, logged, others>>
logVars == <<mainVars, grpVars, rollVars, writerVars>>
allVars == <<vars, logVars>>

Lines == 1..logged

\* The workers that hold the group's mutex.
Holding == {w \in Workers : body[w] \in {"locked", "flush"}}

\* Types, and who holds what between two actions: main keeps the group's mutex while the
\* roll is flushed and from the middle of the destructor on, one worker at most has it,
\* and a batch exists while it is rolled.
LogTypeOK ==
  /\ step \in {"init", "start", "exec", "unset", "groupFlush", "groupRoll", "unregister",
               "unlink", "ownFlush", "ownRoll", "register", "insert", "run", "term",
               "lock", "stop", "wait", "unlock", "end"}
  /\ goal \in {"async", "sync", "exit"}
  /\ grpOwner \in {"free", "worker"} \cup Flushing
  /\ grpOwner = Main <=> step \in {"groupRoll", "stop", "wait", "unlock"}
  /\ \A w \in Holding : grpOwner = "worker" /\ Holding = {w}
  /\ grpTerm \in BOOLEAN /\ registered \in BOOLEAN /\ rollGroup \in BOOLEAN
  /\ {held, buffer, file} \subseteq Seq(Lines)
  /\ batch \in [Flushing -> Seq(Lines)]
  /\ batch[Main] # <<>> <=> step \in {"groupRoll", "ownRoll"}
  /\ fileOwner \in {"free"} \cup Threads
  /\ writing \in [Writers -> {"out", "lock", "push", "roll"}]
  /\ body \in [Workers -> {"test", "enter", "locked", "asleep", "awake", "flush"}]
  /\ logged \in Nat /\ others \in BOOLEAN
  /\ lost \subseteq Lines /\ repeated \subseteq Lines

LogInit ==
  /\ Init
  /\ step = "init" /\ goal = "async"
  /\ grpOwner = "free" /\ grpTerm = FALSE /\ registered = FALSE /\ rollGroup = FALSE
  /\ held = <<>> /\ buffer = <<>> /\ file = <<>>
  /\ batch = [t \in Flushing |-> <<>>] /\ fileOwner = "free"
  /\ writing = [t \in Writers |-> "out"]
  /\ body = [w \in Workers |-> "test"]
  /\ logged = 0 /\ others = FALSE /\ lost = {} /\ repeated = {}
-----------------------------------------------------------------------------
(* YR_LoggerRoll *)

\* Mutated forms: swap leaving the buffer as it was; a roll that writes the newest
\* line first; setupThread that comes to no insertion into the set; run() with lock()
\* and unlock() by hand, which leaves the mutex locked when flush() throws.
SwapOutCopying(t) ==
  batch' = [batch EXCEPT ![t] = buffer] /\ UNCHANGED buffer
RollOutBackwards(s) ==
  \/ file' = Reverse(s) \o file /\ UNCHANGED lost
  \/ RollMayFail /\ lost' = lost \cup ToSet(s) /\ UNCHANGED file
RegisterNowhere ==
  /\ step = "register"
  /\ rollGroup' = TRUE /\ step' = "run"
  /\ UNCHANGED <<vars, goal, grpVars, held, buffer, batch, file, fileOwner, lost,
                 repeated, writerVars>>
RunFlushKeeping(w) ==
  /\ pc[w] = "busy" /\ body[w] = "flush"
  /\ body' = [body EXCEPT ![w] = "test"] /\ RunJob(w)
  /\ UNCHANGED <<mainVars, grpOwner, grpTerm, registered, rollVars, writerVars>>

\* flush(): everything is swapped out of the buffer ...
SwapOut(t) == batch' = [batch EXCEPT ![t] = buffer] /\ buffer' = <<>>

\* ... and then rolled, with the mutex of YR_RollBySize, for which threads compete.
Rolls(t) ==
  \/ t \in Writers /\ writing[t] = "roll"
  \/ t \in Flushing /\ batch[t] # <<>>
TakeFile(t) ==
  /\ Rolls(t) /\ fileOwner = "free"
  /\ fileOwner' = t
  /\ UNCHANGED <<vars, mainVars, grpVars, rollGroup, held, buffer, batch, file, lost,
                 repeated, writerVars>>

\* A text gets into the file, or is lost without a sign when the stream is in an error
\* state.  The lines of a batch go one way.
RollOut(s) ==
  \/ file' = file \o s /\ UNCHANGED lost
  \/ RollMayFail /\ lost' = lost \cup ToSet(s) /\ UNCHANGED file

\* roll() throws when it cannot open its file, when nothing has been written, and also
\* when it cannot open the next one after it has written the batch.
RollThrows(s) == RollMayFail /\ RollOut(s)

RollBatch(t, threw) ==
  /\ fileOwner = t /\ fileOwner' = "free"
  /\ IF threw THEN RollThrows(batch[t]) ELSE RollOut(batch[t])
  /\ batch' = [batch EXCEPT ![t] = <<>>]
  /\ UNCHANGED <<rollGroup, held, buffer, repeated>>

\* The destructor of a LoggerStream that has something to log ...
Asking == {t \in Writers : writing[t] = "lock"}
CallLog(t) ==
  /\ writing[t] = "out"
  /\ logged + Cardinality(Asking) < IF others \/ t # Main THEN MaxLines ELSE MaxAlone
  /\ IF t = Main THEN step = "run" ELSE step \notin {"init", "start", "exec", "end"}
  /\ writing' = [writing EXCEPT ![t] = "lock"]
  /\ others' = (others \/ t # Main)
  /\ UNCHANGED <<vars, mainVars, grpVars, rollVars, logged>>

\* ... takes the logger's m_mutex, which it keeps, and puts the line into LoggerBuffer,
\* whose sync() calls write(), which looks at _pThreadGroup.
WriteLine(t) ==
  /\ writing[t] = "lock" /\ \A u \in Writers : writing[u] \in {"out", "lock"}
  /\ logged' = logged + 1
  /\ held' = Append(held, logged')
  /\ writing' = [writing EXCEPT ![t] = IF rollGroup THEN "push" ELSE "roll"]
  /\ UNCHANGED <<vars, mainVars, grpVars, rollGroup, buffer, batch, file, fileOwner,
                 lost, repeated, others>>

WritePush(t) ==
  /\ writing[t] = "push"
  /\ buffer' = buffer \o held /\ held' = <<>>
  /\ writing' = [writing EXCEPT ![t] = "out"]
  /\ UNCHANGED <<vars, mainVars, grpVars, rollGroup, batch, file, fileOwner, lost,
                 repeated, logged, others>>

\* When roll() throws, sync() does not come to reset the stream buffer, whether the
\* text has been written or not.
WriteRoll(t) ==
  /\ writing[t] = "roll" /\ fileOwner = t
  /\ \/ RollOut(held) /\ held' = <<>> /\ UNCHANGED repeated
     \/ RollMayFail /\ UNCHANGED <<file, held, lost, repeated>>
     \/ /\ RollMayFail /\ file' = file \o held /\ repeated' = repeated \cup ToSet(held)
        /\ UNCHANGED <<held, lost>>
  /\ writing' = [writing EXCEPT ![t] = "out"] /\ fileOwner' = "free"
  /\ UNCHANGED <<vars, mainVars, grpVars, rollGroup, buffer, batch, logged, others>>

Write(t) == WriteLine(t) \/ WritePush(t) \/ WriteRoll(t)

\* Another thread calls flush() of the roll, or that of the group, which keeps the
\* group's mutex until the roll is flushed.  The group's is not called any more when
\* its destructor has begun.
FlusherSwap(t) ==
  /\ batch[t] = <<>> /\ buffer # <<>> /\ step # "end" /\ (others \/ logged <= MaxLines)
  /\ \/ UNCHANGED grpOwner
     \/ goal # "exit" /\ registered /\ grpOwner = "free" /\ grpOwner' = t
  /\ SwapOut(t) /\ others' = TRUE
  /\ UNCHANGED <<vars, mainVars, grpTerm, registered, body, rollGroup, held, file,
                 fileOwner, lost, repeated, writing, logged>>
FlusherRoll(t) ==
  /\ batch[t] # <<>>
  /\ \E threw \in BOOLEAN : RollBatch(t, threw)
  /\ grpOwner' = IF grpOwner = t THEN "free" ELSE grpOwner
  /\ UNCHANGED <<vars, mainVars, grpTerm, registered, body, writerVars>>
-----------------------------------------------------------------------------
(* The main thread *)

\* A statement that calls the pool begins when the pool call before it has returned.
PoolCall(now, next) ==
  /\ step = now /\ ctl = "free" /\ at[Main] = "out"
  /\ step' = next

\* setLogInfo: YR_LoggerThreadGroup::start inits and starts the pool and gives it
\* one job per thread.
SetLogInfo ==
  /\ \/ PoolCall("init", "start") /\ CallStop("init")
     \/ PoolCall("start", "exec") /\ CallStart
     \/ \E j \in Jobs : PoolCall("exec", IF fresh = {j} THEN "unset" ELSE "exec") /\ Exec(j)
  /\ UNCHANGED <<goal, grpVars, rollVars, writerVars>>

\* sync(false) is setupThread, which begins like sync(true) with unSetupThread.  Both
\* hold _mutex of the roll, which nobody else takes.
Idle == Main \in Writers => writing[Main] = "out"
CallSync(mode) ==
  /\ MaySwitch /\ step = "run" /\ Idle
  /\ goal' = mode /\ step' = "unset"
  /\ UNCHANGED <<vars, grpVars, rollVars, writerVars>>

Unset ==
  /\ step = "unset"
  /\ step' = IF rollGroup THEN "groupFlush" ELSE "ownFlush"
  /\ UNCHANGED <<vars, goal, grpVars, rollVars, writerVars>>

\* flush() of the group, for unSetupThread or for the destructor: the group's mutex
\* is held while the registered roll is flushed.
Flushed == IF goal = "exit" THEN "term" ELSE "unregister"
GroupFlush ==
  /\ step = "groupFlush" /\ grpOwner = "free"
  /\ IF registered /\ buffer # <<>>
     THEN grpOwner' = Main /\ SwapOut(Main) /\ step' = "groupRoll"
     ELSE step' = Flushed /\ UNCHANGED <<grpOwner, buffer, batch>>
  /\ UNCHANGED <<vars, goal, grpTerm, registered, body, rollGroup, held, file,
                 fileOwner, lost, repeated, writerVars>>

\* An exception of roll() is swallowed here.
GroupRoll ==
  /\ step = "groupRoll"
  /\ \E threw \in BOOLEAN : RollBatch(Main, threw)
  /\ grpOwner' = "free" /\ step' = Flushed
  /\ UNCHANGED <<vars, goal, grpTerm, registered, body, writerVars>>

Unregister ==
  /\ step = "unregister" /\ grpOwner = "free"
  /\ registered' = FALSE /\ step' = "unlink"
  /\ UNCHANGED <<vars, goal, grpOwner, grpTerm, body, rollVars, writerVars>>
Unlink ==
  /\ step = "unlink"
  /\ rollGroup' = FALSE /\ step' = "ownFlush"
  /\ UNCHANGED <<vars, goal, grpVars, held, buffer, batch, file, fileOwner, lost,
                 repeated, writerVars>>

Unsetup == IF goal = "async" THEN "register" ELSE "run"
OwnFlush ==
  /\ step = "ownFlush"
  /\ IF buffer # <<>> THEN SwapOut(Main) /\ step' = "ownRoll"
     ELSE step' = Unsetup /\ UNCHANGED <<buffer, batch>>
  /\ UNCHANGED <<vars, goal, grpVars, rollGroup, held, file, fileOwner, lost, repeated,
                 writerVars>>

\* Here an exception of roll() leaves sync().
OwnRoll ==
  /\ step = "ownRoll"
  /\ \E threw \in BOOLEAN : RollBatch(Main, threw) /\ step' = IF threw THEN "run" ELSE Unsetup
  /\ UNCHANGED <<vars, goal, grpVars, writerVars>>

Register ==
  /\ step = "register"
  /\ rollGroup' = TRUE /\ step' = "insert"
  /\ UNCHANGED <<vars, goal, grpVars, held, buffer, batch, file, fileOwner, lost,
                 repeated, writerVars>>
Insert ==
  /\ step = "insert" /\ grpOwner = "free"
  /\ registered' = TRUE /\ step' = "run"
  /\ UNCHANGED <<vars, goal, grpOwner, grpTerm, body, rollVars, writerVars>>

\* The destructor of the group: flush, _bTerminate, then the mutex, kept to the end.
\* Its notifyAll would be passed on when the mutex is let go.
Leave ==
  /\ step = "run" /\ Idle
  /\ goal' = "exit" /\ step' = "groupFlush"
  /\ UNCHANGED <<vars, grpVars, rollVars, writerVars>>
Term ==
  /\ step = "term"
  /\ grpTerm' = TRUE /\ step' = "lock"
  /\ UNCHANGED <<vars, goal, grpOwner, registered, body, rollVars, writerVars>>
DestructorLock ==
  /\ step = "lock" /\ grpOwner = "free"
  /\ grpOwner' = Main /\ step' = "stop"
  /\ UNCHANGED <<vars, goal, grpTerm, registered, body, rollVars, writerVars>>
DestructorStop ==
  /\ \/ PoolCall("stop", "wait") /\ CallStop("none")
     \/ PoolCall("wait", "unlock") /\ WaitCall(Main, FALSE)
  /\ UNCHANGED <<goal, grpVars, rollVars, writerVars>>
DestructorUnlock ==
  /\ PoolCall("unlock", "end") /\ CallStop("destroy")
  /\ grpOwner' = "free"
  /\ UNCHANGED <<goal, grpTerm, registered, body, rollVars, writerVars>>

MainStep ==
  \/ SetLogInfo \/ Unset \/ GroupFlush \/ GroupRoll \/ Unregister \/ Unlink
  \/ OwnFlush \/ OwnRoll \/ Register \/ Insert
  \/ Term \/ DestructorLock \/ DestructorStop \/ DestructorUnlock
-----------------------------------------------------------------------------
(* YR_LoggerThreadGroup::run, in a worker of the pool *)

BodyAt(w, place) == pc[w] = "busy" /\ body[w] = place
Body(w, place) == body' = [body EXCEPT ![w] = place]

RunTest(w) ==
  /\ BodyAt(w, "test")
  /\ IF grpTerm THEN RunJob(w) /\ UNCHANGED body ELSE Body(w, "enter") /\ UNCHANGED vars
  /\ UNCHANGED <<mainVars, grpOwner, grpTerm, registered, rollVars, writerVars>>

\* Lock, and timeWait(100), which lets the mutex go and has it again when it returns.
RunLock(w) ==
  /\ BodyAt(w, "enter") /\ grpOwner = "free"
  /\ Body(w, "locked") /\ grpOwner' = "worker"
  /\ UNCHANGED <<vars, mainVars, grpTerm, registered, rollVars, writerVars>>

RunSleep(w) ==
  /\ BodyAt(w, "locked")
  /\ Body(w, "asleep") /\ grpOwner' = "free"
  /\ UNCHANGED <<vars, mainVars, grpTerm, registered, rollVars, writerVars>>

RunWake(w) ==
  /\ BodyAt(w, "asleep")
  /\ Body(w, "awake")
  /\ UNCHANGED <<vars, mainVars, grpOwner, grpTerm, registered, rollVars, writerVars>>

RunRegain(w) ==
  /\ BodyAt(w, "awake") /\ grpOwner = "free"
  /\ Body(w, "flush") /\ grpOwner' = "worker"
  /\ UNCHANGED <<vars, mainVars, grpTerm, registered, rollVars, writerVars>>

\* The mutex is held when flush() locks it: pthread_mutex_lock answers EDEADLK, lock()
\* throws, the guard of run() unlocks, and the pool swallows the exception.
RunFlush(w) ==
  /\ BodyAt(w, "flush")
  /\ Body(w, "test") /\ RunJob(w) /\ grpOwner' = "free"
  /\ UNCHANGED <<mainVars, grpTerm, registered, rollVars, writerVars>>

Run(w) ==
  RunTest(w) \/ RunLock(w) \/ RunSleep(w) \/ RunWake(w) \/ RunRegain(w) \/ RunFlush(w)

\* The steps of the pool itself, by main inside one of its calls and by a worker.
MainInPool ==
  /\ \/ ControlStep
     \/ CheckStartQueue(Main) \/ CheckJobQueue(Main) \/ CheckBusy(Main)
     \/ \E timedOut \in BOOLEAN : WakeUp(Main, timedOut)
  /\ UNCHANGED logVars
WorkerInPool(w) == (FreeStep(w) \/ MarkBusy(w) \/ GoIdle(w)) /\ UNCHANGED logVars

LogNext ==
  \/ MainStep
  \/ \E mode \in {"sync", "async"} : CallSync(mode)
  \/ Leave
  \/ \E t \in Writers : CallLog(t) \/ Write(t)
  \/ \E t \in Flushers : FlusherSwap(t) \/ FlusherRoll(t)
  \/ \E t \in Threads : TakeFile(t)
  \/ MainInPool
  \/ \E w \in Workers : Run(w) \/ WorkerInPool(w)

LogSpec == LogInit /\ [][LogNext]_allVars

\* What a thread does next once it has begun something.
ThreadStep(t) ==
  \/ t = Main /\ (MainStep \/ MainInPool)
  \/ t \in Writers /\ Write(t)
  \/ t \in Flushers /\ FlusherRoll(t)
  \/ TakeFile(t)
WorkerStep(w) == Run(w) \/ WorkerInPool(w)

\* Threads are scheduled, deadlines pass, and a thread that asks for a mutex, which
\* others take and let go again and again, gets it in the end (strong fairness).  Nobody
\* is obliged to log, to flush, to call sync() or to leave main().
LogFairSpec ==
  /\ LogSpec
  /\ \A t \in Threads : SF_allVars(ThreadStep(t))
  /\ \A w \in Workers : SF_allVars(WorkerStep(w))
-----------------------------------------------------------------------------
\* A line that was logged is in one place: held, buffered, in one batch, in the file,
\* or lost with a batch.  However many threads write, flush and switch at once, none
\* disappears, and none is doubled but those that roll() wrote before it threw.
Stores == {"held", "buffer", "file"} \cup Flushing
Content ==
  [p \in Stores |-> CASE p = "held" -> held
                      [] p = "buffer" -> buffer
                      [] p = "file" -> file
                      [] OTHER -> batch[p]]
Stored == UNION {ToSet(Content[p]) : p \in Stores}
OnlyOnce ==
  \A p, q \in Stores : \A k \in DOMAIN Content[p], m \in DOMAIN Content[q] :
    Content[p][k] = Content[q][m] => Content[p][k] \in repeated \/ (p = q /\ k = m)
LineInOnePlace == Stored = (Lines \ lost) \cup repeated /\ OnlyOnce

\* As long as only the main thread logs and flushes, the lines that are still in the
\* program are in the order in which they were logged, and in the file and after it a
\* line is behind a younger one only as the repetition of one that came in its place:
\* the order in which the lines come first is never broken, whatever steps a flush is
\* made of, whatever fails and however often the mode is switched.  (When roll() throws
\* after it has written, the text that sync() kept is written again.)
Increasing(s) == \A k, m \in DOMAIN s : k < m => s[k] < s[m]
FirstsInOrder(s) ==
  \A k, m \in DOMAIN s : k < m /\ s[m] < s[k] => \E i \in DOMAIN s : i < k /\ s[i] = s[m]
Pending == batch[Main] \o buffer \o held
InOrder == ~others => Increasing(Pending) /\ FirstsInOrder(file \o Pending)

\* When sync(true) has returned, and when the destructor goes on to stop the pool, no
\* line is left in the roll's memory, when main alone has logged.
SyncReturned == step = "run" /\ ~rollGroup
GroupFlushed == step \in {"term", "lock", "stop", "wait", "unlock", "end"}
NothingLeftBehind ==
  ~others /\ (SyncReturned \/ GroupFlushed) => buffer = <<>> /\ batch[Main] = <<>>

\* Logging, flush(), sync() and setLogInfo() return, and the group's destructor comes as
\* far as its lock, although writers, flushers, main and the workers compete for three
\* mutexes and take one inside the other.
LoggingReturns ==
  /\ \A t \in Writers : writing[t] # "out" ~> writing[t] = "out"
  /\ \A t \in Flushers : batch[t] # <<>> ~> batch[t] = <<>>
  /\ []<>(step = "run" \/ GroupFlushed)

\* If every worker has been through run() once before main() returns, the destructor
\* of the group ends.
LateDestructorEnds == step = "lock" /\ done = Jobs /\ bAllDone ~> step = "end"

\* YRLogger.cpp:48 and YRLogger.h:48 speak of asynchronous writing and of the thread
\* that writes the log: what is buffered is taken out without main's help.
BackgroundFlush ==
  \A line \in 1..MaxAlone : line \in ToSet(buffer) ~> line \notin ToSet(buffer)

\* test/threadpool_test.cpp:32 says of waitForAllDone(-1) that it waits until the jobs
\* are executed: in the destructor, after stop(), it returns.
DestructorWaitReturns == step = "unlock" ~> step = "end"
=============================================================================
