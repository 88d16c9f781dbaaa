# A verification project for youren

youren is a small C++ base library (`util/`) with an asynchronous logger built on it
(`YRLogger`, `main.cpp`). Its core is concurrent: a monitor over pthreads, a blocking
queue, a thread pool, a group of logging threads that runs on the pool, log files that
rotate, a singleton and a reference-counting pointer. This directory models that core in
TLA+, checks it with TLC and proves every safety property of the runs with TLAPS, for every
number of threads, jobs, items, files and parts of a path.

`PROJECT.json` is the index: components, runs, mutants (for each property a plausible bug
that violates it), the map from definitions to source lines, findings, hazards, theorems.

## 1. Inventory

| component | state | operations | used by | what is hard |
|---|---|---|---|---|
| `YR_ThreadMutex`, `YR_ThreadRecMutex`, `YR_ThreadCond`, `YR_Monitor` | pthread mutex, `_count`, condition, `_nnotify` | lock, tryLock, unlock, wait, timeWait, notify, notifyAll | everything below | notify is deferred to unlock or wait; nesting across a wait |
| `YR_LockT`, `YR_TryLock` | `_acquired` | construct, acquire, tryAcquired, release, destruct | everything below | flag against mutex, in any order of calls |
| `YR_Thread_Queue` | `_queue`, `_size` | push_back, push_front, pop_front, swap, notifyT, clear | pool (jobs, start tasks), roll (`_buffer`) | lost wake-ups, timeouts against signals |
| `YR_Thread` | `_running`, `_tid` | start, join, isAlive | pool workers, time provider | a handshake with one untested wait |
| `YR_ThreadPool` | two queues, `_jobthread`, `_busthread`, `_bAllDone`, `_bTerminate` | init, start, start(tf), stop, exec, waitForAllDone, destructor, `ThreadWorker::run` | logger group, test program | two mutexes and two queues read separately; stop joins under a mutex |
| `LoggerBuffer`, `LoggerStream` | the array, `pptr()`, badbit | `<<`, overflow, reserve, sync, the stream's destructor | the roll | a full array in the middle of a line, a roll that throws |
| `YR_LoggerThreadGroup`, `YR_LoggerRoll`, `YRRollLogger` | set of rolls, `_bTerminate`, `_pThreadGroup`, `_buffer` | start, registerLogger, flush, run, setupThread, unSetupThread, write, sync, setLogInfo | `main.cpp` | four mutexes, a background thread, switching while logging, the end of the program |
| `YR_RollBySize` | `m_ofs`, `m_maxNum`, `m_lt`, the files | init, setMaxNum, roll | the roll | failures and death between file operations |
| `YR_Singleton` | `_pInstance`, `_destroyed`, `_bDestroyedOnce` | getInstance, destroySingleton | `YRRollLogger`, `YRLoggerThread` | double-checked lock, exit() |
| `YR_AutoPtr`, `YR_HandleBaseT` | `_ptr`, `_atomic`, `_bNoDelete` | construct, assign, swap, destroy, incRef, decRef | rolls, time provider | last owners at once, self-reference in a destructor |
| `YR_TimeProvider` | `g_tp`, `_t[2]`, `_tsc[2]`, `_buf_idx` | getInstance, getNow, run, destructor | `TNOW` | double buffer read without a lock, an instance published before its thread runs |
| `YR_File` | the file system | makeDirRecursive, makeDir, isFileExistEx, extractFilePath, simplifyDirectory | `setLogInfo` | several processes in one file system; every way of writing a path |
| `YR_Common`, `YR_Exception` | none | pure functions | all | edges of the string functions |
| `YR_Epoller`, `NetThread` | descriptors | bind, add, mod, del, wait | nobody | unfinished |
| `build/`, `bin/`, `tags`, CMake files | | | | generated, or configuration |

What makes each part correct:

* queue: no item lost, doubled or reordered; no consumer asleep beside an item; `_size` exact;
* monitor and guards: signals passed on exactly; nesting counted; a scope ends unlocked;
* thread: `isAlive()` false means that no thread will enter `run()`; one thread per object;
* pool: a job is in one place; stop joins all; "all done" means done; calls return;
* logger: a line is in one place, in order, and reaches the file; calls return;
* stream buffer: text leaves once, in order, by whole lines; kept when the roll throws;
* rotation: files sorted by age whatever fails; the oldest goes first;
* time: read whole without a lock, backwards by no more than the offset of a call; the clock goes on; its thread is joined;
* directories: "true" means there, "false" means that something was in the way, nothing else made;
* singleton: one instance, handed out alive, destroyed once; pointer: counts exact.

The hazards, each at its line, are in `PROJECT.json`.

## 2. Modules

```
QueueContract <--implements-- ThreadQueue                 ThreadQueueProofs
      ^ INSTANCE
ThreadPool --implements--> TaskExecutor                   PoolProofs (both)
      ^ EXTENDS
LoggerGroup

Monitor <--EXTENDS-- LockGuard                            MonitorProofs (both)

ThreadStart <--EXTENDS-- TimeProvider                     TimeProviderProofs (both)

TextSink <--implements-- LoggerBuffer
                              ^ EXTENDS
RollFiles <--EXTENDS----- SyncLogger                      SyncLoggerProofs (all three)

Singleton                                                 SingletonProofs
AutoPtr                                                   AutoPtrProofs
Directories                                               DirectoriesProofs
```

The modules that are checked have an `MC` module with model values and finite sets; the others
are checked through the module that composes them.

**Monitor / LockGuard.** The mutex is `owner`; the recursive class adds `count`. `_nnotify` is
`nnotify`; `notifyImpl` is `NotifyImpl(S, n)`: `n` sleepers leave, or all for -1. A wait is
three steps: `Wait` (release and sleep), a wake-up (`NotifyImpl`, `Timeout` or unasked), `Resume`
(regain, restore `_count`). Guards are sequences of `_acquired` flags per thread, used as
nested scopes are. Calls that throw change nothing and are no actions.

**ThreadQueue.** A member function runs under one scoped lock, so an action is the stretch from
one acquisition to the next release, and signals counted inside reach the condition at its end
(this is what `Monitor` shows: `NotifiedExactly`). `pop_front` and `swap` are `Enter` up to the
wait and `Resume` or `GiveUp` after it. `size()` and `empty()` only read.

**QueueContract** is what callers may rely on: a sequence and the set of blocked callers.
`ThreadQueue` implements it (`KeepsContract`, checked and proved) and `ThreadPool` uses it for
its job queue, so the pool's model does not repeat condition variables.

**ThreadPool.** Each worker has a place `pc` in `run()`, with a step for every point at which it
touches shared state: `GetJob` (pop), `MarkBusy` (`_busthread` under `_tmutex`), `RunJob`, `GoIdle`,
`Exit` (clears the queue), `End`. The control calls go worker by worker with the pool's mutex held; `start(tf)`
first queues its tasks one by one without it. `start()` throws half-way when a worker still runs or when
`pthread_create` fails (`CreateFails`), and leaves the workers before that one started.
`waitForAllDone` reads the two queues (`CheckStartQueue`, `CheckJobQueue`) and then `_busthread` with
`_bAllDone` (`CheckBusy`), with `_tmutex` held from the first to the last, and sleeps when one says no. **TaskExecutor** is the abstract view: new, queued, taken, done or
dropped, and dropped only once somebody has asked the pool to stop.

**LoggerGroup** extends `ThreadPool`: the group's run() is the pool's job, the main thread is the
pool's control thread and its waiter, and every other step leaves the pool as it is. A line goes
from `held` (the stream buffer) to `buffer` (`_buffer`), to a `batch` that a flush has swapped out,
to `file`; or straight from `held` to `file` in synchronous mode. `step` is the program counter of main.
Three mutexes are competed for, and each is held over several steps: `m_mutex` by the writer inside
the stream's destructor (`writing`), the group's by main, a flusher or a worker (`grpOwner`), that of
`YR_RollBySize` by whoever rolls (`fileOwner`), the last inside either of the others. In `run()` the lock, the
two halves of `timeWait` and the `flush()` that throws are a step each. `_mutex` of the roll, which
`setupThread` and `unSetupThread` hold from end to end, is main's alone, since nobody else calls them, and
has no variable. A text that is rolled is written, lost without a sign (a stream in an error state), lost
because the file does not open, or written before `roll()` throws.

**ThreadStart** models the handshake that `ThreadPool` takes for one step and says under which
conditions it may: callers that take turns (the pool's mutex) and no spurious wake-up.

**TimeProvider** extends it. The object is either a pool's thread, used as before, or the
provider: `GetInstance` (both tests, the lock, `new`, `start()`), `Refresh` (`run()`, with a step for each
word it stamps, for the swap and for the wait) and `GetNow` (choose a buffer, copy its words one by
one, decide by the tsc whether to trust them, answer, return). A word of a buffer is the number of its
refresh, so a copy of words of two refreshes can be seen; `TimeOf` makes it a time, which is what callers
are given: the seconds of the stamp by `getNow()`, the stamp and an offset up to a second by `getNow(&tv)`
(`StampTime`), or what `gettimeofday()` says by then (`SystemTime`). `latest` is what the caller may take for past.
When no thread could be created, the destructor's `join` has no valid `_tid`, throws, and the process ends
(`DestructorThrows`).

**LoggerBuffer** has the array, `pptr()` and the line being written: `BeginLine` opens a stream, `xsputn` copies what
fits, `overflow` doubles the array or, at its greatest length, hands the text to the roll, `Flush` is
the end of ~LoggerStream. A roll comes back or throws, which sets `badbit` for the rest of the line. **TextSink** is the
abstract view: text taken, text handed over.

**RollFiles** has one action per file operation of a rotation, each of which may fail, and `Crash`
between any two. A file is the sequence of its batches. **SyncLogger** composes the two as the
synchronous logger does: each text that leaves the buffer is one batch of `roll()`, and `roll()` has thrown
for the buffer exactly when it leaves `m_ofs` closed.

**Directories** has the makers, one step per system call, and others who remove a directory or
put a file in the way between any two calls. A path is the sequence of its parts, `""` for what two
slashes enclose, so that `a//b`, `./a`, `a/../b` and `/a/` are all different. `simplifyDirectory` drops
and shortens parts (`Drops`, `Shortened`); where the system finds a path (`Place`) is a walk from part
to part (`Step`, `Way`). Both are recursive functions over the length of the path.

**Singleton** has one action per access to `_pInstance` and `_destroyed`. `policy` is one of
the three lifetimes and is frozen.

**AutoPtr** has one action per access to `_ptr`, `_atomic` and `_bNoDelete` in assignment and `decRef`.

## 3. Runs

| run | instance | distinct states | shows |
|---|---|---|---|
| `queue` | 3 threads, 2 items, batches up to 2, all operations, spurious wake-ups | 48 000 | no lost wake-up, nothing lost, FIFO, `_size`, contract |
| `pool_safety` | 0 to 2 workers, 2 jobs (one calls back into the pool), 1 waiter, all control calls, 2 start tasks, creation may fail | 2.4 million | one place per job, joins, `TaskExecutor`, the worth of "true" |
| `pool_liveness` | 2 workers, 2 jobs, one of which calls back, 1 waiter, start, init | 176 000 | stop returns, jobs are served, waits return, but for the deadlock named |
| `pool_true_means_done` | 2 workers, 2 jobs, 1 waiter | violation | "true" although a job has not begun |
| `guard` | 3 threads, both mutex classes, nesting 2, one notify per section, 4 guards | 17 000 | monitor and guard properties |
| `time_provider` | 2 callers (one reads), 3 threads created, 4 refreshes, 800 ms apart, either user, creation may fail | 109 000 | the handshake, time whole and forwards but for the offset, calls return, the clock goes on |
| `group` | 1 worker, main and a writer, a second flusher, 3 lines by main alone or 2 with the others, switching, failing rolls | 101 000 | every line in one place, order, nothing left behind, calls return |
| `group_background` | 1 worker, main alone, 2 lines | violation | the background thread never writes |
| `log_files` | `m_maxNum` 2 and 3, 6 batches, size 2, 2 deaths; array 1 to 3, lines of 2 and 4 | 4.2 million | rotation, text once and in order, lines whole |
| `singleton` | 3 threads, 3 instances, 3 lifetimes | 11 000 | one instance, alive, destroyed once |
| `autoptr` | 2 threads, 2 objects, 1 shared pointer | 21 000 | counts |
| `directories` | 2 processes, every spelling of up to four parts, one disturbance | 447 000 | what true and false mean, nothing else made |

Why the bounds are enough:

* queue: a lost wake-up needs a sleeper, a signalled thread and a thief: three threads. Two
  items make order and batches matter. For any number, see the proofs.
* pool: the interesting pairs are two workers (one leaves and clears, one pops), two jobs
  (one in the window, one queued) and one waiter. Waiters meet only through `_tmutex`.
* `pool_liveness` has two jobs so that one is queued while the other keeps a worker busy, or holds up the
  `stop()` that `init()` calls. Its controls are `start()` and `init()`, which stops and can be followed by
  a new start; the others are in `pool_safety`.
* `MaxStartTasks = 2` lets a `start(tf)` leave tasks behind for the next round.
* guard: three threads give a holder, a sleeper and a competitor; nesting 2 is the first
  depth at which a wait releases more than one lock; 4 guards leave all of that possible.
* time: a reader is torn only when a buffer goes to the back and is stamped again under it, two
  refreshes; four give it that twice. Two callers race for the one instance. A tick is 200 ms: refreshes are
  four ticks apart and a second is five, so stamps fall on either side of a full second (`MCTimeOf`), and
  `MaxHeld = 1` lets the system's answer be ahead of the last stamp. The theorem has any times.
* group: the programs start one thread. Main alone logs three lines (`MaxAlone`), which is enough for a file
  that reads 1, 1, 2, 1, 2, 3 after two rolls that threw; once another thread has begun to log or flush two
  lines (`MaxLines`) are enough for one to overtake the other. The safety theorems have any number.
* log files: 6 batches fill files of two and begin a fourth; two deaths interrupt the rotation
  that repairs the first one. From one place the array doubles once or twice and then overflows; a line of 2 fits
  into the greatest array and one of 4 does not.
* singleton: three threads give exit(), one past the first test and one before it; three
  instances are a birth, a rebirth and one that must not be.
* autoptr: two objects are needed for an assignment that exchanges one for the other.
* directories: four parts hold a name, a dot, a double slash and a final slash at once; one
  disturbance between two calls shows what a call that looked before it can miss.

`CHECK_DEADLOCK FALSE` stands where a program may stop: nobody has to call anything, a
bounded number of jobs, lines or refreshes is used up, a process has ended.

### Fairness

Threads are scheduled (weak fairness on a thread's own steps). A thread that asks for a mutex
gets it in the end (strong fairness); the code's critical sections are short, except those the
properties name, and none of the waiting loops spins with a mutex held. In the logger this is one condition per thread:
what a thread does next, once it has begun something (`ThreadStep`, `WorkerStep`), is strongly fair. Deadlines pass. Jobs
end, except `run()` of the logger group, whose end is a step of its own. A caller inside `getInstance()`
or `getNow()` goes on, a new thread begins, and `run()` of the provider is over when its flag says so. Nobody is obliged to
call `exec`, `start`, `stop`, `log` or `sync`, and no spurious wake-up is counted on for
progress. pthread mutexes do not promise strong fairness; it stands for the remark that the
competitor sleeps (`timeWait`, `pop_front`) between two acquisitions.

### Findings

* `pool_true_means_done`: `get()` pops a job before it enters `_busthread`; `waitForAllDone` that looks
  in between returns true. The comment at `YR_ThreadPool.h:63` promises that all work has ended.
  `TrueMeansAlmostDone` shows that this window is the only thing overlooked.
* `group_background`: `run()` calls `flush()` with the group's mutex held, `flush()` locks it again, the
  error-checking mutex answers EDEADLK, `lock()` throws and the pool swallows it: the thread that
  should write the log has ended its job after its first timeout.

### Known limits of the code, stated but not run

These properties and settings are in the modules. TLC finds each violated by the code as it
is; no run is kept for them:

* `ForeverMeansData` (ThreadQueue): a consumer with -1 is signalled, another takes the item, and
  the call returns false.
* `WaitEndsWithTheWork` (ThreadPool): `start()` clears `_bAllDone` after the workers have executed everything.
* `LeaveOnlyInStop` (ThreadPool): `_bTerminate` is not reset, so a restarted worker leaves at once.
* `DestructorWaitReturns` (LoggerGroup): the same flag, in the group's destructor.
* `NotifyAllAlwaysWakes` (Monitor): a nested `lock()` of the recursive class forgets the signals.
* `RetryHeld = TRUE` (LockGuard): `tryAcquired()` on a guard that holds a plain mutex leaves it locked.
* without `~early`, or with `OneAtATime = FALSE` (ThreadStart): the conditions of the handshake.
* `Locked = FALSE` (AutoPtr): the pointer itself is not safe to share without a lock.
* without `~late` (Singleton): a call of getInstance() by another thread during exit().
* time may go back (TimeProvider). `getNow(&tv)` answers with the stamp and an offset, `getNow()` with the
  seconds of the stamp alone, so after 11.4 s a thread may be told 10 s: by the offset and the fraction of a
  second, which `NeverBackwards` bounds. `gettimeofday()`, asked before the tsc is known or after it has been found
  wrong, may be ahead by any time for which the provider has been held up; of what comes after such
  an answer nothing is promised.
* a provider whose thread could not be created cannot be destroyed: `join` throws out of the destructor and
  the process ends. `DestructorReturns` speaks of a provider that has a thread.
* `CopyWhole` speaks of calls that no wait of `run()` overtakes: a reader that sleeps for 800 ms between two
  words copies two times.
* `m_maxNum = 1` (RollFiles): `roll()` renames to `path0.log`, which nothing ever removes; the model has
  this name, the theorems about order assume more than one file.
* `KeepsText` allows it: text that `roll()` has written before it fails to open the next file
  stays in the buffer and is written again with the next line. `InOrder` says of it that each line still
  comes first in its place; the file itself may read 1, 1, 2, 1, 2, 3.

Met while reading, outside the models' properties:

* `YR_Logger.h:379` creates the directory of the log when it exists already, and after the file was opened.
* `_use_tsc` is never set again once a call has found the tsc wrong, so later calls ask the system.
* when `pthread_create` fails in `getInstance()`, `g_tp` is already set: later callers get a provider without a
  thread, whose time stands still (in `TimeProvider`; `TimeGoesOn` speaks of a thread that was created).
* `isFileExistEx` tests bits of `S_IFDIR`, which sockets and block devices share.
* `trimleft` of a string of trimmed characters throws, and `trimright` with `bChar` looks for the wrong end.

## 4. Proofs

TLAPS checks these for all values of the constants that satisfy the named assumptions of the
modules (finite sets of threads, positive bounds, a null value outside the set it stands
beside). What a theorem assumes beyond them is in its statement.

**ThreadQueueProofs.** `TypeCorrect` and `SizeCorrect` are proved together (`Typed`): without `SizeMatches` the
decrement of `_size` could leave the naturals. `BlockedCorrect` is inductive by itself.
`NoItemStranded` needs both: a push of n items moves n sleepers to `woken` or empties `waiting`
(`PushStrandsNothing`), and a thread leaves `woken` either with an item or when there is none
(`NotWorse`). `ImplementsContract` maps `pending` to the threads with a call. `NoItemLost` and `BackKeepsOrder`
share `PlaceInv`: every item in one place (`OnceInv`), and for each pair given to `push_back` in this order
neither the queue nor what was taken has it the other way round, nor is the later taken while
the earlier is queued (`OrderInv`). Both moves of the code are a concatenation (a batch is added
to one end, the front part goes to the caller, `TakeSplits`), so one lemma on the elements and the
order of `a \o b` (`ConcatElements`) carries them. `NoItemLost` assumes a finite set of items, without which
there is nothing to count.

**PoolProofs**, the pool. `IInv == TypeOK /\ BusyExactly /\ ControlInv /\ HoldersInv`. `ControlInv` is the
strengthening that `StopJoins` needs: workers beyond `threadNum` have no thread, those behind
the iterator of `stop()` are not running, and a worker is joined within bounds. `HoldersInv`
says that a worker between queue and job has a job in hand. From `IInv` follow `TypeCorrect`,
`BusyCorrect` and `StopJoinsAll`. `JobsInOnePlace` is proved on top of it, one lemma per way a job moves
(submitted, taken, executed, cleared). `TrueAlmostMeansDone` adds `SeenInv`: a waiter that has seen the
queue empty knows that no job of before its call will be queued again, because the queue gets new
jobs only. `ImplementsTaskExecutor` adds `OpenInv` (a worker leaves only after it was told to; the control thread
is in no `init()` while it is free) and shows each step to be one of the executor or none.

`StopNearsItsEnd` is what can be proved of `StopReturns`. `JoinInv`: stop() joins only a worker that has a
thread and has been told to leave. `StopLeft` counts what is still before it, twelve for each worker that its iterator
has not reached and the rest of the way of the one it joins (`ToGo`). No step of any thread makes
it greater, and what leaves it as it is leaves `stop()` and the joined worker where they were. TLC adds that
such steps do not go on for ever.

**PoolProofs**, the logger group. `LoggerUsesPool` first: each step of the logger is a step of `ThreadPool` or leaves the pool
as it is, so the pool's theorems, the refinement and `StopStep` among them, hold of the logger's workers (`LoggerPoolSafe`). `GroupInv == LogTypeOK /\
MembershipInv /\ AloneInv` then says where main is when it holds a batch or a mutex, that one worker at most holds
the group's (`WorkersExclusive`), that a registered roll knows its group except while main changes the one after the other, and, until another thread logs or flushes, that main's stream goes the way `_pThreadGroup` still
asks for and that `_buffer` holds lines only up to the flush that comes first; `NothingStaysBehind`
follows at once. `NoLineAstray` sees the stores as one function from names to sequences. Each step
appends one store to another, empties one, copies one or appends a new line, with one lemma each
(`StoreMoves`, `StoreEmptied`, `StoreCopied`, `StoreGrows`); the strengthening is that what was written before a
`roll()` threw is in the file, so that a batch may be lost without it. `LinesInOrder` follows the
concatenation of all stores, in which lines may come again but first come in order (`FirstsInOrder`), while what is not
yet in the file is strictly in order: a move leaves the whole as it is, a lost text takes out its middle
(`MiddleLost`), and one that was written and kept is repeated at the end (`EndRepeated`).

**MonitorProofs.** `IInv == TypeOK /\ NestingCounted /\ PlainInv /\ AskedInv`. `NestingCounted` is inductive
only with `PlainInv`: in the plain class nobody holds the mutex twice, so an unlock really frees it.
`AskedInv` says that `_nnotify` of a held plain monitor is what was asked for since the mutex was gained;
with it `SignalsPassedOn` follows from `NotifyImpl`. In the recursive class a nested `lock()` breaks
`AskedInv`, which is the limit stated in section 3. `GuardsUseMonitor` shows that a monitor used through guards
behaves as a monitor, and `ScopesUnlock` (with `~RetryHeld`) rests on `GuardsInv`: the guards that say they have
acquired the mutex are as many as the thread's locks.

**TimeProviderProofs.** `ClockInv` is the double buffer: the front one is whole, the words of the back one
are the next time up to the point where `run()` is stamping (`BufferInv`), and what a reader has copied is
not before what its caller may take for past (`latest`) and, as long as nobody overtook it, equal to the
first word of its buffer (`ReaderInv`). `SecondsProperties` has the arithmetic: cutting a time to its
seconds keeps the order, and a fraction and an offset carry a time into the next second at most, so
what is left of an answer of `getNow(&tv)` without them is not after its stamp.
It is unconditional and gives `CopyIsWhole` and `TimeForwards`. `HandshakeInv` (only the last thread is to run or
runs, and somebody waits for it until it has said so) and `OnceInv` (the provider is started once, with the
lock held) need `OneAtATime` and give `OneThreadOnly` and `AliveToldTruly`. Two theorems need no such condition and
say what the calls wait for. `StartIsAwaited`: a `start()` asleep waits for its own thread, which has yet
to announce itself (no signal is lost, though the wait tests nothing), and a `join()` for a thread that
exists. `DestructorNearsItsEnd`: once the destructor has set the flag nobody holds `g_tl` (`DestructInv`), each step of
the provider's thread lowers `ThreadLeft`, and no other step moves that thread, whether the notify was in time or not.

**SyncLoggerProofs.** The stream buffer: `TextInv == BufferTypeOK /\ LeftInv /\ OwnLineInv`. `OwnLineInv`: until a roll throws, the buffer
holds of the present line exactly what is not left to write, so a line that fits never meets
`overflow()` in the middle (`NoLineTorn`). `ImplementsSink` maps the buffer to `TextSink`.
The files: `SortedInv` (all files sorted by age, the stream on `path.log` or nowhere, the iterator in
bounds) gives `FilesSorted`; `PlacesInv` (no file beyond the next removal, a free name for the next
rename, unless `m_maxNum` was lowered or a rename failed) gives `OldestLostFirst`. Both assume `Deep`, every
`m_maxNum` above 1. `LoggerComposes` carries the theorems of the parts over to the composition.

**SingletonProofs.** `LockInv`: who is between the second test and the registration has the lock. `InstanceInv`: `_pInstance` is
the one living instance from its birth until it is deleted, and a handler is registered only
for it. `ExitInv` and `SparedInv` say what holds in `exit()` unless another thread calls `getInstance()` during it (`~late`).

**AutoPtrProofs.** Under `Locked`. `UseInv`: an operation has its pointers to itself; `TakeInv`: what it is about to
count is new or kept alive by a pointer nobody else may change; `DropInv`: who finds 0 has the
object to itself; `ObjectInv`: the count is the number of pointers and operations that have counted.
None of the four is inductive alone: the count is exact because of the others, and they hold because it is.

**DirectoriesProofs.** First the operators, for a path of any length: what the simplified path leads to
(`SimplifyKeepsPlace`: the place of the path itself, or both lead nowhere), and that each level
of a path is one step from the level before it (`LevelNext`), up to the place of the whole (`LevelLast`). They are inductions over the length; the library's
induction theorems cannot be used, so `UpTo` has it for a set of numbers, from their well-foundedness,
and each recursive function is unfolded by one step in a lemma of its own. Then the makers:
`DirInv` joins `DirTypeOK`, `Calling` (the call works on the simplified path, at one of its levels), `Behind` (the levels
it has passed are there if nobody removed one and no socket passes for one), `Found` (what `mkdir` refused as
existing), `Excused` (why it failed) and `AllOnWay` (a directory is above the working directory or a level
of a path asked for). None of `Behind`, `Found` and `Excused` is inductive alone: a call goes on from "exists"
because of `Found`, and ends in "true" because of `Behind`. `TrueIsThere` needs `SimplifyKeepsPlace` in the end, since the
promise is about the path as the caller wrote it.

Only model-checked: liveness, which is beyond the prover's reach as ENABLED is. These are `StopReturns`,
`QueuedJobIsServed`, `WaitReturns`, `NotifyAllWakes`, `StartComesBack`, `DestructorReturns`, `TimeGoesOn`, `LoggingReturns` and
`LateDestructorEnds`; `StopNearsItsEnd`, `StartIsAwaited` and `DestructorNearsItsEnd` prove the safety part of three of
them, for all values of the constants.

## 5. Abstractions, and what is not modelled

* ThreadPool: the start handshake is one step (see ThreadStart). One control thread; `exec` gets
  callable objects; the only call of a job into the pool is `getThreadNum()`. The last two
  reads of `finish()` are one step: nobody changes `_busthread` without `_tmutex`, so it is still the
  same when `_bAllDone` is read. Thread-private data (`setThreadData`) is left out: it does not influence scheduling.
* LoggerGroup: `setupThread` and `unSetupThread` are called by main only, as in `YRLogger.cpp`. A line is a
  model value, and the stream buffer holds as many as there are; its limits are LoggerBuffer's subject. The lines
  of one batch are all written or all lost, a thread that logs and flushes counts as two, and a program
  whose pool gets no thread has ended, since the exception leaves `setLogInfo` and `main()`.
* LoggerBuffer: a character is the number of its line. The sync of the buffer's own destructor
  is left out. Whether flushing a stream whose badbit is set reaches the buffer depends on the version of the
  library; the model has both.
* RollFiles: the empty path (output to cout) is left out; batches have size one. The age of the
  file comes from `TNOW`; whether five seconds have passed is a free choice.
* TimeProvider: ticks stand for microseconds and nobody sets the system's clock back (`TimeAssumption`); the
  tsc agrees with the clock or not, freely, and the offset is any number up to the second at which
  the code gives up.
* Directories: no links, no permissions but those of a file in the way.
* Plain bools that threads read without a lock (`_running`, `_bTerminate`) are read as one value that
  becomes visible at once. Each is set once and read again in a loop with lock operations in it.
* Singleton: stores reach other threads in the order of the program, as on x86, for which `YR_Atomic.h` has
  its assembler.
* Not modelled: string and time functions (without state; their edges are hazards), log levels
  and formatting, exceptions, epoll and network thread (no program uses them), read-write lock guards
  (nothing instantiates them), build files. `PROJECT.json` gives the reason for each.

## 6. Plan

Order, most important first. Done: 1 to 11.

1. ThreadQueue, QueueContract, and their proofs.
2. ThreadPool on the contract, TaskExecutor, and their proofs.
3. Monitor, LockGuard, ThreadStart, and their proofs: what 1 and 2 take for granted.
4. LoggerGroup on ThreadPool.
5. RollFiles, LoggerBuffer and TextSink, composed in SyncLogger, and their proofs.
6. Singleton, AutoPtr, and their proofs.
7. TimeProvider on ThreadStart, and its proofs.
8. Directories.
9. The refinement of TaskExecutor and the order of the queue proved.
10. The safety properties of LoggerGroup proved, and that the logger uses its pool as the pool allows.
11. The properties of Directories proved, and what `stop()`, `start()` and the provider's destructor wait for.
12. Left: more than one control thread in ThreadPool, for `init()`, which lets the mutex go between
    stopping and clearing.
