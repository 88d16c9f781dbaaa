----------------------------- MODULE RollFiles -----------------------------
(***************************************************************************)
(* YR_RollBySize (util/YR_Logger.h): roll() appends a batch to path.log    *)
(* and, when five seconds have passed since it opened that file and the    *)
(* file has grown too long, shifts path.log, path1.log, ... up by one name *)
(* and begins a new path.log.                                              *)
(*                                                                         *)
(* A file is the sequence of the batches in it, and its name is its index: *)
(* 0 is path.log, n > 0 is path<n>.log.  The class writes "path0.log" too, *)
(* when m_maxNum is 1: ZeroLog.  The mutex keeps rolls apart, so each is a *)
(* sequence of file operations, any of which the process may not survive.  *)
(***************************************************************************)
EXTENDS Integers, Sequences, FiniteSets, SequencesExt, FiniteSetsExt, Functions

CONSTANTS
  MaxSize,        \* m_maxSize, in batches
  MaxNums,        \* the values of m_maxNum that the program sets
  MaxBatches,     \* bound: calls of roll()
  MaxCrashes,     \* bound: times the process dies and is started again
  NoFile          \* m_ofs is closed

ASSUME NumbersAssumption ==
  /\ MaxSize \in Nat \ {0} /\ MaxBatches \in Nat /\ MaxCrashes \in Nat
  /\ MaxNums \subseteq Nat \ {0} /\ MaxNums # {}
ASSUME FileAssumption == NoFile \notin Int

VARIABLES
  disk,     \* the files there are, by index
  ofs,      \* the file m_ofs writes to
  bad,      \* m_ofs is open, but a write to it has failed
  maxNum,   \* m_maxNum
  pc,       \* what roll() does next: "remove" or "rename"; "out" is outside
  i,        \* its loop variable
  batches,  \* history: rolls begun; a batch is the number of its roll
  written,  \* history: batches that have reached a file
  lowered,  \* history: m_maxNum has been lowered
  uneven,   \* history: a rename has failed
  crashes   \* history: times the process has died

rollVars == <<ofs, bad, maxNum, pc, i>>
histVars == <<batches, written, lowered, uneven, crashes>>
vars == <<disk, rollVars, histVars>>

ZeroLog == -1
Indices == ZeroLog..Max(MaxNums)
OnDisk == UNION {ToSet(disk[n]) : n \in DOMAIN disk}

\* The stream is attached to path.log between rolls, or to ZeroLog.
TypeOK ==
  /\ DOMAIN disk \subseteq Indices
  /\ \A n \in DOMAIN disk : disk[n] \in Seq(1..MaxBatches)
  /\ ofs \in {NoFile, 0, ZeroLog} /\ (ofs # NoFile /\ pc # "rename" => ofs \in DOMAIN disk)
  /\ bad \in BOOLEAN /\ maxNum \in MaxNums
  /\ pc \in {"out", "remove", "rename"} /\ i \in ZeroLog..Max(MaxNums)
  /\ batches \in 0..MaxBatches /\ written \subseteq 1..MaxBatches
  /\ lowered \in BOOLEAN /\ uneven \in BOOLEAN /\ crashes \in 0..MaxCrashes

Init ==
  /\ disk = <<>> /\ ofs = NoFile /\ bad = FALSE
  /\ maxNum \in MaxNums
  /\ pc = "out" /\ i = 0
  /\ batches = 0 /\ written = {} /\ lowered = FALSE /\ uneven = FALSE
  /\ crashes = 0
-----------------------------------------------------------------------------
\* The stream after open(..., ios::app): a missing file is made, a failure leaves the
\* stream closed.  A successful open clears the state of the stream.
OpenedFile(files, n) ==
  [m \in DOMAIN files \cup {n} |-> IF m \in DOMAIN files THEN files[m] ELSE <<>>]

\* The time since m_lt decides what roll() does: after more than 5 seconds ("long") it
\* closes the stream first and tests the size at the end; when the clock has gone back
\* it only closes; otherwise neither.
Ages == {"short", "long", "back"}

\* roll() up to the test of the size, for the batch b.
WriteBatch(b, age) ==
  LET now == IF age = "short" THEN ofs ELSE NoFile
      target == IF now = NoFile THEN 0 ELSE now
      files == OpenedFile(disk, target)
  IN
    \/ \* the file cannot be opened: the batch is lost and roll() throws
       /\ now = NoFile
       /\ ofs' = NoFile /\ bad' = FALSE /\ pc' = "out"
       /\ UNCHANGED <<disk, written>>
    \/ \* a write fails, now or earlier: the stream swallows the batch
       /\ ofs' = target /\ bad' = TRUE /\ pc' = "out"
       /\ disk' = files
       /\ UNCHANGED written
    \/ /\ ~(bad /\ now # NoFile)
       /\ ofs' = target /\ bad' = FALSE
       /\ disk' = [files EXCEPT ![target] = Append(@, b)]
       /\ written' = written \cup {b}
       /\ pc' = IF age = "long" /\ Len(disk'[target]) >= MaxSize THEN "remove" ELSE "out"

\* rename() replaces the file that has the new name.
RenamedTo(from, to) ==
  [n \in (DOMAIN disk \ {from}) \cup {to} |-> IF n = to THEN disk[from] ELSE disk[n]]

\* Mutated form: the new index counted from the wrong end.
RenameMirrored ==
  /\ pc = "rename" /\ i >= 0
  /\ disk' = IF i \in DOMAIN disk THEN RenamedTo(i, maxNum - 1 - i) ELSE disk
  /\ i' = i - 1
  /\ UNCHANGED <<ofs, bad, maxNum, pc, histVars>>

Roll(age) ==
  /\ pc = "out" /\ batches < MaxBatches
  /\ batches' = batches + 1
  /\ WriteBatch(batches', age)
  /\ UNCHANGED <<maxNum, i, lowered, uneven, crashes>>

\* The file with the highest index is removed; if that fails roll() returns.
LastFile == IF maxNum = 1 THEN ZeroLog ELSE maxNum - 1
RemoveLast ==
  /\ pc = "remove"
  /\ \/ disk' = Restrict(disk, DOMAIN disk \ {LastFile}) /\ pc' = "rename"
     \/ LastFile \in DOMAIN disk /\ pc' = "out" /\ UNCHANGED disk
  /\ i' = maxNum - 2
  /\ UNCHANGED <<ofs, bad, maxNum, histVars>>

\* Nobody looks at the result of rename().
Rename ==
  /\ pc = "rename" /\ i >= 0
  /\ \/ i \in DOMAIN disk /\ disk' = RenamedTo(i, i + 1) /\ UNCHANGED uneven
     \/ i \in DOMAIN disk /\ uneven' = TRUE /\ UNCHANGED disk
     \/ i \notin DOMAIN disk /\ UNCHANGED <<disk, uneven>>
  /\ i' = i - 1
  /\ UNCHANGED <<ofs, bad, maxNum, pc, batches, written, lowered, crashes>>

\* The stream is opened under the name that was used last: path.log, or ZeroLog when
\* the loop had nothing to do.
Reopen ==
  /\ pc = "rename" /\ i < 0
  /\ LET last == IF maxNum = 1 THEN ZeroLog ELSE 0 IN
       \/ ofs' = last /\ disk' = OpenedFile(disk, last)
       \/ ofs' = NoFile /\ UNCHANGED disk
  /\ bad' = FALSE /\ pc' = "out"
  /\ UNCHANGED <<maxNum, i, histVars>>

SetMaxNum(n) ==
  /\ pc = "out" /\ n # maxNum
  /\ maxNum' = n /\ lowered' = (lowered \/ n < maxNum)
  /\ UNCHANGED <<disk, ofs, bad, pc, i, batches, written, uneven, crashes>>

\* The process dies between two file operations and is started again.
Crash ==
  /\ crashes < MaxCrashes
  /\ crashes' = crashes + 1
  /\ ofs' = NoFile /\ bad' = FALSE /\ pc' = "out" /\ i' = 0
  /\ UNCHANGED <<disk, maxNum, batches, written, lowered, uneven>>

Next ==
  \/ \E age \in Ages : Roll(age)
  \/ RemoveLast \/ Rename \/ Reopen
  \/ \E n \in MaxNums : SetMaxNum(n)
  \/ Crash

Spec == Init /\ [][Next]_vars
-----------------------------------------------------------------------------
\* Read from the highest index down to path.log the files give the log in order, after
\* every operation of every roll, whatever failed and wherever the process died.
Older(s, r) == \A x \in ToSet(s), y \in ToSet(r) : x < y
AgesSorted ==
  /\ \A n \in DOMAIN disk : \A k \in 1..(Len(disk[n]) - 1) : disk[n][k] < disk[n][k + 1]
  /\ \A m, n \in DOMAIN disk : m > n => Older(disk[m], disk[n])

\* Nothing younger is given up before anything older: what is left on disk are the last
\* batches that were written, unless m_maxNum has been lowered or a rename has failed.
LosesOldestFirst ==
  ~lowered /\ ~uneven => \A x \in written \ OnDisk, y \in OnDisk : x < y
=============================================================================
