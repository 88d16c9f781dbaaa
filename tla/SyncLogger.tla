----------------------------- MODULE SyncLogger -----------------------------
(***************************************************************************)
(* The logger in synchronous mode: LoggerBuffer hands its text to          *)
(* YR_LoggerRoll::write (util/YR_Logger.cpp), which calls YR_RollBySize's  *)
(* roll() and so either comes back or throws.  roll() has thrown when it   *)
(* leaves m_ofs closed, and has written before that when the batch is in   *)
(* a file.                                                                 *)
(***************************************************************************)
EXTENDS RollFiles, LoggerBuffer

logVars == <<vars, bufferVars>>

LogInit == Init /\ BufferInit

\* The steps of the stream that do not leave it.
InMemory ==
  /\ (\E n \in Lengths : BeginLine(n)) \/ Put \/ Grow \/ LineDone
  /\ UNCHANGED vars

\* sync() calls roll(), ...
CallRoll ==
  /\ SyncFull \/ SyncLine
  /\ \E age \in Ages : Roll(age)
\* ... which may rotate the files, ...
Rotate ==
  /\ RemoveLast \/ Rename \/ Reopen
  /\ UNCHANGED bufferVars
\* ... and has to come back before sync() goes on.
RollDone ==
  /\ pc = "out" /\ UNCHANGED vars
  /\ IF ofs = NoFile THEN SyncThrows(batches \in written) ELSE SyncReturns

Reconfigure ==
  /\ \E n \in MaxNums : SetMaxNum(n)
  /\ UNCHANGED bufferVars

Die == Crash /\ LoseMemory

LogNext == InMemory \/ CallRoll \/ Rotate \/ RollDone \/ Reconfigure \/ Die

LogSpec == LogInit /\ [][LogNext]_logVars
=============================================================================
