---------------------------- MODULE LoggerBuffer ----------------------------
(***************************************************************************)
(* LoggerBuffer and ~LoggerStream (util/YR_Logger.h, .cpp): a line goes    *)
(* into an ostream whose streambuf keeps the text in an array that         *)
(* overflow() doubles up to MAX_BUFFER_LENGTH and empties from then on;    *)
(* sync() hands the text to roll(), which may throw.                       *)
(*                                                                         *)
(* The callers hold m_mutex, so lines are written one after another.  The  *)
(* characters of a line are told from those of others only: each is the    *)
(* number of its line.                                                     *)
(***************************************************************************)
EXTENDS Integers, Sequences

CONSTANTS
  FirstLen,  \* the buffer_len that YR_Logger passes, 1024 in the code
  MaxLen,    \* MAX_BUFFER_LENGTH, 10 MB in the code
  Lengths,   \* the lengths of lines
  MaxLines   \* bound: lines logged

ASSUME LengthsAssumption ==
  /\ FirstLen \in Nat \ {0} /\ MaxLen \in Nat /\ FirstLen <= MaxLen
  /\ Lengths \subseteq Nat \ {0} /\ MaxLines \in Nat

VARIABLES
  buffer,  \* _buffer; its length is _buffer_len
  pptr,    \* pptr() - pbase()
  writer,  \* what ~LoggerStream does: "out", "put", or in sync() from "overflow" or "flush"
  left,    \* characters of the line that are not in the buffer yet
  line,    \* the line, by its number; history: the lines before it
  badbit,  \* the ostream has caught an exception
  sent,    \* history: the text that roll() has written last
  size,    \* history: the length of the line
  thrown   \* history: a roll() has thrown

bufferVars == <<buffer, pptr, writer, left, line, badbit, sent, size, thrown>>

Chars == 0..MaxLines
Unset == 0  \* the content of new memory
Fresh(n) == [k \in 1..n |-> Unset]
Text == SubSeq(buffer, 1, pptr)
Least(m, n) == IF m < n THEN m ELSE n

BufferTypeOK ==
  /\ buffer \in Seq(Chars) /\ Len(buffer) \in FirstLen..MaxLen
  /\ pptr \in 0..Len(buffer)
  /\ writer \in {"out", "put", "overflow", "flush"}
  /\ left \in Nat /\ line \in 0..MaxLines /\ badbit \in BOOLEAN
  /\ sent \in Seq(Chars) /\ size \in Nat /\ thrown \in BOOLEAN

BufferInit ==
  /\ buffer = Fresh(FirstLen) /\ pptr = 0
  /\ writer = "out" /\ left = 0 /\ line = 0 /\ badbit = FALSE
  /\ sent = <<>> /\ size = 0 /\ thrown = FALSE
-----------------------------------------------------------------------------
\* ~LoggerStream locks m_mutex, clears the stream and inserts the line.
BeginLine(n) ==
  /\ writer = "out" /\ line < MaxLines
  /\ writer' = "put" /\ left' = n /\ line' = line + 1 /\ badbit' = FALSE
  /\ size' = n
  /\ UNCHANGED <<buffer, pptr, sent, thrown>>

\* xsputn: as many characters as there is room for, ...
Put ==
  /\ writer = "put" /\ left > 0 /\ pptr < Len(buffer)
  /\ LET n == Least(left, Len(buffer) - pptr) IN
       /\ buffer' = [k \in DOMAIN buffer |-> IF k \in pptr + 1 .. pptr + n THEN line ELSE buffer[k]]
       /\ pptr' = pptr + n /\ left' = left - n
  /\ UNCHANGED <<writer, line, badbit, sent, size, thrown>>

\* Mutated forms: new memory with the put pointer at its beginning; an overflow() that
\* empties the array whatever its length; a sync() that leaves the put pointer alone.
GrowForgetting ==
  /\ writer = "put" /\ left > 0 /\ pptr = Len(buffer) /\ Len(buffer) < MaxLen
  /\ buffer' = SubSeq(buffer, 1, pptr) \o Fresh(Least(2 * Len(buffer), MaxLen) - pptr)
  /\ pptr' = 0
  /\ UNCHANGED <<writer, left, line, badbit, sent, size, thrown>>
FullAlways == writer = "put" /\ left > 0 /\ pptr = Len(buffer)

\* ... then overflow(), which makes the array longer ...
Grow ==
  /\ writer = "put" /\ left > 0 /\ pptr = Len(buffer) /\ Len(buffer) < MaxLen
  /\ buffer' = SubSeq(buffer, 1, pptr) \o Fresh(Least(2 * Len(buffer), MaxLen) - pptr)
  /\ UNCHANGED <<pptr, writer, left, line, badbit, sent, size, thrown>>

\* ... or, at its greatest length, empties it.
Full == writer = "put" /\ left > 0 /\ pptr = Len(buffer) /\ Len(buffer) >= MaxLen
SyncFull ==
  /\ Full /\ writer' = "overflow"
  /\ UNCHANGED <<buffer, pptr, left, line, badbit, sent, size, thrown>>

\* At the end of the line the stream is flushed.  One that has caught an exception is
\* flushed all the same or left alone, depending on the version of the library.
SyncLine ==
  /\ writer = "put" /\ left = 0 /\ pptr > 0
  /\ writer' = "flush"
  /\ UNCHANGED <<buffer, pptr, left, line, badbit, sent, size, thrown>>
LineDone ==
  /\ writer = "put" /\ left = 0 /\ (pptr = 0 \/ badbit)
  /\ writer' = "out"
  /\ UNCHANGED <<buffer, pptr, left, line, badbit, sent, size, thrown>>

\* sync() after roll() has returned: xsputn goes on, or the line is done ...
SyncReturns ==
  /\ writer \in {"overflow", "flush"}
  /\ sent' = Text /\ pptr' = 0
  /\ writer' = IF writer = "overflow" THEN "put" ELSE "out"
  /\ UNCHANGED <<buffer, left, line, badbit, size, thrown>>
\* ... or when it has thrown, before or after it wrote: the put pointer stays, the stream
\* catches the exception, and the rest of the line is given up.
SyncThrows(wrote) ==
  /\ writer \in {"overflow", "flush"}
  /\ sent' = IF wrote THEN Text ELSE sent
  /\ writer' = IF writer = "overflow" THEN "put" ELSE "out"
  /\ left' = 0 /\ badbit' = TRUE /\ thrown' = TRUE
  /\ UNCHANGED <<buffer, pptr, line, size>>

\* The process dies and is started again.
LoseMemory ==
  /\ buffer' = Fresh(FirstLen) /\ pptr' = 0
  /\ writer' = "out" /\ left' = 0 /\ badbit' = FALSE
  /\ UNCHANGED <<line, sent, size, thrown>>

BufferNext ==
  \/ \E n \in Lengths : BeginLine(n)
  \/ Put \/ Grow \/ SyncFull \/ SyncLine \/ LineDone
  \/ SyncReturns \/ \E wrote \in BOOLEAN : SyncThrows(wrote)
  \/ LoseMemory

BufferSpec == BufferInit /\ [][BufferNext]_bufferVars
-----------------------------------------------------------------------------
\* The array in memory, its growth and its reuse are an implementation of the promise
\* that text is neither lost, doubled nor reordered on its way to roll().
Characters(n) == [k \in 1..n |-> line]
Lines == {[k \in 1..n |-> c] : n \in Lengths, c \in Chars}
Sink == INSTANCE TextSink WITH
  rest <- Characters(left), pending <- Text, Inputs <- Lines
KeepsText == Sink!Spec

\* What sync() hands to roll() is a whole line and no more, so that no line lies half in
\* one file and half in the next, unless the line is longer than the greatest array or a
\* roll() has thrown before.
LinesWhole ==
  writer \in {"overflow", "flush"} /\ ~thrown /\ size <= MaxLen => Text = Characters(size)
=============================================================================
