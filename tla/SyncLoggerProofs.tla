-------------------------- MODULE SyncLoggerProofs --------------------------
(***************************************************************************)
(* Theorems about the synchronous logger: about the stream buffer of       *)
(* LoggerBuffer, for every first and greatest length of the array, every   *)
(* length of lines and every number of them; about the files of RollFiles, *)
(* for every size, depth of rotation greater than one and number of        *)
(* batches, failures and deaths; and that both parts of SyncLogger behave  *)
(* in it as they do by themselves.                                         *)
(***************************************************************************)
EXTENDS SyncLogger, SequenceTheorems, TLAPS

(* The stream buffer *)

\* Outside a line nothing is left to write; in overflow() something always is.
LeftInv ==
  /\ writer \in {"out", "flush"} => left = 0
  /\ writer = "flush" => pptr > 0

\* Until a roll() throws, the buffer holds of the present line what is not left, and
\* between lines nothing.  A line that fits into the greatest array never fills it.
OwnLineInv ==
  /\ badbit => thrown
  /\ ~thrown /\ writer = "out" => pptr = 0
  /\ ~thrown /\ writer # "out" /\ size <= MaxLen =>
       /\ writer # "overflow"
       /\ pptr + left = size
       /\ \A k \in 1..pptr : buffer[k] = line

TextInv == BufferTypeOK /\ LeftInv /\ OwnLineInv
-----------------------------------------------------------------------------
\* New memory: a sequence of the length asked for.
LEMMA FreshArray ==
  ASSUME NEW n \in Nat
  PROVE  Fresh(n) \in Seq(Chars) /\ Len(Fresh(n)) = n
PROOF
  <1>1. 0 \in Chars
    BY LengthsAssumption DEF Chars
  <1>2. Fresh(n) = [k \in 1..n |-> 0] /\ Fresh(n) \in [1..n -> Chars]
    BY <1>1 DEF Fresh, Unset
  <1> HIDE DEF Fresh
  <1> QED BY <1>2

\* New memory behind the text changes neither its length nor what stands before.
LEMMA GrownArray ==
  ASSUME NEW s \in Seq(Chars), NEW p \in 0..Len(s), NEW n \in Nat
  PROVE  /\ SubSeq(s, 1, p) \o Fresh(n) \in Seq(Chars)
         /\ Len(SubSeq(s, 1, p) \o Fresh(n)) = p + n
         /\ \A k \in 1..p : (SubSeq(s, 1, p) \o Fresh(n))[k] = s[k]
PROOF
  <1> DEFINE head == SubSeq(s, 1, p)
             fresh == Fresh(n)
  <1>1. Len(s) \in Nat /\ p \in Nat /\ p <= Len(s) /\ \A k \in 1..p : s[k] \in Chars
    BY LenProperties
  <1>2. /\ head \in Seq(Chars) /\ Len(head) = p
        /\ \A k \in 1..p : head[k] = s[k]
    BY <1>1, SubSeqProperties
  <1>3. fresh \in Seq(Chars) /\ Len(fresh) = n
    BY FreshArray
  <1> HIDE DEF head, fresh
  <1>4. /\ head \o fresh \in Seq(Chars)
        /\ Len(head \o fresh) = p + n
        /\ \A k \in 1..(p + n) :
             (head \o fresh)[k] = IF k <= p THEN head[k] ELSE fresh[k - p]
    BY <1>2, <1>3, ConcatProperties
  <1>5. \A k \in 1..p : (head \o fresh)[k] = s[k]
    BY <1>1, <1>2, <1>4
  <1> QED BY <1>4, <1>5 DEF head, fresh

\* The length that overflow() asks for lies between the old length and the greatest one.
LEMMA GrownLength ==
  ASSUME NEW n \in FirstLen..MaxLen
  PROVE  Least(2 * n, MaxLen) \in n..MaxLen
PROOF BY LengthsAssumption DEF Least

\* At first nothing has been written.
LEMMA InitTextInv == BufferInit => TextInv
PROOF
  <1> SUFFICES ASSUME BufferInit PROVE TextInv
    OBVIOUS
  <1>1. FirstLen \in Nat /\ buffer \in Seq(Chars) /\ Len(buffer) = FirstLen
    BY LengthsAssumption, FreshArray DEF BufferInit
  <1>2. BufferTypeOK
    <2>1. Len(buffer) \in FirstLen..MaxLen /\ pptr \in 0..Len(buffer)
      BY <1>1, LengthsAssumption DEF BufferInit
    <2>2. sent \in Seq(Chars)
      BY DEF BufferInit
    <2>3. /\ writer = "out" /\ left = 0 /\ line \in 0..MaxLines /\ size = 0
          /\ badbit = FALSE /\ thrown = FALSE
      BY LengthsAssumption DEF BufferInit
    <2> QED BY <1>1, <2>1, <2>2, <2>3 DEF BufferTypeOK
  <1>3. LeftInv /\ OwnLineInv
    BY DEF BufferInit, LeftInv, OwnLineInv
  <1> QED BY <1>2, <1>3 DEF TextInv

\* What Put does to the array: the text grows at its end by characters of the line.
LEMMA PutArray ==
  ASSUME BufferTypeOK, Put
  PROVE  \E n \in Nat \ {0} :
           /\ n <= left /\ pptr + n <= Len(buffer)
           /\ pptr' = pptr + n /\ left' = left - n
           /\ buffer' \in Seq(Chars) /\ Len(buffer') = Len(buffer)
           /\ \A k \in 1..Len(buffer) :
                buffer'[k] = IF pptr < k /\ k <= pptr + n THEN line ELSE buffer[k]
PROOF
  <1> DEFINE n == Least(left, Len(buffer) - pptr)
  <1>1. /\ Len(buffer) \in Nat /\ pptr \in Nat /\ left \in Nat /\ line \in Chars
        /\ left > 0 /\ pptr < Len(buffer) /\ buffer \in Seq(Chars)
    BY LenProperties DEF BufferTypeOK, Put, Chars
  <1>2. n \in Nat \ {0} /\ n <= left /\ pptr + n <= Len(buffer)
    BY <1>1 DEF Least
  <1>3. /\ pptr' = pptr + n /\ left' = left - n
        /\ buffer' = [k \in DOMAIN buffer |->
                        IF k \in pptr + 1 .. pptr + n THEN line ELSE buffer[k]]
    BY DEF Put
  <1> HIDE DEF n
  <1>4. DOMAIN buffer = 1..Len(buffer) /\ \A k \in 1..Len(buffer) : buffer[k] \in Chars
    BY <1>1
  <1>5. buffer' = [k \in 1..Len(buffer) |->
                     IF k \in pptr + 1 .. pptr + n THEN line ELSE buffer[k]]
    BY <1>3, <1>4
  <1>6. \A k \in 1..Len(buffer) :
          buffer'[k] = IF pptr < k /\ k <= pptr + n THEN line ELSE buffer[k]
    BY <1>1, <1>2, <1>5
  <1>7. buffer' \in [1..Len(buffer) -> Chars]
    BY <1>1, <1>4, <1>5
  <1>8. buffer' \in Seq(Chars) /\ Len(buffer') = Len(buffer)
    BY <1>1, <1>7
  <1> QED BY <1>2, <1>3, <1>6, <1>8

\* Every step keeps the inductive invariant, action by action.
LEMMA NextTextInv == TextInv /\ [BufferNext]_bufferVars => TextInv'
PROOF
  <1> SUFFICES ASSUME TextInv, [BufferNext]_bufferVars PROVE TextInv'
    OBVIOUS
  <1>t. /\ BufferTypeOK /\ LeftInv /\ OwnLineInv
        /\ Len(buffer) \in Nat /\ pptr \in Nat /\ pptr <= Len(buffer)
        /\ left \in Nat /\ size \in Nat /\ MaxLen \in Nat /\ MaxLines \in Nat
    BY LenProperties, LengthsAssumption DEF TextInv, BufferTypeOK
  <1>1. ASSUME NEW n \in Lengths, BeginLine(n) PROVE TextInv'
    <2>1. n \in Nat \ {0} /\ line + 1 \in 0..MaxLines
      BY <1>1, <1>t, LengthsAssumption DEF BeginLine, BufferTypeOK
    <2>2. BufferTypeOK'
      BY <1>1, <1>t, <2>1 DEF BeginLine, BufferTypeOK
    <2>3. LeftInv' /\ OwnLineInv'
      BY <1>1, <1>t, <2>1 DEF BeginLine, LeftInv, OwnLineInv
    <2> QED BY <2>2, <2>3 DEF TextInv
  <1>2. CASE Put
    <2>1. PICK n \in Nat \ {0} :
            /\ n <= left /\ pptr + n <= Len(buffer)
            /\ pptr' = pptr + n /\ left' = left - n
            /\ buffer' \in Seq(Chars) /\ Len(buffer') = Len(buffer)
            /\ \A k \in 1..Len(buffer) :
                 buffer'[k] = IF pptr < k /\ k <= pptr + n THEN line ELSE buffer[k]
      BY <1>2, <1>t, PutArray
    <2>2. writer = "put" /\ UNCHANGED <<writer, line, badbit, sent, size, thrown>>
      BY <1>2 DEF Put
    <2>3. BufferTypeOK'
      BY <1>t, <2>1, <2>2 DEF BufferTypeOK
    <2>4. LeftInv'
      BY <2>2 DEF LeftInv
    <2>5. ASSUME ~thrown, size <= MaxLen
          PROVE  pptr' + left' = size /\ \A k \in 1..pptr' : buffer'[k] = line
      BY <1>t, <2>1, <2>2, <2>5 DEF OwnLineInv
    <2>6. OwnLineInv'
      BY <1>t, <2>2, <2>5 DEF OwnLineInv
    <2> QED BY <2>3, <2>4, <2>6 DEF TextInv
  <1>3. CASE Grow
    <2>1. /\ Least(2 * Len(buffer), MaxLen) \in Len(buffer)..MaxLen
          /\ pptr = Len(buffer)
      BY <1>3, <1>t, GrownLength DEF Grow, BufferTypeOK
    <2> DEFINE n == Least(2 * Len(buffer), MaxLen) - pptr
    <2>2. n \in Nat /\ pptr + n <= MaxLen
      BY <1>t, <2>1
    <2>3. /\ buffer' = SubSeq(buffer, 1, pptr) \o Fresh(n)
          /\ UNCHANGED <<pptr, writer, left, line, badbit, sent, size, thrown>>
      BY <1>3 DEF Grow
    <2> HIDE DEF n
    <2>4. /\ buffer' \in Seq(Chars) /\ Len(buffer') = pptr + n
          /\ \A k \in 1..pptr : buffer'[k] = buffer[k]
      BY <1>t, <2>2, <2>3, GrownArray DEF BufferTypeOK
    <2>5. BufferTypeOK'
      BY <1>t, <2>1, <2>2, <2>3, <2>4, LengthsAssumption DEF BufferTypeOK
    <2>6. LeftInv' /\ OwnLineInv'
      BY <1>t, <2>3, <2>4 DEF LeftInv, OwnLineInv
    <2> QED BY <2>5, <2>6 DEF TextInv
  <1>4. CASE SyncFull
    <2>1. BufferTypeOK'
      BY <1>4, <1>t DEF SyncFull, BufferTypeOK
    <2>2. LeftInv'
      BY <1>4 DEF SyncFull, LeftInv
    <2>3. pptr >= MaxLen /\ left > 0 /\ writer = "put"
      BY <1>4, <1>t DEF SyncFull, Full
    <2>4. OwnLineInv'
      BY <1>4, <1>t, <2>3 DEF SyncFull, OwnLineInv
    <2> QED BY <2>1, <2>2, <2>4 DEF TextInv
  <1>5. CASE SyncLine \/ LineDone
    <2>1. BufferTypeOK'
      BY <1>5, <1>t DEF SyncLine, LineDone, BufferTypeOK
    <2>2. LeftInv' /\ OwnLineInv'
      BY <1>5, <1>t DEF SyncLine, LineDone, LeftInv, OwnLineInv
    <2> QED BY <2>1, <2>2 DEF TextInv
  <1>6. ASSUME SyncReturns \/ \E wrote \in BOOLEAN : SyncThrows(wrote) PROVE TextInv'
    <2>1. Text \in Seq(Chars)
      BY <1>t, SubSeqProperties, ElementOfSeq DEF Text, BufferTypeOK
    <2>2. BufferTypeOK'
      <3>1. sent' \in Seq(Chars) /\ pptr' \in 0..Len(buffer) /\ left' \in Nat
        BY <1>6, <1>t, <2>1 DEF SyncReturns, SyncThrows, BufferTypeOK
      <3>2. /\ writer' \in {"out", "put"} /\ badbit' \in BOOLEAN /\ thrown' \in BOOLEAN
            /\ UNCHANGED <<buffer, line, size>>
        BY <1>6, <1>t DEF SyncReturns, SyncThrows, BufferTypeOK
      <3> QED BY <1>t, <3>1, <3>2 DEF BufferTypeOK
    <2>3. LeftInv'
      BY <1>6, <1>t DEF SyncReturns, SyncThrows, LeftInv
    <2>4. OwnLineInv'
      BY <1>6, <1>t DEF SyncReturns, SyncThrows, OwnLineInv, BufferTypeOK
    <2> QED BY <2>2, <2>3, <2>4 DEF TextInv
  <1>7. CASE LoseMemory
    <2>1. FirstLen \in Nat /\ buffer' \in Seq(Chars) /\ Len(buffer') = FirstLen
      BY <1>7, LengthsAssumption, FreshArray DEF LoseMemory
    <2>2. BufferTypeOK'
      <3>1. Len(buffer') \in FirstLen..MaxLen /\ pptr' \in 0..Len(buffer')
        BY <1>7, <2>1, LengthsAssumption DEF LoseMemory
      <3> QED BY <1>7, <1>t, <2>1, <3>1 DEF LoseMemory, BufferTypeOK
    <2>3. LeftInv' /\ OwnLineInv'
      BY <1>7, <1>t DEF LoseMemory, LeftInv, OwnLineInv
    <2> QED BY <2>2, <2>3 DEF TextInv
  <1>8. CASE UNCHANGED bufferVars
    BY <1>8, <1>t DEF bufferVars, TextInv, BufferTypeOK, LeftInv, OwnLineInv
  <1> QED BY <1>1, <1>2, <1>3, <1>4, <1>5, <1>6, <1>7, <1>8 DEF BufferNext

\* Types of every variable of the stream buffer, whose array never outgrows its bound.
THEOREM TypeCorrect == BufferSpec => []BufferTypeOK
PROOF
  <1>1. TextInv => BufferTypeOK BY DEF TextInv
  <1> QED BY <1>1, InitTextInv, NextTextInv, PTL DEF BufferSpec

\* What sync() hands on is one whole line for as long as no roll() has thrown and the
\* lines fit into the greatest array.
THEOREM NoLineTorn == BufferSpec => []LinesWhole
PROOF
  <1>1. TextInv => LinesWhole
    <2> SUFFICES ASSUME TextInv, writer \in {"overflow", "flush"}, ~thrown, size <= MaxLen
                 PROVE  Text = Characters(size)
      BY DEF LinesWhole
    <2>1. /\ buffer \in Seq(Chars) /\ Len(buffer) \in Nat
          /\ pptr \in Nat /\ pptr <= Len(buffer)
          /\ left = 0 /\ pptr = size
          /\ \A k \in 1..pptr : buffer[k] = line
      BY LenProperties, LengthsAssumption DEF TextInv, BufferTypeOK, LeftInv, OwnLineInv
    <2>2. SubSeq(buffer, 1, pptr) = [k \in 1..pptr |-> buffer[k]]
      BY <2>1
    <2> QED BY <2>1, <2>2 DEF Text, Characters
  <1> QED BY <1>1, InitTextInv, NextTextInv, PTL DEF BufferSpec
-----------------------------------------------------------------------------
\* Two halves of the array, put one behind the other, are its text.
LEMMA TextGrows ==
  ASSUME NEW s \in Seq(Chars), NEW r \in Seq(Chars), Len(r) = Len(s), NEW c \in Chars,
         NEW p \in Nat, NEW n \in Nat, p + n <= Len(s),
         NEW u, \A k \in 1..n : u[k] = c,
         \A k \in 1..Len(s) : r[k] = IF p < k /\ k <= p + n THEN c ELSE s[k]
  PROVE  SubSeq(r, 1, p + n) = SubSeq(s, 1, p) \o SubSeq(u, 1, n)
PROOF
  <1> DEFINE head == SubSeq(s, 1, p)
             tail == SubSeq(u, 1, n)
             all == SubSeq(r, 1, p + n)
  <1>1. Len(s) \in Nat /\ \A k \in 1..Len(s) : s[k] \in Chars /\ r[k] \in Chars
    BY LenProperties
  <1>2. /\ head \in Seq(Chars) /\ Len(head) = p
        /\ \A k \in 1..p : head[k] = s[k]
    BY <1>1, SubSeqProperties
  <1>3. /\ tail \in Seq(Chars) /\ Len(tail) = n
        /\ \A k \in 1..n : tail[k] = c
    BY SubSeqProperties
  <1>4. /\ all \in Seq(Chars) /\ Len(all) = p + n
        /\ \A k \in 1..(p + n) : all[k] = r[k]
    BY <1>1, SubSeqProperties
  <1> HIDE DEF head, tail, all
  <1>5. /\ head \o tail \in Seq(Chars) /\ Len(head \o tail) = p + n
        /\ \A k \in 1..(p + n) :
             (head \o tail)[k] = IF k <= p THEN head[k] ELSE tail[k - p]
    <2>1. /\ head \o tail \in Seq(Chars) /\ Len(head \o tail) = Len(head) + Len(tail)
          /\ \A k \in 1..(Len(head) + Len(tail)) :
               (head \o tail)[k] = IF k <= Len(head) THEN head[k] ELSE tail[k - Len(head)]
      BY <1>2, <1>3, ConcatProperties, ZenonT(60)
    <2> QED BY <1>2, <1>3, <2>1
  <1>6. \A k \in 1..(p + n) : all[k] = (head \o tail)[k]
    <2> SUFFICES ASSUME NEW k \in 1..(p + n) PROVE all[k] = (head \o tail)[k]
      OBVIOUS
    <2>1. CASE k <= p
      <3>1. k \in 1..p /\ k \in 1..Len(s) /\ ~(p < k)
        BY <1>1, <2>1
      <3> QED BY <1>2, <1>4, <1>5, <2>1, <3>1
    <2>2. CASE ~(k <= p)
      <3>1. k - p \in 1..n /\ p < k /\ k <= p + n /\ k \in 1..Len(s)
        BY <1>1, <2>2
      <3> QED BY <1>3, <1>4, <1>5, <2>2, <3>1
    <2> QED BY <2>1, <2>2
  <1>7. all = head \o tail
    BY <1>4, <1>5, <1>6, SeqEqual
  <1> QED BY <1>7 DEF head, tail, all

\* Every step of the stream buffer is a step of the sink or leaves it as it is.
LEMMA NextKeepsText ==
  TextInv /\ [BufferNext]_bufferVars => [Sink!Next]_<<Characters(left), Text, sent>>
PROOF
  <1> DEFINE Rest == Characters(left)
  <1> SUFFICES ASSUME TextInv, [BufferNext]_bufferVars
               PROVE  Sink!Next \/ (Rest' = Rest /\ Text' = Text /\ sent' = sent)
    OBVIOUS
  <1>t. /\ BufferTypeOK /\ LeftInv /\ OwnLineInv
        /\ Len(buffer) \in Nat /\ pptr \in Nat /\ pptr <= Len(buffer)
        /\ left \in Nat /\ line \in Chars /\ buffer \in Seq(Chars)
    BY LenProperties, LengthsAssumption DEF TextInv, BufferTypeOK, Chars
  <1>e. \A c : [k \in 1..0 |-> c] = <<>>
    OBVIOUS
  <1>1. ASSUME NEW n \in Lengths, BeginLine(n) PROVE Sink!Begin
    <2>1. Rest = <<>>
      BY <1>1, <1>t, <1>e DEF BeginLine, LeftInv, Characters
    <2>2. Rest' = [k \in 1..n |-> line + 1] /\ line + 1 \in Chars
      BY <1>1, <1>t, LengthsAssumption DEF BeginLine, Characters, Chars
    <2>3. Rest' \in Lines
      BY <2>2 DEF Lines
    <2> QED BY <1>1, <2>1, <2>3 DEF BeginLine, Sink!Begin, Text
  <1>2. CASE Put
    <2>1. PICK n \in Nat \ {0} :
            /\ n <= left /\ pptr + n <= Len(buffer)
            /\ pptr' = pptr + n /\ left' = left - n
            /\ buffer' \in Seq(Chars) /\ Len(buffer') = Len(buffer)
            /\ \A k \in 1..Len(buffer) :
                 buffer'[k] = IF pptr < k /\ k <= pptr + n THEN line ELSE buffer[k]
      BY <1>2, <1>t, PutArray
    <2>2. Text' = Text \o SubSeq(Rest, 1, n)
      <3>1. \A k \in 1..n : Rest[k] = line
        BY <1>t, <2>1 DEF Characters
      <3> HIDE DEF Rest
      <3>2. SubSeq(buffer', 1, pptr + n) = SubSeq(buffer, 1, pptr) \o SubSeq(Rest, 1, n)
        BY <1>t, <2>1, <3>1, TextGrows, SMTT(60)
      <3> QED BY <2>1, <3>2 DEF Text
    <2>3. Len(Rest) = left /\ n \in 1..Len(Rest)
      BY <1>t, <2>1 DEF Characters
    <2>4. Rest' = SubSeq(Rest, n + 1, Len(Rest))
      <3>1. line' = line
        BY <1>2 DEF Put
      <3> QED BY <1>t, <2>1, <2>3, <3>1 DEF Characters
    <2>5. sent' = sent
      BY <1>2 DEF Put
    <2> QED BY <2>2, <2>3, <2>4, <2>5 DEF Sink!Take, Sink!Next
  <1>3. CASE Grow
    <2>1. /\ Least(2 * Len(buffer), MaxLen) \in Len(buffer)..MaxLen
          /\ pptr = Len(buffer) /\ MaxLen \in Nat
      BY <1>3, <1>t, GrownLength, LengthsAssumption DEF Grow, BufferTypeOK
    <2> DEFINE n == Least(2 * Len(buffer), MaxLen) - pptr
    <2>2. n \in Nat
      BY <1>t, <2>1
    <2>3. buffer' = SubSeq(buffer, 1, pptr) \o Fresh(n) /\ pptr' = pptr
          /\ UNCHANGED <<left, line, sent>>
      BY <1>3 DEF Grow
    <2> HIDE DEF n
    <2>4. /\ buffer' \in Seq(Chars) /\ Len(buffer') = pptr + n
          /\ \A k \in 1..pptr : buffer'[k] = buffer[k]
      BY <1>t, <2>2, <2>3, GrownArray DEF BufferTypeOK
    <2>5. SubSeq(buffer', 1, pptr) = SubSeq(buffer, 1, pptr)
      BY <1>t, <2>2, <2>4
    <2> QED BY <2>3, <2>5 DEF Text, Characters
  <1>4. CASE SyncFull \/ SyncLine \/ LineDone
    BY <1>4 DEF SyncFull, SyncLine, LineDone, Text, Characters
  <1>5. CASE SyncReturns
    <2>1. Text' = <<>>
      BY <1>5, <1>t DEF SyncReturns, Text
    <2> QED BY <1>5, <2>1 DEF SyncReturns, Characters, Sink!Send, Sink!Next
  <1>6. ASSUME NEW wrote \in BOOLEAN, SyncThrows(wrote) PROVE Sink!Fail
    <2>1. Rest' = <<>>
      BY <1>6, <1>e DEF SyncThrows, Characters
    <2>2. Text' = Text
      BY <1>6 DEF SyncThrows, Text
    <2> QED BY <1>6, <2>1, <2>2 DEF SyncThrows, Sink!Fail
  <1>7. CASE LoseMemory
    <2>1. Rest' = <<>> /\ Text' = <<>>
      BY <1>7, <1>e DEF LoseMemory, Characters, Text
    <2> QED BY <1>7, <2>1 DEF LoseMemory, Sink!Die, Sink!Next
  <1>8. CASE UNCHANGED bufferVars
    BY <1>8 DEF bufferVars, Text, Characters
  <1> QED BY <1>1, <1>2, <1>3, <1>4, <1>5, <1>6, <1>7, <1>8 DEF BufferNext, Sink!Next

\* The array in memory implements the sink: no text is lost, doubled or reordered on its
\* way to roll(), wherever the array ends and whenever it grows.
THEOREM ImplementsSink == BufferSpec => KeepsText
PROOF
  <1>1. BufferInit => Sink!Init
    BY DEF BufferInit, Sink!Init, Characters, Text
  <1> QED BY <1>1, InitTextInv, NextTextInv, NextKeepsText, PTL
      DEF BufferSpec, KeepsText, Sink!Spec, Sink!vars
-----------------------------------------------------------------------------
(* The log files *)

\* Rotation at depth 1 writes to path0.log (see the README) and is left out.
Deep == \A n \in MaxNums : n > 1

\* Files d that hold some of the first b batches, sorted as AgesSorted has it.
SortedFiles(d, b) ==
  /\ DOMAIN d \subseteq Nat
  /\ \A n \in DOMAIN d : d[n] \in Seq(1..b)
  /\ \A n \in DOMAIN d : \A k \in 1..(Len(d[n]) - 1) : d[n][k] < d[n][k + 1]
  /\ \A m, n \in DOMAIN d : m > n => Older(d[m], d[n])

\* The stream is attached to path.log, if to any file, and a rotation goes no higher than
\* the name that m_maxNum allows.
SortedInv ==
  /\ SortedFiles(disk, batches)
  /\ ofs \in {NoFile, 0} /\ maxNum \in MaxNums /\ batches \in Nat /\ i \in Int
  /\ pc = "rename" => i <= maxNum - 2
-----------------------------------------------------------------------------
\* The elements of a sequence.
LEMMA Elements ==
  ASSUME NEW S, NEW s \in Seq(S)
  PROVE  /\ ToSet(s) = {s[k] : k \in 1..Len(s)}
         /\ ToSet(s) \subseteq S
PROOF
  <1>1. DOMAIN s = 1..Len(s) /\ \A k \in 1..Len(s) : s[k] \in S
    OBVIOUS
  <1> QED BY <1>1 DEF ToSet

\* A batch younger than all others keeps the file sorted to whose end it goes.
LEMMA AppendYoungest ==
  ASSUME NEW n \in Nat, NEW s \in Seq(1..n),
         \A k \in 1..(Len(s) - 1) : s[k] < s[k + 1]
  PROVE  /\ Append(s, n + 1) \in Seq(1..(n + 1))
         /\ ToSet(Append(s, n + 1)) = ToSet(s) \cup {n + 1}
         /\ \A k \in 1..(Len(Append(s, n + 1)) - 1) :
              Append(s, n + 1)[k] < Append(s, n + 1)[k + 1]
PROOF
  <1> DEFINE r == Append(s, n + 1)
  <1>1. /\ Len(s) \in Nat /\ \A k \in 1..Len(s) : s[k] \in 1..n
        /\ s \in Seq(1..(n + 1)) /\ n + 1 \in 1..(n + 1)
    <2>1. 1..n \subseteq 1..(n + 1) OBVIOUS
    <2> QED BY <2>1, LenProperties
  <1>2. /\ r \in Seq(1..(n + 1)) /\ Len(r) = Len(s) + 1
        /\ \A k \in 1..Len(s) : r[k] = s[k]
        /\ r[Len(s) + 1] = n + 1
    BY <1>1, AppendProperties
  <1> HIDE DEF r
  <1>3. ToSet(r) = {r[k] : k \in 1..(Len(s) + 1)} /\ ToSet(s) = {s[k] : k \in 1..Len(s)}
    BY <1>1, <1>2, Elements
  <1>4. 1..(Len(s) + 1) = 1..Len(s) \cup {Len(s) + 1}
    BY <1>1
  <1>5. ToSet(r) = ToSet(s) \cup {n + 1}
    <2>1. {r[k] : k \in 1..Len(s)} = {s[k] : k \in 1..Len(s)}
      BY <1>2
    <2>2. {r[k] : k \in 1..(Len(s) + 1)} = {r[k] : k \in 1..Len(s)} \cup {r[Len(s) + 1]}
      BY <1>4
    <2> QED BY <1>2, <1>3, <2>1, <2>2
  <1>6. \A k \in 1..(Len(r) - 1) : r[k] < r[k + 1]
    <2> SUFFICES ASSUME NEW k \in 1..Len(s) PROVE r[k] < r[k + 1]
      BY <1>1, <1>2
    <2>1. CASE k = Len(s)
      BY <1>1, <1>2, <2>1
    <2>2. CASE k # Len(s)
      <3>1. k \in 1..(Len(s) - 1) /\ k + 1 \in 1..Len(s)
        BY <1>1, <2>2
      <3> QED BY <1>2, <3>1
    <2> QED BY <2>1, <2>2
  <1> QED BY <1>2, <1>5, <1>6 DEF r

\* Opening path.log makes it, if it is missing, and leaves the others as they are.
LEMMA OpenSorted ==
  ASSUME NEW d, NEW b, SortedFiles(d, b)
  PROVE  /\ SortedFiles(OpenedFile(d, 0), b)
         /\ DOMAIN OpenedFile(d, 0) = DOMAIN d \cup {0}
         /\ \A n \in DOMAIN d : OpenedFile(d, 0)[n] = d[n]
         /\ 0 \notin DOMAIN d => OpenedFile(d, 0)[0] = <<>>
PROOF
  <1> DEFINE f == OpenedFile(d, 0)
  <1>1. /\ DOMAIN f = DOMAIN d \cup {0}
        /\ \A n \in DOMAIN d : f[n] = d[n]
        /\ 0 \notin DOMAIN d => f[0] = <<>>
    BY DEF OpenedFile
  <1>2. <<>> \in Seq(1..b) /\ Len(<<>>) = 0 /\ ToSet(<<>>) = {}
    BY DEF ToSet
  <1> HIDE DEF f
  <1>3. /\ DOMAIN f \subseteq Nat
        /\ \A n \in DOMAIN f : f[n] \in Seq(1..b)
    <2>1. DOMAIN d \subseteq Nat /\ \A n \in DOMAIN d : d[n] \in Seq(1..b)
      BY DEF SortedFiles
    <2>2. 0 \notin DOMAIN d => f[0] \in Seq(1..b)
      BY <1>1, <1>2
    <2> QED BY <1>1, <2>1, <2>2
  <1>4. \A n \in DOMAIN f : \A k \in 1..(Len(f[n]) - 1) : f[n][k] < f[n][k + 1]
    BY <1>1, <1>2 DEF SortedFiles
  <1>5. \A m, n \in DOMAIN f : m > n => Older(f[m], f[n])
    BY <1>1, <1>2 DEF SortedFiles, Older
  <1> QED BY <1>1, <1>3, <1>4, <1>5 DEF SortedFiles, f

\* What is sorted among b batches is so among more.
LEMMA MoreSorted ==
  ASSUME NEW d, NEW b \in Nat, SortedFiles(d, b)
  PROVE  SortedFiles(d, b + 1)
PROOF
  <1>1. 1..b \subseteq 1..(b + 1)
    OBVIOUS
  <1>2. Seq(1..b) \subseteq Seq(1..(b + 1))
    BY <1>1
  <1> QED BY <1>2 DEF SortedFiles

\* The next batch goes to the end of path.log, which nothing is younger than.
LEMMA AppendSorted ==
  ASSUME NEW d, NEW b \in Nat, SortedFiles(d, b), 0 \in DOMAIN d
  PROVE  LET f == [d EXCEPT ![0] = Append(@, b + 1)] IN
           /\ SortedFiles(f, b + 1)
           /\ DOMAIN f = DOMAIN d
           /\ \A n \in DOMAIN d \ {0} : f[n] = d[n]
           /\ ToSet(f[0]) = ToSet(d[0]) \cup {b + 1}
PROOF
  <1> DEFINE f == [d EXCEPT ![0] = Append(@, b + 1)]
  <1>1. /\ DOMAIN f = DOMAIN d /\ f[0] = Append(d[0], b + 1)
        /\ \A n \in DOMAIN d \ {0} : f[n] = d[n]
    OBVIOUS
  <1>2. /\ f[0] \in Seq(1..(b + 1))
        /\ ToSet(f[0]) = ToSet(d[0]) \cup {b + 1}
        /\ \A k \in 1..(Len(f[0]) - 1) : f[0][k] < f[0][k + 1]
    BY <1>1, AppendYoungest DEF SortedFiles
  <1>3. SortedFiles(d, b + 1)
    BY MoreSorted
  <1> HIDE DEF f
  <1>4. /\ DOMAIN f \subseteq Nat
        /\ \A n \in DOMAIN f : f[n] \in Seq(1..(b + 1))
        /\ \A n \in DOMAIN f : \A k \in 1..(Len(f[n]) - 1) : f[n][k] < f[n][k + 1]
    BY <1>1, <1>2, <1>3 DEF SortedFiles
  <1>5. ASSUME NEW m \in DOMAIN f, NEW n \in DOMAIN f, m > n
        PROVE  Older(f[m], f[n])
    <2>1. m \in Nat /\ n \in Nat /\ m # 0 /\ f[m] = d[m]
      BY <1>1, <1>4, <1>5
    <2>2. Older(d[m], d[n])
      BY <1>1, <1>5 DEF SortedFiles
    <2>3. \A x \in ToSet(d[m]) : x \in 1..b
      BY <1>1, <1>5, Elements DEF SortedFiles
    <2>4. CASE n = 0
      <3>1. \A x \in ToSet(d[m]) : x < b + 1
        BY <2>3
      <3> QED BY <1>2, <2>1, <2>2, <2>4, <3>1 DEF Older
    <2>5. CASE n # 0
      BY <1>1, <1>5, <2>1, <2>2, <2>5 DEF Older
    <2> QED BY <2>4, <2>5
  <1>6. SortedFiles(f, b + 1)
    BY <1>4, <1>5 DEF SortedFiles
  <1> QED BY <1>1, <1>2, <1>6 DEF f

\* Removing a file leaves the others sorted.
LEMMA RemoveSorted ==
  ASSUME NEW b, SortedFiles(disk, b), NEW n
  PROVE  /\ SortedFiles(Restrict(disk, DOMAIN disk \ {n}), b)
         /\ DOMAIN Restrict(disk, DOMAIN disk \ {n}) = DOMAIN disk \ {n}
         /\ \A m \in DOMAIN disk \ {n} : Restrict(disk, DOMAIN disk \ {n})[m] = disk[m]
PROOF
  <1> DEFINE f == Restrict(disk, DOMAIN disk \ {n})
  <1>1. DOMAIN f = DOMAIN disk \ {n} /\ \A m \in DOMAIN f : f[m] = disk[m]
    BY DEF Restrict
  <1> HIDE DEF f
  <1>2. SortedFiles(f, b)
    BY <1>1 DEF SortedFiles
  <1> QED BY <1>1, <1>2 DEF f

\* A file that takes the next higher name, in the place of the one that had it, is where
\* its age belongs.
LEMMA RenameSorted ==
  ASSUME NEW b, SortedFiles(disk, b), NEW a \in DOMAIN disk
  PROVE  /\ SortedFiles(RenamedTo(a, a + 1), b)
         /\ DOMAIN RenamedTo(a, a + 1) = (DOMAIN disk \ {a}) \cup {a + 1}
         /\ RenamedTo(a, a + 1)[a + 1] = disk[a]
         /\ \A m \in DOMAIN disk \ {a, a + 1} : RenamedTo(a, a + 1)[m] = disk[m]
PROOF
  <1> DEFINE f == RenamedTo(a, a + 1)
  <1>1. a \in Nat /\ DOMAIN disk \subseteq Nat
    BY DEF SortedFiles
  <1>2. /\ DOMAIN f = (DOMAIN disk \ {a}) \cup {a + 1}
        /\ f[a + 1] = disk[a]
        /\ \A m \in DOMAIN disk \ {a, a + 1} : f[m] = disk[m]
    BY DEF RenamedTo
  <1> HIDE DEF f
  <1>3. \A n \in DOMAIN f : n = a + 1 \/ n \in DOMAIN disk \ {a, a + 1}
    BY <1>2
  <1>4. /\ DOMAIN f \subseteq Nat
        /\ \A n \in DOMAIN f : f[n] \in Seq(1..b)
        /\ \A n \in DOMAIN f : \A k \in 1..(Len(f[n]) - 1) : f[n][k] < f[n][k + 1]
    BY <1>1, <1>2, <1>3 DEF SortedFiles
  <1>5. ASSUME NEW m \in DOMAIN f, NEW n \in DOMAIN f, m > n
        PROVE  Older(f[m], f[n])
    <2>1. CASE m = a + 1
      <3>1. n \in DOMAIN disk \ {a, a + 1} /\ a > n
        BY <1>1, <1>3, <1>4, <1>5, <2>1
      <3> QED BY <1>2, <2>1, <3>1 DEF SortedFiles
    <2>2. CASE n = a + 1
      <3>1. m \in DOMAIN disk \ {a, a + 1} /\ m > a
        BY <1>1, <1>3, <1>4, <1>5, <2>2
      <3> QED BY <1>2, <2>2, <3>1 DEF SortedFiles
    <2>3. CASE m # a + 1 /\ n # a + 1
      BY <1>2, <1>3, <1>5, <2>3 DEF SortedFiles
    <2> QED BY <2>1, <2>2, <2>3
  <1> QED BY <1>2, <1>4, <1>5 DEF SortedFiles, f
-----------------------------------------------------------------------------
\* At first there is no file.
LEMMA InitSorted == Deep /\ Init => SortedInv
PROOF BY DEF Init, SortedInv, SortedFiles

\* Each file operation of a roll, a change of m_maxNum and a death of the process.
LEMMA NextSorted == Deep /\ SortedInv /\ [Next]_vars => SortedInv'
PROOF
  <1> SUFFICES ASSUME Deep, SortedInv, [Next]_vars PROVE SortedInv'
    OBVIOUS
  <1>t. /\ SortedFiles(disk, batches) /\ batches \in Nat
        /\ maxNum \in MaxNums /\ maxNum \in Nat /\ maxNum > 1
        /\ NoFile # 0
    BY NumbersAssumption, FileAssumption DEF SortedInv, Deep
  <1>1. ASSUME NEW age \in Ages, Roll(age) PROVE SortedInv'
    <2>1. /\ batches' = batches + 1 /\ UNCHANGED <<maxNum, i>>
          /\ WriteBatch(batches + 1, age)
      BY <1>1 DEF Roll
    <2> DEFINE now == IF age = "short" THEN ofs ELSE NoFile
               target == IF now = NoFile THEN 0 ELSE now
               files == OpenedFile(disk, 0)
    <2>2. target = 0
      BY DEF SortedInv
    <2>3. /\ ofs' \in {NoFile, 0} /\ pc' # "rename"
          /\ \/ disk' = disk
             \/ disk' = files
             \/ disk' = [files EXCEPT ![0] = Append(@, batches + 1)]
      BY <2>1, <2>2 DEF WriteBatch
    <2> HIDE DEF now, target
    <2>4. SortedFiles(files, batches) /\ 0 \in DOMAIN files
      BY <1>t, OpenSorted
    <2> HIDE DEF files
    <2>5. SortedFiles(disk', batches + 1)
      BY <1>t, <2>3, <2>4, MoreSorted, AppendSorted
    <2> QED BY <1>t, <2>1, <2>3, <2>5 DEF SortedInv
  <1>2. CASE RemoveLast
    <2>1. SortedFiles(disk', batches)
      BY <1>2, <1>t, RemoveSorted DEF RemoveLast
    <2>2. i' = maxNum - 2 /\ UNCHANGED <<ofs, maxNum, batches>>
      BY <1>2 DEF RemoveLast, histVars
    <2> QED BY <1>t, <2>1, <2>2 DEF SortedInv
  <1>3. CASE Rename
    <2>1. SortedFiles(disk', batches)
      BY <1>3, <1>t, RenameSorted DEF Rename
    <2>2. pc = "rename" /\ i' = i - 1 /\ UNCHANGED <<ofs, pc, maxNum, batches>>
      BY <1>3 DEF Rename
    <2> QED BY <1>t, <2>1, <2>2 DEF SortedInv
  <1>4. CASE Reopen
    <2>1. SortedFiles(disk', batches) /\ ofs' \in {NoFile, 0}
      <3>1. \/ ofs' = 0 /\ disk' = OpenedFile(disk, 0)
            \/ ofs' = NoFile /\ disk' = disk
        BY <1>4, <1>t DEF Reopen
      <3> QED BY <1>t, <3>1, OpenSorted
    <2>2. pc' = "out" /\ UNCHANGED <<maxNum, i, batches>>
      BY <1>4 DEF Reopen, histVars
    <2> QED BY <1>t, <2>1, <2>2 DEF SortedInv
  <1>5. ASSUME NEW n \in MaxNums, SetMaxNum(n) PROVE SortedInv'
    BY <1>5, <1>t DEF SetMaxNum, SortedInv
  <1>6. CASE Crash
    BY <1>6, <1>t DEF Crash, SortedInv
  <1>7. CASE UNCHANGED vars
    BY <1>7 DEF vars, rollVars, histVars, SortedInv
  <1> QED BY <1>1, <1>2, <1>3, <1>4, <1>5, <1>6, <1>7 DEF Next

\* From the highest number down to path.log the files give the log in order, for every
\* depth of rotation but one, after any failure and any number of deaths.
THEOREM FilesSorted == ASSUME Deep PROVE Spec => []AgesSorted
PROOF
  <1>1. SortedInv => AgesSorted
    BY DEF SortedInv, SortedFiles, AgesSorted
  <1> QED BY <1>1, InitSorted, NextSorted, Deep, PTL DEF Spec
-----------------------------------------------------------------------------
\* While m_maxNum has not been lowered and no rename has failed, no file has a number
\* that the next removal will not come to, and the name that a rename gives is free.
PlacesInv ==
  ~lowered /\ ~uneven =>
    /\ DOMAIN disk \subseteq 0..(maxNum - 1)
    /\ pc = "rename" => i + 1 \notin DOMAIN disk

LostInv ==
  /\ SortedInv /\ PlacesInv /\ LosesOldestFirst
  /\ written \subseteq 1..batches

\* What is on disk, file by file.
LEMMA OnDiskFiles == \A x : x \in OnDisk <=> \E n \in DOMAIN disk : x \in ToSet(disk[n])
PROOF BY DEF OnDisk

\* The same after a step.
LEMMA OnDiskPrimed == \A x : x \in OnDisk' <=> \E n \in DOMAIN disk' : x \in ToSet(disk'[n])
PROOF BY DEF OnDisk

\* At first nothing is lost.
LEMMA InitLost == Deep /\ Init => LostInv
PROOF
  <1> SUFFICES ASSUME Deep, Init PROVE LostInv
    OBVIOUS
  <1>1. SortedInv
    BY InitSorted
  <1>2. PlacesInv /\ LosesOldestFirst /\ written \subseteq 1..batches
    BY DEF Init, PlacesInv, LosesOldestFirst
  <1> QED BY <1>1, <1>2 DEF LostInv

\* Of what one roll does to path.log: nothing leaves the disk.
LEMMA RollLost ==
  ASSUME Deep, LostInv, NEW age \in Ages, Roll(age)
  PROVE  PlacesInv' /\ LosesOldestFirst' /\ (written \subseteq 1..batches)'
PROOF
  <1>t. /\ SortedFiles(disk, batches) /\ batches \in Nat
        /\ maxNum \in Nat /\ maxNum > 1 /\ NoFile # 0
    BY NumbersAssumption, FileAssumption DEF LostInv, SortedInv, Deep
  <1>1. /\ batches' = batches + 1 /\ UNCHANGED <<maxNum, lowered, uneven>>
        /\ WriteBatch(batches + 1, age)
    BY DEF Roll
  <1> DEFINE now == IF age = "short" THEN ofs ELSE NoFile
             target == IF now = NoFile THEN 0 ELSE now
             files == OpenedFile(disk, 0)
             longer == [files EXCEPT ![0] = Append(@, batches + 1)]
  <1>2. target = 0
    BY DEF LostInv, SortedInv
  <1>3. /\ pc' # "rename"
        /\ \/ disk' = disk /\ written' = written
           \/ disk' = files /\ written' = written
           \/ disk' = longer /\ written' = written \cup {batches + 1}
    BY <1>1, <1>2 DEF WriteBatch
  <1> HIDE DEF now, target
  <1>4. /\ SortedFiles(files, batches)
        /\ DOMAIN files = DOMAIN disk \cup {0}
        /\ \A n \in DOMAIN disk : files[n] = disk[n]
        /\ 0 \notin DOMAIN disk => files[0] = <<>>
    BY <1>t, OpenSorted
  <1> HIDE DEF files
  <1>5. /\ DOMAIN longer = DOMAIN files
        /\ \A n \in DOMAIN files \ {0} : longer[n] = files[n]
        /\ ToSet(longer[0]) = ToSet(files[0]) \cup {batches + 1}
    BY <1>t, <1>4, AppendSorted
  <1> HIDE DEF longer
  <1>6. PlacesInv'
    BY <1>t, <1>1, <1>3, <1>4, <1>5 DEF LostInv, PlacesInv
  <1>7. written \subseteq 1..batches /\ written' \subseteq 1..batches'
    <2>1. written \subseteq 1..batches
      BY DEF LostInv
    <2>2. 1..batches \subseteq 1..(batches + 1) /\ batches + 1 \in 1..(batches + 1)
      BY <1>t
    <2> QED BY <1>1, <1>3, <2>1, <2>2
  <1>8. \A x \in OnDisk : x \in OnDisk'
    BY <1>3, <1>4, <1>5, OnDiskFiles, OnDiskPrimed
  <1>9. \A y \in OnDisk' : y \in OnDisk \/ (y = batches + 1 /\ written' = written \cup {y})
    <2>1. ToSet(<<>>) = {}
      BY DEF ToSet
    <2> QED BY <1>3, <1>4, <1>5, <2>1, OnDiskFiles, OnDiskPrimed
  <1>10. ASSUME ~lowered', ~uneven', NEW x \in written' \ OnDisk', NEW y \in OnDisk'
         PROVE  x < y
    <2>1. x \in written
      <3>1. CASE disk' = longer
        <4>1. batches + 1 \in OnDisk'
          BY <1>4, <1>5, <3>1, OnDiskPrimed
        <4> QED BY <1>3, <1>10, <4>1
      <3>2. CASE disk' # longer
        BY <1>3, <1>10, <3>2
      <3> QED BY <3>1, <3>2
    <2>2. CASE y \in OnDisk
      BY <1>1, <1>8, <1>10, <2>1, <2>2 DEF LostInv, LosesOldestFirst
    <2>3. CASE y = batches + 1
      BY <1>t, <1>7, <2>1, <2>3
    <2> QED BY <1>9, <1>10, <2>2, <2>3
  <1> QED BY <1>6, <1>7, <1>10 DEF LosesOldestFirst

\* Every file operation, and every death, loses the oldest first.
LEMMA NextLost == Deep /\ LostInv /\ [Next]_vars => LostInv'
PROOF
  <1> SUFFICES ASSUME Deep, LostInv, [Next]_vars PROVE LostInv'
    OBVIOUS
  <1>t. /\ SortedFiles(disk, batches) /\ batches \in Nat /\ i \in Int
        /\ maxNum \in Nat /\ maxNum > 1 /\ NoFile # 0
        /\ DOMAIN disk \subseteq Nat
        /\ pc = "rename" => i <= maxNum - 2
    <2>1. /\ SortedFiles(disk, batches) /\ batches \in Nat /\ i \in Int /\ maxNum \in MaxNums
          /\ pc = "rename" => i <= maxNum - 2
      BY DEF LostInv, SortedInv
    <2>2. maxNum \in Nat /\ maxNum > 1
      BY <2>1, NumbersAssumption DEF Deep
    <2>3. NoFile # 0
      BY FileAssumption
    <2>4. DOMAIN disk \subseteq Nat
      BY <2>1 DEF SortedFiles
    <2> QED BY <2>1, <2>2, <2>3, <2>4
  <1>s. SortedInv'
    BY NextSorted DEF LostInv
  <1>1. ASSUME NEW age \in Ages, Roll(age) PROVE LostInv'
    BY <1>1, <1>s, RollLost DEF LostInv
  <1>2. CASE RemoveLast
    <2>1. /\ i' = maxNum - 2 /\ LastFile = maxNum - 1
          /\ UNCHANGED <<maxNum, batches, written, lowered, uneven>>
          /\ \/ /\ disk' = Restrict(disk, DOMAIN disk \ {LastFile})
                /\ pc' = "rename"
             \/ disk' = disk /\ pc' = "out"
      BY <1>2, <1>t DEF RemoveLast, histVars, LastFile
    <2>2. CASE disk' = disk /\ pc' = "out"
      BY <1>s, <2>1, <2>2 DEF LostInv, PlacesInv, LosesOldestFirst, OnDisk
    <2>3. CASE disk' = Restrict(disk, DOMAIN disk \ {LastFile}) /\ pc' = "rename"
      <3>1. /\ DOMAIN disk' = DOMAIN disk \ {maxNum - 1}
            /\ \A m \in DOMAIN disk' : disk'[m] = disk[m]
        BY <1>t, <2>1, <2>3, RemoveSorted
      <3>2. PlacesInv'
        <4>1. i' + 1 = maxNum - 1
          BY <1>t, <2>1
        <4> QED BY <2>1, <3>1, <4>1 DEF LostInv, PlacesInv
      <3>3. ASSUME ~lowered, ~uneven, NEW x \in written \ OnDisk', NEW y \in OnDisk'
            PROVE  x < y
        <4>1. PICK n \in DOMAIN disk' : y \in ToSet(disk'[n])
          BY <3>3, OnDiskPrimed
        <4>2. n \in DOMAIN disk /\ y \in ToSet(disk[n]) /\ n < maxNum - 1 /\ y \in OnDisk
          <5>1. n \in 0..(maxNum - 1) /\ n # maxNum - 1
            BY <3>1, <3>3, <4>1 DEF LostInv, PlacesInv
          <5> QED BY <1>t, <3>1, <4>1, <5>1, OnDiskFiles
        <4>3. CASE x \notin OnDisk
          BY <3>3, <4>2, <4>3 DEF LostInv, LosesOldestFirst
        <4>4. CASE x \in OnDisk
          <5>1. maxNum - 1 \in DOMAIN disk /\ x \in ToSet(disk[maxNum - 1])
            BY <3>1, <3>3, <4>4, OnDiskFiles, OnDiskPrimed
          <5>2. Older(disk[maxNum - 1], disk[n])
            BY <1>t, <4>2, <5>1 DEF SortedFiles
          <5> QED BY <4>2, <5>1, <5>2 DEF Older
        <4> QED BY <4>3, <4>4
      <3> QED BY <1>s, <2>1, <3>2, <3>3 DEF LostInv, LosesOldestFirst
    <2> QED BY <2>1, <2>2, <2>3
  <1>3. CASE Rename
    <2>1. /\ pc = "rename" /\ pc' = pc /\ i >= 0 /\ i' = i - 1
          /\ UNCHANGED <<maxNum, batches, written, lowered>>
          /\ \/ /\ i \in DOMAIN disk /\ disk' = RenamedTo(i, i + 1)
                /\ uneven' = uneven
             \/ uneven' = TRUE
             \/ i \notin DOMAIN disk /\ disk' = disk /\ uneven' = uneven
      BY <1>3 DEF Rename
    <2>2. i' + 1 = i
      BY <1>t, <2>1
    <2>3. CASE uneven'
      BY <1>s, <2>1, <2>3 DEF LostInv, PlacesInv, LosesOldestFirst
    <2>4. CASE i \notin DOMAIN disk /\ disk' = disk /\ uneven' = uneven
      BY <1>s, <2>1, <2>2, <2>4 DEF LostInv, PlacesInv, LosesOldestFirst, OnDisk
    <2>5. CASE i \in DOMAIN disk /\ disk' = RenamedTo(i, i + 1) /\ ~uneven' /\ uneven' = uneven
      <3>1. /\ DOMAIN disk' = (DOMAIN disk \ {i}) \cup {i + 1}
            /\ disk'[i + 1] = disk[i]
            /\ \A m \in DOMAIN disk \ {i, i + 1} : disk'[m] = disk[m]
        BY <1>t, <2>5, RenameSorted
      <3>2. CASE lowered
        BY <1>s, <2>1, <3>2 DEF LostInv, PlacesInv, LosesOldestFirst
      <3>3. CASE ~lowered
        <4>1. DOMAIN disk \subseteq 0..(maxNum - 1) /\ i + 1 \notin DOMAIN disk
          BY <2>1, <2>5, <3>3 DEF LostInv, PlacesInv
        <4>2. i + 1 \in 0..(maxNum - 1) /\ i # i + 1
          BY <1>t, <2>1
        <4>3. PlacesInv'
          BY <2>1, <2>2, <3>1, <4>1, <4>2 DEF PlacesInv
        <4>4. \A x : x \in OnDisk' <=> x \in OnDisk
          BY <2>5, <3>1, <4>1, OnDiskFiles, OnDiskPrimed
        <4>5. LosesOldestFirst'
          BY <2>1, <2>5, <3>3, <4>4 DEF LostInv, LosesOldestFirst
        <4> QED BY <1>s, <2>1, <4>3, <4>5 DEF LostInv
      <3> QED BY <3>2, <3>3
    <2> QED BY <2>1, <2>3, <2>4, <2>5
  <1>4. CASE Reopen
    <2>1. /\ pc' = "out" /\ UNCHANGED <<maxNum, batches, written, lowered, uneven>>
          /\ disk' = disk \/ disk' = OpenedFile(disk, 0)
      BY <1>4, <1>t DEF Reopen, histVars
    <2>2. CASE disk' = disk
      BY <1>s, <2>1, <2>2 DEF LostInv, PlacesInv, LosesOldestFirst, OnDisk
    <2>3. CASE disk' = OpenedFile(disk, 0)
      <3>1. /\ DOMAIN disk' = DOMAIN disk \cup {0}
            /\ \A n \in DOMAIN disk : disk'[n] = disk[n]
            /\ 0 \notin DOMAIN disk => disk'[0] = <<>>
        BY <1>t, <2>3, OpenSorted
      <3>2. PlacesInv'
        BY <1>t, <2>1, <3>1 DEF LostInv, PlacesInv
      <3>3. \A x : x \in OnDisk' <=> x \in OnDisk
        <4>1. ToSet(<<>>) = {}
          BY DEF ToSet
        <4> QED BY <3>1, <4>1, OnDiskFiles, OnDiskPrimed
      <3> QED BY <1>s, <2>1, <3>2, <3>3 DEF LostInv, LosesOldestFirst
    <2> QED BY <2>1, <2>2, <2>3
  <1>5. ASSUME NEW n \in MaxNums, SetMaxNum(n) PROVE LostInv'
    <2>1. /\ maxNum' = n /\ n \in Nat /\ pc' = "out"
          /\ UNCHANGED <<disk, batches, written, uneven>>
      BY <1>5, NumbersAssumption DEF SetMaxNum
    <2>2. ~lowered' => ~lowered /\ ~(n < maxNum)
      BY <1>5 DEF SetMaxNum
    <2>3. PlacesInv'
      <3> SUFFICES ASSUME ~lowered', ~uneven PROVE DOMAIN disk \subseteq 0..(n - 1)
        BY <2>1 DEF PlacesInv
      <3>1. DOMAIN disk \subseteq 0..(maxNum - 1)
        BY <2>2 DEF LostInv, PlacesInv
      <3>2. 0..(maxNum - 1) \subseteq 0..(n - 1)
        BY <1>t, <2>1, <2>2
      <3> QED BY <3>1, <3>2
    <2>4. LosesOldestFirst'
      BY <2>1, <2>2 DEF LostInv, LosesOldestFirst, OnDisk
    <2> QED BY <1>s, <2>1, <2>3, <2>4 DEF LostInv
  <1>6. CASE Crash
    BY <1>6, <1>s DEF Crash, LostInv, PlacesInv, LosesOldestFirst, OnDisk
  <1>7. CASE UNCHANGED vars
    BY <1>7, <1>s DEF vars, rollVars, histVars, LostInv, PlacesInv, LosesOldestFirst, OnDisk
  <1> QED BY <1>1, <1>2, <1>3, <1>4, <1>5, <1>6, <1>7 DEF Next

\* Rotation gives up the oldest batches first, for every depth but one and any number of
\* batches, as long as no rename fails and m_maxNum is not lowered; a death in the middle
\* of a rotation makes no exception.
THEOREM OldestLostFirst == ASSUME Deep PROVE Spec => []LosesOldestFirst
PROOF
  <1>1. LostInv => LosesOldestFirst
    BY DEF LostInv
  <1> QED BY <1>1, InitLost, NextLost, Deep, PTL DEF Spec
-----------------------------------------------------------------------------
\* A step of the logger is a step of its stream buffer, or leaves that alone, ...
LEMMA LogStepsBuffer == [LogNext]_logVars => [BufferNext]_bufferVars
PROOF
  <1> SUFFICES ASSUME LogNext PROVE BufferNext \/ UNCHANGED bufferVars
    BY DEF logVars
  <1>1. CASE InMemory
    BY <1>1 DEF InMemory, BufferNext
  <1>2. CASE CallRoll
    BY <1>2 DEF CallRoll, BufferNext
  <1>3. CASE RollDone
    <2>1. SyncReturns \/ \E wrote \in BOOLEAN : SyncThrows(wrote)
      <3>1. (batches \in written) \in BOOLEAN
        OBVIOUS
      <3> QED BY <1>3, <3>1 DEF RollDone
    <2> QED BY <2>1 DEF BufferNext
  <1>4. CASE Rotate \/ Reconfigure
    BY <1>4 DEF Rotate, Reconfigure
  <1>5. CASE Die
    BY <1>5 DEF Die, BufferNext
  <1> QED BY <1>1, <1>2, <1>3, <1>4, <1>5 DEF LogNext

\* ... and a step of its files, or leaves those alone.
LEMMA LogStepsFiles == [LogNext]_logVars => [Next]_vars
PROOF
  <1> SUFFICES ASSUME LogNext PROVE Next \/ UNCHANGED vars
    BY DEF logVars
  <1>1. CASE InMemory \/ RollDone
    BY <1>1 DEF InMemory, RollDone
  <1>2. CASE CallRoll
    BY <1>2 DEF CallRoll, Next
  <1>3. CASE Rotate
    BY <1>3 DEF Rotate, Next
  <1>4. CASE Reconfigure
    BY <1>4 DEF Reconfigure, Next
  <1>5. CASE Die
    BY <1>5 DEF Die, Next
  <1> QED BY <1>1, <1>2, <1>3, <1>4, <1>5 DEF LogNext

\* The logger is its stream buffer on its files: what either promises holds of it.
THEOREM LoggerComposes == LogSpec => BufferSpec /\ Spec
PROOF BY LogStepsBuffer, LogStepsFiles, PTL DEF LogSpec, LogInit, BufferSpec, Spec
=============================================================================
