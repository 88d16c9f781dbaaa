------------------------- MODULE TimeProviderProofs -------------------------
(***************************************************************************)
(* Theorems about the time provider and the start of its thread, for every *)
(* set of callers and any number of refreshes and of threads.              *)
(***************************************************************************)
EXTENDS TimeProvider, SequenceTheorems, FiniteSetTheorems, TLAPS

FieldsInv ==
  /\ refresh \in {"test", "sec", "usec", "tsc", "swap", "lock", "asleep", "awake", "over"}
  /\ call \in [Callers -> {"out", "lock", "test", "start", "starting", "have",
                           "sec", "usec", "decide", "tsc", "offset", "return", "system"}]
  /\ front \in 0..1 /\ word \in [0..1 -> [Words -> 0..MaxRefresh]]
  /\ index \in [Callers -> 0..1] /\ copied \in [Callers -> Seq(0..MaxRefresh)]
  /\ tv \in [Callers -> Nat]
  /\ slept \in [Callers -> BOOLEAN] /\ latest \in [Callers -> Nat]

\* The buffers: nobody can tell the words of the front one apart, and those of the back
\* one only while run() is stamping it.
Stamping == refresh \in {"usec", "tsc", "swap"}
Whole(b) == \A w \in Words : word[b][w] = word[b]["sec"]
Now == word[front]["sec"]
BufferInv ==
  /\ Whole(front)
  /\ \A w \in Words : word[Back][w] <= Now + 1
  /\ ~Stamping => Whole(Back) /\ word[Back]["sec"] <= Now
  /\ Stamping => word[Back]["sec"] = Now + 1
  /\ refresh \in {"tsc", "swap"} => word[Back]["usec"] = Now + 1
  /\ refresh = "swap" => word[Back]["tsc"] = Now + 1
  /\ refresh = "sec" \/ Stamping => Now < MaxRefresh

\* The readers: a buffer that was in front when a call chose it has gone to the back once
\* at most before a wait of run() ends, and is left alone until then.
Undisturbed(c) == Reading(c) /\ ~slept[c]
Floor(n) == Seconds(TimeOf(n))
ReaderOK(c) ==
  /\ ~Reading(c) => copied[c] = <<>>
  /\ call[c] \in {"usec", "decide", "tsc", "offset", "return", "system"} => copied[c] # <<>>
  /\ call[c] = "sec" => copied[c] = <<>>
  /\ call[c] = "usec" => Len(copied[c]) = 1
  /\ call[c] \in {"decide", "tsc"} => Len(copied[c]) = 2
  /\ call[c] = "offset" => Len(copied[c]) = 3
  /\ latest[c] <= Floor(Now)
  /\ Reading(c) => \A w \in Words : latest[c] <= Floor(word[index[c]][w])
  /\ \A k \in 1..Len(copied[c]) : latest[c] <= Floor(copied[c][k])
  /\ Undisturbed(c) => index[c] = front \/ refresh \in {"lock", "asleep"}
  /\ Undisturbed(c) => \A k \in 1..Len(copied[c]) : copied[c][k] = word[index[c]]["sec"]
  /\ call[c] \in {"return", "system"} => latest[c] <= tv[c]
  /\ call[c] = "return" => Told(c) <= Floor(copied[c][1])
ReaderInv == \A c \in Callers : ReaderOK(c)

ClockInv == FieldsInv /\ BufferInv /\ ReaderInv
-----------------------------------------------------------------------------
\* The seconds of a time.
LEMMA SecondsProperties ==
  /\ \A t \in Nat : Seconds(t) \in Nat /\ Seconds(t) <= t /\ Fraction(t) \in 0..4
  /\ \A t, u \in Nat : t <= u => Seconds(t) <= Seconds(u)
  /\ \A t, u \in Nat, offset \in 0..Second :
       Seconds(Seconds(t) + Fraction(u) + offset) - Second <= Seconds(t)
PROOF BY DEF Seconds, Fraction, Second

\* A later stamp has no earlier seconds.
LEMMA FloorProperties ==
  /\ MaxRefresh \in Nat
  /\ \A n \in 0..MaxRefresh : TimeOf(n) \in Nat /\ Floor(n) \in Nat /\ Floor(n) <= TimeOf(n)
  /\ \A m, n \in 0..MaxRefresh : m <= n => Floor(m) <= Floor(n)
PROOF BY TimeAssumption, ProviderAssumption, SecondsProperties DEF Floor

\* At first both buffers hold the same time and nobody reads.
LEMMA InitClock == ProviderInit => ClockInv
PROOF
  <1> SUFFICES ASSUME ProviderInit PROVE ClockInv
    OBVIOUS
  <1>0. 0 \in 0..MaxRefresh
    BY FloorProperties
  <1>1. FieldsInv
    BY <1>0, EmptySeq DEF ProviderInit, FieldsInv
  <1>2. /\ front = 0 /\ Back = 1 /\ refresh = "test"
        /\ \A b \in 0..1 : \A w \in Words : word[b][w] = 0
    BY DEF ProviderInit, Back
  <1>3. "sec" \in Words
    BY DEF Words
  <1>4. BufferInv
    BY <1>2, <1>3 DEF BufferInv, Whole, Now, Stamping
  <1>5. \A c \in Callers : call[c] = "out" /\ copied[c] = <<>> /\ latest[c] = 0
    BY DEF ProviderInit
  <1>6. ReaderInv
    <2>1. 0 <= Floor(0)
      BY <1>0, FloorProperties
    <2> QED BY <1>2, <1>3, <1>5, <2>1 DEF ReaderInv, ReaderOK, Undisturbed, Reading, Now
  <1> QED BY <1>1, <1>4, <1>6 DEF ClockInv

\* What is in the fields, word by word.
LEMMA ClockTypes ==
  ASSUME ClockInv
  PROVE  /\ {"sec", "usec", "tsc"} = Words
         /\ front \in 0..1 /\ Back \in 0..1 /\ Back # front /\ Now \in 0..MaxRefresh
         /\ MaxRefresh \in Nat /\ Now \in Nat
         /\ \A b \in 0..1 : \A w \in Words : word[b][w] \in 0..MaxRefresh /\ word[b][w] \in Nat
         /\ \A b \in 0..1 : b = front \/ b = Back
         /\ \A c \in Callers :
              /\ index[c] \in 0..1 /\ copied[c] \in Seq(0..MaxRefresh) /\ latest[c] \in Nat
              /\ slept[c] \in BOOLEAN /\ tv[c] \in Nat
PROOF
  <1>1. front \in 0..1 /\ Back \in 0..1 /\ Back # front /\ \A b \in 0..1 : b = front \/ b = Back
    BY DEF ClockInv, FieldsInv, Back
  <1>2. /\ MaxRefresh \in Nat
        /\ \A b \in 0..1 : \A w \in Words : word[b][w] \in 0..MaxRefresh /\ word[b][w] \in Nat
    BY FloorProperties DEF ClockInv, FieldsInv
  <1>3. Now \in 0..MaxRefresh /\ Now \in Nat
    BY <1>1, <1>2 DEF Now, Words
  <1> QED BY <1>1, <1>2, <1>3 DEF ClockInv, FieldsInv, Words

\* Steps that leave buffers and copies as they are: the tests and waits of run(), the
\* callers' way to the instance and, with a copy already made, to the time stamp counter.
LEMMA QuietClock ==
  ASSUME ClockInv, FieldsInv', UNCHANGED <<front, word, index, copied, tv, slept, latest>>,
         Stamping' <=> Stamping, refresh' # refresh => ~Stamping,
         refresh' = "sec" => refresh = "sec" \/ Now < MaxRefresh,
         \A c \in Callers :
           call'[c] = call[c] \/ ~Reading(c) \/ (call[c] = "decide" /\ call'[c] = "tsc"),
         \A c \in Callers : Reading(c)' <=> Reading(c),
         \A c \in Callers : Undisturbed(c) => index[c] = front \/ refresh' \in {"lock", "asleep"}
  PROVE  ClockInv'
PROOF
  <1>1. Now' = Now /\ Back' = Back /\ \A b : Whole(b)' <=> Whole(b)
    BY DEF Now, Back, Whole
  <1>2. BufferInv'
    BY <1>1 DEF ClockInv, BufferInv, Stamping
  <1>3. ASSUME NEW c \in Callers PROVE ReaderOK(c)'
    <2>1. ReaderOK(c)
      BY DEF ClockInv, ReaderInv
    <2>2. (Undisturbed(c)' <=> Undisturbed(c)) /\ Told(c)' = Told(c)
      BY DEF Undisturbed, Told
    <2>3. CASE call'[c] = call[c]
      BY <1>1, <2>1, <2>2, <2>3 DEF ReaderOK
    <2>4. CASE ~Reading(c)
      BY <1>1, <2>1, <2>2, <2>4 DEF ReaderOK, Reading
    <2>5. CASE call[c] = "decide" /\ call'[c] = "tsc"
      BY <1>1, <2>1, <2>2, <2>5 DEF ReaderOK, Reading
    <2> QED BY <2>3, <2>4, <2>5
  <1> QED BY <1>2, <1>3 DEF ClockInv, ReaderInv

\* run() stamps one word of the buffer in the back, which no undisturbed call reads.
LEMMA StampClock ==
  ASSUME ClockInv, NEW w \in Words, NEW next, Stamp(w, next),
         <<w, next>> \in {<<"sec", "usec">>, <<"usec", "tsc">>, <<"tsc", "swap">>}
  PROVE  ClockInv'
PROOF
  <1>t. /\ refresh = w /\ refresh' = next
        /\ UNCHANGED <<call, front, index, copied, tv, slept, latest>>
        /\ word' = [word EXCEPT ![Back] = [word[Back] EXCEPT ![w] = word[front].sec + 1]]
    BY DEF Stamp, Step, readVars, instanceVars
  <1>0. Now < MaxRefresh /\ Now + 1 \in 0..MaxRefresh
    BY <1>t, ClockTypes DEF ClockInv, BufferInv, Stamping
  <1>1. /\ word'[Back][w] = Now + 1
        /\ \A b \in 0..1 : \A v \in Words : b # Back \/ v # w => word'[b][v] = word[b][v]
    BY <1>t, ClockTypes DEF ClockInv, FieldsInv, Now
  <1>2. FieldsInv'
    <2>1. word' \in [0..1 -> [Words -> 0..MaxRefresh]]
      BY <1>t, <1>0, ClockTypes DEF ClockInv, FieldsInv, Now
    <2> QED BY <1>t, <2>1 DEF ClockInv, FieldsInv
  <1>3. Now' = Now /\ Back' = Back
    BY <1>t, <1>1, ClockTypes DEF Now, Back
  <1>4. BufferInv'
    <2>1. Whole(front)'
      BY <1>t, <1>1, ClockTypes DEF ClockInv, BufferInv, Whole
    <2>2. \A v \in Words : word'[Back][v] <= Now + 1
      BY <1>1, ClockTypes DEF ClockInv, BufferInv
    <2>3. Stamping' /\ word'[Back]["sec"] = Now + 1
      BY <1>t, <1>1, ClockTypes DEF ClockInv, BufferInv, Stamping
    <2>4. next \in {"tsc", "swap"} => word'[Back]["usec"] = Now + 1
      BY <1>t, <1>1, ClockTypes DEF ClockInv, BufferInv
    <2>5. next = "swap" => word'[Back]["tsc"] = Now + 1
      BY <1>t, <1>1, ClockTypes DEF ClockInv, BufferInv
    <2> QED BY <1>t, <1>0, <1>3, <2>1, <2>2, <2>3, <2>4, <2>5 DEF BufferInv
  <1>5. ASSUME NEW c \in Callers PROVE ReaderOK(c)'
    <2>1. ReaderOK(c)
      BY DEF ClockInv, ReaderInv
    <2>2. (Reading(c)' <=> Reading(c)) /\ (Undisturbed(c)' <=> Undisturbed(c))
      BY <1>t DEF Reading, Undisturbed
    <2>3. Undisturbed(c) => index[c] = front /\ word'[index[c]]["sec"] = word[index[c]]["sec"]
      BY <1>t, <1>1, <2>1, ClockTypes DEF ReaderOK
    <2>4. \A v \in Words : word[index[c]][v] <= word'[index[c]][v]
      BY <1>1, ClockTypes DEF ClockInv, BufferInv
    <2>5. ASSUME NEW v \in Words, Reading(c) PROVE latest[c] <= Floor(word'[index[c]][v])
      <3>1. /\ word[index[c]][v] \in 0..MaxRefresh /\ word'[index[c]][v] \in 0..MaxRefresh
            /\ latest[c] \in Nat
        BY <1>2, ClockTypes DEF FieldsInv
      <3>2. latest[c] <= Floor(word[index[c]][v])
        BY <2>1, <2>5 DEF ReaderOK
      <3>3. Floor(word[index[c]][v]) <= Floor(word'[index[c]][v])
        BY <2>4, <3>1, FloorProperties
      <3> QED BY <3>1, <3>2, <3>3, FloorProperties
    <2>6. Told(c)' = Told(c)
      BY <1>t DEF Told
    <2> QED BY <1>t, <1>3, <2>1, <2>2, <2>3, <2>5, <2>6 DEF ReaderOK
  <1> QED BY <1>2, <1>4, <1>5 DEF ClockInv, ReaderInv

\* The buffers change places: the new front one is whole and newer.
LEMMA SwapClock == ASSUME ClockInv, SwapBuffers PROVE ClockInv'
PROOF
  <1>t. /\ refresh = "swap" /\ refresh' = "lock" /\ front' = Back
        /\ UNCHANGED <<call, word, index, copied, tv, slept, latest>>
    BY DEF SwapBuffers, Step, readVars, instanceVars
  <1>1. Back' = front /\ Now' = Now + 1
    BY <1>t, ClockTypes DEF Back, Now, ClockInv, BufferInv, Stamping
  <1>2. FieldsInv'
    BY <1>t, ClockTypes DEF ClockInv, FieldsInv
  <1>3. BufferInv'
    <2>1. Whole(front)' /\ Whole(Back)'
      BY <1>t, <1>1, ClockTypes DEF ClockInv, BufferInv, Whole, Stamping
    <2>2. \A w \in Words : word[front][w] <= Now + 2
      BY ClockTypes DEF ClockInv, BufferInv, Whole, Now
    <2>3. word[front]["sec"] <= Now + 1
      BY ClockTypes DEF Now
    <2> QED BY <1>t, <1>1, <2>1, <2>2, <2>3, ClockTypes DEF BufferInv, Stamping
  <1>4. ASSUME NEW c \in Callers PROVE ReaderOK(c)'
    <2>1. ReaderOK(c)
      BY DEF ClockInv, ReaderInv
    <2>2. (Reading(c)' <=> Reading(c)) /\ (Undisturbed(c)' <=> Undisturbed(c))
      BY <1>t DEF Reading, Undisturbed
    <2>3. latest[c] <= Floor(Now')
      <3>1. Now \in 0..MaxRefresh /\ Now' \in 0..MaxRefresh /\ Now <= Now'
        BY <1>t, <1>1, ClockTypes DEF Now
      <3>2. latest[c] <= Floor(Now) /\ Floor(Now) <= Floor(Now') /\ latest[c] \in Nat
        BY <2>1, <3>1, FloorProperties, ClockTypes DEF ReaderOK
      <3> QED BY <3>1, <3>2, FloorProperties
    <2>4. Told(c)' = Told(c)
      BY <1>t DEF Told
    <2> QED BY <1>t, <2>1, <2>2, <2>3, <2>4 DEF ReaderOK
  <1> QED BY <1>2, <1>3, <1>4 DEF ClockInv, ReaderInv

\* A wait of run() ends: every call that was reading counts as caught up with.
LEMMA WakeClock == ASSUME ClockInv, WakeUp PROVE ClockInv'
PROOF
  <1>t. /\ refresh = "asleep" /\ refresh' = "awake"
        /\ slept' = [c \in Callers |-> slept[c] \/ Reading(c)]
        /\ UNCHANGED <<call, front, word, index, copied, tv, latest>>
    BY DEF WakeUp, Step, readVars, instanceVars
  <1>1. slept' \in [Callers -> BOOLEAN] /\ \A c \in Callers : Reading(c) => slept'[c]
    BY <1>t, Zenon
  <1>2. FieldsInv'
    BY <1>t, <1>1 DEF ClockInv, FieldsInv
  <1>3. Now' = Now /\ Back' = Back /\ \A b : Whole(b)' <=> Whole(b)
    BY <1>t DEF Now, Back, Whole
  <1>4. BufferInv'
    BY <1>t, <1>3 DEF ClockInv, BufferInv, Stamping
  <1>5. ASSUME NEW c \in Callers PROVE ReaderOK(c)'
    <2>1. ReaderOK(c)
      BY DEF ClockInv, ReaderInv
    <2>2. (Reading(c)' <=> Reading(c)) /\ ~Undisturbed(c)' /\ Told(c)' = Told(c)
      BY <1>t, <1>1 DEF Reading, Undisturbed, Told
    <2> QED BY <1>t, <1>3, <2>1, <2>2 DEF ReaderOK
  <1> QED BY <1>2, <1>4, <1>5 DEF ClockInv, ReaderInv
-----------------------------------------------------------------------------
\* A step of one caller that leaves the provider's own variables as they are.
LEMMA CallerClock ==
  ASSUME ClockInv, NEW c \in Callers, UNCHANGED clockVars, FieldsInv', ReaderOK(c)',
         \A d \in Callers \ {c} :
           /\ call'[d] = call[d] /\ index'[d] = index[d] /\ copied'[d] = copied[d]
           /\ tv'[d] = tv[d] /\ slept'[d] = slept[d] /\ latest'[d] = latest[d]
  PROVE  ClockInv'
PROOF
  <1>t. UNCHANGED <<refresh, front, word>>
    BY DEF clockVars
  <1>1. Now' = Now /\ Back' = Back /\ \A b : Whole(b)' <=> Whole(b)
    BY <1>t DEF Now, Back, Whole
  <1>2. BufferInv'
    BY <1>t, <1>1 DEF ClockInv, BufferInv, Stamping
  <1>3. ASSUME NEW d \in Callers, d # c PROVE ReaderOK(d)'
    <2>1. ReaderOK(d)
      BY DEF ClockInv, ReaderInv
    <2>2. /\ (Reading(d)' <=> Reading(d)) /\ (Undisturbed(d)' <=> Undisturbed(d))
          /\ Told(d)' = Told(d)
      BY <1>3 DEF Reading, Undisturbed, Told
    <2> QED BY <1>t, <1>1, <1>3, <2>1, <2>2 DEF ReaderOK
  <1> QED BY <1>2, <1>3 DEF ClockInv, ReaderInv

\* getNow() begins with the buffer in front, ...
LEMMA IndexClock == ASSUME ClockInv, NEW c \in Callers, ReadIndex(c) PROVE ClockInv'
PROOF
  <1>t. /\ call[c] = "have" /\ call' = [call EXCEPT ![c] = "sec"]
        /\ index' = [index EXCEPT ![c] = front] /\ UNCHANGED <<copied, tv, slept, latest>>
        /\ UNCHANGED clockVars /\ UNCHANGED <<refresh, front, word>>
    BY DEF ReadIndex, Goto, clockVars
  <1>1. FieldsInv'
    BY <1>t, ClockTypes DEF ClockInv, FieldsInv
  <1>2. /\ call'[c] = "sec" /\ index'[c] = front
        /\ \A d \in Callers \ {c} : call'[d] = call[d] /\ index'[d] = index[d]
    BY <1>t DEF ClockInv, FieldsInv
  <1>3. ReaderOK(c)'
    <2>1. ReaderOK(c) /\ copied[c] = <<>>
      BY <1>t DEF ClockInv, ReaderInv, ReaderOK, Reading
    <2>2. Now' = Now
      BY <1>t DEF Now
    <2>3. \A w \in Words : latest[c] <= Floor(word[front][w])
      BY <2>1, ClockTypes DEF ReaderOK, ClockInv, BufferInv, Whole, Now
    <2> QED BY <1>t, <1>2, <2>1, <2>2, <2>3 DEF ReaderOK, Reading, Undisturbed
  <1> QED BY <1>t, <1>1, <1>2, <1>3, CallerClock

\* ... copies it word by word ...
LEMMA CopyClock ==
  ASSUME ClockInv, NEW c \in Callers, NEW w \in Words, NEW next, Copy(c, w, next),
         <<w, next>> \in {<<"sec", "usec">>, <<"usec", "decide">>, <<"tsc", "offset">>}
  PROVE  ClockInv'
PROOF
  <1> DEFINE longer == Append(copied[c], word[index[c]][w])
  <1>t. /\ call[c] = w /\ call' = [call EXCEPT ![c] = next]
        /\ copied' = [copied EXCEPT ![c] = longer] /\ UNCHANGED <<index, tv, slept, latest>>
        /\ UNCHANGED clockVars /\ UNCHANGED <<refresh, front, word>>
    BY DEF Copy, Goto, clockVars
  <1>0. word[index[c]][w] \in 0..MaxRefresh /\ word[index[c]]["sec"] \in 0..MaxRefresh
    BY ClockTypes
  <1>a. /\ longer \in Seq(0..MaxRefresh) /\ longer # <<>> /\ Len(longer) = Len(copied[c]) + 1
        /\ \A k \in 1..Len(longer) :
             longer[k] = word[index[c]][w] \/ (k \in 1..Len(copied[c]) /\ longer[k] = copied[c][k])
    <2>1. copied[c] \in Seq(0..MaxRefresh)
      BY ClockTypes
    <2>2. /\ longer \in Seq(0..MaxRefresh) /\ longer # <<>> /\ Len(longer) = Len(copied[c]) + 1
          /\ longer[Len(longer)] = word[index[c]][w]
          /\ \A k \in 1..Len(copied[c]) : longer[k] = copied[c][k]
      BY <1>0, <2>1, AppendProperties
    <2>3. Len(copied[c]) \in Nat
      BY <2>1, LenProperties
    <2> HIDE DEF longer
    <2>4. \A k \in 1..Len(longer) : k = Len(longer) \/ k \in 1..Len(copied[c])
      BY <2>2, <2>3
    <2> QED BY <2>2, <2>4
  <1> HIDE DEF longer
  <1>1. FieldsInv'
    BY <1>t, <1>a, ClockTypes DEF ClockInv, FieldsInv
  <1>2. /\ call'[c] = next /\ copied'[c] = longer
        /\ \A d \in Callers \ {c} : call'[d] = call[d] /\ copied'[d] = copied[d]
    BY <1>t DEF ClockInv, FieldsInv
  <1>3. ReaderOK(c)'
    <2>1. ReaderOK(c) /\ Reading(c) /\ Reading(c)' /\ (Undisturbed(c)' <=> Undisturbed(c))
      BY <1>t, <1>2, ClockTypes DEF ClockInv, ReaderInv, Reading, Undisturbed
    <2>2. Now' = Now
      BY <1>t DEF Now
    <2>3. latest[c] <= Floor(word[index[c]][w])
      BY <2>1 DEF ReaderOK
    <2>4. \A k \in 1..Len(longer) : latest[c] <= Floor(longer[k])
      BY <1>a, <2>1, <2>3 DEF ReaderOK
    <2>5. Undisturbed(c) => word[index[c]][w] = word[index[c]]["sec"]
      BY <2>1, ClockTypes DEF ReaderOK, ClockInv, BufferInv, Whole, Stamping
    <2>6. Undisturbed(c) => \A k \in 1..Len(longer) : longer[k] = word[index[c]]["sec"]
      BY <1>a, <2>1, <2>5 DEF ReaderOK
    <2>7. /\ next = "usec" => Len(copied[c]) = 0
          /\ next = "decide" => Len(copied[c]) = 1
          /\ next = "offset" => Len(copied[c]) = 2
      <3>1. \/ next = "usec" /\ call[c] = "sec"
            \/ next = "decide" /\ call[c] = "usec"
            \/ next = "offset" /\ call[c] = "tsc"
        BY <1>t
      <3>2. Len(<<>>) = 0
        BY EmptySeq
      <3> QED BY <2>1, <3>1, <3>2 DEF ReaderOK
    <2>8. /\ next = "usec" => Len(longer) = 1
          /\ next = "decide" => Len(longer) = 2
          /\ next = "offset" => Len(longer) = 3
      <3>1. Len(longer) = Len(copied[c]) + 1
        BY <1>a
      <3>2. 0 + 1 = 1 /\ 1 + 1 = 2 /\ 2 + 1 = 3
        OBVIOUS
      <3> QED BY <2>7, <3>1, <3>2, Zenon
    <2>9. call'[c] \in {"usec", "decide", "offset"} /\ UNCHANGED <<refresh, front, word>>
          /\ UNCHANGED <<index, tv, slept, latest>> /\ copied'[c] = longer
      BY <1>t, <1>2
    <2> QED BY <1>a, <1>2, <2>1, <2>2, <2>4, <2>6, <2>8, <2>9 DEF ReaderOK
  <1> QED BY <1>t, <1>1, <1>2, <1>3, CallerClock

\* ... and works out an answer from what it copied, ...
LEMMA AnswerClock ==
  ASSUME ClockInv, NEW c \in Callers, NEW from \in {"usec", "decide", "offset"},
         NEW to \in {"return", "system"}, NEW time \in Nat, Answer(c, from, to, time),
         latest[c] <= time,
         to = "return" =>
           (IF Len(copied[c]) = 1 THEN time ELSE Seconds(time) - Second) <= Floor(copied[c][1])
  PROVE  ClockInv'
PROOF
  <1>t. /\ call[c] = from /\ call' = [call EXCEPT ![c] = to]
        /\ tv' = [tv EXCEPT ![c] = time] /\ UNCHANGED <<index, copied, slept, latest>>
        /\ UNCHANGED clockVars /\ UNCHANGED <<refresh, front, word>>
    BY DEF Answer, Goto, clockVars
  <1>1. FieldsInv'
    BY <1>t DEF ClockInv, FieldsInv
  <1>2. /\ call'[c] = to /\ tv'[c] = time
        /\ \A d \in Callers \ {c} : call'[d] = call[d] /\ tv'[d] = tv[d]
    BY <1>t DEF ClockInv, FieldsInv
  <1>3. ReaderOK(c)'
    <2>1. ReaderOK(c) /\ Reading(c) /\ Reading(c)' /\ (Undisturbed(c)' <=> Undisturbed(c))
      BY <1>t, <1>2 DEF ClockInv, ReaderInv, Reading, Undisturbed
    <2>2. Now' = Now /\ copied[c] # <<>>
      BY <1>t, <2>1 DEF Now, ReaderOK
    <2>3. to = "return" => Told(c)' <= Floor(copied[c][1])
      BY <1>t, <1>2 DEF Told
    <2> QED BY <1>t, <1>2, <2>1, <2>2, <2>3 DEF ReaderOK
  <1> QED BY <1>t, <1>1, <1>2, <1>3, CallerClock

\* What a reader has copied.
LEMMA CopiedTypes ==
  ASSUME ClockInv, NEW c \in Callers,
         call[c] \in {"usec", "decide", "offset", "return", "system"}
  PROVE  /\ copied[c][1] \in 0..MaxRefresh /\ 1 \in 1..Len(copied[c])
         /\ call[c] = "offset" => copied[c][2] \in 0..MaxRefresh
         /\ latest[c] <= Floor(copied[c][1]) /\ latest[c] \in Nat
PROOF
  <1>1. ReaderOK(c) /\ copied[c] \in Seq(0..MaxRefresh) /\ copied[c] # <<>>
    BY ClockTypes DEF ClockInv, ReaderInv, ReaderOK
  <1>2. \A k \in 1..Len(copied[c]) : copied[c][k] \in 0..MaxRefresh
    BY <1>1, ElementOfSeq
  <1>3. 1 \in 1..Len(copied[c]) /\ (call[c] = "offset" => 2 \in 1..Len(copied[c]))
    <2>1. Len(copied[c]) \in Nat /\ Len(copied[c]) # 0
      BY <1>1, EmptySeq, LenProperties
    <2>2. call[c] = "offset" => Len(copied[c]) = 3
      BY <1>1 DEF ReaderOK
    <2> QED BY <2>1, <2>2
  <1> QED BY <1>1, <1>2, <1>3, ClockTypes DEF ReaderOK

\* ... with the counter or without it, ...
LEMMA StampTimeClock == ASSUME ClockInv, NEW c \in Callers, StampTime(c) PROVE ClockInv'
PROOF
  <1>c. call[c] \in {"usec", "offset"} /\ ReaderOK(c)
    BY DEF StampTime, Answer, Goto, ClockInv, ReaderInv
  <1>t. /\ copied[c][1] \in 0..MaxRefresh /\ TimeOf(copied[c][1]) \in Nat
        /\ latest[c] <= Floor(copied[c][1]) /\ latest[c] \in Nat
        /\ Floor(copied[c][1]) = StampSeconds(c) /\ StampSeconds(c) \in Nat
    BY <1>c, CopiedTypes, FloorProperties DEF Floor, StampSeconds
  <1>1. ASSUME Answer(c, "usec", "return", StampSeconds(c)) PROVE ClockInv'
    <2>1. Len(copied[c]) = 1
      BY <1>c, <1>1 DEF Answer, Goto, ReaderOK
    <2>2. StampSeconds(c) <= Floor(copied[c][1])
      BY <1>t
    <2> QED BY <1>1, <1>t, <2>1, <2>2, AnswerClock
  <1>2. ASSUME NEW offset \in 0..Second,
               Answer(c, "offset", "return",
                      StampSeconds(c) + Fraction(TimeOf(copied[c][2])) + offset)
        PROVE  ClockInv'
    <2> DEFINE time == StampSeconds(c) + Fraction(TimeOf(copied[c][2])) + offset
    <2>1. Len(copied[c]) = 3 /\ TimeOf(copied[c][2]) \in Nat
      BY <1>c, <1>2, CopiedTypes, FloorProperties DEF Answer, Goto, ReaderOK
    <2>2. time \in Nat /\ latest[c] <= time
      <3>1. Fraction(TimeOf(copied[c][2])) \in Nat /\ offset \in Nat
        BY <2>1, SecondsProperties DEF Second
      <3>2. latest[c] <= StampSeconds(c)
        BY <1>t
      <3> QED BY <1>t, <3>1, <3>2
    <2>3. Seconds(time) - Second <= Floor(copied[c][1])
      BY <1>t, <2>1, SecondsProperties DEF StampSeconds
    <2> HIDE DEF time
    <2>4. (IF Len(copied[c]) = 1 THEN time ELSE Seconds(time) - Second) <= Floor(copied[c][1])
      BY <2>1, <2>3
    <2>5. Answer(c, "offset", "return", time)
      BY <1>2 DEF time
    <2> QED BY <2>2, <2>4, <2>5, AnswerClock
  <1> QED BY <1>1, <1>2 DEF StampTime

\* ... or from the system, whose time is past every stamp, ...
LEMMA SystemTimeClock == ASSUME ClockInv, NEW c \in Callers, SystemTime(c) PROVE ClockInv'
PROOF
  <1>1. PICK ahead \in 0..MaxHeld, from \in {"decide", "offset"} :
          Answer(c, from, "system", TimeOf(LastStamp) + ahead)
    BY DEF SystemTime
  <1>2. LastStamp \in 0..MaxRefresh /\ Now <= LastStamp
    BY ClockTypes DEF LastStamp, Now
  <1>3. latest[c] <= Floor(Now) /\ latest[c] \in Nat /\ Now \in 0..MaxRefresh
    BY ClockTypes DEF ClockInv, ReaderInv, ReaderOK
  <1>4. latest[c] <= TimeOf(LastStamp) /\ TimeOf(LastStamp) \in Nat
    BY <1>2, <1>3, FloorProperties
  <1>5. ahead \in Nat /\ TimeOf(LastStamp) + ahead \in Nat
        /\ latest[c] <= TimeOf(LastStamp) + ahead
    BY <1>3, <1>4, ProviderAssumption
  <1> QED BY <1>1, <1>5, AnswerClock

\* ... and returns it: what the caller is told is past in every later stamp.
LEMMA ReturnClock == ASSUME ClockInv, NEW c \in Callers, Return(c) PROVE ClockInv'
PROOF
  <1>t. /\ call[c] \in {"return", "system"} /\ call' = [call EXCEPT ![c] = "out"]
        /\ index' = [index EXCEPT ![c] = 0] /\ copied' = [copied EXCEPT ![c] = <<>>]
        /\ tv' = [tv EXCEPT ![c] = 0] /\ slept' = [slept EXCEPT ![c] = FALSE]
        /\ UNCHANGED clockVars /\ UNCHANGED <<refresh, front, word>>
    BY DEF Return, Goto, clockVars
  <1>1. \/ latest' = latest
        \/ /\ ~slept[c] /\ call[c] = "return" /\ Told(c) > latest[c]
           /\ latest' = [latest EXCEPT ![c] = Told(c)]
    BY DEF Return
  <1>2. ReaderOK(c) /\ Reading(c)
    BY <1>t DEF ClockInv, ReaderInv, Reading
  <1>3. copied[c][1] \in 0..MaxRefresh /\ 1 \in 1..Len(copied[c]) /\ latest[c] \in Nat
    BY <1>t, CopiedTypes
  <1>4. ~slept[c] => copied[c][1] <= Now
    <2>1. ASSUME ~slept[c]
          PROVE  /\ copied[c][1] = word[index[c]]["sec"]
                 /\ index[c] = front \/ refresh \in {"lock", "asleep"}
      BY <1>2, <1>3, <2>1 DEF ReaderOK, Undisturbed
    <2>2. word[front]["sec"] <= Now
      BY ClockTypes DEF Now
    <2>3. refresh \in {"lock", "asleep"} => word[Back]["sec"] <= Now
      BY DEF ClockInv, BufferInv, Stamping
    <2> QED BY <2>1, <2>2, <2>3, ClockTypes
  <1>5. Told(c) \in Int
    <2>1. tv[c] \in Nat /\ Seconds(tv[c]) \in Nat
      BY ClockTypes, SecondsProperties
    <2>2. Seconds(tv[c]) - Second \in Int
      BY <2>1 DEF Second
    <2> QED BY <2>1, <2>2 DEF Told
  <1>6. ~slept[c] /\ call[c] = "return" => Told(c) <= Floor(Now)
    <2>1. ~slept[c] => Floor(copied[c][1]) <= Floor(Now)
      BY <1>3, <1>4, FloorProperties, ClockTypes
    <2>2. call[c] = "return" => Told(c) <= Floor(copied[c][1])
      BY <1>2 DEF ReaderOK
    <2>3. Floor(Now) \in Nat /\ Floor(copied[c][1]) \in Nat
      BY <1>3, FloorProperties, ClockTypes
    <2> QED BY <1>5, <2>1, <2>2, <2>3
  <1>7. /\ latest' \in [Callers -> Nat] /\ latest'[c] <= Floor(Now)
        /\ \A d \in Callers \ {c} : latest'[d] = latest[d]
    <2>1. latest \in [Callers -> Nat] /\ latest[c] <= Floor(Now)
      BY <1>2 DEF ReaderOK, ClockInv, FieldsInv
    <2>2. Told(c) > latest[c] => Told(c) \in Nat
      BY <1>3, <1>5
    <2>3. CASE latest' = latest
      BY <2>1, <2>3
    <2>4. CASE latest' # latest
      BY <1>1, <1>6, <2>1, <2>2, <2>4
    <2> QED BY <2>3, <2>4
  <1>8. FieldsInv'
    <2>1. <<>> \in Seq(0..MaxRefresh)
      BY EmptySeq
    <2>2. /\ call' \in [Callers -> {"out", "lock", "test", "start", "starting", "have", "sec",
                                    "usec", "decide", "tsc", "offset", "return", "system"}]
          /\ index' \in [Callers -> 0..1] /\ slept' \in [Callers -> BOOLEAN]
          /\ tv' \in [Callers -> Nat]
      BY <1>t DEF ClockInv, FieldsInv
    <2>3. copied' \in [Callers -> Seq(0..MaxRefresh)]
      BY <1>t, <2>1 DEF ClockInv, FieldsInv
    <2> QED BY <1>t, <1>7, <2>2, <2>3 DEF ClockInv, FieldsInv
  <1>9. /\ call'[c] = "out" /\ copied'[c] = <<>>
        /\ \A d \in Callers \ {c} :
             /\ call'[d] = call[d] /\ index'[d] = index[d]
             /\ copied'[d] = copied[d] /\ tv'[d] = tv[d] /\ slept'[d] = slept[d]
    BY <1>t DEF ClockInv, FieldsInv
  <1>10. ReaderOK(c)'
    BY <1>t, <1>7, <1>9 DEF ReaderOK, Reading, Undisturbed, Now
  <1> QED BY <1>t, <1>7, <1>8, <1>9, <1>10, CallerClock

\* The other steps of a caller: into getInstance(), through it, and on with a decision.
LEMMA InstanceClock ==
  ASSUME ClockInv, NEW c \in Callers, GetInstance(c) \/ Decide(c) \/ CpuMHz(c)
  PROVE  ClockInv'
PROOF
  <1>t. /\ UNCHANGED <<refresh, front, word, index, copied, tv, slept, latest>>
        /\ \/ call[c] = "decide" /\ call' = [call EXCEPT ![c] = "tsc"]
           \/ /\ ~Reading(c)
              /\ \E to \in {"out", "lock", "test", "start", "starting", "have"} :
                   call' = [call EXCEPT ![c] = to]
    BY DEF GetInstance, TestUnlocked, TakeLock, Found, Create, CallStart, StartFails, Started,
           Decide, CpuMHz, Goto, clockVars, readVars, Reading
  <1>1. FieldsInv'
    BY <1>t DEF ClockInv, FieldsInv
  <1>2. \A d \in Callers \ {c} : call'[d] = call[d]
    BY <1>t DEF ClockInv, FieldsInv
  <1>3. (Reading(c)' <=> Reading(c)) /\ (~Reading(c) \/ call[c] = "decide")
    BY <1>t DEF ClockInv, FieldsInv, Reading
  <1>4. \A d \in Callers : Reading(d)' <=> Reading(d)
    BY <1>2, <1>3 DEF Reading
  <1>5. \A d \in Callers : Undisturbed(d) => index[d] = front \/ refresh' \in {"lock", "asleep"}
    BY <1>t DEF ClockInv, ReaderInv, ReaderOK
  <1>6. \A d \in Callers :
          call'[d] = call[d] \/ ~Reading(d) \/ (call[d] = "decide" /\ call'[d] = "tsc")
    BY <1>t, <1>2 DEF ClockInv, FieldsInv
  <1> QED BY <1>t, <1>1, <1>4, <1>5, <1>6, QuietClock DEF Stamping

\* The steps of run() and of the destructor that touch no buffer.
LEMMA LoopClock ==
  ASSUME ClockInv, LoopTest \/ TimeWait \/ Regain \/ Destruct PROVE ClockInv'
PROOF
  <1>t. /\ UNCHANGED <<call, front, word, index, copied, tv, slept, latest>>
        /\ \/ refresh = "test" /\ refresh' \in {"sec", "over"}
              /\ (refresh' = "sec" => word[front]["sec"] < MaxRefresh)
           \/ refresh = "lock" /\ refresh' = "asleep"
           \/ refresh = "awake" /\ refresh' = "test"
           \/ /\ \A c \in Callers : ~Reading(c)
              /\ refresh' = refresh \/ (refresh = "asleep" /\ refresh' = "awake")
    BY DEF LoopTest, TimeWait, Regain, Destruct, Step, readVars, instanceVars, Reading
  <1>1. FieldsInv'
    BY <1>t DEF ClockInv, FieldsInv
  <1>2. (Stamping' <=> Stamping) /\ (refresh' # refresh => ~Stamping)
    BY <1>t DEF Stamping
  <1>3. \A c \in Callers : Reading(c)' <=> Reading(c)
    BY <1>t DEF Reading
  <1>4. \A c \in Callers : Undisturbed(c) => index[c] = front \/ refresh' \in {"lock", "asleep"}
    BY <1>t DEF ClockInv, ReaderInv, ReaderOK, Undisturbed
  <1>5. refresh' = "sec" => refresh = "sec" \/ Now < MaxRefresh
    BY <1>t DEF Now
  <1> QED BY <1>t, <1>1, <1>2, <1>3, <1>4, <1>5, QuietClock

\* Steps of the object that are not the provider's own.
LEMMA OutsideClock == ASSUME ClockInv, UNCHANGED <<clockVars, readVars, call>> PROVE ClockInv'
PROOF
  <1>t. UNCHANGED <<refresh, front, word, call, index, copied, tv, slept, latest>>
    BY DEF clockVars, readVars
  <1>1. FieldsInv' /\ (Stamping' <=> Stamping) /\ \A c \in Callers : Reading(c)' <=> Reading(c)
    BY <1>t DEF ClockInv, FieldsInv, Stamping, Reading
  <1>2. \A c \in Callers : Undisturbed(c) => index[c] = front \/ refresh' \in {"lock", "asleep"}
    BY <1>t DEF ClockInv, ReaderInv, ReaderOK
  <1> QED BY <1>t, <1>1, <1>2, QuietClock

\* Every step keeps buffers and readers in order.
LEMMA NextClock == ClockInv /\ [ProviderNext]_allVars => ClockInv'
PROOF
  <1> SUFFICES ASSUME ClockInv, [ProviderNext]_allVars PROVE ClockInv'
    OBVIOUS
  <1>1. CASE UNCHANGED providerVars
    BY <1>1, OutsideClock DEF providerVars, instanceVars
  <1>2. CASE DestructorEnds \/ DestructorThrows
    BY <1>2, OutsideClock DEF DestructorEnds, DestructorThrows, instanceVars
  <1>3. CASE Refresh
    <2>1. ASSUME Stamp("sec", "usec") \/ Stamp("usec", "tsc") \/ Stamp("tsc", "swap")
          PROVE  ClockInv'
      BY <2>1, StampClock DEF Words
    <2> QED BY <1>3, <2>1, LoopClock, SwapClock, WakeClock DEF Refresh
  <1>4. ASSUME NEW c \in Callers, GetNow(c) PROVE ClockInv'
    <2>1. ASSUME Copy(c, "sec", "usec") \/ Copy(c, "usec", "decide") \/ Copy(c, "tsc", "offset")
          PROVE  ClockInv'
      BY <2>1, CopyClock DEF Words
    <2> QED
      BY <1>4, <2>1, IndexClock, StampTimeClock, SystemTimeClock, ReturnClock, InstanceClock
      DEF GetNow
  <1>5. UNCHANGED allVars => UNCHANGED providerVars
    BY DEF allVars
  <1> QED
    BY <1>1, <1>2, <1>3, <1>4, <1>5, LoopClock, InstanceClock DEF ProviderNext, Surroundings

\* So they are always in order.
LEMMA ClockCorrect == ProviderSpec => []ClockInv
PROOF BY InitClock, NextClock, PTL DEF ProviderSpec

\* However the buffers are swapped, stamped and read, without a lock and by any number of
\* callers, a call that no wait of run() overtakes gets words of one and the same refresh
\* (YR_TimeProvider.cpp:32-45 and :101-106).
THEOREM CopyIsWhole == ProviderSpec => []CopyWhole
PROOF
  <1>1. ClockInv => CopyWhole
    <2> SUFFICES ASSUME ClockInv, NEW c \in Callers, ~slept[c],
                        NEW k \in DOMAIN copied[c], NEW j \in DOMAIN copied[c]
                 PROVE  copied[c][k] = copied[c][j]
      BY DEF CopyWhole
    <2>1. DOMAIN copied[c] = 1..Len(copied[c])
      BY ClockTypes, LenProperties
    <2>2. CASE Reading(c)
      BY <2>1, <2>2 DEF ClockInv, ReaderInv, ReaderOK, Undisturbed
    <2>3. CASE ~Reading(c)
      BY <2>1, <2>3 DEF ClockInv, ReaderInv, ReaderOK
    <2> QED BY <2>2, <2>3
  <1> QED BY <1>1, ClockCorrect, PTL

\* What getNow() has told a thread stays past, and what getNow(&tv) has told it does but for
\* the offset and a fraction of a second: no later answer of either (YR_TimeProvider.h:35 and
\* :38, YR_TimeProvider.cpp:32-52 and :99-119) is older, whatever times the refreshes have,
\* unless the earlier call was overtaken or answered by gettimeofday().
THEOREM TimeForwards == ProviderSpec => []NeverBackwards
PROOF
  <1>1. ClockInv => NeverBackwards
    <2> SUFFICES ASSUME ClockInv, NEW c \in Callers, call[c] \in {"return", "system"}
                 PROVE  tv[c] >= latest[c]
      BY DEF NeverBackwards
    <2>1. latest[c] <= tv[c] /\ tv[c] \in Nat /\ latest[c] \in Nat
      BY ClockTypes DEF ClockInv, ReaderInv, ReaderOK
    <2> QED BY <2>1
  <1> QED BY <1>1, ClockCorrect, PTL
-----------------------------------------------------------------------------
(* The thread of the object.  What start() relies on is that nobody else is in it. *)

Live == {"new", "entered", "run"}

\* Until a wait of start() returns early, only the thread created last is to run or runs,
\* the flag tells so, and before it does, somebody waits for it.
HandshakeInv ==
  /\ TypeOK
  /\ \A c \in Callers : at[c] # "out" => tid > 0
  /\ running => tid > 0
  /\ ~early =>
       /\ \A n \in Created : thread[n] \in Live => n = tid
       /\ running <=> \E n \in Created : thread[n] \in {"entered", "run"}
       /\ \A n \in Created : thread[n] \in {"new", "entered"} => \E c \in Callers : at[c] = "waiting"

\* The provider's start() is called once, with g_tl held, for the instance just made.
OnceInv ==
  user = "provider" =>
    /\ \A c \in Callers : call[c] \in {"test", "start", "starting"} => gtl = c
    /\ \A c \in Callers : call[c] = "start" => exists /\ tid = 0
    /\ ~exists => tid = 0

ThreadInv == HandshakeInv /\ OnceInv /\ user \in Users

\* At first there is no thread.
LEMMA InitThread == ProviderInit => ThreadInv
PROOF
  <1> SUFFICES ASSUME ProviderInit PROVE ThreadInv
    OBVIOUS
  <1>1. /\ running = FALSE /\ tid = 0 /\ early = FALSE /\ mine = [c \in Callers |-> 0]
        /\ thread = [n \in Created |-> "none"] /\ at = [c \in Callers |-> "out"]
    BY DEF ProviderInit, Init
  <1>2. 0 \in 0..MaxCreated /\ \A n \in Created : n > 0
    BY CallersAssumption DEF Created
  <1>3. TypeOK
    BY <1>1, <1>2 DEF TypeOK
  <1>4. \A n \in Created : thread[n] \notin Live /\ thread[n] \notin {"new", "entered"}
    BY <1>1 DEF Live
  <1>5. HandshakeInv
    BY <1>1, <1>3, <1>4 DEF HandshakeInv, Live
  <1>6. user \in Users /\ \A c \in Callers : call[c] = "out"
    BY DEF ProviderInit
  <1>7. OnceInv
    BY <1>1, <1>6 DEF OnceInv
  <1> QED BY <1>5, <1>6, <1>7 DEF ThreadInv

\* start() finds no thread that is to run: nobody waits for one and the flag is not set.
LEMMA StartHandshake ==
  ASSUME HandshakeInv, NEW c \in Callers, Start(c), \A d \in Callers : at[d] # "waiting"
  PROVE  HandshakeInv' /\ tid' > 0
PROOF
  <1>t. /\ tid \in Nat /\ tid' = tid + 1 /\ tid' \in Created /\ tid' \in 0..MaxCreated
        /\ \A n \in Created : n \in Nat
    BY CallersAssumption DEF Start, HandshakeInv, TypeOK, Created
  <1>1. /\ thread'[tid'] = "new" /\ at'[c] = "waiting"
        /\ \A n \in Created : n # tid' => thread'[n] = thread[n]
        /\ UNCHANGED <<running, early>> /\ ~running
    BY <1>t DEF Start, HandshakeInv, TypeOK
  <1>2. TypeOK'
    BY <1>t, <1>1 DEF Start, HandshakeInv, TypeOK
  <1>3. ~early => \A n \in Created : thread[n] \notin Live
    BY <1>1 DEF HandshakeInv, Live
  <1>4. ~early => \A n \in Created : n # tid' => thread'[n] \notin Live
    BY <1>1, <1>3
  <1>5. \A d \in Callers : at'[d] # "out" => tid' > 0
    BY <1>t
  <1>6. ~early' => \A n \in Created : thread'[n] \in Live => n = tid'
    BY <1>1, <1>4
  <1>7. ~early' => (running' <=> \E n \in Created : thread'[n] \in {"entered", "run"})
    BY <1>1, <1>4 DEF Live
  <1>8. running' => tid' > 0
    BY <1>1
  <1>9. tid' > 0
    BY <1>t
  <1> QED BY <1>1, <1>2, <1>5, <1>6, <1>7, <1>8, <1>9 DEF HandshakeInv

\* The other steps of the callers ...
LEMMA CallerHandshake ==
  ASSUME HandshakeInv, NEW c \in Callers,
         SpuriousWakeup(c) \/ StartReturns(c) \/ Join(c) \/ JoinReturns(c)
  PROVE  HandshakeInv' /\ tid' = tid
PROOF
  <1>0. /\ UNCHANGED <<running, tid, thread>> /\ early' \in BOOLEAN
        /\ at' \in [Callers -> {"out", "waiting", "woken", "joining"}]
    BY DEF HandshakeInv, TypeOK, SpuriousWakeup, StartReturns, Join, JoinReturns
  <1>m. mine' \in [Callers -> 0..MaxCreated]
    BY DEF HandshakeInv, TypeOK, SpuriousWakeup, StartReturns, Join, JoinReturns
  <1>1. TypeOK' /\ UNCHANGED <<running, tid, thread>>
    BY <1>0, <1>m DEF HandshakeInv, TypeOK
  <1>2. \A d \in Callers : at'[d] # "out" => tid > 0
    BY DEF HandshakeInv, TypeOK, SpuriousWakeup, StartReturns, Join, JoinReturns
  <1>3. CASE SpuriousWakeup(c)
    BY <1>1, <1>2, <1>3 DEF HandshakeInv, SpuriousWakeup
  <1>4. CASE StartReturns(c) \/ Join(c) \/ JoinReturns(c)
    <2>1. early' = early /\ \A d \in Callers : at[d] = "waiting" => at'[d] = "waiting"
      BY <1>4 DEF HandshakeInv, TypeOK, StartReturns, Join, JoinReturns
    <2> QED BY <1>1, <1>2, <2>1 DEF HandshakeInv
  <1> QED BY <1>1, <1>3, <1>4

\* ... and those of the threads.
LEMMA ThreadHandshake ==
  ASSUME HandshakeInv, NEW n \in Created, Thread(n)
  PROVE  HandshakeInv' /\ tid' = tid
PROOF
  <1>t. tid \in Nat /\ n \in Nat /\ n > 0 /\ (thread[n] # "none" => n <= tid)
    BY CallersAssumption DEF HandshakeInv, TypeOK, Created
  <1>1. UNCHANGED <<tid, mine, early>> /\ tid > 0
    BY <1>t DEF Thread, Enter, Announce, RunEnds, End
  <1>2. \A m \in Created : m # n => thread'[m] = thread[m]
    BY DEF Thread, Enter, Announce, RunEnds, End, HandshakeInv, TypeOK
  <1>3. TypeOK'
    <2>1. running' \in BOOLEAN
      BY DEF Thread, Enter, Announce, RunEnds, End, HandshakeInv, TypeOK
    <2>2. at' \in [Callers -> {"out", "waiting", "woken", "joining"}]
      BY DEF Thread, Enter, Announce, RunEnds, End, HandshakeInv, TypeOK
    <2>3. PICK place \in {"entered", "run", "ending", "done"} :
            thread' = [thread EXCEPT ![n] = place] /\ thread[n] # "none"
      BY DEF Thread, Enter, Announce, RunEnds, End
    <2>4. /\ thread' \in [Created -> {"none", "new", "entered", "run", "ending", "done"}]
          /\ \A m \in Created : thread'[m] = "none" <=> thread[m] = "none"
      BY <2>3 DEF HandshakeInv, TypeOK
    <2> QED BY <1>1, <2>1, <2>2, <2>4 DEF HandshakeInv, TypeOK
  <1>4. CASE Enter(n)
    <2>1. thread[n] = "new" /\ thread'[n] = "entered" /\ running' = TRUE /\ at' = at
      BY <1>4 DEF Enter, HandshakeInv, TypeOK
    <2> QED BY <1>1, <1>2, <1>3, <2>1 DEF HandshakeInv, Live
  <1>5. CASE Announce(n)
    <2>1. thread[n] = "entered" /\ thread'[n] = "run" /\ running' = running
      BY <1>5 DEF Announce, HandshakeInv, TypeOK
    <2>2. ~early => \A m \in Created : m # n => thread'[m] \notin Live
      BY <1>2, <2>1 DEF HandshakeInv, Live
    <2> QED BY <1>1, <1>2, <1>3, <2>1, <2>2 DEF HandshakeInv, Live
  <1>6. CASE RunEnds(n)
    <2>1. thread[n] = "run" /\ thread'[n] = "ending" /\ running' = FALSE /\ at' = at
      BY <1>6 DEF RunEnds, HandshakeInv, TypeOK
    <2>2. ~early => \A m \in Created : thread'[m] \notin Live
      BY <1>2, <2>1 DEF HandshakeInv, Live
    <2> QED BY <1>1, <1>2, <1>3, <2>1, <2>2 DEF HandshakeInv, Live
  <1>7. CASE End(n)
    <2>1. thread[n] = "ending" /\ thread'[n] = "done" /\ running' = running /\ at' = at
      BY <1>7 DEF End, HandshakeInv, TypeOK
    <2> QED BY <1>1, <1>2, <1>3, <2>1 DEF HandshakeInv, Live
  <1> QED BY <1>1, <1>4, <1>5, <1>6, <1>7 DEF Thread

\* A pool's calls take turns ...
LEMMA PoolThread ==
  ASSUME OneAtATime, ThreadInv, user = "pool", Next, UNCHANGED providerVars PROVE ThreadInv'
PROOF
  <1>1. ASSUME NEW c \in Callers, StartInTurn(c) PROVE HandshakeInv'
    BY <1>1, StartHandshake DEF StartInTurn, ThreadInv
  <1>2. HandshakeInv'
    BY <1>1, CallerHandshake, ThreadHandshake DEF Next, ThreadInv
  <1>3. user' = user
    BY DEF providerVars
  <1> QED BY <1>2, <1>3 DEF ThreadInv, OnceInv

\* ... and the provider's, made with g_tl held, is the only one.
LEMMA InstanceThread ==
  ASSUME ClockInv, ThreadInv, user = "provider", NEW c \in Callers, GetInstance(c)
  PROVE  ThreadInv'
PROOF
  <1>t. /\ user' = user
        /\ \A d \in Callers : call[d] \in {"test", "start", "starting"} => gtl = d
        /\ \A d \in Callers : call[d] = "start" => exists /\ tid = 0
        /\ ~exists => tid = 0
        /\ HandshakeInv
    BY DEF ThreadInv, OnceInv, GetInstance, TestUnlocked, TakeLock, Found, Create, CallStart,
           StartFails, Started
  <1>c. \A to : call' = [call EXCEPT ![c] = to] =>
                  call'[c] = to /\ \A d \in Callers \ {c} : call'[d] = call[d]
    BY DEF ClockInv, FieldsInv
  <1>1. CASE TestUnlocked(c) \/ TakeLock(c) \/ Found(c) \/ Create(c) \/ StartFails(c) \/ Started(c)
    <2>1. UNCHANGED vars
      BY <1>1 DEF TestUnlocked, TakeLock, Found, Create, StartFails, Started
    <2>2. HandshakeInv' /\ tid' = tid
      BY <1>t, <2>1 DEF vars, HandshakeInv, TypeOK, Live
    <2>3. CASE TestUnlocked(c)
      BY <1>t, <1>c, <2>2, <2>3 DEF TestUnlocked, Goto, ThreadInv, OnceInv
    <2>4. CASE TakeLock(c)
      <3>1. \A d \in Callers : call[d] \notin {"test", "start", "starting"}
        BY <1>t, <2>4, ProviderAssumption DEF TakeLock
      <3> QED BY <1>t, <1>c, <2>2, <2>4, <3>1 DEF TakeLock, Goto, ThreadInv, OnceInv
    <2>5. CASE Found(c) \/ Create(c) \/ StartFails(c) \/ Started(c)
      <3>1. \A d \in Callers \ {c} : call[d] \notin {"test", "start", "starting"}
        BY <1>t, <2>5 DEF Found, Create, StartFails, Started, Goto
      <3>2. CASE Create(c)
        BY <1>t, <1>c, <2>2, <3>1, <3>2 DEF Create, Goto, ThreadInv, OnceInv
      <3>3. CASE Found(c) \/ StartFails(c) \/ Started(c)
        <4>1. exists' = exists /\ call'[c] \in {"out", "have"}
              /\ \A d \in Callers \ {c} : call'[d] = call[d]
          BY <1>c, <3>3 DEF Found, StartFails, Started, Goto
        <4> QED BY <1>t, <2>2, <3>1, <4>1 DEF ThreadInv, OnceInv
      <3> QED BY <2>5, <3>2, <3>3
    <2> QED BY <1>1, <2>3, <2>4, <2>5
  <1>2. CASE CallStart(c)
    <2>1. tid = 0 /\ Start(c) /\ UNCHANGED <<exists, gtl>>
      BY <1>t, <1>2 DEF CallStart, Goto
    <2>2. \A d \in Callers : at[d] # "waiting"
      BY <1>t, <2>1 DEF HandshakeInv
    <2>3. HandshakeInv'
      BY <1>t, <2>1, <2>2, StartHandshake
    <2>4. \A d \in Callers \ {c} : call[d] \notin {"test", "start", "starting"}
      BY <1>t, <1>2 DEF CallStart, Goto
    <2>5. call'[c] = "starting" /\ \A d \in Callers \ {c} : call'[d] = call[d]
      BY <1>c, <1>2 DEF CallStart, Goto
    <2>6. exists
      BY <1>t, <1>2 DEF CallStart, Goto
    <2> QED BY <1>t, <1>2, <2>1, <2>3, <2>4, <2>5, <2>6 DEF CallStart, Goto, ThreadInv, OnceInv
  <1> QED BY <1>1, <1>2 DEF GetInstance

\* The remaining steps of the provider start nothing.
LEMMA ProviderThread ==
  ASSUME ThreadInv, user = "provider",
         \/ Surroundings \/ Refresh \/ Destruct \/ DestructorEnds \/ DestructorThrows
         \/ \E c \in Callers : GetNow(c)
  PROVE  ThreadInv'
PROOF
  <1>1. CASE Surroundings
    <2>1. HandshakeInv' /\ tid' = tid
      <3>1. ASSUME NEW n \in Created, Enter(n) \/ Announce(n) \/ End(n) \/ RunEnds(n)
            PROVE  HandshakeInv' /\ tid' = tid
        BY <3>1, ThreadHandshake DEF Thread, ThreadInv
      <3>2. 1 \in Created
        BY CallersAssumption DEF Created
      <3> QED BY <1>1, <3>1, <3>2, CallerHandshake DEF Surroundings, ThreadInv
    <2>2. UNCHANGED <<user, exists, gtl, call>>
      BY <1>1 DEF Surroundings, providerVars, instanceVars
    <2> QED BY <2>1, <2>2 DEF ThreadInv, OnceInv
  <1>2. CASE Refresh \/ Destruct \/ DestructorEnds \/ DestructorThrows
    <2>1. UNCHANGED vars /\ UNCHANGED <<user, exists, gtl, call>>
      BY <1>2 DEF Refresh, LoopTest, SwapBuffers, TimeWait, WakeUp, Regain, Stamp,
                  Destruct, DestructorEnds, DestructorThrows, instanceVars
    <2>2. HandshakeInv' /\ tid' = tid
      BY <2>1 DEF vars, ThreadInv, HandshakeInv, TypeOK, Live
    <2> QED BY <2>1, <2>2 DEF ThreadInv, OnceInv
  <1>3. ASSUME NEW c \in Callers, GetNow(c) PROVE ThreadInv'
    <2>1. /\ UNCHANGED vars /\ UNCHANGED <<user, exists, gtl>>
          /\ \E to \in {"out", "sec", "usec", "decide", "tsc", "offset", "return", "system"} :
               call' = [call EXCEPT ![c] = to]
      BY <1>3 DEF GetNow, ReadIndex, Decide, SystemTime, StampTime, Answer, Return, CpuMHz, Copy,
         Goto
    <2>2. HandshakeInv' /\ tid' = tid
      BY <2>1 DEF vars, ThreadInv, HandshakeInv, TypeOK, Live
    <2>3. \A d \in Callers : call'[d] \in {"test", "start", "starting"} => call'[d] = call[d]
      BY <2>1
    <2> QED BY <2>1, <2>2, <2>3 DEF ThreadInv, OnceInv
  <1> QED BY <1>1, <1>2, <1>3

\* Every step keeps the handshake.
LEMMA NextThread == OneAtATime /\ ClockInv /\ ThreadInv /\ [ProviderNext]_allVars => ThreadInv'
PROOF
  <1>1. ASSUME ThreadInv, UNCHANGED allVars PROVE ThreadInv'
    BY <1>1 DEF allVars, vars, providerVars, instanceVars, ThreadInv, HandshakeInv, OnceInv, TypeOK, Live
  <1> QED BY <1>1, PoolThread, InstanceThread, ProviderThread DEF ProviderNext

\* When the callers take turns, whoever they are ...
LEMMA ThreadCorrect == ASSUME OneAtATime PROVE ProviderSpec => []ThreadInv
PROOF
  <1>1. OneAtATime
    OBVIOUS
  <1>2. ClockInv /\ ThreadInv /\ [ProviderNext]_allVars => ThreadInv'
    BY <1>1, NextThread
  <1> QED BY <1>2, InitThread, ClockCorrect, PTL DEF ProviderSpec

\* ... one object never has two threads that are to enter or are in its run()
\* (YR_Thread.cpp:95), unless a wait of start() returns early.
THEOREM OneThreadOnly == ASSUME OneAtATime PROVE ProviderSpec => []OneThread
PROOF
  <1>1. ThreadInv => OneThread
    <2> SUFFICES ASSUME ThreadInv, ~early
                 PROVE  Cardinality({n \in Created : thread[n] \in Live}) <= 1
      BY DEF OneThread, Live
    <2>1. {n \in Created : thread[n] \in Live} \subseteq {tid}
      BY DEF ThreadInv, HandshakeInv
    <2>2. Cardinality({tid}) = 1 /\ IsFiniteSet({tid})
      BY FS_Singleton
    <2> QED BY <2>1, <2>2, FS_Subset
  <1> QED BY <1>1, ThreadCorrect, PTL

\* ... and isAlive() tells the truth outside start() (YR_Thread.h:66): a worker of the pool
\* that says no can be deleted without a join.
THEOREM AliveToldTruly == ASSUME OneAtATime PROVE ProviderSpec => []NotAliveMeansEnded
PROOF
  <1>1. ThreadInv => NotAliveMeansEnded
    BY DEF ThreadInv, HandshakeInv, NotAliveMeansEnded, OutsideStart
  <1> QED BY <1>1, ThreadCorrect, PTL
-----------------------------------------------------------------------------
(* What start(), a join and the destructor wait for.  That they come back is liveness;   *)
(* this is what it rests on, whoever calls and whatever wait returns early.              *)

\* start() waits for a thread that has not announced itself yet, a join for one that was
\* created.
AwaitedInv ==
  /\ TypeOK
  /\ running => tid > 0
  /\ \A c \in Callers : at[c] # "out" => mine[c] \in 1..tid
  /\ \A c \in Callers : at[c] = "waiting" => thread[mine[c]] \in {"new", "entered"}

\* Once the destructor has set the flag nobody holds g_tl, or ever will.
DestructInv ==
  dtor # "no" =>
    user = "provider" /\ terminate /\ gtl = Nobody /\ \A c \in Callers : call[c] = "out"

\* The most steps that the provider's thread still takes then.
LoopLeft ==
  CASE refresh = "sec" -> 8 [] refresh = "usec" -> 7 [] refresh = "tsc" -> 6
    [] refresh = "swap" -> 5 [] refresh = "lock" -> 4 [] refresh = "asleep" -> 3
    [] refresh = "awake" -> 2 [] refresh = "test" -> 1 [] OTHER -> 0
ThreadLeft ==
  CASE thread[1] = "new" -> 12 [] thread[1] = "entered" -> 11
    [] thread[1] = "run" -> 2 + LoopLeft [] thread[1] = "ending" -> 1 [] OTHER -> 0
DestructStep ==
  dtor # "no" =>
    ThreadLeft' < ThreadLeft \/ UNCHANGED <<thread[1], refresh>>

LEMMA InitAwaited == ProviderInit => AwaitedInv /\ DestructInv
PROOF
  <1> SUFFICES ASSUME ProviderInit PROVE AwaitedInv /\ DestructInv
    OBVIOUS
  <1>1. TypeOK
    <2>1. 0 \in 0..MaxCreated /\ \A n \in Created : n > 0
      BY CallersAssumption DEF Created
    <2> QED BY <2>1 DEF ProviderInit, Init, TypeOK
  <1>2. running = FALSE /\ \A c \in Callers : at[c] = "out"
    BY DEF ProviderInit, Init
  <1>3. DestructInv
    BY DEF ProviderInit, DestructInv
  <1> QED BY <1>1, <1>2, <1>3 DEF AwaitedInv

\* A start() waits for the thread that it has created, ...
LEMMA StartAwaits == ASSUME AwaitedInv, NEW c \in Callers, Start(c) PROVE AwaitedInv'
PROOF
  <1>1. /\ tid \in Nat /\ tid' = tid + 1 /\ tid' \in Created /\ tid' \in 0..MaxCreated
        /\ \A n \in Created : n \in Nat
    BY CallersAssumption DEF Start, AwaitedInv, TypeOK, Created
  <1>2. /\ thread'[tid'] = "new" /\ \A n \in Created : n # tid' => thread'[n] = thread[n]
        /\ at'[c] = "waiting" /\ mine'[c] = tid' /\ UNCHANGED <<running, early>>
        /\ \A d \in Callers \ {c} : at'[d] = at[d] /\ mine'[d] = mine[d]
    BY <1>1 DEF Start, AwaitedInv, TypeOK
  <1>3. TypeOK'
    <2>1. /\ thread' \in [Created -> {"none", "new", "entered", "run", "ending", "done"}]
          /\ at' \in [Callers -> {"out", "waiting", "woken", "joining"}]
          /\ mine' \in [Callers -> 0..MaxCreated]
      BY <1>1 DEF Start, AwaitedInv, TypeOK
    <2>2. ASSUME NEW n \in Created PROVE thread'[n] = "none" <=> n > tid'
      <3>1. n \in Nat /\ (thread[n] = "none" <=> n > tid)
        BY <1>1 DEF AwaitedInv, TypeOK
      <3>2. CASE n = tid'
        <4>1. ~(n > tid')
          BY <1>1, <3>1, <3>2
        <4> QED BY <1>2, <3>2, <4>1
      <3>3. CASE n # tid'
        <4>1. n > tid' <=> n > tid
          BY <1>1, <3>1, <3>3
        <4> QED BY <1>2, <3>1, <3>3, <4>1
      <3> QED BY <3>2, <3>3
    <2> QED BY <1>1, <1>2, <2>1, <2>2 DEF AwaitedInv, TypeOK
  <1>4. ASSUME NEW k \in 1..tid PROVE k \in 1..tid' /\ k # tid' /\ k \in Created
    <2>1. /\ tid \in Nat /\ tid' = tid + 1 /\ tid' \in 0..MaxCreated
          /\ MaxCreated \in Nat
      BY <1>1, CallersAssumption
    <2> QED BY <2>1 DEF Created
  <1>5. tid' \in 1..tid'
    BY <1>1
  <1>6. \A d \in Callers : at'[d] # "out" => mine'[d] \in 1..tid'
    BY <1>2, <1>4, <1>5 DEF AwaitedInv
  <1>7. \A d \in Callers : at'[d] = "waiting" => thread'[mine'[d]] \in {"new", "entered"}
    BY <1>2, <1>4 DEF AwaitedInv
  <1>8. tid' > 0
    BY <1>1
  <1> QED BY <1>3, <1>6, <1>7, <1>8 DEF AwaitedInv

\* ... the other calls for one that there was, ...
LEMMA CallerAwaits ==
  ASSUME AwaitedInv, NEW c \in Callers,
         SpuriousWakeup(c) \/ StartReturns(c) \/ Join(c) \/ JoinReturns(c)
  PROVE  AwaitedInv' /\ UNCHANGED thread
PROOF
  <1>1. /\ UNCHANGED <<running, tid, thread>> /\ early' \in BOOLEAN
        /\ at' \in [Callers -> {"out", "waiting", "woken", "joining"}]
        /\ mine' \in [Callers -> 0..MaxCreated]
    BY DEF AwaitedInv, TypeOK, SpuriousWakeup, StartReturns, Join, JoinReturns
  <1>2. TypeOK'
    BY <1>1 DEF AwaitedInv, TypeOK
  <1>3. \A d \in Callers : at'[d] = "waiting" => at[d] = "waiting" /\ mine'[d] = mine[d]
    BY DEF AwaitedInv, TypeOK, SpuriousWakeup, StartReturns, Join, JoinReturns
  <1>4. tid \in Nat /\ (tid > 0 => tid \in 1..tid)
    BY CallersAssumption DEF AwaitedInv, TypeOK
  <1>5. ASSUME NEW d \in Callers, at'[d] # "out" PROVE mine'[d] \in 1..tid
    <2>1. CASE Join(c) /\ d = c
      <3>1. mine'[d] = tid /\ running
        BY <2>1 DEF Join, AwaitedInv, TypeOK
      <3> QED BY <1>4, <3>1 DEF AwaitedInv
    <2>2. CASE ~(Join(c) /\ d = c)
      <3>1. mine'[d] = mine[d] /\ at[d] # "out"
        BY <1>5, <2>2
        DEF AwaitedInv, TypeOK, SpuriousWakeup, StartReturns, Join, JoinReturns
      <3> QED BY <3>1 DEF AwaitedInv
    <2> QED BY <2>1, <2>2
  <1> QED BY <1>1, <1>2, <1>3, <1>5 DEF AwaitedInv

\* ... and a thread that announces itself wakes everybody.
LEMMA ThreadAwaited == ASSUME AwaitedInv, NEW n \in Created, Thread(n) PROVE AwaitedInv'
PROOF
  <1>1. PICK place \in {"entered", "run", "ending", "done"} :
          thread' = [thread EXCEPT ![n] = place] /\ thread[n] # "none"
    BY DEF Thread, Enter, Announce, RunEnds, End
  <1>2. /\ UNCHANGED <<tid, mine, early>> /\ tid \in Nat /\ n \in Nat /\ n > 0 /\ n <= tid
        /\ running' \in BOOLEAN
        /\ at' \in [Callers -> {"out", "waiting", "woken", "joining"}]
    <2>1. UNCHANGED <<tid, mine, early>>
      BY DEF Thread, Enter, Announce, RunEnds, End
    <2>2. tid \in Nat /\ n \in Nat /\ n > 0
      BY CallersAssumption DEF AwaitedInv, TypeOK, Created
    <2>3. ~(n > tid)
      BY <1>1 DEF AwaitedInv, TypeOK
    <2>4. n <= tid
      BY <2>2, <2>3
    <2>5. running' \in BOOLEAN
      BY DEF Thread, Enter, Announce, RunEnds, End, AwaitedInv, TypeOK
    <2>6. at' \in [Callers -> {"out", "waiting", "woken", "joining"}]
      BY DEF Thread, Enter, Announce, RunEnds, End, AwaitedInv, TypeOK
    <2> QED BY <2>1, <2>2, <2>4, <2>5, <2>6
  <1>3. thread'[n] = place /\ \A m \in Created \ {n} : thread'[m] = thread[m]
    BY <1>1 DEF AwaitedInv, TypeOK
  <1>4. TypeOK'
    BY <1>1, <1>2, <1>3 DEF AwaitedInv, TypeOK
  <1>5. tid > 0
    BY <1>2
  <1>6. \A c \in Callers : at'[c] # "out" => at[c] # "out"
    BY DEF Thread, Enter, Announce, RunEnds, End, AwaitedInv, TypeOK
  <1>7. ASSUME NEW c \in Callers, at'[c] = "waiting"
        PROVE  thread'[mine[c]] \in {"new", "entered"}
    <2>1. ~Announce(n)
      BY <1>7 DEF Announce
    <2>2. at[c] = "waiting"
      BY <1>7, <2>1 DEF Thread, Enter, RunEnds, End
    <2>3. thread[mine[c]] \in {"new", "entered"} /\ mine[c] \in Created
      BY <1>2, <2>2 DEF AwaitedInv, TypeOK, Created
    <2>4. thread[n] \in {"new", "entered"} => place = "entered"
      BY <1>1, <1>3, <2>1 DEF Thread, Enter, RunEnds, End, AwaitedInv, TypeOK
    <2> QED BY <1>3, <2>3, <2>4
  <1> QED BY <1>2, <1>4, <1>5, <1>6, <1>7 DEF AwaitedInv

LEMMA NextAwaited == AwaitedInv /\ [ProviderNext]_allVars => AwaitedInv'
PROOF
  <1> SUFFICES ASSUME AwaitedInv, [ProviderNext]_allVars PROVE AwaitedInv'
    OBVIOUS
  <1>1. CASE UNCHANGED vars
    BY <1>1 DEF vars, AwaitedInv, TypeOK
  <1>2. CASE Next
    BY <1>2, StartAwaits, CallerAwaits, ThreadAwaited DEF Next, StartInTurn
  <1>3. CASE Surroundings
    <2>1. 1 \in Created
      BY CallersAssumption DEF Created
    <2> QED BY <1>3, <2>1, CallerAwaits, ThreadAwaited DEF Surroundings, Thread
  <1>4. CASE Refresh \/ Destruct \/ DestructorEnds \/ DestructorThrows
    <2>1. UNCHANGED vars
      BY <1>4 DEF Refresh, LoopTest, SwapBuffers, TimeWait, WakeUp, Regain, Stamp, Destruct,
                  DestructorEnds, DestructorThrows
    <2> QED BY <1>1, <2>1
  <1>5. ASSUME NEW c \in Callers, GetInstance(c) \/ GetNow(c) PROVE AwaitedInv'
    <2>1. CASE CallStart(c)
      BY <2>1, StartAwaits DEF CallStart
    <2>2. CASE ~CallStart(c)
      <3>1. UNCHANGED vars
        BY <1>5, <2>2 DEF GetInstance, TestUnlocked, TakeLock, Found, Create, StartFails,
           Started, GetNow, ReadIndex, Decide, SystemTime, StampTime, Answer, Return, CpuMHz, Copy
      <3> QED BY <1>1, <3>1
    <2> QED BY <2>1, <2>2
  <1>6. UNCHANGED allVars => UNCHANGED vars
    BY DEF allVars
  <1> QED BY <1>1, <1>2, <1>3, <1>4, <1>5, <1>6 DEF ProviderNext

\* start() and the notifyAll it waits for, once and without a test (YR_Thread.cpp:84-110),
\* cannot miss each other, even if callers do not take turns: as long as it waits, the
\* thread that it has created has yet to announce itself.  What a join waits for is a
\* thread that was created.
THEOREM StartIsAwaited ==
  ProviderSpec => [](\A c \in Callers :
    /\ at[c] = "waiting" => thread[mine[c]] \in {"new", "entered"}
    /\ at[c] = "joining" => thread[mine[c]] # "none")
PROOF
  <1>1. ASSUME AwaitedInv, NEW c \in Callers
        PROVE  /\ at[c] = "waiting" => thread[mine[c]] \in {"new", "entered"}
               /\ at[c] = "joining" => thread[mine[c]] # "none"
    <2>1. ASSUME at[c] = "joining" PROVE thread[mine[c]] # "none"
      <3>1. mine[c] \in 1..tid /\ tid \in 0..MaxCreated /\ MaxCreated \in Nat
        BY <1>1, <2>1, CallersAssumption DEF AwaitedInv, TypeOK
      <3>2. mine[c] \in Created /\ ~(mine[c] > tid)
        BY <3>1 DEF Created
      <3> QED BY <1>1, <3>2 DEF AwaitedInv, TypeOK
    <2> QED BY <1>1, <2>1 DEF AwaitedInv
  <1>2. AwaitedInv => \A c \in Callers :
          /\ at[c] = "waiting" => thread[mine[c]] \in {"new", "entered"}
          /\ at[c] = "joining" => thread[mine[c]] # "none"
    BY <1>1
  <1> QED BY <1>2, InitAwaited, NextAwaited, PTL DEF ProviderSpec

\* run() of the provider goes one way once it has been told to end.
LEMMA LoopNearsItsEnd ==
  ASSUME AwaitedInv, terminate, Refresh
  PROVE  ThreadLeft' < ThreadLeft
PROOF
  <1>1. thread[1] = "run" /\ UNCHANGED thread
    BY DEF Refresh, LoopTest, SwapBuffers, TimeWait, WakeUp, Regain, Stamp, Step, vars
  <1>2. <<refresh, refresh'>> \in
          {<<"test", "over">>, <<"sec", "usec">>, <<"usec", "tsc">>, <<"tsc", "swap">>,
           <<"swap", "lock">>, <<"lock", "asleep">>, <<"asleep", "awake">>, <<"awake", "test">>}
    BY DEF Refresh, LoopTest, SwapBuffers, TimeWait, WakeUp, Regain, Stamp, Step
  <1>3. LoopLeft' < LoopLeft /\ LoopLeft \in Nat /\ LoopLeft' \in Nat
    BY <1>2 DEF LoopLeft
  <1>4. ThreadLeft = 2 + LoopLeft /\ ThreadLeft' = 2 + LoopLeft'
    BY <1>1 DEF ThreadLeft
  <1>5. \A a, b \in Nat : a < b => 2 + a < 2 + b
    OBVIOUS
  <1>6. 2 + LoopLeft' < 2 + LoopLeft
    BY <1>3, <1>5
  <1> QED BY <1>4, <1>6

\* So does its thread.
LEMMA ThreadNearsItsEnd ==
  ASSUME AwaitedInv, FieldsInv, NEW n \in Created, Thread(n), UNCHANGED refresh
  PROVE  ThreadLeft' < ThreadLeft \/ UNCHANGED <<thread[1], refresh>>
PROOF
  <1>1. CASE n # 1
    <2>1. 1 \in Created
      BY CallersAssumption DEF Created
    <2>2. thread'[1] = thread[1]
      BY <1>1, <2>1 DEF Thread, Enter, Announce, RunEnds, End, AwaitedInv, TypeOK
    <2> QED BY <2>2
  <1>2. CASE n = 1
    <2>1. <<thread[1], thread'[1]>> \in
            {<<"new", "entered">>, <<"entered", "run">>, <<"run", "ending">>, <<"ending", "done">>}
      BY <1>2 DEF Thread, Enter, Announce, RunEnds, End, AwaitedInv, TypeOK
    <2>2. LoopLeft \in 0..8 /\ LoopLeft' = LoopLeft
      BY DEF LoopLeft
    <2> QED BY <2>1, <2>2 DEF ThreadLeft
  <1> QED BY <1>1, <1>2

LEMMA NextDestruct ==
  ClockInv /\ AwaitedInv /\ DestructInv /\ [ProviderNext]_allVars =>
    DestructInv' /\ [DestructStep]_allVars
PROOF
  <1> SUFFICES ASSUME ClockInv, AwaitedInv, DestructInv, [ProviderNext]_allVars
               PROVE  DestructInv' /\ DestructStep
    OBVIOUS
  <1>1. CASE UNCHANGED allVars
    BY <1>1 DEF allVars, vars, providerVars, instanceVars, clockVars, DestructInv, DestructStep
  <1>2. CASE user = "pool" /\ Next /\ UNCHANGED providerVars
    BY <1>2 DEF providerVars, instanceVars, clockVars, DestructInv, DestructStep
  <1>3. CASE user = "provider" /\ Surroundings
    <2>1. UNCHANGED <<user, gtl, call, refresh, terminate, dtor>>
      BY <1>3 DEF Surroundings, providerVars, instanceVars, clockVars
    <2>2. 1 \in Created
      BY CallersAssumption DEF Created
    <2>3. (\E n \in Created : Thread(n)) \/ UNCHANGED thread
      BY <1>3, <2>2 DEF Surroundings, Thread, SpuriousWakeup, StartReturns
    <2>4. ThreadLeft' < ThreadLeft \/ UNCHANGED <<thread[1], refresh>>
      BY <2>1, <2>3, ThreadNearsItsEnd DEF ClockInv
    <2> QED BY <2>1, <2>4 DEF DestructInv, DestructStep
  <1>4. CASE user = "provider" /\ Refresh
    <2>1. UNCHANGED <<user, gtl, call, terminate, dtor>>
      BY <1>4 DEF Refresh, LoopTest, SwapBuffers, TimeWait, WakeUp, Regain, Stamp, instanceVars
    <2>2. dtor # "no" => ThreadLeft' < ThreadLeft
      BY <1>4, LoopNearsItsEnd DEF DestructInv
    <2> QED BY <2>1, <2>2 DEF DestructInv, DestructStep
  <1>5. CASE user = "provider" /\ Destruct
    <2>1. /\ user' = user /\ terminate' = TRUE /\ gtl' = Nobody /\ dtor = "no"
          /\ \A c \in Callers : call'[c] = "out"
      BY <1>5 DEF Destruct, instanceVars
    <2> QED BY <1>5, <2>1 DEF DestructInv, DestructStep
  <1>6. CASE user = "provider" /\ (DestructorEnds \/ DestructorThrows)
    <2>1. UNCHANGED <<user, gtl, call, refresh, terminate, thread>> /\ dtor = "joining"
      BY <1>6 DEF DestructorEnds, DestructorThrows, instanceVars, clockVars, vars
    <2> QED BY <2>1 DEF DestructInv, DestructStep
  <1>7. ASSUME NEW c \in Callers, GetInstance(c) \/ GetNow(c) PROVE DestructInv' /\ DestructStep
    <2>1. dtor = "no" /\ dtor' = dtor
      <3>1. CASE TestUnlocked(c)
        BY <3>1 DEF TestUnlocked
      <3>2. CASE ~TestUnlocked(c)
        <4>1. call[c] # "out" /\ dtor' = dtor
          BY <1>7, <3>2 DEF GetInstance, TakeLock, Found, Create, CallStart, StartFails,
             Started, GetNow, ReadIndex, Decide, SystemTime, StampTime, Answer, Return, CpuMHz, Copy,
         Goto
        <4> QED BY <4>1 DEF DestructInv
      <3> QED BY <3>1, <3>2
    <2> QED BY <2>1 DEF DestructInv, DestructStep
  <1> QED BY <1>1, <1>2, <1>3, <1>4, <1>5, <1>6, <1>7 DEF ProviderNext

\* The destructor of the provider waits for a thread that nobody holds up, since g_tl is free
\* for good, and that was told to end, whether its notify came in time or not: whatever other
\* threads do, each step of that thread brings it nearer to its end, and no other step moves it.
THEOREM DestructorNearsItsEnd ==
  ProviderSpec => []DestructInv /\ [][DestructStep]_allVars
PROOF
  BY InitAwaited, NextAwaited, NextDestruct, ClockCorrect, PTL DEF ProviderSpec
=============================================================================
