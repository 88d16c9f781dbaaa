------------------------- MODULE ThreadQueueProofs -------------------------
(***************************************************************************)
(* Theorems about ThreadQueue for every set of threads and items, every    *)
(* batch length and every set of operations used.                          *)
(***************************************************************************)
EXTENDS ThreadQueue, SequenceTheorems, FiniteSetTheorems, TLAPS

\* The elements of a push batch come from Items, so do those of its reversal.
LEMMA FreshBatchType ==
  ASSUME NEW s \in FreshBatches
  PROVE  s \in Seq(Items) /\ Reverse(s) \in Seq(Items) /\ Len(Reverse(s)) = Len(s)
PROOF
  <1>1. s \in Seq(Items)
    BY DEF FreshBatches, Batches
  <1>2. Reverse(s) \in Seq(Items) /\ Len(Reverse(s)) = Len(s)
    BY <1>1 DEF Reverse
  <1> QED BY <1>1, <1>2

\* Type correctness of the queue and of its bookkeeping, together with the fact
\* that _size is the length of the deque (without it --_size could leave Nat).
Typed == TypeOK /\ SizeMatches

\* At first the queue is empty.
LEMMA InitTyped == Init => Typed
PROOF BY DEF Init, Typed, TypeOK, SizeMatches, NoCall

\* Signals move threads between two sets of threads.
LEMMA SignalType ==
  ASSUME TypeOK, NEW n \in Nat, Signal(n)
  PROVE  waiting' \subseteq Threads /\ woken' \subseteq Threads
PROOF BY DEF TypeOK, Signal

\* What is taken are items.
LEMMA TakeType ==
  ASSUME Typed, NEW op, Take(op)
  PROVE  /\ queue' \in Seq(Items) /\ taken' \in Seq(Items)
         /\ size' = Len(queue') /\ size' \in Nat
         /\ queue # <<>> /\ Len(queue') < Len(queue)
PROOF
  <1>1. queue \in Seq(Items) /\ taken \in Seq(Items) /\ size = Len(queue)
    BY DEF Typed, TypeOK, SizeMatches
  <1>2. CASE op = "swap"
    <2>1. queue # <<>> /\ queue' = <<>> /\ taken' = taken \o queue /\ size' = 0
      BY <1>2 DEF Take, TakeAll
    <2>2. Len(queue) \in Nat \ {0} /\ taken \o queue \in Seq(Items)
      BY <1>1, <2>1, EmptySeq, ConcatProperties
    <2> QED BY <1>1, <2>1, <2>2
  <1>3. CASE op # "swap"
    <2>1. queue # <<>> /\ queue' = Tail(queue) /\ taken' = Append(taken, Head(queue))
      BY <1>3 DEF Take, TakeHead
    <2>2. size' = size - 1
      BY <1>3 DEF Take, TakeHead
    <2>3. Len(queue) \in Nat \ {0} /\ Len(Tail(queue)) = Len(queue) - 1
          /\ Tail(queue) \in Seq(Items) /\ Head(queue) \in Items
      BY <1>1, <2>1, EmptySeq, HeadTailProperties
    <2> QED BY <1>1, <2>1, <2>2, <2>3
  <1> QED BY <1>2, <1>3

\* Every step keeps types and size.
LEMMA NextTyped == Typed /\ [Next]_vars => Typed'
PROOF
  <1> SUFFICES ASSUME Typed, [Next]_vars PROVE Typed'
    OBVIOUS
  <1> USE DEF Typed, TypeOK, SizeMatches
  <1>1. ASSUME NEW t \in Threads, NEW s \in FreshBatches, PushBack(t, s)
        PROVE  Typed'
    <2>1. s \in Seq(Items) /\ Len(s) \in Nat
      BY FreshBatchType, LenProperties
    <2>2. queue' = queue \o s /\ size' = size + Len(s) /\ sent' = sent \o s
      BY <1>1 DEF PushBack
    <2>3. queue' \in Seq(Items) /\ sent' \in Seq(Items) /\ size' = Len(queue')
          /\ size' \in Nat
      BY <2>1, <2>2, ConcatProperties
    <2>4. waiting' \subseteq Threads /\ woken' \subseteq Threads
      BY <1>1, <2>1, SignalType DEF PushBack
    <2> QED BY <1>1, <2>3, <2>4 DEF PushBack
  <1>2. ASSUME NEW t \in Threads, NEW s \in FreshBatches, PushFront(t, s)
        PROVE  Typed'
    <2>1. /\ s \in Seq(Items) /\ Len(s) \in Nat
          /\ Reverse(s) \in Seq(Items) /\ Len(Reverse(s)) = Len(s)
      BY FreshBatchType, LenProperties
    <2>2. queue' = Reverse(s) \o queue /\ size' = size + Len(s)
      BY <1>2 DEF PushFront
    <2>3. queue' \in Seq(Items) /\ size' = Len(queue') /\ size' \in Nat
      BY <2>1, <2>2, ConcatProperties
    <2>4. waiting' \subseteq Threads /\ woken' \subseteq Threads
      BY <1>2, <2>1, SignalType DEF PushFront
    <2> QED BY <1>2, <2>3, <2>4 DEF PushFront
  <1>3. ASSUME NEW t \in Threads, NEW op \in {"pop_front", "swap"},
               NEW mode \in Modes, Enter(t, op, mode)
        PROVE  Typed'
    <2>1. CASE Take(op) /\ UNCHANGED waitVars
      BY <1>3, <2>1, TakeType DEF Enter, waitVars
    <2>2. CASE ReturnFalse /\ UNCHANGED waitVars
      BY <1>3, <2>2 DEF Enter, waitVars, ReturnFalse
    <2>3. CASE /\ queue = <<>> /\ mode # "poll"
               /\ waiting' = waiting \cup {t}
               /\ call' = [call EXCEPT ![t] = [op |-> op, mode |-> mode]]
               /\ UNCHANGED <<queue, size, taken, woken, expired>>
      <3>1. [op |-> op, mode |-> mode] \in Calls
        BY <2>3 DEF Calls, Modes
      <3> QED BY <1>3, <2>3, <3>1 DEF Enter
    <2> QED BY <1>3, <2>1, <2>2, <2>3 DEF Enter
  <1>4. ASSUME NEW t \in Threads, Resume(t) PROVE Typed'
    <2>1. CASE Take(call[t].op)
      BY <1>4, <2>1, TakeType DEF Resume
    <2>2. CASE ReturnFalse
      BY <1>4, <2>2 DEF Resume, ReturnFalse
    <2> QED BY <1>4, <2>1, <2>2 DEF Resume
  <1>5. ASSUME NEW t \in Threads, Expire(t) PROVE Typed'
    BY <1>5 DEF Expire
  <1>6. ASSUME NEW t \in Threads, GiveUp(t) PROVE Typed'
    BY <1>6 DEF GiveUp, ReturnFalse
  <1>7. ASSUME NEW t \in Threads, Spurious(t) PROVE Typed'
    BY <1>7 DEF Spurious
  <1>8. ASSUME NEW t \in Threads, NotifyT(t) PROVE Typed'
    BY <1>8 DEF NotifyT
  <1>9. ASSUME NEW t \in Threads, Clear(t) PROVE Typed'
    <2>1. ToSet(queue) \subseteq Items
      BY DEF ToSet
    <2> QED BY <1>9, <2>1 DEF Clear
  <1>10. CASE UNCHANGED vars
    BY <1>10 DEF vars
  <1> QED
    BY <1>1, <1>2, <1>3, <1>4, <1>5, <1>6, <1>7, <1>8, <1>9, <1>10 DEF Next

\* Every variable keeps its type in every reachable state.
THEOREM TypeCorrect == Spec => []TypeOK
PROOF
  <1>1. Typed => TypeOK BY DEF Typed
  <1> QED BY <1>1, InitTyped, NextTyped, PTL DEF Spec

\* size() is exact and the assertion in pop_front holds: _size is the length of
\* the deque whenever the mutex is free.
THEOREM SizeCorrect == Spec => []SizeMatches
PROOF
  <1>1. Typed => SizeMatches BY DEF Typed
  <1> QED BY <1>1, InitTyped, NextTyped, PTL DEF Spec

\* A signal moves threads and touches nobody else: the sets of waiting and woken
\* threads stay disjoint and keep their union.
LEMMA SignalMoves ==
  ASSUME NEW n \in Nat, Signal(n), waiting \cap woken = {}
  PROVE  /\ waiting' \cap woken' = {}
         /\ waiting' \cup woken' = waiting \cup woken
PROOF BY DEF Signal

\* Every step leaves a blocked thread in one place.
LEMMA NextBlockedOnce == Typed /\ BlockedOnce /\ [Next]_vars => BlockedOnce'
PROOF
  <1> SUFFICES ASSUME Typed, BlockedOnce, [Next]_vars PROVE BlockedOnce'
    OBVIOUS
  <1> USE DEF BlockedOnce
  <1>c. call \in [Threads -> Calls \cup {NoCall}] /\ waiting \subseteq Threads
        /\ woken \subseteq Threads /\ expired \subseteq Threads
    BY DEF Typed, TypeOK
  <1>n. NoCall \notin Calls /\ NoCall.mode = "poll"
    BY DEF NoCall, Calls
  <1>1. ASSUME NEW t \in Threads, NEW s \in FreshBatches,
               PushBack(t, s) \/ PushFront(t, s)
        PROVE  BlockedOnce'
    <2>1. Len(s) \in Nat /\ Signal(Len(s)) /\ UNCHANGED <<expired, call>>
      BY <1>1, FreshBatchType, LenProperties DEF PushBack, PushFront
    <2>2. waiting' \cap woken' = {} /\ waiting' \cup woken' = waiting \cup woken
      BY <2>1, SignalMoves
    <2> QED BY <2>1, <2>2
  <1>2. ASSUME NEW t \in Threads, NEW op \in {"pop_front", "swap"},
               NEW mode \in Modes, Enter(t, op, mode)
        PROVE  BlockedOnce'
    <2>1. CASE UNCHANGED waitVars
      BY <2>1 DEF waitVars
    <2>2. CASE /\ queue = <<>> /\ mode # "poll"
               /\ waiting' = waiting \cup {t}
               /\ call' = [call EXCEPT ![t] = [op |-> op, mode |-> mode]]
               /\ UNCHANGED <<queue, size, taken, woken, expired>>
      <3>1. [op |-> op, mode |-> mode] # NoCall
        BY <2>2 DEF NoCall, Modes
      <3>2. call[t] = NoCall
        BY <1>2 DEF Enter, Idle
      <3>3. {u \in Threads : call'[u] # NoCall}
              = {u \in Threads : call[u] # NoCall} \cup {t}
        BY <1>c, <2>2, <3>1, <3>2
      <3> QED BY <2>2, <3>2, <3>3
    <2> QED BY <1>2, <2>1, <2>2 DEF Enter
  <1>3. ASSUME NEW t \in Threads, Resume(t) \/ GiveUp(t) PROVE BlockedOnce'
    <2>1. {u \in Threads : call'[u] # NoCall}
            = {u \in Threads : call[u] # NoCall} \ {t}
      BY <1>3, <1>c DEF Resume, GiveUp
    <2> QED BY <1>3, <2>1 DEF Resume, GiveUp
  <1>4. ASSUME NEW t \in Threads, Expire(t) \/ Spurious(t) PROVE BlockedOnce'
    BY <1>4 DEF Expire, Spurious
  <1>5. ASSUME NEW t \in Threads, NotifyT(t) \/ Clear(t) PROVE BlockedOnce'
    BY <1>5 DEF NotifyT, Clear
  <1>6. CASE UNCHANGED vars
    BY <1>6 DEF vars
  <1> QED BY <1>1, <1>2, <1>3, <1>4, <1>5, <1>6 DEF Next

\* However signals, deadlines and spurious wake-ups interleave, a blocked thread is
\* in exactly one of the places the condition wait leaves it in.
THEOREM BlockedCorrect == Spec => []BlockedOnce
PROOF
  <1>1. Init => BlockedOnce BY DEF Init, BlockedOnce
  <1> QED BY <1>1, InitTyped, NextTyped, NextBlockedOnce, PTL DEF Spec
-----------------------------------------------------------------------------
\* A step that leaves the woken threads alone or adds to them, and the queue alone
\* or shortens it, cannot strand an item.
LEMMA NotWorse ==
  ASSUME Typed, NoStrandedItem, waiting' \subseteq waiting \/ queue = <<>>,
         woken \subseteq woken', IsFiniteSet(woken'),
         queue' \in Seq(Items), Len(queue') <= Len(queue)
  PROVE  NoStrandedItem'
PROOF
  <1>1. Cardinality(woken) \in Nat /\ Cardinality(woken') \in Nat
        /\ Cardinality(woken) <= Cardinality(woken')
    BY FS_Subset, FS_CardinalityType
  <1>2. Len(queue) \in Nat /\ Len(queue') \in Nat
    BY LenProperties DEF Typed, TypeOK
  <1>3. queue = <<>> => Len(queue) = 0
    OBVIOUS
  <1> QED BY <1>1, <1>2, <1>3 DEF NoStrandedItem

\* One signal per pushed item: either nobody is left waiting, or the woken threads
\* have grown by as many as the queue.
LEMMA PushStrandsNothing ==
  ASSUME Typed, BlockedOnce, NoStrandedItem, NEW n \in Nat, Signal(n),
         queue' \in Seq(Items), Len(queue') = Len(queue) + n
  PROVE  NoStrandedItem'
PROOF
  <1>1. SUFFICES ASSUME waiting' # {} PROVE Cardinality(woken') >= Len(queue')
    BY DEF NoStrandedItem
  <1>2. PICK S \in SUBSET waiting :
          /\ Cardinality(S) = n \/ (S = waiting /\ Cardinality(S) <= n)
          /\ waiting' = waiting \ S /\ woken' = woken \cup S
    BY DEF Signal
  <1>3. Cardinality(S) = n /\ waiting # {}
    BY <1>1, <1>2
  <1>4. IsFiniteSet(waiting) /\ IsFiniteSet(woken)
    BY ThreadsAssumption, FS_Subset DEF Typed, TypeOK
  <1>5. IsFiniteSet(S) /\ S \cap woken = {}
    BY <1>2, <1>4, FS_Subset DEF BlockedOnce
  <1>6. Cardinality(woken \cup S)
          = Cardinality(woken) + Cardinality(S) - Cardinality(woken \cap S)
    BY <1>4, <1>5, FS_Union
  <1>7. Cardinality(woken \cap S) = 0
    <2>1. woken \cap S = {} BY <1>5
    <2> QED BY <2>1, FS_EmptySet
  <1>8. Cardinality(woken) \in Nat /\ Cardinality(S) \in Nat
    BY <1>4, <1>5, FS_CardinalityType
  <1>9. Cardinality(woken) >= Len(queue) /\ Len(queue) \in Nat
    BY <1>3, LenProperties DEF NoStrandedItem, Typed, TypeOK
  <1> QED BY <1>2, <1>3, <1>6, <1>7, <1>8, <1>9

\* Every step leaves a signalled thread for each item, or no sleeper.
LEMMA NextNoStranded ==
  Typed /\ BlockedOnce /\ NoStrandedItem /\ [Next]_vars => NoStrandedItem'
PROOF
  <1> SUFFICES ASSUME Typed, BlockedOnce, NoStrandedItem, [Next]_vars
               PROVE  NoStrandedItem'
    OBVIOUS
  <1>t. Typed'
    BY NextTyped
  <1>q. /\ queue \in Seq(Items) /\ Len(queue) \in Nat
        /\ queue' \in Seq(Items) /\ Len(queue') \in Nat
    BY <1>t, LenProperties DEF Typed, TypeOK
  <1>f. IsFiniteSet(woken) /\ IsFiniteSet(woken')
    BY <1>t, ThreadsAssumption, FS_Subset DEF Typed, TypeOK
  <1>1. ASSUME NEW t \in Threads, NEW s \in FreshBatches,
               PushBack(t, s) \/ PushFront(t, s)
        PROVE  NoStrandedItem'
    <2>1. Len(s) \in Nat /\ Signal(Len(s)) /\ size' = size + Len(s)
      BY <1>1, FreshBatchType, LenProperties DEF PushBack, PushFront
    <2>2. Len(queue') = Len(queue) + Len(s)
      BY <2>1, <1>t DEF Typed, SizeMatches
    <2> QED BY <2>1, <2>2, <1>q, PushStrandsNothing
  <1>2. ASSUME NEW t \in Threads, NEW op \in {"pop_front", "swap"},
               NEW mode \in Modes, Enter(t, op, mode)
        PROVE  NoStrandedItem'
    <2>1. CASE Take(op) /\ UNCHANGED waitVars
      <3>1. Len(queue') < Len(queue) /\ waiting' = waiting /\ woken' = woken
        BY <2>1, TakeType DEF waitVars
      <3> QED BY <3>1, <1>q, <1>f, NotWorse
    <2>2. CASE ReturnFalse /\ UNCHANGED waitVars
      BY <2>2 DEF ReturnFalse, waitVars, NoStrandedItem
    <2>3. CASE queue = <<>> /\ UNCHANGED <<queue, woken>>
      BY <2>3, <1>q, <1>f, NotWorse
    <2> QED BY <1>2, <2>1, <2>2, <2>3 DEF Enter
  <1>3. ASSUME NEW t \in Threads, Resume(t) PROVE NoStrandedItem'
    <2>1. t \in woken /\ woken' = woken \ {t} /\ waiting' = waiting
      BY <1>3 DEF Resume
    <2>2. Cardinality(woken') = Cardinality(woken) - 1 /\ Cardinality(woken) \in Nat
      BY <2>1, <1>f, FS_RemoveElement, FS_CardinalityType
    <2>3. CASE Take(call[t].op)
      <3>1. Len(queue') < Len(queue)
        BY <2>3, TakeType
      <3> QED BY <2>1, <2>2, <3>1, <1>q DEF NoStrandedItem
    <2>4. CASE queue = <<>> /\ ReturnFalse
      <3>1. Len(queue') = 0
        BY <2>4 DEF ReturnFalse
      <3>2. Cardinality(woken') \in Nat
        BY <1>f, FS_CardinalityType
      <3> QED BY <3>1, <3>2 DEF NoStrandedItem
    <2> QED BY <1>3, <2>3, <2>4 DEF Resume
  <1>4. ASSUME NEW t \in Threads, Expire(t) \/ Spurious(t) PROVE NoStrandedItem'
    <2>1. waiting' \subseteq waiting /\ woken \subseteq woken' /\ queue' = queue
      BY <1>4 DEF Expire, Spurious
    <2> QED BY <2>1, <1>q, <1>f, NotWorse
  <1>5. ASSUME NEW t \in Threads, GiveUp(t) PROVE NoStrandedItem'
    BY <1>5 DEF GiveUp, ReturnFalse, NoStrandedItem
  <1>6. ASSUME NEW t \in Threads, NotifyT(t) PROVE NoStrandedItem'
    BY <1>6 DEF NotifyT, NoStrandedItem
  <1>7. ASSUME NEW t \in Threads, Clear(t) PROVE NoStrandedItem'
    <2>1. Len(queue') = 0 /\ waiting' = waiting /\ woken' = woken
      BY <1>7 DEF Clear
    <2> QED BY <2>1, <1>q, <1>f, NotWorse
  <1>8. CASE UNCHANGED vars
    BY <1>8 DEF vars, NoStrandedItem
  <1> QED BY <1>1, <1>2, <1>3, <1>4, <1>5, <1>6, <1>7, <1>8 DEF Next

\* No lost wake-up, for any number of threads and items: signalling once per item
\* is enough, because each queued item keeps a woken thread of its own for as long
\* as anyone sleeps.
THEOREM NoItemStranded == Spec => []NoStrandedItem
PROOF
  <1>1. Init => NoStrandedItem
    BY DEF Init, NoStrandedItem
  <1>2. Init => BlockedOnce
    BY DEF Init, BlockedOnce
  <1> QED
    BY <1>1, <1>2, InitTyped, NextTyped, NextBlockedOnce, NextNoStranded, PTL DEF Spec
-----------------------------------------------------------------------------
Pending == {t \in Threads : call[t] # NoCall}

\* The end of a blocking call takes its thread, and no other, out of Pending.
LEMMA PendingLeaves ==
  ASSUME Typed, NEW t \in Threads, call[t] # NoCall,
         call' = [call EXCEPT ![t] = NoCall]
  PROVE  Contract!Leave(t)
PROOF
  <1>1. {u \in Threads : call'[u] # NoCall} = Pending \ {t}
    BY DEF Pending, Typed, TypeOK
  <1> QED BY <1>1 DEF Contract!Leave, Pending

\* Every step is one of the contract, or changes nothing it speaks of.
LEMMA NextKeepsContract ==
  Typed /\ BlockedOnce /\ [Next]_vars
    => [Contract!Next]_<<queue, {t \in Threads : call[t] # NoCall}>>
PROOF
  <1> SUFFICES ASSUME Typed, BlockedOnce, [Next]_vars
               PROVE  Contract!Next \/ (queue' = queue /\ Pending' = Pending)
    BY DEF Pending
  <1>1. ASSUME NEW t \in Threads, NEW s \in FreshBatches, PushBack(t, s)
        PROVE  Contract!Next
    <2>1. s \in Contract!Batches
      BY DEF FreshBatches, Batches, Contract!Batches
    <2>2. Contract!PushBack(s)
      BY <1>1 DEF PushBack, Contract!PushBack
    <2> QED BY <2>1, <2>2 DEF Contract!Next
  <1>2. ASSUME NEW t \in Threads, NEW s \in FreshBatches, PushFront(t, s)
        PROVE  Contract!Next
    <2>1. /\ s \in Seq(Items)
          /\ Reverse(s) \in Seq(Items) /\ Len(Reverse(s)) = Len(s)
      BY FreshBatchType
    <2>2. Len(s) \in 0..MaxBatch
      BY MaxBatchAssumption DEF FreshBatches, Batches
    <2>3. Reverse(s) \in Contract!Batches
      BY <2>1, <2>2 DEF Contract!Batches
    <2>4. Contract!PushFront(Reverse(s))
      BY <1>2 DEF PushFront, Contract!PushFront
    <2> QED BY <2>3, <2>4 DEF Contract!Next
  <1>3. ASSUME NEW t \in Threads, NEW op \in {"pop_front", "swap"},
               NEW mode \in Modes, Enter(t, op, mode)
        PROVE  Contract!Next \/ (queue' = queue /\ Pending' = Pending)
    <2>1. CASE Take(op) /\ UNCHANGED waitVars
      <3>1. CASE op = "swap"
        BY <2>1, <3>1
        DEF Take, TakeAll, waitVars, Contract!Next, Contract!SwapNow, Contract!TakeAll
      <3>2. CASE op # "swap"
        <4>1. Head(queue) \in Items
          BY <2>1, <3>2, HeadTailProperties DEF Take, TakeHead, Typed, TypeOK
        <4>2. Contract!PopNow(Head(queue))
          BY <2>1, <3>2
          DEF Take, TakeHead, waitVars, Contract!PopNow, Contract!TakeHead
        <4> QED BY <4>1, <4>2 DEF Contract!Next
      <3> QED BY <3>1, <3>2
    <2>2. CASE ReturnFalse /\ UNCHANGED waitVars
      BY <2>2 DEF ReturnFalse, waitVars, Pending
    <2>3. CASE /\ queue = <<>> /\ mode # "poll"
               /\ waiting' = waiting \cup {t}
               /\ call' = [call EXCEPT ![t] = [op |-> op, mode |-> mode]]
               /\ UNCHANGED <<queue, size, taken, woken, expired>>
      <3>1. [op |-> op, mode |-> mode] # NoCall /\ call[t] = NoCall
        BY <1>3, <2>3 DEF NoCall, Modes, Enter, Idle
      <3>2. Contract!Block(t)
        BY <2>3, <3>1 DEF Contract!Block, Typed, TypeOK
      <3> QED BY <3>2 DEF Contract!Next
    <2> QED BY <1>3, <2>1, <2>2, <2>3 DEF Enter
  <1>4. ASSUME NEW t \in Threads, Resume(t) PROVE Contract!Next
    <2>1. Contract!Leave(t)
      BY <1>4, PendingLeaves DEF Resume, BlockedOnce
    <2>2. CASE Take(call[t].op)
      <3>1. CASE call[t].op = "swap"
        BY <2>1, <2>2, <3>1
        DEF Take, TakeAll, Contract!Next, Contract!SwapLate, Contract!TakeAll
      <3>2. CASE call[t].op # "swap"
        <4>1. Head(queue) \in Items
          BY <2>2, <3>2, HeadTailProperties DEF Take, TakeHead, Typed, TypeOK
        <4>2. Contract!PopLate(t, Head(queue))
          BY <2>1, <2>2, <3>2
          DEF Take, TakeHead, Contract!PopLate, Contract!TakeHead
        <4> QED BY <4>1, <4>2 DEF Contract!Next
      <3> QED BY <3>1, <3>2
    <2>3. CASE ReturnFalse
      BY <2>1, <2>3 DEF ReturnFalse, Contract!Miss, Contract!Next
    <2> QED BY <1>4, <2>2, <2>3 DEF Resume
  <1>5. ASSUME NEW t \in Threads, GiveUp(t) PROVE Contract!Next
    <2>1. Contract!Leave(t)
      BY <1>5, PendingLeaves DEF GiveUp, BlockedOnce
    <2> QED BY <1>5, <2>1 DEF GiveUp, ReturnFalse, Contract!Miss, Contract!Next
  <1>6. ASSUME NEW t \in Threads, Expire(t) \/ Spurious(t) \/ NotifyT(t)
        PROVE  queue' = queue /\ Pending' = Pending
    BY <1>6 DEF Expire, Spurious, NotifyT, Pending
  <1>7. ASSUME NEW t \in Threads, Clear(t) PROVE Contract!Next
    BY <1>7 DEF Clear, Contract!Clear, Contract!Next
  <1>8. CASE UNCHANGED vars
    BY <1>8 DEF vars, Pending
  <1> QED
    BY <1>1, <1>2, <1>3, <1>4, <1>5, <1>6, <1>7, <1>8 DEF Next

\* YR_Thread_Queue implements QueueContract: the initial queue is an initial state
\* of the contract, and every step of every operation is a step of it or a stutter.
THEOREM ImplementsContract == Spec => KeepsContract
PROOF
  <1>1. Init => Contract!Init
    BY DEF Init, Contract!Init
  <1>2. Init => BlockedOnce
    BY DEF Init, BlockedOnce
  <1> QED
    BY <1>1, <1>2, InitTyped, NextTyped, NextBlockedOnce, NextKeepsContract, PTL
    DEF Spec, KeepsContract, Contract!Spec
-----------------------------------------------------------------------------
(* NothingLost and BackOrder *)

\* y stands somewhere behind x in s.
Before(s, x, y) == \E i, j \in DOMAIN s : i < j /\ s[i] = x /\ s[j] = y

\* What stands behind something is an element, and two elements of a sequence without
\* repetitions stand behind each other one way only.
LEMMA BeforeProperties ==
  ASSUME NEW S, NEW s \in Seq(S), NEW x, NEW y, Before(s, x, y)
  PROVE  /\ x \in ToSet(s) /\ y \in ToSet(s)
         /\ IsInjective(s) => x # y /\ ~Before(s, y, x)
PROOF
  <1>1. DOMAIN s = 1..Len(s) /\ Len(s) \in Nat
    BY LenProperties
  <1>2. PICK i, j \in 1..Len(s) : i < j /\ s[i] = x /\ s[j] = y
    BY <1>1 DEF Before
  <1>3. ASSUME IsInjective(s) PROVE x # y /\ ~Before(s, y, x)
    <2>1. x # y
      BY <1>1, <1>2, <1>3 DEF IsInjective
    <2>2. ASSUME NEW k \in 1..Len(s), NEW l \in 1..Len(s), k < l, s[k] = y, s[l] = x
          PROVE  FALSE
      <3>1. k = j /\ l = i
        BY <1>1, <1>2, <1>3, <2>2 DEF IsInjective
      <3> QED BY <1>1, <1>2, <2>2, <3>1
    <2> QED BY <1>1, <2>1, <2>2 DEF Before
  <1> QED BY <1>1, <1>2, <1>3 DEF ToSet

\* Two sequences one after the other: their elements, repetitions and order.
LEMMA ConcatElements ==
  ASSUME NEW S, NEW a \in Seq(S), NEW b \in Seq(S)
  PROVE  /\ ToSet(a \o b) = ToSet(a) \cup ToSet(b)
         /\ IsInjective(a \o b) <=>
              IsInjective(a) /\ IsInjective(b) /\ ToSet(a) \cap ToSet(b) = {}
         /\ \A x, y : Before(a \o b, x, y) <=>
              \/ Before(a, x, y) \/ Before(b, x, y)
              \/ x \in ToSet(a) /\ y \in ToSet(b)
PROOF
  <1> DEFINE r == a \o b
             m == Len(a)
             n == Len(b)
  <1>1. /\ DOMAIN a = 1..m /\ DOMAIN b = 1..n /\ m \in Nat /\ n \in Nat
        /\ DOMAIN r = 1..(m + n)
    BY ConcatProperties, LenProperties
  <1>2. \A i \in 1..m : i \in 1..(m + n) /\ r[i] = a[i]
    BY <1>1, ConcatProperties
  <1>3. \A i \in 1..n : m + i \in 1..(m + n) /\ r[m + i] = b[i]
    BY <1>1, ConcatProperties
  <1>4. \A k \in 1..(m + n) : \/ k \in 1..m
                              \/ \E i \in 1..n : k = m + i
    <2> SUFFICES ASSUME NEW k \in 1..(m + n), k \notin 1..m
                 PROVE  \E i \in 1..n : k = m + i
      OBVIOUS
    <2>1. k - m \in 1..n /\ k = m + (k - m)
      BY <1>1
    <2> QED BY <2>1
  <1> HIDE DEF r, m, n
  <1>5. ToSet(r) = ToSet(a) \cup ToSet(b)
    <2>1. ASSUME NEW k \in 1..(m + n) PROVE r[k] \in ToSet(a) \cup ToSet(b)
      <3>1. CASE k \in 1..m
        BY <1>1, <1>2, <3>1 DEF ToSet
      <3>2. CASE \E i \in 1..n : k = m + i
        BY <1>1, <1>3, <3>2 DEF ToSet
      <3> QED BY <1>4, <3>1, <3>2
    <2>2. ToSet(a) \subseteq ToSet(r)
      BY <1>1, <1>2 DEF ToSet
    <2>3. ToSet(b) \subseteq ToSet(r)
      BY <1>1, <1>3 DEF ToSet
    <2> QED BY <1>1, <2>1, <2>2, <2>3 DEF ToSet
  <1>6. IsInjective(r) =>
          IsInjective(a) /\ IsInjective(b) /\ ToSet(a) \cap ToSet(b) = {}
    <2> SUFFICES ASSUME IsInjective(r)
                 PROVE  IsInjective(a) /\ IsInjective(b) /\ ToSet(a) \cap ToSet(b) = {}
      OBVIOUS
    <2>1. IsInjective(a)
      BY <1>1, <1>2 DEF IsInjective
    <2>2. ASSUME NEW i \in 1..n, NEW k \in 1..n, b[i] = b[k] PROVE i = k
      <3>1. m + i = m + k
        BY <1>1, <1>3, <2>2 DEF IsInjective
      <3> QED BY <1>1, <3>1
    <2>3. ASSUME NEW i \in 1..m, NEW k \in 1..n, a[i] = b[k] PROVE FALSE
      <3>1. i = m + k
        BY <1>1, <1>2, <1>3, <2>3 DEF IsInjective
      <3> QED BY <1>1, <3>1
    <2> QED BY <1>1, <2>1, <2>2, <2>3 DEF IsInjective, ToSet
  <1>7. IsInjective(a) /\ IsInjective(b) /\ ToSet(a) \cap ToSet(b) = {} => IsInjective(r)
    <2> SUFFICES ASSUME IsInjective(a), IsInjective(b), ToSet(a) \cap ToSet(b) = {},
                        NEW k \in 1..(m + n), NEW l \in 1..(m + n), r[k] = r[l]
                 PROVE  k = l
      BY <1>1 DEF IsInjective
    <2>1. \A i \in 1..m, j \in 1..n : a[i] # b[j]
      BY <1>1 DEF ToSet
    <2>2. CASE k \in 1..m /\ l \in 1..m
      BY <1>1, <1>2, <2>2 DEF IsInjective
    <2>3. ASSUME NEW i \in 1..n, k = m + i PROVE k = l
      <3>1. CASE l \in 1..m
        BY <1>2, <1>3, <2>1, <2>3, <3>1
      <3>2. CASE \E j \in 1..n : l = m + j
        <4>1. PICK j \in 1..n : l = m + j
          BY <3>2
        <4>2. b[i] = b[j]
          BY <1>3, <2>3, <4>1
        <4> QED BY <1>1, <2>3, <4>1, <4>2 DEF IsInjective
      <3> QED BY <1>4, <3>1, <3>2
    <2>4. CASE k \in 1..m /\ \E j \in 1..n : l = m + j
      BY <1>2, <1>3, <2>1, <2>4
    <2> QED BY <1>4, <2>2, <2>3, <2>4
  <1>8. ASSUME NEW x, NEW y, Before(r, x, y)
        PROVE  \/ Before(a, x, y) \/ Before(b, x, y)
               \/ x \in ToSet(a) /\ y \in ToSet(b)
    <2>1. PICK k, l \in 1..(m + n) : k < l /\ r[k] = x /\ r[l] = y
      BY <1>1, <1>8 DEF Before
    <2>2. CASE k \in 1..m /\ l \in 1..m
      BY <1>1, <1>2, <2>1, <2>2 DEF Before
    <2>3. CASE k \in 1..m /\ l \notin 1..m
      BY <1>1, <1>2, <1>3, <1>4, <2>1, <2>3 DEF ToSet
    <2>4. CASE k \notin 1..m
      <3>1. l \notin 1..m
        BY <1>1, <2>1, <2>4
      <3>2. PICK i \in 1..n : k = m + i
        BY <1>4, <2>4
      <3>3. PICK j \in 1..n : l = m + j
        BY <1>4, <3>1
      <3>4. i < j /\ b[i] = x /\ b[j] = y
        BY <1>1, <1>3, <2>1, <3>2, <3>3
      <3> QED BY <1>1, <3>4 DEF Before
    <2> QED BY <2>2, <2>3, <2>4
  <1>9. ASSUME NEW x, NEW y, Before(a, x, y) PROVE Before(r, x, y)
    BY <1>1, <1>2, <1>9 DEF Before
  <1>10. ASSUME NEW x, NEW y, Before(b, x, y) PROVE Before(r, x, y)
    <2>1. PICK i, j \in 1..n : i < j /\ b[i] = x /\ b[j] = y
      BY <1>1, <1>10 DEF Before
    <2>2. m + i < m + j
      BY <1>1, <2>1
    <2> QED BY <1>1, <1>3, <2>1, <2>2 DEF Before
  <1>11. ASSUME NEW x \in ToSet(a), NEW y \in ToSet(b) PROVE Before(r, x, y)
    <2>1. PICK i \in 1..m, j \in 1..n : a[i] = x /\ b[j] = y
      BY <1>1 DEF ToSet
    <2>2. i < m + j
      BY <1>1, <2>1
    <2> QED BY <1>1, <1>2, <1>3, <2>1, <2>2 DEF Before
  <1> QED BY <1>5, <1>6, <1>7, <1>8, <1>9, <1>10, <1>11 DEF r

\* Turning a batch round, as push_front does, neither loses nor repeats an item.
LEMMA ReverseElements ==
  ASSUME NEW s \in FreshBatches
  PROVE  /\ ToSet(Reverse(s)) = ToSet(s)
         /\ IsInjective(Reverse(s))
PROOF
  <1> DEFINE r == Reverse(s)
             n == Len(s)
  <1>1. s \in Seq(Items) /\ IsInjective(s)
    BY FreshBatchType DEF FreshBatches
  <1>2. /\ n \in Nat /\ DOMAIN s = 1..n /\ DOMAIN r = 1..n
        /\ \A i \in 1..n : r[i] = s[(n - i) + 1] /\ (n - i) + 1 \in 1..n
    BY <1>1, LenProperties DEF Reverse
  <1>3. \A k \in 1..n : (n - k) + 1 \in 1..n /\ (n - ((n - k) + 1)) + 1 = k
    BY <1>2
  <1> HIDE DEF r, n
  <1>4. ToSet(r) = ToSet(s)
    <2>1. ToSet(r) \subseteq ToSet(s)
      BY <1>2 DEF ToSet
    <2>2. ASSUME NEW k \in 1..n PROVE s[k] \in ToSet(r)
      <3>1. r[(n - k) + 1] = s[k]
        BY <1>2, <1>3
      <3> QED BY <1>2, <1>3, <3>1 DEF ToSet
    <2> QED BY <1>2, <2>1, <2>2 DEF ToSet
  <1>5. ASSUME NEW i \in 1..n, NEW k \in 1..n, r[i] = r[k] PROVE i = k
    <2>1. (n - i) + 1 = (n - k) + 1
      BY <1>1, <1>2, <1>5 DEF IsInjective
    <2> QED BY <1>2, <2>1
  <1> QED BY <1>2, <1>4, <1>5 DEF r, IsInjective

\* Every item is in one place, and those pushed to the back keep their order: nothing
\* leaves the queue before what was pushed to the back before it.
OnceInv ==
  /\ IsInjective(queue) /\ IsInjective(taken) /\ IsInjective(sent)
  /\ fresh \cup ToSet(queue) \cup ToSet(taken) \cup dropped = Items
  /\ fresh \cap (ToSet(queue) \cup ToSet(taken) \cup dropped \cup ToSet(sent)) = {}
  /\ ToSet(queue) \cap (ToSet(taken) \cup dropped) = {}
  /\ ToSet(taken) \cap dropped = {}
OrderInv ==
  \A x, y : Before(sent, x, y) =>
    /\ y \in ToSet(taken) => x \notin ToSet(queue)
    /\ ~Before(queue, y, x) /\ ~Before(taken, y, x)
PlaceInv == OnceInv /\ OrderInv

\* At first every item is unpushed.
LEMMA InitPlaces == Init => PlaceInv
PROOF BY DEF Init, PlaceInv, OnceInv, OrderInv, Before, ToSet, IsInjective

\* The queue is split in two where an item or a batch leaves it.
LEMMA TakeSplits ==
  ASSUME Typed, NEW op, Take(op)
  PROVE  \E p, q \in Seq(Items) : queue = p \o q /\ queue' = q /\ taken' = taken \o p
PROOF
  <1>1. queue \in Seq(Items) /\ taken \in Seq(Items)
    BY DEF Typed, TypeOK
  <1>2. CASE op = "swap"
    <2>1. queue' = <<>> /\ taken' = taken \o queue
      BY <1>2 DEF Take, TakeAll
    <2>2. queue = queue \o <<>> /\ <<>> \in Seq(Items)
      BY <1>1, ConcatEmptySeq, EmptySeq
    <2> QED BY <1>1, <2>1, <2>2
  <1>3. CASE op # "swap"
    <2> DEFINE h == Head(queue)
               q == Tail(queue)
    <2>1. queue # <<>> /\ queue' = q /\ taken' = Append(taken, h)
      BY <1>3 DEF Take, TakeHead
    <2>2. /\ h \in Items /\ q \in Seq(Items) /\ Len(q) = Len(queue) - 1
          /\ \A i \in 1..Len(q) : q[i] = queue[i + 1]
          /\ h = queue[1] /\ Len(queue) \in Nat \ {0}
      BY <1>1, <2>1, HeadTailProperties, EmptySeq
    <2>3. <<h>> \in Seq(Items) /\ Len(<<h>>) = 1 /\ <<h>>[1] = h
      BY <2>2
    <2>4. Append(taken, h) = taken \o <<h>>
      BY <1>1, <2>2
    <2>5. queue = <<h>> \o q
      <3>1. /\ <<h>> \o q \in Seq(Items) /\ Len(<<h>> \o q) = Len(queue)
            /\ \A i \in 1..Len(queue) :
                 (<<h>> \o q)[i] = IF i <= 1 THEN <<h>>[i] ELSE q[i - 1]
        <4> HIDE DEF h, q
        <4>1. /\ <<h>> \o q \in Seq(Items) /\ Len(<<h>> \o q) = Len(<<h>>) + Len(q)
              /\ \A i \in 1..(Len(<<h>>) + Len(q)) :
                   (<<h>> \o q)[i] = IF i <= Len(<<h>>) THEN <<h>>[i]
                                     ELSE q[i - Len(<<h>>)]
          BY <2>2, <2>3, ConcatProperties
        <4>2. Len(<<h>>) + Len(q) = Len(queue)
          BY <2>2, <2>3
        <4> QED BY <2>3, <4>1, <4>2
      <3>2. ASSUME NEW i \in 1..Len(queue) PROVE (<<h>> \o q)[i] = queue[i]
        <4>1. CASE i = 1
          BY <2>2, <2>3, <3>1, <4>1
        <4>2. CASE i # 1
          <5>1. i - 1 \in 1..Len(q) /\ (i - 1) + 1 = i /\ ~(i <= 1)
            BY <2>2, <4>2
          <5> HIDE DEF h, q
          <5> QED BY <2>2, <3>1, <5>1
        <4> QED BY <4>1, <4>2
      <3> HIDE DEF h, q
      <3> QED BY <1>1, <3>1, <3>2, SeqEqual
    <2> QED BY <2>1, <2>2, <2>3, <2>4, <2>5
  <1> QED BY <1>2, <1>3

\* A batch goes to the back, ...
LEMMA PushBackPlaces ==
  ASSUME Typed, PlaceInv, NEW t \in Threads, NEW s \in FreshBatches, PushBack(t, s)
  PROVE  PlaceInv'
PROOF
  <1>1. /\ s \in Seq(Items) /\ IsInjective(s) /\ ToSet(s) \subseteq fresh
        /\ queue \in Seq(Items) /\ sent \in Seq(Items) /\ taken \in Seq(Items)
    BY FreshBatchType DEF FreshBatches, Typed, TypeOK
  <1>2. /\ queue' = queue \o s /\ sent' = sent \o s /\ fresh' = fresh \ ToSet(s)
        /\ UNCHANGED <<taken, dropped>>
    BY DEF PushBack
  <1>3. /\ ToSet(queue') = ToSet(queue) \cup ToSet(s)
        /\ ToSet(sent') = ToSet(sent) \cup ToSet(s)
    BY <1>1, <1>2, ConcatElements
  <1>4. IsInjective(queue') /\ IsInjective(sent')
    BY <1>1, <1>2, ConcatElements DEF PlaceInv, OnceInv
  <1>5. OnceInv'
    BY <1>1, <1>2, <1>3, <1>4 DEF PlaceInv, OnceInv
  <1>6. ASSUME NEW x, NEW y, Before(sent', x, y)
        PROVE  /\ y \in ToSet(taken) => x \notin ToSet(queue')
               /\ ~Before(queue', y, x) /\ ~Before(taken, y, x)
    <2>1. Before(queue', y, x) =>
            \/ Before(queue, y, x) \/ Before(s, y, x)
            \/ y \in ToSet(queue) /\ x \in ToSet(s)
      BY <1>1, <1>2, ConcatElements
    <2>2. CASE Before(sent, x, y)
      <3>1. x \in ToSet(sent) /\ y \in ToSet(sent)
        BY <1>1, <2>2, BeforeProperties
      <3>2. x \notin ToSet(s) /\ ~Before(s, y, x)
        BY <1>1, <3>1, BeforeProperties DEF PlaceInv, OnceInv
      <3> QED BY <1>3, <2>1, <2>2, <3>2 DEF PlaceInv, OrderInv
    <2>3. CASE Before(s, x, y) \/ (x \in ToSet(sent) /\ y \in ToSet(s))
      <3>1. y \in ToSet(s) /\ ~Before(s, y, x)
        BY <1>1, <2>3, BeforeProperties DEF PlaceInv, OnceInv
      <3>2. y \notin ToSet(queue) /\ y \notin ToSet(taken)
        BY <1>1, <3>1 DEF PlaceInv, OnceInv
      <3>3. ~Before(queue, y, x) /\ ~Before(taken, y, x)
        BY <1>1, <3>2, BeforeProperties
      <3> QED BY <2>1, <3>1, <3>2, <3>3
    <2> QED BY <1>1, <1>2, <1>6, <2>2, <2>3, ConcatElements
  <1> QED BY <1>2, <1>5, <1>6 DEF PlaceInv, OrderInv

\* ... or to the front, where it does not come between those of the back, ...
LEMMA PushFrontPlaces ==
  ASSUME Typed, PlaceInv, NEW t \in Threads, NEW s \in FreshBatches, PushFront(t, s)
  PROVE  PlaceInv'
PROOF
  <1> DEFINE r == Reverse(s)
  <1>1. /\ r \in Seq(Items) /\ IsInjective(r) /\ ToSet(r) = ToSet(s)
        /\ ToSet(s) \subseteq fresh
        /\ queue \in Seq(Items) /\ sent \in Seq(Items) /\ taken \in Seq(Items)
    BY FreshBatchType, ReverseElements DEF FreshBatches, Typed, TypeOK
  <1>2. /\ queue' = r \o queue /\ fresh' = fresh \ ToSet(s)
        /\ UNCHANGED <<sent, taken, dropped>>
    BY DEF PushFront
  <1> HIDE DEF r
  <1>3. ToSet(queue') = ToSet(queue) \cup ToSet(s)
    BY <1>1, <1>2, ConcatElements
  <1>4. IsInjective(queue')
    BY <1>1, <1>2, ConcatElements DEF PlaceInv, OnceInv
  <1>5. OnceInv'
    BY <1>1, <1>2, <1>3, <1>4 DEF PlaceInv, OnceInv
  <1>6. ASSUME NEW x, NEW y, Before(sent, x, y)
        PROVE  /\ y \in ToSet(taken) => x \notin ToSet(queue')
               /\ ~Before(queue', y, x) /\ ~Before(taken, y, x)
    <2>1. x \notin ToSet(s) /\ y \notin ToSet(s)
      BY <1>1, <1>6, BeforeProperties DEF PlaceInv, OnceInv
    <2>2. Before(queue', y, x) => Before(queue, y, x) \/ Before(r, y, x) \/ y \in ToSet(r)
      BY <1>1, <1>2, ConcatElements
    <2>3. ~Before(r, y, x)
      BY <1>1, <2>1, BeforeProperties
    <2> QED BY <1>1, <1>3, <1>6, <2>1, <2>2, <2>3 DEF PlaceInv, OrderInv
  <1> QED BY <1>2, <1>5, <1>6 DEF PlaceInv, OrderInv

\* ... and leaves from the front, ...
LEMMA TakePlaces ==
  ASSUME Typed, PlaceInv, NEW op, Take(op), UNCHANGED <<fresh, sent, dropped>>
  PROVE  PlaceInv'
PROOF
  <1>1. PICK p, q \in Seq(Items) : queue = p \o q /\ queue' = q /\ taken' = taken \o p
    BY TakeSplits
  <1>2. taken \in Seq(Items)
    BY DEF Typed, TypeOK
  <1>3. /\ ToSet(queue) = ToSet(p) \cup ToSet(q) /\ ToSet(p) \cap ToSet(q) = {}
        /\ IsInjective(p) /\ IsInjective(q)
    BY <1>1, ConcatElements DEF PlaceInv, OnceInv
  <1>4. ToSet(taken') = ToSet(taken) \cup ToSet(p) /\ IsInjective(taken')
    BY <1>1, <1>2, <1>3, ConcatElements DEF PlaceInv, OnceInv
  <1>5. OnceInv'
    BY <1>1, <1>3, <1>4 DEF PlaceInv, OnceInv
  <1>6. ASSUME NEW x, NEW y, Before(sent, x, y)
        PROVE  /\ y \in ToSet(taken') => x \notin ToSet(q)
               /\ ~Before(q, y, x) /\ ~Before(taken', y, x)
    <2>1. /\ y \in ToSet(taken) => x \notin ToSet(queue)
          /\ ~Before(queue, y, x) /\ ~Before(taken, y, x)
      BY <1>6 DEF PlaceInv, OrderInv
    <2>2. ~Before(p, y, x) /\ ~Before(q, y, x) /\ ~(y \in ToSet(p) /\ x \in ToSet(q))
      BY <1>1, <2>1, ConcatElements
    <2>3. Before(taken', y, x) =>
            \/ Before(taken, y, x) \/ Before(p, y, x)
            \/ y \in ToSet(taken) /\ x \in ToSet(p)
      BY <1>1, <1>2, ConcatElements
    <2> QED BY <1>3, <1>4, <2>1, <2>2, <2>3
  <1> QED BY <1>1, <1>5, <1>6 DEF PlaceInv, OrderInv

\* ... so every step keeps places and order.
LEMMA NextPlaces == Typed /\ PlaceInv /\ [Next]_vars => PlaceInv'
PROOF
  <1> SUFFICES ASSUME Typed, PlaceInv, [Next]_vars PROVE PlaceInv'
    OBVIOUS
  <1>1. ASSUME UNCHANGED <<queue, fresh, sent, taken, dropped>> PROVE PlaceInv'
    BY <1>1 DEF PlaceInv, OnceInv, OrderInv
  <1>2. ASSUME NEW t \in Threads, NEW op \in {"pop_front", "swap"},
               NEW mode \in Modes, Enter(t, op, mode)
        PROVE  PlaceInv'
    <2>1. UNCHANGED <<fresh, sent, dropped>>
      BY <1>2 DEF Enter
    <2>2. Take(op) \/ UNCHANGED <<queue, taken>>
      BY <1>2 DEF Enter, ReturnFalse
    <2> QED BY <1>1, <2>1, <2>2, TakePlaces
  <1>3. ASSUME NEW t \in Threads, Resume(t) PROVE PlaceInv'
    <2>1. UNCHANGED <<fresh, sent, dropped>>
      BY <1>3 DEF Resume
    <2>2. Take(call[t].op) \/ UNCHANGED <<queue, taken>>
      BY <1>3 DEF Resume, ReturnFalse
    <2> QED BY <1>1, <2>1, <2>2, TakePlaces
  <1>4. ASSUME NEW t \in Threads, Expire(t) \/ GiveUp(t) \/ Spurious(t) \/ NotifyT(t)
        PROVE  PlaceInv'
    BY <1>1, <1>4 DEF Expire, GiveUp, Spurious, NotifyT, ReturnFalse
  <1>5. ASSUME NEW t \in Threads, Clear(t) PROVE PlaceInv'
    <2>1. /\ queue' = <<>> /\ dropped' = dropped \cup ToSet(queue)
          /\ UNCHANGED <<fresh, sent, taken>>
      BY <1>5 DEF Clear
    <2>2. ToSet(queue') = {} /\ IsInjective(queue') /\ \A x, y : ~Before(queue', y, x)
      BY <2>1 DEF ToSet, IsInjective, Before
    <2>3. OnceInv'
      BY <2>1, <2>2 DEF PlaceInv, OnceInv
    <2>4. OrderInv'
      BY <2>1, <2>2 DEF PlaceInv, OrderInv
    <2> QED BY <2>3, <2>4 DEF PlaceInv
  <1>6. CASE UNCHANGED vars
    BY <1>1, <1>6 DEF vars
  <1> QED
    BY <1>2, <1>3, <1>4, <1>5, <1>6, PushBackPlaces, PushFrontPlaces DEF Next

\* A sequence without repetitions is as long as it has elements.
LEMMA InjectiveLength ==
  ASSUME NEW S, NEW s \in Seq(S), IsInjective(s)
  PROVE  IsFiniteSet(ToSet(s)) /\ Cardinality(ToSet(s)) = Len(s)
PROOF
  <1>1. DOMAIN s = 1..Len(s) /\ Len(s) \in Nat /\ s \in [1..Len(s) -> S]
    BY LenProperties
  <1>2. s \in [1..Len(s) -> ToSet(s)]
    BY <1>1 DEF ToSet
  <1>3. s \in Surjection(1..Len(s), ToSet(s)) /\ s \in Injection(1..Len(s), ToSet(s))
    BY <1>1, <1>2 DEF Surjection, Injection, IsInjective, ToSet
  <1>4. IsFiniteSet(1..Len(s)) /\ Cardinality(1..Len(s)) = Len(s)
    <2> DEFINE n == Len(s)
    <2>1. n \in Nat /\ n \in Int /\ 1 \in Int
      BY <1>1
    <2> HIDE DEF n
    <2>2. /\ IsFiniteSet(1..n)
          /\ Cardinality(1..n) = IF 1 > n THEN 0 ELSE n - 1 + 1
      BY <2>1, FS_Interval
    <2>3. (IF 1 > n THEN 0 ELSE n - 1 + 1) = n
      BY <2>1
    <2> QED BY <2>2, <2>3 DEF n
  <1> QED BY <1>3, <1>4, FS_Surjection

\* No item is lost, duplicated or invented, for any finite set of items.
THEOREM NoItemLost == ASSUME IsFiniteSet(Items) PROVE Spec => []NothingLost
PROOF
  <1>1. Typed /\ PlaceInv => NothingLost
    <2> SUFFICES ASSUME Typed, PlaceInv
                 PROVE  Cardinality(fresh) + Len(queue) + Len(taken) + Cardinality(dropped)
                          = Cardinality(Items)
      BY DEF NothingLost, PlaceInv, OnceInv
    <2> DEFINE Q == ToSet(queue)
               T == ToSet(taken)
    <2>1. /\ IsFiniteSet(Q) /\ Cardinality(Q) = Len(queue)
          /\ IsFiniteSet(T) /\ Cardinality(T) = Len(taken)
      BY InjectiveLength DEF Typed, TypeOK, PlaceInv, OnceInv
    <2>2. IsFiniteSet(fresh) /\ IsFiniteSet(dropped)
      BY FS_Subset DEF Typed, TypeOK
    <2>3. /\ fresh \cap Q = {} /\ (fresh \cup Q) \cap T = {}
          /\ (fresh \cup Q \cup T) \cap dropped = {}
          /\ (fresh \cup Q \cup T) \cup dropped = Items
      BY DEF PlaceInv, OnceInv
    <2> HIDE DEF Q, T
    <2>4. ASSUME NEW A, NEW B, IsFiniteSet(A), IsFiniteSet(B), A \cap B = {}
          PROVE  /\ IsFiniteSet(A \cup B)
                 /\ Cardinality(A \cup B) = Cardinality(A) + Cardinality(B)
      <3>1. Cardinality(A) \in Nat /\ Cardinality(B) \in Nat
        BY <2>4, FS_CardinalityType
      <3>2. Cardinality(A \cap B) = 0
        BY <2>4, FS_EmptySet
      <3>3. /\ IsFiniteSet(A \cup B)
            /\ Cardinality(A \cup B)
                 = Cardinality(A) + Cardinality(B) - Cardinality(A \cap B)
        BY <2>4, FS_Union
      <3> QED BY <3>1, <3>2, <3>3
    <2>5. /\ IsFiniteSet(fresh \cup Q)
          /\ Cardinality(fresh \cup Q) = Cardinality(fresh) + Cardinality(Q)
      BY <2>1, <2>2, <2>3, <2>4
    <2>6. /\ IsFiniteSet(fresh \cup Q \cup T)
          /\ Cardinality(fresh \cup Q \cup T) = Cardinality(fresh \cup Q) + Cardinality(T)
      BY <2>1, <2>3, <2>4, <2>5
    <2>7. Cardinality(Items) = Cardinality(fresh \cup Q \cup T) + Cardinality(dropped)
      BY <2>2, <2>3, <2>4, <2>6
    <2> QED BY <2>1, <2>5, <2>6, <2>7
  <1> QED BY <1>1, InitTyped, InitPlaces, NextTyped, NextPlaces, PTL DEF Spec

\* First in, first out among push_back calls, whatever push_front, swap and clear do
\* in between and however many threads take part.
THEOREM BackKeepsOrder == Spec => []BackOrder
PROOF
  <1>1. Typed /\ PlaceInv => BackOrder
    <2> SUFFICES ASSUME Typed, PlaceInv, NEW i \in DOMAIN sent, NEW j \in DOMAIN sent,
                        i < j, sent[j] \in ToSet(taken)
                 PROVE  /\ sent[i] \notin ToSet(queue)
                        /\ sent[i] \in ToSet(taken) =>
                             PositionIn(taken, sent[i]) < PositionIn(taken, sent[j])
      BY DEF BackOrder
    <2> DEFINE x == sent[i]
               y == sent[j]
               k == PositionIn(taken, x)
               l == PositionIn(taken, y)
    <2>1. Before(sent, x, y)
      BY DEF Before
    <2>2. x # y
      BY <2>1, BeforeProperties DEF Typed, TypeOK, PlaceInv, OnceInv
    <2>3. DOMAIN taken = 1..Len(taken)
      BY LenProperties DEF Typed, TypeOK
    <2>4. ASSUME NEW z \in ToSet(taken)
          PROVE  /\ PositionIn(taken, z) \in DOMAIN taken
                 /\ taken[PositionIn(taken, z)] = z
      BY DEF PositionIn, ToSet
    <2>5. ~Before(taken, y, x) /\ x \notin ToSet(queue)
      BY <2>1 DEF PlaceInv, OrderInv
    <2>6. ASSUME x \in ToSet(taken) PROVE k < l
      <3>1. k \in DOMAIN taken /\ l \in DOMAIN taken /\ taken[k] = x /\ taken[l] = y
        BY <2>4, <2>6
      <3> HIDE DEF x, y, k, l
      <3>2. k # l /\ ~(l < k)
        BY <2>2, <2>5, <3>1 DEF Before
      <3> QED BY <2>3, <3>1, <3>2
    <2> QED BY <2>5, <2>6
  <1> QED BY <1>1, InitTyped, InitPlaces, NextTyped, NextPlaces, PTL DEF Spec
=============================================================================
