--------------------------- MODULE AutoPtrProofs ---------------------------
(***************************************************************************)
(* Theorems about the counts of YR_AutoPtr, for every number of threads,   *)
(* objects and shared pointers, as long as the shared ones are used with   *)
(* the mutex.                                                              *)
(***************************************************************************)
EXTENDS AutoPtr, FiniteSetTheorems, TLAPS

\* The smart pointers to an object, and the operations that have counted one to come or
\* have yet to discount one gone.
Shown(o) == {s \in Slots : slot[s] = o}
Coming(o) == {t \in Threads : pc[t] = "swap" /\ Value(src[t]) = o}
Going(o) == {t \in Threads : pc[t] = "dec" /\ old[t] = o}

\* An operation keeps the smart pointers it uses to itself.
UseInv ==
  \A t \in Threads :
    pc[t] # "out" => MayUse(t, dst[t]) /\ (src[t] \in Slots => MayUse(t, src[t]))

\* What an assignment is about to count is new, or a smart pointer that nobody else may
\* change keeps it.
Kept(t, o) == \E s \in Slots : s # dst[t] /\ MayUse(t, s) /\ slot[s] = o
New(t, o) == pc[t] = "inc" /\ src[t] = o /\ atomic[o] = 0
TakeInv ==
  /\ \A t \in Threads : pc[t] \in {"inc", "swap"} => slot[dst[t]] # Value(src[t])
  /\ \A t \in Threads, o \in Objects :
       pc[t] \in {"inc", "swap"} /\ Value(src[t]) = o =>
         status[o] = "alive" /\ (pc[t] = "inc" => Kept(t, o) \/ New(t, o))
  /\ \A t, u \in Threads, o \in Objects : New(t, o) /\ New(u, o) => t = u

\* Who lets an object go has it to itself once the count is 0 or its destructor runs.
Dropping(t, o) == pc[t] \in {"dec", "test", "destructor"} /\ old[t] = o
DropInv ==
  \A t \in Threads :
    /\ pc[t] \in {"dec", "test", "destructor"} => old[t] \in Objects
    /\ \A o \in Objects : Dropping(t, o) =>
         /\ status[o] \in {"alive", "dying"}
         /\ pc[t] # "dec" => atomic[o] = 0
         /\ pc[t] = "destructor" => status[o] = "dying"
         /\ \A u \in Threads \ {t} :
              /\ status[o] = "dying" => ~Dropping(u, o)
              /\ pc[t] = "test" => ~New(u, o) /\ ~(pc[u] = "test" /\ old[u] = o)

ObjectInv ==
  \A o \in Objects :
    /\ atomic[o] = Holders(o)
    /\ status[o] \in {"unborn", "freed"} => atomic[o] = 0
    /\ status[o] # "alive" => Shown(o) = {}
    /\ noDelete[o] <=> status[o] \in {"dying", "freed"}
    /\ deletes[o] = IF status[o] \in {"dying", "freed"} THEN 1 ELSE 0
    /\ status[o] = "alive" /\ atomic[o] = 0 =>
         \E t \in Threads : (pc[t] = "test" /\ old[t] = o) \/ (pc[t] = "inc" /\ src[t] = o)

IInv == TypeOK /\ UseInv /\ TakeInv /\ DropInv /\ ObjectInv
-----------------------------------------------------------------------------
\* The sets that are counted are finite.
LEMMA Counted ==
  ASSUME NEW o \in Objects
  PROVE  /\ IsFiniteSet(Shown(o)) /\ IsFiniteSet(Coming(o)) /\ IsFiniteSet(Going(o))
         /\ Cardinality(Shown(o)) \in Nat /\ Cardinality(Coming(o)) \in Nat
         /\ Cardinality(Going(o)) \in Nat
         /\ Holders(o) = Cardinality(Shown(o)) + Cardinality(Coming(o)) + Cardinality(Going(o))
PROOF
  <1>1. IsFiniteSet(Slots) /\ IsFiniteSet(Threads)
    BY PtrAssumption, FS_Union DEF Slots
  <1>2. Shown(o) \subseteq Slots /\ Coming(o) \subseteq Threads /\ Going(o) \subseteq Threads
    BY DEF Shown, Coming, Going
  <1>3. IsFiniteSet(Shown(o)) /\ IsFiniteSet(Coming(o)) /\ IsFiniteSet(Going(o))
    BY <1>1, <1>2, FS_Subset
  <1>4. Holders(o) = Cardinality(Shown(o)) + Cardinality(Coming(o)) + Cardinality(Going(o))
    BY DEF Holders, Shown, Coming, Going
  <1> QED BY <1>3, <1>4, FS_CardinalityType

\* The same after a step.
LEMMA CountedNext ==
  ASSUME NEW o \in Objects
  PROVE  /\ IsFiniteSet(Shown(o)') /\ IsFiniteSet(Coming(o)') /\ IsFiniteSet(Going(o)')
         /\ Holders(o)' = Cardinality(Shown(o)') + Cardinality(Coming(o)') + Cardinality(Going(o)')
PROOF
  <1>1. IsFiniteSet(Slots) /\ IsFiniteSet(Threads)
    BY PtrAssumption, FS_Union DEF Slots
  <1>2. Shown(o)' \subseteq Slots /\ Coming(o)' \subseteq Threads /\ Going(o)' \subseteq Threads
    BY DEF Shown, Coming, Going
  <1>3. IsFiniteSet(Shown(o)') /\ IsFiniteSet(Coming(o)') /\ IsFiniteSet(Going(o)')
    BY <1>1, <1>2, FS_Subset
  <1>4. Holders(o)' = Cardinality(Shown(o)') + Cardinality(Coming(o)') + Cardinality(Going(o)')
    BY DEF Holders, Shown, Coming, Going
  <1> QED BY <1>3, <1>4

\* One element more.
LEMMA OneMore ==
  ASSUME NEW S, IsFiniteSet(S), NEW x, x \notin S
  PROVE  Cardinality(S \cup {x}) = Cardinality(S) + 1
PROOF BY FS_AddElement

\* One element less.
LEMMA OneLess ==
  ASSUME NEW S, IsFiniteSet(S), NEW x \in S
  PROVE  Cardinality(S \ {x}) = Cardinality(S) - 1
PROOF BY FS_RemoveElement

\* One element in the place of another.
LEMMA OneMoved ==
  ASSUME NEW S, IsFiniteSet(S), NEW x \in S, NEW y, y \notin S
  PROVE  Cardinality((S \ {x}) \cup {y}) = Cardinality(S)
PROOF
  <1>1. IsFiniteSet(S \ {x}) /\ Cardinality(S \ {x}) = Cardinality(S) - 1
    BY FS_RemoveElement
  <1>2. Cardinality((S \ {x}) \cup {y}) = Cardinality(S \ {x}) + 1
    BY <1>1, FS_AddElement
  <1>3. Cardinality(S) \in Nat
    BY FS_CardinalityType
  <1> QED BY <1>1, <1>2, <1>3

\* An object whose count is 0 is in nobody's hands.
LEMMA Zero ==
  ASSUME ObjectInv, NEW o \in Objects, atomic[o] = 0
  PROVE  Shown(o) = {} /\ Coming(o) = {} /\ Going(o) = {}
PROOF
  <1> DEFINE a == Cardinality(Shown(o))
             b == Cardinality(Coming(o))
             c == Cardinality(Going(o))
  <1>1. Holders(o) = 0
    BY DEF ObjectInv
  <1>2. a \in Nat /\ b \in Nat /\ c \in Nat /\ a + b + c = 0
    BY <1>1, Counted
  <1>3. \A x, y, z \in Nat : x + y + z = 0 => x = 0 /\ y = 0 /\ z = 0
    OBVIOUS
  <1>4. a = 0 /\ b = 0 /\ c = 0
    BY <1>2, <1>3
  <1> QED BY <1>4, Counted, FS_EmptySet

\* At first there are no objects.
LEMMA InitInv == Init => IInv
PROOF
  <1> SUFFICES ASSUME Init PROVE IInv
    OBVIOUS
  <1>1. TypeOK
    BY PtrAssumption DEF Init, TypeOK, Slots, Pointers
  <1>2. \A t \in Threads : pc[t] = "out"
    BY DEF Init
  <1>3. UseInv /\ TakeInv /\ DropInv
    BY <1>2 DEF UseInv, TakeInv, DropInv, New, Dropping
  <1>4. ASSUME NEW o \in Objects
        PROVE  Holders(o) = 0 /\ Shown(o) = {}
    <2>1. Shown(o) = {}
      BY PtrAssumption DEF Init, Shown
    <2>2. Coming(o) = {} /\ Going(o) = {}
      BY <1>2 DEF Coming, Going
    <2> QED BY <2>1, <2>2, Counted, FS_EmptySet
  <1>5. ObjectInv
    BY <1>4 DEF Init, ObjectInv
  <1> QED BY <1>1, <1>3, <1>5 DEF IInv

\* Steps that change no object and no smart pointer: the mutex is taken or let go.
LEMMA MutexInv == ASSUME IInv, NEW t \in Threads, Acquire(t) \/ Release(t) PROVE IInv'
PROOF
  <1>1. /\ UNCHANGED <<slot, objVars, opVars>>
        /\ mutex' \in Threads \cup {Nobody}
        /\ \A u \in Threads : pc[u] # "out" /\ mutex = u => mutex' = u
    BY PtrAssumption DEF Acquire, Release
  <1>2. \A u \in Threads, s \in Slots : pc[u] # "out" /\ MayUse(u, s) => MayUse(u, s)'
    BY <1>1 DEF MayUse
  <1>3. /\ \A p : Value(p)' = Value(p)
        /\ \A o \in Objects : Shown(o)' = Shown(o) /\ Holders(o)' = Holders(o)
        /\ \A u \in Threads, o \in Objects : New(u, o)' = New(u, o) /\ Dropping(u, o)' = Dropping(u, o)
    BY <1>1 DEF Value, Shown, Holders, New, Dropping, objVars, opVars
  <1>4. TypeOK'
    BY <1>1 DEF IInv, TypeOK, objVars, opVars
  <1>5. UseInv'
    BY <1>1, <1>2 DEF IInv, UseInv, TypeOK, opVars
  <1>6. \A u \in Threads, o \in Objects : pc[u] # "out" /\ Kept(u, o) => Kept(u, o)'
    BY <1>1, <1>2 DEF Kept, opVars
  <1>7. TakeInv'
    BY <1>1, <1>3, <1>6 DEF IInv, TakeInv, objVars, opVars
  <1>8. DropInv'
    BY <1>1, <1>3 DEF IInv, DropInv, objVars, opVars
  <1>9. ObjectInv'
    BY <1>1, <1>3 DEF IInv, ObjectInv, objVars, opVars
  <1> QED BY <1>4, <1>5, <1>7, <1>8, <1>9 DEF IInv

\* Two threads never may use the same smart pointer.
LEMMA Apart ==
  ASSUME Locked, NEW t \in Threads, NEW u \in Threads, t # u, NEW s, MayUse(t, s)
  PROVE  ~MayUse(u, s)
PROOF BY PtrAssumption DEF MayUse

\* swap(): the number of smart pointers to each object stays the same.
LEMMA ExchangeInv ==
  ASSUME Locked, IInv, NEW t \in Threads, NEW s \in Slots, NEW v \in Slots, Exchange(t, s, v)
  PROVE  IInv'
PROOF
  <1>1. /\ pc[t] = "out" /\ s # v /\ MayUse(t, s) /\ MayUse(t, v)
        /\ slot' = [slot EXCEPT ![s] = slot[v], ![v] = slot[s]]
        /\ UNCHANGED <<objVars, mutex, opVars>>
    BY DEF Exchange
  <1>2. slot \in [Slots -> Pointers] /\ slot' \in [Slots -> Pointers]
    BY <1>1 DEF IInv, TypeOK
  <1>3. \A u \in Threads, r \in Slots : pc[u] # "out" /\ MayUse(u, r) => slot'[r] = slot[r]
    BY <1>1, <1>2, Apart
  <1>4. \A u \in Threads : pc[u] # "out" => Value(src[u])' = Value(src[u])
    BY <1>1, <1>3 DEF IInv, UseInv, Value, opVars
  <1>5. \A u \in Threads : \A r : MayUse(u, r)' = MayUse(u, r)
    BY <1>1 DEF MayUse
  <1>6. \A u \in Threads, o \in Objects :
          /\ New(u, o)' = New(u, o) /\ Dropping(u, o)' = Dropping(u, o)
          /\ pc[u] # "out" /\ Kept(u, o) => Kept(u, o)'
    BY <1>1, <1>3, <1>5 DEF New, Dropping, Kept, objVars, opVars
  <1>7. TypeOK'
    BY <1>1, <1>2 DEF IInv, TypeOK, objVars, opVars
  <1>8. UseInv'
    BY <1>1, <1>5 DEF IInv, UseInv, opVars
  <1>9. \A u \in Threads : pc[u] # "out" => slot'[dst[u]] = slot[dst[u]]
    BY <1>3 DEF IInv, UseInv, TypeOK
  <1>10. TakeInv'
    <2>1. ASSUME NEW u \in Threads, pc'[u] \in {"inc", "swap"}
          PROVE  slot'[dst'[u]] # Value(src[u])'
      <3>1. pc[u] = pc'[u] /\ dst'[u] = dst[u]
        BY <1>1 DEF opVars
      <3>2. slot[dst[u]] # Value(src[u])
        BY <2>1, <3>1 DEF IInv, TakeInv
      <3> QED BY <1>4, <1>9, <2>1, <3>1, <3>2
    <2>2. ASSUME NEW u \in Threads, NEW o \in Objects,
                 pc'[u] \in {"inc", "swap"}, Value(src[u])' = o
          PROVE  status'[o] = "alive" /\ (pc'[u] = "inc" => Kept(u, o)' \/ New(u, o)')
      <3>1. pc'[u] = pc[u] /\ Value(src[u]) = o /\ status' = status
        BY <1>1, <1>4, <2>2 DEF objVars, opVars
      <3>2. status[o] = "alive" /\ (pc[u] = "inc" => Kept(u, o) \/ New(u, o))
        BY <2>2, <3>1 DEF IInv, TakeInv
      <3> QED BY <1>6, <2>2, <3>1, <3>2
    <2>3. \A u, x \in Threads, o \in Objects : New(u, o)' /\ New(x, o)' => u = x
      BY <1>6 DEF IInv, TakeInv
    <2> QED BY <2>1, <2>2, <2>3 DEF TakeInv
  <1>11. DropInv'
    BY <1>1, <1>6 DEF IInv, DropInv, objVars, opVars
  <1>12. ASSUME NEW o \in Objects
         PROVE  Cardinality(Shown(o)') = Cardinality(Shown(o)) /\ (Shown(o) = {} => Shown(o)' = {})
    <2>1. CASE slot[s] = slot[v]
      <3>1. Shown(o)' = Shown(o)
        BY <1>1, <1>2, <2>1 DEF Shown
      <3> QED BY <3>1
    <2>2. CASE slot[s] = o /\ slot[v] # o
      <3>1. Shown(o)' = (Shown(o) \ {s}) \cup {v} /\ s \in Shown(o) /\ v \notin Shown(o)
        BY <1>1, <1>2, <2>2 DEF Shown
      <3> QED BY <3>1, Counted, OneMoved
    <2>3. CASE slot[v] = o /\ slot[s] # o
      <3>1. Shown(o)' = (Shown(o) \ {v}) \cup {s} /\ v \in Shown(o) /\ s \notin Shown(o)
        BY <1>1, <1>2, <2>3 DEF Shown
      <3> QED BY <3>1, Counted, OneMoved
    <2>4. CASE slot[v] # o /\ slot[s] # o
      <3>1. Shown(o)' = Shown(o)
        BY <1>1, <1>2, <2>4 DEF Shown
      <3> QED BY <3>1
    <2> QED BY <2>1, <2>2, <2>3, <2>4
  <1>13. \A o \in Objects : Coming(o)' = Coming(o) /\ Going(o)' = Going(o)
    BY <1>1, <1>4 DEF Coming, Going, opVars
  <1>14. \A o \in Objects : Holders(o)' = Holders(o)
    BY <1>12, <1>13, Counted, CountedNext
  <1>15. ObjectInv'
    BY <1>1, <1>12, <1>14 DEF IInv, ObjectInv, objVars, opVars
  <1> QED BY <1>7, <1>8, <1>10, <1>11, <1>15 DEF IInv

\* operator= begins: what it takes is new or kept by a smart pointer of the thread's.
LEMMA AssignInv ==
  ASSUME Locked, IInv, NEW t \in Threads, NEW d \in Slots, NEW s \in Slots \cup Pointers,
         Assign(t, d, s)
  PROVE  IInv'
PROOF
  <1>1. /\ pc[t] = "out" /\ MayUse(t, d) /\ slot[d] # Value(s)
        /\ status' = IF s \in Objects THEN [status EXCEPT ![s] = "alive"] ELSE status
        /\ dst' = [dst EXCEPT ![t] = d] /\ src' = [src EXCEPT ![t] = s]
        /\ pc' = [pc EXCEPT ![t] = "inc"]
        /\ UNCHANGED <<slot, atomic, noDelete, deletes, mutex, old>>
    BY DEF Assign, Goto
  <1>2. \/ s \in Slots /\ MayUse(t, s)
        \/ s \in {Null, slot[t]}
        \/ s \in Objects /\ status[s] = "unborn"
    BY DEF Assign
  <1>3. Slots \cap Pointers = {} /\ t \in Slots /\ slot[t] \in Pointers /\ MayUse(t, t)
    BY PtrAssumption DEF Slots, Pointers, IInv, TypeOK, MayUse
  <1>4. TypeOK'
    BY <1>1 DEF IInv, TypeOK
  <1>5. \A p : Value(p)' = Value(p)
    BY <1>1 DEF Value
  <1>6. \A u \in Threads : \A r : MayUse(u, r)' = MayUse(u, r)
    BY <1>1 DEF MayUse
  <1>7. /\ pc'[t] = "inc" /\ dst'[t] = d /\ src'[t] = s
        /\ \A u \in Threads \ {t} : pc'[u] = pc[u] /\ dst'[u] = dst[u] /\ src'[u] = src[u]
    BY <1>1 DEF IInv, TypeOK
  <1>8. UseInv'
    <2>1. s \in Slots => MayUse(t, s)
      BY <1>2, <1>3, PtrAssumption DEF Pointers
    <2> QED BY <1>1, <1>6, <1>7, <2>1 DEF IInv, UseInv
  <1>9. \A o \in Objects : Shown(o)' = Shown(o) /\ Coming(o)' = Coming(o) /\ Going(o)' = Going(o)
    BY <1>1, <1>5, <1>7 DEF Shown, Coming, Going
  <1>10. \A o \in Objects : Holders(o)' = Holders(o)
    BY <1>9, Counted, CountedNext
  \* What status does.
  <1>11. \A o \in Objects : status'[o] = status[o] \/ (o = s /\ status[o] = "unborn" /\ status'[o] = "alive")
    <2>1. \A o \in Objects : Shown(o) # {} => status[o] = "alive"
      BY DEF IInv, ObjectInv
    <2>2. s = slot[t] /\ s \in Objects => status[s] = "alive"
      BY <1>3, <2>1 DEF Shown
    <2> QED BY <1>1, <1>2, <1>3, <2>2, PtrAssumption DEF Pointers, IInv, TypeOK
  <1>12. \A u \in Threads \ {t}, o \in Objects :
           /\ New(u, o)' = New(u, o) /\ Dropping(u, o)' = Dropping(u, o) /\ Kept(u, o)' = Kept(u, o)
    BY <1>1, <1>6, <1>7 DEF New, Dropping, Kept
  <1>13. ASSUME NEW o \in Objects, Value(s) = o
         PROVE  /\ status'[o] = "alive" /\ (Kept(t, o)' \/ New(t, o)')
    <2>1. CASE s \in Slots /\ MayUse(t, s)
      <3>1. slot[s] = o /\ s # d
        BY <1>1, <1>13, <2>1 DEF Value
      <3>2. Kept(t, o)'
        BY <1>1, <1>6, <1>7, <2>1, <3>1 DEF Kept
      <3>3. status[o] = "alive"
        BY <2>1, <3>1 DEF IInv, ObjectInv, Shown
      <3> QED BY <1>11, <3>2, <3>3
    <2>2. CASE s \in {Null, slot[t]} /\ s \notin Slots
      <3>1. slot[t] = o /\ t # d
        BY <1>1, <1>3, <1>13, <2>2, PtrAssumption DEF Value
      <3>2. Kept(t, o)'
        BY <1>1, <1>3, <1>6, <1>7, <3>1 DEF Kept
      <3>3. status[o] = "alive"
        BY <1>3, <3>1 DEF IInv, ObjectInv, Shown
      <3> QED BY <1>11, <3>2, <3>3
    <2>3. CASE s \in Objects /\ status[s] = "unborn"
      <3>1. s = o
        BY <1>3, <1>13, <2>3 DEF Value, Pointers
      <3>2. atomic[o] = 0
        BY <2>3, <3>1 DEF IInv, ObjectInv
      <3> QED BY <1>1, <1>7, <2>3, <3>1, <3>2 DEF New, IInv, TypeOK
    <2> QED BY <1>2, <1>3, <2>1, <2>2, <2>3 DEF Pointers
  <1>14. \A o \in Objects : New(t, o)' => status[o] = "unborn" \/ Kept(t, o)'
    BY <1>1, <1>2, <1>3, <1>6, <1>7, PtrAssumption DEF New, Kept, Value, Pointers
  <1>15. \A o \in Objects : New(t, o)' => status[o] = "unborn"
    <2>1. \A o \in Objects : Kept(t, o)' => Shown(o) # {}
      BY <1>1 DEF Kept, Shown
    <2>2. \A o \in Objects : New(t, o)' => Shown(o) = {}
      BY <1>1, Zero DEF New, IInv
    <2> QED BY <1>14, <2>1, <2>2
  <1>16. TakeInv'
    <2>1. \A u \in Threads : pc'[u] \in {"inc", "swap"} => slot'[dst'[u]] # Value(src[u])'
      BY <1>1, <1>5, <1>7 DEF IInv, TakeInv
    <2>2. ASSUME NEW u \in Threads, NEW o \in Objects,
                 pc'[u] \in {"inc", "swap"}, Value(src[u])' = o
          PROVE  status'[o] = "alive" /\ (pc'[u] = "inc" => Kept(u, o)' \/ New(u, o)')
      <3>1. CASE u = t
        BY <1>5, <1>7, <1>13, <2>2, <3>1
      <3>2. CASE u # t
        <4>1. Value(src[u]) = o /\ pc[u] \in {"inc", "swap"}
          BY <1>5, <1>7, <2>2, <3>2
        <4> QED BY <1>7, <1>11, <1>12, <3>2, <4>1 DEF IInv, TakeInv
      <3> QED BY <3>1, <3>2
    <2>3. \A u \in Threads, o \in Objects : New(u, o)' /\ u # t => status[o] = "alive"
      <3>1. \A u \in Threads, o \in Objects : New(u, o) => Value(src[u]) = o
        BY <1>3 DEF New, Value, Pointers
      <3> QED BY <1>12, <3>1 DEF IInv, TakeInv, New
    <2>4. \A u, v \in Threads, o \in Objects : New(u, o)' /\ New(v, o)' => u = v
      BY <1>12, <1>15, <2>3 DEF IInv, TakeInv
    <2> QED BY <2>1, <2>2, <2>4 DEF TakeInv
  <1>17. DropInv'
    <2>1. \A o \in Objects : ~Dropping(t, o) /\ ~Dropping(t, o)'
      BY <1>1, <1>7 DEF Dropping
    <2>2. \A u \in Threads, o \in Objects : Dropping(u, o) => status'[o] = status[o]
      BY <1>11 DEF IInv, DropInv
    <2>3. \A u \in Threads, o \in Objects : Dropping(u, o) => ~New(t, o)'
      BY <1>15 DEF IInv, DropInv
    <2>4. ASSUME NEW u \in Threads PROVE pc'[u] \in {"dec", "test", "destructor"} => old'[u] \in Objects
      BY <1>1, <1>7 DEF IInv, DropInv
    <2>5. ASSUME NEW u \in Threads, NEW o \in Objects, Dropping(u, o)'
          PROVE  /\ status'[o] \in {"alive", "dying"}
                 /\ pc'[u] # "dec" => atomic'[o] = 0
                 /\ pc'[u] = "destructor" => status'[o] = "dying"
      <3>1. u # t /\ Dropping(u, o)
        BY <1>12, <2>1, <2>5
      <3> QED BY <1>1, <1>7, <2>2, <3>1 DEF IInv, DropInv
    <2>6. ASSUME NEW u \in Threads, NEW o \in Objects, Dropping(u, o)', NEW v \in Threads \ {u}
          PROVE  /\ status'[o] = "dying" => ~Dropping(v, o)'
                 /\ pc'[u] = "test" => ~New(v, o)' /\ ~(pc'[v] = "test" /\ old'[v] = o)
      <3>1. u # t /\ Dropping(u, o)
        BY <1>12, <2>1, <2>6
      <3>2. CASE v = t
        BY <1>7, <2>1, <2>3, <3>1, <3>2
      <3>3. CASE v # t
        BY <1>1, <1>7, <1>12, <2>2, <3>1, <3>3 DEF IInv, DropInv
      <3> QED BY <3>2, <3>3
    <2> QED BY <2>4, <2>5, <2>6 DEF DropInv
  <1>18. ObjectInv'
    <2>1. ASSUME NEW o \in Objects, status'[o] = "alive", atomic'[o] = 0
          PROVE  \E u \in Threads : (pc'[u] = "test" /\ old'[u] = o) \/ (pc'[u] = "inc" /\ src'[u] = o)
      <3>1. CASE status[o] = "alive"
        <4>1. PICK u \in Threads : (pc[u] = "test" /\ old[u] = o) \/ (pc[u] = "inc" /\ src[u] = o)
          BY <1>1, <2>1, <3>1 DEF IInv, ObjectInv
        <4> QED BY <1>1, <1>7, <4>1
      <3>2. CASE status[o] # "alive"
        BY <1>7, <1>11, <2>1, <3>2
      <3> QED BY <3>1, <3>2
    <2> QED BY <1>1, <1>9, <1>10, <1>11, <2>1 DEF IInv, ObjectInv
  <1> QED BY <1>4, <1>8, <1>16, <1>17, <1>18 DEF IInv

\* incRef(): one more to come.
LEMMA IncRefInv == ASSUME Locked, IInv, NEW t \in Threads, IncRef(t) PROVE IInv'
PROOF
  <1> DEFINE val == Value(src[t])
  <1>1. /\ pc[t] = "inc" /\ pc' = [pc EXCEPT ![t] = "swap"]
        /\ atomic' = IF val = Null THEN atomic ELSE [atomic EXCEPT ![val] = @ + 1]
        /\ UNCHANGED <<slot, noDelete, status, deletes, mutex, dst, src, old>>
    BY DEF IncRef, Goto
  <1>2. val \in Pointers /\ Null \notin Objects
    BY PtrAssumption DEF IInv, TypeOK, Value
  <1>3. /\ pc'[t] = "swap" /\ \A u \in Threads \ {t} : pc'[u] = pc[u]
        /\ \A o \in Objects : atomic'[o] = IF o = val THEN atomic[o] + 1 ELSE atomic[o]
    BY <1>1, <1>2 DEF IInv, TypeOK, Pointers
  <1>4. TypeOK'
    BY <1>1, <1>2 DEF IInv, TypeOK, Pointers
  <1>5. /\ \A p : Value(p)' = Value(p)
        /\ \A u \in Threads : \A r : MayUse(u, r)' = MayUse(u, r)
        /\ \A u \in Threads, o \in Objects : Kept(u, o)' = Kept(u, o) /\ Dropping(u, o)' = Dropping(u, o)
    BY <1>1, <1>3 DEF Value, MayUse, Kept, Dropping
  <1>6. UseInv'
    BY <1>1, <1>3, <1>5 DEF IInv, UseInv
  <1>7. val \in Objects => status[val] = "alive" /\ (Kept(t, val) \/ New(t, val))
    BY <1>1 DEF IInv, TakeInv
  \* Nobody has taken the count of this object for 0 but the thread itself.
  <1>8. \A u \in Threads \ {t} : val \in Objects => ~New(u, val)
    <2>1. \A u \in Threads : val \in Objects /\ New(u, val) => ~Kept(t, val)
      BY Zero DEF IInv, New, Kept, Shown
    <2> QED BY <1>7, <2>1 DEF IInv, TakeInv
  <1>9. \A u \in Threads : val \in Objects /\ Dropping(u, val) => pc[u] = "dec"
    <2>1. \A u \in Threads : val \in Objects /\ atomic[val] = 0 => ~Kept(t, val)
      BY Zero DEF IInv, Kept, Shown
    <2>2. ASSUME NEW u \in Threads, val \in Objects, Dropping(u, val), pc[u] # "dec" PROVE FALSE
      <3>1. u # t /\ atomic[val] = 0
        BY <1>1, <2>2 DEF IInv, DropInv, Dropping
      <3>2. New(t, val)
        BY <1>7, <2>1, <2>2, <3>1
      <3>3. pc[u] = "destructor"
        BY <2>2, <3>1, <3>2 DEF IInv, DropInv, Dropping
      <3> QED BY <1>7, <2>2, <3>3 DEF IInv, DropInv
    <2> QED BY <2>2
  <1>10. \A u \in Threads, o \in Objects : New(u, o)' => New(u, o) /\ o # val /\ u # t
    <2>1. \A o \in Objects : o = val => atomic[o] >= 0
      BY Counted DEF IInv, ObjectInv
    <2>2. ASSUME NEW u \in Threads, NEW o \in Objects, New(u, o)', o = val PROVE FALSE
      <3>1. u # t /\ atomic[o] + 1 = 0
        BY <1>3, <2>2 DEF New
      <3> QED BY <2>1, <2>2, <3>1 DEF IInv, TypeOK
    <2> QED BY <1>1, <1>3, <2>2 DEF New
  <1>11. \A u \in Threads, o \in Objects : o # val /\ u # t => New(u, o)' = New(u, o)
    BY <1>1, <1>3 DEF New
  <1>12. TakeInv'
    <2>1. \A u \in Threads : pc'[u] \in {"inc", "swap"} => slot'[dst'[u]] # Value(src[u])'
      BY <1>1, <1>3, <1>5 DEF IInv, TakeInv
    <2>2. ASSUME NEW u \in Threads, NEW o \in Objects,
                 pc'[u] \in {"inc", "swap"}, Value(src[u])' = o
          PROVE  status'[o] = "alive" /\ (pc'[u] = "inc" => Kept(u, o)' \/ New(u, o)')
      <3>1. Value(src[u]) = o /\ pc[u] \in {"inc", "swap"}
        BY <1>1, <1>3, <1>5, <2>2
      <3>2. status[o] = "alive" /\ (pc[u] = "inc" => Kept(u, o) \/ New(u, o))
        BY <3>1 DEF IInv, TakeInv
      <3>3. pc'[u] = "inc" => u # t /\ pc[u] = "inc"
        BY <1>3
      <3>4. New(u, o) /\ u # t => o # val
        BY <1>8
      <3> QED BY <1>1, <1>5, <1>11, <3>2, <3>3, <3>4
    <2>3. \A u, v \in Threads, o \in Objects : New(u, o)' /\ New(v, o)' => u = v
      BY <1>10 DEF IInv, TakeInv
    <2> QED BY <2>1, <2>2, <2>3 DEF TakeInv
  <1>13. DropInv'
    <2>1. \A u \in Threads : pc'[u] \in {"dec", "test", "destructor"} => u # t /\ pc'[u] = pc[u]
      BY <1>3
    <2>2. ASSUME NEW u \in Threads, NEW o \in Objects, Dropping(u, o)'
          PROVE  /\ status'[o] \in {"alive", "dying"}
                 /\ pc'[u] # "dec" => atomic'[o] = 0
                 /\ pc'[u] = "destructor" => status'[o] = "dying"
                 /\ \A v \in Threads \ {u} :
                      /\ status'[o] = "dying" => ~Dropping(v, o)'
                      /\ pc'[u] = "test" => ~New(v, o)' /\ ~(pc'[v] = "test" /\ old'[v] = o)
      <3>1. Dropping(u, o) /\ pc'[u] = pc[u]
        BY <1>5, <2>1, <2>2 DEF Dropping
      <3>2. pc[u] # "dec" => o # val
        BY <1>9, <3>1
      <3>3. /\ status[o] \in {"alive", "dying"}
            /\ pc[u] # "dec" => atomic[o] = 0
            /\ pc[u] = "destructor" => status[o] = "dying"
            /\ \A v \in Threads \ {u} :
                 /\ status[o] = "dying" => ~Dropping(v, o)
                 /\ pc[u] = "test" => ~New(v, o) /\ ~(pc[v] = "test" /\ old[v] = o)
        BY <3>1 DEF IInv, DropInv
      <3> QED BY <1>1, <1>3, <1>5, <1>10, <3>1, <3>2, <3>3
    <2> QED BY <1>1, <2>1, <2>2 DEF IInv, DropInv
  <1>14. \A o \in Objects :
           /\ Shown(o)' = Shown(o) /\ Going(o)' = Going(o)
           /\ Coming(o)' = (IF o = val THEN Coming(o) \cup {t} ELSE Coming(o)) /\ t \notin Coming(o)
    BY <1>1, <1>3, <1>5 DEF Shown, Coming, Going
  <1>15. \A o \in Objects : atomic'[o] = Holders(o)'
    <2> TAKE o \in Objects
    <2>1. Cardinality(Coming(o)') = IF o = val THEN Cardinality(Coming(o)) + 1 ELSE Cardinality(Coming(o))
      BY <1>14, Counted, OneMore
    <2>2. atomic[o] = Cardinality(Shown(o)) + Cardinality(Coming(o)) + Cardinality(Going(o))
      BY Counted DEF IInv, ObjectInv
    <2> QED BY <1>3, <1>14, <2>1, <2>2, Counted, CountedNext
  <1>16. ObjectInv'
    <2>1. ASSUME NEW o \in Objects, status'[o] = "alive", atomic'[o] = 0
          PROVE  \E u \in Threads : (pc'[u] = "test" /\ old'[u] = o) \/ (pc'[u] = "inc" /\ src'[u] = o)
      <3>1. o # val
        BY <1>3, <2>1, Counted DEF IInv, ObjectInv
      <3>2. PICK u \in Threads : (pc[u] = "test" /\ old[u] = o) \/ (pc[u] = "inc" /\ src[u] = o)
        BY <1>1, <1>3, <2>1, <3>1 DEF IInv, ObjectInv
      <3>3. pc[u] = "inc" /\ src[u] = o => u # t
        BY <3>1, PtrAssumption DEF Value, Slots
      <3> QED BY <1>1, <1>3, <3>2, <3>3
    <2>2. \A o \in Objects : status'[o] \in {"unborn", "freed"} => atomic'[o] = 0
      BY <1>1, <1>3, <1>7 DEF IInv, ObjectInv
    <2> QED BY <1>1, <1>14, <1>15, <2>1, <2>2 DEF IInv, ObjectInv
  <1> QED BY <1>4, <1>6, <1>12, <1>13, <1>16 DEF IInv

\* The pointer changes hands: one to come has come, and the old one is on its way out.
LEMMA SwapInv == ASSUME Locked, IInv, NEW t \in Threads, Swap(t) PROVE IInv'
PROOF
  <1> DEFINE d == dst[t]
             val == Value(src[t])
             was == slot[d]
  <1>1. /\ pc[t] = "swap" /\ old' = [old EXCEPT ![t] = was]
        /\ slot' = [slot EXCEPT ![d] = val]
        /\ pc' = [pc EXCEPT ![t] = IF was = Null THEN "out" ELSE "dec"]
        /\ UNCHANGED <<atomic, noDelete, status, deletes, mutex, dst, src>>
    BY DEF Swap, Goto, objVars
  <1>2. /\ d \in Slots /\ MayUse(t, d) /\ val \in Pointers /\ was \in Pointers /\ was # val
        /\ val \in Objects => status[val] = "alive"
        /\ was \in Objects => status[was] = "alive"
    BY <1>1, PtrAssumption DEF IInv, TypeOK, UseInv, TakeInv, ObjectInv, Shown, Value
  <1>3. /\ pc'[t] = (IF was = Null THEN "out" ELSE "dec") /\ old'[t] = was
        /\ slot'[d] = val /\ \A s \in Slots : s # d => slot'[s] = slot[s]
        /\ \A u \in Threads \ {t} : pc'[u] = pc[u] /\ old'[u] = old[u]
    BY <1>1, <1>2 DEF IInv, TypeOK
  <1>4. TypeOK'
    BY <1>1, <1>2 DEF IInv, TypeOK
  <1>5. \A u \in Threads : \A r : MayUse(u, r)' = MayUse(u, r)
    BY <1>1 DEF MayUse
  <1>6. \A u \in Threads \ {t} : ~MayUse(u, d)
    BY <1>2, Apart
  <1>7. UseInv'
    BY <1>1, <1>3, <1>5 DEF IInv, UseInv
  <1>8. \A u \in Threads \ {t} : pc[u] # "out" => Value(src[u])' = Value(src[u]) /\ slot'[dst[u]] = slot[dst[u]]
    <2> SUFFICES ASSUME NEW u \in Threads \ {t}, pc[u] # "out"
                 PROVE  Value(src[u])' = Value(src[u]) /\ slot'[dst[u]] = slot[dst[u]]
      OBVIOUS
    <2>1. dst[u] \in Slots /\ dst[u] # d /\ (src[u] \in Slots => src[u] # d)
      BY <1>6 DEF IInv, UseInv, TypeOK
    <2> QED BY <1>1, <1>3, <2>1 DEF Value
  <1>9. \A u \in Threads \ {t}, o \in Objects :
          /\ New(u, o)' = New(u, o) /\ Dropping(u, o)' = Dropping(u, o)
          /\ Kept(u, o) => Kept(u, o)'
    BY <1>1, <1>3, <1>5, <1>6 DEF New, Dropping, Kept
  <1>10. TakeInv'
    <2>1. ASSUME NEW u \in Threads, pc'[u] \in {"inc", "swap"}
          PROVE  u # t /\ pc[u] = pc'[u] /\ slot'[dst'[u]] # Value(src[u])'
      <3>1. u # t /\ pc[u] = pc'[u] /\ dst'[u] = dst[u]
        BY <1>1, <1>3, <2>1
      <3>2. slot[dst[u]] # Value(src[u])
        BY <2>1, <3>1 DEF IInv, TakeInv
      <3> QED BY <1>8, <2>1, <3>1, <3>2
    <2>2. ASSUME NEW u \in Threads, NEW o \in Objects,
                 pc'[u] \in {"inc", "swap"}, Value(src[u])' = o
          PROVE  status'[o] = "alive" /\ (pc'[u] = "inc" => Kept(u, o)' \/ New(u, o)')
      <3>1. u # t /\ pc[u] = pc'[u] /\ Value(src[u]) = o
        BY <1>8, <2>1, <2>2
      <3>2. status[o] = "alive" /\ (pc[u] = "inc" => Kept(u, o) \/ New(u, o))
        BY <2>2, <3>1 DEF IInv, TakeInv
      <3> QED BY <1>1, <1>9, <3>1, <3>2
    <2>3. \A u \in Threads, o \in Objects : New(u, o)' => New(u, o)
      BY <1>1, <1>3 DEF New
    <2>4. \A u, v \in Threads, o \in Objects : New(u, o)' /\ New(v, o)' => u = v
      BY <2>3 DEF IInv, TakeInv
    <2> QED BY <2>1, <2>2, <2>4 DEF TakeInv
  <1>11. DropInv'
    <2>1. ~New(t, was)' /\ \A o \in Objects : New(t, o)' => FALSE
      BY <1>3 DEF New
    <2>2. \A o \in Objects : Dropping(t, o)' => o = was /\ pc'[t] = "dec" /\ status'[o] = "alive"
      BY <1>1, <1>2, <1>3 DEF Dropping
    <2>3. pc'[t] \in {"dec", "test", "destructor"} => old'[t] \in Objects
      BY <1>2, <1>3 DEF Pointers
    <2>4. ASSUME NEW u \in Threads \ {t}
          PROVE  pc'[u] \in {"dec", "test", "destructor"} => old'[u] \in Objects
      BY <1>3 DEF IInv, DropInv
    <2>5. ASSUME NEW u \in Threads, NEW o \in Objects, Dropping(u, o)'
          PROVE  /\ status'[o] \in {"alive", "dying"}
                 /\ pc'[u] # "dec" => atomic'[o] = 0
                 /\ pc'[u] = "destructor" => status'[o] = "dying"
                 /\ \A v \in Threads \ {u} :
                      /\ status'[o] = "dying" => ~Dropping(v, o)'
                      /\ pc'[u] = "test" => ~New(v, o)' /\ ~(pc'[v] = "test" /\ old'[v] = o)
      <3>1. CASE u = t
        BY <2>2, <2>5, <3>1
      <3>2. CASE u # t
        <4>1. Dropping(u, o) /\ pc'[u] = pc[u]
          BY <1>3, <1>9, <2>5, <3>2
        <4>2. /\ status[o] \in {"alive", "dying"}
              /\ pc[u] # "dec" => atomic[o] = 0
              /\ pc[u] = "destructor" => status[o] = "dying"
              /\ \A v \in Threads \ {u} :
                   /\ status[o] = "dying" => ~Dropping(v, o)
                   /\ pc[u] = "test" => ~New(v, o) /\ ~(pc[v] = "test" /\ old[v] = o)
          BY <4>1 DEF IInv, DropInv
        <4> QED BY <1>1, <1>3, <1>9, <2>1, <2>2, <4>1, <4>2
      <3> QED BY <3>1, <3>2
    <2> QED BY <2>3, <2>4, <2>5 DEF DropInv
  <1>12. ASSUME NEW o \in Objects
         PROVE  atomic'[o] = Holders(o)'
    <2>1. /\ Shown(o)' = (IF o = val THEN Shown(o) \cup {d} ELSE IF o = was THEN Shown(o) \ {d} ELSE Shown(o))
          /\ d \in Shown(o) <=> o = was
      BY <1>2, <1>3 DEF Shown
    <2>2. /\ Coming(o)' = (IF o = val THEN Coming(o) \ {t} ELSE Coming(o))
          /\ t \in Coming(o) <=> o = val
      <3>1. \A u \in Threads \ {t} : u \in Coming(o)' <=> u \in Coming(o)
        BY <1>3, <1>8 DEF Coming
      <3>2. t \notin Coming(o)' /\ (t \in Coming(o) <=> o = val)
        BY <1>1, <1>3 DEF Coming
      <3>3. Coming(o) \subseteq Threads /\ Coming(o)' \subseteq Threads
        BY DEF Coming
      <3> QED BY <3>1, <3>2, <3>3
    <2>3. /\ Going(o)' = (IF o = was THEN Going(o) \cup {t} ELSE Going(o))
          /\ t \notin Going(o)
      BY <1>1, <1>2, <1>3, PtrAssumption DEF Going
    <2>4. atomic[o] = Cardinality(Shown(o)) + Cardinality(Coming(o)) + Cardinality(Going(o))
      BY Counted DEF IInv, ObjectInv
    <2>5. CASE o = val
      <3>1. Cardinality(Shown(o)') = Cardinality(Shown(o)) + 1
        BY <1>2, <2>1, <2>5, Counted, OneMore
      <3>2. Cardinality(Coming(o)') = Cardinality(Coming(o)) - 1
        BY <2>2, <2>5, Counted, OneLess
      <3>3. Going(o)' = Going(o)
        BY <1>2, <2>3, <2>5
      <3> QED BY <1>1, <2>4, <3>1, <3>2, <3>3, Counted, CountedNext
    <2>6. CASE o = was
      <3>1. Cardinality(Shown(o)') = Cardinality(Shown(o)) - 1
        BY <1>2, <2>1, <2>6, Counted, OneLess
      <3>2. Coming(o)' = Coming(o)
        BY <1>2, <2>2, <2>6
      <3>3. Cardinality(Going(o)') = Cardinality(Going(o)) + 1
        BY <2>3, <2>6, Counted, OneMore
      <3> QED BY <1>1, <2>4, <3>1, <3>2, <3>3, Counted, CountedNext
    <2>7. CASE o # val /\ o # was
      <3>1. Shown(o)' = Shown(o) /\ Coming(o)' = Coming(o) /\ Going(o)' = Going(o)
        BY <2>1, <2>2, <2>3, <2>7
      <3> QED BY <1>1, <2>4, <3>1, Counted, CountedNext
    <2> QED BY <2>5, <2>6, <2>7
  <1>13. ObjectInv'
    <2>1. ASSUME NEW o \in Objects, status'[o] = "alive", atomic'[o] = 0
          PROVE  \E u \in Threads : (pc'[u] = "test" /\ old'[u] = o) \/ (pc'[u] = "inc" /\ src'[u] = o)
      <3>1. PICK u \in Threads : (pc[u] = "test" /\ old[u] = o) \/ (pc[u] = "inc" /\ src[u] = o)
        BY <1>1, <2>1 DEF IInv, ObjectInv
      <3> QED BY <1>1, <1>3, <3>1
    <2>2. \A o \in Objects : status'[o] # "alive" => Shown(o)' = {}
      BY <1>1, <1>2, <1>3 DEF IInv, ObjectInv, Shown
    <2> QED BY <1>1, <1>12, <2>1, <2>2 DEF IInv, ObjectInv
  <1> QED BY <1>4, <1>7, <1>10, <1>11, <1>13 DEF IInv

\* The steps of decRef() leave the smart pointers and what assignments take alone.
LEMMA Elsewhere ==
  ASSUME IInv, NEW t \in Threads, pc[t] \in {"dec", "test", "destructor"},
         pc' \in [Threads -> {"out", "inc", "swap", "dec", "test", "destructor"}],
         pc'[t] \in {"out", "dec", "test", "destructor"},
         \A u \in Threads \ {t} : pc'[u] = pc[u],
         UNCHANGED <<slot, mutex, dst, src, old>>
  PROVE  /\ UseInv'
         /\ \A p : Value(p)' = Value(p)
         /\ \A o \in Objects : Shown(o)' = Shown(o) /\ Coming(o)' = Coming(o)
         /\ \A u \in Threads, o \in Objects : Kept(u, o)' = Kept(u, o)
         /\ \A u \in Threads : pc'[u] \in {"inc", "swap"} => u # t /\ pc[u] = pc'[u]
         /\ \A u \in Threads \ {t}, o \in Objects : Dropping(u, o)' = Dropping(u, o)
         /\ \A o \in Objects : Going(o)' =
              (IF o = old[t] /\ pc'[t] = "dec" THEN Going(o) \cup {t} ELSE Going(o) \ {t})
PROOF
  <1>1. \A u \in Threads : \A r : MayUse(u, r)' = MayUse(u, r)
    BY DEF MayUse
  <1>2. UseInv'
    BY <1>1 DEF IInv, UseInv
  <1>3. \A p : Value(p)' = Value(p)
    BY DEF Value
  <1>4. \A u \in Threads : pc'[u] \in {"inc", "swap"} => u # t /\ pc[u] = pc'[u]
    OBVIOUS
  <1>5. \A u \in Threads : pc'[u] = "swap" <=> pc[u] = "swap"
    OBVIOUS
  <1>6. \A o \in Objects : Shown(o)' = Shown(o) /\ Coming(o)' = Coming(o)
    BY <1>3, <1>5 DEF Shown, Coming
  <1>7. \A u \in Threads, o \in Objects : Kept(u, o)' = Kept(u, o)
    BY <1>1 DEF Kept
  <1>8. \A u \in Threads \ {t}, o \in Objects : Dropping(u, o)' = Dropping(u, o)
    BY DEF Dropping
  <1>9. \A o \in Objects : Going(o)' =
              (IF o = old[t] /\ pc'[t] = "dec" THEN Going(o) \cup {t} ELSE Going(o) \ {t})
    BY DEF Going
  <1> QED BY <1>2, <1>3, <1>4, <1>6, <1>7, <1>8, <1>9

\* What an object that is let go may be to the others.
LEMMA Doomed ==
  ASSUME IInv, NEW t \in Threads, pc[t] \in {"dec", "test", "destructor"}
  PROVE  /\ old[t] \in Objects /\ Dropping(t, old[t])
         /\ status[old[t]] \in {"alive", "dying"}
         /\ \A u \in Threads : ~New(u, old[t]) \/ (u # t /\ pc[t] = "dec")
         /\ pc[t] # "dec" => \A u \in Threads : pc[u] \in {"inc", "swap"} => Value(src[u]) # old[t]
         /\ pc[t] # "dec" => \A u \in Threads \ {t} : ~Dropping(u, old[t])
         /\ pc[t] # "dec" => atomic[old[t]] = 0
         /\ pc[t] = "destructor" => status[old[t]] = "dying"
PROOF
  <1> DEFINE o == old[t]
  <1>1. o \in Objects /\ Dropping(t, o)
    BY DEF IInv, DropInv, Dropping
  <1>2. /\ status[o] \in {"alive", "dying"}
        /\ pc[t] # "dec" => atomic[o] = 0
        /\ pc[t] = "destructor" => status[o] = "dying"
        /\ \A u \in Threads \ {t} :
             /\ status[o] = "dying" => ~Dropping(u, o)
             /\ pc[t] = "test" => ~New(u, o) /\ ~(pc[u] = "test" /\ old[u] = o)
    BY <1>1 DEF IInv, DropInv
  <1>3. \A u \in Threads : New(u, o) => u # t /\ status[o] = "alive"
    <2>1. \A u \in Threads : New(u, o) => Value(src[u]) = o /\ pc[u] = "inc"
      BY <1>1, PtrAssumption DEF New, Value, Slots
    <2> QED BY <1>1, <2>1 DEF IInv, TakeInv
  <1>4. \A u \in Threads : ~New(u, o) \/ (u # t /\ pc[t] = "dec")
    BY <1>2, <1>3
  <1>5. ASSUME pc[t] # "dec", NEW u \in Threads, pc[u] \in {"inc", "swap"}, Value(src[u]) = o
        PROVE  FALSE
    <2>1. Shown(o) = {} /\ Coming(o) = {}
      BY <1>1, <1>2, <1>5, Zero DEF IInv
    <2>2. ~Kept(u, o)
      BY <2>1 DEF Kept, Shown
    <2>3. pc[u] # "swap"
      BY <1>5, <2>1 DEF Coming
    <2> QED BY <1>1, <1>4, <1>5, <2>2, <2>3 DEF IInv, TakeInv
  <1>6. ASSUME pc[t] # "dec", NEW u \in Threads \ {t}, Dropping(u, o)
        PROVE  FALSE
    <2>1. Going(o) = {}
      BY <1>1, <1>2, <1>6, Zero DEF IInv
    <2>2. pc[u] # "dec"
      BY <1>6, <2>1 DEF Going, Dropping
    <2>3. status[o] = "alive" /\ pc[t] = "test" /\ pc[u] # "test"
      BY <1>2, <1>6 DEF Dropping
    <2>4. pc[u] = "destructor"
      BY <1>6, <2>2, <2>3 DEF Dropping
    <2> QED BY <1>1, <1>6, <2>3, <2>4 DEF IInv, DropInv
  <1> QED BY <1>1, <1>2, <1>4, <1>5, <1>6

\* decRef(): one less.
LEMMA DecRefInv == ASSUME Locked, IInv, NEW t \in Threads, DecRef(t) PROVE IInv'
PROOF
  <1>1. pc[t] = "dec"
    BY DEF DecRef
  <1>2. PICK o \in Objects : o = old[t]
    BY <1>1, Doomed
  <1>3. /\ pc[t] = "dec" /\ atomic' = [atomic EXCEPT ![o] = @ - 1]
        /\ pc' = [pc EXCEPT ![t] = IF atomic'[o] = 0 THEN "test" ELSE Back(t)]
        /\ UNCHANGED <<slot, noDelete, status, deletes, mutex, dst, src, old>>
    BY <1>2 DEF DecRef, Goto
  <1>4. o \in Objects /\ o = old[t] /\ Dropping(t, o) /\ status[o] \in {"alive", "dying"}
    BY <1>1, <1>2, Doomed
  <1>5. /\ atomic'[o] = atomic[o] - 1 /\ \A p \in Objects \ {o} : atomic'[p] = atomic[p]
        /\ pc'[t] = (IF atomic'[o] = 0 THEN "test" ELSE Back(t))
        /\ \A u \in Threads \ {t} : pc'[u] = pc[u]
    BY <1>3, <1>4 DEF IInv, TypeOK
  <1>6. TypeOK'
    BY <1>3, <1>4 DEF IInv, TypeOK, Back
  <1>7. /\ UseInv'
        /\ \A p : Value(p)' = Value(p)
        /\ \A p \in Objects : Shown(p)' = Shown(p) /\ Coming(p)' = Coming(p)
        /\ \A u \in Threads, p \in Objects : Kept(u, p)' = Kept(u, p)
        /\ \A u \in Threads : pc'[u] \in {"inc", "swap"} => u # t /\ pc[u] = pc'[u]
        /\ \A u \in Threads \ {t}, p \in Objects : Dropping(u, p)' = Dropping(u, p)
        /\ \A p \in Objects : Going(p)' =
             (IF p = old[t] /\ pc'[t] = "dec" THEN Going(p) \cup {t} ELSE Going(p) \ {t})
    <2>1. pc'[t] \in {"out", "dec", "test", "destructor"}
      BY <1>5 DEF Back
    <2>2. pc' \in [Threads -> {"out", "inc", "swap", "dec", "test", "destructor"}]
      BY <1>6 DEF TypeOK
    <2> QED BY <1>3, <1>5, <2>1, <2>2, Elsewhere
  <1>8. t \in Going(o) /\ \A p \in Objects \ {o} : t \notin Going(p)
    BY <1>3, <1>4 DEF Going
  <1>9. \A p \in Objects : Going(p)' = IF p = o THEN Going(p) \ {t} ELSE Going(p)
    BY <1>4, <1>5, <1>7, <1>8 DEF Back
  <1>10. \A p \in Objects : atomic'[p] = Holders(p)'
    <2> TAKE p \in Objects
    <2>1. atomic[p] = Cardinality(Shown(p)) + Cardinality(Coming(p)) + Cardinality(Going(p))
      BY Counted DEF IInv, ObjectInv
    <2>2. Cardinality(Going(p)') = IF p = o THEN Cardinality(Going(p)) - 1 ELSE Cardinality(Going(p))
      BY <1>8, <1>9, Counted, OneLess
    <2> QED BY <1>5, <1>7, <2>1, <2>2, Counted, CountedNext
  <1>11. atomic[o] # 0
    BY <1>4, <1>8, Zero DEF IInv
  \* A count of 0 is that of an object in nobody's hands.
  <1>12. atomic'[o] = 0 => Shown(o) = {} /\ Coming(o) = {} /\ Going(o)' = {}
    <2> SUFFICES ASSUME atomic'[o] = 0 PROVE Shown(o) = {} /\ Coming(o) = {} /\ Going(o)' = {}
      OBVIOUS
    <2> DEFINE a == Cardinality(Shown(o)')
               b == Cardinality(Coming(o)')
               c == Cardinality(Going(o)')
    <2>1. a \in Nat /\ b \in Nat /\ c \in Nat /\ a + b + c = 0
      BY <1>4, <1>10, CountedNext, FS_CardinalityType
    <2>2. \A x, y, z \in Nat : x + y + z = 0 => x = 0 /\ y = 0 /\ z = 0
      OBVIOUS
    <2>3. a = 0 /\ b = 0 /\ c = 0
      BY <2>1, <2>2
    <2> QED BY <1>4, <1>7, <2>3, CountedNext, FS_EmptySet
  <1>13. \A u \in Threads, p \in Objects : New(u, p)' <=> New(u, p)
    <2>1. ASSUME NEW u \in Threads PROVE ~New(u, o) /\ ~New(u, o)'
      <3>1. ~New(u, o)
        BY <1>11 DEF New
      <3>2. ASSUME New(u, o)' PROVE FALSE
        <4>1. pc[u] = "inc" /\ src[u] = o /\ atomic'[o] = 0
          BY <1>3, <1>7, <3>2 DEF New
        <4>2. Value(src[u]) = o
          BY <1>4, <4>1, PtrAssumption DEF Value, Slots
        <4>3. Kept(u, o)
          BY <1>4, <3>1, <4>1, <4>2 DEF IInv, TakeInv
        <4> QED BY <1>12, <4>1, <4>3 DEF Kept, Shown
      <3> QED BY <3>1, <3>2
    <2>2. ASSUME NEW u \in Threads, NEW p \in Objects \ {o} PROVE New(u, p)' <=> New(u, p)
      BY <1>3, <1>5, <1>6 DEF New, Back
    <2> QED BY <2>1, <2>2
  <1>14. TakeInv'
    <2>1. \A u \in Threads : pc'[u] \in {"inc", "swap"} => slot'[dst'[u]] # Value(src[u])'
      BY <1>3, <1>7 DEF IInv, TakeInv
    <2>2. ASSUME NEW u \in Threads, NEW p \in Objects,
                 pc'[u] \in {"inc", "swap"}, Value(src[u])' = p
          PROVE  status'[p] = "alive" /\ (pc'[u] = "inc" => Kept(u, p)' \/ New(u, p)')
      <3>1. pc[u] = pc'[u] /\ Value(src[u]) = p
        BY <1>3, <1>7, <2>2
      <3>2. status[p] = "alive" /\ (pc[u] = "inc" => Kept(u, p) \/ New(u, p))
        BY <2>2, <3>1 DEF IInv, TakeInv
      <3> QED BY <1>3, <1>7, <1>13, <3>1, <3>2
    <2>3. \A u, v \in Threads, p \in Objects : New(u, p)' /\ New(v, p)' => u = v
      BY <1>13 DEF IInv, TakeInv
    <2> QED BY <2>1, <2>2, <2>3 DEF TakeInv
  \* An object that is being deleted has no count but the one that goes.
  <1>15. status[o] = "dying" => atomic'[o] = 0
    <2> SUFFICES ASSUME status[o] = "dying" PROVE atomic'[o] = 0
      OBVIOUS
    <2>1. Shown(o) = {}
      BY <1>4 DEF IInv, ObjectInv
    <2>2. Coming(o) = {}
      BY <1>4 DEF IInv, TakeInv, Coming
    <2>3. Going(o)' = {}
      <3>1. \A u \in Threads \ {t} : ~Dropping(u, o)
        BY <1>4 DEF IInv, DropInv
      <3>2. \A u \in Going(o) : u = t
        BY <3>1 DEF Going, Dropping
      <3> QED BY <1>4, <1>9, <3>2
    <2>4. Shown(o)' = {} /\ Coming(o)' = {}
      BY <1>4, <1>7, <2>1, <2>2
    <2> QED BY <1>4, <1>10, <2>3, <2>4, CountedNext, FS_EmptySet
  <1>16. pc'[t] = IF atomic'[o] = 0 THEN "test" ELSE "out"
    BY <1>4, <1>5, <1>15 DEF Back
  <1>17. DropInv'
    <2>1. ASSUME NEW u \in Threads
          PROVE  pc'[u] \in {"dec", "test", "destructor"} => old'[u] \in Objects
      BY <1>3, <1>4, <1>5 DEF IInv, DropInv
    <2>2. ASSUME NEW u \in Threads, NEW p \in Objects, Dropping(u, p)'
          PROVE  Dropping(u, p) /\ (u = t => p = o /\ pc'[t] = "test" /\ atomic'[o] = 0)
      BY <1>3, <1>4, <1>7, <1>16, <2>2 DEF Dropping
    <2>3. ASSUME NEW u \in Threads \ {t}, Dropping(u, o), atomic'[o] = 0
          PROVE  pc[u] \notin {"dec", "test"}
      <3>1. u \notin Going(o)
        BY <1>4, <1>9, <1>12, <2>3
      <3>2. pc[u] # "test"
        BY <1>4, <1>11, <2>3 DEF IInv, DropInv
      <3> QED BY <2>3, <3>1, <3>2 DEF Going, Dropping
    <2>4. ASSUME NEW u \in Threads, NEW p \in Objects, Dropping(u, p)'
          PROVE  /\ status'[p] \in {"alive", "dying"}
                 /\ pc'[u] # "dec" => atomic'[p] = 0
                 /\ pc'[u] = "destructor" => status'[p] = "dying"
                 /\ \A v \in Threads \ {u} :
                      /\ status'[p] = "dying" => ~Dropping(v, p)'
                      /\ pc'[u] = "test" => ~New(v, p)' /\ ~(pc'[v] = "test" /\ old'[v] = p)
      <3>1. /\ status[p] \in {"alive", "dying"}
            /\ pc[u] # "dec" => atomic[p] = 0
            /\ pc[u] = "destructor" => status[p] = "dying"
            /\ \A v \in Threads \ {u} :
                 /\ status[p] = "dying" => ~Dropping(v, p)
                 /\ pc[u] = "test" => ~New(v, p) /\ ~(pc[v] = "test" /\ old[v] = p)
        BY <2>2, <2>4 DEF IInv, DropInv
      <3>2. CASE u = t
        <4>1. p = o /\ pc'[t] = "test" /\ atomic'[o] = 0
          BY <2>2, <2>4, <3>2
        <4>2. \A v \in Threads \ {t} : ~New(v, o)' /\ ~(pc'[v] = "test" /\ old'[v] = o)
          <5>1. \A v \in Threads \ {t} : ~New(v, o)
            BY <1>11 DEF New
          <5>2. \A v \in Threads \ {t} : ~(pc[v] = "test" /\ old[v] = o)
            BY <2>3, <4>1 DEF Dropping
          <5> QED BY <1>3, <1>4, <1>5, <1>13, <5>1, <5>2
        <4>3. status[o] = "dying" => \A v \in Threads \ {t} : ~Dropping(v, o)'
          BY <1>4, <1>7, <3>1, <3>2, <4>1
        <4> QED BY <1>3, <3>1, <3>2, <4>1, <4>2, <4>3
      <3>3. CASE u # t
        <4>1. pc'[u] = pc[u]
          BY <1>5, <3>3
        <4>2. pc[u] # "dec" => p # o
          BY <1>11, <3>1
        <4>3. \A v \in Threads \ {u} : status[p] = "dying" => ~Dropping(v, p)'
          BY <2>2, <3>1
        <4>4. pc[u] = "test" => \A v \in Threads \ {u} : ~New(v, p)' /\ ~(pc'[v] = "test" /\ old'[v] = p)
          <5>1. \A v \in Threads \ {u} : pc[u] = "test" /\ v = t => ~(pc'[v] = "test" /\ old'[v] = p)
            BY <1>3, <1>4, <4>2
          <5> QED BY <1>3, <1>5, <1>13, <3>1, <5>1
        <4> QED BY <1>3, <1>5, <3>1, <4>1, <4>2, <4>3, <4>4
      <3> QED BY <3>2, <3>3
    <2> QED BY <2>1, <2>4 DEF DropInv
  <1>18. ObjectInv'
    <2>1. ASSUME NEW p \in Objects, status'[p] = "alive", atomic'[p] = 0
          PROVE  \E u \in Threads : (pc'[u] = "test" /\ old'[u] = p) \/ (pc'[u] = "inc" /\ src'[u] = p)
      <3>1. CASE p = o
        BY <1>3, <1>4, <1>16, <2>1, <3>1
      <3>2. CASE p # o
        <4>1. PICK u \in Threads : (pc[u] = "test" /\ old[u] = p) \/ (pc[u] = "inc" /\ src[u] = p)
          BY <1>3, <1>5, <2>1, <3>2 DEF IInv, ObjectInv
        <4>2. u # t
          BY <1>3, <4>1
        <4> QED BY <1>3, <1>5, <4>1, <4>2
      <3> QED BY <3>1, <3>2
    <2>2. \A p \in Objects : status'[p] \in {"unborn", "freed"} => atomic'[p] = 0
      BY <1>3, <1>4, <1>5 DEF IInv, ObjectInv
    <2> QED BY <1>3, <1>7, <1>10, <2>1, <2>2 DEF IInv, ObjectInv
  <1> QED BY <1>6, <1>7, <1>14, <1>17, <1>18 DEF IInv

\* _bNoDelete is set before the one deletion.
LEMMA TestInv == ASSUME Locked, IInv, NEW t \in Threads, Test(t) PROVE IInv'
PROOF
  <1>1. pc[t] = "test"
    BY DEF Test
  <1>2. PICK o \in Objects : o = old[t]
    BY <1>1, Doomed
  <1>3. /\ Dropping(t, o) /\ status[o] \in {"alive", "dying"} /\ atomic[o] = 0
        /\ \A u \in Threads : ~New(u, o)
        /\ \A u \in Threads : pc[u] \in {"inc", "swap"} => Value(src[u]) # o
        /\ \A u \in Threads \ {t} : ~Dropping(u, o)
    BY <1>1, <1>2, Doomed
  <1>4. noDelete[o] <=> status[o] = "dying"
    BY <1>3 DEF IInv, ObjectInv
  <1>5. /\ pc' = [pc EXCEPT ![t] = "destructor"]
        /\ IF status[o] = "dying" THEN UNCHANGED <<noDelete, status, deletes>>
           ELSE /\ noDelete' = [noDelete EXCEPT ![o] = TRUE]
                /\ deletes' = [deletes EXCEPT ![o] = @ + 1]
                /\ status' = [status EXCEPT ![o] = "dying"]
        /\ UNCHANGED <<slot, atomic, mutex, dst, src, old>>
    BY <1>2, <1>3, <1>4 DEF Test, Goto, Back
  <1>6. TypeOK'
    <2>1. pc' \in [Threads -> {"out", "inc", "swap", "dec", "test", "destructor"}]
      BY <1>5 DEF IInv, TypeOK
    <2>2. /\ noDelete' \in [Objects -> BOOLEAN] /\ deletes' \in [Objects -> Nat]
          /\ status' \in [Objects -> {"unborn", "alive", "dying", "freed"}]
      <3>1. CASE status[o] = "dying"
        BY <1>2, <1>5, <3>1 DEF IInv, TypeOK
      <3>2. CASE status[o] # "dying"
        <4>1. /\ noDelete' = [noDelete EXCEPT ![o] = TRUE]
              /\ deletes' = [deletes EXCEPT ![o] = @ + 1]
              /\ status' = [status EXCEPT ![o] = "dying"]
          BY <1>5, <3>2
        <4>2. noDelete' \in [Objects -> BOOLEAN]
          BY <4>1 DEF IInv, TypeOK
        <4>3. deletes' \in [Objects -> Nat]
          BY <1>2, <4>1 DEF IInv, TypeOK
        <4>4. status' \in [Objects -> {"unborn", "alive", "dying", "freed"}]
          BY <4>1 DEF IInv, TypeOK
        <4> QED BY <4>2, <4>3, <4>4
      <3> QED BY <3>1, <3>2
    <2> QED BY <1>5, <2>1, <2>2 DEF IInv, TypeOK
  <1>7. /\ pc'[t] = "destructor" /\ \A u \in Threads \ {t} : pc'[u] = pc[u]
        /\ status'[o] = "dying" /\ \A p \in Objects \ {o} : status'[p] = status[p]
        /\ \A p \in Objects \ {o} : noDelete'[p] = noDelete[p] /\ deletes'[p] = deletes[p]
    BY <1>5 DEF IInv, TypeOK
  <1>8. noDelete'[o] /\ deletes'[o] = 1
    BY <1>3, <1>4, <1>5 DEF IInv, TypeOK, ObjectInv
  <1>9. /\ UseInv'
        /\ \A p : Value(p)' = Value(p)
        /\ \A p \in Objects : Shown(p)' = Shown(p) /\ Coming(p)' = Coming(p)
        /\ \A u \in Threads, p \in Objects : Kept(u, p)' = Kept(u, p)
        /\ \A u \in Threads : pc'[u] \in {"inc", "swap"} => u # t /\ pc[u] = pc'[u]
        /\ \A u \in Threads \ {t}, p \in Objects : Dropping(u, p)' = Dropping(u, p)
        /\ \A p \in Objects : Going(p)' =
             (IF p = old[t] /\ pc'[t] = "dec" THEN Going(p) \cup {t} ELSE Going(p) \ {t})
    <2>1. pc' \in [Threads -> {"out", "inc", "swap", "dec", "test", "destructor"}]
      BY <1>6 DEF TypeOK
    <2> QED BY <1>1, <1>5, <1>7, <2>1, Elsewhere
  <1>10. \A p \in Objects : Going(p)' = Going(p)
    BY <1>1, <1>7, <1>9 DEF Going
  <1>11. \A p \in Objects : Holders(p)' = Holders(p)
    BY <1>9, <1>10, Counted, CountedNext
  <1>12. \A u \in Threads, p \in Objects : New(u, p)' = New(u, p)
    BY <1>1, <1>5, <1>7 DEF New
  <1>13. TakeInv'
    <2>1. \A u \in Threads : pc'[u] \in {"inc", "swap"} => slot'[dst'[u]] # Value(src[u])'
      BY <1>5, <1>9 DEF IInv, TakeInv
    <2>2. ASSUME NEW u \in Threads, NEW p \in Objects,
                 pc'[u] \in {"inc", "swap"}, Value(src[u])' = p
          PROVE  status'[p] = "alive" /\ (pc'[u] = "inc" => Kept(u, p)' \/ New(u, p)')
      <3>1. pc[u] = pc'[u] /\ Value(src[u]) = p
        BY <1>5, <1>9, <2>2
      <3>2. status[p] = "alive" /\ (pc[u] = "inc" => Kept(u, p) \/ New(u, p))
        BY <2>2, <3>1 DEF IInv, TakeInv
      <3>3. p # o
        BY <1>3, <2>2, <3>1
      <3> QED BY <1>7, <1>9, <1>12, <3>1, <3>2, <3>3
    <2>3. \A u, v \in Threads, p \in Objects : New(u, p)' /\ New(v, p)' => u = v
      BY <1>12 DEF IInv, TakeInv
    <2> QED BY <2>1, <2>2, <2>3 DEF TakeInv
  <1>14. DropInv'
    <2>1. ASSUME NEW u \in Threads
          PROVE  pc'[u] \in {"dec", "test", "destructor"} => old'[u] \in Objects
      BY <1>2, <1>5, <1>7 DEF IInv, DropInv
    <2>2. ASSUME NEW u \in Threads, NEW p \in Objects, Dropping(u, p)'
          PROVE  /\ status'[p] \in {"alive", "dying"}
                 /\ pc'[u] # "dec" => atomic'[p] = 0
                 /\ pc'[u] = "destructor" => status'[p] = "dying"
                 /\ \A v \in Threads \ {u} :
                      /\ status'[p] = "dying" => ~Dropping(v, p)'
                      /\ pc'[u] = "test" => ~New(v, p)' /\ ~(pc'[v] = "test" /\ old'[v] = p)
      <3>1. CASE u = t
        <4>1. p = o
          BY <1>2, <1>5, <2>2, <3>1 DEF Dropping
        <4>2. \A v \in Threads \ {t} : ~Dropping(v, o)'
          BY <1>3, <1>9
        <4> QED BY <1>3, <1>5, <1>7, <3>1, <4>1, <4>2
      <3>2. CASE u # t
        <4>1. Dropping(u, p) /\ pc'[u] = pc[u] /\ p # o
          BY <1>3, <1>7, <1>9, <2>2, <3>2
        <4>2. /\ status[p] \in {"alive", "dying"}
              /\ pc[u] # "dec" => atomic[p] = 0
              /\ pc[u] = "destructor" => status[p] = "dying"
              /\ \A v \in Threads \ {u} :
                   /\ status[p] = "dying" => ~Dropping(v, p)
                   /\ pc[u] = "test" => ~New(v, p) /\ ~(pc[v] = "test" /\ old[v] = p)
          BY <4>1 DEF IInv, DropInv
        <4>3. ~Dropping(t, p)'
          BY <1>2, <1>5, <4>1 DEF Dropping
        <4>4. \A v \in Threads : pc'[v] = "test" => v # t /\ pc[v] = "test" /\ old'[v] = old[v]
          BY <1>5, <1>7
        <4> QED BY <1>5, <1>7, <1>9, <1>12, <4>1, <4>2, <4>3, <4>4
      <3> QED BY <3>1, <3>2
    <2> QED BY <2>1, <2>2 DEF DropInv
  <1>15. ObjectInv'
    <2>1. ASSUME NEW p \in Objects, status'[p] = "alive", atomic'[p] = 0
          PROVE  \E u \in Threads : (pc'[u] = "test" /\ old'[u] = p) \/ (pc'[u] = "inc" /\ src'[u] = p)
      <3>1. p # o /\ status[p] = "alive" /\ atomic[p] = 0
        BY <1>5, <1>7, <2>1
      <3>2. PICK u \in Threads : (pc[u] = "test" /\ old[u] = p) \/ (pc[u] = "inc" /\ src[u] = p)
        BY <3>1 DEF IInv, ObjectInv
      <3>3. u # t
        BY <1>1, <1>2, <3>1, <3>2
      <3> QED BY <1>5, <1>7, <3>2, <3>3
    <2>2. Shown(o) = {}
      BY <1>3, Zero DEF IInv
    <2>3. ASSUME NEW p \in Objects
          PROVE  /\ atomic'[p] = Holders(p)'
                 /\ status'[p] \in {"unborn", "freed"} => atomic'[p] = 0
                 /\ status'[p] # "alive" => Shown(p)' = {}
                 /\ noDelete'[p] <=> status'[p] \in {"dying", "freed"}
                 /\ deletes'[p] = IF status'[p] \in {"dying", "freed"} THEN 1 ELSE 0
      <3>1. CASE p = o
        BY <1>5, <1>7, <1>8, <1>9, <1>11, <2>2, <3>1 DEF IInv, ObjectInv
      <3>2. CASE p # o
        BY <1>5, <1>7, <1>9, <1>11, <3>2 DEF IInv, ObjectInv
      <3> QED BY <3>1, <3>2
    <2> QED BY <2>1, <2>3 DEF ObjectInv
  <1> QED BY <1>6, <1>9, <1>13, <1>14, <1>15 DEF IInv

\* A destructor makes a smart pointer to its own object, or comes to its end.
LEMMA DestructorInv == ASSUME Locked, IInv, NEW t \in Threads, PointToThis(t) \/ Free(t) PROVE IInv'
PROOF
  <1>1. pc[t] = "destructor"
    BY DEF PointToThis, Free
  <1>2. PICK o \in Objects : o = old[t]
    BY <1>1, Doomed
  <1>3. /\ Dropping(t, o) /\ status[o] = "dying" /\ atomic[o] = 0
        /\ \A u \in Threads : ~New(u, o)
        /\ \A u \in Threads : pc[u] \in {"inc", "swap"} => Value(src[u]) # o
        /\ \A u \in Threads \ {t} : ~Dropping(u, o)
    BY <1>1, <1>2, Doomed
  <1>4. /\ \/ /\ pc' = [pc EXCEPT ![t] = "dec"] /\ atomic' = [atomic EXCEPT ![o] = @ + 1]
              /\ UNCHANGED status
           \/ /\ pc' = [pc EXCEPT ![t] = "out"] /\ status' = [status EXCEPT ![o] = "freed"]
              /\ UNCHANGED atomic
        /\ UNCHANGED <<slot, noDelete, deletes, mutex, dst, src, old>>
    BY <1>2 DEF PointToThis, Free, Goto
  <1>5. TypeOK'
    BY <1>2, <1>4 DEF IInv, TypeOK
  <1>6. /\ \/ pc'[t] = "dec" /\ status'[o] = "dying" /\ atomic'[o] = 1
           \/ pc'[t] = "out" /\ status'[o] = "freed" /\ atomic'[o] = 0
        /\ \A u \in Threads \ {t} : pc'[u] = pc[u]
        /\ \A p \in Objects \ {o} : status'[p] = status[p] /\ atomic'[p] = atomic[p]
    BY <1>3, <1>4 DEF IInv, TypeOK
  <1>7. /\ UseInv'
        /\ \A p : Value(p)' = Value(p)
        /\ \A p \in Objects : Shown(p)' = Shown(p) /\ Coming(p)' = Coming(p)
        /\ \A u \in Threads, p \in Objects : Kept(u, p)' = Kept(u, p)
        /\ \A u \in Threads : pc'[u] \in {"inc", "swap"} => u # t /\ pc[u] = pc'[u]
        /\ \A u \in Threads \ {t}, p \in Objects : Dropping(u, p)' = Dropping(u, p)
        /\ \A p \in Objects : Going(p)' =
             (IF p = old[t] /\ pc'[t] = "dec" THEN Going(p) \cup {t} ELSE Going(p) \ {t})
    <2>1. pc' \in [Threads -> {"out", "inc", "swap", "dec", "test", "destructor"}]
      BY <1>5 DEF TypeOK
    <2> QED BY <1>1, <1>4, <1>6, <2>1, Elsewhere
  <1>8. \A p \in Objects : t \notin Going(p)
    BY <1>1 DEF Going
  <1>9. \A p \in Objects : atomic'[p] = Holders(p)'
    <2> TAKE p \in Objects
    <2>1. atomic[p] = Cardinality(Shown(p)) + Cardinality(Coming(p)) + Cardinality(Going(p))
      BY Counted DEF IInv, ObjectInv
    <2>2. Cardinality(Going(p)') =
            IF p = o /\ pc'[t] = "dec" THEN Cardinality(Going(p)) + 1 ELSE Cardinality(Going(p))
      <3>1. CASE p = o /\ pc'[t] = "dec"
        <4>1. Going(p)' = Going(p) \cup {t}
          BY <1>2, <1>7, <3>1
        <4> QED BY <1>8, <3>1, <4>1, Counted, OneMore
      <3>2. CASE ~(p = o /\ pc'[t] = "dec")
        <4>1. Going(p)' = Going(p)
          BY <1>2, <1>7, <1>8, <3>2
        <4> QED BY <3>2, <4>1
      <3> QED BY <3>1, <3>2
    <2>3. atomic'[p] = IF p = o /\ pc'[t] = "dec" THEN atomic[p] + 1 ELSE atomic[p]
      BY <1>3, <1>6
    <2> QED BY <1>7, <2>1, <2>2, <2>3, Counted, CountedNext
  <1>10. \A u \in Threads, p \in Objects : New(u, p)' <=> New(u, p)
    <2>1. \A u \in Threads : ~New(u, o)'
      <3>1. \A u \in Threads : New(u, o)' => pc[u] = "inc" /\ Value(src[u]) = o
        BY <1>4, <1>7, PtrAssumption DEF New, Value, Slots
      <3> QED BY <1>3, <3>1
    <2>2. \A u \in Threads, p \in Objects \ {o} : New(u, p)' <=> New(u, p)
      BY <1>1, <1>4, <1>6 DEF New
    <2> QED BY <1>3, <2>1, <2>2
  <1>11. TakeInv'
    <2>1. \A u \in Threads : pc'[u] \in {"inc", "swap"} => slot'[dst'[u]] # Value(src[u])'
      BY <1>4, <1>7 DEF IInv, TakeInv
    <2>2. ASSUME NEW u \in Threads, NEW p \in Objects,
                 pc'[u] \in {"inc", "swap"}, Value(src[u])' = p
          PROVE  status'[p] = "alive" /\ (pc'[u] = "inc" => Kept(u, p)' \/ New(u, p)')
      <3>1. pc[u] = pc'[u] /\ Value(src[u]) = p
        BY <1>4, <1>7, <2>2
      <3>2. status[p] = "alive" /\ (pc[u] = "inc" => Kept(u, p) \/ New(u, p))
        BY <2>2, <3>1 DEF IInv, TakeInv
      <3>3. p # o
        BY <1>3, <2>2, <3>1
      <3> QED BY <1>6, <1>7, <1>10, <3>1, <3>2, <3>3
    <2>3. \A u, v \in Threads, p \in Objects : New(u, p)' /\ New(v, p)' => u = v
      BY <1>10 DEF IInv, TakeInv
    <2> QED BY <2>1, <2>2, <2>3 DEF TakeInv
  <1>12. DropInv'
    <2>1. ASSUME NEW u \in Threads
          PROVE  pc'[u] \in {"dec", "test", "destructor"} => old'[u] \in Objects
      BY <1>2, <1>4, <1>6 DEF IInv, DropInv
    <2>2. ASSUME NEW u \in Threads, NEW p \in Objects, Dropping(u, p)'
          PROVE  /\ status'[p] \in {"alive", "dying"}
                 /\ pc'[u] # "dec" => atomic'[p] = 0
                 /\ pc'[u] = "destructor" => status'[p] = "dying"
                 /\ \A v \in Threads \ {u} :
                      /\ status'[p] = "dying" => ~Dropping(v, p)'
                      /\ pc'[u] = "test" => ~New(v, p)' /\ ~(pc'[v] = "test" /\ old'[v] = p)
      <3>1. CASE u = t
        <4>1. p = o /\ pc'[t] = "dec"
          BY <1>2, <1>4, <1>6, <2>2, <3>1 DEF Dropping
        <4>2. \A v \in Threads \ {t} : ~Dropping(v, o)'
          BY <1>3, <1>7
        <4> QED BY <1>6, <3>1, <4>1, <4>2
      <3>2. CASE u # t
        <4>1. Dropping(u, p) /\ pc'[u] = pc[u] /\ p # o
          BY <1>3, <1>6, <1>7, <2>2, <3>2
        <4>2. /\ status[p] \in {"alive", "dying"}
              /\ pc[u] # "dec" => atomic[p] = 0
              /\ pc[u] = "destructor" => status[p] = "dying"
              /\ \A v \in Threads \ {u} :
                   /\ status[p] = "dying" => ~Dropping(v, p)
                   /\ pc[u] = "test" => ~New(v, p) /\ ~(pc[v] = "test" /\ old[v] = p)
          BY <4>1 DEF IInv, DropInv
        <4>3. ~Dropping(t, p)'
          BY <1>2, <1>4, <4>1 DEF Dropping
        <4>4. \A v \in Threads : pc'[v] = "test" => v # t /\ pc[v] = "test" /\ old'[v] = old[v]
          BY <1>4, <1>6
        <4> QED BY <1>6, <1>7, <1>10, <4>1, <4>2, <4>3, <4>4
      <3> QED BY <3>1, <3>2
    <2> QED BY <2>1, <2>2 DEF DropInv
  <1>13. ObjectInv'
    <2>1. ASSUME NEW p \in Objects, status'[p] = "alive", atomic'[p] = 0
          PROVE  \E u \in Threads : (pc'[u] = "test" /\ old'[u] = p) \/ (pc'[u] = "inc" /\ src'[u] = p)
      <3>1. p # o /\ status[p] = "alive" /\ atomic[p] = 0
        BY <1>6, <2>1
      <3>2. PICK u \in Threads : (pc[u] = "test" /\ old[u] = p) \/ (pc[u] = "inc" /\ src[u] = p)
        BY <3>1 DEF IInv, ObjectInv
      <3>3. u # t
        BY <1>1, <3>2
      <3> QED BY <1>4, <1>6, <3>2, <3>3
    <2>2. ASSUME NEW p \in Objects
          PROVE  /\ status'[p] \in {"unborn", "freed"} => atomic'[p] = 0
                 /\ status'[p] # "alive" => Shown(p)' = {}
                 /\ noDelete'[p] <=> status'[p] \in {"dying", "freed"}
                 /\ deletes'[p] = IF status'[p] \in {"dying", "freed"} THEN 1 ELSE 0
      <3>1. CASE p = o
        BY <1>3, <1>4, <1>6, <1>7, <3>1 DEF IInv, ObjectInv
      <3>2. CASE p # o
        BY <1>4, <1>6, <1>7, <3>2 DEF IInv, ObjectInv
      <3> QED BY <3>1, <3>2
    <2> QED BY <1>9, <2>1, <2>2 DEF ObjectInv
  <1> QED BY <1>5, <1>7, <1>11, <1>12, <1>13 DEF IInv
-----------------------------------------------------------------------------
\* Every step.
LEMMA NextInv == ASSUME Locked PROVE IInv /\ [Next]_vars => IInv'
PROOF
  <1> SUFFICES ASSUME IInv, [Next]_vars PROVE IInv'
    OBVIOUS
  <1>1. CASE UNCHANGED vars
    <2>1. /\ \A p : Value(p)' = Value(p)
          /\ \A o \in Objects : Shown(o)' = Shown(o) /\ Holders(o)' = Holders(o)
          /\ \A u \in Threads : \A r : MayUse(u, r)' = MayUse(u, r)
          /\ \A u \in Threads, o \in Objects : New(u, o)' = New(u, o) /\ Dropping(u, o)' = Dropping(u, o)
      BY <1>1 DEF Value, Shown, Holders, MayUse, New, Dropping, vars, objVars, opVars
    <2>2. \A u \in Threads, o \in Objects : Kept(u, o)' = Kept(u, o)
      BY <1>1, <2>1 DEF Kept, vars, opVars
    <2>3. TypeOK' /\ UseInv'
      BY <1>1, <2>1 DEF IInv, TypeOK, UseInv, vars, objVars, opVars
    <2>4. TakeInv'
      BY <1>1, <2>1, <2>2 DEF IInv, TakeInv, vars, objVars, opVars
    <2>5. DropInv' /\ ObjectInv'
      BY <1>1, <2>1 DEF IInv, DropInv, ObjectInv, vars, objVars, opVars
    <2> QED BY <2>3, <2>4, <2>5 DEF IInv
  <1>2. CASE Next
    <2> PICK t \in Threads :
          \/ Acquire(t) \/ Release(t)
          \/ \E d \in Slots, s \in Slots \cup Pointers : Assign(t, d, s)
          \/ IncRef(t) \/ Swap(t) \/ DecRef(t) \/ Test(t) \/ PointToThis(t) \/ Free(t)
          \/ \E s, u \in Slots : Exchange(t, s, u)
      BY <1>2 DEF Next
    <2>1. CASE Acquire(t) \/ Release(t)
      BY <2>1, MutexInv
    <2>2. CASE \E d \in Slots, s \in Slots \cup Pointers : Assign(t, d, s)
      BY <2>2, AssignInv, Locked
    <2>3. CASE IncRef(t)
      BY <2>3, IncRefInv, Locked
    <2>4. CASE Swap(t)
      BY <2>4, SwapInv, Locked
    <2>5. CASE DecRef(t)
      BY <2>5, DecRefInv, Locked
    <2>6. CASE Test(t)
      BY <2>6, TestInv, Locked
    <2>7. CASE PointToThis(t) \/ Free(t)
      BY <2>7, DestructorInv, Locked
    <2>8. CASE \E s, u \in Slots : Exchange(t, s, u)
      BY <2>8, ExchangeInv, Locked
    <2> QED BY <2>1, <2>2, <2>3, <2>4, <2>5, <2>6, <2>7, <2>8
  <1> QED BY <1>1, <1>2

\* The inductive invariant, as long as the shared pointers are used with the mutex.
LEMMA InvCorrect == ASSUME Locked PROVE Spec => []IInv
PROOF
  <1>1. Locked
    OBVIOUS
  <1> QED BY <1>1, InitInv, NextInv, PTL DEF Spec

\* Types of every variable of the smart pointers (util/YR_AutoPtr.h).
THEOREM TypeCorrect == ASSUME Locked PROVE Spec => []TypeOK
PROOF
  <1>1. IInv => TypeOK
    BY DEF IInv
  <1> QED BY <1>1, InvCorrect, PTL

\* The count of an object is the number of smart pointers to it and of operations under
\* way that have counted one: the last owner finds 0, whoever lets go at the same time
\* (YR_AutoPtr.h:28).
THEOREM CountCorrect == ASSUME Locked PROVE Spec => []CountExact
PROOF
  <1>1. IInv => CountExact
    BY DEF IInv, ObjectInv, CountExact
  <1> QED BY <1>1, InvCorrect, PTL

\* No smart pointer and no assignment under way refers to an object whose destructor has
\* begun, and none is deleted twice although its destructor may point to it
\* (YR_AutoPtr.h:30).
THEOREM NothingDangles == ASSUME Locked PROVE Spec => []NeverDangling
PROOF
  <1>1. IInv => NeverDangling
    <2> SUFFICES ASSUME IInv PROVE NeverDangling
      OBVIOUS
    <2>1. \A s \in Slots : slot[s] # Null => status[slot[s]] = "alive"
      <3>1. \A s \in Slots : slot[s] # Null => slot[s] \in Objects /\ s \in Shown(slot[s])
        BY DEF IInv, TypeOK, Pointers, Shown
      <3> QED BY <3>1 DEF IInv, ObjectInv
    <2>2. \A t \in Threads :
            pc[t] \in {"inc", "swap"} /\ Value(src[t]) # Null => status[Value(src[t])] = "alive"
      <3>1. \A t \in Threads : Value(src[t]) \in Pointers
        BY DEF IInv, TypeOK, Value
      <3> QED BY <3>1 DEF IInv, TakeInv, Pointers
    <2>3. \A o \in Objects : deletes[o] <= 1 /\ (status[o] = "freed" => deletes[o] = 1)
      BY DEF IInv, ObjectInv
    <2> QED BY <2>1, <2>2, <2>3 DEF NeverDangling
  <1> QED BY <1>1, InvCorrect, PTL
=============================================================================
