------------------------------ MODULE AutoPtr ------------------------------
(***************************************************************************)
(* YR_AutoPtr and YR_HandleBaseT (util/YR_AutoPtr.h): intrusive reference  *)
(* counts.  incRef() and the decrement of decRef() are locked instructions *)
(* (YR_Atomic.h); the accesses to _ptr are plain ones.                     *)
(*                                                                         *)
(* Every thread has a pointer of its own, and the shared ones are used as  *)
(* YR_LoggerThreadGroup uses its set _logger: while a mutex is held, if    *)
(* Locked.  A construction is the assignment to an empty pointer and a     *)
(* destruction the assignment of NULL.                                     *)
(***************************************************************************)
EXTENDS Integers, FiniteSets

CONSTANTS
  Threads,
  Objects,   \* bound: objects that are ever made
  Shared,    \* the smart pointers that every thread uses
  Null,      \* a NULL pointer
  Nobody,    \* the mutex is free
  Locked     \* are the shared pointers only used with the mutex?

ASSUME PtrAssumption ==
  /\ Threads \cap Shared = {} /\ (Threads \cup Shared) \cap (Objects \cup {Null}) = {}
  /\ Null \notin Objects /\ Nobody \notin Threads /\ Locked \in BOOLEAN
  /\ IsFiniteSet(Threads) /\ IsFiniteSet(Shared)

Slots == Threads \cup Shared    \* a thread's own pointer goes by the thread's name
Pointers == Objects \cup {Null}

VARIABLES
  slot,       \* _ptr of each smart pointer
  atomic,     \* _atomic of each object
  noDelete,   \* its _bNoDelete
  status,     \* "unborn", "alive", "dying" in its destructor, "freed"
  deletes,    \* history: how often it has been deleted
  mutex,      \* the thread that holds the mutex
  pc,         \* where each thread is in operator=, decRef() or a destructor
  dst,        \* the pointer it assigns to
  src,        \* what it assigns: a smart pointer or a raw one
  old         \* the local variable ptr

objVars == <<atomic, noDelete, status, deletes>>
opVars == <<pc, dst, src, old>>
vars == <<slot, objVars, mutex, opVars>>

TypeOK ==
  /\ slot \in [Slots -> Pointers]
  /\ atomic \in [Objects -> Int] /\ noDelete \in [Objects -> BOOLEAN]
  /\ status \in [Objects -> {"unborn", "alive", "dying", "freed"}]
  /\ deletes \in [Objects -> Nat]
  /\ mutex \in Threads \cup {Nobody}
  /\ pc \in [Threads -> {"out", "inc", "swap", "dec", "test", "destructor"}]
  /\ dst \in [Threads -> Slots] /\ src \in [Threads -> Slots \cup Pointers]
  /\ old \in [Threads -> Pointers]

Init ==
  /\ slot = [s \in Slots |-> Null]
  /\ atomic = [o \in Objects |-> 0] /\ noDelete = [o \in Objects |-> FALSE]
  /\ status = [o \in Objects |-> "unborn"] /\ deletes = [o \in Objects |-> 0]
  /\ mutex = Nobody
  /\ pc = [t \in Threads |-> "out"] /\ dst = [t \in Threads |-> t]
  /\ src = [t \in Threads |-> Null] /\ old = [t \in Threads |-> Null]
-----------------------------------------------------------------------------
MayUse(t, s) == s = t \/ (s \in Shared /\ (Locked => mutex = t))
Value(p) == IF p \in Slots THEN slot[p] ELSE p
Goto(t, place) == pc' = [pc EXCEPT ![t] = place]

Acquire(t) ==
  /\ pc[t] = "out" /\ mutex = Nobody /\ mutex' = t
  /\ UNCHANGED <<slot, objVars, opVars>>
Release(t) ==
  /\ pc[t] = "out" /\ mutex = t /\ mutex' = Nobody
  /\ UNCHANGED <<slot, objVars, opVars>>

\* operator= begins, and is done when both point to the same.  A raw pointer is NULL, a
\* new object, or what get() returns for the thread's own pointer.
Assign(t, d, s) ==
  /\ pc[t] = "out" /\ MayUse(t, d)
  /\ \/ s \in Slots /\ MayUse(t, s)
     \/ s \in {Null, slot[t]}
     \/ s \in Objects /\ status[s] = "unborn"
  /\ slot[d] # Value(s)
  /\ status' = IF s \in Objects THEN [status EXCEPT ![s] = "alive"] ELSE status
  /\ dst' = [dst EXCEPT ![t] = d] /\ src' = [src EXCEPT ![t] = s]
  /\ Goto(t, "inc")
  /\ UNCHANGED <<slot, atomic, noDelete, deletes, mutex, old>>

\* Mutated forms: the old object let go before the new one is counted; decRef() that
\* does not set _bNoDelete before it deletes.
SwapUncounted(t) ==
  /\ pc[t] = "swap" /\ old' = [old EXCEPT ![t] = slot[dst[t]]]
  /\ slot' = [slot EXCEPT ![dst[t]] = Value(src[t])] /\ Goto(t, "out")
  /\ UNCHANGED <<objVars, mutex, dst, src>>
TestUnmarked(t) ==
  /\ pc[t] = "test"
  /\ LET o == old[t] IN
       /\ deletes' = [deletes EXCEPT ![o] = @ + 1]
       /\ status' = [status EXCEPT ![o] = "dying"] /\ Goto(t, "destructor")
  /\ UNCHANGED <<slot, atomic, noDelete, mutex, dst, src, old>>

\* incRef() of the new object.
IncRef(t) ==
  /\ pc[t] = "inc" /\ Goto(t, "swap")
  /\ atomic' = IF Value(src[t]) = Null THEN atomic
               ELSE [atomic EXCEPT ![Value(src[t])] = @ + 1]
  /\ UNCHANGED <<slot, noDelete, status, deletes, mutex, dst, src, old>>

\* _ptr changes hands; the other smart pointer is read again.
Swap(t) ==
  /\ pc[t] = "swap" /\ old' = [old EXCEPT ![t] = slot[dst[t]]]
  /\ slot' = [slot EXCEPT ![dst[t]] = Value(src[t])]
  /\ Goto(t, IF slot[dst[t]] = Null THEN "out" ELSE "dec")
  /\ UNCHANGED <<objVars, mutex, dst, src>>

\* decRef() of the old object: dec_and_test(), then _bNoDelete.
Back(t) == IF status[old[t]] = "dying" THEN "destructor" ELSE "out"
DecRef(t) ==
  /\ pc[t] = "dec"
  /\ atomic' = [atomic EXCEPT ![old[t]] = @ - 1]
  /\ Goto(t, IF atomic'[old[t]] = 0 THEN "test" ELSE Back(t))
  /\ UNCHANGED <<slot, noDelete, status, deletes, mutex, dst, src, old>>

Test(t) ==
  /\ pc[t] = "test"
  /\ LET o == old[t] IN
       IF noDelete[o]
       THEN Goto(t, Back(t)) /\ UNCHANGED <<noDelete, status, deletes>>
       ELSE /\ noDelete' = [noDelete EXCEPT ![o] = TRUE]
            /\ deletes' = [deletes EXCEPT ![o] = @ + 1]
            /\ status' = [status EXCEPT ![o] = "dying"] /\ Goto(t, "destructor")
  /\ UNCHANGED <<slot, atomic, mutex, dst, src, old>>

\* A destructor may have a smart pointer made from `this` on its way.
PointToThis(t) ==
  /\ pc[t] = "destructor" /\ Goto(t, "dec")
  /\ atomic' = [atomic EXCEPT ![old[t]] = @ + 1]
  /\ UNCHANGED <<slot, noDelete, status, deletes, mutex, dst, src, old>>

Free(t) ==
  /\ pc[t] = "destructor" /\ Goto(t, "out")
  /\ status' = [status EXCEPT ![old[t]] = "freed"]
  /\ UNCHANGED <<slot, atomic, noDelete, deletes, mutex, dst, src, old>>

\* swap() of two smart pointers.
Exchange(t, s, u) ==
  /\ pc[t] = "out" /\ s # u /\ MayUse(t, s) /\ MayUse(t, u)
  /\ slot' = [slot EXCEPT ![s] = slot[u], ![u] = slot[s]]
  /\ UNCHANGED <<objVars, mutex, opVars>>

Next ==
  \E t \in Threads :
    \/ Acquire(t) \/ Release(t)
    \/ \E d \in Slots, s \in Slots \cup Pointers : Assign(t, d, s)
    \/ IncRef(t) \/ Swap(t) \/ DecRef(t) \/ Test(t) \/ PointToThis(t) \/ Free(t)
    \/ \E s, u \in Slots : Exchange(t, s, u)

Spec == Init /\ [][Next]_vars
-----------------------------------------------------------------------------
\* No smart pointer, and no operation under way, refers to an object whose destructor has
\* begun, but the destructor itself; and no object is deleted twice, although its
\* destructor may make a smart pointer to it.
NeverDangling ==
  /\ \A s \in Slots : slot[s] # Null => status[slot[s]] = "alive"
  /\ \A t \in Threads :
       pc[t] \in {"inc", "swap"} /\ Value(src[t]) # Null => status[Value(src[t])] = "alive"
  /\ \A o \in Objects : deletes[o] <= 1 /\ (status[o] = "freed" => deletes[o] = 1)

\* The count of an object is the number of smart pointers to it, with the operations that
\* have counted one to come or have yet to discount one gone: it is deleted with the last.
Holders(o) ==
  Cardinality({s \in Slots : slot[s] = o})
    + Cardinality({t \in Threads : pc[t] = "swap" /\ Value(src[t]) = o})
    + Cardinality({t \in Threads : pc[t] = "dec" /\ old[t] = o})
CountExact ==
  \A o \in Objects :
    /\ atomic[o] = Holders(o)
    /\ status[o] = "alive" /\ atomic[o] = 0 =>
         \E t \in Threads : (pc[t] = "test" /\ old[t] = o) \/ (pc[t] = "inc" /\ src[t] = o)
=============================================================================
