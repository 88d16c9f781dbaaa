------------------------- MODULE DirectoriesProofs -------------------------
(***************************************************************************)
(* Theorems about makeDirRecursive(), for every number of processes, every *)
(* working directory and paths of every length.                            *)
(***************************************************************************)
EXTENDS Directories, SequenceTheorems, WellFoundedInduction, TLAPS

Parts == Names \cup {Empty, ".", ".."}
Paths == Seq(Parts) \ {<<>>}
Places == Seq(Names) \cup {NoDir}

LEMMA EmptyIsNoDot == Empty # "." /\ Empty # ".."
  BY Zenon DEF Empty
-----------------------------------------------------------------------------
\* Induction over the numbers up to a bound, with a set for the predicate: what the
\* recursive functions of Directories compute is shown by it.
LEMMA UpTo ==
  ASSUME NEW N \in Nat, NEW S, 0 \in S,
         \A n \in Nat : n < N /\ n \in S => n + 1 \in S
  PROVE  \A n \in 0..N : n \in S
<1> DEFINE R == {ss \in Nat \X Nat : ss[1] < ss[2]}
           T == {n \in 0..N : n \notin S}
<1>1. SUFFICES ASSUME T # {} PROVE FALSE
  OBVIOUS
<1>2. IsWellFoundedOn(R, Nat)
  BY NatLessThanWellFounded DEF OpToRel
<1>3. T \subseteq Nat
  OBVIOUS
<1> HIDE DEF R, T
<1>4. PICK x \in T : \A y \in T : <<y, x>> \notin R
  BY <1>1, <1>2, <1>3, WFMin
<1>5. x \in 0..N /\ x \notin S /\ x \in Nat
  BY DEF T
<1>6. x # 0 /\ x - 1 \in 0..N
  BY <1>5
<1>7. <<x - 1, x>> \in R
  BY <1>5, <1>6 DEF R
<1>8. x - 1 \in S
  BY <1>4, <1>6, <1>7 DEF T
<1>9. QED
  BY <1>5, <1>6, <1>8

\* The recursive functions are what their definitions say.
LEMMA WayIs ==
  ASSUME NEW there, NEW from, NEW p, Len(p) \in Nat
  PROVE  Way(there, from, p) = [n \in 0..Len(p) |-> IF n = 0 THEN from
                                  ELSE Step(there, Way(there, from, p)[n - 1], p[n])]
<1> DEFINE N == Len(p)
           St(x, n) == Step(there, x, p[n])
           Def(w, n) == w = [i \in 0..n |-> IF i = 0 THEN from ELSE St(w[i - 1], i)]
           S == {n \in Nat : \E w : Def(w, n)}
<1> HIDE DEF St
<1>1. 0 \in S
  <2>1. Def([i \in 0..0 |-> from], 0)
    OBVIOUS
  <2>2. QED
    BY <2>1
<1>2. ASSUME NEW n \in Nat, n < N, n \in S PROVE n + 1 \in S
  <2>1. PICK w : Def(w, n)
    BY <1>2
  <2> DEFINE v == [i \in 0..n + 1 |-> IF i = n + 1 THEN St(w[n], n + 1) ELSE w[i]]
  <2>2. ASSUME NEW i \in 0..n + 1
        PROVE  v[i] = IF i = 0 THEN from ELSE St(v[i - 1], i)
    <3>1. CASE i = n + 1
      BY <3>1
    <3>2. CASE i # n + 1
      <4>1. i \in 0..n /\ (i # 0 => i - 1 \in 0..n + 1 /\ i - 1 # n + 1)
        BY <3>2
      <4>2. w[i] = IF i = 0 THEN from ELSE St(w[i - 1], i)
        BY <2>1, <4>1
      <4>3. v[i] = w[i] /\ (i # 0 => v[i - 1] = w[i - 1])
        BY <3>2, <4>1
      <4>4. QED
        BY <4>2, <4>3
    <3>3. QED
      BY <3>1, <3>2
  <2>3. Def(v, n + 1)
    BY <2>2
  <2> HIDE DEF Def, v
  <2>4. QED
    BY <2>3
<1>3. N \in S
  <2> HIDE DEF S
  <2>1. \A n \in 0..N : n \in S
    BY <1>1, <1>2, UpTo
  <2>2. QED
    BY <2>1
<1>4. PICK w : Def(w, N)
  BY <1>3
<1>5. Way(there, from, p) = CHOOSE u : Def(u, N)
  BY DEF Way, St
<1>6. Def(Way(there, from, p), N)
  <2> DEFINE P(u) == Def(u, N)
  <2> HIDE DEF P
  <2>1. P(w)
    BY <1>4 DEF P
  <2>2. P(CHOOSE u : P(u))
    BY <2>1, Zenon
  <2>3. QED
    BY <1>5, <2>2 DEF P
<1>7. QED
  BY <1>6 DEF St

LEMMA ShortenedIs ==
  ASSUME NEW p, Len(p) \in Nat
  PROVE  Shortened(p) = [n \in 0..Len(p) |-> IF n = 0 THEN <<>>
                           ELSE IF Drops(p, n, Shortened(p)[n - 1]) THEN Shortened(p)[n - 1]
                           ELSE Append(Shortened(p)[n - 1], p[n])]
<1> DEFINE N == Len(p)
           St(x, n) == IF Drops(p, n, x) THEN x ELSE Append(x, p[n])
           Def(w, n) == w = [i \in 0..n |-> IF i = 0 THEN <<>> ELSE St(w[i - 1], i)]
           S == {n \in Nat : \E w : Def(w, n)}
<1> HIDE DEF St
<1>1. 0 \in S
  <2>1. Def([i \in 0..0 |-> <<>>], 0)
    OBVIOUS
  <2>2. QED
    BY <2>1
<1>2. ASSUME NEW n \in Nat, n < N, n \in S PROVE n + 1 \in S
  <2>1. PICK w : Def(w, n)
    BY <1>2
  <2> DEFINE v == [i \in 0..n + 1 |-> IF i = n + 1 THEN St(w[n], n + 1) ELSE w[i]]
  <2>2. ASSUME NEW i \in 0..n + 1
        PROVE  v[i] = IF i = 0 THEN <<>> ELSE St(v[i - 1], i)
    <3>1. CASE i = n + 1
      BY <3>1
    <3>2. CASE i # n + 1
      <4>1. i \in 0..n /\ (i # 0 => i - 1 \in 0..n + 1 /\ i - 1 # n + 1)
        BY <3>2
      <4>2. w[i] = IF i = 0 THEN <<>> ELSE St(w[i - 1], i)
        BY <2>1, <4>1
      <4>3. v[i] = w[i] /\ (i # 0 => v[i - 1] = w[i - 1])
        BY <3>2, <4>1
      <4>4. QED
        BY <4>2, <4>3
    <3>3. QED
      BY <3>1, <3>2
  <2>3. Def(v, n + 1)
    BY <2>2
  <2> HIDE DEF Def, v
  <2>4. QED
    BY <2>3
<1>3. N \in S
  <2> HIDE DEF S
  <2>1. \A n \in 0..N : n \in S
    BY <1>1, <1>2, UpTo
  <2>2. QED
    BY <2>1
<1>4. PICK w : Def(w, N)
  BY <1>3
<1>5. Shortened(p) = CHOOSE u : Def(u, N)
  BY DEF Shortened, St
<1>6. Def(Shortened(p), N)
  <2> DEFINE P(u) == Def(u, N)
  <2> HIDE DEF P
  <2>1. P(w)
    BY <1>4 DEF P
  <2>2. P(CHOOSE u : P(u))
    BY <2>1, Zenon
  <2>3. QED
    BY <1>5, <2>2 DEF P
<1>7. QED
  BY <1>6 DEF St
-----------------------------------------------------------------------------
\* Where a path leads, part by part.
LEMMA WalkNothing ==
  ASSUME NEW there, NEW from
  PROVE  Walk(there, from, <<>>) = from
<1>1. Len(<<>>) = 0
  OBVIOUS
<1>2. QED
  BY <1>1, WayIs DEF Walk

LEMMA WalkOn ==
  ASSUME NEW there, NEW from, NEW V, NEW p \in Seq(V), NEW part \in V
  PROVE  Walk(there, from, Append(p, part)) = Step(there, Walk(there, from, p), part)
<1> DEFINE N == Len(p)
           q == Append(p, part)
           v == Way(there, from, p)
           w == Way(there, from, q)
           S == {n \in Nat : n <= N => w[n] = v[n]}
<1>1. N \in Nat /\ Len(q) = N + 1 /\ q[N + 1] = part /\ \A i \in 1..N : q[i] = p[i]
  OBVIOUS
<1>2. v = [n \in 0..N |-> IF n = 0 THEN from ELSE Step(there, v[n - 1], p[n])]
  BY <1>1, WayIs
<1>3. w = [n \in 0..N + 1 |-> IF n = 0 THEN from ELSE Step(there, w[n - 1], q[n])]
  <2>1. Len(q) \in Nat /\ Len(q) = N + 1
    BY <1>1
  <2> HIDE DEF N, q
  <2>2. w = [n \in 0..Len(q) |-> IF n = 0 THEN from ELSE Step(there, w[n - 1], q[n])]
    BY <2>1, WayIs
  <2> HIDE DEF w
  <2>3. QED
    BY <2>1, <2>2, Zenon
<1> HIDE DEF N, q, v, w
<1>4. 0 \in S
  BY <1>1, <1>2, <1>3
<1>5. ASSUME NEW n \in Nat, n < N, n \in S PROVE n + 1 \in S
  <2>1. n + 1 \in 0..N /\ n + 1 \in 0..N + 1 /\ n + 1 # 0 /\ n + 1 \in 1..N /\ (n + 1) - 1 = n
    BY <1>1, <1>5
  <2>2. v[n + 1] = Step(there, v[n], p[n + 1])
    BY <1>2, <2>1
  <2>3. w[n + 1] = Step(there, w[n], q[n + 1])
    BY <1>3, <2>1
  <2>4. w[n] = v[n] /\ q[n + 1] = p[n + 1]
    BY <1>1, <1>5, <2>1
  <2>5. QED
    BY <2>2, <2>3, <2>4
<1>6. w[N] = v[N]
  <2> HIDE DEF S
  <2>1. \A n \in 0..N : n \in S
    BY <1>1, <1>4, <1>5, UpTo
  <2>2. QED
    BY <1>1, <2>1 DEF S
<1>7. w[N + 1] = Step(there, w[N], part)
  <2>1. N + 1 \in 0..N + 1 /\ N + 1 # 0 /\ (N + 1) - 1 = N
    BY <1>1
  <2>2. QED
    BY <1>1, <1>3, <2>1
<1>8. QED
  BY <1>1, <1>6, <1>7 DEF Walk, N, q, v, w

LEMMA WalkOne ==
  ASSUME NEW there, NEW from, NEW part
  PROVE  Walk(there, from, <<part>>) = Step(there, from, part)
<1> DEFINE V == {part}
           none == <<>>
<1>1. none \in Seq(V) /\ part \in V
  OBVIOUS
<1>2. Append(none, part) = <<part>>
  <2>1. Append(none, part) \in Seq(V) /\ <<part>> \in Seq(V)
    OBVIOUS
  <2>2. Len(Append(none, part)) = 1 /\ Len(<<part>>) = 1
    OBVIOUS
  <2>3. \A i \in 1..1 : Append(none, part)[i] = <<part>>[i]
    OBVIOUS
  <2>4. QED
    BY <2>1, <2>2, <2>3, SeqEqual
<1>3. Walk(there, from, none) = from
  BY WalkNothing
<1> HIDE DEF V, none
<1>4. Walk(there, from, Append(none, part)) = Step(there, Walk(there, from, none), part)
  BY <1>1, WalkOn
<1>5. QED
  BY <1>2, <1>3, <1>4

LEMMA Pair ==
  ASSUME NEW V, NEW q \in Seq(V), Len(q) = 2
  PROVE  q = <<q[1], q[2]>> /\ q[1] \in V /\ q[2] \in V
<1> DEFINE e == <<q[1], q[2]>>
<1>1. q[1] \in V /\ q[2] \in V
  OBVIOUS
<1>2. e \in Seq(V) /\ Len(e) = 2 /\ e[1] = q[1] /\ e[2] = q[2]
  BY <1>1
<1> HIDE DEF e
<1>3. \A i \in 1..2 : q[i] = e[i]
  BY <1>2
<1>4. q = e
  BY <1>2, <1>3, SeqEqual
<1>5. QED
  BY <1>1, <1>4 DEF e

LEMMA OnePartMore ==
  ASSUME NEW V, NEW p \in Seq(V), NEW n \in Nat, n < Len(p)
  PROVE  /\ SubSeq(p, 1, n) \in Seq(V) /\ Len(SubSeq(p, 1, n)) = n
         /\ p[n + 1] \in V
         /\ SubSeq(p, 1, n + 1) = Append(SubSeq(p, 1, n), p[n + 1])
<1> DEFINE q == SubSeq(p, 1, n)
           r == SubSeq(p, 1, n + 1)
<1>1. q \in Seq(V) /\ Len(q) = n /\ \A i \in 1..n : q[i] = p[i]
  <2>1. \A i \in 1..n : p[i] \in V
    OBVIOUS
  <2>2. QED
    BY <2>1, SubSeqProperties
<1>2. r \in Seq(V) /\ Len(r) = n + 1 /\ \A i \in 1..n + 1 : r[i] = p[i]
  <2>1. \A i \in 1..n + 1 : p[i] \in V
    OBVIOUS
  <2>2. QED
    BY <2>1, SubSeqProperties
<1>3. p[n + 1] \in V
  OBVIOUS
<1> HIDE DEF q, r
<1>4. r = Append(q, p[n + 1])
  <2>1. Append(q, p[n + 1]) \in Seq(V) /\ Len(Append(q, p[n + 1])) = n + 1
    BY <1>1, <1>3
  <2>2. ASSUME NEW i \in 1..n + 1 PROVE r[i] = Append(q, p[n + 1])[i]
    BY <1>1, <1>2, <1>3
  <2>3. QED
    BY <1>2, <2>1, <2>2, SeqEqual
<1>5. QED
  BY <1>1, <1>3, <1>4 DEF q, r

LEMMA NoDirIsNone == NoDir \notin Seq(Names)
<1>1. Len(NoDir) = 1 /\ NoDir[1] = Empty
  BY DEF NoDir
<1>2. \A s \in Seq(Names) : Len(s) = 1 => s[1] \in Names
  OBVIOUS
<1>3. Empty \notin Names
  BY DirectoriesAssumption
<1>4. QED
  BY <1>1, <1>2, <1>3

\* From a directory every step leads to a place.
LEMMA StepSome ==
  ASSUME NEW there \in SUBSET Seq(Names), NEW place \in there, NEW part \in Parts
  PROVE  Step(there, place, part) \in Seq(Names)
<1>1. place \in Seq(Names)
  OBVIOUS
<1>2. CASE part \in {Empty, "."}
  BY <1>1, <1>2 DEF Step
<1>3. CASE part = ".."
  <2>1. place # <<>> => Front(place) \in Seq(Names)
    <3>1. \A i \in 1..Len(place) - 1 : place[i] \in Names
      BY <1>1
    <3>2. Len(place) - 1 \in Int
      BY <1>1
    <3>3. QED
      BY <3>1, <3>2, SubSeqProperties DEF Front
  <2>2. QED
    BY <1>1, <1>3, <2>1 DEF Step, Root
<1>4. CASE part \in Names
  <2>1. part \notin {Empty, ".", ".."}
    BY <1>4, DirectoriesAssumption
  <2>2. Step(there, place, part) = Append(place, part)
    BY <2>1 DEF Step
  <2>3. QED
    BY <1>1, <1>4, <2>2
<1>5. QED
  BY <1>2, <1>3, <1>4 DEF Parts

LEMMA StepType ==
  ASSUME NEW there \in SUBSET Seq(Names), NEW place, NEW part \in Parts
  PROVE  Step(there, place, part) \in Places
<1>1. CASE place \in there
  BY <1>1, StepSome DEF Places
<1>2. CASE place \notin there
  BY <1>2 DEF Step, Places
<1>3. QED
  BY <1>1, <1>2

\* What is no directory is as good as any other that is none.
Alike(there, a, b) == a = b \/ (a \notin there /\ b \notin there)
LEMMA StepAlike ==
  ASSUME NEW there, NEW a, NEW b, Alike(there, a, b), NEW part
  PROVE  Step(there, a, part) = Step(there, b, part)
  BY DEF Alike, Step

\* More directories lead nowhere else.
LEMMA WalkGrows ==
  ASSUME NEW there \in SUBSET Seq(Names), NEW more, there \subseteq more,
         NEW from, NEW p \in Seq(Parts), Walk(there, from, p) # NoDir
  PROVE  Walk(more, from, p) = Walk(there, from, p)
<1> DEFINE A(n) == Walk(there, from, SubSeq(p, 1, n))
           B(n) == Walk(more, from, SubSeq(p, 1, n))
           S == {n \in Nat : n <= Len(p) /\ A(n) # NoDir => B(n) = A(n)}
<1>1. 0 \in S
  <2>1. SubSeq(p, 1, 0) = <<>>
    BY SubSeqEmpty
  <2>2. QED
    BY <2>1, WalkNothing
<1>2. ASSUME NEW n \in Nat, n < Len(p), n \in S PROVE n + 1 \in S
  <2> SUFFICES ASSUME A(n + 1) # NoDir PROVE B(n + 1) = A(n + 1)
    OBVIOUS
  <2> DEFINE q == SubSeq(p, 1, n)
             part == p[n + 1]
  <2>1. q \in Seq(Parts) /\ part \in Parts /\ SubSeq(p, 1, n + 1) = Append(q, part)
    BY <1>2, OnePartMore
  <2> HIDE DEF q, part
  <2>2. A(n + 1) = Step(there, Walk(there, from, q), part)
    <3>1. Walk(there, from, Append(q, part)) = Step(there, Walk(there, from, q), part)
      BY <2>1, WalkOn
    <3>2. QED
      BY <2>1, <3>1
  <2>3. B(n + 1) = Step(more, Walk(more, from, q), part)
    <3>1. Walk(more, from, Append(q, part)) = Step(more, Walk(more, from, q), part)
      BY <2>1, WalkOn
    <3>2. QED
      BY <2>1, <3>1
  <2>4. Walk(there, from, q) \in there
    BY <2>2 DEF Step
  <2>5. Walk(more, from, q) = Walk(there, from, q)
    <3>1. A(n) = Walk(there, from, q) /\ B(n) = Walk(more, from, q)
      BY DEF q
    <3>2. A(n) # NoDir
      BY <3>1, <2>4, NoDirIsNone
    <3>3. QED
      BY <1>2, <3>1, <3>2
  <2>6. QED
    BY <2>2, <2>3, <2>4, <2>5 DEF Step
<1>3. Len(p) \in S
  <2> HIDE DEF S
  <2>1. Len(p) \in Nat
    OBVIOUS
  <2>2. \A n \in 0..Len(p) : n \in S
    BY <1>1, <1>2, <2>1, UpTo
  <2>3. QED
    BY <2>1, <2>2
<1>4. SubSeq(p, 1, Len(p)) = p
  BY SubSeqFull
<1>5. A(Len(p)) = Walk(there, from, p) /\ B(Len(p)) = Walk(more, from, p)
  BY <1>4
<1>6. QED
  BY <1>3, <1>5
-----------------------------------------------------------------------------
\* simplifyDirectory() and where its result leads.
LEMMA KeptNext ==
  ASSUME NEW p \in Paths
  PROVE  /\ Shortened(p)[0] = <<>>
         /\ \A n \in Nat : n < Len(p) =>
              Shortened(p)[n + 1] =
                IF Drops(p, n + 1, Shortened(p)[n]) THEN Shortened(p)[n]
                ELSE Append(Shortened(p)[n], p[n + 1])
<1> DEFINE N == Len(p)
           K == Shortened(p)
<1>1. N \in Nat
  BY DEF Paths
<1>2. K = [n \in 0..N |-> IF n = 0 THEN <<>> ELSE IF Drops(p, n, K[n - 1]) THEN K[n - 1]
                          ELSE Append(K[n - 1], p[n])]
  BY <1>1, ShortenedIs
<1> HIDE DEF N, K
<1>3. K[0] = <<>>
  BY <1>1, <1>2
<1>4. ASSUME NEW n \in Nat, n < N
      PROVE  K[n + 1] = IF Drops(p, n + 1, K[n]) THEN K[n] ELSE Append(K[n], p[n + 1])
  <2>1. n + 1 \in 0..N /\ n + 1 # 0 /\ (n + 1) - 1 = n
    BY <1>1, <1>4
  <2>2. QED
    BY <1>2, <2>1
<1>5. QED
  BY <1>3, <1>4 DEF N, K

\* What is kept begins like the path and has neither Empty nor "." inside.
ShapeAt(p, n) ==
  /\ Shortened(p)[n] \in Seq(Parts)
  /\ Len(Shortened(p)[n]) <= n
  /\ n > 0 => Len(Shortened(p)[n]) >= 1 /\ Shortened(p)[n][1] = p[1]
  /\ n < Len(p) => \A i \in 2..Len(Shortened(p)[n]) : Shortened(p)[n][i] \notin {Empty, "."}
LEMMA KeptShape ==
  ASSUME NEW p \in Paths
  PROVE  \A n \in 0..Len(p) : ShapeAt(p, n)
<1> DEFINE N == Len(p)
           S == {n \in Nat : n <= N => ShapeAt(p, n)}
<1>1. N \in Nat /\ \A i \in 1..N : p[i] \in Parts
  BY DEF Paths
<1> HIDE DEF N
<1>2. 0 \in S
  <2>1. Shortened(p)[0] = <<>>
    BY KeptNext
  <2>2. ShapeAt(p, 0)
    BY <2>1 DEF ShapeAt
  <2>3. QED
    BY <2>2
<1>3. ASSUME NEW n \in Nat, n < N, n \in S PROVE n + 1 \in S
  <2> DEFINE k == Shortened(p)[n]
             l == Shortened(p)[n + 1]
             x == p[n + 1]
  <2> ShapeAt(p, n)
    BY <1>1, <1>3
  <2>1. k \in Seq(Parts) /\ Len(k) \in Nat /\ Len(k) <= n
    <3>1. k \in Seq(Parts) /\ Len(k) <= n
      BY DEF ShapeAt
    <3> HIDE DEF k
    <3>2. QED
      BY <3>1
  <2>2. n > 0 => Len(k) >= 1 /\ k[1] = p[1]
    BY DEF ShapeAt
  <2>3. \A i \in 2..Len(k) : k[i] \notin {Empty, "."}
    BY <1>3 DEF ShapeAt, N
  <2>4. l = IF Drops(p, n + 1, k) THEN k ELSE Append(k, x)
    BY <1>3, KeptNext DEF N
  <2>5. x \in Parts
    BY <1>1, <1>3
  <2>6. Drops(p, n + 1, k) => n > 0
    <3>1. n + 1 \in 2..N - 1 => n > 0
      BY <1>1
    <3>2. QED
      BY <3>1 DEF Drops, N
  <2>7. n = 0 => k = <<>>
    BY KeptNext
  <2> HIDE DEF k, l, x
  <2>8. CASE Drops(p, n + 1, k)
    <3>1. l = k
      BY <2>4, <2>8
    <3>2. l \in Seq(Parts) /\ Len(l) <= n + 1 /\ Len(l) >= 1 /\ l[1] = p[1]
      BY <2>1, <2>2, <2>6, <2>8, <3>1
    <3>3. \A i \in 2..Len(l) : l[i] \notin {Empty, "."}
      BY <2>3, <3>1
    <3>4. ShapeAt(p, n + 1)
      BY <3>2, <3>3 DEF ShapeAt, l
    <3>5. QED
      BY <3>4
  <2>9. CASE ~Drops(p, n + 1, k)
    <3>1. l = Append(k, x)
      BY <2>4, <2>9
    <3>2. l \in Seq(Parts) /\ Len(l) = Len(k) + 1 /\ l[Len(k) + 1] = x
          /\ \A i \in 1..Len(k) : l[i] = k[i]
      BY <2>1, <2>5, <3>1
    <3>3. Len(l) >= 1 /\ Len(l) <= n + 1
      BY <2>1, <3>2
    <3>4. l[1] = p[1]
      <4>1. CASE n = 0
        BY <2>7, <3>2, <4>1 DEF x
      <4>2. CASE n # 0
        BY <2>1, <2>2, <3>2, <4>2
      <4>3. QED
        BY <4>1, <4>2
    <3>5. ASSUME n + 1 < N, NEW i \in 2..Len(l) PROVE l[i] \notin {Empty, "."}
      <4>1. CASE i = Len(k) + 1
        <5>1. n > 0
          BY <2>7, <3>2, <4>1, <3>5
        <5>2. n + 1 \in 2..N - 1
          BY <1>1, <3>5, <5>1
        <5>3. x \notin {Empty, "."}
          BY <2>9, <5>2 DEF Drops, N, x
        <5>4. QED
          BY <3>2, <4>1, <5>3
      <4>2. CASE i # Len(k) + 1
        <5>1. i \in 2..Len(k) /\ i \in 1..Len(k)
          BY <2>1, <3>2, <4>2
        <5>2. QED
          BY <2>3, <3>2, <5>1
      <4>3. QED
        BY <4>1, <4>2
    <3>6. ShapeAt(p, n + 1)
      BY <3>2, <3>3, <3>4, <3>5 DEF ShapeAt, l, N
    <3>7. QED
      BY <3>6
  <2>10. QED
    BY <2>8, <2>9
<1>4. QED
  <2> HIDE DEF S
  <2>1. \A n \in 0..N : n \in S
    BY <1>1, <1>2, <1>3, UpTo
  <2>2. QED
    BY <1>1, <2>1 DEF S, N

\* The parts that are dropped make no difference.
LEMMA KeptWalk ==
  ASSUME NEW p \in Paths, NEW there \in SUBSET Seq(Names), Root \in there
  PROVE  \A n \in 0..Len(p) : Alike(there, Walk(there, Start(p), Shortened(p)[n]),
                                    Walk(there, Start(p), SubSeq(p, 1, n)))
<1> DEFINE N == Len(p)
           from == Start(p)
           A(n) == Walk(there, from, Shortened(p)[n])
           B(n) == Walk(there, from, SubSeq(p, 1, n))
           S == {n \in Nat : n <= N => Alike(there, A(n), B(n))}
<1>1. p \in Seq(Parts) /\ N \in Nat
  BY DEF Paths
<1>2. 0 \in S
  <2>1. Shortened(p)[0] = <<>> /\ SubSeq(p, 1, 0) = <<>>
    BY KeptNext, SubSeqEmpty
  <2>2. QED
    BY <2>1 DEF Alike
<1>3. ASSUME NEW n \in Nat, n < N, n \in S PROVE n + 1 \in S
  <2> DEFINE k == Shortened(p)[n]
             l == Shortened(p)[n + 1]
             x == p[n + 1]
             q == SubSeq(p, 1, n)
             a == A(n)
             b == B(n)
  <2>1. Alike(there, a, b)
    BY <1>1, <1>3
  <2>2. ShapeAt(p, n)
    BY <1>1, <1>3, KeptShape
  <2>3. k \in Seq(Parts) /\ (n > 0 => k[1] = p[1])
    BY <2>2 DEF ShapeAt
  <2>4. l = IF Drops(p, n + 1, k) THEN k ELSE Append(k, x)
    BY <1>3, KeptNext
  <2>5. q \in Seq(Parts) /\ x \in Parts /\ SubSeq(p, 1, n + 1) = Append(q, x)
    BY <1>1, <1>3, OnePartMore
  <2>6. a = Walk(there, from, k) /\ A(n + 1) = Walk(there, from, l)
    OBVIOUS
  <2> HIDE DEF k, l, x, q, from
  <2>7. B(n + 1) = Step(there, b, x)
    <3>1. Walk(there, from, Append(q, x)) = Step(there, Walk(there, from, q), x)
      BY <2>5, WalkOn
    <3>2. QED
      BY <2>5, <3>1 DEF q
  <2>8. CASE ~Drops(p, n + 1, k)
    <3>1. Walk(there, from, Append(k, x)) = Step(there, Walk(there, from, k), x)
      BY <2>3, <2>5, WalkOn
    <3>2. A(n + 1) = Step(there, a, x)
      BY <2>4, <2>6, <2>8, <3>1
    <3>3. A(n + 1) = B(n + 1)
      BY <2>1, <2>7, <3>2, StepAlike
    <3>4. QED
      BY <3>3 DEF Alike
  <2>9. CASE Drops(p, n + 1, k)
    <3>1. A(n + 1) = a
      BY <2>4, <2>6, <2>9
    <3>2. CASE x \in {Empty, "."}
      <4>1. B(n + 1) = IF b \in there THEN b ELSE NoDir
        BY <2>7, <3>2 DEF Step
      <4>2. Alike(there, A(n + 1), B(n + 1))
        BY <2>1, <3>1, <4>1, NoDirIsNone DEF Alike
      <4>3. QED
        BY <4>2
    <3>3. CASE x \notin {Empty, "."}
      <4>1. x = ".." /\ k = <<Empty>>
        BY <2>9, <3>3 DEF Drops, x
      <4>2. n > 0 /\ N > 1
        <5>1. n + 1 \in 2..N - 1
          BY <2>9 DEF Drops
        <5>2. QED
          BY <1>1, <5>1
      <4>3. p[1] = Empty
        BY <2>3, <4>1, <4>2
      <4>4. from = Root
        <5>1. Head(p) = p[1]
          BY <1>1
        <5>2. QED
          BY <4>2, <4>3, <5>1 DEF from, Start, Absolute
      <4>5. a = Step(there, Root, Empty)
        BY <2>6, <4>1, <4>4, WalkOne
      <4>6. a = Root
        BY <4>5 DEF Step
      <4>7. b = Root
        BY <2>1, <4>6 DEF Alike
      <4>8. B(n + 1) = Root
        BY <2>7, <4>1, <4>7 DEF Step
      <4>9. QED
        BY <3>1, <4>6, <4>8 DEF Alike
    <3>4. QED
      BY <3>2, <3>3
  <2>10. QED
    BY <2>8, <2>9
<1>4. QED
  <2> HIDE DEF S
  <2>1. \A n \in 0..N : n \in S
    BY <1>1, <1>2, <1>3, UpTo
  <2>2. QED
    BY <1>1, <2>1 DEF S

\* What is kept has been kept part by part, and each time the path led to the same place.
KeptAt(there, p, kept) ==
  \E m \in 1..Len(p) :
    Shortened(p)[m] = kept
    /\ Walk(there, Start(p), kept) = Walk(there, Start(p), SubSeq(p, 1, m))
LEMMA KeptFrom ==
  ASSUME NEW p \in Paths, NEW there \in SUBSET Seq(Names), Root \in there
  PROVE  \A k \in 1..Len(Shortened(p)[Len(p)]) :
           KeptAt(there, p, SubSeq(Shortened(p)[Len(p)], 1, k))
<1> DEFINE N == Len(p)
           from == Start(p)
           All(n) == \A k \in 1..Len(Shortened(p)[n]) :
                       KeptAt(there, p, SubSeq(Shortened(p)[n], 1, k))
           S == {n \in Nat : n <= N => All(n)}
<1>1. p \in Seq(Parts) /\ N \in Nat
  BY DEF Paths
<1>2. 0 \in S
  <2>1. Shortened(p)[0] = <<>>
    BY KeptNext
  <2>2. QED
    BY <2>1
<1>3. ASSUME NEW n \in Nat, n < N, n \in S PROVE n + 1 \in S
  <2> DEFINE k == Shortened(p)[n]
             l == Shortened(p)[n + 1]
             x == p[n + 1]
             q == SubSeq(p, 1, n)
  <2>1. All(n)
    BY <1>1, <1>3
  <2>2. ShapeAt(p, n)
    BY <1>1, <1>3, KeptShape
  <2>3. k \in Seq(Parts)
    BY <2>2 DEF ShapeAt
  <2>4. l = IF Drops(p, n + 1, k) THEN k ELSE Append(k, x)
    BY <1>3, KeptNext
  <2>5. q \in Seq(Parts) /\ x \in Parts /\ SubSeq(p, 1, n + 1) = Append(q, x)
    BY <1>1, <1>3, OnePartMore
  <2>6. Alike(there, Walk(there, from, k), Walk(there, from, q))
    BY <1>1, <1>3, KeptWalk
  <2>7. SUFFICES All(n + 1)
    OBVIOUS
  <2>8. CASE Drops(p, n + 1, k)
    BY <2>1, <2>4, <2>8
  <2>9. CASE ~Drops(p, n + 1, k)
    <3> HIDE DEF k, l, x, q, from
    <3>1. l = Append(k, x) /\ l \in Seq(Parts) /\ Len(l) = Len(k) + 1
      BY <2>3, <2>4, <2>5, <2>9
    <3>2. KeptAt(there, p, l)
      <4>1. Walk(there, from, Append(k, x)) = Step(there, Walk(there, from, k), x)
        BY <2>3, <2>5, WalkOn
      <4>2. Walk(there, from, Append(q, x)) = Step(there, Walk(there, from, q), x)
        BY <2>5, WalkOn
      <4>3. Walk(there, from, l) = Walk(there, from, SubSeq(p, 1, n + 1))
        BY <2>5, <2>6, <3>1, <4>1, <4>2, StepAlike
      <4>4. n + 1 \in 1..Len(p)
        BY <1>1, <1>3
      <4>5. QED
        BY <4>3, <4>4 DEF KeptAt, l, from
    <3>3. ASSUME NEW i \in 1..Len(l) PROVE KeptAt(there, p, SubSeq(l, 1, i))
      <4>1. CASE i = Len(l)
        BY <3>1, <3>2, <4>1, SubSeqFull
      <4>2. CASE i # Len(l)
        <5>1. i \in 1..Len(k)
          BY <2>3, <3>1, <4>2
        <5>2. SubSeq(l, 1, i) = SubSeq(k, 1, i)
          BY <2>3, <2>5, <3>1, <5>1
        <5>3. KeptAt(there, p, SubSeq(k, 1, i))
          BY <2>1, <5>1 DEF k
        <5>4. QED
          BY <5>2, <5>3
      <4>3. QED
        BY <4>1, <4>2
    <3>4. QED
      BY <3>3 DEF l
  <2>10. QED
    BY <2>8, <2>9
<1>4. QED
  <2> HIDE DEF S
  <2>1. \A n \in 0..N : n \in S
    BY <1>1, <1>2, <1>3, UpTo
  <2>2. N \in S
    BY <1>1, <2>1
  <2>3. All(N)
    BY <1>1, <2>2 DEF S
  <2>4. QED
    BY <2>3

\* The whole of what is kept.
Kept(p) == Shortened(p)[Len(p)]
LEMMA KeptAll ==
  ASSUME NEW p \in Paths
  PROVE  /\ Kept(p) \in Paths /\ Kept(p)[1] = p[1]
         /\ Len(p) = 1 => Kept(p) = p
         /\ Len(p) > 1 => Len(Kept(p)) > 1
         /\ \A i \in 2..Len(Kept(p)) - 1 : Kept(p)[i] \notin {Empty, "."}
<1> DEFINE N == Len(p)
           n == N - 1
           q == Kept(p)
           k == Shortened(p)[n]
<1>1. p \in Seq(Parts) /\ N \in Nat /\ N >= 1 /\ p[N] \in Parts
  BY DEF Paths
<1>2. n \in Nat /\ n < N /\ n + 1 = N /\ n \in 0..N /\ N \in 0..N
  BY <1>1
<1>3. ShapeAt(p, N) /\ ShapeAt(p, n)
  BY <1>2, KeptShape
<1>4. q \in Seq(Parts) /\ Len(q) >= 1 /\ q[1] = p[1]
  <2> DEFINE m == N
  <2>1. ShapeAt(p, m) /\ m > 0
    BY <1>1, <1>3
  <2>2. Shortened(p)[m] = q
    BY DEF Kept
  <2> HIDE DEF m, q
  <2>3. QED
    BY <2>1, <2>2 DEF ShapeAt
<1>5. k \in Seq(Parts) /\ (n > 0 => Len(k) >= 1)
  BY <1>2, <1>3 DEF ShapeAt
<1>5a. \A i \in 2..Len(k) : k[i] \notin {Empty, "."}
  BY <1>2, <1>3 DEF ShapeAt
<1>6. q = Append(k, p[N])
  <2>1. q = IF Drops(p, n + 1, k) THEN k ELSE Append(k, p[n + 1])
    <3>1. Shortened(p)[n + 1] = IF Drops(p, n + 1, k) THEN k ELSE Append(k, p[n + 1])
      BY <1>2, KeptNext
    <3>2. QED
      BY <1>2, <3>1 DEF Kept
  <2>2. ~Drops(p, n + 1, k)
    <3>1. n + 1 \notin 2..N - 1
      BY <1>1
    <3>2. QED
      BY <3>1 DEF Drops
  <2>3. QED
    BY <1>2, <2>1, <2>2
<1>7. n = 0 => k = <<>>
  BY KeptNext
<1> HIDE DEF N, n, q, k
<1>8a. \A i \in 1..Len(k) : q[i] = k[i]
  <2>1. k \in Seq(Parts) /\ p[N] \in Parts
    BY <1>1, <1>5
  <2>2. QED
    BY <1>6, <2>1, AppendProperties
<1>8. Len(k) \in Nat /\ Len(q) = Len(k) + 1
  <2>1. k \in Seq(Parts) /\ p[N] \in Parts
    BY <1>1, <1>5
  <2>2. QED
    BY <1>6, <2>1, AppendProperties
<1>9. \A i \in 2..Len(q) - 1 : q[i] \notin {Empty, "."}
  <2>1. ASSUME NEW i \in 2..Len(q) - 1 PROVE q[i] \notin {Empty, "."}
    <3>1. i \in 2..Len(k) /\ i \in 1..Len(k)
      BY <1>8
    <3>2. QED
      BY <1>5a, <1>8a, <3>1
  <2>2. QED
    BY <2>1
<1>10. N > 1 => Len(q) > 1
  <2>1. N > 1 => n > 0
    BY <1>1, <1>2
  <2>2. QED
    BY <1>5, <1>8, <2>1
<1>11. N = 1 => q = p
  <2>1. SUFFICES ASSUME N = 1 PROVE q = p
    OBVIOUS
  <2>2. k = <<>>
    BY <1>2, <1>7, <2>1
  <2>3. Len(q) = 1
    BY <1>8, <2>2
  <2>4. Len(p) = 1
    BY <2>1 DEF N
  <2>5. \A i \in 1..1 : q[i] = p[i]
    BY <1>4
  <2>6. QED
    BY <1>1, <1>4, <2>3, <2>4, <2>5, SeqEqual
<1>12. q \in Paths
  BY <1>4 DEF Paths
<1>13. QED
  BY <1>4, <1>9, <1>10, <1>11, <1>12 DEF N, q

\* The three forms of the result.
AsRoot(p) == /\ Kept(p) \in {<<Empty, ".">>, <<Empty, Empty>>, <<Empty, "..">>}
             /\ SimplifyDirectory(p) = <<Empty, Empty>>
AsKept(p) == SimplifyDirectory(p) = Kept(p)
EndCut(p) ==
  \E x \in {Empty, "."} :
    /\ SimplifyDirectory(p) \in Paths /\ SimplifyDirectory(p) # <<Empty>>
    /\ Kept(p) = Append(SimplifyDirectory(p), x)
LEMMA SimpleForm ==
  ASSUME NEW p \in Paths
  PROVE  AsRoot(p) \/ AsKept(p) \/ EndCut(p)
<1> DEFINE q == Kept(p)
           r == NoEnd(q, ".")
           s == SimplifyDirectory(p)
<1>1. q \in Seq(Parts) /\ Len(q) \in Nat /\ Len(q) >= 1
  <2>1. q \in Paths
    BY KeptAll
  <2> HIDE DEF q
  <2>2. QED
    BY <2>1 DEF Paths
<1>1a. \A i \in 2..Len(q) - 1 : q[i] \notin {Empty, "."}
  BY KeptAll
<1>2. CASE q \in {<<Empty, ".">>, <<Empty, Empty>>, <<Empty, "..">>}
  BY <1>2 DEF AsRoot, SimplifyDirectory, Kept
<1>3. CASE q \notin {<<Empty, ".">>, <<Empty, Empty>>, <<Empty, "..">>}
  <2>1. s = NoEnd(r, Empty)
    BY <1>3 DEF SimplifyDirectory, Kept
  <2> HIDE DEF q, s
  <2>0. q \in Seq(Parts) /\ Len(q) \in Nat /\ Len(q) >= 1
    BY <1>1 DEF q
  <2>0a. \A i \in 2..Len(q) - 1 : q[i] \notin {Empty, "."}
    BY <1>1a DEF q
  <2> DEFINE f == SubSeq(q, 1, Len(q) - 1)
  <2>2. ASSUME Len(q) > 1, q[Len(q)] \in {Empty, "."}
        PROVE  f \in Paths /\ f # <<Empty>> /\ q = Append(f, q[Len(q)])
               /\ Len(f) = Len(q) - 1 /\ \A i \in 1..Len(f) : f[i] = q[i]
    <3>0. Len(q) \in Nat /\ Len(q) > 1
      BY <2>0, <2>2, Zenon
    <3>1. /\ f \in Seq(Parts) /\ Len(f) = Len(q) - 1
          /\ SubSeq(q, 1, Len(q)) = Append(f, q[Len(q)])
      <4> DEFINE m == Len(q) - 1
      <4>1. m \in Nat /\ m < Len(q) /\ m + 1 = Len(q)
        BY <3>0
      <4>2. SubSeq(q, 1, m) \in Seq(Parts) /\ Len(SubSeq(q, 1, m)) = m
            /\ SubSeq(q, 1, m + 1) = Append(SubSeq(q, 1, m), q[m + 1])
        BY <2>0, <4>1, OnePartMore
      <4>3. QED
        BY <4>1, <4>2
    <3>2. q = Append(f, q[Len(q)])
      BY <2>0, <3>1, SubSeqFull
    <3>3. f \in Paths
      <4>1. f \in Seq(Parts) /\ Len(f) > 0
        BY <3>0, <3>1
      <4> HIDE DEF f
      <4>2. QED
        BY <4>1 DEF Paths
    <3>4. \A i \in 1..Len(f) : f[i] = q[i]
      BY <2>0, <3>1
    <3>5. f # <<Empty>>
      <4>1. SUFFICES ASSUME f = <<Empty>> PROVE FALSE
        OBVIOUS
      <4> HIDE DEF f
      <4>2a. Len(f) = 1
        BY <4>1
      <4>2. f[1] = Empty
        BY <4>1
      <4>3a. Len(q) = 2
        <5>1. Len(f) = Len(q) - 1
          BY <3>1
        <5>2. Len(q) \in Nat
          BY <2>0
        <5>3. Len(q) - 1 = 1
          BY <4>2a, <5>1, Zenon
        <5>4. QED
          BY <5>2, <5>3
      <4>3. q[1] = Empty
        <5>1. 1 \in 1..Len(f)
          BY <4>2a
        <5>2. QED
          BY <3>4, <4>2, <5>1
      <4>5. q = <<Empty, q[2]>>
        BY <2>0, <4>3a, <4>3, Pair
      <4>6. q[2] \in {Empty, "."}
        BY <2>2, <4>3a
      <4>7. QED
        BY <1>3, <4>5, <4>6 DEF q
    <3>6. QED
      BY <3>1, <3>2, <3>3, <3>4, <3>5
  <2>3. CASE Len(q) > 1 /\ q[Len(q)] = "."
    <3>1. r = f
      BY <2>3 DEF NoEnd, Last, Front
    <3>2. ~(Len(f) > 1 /\ Last(f) = Empty)
      <4>1. SUFFICES ASSUME Len(f) > 1 PROVE Last(f) # Empty
        OBVIOUS
      <4>2. Len(f) \in 2..Len(q) - 1 /\ Len(f) \in 1..Len(f)
        <5>1. Len(f) = Len(q) - 1 /\ Len(q) \in Nat
          BY <2>0, <2>2, <2>3
        <5> HIDE DEF f
        <5>2. QED
          BY <4>1, <5>1
      <4>3. QED
        BY <2>0a, <2>2, <2>3, <4>2 DEF Last
    <3>3. s = f
      BY <2>1, <3>1, <3>2 DEF NoEnd
    <3>4. QED
      BY <2>2, <2>3, <3>3 DEF EndCut, s, q
  <2>4. CASE ~(Len(q) > 1 /\ q[Len(q)] = ".")
    <3>1. r = q
      BY <2>4 DEF NoEnd, Last
    <3>2. CASE Len(q) > 1 /\ q[Len(q)] = Empty
      <4>1. s = f
        BY <2>1, <3>1, <3>2 DEF NoEnd, Last, Front
      <4>2. QED
        BY <2>2, <3>2, <4>1 DEF EndCut, s, q
    <3>3. CASE ~(Len(q) > 1 /\ q[Len(q)] = Empty)
      BY <2>1, <3>1, <3>3 DEF NoEnd, Last, AsKept, s, q
    <3>4. QED
      BY <3>2, <3>3
  <2>5. QED
    BY <2>3, <2>4
<1>4. QED
  BY <1>2, <1>3

LEMMA PathFacts ==
  ASSUME NEW p \in Paths
  PROVE  p \in Seq(Parts) /\ Len(p) \in Nat /\ Len(p) >= 1
  BY DEF Paths

LEMMA OneOrMore ==
  ASSUME NEW p \in Paths
  PROVE  Len(p) = 1 \/ Len(p) > 1
<1> DEFINE N == Len(p)
<1>1. N \in Nat /\ N >= 1
  BY PathFacts
<1> HIDE DEF N
<1>2. N = 1 \/ N > 1
  BY <1>1
<1>3. QED
  BY <1>2 DEF N

LEMMA AbsoluteIs ==
  ASSUME NEW p \in Paths
  PROVE  Absolute(p) <=> p[1] = Empty /\ Len(p) > 1
<1>1. Head(p) = p[1]
  BY DEF Paths
<1>2. QED
  BY <1>1 DEF Absolute

\* A path of one part.
LEMMA OnePart ==
  ASSUME NEW p \in Paths, Len(p) = 1
  PROVE  p = <<p[1]>> /\ p[1] \in Parts
<1> DEFINE e == <<p[1]>>
<1>1. p \in Seq(Parts)
  BY DEF Paths
<1>2. p[1] \in Parts
  BY <1>1
<1>3. e \in Seq(Parts) /\ Len(e) = 1 /\ e[1] = p[1]
  BY <1>2
<1> HIDE DEF e
<1>4. \A i \in 1..1 : p[i] = e[i]
  BY <1>3
<1>5. p = e
  BY <1>1, <1>3, <1>4, SeqEqual
<1>6. QED
  BY <1>2, <1>5 DEF e

\* Two parts that lead back to the root.
LEMMA WalkTwo ==
  ASSUME NEW there, NEW from, NEW a, NEW b
  PROVE  Walk(there, from, <<a, b>>) = Step(there, Step(there, from, a), b)
<1> DEFINE V == {a, b}
           e == <<a>>
<1>1. e \in Seq(V)
  OBVIOUS
<1>2. b \in V
  OBVIOUS
<1>3. Append(e, b) = <<a, b>>
  <2> DEFINE f == Append(e, b)
  <2>1. f \in Seq(V)
    BY <1>1, <1>2, AppendProperties
  <2>2. Len(f) = 2
    OBVIOUS
  <2>3. f[1] = a
    OBVIOUS
  <2>4. f[2] = b
    OBVIOUS
  <2> HIDE DEF f
  <2>5. f = <<f[1], f[2]>>
    BY <2>1, <2>2, Pair
  <2>6. QED
    BY <2>3, <2>4, <2>5, Zenon DEF f
<1>4. Walk(there, from, e) = Step(there, from, a)
  BY WalkOne
<1> HIDE DEF e, V
<1>5. Walk(there, from, Append(e, b)) = Step(there, Walk(there, from, e), b)
  BY <1>1, <1>2, WalkOn
<1>6. QED
  BY <1>3, <1>4, <1>5

LEMMA WalkRoot ==
  ASSUME NEW there, Root \in there, NEW part \in {Empty, ".", ".."}
  PROVE  Walk(there, Root, <<Empty, part>>) = Root
<1>1. Step(there, Root, Empty) = Root
  BY DEF Step
<1>2. Step(there, Root, part) = Root
  BY DEF Step
<1>3. Walk(there, Root, <<Empty, part>>) = Step(there, Step(there, Root, Empty), part)
  BY WalkTwo
<1>4. QED
  BY <1>1, <1>2, <1>3

\* The result is a path that begins where the path begins; only the empty one is empty.
LEMMA RootIsPath ==
  <<Empty, Empty>> \in Paths /\ Absolute(<<Empty, Empty>>) /\ <<Empty, Empty>> # <<Empty>>
<1> DEFINE r == <<Empty, Empty>>
<1>1. Empty \in Parts
  BY DEF Parts
<1>2. r \in Seq(Parts)
  BY <1>1
<1>3. Len(r) = 2
  OBVIOUS
<1>4. Head(r) = Empty
  OBVIOUS
<1>5. r # <<>> /\ r # <<Empty>>
  OBVIOUS
<1> HIDE DEF r
<1>6. r \in Paths
  BY <1>2, <1>5 DEF Paths
<1>7. Absolute(r)
  BY <1>3, <1>4 DEF Absolute
<1>8. QED
  BY <1>5, <1>6, <1>7 DEF r

LEMMA SimpleStart ==
  ASSUME NEW p \in Paths
  PROVE  /\ SimplifyDirectory(p) \in Paths
         /\ Absolute(SimplifyDirectory(p)) <=> Absolute(p)
         /\ SimplifyDirectory(p) = <<Empty>> => p = <<Empty>>
<1> DEFINE s == SimplifyDirectory(p)
           q == Kept(p)
<1>1. p \in Seq(Parts) /\ Len(p) \in Nat /\ Len(p) >= 1
  BY PathFacts
<1>2. q \in Paths
  BY KeptAll
<1>3. q[1] = p[1]
  BY KeptAll
<1>4. Len(p) = 1 => q = p
  BY KeptAll
<1>5. Len(p) > 1 => Len(q) > 1
  BY KeptAll
<1> HIDE DEF s, q
<1>6. q \in Seq(Parts) /\ Len(q) \in Nat /\ Len(q) >= 1
  BY <1>2, PathFacts
<1>7. Len(p) > 1 <=> Len(q) > 1
  <2>1. Len(p) = 1 => ~(Len(q) > 1)
    <3>1. SUFFICES ASSUME Len(p) = 1 PROVE ~(Len(q) > 1)
      OBVIOUS
    <3>2. Len(q) = 1
      BY <1>4, <3>1, Zenon
    <3>3. QED
      BY <3>2
  <2>2. Len(p) = 1 \/ Len(p) > 1
    BY PathFacts, OneOrMore
  <2>3. Len(p) = 1 => ~(Len(p) > 1)
    OBVIOUS
  <2>4. QED
    BY <1>5, <2>1, <2>2, <2>3, Zenon
<1>8. CASE AsRoot(p)
  <2>1. s = <<Empty, Empty>>
    BY <1>8 DEF AsRoot, s
  <2>2. q \in {<<Empty, ".">>, <<Empty, Empty>>, <<Empty, "..">>}
    BY <1>8 DEF AsRoot, q
  <2>3. q[1] = Empty
    BY <2>2
  <2>4. Len(q) = 2
    BY <2>2
  <2>5. Len(q) > 1
    BY <2>4
  <2>6. Absolute(p)
    BY <1>3, <1>7, <2>3, <2>5, AbsoluteIs
  <2>7. QED
    BY <2>1, <2>6, RootIsPath DEF s
<1>9. CASE AsKept(p)
  <2>1. s = q
    BY <1>9 DEF AsKept, s, q
  <2>2. Absolute(q) <=> Absolute(p)
    BY <1>2, <1>3, <1>7, AbsoluteIs
  <2>3. ASSUME q = <<Empty>> PROVE p = <<Empty>>
    <3>1. Len(q) = 1
      BY <2>3
    <3>2. ~(Len(q) > 1)
      BY <3>1
    <3>3. Len(p) = 1
      <4>1. ~(Len(p) > 1)
        BY <1>7, <3>2, Zenon
      <4>2. QED
        BY <4>1, OneOrMore
    <3>4. QED
      BY <1>4, <2>3, <3>3
  <2>4. QED
    BY <1>2, <2>1, <2>2, <2>3 DEF s
<1>10. CASE EndCut(p)
  <2>1. PICK x \in {Empty, "."} : s \in Paths /\ s # <<Empty>> /\ q = Append(s, x)
    BY <1>10 DEF EndCut, s, q
  <2>2. s \in Seq(Parts) /\ Len(s) \in Nat /\ Len(s) >= 1
    BY <2>1, PathFacts
  <2>3. x \in Parts
    BY DEF Parts
  <2>4. Len(Append(s, x)) = Len(s) + 1
    BY <2>2, <2>3, AppendProperties
  <2>5. q[1] = s[1]
    <3>1. \A i \in 1..Len(s) : Append(s, x)[i] = s[i]
      BY <2>2, <2>3, AppendProperties
    <3>2. 1 \in 1..Len(s)
      BY <2>2
    <3>3. QED
      BY <2>1, <3>1, <3>2
  <2>6. Len(p) > 1
    <3>1. Len(q) = Len(s) + 1
      BY <2>1, <2>4
    <3>2. Len(q) > 1
      BY <2>2, <3>1
    <3>3. QED
      BY <1>7, <3>2
  <2>7. s[1] = Empty => Len(s) > 1
    <3>1. Len(s) = 1 => s = <<s[1]>>
      BY <2>1, OnePart
    <3>2. s[1] = Empty => Len(s) # 1
      BY <2>1, <3>1
    <3>3. QED
      BY <2>2, <3>2
  <2>8. Absolute(s) <=> Absolute(p)
    BY <1>3, <2>1, <2>5, <2>6, <2>7, AbsoluteIs
  <2>9. QED
    BY <2>1, <2>8 DEF s
<1>11. QED
  BY <1>8, <1>9, <1>10, SimpleForm

LEMMA SimpleWalk ==
  ASSUME NEW p \in Paths, NEW there \in SUBSET Seq(Names), Root \in there
  PROVE  Alike(there, Walk(there, Start(p), SimplifyDirectory(p)), Walk(there, Start(p), p))
<1> DEFINE s == SimplifyDirectory(p)
           q == Kept(p)
           from == Start(p)
<1>1. p \in Seq(Parts) /\ Len(p) \in Nat /\ SubSeq(p, 1, Len(p)) = p
  BY SubSeqFull DEF Paths
<1>2. Alike(there, Walk(there, from, q), Walk(there, from, p))
  <2> DEFINE n == Len(p)
  <2>1. n \in 0..Len(p) /\ Shortened(p)[n] = q /\ SubSeq(p, 1, n) = p
    BY <1>1 DEF Kept
  <2> HIDE DEF n, q, from
  <2>2. Alike(there, Walk(there, from, Shortened(p)[n]), Walk(there, from, SubSeq(p, 1, n)))
    BY <2>1, KeptWalk DEF from
  <2>3. QED
    BY <2>1, <2>2
<1> SUFFICES Alike(there, Walk(there, from, s), Walk(there, from, q))
  BY <1>2 DEF Alike
<1> HIDE DEF s, q, from
<1>3. CASE AsRoot(p)
  <2>1. s = <<Empty, Empty>> /\ q \in {<<Empty, ".">>, <<Empty, Empty>>, <<Empty, "..">>}
    BY <1>3 DEF AsRoot, s, q
  <2>2. from = Root
    <3>1. Absolute(s)
      BY <2>1, RootIsPath
    <3>2. QED
      BY <3>1, SimpleStart DEF from, Start, s
  <2>3. Walk(there, from, s) = Root /\ Walk(there, from, q) = Root
    BY <2>1, <2>2, WalkRoot
  <2>4. QED
    BY <2>3 DEF Alike
<1>4. CASE AsKept(p)
  BY <1>4 DEF AsKept, Alike, s, q
<1>5. CASE EndCut(p)
  <2>1. PICK x \in {Empty, "."} : s \in Paths /\ q = Append(s, x)
    BY <1>5 DEF EndCut, s, q
  <2>2. s \in Seq(Parts)
    BY <2>1, PathFacts
  <2>2a. x \in Parts
    BY DEF Parts
  <2>3. Walk(there, from, Append(s, x)) = Step(there, Walk(there, from, s), x)
    BY <2>2, <2>2a, WalkOn
  <2>4. Walk(there, from, q) = Step(there, Walk(there, from, s), x)
    BY <2>1, <2>3
  <2>5. QED
    BY <2>4, NoDirIsNone DEF Step, Alike
<1>6. QED
  BY <1>3, <1>4, <1>5, SimpleForm

LEMMA SimpleEmpty == SimplifyDirectory(<<Empty>>) = <<Empty>>
<1> DEFINE p == <<Empty>>
<1>1. p \in Seq({Empty}) /\ p # <<>>
  OBVIOUS
<1>2. p \in Paths
  BY DEF Paths, Parts
<1>3. Len(p) = 1
  OBVIOUS
<1> HIDE DEF p
<1>4. Kept(p) = p
  BY <1>2, <1>3, KeptAll
<1>5. p \notin {<<Empty, ".">>, <<Empty, Empty>>, <<Empty, "..">>}
  BY DEF p
<1>6. NoEnd(p, ".") = p /\ NoEnd(p, Empty) = p
  BY <1>3 DEF NoEnd
<1>7. SimplifyDirectory(p) = p
  BY <1>4, <1>5, <1>6 DEF SimplifyDirectory, Kept
<1>8. QED
  BY <1>7 DEF p

\* simplifyDirectory() may be trusted: what it makes of a path, of any length, leads where
\* the path leads, or both lead to no directory.
THEOREM SimplifyKeepsPlace ==
  ASSUME NEW p \in Paths, NEW there \in SUBSET Seq(Names), Root \in there
  PROVE  /\ PlaceIn(there, SimplifyDirectory(p)) \in there <=> PlaceIn(there, p) \in there
         /\ PlaceIn(there, p) \in there =>
              PlaceIn(there, SimplifyDirectory(p)) = PlaceIn(there, p)
<1> DEFINE s == SimplifyDirectory(p)
<1>1. CASE p = <<Empty>>
  BY <1>1, SimpleEmpty
<1>2. CASE p # <<Empty>>
  <2>1. s # <<Empty>> /\ Start(s) = Start(p)
    BY <1>2, SimpleStart DEF Start
  <2> HIDE DEF s
  <2>2. PlaceIn(there, s) = Walk(there, Start(p), s)
    BY <2>1 DEF PlaceIn
  <2>3. PlaceIn(there, p) = Walk(there, Start(p), p)
    BY <1>2 DEF PlaceIn
  <2>4. Alike(there, PlaceIn(there, s), PlaceIn(there, p))
    BY <2>2, <2>3, SimpleWalk DEF s
  <2>5. QED
    BY <2>4 DEF Alike, s
<1>3. QED
  BY <1>1, <1>2
-----------------------------------------------------------------------------
\* The levels of a path: what makeDir() is called for.
First(p) == IF Absolute(p) THEN 2 ELSE 1
Level(there, p, k) == PlaceIn(there, SubSeq(p, 1, k))

LEMMA FirstIn ==
  ASSUME NEW p \in Paths
  PROVE  First(p) \in 1..Len(p)
<1>1. Absolute(p) => Len(p) > 1
  BY AbsoluteIs
<1>2. QED
  BY <1>1, PathFacts DEF First

LEMMA LevelIs ==
  ASSUME NEW p \in Paths, p # <<Empty>>, NEW there, NEW k \in First(p)..Len(p)
  PROVE  /\ SubSeq(p, 1, k) \in Paths
         /\ Level(there, p, k) = Walk(there, Start(p), SubSeq(p, 1, k))
<1> DEFINE r == SubSeq(p, 1, k)
           N == Len(p)
<1>1. p \in Seq(Parts) /\ N \in Nat /\ N >= 1 /\ First(p) \in 1..N
  BY PathFacts, FirstIn
<1> HIDE DEF N
<1>2. k \in Nat /\ k >= 1 /\ k <= N
  BY <1>1 DEF N
<1>3. r \in Seq(Parts) /\ Len(r) = k /\ \A i \in 1..k : r[i] = p[i]
  <2>1. \A i \in 1..k : p[i] \in Parts
    BY <1>1, <1>2 DEF N
  <2>2. QED
    BY <1>2, <2>1, SubSeqProperties
<1> HIDE DEF r
<1>4. r \in Paths
  <2>1. Len(r) # 0
    BY <1>2, <1>3
  <2>2. r # <<>>
    BY <2>1
  <2>3. QED
    BY <1>3, <2>2 DEF Paths
<1>5. r[1] = p[1]
  BY <1>2, <1>3
<1>6. Absolute(p) => k > 1
  <2>1. SUFFICES ASSUME Absolute(p) PROVE k > 1
    OBVIOUS
  <2>2. First(p) = 2
    BY <2>1 DEF First
  <2>3. k \in 2..N
    BY <2>2 DEF N
  <2>4. QED
    BY <2>3
<1>7. k > 1 => N > 1
  BY <1>1, <1>2
<1>8. Absolute(r) <=> Absolute(p)
  <2>1. Absolute(r) <=> r[1] = Empty /\ k > 1
    BY <1>3, <1>4, AbsoluteIs
  <2>2. Absolute(p) <=> p[1] = Empty /\ N > 1
    BY AbsoluteIs DEF N
  <2>3. QED
    BY <1>5, <1>6, <1>7, <2>1, <2>2
<1>9. r # <<Empty>>
  <2>1. SUFFICES ASSUME r = <<Empty>> PROVE FALSE
    OBVIOUS
  <2>2. k = 1 /\ p[1] = Empty
    <3>1. Len(r) = 1
      BY <2>1
    <3>2. r[1] = Empty
      BY <2>1
    <3>3. QED
      BY <1>3, <1>5, <3>1, <3>2, Zenon
  <2>3. ~(k > 1)
    BY <2>2
  <2>4. ~Absolute(p)
    BY <1>6, <2>3
  <2>5. ~(N > 1)
    BY <2>2, <2>4, AbsoluteIs DEF N
  <2>6. Len(p) = 1
    BY <2>5, OneOrMore DEF N
  <2>7. p = <<p[1]>>
    BY <2>6, OnePart
  <2>8. QED
    BY <2>2, <2>7
<1>10. Level(there, p, k) = Walk(there, Start(p), r)
  BY <1>8, <1>9 DEF Level, PlaceIn, Start, r
<1>11. QED
  BY <1>4, <1>10 DEF r

LEMMA LevelNext ==
  ASSUME NEW p \in Paths, p # <<Empty>>, NEW there,
         NEW k \in First(p)..Len(p), k # Len(p)
  PROVE  /\ k + 1 \in First(p)..Len(p) /\ p[k + 1] \in Parts
         /\ Level(there, p, k + 1) = Step(there, Level(there, p, k), p[k + 1])
<1> DEFINE N == Len(p)
           q == SubSeq(p, 1, k)
           x == p[k + 1]
<1>1. p \in Seq(Parts) /\ N \in Nat /\ First(p) \in 1..N
  BY PathFacts, FirstIn
<1>2. k \in Nat /\ k < N /\ k + 1 \in First(p)..N
  <2> HIDE DEF N
  <2>1. k \in First(p)..N /\ k # N
    BY DEF N
  <2>2. QED
    BY <1>1, <2>1
<1>3. q \in Seq(Parts) /\ x \in Parts /\ SubSeq(p, 1, k + 1) = Append(q, x)
  BY <1>1, <1>2, OnePartMore
<1>4. Level(there, p, k + 1) = Walk(there, Start(p), Append(q, x))
  BY <1>2, <1>3, LevelIs
<1>5. Level(there, p, k) = Walk(there, Start(p), q)
  BY LevelIs
<1> HIDE DEF q, x
<1>6. Walk(there, Start(p), Append(q, x)) = Step(there, Walk(there, Start(p), q), x)
  BY <1>3, WalkOn
<1>7. QED
  BY <1>2, <1>3, <1>4, <1>5, <1>6 DEF x

LEMMA LevelLast ==
  ASSUME NEW p \in Paths, NEW there
  PROVE  Level(there, p, Len(p)) = PlaceIn(there, p)
  BY PathFacts, SubSeqFull DEF Level

LEMMA LevelFirst ==
  ASSUME NEW p \in Paths, p # <<Empty>>, NEW there \in SUBSET Seq(Names),
         Root \in there, Cwd \in there
  PROVE  Level(there, p, First(p)) # NoDir
<1> DEFINE k == First(p)
           r == SubSeq(p, 1, k)
<1>1. p \in Seq(Parts) /\ k \in 1..Len(p)
  BY PathFacts, FirstIn
<1>2. k \in First(p)..Len(p)
  BY <1>1
<1>3. Level(there, p, k) = Walk(there, Start(p), r)
  BY <1>2, LevelIs
<1>4. r \in Seq(Parts) /\ Len(r) = k /\ \A i \in 1..k : r[i] = p[i]
  <2> HIDE DEF k
  <2>1. \A i \in 1..k : p[i] \in Parts
    BY <1>1
  <2>2. k \in Int /\ 1 <= k
    BY <1>1
  <2>3. QED
    BY <2>1, <2>2, SubSeqProperties
<1>5. CASE Absolute(p)
  <2>1. k = 2
    BY <1>5 DEF First
  <2> HIDE DEF k, r
  <2>2. r[1] = Empty
    BY <1>4, <1>5, <2>1, AbsoluteIs
  <2>3. r = <<Empty, r[2]>>
    BY <1>4, <2>1, <2>2, Pair
  <2>4. r[2] \in Parts
    BY <1>4, <2>1, Pair
  <2>5. Start(p) = Root /\ Step(there, Root, Empty) = Root
    BY <1>5 DEF Start, Step
  <2>6. Walk(there, Start(p), r) = Step(there, Root, r[2])
    BY <2>3, <2>5, WalkTwo
  <2>7. QED
    BY <1>3, <2>4, <2>6, StepSome, NoDirIsNone DEF k
<1>6. CASE ~Absolute(p)
  <2>1. k = 1
    BY <1>6 DEF First
  <2>2. r \in Paths
    BY <1>2, LevelIs
  <2> HIDE DEF k, r
  <2>3. r = <<r[1]>>
    BY <1>4, <2>1, <2>2, OnePart
  <2>4. r[1] \in Parts
    BY <1>4, <2>1, <2>2, OnePart
  <2>5. Walk(there, Start(p), r) = Step(there, Cwd, r[1])
    BY <1>6, <2>3, WalkOne DEF Start
  <2>6. QED
    BY <1>3, <2>4, <2>5, StepSome, NoDirIsNone DEF k
<1>7. QED
  BY <1>5, <1>6

LEMMA LevelGrows ==
  ASSUME NEW p \in Paths, p # <<Empty>>, NEW k \in First(p)..Len(p),
         NEW there \in SUBSET Seq(Names), NEW more, there \subseteq more,
         Level(there, p, k) # NoDir
  PROVE  Level(more, p, k) = Level(there, p, k)
<1> DEFINE r == SubSeq(p, 1, k)
<1>1. r \in Paths
  BY LevelIs
<1>2. r \in Seq(Parts)
  BY <1>1, PathFacts
<1>3. Level(there, p, k) = Walk(there, Start(p), r) /\ Level(more, p, k) = Walk(more, Start(p), r)
  BY LevelIs
<1> HIDE DEF r
<1>4. QED
  BY <1>2, <1>3, WalkGrows

LEMMA PlaceGrows ==
  ASSUME NEW p \in Seq(Parts),
         NEW there \in SUBSET Seq(Names), NEW more, there \subseteq more,
         PlaceIn(there, p) # NoDir
  PROVE  PlaceIn(more, p) = PlaceIn(there, p)
<1>1. p # <<Empty>>
  BY DEF PlaceIn
<1>2. PlaceIn(there, p) = Walk(there, Start(p), p) /\ PlaceIn(more, p) = Walk(more, Start(p), p)
  BY <1>1 DEF PlaceIn
<1>3. QED
  BY <1>2, WalkGrows

\* makeDirRecursive() is never asked to make a directory that the path does not go through.
LEMMA LevelFrom ==
  ASSUME NEW p \in Paths, NEW there \in SUBSET Seq(Names), Root \in there,
         SimplifyDirectory(p) # <<Empty>>,
         NEW k \in First(SimplifyDirectory(p))..Len(SimplifyDirectory(p)),
         Level(there, SimplifyDirectory(p), k) \notin there
  PROVE  \E m \in 1..Len(p) : Level(there, SimplifyDirectory(p), k) = Level(there, p, m)
<1> DEFINE s == SimplifyDirectory(p)
           q == Kept(p)
           N == Len(p)
<1>1. s \in Paths /\ (Absolute(s) <=> Absolute(p)) /\ p # <<Empty>>
  BY SimpleStart, SimpleEmpty
<1>2. First(s) = First(p) /\ Start(s) = Start(p)
  BY <1>1 DEF First, Start
<1>3. q \in Paths
  BY KeptAll
<1> HIDE DEF s, q, N
<1>4. Level(there, s, k) = Walk(there, Start(p), SubSeq(s, 1, k))
  BY <1>1, <1>2, LevelIs DEF s
<1>5. k \in Nat /\ k >= First(p) /\ k <= Len(s) /\ k >= 1 /\ Len(s) \in Nat
  <2>1. Len(s) \in Nat /\ First(s) \in 1..Len(s) /\ k \in First(s)..Len(s)
    BY <1>1, PathFacts, FirstIn DEF s
  <2>2. QED
    BY <1>2, <2>1
<1>6. ASSUME KeptAt(there, p, SubSeq(s, 1, k))
      PROVE  \E m \in 1..Len(p) : Level(there, s, k) = Level(there, p, m)
  <2>1. PICK m \in 1..N : /\ Shortened(p)[m] = SubSeq(s, 1, k)
                          /\ Walk(there, Start(p), SubSeq(s, 1, k))
                               = Walk(there, Start(p), SubSeq(p, 1, m))
    BY <1>6 DEF KeptAt, N
  <2>2. Len(SubSeq(s, 1, k)) = k
    <3>1. s \in Seq(Parts)
      BY <1>1, PathFacts
    <3>2. \A i \in 1..k : s[i] \in Parts
      BY <1>5, <3>1
    <3>3. QED
      BY <1>5, <3>2, SubSeqProperties
  <2>3. N \in Nat
    BY PathFacts DEF N
  <2>4. m \in 0..N
    BY <2>1, <2>3
  <2>5. Len(Shortened(p)[m]) <= m
    BY <2>4, KeptShape DEF ShapeAt, N
  <2>6. k <= m
    BY <2>1, <2>2, <2>5
  <2>7. First(p) \in 1..N
    BY FirstIn DEF N
  <2>8. m \in First(p)..N
    BY <1>5, <2>1, <2>3, <2>6, <2>7
  <2>9. Level(there, p, m) = Walk(there, Start(p), SubSeq(p, 1, m))
    BY <1>1, <2>8, LevelIs DEF N
  <2>10. QED
    BY <1>4, <2>1, <2>9 DEF N
<1>7. \A i \in 1..Len(q) : KeptAt(there, p, SubSeq(q, 1, i))
  BY KeptFrom DEF Kept, q
<1>8. CASE AsRoot(p)
  <2>1. s = <<Empty, Empty>>
    BY <1>8 DEF AsRoot, s
  <2>2. Absolute(s) /\ Len(s) = 2
    BY <2>1, RootIsPath
  <2>3. First(p) = 2 /\ Start(p) = Root
    BY <1>2, <2>2 DEF First, Start
  <2>4. k = 2
    BY <1>5, <2>2, <2>3
  <2>5. SubSeq(s, 1, k) = s
    BY <1>1, <2>2, <2>4, PathFacts, SubSeqFull
  <2>6. Walk(there, Root, <<Empty, Empty>>) = Root
    BY WalkRoot
  <2>7. Level(there, s, k) = Root
    BY <1>4, <2>1, <2>3, <2>5, <2>6
  <2>8. QED
    BY <2>7 DEF s
<1>9. CASE AsKept(p)
  <2>1. s = q
    BY <1>9 DEF AsKept, s, q
  <2>2. KeptAt(there, p, SubSeq(s, 1, k))
    BY <1>5, <1>7, <2>1
  <2>3. QED
    BY <1>6, <2>2 DEF s
<1>10. CASE EndCut(p)
  <2>1. PICK x \in {Empty, "."} : q = Append(s, x)
    BY <1>10 DEF EndCut, s, q
  <2>2. s \in Seq(Parts) /\ x \in Parts
    BY <1>1, PathFacts DEF Parts
  <2>3. Len(q) = Len(s) + 1
    BY <2>1, <2>2, AppendProperties
  <2>4. k \in 1..Len(q)
    BY <1>5, <2>3
  <2>5. SubSeq(q, 1, k) = SubSeq(s, 1, k)
    BY <1>5, <2>1, <2>2
  <2>6. KeptAt(there, p, SubSeq(s, 1, k))
    BY <1>7, <2>4, <2>5
  <2>7. QED
    BY <1>6, <2>6 DEF s
<1>11. QED
  BY <1>8, <1>9, <1>10, SimpleForm

LEMMA PlaceType ==
  ASSUME NEW p \in Paths, NEW there \in SUBSET Seq(Names)
  PROVE  PlaceIn(there, p) \in Places
<1> DEFINE n == Len(p) - 1
           q == SubSeq(p, 1, n)
           x == p[n + 1]
<1>1. p \in Seq(Parts) /\ n \in Nat /\ n < Len(p) /\ n + 1 = Len(p)
  BY PathFacts
<1> HIDE DEF n
<1>2. q \in Seq(Parts) /\ x \in Parts /\ SubSeq(p, 1, n + 1) = Append(q, x)
  BY <1>1, OnePartMore
<1>3. p = Append(q, x)
  BY <1>1, <1>2, SubSeqFull
<1> HIDE DEF q, x
<1>4. Walk(there, Start(p), p) = Step(there, Walk(there, Start(p), q), x)
  BY <1>2, <1>3, WalkOn
<1>5. Walk(there, Start(p), p) \in Places
  BY <1>2, <1>4, StepType
<1>6. QED
  BY <1>5 DEF PlaceIn, Places

LEMMA LevelType ==
  ASSUME NEW p \in Paths, NEW there \in SUBSET Seq(Names), NEW k \in 1..Len(p)
  PROVE  SubSeq(p, 1, k) \in Paths /\ Level(there, p, k) \in Places
<1> DEFINE r == SubSeq(p, 1, k)
<1>1. p \in Seq(Parts) /\ k \in Int /\ 1 <= k
  BY PathFacts
<1>2. \A i \in 1..k : p[i] \in Parts
  BY <1>1
<1>3. r \in Seq(Parts) /\ Len(r) = k
  BY <1>1, <1>2, SubSeqProperties
<1> HIDE DEF r
<1>4. Len(r) # 0
  BY <1>1, <1>3
<1>5. r # <<>>
  BY <1>4
<1>6. r \in Paths
  BY <1>3, <1>5 DEF Paths
<1>7. QED
  BY <1>6, PlaceType DEF r, Level

\* The level of the path "": makeDir() is called for it and fails.
LEMMA LevelOfNone ==
  ASSUME NEW there, NEW k \in 1..Len(<<Empty>>)
  PROVE  Level(there, <<Empty>>, k) = NoDir
<1> DEFINE e == <<Empty>>
<1>1. Len(e) = 1
  OBVIOUS
<1>2. k = 1
  BY <1>1
<1>3. SubSeq(e, 1, 1) = e
  <2>1. e \in Seq({Empty})
    OBVIOUS
  <2>2. QED
    BY <1>1, <2>1, SubSeqFull
<1>4. QED
  BY <1>2, <1>3 DEF Level, PlaceIn

\* Where roll() will open its file: in the directory that was asked for.
LEMMA FileIn ==
  ASSUME NEW p \in Paths, NEW there \in SUBSET Seq(Names), PlaceIn(there, p) \in there
  PROVE  PlaceIn(there, ExtractFilePath(Append(p, LogFile))) = PlaceIn(there, p)
<1> DEFINE V == Parts \cup {LogFile}
           f == Append(p, LogFile)
           e == Append(p, Empty)
<1>1. p \in Seq(Parts) /\ Len(p) \in Nat /\ Len(p) >= 1
  BY PathFacts
<1>2. p # <<Empty>>
  BY NoDirIsNone DEF PlaceIn
<1>3. p \in Seq(V) /\ LogFile \in V
  BY <1>1
<1>4. Len(f) = Len(p) + 1
  BY <1>3, AppendProperties
<1>5. Front(f) = p
  <2>1. Front(f) = SubSeq(f, 1, Len(p))
    BY <1>1, <1>4 DEF Front
  <2>2. \A i \in 1..Len(p) : f[i] \in Parts /\ f[i] = p[i]
    BY <1>1
  <2> DEFINE g == SubSeq(f, 1, Len(p))
  <2>3. g \in Seq(Parts) /\ Len(g) = Len(p) /\ \A i \in 1..Len(p) : g[i] = p[i]
    <3>1. 1 \in Int /\ Len(p) \in Int /\ 1 <= Len(p)
      BY <1>1
    <3> HIDE DEF f
    <3>2. QED
      BY <2>2, <3>1, SubSeqProperties
  <2> HIDE DEF g
  <2>4. g = p
    BY <1>1, <2>3, SeqEqual
  <2>5. QED
    BY <2>1, <2>4 DEF g
<1>6. ExtractFilePath(f) = e
  <2> HIDE DEF f
  <2>1. Len(f) # 1
    BY <1>1, <1>4
  <2>2. QED
    BY <1>5, <2>1 DEF ExtractFilePath
<1>7. Empty \in Parts
  BY DEF Parts
<1>8. e \in Seq(Parts) /\ Len(e) = Len(p) + 1 /\ e[1] = p[1]
  <2>1. e \in Seq(Parts) /\ Len(e) = Len(p) + 1 /\ \A i \in 1..Len(p) : e[i] = p[i]
    BY <1>1, <1>7, AppendProperties
  <2>2. 1 \in 1..Len(p)
    BY <1>1
  <2>3. QED
    BY <2>1, <2>2
<1> HIDE DEF e
<1>9. Len(e) > 1
  BY <1>1, <1>8
<1>10. e \in Paths /\ e # <<Empty>>
  <2>1. e # <<>>
    <3>1. SUFFICES ASSUME e = <<>> PROVE FALSE
      OBVIOUS
    <3>2. Len(e) = 0
      BY <3>1
    <3>3. QED
      BY <1>9, <3>2
  <2>2. e # <<Empty>>
    <3>1. SUFFICES ASSUME e = <<Empty>> PROVE FALSE
      OBVIOUS
    <3>2. Len(e) = 1
      BY <3>1
    <3>3. QED
      BY <1>9, <3>2
  <2>3. QED
    BY <1>8, <2>1, <2>2 DEF Paths
<1>11. Start(e) = Start(p)
  <2>1. Absolute(e) <=> p[1] = Empty
    BY <1>8, <1>9, <1>10, AbsoluteIs
  <2>2. p[1] = Empty => Len(p) # 1
    BY <1>2, OnePart
  <2>3. Absolute(p) <=> p[1] = Empty
    BY <2>2, AbsoluteIs, OneOrMore
  <2>4. QED
    BY <2>1, <2>3 DEF Start
<1>12. Walk(there, Start(p), Append(p, Empty)) = Step(there, Walk(there, Start(p), p), Empty)
  BY <1>1, <1>7, WalkOn
<1>13. PlaceIn(there, e) = Step(there, Walk(there, Start(p), p), Empty)
  BY <1>10, <1>11, <1>12 DEF PlaceIn, e
<1>14. PlaceIn(there, p) = Walk(there, Start(p), p)
  BY <1>2 DEF PlaceIn
<1>15. QED
  BY <1>6, <1>13, <1>14 DEF Step
-----------------------------------------------------------------------------
\* The invariant.  Its first part is about types, and no directory above the working
\* directory goes.
DirTypeOK ==
  /\ dirs \in SUBSET Seq(Names) /\ Root \in dirs /\ Cwd \in dirs /\ Prefixes(Cwd) \subseteq dirs
  /\ path \in [Creators -> Paths] /\ simple \in [Creators -> Paths]
  /\ pos \in [Creators -> Nat]
  /\ phase \in [Creators -> {"out", "mkdir", "stat", "true", "false"}]

\* What a call has come to, ...
Calling(c) ==
  /\ phase[c] = "out" => path[c] = <<Empty>>
  /\ phase[c] # "out" =>
       simple[c] = SimplifyDirectory(path[c]) /\ pos[c] \in First(simple[c])..Len(simple[c])

\* ... the levels it has behind it, which are there if nobody has removed one and nothing
\* passes for one, ...
NoSocket == "socket" \notin {others[d] : d \in DOMAIN others}
Behind(c) ==
  removed = {} /\ NoSocket =>
    /\ \A k \in First(simple[c])..Len(simple[c]) :
         phase[c] # "out" /\ k < pos[c] => Level(dirs, simple[c], k) \in dirs
    /\ phase[c] = "true" => PlaceIn(dirs, simple[c]) \in dirs

\* ... what it found where it wanted to make a directory, ...
Found(c) ==
  phase[c] = "stat" /\ removed = {} /\ DOMAIN others = {} => Target(c) \in dirs

\* ... and why it failed.
Excused(c) ==
  phase[c] = "false" =>
    path[c] = <<Empty>> \/ c \in refused \/ removed # {} \/ DOMAIN others # {}

CallInv(c) == Calling(c) /\ Behind(c) /\ Found(c) /\ Excused(c)

\* A directory is above the working directory or a level of a path that was asked for.
OnWay(d) ==
  \/ d \in Prefixes(Cwd)
  \/ \E c \in Creators : \E m \in 1..Len(path[c]) : d = Level(dirs, path[c], m)
AllOnWay == removed = {} => \A d \in dirs : OnWay(d)

DirInv == DirTypeOK /\ (\A c \in Creators : CallInv(c)) /\ AllOnWay
-----------------------------------------------------------------------------
\* At the start there is nothing but the working directory and what is above it.
LEMMA DirInit == Init => DirInv
<1> SUFFICES ASSUME Init PROVE DirInv
  OBVIOUS
<1>1. Cwd \in Seq(Names) /\ Len(Cwd) \in Nat
  BY DirectoriesAssumption
<1>2. <<Empty>> \in Paths
  <2>1. <<Empty>> # <<>>
    OBVIOUS
  <2>2. Empty \in Parts
    BY DEF Parts
  <2>3. QED
    BY <2>1, <2>2 DEF Paths
<1>3. \A l \in 0..Len(Cwd) : SubSeq(Cwd, 1, l) \in Seq(Names)
  <2>1. SUFFICES ASSUME NEW l \in 0..Len(Cwd) PROVE SubSeq(Cwd, 1, l) \in Seq(Names)
    OBVIOUS
  <2>2. \A i \in 1..l : Cwd[i] \in Names
    BY <1>1
  <2>3. QED
    BY <1>1, <2>2, SubSeqProperties
<1>4. dirs \in SUBSET Seq(Names) /\ Prefixes(Cwd) \subseteq dirs
  BY <1>3 DEF Init, Prefixes
<1>5. Root \in dirs /\ Cwd \in dirs
  <2>1. SubSeq(Cwd, 1, 0) = Root /\ SubSeq(Cwd, 1, Len(Cwd)) = Cwd
    BY <1>1, SubSeqEmpty, SubSeqFull DEF Root
  <2>2. 0 \in 0..Len(Cwd) /\ Len(Cwd) \in 0..Len(Cwd)
    BY <1>1
  <2>3. QED
    BY <2>1, <2>2 DEF Init, Prefixes
<1>6. DirTypeOK
  BY <1>2, <1>4, <1>5 DEF Init, DirTypeOK
<1>7. ASSUME NEW c \in Creators PROVE CallInv(c)
  BY DEF Init, CallInv, Calling, Behind, Found, Excused
<1>8. AllOnWay
  BY DEF Init, AllOnWay, OnWay
<1>9. QED
  BY <1>6, <1>7, <1>8 DEF DirInv
-----------------------------------------------------------------------------
\* What a call needs of the others: they make directories, but none goes unseen.
LEMMA CallKept ==
  ASSUME DirTypeOK, NEW c \in Creators, CallInv(c),
         path'[c] = path[c], simple'[c] = simple[c], pos'[c] = pos[c], phase'[c] = phase[c],
         removed \subseteq removed', refused \subseteq refused',
         removed' = {} => dirs \subseteq dirs',
         NoSocket' => NoSocket, DOMAIN others' = {} => DOMAIN others = {}
  PROVE  CallInv(c)'
<1> DEFINE s == simple[c]
<1>1. s \in Paths /\ s \in Seq(Parts)
  BY PathFacts DEF DirTypeOK
<1>2. Calling(c)'
  BY DEF CallInv, Calling
<1>3. Excused(c)'
  BY DEF CallInv, Excused
<1>4. ASSUME NEW q \in Paths, removed' = {}, PlaceIn(dirs, q) \in dirs
      PROVE  PlaceIn(dirs', q) \in dirs'
  <2>1. PlaceIn(dirs, q) # NoDir /\ q \in Seq(Parts)
    BY <1>4, NoDirIsNone, PathFacts DEF DirTypeOK
  <2>2. PlaceIn(dirs', q) = PlaceIn(dirs, q)
    BY <1>4, <2>1, PlaceGrows DEF DirTypeOK
  <2>3. QED
    BY <1>4, <2>2
<1>5. Len(s) \in Nat /\ First(s) \in 1..Len(s)
  BY <1>1, FirstIn
<1>6. \A k \in First(s)..Len(s) : k \in 1..Len(s)
  BY <1>5
<1>7. Behind(c)'
  <2> SUFFICES ASSUME removed' = {}, NoSocket'
               PROVE  /\ \A k \in First(s)..Len(s) :
                           phase[c] # "out" /\ k < pos[c] => Level(dirs', s, k) \in dirs'
                      /\ phase[c] = "true" => PlaceIn(dirs', s) \in dirs'
    BY DEF Behind
  <2>1. removed = {} /\ NoSocket
    OBVIOUS
  <2>2. ASSUME NEW k \in First(s)..Len(s), phase[c] # "out", k < pos[c]
        PROVE  Level(dirs', s, k) \in dirs'
    <3>1. Level(dirs, s, k) \in dirs
      BY <2>1, <2>2 DEF CallInv, Behind
    <3>2. SubSeq(s, 1, k) \in Paths
      BY <1>1, <1>6, LevelType DEF DirTypeOK
    <3>3. QED
      BY <1>4, <3>1, <3>2 DEF Level
  <2>3. ASSUME phase[c] = "true" PROVE PlaceIn(dirs', s) \in dirs'
    <3>1. PlaceIn(dirs, s) \in dirs
      BY <2>1, <2>3 DEF CallInv, Behind
    <3>2. QED
      BY <1>1, <1>4, <3>1
  <2>4. QED
    BY <2>2, <2>3
<1>8. Found(c)'
  <2> SUFFICES ASSUME phase[c] = "stat", removed' = {}, DOMAIN others' = {}
               PROVE  Level(dirs', s, pos[c]) \in dirs'
    BY DEF Found, Target, Place, Level
  <2>1. Level(dirs, s, pos[c]) \in dirs
    BY DEF CallInv, Found, Target, Place, Level
  <2>2. pos[c] \in 1..Len(s)
    BY <1>6 DEF CallInv, Calling
  <2>3. SubSeq(s, 1, pos[c]) \in Paths
    BY <1>1, <2>2, LevelType DEF DirTypeOK
  <2>4. QED
    BY <1>4, <2>1, <2>3 DEF Level
<1>9. QED
  BY <1>2, <1>3, <1>7, <1>8 DEF CallInv

\* A level that is there lets the call go on to the next, ...
LEMMA LevelDone ==
  ASSUME DirTypeOK, NEW c \in Creators, CallInv(c), phase[c] \in {"mkdir", "stat"},
         NextLevel(c), UNCHANGED <<others, path, simple, removed, refused>>,
         dirs \subseteq dirs',
         removed = {} /\ NoSocket => Target(c) \in dirs' /\ Target(c) # NoDir
  PROVE  CallInv(c)'
<1> DEFINE s == simple[c]
           k0 == pos[c]
<1>1. s \in Paths /\ s \in Seq(Parts) /\ Len(s) \in Nat /\ First(s) \in 1..Len(s)
  BY PathFacts, FirstIn DEF DirTypeOK
<1>2. k0 \in First(s)..Len(s) /\ s = SimplifyDirectory(path[c])
  BY DEF CallInv, Calling
<1>3. pos' = [pos EXCEPT ![c] = IF k0 = Len(s) THEN k0 ELSE k0 + 1]
  BY DEF NextLevel
<1>4. phase' = [phase EXCEPT ![c] = IF k0 = Len(s) THEN "true" ELSE "mkdir"]
  BY DEF NextLevel
<1>5. pos'[c] = IF k0 = Len(s) THEN k0 ELSE k0 + 1
  BY <1>3 DEF DirTypeOK
<1>6. phase'[c] = IF k0 = Len(s) THEN "true" ELSE "mkdir"
  BY <1>4 DEF DirTypeOK
<1>7. simple'[c] = s /\ path'[c] = path[c]
  OBVIOUS
<1> HIDE DEF s, k0
<1>8. pos'[c] \in First(s)..Len(s)
  BY <1>1, <1>2, <1>5
<1>9. Calling(c)'
  BY <1>2, <1>6, <1>7, <1>8 DEF Calling
<1>10. Found(c)' /\ Excused(c)'
  BY <1>6 DEF Found, Excused
<1>11. ASSUME NEW q \in Paths, PlaceIn(dirs, q) # NoDir
       PROVE  PlaceIn(dirs', q) = PlaceIn(dirs, q)
  BY <1>11, PlaceGrows, PathFacts DEF DirTypeOK
<1>12. ASSUME removed = {}, NoSocket, NEW k \in First(s)..Len(s), k < k0 \/ k = k0
       PROVE  Level(dirs', s, k) \in dirs'
  <2>1. Level(dirs, s, k) \in dirs' /\ Level(dirs, s, k) # NoDir
    <3>1. CASE k = k0
      BY <1>12, <3>1 DEF Target, Place, Level, s, k0
    <3>2. CASE k < k0
      <4>1. Level(dirs, s, k) \in dirs
        BY <1>12, <3>2 DEF CallInv, Behind, s, k0
      <4>2. QED
        BY <4>1, NoDirIsNone DEF DirTypeOK
    <3>3. QED
      BY <1>12, <3>1, <3>2
  <2>2. k \in 1..Len(s)
    BY <1>1
  <2>3. SubSeq(s, 1, k) \in Paths
    BY <1>1, <2>2, LevelType DEF DirTypeOK
  <2>4. QED
    BY <1>11, <2>1, <2>3 DEF Level
<1>13. Behind(c)'
  <2> SUFFICES ASSUME removed = {}, NoSocket
               PROVE  /\ \A k \in First(s)..Len(s) :
                           k < pos'[c] => Level(dirs', s, k) \in dirs'
                      /\ phase'[c] = "true" => PlaceIn(dirs', s) \in dirs'
    BY <1>7 DEF Behind, NoSocket
  <2>1. ASSUME NEW k \in First(s)..Len(s), k < pos'[c] PROVE Level(dirs', s, k) \in dirs'
    <3>1. k < k0 \/ k = k0
      BY <1>1, <1>2, <1>5, <2>1
    <3>2. QED
      BY <1>12, <3>1
  <2>2. ASSUME phase'[c] = "true" PROVE PlaceIn(dirs', s) \in dirs'
    <3>1. k0 = Len(s)
      BY <1>6, <2>2
    <3>2. Level(dirs', s, Len(s)) \in dirs'
      BY <1>2, <1>12, <3>1
    <3>3. Level(dirs', s, Len(s)) = PlaceIn(dirs', s)
      BY <1>1, LevelLast
    <3>4. QED
      BY <3>2, <3>3
  <2>3. QED
    BY <2>1, <2>2
<1>14. QED
  BY <1>9, <1>10, <1>13 DEF CallInv

\* ... and one that is not ends it, for a reason.
LEMMA LevelFailed ==
  ASSUME DirTypeOK, NEW c \in Creators, CallInv(c), phase[c] \in {"mkdir", "stat"},
         GiveUp(c), UNCHANGED <<dirs, others, path, simple, removed>>,
         \/ path[c] = <<Empty>> \/ c \in refused' \/ removed # {} \/ DOMAIN others # {}
  PROVE  CallInv(c)'
<1>1. phase'[c] = "false" /\ pos' = pos
  BY DEF GiveUp, DirTypeOK
<1>2. Calling(c)'
  BY <1>1 DEF CallInv, Calling
<1>3. Behind(c)'
  BY <1>1 DEF CallInv, Behind, NoSocket
<1>4. Found(c)' /\ Excused(c)'
  BY <1>1 DEF Found, Excused
<1>5. QED
  BY <1>2, <1>3, <1>4 DEF CallInv

\* A level is missing from where it should be only if something was taken away, or was in
\* its way: the one before it is there.
LEMMA NeverNowhere ==
  ASSUME DirTypeOK, NEW c \in Creators, CallInv(c), phase[c] = "mkdir", Target(c) = NoDir
  PROVE  path[c] = <<Empty>> \/ removed # {} \/ DOMAIN others # {}
<1> DEFINE s == simple[c]
           k0 == pos[c]
<1> SUFFICES ASSUME path[c] # <<Empty>>, removed = {}, DOMAIN others = {} PROVE FALSE
  OBVIOUS
<1>1. s \in Paths /\ Len(s) \in Nat /\ First(s) \in 1..Len(s)
  BY PathFacts, FirstIn DEF DirTypeOK
<1>2. k0 \in First(s)..Len(s) /\ s = SimplifyDirectory(path[c])
  BY DEF CallInv, Calling
<1>3. s # <<Empty>>
  <2>1. path[c] \in Paths
    BY DEF DirTypeOK
  <2>2. QED
    BY <1>2, <2>1, SimpleStart
<1>4. Level(dirs, s, k0) = NoDir
  BY DEF Target, Place, Level
<1>5. NoSocket
  BY DEF NoSocket
<1>6. \A k \in First(s)..Len(s) : k < k0 => Level(dirs, s, k) \in dirs
  BY <1>5 DEF CallInv, Behind
<1> HIDE DEF s, k0
<1>7. k0 # First(s)
  BY <1>1, <1>3, <1>4, LevelFirst DEF DirTypeOK
<1> DEFINE k == k0 - 1
<1>8. k \in First(s)..Len(s) /\ k # Len(s) /\ k < k0 /\ k + 1 = k0
  BY <1>1, <1>2, <1>7
<1>9. Level(dirs, s, k) \in dirs
  BY <1>6, <1>8
<1> HIDE DEF k
<1>10. s[k + 1] \in Parts /\ Level(dirs, s, k + 1) = Step(dirs, Level(dirs, s, k), s[k + 1])
  BY <1>1, <1>3, <1>8, LevelNext
<1>11. Level(dirs, s, k0) \in Seq(Names)
  BY <1>8, <1>9, <1>10, StepSome DEF DirTypeOK
<1>12. QED
  BY <1>4, <1>11, NoDirIsNone
-----------------------------------------------------------------------------
\* One call's step leaves the other calls alone.
Others(c) ==
  \A d \in Creators \ {c} :
    path'[d] = path[d] /\ simple'[d] = simple[d] /\ pos'[d] = pos[d] /\ phase'[d] = phase[d]

LEMMA OthersKept ==
  ASSUME DirInv, NEW c \in Creators, Others(c), CallInv(c)',
         UNCHANGED <<others, removed>>, refused \subseteq refused', dirs \subseteq dirs'
  PROVE  \A d \in Creators : CallInv(d)'
<1>1. SUFFICES ASSUME NEW d \in Creators, d # c PROVE CallInv(d)'
  OBVIOUS
<1>2. path'[d] = path[d] /\ simple'[d] = simple[d] /\ pos'[d] = pos[d] /\ phase'[d] = phase[d]
  BY <1>1 DEF Others
<1>3. NoSocket' => NoSocket
  BY DEF NoSocket
<1>4. QED
  BY <1>2, <1>3, CallKept DEF DirInv

\* Everything else is as it was: nothing more is there, and every level is where it was.
LEMMA WayKept ==
  ASSUME AllOnWay, UNCHANGED <<dirs, path>>, removed \subseteq removed'
  PROVE  AllOnWay'
<1> SUFFICES ASSUME removed' = {}, NEW d \in dirs PROVE OnWay(d)'
  BY DEF AllOnWay
<1>1. OnWay(d)
  BY DEF AllOnWay
<1>2. QED
  BY <1>1 DEF OnWay, Level, PlaceIn

LEMMA OnWayKept ==
  ASSUME DirTypeOK, AllOnWay, UNCHANGED <<path, removed>>, dirs \subseteq dirs',
         removed = {}, NEW d \in dirs
  PROVE  OnWay(d)'
<1>1. OnWay(d)
  BY DEF AllOnWay
<1>2. CASE d \in Prefixes(Cwd)
  BY <1>2 DEF OnWay
<1>3. CASE \E c \in Creators : \E m \in 1..Len(path[c]) : d = Level(dirs, path[c], m)
  <2>1. PICK c \in Creators : \E m \in 1..Len(path[c]) : d = Level(dirs, path[c], m)
    BY <1>3
  <2>2. PICK m \in 1..Len(path[c]) : d = Level(dirs, path[c], m)
    BY <2>1
  <2>3. d # NoDir
    BY NoDirIsNone DEF DirTypeOK
  <2>4. SubSeq(path[c], 1, m) \in Paths
    BY LevelType DEF DirTypeOK
  <2>5. Level(dirs', path[c], m) = d
    BY <2>2, <2>3, <2>4, PlaceGrows, PathFacts DEF Level, DirTypeOK
  <2>6. QED
    BY <2>5 DEF OnWay
<1>4. QED
  BY <1>1, <1>2, <1>3 DEF OnWay
-----------------------------------------------------------------------------
LEMMA MakeDirRecursiveStep ==
  ASSUME DirInv, NEW c \in Creators, NEW p \in PathsOf[c], MakeDirRecursive(c, p)
  PROVE  DirInv'
<1> DEFINE s == SimplifyDirectory(p)
<1>1. p \in Paths
  BY DirectoriesAssumption DEF Paths, Parts
<1>2. s \in Paths /\ First(s) \in 1..Len(s) /\ Len(s) \in Nat
  BY <1>1, SimpleStart, FirstIn, PathFacts
<1>3. /\ path' = [path EXCEPT ![c] = p] /\ simple' = [simple EXCEPT ![c] = s]
      /\ phase' = [phase EXCEPT ![c] = "mkdir"] /\ phase[c] = "out"
  BY DEF MakeDirRecursive
<1> HIDE DEF s
<1>4. path'[c] = p /\ simple'[c] = s /\ phase'[c] = "mkdir"
  BY <1>3 DEF DirInv, DirTypeOK
<1>5. pos' = [pos EXCEPT ![c] = First(s)]
  BY <1>4 DEF MakeDirRecursive, First
<1>6. pos'[c] = First(s) /\ First(s) \in Nat
  BY <1>2, <1>5 DEF DirInv, DirTypeOK
<1>7. UNCHANGED <<dirs, others, removed, refused>>
  BY DEF MakeDirRecursive
<1>8. DirTypeOK'
  BY <1>1, <1>2, <1>3, <1>5, <1>6, <1>7 DEF DirInv, DirTypeOK
<1>9. Others(c)
  BY <1>3, <1>5 DEF Others, DirInv, DirTypeOK
<1>10. CallInv(c)'
  <2>1. First(s) \in First(s)..Len(s) /\ \A k \in First(s)..Len(s) : ~(k < First(s))
    BY <1>2
  <2>2. Calling(c)'
    BY <1>4, <1>6, <2>1 DEF Calling, s
  <2>3. Behind(c)'
    BY <1>4, <1>6, <2>1 DEF Behind
  <2>4. QED
    BY <1>4, <2>2, <2>3 DEF CallInv, Found, Excused
<1>11. \A d \in Creators : CallInv(d)'
  BY <1>7, <1>9, <1>10, OthersKept
<1>12. AllOnWay'
  <2> SUFFICES ASSUME removed = {}, NEW d \in dirs PROVE OnWay(d)'
    BY <1>7 DEF AllOnWay
  <2>1. OnWay(d)
    BY DEF DirInv, AllOnWay
  <2>2. CASE d \in Prefixes(Cwd)
    BY <2>2 DEF OnWay
  <2>3. CASE \E e \in Creators : \E m \in 1..Len(path[e]) : d = Level(dirs, path[e], m)
    <3>1. PICK e \in Creators : \E m \in 1..Len(path[e]) : d = Level(dirs, path[e], m)
      BY <2>3
    <3>2. PICK m \in 1..Len(path[e]) : d = Level(dirs, path[e], m)
      BY <3>1
    <3>3. d # NoDir
      BY NoDirIsNone DEF DirInv, DirTypeOK
    <3>4. e # c
      <4>1. path[c] = <<Empty>>
        BY <1>3 DEF DirInv, CallInv, Calling
      <4>2. QED
        BY <3>2, <3>3, <4>1, LevelOfNone
    <3>5. path'[e] = path[e]
      BY <1>9, <3>4 DEF Others
    <3>6. QED
      BY <1>7, <3>2, <3>5 DEF OnWay
  <2>4. QED
    BY <2>1, <2>2, <2>3 DEF OnWay
<1>13. QED
  BY <1>8, <1>11, <1>12 DEF DirInv

\* Where the next mkdir() will be.
LEMMA TargetIs ==
  ASSUME DirInv, NEW c \in Creators, phase[c] # "out"
  PROVE  Target(c) = Level(dirs, simple[c], pos[c]) /\ Target(c) \in Places
<1>1. simple[c] \in Paths /\ dirs \in SUBSET Seq(Names)
  BY DEF DirInv, DirTypeOK
<1>2. pos[c] \in 1..Len(simple[c])
  <2>1. pos[c] \in First(simple[c])..Len(simple[c])
    BY DEF DirInv, CallInv, Calling
  <2>2. First(simple[c]) \in 1..Len(simple[c]) /\ Len(simple[c]) \in Nat
    BY <1>1, FirstIn, PathFacts
  <2>3. QED
    BY <2>1, <2>2
<1>3. QED
  BY <1>1, <1>2, LevelType DEF Target, Place, Level

LEMMA MadeStep ==
  ASSUME DirInv, NEW c \in Creators, Made(c)
  PROVE  DirInv'
<1> DEFINE t == Target(c)
           s == simple[c]
           p == path[c]
<1>1. /\ phase[c] = "mkdir" /\ t # NoDir /\ t \notin dirs /\ dirs' = dirs \cup {t}
      /\ NextLevel(c) /\ UNCHANGED <<others, path, simple, removed, refused>>
  BY DEF Made
<1>2. t = Level(dirs, s, pos[c]) /\ t \in Seq(Names)
  BY <1>1, TargetIs DEF Places
<1>3. p \in Paths /\ s = SimplifyDirectory(p) /\ pos[c] \in First(s)..Len(s)
  BY <1>1 DEF DirInv, DirTypeOK, CallInv, Calling
<1>4. s # <<Empty>>
  <2>1. SUFFICES ASSUME s = <<Empty>> PROVE FALSE
    OBVIOUS
  <2>2. pos[c] \in 1..Len(<<Empty>>)
    <3>1. s \in Paths
      BY DEF DirInv, DirTypeOK
    <3>2. First(s) \in 1..Len(s) /\ Len(s) \in Nat
      BY <3>1, FirstIn, PathFacts
    <3>3. pos[c] \in 1..Len(s)
      BY <1>3, <3>2
    <3>4. QED
      BY <2>1, <3>3
  <2>3. QED
    BY <1>1, <1>2, <2>1, <2>2, LevelOfNone
<1> HIDE DEF t
<1>5. DirTypeOK'
  <2>1. pos' \in [Creators -> Nat] /\ phase' \in [Creators -> {"out", "mkdir", "stat", "true", "false"}]
    BY <1>1 DEF DirInv, DirTypeOK, NextLevel
  <2>2. QED
    BY <1>1, <1>2, <2>1 DEF DirInv, DirTypeOK
<1>6. CallInv(c)'
  BY <1>1, LevelDone DEF DirInv, t
<1>7. Others(c)
  BY <1>1 DEF Others, NextLevel, DirInv, DirTypeOK
<1>8. \A d \in Creators : CallInv(d)'
  BY <1>1, <1>6, <1>7, OthersKept
<1>9. AllOnWay'
  <2> SUFFICES ASSUME removed = {}, NEW d \in dirs' PROVE OnWay(d)'
    BY <1>1 DEF AllOnWay
  <2>1. CASE d \in dirs
    BY <1>1, <2>1, OnWayKept DEF DirInv
  <2>2. CASE d = t
    <3>1. PICK m \in 1..Len(p) : t = Level(dirs, p, m)
      <4>1. dirs \in SUBSET Seq(Names) /\ Root \in dirs
        BY DEF DirInv, DirTypeOK
      <4>2. Level(dirs, SimplifyDirectory(p), pos[c]) \notin dirs
        BY <1>1, <1>2, <1>3
      <4> HIDE DEF s, p
      <4>3. \E m \in 1..Len(p) :
              Level(dirs, SimplifyDirectory(p), pos[c]) = Level(dirs, p, m)
        BY <1>3, <1>4, <4>1, <4>2, LevelFrom
      <4>4. QED
        BY <1>2, <1>3, <4>3
    <3>2. SubSeq(p, 1, m) \in Paths /\ dirs \in SUBSET Seq(Names)
      BY <1>3, LevelType DEF DirInv, DirTypeOK
    <3>3. Level(dirs', p, m) = t
      BY <1>1, <3>1, <3>2, PlaceGrows, PathFacts DEF Level
    <3>4. QED
      BY <1>1, <2>2, <3>3 DEF OnWay
  <2>3. QED
    BY <1>1, <2>1, <2>2
<1>10. QED
  BY <1>5, <1>8, <1>9 DEF DirInv

\* The steps of makeDir() that make nothing.
LEMMA StopStep ==
  ASSUME DirInv, NEW c \in Creators, phase[c] \in {"mkdir", "stat"}, GiveUp(c),
         UNCHANGED <<dirs, others, path, simple, removed>>, refused \subseteq refused',
         \/ path[c] = <<Empty>> \/ c \in refused' \/ removed # {} \/ DOMAIN others # {}
  PROVE  DirInv'
<1>1. phase' = [phase EXCEPT ![c] = "false"] /\ pos' = pos
  BY DEF GiveUp
<1>2. DirTypeOK'
  BY <1>1 DEF DirInv, DirTypeOK
<1>3. CallInv(c)'
  BY LevelFailed DEF DirInv
<1>4. Others(c)
  BY <1>1 DEF Others, DirInv, DirTypeOK
<1>5. \A d \in Creators : CallInv(d)'
  BY <1>3, <1>4, OthersKept
<1>6. AllOnWay'
  BY WayKept DEF DirInv
<1>7. QED
  BY <1>2, <1>5, <1>6 DEF DirInv

LEMMA NoPlaceStep ==
  ASSUME DirInv, NEW c \in Creators, NoPlace(c)
  PROVE  DirInv'
<1>1. phase[c] = "mkdir" /\ Target(c) = NoDir /\ GiveUp(c)
  BY DEF NoPlace
<1>2. path[c] = <<Empty>> \/ removed # {} \/ DOMAIN others # {}
  BY <1>1, NeverNowhere DEF DirInv
<1>3. QED
  BY <1>1, <1>2, StopStep DEF NoPlace

LEMMA RefusedStep ==
  ASSUME DirInv, NEW c \in Creators, Refused(c)
  PROVE  DirInv'
<1>1. c \in refused' /\ refused \subseteq refused'
  BY DEF Refused
<1>2. QED
  BY <1>1, StopStep DEF Refused

LEMMA ExistsStep ==
  ASSUME DirInv, NEW c \in Creators, Exists(c)
  PROVE  DirInv'
<1>1. /\ phase[c] = "mkdir" /\ Target(c) \in dirs \cup DOMAIN others
      /\ phase' = [phase EXCEPT ![c] = "stat"]
      /\ UNCHANGED <<dirs, others, path, simple, pos, removed, refused>>
  BY DEF Exists
<1>2. phase'[c] = "stat"
  BY <1>1 DEF DirInv, DirTypeOK
<1>3. DirTypeOK'
  BY <1>1 DEF DirInv, DirTypeOK
<1>4. CallInv(c)'
  <2>1. Calling(c)'
    BY <1>1, <1>2 DEF DirInv, CallInv, Calling
  <2>2. Behind(c)'
    BY <1>1, <1>2 DEF DirInv, CallInv, Behind, NoSocket
  <2>3. Found(c)'
    BY <1>1 DEF Found, Target, Place
  <2>4. Excused(c)'
    BY <1>2 DEF Excused
  <2>5. QED
    BY <2>1, <2>2, <2>3, <2>4 DEF CallInv
<1>5. Others(c)
  BY <1>1 DEF Others, DirInv, DirTypeOK
<1>6. \A d \in Creators : CallInv(d)'
  BY <1>1, <1>4, <1>5, OthersKept
<1>7. AllOnWay'
  BY <1>1, WayKept DEF DirInv
<1>8. QED
  BY <1>3, <1>6, <1>7 DEF DirInv

LEMMA LookStep ==
  ASSUME DirInv, NEW c \in Creators, Look(c)
  PROVE  DirInv'
<1>1. phase[c] = "stat" /\ UNCHANGED <<dirs, others, path, simple, removed, refused>>
  BY DEF Look
<1>2. CASE IsFileExistEx(Target(c))
  <2>1. NextLevel(c)
    BY <1>2 DEF Look
  <2>2. DirTypeOK'
    <3>1. /\ pos' \in [Creators -> Nat]
          /\ phase' \in [Creators -> {"out", "mkdir", "stat", "true", "false"}]
      BY <2>1 DEF DirInv, DirTypeOK, NextLevel
    <3>2. QED
      BY <1>1, <3>1 DEF DirInv, DirTypeOK
  <2>3. NoSocket => Target(c) \in dirs
    BY <1>2 DEF IsFileExistEx, NoSocket
  <2>4. Target(c) \in dirs => Target(c) # NoDir
    BY NoDirIsNone DEF DirInv, DirTypeOK
  <2>5. CallInv(c)'
    BY <1>1, <2>1, <2>3, <2>4, LevelDone DEF DirInv
  <2>6. Others(c)
    BY <1>1, <2>1 DEF Others, NextLevel, DirInv, DirTypeOK
  <2>7. \A d \in Creators : CallInv(d)'
    BY <1>1, <2>5, <2>6, OthersKept
  <2>8. AllOnWay'
    BY <1>1, WayKept DEF DirInv
  <2>9. QED
    BY <2>2, <2>7, <2>8 DEF DirInv
<1>3. CASE ~IsFileExistEx(Target(c))
  <2>1. GiveUp(c)
    BY <1>3 DEF Look
  <2>2. Target(c) \notin dirs
    BY <1>3 DEF IsFileExistEx
  <2>3. removed # {} \/ DOMAIN others # {}
    BY <1>1, <2>2 DEF DirInv, CallInv, Found
  <2>4. QED
    BY <1>1, <2>1, <2>3, StopStep
<1>4. QED
  BY <1>2, <1>3

\* What others do in the file system.
LEMMA DisturbedStep ==
  ASSUME DirInv, UNCHANGED <<callVars, refused>>, removed \subseteq removed', DirTypeOK',
         removed' = {} => dirs' = dirs,
         NoSocket' => NoSocket, DOMAIN others' = {} => DOMAIN others = {}
  PROVE  DirInv'
<1>1. ASSUME NEW c \in Creators PROVE CallInv(c)'
  BY CallKept DEF DirInv, callVars
<1>2. AllOnWay'
  <2>1. CASE removed' = {}
    BY <2>1, WayKept DEF DirInv, callVars
  <2>2. CASE removed' # {}
    BY <2>2 DEF AllOnWay
  <2>3. QED
    BY <2>1, <2>2
<1>3. QED
  BY <1>1, <1>2 DEF DirInv

LEMMA RmdirStep ==
  ASSUME DirInv, NEW d \in dirs, Rmdir(d)
  PROVE  DirInv'
<1>1. /\ d \notin Prefixes(Cwd) /\ dirs' = dirs \ {d} /\ removed' = removed \cup {d}
      /\ UNCHANGED <<others, callVars, refused>>
  BY DEF Rmdir
<1>2. Root \in Prefixes(Cwd) /\ Cwd \in Prefixes(Cwd)
  <2>1. Cwd \in Seq(Names) /\ Len(Cwd) \in Nat
    BY DirectoriesAssumption
  <2>2. SubSeq(Cwd, 1, 0) = Root /\ SubSeq(Cwd, 1, Len(Cwd)) = Cwd
    BY <2>1, SubSeqEmpty, SubSeqFull DEF Root
  <2>3. 0 \in 0..Len(Cwd) /\ Len(Cwd) \in 0..Len(Cwd)
    BY <2>1
  <2>4. QED
    BY <2>2, <2>3 DEF Prefixes
<1>3. DirTypeOK'
  BY <1>1, <1>2 DEF DirInv, DirTypeOK, callVars
<1>4. NoSocket' => NoSocket
  BY <1>1 DEF NoSocket
<1>5. QED
  BY <1>1, <1>3, <1>4, DisturbedStep

LEMMA IntrudeStep ==
  ASSUME DirInv, NEW place, NEW kind, Intrude(place, kind)
  PROVE  DirInv'
<1>1. /\ place \notin DOMAIN others
      /\ others' = [d \in DOMAIN others \cup {place} |->
                     IF d = place THEN kind ELSE others[d]]
      /\ UNCHANGED <<dirs, callVars, removed, refused>>
  BY DEF Intrude
<1>2. DirTypeOK'
  BY <1>1 DEF DirInv, DirTypeOK, callVars
<1>3. DOMAIN others' = DOMAIN others \cup {place}
  BY <1>1
<1>4. NoSocket' => NoSocket
  <2>1. SUFFICES ASSUME NEW d \in DOMAIN others, others[d] = "socket" PROVE ~NoSocket'
    BY DEF NoSocket
  <2>2. d \in DOMAIN others' /\ others'[d] = "socket"
    BY <1>1, <1>3, <2>1
  <2>3. QED
    BY <2>2 DEF NoSocket
<1>5. QED
  BY <1>1, <1>2, <1>3, <1>4, DisturbedStep

LEMMA DirStep == DirInv /\ [Next]_vars => DirInv'
<1> SUFFICES ASSUME DirInv, [Next]_vars PROVE DirInv'
  OBVIOUS
<1>1. CASE \E c \in Creators : \E p \in PathsOf[c] : MakeDirRecursive(c, p)
  BY <1>1, MakeDirRecursiveStep
<1>2. CASE \E c \in Creators : Made(c) \/ NoPlace(c) \/ Refused(c) \/ Exists(c) \/ Look(c)
  BY <1>2, MadeStep, NoPlaceStep, RefusedStep, ExistsStep, LookStep
<1>3. CASE \E d \in dirs : Rmdir(d)
  BY <1>3, RmdirStep
<1>4. CASE \E d \in dirs, n \in Names, kind \in {"file", "socket"} :
             Intrude(Append(d, n), kind)
  BY <1>4, IntrudeStep
<1>5. CASE UNCHANGED vars
  <2>1. UNCHANGED <<dirs, others, callVars, removed, refused>>
    BY <1>5 DEF vars
  <2>2. DirTypeOK'
    BY <2>1 DEF DirInv, DirTypeOK, callVars
  <2>3. NoSocket' => NoSocket
    BY <2>1 DEF NoSocket
  <2>4. QED
    BY <2>1, <2>2, <2>3, DisturbedStep
<1>6. QED
  BY <1>1, <1>2, <1>3, <1>4, <1>5 DEF Next

\* The invariant holds in every state.
THEOREM DirectoriesCorrect == Spec => []DirInv
<1>1. Init => DirInv
  BY DirInit
<1>2. DirInv /\ [Next]_vars => DirInv'
  BY DirStep
<1>3. QED
  BY <1>1, <1>2, PTL DEF Spec
-----------------------------------------------------------------------------
\* When makeDirRecursive() has returned true, and nothing was removed and nothing passes for
\* a directory, the path that was asked for is one, as the system reads it, and the log file
\* will be opened in it: simplifyDirectory() and extractFilePath() mislead nobody.
THEOREM TrueIsThere == Spec => []TrueMeansThere
<1>1. ASSUME DirInv PROVE TrueMeansThere
  <2> SUFFICES ASSUME NEW c \in Creators, phase[c] = "true", removed = {}, NoSocket
               PROVE  /\ Place(path[c]) \in dirs
                      /\ Place(ExtractFilePath(Append(path[c], LogFile))) \in dirs
    BY DEF TrueMeansThere, NoSocket
  <2>1. path[c] \in Paths /\ dirs \in SUBSET Seq(Names) /\ Root \in dirs
    BY <1>1 DEF DirInv, DirTypeOK
  <2>2. simple[c] = SimplifyDirectory(path[c]) /\ PlaceIn(dirs, simple[c]) \in dirs
    BY <1>1 DEF DirInv, CallInv, Calling, Behind
  <2>3. PlaceIn(dirs, path[c]) \in dirs
    BY <2>1, <2>2, SimplifyKeepsPlace
  <2>4. PlaceIn(dirs, ExtractFilePath(Append(path[c], LogFile))) = PlaceIn(dirs, path[c])
    BY <2>1, <2>3, FileIn
  <2>5. QED
    BY <2>3, <2>4 DEF Place
<1>2. DirInv => TrueMeansThere
  BY <1>1
<1>3. QED
  BY <1>2, DirectoriesCorrect, PTL

\* However many processes make the same directories, makeDirRecursive() returns false only
\* for "", for a mkdir() refused to this caller, or because somebody else has removed a
\* directory or has put something in the way.
THEOREM FalseIsFailure == Spec => []FalseMeansFailure
<1>1. DirInv => FalseMeansFailure
  BY DEF DirInv, CallInv, Excused, FalseMeansFailure
<1>2. QED
  BY <1>1, DirectoriesCorrect, PTL

\* makeDirRecursive() makes no directory but the levels of the paths that were asked for,
\* whatever simplifyDirectory() has taken out of them.
THEOREM NothingMoreMade == Spec => []MakesNoMore
<1>1. ASSUME DirInv PROVE MakesNoMore
  <2> SUFFICES ASSUME removed = {}, NEW d \in dirs, d \notin Prefixes(Cwd)
               PROVE  \E c \in Creators : \E q \in Prefixes(path[c]) \ {<<>>} : d = Place(q)
    BY DEF MakesNoMore
  <2>1. PICK c \in Creators : \E m \in 1..Len(path[c]) : d = Level(dirs, path[c], m)
    BY <1>1 DEF DirInv, AllOnWay, OnWay
  <2>2. PICK m \in 1..Len(path[c]) : d = Level(dirs, path[c], m)
    BY <2>1
  <2>3. path[c] \in Paths /\ dirs \in SUBSET Seq(Names)
    BY <1>1 DEF DirInv, DirTypeOK
  <2>4. SubSeq(path[c], 1, m) \in Paths
    BY <2>3, LevelType
  <2>5. m \in 0..Len(path[c])
    BY <2>3, PathFacts
  <2>6. SubSeq(path[c], 1, m) \in Prefixes(path[c]) \ {<<>>}
    BY <2>4, <2>5 DEF Prefixes, Paths
  <2>7. d = Place(SubSeq(path[c], 1, m))
    BY <2>2 DEF Level, Place
  <2>8. QED
    BY <2>6, <2>7
<1>2. DirInv => MakesNoMore
  BY <1>1
<1>3. QED
  BY <1>2, DirectoriesCorrect, PTL
=============================================================================
