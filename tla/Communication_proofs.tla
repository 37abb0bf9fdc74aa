-------------------------- MODULE Communication_proofs --------------------------
(* Proofs about the way of bytes from the VE.Bus to a frame (Communication)  *)
(* and of the bytes of a frame between buffer and bus (FrameCodec), and the  *)
(* lemmas about sequences both rest on.                                      *)
EXTENDS Communication, FrameCodec, WellFoundedInduction, SequenceTheorems,
        FiniteSetTheorems, TLAPS

(* A set of natural numbers that is not empty has a least element.          *)
LEMMA Least ==
  ASSUME NEW T \in SUBSET Nat, T # {}
  PROVE  \E m \in T : \A k \in T : ~(k < m)
<1> DEFINE R == {ss \in Nat \X Nat : ss[1] < ss[2]}
<1>1. IsWellFoundedOn(R, Nat)
  BY NatLessThanWellFounded DEF OpToRel
<1>2. PICK m \in T : \A k \in T : <<k, m>> \notin R
  BY <1>1, WFMin
<1> QED BY <1>2

(* Induction, for a set instead of a predicate. *)
LEMMA SetInduction ==
  ASSUME NEW S \in SUBSET Nat, 0 \in S, \A k \in S : k + 1 \in S
  PROVE  S = Nat
<1> DEFINE T == Nat \ S
<1>1. SUFFICES ASSUME T # {} PROVE FALSE
  OBVIOUS
<1>2. PICK m \in T : \A k \in T : ~(k < m)
  BY <1>1, Least
<1>3. m # 0 /\ m - 1 \in Nat /\ m - 1 \notin T
  BY <1>2
<1> QED BY <1>3

-------------------------------------------------------------------------------
(* FlattenSeq.                                                              *)

(* g[k] is what the first k members of ss are when they are put together. *)
Joins(g, ss, m, V) ==
  /\ g \in [0 .. m -> Seq(V)]
  /\ g[0] = <<>>
  /\ \A k \in 1 .. m : g[k] = g[k - 1] \o ss[k]

(* The first m members are the same. *)
Agree(ss, tt, m) == \A k \in 1 .. m : ss[k] = tt[k]

LEMMA JoinsExists ==
  ASSUME NEW V, NEW ss \in Seq(Seq(V))
  PROVE  \E g : Joins(g, ss, Len(ss), V)
<1> DEFINE S == {m \in Nat : m <= Len(ss) => \E g : Joins(g, ss, m, V)}
<1>1. 0 \in S
  <2> DEFINE g == [k \in 0 .. 0 |-> <<>>]
  <2>1. Joins(g, ss, 0, V)
    BY DEF Joins
  <2> QED BY <2>1
<1>2. ASSUME NEW m \in S PROVE m + 1 \in S
  <2>1. SUFFICES ASSUME m + 1 <= Len(ss) PROVE \E g : Joins(g, ss, m + 1, V)
    OBVIOUS
  <2>2. PICK f : Joins(f, ss, m, V)
    BY <2>1
  <2> DEFINE joined == f[m] \o ss[m + 1]
             g == [k \in 0 .. m + 1 |-> IF k = m + 1 THEN joined ELSE f[k]]
  <2>3. joined \in Seq(V)
    BY <2>1, <2>2 DEF Joins
  <2> HIDE DEF joined
  <2>4. g \in [0 .. m + 1 -> Seq(V)]
    BY <2>2, <2>3 DEF Joins
  <2>5. ASSUME NEW k \in 1 .. m + 1 PROVE g[k] = g[k - 1] \o ss[k]
    <3>1. k \in 0 .. m + 1 /\ k - 1 \in 0 .. m /\ k - 1 # m + 1 /\ k - 1 \in 0 .. m + 1
      OBVIOUS
    <3>2. g[k - 1] = f[k - 1]
      BY <3>1
    <3>3. CASE k = m + 1
      <4>1. g[k] = joined /\ m = k - 1
        BY <3>1, <3>3
      <4> QED BY <3>2, <3>3, <4>1 DEF joined
    <3>4. CASE k # m + 1
      <4>1. k \in 1 .. m
        BY <3>4
      <4>2. g[k] = f[k] /\ f[k] = f[k - 1] \o ss[k]
        BY <3>1, <3>4, <4>1, <2>2 DEF Joins
      <4> QED BY <3>2, <4>2
    <3> QED BY <3>3, <3>4
  <2>6. g[0] = <<>>
    BY <2>2 DEF Joins
  <2> HIDE DEF g
  <2>7. Joins(g, ss, m + 1, V)
    BY <2>4, <2>5, <2>6 DEF Joins
  <2> QED BY <2>7
<1> HIDE DEF S
<1>3. S = Nat
  BY <1>1, <1>2, SetInduction DEF S
<1>4. Len(ss) \in S
  BY <1>3
<1> QED BY <1>4 DEF S

LEMMA JoinsUnique ==
  ASSUME NEW V, NEW ss, NEW tt, NEW m \in Nat, NEW p \in Nat, NEW g, NEW h,
         p = m + 1, Joins(g, ss, m, V), Joins(h, tt, p, V), Agree(ss, tt, m)
  PROVE  g[m] = h[m]
<1> DEFINE S == {k \in Nat : k <= m => g[k] = h[k]}
<1>1. 0 \in S
  BY DEF Joins
<1>2. ASSUME NEW k \in S PROVE k + 1 \in S
  <2>1. SUFFICES ASSUME k + 1 <= m PROVE g[k + 1] = h[k + 1]
    OBVIOUS
  <2>2. g[k + 1] = g[k] \o ss[k + 1] /\ h[k + 1] = h[k] \o tt[k + 1]
    <3>1. k + 1 \in 1 .. m /\ k + 1 \in 1 .. p /\ (k + 1) - 1 = k
      BY <2>1
    <3> QED BY <3>1 DEF Joins
  <2>3. g[k] = h[k] /\ ss[k + 1] = tt[k + 1]
    BY <2>1 DEF Agree
  <2> QED BY <2>2, <2>3
<1> HIDE DEF S
<1>3. S = Nat
  BY <1>1, <1>2, SetInduction DEF S
<1> QED BY <1>3 DEF S

LEMMA FlattenIs ==
  ASSUME NEW V, NEW ss \in Seq(Seq(V)), NEW g, Joins(g, ss, Len(ss), V)
  PROVE  FlattenSeq(ss) = g[Len(ss)]
<1>1. CASE ss = <<>>
  BY <1>1 DEF FlattenSeq, Joins
<1>2. CASE ss # <<>>
  <2> DEFINE m == Len(ss)
             F(f) == f = [k \in 1 .. m |-> IF k = 1 THEN ss[k] ELSE f[k - 1] \o ss[k]]
             f0 == CHOOSE f : F(f)
             f1 == [k \in 1 .. m |-> g[k]]
  <2>1. m \in Nat \ {0}
    BY <1>2
  <2>2. FlattenSeq(ss) = f0[m]
    BY <2>1 DEF FlattenSeq
  <2>3. F(f1)
    <3>1. g[1] = ss[1]
      <4>1. 1 \in 1 .. m /\ 1 - 1 = 0
        BY <2>1
      <4>2. g[1] = <<>> \o ss[1]
        BY <4>1 DEF Joins
      <4>3. ss[1] \in Seq(V)
        BY <4>1
      <4> QED BY <4>2, <4>3
    <3>2. \A k \in 1 .. m : k # 1 => k - 1 \in 1 .. m
      OBVIOUS
    <3> QED BY <3>1, <3>2 DEF Joins
  <2>4. F(f0)
    BY <2>3
  <2> HIDE DEF f0
  <2> DEFINE h == [k \in 0 .. m |-> IF k = 0 THEN <<>> ELSE f0[k]]
             S == {k \in Nat : k <= m => h[k] = g[k]}
  <2>5. 0 \in S
    BY <2>1 DEF Joins
  <2>6. ASSUME NEW k \in S PROVE k + 1 \in S
    <3>1. SUFFICES ASSUME k + 1 <= m PROVE f0[k + 1] = g[k + 1]
      OBVIOUS
    <3>2. g[k + 1] = g[k] \o ss[k + 1]
      <4>1. k + 1 \in 1 .. m /\ (k + 1) - 1 = k
        BY <3>1
      <4> QED BY <4>1 DEF Joins
    <3>3. CASE k = 0
      <4>1. f0[1] = ss[1] /\ ss[1] \in Seq(V)
        BY <2>1, <2>4
      <4>2. g[0] = <<>> /\ g[0 + 1] = g[0] \o ss[0 + 1]
        BY <3>2, <3>3 DEF Joins
      <4>3. g[1] = <<>> \o ss[1]
        BY <4>2
      <4> QED BY <4>1, <4>3, <3>3
    <3>4. CASE k # 0
      <4>1. f0[k + 1] = f0[k] \o ss[k + 1]
        <5>1. k + 1 \in 1 .. m /\ (k + 1) - 1 = k /\ k + 1 # 1
          BY <3>1, <3>4
        <5> QED BY <2>4, <5>1
      <4>2. f0[k] = g[k]
        BY <3>1, <3>4
      <4> QED BY <3>2, <4>1, <4>2
    <3> QED BY <3>3, <3>4
  <2> HIDE DEF S
  <2>7. S = Nat
    BY <2>5, <2>6, SetInduction DEF S
  <2>8. h[m] = g[m]
    <3>1. m \in S
      BY <2>1, <2>7
    <3> QED BY <2>1, <3>1 DEF S
  <2> QED BY <2>1, <2>2, <2>8
<1> QED BY <1>1, <1>2

(* FlattenSeq of sequences over V is one; an appended member comes last. *)
LEMMA FlattenType ==
  ASSUME NEW V, NEW ss \in Seq(Seq(V))
  PROVE  FlattenSeq(ss) \in Seq(V)
<1>1. PICK g : Joins(g, ss, Len(ss), V)
  BY JoinsExists
<1>2. FlattenSeq(ss) = g[Len(ss)]
  BY <1>1, FlattenIs
<1> QED BY <1>1, <1>2 DEF Joins

LEMMA FlattenLonger ==
  ASSUME NEW V, NEW ss \in Seq(Seq(V)), NEW tt \in Seq(Seq(V)),
         Len(tt) = Len(ss) + 1, Agree(ss, tt, Len(ss))
  PROVE  FlattenSeq(tt) = FlattenSeq(ss) \o tt[Len(tt)]
<1>1. PICK g : Joins(g, ss, Len(ss), V)
  BY JoinsExists
<1>2. PICK h : Joins(h, tt, Len(tt), V)
  BY JoinsExists
<1>3. Len(ss) \in Nat /\ Len(tt) \in Nat
  OBVIOUS
<1>4. g[Len(ss)] = h[Len(ss)]
  BY <1>1, <1>2, <1>3, JoinsUnique
<1>5. h[Len(tt)] = h[Len(ss)] \o tt[Len(tt)]
  <2>1. Len(tt) \in 1 .. Len(tt) /\ Len(tt) - 1 = Len(ss)
    BY <1>3
  <2> QED BY <1>2, <2>1 DEF Joins
<1>6. FlattenSeq(ss) = g[Len(ss)] /\ FlattenSeq(tt) = h[Len(tt)]
  BY <1>1, <1>2, FlattenIs
<1> QED BY <1>4, <1>5, <1>6

LEMMA FlattenAppend ==
  ASSUME NEW V, NEW ss \in Seq(Seq(V)), NEW t \in Seq(V)
  PROVE  FlattenSeq(Append(ss, t)) = FlattenSeq(ss) \o t
<1> DEFINE tt == Append(ss, t)
<1>1. /\ tt \in Seq(Seq(V)) /\ Len(tt) = Len(ss) + 1 /\ tt[Len(tt)] = t
      /\ Agree(ss, tt, Len(ss))
  BY DEF Agree
<1> HIDE DEF tt
<1>2. FlattenSeq(tt) = FlattenSeq(ss) \o tt[Len(tt)]
  BY <1>1, FlattenLonger
<1> QED BY <1>1, <1>2 DEF tt

-------------------------------------------------------------------------------
(* u is s and t put together; s with one or two members replaced.           *)
Joined(u, s, t) ==
  /\ Len(u) = Len(s) + Len(t)
  /\ \A k \in 1 .. Len(s) : u[k] = s[k]
  /\ \A k \in 1 .. Len(t) : u[Len(s) + k] = t[k]

PutOne(u, s, i, x) ==
  /\ Len(u) = Len(s) /\ u[i] = x
  /\ \A k \in 1 .. Len(s) : k # i => u[k] = s[k]

PutTwo(u, s, i, x, j, y) ==
  /\ Len(u) = Len(s) /\ u[i] = x /\ u[j] = y
  /\ \A k \in 1 .. Len(s) : k # i /\ k # j => u[k] = s[k]

LEMMA ConcatJoins ==
  ASSUME NEW V, NEW s \in Seq(V), NEW t \in Seq(V)
  PROVE  s \o t \in Seq(V) /\ Joined(s \o t, s, t)
<1>1. Len(s) \in Nat /\ Len(t) \in Nat
  OBVIOUS
<1>2. /\ s \o t \in Seq(V) /\ Len(s \o t) = Len(s) + Len(t)
      /\ \A k \in 1 .. Len(s) + Len(t) : (s \o t)[k] = IF k <= Len(s) THEN s[k] ELSE t[k - Len(s)]
  BY ConcatProperties
<1>3. ASSUME NEW k \in 1 .. Len(s) PROVE (s \o t)[k] = s[k]
  BY <1>1, <1>2
<1>4. ASSUME NEW k \in 1 .. Len(t) PROVE (s \o t)[Len(s) + k] = t[k]
  <2>1. Len(s) + k \in 1 .. Len(s) + Len(t) /\ ~(Len(s) + k <= Len(s)) /\ Len(s) + k - Len(s) = k
    BY <1>1
  <2> QED BY <1>2, <2>1
<1> QED BY <1>2, <1>3, <1>4 DEF Joined

LEMMA ExceptPuts ==
  ASSUME NEW V, NEW s \in Seq(V), NEW i \in 1 .. Len(s), NEW x \in V
  PROVE  [s EXCEPT ![i] = x] \in Seq(V) /\ PutOne([s EXCEPT ![i] = x], s, i, x)
  BY ExceptSeq DEF PutOne

LEMMA ExceptPutsTwo ==
  ASSUME NEW V, NEW s \in Seq(V), NEW i \in 1 .. Len(s), NEW j \in 1 .. Len(s), i # j,
         NEW x \in V, NEW y \in V
  PROVE  /\ [s EXCEPT ![i] = x, ![j] = y] \in Seq(V)
         /\ PutTwo([s EXCEPT ![i] = x, ![j] = y], s, i, x, j, y)
<1> DEFINE u == [s EXCEPT ![i] = x]
           v == [s EXCEPT ![i] = x, ![j] = y]
<1>1. u \in Seq(V) /\ PutOne(u, s, i, x)
  BY ExceptPuts
<1>2. v = [u EXCEPT ![j] = y]
  OBVIOUS
<1> HIDE DEF u, v
<1>3. v \in Seq(V) /\ PutOne(v, u, j, y)
  <2>1. j \in 1 .. Len(u)
    BY <1>1 DEF PutOne
  <2> QED BY <1>1, <1>2, <2>1, ExceptPuts
<1>4. PutTwo(v, s, i, x, j, y)
  BY <1>1, <1>3 DEF PutOne, PutTwo
<1> QED BY <1>3, <1>4 DEF v

-------------------------------------------------------------------------------
(* The sum of a sequence, which is a fold over the set of its indices.      *)
SumOf(s) == FoldLeft(LAMBDA a, b : a + b, 0, s)

LEMMA MaxOf ==
  ASSUME NEW m \in Nat, NEW T \in SUBSET (1 .. m), T # {}
  PROVE  Max(T) \in T /\ \A t \in T : t <= Max(T)
<1> DEFINE D == {k \in Nat : m - k \in T}
<1>1. \A t \in T : t \in Nat /\ m - t \in D /\ m - (m - t) = t
  OBVIOUS
<1>2. PICK d \in D : \A k \in D : ~(k < d)
  <2>1. D \in SUBSET Nat /\ D # {}
    BY <1>1
  <2> HIDE DEF D
  <2> QED BY <2>1, Least
<1>3. m - d \in T /\ d \in Nat
  OBVIOUS
<1>4. ASSUME NEW t \in T PROVE m - d >= t
  <2>1. t \in Nat /\ ~(m - t < d)
    BY <1>1, <1>2
  <2> QED BY <1>3, <2>1
<1>5. \E y \in T : \A t \in T : y >= t
  BY <1>3, <1>4
<1>6. Max(T) \in T /\ \A t \in T : Max(T) >= t
  BY <1>5 DEF Max
<1>7. \A t \in T : Max(T) >= t => t <= Max(T)
  BY <1>1, <1>6
<1> QED BY <1>6, <1>7

(* g[T] is the sum of the members of s with an index in T. *)
Sums(g, s, m) ==
  \A T \in SUBSET (1 .. m) : g[T] = IF T = {} THEN 0 ELSE g[T \ {Max(T)}] + s[Max(T)]

IntegerSums(g, s, m) == g \in [SUBSET (1 .. m) -> Int] /\ Sums(g, s, m)

LEMMA SumsExists ==
  ASSUME NEW s \in Seq(Int)
  PROVE  \E g : IntegerSums(g, s, Len(s))
<1> DEFINE S == {m \in Nat : m <= Len(s) => \E g : IntegerSums(g, s, m)}
<1>1. 0 \in S
  <2> DEFINE g == [T \in SUBSET (1 .. 0) |-> 0]
  <2>1. SUBSET (1 .. 0) = {{}}
    OBVIOUS
  <2>2. IntegerSums(g, s, 0)
    BY <2>1 DEF Sums, IntegerSums
  <2> QED BY <2>2
<1>2. ASSUME NEW m \in S PROVE m + 1 \in S
  <2>1. SUFFICES ASSUME m + 1 <= Len(s) PROVE \E g : IntegerSums(g, s, m + 1)
    OBVIOUS
  <2>2. PICK f : f \in [SUBSET (1 .. m) -> Int] /\ Sums(f, s, m)
    <3>1. \E f : IntegerSums(f, s, m)
      BY <2>1
    <3> QED BY <3>1 DEF IntegerSums
  <2> DEFINE x == s[m + 1]
             g == [T \in SUBSET (1 .. m + 1) |->
                     IF m + 1 \in T THEN f[T \ {m + 1}] + x ELSE f[T]]
  <2>3. x \in Int /\ m \in Nat
    BY <2>1
  <2> HIDE DEF x
  <2>4. ASSUME NEW T \in SUBSET (1 .. m + 1)
        PROVE  /\ T \ {m + 1} \in SUBSET (1 .. m)
               /\ m + 1 \notin T => T \in SUBSET (1 .. m)
    BY <2>3
  <2>5. g \in [SUBSET (1 .. m + 1) -> Int]
    BY <2>2, <2>3, <2>4 DEF Sums
  <2>6. ASSUME NEW T \in SUBSET (1 .. m + 1)
        PROVE  g[T] = IF T = {} THEN 0 ELSE g[T \ {Max(T)}] + s[Max(T)]
    <3>1. CASE m + 1 \in T
      <4>1. Max(T) = m + 1
        <5>1. m + 1 \in Nat /\ T # {}
          BY <2>3, <3>1
        <5>2. Max(T) \in T /\ \A t \in T : t <= Max(T)
          BY <5>1, MaxOf
        <5>3. Max(T) \in 1 .. m + 1 /\ m + 1 <= Max(T)
          BY <3>1, <5>2
        <5> QED BY <2>3, <5>3
      <4>2. T \ {m + 1} \in SUBSET (1 .. m + 1) /\ m + 1 \notin T \ {m + 1}
        OBVIOUS
      <4>3. g[T] = f[T \ {m + 1}] + x /\ g[T \ {m + 1}] = f[T \ {m + 1}]
        BY <3>1, <4>2
      <4> QED BY <3>1, <4>1, <4>3 DEF x
    <3>2. CASE m + 1 \notin T /\ T # {}
      <4>1. T \in SUBSET (1 .. m)
        BY <2>4, <3>2
      <4>2. T \ {Max(T)} \in SUBSET (1 .. m + 1) /\ m + 1 \notin T \ {Max(T)}
        BY <3>2
      <4>3. g[T] = f[T] /\ g[T \ {Max(T)}] = f[T \ {Max(T)}]
        BY <3>2, <4>2
      <4>4. f[T] = f[T \ {Max(T)}] + s[Max(T)]
        BY <2>2, <3>2, <4>1 DEF Sums
      <4> QED BY <3>2, <4>3, <4>4
    <3>3. CASE T = {}
      <4>1. T \in SUBSET (1 .. m) /\ f[T] = 0
        BY <2>2, <3>3 DEF Sums
      <4> QED BY <3>3, <4>1
    <3> QED BY <3>1, <3>2, <3>3
  <2> HIDE DEF g
  <2>7. IntegerSums(g, s, m + 1)
    BY <2>5, <2>6 DEF Sums, IntegerSums
  <2> QED BY <2>7
<1> HIDE DEF S
<1>3. S = Nat
  BY <1>1, <1>2, SetInduction DEF S
<1>4. Len(s) \in S
  BY <1>3
<1> QED BY <1>4 DEF S

LEMMA SumsUnique ==
  ASSUME NEW s, NEW t, NEW m \in Nat, NEW p \in Nat, NEW g, NEW h,
         m <= p, Sums(g, s, m), Sums(h, t, p), Agree(s, t, m)
  PROVE  g[1 .. m] = h[1 .. m]
<1> DEFINE S == {k \in Nat : k <= m => \A T \in SUBSET (1 .. k) : g[T] = h[T]}
<1>1. 0 \in S
  <2>1. {} \in SUBSET (1 .. m) /\ {} \in SUBSET (1 .. p)
    OBVIOUS
  <2>2. g[{}] = 0 /\ h[{}] = 0
    BY <2>1 DEF Sums
  <2>3. SUBSET (1 .. 0) = {{}}
    OBVIOUS
  <2> QED BY <2>2, <2>3
<1>2. ASSUME NEW k \in S PROVE k + 1 \in S
  <2>1. SUFFICES ASSUME k + 1 <= m, NEW T \in SUBSET (1 .. k + 1) PROVE g[T] = h[T]
    OBVIOUS
  <2>2. T \in SUBSET (1 .. m) /\ T \in SUBSET (1 .. p)
    BY <2>1
  <2>3. CASE T = {}
    BY <2>2, <2>3 DEF Sums
  <2>4. CASE T # {}
    <3>1. Max(T) \in T /\ \A i \in T : i <= Max(T)
      <4>1. k + 1 \in Nat
        OBVIOUS
      <4> QED BY <2>1, <2>4, <4>1, MaxOf
    <3>2. T \ {Max(T)} \in SUBSET (1 .. k)
      <4>1. ASSUME NEW i \in T, i # Max(T) PROVE i \in 1 .. k
        <5>1. i \in 1 .. k + 1 /\ Max(T) \in 1 .. k + 1 /\ i <= Max(T) /\ k \in Nat
          BY <3>1
        <5> QED BY <4>1, <5>1
      <4> QED BY <4>1
    <3>3. g[T \ {Max(T)}] = h[T \ {Max(T)}]
      BY <2>1, <3>2
    <3>4. s[Max(T)] = t[Max(T)]
      BY <2>2, <3>1 DEF Agree
    <3>5. /\ g[T] = g[T \ {Max(T)}] + s[Max(T)]
          /\ h[T] = h[T \ {Max(T)}] + t[Max(T)]
      BY <2>2, <2>4 DEF Sums
    <3> QED BY <3>3, <3>4, <3>5
  <2> QED BY <2>3, <2>4
<1> HIDE DEF S
<1>3. S = Nat
  BY <1>1, <1>2, SetInduction DEF S
<1>4. m \in S /\ 1 .. m \in SUBSET (1 .. m)
  BY <1>3
<1> QED BY <1>4 DEF S

LEMMA SumIs ==
  ASSUME NEW s \in Seq(Int), NEW g \in [SUBSET (1 .. Len(s)) -> Int], Sums(g, s, Len(s))
  PROVE  SumOf(s) = g[1 .. Len(s)]
<1> DEFINE F(f) == f = [T \in SUBSET (1 .. Len(s)) |->
                          IF T = {} THEN 0 ELSE f[T \ {Max(T)}] + s[Max(T)]]
           f0 == CHOOSE f : F(f)
<1>1. DOMAIN s = 1 .. Len(s)
  OBVIOUS
<1>2. SumOf(s) = f0[1 .. Len(s)]
  BY <1>1 DEF SumOf, FoldLeft, MapThenFoldSet
<1>3. F(g)
  BY DEF Sums
<1>4. F(f0)
  BY <1>3
<1> HIDE DEF f0
<1>5. Sums(f0, s, Len(s))
  <2>1. \A T \in SUBSET (1 .. Len(s)) :
          f0[T] = IF T = {} THEN 0 ELSE f0[T \ {Max(T)}] + s[Max(T)]
    BY <1>4
  <2> QED BY <2>1 DEF Sums
<1>6. Len(s) \in Nat /\ Len(s) <= Len(s) /\ Agree(s, s, Len(s))
  BY DEF Agree
<1>7. g[1 .. Len(s)] = f0[1 .. Len(s)]
  BY <1>5, <1>6, SumsUnique
<1> QED BY <1>2, <1>7

(* A sum of integers is one; an appended member is added. *)
LEMMA SumEmpty == SumOf(<<>>) = 0
<1> DEFINE g == [T \in SUBSET (1 .. 0) |-> 0]
<1>1. SUBSET (1 .. 0) = {{}} /\ <<>> \in Seq(Int) /\ Len(<<>>) = 0 /\ 1 .. 0 = {}
  OBVIOUS
<1>2. Sums(g, <<>>, 0) /\ g \in [SUBSET (1 .. 0) -> Int] /\ g[1 .. 0] = 0
  BY <1>1 DEF Sums
<1> HIDE DEF g
<1>3. SumOf(<<>>) = g[1 .. Len(<<>>)]
  BY <1>1, <1>2, SumIs
<1> QED BY <1>1, <1>2, <1>3

LEMMA SumType ==
  ASSUME NEW s \in Seq(Int)
  PROVE  SumOf(s) \in Int
<1>1. PICK g : g \in [SUBSET (1 .. Len(s)) -> Int] /\ Sums(g, s, Len(s))
  BY SumsExists DEF IntegerSums
<1>2. SumOf(s) = g[1 .. Len(s)]
  BY <1>1, SumIs
<1>3. 1 .. Len(s) \in SUBSET (1 .. Len(s))
  OBVIOUS
<1> QED BY <1>1, <1>2, <1>3

LEMMA SumLonger ==
  ASSUME NEW s \in Seq(Int), NEW t \in Seq(Int), Len(t) = Len(s) + 1, Agree(s, t, Len(s))
  PROVE  SumOf(t) = SumOf(s) + t[Len(t)]
<1>1. PICK g : g \in [SUBSET (1 .. Len(s)) -> Int] /\ Sums(g, s, Len(s))
  BY SumsExists DEF IntegerSums
<1>2. PICK h : h \in [SUBSET (1 .. Len(t)) -> Int] /\ Sums(h, t, Len(t))
  BY SumsExists DEF IntegerSums
<1>3. Len(s) \in Nat /\ Len(t) \in Nat /\ Len(s) <= Len(t)
  OBVIOUS
<1>4. g[1 .. Len(s)] = h[1 .. Len(s)]
  BY <1>1, <1>2, <1>3, SumsUnique
<1>5. h[1 .. Len(t)] = h[1 .. Len(s)] + t[Len(t)]
  <2> DEFINE T == 1 .. Len(t)
  <2>1. T # {} /\ T \in SUBSET (1 .. Len(t))
    <3>1. Len(t) \in T
      BY <1>3
    <3> QED BY <3>1
  <2>2. Max(T) = Len(t)
    <3>1. Max(T) \in T /\ \A i \in T : i <= Max(T)
      BY <1>3, <2>1, MaxOf
    <3>2. Len(t) <= Max(T) /\ Max(T) \in 1 .. Len(t)
      BY <1>3, <2>1, <3>1
    <3> QED BY <1>3, <3>2
  <2>3. T \ {Len(t)} = 1 .. Len(s)
    BY <1>3
  <2> HIDE DEF T
  <2>4. h[T] = h[T \ {Max(T)}] + t[Max(T)]
    BY <1>2, <2>1 DEF Sums
  <2> QED BY <2>2, <2>3, <2>4 DEF T
<1>6. SumOf(s) = g[1 .. Len(s)] /\ SumOf(t) = h[1 .. Len(t)]
  BY <1>1, <1>2, SumIs
<1> QED BY <1>4, <1>5, <1>6

LEMMA SumAppend ==
  ASSUME NEW s \in Seq(Int), NEW x \in Int
  PROVE  SumOf(Append(s, x)) = SumOf(s) + x
<1> DEFINE t == Append(s, x)
<1>1. t \in Seq(Int) /\ Len(t) = Len(s) + 1 /\ t[Len(t)] = x /\ Agree(s, t, Len(s))
  BY DEF Agree
<1> HIDE DEF t
<1>2. SumOf(t) = SumOf(s) + t[Len(t)]
  BY <1>1, SumLonger
<1> QED BY <1>1, <1>2 DEF t

-------------------------------------------------------------------------------
(* Communication: the wakeup.                                                *)

(* The initial state: the interrupt is on. *)
LEMMA WakeupStart == Init => NoLostWakeup
  BY DEF Init, NoLostWakeup

(* Only the interrupt handler switches the interrupt off, and only the task *)
(* takes a notification, which it does when it leaves "take".               *)
LEMMA WakeupStep == NoLostWakeup /\ [Next]_vars => NoLostWakeup'
<1> SUFFICES ASSUME NoLostWakeup, [Next]_vars PROVE NoLostWakeup'
  OBVIOUS
<1>1. ASSUME NEW isEnd \in BOOLEAN, BusByte(isEnd) PROVE NoLostWakeup'
  BY <1>1 DEF BusByte, NoLostWakeup
<1>2. CASE IsrDisable
  BY <1>2 DEF IsrDisable, NoLostWakeup
<1>3. CASE IsrGive
  BY <1>3 DEF IsrGive, NoLostWakeup
<1>4. CASE TaskStep
  <2>1. CASE NotifyTake
    BY <2>1 DEF NotifyTake, NoLostWakeup
  <2>2. CASE HandleBegin
    BY <2>2 DEF HandleBegin, NoLostWakeup
  <2>3. CASE ReadByte
    <3>1. task' \in {"store", "read"}
      BY <2>3 DEF ReadByte, AfterByte
    <3> QED BY <3>1 DEF NoLostWakeup
  <2>4. CASE ReadNoMore
    BY <2>4 DEF ReadNoMore, NoLostWakeup
  <2>5. CASE StoreFrame
    BY <2>5 DEF StoreFrame, NoLostWakeup
  <2>6. CASE CheckAvailable
    BY <2>6 DEF CheckAvailable, NoLostWakeup
  <2>7. CASE EnableReceiveCallback
    BY <2>7 DEF EnableReceiveCallback, IrqAfterLoop, NoLostWakeup
  <2> QED BY <1>4, <2>1, <2>2, <2>3, <2>4, <2>5, <2>6, <2>7 DEF TaskStep
<1>5. CASE MaintainReceive
  BY <1>5 DEF MaintainReceive, NoLostWakeup
<1>6. CASE StartCommunication
  BY <1>6 DEF StartCommunication, NoLostWakeup
<1>7. CASE StopCommunication
  BY <1>7 DEF StopCommunication, NoLostWakeup
<1>8. CASE UNCHANGED vars
  BY <1>8 DEF vars, NoLostWakeup
<1> QED BY <1>1, <1>2, <1>3, <1>4, <1>5, <1>6, <1>7, <1>8 DEF Next

(* communication_task never sleeps behind a receive interrupt that is off   *)
(* and that nobody tells it about, for any sizes of the buffers.            *)
THEOREM NoLostWakeupCorrect == Spec => []NoLostWakeup
  BY WakeupStart, WakeupStep, PTL DEF Spec
-------------------------------------------------------------------------------
(* What is on its way came from the bus. *)
FromBus == fifo \in Seq(1 .. n) /\ receiveBuffer \in Seq(1 .. n)

TInv == TypeOK /\ FromBus

LEMMA Elements ==
  ASSUME NEW S, NEW s \in Seq(S) PROVE \A j \in 1 .. Len(s) : s[j] \in S
OBVIOUS

LEMMA RangeType == ASSUME NEW S, NEW s \in Seq(S) PROVE Range(s) \subseteq S
<1>1. \A i \in DOMAIN s : s[i] \in S
  OBVIOUS
<1> QED BY <1>1 DEF Range

LEMMA BusByteTypes == ASSUME TInv, NEW isEnd \in BOOLEAN, BusByte(isEnd) PROVE TInv'
<1>a. n \in Nat /\ MaxBytes \in Nat /\ n' = n + 1 /\ n' \in 0 .. MaxBytes
  BY SizesAssumption DEF TInv, TypeOK, BusByte
<1>1. fifo \in Seq(1 .. n') /\ receiveBuffer' \in Seq(1 .. n')
  <2>1. 1 .. n \subseteq 1 .. n'
    BY <1>a
  <2>2. receiveBuffer' = receiveBuffer
    BY DEF BusByte, frames
  <2>3. fifo \in Seq(1 .. n) /\ receiveBuffer \in Seq(1 .. n)
    BY DEF TInv, FromBus
  <2> QED BY <2>1, <2>2, <2>3, SeqMonotonic
<1>2. fifo' \in Seq(1 .. n') /\ fifo' \in Seq(Positions) /\ Len(fifo') <= HwFifoSize
  <2>1. CASE Len(fifo) < HwFifoSize
    <3>1. fifo' = Append(fifo, n + 1) /\ n + 1 \in 1 .. n' /\ n + 1 \in Positions
      BY <1>a, <2>1 DEF BusByte, Positions
    <3>2. fifo \in Seq(Positions)
      BY DEF TInv, TypeOK
    <3> QED BY <1>1, <2>1, <3>1, <3>2, SizesAssumption
  <2>2. CASE ~(Len(fifo) < HwFifoSize)
    BY <2>2, <1>1 DEF TInv, TypeOK, BusByte
  <2> QED BY <2>1, <2>2
<1>3. ends \subseteq ends' /\ ends' \subseteq 1 .. n' /\ lost' \subseteq 1 .. n'
  <2>1. ends \subseteq 1 .. n /\ lost \subseteq 1 .. n
    BY DEF TInv, TypeOK
  <2>2. ends' \in {ends, ends \cup {n + 1}} /\ lost' \in {lost, lost \cup {n + 1}}
    BY DEF BusByte
  <2>3. 1 .. n \subseteq 1 .. n' /\ n + 1 \in 1 .. n'
    BY <1>a
  <2> QED BY <2>1, <2>2, <2>3
<1>4. UNCHANGED <<running, resumed, hasCallback, task, notified, irqEnabled, isr,
                  receiveBuffer, receiveList, decoded, delivered>>
  BY DEF BusByte, frames
<1>5. task' = "store" => receiveBuffer' # <<>> /\ Last(receiveBuffer') \in ends'
  BY <1>3, <1>4 DEF TInv, TypeOK
<1>6. TypeOK'
  BY <1>a, <1>2, <1>3, <1>4, <1>5 DEF TInv, TypeOK
<1> QED BY <1>1, <1>2, <1>6 DEF TInv, FromBus

(* After Room a byte fits into the receive buffer. *)
LEMMA RoomLeft ==
  ASSUME TInv
  PROVE  Room(receiveBuffer) \in Seq(1 .. n) /\ Len(Room(receiveBuffer)) < BufferSize
<1>1. receiveBuffer \in Seq(1 .. n) /\ Len(receiveBuffer) <= BufferSize
  BY DEF TInv, TypeOK, FromBus
<1>2. CASE Len(receiveBuffer) = BufferSize
  <2>1. Room(receiveBuffer) = <<>>
    BY <1>2 DEF Room
  <2> QED BY <2>1, SizesAssumption
<1>3. CASE Len(receiveBuffer) # BufferSize
  <2>1. Room(receiveBuffer) = receiveBuffer
    BY <1>3 DEF Room
  <2> QED BY <2>1, <1>1, <1>3, SizesAssumption
<1> QED BY <1>2, <1>3

LEMMA ReadByteTypes == ASSUME TInv, ReadByte PROVE TInv'
<1> DEFINE c == Head(fifo)
           kept == Room(receiveBuffer)
<1>a. /\ n \in Nat /\ n' = n /\ ends' = ends /\ receiveList' = receiveList
      /\ decoded' = decoded /\ delivered' = delivered /\ fifo' = Tail(fifo)
  BY SizesAssumption DEF TInv, TypeOK, ReadByte, shared
<1>b. receiveBuffer \in Seq(1 .. n) /\ Len(receiveBuffer) <= BufferSize /\ fifo \in Seq(1 .. n)
      /\ fifo # <<>>
  BY DEF TInv, TypeOK, FromBus, ReadByte
<1>1. c \in 1 .. n /\ fifo' \in Seq(1 .. n) /\ Len(fifo') <= HwFifoSize /\ fifo' \in Seq(Positions)
  BY <1>a, <1>b, SizesAssumption DEF TInv, TypeOK
<1>2. kept \in Seq(1 .. n) /\ Len(kept) < BufferSize
  BY RoomLeft
<1>3. receiveBuffer' = Append(kept, c)
  BY <1>2 DEF ReadByte
<1>c. lost' = lost \cup (Range(Append(receiveBuffer, c)) \ Range(receiveBuffer'))
  BY DEF ReadByte
<1> HIDE DEF c, kept
<1>4. /\ receiveBuffer' \in Seq(1 .. n) /\ Len(receiveBuffer') <= BufferSize
      /\ receiveBuffer' # <<>>
  BY <1>1, <1>2, <1>3, SizesAssumption
<1>5. receiveBuffer' \in Seq(Positions)
  <2>1. 1 .. n \subseteq Positions
    BY SizesAssumption DEF TInv, TypeOK, Positions
  <2> QED BY <1>4, <2>1, SeqMonotonic
<1>6. lost' \subseteq 1 .. n
  <2>1. Range(Append(receiveBuffer, c)) \subseteq 1 .. n
    <3>1. Append(receiveBuffer, c) \in Seq(1 .. n)
      BY <1>b, <1>1
    <3> QED BY <3>1, RangeType
  <2>2. lost \subseteq 1 .. n
    BY DEF TInv, TypeOK
  <2> QED BY <2>1, <2>2, <1>c
<1>7. task' = AfterByte(receiveBuffer')
  BY DEF ReadByte
<1>8. task' \in {"store", "read"} /\ (task' = "store" => Last(receiveBuffer') \in ends)
  BY <1>7 DEF AfterByte
<1> QED BY <1>a, <1>1, <1>4, <1>5, <1>6, <1>8 DEF TInv, TypeOK, FromBus, ReadByte, shared

LEMMA StoreFrameTypes == ASSUME TInv, StoreFrame PROVE TInv'
<1>1. receiveList' \in Seq(Seq(Positions)) /\ Len(receiveList') <= ListSize
  BY SizesAssumption DEF TInv, TypeOK, StoreFrame, Stored
<1>2. decoded' \in Seq(Seq(Positions))
  BY DEF TInv, TypeOK, StoreFrame
<1>3. receiveBuffer' = <<>>
  BY DEF StoreFrame, Cleared
<1> QED BY <1>1, <1>2, <1>3, SizesAssumption DEF TInv, TypeOK, FromBus, StoreFrame, shared

LEMMA MaintainTypes == ASSUME TInv, MaintainReceive PROVE TInv'
<1>1. delivered' \in Seq(Seq(Positions))
  BY DEF TInv, TypeOK, MaintainReceive
<1>2. receiveList' = <<>>
  BY DEF MaintainReceive, AfterMaintain
<1> QED BY <1>1, <1>2, SizesAssumption DEF TInv, TypeOK, FromBus, MaintainReceive, shared

LEMMA OtherTypes ==
  ASSUME TInv,
         \/ IsrDisable \/ IsrGive \/ NotifyTake \/ ReadNoMore \/ CheckAvailable
         \/ EnableReceiveCallback \/ StartCommunication \/ StopCommunication
         \/ HandleBegin \/ UNCHANGED vars
  PROVE  TInv'
<1>1. CASE IsrDisable \/ IsrGive
  BY <1>1 DEF IsrDisable, IsrGive, shared, frames, TInv, TypeOK, FromBus
<1>2. CASE NotifyTake \/ ReadNoMore \/ CheckAvailable
  BY <1>2 DEF NotifyTake, ReadNoMore, CheckAvailable, shared, frames, TInv, TypeOK, FromBus
<1>3. CASE EnableReceiveCallback
  BY <1>3 DEF EnableReceiveCallback, IrqAfterLoop, shared, frames, TInv, TypeOK, FromBus
<1>4. CASE StartCommunication \/ StopCommunication
  BY <1>4 DEF StartCommunication, StopCommunication, frames, TInv, TypeOK, FromBus
<1>5. CASE HandleBegin
  <2>1. task' \in {"check", "handle", "read"} /\ resumed' \in BOOLEAN
    BY <1>5 DEF HandleBegin, TInv, TypeOK
  <2> QED BY <1>5, <2>1 DEF HandleBegin, frames, TInv, TypeOK, FromBus
<1>6. CASE UNCHANGED vars
  BY <1>6 DEF vars, TInv, TypeOK, FromBus
<1> QED BY <1>1, <1>2, <1>3, <1>4, <1>5, <1>6

LEMMA TypesAlways == Spec => []TInv
<1>1. Init => TInv
  <2> SUFFICES ASSUME Init PROVE TInv
    OBVIOUS
  <2>1. /\ fifo = <<>> /\ receiveBuffer = <<>> /\ receiveList = <<>>
        /\ decoded = <<>> /\ delivered = <<>>
        /\ n = 0 /\ ends = {} /\ lost = {} /\ task = "take"
    BY DEF Init
  <2>2. /\ fifo \in Seq(Positions) /\ receiveBuffer \in Seq(Positions)
        /\ fifo \in Seq(1 .. n) /\ receiveBuffer \in Seq(1 .. n)
    BY <2>1
  <2>3. /\ receiveList \in Seq(Seq(Positions)) /\ decoded \in Seq(Seq(Positions))
        /\ delivered \in Seq(Seq(Positions))
    BY <2>1
  <2>4. Len(fifo) <= HwFifoSize /\ Len(receiveBuffer) <= BufferSize /\ Len(receiveList) <= ListSize
    BY <2>1, SizesAssumption
  <2>5. n \in 0 .. MaxBytes /\ ends \subseteq 1 .. n /\ lost \subseteq 1 .. n
    BY <2>1, SizesAssumption
  <2> QED BY <2>1, <2>2, <2>3, <2>4, <2>5 DEF Init, TInv, TypeOK, FromBus
<1>2. TInv /\ [Next]_vars => TInv'
  <2> SUFFICES ASSUME TInv, [Next]_vars PROVE TInv'
    OBVIOUS
  <2> QED BY BusByteTypes, ReadByteTypes, StoreFrameTypes, MaintainTypes, OtherTypes
          DEF Next, TaskStep
<1> QED BY <1>1, <1>2, PTL DEF Spec

(* Everything on the way is a byte of the bus, and neither the UART's FIFO,  *)
(* nor the receive buffer, nor the receive list takes more than it holds;    *)
(* a frame is stored only when its END_OF_FRAME came last.                   *)
THEOREM CommunicationTypeCorrect == Spec => []TypeOK
<1>1. TInv => TypeOK
  BY DEF TInv
<1> QED BY <1>1, TypesAlways, PTL

-------------------------------------------------------------------------------
(* Frames.                                                                   *)

OneEndIn(f) == {j \in 1 .. Len(f) : f[j] \in ends} = {Len(f)}

(* An END_OF_FRAME in the receive buffer is its last byte, and is about to   *)
(* be stored.                                                                *)
BufferEnds ==
  \A j \in 1 .. Len(receiveBuffer) :
    receiveBuffer[j] \in ends => j = Len(receiveBuffer) /\ task = "store"

DecodedFrames ==
  \A k \in 1 .. Len(decoded) : decoded[k] \in Seq(1 .. n) /\ OneEndIn(decoded[k])

FInv == BufferEnds /\ DecodedFrames

LEMMA BusByteFrames ==
  ASSUME TInv, FInv, NEW isEnd \in BOOLEAN, BusByte(isEnd) PROVE FInv'
<1>1. n \in Nat /\ n' = n + 1
  BY SizesAssumption DEF TInv, TypeOK, BusByte
<1>2. UNCHANGED <<receiveBuffer, decoded, task>>
  BY DEF BusByte, frames
<1>3. \A p \in 1 .. n : p \in ends' <=> p \in ends
  <2>1. ends' \in {ends, ends \cup {n + 1}}
    BY DEF BusByte
  <2> QED BY <1>1, <2>1
<1>4. BufferEnds'
  <2>1. \A j \in 1 .. Len(receiveBuffer) : receiveBuffer[j] \in 1 .. n
    <3>1. receiveBuffer \in Seq(1 .. n)
      BY DEF TInv, FromBus
    <3> QED BY <3>1, Elements
  <2> QED BY <1>2, <1>3, <2>1 DEF FInv, BufferEnds
<1>5. ASSUME NEW k \in 1 .. Len(decoded)
      PROVE  decoded[k] \in Seq(1 .. n') /\ OneEndIn(decoded[k])'
  <2>1. decoded[k] \in Seq(1 .. n) /\ OneEndIn(decoded[k])
    BY DEF FInv, DecodedFrames
  <2>2. 1 .. n \subseteq 1 .. n'
    BY <1>1
  <2>3. \A j \in 1 .. Len(decoded[k]) : decoded[k][j] \in 1 .. n
    BY <2>1, Elements
  <2>4. \A j \in 1 .. Len(decoded[k]) : decoded[k][j] \in ends' <=> decoded[k][j] \in ends
    BY <1>3, <2>3
  <2>5. OneEndIn(decoded[k])'
    BY <1>2, <2>1, <2>4 DEF OneEndIn
  <2> QED BY <2>1, <2>2, <2>5, SeqMonotonic
<1>6. DecodedFrames'
  BY <1>2, <1>5 DEF DecodedFrames
<1> QED BY <1>4, <1>6 DEF FInv

LEMMA ReadByteFrames == ASSUME TInv, FInv, ReadByte PROVE FInv'
<1> DEFINE c == Head(fifo)
           kept == Room(receiveBuffer)
<1>1. UNCHANGED <<n, ends, decoded>>
  BY DEF ReadByte, shared
<1>2. kept \in Seq(1 .. n) /\ Len(kept) < BufferSize
  BY RoomLeft
<1>3. receiveBuffer' = Append(kept, c) /\ task' = AfterByte(receiveBuffer')
  BY <1>2 DEF ReadByte
<1>4. \A j \in 1 .. Len(kept) : kept[j] \notin ends
  <2>1. kept = receiveBuffer \/ kept = <<>>
    BY DEF Room
  <2>2. task = "read"
    BY DEF ReadByte
  <2> QED BY <2>1, <2>2 DEF FInv, BufferEnds
<1> HIDE DEF c, kept
<1>5. BufferEnds'
  <2> SUFFICES ASSUME NEW j \in 1 .. Len(receiveBuffer'), receiveBuffer'[j] \in ends
               PROVE  j = Len(receiveBuffer') /\ task' = "store"
    BY <1>1 DEF BufferEnds
  <2>1. Len(receiveBuffer') = Len(kept) + 1 /\ Len(kept) \in Nat
    BY <1>2, <1>3
  <2>2. j = Len(receiveBuffer')
    <3>1. CASE j \in 1 .. Len(kept)
      <4>1. receiveBuffer'[j] = kept[j]
        BY <1>2, <1>3, <3>1
      <4> QED BY <4>1, <3>1, <1>4
    <3> QED BY <3>1, <2>1
  <2>3. Last(receiveBuffer') \in ends
    BY <2>2 DEF Last
  <2> QED BY <2>2, <2>3, <1>1, <1>3 DEF AfterByte
<1>6. DecodedFrames'
  BY <1>1 DEF FInv, DecodedFrames, OneEndIn
<1> QED BY <1>5, <1>6 DEF FInv

LEMMA StoreFrameFrames == ASSUME TInv, FInv, StoreFrame PROVE FInv'
<1>1. UNCHANGED <<n, ends>> /\ receiveBuffer' = <<>> /\ decoded' = Append(decoded, receiveBuffer)
  BY DEF StoreFrame, shared, Cleared
<1>2. receiveBuffer \in Seq(1 .. n) /\ receiveBuffer # <<>> /\ Last(receiveBuffer) \in ends
  BY DEF StoreFrame, TInv, TypeOK, FromBus
<1>3. OneEndIn(receiveBuffer)
  <2>1. Len(receiveBuffer) \in 1 .. Len(receiveBuffer)
    BY <1>2
  <2>2. receiveBuffer[Len(receiveBuffer)] \in ends
    BY <1>2 DEF Last
  <2> QED BY <2>1, <2>2 DEF OneEndIn, FInv, BufferEnds
<1>4. decoded \in Seq(Seq(Positions))
  BY DEF TInv, TypeOK
<1>5. ASSUME NEW k \in 1 .. Len(decoded')
      PROVE  decoded'[k] \in Seq(1 .. n) /\ OneEndIn(decoded'[k])
  <2>1. CASE k \in 1 .. Len(decoded)
    <3>1. decoded'[k] = decoded[k]
      BY <1>1, <1>4, <2>1
    <3> QED BY <3>1, <2>1 DEF FInv, DecodedFrames
  <2>2. CASE k = Len(decoded) + 1
    <3>1. decoded'[k] = receiveBuffer
      BY <1>1, <1>4, <2>2
    <3> QED BY <3>1, <1>2, <1>3
  <2> QED BY <2>1, <2>2, <1>1, <1>4
<1>6. DecodedFrames'
  BY <1>1, <1>5 DEF DecodedFrames, OneEndIn
<1>7. BufferEnds'
  BY <1>1 DEF BufferEnds
<1> QED BY <1>6, <1>7 DEF FInv

(* The other steps move no byte, and none of them leaves "store". *)
LEMMA OtherFrames ==
  ASSUME FInv,
         \/ IsrDisable \/ IsrGive \/ NotifyTake \/ ReadNoMore \/ CheckAvailable
         \/ EnableReceiveCallback \/ StartCommunication \/ StopCommunication
         \/ HandleBegin \/ MaintainReceive \/ UNCHANGED vars
  PROVE  FInv'
<1>1. UNCHANGED <<n, ends, receiveBuffer, decoded>>
  BY DEF IsrDisable, IsrGive, NotifyTake, ReadNoMore, CheckAvailable, EnableReceiveCallback,
         StartCommunication, StopCommunication, HandleBegin, MaintainReceive, vars, shared, frames
<1>2. task = "store" => task' = "store"
  BY DEF IsrDisable, IsrGive, NotifyTake, ReadNoMore, CheckAvailable, EnableReceiveCallback,
         StartCommunication, StopCommunication, HandleBegin, MaintainReceive, vars, shared, frames
<1>3. BufferEnds'
  BY <1>1, <1>2 DEF FInv, BufferEnds
<1>4. DecodedFrames'
  BY <1>1 DEF FInv, DecodedFrames, OneEndIn
<1> QED BY <1>3, <1>4 DEF FInv

(* commandHandling never decodes two frames as one, nor a frame that has not *)
(* ended, for any sizes of the buffers and whatever is lost.                 *)
THEOREM OneFrameCorrect == Spec => []OneFrameAtATime
<1>1. Init => FInv
  BY DEF Init, FInv, BufferEnds, DecodedFrames
<1>2. TInv /\ FInv /\ [Next]_vars => FInv'
  BY BusByteFrames, ReadByteFrames, StoreFrameFrames, OtherFrames DEF Next, TaskStep
<1>3. FInv => OneFrameAtATime
  BY DEF FInv, DecodedFrames, OneEndIn, OneFrameAtATime
<1> QED BY <1>1, <1>2, <1>3, TypesAlways, PTL DEF Spec
-------------------------------------------------------------------------------
(* The order of the frames that receive_cb gets.                             *)

given == delivered \o receiveList

Ascending(s) == \A j, k \in 1 .. Len(s) : j < k => s[j] < s[k]

Before(p) ==
  /\ \A j \in 1 .. Len(receiveBuffer) : p < receiveBuffer[j]
  /\ \A j \in 1 .. Len(fifo) : p < fifo[j]

(* The bytes that are not yet in a frame are in the order of the bus.        *)
BytesInOrder ==
  /\ Ascending(fifo)
  /\ \A j \in 1 .. Len(receiveBuffer), k \in 1 .. Len(fifo) : receiveBuffer[j] < fifo[k]

(* The frames given away ended before all of these.                          *)
GivenInOrder ==
  /\ \A k \in 1 .. Len(given) : Last(given[k]) \in 1 .. n /\ Before(Last(given[k]))
  /\ \A j, k \in 1 .. Len(given) : j < k => Last(given[j]) < Last(given[k])

GivenDecoded ==
  \A k \in 1 .. Len(given) : \E i \in 1 .. Len(decoded) : given[k] = decoded[i]

OInv == BytesInOrder /\ GivenInOrder /\ GivenDecoded

LEMMA GivenType == ASSUME TypeOK PROVE given \in Seq(Seq(Positions))
  BY DEF given, TypeOK

LEMMA BusByteOrder ==
  ASSUME TInv, OInv, NEW isEnd \in BOOLEAN, BusByte(isEnd) PROVE OInv'
<1>1. n \in Nat /\ n' = n + 1
  BY SizesAssumption DEF TInv, TypeOK, BusByte
<1>2. UNCHANGED <<receiveBuffer, receiveList, decoded, delivered, given>>
  BY DEF BusByte, frames, given
<1>3. fifo \in Seq(1 .. n) /\ receiveBuffer \in Seq(1 .. n)
  BY DEF TInv, FromBus
<1>4. /\ \A j \in 1 .. Len(fifo) : fifo[j] \in 1 .. n
      /\ \A j \in 1 .. Len(receiveBuffer) : receiveBuffer[j] \in 1 .. n
  BY <1>3, Elements
<1>5. CASE fifo' = fifo
  <2>1. BytesInOrder'
    BY <1>2, <1>5 DEF OInv, BytesInOrder, Ascending
  <2>2. GivenInOrder'
    BY <1>1, <1>2, <1>5 DEF OInv, GivenInOrder, Before
  <2>3. GivenDecoded'
    BY <1>2 DEF OInv, GivenDecoded
  <2> QED BY <2>1, <2>2, <2>3 DEF OInv
<1>6. CASE fifo' = Append(fifo, n + 1)
  <2>1. /\ Len(fifo') = Len(fifo) + 1 /\ Len(fifo) \in Nat
        /\ fifo'[Len(fifo) + 1] = n + 1
        /\ \A j \in 1 .. Len(fifo) : fifo'[j] = fifo[j]
    BY <1>3, <1>6
  <2>2. \A j \in 1 .. Len(fifo') : j = Len(fifo) + 1 \/ j \in 1 .. Len(fifo)
    BY <2>1
  <2>3. Ascending(fifo')
    BY <1>1, <1>4, <2>1, <2>2 DEF OInv, BytesInOrder, Ascending
  <2>4. \A j \in 1 .. Len(receiveBuffer), k \in 1 .. Len(fifo') : receiveBuffer[j] < fifo'[k]
    BY <1>1, <1>4, <2>1, <2>2 DEF OInv, BytesInOrder
  <2>5. BytesInOrder'
    BY <1>2, <2>3, <2>4 DEF BytesInOrder, Ascending
  <2>6. ASSUME NEW p \in 1 .. n, Before(p) PROVE Before(p)'
    BY <1>1, <1>2, <2>1, <2>2, <2>6 DEF Before
  <2>7. \A k \in 1 .. Len(given) : Last(given[k]) \in 1 .. n /\ Before(Last(given[k]))
    BY DEF OInv, GivenInOrder
  <2>8. \A k \in 1 .. Len(given) : Last(given[k]) \in 1 .. n' /\ Before(Last(given[k]))'
    <3>1. 1 .. n \subseteq 1 .. n'
      BY <1>1
    <3> QED BY <1>2, <2>6, <2>7, <3>1
  <2>9. GivenInOrder'
    BY <1>2, <2>8 DEF OInv, GivenInOrder
  <2>10. GivenDecoded'
    BY <1>2 DEF OInv, GivenDecoded
  <2> QED BY <2>5, <2>9, <2>10 DEF OInv
<1> QED BY <1>5, <1>6 DEF BusByte

LEMMA ReadByteOrder == ASSUME TInv, OInv, ReadByte PROVE OInv'
<1> DEFINE c == Head(fifo)
           kept == Room(receiveBuffer)
<1>1. UNCHANGED <<n, decoded, given>> /\ fifo' = Tail(fifo)
  BY DEF ReadByte, shared, given
<1>2. kept \in Seq(1 .. n) /\ Len(kept) < BufferSize
  BY RoomLeft
<1>3. receiveBuffer' = Append(kept, c)
  BY <1>2 DEF ReadByte
<1>4. fifo \in Seq(1 .. n) /\ fifo # <<>> /\ n \in Nat
  BY DEF TInv, TypeOK, FromBus, ReadByte
<1>5. /\ Len(fifo) \in Nat \ {0} /\ c = fifo[1] /\ Len(fifo') = Len(fifo) - 1
      /\ \A j \in 1 .. Len(fifo') : j + 1 \in 1 .. Len(fifo) /\ fifo'[j] = fifo[j + 1]
  BY <1>1, <1>4
<1>6. \A j \in 1 .. Len(kept) : j \in 1 .. Len(receiveBuffer) /\ kept[j] = receiveBuffer[j]
  <2>1. kept = receiveBuffer \/ kept = <<>>
    BY DEF Room
  <2> QED BY <2>1
<1> HIDE DEF c, kept
<1>7. \A j \in 1 .. Len(receiveBuffer') :
        \/ receiveBuffer'[j] = fifo[1]
        \/ j \in 1 .. Len(receiveBuffer) /\ receiveBuffer'[j] = receiveBuffer[j]
  <2>1. \A j \in 1 .. Len(receiveBuffer') :
          \/ j \in 1 .. Len(kept) /\ receiveBuffer'[j] = kept[j]
          \/ receiveBuffer'[j] = c
    BY <1>2, <1>3
  <2> QED BY <2>1, <1>5, <1>6
<1>8. /\ 1 \in 1 .. Len(fifo)
      /\ \A j \in 1 .. Len(fifo) : fifo[j] \in 1 .. n
  BY <1>4, <1>5, Elements
<1>9. Ascending(fifo')
  BY <1>5 DEF OInv, BytesInOrder, Ascending
<1>10. \A j \in 1 .. Len(fifo') : fifo[1] < fifo'[j]
  BY <1>5, <1>8 DEF OInv, BytesInOrder, Ascending
<1>11. \A j \in 1 .. Len(receiveBuffer'), k \in 1 .. Len(fifo') : receiveBuffer'[j] < fifo'[k]
  BY <1>5, <1>7, <1>10 DEF OInv, BytesInOrder
<1>12. BytesInOrder'
  BY <1>9, <1>11 DEF BytesInOrder, Ascending
<1>13. \A p : Before(p) => Before(p)'
  BY <1>5, <1>7, <1>8 DEF Before
<1>14. GivenInOrder'
  BY <1>1, <1>13 DEF OInv, GivenInOrder
<1>15. GivenDecoded'
  BY <1>1 DEF OInv, GivenDecoded
<1> QED BY <1>12, <1>14, <1>15 DEF OInv

LEMMA ConcatAppend ==
  ASSUME NEW S, NEW s \in Seq(S), NEW t \in Seq(S), NEW x \in S
  PROVE  s \o Append(t, x) = Append(s \o t, x)
OBVIOUS

LEMMA StoreFrameOrder == ASSUME TInv, OInv, StoreFrame PROVE OInv'
<1>1. /\ UNCHANGED <<n, fifo, delivered>> /\ receiveBuffer' = <<>>
      /\ decoded' = Append(decoded, receiveBuffer) /\ receiveList' = Stored(receiveBuffer)
  BY DEF StoreFrame, shared, Cleared
<1>2. /\ receiveBuffer \in Seq(1 .. n) /\ receiveBuffer # <<>> /\ n \in Nat
      /\ decoded \in Seq(Seq(Positions)) /\ receiveList \in Seq(Seq(Positions))
      /\ delivered \in Seq(Seq(Positions)) /\ given \in Seq(Seq(Positions))
  BY GivenType DEF StoreFrame, TInv, TypeOK, FromBus
<1>3. /\ Last(receiveBuffer) = receiveBuffer[Len(receiveBuffer)]
      /\ Len(receiveBuffer) \in 1 .. Len(receiveBuffer)
  BY <1>2 DEF Last
<1>4. PICK e \in 1 .. n : e = Last(receiveBuffer)
  BY <1>2, <1>3, Elements
<1>5. given' \in {given, Append(given, receiveBuffer)}
  <2>1. CASE receiveList' = receiveList
    BY <1>1, <2>1 DEF given
  <2>2. CASE receiveList' = Append(receiveList, receiveBuffer)
    <3>1. given' = delivered \o Append(receiveList, receiveBuffer)
      BY <1>1, <2>2 DEF given
    <3>2. receiveBuffer \in Seq(Positions)
      BY DEF TInv, TypeOK
    <3>3. delivered \o Append(receiveList, receiveBuffer)
            = Append(delivered \o receiveList, receiveBuffer)
      <4> DEFINE S == Seq(Positions)
      <4>1. delivered \in Seq(S) /\ receiveList \in Seq(S) /\ receiveBuffer \in S
        BY <1>2, <3>2
      <4> HIDE DEF S
      <4> QED BY <4>1, ConcatAppend
    <3>4. given' = Append(given, receiveBuffer)
      BY <3>1, <3>3 DEF given
    <3> QED BY <3>4
  <2> QED BY <1>1, <2>1, <2>2 DEF Stored
<1>6. BytesInOrder'
  BY <1>1 DEF OInv, BytesInOrder, Ascending
<1>7. \A p : Before(p) => Before(p)' /\ p < e
  BY <1>1, <1>3, <1>4 DEF Before
<1>8. Before(e)'
  BY <1>1, <1>3, <1>4 DEF Before, OInv, BytesInOrder
<1>9. \A k \in 1 .. Len(given') :
        \/ k \in 1 .. Len(given) /\ given'[k] = given[k]
        \/ k = Len(given) + 1 /\ given'[k] = receiveBuffer
  <2>1. receiveBuffer \in Seq(Positions)
    BY DEF TInv, TypeOK
  <2>2. CASE given' = given
    BY <1>2, <2>2
  <2>3. CASE given' = Append(given, receiveBuffer)
    BY <1>2, <2>1, <2>3
  <2> QED BY <1>5, <2>2, <2>3
<1>10. GivenInOrder'
  <2>1. ASSUME NEW k \in 1 .. Len(given')
        PROVE  Last(given'[k]) \in 1 .. n /\ Before(Last(given[k]))'
    <3>1. CASE k \in 1 .. Len(given) /\ given'[k] = given[k]
      <4>1. Last(given[k]) \in 1 .. n /\ Before(Last(given[k]))
        BY <3>1 DEF OInv, GivenInOrder
      <4>2. PICK p : p = Last(given[k])
        OBVIOUS
      <4>3. Before(p)'
        BY <4>1, <4>2, <1>7
      <4> QED BY <3>1, <4>1, <4>2, <4>3
    <3>2. CASE given'[k] = receiveBuffer
      BY <3>2, <1>4, <1>8
    <3> QED BY <1>9, <3>1, <3>2
  <2>2. ASSUME NEW j \in 1 .. Len(given'), NEW k \in 1 .. Len(given'), j < k
        PROVE  Last(given'[j]) < Last(given'[k])
    <3>1. CASE k \in 1 .. Len(given) /\ given'[k] = given[k]
      <4>1. j # Len(given) + 1
        BY <1>2, <2>2, <3>1
      <4>2. j \in 1 .. Len(given) /\ given'[j] = given[j]
        BY <1>9, <4>1
      <4> QED BY <2>2, <3>1, <4>2 DEF OInv, GivenInOrder
    <3>2. CASE k = Len(given) + 1 /\ given'[k] = receiveBuffer
      <4>1. j # Len(given) + 1
        BY <1>2, <2>2, <3>2
      <4>2. j \in 1 .. Len(given) /\ given'[j] = given[j]
        BY <1>9, <4>1
      <4> QED BY <1>4, <1>7, <3>2, <4>2 DEF OInv, GivenInOrder
    <3> QED BY <1>9, <3>1, <3>2
  <2> QED BY <1>1, <2>1, <2>2 DEF GivenInOrder
<1>11. GivenDecoded'
  <2>1. /\ Len(decoded') = Len(decoded) + 1 /\ Len(decoded) \in Nat
        /\ decoded'[Len(decoded) + 1] = receiveBuffer
        /\ \A i \in 1 .. Len(decoded) : decoded'[i] = decoded[i]
    BY <1>1, <1>2
  <2>2. ASSUME NEW k \in 1 .. Len(given')
        PROVE  \E i \in 1 .. Len(decoded') : given'[k] = decoded'[i]
    <3>1. CASE k \in 1 .. Len(given) /\ given'[k] = given[k]
      <4>1. PICK i \in 1 .. Len(decoded) : given[k] = decoded[i]
        BY <3>1 DEF OInv, GivenDecoded
      <4> QED BY <2>1, <3>1, <4>1
    <3>2. CASE given'[k] = receiveBuffer
      BY <2>1, <3>2
    <3> QED BY <1>9, <3>1, <3>2
  <2> QED BY <2>2 DEF GivenDecoded
<1> QED BY <1>6, <1>10, <1>11 DEF OInv

LEMMA MaintainOrder == ASSUME TInv, OInv, MaintainReceive PROVE OInv'
<1>1. /\ UNCHANGED <<n, fifo, receiveBuffer, decoded>> /\ receiveList' = <<>>
      /\ delivered' \in {delivered, delivered \o receiveList}
  BY DEF MaintainReceive, shared, AfterMaintain
<1>2. receiveList \in Seq(Seq(Positions)) /\ delivered \in Seq(Seq(Positions))
  BY DEF TInv, TypeOK
<1>3. Len(given') <= Len(given) /\ \A k \in 1 .. Len(given') : given'[k] = given[k]
  <2>1. CASE delivered' = delivered
    <3>1. given' = delivered
      BY <1>1, <1>2, <2>1 DEF given
    <3> QED BY <1>2, <3>1 DEF given
  <2>2. CASE delivered' = delivered \o receiveList
    <3>1. given' = given
      BY <1>1, <1>2, <2>2 DEF given
    <3>2. Len(given) \in Nat
      BY <1>2 DEF given
    <3> QED BY <3>1, <3>2
  <2> QED BY <1>1, <2>1, <2>2
<1>4. \A k \in 1 .. Len(given') : k \in 1 .. Len(given)
  <2>1. given \in Seq(Seq(Positions))
    BY GivenType DEF TInv
  <2>2. given' \in Seq(Seq(Positions))
    <3>1. delivered' \in Seq(Seq(Positions)) /\ receiveList' \in Seq(Seq(Positions))
      BY MaintainTypes DEF TInv, TypeOK, Positions
    <3> QED BY <3>1 DEF given
  <2> QED BY <1>3, <2>1, <2>2
<1>5. BytesInOrder'
  BY <1>1 DEF OInv, BytesInOrder, Ascending
<1>6. GivenInOrder'
  BY <1>1, <1>3, <1>4 DEF OInv, GivenInOrder, Before
<1>7. GivenDecoded'
  BY <1>1, <1>3, <1>4 DEF OInv, GivenDecoded
<1> QED BY <1>5, <1>6, <1>7 DEF OInv

LEMMA OtherOrder ==
  ASSUME OInv,
         \/ IsrDisable \/ IsrGive \/ NotifyTake \/ ReadNoMore \/ CheckAvailable
         \/ EnableReceiveCallback \/ StartCommunication \/ StopCommunication
         \/ HandleBegin \/ UNCHANGED vars
  PROVE  OInv'
<1>1. UNCHANGED <<n, fifo, receiveBuffer, receiveList, decoded, delivered>>
  BY DEF IsrDisable, IsrGive, NotifyTake, ReadNoMore, CheckAvailable, EnableReceiveCallback,
         StartCommunication, StopCommunication, HandleBegin, vars, shared, frames
<1>2. given' = given
  BY <1>1 DEF given
<1> QED BY <1>1, <1>2
        DEF OInv, BytesInOrder, Ascending, GivenInOrder, Before, GivenDecoded

(* receive_cb gets decoded frames only, in the order of the bus and none of  *)
(* them twice, however Maintain and the communication task interleave and    *)
(* whatever the list refuses.                                                *)
THEOREM DeliveredInOrderCorrect == Spec => []DeliveredInOrder
<1>1. Init => OInv
  BY DEF Init, OInv, BytesInOrder, Ascending, GivenInOrder, GivenDecoded, given
<1>2. TInv /\ OInv /\ [Next]_vars => OInv'
  BY BusByteOrder, ReadByteOrder, StoreFrameOrder, MaintainOrder, OtherOrder DEF Next, TaskStep
<1>3. TInv /\ OInv => DeliveredInOrder
  <2> SUFFICES ASSUME TInv, OInv PROVE DeliveredInOrder
    OBVIOUS
  <2>1. given \in Seq(Seq(Positions)) /\ decoded \in Seq(Seq(Positions))
    BY GivenType DEF TInv, TypeOK
  <2>2. Range(given) \subseteq Range(decoded)
    <3>1. DOMAIN given = 1 .. Len(given) /\ DOMAIN decoded = 1 .. Len(decoded)
      BY <2>1
    <3> QED BY <3>1 DEF OInv, GivenDecoded, Range
  <2> QED BY <2>2 DEF OInv, GivenInOrder, DeliveredInOrder, given
<1> QED BY <1>1, <1>2, <1>3, TypesAlways, PTL DEF Spec

-------------------------------------------------------------------------------
(* Where the bytes are.                                                      *)

LEMMA RangeOfConcat ==
  ASSUME NEW V, NEW s \in Seq(V), NEW t \in Seq(V)
  PROVE  Range(s \o t) = Range(s) \cup Range(t)
<1>1. /\ s \o t \in Seq(V) /\ Len(s \o t) = Len(s) + Len(t)
      /\ \A k \in 1 .. Len(s) + Len(t) : (s \o t)[k] = IF k <= Len(s) THEN s[k] ELSE t[k - Len(s)]
      /\ Len(s) \in Nat /\ Len(t) \in Nat
  BY ConcatProperties
<1>2. /\ DOMAIN s = 1 .. Len(s) /\ DOMAIN t = 1 .. Len(t)
      /\ DOMAIN (s \o t) = 1 .. Len(s) + Len(t)
  BY <1>1
<1>3. ASSUME NEW k \in 1 .. Len(s) + Len(t) PROVE (s \o t)[k] \in Range(s) \cup Range(t)
  <2>1. CASE k <= Len(s)
    BY <1>1, <1>2, <2>1 DEF Range
  <2>2. CASE ~(k <= Len(s))
    <3>1. k - Len(s) \in 1 .. Len(t)
      BY <1>1, <2>2
    <3> QED BY <1>1, <1>2, <2>2, <3>1 DEF Range
  <2> QED BY <2>1, <2>2
<1>4. ASSUME NEW k \in 1 .. Len(s) PROVE s[k] \in Range(s \o t)
  <2>1. k \in 1 .. Len(s) + Len(t) /\ (s \o t)[k] = s[k]
    BY <1>1
  <2> QED BY <1>2, <2>1 DEF Range
<1>5. ASSUME NEW k \in 1 .. Len(t) PROVE t[k] \in Range(s \o t)
  <2>1. /\ Len(s) + k \in 1 .. Len(s) + Len(t) /\ ~(Len(s) + k <= Len(s))
        /\ Len(s) + k - Len(s) = k
    BY <1>1
  <2>2. (s \o t)[Len(s) + k] = t[k]
    BY <1>1, <2>1
  <2> QED BY <1>2, <2>1, <2>2 DEF Range
<1> QED BY <1>2, <1>3, <1>4, <1>5 DEF Range

Below(S, T) == \A x \in S, y \in T : x < y

(* Two sequences put together are ascending if each is and one is below the *)
(* other.                                                                    *)
LEMMA AscendingConcat ==
  ASSUME NEW s \in Seq(Nat), NEW t \in Seq(Nat)
  PROVE  Ascending(s \o t) <=> Ascending(s) /\ Ascending(t) /\ Below(Range(s), Range(t))
<1>1. /\ Len(s \o t) = Len(s) + Len(t) /\ Len(s) \in Nat /\ Len(t) \in Nat
      /\ \A k \in 1 .. Len(s) : (s \o t)[k] = s[k]
      /\ \A k \in 1 .. Len(t) : (s \o t)[Len(s) + k] = t[k]
  BY ConcatJoins DEF Joined
<1>2. DOMAIN s = 1 .. Len(s) /\ DOMAIN t = 1 .. Len(t)
  OBVIOUS
<1> DEFINE u == s \o t
<1> HIDE DEF u
<1>3. ASSUME Ascending(u)
      PROVE  Ascending(s) /\ Ascending(t) /\ Below(Range(s), Range(t))
  <2>1. ASSUME NEW j \in 1 .. Len(s), NEW k \in 1 .. Len(s), j < k PROVE s[j] < s[k]
    <3>1. j \in 1 .. Len(u) /\ k \in 1 .. Len(u)
      BY <1>1 DEF u
    <3>2. u[j] < u[k]
      BY <1>3, <2>1, <3>1 DEF Ascending
    <3> QED BY <1>1, <3>2 DEF u
  <2>2. ASSUME NEW j \in 1 .. Len(t), NEW k \in 1 .. Len(t), j < k PROVE t[j] < t[k]
    <3>1. /\ Len(s) + j \in 1 .. Len(u) /\ Len(s) + k \in 1 .. Len(u) /\ Len(s) + j < Len(s) + k
      BY <1>1, <2>2 DEF u
    <3>2. u[Len(s) + j] < u[Len(s) + k]
      BY <1>3, <3>1 DEF Ascending
    <3> QED BY <1>1, <3>2 DEF u
  <2>3. ASSUME NEW j \in 1 .. Len(s), NEW k \in 1 .. Len(t) PROVE s[j] < t[k]
    <3>1. j \in 1 .. Len(u) /\ Len(s) + k \in 1 .. Len(u) /\ j < Len(s) + k
      BY <1>1 DEF u
    <3>2. u[j] < u[Len(s) + k]
      BY <1>3, <3>1 DEF Ascending
    <3> QED BY <1>1, <3>2 DEF u
  <2>4. Below(Range(s), Range(t))
    BY <1>2, <2>3 DEF Range, Below
  <2> QED BY <2>1, <2>2, <2>4 DEF Ascending
<1>4. ASSUME Ascending(s), Ascending(t), Below(Range(s), Range(t))
      PROVE  Ascending(u)
  <2> SUFFICES ASSUME NEW j \in 1 .. Len(u), NEW k \in 1 .. Len(u), j < k PROVE u[j] < u[k]
    BY DEF Ascending
  <2>1. CASE k <= Len(s)
    <3>1. j \in 1 .. Len(s) /\ k \in 1 .. Len(s)
      BY <1>1, <2>1
    <3>2. s[j] < s[k]
      BY <1>4, <3>1 DEF Ascending
    <3> QED BY <1>1, <3>1, <3>2 DEF u
  <2>2. CASE ~(k <= Len(s)) /\ j <= Len(s)
    <3>1. j \in 1 .. Len(s) /\ k - Len(s) \in 1 .. Len(t) /\ Len(s) + (k - Len(s)) = k
      BY <1>1, <2>2 DEF u
    <3>2. u[j] = s[j] /\ u[k] = t[k - Len(s)]
      <4>1. u[Len(s) + (k - Len(s))] = t[k - Len(s)]
        BY <1>1, <3>1 DEF u
      <4> QED BY <1>1, <3>1, <4>1 DEF u
    <3>3. s[j] \in Range(s) /\ t[k - Len(s)] \in Range(t)
      BY <1>2, <3>1 DEF Range
    <3> QED BY <1>4, <3>2, <3>3 DEF Below
  <2>3. CASE ~(j <= Len(s))
    <3>1. /\ j - Len(s) \in 1 .. Len(t) /\ Len(s) + (j - Len(s)) = j
          /\ k - Len(s) \in 1 .. Len(t) /\ Len(s) + (k - Len(s)) = k
          /\ j - Len(s) < k - Len(s)
      BY <1>1, <2>3 DEF u
    <3>2. u[Len(s) + (j - Len(s))] = t[j - Len(s)] /\ u[Len(s) + (k - Len(s))] = t[k - Len(s)]
      BY <1>1, <3>1 DEF u
    <3>3. t[j - Len(s)] < t[k - Len(s)]
      BY <1>4, <3>1 DEF Ascending
    <3> QED BY <3>1, <3>2, <3>3
  <2> QED BY <2>1, <2>2, <2>3
<1> QED BY <1>3, <1>4 DEF u

LEMMA OneMore ==
  ASSUME NEW V, NEW s \in Seq(V), NEW x \in V
  PROVE  Append(s, x) \in Seq(V) /\ Range(Append(s, x)) = Range(s) \cup {x}
<1> DEFINE one == <<x>>
<1>1. one \in Seq(V) /\ Range(one) = {x} /\ Append(s, x) = s \o one
      /\ Append(s, x) \in Seq(V)
  BY DEF Range
<1> HIDE DEF one
<1>2. Range(s \o one) = Range(s) \cup Range(one)
  BY <1>1, RangeOfConcat
<1> QED BY <1>1, <1>2 DEF one

(* The first byte of a sequence may as well be the last of the one before.   *)
LEMMA HeadMoves ==
  ASSUME NEW V, NEW s \in Seq(V), NEW t \in Seq(V), t # <<>>
  PROVE  Append(s, Head(t)) \o Tail(t) = s \o t
<1> DEFINE a == Append(s, Head(t))
           b == Tail(t)
           u == a \o b
           w == s \o t
<1>1. /\ Len(s) \in Nat /\ Len(t) \in Nat \ {0} /\ Head(t) = t[1] /\ t[1] \in V
      /\ b \in Seq(V) /\ Len(b) = Len(t) - 1 /\ \A k \in 1 .. Len(b) : b[k] = t[k + 1]
  OBVIOUS
<1>2. a \in Seq(V) /\ Len(a) = Len(s) + 1 /\ a[Len(s) + 1] = t[1]
      /\ \A k \in 1 .. Len(s) : a[k] = s[k]
  BY <1>1
<1> HIDE DEF a, b
<1>3. /\ u \in Seq(V) /\ Len(u) = Len(a) + Len(b)
      /\ \A k \in 1 .. Len(a) : u[k] = a[k]
      /\ \A k \in 1 .. Len(b) : u[Len(a) + k] = b[k]
  <2>1. u \in Seq(V) /\ Joined(u, a, b)
    BY <1>1, <1>2, ConcatJoins
  <2> QED BY <2>1 DEF Joined
<1>4. /\ w \in Seq(V) /\ Len(w) = Len(s) + Len(t)
      /\ \A k \in 1 .. Len(s) : w[k] = s[k]
      /\ \A k \in 1 .. Len(t) : w[Len(s) + k] = t[k]
  <2>1. w \in Seq(V) /\ Joined(w, s, t)
    BY ConcatJoins
  <2> QED BY <2>1 DEF Joined
<1> HIDE DEF u, w
<1>5. Len(u) = Len(w)
  BY <1>1, <1>2, <1>3, <1>4
<1>6. ASSUME NEW k \in 1 .. Len(u) PROVE u[k] = w[k]
  <2>1. CASE k <= Len(s)
    <3>1. k \in 1 .. Len(s) /\ k \in 1 .. Len(a)
      BY <1>1, <1>2, <2>1
    <3> QED BY <1>2, <1>3, <1>4, <3>1
  <2>2. CASE k = Len(s) + 1
    <3>1. 1 \in 1 .. Len(t) /\ Len(a) \in 1 .. Len(a) /\ k = Len(a)
      BY <1>1, <1>2, <2>2
    <3>2. w[Len(s) + 1] = t[1] /\ u[Len(a)] = a[Len(a)]
      BY <1>3, <1>4, <3>1
    <3> QED BY <1>2, <2>2, <3>1, <3>2
  <2>3. CASE k > Len(s) + 1
    <3>1. /\ k - Len(a) \in 1 .. Len(b) /\ Len(a) + (k - Len(a)) = k
          /\ k - Len(s) \in 1 .. Len(t) /\ Len(s) + (k - Len(s)) = k
          /\ (k - Len(a)) + 1 = k - Len(s)
      BY <1>1, <1>2, <1>3, <2>3
    <3>2. u[Len(a) + (k - Len(a))] = b[k - Len(a)] /\ w[Len(s) + (k - Len(s))] = t[k - Len(s)]
      BY <1>3, <1>4, <3>1
    <3>3. b[k - Len(a)] = t[(k - Len(a)) + 1]
      BY <1>1, <3>1
    <3> QED BY <3>1, <3>2, <3>3
  <2>4. k <= Len(s) \/ k = Len(s) + 1 \/ k > Len(s) + 1
    <3>1. Len(u) \in Nat /\ Len(s) \in Nat
      BY <1>1, <1>3
    <3> QED BY <3>1
  <2> QED BY <2>1, <2>2, <2>3, <2>4
<1>7. u = w
  BY <1>3, <1>4, <1>5, <1>6, SeqEqual
<1> QED BY <1>7 DEF u, w, a, b

InFrames == FlattenSeq(decoded)
keptBytes == InFrames \o receiveBuffer \o fifo

(* lost and s hold the bytes up to p, each once. *)
Split(s, gone, p) ==
  Ascending(s) /\ gone \cap Range(s) = {} /\ gone \cup Range(s) = 1 .. p

EInv == Split(keptBytes, lost, n)

LEMMA KeptTypes ==
  ASSUME TInv
  PROVE  /\ n \in Nat /\ lost \subseteq 1 .. n
         /\ InFrames \in Seq(Nat) /\ receiveBuffer \in Seq(Nat) /\ fifo \in Seq(Nat)
         /\ keptBytes \in Seq(Nat)
<1>1. /\ n \in Nat /\ lost \subseteq 1 .. n /\ decoded \in Seq(Seq(Positions))
      /\ receiveBuffer \in Seq(Positions) /\ fifo \in Seq(Positions)
  BY DEF TInv, TypeOK
<1>2. Positions \subseteq Nat
  BY DEF Positions
<1>3. InFrames \in Seq(Positions)
  BY <1>1, FlattenType DEF InFrames
<1>4. InFrames \in Seq(Nat) /\ receiveBuffer \in Seq(Nat) /\ fifo \in Seq(Nat)
  BY <1>1, <1>2, <1>3, SeqMonotonic
<1>5. keptBytes \in Seq(Nat)
  BY <1>4, ConcatProperties DEF keptBytes
<1> QED BY <1>1, <1>4, <1>5

LEMMA BusByteKept ==
  ASSUME TInv, EInv, NEW isEnd \in BOOLEAN, BusByte(isEnd) PROVE EInv'
<1>1. /\ n \in Nat /\ InFrames \in Seq(Nat) /\ receiveBuffer \in Seq(Nat) /\ fifo \in Seq(Nat)
      /\ keptBytes \in Seq(Nat) /\ lost \subseteq 1 .. n
  BY KeptTypes
<1>2. n' = n + 1 /\ UNCHANGED <<receiveBuffer, decoded, InFrames>>
  BY DEF BusByte, frames, InFrames
<1>3. Split(keptBytes, lost, n)
  BY DEF EInv
<1>4. 1 .. n + 1 = (1 .. n) \cup {n + 1} /\ n + 1 \notin 1 .. n
  BY <1>1
<1>5. CASE fifo' = Append(fifo, n + 1) /\ lost' = lost
  <2> DEFINE one == <<n + 1>>
  <2>1. one \in Seq(Nat) /\ Range(one) = {n + 1} /\ Ascending(one)
    BY <1>1 DEF Range, Ascending
  <2>2. fifo' = fifo \o one
    <3>1. n + 1 \in Nat
      BY <1>1
    <3> QED BY <1>1, <1>5, <3>1, AppendIsConcat
  <2> HIDE DEF one
  <2>3. keptBytes' = keptBytes \o one
    <3>1. InFrames \o receiveBuffer \in Seq(Nat)
      BY <1>1, ConcatProperties
    <3>2. keptBytes' = (InFrames \o receiveBuffer) \o (fifo \o one)
      BY <1>2, <2>2 DEF keptBytes
    <3>3. ASSUME NEW x \in Seq(Nat), NEW y \in Seq(Nat), NEW z \in Seq(Nat)
          PROVE  (x \o y) \o z = x \o (y \o z)
      BY ConcatAssociative
    <3>4. ((InFrames \o receiveBuffer) \o fifo) \o one = (InFrames \o receiveBuffer) \o (fifo \o one)
      BY <1>1, <2>1, <3>1, <3>3
    <3> QED BY <3>2, <3>4 DEF keptBytes
  <2>4. Range(keptBytes') = Range(keptBytes) \cup {n + 1}
    BY <1>1, <2>1, <2>3, RangeOfConcat
  <2>5. Below(Range(keptBytes), Range(one))
    <3>1. Range(keptBytes) \subseteq 1 .. n
      BY <1>3 DEF Split
    <3>2. \A x \in 1 .. n : x < n + 1
      BY <1>1
    <3> QED BY <2>1, <3>1, <3>2 DEF Below
  <2>6. Ascending(keptBytes')
    BY <1>1, <1>3, <2>1, <2>3, <2>5, AscendingConcat DEF Split
  <2> QED BY <1>1, <1>2, <1>3, <1>4, <1>5, <2>4, <2>6 DEF EInv, Split
<1>6. CASE fifo' = fifo /\ lost' = lost \cup {n + 1}
  <2>1. keptBytes' = keptBytes
    BY <1>2, <1>6 DEF keptBytes
  <2>2. Range(keptBytes) \subseteq 1 .. n
    BY <1>3 DEF Split
  <2> QED BY <1>1, <1>2, <1>3, <1>4, <1>6, <2>1, <2>2 DEF EInv, Split
<1> QED BY <1>5, <1>6 DEF BusByte

LEMMA ReadByteKept == ASSUME TInv, EInv, ReadByte PROVE EInv'
<1> DEFINE c == Head(fifo)
           a == InFrames
           b == receiveBuffer
<1>1. /\ n \in Nat /\ a \in Seq(Nat) /\ b \in Seq(Nat) /\ fifo \in Seq(Nat)
      /\ keptBytes \in Seq(Nat) /\ lost \subseteq 1 .. n
  BY KeptTypes
<1>2. /\ UNCHANGED <<n, decoded>> /\ a' = a /\ fifo # <<>> /\ fifo' = Tail(fifo)
      /\ lost' = lost \cup (Range(Append(b, c)) \ Range(b'))
  BY DEF ReadByte, shared, InFrames
<1>3. Split(keptBytes, lost, n) /\ keptBytes = (a \o b) \o fifo
  BY DEF EInv, keptBytes
<1>4. b' = Append(Room(b), c)
  <2>1. Len(Room(b)) < BufferSize
    BY RoomLeft
  <2> QED BY <2>1 DEF ReadByte
<1>5. c \in Nat /\ c \in Range(fifo) /\ Tail(fifo) \in Seq(Nat)
  <2>1. DOMAIN fifo = 1 .. Len(fifo) /\ 1 \in 1 .. Len(fifo) /\ c = fifo[1] /\ Tail(fifo) \in Seq(Nat)
        /\ c \in Nat
    BY <1>1, <1>2
  <2> QED BY <2>1 DEF Range
<1>6. keptBytes' = (a \o b') \o Tail(fifo)
  BY <1>2 DEF keptBytes
<1>7. /\ Append(b, c) \in Seq(Nat) /\ Range(Append(b, c)) = Range(b) \cup {c}
  <2> HIDE DEF b, c
  <2>1. b \in Seq(Nat) /\ c \in Nat
    BY <1>1, <1>5
  <2> QED BY <2>1, OneMore
<1>8. CASE Room(b) = b
  <2> HIDE DEF a, b, c
  <2>1. lost' = lost
    BY <1>2, <1>4, <1>8
  <2>2. a \o Append(b, c) = Append(a \o b, c) /\ a \o b \in Seq(Nat)
    BY <1>1, <1>5, ConcatAppend, ConcatProperties
  <2>3. Append(a \o b, c) \o Tail(fifo) = (a \o b) \o fifo
    BY <1>1, <1>2, <2>2, HeadMoves DEF c
  <2>4. keptBytes' = keptBytes
    BY <1>3, <1>4, <1>6, <1>8, <2>2, <2>3
  <2> QED BY <1>2, <1>3, <2>1, <2>4 DEF EInv
<1>9. CASE Room(b) = <<>>
  <2>1. b' = <<c>> /\ Range(b') = {c}
    BY <1>4, <1>9 DEF Range
  <2>2. a \o <<c>> = Append(a, c)
    BY <1>1, <1>5
  <2> HIDE DEF a, b, c
  <2>3. keptBytes' = a \o fifo
    <3>1. Append(a, c) \o Tail(fifo) = a \o fifo
      BY <1>1, <1>2, HeadMoves DEF c
    <3> QED BY <1>6, <2>1, <2>2, <3>1
  <2>4. /\ Ascending(a) /\ Ascending(fifo) /\ Below(Range(a), Range(fifo))
        /\ Below(Range(a), Range(b)) /\ Below(Range(b), Range(fifo))
        /\ Range(keptBytes) = Range(a) \cup Range(b) \cup Range(fifo)
        /\ Range(a \o fifo) = Range(a) \cup Range(fifo)
    <3>1. a \o b \in Seq(Nat)
      BY <1>1, ConcatProperties
    <3>2. /\ Range(a \o b) = Range(a) \cup Range(b)
          /\ Range(a \o fifo) = Range(a) \cup Range(fifo)
          /\ Range((a \o b) \o fifo) = Range(a \o b) \cup Range(fifo)
      <4>1. \A x, y \in Seq(Nat) : Range(x \o y) = Range(x) \cup Range(y)
        BY RangeOfConcat
      <4> QED BY <1>1, <3>1, <4>1
    <3>3. Ascending(a \o b) /\ Ascending(fifo) /\ Below(Range(a \o b), Range(fifo))
      BY <1>1, <1>3, <3>1, AscendingConcat DEF Split
    <3>4. Ascending(a) /\ Below(Range(a), Range(b))
      BY <1>1, <3>3, AscendingConcat
    <3> QED BY <1>3, <3>2, <3>3, <3>4 DEF Below
  <2>5. Ascending(a \o fifo)
    BY <1>1, <2>4, AscendingConcat
  <2>6. Range(a) \subseteq Nat /\ Range(b) \subseteq Nat /\ Range(fifo) \subseteq Nat
    BY <1>1, RangeType
  <2>7. Range(b) \cap Range(a) = {} /\ Range(b) \cap Range(fifo) = {}
    <3>1. ASSUME NEW x \in Range(b), x \in Range(a) \/ x \in Range(fifo) PROVE FALSE
      <4>1. x < x /\ x \in Nat
        BY <2>4, <2>6, <3>1 DEF Below
      <4> QED BY <4>1
    <3> QED BY <3>1
  <2>8. lost' = lost \cup Range(b)
    BY <1>2, <1>5, <1>7, <2>1, <2>7
  <2> QED BY <1>2, <1>3, <2>3, <2>4, <2>5, <2>7, <2>8 DEF EInv, Split
<1> QED BY <1>8, <1>9 DEF Room

LEMMA StoreFrameKept == ASSUME TInv, EInv, StoreFrame PROVE EInv'
<1>1. /\ UNCHANGED <<n, fifo, lost>> /\ receiveBuffer' = <<>>
      /\ decoded' = Append(decoded, receiveBuffer)
  BY DEF StoreFrame, shared, Cleared
<1>2. decoded \in Seq(Seq(Positions)) /\ receiveBuffer \in Seq(Positions)
  BY DEF TInv, TypeOK
<1>3. InFrames' = InFrames \o receiveBuffer
  BY <1>1, <1>2, FlattenAppend DEF InFrames
<1>4. InFrames \o receiveBuffer \in Seq(Nat)
  BY KeptTypes, ConcatProperties
<1>5. (InFrames \o receiveBuffer) \o <<>> = InFrames \o receiveBuffer
  BY <1>4
<1>6. keptBytes' = keptBytes
  BY <1>1, <1>3, <1>5 DEF keptBytes
<1> QED BY <1>1, <1>6 DEF EInv

LEMMA OtherKept ==
  ASSUME EInv,
         \/ IsrDisable \/ IsrGive \/ NotifyTake \/ ReadNoMore \/ CheckAvailable
         \/ EnableReceiveCallback \/ StartCommunication \/ StopCommunication
         \/ HandleBegin \/ MaintainReceive \/ UNCHANGED vars
  PROVE  EInv'
<1>1. UNCHANGED <<n, fifo, lost, receiveBuffer, decoded>>
  BY DEF IsrDisable, IsrGive, NotifyTake, ReadNoMore, CheckAvailable, EnableReceiveCallback,
         StartCommunication, StopCommunication, HandleBegin, MaintainReceive, vars, shared, frames
<1>2. keptBytes' = keptBytes
  BY <1>1 DEF keptBytes, InFrames
<1> QED BY <1>1, <1>2 DEF EInv

(* Every byte of the bus is in one place and in its order, for any sizes of  *)
(* FIFO and buffers, any frames and any losses.                              *)
THEOREM EveryByteOnceCorrect == Spec => []EveryByteOnce
<1>1. Init => EInv
  <2> SUFFICES ASSUME Init PROVE EInv
    OBVIOUS
  <2>1. decoded = <<>> /\ receiveBuffer = <<>> /\ fifo = <<>> /\ lost = {} /\ n = 0
    BY DEF Init
  <2>2. keptBytes = <<>>
    BY <2>1 DEF keptBytes, InFrames, FlattenSeq
  <2>3. Range(<<>>) = {} /\ Ascending(<<>>)
    BY DEF Range, Ascending
  <2> QED BY <2>1, <2>2, <2>3 DEF EInv, Split
<1>2. TInv /\ EInv /\ [Next]_vars => EInv'
  BY BusByteKept, ReadByteKept, StoreFrameKept, OtherKept DEF Next, TaskStep
<1>3. EInv => EveryByteOnce
  BY DEF EInv, Split, Ascending, keptBytes, InFrames, EveryByteOnce
<1> QED BY <1>1, <1>2, <1>3, TypesAlways, PTL DEF Spec

-------------------------------------------------------------------------------
(* The escaped form of a sequence.                                          *)

Byte == 0 .. 255

(* What one byte becomes. *)
Item(v) == IF Escaped(v) THEN <<ESC, 112 + (v % 16)>> ELSE <<v>>

LEMMA ItemType ==
  ASSUME NEW v \in Byte
  PROVE  Item(v) \in Seq(0 .. 254) /\ Len(Item(v)) = IF Escaped(v) THEN 2 ELSE 1
<1>1. CASE Escaped(v)
  <2>1. 112 + (v % 16) \in 0 .. 254
    BY DEF Byte
  <2> QED BY <1>1, <2>1 DEF Item, ESC
<1>2. CASE ~Escaped(v)
  BY <1>2 DEF Item, Escaped, ESC, Byte
<1> QED BY <1>1, <1>2

Items(s) == [j \in 1 .. Len(s) |-> Item(s[j])]

LEMMA StuffIsItems ==
  ASSUME NEW s
  PROVE  Stuff(s) = FlattenSeq(Items(s))
  BY DEF Stuff, Items, Item

LEMMA ItemsType ==
  ASSUME NEW s \in Seq(Byte)
  PROVE  Items(s) \in Seq(Seq(0 .. 254)) /\ Len(Items(s)) = Len(s)
<1>1. \A j \in 1 .. Len(s) : Item(s[j]) \in Seq(0 .. 254)
  BY ItemType
<1> QED BY <1>1 DEF Items

LEMMA ItemsAppend ==
  ASSUME NEW s \in Seq(Byte), NEW v \in Byte
  PROVE  Items(Append(s, v)) = Append(Items(s), Item(v))
<1> DEFINE t == Append(s, v)
           a == Items(t)
           b == Append(Items(s), Item(v))
<1>1. t \in Seq(Byte) /\ Len(t) = Len(s) + 1 /\ t[Len(s) + 1] = v
      /\ \A j \in 1 .. Len(s) : t[j] = s[j]
  OBVIOUS
<1>2. Item(v) \in Seq(0 .. 254)
  BY ItemType
<1>3. Items(s) \in Seq(Seq(0 .. 254)) /\ Len(Items(s)) = Len(s)
  BY ItemsType
<1>4. a \in Seq(Seq(0 .. 254)) /\ Len(a) = Len(s) + 1
  BY <1>1, ItemsType
<1>5. b \in Seq(Seq(0 .. 254)) /\ Len(b) = Len(s) + 1
  BY <1>2, <1>3, AppendProperties
<1>6. ASSUME NEW j \in 1 .. Len(s) + 1 PROVE a[j] = b[j]
  <2>1. a[j] = Item(t[j])
    BY <1>1 DEF Items
  <2>2. CASE j \in 1 .. Len(s)
    <3>1. b[j] = Items(s)[j]
      BY <1>2, <1>3, <2>2, AppendProperties
    <3>2. Items(s)[j] = Item(s[j])
      BY <2>2 DEF Items
    <3> QED BY <1>1, <2>1, <2>2, <3>1, <3>2
  <2>3. CASE j = Len(s) + 1
    <3>1. b[j] = Item(v)
      BY <1>2, <1>3, <2>3, AppendProperties
    <3> QED BY <1>1, <2>1, <2>3, <3>1
  <2>4. j \in 1 .. Len(s) \/ j = Len(s) + 1
    <3>1. Len(s) \in Nat
      OBVIOUS
    <3> QED BY <3>1
  <2> QED BY <2>2, <2>3, <2>4
<1> HIDE DEF a, b
<1>7. a = b
  BY <1>4, <1>5, <1>6, SeqEqual
<1> QED BY <1>7 DEF a, b, t

LEMMA StuffEmpty == Stuff(<<>>) = <<>>
<1>1. Items(<<>>) = <<>>
  BY DEF Items
<1> QED BY <1>1, StuffIsItems DEF FlattenSeq

LEMMA StuffType ==
  ASSUME NEW s \in Seq(Byte)
  PROVE  Stuff(s) \in Seq(0 .. 254)
<1>1. Items(s) \in Seq(Seq(0 .. 254))
  BY ItemsType
<1> QED BY <1>1, StuffIsItems, FlattenType

LEMMA StuffAppend ==
  ASSUME NEW s \in Seq(Byte), NEW v \in Byte
  PROVE  Stuff(Append(s, v)) = Stuff(s) \o Item(v)
<1>1. Items(s) \in Seq(Seq(0 .. 254)) /\ Item(v) \in Seq(0 .. 254)
  BY ItemsType, ItemType
<1>2. FlattenSeq(Append(Items(s), Item(v))) = FlattenSeq(Items(s)) \o Item(v)
  BY <1>1, FlattenAppend
<1> QED BY <1>2, ItemsAppend, StuffIsItems

(* The escaped form of the first i bytes. *)
Upto(s, i) == Stuff(SubSeq(s, 1, i))

LEMMA UptoType ==
  ASSUME NEW s \in Seq(Byte), NEW i \in 0 .. Len(s)
  PROVE  Upto(s, i) \in Seq(0 .. 254) /\ Upto(s, 0) = <<>> /\ Upto(s, Len(s)) = Stuff(s)
<1>1. SubSeq(s, 1, i) \in Seq(Byte)
  OBVIOUS
<1>2. SubSeq(s, 1, 0) = <<>> /\ SubSeq(s, 1, Len(s)) = s
  OBVIOUS
<1> QED BY <1>1, <1>2, StuffType, StuffEmpty DEF Upto

LEMMA UptoStep ==
  ASSUME NEW s \in Seq(Byte), NEW i \in 1 .. Len(s)
  PROVE  /\ Upto(s, i) = Upto(s, i - 1) \o Item(s[i])
         /\ Len(Upto(s, i)) = Len(Upto(s, i - 1)) + IF Escaped(s[i]) THEN 2 ELSE 1
<1> DEFINE t == SubSeq(s, 1, i - 1)
<1>1. t \in Seq(Byte) /\ s[i] \in Byte
  OBVIOUS
<1>2. SubSeq(s, 1, i) = Append(t, s[i])
  OBVIOUS
<1> HIDE DEF t
<1>3. Stuff(Append(t, s[i])) = Stuff(t) \o Item(s[i])
  BY <1>1, StuffAppend
<1>4. Upto(s, i) = Upto(s, i - 1) \o Item(s[i])
  BY <1>2, <1>3 DEF Upto, t
<1>5. /\ Item(s[i]) \in Seq(0 .. 254) /\ Len(Item(s[i])) = IF Escaped(s[i]) THEN 2 ELSE 1
      /\ Upto(s, i - 1) \in Seq(0 .. 254)
  <2>1. i - 1 \in 0 .. Len(s)
    OBVIOUS
  <2> QED BY <1>1, <2>1, ItemType, UptoType
<1> QED BY <1>4, <1>5, ConcatProperties

(* It only gets longer, and by at least a byte for each. *)
Extends(t, s) == Len(s) <= Len(t) /\ \A k \in 1 .. Len(s) : t[k] = s[k]

LEMMA UptoExtends ==
  ASSUME NEW s \in Seq(Byte), NEW i \in 0 .. Len(s)
  PROVE  Extends(Stuff(s), Upto(s, i))
<1> DEFINE S == {d \in Nat : i + d <= Len(s) => Extends(Upto(s, i + d), Upto(s, i))}
<1>1. 0 \in S
  <2>1. Upto(s, i) \in Seq(0 .. 254)
    BY UptoType
  <2>2. i + 0 = i
    OBVIOUS
  <2> QED BY <2>1, <2>2 DEF Extends
<1>2. ASSUME NEW d \in S PROVE d + 1 \in S
  <2>1. SUFFICES ASSUME i + (d + 1) <= Len(s)
                 PROVE  Extends(Upto(s, i + (d + 1)), Upto(s, i))
    OBVIOUS
  <2> DEFINE j == i + (d + 1)
  <2>2. j \in 1 .. Len(s) /\ i + d = j - 1 /\ j - 1 \in 0 .. Len(s)
    BY <2>1
  <2>3. Extends(Upto(s, j - 1), Upto(s, i))
    BY <2>1, <2>2
  <2> HIDE DEF j
  <2> DEFINE a == Upto(s, i)
             b == Upto(s, j - 1)
             e == Item(s[j])
  <2>4. a \in Seq(0 .. 254) /\ b \in Seq(0 .. 254) /\ e \in Seq(0 .. 254)
    <3>1. s[j] \in Byte
      BY <2>2
    <3> QED BY <2>2, <3>1, UptoType, ItemType
  <2>5. Upto(s, j) = b \o e
    BY <2>2, UptoStep
  <2> HIDE DEF a, b, e
  <2>6. Extends(b \o e, a)
    BY <2>3, <2>4 DEF Extends, a, b
  <2> QED BY <2>5, <2>6 DEF a, j
<1> HIDE DEF S
<1>3. S = Nat
  BY <1>1, <1>2, SetInduction DEF S
<1>4. Len(s) - i \in S /\ i + (Len(s) - i) = Len(s)
  <2>1. Len(s) \in Nat
    OBVIOUS
  <2> QED BY <1>3, <2>1
<1>5. Extends(Upto(s, Len(s)), Upto(s, i))
  BY <1>4 DEF S
<1> QED BY <1>5, UptoType

EscapesTo(s, i) == {j \in 1 .. i : Escaped(s[j])}

LEMMA UptoLength ==
  ASSUME NEW s \in Seq(Byte), NEW i \in 0 .. Len(s)
  PROVE  /\ Cardinality(EscapesTo(s, i)) \in Nat
         /\ Len(Upto(s, i)) = i + Cardinality(EscapesTo(s, i))
<1> DEFINE C(k) == Cardinality(EscapesTo(s, k))
           S == {k \in Nat : k <= Len(s) => Len(Upto(s, k)) = k + C(k)}
<1>1. \A k \in Nat : IsFiniteSet(EscapesTo(s, k)) /\ C(k) \in Nat
  <2>1. ASSUME NEW k \in Nat PROVE IsFiniteSet(EscapesTo(s, k))
    <3>1. IsFiniteSet(1 .. k) /\ EscapesTo(s, k) \subseteq 1 .. k
      BY FS_Interval DEF EscapesTo
    <3> QED BY <3>1, FS_Subset
  <2> QED BY <2>1, FS_CardinalityType
<1>2. 0 \in S
  <2>1. EscapesTo(s, 0) = {}
    BY DEF EscapesTo
  <2>2. Len(Upto(s, 0)) = 0
    BY UptoType
  <2>3. C(0) = 0
    BY <2>1, FS_EmptySet
  <2> HIDE DEF C
  <2> QED BY <2>2, <2>3
<1>3. ASSUME NEW k \in S PROVE k + 1 \in S
  <2>1. SUFFICES ASSUME k + 1 <= Len(s) PROVE Len(Upto(s, k + 1)) = k + 1 + C(k + 1)
    OBVIOUS
  <2>2. k + 1 \in 1 .. Len(s) /\ (k + 1) - 1 = k /\ k \in 0 .. Len(s)
    BY <2>1
  <2>3. Len(Upto(s, k + 1)) = Len(Upto(s, k)) + IF Escaped(s[k + 1]) THEN 2 ELSE 1
    BY <2>2, UptoStep
  <2>4. C(k + 1) = C(k) + IF Escaped(s[k + 1]) THEN 1 ELSE 0
    <3>1. CASE Escaped(s[k + 1])
      <4>1. EscapesTo(s, k + 1) = EscapesTo(s, k) \cup {k + 1} /\ k + 1 \notin EscapesTo(s, k)
        BY <3>1 DEF EscapesTo
      <4> QED BY <1>1, <3>1, <4>1, FS_AddElement
    <3>2. CASE ~Escaped(s[k + 1])
      <4>1. EscapesTo(s, k + 1) = EscapesTo(s, k)
        BY <3>2 DEF EscapesTo
      <4> QED BY <1>1, <3>2, <4>1
    <3> QED BY <3>1, <3>2
  <2>5. Len(Upto(s, k)) = k + C(k) /\ C(k) \in Nat
    BY <1>1, <2>2
  <2> HIDE DEF C
  <2> QED BY <2>3, <2>4, <2>5
<1> HIDE DEF S
<1>4. S = Nat
  BY <1>2, <1>3, SetInduction DEF S
<1>5. i \in S /\ i \in Nat /\ i <= Len(s)
  BY <1>4
<1>6. Len(Upto(s, i)) = i + C(i)
  BY <1>5 DEF S
<1> QED BY <1>1, <1>5, <1>6

-------------------------------------------------------------------------------
(* Checksum and frames.                                                     *)

LEMMA SumFromIs ==
  ASSUME NEW s, NEW i
  PROVE  SumFrom(s, i) = SumOf(SubSeq(s, i, Len(s)))
  BY DEF SumFrom, SumOf

LEMMA ChecksumType ==
  ASSUME NEW s \in Seq(Int), Len(s) >= 2
  PROVE  SumFrom(s, 3) \in Int /\ Checksum(s) \in Byte
<1>1. SubSeq(s, 3, Len(s)) \in Seq(Int)
  OBVIOUS
<1>2. SumFrom(s, 3) \in Int
  BY <1>1, SumFromIs, SumType
<1>3. \A x \in Int : (1 - x) % 256 \in 0 .. 255
  OBVIOUS
<1> QED BY <1>2, <1>3 DEF Checksum, Byte

LEMMA PlainIsByte ==
  ASSUME NEW s \in Seq(0 .. 254)
  PROVE  s \in Seq(Byte) /\ s \in Seq(Int)
<1>1. 0 .. 254 \subseteq Byte /\ 0 .. 254 \subseteq Int
  BY DEF Byte
<1> QED BY <1>1, SeqMonotonic

LEMMA TailOfConcat ==
  ASSUME NEW V, NEW s \in Seq(V), NEW c \in Seq(V), NEW i \in 1 .. Len(s) + 1
  PROVE  SubSeq(s \o c, i, Len(s \o c)) = SubSeq(s, i, Len(s)) \o c
<1> DEFINE a == SubSeq(s \o c, i, Len(s \o c))
           t == SubSeq(s, i, Len(s))
           b == t \o c
<1>1. Len(s) \in Nat /\ Len(c) \in Nat /\ i \in Nat /\ i <= Len(s) + 1
  OBVIOUS
<1>2. s \o c \in Seq(V) /\ Len(s \o c) = Len(s) + Len(c)
      /\ \A k \in 1 .. Len(s) + Len(c) :
           (s \o c)[k] = IF k <= Len(s) THEN s[k] ELSE c[k - Len(s)]
  BY ConcatProperties
<1>3. a \in Seq(V) /\ Len(a) = Len(s) + Len(c) + 1 - i
      /\ \A k \in 1 .. Len(a) : a[k] = (s \o c)[k + i - 1]
  BY <1>1, <1>2
<1>4. t \in Seq(V) /\ Len(t) = Len(s) + 1 - i /\ \A k \in 1 .. Len(t) : t[k] = s[k + i - 1]
  BY <1>1
<1> HIDE DEF a, t
<1>5. b \in Seq(V) /\ Len(b) = Len(t) + Len(c)
      /\ \A k \in 1 .. Len(t) + Len(c) : b[k] = IF k <= Len(t) THEN t[k] ELSE c[k - Len(t)]
  BY <1>4, ConcatProperties
<1> HIDE DEF b
<1>6. ASSUME NEW k \in 1 .. Len(a) PROVE a[k] = b[k]
  <2>1. k + i - 1 \in 1 .. Len(s) + Len(c)
    BY <1>1, <1>3
  <2>2. CASE k <= Len(t)
    <3>1. k + i - 1 <= Len(s) /\ k \in 1 .. Len(t) /\ k \in 1 .. Len(t) + Len(c)
      BY <1>1, <1>4, <2>2
    <3> QED BY <1>2, <1>3, <1>4, <1>5, <2>1, <2>2, <3>1
  <2>3. CASE ~(k <= Len(t))
    <3>1. ~(k + i - 1 <= Len(s)) /\ k \in 1 .. Len(t) + Len(c)
          /\ k + i - 1 - Len(s) = k - Len(t)
      BY <1>1, <1>3, <1>4, <2>3
    <3>2. a[k] = c[k + i - 1 - Len(s)]
      BY <1>2, <1>3, <2>1, <3>1
    <3>3. b[k] = c[k - Len(t)]
      BY <1>5, <2>3, <3>1
    <3> QED BY <3>1, <3>2, <3>3
  <2> QED BY <2>2, <2>3
<1>7. Len(a) = Len(b)
  BY <1>1, <1>3, <1>4, <1>5
<1>8. a = b
  BY <1>3, <1>5, <1>6, <1>7, SeqEqual
<1> QED BY <1>8 DEF a, b, t

(* The checksum takes one byte or two, which are no END_OF_FRAME; behind    *)
(* the escape of a checksum above 0xFA is a small one.                      *)
LEMMA ChecksumBytesType ==
  ASSUME NEW cs \in Byte
  PROVE  /\ ChecksumBytes(cs) \in Seq(0 .. 254)
         /\ cs > ESC => ChecksumBytes(cs) = <<ESC, cs - ESC>> /\ cs - ESC \in 1 .. 5
         /\ ~(cs > ESC) => ChecksumBytes(cs) = <<cs>> /\ cs \in 0 .. ESC
         /\ Len(ChecksumBytes(cs)) \in 1 .. 2
<1>1. CASE cs > ESC
  <2>1. ESC \in 0 .. 254 /\ cs - ESC \in 1 .. 5
    BY <1>1 DEF ESC, Byte
  <2> QED BY <1>1, <2>1 DEF ChecksumBytes
<1>2. CASE ~(cs > ESC)
  <2>1. cs \in 0 .. 254 /\ cs \in 0 .. ESC
    BY <1>2 DEF ESC, Byte
  <2> QED BY <1>2, <2>1 DEF ChecksumBytes
<1> QED BY <1>1, <1>2

(* A body with checksum and end. *)
Closed(s) == s \o ChecksumBytes(Checksum(s)) \o <<END_OF_FRAME>>

LEMMA ClosedShape ==
  ASSUME NEW s \in Seq(0 .. 254), Len(s) >= 2
  PROVE  LET c == ChecksumBytes(Checksum(s)) IN
         /\ Closed(s) \in Seq(Byte)
         /\ Len(Closed(s)) = Len(s) + Len(c) + 1
         /\ \A k \in 1 .. Len(s) : Closed(s)[k] = s[k]
         /\ \A k \in 1 .. Len(c) : Closed(s)[Len(s) + k] = c[k]
         /\ Closed(s)[Len(s) + Len(c) + 1] = END_OF_FRAME
         /\ \A k \in 1 .. Len(s) + Len(c) : Closed(s)[k] \in 0 .. 254
         /\ SubSeq(Closed(s), 1, Len(s) + Len(c)) = s \o c
<1> DEFINE c == ChecksumBytes(Checksum(s))
<1>1. c \in Seq(0 .. 254)
  <2>1. s \in Seq(Int)
    BY PlainIsByte
  <2> QED BY <2>1, ChecksumType, ChecksumBytesType
<1>2. Closed(s) = s \o c \o <<END_OF_FRAME>>
  BY DEF Closed
<1> HIDE DEF c
<1> DEFINE d == s \o c
           f == d \o <<END_OF_FRAME>>
<1>3. /\ d \in Seq(0 .. 254) /\ Len(d) = Len(s) + Len(c)
      /\ \A k \in 1 .. Len(s) : d[k] = s[k]
      /\ \A k \in 1 .. Len(c) : d[Len(s) + k] = c[k]
  BY <1>1
<1> HIDE DEF d
<1>4. d \in Seq(Byte) /\ <<END_OF_FRAME>> \in Seq(Byte)
  <2>1. <<END_OF_FRAME>> \in Seq(Byte)
    BY DEF Byte, END_OF_FRAME
  <2> QED BY <1>3, <2>1, PlainIsByte
<1>5. /\ f \in Seq(Byte) /\ Len(f) = Len(d) + 1 /\ f[Len(d) + 1] = END_OF_FRAME
      /\ \A k \in 1 .. Len(d) : f[k] = d[k]
  BY <1>4
<1>6. SubSeq(f, 1, Len(d)) = d
  BY <1>4, <1>5
<1> HIDE DEF f
<1>7. Closed(s) = f
  BY <1>2 DEF f, d
<1>8. /\ \A k \in 1 .. Len(s) : f[k] = s[k]
      /\ \A k \in 1 .. Len(c) : f[Len(s) + k] = c[k]
      /\ \A k \in 1 .. Len(d) : f[k] \in 0 .. 254
  <2>1. /\ \A k \in 1 .. Len(s) : k \in 1 .. Len(d)
        /\ \A k \in 1 .. Len(c) : Len(s) + k \in 1 .. Len(d)
    BY <1>1, <1>3
  <2>2. \A k \in 1 .. Len(d) : d[k] \in 0 .. 254
    BY <1>3, ElementOfSeq
  <2> QED BY <1>3, <1>5, <2>1, <2>2
<1>9. SubSeq(f, 1, Len(s) + Len(c)) = s \o c
  BY <1>3, <1>6 DEF d
<1> QED BY <1>3, <1>5, <1>7, <1>8, <1>9 DEF c

(* The bytes of a closed frame add up to 1, without MK3_ID and end. *)
LEMMA ClosedSum ==
  ASSUME NEW s \in Seq(0 .. 254), Len(s) >= 2
  PROVE  SumFrom(s \o ChecksumBytes(Checksum(s)), 3) % 256 = 1
<1> DEFINE t == SubSeq(s, 3, Len(s))
           cs == Checksum(s)
           c == ChecksumBytes(cs)
<1>1. s \in Seq(Int) /\ t \in Seq(Int)
  <2>1. s \in Seq(Int)
    BY PlainIsByte
  <2> QED BY <2>1
<1>2. SumOf(t) \in Int /\ cs = (1 - SumOf(t)) % 256 /\ cs \in Byte
  BY <1>1, SumType, SumFromIs, ChecksumType DEF Checksum
<1>3. c \in Seq(0 .. 254) /\ c \in Seq(Int)
  BY <1>2, ChecksumBytesType, PlainIsByte
<1>4. SumFrom(s \o c, 3) = SumOf(t \o c)
  <2>1. 3 \in 1 .. Len(s) + 1
    OBVIOUS
  <2> HIDE DEF c
  <2>2. SubSeq(s \o c, 3, Len(s \o c)) = t \o c
    BY <1>1, <1>3, <2>1, TailOfConcat
  <2> QED BY <2>2, SumFromIs
<1>5. SumOf(t \o c) = SumOf(t) + cs
  <2>1. CASE cs > ESC
    <3>1. c = <<ESC, cs - ESC>> /\ ESC \in Int /\ cs - ESC \in Int /\ cs \in Int
      BY <1>2, <2>1 DEF ChecksumBytes, Byte, ESC
    <3> HIDE DEF cs, c, t
    <3>2. t \o c = Append(Append(t, ESC), cs - ESC) /\ Append(t, ESC) \in Seq(Int)
      BY <1>1, <3>1
    <3>3. SumOf(t \o c) = SumOf(Append(t, ESC)) + (cs - ESC)
      BY <3>1, <3>2, SumAppend
    <3>4. SumOf(Append(t, ESC)) = SumOf(t) + ESC
      BY <1>1, <3>1, SumAppend
    <3> QED BY <1>2, <3>1, <3>3, <3>4
  <2>2. CASE ~(cs > ESC)
    <3>1. c = <<cs>> /\ cs \in Int
      BY <1>2, <2>2 DEF ChecksumBytes, Byte
    <3> HIDE DEF cs, c, t
    <3>2. t \o c = Append(t, cs)
      BY <1>1, <3>1
    <3> QED BY <1>1, <3>1, <3>2, SumAppend
  <2> QED BY <2>1, <2>2
<1> HIDE DEF t, cs
<1>6. (SumOf(t) + cs) % 256 = 1
  <2>1. \A x \in Int : (x + ((1 - x) % 256)) % 256 = 1
    OBVIOUS
  <2> QED BY <1>2, <2>1
<1> QED BY <1>4, <1>5, <1>6 DEF cs

(* Where the bytes of one item are in the escaped form. *)
LEMMA ItemAt ==
  ASSUME NEW s \in Seq(Byte), NEW i \in 1 .. Len(s)
  PROVE  LET before == Len(Upto(s, i - 1))
             v      == s[i]
         IN  /\ before \in Nat /\ before >= i - 1 /\ v \in Byte
             /\ Escaped(v) =>
                  /\ Len(Upto(s, i)) = before + 2 /\ before + 2 <= Len(Stuff(s))
                  /\ Stuff(s)[before + 1] = ESC
                  /\ Stuff(s)[before + 2] = 112 + (v % 16)
             /\ ~Escaped(v) =>
                  /\ Len(Upto(s, i)) = before + 1 /\ before + 1 <= Len(Stuff(s))
                  /\ Stuff(s)[before + 1] = v
<1> DEFINE a == Upto(s, i - 1)
           e == Item(s[i])
           u == Upto(s, i)
<1>1. i - 1 \in 0 .. Len(s) /\ i \in 0 .. Len(s) /\ s[i] \in Byte
  OBVIOUS
<1>2. a \in Seq(0 .. 254) /\ u \in Seq(0 .. 254) /\ Stuff(s) \in Seq(0 .. 254)
      /\ e \in Seq(0 .. 254) /\ Len(e) = IF Escaped(s[i]) THEN 2 ELSE 1
  BY <1>1, UptoType, StuffType, ItemType
<1>3. u = a \o e
  BY UptoStep
<1>4. Len(u) <= Len(Stuff(s)) /\ \A k \in 1 .. Len(u) : Stuff(s)[k] = u[k]
  BY <1>1, UptoExtends DEF Extends
<1>5. Len(a) >= i - 1
  <2>1. Len(a) = i - 1 + Cardinality(EscapesTo(s, i - 1)) /\ Cardinality(EscapesTo(s, i - 1)) \in Nat
    BY <1>1, UptoLength
  <2> QED BY <1>1, <2>1
<1>6. Escaped(s[i]) => e = <<ESC, 112 + (s[i] % 16)>>
  BY DEF Item
<1>7. ~Escaped(s[i]) => e = <<s[i]>>
  BY DEF Item
<1> HIDE DEF a, e, u
<1>8. Len(u) = Len(a) + Len(e) /\ \A k \in 1 .. Len(e) : u[Len(a) + k] = e[k]
  <2>1. Joined(u, a, e)
    BY <1>2, <1>3, ConcatJoins
  <2> QED BY <2>1 DEF Joined
<1>9. Len(a) \in Nat /\ Len(u) \in Nat /\ Len(Stuff(s)) \in Nat
  BY <1>2
<1>10. ASSUME Escaped(s[i])
       PROVE  /\ Len(u) = Len(a) + 2 /\ Len(a) + 2 <= Len(Stuff(s))
              /\ Stuff(s)[Len(a) + 1] = ESC
              /\ Stuff(s)[Len(a) + 2] = 112 + (s[i] % 16)
  <2>1. Len(e) = 2 /\ e[1] = ESC /\ e[2] = 112 + (s[i] % 16)
    BY <1>2, <1>6, <1>10
  <2>2. u[Len(a) + 1] = e[1] /\ u[Len(a) + 2] = e[2] /\ Len(u) = Len(a) + 2
    BY <1>8, <2>1
  <2>3. Len(a) + 1 \in 1 .. Len(u) /\ Len(a) + 2 \in 1 .. Len(u)
    BY <1>9, <2>2
  <2> QED BY <1>4, <1>9, <2>1, <2>2, <2>3
<1>11. ASSUME ~Escaped(s[i])
       PROVE  /\ Len(u) = Len(a) + 1 /\ Len(a) + 1 <= Len(Stuff(s))
              /\ Stuff(s)[Len(a) + 1] = s[i]
  <2>1. Len(e) = 1 /\ e[1] = s[i]
    BY <1>2, <1>7, <1>11
  <2>2. u[Len(a) + 1] = e[1] /\ Len(u) = Len(a) + 1
    BY <1>8, <2>1
  <2>3. Len(a) + 1 \in 1 .. Len(u)
    BY <1>9, <2>2
  <2> QED BY <1>4, <1>9, <2>1, <2>2, <2>3
<1> QED BY <1>1, <1>5, <1>9, <1>10, <1>11 DEF a, u

-------------------------------------------------------------------------------
(* Sending.                                                                 *)

(* What prepareCommand writes. *)
Request(nr) == MK3_ID \o <<DATA_FRAME, nr>> \o payload

LEMMA RequestShape ==
  ASSUME NEW nr \in 0 .. 127, payload \in Seq(Byte)
  PROVE  /\ Request(nr) \in Seq(Byte) /\ Len(Request(nr)) = 4 + Len(payload)
         /\ \A k \in 1 .. 3 : Request(nr)[k] = (MK3_ID \o <<DATA_FRAME>>)[k]
         /\ \A k \in 1 .. Len(payload) : Request(nr)[4 + k] = payload[k]
<1> DEFINE h  == MK3_ID \o <<DATA_FRAME, nr>>
           id == MK3_ID \o <<DATA_FRAME>>
<1>1. /\ h \in Seq(Byte) /\ Len(h) = 4
      /\ h[1] = id[1] /\ h[2] = id[2] /\ h[3] = id[3]
  BY DEF MK3_ID, DATA_FRAME, Byte
<1>2. Request(nr) = h \o payload
  BY DEF Request
<1> HIDE DEF h, id
<1>3. Len(payload) \in Nat
  OBVIOUS
<1>4. /\ h \o payload \in Seq(Byte) /\ Len(h \o payload) = 4 + Len(payload)
      /\ \A k \in 1 .. 4 : (h \o payload)[k] = h[k]
      /\ \A k \in 1 .. Len(payload) : (h \o payload)[4 + k] = payload[k]
  <2>1. h \o payload \in Seq(Byte) /\ Joined(h \o payload, h, payload)
    BY <1>1, ConcatJoins
  <2> QED BY <1>1, <2>1 DEF Joined
<1>5. ASSUME NEW k \in 1 .. 3 PROVE (h \o payload)[k] = id[k]
  <2>1. k \in 1 .. 4 /\ (k = 1 \/ k = 2 \/ k = 3)
    OBVIOUS
  <2>2. (h \o payload)[k] = h[k]
    BY <1>4, <2>1
  <2>3. h[k] = id[k]
    BY <1>1, <2>1
  <2> QED BY <2>2, <2>3
<1> QED BY <1>2, <1>4, <1>5 DEF id

(* The loop has read the bytes above src, and everything above dst is as it *)
(* will be sent.                                                            *)
StuffsDown(b) ==
  /\ src \in 0 .. Len(b)
  /\ dst = Len(Upto(b, src))
  /\ buffer \in Seq(Int) /\ Len(buffer) = Len(Stuff(b))
  /\ \A k \in 1 .. src : buffer[k] = b[k]
  /\ \A k \in dst + 1 .. Len(buffer) : buffer[k] = Stuff(b)[k]

LEMMA StuffsFirst ==
  ASSUME NEW b \in Seq(Byte), buffer = b, StuffingBegin
  PROVE  StuffsDown(b)'
<1> DEFINE size == Len(b)
           k == Cardinality({j \in 1 .. size : Escaped(b[j])})
           fill == [j \in 1 .. k |-> Stale]
<1>1. buffer' = b \o fill /\ src' = size /\ dst' = size + k
  BY DEF StuffingBegin, StuffFrom
<1>2. size \in Nat /\ size \in 0 .. Len(b)
  OBVIOUS
<1>3. k = Cardinality(EscapesTo(b, size)) /\ k \in Nat /\ Len(Upto(b, size)) = size + k
  BY <1>2, UptoLength DEF EscapesTo
<1> HIDE DEF k
<1>4. fill \in Seq(Int) /\ Len(fill) = k
  BY <1>3 DEF Stale
<1>5. b \in Seq(Int)
  <2>1. Byte \subseteq Int
    BY DEF Byte
  <2> QED BY <2>1, SeqMonotonic
<1>6. Upto(b, size) = Stuff(b)
  BY <1>2, UptoType
<1> HIDE DEF fill, size
<1>7. /\ b \o fill \in Seq(Int) /\ Len(b \o fill) = size + k
      /\ \A j \in 1 .. size : (b \o fill)[j] = b[j]
  <2>1. b \o fill \in Seq(Int) /\ Joined(b \o fill, b, fill)
    BY <1>4, <1>5, ConcatJoins
  <2> QED BY <1>4, <2>1 DEF Joined, size
<1>8. size + k + 1 .. size + k = {}
  BY <1>2, <1>3
<1> QED BY <1>1, <1>2, <1>3, <1>6, <1>7, <1>8 DEF StuffsDown

LEMMA StuffsNext ==
  ASSUME NEW b \in Seq(Byte), StuffsDown(b), StuffStep
  PROVE  StuffsDown(b)'
<1> DEFINE v      == b[src]
           before == Len(Upto(b, src - 1))
           S      == Stuff(b)
<1>1. src \in 1 .. Len(b) /\ src' = src - 1 /\ buffer[src] = v
      /\ src' \in 0 .. Len(b) /\ Len(b) \in Nat
  BY DEF StuffsDown, StuffStep
<1>2. /\ before \in Nat /\ before >= src - 1 /\ v \in Byte
      /\ Escaped(v) => /\ dst = before + 2 /\ before + 2 <= Len(S)
                       /\ S[before + 1] = ESC /\ S[before + 2] = 112 + (v % 16)
      /\ ~Escaped(v) => /\ dst = before + 1 /\ before + 1 <= Len(S)
                        /\ S[before + 1] = v
  <2>1. dst = Len(Upto(b, src))
    BY DEF StuffsDown
  <2>2. /\ before \in Nat /\ before >= src - 1 /\ v \in Byte
        /\ Escaped(v) => /\ Len(Upto(b, src)) = before + 2 /\ before + 2 <= Len(S)
                         /\ S[before + 1] = ESC /\ S[before + 2] = 112 + (v % 16)
        /\ ~Escaped(v) => /\ Len(Upto(b, src)) = before + 1 /\ before + 1 <= Len(S)
                          /\ S[before + 1] = v
    BY <1>1, ItemAt
  <2> QED BY <2>1, <2>2
<1>3. buffer \in Seq(Int) /\ Len(buffer) = Len(S) /\ Len(S) \in Nat
      /\ \A k \in 1 .. src : buffer[k] = b[k]
  BY DEF StuffsDown
<1>6. \A k \in dst + 1 .. Len(buffer) : buffer[k] = S[k]
  BY DEF StuffsDown
<1> HIDE DEF v, before, S
<1>4. /\ buffer' \in Seq(Int) /\ Len(buffer') = Len(S)
      /\ \A k \in 1 .. src - 1 : buffer'[k] = b[k]
      /\ \A k \in before + 1 .. Len(buffer') : buffer'[k] = S[k]
      /\ dst' = before
  <2>1. CASE Escaped(v)
    <3>1. /\ buffer' = [buffer EXCEPT ![dst] = 112 + (v % 16), ![dst - 1] = ESC]
          /\ dst' = dst - 2
      BY <1>1, <2>1 DEF StuffStep, EscapedByte
    <3>2. 112 + (v % 16) \in Int /\ ESC \in Int
      BY <1>2 DEF Byte, ESC
    <3>3. dst \in 1 .. Len(buffer) /\ dst - 1 \in 1 .. Len(buffer) /\ dst = before + 2
          /\ dst # dst - 1
      BY <1>2, <1>3, <2>1
    <3>4. /\ buffer' \in Seq(Int) /\ Len(buffer') = Len(buffer)
          /\ buffer'[dst] = 112 + (v % 16) /\ buffer'[dst - 1] = ESC
          /\ \A k \in 1 .. Len(buffer) : k # dst /\ k # dst - 1 => buffer'[k] = buffer[k]
      <4>1. /\ buffer' \in Seq(Int)
            /\ PutTwo(buffer', buffer, dst, 112 + (v % 16), dst - 1, ESC)
        BY <1>3, <3>1, <3>2, <3>3, ExceptPutsTwo
      <4> QED BY <4>1 DEF PutTwo
    <3>5. ASSUME NEW k \in 1 .. src - 1 PROVE buffer'[k] = b[k]
      <4>1. k \in 1 .. Len(buffer) /\ k # dst /\ k # dst - 1 /\ k \in 1 .. src
        BY <1>1, <1>2, <1>3, <3>3
      <4> QED BY <1>3, <3>4, <4>1
    <3>6. ASSUME NEW k \in before + 1 .. Len(buffer') PROVE buffer'[k] = S[k]
      <4>1. k = before + 1 \/ k = before + 2 \/ k \in dst + 1 .. Len(buffer)
        BY <1>2, <3>3, <3>4
      <4>2. k \in dst + 1 .. Len(buffer) => k \in 1 .. Len(buffer) /\ k # dst /\ k # dst - 1
        BY <1>2, <3>3
      <4>3. CASE k = before + 1
        <5>1. k = dst - 1
          BY <1>2, <3>3, <4>3
        <5> QED BY <1>2, <2>1, <3>4, <4>3, <5>1
      <4>4. CASE k = before + 2
        BY <1>2, <2>1, <3>3, <3>4, <4>4
      <4>5. CASE k \in dst + 1 .. Len(buffer)
        <5>1. buffer[k] = S[k]
          BY <1>6, <4>5
        <5>2. buffer'[k] = buffer[k]
          BY <3>4, <4>2, <4>5
        <5> QED BY <5>1, <5>2
      <4> QED BY <4>1, <4>3, <4>4, <4>5
    <3>7. dst' = before
      BY <1>2, <3>1, <3>3
    <3> QED BY <1>3, <3>4, <3>5, <3>6, <3>7
  <2>2. CASE ~Escaped(v)
    <3>1. buffer' = [buffer EXCEPT ![dst] = v] /\ dst' = dst - 1
      BY <1>1, <2>2 DEF StuffStep
    <3>2. v \in Int
      BY <1>2 DEF Byte
    <3>3. dst \in 1 .. Len(buffer) /\ dst = before + 1
      BY <1>2, <1>3, <2>2
    <3>4. /\ buffer' \in Seq(Int) /\ Len(buffer') = Len(buffer) /\ buffer'[dst] = v
          /\ \A k \in 1 .. Len(buffer) : k # dst => buffer'[k] = buffer[k]
      <4>1. buffer' \in Seq(Int) /\ PutOne(buffer', buffer, dst, v)
        BY <1>3, <3>1, <3>2, <3>3, ExceptPuts
      <4> QED BY <4>1 DEF PutOne
    <3>5. ASSUME NEW k \in 1 .. src - 1 PROVE buffer'[k] = b[k]
      <4>1. k \in 1 .. Len(buffer) /\ k # dst /\ k \in 1 .. src
        BY <1>1, <1>2, <1>3, <3>3
      <4> QED BY <1>3, <3>4, <4>1
    <3>6. ASSUME NEW k \in before + 1 .. Len(buffer') PROVE buffer'[k] = S[k]
      <4>1. k = before + 1 \/ k \in dst + 1 .. Len(buffer)
        BY <1>2, <3>3, <3>4
      <4>2. k \in dst + 1 .. Len(buffer) => k \in 1 .. Len(buffer) /\ k # dst
        BY <1>2, <3>3
      <4>3. CASE k = before + 1
        BY <1>2, <2>2, <3>3, <3>4, <4>3
      <4>4. CASE k \in dst + 1 .. Len(buffer)
        <5>1. buffer[k] = S[k]
          BY <1>6, <4>4
        <5>2. buffer'[k] = buffer[k]
          BY <3>4, <4>2, <4>4
        <5> QED BY <5>1, <5>2
      <4> QED BY <4>1, <4>3, <4>4
    <3>7. dst' = before
      BY <1>2, <3>1, <3>3
    <3> QED BY <1>3, <3>4, <3>5, <3>6, <3>7
  <2> QED BY <2>1, <2>2
<1>5. src' = src - 1 /\ dst' = Len(Upto(b, src'))
  BY <1>1, <1>4 DEF before
<1> QED BY <1>1, <1>4, <1>5 DEF StuffsDown, S

LEMMA StuffsLast ==
  ASSUME NEW b \in Seq(Byte), StuffsDown(b), src = 0
  PROVE  buffer = Stuff(b)
<1>1. Len(Upto(b, 0)) = 0 /\ Stuff(b) \in Seq(Int)
  <2>1. 0 \in 0 .. Len(b)
    OBVIOUS
  <2>2. Upto(b, 0) = <<>>
    BY <2>1, UptoType
  <2> QED BY <2>2, StuffType, PlainIsByte
<1>2. dst = 0
  BY <1>1 DEF StuffsDown
<1>3. \A k \in 1 .. Len(buffer) : buffer[k] = Stuff(b)[k]
  BY <1>2 DEF StuffsDown
<1>4. buffer \in Seq(Int) /\ Len(buffer) = Len(Stuff(b))
  BY DEF StuffsDown
<1> QED BY <1>1, <1>3, <1>4, SeqEqual

SendInv ==
  /\ pc = "prepared" => \E nr \in 0 .. 127 : buffer = Request(nr)
  /\ pc = "stuffing" => \E nr \in 0 .. 127 : StuffsDown(Request(nr))
  /\ pc = "stuffed" => \E nr \in 0 .. 127 : buffer = Stuff(Request(nr))
  /\ pc = "sent" => \E nr \in 0 .. 127 : wire = Closed(Stuff(Request(nr)))

PayloadOK == payload \in Seq(Byte)

LEMMA SendStep ==
  ASSUME PayloadOK, SendInv, [CodecNext]_codecVars
  PROVE  SendInv' /\ PayloadOK'
<1> USE DEF PayloadOK
<1>0. payload' = payload /\ \A nr \in 0 .. 127 : Request(nr) \in Seq(Byte)
  <2>1. payload' = payload
    BY DEF CodecNext, codecVars, prepareCommand, StuffingBegin, StuffStep, StuffingEnd,
      appendChecksum, DestuffingBegin, DestuffStep, DestuffingEnd
  <2> QED BY <2>1, RequestShape
<1>1. \A nr \in 0 .. 127 : Request(nr)' = Request(nr)
  BY <1>0 DEF Request
<1> SUFFICES SendInv'
  BY <1>0
<1>2. ASSUME NEW nr \in FrameNrs, prepareCommand(nr) PROVE SendInv'
  <2>1. NextFrameNr(nr) \in 0 .. 127 /\ buffer' = Request(NextFrameNr(nr)) /\ pc' = "prepared"
    BY <1>2, BytesAssumption DEF prepareCommand, NextFrameNr, Request
  <2> QED BY <1>1, <2>1 DEF SendInv
<1>3. CASE StuffingBegin
  <2>1. PICK nr \in 0 .. 127 : buffer = Request(nr)
    BY <1>3 DEF StuffingBegin, SendInv
  <2> DEFINE b == Request(nr)
  <2>2. b \in Seq(Byte) /\ buffer = b /\ b' = b
    BY <1>0, <1>1, <2>1
  <2>3. pc' = "stuffing"
    BY <1>3 DEF StuffingBegin
  <2>4. ASSUME NEW c \in Seq(Byte), c = b PROVE StuffsDown(c)'
    BY <1>3, <2>2, <2>4, StuffsFirst
  <2>5. StuffsDown(b)'
    BY <2>2, <2>4 DEF StuffsDown
  <2> QED BY <2>3, <2>5 DEF SendInv
<1>4. CASE StuffStep
  <2>1. PICK nr \in 0 .. 127 : StuffsDown(Request(nr))
    BY <1>4 DEF StuffStep, SendInv
  <2> DEFINE b == Request(nr)
  <2>2. b \in Seq(Byte) /\ b' = b
    BY <1>0, <1>1
  <2>3. pc' = "stuffing"
    BY <1>4 DEF StuffStep
  <2>4. ASSUME NEW c \in Seq(Byte), c = b PROVE StuffsDown(c)'
    BY <1>4, <2>1, <2>4, StuffsNext
  <2>5. StuffsDown(b)'
    BY <2>2, <2>4 DEF StuffsDown
  <2> QED BY <2>3, <2>5 DEF SendInv
<1>5. CASE StuffingEnd
  <2>1. PICK nr \in 0 .. 127 : StuffsDown(Request(nr))
    BY <1>5 DEF StuffingEnd, SendInv
  <2>2. buffer = Stuff(Request(nr))
    BY <1>0, <1>5, <2>1, StuffsLast DEF StuffingEnd
  <2>3. pc' = "stuffed" /\ buffer' = buffer
    BY <1>5 DEF StuffingEnd
  <2>4. buffer' = Stuff(Request(nr)')
    BY <1>1, <2>2, <2>3
  <2> QED BY <2>3, <2>4 DEF SendInv
<1>6. CASE appendChecksum
  <2>1. PICK nr \in 0 .. 127 : buffer = Stuff(Request(nr))
    BY <1>6 DEF appendChecksum, SendInv
  <2>2. wire' = Closed(buffer) /\ pc' = "sent"
    BY <1>6 DEF appendChecksum, Closed
  <2>3. wire' = Closed(Stuff(Request(nr)'))
    BY <1>1, <2>1, <2>2
  <2> QED BY <2>2, <2>3 DEF SendInv
<1>7. CASE DestuffingBegin \/ DestuffStep \/ DestuffingEnd
  <2>1. pc' \in {"destuffing", "received"}
    BY <1>7 DEF DestuffingBegin, DestuffStep, DestuffingEnd
  <2> QED BY <2>1 DEF SendInv
<1>8. CASE UNCHANGED codecVars
  BY <1>8 DEF SendInv, codecVars, StuffsDown, Request
<1> QED BY <1>0, <1>2, <1>3, <1>4, <1>5, <1>6, <1>7, <1>8 DEF CodecNext

LEMMA PayloadStart == CodecInit => PayloadOK /\ SendInv
<1> SUFFICES ASSUME CodecInit PROVE PayloadOK /\ SendInv
  OBVIOUS
<1>1. PICK k \in 0 .. MaxPayload : payload \in [1 .. k -> Bytes]
  BY DEF CodecInit, Payloads
<1>2. payload \in Seq(Bytes) /\ Bytes \subseteq Byte
  BY <1>1, BytesAssumption, MaxPayloadAssumption DEF Byte
<1>3. payload \in Seq(Byte)
  BY <1>2, SeqMonotonic
<1>4. pc \in {"idle", "arrived"}
  BY DEF CodecInit
<1> QED BY <1>3, <1>4 DEF PayloadOK, SendInv

(* Sent frames, from what wire is when pc is "sent". *)
LEMMA SentShape ==
  ASSUME PayloadOK, SendInv, pc = "sent"
  PROVE  OneEnd /\ ChecksumCloses /\ SentIsStuffed
<1>1. PICK nr \in 0 .. 127 : wire = Closed(Stuff(Request(nr)))
  BY DEF SendInv
<1> DEFINE b == Request(nr)
           s == Stuff(b)
           c == ChecksumBytes(Checksum(s))
<1>2. b \in Seq(Byte) /\ Len(b) >= 4
  <2>1. b \in Seq(Byte) /\ Len(b) = 4 + Len(payload)
    BY RequestShape DEF PayloadOK
  <2>2. Len(payload) \in Nat
    BY DEF PayloadOK
  <2> QED BY <2>1, <2>2
<1> HIDE DEF b
<1>3. s \in Seq(0 .. 254) /\ Len(s) >= 2 /\ Len(s) \in Nat
  <2>1. Len(b) \in 0 .. Len(b) /\ Len(b) \in Nat
    BY <1>2
  <2>2. Upto(b, Len(b)) = s /\ s \in Seq(0 .. 254)
    BY <1>2, <2>1, UptoType, StuffType
  <2>3. /\ Cardinality(EscapesTo(b, Len(b))) \in Nat
        /\ Len(s) = Len(b) + Cardinality(EscapesTo(b, Len(b)))
    BY <1>2, <2>1, <2>2, UptoLength
  <2> QED BY <1>2, <2>1, <2>2, <2>3
<1>4. c \in Seq(0 .. 254) /\ Len(c) \in 1 .. 2
  <2>1. Checksum(s) \in Byte
    BY <1>3, PlainIsByte, ChecksumType
  <2> QED BY <2>1, ChecksumBytesType
<1> DEFINE last == Len(s) + Len(c)
<1>5. /\ wire \in Seq(Byte) /\ Len(wire) = last + 1
      /\ \A k \in 1 .. Len(s) : wire[k] = s[k]
      /\ wire[last + 1] = END_OF_FRAME
      /\ \A k \in 1 .. last : wire[k] \in 0 .. 254
      /\ SubSeq(wire, 1, last) = s \o c
  BY <1>1, <1>3, ClosedShape DEF b
<1> HIDE DEF s, c
<1>6. last \in Nat /\ Len(wire) - 1 = last /\ Len(wire) - Len(s) \in 2 .. 3
  <2>1. Len(wire) = Len(s) + Len(c) + 1
    BY <1>5
  <2>2. Len(s) \in Nat /\ Len(c) \in 1 .. 2
    BY <1>3, <1>4
  <2>3. \A i \in Nat, j \in 1 .. 2 :
          i + j \in Nat /\ (i + j + 1) - 1 = i + j /\ (i + j + 1) - i \in 2 .. 3
    OBVIOUS
  <2> QED BY <2>1, <2>2, <2>3
<1> HIDE DEF last
<1>7. OneEnd
  <2>1. Last(wire) = END_OF_FRAME
    BY <1>5 DEF Last
  <2> QED BY <1>5, <1>6, <2>1 DEF OneEnd
<1>8. ChecksumCloses
  <2>1. Front(wire) = s \o c
    BY <1>5, <1>6 DEF Front
  <2>2. SumFrom(s \o c, 3) % 256 = 1
    BY <1>3, ClosedSum DEF c
  <2> QED BY <2>1, <2>2 DEF ChecksumCloses
<1>9. SentIsStuffed
  <2>1. Stuff(MK3_ID \o <<DATA_FRAME, nr>> \o payload) = s
    BY DEF b, s, Request
  <2>2. Len(wire) - Len(s) \in 2 .. 3
    BY <1>6
  <2>3. IsPrefix(s, wire)
    <3>1. \A k \in 1 .. Len(s) : s[k] = wire[k]
      BY <1>5
    <3>2. Len(s) <= Len(wire)
      BY <1>3, <1>5, <2>2
    <3> QED BY <1>3, <1>5, <3>1, <3>2 DEF IsPrefix
  <2> QED BY <2>1, <2>2, <2>3 DEF SentIsStuffed
<1> QED BY <1>7, <1>8, <1>9

-------------------------------------------------------------------------------
(* Receiving.                                                               *)

(* f has four bytes of header, then bytes, then the checksum and the end. *)
FrameOf(f, bytes, cs) ==
  LET c == ChecksumBytes(cs) IN
  /\ f \in Seq(Byte)
  /\ Len(f) = 4 + Len(bytes) + Len(c) + 1
  /\ \A k \in 1 .. Len(bytes) : f[4 + k] = bytes[k]
  /\ \A k \in 1 .. Len(c) : f[4 + Len(bytes) + k] = c[k]
  /\ f[Len(f)] = END_OF_FRAME

LEMMA DeviceShape ==
  ASSUME NEW nr \in FrameNrs, NEW p \in Seq(Byte)
  PROVE  \E cs \in Byte : FrameOf(DeviceFrame(nr, p), Stuff(p), cs)
<1> DEFINE h == MP_ID \o <<DATA_FRAME, nr>>
           s == Stuff(p)
           body == h \o s
           cs == Checksum(body)
           c == ChecksumBytes(cs)
           f == Closed(body)
<1>1. h \in Seq(0 .. 254) /\ Len(h) = 4
  <2>1. nr \in 0 .. 254
    BY BytesAssumption
  <2> QED BY <2>1 DEF MP_ID, DATA_FRAME
<1>2. s \in Seq(0 .. 254)
  BY StuffType
<1>3. DeviceFrame(nr, p) = f
  BY DEF DeviceFrame, Closed
<1> HIDE DEF h, s
<1>4. Len(s) \in Nat
  BY <1>2
<1>5. body \in Seq(0 .. 254) /\ Len(body) = 4 + Len(s)
      /\ \A k \in 1 .. Len(s) : body[4 + k] = s[k]
  <2>1. body \in Seq(0 .. 254) /\ Joined(body, h, s)
    BY <1>1, <1>2, ConcatJoins
  <2> QED BY <1>1, <2>1 DEF Joined
<1> HIDE DEF body
<1>6. cs \in Byte
  <2>1. body \in Seq(Int) /\ Len(body) >= 2
    BY <1>4, <1>5, PlainIsByte
  <2> QED BY <2>1, ChecksumType
<1>7. Len(c) \in 1 .. 2
  BY <1>6, ChecksumBytesType
<1>8. /\ f \in Seq(Byte) /\ Len(f) = Len(body) + Len(c) + 1
      /\ \A k \in 1 .. Len(body) : f[k] = body[k]
      /\ \A k \in 1 .. Len(c) : f[Len(body) + k] = c[k]
      /\ f[Len(body) + Len(c) + 1] = END_OF_FRAME
  <2>1. Len(body) >= 2
    BY <1>4, <1>5
  <2> QED BY <1>5, <2>1, ClosedShape
<1> HIDE DEF cs, f
<1>9. ASSUME NEW k \in 1 .. Len(s) PROVE f[4 + k] = s[k]
  <2>1. 4 + k \in 1 .. Len(body)
    BY <1>4, <1>5
  <2> QED BY <1>5, <1>8, <2>1
<1>10. FrameOf(f, s, cs)
  BY <1>5, <1>8, <1>9 DEF FrameOf
<1> QED BY <1>3, <1>6, <1>10 DEF s

(* A frame, or the end of one. *)
WireOK == wire \in Seq(Byte) /\ Len(wire) >= 1 /\ wire[Len(wire)] = END_OF_FRAME

(* The loop has read the bytes below src and written the ones below dst,    *)
(* one less for each escape.                                                *)
Destuffs ==
  /\ WireOK /\ Len(wire) > 4
  /\ buffer \in Seq(Byte) /\ Len(buffer) = Len(wire)
  /\ src \in 5 .. Len(wire) + 1 /\ dst \in 5 .. src /\ fas = src - dst
  /\ \A k \in src .. Len(wire) : buffer[k] = wire[k]
  /\ \A k \in 1 .. 4 : buffer[k] = wire[k]

(* What a round does, told by the frame as it arrived. *)
CopiesEnd ==
  /\ src + 1 <= Len(wire) /\ wire[src] = ESC /\ wire[src + 1] = END_OF_FRAME
  /\ PutTwo(buffer', buffer, dst, ESC, dst + 1, END_OF_FRAME)
  /\ src' = src + 2 /\ dst' = dst + 2 /\ fas' = fas

Unescapes ==
  /\ src + 1 <= Len(wire) /\ wire[src] = ESC /\ wire[src + 1] # END_OF_FRAME
  /\ PutOne(buffer', buffer, dst, (128 + wire[src + 1]) % 256)
  /\ src' = src + 2 /\ dst' = dst + 1 /\ fas' = fas + 1

Copies ==
  /\ wire[src] # ESC
  /\ PutOne(buffer', buffer, dst, wire[src])
  /\ src' = src + 1 /\ dst' = dst + 1 /\ fas' = fas

LEMMA Rounds ==
  ASSUME Destuffs, DestuffStep
  PROVE  /\ src \in 5 .. Len(wire) /\ dst \in 5 .. src /\ Len(wire) \in Nat
         /\ buffer' \in Seq(Byte) /\ Len(buffer') = Len(wire)
         /\ wire' = wire /\ payload' = payload /\ pc' = "destuffing"
         /\ CopiesEnd \/ Unescapes \/ Copies
<1>1. /\ src \in 5 .. Len(wire) /\ dst \in 5 .. src /\ Len(wire) \in Nat
      /\ wire' = wire /\ payload' = payload /\ pc' = "destuffing"
  BY DEF Destuffs, WireOK, DestuffStep
<1>2. buffer \in Seq(Byte) /\ Len(buffer) = Len(wire) /\ src \in 1 .. Len(buffer)
      /\ dst \in 1 .. Len(buffer)
  BY <1>1 DEF Destuffs
<1>3. /\ \A k \in src .. Len(wire) : buffer[k] = wire[k]
      /\ wire[Len(wire)] = END_OF_FRAME
  BY DEF Destuffs, WireOK
<1>4. ESC \in Byte /\ END_OF_FRAME \in Byte /\ ESC # END_OF_FRAME
  BY DEF ESC, END_OF_FRAME, Byte
<1>5. buffer[src] = wire[src] /\ buffer[src] \in Byte
  <2>1. src \in src .. Len(wire)
    BY <1>1
  <2> QED BY <1>2, <1>3, <2>1, ElementOfSeq
<1>6. ASSUME wire[src] = ESC
      PROVE  src + 1 <= Len(wire) /\ buffer[src + 1] = wire[src + 1] /\ buffer[src + 1] \in Byte
  <2>1. src # Len(wire)
    BY <1>3, <1>4, <1>6
  <2>2. src + 1 \in src .. Len(wire) /\ src + 1 \in 1 .. Len(buffer)
    BY <1>1, <1>2, <2>1
  <2> QED BY <1>1, <1>2, <1>3, <2>2, ElementOfSeq
<1>7. /\ buffer' \in Seq(Byte) /\ Len(buffer') = Len(wire)
      /\ CopiesEnd \/ Unescapes \/ Copies
  <2>1. CASE buffer[src] = ESC /\ buffer[src + 1] = END_OF_FRAME
    <3>1. /\ buffer' = [buffer EXCEPT ![dst] = ESC, ![dst + 1] = END_OF_FRAME]
          /\ dst' = dst + 2 /\ src' = src + 2 /\ fas' = fas
      BY <2>1 DEF DestuffStep, IsChecksumAndEnd
    <3>2. dst \in 1 .. Len(buffer) /\ dst + 1 \in 1 .. Len(buffer) /\ dst # dst + 1
      BY <1>1, <1>2, <1>5, <1>6, <2>1
    <3>3. buffer' \in Seq(Byte) /\ PutTwo(buffer', buffer, dst, ESC, dst + 1, END_OF_FRAME)
      BY <1>2, <1>4, <3>1, <3>2, ExceptPutsTwo
    <3>4. Len(buffer') = Len(wire)
      BY <1>2, <3>3 DEF PutTwo
    <3> QED BY <1>5, <1>6, <2>1, <3>1, <3>3, <3>4 DEF CopiesEnd
  <2>2. CASE buffer[src] = ESC /\ ~(buffer[src + 1] = END_OF_FRAME)
    <3> DEFINE v == (128 + buffer[src + 1]) % 256
    <3>1. buffer' = [buffer EXCEPT ![dst] = v] /\ dst' = dst + 1 /\ src' = src + 2 /\ fas' = fas + 1
      BY <2>2 DEF DestuffStep, IsChecksumAndEnd
    <3>2. v \in Byte
      <4>1. buffer[src + 1] \in Byte
        BY <1>5, <1>6, <2>2
      <4> QED BY <4>1 DEF Byte
    <3>3. v = (128 + wire[src + 1]) % 256
      BY <1>5, <1>6, <2>2
    <3> HIDE DEF v
    <3>4. buffer' \in Seq(Byte) /\ PutOne(buffer', buffer, dst, v)
      BY <1>2, <3>1, <3>2, ExceptPuts
    <3>5. Len(buffer') = Len(wire)
      BY <1>2, <3>4 DEF PutOne
    <3> QED BY <1>5, <1>6, <2>2, <3>1, <3>3, <3>4, <3>5 DEF Unescapes
  <2>3. CASE buffer[src] # ESC
    <3>1. buffer' = [buffer EXCEPT ![dst] = buffer[src]]
          /\ dst' = dst + 1 /\ src' = src + 1 /\ fas' = fas
      BY <2>3 DEF DestuffStep
    <3>2. buffer' \in Seq(Byte) /\ PutOne(buffer', buffer, dst, buffer[src])
      BY <1>2, <1>5, <3>1, ExceptPuts
    <3>3. Len(buffer') = Len(wire)
      BY <1>2, <3>2 DEF PutOne
    <3> QED BY <1>5, <2>3, <3>1, <3>2, <3>3 DEF Copies
  <2> QED BY <2>1, <2>2, <2>3
<1> QED BY <1>1, <1>7

LEMMA DestuffsNext ==
  ASSUME Destuffs, DestuffStep
  PROVE  Destuffs'
<1>1. /\ src \in 5 .. Len(wire) /\ dst \in 5 .. src /\ Len(wire) \in Nat
      /\ buffer' \in Seq(Byte) /\ Len(buffer') = Len(wire) /\ wire' = wire
      /\ CopiesEnd \/ Unescapes \/ Copies
  BY Rounds
<1>2. /\ WireOK /\ Len(wire) > 4 /\ Len(buffer) = Len(wire) /\ fas = src - dst
      /\ \A k \in src .. Len(wire) : buffer[k] = wire[k]
      /\ \A k \in 1 .. 4 : buffer[k] = wire[k]
  BY DEF Destuffs
<1>3. /\ src' \in 5 .. Len(wire) + 1 /\ dst' \in 5 .. src' /\ fas' = src' - dst'
      /\ dst < src' /\ src < src'
      /\ CopiesEnd => dst + 1 < src'
  <2>1. CASE CopiesEnd
    BY <1>1, <1>2, <2>1 DEF CopiesEnd
  <2>2. CASE Unescapes
    <3>1. ~CopiesEnd
      BY <2>2 DEF CopiesEnd, Unescapes
    <3> QED BY <1>1, <1>2, <2>2, <3>1 DEF Unescapes
  <2>3. CASE Copies
    <3>1. ~CopiesEnd
      BY <2>3 DEF CopiesEnd, Copies
    <3> QED BY <1>1, <1>2, <2>3, <3>1 DEF Copies
  <2> QED BY <1>1, <2>1, <2>2, <2>3
<1>4. ASSUME NEW k \in 1 .. Len(wire), k \in 1 .. 4 \/ k \in src' .. Len(wire)
      PROVE  buffer'[k] = wire[k]
  <2>1. buffer[k] = wire[k]
    <3>1. k \in 1 .. 4 \/ k \in src .. Len(wire)
      BY <1>1, <1>3, <1>4
    <3> QED BY <1>2, <3>1
  <2>2. k # dst /\ (CopiesEnd => k # dst + 1)
    BY <1>1, <1>3, <1>4
  <2>3. buffer'[k] = buffer[k]
    <3>1. CASE CopiesEnd
      BY <1>2, <2>2, <3>1 DEF CopiesEnd, PutTwo
    <3>2. CASE Unescapes
      BY <1>2, <2>2, <3>2 DEF Unescapes, PutOne
    <3>3. CASE Copies
      BY <1>2, <2>2, <3>3 DEF Copies, PutOne
    <3> QED BY <1>1, <3>1, <3>2, <3>3
  <2> QED BY <2>1, <2>3
<1>5. /\ \A k \in src' .. Len(wire) : buffer'[k] = wire[k]
      /\ \A k \in 1 .. 4 : buffer'[k] = wire[k]
  <2>1. /\ \A k \in src' .. Len(wire) : k \in 1 .. Len(wire)
        /\ \A k \in 1 .. 4 : k \in 1 .. Len(wire)
    BY <1>1, <1>2, <1>3
  <2> QED BY <1>4, <2>1
<1> QED BY <1>1, <1>2, <1>3, <1>5 DEF Destuffs, WireOK

(* Where the loop is in a whole frame: behind i bytes of the payload, behind *)
(* the checksum, behind the end.                                            *)
First(i) == \A k \in 1 .. i : buffer[4 + k] = payload[k]

ReadTo(i) == src = 5 + Len(Upto(payload, i)) /\ dst = 5 + i /\ First(i)

ReadSum == src = Len(wire) /\ dst = 6 + Len(payload) /\ First(Len(payload))

ReadAll ==
  /\ src = Len(wire) + 1 /\ dst = 7 + Len(payload) /\ First(Len(payload))
  /\ buffer[6 + Len(payload)] = END_OF_FRAME

Stage == (\E i \in 0 .. Len(payload) : ReadTo(i)) \/ ReadSum \/ ReadAll

(* The bytes of the payload that are there stay there. *)
LEMMA FirstKept ==
  ASSUME Destuffs, DestuffStep, payload \in Seq(Byte),
         NEW i \in 0 .. Len(payload), First(i), 5 + i <= dst
  PROVE  \A k \in 1 .. i : buffer'[4 + k] = payload[k]
<1>1. /\ dst \in 5 .. src /\ src \in 5 .. Len(wire) /\ Len(wire) \in Nat
      /\ CopiesEnd \/ Unescapes \/ Copies
  BY Rounds
<1>2. Len(buffer) = Len(wire) /\ Len(payload) \in Nat
  BY DEF Destuffs
<1>3. ASSUME NEW k \in 1 .. i PROVE buffer'[4 + k] = payload[k]
  <2>1. buffer[4 + k] = payload[k]
    BY DEF First
  <2>2. 4 + k \in 1 .. Len(buffer) /\ 4 + k # dst /\ 4 + k # dst + 1
    BY <1>1, <1>2
  <2>3. buffer'[4 + k] = buffer[4 + k]
    <3>1. CASE CopiesEnd
      BY <2>2, <3>1 DEF CopiesEnd, PutTwo
    <3>2. CASE Unescapes
      BY <2>2, <3>2 DEF Unescapes, PutOne
    <3>3. CASE Copies
      BY <2>2, <3>3 DEF Copies, PutOne
    <3> QED BY <1>1, <3>1, <3>2, <3>3
  <2> QED BY <2>1, <2>3
<1> QED BY <1>3

(* A round within the payload reads one item of it. *)
LEMMA ReadsItem ==
  ASSUME Destuffs, DestuffStep, payload \in Seq(Byte),
         NEW cs \in Byte, FrameOf(wire, Stuff(payload), cs),
         NEW i \in 0 .. Len(payload), i # Len(payload), ReadTo(i)
  PROVE  ReadTo(i + 1)'
<1> DEFINE j == i + 1
           v == payload[j]
           before == Len(Upto(payload, i))
           S == Stuff(payload)
<1>1. j \in 1 .. Len(payload) /\ j - 1 = i /\ i \in Nat
  BY DEF ReadTo
<1>2. /\ before \in Nat /\ v \in Byte /\ Len(S) \in Nat
      /\ Escaped(v) => /\ Len(Upto(payload, j)) = before + 2 /\ before + 2 <= Len(S)
                       /\ S[before + 1] = ESC /\ S[before + 2] = 112 + (v % 16)
      /\ ~Escaped(v) => /\ Len(Upto(payload, j)) = before + 1 /\ before + 1 <= Len(S)
                        /\ S[before + 1] = v
  <2>1. Len(S) \in Nat
    BY StuffType
  <2> QED BY <1>1, <2>1, ItemAt
<1>3. /\ src = 5 + before /\ dst = 5 + i
      /\ \A k \in 1 .. i : buffer'[4 + k] = payload[k]
  <2>1. src = 5 + before /\ dst = 5 + i /\ First(i)
    BY DEF ReadTo
  <2>2. 5 + i <= dst
    BY <1>1, <2>1
  <2> QED BY <2>1, <2>2, FirstKept
<1>4. /\ CopiesEnd \/ Unescapes \/ Copies
      /\ wire' = wire /\ payload' = payload
  BY Rounds
<1>5. \A k \in 1 .. Len(S) : wire[4 + k] = S[k]
  BY DEF FrameOf
<1> HIDE DEF v, before, S
<1>6. /\ buffer'[dst] = v /\ dst' = dst + 1
      /\ src' = 5 + Len(Upto(payload, j))
  <2>1. CASE Escaped(v)
    <3>1. before + 1 \in 1 .. Len(S) /\ before + 2 \in 1 .. Len(S)
          /\ 4 + (before + 1) = src /\ 4 + (before + 2) = src + 1
      BY <1>2, <1>3, <2>1
    <3>2. wire[src] = ESC /\ wire[src + 1] = 112 + (v % 16)
      <4>1. wire[4 + (before + 1)] = S[before + 1] /\ wire[4 + (before + 2)] = S[before + 2]
        BY <1>5, <3>1
      <4> QED BY <1>2, <2>1, <3>1, <4>1
    <3>3. /\ 112 + (v % 16) # END_OF_FRAME
          /\ (128 + (112 + (v % 16))) % 256 = v
      <4>1. v \in 250 .. 255
        <5>1. \A x \in Byte : Escaped(x) => x \in 250 .. 255
          BY DEF Escaped, ESC, Byte
        <5> QED BY <1>2, <2>1, <5>1
      <4>2. \A x \in 250 .. 255 :
              112 + (x % 16) # 255 /\ (128 + (112 + (x % 16))) % 256 = x
        OBVIOUS
      <4> QED BY <4>1, <4>2 DEF END_OF_FRAME
    <3>4. Unescapes
      BY <1>4, <3>2, <3>3 DEF CopiesEnd, Copies
    <3>5. buffer'[dst] = v
      BY <3>2, <3>3, <3>4 DEF Unescapes, PutOne
    <3> QED BY <1>2, <1>3, <2>1, <3>4, <3>5 DEF Unescapes
  <2>2. CASE ~Escaped(v)
    <3>1. before + 1 \in 1 .. Len(S) /\ 4 + (before + 1) = src
      BY <1>2, <1>3, <2>2
    <3>2. wire[src] = v
      <4>1. wire[4 + (before + 1)] = S[before + 1]
        BY <1>5, <3>1
      <4> QED BY <1>2, <2>2, <3>1, <4>1
    <3>3. v # ESC
      BY <1>2, <2>2 DEF Escaped, ESC, Byte
    <3>4. Copies
      BY <1>4, <3>2, <3>3 DEF CopiesEnd, Unescapes
    <3>5. buffer'[dst] = v
      BY <3>2, <3>4 DEF Copies, PutOne
    <3> QED BY <1>2, <1>3, <2>2, <3>4, <3>5 DEF Copies
  <2> QED BY <2>1, <2>2
<1>7. ASSUME NEW k \in 1 .. j PROVE buffer'[4 + k] = payload[k]
  <2>1. CASE k \in 1 .. i
    BY <1>3, <2>1
  <2>2. CASE k = j
    <3>1. 4 + k = dst
      BY <1>1, <1>3, <2>2
    <3> QED BY <1>6, <2>2, <3>1 DEF v
  <2>3. k \in 1 .. i \/ k = j
    BY <1>1
  <2> QED BY <2>1, <2>2, <2>3
<1>8. dst' = 5 + j
  BY <1>1, <1>3, <1>6
<1>9. Upto(payload, i + 1)' = Upto(payload, j)
  BY <1>4
<1> QED BY <1>4, <1>6, <1>7, <1>8, <1>9 DEF ReadTo, First

(* The round behind the payload reads the checksum, and the end with it     *)
(* when the checksum is 0xFA.                                               *)
LEMMA ReadsSum ==
  ASSUME Destuffs, DestuffStep, payload \in Seq(Byte),
         NEW cs \in Byte, FrameOf(wire, Stuff(payload), cs),
         ReadTo(Len(payload))
  PROVE  (ReadSum \/ ReadAll)'
<1> DEFINE m == Len(payload)
           S == Stuff(payload)
           c == ChecksumBytes(cs)
<1>1. m \in Nat /\ Len(S) \in Nat /\ m \in 0 .. Len(payload)
  <2>1. S \in Seq(0 .. 254)
    BY StuffType
  <2> QED BY <2>1
<1>2. src = 5 + Len(S) /\ dst = 5 + m /\ First(m)
  BY <1>1, UptoType DEF ReadTo
<1>3. \A k \in 1 .. m : buffer'[4 + k] = payload[k]
  <2>1. 5 + m <= dst
    BY <1>1, <1>2
  <2> QED BY <1>1, <1>2, <2>1, FirstKept
<1>4. /\ CopiesEnd \/ Unescapes \/ Copies
      /\ wire' = wire /\ payload' = payload
  BY Rounds
<1>5. /\ Len(wire) = 4 + Len(S) + Len(c) + 1
      /\ \A k \in 1 .. Len(c) : wire[4 + Len(S) + k] = c[k]
      /\ wire[Len(wire)] = END_OF_FRAME
  BY DEF FrameOf
<1>6. /\ cs > ESC => c = <<ESC, cs - ESC>> /\ cs - ESC \in 1 .. 5
      /\ ~(cs > ESC) => c = <<cs>> /\ cs \in 0 .. ESC
  BY ChecksumBytesType
<1>7. First(m)' <=> \A k \in 1 .. m : buffer'[4 + k] = payload[k]
  BY <1>4 DEF First
<1> HIDE DEF m, S, c
<1>8. CASE cs > ESC
  <2>1. Len(c) = 2 /\ c[1] = ESC /\ c[2] = cs - ESC
    BY <1>6, <1>8
  <2>2. 4 + Len(S) + 1 = src /\ 4 + Len(S) + 2 = src + 1 /\ 1 \in 1 .. 2 /\ 2 \in 1 .. 2
        /\ Len(wire) = src + 2
    BY <1>1, <1>2, <1>5, <2>1
  <2>3. wire[src] = ESC /\ wire[src + 1] = cs - ESC
    <3>1. wire[4 + Len(S) + 1] = c[1] /\ wire[4 + Len(S) + 2] = c[2]
      BY <1>5, <2>1, <2>2
    <3> QED BY <2>1, <2>2, <3>1
  <2>4. cs - ESC # END_OF_FRAME
    BY <1>6, <1>8 DEF END_OF_FRAME
  <2>5. Unescapes
    BY <1>4, <2>3, <2>4 DEF CopiesEnd, Copies
  <2>6. src' = Len(wire) /\ dst' = 6 + m
    BY <1>1, <1>2, <2>2, <2>5 DEF Unescapes
  <2> QED BY <1>3, <1>4, <1>7, <2>6 DEF ReadSum, m
<1>9. CASE cs = ESC
  <2>1. Len(c) = 1 /\ c[1] = ESC
    <3>1. ~(cs > ESC)
      BY <1>9 DEF ESC
    <3> QED BY <1>6, <1>9, <3>1
  <2>2. 4 + Len(S) + 1 = src /\ 1 \in 1 .. 1 /\ Len(wire) = src + 1
    BY <1>1, <1>2, <1>5, <2>1
  <2>3. wire[src] = ESC /\ wire[src + 1] = END_OF_FRAME
    <3>1. wire[4 + Len(S) + 1] = c[1]
      BY <1>5, <2>1, <2>2
    <3> QED BY <1>5, <2>1, <2>2, <3>1
  <2>4. CopiesEnd
    BY <1>4, <2>3 DEF Unescapes, Copies
  <2>5. src' = Len(wire) + 1 /\ dst' = 7 + m /\ dst + 1 = 6 + m
    BY <1>1, <1>2, <2>2, <2>4 DEF CopiesEnd
  <2>6. buffer'[6 + m] = END_OF_FRAME
    BY <2>4, <2>5 DEF CopiesEnd, PutTwo
  <2> QED BY <1>3, <1>4, <1>7, <2>5, <2>6 DEF ReadAll, m
<1>10. CASE ~(cs > ESC) /\ cs # ESC
  <2>1. Len(c) = 1 /\ c[1] = cs
    BY <1>6, <1>10
  <2>2. 4 + Len(S) + 1 = src /\ 1 \in 1 .. 1 /\ Len(wire) = src + 1
    BY <1>1, <1>2, <1>5, <2>1
  <2>3. wire[src] = cs
    <3>1. wire[4 + Len(S) + 1] = c[1]
      BY <1>5, <2>1, <2>2
    <3> QED BY <2>1, <2>2, <3>1
  <2>4. Copies
    BY <1>4, <1>10, <2>3 DEF CopiesEnd, Unescapes
  <2>5. src' = Len(wire) /\ dst' = 6 + m
    BY <1>1, <1>2, <2>2, <2>4 DEF Copies
  <2> QED BY <1>3, <1>4, <1>7, <2>5 DEF ReadSum, m
<1> QED BY <1>8, <1>9, <1>10

LEMMA ReadsEnd ==
  ASSUME Destuffs, DestuffStep, payload \in Seq(Byte), ReadSum
  PROVE  ReadAll'
<1>1. Len(payload) \in 0 .. Len(payload) /\ Len(payload) \in Nat /\ Len(wire) \in Nat
  BY DEF Destuffs, WireOK
<1>2. src = Len(wire) /\ dst = 6 + Len(payload) /\ First(Len(payload))
  BY DEF ReadSum
<1>3. \A k \in 1 .. Len(payload) : buffer'[4 + k] = payload[k]
  <2>1. 5 + Len(payload) <= dst
    BY <1>1, <1>2
  <2> QED BY <1>1, <1>2, <2>1, FirstKept
<1>4. /\ CopiesEnd \/ Unescapes \/ Copies
      /\ wire' = wire /\ payload' = payload
  BY Rounds
<1>5. wire[src] = END_OF_FRAME /\ END_OF_FRAME # ESC
  BY <1>2 DEF Destuffs, WireOK, END_OF_FRAME, ESC
<1>6. Copies
  BY <1>4, <1>5 DEF CopiesEnd, Unescapes
<1>7. src' = Len(wire) + 1 /\ dst' = 7 + Len(payload) /\ buffer'[dst] = END_OF_FRAME
  BY <1>1, <1>2, <1>5, <1>6 DEF Copies, PutOne
<1> QED BY <1>2, <1>3, <1>4, <1>7 DEF ReadAll, First

LEMMA StageNext ==
  ASSUME Destuffs, DestuffStep, payload \in Seq(Byte),
         NEW cs \in Byte, FrameOf(wire, Stuff(payload), cs), Stage
  PROVE  Stage'
<1>0. payload' = payload /\ src \in 5 .. Len(wire) /\ Len(wire) \in Nat /\ Len(payload) \in Nat
  BY Rounds
<1>1. ASSUME NEW i \in 0 .. Len(payload), ReadTo(i) PROVE Stage'
  <2>1. CASE i = Len(payload)
    <3>1. (ReadSum \/ ReadAll)'
      BY <1>1, <2>1, ReadsSum
    <3> QED BY <3>1 DEF Stage
  <2>2. CASE i # Len(payload)
    <3>1. ReadTo(i + 1)'
      BY <1>1, <2>2, ReadsItem
    <3>2. i + 1 \in 0 .. Len(payload)
      BY <1>0, <2>2
    <3>3. \E j \in 0 .. Len(payload) : ReadTo(j)'
      BY <3>1, <3>2
    <3> QED BY <1>0, <3>3 DEF Stage
  <2> QED BY <2>1, <2>2
<1>2. CASE ReadSum
  <2>1. ReadAll'
    BY <1>2, ReadsEnd
  <2> QED BY <2>1 DEF Stage
<1>3. CASE ReadAll
  BY <1>0, <1>3 DEF ReadAll
<1> QED BY <1>1, <1>2, <1>3 DEF Stage

(* What is left when the loop is through. *)
LEMMA StageLast ==
  ASSUME Destuffs, payload \in Seq(Byte), NEW cs \in Byte,
         FrameOf(wire, Stuff(payload), cs), Stage, src > Len(buffer)
  PROVE  LET t == SubSeq(buffer, 1, Len(buffer) - fas) IN
         /\ Len(t) = 4 + Len(payload) + 2
         /\ SubSeq(t, 1, 4) = SubSeq(wire, 1, 4)
         /\ SubSeq(t, 5, 4 + Len(payload)) = payload
         /\ Last(t) = END_OF_FRAME
<1> DEFINE m == Len(payload)
           size == Len(buffer) - fas
           t == SubSeq(buffer, 1, size)
<1>1. /\ buffer \in Seq(Byte) /\ Len(buffer) = Len(wire) /\ wire \in Seq(Byte)
      /\ src \in 5 .. Len(wire) + 1 /\ dst \in 5 .. src /\ fas = src - dst
      /\ \A k \in 1 .. 4 : buffer[k] = wire[k]
  BY DEF Destuffs, WireOK
<1>2. m \in Nat /\ Len(buffer) \in Nat
  BY <1>1
<1>3. ~(\E i \in 0 .. m : ReadTo(i))
  <2>1. SUFFICES ASSUME NEW i \in 0 .. m, ReadTo(i) PROVE FALSE
    OBVIOUS
  <2>2. Len(Upto(payload, i)) <= Len(Stuff(payload))
    BY UptoExtends DEF Extends
  <2>3. Len(Upto(payload, i)) \in Nat /\ Len(Stuff(payload)) \in Nat
    BY UptoType, StuffType
  <2>4. Len(wire) = 4 + Len(Stuff(payload)) + Len(ChecksumBytes(cs)) + 1
        /\ Len(ChecksumBytes(cs)) \in 1 .. 2
    BY ChecksumBytesType DEF FrameOf
  <2>5. src = 5 + Len(Upto(payload, i))
    BY <2>1 DEF ReadTo
  <2> QED BY <1>1, <2>2, <2>3, <2>4, <2>5
<1>4. src # Len(wire)
  BY <1>1, <1>2
<1>5. /\ dst = 7 + m /\ src = Len(buffer) + 1 /\ First(m)
      /\ buffer[6 + m] = END_OF_FRAME
  BY <1>1, <1>3, <1>4 DEF Stage, ReadSum, ReadAll
<1>6. size = 6 + m /\ size <= Len(buffer)
  BY <1>1, <1>2, <1>5
<1> HIDE DEF size
<1>7. t \in Seq(Byte) /\ Len(t) = 6 + m /\ \A k \in 1 .. 6 + m : t[k] = buffer[k]
  BY <1>1, <1>2, <1>6
<1> HIDE DEF t
<1>8. SubSeq(t, 1, 4) = SubSeq(wire, 1, 4)
  <2>1. 4 <= Len(t) /\ 4 <= Len(wire) /\ Len(wire) \in Nat /\ Len(t) \in Nat
    BY <1>1, <1>2, <1>6, <1>7
  <2>2. \A k \in 1 .. 4 : t[k] = wire[k]
    <3>1. \A k \in 1 .. 4 : k \in 1 .. 6 + m
      BY <1>2
    <3> QED BY <1>1, <1>7, <3>1
  <2> DEFINE x == SubSeq(t, 1, 4)
             y == SubSeq(wire, 1, 4)
  <2>3. x \in Seq(Byte) /\ Len(x) = 4 /\ \A k \in 1 .. 4 : x[k] = t[k]
    BY <1>7, <2>1
  <2>4. y \in Seq(Byte) /\ Len(y) = 4 /\ \A k \in 1 .. 4 : y[k] = wire[k]
    BY <1>1, <2>1
  <2> HIDE DEF x, y
  <2>5. x = y
    BY <2>2, <2>3, <2>4, SeqEqual
  <2> QED BY <2>5 DEF x, y
<1>9. SubSeq(t, 5, 4 + m) = payload
  <2> DEFINE x == SubSeq(t, 5, 4 + m)
  <2>1. x \in Seq(Byte) /\ Len(x) = m /\ \A k \in 1 .. m : x[k] = t[4 + k]
    BY <1>2, <1>7
  <2>2. ASSUME NEW k \in 1 .. m PROVE x[k] = payload[k]
    <3>1. 4 + k \in 1 .. 6 + m
      BY <1>2
    <3>2. buffer[4 + k] = payload[k]
      BY <1>5 DEF First
    <3> QED BY <1>7, <2>1, <3>1, <3>2
  <2> HIDE DEF x
  <2>3. x = payload
    BY <2>1, <2>2, SeqEqual
  <2> QED BY <2>3 DEF x
<1>10. Last(t) = END_OF_FRAME
  <2>1. 6 + m \in 1 .. 6 + m
    BY <1>2
  <2>2. t[6 + m] = END_OF_FRAME
    BY <1>5, <1>7, <2>1
  <2> QED BY <1>7, <2>2 DEF Last
<1> QED BY <1>2, <1>7, <1>8, <1>9, <1>10 DEF t, size

Whole == \E nr \in FrameNrs : wire = DeviceFrame(nr, payload)

LEMMA WholeShape ==
  ASSUME Whole, payload \in Seq(Byte)
  PROVE  \E cs \in Byte : FrameOf(wire, Stuff(payload), cs)
<1>1. PICK nr \in FrameNrs : wire = DeviceFrame(nr, payload)
  BY DEF Whole
<1>2. \E cs \in Byte : FrameOf(DeviceFrame(nr, payload), Stuff(payload), cs)
  BY DeviceShape
<1> QED BY <1>1, <1>2

ReceiveInv ==
  /\ pc = "arrived" => buffer = wire /\ WireOK
  /\ pc = "destuffing" => Destuffs /\ (Whole => Stage)
  /\ ReceiveInverts

LEMMA ReceiveStep ==
  ASSUME PayloadOK, ReceiveInv, [CodecNext]_codecVars
  PROVE  ReceiveInv'
<1> USE DEF PayloadOK
<1>1. CASE \/ \E nr \in FrameNrs : prepareCommand(nr)
           \/ StuffingBegin \/ StuffStep \/ StuffingEnd \/ appendChecksum
  <2>1. pc' \in {"prepared", "stuffing", "stuffed", "sent"}
    BY <1>1 DEF prepareCommand, StuffingBegin, StuffStep, StuffingEnd, appendChecksum
  <2> QED BY <2>1 DEF ReceiveInv, ReceiveInverts
<1>2. CASE DestuffingBegin
  <2>1. buffer = wire /\ WireOK /\ payload' = payload /\ wire' = wire /\ buffer' = buffer
    BY <1>2 DEF ReceiveInv, DestuffingBegin
  <2>2. Len(wire) \in Nat
    BY <2>1 DEF WireOK
  <2>3. CASE TooShort
    <3>1. pc' = "received"
      BY <1>2, <2>3 DEF DestuffingBegin
    <3>2. ~Whole
      <4>1. SUFFICES ASSUME NEW cs \in Byte, FrameOf(wire, Stuff(payload), cs) PROVE FALSE
        BY WholeShape
      <4>2. Len(wire) = 4 + Len(Stuff(payload)) + Len(ChecksumBytes(cs)) + 1
        BY <4>1 DEF FrameOf
      <4>3. Len(Stuff(payload)) \in Nat /\ Len(ChecksumBytes(cs)) \in 1 .. 2
        BY StuffType, ChecksumBytesType
      <4>4. Len(wire) <= 4
        BY <2>1, <2>3 DEF TooShort
      <4> QED BY <4>2, <4>3, <4>4
    <3>3. ReceiveInverts'
      BY <2>1, <3>2 DEF ReceiveInverts, Whole
    <3> QED BY <3>1, <3>3 DEF ReceiveInv
  <2>4. CASE ~TooShort
    <3>1. pc' = "destuffing" /\ src' = 5 /\ dst' = 5 /\ fas' = 0
      BY <1>2, <2>4 DEF DestuffingBegin
    <3>2. Len(wire) > 4
      BY <2>1, <2>2, <2>4 DEF TooShort
    <3>3. Destuffs'
      BY <2>1, <2>2, <3>1, <3>2 DEF Destuffs, WireOK
    <3>4. Stage'
      <4>1. 0 \in 0 .. Len(payload)
        OBVIOUS
      <4>2. Len(Upto(payload, 0)) = 0
        BY <4>1, UptoType
      <4>3. ReadTo(0)'
        BY <2>1, <3>1, <4>2 DEF ReadTo, First
      <4> QED BY <2>1, <4>1, <4>3 DEF Stage
    <3> QED BY <3>1, <3>3, <3>4 DEF ReceiveInv, ReceiveInverts
  <2> QED BY <2>3, <2>4
<1>3. CASE DestuffStep
  <2>1. Destuffs /\ (Whole => Stage)
    BY <1>3 DEF DestuffStep, ReceiveInv
  <2>2. Destuffs' /\ pc' = "destuffing" /\ wire' = wire /\ payload' = payload
    BY <1>3, <2>1, DestuffsNext, Rounds
  <2>3. ASSUME Whole PROVE Stage'
    <3>1. PICK cs \in Byte : FrameOf(wire, Stuff(payload), cs)
      BY <2>3, WholeShape
    <3> QED BY <1>3, <2>1, <2>3, <3>1, StageNext
  <2>4. Whole' => Whole
    BY <2>2 DEF Whole
  <2> QED BY <2>2, <2>3, <2>4 DEF ReceiveInv, ReceiveInverts
<1>4. CASE DestuffingEnd
  <2>1. /\ Destuffs /\ (Whole => Stage) /\ src > Len(buffer)
        /\ buffer' = SubSeq(buffer, 1, Len(buffer) - fas)
        /\ pc' = "received" /\ wire' = wire /\ payload' = payload
    BY <1>4 DEF DestuffingEnd, ReceiveInv
  <2>2. ASSUME Whole
        PROVE  /\ Len(buffer') = 4 + Len(payload) + 2
               /\ SubSeq(buffer', 1, 4) = SubSeq(wire, 1, 4)
               /\ SubSeq(buffer', 5, 4 + Len(payload)) = payload
               /\ Last(buffer') = END_OF_FRAME
    <3>1. PICK cs \in Byte : FrameOf(wire, Stuff(payload), cs)
      BY <2>2, WholeShape
    <3> QED BY <2>1, <2>2, <3>1, StageLast
  <2>3. ReceiveInverts'
    BY <2>1, <2>2 DEF ReceiveInverts, Whole
  <2> QED BY <2>1, <2>3 DEF ReceiveInv
<1>5. CASE UNCHANGED codecVars
  BY <1>5 DEF codecVars, ReceiveInv, WireOK, Destuffs, Whole, Stage, ReadTo, ReadSum, ReadAll,
    First, ReceiveInverts, Upto
<1> QED BY <1>1, <1>2, <1>3, <1>4, <1>5 DEF CodecNext

LEMMA ReceiveStart == CodecInit => ReceiveInv
<1> SUFFICES ASSUME CodecInit PROVE ReceiveInv
  OBVIOUS
<1>1. payload \in Seq(Byte)
  BY PayloadStart DEF PayloadOK
<1>2. ASSUME pc = "arrived" PROVE buffer = wire /\ WireOK
  <2>1. PICK nr \in FrameNrs :
          \E k \in 1 .. Len(DeviceFrame(nr, payload)) :
            wire = SubSeq(DeviceFrame(nr, payload), k, Len(DeviceFrame(nr, payload)))
    BY <1>2 DEF CodecInit
  <2> DEFINE f == DeviceFrame(nr, payload)
  <2>2. f \in Seq(Byte) /\ f[Len(f)] = END_OF_FRAME
    BY <1>1, DeviceShape DEF FrameOf
  <2>3. buffer = wire
    BY <1>2 DEF CodecInit
  <2> HIDE DEF f
  <2>4. PICK k \in 1 .. Len(f) : wire = SubSeq(f, k, Len(f))
    BY <2>1 DEF f
  <2>5. Len(f) \in Nat
    BY <2>2
  <2>6. wire \in Seq(Byte) /\ Len(wire) = Len(f) - k + 1
        /\ \A i \in 1 .. Len(f) - k + 1 : wire[i] = f[k + i - 1]
    BY <2>2, <2>4, <2>5
  <2>7. Len(f) - k + 1 \in 1 .. Len(f) - k + 1 /\ Len(f) - k + 1 >= 1
        /\ k + (Len(f) - k + 1) - 1 = Len(f)
    BY <2>5
  <2>8. wire[Len(wire)] = END_OF_FRAME
    BY <2>2, <2>6, <2>7
  <2> QED BY <2>3, <2>6, <2>7, <2>8 DEF WireOK
<1>3. pc \in {"idle", "arrived"}
  BY DEF CodecInit
<1> QED BY <1>2, <1>3 DEF ReceiveInv, ReceiveInverts

-------------------------------------------------------------------------------

CodecInv == PayloadOK /\ SendInv /\ ReceiveInv

LEMMA CodecInvariant == CodecSpec => []CodecInv
<1>1. CodecInit => CodecInv
  BY PayloadStart, ReceiveStart DEF CodecInv
<1>2. CodecInv /\ [CodecNext]_codecVars => CodecInv'
  BY SendStep, ReceiveStep DEF CodecInv
<1> QED BY <1>1, <1>2, PTL DEF CodecSpec

(* Neither loop overwrites a byte it has still to read, whatever is sent    *)
(* and whatever arrives: dst is not below src on the way down, since the    *)
(* escaped form of the first bytes is at least as long as they are, and not *)
(* above it on the way up.                                                  *)
THEOREM UnreadIsUntouchedCorrect == CodecSpec => []UnreadIsUntouched
<1>1. ASSUME CodecInv PROVE UnreadIsUntouched
  <2>1. ASSUME pc = "stuffing"
        PROVE  /\ dst >= src
               /\ \A k \in 1 .. src :
                    /\ k <= 3 => buffer[k] = (MK3_ID \o <<DATA_FRAME>>)[k]
                    /\ k > 4 => buffer[k] = payload[k - 4]
    <3>1. payload \in Seq(Byte)
      BY <1>1 DEF CodecInv, PayloadOK
    <3>2. PICK nr \in 0 .. 127 : StuffsDown(Request(nr))
      BY <1>1, <2>1 DEF CodecInv, SendInv
    <3> DEFINE b == Request(nr)
    <3>3. /\ b \in Seq(Byte) /\ Len(b) = 4 + Len(payload)
          /\ \A k \in 1 .. 3 : b[k] = (MK3_ID \o <<DATA_FRAME>>)[k]
          /\ \A k \in 1 .. Len(payload) : b[4 + k] = payload[k]
      BY <3>1, RequestShape
    <3> HIDE DEF b
    <3>4. src \in 0 .. Len(b) /\ dst = Len(Upto(b, src)) /\ \A k \in 1 .. src : buffer[k] = b[k]
      BY <3>2 DEF StuffsDown, b
    <3>5. /\ Len(Upto(b, src)) = src + Cardinality(EscapesTo(b, src))
          /\ Cardinality(EscapesTo(b, src)) \in Nat
      BY <3>3, <3>4, UptoLength
    <3>6. dst >= src
      BY <3>4, <3>5
    <3>7. Len(payload) \in Nat
      BY <3>1
    <3>8. ASSUME NEW k \in 1 .. src
          PROVE  /\ k <= 3 => buffer[k] = (MK3_ID \o <<DATA_FRAME>>)[k]
                 /\ k > 4 => buffer[k] = payload[k - 4]
      <4>1. buffer[k] = b[k]
        BY <3>4
      <4>2. k <= 3 => k \in 1 .. 3
        OBVIOUS
      <4>3. k > 4 => k - 4 \in 1 .. Len(payload) /\ 4 + (k - 4) = k
        BY <3>3, <3>4, <3>7
      <4>4. ASSUME k > 4 PROVE b[k] = payload[k - 4]
        <5>1. b[4 + (k - 4)] = payload[k - 4]
          BY <3>3, <4>3, <4>4
        <5> QED BY <4>3, <4>4, <5>1
      <4> QED BY <3>3, <4>1, <4>2, <4>4
    <3> QED BY <3>6, <3>8
  <2>2. pc = "destuffing" => \A k \in src .. Len(buffer) : buffer[k] = wire[k]
    BY <1>1 DEF CodecInv, ReceiveInv, Destuffs
  <2> QED BY <2>1, <2>2 DEF UnreadIsUntouched
<1> QED BY <1>1, CodecInvariant, PTL

(* A sent frame has its END_OF_FRAME at its end and nowhere else.           *)
THEOREM OneEndCorrect == CodecSpec => []OneEnd
<1>1. CodecInv => OneEnd
  BY SentShape DEF CodecInv, OneEnd
<1> QED BY <1>1, CodecInvariant, PTL

(* The bytes of a sent frame add up to 1 with either form of the checksum.  *)
THEOREM ChecksumClosesCorrect == CodecSpec => []ChecksumCloses
<1>1. CodecInv => ChecksumCloses
  BY SentShape DEF CodecInv, ChecksumCloses
<1> QED BY <1>1, CodecInvariant, PTL

(* stuffingFAtoFF leaves the escaped form of the request, for requests of   *)
(* any length and any bytes.                                                *)
THEOREM SentIsStuffedCorrect == CodecSpec => []SentIsStuffed
<1>1. CodecInv => SentIsStuffed
  BY SentShape DEF CodecInv, SentIsStuffed
<1> QED BY <1>1, CodecInvariant, PTL

(* DestuffingFAtoFF gives back what the inverter put into a whole frame,    *)
(* for answers of any length and any bytes, and every value of the          *)
(* checksum.                                                                *)
THEOREM ReceiveInvertsCorrect == CodecSpec => []ReceiveInverts
<1>1. CodecInv => ReceiveInverts
  BY DEF CodecInv, ReceiveInv
<1> QED BY <1>1, CodecInvariant, PTL

(* Neither loop reads or writes outside of the buffer: there is room for     *)
(* both bytes of an escape on the way down, and on the way up an escape is   *)
(* never the last byte, since what commandHandling hands over ends with      *)
(* END_OF_FRAME, even if its beginning is missing (ve_bus.cpp:547, 567).     *)
AccessesInside ==
  /\ (pc = "stuffing" /\ src >= 1) =>
       /\ src <= Len(buffer)
       /\ dst \in 1 .. Len(buffer)
       /\ Escaped(buffer[src]) => dst - 1 \in 1 .. Len(buffer)
  /\ (pc = "destuffing" /\ src <= Len(buffer)) =>
       /\ src >= 1
       /\ dst \in 1 .. Len(buffer)
       /\ buffer[src] = ESC => src + 1 <= Len(buffer) /\ dst + 1 <= Len(buffer)

LEMMA InsideWhileStuffing ==
  ASSUME NEW b \in Seq(Byte), StuffsDown(b), src >= 1
  PROVE  /\ src <= Len(buffer)
         /\ dst \in 1 .. Len(buffer)
         /\ Escaped(buffer[src]) => dst - 1 \in 1 .. Len(buffer)
<1>1. /\ src \in 0 .. Len(b) /\ dst = Len(Upto(b, src)) /\ Len(buffer) = Len(Stuff(b))
      /\ \A k \in 1 .. src : buffer[k] = b[k]
  BY DEF StuffsDown
<1>2. src \in 1 .. Len(b) /\ src \in 1 .. src
  BY <1>1
<1> DEFINE before == Len(Upto(b, src - 1))
<1>3. /\ before \in Nat /\ before >= src - 1
      /\ Escaped(b[src]) => Len(Upto(b, src)) = before + 2 /\ before + 2 <= Len(Stuff(b))
      /\ ~Escaped(b[src]) => Len(Upto(b, src)) = before + 1 /\ before + 1 <= Len(Stuff(b))
  BY <1>2, ItemAt
<1>4. buffer[src] = b[src]
  BY <1>1, <1>2
<1>5. Len(Stuff(b)) \in Nat
  BY StuffType
<1> HIDE DEF before
<1> QED BY <1>1, <1>2, <1>3, <1>4, <1>5

LEMMA InsideWhileDestuffing ==
  ASSUME Destuffs, src <= Len(buffer)
  PROVE  /\ src >= 1
         /\ dst \in 1 .. Len(buffer)
         /\ buffer[src] = ESC => src + 1 <= Len(buffer) /\ dst + 1 <= Len(buffer)
<1>1. /\ src \in 5 .. Len(buffer) /\ dst \in 5 .. src /\ Len(buffer) = Len(wire)
      /\ Len(buffer) \in Nat
  BY DEF Destuffs
<1>2. buffer[src] = wire[src] /\ wire[Len(wire)] = END_OF_FRAME
  <2>1. src \in src .. Len(wire)
    BY <1>1
  <2> QED BY <2>1 DEF Destuffs, WireOK
<1>3. buffer[src] = ESC => src # Len(buffer)
  <2>1. Len(buffer) = Len(wire)
    BY <1>1
  <2>2. src = Len(wire) => buffer[src] = END_OF_FRAME
    BY <1>2
  <2> QED BY <2>1, <2>2 DEF ESC, END_OF_FRAME
<1> QED BY <1>1, <1>3

(* No step of either loop reads or writes outside of the buffer.             *)
THEOREM AccessesInsideCorrect == CodecSpec => []AccessesInside
<1>1. ASSUME CodecInv PROVE AccessesInside
  <2>1. ASSUME pc = "stuffing", src >= 1
        PROVE  /\ src <= Len(buffer)
               /\ dst \in 1 .. Len(buffer)
               /\ Escaped(buffer[src]) => dst - 1 \in 1 .. Len(buffer)
    <3>1. payload \in Seq(Byte)
      BY <1>1 DEF CodecInv, PayloadOK
    <3>2. PICK nr \in 0 .. 127 : StuffsDown(Request(nr))
      BY <1>1, <2>1 DEF CodecInv, SendInv
    <3>3. Request(nr) \in Seq(Byte)
      BY <3>1, RequestShape
    <3> QED BY <2>1, <3>2, <3>3, InsideWhileStuffing
  <2>2. ASSUME pc = "destuffing", src <= Len(buffer)
        PROVE  /\ src >= 1
               /\ dst \in 1 .. Len(buffer)
               /\ buffer[src] = ESC => src + 1 <= Len(buffer) /\ dst + 1 <= Len(buffer)
    <3>1. Destuffs
      BY <1>1, <2>2 DEF CodecInv, ReceiveInv
    <3> QED BY <2>2, <3>1, InsideWhileDestuffing
  <2> QED BY <2>1, <2>2 DEF AccessesInside
<1> QED BY <1>1, CodecInvariant, PTL
===============================================================================
