------------------------- MODULE EndpointSyncProofs -------------------------
(***************************************************************************)
(* Proofs about EndpointSync, for all catalogs, registrations and lists,   *)
(* and any number of syncs that fail or are dry.                           *)
(*                                                                         *)
(* The calls of a phase are a flattened sequence.  Their order never       *)
(* matters: what is known of them is which are pending, and that no        *)
(* creation is pending twice.                                              *)
(***************************************************************************)
EXTENDS EndpointSync, FiniteSetTheorems, TLAPS

-----------------------------------------------------------------------------
(* Numbers and flattened sequences.                                        *)

\* A set of numbers that is not empty has a least one.
LEMMA LeastNumber ==
  ASSUME NEW T \in SUBSET Nat, T # {}
  PROVE  \E m \in T : \A k \in T : m <= k
<1>1. PICK t \in T : TRUE
  OBVIOUS
<1> DEFINE S == 1 .. t
           TT == {1 .. k : k \in {x \in T : x <= t}}
           R == StrictSubsetOrdering(S)
<1>2. IsFiniteSet(S)
  BY <1>1, FS_Interval
<1>3. IsWellFoundedOn(R, FiniteSubsetsOf(S))
  BY FS_StrictSubsetOrderingWellFounded
<1>4. TT \subseteq SUBSET S /\ TT # {}
  BY <1>1
<1>5. TT \subseteq FiniteSubsetsOf(S)
  BY <1>2, <1>4, FS_FiniteSubsetsOfFinite
<1>6. PICK s \in TT : \A y \in TT : <<y, s>> \notin R
  <2> HIDE DEF TT, R
  <2> QED
    BY <1>3, <1>4, <1>5, WFMin
<1>7. PICK m \in T : m <= t /\ s = 1 .. m
  BY <1>6
<1>8. ASSUME NEW k \in T, k < m
      PROVE  FALSE
  <2>1. 1 .. k \in TT
    BY <1>7, <1>8, <1>1
  <2>2. 1 .. k \subseteq 1 .. m /\ m \in 1 .. m /\ m \notin 1 .. k
    BY <1>8
  <2>3. <<1 .. k, s>> \in R
    BY <1>4, <1>6, <1>7, <2>1, <2>2 DEF StrictSubsetOrdering
  <2> QED
    BY <1>6, <2>1, <2>3
<1> QED
  BY <1>8

\* What holds of 1 and of k + 1 when of k holds of all numbers up to n.
LEMMA Induction ==
  ASSUME NEW n \in Nat, NEW S,
         n >= 1 => 1 \in S,
         \A k \in 1 .. n : k \in S /\ k < n => k + 1 \in S
  PROVE  \A k \in 1 .. n : k \in S
<1> DEFINE T == {k \in 1 .. n : k \notin S}
<1> SUFFICES ASSUME T # {} PROVE FALSE
  OBVIOUS
<1>1. PICK m \in T : \A k \in T : m <= k
  <2>1. T \in SUBSET Nat
    OBVIOUS
  <2> HIDE DEF T
  <2> QED BY <2>1, LeastNumber
<1>2. m # 1
  BY <1>1
<1>3. m - 1 \in 1 .. n /\ m - 1 \notin T /\ m - 1 < n
  BY <1>1, <1>2
<1> QED BY <1>1, <1>3

\* The function by which FlattenSeq is defined.
Flattens(f, s) ==
  f = [i \in 1 .. Len(s) |-> IF i = 1 THEN s[i] ELSE f[i - 1] \o s[i]]

LEMMA FlattensExists ==
  ASSUME NEW X, NEW s \in Seq(Seq(X))
  PROVE  \E f : Flattens(f, s)
<1> DEFINE Up(f, n) == f = [i \in 1 .. n |-> IF i = 1 THEN s[i] ELSE f[i - 1] \o s[i]]
           S == {n \in Nat : \E f : Up(f, n)}
<1>1. CASE Len(s) = 0
  <2>1. Flattens(<<>>, s)
    BY <1>1 DEF Flattens
  <2> QED BY <2>1
<1>2. CASE Len(s) > 0
  <2>1. 1 \in S
    <3>1. Up([i \in 1 .. 1 |-> s[i]], 1)
      OBVIOUS
    <3> QED BY <3>1
  <2>2. ASSUME NEW k \in 1 .. Len(s), k \in S, k < Len(s)
        PROVE  k + 1 \in S
    <3>1. PICK f : Up(f, k)
      BY <2>2
    <3>a. k \in Nat /\ k >= 1
      OBVIOUS
    <3>b. \A i \in 1 .. k : f[i] = IF i = 1 THEN s[i] ELSE f[i - 1] \o s[i]
      BY <3>1
    <3> HIDE DEF S, Up
    <3> DEFINE g == [i \in 1 .. k + 1 |-> IF i <= k THEN f[i] ELSE f[k] \o s[k + 1]]
    <3>2. ASSUME NEW i \in 1 .. k + 1
          PROVE  g[i] = IF i = 1 THEN s[i] ELSE g[i - 1] \o s[i]
      <4>1. CASE i = 1
        BY <4>1, <3>a, <3>b
      <4>2. CASE i # 1 /\ i <= k
        <5>0. i \in 1 .. k
          BY <4>2, <3>a
        <5>1. f[i] = f[i - 1] \o s[i]
          BY <4>2, <5>0, <3>b
        <5>2. i \in 1 .. k + 1 /\ i - 1 \in 1 .. k + 1 /\ i - 1 <= k
          BY <4>2, <3>a
        <5> QED BY <4>2, <5>1, <5>2
      <4>3. CASE i = k + 1
        BY <4>3, <3>a
      <4> QED BY <4>1, <4>2, <4>3
    <3>3. g = [i \in 1 .. k + 1 |-> g[i]]
      OBVIOUS
    <3> HIDE DEF g
    <3>4. Up(g, k + 1)
      BY <3>2, <3>3 DEF Up
    <3> QED BY <3>4, <3>a DEF S
  <2>3. Len(s) \in 1 .. Len(s)
    BY <1>2
  <2> HIDE DEF S
  <2>4. \A k \in 1 .. Len(s) : k \in S
    <3>1. Len(s) \in Nat
      OBVIOUS
    <3> DEFINE n == Len(s)
    <3> HIDE DEF n
    <3>2. \A k \in 1 .. n : k \in S
      BY <2>1, <2>2, <3>1, Induction DEF n
    <3> QED BY <3>2 DEF n
  <2>5. Len(s) \in S
    BY <2>3, <2>4
  <2> QED BY <2>5 DEF S, Flattens
<1> QED BY <1>1, <1>2

LEMMA FlattenIs ==
  ASSUME NEW X, NEW s \in Seq(Seq(X)), s # <<>>
  PROVE  \E f : Flattens(f, s) /\ FlattenSeq(s) = f[Len(s)]
<1>1. \E f : Flattens(f, s)
  BY FlattensExists
<1> DEFINE f == CHOOSE f : f = [i \in 1 .. Len(s) |-> IF i = 1 THEN s[i] ELSE f[i - 1] \o s[i]]
<1>2. Flattens(f, s)
  BY <1>1 DEF Flattens
<1>3. FlattenSeq(s) = f[Len(s)]
  BY DEF FlattenSeq
<1> QED BY <1>2, <1>3

-----------------------------------------------------------------------------
(* What is in a sequence, and how often.                                   *)

\* What of A is in t is there once.
Once(t, A) == \A i, j \in DOMAIN t : t[i] = t[j] /\ t[i] \in A => i = j

LEMMA SeqFacts ==
  ASSUME NEW X, NEW t \in Seq(X)
  PROVE  /\ Len(t) \in Nat /\ DOMAIN t = 1 .. Len(t) /\ ToSet(t) \subseteq X
         /\ \A i \in DOMAIN t : t[i] \in X /\ t[i] \in ToSet(t)
         /\ t # <<>> <=> Len(t) > 0
         /\ t = <<>> <=> ToSet(t) = {}
<1>1. Len(t) \in Nat /\ DOMAIN t = 1 .. Len(t) /\ (t # <<>> <=> Len(t) > 0)
  OBVIOUS
<1>2. \A i \in DOMAIN t : t[i] \in X
  OBVIOUS
<1>3. ToSet(t) \subseteq X /\ \A i \in DOMAIN t : t[i] \in ToSet(t)
  BY <1>2 DEF ToSet
<1>4. t = <<>> <=> ToSet(t) = {}
  <2>1. t = <<>> => DOMAIN t = {}
    BY <1>1
  <2>2. t # <<>> => 1 \in DOMAIN t
    BY <1>1
  <2> QED BY <2>1, <2>2, <1>3 DEF ToSet
<1> QED BY <1>1, <1>2, <1>3, <1>4

LEMMA SingleFacts == \A x : ToSet(<<x>>) = {x} /\ ToSet(<<>>) = {}
<1> TAKE x
<1>1. DOMAIN <<x>> = {1} /\ DOMAIN <<>> = {}
  OBVIOUS
<1> QED BY <1>1 DEF ToSet

LEMMA ConcatFacts ==
  ASSUME NEW X, NEW a \in Seq(X), NEW b \in Seq(X)
  PROVE  /\ a \o b \in Seq(X)
         /\ ToSet(a \o b) = ToSet(a) \cup ToSet(b)
         /\ \A A : Once(a, A) /\ Once(b, A) /\ ToSet(a) \cap ToSet(b) \cap A = {} => Once(a \o b, A)
<1> DEFINE t == a \o b
<1>1. /\ t \in Seq(X) /\ Len(a) \in Nat /\ Len(b) \in Nat
      /\ Len(t) = Len(a) + Len(b) /\ DOMAIN a = 1 .. Len(a) /\ DOMAIN b = 1 .. Len(b) /\ DOMAIN t = 1 .. Len(t)
  OBVIOUS
<1>2. \A k \in 1 .. Len(a) : t[k] = a[k]
  OBVIOUS
<1>3. \A k \in 1 .. Len(b) : t[Len(a) + k] = b[k]
  OBVIOUS
<1> HIDE DEF t
<1>4. ASSUME NEW k \in DOMAIN t
      PROVE  \/ k \in DOMAIN a /\ t[k] = a[k]
             \/ \E j \in DOMAIN b : k = Len(a) + j /\ t[k] = b[j]
  <2> DEFINE j == k - Len(a)
  <2>1. CASE k <= Len(a)
    BY <1>1, <1>2, <2>1
  <2>2. CASE k > Len(a)
    <3>1. j \in DOMAIN b /\ k = Len(a) + j
      BY <1>1, <2>2
    <3> HIDE DEF j
    <3> QED BY <3>1, <1>1, <1>3
  <2> QED BY <2>1, <2>2, <1>1
<1>5. ToSet(t) \subseteq ToSet(a) \cup ToSet(b)
  BY <1>4 DEF ToSet
<1>6. ToSet(a) \cup ToSet(b) \subseteq ToSet(t)
  <2>1. ASSUME NEW k \in DOMAIN a PROVE a[k] \in ToSet(t)
    <3>1. k \in DOMAIN t
      BY <1>1
    <3> QED BY <3>1, <1>1, <1>2 DEF ToSet
  <2>2. ASSUME NEW k \in DOMAIN b PROVE b[k] \in ToSet(t)
    <3>1. Len(a) + k \in DOMAIN t
      BY <1>1
    <3> QED BY <3>1, <1>1, <1>3 DEF ToSet
  <2> QED BY <2>1, <2>2 DEF ToSet
<1>7. ASSUME NEW A, Once(a, A), Once(b, A), ToSet(a) \cap ToSet(b) \cap A = {}
      PROVE  Once(t, A)
  <2> SUFFICES ASSUME NEW i \in DOMAIN t, NEW j \in DOMAIN t, t[i] = t[j], t[i] \in A
               PROVE  i = j
    BY DEF Once
  <2>1. CASE i \in DOMAIN a /\ t[i] = a[i] /\ j \in DOMAIN a /\ t[j] = a[j]
    BY <2>1, <1>7 DEF Once
  <2>2. CASE (\E k \in DOMAIN b : i = Len(a) + k /\ t[i] = b[k]) /\ (\E k \in DOMAIN b : j = Len(a) + k /\ t[j] = b[k])
    <3>1. PICK k \in DOMAIN b : i = Len(a) + k /\ t[i] = b[k]
      BY <2>2
    <3>2. PICK l \in DOMAIN b : j = Len(a) + l /\ t[j] = b[l]
      BY <2>2
    <3> QED BY <3>1, <3>2, <1>7 DEF Once
  <2>3. ~ (t[i] \in ToSet(a) /\ t[j] \in ToSet(b)) /\ ~ (t[j] \in ToSet(a) /\ t[i] \in ToSet(b))
    BY <1>7
  <2> QED BY <1>4, <2>1, <2>2, <2>3 DEF ToSet
<1> QED BY <1>1, <1>5, <1>6, <1>7 DEF t

LEMMA FlattenFacts ==
  ASSUME NEW X, NEW s \in Seq(Seq(X))
  PROVE  /\ FlattenSeq(s) \in Seq(X)
         /\ \A x : x \in ToSet(FlattenSeq(s)) <=> \E i \in DOMAIN s : x \in ToSet(s[i])
         /\ \A A : /\ \A i \in DOMAIN s : Once(s[i], A)
                   /\ \A i, j \in DOMAIN s : i # j => ToSet(s[i]) \cap ToSet(s[j]) \cap A = {}
                   => Once(FlattenSeq(s), A)
<1>1. CASE s = <<>>
  <2>1. FlattenSeq(s) = <<>> /\ DOMAIN s = {} /\ DOMAIN <<>> = {}
    BY <1>1 DEF FlattenSeq
  <2>2. FlattenSeq(s) \in Seq(X) /\ ToSet(FlattenSeq(s)) = {}
    BY <2>1 DEF ToSet
  <2>3. \A A : Once(FlattenSeq(s), A)
    BY <2>1 DEF Once
  <2> QED BY <2>1, <2>2, <2>3
<1>2. CASE s # <<>>
  <2>1. PICK f : Flattens(f, s) /\ FlattenSeq(s) = f[Len(s)]
    BY <1>2, FlattenIs
  <2>2. \A i \in 1 .. Len(s) : f[i] = IF i = 1 THEN s[i] ELSE f[i - 1] \o s[i]
    BY <2>1 DEF Flattens
  <2>3. \A i \in 1 .. Len(s) : s[i] \in Seq(X)
    OBVIOUS
  <2> DEFINE n == Len(s)
             Up(k) == /\ f[k] \in Seq(X)
                      /\ \A x : x \in ToSet(f[k]) <=> \E i \in 1 .. k : x \in ToSet(s[i])
             S == {k \in 1 .. n : Up(k)}
  <2>4. n \in Nat /\ n >= 1 /\ DOMAIN s = 1 .. n
    BY <1>2
  <2>5. 1 \in S
    <3>1. f[1] = s[1] /\ s[1] \in Seq(X) /\ 1 \in 1 .. n
      BY <2>2, <2>3, <2>4
    <3> QED BY <3>1
  <2>6. ASSUME NEW k \in 1 .. n, k < n
        PROVE  /\ k + 1 \in 1 .. n /\ f[k + 1] = f[k] \o s[k + 1] /\ s[k + 1] \in Seq(X)
               /\ 1 .. k + 1 = (1 .. k) \cup {k + 1} /\ k \in 1 .. k /\ k + 1 \notin 1 .. k
    <3>1. k + 1 \in 1 .. n /\ k + 1 # 1 /\ (k + 1) - 1 = k
      BY <2>4, <2>6
    <3>2. f[k + 1] = f[k] \o s[k + 1] /\ s[k + 1] \in Seq(X)
      BY <3>1, <2>2, <2>3
    <3> QED BY <3>1, <3>2, <2>4
  <2>7. ASSUME NEW k \in 1 .. n, k \in S, k < n
        PROVE  k + 1 \in S
    <3>0. f[k] \in Seq(X) /\ s[k + 1] \in Seq(X) /\ f[k + 1] = f[k] \o s[k + 1]
      BY <2>6, <2>7
    <3>1. f[k + 1] \in Seq(X) /\ ToSet(f[k + 1]) = ToSet(f[k]) \cup ToSet(s[k + 1])
      BY ONLY <3>0, ConcatFacts
    <3>2. Up(k + 1)
      BY <3>1, <2>6, <2>7
    <3> QED BY <3>2, <2>6, <2>7
  <2>8. \A k \in 1 .. n : Up(k)
    <3> HIDE DEF n, Up
    <3>1. \A k \in 1 .. n : k \in S
      <4> HIDE DEF S
      <4> QED BY <2>4, <2>5, <2>7, Induction
    <3> QED BY <3>1
  <2>9. ASSUME NEW A, \A i \in DOMAIN s : Once(s[i], A),
               \A i, j \in DOMAIN s : i # j => ToSet(s[i]) \cap ToSet(s[j]) \cap A = {}
        PROVE  Once(f[n], A)
    <3> DEFINE T == {k \in 1 .. n : Once(f[k], A)}
    <3>1. 1 \in T
      <4>1. f[1] = s[1] /\ 1 \in 1 .. n
        BY <2>2, <2>4
      <4> QED BY <4>1, <2>4, <2>9
    <3>2. ASSUME NEW k \in 1 .. n, k \in T, k < n
          PROVE  k + 1 \in T
      <4>1. ToSet(f[k]) \cap ToSet(s[k + 1]) \cap A = {}
        <5> SUFFICES ASSUME NEW x \in ToSet(f[k]), x \in ToSet(s[k + 1]), x \in A PROVE FALSE
          OBVIOUS
        <5>1. PICK i \in 1 .. k : x \in ToSet(s[i])
          BY <2>8
        <5>2. i \in DOMAIN s /\ k + 1 \in DOMAIN s /\ i # k + 1
          BY <2>4, <2>6, <3>2
        <5> QED BY <5>1, <5>2, <2>9
      <4>2. Once(f[k], A) /\ Once(s[k + 1], A) /\ f[k] \in Seq(X)
        <5>1. k + 1 \in DOMAIN s /\ s[k + 1] \in Seq(X) /\ f[k] \in Seq(X)
          BY <2>4, <2>6, <2>8, <3>2
        <5> QED BY <5>1, <2>9, <3>2
      <4>3. k + 1 \in 1 .. n /\ f[k + 1] = f[k] \o s[k + 1] /\ s[k + 1] \in Seq(X)
        BY <2>6, <3>2
      <4>4. Once(f[k] \o s[k + 1], A)
        BY ONLY <4>1, <4>2, <4>3, ConcatFacts
      <4>5. Once(f[k + 1], A)
        BY <4>3, <4>4
      <4> QED BY <4>3, <4>5
    <3>3. \A k \in 1 .. n : k \in T
      <4> HIDE DEF T, n
      <4> QED BY <2>4, <3>1, <3>2, Induction
    <3> QED BY <3>3, <2>4
  <2>a. FlattenSeq(s) = f[n] /\ Up(n) /\ DOMAIN s = 1 .. n
    <3>1. n \in 1 .. n
      BY <2>4
    <3> HIDE DEF Up
    <3> QED BY <3>1, <2>1, <2>4, <2>8
  <2>b. FlattenSeq(s) \in Seq(X) /\ \A x : x \in ToSet(FlattenSeq(s)) <=> \E i \in DOMAIN s : x \in ToSet(s[i])
    BY <2>a
  <2>c. \A A : /\ \A i \in DOMAIN s : Once(s[i], A)
               /\ \A i, j \in DOMAIN s : i # j => ToSet(s[i]) \cap ToSet(s[j]) \cap A = {}
               => Once(FlattenSeq(s), A)
    <3> HIDE DEF n
    <3> QED BY <2>a, <2>9
  <2> QED BY <2>b, <2>c
<1> QED BY <1>1, <1>2

\* A mapped sequence.
LEMMA MapFacts ==
  ASSUME NEW X, NEW Y, NEW t \in Seq(X), NEW u,
         u = [i \in DOMAIN t |-> u[i]], \A i \in DOMAIN t : u[i] \in Y
  PROVE  /\ u \in Seq(Y) /\ DOMAIN u = DOMAIN t
         /\ ToSet(u) = {u[i] : i \in DOMAIN t}
<1>1. Len(t) \in Nat /\ DOMAIN t = 1 .. Len(t)
  OBVIOUS
<1>2. DOMAIN u = DOMAIN t
  OBVIOUS
<1>3. u \in Seq(Y)
  BY <1>1
<1> QED BY <1>2, <1>3 DEF ToSet

LEMMA TailFacts ==
  ASSUME NEW X, NEW t \in Seq(X), t # <<>>
  PROVE  /\ Head(t) \in X /\ Head(t) \in ToSet(t)
         /\ Tail(t) \in Seq(X)
         /\ ToSet(t) = {Head(t)} \cup ToSet(Tail(t))
         /\ \A A : Once(t, A) => Once(Tail(t), A) /\ (Head(t) \in A => Head(t) \notin ToSet(Tail(t)))
<1> DEFINE u == Tail(t)
<1>1. /\ u \in Seq(X) /\ Len(t) \in Nat /\ Len(t) > 0 /\ DOMAIN t = 1 .. Len(t) /\ Head(t) = t[1]
      /\ Len(u) = Len(t) - 1 /\ DOMAIN u = 1 .. Len(t) - 1
  OBVIOUS
<1>2. \A i \in 1 .. Len(t) - 1 : u[i] = t[i + 1]
  OBVIOUS
<1>3. Head(t) \in X /\ Head(t) \in ToSet(t)
  BY <1>1 DEF ToSet
<1> HIDE DEF u
<1>4. ASSUME NEW i \in DOMAIN u PROVE i + 1 \in DOMAIN t /\ u[i] = t[i + 1] /\ i + 1 # 1
  BY <1>1, <1>2
<1>5. ASSUME NEW i \in DOMAIN t, i # 1 PROVE i - 1 \in DOMAIN u /\ t[i] = u[i - 1]
  <2>1. i - 1 \in DOMAIN u /\ (i - 1) + 1 = i
    BY <1>1, <1>5
  <2> QED BY <2>1, <1>4
<1>6. ToSet(t) = {Head(t)} \cup ToSet(u)
  BY <1>1, <1>3, <1>4, <1>5 DEF ToSet
<1>7. ASSUME NEW A, Once(t, A)
      PROVE  Once(u, A) /\ (Head(t) \in A => Head(t) \notin ToSet(u))
  <2>1. ASSUME NEW i \in DOMAIN u, NEW j \in DOMAIN u, u[i] = u[j], u[i] \in A PROVE i = j
    <3>1. i + 1 = j + 1
      BY <1>4, <1>7, <2>1 DEF Once
    <3> QED BY <3>1, <1>1
  <2>2. ASSUME NEW i \in DOMAIN u, u[i] = t[1], t[1] \in A PROVE FALSE
    <3>1. 1 \in DOMAIN t
      BY <1>1
    <3> QED BY <3>1, <1>4, <1>7, <2>2 DEF Once
  <2> QED BY <1>1, <2>1, <2>2 DEF Once, ToSet
<1> QED BY <1>1, <1>3, <1>6, <1>7 DEF u

LEMMA ThoseFacts ==
  ASSUME NEW X, NEW t \in Seq(X), NEW S
  PROVE  /\ Those(t, S) \in Seq(X)
         /\ ToSet(Those(t, S)) = ToSet(t) \cap S
         /\ Once(t, X) => Once(Those(t, S), X)
<1> DEFINE s == [i \in DOMAIN t |-> IF t[i] \in S THEN <<t[i]>> ELSE <<>>]
<1>1. Len(t) \in Nat /\ DOMAIN t = 1 .. Len(t) /\ \A i \in DOMAIN t : t[i] \in X
  OBVIOUS
<1>2. DOMAIN s = DOMAIN t /\ \A i \in DOMAIN t : s[i] = IF t[i] \in S THEN <<t[i]>> ELSE <<>>
  OBVIOUS
<1>3. ASSUME NEW i \in DOMAIN t
      PROVE  /\ s[i] \in Seq(X) /\ ToSet(s[i]) = {t[i]} \cap S /\ Once(s[i], X)
  <2>1. CASE t[i] \in S
    <3>1. s[i] = <<t[i]>> /\ DOMAIN s[i] = {1}
      BY <1>2, <2>1
    <3> QED BY <1>1, <2>1, <3>1 DEF ToSet, Once
  <2>2. CASE t[i] \notin S
    <3>1. s[i] = <<>> /\ DOMAIN s[i] = {}
      BY <1>2, <2>2
    <3> QED BY <1>1, <2>2, <3>1 DEF ToSet, Once
  <2> QED BY <2>1, <2>2
<1>4. s \in Seq(Seq(X))
  BY <1>1, <1>2, <1>3
<1>5. Those(t, S) = FlattenSeq(s)
  BY DEF Those
<1> HIDE DEF s
<1>6. FlattenSeq(s) \in Seq(X)
  BY <1>4, FlattenFacts
<1>7. ToSet(FlattenSeq(s)) = ToSet(t) \cap S
  <2>1. \A x : x \in ToSet(FlattenSeq(s)) <=> \E i \in DOMAIN s : x \in ToSet(s[i])
    BY <1>4, FlattenFacts
  <2>2. ASSUME NEW x \in ToSet(t) \cap S PROVE \E i \in DOMAIN s : x \in ToSet(s[i])
    <3>1. PICK i \in DOMAIN t : x = t[i]
      BY DEF ToSet
    <3> QED BY <1>2, <1>3, <3>1
  <2>3. ASSUME NEW i \in DOMAIN s PROVE ToSet(s[i]) \subseteq ToSet(t) \cap S
    <3>1. t[i] \in ToSet(t)
      BY <1>2 DEF ToSet
    <3> QED BY <1>2, <1>3, <3>1
  <2> QED BY <2>1, <2>2, <2>3
<1>8. ASSUME Once(t, X) PROVE Once(FlattenSeq(s), X)
  <2>1. ASSUME NEW i \in DOMAIN s, NEW j \in DOMAIN s, i # j PROVE ToSet(s[i]) \cap ToSet(s[j]) \cap X = {}
    BY <1>1, <1>2, <1>3, <1>8, <2>1 DEF Once
  <2>2. \A i \in DOMAIN s : Once(s[i], X)
    BY <1>2, <1>3
  <2>3. \A i, j \in DOMAIN s : i # j => ToSet(s[i]) \cap ToSet(s[j]) \cap X = {}
    BY <2>1
  <2>4. \A A : /\ \A i \in DOMAIN s : Once(s[i], A)
               /\ \A i, j \in DOMAIN s : i # j => ToSet(s[i]) \cap ToSet(s[j]) \cap A = {}
               => Once(FlattenSeq(s), A)
    BY <1>4, FlattenFacts
  <2> QED BY <2>2, <2>3, <2>4
<1> QED BY <1>5, <1>6, <1>7, <1>8

LEMMA SetToSeqsFacts ==
  ASSUME NEW S, IsFiniteSet(S), NEW t \in SetToSeqs(S)
  PROVE  t \in Seq(S) /\ ToSet(t) = S /\ \A A : Once(t, A)
<1> DEFINE D == 1 .. Cardinality(S)
<1>1. Cardinality(S) \in Nat
  BY FS_CardinalityType
<1>2. t \in [D -> S] /\ \A i, j \in D : i # j => t[i] # t[j]
  BY DEF SetToSeqs
<1>3. t \in Injection(D, S)
  BY <1>2 DEF Injection, IsInjective
<1>4. IsFiniteSet(D) /\ Cardinality(D) = Cardinality(S)
  <2>1. 1 \in Int /\ Cardinality(S) \in Int
    BY <1>1
  <2>2. /\ IsFiniteSet(1 .. Cardinality(S))
        /\ Cardinality(1 .. Cardinality(S)) = IF 1 > Cardinality(S) THEN 0 ELSE Cardinality(S) - 1 + 1
    BY <2>1, FS_Interval
  <2> QED BY <1>1, <2>2
<1>5. t \in Surjection(D, S)
  <2> HIDE DEF D
  <2> QED BY <1>3, <1>4, FS_Injection
<1>6. DOMAIN t = D /\ t \in Seq(S)
  BY <1>1, <1>2
<1>7. ToSet(t) = S
  BY <1>2, <1>5, <1>6 DEF ToSet, Surjection
<1> QED BY <1>2, <1>6, <1>7 DEF Once

-----------------------------------------------------------------------------
(* The invariant.                                                          *)

Pending == ToSet(calls)
DeleteServiceCall(s) == [op |-> "delete service", id |-> s]

Early == {"double", "services", "regions"}
Late == {"extra services", "extra regions"}

\* Without double services the sync keeps an eye on all of the catalog, and
\* on a regular one it finds the services that matter.
Sound == start.unique \/ start.regular

\* srv_dict knows every service, but for double ones that are going to be
\* deleted; the listing is as the catalog is.
Indexed ==
  Sound /\ phase \in Early \cup {"endpoints"} =>
    /\ \A k \in DOMAIN srv_dict : srv_dict[k] \in DOMAIN services /\ services[srv_dict[k]] = k
    /\ \A s \in DOMAIN services :
         /\ services[s] \in DOMAIN srv_dict
         /\ srv_dict[services[s]] = s \/ (phase = "double" /\ DeleteServiceCall(s) \in Pending)
    /\ \A s \in DOMAIN seen \cap DOMAIN services : seen[s] = services[s]
    /\ phase \in Early => ToSet(endps) = endpoints

\* Only double services without endpoints are deleted first.
DoublesGo ==
  Sound /\ phase = "double" =>
    \A c \in Pending : \E s \in DOMAIN seen :
      /\ c = DeleteServiceCall(s) /\ EndpointsOf(s) = {}
      /\ seen[s] \in DOMAIN srv_dict /\ srv_dict[seen[s]] # s

\* What is created or overwritten is not there, and not pending twice.
MissingCome ==
  phase = "services" =>
    /\ \A c \in Pending :
         /\ c.key \in want.services /\ c.key \notin DOMAIN srv_dict
         /\ c.op = "update service" <=> c.key.name \in DOMAIN spare
    /\ \A i, j \in DOMAIN calls : calls[i].key = calls[j].key => i = j

\* A wanted service is there or comes.
WantedThere ==
  start.regular /\ phase \in {"services", "regions", "endpoints"} \cup Late =>
    \A k \in want.services :
      \/ \E s \in DOMAIN services : services[s] = k
      \/ phase = "services" /\ \E c \in Pending : c.key = k

\* A service has endpoints in one region at most, and they are wanted there.
RegionIsOne == start.regular /\ phase \in Running => InOneRegion(want)

\* A URL is only given to the one endpoint of a service.
UrlOk(s, o) == HasOne(s) /\ (start.repeatable => IsAlone(want, o))
UrlsFit ==
  start.regular /\ phase \in Early =>
    /\ \A s \in DOMAIN services : \A o \in want.offers : GetsUrl(s, o) => UrlOk(s, o)
    /\ \A n \in DOMAIN spare : \A o \in want.offers :
         /\ spare[n] \in DOMAIN services /\ o.key.name = n /\ o.key \notin DOMAIN srv_dict
         /\ HasCands(spare[n], o) /\ ~ HasMatch(spare[n], o)
         => UrlOk(spare[n], o)

\* A wanted region is there or comes, and no other stays.
RegionsCome ==
  /\ start.regular /\ phase \in {"regions", "endpoints"} \cup Late =>
       \A r \in DOMAIN want.regions :
         \/ r \in DOMAIN regions /\ regions[r] = want.regions[r]
         \/ phase = "regions" /\ \E c \in Pending : c.region = r
  /\ phase = "regions" => \A c \in Pending : c.region \in DOMAIN want.regions
  /\ phase = "extra regions" =>
       /\ \A c \in Pending : c.region \notin DOMAIN want.regions
       /\ \A r \in DOMAIN regions : r \in DOMAIN want.regions \/ \E c \in Pending : c.region = r

\* Where an offer is to be served.
IsAt(e, o) == services[e.srv] = o.key /\ e.region = o.region /\ e.interface = o.interface

Creates == [op : {"create endpoint"}, offer : Offer]
Deleted == {c.id : c \in {d \in Pending : d.op = "delete endpoint"}}
Updates == {d \in Pending : d.op = "update endpoint"}
Updated == {c.id : c \in Updates}

\* An endpoint that is created is not there, and not pending twice.
CreatesOnce ==
  Sound /\ phase = "endpoints" =>
    /\ \A c \in Pending \cap Creates : c.offer \in want.offers /\ \A e \in endpoints : ~ IsAt(e, c.offer)
    /\ Once(calls, Creates)
    /\ Deleted \cup Updated \subseteq {e.id : e \in ToSet(endps)}

\* Every offer is served or going to be, every endpoint serves an offer, is
\* going to or goes, and of two in one place one goes.
EndpointsCome ==
  start.regular /\ phase = "endpoints" =>
    /\ \A o \in want.offers :
         \/ \E e \in endpoints : IsAt(e, o) /\ e.url = o.url /\ e.id \notin Deleted \cup Updated
         \/ CreateCall(o) \in Pending
         \/ \E e \in endpoints : IsAt(e, o) /\ e.id \notin Deleted /\ \E c \in Updates : c.id = e.id /\ c.url = o.url
    /\ \A e \in endpoints :
         \/ e.id \in Deleted
         \/ \E o \in want.offers : IsAt(e, o) /\ e.url = o.url /\ e.id \notin Updated
         \/ \E o \in want.offers : IsAt(e, o) /\ \E c \in Updates : c.id = e.id /\ c.url = o.url
    /\ \A e, f \in endpoints :
         e.srv = f.srv /\ e.region = f.region /\ e.interface = f.interface
           => e = f \/ e.id \in Deleted \/ f.id \in Deleted
    /\ \A c, d \in Updates : c.id = d.id => c = d
    /\ start.repeatable =>
         \A e \in endpoints : \A o \in want.offers :
           e.id \in Updated /\ services[e.srv] = o.key
             => IsAt(e, o) /\ HasOne(e.srv) /\ IsAlone(want, o)

\* The endpoints are as wanted, and so are the services in the end.
EndpointsThere ==
  start.regular /\ phase \in Late =>
    /\ {OfferOf(e) : e \in endpoints} = want.offers /\ NoDouble
    /\ \A s \in DOMAIN services :
         services[s] \in want.services \/ (phase = "extra services" /\ DeleteServiceCall(s) \in Pending)
ExtrasGo ==
  Sound /\ phase = "extra services" =>
    \A c \in Pending : c.id \in DOMAIN services => services[c.id] \notin want.services

\* Endpoints that serve are not touched.
ServingStay ==
  start.regular /\ start.unique =>
    /\ start.serving \subseteq endpoints
    /\ phase \in Running => \A e \in start.serving : OfferOf(e) \in want.offers
    /\ phase = "endpoints" => \A e \in start.serving : e.id \notin Deleted \cup Updated

\* What a sync leaves when it stops at a call.
Resumable == start.repeatable /\ phase \in Running \cup {"raised"} => Repeatable(want)

\* What start says of the arguments.
StartFacts ==
  /\ start.repeatable => start.regular
  /\ start.regular => /\ OneDesc(want)
                      /\ \A o, p \in want.offers : o.key.name = p.key.name => o.region = p.region
                      /\ phase \in Running => final = want.offers

Core ==
  /\ TypeOK /\ StartFacts
  /\ Indexed /\ DoublesGo /\ MissingCome /\ WantedThere /\ RegionIsOne /\ UrlsFit /\ RegionsCome
  /\ CreatesOnce /\ EndpointsCome /\ EndpointsThere /\ ExtrasGo
  /\ NoDoubleMade /\ ServingStay /\ SyncReaches

IInv == Core /\ Resumable

-----------------------------------------------------------------------------
(* What Begin lists and plans.                                             *)

LEMMA CallFacts ==
  /\ CallsIn("double") = [op : {"delete service"}, id : ServiceId]
                           \cup [op : {"delete endpoint"}, id : 1 .. MaxEndpoints] \cup {KeyError}
  /\ CallsIn("services") = [op : {"create service", "update service"}, key : Key]
  /\ CallsIn("regions") = [op : {"create region", "update region"}, region : Region]
  /\ CallsIn("endpoints") = [op : {"create endpoint"}, offer : Offer]
                              \cup [op : {"update endpoint"}, id : 1 .. MaxEndpoints, url : Url]
                              \cup [op : {"delete endpoint"}, id : 1 .. MaxEndpoints] \cup {KeyError}
  /\ CallsIn("extra services") = [op : {"delete service"}, id : ServiceId]
  /\ CallsIn("extra regions") = [op : {"delete region"}, region : Region]
  /\ \A p \in NotRunning : CallsIn(p) = {}
BY DEF CallsIn, NotRunning

LEMMA IdsFacts ==
  ASSUME NEW ids \in Orders
  PROVE  /\ ids \in Seq(1 .. MaxEndpoints) /\ ToSet(ids) = 1 .. MaxEndpoints
         /\ \A X : Once(ids, X)
         /\ ServiceId \subseteq 1 .. MaxEndpoints
<1>1. MaxEndpoints \in Nat /\ ids \in [1 .. MaxEndpoints -> 1 .. MaxEndpoints]
  BY BoundsAssumption, OrdersAssumption
<1>2. ids \in Seq(1 .. MaxEndpoints)
  BY <1>1
<1> QED
  BY <1>2, BoundsAssumption, OrdersAssumption DEF Once, ServiceId

LEMMA ServiceListFacts ==
  ASSUME IsCatalog(services, endpoints, regions), NEW ids \in Orders
  PROVE  /\ ServiceList(ids) \in Seq(ServiceId) /\ ToSet(ServiceList(ids)) = DOMAIN services
         /\ Once(ServiceList(ids), ServiceId)
<1> DEFINE t == ServiceList(ids)
<1>1. t \in Seq(1 .. MaxEndpoints) /\ ToSet(t) = DOMAIN services /\ Once(t, 1 .. MaxEndpoints)
  <2>1. DOMAIN services \subseteq 1 .. MaxEndpoints
    BY IdsFacts DEF IsCatalog, IsPartialFcn
  <2>2. /\ Those(ids, DOMAIN services) \in Seq(1 .. MaxEndpoints)
        /\ ToSet(Those(ids, DOMAIN services)) = ToSet(ids) \cap DOMAIN services
        /\ Once(ids, 1 .. MaxEndpoints) => Once(Those(ids, DOMAIN services), 1 .. MaxEndpoints)
    <3>1. ids \in Seq(1 .. MaxEndpoints)
      BY IdsFacts
    <3> QED BY ONLY <3>1, ThoseFacts
  <2> QED BY <2>1, <2>2, IdsFacts DEF ServiceList
<1> HIDE DEF t
<1>2. \A i \in DOMAIN t : t[i] \in ServiceId
  BY <1>1, SeqFacts DEF IsCatalog, IsPartialFcn
<1>3. t \in Seq(ServiceId)
  BY <1>1, <1>2
<1> QED BY <1>1, <1>3, IdsFacts DEF t, Once

LEMMA EndpointListFacts ==
  ASSUME IsCatalog(services, endpoints, regions), NEW ids \in Orders
  PROVE  EndpointList(ids) \in Seq(Endpoint) /\ ToSet(EndpointList(ids)) = endpoints
<1> DEFINE listed == Those(ids, {e.id : e \in endpoints})
           t == EndpointList(ids)
<1>1. listed \in Seq(1 .. MaxEndpoints) /\ ToSet(listed) = {e.id : e \in endpoints}
  <2>1. {e.id : e \in endpoints} \subseteq 1 .. MaxEndpoints
    BY DEF IsCatalog, Endpoint
  <2>2. ids \in Seq(1 .. MaxEndpoints) /\ ToSet(ids) = 1 .. MaxEndpoints
    BY IdsFacts
  <2> DEFINE S == {e.id : e \in endpoints}
  <2> HIDE DEF S
  <2>3. Those(ids, S) \in Seq(1 .. MaxEndpoints) /\ ToSet(Those(ids, S)) = ToSet(ids) \cap S
    BY ONLY <2>2, ThoseFacts
  <2> QED BY <2>1, <2>2, <2>3 DEF S
<1> HIDE DEF listed
<1>2. t = [i \in DOMAIN listed |-> CHOOSE e \in endpoints : e.id = listed[i]]
  BY DEF EndpointList, listed
<1>3. \A i \in DOMAIN listed : t[i] = CHOOSE e \in endpoints : e.id = listed[i]
  BY <1>2
<1> HIDE DEF t
<1>4. ASSUME NEW i \in DOMAIN listed PROVE t[i] \in endpoints /\ t[i].id = listed[i]
  <2>1. listed[i] \in {e.id : e \in endpoints}
    BY <1>1, SeqFacts
  <2> QED BY <1>3, <2>1
<1>5. endpoints \subseteq Endpoint
  BY DEF IsCatalog
<1>6. \A i \in DOMAIN listed : t[i] \in Endpoint
  BY <1>4, <1>5
<1>7. t = [i \in DOMAIN listed |-> t[i]]
  BY <1>2
<1>8. t \in Seq(Endpoint) /\ ToSet(t) = {t[i] : i \in DOMAIN listed}
  BY ONLY <1>1, <1>6, <1>7, MapFacts
<1>9. ASSUME NEW e \in endpoints PROVE e \in ToSet(t)
  <2>1. PICK i \in DOMAIN listed : listed[i] = e.id
    BY <1>1 DEF ToSet
  <2>2. t[i] = e
    BY <1>4, <2>1 DEF IsCatalog
  <2> QED BY <1>8, <2>2
<1> QED BY <1>4, <1>8, <1>9 DEF t

LEMMA FewEndpoints ==
  ASSUME IsCatalog(services, endpoints, regions)
  PROVE  IsFiniteSet(endpoints)
<1> DEFINE f == [e \in endpoints |-> e.id]
<1>1. f \in Injection(endpoints, 1 .. MaxEndpoints)
  BY DEF IsCatalog, Endpoint, Injection, IsInjective
<1>2. IsFiniteSet(1 .. MaxEndpoints)
  <2>1. 1 \in Int /\ MaxEndpoints \in Int
    BY BoundsAssumption
  <2> QED BY <2>1, FS_Interval
<1> HIDE DEF f
<1> QED BY <1>1, <1>2, FS_Injection

\* Among numbers of things there is a first of the greatest.
LEMMA Foremost ==
  ASSUME NEW J \in SUBSET Nat, J # {}, NEW B \in Nat, NEW N \in [J -> 0 .. B]
  PROVE  \E j \in J : \A k \in J : k = j \/ N[k] < N[j] \/ (N[k] = N[j] /\ j < k)
<1> DEFINE C == {B - N[j] : j \in J}
<1>0. ASSUME NEW j \in J PROVE B - N[j] \in Nat
  <2>1. N[j] \in 0 .. B
    OBVIOUS
  <2> QED BY <2>1
<1>1. C \in SUBSET Nat /\ C # {}
  BY <1>0
<1>2. PICK c \in C : \A d \in C : c <= d
  <2> HIDE DEF C
  <2> QED BY <1>1, LeastNumber
<1>3. PICK i \in J : c = B - N[i]
  BY <1>2
<1> DEFINE I == {j \in J : N[j] = N[i]}
<1>4. I \in SUBSET Nat /\ I # {}
  OBVIOUS
<1>5. PICK j \in I : \A k \in I : j <= k
  <2> HIDE DEF I
  <2> QED BY <1>4, LeastNumber
<1>6. ASSUME NEW k \in J PROVE k = j \/ N[k] < N[j] \/ (N[k] = N[j] /\ j < k)
  <2>1. B - N[i] <= B - N[k]
    BY <1>2, <1>3
  <2>2. N[j] = N[i] /\ N[k] \in 0 .. B /\ N[i] \in 0 .. B
    BY <1>5
  <2>3. CASE N[k] = N[i]
    <3>1. j <= k /\ j \in Nat /\ k \in Nat
      BY <1>5, <2>3
    <3> QED BY <2>2, <2>3, <3>1
  <2>4. CASE N[k] # N[i]
    BY <2>1, <2>2, <2>4
  <2> QED BY <2>3, <2>4
<1> QED BY <1>5, <1>6

\* One of equal services is kept, and no other has endpoints if that has none.
LEMMA KeptFacts ==
  ASSUME NEW order \in Seq(ServiceId), ToSet(order) = DOMAIN services, IsFiniteSet(endpoints)
  PROVE  /\ Kept(order) \subseteq DOMAIN services
         /\ \A s, t \in Kept(order) : services[s] = services[t] => s = t
         /\ \A s \in DOMAIN services : \E t \in Kept(order) :
              services[t] = services[s] /\ (EndpointsOf(s) # {} => EndpointsOf(t) # {})
<1> DEFINE D == DOMAIN order
           Count == [i \in D |-> Cardinality(EndpointsOf(order[i]))]
           First(j) == \A k \in D : services[order[k]] = services[order[j]] =>
                         k = j \/ Count[k] < Count[j] \/ (Count[k] = Count[j] /\ j < k)
           B == Cardinality(endpoints)
<1>1. Kept(order) = {order[i] : i \in {j \in D : First(j)}}
  BY DEF Kept
<1>2. D \subseteq Nat /\ \A i \in D : order[i] \in ServiceId /\ order[i] \in DOMAIN services
  BY SeqFacts
<1>3. B \in Nat
  BY FS_CardinalityType
<1>4. ASSUME NEW s
      PROVE  /\ Cardinality(EndpointsOf(s)) \in 0 .. B
             /\ EndpointsOf(s) = {} <=> Cardinality(EndpointsOf(s)) = 0
  <2>1. EndpointsOf(s) \in SUBSET endpoints
    BY DEF EndpointsOf
  <2>2. IsFiniteSet(EndpointsOf(s)) /\ Cardinality(EndpointsOf(s)) <= B
    BY <2>1, FS_Subset
  <2>3. Cardinality(EndpointsOf(s)) \in Nat
    BY <2>2, FS_CardinalityType
  <2> QED BY <1>3, <2>2, <2>3, FS_EmptySet
<1>5. Count \in [D -> 0 .. B]
  BY <1>4
<1>6. \A i \in D : Count[i] \in Nat /\ (EndpointsOf(order[i]) = {} <=> Count[i] = 0)
  BY <1>3, <1>4
<1> HIDE DEF Count, B
<1>7. ASSUME NEW s \in DOMAIN services
      PROVE  \E j \in D : First(j) /\ services[order[j]] = services[s] /\ (EndpointsOf(s) # {} => EndpointsOf(order[j]) # {})
  <2> DEFINE J == {j \in D : services[order[j]] = services[s]}
             N == [j \in J |-> Count[j]]
  <2>1. PICK i \in D : order[i] = s
    BY DEF ToSet
  <2>2. J \in SUBSET Nat /\ J # {} /\ i \in J
    BY <1>2, <2>1
  <2>3. N \in [J -> 0 .. B] /\ \A j \in J : N[j] = Count[j]
    BY <1>5
  <2>4. PICK j \in J : \A k \in J : k = j \/ N[k] < N[j] \/ (N[k] = N[j] /\ j < k)
    <3> HIDE DEF J, N
    <3> QED BY <1>3, <2>2, <2>3, Foremost
  <2>5. First(j) /\ j \in D /\ services[order[j]] = services[s]
    BY <2>3, <2>4
  <2>6. ASSUME EndpointsOf(s) # {} PROVE EndpointsOf(order[j]) # {}
    <3>1. Count[i] # 0 /\ Count[i] \in Nat /\ Count[j] \in Nat
      BY <1>6, <2>1, <2>5, <2>6
    <3>2. i = j \/ Count[i] < Count[j] \/ Count[i] = Count[j]
      BY <2>2, <2>3, <2>4
    <3>3. Count[j] # 0
      BY <3>1, <3>2
    <3> QED BY <1>6, <2>5, <3>3
  <2> QED BY <2>5, <2>6
<1>8. ASSUME NEW i \in D, NEW j \in D, First(i), First(j), services[order[i]] = services[order[j]]
      PROVE  i = j
  <2>1. i = j \/ Count[j] < Count[i] \/ (Count[j] = Count[i] /\ i < j)
    BY <1>8
  <2>2. i = j \/ Count[i] < Count[j] \/ (Count[i] = Count[j] /\ j < i)
    BY <1>8
  <2>3. i \in Nat /\ j \in Nat /\ Count[i] \in Nat /\ Count[j] \in Nat
    BY <1>2, <1>6
  <2> QED BY <2>1, <2>2, <2>3
<1> HIDE DEF First
<1>9. Kept(order) \subseteq DOMAIN services
  BY <1>1, <1>2
<1>10. ASSUME NEW s \in Kept(order), NEW t \in Kept(order), services[s] = services[t] PROVE s = t
  <2>1. PICK i \in D : First(i) /\ s = order[i]
    BY <1>1
  <2>2. PICK j \in D : First(j) /\ t = order[j]
    BY <1>1
  <2> QED BY <1>8, <1>10, <2>1, <2>2
<1>11. ASSUME NEW s \in DOMAIN services
       PROVE  \E t \in Kept(order) : services[t] = services[s] /\ (EndpointsOf(s) # {} => EndpointsOf(t) # {})
  <2>1. PICK j \in D : First(j) /\ services[order[j]] = services[s] /\ (EndpointsOf(s) # {} => EndpointsOf(order[j]) # {})
    BY <1>7
  <2>2. order[j] \in Kept(order)
    BY <1>1, <2>1
  <2> QED BY <2>1, <2>2
<1> QED BY <1>9, <1>10, <1>11

\* Where the doubles have no endpoints they alone are deleted.
LEMMA DoubleCallsFacts ==
  ASSUME IsCatalog(services, endpoints, regions), NEW order \in Seq(ServiceId), ToSet(order) = DOMAIN services,
         NEW list \in Seq(Endpoint), ToSet(list) = endpoints
  PROVE  /\ DoubleCalls(order, list) \in Seq(CallsIn("double"))
         /\ (\A s \in DOMAIN services \ Kept(order) : EndpointsOf(s) = {}) =>
              ToSet(DoubleCalls(order, list)) = {DeleteServiceCall(s) : s \in DOMAIN services \ Kept(order)}
<1> DEFINE C == CallsIn("double")
           Gone(s) == Those(list, EndpointsOf(s))
           Removal(s) == Append(DeleteCalls(Gone(s)), [op |-> "delete service", id |-> s])
           extra == Those(order, DOMAIN services \ Kept(order))
           parts == [i \in DOMAIN extra |-> Removal(extra[i])]
           all == FlattenSeq(parts)
           Second(i) == /\ all[i].op = "delete endpoint"
                        /\ Cardinality({j \in 1 .. i : all[j].op = all[i].op}) = 2
<1>1. DoubleCalls(order, list) =
        IF \E i \in DOMAIN all : Second(i)
        THEN SubSeq(all, 1, CHOOSE i \in DOMAIN all : Second(i)) \o <<KeyError>> ELSE all
  BY DEF DoubleCalls
<1>2. extra \in Seq(ServiceId) /\ ToSet(extra) = DOMAIN services \ Kept(order)
  <2> DEFINE S == DOMAIN services \ Kept(order)
  <2> HIDE DEF S
  <2>1. Those(order, S) \in Seq(ServiceId) /\ ToSet(Those(order, S)) = ToSet(order) \cap S
    BY ThoseFacts
  <2> QED BY <2>1 DEF S
<1>3. ASSUME NEW s \in ServiceId
      PROVE  /\ Removal(s) \in Seq(C)
             /\ EndpointsOf(s) = {} => ToSet(Removal(s)) = {DeleteServiceCall(s)}
  <2> DEFINE g == Gone(s)
             d == DeleteCalls(g)
  <2>1. g \in Seq(Endpoint) /\ ToSet(g) = ToSet(list) \cap EndpointsOf(s)
    BY ThoseFacts
  <2> HIDE DEF g
  <2>2. d = [i \in DOMAIN g |-> d[i]] /\ \A i \in DOMAIN g : d[i] = [op |-> "delete endpoint", id |-> g[i].id]
    BY DEF DeleteCalls
  <2>3. ASSUME NEW i \in DOMAIN g PROVE d[i] \in C
    <3>1. g[i] \in Endpoint
      BY <2>1, SeqFacts
    <3>2. g[i].id \in 1 .. MaxEndpoints
      BY <3>1 DEF Endpoint
    <3>3. \A m \in 1 .. MaxEndpoints : [op |-> "delete endpoint", id |-> m] \in C
      BY CallFacts
    <3> HIDE DEF d, C
    <3> QED BY <2>2, <3>2, <3>3
  <2> HIDE DEF d, C
  <2>4. d \in Seq(C) /\ DOMAIN d = DOMAIN g
    BY <2>1, <2>2, <2>3, MapFacts
  <2> DEFINE c == [op |-> "delete service", id |-> s]
  <2>5. c \in C
    BY CallFacts DEF C
  <2>6. Removal(s) = Append(d, c)
    BY DEF d, g
  <2>7. ASSUME EndpointsOf(s) = {} PROVE ToSet(Append(d, c)) = {DeleteServiceCall(s)}
    <3>1. ToSet(g) = {}
      BY <2>1, <2>7
    <3>2. g = <<>>
      BY <2>1, <3>1, SeqFacts
    <3>3. DOMAIN d = {}
      BY <2>4, <3>2
    <3>4. d = <<>>
      BY <2>4, <3>3
    <3>5. Append(d, c) = <<c>> /\ DOMAIN <<c>> = {1}
      BY <3>4
    <3> QED BY <3>5, SingleFacts DEF DeleteServiceCall
  <2> HIDE DEF c, Removal
  <2>8. Append(d, c) \in Seq(C)
    BY <2>4, <2>5
  <2> QED BY <2>6, <2>7, <2>8
<1> HIDE DEF C, Removal, extra
<1>4. parts \in Seq(Seq(C)) /\ DOMAIN parts = DOMAIN extra /\ \A i \in DOMAIN extra : parts[i] = Removal(extra[i]) /\ extra[i] \in ServiceId
  <2>1. Len(extra) \in Nat /\ DOMAIN extra = 1 .. Len(extra) /\ \A i \in DOMAIN extra : extra[i] \in ServiceId
    BY <1>2
  <2> QED BY <1>3, <2>1
<1> HIDE DEF parts
<1>5. all \in Seq(C) /\ \A x : x \in ToSet(all) <=> \E i \in DOMAIN parts : x \in ToSet(parts[i])
  BY <1>4, FlattenFacts
<1> HIDE DEF all
<1>6. DoubleCalls(order, list) \in Seq(C)
  <2> DEFINE n == CHOOSE i \in DOMAIN all : Second(i)
  <2>1. (\E i \in DOMAIN all : Second(i)) => n \in DOMAIN all
    <3> HIDE DEF Second
    <3> QED OBVIOUS
  <2> HIDE DEF n, Second
  <2>2. KeyError \in C
    BY CallFacts DEF C
  <2>3. n \in DOMAIN all => SubSeq(all, 1, n) \in Seq(C)
    BY <1>5
  <2>4. <<KeyError>> \in Seq(C)
    BY <2>2
  <2>5. n \in DOMAIN all => SubSeq(all, 1, n) \o <<KeyError>> \in Seq(C)
    BY <2>3, <2>4
  <2> QED BY <1>1, <1>5, <2>1, <2>5 DEF n
<1>7. ASSUME \A s \in DOMAIN services \ Kept(order) : EndpointsOf(s) = {}
      PROVE  ToSet(DoubleCalls(order, list)) = {DeleteServiceCall(s) : s \in DOMAIN services \ Kept(order)}
  <2>1. \A i \in DOMAIN extra : extra[i] \in DOMAIN services \ Kept(order)
    BY <1>2, SeqFacts
  <2>2. \A i \in DOMAIN parts : ToSet(parts[i]) = {DeleteServiceCall(extra[i])}
    BY <1>3, <1>4, <1>7, <2>1
  <2>3. ToSet(all) = {DeleteServiceCall(s) : s \in DOMAIN services \ Kept(order)}
    <3>1. \A x : x \in ToSet(all) <=> \E i \in DOMAIN extra : x = DeleteServiceCall(extra[i])
      BY <1>4, <1>5, <2>2
    <3>2. \A s \in DOMAIN services \ Kept(order) : \E i \in DOMAIN extra : extra[i] = s
      BY <1>2 DEF ToSet
    <3> QED BY <2>1, <3>1, <3>2
  <2>4. ASSUME NEW i \in DOMAIN all PROVE all[i].op # "delete endpoint"
    <3>1. all[i] \in ToSet(all)
      BY DEF ToSet
    <3>2. PICK s \in DOMAIN services \ Kept(order) : all[i] = DeleteServiceCall(s)
      BY <2>3, <3>1
    <3>3. DeleteServiceCall(s).op = "delete service"
      BY DEF DeleteServiceCall
    <3> QED BY <3>2, <3>3
  <2>5. DoubleCalls(order, list) = all
    BY <1>1, <2>4
  <2> QED BY <2>3, <2>5
<1> QED BY <1>6, <1>7 DEF C

LEMMA FewServices ==
  ASSUME IsPartialFcn(services, ServiceId, Key)
  PROVE  IsFiniteSet({services[s] : s \in DOMAIN services})
<1> DEFINE R == {services[s] : s \in DOMAIN services}
<1>1. services \in Surjection(DOMAIN services, R)
  BY DEF Surjection, IsPartialFcn
<1>2. IsFiniteSet(DOMAIN services)
  <2>1. 1 \in Int /\ MaxServices \in Int
    BY BoundsAssumption
  <2>2. IsFiniteSet(1 .. MaxServices)
    BY <2>1, FS_Interval
  <2>3. DOMAIN services \in SUBSET (1 .. MaxServices)
    BY DEF IsPartialFcn, ServiceId
  <2> QED BY <2>2, <2>3, FS_Subset
<1>3. IsFiniteSet(R)
  <2> HIDE DEF R
  <2> QED BY <1>1, <1>2, FS_Surjection
<1> QED BY <1>3

\* What only looks at services and endpoints stays with them.
LEMMA Frame ==
  ASSUME services' = services, endpoints' = endpoints
  PROVE  /\ \A s : EndpointsOf(s)' = EndpointsOf(s) /\ (HasOne(s)' <=> HasOne(s))
         /\ \A s, o : /\ GetsUrl(s, o)' <=> GetsUrl(s, o)
                      /\ HasCands(s, o)' <=> HasCands(s, o)
                      /\ HasMatch(s, o)' <=> HasMatch(s, o)
                      /\ IsAt(s, o)' <=> IsAt(s, o)
         /\ \A e : OfferOf(e)' = OfferOf(e)
         /\ \A w : /\ Regular(w)' <=> Regular(w)
                   /\ Repeatable(w)' <=> Repeatable(w)
                   /\ InOneRegion(w)' <=> InOneRegion(w)
         /\ NoDouble' <=> NoDouble
<1>1. \A s : EndpointsOf(s)' = EndpointsOf(s)
  BY DEF EndpointsOf
<1>2. \A s : HasOne(s)' <=> HasOne(s)
  BY <1>1 DEF HasOne
<1>3. \A s, o : HasCands(s, o)' <=> HasCands(s, o)
  BY <1>1 DEF HasCands
<1>4. \A s, o : HasMatch(s, o)' <=> HasMatch(s, o)
  BY <1>1 DEF HasMatch
<1>5. \A s, o : MayServe(s, o)' <=> MayServe(s, o)
  BY DEF MayServe
<1>6. \A s, o : GetsUrl(s, o)' <=> GetsUrl(s, o)
  BY <1>3, <1>4, <1>5 DEF GetsUrl
<1>7. \A e : OfferOf(e)' = OfferOf(e)
  BY DEF OfferOf
<1>8. \A w : InOneRegion(w)' <=> InOneRegion(w)
  BY DEF InOneRegion
<1>9. \A w : Regular(w)' <=> Regular(w)
  BY <1>2, <1>6, <1>8 DEF Regular, OneDesc, OneServing
<1>10. \A w : Repeatable(w)' <=> Repeatable(w)
  BY <1>6, <1>9 DEF Repeatable, IsAlone
<1>11. NoDouble' <=> NoDouble
  BY DEF NoDouble
<1>12. \A s, o : IsAt(s, o)' <=> IsAt(s, o)
  BY DEF IsAt
<1> QED BY <1>1, <1>2, <1>3, <1>4, <1>6, <1>7, <1>8, <1>9, <1>10, <1>11, <1>12

\* What a sync knows when it has listed the catalog.
LEMMA BeginFacts ==
  ASSUME TypeOK, NEW w \in Wants, NEW d, Begin(w, d)
  PROVE  /\ calls' \in Seq(CallsIn("double"))
         /\ seen' = services /\ endps' \in Seq(Endpoint) /\ ToSet(endps') \subseteq endpoints
         /\ DOMAIN srv_dict' = {services[s] : s \in DOMAIN services}
         /\ srv_dict' = [k \in DOMAIN srv_dict' |-> srv_dict'[k]]
         /\ \A k \in DOMAIN srv_dict' : srv_dict'[k] \in DOMAIN services /\ services[srv_dict'[k]] = k
         /\ spare' = [n \in DOMAIN spare' |-> spare'[n]] /\ DOMAIN spare' \subseteq Name
         /\ \A n \in DOMAIN spare' :
              /\ spare'[n] \in DOMAIN services /\ services[spare'[n]].name = n
              /\ \E t \in DOMAIN services : t # spare'[n] /\ services[t].name = n
         /\ NoDouble \/ Regular(w) =>
              /\ ToSet(endps') = endpoints
              /\ \A s \in DOMAIN services : srv_dict'[services[s]] # s => DeleteServiceCall(s) \in ToSet(calls')
              /\ \A c \in ToSet(calls') : \E s \in DOMAIN services :
                   c = DeleteServiceCall(s) /\ EndpointsOf(s) = {} /\ srv_dict'[services[s]] # s
<1>1. PICK ids \in Orders :
        LET order == ServiceList(ids)
            list == EndpointList(ids)
            dbl == DoubleCalls(order, list)
            Named(n) == Those(order, {s \in DOMAIN services : services[s].name = n})
        IN /\ calls' = dbl
           /\ seen' = services
           /\ endps' = IF \E i \in DOMAIN dbl : dbl[i].op = "delete endpoint"
                       THEN Front(list) ELSE list
           /\ srv_dict' = [k \in {services[s] : s \in DOMAIN services} |->
                             CHOOSE s \in Kept(order) : services[s] = k]
           /\ spare' = [n \in {m \in Name : Len(Named(m)) > 1} |-> Last(Named(n))]
  BY DEF Begin
<1> DEFINE order == ServiceList(ids)
           list == EndpointList(ids)
           dbl == DoubleCalls(order, list)
           Named(n) == Those(order, {s \in DOMAIN services : services[s].name = n})
<1>2. IsCatalog(services, endpoints, regions)
  BY DEF TypeOK
<1>3. order \in Seq(ServiceId) /\ ToSet(order) = DOMAIN services /\ Once(order, ServiceId)
  BY <1>2, ServiceListFacts
<1>4. list \in Seq(Endpoint) /\ ToSet(list) = endpoints
  BY <1>2, EndpointListFacts
<1>5. /\ calls' = dbl /\ seen' = services
      /\ endps' = IF \E i \in DOMAIN dbl : dbl[i].op = "delete endpoint" THEN Front(list) ELSE list
  BY <1>1
<1>6. srv_dict' = [k \in {services[s] : s \in DOMAIN services} |->
                     CHOOSE s \in Kept(order) : services[s] = k]
  BY <1>1
<1>7. spare' = [n \in {m \in Name : Len(Named(m)) > 1} |-> Last(Named(n))]
  BY <1>1
<1> HIDE DEF order, list
<1>8. dbl \in Seq(CallsIn("double"))
      /\ ((\A s \in DOMAIN services \ Kept(order) : EndpointsOf(s) = {}) =>
             ToSet(dbl) = {DeleteServiceCall(s) : s \in DOMAIN services \ Kept(order)})
  BY <1>2, <1>3, <1>4, DoubleCallsFacts
<1> HIDE DEF dbl
<1>9. endps' \in Seq(Endpoint) /\ ToSet(endps') \subseteq endpoints
  <2>1. Front(list) \in Seq(Endpoint) /\ ToSet(Front(list)) \subseteq ToSet(list)
    <3>1. CASE list = <<>>
      <4>1. Front(list) = <<>>
        BY <3>1 DEF Front
      <4> QED BY <4>1, SingleFacts
    <3>2. CASE list # <<>>
      <4>1. Len(list) \in Nat /\ Len(list) - 1 \in Nat /\ DOMAIN list = 1 .. Len(list)
        BY <1>4, <3>2
      <4>2. /\ Front(list) \in Seq(Endpoint) /\ DOMAIN Front(list) = 1 .. Len(list) - 1
            /\ \A i \in 1 .. Len(list) - 1 : Front(list)[i] = list[i]
        BY <1>4, <4>1 DEF Front
      <4>3. \A i \in DOMAIN Front(list) : i \in DOMAIN list
        BY <4>1, <4>2
      <4> QED BY <4>2, <4>3 DEF ToSet
    <3> QED BY <3>1, <3>2
  <2> QED BY <1>4, <1>5, <2>1
<1>10. /\ Kept(order) \subseteq DOMAIN services
       /\ \A s, t \in Kept(order) : services[s] = services[t] => s = t
       /\ \A s \in DOMAIN services : \E t \in Kept(order) :
            services[t] = services[s] /\ (EndpointsOf(s) # {} => EndpointsOf(t) # {})
  BY <1>2, <1>3, FewEndpoints, KeptFacts
<1>11. ASSUME NEW s \in DOMAIN services
       PROVE  /\ services[s] \in DOMAIN srv_dict'
              /\ srv_dict'[services[s]] \in Kept(order) /\ services[srv_dict'[services[s]]] = services[s]
  <2>1. srv_dict'[services[s]] = CHOOSE t \in Kept(order) : services[t] = services[s]
    BY <1>6
  <2>2. \E t \in Kept(order) : services[t] = services[s]
    BY <1>10
  <2> QED BY <1>6, <2>1, <2>2
<1>12. DOMAIN srv_dict' = {services[s] : s \in DOMAIN services} /\ srv_dict' = [k \in DOMAIN srv_dict' |-> srv_dict'[k]]
  BY <1>6
<1>13. ASSUME NEW k \in DOMAIN srv_dict'
       PROVE  srv_dict'[k] \in DOMAIN services /\ services[srv_dict'[k]] = k
  <2>1. PICK s \in DOMAIN services : services[s] = k
    BY <1>12
  <2> QED BY <1>10, <1>11, <2>1
<1>14. spare' = [n \in DOMAIN spare' |-> spare'[n]] /\ DOMAIN spare' \subseteq Name
       /\ \A n \in DOMAIN spare' : Len(Named(n)) > 1 /\ spare'[n] = Last(Named(n))
  <2> HIDE DEF Named
  <2> QED BY <1>7
<1>15. ASSUME NEW n \in DOMAIN spare'
       PROVE  /\ spare'[n] \in DOMAIN services /\ services[spare'[n]].name = n
              /\ \E t \in DOMAIN services : t # spare'[n] /\ services[t].name = n
  <2> DEFINE S == {s \in DOMAIN services : services[s].name = n}
             u == Those(order, S)
  <2>1. u \in Seq(ServiceId) /\ ToSet(u) = ToSet(order) \cap S /\ Once(u, ServiceId)
    <3> HIDE DEF S
    <3> QED BY <1>3, ThoseFacts
  <2>2. Len(u) > 1 /\ spare'[n] = u[Len(u)]
    BY <1>14 DEF Last
  <2> HIDE DEF u
  <2>3. Len(u) \in DOMAIN u /\ 1 \in DOMAIN u /\ Len(u) # 1 /\ u[1] \in ServiceId
    BY <2>1, <2>2
  <2>4. u[Len(u)] \in S /\ u[1] \in S
    BY <1>3, <2>1, <2>3 DEF ToSet
  <2>5. u[1] # u[Len(u)]
    BY <2>1, <2>3 DEF Once
  <2> QED BY <2>2, <2>4, <2>5
<1>16. ASSUME NoDouble \/ Regular(w), NEW s \in DOMAIN services \ Kept(order)
       PROVE  EndpointsOf(s) = {}
  <2>1. PICK t \in Kept(order) : services[t] = services[s] /\ (EndpointsOf(s) # {} => EndpointsOf(t) # {})
    BY <1>10
  <2>2. s # t /\ t \in DOMAIN services
    BY <1>10
  <2>3. CASE NoDouble
    BY <2>1, <2>2, <2>3 DEF NoDouble
  <2>4. CASE Regular(w)
    <3> SUFFICES ASSUME EndpointsOf(s) # {} PROVE FALSE
      OBVIOUS
    <3>1. PICK e \in endpoints, f \in endpoints : e.srv = s /\ f.srv = t
      BY <2>1 DEF EndpointsOf
    <3> QED BY <2>1, <2>2, <2>4, <3>1 DEF Regular, OneServing
  <2> QED BY <1>16, <2>3, <2>4
<1>17. ASSUME NoDouble \/ Regular(w)
       PROVE  /\ ToSet(endps') = endpoints
              /\ \A s \in DOMAIN services : srv_dict'[services[s]] # s => DeleteServiceCall(s) \in ToSet(calls')
              /\ \A c \in ToSet(calls') : \E s \in DOMAIN services :
                   c = DeleteServiceCall(s) /\ EndpointsOf(s) = {} /\ srv_dict'[services[s]] # s
  <2>1. ToSet(dbl) = {DeleteServiceCall(s) : s \in DOMAIN services \ Kept(order)}
    BY <1>8, <1>16, <1>17
  <2>2. ASSUME NEW i \in DOMAIN dbl PROVE dbl[i].op # "delete endpoint"
    <3>1. dbl[i] \in ToSet(dbl)
      BY DEF ToSet
    <3>2. PICK s \in DOMAIN services \ Kept(order) : dbl[i] = DeleteServiceCall(s)
      BY <2>1, <3>1
    <3>3. DeleteServiceCall(s).op = "delete service"
      BY DEF DeleteServiceCall
    <3> QED BY <3>2, <3>3
  <2>3. ToSet(endps') = endpoints
    BY <1>4, <1>5, <2>2
  <2>4. ASSUME NEW s \in DOMAIN services PROVE srv_dict'[services[s]] = s <=> s \in Kept(order)
    BY <1>10, <1>11
  <2> QED BY <1>5, <1>16, <1>17, <2>1, <2>3, <2>4
<1> QED BY <1>5, <1>8, <1>9, <1>12, <1>13, <1>14, <1>15, <1>17

-----------------------------------------------------------------------------
(* What is planned for the endpoints.                                      *)

UpdateCall(id, url) == [op |-> "update endpoint", id |-> id, url |-> url]
DeleteCall(id) == [op |-> "delete endpoint", id |-> id]
HasCandIn(list, o) == \E e \in ToSet(list) : e.interface = o.interface
HasMatchIn(list, o) == \E e \in ToSet(list) : e.interface = o.interface /\ e.url = o.url

LEMMA EndpointCallTypes ==
  LET C == CallsIn("endpoints") IN
  /\ \A o \in Offer : CreateCall(o) \in C /\ CreateCall(o) \in Creates
  /\ \A i \in 1 .. MaxEndpoints : DeleteCall(i) \in C /\ DeleteCall(i) \notin Creates
  /\ \A i \in 1 .. MaxEndpoints, u \in Url : UpdateCall(i, u) \in C /\ UpdateCall(i, u) \notin Creates
  /\ KeyError \in C
BY CallFacts DEF CreateCall, DeleteCall, UpdateCall, Creates

LEMMA OfferCallFacts ==
  ASSUME NEW list \in Seq(Endpoint), NEW o \in Offer
  PROVE  /\ OfferCall(list, o) \in Seq(CallsIn("endpoints"))
         /\ ~ HasCandIn(list, o) => OfferCall(list, o) = <<CreateCall(o)>> /\ Stays(list, o) = {}
         /\ HasCandIn(list, o) /\ ~ HasMatchIn(list, o) =>
              /\ Last(list) \in ToSet(list)
              /\ OfferCall(list, o) = <<UpdateCall(Last(list).id, o.url)>>
              /\ \E e \in ToSet(list) : e.interface = o.interface /\ Stays(list, o) = {e.id}
         /\ HasMatchIn(list, o) =>
              /\ OfferCall(list, o) = <<>>
              /\ \E e \in ToSet(list) : e.interface = o.interface /\ e.url = o.url /\ Stays(list, o) = {e.id}
<1> DEFINE C == CallsIn("endpoints")
           cands == Cands(list, o)
           matches == Matches(list, o)
<1>1. cands \in Seq(Endpoint) /\ ToSet(cands) = {e \in ToSet(list) : e.interface = o.interface}
  <2> DEFINE S == {e \in ToSet(list) : e.interface = o.interface}
  <2>1. Those(list, S) \in Seq(Endpoint) /\ ToSet(Those(list, S)) = ToSet(list) \cap S
    <3> HIDE DEF S
    <3> QED BY ThoseFacts
  <2> QED BY <2>1 DEF Cands
<1>2. matches \in Seq(Endpoint) /\ ToSet(matches) = {e \in ToSet(list) : e.interface = o.interface /\ e.url = o.url}
  <2> DEFINE S == {e \in ToSet(list) : e.interface = o.interface /\ e.url = o.url}
  <2>1. Those(list, S) \in Seq(Endpoint) /\ ToSet(Those(list, S)) = ToSet(list) \cap S
    <3> HIDE DEF S
    <3> QED BY ThoseFacts
  <2> QED BY <2>1 DEF Matches
<1>3. /\ OfferCall(list, o) = IF cands = <<>> THEN <<CreateCall(o)>>
                              ELSE IF matches = <<>> THEN <<UpdateCall(Last(list).id, o.url)>> ELSE <<>>
      /\ Stays(list, o) = IF matches # <<>> THEN {Last(matches).id}
                          ELSE IF cands # <<>> THEN {Head(cands).id} ELSE {}
  BY DEF OfferCall, Stays, UpdateCall
<1> HIDE DEF cands, matches
<1>4. (cands = <<>> <=> ~ HasCandIn(list, o)) /\ (matches = <<>> <=> ~ HasMatchIn(list, o))
  <2>1. (cands = <<>> <=> ToSet(cands) = {}) /\ (matches = <<>> <=> ToSet(matches) = {})
    BY <1>1, <1>2, SeqFacts
  <2> QED BY <1>1, <1>2, <2>1 DEF HasCandIn, HasMatchIn
<1>5. HasMatchIn(list, o) => HasCandIn(list, o)
  BY DEF HasCandIn, HasMatchIn
<1>6. ASSUME NEW t \in Seq(Endpoint), t # <<>>
      PROVE  Last(t) \in ToSet(t) /\ Head(t) \in ToSet(t) /\ Last(t) \in Endpoint
  <2>1. Len(t) \in DOMAIN t /\ 1 \in DOMAIN t /\ Head(t) = t[1]
    BY <1>6
  <2> QED BY <2>1, SeqFacts DEF Last
<1>7. ASSUME HasCandIn(list, o) PROVE list # <<>>
  BY <1>7, SingleFacts DEF HasCandIn
<1>8. o.url \in Url /\ \A e \in Endpoint : e.id \in 1 .. MaxEndpoints
  BY DEF Offer, Endpoint
<1>9. CASE ~ HasCandIn(list, o)
  <2>1. OfferCall(list, o) = <<CreateCall(o)>> /\ Stays(list, o) = {}
    BY <1>3, <1>4, <1>5, <1>9
  <2>2. CreateCall(o) \in C
    BY EndpointCallTypes
  <2> HIDE DEF C
  <2>3. <<CreateCall(o)>> \in Seq(C)
    BY <2>2
  <2> QED BY <1>5, <1>9, <2>1, <2>3 DEF C
<1>10. CASE HasCandIn(list, o) /\ ~ HasMatchIn(list, o)
  <2>1. OfferCall(list, o) = <<UpdateCall(Last(list).id, o.url)>> /\ Stays(list, o) = {Head(cands).id}
    BY <1>3, <1>4, <1>10
  <2>2. Last(list) \in ToSet(list) /\ Last(list) \in Endpoint /\ Head(cands) \in ToSet(cands)
    BY <1>1, <1>4, <1>6, <1>7, <1>10
  <2>3. UpdateCall(Last(list).id, o.url) \in C
    BY <1>8, <2>2, EndpointCallTypes
  <2> HIDE DEF C
  <2>4. <<UpdateCall(Last(list).id, o.url)>> \in Seq(C)
    BY <2>3
  <2>5. Head(cands) \in ToSet(list) /\ Head(cands).interface = o.interface
    BY <1>1, <2>2
  <2> QED BY <1>10, <2>1, <2>2, <2>4, <2>5 DEF C
<1>11. CASE HasMatchIn(list, o)
  <2>1. OfferCall(list, o) = <<>> /\ Stays(list, o) = {Last(matches).id}
    BY <1>3, <1>4, <1>5, <1>11
  <2>2. Last(matches) \in ToSet(list) /\ Last(matches).interface = o.interface /\ Last(matches).url = o.url
    BY <1>2, <1>4, <1>6, <1>11
  <2>3. <<>> \in Seq(C)
    OBVIOUS
  <2> QED BY <1>5, <1>11, <2>1, <2>2, <2>3
<1> QED BY <1>9, <1>10, <1>11

Staying(k) == UNION {Stays(ListedOf(k), o) : o \in OffersOf(k)}

\* x is called for the endpoints of k.
IsCallFor(x, k) ==
  \/ \E o \in OffersOf(k) : x \in ToSet(OfferCall(ListedOf(k), o))
  \/ \E e \in ToSet(ListedOf(k)) : e.id \notin Staying(k) /\ x = DeleteCall(e.id)

LEMMA ListedOfFacts ==
  ASSUME endps \in Seq(Endpoint), NEW k
  PROVE  ListedOf(k) \in Seq(Endpoint) /\ ToSet(ListedOf(k)) = {e \in ToSet(endps) : seen[e.srv] = k}
<1> DEFINE S == {e \in ToSet(endps) : seen[e.srv] = k}
<1>1. Those(endps, S) \in Seq(Endpoint) /\ ToSet(Those(endps, S)) = ToSet(endps) \cap S
  <2> HIDE DEF S
  <2> QED BY ThoseFacts
<1> QED BY <1>1 DEF ListedOf

LEMMA ServiceEndpointCallsFacts ==
  ASSUME endps \in Seq(Endpoint), final \subseteq Offer, NEW k,
         NEW offers \in Seq(final), ToSet(offers) = final, Once(offers, final)
  PROVE  LET t == ServiceEndpointCalls(k, offers) IN
         /\ t \in Seq(CallsIn("endpoints"))
         /\ \A x : x \in ToSet(t) <=> IsCallFor(x, k)
         /\ Once(t, Creates)
<1> DEFINE C == CallsIn("endpoints")
           list == ListedOf(k)
           own == Those(offers, OffersOf(k))
           leaving == {e \in ToSet(list) : e.id \notin Staying(k)}
           goes == Those(list, leaving)
           parts == [i \in DOMAIN own |-> OfferCall(list, own[i])]
           a == FlattenSeq(parts)
           b == DeleteCalls(goes)
<1>1. ServiceEndpointCalls(k, offers) = a \o b
  BY DEF ServiceEndpointCalls, Staying
<1>2. list \in Seq(Endpoint)
  BY ListedOfFacts
<1>3. OffersOf(k) \subseteq final /\ OffersOf(k) \subseteq Offer
  BY DEF OffersOf
<1>4. own \in Seq(final) /\ ToSet(own) = OffersOf(k) /\ Once(own, final)
  <2>1. own \in Seq(final) /\ ToSet(own) = ToSet(offers) \cap OffersOf(k) /\ Once(own, final)
    BY ThoseFacts
  <2> QED BY <1>3, <2>1
<1>5. goes \in Seq(Endpoint) /\ ToSet(goes) = leaving
  <2>1. goes \in Seq(Endpoint) /\ ToSet(goes) = ToSet(list) \cap leaving
    <3> HIDE DEF list, leaving
    <3> QED BY <1>2, ThoseFacts
  <2> QED BY <2>1
<1> HIDE DEF own, goes, list
<1>6. DOMAIN parts = DOMAIN own /\ \A i \in DOMAIN own : parts[i] = OfferCall(list, own[i]) /\ own[i] \in OffersOf(k) /\ own[i] \in final
  BY <1>4, SeqFacts
<1>7. ASSUME NEW o \in Offer
      PROVE  /\ OfferCall(list, o) \in Seq(C) /\ Once(OfferCall(list, o), Creates)
             /\ ToSet(OfferCall(list, o)) \cap Creates \subseteq {CreateCall(o)}
  <2>1. /\ OfferCall(list, o) \in Seq(C)
        /\ \/ OfferCall(list, o) = <<CreateCall(o)>>
           \/ OfferCall(list, o) = <<UpdateCall(Last(list).id, o.url)>> /\ Last(list) \in ToSet(list)
           \/ OfferCall(list, o) = <<>>
    BY <1>2, OfferCallFacts
  <2>2. ASSUME NEW x, OfferCall(list, o) = <<x>> PROVE Once(OfferCall(list, o), Creates) /\ ToSet(OfferCall(list, o)) = {x}
    <3>1. DOMAIN <<x>> = {1}
      OBVIOUS
    <3> QED BY <2>2, <3>1, SingleFacts DEF Once
  <2>3. CASE OfferCall(list, o) = <<>>
    <3>1. DOMAIN <<>> = {} /\ ToSet(<<>>) = {}
      BY SingleFacts
    <3> QED BY <2>1, <2>3, <3>1 DEF Once
  <2>4. CASE OfferCall(list, o) = <<CreateCall(o)>>
    BY <2>1, <2>2, <2>4
  <2>5. CASE OfferCall(list, o) = <<UpdateCall(Last(list).id, o.url)>> /\ Last(list) \in ToSet(list)
    <3>1. Last(list) \in Endpoint /\ o.url \in Url
      BY <1>2, <2>5, SeqFacts DEF Offer
    <3>2. Last(list).id \in 1 .. MaxEndpoints
      BY <3>1 DEF Endpoint
    <3>3. UpdateCall(Last(list).id, o.url) \notin Creates
      BY <3>1, <3>2, EndpointCallTypes
    <3> QED BY <2>1, <2>2, <2>5, <3>3
  <2> QED BY <2>1, <2>3, <2>4, <2>5
<1> HIDE DEF C
<1>8. parts \in Seq(Seq(C))
  <2>1. Len(own) \in Nat /\ DOMAIN own = 1 .. Len(own)
    BY <1>4, SeqFacts
  <2>2. \A i \in DOMAIN own : parts[i] \in Seq(C)
    BY <1>3, <1>6, <1>7
  <2> QED BY <2>1, <2>2
<1> HIDE DEF parts
<1>9. a \in Seq(C) /\ \A x : x \in ToSet(a) <=> \E i \in DOMAIN parts : x \in ToSet(parts[i])
  BY <1>8, FlattenFacts
<1>10. Once(a, Creates)
  <2>1. \A i \in DOMAIN parts : Once(parts[i], Creates)
    BY <1>3, <1>6, <1>7
  <2>2. ASSUME NEW i \in DOMAIN parts, NEW j \in DOMAIN parts, i # j
        PROVE  ToSet(parts[i]) \cap ToSet(parts[j]) \cap Creates = {}
    <3>1. own[i] # own[j]
      BY <1>4, <1>6, <2>2 DEF Once
    <3>2. CreateCall(own[i]) # CreateCall(own[j])
      BY <3>1 DEF CreateCall
    <3>3. ToSet(parts[i]) \cap Creates \subseteq {CreateCall(own[i])} /\ ToSet(parts[j]) \cap Creates \subseteq {CreateCall(own[j])}
      BY <1>3, <1>6, <1>7
    <3> QED BY <3>2, <3>3
  <2>3. \A A : /\ \A i \in DOMAIN parts : Once(parts[i], A)
               /\ \A i, j \in DOMAIN parts : i # j => ToSet(parts[i]) \cap ToSet(parts[j]) \cap A = {}
               => Once(a, A)
    BY <1>8, FlattenFacts
  <2> QED BY <2>1, <2>2, <2>3
<1>11. \A x : x \in ToSet(a) <=> \E o \in OffersOf(k) : x \in ToSet(OfferCall(list, o))
  <2>1. \A o \in OffersOf(k) : \E i \in DOMAIN own : own[i] = o
    BY <1>4 DEF ToSet
  <2> HIDE DEF a
  <2> QED BY <1>6, <1>9, <2>1
<1> HIDE DEF a
<1>12. /\ b \in Seq(C) /\ \A x : x \in ToSet(b) <=> \E e \in leaving : x = DeleteCall(e.id)
       /\ \A x \in ToSet(b) : x \notin Creates
  <2>1. b = [i \in DOMAIN goes |-> b[i]] /\ \A i \in DOMAIN goes : b[i] = DeleteCall(goes[i].id)
    BY DEF DeleteCalls, DeleteCall
  <2> HIDE DEF b
  <2>2. ASSUME NEW i \in DOMAIN goes PROVE b[i] \in C /\ b[i] \notin Creates
    <3>1. goes[i] \in Endpoint
      BY <1>5, SeqFacts
    <3>2. goes[i].id \in 1 .. MaxEndpoints
      BY <3>1 DEF Endpoint
    <3> QED BY <2>1, <3>2, EndpointCallTypes DEF C
  <2>3. b \in Seq(C) /\ DOMAIN b = DOMAIN goes /\ ToSet(b) = {b[i] : i \in DOMAIN goes}
    <3>1. Len(goes) \in Nat /\ DOMAIN goes = 1 .. Len(goes)
      BY <1>5, SeqFacts
    <3>2. b = [i \in 1 .. Len(goes) |-> b[i]] /\ \A i \in 1 .. Len(goes) : b[i] \in C
      BY <2>1, <2>2, <3>1
    <3>3. b \in Seq(C) /\ DOMAIN b = 1 .. Len(goes)
      BY ONLY <3>1, <3>2
    <3>4. ToSet(b) = {b[i] : i \in DOMAIN goes}
      BY <3>1, <3>3 DEF ToSet
    <3> QED BY <3>1, <3>3, <3>4
  <2>4. \A e : e \in leaving <=> \E i \in DOMAIN goes : goes[i] = e
    <3> HIDE DEF leaving
    <3> QED BY <1>5 DEF ToSet
  <2> HIDE DEF leaving
  <2> QED BY <2>1, <2>2, <2>3, <2>4
<1> HIDE DEF b
<1>13. a \o b \in Seq(C) /\ ToSet(a \o b) = ToSet(a) \cup ToSet(b)
  BY <1>9, <1>12, ConcatFacts
<1>14. Once(a \o b, Creates)
  <2>1. Once(b, Creates) /\ ToSet(a) \cap ToSet(b) \cap Creates = {}
    BY <1>12 DEF Once, ToSet
  <2> QED BY <1>9, <1>10, <1>12, <2>1, ConcatFacts
<1>15. \A x : x \in ToSet(a \o b) <=> IsCallFor(x, k)
  BY <1>11, <1>12, <1>13 DEF IsCallFor, list
<1> QED BY <1>1, <1>13, <1>14, <1>15 DEF C

\* There is no KeyError.
NoClash == \A e, f \in ToSet(endps) : seen[e.srv] = seen[f.srv] => e.region = f.region
KeysAtWork == want.services \cup {seen[e.srv] : e \in ToSet(endps)}

LEMMA EndpointCallsFacts ==
  ASSUME TypeOK, NEW plan \in EndpointCalls
  PROVE  /\ plan \in Seq(CallsIn("endpoints"))
         /\ NoClash => /\ \A x : x \in ToSet(plan) <=> \E k \in KeysAtWork : IsCallFor(x, k)
                       /\ Once(plan, Creates)
<1> DEFINE C == CallsIn("endpoints")
<1>1. CASE ~ NoClash
  <2>1. plan = <<KeyError>>
    BY <1>1 DEF EndpointCalls, NoClash
  <2>2. KeyError \in C
    BY EndpointCallTypes
  <2> HIDE DEF C
  <2>3. <<KeyError>> \in Seq(C)
    BY <2>2
  <2> QED BY <1>1, <2>1, <2>3 DEF C
<1>2. CASE NoClash
  <2>1. PICK order \in SetToSeqs(KeysAtWork), offers \in SetToSeqs(final) :
          plan = FlattenSeq([i \in DOMAIN order |-> ServiceEndpointCalls(order[i], offers)])
    BY <1>2 DEF EndpointCalls, NoClash, KeysAtWork
  <2>2. /\ endps \in Seq(Endpoint) /\ want.services \subseteq Key /\ IsFiniteSet(want.services)
        /\ final \subseteq Offer /\ IsFiniteSet(final)
    <3>1. /\ endps \in Seq(Endpoint) /\ want \in Wants /\ final \subseteq want.offers
      BY DEF TypeOK
    <3>2. /\ want.services \subseteq Key /\ IsFiniteSet(want.services)
          /\ want.offers \subseteq Offer /\ IsFiniteSet(want.offers)
      BY <3>1, WantsAssumption
    <3> QED BY <3>1, <3>2, FS_Subset
  <2>3. IsFiniteSet(KeysAtWork)
    <3> DEFINE R == {seen[e.srv] : e \in ToSet(endps)}
               f == [i \in DOMAIN endps |-> seen[endps[i].srv]]
    <3>1. IsFiniteSet(DOMAIN endps)
      <4>1. 1 \in Int /\ Len(endps) \in Int /\ DOMAIN endps = 1 .. Len(endps)
        BY <2>2, SeqFacts
      <4> QED BY <4>1, FS_Interval
    <3>2. f \in Surjection(DOMAIN endps, R)
      BY DEF Surjection, ToSet
    <3>3. IsFiniteSet(R)
      <4> HIDE DEF f, R
      <4> QED BY <3>1, <3>2, FS_Surjection
    <3> QED BY <2>2, <3>3, FS_Union DEF KeysAtWork
  <2>4. order \in Seq(KeysAtWork) /\ ToSet(order) = KeysAtWork /\ Once(order, KeysAtWork)
    BY <2>3, SetToSeqsFacts
  <2>5. offers \in Seq(final) /\ ToSet(offers) = final /\ Once(offers, final)
    BY <2>2, SetToSeqsFacts
  <2> DEFINE parts == [i \in DOMAIN order |-> ServiceEndpointCalls(order[i], offers)]
  <2>6. ASSUME NEW k
        PROVE  LET t == ServiceEndpointCalls(k, offers) IN
               /\ t \in Seq(C) /\ Once(t, Creates)
               /\ \A x : x \in ToSet(t) <=> IsCallFor(x, k)
    BY <2>2, <2>5, ServiceEndpointCallsFacts
  <2>7. DOMAIN parts = DOMAIN order /\ \A i \in DOMAIN order : parts[i] = ServiceEndpointCalls(order[i], offers) /\ order[i] \in KeysAtWork
    BY <2>4, SeqFacts
  <2> HIDE DEF C
  <2>8. parts \in Seq(Seq(C))
    <3>1. Len(order) \in Nat /\ DOMAIN order = 1 .. Len(order)
      BY <2>4, SeqFacts
    <3>2. \A i \in DOMAIN order : parts[i] \in Seq(C)
      BY <2>6, <2>7
    <3> QED BY <3>1, <3>2
  <2> HIDE DEF parts
  <2>9. /\ FlattenSeq(parts) \in Seq(C)
        /\ \A x : x \in ToSet(FlattenSeq(parts)) <=> \E i \in DOMAIN parts : x \in ToSet(parts[i])
        /\ \A A : /\ \A i \in DOMAIN parts : Once(parts[i], A)
                  /\ \A i, j \in DOMAIN parts : i # j => ToSet(parts[i]) \cap ToSet(parts[j]) \cap A = {}
                  => Once(FlattenSeq(parts), A)
    BY <2>8, FlattenFacts
  <2>10. ASSUME NEW k, NEW x \in Creates, IsCallFor(x, k) PROVE x.offer.key = k
    <3>1. CASE \E o \in OffersOf(k) : x \in ToSet(OfferCall(ListedOf(k), o))
      <4>1. PICK o \in OffersOf(k) : x \in ToSet(OfferCall(ListedOf(k), o))
        BY <3>1
      <4>2. o \in Offer /\ o.key = k
        BY <2>2 DEF OffersOf
      <4>3. ListedOf(k) \in Seq(Endpoint)
        BY <2>2, ListedOfFacts
      <4>4. \/ OfferCall(ListedOf(k), o) = <<CreateCall(o)>>
            \/ OfferCall(ListedOf(k), o) = <<UpdateCall(Last(ListedOf(k)).id, o.url)>>
            \/ OfferCall(ListedOf(k), o) = <<>>
        BY <4>2, <4>3, OfferCallFacts
      <4>5. x = CreateCall(o) \/ x = UpdateCall(Last(ListedOf(k)).id, o.url)
        BY <4>1, <4>4, SingleFacts
      <4>6. UpdateCall(Last(ListedOf(k)).id, o.url).op = "update endpoint" /\ x.op = "create endpoint"
        BY DEF UpdateCall, Creates
      <4>7. CreateCall(o).offer = o
        BY DEF CreateCall
      <4> QED BY <4>2, <4>5, <4>6, <4>7
    <3>2. CASE \E e \in ToSet(ListedOf(k)) : e.id \notin Staying(k) /\ x = DeleteCall(e.id)
      <4>1. PICK i : x = DeleteCall(i)
        BY <3>2
      <4> QED BY <4>1 DEF DeleteCall, Creates
    <3> QED BY <2>10, <3>1, <3>2 DEF IsCallFor
  <2>11. Once(FlattenSeq(parts), Creates)
    <3>1. \A i \in DOMAIN parts : Once(parts[i], Creates)
      BY <2>6, <2>7
    <3>2. ASSUME NEW i \in DOMAIN parts, NEW j \in DOMAIN parts, i # j,
                 NEW x \in ToSet(parts[i]), x \in ToSet(parts[j]), x \in Creates
          PROVE  FALSE
      <4>1. order[i] # order[j]
        BY <2>4, <2>7, <3>2 DEF Once
      <4>2. IsCallFor(x, order[i]) /\ IsCallFor(x, order[j])
        BY <2>6, <2>7, <3>2
      <4> QED BY <2>10, <3>2, <4>1, <4>2
    <3>3. \A i, j \in DOMAIN parts : i # j => ToSet(parts[i]) \cap ToSet(parts[j]) \cap Creates = {}
      BY <3>2
    <3> QED BY <2>9, <3>1, <3>3
  <2>12. ASSUME NEW x PROVE x \in ToSet(FlattenSeq(parts)) <=> \E k \in KeysAtWork : IsCallFor(x, k)
    <3>1. \A k \in KeysAtWork : \E i \in DOMAIN order : order[i] = k
      BY <2>4 DEF ToSet
    <3> QED BY <2>6, <2>7, <2>9, <3>1
  <2> QED BY <2>1, <2>9, <2>11, <2>12 DEF parts, C
<1> QED BY <1>1, <1>2

-----------------------------------------------------------------------------
(* The invariant holds at first, while a sync begins and when it ends.     *)

LEMMA WantFacts ==
  ASSUME NEW w \in Wants
  PROVE  /\ w.services \subseteq Key /\ IsFiniteSet(w.services)
         /\ w.offers \subseteq Offer /\ IsFiniteSet(w.offers)
         /\ IsPartialFcn(w.regions, Region, RegionRec) /\ IsFiniteSet(DOMAIN w.regions)
         /\ \A o \in w.offers : o.key \in w.services /\ o.region \in DOMAIN w.regions
         /\ \A o, p \in w.offers :
              o.key = p.key /\ o.region = p.region /\ o.interface = p.interface => o = p
BY WantsAssumption

LEMMA InitKeeps == Init => IInv
<1> SUFFICES ASSUME Init PROVE IInv
  OBVIOUS
<1>1. PICK c \in Catalogs : services = c.services /\ endpoints = c.endpoints /\ regions = c.regions
  BY DEF Init
<1>2. IsCatalog(services, endpoints, regions)
  BY <1>1, CatalogsAssumption
<1>3. /\ phase = "idle" /\ want \in Wants /\ final = {} /\ dry = FALSE /\ changed = FALSE
      /\ seen = Empty /\ endps = <<>> /\ srv_dict = Empty /\ spare = Empty /\ calls = <<>> /\ syncs = 0
      /\ start = Start(want)
  BY DEF Init
<1>4. DOMAIN Empty = {} /\ Empty = [x \in {} |-> Empty[x]]
  BY DEF Empty
<1>5. DOMAIN <<>> = {} /\ ToSet(<<>>) = {}
  BY SingleFacts
<1>6. TypeOK
  <2>1. IsPartialFcn(Empty, ServiceId, Key) /\ IsPartialFcn(Empty, Key, ServiceId) /\ IsPartialFcn(Empty, Name, ServiceId)
    BY <1>4 DEF IsPartialFcn
  <2>2. <<>> \in Seq(Endpoint) /\ <<>> \in Seq(CallsIn("idle"))
    OBVIOUS
  <2>3. MaxSyncs \in Nat => 0 \in 0 .. MaxSyncs
    OBVIOUS
  <2>4. IsFiniteSet(DOMAIN Empty)
    BY <1>4, FS_EmptySet
  <2> QED BY <1>2, <1>3, <1>4, <1>5, <2>1, <2>2, <2>3, <2>4, BoundsAssumption DEF TypeOK, NotRunning
<1>7. /\ start.serving = {e \in endpoints : OfferOf(e) \in want.offers}
      /\ start.regular = Regular(want) /\ start.repeatable = Repeatable(want) /\ start.unique = NoDouble
  BY <1>3 DEF Start
<1>8. StartFacts
  BY <1>3, <1>7 DEF StartFacts, Repeatable, Regular, InOneRegion, Running
<1>9. Indexed /\ DoublesGo /\ MissingCome /\ WantedThere /\ RegionIsOne /\ UrlsFit /\ RegionsCome
  BY <1>3 DEF Indexed, DoublesGo, MissingCome, WantedThere, RegionIsOne, UrlsFit, RegionsCome, Early, Late, Running
<1>10. CreatesOnce /\ EndpointsCome /\ EndpointsThere /\ ExtrasGo /\ SyncReaches /\ Resumable
  BY <1>3 DEF CreatesOnce, EndpointsCome, EndpointsThere, ExtrasGo, SyncReaches, Resumable, Late, Running
<1>11. NoDoubleMade
  BY <1>7 DEF NoDoubleMade
<1>12. ServingStay
  BY <1>3, <1>7 DEF ServingStay, Running
<1> QED BY <1>6, <1>8, <1>9, <1>10, <1>11, <1>12 DEF IInv, Core

\* The registrations of one region are all of them.
LEMMA FinalsFacts ==
  ASSUME NEW w \in Wants, NEW F \in Finals(w)
  PROVE  /\ F \subseteq w.offers
         /\ (\A o, p \in w.offers : o.key.name = p.key.name => o.region = p.region) => F = w.offers
<1>1. PICK last \in [w.services -> Region] :
        /\ F = {o \in w.offers : o.region = last[o.key]}
        /\ \A o \in w.offers : \E p \in w.offers : p.key = o.key /\ p.region = last[o.key]
  BY DEF Finals
<1>2. ASSUME \A o, p \in w.offers : o.key.name = p.key.name => o.region = p.region, NEW o \in w.offers
      PROVE  o \in F
  <2>1. PICK p \in w.offers : p.key = o.key /\ p.region = last[o.key]
    BY <1>1
  <2>2. o.region = last[o.key]
    BY <1>2, <2>1
  <2> QED BY <1>1, <2>2
<1> QED BY <1>1, <1>2

LEMMA BeginKeeps ==
  ASSUME Core, NEW w \in Wants, NEW d \in BOOLEAN, Begin(w, d)
  PROVE  Core'
<1>1. TypeOK /\ IsCatalog(services, endpoints, regions)
  BY DEF Core, TypeOK
<1>2. /\ phase' = "double" /\ want' = w /\ dry' = d /\ changed' = FALSE /\ syncs' = syncs + 1 /\ syncs < MaxSyncs
      /\ final' \in Finals(w) /\ services' = services /\ endpoints' = endpoints /\ regions' = regions
      /\ start' = Start(w)
  BY DEF Begin, catalog
<1>3. /\ calls' \in Seq(CallsIn("double"))
      /\ seen' = services /\ endps' \in Seq(Endpoint) /\ ToSet(endps') \subseteq endpoints
      /\ DOMAIN srv_dict' = {services[s] : s \in DOMAIN services}
      /\ srv_dict' = [k \in DOMAIN srv_dict' |-> srv_dict'[k]]
      /\ \A k \in DOMAIN srv_dict' : srv_dict'[k] \in DOMAIN services /\ services[srv_dict'[k]] = k
      /\ spare' = [n \in DOMAIN spare' |-> spare'[n]] /\ DOMAIN spare' \subseteq Name
  BY <1>1, BeginFacts
<1>4. ASSUME NEW n \in DOMAIN spare'
      PROVE  /\ spare'[n] \in DOMAIN services /\ services[spare'[n]].name = n
             /\ \E t \in DOMAIN services : t # spare'[n] /\ services[t].name = n
  BY <1>1, BeginFacts
<1>5. NoDouble \/ Regular(w) =>
        /\ ToSet(endps') = endpoints
        /\ \A s \in DOMAIN services : srv_dict'[services[s]] # s => DeleteServiceCall(s) \in ToSet(calls')
        /\ \A c \in ToSet(calls') : \E s \in DOMAIN services :
             c = DeleteServiceCall(s) /\ EndpointsOf(s) = {} /\ srv_dict'[services[s]] # s
  BY <1>1, BeginFacts
<1>6. /\ start'.serving = {e \in endpoints : OfferOf(e) \in w.offers}
      /\ start'.regular = Regular(w) /\ start'.repeatable = Repeatable(w) /\ start'.unique = NoDouble
  BY <1>2 DEF Start
<1>7. TypeOK'
  <2>1. IsPartialFcn(srv_dict', Key, ServiceId) /\ IsFiniteSet(DOMAIN srv_dict')
    <3>1. DOMAIN srv_dict' \subseteq Key /\ \A k \in DOMAIN srv_dict' : srv_dict'[k] \in ServiceId
      BY <1>1, <1>3 DEF IsCatalog, IsPartialFcn
    <3>2. IsFiniteSet(DOMAIN srv_dict')
      BY <1>1, <1>3, FewServices DEF IsCatalog
    <3> QED BY <1>3, <3>1, <3>2 DEF IsPartialFcn
  <2>2. IsPartialFcn(spare', Name, ServiceId)
    <3>1. \A n \in DOMAIN spare' : spare'[n] \in ServiceId
      BY <1>1, <1>4 DEF IsCatalog, IsPartialFcn
    <3> QED BY <1>3, <3>1 DEF IsPartialFcn
  <2>3. IsCatalog(services, endpoints, regions)'
    BY <1>1, <1>2 DEF IsCatalog
  <2>4. IsPartialFcn(seen', ServiceId, Key)
    BY <1>1, <1>3 DEF IsCatalog
  <2>5. /\ \A e \in ToSet(endps') : e.srv \in DOMAIN seen'
        /\ \A e, f \in ToSet(endps') : e.id = f.id => e = f
    BY <1>1, <1>3 DEF IsCatalog
  <2>6. \A n \in DOMAIN spare' : spare'[n] \in DOMAIN seen' /\ seen'[spare'[n]].name = n
    BY <1>3, <1>4
  <2>7. syncs' \in 0 .. MaxSyncs
    BY <1>1, <1>2, BoundsAssumption DEF TypeOK
  <2>8. final' \subseteq want'.offers
    BY <1>2, FinalsFacts
  <2> QED BY <1>2, <1>3, <2>1, <2>2, <2>3, <2>4, <2>5, <2>6, <2>7, <2>8 DEF TypeOK, Running
<1>8. StartFacts'
  <2>1. Regular(w) => final' = w.offers
    BY <1>2, FinalsFacts DEF Regular, InOneRegion
  <2> QED BY <1>2, <1>6, <2>1 DEF StartFacts, Repeatable, Regular, InOneRegion, OneDesc
<1>9. Sound' => NoDouble \/ Regular(w)
  BY <1>6 DEF Sound
<1>10. Indexed'
  <2> SUFFICES ASSUME NoDouble \/ Regular(w) PROVE Indexed'
    BY <1>9 DEF Indexed
  <2>1. \A s \in DOMAIN services : services[s] \in DOMAIN srv_dict'
    BY <1>3
  <2>2. \A s \in DOMAIN services : srv_dict'[services[s]] = s \/ DeleteServiceCall(s) \in ToSet(calls')
    BY <1>5
  <2> QED BY <1>2, <1>3, <1>5, <2>1, <2>2 DEF Indexed, Pending
<1>11. DoublesGo'
  <2> SUFFICES ASSUME NoDouble \/ Regular(w), NEW c \in ToSet(calls')
               PROVE  \E s \in DOMAIN seen' :
                        /\ c = DeleteServiceCall(s) /\ EndpointsOf(s)' = {}
                        /\ seen'[s] \in DOMAIN srv_dict' /\ srv_dict'[seen'[s]] # s
    BY <1>9 DEF DoublesGo, Pending
  <2>1. PICK s \in DOMAIN services : c = DeleteServiceCall(s) /\ EndpointsOf(s) = {} /\ srv_dict'[services[s]] # s
    BY <1>5
  <2> QED BY <1>2, <1>3, <2>1, Frame
<1>12. RegionIsOne'
  <2>1. Regular(w) => InOneRegion(w)'
    BY <1>2, Frame DEF Regular
  <2> QED BY <1>2, <1>6, <2>1 DEF RegionIsOne, InOneRegion
<1>13. UrlsFit'
  <2> SUFFICES ASSUME Regular(w) PROVE UrlsFit'
    BY <1>6 DEF UrlsFit
  <2>1. ASSUME NEW s \in DOMAIN services, NEW o \in w.offers, GetsUrl(s, o)
        PROVE  UrlOk(s, o)'
    <3>1. HasOne(s)'
      BY <1>2, <2>1, Frame DEF Regular
    <3>2. Repeatable(w) => IsAlone(w, o)
      BY <2>1 DEF Repeatable
    <3> QED BY <1>2, <1>6, <3>1, <3>2 DEF UrlOk, IsAlone
  <2>2. ASSUME NEW n \in DOMAIN spare', NEW o \in w.offers, o.key.name = n, o.key \notin DOMAIN srv_dict',
               HasCands(spare'[n], o), ~ HasMatch(spare'[n], o)
        PROVE  GetsUrl(spare'[n], o)
    BY <1>3, <1>4, <2>2 DEF GetsUrl, MayServe
  <2>3. ASSUME NEW s \in DOMAIN services', NEW o \in w.offers, GetsUrl(s, o)'
        PROVE  UrlOk(s, o)'
    BY <1>2, <2>1, <2>3, Frame
  <2>4. ASSUME NEW n \in DOMAIN spare', NEW o \in w.offers, o.key.name = n, o.key \notin DOMAIN srv_dict',
               NEW s, s = spare'[n], HasCands(s, o)', ~ HasMatch(s, o)'
        PROVE  UrlOk(s, o)'
    <3>1. HasCands(s, o) /\ ~ HasMatch(s, o)
      BY <1>2, <2>4, Frame
    <3> QED BY <1>4, <2>1, <2>2, <2>4, <3>1
  <2> QED BY <1>2, <2>3, <2>4 DEF UrlsFit
<1>14. MissingCome' /\ WantedThere' /\ RegionsCome' /\ CreatesOnce' /\ EndpointsCome' /\ EndpointsThere' /\ ExtrasGo' /\ SyncReaches'
  BY <1>2 DEF MissingCome, WantedThere, RegionsCome, CreatesOnce, EndpointsCome, EndpointsThere, ExtrasGo, SyncReaches, Late
<1>15. NoDoubleMade'
  BY <1>2, <1>6, Frame DEF NoDoubleMade
<1>16. ServingStay'
  BY <1>2, <1>6, Frame DEF ServingStay
<1> QED BY <1>7, <1>8, <1>10, <1>11, <1>12, <1>13, <1>14, <1>15, <1>16 DEF Core

\* Wherever a sync stops, its catalog can be synced again.
LEMMA CoreResumes == Core /\ phase \in Running => Resumable
<1> SUFFICES ASSUME Core, phase \in Running, start.repeatable PROVE Repeatable(want)
  BY DEF Resumable
<1>1. start.regular /\ Sound /\ OneDesc(want)
  BY DEF Core, StartFacts, Sound
<1>2. InOneRegion(want)
  BY <1>1 DEF Core, RegionIsOne
<1>3. IsCatalog(services, endpoints, regions) /\ want \in Wants
  BY DEF Core, TypeOK
<1>4. \A e \in endpoints : e.srv \in DOMAIN services
  BY <1>3 DEF IsCatalog
<1>5. CASE phase \in Early
  <2>1. ASSUME NEW e \in endpoints PROVE srv_dict[services[e.srv]] = e.srv
    <3>1. ASSUME DeleteServiceCall(e.srv) \in Pending, phase = "double" PROVE FALSE
      <4>1. PICK s \in DOMAIN seen : DeleteServiceCall(e.srv) = DeleteServiceCall(s) /\ EndpointsOf(s) = {}
        BY <1>1, <3>1 DEF Core, DoublesGo
      <4>2. s = e.srv
        BY <4>1 DEF DeleteServiceCall
      <4> QED BY <4>1, <4>2 DEF EndpointsOf
    <3> QED BY <1>1, <1>4, <1>5, <3>1 DEF Core, Indexed
  <2>2. OneServing
    <3> SUFFICES ASSUME NEW e \in endpoints, NEW f \in endpoints, services[e.srv] = services[f.srv] PROVE e.srv = f.srv
      BY DEF OneServing
    <3> QED BY <2>1
  <2>3. \A s \in DOMAIN services : \A o \in want.offers : GetsUrl(s, o) => UrlOk(s, o)
    BY <1>1, <1>5 DEF Core, UrlsFit
  <2> QED BY <1>1, <1>2, <2>2, <2>3 DEF Repeatable, Regular, UrlOk
<1>6. ASSUME phase \in {"endpoints"} \cup Late, NEW s \in DOMAIN services, NEW o \in want.offers, GetsUrl(s, o)
      PROVE  /\ services[s] = o.key /\ ~ HasMatch(s, o)
             /\ \E e \in EndpointsOf(s) : IsAt(e, o)
  <2>1. PICK t \in DOMAIN services : services[t] = o.key
    <3>1. o.key \in want.services
      BY <1>3, WantFacts
    <3>2. phase # "services" /\ phase \in {"services", "regions", "endpoints"} \cup Late
      BY <1>6 DEF Late
    <3> QED BY <1>1, <3>1, <3>2 DEF Core, WantedThere
  <2>2. services[s] = o.key
    BY <1>6, <2>1 DEF GetsUrl, MayServe
  <2>3. PICK e \in EndpointsOf(s) : e.interface = o.interface
    BY <1>6 DEF GetsUrl, HasCands
  <2>4. e \in endpoints /\ e.srv = s
    BY DEF EndpointsOf
  <2>5. e.region = o.region
    BY <1>2, <2>2, <2>4 DEF InOneRegion
  <2> QED BY <1>6, <2>2, <2>3, <2>4, <2>5 DEF GetsUrl, IsAt
<1>7. CASE phase = "endpoints"
  <2>1. \A t \in DOMAIN services : srv_dict[services[t]] = t
    BY <1>1, <1>7 DEF Core, Indexed
  <2>2. OneServing
    BY <1>4, <2>1 DEF OneServing
  <2>3. ASSUME NEW s \in DOMAIN services, NEW o \in want.offers, GetsUrl(s, o)
        PROVE  HasOne(s) /\ IsAlone(want, o)
    <3>1. services[s] = o.key /\ ~ HasMatch(s, o) /\ \E e \in EndpointsOf(s) : IsAt(e, o)
      BY <1>6, <1>7, <2>3
    <3>2. ASSUME NEW e \in endpoints, IsAt(e, o) PROVE e \in EndpointsOf(s) /\ e.url # o.url
      <4>1. e.srv = s
        BY <1>4, <2>1, <3>1, <3>2 DEF IsAt
      <4> QED BY <3>1, <3>2, <4>1 DEF EndpointsOf, HasMatch, IsAt
    <3>3. CreateCall(o) \notin Pending
      <4>1. CreateCall(o) \in Creates /\ CreateCall(o).offer = o
        BY <1>3, WantFacts, EndpointCallTypes DEF CreateCall
      <4>2. \E e \in endpoints : IsAt(e, o)
        BY <3>1 DEF EndpointsOf
      <4> QED BY <1>1, <1>7, <4>1, <4>2 DEF Core, CreatesOnce
    <3>4. PICK e \in endpoints : IsAt(e, o) /\ \E c \in Updates : c.id = e.id /\ c.url = o.url
      <4>1. \/ \E e \in endpoints : IsAt(e, o) /\ e.url = o.url /\ e.id \notin Deleted \cup Updated
            \/ CreateCall(o) \in Pending
            \/ \E e \in endpoints : IsAt(e, o) /\ e.id \notin Deleted /\ \E c \in Updates : c.id = e.id /\ c.url = o.url
        BY <1>1, <1>7 DEF Core, EndpointsCome
      <4> QED BY <3>2, <3>3, <4>1
    <3>5. e.id \in Updated /\ services[e.srv] = o.key /\ e.srv = s
      BY <3>2, <3>4 DEF Updated, IsAt, EndpointsOf
    <3> QED BY <1>1, <1>7, <3>5 DEF Core, EndpointsCome
  <2> QED BY <1>1, <1>2, <2>2, <2>3 DEF Repeatable, Regular
<1>8. CASE phase \in Late
  <2>1. {OfferOf(e) : e \in endpoints} = want.offers /\ NoDouble
    BY <1>1, <1>8 DEF Core, EndpointsThere
  <2>2. OneServing
    BY <1>4, <2>1 DEF OneServing, NoDouble
  <2>3. ASSUME NEW s \in DOMAIN services, NEW o \in want.offers, GetsUrl(s, o) PROVE FALSE
    <3>1. services[s] = o.key /\ ~ HasMatch(s, o)
      BY <1>6, <1>8, <2>3
    <3>2. PICK e \in endpoints : o = OfferOf(e)
      BY <2>1
    <3>3. services[e.srv] = o.key /\ e.interface = o.interface /\ e.url = o.url
      BY <3>2 DEF OfferOf
    <3>4. e.srv = s
      BY <1>4, <2>1, <3>1, <3>3 DEF NoDouble
    <3> QED BY <3>1, <3>3, <3>4 DEF HasMatch, EndpointsOf
  <2> QED BY <1>1, <1>2, <2>2, <2>3 DEF Repeatable, Regular
<1> QED BY <1>5, <1>7, <1>8 DEF Running, Early, Late

LEMMA StutterKeeps == IInv /\ UNCHANGED vars => IInv'
<1> SUFFICES ASSUME IInv, UNCHANGED vars PROVE IInv'
  OBVIOUS
<1>1. /\ services' = services /\ endpoints' = endpoints /\ regions' = regions /\ phase' = phase /\ want' = want
      /\ final' = final /\ dry' = dry /\ changed' = changed /\ seen' = seen /\ endps' = endps /\ srv_dict' = srv_dict
      /\ spare' = spare /\ calls' = calls /\ syncs' = syncs /\ start' = start
  BY DEF vars, catalog, listing, args
<1>2. Pending' = Pending /\ (Sound' <=> Sound)
  BY <1>1 DEF Pending, Sound
<1>3. Deleted' = Deleted /\ Updates' = Updates /\ Updated' = Updated
  BY <1>2 DEF Deleted, Updates, Updated
<1>4. TypeOK' /\ StartFacts'
  BY <1>1 DEF IInv, Core, TypeOK, StartFacts, IsCatalog, IsPartialFcn
<1>5. Indexed' /\ DoublesGo' /\ MissingCome' /\ WantedThere'
  <2>1. Indexed'
    BY <1>1, <1>2 DEF IInv, Core, Indexed
  <2>2. DoublesGo'
    BY <1>1, <1>2, Frame DEF IInv, Core, DoublesGo
  <2>3. MissingCome'
    BY <1>1, <1>2 DEF IInv, Core, MissingCome
  <2>4. WantedThere'
    BY <1>1, <1>2 DEF IInv, Core, WantedThere
  <2> QED BY <2>1, <2>2, <2>3, <2>4
<1>6. RegionIsOne' /\ UrlsFit' /\ RegionsCome'
  <2>1. RegionIsOne' /\ RegionsCome'
    BY <1>1, <1>2 DEF IInv, Core, RegionIsOne, InOneRegion, RegionsCome
  <2>2. \A s, o : UrlOk(s, o)' <=> UrlOk(s, o)
    BY <1>1, Frame DEF UrlOk
  <2>3. UrlsFit'
    BY <1>1, <2>2, Frame DEF IInv, Core, UrlsFit
  <2> QED BY <2>1, <2>3
<1>7. CreatesOnce' /\ EndpointsCome'
  BY <1>1, <1>2, <1>3, Frame DEF IInv, Core, CreatesOnce, EndpointsCome
<1>8. EndpointsThere' /\ ExtrasGo' /\ NoDoubleMade' /\ ServingStay'
  BY <1>1, <1>2, <1>3, Frame DEF IInv, Core, EndpointsThere, ExtrasGo, NoDoubleMade, ServingStay
<1>9. Resumable' /\ SyncReaches'
  <2>1. Resumable'
    BY <1>1, Frame DEF IInv, Resumable
  <2>2. Reached(want)' <=> Reached(want)
    BY <1>1 DEF Reached, NoDouble, OfferOf
  <2> QED BY <1>1, <2>1, <2>2 DEF IInv, Core, SyncReaches
<1> QED BY <1>4, <1>5, <1>6, <1>7, <1>8, <1>9 DEF IInv, Core

\* A sync that stops early, or has reached what is wanted.
LEMMA StopKeeps ==
  ASSUME IInv, phase \in Running, NEW how \in {"returned", "raised"}, Ended(how),
         UNCHANGED <<catalog, args>>, changed' \in BOOLEAN,
         how = "returned" => dry \/ (start.regular => Reached(want))
  PROVE  IInv'
<1>1. /\ services' = services /\ endpoints' = endpoints /\ regions' = regions /\ phase' = how /\ want' = want
      /\ final' = final /\ dry' = dry /\ syncs' = syncs /\ start' = start
      /\ calls' = <<>> /\ seen' = Empty /\ endps' = <<>> /\ srv_dict' = Empty /\ spare' = Empty
  BY DEF Ended, catalog, args
<1>2. how \in NotRunning /\ how \notin Running /\ how \notin Early /\ how \notin Late
      /\ how \notin {"services", "regions", "endpoints", "double", "extra services", "extra regions"}
  BY DEF NotRunning, Running, Early, Late
<1>3. TypeOK'
  <2>1. DOMAIN Empty = {} /\ Empty = [x \in {} |-> Empty[x]]
    BY DEF Empty
  <2>2. IsPartialFcn(Empty, ServiceId, Key) /\ IsPartialFcn(Empty, Key, ServiceId) /\ IsPartialFcn(Empty, Name, ServiceId)
    BY <2>1 DEF IsPartialFcn
  <2>3. <<>> \in Seq(Endpoint) /\ <<>> \in Seq(CallsIn(how)) /\ ToSet(<<>>) = {}
    BY SingleFacts
  <2>4. IsFiniteSet(DOMAIN Empty)
    BY <2>1, FS_EmptySet
  <2>5. IsCatalog(services, endpoints, regions)'
    BY <1>1 DEF IInv, Core, TypeOK
  <2> QED BY <1>1, <1>2, <2>1, <2>2, <2>3, <2>4, <2>5 DEF IInv, Core, TypeOK
<1>4. StartFacts'
  BY <1>1, <1>2 DEF IInv, Core, StartFacts
<1>5. Indexed' /\ DoublesGo' /\ MissingCome' /\ WantedThere' /\ RegionIsOne' /\ UrlsFit' /\ RegionsCome'
  BY <1>1, <1>2 DEF Indexed, DoublesGo, MissingCome, WantedThere, RegionIsOne, UrlsFit, RegionsCome, Early, Late
<1>6. CreatesOnce' /\ EndpointsCome' /\ EndpointsThere' /\ ExtrasGo'
  BY <1>1, <1>2 DEF CreatesOnce, EndpointsCome, EndpointsThere, ExtrasGo
<1>7. NoDoubleMade' /\ ServingStay'
  BY <1>1, <1>2, Frame DEF IInv, Core, NoDoubleMade, ServingStay
<1>8. Resumable'
  BY <1>1, Frame DEF IInv, Resumable
<1>9. SyncReaches'
  <2>1. Reached(want)' <=> Reached(want)
    BY <1>1 DEF Reached, NoDouble, OfferOf
  <2> QED BY <1>1, <2>1 DEF SyncReaches
<1> QED BY <1>3, <1>4, <1>5, <1>6, <1>7, <1>8, <1>9 DEF IInv, Core

LEMMA SyncIsRunning ==
  ASSUME TypeOK, calls # <<>>
  PROVE  phase \in Running
<1>1. CASE phase \in NotRunning
  <2>1. calls \in Seq({})
    BY <1>1, CallFacts DEF TypeOK
  <2> QED BY <2>1
<1> QED BY <1>1 DEF TypeOK

LEMMA RaiseKeeps == IInv /\ Raise => IInv'
<1> SUFFICES ASSUME IInv, Raise PROVE IInv'
  OBVIOUS
<1>1. Ended("raised") /\ UNCHANGED <<catalog, args>> /\ changed' = changed /\ calls # <<>>
  BY DEF Raise
<1>2. phase \in Running /\ changed \in BOOLEAN
  BY <1>1, SyncIsRunning DEF IInv, Core, TypeOK
<1> QED BY <1>1, <1>2, StopKeeps

LEMMA DryRunStopsKeeps == IInv /\ DryRunStops => IInv'
<1> SUFFICES ASSUME IInv, DryRunStops PROVE IInv'
  OBVIOUS
<1>1. Ended("returned") /\ UNCHANGED <<catalog, args>> /\ changed' = TRUE /\ calls # <<>> /\ dry
  BY DEF DryRunStops
<1>2. phase \in Running
  BY <1>1, SyncIsRunning DEF IInv, Core
<1> QED BY <1>1, <1>2, StopKeeps

LEMMA ReturnKeeps == IInv /\ Return => IInv'
<1> SUFFICES ASSUME IInv, Return PROVE IInv'
  OBVIOUS
<1>1. /\ Ended("returned") /\ UNCHANGED <<catalog, args>> /\ changed' = changed /\ calls = <<>>
      /\ phase = "extra regions"
  BY DEF Return
<1>2. Pending = {}
  BY <1>1, SingleFacts DEF Pending
<1>3. changed \in BOOLEAN /\ want \in Wants /\ IsPartialFcn(regions, Region, RegionRec)
  BY DEF IInv, Core, TypeOK, IsCatalog
<1>4. ASSUME start.regular PROVE Reached(want)
  <2>1. {OfferOf(e) : e \in endpoints} = want.offers /\ NoDouble /\ \A s \in DOMAIN services : services[s] \in want.services
    BY <1>1, <1>2, <1>4 DEF IInv, Core, EndpointsThere, Late
  <2>2. \A k \in want.services : \E s \in DOMAIN services : services[s] = k
    BY <1>1, <1>2, <1>4 DEF IInv, Core, WantedThere, Late
  <2>3. regions = want.regions
    <3>1. \A r \in DOMAIN want.regions : r \in DOMAIN regions /\ regions[r] = want.regions[r]
      BY <1>1, <1>2, <1>4 DEF IInv, Core, RegionsCome, Late
    <3>2. \A r \in DOMAIN regions : r \in DOMAIN want.regions
      BY <1>1, <1>2 DEF IInv, Core, RegionsCome
    <3>3. DOMAIN regions = DOMAIN want.regions
      BY <3>1, <3>2
    <3>4. regions \in [DOMAIN regions -> RegionRec] /\ want.regions \in [DOMAIN want.regions -> RegionRec]
      BY <1>3, WantFacts DEF IsPartialFcn
    <3> QED BY <3>1, <3>3, <3>4
  <2> QED BY <2>1, <2>2, <2>3 DEF Reached
<1> QED BY <1>1, <1>3, <1>4, StopKeeps DEF Running

-----------------------------------------------------------------------------
(* From one part of a sync to the next.                                    *)

LEMMA ServiceCallsFacts ==
  ASSUME TypeOK, NEW plan \in ServiceCalls
  PROVE  /\ plan \in Seq(CallsIn("services"))
         /\ \A c \in ToSet(plan) : c.key \in MissingServices /\ (c.op = "update service" <=> c.key.name \in DOMAIN spare)
         /\ \A k \in MissingServices : \E c \in ToSet(plan) : c.key = k
         /\ \A i, j \in DOMAIN plan : plan[i].key = plan[j].key => i = j
<1> DEFINE C == CallsIn("services")
<1>1. PICK order \in SetToSeqs(MissingServices) :
        plan = [i \in DOMAIN order |->
                  [op |-> IF order[i].name \in DOMAIN spare THEN "update service" ELSE "create service",
                   key |-> order[i]]]
  BY DEF ServiceCalls
<1>2. MissingServices \subseteq Key /\ IsFiniteSet(MissingServices)
  <2>1. want.services \subseteq Key /\ IsFiniteSet(want.services)
    BY WantFacts DEF TypeOK
  <2>2. MissingServices \in SUBSET want.services
    BY DEF MissingServices
  <2> QED BY <2>1, <2>2, FS_Subset
<1>3. order \in Seq(MissingServices) /\ ToSet(order) = MissingServices /\ Once(order, MissingServices)
  BY <1>2, SetToSeqsFacts
<1>4. ASSUME NEW i \in DOMAIN order
      PROVE  /\ order[i] \in MissingServices
             /\ plan[i].key = order[i] /\ (plan[i].op = "update service" <=> order[i].name \in DOMAIN spare)
             /\ plan[i] \in C
  <2>1. order[i] \in MissingServices /\ order[i] \in Key
    BY <1>2, <1>3, SeqFacts
  <2> DEFINE how == IF order[i].name \in DOMAIN spare THEN "update service" ELSE "create service"
  <2>2. plan[i] = [op |-> how, key |-> order[i]]
    BY <1>1
  <2>3. how \in {"create service", "update service"} /\ (how = "update service" <=> order[i].name \in DOMAIN spare)
    OBVIOUS
  <2>4. \A o \in {"create service", "update service"}, k \in Key : [op |-> o, key |-> k] \in C
    BY CallFacts
  <2> HIDE DEF how, C
  <2>5. plan[i] \in C
    BY <2>1, <2>2, <2>3, <2>4
  <2>6. plan[i].key = order[i] /\ plan[i].op = how
    BY <2>2
  <2> QED BY <2>1, <2>3, <2>5, <2>6
<1> HIDE DEF C
<1>5. plan \in Seq(C) /\ DOMAIN plan = DOMAIN order /\ ToSet(plan) = {plan[i] : i \in DOMAIN order}
  <2>1. plan = [i \in DOMAIN order |-> plan[i]]
    BY <1>1
  <2>2. \A i \in DOMAIN order : plan[i] \in C
    BY <1>4
  <2>3. order \in Seq(MissingServices)
    BY <1>3
  <2> QED BY ONLY <2>1, <2>2, <2>3, MapFacts
<1>6. \A k \in MissingServices : \E i \in DOMAIN order : order[i] = k
  BY <1>3 DEF ToSet
<1>7. \A i, j \in DOMAIN plan : plan[i].key = plan[j].key => i = j
  BY <1>3, <1>4, <1>5 DEF Once
<1>8. \A c \in ToSet(plan) : c.key \in MissingServices /\ (c.op = "update service" <=> c.key.name \in DOMAIN spare)
  BY <1>4, <1>5
<1>9. \A k \in MissingServices : \E c \in ToSet(plan) : c.key = k
  BY <1>4, <1>5, <1>6
<1> QED BY <1>5, <1>7, <1>8, <1>9 DEF C

LEMMA RegionCallsFacts ==
  ASSUME TypeOK, NEW plan \in RegionCalls
  PROVE  /\ plan \in Seq(CallsIn("regions"))
         /\ \A c \in ToSet(plan) : c.region \in DOMAIN want.regions
         /\ \A r \in DOMAIN want.regions :
              \/ r \in DOMAIN regions /\ regions[r] = want.regions[r]
              \/ \E c \in ToSet(plan) : c.region = r
<1> DEFINE C == CallsIn("regions")
           D == DOMAIN want.regions
<1>1. PICK order \in SetToSeqs(D) : plan = FlattenSeq([i \in DOMAIN order |-> RegionCall(order[i])])
  BY DEF RegionCalls
<1>2. D \subseteq Region /\ IsFiniteSet(D)
  BY WantFacts DEF TypeOK, IsPartialFcn
<1> HIDE DEF D
<1>3. order \in Seq(D) /\ ToSet(order) = D
  BY <1>2, SetToSeqsFacts
<1>4. ASSUME NEW r \in D
      PROVE  /\ RegionCall(r) \in Seq(C)
             /\ \A c \in ToSet(RegionCall(r)) : c.region = r
             /\ (r \in DOMAIN regions /\ regions[r] = want.regions[r]) \/ \E c \in ToSet(RegionCall(r)) : c.region = r
  <2>1. ASSUME NEW x, RegionCall(r) = <<x>>, x = [op |-> "create region", region |-> r] \/ x = [op |-> "update region", region |-> r]
        PROVE  RegionCall(r) \in Seq(C) /\ ToSet(RegionCall(r)) = {x} /\ x.region = r
    <3>0. \A o \in {"create region", "update region"}, q \in Region : [op |-> o, region |-> q] \in C
      BY CallFacts
    <3> HIDE DEF C
    <3>1. x \in C /\ x.region = r
      <4>1. CASE x = [op |-> "create region", region |-> r]
        BY <1>2, <3>0, <4>1
      <4>2. CASE x = [op |-> "update region", region |-> r]
        BY <1>2, <3>0, <4>2
      <4> QED BY <2>1, <4>1, <4>2
    <3>2. <<x>> \in Seq(C)
      BY <3>1
    <3> QED BY <2>1, <3>1, <3>2, SingleFacts
  <2>2. \/ r \in DOMAIN regions /\ regions[r] = want.regions[r] /\ RegionCall(r) = <<>>
        \/ \E x : RegionCall(r) = <<x>> /\ (x = [op |-> "create region", region |-> r] \/ x = [op |-> "update region", region |-> r])
    BY DEF RegionCall
  <2>3. <<>> \in Seq(C) /\ ToSet(<<>>) = {}
    BY SingleFacts
  <2> HIDE DEF C
  <2> QED BY <2>1, <2>2, <2>3
<1> DEFINE parts == [i \in DOMAIN order |-> RegionCall(order[i])]
<1>5. DOMAIN parts = DOMAIN order /\ \A i \in DOMAIN order : parts[i] = RegionCall(order[i]) /\ order[i] \in D
  BY <1>3, SeqFacts
<1> HIDE DEF C
<1>6. parts \in Seq(Seq(C))
  <2>1. Len(order) \in Nat /\ DOMAIN order = 1 .. Len(order)
    BY <1>3, SeqFacts
  <2>2. \A i \in DOMAIN order : parts[i] \in Seq(C)
    BY <1>4, <1>5
  <2> QED BY <2>1, <2>2
<1> HIDE DEF parts
<1>7. FlattenSeq(parts) \in Seq(C) /\ \A x : x \in ToSet(FlattenSeq(parts)) <=> \E i \in DOMAIN parts : x \in ToSet(parts[i])
  BY <1>6, FlattenFacts
<1>8. \A r \in D : \E i \in DOMAIN order : order[i] = r
  BY <1>3 DEF ToSet
<1>9. plan = FlattenSeq(parts)
  BY <1>1 DEF parts
<1>10. \A c \in ToSet(plan) : c.region \in D
  BY <1>4, <1>5, <1>7, <1>9
<1>11. ASSUME NEW r \in D, ~ (r \in DOMAIN regions /\ regions[r] = want.regions[r])
       PROVE  \E c \in ToSet(plan) : c.region = r
  <2>1. PICK i \in DOMAIN order : order[i] = r
    BY <1>8
  <2>2. PICK c \in ToSet(RegionCall(r)) : c.region = r
    BY <1>4, <1>11
  <2> QED BY <1>5, <1>7, <1>9, <2>1, <2>2
<1> QED BY <1>7, <1>9, <1>10, <1>11 DEF C, D

LEMMA ExtraServiceCallsFacts ==
  ASSUME TypeOK, NEW plan \in ExtraServiceCalls
  PROVE  /\ plan \in Seq(CallsIn("extra services"))
         /\ ToSet(plan) = {DeleteServiceCall(srv_dict[k]) : k \in DOMAIN srv_dict \ want.services}
<1> DEFINE D == DOMAIN srv_dict \ want.services
           C == CallsIn("extra services")
<1>1. PICK order \in SetToSeqs(D) :
        plan = [i \in DOMAIN order |-> [op |-> "delete service", id |-> srv_dict[order[i]]]]
  BY DEF ExtraServiceCalls
<1>2. IsFiniteSet(D) /\ \A k \in D : srv_dict[k] \in ServiceId
  BY FS_Subset DEF TypeOK, IsPartialFcn
<1> HIDE DEF D
<1>3. order \in Seq(D) /\ ToSet(order) = D
  BY <1>2, SetToSeqsFacts
<1>4. \A i \in DOMAIN order : plan[i] = DeleteServiceCall(srv_dict[order[i]]) /\ order[i] \in D
  BY <1>1, <1>3, SeqFacts DEF DeleteServiceCall
<1>5. \A s \in ServiceId : DeleteServiceCall(s) \in C
  BY CallFacts DEF DeleteServiceCall
<1> HIDE DEF C
<1>6. plan = [i \in DOMAIN order |-> plan[i]] /\ \A i \in DOMAIN order : plan[i] \in C
  BY <1>1, <1>2, <1>4, <1>5
<1>7. plan \in Seq(C) /\ ToSet(plan) = {plan[i] : i \in DOMAIN order}
  <2>1. order \in Seq(D)
    BY <1>3
  <2> QED BY ONLY <1>6, <2>1, MapFacts
<1>8. \A k \in D : \E i \in DOMAIN order : order[i] = k
  BY <1>3 DEF ToSet
<1>9. ToSet(plan) = {DeleteServiceCall(srv_dict[k]) : k \in D}
  <2>1. \A c \in ToSet(plan) : \E i \in DOMAIN order : c = DeleteServiceCall(srv_dict[order[i]]) /\ order[i] \in D
    BY <1>4, <1>7
  <2>2. \A k \in D : DeleteServiceCall(srv_dict[k]) \in ToSet(plan)
    BY <1>4, <1>7, <1>8
  <2> HIDE DEF DeleteServiceCall
  <2> QED BY <2>1, <2>2
<1> QED BY <1>7, <1>9 DEF C, D

LEMMA ExtraRegionCallsFacts ==
  ASSUME TypeOK, NEW plan \in ExtraRegionCalls
  PROVE  /\ plan \in Seq(CallsIn("extra regions"))
         /\ \A c \in ToSet(plan) : c.region \in DOMAIN regions \ DOMAIN want.regions
         /\ \A r \in DOMAIN regions \ DOMAIN want.regions : \E c \in ToSet(plan) : c.region = r
<1> DEFINE D == DOMAIN regions \ DOMAIN want.regions
           C == CallsIn("extra regions")
<1>1. PICK order \in SetToSeqs(D) : plan = [i \in DOMAIN order |-> [op |-> "delete region", region |-> order[i]]]
  BY DEF ExtraRegionCalls
<1>2. IsFiniteSet(D) /\ D \subseteq Region
  BY FS_Subset DEF TypeOK, IsCatalog, IsPartialFcn
<1> HIDE DEF D
<1>3. order \in Seq(D) /\ ToSet(order) = D
  BY <1>2, SetToSeqsFacts
<1>4. \A i \in DOMAIN order : plan[i] = [op |-> "delete region", region |-> order[i]] /\ order[i] \in D
  BY <1>1, <1>3, SeqFacts
<1>5. \A r \in Region : [op |-> "delete region", region |-> r] \in C
  BY CallFacts
<1> HIDE DEF C
<1>6. plan = [i \in DOMAIN order |-> plan[i]] /\ \A i \in DOMAIN order : plan[i] \in C
  BY <1>1, <1>2, <1>4, <1>5
<1>7. plan \in Seq(C) /\ ToSet(plan) = {plan[i] : i \in DOMAIN order}
  <2>1. order \in Seq(D)
    BY <1>3
  <2> QED BY ONLY <1>6, <2>1, MapFacts
<1>8. \A r \in D : \E i \in DOMAIN order : order[i] = r
  BY <1>3 DEF ToSet
<1>9. \A c \in ToSet(plan) : c.region \in D
  <2>1. ASSUME NEW i \in DOMAIN order PROVE plan[i].region \in D
    <3> DEFINE c == [op |-> "delete region", region |-> order[i]]
    <3>1. plan[i] = c /\ order[i] \in D
      BY <1>4
    <3>2. c.region = order[i]
      OBVIOUS
    <3> HIDE DEF c
    <3> QED BY <3>1, <3>2
  <2> QED BY <1>7, <2>1
<1>10. ASSUME NEW r \in D PROVE \E c \in ToSet(plan) : c.region = r
  <2>1. PICK i \in DOMAIN order : order[i] = r
    BY <1>8
  <2>2. plan[i] \in ToSet(plan)
    BY <1>7
  <2>3. plan[i].region = r
    <3> DEFINE c == [op |-> "delete region", region |-> r]
    <3>1. plan[i] = c
      BY <1>4, <2>1
    <3>2. c.region = r
      OBVIOUS
    <3> HIDE DEF c
    <3> QED BY <3>1, <3>2
  <2> QED BY <2>2, <2>3
<1> QED BY <1>7, <1>9, <1>10 DEF C, D

\* What every step to the next part of a sync keeps.
LEMMA EnterKeeps ==
  ASSUME Core, NEW from \in Running, NEW to \in Running, NEW plans, Enter(from, to, plans),
         calls' \in Seq(CallsIn(to))
  PROVE  /\ Pending = {}
         /\ TypeOK' /\ StartFacts' /\ RegionIsOne' /\ NoDoubleMade' /\ SyncReaches'
         /\ to # "endpoints" => ServingStay'
         /\ from \in Early /\ to # "double" => Indexed'
         /\ from \in Early => UrlsFit'
<1>1. /\ phase = from /\ phase' = to /\ calls = <<>>
      /\ services' = services /\ endpoints' = endpoints /\ regions' = regions /\ want' = want
      /\ final' = final /\ dry' = dry /\ seen' = seen /\ endps' = endps /\ srv_dict' = srv_dict
      /\ spare' = spare /\ syncs' = syncs /\ start' = start
      /\ changed' = (changed \/ (to = "endpoints" /\ CountsAsChange))
  BY DEF Enter, catalog, listing, args
<1>2. Pending = {}
  BY <1>1, SingleFacts DEF Pending
<1>3. TypeOK'
  <2>1. TypeOK
    BY DEF Core
  <2>2. changed' \in BOOLEAN
    BY <1>1
  <2>3. IsCatalog(services, endpoints, regions)'
    BY <1>1, <2>1 DEF TypeOK
  <2> QED BY <1>1, <2>1, <2>2, <2>3 DEF TypeOK
<1>4. StartFacts'
  BY <1>1 DEF Core, StartFacts
<1>5. RegionIsOne'
  <2>1. InOneRegion(want)' <=> InOneRegion(want)
    BY <1>1 DEF InOneRegion
  <2> QED BY <1>1, <2>1 DEF Core, RegionIsOne
<1>6. NoDoubleMade'
  BY <1>1, Frame DEF Core, NoDoubleMade
<1>7. SyncReaches'
  BY <1>1 DEF SyncReaches, Running
<1>8. to # "endpoints" => ServingStay'
  BY <1>1, Frame DEF Core, ServingStay
<1>9. ASSUME from \in Early, to # "double" PROVE Indexed'
  <2> SUFFICES ASSUME Sound PROVE Indexed'
    BY <1>1 DEF Indexed, Sound
  <2>1. /\ \A k \in DOMAIN srv_dict : srv_dict[k] \in DOMAIN services /\ services[srv_dict[k]] = k
        /\ \A s \in DOMAIN services :
             /\ services[s] \in DOMAIN srv_dict
             /\ srv_dict[services[s]] = s
        /\ \A s \in DOMAIN seen \cap DOMAIN services : seen[s] = services[s]
        /\ ToSet(endps) = endpoints
    BY <1>1, <1>2, <1>9 DEF Core, Indexed
  <2> QED BY <1>1, <2>1 DEF Indexed
<1>10. ASSUME from \in Early PROVE UrlsFit'
  <2>1. \A s, o : UrlOk(s, o)' <=> UrlOk(s, o)
    BY <1>1, Frame DEF UrlOk
  <2> QED BY <1>1, <1>10, <2>1, Frame DEF Core, UrlsFit
<1> QED BY <1>2, <1>3, <1>4, <1>5, <1>6, <1>7, <1>8, <1>9, <1>10

LEMMA EnterServicesKeeps == Core /\ EnterServices => Core'
<1> SUFFICES ASSUME Core, EnterServices PROVE Core'
  OBVIOUS
<1>1. /\ phase = "double" /\ phase' = "services" /\ calls' \in ServiceCalls
      /\ services' = services /\ want' = want /\ srv_dict' = srv_dict /\ spare' = spare /\ start' = start
  BY DEF EnterServices, Enter, catalog, listing, args
<1>2. TypeOK
  BY DEF Core
<1>3. calls' \in Seq(CallsIn("services"))
  BY <1>1, <1>2, ServiceCallsFacts
<1>4. /\ Pending = {}
      /\ TypeOK' /\ StartFacts' /\ RegionIsOne' /\ NoDoubleMade' /\ SyncReaches'
      /\ ServingStay' /\ Indexed' /\ UrlsFit'
  BY <1>3, EnterKeeps DEF EnterServices, Running, Early
<1>5. /\ \A c \in ToSet(calls') : c.key \in MissingServices /\ (c.op = "update service" <=> c.key.name \in DOMAIN spare)
      /\ \A k \in MissingServices : \E c \in ToSet(calls') : c.key = k
      /\ \A i, j \in DOMAIN calls' : calls'[i].key = calls'[j].key => i = j
  BY <1>1, <1>2, ServiceCallsFacts
<1>6. MissingCome'
  BY <1>1, <1>5 DEF MissingCome, MissingServices, Pending
<1>7. WantedThere'
  <2> SUFFICES ASSUME start.regular, NEW k \in want.services
               PROVE  (\E s \in DOMAIN services : services[s] = k) \/ \E c \in ToSet(calls') : c.key = k
    BY <1>1 DEF WantedThere, Pending
  <2>1. CASE k \in DOMAIN srv_dict
    <3>1. srv_dict[k] \in DOMAIN services /\ services[srv_dict[k]] = k
      BY <1>1, <2>1 DEF Core, Indexed, Sound, Early
    <3> QED BY <3>1
  <2>2. CASE k \notin DOMAIN srv_dict
    BY <1>5, <2>2 DEF MissingServices
  <2> QED BY <2>1, <2>2
<1>8. DoublesGo' /\ RegionsCome' /\ CreatesOnce' /\ EndpointsCome' /\ EndpointsThere' /\ ExtrasGo'
  BY <1>1 DEF DoublesGo, RegionsCome, CreatesOnce, EndpointsCome, EndpointsThere, ExtrasGo, Late
<1> QED BY <1>4, <1>6, <1>7, <1>8 DEF Core

LEMMA EnterRegionsKeeps == Core /\ EnterRegions => Core'
<1> SUFFICES ASSUME Core, EnterRegions PROVE Core'
  OBVIOUS
<1>1. /\ phase = "services" /\ phase' = "regions" /\ calls' \in RegionCalls
      /\ services' = services /\ want' = want /\ regions' = regions /\ start' = start
  BY DEF EnterRegions, Enter, catalog, listing, args
<1>2. TypeOK
  BY DEF Core
<1>3. calls' \in Seq(CallsIn("regions"))
  BY <1>1, <1>2, RegionCallsFacts
<1>4. /\ Pending = {}
      /\ TypeOK' /\ StartFacts' /\ RegionIsOne' /\ NoDoubleMade' /\ SyncReaches'
      /\ ServingStay' /\ Indexed' /\ UrlsFit'
  BY <1>3, EnterKeeps DEF EnterRegions, Running, Early
<1>5. RegionsCome'
  <2>1. /\ \A c \in ToSet(calls') : c.region \in DOMAIN want.regions
        /\ \A r \in DOMAIN want.regions :
             \/ r \in DOMAIN regions /\ regions[r] = want.regions[r]
             \/ \E c \in ToSet(calls') : c.region = r
    BY <1>1, <1>2, RegionCallsFacts
  <2> QED BY <1>1, <2>1 DEF RegionsCome, Pending
<1>6. WantedThere'
  BY <1>1, <1>4 DEF Core, WantedThere
<1>7. DoublesGo' /\ MissingCome' /\ CreatesOnce' /\ EndpointsCome' /\ EndpointsThere' /\ ExtrasGo'
  BY <1>1 DEF DoublesGo, MissingCome, CreatesOnce, EndpointsCome, EndpointsThere, ExtrasGo, Late
<1> QED BY <1>4, <1>5, <1>6, <1>7 DEF Core

\* An offer is what its fields say.
LEMMA OfferFacts ==
  ASSUME NEW o \in Offer, NEW e, IsAt(e, o), e.url = o.url
  PROVE  OfferOf(e) = o
BY DEF Offer, IsAt, OfferOf

LEMMA EnterExtraServicesKeeps == Core /\ EnterExtraServices => Core'
<1> SUFFICES ASSUME Core, EnterExtraServices PROVE Core'
  OBVIOUS
<1>1. /\ phase = "endpoints" /\ phase' = "extra services" /\ calls' \in ExtraServiceCalls
      /\ services' = services /\ endpoints' = endpoints /\ want' = want /\ regions' = regions
      /\ srv_dict' = srv_dict /\ start' = start
  BY DEF EnterExtraServices, Enter, catalog, listing, args
<1>2. TypeOK
  BY DEF Core
<1>3. calls' \in Seq(CallsIn("extra services"))
  BY <1>1, <1>2, ExtraServiceCallsFacts
<1>4. /\ Pending = {}
      /\ TypeOK' /\ StartFacts' /\ RegionIsOne' /\ NoDoubleMade' /\ SyncReaches' /\ ServingStay'
  BY <1>3, EnterKeeps DEF EnterExtraServices, Running
<1>5. ToSet(calls') = {DeleteServiceCall(srv_dict[k]) : k \in DOMAIN srv_dict \ want.services}
  BY <1>1, <1>2, ExtraServiceCallsFacts
<1>6. Deleted = {} /\ Updates = {} /\ Updated = {}
  BY <1>4 DEF Deleted, Updates, Updated
<1>7. Sound =>
        /\ \A k \in DOMAIN srv_dict : srv_dict[k] \in DOMAIN services /\ services[srv_dict[k]] = k
        /\ \A s \in DOMAIN services : services[s] \in DOMAIN srv_dict /\ srv_dict[services[s]] = s
  BY <1>1 DEF Core, Indexed
<1>8. ExtrasGo'
  <2> SUFFICES ASSUME Sound, NEW c \in ToSet(calls') PROVE services[c.id] \notin want.services
    BY <1>1 DEF ExtrasGo, Pending, Sound
  <2>1. PICK k \in DOMAIN srv_dict \ want.services : c = DeleteServiceCall(srv_dict[k])
    BY <1>5
  <2>2. c.id = srv_dict[k]
    BY <2>1 DEF DeleteServiceCall
  <2> QED BY <1>7, <2>2
<1>9. ASSUME start.regular
      PROVE  /\ {OfferOf(e) : e \in endpoints} = want.offers /\ NoDouble
             /\ \A s \in DOMAIN services : services[s] \in want.services \/ DeleteServiceCall(s) \in ToSet(calls')
  <2>0. Sound
    BY <1>9 DEF Sound
  <2>1. /\ \A o \in want.offers : \E e \in endpoints : IsAt(e, o) /\ e.url = o.url
        /\ \A e \in endpoints : \E o \in want.offers : IsAt(e, o) /\ e.url = o.url
        /\ \A e, f \in endpoints :
             e.srv = f.srv /\ e.region = f.region /\ e.interface = f.interface => e = f
    <3>1. EndpointsCome /\ start.regular /\ phase = "endpoints"
      BY <1>1, <1>9 DEF Core
    <3>2. \A x : CreateCall(x) \notin Pending
      BY <1>4
    <3>3. \A o \in want.offers : \E e \in endpoints : IsAt(e, o) /\ e.url = o.url
      BY <1>6, <3>1, <3>2 DEF EndpointsCome
    <3>4. \A e \in endpoints : \E o \in want.offers : IsAt(e, o) /\ e.url = o.url
      BY <1>6, <3>1 DEF EndpointsCome
    <3>5. \A e, f \in endpoints :
             e.srv = f.srv /\ e.region = f.region /\ e.interface = f.interface => e = f
      BY <1>6, <3>1 DEF EndpointsCome
    <3> QED BY <3>3, <3>4, <3>5
  <2>2. want.offers \subseteq Offer
    BY <1>2, WantFacts DEF TypeOK
  <2>3. {OfferOf(e) : e \in endpoints} = want.offers
    <3>1. \A o \in want.offers : \E e \in endpoints : OfferOf(e) = o
      BY <2>1, <2>2, OfferFacts
    <3>2. \A e \in endpoints : OfferOf(e) \in want.offers
      BY <2>1, <2>2, OfferFacts
    <3> QED BY <3>1, <3>2
  <2>4. NoDouble
    BY <1>7, <2>0, <2>1 DEF NoDouble
  <2>5. ASSUME NEW s \in DOMAIN services, services[s] \notin want.services
        PROVE  DeleteServiceCall(s) \in ToSet(calls')
    BY <1>5, <1>7, <2>0, <2>5
  <2> QED BY <2>3, <2>4, <2>5
<1>10. EndpointsThere'
  BY <1>1, <1>9, Frame DEF EndpointsThere, Pending
<1>11. WantedThere' /\ RegionsCome'
  BY <1>1 DEF Core, WantedThere, RegionsCome, Late
<1>12. Indexed' /\ DoublesGo' /\ MissingCome' /\ UrlsFit' /\ CreatesOnce' /\ EndpointsCome'
  BY <1>1 DEF Indexed, DoublesGo, MissingCome, UrlsFit, CreatesOnce, EndpointsCome, Early
<1> QED BY <1>4, <1>8, <1>10, <1>11, <1>12 DEF Core

LEMMA EnterExtraRegionsKeeps == Core /\ EnterExtraRegions => Core'
<1> SUFFICES ASSUME Core, EnterExtraRegions PROVE Core'
  OBVIOUS
<1>1. /\ phase = "extra services" /\ phase' = "extra regions" /\ calls' \in ExtraRegionCalls
      /\ services' = services /\ endpoints' = endpoints /\ want' = want /\ regions' = regions /\ start' = start
  BY DEF EnterExtraRegions, Enter, catalog, listing, args
<1>2. TypeOK
  BY DEF Core
<1>3. calls' \in Seq(CallsIn("extra regions"))
  BY <1>1, <1>2, ExtraRegionCallsFacts
<1>4. /\ Pending = {}
      /\ TypeOK' /\ StartFacts' /\ RegionIsOne' /\ NoDoubleMade' /\ SyncReaches' /\ ServingStay'
  BY <1>3, EnterKeeps DEF EnterExtraRegions, Running
<1>5. RegionsCome'
  <2>1. /\ \A c \in ToSet(calls') : c.region \in DOMAIN regions \ DOMAIN want.regions
        /\ \A r \in DOMAIN regions \ DOMAIN want.regions : \E c \in ToSet(calls') : c.region = r
    BY <1>1, <1>2, ExtraRegionCallsFacts
  <2>2. start.regular => \A r \in DOMAIN want.regions : r \in DOMAIN regions /\ regions[r] = want.regions[r]
    BY <1>1 DEF Core, RegionsCome, Late
  <2> QED BY <1>1, <2>1, <2>2 DEF RegionsCome, Pending
<1>6. EndpointsThere'
  <2>1. start.regular => /\ {OfferOf(e) : e \in endpoints} = want.offers /\ NoDouble
                         /\ \A s \in DOMAIN services : services[s] \in want.services
    BY <1>1, <1>4 DEF Core, EndpointsThere, Late
  <2> QED BY <1>1, <2>1, Frame DEF EndpointsThere
<1>7. WantedThere'
  BY <1>1 DEF Core, WantedThere, Late
<1>8. Indexed' /\ DoublesGo' /\ MissingCome' /\ UrlsFit' /\ CreatesOnce' /\ EndpointsCome' /\ ExtrasGo'
  BY <1>1 DEF Indexed, DoublesGo, MissingCome, UrlsFit, CreatesOnce, EndpointsCome, ExtrasGo, Early
<1> QED BY <1>4, <1>5, <1>6, <1>7, <1>8 DEF Core

DeletedIn(P) == {c.id : c \in {d \in P : d.op = "delete endpoint"}}
UpdatesIn(P) == {d \in P : d.op = "update endpoint"}

\* The listing is the catalog when the endpoints are planned.
LEMMA ListingFacts ==
  ASSUME Core, phase = "regions", Pending = {}, Sound
  PROVE  /\ \A k : ListedOf(k) \in Seq(Endpoint) /\ ToSet(ListedOf(k)) = {e \in endpoints : services[e.srv] = k}
         /\ \A s, t \in DOMAIN services : services[s] = services[t] => s = t
         /\ ToSet(endps) = endpoints
         /\ \A e \in endpoints : e.srv \in DOMAIN services /\ seen[e.srv] = services[e.srv]
<1>1. /\ \A s \in DOMAIN services : srv_dict[services[s]] = s
      /\ \A s \in DOMAIN seen \cap DOMAIN services : seen[s] = services[s]
      /\ ToSet(endps) = endpoints
  BY DEF Core, Indexed, Early
<1>2. /\ endps \in Seq(Endpoint) /\ \A e \in ToSet(endps) : e.srv \in DOMAIN seen
      /\ \A e \in endpoints : e.srv \in DOMAIN services
  BY DEF Core, TypeOK, IsCatalog
<1>3. \A e \in endpoints : e.srv \in DOMAIN services /\ seen[e.srv] = services[e.srv]
  BY <1>1, <1>2
<1>4. ASSUME NEW k
      PROVE  ListedOf(k) \in Seq(Endpoint) /\ ToSet(ListedOf(k)) = {e \in endpoints : services[e.srv] = k}
  <2>1. ListedOf(k) \in Seq(Endpoint) /\ ToSet(ListedOf(k)) = {e \in ToSet(endps) : seen[e.srv] = k}
    BY <1>2, ListedOfFacts
  <2> QED BY <1>1, <1>3, <2>1
<1> QED BY <1>1, <1>3, <1>4

\* What is planned is for endpoints that are listed and offers that are not
\* there.
LEMMA PlanFacts ==
  ASSUME Core, phase = "regions", Pending = {}, Sound, NEW plan \in EndpointCalls
  PROVE  LET P == ToSet(plan) IN
         /\ \A c \in P \cap Creates : c.offer \in want.offers /\ \A e \in endpoints : ~ IsAt(e, c.offer)
         /\ Once(plan, Creates)
         /\ DeletedIn(P) \cup {c.id : c \in UpdatesIn(P)} \subseteq {e.id : e \in endpoints}
<1> DEFINE P == ToSet(plan)
<1>1. /\ \A k : ListedOf(k) \in Seq(Endpoint) /\ ToSet(ListedOf(k)) = {e \in endpoints : services[e.srv] = k}
  BY ListingFacts
<1>2. TypeOK /\ final \subseteq want.offers /\ want.offers \subseteq Offer
  BY WantFacts DEF Core, TypeOK
<1>3. CASE ~ NoClash
  <2>1. plan = <<KeyError>>
    BY <1>3 DEF EndpointCalls, NoClash
  <2>2. P = {KeyError} /\ DOMAIN plan = {1}
    BY <2>1, SingleFacts
  <2>3. KeyError.op = "KeyError"
    BY DEF KeyError
  <2>4. KeyError \notin Creates
    BY <2>3 DEF Creates
  <2>5. DeletedIn(P) = {} /\ UpdatesIn(P) = {}
    BY <2>2, <2>3 DEF DeletedIn, UpdatesIn
  <2>6. Once(plan, Creates)
    BY <2>2 DEF Once
  <2> QED BY <2>2, <2>4, <2>5, <2>6
<1>4. CASE NoClash
  <2>1. (\A x : x \in P <=> \E k \in KeysAtWork : IsCallFor(x, k)) /\ Once(plan, Creates)
    BY <1>2, <1>4, EndpointCallsFacts
  <2> HIDE DEF P
  <2>2. ASSUME NEW k, NEW o \in OffersOf(k), NEW x \in ToSet(OfferCall(ListedOf(k), o))
        PROVE  /\ o \in want.offers /\ o.key = k
               /\ \/ x = CreateCall(o) /\ \A e \in endpoints : ~ IsAt(e, o)
                  \/ \E e \in endpoints : x = UpdateCall(e.id, o.url)
    <3>1. o \in want.offers /\ o \in Offer /\ o.key = k
      BY <1>2 DEF OffersOf
    <3>2. CASE ~ HasCandIn(ListedOf(k), o)
      <4>1. x = CreateCall(o)
        BY <1>1, <2>2, <3>1, <3>2, OfferCallFacts, SingleFacts
      <4>2. \A e \in endpoints : ~ IsAt(e, o)
        BY <1>1, <3>1, <3>2 DEF HasCandIn, IsAt
      <4> QED BY <3>1, <4>1, <4>2
    <3>3. CASE HasCandIn(ListedOf(k), o) /\ ~ HasMatchIn(ListedOf(k), o)
      <4>1. Last(ListedOf(k)) \in ToSet(ListedOf(k)) /\ OfferCall(ListedOf(k), o) = <<UpdateCall(Last(ListedOf(k)).id, o.url)>>
        BY <1>1, <3>1, <3>3, OfferCallFacts
      <4>2. x = UpdateCall(Last(ListedOf(k)).id, o.url)
        BY <2>2, <4>1, SingleFacts
      <4>3. Last(ListedOf(k)) \in endpoints
        BY <1>1, <4>1
      <4> QED BY <3>1, <4>2, <4>3
    <3>4. CASE HasMatchIn(ListedOf(k), o)
      <4>1. OfferCall(ListedOf(k), o) = <<>>
        BY <1>1, <3>1, <3>4, OfferCallFacts
      <4> QED BY <2>2, <4>1, SingleFacts
    <3> QED BY <3>2, <3>3, <3>4
  <2>3. ASSUME NEW x \in P
        PROVE  \/ \E o \in want.offers : x = CreateCall(o) /\ \A e \in endpoints : ~ IsAt(e, o)
               \/ \E e \in endpoints : \E u : x = UpdateCall(e.id, u)
               \/ \E e \in endpoints : x = DeleteCall(e.id)
    <3>1. PICK k \in KeysAtWork : IsCallFor(x, k)
      BY <2>1
    <3>2. ASSUME NEW e \in ToSet(ListedOf(k)) PROVE e \in endpoints
      BY <1>1
    <3> QED BY <2>2, <3>1, <3>2 DEF IsCallFor
  <2>4. \A o : CreateCall(o).op = "create endpoint" /\ CreateCall(o).offer = o
    BY DEF CreateCall
  <2>5. \A i, u : UpdateCall(i, u).op = "update endpoint" /\ UpdateCall(i, u).id = i
    BY DEF UpdateCall
  <2>6. \A i : DeleteCall(i).op = "delete endpoint" /\ DeleteCall(i).id = i
    BY DEF DeleteCall
  <2>7. \A x \in Creates : x.op = "create endpoint"
    BY DEF Creates
  <2>8. ASSUME NEW c \in P \cap Creates PROVE c.offer \in want.offers /\ \A e \in endpoints : ~ IsAt(e, c.offer)
    <3>1. c \in P /\ c.op = "create endpoint"
      BY <2>7
    <3>2. ~ (\E e \in endpoints : \E u : c = UpdateCall(e.id, u)) /\ ~ (\E e \in endpoints : c = DeleteCall(e.id))
      BY <2>5, <2>6, <3>1
    <3>3. PICK o \in want.offers : c = CreateCall(o) /\ \A e \in endpoints : ~ IsAt(e, o)
      BY <2>3, <3>1, <3>2
    <3>4. c.offer = o
      BY <2>4, <3>3
    <3> QED BY <3>3, <3>4
  <2>9. ASSUME NEW c \in P, c.op = "delete endpoint" \/ c.op = "update endpoint" PROVE c.id \in {e.id : e \in endpoints}
    <3>1. ~ (\E o \in want.offers : c = CreateCall(o))
      BY <2>4, <2>9
    <3>2. PICK e \in endpoints : (\E u : c = UpdateCall(e.id, u)) \/ c = DeleteCall(e.id)
      BY <2>3, <3>1
    <3>3. c.id = e.id
      BY <2>5, <2>6, <3>2
    <3> QED BY <3>3
  <2> QED BY <2>1, <2>8, <2>9 DEF P, DeletedIn, UpdatesIn
<1> QED BY <1>3, <1>4

\* On a regular catalog the plan is, service by service: an offer without an
\* endpoint is created, one with an endpoint that differs updates the only
\* endpoint there is, and what does not stay for an offer is deleted.
LEMMA RegularPlanFacts ==
  ASSUME Core, phase = "regions", Pending = {}, start.regular, NEW plan \in EndpointCalls
  PROVE  LET P == ToSet(plan)
             L(o) == ListedOf(o.key)
         IN
         /\ \A o \in want.offers : ~ HasCandIn(L(o), o) => CreateCall(o) \in P
         /\ \A c : c \in UpdatesIn(P) <=> \E o \in want.offers :
              /\ HasCandIn(L(o), o) /\ ~ HasMatchIn(L(o), o)
              /\ c = UpdateCall(Last(L(o)).id, o.url)
         /\ \A e \in endpoints : e.id \in DeletedIn(P) <=> e.id \notin Staying(services[e.srv])
         /\ \A o \in want.offers : HasCandIn(L(o), o) /\ ~ HasMatchIn(L(o), o) =>
              /\ \A e, f \in ToSet(L(o)) : e = f
              /\ start.repeatable => IsAlone(want, o)
         /\ \A k : OffersOf(k) = {o \in want.offers : o.key = k}
<1> DEFINE P == ToSet(plan)
           L(o) == ListedOf(o.key)
<1>0. Sound /\ final = want.offers /\ InOneRegion(want) /\ OneDesc(want)
  BY DEF Core, StartFacts, RegionIsOne, Running, Sound
<1>1. /\ \A k : ListedOf(k) \in Seq(Endpoint) /\ ToSet(ListedOf(k)) = {e \in endpoints : services[e.srv] = k}
      /\ \A s, t \in DOMAIN services : services[s] = services[t] => s = t
      /\ ToSet(endps) = endpoints
      /\ \A e \in endpoints : e.srv \in DOMAIN services /\ seen[e.srv] = services[e.srv]
  BY <1>0, ListingFacts
<1>2. /\ TypeOK /\ want.offers \subseteq Offer /\ \A o \in want.offers : o.key \in want.services
      /\ \A e, f \in endpoints : e.id = f.id => e = f
  BY WantFacts DEF Core, TypeOK, IsCatalog
<1>3. NoClash
  BY <1>0, <1>1 DEF NoClash, InOneRegion
<1>4. \A x : x \in P <=> \E k \in KeysAtWork : IsCallFor(x, k)
  BY <1>2, <1>3, EndpointCallsFacts
<1> HIDE DEF P
<1>5. /\ \A o \in want.offers : o.key \in KeysAtWork
      /\ \A e \in endpoints : services[e.srv] \in KeysAtWork
  BY <1>1, <1>2 DEF KeysAtWork
<1>6. ASSUME NEW k PROVE OffersOf(k) = {o \in want.offers : o.key = k}
  <2>1. ASSUME NEW o \in want.offers, o.key = k, ListedOf(k) # <<>> PROVE o.region = Head(ListedOf(k)).region
    <3>1. Head(ListedOf(k)) \in ToSet(ListedOf(k))
      BY <1>1, <2>1, TailFacts
    <3>2. Head(ListedOf(k)) \in endpoints /\ services[Head(ListedOf(k)).srv] = k
      BY <1>1, <3>1
    <3> QED BY <1>0, <2>1, <3>2 DEF InOneRegion
  <2> QED BY <1>0, <2>1 DEF OffersOf
<1>7. ASSUME NEW o \in want.offers, HasCandIn(L(o), o), ~ HasMatchIn(L(o), o)
      PROVE  /\ \A e, f \in ToSet(L(o)) : e = f
             /\ start.repeatable => IsAlone(want, o)
  <2>1. PICK g \in ToSet(L(o)) : g.interface = o.interface
    BY <1>7 DEF HasCandIn
  <2>2. g \in endpoints /\ services[g.srv] = o.key /\ g.srv \in DOMAIN services
    BY <1>1, <2>1
  <2>3. \A e : e \in EndpointsOf(g.srv) <=> e \in ToSet(L(o))
    BY <1>1, <2>2 DEF EndpointsOf
  <2>4. GetsUrl(g.srv, o)
    BY <1>7, <2>1, <2>2, <2>3 DEF GetsUrl, MayServe, HasCands, HasMatch, HasCandIn, HasMatchIn
  <2>5. UrlOk(g.srv, o)
    BY <2>2, <2>4 DEF Core, UrlsFit, Early
  <2> QED BY <2>3, <2>5 DEF UrlOk, HasOne
<1>8. ASSUME NEW o \in want.offers
      PROVE  /\ o \in OffersOf(o.key) /\ o \in Offer
             /\ \A x : x \in ToSet(OfferCall(L(o), o)) => x \in P
  <2>1. o \in OffersOf(o.key) /\ o.key \in KeysAtWork
    BY <1>5, <1>6
  <2>2. \A x \in ToSet(OfferCall(L(o), o)) : IsCallFor(x, o.key)
    BY <2>1 DEF IsCallFor
  <2> QED BY <1>2, <1>4, <2>1, <2>2
<1>9. ASSUME NEW o \in want.offers, ~ HasCandIn(L(o), o) PROVE CreateCall(o) \in P
  <2>1. OfferCall(L(o), o) = <<CreateCall(o)>>
    BY <1>1, <1>8, <1>9, OfferCallFacts
  <2> QED BY <1>8, <2>1, SingleFacts
<1>10. ASSUME NEW o \in want.offers, HasCandIn(L(o), o), ~ HasMatchIn(L(o), o)
       PROVE  UpdateCall(Last(L(o)).id, o.url) \in UpdatesIn(P)
  <2>1. OfferCall(L(o), o) = <<UpdateCall(Last(L(o)).id, o.url)>>
    BY <1>1, <1>8, <1>10, OfferCallFacts
  <2>2. UpdateCall(Last(L(o)).id, o.url).op = "update endpoint"
    BY DEF UpdateCall
  <2> QED BY <1>8, <2>1, <2>2, SingleFacts DEF UpdatesIn
<1>11. ASSUME NEW x \in P
       PROVE  \/ \E o \in want.offers : x = CreateCall(o)
              \/ \E o \in want.offers : /\ HasCandIn(L(o), o) /\ ~ HasMatchIn(L(o), o)
                                        /\ x = UpdateCall(Last(L(o)).id, o.url)
              \/ \E e \in endpoints : x = DeleteCall(e.id) /\ e.id \notin Staying(services[e.srv])
  <2>1. PICK k \in KeysAtWork : IsCallFor(x, k)
    BY <1>4
  <2>2. CASE \E o \in OffersOf(k) : x \in ToSet(OfferCall(ListedOf(k), o))
    <3>1. PICK o \in want.offers : o.key = k /\ x \in ToSet(OfferCall(L(o), o))
      BY <1>6, <2>2
    <3>2. /\ L(o) \in Seq(Endpoint) /\ o \in Offer
      BY <1>1, <1>2
    <3>3. CASE ~ HasCandIn(L(o), o)
      BY <3>1, <3>2, <3>3, OfferCallFacts, SingleFacts
    <3>4. CASE HasCandIn(L(o), o) /\ ~ HasMatchIn(L(o), o)
      <4>1. OfferCall(L(o), o) = <<UpdateCall(Last(L(o)).id, o.url)>>
        BY <3>2, <3>4, OfferCallFacts
      <4>2. x = UpdateCall(Last(L(o)).id, o.url)
        BY <3>1, <4>1, SingleFacts
      <4> QED BY <3>4, <4>2
    <3>5. CASE HasMatchIn(L(o), o)
      <4>1. OfferCall(L(o), o) = <<>>
        BY <3>2, <3>5, OfferCallFacts
      <4> QED BY <3>1, <4>1, SingleFacts
    <3> QED BY <3>3, <3>4, <3>5
  <2>3. CASE \E e \in ToSet(ListedOf(k)) : e.id \notin Staying(k) /\ x = DeleteCall(e.id)
    BY <1>1, <2>3
  <2> QED BY <2>1, <2>2, <2>3 DEF IsCallFor
<1>12. \A o : CreateCall(o).op = "create endpoint"
  BY DEF CreateCall
<1>13. \A i, u : UpdateCall(i, u).op = "update endpoint" /\ UpdateCall(i, u).id = i
  BY DEF UpdateCall
<1>14. \A i : DeleteCall(i).op = "delete endpoint" /\ DeleteCall(i).id = i
  BY DEF DeleteCall
<1>15. ASSUME NEW c \in UpdatesIn(P)
       PROVE  \E o \in want.offers : /\ HasCandIn(L(o), o) /\ ~ HasMatchIn(L(o), o)
                                     /\ c = UpdateCall(Last(L(o)).id, o.url)
  <2>1. c \in P /\ c.op = "update endpoint"
    BY DEF UpdatesIn
  <2> QED BY <1>11, <1>12, <1>14, <2>1
<1>16. ASSUME NEW e \in endpoints
       PROVE  e.id \in DeletedIn(P) <=> e.id \notin Staying(services[e.srv])
  <2>1. ASSUME e.id \in DeletedIn(P) PROVE e.id \notin Staying(services[e.srv])
    <3>1. PICK c \in P : c.op = "delete endpoint" /\ c.id = e.id
      BY <2>1 DEF DeletedIn
    <3>2. PICK f \in endpoints : c = DeleteCall(f.id) /\ f.id \notin Staying(services[f.srv])
      <4>1. ~ \E o \in want.offers : c = CreateCall(o)
        BY <1>12, <3>1
      <4>2. ~ \E i, u : c = UpdateCall(i, u)
        BY <1>13, <3>1
      <4> QED BY <1>11, <3>1, <4>1, <4>2
    <3>3. f = e
      BY <1>2, <1>14, <3>1, <3>2
    <3> QED BY <3>2, <3>3
  <2>2. ASSUME e.id \notin Staying(services[e.srv]) PROVE e.id \in DeletedIn(P)
    <3>1. e \in ToSet(ListedOf(services[e.srv]))
      BY <1>1
    <3>2. IsCallFor(DeleteCall(e.id), services[e.srv])
      BY <2>2, <3>1 DEF IsCallFor
    <3>3. DeleteCall(e.id) \in P
      BY <1>4, <1>5, <3>2
    <3> QED BY <1>14, <3>3 DEF DeletedIn
  <2> QED BY <2>1, <2>2
<1> QED BY <1>6, <1>7, <1>9, <1>10, <1>15, <1>16 DEF P

\* What stays for an offer is an endpoint of its service and interface, and
\* is left alone when it is as wanted.
LEMMA StayingFacts ==
  ASSUME Core, phase = "regions", Pending = {}, start.regular, NEW plan \in EndpointCalls
  PROVE  LET P == ToSet(plan)
             L(o) == ListedOf(o.key)
         IN
         /\ \A o \in want.offers : HasCandIn(L(o), o) =>
              \E e \in endpoints : /\ IsAt(e, o) /\ Stays(L(o), o) = {e.id} /\ e.id \notin DeletedIn(P)
                                   /\ HasMatchIn(L(o), o) => e.url = o.url
                                   /\ ~ HasMatchIn(L(o), o) => UpdateCall(e.id, o.url) \in UpdatesIn(P)
         /\ \A c \in UpdatesIn(P) : \E o \in want.offers, e \in endpoints :
              /\ IsAt(e, o) /\ ~ HasMatchIn(L(o), o) /\ c = UpdateCall(e.id, o.url)
              /\ \A f \in endpoints : services[f.srv] = o.key => f = e
              /\ start.repeatable => IsAlone(want, o)
         /\ \A e \in endpoints : e.id \in DeletedIn(P) \/ \E o \in want.offers :
              IsAt(e, o) /\ e.id \in Stays(L(o), o)
<1> DEFINE P == ToSet(plan)
           L(o) == ListedOf(o.key)
<1>1. /\ \A k : ListedOf(k) \in Seq(Endpoint) /\ ToSet(ListedOf(k)) = {e \in endpoints : services[e.srv] = k}
  BY ListingFacts DEF Sound
<1>2. /\ \A o \in want.offers : ~ HasCandIn(L(o), o) => CreateCall(o) \in P
      /\ \A c : c \in UpdatesIn(P) <=> \E o \in want.offers :
           /\ HasCandIn(L(o), o) /\ ~ HasMatchIn(L(o), o)
           /\ c = UpdateCall(Last(L(o)).id, o.url)
      /\ \A e \in endpoints : e.id \in DeletedIn(P) <=> e.id \notin Staying(services[e.srv])
      /\ \A o \in want.offers : HasCandIn(L(o), o) /\ ~ HasMatchIn(L(o), o) =>
           /\ \A e, f \in ToSet(L(o)) : e = f
           /\ start.repeatable => IsAlone(want, o)
      /\ \A k : OffersOf(k) = {o \in want.offers : o.key = k}
  BY RegularPlanFacts
<1> HIDE DEF P
<1>3. InOneRegion(want) /\ want.offers \subseteq Offer
  BY WantFacts DEF Core, RegionIsOne, Running, TypeOK
<1>4. \A o \in want.offers : \A e \in ToSet(L(o)) : e \in endpoints /\ services[e.srv] = o.key /\ e.region = o.region
  BY <1>1, <1>3 DEF InOneRegion
<1>5. ASSUME NEW o \in want.offers, NEW e \in endpoints, IsAt(e, o), Stays(L(o), o) = {e.id}
      PROVE  e.id \notin DeletedIn(P)
  <2>1. o \in OffersOf(o.key) /\ services[e.srv] = o.key
    BY <1>2, <1>5 DEF IsAt
  <2>2. e.id \in Staying(o.key)
    BY <1>5, <2>1 DEF Staying
  <2> QED BY <1>2, <2>1, <2>2
<1>6. ASSUME NEW o \in want.offers, HasCandIn(L(o), o)
      PROVE  \E e \in endpoints : /\ IsAt(e, o) /\ Stays(L(o), o) = {e.id} /\ e.id \notin DeletedIn(P)
                                  /\ HasMatchIn(L(o), o) => e.url = o.url
                                  /\ ~ HasMatchIn(L(o), o) => UpdateCall(e.id, o.url) \in UpdatesIn(P)
  <2>1. L(o) \in Seq(Endpoint) /\ o \in Offer
    BY <1>1, <1>3
  <2>2. CASE HasMatchIn(L(o), o)
    <3>1. PICK e \in ToSet(L(o)) : e.interface = o.interface /\ e.url = o.url /\ Stays(L(o), o) = {e.id}
      BY <2>1, <2>2, OfferCallFacts
    <3>2. IsAt(e, o) /\ e \in endpoints
      BY <1>4, <3>1 DEF IsAt
    <3> QED BY <1>5, <2>2, <3>1, <3>2
  <2>3. CASE ~ HasMatchIn(L(o), o)
    <3>1. Last(L(o)) \in ToSet(L(o)) /\ \E e \in ToSet(L(o)) : e.interface = o.interface /\ Stays(L(o), o) = {e.id}
      BY <1>6, <2>1, <2>3, OfferCallFacts
    <3>2. PICK e \in ToSet(L(o)) : e.interface = o.interface /\ Stays(L(o), o) = {e.id}
      BY <3>1
    <3>3. Last(L(o)) = e
      BY <1>2, <1>6, <2>3, <3>1
    <3>4. UpdateCall(e.id, o.url) \in UpdatesIn(P)
      BY <1>2, <1>6, <2>3, <3>3
    <3>5. IsAt(e, o) /\ e \in endpoints
      BY <1>4, <3>2 DEF IsAt
    <3> QED BY <1>5, <2>3, <3>2, <3>4, <3>5
  <2> QED BY <2>2, <2>3
<1>7. ASSUME NEW c \in UpdatesIn(P)
      PROVE  \E o \in want.offers, e \in endpoints :
               /\ IsAt(e, o) /\ ~ HasMatchIn(L(o), o) /\ c = UpdateCall(e.id, o.url)
               /\ \A f \in endpoints : services[f.srv] = o.key => f = e
               /\ start.repeatable => IsAlone(want, o)
  <2>1. PICK o \in want.offers : /\ HasCandIn(L(o), o) /\ ~ HasMatchIn(L(o), o)
                                 /\ c = UpdateCall(Last(L(o)).id, o.url)
    BY <1>2
  <2>2. PICK e \in ToSet(L(o)) : e.interface = o.interface
    BY <2>1 DEF HasCandIn
  <2>3. L(o) \in Seq(Endpoint) /\ o \in Offer
    BY <1>1, <1>3
  <2>4. Last(L(o)) \in ToSet(L(o))
    BY <2>1, <2>3, OfferCallFacts
  <2>5. (\A f, g \in ToSet(L(o)) : f = g) /\ (start.repeatable => IsAlone(want, o))
    BY <1>2, <2>1
  <2>6. Last(L(o)) = e
    BY <2>4, <2>5
  <2>7. IsAt(e, o) /\ e \in endpoints
    BY <1>4, <2>2 DEF IsAt
  <2>8. \A f \in endpoints : services[f.srv] = o.key => f = e
    BY <1>1, <2>5
  <2>9. c = UpdateCall(e.id, o.url)
    BY <2>1, <2>6
  <2> QED BY <2>1, <2>5, <2>7, <2>8, <2>9
<1>8. ASSUME NEW e \in endpoints, e.id \notin DeletedIn(P)
      PROVE  \E o \in want.offers : IsAt(e, o) /\ e.id \in Stays(L(o), o)
  <2>1. PICK o \in OffersOf(services[e.srv]) : e.id \in Stays(ListedOf(services[e.srv]), o)
    BY <1>2, <1>8 DEF Staying
  <2>2. o \in want.offers /\ o.key = services[e.srv] /\ e.id \in Stays(L(o), o)
    BY <1>2, <2>1
  <2>3. HasCandIn(L(o), o)
    <3>1. L(o) \in Seq(Endpoint) /\ o \in Offer
      BY <1>1, <1>3, <2>2
    <3>2. ~ HasCandIn(L(o), o) => Stays(L(o), o) = {}
      BY <3>1, OfferCallFacts
    <3> QED BY <2>2, <3>2
  <2>4. PICK f \in endpoints : IsAt(f, o) /\ Stays(L(o), o) = {f.id}
    BY <1>6, <2>2, <2>3
  <2>5. f = e
    <3>1. f.id = e.id
      BY <2>2, <2>4
    <3> QED BY <3>1 DEF Core, TypeOK, IsCatalog
  <2> QED BY <2>2, <2>4, <2>5
<1> QED BY <1>6, <1>7, <1>8 DEF P

LEMMA EnterEndpointsKeeps == Core /\ EnterEndpoints => Core'
<1> SUFFICES ASSUME Core, EnterEndpoints PROVE Core'
  OBVIOUS
<1>1. /\ phase = "regions" /\ phase' = "endpoints" /\ calls' \in EndpointCalls
      /\ services' = services /\ endpoints' = endpoints /\ want' = want /\ regions' = regions
      /\ endps' = endps /\ start' = start
  BY DEF EnterEndpoints, Enter, catalog, listing, args
<1>2. TypeOK
  BY DEF Core
<1>3. calls' \in Seq(CallsIn("endpoints"))
  BY <1>1, <1>2, EndpointCallsFacts
<1>4. /\ Pending = {}
      /\ TypeOK' /\ StartFacts' /\ RegionIsOne' /\ NoDoubleMade' /\ SyncReaches'
      /\ Indexed' /\ UrlsFit'
  BY <1>3, EnterKeeps DEF EnterEndpoints, Running, Early
<1>5. WantedThere' /\ RegionsCome'
  BY <1>1, <1>4 DEF Core, WantedThere, RegionsCome
<1> DEFINE P == ToSet(calls')
           L(o) == ListedOf(o.key)
           D == DeletedIn(P)
           U == UpdatesIn(P)
<1>6. Pending' = P /\ Deleted' = D /\ Updates' = U /\ Updated' = {c.id : c \in U}
  BY DEF Pending, Deleted, Updates, Updated, DeletedIn, UpdatesIn
<1>7. CreatesOnce'
  <2> SUFFICES ASSUME Sound PROVE CreatesOnce'
    BY <1>1 DEF CreatesOnce, Sound
  <2>1. /\ \A c \in P \cap Creates : c.offer \in want.offers /\ \A e \in endpoints : ~ IsAt(e, c.offer)
        /\ Once(calls', Creates)
        /\ D \cup {c.id : c \in U} \subseteq {e.id : e \in endpoints}
    BY <1>1, <1>4, PlanFacts
  <2>2. ToSet(endps) = endpoints
    BY <1>1, ListingFacts, <1>4
  <2> HIDE DEF P, D, U
  <2> QED BY <1>1, <1>6, <2>1, <2>2, Frame DEF CreatesOnce
<1>8. ASSUME start.regular
      PROVE  /\ \A o \in want.offers : ~ HasCandIn(L(o), o) => CreateCall(o) \in P
             /\ \A o \in want.offers : HasCandIn(L(o), o) =>
                  \E e \in endpoints : /\ IsAt(e, o) /\ Stays(L(o), o) = {e.id} /\ e.id \notin D
                                       /\ HasMatchIn(L(o), o) => e.url = o.url
                                       /\ ~ HasMatchIn(L(o), o) => UpdateCall(e.id, o.url) \in U
             /\ \A c \in U : \E o \in want.offers, e \in endpoints :
                  /\ IsAt(e, o) /\ ~ HasMatchIn(L(o), o) /\ c = UpdateCall(e.id, o.url)
                  /\ \A f \in endpoints : services[f.srv] = o.key => f = e
                  /\ start.repeatable => IsAlone(want, o)
             /\ \A e \in endpoints : e.id \in D \/ \E o \in want.offers :
                  IsAt(e, o) /\ e.id \in Stays(L(o), o)
  <2>1. \A o \in want.offers : ~ HasCandIn(L(o), o) => CreateCall(o) \in P
    BY <1>1, <1>4, <1>8, RegularPlanFacts
  <2> QED BY <1>1, <1>4, <1>8, <2>1, StayingFacts
<1> HIDE DEF P, D, U, L
<1>9. /\ \A o, p \in want.offers : o.key = p.key /\ o.region = p.region /\ o.interface = p.interface => o = p
      /\ \A e, f \in endpoints : e.id = f.id => e = f
      /\ want.offers \subseteq Offer
  BY <1>2, WantFacts DEF TypeOK, IsCatalog
<1>10. ASSUME NEW e, NEW o \in want.offers, NEW p \in want.offers, IsAt(e, o), IsAt(e, p) PROVE o = p
  BY <1>9, <1>10 DEF IsAt
<1>11. \A i, u : UpdateCall(i, u).id = i /\ UpdateCall(i, u).url = u
  BY DEF UpdateCall
\* An endpoint that is as wanted is not updated.
<1>12. ASSUME start.regular, NEW e \in endpoints, NEW o \in want.offers, IsAt(e, o), HasMatchIn(L(o), o)
       PROVE  e.id \notin {c.id : c \in U}
  <2> SUFFICES ASSUME NEW c \in U, c.id = e.id PROVE FALSE
    OBVIOUS
  <2>1. PICK p \in want.offers, f \in endpoints : IsAt(f, p) /\ ~ HasMatchIn(L(p), p) /\ c = UpdateCall(f.id, p.url)
    BY <1>8, <1>12
  <2>2. f = e
    BY <1>9, <1>11, <2>1
  <2> QED BY <1>10, <1>12, <2>1, <2>2
<1>13. ASSUME start.regular PROVE EndpointsCome'
  <2>1. ASSUME NEW o \in want.offers
        PROVE  \/ \E e \in endpoints : IsAt(e, o) /\ e.url = o.url /\ e.id \notin D \cup {c.id : c \in U}
               \/ CreateCall(o) \in P
               \/ \E e \in endpoints : IsAt(e, o) /\ e.id \notin D /\ \E c \in U : c.id = e.id /\ c.url = o.url
    <3>1. CASE ~ HasCandIn(L(o), o)
      BY <1>8, <1>13, <3>1
    <3>2. CASE HasCandIn(L(o), o)
      <4>1. PICK e \in endpoints : /\ IsAt(e, o) /\ e.id \notin D
                                   /\ HasMatchIn(L(o), o) => e.url = o.url
                                   /\ ~ HasMatchIn(L(o), o) => UpdateCall(e.id, o.url) \in U
        BY <1>8, <1>13, <3>2
      <4>2. CASE HasMatchIn(L(o), o)
        BY <1>12, <1>13, <4>1, <4>2
      <4>3. CASE ~ HasMatchIn(L(o), o)
        BY <1>11, <4>1, <4>3
      <4> QED BY <4>2, <4>3
    <3> QED BY <3>1, <3>2
  <2>2. ASSUME NEW e \in endpoints, e.id \notin D
        PROVE  \E o \in want.offers : /\ IsAt(e, o) /\ Stays(L(o), o) = {e.id}
                                      /\ HasMatchIn(L(o), o) => e.url = o.url
                                      /\ ~ HasMatchIn(L(o), o) => UpdateCall(e.id, o.url) \in U
    <3>1. PICK o \in want.offers : IsAt(e, o) /\ e.id \in Stays(L(o), o)
      BY <1>8, <1>13, <2>2
    <3>2. HasCandIn(L(o), o)
      <4>1. ListedOf(o.key) \in Seq(Endpoint) /\ o \in Offer
        BY <1>1, <1>4, <1>9, <1>13, ListingFacts DEF Sound
      <4>2. ~ HasCandIn(ListedOf(o.key), o) => Stays(ListedOf(o.key), o) = {}
        BY <4>1, OfferCallFacts
      <4> QED BY <3>1, <4>2 DEF L
    <3>3. PICK f \in endpoints : /\ Stays(L(o), o) = {f.id}
                                 /\ HasMatchIn(L(o), o) => f.url = o.url
                                 /\ ~ HasMatchIn(L(o), o) => UpdateCall(f.id, o.url) \in U
      BY <1>8, <1>13, <3>2
    <3>4. f = e
      <4>1. f.id = e.id
        BY <3>1, <3>3
      <4> QED BY <1>9, <4>1
    <3> QED BY <3>1, <3>3, <3>4
  <2>3. ASSUME NEW e \in endpoints
        PROVE  \/ e.id \in D
               \/ \E o \in want.offers : IsAt(e, o) /\ e.url = o.url /\ e.id \notin {c.id : c \in U}
               \/ \E o \in want.offers : IsAt(e, o) /\ \E c \in U : c.id = e.id /\ c.url = o.url
    <3> SUFFICES ASSUME e.id \notin D
                 PROVE  \/ \E o \in want.offers : IsAt(e, o) /\ e.url = o.url /\ e.id \notin {c.id : c \in U}
                        \/ \E o \in want.offers : IsAt(e, o) /\ \E c \in U : c.id = e.id /\ c.url = o.url
      OBVIOUS
    <3>1. PICK o \in want.offers : /\ IsAt(e, o)
                                   /\ HasMatchIn(L(o), o) => e.url = o.url
                                   /\ ~ HasMatchIn(L(o), o) => UpdateCall(e.id, o.url) \in U
      BY <2>2
    <3>2. CASE HasMatchIn(L(o), o)
      <4>1. e.url = o.url /\ e.id \notin {c.id : c \in U}
        BY <1>12, <1>13, <3>1, <3>2
      <4> QED BY <3>1, <4>1
    <3>3. CASE ~ HasMatchIn(L(o), o)
      <4>1. UpdateCall(e.id, o.url) \in U /\ UpdateCall(e.id, o.url).id = e.id /\ UpdateCall(e.id, o.url).url = o.url
        BY <1>11, <3>1, <3>3
      <4> QED BY <3>1, <4>1
    <3> QED BY <3>2, <3>3
  <2>4. ASSUME NEW e \in endpoints, NEW f \in endpoints, e.srv = f.srv, e.region = f.region, e.interface = f.interface,
               e.id \notin D, f.id \notin D
        PROVE  e = f
    <3>1. PICK o \in want.offers : IsAt(e, o) /\ Stays(L(o), o) = {e.id}
      BY <2>2, <2>4
    <3>2. PICK p \in want.offers : IsAt(f, p) /\ Stays(L(p), p) = {f.id}
      BY <2>2, <2>4
    <3>3. o.key = p.key /\ o.region = p.region /\ o.interface = p.interface
      BY <2>4, <3>1, <3>2 DEF IsAt
    <3>4. o = p
      BY <1>9, <3>3
    <3>5. e.id = f.id
      BY <3>1, <3>2, <3>4
    <3> QED BY <1>9, <3>5
  <2>5. ASSUME NEW c \in U, NEW d \in U, c.id = d.id PROVE c = d
    <3>1. PICK o \in want.offers, e \in endpoints : IsAt(e, o) /\ c = UpdateCall(e.id, o.url)
      BY <1>8, <1>13
    <3>2. PICK p \in want.offers, f \in endpoints : IsAt(f, p) /\ d = UpdateCall(f.id, p.url)
      BY <1>8, <1>13
    <3>3. e = f
      BY <1>9, <1>11, <2>5, <3>1, <3>2
    <3>4. o = p
      BY <1>10, <3>1, <3>2, <3>3
    <3> QED BY <3>1, <3>2, <3>3, <3>4
  <2>6. ASSUME start.repeatable, NEW e \in endpoints, NEW o \in want.offers,
               e.id \in {c.id : c \in U}, services[e.srv] = o.key
        PROVE  IsAt(e, o) /\ HasOne(e.srv) /\ IsAlone(want, o)
    <3>1. PICK c \in U : c.id = e.id
      BY <2>6
    <3>2. PICK p \in want.offers, f \in endpoints :
            /\ IsAt(f, p) /\ c = UpdateCall(f.id, p.url)
            /\ \A g \in endpoints : services[g.srv] = p.key => g = f
            /\ start.repeatable => IsAlone(want, p)
      BY <1>8, <1>13
    <3>3. f = e
      BY <1>9, <1>11, <3>1, <3>2
    <3>4. p.key = o.key /\ IsAlone(want, p)
      BY <2>6, <3>2, <3>3 DEF IsAt
    <3>5. o = p
      BY <3>4 DEF IsAlone
    <3>6. HasOne(e.srv)
      BY <3>2, <3>3, <3>4, <2>6 DEF HasOne, EndpointsOf
    <3> QED BY <3>2, <3>3, <3>4, <3>5, <3>6
  <2>7. /\ \A o \in want.offers :
             \/ \E e \in endpoints : IsAt(e, o) /\ e.url = o.url /\ e.id \notin D \cup {c.id : c \in U}
             \/ CreateCall(o) \in P
             \/ \E e \in endpoints : IsAt(e, o) /\ e.id \notin D /\ \E c \in U : c.id = e.id /\ c.url = o.url
        /\ \A e \in endpoints :
             \/ e.id \in D
             \/ \E o \in want.offers : IsAt(e, o) /\ e.url = o.url /\ e.id \notin {c.id : c \in U}
             \/ \E o \in want.offers : IsAt(e, o) /\ \E c \in U : c.id = e.id /\ c.url = o.url
        /\ \A e, f \in endpoints :
             e.srv = f.srv /\ e.region = f.region /\ e.interface = f.interface
               => e = f \/ e.id \in D \/ f.id \in D
        /\ \A c, d \in U : c.id = d.id => c = d
        /\ start.repeatable =>
             \A e \in endpoints : \A o \in want.offers :
               e.id \in {c.id : c \in U} /\ services[e.srv] = o.key
                 => IsAt(e, o) /\ HasOne(e.srv) /\ IsAlone(want, o)
    BY <2>1, <2>3, <2>4, <2>5, <2>6
  <2>8. \A o : IsAlone(want, o)' <=> IsAlone(want, o)
    BY <1>1 DEF IsAlone
  <2> QED BY <1>1, <1>6, <2>7, <2>8, Frame DEF EndpointsCome
<1>14. ServingStay'
  <2> SUFFICES ASSUME start.regular, start.unique PROVE ServingStay'
    BY <1>1 DEF ServingStay
  <2>1. start.serving \subseteq endpoints /\ \A e \in start.serving : OfferOf(e) \in want.offers
    BY <1>1 DEF Core, ServingStay, Running
  <2>2. NoDouble
    BY DEF Core, NoDoubleMade
  <2>3. ASSUME NEW e \in start.serving PROVE e.id \notin D \cup {c.id : c \in U}
    <3>1. PICK o \in want.offers : o = OfferOf(e) /\ e \in endpoints
      BY <2>1
    <3>2. IsAt(e, o) /\ e.url = o.url
      BY <3>1 DEF IsAt, OfferOf
    <3>3. HasMatchIn(L(o), o) /\ HasCandIn(L(o), o)
      <4>1. ToSet(ListedOf(o.key)) = {f \in endpoints : services[f.srv] = o.key}
        BY <1>1, <1>4, ListingFacts DEF Sound
      <4> QED BY <3>1, <3>2, <4>1 DEF L, IsAt, HasMatchIn, HasCandIn
    <3>4. PICK f \in endpoints : IsAt(f, o) /\ f.id \notin D
      BY <1>8, <3>3
    <3>5. f = e
      <4>1. e.srv \in DOMAIN services /\ f.srv \in DOMAIN services
        BY <1>2, <3>1 DEF TypeOK, IsCatalog
      <4> QED BY <2>2, <3>1, <3>2, <3>4, <4>1 DEF IsAt, NoDouble
    <3>6. e.id \notin {c.id : c \in U}
      BY <1>12, <3>1, <3>2, <3>3
    <3> QED BY <3>4, <3>5, <3>6
  <2>4. \A e \in start.serving : OfferOf(e)' \in want.offers
    BY <1>1, <2>1, Frame
  <2> QED BY <1>1, <1>6, <2>1, <2>3, <2>4 DEF ServingStay
<1>15. DoublesGo' /\ MissingCome' /\ EndpointsThere' /\ ExtrasGo'
  BY <1>1 DEF DoublesGo, MissingCome, EndpointsThere, ExtrasGo, Late
<1>16. EndpointsCome'
  BY <1>1, <1>13 DEF EndpointsCome
<1> QED BY <1>4, <1>5, <1>7, <1>14, <1>15, <1>16 DEF Core

-----------------------------------------------------------------------------
(* The calls for services and regions.                                     *)

\* A call belongs to the part of the sync that runs.
LEMMA OwnCalls ==
  ASSUME NEW p \in NotRunning \cup Running, NEW c \in CallsIn(p)
  PROVE  /\ c.op \in {"create service", "update service"} => p = "services" /\ c.key \in Key
         /\ c.op = "delete service" =>
              p \in {"double", "extra services"} /\ c.id \in ServiceId /\ c = DeleteServiceCall(c.id)
         /\ c.op \in {"create region", "update region"} => p = "regions" /\ c.region \in Region
         /\ c.op = "delete region" => p = "extra regions" /\ c.region \in Region
         /\ c.op = "create endpoint" =>
              p = "endpoints" /\ c.offer \in Offer /\ c \in Creates /\ c = CreateCall(c.offer)
         /\ c.op = "update endpoint" =>
              p = "endpoints" /\ c.id \in 1 .. MaxEndpoints /\ c.url \in Url /\ c = UpdateCall(c.id, c.url)
         /\ c.op = "delete endpoint" => p \in {"double", "endpoints"} /\ c = DeleteCall(c.id)
<1>1. KeyError.op = "KeyError"
  BY DEF KeyError
<1>2. CASE p = "double"
  <2>1. \/ c \in [op : {"delete service"}, id : ServiceId]
        \/ c \in [op : {"delete endpoint"}, id : 1 .. MaxEndpoints]
        \/ c = KeyError
    BY <1>2 DEF CallsIn
  <2>2. CASE c \in [op : {"delete service"}, id : ServiceId]
    BY <1>2, <2>2 DEF DeleteServiceCall
  <2>3. CASE c \in [op : {"delete endpoint"}, id : 1 .. MaxEndpoints]
    BY <1>2, <2>3 DEF DeleteCall
  <2>4. CASE c = KeyError
    BY <1>1, <2>4
  <2> QED BY <2>1, <2>2, <2>3, <2>4
<1>3. CASE p = "services"
  <2>1. c \in [op : {"create service", "update service"}, key : Key]
    BY <1>3 DEF CallsIn
  <2> QED BY <1>3, <2>1
<1>4. CASE p = "regions"
  <2>1. c \in [op : {"create region", "update region"}, region : Region]
    BY <1>4 DEF CallsIn
  <2> QED BY <1>4, <2>1
<1>5. CASE p = "endpoints"
  <2>1. \/ c \in [op : {"create endpoint"}, offer : Offer]
        \/ c \in [op : {"update endpoint"}, id : 1 .. MaxEndpoints, url : Url]
        \/ c \in [op : {"delete endpoint"}, id : 1 .. MaxEndpoints]
        \/ c = KeyError
    BY <1>5 DEF CallsIn
  <2>2. CASE c \in [op : {"create endpoint"}, offer : Offer]
    BY <1>5, <2>2 DEF CreateCall, Creates
  <2>3. CASE c \in [op : {"update endpoint"}, id : 1 .. MaxEndpoints, url : Url]
    BY <1>5, <2>3 DEF UpdateCall
  <2>4. CASE c \in [op : {"delete endpoint"}, id : 1 .. MaxEndpoints]
    BY <1>5, <2>4 DEF DeleteCall
  <2>5. CASE c = KeyError
    BY <1>1, <2>5
  <2> QED BY <2>1, <2>2, <2>3, <2>4, <2>5
<1>6. CASE p = "extra services"
  <2>1. c \in [op : {"delete service"}, id : ServiceId]
    BY <1>6 DEF CallsIn
  <2> QED BY <1>6, <2>1 DEF DeleteServiceCall
<1>7. CASE p = "extra regions"
  <2>1. c \in [op : {"delete region"}, region : Region]
    BY <1>7 DEF CallsIn
  <2> QED BY <1>7, <2>1
<1>8. CASE p \in NotRunning
  BY <1>8 DEF CallsIn, NotRunning
<1> QED BY <1>2, <1>3, <1>4, <1>5, <1>6, <1>7, <1>8 DEF Running

\* A call is made: it is not pending any more, the others are.
LEMMA CallMade ==
  ASSUME TypeOK, NEW op, Calls(op)
  PROVE  LET c == Head(calls) IN
         /\ phase \in Running /\ c \in CallsIn(phase) /\ c.op = op
         /\ phase' = phase /\ want' = want /\ final' = final /\ dry' = dry /\ syncs' = syncs /\ start' = start
         /\ changed' = TRUE
         /\ calls' \in Seq(CallsIn(phase'))
         /\ c \in Pending /\ Pending = {c} \cup Pending'
         /\ \A A : Once(calls, A) => Once(calls', A) /\ (c \in A => c \notin Pending')
<1>1. /\ calls # <<>> /\ Head(calls).op = op /\ calls' = Tail(calls) /\ changed' = TRUE
      /\ phase' = phase /\ want' = want /\ final' = final /\ dry' = dry /\ syncs' = syncs /\ start' = start
  BY DEF Calls, args
<1>2. calls \in Seq(CallsIn(phase)) /\ phase \in Running
  BY <1>1, SyncIsRunning DEF TypeOK
<1> DEFINE C == CallsIn(phase)
<1> HIDE DEF C
<1>3. /\ Head(calls) \in C /\ Head(calls) \in ToSet(calls) /\ Tail(calls) \in Seq(C)
      /\ ToSet(calls) = {Head(calls)} \cup ToSet(Tail(calls))
      /\ \A A : Once(calls, A) => Once(Tail(calls), A) /\ (Head(calls) \in A => Head(calls) \notin ToSet(Tail(calls)))
  <2>1. calls \in Seq(C)
    BY <1>2 DEF C
  <2> QED BY ONLY <1>1, <2>1, TailFacts
<1>4. Pending' = ToSet(Tail(calls))
  BY <1>1 DEF Pending
<1> QED BY <1>1, <1>2, <1>3, <1>4 DEF Pending, C

\* What a call keeps whatever it does.
LEMMA CallKeeps ==
  ASSUME Core, NEW op, Calls(op)
  PROVE  /\ StartFacts' /\ SyncReaches' /\ (Sound' <=> Sound)
         /\ Deleted' \subseteq Deleted /\ Updates' \subseteq Updates /\ Updated' \subseteq Updated
         /\ IsCatalog(services, endpoints, regions)' /\ listing' = listing => TypeOK'
<1>1. TypeOK
  BY DEF Core
<1>2. /\ phase \in Running /\ phase' = phase /\ want' = want /\ final' = final /\ dry' = dry /\ syncs' = syncs
      /\ start' = start /\ changed' = TRUE /\ calls' \in Seq(CallsIn(phase')) /\ Pending' \subseteq Pending
  BY <1>1, CallMade
<1>3. StartFacts' /\ SyncReaches' /\ (Sound' <=> Sound)
  BY <1>2 DEF Core, StartFacts, SyncReaches, Sound, Running
<1>4. Deleted' \subseteq Deleted /\ Updates' \subseteq Updates /\ Updated' \subseteq Updated
  BY <1>2 DEF Deleted, Updates, Updated
<1>5. ASSUME IsCatalog(services, endpoints, regions)', listing' = listing PROVE TypeOK'
  <2>1. seen' = seen /\ endps' = endps /\ srv_dict' = srv_dict /\ spare' = spare
    BY <1>5 DEF listing
  <2> QED BY <1>1, <1>2, <1>5, <2>1 DEF TypeOK
<1> QED BY <1>3, <1>4, <1>5

\* Keys that are pending once.
LEMMA TailKeys ==
  ASSUME NEW X, NEW t \in Seq(X), t # <<>>, \A i, j \in DOMAIN t : t[i].key = t[j].key => i = j
  PROVE  /\ \A i, j \in DOMAIN Tail(t) : Tail(t)[i].key = Tail(t)[j].key => i = j
         /\ \A c \in ToSet(Tail(t)) : c.key # Head(t).key
<1> DEFINE u == Tail(t)
<1>1. /\ Len(t) \in Nat /\ Len(t) > 0 /\ DOMAIN t = 1 .. Len(t) /\ Head(t) = t[1]
      /\ DOMAIN u = 1 .. Len(t) - 1
  OBVIOUS
<1>2. \A i \in 1 .. Len(t) - 1 : u[i] = t[i + 1]
  OBVIOUS
<1> HIDE DEF u
<1>3. ASSUME NEW i \in DOMAIN u PROVE i + 1 \in DOMAIN t /\ u[i] = t[i + 1] /\ i + 1 # 1 /\ i \in Nat
  BY <1>1, <1>2
<1>4. ASSUME NEW i \in DOMAIN u, NEW j \in DOMAIN u, u[i].key = u[j].key PROVE i = j
  <2>1. i + 1 = j + 1
    BY <1>3, <1>4
  <2> QED BY <1>3, <2>1
<1>5. ASSUME NEW i \in DOMAIN u, u[i].key = t[1].key PROVE FALSE
  <2>1. 1 \in DOMAIN t
    BY <1>1
  <2> QED BY <1>3, <1>5, <2>1
<1>6. \A c \in ToSet(u) : c.key # Head(t).key
  BY <1>1, <1>5 DEF ToSet
<1> QED BY <1>4, <1>6 DEF u

\* Where the services of endpoints keep their keys.
LEMMA KeysStay ==
  ASSUME endpoints' = endpoints, \A e \in endpoints : services'[e.srv] = services[e.srv]
  PROVE  /\ \A s : EndpointsOf(s)' = EndpointsOf(s) /\ (HasOne(s)' <=> HasOne(s))
         /\ \A s, o : (HasCands(s, o)' <=> HasCands(s, o)) /\ (HasMatch(s, o)' <=> HasMatch(s, o))
         /\ \A e \in endpoints : OfferOf(e)' = OfferOf(e) /\ \A o : IsAt(e, o)' <=> IsAt(e, o)
         /\ \A w : InOneRegion(w)' <=> InOneRegion(w)
<1>1. \A s : EndpointsOf(s)' = EndpointsOf(s)
  BY DEF EndpointsOf
<1>2. \A s : HasOne(s)' <=> HasOne(s)
  BY <1>1 DEF HasOne
<1>3. \A s, o : HasCands(s, o)' <=> HasCands(s, o)
  BY <1>1 DEF HasCands
<1>4. \A s, o : HasMatch(s, o)' <=> HasMatch(s, o)
  BY <1>1 DEF HasMatch
<1>5. \A e \in endpoints : OfferOf(e)' = OfferOf(e)
  BY DEF OfferOf
<1>6. \A e \in endpoints : \A o : IsAt(e, o)' <=> IsAt(e, o)
  BY DEF IsAt
<1>7. \A w : InOneRegion(w)' <=> InOneRegion(w)
  BY DEF InOneRegion
<1> QED BY <1>1, <1>2, <1>3, <1>4, <1>5, <1>6, <1>7

LEMMA FreshIs ==
  ASSUME NEW used, NEW bound, ~ IsUsedUp(used, bound)
  PROVE  Fresh(used, bound) \in 1 .. bound /\ Fresh(used, bound) \notin used
<1>1. \E i \in 1 .. bound : i \notin used
  BY DEF IsUsedUp
<1> QED BY <1>1 DEF Fresh

\* A partial function with one more value.
LEMMA WithFacts ==
  ASSUME NEW S, NEW T, NEW f, IsPartialFcn(f, S, T), NEW x \in S, NEW y \in T
  PROVE  /\ DOMAIN With(f, x, y) = {x} \cup DOMAIN f /\ With(f, x, y)[x] = y
         /\ \A s \in DOMAIN f : s # x => With(f, x, y)[s] = f[s]
         /\ IsPartialFcn(With(f, x, y), S, T)
<1> DEFINE g == With(f, x, y)
<1>1. g = [z \in DOMAIN f \cup {x} |-> IF z = x THEN y ELSE f[z]]
  BY DEF With
<1>2. DOMAIN f \subseteq S /\ \A s \in DOMAIN f : f[s] \in T
  BY DEF IsPartialFcn
<1> HIDE DEF g
<1>3. DOMAIN g = {x} \cup DOMAIN f /\ g[x] = y /\ \A s \in DOMAIN f : s # x => g[s] = f[s]
  BY <1>1
<1>4. IsPartialFcn(g, S, T)
  BY <1>1, <1>2 DEF IsPartialFcn
<1> QED BY <1>3, <1>4 DEF g

\* A new service has no endpoints, and a key that was missing.
LEMMA CreateServiceKeeps == Core /\ CreateService => Core'
<1> SUFFICES ASSUME Core, CreateService PROVE Core'
  OBVIOUS
<1> DEFINE c == Head(calls)
           key == c.key
           used == DOMAIN services \cup DOMAIN seen
           id == Fresh(used, MaxServices)
<1>1. /\ Calls("create service") /\ ~ IsUsedUp(used, MaxServices)
      /\ services' = With(services, id, key) /\ srv_dict' = With(srv_dict, key, id)
      /\ endpoints' = endpoints /\ regions' = regions /\ seen' = seen /\ endps' = endps /\ spare' = spare
  BY DEF CreateService
<1>2. TypeOK /\ want \in Wants
  BY DEF Core, TypeOK
<1>3. /\ phase \in Running /\ c \in CallsIn(phase) /\ c.op = "create service"
      /\ phase' = phase /\ want' = want /\ final' = final /\ dry' = dry /\ syncs' = syncs /\ start' = start
      /\ changed' = TRUE /\ calls' \in Seq(CallsIn(phase'))
      /\ c \in Pending /\ Pending = {c} \cup Pending'
  BY <1>1, <1>2, CallMade
<1>4. phase = "services" /\ key \in Key
  BY <1>3, OwnCalls
<1>5. id \in ServiceId /\ id \notin DOMAIN services /\ id \notin DOMAIN seen
  <2>1. ~ IsUsedUp(used, MaxServices)
    BY <1>1
  <2>2. id \in 1 .. MaxServices /\ id \notin used
    BY ONLY <2>1, FreshIs
  <2> QED BY <2>2 DEF ServiceId
<1>6. StartFacts' /\ SyncReaches' /\ (Sound' <=> Sound)
  BY <1>1, CallKeeps
<1>7. /\ key \in want.services /\ key \notin DOMAIN srv_dict
      /\ \A d \in Pending' : d.key # key
      /\ \A i, j \in DOMAIN calls' : calls'[i].key = calls'[j].key => i = j
  <2>1. /\ \A d \in Pending : d.key \in want.services /\ d.key \notin DOMAIN srv_dict
        /\ \A i, j \in DOMAIN calls : calls[i].key = calls[j].key => i = j
    BY <1>4 DEF Core, MissingCome
  <2>2. calls \in Seq(CallsIn(phase)) /\ calls # <<>> /\ calls' = Tail(calls)
    BY <1>1, <1>2 DEF TypeOK, Calls
  <2>3. /\ \A i, j \in DOMAIN Tail(calls) : Tail(calls)[i].key = Tail(calls)[j].key => i = j
        /\ \A d \in ToSet(Tail(calls)) : d.key # Head(calls).key
    BY <2>1, <2>2, TailKeys
  <2> QED BY <1>3, <2>1, <2>2, <2>3 DEF Pending
<1> HIDE DEF c, key, id, used
<1>8. /\ IsCatalog(services, endpoints, regions) /\ IsPartialFcn(services, ServiceId, Key)
      /\ IsPartialFcn(srv_dict, Key, ServiceId) /\ IsFiniteSet(DOMAIN srv_dict)
      /\ \A e \in endpoints : e.srv \in DOMAIN services
  BY <1>2 DEF TypeOK, IsCatalog
<1>9. /\ DOMAIN services' = {id} \cup DOMAIN services /\ services'[id] = key
      /\ \A s \in DOMAIN services : services'[s] = services[s]
      /\ IsPartialFcn(services', ServiceId, Key)
  <2>1. /\ DOMAIN With(services, id, key) = {id} \cup DOMAIN services /\ With(services, id, key)[id] = key
        /\ \A s \in DOMAIN services : s # id => With(services, id, key)[s] = services[s]
        /\ IsPartialFcn(With(services, id, key), ServiceId, Key)
    BY ONLY <1>4, <1>5, <1>8, WithFacts
  <2> QED BY <1>1, <1>5, <2>1
<1>10. /\ DOMAIN srv_dict' = {key} \cup DOMAIN srv_dict /\ srv_dict'[key] = id
       /\ \A k \in DOMAIN srv_dict : srv_dict'[k] = srv_dict[k]
       /\ IsPartialFcn(srv_dict', Key, ServiceId)
  <2>1. /\ DOMAIN With(srv_dict, key, id) = {key} \cup DOMAIN srv_dict /\ With(srv_dict, key, id)[key] = id
        /\ \A k \in DOMAIN srv_dict : k # key => With(srv_dict, key, id)[k] = srv_dict[k]
        /\ IsPartialFcn(With(srv_dict, key, id), Key, ServiceId)
    BY ONLY <1>4, <1>5, <1>8, WithFacts
  <2> QED BY <1>1, <1>7, <2>1
<1>11. TypeOK'
  <2>1. IsCatalog(services, endpoints, regions)'
    BY <1>1, <1>8, <1>9 DEF IsCatalog
  <2>2. IsFiniteSet(DOMAIN srv_dict')
    BY <1>8, <1>10, FS_AddElement
  <2> QED BY <1>1, <1>2, <1>3, <1>10, <2>1, <2>2 DEF TypeOK
<1>12. Sound =>
         /\ \A k \in DOMAIN srv_dict : srv_dict[k] \in DOMAIN services /\ services[srv_dict[k]] = k
         /\ \A s \in DOMAIN services : services[s] \in DOMAIN srv_dict /\ srv_dict[services[s]] = s
         /\ \A s \in DOMAIN seen \cap DOMAIN services : seen[s] = services[s]
         /\ ToSet(endps) = endpoints
  BY <1>4 DEF Core, Indexed, Early
<1>13. Indexed'
  <2> SUFFICES ASSUME Sound PROVE Indexed'
    BY <1>6 DEF Indexed
  <2>1. \A k \in DOMAIN srv_dict' : srv_dict'[k] \in DOMAIN services' /\ services'[srv_dict'[k]] = k
    BY <1>9, <1>10, <1>12
  <2>2. \A s \in DOMAIN services' : services'[s] \in DOMAIN srv_dict' /\ srv_dict'[services'[s]] = s
    BY <1>9, <1>10, <1>12
  <2>3. \A s \in DOMAIN seen \cap DOMAIN services' : seen[s] = services'[s]
    BY <1>5, <1>9, <1>12
  <2> QED BY <1>1, <1>12, <2>1, <2>2, <2>3 DEF Indexed
<1>14. MissingCome'
  <2>1. \A d \in Pending' : /\ d.key \in want.services /\ d.key \notin DOMAIN srv_dict
                            /\ d.op = "update service" <=> d.key.name \in DOMAIN spare
    BY <1>3, <1>4 DEF Core, MissingCome
  <2> QED BY <1>1, <1>3, <1>7, <1>10, <2>1 DEF MissingCome
<1>15. WantedThere'
  <2> SUFFICES ASSUME start.regular, NEW k \in want.services
               PROVE  (\E s \in DOMAIN services' : services'[s] = k) \/ \E d \in Pending' : d.key = k
    BY <1>3, <1>4 DEF WantedThere
  <2>1. (\E s \in DOMAIN services : services[s] = k) \/ \E d \in Pending : d.key = k
    BY <1>4 DEF Core, WantedThere
  <2> QED BY <1>3, <1>9, <2>1 DEF key
<1>16. \A e \in endpoints : services'[e.srv] = services[e.srv]
  BY <1>8, <1>9
<1>17. RegionIsOne'
  BY <1>1, <1>3, <1>16, KeysStay DEF Core, RegionIsOne
<1>18. UrlsFit'
  <2> SUFFICES ASSUME start.regular PROVE UrlsFit'
    BY <1>3 DEF UrlsFit
  <2>1. Sound /\ OneDesc(want) /\ \A o \in want.offers : o.key \in want.services
    BY <1>2, WantFacts DEF Core, StartFacts, Sound
  <2>2. \A s, o : /\ UrlOk(s, o)' <=> UrlOk(s, o)
                  /\ HasCands(s, o)' <=> HasCands(s, o)
                  /\ HasMatch(s, o)' <=> HasMatch(s, o)
    <3>1. \A o : IsAlone(want, o)' <=> IsAlone(want, o)
      BY <1>3 DEF IsAlone
    <3> QED BY <1>1, <1>3, <1>16, <3>1, KeysStay DEF UrlOk
  <2>3. /\ \A s \in DOMAIN services : \A o \in want.offers : GetsUrl(s, o) => UrlOk(s, o)
        /\ \A n \in DOMAIN spare : \A o \in want.offers :
             /\ spare[n] \in DOMAIN services /\ o.key.name = n /\ o.key \notin DOMAIN srv_dict
             /\ HasCands(spare[n], o) /\ ~ HasMatch(spare[n], o)
             => UrlOk(spare[n], o)
    BY <1>4 DEF Core, UrlsFit, Early
  <2>4. ASSUME NEW s \in DOMAIN services', NEW o \in want.offers, GetsUrl(s, o)' PROVE UrlOk(s, o)
    <3>1. s \in DOMAIN services
      <4>1. HasCands(s, o)
        BY <2>2, <2>4 DEF GetsUrl
      <4> QED BY <1>5, <1>8, <1>9, <4>1 DEF HasCands, EndpointsOf
    <3>2. MayServe(s, o)
      <4>1. \/ services'[s] = o.key
            \/ /\ services'[s].name = o.key.name
               /\ \E t \in DOMAIN services' : t # s /\ services'[t].name = o.key.name
               /\ \A t \in DOMAIN services' : services'[t] # o.key
        BY <2>4 DEF GetsUrl, MayServe
      <4>2. CASE services'[s] = o.key
        BY <1>9, <3>1, <4>2 DEF MayServe
      <4>3. CASE /\ services'[s].name = o.key.name
                 /\ \E t \in DOMAIN services' : t # s /\ services'[t].name = o.key.name
                 /\ \A t \in DOMAIN services' : services'[t] # o.key
        <5>1. key.name # o.key.name
          BY <1>7, <1>9, <2>1, <4>3 DEF OneDesc
        <5> QED BY <1>9, <3>1, <4>3, <5>1 DEF MayServe
      <4> QED BY <4>1, <4>2, <4>3
    <3>3. GetsUrl(s, o)
      BY <2>2, <2>4, <3>2 DEF GetsUrl
    <3> QED BY <2>3, <3>1, <3>3
  <2>5. ASSUME NEW n \in DOMAIN spare, NEW o \in want.offers,
               spare[n] \in DOMAIN services', o.key.name = n, o.key \notin DOMAIN srv_dict',
               HasCands(spare[n], o), ~ HasMatch(spare[n], o)
        PROVE  UrlOk(spare[n], o)
    <3>1. spare[n] \in DOMAIN seen
      BY <1>2 DEF TypeOK
    <3> QED BY <1>5, <1>9, <1>10, <2>3, <2>5, <3>1
  <2>6. ASSUME NEW s \in DOMAIN services', NEW o \in want.offers, GetsUrl(s, o)' PROVE UrlOk(s, o)'
    BY <2>2, <2>4, <2>6
  <2>7. ASSUME NEW n \in DOMAIN spare, NEW o \in want.offers, NEW s, s = spare[n],
               s \in DOMAIN services', o.key.name = n, o.key \notin DOMAIN srv_dict',
               HasCands(s, o)', ~ HasMatch(s, o)'
        PROVE  UrlOk(s, o)'
    BY <2>2, <2>5, <2>7
  <2> QED BY <1>1, <1>3, <2>6, <2>7 DEF UrlsFit
<1>19. NoDoubleMade'
  <2> SUFFICES ASSUME start.unique PROVE NoDouble'
    BY <1>3 DEF NoDoubleMade
  <2>1. Sound /\ NoDouble
    BY DEF Sound, Core, NoDoubleMade
  <2>2. \A s \in DOMAIN services : services[s] # key
    BY <1>7, <1>12, <2>1
  <2>3. \A s, t \in DOMAIN services : services[s] = services[t] => s = t
    BY <2>1 DEF NoDouble
  <2>4. \A s, t \in DOMAIN services' : services'[s] = services'[t] => s = t
    BY <1>9, <2>2, <2>3
  <2> QED BY <1>1, <2>1, <2>4 DEF NoDouble
<1>20. ServingStay'
  BY <1>1, <1>3, <1>4, <1>16, KeysStay DEF Core, ServingStay
<1>21. DoublesGo' /\ RegionsCome' /\ CreatesOnce' /\ EndpointsCome' /\ EndpointsThere' /\ ExtrasGo'
  BY <1>3, <1>4 DEF DoublesGo, RegionsCome, CreatesOnce, EndpointsCome, EndpointsThere, ExtrasGo, Late
<1> QED BY <1>6, <1>11, <1>13, <1>14, <1>15, <1>17, <1>18, <1>19, <1>20, <1>21 DEF Core

\* The service that is overwritten has the name of the missing one, and its
\* key was not wanted: a name has one description.
LEMMA UpdateServiceKeeps == Core /\ UpdateService => Core'
<1> SUFFICES ASSUME Core, UpdateService PROVE Core'
  OBVIOUS
<1> DEFINE c == Head(calls)
           key == c.key
           id == spare[key.name]
           rest == [k \in DOMAIN srv_dict \ {seen[id]} |-> srv_dict[k]]
<1>1. /\ Calls("update service") /\ id \in DOMAIN services
      /\ services' = [services EXCEPT ![id] = key] /\ seen' = [seen EXCEPT ![id] = key]
      /\ srv_dict' = With(rest, key, id)
      /\ endpoints' = endpoints /\ regions' = regions /\ endps' = endps /\ spare' = spare
  BY DEF UpdateService
<1>2. TypeOK /\ want \in Wants
  BY DEF Core, TypeOK
<1>3. /\ phase \in Running /\ c \in CallsIn(phase) /\ c.op = "update service"
      /\ phase' = phase /\ want' = want /\ final' = final /\ dry' = dry /\ syncs' = syncs /\ start' = start
      /\ changed' = TRUE /\ calls' \in Seq(CallsIn(phase'))
      /\ c \in Pending /\ Pending = {c} \cup Pending'
  BY <1>1, <1>2, CallMade
<1>4. phase = "services" /\ key \in Key
  BY <1>3, OwnCalls
<1>5. StartFacts' /\ SyncReaches' /\ (Sound' <=> Sound)
  BY <1>1, CallKeeps
<1>6. /\ key \in want.services /\ key \notin DOMAIN srv_dict /\ key.name \in DOMAIN spare
      /\ \A d \in Pending' : d.key # key
      /\ \A i, j \in DOMAIN calls' : calls'[i].key = calls'[j].key => i = j
  <2>1. /\ \A d \in Pending : d.key \in want.services /\ d.key \notin DOMAIN srv_dict
        /\ \A d \in Pending : d.op = "update service" => d.key.name \in DOMAIN spare
        /\ \A i, j \in DOMAIN calls : calls[i].key = calls[j].key => i = j
    BY <1>4 DEF Core, MissingCome
  <2>2. calls \in Seq(CallsIn(phase)) /\ calls # <<>> /\ calls' = Tail(calls)
    BY <1>1, <1>2 DEF TypeOK, Calls
  <2>3. /\ \A i, j \in DOMAIN Tail(calls) : Tail(calls)[i].key = Tail(calls)[j].key => i = j
        /\ \A d \in ToSet(Tail(calls)) : d.key # Head(calls).key
    BY <2>1, <2>2, TailKeys
  <2> QED BY <1>3, <2>1, <2>2, <2>3 DEF Pending
<1>7. /\ IsCatalog(services, endpoints, regions) /\ IsPartialFcn(services, ServiceId, Key)
      /\ IsPartialFcn(seen, ServiceId, Key)
      /\ IsPartialFcn(srv_dict, Key, ServiceId) /\ IsFiniteSet(DOMAIN srv_dict)
      /\ \A e \in endpoints : e.srv \in DOMAIN services
      /\ id \in DOMAIN seen /\ seen[id].name = key.name /\ id \in ServiceId
      /\ \A n \in DOMAIN spare : spare[n] \in DOMAIN seen /\ seen[spare[n]].name = n
  BY <1>1, <1>2, <1>6 DEF TypeOK, IsCatalog, IsPartialFcn
<1>8. /\ DOMAIN rest = DOMAIN srv_dict \ {seen[id]} /\ \A k \in DOMAIN rest : rest[k] = srv_dict[k]
      /\ IsPartialFcn(rest, Key, ServiceId)
  <2>1. DOMAIN rest = DOMAIN srv_dict \ {seen[id]} /\ \A k \in DOMAIN rest : rest[k] = srv_dict[k]
    OBVIOUS
  <2>2. rest = [k \in DOMAIN rest |-> rest[k]]
    OBVIOUS
  <2> HIDE DEF rest
  <2> QED BY <1>7, <2>1, <2>2 DEF IsPartialFcn
<1> HIDE DEF c, key, id, rest
<1>9. /\ DOMAIN services' = DOMAIN services /\ services'[id] = key
      /\ \A s \in DOMAIN services : s # id => services'[s] = services[s]
      /\ IsPartialFcn(services', ServiceId, Key)
  BY <1>1, <1>4, <1>7 DEF IsPartialFcn
<1>10. /\ DOMAIN seen' = DOMAIN seen /\ seen'[id] = key
       /\ \A s \in DOMAIN seen : s # id => seen'[s] = seen[s]
       /\ IsPartialFcn(seen', ServiceId, Key)
  BY <1>1, <1>4, <1>7 DEF IsPartialFcn
<1>11. /\ DOMAIN srv_dict' = {key} \cup (DOMAIN srv_dict \ {seen[id]}) /\ srv_dict'[key] = id
       /\ \A k \in DOMAIN srv_dict \ {seen[id]} : srv_dict'[k] = srv_dict[k]
       /\ IsPartialFcn(srv_dict', Key, ServiceId)
  <2>1. /\ DOMAIN With(rest, key, id) = {key} \cup DOMAIN rest /\ With(rest, key, id)[key] = id
        /\ \A k \in DOMAIN rest : k # key => With(rest, key, id)[k] = rest[k]
        /\ IsPartialFcn(With(rest, key, id), Key, ServiceId)
    BY ONLY <1>4, <1>7, <1>8, WithFacts
  <2> QED BY <1>1, <1>6, <1>8, <2>1
<1>12. TypeOK'
  <2>1. IsCatalog(services, endpoints, regions)'
    BY <1>1, <1>7, <1>9 DEF IsCatalog
  <2>2. IsFiniteSet(DOMAIN srv_dict')
    <3>1. DOMAIN srv_dict \ {seen[id]} \in SUBSET DOMAIN srv_dict
      OBVIOUS
    <3>2. IsFiniteSet(DOMAIN srv_dict \ {seen[id]})
      BY <1>7, <3>1, FS_Subset
    <3>3. IsFiniteSet((DOMAIN srv_dict \ {seen[id]}) \cup {key})
      BY <3>2, FS_AddElement
    <3> QED BY <1>11, <3>3
  <2>3. ASSUME NEW n \in DOMAIN spare PROVE spare[n] \in DOMAIN seen' /\ seen'[spare[n]].name = n
    <3>1. CASE spare[n] = id
      BY <1>7, <1>10, <3>1
    <3>2. CASE spare[n] # id
      BY <1>7, <1>10, <3>2
    <3> QED BY <3>1, <3>2
  <2>4. \A e \in ToSet(endps) : e.srv \in DOMAIN seen'
    BY <1>2, <1>10 DEF TypeOK
  <2> QED BY <1>1, <1>2, <1>3, <1>10, <1>11, <2>1, <2>2, <2>3, <2>4 DEF TypeOK
<1>13. Sound =>
         /\ \A k \in DOMAIN srv_dict : srv_dict[k] \in DOMAIN services /\ services[srv_dict[k]] = k
         /\ \A s \in DOMAIN services : services[s] \in DOMAIN srv_dict /\ srv_dict[services[s]] = s
         /\ \A s \in DOMAIN seen \cap DOMAIN services : seen[s] = services[s]
         /\ ToSet(endps) = endpoints
         /\ services[id] = seen[id] /\ services[id].name = key.name
         /\ \A s \in DOMAIN services : services[s] # key
  <2> SUFFICES ASSUME Sound
               PROVE  /\ \A k \in DOMAIN srv_dict : srv_dict[k] \in DOMAIN services /\ services[srv_dict[k]] = k
                      /\ \A s \in DOMAIN services : services[s] \in DOMAIN srv_dict /\ srv_dict[services[s]] = s
                      /\ \A s \in DOMAIN seen \cap DOMAIN services : seen[s] = services[s]
                      /\ ToSet(endps) = endpoints
                      /\ services[id] = seen[id] /\ services[id].name = key.name
                      /\ \A s \in DOMAIN services : services[s] # key
    OBVIOUS
  <2>1. /\ \A k \in DOMAIN srv_dict : srv_dict[k] \in DOMAIN services /\ services[srv_dict[k]] = k
        /\ \A s \in DOMAIN services : services[s] \in DOMAIN srv_dict /\ srv_dict[services[s]] = s
        /\ \A s \in DOMAIN seen \cap DOMAIN services : seen[s] = services[s]
        /\ ToSet(endps) = endpoints
    BY <1>4 DEF Core, Indexed, Early
  <2> QED BY <1>1, <1>6, <1>7, <2>1
<1>14. Indexed'
  <2> SUFFICES ASSUME Sound PROVE Indexed'
    BY <1>5 DEF Indexed
  <2>0. /\ \A k \in DOMAIN srv_dict : srv_dict[k] \in DOMAIN services /\ services[srv_dict[k]] = k
        /\ \A s \in DOMAIN services : services[s] \in DOMAIN srv_dict /\ srv_dict[services[s]] = s
        /\ services[id] = seen[id] /\ \A s \in DOMAIN services : services[s] # key
    BY <1>13
  <2>1. ASSUME NEW k \in DOMAIN srv_dict' PROVE srv_dict'[k] \in DOMAIN services' /\ services'[srv_dict'[k]] = k
    <3>1. CASE k = key
      BY <1>1, <1>9, <1>11, <3>1
    <3>2. CASE k # key
      <4>1. k \in DOMAIN srv_dict /\ k # seen[id] /\ srv_dict'[k] = srv_dict[k]
        BY <1>11, <3>2
      <4>2. srv_dict[k] \in DOMAIN services /\ services[srv_dict[k]] = k /\ srv_dict[k] # id
        BY <2>0, <4>1
      <4> QED BY <1>9, <4>1, <4>2
    <3> QED BY <3>1, <3>2
  <2>2. ASSUME NEW s \in DOMAIN services' PROVE services'[s] \in DOMAIN srv_dict' /\ srv_dict'[services'[s]] = s
    <3>1. CASE s = id
      BY <1>9, <1>11, <3>1
    <3>2. CASE s # id
      <4>1. s \in DOMAIN services /\ services'[s] = services[s]
        BY <1>9, <3>2
      <4>2. services[s] \in DOMAIN srv_dict /\ srv_dict[services[s]] = s
        BY <2>0, <4>1
      <4>3. srv_dict[services[id]] = id
        BY <1>1, <2>0
      <4>4. services[s] # seen[id]
        BY <2>0, <3>2, <4>2, <4>3
      <4> QED BY <1>11, <4>1, <4>2, <4>4
    <3> QED BY <3>1, <3>2
  <2>3. \A s \in DOMAIN seen' \cap DOMAIN services' : seen'[s] = services'[s]
    BY <1>9, <1>10, <1>13
  <2> QED BY <1>1, <1>13, <2>1, <2>2, <2>3 DEF Indexed
<1>15. MissingCome'
  <2>1. \A d \in Pending' : /\ d.key \in want.services /\ d.key \notin DOMAIN srv_dict
                            /\ d.op = "update service" <=> d.key.name \in DOMAIN spare
    BY <1>3, <1>4 DEF Core, MissingCome
  <2> QED BY <1>1, <1>3, <1>6, <1>11, <2>1 DEF MissingCome
<1>16. ASSUME start.regular
       PROVE  /\ Sound /\ \A o \in want.offers : o.key \in want.services
              /\ \A k \in want.services : k.name = key.name => k = key
              /\ \A s \in DOMAIN services : services'[s].name = services[s].name
              /\ services[id] \notin want.services
  <2>1. Sound /\ OneDesc(want) /\ \A o \in want.offers : o.key \in want.services
    BY <1>2, <1>16, WantFacts DEF Core, StartFacts, Sound
  <2>2. \A k \in want.services : k.name = key.name => k = key
    BY <1>6, <2>1 DEF OneDesc
  <2> QED BY <1>1, <1>9, <1>13, <2>1, <2>2
<1>17. WantedThere'
  <2> SUFFICES ASSUME start.regular, NEW k \in want.services
               PROVE  (\E s \in DOMAIN services' : services'[s] = k) \/ \E d \in Pending' : d.key = k
    BY <1>3, <1>4 DEF WantedThere
  <2>1. (\E s \in DOMAIN services : services[s] = k) \/ \E d \in Pending : d.key = k
    BY <1>4 DEF Core, WantedThere
  <2>2. CASE \E s \in DOMAIN services : services[s] = k
    BY <1>9, <1>16, <2>2
  <2>3. CASE \E d \in Pending : d.key = k
    BY <1>1, <1>3, <1>9, <2>3 DEF key
  <2> QED BY <2>1, <2>2, <2>3
<1>18. RegionIsOne'
  <2> SUFFICES ASSUME start.regular PROVE InOneRegion(want)'
    BY <1>3 DEF RegionIsOne
  <2>1. InOneRegion(want)
    BY <1>3 DEF Core, RegionIsOne
  <2>2. \A e \in endpoints : services'[e.srv].name = services[e.srv].name
    BY <1>7, <1>16
  <2>3. /\ \A e, f \in endpoints : services'[e.srv].name = services'[f.srv].name => e.region = f.region
        /\ \A o, p \in want.offers : o.key.name = p.key.name => o.region = p.region
        /\ \A e \in endpoints : \A o \in want.offers : services'[e.srv].name = o.key.name => e.region = o.region
    BY <2>1, <2>2 DEF InOneRegion
  <2> QED BY <1>1, <1>3, <2>3 DEF InOneRegion
<1>19. UrlsFit'
  <2> SUFFICES ASSUME start.regular PROVE UrlsFit'
    BY <1>3 DEF UrlsFit
  <2>2. \A s, o : /\ UrlOk(s, o)' <=> UrlOk(s, o)
                  /\ HasCands(s, o)' <=> HasCands(s, o)
                  /\ HasMatch(s, o)' <=> HasMatch(s, o)
    <3>1. \A s : EndpointsOf(s)' = EndpointsOf(s)
      BY <1>1 DEF EndpointsOf
    <3> QED BY <1>3, <3>1 DEF UrlOk, HasOne, IsAlone, HasCands, HasMatch
  <2>3. /\ \A s \in DOMAIN services : \A o \in want.offers : GetsUrl(s, o) => UrlOk(s, o)
        /\ \A n \in DOMAIN spare : \A o \in want.offers :
             /\ spare[n] \in DOMAIN services /\ o.key.name = n /\ o.key \notin DOMAIN srv_dict
             /\ HasCands(spare[n], o) /\ ~ HasMatch(spare[n], o)
             => UrlOk(spare[n], o)
    BY <1>4 DEF Core, UrlsFit, Early
  <2>4. ASSUME NEW s \in DOMAIN services', NEW o \in want.offers, GetsUrl(s, o)' PROVE UrlOk(s, o)
    <3>1. \/ services'[s] = o.key
          \/ /\ services'[s].name = o.key.name
             /\ \E t \in DOMAIN services' : t # s /\ services'[t].name = o.key.name
             /\ \A t \in DOMAIN services' : services'[t] # o.key
      BY <2>4 DEF GetsUrl, MayServe
    <3>2. HasCands(s, o) /\ ~ HasMatch(s, o) /\ o.key \in want.services
      BY <1>16, <2>2, <2>4 DEF GetsUrl
    <3>3. CASE s = id
      <4>1. o.key = key
        BY <1>1, <1>9, <1>16, <3>1, <3>2, <3>3
      <4>2. s = spare[key.name]
        BY <3>3 DEF id
      <4> QED BY <1>1, <1>6, <2>3, <3>2, <3>3, <4>1, <4>2
    <3>4. CASE s # id
      <4>1. MayServe(s, o)
        <5>1. CASE services'[s] = o.key
          BY <1>9, <3>4, <5>1 DEF MayServe
        <5>2. CASE /\ services'[s].name = o.key.name
                   /\ \E t \in DOMAIN services' : t # s /\ services'[t].name = o.key.name
                   /\ \A t \in DOMAIN services' : services'[t] # o.key
          <6>1. services[s].name = o.key.name
            BY <1>9, <3>4, <5>2
          <6>2. \E t \in DOMAIN services : t # s /\ services[t].name = o.key.name
            BY <1>9, <1>16, <5>2
          <6>3. services[id] # o.key
            BY <1>16, <3>2
          <6>4. \A t \in DOMAIN services : services[t] # o.key
            BY <1>9, <5>2, <6>3
          <6> QED BY <6>1, <6>2, <6>4 DEF MayServe
        <5> QED BY <3>1, <5>1, <5>2
      <4> QED BY <1>9, <2>3, <3>2, <4>1 DEF GetsUrl
    <3> QED BY <3>3, <3>4
  <2>5. ASSUME NEW n \in DOMAIN spare, NEW o \in want.offers,
               spare[n] \in DOMAIN services', o.key.name = n, o.key \notin DOMAIN srv_dict',
               HasCands(spare[n], o), ~ HasMatch(spare[n], o)
        PROVE  UrlOk(spare[n], o)
    <3>1. o.key \notin DOMAIN srv_dict
      BY <1>7, <1>11, <1>13, <1>16, <2>5
    <3> QED BY <1>9, <2>3, <2>5, <3>1
  <2>6. ASSUME NEW s \in DOMAIN services', NEW o \in want.offers, GetsUrl(s, o)' PROVE UrlOk(s, o)'
    BY <2>2, <2>4, <2>6
  <2>7. ASSUME NEW n \in DOMAIN spare, NEW o \in want.offers, NEW s, s = spare[n],
               s \in DOMAIN services', o.key.name = n, o.key \notin DOMAIN srv_dict',
               HasCands(s, o)', ~ HasMatch(s, o)'
        PROVE  UrlOk(s, o)'
    BY <2>2, <2>5, <2>7
  <2> QED BY <1>1, <1>3, <2>6, <2>7 DEF UrlsFit
<1>20. NoDoubleMade'
  <2> SUFFICES ASSUME start.unique PROVE NoDouble'
    BY <1>3 DEF NoDoubleMade
  <2>1. Sound /\ NoDouble
    BY DEF Sound, Core, NoDoubleMade
  <2>2. \A s \in DOMAIN services : services[s] # key
    BY <1>13, <2>1
  <2>3. \A s, t \in DOMAIN services : services[s] = services[t] => s = t
    BY <2>1 DEF NoDouble
  <2>4. \A s, t \in DOMAIN services' : services'[s] = services'[t] => s = t
    BY <1>9, <2>2, <2>3
  <2> QED BY <1>1, <2>1, <2>4 DEF NoDouble
<1>21. ServingStay'
  <2> SUFFICES ASSUME start.regular, start.unique PROVE ServingStay'
    BY <1>3 DEF ServingStay
  <2>1. start.serving \subseteq endpoints /\ \A e \in start.serving : OfferOf(e) \in want.offers
    BY <1>3 DEF Core, ServingStay
  <2>2. ASSUME NEW e \in start.serving PROVE OfferOf(e)' \in want.offers
    <3>1. services[e.srv] \in want.services
      BY <1>16, <2>1 DEF OfferOf
    <3>2. e.srv # id /\ e.srv \in DOMAIN services
      BY <1>7, <1>16, <2>1, <3>1
    <3>3. services'[e.srv] = services[e.srv]
      BY <1>9, <3>2
    <3> QED BY <2>1, <3>3 DEF OfferOf
  <2> QED BY <1>1, <1>3, <1>4, <2>1, <2>2 DEF ServingStay
<1>22. DoublesGo' /\ RegionsCome' /\ CreatesOnce' /\ EndpointsCome' /\ EndpointsThere' /\ ExtrasGo'
  BY <1>3, <1>4 DEF DoublesGo, RegionsCome, CreatesOnce, EndpointsCome, EndpointsThere, ExtrasGo, Late
<1> QED BY <1>5, <1>12, <1>14, <1>15, <1>17, <1>18, <1>19, <1>20, <1>21, <1>22 DEF Core

\* The service that is deleted has no endpoints: it is a double one, or not
\* wanted when all endpoints are.
LEMMA DeleteServiceKeeps == Core /\ DeleteService => Core'
<1> SUFFICES ASSUME Core, DeleteService PROVE Core'
  OBVIOUS
<1> DEFINE c == Head(calls)
           id == c.id
<1>1. /\ Calls("delete service") /\ id \in DOMAIN services
      /\ services' = [s \in DOMAIN services \ {id} |-> services[s]]
      /\ endpoints' = {e \in endpoints : e.srv # id}
      /\ regions' = regions /\ listing' = listing
  BY DEF DeleteService
<1>2. TypeOK /\ want \in Wants
  BY DEF Core, TypeOK
<1>3. /\ phase \in Running /\ c \in CallsIn(phase) /\ c.op = "delete service"
      /\ phase' = phase /\ want' = want /\ final' = final /\ dry' = dry /\ syncs' = syncs /\ start' = start
      /\ changed' = TRUE /\ calls' \in Seq(CallsIn(phase'))
      /\ c \in Pending /\ Pending = {c} \cup Pending'
  BY <1>1, <1>2, CallMade
<1>4. phase \in {"double", "extra services"} /\ c = DeleteServiceCall(id)
  BY <1>3, OwnCalls
<1>5. StartFacts' /\ SyncReaches' /\ (Sound' <=> Sound)
  BY <1>1, CallKeeps
<1>6. seen' = seen /\ endps' = endps /\ srv_dict' = srv_dict /\ spare' = spare
  BY <1>1 DEF listing
<1>7. \A s : DeleteServiceCall(s).id = s
  BY DEF DeleteServiceCall
<1> HIDE DEF c, id
<1>8. DOMAIN services' = DOMAIN services \ {id} /\ \A s \in DOMAIN services' : services'[s] = services[s]
  BY <1>1
<1>9. /\ IsPartialFcn(services, ServiceId, Key) /\ endpoints \subseteq Endpoint
      /\ \A e \in endpoints : e.srv \in DOMAIN services
      /\ \A e, f \in endpoints : e.id = f.id => e = f
      /\ IsPartialFcn(regions, Region, RegionRec) /\ IsFiniteSet(DOMAIN regions)
      /\ IsPartialFcn(seen, ServiceId, Key)
  BY <1>2 DEF TypeOK, IsCatalog
<1>10. TypeOK'
  <2>1. IsPartialFcn(services', ServiceId, Key)
    BY <1>1, <1>8, <1>9 DEF IsPartialFcn
  <2>2. IsCatalog(services, endpoints, regions)'
    BY <1>1, <1>8, <1>9, <2>1 DEF IsCatalog
  <2> QED BY <1>1, <2>2, CallKeeps
<1>11. \A e \in endpoints' : e \in endpoints /\ e.srv # id /\ services'[e.srv] = services[e.srv] /\ OfferOf(e)' = OfferOf(e)
  <2>1. \A e \in endpoints' : e \in endpoints /\ e.srv # id /\ e.srv \in DOMAIN services'
    BY <1>1, <1>8, <1>9
  <2> QED BY <1>8, <2>1 DEF OfferOf
<1>12. RegionIsOne'
  <2> SUFFICES ASSUME start.regular PROVE InOneRegion(want)'
    BY <1>3 DEF RegionIsOne
  <2>1. InOneRegion(want)
    BY <1>3 DEF Core, RegionIsOne
  <2>2. /\ \A e, f \in endpoints' : services'[e.srv].name = services'[f.srv].name => e.region = f.region
        /\ \A o, p \in want.offers : o.key.name = p.key.name => o.region = p.region
        /\ \A e \in endpoints' : \A o \in want.offers : services'[e.srv].name = o.key.name => e.region = o.region
    BY <1>11, <2>1 DEF InOneRegion
  <2> QED BY <1>3, <2>2 DEF InOneRegion
<1>13. NoDoubleMade'
  <2> SUFFICES ASSUME NoDouble PROVE NoDouble'
    BY <1>3 DEF Core, NoDoubleMade
  <2> QED BY <1>8, <1>11 DEF NoDouble
<1>14. MissingCome' /\ CreatesOnce' /\ EndpointsCome'
  BY <1>3, <1>4 DEF MissingCome, CreatesOnce, EndpointsCome
<1>15. CASE phase = "double"
  <2>1. ASSUME Sound
        PROVE  /\ EndpointsOf(id) = {} /\ id \in DOMAIN services
               /\ seen[id] = services[id] /\ services[id] \in DOMAIN srv_dict /\ srv_dict[services[id]] # id
    <3>1. PICK s \in DOMAIN seen : /\ c = DeleteServiceCall(s) /\ EndpointsOf(s) = {}
                                   /\ seen[s] \in DOMAIN srv_dict /\ srv_dict[seen[s]] # s
      BY <1>3, <1>15, <2>1 DEF Core, DoublesGo
    <3>2. s = id
      BY <1>7, <3>1 DEF id
    <3>3. \A t \in DOMAIN seen \cap DOMAIN services : seen[t] = services[t]
      BY <1>15, <2>1 DEF Core, Indexed, Early
    <3> QED BY <1>1, <3>1, <3>2, <3>3
  <2>2. Sound => endpoints' = endpoints
    BY <1>1, <2>1 DEF EndpointsOf
  <2>3. Indexed'
    <3> SUFFICES ASSUME Sound PROVE Indexed'
      BY <1>5 DEF Indexed
    <3>1. /\ \A k \in DOMAIN srv_dict : srv_dict[k] \in DOMAIN services /\ services[srv_dict[k]] = k
          /\ \A s \in DOMAIN services :
               /\ services[s] \in DOMAIN srv_dict
               /\ srv_dict[services[s]] = s \/ DeleteServiceCall(s) \in Pending
          /\ \A s \in DOMAIN seen \cap DOMAIN services : seen[s] = services[s]
          /\ ToSet(endps) = endpoints
      BY <1>15 DEF Core, Indexed, Early
    <3>2. \A k \in DOMAIN srv_dict : srv_dict[k] \in DOMAIN services' /\ services'[srv_dict[k]] = k
      BY <1>8, <2>1, <3>1
    <3>3. \A s \in DOMAIN services' :
            services'[s] \in DOMAIN srv_dict /\ (srv_dict[services'[s]] = s \/ DeleteServiceCall(s) \in Pending')
      <4>1. \A s \in DOMAIN services' : DeleteServiceCall(s) # c
        BY <1>7, <1>8 DEF id
      <4> QED BY <1>3, <1>8, <3>1, <4>1
    <3>4. \A s \in DOMAIN seen \cap DOMAIN services' : seen[s] = services'[s]
      BY <1>8, <3>1
    <3> QED BY <1>3, <1>6, <1>15, <2>2, <3>1, <3>2, <3>3, <3>4 DEF Indexed
  <2>4. DoublesGo'
    <3> SUFFICES ASSUME Sound, NEW d \in Pending'
                 PROVE  \E s \in DOMAIN seen : /\ d = DeleteServiceCall(s) /\ EndpointsOf(s)' = {}
                                               /\ seen[s] \in DOMAIN srv_dict /\ srv_dict[seen[s]] # s
      BY <1>3, <1>5, <1>6 DEF DoublesGo
    <3>1. PICK s \in DOMAIN seen : /\ d = DeleteServiceCall(s) /\ EndpointsOf(s) = {}
                                   /\ seen[s] \in DOMAIN srv_dict /\ srv_dict[seen[s]] # s
      BY <1>3, <1>15 DEF Core, DoublesGo
    <3>2. EndpointsOf(s)' = {}
      BY <2>2, <3>1 DEF EndpointsOf
    <3> QED BY <3>1, <3>2
  <2>5. UrlsFit'
    <3> SUFFICES ASSUME start.regular PROVE UrlsFit'
      BY <1>3 DEF UrlsFit
    <3>0. Sound
      BY DEF Sound
    <3>1. \A s : EndpointsOf(s)' = EndpointsOf(s)
      BY <2>2, <3>0 DEF EndpointsOf
    <3>2. \A s, o : /\ UrlOk(s, o)' <=> UrlOk(s, o)
                    /\ HasCands(s, o)' <=> HasCands(s, o)
                    /\ HasMatch(s, o)' <=> HasMatch(s, o)
      BY <1>3, <3>1 DEF UrlOk, HasOne, IsAlone, HasCands, HasMatch
    <3>3. /\ \A s \in DOMAIN services : \A o \in want.offers : GetsUrl(s, o) => UrlOk(s, o)
          /\ \A n \in DOMAIN spare : \A o \in want.offers :
               /\ spare[n] \in DOMAIN services /\ o.key.name = n /\ o.key \notin DOMAIN srv_dict
               /\ HasCands(spare[n], o) /\ ~ HasMatch(spare[n], o)
               => UrlOk(spare[n], o)
      BY <1>15 DEF Core, UrlsFit, Early
    <3>4. \A k \in DOMAIN srv_dict : srv_dict[k] \in DOMAIN services' /\ services[srv_dict[k]] = k
      <4>1. \A k \in DOMAIN srv_dict : srv_dict[k] \in DOMAIN services /\ services[srv_dict[k]] = k
        BY <1>15, <3>0 DEF Core, Indexed, Early
      <4> QED BY <1>8, <2>1, <3>0, <4>1
    <3>5. ASSUME NEW s \in DOMAIN services', NEW o \in want.offers, GetsUrl(s, o)' PROVE UrlOk(s, o)'
      <4>1. MayServe(s, o)
        <5>1. \/ services'[s] = o.key
              \/ /\ services'[s].name = o.key.name
                 /\ \E t \in DOMAIN services' : t # s /\ services'[t].name = o.key.name
                 /\ \A t \in DOMAIN services' : services'[t] # o.key
          BY <3>5 DEF GetsUrl, MayServe
        <5>2. CASE services'[s] = o.key
          BY <1>8, <5>2 DEF MayServe
        <5>3. CASE /\ services'[s].name = o.key.name
                   /\ \E t \in DOMAIN services' : t # s /\ services'[t].name = o.key.name
                   /\ \A t \in DOMAIN services' : services'[t] # o.key
          <6>1. services[id] # o.key
            BY <1>8, <2>1, <3>0, <3>4, <5>3
          <6>2. \A t \in DOMAIN services : services[t] # o.key
            BY <1>8, <5>3, <6>1
          <6> QED BY <1>8, <5>3, <6>2 DEF MayServe
        <5> QED BY <5>1, <5>2, <5>3
      <4>2. HasCands(s, o) /\ ~ HasMatch(s, o)
        BY <3>2, <3>5 DEF GetsUrl
      <4>3. UrlOk(s, o)
        BY <1>8, <3>3, <4>1, <4>2 DEF GetsUrl
      <4> QED BY <3>2, <4>3
    <3>6. ASSUME NEW n \in DOMAIN spare, NEW o \in want.offers, NEW s, s = spare[n],
                 s \in DOMAIN services', o.key.name = n, o.key \notin DOMAIN srv_dict,
                 HasCands(s, o)', ~ HasMatch(s, o)'
          PROVE  UrlOk(s, o)'
      BY <1>8, <3>2, <3>3, <3>6
    <3> QED BY <1>3, <1>6, <3>5, <3>6 DEF UrlsFit
  <2>6. ServingStay'
    <3> SUFFICES ASSUME start.regular, start.unique PROVE ServingStay'
      BY <1>3 DEF ServingStay
    <3>1. endpoints' = endpoints
      BY <2>2 DEF Sound
    <3> QED BY <1>3, <1>11, <1>15, <3>1 DEF Core, ServingStay
  <2>7. WantedThere' /\ RegionsCome' /\ EndpointsThere' /\ ExtrasGo'
    BY <1>3, <1>15 DEF WantedThere, RegionsCome, EndpointsThere, ExtrasGo, Late
  <2> QED BY <1>5, <1>10, <1>12, <1>13, <1>14, <2>3, <2>4, <2>5, <2>6, <2>7 DEF Core
<1>16. CASE phase = "extra services"
  <2>1. Sound => services[id] \notin want.services
    BY <1>1, <1>3, <1>16 DEF Core, ExtrasGo, id
  <2>2. \A o \in want.offers : o.key \in want.services
    BY <1>2, WantFacts
  <2>3. ASSUME start.regular
        PROVE  endpoints' = endpoints /\ {OfferOf(e) : e \in endpoints} = want.offers
    <3>1. {OfferOf(e) : e \in endpoints} = want.offers
      BY <1>16, <2>3 DEF Core, EndpointsThere, Late
    <3>2. ASSUME NEW e \in endpoints PROVE e.srv # id
      <4>1. OfferOf(e).key \in want.services
        BY <2>2, <3>1
      <4> QED BY <2>1, <2>3, <4>1 DEF OfferOf, Sound
    <3> QED BY <1>1, <3>1, <3>2
  <2>4. WantedThere'
    <3> SUFFICES ASSUME start.regular, NEW k \in want.services PROVE \E s \in DOMAIN services' : services'[s] = k
      BY <1>3 DEF WantedThere
    <3>1. PICK s \in DOMAIN services : services[s] = k
      BY <1>16 DEF Core, WantedThere, Late
    <3> QED BY <1>8, <2>1, <3>1 DEF Sound
  <2>5. EndpointsThere'
    <3> SUFFICES ASSUME start.regular PROVE EndpointsThere'
      BY <1>3 DEF EndpointsThere
    <3>1. {OfferOf(e)' : e \in endpoints'} = want.offers
      BY <1>11, <2>3
    <3>2. NoDouble'
      <4>1. NoDouble
        BY <1>16 DEF Core, EndpointsThere, Late
      <4> QED BY <1>8, <1>11, <4>1 DEF NoDouble
    <3>3. ASSUME NEW s \in DOMAIN services', services'[s] \notin want.services PROVE DeleteServiceCall(s) \in Pending'
      <4>1. DeleteServiceCall(s) \in Pending
        BY <1>8, <1>16, <3>3 DEF Core, EndpointsThere, Late
      <4>2. DeleteServiceCall(s) # c
        BY <1>7, <1>8 DEF id
      <4> QED BY <1>3, <4>1, <4>2
    <3> QED BY <1>3, <1>16, <3>1, <3>2, <3>3 DEF EndpointsThere
  <2>6. ExtrasGo'
    <3>1. Sound => \A d \in Pending : d.id \in DOMAIN services => services[d.id] \notin want.services
      BY <1>16 DEF Core, ExtrasGo
    <3> QED BY <1>3, <1>5, <1>8, <3>1 DEF ExtrasGo
  <2>7. ServingStay'
    <3> SUFFICES ASSUME start.regular, start.unique PROVE ServingStay'
      BY <1>3 DEF ServingStay
    <3>1. start.serving \subseteq endpoints /\ \A e \in start.serving : OfferOf(e) \in want.offers
      BY <1>3 DEF Core, ServingStay
    <3> QED BY <1>3, <1>11, <1>16, <2>3, <3>1 DEF ServingStay
  <2>8. RegionsCome'
    <3>1. start.regular => \A r \in DOMAIN want.regions : r \in DOMAIN regions /\ regions[r] = want.regions[r]
      BY <1>16 DEF Core, RegionsCome, Late
    <3> QED BY <1>1, <1>3, <1>16, <3>1 DEF RegionsCome
  <2>9. Indexed' /\ DoublesGo' /\ UrlsFit'
    BY <1>3, <1>16 DEF Indexed, DoublesGo, UrlsFit, Early
  <2> QED BY <1>5, <1>10, <1>12, <1>13, <1>14, <2>4, <2>5, <2>6, <2>7, <2>8, <2>9 DEF Core
<1> QED BY <1>4, <1>15, <1>16

\* What the calls for regions keep.
LEMMA RegionFrame ==
  ASSUME Core, phase \in {"regions", "extra regions"}, phase' = phase, NEW op, Calls(op), services' = services, endpoints' = endpoints,
         listing' = listing, IsPartialFcn(regions', Region, RegionRec), IsFiniteSet(DOMAIN regions'), RegionsCome'
  PROVE  Core'
<1>1. TypeOK /\ IsCatalog(services, endpoints, regions)
  BY DEF Core, TypeOK
<1>2. /\ want' = want /\ start' = start /\ Pending' \subseteq Pending
      /\ StartFacts' /\ SyncReaches' /\ (Sound' <=> Sound)
      /\ seen' = seen /\ endps' = endps /\ srv_dict' = srv_dict /\ spare' = spare
  BY <1>1, CallMade, CallKeeps DEF listing
<1>3. TypeOK'
  <2>1. IsCatalog(services, endpoints, regions)'
    BY <1>1 DEF IsCatalog
  <2> QED BY <2>1, CallKeeps
<1>4. Indexed'
  BY <1>2 DEF Core, Indexed, Early
<1>5. WantedThere'
  BY <1>2 DEF Core, WantedThere, Late
<1>6. RegionIsOne'
  BY <1>2, Frame DEF Core, RegionIsOne
<1>7. UrlsFit'
  <2>1. \A s, o : UrlOk(s, o)' <=> UrlOk(s, o)
    BY <1>2, Frame DEF UrlOk, IsAlone
  <2> QED BY <1>2, <2>1, Frame DEF Core, UrlsFit
<1>8. EndpointsThere'
  <2>1. phase = "extra regions" /\ start.regular =>
          /\ {OfferOf(e) : e \in endpoints} = want.offers /\ NoDouble
          /\ \A s \in DOMAIN services : services[s] \in want.services
    BY DEF Core, EndpointsThere, Late
  <2> QED BY <1>2, <2>1, Frame DEF EndpointsThere, Late
<1>9. NoDoubleMade' /\ ServingStay'
  BY <1>2, Frame DEF Core, NoDoubleMade, ServingStay
<1>10. DoublesGo' /\ MissingCome' /\ CreatesOnce' /\ EndpointsCome' /\ ExtrasGo'
  BY DEF DoublesGo, MissingCome, CreatesOnce, EndpointsCome, ExtrasGo
<1> QED BY <1>2, <1>3, <1>4, <1>5, <1>6, <1>7, <1>8, <1>9, <1>10 DEF Core

LEMMA SetRegionKeeps == Core /\ SetRegion => Core'
<1> SUFFICES ASSUME Core, SetRegion PROVE Core'
  OBVIOUS
<1> DEFINE c == Head(calls)
           r == c.region
<1>1. PICK op \in {"create region", "update region"} : Calls(op)
  BY DEF SetRegion
<1>2. regions' = With(regions, r, want.regions[r]) /\ services' = services /\ endpoints' = endpoints /\ listing' = listing
  BY DEF SetRegion
<1>3. TypeOK /\ want \in Wants /\ IsPartialFcn(regions, Region, RegionRec) /\ IsFiniteSet(DOMAIN regions)
  BY DEF Core, TypeOK, IsCatalog
<1>4. /\ phase \in Running /\ c \in CallsIn(phase) /\ c.op = op /\ phase' = phase /\ want' = want /\ start' = start
      /\ c \in Pending /\ Pending = {c} \cup Pending'
  BY <1>1, <1>3, CallMade
<1>5. phase = "regions" /\ r \in Region
  BY <1>1, <1>4, OwnCalls
<1>6. \A d \in Pending : d.region \in DOMAIN want.regions
  BY <1>5 DEF Core, RegionsCome
<1>7. want.regions[r] \in RegionRec
  BY <1>3, <1>4, <1>6, WantFacts DEF IsPartialFcn
<1> DEFINE v == want.regions[r]
<1> HIDE DEF v, r
<1>8. /\ DOMAIN With(regions, r, v) = {r} \cup DOMAIN regions /\ With(regions, r, v)[r] = v
      /\ \A q \in DOMAIN regions : q # r => With(regions, r, v)[q] = regions[q]
      /\ IsPartialFcn(With(regions, r, v), Region, RegionRec)
  <2>1. v \in RegionRec
    BY <1>7 DEF v
  <2> QED BY ONLY <1>3, <1>5, <2>1, WithFacts
<1>9. IsFiniteSet({r} \cup DOMAIN regions)
  <2>1. IsFiniteSet(DOMAIN regions \cup {r})
    BY ONLY <1>3, FS_AddElement
  <2>2. DOMAIN regions \cup {r} = {r} \cup DOMAIN regions
    OBVIOUS
  <2> QED BY ONLY <2>1, <2>2
<1>10. regions' = With(regions, r, v)
  BY <1>2 DEF v
<1>11. RegionsCome'
  <2>1. start.regular => \A q \in DOMAIN want.regions :
          (q \in DOMAIN regions /\ regions[q] = want.regions[q]) \/ \E d \in Pending : d.region = q
    BY <1>5 DEF Core, RegionsCome
  <2>2. ASSUME start.regular, NEW q \in DOMAIN want.regions
        PROVE  (q \in DOMAIN regions' /\ regions'[q] = want.regions[q]) \/ \E d \in Pending' : d.region = q
    <3>1. CASE q = r
      BY <1>8, <1>10, <3>1 DEF v
    <3>2. CASE q # r
      BY <1>4, <1>8, <1>10, <2>1, <2>2, <3>2 DEF r
    <3> QED BY <3>1, <3>2
  <2> QED BY <1>4, <1>5, <1>6, <2>2 DEF RegionsCome
<1> QED BY <1>1, <1>2, <1>4, <1>5, <1>8, <1>9, <1>10, <1>11, RegionFrame

LEMMA DeleteRegionKeeps == Core /\ DeleteRegion => Core'
<1> SUFFICES ASSUME Core, DeleteRegion PROVE Core'
  OBVIOUS
<1> DEFINE c == Head(calls)
           r == c.region
<1>1. /\ Calls("delete region") /\ services' = services /\ endpoints' = endpoints /\ listing' = listing
      /\ regions' = [q \in DOMAIN regions \ {r} |-> regions[q]]
  BY DEF DeleteRegion
<1>2. TypeOK /\ IsPartialFcn(regions, Region, RegionRec) /\ IsFiniteSet(DOMAIN regions)
  BY DEF Core, TypeOK, IsCatalog
<1>3. /\ phase \in Running /\ c \in CallsIn(phase) /\ c.op = "delete region" /\ phase' = phase /\ want' = want /\ start' = start
      /\ c \in Pending /\ Pending = {c} \cup Pending'
  BY <1>1, <1>2, CallMade
<1>4. phase = "extra regions"
  BY <1>3, OwnCalls
<1> HIDE DEF r
<1>5. DOMAIN regions' = DOMAIN regions \ {r} /\ \A q \in DOMAIN regions' : regions'[q] = regions[q]
  BY <1>1
<1>6. IsPartialFcn(regions', Region, RegionRec)
  BY <1>1, <1>2, <1>5 DEF IsPartialFcn
<1>7. IsFiniteSet(DOMAIN regions')
  <2>1. DOMAIN regions' \in SUBSET DOMAIN regions
    BY <1>5
  <2> QED BY <1>2, <2>1, FS_Subset
<1>8. RegionsCome'
  <2>1. /\ \A d \in Pending : d.region \notin DOMAIN want.regions
        /\ \A q \in DOMAIN regions : q \in DOMAIN want.regions \/ \E d \in Pending : d.region = q
        /\ start.regular => \A q \in DOMAIN want.regions : q \in DOMAIN regions /\ regions[q] = want.regions[q]
    BY <1>4 DEF Core, RegionsCome, Late
  <2>2. r \notin DOMAIN want.regions
    BY <1>3, <2>1 DEF r
  <2>3. start.regular => \A q \in DOMAIN want.regions : q \in DOMAIN regions' /\ regions'[q] = want.regions[q]
    BY <1>5, <2>1, <2>2
  <2>4. ASSUME NEW q \in DOMAIN regions' PROVE q \in DOMAIN want.regions \/ \E d \in Pending' : d.region = q
    BY <1>3, <1>5, <2>1 DEF r
  <2> QED BY <1>3, <1>4, <2>1, <2>3, <2>4 DEF RegionsCome
<1> QED BY <1>1, <1>3, <1>4, <1>6, <1>7, <1>8, RegionFrame

-----------------------------------------------------------------------------
(* The calls for endpoints.                                                *)

\* What the calls for endpoints keep.
LEMMA EndpointFrame ==
  ASSUME Core, phase = "endpoints", NEW op, Calls(op),
         services' = services, regions' = regions, listing' = listing, IsCatalog(services, endpoints, regions)'
  PROVE  /\ TypeOK' /\ StartFacts' /\ Indexed' /\ DoublesGo' /\ MissingCome' /\ WantedThere' /\ UrlsFit' /\ RegionsCome'
         /\ EndpointsThere' /\ ExtrasGo' /\ SyncReaches'
         /\ \A e : OfferOf(e)' = OfferOf(e) /\ \A o : IsAt(e, o)' <=> IsAt(e, o)
<1>1. /\ phase' = "endpoints" /\ want' = want /\ start' = start
  BY CallMade DEF Core
<1>2. TypeOK' /\ StartFacts' /\ SyncReaches' /\ (Sound' <=> Sound)
  BY CallKeeps
<1>3. seen' = seen /\ endps' = endps /\ srv_dict' = srv_dict /\ spare' = spare
  BY DEF listing
<1>4. Indexed'
  <2> SUFFICES ASSUME Sound PROVE Indexed'
    BY <1>2 DEF Indexed
  <2>1. /\ \A k \in DOMAIN srv_dict : srv_dict[k] \in DOMAIN services /\ services[srv_dict[k]] = k
        /\ \A s \in DOMAIN services : services[s] \in DOMAIN srv_dict /\ srv_dict[services[s]] = s
        /\ \A s \in DOMAIN seen \cap DOMAIN services : seen[s] = services[s]
    BY DEF Core, Indexed
  <2> QED BY <1>1, <1>3, <2>1 DEF Indexed, Early
<1>5. WantedThere' /\ RegionsCome'
  BY <1>1 DEF Core, WantedThere, RegionsCome
<1>6. DoublesGo' /\ MissingCome' /\ UrlsFit' /\ EndpointsThere' /\ ExtrasGo'
  BY <1>1 DEF DoublesGo, MissingCome, UrlsFit, EndpointsThere, ExtrasGo, Early, Late
<1>7. \A e : OfferOf(e)' = OfferOf(e)
  BY DEF OfferOf
<1>8. \A e, o : IsAt(e, o)' <=> IsAt(e, o)
  BY DEF IsAt
<1> QED BY <1>2, <1>4, <1>5, <1>6, <1>7, <1>8

\* The call is for an offer nothing serves, so the endpoint is the first of
\* its interface.
LEMMA CreateEndpointKeeps == Core /\ CreateEndpoint => Core'
<1> SUFFICES ASSUME Core, CreateEndpoint PROVE Core'
  OBVIOUS
<1> DEFINE c == Head(calls)
           o == c.offer
           used == {e.id : e \in endpoints \cup ToSet(endps)}
           new == [id |-> Fresh(used, MaxEndpoints), srv |-> srv_dict[o.key],
                   region |-> o.region, interface |-> o.interface, url |-> o.url]
<1>1. /\ Calls("create endpoint") /\ ~ IsUsedUp(used, MaxEndpoints)
      /\ o.key \in DOMAIN srv_dict /\ srv_dict[o.key] \in DOMAIN services
      /\ endpoints' = endpoints \cup {new}
      /\ services' = services /\ regions' = regions /\ listing' = listing
  BY DEF CreateEndpoint
<1>2. TypeOK /\ want \in Wants
  BY DEF Core, TypeOK
<1>3. /\ phase \in Running /\ c \in CallsIn(phase) /\ c.op = "create endpoint"
      /\ phase' = phase /\ want' = want /\ start' = start
      /\ c \in Pending /\ Pending = {c} \cup Pending' /\ calls \in Seq(CallsIn(phase))
      /\ \A A : Once(calls, A) => Once(calls', A) /\ (c \in A => c \notin Pending')
  BY <1>1, <1>2, CallMade DEF TypeOK
<1>4. phase = "endpoints" /\ o \in Offer /\ c \in Creates /\ c = CreateCall(o)
  BY <1>3, OwnCalls
<1>5. \A d \in Pending : d \in CallsIn(phase)
  BY <1>3, SeqFacts DEF Pending
<1>6. /\ new.srv = srv_dict[o.key] /\ new.region = o.region /\ new.interface = o.interface /\ new.url = o.url
      /\ new.id \in 1 .. MaxEndpoints /\ new.id \notin used
  BY <1>1, FreshIs
<1>7. IsCatalog(services, endpoints, regions)
  BY <1>2 DEF TypeOK
<1>8. new \in Endpoint
  <2>1. new.srv \in ServiceId
    BY <1>1, <1>6, <1>7 DEF IsCatalog, IsPartialFcn
  <2>2. new.id \in 1 .. MaxEndpoints /\ new.region \in Region /\ new.interface \in Interface /\ new.url \in Url
    BY <1>4, <1>6 DEF Offer
  <2> QED BY <2>1, <2>2 DEF Endpoint
<1> HIDE DEF c, o
<1>9. ASSUME NEW e \in endpoints \cup ToSet(endps) PROVE e.id # new.id
  BY <1>6
<1> HIDE DEF new, used
<1>10. IsCatalog(services, endpoints, regions)'
  <2>1. /\ endpoints' \subseteq Endpoint /\ \A e \in endpoints' : e.srv \in DOMAIN services
        /\ \A e, f \in endpoints' : e.id = f.id => e = f
    BY <1>1, <1>6, <1>7, <1>8, <1>9 DEF IsCatalog
  <2> QED BY <1>1, <1>7, <2>1 DEF IsCatalog
<1>11. /\ TypeOK' /\ StartFacts' /\ Indexed' /\ DoublesGo' /\ MissingCome' /\ WantedThere' /\ UrlsFit' /\ RegionsCome'
       /\ EndpointsThere' /\ ExtrasGo' /\ SyncReaches'
  BY <1>1, <1>4, <1>10, EndpointFrame
<1>12. \A e : OfferOf(e)' = OfferOf(e) /\ \A p : IsAt(e, p)' <=> IsAt(e, p)
  BY <1>1, <1>4, <1>10, EndpointFrame
<1>13. Deleted' = Deleted /\ Updates' = Updates /\ Updated' = Updated
  <2>1. c.op # "delete endpoint" /\ c.op # "update endpoint"
    BY <1>3
  <2> QED BY <1>3, <2>1 DEF Deleted, Updates, Updated
<1>14. ASSUME Sound
       PROVE  /\ services[new.srv] = o.key /\ IsAt(new, o) /\ o \in want.offers
              /\ \A e \in endpoints : ~ IsAt(e, o)
              /\ c \notin Pending' /\ Once(calls', Creates)
              /\ new.id \notin Deleted \cup Updated
  <2>1. services[new.srv] = o.key
    BY <1>1, <1>4, <1>6, <1>14 DEF Core, Indexed
  <2>2. IsAt(new, o)
    BY <1>6, <2>1 DEF IsAt
  <2>3. /\ \A d \in Pending \cap Creates : d.offer \in want.offers /\ \A e \in endpoints : ~ IsAt(e, d.offer)
        /\ Once(calls, Creates)
        /\ Deleted \cup Updated \subseteq {e.id : e \in ToSet(endps)}
    BY <1>4, <1>14 DEF Core, CreatesOnce
  <2>4. o \in want.offers /\ \A e \in endpoints : ~ IsAt(e, o)
    BY <1>3, <1>4, <2>3 DEF o
  <2>5. c \notin Pending' /\ Once(calls', Creates)
    BY <1>3, <1>4, <2>3
  <2>6. new.id \notin Deleted \cup Updated
    BY <1>9, <2>3
  <2> QED BY <2>1, <2>2, <2>4, <2>5, <2>6
<1>15. \A e, f, p : IsAt(e, p) /\ f.srv = e.srv /\ f.region = e.region /\ f.interface = e.interface => IsAt(f, p)
  BY DEF IsAt
<1>16. RegionIsOne'
  <2> SUFFICES ASSUME start.regular PROVE InOneRegion(want)'
    BY <1>3 DEF RegionIsOne
  <2>1. InOneRegion(want)
    BY <1>3 DEF Core, RegionIsOne
  <2>2. services[new.srv] = o.key /\ o \in want.offers
    BY <1>14 DEF Sound
  <2>3. /\ \A e, f \in endpoints : services[e.srv].name = services[f.srv].name => e.region = f.region
        /\ \A q, p \in want.offers : q.key.name = p.key.name => q.region = p.region
        /\ \A e \in endpoints : \A p \in want.offers : services[e.srv].name = p.key.name => e.region = p.region
    BY <2>1 DEF InOneRegion
  <2>4. ASSUME NEW e \in endpoints', NEW p \in want.offers, services[e.srv].name = p.key.name
        PROVE  e.region = p.region
    <3>1. CASE e = new
      BY <1>6, <2>2, <2>3, <2>4, <3>1
    <3>2. CASE e \in endpoints
      BY <2>3, <2>4, <3>2
    <3> QED BY <1>1, <3>1, <3>2
  <2>5. ASSUME NEW e \in endpoints', NEW f \in endpoints', services[e.srv].name = services[f.srv].name
        PROVE  e.region = f.region
    <3>1. CASE e = new
      BY <1>6, <2>2, <2>4, <2>5, <3>1
    <3>2. CASE f = new
      BY <1>6, <2>2, <2>4, <2>5, <3>2
    <3>3. CASE e \in endpoints /\ f \in endpoints
      BY <2>3, <2>5, <3>3
    <3> QED BY <1>1, <3>1, <3>2, <3>3
  <2>6. /\ \A e, f \in endpoints' : services'[e.srv].name = services'[f.srv].name => e.region = f.region
        /\ \A e \in endpoints' : \A p \in want'.offers : services'[e.srv].name = p.key.name => e.region = p.region
    BY <1>1, <1>3, <2>4, <2>5
  <2>7. \A q, p \in want'.offers : q.key.name = p.key.name => q.region = p.region
    BY <1>3, <2>3
  <2> QED BY ONLY <2>6, <2>7 DEF InOneRegion
<1>17. CreatesOnce'
  <2> SUFFICES ASSUME Sound PROVE CreatesOnce'
    BY <1>3 DEF CreatesOnce, Sound
  <2>1. ASSUME NEW d \in Pending', d \in Creates
        PROVE  d.offer \in want.offers /\ \A e \in endpoints' : ~ IsAt(e, d.offer)
    <3>1. d \in Pending /\ d \in CallsIn(phase) /\ d.op = "create endpoint"
      BY <1>3, <1>5, <2>1 DEF Creates
    <3>2. d = CreateCall(d.offer)
      BY <1>4, <3>1, OwnCalls DEF Running
    <3>3. d.offer \in want.offers /\ \A e \in endpoints : ~ IsAt(e, d.offer)
      BY <1>4, <2>1, <3>1 DEF Core, CreatesOnce
    <3>4. d.offer # o
      BY <1>4, <1>14, <2>1, <3>2
    <3>5. ~ IsAt(new, d.offer)
      <4> SUFFICES ASSUME IsAt(new, d.offer) PROVE FALSE
        OBVIOUS
      <4>1. d.offer.key = o.key /\ d.offer.region = o.region /\ d.offer.interface = o.interface
        BY <1>6, <1>14 DEF IsAt
      <4> QED BY <1>2, <1>14, <3>3, <3>4, <4>1, WantFacts
    <3> QED BY <1>1, <3>3, <3>5
  <2>2. Deleted \cup Updated \subseteq {e.id : e \in ToSet(endps)}
    BY <1>4 DEF Core, CreatesOnce
  <2>3. endps' = endps
    BY <1>1 DEF listing
  <2> QED BY <1>3, <1>12, <1>13, <1>14, <2>1, <2>2, <2>3 DEF CreatesOnce
<1>18. EndpointsCome'
  <2> SUFFICES ASSUME start.regular PROVE EndpointsCome'
    BY <1>3 DEF EndpointsCome
  <2>0. /\ Sound /\ IsAt(new, o) /\ o \in want.offers /\ new.url = o.url /\ new.id \notin Deleted \cup Updated
        /\ \A e \in endpoints : ~ IsAt(e, o)
    BY <1>6, <1>14 DEF Sound
  <2>1. ASSUME NEW p \in want.offers
        PROVE  \/ \E e \in endpoints' : IsAt(e, p) /\ e.url = p.url /\ e.id \notin Deleted \cup Updated
               \/ CreateCall(p) \in Pending'
               \/ \E e \in endpoints' : IsAt(e, p) /\ e.id \notin Deleted /\ \E d \in Updates : d.id = e.id /\ d.url = p.url
    <3>1. CASE p = o
      BY <1>1, <2>0, <3>1
    <3>2. CASE p # o
      <4>1. CreateCall(p) # c
        BY <1>4, <3>2 DEF CreateCall
      <4>2. \/ \E e \in endpoints : IsAt(e, p) /\ e.url = p.url /\ e.id \notin Deleted \cup Updated
            \/ CreateCall(p) \in Pending
            \/ \E e \in endpoints : IsAt(e, p) /\ e.id \notin Deleted /\ \E d \in Updates : d.id = e.id /\ d.url = p.url
        BY <1>4 DEF Core, EndpointsCome
      <4> QED BY <1>1, <1>3, <4>1, <4>2
    <3> QED BY <3>1, <3>2
  <2>2. ASSUME NEW e \in endpoints'
        PROVE  \/ e.id \in Deleted
               \/ \E p \in want.offers : IsAt(e, p) /\ e.url = p.url /\ e.id \notin Updated
               \/ \E p \in want.offers : IsAt(e, p) /\ \E d \in Updates : d.id = e.id /\ d.url = p.url
    <3>1. CASE e = new
      BY <2>0, <3>1
    <3>2. CASE e \in endpoints
      BY <1>4, <3>2 DEF Core, EndpointsCome
    <3> QED BY <1>1, <3>1, <3>2
  <2>3. ASSUME NEW e \in endpoints', NEW f \in endpoints', e.srv = f.srv, e.region = f.region, e.interface = f.interface
        PROVE  e = f \/ e.id \in Deleted \/ f.id \in Deleted
    <3>1. CASE e = new /\ f \in endpoints
      BY <1>15, <2>0, <2>3, <3>1
    <3>2. CASE f = new /\ e \in endpoints
      BY <1>15, <2>0, <2>3, <3>2
    <3>3. CASE e \in endpoints /\ f \in endpoints
      BY <1>4, <2>3, <3>3 DEF Core, EndpointsCome
    <3> QED BY <1>1, <3>1, <3>2, <3>3
  <2>4. \A d, g \in Updates : d.id = g.id => d = g
    BY <1>4 DEF Core, EndpointsCome
  <2>5. ASSUME start.repeatable, NEW e \in endpoints', NEW p \in want.offers, e.id \in Updated, services[e.srv] = p.key
        PROVE  IsAt(e, p) /\ HasOne(e.srv)' /\ IsAlone(want, p)
    <3>1. e \in endpoints
      BY <1>1, <2>0, <2>5
    <3>2. IsAt(e, p) /\ HasOne(e.srv) /\ IsAlone(want, p)
      BY <1>4, <2>5, <3>1 DEF Core, EndpointsCome
    <3>3. new.srv # e.srv
      <4> SUFFICES ASSUME new.srv = e.srv PROVE FALSE
        OBVIOUS
      <4>1. o.key = p.key
        BY <2>0, <2>5 DEF IsAt
      <4>2. o = p
        BY <2>0, <3>2, <4>1 DEF IsAlone
      <4> QED BY <2>0, <3>1, <3>2, <4>2
    <3>4. HasOne(e.srv)'
      BY <1>1, <3>2, <3>3 DEF HasOne, EndpointsOf
    <3> QED BY <3>2, <3>4
  <2>6. start.repeatable =>
          \A e \in endpoints' : \A p \in want.offers :
            e.id \in Updated /\ services[e.srv] = p.key => IsAt(e, p) /\ HasOne(e.srv)' /\ IsAlone(want, p)
    BY <2>5
  <2>7. \A p : IsAlone(want, p)' <=> IsAlone(want, p)
    BY <1>3 DEF IsAlone
  <2>8. /\ \A p \in want.offers :
             \/ \E e \in endpoints' : IsAt(e, p)' /\ e.url = p.url /\ e.id \notin Deleted' \cup Updated'
             \/ CreateCall(p) \in Pending'
             \/ \E e \in endpoints' : IsAt(e, p)' /\ e.id \notin Deleted' /\ \E d \in Updates' : d.id = e.id /\ d.url = p.url
        /\ \A e \in endpoints' :
             \/ e.id \in Deleted'
             \/ \E p \in want.offers : IsAt(e, p)' /\ e.url = p.url /\ e.id \notin Updated'
             \/ \E p \in want.offers : IsAt(e, p)' /\ \E d \in Updates' : d.id = e.id /\ d.url = p.url
    BY <1>12, <1>13, <2>1, <2>2
  <2>9. start.repeatable =>
          \A e \in endpoints' : \A p \in want.offers :
            e.id \in Updated' /\ services'[e.srv] = p.key => IsAt(e, p)' /\ HasOne(e.srv)' /\ IsAlone(want, p)'
    BY <1>1, <1>12, <1>13, <2>6, <2>7
  <2> QED BY <1>3, <1>13, <2>3, <2>4, <2>8, <2>9 DEF EndpointsCome
<1>19. NoDoubleMade'
  <2> SUFFICES ASSUME start.unique PROVE NoDouble'
    BY <1>3 DEF NoDoubleMade
  <2>1. NoDouble /\ IsAt(new, o) /\ \A e \in endpoints : ~ IsAt(e, o)
    BY <1>14 DEF Sound, Core, NoDoubleMade
  <2>2. ASSUME NEW e \in endpoints', NEW f \in endpoints', e.srv = f.srv, e.region = f.region, e.interface = f.interface
        PROVE  e = f
    <3>1. CASE e = new /\ f \in endpoints
      BY <1>15, <2>1, <2>2, <3>1
    <3>2. CASE f = new /\ e \in endpoints
      BY <1>15, <2>1, <2>2, <3>2
    <3>3. CASE e \in endpoints /\ f \in endpoints
      BY <2>1, <2>2, <3>3 DEF NoDouble
    <3> QED BY <1>1, <3>1, <3>2, <3>3
  <2> QED BY <1>1, <2>1, <2>2 DEF NoDouble
<1>20. ServingStay'
  <2>1. start.regular /\ start.unique =>
          /\ start.serving \subseteq endpoints /\ \A e \in start.serving : OfferOf(e) \in want.offers
          /\ \A e \in start.serving : e.id \notin Deleted \cup Updated
    BY <1>3, <1>4 DEF Core, ServingStay
  <2> QED BY <1>1, <1>3, <1>12, <1>13, <2>1 DEF ServingStay
<1> QED BY <1>11, <1>16, <1>17, <1>18, <1>19, <1>20 DEF Core

\* Where no endpoint is added or moved: every endpoint has the id and the
\* place it had.
LEMMA PlacesKept ==
  ASSUME Core, phase = "endpoints", services' = services, want' = want, start' = start, phase' = phase,
         \A f \in endpoints' : \E g \in endpoints :
           f.id = g.id /\ f.srv = g.srv /\ f.region = g.region /\ f.interface = g.interface,
         \A f, h \in endpoints' : f.id = h.id => f = h
  PROVE  /\ RegionIsOne' /\ NoDoubleMade'
         /\ \A s : HasOne(s) => HasOne(s)'
         /\ \A c \in Creates : (\A e \in endpoints : ~ IsAt(e, c.offer)) => \A e \in endpoints' : ~ IsAt(e, c.offer)
<1>1. ASSUME NEW f \in endpoints', NEW h \in endpoints', NEW g \in endpoints, NEW i \in endpoints, g = i, f.id = g.id, h.id = i.id
      PROVE  f = h
  BY <1>1
<1>2. RegionIsOne'
  <2> SUFFICES ASSUME start.regular PROVE InOneRegion(want)'
    BY DEF RegionIsOne
  <2>1. InOneRegion(want)
    BY DEF Core, RegionIsOne, Running
  <2>2. ASSUME NEW e \in endpoints', NEW p \in want.offers, services[e.srv].name = p.key.name
        PROVE  e.region = p.region
    <3>1. PICK g \in endpoints : e.srv = g.srv /\ e.region = g.region
      OBVIOUS
    <3> QED BY <2>1, <2>2, <3>1 DEF InOneRegion
  <2>3. ASSUME NEW e \in endpoints', NEW f \in endpoints', services[e.srv].name = services[f.srv].name
        PROVE  e.region = f.region
    <3>1. PICK g \in endpoints : e.srv = g.srv /\ e.region = g.region
      OBVIOUS
    <3>2. PICK h \in endpoints : f.srv = h.srv /\ f.region = h.region
      OBVIOUS
    <3> QED BY <2>1, <2>3, <3>1, <3>2 DEF InOneRegion
  <2> QED BY <2>1, <2>2, <2>3 DEF InOneRegion
<1>3. NoDoubleMade'
  <2> SUFFICES ASSUME start.unique PROVE NoDouble'
    BY DEF NoDoubleMade
  <2>1. NoDouble
    BY DEF Core, NoDoubleMade
  <2>2. ASSUME NEW e \in endpoints', NEW f \in endpoints', e.srv = f.srv, e.region = f.region, e.interface = f.interface
        PROVE  e = f
    <3>1. PICK g \in endpoints : e.id = g.id /\ e.srv = g.srv /\ e.region = g.region /\ e.interface = g.interface
      OBVIOUS
    <3>2. PICK h \in endpoints : f.id = h.id /\ f.srv = h.srv /\ f.region = h.region /\ f.interface = h.interface
      OBVIOUS
    <3>3. \A a, b \in endpoints : a.srv = b.srv /\ a.region = b.region /\ a.interface = b.interface => a = b
      BY <2>1 DEF NoDouble
    <3>4. g.srv = h.srv /\ g.region = h.region /\ g.interface = h.interface
      BY ONLY <2>2, <3>1, <3>2
    <3>5. g = h
      BY ONLY <3>3, <3>4
    <3> QED BY <1>1, <3>1, <3>2, <3>5
  <2> QED BY <2>1, <2>2 DEF NoDouble
<1>4. ASSUME NEW s, HasOne(s) PROVE HasOne(s)'
  <2> SUFFICES ASSUME NEW e \in endpoints', NEW f \in endpoints', e.srv = s, f.srv = s PROVE e = f
    BY DEF HasOne, EndpointsOf
  <2>1. PICK g \in endpoints : e.id = g.id /\ e.srv = g.srv
    OBVIOUS
  <2>2. PICK h \in endpoints : f.id = h.id /\ f.srv = h.srv
    OBVIOUS
  <2>3. g = h
    BY <1>4, <2>1, <2>2 DEF HasOne, EndpointsOf
  <2> QED BY <1>1, <2>1, <2>2, <2>3
<1>5. ASSUME NEW c \in Creates, \A e \in endpoints : ~ IsAt(e, c.offer), NEW e \in endpoints'
      PROVE  ~ IsAt(e, c.offer)
  <2>1. PICK g \in endpoints : e.srv = g.srv /\ e.region = g.region /\ e.interface = g.interface
    OBVIOUS
  <2> QED BY <1>5, <2>1 DEF IsAt
<1> QED BY <1>2, <1>3, <1>4, <1>5

\* The endpoint that gets the URL is not one that serves already.
LEMMA UpdateEndpointKeeps == Core /\ UpdateEndpoint => Core'
<1> SUFFICES ASSUME Core, UpdateEndpoint PROVE Core'
  OBVIOUS
<1> DEFINE c == Head(calls)
<1>1. PICK e \in endpoints : e.id = c.id /\ endpoints' = (endpoints \ {e}) \cup {[e EXCEPT !.url = c.url]}
  BY DEF UpdateEndpoint
<1> DEFINE new == [e EXCEPT !.url = c.url]
<1>2. /\ Calls("update endpoint") /\ services' = services /\ regions' = regions /\ listing' = listing
      /\ endpoints' = (endpoints \ {e}) \cup {new}
  BY <1>1 DEF UpdateEndpoint
<1>3. TypeOK /\ IsCatalog(services, endpoints, regions)
  BY DEF Core, TypeOK
<1>4. /\ phase \in Running /\ c \in CallsIn(phase) /\ c.op = "update endpoint"
      /\ phase' = phase /\ want' = want /\ start' = start
      /\ c \in Pending /\ Pending = {c} \cup Pending'
      /\ \A A : Once(calls, A) => Once(calls', A)
  BY <1>2, <1>3, CallMade
<1>5. phase = "endpoints" /\ c.url \in Url
  BY <1>4, OwnCalls
<1>6. c \in Updates /\ c.id \in Updated
  BY <1>4 DEF Updates, Updated
<1> HIDE DEF c
<1>7. e \in Endpoint
  BY <1>3 DEF IsCatalog
<1>8. /\ new \in Endpoint /\ new.id = e.id /\ new.srv = e.srv /\ new.region = e.region
      /\ new.interface = e.interface /\ new.url = c.url
  BY <1>5, <1>7 DEF Endpoint
<1> HIDE DEF new
<1>9. /\ endpoints \subseteq Endpoint /\ \A f \in endpoints : f.srv \in DOMAIN services
      /\ \A f, h \in endpoints : f.id = h.id => f = h
  BY <1>3 DEF IsCatalog
<1>10. ASSUME NEW f \in endpoints'
       PROVE  f = new \/ (f \in endpoints /\ f # e /\ f.id # e.id)
  BY <1>2, <1>9
<1>11. \A f \in endpoints' : \E g \in endpoints :
         f.id = g.id /\ f.srv = g.srv /\ f.region = g.region /\ f.interface = g.interface
  BY <1>8, <1>10
<1>12. \A f, h \in endpoints' : f.id = h.id => f = h
  BY <1>8, <1>9, <1>10
<1>13. IsCatalog(services, endpoints, regions)'
  <2>1. endpoints' \subseteq Endpoint /\ \A f \in endpoints' : f.srv \in DOMAIN services
    BY <1>2, <1>8, <1>9
  <2> QED BY <1>2, <1>3, <1>12, <2>1 DEF IsCatalog
<1>14. /\ TypeOK' /\ StartFacts' /\ Indexed' /\ DoublesGo' /\ MissingCome' /\ WantedThere' /\ UrlsFit' /\ RegionsCome'
       /\ EndpointsThere' /\ ExtrasGo' /\ SyncReaches'
  BY <1>2, <1>5, <1>13, EndpointFrame
<1>15. \A f : OfferOf(f)' = OfferOf(f) /\ \A o : IsAt(f, o)' <=> IsAt(f, o)
  BY <1>2, <1>5, <1>13, EndpointFrame
<1>16. /\ RegionIsOne' /\ NoDoubleMade'
       /\ \A s : HasOne(s) => HasOne(s)'
       /\ \A d \in Creates : (\A f \in endpoints : ~ IsAt(f, d.offer)) => \A f \in endpoints' : ~ IsAt(f, d.offer)
  BY <1>2, <1>4, <1>5, <1>11, <1>12, PlacesKept
<1>17. Deleted' = Deleted /\ Updates' \subseteq Updates /\ Updated' \subseteq Updated /\ Updates \subseteq Updates' \cup {c}
  <2>1. c.op # "delete endpoint"
    BY <1>4
  <2> QED BY <1>4, <2>1 DEF Deleted, Updates, Updated
<1>18. \A o : IsAt(new, o) <=> IsAt(e, o)
  BY <1>8 DEF IsAt
<1>19. CreatesOnce'
  <2> SUFFICES ASSUME Sound PROVE CreatesOnce'
    BY <1>4 DEF CreatesOnce, Sound
  <2>1. /\ \A d \in Pending \cap Creates : d.offer \in want.offers /\ \A f \in endpoints : ~ IsAt(f, d.offer)
        /\ Once(calls, Creates)
        /\ Deleted \cup Updated \subseteq {f.id : f \in ToSet(endps)}
    BY <1>5 DEF Core, CreatesOnce
  <2>2. \A d \in Pending' \cap Creates : d.offer \in want.offers /\ \A f \in endpoints' : ~ IsAt(f, d.offer)
    BY <1>4, <1>16, <2>1
  <2>3. endps' = endps
    BY <1>2 DEF listing
  <2> QED BY <1>4, <1>15, <1>17, <2>1, <2>2, <2>3 DEF CreatesOnce
<1>20. EndpointsCome'
  <2> SUFFICES ASSUME start.regular PROVE EndpointsCome'
    BY <1>4 DEF EndpointsCome
  <2>1. \A d, g \in Updates : d.id = g.id => d = g
    BY <1>5 DEF Core, EndpointsCome
  <2>2. c \in Updates' \/ c.id \notin Updated'
    <3> SUFFICES ASSUME c.id \in Updated' PROVE c \in Updates'
      OBVIOUS
    <3>1. PICK d \in Updates' : d.id = c.id
      BY DEF Updated
    <3> QED BY <1>6, <1>17, <2>1, <3>1
  <2>3. ASSUME NEW f \in endpoints, f # e PROVE f \in endpoints' /\ f.id # c.id
    BY <1>1, <1>2, <1>9, <2>3
  <2>4. new \in endpoints' /\ new.id = c.id
    BY <1>1, <1>2, <1>8
  <2>5. ASSUME NEW f \in endpoints', NEW o, NEW d \in Updates, IsAt(f, o), d.id = f.id, d.url = o.url
        PROVE  \/ f.url = o.url /\ f.id \notin Updated'
               \/ d \in Updates'
    <3>1. CASE d = c
      <4>1. f = new
        BY <1>1, <1>10, <2>5, <3>1
      <4> QED BY <1>8, <2>2, <2>4, <2>5, <3>1, <4>1
    <3>2. CASE d # c
      BY <1>17, <3>2
    <3> QED BY <3>1, <3>2
  <2>6. ASSUME NEW o \in want.offers
        PROVE  \/ \E f \in endpoints' : IsAt(f, o) /\ f.url = o.url /\ f.id \notin Deleted \cup Updated'
               \/ CreateCall(o) \in Pending'
               \/ \E f \in endpoints' : IsAt(f, o) /\ f.id \notin Deleted /\ \E d \in Updates' : d.id = f.id /\ d.url = o.url
    <3>1. \/ \E f \in endpoints : IsAt(f, o) /\ f.url = o.url /\ f.id \notin Deleted \cup Updated
          \/ CreateCall(o) \in Pending
          \/ \E f \in endpoints : IsAt(f, o) /\ f.id \notin Deleted /\ \E d \in Updates : d.id = f.id /\ d.url = o.url
      BY <1>5 DEF Core, EndpointsCome
    <3>2. CASE \E f \in endpoints : IsAt(f, o) /\ f.url = o.url /\ f.id \notin Deleted \cup Updated
      <4>1. PICK f \in endpoints : IsAt(f, o) /\ f.url = o.url /\ f.id \notin Deleted \cup Updated
        BY <3>2
      <4>2. f # e
        BY <1>1, <1>6, <4>1
      <4> QED BY <1>17, <2>3, <4>1, <4>2
    <3>3. CASE CreateCall(o) \in Pending
      <4>1. CreateCall(o) # c
        <5>1. CreateCall(o).op = "create endpoint"
          BY DEF CreateCall
        <5>2. c.op = "update endpoint"
          BY <1>4
        <5> QED BY ONLY <5>1, <5>2
      <4> QED BY <1>4, <3>3, <4>1
    <3>4. CASE \E f \in endpoints : IsAt(f, o) /\ f.id \notin Deleted /\ \E d \in Updates : d.id = f.id /\ d.url = o.url
      <4>1. PICK f \in endpoints, d \in Updates : IsAt(f, o) /\ f.id \notin Deleted /\ d.id = f.id /\ d.url = o.url
        BY <3>4
      <4>2. PICK g \in endpoints' : IsAt(g, o) /\ g.id = f.id
        BY <1>8, <1>18, <2>3, <2>4, <4>1
      <4>3. g.id \notin Deleted /\ d.id = g.id
        BY <4>1, <4>2
      <4> QED BY <2>5, <4>1, <4>2, <4>3
    <3> QED BY <3>1, <3>2, <3>3, <3>4
  <2>7. ASSUME NEW f \in endpoints'
        PROVE  \/ f.id \in Deleted
               \/ \E o \in want.offers : IsAt(f, o) /\ f.url = o.url /\ f.id \notin Updated'
               \/ \E o \in want.offers : IsAt(f, o) /\ \E d \in Updates' : d.id = f.id /\ d.url = o.url
    <3>1. PICK g \in endpoints : g.id = f.id /\ (f = new => g = e) /\ (f # new => g = f)
      BY <1>8, <1>10
    <3>2. \/ g.id \in Deleted
          \/ \E o \in want.offers : IsAt(g, o) /\ g.url = o.url /\ g.id \notin Updated
          \/ \E o \in want.offers : IsAt(g, o) /\ \E d \in Updates : d.id = g.id /\ d.url = o.url
      BY <1>5 DEF Core, EndpointsCome
    <3>3. CASE \E o \in want.offers : IsAt(g, o) /\ g.url = o.url /\ g.id \notin Updated
      <4>1. g # e
        BY <1>1, <1>6, <3>3
      <4> QED BY <1>17, <3>1, <3>3, <4>1
    <3>4. CASE \E o \in want.offers : IsAt(g, o) /\ \E d \in Updates : d.id = g.id /\ d.url = o.url
      <4>1. PICK o \in want.offers, d \in Updates : IsAt(g, o) /\ d.id = g.id /\ d.url = o.url
        BY <3>4
      <4>2. IsAt(f, o) /\ d.id = f.id
        BY <1>18, <3>1, <4>1
      <4> QED BY <2>5, <4>1, <4>2
    <3> QED BY <3>1, <3>2, <3>3, <3>4
  <2>8. ASSUME NEW f \in endpoints', NEW h \in endpoints', f.srv = h.srv, f.region = h.region, f.interface = h.interface
        PROVE  f = h \/ f.id \in Deleted \/ h.id \in Deleted
    <3>1. PICK g \in endpoints : f.id = g.id /\ f.srv = g.srv /\ f.region = g.region /\ f.interface = g.interface
      BY <1>11
    <3>2. PICK i \in endpoints : h.id = i.id /\ h.srv = i.srv /\ h.region = i.region /\ h.interface = i.interface
      BY <1>11
    <3>3. \A a, b \in endpoints : a.srv = b.srv /\ a.region = b.region /\ a.interface = b.interface
                                     => a = b \/ a.id \in Deleted \/ b.id \in Deleted
      BY <1>5 DEF Core, EndpointsCome
    <3>4. g.srv = i.srv /\ g.region = i.region /\ g.interface = i.interface
      BY ONLY <2>8, <3>1, <3>2
    <3>5. g = i \/ g.id \in Deleted \/ i.id \in Deleted
      BY ONLY <3>3, <3>4
    <3> QED BY <1>12, <3>1, <3>2, <3>5
  <2>9. ASSUME start.repeatable, NEW f \in endpoints', NEW o \in want.offers, f.id \in Updated', services[f.srv] = o.key
        PROVE  IsAt(f, o) /\ HasOne(f.srv)' /\ IsAlone(want, o)
    <3>1. PICK g \in endpoints : f.id = g.id /\ f.srv = g.srv /\ f.region = g.region /\ f.interface = g.interface
      BY <1>11
    <3>2. IsAt(g, o) /\ HasOne(g.srv) /\ IsAlone(want, o)
      BY <1>5, <1>17, <2>9, <3>1 DEF Core, EndpointsCome
    <3>3. IsAt(f, o)
      BY <3>1, <3>2 DEF IsAt
    <3>4. HasOne(g.srv)'
      <4> DEFINE s == g.srv
      <4>1. HasOne(s) => HasOne(s)'
        <5> HIDE DEF s
        <5> QED BY <1>16
      <4> QED BY <3>2, <4>1
    <3> QED BY <3>1, <3>2, <3>3, <3>4
  <2>10. /\ \A o \in want.offers :
              \/ \E f \in endpoints' : IsAt(f, o)' /\ f.url = o.url /\ f.id \notin Deleted' \cup Updated'
              \/ CreateCall(o) \in Pending'
              \/ \E f \in endpoints' : IsAt(f, o)' /\ f.id \notin Deleted' /\ \E d \in Updates' : d.id = f.id /\ d.url = o.url
         /\ \A f \in endpoints' :
              \/ f.id \in Deleted'
              \/ \E o \in want.offers : IsAt(f, o)' /\ f.url = o.url /\ f.id \notin Updated'
              \/ \E o \in want.offers : IsAt(f, o)' /\ \E d \in Updates' : d.id = f.id /\ d.url = o.url
    BY <1>15, <1>17, <2>6, <2>7
  <2>11. start.repeatable =>
           \A f \in endpoints' : \A o \in want.offers :
             f.id \in Updated' /\ services'[f.srv] = o.key => IsAt(f, o)' /\ HasOne(f.srv)' /\ IsAlone(want, o)'
    <3>1. \A o : IsAlone(want, o)' <=> IsAlone(want, o)
      BY <1>4 DEF IsAlone
    <3>2. start.repeatable =>
            \A f \in endpoints' : \A o \in want.offers :
              f.id \in Updated' /\ services[f.srv] = o.key => IsAt(f, o) /\ HasOne(f.srv)' /\ IsAlone(want, o)
      BY <2>9
    <3> QED BY <1>2, <1>15, <3>1, <3>2
  <2> QED BY <1>4, <1>17, <2>1, <2>8, <2>10, <2>11 DEF EndpointsCome
<1>21. ServingStay'
  <2> SUFFICES ASSUME start.regular, start.unique PROVE ServingStay'
    BY <1>4 DEF ServingStay
  <2>1. /\ start.serving \subseteq endpoints /\ \A f \in start.serving : OfferOf(f) \in want.offers
        /\ \A f \in start.serving : f.id \notin Deleted \cup Updated
    BY <1>4, <1>5 DEF Core, ServingStay
  <2>2. e \notin start.serving
    BY <1>1, <1>6, <2>1
  <2> QED BY <1>2, <1>4, <1>15, <1>17, <2>1, <2>2 DEF ServingStay
<1> QED BY <1>14, <1>16, <1>19, <1>20, <1>21 DEF Core

\* The endpoint that is deleted is not one that serves, and another serves
\* what it served.
LEMMA DeleteEndpointKeeps == Core /\ DeleteEndpoint => Core'
<1> SUFFICES ASSUME Core, DeleteEndpoint PROVE Core'
  OBVIOUS
<1> DEFINE c == Head(calls)
<1>1. PICK e \in endpoints : e.id = c.id /\ endpoints' = endpoints \ {e}
  BY DEF DeleteEndpoint
<1>2. Calls("delete endpoint") /\ services' = services /\ regions' = regions /\ listing' = listing
  BY DEF DeleteEndpoint
<1>3. TypeOK /\ IsCatalog(services, endpoints, regions)
  BY DEF Core, TypeOK
<1>4. /\ phase \in Running /\ c \in CallsIn(phase) /\ c.op = "delete endpoint"
      /\ phase' = phase /\ want' = want /\ start' = start
      /\ c \in Pending /\ Pending = {c} \cup Pending'
      /\ \A A : Once(calls, A) => Once(calls', A)
  BY <1>2, <1>3, CallMade
<1>5. phase \in {"double", "endpoints"}
  BY <1>4, OwnCalls
<1> HIDE DEF c
<1>6. /\ \A f \in endpoints : f.srv \in DOMAIN services
      /\ \A f, h \in endpoints : f.id = h.id => f = h
  BY <1>3 DEF IsCatalog
<1>7. \A f \in endpoints' : f \in endpoints /\ f # e /\ f.id # e.id
  BY <1>1, <1>6
<1>8. \A f, h \in endpoints' : f.id = h.id => f = h
  BY <1>6, <1>7
<1>9. IsCatalog(services, endpoints, regions)'
  BY <1>1, <1>2, <1>3 DEF IsCatalog
<1>10. CASE phase = "double"
  <2>1. ~ Sound
    <3> SUFFICES ASSUME Sound PROVE FALSE
      OBVIOUS
    <3>1. PICK s \in DOMAIN seen : c = DeleteServiceCall(s)
      BY <1>4, <1>10 DEF Core, DoublesGo
    <3> QED BY <1>4, <3>1 DEF DeleteServiceCall
  <2>2. ~ start.regular /\ ~ start.unique /\ start' = start /\ phase' = "double"
    BY <1>4, <1>10, <2>1 DEF Sound
  <2>3. TypeOK' /\ StartFacts' /\ SyncReaches'
    BY <1>2, <1>9, CallKeeps
  <2>4. Indexed' /\ DoublesGo' /\ MissingCome' /\ WantedThere' /\ RegionIsOne' /\ UrlsFit' /\ RegionsCome'
    BY <2>2 DEF Indexed, DoublesGo, MissingCome, WantedThere, RegionIsOne, UrlsFit, RegionsCome, Sound
  <2>5. CreatesOnce' /\ EndpointsCome' /\ EndpointsThere' /\ ExtrasGo' /\ NoDoubleMade' /\ ServingStay'
    BY <2>2 DEF CreatesOnce, EndpointsCome, EndpointsThere, ExtrasGo, NoDoubleMade, ServingStay, Sound
  <2> QED BY <2>3, <2>4, <2>5 DEF Core
<1>11. CASE phase = "endpoints"
  <2>1. /\ TypeOK' /\ StartFacts' /\ Indexed' /\ DoublesGo' /\ MissingCome' /\ WantedThere' /\ UrlsFit' /\ RegionsCome'
        /\ EndpointsThere' /\ ExtrasGo' /\ SyncReaches'
    BY <1>2, <1>9, <1>11, EndpointFrame
  <2>2. \A f : OfferOf(f)' = OfferOf(f) /\ \A o : IsAt(f, o)' <=> IsAt(f, o)
    BY <1>2, <1>9, <1>11, EndpointFrame
  <2>3. /\ RegionIsOne' /\ NoDoubleMade'
        /\ \A s : HasOne(s) => HasOne(s)'
        /\ \A d \in Creates : (\A f \in endpoints : ~ IsAt(f, d.offer)) => \A f \in endpoints' : ~ IsAt(f, d.offer)
    BY <1>2, <1>4, <1>7, <1>8, <1>11, PlacesKept
  <2>4. /\ e.id \in Deleted /\ Deleted' \subseteq Deleted /\ Deleted \subseteq Deleted' \cup {e.id}
        /\ Updates' = Updates /\ Updated' = Updated
    <3>1. c.op # "update endpoint" /\ c.id = e.id
      BY <1>1, <1>4
    <3> QED BY <1>4, <3>1 DEF Deleted, Updates, Updated
  <2>5. \A f \in endpoints : f.id \notin Deleted => f \in endpoints'
    BY <1>1, <2>4
  <2>6. \A f \in endpoints' : f \in endpoints /\ (f.id \in Deleted => f.id \in Deleted')
    BY <1>7, <2>4
  <2>7. CreatesOnce'
    <3> SUFFICES ASSUME Sound PROVE CreatesOnce'
      BY <1>4 DEF CreatesOnce, Sound
    <3>1. /\ \A d \in Pending \cap Creates : d.offer \in want.offers /\ \A f \in endpoints : ~ IsAt(f, d.offer)
          /\ Once(calls, Creates)
          /\ Deleted \cup Updated \subseteq {f.id : f \in ToSet(endps)}
      BY <1>11 DEF Core, CreatesOnce
    <3>2. \A d \in Pending' \cap Creates : d.offer \in want.offers /\ \A f \in endpoints' : ~ IsAt(f, d.offer)
      BY <1>4, <2>3, <3>1
    <3>3. endps' = endps
      BY <1>2 DEF listing
    <3> QED BY <1>4, <2>2, <2>4, <3>1, <3>2, <3>3 DEF CreatesOnce
  <2>8. EndpointsCome'
    <3> SUFFICES ASSUME start.regular PROVE EndpointsCome'
      BY <1>4 DEF EndpointsCome
    <3>1. ASSUME NEW o \in want.offers
          PROVE  \/ \E f \in endpoints' : IsAt(f, o) /\ f.url = o.url /\ f.id \notin Deleted' \cup Updated
                 \/ CreateCall(o) \in Pending'
                 \/ \E f \in endpoints' : IsAt(f, o) /\ f.id \notin Deleted' /\ \E d \in Updates : d.id = f.id /\ d.url = o.url
      <4>1. \/ \E f \in endpoints : IsAt(f, o) /\ f.url = o.url /\ f.id \notin Deleted \cup Updated
            \/ CreateCall(o) \in Pending
            \/ \E f \in endpoints : IsAt(f, o) /\ f.id \notin Deleted /\ \E d \in Updates : d.id = f.id /\ d.url = o.url
        BY <1>11 DEF Core, EndpointsCome
      <4>2. CASE \E f \in endpoints : IsAt(f, o) /\ f.url = o.url /\ f.id \notin Deleted \cup Updated
        BY <2>4, <2>5, <4>2
      <4>3. CASE CreateCall(o) \in Pending
        <5>1. CreateCall(o).op = "create endpoint"
          BY DEF CreateCall
        <5>2. c.op = "delete endpoint" /\ Pending = {c} \cup Pending'
          BY <1>4
        <5> QED BY <4>3, <5>1, <5>2
      <4>4. CASE \E f \in endpoints : IsAt(f, o) /\ f.id \notin Deleted /\ \E d \in Updates : d.id = f.id /\ d.url = o.url
        BY <2>4, <2>5, <4>4
      <4> QED BY <4>1, <4>2, <4>3, <4>4
    <3>2. ASSUME NEW f \in endpoints'
          PROVE  \/ f.id \in Deleted'
                 \/ \E o \in want.offers : IsAt(f, o) /\ f.url = o.url /\ f.id \notin Updated
                 \/ \E o \in want.offers : IsAt(f, o) /\ \E d \in Updates : d.id = f.id /\ d.url = o.url
      <4>1. \/ f.id \in Deleted
            \/ \E o \in want.offers : IsAt(f, o) /\ f.url = o.url /\ f.id \notin Updated
            \/ \E o \in want.offers : IsAt(f, o) /\ \E d \in Updates : d.id = f.id /\ d.url = o.url
        BY <1>11, <2>6 DEF Core, EndpointsCome
      <4> QED BY <2>6, <4>1
    <3>3. ASSUME NEW f \in endpoints', NEW h \in endpoints', f.srv = h.srv, f.region = h.region, f.interface = h.interface
          PROVE  f = h \/ f.id \in Deleted' \/ h.id \in Deleted'
      <4>1. f = h \/ f.id \in Deleted \/ h.id \in Deleted
        BY <1>11, <2>6, <3>3 DEF Core, EndpointsCome
      <4> QED BY <2>6, <4>1
    <3>4. \A d, g \in Updates : d.id = g.id => d = g
      BY <1>11 DEF Core, EndpointsCome
    <3>5. ASSUME start.repeatable, NEW f \in endpoints', NEW o \in want.offers, f.id \in Updated, services[f.srv] = o.key
          PROVE  IsAt(f, o) /\ HasOne(f.srv)' /\ IsAlone(want, o)
      <4>1. IsAt(f, o) /\ HasOne(f.srv) /\ IsAlone(want, o)
        BY <1>11, <2>6, <3>5 DEF Core, EndpointsCome
      <4>2. HasOne(f.srv)'
        <5> DEFINE s == f.srv
        <5>1. HasOne(s) => HasOne(s)'
          <6> HIDE DEF s
          <6> QED BY <2>3
        <5> QED BY <4>1, <5>1
      <4> QED BY <4>1, <4>2
    <3>6. /\ \A o \in want.offers :
               \/ \E f \in endpoints' : IsAt(f, o)' /\ f.url = o.url /\ f.id \notin Deleted' \cup Updated'
               \/ CreateCall(o) \in Pending'
               \/ \E f \in endpoints' : IsAt(f, o)' /\ f.id \notin Deleted' /\ \E d \in Updates' : d.id = f.id /\ d.url = o.url
          /\ \A f \in endpoints' :
               \/ f.id \in Deleted'
               \/ \E o \in want.offers : IsAt(f, o)' /\ f.url = o.url /\ f.id \notin Updated'
               \/ \E o \in want.offers : IsAt(f, o)' /\ \E d \in Updates' : d.id = f.id /\ d.url = o.url
      BY <2>2, <2>4, <3>1, <3>2
    <3>7. start.repeatable =>
            \A f \in endpoints' : \A o \in want.offers :
              f.id \in Updated' /\ services'[f.srv] = o.key => IsAt(f, o)' /\ HasOne(f.srv)' /\ IsAlone(want, o)'
      <4>1. \A o : IsAlone(want, o)' <=> IsAlone(want, o)
        BY <1>4 DEF IsAlone
      <4>2. start.repeatable =>
              \A f \in endpoints' : \A o \in want.offers :
                f.id \in Updated /\ services[f.srv] = o.key => IsAt(f, o) /\ HasOne(f.srv)' /\ IsAlone(want, o)
        BY <3>5
      <4> QED BY <1>2, <2>2, <2>4, <4>1, <4>2
    <3> QED BY <1>4, <2>4, <3>3, <3>4, <3>6, <3>7 DEF EndpointsCome
  <2>9. ServingStay'
    <3> SUFFICES ASSUME start.regular, start.unique PROVE ServingStay'
      BY <1>4 DEF ServingStay
    <3>1. /\ start.serving \subseteq endpoints /\ \A f \in start.serving : OfferOf(f) \in want.offers
          /\ \A f \in start.serving : f.id \notin Deleted \cup Updated
      BY <1>4, <1>11 DEF Core, ServingStay
    <3> QED BY <1>4, <2>2, <2>4, <2>5, <3>1 DEF ServingStay
  <2> QED BY <2>1, <2>3, <2>7, <2>8, <2>9 DEF Core
<1> QED BY <1>5, <1>10, <1>11

-----------------------------------------------------------------------------
(* The theorems.                                                           *)

\* A step of a sync that goes on.
LEMMA RunningStepKeeps ==
  ASSUME Core, \/ \E w \in Wants, d \in BOOLEAN : Begin(w, d)
               \/ EnterServices \/ EnterRegions \/ EnterEndpoints \/ EnterExtraServices \/ EnterExtraRegions
               \/ CreateService \/ UpdateService \/ DeleteService \/ SetRegion \/ DeleteRegion
               \/ CreateEndpoint \/ UpdateEndpoint \/ DeleteEndpoint
  PROVE  Core' /\ phase' \in Running
<1>1. CASE \E w \in Wants, d \in BOOLEAN : Begin(w, d)
  <2>1. PICK w \in Wants, d \in BOOLEAN : Begin(w, d)
    BY <1>1
  <2>2. Core'
    BY <2>1, BeginKeeps
  <2>3. phase' = "double"
    BY <2>1 DEF Begin
  <2> QED BY <2>2, <2>3 DEF Running
<1>2. CASE EnterServices \/ EnterRegions \/ EnterEndpoints \/ EnterExtraServices \/ EnterExtraRegions
  <2>1. Core'
    BY <1>2, EnterServicesKeeps, EnterRegionsKeeps, EnterEndpointsKeeps, EnterExtraServicesKeeps, EnterExtraRegionsKeeps
  <2>2. phase' \in Running
    BY <1>2 DEF EnterServices, EnterRegions, EnterEndpoints, EnterExtraServices, EnterExtraRegions, Enter, Running
  <2> QED BY <2>1, <2>2
<1>3. CASE \/ CreateService \/ UpdateService \/ DeleteService \/ SetRegion \/ DeleteRegion
           \/ CreateEndpoint \/ UpdateEndpoint \/ DeleteEndpoint
  <2>1. Core'
    BY <1>3, CreateServiceKeeps, UpdateServiceKeeps, DeleteServiceKeeps, SetRegionKeeps, DeleteRegionKeeps,
       CreateEndpointKeeps, UpdateEndpointKeeps, DeleteEndpointKeeps
  <2>2. PICK op : Calls(op)
    BY <1>3 DEF CreateService, UpdateService, DeleteService, SetRegion, DeleteRegion,
                CreateEndpoint, UpdateEndpoint, DeleteEndpoint
  <2>3. phase' = phase /\ phase \in Running
    BY <2>2, CallMade DEF Core
  <2> QED BY <2>1, <2>3
<1> QED BY <1>1, <1>2, <1>3

LEMMA StepKeeps == IInv /\ [Next]_vars => IInv'
<1> SUFFICES ASSUME IInv, [Next]_vars PROVE IInv'
  OBVIOUS
<1>1. CASE UNCHANGED vars
  BY <1>1, StutterKeeps
<1>2. CASE Return \/ DryRunStops \/ Raise
  BY <1>2, ReturnKeeps, DryRunStopsKeeps, RaiseKeeps
<1>3. CASE \/ \E w \in Wants, d \in BOOLEAN : Begin(w, d)
           \/ EnterServices \/ EnterRegions \/ EnterEndpoints \/ EnterExtraServices \/ EnterExtraRegions
           \/ CreateService \/ UpdateService \/ DeleteService \/ SetRegion \/ DeleteRegion
           \/ CreateEndpoint \/ UpdateEndpoint \/ DeleteEndpoint
  <2>1. Core' /\ phase' \in Running
    BY <1>3, RunningStepKeeps DEF IInv
  <2>2. (Core /\ phase \in Running => Resumable)'
    BY CoreResumes, PTL
  <2>3. Resumable'
    <3>1. (phase \in Running)'
      BY <2>1 DEF Running
    <3> QED BY <2>1, <2>2, <3>1
  <2> QED BY <2>1, <2>3 DEF IInv
<1> QED BY <1>1, <1>2, <1>3 DEF Next

\* What a sync knows of the catalog stays true while it changes it: the
\* invariant all theorems below follow from.
THEOREM Inductive == Spec => []IInv
<1> QED BY InitKeeps, StepKeeps, PTL DEF Spec

\* The local dictionaries of endpoint_sync only name what was listed or has
\* been created, and every call that is pending is one of its part.
THEOREM Types == Spec => []TypeOK
<1>1. IInv => TypeOK
  BY DEF IInv, Core
<1> QED BY <1>1, Inductive, PTL

\* endpoint_sync makes no second service of a name and description and no
\* second endpoint of a service, region and interface, at whatever call it
\* fails and however often the deployment is run.
THEOREM NoDoubles == Spec => []NoDoubleMade
<1>1. IInv => NoDoubleMade
  BY DEF IInv, Core
<1> QED BY <1>1, Inductive, PTL

\* The endpoints that are as wanted when endpoint_sync is called are neither
\* deleted nor changed, whether it returns or fails on the way.
THEOREM ServingKept == Spec => []ServingIsKept
<1>1. IInv => ServingIsKept
  BY DEF IInv, Core, ServingStay, ServingIsKept
<1> QED BY <1>1, Inductive, PTL

\* When endpoint_sync returns, the catalog is what was registered.
THEOREM Reaches == Spec => []SyncReaches
<1>1. IInv => SyncReaches
  BY DEF IInv, Core
<1> QED BY <1>1, Inductive, PTL

\* What endpoint_sync leaves when it fails can be synced again, and that
\* sync may fail again.
THEOREM CanBeRepeated == Spec => []RetryWorks
<1>1. IInv => RetryWorks
  BY DEF IInv, Resumable, RetryWorks
<1> QED BY <1>1, Inductive, PTL

=============================================================================
