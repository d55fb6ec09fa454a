---------------------------- MODULE StreamProofs ----------------------------
(***************************************************************************)
(* Proofs about Stream, for all calls, streams and ways to cut them.       *)
(*                                                                         *)
(* The streams are flattened sequences of chunks.  What FlattenSeq gives   *)
(* is proved first, by induction over finite sets.  The pipe is then known *)
(* by its neighbours: what may follow a unit is determined by the unit.    *)
(***************************************************************************)
EXTENDS Stream, FiniteSetTheorems, TLAPS

-----------------------------------------------------------------------------
(* Numbers and flattened sequences.                                        *)

\* A set of numbers that is not empty has a least one.
LEMMA LeastNumber ==
  ASSUME NEW T \in SUBSET Nat, T # {}
  PROVE  \E m \in T : \A k \in T : m <= k
<1>1. PICK t \in T : TRUE
  OBVIOUS
<1> DEFINE S == 1 .. t
           TT == {1 .. k : k \in {x \in T : x <= t}}
           R == StrictSubsetOrdering(S)
<1>2. IsFiniteSet(S)
  BY <1>1, FS_Interval
<1>3. IsWellFoundedOn(R, FiniteSubsetsOf(S))
  BY FS_StrictSubsetOrderingWellFounded
<1>4. TT \subseteq SUBSET S /\ TT # {}
  BY <1>1
<1>5. TT \subseteq FiniteSubsetsOf(S)
  BY <1>2, <1>4, FS_FiniteSubsetsOfFinite
<1>6. PICK s \in TT : \A y \in TT : <<y, s>> \notin R
  <2> HIDE DEF TT, R
  <2> QED
    BY <1>3, <1>4, <1>5, WFMin
<1>7. PICK m \in T : m <= t /\ s = 1 .. m
  BY <1>6
<1>8. ASSUME NEW k \in T, k < m
      PROVE  FALSE
  <2>1. 1 .. k \in TT
    BY <1>7, <1>8, <1>1
  <2>2. 1 .. k \subseteq 1 .. m /\ m \in 1 .. m /\ m \notin 1 .. k
    BY <1>8
  <2>3. <<1 .. k, s>> \in R
    BY <1>4, <1>6, <1>7, <2>1, <2>2 DEF StrictSubsetOrdering
  <2> QED
    BY <1>6, <2>1, <2>3
<1> QED
  BY <1>8

\* What holds of 1 and of k + 1 when of k holds of all numbers up to n.
LEMMA Induction ==
  ASSUME NEW n \in Nat, NEW S,
         n >= 1 => 1 \in S,
         \A k \in 1 .. n : k \in S /\ k < n => k + 1 \in S
  PROVE  \A k \in 1 .. n : k \in S
<1> DEFINE T == {k \in 1 .. n : k \notin S}
<1> SUFFICES ASSUME T # {} PROVE FALSE
  OBVIOUS
<1>1. PICK m \in T : \A k \in T : m <= k
  <2>1. T \in SUBSET Nat
    OBVIOUS
  <2> HIDE DEF T
  <2> QED BY <2>1, LeastNumber
<1>2. m # 1
  BY <1>1
<1>3. m - 1 \in 1 .. n /\ m - 1 \notin T /\ m - 1 < n
  BY <1>1, <1>2
<1> QED BY <1>1, <1>3

\* The function by which FlattenSeq is defined.
Flattens(f, s) ==
  f = [i \in 1 .. Len(s) |-> IF i = 1 THEN s[i] ELSE f[i - 1] \o s[i]]

LEMMA FlattensExists ==
  ASSUME NEW X, NEW s \in Seq(Seq(X))
  PROVE  \E f : Flattens(f, s)
<1> DEFINE Up(f, n) == f = [i \in 1 .. n |-> IF i = 1 THEN s[i] ELSE f[i - 1] \o s[i]]
           S == {n \in Nat : \E f : Up(f, n)}
<1>1. CASE Len(s) = 0
  <2>1. Flattens(<<>>, s)
    BY <1>1 DEF Flattens
  <2> QED BY <2>1
<1>2. CASE Len(s) > 0
  <2>1. 1 \in S
    <3>1. Up([i \in 1 .. 1 |-> s[i]], 1)
      OBVIOUS
    <3> QED BY <3>1
  <2>2. ASSUME NEW k \in 1 .. Len(s), k \in S, k < Len(s)
        PROVE  k + 1 \in S
    <3>1. PICK f : Up(f, k)
      BY <2>2
    <3>a. k \in Nat /\ k >= 1
      OBVIOUS
    <3>b. \A i \in 1 .. k : f[i] = IF i = 1 THEN s[i] ELSE f[i - 1] \o s[i]
      BY <3>1
    <3> HIDE DEF S, Up
    <3> DEFINE g == [i \in 1 .. k + 1 |-> IF i <= k THEN f[i] ELSE f[k] \o s[k + 1]]
    <3>2. ASSUME NEW i \in 1 .. k + 1
          PROVE  g[i] = IF i = 1 THEN s[i] ELSE g[i - 1] \o s[i]
      <4>1. CASE i = 1
        BY <4>1, <3>a, <3>b
      <4>2. CASE i # 1 /\ i <= k
        <5>0. i \in 1 .. k
          BY <4>2, <3>a
        <5>1. f[i] = f[i - 1] \o s[i]
          BY <4>2, <5>0, <3>b
        <5>2. i \in 1 .. k + 1 /\ i - 1 \in 1 .. k + 1 /\ i - 1 <= k
          BY <4>2, <3>a
        <5> QED BY <4>2, <5>1, <5>2
      <4>3. CASE i = k + 1
        BY <4>3, <3>a
      <4> QED BY <4>1, <4>2, <4>3
    <3>3. g = [i \in 1 .. k + 1 |-> g[i]]
      OBVIOUS
    <3> HIDE DEF g
    <3>4. Up(g, k + 1)
      BY <3>2, <3>3 DEF Up
    <3> QED BY <3>4, <3>a DEF S
  <2>3. Len(s) \in 1 .. Len(s)
    BY <1>2
  <2> HIDE DEF S
  <2>4. \A k \in 1 .. Len(s) : k \in S
    <3>1. Len(s) \in Nat
      OBVIOUS
    <3> DEFINE n == Len(s)
    <3> HIDE DEF n
    <3>2. \A k \in 1 .. n : k \in S
      BY <2>1, <2>2, <3>1, Induction DEF n
    <3> QED BY <3>2 DEF n
  <2>5. Len(s) \in S
    BY <2>3, <2>4
  <2> QED BY <2>5 DEF S, Flattens
<1> QED BY <1>1, <1>2

LEMMA FlattenIs ==
  ASSUME NEW X, NEW s \in Seq(Seq(X)), s # <<>>
  PROVE  \E f : Flattens(f, s) /\ FlattenSeq(s) = f[Len(s)]
<1>1. \E f : Flattens(f, s)
  BY FlattensExists
<1> DEFINE f == CHOOSE f : f = [i \in 1 .. Len(s) |-> IF i = 1 THEN s[i] ELSE f[i - 1] \o s[i]]
<1>2. Flattens(f, s)
  BY <1>1 DEF Flattens
<1>3. FlattenSeq(s) = f[Len(s)]
  BY DEF FlattenSeq
<1> QED BY <1>2, <1>3

\* Neighbours in t are related by R.
IsPath(t, R) == \A k \in 1 .. Len(t) - 1 : <<t[k], t[k + 1]>> \in R

LEMMA ConcatFacts ==
  ASSUME NEW X, NEW a \in Seq(X), NEW b \in Seq(X)
  PROVE  /\ a \o b \in Seq(X) /\ Len(a) \in Nat /\ Len(b) \in Nat
         /\ Len(a \o b) = Len(a) + Len(b)
         /\ \A k \in 1 .. Len(a) : (a \o b)[k] = a[k]
         /\ \A k \in 1 .. Len(b) : (a \o b)[Len(a) + k] = b[k]
         /\ \A k \in 1 .. Len(a \o b) :
              \/ k <= Len(a) /\ (a \o b)[k] = a[k]
              \/ k > Len(a) /\ \E j \in 1 .. Len(b) : (a \o b)[k] = b[j] /\ k = Len(a) + j
<1>1. /\ a \o b \in Seq(X) /\ Len(a) \in Nat /\ Len(b) \in Nat
      /\ Len(a \o b) = Len(a) + Len(b)
  OBVIOUS
<1>2. \A k \in 1 .. Len(a) : (a \o b)[k] = a[k]
  OBVIOUS
<1>3. \A k \in 1 .. Len(b) : (a \o b)[Len(a) + k] = b[k]
  OBVIOUS
<1>4. ASSUME NEW k \in 1 .. Len(a \o b), k > Len(a)
      PROVE  \E j \in 1 .. Len(b) : (a \o b)[k] = b[j] /\ k = Len(a) + j
  <2> DEFINE j == k - Len(a)
  <2>1. j \in 1 .. Len(b) /\ k = Len(a) + j
    BY <1>1, <1>4
  <2>2. (a \o b)[Len(a) + j] = b[j]
    <3> HIDE DEF j
    <3> QED BY <1>3, <2>1
  <2> QED BY <2>1, <2>2
<1> QED BY <1>1, <1>2, <1>3, <1>4

LEMMA JoinPaths ==
  ASSUME NEW X, NEW R, NEW a \in Seq(X), NEW b \in Seq(X), a # <<>>, b # <<>>,
         IsPath(a, R), IsPath(b, R), <<a[Len(a)], b[1]>> \in R
  PROVE  /\ a \o b \in Seq(X) /\ a \o b # <<>>
         /\ (a \o b)[1] = a[1] /\ (a \o b)[Len(a \o b)] = b[Len(b)]
         /\ IsPath(a \o b, R)
<1> DEFINE t == a \o b
<1>1. t \in Seq(X) /\ Len(t) = Len(a) + Len(b)
  OBVIOUS
<1>2. Len(a) \in Nat \ {0} /\ Len(b) \in Nat \ {0}
  OBVIOUS
<1>3. \A k \in 1 .. Len(a) : t[k] = a[k]
  OBVIOUS
<1>4. \A k \in 1 .. Len(b) : t[Len(a) + k] = b[k]
  OBVIOUS
<1> HIDE DEF t
<1>5. ASSUME NEW k \in 1 .. Len(t) - 1
      PROVE  <<t[k], t[k + 1]>> \in R
  <2>1. CASE k < Len(a)
    <3>1. k \in 1 .. Len(a) - 1 /\ k \in 1 .. Len(a) /\ k + 1 \in 1 .. Len(a)
      BY <2>1, <1>2
    <3> QED BY <3>1, <1>3 DEF IsPath
  <2>2. CASE k = Len(a)
    <3>1. k \in 1 .. Len(a) /\ 1 \in 1 .. Len(b) /\ k + 1 = Len(a) + 1
      BY <2>2, <1>2
    <3> QED BY <2>2, <3>1, <1>3, <1>4
  <2>3. CASE k > Len(a)
    <3> DEFINE j == k - Len(a)
    <3>1. j \in 1 .. Len(b) - 1 /\ j \in 1 .. Len(b) /\ j + 1 \in 1 .. Len(b)
          /\ k = Len(a) + j /\ k + 1 = Len(a) + (j + 1)
      BY <2>3, <1>1, <1>2
    <3> HIDE DEF j
    <3>2. t[k] = b[j] /\ t[k + 1] = b[j + 1]
      BY <3>1, <1>4
    <3> QED BY <3>1, <3>2 DEF IsPath
  <2> QED BY <2>1, <2>2, <2>3, <1>2
<1>6. IsPath(t, R)
  BY <1>5 DEF IsPath
<1>7. t[1] = a[1] /\ t[Len(t)] = b[Len(b)] /\ t # <<>>
  <2>1. 1 \in 1 .. Len(a) /\ Len(b) \in 1 .. Len(b) /\ Len(t) # 0
    BY <1>1, <1>2
  <2> QED BY <2>1, <1>1, <1>3, <1>4
<1> QED BY <1>1, <1>6, <1>7 DEF t

\* Paths that can be joined, one to the next, are one path.
LEMMA FlattenPath ==
  ASSUME NEW X, NEW R, NEW s \in Seq(Seq(X)), s # <<>>,
         \A i \in 1 .. Len(s) : s[i] # <<>> /\ IsPath(s[i], R),
         \A i \in 1 .. Len(s) - 1 : <<s[i][Len(s[i])], s[i + 1][1]>> \in R
  PROVE  /\ FlattenSeq(s) \in Seq(X) /\ FlattenSeq(s) # <<>>
         /\ FlattenSeq(s)[1] = s[1][1]
         /\ FlattenSeq(s)[Len(FlattenSeq(s))] = s[Len(s)][Len(s[Len(s)])]
         /\ IsPath(FlattenSeq(s), R)
<1>1. PICK f : Flattens(f, s) /\ FlattenSeq(s) = f[Len(s)]
  BY FlattenIs
<1>2. \A i \in 1 .. Len(s) : f[i] = IF i = 1 THEN s[i] ELSE f[i - 1] \o s[i]
  BY <1>1 DEF Flattens
<1>3. \A i \in 1 .. Len(s) : s[i] \in Seq(X)
  OBVIOUS
<1> DEFINE Good(k) == /\ f[k] \in Seq(X) /\ f[k] # <<>>
                      /\ f[k][1] = s[1][1] /\ f[k][Len(f[k])] = s[k][Len(s[k])]
                      /\ IsPath(f[k], R)
           S == {k \in 1 .. Len(s) : Good(k)}
           n == Len(s)
<1>4. n \in Nat /\ n >= 1
  OBVIOUS
<1>5. 1 \in S
  <2>1. 1 \in 1 .. Len(s)
    BY <1>4
  <2>2. f[1] = s[1]
    BY <1>2, <2>1
  <2> QED BY <2>1, <2>2, <1>3
<1>6. ASSUME NEW k \in 1 .. n, k \in S, k < n
      PROVE  k + 1 \in S
  <2>1. k + 1 \in 1 .. n /\ k \in 1 .. n - 1 /\ k + 1 # 1 /\ (k + 1) - 1 = k
    BY <1>4, <1>6
  <2>2. f[k + 1] = f[k] \o s[k + 1]
    BY <1>2, <2>1
  <2>3. Good(k)
    BY <1>6
  <2>4. s[k + 1] \in Seq(X) /\ s[k + 1] # <<>> /\ IsPath(s[k + 1], R)
    BY <1>3, <2>1
  <2>5. <<f[k][Len(f[k])], s[k + 1][1]>> \in R
    BY <2>1, <2>3
  <2> DEFINE a == f[k]
             b == s[k + 1]
  <2>6. a \in Seq(X) /\ a # <<>> /\ IsPath(a, R) /\ b \in Seq(X) /\ b # <<>> /\ IsPath(b, R)
        /\ <<a[Len(a)], b[1]>> \in R
    BY <2>3, <2>4, <2>5
  <2> HIDE DEF a, b
  <2>7. /\ a \o b \in Seq(X) /\ a \o b # <<>>
        /\ (a \o b)[1] = a[1] /\ (a \o b)[Len(a \o b)] = b[Len(b)]
        /\ IsPath(a \o b, R)
    BY <2>6, JoinPaths
  <2>8. Good(k + 1)
    BY <2>7, <2>2, <2>3 DEF a, b
  <2> QED BY <2>1, <2>8
<1>7. \A k \in 1 .. n : k \in S
  <2> HIDE DEF S, n
  <2> QED BY <1>4, <1>5, <1>6, Induction
<1>8. Good(n)
  BY <1>4, <1>7
<1> QED BY <1>1, <1>8

-----------------------------------------------------------------------------
(* Messages and streams.                                                   *)

End(c) == Len(Chunks[c]) + 1
Start(c) == Size(c, 0, 1)
SizeAt(c, i) == Size(c, i, IF i = End(c) THEN 0 ELSE Chunks[c][i])

Record ==
  [unit : {"size"}, call : Call, chunk : Nat, n : Nat]
    \cup [unit : {"body"}, call : Call]
    \cup [unit : {"data"}, call : Call, chunk : Nat, piece : Nat]

\* What a sender may write.
Unit ==
  {u \in Record :
    /\ u.unit = "size" => u = Start(u.call) \/ (u.chunk \in 1 .. End(u.call) /\ u = SizeAt(u.call, u.chunk))
    /\ u.unit = "data" => u.chunk \in 1 .. Len(Chunks[u.call]) /\ u.piece \in 1 .. Chunks[u.call][u.chunk]}

\* The last unit of a message.
Final(u) ==
  \/ u.unit = "size" /\ u.chunk = End(u.call)
  \/ u.unit = "body" /\ u.call \notin IsStream

\* v may come behind u in a pipe, and in a stream.
Follows(u, v) ==
  /\ u.unit = "size" /\ u.chunk = 0 => v = Body(u.call)
  /\ u.unit = "size" /\ u.chunk \in 1 .. Len(Chunks[u.call]) => v = Data(u.call, u.chunk, 1)
  /\ u.unit = "body" /\ u.call \in IsStream => v = SizeAt(u.call, 1)
  /\ u.unit = "data" /\ u.piece < Chunks[u.call][u.chunk] => v = Data(u.call, u.chunk, u.piece + 1)
  /\ u.unit = "data" /\ u.piece = Chunks[u.call][u.chunk] => v = SizeAt(u.call, u.chunk + 1)
  /\ Final(u) => v.unit = "size" /\ v.chunk = 0

InPipe == {p \in Unit \X Unit : Follows(p[1], p[2])}

InStream ==
  {p \in Unit \X Unit :
    LET u == p[1] v == p[2] IN
    /\ u.unit = "data"
    /\ u.piece < Chunks[u.call][u.chunk] => v = Data(u.call, u.chunk, u.piece + 1)
    /\ u.piece = Chunks[u.call][u.chunk] => v = Data(u.call, u.chunk + 1, 1)}

LEMMA ConcatAt ==
  ASSUME NEW a \in Seq(Unit), NEW b \in Seq(Unit), NEW k \in 1 .. Len(a \o b)
  PROVE  \/ k <= Len(a) /\ (a \o b)[k] = a[k]
         \/ k > Len(a) /\ \E j \in 1 .. Len(b) : (a \o b)[k] = b[j]
<1>1. Len(a) \in Nat /\ Len(b) \in Nat /\ Len(a \o b) = Len(a) + Len(b)
  OBVIOUS
<1>2. CASE k <= Len(a)
  BY <1>1, <1>2
<1>3. CASE k > Len(a)
  <2> DEFINE j == k - Len(a)
  <2>1. j \in 1 .. Len(b)
    BY <1>1, <1>3
  <2>2. (a \o b)[k] = b[j]
    BY <1>1, <1>3
  <2> QED BY <1>3, <2>1, <2>2
<1> QED BY <1>1, <1>2, <1>3

LEMMA UnitFacts ==
  ASSUME NEW c \in Call
  PROVE  /\ Len(Chunks[c]) \in Nat /\ Chunks[c] \in Seq(Nat \ {0})
         /\ \A i \in 1 .. Len(Chunks[c]) : Chunks[c][i] \in Nat \ {0}
         /\ Start(c) \in Unit /\ Body(c) \in Unit
         /\ \A i \in 1 .. End(c) : SizeAt(c, i) \in Unit
         /\ \A i \in 1 .. Len(Chunks[c]) : \A j \in 1 .. Chunks[c][i] : Data(c, i, j) \in Unit
<1>1. /\ Len(Chunks[c]) \in Nat /\ Chunks[c] \in Seq(Nat \ {0})
      /\ \A i \in 1 .. Len(Chunks[c]) : Chunks[c][i] \in Nat \ {0}
  BY ChunksAssumption
<1>2. Start(c) \in Unit /\ Body(c) \in Unit
  BY DEF Start, Body, Size, Unit, Record
<1>3. ASSUME NEW i \in 1 .. End(c)
      PROVE  SizeAt(c, i) \in Unit
  <2> DEFINE n == IF i = End(c) THEN 0 ELSE Chunks[c][i]
  <2>1. n \in Nat
    BY <1>1 DEF End
  <2>2. SizeAt(c, i) = [unit |-> "size", call |-> c, chunk |-> i, n |-> n]
    BY DEF SizeAt, Size
  <2> HIDE DEF n
  <2>3. SizeAt(c, i) \in Record /\ SizeAt(c, i).chunk = i /\ SizeAt(c, i).call = c /\ SizeAt(c, i).unit = "size"
    BY <1>1, <2>1, <2>2 DEF Record, End
  <2> QED BY <2>3 DEF Unit
<1>4. ASSUME NEW i \in 1 .. Len(Chunks[c]), NEW j \in 1 .. Chunks[c][i]
      PROVE  Data(c, i, j) \in Unit
  BY <1>1 DEF Data, Unit, Record
<1> QED BY <1>1, <1>2, <1>3, <1>4

LEMMA ChunkFacts ==
  ASSUME NEW c \in Call, NEW i \in 1 .. Len(Chunks[c])
  PROVE  /\ Chunk(c, i) \in Seq({u \in Unit : u.call = c /\ u.unit # "body"}) /\ Chunk(c, i) # <<>>
         /\ Len(Chunk(c, i)) = Chunks[c][i]
         /\ Chunk(c, i)[1] = Data(c, i, 1)
         /\ Chunk(c, i)[Chunks[c][i]] = Data(c, i, Chunks[c][i])
         /\ IsPath(Chunk(c, i), InPipe) /\ IsPath(Chunk(c, i), InStream)
<1> DEFINE n == Chunks[c][i]
           t == Chunk(c, i)
           X == {u \in Unit : u.call = c /\ u.unit # "body"}
<1>1. n \in Nat \ {0}
  BY UnitFacts
<1>2. t = [j \in 1 .. n |-> Data(c, i, j)]
  BY DEF Chunk
<1>3. \A j \in 1 .. n : Data(c, i, j) \in Unit
  BY UnitFacts
<1>4. \A j \in 1 .. n : Data(c, i, j) \in X
  BY <1>3 DEF Data
<1>5. t \in Seq(X) /\ Len(t) = n /\ t # <<>>
  <2> HIDE DEF t, X, n
  <2> QED BY <1>1, <1>2, <1>4
<1>6. t[1] = Data(c, i, 1) /\ t[n] = Data(c, i, n)
  BY <1>1, <1>2
<1>7. ASSUME NEW j \in 1 .. n - 1
      PROVE  <<t[j], t[j + 1]>> \in InPipe /\ <<t[j], t[j + 1]>> \in InStream
  <2>1. j \in 1 .. n /\ j + 1 \in 1 .. n /\ j < n /\ j # n
    BY <1>1
  <2>2. t[j] = Data(c, i, j) /\ t[j + 1] = Data(c, i, j + 1)
    BY <1>2, <2>1
  <2>3. t[j] \in Unit /\ t[j + 1] \in Unit
    BY <1>3, <2>1, <2>2
  <2>4. t[j].unit = "data" /\ t[j].call = c /\ t[j].chunk = i /\ t[j].piece = j
    BY <2>2 DEF Data
  <2> HIDE DEF t
  <2>5. Follows(t[j], t[j + 1])
    BY <2>1, <2>2, <2>4 DEF Follows, Final
  <2> QED BY <2>1, <2>2, <2>3, <2>4, <2>5 DEF InPipe, InStream
<1>8. IsPath(t, InPipe) /\ IsPath(t, InStream)
  BY <1>1, <1>5, <1>7 DEF IsPath
<1> QED BY <1>5, <1>6, <1>8

\* A stream is its pieces of data in order.
LEMMA ContentFacts ==
  ASSUME NEW c \in Call
  PROVE  /\ Content(c) \in Seq(Unit)
         /\ Len(Chunks[c]) = 0 => Content(c) = <<>>
         /\ Len(Chunks[c]) > 0 =>
              /\ Content(c) # <<>> /\ Content(c)[1] = Data(c, 1, 1)
              /\ LET m == Len(Chunks[c]) IN
                 Content(c)[Len(Content(c))] = Data(c, m, Chunks[c][m])
         /\ IsPath(Content(c), InStream)
<1> DEFINE m == Len(Chunks[c])
           s == [i \in 1 .. m |-> Chunk(c, i)]
<1>1. m \in Nat /\ DOMAIN Chunks[c] = 1 .. m
  BY UnitFacts
<1>2. Content(c) = FlattenSeq(s)
  BY <1>1 DEF Content
<1>3. \A i \in 1 .. m : Chunk(c, i) \in Seq(Unit)
  <2> TAKE i \in 1 .. m
  <2>1. Chunk(c, i) \in Seq({u \in Unit : u.call = c /\ u.unit # "body"})
    BY ChunkFacts
  <2> QED BY <2>1
<1>4. s \in Seq(Seq(Unit)) /\ Len(s) = m
  <2> HIDE DEF m
  <2> QED BY <1>1, <1>3
<1>5. CASE m = 0
  <2>1. Content(c) = <<>>
    BY <1>2, <1>4, <1>5 DEF FlattenSeq
  <2> QED BY <2>1, <1>5 DEF IsPath
<1>6. CASE m > 0
  <2>1. s # <<>>
    BY <1>4, <1>6
  <2>2. \A i \in 1 .. m : s[i] = Chunk(c, i)
    OBVIOUS
  <2>3. \A i \in 1 .. m : s[i] # <<>> /\ IsPath(s[i], InStream)
    BY <2>2, ChunkFacts
  <2>4. ASSUME NEW i \in 1 .. m - 1
        PROVE  <<s[i][Len(s[i])], s[i + 1][1]>> \in InStream
    <3>1. i \in 1 .. m /\ i + 1 \in 1 .. m
      BY <1>1
    <3>2. s[i][Len(s[i])] = Data(c, i, Chunks[c][i]) /\ s[i + 1][1] = Data(c, i + 1, 1)
      BY <2>2, <3>1, ChunkFacts
    <3>3. Data(c, i, Chunks[c][i]) \in Unit /\ Data(c, i + 1, 1) \in Unit
      <4>1. Chunks[c][i] \in 1 .. Chunks[c][i] /\ 1 \in 1 .. Chunks[c][i + 1]
        BY <3>1, UnitFacts
      <4> QED BY <3>1, <4>1, UnitFacts
    <3>4. <<Data(c, i, Chunks[c][i]), Data(c, i + 1, 1)>> \in InStream
      <4>1. Chunks[c][i] \in Nat
        BY <3>1, UnitFacts
      <4> QED BY <3>3, <4>1 DEF InStream, Data
    <3> QED BY <3>2, <3>4
  <2>5. m \in 1 .. m /\ 1 \in 1 .. m
    BY <1>1, <1>6
  <2>6. s[1][1] = Data(c, 1, 1) /\ s[m][Len(s[m])] = Data(c, m, Chunks[c][m])
    BY <2>2, <2>5, ChunkFacts
  <2> HIDE DEF s, m
  <2>7. /\ FlattenSeq(s) \in Seq(Unit) /\ FlattenSeq(s) # <<>>
        /\ FlattenSeq(s)[1] = s[1][1]
        /\ FlattenSeq(s)[Len(FlattenSeq(s))] = s[Len(s)][Len(s[Len(s)])]
        /\ IsPath(FlattenSeq(s), InStream)
    BY <1>4, <2>1, <2>3, <2>4, FlattenPath
  <2> QED BY <1>2, <1>4, <1>6, <2>6, <2>7 DEF m
<1> QED BY <1>1, <1>5, <1>6

LEMMA FramesFacts ==
  ASSUME NEW c \in Call
  PROVE  /\ Frames(c) \in Seq({u \in Unit : u.call = c /\ u.unit # "body"}) /\ Frames(c) # <<>>
         /\ Frames(c)[1] = SizeAt(c, 1)
         /\ Frames(c)[Len(Frames(c))] = SizeAt(c, End(c))
         /\ IsPath(Frames(c), InPipe)
<1> DEFINE m == Len(Chunks[c])
           X == {u \in Unit : u.call = c /\ u.unit # "body"}
           s == [i \in 1 .. m |-> <<SizeAt(c, i)>> \o Chunk(c, i)]
           e == <<SizeAt(c, End(c))>>
<1>1. m \in Nat /\ DOMAIN Chunks[c] = 1 .. m /\ End(c) = m + 1
  BY UnitFacts DEF End
<1>2. Frames(c) = FlattenSeq(s) \o e
  <2>1. \A i \in 1 .. m : SizeAt(c, i) = Size(c, i, Chunks[c][i])
    BY <1>1 DEF SizeAt
  <2>2. s = [i \in DOMAIN Chunks[c] |-> <<Size(c, i, Chunks[c][i])>> \o Chunk(c, i)]
    BY <1>1, <2>1
  <2>3. e = <<Size(c, Len(Chunks[c]) + 1, 0)>>
    BY DEF SizeAt, End
  <2> QED BY <2>2, <2>3 DEF Frames
<1>3. \A i \in 1 .. End(c) : SizeAt(c, i) \in X
  BY UnitFacts DEF SizeAt, Size
<1>4. e \in Seq(X) /\ e # <<>> /\ Len(e) = 1 /\ e[1] = SizeAt(c, End(c)) /\ IsPath(e, InPipe)
  <2>1. End(c) \in 1 .. End(c)
    BY <1>1
  <2>2. e[1] \in X
    BY <1>3, <2>1
  <2> HIDE DEF X
  <2> QED BY <2>2 DEF IsPath
<1>5. ASSUME NEW i \in 1 .. m
      PROVE  /\ s[i] \in Seq(X) /\ s[i] # <<>> /\ IsPath(s[i], InPipe)
             /\ s[i][1] = SizeAt(c, i) /\ s[i][Len(s[i])] = Data(c, i, Chunks[c][i])
  <2> DEFINE a == <<SizeAt(c, i)>>
             b == Chunk(c, i)
  <2>1. s[i] = a \o b
    OBVIOUS
  <2>2. i \in 1 .. End(c) /\ i # End(c) /\ i # 0
    BY <1>1
  <2>3. SizeAt(c, i) \in X
    BY <1>3, <2>2
  <2>4. a \in Seq(X) /\ a # <<>> /\ Len(a) = 1 /\ a[1] = SizeAt(c, i) /\ IsPath(a, InPipe)
    <3> HIDE DEF X
    <3> QED BY <2>3 DEF IsPath
  <2>5. /\ b \in Seq(X) /\ b # <<>> /\ Len(b) = Chunks[c][i] /\ b[1] = Data(c, i, 1)
        /\ b[Len(b)] = Data(c, i, Chunks[c][i]) /\ IsPath(b, InPipe)
    BY ChunkFacts
  <2>6. <<a[Len(a)], b[1]>> \in InPipe
    <3>1. SizeAt(c, i).unit = "size" /\ SizeAt(c, i).call = c /\ SizeAt(c, i).chunk = i
      BY DEF SizeAt, Size
    <3>2. Follows(SizeAt(c, i), Data(c, i, 1))
      BY <3>1, <2>2 DEF Follows, Final
    <3>3. Data(c, i, 1) \in Unit
      <4>1. 1 \in 1 .. Chunks[c][i]
        BY UnitFacts
      <4> QED BY <4>1, UnitFacts
    <3> QED BY <2>3, <2>4, <2>5, <3>2, <3>3 DEF InPipe
  <2> HIDE DEF a, b, s, X
  <2>7. /\ a \o b \in Seq(X) /\ a \o b # <<>>
        /\ (a \o b)[1] = a[1] /\ (a \o b)[Len(a \o b)] = b[Len(b)]
        /\ IsPath(a \o b, InPipe)
    BY <2>4, <2>5, <2>6, JoinPaths
  <2> QED BY <2>1, <2>4, <2>5, <2>7
<1>6. s \in Seq(Seq(X)) /\ Len(s) = m
  <2>1. s = [i \in 1 .. m |-> s[i]]
    OBVIOUS
  <2> HIDE DEF m, s, X
  <2> QED BY <1>1, <1>5, <2>1
<1>7. CASE m = 0
  <2>1. FlattenSeq(s) = <<>>
    BY <1>6, <1>7 DEF FlattenSeq
  <2>2. Frames(c) = e
    <3> HIDE DEF X, e, s
    <3>1. <<>> \o e = e
      BY <1>4
    <3> QED BY <1>2, <2>1, <3>1
  <2>3. End(c) = 1
    BY <1>1, <1>7
  <2> QED BY <1>4, <2>2, <2>3
<1>8. CASE m > 0
  <2>1. s # <<>>
    BY <1>6, <1>8
  <2>2. \A i \in 1 .. m : s[i] # <<>> /\ IsPath(s[i], InPipe)
    BY <1>5
  <2>3. ASSUME NEW i \in 1 .. m
        PROVE  <<Data(c, i, Chunks[c][i]), SizeAt(c, i + 1)>> \in InPipe
    <3>1. i + 1 \in 1 .. End(c) /\ Chunks[c][i] \in 1 .. Chunks[c][i]
      BY <1>1, UnitFacts
    <3>2. Data(c, i, Chunks[c][i]) \in Unit /\ SizeAt(c, i + 1) \in Unit
      BY <3>1, UnitFacts
    <3>3. Follows(Data(c, i, Chunks[c][i]), SizeAt(c, i + 1))
      BY <3>1 DEF Follows, Final, Data
    <3> QED BY <3>2, <3>3 DEF InPipe
  <2>4. ASSUME NEW i \in 1 .. m - 1
        PROVE  <<s[i][Len(s[i])], s[i + 1][1]>> \in InPipe
    <3>1. i \in 1 .. m /\ i + 1 \in 1 .. m
      BY <1>1
    <3>2. s[i][Len(s[i])] = Data(c, i, Chunks[c][i]) /\ s[i + 1][1] = SizeAt(c, i + 1)
      BY <1>5, <3>1
    <3> QED BY <2>3, <3>1, <3>2
  <2>5. m \in 1 .. m /\ 1 \in 1 .. m
    BY <1>1, <1>8
  <2>6. s[1][1] = SizeAt(c, 1) /\ s[m][Len(s[m])] = Data(c, m, Chunks[c][m])
    BY <2>5, <1>5
  <2> DEFINE t == FlattenSeq(s)
  <2>7. /\ t \in Seq(X) /\ t # <<>> /\ t[1] = s[1][1]
        /\ t[Len(t)] = s[Len(s)][Len(s[Len(s)])]
        /\ IsPath(t, InPipe)
    <3> HIDE DEF s, m, X
    <3> QED BY <1>6, <2>1, <2>2, <2>4, FlattenPath
  <2>8. <<t[Len(t)], e[1]>> \in InPipe
    BY <1>1, <1>4, <1>6, <2>3, <2>5, <2>6, <2>7
  <2> HIDE DEF s, m, X, e, t
  <2>9. /\ t \o e \in Seq(X) /\ t \o e # <<>>
        /\ (t \o e)[1] = t[1] /\ (t \o e)[Len(t \o e)] = e[Len(e)]
        /\ IsPath(t \o e, InPipe)
    BY <1>4, <2>7, <2>8, JoinPaths
  <2>10. Frames(c) = t \o e
    BY <1>2 DEF t
  <2> QED BY <1>4, <2>6, <2>7, <2>9, <2>10 DEF X
<1> QED BY <1>1, <1>7, <1>8

\* A message is well formed, ends with its last unit, and has one body.
LEMMA MessageFacts ==
  ASSUME NEW c \in Call
  PROVE  /\ Message(c) \in Seq(Unit) /\ Len(Message(c)) \in Nat /\ Len(Message(c)) >= 2
         /\ Message(c)[1] = Start(c)
         /\ IsPath(Message(c), InPipe)
         /\ Final(Message(c)[Len(Message(c))])
         /\ \A k \in 1 .. Len(Message(c)) : \A d \in Call : Message(c)[k] = Body(d) => d = c /\ k = 2
<1> DEFINE a == <<Start(c), Body(c)>>
           b == Frames(c)
<1>1. Start(c) \in Unit /\ Body(c) \in Unit
  BY UnitFacts
<1>2. Start(c).unit = "size" /\ Start(c).chunk = 0 /\ Start(c).call = c /\ Body(c).unit = "body" /\ Body(c).call = c
  BY DEF Start, Size, Body
<1>3. Len(Chunks[c]) \in Nat /\ End(c) = Len(Chunks[c]) + 1
  BY UnitFacts DEF End
<1>4. <<Start(c), Body(c)>> \in InPipe
  BY <1>1, <1>2, <1>3 DEF InPipe, Follows, Final
<1>5. a \in Seq(Unit) /\ a # <<>> /\ Len(a) = 2 /\ a[1] = Start(c) /\ a[2] = Body(c) /\ IsPath(a, InPipe)
  <2>1. a \in Seq(Unit) /\ a # <<>> /\ Len(a) = 2 /\ a[1] = Start(c) /\ a[2] = Body(c)
    BY <1>1
  <2> HIDE DEF a
  <2>2. \A k \in 1 .. Len(a) - 1 : k = 1 /\ k + 1 = 2
    BY <2>1
  <2> QED BY <1>4, <2>1, <2>2 DEF IsPath
<1>6. \A d \in Call : Body(d) = Body(c) => d = c
  BY DEF Body
<1>7. \A d \in Call : Body(d) # Start(c)
  BY DEF Body, Start, Size
<1>8. CASE c \notin IsStream
  <2>1. Message(c) = a
    <3> HIDE DEF a
    <3>1. Message(c) = a \o <<>>
      BY <1>8 DEF Message, Start, a
    <3> QED BY <1>5, <3>1
  <2>3. Final(a[2])
    BY <1>2, <1>5, <1>8 DEF Final
  <2> HIDE DEF a
  <2>4. ASSUME NEW k \in 1 .. Len(a), NEW d \in Call, a[k] = Body(d)
        PROVE  d = c /\ k = 2
    <3>1. k = 1 \/ k = 2
      BY <1>5
    <3> QED BY <1>5, <1>6, <1>7, <2>4, <3>1
  <2>5. Len(a) \in Nat /\ Len(a) >= 2 /\ Final(a[Len(a)])
    BY <1>5, <2>3
  <2> QED BY <1>5, <2>1, <2>4, <2>5
<1>9. CASE c \in IsStream
  <2>1. Message(c) = a \o b
    BY <1>9 DEF Message, Start
  <2>2. /\ b \in Seq({u \in Unit : u.call = c /\ u.unit # "body"}) /\ b # <<>>
        /\ b[1] = SizeAt(c, 1) /\ b[Len(b)] = SizeAt(c, End(c)) /\ IsPath(b, InPipe)
    BY FramesFacts
  <2>3. \A k \in 1 .. Len(b) : b[k] \in Unit /\ b[k].unit # "body"
    BY <2>2
  <2>4. b \in Seq(Unit)
    BY <2>2
  <2>5. SizeAt(c, 1) \in Unit
    BY <1>3, UnitFacts
  <2>6. <<a[Len(a)], b[1]>> \in InPipe
    <3>1. Follows(Body(c), SizeAt(c, 1))
      BY <1>2, <1>9 DEF Follows, Final
    <3> QED BY <1>1, <1>5, <2>2, <2>5, <3>1 DEF InPipe
  <2>7. Final(b[Len(b)])
    BY <2>2, <1>3 DEF Final, SizeAt, Size
  <2> HIDE DEF a, b
  <2>8. /\ a \o b \in Seq(Unit) /\ a \o b # <<>>
        /\ (a \o b)[1] = a[1] /\ (a \o b)[Len(a \o b)] = b[Len(b)]
        /\ IsPath(a \o b, InPipe)
    BY <1>5, <2>2, <2>4, <2>6, JoinPaths
  <2>9. Len(a \o b) \in Nat /\ Len(a \o b) >= 2
    BY <1>5, <2>4
  <2>10. ASSUME NEW k \in 1 .. Len(a \o b), NEW d \in Call, (a \o b)[k] = Body(d)
         PROVE  d = c /\ k = 2
    <3>1. a \in Seq(Unit) /\ b \in Seq(Unit)
      BY <1>5, <2>4
    <3>2. \/ k <= Len(a) /\ (a \o b)[k] = a[k]
          \/ k > Len(a) /\ \E j \in 1 .. Len(b) : (a \o b)[k] = b[j]
      BY <3>1, ConcatAt
    <3>3. k \in Nat /\ k >= 1
      BY <2>9
    <3>4. CASE k <= Len(a) /\ (a \o b)[k] = a[k]
      <4>1. k = 1 \/ k = 2
        BY <1>5, <3>3, <3>4
      <4> QED BY <4>1, <3>4, <2>10, <1>5, <1>6, <1>7
    <3>5. CASE k > Len(a) /\ \E j \in 1 .. Len(b) : (a \o b)[k] = b[j]
      <4>1. (a \o b)[k].unit # "body"
        BY <2>3, <3>5
      <4> QED BY <4>1, <2>10 DEF Body
    <3> QED BY <3>2, <3>4, <3>5
  <2> QED BY <1>5, <2>1, <2>7, <2>8, <2>9, <2>10
<1> QED BY <1>8, <1>9

-----------------------------------------------------------------------------
(* The invariant.                                                          *)

Executing == {"exec", "check", "drain"}
Whole(c) == Len(got[c]) = Len(Content(c))

TypeInv ==
  /\ unsent \subseteq Call
  /\ pipe \in Seq(Unit)
  /\ pc \in {"size", "body", "dead"} \cup Executing
  /\ to_read \in Nat
  /\ msg \in Seq(Unit)
  /\ IF pc \in Executing THEN task \in IsStream ELSE task = None
  /\ chunk_remaining \in Nat
  /\ eof \in BOOLEAN
  /\ threads \subseteq Call \ IsStream
  /\ got \in [Call -> Seq(Unit)]
  /\ status \in [Call -> {None, "ok", "error"}]

\* Units are where they were written, and messages are there to their end.
PipeInv ==
  /\ IsPath(pipe, InPipe)
  /\ pipe # <<>> /\ ~closed => Final(pipe[Len(pipe)])

\* The body of a stream call comes once, and nothing of the call was read before.
Fresh(c) == got[c] = <<>> /\ status[c] = None /\ task # c

OnceInv ==
  /\ \A c \in unsent \cap IsStream : Fresh(c) /\ msg # <<Body(c)>>
  /\ \A k \in 1 .. Len(pipe) : \A c \in IsStream :
       pipe[k] = Body(c) => Fresh(c) /\ c \notin unsent /\ msg # <<Body(c)>>
  /\ \A k, l \in 1 .. Len(pipe) : \A c \in IsStream : pipe[k] = Body(c) /\ pipe[l] = Body(c) => k = l
  /\ pc = "body" => \A c \in IsStream : msg = <<Body(c)>> => Fresh(c)
  /\ pc \in Executing => status[task] = None

\* What follows the body of a stream call is its stream.
Behind(c, p) ==
  IF p = <<>> THEN c \in IsStream => closed ELSE Follows(Body(c), p[1])

\* A body is read by itself.  Where the input thread has lost its place it
\* does not come to a body any more.
MessageInv ==
  /\ pc = "size" => pipe = <<>> \/ pipe[1].unit # "body"
  /\ pc = "body" =>
       \/ to_read = 1 /\ msg = <<>> /\ pipe # <<>> /\ pipe[1].unit = "body"
       \/ to_read > 0 /\ msg = <<>> /\ (pipe = <<>> \/ pipe[1].unit # "body")
       \/ to_read = 0 /\ \E c \in Call : msg = <<Body(c)>> /\ Behind(c, pipe)
       \/ msg # <<>> /\ msg[1].unit # "body"

\* The unit in front of p is where the reader of c, with rem left, thinks it is.
Placed(c, p, rem) ==
  p # <<>> =>
    /\ p[1].call = c
    /\ \/ p[1].unit = "size" /\ p[1].chunk \in 1 .. End(c) /\ rem = 0
       \/ p[1].unit = "data" /\ rem = Chunks[c][p[1].chunk] - p[1].piece + 1

\* What comes next in p is what comes next in the stream of c, of which n
\* pieces were read.
Linked(c, p, n) ==
  p # <<>> =>
    /\ p[1].unit = "size" /\ p[1].chunk = End(c) => n = Len(Content(c))
    /\ p[1].unit = "size" /\ p[1].chunk < End(c) =>
         n < Len(Content(c)) /\ Content(c)[n + 1] = Data(c, p[1].chunk, 1)
    /\ p[1].unit = "data" => n < Len(Content(c)) /\ Content(c)[n + 1] = p[1]

ReaderInv ==
  pc \in Executing =>
    /\ ~eof => Placed(task, pipe, chunk_remaining) /\ (pipe = <<>> => closed)
    /\ eof => pipe = <<>> \/ pipe[1].unit # "body"
    /\ pc # "drain" =>
         IF eof THEN Whole(task) \/ closed ELSE Linked(task, pipe, Len(got[task]))

GotInv ==
  /\ \A c \in Call : Len(got[c]) <= Len(Content(c)) /\ \A k \in 1 .. Len(got[c]) : got[c][k] = Content(c)[k]
  /\ \A c \in IsStream : status[c] = "ok" => Whole(c) \/ closed

IInv == TypeInv /\ PipeInv /\ OnceInv /\ MessageInv /\ ReaderInv /\ GotInv

-----------------------------------------------------------------------------
(* Taking units from the front of a pipe.                                  *)

LEMMA InPipeFollows ==
  ASSUME NEW p \in Seq(Unit), IsPath(p, InPipe), NEW k \in 1 .. Len(p) - 1
  PROVE  Follows(p[k], p[k + 1])
<1>1. <<p[k], p[k + 1]>> \in InPipe
  BY DEF IsPath
<1> QED BY <1>1 DEF InPipe

LEMMA DropFacts ==
  ASSUME NEW p \in Seq(Unit), NEW n \in 0 .. Len(p)
  PROVE  LET q == SubSeq(p, n + 1, Len(p)) IN
         /\ q \in Seq(Unit) /\ Len(q) = Len(p) - n
         /\ \A k \in 1 .. Len(q) : q[k] = p[n + k] /\ n + k \in 1 .. Len(p)
         /\ n < Len(p) => q # <<>> /\ q[1] = p[n + 1] /\ q[Len(q)] = p[Len(p)]
         /\ n = Len(p) => q = <<>>
         /\ IsPath(p, InPipe) => IsPath(q, InPipe)
<1> DEFINE q == SubSeq(p, n + 1, Len(p))
<1>1. q \in Seq(Unit) /\ Len(q) = Len(p) - n /\ Len(p) \in Nat
  OBVIOUS
<1>2. \A k \in 1 .. Len(q) : q[k] = p[n + k] /\ n + k \in 1 .. Len(p)
  OBVIOUS
<1> HIDE DEF q
<1>3. n < Len(p) => q # <<>> /\ q[1] = p[n + 1] /\ q[Len(q)] = p[Len(p)]
  <2> HAVE n < Len(p)
  <2>1. 1 \in 1 .. Len(q) /\ Len(q) \in 1 .. Len(q) /\ n + Len(q) = Len(p) /\ Len(q) # 0
    BY <1>1
  <2>2. q[1] = p[n + 1] /\ q[Len(q)] = p[n + Len(q)]
    BY <1>2, <2>1
  <2> QED BY <1>1, <2>1, <2>2
<1>4. n = Len(p) => q = <<>>
  BY <1>1
<1>5. ASSUME IsPath(p, InPipe) PROVE IsPath(q, InPipe)
  <2>1. ASSUME NEW k \in 1 .. Len(q) - 1
        PROVE  <<q[k], q[k + 1]>> \in InPipe
    <3>1. k \in 1 .. Len(q) /\ k + 1 \in 1 .. Len(q)
      BY <1>1
    <3>2. n + k \in 1 .. Len(p) - 1 /\ n + (k + 1) = (n + k) + 1
      BY <1>1
    <3>3. q[k] = p[n + k] /\ q[k + 1] = p[n + (k + 1)]
      BY <1>2, <3>1
    <3>4. q[k + 1] = p[(n + k) + 1]
      BY <3>2, <3>3
    <3>5. <<p[n + k], p[(n + k) + 1]>> \in InPipe
      BY <3>2, <1>5 DEF IsPath
    <3> QED BY <3>3, <3>4, <3>5
  <2> QED BY <2>1 DEF IsPath
<1> QED BY <1>1, <1>2, <1>3, <1>4, <1>5 DEF q

LEMMA CutFacts ==
  ASSUME NEW p \in Seq(Unit), NEW n \in 0 .. Len(p)
  PROVE  LET q == SubSeq(p, 1, n) IN
         /\ q \in Seq(Unit) /\ Len(q) = n
         /\ \A k \in 1 .. n : q[k] = p[k]
         /\ n > 0 => q # <<>> /\ q[1] = p[1]
         /\ n = 0 => q = <<>>
         /\ IsPath(p, InPipe) => IsPath(q, InPipe)
<1> DEFINE q == SubSeq(p, 1, n)
<1>1. q \in Seq(Unit) /\ Len(q) = n /\ n \in Nat /\ Len(p) \in Nat /\ n <= Len(p)
  OBVIOUS
<1>2. \A k \in 1 .. n : q[k] = p[k]
  OBVIOUS
<1> HIDE DEF q
<1>3. n > 0 => q # <<>> /\ q[1] = p[1]
  BY <1>1, <1>2
<1>4. n = 0 => q = <<>>
  BY <1>1
<1>5. ASSUME IsPath(p, InPipe) PROVE IsPath(q, InPipe)
  <2>1. ASSUME NEW k \in 1 .. Len(q) - 1
        PROVE  <<q[k], q[k + 1]>> \in InPipe
    <3>1. k \in 1 .. n /\ k + 1 \in 1 .. n /\ k \in 1 .. Len(p) - 1
      BY <1>1
    <3>2. q[k] = p[k] /\ q[k + 1] = p[k + 1]
      BY <1>2, <3>1
    <3> QED BY <3>1, <3>2, <1>5 DEF IsPath
  <2> QED BY <2>1 DEF IsPath
<1> QED BY <1>1, <1>2, <1>3, <1>4, <1>5 DEF q

LEMMA TailIs ==
  ASSUME NEW p \in Seq(Unit), p # <<>>
  PROVE  /\ Tail(p) = SubSeq(p, 1 + 1, Len(p)) /\ Head(p) = p[1] /\ Len(p) \in Nat \ {0}
         /\ \A n \in 0 .. Len(p) - 1 :
              SubSeq(Tail(p), n + 1, Len(Tail(p))) = SubSeq(p, n + 2, Len(p))
<1>1. Len(p) \in Nat \ {0} /\ Head(p) = p[1]
  OBVIOUS
<1>2. Tail(p) = SubSeq(p, 1 + 1, Len(p))
  OBVIOUS
<1>3. Tail(p) \in Seq(Unit) /\ Len(Tail(p)) = Len(p) - 1 /\ \A k \in 1 .. Len(p) - 1 : Tail(p)[k] = p[k + 1]
  OBVIOUS
<1>4. ASSUME NEW n \in 0 .. Len(p) - 1
      PROVE  SubSeq(Tail(p), n + 1, Len(Tail(p))) = SubSeq(p, n + 2, Len(p))
  <2> DEFINE t == Tail(p)
             a == SubSeq(t, n + 1, Len(t))
             b == SubSeq(p, n + 2, Len(p))
  <2>1. t \in Seq(Unit) /\ Len(t) = Len(p) - 1 /\ \A k \in 1 .. Len(p) - 1 : t[k] = p[k + 1]
    BY <1>3
  <2> HIDE DEF t
  <2>2. a \in Seq(Unit) /\ Len(a) = Len(t) - n /\ \A k \in 1 .. Len(a) : a[k] = t[n + k]
    BY <2>1, <1>1
  <2>3. b \in Seq(Unit) /\ Len(b) = Len(p) - (n + 1) /\ \A k \in 1 .. Len(b) : b[k] = p[n + 1 + k]
    BY <1>1
  <2> HIDE DEF a, b
  <2>4. Len(a) = Len(b) /\ Len(a) \in Nat /\ Len(a) = Len(p) - 1 - n
    BY <1>1, <2>1, <2>2, <2>3
  <2>5. ASSUME NEW k \in 1 .. Len(a)
        PROVE  a[k] = b[k]
    <3>1. n + k \in 1 .. Len(p) - 1 /\ (n + k) + 1 = n + 1 + k
      BY <2>4, <1>1
    <3>2. a[k] = t[n + k] /\ b[k] = p[n + 1 + k]
      BY <2>2, <2>3, <2>4
    <3>3. t[n + k] = p[(n + k) + 1]
      BY <2>1, <3>1
    <3> QED BY <3>1, <3>2, <3>3
  <2>6. a = b
    BY <2>2, <2>3, <2>4, <2>5
  <2> QED BY <2>6 DEF a, b, t
<1> QED BY <1>1, <1>2, <1>4

\* From the j-th of x pieces on there are x - j + 1 of them.
LEMMA PiecesLeft ==
  ASSUME NEW x \in Nat, NEW j \in 1 .. x
  PROVE  /\ x - j + 1 \in Nat \ {0} /\ j \in Nat /\ j + (x - j + 1) - 1 = x
         /\ \A k \in 1 .. x - j + 1 : k < x - j + 1 =>
              /\ j + k - 1 \in 1 .. x /\ j + k - 1 < x /\ j + k - 1 \in Nat
              /\ (j + k - 1) + 1 = j + (k + 1) - 1
  OBVIOUS

\* From a piece of data on, a pipe has the rest of the chunk or ends.
LEMMA RunInPipe ==
  ASSUME NEW p \in Seq(Unit), IsPath(p, InPipe), p # <<>>, p[1].unit = "data"
  PROVE  \A k \in 1 .. Chunks[p[1].call][p[1].chunk] - p[1].piece + 1 :
           k <= Len(p) => p[k] = Data(p[1].call, p[1].chunk, p[1].piece + k - 1)
<1> DEFINE c == p[1].call
           i == p[1].chunk
           j == p[1].piece
           n == Chunks[c][i] - j + 1
           S == {k \in Nat : k <= Len(p) => p[k] = Data(c, i, j + k - 1)}
<1>1. p[1] \in Unit /\ Len(p) \in Nat \ {0}
  OBVIOUS
<1>2. p[1] \in Record
  BY <1>1 DEF Unit
<1>3. c \in Call /\ p[1] = Data(c, i, j)
  BY <1>2 DEF Record, Data
<1>4. i \in 1 .. Len(Chunks[c]) /\ j \in 1 .. Chunks[c][i]
  BY <1>1 DEF Unit
<1>5. Chunks[c][i] \in Nat /\ n \in Nat /\ j \in Nat
  <2> HIDE DEF c, i, j
  <2>1. Chunks[c][i] \in Nat \ {0}
    BY <1>3, <1>4, UnitFacts
  <2> QED BY <1>4, <2>1, PiecesLeft
<1> HIDE DEF c, i, j
<1>6. 1 \in S
  <2>1. j + 1 - 1 = j
    BY <1>5
  <2> QED BY <1>3, <2>1
<1>7. ASSUME NEW k \in 1 .. n, k \in S, k < n
      PROVE  k + 1 \in S
  <2> SUFFICES ASSUME k + 1 <= Len(p)
               PROVE  p[k + 1] = Data(c, i, j + (k + 1) - 1)
    OBVIOUS
  <2>1. k \in 1 .. Len(p) - 1 /\ k <= Len(p) /\ k \in Nat
    BY <1>1, <1>5, <1>7
  <2>2. p[k] = Data(c, i, j + k - 1)
    BY <1>7, <2>1
  <2>3. Follows(p[k], p[k + 1])
    BY <2>1, InPipeFollows
  <2>4. j + k - 1 < Chunks[c][i] /\ (j + k - 1) + 1 = j + (k + 1) - 1
    BY <1>5, <1>7, <2>1
  <2>5. p[k + 1] = Data(c, i, (j + k - 1) + 1)
    BY <2>2, <2>3, <2>4 DEF Follows, Data
  <2> QED BY <2>4, <2>5
<1>8. \A k \in 1 .. n : k \in S
  <2> HIDE DEF S, n
  <2> QED BY <1>5, <1>6, <1>7, Induction
<1> QED BY <1>8 DEF c, i, j

\* From a piece of data on, a stream has the rest of the chunk, and behind it
\* the first piece of the next one.
LEMMA RunInContent ==
  ASSUME NEW c \in Call, NEW i \in 1 .. Len(Chunks[c]), NEW j \in 1 .. Chunks[c][i],
         NEW g \in Nat, g < Len(Content(c)), Content(c)[g + 1] = Data(c, i, j)
  PROVE  LET n == Chunks[c][i] - j + 1 IN
         /\ \A k \in 1 .. n : g + k <= Len(Content(c)) /\ Content(c)[g + k] = Data(c, i, j + k - 1)
         /\ IF i = Len(Chunks[c]) THEN g + n = Len(Content(c))
            ELSE g + n < Len(Content(c)) /\ Content(c)[g + n + 1] = Data(c, i + 1, 1)
<1> DEFINE t == Content(c)
           n == Chunks[c][i] - j + 1
           m == Len(Chunks[c])
           S == {k \in Nat : g + k <= Len(t) /\ t[g + k] = Data(c, i, j + k - 1)}
<1>1. /\ t \in Seq(Unit) /\ Len(t) \in Nat /\ IsPath(t, InStream)
      /\ t[Len(t)] = Data(c, m, Chunks[c][m])
  <2>1. m \in Nat /\ m > 0
    BY UnitFacts
  <2>2. t \in Seq(Unit)
    BY ContentFacts
  <2> QED BY <2>1, <2>2, ContentFacts
<1>2. Chunks[c][i] \in Nat \ {0} /\ n \in Nat \ {0} /\ m \in Nat /\ j \in Nat /\ i \in Nat
  <2>1. Chunks[c][i] \in Nat \ {0} /\ m \in Nat
    BY UnitFacts
  <2>2. i \in Nat
    BY <2>1
  <2> QED BY <2>1, <2>2, PiecesLeft
<1> HIDE DEF t, m
<1>3. 1 \in S
  <2>1. g < Len(t) /\ t[g + 1] = Data(c, i, j)
    BY DEF t
  <2>2. g + 1 <= Len(t) /\ j + 1 - 1 = j
    BY <1>1, <1>2, <2>1
  <2> QED BY <2>1, <2>2
\* what comes behind a piece
<1>4. ASSUME NEW x \in Nat, x >= 1, x < Len(t), NEW l \in Nat, t[x] = Data(c, i, l)
      PROVE  /\ l < Chunks[c][i] => t[x + 1] = Data(c, i, l + 1)
             /\ l = Chunks[c][i] => t[x + 1] = Data(c, i + 1, 1) /\ i + 1 \in 1 .. m
  <2>1. x \in 1 .. Len(t) - 1
    BY <1>1, <1>4
  <2>2. <<t[x], t[x + 1]>> \in InStream
    BY <1>1, <2>1 DEF IsPath
  <2>3. /\ l < Chunks[c][i] => t[x + 1] = Data(c, i, l + 1)
        /\ l = Chunks[c][i] => t[x + 1] = Data(c, i + 1, 1)
    <3> DEFINE u == Data(c, i, l)
               v == t[x + 1]
    <3>1. <<u, v>> \in InStream
      BY <1>4, <2>2
    <3>2. u.call = c /\ u.chunk = i /\ u.piece = l
      BY DEF Data
    <3>3. /\ u.piece < Chunks[u.call][u.chunk] => v = Data(u.call, u.chunk, u.piece + 1)
          /\ u.piece = Chunks[u.call][u.chunk] => v = Data(u.call, u.chunk + 1, 1)
      BY <3>1 DEF InStream
    <3> HIDE DEF u
    <3> QED BY <3>2, <3>3
  <2>4. t[x + 1] \in Unit
    BY <2>2 DEF InStream
  <2>5. ASSUME l = Chunks[c][i] PROVE i + 1 \in 1 .. m
    <3>1. Data(c, i + 1, 1) \in Unit
      BY <2>3, <2>4, <2>5
    <3> QED BY <3>1 DEF Unit, Data, m
  <2> QED BY <2>3, <2>5
<1>5. ASSUME NEW l \in 1 .. Chunks[c][i], t[Len(t)] = Data(c, i, l)
      PROVE  i = m /\ l = Chunks[c][i]
  BY <1>1, <1>5 DEF Data
<1>6. ASSUME NEW k \in 1 .. n, k \in S, k < n
      PROVE  k + 1 \in S
  <2>1. /\ k \in Nat /\ g + k <= Len(t) /\ t[g + k] = Data(c, i, j + k - 1)
        /\ g + k \in Nat /\ g + k >= 1
    BY <1>2, <1>6
  <2> DEFINE l == j + k - 1
  <2>2. l \in 1 .. Chunks[c][i] /\ l < Chunks[c][i] /\ l + 1 = j + (k + 1) - 1 /\ l \in Nat
    BY <1>2, <1>6, PiecesLeft, SMTT(30)
  <2>3. t[g + k] = Data(c, i, l)
    BY <2>1
  <2> HIDE DEF l, S
  <2>4. g + k # Len(t)
    <3> SUFFICES ASSUME g + k = Len(t) PROVE FALSE
      OBVIOUS
    <3>1. t[Len(t)] = Data(c, i, l)
      BY <2>3
    <3> QED BY <1>5, <2>2, <3>1
  <2>5. g + k < Len(t) /\ g + (k + 1) <= Len(t) /\ g + (k + 1) = (g + k) + 1
    BY <2>1, <2>4, <1>1
  <2> DEFINE x == g + k
  <2>6. t[x + 1] = Data(c, i, l + 1)
    <3>1. x \in Nat /\ x >= 1 /\ x < Len(t) /\ t[x] = Data(c, i, l) /\ l < Chunks[c][i] /\ l \in Nat
      BY <2>1, <2>2, <2>3, <2>5
    <3> HIDE DEF x
    <3> QED BY <1>4, <3>1
  <2>7. t[g + (k + 1)] = Data(c, i, j + (k + 1) - 1)
    BY <2>2, <2>5, <2>6
  <2>8. k + 1 \in Nat /\ g + (k + 1) <= Len(t)
    BY <2>1, <2>5
  <2> QED BY <2>7, <2>8 DEF S
<1>7. \A k \in 1 .. n : k \in S
  <2> HIDE DEF S, n
  <2> QED BY <1>2, <1>3, <1>6, Induction
<1>8. \A k \in 1 .. n : g + k <= Len(t) /\ t[g + k] = Data(c, i, j + k - 1)
  BY <1>7
<1>9. g + n \in Nat /\ g + n >= 1 /\ g + n <= Len(t) /\ t[g + n] = Data(c, i, Chunks[c][i])
  <2>1. n \in 1 .. n /\ j + n - 1 = Chunks[c][i]
    <3>1. j + n - 1 = Chunks[c][i]
      BY <1>2, PiecesLeft
    <3> HIDE DEF n
    <3> QED BY <1>2, <3>1
  <2>2. g + n <= Len(t) /\ t[g + n] = Data(c, i, j + n - 1)
    <3> HIDE DEF n
    <3> QED BY <1>8, <2>1
  <2>3. t[g + n] = Data(c, i, Chunks[c][i])
    <3> HIDE DEF n
    <3> QED BY <2>1, <2>2
  <2> HIDE DEF n
  <2> QED BY <2>2, <2>3, <1>2
<1> HIDE DEF n
<1>10. CASE i = m
  <2>1. ~(g + n < Len(t))
    BY <1>2, <1>4, <1>9, <1>10
  <2> QED BY <1>1, <1>8, <1>9, <1>10, <2>1 DEF n, t, m
<1>11. CASE i # m
  <2>1. g + n # Len(t)
    <3>1. Chunks[c][i] \in 1 .. Chunks[c][i]
      BY <1>2
    <3> QED BY <1>5, <1>9, <1>11, <3>1
  <2>2. g + n < Len(t)
    BY <1>1, <1>9, <2>1
  <2>3. t[(g + n) + 1] = Data(c, i + 1, 1)
    BY <1>2, <1>4, <1>9, <2>2
  <2> QED BY <1>8, <1>9, <1>11, <2>2, <2>3 DEF n, t, m
<1> QED BY <1>10, <1>11

\* Reading n of the rem units that are left of a chunk: the reader stays in
\* its place, and what it got is what comes next in the stream.
LEMMA TakePieces ==
  ASSUME NEW p \in Seq(Unit), IsPath(p, InPipe), NEW c \in Call,
         NEW rem \in Nat \ {0}, Placed(c, p, rem),
         NEW n \in 1 .. Len(p), n <= rem
  PROVE  LET q == SubSeq(p, n + 1, Len(p)) IN
         /\ rem - n \in Nat
         /\ Placed(c, q, rem - n)
         /\ Final(p[Len(p)]) => q # <<>>
         /\ q # <<>> => q[1].unit # "body"
         /\ \A g \in Nat : Linked(c, p, g) =>
              /\ g + n <= Len(Content(c))
              /\ \A k \in 1 .. n : Content(c)[g + k] = p[k]
              /\ Linked(c, q, g + n)
<1> DEFINE q == SubSeq(p, n + 1, Len(p))
           i == p[1].chunk
           j == p[1].piece
           size == Chunks[c][i]
<1>1. Len(p) \in Nat \ {0} /\ p # <<>> /\ p[1] \in Unit /\ n \in Nat /\ rem - n \in Nat
  OBVIOUS
<1>2. p[1].unit = "data" /\ p[1].call = c /\ rem = size - j + 1
  BY <1>1 DEF Placed
<1>3. i \in 1 .. Len(Chunks[c]) /\ j \in 1 .. size
  BY <1>1, <1>2 DEF Unit
<1>4. p[1] = Data(c, i, j)
  <2>1. p[1] \in Record
    BY <1>1 DEF Unit
  <2> QED BY <2>1, <1>2 DEF Record, Data
<1>5. /\ size \in Nat \ {0} /\ j \in Nat /\ i \in Nat /\ Len(Chunks[c]) \in Nat
      /\ i # End(c) /\ End(c) = Len(Chunks[c]) + 1
  BY <1>3, UnitFacts DEF End
<1>6. \A k \in 1 .. rem : k <= Len(p) => p[k] = Data(c, i, j + k - 1)
  BY <1>1, <1>2, RunInPipe
<1>7. /\ q \in Seq(Unit)
      /\ n < Len(p) => q # <<>> /\ q[1] = p[n + 1]
      /\ n = Len(p) => q = <<>>
  BY DropFacts
<1>8. p[n] = Data(c, i, j + n - 1)
  BY <1>6
<1> HIDE DEF i, j, size, q
<1>9. ASSUME q # <<>>
      PROVE  /\ q[1].call = c
             /\ n < rem => q[1] = Data(c, i, j + n)
             /\ n = rem => q[1] = SizeAt(c, i + 1)
  <2>1. n < Len(p) /\ n \in 1 .. Len(p) - 1 /\ q[1] = p[n + 1]
    BY <1>1, <1>7, <1>9
  <2>2. Follows(p[n], p[n + 1])
    BY <2>1, InPipeFollows
  <2>3. CASE n < rem
    <3>1. n + 1 \in 1 .. rem /\ n + 1 <= Len(p) /\ j + (n + 1) - 1 = j + n
      BY <1>1, <1>5, <2>1, <2>3
    <3>2. p[n + 1] = Data(c, i, j + (n + 1) - 1)
      BY <1>6, <3>1
    <3> QED BY <2>1, <2>3, <3>1, <3>2 DEF Data
  <2>4. CASE n = rem
    <3>1. j + n - 1 = size
      BY <1>2, <1>5, <2>4
    <3>2. p[n] = Data(c, i, size)
      BY <1>8, <3>1
    <3>3. p[n + 1] = SizeAt(c, i + 1)
      BY <2>2, <3>2 DEF Follows, Data, size
    <3> QED BY <2>1, <2>4, <3>3 DEF SizeAt, Size
  <2> QED BY <1>1, <2>3, <2>4
<1>10. Placed(c, q, rem - n)
  <2>1. CASE q # <<>> /\ n < rem
    <3>1. q[1].unit = "data" /\ q[1].call = c /\ q[1].chunk = i /\ q[1].piece = j + n
      BY <1>9, <2>1 DEF Data
    <3>2. rem - n = size - (j + n) + 1
      BY <1>1, <1>2, <1>5
    <3> QED BY <3>1, <3>2 DEF Placed, size
  <2>2. CASE q # <<>> /\ n = rem
    <3>1. q[1].unit = "size" /\ q[1].call = c /\ q[1].chunk = i + 1
      BY <1>9, <2>2 DEF SizeAt, Size
    <3>2. i + 1 \in 1 .. End(c) /\ rem - n = 0
      BY <1>1, <1>3, <1>5, <2>2
    <3> QED BY <3>1, <3>2 DEF Placed
  <2> QED BY <1>1, <2>1, <2>2 DEF Placed
<1>11. Final(p[Len(p)]) => q # <<>>
  <2> SUFFICES ASSUME q = <<>> PROVE ~Final(p[Len(p)])
    OBVIOUS
  <2>1. n = Len(p)
    BY <1>1, <1>7
  <2> QED BY <1>8, <2>1 DEF Final, Data
<1>12. q # <<>> => q[1].unit # "body"
  BY <1>10 DEF Placed
<1>13. ASSUME NEW g \in Nat, Linked(c, p, g)
       PROVE  /\ g + n <= Len(Content(c))
              /\ \A k \in 1 .. n : Content(c)[g + k] = p[k]
              /\ Linked(c, q, g + n)
  <2>1. g < Len(Content(c)) /\ Content(c)[g + 1] = Data(c, i, j)
    BY <1>1, <1>2, <1>4, <1>13 DEF Linked
  <2>2. /\ \A k \in 1 .. rem : g + k <= Len(Content(c)) /\ Content(c)[g + k] = Data(c, i, j + k - 1)
        /\ IF i = Len(Chunks[c]) THEN g + rem = Len(Content(c))
           ELSE g + rem < Len(Content(c)) /\ Content(c)[g + rem + 1] = Data(c, i + 1, 1)
    BY <1>2, <1>3, <2>1, RunInContent DEF size
  <2>3. g + n <= Len(Content(c))
    BY <1>1, <2>2
  <2>4. ASSUME NEW k \in 1 .. n
        PROVE  Content(c)[g + k] = p[k]
    <3>1. k \in 1 .. rem /\ k <= Len(p)
      BY <1>1
    <3> QED BY <3>1, <1>6, <2>2
  <2>5. Linked(c, q, g + n)
    <3>1. CASE q # <<>> /\ n < rem
      <4>1. n + 1 \in 1 .. rem /\ g + (n + 1) = (g + n) + 1 /\ j + (n + 1) - 1 = j + n /\ g + n \in Nat
        BY <1>1, <1>5, <3>1
      <4>2. g + (n + 1) <= Len(Content(c)) /\ Content(c)[g + (n + 1)] = Data(c, i, j + (n + 1) - 1)
        BY <2>2, <4>1
      <4>3. Len(Content(c)) \in Nat
        <5>1. Content(c) \in Seq(Unit)
          BY ContentFacts
        <5> QED BY <5>1
      <4>4. Content(c)[(g + n) + 1] = q[1] /\ g + n < Len(Content(c)) /\ q[1].unit = "data"
        <5>1. Content(c)[(g + n) + 1] = Data(c, i, j + n)
          BY <4>1, <4>2
        <5>2. q[1] = Data(c, i, j + n)
          BY <1>9, <3>1
        <5>3. Data(c, i, j + n).unit = "data"
          BY DEF Data
        <5>4. g + n < Len(Content(c))
          BY <4>1, <4>2, <4>3
        <5> QED BY <5>1, <5>2, <5>3, <5>4
      <4> QED BY <4>4 DEF Linked
    <3>2. CASE q # <<>> /\ n = rem
      <4>1. q[1].unit = "size" /\ q[1].call = c /\ q[1].chunk = i + 1
        BY <1>9, <3>2 DEF SizeAt, Size
      <4>2. i + 1 = End(c) <=> i = Len(Chunks[c])
        BY <1>5
      <4>3. i + 1 < End(c) => i # Len(Chunks[c])
        BY <1>5
      <4> QED BY <2>2, <3>2, <4>1, <4>2, <4>3 DEF Linked
    <3> QED BY <1>1, <3>1, <3>2 DEF Linked
  <2> QED BY <2>3, <2>4, <2>5
<1> QED BY <1>1, <1>10, <1>11, <1>12, <1>13 DEF q

\* os.read of at most rem units in the middle of a chunk.
LEMMA TakeBuf ==
  ASSUME NEW p \in Seq(Unit), IsPath(p, InPipe), NEW c \in Call,
         NEW rem \in Nat \ {0}, Placed(c, p, rem),
         NEW buf \in OsRead(p, rem), ~closed /\ p # <<>> => Final(p[Len(p)])
  PROVE  LET q == SubSeq(p, Len(buf) + 1, Len(p)) IN
         /\ buf \in Seq(Unit) /\ Len(buf) \in 0 .. Len(p) /\ rem - Len(buf) \in Nat
         /\ q \in Seq(Unit) /\ Placed(c, q, rem - Len(buf))
         /\ q = <<>> => closed
         /\ buf = <<>> => closed
         /\ \A g \in Nat : Linked(c, p, g) /\ g <= Len(Content(c)) =>
              /\ g + Len(buf) <= Len(Content(c))
              /\ \A k \in 1 .. Len(buf) : Content(c)[g + k] = buf[k]
              /\ Linked(c, q, g + Len(buf))
<1>1. CASE p = <<>>
  <2>1. buf = <<>> /\ closed
    BY <1>1 DEF OsRead
  <2>2. Len(buf) = 0 /\ Len(p) = 0 /\ SubSeq(p, Len(buf) + 1, Len(p)) = <<>>
    BY <1>1, <2>1
  <2>3. \A g \in Nat : g + Len(buf) = g
    BY <2>2
  <2> QED BY <1>1, <2>1, <2>2, <2>3 DEF Placed, Linked
<1>2. CASE p # <<>>
  <2>1. PICK n \in 1 .. Len(p) : n <= rem /\ buf = SubSeq(p, 1, n)
    BY <1>2 DEF OsRead
  <2>2. Len(p) \in Nat \ {0} /\ n \in Nat \ {0} /\ n \in 0 .. Len(p)
    BY <1>2
  <2>3. buf \in Seq(Unit) /\ Len(buf) = n /\ \A k \in 1 .. n : buf[k] = p[k]
    BY <2>1, <2>2, CutFacts
  <2> DEFINE q == SubSeq(p, n + 1, Len(p))
  <2>4. q \in Seq(Unit)
    BY <2>2, DropFacts
  <2>5. /\ rem - n \in Nat
        /\ Placed(c, q, rem - n)
        /\ Final(p[Len(p)]) => q # <<>>
        /\ \A g \in Nat : Linked(c, p, g) =>
             /\ g + n <= Len(Content(c))
             /\ \A k \in 1 .. n : Content(c)[g + k] = p[k]
             /\ Linked(c, q, g + n)
    BY <2>1, TakePieces
  <2>6. q = SubSeq(p, Len(buf) + 1, Len(p))
    BY <2>3
  <2> HIDE DEF q
  <2>7. buf # <<>> /\ Len(buf) \in 0 .. Len(p)
    BY <2>2, <2>3
  <2>8. \A g \in Nat : Linked(c, p, g) =>
          /\ g + Len(buf) <= Len(Content(c))
          /\ \A k \in 1 .. Len(buf) : Content(c)[g + k] = buf[k]
          /\ Linked(c, q, g + Len(buf))
    BY <2>3, <2>5
  <2> QED BY <1>2, <2>3, <2>4, <2>5, <2>6, <2>7, <2>8
<1> QED BY <1>1, <1>2

\* Between two chunks a reader is in front of a size.
LEMMA HeadIsSize ==
  ASSUME NEW p \in Seq(Unit), p # <<>>, NEW c \in Call, Placed(c, p, 0)
  PROVE  /\ p[1] \in Unit /\ p[1].call = c /\ p[1].unit = "size" /\ Head(p) = p[1]
         /\ p[1].chunk \in 1 .. Len(Chunks[c]) => p[1].n = Chunks[c][p[1].chunk] /\ p[1].n \in Nat \ {0}
         /\ p[1].chunk \notin 1 .. Len(Chunks[c]) => p[1].n = 0 /\ p[1].chunk = End(c)
         /\ p[1].chunk \in Nat
<1> DEFINE i == p[1].chunk
<1>1. p[1] \in Unit /\ Head(p) = p[1]
  BY TailIs
<1>2. p[1].call = c
  BY DEF Placed
<1>3. p[1].unit = "size" /\ i \in 1 .. End(c)
  <2>1. ASSUME p[1].unit = "data" PROVE FALSE
    <3>1. i \in 1 .. Len(Chunks[c]) /\ p[1].piece \in 1 .. Chunks[c][i]
      BY <1>1, <1>2, <2>1 DEF Unit
    <3>2. Chunks[c][i] \in Nat
      BY <3>1, UnitFacts
    <3>3. Chunks[c][i] - p[1].piece + 1 # 0
      BY <3>1, <3>2
    <3> QED BY <2>1, <3>3 DEF Placed
  <2> QED BY <2>1 DEF Placed
<1>4. Len(Chunks[c]) \in Nat /\ End(c) = Len(Chunks[c]) + 1
  BY UnitFacts DEF End
<1>5. i # 0 /\ i \in Nat
  BY <1>3, <1>4
<1>6. p[1] = SizeAt(c, i)
  BY <1>1, <1>2, <1>3, <1>5 DEF Unit, Start, Size
<1>7. SizeAt(c, i).n = IF i = End(c) THEN 0 ELSE Chunks[c][i]
  BY DEF SizeAt, Size
<1>8. \A k \in 1 .. Len(Chunks[c]) : Chunks[c][k] \in Nat \ {0} /\ k # End(c)
  BY <1>4, UnitFacts
<1>9. i \notin 1 .. Len(Chunks[c]) => i = End(c)
  BY <1>3, <1>4
<1> QED BY <1>1, <1>2, <1>3, <1>5, <1>6, <1>7, <1>8, <1>9

\* A read of stream_reader, wherever the function is.
LEMMA ReadFacts ==
  ASSUME TypeInv, PipeInv, ReaderInv, GotInv, pc \in Executing, NEW buf, Read(buf)
  PROVE  /\ \E n \in 0 .. Len(pipe) : pipe' = SubSeq(pipe, n + 1, Len(pipe))
         /\ buf \in Seq(Unit) /\ chunk_remaining' \in Nat /\ eof' \in BOOLEAN
         /\ ~eof' => Placed(task, pipe', chunk_remaining') /\ (pipe' = <<>> => closed)
         /\ eof' => pipe' = <<>> \/ pipe'[1].unit # "body"
         /\ pc # "drain" =>
              /\ Len(got[task]) + Len(buf) <= Len(Content(task))
              /\ \A k \in 1 .. Len(buf) : Content(task)[Len(got[task]) + k] = buf[k]
              /\ IF eof' THEN Len(got[task]) + Len(buf) = Len(Content(task)) \/ closed
                 ELSE Linked(task, pipe', Len(got[task]) + Len(buf))
              /\ buf = <<>> => Whole(task) \/ closed
<1> DEFINE g == Len(got[task])
           m == Len(Content(task))
           Moves == \E n \in 0 .. Len(pipe) : pipe' = SubSeq(pipe, n + 1, Len(pipe))
           Gets == /\ g + Len(buf) <= m
                   /\ \A k \in 1 .. Len(buf) : Content(task)[g + k] = buf[k]
                   /\ IF eof' THEN g + Len(buf) = m \/ closed ELSE Linked(task, pipe', g + Len(buf))
                   /\ buf = <<>> => Whole(task) \/ closed
<1> SUFFICES /\ Moves
             /\ buf \in Seq(Unit) /\ chunk_remaining' \in Nat /\ eof' \in BOOLEAN
             /\ ~eof' => Placed(task, pipe', chunk_remaining') /\ (pipe' = <<>> => closed)
             /\ eof' => pipe' = <<>> \/ pipe'[1].unit # "body"
             /\ pc # "drain" => Gets
  OBVIOUS
<1>1. task \in IsStream /\ task \in Call
  BY StreamAssumption DEF TypeInv, Executing
<1>2. /\ pipe \in Seq(Unit) /\ IsPath(pipe, InPipe) /\ got[task] \in Seq(Unit) /\ Len(pipe) \in Nat
      /\ chunk_remaining \in Nat /\ eof \in BOOLEAN
  BY <1>1 DEF TypeInv, PipeInv
<1>3. g \in Nat /\ g <= m /\ m \in Nat
  <2>1. Content(task) \in Seq(Unit)
    BY <1>1, ContentFacts
  <2>2. g <= m
    BY <1>1 DEF GotInv
  <2> QED BY <1>2, <2>1, <2>2
<1>4. /\ ~eof => Placed(task, pipe, chunk_remaining) /\ (pipe = <<>> => closed)
      /\ eof => pipe = <<>> \/ pipe[1].unit # "body"
      /\ pc # "drain" => IF eof THEN g = m \/ closed ELSE Linked(task, pipe, g)
  BY DEF ReaderInv, Whole
<1>5. Whole(task) <=> g = m
  BY DEF Whole
<1>6. ~closed /\ pipe # <<>> => Final(pipe[Len(pipe)])
  BY DEF PipeInv
<1> HIDE DEF g, m
<1>7. CASE ReadRest(buf)
  <2>1. /\ ~eof /\ chunk_remaining \in Nat \ {0} /\ buf \in OsRead(pipe, chunk_remaining)
        /\ pipe' = SubSeq(pipe, Len(buf) + 1, Len(pipe))
        /\ chunk_remaining' = chunk_remaining - Len(buf) /\ eof' = eof
    BY <1>2, <1>7 DEF ReadRest
  <2>2. /\ buf \in Seq(Unit) /\ Len(buf) \in 0 .. Len(pipe) /\ chunk_remaining' \in Nat
        /\ Placed(task, pipe', chunk_remaining')
        /\ pipe' = <<>> => closed
        /\ buf = <<>> => closed
        /\ Linked(task, pipe, g) => /\ g + Len(buf) <= m
                                    /\ \A k \in 1 .. Len(buf) : Content(task)[g + k] = buf[k]
                                    /\ Linked(task, pipe', g + Len(buf))
    BY <1>1, <1>2, <1>3, <1>4, <1>6, <2>1, TakeBuf DEF m
  <2>3. Moves
    BY <2>1, <2>2
  <2>4. ASSUME pc # "drain" PROVE Gets
    <3>1. Linked(task, pipe, g)
      BY <1>4, <2>1, <2>4
    <3>2. /\ g + Len(buf) <= m
          /\ \A k \in 1 .. Len(buf) : Content(task)[g + k] = buf[k]
          /\ Linked(task, pipe', g + Len(buf))
      BY <2>2, <3>1
    <3> QED BY <2>1, <2>2, <3>2
  <2> HIDE DEF Moves, Gets
  <2> QED BY <1>2, <2>1, <2>2, <2>3, <2>4
<1>8. CASE ReadChunk(buf)
  <2>1. PICK next_size \in Sizes \ {0} :
          /\ ~eof /\ chunk_remaining = 0 /\ eof' = eof
          /\ buf \in OsRead(Tail(pipe), next_size)
          /\ pipe' = SubSeq(pipe, Len(buf) + 2, Len(pipe))
          /\ chunk_remaining' = next_size - Len(buf)
    BY <1>8 DEF ReadChunk
  <2>2. pipe # <<>> /\ Placed(task, pipe, 0)
    BY <1>4, <2>1 DEF Sizes
  <2> DEFINE i == pipe[1].chunk
             t == Tail(pipe)
  <2>3. pipe[1] \in Unit /\ pipe[1].call = task /\ pipe[1].unit = "size" /\ Head(pipe) = pipe[1]
    BY <1>1, <1>2, <2>2, HeadIsSize
  <2>4. next_size = pipe[1].n /\ next_size # 0
    BY <2>1, <2>2, <2>3 DEF Sizes
  <2>5. i \in 1 .. Len(Chunks[task]) /\ next_size = Chunks[task][i] /\ next_size \in Nat \ {0}
    BY <1>1, <1>2, <2>2, <2>4, HeadIsSize
  <2>6. Len(Chunks[task]) \in Nat /\ End(task) = Len(Chunks[task]) + 1
    BY <1>1, UnitFacts DEF End
  <2>8. buf \in OsRead(t, next_size)
    BY <2>1
  <2>9. /\ t \in Seq(Unit) /\ Len(t) = Len(pipe) - 1 /\ IsPath(t, InPipe)
        /\ t # <<>> => t[1] = pipe[2] /\ t[Len(t)] = pipe[Len(pipe)] /\ 1 \in 1 .. Len(pipe) - 1
    <3>1. t = SubSeq(pipe, 1 + 1, Len(pipe)) /\ Len(pipe) \in Nat \ {0} /\ 1 \in 0 .. Len(pipe)
      BY <1>2, <2>2, TailIs
    <3> HIDE DEF t
    <3>2. /\ t \in Seq(Unit) /\ Len(t) = Len(pipe) - 1 /\ IsPath(t, InPipe)
          /\ 1 < Len(pipe) => t # <<>> /\ t[1] = pipe[1 + 1] /\ t[Len(t)] = pipe[Len(pipe)]
          /\ 1 = Len(pipe) => t = <<>>
      BY <1>2, <3>1, DropFacts
    <3> QED BY <3>1, <3>2
  <2>10. t # <<>> => t[1] = Data(task, i, 1)
    <3> SUFFICES ASSUME t # <<>> PROVE pipe[2] = Data(task, i, 1)
      BY <2>9
    <3>1. Follows(pipe[1], pipe[1 + 1])
      BY <1>2, <2>9, InPipeFollows
    <3>2. pipe[1 + 1] = Data(pipe[1].call, pipe[1].chunk, 1)
      BY <2>3, <2>5, <3>1 DEF Follows
    <3> QED BY <2>3, <3>2
  <2>11. pipe' = SubSeq(t, Len(buf) + 1, Len(t)) \/ Len(buf) \notin 0 .. Len(pipe) - 1
    BY <1>2, <2>1, <2>2, TailIs
  <2> HIDE DEF t, i
  <2>12. Placed(task, t, next_size)
    BY <2>5, <2>10 DEF Placed, Data
  <2>13. Linked(task, pipe, g) => Linked(task, t, g)
    <3>1. i # End(task) /\ i < End(task)
      BY <2>5, <2>6
    <3> QED BY <2>2, <2>3, <2>10, <3>1 DEF Linked, Data, i
  <2>14. ~closed /\ t # <<>> => Final(t[Len(t)])
    BY <1>6, <2>2, <2>9
  <2>15. /\ buf \in Seq(Unit) /\ Len(buf) \in 0 .. Len(t) /\ next_size - Len(buf) \in Nat
         /\ Placed(task, SubSeq(t, Len(buf) + 1, Len(t)), next_size - Len(buf))
         /\ SubSeq(t, Len(buf) + 1, Len(t)) = <<>> => closed
         /\ buf = <<>> => closed
         /\ Linked(task, t, g) => /\ g + Len(buf) <= m
                                  /\ \A k \in 1 .. Len(buf) : Content(task)[g + k] = buf[k]
                                  /\ Linked(task, SubSeq(t, Len(buf) + 1, Len(t)), g + Len(buf))
    <3>1. task \in Call /\ t \in Seq(Unit) /\ IsPath(t, InPipe) /\ next_size \in Nat \ {0}
          /\ (~closed /\ t # <<>> => Final(t[Len(t)]))
      BY <1>1, <2>5, <2>9, <2>14
    <3> QED BY <1>3, <2>8, <2>12, <3>1, TakeBuf DEF m
  <2>16. pipe' = SubSeq(t, Len(buf) + 1, Len(t))
    BY <1>2, <2>9, <2>11, <2>15
  <2>17. /\ Len(buf) + 1 \in 0 .. Len(pipe)
         /\ pipe' = SubSeq(pipe, (Len(buf) + 1) + 1, Len(pipe))
    <3>1. Len(buf) \in Nat /\ Len(buf) + 2 = (Len(buf) + 1) + 1
      BY <2>15
    <3> QED BY <1>2, <2>1, <2>9, <2>15, <3>1
  <2>18. chunk_remaining' \in Nat /\ eof' = FALSE /\ (pc # "drain" => Linked(task, t, g))
    BY <1>4, <2>1, <2>13, <2>15
  <2>19. Moves
    BY <2>17
  <2>20. Placed(task, pipe', chunk_remaining') /\ (pipe' = <<>> => closed)
    BY <2>1, <2>15, <2>16
  <2>21. pc # "drain" =>
           /\ g + Len(buf) <= m
           /\ \A k \in 1 .. Len(buf) : Content(task)[g + k] = buf[k]
           /\ Linked(task, pipe', g + Len(buf))
    BY <2>15, <2>16, <2>18
  <2>22. ASSUME pc # "drain" PROVE Gets
    <3>1. eof' = FALSE /\ (buf = <<>> => closed)
      BY <2>15, <2>18
    <3>2. /\ g + Len(buf) <= m
          /\ \A k \in 1 .. Len(buf) : Content(task)[g + k] = buf[k]
          /\ Linked(task, pipe', g + Len(buf))
      BY <2>21, <2>22
    <3> QED BY <3>1, <3>2
  <2> HIDE DEF Moves, Gets
  <2>23. buf \in Seq(Unit) /\ chunk_remaining' \in Nat /\ eof' = FALSE
    BY <2>15, <2>18
  <2> QED BY <2>19, <2>20, <2>22, <2>23
<1>9. CASE ReadEnd(buf)
  <2>1. ~eof /\ chunk_remaining = 0 /\ buf = <<>> /\ eof' = TRUE /\ chunk_remaining' = chunk_remaining
    BY <1>9 DEF ReadEnd
  <2>2. /\ Len(buf) = 0 /\ buf \in Seq(Unit) /\ g + Len(buf) = g
        /\ \A k \in 1 .. Len(buf) : Content(task)[g + k] = buf[k]
    BY <2>1, <1>3
  <2>3. CASE 0 \in Sizes /\ pipe' = Tail(pipe)
    <3>1. pipe # <<>> /\ Placed(task, pipe, 0)
      BY <1>4, <2>1, <2>3 DEF Sizes
    <3>2. pipe[1] \in Unit /\ pipe[1].call = task /\ pipe[1].unit = "size" /\ Head(pipe) = pipe[1]
      BY <1>1, <1>2, <3>1, HeadIsSize
    <3>5. pipe[1].n = 0
      BY <2>3, <3>1, <3>2 DEF Sizes
    <3>6. pipe[1].chunk = End(task)
      BY <1>1, <1>2, <3>1, <3>5, HeadIsSize
    <3>7. pc # "drain" => g = m
      BY <1>4, <2>1, <3>1, <3>2, <3>6 DEF Linked, m
    <3>8. pipe' = SubSeq(pipe, 1 + 1, Len(pipe)) /\ Len(pipe) \in Nat \ {0} /\ 1 \in 0 .. Len(pipe)
      BY <1>2, <2>3, <3>1, TailIs
    <3>9. pipe' = <<>> \/ pipe'[1].unit # "body"
      <4>1. /\ 1 < Len(pipe) => pipe'[1] = pipe[1 + 1]
            /\ 1 = Len(pipe) => pipe' = <<>>
        BY <1>2, <3>8, DropFacts
      <4>2. ASSUME 1 < Len(pipe) PROVE pipe[1 + 1].unit = "size"
        <5>1. Final(pipe[1])
          BY <3>2, <3>6 DEF Final
        <5>2. Follows(pipe[1], pipe[1 + 1])
          <6>1. 1 \in 1 .. Len(pipe) - 1
            BY <4>2, <3>8
          <6> QED BY <1>2, <6>1, InPipeFollows
        <5> QED BY <5>1, <5>2 DEF Follows
      <4> QED BY <3>8, <4>1, <4>2
    <3>10. g + Len(buf) <= m /\ (pc # "drain" => Whole(task) /\ g + Len(buf) = m)
      BY <1>3, <1>5, <2>2, <3>7
    <3>11. eof' = TRUE /\ chunk_remaining' \in Nat
      BY <1>2, <2>1
    <3> QED BY <2>2, <3>8, <3>9, <3>10, <3>11
  <2>4. CASE AtEnd /\ pipe' = pipe
    <3>1. pipe = <<>> /\ closed /\ pipe' = <<>>
      BY <2>4 DEF AtEnd
    <3>2. 0 \in 0 .. Len(pipe) /\ pipe' = SubSeq(pipe, 0 + 1, Len(pipe))
      BY <3>1
    <3>3. eof' = TRUE /\ chunk_remaining' \in Nat /\ g + Len(buf) <= m
      BY <1>2, <1>3, <2>1, <2>2
    <3> QED BY <2>2, <3>1, <3>2, <3>3
  <2> QED BY <1>9, <2>3, <2>4 DEF ReadEnd
<1>10. CASE ReadAgain(buf)
  <2>1. eof /\ buf = <<>> /\ pipe' = pipe /\ chunk_remaining' = chunk_remaining /\ eof' = eof
    BY <1>10 DEF ReadAgain, readerVars
  <2>2. /\ Len(buf) = 0 /\ buf \in Seq(Unit) /\ g + Len(buf) = g
        /\ \A k \in 1 .. Len(buf) : Content(task)[g + k] = buf[k]
    BY <2>1, <1>3
  <2>3. 0 \in 0 .. Len(pipe) /\ pipe' = SubSeq(pipe, 0 + 1, Len(pipe))
    BY <1>2, <2>1
  <2>4. eof' = TRUE /\ chunk_remaining' \in Nat /\ g + Len(buf) <= m
        /\ (pc # "drain" => g = m \/ closed) /\ (pipe' = <<>> \/ pipe'[1].unit # "body")
    BY <1>2, <1>3, <1>4, <2>1, <2>2
  <2> QED BY <1>5, <2>2, <2>3, <2>4
<1> QED BY <1>7, <1>8, <1>9, <1>10 DEF Read

-----------------------------------------------------------------------------
(* The steps.                                                              *)

Dropped(n) == pipe' = SubSeq(pipe, n + 1, Len(pipe))

LEMMA NothingDropped ==
  ASSUME TypeInv, pipe' = pipe
  PROVE  0 \in 0 .. Len(pipe) /\ Dropped(0)
BY DEF TypeInv, Dropped

LEMMA DroppedPipe ==
  ASSUME TypeInv, PipeInv, NEW n \in 0 .. Len(pipe), Dropped(n), closed' = closed
  PROVE  /\ pipe' \in Seq(Unit) /\ PipeInv'
         /\ \A k \in 1 .. Len(pipe') : pipe'[k] = pipe[n + k] /\ n + k \in 1 .. Len(pipe)
<1>1. pipe \in Seq(Unit) /\ Len(pipe) \in Nat /\ IsPath(pipe, InPipe)
  BY DEF TypeInv, PipeInv
<1> DEFINE q == SubSeq(pipe, n + 1, Len(pipe))
<1>2. /\ q \in Seq(Unit)
      /\ \A k \in 1 .. Len(q) : q[k] = pipe[n + k] /\ n + k \in 1 .. Len(pipe)
      /\ n < Len(pipe) => q[Len(q)] = pipe[Len(pipe)]
      /\ n = Len(pipe) => q = <<>>
      /\ IsPath(q, InPipe)
  BY <1>1, DropFacts
<1>3. pipe' = q
  BY DEF Dropped
<1> HIDE DEF q
<1>4. pipe' # <<>> /\ ~closed' => Final(pipe'[Len(pipe')])
  <2> SUFFICES ASSUME q # <<>>, ~closed PROVE Final(q[Len(q)])
    BY <1>3
  <2>1. n < Len(pipe) /\ pipe # <<>>
    BY <1>1, <1>2
  <2> QED BY <1>2, <2>1 DEF PipeInv
<1> QED BY <1>2, <1>3, <1>4 DEF PipeInv

\* Dropping units leaves at most one body of every call.
LEMMA DroppedOnce ==
  ASSUME TypeInv, OnceInv, NEW n \in 0 .. Len(pipe),
         \A k \in 1 .. Len(pipe') : pipe'[k] = pipe[n + k] /\ n + k \in 1 .. Len(pipe),
         pipe' \in Seq(Unit), unsent' = unsent,
         \A c \in IsStream : Fresh(c) => Fresh(c)',
         \A c \in IsStream : msg' = <<Body(c)>> => msg = <<Body(c)>> \/ (n >= 1 /\ pipe # <<>> /\ pipe[1] = Body(c)),
         pc' = "body" => \A c \in IsStream : msg' = <<Body(c)>> => Fresh(c),
         pc' \in Executing => status'[task'] = None
  PROVE  OnceInv'
<1>1. Len(pipe) \in Nat /\ Len(pipe') \in Nat /\ n \in Nat /\ (pipe # <<>> => 1 \in 1 .. Len(pipe))
  BY DEF TypeInv
<1>2. ASSUME NEW c \in unsent \cap IsStream
      PROVE  Fresh(c)' /\ msg' # <<Body(c)>>
  <2>1. Fresh(c) /\ msg # <<Body(c)>>
    BY DEF OnceInv
  <2>2. ASSUME pipe # <<>>, pipe[1] = Body(c) PROVE FALSE
    BY <1>1, <2>2 DEF OnceInv
  <2> QED BY <2>1, <2>2
<1>3. ASSUME NEW k \in 1 .. Len(pipe'), NEW c \in IsStream, pipe'[k] = Body(c)
      PROVE  Fresh(c)' /\ c \notin unsent /\ msg' # <<Body(c)>>
  <2>1. n + k \in 1 .. Len(pipe) /\ pipe[n + k] = Body(c) /\ k >= 1 /\ k \in Nat
    BY <1>1, <1>3
  <2>2. Fresh(c) /\ c \notin unsent /\ msg # <<Body(c)>>
    BY <2>1 DEF OnceInv
  <2>3. ASSUME n >= 1, pipe # <<>>, pipe[1] = Body(c) PROVE FALSE
    <3>1. n + k = 1
      BY <1>1, <2>1, <2>3 DEF OnceInv
    <3> QED BY <1>1, <2>1, <2>3, <3>1
  <2> QED BY <2>2, <2>3
<1>4. ASSUME NEW k \in 1 .. Len(pipe'), NEW l \in 1 .. Len(pipe'), NEW c \in IsStream,
             pipe'[k] = Body(c), pipe'[l] = Body(c)
      PROVE  k = l
  <2>1. /\ n + k \in 1 .. Len(pipe) /\ pipe[n + k] = Body(c)
        /\ n + l \in 1 .. Len(pipe) /\ pipe[n + l] = Body(c)
    BY <1>4
  <2>2. n + k = n + l
    BY <2>1 DEF OnceInv
  <2> QED BY <1>1, <2>2
<1>5. pc' = "body" => \A c \in IsStream : msg' = <<Body(c)>> => Fresh(c)'
  OBVIOUS
<1>6. unsent' \cap IsStream = unsent \cap IsStream
  OBVIOUS
<1> QED BY <1>2, <1>3, <1>4, <1>5, <1>6 DEF OnceInv

LEMMA InitKeeps == Init => IInv
<1> SUFFICES ASSUME Init PROVE IInv
  OBVIOUS
<1> USE DEF Init
<1>1. \A c \in Call : got[c] = <<>> /\ status[c] = None /\ Len(got[c]) = 0
  OBVIOUS
<1>2. \A c \in Call : Len(Content(c)) \in Nat
  <2> TAKE c \in Call
  <2>1. Content(c) \in Seq(Unit)
    BY ContentFacts
  <2> QED BY <2>1
<1>3. IsStream \subseteq Call /\ None \notin Call /\ None # "ok"
  BY StreamAssumption, NoneAssumption
<1>4. pipe = <<>> /\ Len(pipe) = 0 /\ pipe \in Seq(Unit) /\ msg = <<>> /\ msg \in Seq(Unit)
  OBVIOUS
<1>5. got \in [Call -> Seq(Unit)]
  OBVIOUS
<1>6. TypeInv
  BY <1>4, <1>5 DEF TypeInv, Executing
<1>7. PipeInv
  BY <1>4 DEF PipeInv, IsPath
<1>8. \A c \in Call : Fresh(c) /\ msg # <<Body(c)>>
  BY <1>1, <1>3 DEF Fresh
<1>9. OnceInv
  BY <1>3, <1>4, <1>8 DEF OnceInv, Executing
<1>10. MessageInv /\ ReaderInv
  BY DEF MessageInv, ReaderInv, Executing
<1>11. GotInv
  BY <1>1, <1>2, <1>3 DEF GotInv
<1> QED BY <1>6, <1>7, <1>9, <1>10, <1>11 DEF IInv

\* A call that is answered: the input thread goes back to the next message.
LEMMA AnswerKeeps ==
  ASSUME IInv, pc \in Executing, NEW s \in {"ok", "error"}, Answer(s),
         s = "ok" => Whole(task) \/ closed,
         NEW n \in 0 .. Len(pipe), Dropped(n), pipe' = <<>> \/ pipe'[1].unit # "body",
         chunk_remaining' \in Nat, eof' \in BOOLEAN,
         UNCHANGED <<unsent, closed, to_read, msg, threads, got>>
  PROVE  IInv'
<1>1. TypeInv /\ PipeInv /\ OnceInv /\ GotInv
  BY DEF IInv
<1>2. /\ pipe' \in Seq(Unit) /\ PipeInv'
      /\ \A k \in 1 .. Len(pipe') : pipe'[k] = pipe[n + k] /\ n + k \in 1 .. Len(pipe)
  BY <1>1, DroppedPipe
<1>3. task \in IsStream /\ task \in Call /\ None \notin Call /\ IsStream \subseteq Call
  BY <1>1, StreamAssumption, NoneAssumption DEF TypeInv
<1>4. /\ status' = [status EXCEPT ![task] = s] /\ task' = None /\ pc' = "size"
      /\ status \in [Call -> {None, "ok", "error"}]
  BY <1>1 DEF Answer, TypeInv
<1>5. status' \in [Call -> {None, "ok", "error"}] /\ status'[task] = s
      /\ \A c \in Call : c # task => status'[c] = status[c]
  BY <1>3, <1>4
<1>6. TypeInv'
  BY <1>1, <1>2, <1>4, <1>5 DEF TypeInv, Executing
<1>7. \A c \in IsStream : Fresh(c) => Fresh(c)'
  BY <1>3, <1>4, <1>5 DEF Fresh
<1>8. OnceInv'
  <2>1. pc' # "body" /\ pc' \notin Executing /\ unsent' = unsent /\ msg' = msg
    BY <1>4 DEF Executing
  <2> QED BY <1>1, <1>2, <1>7, <2>1, DroppedOnce
<1>9. MessageInv' /\ ReaderInv'
  BY <1>4 DEF MessageInv, ReaderInv, Executing
<1>10. GotInv'
  <2>1. \A c \in Call : Len(got'[c]) <= Len(Content(c)) /\ \A k \in 1 .. Len(got'[c]) : got'[c][k] = Content(c)[k]
    BY <1>1 DEF GotInv
  <2>2. ASSUME NEW c \in IsStream, status'[c] = "ok"
        PROVE  Whole(c)' \/ closed'
    <3>1. CASE c = task
      BY <1>5, <2>2, <3>1 DEF Whole
    <3>2. CASE c # task
      BY <1>1, <1>3, <1>5, <2>2, <3>2 DEF GotInv, Whole
    <3> QED BY <3>1, <3>2
  <2> QED BY <2>1, <2>2 DEF GotInv
<1> QED BY <1>2, <1>6, <1>8, <1>9, <1>10 DEF IInv

\* A read after which the call goes on.
LEMMA ReadKeeps ==
  ASSUME IInv, pc \in Executing, NEW buf, Read(buf),
         UNCHANGED <<unsent, closed, to_read, msg, task, threads, status>>,
         \/ pc # "drain" /\ pc' = pc /\ got' = [got EXCEPT ![task] = @ \o buf]
         \/ pc' = "drain" /\ got' = got
  PROVE  IInv'
<1>1. TypeInv /\ PipeInv /\ OnceInv /\ ReaderInv /\ GotInv
  BY DEF IInv
<1>2. PICK n \in 0 .. Len(pipe) : Dropped(n)
  BY <1>1, ReadFacts DEF Dropped
<1>3. /\ pipe' \in Seq(Unit) /\ PipeInv'
      /\ \A k \in 1 .. Len(pipe') : pipe'[k] = pipe[n + k] /\ n + k \in 1 .. Len(pipe)
  BY <1>1, <1>2, DroppedPipe
<1>4. task \in IsStream /\ task \in Call /\ IsStream \subseteq Call
  BY <1>1, StreamAssumption DEF TypeInv
<1>5. pc' \in Executing /\ pc' # "body" /\ pc' # "size"
  BY DEF Executing
<1>6. /\ buf \in Seq(Unit) /\ chunk_remaining' \in Nat /\ eof' \in BOOLEAN
      /\ ~eof' => Placed(task, pipe', chunk_remaining') /\ (pipe' = <<>> => closed)
      /\ eof' => pipe' = <<>> \/ pipe'[1].unit # "body"
  BY <1>1, ReadFacts
<1>7. pc # "drain" =>
        /\ Len(got[task]) + Len(buf) <= Len(Content(task))
        /\ \A k \in 1 .. Len(buf) : Content(task)[Len(got[task]) + k] = buf[k]
        /\ IF eof' THEN Len(got[task]) + Len(buf) = Len(Content(task)) \/ closed
           ELSE Linked(task, pipe', Len(got[task]) + Len(buf))
  BY <1>1, ReadFacts
<1>8. /\ got \in [Call -> Seq(Unit)] /\ got[task] \in Seq(Unit)
      /\ got[task] \o buf \in Seq(Unit) /\ Len(got[task] \o buf) = Len(got[task]) + Len(buf)
      /\ Len(got[task]) \in Nat /\ Len(buf) \in Nat
  <2>1. got \in [Call -> Seq(Unit)] /\ got[task] \in Seq(Unit)
    BY <1>1, <1>4 DEF TypeInv
  <2> QED BY <1>6, <2>1, ConcatFacts
<1>9. /\ got' \in [Call -> Seq(Unit)]
      /\ \A c \in Call : c # task => got'[c] = got[c]
      /\ pc' # "drain" => got'[task] = got[task] \o buf
      /\ got'[task] = got[task] \o buf \/ got'[task] = got[task]
  BY <1>4, <1>8
<1>10. TypeInv'
  BY <1>1, <1>3, <1>5, <1>6, <1>9, <1>4 DEF TypeInv
<1>11. OnceInv'
  <2>1. \A c \in IsStream : Fresh(c) => Fresh(c)'
    BY <1>4, <1>9 DEF Fresh
  <2>2. status'[task'] = None
    BY <1>1 DEF OnceInv
  <2> QED BY <1>1, <1>3, <1>5, <2>1, <2>2, DroppedOnce
<1>12. MessageInv'
  BY <1>5 DEF MessageInv
<1>13. ReaderInv'
  <2>1. ASSUME pc' # "drain"
        PROVE  IF eof' THEN Whole(task)' \/ closed' ELSE Linked(task', pipe', Len(got'[task']))
    <3>1. Len(got'[task]) = Len(got[task]) + Len(buf) /\ pc # "drain"
      BY <1>8, <1>9, <2>1
    <3>2. Whole(task)' <=> Len(got'[task]) = Len(Content(task))
      BY DEF Whole
    <3> QED BY <1>7, <3>1, <3>2
  <2>2. /\ ~eof' => Placed(task', pipe', chunk_remaining') /\ (pipe' = <<>> => closed')
        /\ eof' => pipe' = <<>> \/ pipe'[1].unit # "body"
    BY <1>6
  <2> QED BY <2>1, <2>2 DEF ReaderInv
<1>14. GotInv'
  <2>1. ASSUME NEW c \in Call
        PROVE  Len(got'[c]) <= Len(Content(c)) /\ \A k \in 1 .. Len(got'[c]) : got'[c][k] = Content(c)[k]
    <3>1. Len(got[c]) <= Len(Content(c)) /\ \A k \in 1 .. Len(got[c]) : got[c][k] = Content(c)[k]
      BY <1>1 DEF GotInv
    <3>2. CASE got'[c] = got[c]
      BY <3>1, <3>2
    <3>3. CASE c = task /\ pc # "drain" /\ got'[task] = got[task] \o buf
      <4> DEFINE g == got[task]
                 t == g \o buf
      <4>1. g \in Seq(Unit) /\ buf \in Seq(Unit)
        BY <1>6, <1>8
      <4>2. Len(t) <= Len(Content(task))
        BY <1>7, <1>8, <3>3
      <4>3. ASSUME NEW k \in 1 .. Len(t)
            PROVE  t[k] = Content(task)[k]
        <5> HIDE DEF g
        <5>1. \/ k <= Len(g) /\ (g \o buf)[k] = g[k]
              \/ k > Len(g) /\ \E j \in 1 .. Len(buf) : (g \o buf)[k] = buf[j] /\ k = Len(g) + j
          BY <4>1, <4>3, ConcatFacts
        <5>2. CASE k <= Len(g) /\ t[k] = g[k]
          <6>1. k \in 1 .. Len(g)
            BY <4>1, <5>2
          <6> QED BY <3>1, <3>3, <5>2, <6>1 DEF g
        <5>3. ASSUME NEW j \in 1 .. Len(buf), t[k] = buf[j], k = Len(g) + j
              PROVE  t[k] = Content(task)[k]
          <6>1. Content(task)[Len(g) + j] = buf[j]
            BY <1>7, <3>3 DEF g
          <6> QED BY <5>3, <6>1
        <5> QED BY <5>1, <5>2, <5>3
      <4> QED BY <3>3, <4>2, <4>3
    <3> QED BY <1>9, <3>2, <3>3
  <2>2. ASSUME NEW c \in IsStream, status'[c] = "ok"
        PROVE  Whole(c)' \/ closed'
    <3>1. c # task
      <4>1. status[task] = None
        BY <1>1 DEF OnceInv
      <4> QED BY <2>2, <4>1, NoneAssumption
    <3> QED BY <1>1, <1>4, <1>9, <2>2, <3>1 DEF GotInv, Whole
  <2> QED BY <2>1, <2>2 DEF GotInv
<1> QED BY <1>3, <1>10, <1>11, <1>12, <1>13, <1>14 DEF IInv

LEMMA FunctionReadsKeeps == IInv /\ FunctionReads => IInv'
<1> SUFFICES ASSUME IInv, FunctionReads PROVE IInv'
  OBVIOUS
<1>1. PICK buf \in Bufs : Read(buf) /\ got' = [got EXCEPT ![task] = @ \o buf]
  BY DEF FunctionReads
<1>2. /\ pc \in Executing /\ pc # "drain" /\ pc' = pc
      /\ UNCHANGED <<unsent, closed, to_read, msg, task, threads, status>>
  BY DEF FunctionReads, Executing
<1> QED BY <1>1, <1>2, ReadKeeps

LEMMA FunctionReturnsKeeps == IInv /\ FunctionReturns => IInv'
<1> SUFFICES ASSUME IInv, FunctionReturns PROVE IInv'
  OBVIOUS
<1>1. /\ pc = "exec" /\ pc' = "check"
      /\ UNCHANGED <<unsent, pipe, closed, fd_open, to_read, msg, task, chunk_remaining, eof,
                     terminate, threads, got, status>>
  BY DEF FunctionReturns, readerVars
<1>2. TypeInv'
  BY <1>1 DEF IInv, TypeInv, Executing
<1>3. PipeInv'
  BY <1>1 DEF IInv, PipeInv
<1>4. OnceInv'
  BY <1>1 DEF IInv, OnceInv, Fresh, Executing
<1>5. MessageInv'
  BY <1>1 DEF MessageInv
<1>6. ReaderInv'
  BY <1>1 DEF IInv, ReaderInv, Whole, Executing
<1>7. GotInv'
  BY <1>1 DEF IInv, GotInv, Whole
<1> QED BY <1>2, <1>3, <1>4, <1>5, <1>6, <1>7 DEF IInv

\* The unit in front of a reader is no body.
LEMMA NotAtBody ==
  ASSUME IInv, pc \in Executing
  PROVE  pipe = <<>> \/ pipe[1].unit # "body"
BY DEF IInv, ReaderInv, Placed

LEMMA FunctionRaisesKeeps == IInv /\ FunctionRaises => IInv'
<1> SUFFICES ASSUME IInv, FunctionRaises PROVE IInv'
  OBVIOUS
<1>1. /\ pc \in Executing /\ Answer("error")
      /\ UNCHANGED <<unsent, closed, to_read, msg, threads, got>>
  BY DEF FunctionRaises, Executing
<1>2. pipe' = pipe /\ chunk_remaining' \in Nat /\ eof' \in BOOLEAN
  BY DEF FunctionRaises, readerVars, IInv, TypeInv
<1>3. 0 \in 0 .. Len(pipe) /\ Dropped(0)
  BY <1>2, NothingDropped DEF IInv
<1>4. pipe' = <<>> \/ pipe'[1].unit # "body"
  BY <1>1, <1>2, NotAtBody
<1> QED BY <1>1, <1>2, <1>3, <1>4, AnswerKeeps

\* What a read says to an answer.
LEMMA ReadThenAnswer ==
  ASSUME IInv, pc \in Executing, NEW buf, Read(buf)
  PROVE  /\ \E n \in 0 .. Len(pipe) : Dropped(n)
         /\ chunk_remaining' \in Nat /\ eof' \in BOOLEAN
         /\ pipe' = <<>> \/ pipe'[1].unit # "body"
         /\ pc # "drain" /\ buf = <<>> => Whole(task) \/ closed
<1>1. TypeInv /\ PipeInv /\ ReaderInv /\ GotInv
  BY DEF IInv
<1>2. /\ \E n \in 0 .. Len(pipe) : pipe' = SubSeq(pipe, n + 1, Len(pipe))
      /\ chunk_remaining' \in Nat /\ eof' \in BOOLEAN
      /\ ~eof' => Placed(task, pipe', chunk_remaining')
      /\ eof' => pipe' = <<>> \/ pipe'[1].unit # "body"
      /\ pc # "drain" /\ buf = <<>> => Whole(task) \/ closed
  BY <1>1, ReadFacts
<1> QED BY <1>2 DEF Dropped, Placed

LEMMA CheckKeeps == IInv /\ Check => IInv'
<1> SUFFICES ASSUME IInv, Check PROVE IInv'
  OBVIOUS
<1>1. PICK buf \in Bufs :
        /\ Read(buf)
        /\ \/ buf = <<>> /\ Answer("ok")
           \/ buf # <<>> /\ pc' = "drain" /\ UNCHANGED <<task, status>>
  BY DEF Check
<1>2. pc \in Executing /\ pc # "drain" /\ UNCHANGED <<unsent, closed, to_read, msg, threads, got>>
  BY DEF Check, Executing
<1>3. CASE buf = <<>> /\ Answer("ok")
  <2>1. /\ \E n \in 0 .. Len(pipe) : Dropped(n)
        /\ chunk_remaining' \in Nat /\ eof' \in BOOLEAN
        /\ pipe' = <<>> \/ pipe'[1].unit # "body"
        /\ Whole(task) \/ closed
    BY <1>1, <1>2, <1>3, ReadThenAnswer
  <2> QED BY <1>2, <1>3, <2>1, AnswerKeeps
<1>4. CASE buf # <<>> /\ pc' = "drain" /\ UNCHANGED <<task, status>>
  BY <1>1, <1>2, <1>4, ReadKeeps
<1> QED BY <1>1, <1>3, <1>4

LEMMA DrainKeeps == IInv /\ Drain => IInv'
<1> SUFFICES ASSUME IInv, Drain PROVE IInv'
  OBVIOUS
<1>1. PICK buf \in Bufs :
        /\ Read(buf)
        /\ \/ buf = <<>> /\ Answer("error")
           \/ buf # <<>> /\ UNCHANGED <<task, status, pc>>
  BY DEF Drain
<1>2. pc \in Executing /\ pc = "drain" /\ UNCHANGED <<unsent, closed, to_read, msg, threads, got>>
  BY DEF Drain, Executing
<1>3. CASE buf = <<>> /\ Answer("error")
  <2>1. /\ \E n \in 0 .. Len(pipe) : Dropped(n)
        /\ chunk_remaining' \in Nat /\ eof' \in BOOLEAN
        /\ pipe' = <<>> \/ pipe'[1].unit # "body"
    BY <1>1, <1>2, ReadThenAnswer
  <2> QED BY <1>2, <1>3, <2>1, AnswerKeeps
<1>4. CASE buf # <<>> /\ UNCHANGED <<task, status, pc>>
  BY <1>1, <1>2, <1>4, ReadKeeps
<1> QED BY <1>1, <1>3, <1>4

\* What a unit is followed by when a message is written behind it.
LEMMA StartFollows ==
  ASSUME NEW c \in Call, NEW u \in Unit, Final(u)
  PROVE  Follows(u, Start(c)) /\ <<u, Start(c)>> \in InPipe
<1>1. Start(c) \in Unit /\ Start(c).unit = "size" /\ Start(c).chunk = 0
  BY UnitFacts DEF Start, Size
<1>2. u.call \in Call /\ u.unit \in {"size", "body", "data"}
  BY DEF Unit, Record
<1>3. Len(Chunks[u.call]) \in Nat /\ End(u.call) = Len(Chunks[u.call]) + 1
  BY <1>2, UnitFacts DEF End
<1>4. CASE u.unit = "size" /\ u.chunk = End(u.call)
  <2>1. u.chunk # 0 /\ u.chunk \notin 1 .. Len(Chunks[u.call])
    BY <1>3, <1>4
  <2> QED BY <1>1, <1>4, <2>1 DEF Follows, InPipe
<1>5. CASE u.unit = "body" /\ u.call \notin IsStream
  BY <1>1, <1>5 DEF Follows, InPipe
<1> QED BY <1>4, <1>5 DEF Final

LEMMA SendKeeps == ASSUME NEW c \in Call PROVE IInv /\ Send(c) => IInv'
<1> SUFFICES ASSUME IInv, Send(c) PROVE IInv'
  OBVIOUS
<1>1. TypeInv /\ PipeInv /\ OnceInv /\ MessageInv /\ ReaderInv /\ GotInv
  BY DEF IInv
<1>2. /\ c \in unsent /\ ~closed /\ unsent' = unsent \ {c} /\ pipe' = pipe \o Message(c)
      /\ UNCHANGED <<closed, fd_open, pc, to_read, msg, task, chunk_remaining, eof,
                     terminate, threads, got, status>>
  BY DEF Send, readerVars
<1> DEFINE m == Message(c)
<1>3. /\ m \in Seq(Unit) /\ Len(m) \in Nat /\ Len(m) >= 2 /\ m[1] = Start(c)
      /\ IsPath(m, InPipe) /\ Final(m[Len(m)])
      /\ \A k \in 1 .. Len(m) : \A d \in Call : m[k] = Body(d) => d = c /\ k = 2
  BY MessageFacts
<1>4. pipe \in Seq(Unit) /\ Len(pipe) \in Nat /\ IsPath(pipe, InPipe) /\ pipe' = pipe \o m
  BY <1>1, <1>2 DEF TypeInv, PipeInv
<1>5. m # <<>>
  BY <1>3
<1> HIDE DEF m
<1>6. /\ pipe' \in Seq(Unit) /\ Len(pipe') = Len(pipe) + Len(m)
      /\ \A k \in 1 .. Len(pipe) : pipe'[k] = pipe[k]
      /\ \A k \in 1 .. Len(m) : pipe'[Len(pipe) + k] = m[k]
      /\ \A k \in 1 .. Len(pipe') :
           \/ k <= Len(pipe) /\ pipe'[k] = pipe[k]
           \/ k > Len(pipe) /\ \E j \in 1 .. Len(m) : pipe'[k] = m[j] /\ k = Len(pipe) + j
  <2>1. m \in Seq(Unit)
    BY <1>3
  <2> QED BY <1>4, <2>1, ConcatFacts
<1>7. Len(pipe') \in Nat /\ pipe' # <<>> /\ Len(m) \in 1 .. Len(m) /\ 1 \in 1 .. Len(m)
  BY <1>3, <1>4, <1>6
<1>8. IF pipe = <<>> THEN pipe'[1] = Start(c) ELSE pipe'[1] = pipe[1]
  <2>1. CASE pipe = <<>>
    <3>1. Len(pipe) = 0 /\ pipe'[Len(pipe) + 1] = m[1]
      BY <1>6, <1>7, <2>1
    <3> QED BY <1>3, <2>1, <3>1
  <2>2. CASE pipe # <<>>
    <3>1. 1 \in 1 .. Len(pipe)
      BY <1>4, <2>2
    <3> QED BY <1>6, <2>2, <3>1
  <2> QED BY <2>1, <2>2
<1>9. PipeInv'
  <2>1. Final(pipe'[Len(pipe')])
    BY <1>3, <1>6, <1>7
  <2>2. IsPath(pipe', InPipe)
    <3>1. CASE pipe = <<>>
      <4>1. <<>> \o m = m
        BY <1>3
      <4> QED BY <1>3, <1>4, <3>1, <4>1
    <3>2. CASE pipe # <<>>
      <4>1. Final(pipe[Len(pipe)]) /\ pipe[Len(pipe)] \in Unit
        BY <1>1, <1>2, <1>4, <3>2 DEF PipeInv
      <4>2. <<pipe[Len(pipe)], m[1]>> \in InPipe
        BY <1>3, <4>1, StartFollows
      <4> QED BY <1>3, <1>4, <1>5, <3>2, <4>2, JoinPaths
    <3> QED BY <3>1, <3>2
  <2> QED BY <2>1, <2>2 DEF PipeInv
<1>10. TypeInv'
  <2>1. unsent' \subseteq Call
    BY <1>1, <1>2 DEF TypeInv
  <2> QED BY <1>1, <1>2, <1>6, <2>1 DEF TypeInv
<1>11. Start(c).unit = "size" /\ Start(c).chunk = 0
  BY DEF Start, Size
<1>12. MessageInv'
  <2>1. pc' = "size" => pipe'[1].unit # "body"
    BY <1>1, <1>2, <1>8, <1>11 DEF MessageInv
  <2>2. ASSUME pc = "body"
        PROVE  \/ to_read = 1 /\ msg = <<>> /\ pipe'[1].unit = "body"
               \/ to_read > 0 /\ msg = <<>> /\ pipe'[1].unit # "body"
               \/ to_read = 0 /\ \E d \in Call : msg = <<Body(d)>> /\ Behind(d, pipe)'
               \/ msg # <<>> /\ msg[1].unit # "body"
    <3>1. CASE to_read = 1 /\ msg = <<>> /\ pipe # <<>> /\ pipe[1].unit = "body"
      BY <1>8, <3>1
    <3>2. CASE to_read > 0 /\ msg = <<>> /\ (pipe = <<>> \/ pipe[1].unit # "body")
      BY <1>8, <1>11, <3>2
    <3>3. ASSUME to_read = 0, NEW d \in Call, msg = <<Body(d)>>, Behind(d, pipe)
          PROVE  Behind(d, pipe)'
      <4>1. CASE pipe # <<>>
        BY <1>2, <1>7, <1>8, <3>3, <4>1 DEF Behind
      <4>2. CASE pipe = <<>>
        <5>1. d \notin IsStream
          BY <1>2, <3>3, <4>2 DEF Behind
        <5>2. Body(d) \in Unit /\ Final(Body(d))
          BY <5>1, UnitFacts DEF Final, Body
        <5>3. Follows(Body(d), Start(c))
          BY <5>2, StartFollows
        <5> QED BY <1>2, <1>7, <1>8, <4>2, <5>3 DEF Behind
      <4> QED BY <4>1, <4>2
    <3> QED BY <1>1, <2>2, <3>1, <3>2, <3>3 DEF MessageInv
  <2> QED BY <1>2, <1>7, <2>1, <2>2 DEF MessageInv
<1>13. ReaderInv'
  <2> SUFFICES ASSUME pc \in Executing PROVE ReaderInv'
    BY <1>2 DEF ReaderInv
  <2>1. ASSUME ~eof PROVE pipe # <<>> /\ pipe'[1] = pipe[1]
    BY <1>1, <1>2, <1>8, <2>1 DEF ReaderInv
  <2>2. ~eof => Placed(task, pipe', chunk_remaining)
    BY <1>1, <2>1 DEF ReaderInv, Placed
  <2>3. eof => pipe'[1].unit # "body"
    BY <1>1, <1>8, <1>11 DEF ReaderInv
  <2>4. pc # "drain" => IF eof THEN Whole(task) \/ closed ELSE Linked(task, pipe', Len(got[task]))
    BY <1>1, <2>1 DEF ReaderInv, Linked
  <2> QED BY <1>2, <1>7, <2>2, <2>3, <2>4 DEF ReaderInv, Whole
<1>14. GotInv'
  BY <1>1, <1>2 DEF GotInv, Whole
<1>15. \A d \in Call : Fresh(d) => Fresh(d)'
  BY <1>2 DEF Fresh
<1>16. IsStream \subseteq Call
  BY StreamAssumption
<1>17. OnceInv'
  <2>1. ASSUME NEW d \in unsent' \cap IsStream PROVE Fresh(d)' /\ msg' # <<Body(d)>>
    BY <1>1, <1>2, <1>15, <1>16 DEF OnceInv
  <2>2. ASSUME NEW k \in 1 .. Len(pipe'), NEW d \in IsStream, pipe'[k] = Body(d)
        PROVE  /\ Fresh(d)' /\ d \notin unsent' /\ msg' # <<Body(d)>>
               /\ \/ k \in 1 .. Len(pipe) /\ pipe[k] = Body(d) /\ d # c
                  \/ k = Len(pipe) + 2 /\ d = c
    <3>1. CASE k <= Len(pipe) /\ pipe'[k] = pipe[k]
      <4>1. k \in 1 .. Len(pipe) /\ pipe[k] = Body(d)
        BY <1>7, <2>2, <3>1
      <4>2. Fresh(d) /\ d \notin unsent /\ msg # <<Body(d)>>
        BY <1>1, <4>1 DEF OnceInv
      <4> QED BY <1>2, <1>15, <1>16, <4>1, <4>2
    <3>2. CASE \E j \in 1 .. Len(m) : pipe'[k] = m[j] /\ k = Len(pipe) + j
      <4>1. d = c /\ k = Len(pipe) + 2
        BY <1>3, <1>16, <2>2, <3>2
      <4>2. Fresh(d) /\ msg # <<Body(d)>>
        BY <1>1, <1>2, <4>1 DEF OnceInv
      <4> QED BY <1>2, <1>15, <1>16, <4>1, <4>2
    <3> QED BY <1>6, <3>1, <3>2
  <2>3. ASSUME NEW k \in 1 .. Len(pipe'), NEW l \in 1 .. Len(pipe'), NEW d \in IsStream,
               pipe'[k] = Body(d), pipe'[l] = Body(d)
        PROVE  k = l
    <3>1. CASE d = c
      BY <2>2, <2>3, <3>1
    <3>2. CASE d # c
      <4>1. k \in 1 .. Len(pipe) /\ pipe[k] = Body(d) /\ l \in 1 .. Len(pipe) /\ pipe[l] = Body(d)
        BY <2>2, <2>3, <3>2
      <4> QED BY <1>1, <4>1 DEF OnceInv
    <3> QED BY <3>1, <3>2
  <2>4. pc' = "body" => \A d \in IsStream : msg' = <<Body(d)>> => Fresh(d)'
    BY <1>1, <1>2, <1>15, <1>16 DEF OnceInv
  <2>5. pc' \in Executing => status'[task'] = None
    BY <1>1, <1>2 DEF OnceInv
  <2> QED BY <2>1, <2>2, <2>3, <2>4, <2>5 DEF OnceInv
<1> QED BY <1>9, <1>10, <1>12, <1>13, <1>14, <1>17 DEF IInv

LEMMA CloseKeeps == IInv /\ Close => IInv'
<1> SUFFICES ASSUME IInv, Close PROVE IInv'
  OBVIOUS
<1>1. TypeInv /\ PipeInv /\ OnceInv /\ MessageInv /\ ReaderInv /\ GotInv
  BY DEF IInv
<1>2. /\ closed' = TRUE
      /\ UNCHANGED <<unsent, fd_open, pc, to_read, msg, task, chunk_remaining, eof,
                     terminate, threads, got, status>>
  BY DEF Close, readerVars
<1>3. PICK n \in 0 .. Len(pipe) : pipe' = SubSeq(pipe, 1, n)
  BY DEF Close
<1>4. pipe \in Seq(Unit) /\ Len(pipe) \in Nat /\ IsPath(pipe, InPipe)
  BY <1>1 DEF TypeInv, PipeInv
<1>5. /\ pipe' \in Seq(Unit) /\ Len(pipe') = n
      /\ \A k \in 1 .. n : pipe'[k] = pipe[k]
      /\ n > 0 => pipe' # <<>> /\ pipe'[1] = pipe[1]
      /\ n = 0 => pipe' = <<>>
      /\ IsPath(pipe', InPipe)
  BY <1>3, <1>4, CutFacts
<1>6. \A k \in 1 .. Len(pipe') : k \in 1 .. Len(pipe) /\ pipe'[k] = pipe[k]
  BY <1>4, <1>5
<1>7. pipe' = <<>> \/ (pipe # <<>> /\ pipe' # <<>> /\ pipe'[1] = pipe[1])
  <2>1. CASE n = 0
    BY <1>5, <2>1
  <2>2. CASE n > 0
    <3>1. pipe # <<>>
      BY <1>4, <2>2
    <3> QED BY <1>5, <2>2, <3>1
  <2> QED BY <1>3, <1>4, <2>1, <2>2
<1>8. TypeInv' /\ PipeInv'
  BY <1>1, <1>2, <1>5 DEF TypeInv, PipeInv
<1>9. OnceInv'
  <2>1. \A d \in IsStream : Fresh(d) <=> Fresh(d)'
    BY <1>2 DEF Fresh
  <2> QED BY <1>1, <1>2, <1>6, <2>1 DEF OnceInv
<1>10. MessageInv'
  <2>1. pc' = "size" => pipe' = <<>> \/ pipe'[1].unit # "body"
    BY <1>1, <1>2, <1>7 DEF MessageInv
  <2>2. ASSUME NEW d \in Call, Behind(d, pipe) PROVE Behind(d, pipe)'
    BY <1>2, <1>7, <2>2 DEF Behind
  <2>3. ASSUME pc = "body"
        PROVE  \/ to_read = 1 /\ msg = <<>> /\ pipe' # <<>> /\ pipe'[1].unit = "body"
               \/ to_read > 0 /\ msg = <<>> /\ (pipe' = <<>> \/ pipe'[1].unit # "body")
               \/ to_read = 0 /\ \E d \in Call : msg = <<Body(d)>> /\ Behind(d, pipe)'
               \/ msg # <<>> /\ msg[1].unit # "body"
    BY <1>1, <1>7, <2>2, <2>3 DEF MessageInv
  <2> QED BY <1>2, <2>1, <2>3 DEF MessageInv
<1>11. ReaderInv'
  <2> SUFFICES ASSUME pc \in Executing PROVE ReaderInv'
    BY <1>2 DEF ReaderInv
  <2>1. ~eof => Placed(task, pipe', chunk_remaining)
    BY <1>1, <1>7 DEF ReaderInv, Placed
  <2>2. eof => pipe' = <<>> \/ pipe'[1].unit # "body"
    BY <1>1, <1>7 DEF ReaderInv
  <2>3. pc # "drain" /\ ~eof => Linked(task, pipe', Len(got[task]))
    BY <1>1, <1>7 DEF ReaderInv, Linked
  <2> QED BY <1>2, <2>1, <2>2, <2>3 DEF ReaderInv
<1>12. GotInv'
  BY <1>1, <1>2 DEF GotInv, Whole
<1> QED BY <1>8, <1>9, <1>10, <1>11, <1>12 DEF IInv

\* A body is only where the size of its message is in front of it.
LEMMA BodyFollowsStart ==
  ASSUME NEW u \in Unit, NEW v \in Unit, Follows(u, v), v.unit = "body"
  PROVE  u.unit = "size" /\ u.n = 1 /\ v = Body(u.call)
<1>1. u.call \in Call /\ u.unit \in {"size", "body", "data"}
  BY DEF Unit, Record
<1>2. Len(Chunks[u.call]) \in Nat /\ End(u.call) = Len(Chunks[u.call]) + 1
  BY <1>1, UnitFacts DEF End
<1>3. ~Final(u)
  BY DEF Follows
<1>4. \A c, i, j : Data(c, i, j).unit = "data" /\ SizeAt(c, i).unit = "size"
  BY DEF Data, SizeAt, Size
<1>5. u.unit # "body"
  BY <1>3, <1>4 DEF Final, Follows
<1>6. u.unit # "data"
  <2> SUFFICES ASSUME u.unit = "data" PROVE FALSE
    OBVIOUS
  <2>1. u.chunk \in 1 .. Len(Chunks[u.call]) /\ u.piece \in 1 .. Chunks[u.call][u.chunk]
    BY DEF Unit
  <2>2. Chunks[u.call][u.chunk] \in Nat
    BY <1>1, <2>1, UnitFacts
  <2>3. u.piece < Chunks[u.call][u.chunk] \/ u.piece = Chunks[u.call][u.chunk]
    BY <2>1, <2>2
  <2> QED BY <1>4, <2>3 DEF Follows
<1>7. u.unit = "size"
  BY <1>1, <1>5, <1>6
<1>8. u = Start(u.call) \/ (u.chunk \in 1 .. End(u.call) /\ u = SizeAt(u.call, u.chunk))
  BY <1>7 DEF Unit
<1>9. CASE u = Start(u.call)
  BY <1>7, <1>9 DEF Start, Size, Follows
<1>10. CASE u.chunk \in 1 .. End(u.call)
  <2>1. u.chunk = End(u.call) \/ u.chunk \in 1 .. Len(Chunks[u.call])
    BY <1>2, <1>10
  <2> QED BY <1>3, <1>4, <1>7, <2>1 DEF Final, Follows
<1> QED BY <1>8, <1>9, <1>10

\* The pipe without its first unit.
LEMMA FirstDropped ==
  ASSUME TypeInv, PipeInv, pipe # <<>>
  PROVE  /\ 1 \in 0 .. Len(pipe) /\ 1 \in 1 .. Len(pipe) /\ pipe[1] \in Unit /\ Head(pipe) = pipe[1]
         /\ pipe' = Tail(pipe) => Dropped(1)
         /\ Dropped(1) /\ pipe' = <<>> /\ ~closed => Final(pipe[1])
         /\ Dropped(1) /\ pipe' # <<>> => pipe'[1] \in Unit /\ Follows(pipe[1], pipe'[1])
<1>1. pipe \in Seq(Unit) /\ IsPath(pipe, InPipe)
  BY DEF TypeInv, PipeInv
<1>2. /\ Len(pipe) \in Nat \ {0} /\ Head(pipe) = pipe[1]
      /\ Tail(pipe) = SubSeq(pipe, 1 + 1, Len(pipe))
  BY <1>1, TailIs
<1>3. 1 \in 0 .. Len(pipe) /\ 1 \in 1 .. Len(pipe)
  BY <1>2
<1>4. pipe[1] \in Unit
  BY <1>1, <1>3
<1> DEFINE q == SubSeq(pipe, 1 + 1, Len(pipe))
<1>5. /\ q \in Seq(Unit) /\ Len(q) = Len(pipe) - 1
      /\ 1 < Len(pipe) => q # <<>> /\ q[1] = pipe[1 + 1]
  BY <1>1, <1>3, DropFacts
<1> HIDE DEF q
<1>6. Dropped(1) => pipe' = q
  BY DEF Dropped, q
<1>7. ASSUME q = <<>>, ~closed PROVE Final(pipe[1])
  <2>1. Len(pipe) = 1
    BY <1>2, <1>5, <1>7
  <2> QED BY <1>7, <2>1 DEF PipeInv
<1>8. ASSUME q # <<>> PROVE q[1] \in Unit /\ Follows(pipe[1], q[1])
  <2>1. Len(q) # 0 /\ Len(q) \in Nat
    BY <1>5, <1>8
  <2>2. 1 \in 1 .. Len(q) /\ 1 < Len(pipe) /\ 1 \in 1 .. Len(pipe) - 1
    BY <1>2, <1>5, <2>1
  <2>3. q[1] \in Unit
    BY <1>5, <2>2
  <2>4. Follows(pipe[1], pipe[1 + 1])
    BY <1>1, <2>2, InPipeFollows
  <2> QED BY <1>5, <2>2, <2>3, <2>4
<1> QED BY <1>2, <1>3, <1>4, <1>6, <1>7, <1>8 DEF Dropped

LEMMA ReadSizeKeeps == IInv /\ ReadSize => IInv'
<1> SUFFICES ASSUME IInv, ReadSize PROVE IInv'
  OBVIOUS
<1>1. TypeInv /\ PipeInv /\ OnceInv /\ MessageInv /\ ReaderInv /\ GotInv
  BY DEF IInv
<1>2. /\ pc = "size"
      /\ UNCHANGED <<unsent, closed, task, chunk_remaining, eof, threads, got, status>>
  BY DEF ReadSize, readerVars
<1>3. /\ \/ \E n \in Sizes \ {0} : pipe' = Tail(pipe) /\ to_read' = n /\ msg' = <<>> /\ pc' = "body"
         \/ 0 \in Sizes /\ pipe' = Tail(pipe) /\ pc' = "dead" /\ to_read' = to_read /\ msg' = msg
         \/ pipe' = pipe /\ pc' = "dead" /\ to_read' = to_read /\ msg' = msg
  BY DEF ReadSize
<1>4. pc' \in {"body", "dead"} /\ pc' \notin Executing /\ pc \notin Executing
  BY <1>2, <1>3 DEF Executing
<1>5. ASSUME NEW n \in Sizes
      PROVE  pipe # <<>> /\ n \in Nat /\ (pipe[1].unit = "size" => n = pipe[1].n)
  <2>1. pipe # <<>>
    BY <1>5 DEF Sizes
  <2>2. Head(pipe) = pipe[1] /\ pipe[1] \in Unit
    BY <1>1, <2>1, FirstDropped
  <2>3. CASE pipe[1].unit = "size"
    <3>1. n = pipe[1].n
      BY <1>5, <2>1, <2>2, <2>3 DEF Sizes
    <3>2. pipe[1] \in [unit : {"size"}, call : Call, chunk : Nat, n : Nat]
      BY <2>2, <2>3 DEF Unit, Record
    <3> QED BY <2>1, <3>1, <3>2
  <2>4. CASE pipe[1].unit # "size"
    <3>1. n \in Garbage
      BY <1>5, <2>1, <2>2, <2>4 DEF Sizes
    <3> QED BY <2>1, <2>4, <3>1, GarbageAssumption
  <2> QED BY <2>3, <2>4
<1>6. PICK n \in 0 .. Len(pipe) : Dropped(n)
  <2>1. CASE pipe' = pipe
    BY <1>1, <2>1, NothingDropped
  <2>2. CASE pipe # <<>> /\ pipe' = Tail(pipe)
    BY <1>1, <2>2, FirstDropped
  <2> QED BY <1>3, <1>5, <2>1, <2>2
<1>7. /\ pipe' \in Seq(Unit) /\ PipeInv'
      /\ \A k \in 1 .. Len(pipe') : pipe'[k] = pipe[n + k] /\ n + k \in 1 .. Len(pipe)
  BY <1>1, <1>2, <1>6, DroppedPipe
<1>8. to_read' \in Nat /\ msg' \in Seq(Unit) /\ (msg' = <<>> \/ (msg' = msg /\ pc' = "dead"))
  <2>1. to_read \in Nat /\ msg \in Seq(Unit) /\ <<>> \in Seq(Unit)
    BY <1>1 DEF TypeInv
  <2>2. CASE \E s \in Sizes \ {0} : to_read' = s /\ msg' = <<>>
    BY <1>5, <2>1, <2>2
  <2>3. CASE pc' = "dead" /\ to_read' = to_read /\ msg' = msg
    BY <2>1, <2>3
  <2> QED BY <1>3, <2>2, <2>3
<1>9. TypeInv'
  BY <1>1, <1>2, <1>4, <1>7, <1>8 DEF TypeInv
<1>10. OnceInv'
  <2>1. \A c \in IsStream : Fresh(c) => Fresh(c)'
    BY <1>2 DEF Fresh
  <2>2. \A c \in IsStream : msg' = <<Body(c)>> => msg = <<Body(c)>> /\ pc' # "body"
    BY <1>8
  <2> QED BY <1>1, <1>2, <1>4, <1>7, <2>1, <2>2, DroppedOnce
<1>11. MessageInv'
  <2>1. ASSUME NEW s \in Sizes \ {0}, pipe' = Tail(pipe), to_read' = s, msg' = <<>>
        PROVE  \/ to_read' = 1 /\ msg' = <<>> /\ pipe' # <<>> /\ pipe'[1].unit = "body"
               \/ to_read' > 0 /\ msg' = <<>> /\ (pipe' = <<>> \/ pipe'[1].unit # "body")
    <3>1. s \in Nat /\ s > 0 /\ pipe # <<>> /\ (pipe[1].unit = "size" => s = pipe[1].n)
      BY <1>5
    <3>2. ASSUME pipe' # <<>>, pipe'[1].unit = "body" PROVE s = 1
      <4>1. pipe[1] \in Unit /\ pipe'[1] \in Unit /\ Follows(pipe[1], pipe'[1])
        BY <1>1, <2>1, <3>1, <3>2, FirstDropped
      <4>2. pipe[1].unit = "size" /\ pipe[1].n = 1
        BY <3>2, <4>1, BodyFollowsStart
      <4> QED BY <3>1, <4>2
    <3> QED BY <2>1, <3>1, <3>2
  <2>2. pc' # "size"
    BY <1>4
  <2>3. pc' = "body" =>
          \/ to_read' = 1 /\ msg' = <<>> /\ pipe' # <<>> /\ pipe'[1].unit = "body"
          \/ to_read' > 0 /\ msg' = <<>> /\ (pipe' = <<>> \/ pipe'[1].unit # "body")
    BY <1>3, <2>1
  <2> QED BY <2>2, <2>3 DEF MessageInv
<1>12. ReaderInv' /\ GotInv'
  BY <1>1, <1>2, <1>4 DEF ReaderInv, GotInv, Whole
<1> QED BY <1>7, <1>9, <1>10, <1>11, <1>12 DEF IInv

LEMMA ReadBodyKeeps == IInv /\ ReadBody => IInv'
<1> SUFFICES ASSUME IInv, ReadBody PROVE IInv'
  OBVIOUS
<1>1. TypeInv /\ PipeInv /\ OnceInv /\ MessageInv /\ ReaderInv /\ GotInv
  BY DEF IInv
<1>2. /\ pc = "body" /\ to_read > 0
      /\ UNCHANGED <<unsent, closed, task, chunk_remaining, eof, threads, got, status>>
  BY DEF ReadBody, readerVars
<1>3. PICK chunk \in OsRead(pipe, to_read) :
        /\ pipe' = SubSeq(pipe, Len(chunk) + 1, Len(pipe))
        /\ to_read' = to_read - Len(chunk)
        /\ msg' = msg \o chunk
        /\ pc' = IF chunk = <<>> THEN "dead" ELSE pc
  BY DEF ReadBody
<1>4. /\ pipe \in Seq(Unit) /\ Len(pipe) \in Nat /\ to_read \in Nat /\ msg \in Seq(Unit)
      /\ IsPath(pipe, InPipe)
  BY <1>1 DEF TypeInv, PipeInv
<1>5. /\ chunk \in Seq(Unit) /\ Len(chunk) \in 0 .. Len(pipe) /\ Len(chunk) <= to_read
      /\ chunk # <<>> => Len(chunk) >= 1 /\ pipe # <<>> /\ chunk[1] = pipe[1]
      /\ chunk = <<>> => Len(chunk) = 0
  <2>1. CASE pipe # <<>>
    <3>1. PICK k \in 1 .. Len(pipe) : k <= to_read /\ chunk = SubSeq(pipe, 1, k)
      BY <1>3, <2>1 DEF OsRead
    <3>2. k \in 0 .. Len(pipe) /\ k > 0
      BY <1>4
    <3>3. chunk \in Seq(Unit) /\ Len(chunk) = k /\ chunk # <<>> /\ chunk[1] = pipe[1]
      BY <1>4, <3>1, <3>2, CutFacts
    <3> QED BY <2>1, <3>1, <3>2, <3>3
  <2>2. CASE pipe = <<>>
    <3>1. chunk = <<>>
      BY <1>3, <2>2 DEF OsRead
    <3> QED BY <1>4, <3>1
  <2> QED BY <2>1, <2>2
<1> DEFINE n == Len(chunk)
<1>6. n \in 0 .. Len(pipe) /\ Dropped(n) /\ to_read' = to_read - n /\ to_read' \in Nat
  BY <1>3, <1>4, <1>5 DEF Dropped
<1>7. /\ pipe' \in Seq(Unit) /\ PipeInv'
      /\ \A k \in 1 .. Len(pipe') : pipe'[k] = pipe[n + k] /\ n + k \in 1 .. Len(pipe)
  <2> HIDE DEF n
  <2> QED BY <1>1, <1>2, <1>6, DroppedPipe
<1>8. /\ msg' \in Seq(Unit)
      /\ chunk = <<>> => msg' = msg /\ pc' = "dead"
      /\ chunk # <<>> => pc' = "body"
      /\ msg = <<>> => msg' = chunk
      /\ msg # <<>> /\ chunk # <<>> => msg' # <<>> /\ msg'[1] = msg[1]
  <2>1. msg' \in Seq(Unit)
    BY <1>3, <1>4, <1>5, ConcatFacts
  <2>2. chunk = <<>> => msg' = msg /\ pc' = "dead"
    BY <1>3, <1>4
  <2>3. chunk # <<>> => pc' = "body"
    BY <1>2, <1>3
  <2>4. msg = <<>> => msg' = chunk
    BY <1>3, <1>5
  <2>5. ASSUME msg # <<>> PROVE msg' # <<>> /\ msg'[1] = msg[1]
    <3>1. Len(msg) \in Nat /\ Len(msg) # 0 /\ Len(msg') = Len(msg) + Len(chunk) /\ Len(chunk) \in Nat
      BY <1>3, <1>4, <1>5, <2>5
    <3>2. 1 \in 1 .. Len(msg) /\ Len(msg') # 0
      BY <3>1
    <3>3. (msg \o chunk)[1] = msg[1]
      BY <1>4, <1>5, <3>2, ConcatFacts
    <3> QED BY <1>3, <3>2, <3>3
  <2> QED BY <2>1, <2>2, <2>3, <2>4, <2>5
<1>9. pc' \in {"body", "dead"} /\ pc' \notin Executing /\ pc \notin Executing
  BY <1>2, <1>8 DEF Executing
<1>10. TypeInv'
  BY <1>1, <1>2, <1>6, <1>7, <1>8, <1>9 DEF TypeInv
<1>11. \A c \in IsStream : Fresh(c) <=> Fresh(c)'
  BY <1>2 DEF Fresh
\* What the first unit of the message is.
<1>12. chunk = <<>> \/ (msg' # <<>> /\ msg'[1].unit # "body")
       \/ (/\ to_read' = 0 /\ n = 1 /\ pipe # <<>> /\ pipe[1].unit = "body" /\ msg' = <<pipe[1]>>)
  <2>1. CASE to_read = 1 /\ msg = <<>> /\ pipe # <<>> /\ pipe[1].unit = "body"
    <3> SUFFICES ASSUME chunk # <<>>
                 PROVE to_read' = 0 /\ n = 1 /\ msg' = <<pipe[1]>>
      BY <2>1
    <3>1. n = 1 /\ to_read' = 0
      <4>1. n \in 0 .. Len(pipe) /\ n <= 1 /\ n >= 1 /\ Len(pipe) \in Nat
        BY <1>4, <1>5, <2>1
      <4>2. to_read' = 1 - n
        BY <1>6, <2>1
      <4> HIDE DEF n
      <4>3. n = 1
        BY <4>1
      <4> QED BY <4>2, <4>3
    <3>2. chunk = <<chunk[1]>>
      <4>1. chunk \in Seq(Unit) /\ Len(chunk) = 1
        BY <1>5, <3>1
      <4>2. \A e : e \in Seq(Unit) /\ Len(e) = 1 => e = <<e[1]>>
        OBVIOUS
      <4> QED BY <4>1, <4>2
    <3> QED BY <1>5, <1>8, <2>1, <3>1, <3>2
  <2>2. CASE msg = <<>> /\ (pipe = <<>> \/ pipe[1].unit # "body")
    BY <1>5, <1>8, <2>2
  <2>3. CASE msg # <<>> /\ msg[1].unit # "body"
    BY <1>8, <2>3
  <2>4. to_read # 0
    BY <1>2, <1>4
  <2> QED BY <1>1, <1>2, <2>1, <2>2, <2>3, <2>4 DEF MessageInv
<1>13. \A c \in Call : Body(c).unit = "body" /\ Body(c).call = c
  BY DEF Body
<1>14. IsStream \subseteq Call
  BY StreamAssumption
<1>15. ASSUME NEW c \in Call, msg' = <<Body(c)>>
       PROVE  \/ msg = <<Body(c)>> /\ chunk = <<>>
              \/ to_read' = 0 /\ n = 1 /\ pipe # <<>> /\ pipe[1] = Body(c)
  <2>1. msg'[1] = Body(c)
    BY <1>15
  <2>2. CASE chunk = <<>>
    BY <1>8, <1>15, <2>2
  <2>3. CASE msg'[1].unit # "body"
    BY <1>13, <2>1, <2>3
  <2>4. CASE to_read' = 0 /\ n = 1 /\ pipe # <<>> /\ msg' = <<pipe[1]>>
    <3>1. msg'[1] = pipe[1]
      BY <2>4
    <3> QED BY <2>1, <2>4, <3>1
  <2> QED BY <1>12, <2>2, <2>3, <2>4
<1>16. OnceInv'
  <2>1. \A c \in IsStream : msg' = <<Body(c)>> => msg = <<Body(c)>> \/ (n >= 1 /\ pipe # <<>> /\ pipe[1] = Body(c))
    <3> HIDE DEF n
    <3> QED BY <1>14, <1>15
  <2>2. ASSUME pc' = "body", NEW c \in IsStream, msg' = <<Body(c)>> PROVE Fresh(c)
    <3>1. chunk # <<>>
      BY <1>8, <2>2
    <3>2. pipe # <<>> /\ pipe[1] = Body(c) /\ 1 \in 1 .. Len(pipe)
      BY <1>1, <1>14, <1>15, <2>2, <3>1, FirstDropped
    <3> QED BY <1>1, <3>2 DEF OnceInv
  <2> HIDE DEF n
  <2> QED BY <1>1, <1>2, <1>6, <1>7, <1>9, <1>11, <2>1, <2>2, DroppedOnce
<1>17. MessageInv'
  <2>1. pc' # "size"
    BY <1>9
  <2>2. ASSUME pc' = "body"
        PROVE  \/ to_read' = 0 /\ \E c \in Call : msg' = <<Body(c)>> /\ Behind(c, pipe)'
               \/ msg' # <<>> /\ msg'[1].unit # "body"
    <3>1. chunk # <<>>
      BY <1>8, <2>2
    <3>2. CASE msg' # <<>> /\ msg'[1].unit # "body"
      BY <3>2
    <3>3. CASE to_read' = 0 /\ n = 1 /\ pipe # <<>> /\ pipe[1].unit = "body" /\ msg' = <<pipe[1]>>
      <4> DEFINE c == pipe[1].call
      <4>1. pipe[1] \in Unit /\ Dropped(1)
        BY <1>1, <1>6, <3>3, FirstDropped
      <4>2. c \in Call /\ pipe[1] = Body(c)
        BY <3>3, <4>1 DEF Unit, Record, Body
      <4> HIDE DEF c
      <4>3. CASE pipe' = <<>>
        <5>1. ~closed => Final(Body(c))
          BY <1>1, <3>3, <4>1, <4>2, <4>3, FirstDropped
        <5>2. c \in IsStream => closed'
          BY <1>2, <1>13, <4>2, <5>1 DEF Final
        <5> QED BY <3>3, <4>2, <4>3, <5>2 DEF Behind
      <4>4. CASE pipe' # <<>>
        <5>1. Follows(Body(c), pipe'[1])
          BY <1>1, <3>3, <4>1, <4>2, <4>4, FirstDropped
        <5> QED BY <3>3, <4>2, <4>4, <5>1 DEF Behind
      <4> QED BY <4>3, <4>4
    <3> QED BY <1>12, <3>1, <3>2, <3>3
  <2> QED BY <2>1, <2>2 DEF MessageInv
<1>18. ReaderInv' /\ GotInv'
  BY <1>1, <1>2, <1>9 DEF ReaderInv, GotInv, Whole
<1> QED BY <1>7, <1>10, <1>16, <1>17, <1>18 DEF IInv

LEMMA ThreadEndsKeeps == ASSUME NEW c \in Call PROVE IInv /\ ThreadEnds(c) => IInv'
<1> SUFFICES ASSUME IInv, ThreadEnds(c) PROVE IInv'
  OBVIOUS
<1>1. TypeInv /\ PipeInv /\ OnceInv /\ MessageInv /\ ReaderInv /\ GotInv
  BY DEF IInv
<1>2. /\ c \in threads /\ threads' = threads \ {c}
      /\ UNCHANGED <<unsent, pipe, closed, fd_open, pc, to_read, msg, task, chunk_remaining, eof,
                     terminate, got>>
  BY DEF ThreadEnds, readerVars
<1>3. PICK s \in {"ok", "error"} : status' = [status EXCEPT ![c] = s]
  BY DEF ThreadEnds
<1>4. c \notin IsStream /\ IsStream \subseteq Call
  BY <1>1, <1>2, StreamAssumption DEF TypeInv
<1>5. status' \in [Call -> {None, "ok", "error"}] /\ \A d \in IsStream : status'[d] = status[d]
  BY <1>1, <1>3, <1>4 DEF TypeInv
<1>6. TypeInv'
  BY <1>1, <1>2, <1>5 DEF TypeInv
<1>7. PipeInv' /\ ReaderInv'
  BY <1>1, <1>2 DEF PipeInv, ReaderInv, Whole
<1>8. OnceInv'
  <2>1. \A d \in IsStream : Fresh(d) <=> Fresh(d)'
    BY <1>2, <1>5 DEF Fresh
  <2>2. pc \in Executing => status'[task] = None
    BY <1>1, <1>5 DEF OnceInv, TypeInv
  <2> QED BY <1>1, <1>2, <2>1, <2>2 DEF OnceInv
<1>9. MessageInv'
  <2>1. \A d \in Call : Behind(d, pipe) <=> Behind(d, pipe)'
    BY <1>2 DEF Behind
  <2> QED BY <1>1, <1>2, <2>1 DEF MessageInv
<1>10. GotInv'
  BY <1>1, <1>2, <1>5 DEF GotInv, Whole
<1> QED BY <1>6, <1>7, <1>8, <1>9, <1>10 DEF IInv

LEMMA DispatchKeeps == IInv /\ Dispatch => IInv'
<1> SUFFICES ASSUME IInv, Dispatch PROVE IInv'
  OBVIOUS
<1>1. TypeInv /\ PipeInv /\ OnceInv /\ MessageInv /\ ReaderInv /\ GotInv
  BY DEF IInv
<1>2. /\ pc = "body" /\ to_read = 0
      /\ UNCHANGED <<unsent, pipe, closed, fd_open, to_read, msg, terminate, got, status>>
  BY DEF Dispatch
<1>3. pc \notin Executing /\ task = None
  BY <1>1, <1>2 DEF Executing, TypeInv
<1>4. IsStream \subseteq Call /\ None \notin Call
  BY StreamAssumption, NoneAssumption
<1>5. PipeInv' /\ GotInv'
  BY <1>1, <1>2 DEF PipeInv, GotInv, Whole
<1>6. \A c \in Call : Body(c).unit = "body" /\ Body(c).call = c
  BY DEF Body
<1>7. ASSUME NEW c \in Call, msg = <<Body(c)>> PROVE Behind(c, pipe)
  <2>1. msg # <<>> /\ msg[1] = Body(c)
    BY <1>7
  <2>2. PICK d \in Call : msg = <<Body(d)>> /\ Behind(d, pipe)
    BY <1>1, <1>2, <1>6, <2>1 DEF MessageInv
  <2>3. Body(d) = Body(c)
    BY <1>7, <2>2
  <2>4. d = c
    BY <1>6, <2>3
  <2> QED BY <2>2, <2>4
\* A call for a thread, or no call at all.
<1>8. ASSUME pc' = "size" \/ pc' = "dead", task' = task, UNCHANGED <<chunk_remaining, eof>>,
             threads' \subseteq Call \ IsStream,
             pc' = "size" => pipe = <<>> \/ pipe[1].unit # "body"
      PROVE  IInv'
  <2>1. pc' \notin Executing /\ pc' # "body"
    BY <1>8 DEF Executing
  <2>2. TypeInv'
    BY <1>1, <1>2, <1>3, <1>8, <2>1 DEF TypeInv
  <2>3. \A c \in IsStream : Fresh(c) <=> Fresh(c)'
    BY <1>2, <1>8 DEF Fresh
  <2>4. OnceInv'
    BY <1>1, <1>2, <2>1, <2>3 DEF OnceInv
  <2>5. MessageInv' /\ ReaderInv'
    BY <1>2, <1>8, <2>1 DEF MessageInv, ReaderInv
  <2> QED BY <1>5, <2>2, <2>4, <2>5 DEF IInv
<1>9. ASSUME NEW c \in Call \ IsStream, msg = <<Body(c)>>, threads' = threads \cup {c},
             pc' = "size", UNCHANGED <<task, chunk_remaining, eof>>
      PROVE  IInv'
  <2>1. pipe = <<>> \/ pipe[1].unit # "body"
    <3> SUFFICES ASSUME pipe # <<>> PROVE pipe[1].unit = "size"
      OBVIOUS
    <3>1. Follows(Body(c), pipe[1]) /\ Final(Body(c))
      BY <1>6, <1>7, <1>9 DEF Behind, Final
    <3> QED BY <3>1 DEF Follows
  <2>2. threads' \subseteq Call \ IsStream
    BY <1>1, <1>9 DEF TypeInv
  <2> QED BY <1>8, <1>9, <2>1, <2>2
<1>10. ASSUME pc' = "dead", UNCHANGED <<task, threads, chunk_remaining, eof>>
       PROVE  IInv'
  <2>1. threads' \subseteq Call \ IsStream
    BY <1>1, <1>10 DEF TypeInv
  <2> QED BY <1>8, <1>10, <2>1
\* A stream call: the function is in front of its stream.
<1>11. ASSUME NEW c \in IsStream, msg = <<Body(c)>>, task' = c, chunk_remaining' = 0, eof' = FALSE,
              pc' = "exec", threads' = threads
       PROVE  IInv'
  <2>1. pc' \in Executing /\ pc' # "body" /\ pc' # "size" /\ c \in Call
    BY <1>4, <1>11 DEF Executing
  <2>2. TypeInv'
    BY <1>1, <1>2, <1>11, <2>1 DEF TypeInv
  <2>3. got[c] = <<>> /\ status[c] = None
    BY <1>1, <1>2, <1>11 DEF OnceInv, Fresh
  <2>4. \A d \in IsStream : Fresh(d) /\ msg # <<Body(d)>> => Fresh(d)'
    BY <1>2, <1>11 DEF Fresh
  <2>5. OnceInv'
    BY <1>1, <1>2, <1>11, <2>1, <2>3, <2>4 DEF OnceInv
  <2>6. MessageInv'
    BY <2>1 DEF MessageInv
  <2>7. Behind(c, pipe)
    BY <1>7, <1>11, <2>1
  <2>8. pipe = <<>> => closed
    BY <1>11, <2>7 DEF Behind
  <2>9. pipe # <<>> => pipe[1] = SizeAt(c, 1)
    BY <1>6, <1>11, <2>1, <2>7 DEF Behind, Follows
  <2>10. Len(Chunks[c]) \in Nat /\ End(c) = Len(Chunks[c]) + 1
    BY <2>1, UnitFacts DEF End
  <2>11. SizeAt(c, 1).unit = "size" /\ SizeAt(c, 1).chunk = 1 /\ SizeAt(c, 1).call = c
    BY DEF SizeAt, Size
  <2>12. Placed(c, pipe, 0)
    <3>1. 1 \in 1 .. End(c)
      BY <2>10
    <3> QED BY <2>9, <2>11, <3>1 DEF Placed
  <2>13. Linked(c, pipe, 0)
    <3>1. Content(c) \in Seq(Unit) /\ Len(Content(c)) \in Nat
      <4>1. Content(c) \in Seq(Unit)
        BY <2>1, ContentFacts
      <4> QED BY <4>1
    <3>2. CASE Len(Chunks[c]) = 0
      <4>1. Content(c) = <<>>
        BY <2>1, <3>2, ContentFacts
      <4>2. Len(Content(c)) = 0 /\ End(c) = 1
        BY <2>10, <3>2, <4>1
      <4> QED BY <2>9, <2>11, <4>2 DEF Linked
    <3>3. CASE Len(Chunks[c]) > 0
      <4>1. Content(c) # <<>> /\ Content(c)[1] = Data(c, 1, 1)
        BY <2>1, <3>3, ContentFacts
      <4>2. 0 < Len(Content(c)) /\ 1 # End(c)
        BY <2>10, <3>1, <3>3, <4>1
      <4> QED BY <2>9, <2>11, <4>1, <4>2 DEF Linked
    <3> QED BY <2>10, <3>2, <3>3
  <2>14. Len(got[c]) = 0
    BY <2>3
  <2>15. ReaderInv'
    BY <1>2, <1>11, <2>8, <2>12, <2>13, <2>14 DEF ReaderInv
  <2> QED BY <1>5, <2>2, <2>5, <2>6, <2>15 DEF IInv
<1>12. \/ \E c \in Call \ IsStream :
             /\ msg = <<Body(c)>> /\ threads' = threads \cup {c}
             /\ pc' = "size" /\ UNCHANGED <<task, chunk_remaining, eof>>
       \/ \E c \in IsStream :
             /\ msg = <<Body(c)>> /\ task' = c /\ chunk_remaining' = 0 /\ eof' = FALSE
             /\ pc' = "exec" /\ threads' = threads
       \/ pc' = "dead" /\ UNCHANGED <<task, threads, chunk_remaining, eof>>
  BY DEF Dispatch, readerVars
<1> QED BY <1>9, <1>10, <1>11, <1>12

LEMMA StutterKeeps == IInv /\ UNCHANGED vars => IInv'
<1> SUFFICES ASSUME IInv, UNCHANGED vars PROVE IInv'
  OBVIOUS
<1>1. TypeInv' /\ PipeInv'
  BY DEF vars, readerVars, IInv, TypeInv, PipeInv
<1>2. OnceInv' /\ GotInv'
  BY DEF vars, readerVars, IInv, OnceInv, Fresh, GotInv, Whole
<1>3. MessageInv'
  BY DEF vars, readerVars, IInv, MessageInv, Behind
<1>4. ReaderInv'
  BY DEF vars, readerVars, IInv, ReaderInv, Whole
<1> QED BY <1>1, <1>2, <1>3, <1>4 DEF IInv

-----------------------------------------------------------------------------
(* The theorems.                                                           *)

(***************************************************************************)
(* Every unit of the pipe is followed by what a sender writes behind it,   *)
(* the input thread is in front of a size or has lost its place for good,  *)
(* and a reader is where it thinks it is.  For all calls and streams and   *)
(* all ways to cut what is read, whether functions raise early or not.     *)
(***************************************************************************)
THEOREM Inductive == Spec => []IInv
<1>1. Init => IInv
  BY InitKeeps
<1>2. IInv /\ [Next]_vars => IInv'
  <2> SUFFICES ASSUME IInv, [Next]_vars PROVE IInv'
    OBVIOUS
  <2>1. ASSUME NEW c \in Call, Send(c) PROVE IInv'
    BY <2>1, SendKeeps
  <2>2. ASSUME NEW c \in Call, ThreadEnds(c) PROVE IInv'
    BY <2>2, ThreadEndsKeeps
  <2>3. CASE Close
    BY <2>3, CloseKeeps
  <2>4. CASE ReadSize
    BY <2>4, ReadSizeKeeps
  <2>5. CASE ReadBody
    BY <2>5, ReadBodyKeeps
  <2>6. CASE Dispatch
    BY <2>6, DispatchKeeps
  <2>7. CASE FunctionReads
    BY <2>7, FunctionReadsKeeps
  <2>8. CASE FunctionReturns
    BY <2>8, FunctionReturnsKeeps
  <2>9. CASE FunctionRaises
    BY <2>9, FunctionRaisesKeeps
  <2>10. CASE Check
    BY <2>10, CheckKeeps
  <2>11. CASE Drain
    BY <2>11, DrainKeeps
  <2>12. CASE UNCHANGED vars
    BY <2>12, StutterKeeps
  <2> QED BY <2>1, <2>2, <2>3, <2>4, <2>5, <2>6, <2>7, <2>8, <2>9, <2>10, <2>11, <2>12
             DEF Next, Input, Gone
<1> QED BY <1>1, <1>2, PTL DEF Spec

\* What was read of a stream is a prefix of it.
LEMMA GotIsPrefix ==
  ASSUME TypeInv, GotInv, NEW c \in Call
  PROVE  IsPrefix(got[c], Content(c)) /\ (Whole(c) => got[c] = Content(c))
<1> DEFINE g == got[c]
           t == Content(c)
<1>1. g \in Seq(Unit) /\ t \in Seq(Unit)
  BY ContentFacts DEF TypeInv
<1>2. Len(g) <= Len(t) /\ \A k \in 1 .. Len(g) : g[k] = t[k]
  BY DEF GotInv
<1>3. Whole(c) => Len(g) = Len(t)
  BY DEF Whole
<1> HIDE DEF g, t
<1>4. Len(g) \in 0 .. Len(t)
  BY <1>1, <1>2
<1>5. SubSeq(t, 1, Len(g)) = g
  <2>1. /\ SubSeq(t, 1, Len(g)) \in Seq(Unit) /\ Len(SubSeq(t, 1, Len(g))) = Len(g)
        /\ \A k \in 1 .. Len(g) : SubSeq(t, 1, Len(g))[k] = t[k]
    BY <1>1, <1>4, CutFacts
  <2> QED BY <1>1, <1>2, <2>1
<1>6. SubSeq(g, 1, Len(g)) = g
  BY <1>1
<1>7. IsPrefix(g, t)
  BY <1>2, <1>5, <1>6 DEF IsPrefix
<1>8. Len(g) = Len(t) => g = t
  BY <1>1, <1>2
<1> QED BY <1>3, <1>7, <1>8 DEF g, t

(***************************************************************************)
(* What the function of a call has read is the beginning of its own        *)
(* stream: stream_reader never gives it data of another call, a piece      *)
(* twice or with a gap, also behind calls that failed.                     *)
(***************************************************************************)
THEOREM OwnStream == Spec => []OwnData
<1>1. IInv => OwnData
  BY GotIsPrefix DEF IInv, OwnData
<1> QED BY <1>1, Inductive, PTL

(***************************************************************************)
(* A stream call that task_exec reports as "ok" has read its whole stream, *)
(* or the connection has ended.                                            *)
(***************************************************************************)
THEOREM WholeStream == Spec => []WholeOrError
<1>1. IInv => WholeOrError
  <2> SUFFICES ASSUME IInv, NEW c \in IsStream, status[c] = "ok"
               PROVE  got[c] = Content(c) \/ closed
    BY DEF WholeOrError
  <2>1. TypeInv /\ GotInv /\ c \in Call
    BY StreamAssumption DEF IInv
  <2>2. Whole(c) \/ closed
    BY <2>1 DEF GotInv
  <2> QED BY <2>1, <2>2, GotIsPrefix
<1> QED BY <1>1, Inductive, PTL

-----------------------------------------------------------------------------
(* The place of the input thread.                                          *)

\* The next unit of p, if there is one, is the size of a message.
AtStart(p) == p # <<>> => p[1].unit = "size" /\ p[1].chunk = 0

\* Where the input thread is as long as nothing has taken its place away.
PlaceInv ==
  raised_early = {} /\ ~closed =>
    /\ pc # "dead"
    /\ pc = "size" => AtStart(pipe)
    /\ pc = "body" =>
         \/ to_read = 1 /\ msg = <<>> /\ pipe # <<>> /\ pipe[1].unit = "body"
         \/ to_read = 0 /\ \E c \in Call : msg = <<Body(c)>>
    /\ pc \in Executing /\ eof => AtStart(pipe)

\* Behind the last unit of a message comes the start of the next.
LEMMA BehindFinal ==
  ASSUME TypeInv, PipeInv, pipe # <<>>, Final(pipe[1]), pipe' = Tail(pipe)
  PROVE  AtStart(pipe')
<1>1. pipe' # <<>> => Follows(pipe[1], pipe'[1])
  BY FirstDropped
<1> QED BY <1>1 DEF AtStart, Follows

\* On an open connection os.read returns something.
LEMMA SomethingRead ==
  ASSUME NEW s, NEW n, NEW buf \in OsRead(s, n), s \in Seq(Unit), ~closed
  PROVE  buf # <<>>
<1>1. s # <<>>
  BY DEF OsRead
<1>2. PICK k \in 1 .. Len(s) : buf = SubSeq(s, 1, k)
  BY <1>1 DEF OsRead
<1>3. k \in 0 .. Len(s) /\ k > 0
  OBVIOUS
<1> QED BY <1>2, <1>3, CutFacts

\* A function, or task_exec behind it, comes to the end of its stream only in
\* front of the next message.
LEMMA ReadPlace ==
  ASSUME IInv, pc \in Executing, ~closed, eof => AtStart(pipe), NEW buf, Read(buf)
  PROVE  /\ eof' => AtStart(pipe')
         /\ buf = <<>> => eof'
<1>1. TypeInv /\ PipeInv /\ ReaderInv /\ pipe \in Seq(Unit)
  BY DEF IInv, TypeInv
<1>2. task \in Call
  BY <1>1, StreamAssumption DEF TypeInv
<1>3. CASE ReadRest(buf)
  <2>1. eof' = FALSE /\ buf \in OsRead(pipe, chunk_remaining)
    BY <1>1, <1>3 DEF ReadRest, TypeInv
  <2> QED BY <1>1, <2>1, SomethingRead
<1>4. CASE ReadChunk(buf)
  <2>1. PICK next_size \in Sizes \ {0} : buf \in OsRead(Tail(pipe), next_size)
    BY <1>4 DEF ReadChunk
  <2>2. eof' = FALSE
    BY <1>1, <1>4 DEF ReadChunk, TypeInv
  <2>3. pipe # <<>>
    BY <2>1 DEF Sizes
  <2>4. Tail(pipe) \in Seq(Unit)
    BY <1>1, <2>3
  <2> QED BY <2>1, <2>2, <2>4, SomethingRead
<1>5. CASE ReadEnd(buf)
  <2>1. ~eof /\ chunk_remaining = 0 /\ eof' = TRUE /\ 0 \in Sizes /\ pipe' = Tail(pipe)
    BY <1>5 DEF ReadEnd, AtEnd
  <2>2. pipe # <<>> /\ Placed(task, pipe, 0)
    BY <1>1, <2>1 DEF Sizes, ReaderInv
  <2>3. pipe[1].unit = "size" /\ pipe[1].call = task /\ Head(pipe) = pipe[1]
    BY <1>1, <1>2, <2>2, HeadIsSize
  <2>4. pipe[1].n = 0
    BY <2>1, <2>2, <2>3 DEF Sizes
  <2>5. pipe[1].chunk = End(task)
    BY <1>1, <1>2, <2>2, <2>4, HeadIsSize
  <2>6. Final(pipe[1])
    BY <2>3, <2>5 DEF Final
  <2> QED BY <1>1, <2>1, <2>2, <2>6, BehindFinal
<1>6. CASE ReadAgain(buf)
  <2>1. eof /\ pipe' = pipe /\ eof' = eof
    BY <1>6 DEF ReadAgain, readerVars
  <2> QED BY <2>1
<1> QED BY <1>3, <1>4, <1>5, <1>6 DEF Read

LEMMA SendPlace ==
  ASSUME IInv, PlaceInv, NEW c \in Call, Send(c)
  PROVE  PlaceInv'
<1>1. /\ pipe \in Seq(Unit) /\ pipe' = pipe \o Message(c)
      /\ UNCHANGED <<closed, pc, to_read, msg, task, eof, raised_early>>
  BY DEF Send, readerVars, IInv, TypeInv
<1> DEFINE m == Message(c)
<1>2. m \in Seq(Unit) /\ Len(m) \in Nat /\ Len(m) >= 2 /\ m[1] = Start(c)
  BY MessageFacts
<1> HIDE DEF m
<1>3. /\ Len(pipe) \in Nat /\ Len(pipe') = Len(pipe) + Len(m)
      /\ \A k \in 1 .. Len(pipe) : pipe'[k] = pipe[k]
      /\ \A k \in 1 .. Len(m) : pipe'[Len(pipe) + k] = m[k]
  BY <1>1, <1>2, ConcatFacts DEF m
<1>4. 1 \in 1 .. Len(m) /\ pipe' # <<>>
  <2>1. pipe' \in Seq(Unit)
    BY <1>1, <1>2, ConcatFacts DEF m
  <2> QED BY <1>2, <1>3, <2>1
<1>5. pipe = <<>> => pipe'[1] = Start(c)
  <2> HAVE pipe = <<>>
  <2>1. pipe'[0 + 1] = m[1]
    BY <1>3, <1>4
  <2> QED BY <1>2, <2>1
<1>6. pipe # <<>> => pipe'[1] = pipe[1]
  BY <1>1, <1>3
<1>7. Start(c).unit = "size" /\ Start(c).chunk = 0
  BY DEF Start, Size
<1>8. AtStart(pipe) => AtStart(pipe')
  BY <1>5, <1>6, <1>7 DEF AtStart
<1> QED BY <1>1, <1>4, <1>6, <1>8 DEF PlaceInv

LEMMA ReadSizePlace ==
  ASSUME IInv, PlaceInv, ReadSize, raised_early' = {}, ~closed'
  PROVE  PlaceInv'
<1>1. TypeInv /\ PipeInv /\ pipe \in Seq(Unit)
  BY DEF IInv, TypeInv
<1>2. pc = "size" /\ AtStart(pipe) /\ ~closed
  BY DEF ReadSize, PlaceInv
<1>3. pipe # <<>>
  BY <1>2 DEF ReadSize, AtEnd, Sizes
<1>4. pipe[1] \in Unit /\ Head(pipe) = pipe[1] /\ pipe[1].unit = "size" /\ pipe[1].chunk = 0
  BY <1>1, <1>2, <1>3, FirstDropped DEF AtStart
<1>5. pipe[1].call \in Call /\ ~Final(pipe[1])
  <2>1. pipe[1].call \in Call
    BY <1>4 DEF Unit, Record
  <2>2. End(pipe[1].call) # 0
    <3>1. Len(Chunks[pipe[1].call]) \in Nat
      BY <2>1, UnitFacts
    <3> QED BY <3>1 DEF End
  <2> QED BY <1>4, <2>1, <2>2 DEF Final
<1>6. pipe[1].n = 1
  <2>1. pipe[1] = Start(pipe[1].call)
    <3>1. 0 \notin 1 .. End(pipe[1].call)
      OBVIOUS
    <3> QED BY <1>4, <3>1 DEF Unit
  <2>2. Start(pipe[1].call).n = 1
    BY DEF Start, Size
  <2> QED BY <2>1, <2>2
<1>7. Sizes = {1}
  BY <1>3, <1>4, <1>6 DEF Sizes
<1>8. pipe' = Tail(pipe) /\ to_read' = 1 /\ msg' = <<>> /\ pc' = "body"
  BY <1>2, <1>3, <1>7 DEF ReadSize, AtEnd
<1>9. pipe' # <<>> /\ Follows(pipe[1], pipe'[1])
  BY <1>1, <1>2, <1>3, <1>5, <1>8, FirstDropped
<1>10. pipe'[1].unit = "body"
  BY <1>4, <1>9 DEF Follows, Body
<1>11. pc' # "dead" /\ pc' # "size" /\ pc' \notin Executing
  BY <1>8 DEF Executing
<1> QED BY <1>8, <1>9, <1>10, <1>11 DEF PlaceInv

LEMMA ReadBodyPlace ==
  ASSUME IInv, PlaceInv, ReadBody, raised_early' = {}, ~closed'
  PROVE  PlaceInv'
<1>1. TypeInv /\ PipeInv /\ pipe \in Seq(Unit) /\ Len(pipe) \in Nat
  BY DEF IInv, TypeInv
<1>2. /\ pc = "body" /\ ~closed /\ to_read = 1 /\ msg = <<>>
      /\ pipe # <<>> /\ pipe[1].unit = "body"
  BY DEF ReadBody, PlaceInv
<1>3. PICK chunk \in OsRead(pipe, 1) :
        /\ to_read' = 1 - Len(chunk) /\ msg' = msg \o chunk
        /\ pc' = IF chunk = <<>> THEN "dead" ELSE pc
  BY <1>2 DEF ReadBody
<1>4. chunk = <<pipe[1]>>
  <2>1. PICK k \in 1 .. Len(pipe) : k <= 1 /\ chunk = SubSeq(pipe, 1, k)
    BY <1>2, <1>3 DEF OsRead
  <2>2. k = 1 /\ 1 \in 0 .. Len(pipe)
    BY <1>1, <2>1
  <2>3. chunk \in Seq(Unit) /\ Len(chunk) = 1 /\ chunk[1] = pipe[1]
    BY <1>1, <2>1, <2>2, CutFacts
  <2> QED BY <2>3
<1>5. PICK c \in Call : pipe[1] = Body(c)
  <2>1. pipe[1] \in Unit
    BY <1>1, <1>2, FirstDropped
  <2> QED BY <1>2, <2>1 DEF Unit, Record, Body
<1>6. to_read' = 0 /\ msg' = <<Body(c)>> /\ pc' = "body"
  BY <1>2, <1>3, <1>4, <1>5
<1>7. pc' # "dead" /\ pc' # "size" /\ pc' \notin Executing
  BY <1>6 DEF Executing
<1> QED BY <1>6, <1>7 DEF PlaceInv

LEMMA DispatchPlace ==
  ASSUME IInv, PlaceInv, Dispatch, raised_early' = {}, ~closed'
  PROVE  PlaceInv'
<1>1. pc = "body" /\ to_read = 0 /\ ~closed /\ raised_early = {} /\ pipe' = pipe
  BY DEF Dispatch
<1>2. PICK c \in Call : msg = <<Body(c)>>
  BY <1>1 DEF PlaceInv
<1>3. \A d \in Call : Body(d).unit = "body" /\ Body(d).call = d
  BY DEF Body
<1>4. CASE pc' = "size" /\ \E d \in Call \ IsStream : msg = <<Body(d)>>
  <2>1. PICK d \in Call \ IsStream : msg = <<Body(d)>>
    BY <1>4
  <2>2. PICK e \in Call : msg = <<Body(e)>> /\ Behind(e, pipe)
    <3>1. msg # <<>> /\ msg[1] = Body(d)
      BY <2>1
    <3> QED BY <1>1, <1>3, <2>1, <3>1 DEF IInv, MessageInv
  <2>3. e = d
    <3>1. Body(e) = Body(d)
      BY <2>1, <2>2
    <3> QED BY <1>3, <2>1, <3>1
  <2>4. pipe # <<>> => Follows(Body(d), pipe[1])
    BY <2>2, <2>3 DEF Behind
  <2>5. Final(Body(d))
    BY <1>3, <2>1 DEF Final
  <2>6. AtStart(pipe')
    BY <1>1, <2>4, <2>5 DEF AtStart, Follows
  <2>7. pc' # "dead" /\ pc' # "body" /\ pc' \notin Executing
    BY <1>4 DEF Executing
  <2> QED BY <2>6, <2>7 DEF PlaceInv
<1>5. CASE pc' = "exec" /\ eof' = FALSE
  BY <1>5 DEF PlaceInv
<1> QED BY <1>2, <1>4, <1>5 DEF Dispatch

\* A function, and task_exec when it answers.
LEMMA ExecPlace ==
  ASSUME IInv, PlaceInv, raised_early' = {}, ~closed',
         FunctionReads \/ FunctionReturns \/ FunctionRaises \/ Check \/ Drain
  PROVE  PlaceInv'
<1>1. pc \in Executing /\ ~closed /\ raised_early = {}
  BY DEF FunctionReads, FunctionReturns, FunctionRaises, Check, Drain, Executing
<1>2. eof => AtStart(pipe)
  BY <1>1 DEF PlaceInv
<1>3. ASSUME pc' \in Executing, eof' => AtStart(pipe')
      PROVE  PlaceInv'
  <2>1. pc' # "dead" /\ pc' # "size" /\ pc' # "body"
    BY <1>3 DEF Executing
  <2> QED BY <1>3, <2>1 DEF PlaceInv
<1>4. ASSUME pc' = "size", AtStart(pipe')
      PROVE  PlaceInv'
  <2>1. pc' # "dead" /\ pc' # "body" /\ pc' \notin Executing
    BY <1>4 DEF Executing
  <2> QED BY <1>4, <2>1 DEF PlaceInv
<1>5. CASE FunctionReads
  <2>1. PICK buf : Read(buf)
    BY <1>5 DEF FunctionReads
  <2>2. pc' \in Executing
    BY <1>5 DEF FunctionReads, Executing
  <2> QED BY <1>1, <1>2, <1>3, <2>1, <2>2, ReadPlace
<1>6. CASE FunctionReturns
  <2>1. pc' \in Executing /\ eof' = eof /\ pipe' = pipe
    BY <1>6 DEF FunctionReturns, readerVars, Executing
  <2> QED BY <1>2, <1>3, <2>1
<1>7. CASE FunctionRaises
  <2>1. eof /\ pc' = "size" /\ pipe' = pipe
    BY <1>7 DEF FunctionRaises, Answer
  <2> QED BY <1>2, <1>4, <2>1
<1>8. ASSUME NEW buf, Read(buf),
             \/ buf = <<>> /\ pc' = "size"
             \/ pc' \in Executing
      PROVE  PlaceInv'
  <2>1. (eof' => AtStart(pipe')) /\ (buf = <<>> => eof')
    BY <1>1, <1>2, <1>8, ReadPlace
  <2> QED BY <1>3, <1>4, <1>8, <2>1
<1>9. CASE Check
  <2>1. PICK buf : Read(buf) /\ ((buf = <<>> /\ pc' = "size") \/ pc' \in Executing)
    BY <1>9 DEF Check, Answer, Executing
  <2> QED BY <1>8, <2>1
<1>10. CASE Drain
  <2>1. PICK buf : Read(buf) /\ ((buf = <<>> /\ pc' = "size") \/ pc' \in Executing)
    BY <1>1, <1>10 DEF Drain, Answer
  <2> QED BY <1>8, <2>1
<1> QED BY <1>5, <1>6, <1>7, <1>9, <1>10

(***************************************************************************)
(* The input thread keeps its place: on an open connection it reads the    *)
(* sizes of messages as sizes and their bodies as bodies, also behind      *)
(* functions that left a part of their stream to task_exec, until a        *)
(* function raises before it has read its stream.                          *)
(***************************************************************************)
THEOREM PlaceIsKept == Spec => []KeepsItsPlace
<1>1. Init => PlaceInv
  BY DEF Init, PlaceInv, AtStart, Executing
<1>2. IInv /\ PlaceInv /\ [Next]_vars => PlaceInv'
  <2> SUFFICES ASSUME IInv, PlaceInv, [Next]_vars, raised_early' = {}, ~closed'
               PROVE  PlaceInv'
    BY DEF PlaceInv
  <2>1. ASSUME NEW c \in Call, Send(c) PROVE PlaceInv'
    BY <2>1, SendPlace
  <2>2. CASE UNCHANGED <<pipe, closed, pc, to_read, msg, eof, raised_early>>
    BY <2>2 DEF PlaceInv
  <2>3. ASSUME NEW c \in Call, ThreadEnds(c) PROVE PlaceInv'
    BY <2>2, <2>3 DEF ThreadEnds, readerVars
  <2>4. CASE Close
    BY <2>4 DEF Close
  <2>5. CASE ReadSize
    BY <2>5, ReadSizePlace
  <2>6. CASE ReadBody
    BY <2>6, ReadBodyPlace
  <2>7. CASE Dispatch
    BY <2>7, DispatchPlace
  <2>8. CASE FunctionReads \/ FunctionReturns \/ FunctionRaises \/ Check \/ Drain
    BY <2>8, ExecPlace
  <2>9. CASE UNCHANGED vars
    BY <2>2, <2>9 DEF vars, readerVars
  <2> QED BY <2>1, <2>3, <2>4, <2>5, <2>6, <2>7, <2>8, <2>9 DEF Next, Input, Gone
<1>3. PlaceInv => KeepsItsPlace
  BY DEF PlaceInv, KeepsItsPlace
<1> QED BY <1>1, <1>2, <1>3, Inductive, PTL DEF Spec

=============================================================================
