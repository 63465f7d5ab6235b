--------------------------- MODULE HttplibTextProofs ---------------------------
(***************************************************************************)
(* Lemmas about the functions on texts, for texts of any length: what      *)
(* from_hex_to_i(), encode_query_param(), decode_url(), split(), divide()  *)
(* and their like return.  Where a definition is recursive the lemma is    *)
(* proved by induction over an interval: the least number for which it is  *)
(* false is none (Smallest).                                               *)
(***************************************************************************)
EXTENDS HttplibText, SequenceTheorems, WellFoundedInduction, FiniteSetTheorems, TLAPS

(* Induction over intervals, and recursive functions on them *)

LEMMA LeastNumber ==
  ASSUME NEW T \in SUBSET Nat, T # {}
  PROVE  \E x \in T : \A y \in T : x <= y
<1>1. PICK x \in T : \A y \in T : ~(<<y, x>> \in OpToRel(<, Nat))
  BY NatLessThanWellFounded, WFMin
<1>2. \A y \in T : ~(y < x)
  BY <1>1 DEF OpToRel
<1>3. \A y \in T : y \in Nat
  OBVIOUS
<1>4. \A y \in T : x <= y
  BY <1>2, <1>3
<1> QED BY <1>4

\* every set of numbers between two bounds has a smallest one, and a greatest one
LEMMA Smallest ==
  ASSUME NEW lo \in Int, NEW hi \in Int, NEW T \in SUBSET (lo..hi), T # {}
  PROVE  \E x \in T : \A y \in T : x <= y
<1> DEFINE S == {n \in Nat : lo + n \in T}
<1>1. PICK z \in T : TRUE
  OBVIOUS
<1>2. z - lo \in S
  <2>1. z \in lo..hi /\ z - lo \in Nat /\ lo + (z - lo) = z
    OBVIOUS
  <2> QED BY <2>1
<1>3. PICK n \in S : \A m \in S : n <= m
  BY <1>2, LeastNumber
<1>4. lo + n \in T /\ n \in Nat
  OBVIOUS
<1>5. ASSUME NEW y \in T PROVE lo + n <= y
  <2>1. y \in Int /\ y - lo \in Nat /\ lo + (y - lo) = y
    OBVIOUS
  <2>2. n <= y - lo
    BY <1>3, <2>1
  <2> QED BY <1>4, <2>1, <2>2
<1> QED BY <1>4, <1>5

LEMMA Greatest ==
  ASSUME NEW lo \in Int, NEW hi \in Int, NEW T \in SUBSET (lo..hi), T # {}
  PROVE  \E x \in T : \A y \in T : y <= x
<1> DEFINE S == {n \in Nat : hi - n \in T}
<1>1. PICK z \in T : TRUE
  OBVIOUS
<1>2. hi - z \in S
  <2>1. z \in lo..hi /\ hi - z \in Nat /\ hi - (hi - z) = z
    OBVIOUS
  <2> QED BY <2>1
<1>3. PICK n \in S : \A m \in S : n <= m
  BY <1>2, LeastNumber
<1>4. hi - n \in T /\ n \in Nat
  OBVIOUS
<1>5. ASSUME NEW y \in T PROVE y <= hi - n
  <2>1. y \in Int /\ hi - y \in Nat /\ hi - (hi - y) = y
    OBVIOUS
  <2>2. n <= hi - y
    BY <1>3, <2>1
  <2> QED BY <1>4, <2>1, <2>2
<1> QED BY <1>4, <1>5

LEMMA Upwards ==
  ASSUME NEW lo \in Int, NEW hi \in Int, NEW T,
         \A i \in lo..hi : (\A j \in lo..i - 1 : j \in T) => i \in T
  PROVE  \A i \in lo..hi : i \in T
<1>1. SUFFICES ASSUME (lo..hi) \ T # {} PROVE FALSE
  OBVIOUS
<1>2. PICK x \in (lo..hi) \ T : \A y \in (lo..hi) \ T : x <= y
  BY <1>1, Smallest
<1>3. ASSUME NEW j \in lo..x - 1 PROVE j \in T
  <2>1. j \in lo..hi /\ ~(x <= j)
    BY <1>2
  <2> QED BY <1>2, <2>1
<1> QED BY <1>2, <1>3

LEMMA Downwards ==
  ASSUME NEW lo \in Int, NEW hi \in Int, NEW T,
         \A i \in lo..hi : (\A j \in i + 1..hi : j \in T) => i \in T
  PROVE  \A i \in lo..hi : i \in T
<1>1. SUFFICES ASSUME (lo..hi) \ T # {} PROVE FALSE
  OBVIOUS
<1>2. PICK x \in (lo..hi) \ T : \A y \in (lo..hi) \ T : y <= x
  BY <1>1, Greatest
<1>3. ASSUME NEW j \in x + 1..hi PROVE j \in T
  <2>1. j \in lo..hi /\ ~(j <= x)
    BY <1>2
  <2> QED BY <1>2, <2>1
<1> QED BY <1>2, <1>3

\* a function whose value at each number follows from the value before it
Forward(f, n, V, first, next) ==
  f \in [0..n -> V] /\ f[0] = first /\ \A i \in 1..n : f[i] = next[i][f[i - 1]]

LEMMA ForwardFunction ==
  ASSUME NEW n \in Nat, NEW V, NEW first \in V,
         NEW next, \A i \in 1..n : \A v \in V : next[i][v] \in V
  PROVE  \E f : Forward(f, n, V, first, next)
<1> DEFINE Up(f, m) == /\ f \in [0..m -> V] /\ f[0] = first
                       /\ \A i \in 1..m : f[i] = next[i][f[i - 1]]
           T == {m \in 0..n : \E f : Up(f, m)}
<1>1. ASSUME NEW m \in 0..n, \A j \in 0..m - 1 : j \in T PROVE m \in T
  <2>1. CASE m = 0
    <3>1. Up([i \in 0..0 |-> first], 0)
      OBVIOUS
    <3> QED BY <2>1, <3>1
  <2>2. CASE m # 0
    <3>1. m - 1 \in T /\ m \in 1..n /\ m - 1 \in 0..m - 1
      BY <1>1, <2>2
    <3>2. PICK f : Up(f, m - 1)
      BY <3>1
    <3> DEFINE g == [i \in 0..m |-> IF i = m THEN next[m][f[m - 1]] ELSE f[i]]
    <3>3. f[m - 1] \in V /\ next[m][f[m - 1]] \in V
      BY <3>1, <3>2
    <3>4. \A i \in 0..m : i # m => i \in 0..m - 1 /\ f[i] \in V /\ g[i] = f[i]
      BY <3>1, <3>2
    <3>5. g[m] = next[m][f[m - 1]] /\ m \in 0..m
      BY <3>1
    <3> HIDE DEF g
    <3>6. g \in [0..m -> V]
      BY <3>3, <3>4 DEF g
    <3>7. g[0] = first
      BY <2>2, <3>1, <3>2, <3>4
    <3>8. ASSUME NEW i \in 1..m PROVE g[i] = next[i][g[i - 1]]
      <4>1. i - 1 \in 0..m /\ i - 1 # m /\ g[i - 1] = f[i - 1]
        BY <3>1, <3>4
      <4>2. CASE i = m
        BY <3>5, <4>1, <4>2
      <4>3. CASE i # m
        <5>1. i \in 1..m - 1 /\ i \in 0..m /\ g[i] = f[i]
          BY <3>1, <3>4, <4>3
        <5> QED BY <3>2, <4>1, <5>1
      <4> QED BY <4>2, <4>3
    <3>9. Up(g, m)
      BY <3>6, <3>7, <3>8
    <3> QED BY <3>9
  <2> QED BY <2>1, <2>2
<1> HIDE DEF T
<1>2. \A m \in 0..n : m \in T
  <2>1. \A i \in 0..n : (\A j \in 0..i - 1 : j \in T) => i \in T
    BY <1>1
  <2>2. 0 \in Int /\ n \in Int
    OBVIOUS
  <2> QED BY ONLY <2>1, <2>2, Upwards
<1>3. n \in T
  BY <1>2
<1> QED BY <1>3 DEF T, Forward

\* a function whose value at each number follows from its values at greater ones
Backward(f, lo, hi, V, step) == f \in [lo..hi -> V] /\ \A i \in lo..hi : f[i] = step[i][f]

LEMMA BackwardFunction ==
  ASSUME NEW lo \in Int, NEW hi \in Int, NEW V, NEW step,
         \A i \in lo..hi : \A f \in [lo..hi -> V] : step[i][f] \in V,
         \A i \in lo..hi : \A f \in [lo..hi -> V], g \in [lo..hi -> V] :
           (\A j \in i + 1..hi : f[j] = g[j]) => step[i][f] = step[i][g],
         V # {}
  PROVE  \E f : Backward(f, lo, hi, V, step)
<1> DEFINE D == lo..hi
           From(f, m) == f \in [D -> V] /\ \A i \in m..hi : f[i] = step[i][f]
           T == {m \in lo..hi : \E f : From(f, m)}
<1>1. ASSUME NEW m \in lo..hi, \A j \in m + 1..hi : j \in T PROVE m \in T
  <2>1. \E f : From(f, m + 1)
    <3>1. CASE m = hi
      <4>1. PICK v \in V : TRUE
        OBVIOUS
      <4>2. From([i \in D |-> v], m + 1)
        BY <3>1
      <4> QED BY <4>2
    <3>2. CASE m # hi
      <4>1. m + 1 \in T
        <5>1. m + 1 \in m + 1..hi
          BY <3>2
        <5> QED BY <1>1, <5>1
      <4> QED BY <4>1
    <3> QED BY <3>1, <3>2
  <2>2. PICK f : From(f, m + 1)
    BY <2>1
  <2> DEFINE g == [f EXCEPT ![m] = step[m][f]]
  <2>3. f \in [D -> V] /\ step[m][f] \in V
    BY <2>2
  <2>4. g \in [D -> V] /\ g[m] = step[m][f]
    BY <2>3
  <2>5. \A j \in lo..hi : j # m => g[j] = f[j]
    BY <2>3
  <2> HIDE DEF g
  <2>6. ASSUME NEW i \in m..hi PROVE g[i] = step[i][g]
    <3>1. i \in lo..hi /\ \A j \in i + 1..hi : j \in lo..hi /\ j # m
      OBVIOUS
    <3>2. \A j \in i + 1..hi : f[j] = g[j]
      BY <2>5, <3>1
    <3>3. step[i][f] = step[i][g]
      BY <2>3, <2>4, <3>1, <3>2
    <3>4. CASE i = m
      BY <2>4, <3>3, <3>4
    <3>5. CASE i # m
      <4>1. i \in m + 1..hi /\ g[i] = f[i]
        BY <2>5, <3>1, <3>5
      <4> QED BY <2>2, <3>3, <4>1
    <3> QED BY <3>4, <3>5
  <2>7. From(g, m)
    BY <2>4, <2>6
  <2> QED BY <2>7
<1> HIDE DEF T
<1>2. \A m \in lo..hi : m \in T
  BY <1>1, Downwards
<1>3. CASE lo \in lo..hi
  <2>1. lo \in T
    BY <1>2, <1>3
  <2> QED BY <2>1 DEF T, Backward
<1>4. CASE lo \notin lo..hi
  <2>1. lo..hi = {}
    BY <1>4
  <2>2. PICK v \in V : TRUE
    OBVIOUS
  <2>3. [i \in lo..hi |-> v] \in [lo..hi -> V]
    OBVIOUS
  <2> QED BY <2>1, <2>3 DEF Backward
<1> QED BY <1>3, <1>4

----------------------------------------------------------------------------
(* FlattenSeq *)

\* f has what the first pieces of q make together
Joins(f, q, S) == /\ f \in [0..Len(q) -> Seq(S)] /\ f[0] = <<>>
                  /\ \A i \in 1..Len(q) : f[i] = f[i - 1] \o q[i]

LEMMA PieceIsSeq ==
  ASSUME NEW S, NEW q \in Seq(Seq(S))
  PROVE  /\ Len(q) \in Nat /\ DOMAIN q = 1..Len(q)
         /\ \A i \in 1..Len(q) : q[i] \in Seq(S) /\ Len(q[i]) \in Nat
BY LenProperties, ElementOfSeq

LEMMA JoinsExist ==
  ASSUME NEW S, NEW q \in Seq(Seq(S))
  PROVE  \E f : Joins(f, q, S)
<1> DEFINE next == [i \in 1..Len(q) |-> [v \in Seq(S) |-> v \o q[i]]]
           n == Len(q)
           V == Seq(S)
           first == <<>>
<1>1. n \in Nat /\ \A i \in 1..n : q[i] \in V
  BY PieceIsSeq
<1>2. first \in V
  BY EmptySeq
<1>3. \A i \in 1..n : \A v \in V : next[i][v] = v \o q[i]
  OBVIOUS
<1>4. \A i \in 1..n : \A v \in V : next[i][v] \in V
  BY <1>1, <1>3, ConcatProperties
<1>5. n \in Nat
  BY <1>1
<1> HIDE DEF next, n, V, first
<1>6. PICK f : Forward(f, n, V, first, next)
  BY ONLY <1>2, <1>4, <1>5, ForwardFunction
<1>7. f \in [0..n -> V] /\ f[0] = first /\ \A i \in 1..n : f[i] = next[i][f[i - 1]]
  BY <1>6 DEF Forward
<1>8. ASSUME NEW i \in 1..n PROVE f[i] = f[i - 1] \o q[i]
  <2>1. i - 1 \in 0..n
    BY <1>5
  <2>2. f[i - 1] \in V
    BY <1>7, <2>1
  <2> QED BY <1>3, <1>7, <2>2
<1> QED BY <1>7, <1>8 DEF Joins, n, V, first

LEMMA JoinsFlat ==
  ASSUME NEW S, NEW q \in Seq(Seq(S)), NEW f, Joins(f, q, S)
  PROVE  FlattenSeq(q) = f[Len(q)]
<1> DEFINE n == Len(q)
           Eq(g) == g = [i \in 1..n |-> IF i = 1 THEN q[i] ELSE g[i - 1] \o q[i]]
           flatten == CHOOSE g : Eq(g)
<1>1. n \in Nat /\ \A i \in 1..n : q[i] \in Seq(S)
  BY PieceIsSeq
<1>2. CASE n = 0
  <2>1. q = <<>>
    BY <1>2
  <2>2. f[n] = <<>>
    BY <1>2 DEF Joins
  <2> QED BY <1>2, <2>1, <2>2 DEF FlattenSeq
<1>3. CASE n # 0
  <2>1. Eq([i \in 1..n |-> f[i]])
    <3> DEFINE g == [i \in 1..n |-> f[i]]
    <3>1. ASSUME NEW i \in 1..n PROVE g[i] = IF i = 1 THEN q[i] ELSE g[i - 1] \o q[i]
      <4>1. f[i] = f[i - 1] \o q[i]
        BY DEF Joins
      <4>2. CASE i = 1
        <5>1. f[i - 1] = <<>>
          BY <4>2 DEF Joins
        <5>2. q[i] \in Seq(S)
          BY <1>1
        <5>3. <<>> \o q[i] = q[i]
          BY <5>2, ConcatEmptySeq
        <5> QED BY <4>1, <4>2, <5>1, <5>3
      <4>3. CASE i # 1
        <5>1. i - 1 \in 1..n
          BY <1>1, <4>3
        <5>2. g[i - 1] = f[i - 1]
          BY <5>1
        <5> QED BY <4>1, <4>3, <5>2
      <4> QED BY <4>2, <4>3
    <3>2. g = [i \in 1..n |-> g[i]]
      OBVIOUS
    <3> HIDE DEF g
    <3>3. [i \in 1..n |-> g[i]] = [i \in 1..n |-> IF i = 1 THEN q[i] ELSE g[i - 1] \o q[i]]
      BY <3>1
    <3>4. Eq(g)
      BY <3>2, <3>3
    <3> QED BY <3>4 DEF g
  <2>2. Eq(flatten)
    BY <2>1
  <2>3. FlattenSeq(q) = flatten[n]
    BY <1>3 DEF FlattenSeq
  <2> HIDE DEF flatten
  <2>4. \A i \in 1..n : flatten[i] = IF i = 1 THEN q[i] ELSE flatten[i - 1] \o q[i]
    BY <2>2
  <2> DEFINE T == {i \in 1..n : flatten[i] = f[i]}
  <2>5. ASSUME NEW i \in 1..n, \A j \in 1..i - 1 : j \in T PROVE i \in T
    <3>1. f[i] = f[i - 1] \o q[i]
      BY DEF Joins
    <3>2. CASE i = 1
      <4>1. f[i - 1] = <<>> /\ q[i] \in Seq(S)
        BY <1>1, <3>2 DEF Joins
      <4>2. <<>> \o q[i] = q[i]
        BY <4>1, ConcatEmptySeq
      <4> QED BY <2>4, <3>1, <3>2, <4>1, <4>2
    <3>3. CASE i # 1
      <4>1. i - 1 \in T
        <5>1. i - 1 \in 1..i - 1
          BY <3>3
        <5> QED BY <2>5, <5>1
      <4> QED BY <2>4, <3>1, <3>3, <4>1
    <3> QED BY <3>2, <3>3
  <2>6. \A i \in 1..n : i \in T
    <3> HIDE DEF T
    <3>1. \A i \in 1..n : (\A j \in 1..i - 1 : j \in T) => i \in T
      BY <2>5
    <3>2. 1 \in Int /\ n \in Int
      BY <1>1
    <3> QED BY ONLY <3>1, <3>2, Upwards
  <2>7. n \in T
    BY <1>1, <1>3, <2>6
  <2> QED BY <2>3, <2>7
<1> QED BY <1>2, <1>3

\* where each piece is
PiecesAt(f, q) ==
  /\ \A i \in 0..Len(q) : Len(f[i]) \in Nat
  /\ Len(f[0]) = 0
  /\ \A i \in 1..Len(q) : Len(f[i]) = Len(f[i - 1]) + Len(q[i])
  /\ \A i \in 1..Len(q) : \A p \in 1..Len(f[i - 1]) : f[i][p] = f[i - 1][p]
  /\ \A i \in 1..Len(q) : \A p \in 1..Len(q[i]) : f[i][Len(f[i - 1]) + p] = q[i][p]

LEMMA JoinsPieces ==
  ASSUME NEW S, NEW q \in Seq(Seq(S)), NEW f, Joins(f, q, S)
  PROVE  PiecesAt(f, q)
<1>1. Len(q) \in Nat /\ \A i \in 1..Len(q) : q[i] \in Seq(S) /\ Len(q[i]) \in Nat
  BY PieceIsSeq
<1>2. \A i \in 0..Len(q) : f[i] \in Seq(S)
  BY DEF Joins
<1>3. \A i \in 0..Len(q) : Len(f[i]) \in Nat
  BY <1>2, LenProperties
<1>4. Len(f[0]) = 0
  BY DEF Joins
<1>5. ASSUME NEW i \in 1..Len(q)
      PROVE  /\ Len(f[i]) = Len(f[i - 1]) + Len(q[i])
             /\ \A p \in 1..Len(f[i - 1]) : f[i][p] = f[i - 1][p]
             /\ \A p \in 1..Len(q[i]) : f[i][Len(f[i - 1]) + p] = q[i][p]
  <2>1. i - 1 \in 0..Len(q)
    BY <1>1
  <2> DEFINE a == f[i - 1]
             b == q[i]
  <2>2. a \in Seq(S) /\ b \in Seq(S) /\ Len(a) \in Nat /\ Len(b) \in Nat
    BY <1>1, <1>2, <1>3, <2>1
  <2>3. f[i] = a \o b
    BY DEF Joins
  <2> HIDE DEF a, b
  <2>4. /\ Len(a \o b) = Len(a) + Len(b)
        /\ \A p \in 1..Len(a) + Len(b) : (a \o b)[p] = IF p <= Len(a) THEN a[p] ELSE b[p - Len(a)]
    BY <2>2, ConcatProperties
  <2>5. \A p \in 1..Len(a) : p \in 1..Len(a) + Len(b) /\ p <= Len(a)
    BY <2>2
  <2>6. \A p \in 1..Len(b) : Len(a) + p \in 1..Len(a) + Len(b) /\ ~(Len(a) + p <= Len(a))
                             /\ (Len(a) + p) - Len(a) = p
    BY <2>2
  <2>7. \A p \in 1..Len(a) : (a \o b)[p] = a[p]
    BY <2>4, <2>5
  <2>8. \A p \in 1..Len(b) : (a \o b)[Len(a) + p] = b[p]
    BY <2>4, <2>6
  <2> QED BY <2>3, <2>4, <2>7, <2>8 DEF a, b
<1> QED BY <1>3, <1>4, <1>5 DEF PiecesAt

LEMMA FlattenType ==
  ASSUME NEW S, NEW q \in Seq(Seq(S))
  PROVE  FlattenSeq(q) \in Seq(S)
<1>1. PICK f : Joins(f, q, S)
  BY JoinsExist
<1>2. FlattenSeq(q) = f[Len(q)]
  BY <1>1, JoinsFlat
<1>3. Len(q) \in 0..Len(q)
  <2>1. Len(q) \in Nat
    BY PieceIsSeq
  <2> QED BY <2>1
<1>4. f[Len(q)] \in Seq(S)
  BY <1>1, <1>3 DEF Joins
<1> QED BY <1>2, <1>4

\* pieces of one element each make the sequence of these elements
LEMMA FlattenOnes ==
  ASSUME NEW S, NEW x \in Seq(S), NEW q, q = [k \in DOMAIN x |-> <<x[k]>>]
  PROVE  FlattenSeq(q) = x
<1>1. Len(x) \in Nat /\ DOMAIN x = 1..Len(x) /\ \A k \in 1..Len(x) : x[k] \in S
  BY LenProperties, ElementOfSeq
<1>2. \A k \in 1..Len(x) : <<x[k]>> \in Seq(S) /\ q[k] = <<x[k]>>
  BY <1>1
<1>3. q \in Seq(Seq(S)) /\ Len(q) = Len(x)
  BY <1>1, <1>2
<1>4. PICK f : Joins(f, q, S)
  BY <1>3, JoinsExist
<1>5. FlattenSeq(q) = f[Len(x)]
  BY <1>3, <1>4, JoinsFlat
<1> DEFINE n == Len(x)
           T == {i \in 0..n : f[i] = SubSeq(x, 1, i)}
<1>6. ASSUME NEW i \in 0..n, \A j \in 0..i - 1 : j \in T PROVE i \in T
  <2>1. CASE i = 0
    <3>1. f[0] = <<>> /\ SubSeq(x, 1, 0) = <<>>
      BY <1>4, SubSeqEmpty DEF Joins
    <3> QED BY <2>1, <3>1
  <2>2. CASE i # 0
    <3>1. i \in 1..n /\ i - 1 \in 0..i - 1 /\ 1 \in 1..Len(x) /\ i \in 1..Len(x)
      BY <1>1, <2>2
    <3>2. f[i - 1] = SubSeq(x, 1, i - 1)
      BY <1>6, <3>1
    <3>3. f[i] = f[i - 1] \o <<x[i]>>
      BY <1>2, <1>3, <1>4, <3>1 DEF Joins
    <3>4. SubSeq(x, 1, i) = SubSeq(x, 1, i - 1) \o <<x[i]>>
      BY <3>1, SubSeqRecursiveSecond
    <3> QED BY <3>2, <3>3, <3>4
  <2> QED BY <2>1, <2>2
<1>7. \A i \in 0..n : i \in T
  <2> HIDE DEF T
  <2>1. 0 \in Int /\ n \in Int
    BY <1>1
  <2>2. \A i \in 0..n : (\A j \in 0..i - 1 : j \in T) => i \in T
    BY <1>6
  <2> QED BY ONLY <2>1, <2>2, Upwards
<1>8. n \in 0..n
  BY <1>1
<1>9. f[n] = SubSeq(x, 1, n)
  BY <1>7, <1>8
<1> QED BY <1>5, <1>9, SubSeqFull

\* one piece, and three
LEMMA FlattenFew ==
  ASSUME NEW S, NEW q \in Seq(Seq(S))
  PROVE  /\ Len(q) = 1 => FlattenSeq(q) = q[1]
         /\ Len(q) = 3 => FlattenSeq(q) = (q[1] \o q[2]) \o q[3]
<1>1. PICK f : Joins(f, q, S)
  BY JoinsExist
<1>2. f[0] = <<>> /\ \A i \in 1..Len(q) : f[i] = f[i - 1] \o q[i]
  BY <1>1 DEF Joins
<1>3. FlattenSeq(q) = f[Len(q)]
  BY <1>1, JoinsFlat
<1>4. \A i \in 1..Len(q) : q[i] \in Seq(S)
  BY PieceIsSeq
<1>5. ASSUME Len(q) \in {1, 3} PROVE f[1] = q[1]
  <2>1. 1 \in 1..Len(q) /\ 1 - 1 = 0
    BY <1>5
  <2>2. f[1] = f[1 - 1] \o q[1]
    BY ONLY <1>2, <2>1, Zenon
  <2>3. f[1] = <<>> \o q[1]
    BY <1>2, <2>1, <2>2
  <2>4. q[1] \in Seq(S)
    BY <1>4, <2>1
  <2> QED BY <2>3, <2>4, ConcatEmptySeq
<1>6. ASSUME Len(q) = 3 PROVE f[3] = (f[1] \o q[2]) \o q[3]
  <2>1. 2 \in 1..Len(q) /\ 2 - 1 = 1 /\ 3 \in 1..Len(q) /\ 3 - 1 = 2
    BY <1>6
  <2>2. f[2] = f[2 - 1] \o q[2] /\ f[3] = f[3 - 1] \o q[3]
    BY ONLY <1>2, <2>1, Zenon
  <2> QED BY <2>1, <2>2
<1> QED BY <1>3, <1>5, <1>6

----------------------------------------------------------------------------
(* trim_copy(), divide(), Parts() *)

\* the part of a text between two positions
LEMMA PartOf ==
  ASSUME NEW S, NEW s \in Seq(S), NEW i \in Nat, NEW j \in Nat, j <= Len(s)
  PROVE  /\ SubSeq(s, i + 1, j) \in Seq(S)
         /\ Len(SubSeq(s, i + 1, j)) = IF i <= j THEN j - i ELSE 0
         /\ \A p \in 1..j - i : SubSeq(s, i + 1, j)[p] = s[i + p]
<1>1. Len(s) \in Nat /\ \A p \in 1..Len(s) : s[p] \in S
  BY LenProperties, ElementOfSeq
<1>2. \A p \in i + 1..j : s[p] \in S
  BY <1>1
<1>3. i + 1 \in Int /\ j \in Int
  OBVIOUS
<1>4. /\ SubSeq(s, i + 1, j) \in Seq(S)
      /\ Len(SubSeq(s, i + 1, j)) = IF i + 1 <= j THEN j - (i + 1) + 1 ELSE 0
      /\ \A p \in 1..j - (i + 1) + 1 : SubSeq(s, i + 1, j)[p] = s[(i + 1) + p - 1]
  BY <1>2, <1>3, SubSeqProperties
<1>5. \A p \in 1..j - i : p \in 1..j - (i + 1) + 1 /\ (i + 1) + p - 1 = i + p
  OBVIOUS
<1>6. (IF i + 1 <= j THEN j - (i + 1) + 1 ELSE 0) = IF i <= j THEN j - i ELSE 0
  OBVIOUS
<1> QED BY <1>4, <1>5, <1>6

\* a part that begins within a text and ends in it is a text of the same kind
LEMMA PartType ==
  ASSUME NEW S, NEW s \in Seq(S), NEW i \in 1..Len(s) + 1, NEW j \in Int, j <= Len(s)
  PROVE  SubSeq(s, i, j) \in Seq(S)
<1>1. Len(s) \in Nat /\ \A p \in 1..Len(s) : s[p] \in S
  BY LenProperties, ElementOfSeq
<1>2. i \in Int /\ \A p \in i..j : s[p] \in S
  BY <1>1
<1> QED BY <1>2, SubSeqProperties

LEMMA TrimType ==
  ASSUME NEW S, NEW s \in Seq(S)
  PROVE  trim_copy(s) \in Seq(S)
<1> DEFINE inner == {i \in DOMAIN s : s[i] \notin Blanks}
           lo == CHOOSE i \in inner : \A j \in inner : i <= j
           hi == CHOOSE i \in inner : \A j \in inner : j <= i
<1>1. Len(s) \in Nat /\ DOMAIN s = 1..Len(s)
  BY LenProperties
<1>2. CASE inner = {}
  <2>1. trim_copy(s) = <<>>
    BY <1>2 DEF trim_copy
  <2> QED BY <2>1, EmptySeq
<1>3. CASE inner # {}
  <2>1. trim_copy(s) = SubSeq(s, lo, hi)
    BY <1>3 DEF trim_copy
  <2>2. inner \in SUBSET (1..Len(s)) /\ 1 \in Int /\ Len(s) \in Int
    BY <1>1
  <2>3. lo \in inner /\ hi \in inner
    <3> DEFINE I == inner
    <3>1. I # {} /\ I \in SUBSET (1..Len(s))
      BY <1>3, <2>2
    <3> HIDE DEF I
    <3>2. (\E i \in I : \A j \in I : i <= j) /\ (\E i \in I : \A j \in I : j <= i)
      BY <2>2, <3>1, Smallest, Greatest
    <3> QED BY <3>2 DEF I
  <2> HIDE DEF lo, hi
  <2>4. lo \in 1..Len(s) + 1 /\ hi \in Int /\ hi <= Len(s)
    BY <1>1, <2>2, <2>3
  <2> QED BY <2>1, <2>4, PartType
<1> QED BY <1>2, <1>3

\* nothing to trim
LEMMA TrimSame ==
  ASSUME NEW S, NEW s \in Seq(S), s # <<>>, s[1] \notin Blanks, s[Len(s)] \notin Blanks
  PROVE  trim_copy(s) = s
<1> DEFINE inner == {i \in DOMAIN s : s[i] \notin Blanks}
           lo == CHOOSE i \in inner : \A j \in inner : i <= j
           hi == CHOOSE i \in inner : \A j \in inner : j <= i
<1>1. Len(s) \in Nat /\ DOMAIN s = 1..Len(s) /\ 1 \in 1..Len(s) /\ Len(s) \in 1..Len(s)
  BY LenProperties, EmptySeq
<1>2. 1 \in inner /\ Len(s) \in inner /\ \A j \in inner : j \in 1..Len(s)
  BY <1>1
<1>3. trim_copy(s) = SubSeq(s, lo, hi)
  BY <1>2 DEF trim_copy
<1> HIDE DEF inner
<1>4. lo = 1
  <2>1. \A j \in inner : 1 <= j
    BY <1>2
  <2>2. lo \in inner /\ \A j \in inner : lo <= j
    BY <1>2, <2>1
  <2> HIDE DEF lo
  <2>3. lo <= 1 /\ 1 <= lo /\ lo \in 1..Len(s)
    BY <1>2, <2>1, <2>2
  <2> QED BY <1>1, <2>3
<1>5. hi = Len(s)
  <2>1. \A j \in inner : j <= Len(s)
    BY <1>1, <1>2
  <2>2. hi \in inner /\ \A j \in inner : j <= hi
    BY <1>2, <2>1
  <2> HIDE DEF hi
  <2>3. hi <= Len(s) /\ Len(s) <= hi /\ hi \in 1..Len(s)
    BY <1>2, <2>1, <2>2
  <2>4. \A m \in Nat : \A h \in 1..m : h <= m /\ m <= h => h = m
    OBVIOUS
  <2> QED BY ONLY <1>1, <2>3, <2>4
<1> QED BY <1>3, <1>4, <1>5, SubSeqFull

----------------------------------------------------------------------------
(* Parts() *)

\* the parts that end in a separator, or go on with a character
Longer(parts, c, d) ==
  IF c = d THEN Append(parts, <<>>) ELSE [parts EXCEPT ![Len(parts)] = Append(@, c)]

\* read has the parts of the beginnings of s
Reading(read, s, d, S) ==
  /\ read \in [0..Len(s) -> Seq(Seq(S)) \ {<<>>}]
  /\ read[0] = << <<>> >>
  /\ \A i \in 1..Len(s) : read[i] = Longer(read[i - 1], s[i], d)

LEMMA LongerType ==
  ASSUME NEW S, NEW parts \in Seq(Seq(S)) \ {<<>>}, NEW c \in S, NEW d
  PROVE  Longer(parts, c, d) \in Seq(Seq(S)) \ {<<>>}
<1> DEFINE n == Len(parts)
           V == Seq(S)
<1>1. n \in Nat /\ n \in 1..n /\ DOMAIN parts = 1..n /\ n # 0
  BY LenProperties, EmptySeq
<1>2. parts[n] \in V /\ <<>> \in V /\ parts \in Seq(V)
  BY <1>1, ElementOfSeq, EmptySeq
<1>3. Append(parts[n], c) \in V
  BY <1>2, AppendProperties
<1> HIDE DEF V
<1>4. CASE c = d
  <2>1. Longer(parts, c, d) = Append(parts, <<>>)
    BY <1>4 DEF Longer
  <2>2. Append(parts, <<>>) \in Seq(V) /\ Len(Append(parts, <<>>)) = n + 1
    BY <1>2, AppendProperties
  <2>3. Append(parts, <<>>) # <<>>
    BY <1>1, <2>2, EmptySeq
  <2> QED BY <1>4, <2>1, <2>2, <2>3 DEF V
<1>5. CASE c # d
  <2> DEFINE e == Append(parts[n], c)
             x == [parts EXCEPT ![n] = e]
  <2>1. Longer(parts, c, d) = x
    BY <1>5 DEF Longer
  <2>2. e \in V
    BY <1>3
  <2> HIDE DEF e
  <2>3. x \in Seq(V) /\ Len(x) = n
    BY <1>1, <1>2, <2>2, ExceptSeq
  <2>4. x # <<>>
    BY <1>1, <2>3, EmptySeq
  <2> QED BY <1>5, <2>1, <2>3, <2>4 DEF V
<1> QED BY <1>4, <1>5

LEMMA LongerAppend ==
  ASSUME NEW S, NEW before \in Seq(Seq(S)), NEW a \in Seq(S), NEW c \in S, NEW d, c # d
  PROVE  Longer(Append(before, a), c, d) = Append(before, Append(a, c))
<1> DEFINE V == Seq(S)
           m == Len(before)
           b == Append(a, c)
           p == Append(before, a)
           x == Append(before, b)
           l == [p EXCEPT ![m + 1] = b]
<1>1. b \in V /\ a \in V /\ before \in Seq(V) /\ m \in Nat
  BY AppendProperties, LenProperties
<1> HIDE DEF V
<1>2. p \in Seq(V) /\ Len(p) = m + 1 /\ p[m + 1] = a /\ \A k \in 1..m : p[k] = before[k]
  BY <1>1, AppendProperties
<1>3. Longer(p, c, d) = l
  BY <1>2 DEF Longer
<1> HIDE DEF b
<1>4. x \in Seq(V) /\ Len(x) = m + 1 /\ x[m + 1] = b /\ \A k \in 1..m : x[k] = before[k]
  BY <1>1, AppendProperties
<1> HIDE DEF p, x
<1>5. l \in Seq(V) /\ Len(l) = m + 1 /\ \A k \in 1..m + 1 : l[k] = IF k = m + 1 THEN b ELSE p[k]
  <2>1. m + 1 \in 1..Len(p)
    BY <1>1, <1>2
  <2> HIDE DEF m
  <2> QED BY <1>1, <1>2, <2>1, ExceptSeq
<1> HIDE DEF l
<1>6. ASSUME NEW k \in 1..m + 1 PROVE l[k] = x[k]
  <2>1. CASE k = m + 1
    BY <1>4, <1>5, <2>1
  <2>2. CASE k # m + 1
    <3>1. k \in 1..m
      BY <1>1, <2>2
    <3> QED BY <1>2, <1>4, <1>5, <2>2, <3>1
  <2> QED BY <2>1, <2>2
<1>7. l = x
  BY <1>4, <1>5, <1>6, SeqEqual
<1> QED BY <1>3, <1>7 DEF p, x, b

LEMMA ReadingExists ==
  ASSUME NEW S, NEW s \in Seq(S), NEW d
  PROVE  \E read : Reading(read, s, d, S)
<1> DEFINE n == Len(s)
           V == Seq(Seq(S)) \ {<<>>}
           first == << <<>> >>
           next == [i \in 1..n |-> [v \in V |-> Longer(v, s[i], d)]]
<1>1. n \in Nat /\ \A i \in 1..n : s[i] \in S
  BY LenProperties, ElementOfSeq
<1>2. first \in V
  OBVIOUS
<1>3. \A i \in 1..n : \A v \in V : next[i][v] = Longer(v, s[i], d)
  OBVIOUS
<1>4. \A i \in 1..n : \A v \in V : Longer(v, s[i], d) \in V
  BY <1>1, LongerType
<1>5. \A i \in 1..n : \A v \in V : next[i][v] \in V
  BY <1>3, <1>4
<1> HIDE DEF next, n, V, first
<1>6. PICK f : Forward(f, n, V, first, next)
  BY ONLY <1>1, <1>2, <1>5, ForwardFunction
<1>7. f \in [0..n -> V] /\ f[0] = first /\ \A i \in 1..n : f[i] = next[i][f[i - 1]]
  BY <1>6 DEF Forward
<1>8. ASSUME NEW i \in 1..n PROVE f[i] = Longer(f[i - 1], s[i], d)
  <2>1. i - 1 \in 0..n
    BY <1>1
  <2> QED BY <1>3, <1>7, <2>1
<1> QED BY <1>7, <1>8 DEF Reading, n, V, first

LEMMA PartsRead ==
  ASSUME NEW S, NEW s \in Seq(S), NEW d, NEW read, Reading(read, s, d, S)
  PROVE  Parts(s, d) = read[Len(s)]
<1> DEFINE n == Len(s)
           Eq(f) == f = [i \in 0..n |-> IF i = 0 THEN << <<>> >> ELSE Longer(f[i - 1], s[i], d)]
           g == CHOOSE f : Eq(f)
<1>1. n \in Nat
  BY LenProperties
<1>2. Parts(s, d) = g[n]
  BY Zenon DEF Parts, Longer
<1>3. Eq(read)
  <2>1. read = [i \in 0..n |-> read[i]]
    BY DEF Reading
  <2>2. ASSUME NEW i \in 0..n
        PROVE  read[i] = IF i = 0 THEN << <<>> >> ELSE Longer(read[i - 1], s[i], d)
    <3>1. i = 0 \/ i \in 1..n
      BY <1>1
    <3>2. i \in 1..n => i # 0
      OBVIOUS
    <3> QED BY <3>1, <3>2 DEF Reading
  <2> QED BY <2>1, <2>2
<1>4. Eq(g)
  BY <1>3
<1> HIDE DEF g
<1>5. \A i \in 0..n : g[i] = IF i = 0 THEN << <<>> >> ELSE Longer(g[i - 1], s[i], d)
  BY <1>4
<1> DEFINE T == {i \in 0..n : g[i] = read[i]}
<1>6. ASSUME NEW i \in 0..n, \A j \in 0..i - 1 : j \in T PROVE i \in T
  <2>1. CASE i = 0
    BY <1>5, <2>1 DEF Reading
  <2>2. CASE i # 0
    <3>1. i \in 1..n /\ i - 1 \in 0..i - 1
      BY <1>1, <2>2
    <3>2. g[i - 1] = read[i - 1]
      BY <1>6, <3>1
    <3> QED BY <1>5, <2>2, <3>1, <3>2 DEF Reading
  <2> QED BY <2>1, <2>2
<1>7. \A i \in 0..n : i \in T
  <2> HIDE DEF T
  <2>1. 0 \in Int /\ n \in Int
    BY <1>1
  <2>2. \A i \in 0..n : (\A j \in 0..i - 1 : j \in T) => i \in T
    BY <1>6
  <2> QED BY ONLY <2>1, <2>2, Upwards
<1>8. n \in T
  BY <1>1, <1>7
<1> QED BY <1>2, <1>8

LEMMA PartsType ==
  ASSUME NEW S, NEW s \in Seq(S), NEW d
  PROVE  Parts(s, d) \in Seq(Seq(S)) \ {<<>>}
<1>1. PICK read : Reading(read, s, d, S)
  BY ReadingExists
<1>2. Len(s) \in 0..Len(s)
  BY LenProperties
<1> QED BY <1>1, <1>2, PartsRead, SMTT(30) DEF Reading

LEMMA PartsNone ==
  ASSUME NEW d
  PROVE  Parts(<<>>, d) = << <<>> >>
<1> DEFINE s == <<>>
<1>1. s \in Seq(Nat) /\ Len(s) = 0
  BY EmptySeq
<1> HIDE DEF s
<1>2. PICK read : Reading(read, s, d, Nat)
  BY <1>1, ReadingExists
<1>3. Parts(s, d) = read[Len(s)]
  BY <1>1, <1>2, PartsRead
<1>4. read[0] = << <<>> >>
  BY <1>2 DEF Reading
<1> QED BY <1>1, <1>3, <1>4 DEF s

LEMMA PartsAppend ==
  ASSUME NEW S, NEW s \in Seq(S), NEW c \in S, NEW d
  PROVE  Parts(Append(s, c), d) = Longer(Parts(s, d), c, d)
<1> DEFINE n == Len(s)
           x == Append(s, c)
<1>1. n \in Nat /\ x \in Seq(S) /\ Len(x) = n + 1 /\ x[n + 1] = c /\ \A i \in 1..n : x[i] = s[i]
  BY LenProperties, AppendProperties
<1> HIDE DEF x
<1>2. PICK read : Reading(read, x, d, S)
  BY <1>1, ReadingExists
<1> DEFINE r == [i \in 0..n |-> read[i]]
<1>3. read[n + 1] = Longer(read[n], c, d)
  <2>1. n + 1 \in 1..Len(x) /\ (n + 1) - 1 = n
    BY <1>1
  <2> QED BY <1>1, <1>2, <2>1 DEF Reading
<1>4. Reading(r, s, d, S)
  <2>1. ASSUME NEW i \in 0..n PROVE r[i] \in Seq(Seq(S)) \ {<<>>}
    <3>1. i \in 0..Len(x)
      BY <1>1
    <3>2. read[i] \in Seq(Seq(S)) \ {<<>>}
      BY <1>2, <3>1 DEF Reading
    <3> QED BY <3>2
  <2>2. r[0] = << <<>> >>
    BY <1>1, <1>2 DEF Reading
  <2>3. ASSUME NEW i \in 1..n PROVE r[i] = Longer(r[i - 1], s[i], d)
    <3>1. i \in 0..n /\ i - 1 \in 0..n /\ i \in 1..Len(x)
      BY <1>1
    <3>2. r[i] = read[i] /\ r[i - 1] = read[i - 1]
      BY <3>1
    <3> QED BY <1>1, <1>2, <3>1, <3>2 DEF Reading
  <2>4. r \in [0..n -> Seq(Seq(S)) \ {<<>>}]
    BY <2>1
  <2> QED BY <2>2, <2>3, <2>4 DEF Reading
<1>5. Parts(s, d) = read[n]
  <2>1. Parts(s, d) = r[n]
    BY <1>4, PartsRead
  <2> QED BY <1>1, <2>1
<1> QED BY <1>1, <1>2, <1>3, <1>5, PartsRead DEF x

\* a word without the separator goes on where the parts ended
Without(w, d) == \A i \in 1..Len(w) : w[i] # d

\* an empty part follows these
Before(s, d, before) == Parts(s, d) = Append(before, <<>>)

LEMMA PartsWord ==
  ASSUME NEW S, NEW s \in Seq(S), NEW d, NEW w \in Seq(S), Without(w, d),
         NEW before \in Seq(Seq(S)), Before(s, d, before)
  PROVE  Parts(s \o w, d) = Append(before, w)
<1> DEFINE n == Len(w)
           m == Len(before)
           T == {i \in 0..n : Parts(s \o SubSeq(w, 1, i), d) = Append(before, SubSeq(w, 1, i))}
<1>1. n \in Nat /\ m \in Nat
  BY LenProperties
<1>2. ASSUME NEW i \in 0..n, \A j \in 0..i - 1 : j \in T PROVE i \in T
  <2>1. CASE i = 0
    <3>1. SubSeq(w, 1, 0) = <<>> /\ s \o <<>> = s
      BY SubSeqEmpty, ConcatEmptySeq
    <3> QED BY <2>1, <3>1 DEF Before
  <2>2. CASE i # 0
    <3> DEFINE a == SubSeq(w, 1, i - 1)
               b == SubSeq(w, 1, i)
    <3>1. i \in 1..n /\ i - 1 \in 0..i - 1 /\ 1 \in 1..Len(w) /\ i \in 1..Len(w)
      BY <1>1, <2>2
    <3>2. b = a \o <<w[i]>>
      BY <3>1, SubSeqRecursiveSecond
    <3>3. a \in Seq(S) /\ w[i] \in S
      <4>1. i - 1 \in Int /\ i - 1 <= Len(w) /\ 1 \in 1..Len(w) + 1
        BY <1>1, <3>1
      <4> QED BY <3>1, <4>1, PartType, ElementOfSeq
    <3>4. Parts(s \o a, d) = Append(before, a)
      BY <1>2, <3>1
    <3> HIDE DEF a, b
    <3>5. s \o b = Append(s \o a, w[i]) /\ s \o a \in Seq(S) /\ b = Append(a, w[i])
      <4>1. s \o a \in Seq(S)
        BY <3>3, ConcatProperties
      <4> DEFINE c == <<w[i]>>
      <4>2. c \in Seq(S)
        BY <3>3
      <4>3. Append(s \o a, w[i]) = (s \o a) \o c /\ Append(a, w[i]) = a \o c
        BY <3>3, <4>1, AppendIsConcat
      <4> HIDE DEF c
      <4>4. (s \o a) \o c = s \o (a \o c)
        <5>1. s \in Seq(S) /\ a \in Seq(S) /\ c \in Seq(S)
          BY <3>3, <4>2
        <5> QED BY ONLY <5>1, ConcatAssociative
      <4> QED BY <3>2, <4>1, <4>3, <4>4 DEF c
    <3>6. Parts(s \o b, d) = Longer(Append(before, a), w[i], d)
      BY <3>3, <3>4, <3>5, PartsAppend
    <3>7. w[i] # d
      BY <3>1 DEF Without
    <3>8. Longer(Append(before, a), w[i], d) = Append(before, Append(a, w[i]))
      <4> DEFINE c == w[i]
      <4>1. c \in S /\ c # d
        BY <3>3, <3>7
      <4> HIDE DEF c
      <4>2. Longer(Append(before, a), c, d) = Append(before, Append(a, c))
        BY <3>3, <4>1, LongerAppend
      <4> QED BY <4>2 DEF c
    <3> QED BY <3>5, <3>6, <3>8 DEF b
  <2> QED BY <2>1, <2>2
<1>3. \A i \in 0..n : i \in T
  <2> HIDE DEF T
  <2>1. 0 \in Int /\ n \in Int
    BY <1>1
  <2>2. \A i \in 0..n : (\A j \in 0..i - 1 : j \in T) => i \in T
    BY <1>2
  <2> QED BY ONLY <2>1, <2>2, Upwards
<1>4. n \in T
  BY <1>1, <1>3
<1> QED BY <1>4, SubSeqFull

\* words of another text, with the separator between them
Joined(ws, d) == FlattenSeq([k \in DOMAIN ws |-> (IF k = 1 THEN <<>> ELSE <<d>>) \o ws[k]])

LEMMA PartsJoined ==
  ASSUME NEW S, NEW d \in S, NEW ws \in Seq(Seq(S)), ws # <<>>,
         \A k \in 1..Len(ws) : Without(ws[k], d)
  PROVE  Joined(ws, d) \in Seq(S) /\ Parts(Joined(ws, d), d) = ws
<1> DEFINE n == Len(ws)
           q == [k \in DOMAIN ws |-> (IF k = 1 THEN <<>> ELSE <<d>>) \o ws[k]]
           sep == <<d>>
<1>1. n \in Nat /\ n # 0 /\ DOMAIN ws = 1..n /\ \A k \in 1..n : ws[k] \in Seq(S)
  BY LenProperties, EmptySeq, ElementOfSeq
<1>2. sep \in Seq(S) /\ <<>> \in Seq(S)
  BY EmptySeq
<1> HIDE DEF sep
<1>3. q \in Seq(Seq(S)) /\ Len(q) = n /\ q[1] = ws[1] /\ \A k \in 2..n : q[k] = sep \o ws[k]
  <2> DEFINE e(k) == (IF k = 1 THEN <<>> ELSE sep) \o ws[k]
  <2>1. q = [k \in 1..n |-> e(k)]
    BY <1>1 DEF sep
  <2>2. e(1) = ws[1]
    <3>1. ws[1] \in Seq(S)
      BY <1>1
    <3> QED BY <3>1, ConcatEmptySeq
  <2>3. ASSUME NEW k \in 2..n PROVE e(k) = sep \o ws[k]
    <3>1. k # 1
      OBVIOUS
    <3> QED BY <3>1
  <2>4. ASSUME NEW k \in 1..n PROVE e(k) \in Seq(S)
    <3>1. ws[k] \in Seq(S)
      BY <1>1
    <3>2. CASE k = 1
      BY <2>2, <3>1, <3>2
    <3>3. CASE k # 1
      <4>1. sep \o ws[k] \in Seq(S)
        BY <1>2, <3>1, ConcatProperties
      <4> QED BY <3>3, <4>1
    <3> QED BY <3>2, <3>3
  <2> HIDE DEF e, q
  <2>5. q \in Seq(Seq(S)) /\ Len(q) = n
    BY <1>1, <2>1, <2>4
  <2>6. \A k \in 1..n : q[k] = e(k)
    BY <2>1
  <2>7. 1 \in 1..n /\ \A k \in 2..n : k \in 1..n
    BY <1>1
  <2> QED BY <2>2, <2>3, <2>5, <2>6, <2>7
<1> HIDE DEF q
<1>4. PICK f : Joins(f, q, S)
  BY <1>3, JoinsExist
<1>5. Joined(ws, d) = f[n]
  BY <1>3, <1>4, JoinsFlat DEF Joined, q
<1>6. \A k \in 0..n : f[k] \in Seq(S)
  BY <1>3, <1>4 DEF Joins
<1> DEFINE T == {k \in 1..n : Parts(f[k], d) = SubSeq(ws, 1, k)}
<1>7. ASSUME NEW k \in 1..n, \A j \in 1..k - 1 : j \in T PROVE k \in T
  <2>1. f[k] = f[k - 1] \o q[k] /\ k - 1 \in 0..n /\ f[k - 1] \in Seq(S) /\ ws[k] \in Seq(S)
    <3>1. k - 1 \in 0..n /\ k \in 1..Len(q)
      BY <1>1, <1>3
    <3> QED BY <1>1, <1>4, <1>6, <3>1 DEF Joins
  <2>2. SubSeq(ws, 1, k) = Append(SubSeq(ws, 1, k - 1), ws[k]) /\ SubSeq(ws, 1, k - 1) \in Seq(Seq(S))
    <3> DEFINE V == Seq(S)
    <3>0. ws \in Seq(V)
      OBVIOUS
    <3> HIDE DEF V
    <3>1. 1 \in 1..Len(ws) /\ k \in 1..Len(ws) /\ 1 \in 1..Len(ws) + 1 /\ k - 1 \in Int /\ k - 1 <= Len(ws)
      BY <1>1
    <3>2. SubSeq(ws, 1, k) = SubSeq(ws, 1, k - 1) \o <<ws[k]>>
      BY <3>0, <3>1, SubSeqRecursiveSecond
    <3>3. SubSeq(ws, 1, k - 1) \in Seq(V) /\ ws[k] \in V
      BY <3>0, <3>1, PartType, ElementOfSeq
    <3> QED BY <3>2, <3>3, AppendIsConcat DEF V
  <2>3. CASE k = 1
    <3>1. f[1] = ws[1] /\ SubSeq(ws, 1, 0) = <<>>
      <4>1. f[0] = <<>> /\ 1 - 1 = 0
        BY <1>4 DEF Joins
      <4>2. f[1] = <<>> \o ws[1]
        BY <1>3, <2>1, <2>3, <4>1
      <4> QED BY <2>1, <2>3, <4>2, ConcatEmptySeq, SubSeqEmpty
    <3>2. Parts(<<>>, d) = Append(<<>>, <<>>)
      BY PartsNone
    <3> DEFINE none == <<>>
    <3>3. none \in Seq(Seq(S)) /\ none \in Seq(S) /\ Before(none, d, none)
      BY <3>2, EmptySeq DEF Before
    <3> HIDE DEF none
    <3>4. Parts(none \o ws[k], d) = Append(none, ws[k])
      <4>1. Without(ws[k], d)
        OBVIOUS
      <4> DEFINE w == ws[k]
      <4>2. w \in Seq(S) /\ Without(w, d)
        BY <2>1, <4>1
      <4> HIDE DEF w
      <4>3. Parts(none \o w, d) = Append(none, w)
        BY ONLY <3>3, <4>2, PartsWord
      <4> QED BY <4>3 DEF w
    <3>5. none \o ws[k] = f[k]
      BY <2>1, <2>3, <3>1, ConcatEmptySeq DEF none
    <3> QED BY <2>2, <2>3, <3>1, <3>4, <3>5 DEF none
  <2>4. CASE k # 1
    <3>1. k - 1 \in T /\ k \in 2..n
      BY <1>1, <1>7, <2>4
    <3> DEFINE before == SubSeq(ws, 1, k - 1)
               a == f[k - 1]
    <3>2. Parts(a, d) = before /\ before \in Seq(Seq(S)) /\ a \in Seq(S)
      BY <2>1, <2>2, <3>1
    <3> HIDE DEF before, a
    <3>3. f[k] = a \o (sep \o ws[k])
      BY <1>3, <2>1, <3>1 DEF a
    <3>4. f[k] = Append(a, d) \o ws[k] /\ Append(a, d) \in Seq(S)
      <4>1. (a \o sep) \o ws[k] = a \o (sep \o ws[k])
        <5> DEFINE w == ws[k]
        <5>1. w \in Seq(S) /\ a \in Seq(S) /\ sep \in Seq(S)
          BY <1>2, <2>1, <3>2
        <5> HIDE DEF w
        <5>2. (a \o sep) \o w = a \o (sep \o w)
          BY ONLY <5>1, ConcatAssociative, SMTT(30)
        <5> QED BY <5>2 DEF w
      <4>2. Append(a, d) = a \o sep
        BY <3>2, AppendIsConcat DEF sep
      <4> QED BY <3>2, <3>3, <4>1, <4>2, AppendProperties
    <3>5. Parts(Append(a, d), d) = Append(before, <<>>)
      BY <3>2, PartsAppend DEF Longer
    <3>6. Without(ws[k], d)
      OBVIOUS
    <3>7. Parts(Append(a, d) \o ws[k], d) = Append(before, ws[k])
      <4> DEFINE w == ws[k]
                 b == Append(a, d)
      <4>1. w \in Seq(S) /\ Without(w, d) /\ b \in Seq(S)
            /\ Before(b, d, before)
        BY <2>1, <3>4, <3>5, <3>6 DEF Before
      <4> HIDE DEF w, b
      <4>2. Parts(b \o w, d) = Append(before, w)
        BY ONLY <3>2, <4>1, PartsWord
      <4> QED BY <4>2 DEF w, b
    <3> QED BY <2>2, <3>4, <3>7 DEF before
  <2> QED BY <2>3, <2>4
<1>8. \A k \in 1..n : k \in T
  <2> HIDE DEF T
  <2>1. 1 \in Int /\ n \in Int
    BY <1>1
  <2>2. \A k \in 1..n : (\A j \in 1..k - 1 : j \in T) => k \in T
    BY <1>7
  <2> QED BY ONLY <2>1, <2>2, Upwards
<1>9. n \in T /\ n \in 0..n
  BY <1>1, <1>8
<1>10. SubSeq(ws, 1, n) = ws
  <2> DEFINE V == Seq(S)
  <2>1. ws \in Seq(V)
    OBVIOUS
  <2> HIDE DEF V
  <2> QED BY <2>1, SubSeqFull
<1> QED BY <1>5, <1>6, <1>9, <1>10

----------------------------------------------------------------------------
(* decode_url() *)

\* the number that n hexadecimal digits make
HexValue(f, s, i, n) ==
  f \in [0..n -> Nat] /\ f[0] = 0 /\ \A k \in 1..n : f[k] = f[k - 1] * 16 + is_hex(s[i + k - 1])

LEMMA HexType ==
  ASSUME NEW c \in HexDigit
  PROVE  is_hex(c) \in 0..15
BY DEF HexDigit, Digit, is_hex

LEMMA HexExists ==
  ASSUME NEW s, NEW i \in Nat, NEW n \in Nat, \A k \in 1..n : s[i + k - 1] \in HexDigit
  PROVE  \E f : HexValue(f, s, i, n)
<1> DEFINE V == Nat
           next == [k \in 1..n |-> [v \in V |-> v * 16 + is_hex(s[i + k - 1])]]
<1>1. \A k \in 1..n : \A v \in V : next[k][v] = v * 16 + is_hex(s[i + k - 1])
  OBVIOUS
<1>2. \A k \in 1..n : \A v \in V : v * 16 + is_hex(s[i + k - 1]) \in V
  <2>1. \A k \in 1..n : is_hex(s[i + k - 1]) \in 0..15
    BY HexType
  <2> QED BY <2>1
<1>3. \A k \in 1..n : \A v \in V : next[k][v] \in V
  BY <1>1, <1>2
<1>4. 0 \in V
  OBVIOUS
<1> HIDE DEF next, V
<1>5. PICK f : Forward(f, n, V, 0, next)
  <2>1. n \in Nat
    OBVIOUS
  <2> QED BY ONLY <1>3, <1>4, <2>1, ForwardFunction
<1>6. f \in [0..n -> V] /\ f[0] = 0 /\ \A k \in 1..n : f[k] = next[k][f[k - 1]]
  BY <1>5 DEF Forward
<1>7. ASSUME NEW k \in 1..n PROVE f[k] = f[k - 1] * 16 + is_hex(s[i + k - 1])
  <2>1. k - 1 \in 0..n
    OBVIOUS
  <2> QED BY <1>1, <1>6, <2>1
<1> QED BY <1>6, <1>7 DEF HexValue, V

LEMMA HexRead ==
  ASSUME NEW s, NEW i \in Nat, NEW n \in Nat, NEW f, HexValue(f, s, i, n)
  PROVE  from_hex_to_i(s, i, n) = f[n]
<1> DEFINE Eq(g) == g = [k \in 0..n |-> IF k = 0 THEN 0 ELSE g[k - 1] * 16 + is_hex(s[i + k - 1])]
           g == CHOOSE g : Eq(g)
<1>1. from_hex_to_i(s, i, n) = g[n]
  BY Zenon DEF from_hex_to_i
<1>2. Eq(f)
  <2>1. f = [k \in 0..n |-> f[k]]
    BY DEF HexValue
  <2>2. ASSUME NEW k \in 0..n PROVE f[k] = IF k = 0 THEN 0 ELSE f[k - 1] * 16 + is_hex(s[i + k - 1])
    <3>1. k = 0 \/ (k # 0 /\ k \in 1..n)
      OBVIOUS
    <3> QED BY <3>1 DEF HexValue
  <2> QED BY <2>1, <2>2
<1>3. Eq(g)
  BY <1>2
<1> HIDE DEF g
<1>4. \A k \in 0..n : g[k] = IF k = 0 THEN 0 ELSE g[k - 1] * 16 + is_hex(s[i + k - 1])
  BY <1>3
<1> DEFINE T == {k \in 0..n : g[k] = f[k]}
<1>5. ASSUME NEW k \in 0..n, \A j \in 0..k - 1 : j \in T PROVE k \in T
  <2>1. CASE k = 0
    BY <1>4, <2>1 DEF HexValue
  <2>2. CASE k # 0
    <3>1. k \in 1..n /\ k - 1 \in 0..k - 1
      BY <2>2
    <3>2. g[k - 1] = f[k - 1]
      BY <1>5, <3>1
    <3> QED BY <1>4, <2>2, <3>1, <3>2 DEF HexValue
  <2> QED BY <2>1, <2>2
<1>6. \A k \in 0..n : k \in T
  <2> HIDE DEF T
  <2>1. 0 \in Int /\ n \in Int
    OBVIOUS
  <2>2. \A k \in 0..n : (\A j \in 0..k - 1 : j \in T) => k \in T
    BY <1>5
  <2> QED BY ONLY <2>1, <2>2, Upwards
<1>7. n \in T
  BY <1>6
<1> QED BY <1>1, <1>7

\* how far an escape, or a character, goes
Width(s, i) == IF EscapeLength(s, i) = 0 THEN 1 ELSE EscapeLength(s, i)

LEMMA EscapeFits ==
  ASSUME NEW s \in Seq(Nat), NEW i \in 1..Len(s)
  PROVE  /\ EscapeLength(s, i) \in {0, 3, 6}
         /\ i + Width(s, i) \in i + 1..Len(s) + 1
         /\ EscapeLength(s, i) = 3 => \A k \in 1..2 : s[i + 1 + k - 1] \in HexDigit
         /\ EscapeLength(s, i) = 6 => \A k \in 1..4 : s[i + 2 + k - 1] \in HexDigit
<1>1. Len(s) \in Nat
  BY LenProperties
<1>2. CASE EscapeLength(s, i) = 0
  BY <1>1, <1>2 DEF Width
<1>3. CASE EscapeLength(s, i) # 0
  <2>1. \/ EscapeLength(s, i) = 3 /\ IsNumber(s, i + 1, 2)
        \/ EscapeLength(s, i) = 6 /\ IsNumber(s, i + 2, 4)
    BY <1>3 DEF EscapeLength
  <2>2. CASE EscapeLength(s, i) = 3 /\ IsNumber(s, i + 1, 2)
    <3>1. (i + 1) + 2 - 1 <= Len(s) /\ \A j \in i + 1..(i + 1) + 2 - 1 : s[j] \in HexDigit
      BY <2>2 DEF IsNumber
    <3>2. \A k \in 1..2 : i + 1 + k - 1 \in i + 1..(i + 1) + 2 - 1
      OBVIOUS
    <3>3. Width(s, i) = 3 /\ i + 3 \in i + 1..Len(s) + 1
      BY <1>1, <2>2, <3>1 DEF Width
    <3> QED BY <2>2, <3>1, <3>2, <3>3
  <2>3. CASE EscapeLength(s, i) = 6 /\ IsNumber(s, i + 2, 4)
    <3>1. (i + 2) + 4 - 1 <= Len(s) /\ \A j \in i + 2..(i + 2) + 4 - 1 : s[j] \in HexDigit
      BY <2>3 DEF IsNumber
    <3>2. \A k \in 1..4 : i + 2 + k - 1 \in i + 2..(i + 2) + 4 - 1
      OBVIOUS
    <3>3. Width(s, i) = 6 /\ i + 6 \in i + 1..Len(s) + 1
      BY <1>1, <2>3, <3>1 DEF Width
    <3> QED BY <2>3, <3>1, <3>2, <3>3
  <2> QED BY <2>1, <2>2, <2>3
<1> QED BY <1>2, <1>3

LEMMA Utf8Type ==
  ASSUME NEW n \in Nat
  PROVE  to_utf8(n) \in Seq(Nat)
<1>1. n \div 64 \in Nat /\ n % 64 \in Nat /\ n \div 4096 \in Nat /\ (n \div 64) % 64 \in Nat
  OBVIOUS
<1> DEFINE a == 192 + (n \div 64)
           b == 128 + (n % 64)
           c == 224 + (n \div 4096)
           e == 128 + ((n \div 64) % 64)
<1>2. a \in Nat /\ b \in Nat /\ c \in Nat /\ e \in Nat
  BY <1>1
<1>3. to_utf8(n) = IF n < 128 THEN <<n>> ELSE IF n < 2048 THEN <<a, b>>
                   ELSE IF n \in 55296..57343 THEN <<>> ELSE <<c, e, b>>
  BY DEF to_utf8
<1> HIDE DEF a, b, c, e
<1>4. <<n>> \in Seq(Nat) /\ <<a, b>> \in Seq(Nat) /\ <<>> \in Seq(Nat) /\ <<c, e, b>> \in Seq(Nat)
  BY <1>2
<1> QED BY <1>3, <1>4

LEMMA UnescapedType ==
  ASSUME NEW s \in Seq(Nat), NEW i \in 1..Len(s), NEW plus
  PROVE  Unescaped(s, i, plus) \in Seq(Nat)
<1>1. /\ EscapeLength(s, i) \in {0, 3, 6}
      /\ EscapeLength(s, i) = 3 => \A k \in 1..2 : s[i + 1 + k - 1] \in HexDigit
      /\ EscapeLength(s, i) = 6 => \A k \in 1..4 : s[i + 2 + k - 1] \in HexDigit
  BY EscapeFits
<1>2. s[i] \in Nat /\ <<s[i]>> \in Seq(Nat) /\ <<Space>> \in Seq(Nat)
  BY ElementOfSeq DEF Space
<1>3. ASSUME NEW m \in Nat, NEW n \in Nat, \A k \in 1..n : s[m + k - 1] \in HexDigit
      PROVE  from_hex_to_i(s, m, n) \in Nat
  <2>1. PICK f : HexValue(f, s, m, n)
    BY <1>3, HexExists
  <2>2. from_hex_to_i(s, m, n) = f[n]
    BY <2>1, HexRead
  <2> QED BY <2>1, <2>2 DEF HexValue
<1>4. CASE EscapeLength(s, i) = 0
  BY <1>2, <1>4 DEF Unescaped
<1>5. CASE EscapeLength(s, i) = 3
  <2>1. i + 1 \in Nat /\ 2 \in Nat
    OBVIOUS
  <2>2. from_hex_to_i(s, i + 1, 2) \in Nat
    BY <1>1, <1>3, <1>5, <2>1
  <2> DEFINE v == from_hex_to_i(s, i + 1, 2)
  <2>3. Unescaped(s, i, plus) = <<v>>
    BY <1>5 DEF Unescaped
  <2>4. v \in Nat
    BY <2>2
  <2> HIDE DEF v
  <2> QED BY <2>3, <2>4
<1>6. CASE EscapeLength(s, i) = 6
  <2>1. i + 2 \in Nat /\ 4 \in Nat
    OBVIOUS
  <2>2. from_hex_to_i(s, i + 2, 4) \in Nat
    BY <1>1, <1>3, <1>6, <2>1
  <2>3. Unescaped(s, i, plus) = to_utf8(from_hex_to_i(s, i + 2, 4))
    BY <1>6 DEF Unescaped
  <2> QED BY <2>2, <2>3, Utf8Type
<1> QED BY <1>1, <1>4, <1>5, <1>6

\* from has what the ends of s are decoded to
Decoding(from, s, plus) ==
  /\ from \in [1..Len(s) + 1 -> Seq(Nat)]
  /\ from[Len(s) + 1] = <<>>
  /\ \A i \in 1..Len(s) : from[i] = Unescaped(s, i, plus) \o from[i + Width(s, i)]

LEMMA DecodingExists ==
  ASSUME NEW s \in Seq(Nat), NEW plus
  PROVE  \E from : Decoding(from, s, plus) /\ decode_url(s, plus) = from[1]
<1> DEFINE n == Len(s)
           hi == n + 1
           V == Seq(Nat)
           made(i, f) == IF i > n THEN <<>> ELSE Unescaped(s, i, plus) \o f[i + Width(s, i)]
           from == CHOOSE f : f = [i \in 1..n + 1 |-> made(i, f)]
           step == [i \in 1..hi |-> [f \in [1..hi -> V] |-> made(i, f)]]
<1>1. n \in Nat
  BY LenProperties
<1>2. decode_url(s, plus) = from[1]
  BY Zenon DEF decode_url, Width
<1>3. ASSUME NEW i \in 1..hi, NEW f, \A j \in i + 1..hi : f[j] \in V
      PROVE  made(i, f) \in V
  <2>1. CASE i > n
    BY <2>1, EmptySeq
  <2>2. CASE ~(i > n)
    <3>1. i \in 1..Len(s)
      BY <1>1, <2>2
    <3>2. i + Width(s, i) \in i + 1..hi /\ Unescaped(s, i, plus) \in V
      BY <3>1, EscapeFits, UnescapedType
    <3>3. Unescaped(s, i, plus) \o f[i + Width(s, i)] \in V
      BY <1>3, <3>2, ConcatProperties
    <3> QED BY <2>2, <3>3
  <2> QED BY <2>1, <2>2
<1>4. ASSUME NEW i \in 1..hi, NEW f, NEW g, \A j \in i + 1..hi : f[j] = g[j]
      PROVE  made(i, f) = made(i, g)
  <2>1. CASE i > n
    BY <2>1
  <2>2. CASE ~(i > n)
    <3>1. i \in 1..Len(s)
      BY <1>1, <2>2
    <3>2. i + Width(s, i) \in i + 1..hi
      BY <3>1, EscapeFits
    <3>3. f[i + Width(s, i)] = g[i + Width(s, i)]
      BY <1>4, <3>2
    <3> QED BY <3>3
  <2> QED BY <2>1, <2>2
<1>5. \A f : made(n + 1, f) = <<>>
  BY <1>1
<1>6. \A i \in 1..n : \A f : made(i, f) = Unescaped(s, i, plus) \o f[i + Width(s, i)]
  <2>1. \A i \in 1..n : ~(i > n)
    BY <1>1
  <2> QED BY <2>1
<1> HIDE DEF made, V
<1>7. hi \in Int /\ 1 \in Int /\ V # {} /\ \A i \in 1..hi : \A f : \A j \in i + 1..hi : j \in 1..hi
  BY <1>1 DEF V
<1>8. \E f : f = [i \in 1..n + 1 |-> made(i, f)] /\ f \in [1..n + 1 -> V]
  <2>1. \A i \in 1..hi : \A f \in [1..hi -> V] : step[i][f] = made(i, f)
    OBVIOUS
  <2> HIDE DEF step, hi
  <2>2. \A i \in 1..hi : \A f \in [1..hi -> V] : step[i][f] \in V
    BY <1>3, <1>7, <2>1
  <2>3. \A i \in 1..hi : \A f \in [1..hi -> V], g \in [1..hi -> V] :
          (\A j \in i + 1..hi : f[j] = g[j]) => step[i][f] = step[i][g]
    <3>1. ASSUME NEW i \in 1..hi, NEW f \in [1..hi -> V], NEW g \in [1..hi -> V],
                 \A j \in i + 1..hi : f[j] = g[j]
          PROVE  step[i][f] = step[i][g]
      <4>1. made(i, f) = made(i, g)
        BY <1>4, <3>1
      <4> QED BY <2>1, <4>1
    <3> QED BY <3>1
  <2>4. \E f : Backward(f, 1, hi, V, step)
    BY <1>7, <2>2, <2>3, BackwardFunction
  <2>5. PICK f : Backward(f, 1, hi, V, step)
    BY <2>4
  <2>6. f \in [1..hi -> V] /\ \A i \in 1..hi : f[i] = made(i, f)
    BY <2>1, <2>5 DEF Backward
  <2>7. f = [i \in 1..hi |-> made(i, f)]
    BY <2>6
  <2> QED BY <2>6, <2>7 DEF hi
<1>9. from = [i \in 1..n + 1 |-> made(i, from)]
  BY <1>8
<1> HIDE DEF from
<1>10. \A i \in 1..hi : from[i] = made(i, from)
  BY <1>9
<1> DEFINE T == {i \in 1..hi : from[i] \in V}
<1>11. \A i \in 1..hi : (\A j \in i + 1..hi : j \in T) => i \in T
  BY <1>3, <1>10
<1>12. \A i \in 1..hi : i \in T
  <2> HIDE DEF T, hi
  <2> QED BY ONLY <1>7, <1>11, Downwards
<1>13. Decoding(from, s, plus)
  <2>1. from \in [1..n + 1 -> V]
    BY <1>9, <1>12
  <2>2. from[n + 1] = <<>>
    BY <1>1, <1>5, <1>10
  <2>3. \A i \in 1..n : from[i] = Unescaped(s, i, plus) \o from[i + Width(s, i)]
    <3>1. \A i \in 1..n : i \in 1..hi
      BY <1>1
    <3> QED BY <1>6, <1>10, <3>1
  <2> QED BY <2>1, <2>2, <2>3 DEF Decoding, V
<1> QED BY <1>2, <1>13

LEMMA DecodeType ==
  ASSUME NEW s \in Seq(Nat), NEW plus
  PROVE  decode_url(s, plus) \in Seq(Nat)
<1>1. PICK from : Decoding(from, s, plus) /\ decode_url(s, plus) = from[1]
  BY DecodingExists
<1>2. 1 \in 1..Len(s) + 1
  BY LenProperties
<1> QED BY <1>1, <1>2 DEF Decoding

----------------------------------------------------------------------------
(* NonEmpty(), split(), divide() *)

\* some elements of x, in their order
Keeps(q, x) == /\ DOMAIN q = 1..Len(x) /\ q = [k \in 1..Len(x) |-> q[k]]
               /\ \A k \in 1..Len(x) : q[k] = <<>> \/ q[k] = <<x[k]>>

LEMMA KeepsPieces ==
  ASSUME NEW V, NEW x \in Seq(V), NEW q, Keeps(q, x)
  PROVE  q \in Seq(Seq(V)) /\ Len(q) = Len(x)
<1>1. Len(x) \in Nat /\ \A k \in 1..Len(x) : x[k] \in V
  BY LenProperties, ElementOfSeq
<1> DEFINE W == Seq(V)
<1>2. ASSUME NEW k \in 1..Len(x) PROVE q[k] \in W
  <2>1. x[k] \in V
    BY <1>1
  <2>2. <<x[k]>> \in W /\ <<>> \in W
    BY <2>1
  <2> QED BY <2>2 DEF Keeps
<1>3. q \in [1..Len(x) -> W]
  <2> HIDE DEF W
  <2> QED BY <1>2 DEF Keeps
<1> HIDE DEF W
<1>4. q \in Seq(W) /\ Len(q) = Len(x)
  BY <1>1, <1>3
<1> QED BY <1>4 DEF W

LEMMA KeepsType ==
  ASSUME NEW V, NEW x \in Seq(V), NEW q, Keeps(q, x)
  PROVE  FlattenSeq(q) \in Seq(V)
BY KeepsPieces, FlattenType

LEMMA KeepsSome ==
  ASSUME NEW V, NEW x \in Seq(V), NEW q, Keeps(q, x)
  PROVE  FlattenSeq(q) \in Seq({x[k] : k \in 1..Len(x)})
<1> DEFINE W == {x[k] : k \in 1..Len(x)}
<1>1. Len(x) \in Nat /\ x = [k \in 1..Len(x) |-> x[k]]
  BY LenProperties
<1>2. \A k \in 1..Len(x) : x[k] \in W
  OBVIOUS
<1> HIDE DEF W
<1>3. x \in Seq(W)
  BY <1>1, <1>2
<1>4. FlattenSeq(q) \in Seq(W)
  BY <1>3, KeepsType
<1> QED BY <1>4 DEF W

LEMMA NonEmptyType ==
  ASSUME NEW S, NEW parts \in Seq(Seq(S))
  PROVE  NonEmpty(parts) \in Seq(Seq(S))
<1> DEFINE V == Seq(S)
           q == [k \in DOMAIN parts |-> IF parts[k] = <<>> THEN <<>> ELSE <<parts[k]>>]
<1>1. DOMAIN parts = 1..Len(parts) /\ parts \in Seq(V)
  BY LenProperties
<1> HIDE DEF V
<1>2. Keeps(q, parts)
  BY <1>1 DEF Keeps
<1>3. FlattenSeq(q) \in Seq(V)
  <2> HIDE DEF q
  <2> QED BY <1>1, <1>2, KeepsType
<1> QED BY <1>3 DEF V, NonEmpty

LEMMA NonEmptySame ==
  ASSUME NEW S, NEW parts \in Seq(Seq(S)), \A k \in 1..Len(parts) : parts[k] # <<>>
  PROVE  NonEmpty(parts) = parts
<1> DEFINE V == Seq(S)
           q == [k \in DOMAIN parts |-> <<parts[k]>>]
<1>1. DOMAIN parts = 1..Len(parts) /\ parts \in Seq(V)
  BY LenProperties
<1>2. NonEmpty(parts) = FlattenSeq(q)
  <2>1. [k \in DOMAIN parts |-> IF parts[k] = <<>> THEN <<>> ELSE <<parts[k]>>] = q
    BY <1>1
  <2> QED BY <2>1 DEF NonEmpty
<1> HIDE DEF V
<1>3. FlattenSeq(q) = parts
  BY <1>1, FlattenOnes
<1> QED BY <1>2, <1>3

LEMMA SplitType ==
  ASSUME NEW S, NEW s \in Seq(S), NEW d
  PROVE  split(s, d) \in Seq(Seq(S))
<1> DEFINE V == Seq(S)
           p == Parts(s, d)
           t == [k \in DOMAIN p |-> trim_copy(p[k])]
<1>1. p \in Seq(V)
  BY PartsType
<1> HIDE DEF p
<1>2. Len(p) \in Nat /\ DOMAIN p = 1..Len(p) /\ \A k \in 1..Len(p) : p[k] \in V
  BY <1>1, LenProperties, ElementOfSeq
<1>3. \A k \in 1..Len(p) : trim_copy(p[k]) \in V
  BY <1>2, TrimType
<1>4. t \in Seq(V)
  <2> HIDE DEF V
  <2> QED BY <1>2, <1>3
<1>5. NonEmpty(t) \in Seq(V)
  <2> HIDE DEF t
  <2> QED BY <1>4, NonEmptyType
<1> QED BY <1>5 DEF split, p

\* parts that need no trimming are left as they are
LEMMA SplitSame ==
  ASSUME NEW S, NEW s \in Seq(S), NEW d, NEW ws \in Seq(Seq(S)), Parts(s, d) = ws,
         \A k \in 1..Len(ws) : trim_copy(ws[k]) = ws[k] /\ ws[k] # <<>>
  PROVE  split(s, d) = ws
<1>1. DOMAIN ws = 1..Len(ws) /\ ws = [k \in 1..Len(ws) |-> ws[k]]
  BY LenProperties
<1>2. [k \in DOMAIN ws |-> trim_copy(ws[k])] = ws
  BY <1>1
<1>3. split(s, d) = NonEmpty(ws)
  BY <1>2 DEF split
<1> QED BY <1>3, NonEmptySame

LEMMA DivideType ==
  ASSUME NEW S, NEW s \in Seq(S), NEW d
  PROVE  \E a \in Seq(S), b \in Seq(S) : divide(s, d) = <<a, b>>
<1>1. CASE Places(s, d) = {}
  BY <1>1, EmptySeq DEF divide
<1>2. CASE Places(s, d) # {}
  <2> DEFINE spots == Places(s, d)
             i == CHOOSE i \in spots : \A j \in spots : i <= j
  <2>1. divide(s, d) = <<SubSeq(s, 1, i - 1), SubSeq(s, i + 1, Len(s))>>
    BY <1>2 DEF divide
  <2>2. Len(s) \in Nat /\ spots \in SUBSET (1..Len(s)) /\ 1 \in Int /\ Len(s) \in Int
    BY LenProperties DEF Places
  <2>3. i \in spots
    <3>1. \E k \in spots : \A j \in spots : k <= j
      <4> HIDE DEF spots
      <4>1. spots # {}
        BY <1>2 DEF spots
      <4> QED BY <2>2, <4>1, Smallest
    <3> QED BY <3>1
  <2> HIDE DEF i, spots
  <2>4. i \in 1..Len(s)
    BY <2>2, <2>3
  <2>5. 1 \in 1..Len(s) + 1 /\ i - 1 \in Int /\ i - 1 <= Len(s) /\ i + 1 \in 1..Len(s) + 1
        /\ Len(s) \in Int /\ Len(s) <= Len(s)
    BY <2>2, <2>4
  <2>6. SubSeq(s, 1, i - 1) \in Seq(S) /\ SubSeq(s, i + 1, Len(s)) \in Seq(S)
    BY <2>5, PartType
  <2> QED BY <2>1, <2>6
<1> QED BY <1>1, <1>2

\* at the first separator
LEMMA DivideAt ==
  ASSUME NEW S, NEW a \in Seq(S), NEW b \in Seq(S), NEW d \in S, Without(a, d)
  PROVE  divide((a \o <<d>>) \o b, d) = <<a, b>>
<1> DEFINE c == <<d>>
           ac == a \o c
           s == ac \o b
           n == Len(a)
           m == Len(b)
<1>1. n \in Nat /\ m \in Nat /\ c \in Seq(S) /\ Len(c) = 1 /\ c[1] = d
  BY LenProperties
<1> HIDE DEF c
<1>2. /\ ac \in Seq(S) /\ Len(ac) = n + 1
      /\ \A p \in 1..n + 1 : ac[p] = IF p <= n THEN a[p] ELSE c[p - n]
  <2>1. /\ a \o c \in Seq(S) /\ Len(a \o c) = Len(a) + Len(c)
        /\ \A p \in 1..Len(a) + Len(c) : (a \o c)[p] = IF p <= Len(a) THEN a[p] ELSE c[p - Len(a)]
    BY <1>1, ConcatProperties
  <2> QED BY <1>1, <2>1
<1> HIDE DEF ac
<1>3. /\ s \in Seq(S) /\ Len(s) = (n + 1) + m
      /\ \A p \in 1..(n + 1) + m : s[p] = IF p <= n + 1 THEN ac[p] ELSE b[p - (n + 1)]
  <2>1. /\ ac \o b \in Seq(S) /\ Len(ac \o b) = Len(ac) + Len(b)
        /\ \A p \in 1..Len(ac) + Len(b) : (ac \o b)[p] = IF p <= Len(ac) THEN ac[p] ELSE b[p - Len(ac)]
    BY <1>2, ConcatProperties, ZenonT(30)
  <2> QED BY <1>2, <2>1
<1> HIDE DEF s
<1>4. ASSUME NEW p \in 1..n PROVE s[p] = a[p] /\ s[p] # d
  <2>1. p \in 1..n + 1 /\ p <= n /\ p \in 1..(n + 1) + m /\ p <= n + 1
    BY <1>1
  <2> QED BY <1>2, <1>3, <2>1 DEF Without
<1>5. s[n + 1] = d
  <2>1. n + 1 \in 1..n + 1 /\ ~(n + 1 <= n) /\ n + 1 \in 1..(n + 1) + m /\ n + 1 <= n + 1 /\ (n + 1) - n = 1
    BY <1>1
  <2> QED BY <1>1, <1>2, <1>3, <2>1
<1>6. ASSUME NEW p \in 1..m PROVE s[n + 1 + p] = b[p]
  <2>1. n + 1 + p \in 1..(n + 1) + m /\ ~(n + 1 + p <= n + 1) /\ (n + 1 + p) - (n + 1) = p
    BY <1>1
  <2> QED BY <1>3, <2>1
<1> DEFINE spots == Places(s, d)
           i == CHOOSE i \in spots : \A j \in spots : i <= j
<1>7. DOMAIN s = 1..(n + 1) + m
  BY <1>3, LenProperties
<1>8. n + 1 \in spots /\ \A j \in spots : j \in Int /\ n + 1 <= j
  <2>1. n + 1 \in spots
    BY <1>1, <1>5, <1>7 DEF Places
  <2>2. ASSUME NEW j \in spots PROVE j \in Int /\ n + 1 <= j
    <3>1. j \in 1..(n + 1) + m /\ s[j] = d
      BY <1>7 DEF Places
    <3>2. j \notin 1..n
      BY <1>4, <3>1
    <3> QED BY <1>1, <3>1, <3>2
  <2> QED BY <2>1, <2>2
<1> HIDE DEF spots
<1>9. i = n + 1
  <2>1. i \in spots /\ \A j \in spots : i <= j
    BY <1>8
  <2> HIDE DEF i
  <2> QED BY <1>1, <1>8, <2>1
<1>10. divide(s, d) = <<SubSeq(s, 1, i - 1), SubSeq(s, i + 1, Len(s))>>
  <2>1. spots # {}
    BY <1>8
  <2> QED BY <2>1 DEF divide, spots
<1> HIDE DEF i
<1>11. SubSeq(s, 1, i - 1) = a
  <2> DEFINE x == SubSeq(s, 1, i - 1)
  <2>1. 0 \in Nat /\ n <= Len(s) /\ 0 + 1 = 1 /\ i - 1 = n /\ 0 <= n /\ n - 0 = n
    BY <1>1, <1>3, <1>9
  <2>2. /\ SubSeq(s, 0 + 1, n) \in Seq(S) /\ Len(SubSeq(s, 0 + 1, n)) = (IF 0 <= n THEN n - 0 ELSE 0)
        /\ \A p \in 1..n - 0 : SubSeq(s, 0 + 1, n)[p] = s[0 + p]
    BY <1>1, <1>3, <2>1, PartOf
  <2>3. x \in Seq(S) /\ Len(x) = n /\ \A p \in 1..n : x[p] = s[p]
    BY <2>1, <2>2
  <2> HIDE DEF x
  <2>4. x = a
    BY <1>4, <2>3, SeqEqual
  <2> QED BY <2>4 DEF x
<1>12. SubSeq(s, i + 1, Len(s)) = b
  <2> DEFINE x == SubSeq(s, i + 1, Len(s))
  <2>1. i \in Nat /\ Len(s) \in Nat /\ Len(s) <= Len(s) /\ i <= Len(s) /\ Len(s) - i = m
    BY <1>1, <1>3, <1>9
  <2>2. x \in Seq(S) /\ Len(x) = m /\ \A p \in 1..m : x[p] = s[i + p]
    <3>1. /\ x \in Seq(S) /\ Len(x) = (IF i <= Len(s) THEN Len(s) - i ELSE 0)
          /\ \A p \in 1..Len(s) - i : x[p] = s[i + p]
      BY <1>3, <2>1, PartOf
    <3> QED BY <2>1, <3>1
  <2> HIDE DEF x
  <2>3. \A p \in 1..m : x[p] = b[p]
    BY <1>6, <1>9, <2>2
  <2>4. x = b
    BY <2>2, <2>3, SeqEqual
  <2> QED BY <2>4 DEF x
<1> QED BY <1>10, <1>11, <1>12 DEF s, ac, c

LEMMA DivideNowhere ==
  ASSUME NEW S, NEW s \in Seq(S), NEW d, Without(s, d)
  PROVE  divide(s, d) = <<s, <<>> >>
<1>1. DOMAIN s = 1..Len(s)
  BY LenProperties
<1>2. Places(s, d) = {}
  BY <1>1 DEF Places, Without
<1> QED BY <1>2 DEF divide

----------------------------------------------------------------------------
(* Level() *)

LEMMA CountFinite ==
  ASSUME NEW T, NEW k \in Nat
  PROVE  IsFiniteSet({j \in 1..k : j \in T}) /\ Cardinality({j \in 1..k : j \in T}) \in Nat
<1>1. IsFiniteSet(1..k)
  BY FS_Interval
<1>2. {j \in 1..k : j \in T} \in SUBSET (1..k)
  OBVIOUS
<1>3. IsFiniteSet({j \in 1..k : j \in T})
  BY <1>1, <1>2, FS_Subset
<1> QED BY <1>3, FS_CardinalityType

LEMMA CountNext ==
  ASSUME NEW T, NEW k \in Nat \ {0}
  PROVE  Cardinality({j \in 1..k : j \in T}) =
           Cardinality({j \in 1..k - 1 : j \in T}) + IF k \in T THEN 1 ELSE 0
<1> DEFINE a == {j \in 1..k - 1 : j \in T}
           b == {j \in 1..k : j \in T}
<1>1. IsFiniteSet(a) /\ Cardinality(a) \in Nat
  <2>1. k - 1 \in Nat
    OBVIOUS
  <2> QED BY <2>1, CountFinite
<1>2. CASE k \in T
  <2>1. b = a \cup {k} /\ k \notin a
    BY <1>2
  <2> HIDE DEF a, b
  <2>2. Cardinality(a \cup {k}) = Cardinality(a) + 1
    BY <1>1, <2>1, FS_AddElement
  <2> QED BY <1>2, <2>1, <2>2 DEF a, b
<1>3. CASE k \notin T
  <2>1. b = a
    BY <1>3
  <2>2. Cardinality(b) = Cardinality(a) + 0
    BY <1>1, <2>1
  <2> QED BY <1>3, <2>2
<1> QED BY <1>2, <1>3

\* how deep the components lead, one after the other
Deep(down, parts) ==
  /\ down \in [0..Len(parts) -> Nat \cup {-1}]
  /\ down[0] = 0
  /\ \A k \in 1..Len(parts) :
       down[k] = IF down[k - 1] = -1 \/ parts[k] = Here THEN down[k - 1]
                 ELSE IF parts[k] = Parent THEN down[k - 1] - 1 ELSE down[k - 1] + 1

LEMMA DeepExists ==
  ASSUME NEW parts, Len(parts) \in Nat
  PROVE  \E down : Deep(down, parts)
<1> DEFINE n == Len(parts)
           V == Nat \cup {-1}
           step(k, v) == IF v = -1 \/ parts[k] = Here THEN v ELSE IF parts[k] = Parent THEN v - 1 ELSE v + 1
           next == [k \in 1..n |-> [v \in V |-> step(k, v)]]
<1>1. \A k \in 1..n : \A v \in V : next[k][v] = step(k, v)
  OBVIOUS
<1>2. \A k \in 1..n : \A v \in V : step(k, v) \in V
  OBVIOUS
<1>3. \A k \in 1..n : \A v \in V : next[k][v] \in V
  BY <1>1, <1>2
<1>4. 0 \in V /\ n \in Nat
  OBVIOUS
<1> HIDE DEF next, V, step, n
<1>5. PICK f : Forward(f, n, V, 0, next)
  BY ONLY <1>3, <1>4, ForwardFunction
<1>6. f \in [0..n -> V] /\ f[0] = 0 /\ \A k \in 1..n : f[k] = next[k][f[k - 1]]
  BY <1>5 DEF Forward
<1>7. ASSUME NEW k \in 1..n PROVE f[k] = step(k, f[k - 1])
  <2>1. k - 1 \in 0..n
    BY <1>4
  <2> QED BY <1>1, <1>6, <2>1
<1> QED BY <1>6, <1>7 DEF Deep, V, step, n

LEMMA LevelRead ==
  ASSUME NEW parts, Len(parts) \in Nat, NEW down, Deep(down, parts)
  PROVE  Level(parts) = down[Len(parts)]
<1> DEFINE n == Len(parts)
           value(k, f) == IF k = 0 THEN 0
                          ELSE IF f[k - 1] = -1 \/ parts[k] = Here THEN f[k - 1]
                          ELSE IF parts[k] = Parent THEN f[k - 1] - 1 ELSE f[k - 1] + 1
           Eq(f) == f = [k \in 0..n |-> value(k, f)]
           g == CHOOSE f : Eq(f)
<1>0. n \in Nat
  OBVIOUS
<1>1. Level(parts) = g[n]
  BY Zenon DEF Level
<1>2. \A k \in 0..n : down[k] = value(k, down)
  <2>1. ASSUME NEW k \in 0..n PROVE down[k] = value(k, down)
    <3>1. CASE k = 0
      BY <3>1 DEF Deep
    <3>2. CASE k # 0
      <4>1. k \in 1..n
        BY <1>0, <3>2
      <4> QED BY <3>2, <4>1 DEF Deep
    <3> QED BY <3>1, <3>2
  <2> QED BY <2>1
<1>3. down = [k \in 0..n |-> down[k]]
  BY DEF Deep
<1>4. \A f, k : f[k - 1] = down[k - 1] => value(k, f) = value(k, down)
  OBVIOUS
<1>5. \A f : value(0, f) = 0
  OBVIOUS
<1> HIDE DEF value
<1>6. Eq(down)
  BY <1>2, <1>3
<1>7. Eq(g)
  BY <1>6
<1> HIDE DEF g
<1>8. \A k \in 0..n : g[k] = value(k, g)
  BY <1>7
<1> DEFINE T == {k \in 0..n : g[k] = down[k]}
<1>9. ASSUME NEW k \in 0..n, \A j \in 0..k - 1 : j \in T PROVE k \in T
  <2>1. CASE k = 0
    BY <1>2, <1>5, <1>8, <2>1
  <2>2. CASE k # 0
    <3>1. k - 1 \in 0..k - 1
      BY <1>0, <2>2
    <3>2. g[k - 1] = down[k - 1]
      BY <1>9, <3>1
    <3> QED BY <1>2, <1>4, <1>8, <3>2
  <2> QED BY <2>1, <2>2
<1>10. \A k \in 0..n : k \in T
  <2> HIDE DEF T
  <2>1. 0 \in Int /\ n \in Int
    BY <1>0
  <2>2. \A k \in 0..n : (\A j \in 0..k - 1 : j \in T) => k \in T
    BY <1>9
  <2> QED BY ONLY <2>1, <2>2, Upwards
<1>11. n \in T
  BY <1>0, <1>10
<1> QED BY <1>1, <1>11

\* Components that lead nowhere out of the root have, up to each of them, no more parents
\* than others.
LEMMA LevelCounts ==
  ASSUME NEW parts, Len(parts) \in Nat, Level(parts) >= 0
  PROVE  \A k \in 1..Len(parts) :
           Cardinality({j \in 1..k : parts[j] = Parent})
             <= Cardinality({j \in 1..k : parts[j] \notin {Here, Parent}})
<1> DEFINE n == Len(parts)
           A == {j \in 1..n : parts[j] = Parent}
           B == {j \in 1..n : parts[j] \notin {Here, Parent}}
           a(k) == Cardinality({j \in 1..k : j \in A})
           b(k) == Cardinality({j \in 1..k : j \in B})
<1>0. n \in Nat
  OBVIOUS
<1>1. PICK down : Deep(down, parts)
  BY DeepExists
<1>2. down[n] >= 0
  BY <1>1, LevelRead
<1>3. \A k \in 0..n : down[k] \in Nat \cup {-1}
  BY <1>1 DEF Deep
<1>4. \A k \in 1..n : down[k] = IF down[k - 1] = -1 \/ parts[k] = Here THEN down[k - 1]
                               ELSE IF parts[k] = Parent THEN down[k - 1] - 1 ELSE down[k - 1] + 1
  BY <1>1 DEF Deep
<1>5. down[0] = 0
  BY <1>1 DEF Deep
<1>6. Here # Parent
  BY DEF Here, Parent
<1>7. \A k \in 1..n : (k \in A <=> parts[k] = Parent) /\ (k \in B <=> parts[k] # Parent /\ parts[k] # Here)
  OBVIOUS
<1>8. \A k \in 1..n : /\ {j \in 1..k : parts[j] = Parent} = {j \in 1..k : j \in A}
                      /\ {j \in 1..k : parts[j] \notin {Here, Parent}} = {j \in 1..k : j \in B}
  BY <1>0
<1> HIDE DEF A, B, n
<1>9. \A k \in 0..n : a(k) \in Nat /\ b(k) \in Nat
  <2>1. \A k \in 0..n : k \in Nat
    BY <1>0
  <2> QED BY <2>1, CountFinite
<1>10. a(0) = 0 /\ b(0) = 0
  <2>1. {j \in 1..0 : j \in A} = {} /\ {j \in 1..0 : j \in B} = {}
    OBVIOUS
  <2> QED BY <2>1, FS_EmptySet
<1>11. \A k \in 1..n : /\ a(k) = a(k - 1) + IF k \in A THEN 1 ELSE 0
                       /\ b(k) = b(k - 1) + IF k \in B THEN 1 ELSE 0
  <2>1. \A k \in 1..n : k \in Nat \ {0}
    BY <1>0
  <2> QED BY <2>1, CountNext
<1> HIDE DEF a, b
<1> DEFINE T == {k \in 0..n : down[k] # -1 => down[k] = b(k) - a(k)}
           U == {k \in 0..n : down[k] # -1}
<1>12. ASSUME NEW k \in 0..n, \A j \in 0..k - 1 : j \in T PROVE k \in T
  <2>1. CASE k = 0
    BY <1>5, <1>10, <2>1
  <2>2. CASE k # 0
    <3>1. k \in 1..n /\ k - 1 \in 0..k - 1 /\ k - 1 \in 0..n
      BY <1>0, <2>2
    <3>2. down[k - 1] # -1 => down[k - 1] = b(k - 1) - a(k - 1)
      BY <1>12, <3>1
    <3>3. a(k - 1) \in Nat /\ b(k - 1) \in Nat /\ down[k - 1] \in Nat \cup {-1}
      BY <1>3, <1>9, <3>1
    <3>4. CASE parts[k] = Here
      <4>1. down[k] = down[k - 1] /\ a(k) = a(k - 1) + 0 /\ b(k) = b(k - 1) + 0
        BY <1>4, <1>6, <1>7, <1>11, <3>1, <3>4
      <4> QED BY <3>2, <3>3, <4>1
    <3>5. CASE parts[k] = Parent
      <4>1. down[k] = (IF down[k - 1] = -1 THEN -1 ELSE down[k - 1] - 1)
            /\ a(k) = a(k - 1) + 1 /\ b(k) = b(k - 1) + 0
        BY <1>4, <1>6, <1>7, <1>11, <3>1, <3>5
      <4> QED BY <3>2, <3>3, <4>1
    <3>6. CASE parts[k] # Here /\ parts[k] # Parent
      <4>1. down[k] = (IF down[k - 1] = -1 THEN -1 ELSE down[k - 1] + 1)
            /\ a(k) = a(k - 1) + 0 /\ b(k) = b(k - 1) + 1
        BY <1>4, <1>7, <1>11, <3>1, <3>6
      <4> QED BY <3>2, <3>3, <4>1
    <3> QED BY <3>4, <3>5, <3>6
  <2> QED BY <2>1, <2>2
<1>13. \A k \in 0..n : k \in T
  <2> HIDE DEF T
  <2>1. 0 \in Int /\ n \in Int
    BY <1>0
  <2>2. \A k \in 0..n : (\A j \in 0..k - 1 : j \in T) => k \in T
    BY <1>12
  <2> QED BY ONLY <2>1, <2>2, Upwards
<1>14. ASSUME NEW k \in 0..n, \A j \in k + 1..n : j \in U PROVE k \in U
  <2>1. CASE k = n
    BY <1>0, <1>2, <2>1
  <2>2. CASE k # n
    <3>1. k + 1 \in 1..n /\ k + 1 \in k + 1..n /\ (k + 1) - 1 = k
      BY <1>0, <2>2
    <3>2. down[k + 1] # -1
      BY <1>14, <3>1
    <3>3. down[k] = -1 => down[k + 1] = -1
      BY <1>4, <3>1
    <3> QED BY <3>2, <3>3
  <2> QED BY <2>1, <2>2
<1>15. \A k \in 0..n : k \in U
  <2> HIDE DEF U
  <2>1. 0 \in Int /\ n \in Int
    BY <1>0
  <2>2. \A k \in 0..n : (\A j \in k + 1..n : j \in U) => k \in U
    BY <1>14
  <2> QED BY ONLY <2>1, <2>2, Downwards
<1>16. ASSUME NEW k \in 1..n PROVE a(k) <= b(k)
  <2>1. k \in 0..n
    BY <1>0
  <2>2. down[k] \in Nat /\ down[k] = b(k) - a(k) /\ a(k) \in Nat /\ b(k) \in Nat
    BY <1>3, <1>9, <1>13, <1>15, <2>1
  <2> QED BY <2>2
<1> QED BY <1>8, <1>16 DEF a, b, n

----------------------------------------------------------------------------
(* What the request line consists of *)

LEMMA EscapedType ==
  ASSUME NEW s \in Seq(Nat), NEW set \in SUBSET Byte
  PROVE  EscapedWhere(s, set) \in Seq(Nat)
<1> DEFINE V == Seq(Nat)
           e(i) == IF s[i] \in set THEN Escaped(s[i]) ELSE <<s[i]>>
           q == [i \in DOMAIN s |-> e(i)]
<1>1. Len(s) \in Nat /\ DOMAIN s = 1..Len(s) /\ \A i \in 1..Len(s) : s[i] \in Nat
  BY LenProperties, ElementOfSeq
<1>2. \A c \in Byte : Hex(c \div 16) \in Nat /\ Hex(c % 16) \in Nat
  BY DEF Byte, Hex
<1>3. \A c \in Byte : Escaped(c) \in V
  <2>1. ASSUME NEW c \in Byte PROVE Escaped(c) \in V
    <3> DEFINE x == Hex(c \div 16)
               y == Hex(c % 16)
    <3>1. x \in Nat /\ y \in Nat /\ Percent \in Nat /\ Escaped(c) = <<Percent, x, y>>
      BY <1>2 DEF Percent, Escaped
    <3> HIDE DEF x, y
    <3> QED BY <3>1
  <2> QED BY <2>1
<1>4. \A i \in 1..Len(s) : e(i) \in V
  BY <1>1, <1>3
<1> HIDE DEF e, V
<1>5. q \in Seq(V)
  BY <1>1, <1>4
<1>6. FlattenSeq(q) \in V
  <2> HIDE DEF q
  <2> QED BY <1>5, FlattenType DEF V
<1> QED BY <1>6 DEF EscapedWhere, e, V

LEMMA EncodeTypes ==
  ASSUME NEW s \in Seq(Nat)
  PROVE  encode_query_param(s) \in Seq(Nat) /\ encode_url(s) \in Seq(Nat)
<1>1. encode_query_param(s) \in Seq(Nat)
  BY EscapedType DEF encode_query_param
<1>2. encode_url(s) \in Seq(Nat)
  <2> DEFINE zeros == {i \in DOMAIN s : s[i] = 0}
             i == CHOOSE i \in zeros : \A j \in zeros : i <= j
             text == IF zeros = {} THEN s ELSE SubSeq(s, 1, i - 1)
             set == {Space, Plus, Cr, Lf, 39, 44, Semicolon} \cup (128..255)
  <2>1. encode_url(s) = EscapedWhere(text, set)
    BY Zenon DEF encode_url
  <2>2. set \in SUBSET Byte
    BY DEF Space, Plus, Cr, Lf, Semicolon, Byte
  <2>3. text \in Seq(Nat)
    <3>1. CASE zeros = {}
      BY <3>1
    <3>2. CASE zeros # {}
      <4>1. Len(s) \in Nat /\ zeros \in SUBSET (1..Len(s)) /\ 1 \in Int /\ Len(s) \in Int
        BY LenProperties
      <4>2. i \in zeros
        <5>1. \E k \in zeros : \A j \in zeros : k <= j
          <6> HIDE DEF zeros
          <6> QED BY <3>2, <4>1, Smallest
        <5> QED BY <5>1
      <4> HIDE DEF i
      <4>3. 1 \in 1..Len(s) + 1 /\ i - 1 \in Int /\ i - 1 <= Len(s)
        BY <4>1, <4>2
      <4>4. SubSeq(s, 1, i - 1) \in Seq(Nat)
        BY <4>3, PartType
      <4> QED BY <3>2, <4>4
    <3> QED BY <3>1, <3>2
  <2> HIDE DEF text, set
  <2> QED BY <2>1, <2>2, <2>3, EscapedType
<1> QED BY <1>1, <1>2

LEMMA QueryType ==
  ASSUME NEW params \in Seq(Seq(Nat) \X Seq(Nat))
  PROVE  params_to_query_str(params) \in Seq(Nat)
<1> DEFINE V == Seq(Nat)
           amp(k) == IF k = 1 THEN <<>> ELSE <<Ampersand>>
           e(k) == amp(k) \o params[k][1] \o <<Equals>> \o encode_query_param(params[k][2])
           q == [k \in DOMAIN params |-> e(k)]
<1>1. Len(params) \in Nat /\ DOMAIN params = 1..Len(params)
      /\ \A k \in 1..Len(params) : params[k] \in V \X V
  BY LenProperties, ElementOfSeq
<1>2. <<Equals>> \in V /\ <<>> \in V /\ <<Ampersand>> \in V
  BY DEF Equals, Ampersand
<1>3. \A a \in V, b \in V : a \o b \in V
  BY ConcatProperties
<1>4. \A a \in V : encode_query_param(a) \in V
  BY EncodeTypes
<1> HIDE DEF V
<1>5. ASSUME NEW k \in 1..Len(params) PROVE e(k) \in V
  <2>1. params[k][1] \in V /\ params[k][2] \in V /\ amp(k) \in V
    BY <1>1, <1>2
  <2>2. encode_query_param(params[k][2]) \in V
    BY <1>4, <2>1
  <2> HIDE DEF amp
  <2>3. amp(k) \o params[k][1] \in V
    BY <1>3, <2>1
  <2>4. amp(k) \o params[k][1] \o <<Equals>> \in V
    BY <1>2, <1>3, <2>3
  <2> QED BY <1>3, <2>2, <2>4
<1> HIDE DEF e
<1>6. q \in Seq(V)
  BY <1>1, <1>5
<1>7. FlattenSeq(q) \in V
  <2> HIDE DEF q
  <2> QED BY <1>6, FlattenType DEF V
<1> QED BY <1>7 DEF params_to_query_str, e, amp, V

LEMMA RequestLineType ==
  ASSUME NEW p \in Seq(Nat), NEW params \in Seq(Seq(Nat) \X Seq(Nat))
  PROVE  request_line(p, params) \in Seq(Nat)
<1> DEFINE V == Seq(Nat)
           mark == IF \E i \in 2..Len(p) : p[i] = Question /\ p[1] # Question
                   THEN <<Ampersand>> ELSE <<Question>>
           begin == <<Method, Space>>
           last == <<Space, Version>>
           target == IF params = <<>> THEN p ELSE append_query_params(p, params)
<1>1. mark \in V /\ begin \in V /\ last \in V
  BY DEF Ampersand, Question, Method, Space, Version
<1>2. params_to_query_str(params) \in V
  BY QueryType
<1>3. \A a \in V, b \in V : a \o b \in V
  BY ConcatProperties
<1>4. \A a \in V : encode_url(a) \in V
  BY EncodeTypes
<1>5. append_query_params(p, params) = p \o mark \o params_to_query_str(params)
  BY DEF append_query_params
<1>6. request_line(p, params) = begin \o encode_url(target) \o last
  BY DEF request_line
<1>7. p \in V
  OBVIOUS
<1> HIDE DEF V, mark, begin, last
<1>8. append_query_params(p, params) \in V
  <2>1. p \o mark \in V
    BY <1>1, <1>3, <1>7
  <2> QED BY <1>2, <1>3, <1>5, <2>1
<1>9. target \in V
  BY <1>7, <1>8
<1> HIDE DEF target
<1>10. begin \o encode_url(target) \in V
  BY <1>1, <1>3, <1>4, <1>9
<1>11. begin \o encode_url(target) \o last \in V
  BY <1>1, <1>3, <1>10
<1> QED BY <1>6, <1>11 DEF V

LEMMA ParsedPathType ==
  ASSUME NEW text \in Seq(Nat), parse_request_line(text).ok
  PROVE  parse_request_line(text).path \in Seq(Nat)
<1> DEFINE words == split(text, Space)
           target == divide(words[2], Hash)[1]
           halves == divide(target, Question)
           bad == Len(words) # 3 \/ words[1] # <<Method>> \/ words[3] # <<Version>>
<1>1. parse_request_line(text) =
        IF bad THEN [ok |-> FALSE]
        ELSE [ok |-> TRUE, path |-> decode_url(halves[1], FALSE), params |-> parse_query_text(halves[2])]
  BY DEF parse_request_line
<1>2. ~bad
  <2> DEFINE none == [ok |-> FALSE]
  <2>1. bad => parse_request_line(text) = none
    BY <1>1
  <2>2. ~none.ok
    OBVIOUS
  <2> HIDE DEF bad, none
  <2> QED BY <2>1, <2>2, Zenon
<1>3. parse_request_line(text).path = decode_url(halves[1], FALSE)
  BY <1>1, <1>2
<1>4. words[2] \in Seq(Nat)
  <2>1. words \in Seq(Seq(Nat)) /\ Len(words) = 3
    BY <1>2, SplitType
  <2> HIDE DEF words
  <2>2. 2 \in 1..Len(words)
    BY <2>1
  <2> QED BY <2>1, <2>2, ElementOfSeq
<1> HIDE DEF words
<1>5. target \in Seq(Nat)
  BY <1>4, DivideType
<1> HIDE DEF target
<1>6. halves[1] \in Seq(Nat)
  BY <1>5, DivideType
<1> HIDE DEF halves
<1> QED BY <1>3, <1>6, DecodeType

----------------------------------------------------------------------------
(* FlattenSeq() of what was put together *)

\* what holds of the empty sequence, and of a longer one when it holds of a shorter one
LEMMA Grows ==
  ASSUME NEW V, NEW T, <<>> \in T, \A y \in Seq(V) : y \in T => \A v \in V : Append(y, v) \in T
  PROVE  \A x \in Seq(V) : x \in T
<1>1. SUFFICES ASSUME NEW x \in Seq(V) PROVE x \in T
  OBVIOUS
<1> DEFINE n == Len(x)
           U == {i \in 0..n : SubSeq(x, 1, i) \in T}
<1>2. n \in Nat
  BY LenProperties
<1>3. ASSUME NEW i \in 0..n, \A j \in 0..i - 1 : j \in U PROVE i \in U
  <2>1. CASE i = 0
    <3>1. SubSeq(x, 1, 0) = <<>>
      BY SubSeqEmpty
    <3> QED BY <2>1, <3>1
  <2>2. CASE i # 0
    <3>1. i \in 1..n /\ i - 1 \in 0..i - 1 /\ 1 \in 1..Len(x) /\ i \in 1..Len(x)
          /\ 1 \in 1..Len(x) + 1 /\ i - 1 \in Int /\ i - 1 <= Len(x)
      BY <1>2, <2>2
    <3> DEFINE y == SubSeq(x, 1, i - 1)
               v == x[i]
    <3>2. y \in T /\ y \in Seq(V) /\ v \in V
      BY <1>3, <3>1, PartType, ElementOfSeq
    <3>3. SubSeq(x, 1, i) = y \o <<v>>
      BY <3>1, SubSeqRecursiveSecond
    <3> HIDE DEF y, v
    <3>4. Append(y, v) \in T /\ Append(y, v) = y \o <<v>>
      BY <3>2, AppendIsConcat
    <3> QED BY <3>3, <3>4
  <2> QED BY <2>1, <2>2
<1>4. \A i \in 0..n : i \in U
  <2> HIDE DEF U
  <2>1. 0 \in Int /\ n \in Int
    BY <1>2
  <2>2. \A i \in 0..n : (\A j \in 0..i - 1 : j \in U) => i \in U
    BY <1>3
  <2> QED BY ONLY <2>1, <2>2, Upwards
<1>5. n \in U
  BY <1>2, <1>4
<1> QED BY <1>5, SubSeqFull, ZenonT(30)

LEMMA FlattenNone == FlattenSeq(<<>>) = <<>>
<1> DEFINE q == <<>>
<1>1. q \in Seq(Seq(Nat)) /\ Len(q) = 0
  OBVIOUS
<1> HIDE DEF q
<1>2. PICK f : Joins(f, q, Nat)
  BY <1>1, JoinsExist
<1>3. FlattenSeq(q) = f[0]
  BY <1>1, <1>2, JoinsFlat
<1> QED BY <1>2, <1>3 DEF Joins, q

LEMMA FlattenAppend ==
  ASSUME NEW S, NEW q \in Seq(Seq(S)), NEW x \in Seq(S)
  PROVE  FlattenSeq(Append(q, x)) = FlattenSeq(q) \o x
<1> DEFINE V == Seq(S)
           n == Len(q)
           r == Append(q, x)
<1>1. /\ n \in Nat /\ r \in Seq(V) /\ Len(r) = n + 1 /\ r[n + 1] = x
      /\ \A i \in 1..n : r[i] = q[i]
  BY LenProperties, AppendProperties
<1> HIDE DEF r
<1>2. PICK f : Joins(f, r, S)
  BY <1>1, JoinsExist
<1>3. f \in [0..n + 1 -> V] /\ f[0] = <<>> /\ \A i \in 1..n + 1 : f[i] = f[i - 1] \o r[i]
  BY <1>1, <1>2 DEF Joins
<1> DEFINE g == [i \in 0..n |-> f[i]]
<1>4. Joins(g, q, S)
  <2>1. \A i \in 0..n : i \in 0..n + 1
    BY <1>1
  <2>2. g \in [0..n -> V]
    BY <1>3, <2>1
  <2>3. g[0] = <<>>
    BY <1>1, <1>3
  <2>4. ASSUME NEW i \in 1..n PROVE g[i] = g[i - 1] \o q[i]
    <3>1. i \in 1..n + 1 /\ i \in 0..n /\ i - 1 \in 0..n
      BY <1>1
    <3>2. g[i] = f[i] /\ g[i - 1] = f[i - 1] /\ r[i] = q[i]
      BY <1>1, <3>1
    <3> QED BY <1>3, <3>1, <3>2
  <2> QED BY <2>2, <2>3, <2>4 DEF Joins
<1>5. FlattenSeq(q) = g[n] /\ FlattenSeq(r) = f[n + 1]
  BY <1>1, <1>2, <1>4, JoinsFlat
<1>6. n + 1 \in 1..n + 1 /\ (n + 1) - 1 = n /\ n \in 0..n
  BY <1>1
<1>7. f[n + 1] = f[n] \o x /\ g[n] = f[n]
  BY <1>1, <1>3, <1>6
<1> QED BY <1>5, <1>7 DEF r

LEMMA FlattenConcat ==
  ASSUME NEW S, NEW p \in Seq(Seq(S)), NEW q \in Seq(Seq(S))
  PROVE  FlattenSeq(p \o q) = FlattenSeq(p) \o FlattenSeq(q)
<1> DEFINE V == Seq(S)
           T == {y \in Seq(V) : FlattenSeq(p \o y) = FlattenSeq(p) \o FlattenSeq(y)}
<1>0. p \in Seq(V) /\ q \in Seq(V) /\ FlattenSeq(p) \in Seq(S)
  BY FlattenType
<1>1. <<>> \in T
  <2>1. p \o <<>> = p /\ FlattenSeq(p) \o <<>> = FlattenSeq(p) /\ <<>> \in Seq(V)
    BY <1>0, ConcatEmptySeq
  <2> QED BY <2>1, FlattenNone
<1>2. ASSUME NEW y \in Seq(V), y \in T, NEW v \in V PROVE Append(y, v) \in T
  <2>1. Append(y, v) \in Seq(V) /\ p \o y \in Seq(V)
    BY <1>0, AppendProperties, ConcatProperties
  <2>2. p \o Append(y, v) = Append(p \o y, v)
    <3> DEFINE one == <<v>>
    <3>1. one \in Seq(V) /\ Append(y, v) = y \o one /\ Append(p \o y, v) = (p \o y) \o one
      BY <2>1, AppendIsConcat
    <3> HIDE DEF one, V
    <3>2. (p \o y) \o one = p \o (y \o one)
      BY <1>0, <3>1, ConcatAssociative, SMTT(30)
    <3> QED BY <3>1, <3>2
  <2>3. FlattenSeq(Append(p \o y, v)) = FlattenSeq(p \o y) \o v
    BY <2>1, FlattenAppend
  <2>4. FlattenSeq(Append(y, v)) = FlattenSeq(y) \o v /\ FlattenSeq(y) \in Seq(S)
    BY FlattenAppend, FlattenType
  <2>5. (FlattenSeq(p) \o FlattenSeq(y)) \o v = FlattenSeq(p) \o (FlattenSeq(y) \o v)
    <3> DEFINE a == FlattenSeq(p)
               b == FlattenSeq(y)
    <3>1. a \in Seq(S) /\ b \in Seq(S) /\ v \in Seq(S)
      BY <1>0, <2>4
    <3> HIDE DEF a, b
    <3>2. (a \o b) \o v = a \o (b \o v)
      BY ONLY <3>1, ConcatAssociative
    <3> QED BY <3>2 DEF a, b
  <2> QED BY <1>2, <2>1, <2>2, <2>3, <2>4, <2>5
<1> HIDE DEF T, V
<1>3. \A x \in Seq(V) : x \in T
  BY <1>1, <1>2, Grows
<1> QED BY <1>0, <1>3 DEF T

\* where the pieces are in the whole
Placed(f, q, t, k) ==
  /\ Len(f[k]) \in Nat /\ Len(f[k]) <= Len(t) /\ Len(f[k - 1]) \in Nat
  /\ Len(f[k]) = Len(f[k - 1]) + Len(q[k])
  /\ \A p \in 1..Len(q[k]) : t[Len(f[k - 1]) + p] = q[k][p]

LEMMA JoinsPlace ==
  ASSUME NEW S, NEW q \in Seq(Seq(S)), NEW f, Joins(f, q, S), NEW k \in 1..Len(q)
  PROVE  Placed(f, q, FlattenSeq(q), k)
<1> DEFINE n == Len(q)
           T == {j \in k..n : Len(f[k]) <= Len(f[j]) /\ \A p \in 1..Len(f[k]) : f[j][p] = f[k][p]}
<1>1. n \in Nat /\ \A i \in 1..n : Len(q[i]) \in Nat
  BY PieceIsSeq
<1>2. /\ \A i \in 0..n : Len(f[i]) \in Nat
      /\ \A i \in 1..n : Len(f[i]) = Len(f[i - 1]) + Len(q[i])
      /\ \A i \in 1..n : \A p \in 1..Len(f[i - 1]) : f[i][p] = f[i - 1][p]
      /\ \A i \in 1..n : \A p \in 1..Len(q[i]) : f[i][Len(f[i - 1]) + p] = q[i][p]
  <2>1. q \in Seq(Seq(S)) /\ Joins(f, q, S)
    OBVIOUS
  <2>2. PiecesAt(f, q)
    BY ONLY <2>1, JoinsPieces
  <2> QED BY <2>2 DEF PiecesAt
<1>3. k \in 0..n /\ k - 1 \in 0..n /\ k \in 1..n
  BY <1>1
<1> HIDE DEF n
<1>4. ASSUME NEW j \in k..n, \A i \in k..j - 1 : i \in T PROVE j \in T
  <2>1. CASE j = k
    BY <1>2, <1>3, <2>1
  <2>2. CASE j # k
    <3>1. j - 1 \in k..j - 1 /\ j \in 1..n /\ j - 1 \in 0..n
      BY <1>1, <1>3, <2>2
    <3>2. Len(f[k]) <= Len(f[j - 1]) /\ \A p \in 1..Len(f[k]) : f[j - 1][p] = f[k][p]
      BY <1>4, <3>1
    <3>3. Len(f[k]) \in Nat /\ Len(f[j - 1]) \in Nat /\ Len(q[j]) \in Nat
          /\ Len(f[j]) = Len(f[j - 1]) + Len(q[j])
      BY <1>1, <1>2, <1>3, <3>1
    <3>4. \A p \in 1..Len(f[k]) : p \in 1..Len(f[j - 1])
      BY <3>2, <3>3
    <3>5. \A p \in 1..Len(f[k]) : f[j][p] = f[k][p]
      BY <1>2, <3>1, <3>2, <3>4
    <3>6. Len(f[k]) <= Len(f[j])
      <4>1. \A a \in Nat, b \in Nat, c \in Nat : a <= b => a <= b + c
        OBVIOUS
      <4> QED BY <3>2, <3>3, <4>1
    <3> QED BY <3>5, <3>6
  <2> QED BY <2>1, <2>2
<1>5. \A j \in k..n : j \in T
  <2> HIDE DEF T
  <2>1. k \in Int /\ n \in Int
    BY <1>1, <1>3
  <2>2. \A j \in k..n : (\A i \in k..j - 1 : i \in T) => j \in T
    BY <1>4
  <2> QED BY ONLY <2>1, <2>2, Upwards
<1>6. n \in k..n
  BY <1>1, <1>3
<1>7. Len(f[k]) <= Len(f[n]) /\ \A p \in 1..Len(f[k]) : f[n][p] = f[k][p]
  BY <1>5, <1>6
<1>8. FlattenSeq(q) = f[n]
  BY JoinsFlat DEF n
<1>9. ASSUME NEW p \in 1..Len(q[k]) PROVE f[n][Len(f[k - 1]) + p] = q[k][p]
  <2>1. Len(f[k - 1]) + p \in 1..Len(f[k])
    <3>1. Len(f[k]) = Len(f[k - 1]) + Len(q[k]) /\ Len(f[k - 1]) \in Nat /\ Len(q[k]) \in Nat
      BY <1>1, <1>2, <1>3
    <3>2. \A a \in Nat, b \in Nat : \A r \in 1..b : a + r \in 1..a + b
      OBVIOUS
    <3> QED BY <3>1, <3>2
  <2> QED BY <1>2, <1>3, <1>7, <2>1
<1> QED BY <1>2, <1>3, <1>7, <1>8, <1>9 DEF Placed

----------------------------------------------------------------------------
(* Percent encodings *)

\* what a character is written as
Code(c, set) == IF c \in set THEN Escaped(c) ELSE <<c>>

EscapeChars == {Percent} \cup Digit \cup (65..70)

LEMMA HexDigits ==
  ASSUME NEW c \in Byte
  PROVE  /\ Hex(c \div 16) \in EscapeChars \ {Percent} /\ Hex(c % 16) \in EscapeChars \ {Percent}
         /\ is_hex(Hex(c \div 16)) * 16 + is_hex(Hex(c % 16)) = c
<1>1. c \div 16 \in 0..15 /\ c % 16 \in 0..15 /\ (c \div 16) * 16 + (c % 16) = c
  BY DEF Byte
<1>2. ASSUME NEW n \in 0..15 PROVE Hex(n) \in EscapeChars \ {Percent} /\ is_hex(Hex(n)) = n
  <2>1. CASE n < 10
    BY <2>1 DEF Hex, is_hex, Digit, EscapeChars, Percent
  <2>2. CASE ~(n < 10)
    BY <2>2 DEF Hex, is_hex, Digit, EscapeChars, Percent
  <2> QED BY <2>1, <2>2
<1> DEFINE a == c \div 16
           b == c % 16
<1>3. a \in 0..15 /\ b \in 0..15 /\ a * 16 + b = c
  BY <1>1
<1> HIDE DEF a, b
<1>4. /\ Hex(a) \in EscapeChars \ {Percent} /\ is_hex(Hex(a)) = a
      /\ Hex(b) \in EscapeChars \ {Percent} /\ is_hex(Hex(b)) = b
  BY <1>2, <1>3
<1> QED BY <1>3, <1>4 DEF a, b

LEMMA CodeType ==
  ASSUME NEW R, NEW c \in R, NEW set \in SUBSET Byte
  PROVE  /\ Code(c, set) \in Seq((R \ set) \cup EscapeChars)
         /\ c \in set => /\ Len(Code(c, set)) = 3 /\ Code(c, set)[1] = Percent
                         /\ Code(c, set)[2] = Hex(c \div 16) /\ Code(c, set)[3] = Hex(c % 16)
         /\ c \notin set => Code(c, set) = <<c>>
<1> DEFINE W == (R \ set) \cup EscapeChars
<1>1. CASE c \in set
  <2> DEFINE x == Hex(c \div 16)
             y == Hex(c % 16)
  <2>1. x \in W /\ y \in W /\ Percent \in W
    BY <1>1, HexDigits DEF EscapeChars
  <2>2. Code(c, set) = <<Percent, x, y>>
    BY <1>1 DEF Code, Escaped
  <2> HIDE DEF x, y, W
  <2>3. <<Percent, x, y>> \in Seq(W) /\ Len(<<Percent, x, y>>) = 3
    BY <2>1
  <2> QED BY <1>1, <2>2, <2>3 DEF x, y, W
<1>2. CASE c \notin set
  <2>1. c \in W /\ Code(c, set) = <<c>>
    BY <1>2 DEF Code
  <2> HIDE DEF W
  <2>2. <<c>> \in Seq(W)
    BY <2>1
  <2> QED BY <1>2, <2>1, <2>2 DEF W
<1> QED BY <1>1, <1>2

\* the codes of a text
Codes(s, set) == [i \in DOMAIN s |-> Code(s[i], set)]

LEMMA EscapedCodes ==
  ASSUME NEW s, NEW set
  PROVE  EscapedWhere(s, set) = FlattenSeq(Codes(s, set))
BY Zenon DEF EscapedWhere, Codes, Code

LEMMA CodesType ==
  ASSUME NEW R, NEW s \in Seq(R), NEW set \in SUBSET Byte
  PROVE  /\ Codes(s, set) \in Seq(Seq((R \ set) \cup EscapeChars))
         /\ Len(Codes(s, set)) = Len(s)
         /\ \A i \in 1..Len(s) : Codes(s, set)[i] = Code(s[i], set)
<1> DEFINE V == Seq((R \ set) \cup EscapeChars)
<1>1. Len(s) \in Nat /\ DOMAIN s = 1..Len(s) /\ \A i \in 1..Len(s) : s[i] \in R
  BY LenProperties, ElementOfSeq
<1>2. \A i \in 1..Len(s) : Code(s[i], set) \in V
  BY <1>1, CodeType
<1> HIDE DEF V
<1>3. Codes(s, set) \in Seq(V) /\ Len(Codes(s, set)) = Len(s)
  BY <1>1, <1>2 DEF Codes
<1>4. \A i \in 1..Len(s) : Codes(s, set)[i] = Code(s[i], set)
  BY <1>1 DEF Codes
<1> QED BY <1>3, <1>4 DEF V

\* which characters an encoded text has
LEMMA EscapedChars ==
  ASSUME NEW R, NEW s \in Seq(R), NEW set \in SUBSET Byte
  PROVE  EscapedWhere(s, set) \in Seq((R \ set) \cup EscapeChars)
<1> DEFINE W == (R \ set) \cup EscapeChars
           q == Codes(s, set)
<1>1. q \in Seq(Seq(W))
  BY CodesType
<1> HIDE DEF W, q
<1>2. FlattenSeq(q) \in Seq(W)
  BY <1>1, FlattenType
<1> QED BY <1>2, EscapedCodes DEF q, W

LEMMA EscapedNone ==
  ASSUME NEW set
  PROVE  EscapedWhere(<<>>, set) = <<>>
<1>1. Codes(<<>>, set) = <<>>
  BY DEF Codes
<1> QED BY <1>1, EscapedCodes, FlattenNone

LEMMA EscapedAppend ==
  ASSUME NEW s \in Seq(Nat), NEW c \in Nat, NEW set \in SUBSET Byte
  PROVE  EscapedWhere(Append(s, c), set) = EscapedWhere(s, set) \o Code(c, set)
<1> DEFINE R == Nat
           W == (R \ set) \cup EscapeChars
           V == Seq(W)
           q == Codes(s, set)
           r == Codes(Append(s, c), set)
           x == Code(c, set)
           n == Len(s)
<1>1. s \in Seq(R) /\ n \in Nat /\ Append(s, c) \in Seq(R) /\ Len(Append(s, c)) = n + 1
      /\ Append(s, c)[n + 1] = c /\ \A i \in 1..n : Append(s, c)[i] = s[i]
  BY LenProperties, AppendProperties
<1>2. q \in Seq(V) /\ Len(q) = n /\ \A i \in 1..n : q[i] = Code(s[i], set)
  BY <1>1, CodesType
<1>3. r \in Seq(V) /\ Len(r) = n + 1 /\ \A i \in 1..n + 1 : r[i] = Code(Append(s, c)[i], set)
  BY <1>1, CodesType
<1>4. x \in V
  BY CodeType
<1> HIDE DEF q, r, x, V
<1> DEFINE t == Append(q, x)
<1>5. t \in Seq(V) /\ Len(t) = n + 1 /\ t[n + 1] = x /\ \A i \in 1..n : t[i] = q[i]
  BY <1>2, <1>4, AppendProperties
<1> HIDE DEF t, n
<1>6. ASSUME NEW i \in 1..n + 1 PROVE r[i] = t[i]
  <2>1. CASE i = n + 1
    BY <1>1, <1>3, <1>5, <2>1 DEF x
  <2>2. CASE i # n + 1
    <3>1. i \in 1..n
      BY <1>1, <2>2
    <3> QED BY <1>1, <1>2, <1>3, <1>5, <3>1
  <2> QED BY <2>1, <2>2
<1>7. r = t
  BY <1>3, <1>5, <1>6, SeqEqual
<1>8. FlattenSeq(Append(q, x)) = FlattenSeq(q) \o x
  <2> HIDE DEF W
  <2> QED BY <1>2, <1>4, FlattenAppend DEF V
<1> QED BY <1>7, <1>8, EscapedCodes DEF r, t, q, x

LEMMA EscapedOne ==
  ASSUME NEW c \in Nat, NEW set \in SUBSET Byte
  PROVE  EscapedWhere(<<c>>, set) = Code(c, set)
<1> DEFINE none == <<>>
           W == (Nat \ set) \cup EscapeChars
           x == Code(c, set)
<1>1. none \in Seq(Nat) /\ Append(none, c) = <<c>>
  OBVIOUS
<1>2. EscapedWhere(none, set) = <<>>
  BY EscapedNone
<1> HIDE DEF none
<1>3. EscapedWhere(Append(none, c), set) = EscapedWhere(none, set) \o x
  BY <1>1, EscapedAppend
<1>4. x \in Seq(W)
  BY CodeType
<1> HIDE DEF x, W
<1>5. <<>> \o x = x
  BY <1>4, ConcatEmptySeq
<1> QED BY <1>1, <1>2, <1>3, <1>5 DEF x

LEMMA ConcatAppend ==
  ASSUME NEW V, NEW a \in Seq(V), NEW y \in Seq(V), NEW v \in V
  PROVE  a \o Append(y, v) = Append(a \o y, v)
<1> DEFINE one == <<v>>
           b == a \o y
<1>1. one \in Seq(V) /\ b \in Seq(V)
  BY ConcatProperties
<1>2. Append(y, v) = y \o one
  BY AppendIsConcat
<1>3. Append(b, v) = b \o one
  BY <1>1, AppendIsConcat
<1> HIDE DEF one
<1>4. b \o one = a \o (y \o one)
  BY <1>1, ConcatAssociative
<1> QED BY <1>2, <1>3, <1>4

LEMMA SeqOfMore ==
  ASSUME NEW W, NEW R, W \subseteq R, NEW x \in Seq(W)
  PROVE  x \in Seq(R)
<1>1. Len(x) \in Nat /\ \A i \in 1..Len(x) : x[i] \in R
  BY LenProperties, ElementOfSeq
<1>2. x = [i \in 1..Len(x) |-> x[i]]
  BY LenProperties
<1> QED BY <1>1, <1>2

LEMMA EscapedConcat ==
  ASSUME NEW a \in Seq(Nat), NEW b \in Seq(Nat), NEW set \in SUBSET Byte
  PROVE  EscapedWhere(a \o b, set) = EscapedWhere(a, set) \o EscapedWhere(b, set)
<1> DEFINE V == Nat
           W == (V \ set) \cup EscapeChars
           E(x) == EscapedWhere(x, set)
           T == {y \in Seq(V) : E(a \o y) = E(a) \o E(y)}
<1>0. a \in Seq(V) /\ E(a) \in Seq(W) /\ \A y \in Seq(V) : E(y) \in Seq(W)
  BY EscapedChars
<1>1. <<>> \in T
  <2>1. a \o <<>> = a /\ E(a) \o <<>> = E(a) /\ <<>> \in Seq(V)
    BY <1>0, ConcatEmptySeq
  <2> QED BY <2>1, EscapedNone
<1>2. ASSUME NEW y \in Seq(V), y \in T, NEW v \in V PROVE Append(y, v) \in T
  <2>1. Append(y, v) \in Seq(V) /\ a \o y \in Seq(V)
    BY <1>0, AppendProperties, ConcatProperties
  <2>2. a \o Append(y, v) = Append(a \o y, v)
    BY ConcatAppend
  <2>3. E(Append(a \o y, v)) = E(a \o y) \o Code(v, set) /\ E(Append(y, v)) = E(y) \o Code(v, set)
    BY <2>1, EscapedAppend
  <2>4. (E(a) \o E(y)) \o Code(v, set) = E(a) \o (E(y) \o Code(v, set))
    <3> DEFINE p == E(a)
               q == E(y)
               r == Code(v, set)
    <3>1. p \in Seq(W) /\ q \in Seq(W) /\ r \in Seq(W)
      BY <1>0, CodeType
    <3> HIDE DEF p, q, r, W
    <3>2. (p \o q) \o r = p \o (q \o r)
      BY ONLY <3>1, ConcatAssociative, SMTT(30)
    <3> QED BY <3>2 DEF p, q, r
  <2> QED BY <1>2, <2>1, <2>2, <2>3, <2>4
<1> HIDE DEF T, V
<1>3. \A x \in Seq(V) : x \in T
  BY <1>1, <1>2, Grows
<1> QED BY <1>3 DEF T, V

LEMMA EscapedSame ==
  ASSUME NEW s \in Seq(Nat), NEW set, \A i \in 1..Len(s) : s[i] \notin set
  PROVE  EscapedWhere(s, set) = s
<1>1. DOMAIN s = 1..Len(s)
  BY LenProperties
<1>2. Codes(s, set) = [k \in DOMAIN s |-> <<s[k]>>]
  BY <1>1 DEF Codes, Code
<1> QED BY <1>2, EscapedCodes, FlattenOnes

\* what is encoded is not encoded again
LEMMA EscapedTwice ==
  ASSUME NEW s \in Seq(Nat), NEW A \in SUBSET Byte, NEW B \in SUBSET Byte, B \cap EscapeChars = {}
  PROVE  EscapedWhere(EscapedWhere(s, A), B) = EscapedWhere(s, A \cup B)
<1> DEFINE V == Nat
           E(x) == EscapedWhere(x, A)
           F(x) == EscapedWhere(x, B)
           G(x) == EscapedWhere(x, A \cup B)
           T == {y \in Seq(V) : F(E(y)) = G(y)}
<1>0. A \cup B \in SUBSET Byte /\ EscapeChars \in SUBSET Nat
  BY DEF EscapeChars, Percent, Digit
<1>1. <<>> \in T
  BY EscapedNone
<1>2. ASSUME NEW y \in Seq(V), y \in T, NEW v \in V PROVE Append(y, v) \in T
  <2>1. Append(y, v) \in Seq(V)
    BY AppendProperties
  <2>2. E(Append(y, v)) = E(y) \o Code(v, A) /\ G(Append(y, v)) = G(y) \o Code(v, A \cup B)
    BY <1>0, EscapedAppend
  <2>3. E(y) \in Seq(Nat) /\ Code(v, A) \in Seq(Nat)
    <3> DEFINE W == (Nat \ A) \cup EscapeChars
    <3>1. E(y) \in Seq(W) /\ Code(v, A) \in Seq(W)
      BY EscapedChars, CodeType
    <3>2. W \subseteq Nat
      BY <1>0
    <3> HIDE DEF W
    <3> QED BY <3>1, <3>2, SeqOfMore
  <2>4. F(E(y) \o Code(v, A)) = F(E(y)) \o F(Code(v, A))
    BY <2>3, EscapedConcat
  <2>5. F(Code(v, A)) = Code(v, A \cup B)
    <3>1. CASE v \in A
      <4>1. Code(v, A) = Code(v, A \cup B)
        BY <3>1 DEF Code
      <4> DEFINE x == Code(v, A)
                 R == A
                 W == (R \ A) \cup EscapeChars
      <4>2. x \in Seq(W)
        BY <3>1, CodeType
      <4>3. \A c \in W : c \notin B
        OBVIOUS
      <4> HIDE DEF x, W
      <4>4. \A i \in 1..Len(x) : x[i] \notin B
        BY <4>2, <4>3, ElementOfSeq
      <4>5. x \in Seq(Nat)
        BY <2>3 DEF x
      <4>6. EscapedWhere(x, B) = x
        BY <4>4, <4>5, EscapedSame
      <4> QED BY <4>1, <4>6 DEF x
    <3>2. CASE v \notin A
      <4>1. Code(v, A) = <<v>> /\ Code(v, A \cup B) = Code(v, B)
        BY <3>2 DEF Code
      <4> QED BY <4>1, EscapedOne
    <3> QED BY <3>1, <3>2
  <2> QED BY <1>2, <2>1, <2>2, <2>4, <2>5
<1> HIDE DEF T, V
<1>3. \A x \in Seq(V) : x \in T
  BY <1>1, <1>2, Grows
<1> QED BY <1>3 DEF T, V

\* A text is decoded to what was encoded, whatever else the encoder leaves as it is:
\* decode_url() undoes encode_query_param() and encode_url() (httplib.h:3395-3527).
THEOREM DecodeEscaped ==
  ASSUME NEW s \in Seq(Nat), NEW set \in SUBSET Byte, NEW plus,
         \A i \in 1..Len(s) : s[i] \in {Percent, Plus} => s[i] \in set
  PROVE  decode_url(EscapedWhere(s, set), plus) = s
<1> DEFINE n == Len(s)
           W == (Nat \ set) \cup EscapeChars
           q == Codes(s, set)
           t == EscapedWhere(s, set)
<1>1. n \in Nat /\ \A i \in 1..n : s[i] \in Nat
  BY LenProperties, ElementOfSeq
<1>2. /\ q \in Seq(Seq(W)) /\ Len(q) = n
      /\ \A i \in 1..n : q[i] = Code(s[i], set)
  BY CodesType
<1>3. t \in Seq(Nat)
  BY EscapedType
<1>4. t = FlattenSeq(q)
  BY EscapedCodes
<1> HIDE DEF q, W, t, n
<1>5. PICK f : Joins(f, q, W)
  BY <1>2, JoinsExist
<1>6. PICK from : Decoding(from, t, plus) /\ decode_url(t, plus) = from[1]
  BY <1>3, DecodingExists
<1>7. Len(t) \in Nat
  BY <1>3, LenProperties
<1>8. ASSUME NEW k \in 1..n
      PROVE  /\ Len(f[k]) \in Nat /\ Len(f[k]) <= Len(t) /\ Len(f[k - 1]) \in Nat
             /\ Len(f[k]) = Len(f[k - 1]) + Len(q[k])
             /\ \A p \in 1..Len(q[k]) : t[Len(f[k - 1]) + p] = q[k][p]
  <2>1. k \in 1..Len(q)
    BY <1>2
  <2>2. Placed(f, q, FlattenSeq(q), k)
    BY <1>2, <1>5, <2>1, JoinsPlace
  <2> QED BY <1>4, <2>2 DEF Placed
<1>9. Len(f[0]) = 0 /\ f[n] = t
  <2>1. f[0] = <<>>
    BY <1>5 DEF Joins
  <2>2. f[n] = t
    BY <1>2, <1>4, <1>5, JoinsFlat
  <2> QED BY <2>1, <2>2
<1> DEFINE T == {k \in 0..n : from[Len(f[k]) + 1] = SubSeq(s, k + 1, n)}
<1>10. ASSUME NEW k \in 0..n, \A j \in k + 1..n : j \in T PROVE k \in T
  <2>1. CASE k = n
    <3>1. from[Len(t) + 1] = <<>>
      BY <1>6 DEF Decoding
    <3>2. SubSeq(s, n + 1, n) = <<>>
      BY <1>1, SubSeqEmpty
    <3> QED BY <1>9, <2>1, <3>1, <3>2
  <2>2. CASE k # n
    <3> DEFINE m == k + 1
               i == Len(f[k]) + 1
               c == s[m]
    <3>1. m \in 1..n /\ m \in k + 1..n /\ m - 1 = k
      BY <1>1, <2>2
    <3>2. from[Len(f[m]) + 1] = SubSeq(s, m + 1, n)
      BY <1>10, <3>1
    <3>3. c \in Nat
      BY <1>1, <3>1
    <3>4. SubSeq(s, m, n) = <<c>> \o SubSeq(s, m + 1, n)
      <4>1. m \in 1..Len(s) /\ n \in m..Len(s)
        BY <1>1, <3>1 DEF n
      <4> QED BY <4>1, SubSeqRecursiveFirst
    <3>5. /\ Len(f[m]) \in Nat /\ Len(f[m]) <= Len(t) /\ Len(f[k]) \in Nat
          /\ Len(f[m]) = Len(f[k]) + Len(q[m])
          /\ \A p \in 1..Len(q[m]) : t[Len(f[k]) + p] = q[m][p]
      BY <1>8, <3>1
    <3>6. q[m] = Code(c, set)
      BY <1>2, <3>1
    <3>7. c \in {Percent, Plus} => c \in set
      BY <3>1 DEF n
    <3> HIDE DEF c
    <3>8. CASE c \notin set
      <4>1. q[m] = <<c>>
        BY <3>6, <3>8 DEF Code
      <4>2. Len(q[m]) = 1 /\ q[m][1] = c
        BY <4>1
      <4>3. 1 \in 1..1 /\ i \in 1..Len(t) /\ Len(f[m]) = i
        BY <1>7, <3>5, <4>2
      <4>4. t[i] = c
        BY <3>5, <4>2, <4>3
      <4>5. EscapeLength(t, i) = 0
        BY <3>7, <3>8, <4>4 DEF EscapeLength
      <4>6. Unescaped(t, i, plus) = <<c>> /\ Width(t, i) = 1
        BY <3>7, <3>8, <4>4, <4>5 DEF Unescaped, Width
      <4>7. from[i] = Unescaped(t, i, plus) \o from[i + Width(t, i)]
        BY <1>6, <4>3 DEF Decoding
      <4>8. i + 1 = Len(f[m]) + 1
        BY <4>3
      <4> QED BY <3>1, <3>2, <3>4, <4>6, <4>7, <4>8
    <3>9. CASE c \in set
      <4> DEFINE x == Hex(c \div 16)
                 y == Hex(c % 16)
      <4>1. c \in Byte /\ x \in EscapeChars \ {Percent} /\ y \in EscapeChars \ {Percent}
            /\ is_hex(x) * 16 + is_hex(y) = c
        BY <3>9, HexDigits
      <4>2. q[m] = <<Percent, x, y>>
        BY <3>6, <3>9 DEF Code, Escaped
      <4> HIDE DEF x, y
      <4>3. Len(q[m]) = 3 /\ q[m][1] = Percent /\ q[m][2] = x /\ q[m][3] = y
        BY <4>2
      <4>4. 1 \in 1..3 /\ 2 \in 1..3 /\ 3 \in 1..3 /\ i \in 1..Len(t) /\ i + 3 = Len(f[m]) + 1
            /\ i + 2 <= Len(t) /\ Len(f[k]) + 2 = i + 1 /\ Len(f[k]) + 3 = i + 2 /\ i # Len(t)
        BY <1>7, <3>5, <4>3
      <4>5. t[i] = Percent /\ t[i + 1] = x /\ t[i + 2] = y
        <5>1. t[Len(f[k]) + 1] = q[m][1] /\ t[Len(f[k]) + 2] = q[m][2] /\ t[Len(f[k]) + 3] = q[m][3]
          BY <3>5, <4>3, <4>4
        <5> QED BY <4>3, <4>4, <5>1
      <4>6. x \in HexDigit /\ y \in HexDigit /\ x # 117
        BY <4>1 DEF EscapeChars, HexDigit, Digit, Percent
      <4>7. IsNumber(t, i + 1, 2)
        <5>1. (i + 1) + 2 - 1 = i + 2
          BY <4>4
        <5>2. \A j \in i + 1..i + 2 : j = i + 1 \/ j = i + 2
          <6>1. i \in Nat
            BY <4>4
          <6>2. \A a \in Nat : \A j \in a + 1..a + 2 : j = a + 1 \/ j = a + 2
            OBVIOUS
          <6> QED BY ONLY <6>1, <6>2
        <5>3. \A j \in i + 1..i + 2 : t[j] \in HexDigit
          BY <4>5, <4>6, <5>2
        <5> QED BY <4>4, <5>1, <5>3 DEF IsNumber
      <4>8. EscapeLength(t, i) = 3
        BY <4>4, <4>5, <4>6, <4>7 DEF EscapeLength
      <4>9. from_hex_to_i(t, i + 1, 2) = c
        <5>1. i + 1 \in Nat /\ 2 \in Nat /\ (i + 1) + 1 - 1 = i + 1 /\ (i + 1) + 2 - 1 = i + 2
          BY <4>4
        <5> DEFINE h == i + 1
        <5>2. h \in Nat /\ t[h + 1 - 1] = x /\ t[h + 2 - 1] = y
          BY <4>5, <5>1
        <5> HIDE DEF h
        <5>3. \A j \in 1..2 : t[h + j - 1] \in HexDigit
          <6>1. \A j \in 1..2 : j = 1 \/ j = 2
            OBVIOUS
          <6> QED BY <4>6, <5>2, <6>1
        <5>4. PICK g : HexValue(g, t, h, 2)
          BY <5>1, <5>2, <5>3, HexExists
        <5>5. from_hex_to_i(t, h, 2) = g[2]
          BY <5>1, <5>2, <5>4, HexRead
        <5>6. /\ g \in [0..2 -> Nat] /\ g[0] = 0
              /\ \A j \in 1..2 : g[j] = g[j - 1] * 16 + is_hex(t[h + j - 1])
          BY <5>4 DEF HexValue
        <5>7. 1 \in 1..2 /\ 2 \in 1..2 /\ 1 - 1 = 0 /\ 2 - 1 = 1
          OBVIOUS
        <5>8. g[1] = g[1 - 1] * 16 + is_hex(t[h + 1 - 1])
          BY ONLY <5>6, <5>7, Zenon
        <5>9. g[2] = g[2 - 1] * 16 + is_hex(t[h + 2 - 1])
          BY ONLY <5>6, <5>7, Zenon
        <5>10. is_hex(x) \in Nat /\ is_hex(y) \in Nat
          BY <4>6 DEF is_hex, HexDigit, Digit
        <5>11. g[1] = is_hex(x)
          BY <5>2, <5>6, <5>8, <5>10
        <5>12. g[2] = is_hex(x) * 16 + is_hex(y)
          BY <5>2, <5>9, <5>11
        <5> QED BY <4>1, <5>5, <5>12 DEF h
      <4>10. Unescaped(t, i, plus) = <<c>> /\ Width(t, i) = 3
        BY <4>8, <4>9 DEF Unescaped, Width
      <4>11. from[i] = Unescaped(t, i, plus) \o from[i + Width(t, i)]
        BY <1>6, <4>4 DEF Decoding
      <4> QED BY <3>1, <3>2, <3>4, <4>4, <4>10, <4>11
    <3> QED BY <3>8, <3>9
  <2> QED BY <2>1, <2>2
<1>11. \A k \in 0..n : k \in T
  <2> HIDE DEF T
  <2>1. 0 \in Int /\ n \in Int
    BY <1>1
  <2>2. \A k \in 0..n : (\A j \in k + 1..n : j \in T) => k \in T
    BY <1>10
  <2> QED BY ONLY <2>1, <2>2, Downwards
<1>12. 0 \in T
  BY <1>1, <1>11
<1>13. from[1] = SubSeq(s, 1, n)
  BY <1>9, <1>12
<1> QED BY <1>6, <1>13, SubSeqFull DEF t, n

----------------------------------------------------------------------------
(* Texts that are cut in two *)

\* one text and then another one
Cut(w, x, y) == w = x \o y

\* a text is what is before a place and what is after it
LEMMA CutInTwo ==
  ASSUME NEW S, NEW x \in Seq(S), NEW n \in 0..Len(x)
  PROVE  /\ SubSeq(x, 1, n) \in Seq(S) /\ Len(SubSeq(x, 1, n)) = n
         /\ SubSeq(x, n + 1, Len(x)) \in Seq(S) /\ Len(SubSeq(x, n + 1, Len(x))) = Len(x) - n
         /\ SubSeq(x, 1, n) \o SubSeq(x, n + 1, Len(x)) = x
<1>1. Len(x) \in Nat /\ n \in Nat /\ 0 \in Nat /\ 0 + 1 = 1 /\ n <= Len(x)
  BY LenProperties
<1>2. SubSeq(x, 0 + 1, n) \in Seq(S) /\ Len(SubSeq(x, 0 + 1, n)) = IF 0 <= n THEN n - 0 ELSE 0
  BY <1>1, PartOf
<1>3. /\ SubSeq(x, n + 1, Len(x)) \in Seq(S)
      /\ Len(SubSeq(x, n + 1, Len(x))) = IF n <= Len(x) THEN Len(x) - n ELSE 0
  BY <1>1, PartOf
<1>4. 1 \in 1..Len(x) + 1 /\ n \in 1 - 1..Len(x) /\ Len(x) \in n..Len(x)
  BY <1>1
<1>5. SubSeq(x, 1, n) \o SubSeq(x, n + 1, Len(x)) = SubSeq(x, 1, Len(x))
  BY <1>4, ConcatAdjacentSubSeq
<1>6. SubSeq(x, 1, Len(x)) = x
  BY SubSeqFull
<1>7. SubSeq(x, 1, n) \in Seq(S) /\ Len(SubSeq(x, 1, n)) = n
  BY <1>1, <1>2
<1>8. SubSeq(x, n + 1, Len(x)) \in Seq(S) /\ Len(SubSeq(x, n + 1, Len(x))) = Len(x) - n
  BY <1>1, <1>3
<1> QED BY <1>5, <1>6, <1>7, <1>8

\* a beginning that is no longer than another one of the same text begins that one
LEMMA FrontCut ==
  ASSUME NEW S, NEW x \in Seq(S), NEW y \in Seq(S), NEW a \in Seq(S), NEW r \in Seq(S), NEW w,
         Cut(w, x, y), Cut(w, a, r), Len(a) <= Len(x)
  PROVE  /\ \E z \in Seq(S) : Cut(x, a, z) /\ Cut(r, z, y)
         /\ SubSeq(x, 1, Len(a)) = a /\ Cut(r, SubSeq(x, Len(a) + 1, Len(x)), y)
<1>0. x \o y = a \o r
  BY DEF Cut
<1> DEFINE n == Len(a)
           t == x \o y
           b == SubSeq(x, 1, n)
           c == SubSeq(x, n + 1, Len(x))
<1>1. n \in Nat /\ Len(x) \in Nat /\ Len(y) \in Nat /\ Len(r) \in Nat /\ n <= Len(x)
  BY LenProperties
<1>2. n \in 0..Len(x)
  BY <1>1
<1>3. b \in Seq(S) /\ Len(b) = n /\ c \in Seq(S) /\ Len(c) = Len(x) - n /\ b \o c = x
  BY <1>2, CutInTwo, ZenonT(30)
<1> HIDE DEF b, c
<1>4. (b \o c) \o y = b \o (c \o y)
  <2>1. b \in Seq(S) /\ c \in Seq(S) /\ y \in Seq(S)
    BY <1>3
  <2> QED BY ONLY <2>1, ConcatAssociative, SMTT(30)
<1> DEFINE d == c \o y
<1>5. d \in Seq(S)
  BY <1>3, ConcatProperties
<1>6. b \o d = a \o r
  BY <1>0, <1>3, <1>4
<1> HIDE DEF d, n, t
<1>7. Len(b) = Len(a) /\ Len(d) \in Nat
  BY <1>3, <1>5, LenProperties DEF n
<1> DEFINE u == b \o d
           v == a \o r
<1>8. Len(u) = Len(b) + Len(d) /\ \A i \in 1..Len(b) + Len(d) : u[i] = IF i <= Len(b) THEN b[i] ELSE d[i - Len(b)]
  <2>1. b \in Seq(S) /\ d \in Seq(S)
    BY <1>3, <1>5
  <2> QED BY ONLY <2>1, ConcatProperties
<1>9. Len(v) = Len(a) + Len(r) /\ \A i \in 1..Len(a) + Len(r) : v[i] = IF i <= Len(a) THEN a[i] ELSE r[i - Len(a)]
  BY ConcatProperties
<1>10. u = v
  BY <1>6
<1> HIDE DEF u, v
<1>11. Len(a) \in Nat /\ Len(b) \in Nat
  BY <1>1, <1>7 DEF n
<1>12. Len(d) = Len(r)
  BY <1>1, <1>7, <1>8, <1>9, <1>10, <1>11
<1>13. \A i \in 1..Len(b) : b[i] = a[i]
  BY <1>1, <1>7, <1>8, <1>9, <1>10, <1>11, SMTT(30)
<1>14. \A i \in 1..Len(d) : d[i] = r[i]
  <2> SUFFICES ASSUME NEW i \in 1..Len(d) PROVE d[i] = r[i]
    OBVIOUS
  <2> DEFINE k == Len(a) + i
  <2>1. k \in 1..Len(a) + Len(d) /\ ~(k <= Len(a)) /\ k - Len(a) = i
    BY <1>7, <1>11
  <2> HIDE DEF k
  <2>2. u[k] = d[k - Len(b)] /\ v[k] = r[k - Len(a)]
    BY <1>7, <1>8, <1>9, <1>12, <2>1
  <2> QED BY <1>7, <1>10, <2>1, <2>2
<1>15. b = a /\ d = r
  BY <1>3, <1>5, <1>7, <1>12, <1>13, <1>14, SeqEqual
<1>16. Cut(x, a, c) /\ Cut(r, c, y) /\ c \in Seq(S)
  BY <1>3, <1>15 DEF d, Cut
<1>17. SubSeq(x, 1, Len(a)) = a /\ Cut(r, SubSeq(x, Len(a) + 1, Len(x)), y)
  BY <1>3, <1>15, <1>16 DEF b, c, n
<1> QED BY <1>16, <1>17

\* equal beginnings, equal ends
LEMMA SameFront ==
  ASSUME NEW S, NEW a \in Seq(S), NEW y \in Seq(S), NEW r \in Seq(S), a \o y = a \o r
  PROVE  y = r
BY ConcatSimplifications

\* the first pieces of a text are as long as the text allows
LEMMA ConcatLength ==
  ASSUME NEW S, NEW a \in Seq(S), NEW r \in Seq(S)
  PROVE  a \o r \in Seq(S) /\ Len(a \o r) = Len(a) + Len(r) /\ Len(a) \in Nat /\ Len(r) \in Nat
         /\ Len(a) <= Len(a \o r)
<1>1. a \o r \in Seq(S) /\ Len(a \o r) = Len(a) + Len(r)
  BY ConcatProperties
<1>2. Len(a) \in Nat /\ Len(r) \in Nat
  BY LenProperties
<1> QED BY <1>1, <1>2

\* the pieces of a text that is cut
LEMMA CutPieces ==
  ASSUME NEW S, NEW x \in Seq(S), NEW a \in Seq(S), NEW z \in Seq(S), Cut(x, a, z)
  PROVE  /\ SubSeq(x, 1, Len(a)) = a /\ SubSeq(x, Len(a) + 1, Len(x)) = z
         /\ Len(x) = Len(a) + Len(z) /\ Len(a) <= Len(x) /\ Len(a) \in Nat /\ Len(z) \in Nat
<1>1. Len(x) = Len(a) + Len(z) /\ Len(a) <= Len(x) /\ Len(a) \in Nat /\ Len(z) \in Nat
  BY ConcatLength DEF Cut
<1> DEFINE e == <<>>
<1>2. Cut(x, x, e) /\ e \in Seq(S)
  BY ConcatEmptySeq DEF Cut
<1> HIDE DEF e
<1>3. SubSeq(x, 1, Len(a)) = a /\ Cut(z, SubSeq(x, Len(a) + 1, Len(x)), e)
  <2>1. x \in Seq(S) /\ a \in Seq(S) /\ z \in Seq(S) /\ Cut(x, a, z) /\ Len(a) <= Len(x)
    BY <1>1
  <2> QED BY ONLY <1>2, <2>1, FrontCut
<1> DEFINE u == SubSeq(x, Len(a) + 1, Len(x))
<1>4. Len(a) \in 0..Len(x)
  BY <1>1
<1>5. u \in Seq(S)
  BY <1>4, CutInTwo
<1> HIDE DEF u
<1>6. z = u
  BY <1>3, <1>5, ConcatEmptySeq DEF Cut, u, e
<1> QED BY <1>1, <1>3, <1>6 DEF u

\* a text that begins with another one goes on after it
LEMMA PrefixCut ==
  ASSUME NEW S, NEW a \in Seq(S), NEW x \in Seq(S)
  PROVE  IsPrefix(a, x) <=> \E z \in Seq(S) : Cut(x, a, z)
<1>1. Len(a) \in Nat /\ Len(x) \in Nat /\ SubSeq(a, 1, Len(a)) = a
  BY LenProperties, SubSeqFull
<1>2. ASSUME IsPrefix(a, x) PROVE \E z \in Seq(S) : Cut(x, a, z)
  <2> DEFINE z == SubSeq(x, Len(a) + 1, Len(x))
  <2>1. Len(a) \in 0..Len(x) /\ SubSeq(x, 1, Len(a)) = a
    BY <1>1, <1>2 DEF IsPrefix
  <2>2. z \in Seq(S) /\ SubSeq(x, 1, Len(a)) \o z = x
    BY <2>1, CutInTwo
  <2> HIDE DEF z
  <2>3. Cut(x, a, z)
    BY <2>1, <2>2 DEF Cut
  <2> QED BY <2>2, <2>3
<1>3. ASSUME NEW z \in Seq(S), Cut(x, a, z) PROVE IsPrefix(a, x)
  <2>1. Len(a) <= Len(x)
    BY <1>3, ConcatLength DEF Cut
  <2>3. SubSeq(x, 1, Len(a)) = a
    BY <1>3, CutPieces
  <2> QED BY <1>1, <2>1, <2>3 DEF IsPrefix
<1> QED BY <1>2, <1>3

\* where nothing but the last place of a text and another one is the other one
NotBefore(a, part) == \A p \in 0..Len(a) - 1 : SubSeq(a \o part, p + 1, p + Len(part)) # part

\* a piece of the first of two texts is a piece of both
LEMMA PieceOf ==
  ASSUME NEW S, NEW x \in Seq(S), NEW y \in Seq(S), NEW p \in Nat, NEW n \in Nat, p + n <= Len(x)
  PROVE  SubSeq(x, p + 1, p + n) = SubSeq(x \o y, p + 1, p + n)
<1> DEFINE w == x \o y
<1>1. Len(x) \in Nat /\ Len(y) \in Nat
  BY LenProperties
<1>2. w \in Seq(S) /\ Len(w) = Len(x) + Len(y)
      /\ \A i \in 1..Len(x) + Len(y) : w[i] = IF i <= Len(x) THEN x[i] ELSE y[i - Len(x)]
  BY ConcatProperties
<1> HIDE DEF w
<1>3. p + n \in Nat /\ p + n <= Len(w) /\ p <= p + n
  BY <1>1, <1>2
<1> DEFINE j == p + n
           u == SubSeq(x, p + 1, j)
           v == SubSeq(w, p + 1, j)
<1>4. j \in Nat /\ j <= Len(x) /\ j <= Len(w) /\ p <= j /\ j - p = n
  BY <1>1, <1>3
<1> HIDE DEF j
<1>5. u \in Seq(S) /\ Len(u) = (IF p <= j THEN j - p ELSE 0) /\ \A i \in 1..j - p : u[i] = x[p + i]
  BY <1>4, PartOf
<1>6. v \in Seq(S) /\ Len(v) = (IF p <= j THEN j - p ELSE 0) /\ \A i \in 1..j - p : v[i] = w[p + i]
  BY <1>2, <1>4, PartOf
<1> HIDE DEF u, v
<1>7. \A i \in 1..n : u[i] = v[i]
  <2> SUFFICES ASSUME NEW i \in 1..n PROVE u[i] = v[i]
    OBVIOUS
  <2>1. p + i \in 1..Len(x) + Len(y) /\ p + i <= Len(x)
    BY <1>1
  <2> QED BY <1>2, <1>4, <1>5, <1>6, <2>1
<1>8. u = v
  BY <1>4, <1>5, <1>6, <1>7, SeqEqual
<1> QED BY <1>8 DEF u, v, w, j

\* the places of one text in another one
Spots(x, part) == {p \in 0..Len(x) - Len(part) : SubSeq(x, p + 1, p + Len(part)) = part}

\* what is found of a text at the beginning of another one
LEMMA FirstPlace ==
  ASSUME NEW S, NEW x \in Seq(S), NEW y \in Seq(S), NEW a \in Seq(S), NEW part \in Seq(S),
         NEW r \in Seq(S), NEW w, NEW b, part # <<>>, Cut(w, x, y), Cut(b, a, part), Cut(w, b, r),
         NotBefore(a, part)
  PROVE  /\ Spots(x, part) # {} <=> Len(a) + Len(part) <= Len(x)
         /\ Spots(x, part) # {} => Len(a) \in Spots(x, part) /\ \A p \in Spots(x, part) : Len(a) <= p
<1> DEFINE n == Len(part)
           F == Spots(x, part)
<1>0. w = x \o y /\ b = a \o part /\ w = b \o r
  BY DEF Cut
<1>1. b \in Seq(S) /\ Len(b) = Len(a) + n /\ Len(a) \in Nat /\ n \in Nat /\ Len(x) \in Nat
  BY <1>0, ConcatLength
<1>2. n > 0
  BY EmptySeq
<1>3. w = b \o r
  BY <1>0
<1>4. \A p \in Nat : p + n <= Len(x) => SubSeq(x, p + 1, p + n) = SubSeq(w, p + 1, p + n)
  <2> TAKE p \in Nat
  <2> HAVE p + n <= Len(x)
  <2>1. x \in Seq(S) /\ y \in Seq(S) /\ p \in Nat /\ n \in Nat /\ p + n <= Len(x)
    BY <1>1
  <2> HIDE DEF n
  <2>2. SubSeq(x, p + 1, p + n) = SubSeq(x \o y, p + 1, p + n)
    BY ONLY <2>1, PieceOf
  <2> QED BY <1>0, <2>2
<1>5. \A p \in Nat : p + n <= Len(a) + n => SubSeq(b, p + 1, p + n) = SubSeq(w, p + 1, p + n)
  <2> TAKE p \in Nat
  <2> HAVE p + n <= Len(a) + n
  <2>1. b \in Seq(S) /\ r \in Seq(S) /\ p \in Nat /\ n \in Nat /\ p + n <= Len(b)
    BY <1>1
  <2> HIDE DEF n
  <2>2. SubSeq(b, p + 1, p + n) = SubSeq(b \o r, p + 1, p + n)
    BY ONLY <2>1, PieceOf
  <2> QED BY <1>3, <2>2
<1>6. SubSeq(b, Len(a) + 1, Len(a) + n) = part
  <2>1. b \in Seq(S) /\ a \in Seq(S) /\ part \in Seq(S) /\ Cut(b, a, part)
    BY <1>1
  <2>2. SubSeq(b, Len(a) + 1, Len(b)) = part
    BY <2>1, CutPieces
  <2> QED BY <1>1, <2>2
<1>61. 0 <= Len(a) /\ Len(a) + n <= Len(a) + n /\ \A p \in Nat : p < Len(a) => p \in 0..Len(a) - 1 /\ p + n <= Len(a) + n
  BY <1>1
<1> HIDE DEF F
<1>7. \A p \in F : p \in Nat /\ p + n <= Len(x) /\ SubSeq(w, p + 1, p + n) = part
  <2> TAKE p \in F
  <2>1. p \in 0..Len(x) - n /\ SubSeq(x, p + 1, p + n) = part
    BY DEF F, Spots
  <2>2. p \in Nat /\ p + n <= Len(x)
    BY <1>1, <2>1
  <2> QED BY <1>4, <2>1, <2>2
<1>8. \A p \in F : Len(a) <= p
  <2> HIDE DEF n
  <2> SUFFICES ASSUME NEW p \in F, ~(Len(a) <= p) PROVE FALSE
    OBVIOUS
  <2>0. p \in Nat /\ p < Len(a)
    BY <1>1, <1>7
  <2>1. p \in 0..Len(a) - 1 /\ p + n <= Len(a) + n /\ p \in Nat
    BY <1>61, <2>0
  <2>2. SubSeq(b, p + 1, p + n) = part
    BY <1>5, <1>7, <2>1
  <2> QED BY <1>0, <2>1, <2>2 DEF NotBefore, n
<1>9. ASSUME Len(a) + n <= Len(x) PROVE Len(a) \in F
  <2>1. Len(a) \in 0..Len(x) - n
    BY <1>1, <1>9
  <2> HIDE DEF n
  <2>2. SubSeq(w, Len(a) + 1, Len(a) + n) = part
    BY <1>1, <1>5, <1>6, <1>61
  <2>3. SubSeq(x, Len(a) + 1, Len(a) + n) = part
    BY <1>1, <1>4, <1>9, <2>2
  <2> QED BY <2>1, <2>3 DEF n, F, Spots
<1>10. ASSUME F # {} PROVE Len(a) + n <= Len(x)
  <2>1. PICK p \in F : TRUE
    BY <1>10
  <2> HIDE DEF n
  <2>2. p \in Nat /\ p + n <= Len(x) /\ Len(a) <= p
    BY <1>7, <1>8, <2>1
  <2> QED BY <1>1, <2>2
<1> QED BY <1>8, <1>9, <1>10 DEF n, F

LEMMA CutType ==
  ASSUME NEW S, NEW x \in Seq(S), NEW y \in Seq(S), NEW w, Cut(w, x, y)
  PROVE  w \in Seq(S)
BY ConcatProperties DEF Cut

LEMMA CutSame ==
  ASSUME NEW S, NEW a \in Seq(S), NEW y \in Seq(S), NEW r \in Seq(S), NEW w, Cut(w, a, y), Cut(w, a, r)
  PROVE  y = r
BY SameFront DEF Cut

\* three texts: the middle one with the last, or with the first
LEMMA CutLeft ==
  ASSUME NEW S, NEW a \in Seq(S), NEW b \in Seq(S), NEW y \in Seq(S), NEW x, NEW w,
         Cut(w, x, y), Cut(x, a, b)
  PROVE  \E t \in Seq(S) : Cut(t, b, y) /\ Cut(w, a, t)
<1> DEFINE t == b \o y
<1>1. t \in Seq(S) /\ Cut(t, b, y)
  BY ConcatProperties DEF Cut
<1>2. (a \o b) \o y = a \o (b \o y)
  BY ConcatAssociative
<1>3. Cut(w, a, t)
  BY <1>2 DEF Cut
<1> QED BY <1>1, <1>3

LEMMA CutRight ==
  ASSUME NEW S, NEW x \in Seq(S), NEW a \in Seq(S), NEW b \in Seq(S), NEW y, NEW w,
         Cut(w, x, y), Cut(y, a, b)
  PROVE  \E t \in Seq(S) : Cut(t, x, a) /\ Cut(w, t, b)
<1> DEFINE t == x \o a
<1>1. t \in Seq(S) /\ Cut(t, x, a)
  BY ConcatProperties DEF Cut
<1>2. (x \o a) \o b = x \o (a \o b)
  BY ConcatAssociative
<1>3. Cut(w, t, b)
  BY <1>2 DEF Cut
<1> QED BY <1>1, <1>3

\* how a text begins
LEMMA CutFirst ==
  ASSUME NEW S, NEW a \in Seq(S), NEW z \in Seq(S), NEW w, Cut(w, a, z), NEW i \in 1..Len(a)
  PROVE  w[i] = a[i] /\ i \in 1..Len(w)
<1>1. w \in Seq(S) /\ Len(w) = Len(a) + Len(z) /\ Len(a) \in Nat /\ Len(z) \in Nat
  BY ConcatLength DEF Cut
<1>2. \A k \in 1..Len(a) + Len(z) : (a \o z)[k] = IF k <= Len(a) THEN a[k] ELSE z[k - Len(a)]
  BY ConcatProperties
<1> QED BY <1>1, <1>2 DEF Cut

\* a text that is found ends at the place where it is found
FoundAt(w, x, y, part, p, S) ==
  \E a \in Seq(S), b \in Seq(S), r \in Seq(S) :
    /\ Cut(b, a, part) /\ Cut(w, b, r) /\ SubSeq(x, 1, p) = a /\ Len(a) = p
    /\ Cut(r, SubSeq(x, p + Len(part) + 1, Len(x)), y)

LEMMA FoundCut ==
  ASSUME NEW S, NEW x \in Seq(S), NEW y \in Seq(S), NEW part \in Seq(S), NEW w, Cut(w, x, y),
         NEW p \in Spots(x, part)
  PROVE  FoundAt(w, x, y, part, p, S) /\ p \in Nat /\ p + Len(part) \in 0..Len(x)
<1> DEFINE a == SubSeq(x, 1, p)
           n == p + Len(part)
           b == SubSeq(x, 1, n)
           z == SubSeq(x, n + 1, Len(x))
           r == z \o y
<1>1. /\ Len(x) \in Nat /\ Len(part) \in Nat /\ p \in Nat /\ p <= Len(x) - Len(part)
      /\ SubSeq(x, p + 1, p + Len(part)) = part
  BY LenProperties DEF Spots
<1>2. p \in 0..Len(x) /\ n \in 0..Len(x)
  BY <1>1
<1>3. a \in Seq(S) /\ Len(a) = p
  BY <1>2, CutInTwo
<1>4. b \in Seq(S) /\ z \in Seq(S) /\ b \o z = x
  <2> HIDE DEF n
  <2> QED BY <1>2, CutInTwo
<1>5. SubSeq(x, 1, p) \o SubSeq(x, p + 1, n) = SubSeq(x, 1, n)
  <2>1. 1 \in 1..Len(x) + 1 /\ p \in 1 - 1..Len(x) /\ n \in p..Len(x)
    BY <1>1
  <2> HIDE DEF n
  <2> QED BY <2>1, ConcatAdjacentSubSeq
<1>6. Cut(b, a, part)
  BY <1>1, <1>5 DEF Cut
<1>7. r \in Seq(S)
  <2> HIDE DEF z
  <2> QED BY <1>4, ConcatProperties
<1>8. Cut(w, b, r)
  <2> HIDE DEF b, z
  <2>1. Cut(x, b, z)
    BY <1>4 DEF Cut
  <2>2. PICK t \in Seq(S) : Cut(t, z, y) /\ Cut(w, b, t)
    BY <1>4, <2>1, CutLeft
  <2> QED BY <2>2 DEF Cut, r
<1>9. Cut(r, z, y)
  BY DEF Cut
<1> HIDE DEF r, b
<1> QED BY <1>1, <1>2, <1>3, <1>4, <1>6, <1>7, <1>8, <1>9 DEF FoundAt

\* what is before a text has no end that could be taken for its beginning
LEMMA NotBeforeFirst ==
  ASSUME NEW S, NEW a \in Seq(S), NEW part \in Seq(S), part # <<>>, Without(a, part[1])
  PROVE  NotBefore(a, part)
<1> SUFFICES ASSUME NEW p \in 0..Len(a) - 1, SubSeq(a \o part, p + 1, p + Len(part)) = part
             PROVE  FALSE
  BY DEF NotBefore
<1> DEFINE b == a \o part
           n == p + Len(part)
           u == SubSeq(b, p + 1, n)
<1>1. b \in Seq(S) /\ Len(b) = Len(a) + Len(part) /\ Len(a) \in Nat /\ Len(part) \in Nat
  BY ConcatLength
<1>2. Len(part) >= 1
  BY EmptySeq
<1>3. \A i \in 1..Len(a) + Len(part) : b[i] = IF i <= Len(a) THEN a[i] ELSE part[i - Len(a)]
  BY ConcatProperties
<1>4. p \in Nat /\ n \in Nat /\ n <= Len(b) /\ 1 \in 1..n - p
  BY <1>1, <1>2
<1> HIDE DEF n, b
<1>5. u[1] = b[p + 1]
  BY <1>1, <1>4, PartOf
<1>6. u[1] = part[1]
  BY DEF n, b
<1> HIDE DEF u
<1>7. p + 1 \in 1..Len(a) /\ p + 1 \in 1..Len(a) + Len(part) /\ p + 1 <= Len(a)
  BY <1>1, <1>2
<1>8. b[p + 1] = a[p + 1]
  BY <1>3, <1>7
<1> QED BY <1>5, <1>6, <1>7, <1>8 DEF Without

\* a text that occurs in another one does not begin in front of it, when its first
\* character does not come again in it
LEMMA NotBeforeRest ==
  ASSUME NEW S, NEW a \in Seq(S), NEW part \in Seq(S), part # <<>>,
         \A i \in 2..Len(part) : part[i] # part[1],
         \A x \in Seq(S), b \in Seq(S), r \in Seq(S) : ~(Cut(b, x, part) /\ Cut(a, b, r))
  PROVE  NotBefore(a, part)
<1> SUFFICES ASSUME NEW p \in 0..Len(a) - 1, SubSeq(a \o part, p + 1, p + Len(part)) = part
             PROVE  FALSE
  BY DEF NotBefore
<1> DEFINE b == a \o part
           n == p + Len(part)
           u == SubSeq(b, p + 1, n)
<1>1. b \in Seq(S) /\ Len(b) = Len(a) + Len(part) /\ Len(a) \in Nat /\ Len(part) \in Nat
  BY ConcatLength
<1>2. Len(part) >= 1
  BY EmptySeq
<1>3. \A i \in 1..Len(a) + Len(part) : b[i] = IF i <= Len(a) THEN a[i] ELSE part[i - Len(a)]
  BY ConcatProperties
<1>4. p \in Nat /\ n \in Nat /\ n <= Len(b) /\ n - p = Len(part) /\ Len(a) - p \in Nat
  BY <1>1, <1>2
<1>5. CASE n <= Len(a)
  <2>1. SubSeq(a, p + 1, p + Len(part)) = SubSeq(a \o part, p + 1, p + Len(part))
    <3>1. p + Len(part) <= Len(a) /\ p \in Nat /\ Len(part) \in Nat
      BY <1>1, <1>5
    <3> QED BY <3>1, PieceOf
  <2>2. SubSeq(a, p + 1, p + Len(part)) = part /\ p <= Len(a) - Len(part) /\ p \in Nat
    BY <1>1, <1>5, <2>1
  <2> DEFINE e == <<>>
  <2>3. Cut(a, a, e) /\ e \in Seq(S)
    BY ConcatEmptySeq DEF Cut
  <2> HIDE DEF e
  <2>4. \E x \in Seq(S), y \in Seq(S), r \in Seq(S) : Cut(y, x, part) /\ Cut(a, y, r)
    <3>1. p \in Spots(a, part)
      <4>1. p \in 0..Len(a) - Len(part)
        BY <1>1, <1>5
      <4> QED BY <2>2, <4>1 DEF Spots
    <3>2. FoundAt(a, a, e, part, p, S)
      BY <2>3, <3>1, FoundCut
    <3> QED BY <3>2 DEF FoundAt
  <2> QED BY <2>4
<1>6. CASE ~(n <= Len(a))
  <2> DEFINE i == Len(a) - p + 1
  <2>1. i \in 2..Len(part) /\ i \in 1..n - p /\ p + i = Len(a) + 1
    BY <1>1, <1>4, <1>6
  <2> HIDE DEF i, n, b
  <2>2. u[i] = b[p + i]
    BY <1>1, <1>4, <2>1, PartOf
  <2>3. u[i] = part[i]
    BY DEF n, b
  <2> HIDE DEF u
  <2>4. b[Len(a) + 1] = part[1]
    <3>1. Len(a) + 1 \in 1..Len(a) + Len(part) /\ ~(Len(a) + 1 <= Len(a)) /\ Len(a) + 1 - Len(a) = 1
      BY <1>1, <1>2
    <3> QED BY <1>3, <3>1
  <2> QED BY <2>1, <2>2, <2>3, <2>4
<1> QED BY <1>5, <1>6

----------------------------------------------------------------------------
(* Paths *)

LEMMA FoundFrom ==
  ASSUME NEW s, NEW text, NEW i \in Int, Len(s) \in Nat, Len(text) \in Nat,
         FindFrom(s, text, i) # -1
  PROVE  /\ FindFrom(s, text, i) \in i..Len(s) - Len(text)
         /\ SubSeq(s, FindFrom(s, text, i) + 1, FindFrom(s, text, i) + Len(text)) = text
         /\ \A p \in i..Len(s) - Len(text) :
              SubSeq(s, p + 1, p + Len(text)) = text => FindFrom(s, text, i) <= p
<1> DEFINE spots == {p \in i..Len(s) - Len(text) : SubSeq(s, p + 1, p + Len(text)) = text}
           first == CHOOSE p \in spots : \A q \in spots : p <= q
<1>1. spots # {} /\ FindFrom(s, text, i) = first
  BY DEF FindFrom
<1>2. \E p \in spots : \A q \in spots : p <= q
  <2>1. spots \in SUBSET (i..Len(s) - Len(text)) /\ Len(s) - Len(text) \in Int
    OBVIOUS
  <2> HIDE DEF spots
  <2> QED BY <1>1, <2>1, Smallest
<1>3. first \in spots /\ \A q \in spots : first <= q
  BY <1>2
<1> HIDE DEF first
<1> QED BY <1>1, <1>3

LEMMA FoundNowhere ==
  ASSUME NEW s, NEW text, NEW i \in Nat, Len(s) \in Nat, Len(text) \in Nat,
         FindFrom(s, text, i) = -1
  PROVE  \A p \in i..Len(s) - Len(text) : SubSeq(s, p + 1, p + Len(text)) # text
<1> DEFINE spots == {p \in i..Len(s) - Len(text) : SubSeq(s, p + 1, p + Len(text)) = text}
           first == CHOOSE p \in spots : \A q \in spots : p <= q
<1>1. SUFFICES ASSUME spots # {} PROVE FALSE
  OBVIOUS
<1>2. \E p \in spots : \A q \in spots : p <= q
  <2>1. spots \in SUBSET (i..Len(s) - Len(text)) /\ Len(s) - Len(text) \in Int /\ i \in Int
    OBVIOUS
  <2> HIDE DEF spots
  <2> QED BY <1>1, <2>1, Smallest
<1>3. first \in spots
  BY <1>2
<1>4. FindFrom(s, text, i) = first
  BY <1>1 DEF FindFrom
<1> HIDE DEF first
<1>5. first \in Nat
  BY <1>3
<1> QED BY <1>4, <1>5

\* one character as a text
LEMMA OneCharacter ==
  ASSUME NEW S, NEW s \in Seq(S), NEW p \in Nat, p < Len(s), NEW c
  PROVE  SubSeq(s, p + 1, p + 1) = <<c>> <=> s[p + 1] = c
<1>1. Len(s) \in Nat
  BY LenProperties
<1>2. /\ SubSeq(s, p + 1, p + 1) \in Seq(S) /\ Len(SubSeq(s, p + 1, p + 1)) = 1
      /\ SubSeq(s, p + 1, p + 1)[1] = s[p + 1]
  <2>1. p + 1 \in Nat /\ p + 1 <= Len(s) /\ 1 \in 1..(p + 1) - p /\ p <= p + 1 /\ (p + 1) - p = 1
    BY <1>1
  <2>2. /\ SubSeq(s, p + 1, p + 1) \in Seq(S)
        /\ Len(SubSeq(s, p + 1, p + 1)) = IF p <= p + 1 THEN (p + 1) - p ELSE 0
        /\ \A r \in 1..(p + 1) - p : SubSeq(s, p + 1, p + 1)[r] = s[p + r]
    BY <2>1, PartOf
  <2> QED BY <2>1, <2>2
<1> DEFINE t == SubSeq(s, p + 1, p + 1)
<1>5. t \in Seq(S) /\ Len(t) = 1
  BY <1>2
<1> HIDE DEF t
<1>3. t = <<t[1]>>
  BY <1>5
<1>4. t = <<c>> <=> t[1] = c
  BY <1>3
<1> QED BY <1>2, <1>4 DEF t

\* a path component ends at a slash or at the end
LEMMA SeparatedAt ==
  ASSUME NEW s \in Seq(Nat), NEW i \in 0..Len(s)
  PROVE  /\ Separated(s, i) \in i..Len(s)
         /\ \A p \in i + 1..Separated(s, i) : s[p] # Slash
         /\ Separated(s, i) < Len(s) => s[Separated(s, i) + 1] = Slash
<1>1. Len(s) \in Nat /\ Len(<<Slash>>) = 1 /\ i \in Nat /\ i \in Int
  BY LenProperties
<1> DEFINE t == <<Slash>>
           e == FindFrom(s, t, i)
<1>2. Len(t) = 1 /\ Len(t) \in Nat
  BY <1>1
<1>3. \A p \in Nat : p < Len(s) => (SubSeq(s, p + 1, p + 1) = t <=> s[p + 1] = Slash)
  BY OneCharacter
<1> HIDE DEF t
<1>4. CASE e = -1
  <2>1. Separated(s, i) = Len(s)
    BY <1>4 DEF Separated, t
  <2>4. \A p \in i..Len(s) - Len(t) : SubSeq(s, p + 1, p + Len(t)) # t
    BY <1>1, <1>2, <1>4, FoundNowhere
  <2>2. \A p \in i..Len(s) - 1 : SubSeq(s, p + 1, p + 1) # t
    BY <1>2, <2>4
  <2>3. ASSUME NEW p \in i + 1..Len(s) PROVE s[p] # Slash
    <3>1. p - 1 \in i..Len(s) - 1 /\ p - 1 \in Nat /\ p - 1 < Len(s) /\ (p - 1) + 1 = p
      BY <1>1
    <3> QED BY <1>3, <2>2, <3>1
  <2> QED BY <1>1, <2>1, <2>3
<1>5. CASE e # -1
  <2>1. Separated(s, i) = e
    BY <1>5 DEF Separated, t
  <2>2. /\ e \in i..Len(s) - 1 /\ SubSeq(s, e + 1, e + 1) = t
        /\ \A p \in i..Len(s) - 1 : SubSeq(s, p + 1, p + 1) = t => e <= p
    <3>1. /\ e \in i..Len(s) - Len(t) /\ SubSeq(s, e + 1, e + Len(t)) = t
          /\ \A p \in i..Len(s) - Len(t) : SubSeq(s, p + 1, p + Len(t)) = t => e <= p
      BY <1>1, <1>2, <1>5, FoundFrom
    <3> QED BY <1>2, <3>1
  <2> HIDE DEF e
  <2>3. e \in Nat /\ e < Len(s) /\ s[e + 1] = Slash
    <3>1. e \in Nat /\ e < Len(s)
      BY <1>1, <2>2
    <3> QED BY <1>3, <2>2, <3>1
  <2>4. ASSUME NEW p \in i + 1..e PROVE s[p] # Slash
    <3>1. p - 1 \in i..Len(s) - 1 /\ p - 1 \in Nat /\ p - 1 < Len(s) /\ (p - 1) + 1 = p /\ ~(e <= p - 1)
      BY <1>1, <2>3
    <3> QED BY <1>3, <2>2, <3>1
  <2> QED BY <1>1, <2>1, <2>2, <2>3, <2>4
<1> QED BY <1>4, <1>5

----------------------------------------------------------------------------
(* PathParamsMatcher *)

Text == Texts

\* fixed texts with parameters; only the last one may have none
Shaped == {q \in Seq(Seq(Text)) :
             \A k \in 1..Len(q) : Len(q[k]) \in {1, 2} /\ (Len(q[k]) = 1 => k = Len(q))}

LEMMA ShapedCons ==
  ASSUME NEW x \in Text, NEW y \in Text, NEW q \in Shaped
  PROVE  << <<x, y>> >> \o q \in Shaped
<1> DEFINE a == << <<x, y>> >>
<1>1. <<x, y>> \in Seq(Text) /\ Len(<<x, y>>) = 2
  OBVIOUS
<1>2. a \in Seq(Seq(Text)) /\ Len(a) = 1 /\ a[1] = <<x, y>>
  BY <1>1
<1>3. q \in Seq(Seq(Text)) /\ Len(q) \in Nat
      /\ \A k \in 1..Len(q) : Len(q[k]) \in {1, 2} /\ (Len(q[k]) = 1 => k = Len(q))
  BY LenProperties DEF Shaped
<1> HIDE DEF a
<1>4. /\ a \o q \in Seq(Seq(Text)) /\ Len(a \o q) = Len(a) + Len(q)
      /\ \A i \in 1..Len(a) + Len(q) : (a \o q)[i] = IF i <= Len(a) THEN a[i] ELSE q[i - Len(a)]
  BY <1>2, <1>3, ConcatProperties
<1>5. ASSUME NEW k \in 1..Len(a \o q)
      PROVE  Len((a \o q)[k]) \in {1, 2} /\ (Len((a \o q)[k]) = 1 => k = Len(a \o q))
  <2>1. k \in 1..Len(a) + Len(q)
    BY <1>4
  <2>2. CASE k = 1
    <3>1. (a \o q)[k] = <<x, y>>
      BY <1>2, <1>4, <2>1, <2>2
    <3> QED BY <1>1, <3>1
  <2>3. CASE k # 1
    <3>1. k - 1 \in 1..Len(q) /\ (a \o q)[k] = q[k - 1]
      BY <1>2, <1>3, <1>4, <2>1, <2>3
    <3>2. Len(q[k - 1]) \in {1, 2} /\ (Len(q[k - 1]) = 1 => k - 1 = Len(q))
      BY <1>3, <3>1
    <3> QED BY <1>2, <1>3, <1>4, <3>1, <3>2
  <2> QED BY <2>2, <2>3
<1> QED BY <1>4, <1>5 DEF Shaped, a

LEMMA ShapedLast ==
  /\ <<>> \in Shaped
  /\ \A x \in Text : << <<x>> >> \in Shaped
<1>1. <<>> \in Shaped
  BY EmptySeq DEF Shaped
<1>2. ASSUME NEW x \in Text PROVE << <<x>> >> \in Shaped
  <2> DEFINE b == <<x>>
             a == <<b>>
  <2>1. b \in Seq(Text) /\ Len(b) = 1
    OBVIOUS
  <2> HIDE DEF b
  <2>2. a \in Seq(Seq(Text)) /\ Len(a) = 1 /\ a[1] = b
    BY <2>1
  <2> HIDE DEF a
  <2>3. a \in Shaped
    <3>1. ASSUME NEW k \in 1..Len(a) PROVE Len(a[k]) \in {1, 2} /\ (Len(a[k]) = 1 => k = Len(a))
      <4>1. k = 1
        BY <2>2
      <4> QED BY <2>1, <2>2, <4>1
    <3> QED BY <2>2, <3>1 DEF Shaped
  <2> QED BY <2>3 DEF a, b
<1> QED BY <1>1, <1>2

LEMMA MatcherShaped ==
  ASSUME NEW pattern \in Text
  PROVE  PathParamsMatcher(pattern) \in Shaped
<1> DEFINE n == Len(pattern)
           marker(e) == FindFrom(pattern, <<Slash, Colon>>, IF e = 0 THEN 0 ELSE e - 1)
           sep(e) == Separated(pattern, marker(e) + 2)
           pair(e) == <<SubSeq(pattern, e + 1, marker(e) + 1), SubSeq(pattern, marker(e) + 3, sep(e))>>
           last(e) == IF e < n THEN << <<SubSeq(pattern, e + 1, n)>> >> ELSE <<>>
           made(e, f) == IF marker(e) >= 0 THEN <<pair(e)>> \o f[sep(e) + 1] ELSE last(e)
           from == CHOOSE f : f = [e \in 0..n + 1 |-> made(e, f)]
           step == [e \in 0..n + 1 |-> [f \in [0..n + 1 -> Shaped] |-> made(e, f)]]
<1>1. n \in Nat /\ pattern \in Seq(Nat)
  BY LenProperties DEF Text, Texts
<1>2. PathParamsMatcher(pattern) = from[0]
  BY Zenon DEF PathParamsMatcher
<1>3. ASSUME NEW e \in 0..n + 1, marker(e) >= 0
      PROVE  /\ sep(e) + 1 \in e + 1..n + 1 /\ sep(e) + 1 \in 0..n + 1
             /\ \E x \in Text, y \in Text : pair(e) = <<x, y>>
  <2> DEFINE i == IF e = 0 THEN 0 ELSE e - 1
             t == <<Slash, Colon>>
  <2>1. i \in Int /\ i >= 0 /\ i >= e - 1 /\ Len(t) = 2 /\ Len(t) \in Nat
    OBVIOUS
  <2>2. marker(e) = FindFrom(pattern, t, i)
    OBVIOUS
  <2>3. FindFrom(pattern, t, i) # -1
    BY <1>3, <2>2
  <2>4. FindFrom(pattern, t, i) \in i..Len(pattern) - Len(t)
    <3> HIDE DEF t, i
    <3> QED BY <1>1, <2>1, <2>3, FoundFrom
  <2> DEFINE m == marker(e)
             z == sep(e)
  <2>5. m \in i..n - 2
    BY <2>1, <2>2, <2>4
  <2> HIDE DEF i
  <2>6. m \in Nat /\ m + 2 \in 0..n /\ m >= e - 1
    <3> HIDE DEF m
    <3> QED BY <1>1, <2>1, <2>5
  <2>7. z \in m + 2..n
    <3> HIDE DEF m
    <3>1. Separated(pattern, m + 2) \in m + 2..Len(pattern)
      BY <1>1, <2>6, SeparatedAt
    <3> QED BY <3>1 DEF m
  <2>8. sep(e) + 1 = z + 1 /\ pair(e) = <<SubSeq(pattern, e + 1, m + 1), SubSeq(pattern, (m + 2) + 1, z)>>
    <3>1. m + 3 = (m + 2) + 1
      <4> HIDE DEF m
      <4> QED BY <2>6
    <3> QED BY <3>1
  <2> HIDE DEF m, z, pair, sep, marker
  <2>9. z + 1 \in e + 1..n + 1 /\ z + 1 \in 0..n + 1 /\ z \in Nat /\ z <= Len(pattern)
        /\ m + 1 \in Nat /\ m + 1 <= Len(pattern) /\ e \in Nat /\ m + 2 \in Nat
    BY <1>1, <2>6, <2>7
  <2>10. SubSeq(pattern, e + 1, m + 1) \in Text /\ SubSeq(pattern, (m + 2) + 1, z) \in Text
    BY <1>1, <2>9, PartOf DEF Text, Texts
  <2> QED BY <2>8, <2>9, <2>10
<1>4. ASSUME NEW e \in 0..n + 1 PROVE last(e) \in Shaped
  <2>1. CASE e < n
    <3>1. e \in Nat /\ n <= Len(pattern)
      BY <1>1
    <3>2. SubSeq(pattern, e + 1, n) \in Text
      BY <1>1, <3>1, PartOf DEF Text, Texts
    <3> QED BY <2>1, <3>2, ShapedLast
  <2>2. CASE ~(e < n)
    BY <2>2, ShapedLast
  <2> QED BY <2>1, <2>2
<1> HIDE DEF marker, sep, pair, last
<1>5. ASSUME NEW e \in 0..n + 1, NEW f, \A j \in e + 1..n + 1 : f[j] \in Shaped
      PROVE  made(e, f) \in Shaped
  <2>1. CASE marker(e) >= 0
    <3>1. PICK x \in Text, y \in Text : pair(e) = <<x, y>>
      BY <1>3, <2>1
    <3>2. f[sep(e) + 1] \in Shaped
      BY <1>3, <1>5, <2>1
    <3>3. << <<x, y>> >> \o f[sep(e) + 1] \in Shaped
      BY <3>2, ShapedCons
    <3> QED BY <2>1, <3>1, <3>3
  <2>2. CASE ~(marker(e) >= 0)
    BY <1>4, <2>2
  <2> QED BY <2>1, <2>2
<1>6. ASSUME NEW e \in 0..n + 1, NEW f, NEW g, \A j \in e + 1..n + 1 : f[j] = g[j]
      PROVE  made(e, f) = made(e, g)
  BY <1>3, <1>6
<1> HIDE DEF made
<1>7. \E f : f = [e \in 0..n + 1 |-> made(e, f)]
  <2>1. \A e \in 0..n + 1 : \A f \in [0..n + 1 -> Shaped] : step[e][f] = made(e, f)
    OBVIOUS
  <2> HIDE DEF step
  <2>2. \A e \in 0..n + 1 : \A f \in [0..n + 1 -> Shaped] : step[e][f] \in Shaped
    <3>1. ASSUME NEW e \in 0..n + 1, NEW f \in [0..n + 1 -> Shaped] PROVE made(e, f) \in Shaped
      <4>1. \A j \in e + 1..n + 1 : f[j] \in Shaped
        BY <1>1
      <4> QED BY <1>5, <4>1
    <3> QED BY <2>1, <3>1
  <2>3. \A e \in 0..n + 1 : \A f \in [0..n + 1 -> Shaped], g \in [0..n + 1 -> Shaped] :
          (\A j \in e + 1..n + 1 : f[j] = g[j]) => step[e][f] = step[e][g]
    BY <1>6, <2>1
  <2>4. Shaped # {}
    BY ShapedLast
  <2> DEFINE hi == n + 1
  <2>5. hi \in Int /\ 0 \in Int
    BY <1>1
  <2> HIDE DEF n
  <2>6. \E f : Backward(f, 0, hi, Shaped, step)
    BY <2>2, <2>3, <2>4, <2>5, BackwardFunction
  <2>7. PICK f : Backward(f, 0, hi, Shaped, step)
    BY <2>6
  <2>8. f \in [0..n + 1 -> Shaped] /\ \A e \in 0..n + 1 : f[e] = made(e, f)
    BY <2>1, <2>7 DEF Backward
  <2>9. f = [e \in 0..n + 1 |-> made(e, f)]
    BY <2>8
  <2> QED BY <2>9
<1>8. from = [e \in 0..n + 1 |-> made(e, from)]
  BY <1>7
<1> HIDE DEF from
<1>9. \A e \in 0..n + 1 : from[e] = made(e, from)
  BY <1>8
<1> DEFINE T == {e \in 0..n + 1 : from[e] \in Shaped}
<1>10. \A e \in 0..n + 1 : (\A j \in e + 1..n + 1 : j \in T) => e \in T
  BY <1>5, <1>9
<1>11. \A e \in 0..n + 1 : e \in T
  <2> HIDE DEF T
  <2>1. n + 1 \in Int /\ 0 \in Int
    BY <1>1
  <2> QED BY ONLY <1>10, <2>1, Downwards
<1>12. 0 \in 0..n + 1
  BY <1>1
<1> QED BY <1>2, <1>11, <1>12

----------------------------------------------------------------------------
(* match() *)

Result == [matches : BOOLEAN, values : Seq(Text)]

\* what match() makes of the parts from k on when it has come to "at"
MatchedAt(parts, p, from, k, at) ==
  LET end  == at + Len(parts[k][1])
      sep  == Separated(p, end)
      rest == from[k + 1][sep + 1]
  IN /\ k > Len(parts) => from[k][at] = [NoMatch EXCEPT !.matches = at >= Len(p)]
     /\ k <= Len(parts) =>
          from[k][at] =
            IF end > Len(p) \/ SubSeq(p, at + 1, end) # parts[k][1] THEN NoMatch
            ELSE IF Len(parts[k]) = 1 THEN from[k + 1][end]
            ELSE [rest EXCEPT !.values = <<SubSeq(p, end + 1, sep)>> \o @]

LEMMA ResultCons ==
  ASSUME NEW r \in Result, NEW v \in Text
  PROVE  /\ [r EXCEPT !.values = <<v>> \o @] \in Result
         /\ [r EXCEPT !.values = <<v>> \o @].matches = r.matches
         /\ [r EXCEPT !.values = <<v>> \o @].values = <<v>> \o r.values
<1>1. r.values \in Seq(Text) /\ <<v>> \in Seq(Text) /\ r = [matches |-> r.matches, values |-> r.values]
      /\ r.matches \in BOOLEAN
  BY DEF Result
<1>2. <<v>> \o r.values \in Seq(Text)
  BY <1>1, ConcatProperties
<1> QED BY <1>1, <1>2 DEF Result

LEMMA MatchUnfolds ==
  ASSUME NEW pattern \in Text, NEW p \in Text
  PROVE  \E from : /\ match(pattern, p) = from[1][0]
                   /\ \A k \in 1..Len(PathParamsMatcher(pattern)) + 1 : \A at \in 0..Len(p) + 1 :
                        /\ from[k][at] \in Result
                        /\ MatchedAt(PathParamsMatcher(pattern), p, from, k, at)
<1> DEFINE parts == PathParamsMatcher(pattern)
           n == Len(parts)
           L == Len(p)
           A == 0..L + 1
           V == [A -> Result]
           end(k, at) == at + Len(parts[k][1])
           sep(k, at) == Separated(p, end(k, at))
           with(rest, v) == [rest EXCEPT !.values = <<v>> \o @]
           cell(k, at, f) ==
             IF k > n THEN [NoMatch EXCEPT !.matches = at >= L]
             ELSE IF end(k, at) > L \/ SubSeq(p, at + 1, end(k, at)) # parts[k][1] THEN NoMatch
             ELSE IF Len(parts[k]) = 1 THEN f[k + 1][end(k, at)]
             ELSE with(f[k + 1][sep(k, at) + 1], SubSeq(p, end(k, at) + 1, sep(k, at)))
           made(k, f) == [at \in A |-> cell(k, at, f)]
           from == CHOOSE f : f = [k \in 1..n + 1 |-> made(k, f)]
           step == [k \in 1..n + 1 |-> [f \in [1..n + 1 -> V] |-> made(k, f)]]
<1>1. /\ n \in Nat /\ L \in Nat /\ p \in Seq(Nat)
      /\ \A k \in 1..n : parts[k] \in Seq(Text) /\ Len(parts[k]) \in {1, 2}
  <2>1. parts \in Shaped
    BY MatcherShaped
  <2>2. parts \in Seq(Seq(Text)) /\ \A k \in 1..n : Len(parts[k]) \in {1, 2}
    BY <2>1 DEF Shaped
  <2> QED BY <2>2, LenProperties, ElementOfSeq DEF Text, Texts
<1>2. match(pattern, p) = from[1][0]
  BY Zenon DEF match
<1> HIDE DEF parts
<1>3. \A k \in 1..n : parts[k][1] \in Text /\ Len(parts[k][1]) \in Nat
  <2>1. ASSUME NEW k \in 1..n PROVE parts[k][1] \in Text
    <3>1. parts[k] \in Seq(Text) /\ Len(parts[k]) \in {1, 2}
      BY <1>1
    <3>2. 1 \in 1..Len(parts[k])
      <4>1. \A m \in {1, 2} : 1 \in 1..m
        OBVIOUS
      <4> QED BY ONLY <3>1, <4>1
    <3> QED BY <3>1, <3>2, ElementOfSeq
  <2> QED BY <2>1, LenProperties DEF Text, Texts
<1>4. ASSUME NEW k \in 1..n, NEW at \in A, ~(end(k, at) > L)
      PROVE  /\ end(k, at) \in A /\ sep(k, at) + 1 \in A
             /\ SubSeq(p, end(k, at) + 1, sep(k, at)) \in Text
  <2> DEFINE e == end(k, at)
  <2>1. e \in 0..L
    BY <1>1, <1>3, <1>4, SMTT(30)
  <2> HIDE DEF e
  <2>2. Separated(p, e) \in e..Len(p)
    BY <1>1, <2>1, SeparatedAt
  <2> DEFINE z == Separated(p, e)
  <2>3. e \in Nat /\ z \in Nat /\ z <= Len(p) /\ z + 1 \in A /\ e \in A
    BY <1>1, <2>1, <2>2
  <2> HIDE DEF z
  <2>4. SubSeq(p, e + 1, z) \in Text
    BY <1>1, <2>3, PartOf DEF Text, Texts
  <2> QED BY <2>3, <2>4 DEF e, z
<1>5. NoMatch \in Result /\ \A at \in A : [NoMatch EXCEPT !.matches = at >= L] \in Result
  <2>1. <<>> \in Seq(Text)
    BY EmptySeq
  <2>2. \A at \in A : (at >= L) \in BOOLEAN
    BY <1>1
  <2> QED BY <2>1, <2>2 DEF NoMatch, Result
<1>6. \A r \in Result, v \in Text : with(r, v) \in Result
  BY ResultCons
<1> HIDE DEF end, sep, with, A
<1>7. ASSUME NEW k \in 1..n + 1, NEW at \in A, NEW f, \A j \in k + 1..n + 1 : f[j] \in V
      PROVE  cell(k, at, f) \in Result
  <2>1. CASE k > n
    BY <1>5, <2>1
  <2>2. CASE ~(k > n)
    <3>1. k \in 1..n /\ k + 1 \in k + 1..n + 1
      BY <1>1, <2>2
    <3>2. f[k + 1] \in V
      BY <1>7, <3>1
    <3>3. CASE end(k, at) > L \/ SubSeq(p, at + 1, end(k, at)) # parts[k][1]
      BY <1>5, <2>2, <3>3
    <3>4. CASE ~(end(k, at) > L \/ SubSeq(p, at + 1, end(k, at)) # parts[k][1])
      <4>1. /\ end(k, at) \in A /\ sep(k, at) + 1 \in A
            /\ SubSeq(p, end(k, at) + 1, sep(k, at)) \in Text
        BY <1>4, <3>1, <3>4
      <4>2. f[k + 1][end(k, at)] \in Result /\ f[k + 1][sep(k, at) + 1] \in Result
        BY <3>2, <4>1
      <4>3. with(f[k + 1][sep(k, at) + 1], SubSeq(p, end(k, at) + 1, sep(k, at))) \in Result
        BY <1>6, <4>1, <4>2
      <4> QED BY <2>2, <3>4, <4>2, <4>3
    <3> QED BY <3>3, <3>4
  <2> QED BY <2>1, <2>2
<1>8. ASSUME NEW k \in 1..n + 1, NEW at \in A, NEW f, NEW g, \A j \in k + 1..n + 1 : f[j] = g[j]
      PROVE  cell(k, at, f) = cell(k, at, g)
  <2>1. CASE k > n
    BY <2>1
  <2>2. CASE ~(k > n)
    <3>1. k + 1 \in k + 1..n + 1
      BY <1>1, <2>2
    <3>2. f[k + 1] = g[k + 1]
      BY <1>8, <3>1
    <3> QED BY <3>2
  <2> QED BY <2>1, <2>2
<1>10. ASSUME NEW k \in 1..n + 1, NEW at \in A, NEW f, f[k][at] = cell(k, at, f)
       PROVE  MatchedAt(parts, p, f, k, at)
  <2>1. k > Len(parts) => f[k][at] = [NoMatch EXCEPT !.matches = at >= Len(p)]
    BY <1>10
  <2>2. k <= Len(parts) => ~(k > Len(parts))
    BY <1>1
  <2> QED BY <1>10, <2>1, <2>2 DEF MatchedAt, end, sep, with
<1> HIDE DEF cell
<1>11. ASSUME NEW k \in 1..n + 1, NEW f, \A j \in k + 1..n + 1 : f[j] \in V
       PROVE  made(k, f) \in V
  BY <1>7, <1>11
<1>12. ASSUME NEW k \in 1..n + 1, NEW f, NEW g, \A j \in k + 1..n + 1 : f[j] = g[j]
       PROVE  made(k, f) = made(k, g)
  BY <1>8, <1>12
<1>13. \A k \in 1..n + 1 : \A f : \A at \in A : made(k, f)[at] = cell(k, at, f)
  OBVIOUS
<1>14. V # {}
  <2>1. [at \in A |-> NoMatch] \in V
    BY <1>5
  <2> QED BY <2>1
<1> HIDE DEF made, V
<1>15. \E f : f = [k \in 1..n + 1 |-> made(k, f)]
  <2>1. \A k \in 1..n + 1 : \A f \in [1..n + 1 -> V] : step[k][f] = made(k, f)
    OBVIOUS
  <2> HIDE DEF step
  <2>2. \A k \in 1..n + 1 : \A f \in [1..n + 1 -> V] : step[k][f] \in V
    <3>1. ASSUME NEW k \in 1..n + 1, NEW f \in [1..n + 1 -> V] PROVE made(k, f) \in V
      <4>1. \A j \in k + 1..n + 1 : f[j] \in V
        BY <1>1
      <4> QED BY <1>11, <4>1
    <3> QED BY <2>1, <3>1
  <2>3. \A k \in 1..n + 1 : \A f \in [1..n + 1 -> V], g \in [1..n + 1 -> V] :
          (\A j \in k + 1..n + 1 : f[j] = g[j]) => step[k][f] = step[k][g]
    BY <1>12, <2>1
  <2> DEFINE hi == n + 1
  <2>4. hi \in Int /\ 1 \in Int
    BY <1>1
  <2> HIDE DEF n
  <2>5. \E f : Backward(f, 1, hi, V, step)
    BY <1>14, <2>2, <2>3, <2>4, BackwardFunction
  <2>6. PICK f : Backward(f, 1, hi, V, step)
    BY <2>5
  <2>7. f \in [1..n + 1 -> V] /\ \A k \in 1..n + 1 : f[k] = made(k, f)
    BY <2>1, <2>6 DEF Backward
  <2>8. f = [k \in 1..n + 1 |-> made(k, f)]
    BY <2>7
  <2> QED BY <2>8
<1>16. from = [k \in 1..n + 1 |-> made(k, from)]
  BY <1>15
<1>17. match(pattern, p) = from[1][0]
  BY <1>2 DEF made, cell, end, sep, with, parts, A
<1> HIDE DEF from
<1>18. \A k \in 1..n + 1 : from[k] = made(k, from)
  BY <1>16
<1> DEFINE T == {k \in 1..n + 1 : from[k] \in V}
<1>19. \A k \in 1..n + 1 : (\A j \in k + 1..n + 1 : j \in T) => k \in T
  BY <1>11, <1>18
<1>20. \A k \in 1..n + 1 : k \in T
  <2> HIDE DEF T
  <2>1. n + 1 \in Int /\ 1 \in Int
    BY <1>1
  <2> QED BY ONLY <1>19, <2>1, Downwards
<1>21. ASSUME NEW k \in 1..n + 1, NEW at \in A
       PROVE  from[k][at] \in Result /\ MatchedAt(parts, p, from, k, at)
  <2>1. from[k][at] \in Result
    BY <1>20 DEF V
  <2>2. from[k][at] = cell(k, at, from)
    BY <1>13, <1>18
  <2> QED BY <1>10, <2>1, <2>2
<1> QED BY <1>17, <1>21 DEF parts, A

\* A slash at the end does not change what comes before.
LEMMA SlashedPart ==
  ASSUME NEW p \in Text, NEW i \in Nat, NEW j \in Nat, j <= Len(p)
  PROVE  SubSeq(p \o <<Slash>>, i + 1, j) = SubSeq(p, i + 1, j)
<1> DEFINE w == p \o <<Slash>>
           a == SubSeq(p, i + 1, j)
           b == SubSeq(w, i + 1, j)
<1>1. p \in Seq(Nat) /\ <<Slash>> \in Seq(Nat) /\ Len(<<Slash>>) = 1 /\ Len(p) \in Nat
  BY LenProperties DEF Text, Texts, Slash
<1>2. w \in Seq(Nat) /\ Len(w) = Len(p) + 1
      /\ \A k \in 1..Len(p) + 1 : w[k] = IF k <= Len(p) THEN p[k] ELSE <<Slash>>[k - Len(p)]
  <2> DEFINE t == <<Slash>>
  <2>1. t \in Seq(Nat) /\ Len(t) = 1
    BY <1>1
  <2> HIDE DEF t
  <2>2. /\ p \o t \in Seq(Nat) /\ Len(p \o t) = Len(p) + Len(t)
        /\ \A k \in 1..Len(p) + Len(t) : (p \o t)[k] = IF k <= Len(p) THEN p[k] ELSE t[k - Len(p)]
    BY <1>1, <2>1, ConcatProperties
  <2> QED BY <2>1, <2>2 DEF t
<1> HIDE DEF w
<1>3. j <= Len(w)
  BY <1>1, <1>2
<1>4. a \in Seq(Nat) /\ Len(a) = (IF i <= j THEN j - i ELSE 0) /\ \A k \in 1..j - i : a[k] = p[i + k]
  BY <1>1, PartOf
<1>5. b \in Seq(Nat) /\ Len(b) = (IF i <= j THEN j - i ELSE 0) /\ \A k \in 1..j - i : b[k] = w[i + k]
  BY <1>2, <1>3, PartOf
<1> HIDE DEF a, b
<1>6. ASSUME NEW k \in 1..Len(a) PROVE a[k] = b[k]
  <2>1. k \in 1..j - i /\ i + k \in 1..Len(p) + 1 /\ i + k <= Len(p)
    BY <1>1, <1>4
  <2> QED BY <1>2, <1>4, <1>5, <2>1
<1>7. a = b
  BY <1>4, <1>5, <1>6, SeqEqual
<1> QED BY <1>7 DEF a, b, w

LEMMA SlashedWhole ==
  ASSUME NEW p \in Text
  PROVE  /\ p \o <<Slash>> \in Seq(Nat) /\ Len(p \o <<Slash>>) = Len(p) + 1
         /\ (p \o <<Slash>>)[Len(p) + 1] = Slash
         /\ \A i \in 1..Len(p) : (p \o <<Slash>>)[i] = p[i]
<1> DEFINE t == <<Slash>>
<1>1. p \in Seq(Nat) /\ Len(p) \in Nat
  BY LenProperties DEF Text, Texts
<1>2. t \in Seq(Nat) /\ Len(t) = 1 /\ t[1] = Slash
  BY DEF Slash
<1> HIDE DEF t
<1>3. /\ p \o t \in Seq(Nat) /\ Len(p \o t) = Len(p) + Len(t)
      /\ \A k \in 1..Len(p) + Len(t) : (p \o t)[k] = IF k <= Len(p) THEN p[k] ELSE t[k - Len(p)]
  BY <1>1, <1>2, ConcatProperties
<1>4. Len(p) + 1 \in 1..Len(p) + Len(t) /\ ~(Len(p) + 1 <= Len(p)) /\ (Len(p) + 1) - Len(p) = 1
  BY <1>1, <1>2
<1>5. \A i \in 1..Len(p) : i \in 1..Len(p) + Len(t) /\ i <= Len(p)
  BY <1>1, <1>2
<1> QED BY <1>2, <1>3, <1>4, <1>5 DEF t

\* two parts of a text that meet
LEMMA PartsMeet ==
  ASSUME NEW S, NEW s \in Seq(S), NEW i \in Nat, NEW j \in Nat, NEW k \in Nat,
         i <= j, j <= k, k <= Len(s)
  PROVE  SubSeq(s, i + 1, j) \o SubSeq(s, j + 1, k) = SubSeq(s, i + 1, k)
<1>1. Len(s) \in Nat
  BY LenProperties
<1>2. i + 1 \in 1..Len(s) + 1 /\ j \in (i + 1) - 1..Len(s) /\ k \in j..Len(s)
  BY <1>1
<1> QED BY <1>2, ConcatAdjacentSubSeq

----------------------------------------------------------------------------
(* Texts that are cut at their end *)

\* what is left of two texts that are cut in the second one
LEMMA CutLater ==
  ASSUME NEW S, NEW b \in Seq(S), NEW z \in Seq(S), NEW m \in Len(b)..Len(b \o z)
  PROVE  SubSeq(b \o z, 1, m) = b \o SubSeq(z, 1, m - Len(b))
<1> DEFINE n == Len(b)
           k == m - n
           t == b \o z
           u == SubSeq(z, 1, k)
           w == SubSeq(t, 1, m)
<1>1. n \in Nat /\ Len(z) \in Nat /\ t \in Seq(S) /\ Len(t) = n + Len(z)
      /\ \A i \in 1..n + Len(z) : t[i] = IF i <= n THEN b[i] ELSE z[i - n]
  BY LenProperties, ConcatProperties
<1>2. m \in n..n + Len(z)
  BY <1>1
<1>3. m \in Nat /\ k \in Nat /\ m = n + k /\ k <= Len(z) /\ m <= Len(t) /\ 0 \in Nat /\ 0 + 1 = 1
  BY <1>1, <1>2
<1> HIDE DEF n, k, t
<1>4. /\ u \in Seq(S) /\ Len(u) = k /\ \A p \in 1..k : u[p] = z[p]
  <2>1. /\ SubSeq(z, 0 + 1, k) \in Seq(S)
        /\ Len(SubSeq(z, 0 + 1, k)) = IF 0 <= k THEN k - 0 ELSE 0
        /\ \A p \in 1..k - 0 : SubSeq(z, 0 + 1, k)[p] = z[0 + p]
    BY <1>3, PartOf
  <2> QED BY <1>3, <2>1
<1>5. w \in Seq(S) /\ Len(w) = m /\ \A p \in 1..m : w[p] = t[p]
  <2>1. /\ SubSeq(t, 0 + 1, m) \in Seq(S)
        /\ Len(SubSeq(t, 0 + 1, m)) = IF 0 <= m THEN m - 0 ELSE 0
        /\ \A p \in 1..m - 0 : SubSeq(t, 0 + 1, m)[p] = t[0 + p]
    BY <1>1, <1>3, PartOf
  <2> QED BY <1>3, <2>1
<1> HIDE DEF u, w
<1> DEFINE v == b \o u
<1>6. v \in Seq(S) /\ Len(v) = n + k /\ \A i \in 1..n + k : v[i] = IF i <= n THEN b[i] ELSE u[i - n]
  BY <1>4, ConcatProperties DEF n
<1> HIDE DEF v
<1>7. ASSUME NEW i \in 1..m PROVE w[i] = v[i]
  <2>1. i \in 1..n + Len(z) /\ i \in 1..n + k
    BY <1>1, <1>3
  <2>2. CASE i <= n
    BY <1>1, <1>5, <1>6, <2>1, <2>2
  <2>3. CASE ~(i <= n)
    <3>1. i - n \in 1..k
      BY <1>1, <1>3, <2>3
    <3> QED BY <1>1, <1>4, <1>5, <1>6, <2>1, <2>3, <3>1
  <2> QED BY <2>2, <2>3
<1>8. w = v
  BY <1>3, <1>5, <1>6, <1>7, SeqEqual
<1> QED BY <1>8 DEF w, v, u, t, k, n

\* the end of a text after a head that nothing is trimmed of
LEMMA TrimLater ==
  ASSUME NEW S, NEW b \in Seq(S), NEW z \in Seq(S), b # <<>>,
         b[1] \notin Blanks, b[Len(b)] \notin Blanks
  PROVE  \E y \in Seq(S) : /\ trim_copy(b \o z) = b \o y
                           /\ (\A i \in 1..Len(z) : z[i] \notin Blanks) => y = z
<1> DEFINE n == Len(b)
           t == b \o z
           inner == {i \in DOMAIN t : t[i] \notin Blanks}
           lo == CHOOSE i \in inner : \A j \in inner : i <= j
           hi == CHOOSE i \in inner : \A j \in inner : j <= i
<1>1. n \in Nat /\ n # 0 /\ Len(z) \in Nat /\ t \in Seq(S) /\ Len(t) = n + Len(z)
      /\ \A i \in 1..n + Len(z) : t[i] = IF i <= n THEN b[i] ELSE z[i - n]
  BY LenProperties, EmptySeq, ConcatProperties
<1>2. DOMAIN t = 1..n + Len(z)
  BY <1>1, LenProperties
<1>3. t[1] = b[1] /\ t[n] = b[n] /\ 1 \in DOMAIN t /\ n \in DOMAIN t
  BY <1>1, <1>2
<1>4. 1 \in inner /\ n \in inner /\ inner \in SUBSET (1..n + Len(z))
  BY <1>2, <1>3
<1>5. trim_copy(t) = SubSeq(t, lo, hi)
  BY <1>4 DEF trim_copy
<1>6. lo = 1
  <2>1. \A j \in inner : 1 <= j
    BY <1>4
  <2>2. lo \in inner /\ \A j \in inner : lo <= j
    <3> HIDE DEF inner
    <3> QED BY <1>4, <2>1
  <2> HIDE DEF lo, inner
  <2>3. lo <= 1 /\ 1 <= lo /\ lo \in 1..n + Len(z)
    BY <1>4, <2>1, <2>2
  <2> QED BY <1>1, <2>3
<1>7. hi \in inner /\ \A j \in inner : j <= hi
  <2>1. 1 \in Int /\ n + Len(z) \in Int /\ inner # {}
    BY <1>1, <1>4
  <2> HIDE DEF inner
  <2>2. \E x \in inner : \A y \in inner : y <= x
    BY ONLY <1>4, <2>1, Greatest
  <2> QED BY <2>2
<1> HIDE DEF inner, lo, hi, t
<1>8. hi \in n..n + Len(z)
  BY <1>1, <1>4, <1>7
<1> DEFINE y == SubSeq(z, 1, hi - n)
<1>9. SubSeq(t, 1, hi) = b \o y
  <2>1. hi \in Len(b)..Len(b \o z)
    BY <1>1, <1>8 DEF t
  <2> QED BY <2>1, CutLater DEF t
<1>10. y \in Seq(S)
  <2>1. 1 \in 1..Len(z) + 1 /\ hi - n \in Int /\ hi - n <= Len(z)
    BY <1>1, <1>8
  <2> QED BY <2>1, PartType
<1>11. ASSUME \A i \in 1..Len(z) : z[i] \notin Blanks PROVE y = z
  <2>1. hi = n + Len(z)
    <3>1. CASE Len(z) = 0
      BY <1>1, <1>8, <3>1
    <3>2. CASE Len(z) # 0
      <4> DEFINE l == n + Len(z)
      <4>1. l \in DOMAIN t /\ t[l] = z[Len(z)] /\ Len(z) \in 1..Len(z)
        BY <1>1, <1>2, <3>2
      <4>2. l \in inner
        BY <1>11, <4>1 DEF inner
      <4>3. l <= hi
        BY <1>7, <4>2
      <4>4. l \in Nat /\ hi \in n..l
        BY <1>1, <1>8
      <4>5. n \in Int
        BY <1>1
      <4> HIDE DEF l
      <4>6. hi = l
        BY ONLY <4>3, <4>4, <4>5
      <4> QED BY <4>6 DEF l
    <3> QED BY <3>1, <3>2
  <2>2. hi - n = Len(z)
    BY <1>1, <2>1
  <2> QED BY <2>2, SubSeqFull
<1> QED BY <1>5, <1>6, <1>9, <1>10, <1>11 DEF t

\* the end of a text after a head without the separator
LEMMA DivideLater ==
  ASSUME NEW S, NEW b \in Seq(S), NEW z \in Seq(S), NEW d, Without(b, d)
  PROVE  \E y \in Seq(S) : /\ divide(b \o z, d)[1] = b \o y
                           /\ Without(z, d) => y = z
<1> DEFINE n == Len(b)
           t == b \o z
           at == Places(t, d)
           lo == CHOOSE i \in at : \A j \in at : i <= j
<1>1. n \in Nat /\ Len(z) \in Nat /\ t \in Seq(S) /\ Len(t) = n + Len(z)
      /\ \A i \in 1..n + Len(z) : t[i] = IF i <= n THEN b[i] ELSE z[i - n]
  BY LenProperties, ConcatProperties
<1>2. DOMAIN t = 1..n + Len(z)
  BY <1>1, LenProperties
<1>3. ASSUME NEW i \in at PROVE i \in n + 1..n + Len(z) /\ ~Without(z, d)
  <2>1. i \in 1..n + Len(z) /\ t[i] = d
    BY <1>2 DEF Places
  <2>2. ~(i <= n)
    BY <1>1, <2>1 DEF Without
  <2>3. i - n \in 1..Len(z) /\ z[i - n] = d
    BY <1>1, <2>1, <2>2
  <2> QED BY <1>1, <2>1, <2>2, <2>3 DEF Without
<1>4. CASE at = {}
  <2>1. divide(t, d) = <<t, <<>> >>
    BY <1>4 DEF divide
  <2>2. divide(t, d)[1] = b \o z
    BY <2>1
  <2> QED BY <2>2
<1>5. CASE at # {}
  <2>1. at \in SUBSET (n + 1..n + Len(z)) /\ n + 1 \in Int /\ n + Len(z) \in Int
    BY <1>1, <1>3
  <2>2. divide(t, d) = <<SubSeq(t, 1, lo - 1), SubSeq(t, lo + 1, Len(t))>>
    BY <1>5 DEF divide
  <2> HIDE DEF at
  <2>3. \E x \in at : \A y \in at : x <= y
    BY ONLY <1>5, <2>1, Smallest
  <2>4. lo \in at
    BY <2>3
  <2>5. lo \in n + 1..n + Len(z) /\ ~Without(z, d)
    BY <1>3, <2>4
  <2> HIDE DEF lo
  <2> DEFINE m == lo - 1
             y == SubSeq(z, 1, m - n)
  <2>6. m \in n..n + Len(z) /\ m - n \in Int /\ m - n <= Len(z) /\ 1 \in 1..Len(z) + 1
    BY <1>1, <2>5
  <2>7. SubSeq(t, 1, m) = b \o y
    <3>1. m \in Len(b)..Len(b \o z)
      BY <1>1, <2>6
    <3> HIDE DEF m
    <3> QED BY <3>1, CutLater
  <2>8. y \in Seq(S)
    <3> HIDE DEF m
    <3> QED BY <2>6, PartType
  <2>9. divide(t, d)[1] = SubSeq(t, 1, m)
    <3> DEFINE a == SubSeq(t, 1, m)
               c == SubSeq(t, lo + 1, Len(t))
    <3>1. divide(t, d) = <<a, c>>
      BY <2>2
    <3> HIDE DEF a, c
    <3>2. divide(t, d)[1] = a
      BY ONLY <3>1
    <3> QED BY <3>2 DEF a
  <2> HIDE DEF m, y
  <2> QED BY <2>5, <2>7, <2>8, <2>9
<1> QED BY <1>4, <1>5

\* what encode_url() encodes
UrlSet == {Space, Plus, Cr, Lf, 39, 44, Semicolon} \cup (128..255)

LEMMA UrlSame ==
  ASSUME NEW s \in Seq(Nat), Without(s, 0)
  PROVE  encode_url(s) = EscapedWhere(s, UrlSet)
<1>1. DOMAIN s = 1..Len(s)
  BY LenProperties
<1>2. {i \in DOMAIN s : s[i] = 0} = {}
  BY <1>1 DEF Without
<1> QED BY <1>2 DEF encode_url, UrlSet

\* the end of a text after a head without a zero
LEMMA UrlLater ==
  ASSUME NEW b \in Seq(Nat), NEW z \in Seq(Nat), Without(b, 0)
  PROVE  \E y \in Seq(Nat) : /\ encode_url(b \o z) = EscapedWhere(b \o y, UrlSet)
                             /\ Without(z, 0) => y = z
<1> DEFINE n == Len(b)
           t == b \o z
           at == {i \in DOMAIN t : t[i] = 0}
           lo == CHOOSE i \in at : \A j \in at : i <= j
<1>1. n \in Nat /\ Len(z) \in Nat /\ t \in Seq(Nat) /\ Len(t) = n + Len(z)
      /\ \A i \in 1..n + Len(z) : t[i] = IF i <= n THEN b[i] ELSE z[i - n]
  BY LenProperties, ConcatProperties
<1>2. DOMAIN t = 1..n + Len(z)
  BY <1>1, LenProperties
<1>3. ASSUME NEW i \in at PROVE i \in n + 1..n + Len(z) /\ ~Without(z, 0)
  <2>1. i \in 1..n + Len(z) /\ t[i] = 0
    BY <1>2
  <2>2. ~(i <= n)
    BY <1>1, <2>1 DEF Without
  <2>3. i - n \in 1..Len(z) /\ z[i - n] = 0
    BY <1>1, <2>1, <2>2
  <2> QED BY <1>1, <2>1, <2>2, <2>3 DEF Without
<1>4. CASE at = {}
  <2>1. encode_url(t) = EscapedWhere(t, UrlSet)
    BY <1>4 DEF encode_url, UrlSet
  <2> QED BY <2>1
<1>5. CASE at # {}
  <2>1. at \in SUBSET (n + 1..n + Len(z)) /\ n + 1 \in Int /\ n + Len(z) \in Int
    BY <1>1, <1>3
  <2>2. encode_url(t) = EscapedWhere(SubSeq(t, 1, lo - 1), UrlSet)
    BY <1>5 DEF encode_url, UrlSet
  <2> HIDE DEF at
  <2>3. \E x \in at : \A y \in at : x <= y
    BY ONLY <1>5, <2>1, Smallest
  <2>4. lo \in at
    BY <2>3
  <2>5. lo \in n + 1..n + Len(z) /\ ~Without(z, 0)
    BY <1>3, <2>4
  <2> HIDE DEF lo
  <2> DEFINE m == lo - 1
             y == SubSeq(z, 1, m - n)
  <2>6. m \in n..n + Len(z) /\ m - n \in Int /\ m - n <= Len(z) /\ 1 \in 1..Len(z) + 1
    BY <1>1, <2>5
  <2>7. SubSeq(t, 1, m) = b \o y
    <3>1. m \in Len(b)..Len(b \o z)
      BY <1>1, <2>6
    <3> HIDE DEF m
    <3> QED BY <3>1, CutLater
  <2>8. y \in Seq(Nat)
    <3> HIDE DEF m
    <3> QED BY <2>6, PartType
  <2>9. encode_url(t) = EscapedWhere(SubSeq(t, 1, m), UrlSet)
    BY <2>2
  <2> HIDE DEF m, y
  <2> QED BY <2>5, <2>7, <2>8, <2>9
<1> QED BY <1>4, <1>5

----------------------------------------------------------------------------
(* Parameters are written and read again *)

\* what keys, encoded values, and texts of parameters consist of
Clean    == Nat \ {0, Tab, Space, Hash, Ampersand, Equals, Question}
KeyChars == Visible \ {Ampersand, Equals, Percent, Plus, Hash, Question}
Written  == Clean \cup {Ampersand, Equals}

\* A is encoded in keys, B in values
Encodings(A, B) == A \in SUBSET Byte /\ B \in SUBSET Byte /\ Byte \ Unreserved \subseteq B

ParamWord(k, v, A, B) == (EscapedWhere(k, A) \o <<Equals>>) \o EscapedWhere(v, B)

LEMMA CleanChars ==
  /\ KeyChars \subseteq Clean /\ EscapeChars \subseteq Clean
  /\ Nat \ (Byte \ Unreserved) \subseteq Clean
  /\ Clean \subseteq Written /\ Written \subseteq Nat
BY DEF KeyChars, Clean, Written, EscapeChars, Visible, Byte, Unreserved, Alnum, Digit, Tab, Space,
       Hash, Ampersand, Equals, Question, Percent, Plus

\* A key, and a value whatever it is, are read as they were written.
LEMMA ParamRead ==
  ASSUME NEW k \in Seq(KeyChars), k # <<>>, NEW v \in Seq(Nat), NEW A, NEW B, Encodings(A, B)
  PROVE  /\ EscapedWhere(k, A) \in Seq(Clean) \ {<<>>} /\ EscapedWhere(v, B) \in Seq(Clean)
         /\ decode_url(EscapedWhere(k, A), TRUE) = k
         /\ decode_url(EscapedWhere(v, B), TRUE) = v
<1>1. k \in Seq(Nat) /\ KeyChars \in SUBSET Nat
  <2>1. KeyChars \subseteq Nat
    BY CleanChars
  <2> QED BY <2>1, SeqOfMore
<1>2. A \in SUBSET Byte /\ B \in SUBSET Byte /\ Byte \ Unreserved \subseteq B
  BY DEF Encodings
<1>3. EscapedWhere(k, A) \in Seq(Clean)
  <2> DEFINE W == (KeyChars \ A) \cup EscapeChars
  <2>1. EscapedWhere(k, A) \in Seq(W)
    BY <1>2, EscapedChars
  <2>2. W \subseteq Clean
    BY CleanChars
  <2> HIDE DEF W
  <2> QED BY <2>1, <2>2, SeqOfMore
<1>4. EscapedWhere(v, B) \in Seq(Clean)
  <2> DEFINE W == (Nat \ B) \cup EscapeChars
  <2>1. EscapedWhere(v, B) \in Seq(W)
    BY <1>2, EscapedChars
  <2>2. W \subseteq Clean
    BY <1>2, CleanChars
  <2> HIDE DEF W
  <2> QED BY <2>1, <2>2, SeqOfMore
<1>5. decode_url(EscapedWhere(k, A), TRUE) = k
  <2>1. \A i \in 1..Len(k) : k[i] \notin {Percent, Plus}
    <3>1. \A i \in 1..Len(k) : k[i] \in KeyChars
      BY ElementOfSeq
    <3> QED BY <3>1 DEF KeyChars
  <2> QED BY <1>1, <1>2, <2>1, DecodeEscaped
<1>6. decode_url(EscapedWhere(v, B), TRUE) = v
  <2>1. Percent \in B /\ Plus \in B
    BY <1>2 DEF Percent, Plus, Byte, Unreserved, Alnum, Digit
  <2> QED BY <1>2, <2>1, DecodeEscaped
<1>7. EscapedWhere(k, A) # <<>>
  <2>1. SUFFICES ASSUME EscapedWhere(k, A) = <<>> PROVE FALSE
    OBVIOUS
  <2> DEFINE none == <<>>
             Z == {}
  <2>2. none \in Seq(Nat) /\ Z \in SUBSET Byte /\ Len(none) = 0
    OBVIOUS
  <2> HIDE DEF none, Z
  <2>3. \A i \in 1..Len(none) : none[i] \in {Percent, Plus} => none[i] \in Z
    BY <2>2
  <2>4. decode_url(EscapedWhere(none, Z), TRUE) = none
    BY <2>2, <2>3, DecodeEscaped
  <2>5. EscapedWhere(none, Z) = <<>>
    BY EscapedNone DEF none
  <2>6. k = none
    BY <1>5, <2>1, <2>4, <2>5
  <2> QED BY <2>6 DEF none
<1> QED BY <1>3, <1>4, <1>5, <1>6, <1>7

LEMMA ParamWordRead ==
  ASSUME NEW k \in Seq(KeyChars), k # <<>>, NEW v \in Seq(Nat), NEW A, NEW B, Encodings(A, B),
         NEW w, w = ParamWord(k, v, A, B)
  PROVE  /\ w \in Seq(Clean \cup {Equals}) /\ w # <<>>
         /\ divide(w, Equals) = <<EscapedWhere(k, A), EscapedWhere(v, B)>>
         /\ trim_copy(w) = w
<1> DEFINE S == Clean \cup {Equals}
           a == EscapedWhere(k, A)
           b == EscapedWhere(v, B)
           one == <<Equals>>
           h == a \o one
<1>1. a \in Seq(Clean) /\ a # <<>> /\ b \in Seq(Clean)
  BY ParamRead
<1>2. w = h \o b
  BY DEF ParamWord
<1> HIDE DEF a, b
<1>3. Without(a, Equals)
  <2>1. \A i \in 1..Len(a) : a[i] \in Clean
    BY <1>1, ElementOfSeq
  <2> QED BY <2>1 DEF Without, Clean
<1>4. a \in Seq(S) /\ b \in Seq(S) /\ Equals \in S /\ Clean \subseteq S
  <2>1. Clean \subseteq S /\ Equals \in S
    OBVIOUS
  <2> HIDE DEF S
  <2> QED BY <1>1, <2>1, SeqOfMore
<1>5. \A c \in S : c \notin Blanks
  BY DEF Clean, Blanks, Tab, Space, Equals
<1>6. divide(w, Equals) = <<a, b>>
  <2> HIDE DEF S
  <2> QED BY <1>2, <1>3, <1>4, DivideAt
<1> HIDE DEF S
<1>7. one \in Seq(S) /\ Len(one) = 1
  BY <1>4
<1> HIDE DEF one
<1>8. h \in Seq(S) /\ Len(h) = Len(a) + 1 /\ Len(a) \in Nat
  <2>1. h \in Seq(S) /\ Len(h) = Len(a) + Len(one)
    BY <1>4, <1>7, ConcatProperties
  <2>2. Len(a) \in Nat
    BY <1>4, LenProperties
  <2> QED BY <1>7, <2>1, <2>2
<1> HIDE DEF h
<1>9. w \in Seq(S) /\ Len(w) = Len(a) + 1 + Len(b) /\ Len(b) \in Nat
  BY <1>2, <1>4, <1>8, ConcatProperties, LenProperties, ZenonT(30)
<1>10. w # <<>>
  BY <1>8, <1>9
<1>11. 1 \in 1..Len(w) /\ Len(w) \in 1..Len(w)
  BY <1>8, <1>9
<1>12. w[1] \in S /\ w[Len(w)] \in S
  BY <1>9, <1>11, ElementOfSeq
<1>13. trim_copy(w) = w
  BY <1>5, <1>9, <1>10, <1>12, TrimSame
<1> QED BY <1>6, <1>9, <1>10, <1>13 DEF S, a, b

Mapped(P, z) == [i \in DOMAIN z |-> P[z[i]]]

\* q keeps of x what r keeps of y
Alike(x, y, q, r, P) ==
  /\ Len(y) = Len(x) /\ Keeps(q, x) /\ Keeps(r, y)
  /\ \A k \in 1..Len(x) : q[k] = <<>> <=> r[k] = <<>>
  /\ \A k \in 1..Len(x) : P[x[k]] = << y[k] >>

\* some elements, each with what belongs to it
LEMMA KeepsMapped ==
  ASSUME NEW V, NEW U, NEW x \in Seq(V), NEW y \in Seq(U), NEW q, NEW r, NEW P,
         Alike(x, y, q, r, P)
  PROVE  FlattenSeq(Mapped(P, FlattenSeq(q))) = FlattenSeq(r)
<1>0. /\ Len(y) = Len(x) /\ Keeps(q, x) /\ Keeps(r, y)
      /\ \A k \in 1..Len(x) : q[k] = <<>> <=> r[k] = <<>>
      /\ \A k \in 1..Len(x) : P[x[k]] = << y[k] >>
  BY DEF Alike
<1> DEFINE n == Len(x)
           M(a) == [i \in DOMAIN a |-> P[a[i]]]
<1>1. n \in Nat /\ \A k \in 1..n : x[k] \in V /\ y[k] \in U
  BY <1>0, LenProperties, ElementOfSeq
<1>2. q \in Seq(Seq(V)) /\ Len(q) = n /\ r \in Seq(Seq(U)) /\ Len(r) = n
  BY <1>0, KeepsPieces
<1> HIDE DEF n
<1>3. PICK f : Joins(f, q, V)
  BY <1>2, JoinsExist
<1>4. PICK g : Joins(g, r, U)
  BY <1>2, JoinsExist
<1>5. f \in [0..n -> Seq(V)] /\ f[0] = <<>> /\ \A i \in 1..n : f[i] = f[i - 1] \o q[i]
  BY <1>2, <1>3 DEF Joins
<1>6. g \in [0..n -> Seq(U)] /\ g[0] = <<>> /\ \A i \in 1..n : g[i] = g[i - 1] \o r[i]
  BY <1>2, <1>4 DEF Joins
<1>7. \A k \in 1..n : (q[k] = <<>> \/ q[k] = << x[k] >>) /\ (r[k] = <<>> \/ r[k] = << y[k] >>)
                      /\ (q[k] = <<>> <=> r[k] = <<>>)
  BY <1>0 DEF Keeps, n
<1> DEFINE T == {k \in 0..n : M(f[k]) \in Seq(Seq(U)) /\ FlattenSeq(M(f[k])) = g[k]}
<1>8. ASSUME NEW k \in 0..n, \A j \in 0..k - 1 : j \in T PROVE k \in T
  <2>1. CASE k = 0
    <3>1. M(<<>>) = <<>>
      OBVIOUS
    <3>2. M(f[k]) = <<>> /\ g[k] = <<>>
      BY <1>5, <1>6, <2>1, <3>1
    <3> HIDE DEF M
    <3>3. <<>> \in Seq(Seq(U))
      OBVIOUS
    <3> QED BY <3>2, <3>3, FlattenNone
  <2>2. CASE k # 0
    <3>1. k \in 1..n /\ k - 1 \in 0..n /\ k - 1 \in 0..k - 1
      BY <1>1, <2>2
    <3> DEFINE a == f[k - 1]
               c == g[k - 1]
    <3>2. M(a) \in Seq(Seq(U)) /\ FlattenSeq(M(a)) = c
      BY <1>8, <3>1
    <3>3. a \in Seq(V) /\ c \in Seq(U) /\ f[k] = a \o q[k] /\ g[k] = c \o r[k]
      BY <1>5, <1>6, <3>1
    <3> HIDE DEF a, c
    <3>4. CASE q[k] = <<>>
      <4>1. r[k] = <<>>
        BY <1>7, <3>1, <3>4
      <4>2. f[k] = a /\ g[k] = c
        BY <3>3, <3>4, <4>1, ConcatEmptySeq
      <4> QED BY <3>2, <4>2
    <3>5. CASE q[k] # <<>>
      <4>1. q[k] = << x[k] >> /\ r[k] = << y[k] >> /\ P[x[k]] = << y[k] >>
        BY <1>0, <1>7, <3>1, <3>5 DEF n
      <4> DEFINE v == x[k]
                 u == y[k]
                 one == <<u>>
                 b == Append(a, v)
      <4>2. v \in V /\ u \in U
        BY <1>1, <3>1
      <4>3. f[k] = b
        BY <3>3, <4>1, <4>2, AppendIsConcat
      <4>4. one \in Seq(U) /\ P[v] = one /\ r[k] = one
        BY <4>1, <4>2
      <4> HIDE DEF one, v, u
      <4>5. Len(a) \in Nat /\ DOMAIN a = 1..Len(a) /\ b \in Seq(V) /\ Len(b) = Len(a) + 1
            /\ b[Len(a) + 1] = v /\ \A i \in 1..Len(a) : b[i] = a[i]
        BY <3>3, <4>2, AppendProperties, LenProperties
      <4>6. DOMAIN b = 1..Len(a) + 1
        BY <4>5, LenProperties
      <4> HIDE DEF b
      <4>7. M(b) = Append(M(a), one)
        <5> DEFINE m == M(a)
                   e == M(b)
                   l == Len(a)
                   o == Append(m, one)
        <5>1. DOMAIN e = 1..l + 1 /\ \A i \in 1..l + 1 : e[i] = P[b[i]]
          BY <4>6
        <5>2. DOMAIN m = 1..l /\ \A i \in 1..l : m[i] = P[a[i]]
          BY <4>5
        <5>3. Len(m) = l
          BY <4>5, <5>2, <3>2, LenProperties
        <5>9. e = [i \in 1..l + 1 |-> P[b[i]]]
          BY <4>6
        <5>10. m \in Seq(Seq(U)) /\ l \in Nat
          BY <3>2, <4>5
        <5> HIDE DEF m, e, l
        <5>4. o \in Seq(Seq(U)) /\ Len(o) = l + 1 /\ o[l + 1] = one /\ \A i \in 1..l : o[i] = m[i]
          BY <4>4, <5>3, <5>10, AppendProperties
        <5>5. DOMAIN o = 1..l + 1 /\ o = [i \in 1..l + 1 |-> o[i]]
          BY <5>4, LenProperties
        <5> HIDE DEF o
        <5>6. ASSUME NEW i \in 1..l + 1 PROVE P[b[i]] = o[i]
          <6>1. CASE i = l + 1
            BY <4>4, <4>5, <5>4, <6>1 DEF l
          <6>2. CASE i # l + 1
            <7>1. i \in 1..l
              BY <5>10, <6>2
            <7> QED BY <4>5, <5>2, <5>4, <7>1 DEF l
          <6> QED BY <6>1, <6>2
        <5>7. e = o
          BY <5>5, <5>6, <5>9
        <5> QED BY <5>7 DEF e, o, m
      <4>8. FlattenSeq(Append(M(a), one)) = FlattenSeq(M(a)) \o one
        <5> HIDE DEF M
        <5> QED BY <3>2, <4>4, FlattenAppend
      <4>9. Append(M(a), one) \in Seq(Seq(U))
        <5> HIDE DEF M
        <5> QED BY <3>2, <4>4, AppendProperties
      <4> HIDE DEF M
      <4> QED BY <3>2, <3>3, <4>3, <4>4, <4>7, <4>8, <4>9
    <3> QED BY <3>4, <3>5
  <2> QED BY <2>1, <2>2
<1>9. \A k \in 0..n : k \in T
  <2> HIDE DEF T
  <2>1. 0 \in Int /\ n \in Int
    BY <1>1
  <2>2. \A k \in 0..n : (\A j \in 0..k - 1 : j \in T) => k \in T
    BY <1>8
  <2> QED BY ONLY <2>1, <2>2, Upwards
<1>10. FlattenSeq(M(f[n])) = g[n]
  <2> HIDE DEF M
  <2>1. n \in T
    BY <1>1, <1>9
  <2> QED BY <2>1
<1>11. FlattenSeq(q) = f[n] /\ FlattenSeq(r) = g[n]
  BY <1>2, <1>3, <1>4, JoinsFlat
<1> QED BY <1>10, <1>11 DEF Mapped

Words(ps, A, B) == [n \in DOMAIN ps |-> ParamWord(ps[n][1], ps[n][2], A, B)]

PlainParams(ps) == /\ ps \in Seq(Seq(Nat) \X Seq(Nat))
                   /\ \A n \in 1..Len(ps) : ps[n][1] \in Seq(KeyChars) \ {<<>>}

\* the words of parameters are as different as these
WordsOf(ws, ps, A, B) ==
  /\ ws \in Seq(Seq(Clean \cup {Equals})) /\ Len(ws) = Len(ps)
  /\ \A n \in 1..Len(ps) : ws[n] = ParamWord(ps[n][1], ps[n][2], A, B)
  /\ \A n \in 1..Len(ps) : trim_copy(ws[n]) = ws[n] /\ ws[n] # <<>> /\ Without(ws[n], Ampersand)
  /\ \A n \in 1..Len(ps) :
       divide(ws[n], Equals) = <<EscapedWhere(ps[n][1], A), EscapedWhere(ps[n][2], B)>>

LEMMA PlainParam ==
  ASSUME NEW ps, PlainParams(ps), NEW n \in 1..Len(ps)
  PROVE  /\ Len(ps) \in Nat /\ DOMAIN ps = 1..Len(ps)
         /\ ps[n] = <<ps[n][1], ps[n][2]>>
         /\ ps[n][1] \in Seq(KeyChars) /\ ps[n][1] # <<>> /\ ps[n][2] \in Seq(Nat)
         /\ ps[n][1] \in Seq(Nat)
<1>1. ps \in Seq(Seq(Nat) \X Seq(Nat)) /\ ps[n][1] \in Seq(KeyChars) /\ ps[n][1] # <<>>
  BY DEF PlainParams
<1>2. ps[n] \in Seq(Nat) \X Seq(Nat)
  BY <1>1, ElementOfSeq
<1>3. Len(ps) \in Nat /\ DOMAIN ps = 1..Len(ps)
  BY <1>1, LenProperties
<1> QED BY <1>1, <1>2, <1>3

LEMMA WordsMade ==
  ASSUME NEW ps, PlainParams(ps), NEW A, NEW B, Encodings(A, B)
  PROVE  WordsOf(Words(ps, A, B), ps, A, B)
<1> DEFINE S == Clean \cup {Equals}
           ws == Words(ps, A, B)
           word(n) == ParamWord(ps[n][1], ps[n][2], A, B)
<1>1. Len(ps) \in Nat /\ DOMAIN ps = 1..Len(ps)
  <2>1. ps \in Seq(Seq(Nat) \X Seq(Nat))
    BY DEF PlainParams
  <2> QED BY <2>1, LenProperties
<1>2. ASSUME NEW n \in 1..Len(ps)
      PROVE  /\ word(n) \in Seq(S) /\ word(n) # <<>> /\ trim_copy(word(n)) = word(n)
             /\ Without(word(n), Ampersand)
             /\ divide(word(n), Equals) = <<EscapedWhere(ps[n][1], A), EscapedWhere(ps[n][2], B)>>
  <2> DEFINE k == ps[n][1]
             v == ps[n][2]
             w == word(n)
  <2>1. k \in Seq(KeyChars) /\ k # <<>> /\ v \in Seq(Nat)
    BY PlainParam
  <2>2. w = ParamWord(k, v, A, B)
    OBVIOUS
  <2> HIDE DEF k, v, w
  <2>3. /\ w \in Seq(Clean \cup {Equals}) /\ w # <<>>
        /\ divide(w, Equals) = <<EscapedWhere(k, A), EscapedWhere(v, B)>>
        /\ trim_copy(w) = w
    BY <2>1, <2>2, ParamWordRead
  <2>4. Without(w, Ampersand)
    <3>1. \A i \in 1..Len(w) : w[i] \in S
      BY <2>3, ElementOfSeq
    <3> QED BY <3>1 DEF Without, Clean, Ampersand, Equals
  <2> QED BY <2>3, <2>4 DEF w, k, v
<1> HIDE DEF word
<1>3. ws = [n \in 1..Len(ps) |-> word(n)]
  BY <1>1 DEF Words, word
<1> HIDE DEF ws, S
<1>5. ws \in Seq(Seq(S)) /\ Len(ws) = Len(ps) /\ \A n \in 1..Len(ps) : ws[n] = word(n)
  BY <1>1, <1>2, <1>3
<1>6. WordsOf(ws, ps, A, B)
  <2>1. \A n \in 1..Len(ps) : ws[n] = ParamWord(ps[n][1], ps[n][2], A, B)
    BY <1>5 DEF word
  <2> QED BY <1>2, <1>5, <2>1 DEF WordsOf, S
<1> QED BY <1>6 DEF ws

LEMMA WordsDiffer ==
  ASSUME NEW ps, PlainParams(ps), NEW A, NEW B, Encodings(A, B), NEW ws, WordsOf(ws, ps, A, B),
         NEW i \in 1..Len(ps), NEW j \in 1..Len(ps)
  PROVE  ws[i] = ws[j] <=> ps[i] = ps[j]
<1>1. ASSUME ps[i] = ps[j] PROVE ws[i] = ws[j]
  BY <1>1 DEF WordsOf
<1>2. ASSUME ws[i] = ws[j] PROVE ps[i] = ps[j]
  <2> DEFINE a(n) == EscapedWhere(ps[n][1], A)
             b(n) == EscapedWhere(ps[n][2], B)
  <2>1. divide(ws[i], Equals) = <<a(i), b(i)>> /\ divide(ws[j], Equals) = <<a(j), b(j)>>
    BY DEF WordsOf
  <2>2. ASSUME NEW n \in 1..Len(ps)
        PROVE decode_url(a(n), TRUE) = ps[n][1] /\ decode_url(b(n), TRUE) = ps[n][2]
              /\ ps[n] = <<ps[n][1], ps[n][2]>>
    <3> DEFINE k == ps[n][1]
               v == ps[n][2]
    <3>1. ps[n] = <<k, v>> /\ k \in Seq(KeyChars) /\ k # <<>> /\ v \in Seq(Nat)
      BY PlainParam
    <3> HIDE DEF k, v
    <3>2. decode_url(EscapedWhere(k, A), TRUE) = k /\ decode_url(EscapedWhere(v, B), TRUE) = v
      BY <3>1, ParamRead
    <3> QED BY <3>1, <3>2 DEF k, v
  <2> HIDE DEF a, b
  <2>3. a(i) = a(j) /\ b(i) = b(j)
    BY <1>2, <2>1
  <2> QED BY <2>2, <2>3
<1> QED BY <1>1, <1>2

\* elements that were seen before
Firsts(x) == [k \in DOMAIN x |-> IF \E j \in 1..k - 1 : x[j] = x[k] THEN <<>> ELSE <<x[k]>>]

LEMMA FirstsKeep ==
  ASSUME NEW V, NEW x \in Seq(V)
  PROVE  Keeps(Firsts(x), x) /\ Unrepeated(x) = FlattenSeq(Firsts(x)) /\ Unrepeated(x) \in Seq(V)
<1>1. DOMAIN x = 1..Len(x)
  BY LenProperties
<1>2. Keeps(Firsts(x), x)
  BY <1>1 DEF Keeps, Firsts
<1>3. Unrepeated(x) = FlattenSeq(Firsts(x))
  BY Zenon DEF Unrepeated, Firsts
<1>4. FlattenSeq(Firsts(x)) \in Seq(V)
  BY <1>2, KeepsType
<1> QED BY <1>2, <1>3, <1>4

\* What was written of parameters is read as these, each of them once.
LEMMA QueryRead ==
  ASSUME NEW ps, PlainParams(ps), NEW A, NEW B, Encodings(A, B), NEW ws, WordsOf(ws, ps, A, B)
  PROVE  Joined(ws, Ampersand) \in Seq(Written) /\ parse_query_text(Joined(ws, Ampersand)) = Unrepeated(ps)
<1> DEFINE n == Len(ps)
           s == Joined(ws, Ampersand)
           V == Seq(Nat)
           U == Seq(Nat) \X Seq(Nat)
           Reads(text) == decode_url(text, TRUE)
           P(w) == LET pair == divide(w, Equals)
                   IN IF pair[1] = <<>> THEN <<>> ELSE << <<Reads(pair[1]), Reads(pair[2])>> >>
<1>1. ps \in Seq(U) /\ n \in Nat /\ DOMAIN ps = 1..n
  BY LenProperties DEF PlainParams
<1>2. ws \in Seq(Seq(Written)) /\ ws \in Seq(V) /\ Len(ws) = n /\ DOMAIN ws = 1..n
  <2> DEFINE W == Clean \cup {Equals}
             X == Seq(W)
             Y == Seq(Written)
  <2>1. ws \in Seq(X) /\ Len(ws) = n
    BY DEF WordsOf
  <2>2. W \subseteq Written /\ Written \subseteq Nat
    BY CleanChars DEF Written
  <2> HIDE DEF W, n
  <2>3. X \subseteq Y /\ Y \subseteq V
    BY <2>2, SeqOfMore
  <2> HIDE DEF X, Y, V
  <2>4. ws \in Seq(Y) /\ ws \in Seq(V)
    BY <2>1, <2>3, SeqOfMore
  <2> QED BY <2>1, <2>4, LenProperties DEF Y
<1>3. split(s, Ampersand) = ws /\ s \in Seq(Written)
  <2>1. CASE ws = <<>>
    <3>1. s = <<>>
      <4>1. Joined(<<>>, Ampersand) = FlattenSeq(<<>>)
        BY DEF Joined
      <4> QED BY <2>1, <4>1, FlattenNone
    <3> DEFINE p == Parts(<<>>, Ampersand)
               q == [k \in DOMAIN p |-> trim_copy(p[k])]
    <3>2. q = << <<>> >>
      <4>1. p = << <<>> >>
        BY PartsNone
      <4>2. trim_copy(<<>>) = <<>>
        BY DEF trim_copy
      <4> QED BY <4>1, <4>2
    <3>3. NonEmpty(q) = <<>>
      <4> DEFINE e == << <<>> >>
      <4>1. [k \in DOMAIN e |-> IF e[k] = <<>> THEN <<>> ELSE <<e[k]>>] = << <<>> >>
        OBVIOUS
      <4>2. NonEmpty(e) = FlattenSeq(<< <<>> >>)
        BY <4>1 DEF NonEmpty
      <4>3. FlattenSeq(<< <<>> >>) = <<>>
        <5> DEFINE none == <<>>
        <5>1. none \in Seq(Nat)
          OBVIOUS
        <5> DEFINE l == <<none>>
        <5> HIDE DEF none
        <5>2. l \in Seq(Seq(Nat)) /\ Len(l) = 1 /\ l[1] = none
          BY <5>1
        <5> HIDE DEF l
        <5>3. FlattenSeq(l) = none
          BY <5>2, FlattenFew
        <5> QED BY <5>3 DEF l, none
      <4> QED BY <3>2, <4>2, <4>3
    <3>4. split(<<>>, Ampersand) = <<>>
      BY <3>3 DEF split
    <3>5. <<>> \in Seq(Written)
      OBVIOUS
    <3> QED BY <2>1, <3>1, <3>4, <3>5
  <2>2. CASE ws # <<>>
    <3>1. Ampersand \in Written
      BY DEF Written
    <3>2. \A k \in 1..Len(ws) : Without(ws[k], Ampersand)
      BY <1>2 DEF WordsOf
    <3>3. s \in Seq(Written) /\ Parts(s, Ampersand) = ws
      BY <1>2, <2>2, <3>1, <3>2, PartsJoined
    <3> HIDE DEF s
    <3>4. \A k \in 1..Len(ws) : trim_copy(ws[k]) = ws[k] /\ ws[k] # <<>>
      BY <1>2 DEF WordsOf
    <3> QED BY <1>2, <3>3, <3>4, SplitSame
  <2> QED BY <2>1, <2>2
<1>4. ASSUME NEW k \in 1..n PROVE P(ws[k]) = << ps[k] >>
  <2> DEFINE a == EscapedWhere(ps[k][1], A)
             b == EscapedWhere(ps[k][2], B)
  <2>1. divide(ws[k], Equals) = <<a, b>>
    BY DEF WordsOf
  <2>2. /\ ps[k] = <<ps[k][1], ps[k][2]>>
        /\ ps[k][1] \in Seq(KeyChars) /\ ps[k][1] # <<>> /\ ps[k][2] \in Seq(Nat)
    BY PlainParam
  <2>3. a # <<>> /\ Reads(a) = ps[k][1] /\ Reads(b) = ps[k][2]
    BY <2>2, ParamRead, ZenonT(30)
  <2> HIDE DEF a, b, Reads
  <2>4. P(ws[k]) = << <<Reads(a), Reads(b)>> >>
    BY <2>1, <2>3
  <2> QED BY <2>2, <2>3, <2>4
<1> DEFINE q == Firsts(ws)
           r == Firsts(ps)
           z == FlattenSeq(q)
           F == [w \in V |-> P(w)]
<1>5. Keeps(q, ws) /\ Unrepeated(ws) = z /\ z \in Seq(V) /\ Keeps(r, ps) /\ Unrepeated(ps) = FlattenSeq(r)
  BY <1>1, <1>2, FirstsKeep
<1>6. ASSUME NEW k \in 1..n PROVE q[k] = <<>> <=> r[k] = <<>>
  <2>1. \A j \in 1..k - 1 : j \in 1..n
    BY <1>1
  <2>2. \A j \in 1..k - 1 : ws[j] = ws[k] <=> ps[j] = ps[k]
    BY <2>1, WordsDiffer
  <2>3. q[k] = (IF \E j \in 1..k - 1 : ws[j] = ws[k] THEN <<>> ELSE <<ws[k]>>)
    BY <1>2 DEF Firsts
  <2>4. r[k] = (IF \E j \in 1..k - 1 : ps[j] = ps[k] THEN <<>> ELSE <<ps[k]>>)
    BY <1>1 DEF Firsts
  <2> QED BY <2>2, <2>3, <2>4
<1>7. \A k \in 1..n : ws[k] \in V
  BY <1>2, ElementOfSeq
<1>8. parse_query_text(s) = FlattenSeq([k \in DOMAIN z |-> P(z[k])])
  BY <1>3, <1>5, Zenon DEF parse_query_text, Pairs
<1>9. [k \in DOMAIN z |-> P(z[k])] = Mapped(F, z)
  <2> HIDE DEF z, P, F
  <2>1. \A k \in DOMAIN z : z[k] \in V
    BY <1>5, LenProperties, ElementOfSeq
  <2>2. \A k \in DOMAIN z : F[z[k]] = P(z[k])
    BY <2>1 DEF F
  <2> QED BY <2>2 DEF Mapped
<1>10. \A k \in 1..n : F[ws[k]] = << ps[k] >>
  <2> HIDE DEF P
  <2> QED BY <1>4, <1>7
<1>11. FlattenSeq(Mapped(F, z)) = FlattenSeq(r)
  <2> HIDE DEF F, q, r, V, U
  <2>1. Len(ps) = Len(ws) /\ \A k \in 1..Len(ws) : (q[k] = <<>> <=> r[k] = <<>>) /\ F[ws[k]] = << ps[k] >>
    BY <1>2, <1>6, <1>10
  <2>2. Keeps(q, ws) /\ Keeps(r, ps) /\ ws \in Seq(V) /\ ps \in Seq(U)
    BY <1>1, <1>2, <1>5
  <2>3. Alike(ws, ps, q, r, F)
    BY <2>1, <2>2 DEF Alike
  <2>4. FlattenSeq(Mapped(F, FlattenSeq(q))) = FlattenSeq(r)
    BY ONLY <2>2, <2>3, KeepsMapped
  <2> QED BY <2>4
<1> QED BY <1>3, <1>5, <1>8, <1>9, <1>11

\* what is encoded piece by piece
LEMMA EscapedFlatten ==
  ASSUME NEW q \in Seq(Seq(Nat)), NEW set \in SUBSET Byte
  PROVE  EscapedWhere(FlattenSeq(q), set) = FlattenSeq([k \in DOMAIN q |-> EscapedWhere(q[k], set)])
<1> DEFINE V == Seq(Nat)
           E(x) == EscapedWhere(x, set)
           M(p) == [k \in DOMAIN p |-> E(p[k])]
           T == {p \in Seq(V) : M(p) \in Seq(V) /\ E(FlattenSeq(p)) = FlattenSeq(M(p))}
<1>1. <<>> \in T
  <2>1. M(<<>>) = <<>>
    OBVIOUS
  <2>2. E(<<>>) = <<>>
    BY EscapedNone
  <2> HIDE DEF M, E
  <2>3. <<>> \in Seq(V)
    OBVIOUS
  <2> QED BY <2>1, <2>2, <2>3, FlattenNone
<1>2. ASSUME NEW p \in Seq(V), p \in T, NEW v \in V PROVE Append(p, v) \in T
  <2> DEFINE a == Append(p, v)
             n == Len(p)
             m == M(p)
             e == E(v)
             o == Append(m, e)
             l == M(a)
  <2>1. n \in Nat /\ DOMAIN p = 1..n /\ a \in Seq(V) /\ Len(a) = n + 1 /\ a[n + 1] = v
        /\ \A i \in 1..n : a[i] = p[i]
    BY LenProperties, AppendProperties
  <2>2. DOMAIN a = 1..n + 1
    BY <2>1, LenProperties
  <2>3. m = [i \in 1..n |-> E(p[i])] /\ l = [i \in 1..n + 1 |-> E(a[i])]
    BY <2>1, <2>2
  <2>4. m \in Seq(V) /\ E(FlattenSeq(p)) = FlattenSeq(m) /\ e \in V
    BY <1>2, EscapedType
  <2>5. Len(m) = n
    BY <2>1, <2>3, <2>4, LenProperties
  <2> HIDE DEF M, E, n, m, l, e, a, V
  <2>6. o \in Seq(V) /\ Len(o) = n + 1 /\ o[n + 1] = e /\ \A i \in 1..n : o[i] = m[i]
    BY <2>4, <2>5, AppendProperties
  <2>7. o = [i \in 1..n + 1 |-> o[i]]
    BY <2>6, LenProperties
  <2> HIDE DEF o
  <2>8. ASSUME NEW i \in 1..n + 1 PROVE E(a[i]) = o[i]
    <3>1. CASE i = n + 1
      BY <2>1, <2>6, <3>1 DEF e
    <3>2. CASE i # n + 1
      <4>1. i \in 1..n
        BY <2>1, <3>2
      <4> QED BY <2>1, <2>3, <2>6, <4>1
    <3> QED BY <3>1, <3>2
  <2>9. l = o
    BY <2>3, <2>7, <2>8
  <2>10. FlattenSeq(a) = FlattenSeq(p) \o v /\ FlattenSeq(o) = FlattenSeq(m) \o e
         /\ FlattenSeq(p) \in Seq(Nat)
    <3>1. p \in Seq(Seq(Nat)) /\ v \in Seq(Nat) /\ m \in Seq(Seq(Nat)) /\ e \in Seq(Nat)
      BY <1>2, <2>4 DEF V
    <3>2. FlattenSeq(a) = FlattenSeq(p) \o v
      BY <3>1, FlattenAppend DEF a
    <3>3. FlattenSeq(o) = FlattenSeq(m) \o e
      BY <3>1, FlattenAppend DEF o
    <3> QED BY <3>1, <3>2, <3>3, FlattenType
  <2>11. E(FlattenSeq(p) \o v) = E(FlattenSeq(p)) \o e
    <3>1. v \in Seq(Nat)
      BY <1>2 DEF V
    <3> QED BY <2>10, <3>1, EscapedConcat DEF E, e
  <2>12. E(FlattenSeq(a)) = FlattenSeq(l)
    BY <2>4, <2>9, <2>10, <2>11
  <2> QED BY <2>1, <2>6, <2>9, <2>12 DEF a, l
<1> HIDE DEF T, V
<1>3. \A x \in Seq(V) : x \in T
  BY <1>1, <1>2, Grows
<1>4. q \in T
  BY <1>3 DEF V
<1> QED BY <1>4 DEF T

\* parameters are written as words with separators, their keys as they are
QuerySet == Byte \ Unreserved

\* a separator, but before the first one
Sep(k) == IF k = 1 THEN <<>> ELSE <<Ampersand>>

LEMMA SepType == \A k : Sep(k) \in Seq(Nat) /\ EscapedWhere(Sep(k), UrlSet) = Sep(k)
<1>1. SUFFICES ASSUME NEW k PROVE Sep(k) \in Seq(Nat) /\ EscapedWhere(Sep(k), UrlSet) = Sep(k)
  OBVIOUS
<1>2. CASE k = 1
  BY <1>2, EscapedNone DEF Sep
<1>3. CASE k # 1
  <2> DEFINE c == Ampersand
  <2>1. c \in Nat /\ c \notin UrlSet /\ UrlSet \in SUBSET Byte
    BY DEF Ampersand, UrlSet, Byte, Space, Plus, Cr, Lf, Semicolon
  <2>2. Sep(k) = <<c>>
    BY <1>3 DEF Sep
  <2> HIDE DEF c
  <2>3. EscapedWhere(<<c>>, UrlSet) = Code(c, UrlSet)
    BY <2>1, EscapedOne
  <2>4. Code(c, UrlSet) = <<c>> /\ <<c>> \in Seq(Nat)
    BY <2>1 DEF Code
  <2> QED BY <2>2, <2>3, <2>4
<1> QED BY <1>2, <1>3

LEMMA JoinedSeps ==
  ASSUME NEW ws
  PROVE  Joined(ws, Ampersand) = FlattenSeq([k \in DOMAIN ws |-> Sep(k) \o ws[k]])
BY Zenon DEF Joined, Sep

LEMMA QueryWords ==
  ASSUME NEW ps, PlainParams(ps)
  PROVE  params_to_query_str(ps) = Joined(Words(ps, {}, QuerySet), Ampersand)
<1> DEFINE n == Len(ps)
           one == <<Equals>>
           old(k) == ((Sep(k) \o ps[k][1]) \o one) \o encode_query_param(ps[k][2])
           new(k) == Sep(k) \o ParamWord(ps[k][1], ps[k][2], {}, QuerySet)
<1>1. DOMAIN ps = 1..n
  <2>1. ps \in Seq(Seq(Nat) \X Seq(Nat))
    BY DEF PlainParams
  <2> QED BY <2>1, LenProperties
<1>2. ASSUME NEW k \in 1..n PROVE old(k) = new(k)
  <2> DEFINE a == Sep(k)
             b == ps[k][1]
             v == ps[k][2]
             e == EscapedWhere(v, QuerySet)
             none == {}
  <2>1. a \in Seq(Nat) /\ b \in Seq(Nat) /\ v \in Seq(Nat) /\ one \in Seq(Nat)
    <3>1. one \in Seq(Nat)
      BY DEF Equals
    <3> QED BY <3>1, SepType, PlainParam
  <2>2. encode_query_param(v) = e
    BY DEF encode_query_param, QuerySet
  <2>3. none \in SUBSET Byte /\ QuerySet \in SUBSET Byte /\ \A i \in 1..Len(b) : b[i] \notin none
    BY DEF QuerySet
  <2> HIDE DEF a, b, v, e, one, none
  <2>4. EscapedWhere(b, none) = b
    BY <2>1, <2>3, EscapedSame
  <2>5. e \in Seq(Nat)
    BY <2>1, <2>3, EscapedType DEF e
  <2>6. ((a \o b) \o one) \o e = a \o ((b \o one) \o e)
    <3> DEFINE S == Nat
    <3>1. a \in Seq(S) /\ b \in Seq(S) /\ one \in Seq(S) /\ e \in Seq(S)
      BY <2>1, <2>5
    <3> HIDE DEF S
    <3> DEFINE bo == b \o one
    <3>2. a \in Seq(S) /\ b \in Seq(S) /\ one \in Seq(S)
      BY <3>1
    <3>3. (a \o b) \o one = a \o (b \o one)
      BY ONLY <3>2, ConcatAssociative
    <3>4. bo \in Seq(S)
      BY ONLY <3>2, ConcatProperties
    <3> HIDE DEF bo
    <3>5. a \in Seq(S) /\ bo \in Seq(S) /\ e \in Seq(S)
      BY <3>1, <3>4
    <3>6. (a \o bo) \o e = a \o (bo \o e)
      BY ONLY <3>5, ConcatAssociative, SMTT(30)
    <3> QED BY <3>3, <3>6 DEF bo
  <2>7. ParamWord(b, v, none, QuerySet) = (b \o one) \o e
    BY <2>4 DEF ParamWord, one, e
  <2> QED BY <2>2, <2>6, <2>7 DEF a, b, v, none
<1>3. params_to_query_str(ps) = FlattenSeq([k \in DOMAIN ps |-> old(k)])
  BY Zenon DEF params_to_query_str, Sep
<1>4. DOMAIN Words(ps, {}, QuerySet) = DOMAIN ps
      /\ \A k \in DOMAIN ps : Words(ps, {}, QuerySet)[k] = ParamWord(ps[k][1], ps[k][2], {}, QuerySet)
  BY DEF Words
<1>5. [k \in DOMAIN ps |-> old(k)] = [k \in DOMAIN ps |-> Sep(k) \o Words(ps, {}, QuerySet)[k]]
  <2> DEFINE w(k) == Sep(k) \o Words(ps, {}, QuerySet)[k]
  <2>1. \A k \in DOMAIN ps : old(k) = w(k)
    <3> HIDE DEF old
    <3> QED BY <1>1, <1>2, <1>4
  <2> HIDE DEF old, w
  <2>2. [k \in DOMAIN ps |-> old(k)] = [k \in DOMAIN ps |-> w(k)]
    BY <2>1
  <2> QED BY <2>2 DEF w
<1>6. Joined(Words(ps, {}, QuerySet), Ampersand)
        = FlattenSeq([k \in DOMAIN ps |-> Sep(k) \o Words(ps, {}, QuerySet)[k]])
  BY <1>4, JoinedSeps
<1> QED BY <1>3, <1>5, <1>6

LEMMA UrlSets ==
  /\ UrlSet \in SUBSET Byte /\ QuerySet \in SUBSET Byte /\ UrlSet \cap EscapeChars = {}
  /\ Equals \notin UrlSet /\ Question \notin UrlSet /\ Space \in UrlSet
  /\ Encodings({}, QuerySet) /\ Encodings(UrlSet, QuerySet \cup UrlSet)
<1>1. UrlSet \in SUBSET Byte /\ QuerySet \in SUBSET Byte
  BY DEF UrlSet, QuerySet, Byte, Space, Plus, Cr, Lf, Semicolon
<1>2. UrlSet \cap EscapeChars = {} /\ Equals \notin UrlSet /\ Question \notin UrlSet /\ Space \in UrlSet
  BY DEF UrlSet, EscapeChars, Digit, Percent, Equals, Question, Space, Plus, Cr, Lf, Semicolon
<1>3. Encodings({}, QuerySet)
  BY <1>1 DEF Encodings, QuerySet
<1>4. Encodings(UrlSet, QuerySet \cup UrlSet)
  BY <1>1 DEF Encodings, QuerySet
<1> QED BY <1>1, <1>2, <1>3, <1>4

\* in a request line all of it is encoded once more
LEMMA QueryUrl ==
  ASSUME NEW ps, PlainParams(ps)
  PROVE  EscapedWhere(Joined(Words(ps, {}, QuerySet), Ampersand), UrlSet)
           = Joined(Words(ps, UrlSet, QuerySet \cup UrlSet), Ampersand)
<1> DEFINE n == Len(ps)
           one == <<Equals>>
           E(x) == EscapedWhere(x, UrlSet)
           ws == Words(ps, {}, QuerySet)
           us == Words(ps, UrlSet, QuerySet \cup UrlSet)
           q == [k \in DOMAIN ws |-> Sep(k) \o ws[k]]
           r == [k \in DOMAIN us |-> Sep(k) \o us[k]]
<1>1. DOMAIN ps = 1..n /\ n \in Nat
  <2>1. ps \in Seq(Seq(Nat) \X Seq(Nat))
    BY DEF PlainParams
  <2> QED BY <2>1, LenProperties
<1>2. DOMAIN ws = 1..n /\ DOMAIN us = 1..n
      /\ \A k \in 1..n : /\ ws[k] = ParamWord(ps[k][1], ps[k][2], {}, QuerySet)
                         /\ us[k] = ParamWord(ps[k][1], ps[k][2], UrlSet, QuerySet \cup UrlSet)
  BY <1>1 DEF Words
<1>3. ASSUME NEW k \in 1..n
      PROVE Sep(k) \o ws[k] \in Seq(Nat) /\ E(Sep(k) \o ws[k]) = Sep(k) \o us[k]
  <2> DEFINE a == Sep(k)
             b == ps[k][1]
             v == ps[k][2]
             none == {}
             bn == EscapedWhere(b, none)
             e == EscapedWhere(v, QuerySet)
             w == ws[k]
             bo == bn \o one
  <2>1. a \in Seq(Nat) /\ b \in Seq(Nat) /\ v \in Seq(Nat) /\ one \in Seq(Nat) /\ E(a) = a
    <3>1. one \in Seq(Nat)
      BY DEF Equals
    <3> QED BY <3>1, SepType, PlainParam
  <2>2. w = (bn \o one) \o e
    BY <1>2 DEF ParamWord
  <2>3. us[k] = (E(b) \o one) \o EscapedWhere(v, QuerySet \cup UrlSet)
    BY <1>2 DEF ParamWord
  <2>4. E(one) = one
    <3> DEFINE c == Equals
    <3>1. c \in Nat /\ c \notin UrlSet /\ UrlSet \in SUBSET Byte
      BY UrlSets DEF Equals
    <3> HIDE DEF c
    <3>2. EscapedWhere(<<c>>, UrlSet) = Code(c, UrlSet) /\ Code(c, UrlSet) = <<c>>
      BY <3>1, EscapedOne DEF Code
    <3> QED BY <3>2 DEF c
  <2>5. none \in SUBSET Byte /\ \A i \in 1..Len(b) : b[i] \notin none
    OBVIOUS
  <2>6. UrlSet \in SUBSET Byte /\ QuerySet \in SUBSET Byte /\ UrlSet \cap EscapeChars = {}
    BY UrlSets
  <2> HIDE DEF a, b, v, none, e, w, one, ws, us, q, r
  <2>7. bn = b
    BY <2>1, <2>5, EscapedSame
  <2>8. e \in Seq(Nat) /\ bn \in Seq(Nat)
    BY <2>1, <2>6, <2>7, EscapedType DEF e
  <2>9. E(e) = EscapedWhere(v, QuerySet \cup UrlSet)
    BY <2>1, <2>6, EscapedTwice DEF e
  <2> HIDE DEF bn
  <2>10. bo \in Seq(Nat) /\ E(bo) = E(bn) \o E(one)
    BY <2>1, <2>6, <2>8, ConcatProperties, EscapedConcat, ZenonT(30)
  <2> HIDE DEF bo
  <2>11. w = bo \o e
    BY <2>2 DEF bo
  <2>12. w \in Seq(Nat) /\ E(w) = E(bo) \o E(e)
    BY <2>6, <2>8, <2>10, <2>11, ConcatProperties, EscapedConcat
  <2>13. a \o w \in Seq(Nat) /\ E(a \o w) = E(a) \o E(w)
    BY <2>1, <2>6, <2>12, ConcatProperties, EscapedConcat
  <2>14. E(w) = us[k]
    BY <2>3, <2>4, <2>7, <2>9, <2>10, <2>12
  <2> QED BY <2>1, <2>13, <2>14 DEF a, w
<1> DEFINE x(k) == Sep(k) \o ws[k]
           y(k) == Sep(k) \o us[k]
<1>4. q = [k \in 1..n |-> x(k)] /\ r = [k \in 1..n |-> y(k)] /\ DOMAIN q = 1..n
  BY <1>2
<1>5. \A k \in 1..n : x(k) \in Seq(Nat) /\ E(x(k)) = y(k)
  BY <1>3
<1>6. Joined(ws, Ampersand) = FlattenSeq(q) /\ Joined(us, Ampersand) = FlattenSeq(r)
  BY JoinedSeps
<1> HIDE DEF q, r, x, y, ws, us, E
<1>7. q \in Seq(Seq(Nat))
  BY <1>1, <1>4, <1>5
<1>8. EscapedWhere(FlattenSeq(q), UrlSet) = FlattenSeq([k \in DOMAIN q |-> EscapedWhere(q[k], UrlSet)])
  BY <1>7, EscapedFlatten, UrlSets
<1>9. [k \in DOMAIN q |-> E(q[k])] = r
  BY <1>4, <1>5
<1> QED BY <1>6, <1>8, <1>9 DEF ws, us, E

----------------------------------------------------------------------------
(* The request line is written and read again *)

LineOf(t) == (<<Method, Space>> \o t) \o <<Space, Version>>

LEMMA TwoOnes ==
  ASSUME NEW S, NEW x \in S, NEW y \in S
  PROVE  <<x>> \o <<y>> = <<x, y>>
<1> DEFINE one == <<x>>
<1>1. one \in Seq(S) /\ Append(one, y) = <<x, y>>
  <2> DEFINE a == Append(one, y)
             b == <<x, y>>
  <2>1. one \in Seq(S) /\ Len(one) = 1 /\ one[1] = x /\ b \in Seq(S) /\ Len(b) = 2 /\ b[1] = x /\ b[2] = y
    OBVIOUS
  <2> HIDE DEF one, b
  <2>2. a \in Seq(S)
    BY <2>1, AppendProperties
  <2>3. Len(a) = 2 /\ a[1] = x /\ a[2] = y
    <3>1. Len(a) = Len(one) + 1
      BY <2>1, AppendProperties, ZenonT(30)
    <3>2. a[Len(one) + 1] = y
      BY <2>1, AppendProperties
    <3>4. 1 \in 1..Len(one)
      BY <2>1
    <3>5. a[1] = one[1]
      BY <2>1, <3>4, AppendProperties, SMTT(30)
    <3> QED BY <2>1, <3>1, <3>2, <3>5
  <2> HIDE DEF a
  <2>4. \A i \in 1..2 : i = 1 \/ i = 2
    OBVIOUS
  <2>5. a = b
    BY <2>1, <2>2, <2>3, <2>4, SeqEqual
  <2> QED BY <2>1, <2>5 DEF a, b
<1> HIDE DEF one
<1>2. Append(one, y) = one \o <<y>>
  BY <1>1, AppendIsConcat
<1> QED BY <1>1, <1>2 DEF one

LEMMA LineWords ==
  ASSUME NEW t \in Seq(Nat), Without(t, Space)
  PROVE  LineOf(t) \in Seq(Nat) /\ Parts(LineOf(t), Space) = << <<Method>>, t, <<Version>> >>
<1> DEFINE S == Nat
           c == <<Space>>
           m == <<Method>>
           v == <<Version>>
           ws == <<m, t, v>>
           mc == m \o c
           cv == c \o v
           ct == c \o t
           none == <<>>
<1>1. m \in Seq(S) /\ c \in Seq(S) /\ v \in Seq(S) /\ none \in Seq(S) /\ Space \in S
  BY DEF Method, Space, Version
<1>2. mc = <<Method, Space>> /\ cv = <<Space, Version>>
  <2>1. Method \in S /\ Space \in S /\ Version \in S
    BY DEF Method, Space, Version
  <2> QED BY <2>1, TwoOnes
<1>3. Without(m, Space) /\ Without(v, Space) /\ Without(t, Space)
  BY DEF Without, Method, Space, Version
<1>4. [k \in DOMAIN ws |-> (IF k = 1 THEN <<>> ELSE <<Space>>) \o ws[k]] = <<none \o m, ct, cv>>
  <2> HIDE DEF m, v
  <2> QED OBVIOUS
<1>5. Joined(ws, Space) = FlattenSeq(<<none \o m, ct, cv>>)
  BY <1>4 DEF Joined
<1>6. LineOf(t) = (mc \o t) \o cv
  BY <1>2 DEF LineOf
<1>7. t \in Seq(S)
  OBVIOUS
<1> HIDE DEF S, c, m, v, none
<1>8. mc \in Seq(S) /\ cv \in Seq(S) /\ ct \in Seq(S)
  BY <1>1, <1>7, ConcatProperties
<1>9. none \o m = m
  BY <1>1, ConcatEmptySeq DEF none
<1>10. m \o ct = mc \o t
  <2>1. m \in Seq(S) /\ c \in Seq(S) /\ t \in Seq(S)
    BY <1>1, <1>7
  <2>2. (m \o c) \o t = m \o (c \o t)
    BY ONLY <2>1, ConcatAssociative, SMTT(30)
  <2> QED BY <2>2
<1> HIDE DEF mc, cv, ct
<1>11. FlattenSeq(<<m, ct, cv>>) = (m \o ct) \o cv
  <2>1. m \in Seq(S) /\ ct \in Seq(S) /\ cv \in Seq(S)
    BY <1>1, <1>8
  <2> DEFINE l == <<m, ct, cv>>
  <2>2. l \in Seq(Seq(S)) /\ Len(l) = 3 /\ l[1] = m /\ l[2] = ct /\ l[3] = cv
    BY <2>1
  <2> HIDE DEF l
  <2>3. FlattenSeq(l) = (m \o ct) \o cv
    BY <2>2, FlattenFew
  <2> QED BY <2>3 DEF l
<1>12. LineOf(t) = Joined(ws, Space)
  BY <1>5, <1>6, <1>9, <1>10, <1>11
<1>13. ws \in Seq(Seq(S)) /\ ws # <<>> /\ Len(ws) = 3
  BY <1>1, <1>7
<1>14. \A k \in 1..Len(ws) : Without(ws[k], Space)
  <2>1. \A k \in 1..3 : k = 1 \/ k = 2 \/ k = 3
    OBVIOUS
  <2>2. ws[1] = m /\ ws[2] = t /\ ws[3] = v
    OBVIOUS
  <2> QED BY <1>3, <1>13, <2>1, <2>2
<1> HIDE DEF ws
<1>15. Joined(ws, Space) \in Seq(S) /\ Parts(Joined(ws, Space), Space) = ws
  BY <1>1, <1>13, <1>14, PartsJoined
<1> QED BY <1>12, <1>15 DEF ws, m, v, S

\* what the line is taken apart to
LEMMA LineParsed ==
  ASSUME NEW t \in Seq(Nat), Without(t, Space), NEW u \in Seq(Nat), u # <<>>, trim_copy(t) = u,
         NEW h, divide(u, Hash)[1] = h
  PROVE  /\ parse_request_line(LineOf(t)).ok
         /\ parse_request_line(LineOf(t)).path = decode_url(divide(h, Question)[1], FALSE)
         /\ parse_request_line(LineOf(t)).params = parse_query_text(divide(h, Question)[2])
<1> DEFINE m == <<Method>>
           v == <<Version>>
           ws == <<m, t, v>>
           us == <<m, u, v>>
           l == LineOf(t)
           q == [k \in DOMAIN Parts(l, Space) |-> trim_copy(Parts(l, Space)[k])]
           pa == divide(h, Question)[1]
           pb == divide(h, Question)[2]
<1>1. Parts(l, Space) = ws
  BY LineWords
<1>2. m \in Seq(Nat) /\ v \in Seq(Nat) /\ m # <<>> /\ v # <<>> /\ m[1] \notin Blanks /\ v[1] \notin Blanks
      /\ Len(m) = 1 /\ Len(v) = 1 /\ m = <<Method>> /\ v = <<Version>>
  BY DEF Method, Version, Blanks, Space, Tab
<1> HIDE DEF m, v, l
<1>3. trim_copy(m) = m /\ trim_copy(v) = v
  <2>1. m[Len(m)] \notin Blanks /\ v[Len(v)] \notin Blanks
    BY <1>2
  <2> QED BY <1>2, <2>1, TrimSame
<1>4. q = us
  BY <1>1, <1>3
<1>5. us \in Seq(Seq(Nat)) /\ \A k \in 1..Len(us) : us[k] # <<>>
  <2>1. us \in Seq(Seq(Nat)) /\ Len(us) = 3 /\ us[1] = m /\ us[2] = u /\ us[3] = v
    BY <1>2
  <2>2. \A k \in 1..3 : k = 1 \/ k = 2 \/ k = 3
    OBVIOUS
  <2> QED BY <1>2, <2>1, <2>2
<1>6. split(l, Space) = us
  <2> HIDE DEF us
  <2>1. NonEmpty(q) = us
    BY <1>4, <1>5, NonEmptySame
  <2> QED BY <2>1 DEF split
<1>7. Len(us) = 3 /\ us[1] = <<Method>> /\ us[2] = u /\ us[3] = <<Version>>
  BY <1>2
<1> HIDE DEF us
<1> DEFINE r == [ok |-> TRUE, path |-> decode_url(pa, FALSE), params |-> parse_query_text(pb)]
<1>8. parse_request_line(l) = r
  BY <1>6, <1>7 DEF parse_request_line
<1> HIDE DEF pa, pb
<1>9. r.ok /\ r.path = decode_url(pa, FALSE) /\ r.params = parse_query_text(pb)
  OBVIOUS
<1> QED BY <1>8, <1>9 DEF pa, pb, l

\* paths that come through as they are
PathChars == Visible \ {Percent, Hash, Question}

LEMMA PathCharsAre == PathChars \subseteq Nat \ (Blanks \cup {0, Hash, Question})
<1>1. Visible \subseteq Nat \ (Blanks \cup {0})
  BY DEF Visible, Blanks, Space, Tab
<1> QED BY <1>1 DEF PathChars

LEMMA PathCode ==
  ASSUME NEW p \in Seq(PathChars), p # <<>>, NEW a, a = EscapedWhere(p, UrlSet)
  PROVE  /\ p \in Seq(Nat) /\ Without(p, 0)
         /\ a \in Seq(Nat \ (Blanks \cup {Hash, Question})) /\ a # <<>>
         /\ decode_url(a, FALSE) = p
<1> DEFINE W == (PathChars \ UrlSet) \cup EscapeChars
           H == Nat \ (Blanks \cup {Hash, Question})
<1>1. p \in Seq(Nat)
  <2>1. PathChars \subseteq Nat
    BY PathCharsAre
  <2> QED BY <2>1, SeqOfMore
<1>2. \A i \in 1..Len(p) : p[i] \in PathChars
  BY ElementOfSeq
<1>3. Without(p, 0)
  <2>1. \A c \in PathChars : c # 0
    BY PathCharsAre
  <2> QED BY <1>2, <2>1 DEF Without
<1>4. UrlSet \in SUBSET Byte
  BY UrlSets
<1>5. a \in Seq(H)
  <2>1. a \in Seq(W)
    BY <1>4, EscapedChars
  <2>2. W \subseteq H
    <3>1. PathChars \subseteq H
      BY PathCharsAre
    <3>2. EscapeChars \subseteq H
      BY DEF EscapeChars, Digit, Percent, Hash, Question, Blanks, Space, Tab
    <3> QED BY <3>1, <3>2
  <2> HIDE DEF W, H
  <2> QED BY <2>1, <2>2, SeqOfMore
<1>6. decode_url(a, FALSE) = p
  <2>1. \A i \in 1..Len(p) : p[i] \in {Percent, Plus} => p[i] \in UrlSet
    BY <1>2 DEF PathChars, UrlSet
  <2> QED BY <1>1, <1>4, <2>1, DecodeEscaped
<1>7. a # <<>>
  <2>1. SUFFICES ASSUME a = <<>> PROVE FALSE
    OBVIOUS
  <2> DEFINE none == <<>>
  <2>2. none \in Seq(Nat) /\ Len(none) = 0
    OBVIOUS
  <2> HIDE DEF none
  <2>3. \A i \in 1..Len(none) : none[i] \in {Percent, Plus} => none[i] \in UrlSet
    BY <2>2
  <2>4. decode_url(EscapedWhere(none, UrlSet), FALSE) = none
    BY <1>4, <2>2, <2>3, DecodeEscaped
  <2>5. EscapedWhere(none, UrlSet) = <<>>
    BY EscapedNone DEF none
  <2>6. p = none
    BY <1>6, <2>1, <2>4, <2>5
  <2> QED BY <2>6 DEF none
<1> QED BY <1>1, <1>3, <1>5, <1>6, <1>7

\* a request without parameters
LEMMA PathAlone ==
  ASSUME NEW p \in Seq(PathChars), p # <<>>
  PROVE  /\ parse_request_line(request_line(p, <<>>)).ok
         /\ parse_request_line(request_line(p, <<>>)).path = p
         /\ parse_request_line(request_line(p, <<>>)).params = parse_query_text(<<>>)
<1> DEFINE a == EscapedWhere(p, UrlSet)
           H == Nat \ (Blanks \cup {Hash, Question})
<1>1. /\ p \in Seq(Nat) /\ Without(p, 0)
      /\ a \in Seq(H) /\ a # <<>> /\ decode_url(a, FALSE) = p
  BY PathCode
<1>2. request_line(p, <<>>) = LineOf(a)
  <2>1. encode_url(p) = a
    BY <1>1, UrlSame
  <2> QED BY <2>1 DEF request_line, LineOf
<1> HIDE DEF a
<1>3. \A i \in 1..Len(a) : a[i] \in H
  BY <1>1, ElementOfSeq
<1>4. Without(a, Space) /\ Without(a, Hash) /\ Without(a, Question)
  BY <1>3 DEF Without, Blanks
<1>5. a \in Seq(Nat)
  <2>1. H \subseteq Nat
    OBVIOUS
  <2> HIDE DEF H
  <2> QED BY <1>1, <2>1, SeqOfMore
<1>6. trim_copy(a) = a
  <2>1. Len(a) \in 1..Len(a) /\ 1 \in 1..Len(a)
    BY <1>1, <1>5, LenProperties, EmptySeq
  <2>2. a[1] \notin Blanks /\ a[Len(a)] \notin Blanks
    BY <1>3, <2>1
  <2> QED BY <1>1, <1>5, <2>2, TrimSame
<1>7. divide(a, Hash) = <<a, <<>> >> /\ divide(a, Question) = <<a, <<>> >>
  BY <1>4, <1>5, DivideNowhere
<1>8. divide(a, Hash)[1] = a /\ divide(a, Question)[1] = a /\ divide(a, Question)[2] = <<>>
  BY <1>7
<1>9. /\ parse_request_line(LineOf(a)).ok
      /\ parse_request_line(LineOf(a)).path = decode_url(divide(a, Question)[1], FALSE)
      /\ parse_request_line(LineOf(a)).params = parse_query_text(divide(a, Question)[2])
  <2>1. a \in Seq(Nat) /\ Without(a, Space) /\ a # <<>> /\ trim_copy(a) = a /\ divide(a, Hash)[1] = a
    BY <1>1, <1>4, <1>5, <1>6, <1>8
  <2> QED BY ONLY <2>1, LineParsed
<1> QED BY <1>1, <1>2, <1>8, <1>9

\* a request with text after the question mark
LEMMA PathAndText ==
  ASSUME NEW p \in Seq(PathChars), p # <<>>, NEW y \in Seq(Nat), Without(y, Space)
  PROVE  \E z \in Seq(Nat) :
           /\ parse_request_line(LineOf((EscapedWhere(p, UrlSet) \o <<Question>>) \o y)).ok
           /\ parse_request_line(LineOf((EscapedWhere(p, UrlSet) \o <<Question>>) \o y)).path = p
           /\ parse_request_line(LineOf((EscapedWhere(p, UrlSet) \o <<Question>>) \o y)).params
                = parse_query_text(z)
           /\ (\A i \in 1..Len(y) : y[i] \notin Blanks \cup {Hash}) => z = y
<1> DEFINE a == EscapedWhere(p, UrlSet)
           H == Nat \ (Blanks \cup {Hash, Question})
           one == <<Question>>
           b == a \o one
           t == b \o y
<1>1. a \in Seq(H) /\ a # <<>> /\ decode_url(a, FALSE) = p
  BY PathCode
<1> HIDE DEF a
<1>2. \A i \in 1..Len(a) : a[i] \in H
  BY <1>1, ElementOfSeq
<1>3. a \in Seq(Nat) /\ Question \in Nat /\ one \in Seq(Nat) /\ Len(one) = 1 /\ one[1] = Question
  <2>1. H \subseteq Nat /\ Question \in Nat
    BY DEF Question
  <2>2. one \in Seq(Nat) /\ Len(one) = 1 /\ one[1] = Question
    BY <2>1
  <2> HIDE DEF H, one
  <2>3. a \in Seq(Nat)
    BY <1>1, <2>1, SeqOfMore
  <2> QED BY <2>1, <2>2, <2>3
<1> HIDE DEF one
<1> DEFINE n == Len(a)
<1>4. n \in Nat /\ n # 0
  BY <1>1, <1>3, LenProperties, EmptySeq
<1>5. b \in Seq(Nat) /\ Len(b) = n + 1 /\ \A i \in 1..n + 1 : b[i] = IF i <= n THEN a[i] ELSE one[i - n]
  <2>1. b \in Seq(Nat) /\ Len(b) = n + Len(one)
        /\ \A i \in 1..n + Len(one) : b[i] = IF i <= n THEN a[i] ELSE one[i - n]
    BY <1>3, ConcatProperties
  <2> HIDE DEF n
  <2> QED BY <1>3, <2>1
<1> HIDE DEF b, n
<1>6. b # <<>> /\ b[1] = a[1] /\ b[Len(b)] = Question /\ \A i \in 1..n : b[i] = a[i]
  <2>1. 1 \in 1..n + 1 /\ 1 <= n /\ n + 1 \in 1..n + 1 /\ ~(n + 1 <= n) /\ (n + 1) - n = 1
    BY <1>4
  <2>2. b[1] = a[1] /\ b[n + 1] = Question
    BY <1>3, <1>5, <2>1
  <2>3. b # <<>>
    BY <1>4, <1>5
  <2>4. \A i \in 1..n : i \in 1..n + 1 /\ i <= n
    BY <1>4
  <2> QED BY <1>5, <2>2, <2>3, <2>4
<1>7. \A i \in 1..n + 1 : b[i] \in Nat \ (Blanks \cup {Hash})
  <2>1. ASSUME NEW i \in 1..n + 1 PROVE b[i] \in Nat \ (Blanks \cup {Hash})
    <3>1. CASE i = n + 1
      BY <1>5, <1>6, <3>1 DEF Question, Blanks, Hash, Space, Tab
    <3>2. CASE i # n + 1
      <4>1. i \in 1..n
        BY <1>4, <3>2
      <4> QED BY <1>2, <1>6, <4>1 DEF n
    <3> QED BY <3>1, <3>2
  <2> QED BY <2>1
<1>8. Without(b, Space) /\ Without(b, Hash) /\ Without(a, Question)
  BY <1>2, <1>5, <1>7 DEF Without, Blanks
<1>9. b[1] \notin Blanks /\ b[Len(b)] \notin Blanks
  <2>1. 1 \in 1..n + 1 /\ Len(b) \in 1..n + 1
    BY <1>4, <1>5
  <2> QED BY <1>7, <2>1
<1>10. PICK u \in Seq(Nat) : /\ trim_copy(b \o y) = b \o u
                             /\ (\A i \in 1..Len(y) : y[i] \notin Blanks) => u = y
  BY <1>5, <1>6, <1>9, TrimLater
<1>11. PICK z \in Seq(Nat) : divide(b \o u, Hash)[1] = b \o z /\ (Without(u, Hash) => z = u)
  <2>1. b \in Seq(Nat) /\ u \in Seq(Nat) /\ Without(b, Hash)
    BY <1>5, <1>8
  <2> QED BY ONLY <2>1, DivideLater
<1>12. t \in Seq(Nat) /\ Without(t, Space)
  <2>1. t \in Seq(Nat) /\ Len(t) = Len(b) + Len(y) /\ Len(b) \in Nat /\ Len(y) \in Nat
        /\ \A i \in 1..Len(b) + Len(y) : t[i] = IF i <= Len(b) THEN b[i] ELSE y[i - Len(b)]
    BY <1>5, ConcatProperties, LenProperties
  <2> HIDE DEF t
  <2>2. ASSUME NEW i \in 1..Len(t) PROVE t[i] # Space
    <3>1. CASE i <= Len(b)
      <4>1. i \in 1..Len(b) /\ i \in 1..Len(b) + Len(y)
        BY <2>1, <3>1
      <4> QED BY <1>8, <2>1, <3>1, <4>1 DEF Without
    <3>2. CASE ~(i <= Len(b))
      <4>1. i - Len(b) \in 1..Len(y)
        BY <2>1, <3>2
      <4> QED BY <2>1, <3>2, <4>1 DEF Without
    <3> QED BY <3>1, <3>2
  <2> QED BY <2>1, <2>2 DEF Without
<1> DEFINE bu == b \o u
           bz == b \o z
<1>13. bu \in Seq(Nat) /\ bu # <<>>
  <2>1. bu \in Seq(Nat) /\ Len(bu) = Len(b) + Len(u) /\ Len(u) \in Nat
    BY <1>5, ConcatProperties, LenProperties
  <2> HIDE DEF bu
  <2>2. Len(bu) # 0
    BY <1>4, <1>5, <2>1
  <2> QED BY <2>1, <2>2
<1>14. divide(bz, Question)[1] = a /\ divide(bz, Question)[2] = z
  <2>1. divide((a \o <<Question>>) \o z, Question) = <<a, z>>
    BY <1>3, <1>8, DivideAt
  <2>2. bz = (a \o <<Question>>) \o z
    BY DEF b, one
  <2> HIDE DEF bz
  <2> QED BY <2>1, <2>2
<1> HIDE DEF t
<1>15. trim_copy(t) = bu /\ divide(bu, Hash)[1] = bz
  BY <1>10, <1>11 DEF t
<1> HIDE DEF bu, bz
<1>16. /\ parse_request_line(LineOf(t)).ok
       /\ parse_request_line(LineOf(t)).path = decode_url(a, FALSE)
       /\ parse_request_line(LineOf(t)).params = parse_query_text(z)
  BY <1>12, <1>13, <1>14, <1>15, LineParsed
<1>17. ASSUME \A i \in 1..Len(y) : y[i] \notin Blanks \cup {Hash} PROVE z = y
  <2>1. u = y
    BY <1>10, <1>17
  <2>2. Without(u, Hash)
    BY <1>17, <2>1 DEF Without
  <2> QED BY <1>11, <2>1, <2>2
<1>18. t = (EscapedWhere(p, UrlSet) \o <<Question>>) \o y
  BY DEF t, b, one, a
<1> QED BY <1>1, <1>16, <1>17, <1>18

\* What was written of parameters alone is read as these.
LEMMA QueryBack ==
  ASSUME NEW ps, PlainParams(ps)
  PROVE  /\ params_to_query_str(ps) \in Seq(Written)
         /\ parse_query_text(params_to_query_str(ps)) = Unrepeated(ps)
<1> DEFINE A == {}
           ws == Words(ps, A, QuerySet)
<1>1. Encodings(A, QuerySet)
  BY UrlSets
<1>2. params_to_query_str(ps) = Joined(ws, Ampersand)
  BY QueryWords
<1> HIDE DEF A
<1>3. WordsOf(ws, ps, A, QuerySet)
  BY <1>1, WordsMade
<1> HIDE DEF ws
<1> QED BY <1>1, <1>2, <1>3, QueryRead

\* The path, and the parameters, are read from a request line as they were written.
LEMMA LineRead ==
  ASSUME NEW p \in Seq(PathChars), p # <<>>, NEW ps \in Seq(Seq(Nat) \X Seq(Nat))
  PROVE  /\ parse_request_line(request_line(p, ps)).ok
         /\ parse_request_line(request_line(p, ps)).path = p
         /\ PlainParams(ps) => parse_request_line(request_line(p, ps)).params = Unrepeated(ps)
<1>1. CASE ps = <<>>
  <2>1. params_to_query_str(<<>>) = <<>>
    <3>1. params_to_query_str(<<>>) = FlattenSeq(<<>>)
      BY DEF params_to_query_str
    <3> QED BY <3>1, FlattenNone
  <2>2. ASSUME PlainParams(ps) PROVE parse_query_text(<<>>) = Unrepeated(ps)
    BY <1>1, <2>1, <2>2, QueryBack
  <2> QED BY <1>1, <2>2, PathAlone
<1>2. CASE ps # <<>>
  <2> DEFINE q == params_to_query_str(ps)
             one == <<Question>>
             b == p \o one
             E(x) == EscapedWhere(x, UrlSet)
  <2>1. p \in Seq(Nat) /\ Without(p, 0) /\ \A i \in 1..Len(p) : p[i] # Question /\ p[i] # 0
    <3>1. \A i \in 1..Len(p) : p[i] \in PathChars
      BY ElementOfSeq
    <3>2. PathChars \subseteq Nat /\ \A c \in PathChars : c # Question /\ c # 0
      BY PathCharsAre
    <3>3. \A i \in 1..Len(p) : p[i] # Question /\ p[i] # 0
      BY <3>1, <3>2
    <3>4. p \in Seq(Nat)
      BY <3>2, SeqOfMore
    <3> QED BY <3>3, <3>4 DEF Without
  <2>2. q \in Seq(Nat)
    BY QueryType
  <2>3. append_query_params(p, ps) = b \o q
    <3>1. Len(p) \in Nat
      BY LenProperties
    <3>2. ~\E i \in 2..Len(p) : p[i] = Question /\ p[1] # Question
      <4>1. \A i \in 2..Len(p) : i \in 1..Len(p)
        BY <3>1
      <4> QED BY <2>1, <4>1
    <3> QED BY <3>2 DEF append_query_params
  <2>4. request_line(p, ps) = LineOf(encode_url(b \o q))
    BY <1>2, <2>3 DEF request_line, LineOf
  <2>5. one \in Seq(Nat) /\ Len(one) = 1 /\ one[1] = Question /\ Question # 0 /\ E(one) = one
    <3> DEFINE c == Question
    <3>1. c \in Nat /\ c \notin UrlSet /\ UrlSet \in SUBSET Byte /\ c # 0
      BY UrlSets DEF Question
    <3> HIDE DEF c
    <3>2. EscapedWhere(<<c>>, UrlSet) = Code(c, UrlSet) /\ Code(c, UrlSet) = <<c>>
      BY <3>1, EscapedOne DEF Code
    <3>3. <<c>> \in Seq(Nat) /\ Len(<<c>>) = 1 /\ <<c>>[1] = c
      BY <3>1
    <3> QED BY <3>1, <3>2, <3>3 DEF c
  <2> HIDE DEF one, q
  <2>6. b \in Seq(Nat) /\ Without(b, 0)
    <3> DEFINE n == Len(p)
    <3>1. b \in Seq(Nat) /\ Len(b) = n + Len(one) /\ n \in Nat
          /\ \A i \in 1..n + Len(one) : b[i] = IF i <= n THEN p[i] ELSE one[i - n]
      BY <2>1, <2>5, ConcatProperties, LenProperties
    <3> HIDE DEF b, n
    <3>2. ASSUME NEW i \in 1..Len(b) PROVE b[i] # 0
      <4>1. CASE i <= n
        <5>1. i \in 1..n /\ i \in 1..n + Len(one)
          BY <2>5, <3>1, <4>1
        <5> QED BY <2>1, <3>1, <4>1, <5>1 DEF n
      <4>2. CASE ~(i <= n)
        <5>1. i - n = 1 /\ i \in 1..n + Len(one)
          BY <2>5, <3>1, <4>2
        <5> QED BY <2>5, <3>1, <4>2, <5>1
      <4> QED BY <4>1, <4>2
    <3> QED BY <3>1, <3>2 DEF Without
  <2>7. E(b) = E(p) \o one
    <3>1. p \in Seq(Nat) /\ one \in Seq(Nat) /\ UrlSet \in SUBSET Byte
      BY <2>1, <2>5, UrlSets
    <3>2. EscapedWhere(p \o one, UrlSet) = EscapedWhere(p, UrlSet) \o EscapedWhere(one, UrlSet)
      BY ONLY <3>1, EscapedConcat
    <3> QED BY <2>5, <3>2
  <2> HIDE DEF b
  <2>8. PICK y \in Seq(Nat) : encode_url(b \o q) = EscapedWhere(b \o y, UrlSet) /\ (Without(q, 0) => y = q)
    BY <2>2, <2>6, UrlLater
  <2> DEFINE x == E(y)
  <2>9. encode_url(b \o q) = (E(p) \o one) \o x
    <3>1. b \in Seq(Nat) /\ y \in Seq(Nat) /\ UrlSet \in SUBSET Byte
      BY <2>6, UrlSets
    <3>2. EscapedWhere(b \o y, UrlSet) = EscapedWhere(b, UrlSet) \o EscapedWhere(y, UrlSet)
      BY ONLY <3>1, EscapedConcat
    <3> QED BY <2>7, <2>8, <3>2
  <2>10. x \in Seq(Nat) /\ Without(x, Space)
    <3> DEFINE W == (Nat \ UrlSet) \cup EscapeChars
    <3>1. x \in Seq(W)
      BY EscapedChars, UrlSets
    <3>2. W \subseteq Nat /\ Space \notin W
      BY UrlSets DEF EscapeChars, Digit, Percent, Space
    <3> HIDE DEF W, x
    <3>3. \A i \in 1..Len(x) : x[i] \in W
      BY <3>1, ElementOfSeq
    <3> QED BY <3>1, <3>2, <3>3, SeqOfMore DEF Without
  <2> HIDE DEF x
  <2> DEFINE l == LineOf((E(p) \o <<Question>>) \o x)
  <2>11. PICK z \in Seq(Nat) : /\ parse_request_line(l).ok
                               /\ parse_request_line(l).path = p
                               /\ parse_request_line(l).params = parse_query_text(z)
                               /\ (\A i \in 1..Len(x) : x[i] \notin Blanks \cup {Hash}) => z = x
    BY <2>10, PathAndText
  <2>12. request_line(p, ps) = l
    BY <2>4, <2>9 DEF one
  <2> HIDE DEF l
  <2>13. ASSUME PlainParams(ps) PROVE parse_query_text(z) = Unrepeated(ps)
    <3> DEFINE B == QuerySet \cup UrlSet
               A == {}
               us == Words(ps, UrlSet, B)
    <3>1. q \in Seq(Written)
      BY <2>13, QueryBack DEF q
    <3>2. \A c \in Written : c # 0 /\ c \notin Blanks \cup {Hash}
      BY DEF Written, Clean, Blanks, Ampersand, Equals, Hash, Space, Tab
    <3>3. Without(q, 0)
      <4>1. \A i \in 1..Len(q) : q[i] \in Written
        BY <3>1, ElementOfSeq
      <4> QED BY <3>2, <4>1 DEF Without
    <3>4. x = E(q)
      BY <2>8, <3>3 DEF x
    <3>5. E(q) = Joined(us, Ampersand)
      BY <2>13, QueryWords, QueryUrl DEF q
    <3>6. Encodings(UrlSet, B)
      BY UrlSets
    <3> HIDE DEF B
    <3>7. WordsOf(us, ps, UrlSet, B)
      BY <2>13, <3>6, WordsMade
    <3> HIDE DEF us
    <3>8. Joined(us, Ampersand) \in Seq(Written) /\ parse_query_text(Joined(us, Ampersand)) = Unrepeated(ps)
      BY <2>13, <3>6, <3>7, QueryRead
    <3>9. x \in Seq(Written)
      BY <3>4, <3>5, <3>8
    <3>10. \A i \in 1..Len(x) : x[i] \notin Blanks \cup {Hash}
      <4>1. \A i \in 1..Len(x) : x[i] \in Written
        BY <3>9, ElementOfSeq
      <4> QED BY <3>2, <4>1
    <3>11. z = x
      BY <2>11, <3>10
    <3> QED BY <3>4, <3>5, <3>8, <3>11
  <2> QED BY <2>11, <2>12, <2>13
<1> QED BY <1>1, <1>2
=============================================================================
