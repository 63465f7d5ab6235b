------------------------- MODULE HttplibFormsProofs -------------------------
(***************************************************************************)
(* Proofs about HttplibForms for any requests, any pattern, any boundary   *)
(* and any limits.                                                         *)
(*                                                                         *)
(* Paths: a path that matches is the pattern with its values, and a valid  *)
(* one stays below the root (RouteTrueAlways).                             *)
(*                                                                         *)
(* The request line: the server parses what the client wrote back into     *)
(* the path and the parameters, which a form in the content adds to        *)
(* (LineTrueAlways).                                                       *)
(*                                                                         *)
(* Forms: the text that a client writes is described from each place in it *)
(* on (From, Opened, Behind, Closed), what the parser may have collected   *)
(* at a place is a predicate (WaitsAt, StartsAt, HeadsAt, FillsAt,         *)
(* ClosesAt, OverAt), and each turn of parse() leads from one place to     *)
(* another, however the text was cut (FormInv, FormTrueAlways,             *)
(* FormTakenAlways).                                                       *)
(***************************************************************************)
EXTENDS HttplibForms, HttplibTextProofs

\* the texts that a pattern and values make
Filling(parts, values) ==
  [k \in DOMAIN parts |->
     parts[k][1] \o IF Len(parts[k]) = 1 THEN <<>>
                    ELSE (IF k \in 1..Len(values) THEN values[k] ELSE <<>>) \o <<Slash>>]

LEMMA RouteFilled ==
  ASSUME NEW p \in Text, match(Pattern, p).matches
  PROVE  LET values == match(Pattern, p).values
         IN /\ \A k \in DOMAIN values : Places(values[k], Slash) = {}
            /\ Filled(PathParamsMatcher(Pattern), values) \in {p, p \o <<Slash>>}
<1> DEFINE parts == PathParamsMatcher(Pattern)
           n == Len(parts)
           L == Len(p)
           r == match(Pattern, p)
           vs == r.values
           q == Filling(parts, vs)
           w == p \o <<Slash>>
           val(k) == IF k \in 1..Len(vs) THEN vs[k] ELSE <<>>
<1>1. Pattern \in Text
  BY FormsAssumption DEF Text, Texts
<1>2. PICK from : /\ r = from[1][0]
                  /\ \A k \in 1..n + 1 : \A at \in 0..L + 1 :
                       from[k][at] \in Result /\ MatchedAt(parts, p, from, k, at)
  BY <1>1, MatchUnfolds
<1>3. /\ n \in Nat /\ L \in Nat /\ p \in Seq(Nat) /\ DOMAIN parts = 1..n
      /\ \A k \in 1..n : parts[k] \in Seq(Text) /\ Len(parts[k]) \in {1, 2} /\ (Len(parts[k]) = 1 => k = n)
  <2>1. parts \in Shaped
    BY <1>1, MatcherShaped
  <2>2. parts \in Seq(Seq(Text)) /\ \A k \in 1..n : Len(parts[k]) \in {1, 2} /\ (Len(parts[k]) = 1 => k = n)
    BY <2>1 DEF Shaped
  <2> QED BY <2>2, LenProperties, ElementOfSeq DEF Text, Texts
<1>31. n \in Nat /\ L \in Nat /\ Len(parts) = n /\ Len(p) = L
  BY <1>3
<1> HIDE DEF n, L
<1>32. n + 1 \in 1..n + 1 /\ 1 \in 1..n + 1 /\ 0 \in 0..L + 1
  BY <1>31
<1> HIDE DEF parts
<1>4. \A k \in 1..n : parts[k][1] \in Text /\ Len(parts[k][1]) \in Nat
  <2>1. ASSUME NEW k \in 1..n PROVE parts[k][1] \in Text
    <3>1. parts[k] \in Seq(Text) /\ Len(parts[k]) \in {1, 2}
      BY <1>3
    <3>2. 1 \in 1..Len(parts[k])
      <4>1. \A m \in {1, 2} : 1 \in 1..m
        OBVIOUS
      <4> QED BY ONLY <3>1, <4>1
    <3> QED BY <3>1, <3>2, ElementOfSeq
  <2> QED BY <2>1, LenProperties DEF Text, Texts
<1>5. r \in Result
  BY <1>2, <1>32
<1> HIDE DEF r
<1>6. vs \in Seq(Text) /\ Len(vs) \in Nat /\ DOMAIN vs = 1..Len(vs) /\ \A k \in 1..Len(vs) : vs[k] \in Text
  BY <1>5, LenProperties, ElementOfSeq DEF Result
<1>7. /\ w \in Seq(Nat) /\ Len(w) = L + 1 /\ w[L + 1] = Slash
      /\ \A i \in Nat, j \in Nat : j <= L => SubSeq(w, i + 1, j) = SubSeq(p, i + 1, j)
  <2>1. Len(p) = L
    BY <1>31
  <2>2. w \in Seq(Nat) /\ Len(w) = L + 1 /\ w[L + 1] = Slash
    BY <2>1, SlashedWhole
  <2>3. \A i \in Nat, j \in Nat : j <= Len(p) => SubSeq(p \o <<Slash>>, i + 1, j) = SubSeq(p, i + 1, j)
    BY SlashedPart
  <2> QED BY <2>1, <2>2, <2>3
<1>8. q \in Seq(Seq(Nat)) /\ Len(q) = n
      /\ \A k \in 1..n : q[k] = parts[k][1] \o IF Len(parts[k]) = 1 THEN <<>> ELSE val(k) \o <<Slash>>
  <2> HIDE DEF vs
  <2>1. ASSUME NEW k \in 1..n
        PROVE  (parts[k][1] \o IF Len(parts[k]) = 1 THEN <<>> ELSE val(k) \o <<Slash>>) \in Seq(Nat)
    <3> DEFINE t == <<Slash>>
    <3>1. parts[k][1] \in Seq(Nat) /\ <<>> \in Seq(Nat) /\ t \in Seq(Nat)
      BY <1>4, EmptySeq DEF Text, Texts, Slash
    <3>2. val(k) \in Seq(Nat)
      BY <1>6, <3>1 DEF Text, Texts
    <3> HIDE DEF t, val
    <3>3. val(k) \o t \in Seq(Nat)
      BY <3>1, <3>2, ConcatProperties
    <3> DEFINE e == IF Len(parts[k]) = 1 THEN <<>> ELSE val(k) \o t
    <3>4. e \in Seq(Nat)
      BY <3>1, <3>3
    <3> HIDE DEF e
    <3>5. parts[k][1] \o e \in Seq(Nat)
      BY <3>1, <3>4, ConcatProperties
    <3> QED BY <3>5 DEF e, t
  <2>2. q = [k \in 1..n |-> parts[k][1] \o IF Len(parts[k]) = 1 THEN <<>> ELSE val(k) \o <<Slash>>]
    BY <1>3 DEF Filling
  <2> DEFINE e(k) == parts[k][1] \o IF Len(parts[k]) = 1 THEN <<>> ELSE val(k) \o <<Slash>>
  <2>3. q = [k \in 1..n |-> e(k)] /\ \A k \in 1..n : e(k) \in Seq(Nat)
    BY <2>1, <2>2
  <2> HIDE DEF e, q
  <2>4. q \in Seq(Seq(Nat))
    BY <1>3, <2>3
  <2>5. Len(q) = n /\ \A k \in 1..n : q[k] = e(k)
    BY <1>3, <2>3
  <2> QED BY <2>4, <2>5 DEF e
<1>9. PICK f : Joins(f, q, Nat)
  BY <1>8, JoinsExist
<1>10. FlattenSeq(q) = f[n]
  BY <1>8, <1>9, JoinsFlat
<1> HIDE DEF w, q, vs
<1> DEFINE Reached(k, at) ==
             /\ at \in 0..L + 1 /\ from[k][at].matches
             /\ k <= n => /\ Len(vs) = (k - 1) + Len(from[k][at].values)
                          /\ \A j \in 1..Len(from[k][at].values) : vs[k - 1 + j] = from[k][at].values[j]
             /\ Len(vs) <= n \/ k <= n
             /\ \A j \in 1..Len(vs) : j < k => Places(vs[j], Slash) = {}
             /\ \A j \in 1..k - 1 : Len(parts[j]) = 2 => j \in 1..Len(vs)
             /\ f[k - 1] = SubSeq(w, 1, at)
           T == {k \in 1..n + 1 : \E at : Reached(k, at)}
<1>11. 1 \in T
  <2>1. from[1][0] = r
    BY <1>2
  <2>2. from[1][0].matches /\ from[1][0].values = vs
    BY <2>1 DEF r, vs
  <2>3. f[0] = <<>> /\ SubSeq(w, 1, 0) = <<>>
    BY <1>9, SubSeqEmpty DEF Joins
  <2>4. Len(vs) <= n \/ 1 <= n
    <3>1. CASE n = 0
      <4>1. 1 > Len(parts)
        BY <1>31, <3>1
      <4>2. from[1][0] = [NoMatch EXCEPT !.matches = 0 >= Len(p)]
        BY <1>2, <1>32, <4>1 DEF MatchedAt
      <4>3. vs = <<>>
        BY <2>2, <4>2 DEF NoMatch
      <4> QED BY <1>31, <4>3
    <3>2. CASE n # 0
      BY <1>31, <3>2
    <3> QED BY <3>1, <3>2
  <2>5. Reached(1, 0)
    <3>1. \A j \in 1..Len(vs) : ~(j < 1) /\ (1 - 1) + j = j
      BY <1>6
    <3>2. 1 - 1 = 0 /\ 1..0 = {}
      OBVIOUS
    <3>3. Len(vs) = (1 - 1) + Len(from[1][0].values)
      BY <1>6, <2>2
    <3>4. \A j \in 1..Len(from[1][0].values) : vs[1 - 1 + j] = from[1][0].values[j]
      BY <2>2, <3>1
    <3> QED BY <1>32, <2>2, <2>3, <2>4, <3>1, <3>2, <3>3, <3>4
  <2> QED BY <1>32, <2>5
<1>12. ASSUME NEW k \in 1..n, k \in T PROVE k + 1 \in T
  <2>1. PICK at : Reached(k, at)
    BY <1>12
  <2> DEFINE x == parts[k][1]
             end == at + Len(x)
             sep == Separated(p, end)
             v == SubSeq(p, end + 1, sep)
             rest == from[k + 1][sep + 1]
  <2>2. /\ k \in 1..n + 1 /\ k + 1 \in 1..n + 1 /\ k <= Len(parts) /\ k <= n /\ at \in Nat
        /\ (k + 1) - 1 = k /\ k + 1 \in Nat /\ at \in 0..L + 1
    BY <1>31, <2>1
  <2>3. x \in Text /\ x \in Seq(Nat) /\ Len(x) \in Nat
    BY <1>4 DEF Text, Texts
  <2>4. from[k][at] = IF end > L \/ SubSeq(p, at + 1, end) # x THEN NoMatch
                      ELSE IF Len(parts[k]) = 1 THEN from[k + 1][end]
                      ELSE [rest EXCEPT !.values = <<v>> \o @]
    <3>1. MatchedAt(parts, p, from, k, at)
      BY <1>2, <2>2
    <3> QED BY <1>31, <2>2, <3>1 DEF MatchedAt
  <2>5. ~(end > L) /\ SubSeq(p, at + 1, end) = x
    <3>1. NoMatch.matches = FALSE
      BY DEF NoMatch
    <3>2. SUFFICES ASSUME end > L \/ SubSeq(p, at + 1, end) # x PROVE FALSE
      OBVIOUS
    <3>3. from[k][at] = NoMatch
      BY <2>4, <3>2
    <3> QED BY <2>1, <3>1, <3>3
  <2>6. end \in 0..L /\ at <= end /\ end \in Nat /\ end <= L /\ end \in 0..L + 1
    BY <1>31, <2>2, <2>3, <2>5
  <2>7. /\ Len(vs) = (k - 1) + Len(from[k][at].values)
        /\ \A j \in 1..Len(from[k][at].values) : vs[k - 1 + j] = from[k][at].values[j]
        /\ \A j \in 1..Len(vs) : j < k => Places(vs[j], Slash) = {}
        /\ \A j \in 1..k - 1 : Len(parts[j]) = 2 => j \in 1..Len(vs)
        /\ f[k - 1] = SubSeq(w, 1, at)
    BY <2>1, <2>2
  <2>8. f[k] = f[k - 1] \o q[k]
    BY <1>8, <1>9 DEF Joins
  <2>9. SubSeq(w, at + 1, end) = x
    BY <1>7, <2>2, <2>5, <2>6
  <2>10. SubSeq(w, 1, at) \o SubSeq(w, at + 1, end) = SubSeq(w, 1, end)
    <3>1. 0 \in Nat /\ 0 <= at /\ end <= Len(w) /\ 0 + 1 = 1
      BY <1>7, <2>2, <2>6
    <3> HIDE DEF end
    <3>2. SubSeq(w, 0 + 1, at) \o SubSeq(w, at + 1, end) = SubSeq(w, 0 + 1, end)
      BY <1>7, <2>2, <2>6, <3>1, PartsMeet
    <3> QED BY <3>1, <3>2
  <2> HIDE DEF x, end
  <2>11. CASE Len(parts[k]) = 1
    <3>1. k = n
      BY <1>3, <2>11
    <3>2. from[k][at] = from[k + 1][end]
      BY <2>4, <2>5, <2>11
    <3>3. from[k + 1][end].values = <<>> /\ from[k + 1][end].matches
      <4>1. k + 1 > Len(parts)
        BY <1>31, <3>1
      <4>2. from[k + 1][end] = [NoMatch EXCEPT !.matches = end >= Len(p)]
        BY <1>2, <2>2, <2>6, <4>1 DEF MatchedAt
      <4> QED BY <2>1, <3>2, <4>2 DEF NoMatch
    <3>4. Len(vs) = k - 1
      BY <2>2, <2>7, <3>2, <3>3
    <3>5. q[k] = x \o <<>>
      BY <1>8, <2>11 DEF x
    <3>6. q[k] = x
      BY <2>3, <3>5, ConcatEmptySeq
    <3>7. f[k] = SubSeq(w, 1, end)
      BY <2>7, <2>8, <2>9, <2>10, <3>6
    <3>8. Reached(k + 1, end)
      <4>1. ~(k + 1 <= n) /\ Len(vs) <= n /\ \A j \in 1..Len(vs) : j < k
        BY <1>6, <1>31, <3>1, <3>4
      <4>2. \A j \in 1..(k + 1) - 1 : Len(parts[j]) = 2 => j \in 1..Len(vs)
        <5>1. ASSUME NEW j \in 1..(k + 1) - 1, Len(parts[j]) = 2 PROVE j \in 1..Len(vs)
          <6>1. j = k \/ j \in 1..k - 1
            BY <2>2
          <6>2. j # k
            BY <2>11, <5>1
          <6> QED BY <2>7, <5>1, <6>1, <6>2
        <5> QED BY <5>1
      <4> QED BY <2>2, <2>6, <2>7, <3>3, <3>7, <4>1, <4>2
    <3> QED BY <2>2, <3>8
  <2>12. CASE Len(parts[k]) # 1
    <3>1. sep \in end..L /\ (\A j \in end + 1..sep : p[j] # Slash) /\ (sep < L => p[sep + 1] = Slash)
      BY <1>3, <1>31, <2>6, SeparatedAt
    <3>2. from[k][at] = [rest EXCEPT !.values = <<v>> \o @]
      BY <2>4, <2>5, <2>12
    <3> HIDE DEF sep
    <3>3. sep \in Nat /\ sep <= L /\ sep + 1 \in 0..L + 1 /\ sep + 1 \in Nat /\ end <= sep
      BY <1>31, <2>6, <3>1
    <3>4. v \in Seq(Nat) /\ Len(v) = sep - end /\ \A j \in 1..sep - end : v[j] = p[end + j]
      <4>1. sep <= Len(p)
        BY <1>31, <3>3
      <4> QED BY <1>3, <2>6, <3>3, <4>1, PartOf
    <3> HIDE DEF v
    <3>5. v \in Text
      BY <3>4 DEF Text, Texts
    <3>6. rest \in Result
      BY <1>2, <2>2, <3>3
    <3> HIDE DEF rest
    <3>7. from[k][at].matches = rest.matches /\ from[k][at].values = <<v>> \o rest.values
      BY <3>2, <3>5, <3>6, ResultCons
    <3>8. rest.values \in Seq(Text) /\ Len(rest.values) \in Nat
      BY <3>6, LenProperties DEF Result
    <3> DEFINE u == from[k][at].values
               rv == rest.values
               one == <<v>>
    <3>9. /\ Len(u) = 1 + Len(rv) /\ u[1] = v
          /\ \A j \in 1..Len(rv) : u[1 + j] = rv[j]
      <4>1. one \in Seq(Text) /\ Len(one) = 1 /\ one[1] = v /\ rv \in Seq(Text) /\ u = one \o rv
            /\ Len(rv) \in Nat
        BY <3>5, <3>7, <3>8
      <4> HIDE DEF one, rv, u
      <4>2. /\ Len(one \o rv) = Len(one) + Len(rv)
            /\ \A i \in 1..Len(one) + Len(rv) : (one \o rv)[i] = IF i <= Len(one) THEN one[i] ELSE rv[i - Len(one)]
        BY ONLY <4>1, ConcatProperties
      <4>3. 1 \in 1..1 + Len(rv) /\ 1 <= 1
            /\ \A j \in 1..Len(rv) : 1 + j \in 1..1 + Len(rv) /\ ~(1 + j <= 1) /\ (1 + j) - 1 = j
        BY <4>1
      <4> QED BY <4>1, <4>2, <4>3
    <3> HIDE DEF u, rv, one
    <3>10. Len(rv) \in Nat /\ Len(vs) = (k - 1) + (1 + Len(rv))
           /\ \A j \in 1..Len(u) : vs[k - 1 + j] = u[j]
      BY <2>7, <3>8, <3>9 DEF u, rv
    <3>11. k \in 1..Len(vs) /\ vs[k] = v
      <4>1. 1 \in 1..Len(u) /\ (k - 1) + 1 = k /\ k \in 1..(k - 1) + (1 + Len(rv))
        BY <2>2, <3>9, <3>10
      <4>2. vs[k - 1 + 1] = u[1]
        BY <3>10, <4>1
      <4> QED BY <3>9, <3>10, <4>1, <4>2
    <3>12. Places(v, Slash) = {}
      <4>1. \A j \in 1..Len(v) : j \in 1..sep - end /\ end + j \in end + 1..sep
        BY <2>6, <3>3, <3>4
      <4>2. \A j \in 1..Len(v) : v[j] # Slash
        BY <3>1, <3>4, <4>1
      <4>3. DOMAIN v = 1..Len(v)
        BY <3>4, LenProperties
      <4> QED BY <4>2, <4>3 DEF Places
    <3>13. q[k] = x \o (v \o <<Slash>>)
      BY <1>8, <2>12, <3>11 DEF x
    <3>14. f[k] = SubSeq(w, 1, sep + 1)
      <4> DEFINE sl == <<Slash>>
      <4>1. v = SubSeq(w, end + 1, sep)
        BY <1>7, <2>6, <3>3 DEF v
      <4>2. w[sep + 1] = Slash
        <5>1. CASE sep = L
          BY <1>7, <5>1
        <5>2. CASE sep # L
          <6>1. sep < L /\ sep + 1 \in 1..L /\ L = Len(p)
            BY <1>31, <3>3, <5>2
          <6>2. w[sep + 1] = p[sep + 1]
            BY <6>1, SlashedWhole DEF w
          <6> QED BY <3>1, <6>1, <6>2
        <5> QED BY <5>1, <5>2
      <4>3. SubSeq(w, sep + 1, sep + 1) = sl
        <5>1. sep < Len(w)
          BY <1>7, <1>31, <3>3
        <5> QED BY <1>7, <3>3, <4>2, <5>1, OneCharacter
      <4>4. v \o sl = SubSeq(w, end + 1, sep + 1)
        <5>1. sep + 1 <= Len(w) /\ sep <= sep + 1
          BY <1>7, <1>31, <3>3
        <5> HIDE DEF sl
        <5>2. SubSeq(w, end + 1, sep) \o SubSeq(w, sep + 1, sep + 1) = SubSeq(w, end + 1, sep + 1)
          BY <1>7, <2>6, <3>3, <5>1, PartsMeet
        <5> QED BY <4>1, <4>3, <5>2
      <4> HIDE DEF sl
      <4>5. sl \in Seq(Nat) /\ v \o sl \in Seq(Nat) /\ SubSeq(w, 1, at) \in Seq(Nat)
        <5>1. sl \in Seq(Nat)
          BY DEF sl, Slash
        <5>2. v \o sl \in Seq(Nat)
          BY <3>4, <5>1, ConcatProperties
        <5>3. at <= Len(w) /\ 0 \in Nat /\ 0 + 1 = 1
          BY <1>7, <2>2
        <5>4. SubSeq(w, 0 + 1, at) \in Seq(Nat)
          BY <1>7, <2>2, <5>3, PartOf
        <5> QED BY <5>1, <5>2, <5>3, <5>4
      <4>6. f[k] = SubSeq(w, 1, at) \o (x \o (v \o sl))
        BY <2>7, <2>8, <3>13 DEF sl
      <4>7. SubSeq(w, 1, at) \o (x \o (v \o sl)) = (SubSeq(w, 1, at) \o x) \o (v \o sl)
        <5> DEFINE a == SubSeq(w, 1, at)
                   c == v \o sl
        <5>1. a \in Seq(Nat) /\ c \in Seq(Nat) /\ x \in Seq(Nat)
          BY <2>3, <4>5
        <5> HIDE DEF a, c
        <5>2. (a \o x) \o c = a \o (x \o c)
          BY ONLY <5>1, ConcatAssociative
        <5> QED BY <5>2 DEF a, c
      <4>8. SubSeq(w, 1, end) \o SubSeq(w, end + 1, sep + 1) = SubSeq(w, 1, sep + 1)
        <5>1. 0 \in Nat /\ 0 <= end /\ sep + 1 <= Len(w) /\ 0 + 1 = 1 /\ end <= sep + 1
          BY <1>7, <1>31, <2>6, <3>3
        <5>2. SubSeq(w, 0 + 1, end) \o SubSeq(w, end + 1, sep + 1) = SubSeq(w, 0 + 1, sep + 1)
          BY <1>7, <2>6, <3>3, <5>1, PartsMeet
        <5> QED BY <5>1, <5>2
      <4> QED BY <2>9, <2>10, <4>4, <4>6, <4>7, <4>8
    <3>15. Reached(k + 1, sep + 1)
      <4>1. from[k + 1][sep + 1].matches /\ from[k + 1][sep + 1].values = rv
        BY <2>1, <3>7 DEF rest, rv
      <4>2. Len(vs) = ((k + 1) - 1) + Len(rv)
        BY <2>2, <3>10
      <4>3. ASSUME NEW j \in 1..Len(rv) PROVE vs[(k + 1) - 1 + j] = rv[j]
        <5>1. 1 + j \in 1..Len(u) /\ k - 1 + (1 + j) = (k + 1) - 1 + j
          BY <2>2, <3>9, <3>10
        <5> QED BY <3>9, <3>10, <5>1
      <4>4. ASSUME NEW j \in 1..Len(vs), j < k + 1 PROVE Places(vs[j], Slash) = {}
        <5>1. j = k \/ j < k
          BY <2>2, <4>4
        <5> QED BY <2>7, <3>11, <3>12, <5>1
      <4>5. ASSUME NEW j \in 1..(k + 1) - 1, Len(parts[j]) = 2 PROVE j \in 1..Len(vs)
        <5>1. j = k \/ j \in 1..k - 1
          BY <2>2
        <5> QED BY <2>7, <3>11, <4>5, <5>1
      <4>6. Len(vs) <= n \/ k + 1 <= n
        <5>1. CASE k = n
          <6>1. k + 1 > Len(parts)
            BY <1>31, <5>1
          <6>2. from[k + 1][sep + 1] = [NoMatch EXCEPT !.matches = sep + 1 >= Len(p)]
            BY <1>2, <2>2, <3>3, <6>1 DEF MatchedAt
          <6>3. rv = <<>>
            BY <4>1, <6>2 DEF NoMatch
          <6>4. Len(rv) = 0
            BY <6>3
          <6> QED BY <2>2, <3>10, <5>1, <6>4
        <5>2. CASE k # n
          BY <1>31, <2>2, <5>2
        <5> QED BY <5>1, <5>2
      <4>7. f[(k + 1) - 1] = SubSeq(w, 1, sep + 1)
        BY <2>2, <3>14
      <4> QED BY <3>3, <4>1, <4>2, <4>3, <4>4, <4>5, <4>6, <4>7
    <3> QED BY <2>2, <3>15
  <2> QED BY <2>11, <2>12
<1>13. \A k \in 1..n + 1 : k \in T
  <2> HIDE DEF T
  <2>1. ASSUME NEW k \in 1..n + 1, \A j \in 1..k - 1 : j \in T PROVE k \in T
    <3>1. CASE k = 1
      BY <1>11, <3>1
    <3>2. CASE k # 1
      <4>1. k - 1 \in 1..n /\ k - 1 \in 1..k - 1 /\ (k - 1) + 1 = k
        BY <1>31, <3>2
      <4>2. k - 1 \in T
        BY <2>1, <4>1
      <4>3. (k - 1) + 1 \in T
        BY <1>12, <4>1, <4>2
      <4> QED BY <4>1, <4>3
    <3> QED BY <3>1, <3>2
  <2>2. \A k \in 1..n + 1 : (\A j \in 1..k - 1 : j \in T) => k \in T
    BY <2>1
  <2>3. 1 \in Int /\ n + 1 \in Int
    BY <1>31
  <2> QED BY ONLY <2>2, <2>3, Upwards
<1>14. PICK at : Reached(n + 1, at)
  <2>1. n + 1 \in T
    BY <1>13, <1>32
  <2> QED BY <2>1
<1>15. \A k \in 1..n : Len(parts[k]) # 1 => k \in 1..Len(vs)
  <2>1. (n + 1) - 1 = n
    BY <1>31
  <2> QED BY <1>3, <1>14, <2>1
<1>16. Filled(parts, vs) = FlattenSeq(q)
  <2> DEFINE e(k) == parts[k][1] \o IF Len(parts[k]) = 1 THEN <<>> ELSE val(k) \o <<Slash>>
             d(k) == parts[k][1] \o IF Len(parts[k]) = 1 THEN <<>> ELSE vs[k] \o <<Slash>>
  <2>1. \A k \in 1..n : e(k) = d(k)
    BY <1>15
  <2>2. q = [k \in 1..n |-> e(k)]
    BY <1>3 DEF q, Filling
  <2>3. Filled(parts, vs) = FlattenSeq([k \in 1..n |-> d(k)])
    BY <1>3 DEF Filled
  <2> HIDE DEF e, d
  <2>4. [k \in 1..n |-> e(k)] = [k \in 1..n |-> d(k)]
    BY <2>1
  <2> QED BY <2>2, <2>3, <2>4
<1>17. at \in {L, L + 1}
  <2>1. n + 1 > Len(parts) /\ at \in 0..L + 1 /\ from[n + 1][at].matches
    BY <1>31, <1>14
  <2>2. from[n + 1][at] = [NoMatch EXCEPT !.matches = at >= Len(p)]
    BY <1>2, <1>32, <2>1 DEF MatchedAt
  <2>3. at >= L
    BY <1>31, <2>1, <2>2 DEF NoMatch
  <2> QED BY <1>31, <2>1, <2>3
<1>18. f[n] \in {p, p \o <<Slash>>}
  <2>1. f[n] = SubSeq(w, 1, at)
    <3>1. (n + 1) - 1 = n
      BY <1>31
    <3> QED BY <1>14, <3>1
  <2>2. CASE at = L
    <3>1. SubSeq(w, 1, L) = SubSeq(p, 1, L)
      <4>1. 0 \in Nat /\ L \in Nat /\ L <= L /\ 0 + 1 = 1
        BY <1>31
      <4>2. SubSeq(w, 0 + 1, L) = SubSeq(p, 0 + 1, L)
        BY ONLY <1>7, <4>1
      <4> QED BY <4>1, <4>2
    <3>2. SubSeq(p, 1, Len(p)) = p
      BY <1>3, SubSeqFull
    <3> QED BY <1>31, <2>1, <2>2, <3>1, <3>2
  <2>3. CASE at = L + 1
    <3>1. SubSeq(w, 1, Len(w)) = w
      BY <1>7, SubSeqFull
    <3> QED BY <1>7, <2>1, <2>3, <3>1 DEF w
  <2> QED BY <1>17, <2>2, <2>3
<1>19. \A k \in DOMAIN vs : Places(vs[k], Slash) = {}
  <2>1. Len(vs) <= n
    BY <1>31, <1>14
  <2>2. \A j \in 1..Len(vs) : j < n + 1
    BY <1>6, <1>31, <2>1
  <2> QED BY <1>6, <1>14, <2>2
<1>20. Filled(parts, vs) \in {p, p \o <<Slash>>}
  BY <1>10, <1>16, <1>18
<1> QED BY <1>19, <1>20 DEF parts, vs, r

----------------------------------------------------------------------------
(* A route leads where it says *)

\* what the server made of the request line
RouteInv ==
  /\ path \in Text
  /\ matches.matches => matches = match(Pattern, path)
  /\ inside => is_valid_path(path)

LEMMA RouteInvInit == Init => RouteInv
<1>1. NoMatch.matches = FALSE
  BY DEF NoMatch
<1>2. <<>> \in Text
  BY EmptySeq DEF Text, Texts
<1> QED BY <1>1, <1>2 DEF Init, RouteInv

LEMMA RequestTyped ==
  ASSUME req \in Requests
  PROVE  /\ req.path \in Text /\ req.query \in Seq(Text \X Text)
         /\ req.params \in Seq(Text \X Text) /\ req.items \in Seq(ItemType)
         /\ req.provided \in Nat /\ req.after \in Text
         /\ req.form \in {"none", "params", "multipart"}
<1>1. req \in RequestType
  BY FormsAssumption
<1> QED BY <1>1 DEF RequestType, Text

\* only ReadLine sets what a route depends on
LEMMA RouteKept ==
  ASSUME [Next]_vars, ~ReadLine
  PROVE  UNCHANGED <<path, matches, inside>>
<1>1. CASE Client
  BY <1>1 DEF Client, line
<1>2. CASE \E n \in 1..Len(wire) : Receive(n)
  BY <1>2 DEF Receive, line
<1>3. CASE ReceiveEnd
  BY <1>3 DEF ReceiveEnd
<1>4. CASE Parse
  BY <1>4 DEF Parse, ParseEnd, SkipPreamble, NewEntry, HeaderTooLong, HeaderWaits, HeadersEnd,
              HeaderLine, Content, ContentGoesOn, BoundaryEnd, connection, line
<1>5. CASE Done
  BY <1>5 DEF Done, vars, line
<1>6. CASE UNCHANGED vars
  BY <1>6 DEF vars, line
<1> QED BY <1>1, <1>2, <1>3, <1>4, <1>5, <1>6 DEF Next

LEMMA ReqKept ==
  ASSUME [Next]_vars
  PROVE  req' = req
<1>1. CASE Client
  BY <1>1 DEF Client
<1>2. CASE ReadLine
  BY <1>2 DEF ReadLine
<1>3. CASE \E n \in 1..Len(wire) : Receive(n)
  BY <1>3 DEF Receive
<1>4. CASE ReceiveEnd
  BY <1>4 DEF ReceiveEnd
<1>5. CASE Parse
  BY <1>5 DEF Parse, ParseEnd, SkipPreamble, NewEntry, HeaderTooLong, HeaderWaits, HeadersEnd,
              HeaderLine, Content, ContentGoesOn, BoundaryEnd, connection
<1>6. CASE Done
  BY <1>6 DEF Done, vars
<1>7. CASE UNCHANGED vars
  BY <1>7 DEF vars
<1> QED BY <1>1, <1>2, <1>3, <1>4, <1>5, <1>6, <1>7 DEF Next

LEMMA RouteInvStep ==
  ASSUME RouteInv, req \in Requests, [Next]_vars
  PROVE  RouteInv'
<1>1. CASE ReadLine
  <2> DEFINE parsed == parse_request_line(request_line(req.path, req.query))
  <2>1. CASE ~parsed.ok
    BY <1>1, <2>1 DEF ReadLine, line, RouteInv
  <2>2. CASE parsed.ok
    <3>1. path' = parsed.path /\ matches' = match(Pattern, parsed.path) /\ inside' = is_valid_path(parsed.path)
      BY <1>1, <2>2 DEF ReadLine
    <3>2. request_line(req.path, req.query) \in Seq(Nat)
      BY RequestTyped, RequestLineType DEF Text, Texts
    <3>3. parsed.path \in Text
      BY <2>2, <3>2, ParsedPathType DEF Text, Texts
    <3> QED BY <3>1, <3>3 DEF RouteInv
  <2> QED BY <2>1, <2>2
<1>2. CASE ~ReadLine
  <2>1. path' = path /\ matches' = matches /\ inside' = inside
    BY <1>2, RouteKept
  <2> QED BY <2>1 DEF RouteInv
<1> QED BY <1>1, <1>2

\* A path that matches is the pattern with its values, none of which has a slash, up to a
\* slash at the end and unless a part of it begins with a colon, and a path that is valid
\* leads nowhere out of the root: for every pattern and every request, what match() and
\* is_valid_path() say of the path they got.
THEOREM RouteTrueAlways == Spec => []RouteTrue
<1>1. RouteInv => RouteTrue
  <2>1. SUFFICES ASSUME RouteInv PROVE RouteTrue
    OBVIOUS
  <2>2. ASSUME matches.matches
        PROVE  /\ \A k \in DOMAIN matches.values : Places(matches.values[k], Slash) = {}
               /\ Filled(PathParamsMatcher(Pattern), matches.values) \in {path, path \o <<Slash>>}
    <3>1. path \in Text /\ matches = match(Pattern, path)
      BY <2>1, <2>2 DEF RouteInv
    <3> QED BY <2>2, <3>1, RouteFilled
  <2>3. ASSUME inside, NEW k \in DOMAIN Components(path)
        PROVE  LET part == Components(path)
               IN Cardinality({j \in 1..k : part[j] = Parent})
                    <= Cardinality({j \in 1..k : part[j] \notin {Here, Parent}})
    <3> DEFINE part == Components(path)
    <3>1. path \in Seq(Nat) /\ Level(part) >= 0
      BY <2>1, <2>3 DEF RouteInv, is_valid_path, Text, Texts
    <3>2. Parts(path, Slash) \in Seq(Seq(Nat))
      BY <3>1, PartsType
    <3>3. part \in Seq(Seq(Nat))
      BY <3>2, NonEmptyType DEF Components
    <3> HIDE DEF part
    <3>4. Len(part) \in Nat /\ DOMAIN part = 1..Len(part)
      BY <3>3, LenProperties
    <3>5. k \in 1..Len(part)
      BY <3>4 DEF part
    <3>6. Cardinality({j \in 1..k : part[j] = Parent})
            <= Cardinality({j \in 1..k : part[j] \notin {Here, Parent}})
      BY <3>1, <3>4, <3>5, LevelCounts
    <3> QED BY <3>6 DEF part
  <2> QED BY <2>2, <2>3 DEF RouteTrue
<1>2. Init => req \in Requests
  BY DEF Init
<1>3. req \in Requests /\ [Next]_vars => (req \in Requests)'
  BY ReqKept
<1> QED BY <1>1, <1>2, <1>3, RouteInvInit, RouteInvStep, PTL DEF Spec

----------------------------------------------------------------------------
(* A handler sees what was asked for *)

PlainQuery(ps) == \A k \in DOMAIN ps : PlainKey(ps[k][1])

\* the content of a form of parameters, as far as it has come
ParamsSent ==
  /\ stage # "parsing" /\ wire \in Texts /\ body \in Texts
  /\ \/ ended = "no" /\ wire = <<>> /\ body = <<>>
     \/ ended = "whole" /\ body \o wire = params_to_query_str(req.params)
     \/ ended = "broken"

LineInv ==
  /\ PlainPath(req.path) => stage \in {"asked", "refused"} \/ path = req.path
  /\ PlainPath(req.path) /\ PlainQuery(req.query) /\ stage \in {"reading", "parsing"}
       => params = Unrepeated(req.query)
  /\ PlainPath(req.path) /\ PlainQuery(req.query) /\ PlainQuery(req.params) /\ stage = "handled"
       => params = Unrepeated(req.query) \o Unrepeated(req.params)
  /\ req.form = "params" => ParamsSent

LEMMA PlainRead ==
  ASSUME NEW ps \in Seq(Texts \X Texts), PlainQuery(ps)
  PROVE  PlainParams(ps)
<1>1. Texts = Seq(Nat) /\ DOMAIN ps = 1..Len(ps)
  BY LenProperties DEF Texts
<1>2. ASSUME NEW n \in 1..Len(ps) PROVE ps[n][1] \in Seq(KeyChars) \ {<<>>}
  <2> DEFINE k == ps[n][1]
  <2>1. ps[n] \in Texts \X Texts
    BY ElementOfSeq
  <2>2. k \in Seq(Nat) /\ PlainKey(k)
    BY <1>1, <2>1 DEF PlainQuery
  <2> HIDE DEF k
  <2>3. DOMAIN k = 1..Len(k) /\ Len(k) \in Nat /\ k = [i \in 1..Len(k) |-> k[i]]
    BY <2>2, LenProperties
  <2>4. k # <<>> /\ \A i \in 1..Len(k) : k[i] \in KeyChars
    BY <2>2, <2>3 DEF PlainKey, KeyChars
  <2>5. k \in Seq(KeyChars)
    BY <2>3, <2>4
  <2> QED BY <2>4, <2>5 DEF k
<1> QED BY <1>1, <1>2 DEF PlainParams

LEMMA PlainPathRead ==
  ASSUME NEW p \in Texts, PlainPath(p)
  PROVE  p \in Seq(PathChars) /\ p # <<>>
<1>1. p \in Seq(Nat)
  BY DEF Texts
<1>2. DOMAIN p = 1..Len(p) /\ Len(p) \in Nat /\ p = [i \in 1..Len(p) |-> p[i]]
  BY <1>1, LenProperties
<1>3. p # <<>> /\ \A i \in 1..Len(p) : p[i] \in PathChars
  BY <1>2 DEF PlainPath, PathChars
<1> QED BY <1>2, <1>3

LEMMA ParseKeeps ==
  ASSUME Parse
  PROVE  /\ stage = "parsing" /\ stage' \in {"parsing", "reading", "refused"}
         /\ path' = path /\ params' = params
<1>1. CASE ParseEnd
  BY <1>1 DEF ParseEnd, Returns, connection, line
<1>2. CASE SkipPreamble
  BY <1>2 DEF SkipPreamble, In, Returns, Enters, connection, line
<1>3. CASE NewEntry
  BY <1>3 DEF NewEntry, In, Enters, connection, line
<1>4. CASE HeaderTooLong
  BY <1>4 DEF HeaderTooLong, In, connection, line
<1>10. CASE HeaderWaits
  BY <1>10 DEF HeaderWaits, In, Returns, connection, line
<1>5. CASE HeadersEnd
  BY <1>5 DEF HeadersEnd, In, Enters, connection, line
<1>6. CASE HeaderLine
  BY <1>6 DEF HeaderLine, In, Rejects, connection, line
<1>7. CASE Content
  BY <1>7 DEF Content, In, Enters, connection, line
<1>8. CASE ContentGoesOn
  BY <1>8 DEF ContentGoesOn, In, connection, line
<1>9. CASE BoundaryEnd
  BY <1>9 DEF BoundaryEnd, In, Enters, Returns, connection, line
<1> QED BY <1>1, <1>2, <1>3, <1>4, <1>5, <1>6, <1>7, <1>8, <1>9, <1>10 DEF Parse

LEMMA UnrepeatedTyped ==
  ASSUME NEW ps \in Seq(Texts \X Texts)
  PROVE  Unrepeated(ps) \o Unrepeated(<<>>) = Unrepeated(ps)
<1> DEFINE V == Texts \X Texts
           u == Unrepeated(ps)
<1>1. u \in Seq(V)
  BY FirstsKeep
<1>2. Unrepeated(<<>>) = <<>>
  <2>1. Unrepeated(<<>>) = FlattenSeq(<<>>)
    BY DEF Unrepeated
  <2> QED BY <2>1, FlattenNone
<1> HIDE DEF u, V
<1>3. u \o <<>> = u
  BY <1>1, ConcatEmptySeq
<1> QED BY <1>2, <1>3 DEF u

LEMMA LineInvInit == Init => LineInv
<1>1. SUFFICES ASSUME Init PROVE LineInv
  OBVIOUS
<1>2. stage = "asked" /\ ended = "no" /\ wire = <<>> /\ body = <<>>
  BY <1>1 DEF Init
<1>3. <<>> \in Texts
  BY EmptySeq DEF Texts
<1> QED BY <1>2, <1>3 DEF LineInv, ParamsSent

\* a request with parameters in a form has no providers
LEMMA ParamsForm ==
  ASSUME req \in Requests
  PROVE  /\ req.form = "params" => req.provided = 0
         /\ req.form # "params" => req.params = <<>>
<1>1. /\ req.provided > 0 => req.form = "multipart"
      /\ req.form # "params" => req.params = <<>>
  BY FormsAssumption
<1>2. req.provided \in Nat
  BY RequestTyped
<1> QED BY <1>1, <1>2

LEMMA LineInvClient ==
  ASSUME LineInv, req \in Requests, Client
  PROVE  LineInv'
<1>1. req' = req /\ stage' = stage /\ path' = path /\ params' = params /\ body' = body
  BY DEF Client, line
<1>2. ASSUME req.form = "params", ParamsSent PROVE ParamsSent'
  <2>1. req.provided = 0
    BY <1>2, ParamsForm
  <2>2. CASE WriteForm
    <3> DEFINE q == params_to_query_str(req.params)
    <3>1. ended = "no" /\ wire' = wire \o q /\ ended' = "whole"
      BY <1>2, <2>2 DEF WriteForm, Sending, Writes, Ends
    <3>2. q \in Seq(Nat)
      BY RequestTyped, QueryType DEF Text, Texts
    <3> HIDE DEF q
    <3>3. wire = <<>> /\ body = <<>>
      BY <1>2, <3>1 DEF ParamsSent
    <3>4. wire' = q /\ body \o q = q
      BY <3>1, <3>2, <3>3, ConcatEmptySeq
    <3> QED BY <1>1, <1>2, <3>1, <3>2, <3>4 DEF ParamsSent, Texts, q
  <2>3. CASE Break
    <3>1. ended' = "broken" /\ wire' = wire
      BY <2>3 DEF Break
    <3> QED BY <1>1, <1>2, <3>1 DEF ParamsSent
  <2>4. ~ProvideGiven /\ ~ProvideFinish /\ \A n, done : ~Provide(n, done)
    BY <2>1 DEF ProvideGiven, ProvideFinish, Provide
  <2> QED BY <2>2, <2>3, <2>4 DEF Client
<1> QED BY <1>1, <1>2 DEF LineInv

LEMMA LineInvReadLine ==
  ASSUME LineInv, req \in Requests, ReadLine
  PROVE  LineInv'
<1> DEFINE parsed == parse_request_line(request_line(req.path, req.query))
<1>1. req' = req /\ wire' = wire /\ body' = body /\ ended' = ended
  BY DEF ReadLine, client
<1>2. req.path \in Texts /\ req.query \in Seq(Texts \X Texts)
  BY RequestTyped DEF Text
<1>3. CASE ~parsed.ok
  <2>1. stage' = "refused"
    BY <1>3 DEF ReadLine
  <2> QED BY <1>1, <2>1 DEF LineInv, ParamsSent
<1>4. CASE parsed.ok
  <2>1. path' = parsed.path /\ params' = parsed.params
        /\ stage' = IF req.form = "none" THEN "handled" ELSE "reading"
    BY <1>4 DEF ReadLine
  <2> HIDE DEF parsed
  <2>2. ASSUME PlainPath(req.path)
        PROVE  /\ path' = req.path
               /\ PlainQuery(req.query) => params' = Unrepeated(req.query)
    <3> DEFINE p == req.path
               ps == req.query
    <3>1. p \in Seq(PathChars) /\ p # <<>>
      BY <1>2, <2>2, PlainPathRead
    <3>2. ps \in Seq(Seq(Nat) \X Seq(Nat)) /\ (PlainQuery(ps) => PlainParams(ps))
      BY <1>2, PlainRead DEF Texts
    <3>3. parsed = parse_request_line(request_line(p, ps))
      BY DEF parsed
    <3> HIDE DEF p, ps
    <3>4. /\ parse_request_line(request_line(p, ps)).path = p
          /\ PlainParams(ps) => parse_request_line(request_line(p, ps)).params = Unrepeated(ps)
      BY <3>1, <3>2, LineRead
    <3> QED BY <2>1, <3>2, <3>3, <3>4 DEF p, ps
  <2>3. req.form = "none" => req.params = <<>>
    BY ParamsForm
  <2>4. Unrepeated(req.query) \o Unrepeated(<<>>) = Unrepeated(req.query)
    BY <1>2, UnrepeatedTyped
  <2>5. stage' # "parsing" /\ (stage' = "handled" => req.form = "none")
    BY <2>1
  <2>6. req.form = "params" => ParamsSent'
    BY <1>1, <2>5 DEF LineInv, ParamsSent
  <2> QED BY <1>1, <2>2, <2>3, <2>4, <2>5, <2>6 DEF LineInv
<1> QED BY <1>3, <1>4

LEMMA LineInvReceive ==
  ASSUME LineInv, req \in Requests, NEW n \in 1..Len(wire), Receive(n)
  PROVE  LineInv'
<1>1. req' = req /\ path' = path /\ params' = params /\ ended' = ended /\ stage = "reading"
      /\ wire' = SubSeq(wire, n + 1, Len(wire))
  BY DEF Receive, line, client
<1>2. CASE req.form = "params"
  <2>1. body' = body \o SubSeq(wire, 1, n) /\ stage' = stage /\ ParamsSent
    BY <1>2 DEF Receive, LineInv
  <2> DEFINE w == wire
             a == SubSeq(w, 1, n)
             b == SubSeq(w, n + 1, Len(w))
             c == body
  <2>2. w \in Seq(Nat) /\ c \in Seq(Nat)
    BY <2>1 DEF ParamsSent, Texts
  <2> HIDE DEF w, c
  <2>3. Len(w) \in Nat /\ n \in 1..Len(w)
    BY <2>2, LenProperties DEF w
  <2>4. a \in Seq(Nat) /\ b \in Seq(Nat)
    <3>1. 1 \in 1..Len(w) + 1 /\ n \in Int /\ n <= Len(w) /\ n + 1 \in 1..Len(w) + 1 /\ Len(w) \in Int
      BY <2>3
    <3> QED BY <2>2, <3>1, PartType
  <2>5. a \o b = w
    <3>1. 0 \in Nat /\ n \in Nat /\ Len(w) \in Nat /\ 0 <= n /\ n <= Len(w) /\ Len(w) <= Len(w) /\ 0 + 1 = 1
      BY <2>3
    <3>2. SubSeq(w, 0 + 1, n) \o SubSeq(w, n + 1, Len(w)) = SubSeq(w, 0 + 1, Len(w))
      BY <2>2, <3>1, PartsMeet
    <3> QED BY <2>2, <3>1, <3>2, SubSeqFull
  <2> HIDE DEF a, b
  <2>6. (c \o a) \o b = c \o w /\ c \o a \in Seq(Nat)
    <3>1. (c \o a) \o b = c \o (a \o b)
      <4>1. c \in Seq(Nat) /\ a \in Seq(Nat) /\ b \in Seq(Nat)
        BY <2>2, <2>4
      <4> QED BY ONLY <4>1, ConcatAssociative, SMTT(30)
    <3> QED BY <2>2, <2>4, <2>5, <3>1, ConcatProperties
  <2>7. wire' = b /\ body' = c \o a
    BY <1>1, <2>1 DEF a, b, c, w
  <2>8. ended # "no"
    <3>1. wire # <<>>
      <4>1. w # <<>>
        BY <2>3
      <4> QED BY <4>1 DEF w
    <3> QED BY <2>1, <3>1 DEF ParamsSent
  <2>9. ParamsSent'
    <3>1. ended = "whole" => c \o w = params_to_query_str(req.params)
      BY <2>1, <2>8 DEF ParamsSent, c, w
    <3>2. ended = "whole" \/ ended = "broken"
      BY <2>1, <2>8 DEF ParamsSent
    <3>3. body' \o wire' = c \o w
      BY <2>6, <2>7
    <3> QED BY <1>1, <2>1, <2>4, <2>6, <2>7, <3>1, <3>2, <3>3 DEF ParamsSent, Texts
  <2> QED BY <1>1, <2>1, <2>9 DEF LineInv
<1>3. CASE req.form # "params"
  <2>1. stage' = "parsing"
    BY <1>3 DEF Receive
  <2> QED BY <1>1, <1>3, <2>1 DEF LineInv
<1> QED BY <1>2, <1>3

LEMMA LineInvReceiveEnd ==
  ASSUME LineInv, req \in Requests, ReceiveEnd
  PROVE  LineInv'
<1>1. /\ req' = req /\ path' = path /\ wire' = wire /\ body' = body /\ ended' = ended
      /\ stage = "reading" /\ wire = <<>> /\ stage' \in {"handled", "refused"}
  BY DEF ReceiveEnd, client
<1>2. req.form = "params" => ParamsSent'
  BY <1>1 DEF LineInv, ParamsSent
<1>3. ASSUME stage' = "handled", PlainPath(req.path), PlainQuery(req.query), PlainQuery(req.params)
      PROVE  params' = Unrepeated(req.query) \o Unrepeated(req.params)
  <2>1. ended = "whole" /\ params' = IF req.form = "params" THEN params \o parse_query_text(body) ELSE params
    BY <1>3 DEF ReceiveEnd
  <2>2. params = Unrepeated(req.query)
    BY <1>1, <1>3 DEF LineInv
  <2>3. req.query \in Seq(Texts \X Texts) /\ req.params \in Seq(Texts \X Texts)
    BY RequestTyped DEF Text
  <2>4. CASE req.form = "params"
    <3>1. body \in Seq(Nat) /\ body \o <<>> = params_to_query_str(req.params)
      BY <1>1, <2>1, <2>4 DEF LineInv, ParamsSent, Texts
    <3>2. body \o <<>> = body
      BY <3>1, ConcatEmptySeq
    <3>3. PlainParams(req.params)
      BY <1>3, <2>3, PlainRead
    <3>4. parse_query_text(body) = Unrepeated(req.params)
      BY <3>1, <3>2, <3>3, QueryBack
    <3> QED BY <2>1, <2>2, <2>4, <3>4
  <2>5. CASE req.form # "params"
    <3>1. req.params = <<>>
      BY <2>5, ParamsForm
    <3> QED BY <2>1, <2>2, <2>3, <2>5, <3>1, UnrepeatedTyped
  <2> QED BY <2>4, <2>5
<1> QED BY <1>1, <1>2, <1>3 DEF LineInv

LEMMA LineInvStep ==
  ASSUME LineInv, req \in Requests, [Next]_vars
  PROVE  LineInv'
<1>1. CASE Client
  BY <1>1, LineInvClient
<1>2. CASE ReadLine
  BY <1>2, LineInvReadLine
<1>3. CASE \E n \in 1..Len(wire) : Receive(n)
  BY <1>3, LineInvReceive
<1>4. CASE ReceiveEnd
  BY <1>4, LineInvReceiveEnd
<1>5. CASE Parse
  <2>1. stage = "parsing" /\ stage' \in {"parsing", "reading", "refused"} /\ path' = path /\ params' = params
    BY <1>5, ParseKeeps
  <2>2. req' = req /\ req.form # "params"
    BY <2>1, ReqKept DEF LineInv, ParamsSent
  <2> QED BY <2>1, <2>2 DEF LineInv
<1>6. CASE UNCHANGED vars
  <2>1. /\ req' = req /\ wire' = wire /\ stage' = stage /\ body' = body /\ path' = path /\ params' = params
        /\ ended' = ended
    BY <1>6 DEF vars, client, line
  <2> QED BY <2>1 DEF LineInv, ParamsSent
<1>7. CASE Done
  BY <1>6, <1>7 DEF Done
<1> QED BY <1>1, <1>2, <1>3, <1>4, <1>5, <1>6, <1>7 DEF Next

\* A handler sees the path that was asked for, and the parameters of the query and of a
\* form with their values unchanged, each of them once: whatever the values are, however
\* many there are, and wherever the pieces of the form are cut.
THEOREM LineTrueAlways == Spec => []LineTrue
<1>1. LineInv => LineTrue
  BY DEF LineInv, LineTrue, PlainQuery
<1>2. Init => req \in Requests
  BY DEF Init
<1>3. req \in Requests /\ [Next]_vars => (req \in Requests)'
  BY ReqKept
<1> QED BY <1>1, <1>2, <1>3, LineInvInit, LineInvStep, PTL DEF Spec

----------------------------------------------------------------------------
(* The parameters of Content-Disposition are read as they were written *)

ParamKeys  == {Name, Filename, Extended}
ValueChars == Visible \ {Semicolon, Equals}
FieldParam(key, v) == <<key, Equals>> \o v

LEMMA ValueCharsAre ==
  /\ ParamKeys \subseteq Visible /\ Visible \subseteq Nat /\ ValueChars \subseteq Nat
  /\ Semicolon \notin ValueChars /\ Equals \notin ValueChars /\ ValueChars \cap Blanks = {}
  /\ ParamKeys \subseteq ValueChars /\ Quote \in ValueChars /\ Equals \in Visible
  /\ Quote \notin ParamKeys /\ Visible \cap (Blanks \cup {Cr, Lf}) = {}
BY DEF ParamKeys, ValueChars, Visible, Blanks, Name, Filename, Extended, Semicolon, Equals, Quote,
       Space, Tab, Cr, Lf

LEMMA AppendTwo ==
  ASSUME NEW S, NEW x \in S, NEW y \in S
  PROVE  Append(<<x>>, y) = <<x, y>>
<1> DEFINE a == <<x>>
<1>1. a \in Seq(S)
  OBVIOUS
<1> HIDE DEF a
<1>2. Append(a, y) = a \o <<y>>
  BY <1>1, AppendIsConcat
<1> QED BY <1>2, TwoOnes DEF a

\* a text of visible characters needs no trimming
LEMMA TrimVisible ==
  ASSUME NEW v \in Seq(Nat), v # <<>>, \A i \in 1..Len(v) : v[i] \notin Blanks
  PROVE  trim_copy(v) = v
<1>1. Len(v) \in Nat /\ Len(v) # 0
  BY EmptySeq, LenProperties
<1>2. 1 \in 1..Len(v) /\ Len(v) \in 1..Len(v)
  BY <1>1
<1> QED BY <1>2, TrimSame

\* one parameter
LEMMA FieldParamRead ==
  ASSUME NEW key \in ParamKeys, NEW v \in Seq(ValueChars), v # <<>>, NEW w, w = FieldParam(key, v)
  PROVE  /\ w \in Seq(Nat) /\ w # <<>> /\ w[1] = key /\ \A i \in 1..Len(w) : w[i] \notin Blanks
         /\ Without(w, Semicolon) /\ split(w, Equals) = << <<key>>, v >>
<1> DEFINE a == <<key, Equals>>
           W == ValueChars \cup {Equals}
<1>1. key \in ValueChars /\ key \in Nat /\ key # Equals /\ W \subseteq Nat /\ ValueChars \subseteq W
  BY ValueCharsAre DEF Equals
<1>2. a \in Seq(W) /\ Len(a) = 2 /\ a[1] = key
  BY <1>1
<1>3. v \in Seq(W) /\ v \in Seq(Nat)
  BY <1>1, ValueCharsAre, SeqOfMore
<1> HIDE DEF W
<1>4. w \in Seq(W) /\ Len(w) = 2 + Len(v) /\ Len(v) \in Nat /\ w[1] = key
  <2>1. a \in Seq(W) /\ v \in Seq(W)
    BY <1>2, <1>3
  <2>2. w = a \o v
    BY DEF FieldParam
  <2> HIDE DEF a
  <2>3. /\ a \o v \in Seq(W) /\ Len(a \o v) = Len(a) + Len(v)
        /\ \A i \in 1..Len(a) + Len(v) : (a \o v)[i] = IF i <= Len(a) THEN a[i] ELSE v[i - Len(a)]
    BY ONLY <2>1, ConcatProperties
  <2>4. Len(v) \in Nat
    BY LenProperties
  <2>5. 1 \in 1..Len(a) + Len(v) /\ 1 <= Len(a)
    BY <1>2, <2>4
  <2> QED BY <1>2, <2>2, <2>3, <2>4, <2>5
<1>5. w \in Seq(Nat) /\ w # <<>>
  <2>1. w \in Seq(Nat)
    BY <1>1, <1>4, SeqOfMore
  <2>2. Len(w) # 0
    BY <1>4
  <2> QED BY <2>1, <2>2
<1>6. \A i \in 1..Len(w) : w[i] \in W
  BY <1>4, ElementOfSeq
<1>7. (\A i \in 1..Len(w) : w[i] \notin Blanks) /\ Without(w, Semicolon)
  <2>1. W \cap Blanks = {} /\ Semicolon \notin W
    BY ValueCharsAre DEF W, Equals, Blanks, Semicolon, Space, Tab
  <2> QED BY <1>6, <2>1 DEF Without
<1>8. Parts(w, Equals) = << <<key>>, v >>
  <2> DEFINE none == <<>>
             one == <<none>>
             k == <<key>>
             e == <<Equals>>
             ks == <<k>>
             nothing == <<>>
  <2>1. none \in Seq(Nat) /\ k \in Seq(Nat) /\ nothing \in Seq(Seq(Nat)) /\ ks \in Seq(Seq(Nat)) /\ e \in Seq(Nat)
    BY <1>1 DEF Equals
  <2>2. Parts(none, Equals) = Append(nothing, none)
    BY PartsNone
  <2>3. Parts(none \o k, Equals) = Append(nothing, k)
    <3>1. Before(none, Equals, nothing) /\ Without(k, Equals)
      BY <1>1, <2>2 DEF Before, Without
    <3> HIDE DEF none, k, nothing
    <3> QED BY <2>1, <3>1, PartsWord
  <2>4. Parts(k, Equals) = ks
    <3>1. none \o k = k
      BY <2>1, ConcatEmptySeq
    <3>2. Append(nothing, k) = ks
      OBVIOUS
    <3> QED BY <2>3, <3>1, <3>2
  <2>5. Parts(Append(k, Equals), Equals) = Longer(ks, Equals, Equals)
    <3>1. Equals \in Nat
      BY DEF Equals
    <3> HIDE DEF k, ks
    <3> QED BY <2>1, <2>4, <3>1, PartsAppend
  <2>6. Longer(ks, Equals, Equals) = Append(ks, <<>>)
    BY DEF Longer
  <2>7. Append(k, Equals) = a
    <3>1. key \in Nat /\ Equals \in Nat
      BY <1>1 DEF Equals
    <3> QED BY <3>1, AppendTwo
  <2>8. Before(a, Equals, ks)
    BY <2>5, <2>6, <2>7 DEF Before
  <2>9. Without(v, Equals)
    <3>1. \A i \in 1..Len(v) : v[i] \in ValueChars
      BY ElementOfSeq
    <3> QED BY <3>1, ValueCharsAre DEF Without
  <2>10. Parts(a \o v, Equals) = Append(ks, v)
    <3>1. a \in Seq(Nat)
      BY <1>1 DEF Equals
    <3> HIDE DEF a, ks
    <3> QED BY <1>3, <2>1, <2>8, <2>9, <3>1, PartsWord
  <2>11. Append(ks, v) = << <<key>>, v >>
    <3> DEFINE U == Seq(Nat)
    <3>1. k \in U /\ v \in U
      BY <1>3, <2>1
    <3> HIDE DEF k, U
    <3>2. Append(<<k>>, v) = <<k, v>>
      BY <3>1, AppendTwo
    <3> QED BY <3>2 DEF k
  <2> QED BY <2>10, <2>11 DEF FieldParam
<1>9. split(w, Equals) = << <<key>>, v >>
  <2> DEFINE k == <<key>>
             ws == <<k, v>>
  <2>1. k \in Seq(Nat) /\ k # <<>> /\ Len(k) = 1 /\ k[1] \notin Blanks
    BY <1>1, ValueCharsAre
  <2>2. trim_copy(k) = k
    <3> HIDE DEF k
    <3> QED BY <2>1, TrimVisible
  <2>3. trim_copy(v) = v
    <3>1. \A i \in 1..Len(v) : v[i] \in ValueChars
      BY ElementOfSeq
    <3>2. \A i \in 1..Len(v) : v[i] \notin Blanks
      BY <3>1, ValueCharsAre
    <3> QED BY <1>3, <3>2, TrimVisible
  <2> HIDE DEF k
  <2>4. ws \in Seq(Seq(Nat)) /\ Len(ws) = 2 /\ ws[1] = k /\ ws[2] = v
    BY <1>3, <2>1
  <2>5. \A i \in 1..Len(ws) : trim_copy(ws[i]) = ws[i] /\ ws[i] # <<>>
    BY <2>1, <2>2, <2>3, <2>4
  <2>6. Parts(w, Equals) = ws
    BY <1>8 DEF k
  <2> HIDE DEF ws
  <2>7. split(w, Equals) = ws
    BY <1>5, <2>4, <2>5, <2>6, SplitSame
  <2> QED BY <2>7 DEF ws, k
<1> QED BY <1>4, <1>5, <1>7, <1>9

\* the words of a Content-Disposition, which may be blank before their parameter, and
\* what is read of them
FieldWord(w, o) ==
  \E key \in ParamKeys, v \in Seq(ValueChars) \ {<<>>} :
    /\ w \in Seq(Nat) /\ Without(w, Semicolon) /\ trim_copy(w) = FieldParam(key, v)
    /\ o = << <<key>>, trim_double_quotes_copy(v) >>

FieldWords(ws, out) ==
  /\ ws \in Seq(Seq(Nat)) \ {<<>>} /\ out \in Seq(Seq(Nat) \X Seq(Nat)) /\ Len(out) = Len(ws)
  /\ \A k \in 1..Len(ws) : FieldWord(ws[k], out[k])
  /\ \A j, k \in 1..Len(ws) : j # k => out[j][1] # out[k][1]

\* texts without a first one that is quoted
LEMMA UnquotedType ==
  ASSUME NEW v \in Seq(Nat)
  PROVE  trim_double_quotes_copy(v) \in Seq(Nat)
<1>1. CASE ~(Len(v) >= 2 /\ v[1] = Quote /\ v[Len(v)] = Quote)
  BY <1>1 DEF trim_double_quotes_copy
<1>2. CASE Len(v) >= 2 /\ v[1] = Quote /\ v[Len(v)] = Quote
  <2>1. Len(v) \in Nat
    BY LenProperties
  <2>2. 2 \in 1..Len(v) + 1 /\ Len(v) - 1 \in Int /\ Len(v) - 1 <= Len(v)
    BY <1>2, <2>1
  <2>3. SubSeq(v, 2, Len(v) - 1) \in Seq(Nat)
    BY <2>2, PartType
  <2> QED BY <1>2, <2>3 DEF trim_double_quotes_copy
<1> QED BY <1>1, <1>2

LEMMA UnrepeatedSame ==
  ASSUME NEW V, NEW x \in Seq(V), \A j, k \in 1..Len(x) : j # k => x[j] # x[k]
  PROVE  Unrepeated(x) = x
<1> DEFINE q == [k \in DOMAIN x |-> <<x[k]>>]
<1>1. DOMAIN x = 1..Len(x) /\ Len(x) \in Nat
  BY LenProperties
<1>2. \A k \in DOMAIN x : \A j \in 1..k - 1 : x[j] # x[k]
  BY <1>1
<1>3. Firsts(x) = q
  BY <1>2 DEF Firsts
<1>4. Unrepeated(x) = FlattenSeq(Firsts(x))
  BY FirstsKeep
<1>5. FlattenSeq(q) = x
  <2>1. q = [k \in DOMAIN x |-> <<x[k]>>]
    OBVIOUS
  <2> HIDE DEF q
  <2> QED BY <2>1, FlattenOnes
<1> QED BY <1>3, <1>4, <1>5

\* The words are read one by one: what parse_disposition_params() makes of them.
LEMMA DispositionRead ==
  ASSUME NEW ws, NEW out, FieldWords(ws, out)
  PROVE  parse_disposition_params(Joined(ws, Semicolon)) = out
<1> DEFINE n == Len(ws)
           s == Joined(ws, Semicolon)
           V == Seq(Nat)
           key(k) == CHOOSE c \in ParamKeys : out[k][1] = <<c>>
<1>1. ws \in Seq(V) /\ n \in Nat /\ DOMAIN ws = 1..n /\ ws # <<>> /\ Len(out) = n /\ DOMAIN out = 1..n
  <2>1. out \in Seq(V \X V)
    BY DEF FieldWords
  <2> QED BY <2>1, LenProperties DEF FieldWords
<1> HIDE DEF n
<1>2. ASSUME NEW k \in 1..n
      PROVE  /\ Without(ws[k], Semicolon)
             /\ trim_copy(ws[k]) \in V /\ trim_copy(ws[k]) # <<>>
             /\ \E c \in ParamKeys, v \in V :
                  /\ trim_copy(ws[k])[1] = c /\ split(trim_copy(ws[k]), Equals) = << <<c>>, v >>
                  /\ out[k] = << <<c>>, trim_double_quotes_copy(v) >>
  <2>1. PICK c \in ParamKeys, v \in Seq(ValueChars) \ {<<>>} :
          /\ Without(ws[k], Semicolon) /\ trim_copy(ws[k]) = FieldParam(c, v)
          /\ out[k] = << <<c>>, trim_double_quotes_copy(v) >>
    BY ZenonT(30) DEF FieldWords, FieldWord, n
  <2> DEFINE w == trim_copy(ws[k])
  <2>2. w = FieldParam(c, v)
    BY <2>1
  <2> HIDE DEF w
  <2>3. w \in Seq(Nat) /\ w # <<>> /\ w[1] = c /\ split(w, Equals) = << <<c>>, v >>
    BY <2>2, FieldParamRead
  <2>4. v \in V
    BY ValueCharsAre, SeqOfMore
  <2> QED BY <2>1, <2>3, <2>4 DEF w
<1> DEFINE parts == [k \in 1..n |-> trim_copy(ws[k])]
<1>3. parts \in Seq(V) /\ Len(parts) = n /\ \A k \in 1..n : parts[k] = trim_copy(ws[k]) /\ parts[k] # <<>>
  <2> HIDE DEF V
  <2> QED BY <1>1, <1>2
<1>4. split(s, Semicolon) = parts
  <2>1. Semicolon \in Nat
    BY DEF Semicolon
  <2>2. \A k \in 1..Len(ws) : Without(ws[k], Semicolon)
    BY <1>2 DEF n
  <2>3. Parts(s, Semicolon) = ws
    BY <1>1, <2>1, <2>2, PartsJoined
  <2>4. [k \in DOMAIN ws |-> trim_copy(ws[k])] = parts
    BY <1>1
  <2>5. split(s, Semicolon) = NonEmpty(parts)
    BY <2>3, <2>4 DEF split
  <2> HIDE DEF parts, s
  <2> QED BY <1>3, <2>5, NonEmptySame
<1> HIDE DEF parts
<1>5. Unrepeated(parts) = parts
  <2>1. ASSUME NEW j \in 1..n, NEW k \in 1..n, j # k PROVE parts[j] # parts[k]
    <3>0. ASSUME NEW m \in 1..n PROVE \E c \in ParamKeys : parts[m][1] = c /\ out[m][1] = <<c>>
      <4>1. PICK c \in ParamKeys, v \in V :
              trim_copy(ws[m])[1] = c /\ out[m] = << <<c>>, trim_double_quotes_copy(v) >>
        BY <1>2
      <4> QED BY <1>3, <4>1
    <3>1. PICK c \in ParamKeys : parts[j][1] = c /\ out[j][1] = <<c>>
      BY <3>0
    <3>2. PICK d \in ParamKeys : parts[k][1] = d /\ out[k][1] = <<d>>
      BY <3>0
    <3>3. out[j][1] # out[k][1]
      BY <2>1 DEF FieldWords, n
    <3> QED BY <3>1, <3>2, <3>3
  <2>2. \A j, k \in 1..Len(parts) : j # k => parts[j] # parts[k]
    BY <1>3, <2>1
  <2> QED BY <1>3, <2>2, UnrepeatedSame
<1> DEFINE q == [k \in 1..n |-> split(parts[k], Equals)]
           value(w) == IF Len(w) = 1 THEN <<>> ELSE w[Len(w)]
<1>6. ASSUME NEW k \in 1..n
      PROVE  /\ q[k] \in Seq(V) /\ q[k] # <<>>
             /\ << trim_double_quotes_copy(q[k][1]), trim_double_quotes_copy(value(q[k])) >> = out[k]
  <2>1. PICK c \in ParamKeys, v \in V :
          split(parts[k], Equals) = << <<c>>, v >> /\ out[k] = << <<c>>, trim_double_quotes_copy(v) >>
    BY <1>2, <1>3
  <2>2. q[k] = << <<c>>, v >>
    BY <2>1
  <2> DEFINE l == <<c>>
             p == <<l, v>>
  <2>21. l \in V
    <3>1. c \in Nat
      BY ValueCharsAre
    <3> QED BY <3>1
  <2> HIDE DEF l, V, q
  <2>22. Len(p) = 2 /\ p[1] = l /\ p[2] = v /\ p \in Seq(V) /\ p # <<>>
    BY <2>21
  <2>3. Len(q[k]) = 2 /\ q[k][1] = <<c>> /\ q[k][2] = v /\ q[k] \in Seq(V) /\ q[k] # <<>>
    BY <2>2, <2>22 DEF l
  <2>4. trim_double_quotes_copy(<<c>>) = <<c>>
    BY DEF trim_double_quotes_copy
  <2>5. value(q[k]) = v
    BY <2>3
  <2> QED BY <2>1, <2>3, <2>4, <2>5
<1>7. q \in Seq(Seq(V)) /\ Len(q) = n /\ DOMAIN q = 1..n
  <2> DEFINE U == Seq(V)
  <2>1. \A k \in 1..n : q[k] \in U
    BY <1>6
  <2> HIDE DEF U
  <2>2. q \in Seq(U) /\ Len(q) = n /\ DOMAIN q = 1..n
    BY <1>1, <2>1
  <2> QED BY <2>2 DEF U
<1>8. NonEmpty(q) = q
  <2> HIDE DEF q
  <2> QED BY <1>6, <1>7, NonEmptySame
<1>9. [k \in DOMAIN parts |-> split(parts[k], Equals)] = q
  <2>1. DOMAIN parts = 1..n
    BY <1>3, LenProperties
  <2> QED BY <2>1
<1>10. parse_disposition_params(s) =
         [k \in DOMAIN q |-> << trim_double_quotes_copy(q[k][1]), trim_double_quotes_copy(value(q[k])) >>]
  <2> HIDE DEF s, q
  <2>1. parse_disposition_params(s) =
          LET words == NonEmpty([k \in DOMAIN parts |-> split(parts[k], Equals)])
          IN [k \in DOMAIN words |-> << trim_double_quotes_copy(words[k][1]),
                                        trim_double_quotes_copy(value(words[k])) >>]
    BY <1>4, <1>5 DEF parse_disposition_params
  <2> QED BY <1>8, <1>9, <2>1
<1> HIDE DEF q, s
<1>11. [k \in DOMAIN q |-> << trim_double_quotes_copy(q[k][1]), trim_double_quotes_copy(value(q[k])) >>] = out
  <2> HIDE DEF value
  <2>1. out = [k \in 1..n |-> out[k]]
    <3>1. out \in Seq(V \X V)
      BY DEF FieldWords
    <3> QED BY <1>1, <3>1
  <2> QED BY <1>6, <1>7, <2>1
<1> QED BY <1>10, <1>11 DEF s

LEMMA JoinedOne ==
  ASSUME NEW S, NEW w \in Seq(S), NEW d
  PROVE  Joined(<<w>>, d) = w
<1> DEFINE ws == <<w>>
           q == [k \in DOMAIN ws |-> (IF k = 1 THEN <<>> ELSE <<d>>) \o ws[k]]
           x == <<>> \o w
<1>1. x = w
  BY ConcatEmptySeq
<1>2. q = <<x>>
  OBVIOUS
<1>3. Joined(ws, d) = FlattenSeq(q)
  BY DEF Joined
<1> HIDE DEF x
<1>4. q \in Seq(Seq(S)) /\ Len(q) = 1 /\ q[1] = w
  <2> HIDE DEF q
  <2>1. x \in Seq(S)
    BY <1>1
  <2> QED BY <1>1, <1>2, <2>1
<1> HIDE DEF q
<1>5. FlattenSeq(q) = w
  BY <1>4, FlattenFew
<1> QED BY <1>3, <1>5

LEMMA JoinedMore ==
  ASSUME NEW S, NEW ws \in Seq(Seq(S)), ws # <<>>, NEW w \in Seq(S), NEW d \in S
  PROVE  Joined(Append(ws, w), d) = Joined(ws, d) \o (<<d>> \o w)
<1> DEFINE V == Seq(S)
           n == Len(ws)
           m == Append(ws, w)
           x == <<d>> \o w
           e(l, k) == (IF k = 1 THEN <<>> ELSE <<d>>) \o l[k]
           q == [k \in DOMAIN ws |-> e(ws, k)]
           r == [k \in DOMAIN m |-> e(m, k)]
<1>1. n \in Nat /\ DOMAIN ws = 1..n /\ n # 0
  BY LenProperties, EmptySeq
<1>2. m \in Seq(V) /\ Len(m) = n + 1 /\ m[n + 1] = w /\ \A k \in 1..n : m[k] = ws[k]
  <2>1. ws \in Seq(V) /\ w \in V
    OBVIOUS
  <2> HIDE DEF V
  <2> QED BY <2>1, AppendProperties
<1>3. DOMAIN m = 1..n + 1
  BY <1>2, LenProperties
<1>4. x \in V
  <2> DEFINE o == <<d>>
  <2>1. o \in Seq(S)
    OBVIOUS
  <2> HIDE DEF o
  <2>2. o \o w \in Seq(S)
    BY <2>1, ConcatProperties
  <2> QED BY <2>2 DEF o
<1>5. q \in Seq(V) /\ Len(q) = n
  <2>1. ASSUME NEW k \in 1..n PROVE e(ws, k) \in V
    <3> DEFINE o == IF k = 1 THEN <<>> ELSE <<d>>
               t == ws[k]
    <3>1. o \in Seq(S) /\ t \in Seq(S)
      BY ElementOfSeq
    <3> HIDE DEF o, t
    <3>2. o \o t \in Seq(S)
      BY <3>1, ConcatProperties
    <3> QED BY <3>2 DEF o, t
  <2> HIDE DEF V, e
  <2> QED BY <1>1, <2>1
<1>6. r = Append(q, x)
  <2> HIDE DEF x, V
  <2>1. Append(q, x) \in Seq(V) /\ Len(Append(q, x)) = n + 1 /\ Append(q, x)[n + 1] = x
        /\ \A k \in 1..n : Append(q, x)[k] = q[k]
    <3> HIDE DEF q
    <3> QED BY <1>4, <1>5, AppendProperties
  <2>2. ASSUME NEW k \in 1..n PROVE r[k] = q[k]
    <3>1. k \in 1..n + 1
      BY <1>1
    <3> QED BY <1>1, <1>2, <1>3, <3>1
  <2>3. r[n + 1] = x
    <3>1. n + 1 \in 1..n + 1 /\ n + 1 # 1
      BY <1>1
    <3> QED BY <1>2, <1>3, <3>1 DEF x
  <2>4. r = [k \in 1..n + 1 |-> r[k]]
    BY <1>3
  <2> DEFINE z == Append(q, x)
  <2>5. z = [k \in 1..n + 1 |-> z[k]]
    <3>1. z \in Seq(V) /\ Len(z) = n + 1
      BY <2>1
    <3> HIDE DEF z
    <3> QED BY <3>1, LenProperties
  <2> HIDE DEF r, q, z
  <2>6. \A k \in 1..n + 1 : r[k] = z[k]
    <3>1. \A k \in 1..n + 1 : k \in 1..n \/ k = n + 1
      BY <1>1
    <3> QED BY <2>1, <2>2, <2>3, <3>1 DEF z
  <2> QED BY <2>4, <2>5, <2>6 DEF z
<1> HIDE DEF q, x
<1>7. FlattenSeq(Append(q, x)) = FlattenSeq(q) \o x
  BY <1>4, <1>5, FlattenAppend
<1>8. Joined(ws, d) = FlattenSeq(q)
  BY DEF Joined, q
<1>9. Joined(m, d) = FlattenSeq(r)
  BY DEF Joined
<1> QED BY <1>6, <1>7, <1>8, <1>9 DEF x

LEMMA FieldWordsMore ==
  ASSUME NEW ws, NEW out, FieldWords(ws, out), NEW w, NEW o, FieldWord(w, o),
         \A j \in 1..Len(out) : out[j][1] # o[1]
  PROVE  FieldWords(Append(ws, w), Append(out, o))
<1> DEFINE V == Seq(Nat)
           P == V \X V
           m == Append(ws, w)
           p == Append(out, o)
           n == Len(ws)
<1>1. ws \in Seq(V) /\ ws # <<>> /\ out \in Seq(P) /\ Len(out) = n /\ n \in Nat
      /\ \A k \in 1..n : FieldWord(ws[k], out[k])
  BY LenProperties DEF FieldWords
<1>2. w \in V /\ o \in P
  <2>1. PICK key \in ParamKeys, v \in Seq(ValueChars) : w \in V /\ o = << <<key>>, trim_double_quotes_copy(v) >>
    BY DEF FieldWord
  <2>2. trim_double_quotes_copy(v) \in V
    <3>1. v \in Seq(Nat)
      BY ValueCharsAre, SeqOfMore
    <3> QED BY <3>1, UnquotedType
  <2>3. <<key>> \in V
    <3>1. key \in Nat
      BY ValueCharsAre
    <3> QED BY <3>1
  <2> QED BY <2>1, <2>2, <2>3
<1> HIDE DEF V, P
<1>3. m \in Seq(V) /\ m # <<>> /\ Len(m) = n + 1 /\ m[n + 1] = w /\ \A k \in 1..n : m[k] = ws[k]
  BY <1>1, <1>2, AppendProperties
<1>4. p \in Seq(P) /\ Len(p) = n + 1 /\ p[n + 1] = o /\ \A k \in 1..n : p[k] = out[k]
  BY <1>1, <1>2, AppendProperties
<1> HIDE DEF m, p, n
<1>5. \A k \in 1..n + 1 : k \in 1..n \/ k = n + 1
  BY <1>1
<1>6. \A k \in 1..n + 1 : FieldWord(m[k], p[k])
  BY <1>1, <1>3, <1>4, <1>5
<1>7. \A j, k \in 1..n + 1 : j # k => p[j][1] # p[k][1]
  <2> TAKE j, k \in 1..n + 1
  <2> HAVE j # k
  <2>1. CASE j \in 1..n /\ k \in 1..n
    BY <1>4, <2>1 DEF FieldWords, n
  <2>2. CASE j = n + 1 /\ k \in 1..n
    BY <1>1, <1>4, <2>2
  <2>3. CASE k = n + 1 /\ j \in 1..n
    BY <1>1, <1>4, <2>3
  <2> QED BY <1>5, <2>1, <2>2, <2>3
<1>8. FieldWords(m, p)
  BY <1>3, <1>4, <1>6, <1>7 DEF FieldWords, V, P
<1> QED BY <1>8 DEF m, p

\* a parameter and its value, once
Says(out, key, v) == \E k \in DOMAIN out : out[k] = <<key, v>>

LEMMA SaysValue ==
  ASSUME NEW ws, NEW out, FieldWords(ws, out), NEW key, NEW v, Says(out, key, v)
  PROVE  Has(out, key) /\ Value(out, key) = v
<1> DEFINE n == Len(out)
<1>1. n \in Nat /\ DOMAIN out = 1..n /\ \A j, k \in 1..n : j # k => out[j][1] # out[k][1]
  <2>1. out \in Seq(Seq(Nat) \X Seq(Nat)) /\ Len(out) = Len(ws)
        /\ \A j, k \in 1..Len(ws) : j # k => out[j][1] # out[k][1]
    BY DEF FieldWords
  <2> QED BY <2>1, LenProperties
<1>2. PICK k \in 1..n : out[k] = <<key, v>>
  BY <1>1 DEF Says
<1> DEFINE P(i) == out[i][1] = key /\ \A j \in 1..i - 1 : out[j][1] # key
           c == CHOOSE i \in DOMAIN out : P(i)
<1>3. out[k][1] = key /\ out[k][2] = v
  BY <1>2
<1>4. k \in DOMAIN out /\ P(k)
  <2>1. \A j \in 1..k - 1 : j \in 1..n /\ j # k
    BY <1>1
  <2> QED BY <1>1, <1>3, <2>1
<1>5. c \in DOMAIN out /\ P(c)
  BY <1>4
<1>6. c = k
  BY <1>1, <1>3, <1>5
<1>7. Value(out, key) = out[c][2]
  BY DEF Value
<1>8. Has(out, key)
  BY <1>4 DEF Has
<1> HIDE DEF c
<1> QED BY <1>3, <1>6, <1>7, <1>8

LEMMA SaysMore ==
  ASSUME NEW ws, NEW out, FieldWords(ws, out), NEW key \in Seq(Nat), NEW v \in Seq(Nat), NEW o, o = <<key, v>>
  PROVE  /\ Says(Append(out, o), key, v)
         /\ \A k, u : Says(out, k, u) => Says(Append(out, o), k, u)
         /\ \A k : Has(Append(out, o), k) <=> Has(out, k) \/ k = key
<1> DEFINE P == Seq(Nat) \X Seq(Nat)
           n == Len(out)
           p == Append(out, o)
<1>1. out \in Seq(P) /\ o \in P /\ n \in Nat /\ DOMAIN out = 1..n
  BY LenProperties DEF FieldWords
<1>2. o[1] = key
  OBVIOUS
<1> HIDE DEF P
<1>3. p \in Seq(P) /\ Len(p) = n + 1 /\ p[n + 1] = o /\ \A k \in 1..n : p[k] = out[k]
  BY <1>1, AppendProperties
<1>4. DOMAIN p = 1..n + 1
  BY <1>3, LenProperties
<1> HIDE DEF p
<1>5. n + 1 \in 1..n + 1 /\ \A k \in 1..n + 1 : k \in 1..n \/ k = n + 1
  BY <1>1
<1>6. \A k \in 1..n : k \in 1..n + 1
  BY <1>1
<1>7. Says(p, key, v)
  BY <1>3, <1>4, <1>5 DEF Says
<1>8. ASSUME NEW k, NEW u, Says(out, k, u) PROVE Says(p, k, u)
  BY <1>1, <1>3, <1>4, <1>6, <1>8 DEF Says
<1>9. ASSUME NEW k PROVE Has(p, k) <=> Has(out, k) \/ k = key
  BY <1>1, <1>2, <1>3, <1>4, <1>5, <1>6 DEF Has
<1> QED BY <1>7, <1>8, <1>9 DEF p

\* what comes between quotes
InQuotes(t) == (<<Quote>> \o t) \o <<Quote>>

LEMMA InQuotesRead ==
  ASSUME NEW t \in Seq(ValueChars)
  PROVE  /\ InQuotes(t) \in Seq(ValueChars) /\ InQuotes(t) # <<>>
         /\ trim_double_quotes_copy(InQuotes(t)) = t
<1> DEFINE q == <<Quote>>
           a == q \o t
           v == a \o q
<1>1. q \in Seq(ValueChars) /\ Len(q) = 1 /\ q[1] = Quote
  BY ValueCharsAre
<1> HIDE DEF q
<1>2. a \in Seq(ValueChars) /\ Len(a) = 1 + Len(t) /\ Len(t) \in Nat
  <2>1. q \in Seq(ValueChars) /\ t \in Seq(ValueChars)
    BY <1>1
  <2>2. q \o t \in Seq(ValueChars) /\ Len(q \o t) = Len(q) + Len(t) /\ Len(t) \in Nat
    BY ONLY <2>1, ConcatLength
  <2> QED BY <1>1, <2>2
<1>3. Cut(a, q, t)
  BY DEF Cut
<1> HIDE DEF a
<1>4. Cut(v, a, q)
  BY DEF Cut
<1>5. v \in Seq(ValueChars) /\ Len(v) = Len(t) + 2
  <2>1. a \in Seq(ValueChars) /\ q \in Seq(ValueChars)
    BY <1>1, <1>2
  <2>2. a \o q \in Seq(ValueChars) /\ Len(a \o q) = Len(a) + Len(q)
    BY ONLY <2>1, ConcatLength
  <2> QED BY <1>1, <1>2, <2>2
<1> HIDE DEF v
<1>6. v[1] = Quote
  <2>1. 1 \in 1..Len(q) /\ 1 \in 1..Len(a)
    BY <1>1, <1>2
  <2>2. a[1] = q[1]
    BY <1>1, <1>3, <2>1, CutFirst
  <2>3. v[1] = a[1]
    BY <1>1, <1>2, <1>4, <2>1, CutFirst
  <2> QED BY <1>1, <2>2, <2>3
<1>7. v[Len(v)] = Quote
  <2>1. /\ Len(v) \in 1..Len(a) + Len(q) /\ ~(Len(v) <= Len(a)) /\ Len(v) - Len(a) = 1
    BY <1>1, <1>2, <1>5
  <2>2. a \in Seq(ValueChars) /\ q \in Seq(ValueChars)
    BY <1>1, <1>2
  <2>3. \A i \in 1..Len(a) + Len(q) : (a \o q)[i] = IF i <= Len(a) THEN a[i] ELSE q[i - Len(a)]
    BY ONLY <2>2, ConcatProperties
  <2> QED BY <1>1, <1>4, <2>1, <2>3 DEF Cut
<1>8. SubSeq(v, 2, Len(v) - 1) = t
  <2>1. PICK z \in Seq(ValueChars) : Cut(z, t, q) /\ Cut(v, q, z)
    BY <1>1, <1>3, <1>4, CutLeft
  <2>2. SubSeq(v, Len(q) + 1, Len(v)) = z
    BY <1>1, <1>5, <2>1, CutPieces
  <2>3. SubSeq(z, 1, Len(t)) = t /\ Len(z) = Len(t) + 1
    <3>1. z \in Seq(ValueChars) /\ t \in Seq(ValueChars) /\ q \in Seq(ValueChars) /\ Cut(z, t, q)
      BY <1>1, <2>1
    <3>2. SubSeq(z, 1, Len(t)) = t /\ Len(z) = Len(t) + Len(q)
      BY ONLY <3>1, CutPieces
    <3> QED BY <1>1, <3>2
  <2>4. SubSeq(SubSeq(v, 2, Len(v)), 1, Len(t)) = t
    BY <1>1, <2>2, <2>3
  <2>5. SubSeq(SubSeq(v, 2, Len(v)), 1, Len(t)) = SubSeq(v, 2, Len(v) - 1)
    <3>1. CASE Len(t) = 0
      <4>1. 0 < 1 /\ Len(v) - 1 < 2 /\ 1 \in Int /\ 0 \in Int /\ 2 \in Int /\ Len(v) - 1 \in Int
        BY <1>5, <3>1
      <4>2. SubSeq(SubSeq(v, 2, Len(v)), 1, 0) = <<>> /\ SubSeq(v, 2, Len(v) - 1) = <<>>
        BY <4>1, SubSeqEmpty
      <4> QED BY <3>1, <4>2
    <3>2. CASE Len(t) # 0
      <4> DEFINE i == 2
                 j == Len(v)
                 m == 1
                 n == Len(t)
      <4>1. /\ i \in 1..Len(v) /\ j \in 1..Len(v) /\ m \in 1..j - i + 1 /\ n \in 1..j - i + 1
            /\ i + m - 1 = 2 /\ i + n - 1 = Len(v) - 1
        BY <1>2, <1>5, <3>2
      <4> HIDE DEF i, j, m, n
      <4>2. SubSeq(SubSeq(v, i, j), m, n) = SubSeq(v, i + m - 1, i + n - 1)
        BY <1>5, <4>1, SubSeqOfSubSeq
      <4> QED BY <4>1, <4>2 DEF i, j, m, n
    <3> QED BY <3>1, <3>2
  <2> QED BY <2>4, <2>5
<1>9. trim_double_quotes_copy(v) = t
  <2>1. Len(v) >= 2
    BY <1>2, <1>5
  <2> QED BY <1>6, <1>7, <1>8, <2>1 DEF trim_double_quotes_copy
<1>10. v # <<>>
  <2>1. Len(v) # 0
    BY <1>2, <1>5
  <2> QED BY <2>1
<1> QED BY <1>5, <1>9, <1>10 DEF v, a, q, InQuotes

----------------------------------------------------------------------------
(* The header lines of an item *)

\* the characters of header lines, the first of which names the field
HeadChars == Visible \cup Blanks

LEMMA PlainChars ==
  ASSUME NEW t \in Texts, PlainField(t)
  PROVE  t \in Seq(ValueChars) /\ t \in Seq(Visible) /\ \A i \in 1..Len(t) : t[i] # Quote
<1> DEFINE W == Visible \ {Quote, Semicolon, Equals}
<1>1. t \in Seq(Nat) /\ DOMAIN t = 1..Len(t) /\ Len(t) \in Nat
  BY LenProperties DEF Texts
<1>2. \A i \in 1..Len(t) : t[i] \in W
  BY <1>1 DEF PlainField
<1>3. t = [i \in 1..Len(t) |-> t[i]]
  BY <1>1
<1>4. t \in Seq(W)
  <2> HIDE DEF W
  <2> QED BY <1>1, <1>2, <1>3
<1>5. W \subseteq ValueChars /\ W \subseteq Visible
  BY DEF ValueChars
<1> HIDE DEF W
<1>6. t \in Seq(ValueChars) /\ t \in Seq(Visible)
  BY <1>4, <1>5, SeqOfMore
<1> QED BY <1>2, <1>6 DEF W

\* a parameter as the client writes it
LEMMA ConsTwo ==
  ASSUME NEW S, NEW x \in S, NEW y \in S, NEW t \in Seq(S)
  PROVE  <<x, y>> \o t = <<x>> \o (<<y>> \o t)
<1> DEFINE a == <<x>>
           b == <<y>>
<1>1. a \in Seq(S) /\ b \in Seq(S) /\ t \in Seq(S)
  OBVIOUS
<1>2. a \o b = <<x, y>>
  BY TwoOnes
<1> HIDE DEF a, b
<1>3. (a \o b) \o t = a \o (b \o t)
  BY ONLY <1>1, ConcatAssociative
<1> QED BY <1>2, <1>3 DEF a, b

LEMMA ConsThree ==
  ASSUME NEW S, NEW x \in S, NEW y \in S, NEW u \in S, NEW t \in Seq(S)
  PROVE  <<x, y, u>> \o t = <<x>> \o (<<y>> \o (<<u>> \o t))
<1> DEFINE a == <<x, y>>
           b == <<u>>
           c == <<x, y, u>>
<1>1. a \in Seq(S) /\ b \in Seq(S) /\ t \in Seq(S) /\ c \in Seq(S) /\ b \o t \in Seq(S)
  <2>1. b \in Seq(S)
    OBVIOUS
  <2> HIDE DEF b
  <2>2. b \o t \in Seq(S)
    BY <2>1, ConcatProperties
  <2> QED BY <2>1, <2>2
<1>2. c = Append(a, u)
  <2> DEFINE d == Append(a, u)
  <2>1. a \in Seq(S) /\ Len(a) = 2 /\ a[1] = x /\ a[2] = y /\ Len(c) = 3 /\ c[1] = x /\ c[2] = y /\ c[3] = u
    OBVIOUS
  <2> HIDE DEF a, c
  <2>2. d \in Seq(S) /\ Len(d) = Len(a) + 1 /\ d[Len(a) + 1] = u
    BY <2>1, AppendProperties, ZenonT(30)
  <2>3. \A i \in 1..Len(a) : d[i] = a[i]
    <3>1. a \in Seq(S) /\ u \in S
      BY <2>1
    <3>2. \A i \in 1..Len(a) : Append(a, u)[i] = a[i]
      BY ONLY <3>1, AppendProperties
    <3> QED BY <3>2
  <2>4. 1 \in 1..2 /\ 2 \in 1..2 /\ 2 + 1 = 3 /\ \A i \in 1..3 : i = 1 \/ i = 2 \/ i = 3
    OBVIOUS
  <2> HIDE DEF d
  <2>5. Len(d) = 3 /\ d[1] = x /\ d[2] = y /\ d[3] = u
    BY <2>1, <2>2, <2>3, <2>4
  <2>6. d = c
    BY <1>1, <2>1, <2>2, <2>4, <2>5, SeqEqual
  <2> QED BY <2>6 DEF d
<1>3. Append(a, u) = a \o b
  BY <1>1, AppendIsConcat
<1> HIDE DEF a, b, c
<1>4. (a \o b) \o t = a \o (b \o t)
  BY ONLY <1>1, ConcatAssociative
<1>5. a \o (b \o t) = <<x>> \o (<<y>> \o (b \o t))
  BY <1>1, ConsTwo DEF a
<1> QED BY <1>2, <1>3, <1>4, <1>5 DEF b, c

LEMMA QuotedParam ==
  ASSUME NEW key \in Nat, NEW t \in Seq(Nat)
  PROVE  /\ Quoted(t) \in Seq(Nat) /\ Quoted(t) = <<Equals>> \o InQuotes(t) /\ InQuotes(t) \in Seq(Nat)
         /\ <<key>> \o Quoted(t) = FieldParam(key, InQuotes(t))
<1> DEFINE q == <<Quote>>
           e == <<Equals>>
           eq == <<Equals, Quote>>
           qt == q \o t
<1>1. q \in Seq(Nat) /\ e \in Seq(Nat) /\ eq \in Seq(Nat) /\ Equals \in Nat /\ Quote \in Nat
  BY DEF Quote, Equals
<1>2. eq \o t = e \o qt
  BY <1>1, ConsTwo
<1> HIDE DEF q, e, eq
<1>3. qt \in Seq(Nat)
  BY <1>1, ConcatProperties
<1> HIDE DEF qt
<1>4. (e \o qt) \o q = e \o (qt \o q)
  <2>1. e \in Seq(Nat) /\ qt \in Seq(Nat) /\ q \in Seq(Nat)
    BY <1>1, <1>3
  <2> QED BY ONLY <2>1, ConcatAssociative, SMTT(30)
<1>5. qt \o q = InQuotes(t)
  BY DEF qt, q, InQuotes
<1>6. InQuotes(t) \in Seq(Nat)
  BY <1>1, <1>3, <1>5, ConcatProperties
<1>7. Quoted(t) = (eq \o t) \o q
  BY DEF Quoted, eq, q
<1>8. Quoted(t) = e \o InQuotes(t)
  BY <1>2, <1>4, <1>5, <1>7
<1>9. e \o InQuotes(t) \in Seq(Nat)
  BY <1>1, <1>6, ConcatProperties
<1>10. <<key, Equals>> \o InQuotes(t) = <<key>> \o (<<Equals>> \o InQuotes(t))
  BY <1>1, <1>6, ConsTwo, SMTT(30)
<1> QED BY <1>6, <1>8, <1>9, <1>10 DEF FieldParam, e

LEMMA TextsAssociative ==
  ASSUME NEW a \in Seq(Nat), NEW b \in Seq(Nat), NEW c \in Seq(Nat)
  PROVE  (a \o b) \o c = a \o (b \o c)
BY ConcatAssociative

\* one more parameter, which is written after a semicolon and a blank
Added(ws2, out2, ws, out, key, v, t) ==
  /\ FieldWords(ws2, out2)
  /\ Joined(ws2, Semicolon)
       = Joined(ws, Semicolon) \o (<<Semicolon>> \o (<<Space>> \o FieldParam(key, v)))
  /\ Says(out2, <<key>>, t)
  /\ \A k, u : Says(out, k, u) => Says(out2, k, u)
  /\ \A k : Has(out2, k) <=> Has(out, k) \/ k = <<key>>

LEMMA ParamAdded ==
  ASSUME NEW ws, NEW out, FieldWords(ws, out), NEW key \in ParamKeys, NEW v \in Seq(ValueChars), v # <<>>,
         NEW t \in Seq(Nat), t = trim_double_quotes_copy(v), ~Has(out, <<key>>)
  PROVE  \E ws2, out2 : Added(ws2, out2, ws, out, key, v, t)
<1> DEFINE p == FieldParam(key, v)
           w == <<Space>> \o p
           o == << <<key>>, t >>
           k1 == <<key>>
<1>1. p \in Seq(Nat) /\ p # <<>> /\ (\A i \in 1..Len(p) : p[i] \notin Blanks) /\ Without(p, Semicolon)
  <2>1. p = FieldParam(key, v)
    OBVIOUS
  <2> HIDE DEF p
  <2> QED BY <2>1, FieldParamRead
<1>2. k1 \in Seq(Nat)
  <2>1. key \in Nat
    BY ValueCharsAre
  <2> QED BY <2>1
<1> HIDE DEF p
<1>3. w \in Seq(Nat) /\ Without(w, Semicolon) /\ trim_copy(w) = p
  <2> DEFINE sp == <<Space>>
  <2>1. sp \in Seq(Nat) /\ Len(sp) = 1 /\ sp[1] = Space /\ Space \in Nat /\ Space # Semicolon /\ Space \in Blanks
    BY DEF Space, Semicolon, Blanks
  <2> HIDE DEF sp
  <2>2. /\ sp \o p \in Seq(Nat) /\ Len(sp \o p) = Len(sp) + Len(p)
        /\ \A i \in 1..Len(sp) + Len(p) : (sp \o p)[i] = IF i <= Len(sp) THEN sp[i] ELSE p[i - Len(sp)]
    <3>1. sp \in Seq(Nat) /\ p \in Seq(Nat)
      BY <1>1, <2>1
    <3> QED BY ONLY <3>1, ConcatProperties
  <2>3. w = sp \o p
    BY DEF sp
  <2> HIDE DEF w
  <2>4. w \in Seq(Nat) /\ Len(w) = 1 + Len(p) /\ Len(p) \in Nat /\ Len(p) # 0
    BY <1>1, <2>1, <2>2, <2>3, LenProperties, EmptySeq
  <2>5. w[1] = Space /\ \A i \in 1..Len(p) : w[1 + i] = p[i]
    <3>1. 1 \in 1..Len(sp) + Len(p) /\ 1 <= Len(sp)
      BY <2>1, <2>4
    <3>2. \A i \in 1..Len(p) : 1 + i \in 1..Len(sp) + Len(p) /\ ~(1 + i <= Len(sp)) /\ (1 + i) - Len(sp) = i
      BY <2>1, <2>4
    <3>3. w[1] = Space
      BY <2>1, <2>2, <2>3, <3>1
    <3>4. ASSUME NEW i \in 1..Len(p) PROVE w[1 + i] = p[i]
      BY <2>2, <2>3, <3>2
    <3> QED BY <3>3, <3>4
  <2>6. \A i \in 1..Len(w) : i = 1 \/ (i - 1 \in 1..Len(p) /\ 1 + (i - 1) = i)
    BY <2>4
  <2>7. Without(w, Semicolon)
    <3>1. ASSUME NEW i \in 1..Len(w) PROVE w[i] # Semicolon
      BY <1>1, <2>1, <2>5, <2>6 DEF Without
    <3> QED BY <3>1 DEF Without
  <2>8. trim_copy(w) = p
    <3> DEFINE inner == {i \in DOMAIN w : w[i] \notin Blanks}
               first == CHOOSE i \in inner : \A j \in inner : i <= j
               last  == CHOOSE i \in inner : \A j \in inner : j <= i
    <3>1. DOMAIN w = 1..Len(w)
      BY <2>4, LenProperties
    <3>2. inner = 2..Len(w)
      <4>1. ASSUME NEW i \in 2..Len(w) PROVE i \in inner
        <5>1. i \in 1..Len(w) /\ i # 1
          BY <2>4
        <5>2. i - 1 \in 1..Len(p) /\ w[i] = p[i - 1]
          BY <2>5, <2>6, <5>1
        <5> QED BY <1>1, <3>1, <5>1, <5>2
      <4>2. ASSUME NEW i \in inner PROVE i \in 2..Len(w)
        <5>1. i \in 1..Len(w) /\ i # 1
          BY <2>1, <2>5, <3>1
        <5> QED BY <2>4, <5>1
      <4> QED BY <4>1, <4>2
    <3>3. first = 2 /\ last = Len(w) /\ inner # {}
      <4> HIDE DEF inner
      <4>1. 2 \in inner /\ Len(w) \in inner /\ (\A j \in inner : 2 <= j /\ j <= Len(w)) /\ inner \subseteq Int
        BY <2>4, <3>2
      <4>2. first \in inner /\ \A j \in inner : first <= j
        BY <4>1
      <4>3. last \in inner /\ \A j \in inner : j <= last
        BY <4>1
      <4> HIDE DEF first, last
      <4>4. first = 2
        BY <4>1, <4>2
      <4>5. last = Len(w) /\ Len(w) \in Int
        BY <4>1, <4>3
      <4> QED BY <4>1, <4>4, <4>5
    <3>4. trim_copy(w) = SubSeq(w, first, last)
      <4>1. inner # {}
        BY <3>3
      <4> QED BY <4>1 DEF trim_copy
    <3> HIDE DEF inner, first, last
    <3>5. SubSeq(w, 2, Len(w)) = p
      <4>1. Cut(w, sp, p) /\ Len(sp) + 1 = 2
        BY <2>1, <2>3 DEF Cut
      <4>2. SubSeq(w, Len(sp) + 1, Len(w)) = p
        BY <1>1, <2>1, <2>4, <4>1, CutPieces
      <4> QED BY <4>1, <4>2
    <3> QED BY <3>3, <3>4, <3>5
  <2> QED BY <2>4, <2>7, <2>8
<1> HIDE DEF w
<1>4. FieldWord(w, o)
  BY <1>3 DEF FieldWord, p
<1>5. \A j \in 1..Len(out) : out[j][1] # o[1]
  <2>1. DOMAIN out = 1..Len(out)
    BY LenProperties DEF FieldWords
  <2>2. o[1] = <<key>>
    OBVIOUS
  <2> QED BY <2>1, <2>2 DEF Has
<1> DEFINE ws2 == Append(ws, w)
           out2 == Append(out, o)
<1>6. FieldWords(ws2, out2)
  <2> HIDE DEF o
  <2> QED BY <1>4, <1>5, FieldWordsMore
<1>7. Joined(ws2, Semicolon) = Joined(ws, Semicolon) \o (<<Semicolon>> \o w)
  <2>1. ws \in Seq(Seq(Nat)) /\ ws # <<>> /\ Semicolon \in Nat
    BY DEF FieldWords, Semicolon
  <2> QED BY <1>3, <2>1, JoinedMore
<1>8. /\ Says(out2, k1, t)
      /\ \A k, u : Says(out, k, u) => Says(out2, k, u)
      /\ \A k : Has(out2, k) <=> Has(out, k) \/ k = k1
  <2>1. o = <<k1, t>>
    OBVIOUS
  <2> HIDE DEF o, k1
  <2> QED BY <1>2, <2>1, SaysMore
<1> HIDE DEF ws2, out2
<1>9. Added(ws2, out2, ws, out, key, v, t)
  BY <1>6, <1>7, <1>8 DEF Added, w, p
<1> QED BY <1>9

FilenameText(f) == IF f = <<>> THEN <<>> ELSE <<Semicolon, Space, Filename>> \o Quoted(f)
ExtendedText(e) == IF e = <<>> THEN <<>> ELSE <<Semicolon, Space, Extended, Equals>> \o e

LEMMA ExtraTexts ==
  ASSUME NEW f \in Seq(ValueChars), NEW e \in Seq(ValueChars)
  PROVE  /\ FilenameText(f) \in Seq(Nat) /\ ExtendedText(e) \in Seq(Nat)
         /\ f # <<>> => FilenameText(f) = <<Semicolon>> \o (<<Space>> \o FieldParam(Filename, InQuotes(f)))
         /\ e # <<>> => ExtendedText(e) = <<Semicolon>> \o (<<Space>> \o FieldParam(Extended, e))
<1>1. /\ Semicolon \in Nat /\ Space \in Nat /\ Filename \in Nat /\ Extended \in Nat /\ Equals \in Nat
      /\ f \in Seq(Nat) /\ e \in Seq(Nat)
  BY ValueCharsAre, SeqOfMore, ZenonT(30) DEF Semicolon, Space, Filename, Extended, Equals
<1>2. ASSUME f # <<>>
      PROVE  /\ FilenameText(f) \in Seq(Nat)
             /\ FilenameText(f) = <<Semicolon>> \o (<<Space>> \o FieldParam(Filename, InQuotes(f)))
  <2> DEFINE q == Quoted(f)
             a == <<Semicolon, Space, Filename>>
  <2>1. q \in Seq(Nat) /\ <<Filename>> \o q = FieldParam(Filename, InQuotes(f)) /\ a \in Seq(Nat)
    BY <1>1, QuotedParam
  <2> HIDE DEF q
  <2>2. a \o q = <<Semicolon>> \o (<<Space>> \o (<<Filename>> \o q))
    BY <1>1, <2>1, ConsThree
  <2> HIDE DEF a
  <2>3. a \o q \in Seq(Nat)
    BY <2>1, ConcatProperties
  <2> QED BY <1>2, <2>1, <2>2, <2>3 DEF FilenameText, a, q
<1>3. ASSUME e # <<>>
      PROVE  /\ ExtendedText(e) \in Seq(Nat)
             /\ ExtendedText(e) = <<Semicolon>> \o (<<Space>> \o FieldParam(Extended, e))
  <2> DEFINE a == <<Semicolon, Space>>
             b == <<Extended, Equals>>
             c == <<Semicolon, Space, Extended, Equals>>
  <2>1. a \in Seq(Nat) /\ b \in Seq(Nat) /\ c \in Seq(Nat)
    BY <1>1
  <2>2. c = a \o b
    <3> DEFINE d == a \o b
    <3>1. Len(a) = 2 /\ Len(b) = 2 /\ Len(c) = 4 /\ a[1] = Semicolon /\ a[2] = Space /\ b[1] = Extended
          /\ b[2] = Equals /\ c[1] = Semicolon /\ c[2] = Space /\ c[3] = Extended /\ c[4] = Equals
      OBVIOUS
    <3> HIDE DEF a, b, c
    <3>2. d \in Seq(Nat) /\ Len(d) = Len(a) + Len(b)
          /\ \A i \in 1..Len(a) + Len(b) : d[i] = IF i <= Len(a) THEN a[i] ELSE b[i - Len(a)]
      BY <2>1, ConcatProperties
    <3> HIDE DEF d
    <3>3. Len(d) = 4 /\ d[1] = Semicolon /\ d[2] = Space /\ d[3] = Extended /\ d[4] = Equals
      BY <3>1, <3>2
    <3>4. \A i \in 1..4 : i = 1 \/ i = 2 \/ i = 3 \/ i = 4
      OBVIOUS
    <3>5. c = d
      <4>1. c \in Seq(Nat) /\ d \in Seq(Nat) /\ Len(c) = 4 /\ Len(d) = 4 /\ \A i \in 1..4 : c[i] = d[i]
        BY <2>1, <3>1, <3>2, <3>3, <3>4
      <4> QED BY ONLY <4>1, SeqEqual
    <3> QED BY <3>5 DEF d
  <2> DEFINE p == b \o e
  <2>3. p = FieldParam(Extended, e)
    BY DEF FieldParam
  <2>4. a \o p = <<Semicolon>> \o (<<Space>> \o p) /\ p \in Seq(Nat)
    <3>1. p \in Seq(Nat)
      <4> HIDE DEF b
      <4> QED BY <1>1, <2>1, ConcatProperties
    <3> HIDE DEF p
    <3> QED BY <1>1, <3>1, ConsTwo, SMTT(30)
  <2> HIDE DEF a, b, c
  <2>5. (a \o b) \o e = a \o (b \o e)
    <3>1. a \in Seq(Nat) /\ b \in Seq(Nat) /\ e \in Seq(Nat)
      BY <1>1, <2>1
    <3> QED BY ONLY <3>1, ConcatAssociative
  <2>6. c \o e \in Seq(Nat)
    BY <1>1, <2>1, ConcatProperties
  <2>7. ExtendedText(e) = c \o e
    BY <1>3 DEF ExtendedText, c
  <2> QED BY <2>2, <2>3, <2>4, <2>5, <2>6, <2>7
<1>4. f = <<>> => FilenameText(f) \in Seq(Nat)
  BY DEF FilenameText
<1>5. e = <<>> => ExtendedText(e) \in Seq(Nat)
  BY DEF ExtendedText
<1> QED BY <1>2, <1>3, <1>4, <1>5

\* what parse_disposition_params() is to find
Described(ps, item) ==
  /\ Has(ps, <<Name>>) /\ Value(ps, <<Name>>) = item.name
  /\ Has(ps, <<Filename>>) <=> item.filename # <<>>
  /\ item.filename # <<>> => Value(ps, <<Filename>>) = item.filename
  /\ Has(ps, <<Extended>>) <=> item.extended # <<>>
  /\ item.extended # <<>> => Value(ps, <<Extended>>) = item.extended

\* The parameters that the client writes are those that are read.
LEMMA DispositionParsed ==
  ASSUME NEW item \in ItemType, PlainItem(item)
  PROVE  /\ DispositionLine(item) \in Seq(Nat) /\ DispositionLine(item)[1] = Dispose
         /\ DispositionLine(item) # <<>>
         /\ Described(parse_disposition_params(Field(DispositionLine(item))), item)
<1> DEFINE n == item.name
           f == item.filename
           e == item.extended
           N == FieldParam(Name, InQuotes(n))
           F == FilenameText(f)
           E == ExtendedText(e)
           kn == <<Name>>
           kf == <<Filename>>
           ke == <<Extended>>
           ws1 == <<N>>
           out1 == << <<kn, n>> >>
<1>1. n \in Texts /\ f \in Texts /\ e \in Texts
  BY DEF ItemType
<1>2. /\ n \in Seq(ValueChars) /\ f \in Seq(ValueChars) /\ e \in Seq(ValueChars)
      /\ \A i \in 1..Len(e) : e[i] # Quote
  BY <1>1, PlainChars DEF PlainItem
<1>3. n \in Seq(Nat) /\ f \in Seq(Nat) /\ e \in Seq(Nat)
  BY <1>1 DEF Texts
<1>4. kn # kf /\ kn # ke /\ kf # ke /\ kn \in Seq(Nat)
  <2>1. kn[1] = Name /\ kf[1] = Filename /\ ke[1] = Extended /\ kn \in Seq(Nat)
    BY DEF Name
  <2> HIDE DEF kn, kf, ke
  <2> QED BY <2>1 DEF Name, Filename, Extended
<1>5. trim_double_quotes_copy(e) = e
  <2>1. Len(e) \in Nat
    BY <1>3, LenProperties
  <2>2. ~(Len(e) >= 2 /\ e[1] = Quote)
    BY <1>2, <2>1
  <2> QED BY <2>2 DEF trim_double_quotes_copy
<1> HIDE DEF n, f, e
<1>6. /\ InQuotes(n) \in Seq(ValueChars) /\ InQuotes(n) # <<>> /\ trim_double_quotes_copy(InQuotes(n)) = n
      /\ InQuotes(f) \in Seq(ValueChars) /\ InQuotes(f) # <<>> /\ trim_double_quotes_copy(InQuotes(f)) = f
  BY <1>2, InQuotesRead
<1>7. FieldWords(ws1, out1)
  <2>1. Name \in ParamKeys
    BY DEF ParamKeys
  <2>2. N = FieldParam(Name, InQuotes(n))
    OBVIOUS
  <2> HIDE DEF N
  <2>3. N \in Seq(Nat) /\ N # <<>> /\ (\A i \in 1..Len(N) : N[i] \notin Blanks) /\ Without(N, Semicolon)
    BY <1>6, <2>1, <2>2, FieldParamRead
  <2>4. trim_copy(N) = N
    BY <2>3, TrimVisible
  <2> DEFINE o == <<kn, n>>
  <2>5. FieldWord(N, o)
    BY <1>6, <2>1, <2>2, <2>3, <2>4 DEF FieldWord
  <2> DEFINE P == Seq(Nat) \X Seq(Nat)
             V == Seq(Nat)
  <2>6. o \in P
    BY <1>3, <1>4
  <2>7. N \in V
    BY <2>3
  <2> HIDE DEF o, kn, P, V
  <2>8. ws1 \in Seq(V) /\ ws1 # <<>> /\ Len(ws1) = 1 /\ ws1[1] = N
    BY <2>7
  <2>9. out1 \in Seq(P) /\ Len(out1) = 1 /\ out1[1] = o
    BY <2>6 DEF o
  <2> HIDE DEF ws1, out1
  <2>10. \A j \in 1..1 : j = 1
    OBVIOUS
  <2> QED BY <2>5, <2>8, <2>9, <2>10 DEF FieldWords, P, V
<1>8. /\ Joined(ws1, Semicolon) = N /\ N \in Seq(Nat)
      /\ Says(out1, kn, n) /\ \A k : Has(out1, k) <=> k = kn
  <2>1. N \in Seq(Nat)
    <3>1. Name \in ParamKeys
      BY DEF ParamKeys
    <3> QED BY <1>6, <3>1, FieldParamRead
  <2> HIDE DEF N
  <2>2. Joined(ws1, Semicolon) = N
    BY <2>1, JoinedOne
  <2> DEFINE o == <<kn, n>>
  <2>3. out1 = <<o>> /\ DOMAIN out1 = {1} /\ o[1] = kn
    OBVIOUS
  <2> HIDE DEF o, out1
  <2>4. out1[1] = o
    BY <2>3
  <2> QED BY <2>1, <2>2, <2>3, <2>4 DEF Says, Has, o
<1> HIDE DEF ws1, out1, N
<1>9. /\ F \in Seq(Nat) /\ E \in Seq(Nat)
      /\ f # <<>> => F = <<Semicolon>> \o (<<Space>> \o FieldParam(Filename, InQuotes(f)))
      /\ e # <<>> => E = <<Semicolon>> \o (<<Space>> \o FieldParam(Extended, e))
  BY <1>2, ExtraTexts
<1>10. f = <<>> => F = <<>>
  BY DEF FilenameText
<1>11. e = <<>> => E = <<>>
  BY DEF ExtendedText
<1> HIDE DEF F, E
<1>12. PICK ws2, out2 :
         /\ FieldWords(ws2, out2) /\ Joined(ws2, Semicolon) = N \o F
         /\ Says(out2, kn, n) /\ (f # <<>> => Says(out2, kf, f))
         /\ \A k : Has(out2, k) <=> k = kn \/ (f # <<>> /\ k = kf)
  <2>1. CASE f = <<>>
    <3>1. N \o F = N
      BY <1>8, <1>10, <2>1, ConcatEmptySeq
    <3> QED BY <1>7, <1>8, <2>1, <3>1
  <2>2. CASE f # <<>>
    <3>1. ~Has(out1, <<Filename>>) /\ Filename \in ParamKeys
      BY <1>4, <1>8 DEF kf, ParamKeys
    <3> DEFINE q == InQuotes(f)
    <3>2. /\ FieldWords(ws1, out1) /\ Filename \in ParamKeys /\ q \in Seq(ValueChars) /\ q # <<>>
          /\ f \in Seq(Nat) /\ f = trim_double_quotes_copy(q) /\ ~Has(out1, <<Filename>>)
      BY <1>2, <1>3, <1>5, <1>6, <1>7, <2>2, <3>1
    <3> HIDE DEF q
    <3>3. PICK ws2, out2 : Added(ws2, out2, ws1, out1, Filename, q, f)
      BY ONLY <3>2, ParamAdded
    <3> QED BY <1>8, <1>9, <2>2, <3>3 DEF Added, kf, q
  <2> QED BY <2>1, <2>2
<1>13. PICK ws3, out3 :
         /\ FieldWords(ws3, out3) /\ Joined(ws3, Semicolon) = (N \o F) \o E
         /\ Says(out3, kn, n) /\ (f # <<>> => Says(out3, kf, f)) /\ (e # <<>> => Says(out3, ke, e))
         /\ \A k : Has(out3, k) <=> k = kn \/ (f # <<>> /\ k = kf) \/ (e # <<>> /\ k = ke)
  <2> DEFINE NF == N \o F
  <2>0. NF \in Seq(Nat)
    BY <1>8, <1>9, ConcatProperties
  <2> HIDE DEF NF
  <2>1. CASE e = <<>>
    <3>1. NF \o E = NF
      BY <1>11, <2>0, <2>1, ConcatEmptySeq
    <3> QED BY <1>12, <2>1, <3>1 DEF NF
  <2>2. CASE e # <<>>
    <3>1. ~Has(out2, <<Extended>>) /\ Extended \in ParamKeys
      BY <1>4, <1>12 DEF ke, ParamKeys
    <3> DEFINE q == e
    <3>2. /\ FieldWords(ws2, out2) /\ Extended \in ParamKeys /\ q \in Seq(ValueChars) /\ q # <<>>
          /\ e \in Seq(Nat) /\ e = trim_double_quotes_copy(q) /\ ~Has(out2, <<Extended>>)
      BY <1>2, <1>3, <1>5, <1>6, <1>7, <1>12, <2>2, <3>1
    <3> HIDE DEF q
    <3>3. PICK ws3, out3 : Added(ws3, out3, ws2, out2, Extended, q, e)
      BY ONLY <3>2, ParamAdded
    <3>4. /\ FieldWords(ws3, out3)
          /\ Joined(ws3, Semicolon)
               = Joined(ws2, Semicolon) \o (<<Semicolon>> \o (<<Space>> \o FieldParam(Extended, e)))
          /\ Says(out3, ke, e)
          /\ \A k, u : Says(out2, k, u) => Says(out3, k, u)
          /\ \A k : Has(out3, k) <=> Has(out2, k) \/ k = ke
      BY <3>3 DEF Added, q, ke
    <3> HIDE DEF ke, kn, kf
    <3>5. Joined(ws3, Semicolon) = (N \o F) \o E
      BY <1>9, <1>12, <2>2, <3>4
    <3>6. Says(out3, kn, n) /\ (f # <<>> => Says(out3, kf, f)) /\ (e # <<>> => Says(out3, ke, e))
      BY <1>12, <3>4
    <3>7. \A k : Has(out3, k) <=> k = kn \/ (f # <<>> /\ k = kf) \/ (e # <<>> /\ k = ke)
      BY <1>12, <2>2, <3>4
    <3> QED BY <3>4, <3>5, <3>6, <3>7
  <2> QED BY <2>1, <2>2
<1> DEFINE body0 == (N \o F) \o E
           d == <<Dispose>>
           line0 == DispositionLine(item)
<1>14. line0 = d \o body0 /\ body0 \in Seq(Nat) /\ d \in Seq(Nat)
  <2> DEFINE a == <<Dispose, Name>>
             q == Quoted(n)
  <2>1. d \in Seq(Nat) /\ Dispose \in Nat /\ Name \in Nat
    BY DEF Dispose, Name
  <2>2. q \in Seq(Nat) /\ <<Name>> \o q = N
    BY <1>3, <2>1, QuotedParam DEF N
  <2> HIDE DEF q
  <2>3. a \o q = d \o N
    <3>1. <<Dispose, Name>> \o q = <<Dispose>> \o (<<Name>> \o q)
      <4>1. Dispose \in Nat /\ Name \in Nat /\ q \in Seq(Nat)
        BY <2>1, <2>2
      <4> QED BY ONLY <4>1, ConsTwo
    <3> QED BY <2>2, <3>1
  <2>4. line0 = ((a \o q) \o F) \o E
    BY DEF DispositionLine, F, E, FilenameText, ExtendedText, n, f, e, q
  <2> HIDE DEF a, d, line0, body0, kn, kf, ke
  <2>5. (d \o N) \o F = d \o (N \o F)
    <3>1. d \in Seq(Nat) /\ N \in Seq(Nat) /\ F \in Seq(Nat)
      BY <1>8, <1>9, <2>1
    <3> QED BY ONLY <3>1, TextsAssociative
  <2> DEFINE NF == N \o F
  <2>6. NF \in Seq(Nat)
    BY <1>8, <1>9, ConcatProperties
  <2> HIDE DEF NF
  <2>7. (d \o NF) \o E = d \o (NF \o E)
    <3>1. d \in Seq(Nat) /\ NF \in Seq(Nat) /\ E \in Seq(Nat)
      BY <1>9, <2>1, <2>6
    <3> QED BY ONLY <3>1, TextsAssociative
  <2>8. NF \o E \in Seq(Nat)
    BY <1>9, <2>6, ConcatProperties
  <2> QED BY <2>1, <2>3, <2>4, <2>5, <2>7, <2>8 DEF NF, body0
<1> HIDE DEF body0, line0
<1>15. line0 \in Seq(Nat) /\ Cut(line0, d, body0)
  <2> HIDE DEF d
  <2> QED BY <1>14, ConcatProperties DEF Cut
<1>16. Len(d) = 1 /\ d[1] = Dispose
  OBVIOUS
<1> HIDE DEF d
<1>17. SubSeq(line0, Len(d) + 1, Len(line0)) = body0 /\ Len(d) <= Len(line0)
  BY <1>14, <1>15, CutPieces
<1>18. Field(line0) = body0
  BY <1>16, <1>17 DEF Field
<1>19. line0[1] = Dispose
  <2>1. 1 \in 1..Len(d)
    BY <1>16
  <2> QED BY <1>14, <1>15, <1>16, <2>1, CutFirst
<1>20. line0 # <<>>
  BY <1>16, <1>17
<1>21. parse_disposition_params(body0) = out3
  BY <1>13, DispositionRead DEF body0
<1>22. Described(out3, item)
  <2>1. Value(out3, kn) = n /\ (f # <<>> => Value(out3, kf) = f) /\ (e # <<>> => Value(out3, ke) = e)
    BY <1>13, SaysValue
  <2> QED BY <1>4, <1>13, <2>1 DEF Described, kn, kf, ke, n, f, e
<1> QED BY <1>15, <1>18, <1>19, <1>20, <1>21, <1>22 DEF line0

----------------------------------------------------------------------------
(* How the text of a form is put together *)

\* what a function makes of each element, one after the other
Images(f, s) == [k \in DOMAIN s |-> f[s[k]]]
Spelled(f, s) == FlattenSeq(Images(f, s))

ImagesAre(m, f, s, T) == m \in Seq(T) /\ Len(m) = Len(s) /\ \A k \in 1..Len(s) : m[k] = f[s[k]]

LEMMA ImagesType ==
  ASSUME NEW S, NEW T, NEW f \in [S -> T], NEW s \in Seq(S)
  PROVE  ImagesAre(Images(f, s), f, s, T)
<1> DEFINE m == Images(f, s)
<1>1. Len(s) \in Nat /\ DOMAIN s = 1..Len(s) /\ \A k \in 1..Len(s) : s[k] \in S
  BY LenProperties, ElementOfSeq
<1>2. m = [k \in 1..Len(s) |-> f[s[k]]]
  BY <1>1 DEF Images
<1>3. \A k \in 1..Len(s) : f[s[k]] \in T
  BY <1>1
<1> HIDE DEF m
<1>4. m \in Seq(T) /\ Len(m) = Len(s)
  BY <1>1, <1>2, <1>3
<1>5. \A k \in 1..Len(s) : m[k] = f[s[k]]
  BY <1>2
<1> QED BY <1>4, <1>5 DEF m, ImagesAre

LEMMA SpelledType ==
  ASSUME NEW S, NEW T, NEW f \in [S -> Seq(T)], NEW s \in Seq(S)
  PROVE  Spelled(f, s) \in Seq(T)
<1> DEFINE V == Seq(T)
           m == Images(f, s)
<1>1. f \in [S -> V]
  OBVIOUS
<1> HIDE DEF V
<1>2. m \in Seq(V)
  BY <1>1, ImagesType DEF ImagesAre
<1> HIDE DEF m
<1>3. FlattenSeq(m) \in Seq(T)
  BY <1>2, FlattenType DEF V
<1> QED BY <1>3 DEF Spelled, m

LEMMA SpelledNone ==
  ASSUME NEW f PROVE Spelled(f, <<>>) = <<>>
<1> DEFINE e == <<>>
<1>1. DOMAIN e = {}
  OBVIOUS
<1>2. Images(f, e) = <<>>
  BY <1>1 DEF Images
<1> QED BY <1>2, FlattenNone DEF Spelled

LEMMA SpelledConcat ==
  ASSUME NEW S, NEW T, NEW f \in [S -> Seq(T)], NEW p \in Seq(S), NEW q \in Seq(S)
  PROVE  Cut(Spelled(f, p \o q), Spelled(f, p), Spelled(f, q))
<1> DEFINE V == Seq(T)
           w == p \o q
           a == Images(f, p)
           b == Images(f, q)
           c == Images(f, w)
           d == a \o b
<1>1. f \in [S -> V]
  OBVIOUS
<1> HIDE DEF V
<1>2. /\ w \in Seq(S) /\ Len(w) = Len(p) + Len(q)
      /\ \A i \in 1..Len(p) + Len(q) : w[i] = IF i <= Len(p) THEN p[i] ELSE q[i - Len(p)]
  BY ConcatProperties
<1> HIDE DEF w
<1>3. a \in Seq(V) /\ Len(a) = Len(p) /\ \A k \in 1..Len(p) : a[k] = f[p[k]]
  <2>1. ImagesAre(a, f, p, V)
    BY <1>1, ImagesType
  <2> HIDE DEF a
  <2> QED BY <2>1 DEF ImagesAre
<1>4. b \in Seq(V) /\ Len(b) = Len(q) /\ \A k \in 1..Len(q) : b[k] = f[q[k]]
  <2>1. ImagesAre(b, f, q, V)
    BY <1>1, ImagesType
  <2> HIDE DEF b
  <2> QED BY <2>1 DEF ImagesAre
<1>5. c \in Seq(V) /\ Len(c) = Len(w) /\ \A k \in 1..Len(w) : c[k] = f[w[k]]
  <2>1. ImagesAre(c, f, w, V)
    BY <1>1, <1>2, ImagesType
  <2> HIDE DEF c
  <2> QED BY <2>1 DEF ImagesAre
<1> HIDE DEF a, b, c
<1>6. /\ d \in Seq(V) /\ Len(d) = Len(a) + Len(b)
      /\ \A i \in 1..Len(a) + Len(b) : d[i] = IF i <= Len(a) THEN a[i] ELSE b[i - Len(a)]
  BY <1>3, <1>4, ConcatProperties, ZenonT(30)
<1> HIDE DEF d
<1>7. Len(p) \in Nat /\ Len(q) \in Nat
  BY LenProperties
<1>8. ASSUME NEW i \in 1..Len(c) PROVE c[i] = d[i]
  <2>1. i \in 1..Len(w) /\ i \in 1..Len(p) + Len(q)
    BY <1>2, <1>5
  <2>2. CASE i <= Len(p)
    <3>1. i \in 1..Len(p)
      BY <1>7, <2>1, <2>2
    <3>2. c[i] = f[p[i]] /\ d[i] = a[i]
      BY <1>2, <1>3, <1>4, <1>5, <1>6, <2>1, <2>2
    <3> QED BY <1>3, <3>1, <3>2
  <2>3. CASE ~(i <= Len(p))
    <3>1. i - Len(p) \in 1..Len(q)
      BY <1>7, <2>1, <2>3
    <3>2. c[i] = f[q[i - Len(p)]] /\ d[i] = b[i - Len(p)]
      BY <1>2, <1>3, <1>4, <1>5, <1>6, <2>1, <2>3
    <3> QED BY <1>4, <3>1, <3>2
  <2> QED BY <2>2, <2>3
<1>9. c = d
  <2>1. c \in Seq(V) /\ d \in Seq(V) /\ Len(c) = Len(d) /\ \A i \in 1..Len(c) : c[i] = d[i]
    BY <1>2, <1>3, <1>4, <1>5, <1>6, <1>8
  <2> QED BY ONLY <2>1, SeqEqual
<1>10. FlattenSeq(a \o b) = FlattenSeq(a) \o FlattenSeq(b)
  <2>1. a \in Seq(Seq(T)) /\ b \in Seq(Seq(T))
    BY <1>3, <1>4 DEF V
  <2> QED BY ONLY <2>1, FlattenConcat
<1> QED BY <1>9, <1>10 DEF Cut, Spelled, a, b, c, d, w

LEMMA SpelledOne ==
  ASSUME NEW S, NEW T, NEW f \in [S -> Seq(T)], NEW x \in S
  PROVE  Spelled(f, <<x>>) = f[x]
<1> DEFINE V == Seq(T)
           s == <<x>>
           m == Images(f, s)
           e == <<>>
<1>1. f \in [S -> V] /\ s \in Seq(S) /\ Len(s) = 1 /\ s[1] = x /\ f[x] \in V
  OBVIOUS
<1> HIDE DEF V, s
<1>2. m \in Seq(V) /\ Len(m) = Len(s) /\ \A k \in 1..Len(s) : m[k] = f[s[k]]
  <2>1. ImagesAre(m, f, s, V)
    BY <1>1, ImagesType
  <2> HIDE DEF m
  <2> QED BY <2>1 DEF ImagesAre
<1> HIDE DEF m
<1>3. e \in Seq(V) /\ Len(e) = 0
  OBVIOUS
<1> DEFINE r == Append(e, f[x])
<1>4. r \in Seq(V) /\ Len(r) = 1 /\ r[1] = f[x]
  <2> HIDE DEF e
  <2>1. r \in Seq(V) /\ Len(r) = Len(e) + 1 /\ r[Len(e) + 1] = f[x]
    BY <1>1, <1>3, AppendProperties
  <2> QED BY <1>3, <2>1
<1> HIDE DEF r
<1>5. m = r
  <2>1. 1 \in 1..1 /\ \A i \in 1..1 : i = 1
    OBVIOUS
  <2>2. m \in Seq(V) /\ r \in Seq(V) /\ Len(m) = Len(r) /\ \A i \in 1..Len(m) : m[i] = r[i]
    BY <1>1, <1>2, <1>4, <2>1
  <2> QED BY ONLY <2>2, SeqEqual
<1>6. FlattenSeq(Append(e, f[x])) = FlattenSeq(e) \o f[x]
  <2> HIDE DEF e
  <2>1. e \in Seq(Seq(T)) /\ f[x] \in Seq(T)
    BY <1>1, <1>3 DEF V
  <2> QED BY ONLY <2>1, FlattenAppend
<1>7. FlattenSeq(e) = e
  BY FlattenNone
<1>8. e \o f[x] = f[x]
  BY <1>1, ConcatEmptySeq DEF V
<1> QED BY <1>5, <1>6, <1>7, <1>8 DEF Spelled, m, r, s

\* from an element on
LEMMA FromElement ==
  ASSUME NEW S, NEW s \in Seq(S), NEW j \in 1..Len(s)
  PROVE  /\ SubSeq(s, j, Len(s)) = <<s[j]>> \o SubSeq(s, j + 1, Len(s)) /\ s[j] \in S
         /\ SubSeq(s, j, Len(s)) \in Seq(S) /\ SubSeq(s, j + 1, Len(s)) \in Seq(S)
<1>1. Len(s) \in Nat /\ s[j] \in S
  BY LenProperties, ElementOfSeq
<1>2. Len(s) \in j..Len(s) /\ j \in 1..Len(s) + 1 /\ j + 1 \in 1..Len(s) + 1 /\ Len(s) \in Int /\ Len(s) <= Len(s)
  BY <1>1
<1>3. SubSeq(s, j, Len(s)) = <<s[j]>> \o SubSeq(s, j + 1, Len(s))
  BY <1>2, SubSeqRecursiveFirst
<1>4. SubSeq(s, j, Len(s)) \in Seq(S) /\ SubSeq(s, j + 1, Len(s)) \in Seq(S)
  BY <1>2, PartType
<1> QED BY <1>1, <1>3, <1>4

LEMMA SpelledFrom ==
  ASSUME NEW S, NEW T, NEW f \in [S -> Seq(T)], NEW s \in Seq(S), NEW j \in 1..Len(s)
  PROVE  /\ Cut(Spelled(f, SubSeq(s, j, Len(s))), f[s[j]], Spelled(f, SubSeq(s, j + 1, Len(s))))
         /\ f[s[j]] \in Seq(T) /\ Spelled(f, SubSeq(s, j + 1, Len(s))) \in Seq(T)
<1> DEFINE a == <<s[j]>>
           b == SubSeq(s, j + 1, Len(s))
           c == SubSeq(s, j, Len(s))
<1>1. c = a \o b /\ s[j] \in S /\ b \in Seq(S)
  BY FromElement
<1>2. a \in Seq(S)
  BY <1>1
<1>3. Spelled(f, a) = f[s[j]]
  BY <1>1, SpelledOne
<1> HIDE DEF a, b, c
<1>4. Cut(Spelled(f, a \o b), Spelled(f, a), Spelled(f, b))
  <2>1. f \in [S -> Seq(T)] /\ a \in Seq(S) /\ b \in Seq(S)
    BY <1>1, <1>2
  <2> QED BY ONLY <2>1, SpelledConcat
<1>5. Spelled(f, b) \in Seq(T)
  BY <1>1, SpelledType
<1> QED BY <1>1, <1>3, <1>4, <1>5 DEF Cut, b, c

----------------------------------------------------------------------------
(* The header lines of an item *)

\* the first text of three, with what comes after it
LEMMA CutOnto ==
  ASSUME NEW S, NEW a \in Seq(S), NEW b \in Seq(S), NEW y \in Seq(S), NEW x, NEW w, NEW t,
         Cut(x, a, b), Cut(w, x, y), Cut(t, b, y)
  PROVE  Cut(w, a, t)
<1>1. (a \o b) \o y = a \o (b \o y)
  BY ConcatAssociative
<1> QED BY <1>1 DEF Cut

EndLine      == [l \in Texts |-> l \o crlf_]
Ended(lines) == Spelled(EndLine, lines)

LEMMA Constants ==
  /\ crlf_ \in Texts /\ dash_ \in Texts /\ boundary \in Texts /\ Len(crlf_) = 2 /\ Len(dash_) = 2
  /\ crlf_[1] = Cr /\ crlf_[2] = Lf /\ dash_[1] = Dash /\ dash_[2] = Dash
  /\ crlf_ # <<>> /\ dash_ # <<>>
<1>1. boundary \in Seq(Nat)
  <2> DEFINE W == Alnum \cup {Dash, 95}
  <2>1. W \subseteq Nat /\ boundary \in Seq(W)
    BY FormsAssumption DEF Alnum, Digit, Dash
  <2> HIDE DEF W
  <2> QED BY <2>1, SeqOfMore
<1>2. crlf_ \in Seq(Nat) /\ dash_ \in Seq(Nat)
  BY DEF crlf_, dash_, Cr, Lf, Dash
<1>3. /\ Len(crlf_) = 2 /\ Len(dash_) = 2
      /\ crlf_[1] = Cr /\ crlf_[2] = Lf /\ dash_[1] = Dash /\ dash_[2] = Dash
  BY DEF crlf_, dash_
<1>4. crlf_ # <<>> /\ dash_ # <<>>
  BY <1>3
<1> QED BY <1>1, <1>2, <1>3, <1>4 DEF Texts

LEMMA EndLineType == EndLine \in [Texts -> Seq(Nat)] /\ \A l \in Texts : Cut(EndLine[l], l, crlf_)
<1> DEFINE V == Seq(Nat)
<1>1. crlf_ \in V
  BY Constants DEF Texts
<1>2. \A l \in V : l \o crlf_ \in V
  BY <1>1, ConcatProperties
<1> HIDE DEF V
<1>3. EndLine = [l \in V |-> l \o crlf_]
  BY DEF EndLine, Texts, V
<1>4. EndLine \in [V -> V] /\ \A l \in V : EndLine[l] = l \o crlf_
  BY <1>2, <1>3
<1> QED BY <1>4 DEF V, Texts, Cut

\* the pieces of the first line
HeadText == <<Dispose, Name>>

LEMMA ItemTexts ==
  ASSUME NEW item \in ItemType
  PROVE  /\ item.name \in Texts /\ item.filename \in Texts /\ item.extended \in Texts
         /\ item.type \in Texts /\ item.content \in Texts /\ item.more \in Seq(Texts)
         /\ HeadText \in Seq(Nat) /\ Quoted(item.name) \in Seq(Nat)
         /\ FilenameText(item.filename) \in Seq(Nat) /\ ExtendedText(item.extended) \in Seq(Nat)
         /\ <<TypeIs>> \o item.type \in Texts /\ DispositionLine(item) \in Texts
<1>1. /\ item.name \in Seq(Nat) /\ item.filename \in Seq(Nat) /\ item.extended \in Seq(Nat)
      /\ item.type \in Seq(Nat) /\ item.content \in Seq(Nat) /\ item.more \in Seq(Texts)
  BY DEF ItemType, Texts
<1>2. HeadText \in Seq(Nat) /\ Name \in Nat
  BY DEF HeadText, Dispose, Name
<1>3. Quoted(item.name) \in Seq(Nat) /\ Quoted(item.filename) \in Seq(Nat)
  BY <1>1, <1>2, QuotedParam
<1>4. FilenameText(item.filename) \in Seq(Nat)
  <2> DEFINE a == <<Semicolon, Space, Filename>>
             e == <<>>
  <2>1. a \in Seq(Nat) /\ e \in Seq(Nat)
    BY DEF Semicolon, Space, Filename
  <2>2. FilenameText(item.filename) = IF item.filename = e THEN e ELSE a \o Quoted(item.filename)
    BY DEF FilenameText
  <2> HIDE DEF a, e
  <2>3. a \o Quoted(item.filename) \in Seq(Nat)
    BY <1>3, <2>1, ConcatProperties
  <2> QED BY <2>1, <2>2, <2>3
<1>5. ExtendedText(item.extended) \in Seq(Nat)
  <2> DEFINE a == <<Semicolon, Space, Extended, Equals>>
             e == <<>>
  <2>1. a \in Seq(Nat) /\ e \in Seq(Nat)
    BY DEF Semicolon, Space, Extended, Equals
  <2>2. ExtendedText(item.extended) = IF item.extended = e THEN e ELSE a \o item.extended
    BY DEF ExtendedText
  <2> HIDE DEF a, e
  <2>3. a \o item.extended \in Seq(Nat)
    BY <1>1, <2>1, ConcatProperties
  <2> QED BY <2>1, <2>2, <2>3
<1>6. <<TypeIs>> \o item.type \in Seq(Nat)
  <2> DEFINE a == <<TypeIs>>
  <2>1. a \in Seq(Nat)
    BY DEF TypeIs
  <2> HIDE DEF a
  <2>2. a \o item.type \in Seq(Nat)
    BY <1>1, <2>1, ConcatProperties
  <2> QED BY <2>2 DEF a
<1>7. DispositionLine(item) \in Seq(Nat)
  <2> DEFINE p == HeadText \o Quoted(item.name)
             q == p \o FilenameText(item.filename)
             s == q \o ExtendedText(item.extended)
  <2>1. p \in Seq(Nat)
    BY <1>2, <1>3, ConcatProperties
  <2> HIDE DEF p
  <2>2. q \in Seq(Nat)
    BY <1>4, <2>1, ConcatProperties
  <2> HIDE DEF q
  <2>3. s \in Seq(Nat)
    BY <1>5, <2>2, ConcatProperties
  <2>4. DispositionLine(item) = s
    BY DEF DispositionLine, HeadText, FilenameText, ExtendedText, p, q
  <2> QED BY <2>3, <2>4
<1> QED BY <1>1, <1>2, <1>3, <1>4, <1>5, <1>6, <1>7 DEF Texts

\* what the type becomes
LEMMA TypeText ==
  ASSUME NEW item \in ItemType
  PROVE  /\ TypeLines(item) \in Seq(Texts)
         /\ Ended(TypeLines(item)) = IF item.type = <<>> THEN <<>> ELSE (<<TypeIs>> \o item.type) \o crlf_
         /\ Ended(TypeLines(item)) \in Seq(Nat)
<1> DEFINE t == <<TypeIs>> \o item.type
           e == <<>>
           u == <<t>>
<1>0. e \in Seq(Texts)
  OBVIOUS
<1>1. t \in Texts /\ e \in Seq(Texts)
  BY <1>0, ItemTexts
<1> HIDE DEF t
<1>2. TypeLines(item) = IF item.type = <<>> THEN <<>> ELSE u
  BY DEF TypeLines, t
<1>3. u \in Seq(Texts)
  BY <1>1
<1>4. Ended(u) = t \o crlf_
  <2>1. Spelled(EndLine, <<t>>) = EndLine[t]
    BY <1>1, EndLineType, SpelledOne
  <2> QED BY <1>1, <2>1, EndLineType DEF Cut, Ended
<1>5. Ended(e) = e
  BY SpelledNone DEF Ended
<1>6. TypeLines(item) \in Seq(Texts)
  BY <1>1, <1>2, <1>3
<1>7. Ended(TypeLines(item)) \in Seq(Nat)
  BY <1>6, EndLineType, SpelledType DEF Ended
<1> HIDE DEF u
<1> QED BY <1>2, <1>4, <1>5, <1>6, <1>7 DEF t

LEMMA LinesText ==
  ASSUME NEW item \in ItemType
  PROVE  /\ Lines(item) \in Seq(Texts) /\ Ended(Lines(item)) \in Seq(Nat)
         /\ Ended(item.more) \in Seq(Nat)
         /\ Ended(Lines(item))
              = ((DispositionLine(item) \o crlf_) \o Ended(TypeLines(item))) \o Ended(item.more)
<1> DEFINE d == DispositionLine(item)
           a == <<d>>
           b == TypeLines(item)
           c == item.more
           ab == a \o b
           abc == ab \o c
<1>1. d \in Texts /\ c \in Seq(Texts) /\ b \in Seq(Texts)
  BY ItemTexts, TypeText
<1> HIDE DEF d, b, c
<1>2. a \in Seq(Texts)
  BY <1>1
<1>3. Ended(a) = d \o crlf_
  <2>1. Spelled(EndLine, <<d>>) = EndLine[d]
    BY <1>1, EndLineType, SpelledOne
  <2> QED BY <1>1, <2>1, EndLineType DEF Cut, Ended
<1> HIDE DEF a
<1>4. ab \in Seq(Texts) /\ Cut(Ended(ab), Ended(a), Ended(b))
  <2>1. Cut(Spelled(EndLine, a \o b), Spelled(EndLine, a), Spelled(EndLine, b))
    BY <1>1, <1>2, EndLineType, SpelledConcat
  <2> QED BY <1>1, <1>2, <2>1, ConcatProperties DEF Ended
<1> HIDE DEF ab
<1>5. abc \in Seq(Texts) /\ Cut(Ended(abc), Ended(ab), Ended(c))
  <2>1. Cut(Spelled(EndLine, ab \o c), Spelled(EndLine, ab), Spelled(EndLine, c))
    BY <1>1, <1>4, EndLineType, SpelledConcat
  <2> QED BY <1>1, <1>4, <2>1, ConcatProperties DEF Ended
<1> HIDE DEF abc
<1>6. Ended(abc) \in Seq(Nat) /\ Ended(c) \in Seq(Nat)
  BY <1>1, <1>5, EndLineType, SpelledType DEF Ended
<1>7. Ended(abc) = ((d \o crlf_) \o Ended(b)) \o Ended(c)
  BY <1>3, <1>4, <1>5 DEF Cut
<1>8. Lines(item) = abc
  BY DEF Lines, a, b, c, d, ab, abc
<1> QED BY <1>5, <1>6, <1>7, <1>8 DEF b, c, d

\* an item begins with a boundary, its header lines and an empty line
Start       == dash_boundary_crlf_
Heading(item) == Ended(Lines(item)) \o crlf_

LEMMA StartText ==
  /\ Start \in Seq(Nat) /\ Start = (dash_ \o boundary) \o crlf_ /\ dash_ \o boundary \in Seq(Nat)
<1>1. dash_ \in Seq(Nat) /\ boundary \in Seq(Nat) /\ crlf_ \in Seq(Nat)
  BY Constants DEF Texts
<1> DEFINE b == dash_ \o boundary
<1>2. b \in Seq(Nat)
  BY <1>1, ConcatProperties
<1>3. Start = b \o crlf_
  BY DEF Start, dash_boundary_crlf_
<1> HIDE DEF b
<1>4. b \o crlf_ \in Seq(Nat)
  BY <1>1, <1>2, ConcatProperties
<1> QED BY <1>2, <1>3, <1>4 DEF b

LEMMA BeginText ==
  ASSUME NEW item \in ItemType
  PROVE  /\ item_begin(item) \in Seq(Nat) /\ Heading(item) \in Seq(Nat)
         /\ Cut(item_begin(item), Start, Heading(item))
<1> DEFINE N == Seq(Nat)
           v == Lines(item)
           m == Ended(v)
           s == Start
           c == crlf_
           sm == s \o m
           smc == sm \o c
           mc == m \o c
<1>1. v \in Seq(Texts) /\ m \in N /\ s \in N /\ c \in N
  BY LinesText, StartText, Constants DEF Texts
<1>2. FlattenSeq([k \in DOMAIN v |-> v[k] \o crlf_]) = m
  <2> HIDE DEF v
  <2>1. Len(v) \in Nat /\ DOMAIN v = 1..Len(v)
    BY <1>1, LenProperties
  <2>2. \A k \in DOMAIN v : v[k] \in Texts
    BY <1>1, <2>1, ElementOfSeq
  <2>3. \A k \in DOMAIN v : EndLine[v[k]] = v[k] \o crlf_
    BY <2>2 DEF EndLine
  <2>4. [k \in DOMAIN v |-> v[k] \o crlf_] = [k \in DOMAIN v |-> EndLine[v[k]]]
    BY <2>3
  <2> QED BY <2>4 DEF Ended, Spelled, Images
<1>3. item_begin(item) = smc
  <2> DEFINE f == FlattenSeq([k \in DOMAIN v |-> v[k] \o crlf_])
  <2>1. item_begin(item) = (s \o f) \o c
    BY DEF item_begin, Start, dash_boundary_crlf_
  <2> HIDE DEF f, m, s, c
  <2>2. f = m
    BY <1>2 DEF f
  <2> QED BY <2>1, <2>2
<1>4. Heading(item) = mc
  BY DEF Heading
<1> HIDE DEF v, m, s, c
<1>5. sm \in N /\ mc \in N
  BY <1>1, ConcatProperties
<1>6. smc \in N
  <2> HIDE DEF sm
  <2> QED BY <1>1, <1>5, ConcatProperties
<1>7. smc = s \o mc
  BY <1>1, ConcatAssociative
<1> QED BY <1>3, <1>4, <1>5, <1>6, <1>7 DEF Cut, s

\* the header lines after the first l
HeadersFrom(item, l) == Ended(SubSeq(Lines(item), l + 1, Len(Lines(item)))) \o crlf_

LEMMA HeadersText ==
  ASSUME NEW item \in ItemType, NEW l \in 0..Len(Lines(item))
  PROVE  /\ HeadersFrom(item, l) \in Seq(Nat)
         /\ l = 0 => HeadersFrom(item, l) = Heading(item)
         /\ l = Len(Lines(item)) => HeadersFrom(item, l) = crlf_
<1> DEFINE s == Lines(item)
           n == Len(s)
           r == SubSeq(s, l + 1, n)
           e == <<>>
<1>1. s \in Seq(Texts) /\ n \in Nat /\ crlf_ \in Seq(Nat)
  BY LinesText, LenProperties, Constants DEF Texts
<1> HIDE DEF s
<1>2. r \in Seq(Texts)
  <2>1. l + 1 \in 1..n + 1 /\ n \in Int /\ n <= n
    BY <1>1 DEF s
  <2> QED BY <1>1, <2>1, PartType
<1>3. Ended(r) \in Seq(Nat)
  BY <1>2, EndLineType, SpelledType DEF Ended
<1>4. l = 0 => r = s
  <2>1. SubSeq(s, 1, n) = s
    BY <1>1, SubSeqFull
  <2> QED BY <2>1
<1>5. l = n => r = e
  <2>1. n + 1 \in Int /\ n \in Int /\ n < n + 1
    BY <1>1
  <2>2. SubSeq(s, n + 1, n) = e
    BY <2>1, SubSeqEmpty
  <2> QED BY <2>2
<1>6. Ended(e) = e
  BY SpelledNone DEF Ended
<1>7. e \o crlf_ = crlf_
  BY <1>1, ConcatEmptySeq
<1> HIDE DEF r, e
<1>8. HeadersFrom(item, l) = Ended(r) \o crlf_
  BY DEF HeadersFrom, r, s, n
<1>9. Ended(r) \o crlf_ \in Seq(Nat)
  BY <1>1, <1>3, ConcatProperties
<1> QED BY <1>4, <1>5, <1>6, <1>7, <1>8, <1>9 DEF Heading, s, n

LEMMA HeadersNext ==
  ASSUME NEW item \in ItemType, NEW l \in 0..Len(Lines(item)) - 1
  PROVE  /\ Lines(item)[l + 1] \in Seq(Nat) /\ EndLine[Lines(item)[l + 1]] \in Seq(Nat)
         /\ Cut(EndLine[Lines(item)[l + 1]], Lines(item)[l + 1], crlf_)
         /\ Cut(HeadersFrom(item, l), EndLine[Lines(item)[l + 1]], HeadersFrom(item, l + 1))
<1> DEFINE s == Lines(item)
           n == Len(s)
           x == s[l + 1]
           r == SubSeq(s, l + 1, n)
           t == SubSeq(s, (l + 1) + 1, n)
           j == l + 1
<1>1. s \in Seq(Texts) /\ n \in Nat /\ crlf_ \in Seq(Nat)
  BY LinesText, LenProperties, Constants DEF Texts
<1> HIDE DEF s
<1>2. j \in 1..Len(s)
  BY <1>1 DEF s
<1>3. x \in Texts /\ t \in Seq(Texts)
  <2> HIDE DEF j
  <2>1. s[j] \in Texts /\ SubSeq(s, j + 1, Len(s)) \in Seq(Texts)
    BY <1>1, <1>2, FromElement
  <2> QED BY <2>1 DEF j
<1>4. /\ Cut(Spelled(EndLine, SubSeq(s, j, Len(s))), EndLine[s[j]], Spelled(EndLine, SubSeq(s, j + 1, Len(s))))
      /\ EndLine[s[j]] \in Seq(Nat) /\ Spelled(EndLine, SubSeq(s, j + 1, Len(s))) \in Seq(Nat)
  <2> HIDE DEF j
  <2> QED BY <1>1, <1>2, EndLineType, SpelledFrom
<1>5. Cut(Ended(r), EndLine[x], Ended(t)) /\ EndLine[x] \in Seq(Nat) /\ Ended(t) \in Seq(Nat)
  BY <1>4 DEF Ended
<1>6. Cut(EndLine[x], x, crlf_) /\ x \in Seq(Nat)
  BY <1>3, EndLineType DEF Texts
<1>7. HeadersFrom(item, l) = Ended(r) \o crlf_ /\ HeadersFrom(item, l + 1) = Ended(t) \o crlf_
  BY DEF HeadersFrom, r, t, s, n
<1> HIDE DEF r, t, x
<1>8. Cut(HeadersFrom(item, l), EndLine[x], HeadersFrom(item, l + 1))
  <2>1. Cut(HeadersFrom(item, l), Ended(r), crlf_) /\ Cut(HeadersFrom(item, l + 1), Ended(t), crlf_)
    BY <1>7 DEF Cut
  <2> QED BY <1>1, <1>5, <2>1, CutOnto
<1> QED BY <1>5, <1>6, <1>8 DEF x, s

----------------------------------------------------------------------------
(* The form from an item on *)

ItemWhole    == [item \in ItemType |-> item_begin(item) \o item.content \o item_end]
From(items, end, j)   == Spelled(ItemWhole, SubSeq(items, j, Len(items))) \o end
Closed(items, end, j)   == crlf_ \o From(items, end, j + 1)
Behind(items, end, j) == items[j].content \o Closed(items, end, j)
Opened(items, end, j) == Heading(items[j]) \o Behind(items, end, j)

LEMMA ItemWholeType ==
  /\ ItemWhole \in [ItemType -> Seq(Nat)]
  /\ \A item \in ItemType : ItemWhole[item] = (item_begin(item) \o item.content) \o crlf_
<1>1. ASSUME NEW item \in ItemType PROVE (item_begin(item) \o item.content) \o crlf_ \in Seq(Nat)
  <2> DEFINE a == item_begin(item) \o item.content
  <2>1. a \in Seq(Nat)
    BY ItemTexts, BeginText, ConcatProperties DEF Texts
  <2> HIDE DEF a
  <2>2. a \o crlf_ \in Seq(Nat)
    BY <2>1, Constants, ConcatProperties DEF Texts
  <2> QED BY <2>2 DEF a
<1>2. ItemWhole = [item \in ItemType |-> (item_begin(item) \o item.content) \o crlf_]
  BY DEF ItemWhole, item_end
<1> DEFINE g(item) == (item_begin(item) \o item.content) \o crlf_
<1>3. \A item \in ItemType : g(item) \in Seq(Nat)
  BY <1>1
<1>4. ItemWhole = [item \in ItemType |-> g(item)]
  BY <1>2
<1> HIDE DEF g
<1>5. ItemWhole \in [ItemType -> Seq(Nat)] /\ \A item \in ItemType : ItemWhole[item] = g(item)
  BY <1>3, <1>4
<1> QED BY <1>5 DEF g

LEMMA SerializeSpells ==
  ASSUME NEW items \in Seq(ItemType)
  PROVE  serialize(items) = Spelled(ItemWhole, items) /\ Spelled(ItemWhole, items) \in Seq(Nat)
<1>1. \A k \in DOMAIN items : items[k] \in ItemType
  BY ElementOfSeq, LenProperties
<1> DEFINE g(item) == (item_begin(item) \o item.content) \o item_end
<1>2. \A item \in ItemType : ItemWhole[item] = g(item)
  BY ItemWholeType DEF item_end
<1>3. serialize(items) = FlattenSeq([k \in DOMAIN items |-> g(items[k])])
  BY DEF serialize
<1> HIDE DEF g
<1>4. [k \in DOMAIN items |-> g(items[k])] = [k \in DOMAIN items |-> ItemWhole[items[k]]]
  BY <1>1, <1>2
<1>5. serialize(items) = Spelled(ItemWhole, items)
  BY <1>3, <1>4 DEF Spelled, Images
<1>6. Spelled(ItemWhole, items) \in Seq(Nat)
  BY ItemWholeType, SpelledType
<1> QED BY <1>5, <1>6

LEMMA FromType ==
  ASSUME NEW items \in Seq(ItemType), NEW end \in Seq(Nat), NEW j \in 1..Len(items) + 1
  PROVE  /\ From(items, end, j) \in Seq(Nat) /\ Len(items) \in Nat
         /\ j = Len(items) + 1 => From(items, end, j) = end
<1> DEFINE n == Len(items)
           r == SubSeq(items, j, n)
           e == <<>>
<1>1. n \in Nat
  BY LenProperties
<1>2. r \in Seq(ItemType)
  <2>1. n \in Int /\ n <= n
    BY <1>1
  <2> QED BY <2>1, PartType
<1>3. j = n + 1 => r = e
  <2>1. n + 1 \in Int /\ n \in Int /\ n < n + 1
    BY <1>1
  <2>2. SubSeq(items, n + 1, n) = e
    BY <2>1, SubSeqEmpty
  <2> QED BY <2>2
<1>4. Spelled(ItemWhole, e) = e
  BY SpelledNone
<1>5. e \o end = end
  BY ConcatEmptySeq
<1> HIDE DEF r, e
<1>6. Spelled(ItemWhole, r) \in Seq(Nat)
  BY <1>2, ItemWholeType, SpelledType
<1>7. From(items, end, j) = Spelled(ItemWhole, r) \o end
  BY DEF From, r
<1>8. From(items, end, j) \in Seq(Nat)
  BY <1>6, <1>7, ConcatProperties
<1> QED BY <1>1, <1>3, <1>4, <1>5, <1>7, <1>8

LEMMA FromItem ==
  ASSUME NEW items \in Seq(ItemType), NEW end \in Seq(Nat), NEW j \in 1..Len(items)
  PROVE  /\ items[j] \in ItemType /\ From(items, end, j + 1) \in Seq(Nat)
         /\ From(items, end, j) \in Seq(Nat)
         /\ Closed(items, end, j) \in Seq(Nat) /\ Behind(items, end, j) \in Seq(Nat)
         /\ Opened(items, end, j) \in Seq(Nat)
         /\ Cut(Closed(items, end, j), crlf_, From(items, end, j + 1))
         /\ Cut(Behind(items, end, j), items[j].content, Closed(items, end, j))
         /\ Cut(Opened(items, end, j), Heading(items[j]), Behind(items, end, j))
         /\ Cut(From(items, end, j), item_begin(items[j]), Behind(items, end, j))
         /\ Cut(From(items, end, j), Start, Opened(items, end, j))
         /\ Cut(From(items, end, j), ItemWhole[items[j]], From(items, end, j + 1))
         /\ ItemWhole[items[j]] \in Seq(Nat)
<1> DEFINE N == Seq(Nat)
           item == items[j]
           n == Len(items)
           f == From(items, end, j)
           g == From(items, end, j + 1)
           p == Closed(items, end, j)
           q == Behind(items, end, j)
           o == Opened(items, end, j)
           b == item_begin(item)
           h == Heading(item)
           c == item.content
           w == ItemWhole[item]
           s == Spelled(ItemWhole, SubSeq(items, j, n))
           t == Spelled(ItemWhole, SubSeq(items, j + 1, n))
           bc == b \o c
<1>1. item \in ItemType /\ n \in Nat /\ crlf_ \in N
  BY LenProperties, ElementOfSeq, Constants DEF Texts
<1>2. b \in N /\ h \in N /\ c \in N /\ Cut(b, Start, h) /\ Start \in N /\ w \in N /\ w = bc \o crlf_
  BY <1>1, BeginText, ItemTexts, StartText, ItemWholeType DEF Texts
<1>3. f \in N /\ g \in N
  <2>1. j \in 1..n + 1 /\ j + 1 \in 1..n + 1
    BY <1>1
  <2> QED BY <2>1, FromType
<1>4. Cut(s, w, t) /\ t \in N
  BY ItemWholeType, SpelledFrom
<1>5. Cut(f, s, end) /\ Cut(g, t, end)
  BY DEF From, Cut
<1>6. p = crlf_ \o g /\ q = c \o p /\ o = h \o q
  BY DEF Closed, Behind, Opened
<1> HIDE DEF item, f, g, p, q, o, b, h, c, w, s, t
<1>7. Cut(f, w, g)
  BY <1>2, <1>4, <1>5, CutOnto
<1>8. p \in N /\ Cut(p, crlf_, g)
  BY <1>1, <1>3, <1>6, ConcatProperties DEF Cut
<1>9. q \in N /\ Cut(q, c, p)
  BY <1>2, <1>6, <1>8, ConcatProperties DEF Cut
<1>10. o \in N /\ Cut(o, h, q)
  BY <1>2, <1>6, <1>9, ConcatProperties DEF Cut
<1>11. bc \in N /\ Cut(bc, b, c)
  BY <1>2, ConcatProperties DEF Cut
<1> HIDE DEF bc
<1>12. Cut(w, bc, crlf_)
  BY <1>2 DEF Cut
<1>13. Cut(f, bc, p)
  BY <1>1, <1>3, <1>7, <1>8, <1>11, <1>12, CutOnto
<1>14. Cut(f, b, q)
  BY <1>2, <1>8, <1>9, <1>11, <1>13, CutOnto
<1>15. Cut(f, Start, o)
  BY <1>2, <1>9, <1>10, <1>14, CutOnto
<1> QED BY <1>1, <1>2, <1>3, <1>7, <1>8, <1>9, <1>10, <1>14, <1>15 DEF item, f, g, p, q, o, b, h, c, w

----------------------------------------------------------------------------
(* Where a first boundary line can be found *)

Delimiter == dash_ \o boundary

LEMMA DelimiterChars ==
  /\ Delimiter \in Seq(Nat) /\ Len(Delimiter) \in Nat /\ Cut(Start, Delimiter, crlf_)
  /\ \A i \in 1..Len(Delimiter) : Delimiter[i] # Cr /\ Delimiter[i] # Lf
<1> DEFINE W == Alnum \cup {Dash, 95}
           d == Delimiter
<1>1. boundary \in Seq(W)
  BY FormsAssumption
<1>2. dash_ \in Seq(W)
  BY DEF dash_
<1>3. \A x \in W : x # Cr /\ x # Lf
  BY DEF Alnum, Digit, Dash, Cr, Lf
<1> HIDE DEF W
<1>4. d \in Seq(W)
  BY <1>1, <1>2, ConcatProperties DEF Delimiter
<1>5. \A i \in 1..Len(d) : d[i] # Cr /\ d[i] # Lf
  BY <1>3, <1>4, ElementOfSeq
<1>6. d \in Seq(Nat) /\ Cut(Start, d, crlf_) /\ Len(d) \in Nat
  BY StartText, LenProperties DEF Cut, Delimiter
<1> QED BY <1>5, <1>6

LEMMA StartChars ==
  /\ Start # <<>> /\ Len(Start) = Len(Delimiter) + 2
  /\ \A i \in 1..Len(Start) - 1 : Start[i] # Lf
<1> DEFINE d == Delimiter
           s == Start
           c == crlf_
<1>1. /\ d \in Seq(Nat) /\ c \in Seq(Nat) /\ Len(c) = 2 /\ c[1] = Cr /\ Len(d) \in Nat /\ Cr # Lf
      /\ s = d \o c /\ \A i \in 1..Len(d) : d[i] # Lf
  BY DelimiterChars, Constants DEF Texts, Cut, Cr, Lf
<1> HIDE DEF d, c, s
<1>2. d \o c \in Seq(Nat) /\ Len(d \o c) = Len(d) + Len(c)
      /\ \A i \in 1..Len(d) + Len(c) : (d \o c)[i] = IF i <= Len(d) THEN d[i] ELSE c[i - Len(d)]
  BY <1>1, ConcatProperties
<1>3. Len(s) = Len(d) + 2 /\ s # <<>>
  BY <1>1, <1>2
<1>4. ASSUME NEW i \in 1..Len(s) - 1 PROVE s[i] # Lf
  <2>1. i \in 1..Len(d) + Len(c)
    BY <1>1, <1>3
  <2>2. CASE i <= Len(d)
    <3>1. i \in 1..Len(d)
      BY <1>1, <1>3, <2>2
    <3> QED BY <1>1, <1>2, <2>1, <2>2, <3>1
  <2>3. CASE ~(i <= Len(d))
    <3>1. i - Len(d) = 1
      BY <1>1, <1>3, <2>3
    <3> QED BY <1>1, <1>2, <2>1, <2>3, <3>1
  <2> QED BY <2>2, <2>3
<1> QED BY <1>3, <1>4 DEF d, s

\* a text that has another one somewhere
LEMMA HoldsAt ==
  ASSUME NEW S, NEW x \in Seq(S), NEW y \in Seq(S), NEW part \in Seq(S), NEW z \in Seq(S), NEW text,
         Cut(text, x, y), Cut(y, part, z), part # <<>>
  PROVE  Holds(text, part)
<1>1. text \in Seq(S)
  BY CutType
<1>2. /\ SubSeq(text, Len(x) + 1, Len(text)) = y /\ Len(text) = Len(x) + Len(y)
      /\ Len(x) \in Nat /\ Len(y) \in Nat
  BY <1>1, CutPieces
<1>3. Len(y) = Len(part) + Len(z) /\ Len(part) \in Nat /\ Len(z) \in Nat
  BY CutPieces
<1>4. Len(part) # 0
  BY <1>3, EmptySeq
<1>5. IsPrefix(part, y)
  BY PrefixCut
<1> DEFINE p == Len(x) + 1
<1>6. p \in 1..Len(text) /\ DOMAIN text = 1..Len(text)
  BY <1>1, <1>2, <1>3, <1>4, LenProperties
<1> QED BY <1>2, <1>5, <1>6 DEF Holds

\* the first character and the rest
LEMMA HeadCut ==
  ASSUME NEW S, NEW w \in Seq(S), w # <<>>
  PROVE  \E h \in Seq(S) : Len(h) = 1 /\ Cut(w, h, Tail(w)) /\ Tail(w) \in Seq(S)
<1> DEFINE h == SubSeq(w, 1, 1)
           t == SubSeq(w, 1 + 1, Len(w))
<1>1. Len(w) \in Nat /\ Len(w) # 0
  BY LenProperties, EmptySeq
<1>2. 1 \in 0..Len(w)
  BY <1>1
<1>3. h \in Seq(S) /\ Len(h) = 1 /\ t \in Seq(S) /\ h \o t = w
  BY <1>2, CutInTwo
<1>4. Tail(w) = t
  BY TailIsSubSeq
<1> HIDE DEF h, t
<1> QED BY <1>3, <1>4 DEF Cut

LEMMA TailOf ==
  ASSUME NEW S, NEW h \in Seq(S), NEW t \in Seq(S), NEW w, Cut(w, h, t), Len(h) = 1
  PROVE  Tail(w) = t /\ w \in Seq(S) /\ w # <<>>
<1>1. w \in Seq(S)
  BY CutType
<1>2. SubSeq(w, Len(h) + 1, Len(w)) = t /\ Len(w) = Len(h) + Len(t) /\ Len(t) \in Nat
  BY <1>1, CutPieces
<1>3. w # <<>>
  BY <1>2
<1>4. Tail(w) = SubSeq(w, 2, Len(w))
  BY <1>1, <1>3, TailIsSubSeq
<1> QED BY <1>1, <1>2, <1>3, <1>4

LEMMA TailCut ==
  ASSUME NEW S, NEW a \in Seq(S), NEW b \in Seq(S), NEW w, Cut(w, a, b), a # <<>>
  PROVE  /\ Cut(Tail(w), Tail(a), b) /\ Tail(a) \in Seq(S) /\ Tail(w) \in Seq(S)
<1>1. PICK h \in Seq(S) : Len(h) = 1 /\ Cut(a, h, Tail(a)) /\ Tail(a) \in Seq(S)
  BY HeadCut
<1> DEFINE t == Tail(a)
<1>2. t \in Seq(S) /\ Cut(a, h, t)
  BY <1>1
<1> HIDE DEF t
<1>3. PICK u \in Seq(S) : Cut(u, t, b) /\ Cut(w, h, u)
  BY <1>2, CutLeft
<1>4. Tail(w) = u
  BY <1>1, <1>3, TailOf
<1> QED BY <1>1, <1>3, <1>4 DEF t

\* a first boundary line that is found in the text of an item, but at its beginning, is
\* one that the item holds
LEMMA FoundInside ==
  ASSUME NEW item \in ItemType, NEW x \in Seq(Nat), NEW t \in Seq(Nat), NEW v \in Seq(Nat),
         x # <<>>, Cut(t, x, Start), Cut(ItemWhole[item], t, v)
  PROVE  LooksLikeStart(item)
<1> DEFINE N == Seq(Nat)
           b == item_begin(item)
           c == item.content
           bc == b \o c
           w == ItemWhole[item]
           tb == Tail(b)
           tbc == tb \o c
           e == crlf_
<1>1. b \in N /\ c \in N /\ e \in N /\ w \in N /\ w = bc \o e
  BY ItemTexts, BeginText, Constants, ItemWholeType DEF Texts
<1>2. b # <<>>
  <2>1. Cut(b, Start, Heading(item)) /\ Heading(item) \in N /\ Start \in N /\ Start # <<>>
    BY BeginText, StartText, StartChars
  <2>2. Len(Start) <= Len(b) /\ Len(Start) \in Nat
    BY <1>1, <2>1, CutPieces
  <2>3. Len(Start) # 0
    BY <2>1, EmptySeq
  <2>4. Len(b) # 0
    BY <2>2, <2>3
  <2> QED BY <1>1, <2>4, EmptySeq
<1> DEFINE text == Tail(b) \o c \o item_end
<1>3. Holds(text, dash_boundary_crlf_) => LooksLikeStart(item)
  BY DEF LooksLikeStart
<1>4. text = tbc \o e
  BY DEF item_end
<1> HIDE DEF b, c, e, w, text
<1>5. bc \in N /\ Cut(bc, b, c) /\ Cut(w, bc, e)
  BY <1>1, ConcatProperties DEF Cut
<1> HIDE DEF bc
<1>6. Cut(Tail(bc), Tail(b), c) /\ Tail(b) \in N /\ Tail(bc) \in N
  BY <1>1, <1>2, <1>5, TailCut
<1>7. bc # <<>>
  <2>1. Len(bc) = Len(b) + Len(c) /\ Len(b) \in Nat /\ Len(c) \in Nat
    BY <1>1, <1>5, CutPieces
  <2>2. Len(b) # 0
    BY <1>1, <1>2, EmptySeq
  <2>3. Len(bc) # 0
    BY <2>1, <2>2
  <2> QED BY <1>5, <2>3, EmptySeq
<1>8. Cut(Tail(w), Tail(bc), e) /\ Tail(w) \in N
  BY <1>1, <1>5, <1>7, TailCut
<1>9. Tail(w) = text
  BY <1>4, <1>6, <1>8 DEF Cut
<1>10. Start \in N /\ Start # <<>>
  BY StartText, StartChars
<1>11. Cut(Tail(t), Tail(x), Start) /\ Tail(x) \in N /\ Tail(t) \in N
  BY <1>10, TailCut
<1>12. t # <<>>
  <2>1. Len(t) = Len(x) + Len(Start) /\ Len(x) \in Nat /\ Len(Start) \in Nat
    BY <1>10, CutPieces
  <2>2. Len(x) # 0
    BY EmptySeq
  <2>3. Len(t) # 0
    BY <2>1, <2>2
  <2> QED BY <2>3, EmptySeq
<1>13. Cut(Tail(w), Tail(t), v)
  <2>1. Cut(w, t, v)
    BY DEF w
  <2> QED BY <1>12, <2>1, TailCut
<1> DEFINE ux == Tail(x)
           ut == Tail(t)
           uw == Tail(w)
<1>14. ux \in N /\ ut \in N /\ uw \in N /\ Cut(ut, ux, Start) /\ Cut(uw, ut, v)
  BY <1>8, <1>11, <1>13
<1> HIDE DEF ux, ut, uw
<1>15. PICK y \in N : Cut(y, Start, v) /\ Cut(uw, ux, y)
  BY <1>10, <1>14, CutLeft
<1>16. Holds(uw, Start)
  BY <1>10, <1>14, <1>15, HoldsAt
<1>17. Holds(text, dash_boundary_crlf_)
  BY <1>9, <1>16 DEF uw, Start
<1> QED BY <1>3, <1>17

\* it does not begin in an item and end behind it either
LEMMA FoundAcross ==
  ASSUME NEW item \in ItemType, NEW x \in Seq(Nat), NEW t \in Seq(Nat), NEW z \in Seq(Nat),
         NEW g \in Seq(Nat), NEW f, Cut(t, x, Start), Cut(f, t, z), Cut(f, ItemWhole[item], g),
         Len(x) < Len(ItemWhole[item])
  PROVE  Len(t) <= Len(ItemWhole[item])
<1> DEFINE w == ItemWhole[item]
           bc == item_begin(item) \o item.content
           i == Len(w)
           k == Len(w) - Len(x)
<1>1. w \in Seq(Nat) /\ w = bc \o crlf_ /\ crlf_ \in Seq(Nat) /\ Len(crlf_) = 2 /\ crlf_[2] = Lf
  BY ItemWholeType, Constants DEF Texts
<1>2. bc \in Seq(Nat)
  BY ItemTexts, BeginText, ConcatProperties DEF Texts
<1>0. Start \in Seq(Nat)
  BY StartText
<1> HIDE DEF bc, w
<1>3. bc \o crlf_ \in Seq(Nat) /\ Len(bc \o crlf_) = Len(bc) + Len(crlf_) /\ Len(bc) \in Nat
      /\ \A j \in 1..Len(bc) + Len(crlf_) : (bc \o crlf_)[j] = IF j <= Len(bc) THEN bc[j] ELSE crlf_[j - Len(bc)]
  BY <1>1, <1>2, ConcatProperties, LenProperties, ZenonT(30)
<1>4. w[i] = Lf /\ i \in 1..Len(w) /\ i = Len(bc) + 2
  <2>1. i = Len(bc) + 2 /\ i \in 1..Len(bc) + Len(crlf_) /\ ~(i <= Len(bc)) /\ i - Len(bc) = 2
    BY <1>1, <1>3
  <2>2. (bc \o crlf_)[i] = crlf_[i - Len(bc)]
    BY <1>3, <2>1
  <2>3. i \in 1..Len(w)
    BY <2>1, <1>1
  <2> QED BY <1>1, <2>1, <2>2, <2>3
<1>5. f[i] = Lf
  <2>1. Cut(f, w, g)
    BY DEF w
  <2> DEFINE l == i
  <2>2. l \in 1..Len(w) /\ w[l] = Lf
    BY <1>4
  <2> HIDE DEF l
  <2>3. f[l] = w[l]
    <3>1. w \in Seq(Nat) /\ g \in Seq(Nat) /\ Cut(f, w, g) /\ l \in 1..Len(w)
      BY <1>1, <2>1, <2>2
    <3> QED BY ONLY <3>1, CutFirst
  <2>4. f[l] = Lf
    BY <2>2, <2>3
  <2> QED BY <2>4 DEF l
<1>6. /\ Len(t) = Len(x) + Len(Start) /\ Len(x) \in Nat /\ Len(Start) \in Nat
      /\ \A j \in 1..Len(x) + Len(Start) : (x \o Start)[j] = IF j <= Len(x) THEN x[j] ELSE Start[j - Len(x)]
  BY <1>0, ConcatProperties, LenProperties DEF Cut
<1> SUFFICES ASSUME ~(Len(t) <= Len(w)) PROVE FALSE
  BY DEF w
<1>7. i \in 1..Len(x) + Len(Start) /\ i \in 1..Len(t) /\ ~(i <= Len(x)) /\ k \in 1..Len(Start) - 1 /\ i - Len(x) = k
  <2>1. Len(x) < Len(w)
    BY DEF w
  <2> QED BY <1>3, <1>4, <1>6, <2>1
<1>8. t[i] = Start[k]
  <2>1. t = x \o Start
    BY DEF Cut
  <2> QED BY <1>6, <1>7, <2>1
<1>9. f[i] = t[i]
  BY <1>7, CutFirst
<1> QED BY <1>5, <1>7, <1>8, <1>9, StartChars

\* A first boundary line is found before an item, or after the last one, unless an item
\* has a line that looks like it.
LEMMA StartFound ==
  ASSUME NEW items \in Seq(ItemType), NEW end \in Seq(Nat),
         \A k \in DOMAIN items : ~LooksLikeStart(items[k]),
         NEW x \in Seq(Nat), NEW y \in Seq(Nat), NEW z \in Seq(Nat),
         Cut(From(items, end, 1), x, y), Cut(y, Start, z)
  PROVE  \/ \E j \in 1..Len(items) : y = From(items, end, j)
         \/ \E u \in Seq(Nat) : Cut(end, u, y)
<1> DEFINE N == Seq(Nat)
           n == Len(items)
           P(j) == \A s \in N : Cut(From(items, end, j), s, y) =>
                     \/ \E i \in 1..Len(items) : y = From(items, end, i)
                     \/ \E u \in N : Cut(end, u, y)
           T == {j \in 1..n + 1 : P(j)}
<1>1. n \in Nat /\ 1 \in Int /\ n + 1 \in Int /\ DOMAIN items = 1..n
  BY LenProperties
<1>2. ASSUME NEW j \in 1..n + 1, \A i \in j + 1..n + 1 : i \in T PROVE j \in T
  <2> SUFFICES ASSUME NEW s \in N, Cut(From(items, end, j), s, y)
               PROVE  \/ \E i \in 1..Len(items) : y = From(items, end, i)
                      \/ \E u \in N : Cut(end, u, y)
    OBVIOUS
  <2>1. CASE j = n + 1
    BY <2>1, FromType
  <2>2. CASE j # n + 1
    <3>1. j \in 1..n /\ j + 1 \in j + 1..n + 1
      BY <1>1, <2>2
    <3> DEFINE f == From(items, end, j)
               g == From(items, end, j + 1)
               w == ItemWhole[items[j]]
               e == <<>>
    <3>2. items[j] \in ItemType /\ f \in N /\ g \in N /\ w \in N /\ Cut(f, w, g)
      BY <3>1, FromItem
    <3>3. P(j + 1)
      BY <1>2, <3>1
    <3>4. CASE s = <<>>
      <4>1. f = y
        BY <3>4, ConcatEmptySeq DEF Cut
      <4> QED BY <3>1, <4>1
    <3>5. CASE s # <<>>
      <4>1. CASE Len(w) <= Len(s)
        <5> HIDE DEF f, g, w
        <5>0. Cut(f, s, y)
          BY DEF f
        <5>1. \E r \in N : Cut(s, w, r) /\ Cut(g, r, y)
          BY <3>2, <4>1, <5>0, FrontCut
        <5>2. PICK r \in N : Cut(g, r, y)
          BY <5>1
        <5> QED BY <3>3, <5>2 DEF g
      <4>2. CASE ~(Len(w) <= Len(s))
        <5>1. Start \in N /\ Len(s) \in Nat /\ Len(w) \in Nat /\ Len(s) < Len(w)
          BY <3>2, <4>2, StartText, LenProperties, SMTT(30)
        <5> HIDE DEF f
        <5>0. Cut(f, s, y)
          BY DEF f
        <5>2. PICK t \in N : Cut(t, s, Start) /\ Cut(f, t, z)
          BY <5>0, <5>1, CutRight
        <5>3. Len(t) <= Len(w)
          BY <3>2, <5>1, <5>2, FoundAcross
        <5>4. PICK v \in N : Cut(w, t, v)
          <6> HIDE DEF w, g
          <6>1. \E v \in N : Cut(w, t, v) /\ Cut(z, v, g)
            BY <3>2, <5>2, <5>3, FrontCut
          <6> QED BY <6>1
        <5>5. LooksLikeStart(items[j])
          BY <3>2, <3>5, <5>2, <5>4, FoundInside
        <5> QED BY <1>1, <3>1, <5>5
      <4> QED BY <4>1, <4>2
    <3> QED BY <3>4, <3>5
  <2> QED BY <2>1, <2>2
<1> HIDE DEF T
<1>3. \A j \in 1..n + 1 : j \in T
  BY <1>1, <1>2, Downwards
<1>4. P(1)
  <2>1. 1 \in 1..n + 1
    BY <1>1
  <2> QED BY <1>3, <2>1 DEF T
<1> QED BY <1>4

----------------------------------------------------------------------------
(* The header lines are read as they were written *)

\* which line comes after the first l
LEMMA LineAt ==
  ASSUME NEW item \in ItemType, NEW l \in 0..Len(Lines(item)) - 1
  PROVE  \/ l = 0 /\ Lines(item)[l + 1] = DispositionLine(item)
         \/ l = 1 /\ item.type # <<>> /\ Lines(item)[l + 1] = <<TypeIs>> \o item.type
         \/ /\ l >= 1 /\ (l = 1 => item.type = <<>>)
            /\ \E k \in DOMAIN item.more : Lines(item)[l + 1] = item.more[k]
<1> DEFINE d == DispositionLine(item)
           a == <<d>>
           t == <<TypeIs>> \o item.type
           b == TypeLines(item)
           c == item.more
           ab == a \o b
           s == Lines(item)
           i == l + 1
<1>1. d \in Texts /\ c \in Seq(Texts) /\ b \in Seq(Texts)
  BY ItemTexts, TypeText
<1>2. Len(b) = (IF item.type = <<>> THEN 0 ELSE 1) /\ (item.type # <<>> => b[1] = t)
  <2> HIDE DEF t
  <2>1. b = IF item.type = <<>> THEN <<>> ELSE <<t>>
    BY DEF TypeLines, t
  <2> QED BY <2>1
<1>3. s = ab \o c
  BY DEF Lines
<1> HIDE DEF d, b, c, t, s
<1>4. a \in Seq(Texts) /\ Len(a) = 1 /\ a[1] = d
  BY <1>1
<1> HIDE DEF a
<1>5. /\ ab \in Seq(Texts) /\ Len(ab) = Len(a) + Len(b) /\ Len(b) \in Nat
      /\ \A k \in 1..Len(a) + Len(b) : ab[k] = IF k <= Len(a) THEN a[k] ELSE b[k - Len(a)]
  BY <1>1, <1>4, ConcatProperties, LenProperties
<1> HIDE DEF ab
<1>6. /\ Len(ab \o c) = Len(ab) + Len(c) /\ Len(c) \in Nat /\ DOMAIN c = 1..Len(c)
      /\ \A k \in 1..Len(ab) + Len(c) : (ab \o c)[k] = IF k <= Len(ab) THEN ab[k] ELSE c[k - Len(ab)]
  <2>1. ab \in Seq(Texts) /\ c \in Seq(Texts)
    BY <1>1, <1>5
  <2>2. Len(ab \o c) = Len(ab) + Len(c)
    BY ONLY <2>1, ConcatProperties
  <2>3. \A k \in 1..Len(ab) + Len(c) : (ab \o c)[k] = IF k <= Len(ab) THEN ab[k] ELSE c[k - Len(ab)]
    BY ONLY <2>1, ConcatProperties
  <2>4. Len(c) \in Nat /\ DOMAIN c = 1..Len(c)
    BY <2>1, LenProperties
  <2> QED BY <2>2, <2>3, <2>4
<1>7. l \in Nat /\ i \in 1..Len(ab) + Len(c) /\ s[i] = IF i <= Len(ab) THEN ab[i] ELSE c[i - Len(ab)]
  <2>1. l \in 0..Len(s) - 1
    BY DEF s
  <2>2. i \in 1..Len(ab) + Len(c)
    BY <1>3, <1>4, <1>5, <1>6, <2>1
  <2> QED BY <1>3, <1>6, <2>1, <2>2
<1>8. CASE l = 0
  <2>1. i <= Len(ab) /\ i <= Len(a) /\ i = 1 /\ i \in 1..Len(a) + Len(b)
    BY <1>4, <1>5, <1>8
  <2>2. s[i] = d
    BY <1>4, <1>5, <1>7, <2>1
  <2> QED BY <1>8, <2>2 DEF s, d
<1>9. CASE l = 1 /\ item.type # <<>>
  <2>1. i <= Len(ab) /\ ~(i <= Len(a)) /\ i - Len(a) = 1 /\ i \in 1..Len(a) + Len(b)
    BY <1>2, <1>4, <1>5, <1>9
  <2>2. s[i] = t
    BY <1>2, <1>5, <1>7, <1>9, <2>1
  <2> QED BY <1>9, <2>2 DEF s, t
<1>10. CASE l # 0 /\ ~(l = 1 /\ item.type # <<>>)
  <2>1. ~(i <= Len(ab)) /\ i - Len(ab) \in 1..Len(c) /\ l >= 1
    BY <1>2, <1>4, <1>5, <1>6, <1>7, <1>10
  <2>2. s[i] = c[i - Len(ab)]
    BY <1>7, <2>1
  <2>3. i - Len(ab) \in DOMAIN c
    BY <1>6, <2>1
  <2>4. \E k \in DOMAIN c : s[i] = c[k]
    BY <2>2, <2>3
  <2> QED BY <1>10, <2>1, <2>4 DEF s, c
<1> QED BY <1>8, <1>9, <1>10

\* the characters of the first two lines
LEMMA LineChars ==
  ASSUME NEW item \in ItemType, PlainItem(item)
  PROVE  DispositionLine(item) \in Seq(HeadChars) /\ <<TypeIs>> \o item.type \in Seq(HeadChars)
<1> DEFINE H == HeadChars
           n == item.name
           f == item.filename
           e == item.extended
           t == item.type
           a == HeadText
           af == <<Semicolon, Space, Filename>>
           ae == <<Semicolon, Space, Extended, Equals>>
           at == <<TypeIs>>
           eq == <<Equals, Quote>>
           q == <<Quote>>
           o == <<>>
<1>1. n \in Texts /\ f \in Texts /\ e \in Texts /\ t \in Texts
  BY ItemTexts
<1>2. PlainField(n) /\ PlainField(f) /\ PlainField(e) /\ PlainField(t)
  BY DEF PlainItem
<1>3. n \in Seq(Visible) /\ f \in Seq(Visible) /\ e \in Seq(Visible) /\ t \in Seq(Visible)
  <2> HIDE DEF n, f, e, t
  <2> QED BY <1>1, <1>2, PlainChars
<1>4. Visible \subseteq H
  BY DEF HeadChars
<1>5. n \in Seq(H) /\ f \in Seq(H) /\ e \in Seq(H) /\ t \in Seq(H)
  <2> HIDE DEF n, f, e, t, H
  <2> QED BY <1>3, <1>4, SeqOfMore
<1>6. /\ Dispose \in H /\ Name \in H /\ Semicolon \in H /\ Space \in H /\ Filename \in H /\ Extended \in H
      /\ Equals \in H /\ TypeIs \in H /\ Quote \in H
  BY DEF HeadChars, Visible, Blanks, Dispose, Name, Semicolon, Space, Filename, Extended, Equals, TypeIs, Quote
<1>7. a \in Seq(H) /\ af \in Seq(H) /\ ae \in Seq(H) /\ at \in Seq(H) /\ eq \in Seq(H) /\ q \in Seq(H) /\ o \in Seq(H)
  <2> HIDE DEF H
  <2> QED BY <1>6 DEF HeadText
<1> DEFINE fx == IF f = o THEN o ELSE af \o Quoted(f)
           ex == IF e = o THEN o ELSE ae \o e
<1>8. DispositionLine(item) = ((a \o Quoted(n)) \o fx) \o ex
  BY DEF DispositionLine, HeadText
<1>9. Quoted(n) = (eq \o n) \o q /\ Quoted(f) = (eq \o f) \o q
  BY DEF Quoted
<1> HIDE DEF H, n, f, e, t, a, af, ae, at, eq, q, o
<1>10. Quoted(n) \in Seq(H) /\ Quoted(f) \in Seq(H)
  <2>1. eq \o n \in Seq(H) /\ eq \o f \in Seq(H)
    BY <1>5, <1>7, ConcatProperties
  <2> QED BY <1>7, <1>9, <2>1, ConcatProperties
<1>11. fx \in Seq(H) /\ ex \in Seq(H)
  <2>1. af \o Quoted(f) \in Seq(H) /\ ae \o e \in Seq(H)
    BY <1>5, <1>7, <1>10, ConcatProperties
  <2> QED BY <1>7, <2>1
<1> HIDE DEF fx, ex
<1> DEFINE p1 == a \o Quoted(n)
           p2 == p1 \o fx
<1>12. p1 \in Seq(H)
  BY <1>7, <1>10, ConcatProperties
<1> HIDE DEF p1
<1>13. p2 \in Seq(H)
  BY <1>11, <1>12, ConcatProperties
<1> HIDE DEF p2
<1>14. p2 \o ex \in Seq(H)
  BY <1>11, <1>13, ConcatProperties
<1>15. at \o t \in Seq(H)
  BY <1>5, <1>7, ConcatProperties
<1> QED BY <1>8, <1>14, <1>15 DEF p1, p2, at, t, H

\* what the parser makes of a header line
Takes(row) ==
  /\ parse_header(row)
  /\ row[1] = Dispose =>
       /\ Has(parse_disposition_params(Field(row)), <<Name>>)
       /\ Has(parse_disposition_params(Field(row)), <<Extended>>) =>
            Decodable(Value(parse_disposition_params(Field(row)), <<Extended>>))

DisposedBy(file, ps) == [file EXCEPT
  !.name = Value(ps, <<Name>>),
  !.filename = IF Has(ps, <<Extended>>)
               THEN decode_url(Field(Value(ps, <<Extended>>)), FALSE)
               ELSE IF Has(ps, <<Filename>>) THEN Value(ps, <<Filename>>) ELSE @]

ReadAs(file, row) ==
  CASE row[1] = TypeIs  -> [file EXCEPT !.type = trim_copy(Field(row))]
    [] row[1] = Dispose -> DisposedBy(file, parse_disposition_params(Field(row)))
    [] row[1] = OtherIs -> file

\* what the parser knows of an item after l of its lines
FileAfter(item, l) ==
  [name     |-> IF l = 0 THEN <<>> ELSE item.name,
   filename |-> IF l = 0 THEN <<>> ELSE Expected(item).filename,
   type     |-> IF l <= 1 THEN <<>> ELSE item.type,
   content  |-> <<>>]

LEMMA HeaderRead ==
  ASSUME NEW row \in Seq(HeadChars), row # <<>>, row[1] \in {Dispose, TypeIs, OtherIs}
  PROVE  parse_header(row) /\ row \in Seq(Nat) /\ Without(row, Cr)
<1>1. HeadChars \subseteq Nat /\ Cr \notin HeadChars
  BY DEF HeadChars, Visible, Blanks, Space, Tab, Cr
<1>2. \A i \in 1..Len(row) : row[i] \in HeadChars
  BY ElementOfSeq
<1>3. DOMAIN row = 1..Len(row)
  BY LenProperties
<1>4. row \in Seq(Nat)
  BY <1>1, SeqOfMore
<1> QED BY <1>1, <1>2, <1>3, <1>4 DEF parse_header, Without, HeadChars

LEMMA OtherRead ==
  ASSUME NEW row \in Seq(Nat), row # <<>>, parse_header(row)
  PROVE  Without(row, Cr)
<1>1. \A i \in 1..Len(row) : row[i] \in Visible \cup Blanks
  BY LenProperties DEF parse_header
<1>2. Cr \notin Visible \cup Blanks
  BY DEF Visible, Blanks, Space, Tab, Cr
<1> QED BY <1>1, <1>2 DEF Without

\* The first line tells the names of the item.
LEMMA FirstLineRead ==
  ASSUME NEW item \in ItemType, PlainItem(item), NEW row, row = DispositionLine(item)
  PROVE  /\ Takes(row) /\ row \in Seq(Nat) /\ row # <<>> /\ row[1] # Cr /\ Without(row, Cr)
         /\ ReadAs(FileAfter(item, 0), row) = FileAfter(item, 1)
<1> DEFINE ps == parse_disposition_params(Field(row))
           e == item.extended
           file == FileAfter(item, 0)
           o == <<>>
<1>1. row \in Seq(Nat) /\ row # <<>> /\ row[1] = Dispose /\ Described(ps, item)
  BY DispositionParsed
<1>2. row \in Seq(HeadChars)
  BY LineChars
<1>3. parse_header(row) /\ Without(row, Cr)
  BY <1>1, <1>2, HeaderRead
<1>4. e # o => Decodable(e)
  BY DEF PlainItem
<1>5. Has(ps, <<Name>>) /\ (Has(ps, <<Extended>>) => Decodable(Value(ps, <<Extended>>)))
  <2> HIDE DEF ps, e, o
  <2>1. Has(ps, <<Extended>>) => Value(ps, <<Extended>>) = e /\ e # o
    BY <1>1 DEF Described, e, o
  <2>2. Has(ps, <<Name>>)
    BY <1>1 DEF Described
  <2> QED BY <1>4, <2>1, <2>2
<1>6. Takes(row)
  BY <1>1, <1>3, <1>5 DEF Takes
<1>7. e # o => Field(e) = Tail(e)
  <2>1. e \in Seq(Nat)
    BY ItemTexts DEF Texts
  <2> HIDE DEF e
  <2> QED BY <2>1, TailIsSubSeq DEF Field
<1> DEFINE fn == IF Has(ps, <<Extended>>)
                 THEN decode_url(Field(Value(ps, <<Extended>>)), FALSE)
                 ELSE IF Has(ps, <<Filename>>) THEN Value(ps, <<Filename>>) ELSE file.filename
<1>8. fn = Expected(item).filename
  <2>1. file.filename = o
    BY DEF FileAfter
  <2>2. Expected(item).filename = IF e = o THEN item.filename ELSE decode_url(Tail(e), FALSE)
    BY DEF Expected
  <2>3. /\ Has(ps, <<Filename>>) <=> item.filename # o
        /\ item.filename # o => Value(ps, <<Filename>>) = item.filename
        /\ Has(ps, <<Extended>>) <=> e # o
        /\ e # o => Value(ps, <<Extended>>) = e
    BY <1>1 DEF Described
  <2> HIDE DEF ps, e, o, file
  <2>4. CASE e # o
    BY <1>7, <2>2, <2>3, <2>4
  <2>5. CASE e = o
    <3>1. Expected(item).filename = item.filename /\ ~Has(ps, <<Extended>>)
      BY <2>2, <2>3, <2>5
    <3>2. CASE item.filename = o
      BY <2>1, <2>3, <3>1, <3>2
    <3>3. CASE item.filename # o
      BY <2>3, <3>1, <3>3
    <3> QED BY <3>2, <3>3
  <2> QED BY <2>4, <2>5
<1>9. DisposedBy(file, ps) = [file EXCEPT !.name = Value(ps, <<Name>>), !.filename = fn]
  BY DEF DisposedBy
<1>10. Value(ps, <<Name>>) = item.name
  BY <1>1 DEF Described
<1> HIDE DEF ps, fn
<1>11. DisposedBy(file, ps) = FileAfter(item, 1)
  <2> DEFINE u == item.name
             v == Expected(item).filename
             g == [file EXCEPT !.name = u, !.filename = v]
  <2>1. file = [name |-> o, filename |-> o, type |-> o, content |-> o]
    BY DEF FileAfter
  <2>2. FileAfter(item, 1)
          = [name |-> u, filename |-> v, type |-> o, content |-> o]
    BY DEF FileAfter
  <2>3. DisposedBy(file, ps) = g
    BY <1>8, <1>9, <1>10
  <2> DEFINE T == {u, v, o}
  <2>5. u \in T /\ v \in T /\ o \in T
    OBVIOUS
  <2> HIDE DEF file, o, u, v, T
  <2>4. g = [name |-> u, filename |-> v, type |-> o, content |-> o]
    <3>1. g \in [name : T, filename : T, type : T, content : T]
      BY <2>1, <2>5
    <3>2. g.name = u /\ g.filename = v /\ g.type = o /\ g.content = o
      BY <2>1, <2>5
    <3> HIDE DEF g
    <3> QED BY <3>1, <3>2
  <2> QED BY <2>2, <2>3, <2>4
<1>12. ReadAs(file, row) = DisposedBy(file, ps)
  BY <1>1 DEF ReadAs, ps, Dispose, TypeIs, OtherIs
<1>13. row[1] # Cr
  BY <1>1 DEF Dispose, Cr
<1> QED BY <1>1, <1>3, <1>6, <1>11, <1>12, <1>13

\* The second line tells the type, if there is one.
LEMMA TypeLineRead ==
  ASSUME NEW item \in ItemType, PlainItem(item), item.type # <<>>, NEW row, row = <<TypeIs>> \o item.type
  PROVE  /\ Takes(row) /\ row \in Seq(Nat) /\ row # <<>> /\ row[1] # Cr /\ Without(row, Cr)
         /\ ReadAs(FileAfter(item, 1), row) = FileAfter(item, 2)
<1> DEFINE a == <<TypeIs>>
           t == item.type
           N == Seq(Nat)
<1>1. t \in N /\ row \in N /\ a \in N /\ Len(a) = 1 /\ a[1] = TypeIs
  BY ItemTexts DEF Texts, TypeIs
<1>2. Cut(row, a, t)
  BY DEF Cut
<1> HIDE DEF a
<1>3. SubSeq(row, Len(a) + 1, Len(row)) = t /\ Len(row) = Len(a) + Len(t) /\ Len(t) \in Nat
  BY <1>1, <1>2, CutPieces
<1>4. Field(row) = t /\ row # <<>>
  <2>1. Len(row) # 0
    BY <1>1, <1>3
  <2> QED BY <1>1, <1>3, <2>1 DEF Field
<1>5. row[1] = TypeIs
  <2>1. 1 \in 1..Len(a)
    BY <1>1
  <2> QED BY <1>1, <1>2, <2>1, CutFirst
<1>6. row \in Seq(HeadChars)
  BY LineChars
<1>7. parse_header(row) /\ Without(row, Cr)
  BY <1>4, <1>5, <1>6, HeaderRead
<1>8. trim_copy(t) = t
  <2>1. PlainField(t) /\ t \in Texts
    BY ItemTexts DEF PlainItem
  <2>2. t \in Seq(Visible)
    BY <2>1, PlainChars
  <2>3. \A i \in 1..Len(t) : t[i] \notin Blanks
    BY <2>2, ElementOfSeq, ValueCharsAre
  <2> QED BY <1>1, <2>3, TrimVisible
<1>9. Takes(row)
  BY <1>5, <1>7 DEF Takes, TypeIs, Dispose
<1>10. ReadAs(FileAfter(item, 1), row) = [FileAfter(item, 1) EXCEPT !.type = t]
  <2> DEFINE g == FileAfter(item, 1)
             u == trim_copy(Field(row))
  <2>1. u = t
    BY <1>4, <1>8
  <2> HIDE DEF g, u
  <2>2. ReadAs(g, row) = [g EXCEPT !.type = u]
    BY <1>5 DEF ReadAs, u, TypeIs, Dispose, OtherIs
  <2> QED BY <2>1, <2>2 DEF g
<1>11. [FileAfter(item, 1) EXCEPT !.type = t] = FileAfter(item, 2)
  BY DEF FileAfter
<1>12. row[1] # Cr
  BY <1>5 DEF TypeIs, Cr
<1> QED BY <1>1, <1>4, <1>7, <1>9, <1>10, <1>11, <1>12

\* Each line is taken, and tells of the item what it says.
LEMMA LineReadAs ==
  ASSUME NEW item \in ItemType, PlainItem(item), NEW l \in 0..Len(Lines(item)) - 1, NEW row,
         row = Lines(item)[l + 1]
  PROVE  /\ Takes(row) /\ row \in Seq(Nat) /\ row # <<>> /\ row[1] # Cr /\ Without(row, Cr)
         /\ ReadAs(FileAfter(item, l), row) = FileAfter(item, l + 1)
<1>1. CASE l = 0 /\ Lines(item)[l + 1] = DispositionLine(item)
  BY <1>1, FirstLineRead
<1>2. CASE l = 1 /\ item.type # <<>> /\ Lines(item)[l + 1] = <<TypeIs>> \o item.type
  <2>1. l + 1 = 2
    BY <1>2
  <2> QED BY <1>2, <2>1, TypeLineRead
<1>3. ASSUME l >= 1, l = 1 => item.type = <<>>, NEW k \in DOMAIN item.more, row = item.more[k]
      PROVE  /\ Takes(row) /\ row \in Seq(Nat) /\ row # <<>> /\ row[1] # Cr /\ Without(row, Cr)
             /\ ReadAs(FileAfter(item, l), row) = FileAfter(item, l + 1)
  <2>1. row \in Seq(Nat) /\ row # <<>> /\ parse_header(row) /\ row[1] = OtherIs
    <3>1. item.more \in Seq(Texts)
      BY ItemTexts
    <3>2. item.more[k] \in Texts
      BY <3>1, ElementOfSeq, LenProperties
    <3> QED BY <1>3, <3>2 DEF PlainItem, Texts
  <2>2. Without(row, Cr)
    BY <2>1, OtherRead
  <2>3. Takes(row) /\ row[1] # Cr
    BY <2>1 DEF Takes, OtherIs, Dispose, Cr
  <2>4. ReadAs(FileAfter(item, l), row) = FileAfter(item, l)
    BY <2>1 DEF ReadAs, OtherIs, Dispose, TypeIs
  <2>5. FileAfter(item, l) = FileAfter(item, l + 1)
    <3>1. l \in Nat /\ l # 0 /\ l + 1 # 0 /\ ~(l + 1 <= 1)
      BY <1>3
    <3>2. CASE l = 1
      BY <1>3, <3>1, <3>2 DEF FileAfter
    <3>3. CASE l # 1
      <4>1. ~(l <= 1)
        BY <3>1, <3>3
      <4> QED BY <3>1, <4>1 DEF FileAfter
    <3> QED BY <3>2, <3>3
  <2> QED BY <2>1, <2>2, <2>3, <2>4, <2>5
<1> QED BY <1>1, <1>2, <1>3, LineAt

----------------------------------------------------------------------------
(* The places in a form *)

\* the items from the one after k to item j, whole
Whole(items, k, j) == [i \in 1..j - k |-> Expected(items[i + k])]

\* before the first boundary line
WaitsAt(items, end, rest, fs) == fs = <<>> /\ \E x \in Texts : Cut(From(items, end, 1), x, rest)

\* behind the first line of item j
StartsAt(items, end, k, j, rest, fs) ==
  Cut(From(items, end, j), Start, rest) /\ fs = Whole(items, k, j - 1)

\* in the headers of item j
HeadsAt(items, end, k, j, rest, fs, file) ==
  /\ fs = Whole(items, k, j - 1)
  /\ \E l \in 0..Len(Lines(items[j])) :
       Cut(rest, HeadersFrom(items[j], l), Behind(items, end, j)) /\ file = FileAfter(items[j], l)

\* in the content of item j
FillsAt(items, end, k, j, rest, fs) ==
  \E c, t \in Texts :
    /\ Cut(items[j].content, c, t) /\ Cut(rest, t, Closed(items, end, j))
    /\ fs = Append(Whole(items, k, j - 1), [Expected(items[j]) EXCEPT !.content = c])

\* behind the boundary that closes item j
ClosesAt(items, end, k, j, rest, fs) ==
  fs = Whole(items, k, j) /\ Cut(From(items, end, j + 1), Delimiter, rest)

\* past the last boundary, or past what was taken for the first one
OverAt(end, st, rest) ==
  \/ st \in {1, 2} /\ \E y, u \in Texts : Cut(u, y, crlf_) /\ Cut(end, u, rest)
  \/ st = 4 /\ \E y \in Texts : Cut(end, y, rest)

----------------------------------------------------------------------------
(* The end of a form *)

Tailing(after) == crlf_ \o after

LEMMA EndText ==
  ASSUME NEW after \in Texts, NEW end, end = finish \o after
  PROVE  /\ end \in Seq(Nat) /\ Tailing(after) \in Seq(Nat) /\ Cut(Tailing(after), crlf_, after)
         /\ Delimiter \o dash_ \in Seq(Nat) /\ Cut(end, Delimiter \o dash_, Tailing(after))
         /\ \E t \in Seq(Nat) : Cut(t, dash_, Tailing(after)) /\ Cut(end, Delimiter, t)
<1> DEFINE N == Seq(Nat)
           d == Delimiter
           two == d \o dash_
           c == crlf_
           f == two \o c
           tail == c \o after
<1>1. d \in N /\ dash_ \in N /\ c \in N /\ after \in N
  BY DelimiterChars, Constants DEF Texts
<1>2. finish = f
  BY DEF finish, Delimiter
<1> HIDE DEF d, c
<1>3. two \in N /\ Cut(two, d, dash_)
  BY <1>1, ConcatProperties DEF Cut
<1> HIDE DEF two
<1>4. f \in N /\ Cut(f, two, c) /\ tail \in N /\ Cut(tail, c, after)
  BY <1>1, <1>3, ConcatProperties DEF Cut
<1>5. Cut(end, f, after)
  BY <1>2 DEF Cut
<1> HIDE DEF f, tail
<1>6. end \in N
  BY <1>1, <1>4, <1>5, CutType
<1>7. Cut(end, two, tail)
  BY <1>1, <1>3, <1>4, <1>5, CutOnto
<1>8. \E t \in N : Cut(t, dash_, tail) /\ Cut(end, d, t)
  BY <1>1, <1>3, <1>4, <1>7, CutLeft
<1> QED BY <1>3, <1>4, <1>6, <1>7, <1>8 DEF Tailing, two, tail, c, d

LEMMA NoCr ==
  /\ Delimiter \o dash_ \in Seq(Nat)
  /\ \A i \in 1..Len(Delimiter \o dash_) : (Delimiter \o dash_)[i] # Cr
<1> DEFINE W == Nat \ {Cr}
           d == Delimiter
           two == d \o dash_
<1>1. d \in Seq(W)
  <2>1. d \in Seq(Nat) /\ Len(d) \in Nat /\ \A i \in 1..Len(d) : d[i] # Cr
    BY DelimiterChars
  <2> HIDE DEF d
  <2>2. \A i \in 1..Len(d) : d[i] \in W
    BY <2>1, ElementOfSeq
  <2>3. d = [i \in 1..Len(d) |-> d[i]]
    BY <2>1, LenProperties
  <2> HIDE DEF W
  <2> QED BY <2>1, <2>2, <2>3
<1>2. dash_ \in Seq(W)
  BY DEF dash_, Dash, Cr
<1> HIDE DEF W, d
<1>3. two \in Seq(W)
  BY <1>1, <1>2, ConcatProperties
<1> HIDE DEF two
<1>4. \A i \in 1..Len(two) : two[i] \in W
  BY <1>3, ElementOfSeq
<1>5. two \in Seq(Nat)
  BY <1>3, SeqOfMore DEF W
<1> QED BY <1>4, <1>5 DEF W, two, d

\* a line that ends in what comes at the end of a form ends behind the last boundary
LEMMA EndCrlf ==
  ASSUME NEW after \in Texts, NEW end, end = finish \o after, NEW y \in Seq(Nat), NEW rest \in Seq(Nat),
         NEW u \in Seq(Nat), Cut(u, y, crlf_), Cut(end, u, rest)
  PROVE  \E z, v \in Seq(Nat) : Cut(v, z, crlf_) /\ Cut(Tailing(after), v, rest)
<1> DEFINE N == Seq(Nat)
           c == crlf_
           two == Delimiter \o dash_
           tail == Tailing(after)
<1>1. /\ c \in N /\ Len(c) = 2 /\ c[1] = Cr /\ two \in N /\ tail \in N /\ Cut(end, two, tail) /\ end \in N
      /\ \A i \in 1..Len(two) : two[i] # Cr
  BY Constants, EndText, NoCr DEF Texts
<1>2. Cut(u, y, c)
  OBVIOUS
<1> HIDE DEF c, two, tail
<1>3. PICK t \in N : Cut(t, c, rest) /\ Cut(end, y, t)
  BY <1>1, <1>2, CutLeft
<1>4. Len(y) \in Nat /\ Len(two) \in Nat
  BY <1>1, LenProperties
<1>5. Len(two) <= Len(y)
  <2> SUFFICES ASSUME ~(Len(two) <= Len(y)) PROVE FALSE
    OBVIOUS
  <2> DEFINE i == Len(y) + 1
  <2>1. i \in 1..Len(two) /\ i \in Nat
    BY <1>4
  <2>2. /\ Len(u) = Len(y) + Len(c)
        /\ \A k \in 1..Len(y) + Len(c) : (y \o c)[k] = IF k <= Len(y) THEN y[k] ELSE c[k - Len(y)]
    BY <1>1, <1>2, ConcatProperties, ZenonT(30) DEF Cut
  <2>3. i \in 1..Len(y) + Len(c) /\ i \in 1..Len(u) /\ ~(i <= Len(y)) /\ i - Len(y) = 1
    BY <1>1, <1>4, <2>2
  <2>4. u[i] = c[1]
    BY <1>2, <2>2, <2>3 DEF Cut
  <2> HIDE DEF i
  <2>5. end[i] = u[i]
    <3>1. u \in N /\ rest \in N /\ Cut(end, u, rest) /\ i \in 1..Len(u)
      BY <2>3
    <3> QED BY ONLY <3>1, CutFirst
  <2>6. end[i] = two[i]
    <3>1. two \in N /\ tail \in N /\ Cut(end, two, tail) /\ i \in 1..Len(two)
      BY <1>1, <2>1
    <3> QED BY ONLY <3>1, CutFirst
  <2> QED BY <1>1, <2>1, <2>4, <2>5, <2>6
<1>6. \E z \in N : Cut(y, two, z) /\ Cut(tail, z, t)
  BY <1>1, <1>3, <1>5, FrontCut
<1>7. PICK z \in N : Cut(tail, z, t)
  BY <1>6
<1>8. PICK v \in N : Cut(v, z, c) /\ Cut(tail, v, rest)
  BY <1>1, <1>3, <1>7, CutRight
<1> QED BY <1>7, <1>8 DEF c, tail

\* there is no empty line behind the last boundary
LEMMA NoHeadersOver ==
  ASSUME NEW after \in Texts, NEW end, end = finish \o after, NEW rest \in Seq(Nat), NEW r \in Seq(Nat),
         OverAt(end, 2, rest), Cut(rest, crlf_, r), ~Holds(crlf_ \o after, crlf_ \o crlf_)
  PROVE  FALSE
<1> DEFINE N == Seq(Nat)
           c == crlf_
           cc == c \o c
           tail == Tailing(after)
<1>1. PICK y \in N, u \in N : Cut(u, y, c) /\ Cut(end, u, rest)
  BY DEF OverAt, Texts
<1>2. \E z, v \in N : Cut(v, z, c) /\ Cut(tail, v, rest)
  BY <1>1, EndCrlf
<1>3. PICK z \in N, v \in N : Cut(v, z, c) /\ Cut(tail, v, rest)
  BY <1>2
<1>4. c \in N /\ c # <<>> /\ tail \in N /\ Len(c) = 2
  BY Constants, EndText DEF Texts
<1>5. Cut(rest, c, r) /\ tail = c \o after
  BY DEF Tailing
<1> HIDE DEF c, tail
<1>6. PICK t \in N : Cut(t, c, rest) /\ Cut(tail, z, t)
  BY <1>3, <1>4, CutLeft
<1>7. PICK s \in N : Cut(s, c, c) /\ Cut(t, s, r)
  BY <1>4, <1>5, <1>6, CutRight
<1>8. s # <<>>
  <2>1. Len(s) = Len(c) + Len(c)
    BY <1>4, <1>7, CutPieces
  <2> QED BY <1>4, <2>1
<1>9. Holds(tail, s)
  BY <1>3, <1>6, <1>7, <1>8, HoldsAt
<1>10. s = cc
  BY <1>7 DEF Cut
<1> QED BY <1>5, <1>9, <1>10 DEF c

\* nothing comes behind the last line, when no text does
LEMMA NothingOver ==
  ASSUME NEW after, after = <<>>, NEW end, end = finish \o after, NEW rest \in Seq(Nat), NEW st \in {1, 2},
         OverAt(end, st, rest)
  PROVE  rest = <<>>
<1> DEFINE N == Seq(Nat)
           c == crlf_
           tail == Tailing(after)
<1>0. after \in Texts
  BY DEF Texts
<1>1. PICK y \in N, u \in N : Cut(u, y, c) /\ Cut(end, u, rest)
  BY DEF OverAt, Texts
<1>2. \E z, v \in N : Cut(v, z, c) /\ Cut(tail, v, rest)
  BY <1>0, <1>1, EndCrlf
<1>3. PICK z \in N, v \in N : Cut(v, z, c) /\ Cut(tail, v, rest)
  BY <1>2
<1>4. c \in N /\ Len(c) = 2 /\ tail = c
  BY Constants, ConcatEmptySeq DEF Texts, Tailing
<1> HIDE DEF c, tail
<1>5. Len(c) = Len(v) + Len(rest) /\ Len(v) = Len(z) + Len(c) /\ Len(z) \in Nat /\ Len(rest) \in Nat
  BY <1>3, <1>4, CutPieces
<1> DEFINE lc == Len(c)
           lv == Len(v)
           lz == Len(z)
           lr == Len(rest)
<1>7. lc = lv + lr /\ lv = lz + lc /\ lz \in Nat /\ lr \in Nat /\ lc = 2
  BY <1>4, <1>5
<1> HIDE DEF lc, lv, lz, lr
<1>6. lr = 0
  BY <1>7
<1> QED BY <1>6, EmptySeq DEF lr

\* one line is too short for an empty one behind it
LEMMA NoEmptyLine == ~Holds(crlf_ \o <<>>, crlf_ \o crlf_)
<1> DEFINE c == crlf_
           e == <<>>
           cc == c \o c
<1>1. c \in Seq(Nat) /\ Len(c) = 2
  BY Constants DEF Texts
<1> HIDE DEF c
<1>2. c \o e = c
  BY <1>1, ConcatEmptySeq
<1>3. cc \in Seq(Nat) /\ Len(cc) = 4
  <2>1. cc \in Seq(Nat) /\ Len(cc) = Len(c) + Len(c)
    BY <1>1, ConcatProperties
  <2> QED BY <1>1, <2>1
<1> HIDE DEF cc
<1>4. ASSUME NEW p \in DOMAIN c, IsPrefix(cc, SubSeq(c, p, Len(c))) PROVE FALSE
  <2> DEFINE s == SubSeq(c, p, Len(c))
  <2>1. p \in 1..2 /\ DOMAIN c = 1..2
    BY <1>1, LenProperties
  <2>2. p \in 1..Len(c) + 1 /\ Len(c) \in Int /\ Len(c) <= Len(c) /\ p \in Int /\ \A i \in p..Len(c) : c[i] \in Nat
    <3>1. \A i \in 1..Len(c) : c[i] \in Nat
      BY <1>1, ElementOfSeq
    <3>2. \A i \in p..Len(c) : i \in 1..Len(c)
      BY <1>1, <2>1
    <3> QED BY <1>1, <2>1, <3>1, <3>2
  <2>3. s \in Seq(Nat) /\ Len(s) = IF p <= Len(c) THEN Len(c) - p + 1 ELSE 0
    BY <2>2, SubSeqProperties
  <2> HIDE DEF s
  <2>4. IsPrefix(cc, s)
    BY <1>4 DEF s
  <2>5. PICK z \in Seq(Nat) : Cut(s, cc, z)
    BY <1>3, <2>3, <2>4, PrefixCut
  <2>6. Len(cc) <= Len(s)
    BY <1>3, <2>3, <2>5, CutPieces
  <2> QED BY <1>1, <1>3, <2>1, <2>3, <2>6
<1>5. ~Holds(c, cc)
  BY <1>4 DEF Holds
<1> QED BY <1>2, <1>5 DEF c, cc, e

----------------------------------------------------------------------------
(* The items that are whole *)

LEMMA WholeNone == ASSUME NEW items, NEW k \in Nat PROVE Whole(items, k, k) = <<>>
<1>1. 1..k - k = {}
  OBVIOUS
<1> QED BY <1>1 DEF Whole

LEMMA WholeNext ==
  ASSUME NEW items \in Seq(ItemType), NEW k \in Nat, NEW j \in k + 1..Len(items)
  PROVE  /\ Whole(items, k, j) = Append(Whole(items, k, j - 1), Expected(items[j]))
         /\ Len(Whole(items, k, j - 1)) = j - 1 - k
         /\ \E S : Whole(items, k, j - 1) \in Seq(S) /\ Expected(items[j]) \in S
<1> DEFINE e(i) == Expected(items[i + k])
           m == j - 1 - k
           w == [i \in 1..m |-> e(i)]
           v == [i \in 1..m + 1 |-> e(i)]
           S == {e(i) : i \in 1..m + 1}
<1>1. m \in Nat /\ m + 1 = j - k /\ m = (j - 1) - k /\ m + 1 \in 1..m + 1 /\ m + 1 + k = j
  OBVIOUS
<1>2. w = Whole(items, k, j - 1) /\ v = Whole(items, k, j) /\ e(m + 1) = Expected(items[j])
  BY <1>1 DEF Whole
<1>3. \A i \in 1..m + 1 : e(i) \in S
  OBVIOUS
<1> HIDE DEF S, e, m
<1>4. w \in Seq(S) /\ Len(w) = m
  BY <1>1, <1>3
<1>5. v = Append(w, e(m + 1))
  <2>1. e(m + 1) \in S
    BY <1>1, <1>3
  <2>2. v \in Seq(S) /\ Len(v) = m + 1 /\ \A i \in 1..m + 1 : v[i] = e(i)
    BY <1>1, <1>3
  <2>3. /\ Append(w, e(m + 1)) \in Seq(S) /\ Len(Append(w, e(m + 1))) = m + 1
        /\ \A i \in 1..m : Append(w, e(m + 1))[i] = w[i]
        /\ Append(w, e(m + 1))[m + 1] = e(m + 1)
    BY <1>4, <2>1, <1>1, AppendProperties
  <2> DEFINE a == Append(w, e(m + 1))
  <2> HIDE DEF v, a
  <2>4. \A i \in 1..m + 1 : v[i] = a[i]
    <3> SUFFICES ASSUME NEW i \in 1..m + 1 PROVE v[i] = a[i]
      OBVIOUS
    <3>1. CASE i = m + 1
      BY <3>1, <2>2, <2>3, <1>1 DEF a
    <3>2. CASE i # m + 1
      <4>1. i \in 1..m
        BY <1>1, <3>2
      <4> QED BY <4>1, <2>2, <2>3 DEF a
    <3> QED BY <3>1, <3>2
  <2>5. v \in Seq(S) /\ a \in Seq(S) /\ Len(v) = Len(a) /\ \A i \in 1..Len(v) : v[i] = a[i]
    BY <2>2, <2>3, <2>4 DEF a
  <2>6. v = a
    BY ONLY <2>5, SeqEqual
  <2> QED BY <2>6 DEF a
<1>6. e(m + 1) \in S
  BY <1>1, <1>3
<1> QED BY <1>1, <1>2, <1>4, <1>5, <1>6

WithContent(file, x) == [file EXCEPT !.content = x]
LastContent(fs, x)   == [fs EXCEPT ![Len(fs)].content = x]
LastFile(fs)         == fs[Len(fs)]
LongerBy(fs, w, e)    == fs = Append(w, e)

\* what is collected goes to the last file
LEMMA LastChanged ==
  ASSUME NEW S, NEW w \in Seq(S), NEW e \in S, NEW fs, LongerBy(fs, w, e), NEW x
  PROVE  LastFile(fs) = e /\ LongerBy(LastContent(fs, x), w, WithContent(e, x))
<1> DEFINE g == [e EXCEPT !.content = x]
           T == S \cup {g}
           n == Len(w)
           h == [fs EXCEPT ![n + 1].content = x]
           a == Append(w, g)
<1>1. w \in Seq(T) /\ g \in T /\ e \in T /\ n \in Nat
  BY SeqOfMore, LenProperties
<1> HIDE DEF T, g
<1>2. fs \in Seq(T) /\ Len(fs) = n + 1 /\ fs[n + 1] = e /\ \A i \in 1..n : fs[i] = w[i]
  BY <1>1, AppendProperties DEF LongerBy
<1>3. a \in Seq(T) /\ Len(a) = n + 1 /\ a[n + 1] = g /\ \A i \in 1..n : a[i] = w[i]
  BY <1>1, AppendProperties
<1>4. h = [i \in 1..n + 1 |-> IF i = n + 1 THEN g ELSE fs[i]]
  <2>1. DOMAIN fs = 1..n + 1
    BY <1>2, LenProperties
  <2> QED BY <2>1, <1>2 DEF g
<1>5. \A i \in 1..n + 1 : h[i] = a[i]
  <2> HIDE DEF a, n
  <2>1. \A i \in 1..n + 1 : i = n + 1 \/ i \in 1..n
    BY <1>1
  <2> QED BY <1>2, <1>3, <1>4, <2>1
<1>6. a = [i \in 1..n + 1 |-> a[i]]
  BY <1>3, LenProperties
<1> HIDE DEF a, n
<1>7. h = a
  BY <1>4, <1>5, <1>6
<1> QED BY <1>2, <1>7 DEF a, g, LastContent, LastFile, WithContent, LongerBy

----------------------------------------------------------------------------
(* What the parser finds in its buffer *)

LEMMA SpotsLeast ==
  ASSUME NEW b \in Seq(Nat), NEW part \in Seq(Nat), Spots(b, part) # {}
  PROVE  /\ Min(Spots(b, part)) \in Spots(b, part)
         /\ \A p \in Spots(b, part) : Min(Spots(b, part)) <= p
<1>1. Spots(b, part) \in SUBSET Nat
  BY LenProperties DEF Spots
<1> DEFINE F == Spots(b, part)
<1> HIDE DEF F
<1>2. \E p \in F : \A q \in F : p <= q
  BY <1>1, LeastNumber DEF F
<1>3. Min(F) \in F /\ \A q \in F : Min(F) <= q
  BY <1>2 DEF Min
<1> QED BY <1>3 DEF F

FindsAt(b, y, a, part, r) ==
  /\ Spots(b, part) # {} <=> Len(a) + Len(part) <= Len(b)
  /\ Spots(b, part) # {} =>
       /\ Min(Spots(b, part)) = Len(a) /\ SubSeq(b, 1, Len(a)) = a
       /\ Len(a) + Len(part) \in 0..Len(b)
       /\ Cut(r, SubSeq(b, Len(a) + Len(part) + 1, Len(b)), y)

\* what is found behind something that has it nowhere
LEMMA BufferFind ==
  ASSUME NEW b \in Seq(Nat), NEW y \in Seq(Nat), NEW rest, Cut(rest, b, y),
         NEW a \in Seq(Nat), NEW part \in Seq(Nat), NEW r \in Seq(Nat), NEW ap,
         Cut(ap, a, part), Cut(rest, ap, r), part # <<>>, NotBefore(a, part)
  PROVE  FindsAt(b, y, a, part, r)
<1> DEFINE N == Seq(Nat)
           F == Spots(b, part)
<1>2. F \subseteq Nat
  BY LenProperties DEF Spots
<1>3. (F # {} <=> Len(a) + Len(part) <= Len(b)) /\ (F # {} => Len(a) \in F /\ \A p \in F : Len(a) <= p)
  BY FirstPlace
<1> HIDE DEF F
<1>4. Len(a) \in Nat /\ Len(part) \in Nat /\ Len(b) \in Nat /\ ap \in N /\ Len(ap) = Len(a) + Len(part)
      /\ SubSeq(ap, 1, Len(a)) = a
  <2>1. ap \in N
    BY CutType
  <2> QED BY <2>1, CutPieces, LenProperties
<1>5. ASSUME F # {}
      PROVE  /\ Min(F) = Len(a) /\ SubSeq(b, 1, Len(a)) = a
             /\ Cut(r, SubSeq(b, Len(a) + Len(part) + 1, Len(b)), y)
  <2>1. Min(F) \in F /\ \A p \in F : Min(F) <= p
    BY <1>5, SpotsLeast DEF F
  <2>2. Len(a) \in F /\ Min(F) <= Len(a) /\ Len(a) <= Min(F) /\ F \subseteq Nat
    BY ONLY <1>3, <1>5, <2>1, <1>2
  <2>3. Min(F) = Len(a)
    <3> DEFINE m == Min(F)
               la == Len(a)
    <3>1. m \in Nat /\ la \in Nat /\ m <= la /\ la <= m
      BY <2>1, <2>2, <1>4
    <3> HIDE DEF m, la
    <3>2. m = la
      BY <3>1
    <3> QED BY <3>2 DEF m, la
  <2>4. Len(ap) <= Len(b)
    BY <1>3, <1>4, <1>5
  <2>41. ap \in Seq(Nat) /\ b \in Seq(Nat) /\ y \in Seq(Nat) /\ r \in Seq(Nat) /\ Cut(rest, b, y)
         /\ Cut(rest, ap, r) /\ Len(ap) <= Len(b)
    BY <1>4, <2>4
  <2>5. SubSeq(b, 1, Len(ap)) = ap /\ Cut(r, SubSeq(b, Len(ap) + 1, Len(b)), y)
    BY ONLY <2>41, FrontCut
  <2>6. SubSeq(b, 1, Len(a)) = a
    <3>1. \E z \in N : Cut(b, ap, z) /\ Cut(r, z, y)
      BY ONLY <2>41, FrontCut
    <3>2. PICK z \in N : Cut(b, ap, z)
      BY <3>1
    <3>3. PICK t \in N : Cut(b, a, t)
      <4>1. \E t \in N : Cut(t, part, z) /\ Cut(b, a, t)
        BY <3>2, CutLeft
      <4> QED BY <4>1
    <3> QED BY <3>3, CutPieces
  <2> QED BY <1>4, <2>3, <2>5, <2>6
<1>6. Len(a) + Len(part) <= Len(b) => Len(a) + Len(part) \in 0..Len(b)
  BY <1>4
<1> QED BY <1>3, <1>5, <1>6 DEF F, FindsAt

FoundHere(rest, b, y, part, p) ==
  \E a \in Seq(Nat), ap \in Seq(Nat), r \in Seq(Nat) :
    /\ Cut(ap, a, part) /\ Cut(rest, ap, r) /\ SubSeq(b, 1, p) = a /\ Len(a) = p
    /\ Cut(r, SubSeq(b, p + Len(part) + 1, Len(b)), y) /\ p \in Nat
    /\ p + Len(part) \in 0..Len(b)

\* what is found anywhere
LEMMA BufferFound ==
  ASSUME NEW b \in Seq(Nat), NEW y \in Seq(Nat), NEW rest, Cut(rest, b, y),
         NEW part \in Seq(Nat), Spots(b, part) # {}
  PROVE  FoundHere(rest, b, y, part, Min(Spots(b, part)))
<1> DEFINE p == Min(Spots(b, part))
<1>1. p \in Spots(b, part)
  BY SpotsLeast
<1> HIDE DEF p
<1>2. FoundAt(rest, b, y, part, p, Nat) /\ p \in Nat /\ p + Len(part) \in 0..Len(b)
  BY <1>1, FoundCut
<1>4. \E a \in Seq(Nat), ap \in Seq(Nat), r \in Seq(Nat) :
        /\ Cut(ap, a, part) /\ Cut(rest, ap, r) /\ SubSeq(b, 1, p) = a /\ Len(a) = p
        /\ Cut(r, SubSeq(b, p + Len(part) + 1, Len(b)), y)
  BY <1>2 DEF FoundAt
<1> QED BY <1>2, <1>4 DEF p, FoundHere

\* a buffer that begins with a text
LEMMA BufferStart ==
  ASSUME NEW b \in Seq(Nat), NEW y \in Seq(Nat), NEW rest, Cut(rest, b, y),
         NEW part \in Seq(Nat), IsPrefix(part, b)
  PROVE  /\ Len(part) \in 0..Len(b)
         /\ \E r \in Seq(Nat) : Cut(rest, part, r) /\ Cut(r, SubSeq(b, Len(part) + 1, Len(b)), y)
<1>1. PICK z \in Seq(Nat) : Cut(b, part, z)
  BY PrefixCut
<1>2. Len(part) <= Len(b) /\ Len(part) \in Nat /\ Len(b) \in Nat /\ SubSeq(b, Len(part) + 1, Len(b)) = z
  BY <1>1, CutPieces, LenProperties
<1>3. \E r \in Seq(Nat) : Cut(r, z, y) /\ Cut(rest, part, r)
  BY <1>1, CutLeft
<1>4. Len(part) \in 0..Len(b)
  BY <1>2
<1> QED BY <1>2, <1>3, <1>4

\* what comes first begins the buffer, if that is long enough
LEMMA BufferLong ==
  ASSUME NEW b \in Seq(Nat), NEW y \in Seq(Nat), NEW rest, Cut(rest, b, y),
         NEW part \in Seq(Nat), NEW r \in Seq(Nat), Cut(rest, part, r), Len(part) <= Len(b)
  PROVE  IsPrefix(part, b)
<1>1. \E z \in Seq(Nat) : Cut(b, part, z) /\ Cut(r, z, y)
  BY FrontCut
<1>2. \E z \in Seq(Nat) : Cut(b, part, z)
  BY <1>1
<1> QED BY <1>2, PrefixCut

\* a buffer that is erased up to some place
LEMMA BufferErase ==
  ASSUME NEW b \in Seq(Nat), NEW y \in Seq(Nat), NEW rest, Cut(rest, b, y), NEW n \in 0..Len(b)
  PROVE  /\ SubSeq(b, 1, n) \in Seq(Nat) /\ Len(SubSeq(b, 1, n)) = n
         /\ SubSeq(b, n + 1, Len(b)) \in Seq(Nat) /\ Len(SubSeq(b, n + 1, Len(b))) = Len(b) - n
         /\ \E r \in Seq(Nat) : Cut(rest, SubSeq(b, 1, n), r) /\ Cut(r, SubSeq(b, n + 1, Len(b)), y)
<1> DEFINE h == SubSeq(b, 1, n)
           t == SubSeq(b, n + 1, Len(b))
<1>1. h \in Seq(Nat) /\ Len(h) = n /\ t \in Seq(Nat) /\ Len(t) = Len(b) - n /\ h \o t = b
  BY CutInTwo
<1> HIDE DEF h, t
<1>2. Cut(b, h, t)
  BY <1>1 DEF Cut
<1>3. \E r \in Seq(Nat) : Cut(r, t, y) /\ Cut(rest, h, r)
  BY <1>1, <1>2, CutLeft
<1> QED BY <1>1, <1>3 DEF h, t

\* a text behind another one is at a place
LEMMA CutSpot ==
  ASSUME NEW a \in Seq(Nat), NEW part \in Seq(Nat), NEW r \in Seq(Nat), NEW ap, NEW w,
         Cut(ap, a, part), Cut(w, ap, r)
  PROVE  Len(a) \in Spots(w, part)
<1> DEFINE N == Seq(Nat)
           p == Len(a)
           n == Len(part)
<1>1. ap \in N /\ w \in N
  BY CutType
<1>2. SubSeq(ap, p + 1, Len(ap)) = part /\ Len(ap) = p + n /\ p \in Nat /\ n \in Nat
  BY <1>1, CutPieces, LenProperties
<1>3. Len(w) = Len(ap) + Len(r) /\ Len(r) \in Nat
  BY <1>1, CutPieces
<1>4. w = ap \o r
  BY DEF Cut
<1>5. SubSeq(ap, p + 1, p + n) = part /\ p + n <= Len(ap)
  BY <1>2
<1> HIDE DEF p, n
<1>6. SubSeq(w, p + 1, p + n) = part
  <2>1. SubSeq(ap, p + 1, p + n) = SubSeq(ap \o r, p + 1, p + n)
    BY <1>1, <1>2, <1>5, PieceOf
  <2> QED BY <2>1, <1>4, <1>5
<1>7. p \in 0..Len(w) - n
  BY <1>2, <1>3
<1> QED BY <1>6, <1>7 DEF Spots, p, n

\* what is not found in a buffer is not found in the end of it
LEMMA SpotsLater ==
  ASSUME NEW b \in Seq(Nat), NEW n \in 0..Len(b), NEW part \in Seq(Nat), Spots(b, part) = {}
  PROVE  Spots(SubSeq(b, n + 1, Len(b)), part) = {}
<1> DEFINE N == Seq(Nat)
           h == SubSeq(b, 1, n)
           t == SubSeq(b, n + 1, Len(b))
           e == <<>>
<1>1. h \in N /\ t \in N /\ h \o t = b
  BY CutInTwo
<1>2. e \in N /\ t \o e = t
  BY <1>1, EmptySeq, ConcatEmptySeq
<1> HIDE DEF h, t, e
<1>3. Cut(b, h, t) /\ Cut(t, t, e)
  BY <1>1, <1>2 DEF Cut
<1>4. ASSUME Spots(t, part) # {} PROVE FALSE
  <2> DEFINE p == Min(Spots(t, part))
  <2>1. \E a \in N, ap \in N, r \in N :
           /\ Cut(ap, a, part) /\ Cut(t, ap, r) /\ SubSeq(t, 1, p) = a /\ Len(a) = p
           /\ Cut(r, SubSeq(t, p + Len(part) + 1, Len(t)), e) /\ p \in Nat
           /\ p + Len(part) \in 0..Len(t)
    BY <1>1, <1>2, <1>3, <1>4, BufferFound DEF FoundHere
  <2>2. PICK a \in N, ap \in N, r \in N : Cut(ap, a, part) /\ Cut(t, ap, r)
    BY <2>1
  <2>3. PICK hap \in N : Cut(hap, h, ap) /\ Cut(b, hap, r)
    BY <1>1, <1>3, <2>2, CutRight
  <2>4. PICK ha \in N : Cut(ha, h, a) /\ Cut(hap, ha, part)
    BY <1>1, <2>2, <2>3, CutRight
  <2>5. Len(ha) \in Spots(b, part)
    BY <2>3, <2>4, CutSpot
  <2> QED BY <2>5
<1> QED BY <1>4 DEF t

----------------------------------------------------------------------------
(* From place to place in an item *)

LEMMA StartsNext ==
  ASSUME NEW items \in Seq(ItemType), NEW end \in Seq(Nat), NEW k, NEW j \in 1..Len(items),
         NEW rest \in Seq(Nat), NEW fs, StartsAt(items, end, k, j, rest, fs)
  PROVE  HeadsAt(items, end, k, j, rest, fs, NoFile)
<1>1. /\ items[j] \in ItemType /\ Opened(items, end, j) \in Seq(Nat)
      /\ Cut(Opened(items, end, j), Heading(items[j]), Behind(items, end, j))
      /\ Cut(From(items, end, j), Start, Opened(items, end, j))
  BY FromItem
<1>2. Cut(From(items, end, j), Start, rest) /\ fs = Whole(items, k, j - 1)
  BY DEF StartsAt
<1>3. rest = Opened(items, end, j)
  <2> DEFINE f == From(items, end, j)
             o == Opened(items, end, j)
             d == Start
  <2>1. d \in Seq(Nat) /\ rest \in Seq(Nat) /\ o \in Seq(Nat) /\ Cut(f, d, rest) /\ Cut(f, d, o)
    BY <1>1, <1>2, StartText
  <2> HIDE DEF f, o, d
  <2>2. rest = o
    BY ONLY <2>1, CutSame
  <2> QED BY <2>2 DEF o
<1>4. 0 \in 0..Len(Lines(items[j])) /\ HeadersFrom(items[j], 0) = Heading(items[j])
  <2>1. 0 \in 0..Len(Lines(items[j]))
    BY <1>1, LinesText, LenProperties
  <2> QED BY <1>1, <2>1, HeadersText
<1>5. FileAfter(items[j], 0) = NoFile
  BY DEF FileAfter, NoFile
<1>6. Cut(rest, HeadersFrom(items[j], 0), Behind(items, end, j))
  BY <1>1, <1>3, <1>4
<1> QED BY <1>2, <1>4, <1>5, <1>6 DEF HeadsAt

LEMMA StartsMore ==
  ASSUME NEW items \in Seq(ItemType), NEW end \in Seq(Nat), NEW k, NEW j \in 1..Len(items),
         NEW fs, StartsAt(items, end, k, j, <<>>, fs)
  PROVE  FALSE
<1> DEFINE e == <<>>
           o == Opened(items, end, j)
           h == Heading(items[j])
           z == Behind(items, end, j)
           c == items[j].content
           v == Closed(items, end, j)
<1>1. e \in Seq(Nat) /\ Len(e) = 0
  BY EmptySeq
<1>2. Cut(From(items, end, j), Start, e)
  BY DEF StartsAt
<1>3. /\ items[j] \in ItemType /\ o \in Seq(Nat) /\ z \in Seq(Nat) /\ Cut(o, h, z)
      /\ Cut(From(items, end, j), Start, o) /\ Start \in Seq(Nat)
      /\ v \in Seq(Nat) /\ Cut(z, c, v) /\ Cut(v, crlf_, From(items, end, j + 1))
      /\ From(items, end, j + 1) \in Seq(Nat)
  BY FromItem, StartText
<1>4. h \in Seq(Nat) /\ c \in Seq(Nat) /\ crlf_ \in Seq(Nat) /\ Len(crlf_) = 2
  BY <1>3, BeginText, ItemTexts, Constants DEF Texts
<1> HIDE DEF e, o, h, z, c, v
<1>5. e = o
  BY <1>1, <1>2, <1>3, CutSame
<1>6. Len(v) >= 2 /\ Len(v) \in Nat
  <2> DEFINE f == From(items, end, j + 1)
             d == crlf_
  <2>0. f \in Seq(Nat) /\ d \in Seq(Nat) /\ v \in Seq(Nat) /\ Cut(v, d, f) /\ Len(d) = 2
    BY <1>3, <1>4
  <2> HIDE DEF f, d
  <2>1. Len(v) = Len(d) + Len(f) /\ Len(f) \in Nat
    BY <2>0, CutPieces
  <2> QED BY <2>0, <2>1
<1>7. Len(z) = Len(c) + Len(v) /\ Len(c) \in Nat
  BY <1>3, <1>4, CutPieces
<1>8. Len(o) = Len(h) + Len(z) /\ Len(h) \in Nat
  BY <1>3, <1>4, CutPieces
<1> QED BY <1>1, <1>5, <1>6, <1>7, <1>8

LEMMA LinesCount ==
  ASSUME NEW item \in ItemType
  PROVE  Len(Lines(item)) \in Nat /\ Len(Lines(item)) >= 1 /\ (Len(Lines(item)) = 1 => item.type = <<>>)
<1> DEFINE d == <<DispositionLine(item)>>
           t == TypeLines(item)
           m == item.more
           dt == d \o t
<1>1. d \in Seq(Texts) /\ Len(d) = 1 /\ t \in Seq(Texts) /\ m \in Seq(Texts)
  BY ItemTexts, TypeText
<1>2. item.type # <<>> => Len(t) = 1
  BY DEF TypeLines
<1>3. Len(t) \in Nat /\ Len(m) \in Nat
  BY <1>1, LenProperties
<1> HIDE DEF d, t, m
<1>4. dt \in Seq(Texts) /\ Len(dt) = Len(d) + Len(t)
  BY <1>1, ConcatProperties
<1> HIDE DEF dt
<1>5. Len(dt \o m) = Len(dt) + Len(m)
  BY <1>1, <1>4, ConcatProperties
<1>6. Lines(item) = dt \o m
  BY DEF Lines, dt, d, t, m
<1> DEFINE n == Len(Lines(item))
<1>7. n = 1 + Len(t) + Len(m)
  BY <1>1, <1>3, <1>4, <1>5, <1>6
<1> HIDE DEF n
<1>8. n \in Nat /\ n >= 1 /\ (n = 1 => item.type = <<>>)
  BY <1>2, <1>3, <1>7
<1> QED BY <1>8 DEF n

\* the next line of the headers, and what comes behind it
LEMMA HeadersRow ==
  ASSUME NEW item \in ItemType, PlainItem(item), NEW l \in 0..Len(Lines(item)) - 1,
         NEW rest \in Seq(Nat), NEW z \in Seq(Nat), Cut(rest, HeadersFrom(item, l), z)
  PROVE  LET row == Lines(item)[l + 1] IN
         /\ row \in Seq(Nat) /\ row # <<>>
         /\ \E e \in Seq(Nat), r \in Seq(Nat) :
              Cut(e, row, crlf_) /\ Cut(rest, e, r) /\ Cut(r, HeadersFrom(item, l + 1), z)
         /\ rest[1] # Cr
<1> DEFINE N == Seq(Nat)
           row == Lines(item)[l + 1]
           e == EndLine[row]
           h == HeadersFrom(item, l)
           g == HeadersFrom(item, l + 1)
<1>1. row \in N /\ e \in N /\ Cut(e, row, crlf_) /\ Cut(h, e, g)
  BY HeadersNext
<1>2. row # <<>> /\ row[1] # Cr
  BY LineReadAs
<1>3. h \in N /\ g \in N
  <2>1. l \in 0..Len(Lines(item)) /\ l + 1 \in 0..Len(Lines(item))
    BY LinesCount
  <2> HIDE DEF h, g
  <2>2. h \in N
    BY <2>1, HeadersText DEF h
  <2>3. g \in N
    <3> DEFINE i == l + 1
    <3>1. i \in 0..Len(Lines(item))
      BY <2>1
    <3> HIDE DEF i
    <3>2. HeadersFrom(item, i) \in N
      BY <3>1, HeadersText
    <3> QED BY <3>2 DEF i, g
  <2> QED BY <2>2, <2>3
<1>4. Cut(rest, h, z) /\ crlf_ \in N
  BY Constants DEF Texts
<1> HIDE DEF row, e, h, g
<1>5. PICK r \in N : Cut(r, g, z) /\ Cut(rest, e, r)
  BY <1>1, <1>3, <1>4, CutLeft
<1>6. PICK s \in N : Cut(s, crlf_, r) /\ Cut(rest, row, s)
  BY <1>1, <1>4, <1>5, CutLeft
<1>7. rest[1] = row[1]
  <2> DEFINE i == 1
  <2>1. i \in 1..Len(row)
    BY <1>1, <1>2, EmptySeq, LenProperties
  <2> HIDE DEF i
  <2>2. rest[i] = row[i]
    BY <1>1, <1>6, <2>1, CutFirst
  <2> QED BY <2>2 DEF i
<1>8. \E a \in N, b \in N : Cut(a, row, crlf_) /\ Cut(rest, a, b) /\ Cut(b, g, z)
  BY <1>1, <1>5
<1>9. rest[1] # Cr
  BY <1>2, <1>7
<1> QED BY <1>1, <1>2, <1>8, <1>9 DEF row, g

\* how a text begins that begins with another one
LEMMA FirstOf ==
  ASSUME NEW a \in Seq(Nat), NEW z \in Seq(Nat), NEW w, Cut(w, a, z), a # <<>>
  PROVE  w[1] = a[1]
<1> DEFINE i == 1
<1>1. i \in 1..Len(a)
  BY EmptySeq, LenProperties
<1> HIDE DEF i
<1>2. w[i] = a[i]
  BY <1>1, CutFirst
<1> QED BY <1>2 DEF i

\* the empty line comes behind the last header line
LEMMA HeadsLast ==
  ASSUME NEW items \in Seq(ItemType), NEW end \in Seq(Nat), NEW k, NEW j \in 1..Len(items),
         PlainItem(items[j]), NEW rest \in Seq(Nat), NEW r \in Seq(Nat), NEW fs, NEW file,
         HeadsAt(items, end, k, j, rest, fs, file), Cut(rest, crlf_, r)
  PROVE  FillsAt(items, end, k, j, r, Append(fs, file))
<1> DEFINE N == Seq(Nat)
           item == items[j]
           z == Behind(items, end, j)
           n == Len(Lines(item))
<1>1. PICK l \in 0..n : Cut(rest, HeadersFrom(item, l), z) /\ file = FileAfter(item, l)
  BY DEF HeadsAt
<1>2. fs = Whole(items, k, j - 1)
  BY DEF HeadsAt
<1>3. /\ item \in ItemType /\ z \in N /\ Cut(z, item.content, Closed(items, end, j))
      /\ Closed(items, end, j) \in N
  BY FromItem
<1>4. n \in Nat /\ n >= 1 /\ (n = 1 => item.type = <<>>) /\ crlf_ \in N /\ crlf_ # <<>> /\ crlf_[1] = Cr
  BY <1>3, LinesCount, Constants DEF Texts
<1>5. l = n
  <2> SUFFICES ASSUME l # n PROVE FALSE
    OBVIOUS
  <2>1. l \in 0..n - 1
    BY <1>4
  <2> HIDE DEF z
  <2>2. rest[1] # Cr
    <3> HIDE DEF item
    <3>1. item \in ItemType /\ PlainItem(item) /\ l \in 0..Len(Lines(item)) - 1 /\ z \in N
          /\ Cut(rest, HeadersFrom(item, l), z)
      BY <1>1, <1>3, <2>1 DEF item
    <3> QED BY <3>1, HeadersRow
  <2>3. rest[1] = crlf_[1]
    BY <1>4, FirstOf
  <2> QED BY <1>4, <2>2, <2>3
<1>6. Cut(rest, crlf_, z)
  <2>1. HeadersFrom(item, n) = crlf_
    <3>1. n \in 0..Len(Lines(item))
      BY <1>4
    <3> QED BY <1>3, <3>1, HeadersText
  <2> QED BY <1>1, <1>5, <2>1
<1>7. r = z
  <2> DEFINE c == crlf_
  <2>1. c \in N /\ z \in N /\ Cut(rest, c, z) /\ Cut(rest, c, r)
    BY <1>3, <1>4, <1>6
  <2> HIDE DEF c, z
  <2> QED BY <2>1, CutSame
<1>8. file = [Expected(item) EXCEPT !.content = <<>>]
  <2> HIDE DEF item, n
  <2>1. file = FileAfter(item, n)
    BY <1>1, <1>5
  <2>2. n # 0 /\ (n <= 1 => item.type = <<>>)
    BY <1>4
  <2> DEFINE x == item.name
             f == IF item.extended = <<>> THEN item.filename ELSE decode_url(Tail(item.extended), FALSE)
             t == item.type
             u == item.content
             e == <<>>
  <2>3. Expected(item) = [name |-> x, type |-> t, content |-> u, filename |-> f] /\ Expected(item).filename = f
    BY DEF Expected
  <2>4. (IF n = 0 THEN <<>> ELSE item.name) = x /\ (IF n = 0 THEN <<>> ELSE Expected(item).filename) = f
        /\ (IF n <= 1 THEN <<>> ELSE item.type) = t
    <3> HIDE DEF f
    <3> QED BY <2>2, <2>3
  <2>5. file = [name |-> x, filename |-> f, type |-> t, content |-> e]
    <3> HIDE DEF f, x, t, e
    <3> QED BY <2>1, <2>4 DEF FileAfter, e
  <2> HIDE DEF x, f, t, u, e
  <2>6. file = [Expected(item) EXCEPT !.content = e]
    <3> DEFINE T == {x, f, t, u, e}
               R == [name : T, filename : T, type : T, content : T]
               g == Expected(item)
               h == [g EXCEPT !.content = e]
    <3>1. g \in R /\ g.name = x /\ g.filename = f /\ g.type = t
      BY <2>3
    <3>2. file \in R /\ file.name = x /\ file.filename = f /\ file.type = t /\ file.content = e
      BY <2>5
    <3> HIDE DEF g
    <3>3. h \in R /\ h.name = x /\ h.filename = f /\ h.type = t /\ h.content = e
      BY <3>1
    <3> HIDE DEF h, T
    <3>5. h = [name |-> h.name, filename |-> h.filename, type |-> h.type, content |-> h.content]
      BY <3>3
    <3>4. file = h
      BY <2>5, <3>3, <3>5
    <3> QED BY <3>4 DEF h, g
  <2> QED BY <2>6 DEF e
<1>9. item.content \in Texts /\ <<>> \in Texts /\ Cut(item.content, <<>>, item.content)
  <2>1. item.content \in Seq(Nat)
    BY <1>3, ItemTexts DEF Texts
  <2> QED BY <2>1, ConcatEmptySeq, EmptySeq DEF Cut, Texts
<1>10. Cut(r, item.content, Closed(items, end, j))
  BY <1>3, <1>7
<1> DEFINE e == <<>>
           c == item.content
<1>11. e \in Texts /\ c \in Texts /\ Cut(c, e, c) /\ file = [Expected(item) EXCEPT !.content = e]
       /\ Cut(r, c, Closed(items, end, j))
  BY <1>8, <1>9, <1>10
<1> HIDE DEF e
<1>12. \E x, t \in Texts : /\ Cut(item.content, x, t) /\ Cut(r, t, Closed(items, end, j))
                          /\ Append(fs, file) = Append(Whole(items, k, j - 1), [Expected(item) EXCEPT !.content = x])
  BY <1>2, <1>11
<1> QED BY <1>12 DEF FillsAt

\* a line that is found is the next header line
LEMMA HeadsNext ==
  ASSUME NEW items \in Seq(ItemType), NEW end \in Seq(Nat), NEW k, NEW j \in 1..Len(items),
         PlainItem(items[j]), NEW b \in Seq(Nat), NEW y \in Seq(Nat), NEW rest \in Seq(Nat),
         Cut(rest, b, y), NEW fs, NEW file, HeadsAt(items, end, k, j, rest, fs, file),
         Spots(b, crlf_) # {}, ~IsPrefix(crlf_, b), NEW row, row = SubSeq(b, 1, Min(Spots(b, crlf_)))
  PROVE  /\ Takes(row) /\ Len(row) + Len(crlf_) \in 0..Len(b)
         /\ \E r \in Seq(Nat) : /\ Cut(r, SubSeq(b, Len(row) + Len(crlf_) + 1, Len(b)), y)
                                /\ HeadsAt(items, end, k, j, r, fs, ReadAs(file, row))
<1> DEFINE N == Seq(Nat)
           item == items[j]
           z == Behind(items, end, j)
           n == Len(Lines(item))
           c == crlf_
<1>1. PICK l \in 0..n : Cut(rest, HeadersFrom(item, l), z) /\ file = FileAfter(item, l)
  BY DEF HeadsAt
<1>2. fs = Whole(items, k, j - 1)
  BY DEF HeadsAt
<1>3. item \in ItemType /\ z \in N
  BY FromItem
<1>4. n \in Nat /\ c \in N /\ c # <<>> /\ c[1] = Cr
  BY <1>3, LinesCount, Constants DEF Texts
<1>5. l \in 0..n - 1
  <2> SUFFICES ASSUME l = n PROVE FALSE
    BY <1>4
  <2>1. Cut(rest, c, z)
    <3>1. HeadersFrom(item, n) = c
      <4>1. n \in 0..Len(Lines(item))
        BY <1>4
      <4> QED BY <1>3, <4>1, HeadersText
    <3> QED BY <1>1, <3>1
  <2>2. Len(c) <= Len(b)
    <3>1. PICK p \in Spots(b, c) : TRUE
      OBVIOUS
    <3>2. p \in 0..Len(b) - Len(c)
      BY DEF Spots
    <3> QED BY <1>4, <3>2, LenProperties
  <2>3. ~IsPrefix(c, b) /\ Cut(rest, b, y)
    OBVIOUS
  <2> HIDE DEF c, z
  <2> QED BY <1>3, <1>4, <2>1, <2>2, <2>3, BufferLong
<1> DEFINE a == Lines(item)[l + 1]
           g == HeadersFrom(item, l + 1)
<1>6. PICK e \in N, r \in N : Cut(e, a, c) /\ Cut(rest, e, r) /\ Cut(r, g, z)
  <2>1. item \in ItemType /\ PlainItem(item) /\ l \in 0..Len(Lines(item)) - 1 /\ z \in N /\ rest \in N
        /\ Cut(rest, HeadersFrom(item, l), z)
    BY <1>1, <1>3, <1>5
  <2> HIDE DEF item, z
  <2> QED BY <2>1, HeadersRow
<1>7. /\ Takes(a) /\ a \in N /\ Without(a, Cr)
      /\ ReadAs(FileAfter(item, l), a) = FileAfter(item, l + 1)
  <2>1. item \in ItemType /\ PlainItem(item) /\ l \in 0..Len(Lines(item)) - 1
    BY <1>3, <1>5
  <2> HIDE DEF item
  <2> QED BY ONLY <2>1, LineReadAs DEF a
<1> HIDE DEF a, g
<1>8. NotBefore(a, c)
  <2> HIDE DEF c
  <2> QED BY <1>4, <1>7, NotBeforeFirst
<1>9. /\ Min(Spots(b, c)) = Len(a) /\ SubSeq(b, 1, Len(a)) = a /\ Len(a) + Len(c) \in 0..Len(b)
      /\ Cut(r, SubSeq(b, Len(a) + Len(c) + 1, Len(b)), y)
  <2>1. Spots(b, c) # {} /\ Cut(rest, b, y) /\ b \in N /\ y \in N
    OBVIOUS
  <2> HIDE DEF c
  <2>2. FindsAt(b, y, a, c, r)
    BY ONLY <1>4, <1>6, <1>7, <1>8, <2>1, BufferFind
  <2> QED BY <2>1, <2>2 DEF FindsAt
<1>10. row = a
  BY <1>9
<1>11. HeadsAt(items, end, k, j, r, fs, ReadAs(file, row))
  <2>1. l + 1 \in 0..n
    BY <1>4, <1>5
  <2> DEFINE i == l + 1
  <2>2. i \in 0..Len(Lines(item)) /\ Cut(r, HeadersFrom(item, i), z) /\ ReadAs(file, row) = FileAfter(item, i)
    BY <1>1, <1>6, <1>7, <1>10, <2>1 DEF g
  <2> HIDE DEF i
  <2> QED BY <1>2, <2>2 DEF HeadsAt
<1> QED BY <1>7, <1>9, <1>10, <1>11

\* a line is found in the headers that have come whole
LEMMA HeadsFound ==
  ASSUME NEW items \in Seq(ItemType), NEW end \in Seq(Nat), NEW k, NEW j \in 1..Len(items),
         PlainItem(items[j]), NEW rest \in Seq(Nat), NEW fs, NEW file,
         HeadsAt(items, end, k, j, rest, fs, file)
  PROVE  Spots(rest, crlf_) # {}
<1> DEFINE N == Seq(Nat)
           item == items[j]
           z == Behind(items, end, j)
           n == Len(Lines(item))
           c == crlf_
<1>1. PICK l \in 0..n : Cut(rest, HeadersFrom(item, l), z)
  BY DEF HeadsAt
<1>3. item \in ItemType /\ z \in N
  BY FromItem
<1>4. n \in Nat /\ c \in N
  BY <1>3, LinesCount, Constants DEF Texts
<1>5. \E a \in N, e \in N, r \in N : Cut(e, a, c) /\ Cut(rest, e, r)
  <2>1. CASE l = n
    <3>1. HeadersFrom(item, n) = c
      <4>1. n \in 0..Len(Lines(item))
        BY <1>4
      <4> QED BY <1>3, <4>1, HeadersText
    <3> DEFINE e == <<>>
    <3>2. e \in N /\ Cut(c, e, c)
      BY <1>4, ConcatEmptySeq, EmptySeq DEF Cut
    <3>3. Cut(rest, c, z)
      BY <1>1, <2>1, <3>1
    <3> HIDE DEF e
    <3> QED BY <1>3, <1>4, <3>2, <3>3
  <2>2. CASE l # n
    <3>1. l \in 0..Len(Lines(item)) - 1
      BY <1>4, <2>2
    <3>2. item \in ItemType /\ PlainItem(item) /\ z \in N /\ rest \in N /\ Cut(rest, HeadersFrom(item, l), z)
      BY <1>1, <1>3
    <3> DEFINE a == Lines(item)[l + 1]
    <3>3. a \in N /\ \E e \in N, r \in N : Cut(e, a, c) /\ Cut(rest, e, r)
      <4> HIDE DEF item, z
      <4> QED BY <3>1, <3>2, HeadersRow
    <3> HIDE DEF a
    <3> QED BY <3>3
  <2> QED BY <2>1, <2>2
<1>6. PICK a \in N, e \in N, r \in N : Cut(e, a, c) /\ Cut(rest, e, r)
  BY <1>5
<1> HIDE DEF c
<1>7. Len(a) \in Spots(rest, c)
  BY <1>4, <1>6, CutSpot
<1> QED BY <1>7 DEF c

\* where a text is found first, as buf_find() says it
FirstSpot(b, part) == IF Spots(b, part) = {} THEN Len(b) ELSE Min(Spots(b, part))

LEMMA FirstSpotType ==
  ASSUME NEW b \in Seq(Nat), NEW part \in Seq(Nat)
  PROVE  FirstSpot(b, part) \in Nat
<1>1. Len(b) \in Nat /\ Len(part) \in Nat
  BY LenProperties
<1>2. Spots(b, part) \subseteq Nat
  BY <1>1 DEF Spots
<1>3. Spots(b, part) # {} => Min(Spots(b, part)) \in Spots(b, part)
  BY SpotsLeast
<1> QED BY <1>1, <1>2, <1>3 DEF FirstSpot

LEMMA FoundBefore ==
  ASSUME NEW b \in Seq(Nat), NEW y \in Seq(Nat), NEW rest, Cut(rest, b, y),
         NEW a \in Seq(Nat), NEW part \in Seq(Nat), part # <<>>, NEW ap, NEW r \in Seq(Nat),
         Cut(ap, a, part), Cut(rest, ap, r)
  PROVE  FirstSpot(b, part) \in Nat /\ FirstSpot(b, part) < Len(a) + Len(part)
<1> DEFINE F == Spots(b, part)
           la == Len(a)
           lp == Len(part)
           lb == Len(b)
<1>1. ap \in Seq(Nat) /\ Len(ap) = la + lp /\ la \in Nat /\ lp \in Nat /\ lb \in Nat /\ lp # 0
  <2>1. ap \in Seq(Nat)
    BY CutType
  <2> QED BY <2>1, CutPieces, LenProperties, EmptySeq
<1>2. \A p \in F : p \in Nat /\ p <= lb - lp
  <2> HIDE DEF lp, lb
  <2>1. \A p \in F : p \in 0..lb - lp
    BY DEF Spots, lp, lb
  <2> QED BY <1>1, <2>1
<1>3. F # {} => Min(F) \in F /\ \A p \in F : Min(F) <= p
  BY SpotsLeast
<1>4. la + lp <= lb => la \in F
  <2> SUFFICES ASSUME la + lp <= lb PROVE la \in F
    OBVIOUS
  <2>1. Len(ap) <= Len(b)
    BY <1>1
  <2>2. PICK z \in Seq(Nat) : Cut(b, ap, z)
    <3>1. /\ ap \in Seq(Nat) /\ b \in Seq(Nat) /\ y \in Seq(Nat) /\ r \in Seq(Nat)
          /\ Cut(rest, b, y) /\ Cut(rest, ap, r) /\ Len(ap) <= Len(b)
      BY <1>1, <2>1
    <3>2. \E z \in Seq(Nat) : Cut(b, ap, z) /\ Cut(r, z, y)
      BY ONLY <3>1, FrontCut
    <3> QED BY <3>2
  <2> QED BY <2>2, CutSpot
<1>5. FirstSpot(b, part) = IF F = {} THEN lb ELSE Min(F)
  BY DEF FirstSpot
<1> HIDE DEF F, la, lp, lb
<1>6. CASE F = {}
  BY <1>1, <1>4, <1>5, <1>6 DEF la, lp
<1>7. CASE F # {}
  <2> DEFINE m == Min(F)
  <2>1. m \in Nat /\ m <= lb - lp /\ (la + lp <= lb => m <= la)
    BY <1>2, <1>3, <1>4, <1>7
  <2>2. FirstSpot(b, part) = m
    BY <1>5, <1>7
  <2> HIDE DEF m
  <2> QED BY <1>1, <2>1, <2>2 DEF la, lp
<1> QED BY <1>6, <1>7

\* when the end of a header line comes too late, a header line of the item is too long
LEMMA HeadsLong ==
  ASSUME NEW items \in Seq(ItemType), NEW end \in Seq(Nat), NEW k, NEW j \in 1..Len(items),
         PlainItem(items[j]), NEW b \in Seq(Nat), NEW y \in Seq(Nat), NEW rest \in Seq(Nat),
         Cut(rest, b, y), NEW fs, NEW file, HeadsAt(items, end, k, j, rest, fs, file),
         FirstSpot(b, crlf_) > MaxHeader
  PROVE  LongHeader(items[j])
<1> DEFINE N == Seq(Nat)
           item == items[j]
           z == Behind(items, end, j)
           n == Len(Lines(item))
           c == crlf_
<1>1. PICK l \in 0..n : Cut(rest, HeadersFrom(item, l), z)
  BY DEF HeadsAt
<1>2. item \in ItemType /\ z \in N
  BY FromItem
<1>3. n \in Nat /\ n >= 1 /\ c \in N /\ c # <<>> /\ Len(c) = 2
  BY <1>2, LinesCount, Constants DEF Texts
<1>4. DOMAIN Lines(item) = 1..n /\ \A i \in 1..n : Len(Lines(item)[i]) \in Nat
  <2>1. Lines(item) \in Seq(Texts)
    BY <1>2, LinesText
  <2> DEFINE s == Lines(item)
  <2>2. s \in Seq(Texts)
    BY <2>1
  <2> HIDE DEF s
  <2>3. DOMAIN s = 1..Len(s)
    BY <2>2, LenProperties
  <2>4. \A i \in 1..Len(s) : s[i] \in Seq(Nat)
    BY <2>2, ElementOfSeq DEF Texts
  <2>5. \A i \in 1..Len(s) : Len(s[i]) \in Nat
    BY <2>4, LenProperties
  <2> QED BY <2>3, <2>5 DEF s
<1>5. MaxHeader \in Nat
  BY FormsAssumption
<1>6. ASSUME NEW a \in N, NEW e \in N, NEW r \in N, Cut(e, a, c), Cut(rest, e, r)
      PROVE  Len(a) >= MaxHeader
  <2> DEFINE f == FirstSpot(b, crlf_)
  <2>1. f \in Nat /\ f < Len(a) + Len(c)
    BY <1>3, <1>6, FoundBefore
  <2>2. f > MaxHeader
    OBVIOUS
  <2>3. Len(a) \in Nat
    BY LenProperties
  <2> HIDE DEF f, c
  <2> QED BY <1>3, <1>5, <2>1, <2>2, <2>3
<1>7. CASE l = n
  <2>1. HeadersFrom(item, n) = c
    <3>1. n \in 0..Len(Lines(item))
      BY <1>3
    <3> QED BY <1>2, <3>1, HeadersText
  <2> DEFINE e == <<>>
  <2>2. e \in N /\ Cut(c, e, c) /\ Cut(rest, c, z) /\ Len(e) = 0
    BY <1>1, <1>3, <1>7, <2>1, ConcatEmptySeq, EmptySeq DEF Cut
  <2> HIDE DEF e, c, z
  <2>3. Len(e) >= MaxHeader
    BY <1>2, <1>3, <1>6, <2>2
  <2>4. 0 >= MaxHeader
    BY <2>2, <2>3
  <2> DEFINE one == 1
  <2>5. one \in 1..n
    BY <1>3
  <2> HIDE DEF one
  <2>6. one \in DOMAIN Lines(item) /\ Len(Lines(item)[one]) \in Nat
    BY <1>4, <2>5
  <2> DEFINE h == Len(Lines(item)[one])
  <2>7. h \in Nat
    BY <2>6
  <2> HIDE DEF h
  <2>8. h >= MaxHeader
    BY <1>5, <2>4, <2>7
  <2> QED BY <2>6, <2>8 DEF LongHeader, h
<1>8. CASE l # n
  <2>1. l \in 0..n - 1
    BY <1>3, <1>8
  <2> DEFINE i == l + 1
             row == Lines(item)[i]
  <2>2. row \in N /\ \E e \in N, r \in N : Cut(e, row, c) /\ Cut(rest, e, r)
    <3> HIDE DEF item, z
    <3>1. item \in ItemType /\ PlainItem(item) /\ l \in 0..Len(Lines(item)) - 1 /\ z \in N
          /\ Cut(rest, HeadersFrom(item, l), z)
      BY <1>1, <1>2, <2>1 DEF item
    <3> QED BY <3>1, HeadersRow
  <2>3. i \in 1..n
    BY <1>3, <2>1
  <2>4. Len(row) >= MaxHeader
    <3> HIDE DEF row, c
    <3> QED BY <1>6, <2>2
  <2>5. i \in DOMAIN Lines(item)
    BY <1>4, <2>3
  <2> HIDE DEF i
  <2> QED BY <2>4, <2>5 DEF LongHeader
<1> QED BY <1>7, <1>8

----------------------------------------------------------------------------
(* The end of an item *)

Mark == crlf_dash_boundary_

LEMMA MarkChars ==
  /\ Mark \in Seq(Nat) /\ Mark # <<>> /\ Cut(Mark, crlf_, Delimiter) /\ Mark[1] = Cr
  /\ \A i \in 2..Len(Mark) : Mark[i] # Mark[1]
<1> DEFINE N == Seq(Nat)
           c == crlf_
           d == Delimiter
           m == Mark
<1>1. /\ c \in N /\ c # <<>> /\ Len(c) = 2 /\ c[1] = Cr /\ c[2] = Lf
      /\ d \in N /\ Len(d) \in Nat /\ \A i \in 1..Len(d) : d[i] # Cr
  BY Constants, DelimiterChars DEF Texts
<1>2. m = c \o d
  <2>1. (crlf_ \o dash_) \o boundary = crlf_ \o (dash_ \o boundary)
    BY Constants, TextsAssociative DEF Texts
  <2> QED BY <2>1 DEF Mark, crlf_dash_boundary_, Delimiter
<1> HIDE DEF c, d, m
<1>3. m \in N /\ Cut(m, c, d) /\ Len(m) = Len(c) + Len(d)
      /\ \A i \in 1..Len(c) + Len(d) : m[i] = IF i <= Len(c) THEN c[i] ELSE d[i - Len(c)]
  BY <1>1, <1>2, ConcatProperties DEF Cut
<1>4. m[1] = Cr /\ m # <<>>
  <2>1. 1 \in 1..Len(c) + Len(d) /\ 1 <= Len(c)
    BY <1>1
  <2>2. m[1] = c[1]
    BY <1>3, <2>1
  <2>3. m # <<>>
    <3>1. Len(m) # 0
      BY <1>1, <1>3
    <3> QED BY <3>1, EmptySeq
  <2> QED BY <1>1, <2>2, <2>3
<1>5. ASSUME NEW i \in 2..Len(m) PROVE m[i] # Cr
  <2>1. i \in 1..Len(c) + Len(d) /\ i \in Int
    BY <1>1, <1>3
  <2>2. CASE i = 2
    <3>1. m[2] = c[2]
      BY <1>1, <1>3, <2>1, <2>2
    <3> QED BY <1>1, <2>2, <3>1 DEF Cr, Lf
  <2>3. CASE i # 2
    <3>1. ~(i <= Len(c)) /\ i - Len(c) \in 1..Len(d)
      BY <1>1, <2>1, <2>3
    <3>2. m[i] = d[i - Len(c)]
      BY <1>3, <2>1, <3>1
    <3> QED BY <1>1, <3>1, <3>2
  <2> QED BY <2>2, <2>3
<1> QED BY <1>3, <1>4, <1>5 DEF m, c, d

\* an item, or the end of the form, begins with the boundary
LEMMA FromDelimiter ==
  ASSUME NEW items \in Seq(ItemType), NEW after \in Texts, NEW end, end = finish \o after,
         NEW j \in 1..Len(items) + 1
  PROVE  \E s \in Seq(Nat) :
           /\ Cut(From(items, end, j), Delimiter, s)
           /\ j # Len(items) + 1 => Cut(s, crlf_, Opened(items, end, j))
           /\ j = Len(items) + 1 => Cut(s, dash_, Tailing(after))
<1>0. end \in Seq(Nat)
  BY EndText
<1>1. CASE j = Len(items) + 1
  <2>1. From(items, end, j) = end
    BY <1>0, <1>1, FromType
  <2>2. PICK t \in Seq(Nat) : Cut(t, dash_, Tailing(after)) /\ Cut(end, Delimiter, t)
    BY EndText
  <2> QED BY <1>1, <2>1, <2>2
<1>2. CASE j # Len(items) + 1
  <2> DEFINE f == From(items, end, j)
             o == Opened(items, end, j)
             d == Delimiter
             c == crlf_
  <2>1. j \in 1..Len(items)
    BY <1>2, LenProperties
  <2>2. Cut(f, Start, o) /\ o \in Seq(Nat) /\ d \in Seq(Nat) /\ Cut(Start, d, c) /\ c \in Seq(Nat)
    BY <1>0, <2>1, FromItem, DelimiterChars, Constants DEF Texts
  <2> HIDE DEF f, o, d, c
  <2>3. \E t \in Seq(Nat) : Cut(t, c, o) /\ Cut(f, d, t)
    BY <2>2, CutLeft
  <2>4. PICK t \in Seq(Nat) : Cut(t, c, o) /\ Cut(f, d, t)
    BY <2>3
  <2> QED BY <1>2, <2>4 DEF f, o, d, c
<1> QED BY <1>1, <1>2

\* the rest of the content, the line that closes it, and what comes behind that
FillsTo(items, end, k, j, rest, fs, c, t, tp, s) ==
  /\ Cut(items[j].content, c, t) /\ Cut(rest, t, Closed(items, end, j))
  /\ fs = Append(Whole(items, k, j - 1), [Expected(items[j]) EXCEPT !.content = c])
  /\ Cut(tp, t, Mark) /\ Cut(rest, tp, s) /\ NotBefore(t, Mark)
  /\ Cut(From(items, end, j + 1), Delimiter, s)

LEMMA FillsMark ==
  ASSUME NEW items \in Seq(ItemType), NEW after \in Texts, NEW end, end = finish \o after, NEW k,
         NEW j \in 1..Len(items), PlainItem(items[j]), NEW rest \in Seq(Nat), NEW fs,
         FillsAt(items, end, k, j, rest, fs)
  PROVE  \E c, t, tp, s \in Seq(Nat) : FillsTo(items, end, k, j, rest, fs, c, t, tp, s)
<1> DEFINE N == Seq(Nat)
           item == items[j]
           v == Closed(items, end, j)
           f == From(items, end, j + 1)
           d == Delimiter
           w == item.content
           m == Mark
           l == crlf_
<1>1. PICK c \in N, t \in N : /\ Cut(w, c, t) /\ Cut(rest, t, v)
                              /\ fs = Append(Whole(items, k, j - 1), [Expected(item) EXCEPT !.content = c])
  BY DEF FillsAt, Texts
<1>2. end \in N
  BY EndText
<1>3. item \in ItemType /\ f \in N /\ v \in N /\ Cut(v, l, f) /\ l \in N
  BY <1>2, FromItem, Constants DEF Texts
<1>4. PICK s \in N : Cut(f, d, s)
  <2>1. j + 1 \in 1..Len(items) + 1
    BY LenProperties
  <2> DEFINE i == j + 1
  <2> HIDE DEF i
  <2>2. \E s \in N : Cut(From(items, end, i), d, s)
    BY <2>1, FromDelimiter DEF i
  <2> QED BY <2>2 DEF i
<1>5. m \in N /\ m # <<>> /\ Cut(m, l, d) /\ (\A i \in 2..Len(m) : m[i] # m[1]) /\ d \in N
  BY MarkChars, DelimiterChars
<1>6. w \in N
  BY <1>3, ItemTexts DEF Texts
<1>61. ~Holds(w, m)
  BY DEF PlainItem, Mark
<1> HIDE DEF v, f, d, m, l, w
<1>7. Cut(v, m, s)
  <2>1. \E u \in N : Cut(u, l, d) /\ Cut(v, u, s)
    BY <1>3, <1>4, <1>5, CutRight
  <2> QED BY <1>5, <2>1 DEF Cut
<1>8. PICK tp \in N : Cut(tp, t, m) /\ Cut(rest, tp, s)
  BY <1>1, <1>5, <1>7, CutRight
<1>9. NotBefore(t, m)
  <2>1. ASSUME NEW x \in N, NEW b \in N, NEW r \in N, Cut(b, x, m), Cut(t, b, r) PROVE FALSE
    <3>1. PICK q \in N : Cut(q, m, r) /\ Cut(t, x, q)
      BY <1>5, <2>1, CutLeft
    <3>2. PICK cx \in N : Cut(cx, c, x) /\ Cut(w, cx, q)
      BY <1>1, <3>1, CutRight
    <3>3. Holds(w, m)
      BY <1>5, <3>1, <3>2, HoldsAt
    <3> QED BY <1>61, <3>3
  <2>2. \A x \in N, b \in N, r \in N : ~(Cut(b, x, m) /\ Cut(t, b, r))
    BY <2>1
  <2> QED BY <1>5, <2>2, NotBeforeRest
<1>10. FillsTo(items, end, k, j, rest, fs, c, t, tp, s)
  BY <1>1, <1>4, <1>8, <1>9 DEF FillsTo, v, f, d, m, w
<1> QED BY <1>10

\* the line that closes the item is found: the item is whole
LEMMA FillsWhole ==
  ASSUME NEW items \in Seq(ItemType), NEW after \in Texts, NEW end, end = finish \o after, NEW k \in Nat,
         NEW j \in k + 1..Len(items), PlainItem(items[j]), NEW b \in Seq(Nat), NEW y \in Seq(Nat),
         NEW rest \in Seq(Nat), Cut(rest, b, y), NEW fs, FillsAt(items, end, k, j, rest, fs),
         Spots(b, Mark) # {}, NEW p, p = Min(Spots(b, Mark)), NEW gs,
         gs = [fs EXCEPT ![Len(fs)].content = @ \o SubSeq(b, 1, p)]
  PROVE  /\ p + Len(Mark) \in 0..Len(b)
         /\ \E r \in Seq(Nat) : /\ Cut(r, SubSeq(b, p + Len(Mark) + 1, Len(b)), y)
                                /\ ClosesAt(items, end, k, j, r, gs)
<1> DEFINE N == Seq(Nat)
           m == Mark
           g == Expected(items[j])
           w == Whole(items, k, j - 1)
<1>0. j \in 1..Len(items)
  OBVIOUS
<1>1. PICK c, t, tp, s \in N : FillsTo(items, end, k, j, rest, fs, c, t, tp, s)
  BY <1>0, FillsMark
<1>2. /\ Cut(items[j].content, c, t) /\ fs = Append(w, [g EXCEPT !.content = c])
      /\ Cut(tp, t, m) /\ Cut(rest, tp, s) /\ NotBefore(t, m) /\ Cut(From(items, end, j + 1), Delimiter, s)
  BY <1>1 DEF FillsTo
<1>3. m \in N /\ m # <<>>
  BY MarkChars
<1>4. p = Len(t) /\ SubSeq(b, 1, p) = t /\ p + Len(m) \in 0..Len(b)
      /\ Cut(s, SubSeq(b, p + Len(m) + 1, Len(b)), y)
  <2>1. Spots(b, m) # {} /\ p = Min(Spots(b, m))
    OBVIOUS
  <2>0. b \in N /\ y \in N /\ Cut(rest, b, y) /\ t \in N /\ s \in N
    OBVIOUS
  <2> HIDE DEF m
  <2>2. /\ Min(Spots(b, m)) = Len(t) /\ SubSeq(b, 1, Len(t)) = t /\ Len(t) + Len(m) \in 0..Len(b)
        /\ Cut(s, SubSeq(b, Len(t) + Len(m) + 1, Len(b)), y)
    <3>1. FindsAt(b, y, t, m, s)
      BY ONLY <2>0, <1>2, <1>3, <2>1, BufferFind
    <3> QED BY <2>1, <3>1 DEF FindsAt
  <2> QED BY <2>1, <2>2
<1>5. PICK S : w \in Seq(S) /\ g \in S
  BY WholeNext
<1>6. Whole(items, k, j) = Append(w, g)
  BY WholeNext
<1>7. items[j].content = c \o t /\ g.content = items[j].content
  BY <1>2 DEF Cut, Expected
<1> DEFINE e == [g EXCEPT !.content = c]
           T == S \cup {e}
           x == c \o t
<1>8. w \in Seq(T) /\ e \in T
  BY <1>5, SeqOfMore
<1>9. e.content = c /\ [e EXCEPT !.content = x] = g
  <2> DEFINE gg == [name |-> items[j].name, type |-> items[j].type, content |-> items[j].content,
                    filename |-> IF items[j].extended = <<>> THEN items[j].filename
                                 ELSE decode_url(Tail(items[j].extended), FALSE)]
  <2>1. g = gg /\ g.content = x
    BY <1>7 DEF Expected
  <2>2. e.content = c
    BY <2>1
  <2>3. [e EXCEPT !.content = x] = [g EXCEPT !.content = x]
    OBVIOUS
  <2>4. [g EXCEPT !.content = x] = g
    <3>1. g = [i \in DOMAIN g |-> g[i]]
      BY <2>1
    <3> HIDE DEF g, x
    <3> QED BY <3>1, <2>1
  <2> QED BY <2>2, <2>3, <2>4
<1> HIDE DEF T, e, g, w, x
<1>10. fs = Append(w, e)
  BY <1>2 DEF e
<1>11. fs[Len(fs)] = e /\ LastContent(fs, x) = Append(w, WithContent(e, x))
  <2>1. LongerBy(fs, w, e)
    BY <1>10 DEF LongerBy
  <2>2. LastFile(fs) = e /\ LongerBy(LastContent(fs, x), w, WithContent(e, x))
    BY ONLY <1>8, <2>1, LastChanged
  <2> QED BY <2>2 DEF LastFile, LongerBy
<1>12. gs = LastContent(fs, x)
  <2>1. fs[Len(fs)].content = c
    BY <1>9, <1>11
  <2>2. gs = [fs EXCEPT ![Len(fs)].content = fs[Len(fs)].content \o SubSeq(b, 1, p)]
    OBVIOUS
  <2> QED BY <1>4, <2>1, <2>2 DEF x, LastContent
<1>13. gs = Whole(items, k, j)
  BY <1>6, <1>9, <1>11, <1>12 DEF WithContent
<1>14. ClosesAt(items, end, k, j, s, gs)
  BY <1>2, <1>13 DEF ClosesAt
<1> QED BY <1>4, <1>14

\* what is held back, and what is collected
HeldBack(b, n)   == n = Len(b) - Len(Mark)
Grown(fs, gs, x) == gs = [fs EXCEPT ![Len(fs)].content = @ \o x]

\* what cannot belong to the line that closes the item is content
LEMMA FillsMore ==
  ASSUME NEW items \in Seq(ItemType), NEW after \in Texts, NEW end, end = finish \o after, NEW k \in Nat,
         NEW j \in k + 1..Len(items), PlainItem(items[j]), NEW b \in Seq(Nat), NEW y \in Seq(Nat),
         NEW rest \in Seq(Nat), Cut(rest, b, y), NEW fs, FillsAt(items, end, k, j, rest, fs),
         Spots(b, Mark) = {}, NEW n \in 0..Len(b), HeldBack(b, n), NEW gs,
         Grown(fs, gs, SubSeq(b, 1, n))
  PROVE  \E r \in Seq(Nat) : /\ Cut(r, SubSeq(b, n + 1, Len(b)), y)
                             /\ FillsAt(items, end, k, j, r, gs)
<1> DEFINE N == Seq(Nat)
           m == Mark
           g == Expected(items[j])
           w == Whole(items, k, j - 1)
           h == SubSeq(b, 1, n)
           v == Closed(items, end, j)
<1> USE DEF HeldBack, Grown
<1>0. j \in 1..Len(items)
  OBVIOUS
<1>1. PICK c, t, tp, s \in N : FillsTo(items, end, k, j, rest, fs, c, t, tp, s)
  BY <1>0, FillsMark
<1>2. /\ Cut(items[j].content, c, t) /\ fs = Append(w, [g EXCEPT !.content = c]) /\ Cut(rest, t, v)
      /\ Cut(tp, t, m) /\ Cut(rest, tp, s) /\ NotBefore(t, m)
  BY <1>1 DEF FillsTo
<1>3. m \in N /\ m # <<>>
  BY MarkChars
<1>31. v \in N
  <2>1. end \in N
    BY EndText
  <2> QED BY <1>0, <2>1, FromItem
<1>4. ~(Len(t) + Len(m) <= Len(b)) /\ Len(t) \in Nat /\ Len(m) \in Nat /\ Len(b) \in Nat
  <2>1. Spots(b, m) = {}
    OBVIOUS
  <2>0. b \in N /\ y \in N /\ Cut(rest, b, y) /\ t \in N /\ s \in N
    OBVIOUS
  <2> HIDE DEF m
  <2>2. Spots(b, m) # {} <=> Len(t) + Len(m) <= Len(b)
    <3>1. FindsAt(b, y, t, m, s)
      BY ONLY <2>0, <1>2, <1>3, BufferFind
    <3> QED BY <3>1 DEF FindsAt
  <2> QED BY <1>3, <2>1, <2>2, LenProperties
<1>41. h \in N /\ Len(h) = n
  BY BufferErase
<1>42. PICK r \in N : Cut(rest, h, r) /\ Cut(r, SubSeq(b, n + 1, Len(b)), y)
  BY BufferErase
<1>43. Len(h) <= Len(t)
  BY <1>4, <1>41
<1> HIDE DEF h, v
<1>44. \E z \in N : Cut(t, h, z) /\ Cut(r, z, v)
  <2>1. t \in N /\ v \in N /\ h \in N /\ r \in N /\ Cut(rest, t, v) /\ Cut(rest, h, r) /\ Len(h) <= Len(t)
    BY <1>2, <1>31, <1>41, <1>42, <1>43
  <2> QED BY ONLY <2>1, FrontCut
<1>45. PICK z \in N : Cut(t, h, z) /\ Cut(r, z, v)
  BY <1>44
<1>46. PICK ch \in N : Cut(ch, c, h) /\ Cut(items[j].content, ch, z)
  BY <1>2, <1>41, <1>45, CutRight
<1>5. PICK S : w \in Seq(S) /\ g \in S
  BY WholeNext
<1> DEFINE e == [g EXCEPT !.content = c]
           T == S \cup {e}
           x == c \o h
<1>8. w \in Seq(T) /\ e \in T
  BY <1>5, SeqOfMore
<1>9. e.content = c /\ [e EXCEPT !.content = x] = [g EXCEPT !.content = x]
  <2>1. DOMAIN g = {"name", "type", "content", "filename"}
    BY DEF Expected
  <2> HIDE DEF g, x
  <2> QED BY <2>1
<1> HIDE DEF T, e, g, w, x
<1>10. fs = Append(w, e)
  BY <1>2 DEF e
<1>11. fs[Len(fs)] = e /\ LastContent(fs, x) = Append(w, WithContent(e, x))
  <2>1. LongerBy(fs, w, e)
    BY <1>10 DEF LongerBy
  <2>2. LastFile(fs) = e /\ LongerBy(LastContent(fs, x), w, WithContent(e, x))
    BY ONLY <1>8, <2>1, LastChanged
  <2> QED BY <2>2 DEF LastFile, LongerBy
<1>12. gs = LastContent(fs, x)
  <2>1. fs[Len(fs)].content = c
    BY <1>9, <1>11
  <2>2. gs = [fs EXCEPT ![Len(fs)].content = fs[Len(fs)].content \o h]
    BY DEF h
  <2> QED BY <2>1, <2>2 DEF x, LastContent
<1>13. gs = Append(w, [g EXCEPT !.content = ch])
  <2>1. ch = x
    BY <1>46 DEF Cut, x
  <2> QED BY <1>9, <1>11, <1>12, <2>1 DEF WithContent
<1>14. FillsAt(items, end, k, j, r, gs)
  BY <1>13, <1>45, <1>46 DEF FillsAt, Texts, g, w, v
<1> QED BY <1>14, <1>42

\* the line that closes an item is found in what has come whole
LEMMA FillsFound ==
  ASSUME NEW items \in Seq(ItemType), NEW after \in Texts, NEW end, end = finish \o after, NEW k,
         NEW j \in 1..Len(items), PlainItem(items[j]), NEW rest \in Seq(Nat), NEW fs,
         FillsAt(items, end, k, j, rest, fs)
  PROVE  Spots(rest, Mark) # {}
<1>1. PICK c, t, tp, s \in Seq(Nat) : FillsTo(items, end, k, j, rest, fs, c, t, tp, s)
  BY FillsMark
<1>2. Cut(tp, t, Mark) /\ Cut(rest, tp, s) /\ Mark \in Seq(Nat)
  BY <1>1, MarkChars DEF FillsTo
<1>3. Len(t) \in Spots(rest, Mark)
  BY <1>2, CutSpot
<1> QED BY <1>3

\* what comes behind a boundary tells whether there is a next item
LEMMA ClosesNext ==
  ASSUME NEW items \in Seq(ItemType), NEW after \in Texts, NEW end, end = finish \o after, NEW k,
         NEW j \in 1..Len(items), NEW rest \in Seq(Nat), NEW fs, ClosesAt(items, end, k, j, rest, fs)
  PROVE  /\ j # Len(items) => Cut(rest, crlf_, Opened(items, end, j + 1))
         /\ j = Len(items) => Cut(rest, dash_, Tailing(after))
         /\ \A r \in Seq(Nat) : Cut(rest, crlf_, r) =>
              j # Len(items) /\ StartsAt(items, end, k, j + 1, r, fs)
         /\ \A r \in Seq(Nat) : Cut(rest, dash_, r) => j = Len(items)
<1> DEFINE N == Seq(Nat)
           i == j + 1
           f == From(items, end, i)
           o == Opened(items, end, i)
           d == Delimiter
           c == crlf_
           h == dash_
           u == Tailing(after)
           last == j = Len(items)
<1>1. i \in 1..Len(items) + 1 /\ (last <=> i = Len(items) + 1) /\ j = i - 1 /\ (~last => i \in 1..Len(items))
  BY LenProperties
<1>2. Cut(f, d, rest) /\ fs = Whole(items, k, i - 1) /\ d \in N
  BY <1>1, DelimiterChars DEF ClosesAt
<1>3. end \in N /\ u \in N
  BY EndText
<1> HIDE DEF i
<1>4. ~last => o \in N /\ Cut(f, Start, o)
  BY <1>1, <1>3, FromItem
<1>5. PICK s \in N : Cut(f, d, s) /\ (~last => Cut(s, c, o)) /\ (last => Cut(s, h, u))
  <2>1. \E s \in N : /\ Cut(From(items, end, i), Delimiter, s)
                     /\ i # Len(items) + 1 => Cut(s, crlf_, Opened(items, end, i))
                     /\ i = Len(items) + 1 => Cut(s, dash_, Tailing(after))
    BY <1>1, FromDelimiter
  <2> QED BY <1>1, <2>1
<1>6. /\ c \in N /\ c # <<>> /\ h \in N /\ h # <<>> /\ c[1] # h[1]
  BY Constants DEF Texts, Cr, Dash
<1> HIDE DEF f, o, d, c, h, u, last
<1>7. s = rest
  BY <1>2, <1>5, CutSame
<1>8. ASSUME NEW r \in N, Cut(rest, c, r) PROVE ~last /\ r = o
  <2>1. rest[1] = c[1]
    BY <1>6, <1>8, FirstOf
  <2>2. ~last
    <3> SUFFICES ASSUME last PROVE FALSE
      OBVIOUS
    <3>1. Cut(rest, h, u)
      BY <1>5, <1>7
    <3>2. rest[1] = h[1]
      BY <1>3, <1>6, <3>1, FirstOf
    <3> QED BY <1>6, <2>1, <3>2
  <2>3. Cut(rest, c, o) /\ o \in N
    BY <1>4, <1>5, <1>7, <2>2
  <2> QED BY <1>6, <1>8, <2>2, <2>3, CutSame
<1>9. ASSUME NEW r \in N, Cut(rest, h, r) PROVE last
  <2> SUFFICES ASSUME ~last PROVE FALSE
    OBVIOUS
  <2>1. rest[1] = h[1]
    BY <1>6, <1>9, FirstOf
  <2>2. Cut(rest, c, o) /\ o \in N
    BY <1>4, <1>5, <1>7
  <2>3. rest[1] = c[1]
    BY <1>6, <2>2, FirstOf
  <2> QED BY <1>6, <2>1, <2>3
<1>10. ASSUME NEW r \in N, Cut(rest, c, r) PROVE StartsAt(items, end, k, i, r, fs)
  <2>1. Cut(f, Start, r)
    BY <1>4, <1>8, <1>10
  <2> QED BY <1>2, <2>1 DEF StartsAt, f
<1>11. (~last => Cut(rest, c, o)) /\ (last => Cut(rest, h, u))
  BY <1>5, <1>7
<1> QED BY <1>8, <1>9, <1>10, <1>11 DEF last, c, h, u, o, i

----------------------------------------------------------------------------
(* Before the first item, and behind the last one *)

LEMMA OverLine ==
  ASSUME NEW end, NEW rest \in Seq(Nat), OverAt(end, 2, rest), NEW row \in Seq(Nat), NEW e \in Seq(Nat),
         NEW r \in Seq(Nat), Cut(e, row, crlf_), Cut(rest, e, r)
  PROVE  OverAt(end, 2, r)
<1> DEFINE N == Seq(Nat)
           c == crlf_
<1>1. PICK y \in N, u \in N : Cut(u, y, c) /\ Cut(end, u, rest)
  BY DEF OverAt, Texts
<1>2. c \in N /\ Cut(e, row, c)
  BY Constants DEF Texts
<1> HIDE DEF c
<1>3. PICK v \in N : Cut(v, u, e) /\ Cut(end, v, r)
  BY <1>1, CutRight
<1>4. PICK z \in N : Cut(z, u, row) /\ Cut(v, z, c)
  BY <1>2, <1>3, CutRight
<1>5. z \in Texts /\ v \in Texts /\ Cut(v, z, crlf_) /\ Cut(end, v, r)
  BY <1>3, <1>4 DEF Texts, c
<1> QED BY <1>5 DEF OverAt

LEMMA OverNew ==
  ASSUME NEW end, NEW rest, OverAt(end, 1, rest) PROVE OverAt(end, 2, rest)
BY DEF OverAt

LEMMA OverBoundary ==
  ASSUME NEW end, NEW rest \in Seq(Nat), OverAt(end, 4, rest), NEW r \in Seq(Nat)
  PROVE  /\ Cut(rest, crlf_, r) => OverAt(end, 1, r)
         /\ \A x \in Seq(Nat) : Cut(rest, x, r) => OverAt(end, 4, r)
<1> DEFINE N == Seq(Nat)
           c == crlf_
<1>1. PICK y \in N : Cut(end, y, rest)
  BY DEF OverAt, Texts
<1>2. c \in N
  BY Constants DEF Texts
<1> HIDE DEF c
<1>3. ASSUME NEW x \in N, Cut(rest, x, r)
      PROVE  \E u \in N : Cut(u, y, x) /\ Cut(end, u, r)
  BY <1>1, <1>3, CutRight
<1>4. ASSUME Cut(rest, c, r) PROVE OverAt(end, 1, r)
  <2>1. PICK u \in N : Cut(u, y, c) /\ Cut(end, u, r)
    BY <1>2, <1>3, <1>4
  <2> QED BY <2>1 DEF OverAt, Texts, c
<1>5. ASSUME NEW x \in N, Cut(rest, x, r) PROVE OverAt(end, 4, r)
  <2>1. PICK u \in N : Cut(end, u, r)
    BY <1>3, <1>5
  <2> QED BY <2>1 DEF OverAt, Texts
<1> QED BY <1>4, <1>5 DEF c

LEMMA ClosesOver ==
  ASSUME NEW items \in Seq(ItemType), NEW end \in Seq(Nat), NEW k, NEW j, j = Len(items),
         NEW rest \in Seq(Nat), NEW fs, ClosesAt(items, end, k, j, rest, fs), NEW x \in Seq(Nat),
         NEW r \in Seq(Nat), Cut(rest, x, r)
  PROVE  OverAt(end, 4, r)
<1>1. From(items, end, j + 1) = end
  <2>1. j + 1 \in 1..Len(items) + 1 /\ j + 1 = Len(items) + 1
    BY LenProperties
  <2> QED BY <2>1, FromType
<1>2. Cut(end, Delimiter, rest) /\ Delimiter \in Texts
  BY <1>1, DelimiterChars DEF ClosesAt, Texts
<1>3. OverAt(end, 4, rest)
  BY <1>2 DEF OverAt
<1> QED BY <1>3, OverBoundary

LEMMA WaitsOn ==
  ASSUME NEW items \in Seq(ItemType), NEW end \in Seq(Nat), NEW rest \in Seq(Nat), NEW fs,
         WaitsAt(items, end, rest, fs), NEW x \in Seq(Nat), NEW r \in Seq(Nat), Cut(rest, x, r)
  PROVE  WaitsAt(items, end, r, fs)
<1> DEFINE f == From(items, end, 1)
<1>1. fs = <<>> /\ \E z \in Seq(Nat) : Cut(f, z, rest)
  BY DEF WaitsAt, Texts
<1>2. PICK z \in Seq(Nat) : Cut(f, z, rest)
  BY <1>1
<1> HIDE DEF f
<1>3. \E u \in Seq(Nat) : Cut(u, z, x) /\ Cut(f, u, r)
  BY <1>2, CutRight
<1> QED BY <1>1, <1>3 DEF WaitsAt, Texts, f

LEMMA WaitsFound ==
  ASSUME NEW items \in Seq(ItemType), NEW end \in Seq(Nat), NEW rest \in Seq(Nat), NEW fs,
         \A k \in DOMAIN items : ~LooksLikeStart(items[k]),
         WaitsAt(items, end, rest, fs), NEW b \in Seq(Nat), NEW y \in Seq(Nat), Cut(rest, b, y),
         Spots(b, Start) # {}, NEW p, p = Min(Spots(b, Start))
  PROVE  /\ p + Len(Start) \in 0..Len(b)
         /\ \E r \in Seq(Nat) :
              /\ Cut(r, SubSeq(b, p + Len(Start) + 1, Len(b)), y)
              /\ \/ \E j \in 1..Len(items) : StartsAt(items, end, j - 1, j, r, fs)
                 \/ OverAt(end, 1, r)
<1> DEFINE N == Seq(Nat)
           f == From(items, end, 1)
           d == Start
<1>1. fs = <<>> /\ \E z \in N : Cut(f, z, rest)
  BY DEF WaitsAt, Texts
<1>2. PICK x \in N : Cut(f, x, rest)
  BY <1>1
<1>3. d \in N
  BY StartText
<1>4. \E a \in N, ap \in N, r \in N :
        /\ Cut(ap, a, d) /\ Cut(rest, ap, r) /\ SubSeq(b, 1, p) = a /\ Len(a) = p
        /\ Cut(r, SubSeq(b, p + Len(d) + 1, Len(b)), y) /\ p \in Nat /\ p + Len(d) \in 0..Len(b)
  <2>1. Spots(b, d) # {} /\ p = Min(Spots(b, d)) /\ Cut(rest, b, y) /\ b \in N /\ y \in N
    OBVIOUS
  <2> HIDE DEF d
  <2>2. FoundHere(rest, b, y, d, Min(Spots(b, d)))
    BY ONLY <1>3, <2>1, BufferFound
  <2> QED BY <2>1, <2>2 DEF FoundHere
<1>5. PICK a \in N, ap \in N, r \in N :
        /\ Cut(ap, a, d) /\ Cut(rest, ap, r)
        /\ Cut(r, SubSeq(b, p + Len(d) + 1, Len(b)), y) /\ p + Len(d) \in 0..Len(b)
  BY <1>4
<1>6. PICK t \in N : Cut(t, d, r) /\ Cut(rest, a, t)
  <2> HIDE DEF d
  <2> QED BY <1>3, <1>5, CutLeft
<1>7. PICK xa \in N : Cut(xa, x, a) /\ Cut(f, xa, t)
  <2> HIDE DEF f
  <2> QED BY <1>2, <1>6, CutRight
<1>8. \/ \E j \in 1..Len(items) : t = From(items, end, j)
      \/ \E u \in N : Cut(end, u, t)
  <2>1. /\ xa \in N /\ t \in N /\ r \in N /\ Cut(From(items, end, 1), xa, t) /\ Cut(t, Start, r)
        /\ items \in Seq(ItemType) /\ end \in Seq(Nat) /\ \A k \in DOMAIN items : ~LooksLikeStart(items[k])
    BY <1>6, <1>7
  <2> QED BY ONLY <2>1, StartFound
<1>9. CASE \E j \in 1..Len(items) : t = From(items, end, j)
  <2>1. PICK j \in 1..Len(items) : t = From(items, end, j)
    BY <1>9
  <2>2. j - 1 \in Nat
    OBVIOUS
  <2> DEFINE i == j - 1
  <2> HIDE DEF i
  <2>3. fs = Whole(items, i, i)
    BY <1>1, <2>2, WholeNone DEF i
  <2>4. StartsAt(items, end, j - 1, j, r, fs)
    BY <1>6, <2>1, <2>3 DEF StartsAt, i
  <2> QED BY <1>5, <2>4
<1>10. CASE \E u \in N : Cut(end, u, t)
  <2>1. PICK u \in N : Cut(end, u, t)
    BY <1>10
  <2> DEFINE c == crlf_
             dd == Delimiter
  <2>2. dd \in N /\ Cut(d, dd, c) /\ c \in N
    BY DelimiterChars, Constants DEF Texts
  <2> HIDE DEF c, d, dd
  <2>3. PICK ud \in N : Cut(ud, u, d) /\ Cut(end, ud, r)
    BY <1>3, <1>6, <2>1, CutRight
  <2>4. PICK z \in N : Cut(z, u, dd) /\ Cut(ud, z, c)
    BY <2>2, <2>3, CutRight
  <2>5. OverAt(end, 1, r)
    BY <2>3, <2>4 DEF OverAt, Texts, c
  <2> QED BY <1>5, <2>5 DEF d
<1> QED BY <1>8, <1>9, <1>10

\* the first boundary line has come whole, and nothing in front of it
LEMMA WaitsFirst ==
  ASSUME NEW items \in Seq(ItemType), items # <<>>, NEW end \in Seq(Nat), NEW b \in Seq(Nat),
         NEW y \in Seq(Nat), Cut(From(items, end, 1), b, y), Len(Start) <= Len(b)
  PROVE  /\ Spots(b, Start) # {} /\ Min(Spots(b, Start)) = 0 /\ Len(Start) \in 0..Len(b)
         /\ 1 \in 1..Len(items)
         /\ \E r \in Seq(Nat) : /\ Cut(r, SubSeq(b, Len(Start) + 1, Len(b)), y)
                                /\ StartsAt(items, end, 0, 1, r, <<>>)
<1> DEFINE N == Seq(Nat)
           f == From(items, end, 1)
           d == Start
           e == <<>>
           r == Opened(items, end, 1)
           one == 1
<1>1. one \in 1..Len(items)
  BY EmptySeq, LenProperties
<1>2. r \in N /\ f \in N /\ Cut(f, d, r)
  <2> HIDE DEF one
  <2>1. /\ From(items, end, one) \in N /\ Opened(items, end, one) \in N
        /\ Cut(From(items, end, one), Start, Opened(items, end, one))
    BY <1>1, FromItem
  <2> QED BY <2>1 DEF one
<1>3. d \in N /\ d # <<>> /\ e \in N /\ Cut(d, e, d) /\ Len(d) \in Nat /\ Len(e) = 0
  BY StartText, StartChars, ConcatEmptySeq, EmptySeq, LenProperties DEF Cut
<1>4. NotBefore(e, d)
  <2>1. 0..Len(e) - 1 = {}
    BY <1>3
  <2> QED BY <2>1 DEF NotBefore
<1>5. Cut(f, b, y) /\ Len(d) <= Len(b)
  OBVIOUS
<1> HIDE DEF d, f, e, r
<1>51. Len(e) + Len(d) = Len(d)
  BY <1>3
<1>52. b \in N /\ y \in N
  OBVIOUS
<1>53. FindsAt(b, y, e, d, r)
  BY ONLY <1>2, <1>3, <1>4, <1>5, <1>52, BufferFind
<1>6. Spots(b, d) # {}
  <2>1. Spots(b, d) # {} <=> Len(e) + Len(d) <= Len(b)
    BY <1>53 DEF FindsAt
  <2> QED BY <1>5, <1>51, <2>1
<1>7. /\ Min(Spots(b, d)) = Len(e) /\ Len(e) + Len(d) \in 0..Len(b)
      /\ Cut(r, SubSeq(b, Len(e) + Len(d) + 1, Len(b)), y)
  BY <1>53, <1>6 DEF FindsAt
<1>8. Min(Spots(b, d)) = 0 /\ Len(d) \in 0..Len(b) /\ Cut(r, SubSeq(b, Len(d) + 1, Len(b)), y)
  BY <1>3, <1>51, <1>7
<1>9. StartsAt(items, end, 0, 1, r, <<>>)
  <2>1. Whole(items, 0, 0) = <<>> /\ 1 - 1 = 0
    BY WholeNone
  <2>2. Whole(items, 0, 1 - 1) = <<>>
    BY <2>1
  <2> QED BY <1>2, <2>2 DEF StartsAt, f, d
<1> QED BY <1>1, <1>2, <1>6, <1>8, <1>9 DEF d, one

----------------------------------------------------------------------------
(* What a client has still to write *)

\* text after the form, which providers cannot write
After   == IF req.provided = 0 THEN req.after ELSE <<>>
Ending  == finish \o After
Left(j) == From(req.items, Ending, j)

\* what is left when i characters of the content of item k are written
Half(k, i) == SubSeq(req.items[k].content, i + 1, Len(req.items[k].content)) \o Closed(req.items, Ending, k)

ToWrite == IF ended = "whole" THEN <<>>
           ELSE IF cur_start = 0 THEN Left(IF offset = 0 THEN 1 ELSE Len(Given) + cur_item)
           ELSE Half(Len(Given) + cur_item, offset - cur_start)

Coming == wire \o ToWrite
Rest   == buf \o Coming

ClientInv ==
  /\ offset \in Nat /\ cur_start \in Nat /\ cur_item \in 1..req.provided + 1
  /\ ended \in {"no", "whole", "broken"} /\ wire \in Texts
  /\ offset = 0 => cur_item = 1 /\ cur_start = 0 /\ ended # "whole"
  /\ req.provided = 0 => (ended = "no" => offset = 0) /\ cur_start = 0
  /\ cur_start # 0 => /\ cur_item <= req.provided
                      /\ offset - cur_start \in 0..Len(req.items[Len(Given) + cur_item].content)

LEMMA Items ==
  ASSUME req \in Requests
  PROVE  /\ req.items \in Seq(ItemType) /\ Len(req.items) \in Nat /\ req.provided \in 0..Len(req.items)
         /\ After \in Texts /\ Ending \in Seq(Nat) /\ DOMAIN req.items = 1..Len(req.items)
<1>1. req.items \in Seq(ItemType) /\ req.provided \in Nat /\ req.after \in Texts /\ req.provided <= Len(req.items)
  BY RequestTyped, FormsAssumption DEF Text
<1>2. After \in Texts
  BY <1>1, EmptySeq DEF After, Texts
<1>3. Ending \in Seq(Nat)
  BY <1>2, EndText DEF Ending
<1>4. Len(req.items) \in Nat /\ DOMAIN req.items = 1..Len(req.items)
  BY <1>1, LenProperties
<1> QED BY <1>1, <1>2, <1>3, <1>4

LEMMA GivenItems ==
  ASSUME req \in Requests
  PROVE  /\ Given \in Seq(ItemType) /\ Len(Given) = Len(req.items) - req.provided /\ Len(Given) \in Nat
         /\ Len(Providers) = req.provided
         /\ \A i \in 1..req.provided : Providers[i] = req.items[Len(Given) + i]
         /\ Given \o Providers = req.items /\ Providers \in Seq(ItemType)
<1> DEFINE s == req.items
           n == Len(s)
           v == req.provided
           g == n - v
           p == SubSeq(s, g + 1, n)
<1>1. s \in Seq(ItemType) /\ n \in Nat /\ v \in 0..n
  BY Items
<1> HIDE DEF v, s
<1>2. g \in 0..Len(s) /\ g \in Nat /\ n - g = v
  BY <1>1
<1> HIDE DEF g
<1>3. /\ SubSeq(s, 1, g) \in Seq(ItemType) /\ Len(SubSeq(s, 1, g)) = g
      /\ p \in Seq(ItemType) /\ Len(p) = n - g /\ SubSeq(s, 1, g) \o p = s
  BY <1>1, <1>2, CutInTwo
<1>4. Given = SubSeq(s, 1, g)
  BY DEF Given, s, g, v
<1>5. Providers = p
  BY <1>3, <1>4 DEF Providers, s
<1>6. \A i \in 1..v : p[i] = s[g + i]
  <2>1. ASSUME NEW i \in 1..v PROVE p[i] = s[g + i]
    <3>1. g \in Nat /\ n \in Nat /\ n <= Len(s) /\ i \in 1..n - g
      BY <1>1, <1>2
    <3> HIDE DEF n
    <3> QED BY <1>1, <3>1, PartOf
  <2> QED BY <2>1
<1>7. g = n - v
  BY DEF g
<1> HIDE DEF p
<1>8. /\ Given \in Seq(ItemType) /\ Len(Given) = g /\ Len(Providers) = v /\ Given \o Providers = s
      /\ Providers \in Seq(ItemType)
  BY <1>2, <1>3, <1>4, <1>5
<1>9. \A i \in 1..v : Providers[i] = s[Len(Given) + i]
  BY <1>5, <1>6, <1>8
<1> QED BY <1>2, <1>7, <1>8, <1>9 DEF s, v

\* the texts that a client writes are what it has still to write, from the beginning
LEMMA LeftWhole ==
  ASSUME req \in Requests, req.provided = 0
  PROVE  serialize(req.items) \o finish \o req.after = Left(1)
<1> DEFINE s == req.items
           n == Len(s)
           w == Spelled(ItemWhole, s)
<1>1. s \in Seq(ItemType) /\ n \in Nat /\ req.after \in Texts
  BY Items, RequestTyped DEF Text
<1>2. SubSeq(s, 1, n) = s
  BY <1>1, SubSeqFull
<1>3. serialize(s) = w /\ w \in Seq(Nat)
  BY <1>1, SerializeSpells
<1>4. finish \in Seq(Nat)
  <2>1. <<>> \in Texts /\ finish \o <<>> \in Seq(Nat)
    BY EndText, EmptySeq DEF Texts
  <2> QED BY Constants, ConcatProperties DEF finish, Texts
<1>5. (w \o finish) \o req.after = w \o (finish \o req.after)
  <2>1. w \in Seq(Nat) /\ finish \in Seq(Nat) /\ req.after \in Seq(Nat)
    BY <1>1, <1>3, <1>4 DEF Texts
  <2> HIDE DEF w
  <2> QED BY <2>1, TextsAssociative
<1> QED BY <1>2, <1>3, <1>5 DEF Left, From, Ending, After

LEMMA LeftGiven ==
  ASSUME req \in Requests
  PROVE  /\ Cut(Left(1), serialize(Given), Left(Len(Given) + 1)) /\ serialize(Given) \in Seq(Nat)
         /\ Given # <<>> => serialize(Given) # <<>>
<1> DEFINE s == req.items
           n == Len(s)
           p == Given
           q == Providers
           g == Len(p)
           f == ItemWhole
           fs == Spelled(f, s)
           fp == Spelled(f, p)
           fq == Spelled(f, q)
           x == Left(1)
           y == Left(g + 1)
<1>1. p \in Seq(ItemType) /\ q \in Seq(ItemType) /\ p \o q = s /\ g \in Nat /\ g = n - req.provided
  BY GivenItems
<1>2. n \in Nat /\ req.provided \in 0..n /\ Ending \in Seq(Nat) /\ s \in Seq(ItemType)
  BY Items
<1>3. q = SubSeq(s, g + 1, n)
  BY DEF Providers
<1>4. f \in [ItemType -> Seq(Nat)]
  BY ItemWholeType
<1>5. serialize(p) = fp /\ fp \in Seq(Nat) /\ fq \in Seq(Nat)
  BY <1>1, SerializeSpells
<1>6. SubSeq(s, 1, n) = s
  BY <1>2, SubSeqFull
<1>7. Cut(fs, fp, fq)
  <2> HIDE DEF p, q, f
  <2>1. Cut(Spelled(f, p \o q), Spelled(f, p), Spelled(f, q))
    BY <1>1, <1>4, SpelledConcat
  <2> QED BY <1>1, <2>1
<1>8. x = fs \o Ending /\ y = fq \o Ending
  BY <1>3, <1>6 DEF Left, From
<1>9. y \in Seq(Nat) /\ x = fp \o y
  <2> HIDE DEF fs, fp, fq, x, y
  <2>1. (fp \o fq) \o Ending = fp \o (fq \o Ending)
    BY <1>2, <1>5, TextsAssociative
  <2>2. y \in Seq(Nat)
    BY <1>2, <1>5, <1>8, ConcatProperties
  <2> QED BY <1>7, <1>8, <2>1, <2>2 DEF Cut
<1>10. ASSUME p # <<>> PROVE fp # <<>>
  <2> DEFINE one == 1
  <2>1. one \in 1..Len(p)
    BY <1>1, <1>10, EmptySeq, LenProperties
  <2> HIDE DEF one
  <2>2. p[one] \in ItemType
    BY <1>1, <2>1, ElementOfSeq
  <2> DEFINE e == <<>>
             h == From(p, e, one)
             i == item_begin(p[one])
             z == Behind(p, e, one)
             o == Opened(p, e, one)
  <2>3. e \in Seq(Nat)
    BY EmptySeq
  <2>4. Cut(h, Start, o) /\ o \in Seq(Nat) /\ h \in Seq(Nat)
    <3> HIDE DEF e
    <3> QED BY <1>1, <2>1, <2>3, FromItem
  <2>5. Start \in Seq(Nat) /\ Start # <<>>
    BY StartText, StartChars
  <2>6. h = fp
    <3>1. SubSeq(p, 1, Len(p)) = p
      BY <1>1, SubSeqFull
    <3>2. fp \o <<>> = fp
      <4> HIDE DEF fp
      <4> QED BY <1>5, ConcatEmptySeq
    <3> QED BY <3>1, <3>2 DEF From, one
  <2> HIDE DEF h, o, fp
  <2>7. Len(h) = Len(Start) + Len(o) /\ Len(Start) \in Nat /\ Len(o) \in Nat
    BY <2>4, <2>5, CutPieces
  <2>8. Len(Start) # 0
    BY <2>5, EmptySeq
  <2>9. Len(h) # 0
    BY <2>7, <2>8
  <2> QED BY <2>6, <2>9, EmptySeq
<1> QED BY <1>5, <1>9, <1>10 DEF Cut

LEMMA LeftType ==
  ASSUME req \in Requests, NEW j \in 1..Len(req.items) + 1
  PROVE  /\ Left(j) \in Seq(Nat) /\ (j = Len(req.items) + 1 => Left(j) = Ending)
BY Items, FromType DEF Left

HalfAt(k, c, i) ==
  /\ Half(k, i) \in Seq(Nat) /\ c \in Seq(Nat) /\ Len(c) \in Nat
  /\ item_begin(req.items[k]) \in Seq(Nat) /\ item_begin(req.items[k]) # <<>>
  /\ i = 0 => Cut(Left(k), item_begin(req.items[k]), Half(k, i))
  /\ i = Len(c) => Cut(Half(k, i), crlf_, Left(k + 1))
  /\ \A n \in 0..Len(c) - i : /\ Cut(Half(k, i), SubSeq(c, i + 1, i + n), Half(k, i + n))
                              /\ SubSeq(c, i + 1, i + n) \in Seq(Nat)
                              /\ Len(SubSeq(c, i + 1, i + n)) = n

\* the content of item k, from the character after the i-th on
LEMMA HalfCuts ==
  ASSUME req \in Requests, NEW k \in 1..Len(req.items), NEW c, c = req.items[k].content,
         NEW i \in 0..Len(c)
  PROVE  HalfAt(k, c, i)
<1> DEFINE N == Seq(Nat)
           s == req.items
           v == Closed(s, Ending, k)
           z == Behind(s, Ending, k)
           b == item_begin(s[k])
           t == SubSeq(c, i + 1, Len(c))
<1>1. s \in Seq(ItemType) /\ Ending \in N /\ k \in 1..Len(s)
  BY Items
<1>2. /\ s[k] \in ItemType /\ v \in N /\ z \in N /\ Cut(v, crlf_, From(s, Ending, k + 1))
      /\ Cut(z, s[k].content, v) /\ Cut(From(s, Ending, k), b, z)
  <2> HIDE DEF s
  <2> QED BY <1>1, FromItem
<1>3. c \in N /\ Len(c) \in Nat /\ b \in N /\ Cut(b, Start, Heading(s[k])) /\ Heading(s[k]) \in N
  BY <1>2, ItemTexts, BeginText, LenProperties DEF Texts
<1>4. b # <<>>
  <2> DEFINE d == Start
             h == Heading(s[k])
  <2>1. d \in N /\ d # <<>>
    BY StartText, StartChars
  <2>2. Cut(b, d, h) /\ h \in N /\ b \in N
    BY <1>3
  <2> HIDE DEF b, d, h
  <2>3. Len(b) = Len(d) + Len(h) /\ Len(d) \in Nat /\ Len(h) \in Nat
    BY <2>1, <2>2, CutPieces
  <2>4. Len(d) # 0
    BY <2>1, EmptySeq
  <2>5. Len(b) # 0
    BY <2>3, <2>4
  <2> QED BY <2>5, EmptySeq
<1>5. \A m \in 0..Len(c) : Half(k, m) = SubSeq(c, m + 1, Len(c)) \o v
  BY DEF Half
<1>6. \A m \in 0..Len(c) : SubSeq(c, m + 1, Len(c)) \in N
  <2> TAKE m \in 0..Len(c)
  <2> QED BY <1>3, CutInTwo
<1> HIDE DEF v, z, b
<1>7. \A m \in 0..Len(c) : Half(k, m) \in N
  <2> TAKE m \in 0..Len(c)
  <2> DEFINE u == SubSeq(c, m + 1, Len(c))
  <2>1. u \in N /\ v \in N /\ Half(k, m) = u \o v
    BY <1>2, <1>5, <1>6
  <2> HIDE DEF u
  <2> QED BY <2>1, ConcatProperties
<1>8. ASSUME i = 0 PROVE Cut(Left(k), b, Half(k, i))
  <2>1. SubSeq(c, 1, Len(c)) = c
    BY <1>3, SubSeqFull
  <2>2. Half(k, i) = z
    <3>1. Half(k, i) = SubSeq(c, i + 1, Len(c)) \o v
      BY <1>5
    <3>2. i + 1 = 1
      BY <1>8
    <3>3. z = c \o v
      BY <1>2 DEF Cut
    <3> QED BY <2>1, <3>1, <3>2, <3>3
  <2> QED BY <1>2, <2>2 DEF Left
<1>9. ASSUME i = Len(c) PROVE Cut(Half(k, i), crlf_, Left(k + 1))
  <2>1. SubSeq(c, Len(c) + 1, Len(c)) = <<>>
    BY <1>3, SubSeqEmpty
  <2>2. Half(k, i) = v
    <3>1. Half(k, i) = <<>> \o v
      BY <1>3, <1>5, <1>9, <2>1
    <3> QED BY <1>2, <3>1, ConcatEmptySeq
  <2> QED BY <1>2, <2>2 DEF Left
<1>10. ASSUME NEW n \in 0..Len(c) - i
       PROVE  /\ Cut(Half(k, i), SubSeq(c, i + 1, i + n), Half(k, i + n))
              /\ SubSeq(c, i + 1, i + n) \in N /\ Len(SubSeq(c, i + 1, i + n)) = n
  <2> DEFINE x == SubSeq(c, i + 1, i + n)
             y == SubSeq(c, (i + n) + 1, Len(c))
             m == i + n
  <2>0. i \in Nat /\ m \in 0..Len(c) /\ m \in Nat /\ i \in 0..Len(c) /\ m - i = n /\ i <= m
    BY <1>3, SMTT(30)
  <2>1. x \o y = t
    <3>1. i + 1 \in 1..Len(c) + 1 /\ m \in (i + 1) - 1..Len(c) /\ Len(c) \in m..Len(c)
      BY <1>3, <2>0
    <3> DEFINE j == i + 1
               u == Len(c)
    <3>2. j \in 1..Len(c) + 1 /\ m \in j - 1..Len(c) /\ u \in m..Len(c)
      BY <3>1
    <3> HIDE DEF j, u, m
    <3>3. SubSeq(c, j, m) \o SubSeq(c, m + 1, u) = SubSeq(c, j, u)
      BY <1>3, <3>2, ConcatAdjacentSubSeq
    <3> QED BY <3>3 DEF j, u, m
  <2>2. x \in N /\ Len(x) = n
    <3> HIDE DEF m
    <3>1. m \in Nat /\ i \in Nat /\ m <= Len(c) /\ i <= m /\ c \in N
      BY <1>3, <2>0
    <3>3. SubSeq(c, i + 1, m) \in N /\ Len(SubSeq(c, i + 1, m)) = IF i <= m THEN m - i ELSE 0
      BY ONLY <3>1, PartOf
    <3>2. SubSeq(c, i + 1, m) \in N /\ Len(SubSeq(c, i + 1, m)) = m - i
      BY <3>1, <3>3
    <3> QED BY <2>0, <3>2 DEF m
  <2>3. y \in N /\ Half(k, m) = y \o v /\ Half(k, i) = t \o v
    <3> HIDE DEF m
    <3>1. SubSeq(c, m + 1, Len(c)) \in N /\ Half(k, m) = SubSeq(c, m + 1, Len(c)) \o v
      BY <1>5, <1>6, <2>0
    <3>2. Half(k, i) = t \o v
      BY <1>5, <2>0
    <3> QED BY <3>1, <3>2 DEF m
  <2> HIDE DEF x, y, t
  <2>4. (x \o y) \o v = x \o (y \o v)
    BY <1>2, <2>2, <2>3, TextsAssociative
  <2>5. Cut(Half(k, i), x, Half(k, m))
    BY <2>1, <2>3, <2>4 DEF Cut
  <2> QED BY <2>2, <2>5 DEF x
<1> QED BY <1>3, <1>4, <1>7, <1>8, <1>9, <1>10 DEF b, HalfAt

LEMMA LongestContent ==
  ASSUME NEW items \in Seq(ItemType)
  PROVE  Max({0} \cup {Len(items[k].content) : k \in DOMAIN items}) \in Nat
<1> DEFINE f(k) == Len(items[k].content)
           n == Len(items)
           D == {0} \cup {f(k) : k \in DOMAIN items}
           T == {m \in 0..n : \E b \in Nat : \A k \in 1..m : f(k) <= b}
<1>1. n \in Nat /\ DOMAIN items = 1..n /\ \A k \in 1..n : f(k) \in Nat
  <2>1. n \in Nat /\ DOMAIN items = 1..n
    BY LenProperties
  <2>2. ASSUME NEW k \in 1..n PROVE f(k) \in Nat
    <3>1. items[k] \in ItemType
      BY <2>1, <2>2, ElementOfSeq
    <3>2. items[k].content \in Texts
      BY <3>1, ItemTexts
    <3> QED BY <3>2, LenProperties DEF Texts
  <2> QED BY <2>1, <2>2
<1> HIDE DEF n, f
<1>2. \A m \in 0..n : (\A i \in 0..m - 1 : i \in T) => m \in T
  <2> SUFFICES ASSUME NEW m \in 0..n, \A i \in 0..m - 1 : i \in T PROVE \E b \in Nat : \A k \in 1..m : f(k) <= b
    OBVIOUS
  <2>1. CASE m = 0
    <3>1. \A k \in 1..m : f(k) <= 0
      BY <2>1
    <3> QED BY <3>1
  <2>2. CASE m # 0
    <3>1. m - 1 \in 0..m - 1 /\ m \in 1..n
      BY <1>1, <2>2
    <3>2. PICK b \in Nat : \A k \in 1..m - 1 : f(k) <= b
      BY <3>1
    <3> DEFINE c == b + f(m)
    <3>3. c \in Nat /\ f(m) \in Nat
      BY <1>1, <3>1
    <3>4. \A k \in 1..m : f(k) <= c
      <4> SUFFICES ASSUME NEW k \in 1..m PROVE f(k) <= c
        OBVIOUS
      <4>1. CASE k = m
        BY <3>3, <4>1
      <4>2. CASE k # m
        <5>1. k \in 1..m - 1 /\ k \in 1..n
          BY <1>1, <4>2
        <5>2. f(k) <= b /\ f(k) \in Nat
          BY <1>1, <3>2, <5>1
        <5> QED BY <3>3, <5>2
      <4> QED BY <4>1, <4>2
    <3> HIDE DEF c
    <3> QED BY <3>3, <3>4
  <2> QED BY <2>1, <2>2
<1>3. n \in T
  <2> HIDE DEF T
  <2>1. 0 \in Int /\ n \in Int /\ n \in 0..n
    BY <1>1
  <2>2. \A m \in 0..n : m \in T
    BY <1>2, <2>1, Upwards
  <2> QED BY <2>1, <2>2
<1>4. PICK b \in Nat : \A k \in 1..n : f(k) <= b
  BY <1>3
<1>5. D \in SUBSET (0..b) /\ D # {}
  BY <1>1, <1>4
<1> HIDE DEF D
<1>6. \E x \in D : \A y \in D : y <= x
  <2>1. 0 \in Int /\ b \in Int
    OBVIOUS
  <2> QED BY <1>5, <2>1, Greatest
<1>7. \E x \in D : \A y \in D : x >= y
  <2>1. D \subseteq Int
    BY <1>5
  <2> QED BY <1>6, <2>1
<1>8. Max(D) \in D
  BY <1>7 DEF Max
<1>9. Max(D) \in Nat
  <2>1. \A x \in D : x \in Nat
    BY <1>5
  <2> QED BY <1>8, <2>1
<1> QED BY <1>9 DEF D, f

\* three texts that are written at once
LEMMA CutThree ==
  ASSUME NEW a \in Seq(Nat), NEW b \in Seq(Nat), NEW c \in Seq(Nat), NEW x, NEW y \in Seq(Nat),
         NEW z \in Seq(Nat), NEW w \in Seq(Nat), Cut(x, a, y), Cut(y, b, z), Cut(z, c, w)
  PROVE  /\ Cut(x, (a \o b) \o c, w) /\ (a \o b) \o c \in Seq(Nat)
         /\ Len((a \o b) \o c) = Len(a) + Len(b) + Len(c)
<1> DEFINE ab == a \o b
           abc == ab \o c
<1>1. ab \in Seq(Nat) /\ Len(ab) = Len(a) + Len(b) /\ Cut(ab, a, b)
  BY ConcatProperties DEF Cut
<1>2. Cut(x, ab, z)
  <2>1. PICK t \in Seq(Nat) : Cut(t, a, b) /\ Cut(x, t, z)
    BY CutRight
  <2> QED BY <1>1, <2>1 DEF Cut
<1> HIDE DEF ab
<1>3. abc \in Seq(Nat) /\ Len(abc) = Len(ab) + Len(c) /\ Cut(abc, ab, c)
  BY <1>1, ConcatProperties DEF Cut
<1>4. Cut(x, abc, w)
  <2>1. PICK t \in Seq(Nat) : Cut(t, ab, c) /\ Cut(x, t, w)
    BY <1>1, <1>2, CutRight
  <2> QED BY <1>3, <2>1 DEF Cut
<1> HIDE DEF abc
<1>5. Len(abc) = Len(a) + Len(b) + Len(c)
  BY <1>1, <1>3
<1> QED BY <1>3, <1>4, <1>5 DEF abc, ab

\* what a step of the client writes
Sends(text) ==
  /\ text \in Seq(Nat) /\ wire' = wire \o text /\ offset' = offset + Len(text)
  /\ Cut(ToWrite, text, ToWrite') /\ ToWrite' \in Seq(Nat)

LEMMA SendsWhole ==
  ASSUME req \in Requests, req.form = "multipart", ClientInv, req' = req, WriteForm
  PROVE  ClientInv' /\ \E text : Sends(text)
<1> DEFINE text == serialize(req.items) \o finish \o req.after
           e == <<>>
<1>1. /\ ended = "no" /\ req.provided = 0 /\ wire' = wire \o text /\ offset' = offset + Len(text)
      /\ ended' = "whole" /\ cur_item' = cur_item /\ cur_start' = cur_start
  BY DEF WriteForm, Writes, Ends, Sending
<1>2. text = Left(1)
  BY <1>1, LeftWhole
<1>3. Left(1) \in Seq(Nat) /\ Ending \in Seq(Nat) /\ Len(req.items) \in Nat
  <2>1. 1 \in 1..Len(req.items) + 1
    BY Items
  <2> QED BY <2>1, Items, LeftType
<1> HIDE DEF text
<1>4. text \in Seq(Nat)
  BY <1>2, <1>3
<1>5. offset = 0 /\ cur_start = 0
  BY <1>1 DEF ClientInv
<1>6. ToWrite = text /\ ToWrite' = e
  BY <1>1, <1>2, <1>5 DEF ToWrite
<1>7. Cut(text, text, e) /\ e \in Seq(Nat)
  BY <1>4, ConcatEmptySeq, EmptySeq DEF Cut
<1> HIDE DEF e
<1>8. Sends(text)
  BY <1>1, <1>4, <1>6, <1>7 DEF Sends
<1>9. offset' # 0 /\ offset' \in Nat
  <2>1. PICK x \in Seq(Nat), y \in Seq(Nat) : Cut(Left(1), x, y) /\ x # <<>>
    <3>1. CASE Len(req.items) = 0
      <4>1. Left(1) = Ending
        <5>1. 1 \in 1..Len(req.items) + 1 /\ 1 = Len(req.items) + 1
          BY <3>1
        <5> QED BY <5>1, LeftType
      <4>2. Cut(Ending, finish, After) /\ finish # <<>> /\ finish \in Seq(Nat) /\ After \in Seq(Nat)
        <5>1. After \in Seq(Nat)
          BY Items DEF Texts
        <5>2. finish = ((dash_ \o boundary) \o dash_) \o crlf_
          BY DEF finish
        <5>3. Delimiter \o dash_ \in Seq(Nat)
          BY NoCr
        <5> DEFINE d == (dash_ \o boundary) \o dash_
        <5>4. d \in Seq(Nat) /\ crlf_ \in Seq(Nat) /\ Len(crlf_) = 2
          BY <5>3, Constants DEF Delimiter, Texts
        <5> HIDE DEF d
        <5>5. d \o crlf_ \in Seq(Nat) /\ Len(d \o crlf_) = Len(d) + Len(crlf_) /\ Len(d) \in Nat
          BY <5>4, ConcatProperties, LenProperties
        <5>6. Len(d \o crlf_) # 0
          BY <5>4, <5>5
        <5>7. finish \in Seq(Nat) /\ finish # <<>>
          BY <5>2, <5>5, <5>6, EmptySeq DEF d
        <5> QED BY <5>1, <5>7 DEF Ending, Cut
      <4> QED BY <4>1, <4>2
    <3>2. CASE Len(req.items) # 0
      <4> DEFINE one == 1
      <4>1. one \in 1..Len(req.items)
        BY <1>3, <3>2
      <4> HIDE DEF one
      <4>2. /\ Cut(Left(one), Start, Opened(req.items, Ending, one))
            /\ Opened(req.items, Ending, one) \in Seq(Nat)
        BY <4>1, Items, FromItem DEF Left
      <4>3. Start \in Seq(Nat) /\ Start # <<>>
        BY StartText, StartChars
      <4> QED BY <4>2, <4>3 DEF one
    <3> QED BY <3>1, <3>2
  <2>2. Len(Left(1)) = Len(x) + Len(y) /\ Len(x) \in Nat /\ Len(y) \in Nat /\ Len(x) # 0
    BY <1>3, <2>1, CutPieces, EmptySeq
  <2>3. Len(text) # 0 /\ Len(text) \in Nat
    <3> DEFINE lx == Len(x)
               ly == Len(y)
    <3>1. Len(text) = lx + ly /\ lx \in Nat /\ ly \in Nat /\ lx # 0
      BY <1>2, <2>2
    <3> HIDE DEF lx, ly
    <3> QED BY <3>1
  <2> QED BY <1>1, <1>5, <2>3
<1>10. wire' \in Texts
  BY <1>1, <1>4, ConcatProperties DEF ClientInv, Texts
<1>11. ClientInv'
  BY <1>1, <1>5, <1>9, <1>10 DEF ClientInv
<1> QED BY <1>8, <1>11

LEMMA SendsGiven ==
  ASSUME req \in Requests, req.form = "multipart", ClientInv, req' = req, ProvideGiven
  PROVE  ClientInv' /\ \E text : Sends(text)
<1> DEFINE text == serialize(Given)
           g == Len(Given)
<1>1. /\ ended = "no" /\ req.provided > 0 /\ wire' = wire \o text /\ offset' = offset + Len(text)
      /\ ended' = ended /\ cur_item' = cur_item /\ cur_start' = cur_start /\ offset = 0 /\ Given # <<>>
  BY DEF ProvideGiven, Writes, Sending
<1>2. cur_item = 1 /\ cur_start = 0
  BY <1>1 DEF ClientInv
<1>3. Cut(Left(1), text, Left(g + 1)) /\ text \in Seq(Nat) /\ text # <<>>
  BY <1>1, LeftGiven
<1>4. g + 1 \in 1..Len(req.items) + 1 /\ g \in Nat
  BY GivenItems, Items
<1>5. Left(g + 1) \in Seq(Nat)
  <2> DEFINE i == g + 1
  <2> HIDE DEF i
  <2>1. Left(i) \in Seq(Nat)
    BY <1>4, LeftType DEF i
  <2> QED BY <2>1 DEF i
<1> HIDE DEF text
<1>6. offset' \in Nat /\ offset' # 0
  <2>1. Len(text) \in Nat /\ Len(text) # 0
    BY <1>3, EmptySeq, LenProperties
  <2> QED BY <1>1, <2>1
<1>7. ToWrite = Left(1) /\ ToWrite' = Left(g + 1)
  <2>1. ToWrite = Left(1)
    BY <1>1, <1>2 DEF ToWrite
  <2>2. Given' = Given /\ Ending' = Ending
    BY DEF Given, Ending, After
  <2>3. ToWrite' = Left(g + cur_item)
    BY <1>1, <1>2, <1>6, <2>2 DEF ToWrite, Left
  <2> QED BY <1>2, <2>1, <2>3
<1>8. Sends(text)
  BY <1>1, <1>3, <1>5, <1>7 DEF Sends
<1>10. wire' \in Texts
  BY <1>1, <1>3, ConcatProperties DEF ClientInv, Texts
<1>11. ClientInv'
  BY <1>1, <1>2, <1>6, <1>10 DEF ClientInv
<1> QED BY <1>8, <1>11

LEMMA SendsBreak ==
  ASSUME req \in Requests, ClientInv, req' = req, Break, ToWrite \in Seq(Nat)
  PROVE  ClientInv' /\ \E text : Sends(text)
<1> DEFINE e == <<>>
<1>1. /\ ended = "no" /\ ended' = "broken" /\ wire' = wire /\ offset' = offset
      /\ cur_item' = cur_item /\ cur_start' = cur_start
  BY DEF Break, Sending
<1>2. Given' = Given /\ Ending' = Ending
  BY DEF Given, Ending, After
<1>3. ToWrite' = ToWrite
  BY <1>1, <1>2 DEF ToWrite, Left, Half
<1>4. e \in Seq(Nat) /\ Len(e) = 0 /\ wire \in Seq(Nat) /\ offset \in Nat
  BY EmptySeq DEF ClientInv, Texts
<1> HIDE DEF e
<1>5. wire \o e = wire /\ Cut(ToWrite, e, ToWrite)
  BY <1>4, ConcatEmptySeq DEF Cut, e
<1>6. Sends(e)
  <2>1. offset' = offset + Len(e)
    BY <1>1, <1>4
  <2> QED BY <1>1, <1>3, <1>4, <1>5, <2>1 DEF Sends
<1>7. ClientInv'
  BY <1>1, <1>2 DEF ClientInv
<1> QED BY <1>6, <1>7

LEMMA ToWriteType ==
  ASSUME req \in Requests, ClientInv
  PROVE  ToWrite \in Seq(Nat)
<1> DEFINE g == Len(Given)
<1>1. g \in Nat /\ g = Len(req.items) - req.provided /\ Len(req.items) \in Nat /\ req.provided \in 0..Len(req.items)
  BY GivenItems, Items
<1> HIDE DEF g
<1>2. cur_item \in 1..req.provided + 1
  BY DEF ClientInv
<1>3. g + cur_item \in 1..Len(req.items) + 1 /\ 1 \in 1..Len(req.items) + 1
  BY <1>1, <1>2
<1>4. CASE ended = "whole"
  BY <1>4, EmptySeq DEF ToWrite
<1>5. CASE ended # "whole" /\ cur_start = 0
  <2> DEFINE i == IF offset = 0 THEN 1 ELSE g + cur_item
  <2>1. i \in 1..Len(req.items) + 1
    BY <1>3
  <2>2. ToWrite = Left(i)
    BY <1>5 DEF ToWrite, g
  <2> HIDE DEF i
  <2> QED BY <2>1, <2>2, LeftType
<1>6. CASE ended # "whole" /\ cur_start # 0
  <2> DEFINE k == g + cur_item
             c == req.items[k].content
             i == offset - cur_start
  <2>1. cur_item <= req.provided /\ i \in 0..Len(c)
    BY <1>6 DEF ClientInv, g
  <2>2. k \in 1..Len(req.items)
    BY <1>1, <1>2, <2>1
  <2>3. ToWrite = Half(k, i)
    BY <1>6 DEF ToWrite, g
  <2> HIDE DEF k, i
  <2>4. HalfAt(k, c, i)
    <3>1. req \in Requests /\ k \in 1..Len(req.items) /\ c = req.items[k].content /\ i \in 0..Len(c)
      BY <2>1, <2>2
    <3> HIDE DEF c
    <3> QED BY ONLY <3>1, HalfCuts
  <2> QED BY <2>3, <2>4 DEF HalfAt
<1> QED BY <1>4, <1>5, <1>6

LEMMA SendsProvided ==
  ASSUME req \in Requests, req.form = "multipart", ClientInv, req' = req, NEW n \in Nat,
         NEW done \in BOOLEAN, Provide(n, done)
  PROVE  ClientInv' /\ \E text : Sends(text)
<1> DEFINE N == Seq(Nat)
           s == req.items
           g == Len(Given)
           k == g + cur_item
           item == Providers[cur_item]
           c == s[k].content
           e == <<>>
           begin == IF cur_start = 0 THEN item_begin(item) ELSE e
           start == IF cur_start = 0 THEN offset + Len(begin) ELSE cur_start
           at == offset + Len(begin) - start
           x == SubSeq(c, at + 1, at + n)
           d == IF done THEN item_end ELSE e
           text == (begin \o x) \o d
<1>1. /\ ended = "no" /\ req.provided > 0 /\ (offset # 0 \/ Given = <<>>) /\ cur_item <= Len(Providers)
      /\ at + n <= Len(item.content) /\ (n > 0 \/ done) /\ (done => at + n = Len(item.content))
      /\ wire' = wire \o (begin \o SubSeq(item.content, at + 1, at + n) \o d)
      /\ offset' = offset + Len(begin \o SubSeq(item.content, at + 1, at + n) \o d)
      /\ cur_start' = IF done THEN 0 ELSE start
      /\ cur_item' = IF done THEN cur_item + 1 ELSE cur_item
      /\ ended' = ended
  BY DEF Provide, Writes, Sending
<1>2. /\ offset \in Nat /\ cur_start \in Nat /\ cur_item \in 1..req.provided + 1 /\ wire \in N
      /\ offset = 0 => cur_item = 1 /\ cur_start = 0
      /\ cur_start # 0 => offset - cur_start \in 0..Len(c)
  BY DEF ClientInv, Texts
<1>3. /\ g \in Nat /\ g = Len(s) - req.provided /\ Len(Providers) = req.provided /\ Len(s) \in Nat
      /\ req.provided \in 0..Len(s) /\ \A i \in 1..req.provided : Providers[i] = s[g + i]
      /\ (Given = <<>> => g = 0)
  <2>1. Given \in Seq(ItemType) /\ (Given = <<>> => Len(Given) = 0)
    BY GivenItems, EmptySeq
  <2> QED BY <2>1, GivenItems, Items
<1>4. cur_item \in 1..req.provided /\ item = s[k] /\ k \in 1..Len(s) /\ k + 1 \in 1..Len(s) + 1
  <2>1. cur_item \in 1..req.provided
    BY <1>1, <1>2, <1>3
  <2> HIDE DEF g
  <2>2. k \in 1..Len(s) /\ k + 1 \in 1..Len(s) + 1
    BY <1>3, <2>1, SMTT(30)
  <2> QED BY <1>3, <2>1, <2>2
<1> HIDE DEF g, item
<1>5. \A i \in 0..Len(c) : HalfAt(k, c, i)
  <2> TAKE i \in 0..Len(c)
  <2>1. req \in Requests /\ k \in 1..Len(req.items) /\ c = req.items[k].content /\ i \in 0..Len(c)
    BY <1>4
  <2> HIDE DEF k, c
  <2> QED BY ONLY <2>1, HalfCuts
<1>6. c \in N /\ Len(c) \in Nat /\ 0 \in 0..Len(c)
  <2>1. s[k] \in ItemType
    BY <1>4, Items, ElementOfSeq
  <2>2. c \in N /\ Len(c) \in Nat
    BY <2>1, ItemTexts, LenProperties DEF Texts
  <2> QED BY <2>2
<1>7. item_begin(s[k]) \in N /\ item_begin(s[k]) # <<>> /\ Len(item_begin(s[k])) \in Nat
      /\ Len(item_begin(s[k])) # 0
  <2>1. item_begin(s[k]) \in N /\ item_begin(s[k]) # <<>>
    BY <1>5, <1>6 DEF HalfAt
  <2> QED BY <2>1, LenProperties, EmptySeq
<1>8. e \in N /\ Len(e) = 0
  BY EmptySeq
<1>9. begin \in N /\ Len(begin) \in Nat /\ (cur_start = 0 => begin = item_begin(s[k]) /\ Len(begin) # 0)
      /\ (cur_start # 0 => begin = e)
  <2>1. CASE cur_start = 0
    BY <1>4, <1>7, <2>1
  <2>2. CASE cur_start # 0
    BY <1>8, <2>2
  <2> QED BY <2>1, <2>2
<1> HIDE DEF begin
<1>10. /\ start \in Nat /\ start # 0
       /\ at = (IF cur_start = 0 THEN 0 ELSE offset - cur_start) /\ at \in 0..Len(c)
  <2>1. CASE cur_start = 0
    <3>1. start = offset + Len(begin) /\ at = 0
      BY <1>2, <1>9, <2>1
    <3> QED BY <1>2, <1>6, <1>9, <2>1, <3>1
  <2>2. CASE cur_start # 0
    <3>1. start = cur_start /\ Len(begin) = 0
      BY <1>8, <1>9, <2>2
    <3>2. at = offset - cur_start
      BY <1>2, <3>1
    <3> QED BY <1>2, <2>2, <3>1, <3>2
  <2> QED BY <2>1, <2>2
<1>11. offset + Len(begin) = start + at
  BY <1>2, <1>9, <1>10
<1> HIDE DEF start, at, c, k
<1>12. item.content = c /\ at + n <= Len(c) /\ (done => at + n = Len(c)) /\ n \in 0..Len(c) - at
       /\ at + n \in 0..Len(c) /\ at \in Nat
  <2>1. item.content = c
    BY <1>4 DEF c
  <2> DEFINE l == Len(c)
  <2>2. l \in Nat /\ at \in 0..l /\ at + n <= l /\ (done => at + n = l)
    BY <1>1, <1>6, <1>10, <2>1
  <2> HIDE DEF l
  <2>3. at + n <= l /\ (done => at + n = l) /\ n \in 0..l - at /\ at + n \in 0..l /\ at \in Nat
    BY <2>2
  <2> QED BY <2>1, <2>3 DEF l
<1>13. wire' = wire \o text /\ offset' = offset + Len(text)
  BY <1>1, <1>12
<1>14. Cut(Half(k, at), x, Half(k, at + n)) /\ x \in N /\ Len(x) = n /\ Half(k, at) \in N /\ Half(k, at + n) \in N
  BY <1>5, <1>10, <1>12 DEF HalfAt, x
<1>15. Cut(ToWrite, begin, Half(k, at))
  <2>1. CASE cur_start = 0
    <3>1. ToWrite = Left(k)
      <4>1. CASE offset = 0
        <5>1. g = 0 /\ cur_item = 1
          BY <1>1, <1>2, <1>3, <4>1
        <5>2. k = 1
          BY <5>1 DEF k
        <5> QED BY <1>1, <2>1, <4>1, <5>2 DEF ToWrite
      <4>2. CASE offset # 0
        BY <1>1, <2>1, <4>2 DEF ToWrite, k, g
      <4> QED BY <4>1, <4>2
    <3>2. at = 0
      BY <1>10, <2>1
    <3>3. Cut(Left(k), item_begin(s[k]), Half(k, at))
      BY <1>5, <1>10, <3>2 DEF HalfAt
    <3> QED BY <1>9, <2>1, <3>1, <3>3
  <2>2. CASE cur_start # 0
    <3>1. ToWrite = Half(k, at)
      <4>1. at = offset - cur_start
        BY <1>10, <2>2
      <4> QED BY <1>1, <2>2, <4>1 DEF ToWrite, k, g
    <3>2. e \o Half(k, at) = Half(k, at)
      BY <1>14, ConcatEmptySeq
    <3> QED BY <1>9, <2>2, <3>1, <3>2 DEF Cut
  <2> QED BY <2>1, <2>2
<1> DEFINE w == IF done THEN Left(k + 1) ELSE Half(k, at + n)
<1>16. Cut(Half(k, at + n), d, w) /\ d \in N /\ w \in N /\ (done => Len(d) = 2) /\ (~done => Len(d) = 0)
  <2>1. CASE done
    <3>1. Cut(Half(k, at + n), crlf_, Left(k + 1))
      BY <1>5, <1>12, <2>1 DEF HalfAt
    <3>2. Left(k + 1) \in N
      <4> DEFINE i == k + 1
      <4>1. i \in 1..Len(s) + 1
        BY <1>4
      <4> HIDE DEF i
      <4>2. Left(i) \in N
        BY <4>1, LeftType
      <4> QED BY <4>2 DEF i
    <3> QED BY <2>1, <3>1, <3>2, Constants DEF item_end, Texts
  <2>2. CASE ~done
    <3>1. Half(k, at + n) = e \o Half(k, at + n)
      BY <1>14, ConcatEmptySeq
    <3> QED BY <1>8, <1>14, <2>2, <3>1 DEF Cut
  <2> QED BY <2>1, <2>2
<1> HIDE DEF e, x, d, w
<1>17. Cut(ToWrite, text, w) /\ text \in N /\ Len(text) = Len(begin) + Len(x) + Len(d)
  <2> DEFINE y == Half(k, at)
             z == Half(k, at + n)
  <2>1. begin \in N /\ x \in N /\ d \in N /\ y \in N /\ z \in N /\ w \in N /\ Cut(ToWrite, begin, y) /\ Cut(y, x, z) /\ Cut(z, d, w)
    BY <1>9, <1>14, <1>15, <1>16
  <2> HIDE DEF y, z
  <2> QED BY ONLY <2>1, CutThree
<1> HIDE DEF text
<1>18. offset' = start + at + n + Len(d) /\ offset' \in Nat /\ offset' # 0
  <2>1. Len(text) = Len(begin) + n + Len(d) /\ Len(d) \in Nat
    BY <1>14, <1>16, <1>17
  <2>2. offset' = offset + Len(text)
    BY <1>13
  <2> DEFINE lt == Len(text)
             lb == Len(begin)
             ld == Len(d)
  <2>3. /\ offset' = offset + lt /\ lt = lb + n + ld /\ offset + lb = start + at /\ ld \in Nat
        /\ lb \in Nat /\ offset \in Nat /\ start \in Nat /\ start # 0 /\ at \in Nat
    BY <1>2, <1>9, <1>10, <1>11, <1>12, <2>1, <2>2
  <2> HIDE DEF lt, lb, ld
  <2>4. offset' = start + at + n + ld /\ offset' \in Nat /\ offset' # 0
    BY <2>3
  <2> QED BY <2>4 DEF ld
<1>19. Given' = Given /\ Ending' = Ending
  BY DEF Given, Ending, After
<1>20. ToWrite' = w
  <2>1. CASE done
    <3>1. cur_start' = 0 /\ cur_item' = cur_item + 1
      BY <1>1, <2>1
    <3>2. ToWrite' = Left(g + cur_item')
      BY <1>1, <1>18, <1>19, <3>1 DEF ToWrite, Left, g
    <3>3. g + cur_item' = k + 1
      BY <1>2, <1>3, <3>1 DEF k
    <3> QED BY <2>1, <3>2, <3>3 DEF w
  <2>2. CASE ~done
    <3>1. cur_start' = start /\ cur_item' = cur_item
      BY <1>1, <2>2
    <3>2. ToWrite' = Half(g + cur_item', offset' - cur_start')
      BY <1>1, <1>10, <1>19, <3>1 DEF ToWrite, Half, g
    <3>3. offset' - cur_start' = at + n
      <4>1. offset' = start + at + n + 0
        BY <1>16, <1>18, <2>2
      <4> QED BY <1>10, <1>12, <3>1, <4>1
    <3> QED BY <2>2, <3>1, <3>2, <3>3 DEF w, k
  <2> QED BY <2>1, <2>2
<1>21. Sends(text)
  BY <1>13, <1>16, <1>17, <1>20 DEF Sends
<1>22. wire' \in Texts
  BY <1>2, <1>13, <1>17, ConcatProperties DEF Texts
<1>23. /\ cur_start' # 0 => /\ cur_item' <= req.provided
                            /\ offset' - cur_start' \in 0..Len(req.items[Len(Given) + cur_item'].content)
       /\ cur_start' \in Nat /\ cur_item' \in 1..req.provided + 1
  <2>1. CASE done
    <3>1. cur_start' = 0 /\ cur_item' = cur_item + 1
      BY <1>1, <2>1
    <3> QED BY <1>3, <1>4, <3>1
  <2>2. CASE ~done
    <3>1. cur_start' = start /\ cur_item' = cur_item
      BY <1>1, <2>2
    <3>3. offset' - cur_start' = at + n
      <4>1. offset' = start + at + n + 0
        BY <1>16, <1>18, <2>2
      <4> QED BY <1>10, <1>12, <3>1, <4>1
    <3>4. c = req.items[Len(Given) + cur_item'].content
      BY <3>1 DEF c, k, g
    <3>5. offset' - cur_start' \in 0..Len(c)
      BY <1>12, <3>3
    <3>6. cur_start' \in Nat /\ cur_item' \in 1..req.provided + 1 /\ cur_item' <= req.provided
      BY <1>2, <1>3, <1>4, <1>10, <3>1
    <3> QED BY <3>4, <3>5, <3>6
  <2> QED BY <2>1, <2>2
<1>24. ClientInv'
  <2>1. req.provided # 0
    BY <1>3, <1>4
  <2>2. ended' = "no"
    BY <1>1
  <2> QED BY <1>18, <1>19, <1>22, <1>23, <2>1, <2>2 DEF ClientInv
<1> QED BY <1>21, <1>24

LEMMA SendsFinish ==
  ASSUME req \in Requests, req.form = "multipart", ClientInv, req' = req, ProvideFinish
  PROVE  ClientInv' /\ \E text : Sends(text)
<1> DEFINE text == finish
           e == <<>>
           g == Len(Given)
           n == Len(req.items)
<1>1. /\ ended = "no" /\ req.provided > 0 /\ (offset # 0 \/ Given = <<>>) /\ cur_item > Len(Providers)
      /\ wire' = wire \o text /\ offset' = offset + Len(text) /\ ended' = "whole"
      /\ cur_item' = cur_item /\ cur_start' = cur_start
  BY DEF ProvideFinish, Writes, Ends, Sending
<1>2. /\ offset \in Nat /\ cur_start \in Nat /\ cur_item \in 1..req.provided + 1 /\ wire \in Seq(Nat)
      /\ offset = 0 => cur_item = 1 /\ cur_start = 0
      /\ cur_start # 0 => cur_item <= req.provided
  BY DEF ClientInv, Texts
<1>3. g \in Nat /\ g = n - req.provided /\ Len(Providers) = req.provided /\ n \in Nat
      /\ req.provided \in 0..n
  BY GivenItems, Items
<1> HIDE DEF g, n
<1>4. cur_start = 0 /\ offset # 0 /\ g + cur_item = n + 1
  <2>1. cur_item = req.provided + 1 /\ cur_item # 1
    BY <1>1, <1>2, <1>3
  <2>2. cur_start = 0
    BY <1>2, <1>3, <2>1
  <2>3. offset # 0
    BY <1>2, <2>1
  <2>4. g + cur_item = n + 1
    <3>1. g = n - req.provided /\ cur_item = req.provided + 1 /\ n \in Nat /\ req.provided \in Nat
      BY <1>3, <2>1
    <3> QED BY ONLY <3>1
  <2> QED BY <2>2, <2>3, <2>4
<1>5. n + 1 \in 1..Len(req.items) + 1
  BY <1>3 DEF n
<1>6. ToWrite = Ending
  <2>1. ToWrite = Left(n + 1)
    BY <1>1, <1>4 DEF ToWrite, g
  <2> DEFINE i == n + 1
  <2>2. i \in 1..Len(req.items) + 1 /\ i = Len(req.items) + 1
    BY <1>5 DEF n
  <2> HIDE DEF i
  <2>3. Left(i) = Ending
    BY <2>2, LeftType
  <2> QED BY <2>1, <2>3 DEF i
<1>7. Ending = text /\ text \in Seq(Nat)
  <2>1. After = e
    BY <1>1, <1>3 DEF After
  <2>2. Delimiter \o dash_ \in Seq(Nat)
    BY NoCr
  <2> DEFINE d == (dash_ \o boundary) \o dash_
  <2>3. d \in Seq(Nat) /\ crlf_ \in Seq(Nat)
    BY <2>2, Constants DEF Delimiter, Texts
  <2>4. text = d \o crlf_
    BY DEF finish
  <2> HIDE DEF d, text
  <2>5. text \in Seq(Nat)
    BY <2>3, <2>4, ConcatProperties
  <2>6. Ending = text \o e
    BY <2>1 DEF Ending, text
  <2> QED BY <2>5, <2>6, ConcatEmptySeq
<1> HIDE DEF text
<1>8. ToWrite' = e
  BY <1>1 DEF ToWrite
<1>9. e \in Seq(Nat) /\ Cut(text, text, e)
  BY <1>7, ConcatEmptySeq, EmptySeq DEF Cut
<1> HIDE DEF e
<1>10. Sends(text)
  BY <1>1, <1>6, <1>7, <1>8, <1>9 DEF Sends
<1>11. wire' \in Texts
  BY <1>1, <1>2, <1>7, ConcatProperties DEF Texts
<1>12. offset' \in Nat /\ offset' # 0
  <2>1. Len(text) \in Nat
    BY <1>7, LenProperties
  <2> QED BY <1>1, <1>2, <1>4, <2>1
<1>13. req.provided # 0
  BY <1>1, <1>3
<1>14. ClientInv'
  BY <1>1, <1>2, <1>4, <1>11, <1>12, <1>13 DEF ClientInv
<1> QED BY <1>10, <1>14

\* a step of the client moves what it has still to write to the connection
LEMMA ClientSends ==
  ASSUME req \in Requests, req.form = "multipart", ClientInv, Client
  PROVE  /\ ClientInv' /\ req' = req /\ stage' = stage /\ buf' = buf
         /\ \E text : Sends(text)
<1>1. /\ req' = req /\ stage' = stage /\ buf' = buf
      /\ \/ WriteForm \/ ProvideGiven \/ ProvideFinish \/ Break
         \/ \E n \in 0..Max({0} \cup {Len(req.items[k].content) : k \in DOMAIN req.items}),
               done \in BOOLEAN : Provide(n, done)
  BY DEF Client, parser
<1>2. CASE WriteForm
  BY <1>1, <1>2, SendsWhole
<1>3. CASE ProvideGiven
  BY <1>1, <1>3, SendsGiven
<1>4. CASE ProvideFinish
  BY <1>1, <1>4, SendsFinish
<1>5. CASE Break
  BY <1>1, <1>5, SendsBreak, ToWriteType
<1>6. CASE \E n \in 0..Max({0} \cup {Len(req.items[k].content) : k \in DOMAIN req.items}),
              done \in BOOLEAN : Provide(n, done)
  <2> DEFINE m == Max({0} \cup {Len(req.items[k].content) : k \in DOMAIN req.items})
  <2>1. m \in Nat
    BY Items, LongestContent
  <2> HIDE DEF m
  <2>2. PICK n \in 0..m, done \in BOOLEAN : Provide(n, done)
    BY <1>6 DEF m
  <2>3. n \in Nat
    BY <2>1
  <2> QED BY <1>1, <2>2, <2>3, SendsProvided
<1> QED BY <1>1, <1>2, <1>3, <1>4, <1>5, <1>6

\* nothing of the form is lost or repeated on the way to the parser
LEMMA SendsKeeps ==
  ASSUME NEW text, Sends(text), wire \in Texts, buf \in Texts, ToWrite \in Seq(Nat), buf' = buf,
         offset \in Nat
  PROVE  Rest' = Rest /\ offset' - Len(wire') = offset - Len(wire)
<1> DEFINE N == Seq(Nat)
           t == ToWrite
           u == ToWrite'
<1>1. text \in N /\ wire' = wire \o text /\ offset' = offset + Len(text) /\ Cut(t, text, u) /\ u \in N
  BY DEF Sends
<1>2. wire \in N /\ buf \in N /\ t \in N
  BY DEF Texts
<1>3. Coming' = wire' \o u /\ Coming = wire \o t
  BY DEF Coming
<1> HIDE DEF t, u
<1>4. (wire \o text) \o u = wire \o (text \o u)
  <2>1. wire \in Seq(Nat) /\ text \in Seq(Nat) /\ u \in Seq(Nat)
    BY <1>1, <1>2
  <2> QED BY ONLY <2>1, TextsAssociative
<1>5. Coming' = Coming
  BY <1>1, <1>3, <1>4 DEF Cut
<1>6. Len(wire') = Len(wire) + Len(text) /\ Len(wire) \in Nat /\ Len(text) \in Nat
  BY <1>1, <1>2, ConcatProperties, LenProperties
<1> DEFINE lw == Len(wire)
           lt == Len(text)
           ln == Len(wire')
<1>7. ln = lw + lt /\ lw \in Nat /\ lt \in Nat /\ offset' = offset + lt
  BY <1>1, <1>6
<1> HIDE DEF lw, lt, ln
<1>8. offset' - ln = offset - lw
  BY <1>7
<1> QED BY <1>5, <1>8 DEF Rest, ln, lw

----------------------------------------------------------------------------
(* Where the parser is in the form: the inductive invariant *)

Arriving == stage \in {"reading", "parsing"} /\ req.form = "multipart"

FreshInv == /\ offset = 0 /\ cur_item = 1 /\ cur_start = 0 /\ ended = "no" /\ wire = <<>>
            /\ buf = <<>> /\ state_ = 0 /\ is_valid_ = FALSE /\ files = <<>> /\ cut = FALSE

\* no entry of a file is lost, and none is one too many
CountInv == /\ \E S : files \in Seq(S)
            /\ Len(files) <= MaxFiles
            /\ stage # "refused" => file_count = Len(files)

\* what the parser waits for is not in the buffer
ReadingInv == stage = "reading" =>
  /\ state_ \in {0, 1} => buf = <<>>
  /\ state_ = 2 => Spots(buf, crlf_) = {}
  /\ state_ = 3 => Spots(buf, Mark) = {}
  /\ state_ = 4 => ~IsPrefix(crlf_, buf) /\ ~IsPrefix(dash_, buf)

\* nothing was found yet; what was read at once has the first boundary line whole
Untouched == /\ Rest = Left(1)
             /\ IF stage = "reading" THEN buf = <<>> /\ offset = Len(wire) ELSE Len(Start) <= Len(buf)

Waits == /\ state_ = 0 /\ ~is_valid_ /\ WaitsAt(req.items, Ending, Rest, files)
         /\ ~cut /\ req.items # <<>> => Untouched

InItem(k, j) ==
  /\ ~is_valid_
  /\ \/ state_ = 1 /\ StartsAt(req.items, Ending, k, j, Rest, files)
     \/ state_ = 2 /\ HeadsAt(req.items, Ending, k, j, Rest, files, file_)
     \/ state_ = 3 /\ FillsAt(req.items, Ending, k, j, Rest, files)
     \/ state_ = 4 /\ ClosesAt(req.items, Ending, k, j, Rest, files)

Over(k) == /\ OverAt(Ending, state_, Rest)
           /\ state_ = 4 => is_valid_
           /\ is_valid_ => files = Whole(req.items, k, Len(req.items))
           /\ is_valid_ \/ cut \/ req.items = <<>>

\* the first k items were taken for a preamble
Place(k) == /\ cut \/ k = 0
            /\ Waits \/ (\E j \in k + 1..Len(req.items) : InItem(k, j)) \/ Over(k)

\* a form whose items come through unchanged
Straight == /\ PlainForm
            /\ cut => \A k \in DOMAIN req.items : ~LooksLikeStart(req.items[k])
            /\ ~Holds(crlf_ \o req.after, crlf_ \o crlf_)

PlaceInv   == Arriving /\ Straight => \E k \in 0..Len(req.items) : Place(k)
HandledInv == stage = "handled" /\ Straight =>
  \E k \in 0..Len(req.items) : (cut \/ k = 0) /\ files = Whole(req.items, k, Len(req.items))

FormInv == /\ stage = "asked" => FreshInv
           /\ CountInv
           /\ Arriving => ClientInv /\ buf \in Texts /\ ReadingInv
           /\ PlaceInv /\ HandledInv /\ FormTaken

LEMMA FormInvInit == Init => FormInv
<1> SUFFICES ASSUME Init PROVE FormInv
  OBVIOUS
<1>1. /\ stage = "asked" /\ offset = 0 /\ cur_item = 1 /\ cur_start = 0 /\ ended = "no" /\ wire = <<>>
      /\ buf = <<>> /\ state_ = 0 /\ is_valid_ = FALSE /\ files = <<>> /\ file_count = 0 /\ cut = FALSE
  BY DEF Init
<1>2. FreshInv
  BY <1>1 DEF FreshInv
<1>3. CountInv
  <2>1. <<>> \in Seq(Nat) /\ Len(files) = 0
    BY <1>1, EmptySeq
  <2> QED BY <1>1, <2>1, FormsAssumption DEF CountInv
<1>4. ~Arriving
  BY <1>1 DEF Arriving
<1> QED BY <1>1, <1>2, <1>3, <1>4 DEF FormInv, PlaceInv, HandledInv, FormTaken

----------------------------------------------------------------------------
(* The number of items *)

LEMMA CountKept ==
  ASSUME CountInv, files' = files, stage # "refused" => stage' = "refused" \/ file_count' = file_count,
         stage = "refused" => stage' = "refused"
  PROVE  CountInv'
BY DEF CountInv

\* what is collected makes no entry
LEMMA CollectedCount ==
  ASSUME CountInv, NEW n, Collected(n)
  PROVE  Len(files') = Len(files) /\ \E S : files' \in Seq(S)
<1>1. PICK S : files \in Seq(S)
  BY DEF CountInv
<1> DEFINE T == {files'[i] : i \in 1..Len(files)}
           m == Len(files)
<1>2. m \in Nat /\ DOMAIN files = 1..m
  BY <1>1, LenProperties
<1>3. files' = [i \in 1..m |-> files'[i]]
  BY <1>2 DEF Collected
<1>4. \A i \in 1..m : files'[i] \in T
  OBVIOUS
<1> HIDE DEF T
<1>5. files' \in [1..m -> T]
  BY <1>3, <1>4
<1> HIDE DEF m
<1>6. files' \in Seq(T) /\ Len(files') = m
  BY <1>2, <1>5, SeqDef, LenProperties
<1> QED BY <1>6 DEF m

LEMMA CountStep ==
  ASSUME CountInv, [Next]_vars
  PROVE  CountInv'
<1>1. CASE Client
  BY <1>1, CountKept DEF Client
<1>2. CASE ReadLine
  BY <1>2, CountKept DEF ReadLine
<1>3. CASE \E n \in 1..Len(wire) : Receive(n)
  BY <1>3, CountKept DEF Receive
<1>4. CASE ReceiveEnd
  BY <1>4, CountKept DEF ReceiveEnd
<1>5. CASE ParseEnd \/ HeaderWaits \/ HeaderTooLong
  BY <1>5, CountKept DEF ParseEnd, HeaderWaits, HeaderTooLong, Returns, In
<1>6. CASE SkipPreamble
  BY <1>6, CountKept DEF SkipPreamble, Returns, Enters, In
<1>7. CASE NewEntry
  BY <1>7, CountKept DEF NewEntry, Enters, In
<1>8. CASE HeadersEnd
  <2>1. /\ stage = "parsing" /\ file_count' = file_count + 1
        /\ \/ file_count = MaxFiles /\ stage' = "refused" /\ files' = files
           \/ file_count # MaxFiles /\ files' = Append(files, file_) /\ stage' = stage
    BY <1>8 DEF HeadersEnd, In, Enters
  <2>2. CASE stage' = "refused"
    BY <2>1, <2>2, CountKept
  <2>3. CASE stage' # "refused"
    <3>1. PICK S : files \in Seq(S)
      BY DEF CountInv
    <3> DEFINE T == S \cup {file_}
    <3>2. files \in Seq(T) /\ file_ \in T
      BY <3>1, SeqOfMore
    <3> HIDE DEF T
    <3>3. files' \in Seq(T) /\ Len(files') = Len(files) + 1 /\ Len(files) \in Nat
      BY <2>1, <2>3, <3>2, AppendProperties, LenProperties
    <3>4. file_count = Len(files) /\ Len(files) <= MaxFiles /\ file_count # MaxFiles
      BY <2>1, <2>3 DEF CountInv
    <3>5. Len(files') <= MaxFiles /\ file_count' = Len(files')
      BY <2>1, <3>3, <3>4, FormsAssumption
    <3> QED BY <3>3, <3>5 DEF CountInv
  <2> QED BY <2>2, <2>3
<1>9. CASE HeaderLine
  BY <1>9, CountKept DEF HeaderLine, Rejects, In
<1>10. CASE BoundaryEnd
  BY <1>10, CountKept DEF BoundaryEnd, Returns, Enters, In
<1>11. CASE Content \/ ContentGoesOn
  <2>1. /\ stage = "parsing" /\ stage' # "refused" /\ file_count' = file_count
        /\ files' = files \/ \E n : Collected(n)
    BY <1>11 DEF Content, ContentGoesOn, In, Enters
  <2>2. CASE files' = files
    BY <2>1, <2>2, CountKept
  <2>3. CASE \E n : Collected(n)
    <3>1. Len(files') = Len(files) /\ \E S : files' \in Seq(S)
      BY <2>3, CollectedCount
    <3> QED BY <2>1, <3>1 DEF CountInv
  <2> QED BY <2>1, <2>2, <2>3
<1>12. CASE Done \/ UNCHANGED vars
  BY <1>12, CountKept DEF Done, vars
<1> QED BY <1>1, <1>2, <1>3, <1>4, <1>5, <1>6, <1>7, <1>8, <1>9, <1>10, <1>11, <1>12 DEF Next, Parse

----------------------------------------------------------------------------
(* The form as it arrives *)

LEMMA StraightKept ==
  ASSUME req' = req, cut => cut', Straight'
  PROVE  Straight
BY DEF Straight, PlainForm

\* what is still to come, and what is in the buffer
LEMMA Arrived ==
  ASSUME req \in Requests, ClientInv, buf \in Texts
  PROVE  /\ Coming \in Seq(Nat) /\ Rest \in Seq(Nat) /\ buf \in Seq(Nat) /\ Cut(Rest, buf, Coming)
         /\ wire \in Seq(Nat) /\ ToWrite \in Seq(Nat)
         /\ req.items \in Seq(ItemType) /\ Len(req.items) \in Nat /\ DOMAIN req.items = 1..Len(req.items)
         /\ After \in Texts /\ Ending = finish \o After /\ Ending \in Seq(Nat)
         /\ (req.after = <<>> => After = <<>>)
<1>1. wire \in Seq(Nat) /\ buf \in Seq(Nat) /\ ToWrite \in Seq(Nat)
  BY ToWriteType DEF ClientInv, Texts
<1>2. Coming \in Seq(Nat)
  BY <1>1, ConcatProperties DEF Coming
<1>3. Rest \in Seq(Nat) /\ Cut(Rest, buf, Coming)
  BY <1>1, <1>2, ConcatProperties DEF Rest, Cut
<1> QED BY <1>1, <1>2, <1>3, Items DEF Ending, After

LEMMA StraightFacts ==
  ASSUME req \in Requests, Straight
  PROVE  /\ \A j \in 1..Len(req.items) : PlainItem(req.items[j])
         /\ ~Holds(crlf_ \o After, crlf_ \o crlf_)
         /\ cut \/ req.items = <<>> => \A k \in DOMAIN req.items : ~LooksLikeStart(req.items[k])
<1>1. DOMAIN req.items = 1..Len(req.items)
  BY Items
<1>2. ~Holds(crlf_ \o After, crlf_ \o crlf_)
  BY NoEmptyLine DEF After, Straight
<1>3. req.items = <<>> => DOMAIN req.items = {}
  OBVIOUS
<1> QED BY <1>1, <1>2, <1>3 DEF Straight, PlainForm

LEMMA StartLength == Start \in Seq(Nat) /\ Len(Start) \in Nat /\ Len(Start) > 0
BY StartText, StartChars, EmptySeq, LenProperties

LEMMA ClientStep ==
  ASSUME req \in Requests, FormInv, Client
  PROVE  FormInv'
<1>1. /\ CountInv' /\ req' = req /\ stage' = stage /\ buf' = buf /\ stage \in {"reading", "parsing"}
      /\ UNCHANGED <<state_, is_valid_, file_, files, cut>>
  <2>1. CountInv'
    BY CountStep DEF FormInv, Next
  <2>2. stage \in {"reading", "parsing"}
    BY DEF Client, WriteForm, ProvideGiven, ProvideFinish, Break, Provide, Sending
  <2> QED BY <2>1, <2>2 DEF Client, parser
<1>2. ASSUME req.form = "multipart"
      PROVE  ClientInv' /\ Rest' = Rest /\ offset' - Len(wire') = offset - Len(wire)
             /\ buf' \in Texts /\ ReadingInv' /\ ClientInv
  <2>1. ClientInv /\ buf \in Texts /\ ReadingInv
    BY <1>1, <1>2 DEF FormInv, Arriving
  <2>2. PICK text : Sends(text)
    BY <1>2, <2>1, ClientSends
  <2>3. ClientInv'
    BY <1>2, <2>1, ClientSends
  <2>4. Rest' = Rest /\ offset' - Len(wire') = offset - Len(wire)
    <3>1. wire \in Texts /\ offset \in Nat /\ ToWrite \in Seq(Nat)
      BY <2>1, ToWriteType DEF ClientInv
    <3> QED BY <1>1, <2>1, <2>2, <3>1, SendsKeeps
  <2>5. ReadingInv'
    BY <1>1, <2>1 DEF ReadingInv
  <2> QED BY <1>1, <2>1, <2>3, <2>4, <2>5
<1>3. ASSUME Arriving', Straight' PROVE \E k \in 0..Len(req'.items) : Place(k)'
  <2>1. Arriving /\ Straight
    BY <1>1, <1>3, StraightKept DEF Arriving
  <2>2. PICK k \in 0..Len(req.items) : Place(k)
    BY <2>1 DEF FormInv, PlaceInv
  <2>3. /\ ClientInv' /\ Rest' = Rest /\ offset' - Len(wire') = offset - Len(wire)
        /\ offset \in Nat /\ offset' \in Nat /\ Len(wire) \in Nat /\ Len(wire') \in Nat
    <3>1. ClientInv' /\ ClientInv /\ Rest' = Rest /\ offset' - Len(wire') = offset - Len(wire)
      BY <1>2, <2>1 DEF Arriving
    <3>2. Len(wire) \in Nat /\ Len(wire') \in Nat /\ offset \in Nat /\ offset' \in Nat
      BY <3>1, LenProperties DEF ClientInv, Texts
    <3> QED BY <3>1, <3>2
  <2>4. Ending' = Ending /\ Left(1)' = Left(1)
    BY <1>1 DEF Ending, After, Left
  <2>5. offset = Len(wire) => offset' = Len(wire')
    BY <2>3
  <2>6. Waits => Waits'
    BY <1>1, <2>3, <2>4, <2>5 DEF Waits, Untouched
  <2>7. \A j : InItem(k, j) => InItem(k, j)'
    BY <1>1, <2>3, <2>4 DEF InItem
  <2>8. Over(k) => Over(k)'
    BY <1>1, <2>3, <2>4 DEF Over
  <2>9. Place(k)'
    BY <1>1, <2>2, <2>6, <2>7, <2>8 DEF Place
  <2> QED BY <1>1, <2>9
<1>4. Arriving' => ClientInv' /\ buf' \in Texts /\ ReadingInv'
  BY <1>1, <1>2 DEF Arriving
<1> QED BY <1>1, <1>3, <1>4 DEF FormInv, PlaceInv, HandledInv, FormTaken

LEMMA ReadLineStep ==
  ASSUME req \in Requests, FormInv, ReadLine
  PROVE  FormInv'
<1>1. /\ stage = "asked" /\ stage' \in {"refused", "handled", "reading"}
      /\ stage' = "handled" => req.form = "none"
      /\ req' = req /\ buf' = buf /\ UNCHANGED <<client, wire, state_, is_valid_, file_, files, cut>>
  BY DEF ReadLine, parser
<1>2. /\ offset = 0 /\ cur_item = 1 /\ cur_start = 0 /\ ended = "no" /\ wire = <<>>
      /\ buf = <<>> /\ state_ = 0 /\ is_valid_ = FALSE /\ files = <<>> /\ cut = FALSE
  BY <1>1 DEF FormInv, FreshInv
<1>3. /\ offset' = 0 /\ cur_item' = 1 /\ cur_start' = 0 /\ ended' = "no" /\ wire' = <<>>
      /\ buf' = <<>> /\ state_' = 0 /\ is_valid_' = FALSE /\ files' = <<>> /\ cut' = FALSE
  BY <1>1, <1>2 DEF client
<1>4. CountInv'
  BY CountStep DEF FormInv, Next
<1>5. <<>> \in Texts /\ Len(<<>>) = 0
  BY EmptySeq DEF Texts
<1>6. ClientInv' /\ buf' \in Texts /\ ReadingInv'
  <2>1. req'.provided \in Nat
    BY <1>1, Items
  <2>2. cur_item' \in 1..req'.provided + 1
    BY <1>3, <2>1
  <2>3. ClientInv'
    BY <1>3, <1>5, <2>1, <2>2 DEF ClientInv
  <2>4. ReadingInv'
    BY <1>3 DEF ReadingInv
  <2> QED BY <1>3, <1>5, <2>3, <2>4
<1>7. ASSUME stage' = "reading" PROVE Place(0)'
  <2> DEFINE one == 1
  <2>1. Left(one)' = From(req.items, Ending, one) /\ Ending' = Ending
    BY <1>1 DEF Left, Ending, After
  <2>2. From(req.items, Ending, one) \in Seq(Nat)
    <3>1. one \in 1..Len(req.items) + 1 /\ req.items \in Seq(ItemType) /\ Ending \in Seq(Nat)
      BY Items
    <3> HIDE DEF one
    <3> QED BY <3>1, FromType
  <2>3. ToWrite' = Left(one)'
    BY <1>3 DEF ToWrite
  <2> HIDE DEF one
  <2> DEFINE w == From(req.items, Ending, one)
             e == <<>>
  <2>4. Rest' = e \o (e \o w)
    BY <1>3, <2>1, <2>3 DEF Rest, Coming
  <2>5. e \o w = w /\ e \in Texts
    <3> HIDE DEF w
    <3> QED BY <1>5, <2>2, ConcatEmptySeq
  <2> HIDE DEF e, w
  <2>6. Rest' = w
    BY <2>4, <2>5
  <2>7. Cut(w, e, w)
    BY <2>5 DEF Cut
  <2>8. WaitsAt(req.items, Ending, w, <<>>)
    BY <2>5, <2>7 DEF WaitsAt, w, one
  <2>9. Waits'
    <3>1. WaitsAt(req.items, Ending, Rest, files)'
      BY <1>1, <1>3, <2>1, <2>6, <2>8
    <3>2. Untouched'
      BY <1>3, <1>5, <1>7, <2>1, <2>6 DEF Untouched, w, one
    <3> QED BY <1>3, <3>1, <3>2 DEF Waits
  <2> QED BY <2>9 DEF Place
<1>8. PlaceInv'
  <2>1. 0 \in 0..Len(req'.items)
    BY <1>1, Items
  <2> QED BY <1>1, <1>7, <2>1 DEF PlaceInv, Arriving
<1>9. HandledInv'
  BY <1>1 DEF HandledInv, Straight, PlainForm
<1>10. FormTaken'
  BY <1>3 DEF FormTaken
<1> QED BY <1>1, <1>4, <1>6, <1>8, <1>9, <1>10 DEF FormInv

LEMMA ReceiveStep ==
  ASSUME req \in Requests, FormInv, NEW n \in 1..Len(wire), Receive(n)
  PROVE  FormInv'
<1> DEFINE head == SubSeq(wire, 1, n)
           tail == SubSeq(wire, n + 1, Len(wire))
<1>1. /\ stage = "reading" /\ req' = req /\ wire' = tail /\ UNCHANGED <<offset, cur_item, cur_start, ended>>
      /\ UNCHANGED <<state_, is_valid_, file_, files>>
      /\ req.form = "params" => stage' = stage /\ buf' = buf /\ cut' = cut
      /\ req.form # "params" =>
           buf' = buf \o head /\ stage' = "parsing" /\ cut' = (cut \/ Read + n < Len(Start))
  BY DEF Receive, client, Start
<1>2. CountInv'
  BY CountStep DEF FormInv, Next
<1>3. ASSUME req.form = "multipart"
      PROVE  /\ ClientInv /\ ClientInv' /\ buf' \in Texts /\ ReadingInv' /\ Rest' = Rest /\ ReadingInv
             /\ (buf = <<>> => Len(buf') = n) /\ stage' = "parsing"
  <2>1. ClientInv /\ buf \in Texts /\ ReadingInv
    BY <1>1, <1>3 DEF FormInv, Arriving
  <2>2. buf \in Seq(Nat) /\ wire \in Seq(Nat) /\ ToWrite \in Seq(Nat) /\ n \in 0..Len(wire)
    BY <2>1, Arrived
  <2>3. head \in Seq(Nat) /\ Len(head) = n /\ tail \in Seq(Nat) /\ head \o tail = wire
    <3> HIDE DEF head, tail
    <3>1. SubSeq(wire, 1, n) \in Seq(Nat) /\ Len(SubSeq(wire, 1, n)) = n
          /\ SubSeq(wire, n + 1, Len(wire)) \in Seq(Nat)
          /\ SubSeq(wire, 1, n) \o SubSeq(wire, n + 1, Len(wire)) = wire
      BY <2>2, CutInTwo
    <3> QED BY <3>1 DEF head, tail
  <2>4. buf' = buf \o head /\ stage' = "parsing"
    BY <1>1, <1>3
  <2> HIDE DEF head, tail
  <2>5. buf' \in Seq(Nat)
    BY <2>2, <2>3, <2>4, ConcatProperties
  <2>6. Ending' = Ending /\ Given' = Given
    BY <1>1 DEF Ending, After, Given
  <2>7. ToWrite' = ToWrite
    BY <1>1, <2>6 DEF ToWrite, Left, Half
  <2>8. ClientInv'
    BY <1>1, <2>1, <2>3, <2>6 DEF ClientInv, Texts
  <2>9. Rest' = Rest
    <3> DEFINE z == ToWrite
               u == tail \o z
    <3>1. z \in Seq(Nat) /\ u \in Seq(Nat)
      BY <2>2, <2>3, ConcatProperties
    <3>2. Rest' = (buf \o head) \o u /\ Rest = buf \o (wire \o z)
      BY <1>1, <2>4, <2>7 DEF Rest, Coming
    <3>4. wire \o z = (head \o tail) \o z
      BY <2>3
    <3> HIDE DEF z
    <3>3. (head \o tail) \o z = head \o u
      BY <2>3, <3>1, TextsAssociative
    <3> HIDE DEF u
    <3>6. buf \in Seq(Nat) /\ head \in Seq(Nat) /\ u \in Seq(Nat)
      BY <2>2, <2>3, <3>1
    <3>5. (buf \o head) \o u = buf \o (head \o u)
      BY ONLY <3>6, TextsAssociative
    <3> QED BY <3>2, <3>3, <3>4, <3>5
  <2>10. buf = <<>> => Len(buf') = n
    <3>1. <<>> \o head = head
      BY <2>3, ConcatEmptySeq
    <3> QED BY <2>3, <2>4, <3>1
  <2>11. ReadingInv'
    BY <2>4 DEF ReadingInv
  <2> QED BY <2>1, <2>4, <2>5, <2>8, <2>9, <2>10, <2>11 DEF Texts
<1>4. ASSUME Arriving', Straight' PROVE \E k \in 0..Len(req'.items) : Place(k)'
  <2>1. req.form = "multipart" /\ Arriving /\ (cut => cut')
    BY <1>1, <1>4 DEF Arriving
  <2>2. Straight
    BY <1>1, <1>4, <2>1, StraightKept
  <2>3. PICK k \in 0..Len(req.items) : Place(k)
    BY <2>1, <2>2 DEF FormInv, PlaceInv
  <2>4. ClientInv /\ Rest' = Rest /\ (buf = <<>> => Len(buf') = n) /\ stage' = "parsing"
    BY <1>3, <2>1
  <2>5. Ending' = Ending /\ Left(1)' = Left(1)
    BY <1>1 DEF Ending, After, Left
  <2>6. ASSUME Untouched, ~cut' PROVE Untouched'
    <3>1. Rest = Left(1) /\ buf = <<>> /\ offset = Len(wire)
      BY <1>1, <2>6 DEF Untouched
    <3>2. Len(buf') = n /\ Read = offset - Len(wire) /\ ~(Read + n < Len(Start))
      BY <1>1, <2>1, <2>4, <2>6, <3>1 DEF Read
    <3>3. offset \in Nat /\ n \in Nat /\ Len(Start) \in Nat
      BY <2>4, StartLength DEF ClientInv
    <3> DEFINE s == Len(Start)
               w == Len(wire)
    <3>4. ~(Read + n < s) /\ Read = offset - w /\ offset = w /\ offset \in Nat /\ n \in Nat /\ s \in Nat
      BY <3>1, <3>2, <3>3
    <3> HIDE DEF s, w
    <3>5. s <= n
      BY <3>4
    <3> QED BY <2>4, <2>5, <3>1, <3>2, <3>5 DEF Untouched, s
  <2>7. Waits => Waits'
    BY <1>1, <2>1, <2>4, <2>5, <2>6 DEF Waits
  <2>8. \A j : InItem(k, j) => InItem(k, j)'
    BY <1>1, <2>4, <2>5 DEF InItem
  <2>9. Over(k) => Over(k)'
    BY <1>1, <2>1, <2>4, <2>5 DEF Over
  <2>10. Place(k)'
    BY <1>1, <2>1, <2>3, <2>7, <2>8, <2>9 DEF Place
  <2> QED BY <1>1, <2>10
<1>5. Arriving' => ClientInv' /\ buf' \in Texts /\ ReadingInv'
  BY <1>1, <1>3 DEF Arriving
<1>6. stage' # "asked" /\ stage' # "handled" /\ stage' # "refused"
  BY <1>1
<1> QED BY <1>2, <1>4, <1>5, <1>6 DEF FormInv, PlaceInv, HandledInv, FormTaken

\* in a form that has come whole nothing was missed
LEMMA WholeRead ==
  ASSUME req \in Requests, FormInv, Arriving, Straight, stage = "reading", wire = <<>>, ended = "whole",
         ~is_valid_, NEW k \in 0..Len(req.items), Place(k)
  PROVE  cut \/ req.items = <<>>
<1> SUFFICES ASSUME ~cut, req.items # <<>> PROVE FALSE
  OBVIOUS
<1> DEFINE items == req.items
           e == <<>>
<1>1. ClientInv /\ buf \in Texts /\ ReadingInv
  BY DEF FormInv
<1>2. /\ Rest \in Seq(Nat) /\ buf \in Seq(Nat) /\ items \in Seq(ItemType) /\ Len(items) \in Nat
      /\ Ending \in Seq(Nat) /\ After \in Texts /\ Ending = finish \o After
  BY <1>1, Arrived
<1>3. \A j \in 1..Len(items) : PlainItem(items[j])
  BY StraightFacts
<1>4. Rest = buf
  <2>1. ToWrite = e
    BY DEF ToWrite
  <2>2. e \o e = e /\ e \in Seq(Nat)
    BY EmptySeq, ConcatEmptySeq
  <2>3. Rest = buf \o (e \o e)
    BY <2>1 DEF Rest, Coming
  <2> HIDE DEF e
  <2>4. buf \o e = buf
    BY <1>2, ConcatEmptySeq DEF e
  <2> QED BY <2>2, <2>3, <2>4
<1>5. Cut(Rest, buf, e) /\ e \in Seq(Nat)
  BY <1>2, <1>4, ConcatEmptySeq, EmptySeq DEF Cut
<1> HIDE DEF items, e
<1>6. CASE Waits
  <2>1. Left(1) = <<>>
    BY <1>4, <1>6 DEF Waits, Untouched
  <2> DEFINE one == 1
             o == Opened(items, Ending, one)
             w == From(items, Ending, one)
  <2>2. one \in 1..Len(items)
    BY <1>2, EmptySeq DEF items
  <2> HIDE DEF one
  <2>3. Cut(w, Start, o) /\ o \in Seq(Nat) /\ w \in Seq(Nat)
    BY <1>2, <2>2, FromItem
  <2>4. Start \in Seq(Nat) /\ Len(Start) > 0 /\ Len(Start) \in Nat
    BY StartLength
  <2> HIDE DEF w, o
  <2>5. Len(w) = Len(Start) + Len(o) /\ Len(o) \in Nat
    BY <2>3, <2>4, CutPieces
  <2>6. Len(w) # 0
    BY <2>4, <2>5
  <2>7. w = <<>>
    BY <2>1 DEF Left, w, one, items
  <2> QED BY <2>6, <2>7, EmptySeq
<1>7. ASSUME NEW j \in k + 1..Len(items), InItem(k, j) PROVE FALSE
  <2>1. j \in 1..Len(items)
    BY <1>2
  <2>2. PlainItem(items[j])
    BY <1>3, <2>1
  <2>3. CASE state_ = 1
    <3>1. StartsAt(items, Ending, k, j, Rest, files) /\ Rest = <<>>
      BY <1>1, <1>4, <1>7, <2>3 DEF InItem, ReadingInv, items
    <3> QED BY <1>2, <2>1, <3>1, StartsMore
  <2>4. CASE state_ = 2
    <3>1. HeadsAt(items, Ending, k, j, Rest, files, file_) /\ Spots(Rest, crlf_) = {}
      BY <1>1, <1>4, <1>7, <2>4 DEF InItem, ReadingInv, items
    <3> QED BY <1>2, <2>1, <2>2, <3>1, HeadsFound
  <2>5. CASE state_ = 3
    <3>1. FillsAt(items, Ending, k, j, Rest, files) /\ Spots(Rest, Mark) = {}
      BY <1>1, <1>4, <1>7, <2>5 DEF InItem, ReadingInv, items
    <3> QED BY <1>2, <2>1, <2>2, <3>1, FillsFound
  <2>6. CASE state_ = 4
    <3>1. ClosesAt(items, Ending, k, j, Rest, files) /\ ~IsPrefix(crlf_, buf) /\ ~IsPrefix(dash_, buf)
      BY <1>1, <1>7, <2>6 DEF InItem, ReadingInv, items
    <3>2. /\ j # Len(items) => Cut(Rest, crlf_, Opened(items, Ending, j + 1))
          /\ j = Len(items) => Cut(Rest, dash_, Tailing(After))
      BY <1>2, <2>1, <3>1, ClosesNext
    <3>3. crlf_ \in Seq(Nat) /\ dash_ \in Seq(Nat)
      BY Constants DEF Texts
    <3>4. CASE j # Len(items)
      <4> DEFINE i == j + 1
                 o == Opened(items, Ending, i)
      <4>1. i \in 1..Len(items)
        BY <1>2, <2>1, <3>4
      <4> HIDE DEF i
      <4>2. o \in Seq(Nat)
        BY <1>2, <4>1, FromItem
      <4>3. Cut(buf, crlf_, o)
        BY <1>4, <3>2, <3>4 DEF i
      <4> HIDE DEF o
      <4> QED BY <1>2, <3>1, <3>3, <4>2, <4>3, PrefixCut
    <3>5. CASE j = Len(items)
      <4> DEFINE o == Tailing(After)
      <4>1. o \in Seq(Nat)
        BY <1>2, EndText
      <4>2. Cut(buf, dash_, o)
        BY <1>4, <3>2, <3>5
      <4> HIDE DEF o
      <4> QED BY <1>2, <3>1, <3>3, <4>1, <4>2, PrefixCut
    <3> QED BY <3>4, <3>5
  <2> QED BY <1>7, <2>3, <2>4, <2>5, <2>6 DEF InItem
<1>8. CASE Over(k)
  BY <1>8 DEF Over
<1> QED BY <1>6, <1>7, <1>8 DEF Place, items

LEMMA ReceiveEndStep ==
  ASSUME req \in Requests, FormInv, ReceiveEnd
  PROVE  FormInv'
<1>1. /\ stage = "reading" /\ req' = req /\ wire = <<>> /\ ended # "no" /\ UNCHANGED <<client, files, cut>>
      /\ stage' \in {"handled", "refused"}
      /\ stage' = "handled" => ended = "whole" /\ (req.form = "params" \/ is_valid_)
      /\ stage' = "refused" => ended # "whole" \/ req.form = "params" \/ ~is_valid_
  BY DEF ReceiveEnd
<1>2. CountInv'
  BY CountStep DEF FormInv, Next
<1>3. ASSUME req.form = "multipart" PROVE Arriving /\ ended \in {"whole", "broken"}
  <2>1. Arriving
    BY <1>1, <1>3 DEF Arriving
  <2> QED BY <1>1, <2>1 DEF FormInv, ClientInv
<1>4. HandledInv'
  <2> SUFFICES ASSUME stage' = "handled", Straight'
               PROVE  \E k \in 0..Len(req'.items) : (cut' \/ k = 0) /\ files' = Whole(req'.items, k, Len(req'.items))
    BY DEF HandledInv
  <2>1. Straight /\ is_valid_
    BY <1>1, StraightKept DEF Straight, PlainForm
  <2>2. Arriving
    BY <1>3, <2>1 DEF Straight, PlainForm
  <2>3. PICK k \in 0..Len(req.items) : Place(k)
    BY <2>1, <2>2 DEF FormInv, PlaceInv
  <2>4. Over(k) /\ (cut \/ k = 0)
    BY <2>1, <2>3 DEF Place, Waits, InItem
  <2>5. files = Whole(req.items, k, Len(req.items))
    BY <2>1, <2>4 DEF Over
  <2> QED BY <1>1, <2>4, <2>5
<1>5. FormTaken'
  <2> SUFFICES ASSUME stage' = "refused", PlainForm, ~cut, ended # "broken", req.after = <<>>,
                      Len(req.items) \in 1..MaxFiles
               PROVE  FALSE
    BY <1>1 DEF FormTaken, PlainForm, client
  <2>1. req.form = "multipart"
    BY DEF PlainForm
  <2>2. Arriving /\ ended = "whole" /\ ~is_valid_
    BY <1>1, <1>3, <2>1
  <2>3. Straight
    BY NoEmptyLine DEF Straight
  <2>4. PICK k \in 0..Len(req.items) : Place(k)
    BY <2>2, <2>3 DEF FormInv, PlaceInv
  <2>5. cut \/ req.items = <<>>
    BY <1>1, <2>2, <2>3, <2>4, WholeRead
  <2>6. Len(req.items) # 0
    OBVIOUS
  <2> QED BY <2>5, <2>6, EmptySeq
<1>6. ~Arriving' /\ stage' # "asked"
  BY <1>1 DEF Arriving
<1> QED BY <1>2, <1>4, <1>5, <1>6 DEF FormInv, PlaceInv

----------------------------------------------------------------------------
(* One turn of parse() *)

\* a form that may not be refused, when no piece ended inside the first boundary line
Fits == /\ req.after = <<>> /\ Len(req.items) \in 1..MaxFiles
        /\ \A i \in DOMAIN req.items : ~LongHeader(req.items[i])

\* the parser goes on in the form, and refuses nothing that it should take
GoesOn ==
  /\ buf' \in Texts /\ ReadingInv'
  /\ Straight => \A k \in 0..Len(req.items) : Place(k) =>
       /\ stage' # "refused" => \E i \in 0..Len(req.items) : Place(i)'
       /\ ~(stage' = "refused" /\ k = 0 /\ Fits)

LEMMA ParseFrame ==
  ASSUME req \in Requests, FormInv, Next, stage = "parsing", UNCHANGED connection,
         stage' \in {"parsing", "reading", "refused"}, req.form = "multipart" => GoesOn
  PROVE  FormInv'
<1>1. /\ req' = req /\ cut' = cut /\ wire' = wire /\ offset' = offset /\ cur_item' = cur_item
      /\ cur_start' = cur_start /\ ended' = ended
  BY DEF connection, client
<1>2. CountInv'
  BY CountStep DEF FormInv
<1>3. ASSUME req.form = "multipart"
      PROVE  ClientInv'
  <2>1. ClientInv
    BY <1>3 DEF FormInv, Arriving
  <2>2. Given' = Given
    BY <1>1 DEF Given
  <2> QED BY <1>1, <2>1, <2>2 DEF ClientInv
<1>4. Arriving' => ClientInv' /\ buf' \in Texts /\ ReadingInv'
  BY <1>1, <1>3 DEF Arriving, GoesOn
<1>5. Straight' => Straight
  BY <1>1, StraightKept
<1>6. ASSUME Straight, Arriving PROVE \E k \in 0..Len(req.items) : Place(k)
  BY <1>6 DEF FormInv, PlaceInv
<1>7. PlaceInv'
  <2> SUFFICES ASSUME Arriving', Straight' PROVE \E k \in 0..Len(req'.items) : Place(k)'
    BY DEF PlaceInv
  <2>1. Arriving /\ Straight /\ req.form = "multipart" /\ stage' # "refused"
    BY <1>1, <1>5 DEF Arriving
  <2> QED BY <1>1, <1>6, <2>1 DEF GoesOn
<1>8. FormTaken'
  <2> SUFFICES ASSUME stage' = "refused", PlainForm, ~cut, Fits
               PROVE  FALSE
    BY <1>1 DEF FormTaken, PlainForm, Fits, LongHeader
  <2>1. Straight
    BY NoEmptyLine DEF Straight, Fits
  <2>2. req.form = "multipart" /\ Arriving
    BY DEF PlainForm, Arriving
  <2>3. PICK k \in 0..Len(req.items) : Place(k)
    BY <1>6, <2>1, <2>2
  <2>4. k = 0
    BY <2>3 DEF Place
  <2> QED BY <2>1, <2>2, <2>3, <2>4 DEF GoesOn
<1> QED BY <1>2, <1>4, <1>7, <1>8 DEF FormInv, HandledInv

\* what is known while parse() runs
LEMMA Parsing ==
  ASSUME req \in Requests, FormInv, stage = "parsing", UNCHANGED connection, req.form = "multipart"
  PROVE  /\ Coming \in Seq(Nat) /\ Rest \in Seq(Nat) /\ buf \in Seq(Nat) /\ Cut(Rest, buf, Coming)
         /\ req.items \in Seq(ItemType) /\ Len(req.items) \in Nat /\ DOMAIN req.items = 1..Len(req.items)
         /\ After \in Texts /\ Ending = finish \o After /\ Ending \in Seq(Nat)
         /\ (req.after = <<>> => After = <<>>)
         /\ Coming' = Coming /\ req' = req /\ cut' = cut /\ Ending' = Ending /\ Left(1)' = Left(1)
         /\ \A r : Cut(r, buf', Coming) => Rest' = r
<1>1. ClientInv /\ buf \in Texts
  BY DEF FormInv, Arriving
<1>2. /\ req' = req /\ cut' = cut /\ wire' = wire /\ offset' = offset /\ cur_item' = cur_item
      /\ cur_start' = cur_start /\ ended' = ended
  BY DEF connection, client
<1>3. Ending' = Ending /\ Given' = Given /\ Left(1)' = Left(1)
  BY <1>2 DEF Ending, After, Given, Left
<1>4. Coming' = Coming
  BY <1>2, <1>3 DEF Coming, ToWrite, Left, Half
<1>5. \A r : Cut(r, buf', Coming) => Rest' = r
  BY <1>4 DEF Rest, Cut
<1> QED BY <1>1, <1>2, <1>3, <1>4, <1>5, Arrived

LEMMA SpotsNone == ASSUME NEW part \in Seq(Nat), part # <<>> PROVE Spots(<<>>, part) = {} /\ ~IsPrefix(part, <<>>)
<1> DEFINE e == <<>>
<1>1. e \in Seq(Nat) /\ Len(e) = 0 /\ Len(part) \in Nat /\ Len(part) # 0
  BY EmptySeq, LenProperties
<1> HIDE DEF e
<1>2. Spots(e, part) = {}
  BY <1>1 DEF Spots
<1>3. ASSUME IsPrefix(part, e) PROVE FALSE
  <2>1. PICK z \in Seq(Nat) : Cut(e, part, z)
    BY <1>1, <1>3, PrefixCut
  <2>2. Len(e) = Len(part) + Len(z) /\ Len(z) \in Nat
    BY <1>1, <2>1, CutPieces
  <2> DEFINE p == Len(part)
             m == Len(z)
  <2>3. 0 = p + m /\ p \in Nat /\ m \in Nat /\ p # 0
    BY <1>1, <2>2
  <2> HIDE DEF p, m
  <2> QED BY <2>3
<1> QED BY <1>2, <1>3 DEF e

LEMMA ParseEndStep ==
  ASSUME req \in Requests, FormInv, ParseEnd
  PROVE  FormInv'
<1>1. /\ stage = "parsing" /\ buf = <<>> /\ buf' = buf /\ stage' = "reading" /\ UNCHANGED connection
      /\ UNCHANGED <<state_, is_valid_, file_, files, file_count>>
  BY DEF ParseEnd, Returns
<1>2. ASSUME req.form = "multipart" PROVE GoesOn
  <2>1. /\ Rest' = Rest /\ req' = req /\ cut' = cut /\ Ending' = Ending
        /\ buf \in Seq(Nat)
    BY <1>1, <1>2, Parsing DEF Rest
  <2>2. ReadingInv'
    <3>1. crlf_ \in Seq(Nat) /\ dash_ \in Seq(Nat) /\ crlf_ # <<>> /\ dash_ # <<>> /\ Mark \in Seq(Nat) /\ Mark # <<>>
      BY Constants, MarkChars DEF Texts
    <3>2. /\ Spots(buf', crlf_) = {} /\ Spots(buf', Mark) = {} /\ ~IsPrefix(crlf_, buf')
          /\ ~IsPrefix(dash_, buf')
      BY <1>1, <3>1, SpotsNone
    <3> QED BY <1>1, <3>2 DEF ReadingInv
  <2>3. ASSUME NEW k \in 0..Len(req.items), Place(k) PROVE Place(k)'
    <3>1. \A j : InItem(k, j) => InItem(k, j)'
      BY <1>1, <2>1 DEF InItem
    <3>2. Over(k) => Over(k)'
      BY <1>1, <2>1 DEF Over
    <3>3. Waits => Waits'
      <4>1. ~Untouched
        <5>1. Len(buf) = 0
          BY <1>1, EmptySeq
        <5> QED BY <1>1, <5>1, StartLength DEF Untouched
      <4> QED BY <1>1, <2>1, <4>1 DEF Waits
    <3> QED BY <2>1, <2>3, <3>1, <3>2, <3>3 DEF Place
  <2> QED BY <1>1, <2>1, <2>2, <2>3 DEF GoesOn, Texts
<1> QED BY <1>1, <1>2, ParseFrame DEF Next, Parse

LEMMA NewEntryStep ==
  ASSUME req \in Requests, FormInv, NewEntry
  PROVE  FormInv'
<1>1. /\ stage = "parsing" /\ buf' = buf /\ stage' = stage /\ UNCHANGED connection
      /\ state_ = 1 /\ state_' = 2 /\ file_' = NoFile /\ UNCHANGED <<is_valid_, files, file_count>>
  BY DEF NewEntry, Enters, In
<1>2. ASSUME req.form = "multipart" PROVE GoesOn
  <2>1. /\ Rest' = Rest /\ req' = req /\ cut' = cut /\ Ending' = Ending /\ Rest \in Seq(Nat)
        /\ buf \in Seq(Nat) /\ req.items \in Seq(ItemType) /\ Ending \in Seq(Nat)
    BY <1>1, <1>2, Parsing DEF Rest
  <2>3. ASSUME NEW k \in 0..Len(req.items), Place(k) PROVE Place(k)'
    <3>1. ASSUME NEW j \in k + 1..Len(req.items), InItem(k, j) PROVE InItem(k, j)'
      <4>1. StartsAt(req.items, Ending, k, j, Rest, files) /\ ~is_valid_
        BY <1>1, <3>1 DEF InItem
      <4>2. j \in 1..Len(req.items)
        BY <2>1, LenProperties
      <4>3. HeadsAt(req.items, Ending, k, j, Rest, files, NoFile)
        BY <2>1, <4>1, <4>2, StartsNext
      <4> QED BY <1>1, <2>1, <4>1, <4>3 DEF InItem
    <3>2. Over(k) => Over(k)'
      BY <1>1, <2>1, OverNew DEF Over
    <3>3. ~Waits
      BY <1>1 DEF Waits
    <3> QED BY <2>1, <2>3, <3>1, <3>2, <3>3 DEF Place
  <2> QED BY <1>1, <2>1, <2>3 DEF GoesOn, Texts, ReadingInv
<1> QED BY <1>1, <1>2, ParseFrame DEF Next, Parse

LEMMA NotOver ==
  ASSUME req \in Requests, FormInv, stage = "parsing", req.form = "multipart", buf # <<>>,
         NEW k, Over(k), state_ = 2
  PROVE  req.after # <<>>
<1> SUFFICES ASSUME req.after = <<>> PROVE FALSE
  OBVIOUS
<1>1. /\ Coming \in Seq(Nat) /\ Rest \in Seq(Nat) /\ buf \in Seq(Nat) /\ Cut(Rest, buf, Coming)
      /\ Ending = finish \o After /\ After = <<>>
  <2>1. ClientInv /\ buf \in Texts
    BY DEF FormInv, Arriving
  <2> QED BY <2>1, Arrived
<1>2. Rest = <<>>
  <2> DEFINE st == 2
  <2>1. st \in {1, 2} /\ OverAt(Ending, st, Rest)
    BY DEF Over
  <2> HIDE DEF st
  <2> QED BY ONLY <1>1, <2>1, NothingOver
<1>3. Len(buf) # 0 /\ Len(Rest) = 0
  BY <1>1, <1>2, EmptySeq
<1>4. Len(Rest) = Len(buf) + Len(Coming) /\ Len(buf) \in Nat /\ Len(Coming) \in Nat
  BY <1>1, CutPieces
<1> DEFINE l == Len(buf)
           m == Len(Coming)
<1>5. 0 = l + m /\ l \in Nat /\ m \in Nat /\ l # 0
  BY <1>3, <1>4
<1> HIDE DEF l, m
<1> QED BY <1>5

LEMMA HeaderTooLongStep ==
  ASSUME req \in Requests, FormInv, HeaderTooLong
  PROVE  FormInv'
<1>1. /\ stage = "parsing" /\ buf' = buf /\ buf # <<>> /\ stage' = "refused" /\ UNCHANGED connection
      /\ state_ = 2 /\ UNCHANGED <<state_, is_valid_, file_, files, file_count>>
  BY DEF HeaderTooLong, In
<1>2. ASSUME buf \in Seq(Nat) PROVE FirstSpot(buf, crlf_) > MaxHeader
  <2> DEFINE f == FirstSpot(buf, crlf_)
  <2>1. ~(f <= MaxHeader)
    BY DEF FirstSpot, buf_find, found, Spots, HeaderTooLong, Bounded
  <2>2. f \in Nat /\ MaxHeader \in Nat
    <3>1. crlf_ \in Seq(Nat)
      BY Constants DEF Texts
    <3> QED BY <1>2, <3>1, FirstSpotType, FormsAssumption
  <2> HIDE DEF f
  <2> QED BY <2>1, <2>2 DEF f
<1>3. ASSUME req.form = "multipart" PROVE GoesOn
  <2> DEFINE items == req.items
             n == Len(items)
  <2>1. /\ Coming \in Seq(Nat) /\ Rest \in Seq(Nat) /\ buf \in Seq(Nat) /\ Cut(Rest, buf, Coming)
        /\ items \in Seq(ItemType) /\ n \in Nat /\ DOMAIN items = 1..n /\ Ending \in Seq(Nat)
    BY <1>1, <1>3, Parsing
  <2> HIDE DEF items, n
  <2>2. ASSUME Straight, NEW k \in 0..n, Place(k), Fits PROVE FALSE
    <3>1. ~Over(k)
      BY <1>1, <1>3, NotOver, <2>2 DEF Fits
    <3>2. PICK j \in k + 1..n : InItem(k, j)
      BY <1>1, <2>2, <3>1 DEF Place, Waits, items, n
    <3>3. j \in 1..Len(items) /\ HeadsAt(items, Ending, k, j, Rest, files, file_)
      BY <1>1, <2>1, <2>2, <3>2 DEF InItem, items, n
    <3>4. PlainItem(items[j])
      BY <2>2, <3>3, StraightFacts DEF items
    <3>5. LongHeader(items[j])
      BY <1>2, <2>1, <3>3, <3>4, HeadsLong
    <3>6. j \in DOMAIN items
      BY <2>1, <3>3 DEF n
    <3> QED BY <2>2, <3>5, <3>6 DEF Fits, items
  <2> QED BY <1>1, <2>1, <2>2 DEF GoesOn, Texts, ReadingInv, items, n
<1> QED BY <1>1, <1>3, ParseFrame DEF Next, Parse

LEMMA HeaderWaitsStep ==
  ASSUME req \in Requests, FormInv, HeaderWaits
  PROVE  FormInv'
<1>1. /\ stage = "parsing" /\ buf' = buf /\ stage' = "reading" /\ UNCHANGED connection
      /\ state_ = 2 /\ Spots(buf, crlf_) = {} /\ UNCHANGED <<state_, is_valid_, file_, files, file_count>>
  BY DEF HeaderWaits, Returns, In, found, Spots
<1>2. ASSUME req.form = "multipart" PROVE GoesOn
  <2>1. /\ Rest' = Rest /\ req' = req /\ cut' = cut /\ Ending' = Ending /\ buf \in Seq(Nat)
    BY <1>1, <1>2, Parsing DEF Rest
  <2>3. ASSUME NEW k \in 0..Len(req.items), Place(k) PROVE Place(k)'
    <3>1. \A j : InItem(k, j) => InItem(k, j)'
      BY <1>1, <2>1 DEF InItem
    <3>2. Over(k) => Over(k)'
      BY <1>1, <2>1 DEF Over
    <3>3. ~Waits
      BY <1>1 DEF Waits
    <3> QED BY <2>1, <2>3, <3>1, <3>2, <3>3 DEF Place
  <2> QED BY <1>1, <2>1, <2>3 DEF GoesOn, Texts, ReadingInv
<1> QED BY <1>1, <1>2, ParseFrame DEF Next, Parse

LEMMA HeadersEndStep ==
  ASSUME req \in Requests, FormInv, HeadersEnd
  PROVE  FormInv'
<1> DEFINE after == SubSeq(buf, Len(crlf_) + 1, Len(buf))
<1>1. /\ stage = "parsing" /\ UNCHANGED connection /\ state_ = 2 /\ IsPrefix(crlf_, buf)
      /\ file_' = file_
      /\ \/ file_count = MaxFiles /\ stage' = "refused" /\ buf' = buf
         \/ /\ file_count # MaxFiles /\ stage' = stage /\ files' = Append(files, file_) /\ buf' = after
            /\ state_' = 3 /\ is_valid_' = is_valid_
  BY DEF HeadersEnd, Enters, In, buf_erase, buf_start_with
<1> HIDE DEF after
<1>2. ASSUME req.form = "multipart" PROVE GoesOn
  <2> DEFINE items == req.items
             n == Len(items)
  <2>1. /\ Coming \in Seq(Nat) /\ Rest \in Seq(Nat) /\ buf \in Seq(Nat) /\ Cut(Rest, buf, Coming)
        /\ items \in Seq(ItemType) /\ n \in Nat /\ After \in Texts /\ Ending = finish \o After /\ Ending \in Seq(Nat)
        /\ req' = req /\ cut' = cut /\ Ending' = Ending /\ \A r : Cut(r, buf', Coming) => Rest' = r
    BY <1>1, <1>2, Parsing
  <2>2. crlf_ \in Seq(Nat) /\ Len(crlf_) \in Nat
    BY Constants, LenProperties DEF Texts
  <2>3. PICK r \in Seq(Nat) : Cut(Rest, crlf_, r) /\ Cut(r, after, Coming)
    <3>1. IsPrefix(crlf_, buf)
      BY <1>1
    <3> QED BY <2>1, <2>2, <3>1, BufferStart DEF after
  <2>4. Len(crlf_) \in 0..Len(buf)
    <3>1. IsPrefix(crlf_, buf)
      BY <1>1
    <3> QED BY <2>1, <2>2, <3>1, BufferStart
  <2>5. buf' \in Seq(Nat)
    <3>1. after \in Seq(Nat)
      BY <2>1, <2>4, CutInTwo DEF after
    <3> QED BY <1>1, <2>1, <3>1
  <2> HIDE DEF items, n
  <2>6. ASSUME Straight, NEW k \in 0..n, Place(k)
        PROVE  /\ stage' # "refused" => Place(k)'
               /\ ~(stage' = "refused" /\ k = 0 /\ Fits)
    <3>1. /\ \A j \in 1..n : PlainItem(items[j])
          /\ ~Holds(crlf_ \o After, crlf_ \o crlf_)
      BY <2>6, StraightFacts DEF items, n
    <3>2. ~Over(k)
      <4> SUFFICES ASSUME Over(k) PROVE FALSE
        OBVIOUS
      <4>1. OverAt(Ending, 2, Rest)
        BY <1>1 DEF Over
      <4> QED BY <2>1, <2>3, <3>1, <4>1, NoHeadersOver
    <3>3. PICK j \in k + 1..n : InItem(k, j)
      BY <1>1, <2>6, <3>2 DEF Place, Waits, items, n
    <3>4. j \in 1..n /\ HeadsAt(items, Ending, k, j, Rest, files, file_) /\ ~is_valid_
      BY <1>1, <2>1, <3>3 DEF InItem, items
    <3>5. CASE stage' = "refused"
      <4> SUFFICES ASSUME k = 0, n <= MaxFiles PROVE FALSE
        BY <2>1, <3>5 DEF n, items, Fits
      <4>1. MaxFiles = Len(files) /\ files = Whole(items, k, j - 1)
        BY <1>1, <3>4, <3>5 DEF FormInv, CountInv, HeadsAt
      <4>2. Len(Whole(items, k, j - 1)) = j - 1 - k
        <5>1. k \in Nat /\ j \in k + 1..Len(items)
          BY <2>1, <3>3 DEF n
        <5> QED BY <2>1, <5>1, WholeNext
      <4>3. MaxFiles = j - 1
        BY <2>1, <3>4, <4>1, <4>2
      <4> QED BY <2>1, <3>4, <4>3
    <3>6. CASE stage' # "refused"
      <4>1. /\ files' = Append(files, file_) /\ buf' = after /\ state_' = 3 /\ is_valid_' = is_valid_
        BY <1>1, <3>6
      <4>2. PlainItem(items[j]) /\ j \in 1..Len(items)
        BY <3>1, <3>4 DEF n
      <4>3. FillsAt(items, Ending, k, j, r, Append(files, file_))
        BY <2>1, <2>3, <3>4, <4>2, HeadsLast
      <4>4. Rest' = r
        BY <2>1, <2>3, <4>1
      <4>5. InItem(k, j)'
        BY <2>1, <3>4, <4>1, <4>3, <4>4 DEF InItem, items
      <4>6. j \in k + 1..Len(req'.items)
        BY <2>1, <3>3 DEF items, n
      <4>7. cut' \/ k = 0
        BY <2>1, <2>6 DEF Place
      <4> QED BY <3>6, <4>5, <4>6, <4>7 DEF Place
    <3> QED BY <3>5, <3>6
  <2>7. ReadingInv'
    BY <1>1 DEF ReadingInv
  <2> QED BY <2>5, <2>6, <2>7 DEF GoesOn, Texts, items, n
<1>3. stage' \in {"parsing", "reading", "refused"}
  BY <1>1
<1> QED BY <1>1, <1>2, <1>3, ParseFrame DEF Next, Parse

LEMMA HeaderLineStep ==
  ASSUME req \in Requests, FormInv, HeaderLine
  PROVE  FormInv'
<1> DEFINE p == Min(Spots(buf, crlf_))
           row == SubSeq(buf, 1, p)
           after == SubSeq(buf, Len(row) + Len(crlf_) + 1, Len(buf))
<1>1. Spots(buf, crlf_) # {} /\ Header = row
  BY DEF HeaderLine, Header, buf_head, buf_find, found, Spots
<1>2. Acceptable <=> Takes(row)
  <2>1. Acceptable <=> Takes(Header)
    BY DEF Acceptable, Takes, Disposition
  <2> QED BY <1>1, <2>1
<1>3. Acceptable => file_' = ReadAs(file_, row)
  <2>1. Acceptable => file_' = ReadAs(file_, Header)
    BY DEF HeaderLine, ReadAs, Disposed, DisposedBy, Disposition
  <2> QED BY <1>1, <2>1
<1>4. /\ stage = "parsing" /\ UNCHANGED connection /\ state_ = 2 /\ ~IsPrefix(crlf_, buf) /\ buf # <<>>
      /\ files' = files /\ state_' = state_
      /\ \/ ~Acceptable /\ stage' = "refused" /\ buf' = buf
         \/ Acceptable /\ stage' = stage /\ buf' = after /\ is_valid_' = is_valid_
  BY <1>1 DEF HeaderLine, Rejects, In, buf_erase, buf_start_with
<1> HIDE DEF after
<1>5. ASSUME req.form = "multipart" PROVE GoesOn
  <2> DEFINE items == req.items
             n == Len(items)
  <2>1. /\ Coming \in Seq(Nat) /\ Rest \in Seq(Nat) /\ buf \in Seq(Nat) /\ Cut(Rest, buf, Coming)
        /\ items \in Seq(ItemType) /\ n \in Nat /\ Ending = finish \o After /\ Ending \in Seq(Nat)
        /\ (req.after = <<>> => After = <<>>)
        /\ req' = req /\ cut' = cut /\ Ending' = Ending /\ \A r : Cut(r, buf', Coming) => Rest' = r
    BY <1>4, <1>5, Parsing
  <2>2. crlf_ \in Seq(Nat) /\ Len(crlf_) \in Nat
    BY Constants, LenProperties DEF Texts
  <2>3. FoundHere(Rest, buf, Coming, crlf_, p)
    BY <1>1, <2>1, <2>2, BufferFound
  <2> HIDE DEF p
  <2>4. PICK a \in Seq(Nat), ap \in Seq(Nat), r \in Seq(Nat) :
          /\ Cut(ap, a, crlf_) /\ Cut(Rest, ap, r) /\ row = a /\ Len(a) = p
          /\ Cut(r, SubSeq(buf, p + Len(crlf_) + 1, Len(buf)), Coming)
          /\ p + Len(crlf_) \in 0..Len(buf)
    BY <2>3 DEF FoundHere
  <2> HIDE DEF row
  <2>5. Cut(r, after, Coming) /\ Len(row) + Len(crlf_) \in 0..Len(buf)
    BY <2>4 DEF after
  <2>6. buf' \in Seq(Nat)
    <3>1. after \in Seq(Nat)
      BY <2>1, <2>5, CutInTwo DEF after
    <3> QED BY <1>4, <2>1, <3>1
  <2> HIDE DEF items, n
  <2>7. ASSUME Straight, NEW k \in 0..n, Place(k)
        PROVE  /\ stage' # "refused" => Place(k)'
               /\ ~(stage' = "refused" /\ k = 0 /\ Fits)
    <3>1. \A j \in 1..n : PlainItem(items[j])
      BY <2>7, StraightFacts DEF items, n
    <3>2. CASE Over(k)
      <4>1. OverAt(Ending, 2, Rest)
        BY <1>4, <3>2 DEF Over
      <4>2. req.after # <<>>
        BY <1>4, <1>5, <3>2, NotOver
      <4>3. ASSUME stage' # "refused" PROVE Over(k)'
        <5>1. buf' = after /\ is_valid_' = is_valid_ /\ state_' = 2
          BY <1>4, <4>3
        <5>2. Rest' = r
          BY <2>1, <2>5, <5>1
        <5>3. row \in Seq(Nat) /\ Cut(ap, row, crlf_)
          BY <2>4
        <5>4. OverAt(Ending, 2, r)
          BY <2>1, <2>4, <4>1, <5>3, OverLine
        <5> QED BY <1>4, <2>1, <3>2, <5>1, <5>2, <5>4 DEF Over
      <4> QED BY <2>1, <2>7, <4>2, <4>3 DEF Place, Fits
    <3>3. ASSUME NEW j \in k + 1..n, InItem(k, j) PROVE stage' # "refused" /\ Place(k)'
      <4>1. j \in 1..Len(items) /\ HeadsAt(items, Ending, k, j, Rest, files, file_) /\ ~is_valid_
        BY <1>4, <2>1, <3>3 DEF InItem, items, n
      <4>2. PlainItem(items[j])
        BY <3>1, <4>1 DEF n
      <4>3. Spots(buf, crlf_) # {} /\ ~IsPrefix(crlf_, buf) /\ row = SubSeq(buf, 1, Min(Spots(buf, crlf_)))
        BY <1>1, <1>4 DEF row, p
      <4>4. /\ Takes(row)
            /\ \E q \in Seq(Nat) : /\ Cut(q, SubSeq(buf, Len(row) + Len(crlf_) + 1, Len(buf)), Coming)
                                   /\ HeadsAt(items, Ending, k, j, q, files, ReadAs(file_, row))
        BY <2>1, <4>1, <4>2, <4>3, HeadsNext
      <4>5. stage' # "refused" /\ buf' = after /\ is_valid_' = is_valid_ /\ file_' = ReadAs(file_, row)
        BY <1>2, <1>3, <1>4, <4>4
      <4>6. PICK q \in Seq(Nat) : Cut(q, after, Coming) /\ HeadsAt(items, Ending, k, j, q, files, ReadAs(file_, row))
        BY <4>4 DEF after
      <4>7. Rest' = q
        BY <2>1, <4>5, <4>6
      <4>8. InItem(k, j)'
        BY <1>4, <2>1, <4>1, <4>5, <4>6, <4>7 DEF InItem, items
      <4>9. j \in k + 1..Len(req'.items) /\ (cut' \/ k = 0)
        BY <2>1, <2>7, <3>3 DEF items, n, Place
      <4> QED BY <4>5, <4>8, <4>9 DEF Place
    <3>4. ~Waits
      BY <1>4 DEF Waits
    <3> QED BY <2>7, <3>2, <3>3, <3>4 DEF Place, items, n
  <2>8. ReadingInv'
    BY <1>4 DEF ReadingInv
  <2> QED BY <2>6, <2>7, <2>8 DEF GoesOn, Texts, items, n
<1>6. stage' \in {"parsing", "reading", "refused"}
  BY <1>4
<1> QED BY <1>4, <1>5, <1>6, ParseFrame DEF Next, Parse

LEMMA ContentStep ==
  ASSUME req \in Requests, FormInv, Content
  PROVE  FormInv'
<1> DEFINE p == Min(Spots(buf, Mark))
           after == SubSeq(buf, p + Len(Mark) + 1, Len(buf))
           gs == [files EXCEPT ![Len(files)].content = @ \o SubSeq(buf, 1, p)]
<1>1. /\ stage = "parsing" /\ UNCHANGED connection /\ state_ = 3 /\ Spots(buf, Mark) # {}
      /\ files' = gs /\ stage' = stage /\ buf' = after /\ state_' = 4 /\ is_valid_' = is_valid_
  BY DEF Content, Collected, Enters, In, buf_erase, buf_head, buf_find, found, Spots, Mark
<1> HIDE DEF after, gs
<1>2. ASSUME req.form = "multipart" PROVE GoesOn
  <2> DEFINE items == req.items
             n == Len(items)
  <2>1. /\ Coming \in Seq(Nat) /\ Rest \in Seq(Nat) /\ buf \in Seq(Nat) /\ Cut(Rest, buf, Coming)
        /\ items \in Seq(ItemType) /\ n \in Nat /\ After \in Texts /\ Ending = finish \o After /\ Ending \in Seq(Nat)
        /\ req' = req /\ cut' = cut /\ Ending' = Ending /\ \A r : Cut(r, buf', Coming) => Rest' = r
    BY <1>1, <1>2, Parsing
  <2>2. buf' \in Seq(Nat)
    <3>1. Mark \in Seq(Nat)
      BY MarkChars
    <3>2. FoundHere(Rest, buf, Coming, Mark, p)
      BY <1>1, <2>1, <3>1, BufferFound
    <3> HIDE DEF p
    <3>3. p + Len(Mark) \in 0..Len(buf)
      BY <3>2 DEF FoundHere
    <3> DEFINE m == p + Len(Mark)
    <3> HIDE DEF m
    <3>4. SubSeq(buf, m + 1, Len(buf)) \in Seq(Nat)
      <4>1. m \in 0..Len(buf)
        BY <3>3 DEF m
      <4> QED BY <2>1, <4>1, CutInTwo
    <3> QED BY <1>1, <3>4 DEF after, m
  <2> HIDE DEF items, n
  <2>3. ASSUME Straight, NEW k \in 0..n, Place(k) PROVE Place(k)'
    <3>1. \A j \in 1..n : PlainItem(items[j])
      BY <2>3, StraightFacts DEF items, n
    <3>2. ~Over(k) /\ ~Waits
      BY <1>1 DEF Over, OverAt, Waits
    <3>3. PICK j \in k + 1..n : InItem(k, j)
      BY <2>3, <3>2 DEF Place, items, n
    <3>4. j \in 1..n /\ FillsAt(items, Ending, k, j, Rest, files) /\ ~is_valid_
      BY <1>1, <2>1, <3>3 DEF InItem, items
    <3>5. PlainItem(items[j]) /\ k \in Nat /\ j \in k + 1..Len(items)
      BY <3>1, <3>3, <3>4, <2>1 DEF n
    <3>6. Spots(buf, Mark) # {} /\ p = Min(Spots(buf, Mark))
      BY <1>1
    <3> HIDE DEF p
    <3>7. gs = [files EXCEPT ![Len(files)].content = @ \o SubSeq(buf, 1, p)]
      BY DEF gs
    <3>8. \E r \in Seq(Nat) : /\ Cut(r, SubSeq(buf, p + Len(Mark) + 1, Len(buf)), Coming)
                              /\ ClosesAt(items, Ending, k, j, r, gs)
      BY <2>1, <3>4, <3>5, <3>6, <3>7, FillsWhole
    <3>9. PICK r \in Seq(Nat) : Cut(r, after, Coming) /\ ClosesAt(items, Ending, k, j, r, gs)
      BY <3>8 DEF after
    <3>10. Rest' = r
      BY <1>1, <2>1, <3>9
    <3>11. InItem(k, j)'
      BY <1>1, <2>1, <3>4, <3>9, <3>10 DEF InItem, items
    <3>12. j \in k + 1..Len(req'.items) /\ (cut' \/ k = 0)
      BY <2>1, <2>3, <3>3 DEF items, n, Place
    <3> QED BY <3>11, <3>12 DEF Place
  <2>4. ReadingInv' /\ stage' # "refused"
    BY <1>1 DEF ReadingInv
  <2> QED BY <2>2, <2>3, <2>4 DEF GoesOn, Texts, items, n
<1>3. stage' \in {"parsing", "reading", "refused"}
  BY <1>1
<1> QED BY <1>1, <1>2, <1>3, ParseFrame DEF Next, Parse

LEMMA ContentGoesOnStep ==
  ASSUME req \in Requests, FormInv, ContentGoesOn
  PROVE  FormInv'
<1> DEFINE m == Len(buf) - Len(Mark)
           after == SubSeq(buf, m + 1, Len(buf))
           gs == [files EXCEPT ![Len(files)].content = @ \o SubSeq(buf, 1, m)]
<1>1. /\ stage = "parsing" /\ UNCHANGED connection /\ state_ = 3 /\ Spots(buf, Mark) = {}
      /\ stage' = "reading" /\ state_' = 3 /\ is_valid_' = is_valid_
      /\ IF m > 0 THEN files' = gs /\ buf' = after ELSE files' = files /\ buf' = buf
  BY DEF ContentGoesOn, Collected, In, buf_erase, buf_head, found, Spots, Mark
<1> HIDE DEF after, gs
<1>2. ASSUME req.form = "multipart" PROVE GoesOn
  <2> DEFINE items == req.items
             n == Len(items)
  <2>1. /\ Coming \in Seq(Nat) /\ Rest \in Seq(Nat) /\ buf \in Seq(Nat) /\ Cut(Rest, buf, Coming)
        /\ items \in Seq(ItemType) /\ n \in Nat /\ After \in Texts /\ Ending = finish \o After /\ Ending \in Seq(Nat)
        /\ req' = req /\ cut' = cut /\ Ending' = Ending /\ \A r : Cut(r, buf', Coming) => Rest' = r
    BY <1>1, <1>2, Parsing
  <2>2. Mark \in Seq(Nat) /\ Len(Mark) \in Nat /\ Len(buf) \in Nat
    BY <2>1, MarkChars, LenProperties
  <2>3. m > 0 => m \in 0..Len(buf)
    BY <2>2
  <2> HIDE DEF m
  <2>4. buf' \in Seq(Nat) /\ Spots(buf', Mark) = {}
    <3>1. CASE m > 0
      <4>1. after \in Seq(Nat)
        BY <2>1, <2>3, <3>1, CutInTwo DEF after
      <4>2. Spots(after, Mark) = {}
        BY <1>1, <2>1, <2>2, <2>3, <3>1, SpotsLater DEF after
      <4> QED BY <1>1, <3>1, <4>1, <4>2
    <3>2. CASE ~(m > 0)
      BY <1>1, <2>1, <3>2
    <3> QED BY <3>1, <3>2
  <2> HIDE DEF items, n
  <2>5. ASSUME Straight, NEW k \in 0..n, Place(k) PROVE Place(k)'
    <3>1. \A j \in 1..n : PlainItem(items[j])
      BY <2>5, StraightFacts DEF items, n
    <3>2. ~Over(k) /\ ~Waits
      BY <1>1 DEF Over, OverAt, Waits
    <3>3. PICK j \in k + 1..n : InItem(k, j)
      BY <2>5, <3>2 DEF Place, items, n
    <3>4. j \in 1..n /\ FillsAt(items, Ending, k, j, Rest, files) /\ ~is_valid_
      BY <1>1, <2>1, <3>3 DEF InItem, items
    <3>5. PlainItem(items[j]) /\ k \in Nat /\ j \in k + 1..Len(items)
      BY <3>1, <3>3, <3>4, <2>1 DEF n
    <3>6. FillsAt(items, Ending, k, j, Rest', files')
      <4>1. CASE m > 0
        <5>1. m \in 0..Len(buf) /\ m = Len(buf) - Len(Mark) /\ Spots(buf, Mark) = {}
          BY <1>1, <2>3, <4>1 DEF m
        <5>2. gs = [files EXCEPT ![Len(files)].content = @ \o SubSeq(buf, 1, m)]
          BY DEF gs
        <5>3. \E r \in Seq(Nat) : /\ Cut(r, SubSeq(buf, m + 1, Len(buf)), Coming)
                                  /\ FillsAt(items, Ending, k, j, r, gs)
          <6>1. /\ items \in Seq(ItemType) /\ After \in Texts /\ Ending = finish \o After /\ k \in Nat
                /\ j \in k + 1..Len(items) /\ PlainItem(items[j]) /\ buf \in Seq(Nat) /\ Coming \in Seq(Nat)
                /\ Rest \in Seq(Nat) /\ Cut(Rest, buf, Coming) /\ FillsAt(items, Ending, k, j, Rest, files)
                /\ Spots(buf, Mark) = {} /\ m \in 0..Len(buf) /\ HeldBack(buf, m)
            BY <2>1, <3>4, <3>5, <5>1 DEF HeldBack
          <6>2. Grown(files, gs, SubSeq(buf, 1, m))
            BY <5>2 DEF Grown
          <6> QED BY ONLY <6>1, <6>2, FillsMore
        <5>4. PICK r \in Seq(Nat) : Cut(r, after, Coming) /\ FillsAt(items, Ending, k, j, r, gs)
          BY <5>3 DEF after
        <5>5. Rest' = r
          BY <1>1, <2>1, <4>1, <5>4
        <5> QED BY <1>1, <4>1, <5>4, <5>5
      <4>2. CASE ~(m > 0)
        BY <1>1, <2>1, <3>4, <4>2
      <4> QED BY <4>1, <4>2
    <3>7. InItem(k, j)'
      BY <1>1, <2>1, <3>4, <3>6 DEF InItem, items
    <3>8. j \in k + 1..Len(req'.items) /\ (cut' \/ k = 0)
      BY <2>1, <2>5, <3>3 DEF items, n, Place
    <3> QED BY <3>7, <3>8 DEF Place
  <2>6. ReadingInv' /\ stage' # "refused"
    BY <1>1, <2>4 DEF ReadingInv
  <2> QED BY <2>4, <2>5, <2>6 DEF GoesOn, Texts, items, n
<1>3. stage' \in {"parsing", "reading", "refused"}
  BY <1>1
<1> QED BY <1>1, <1>2, <1>3, ParseFrame DEF Next, Parse

LEMMA BoundaryEndStep ==
  ASSUME req \in Requests, FormInv, BoundaryEnd
  PROVE  FormInv'
<1> DEFINE after == SubSeq(buf, Len(crlf_) + 1, Len(buf))
<1>1. /\ stage = "parsing" /\ UNCHANGED connection /\ state_ = 4 /\ files' = files
      /\ \/ IsPrefix(crlf_, buf) /\ buf' = after /\ state_' = 1 /\ stage' = stage /\ is_valid_' = is_valid_
         \/ IsPrefix(dash_, buf) /\ is_valid_' = TRUE /\ buf' = <<>> /\ stage' = stage /\ state_' = 4
         \/ /\ ~IsPrefix(crlf_, buf) /\ ~IsPrefix(dash_, buf) /\ stage' = "reading" /\ buf' = buf
            /\ state_' = 4 /\ is_valid_' = is_valid_
  BY DEF BoundaryEnd, Enters, In, Returns, buf_erase, buf_start_with
<1> HIDE DEF after
<1>2. ASSUME req.form = "multipart" PROVE GoesOn
  <2> DEFINE items == req.items
             n == Len(items)
             e == <<>>
  <2>1. /\ Coming \in Seq(Nat) /\ Rest \in Seq(Nat) /\ buf \in Seq(Nat) /\ Cut(Rest, buf, Coming)
        /\ items \in Seq(ItemType) /\ n \in Nat /\ After \in Texts /\ Ending = finish \o After /\ Ending \in Seq(Nat)
        /\ req' = req /\ cut' = cut /\ Ending' = Ending /\ \A r : Cut(r, buf', Coming) => Rest' = r
    BY <1>1, <1>2, Parsing
  <2>2. crlf_ \in Seq(Nat) /\ Len(crlf_) \in Nat /\ dash_ \in Seq(Nat)
    BY Constants, LenProperties DEF Texts
  <2>3. e \in Seq(Nat) /\ Cut(Coming, e, Coming)
    BY <2>1, EmptySeq, ConcatEmptySeq DEF Cut
  <2>4. IsPrefix(crlf_, buf) => Len(crlf_) \in 0..Len(buf)
    BY <2>1, <2>2, BufferStart
  <2>5. buf' \in Seq(Nat)
    <3>1. IsPrefix(crlf_, buf) => after \in Seq(Nat)
      BY <2>1, <2>4, CutInTwo DEF after
    <3> QED BY <1>1, <2>1, <2>3, <3>1
  <2> HIDE DEF items, n, e
  <2>6. ASSUME Straight, NEW k \in 0..n, Place(k) PROVE Place(k)'
    <3>1. ~Waits /\ (cut' \/ k = 0) /\ k \in Nat
      BY <1>1, <2>1, <2>6 DEF Waits, Place
    <3>2. CASE IsPrefix(crlf_, buf) /\ buf' = after /\ state_' = 1 /\ stage' = stage /\ is_valid_' = is_valid_
      <4>1. PICK r \in Seq(Nat) : Cut(Rest, crlf_, r) /\ Cut(r, after, Coming)
        BY <2>1, <2>2, <3>2, BufferStart DEF after
      <4>2. Rest' = r
        BY <2>1, <3>2, <4>1
      <4>3. ASSUME NEW j \in k + 1..n, InItem(k, j) PROVE Place(k)'
        <5>1. j \in 1..Len(items) /\ ClosesAt(items, Ending, k, j, Rest, files) /\ ~is_valid_
          BY <1>1, <2>1, <3>1, <4>3 DEF InItem, items, n
        <5>2. j # Len(items) /\ StartsAt(items, Ending, k, j + 1, r, files)
          BY <2>1, <4>1, <5>1, ClosesNext
        <5> DEFINE i == j + 1
        <5>3. i \in k + 1..n
          BY <2>1, <3>1, <5>1, <5>2, <4>3 DEF n
        <5>4. StartsAt(items, Ending, k, i, r, files)
          BY <5>2
        <5> HIDE DEF i
        <5>5. InItem(k, i)'
          BY <1>1, <2>1, <3>2, <4>2, <5>1, <5>4 DEF InItem, items
        <5> QED BY <2>1, <3>1, <5>3, <5>5 DEF Place, items, n
      <4>4. ASSUME Over(k) PROVE Place(k)'
        <5>1. OverAt(Ending, 4, Rest) /\ is_valid_
          BY <1>1, <4>4 DEF Over
        <5>2. OverAt(Ending, 1, r)
          BY <2>1, <4>1, <5>1, OverBoundary
        <5>3. Over(k)'
          BY <1>1, <2>1, <3>2, <4>2, <4>4, <5>1, <5>2 DEF Over
        <5> QED BY <3>1, <5>3 DEF Place
      <4> QED BY <2>6, <3>1, <4>3, <4>4 DEF Place, items, n
    <3>3. CASE IsPrefix(dash_, buf) /\ is_valid_' = TRUE /\ buf' = <<>> /\ stage' = stage /\ state_' = 4
      <4>1. Rest' = Coming
        BY <2>1, <2>3, <3>3 DEF e
      <4>2. ASSUME NEW j \in k + 1..n, InItem(k, j) PROVE Over(k)'
        <5>1. j \in 1..Len(items) /\ ClosesAt(items, Ending, k, j, Rest, files)
          BY <1>1, <2>1, <3>1, <4>2 DEF InItem, items, n
        <5>2. PICK r \in Seq(Nat) : Cut(Rest, dash_, r)
          BY <2>1, <2>2, <3>3, BufferStart
        <5>3. j = Len(items)
          BY <2>1, <5>1, <5>2, ClosesNext, ZenonT(30)
        <5>4. OverAt(Ending, 4, Coming)
          BY <2>1, <5>1, <5>3, ClosesOver
        <5>5. files = Whole(items, k, Len(items))
          BY <5>1, <5>3 DEF ClosesAt
        <5> QED BY <1>1, <2>1, <3>3, <4>1, <5>4, <5>5 DEF Over, items
      <4>3. ASSUME Over(k) PROVE Over(k)'
        <5>1. OverAt(Ending, 4, Rest) /\ is_valid_
          BY <1>1, <4>3 DEF Over
        <5>2. OverAt(Ending, 4, Coming)
          BY <2>1, <5>1, OverBoundary
        <5> QED BY <1>1, <2>1, <3>3, <4>1, <4>3, <5>1, <5>2 DEF Over
      <4> QED BY <2>6, <3>1, <4>2, <4>3 DEF Place, items, n
    <3>4. CASE /\ ~IsPrefix(crlf_, buf) /\ ~IsPrefix(dash_, buf) /\ stage' = "reading" /\ buf' = buf
               /\ state_' = 4 /\ is_valid_' = is_valid_
      <4>1. Rest' = Rest
        BY <2>1, <3>4
      <4>2. \A j : InItem(k, j) => InItem(k, j)'
        BY <1>1, <2>1, <3>4, <4>1 DEF InItem
      <4>3. Over(k) => Over(k)'
        BY <1>1, <2>1, <3>4, <4>1 DEF Over
      <4> QED BY <2>1, <2>6, <3>1, <4>2, <4>3 DEF Place
    <3> QED BY <1>1, <3>2, <3>3, <3>4
  <2>7. ReadingInv' /\ stage' # "refused"
    BY <1>1 DEF ReadingInv
  <2> QED BY <2>5, <2>6, <2>7 DEF GoesOn, Texts, items, n
<1>3. stage' \in {"parsing", "reading", "refused"}
  BY <1>1
<1> QED BY <1>1, <1>2, <1>3, ParseFrame DEF Next, Parse

LEMMA SkipPreambleStep ==
  ASSUME req \in Requests, FormInv, SkipPreamble
  PROVE  FormInv'
<1> DEFINE p == Min(Spots(buf, Start))
           after == SubSeq(buf, p + Len(Start) + 1, Len(buf))
<1>1. /\ stage = "parsing" /\ UNCHANGED connection /\ state_ = 0 /\ files' = files /\ is_valid_' = is_valid_
      /\ \/ Spots(buf, Start) = {} /\ buf' = <<>> /\ stage' = "reading" /\ state_' = 0
         \/ Spots(buf, Start) # {} /\ buf' = after /\ stage' = stage /\ state_' = 1
  BY DEF SkipPreamble, Enters, In, Returns, buf_erase, buf_find, found, Spots, Start
<1> HIDE DEF after
<1>2. ASSUME req.form = "multipart" PROVE GoesOn
  <2> DEFINE items == req.items
             n == Len(items)
             e == <<>>
  <2>1. /\ Coming \in Seq(Nat) /\ Rest \in Seq(Nat) /\ buf \in Seq(Nat) /\ Cut(Rest, buf, Coming)
        /\ items \in Seq(ItemType) /\ n \in Nat /\ After \in Texts /\ Ending = finish \o After /\ Ending \in Seq(Nat)
        /\ req' = req /\ cut' = cut /\ Ending' = Ending /\ \A r : Cut(r, buf', Coming) => Rest' = r
    BY <1>1, <1>2, Parsing
  <2>2. Start \in Seq(Nat) /\ Len(Start) \in Nat
    BY StartLength
  <2>3. e \in Seq(Nat) /\ Cut(Coming, e, Coming)
    BY <2>1, EmptySeq, ConcatEmptySeq DEF Cut
  <2>4. Spots(buf, Start) # {} => after \in Seq(Nat)
    <3> SUFFICES ASSUME Spots(buf, Start) # {} PROVE after \in Seq(Nat)
      OBVIOUS
    <3>1. FoundHere(Rest, buf, Coming, Start, p)
      BY <2>1, <2>2, BufferFound
    <3> HIDE DEF p
    <3> DEFINE m == p + Len(Start)
    <3>2. m \in 0..Len(buf)
      BY <3>1 DEF FoundHere
    <3> HIDE DEF m
    <3>3. SubSeq(buf, m + 1, Len(buf)) \in Seq(Nat)
      BY <2>1, <3>2, CutInTwo
    <3> QED BY <3>3 DEF after, m
  <2>5. buf' \in Seq(Nat)
    BY <1>1, <2>3, <2>4
  <2> HIDE DEF items, n, e
  <2>6. ASSUME Straight, NEW k \in 0..n, Place(k) PROVE \E i \in 0..n : Place(i)'
    <3>1. WaitsAt(items, Ending, Rest, files) /\ ~is_valid_ /\ (~cut /\ items # <<>> => Rest = Left(1) /\ Len(Start) <= Len(buf))
      BY <1>1, <2>6 DEF Waits, Untouched, Place, InItem, Over, OverAt, items
    <3>2. files = <<>>
      BY <3>1 DEF WaitsAt
    <3> DEFINE one == 1
    <3>3. ~cut /\ items # <<>> => Cut(From(items, Ending, one), buf, Coming)
      BY <2>1, <3>1 DEF Left, items
    <3>4. 0 \in 0..n
      BY <2>1
    <3>5. CASE Spots(buf, Start) = {} /\ buf' = <<>> /\ stage' = "reading" /\ state_' = 0
      <4>1. cut \/ items = <<>>
        BY <2>1, <3>1, <3>3, <3>5, WaitsFirst
      <4>2. Rest' = Coming
        BY <2>1, <2>3, <3>5 DEF e
      <4>3. WaitsAt(items, Ending, Coming, files)
        BY <2>1, <3>1, WaitsOn
      <4>4. Waits'
        BY <1>1, <2>1, <3>1, <3>5, <4>1, <4>2, <4>3 DEF Waits, items
      <4>5. Place(k)'
        BY <2>1, <2>6, <4>4 DEF Place
      <4> QED BY <4>5
    <3>6. CASE Spots(buf, Start) # {} /\ buf' = after /\ stage' = stage /\ state_' = 1
      <4>1. CASE ~cut /\ items # <<>>
        <5>1. /\ p = 0 /\ one \in 1..Len(items)
              /\ \E r \in Seq(Nat) : /\ Cut(r, SubSeq(buf, Len(Start) + 1, Len(buf)), Coming)
                                     /\ StartsAt(items, Ending, 0, one, r, <<>>)
          BY <2>1, <3>1, <3>3, <4>1, WaitsFirst
        <5>2. after = SubSeq(buf, Len(Start) + 1, Len(buf))
          <6>1. p + Len(Start) + 1 = Len(Start) + 1
            BY <2>2, <5>1
          <6> HIDE DEF p
          <6> QED BY <6>1 DEF after
        <5>3. PICK r \in Seq(Nat) : Cut(r, after, Coming) /\ StartsAt(items, Ending, 0, one, r, <<>>)
          BY <5>1, <5>2
        <5>4. Rest' = r
          BY <2>1, <3>6, <5>3
        <5>5. one \in 0 + 1..n
          BY <5>1 DEF n
        <5> HIDE DEF one
        <5>6. InItem(0, one)'
          BY <1>1, <2>1, <3>1, <3>2, <3>6, <5>3, <5>4 DEF InItem, items
        <5>7. Place(0)'
          BY <2>1, <5>5, <5>6 DEF Place, items, n
        <5> QED BY <3>4, <5>7
      <4>2. CASE cut \/ items = <<>>
        <5>1. \A i \in DOMAIN items : ~LooksLikeStart(items[i])
          BY <2>6, <4>2, StraightFacts DEF items
        <5>2. \E r \in Seq(Nat) :
                /\ Cut(r, SubSeq(buf, p + Len(Start) + 1, Len(buf)), Coming)
                /\ \/ \E j \in 1..Len(items) : StartsAt(items, Ending, j - 1, j, r, files)
                   \/ OverAt(Ending, 1, r)
          <6>1. p = Min(Spots(buf, Start)) /\ Spots(buf, Start) # {}
            BY <3>6
          <6> HIDE DEF p
          <6> QED BY <2>1, <3>1, <5>1, <6>1, WaitsFound
        <5>3. PICK r \in Seq(Nat) :
                /\ Cut(r, after, Coming)
                /\ \/ \E j \in 1..Len(items) : StartsAt(items, Ending, j - 1, j, r, files)
                   \/ OverAt(Ending, 1, r)
          BY <5>2 DEF after
        <5>4. Rest' = r
          BY <2>1, <3>6, <5>3
        <5>5. ASSUME NEW j \in 1..Len(items), StartsAt(items, Ending, j - 1, j, r, files)
              PROVE  \E i \in 0..n : Place(i)'
          <6> DEFINE i == j - 1
          <6>1. i \in 0..n /\ j \in i + 1..n
            BY <2>1, <5>5 DEF n
          <6>2. StartsAt(items, Ending, i, j, r, files)
            BY <5>5
          <6> HIDE DEF i
          <6>3. InItem(i, j)'
            BY <1>1, <2>1, <3>1, <3>6, <5>4, <6>2 DEF InItem, items
          <6>4. items # <<>>
            BY <5>5, EmptySeq
          <6>5. Place(i)'
            BY <2>1, <4>2, <6>1, <6>3, <6>4 DEF Place, items, n
          <6> QED BY <6>1, <6>5
        <5>6. ASSUME OverAt(Ending, 1, r) PROVE \E i \in 0..n : Place(i)'
          <6>1. Over(k)'
            BY <1>1, <2>1, <3>1, <3>6, <4>2, <5>4, <5>6 DEF Over, items
          <6>2. Place(k)'
            BY <2>1, <2>6, <6>1 DEF Place
          <6> QED BY <6>2
        <5> QED BY <5>3, <5>5, <5>6
      <4> QED BY <4>1, <4>2
    <3> QED BY <1>1, <3>5, <3>6
  <2>7. ReadingInv' /\ stage' # "refused"
    BY <1>1 DEF ReadingInv
  <2> QED BY <2>5, <2>6, <2>7 DEF GoesOn, Texts, items, n
<1>3. stage' \in {"parsing", "reading", "refused"}
  BY <1>1
<1> QED BY <1>1, <1>2, <1>3, ParseFrame DEF Next, Parse

LEMMA FormInvStep ==
  ASSUME req \in Requests, FormInv, [Next]_vars
  PROVE  FormInv'
<1>1. CASE Client
  BY <1>1, ClientStep
<1>2. CASE ReadLine
  BY <1>2, ReadLineStep
<1>3. CASE \E n \in 1..Len(wire) : Receive(n)
  BY <1>3, ReceiveStep
<1>4. CASE ReceiveEnd
  BY <1>4, ReceiveEndStep
<1>5. CASE Parse
  BY <1>5, ParseEndStep, SkipPreambleStep, NewEntryStep, HeaderTooLongStep, HeaderWaitsStep, HeadersEndStep,
     HeaderLineStep, ContentStep, ContentGoesOnStep, BoundaryEndStep DEF Parse
<1>6. CASE Done \/ UNCHANGED vars
  <2>1. UNCHANGED <<req, offset, cur_item, cur_start, ended, wire, stage, buf, state_, is_valid_, file_,
                    files, file_count, cut>>
    BY <1>6 DEF Done, vars, client, parser
  <2>2. Given' = Given /\ Ending' = Ending /\ Left(1)' = Left(1)
    BY <2>1 DEF Given, Ending, After, Left
  <2>3. ToWrite' = ToWrite
    BY <2>1, <2>2 DEF ToWrite, Left, Half
  <2>4. Rest' = Rest
    BY <2>1, <2>3 DEF Rest, Coming
  <2>5. /\ CountInv' /\ (FreshInv => FreshInv') /\ (ClientInv => ClientInv') /\ (ReadingInv => ReadingInv')
        /\ Arriving' = Arriving
    BY <1>6, <2>1, <2>2, CountStep DEF FormInv, FreshInv, ClientInv, ReadingInv, Arriving
  <2>6. \A k : Place(k) => Place(k)'
    <3>1. Waits => Waits'
      BY <2>1, <2>2, <2>4 DEF Waits, Untouched
    <3>2. \A k, j : InItem(k, j) => InItem(k, j)'
      BY <2>1, <2>2, <2>4 DEF InItem
    <3>3. \A k : Over(k) => Over(k)'
      BY <2>1, <2>2, <2>4 DEF Over
    <3> QED BY <2>1, <3>1, <3>2, <3>3 DEF Place
  <2>7. Straight' => Straight
    BY <2>1, StraightKept
  <2>8. PlaceInv'
    BY <2>1, <2>5, <2>6, <2>7 DEF FormInv, PlaceInv
  <2>9. HandledInv' /\ FormTaken'
    BY <2>1, <2>7 DEF FormInv, HandledInv, FormTaken, PlainForm
  <2> QED BY <2>1, <2>5, <2>8, <2>9 DEF FormInv
<1> QED BY <1>1, <1>2, <1>3, <1>4, <1>5, <1>6 DEF Next

LEMMA FormAlways == Spec => [](req \in Requests /\ FormInv)
<1>1. Init => req \in Requests /\ FormInv
  BY FormInvInit DEF Init
<1>2. req \in Requests /\ FormInv /\ [Next]_vars => (req \in Requests /\ FormInv)'
  <2> SUFFICES ASSUME req \in Requests, FormInv, [Next]_vars PROVE (req \in Requests)' /\ FormInv'
    OBVIOUS
  <2> QED BY ReqKept, FormInvStep
<1> QED BY <1>1, <1>2, PTL DEF Spec

\* Wherever the pieces of a form are cut, and whether it comes from strings or from
\* providers, a handler sees its last items whole and unchanged, and all of them unless a
\* piece ended inside the first boundary line: for all forms of plain items, any number
\* of them, with contents of any length.  It never has more items than allowed.
THEOREM FormTrueAlways == Spec => []FormTrue
<1>1. FormInv => FormTrue
  <2> SUFFICES ASSUME FormInv PROVE FormTrue
    OBVIOUS
  <2>1. Len(files) <= MaxFiles
    BY DEF FormInv, CountInv
  <2>2. ASSUME /\ stage = "handled" /\ PlainForm
               /\ cut => \A k \in DOMAIN req.items : ~LooksLikeStart(req.items[k])
               /\ ~Holds(crlf_ \o req.after, crlf_ \o crlf_)
        PROVE  \E k \in 0..Len(req.items) :
                 /\ files = [i \in 1..Len(req.items) - k |-> Expected(req.items[i + k])]
                 /\ ~cut => k = 0
    <3>1. Straight
      BY <2>2 DEF Straight
    <3>2. PICK k \in 0..Len(req.items) : (cut \/ k = 0) /\ files = Whole(req.items, k, Len(req.items))
      BY <2>2, <3>1 DEF FormInv, HandledInv
    <3> QED BY <3>2 DEF Whole
  <2> QED BY <2>1, <2>2 DEF FormTrue
<1> QED BY <1>1, FormAlways, PTL

\* A form of plain items is only refused when a piece of it ended inside the first boundary
\* line, the client broke off, it is empty, has too many items or a header line of
\* CPPHTTPLIB_HEADER_MAX_LENGTH or more, or has text after its end: for all such forms
\* and all pieces, no other header line is rejected, and no boundary missed.
THEOREM FormTakenAlways == Spec => []FormTaken
<1>1. FormInv => FormTaken
  BY DEF FormInv
<1> QED BY <1>1, FormAlways, PTL
=============================================================================
