--------------------------- MODULE GeoGridProofs ---------------------------
(***************************************************************************)
(* Proofs about GeoGrid: the score of a position is a number, decoding it  *)
(* gives the position's cell back, and what the nine boxes of GEOSEARCH    *)
(* hold, for any number of bits and any distances on the sphere.           *)
(*                                                                         *)
(* The functions that move bits are recursive.  What is needed of them     *)
(* follows from the least number principle: a claim that fails somewhere   *)
(* fails at a least number, and holds below it.                            *)
(***************************************************************************)
EXTENDS GeoGrid, Induction, SequenceTheorems

-----------------------------------------------------------------------------
(* Recursion: both functions take the last bit of a number, and a times what *)
(* they make of a b-th of it.                                              *)

\* The equation for the numbers up to n.
Upto(h, n, a, b) ==
  /\ h \in [0 .. n -> Nat]
  /\ \A v \in 0 .. n : h[v] = IF v = 0 THEN 0 ELSE (v % 2) + a * h[v \div b]

\* Up to any number, some function meets it.
LEMMA UptoExists ==
  ASSUME NEW a \in Nat, NEW b \in Nat, \A v \in Nat : v # 0 => v \div b \in 0 .. v - 1,
         NEW n \in Nat
  PROVE  \E h : Upto(h, n, a, b)
<1> DEFINE S == {m \in Nat : \E h : Upto(h, m, a, b)}
<1>1. ASSUME NEW m \in Nat, \A k \in 0 .. m - 1 : k \in S
      PROVE  m \in S
  <2>1. CASE m = 0
    <3> DEFINE h == [v \in 0 .. 0 |-> 0]
    <3>1. Upto(h, 0, a, b)
      BY DEF Upto
    <3> QED
      BY <2>1, <3>1
  <2>2. CASE m # 0
    <3>1. m - 1 \in S /\ m - 1 \in Nat
      BY <1>1, <2>2
    <3>2. PICK g : Upto(g, m - 1, a, b)
      BY <3>1
    <3> DEFINE h == [v \in 0 .. m |-> IF v = m THEN (m % 2) + a * g[m \div b] ELSE g[v]]
    <3>3. m \div b \in 0 .. m - 1
      BY <2>2
    <3>4. g[m \div b] \in Nat /\ m % 2 \in Nat
      BY <3>2, <3>3 DEF Upto
    <3>5. a * g[m \div b] \in Nat
      BY <3>4
    <3>6. \A v \in 0 .. m : v # m => v \in 0 .. m - 1
      BY <2>2
    <3>7. h \in [0 .. m -> Nat]
      <4>1. (m % 2) + a * g[m \div b] \in Nat
        BY <3>4, <3>5
      <4>2. \A v \in 0 .. m - 1 : g[v] \in Nat
        BY <3>2 DEF Upto
      <4> QED
        BY <3>6, <4>1, <4>2
    <3>8. ASSUME NEW v \in 0 .. m
          PROVE  h[v] = IF v = 0 THEN 0 ELSE (v % 2) + a * h[v \div b]
      <4>1. CASE v = 0
        BY <2>2, <3>2, <3>6, <4>1 DEF Upto
      <4>2. CASE v # 0
        <5>1. v \div b \in 0 .. v - 1
          BY <4>2
        <5>2. v \div b \in 0 .. m - 1 /\ v \div b \in 0 .. m /\ v \div b # m
          BY <5>1
        <5>3. h[v \div b] = g[v \div b]
          BY <5>2
        <5>4. CASE v = m
          BY <2>2, <5>3, <5>4
        <5>5. CASE v # m
          <6>1. h[v] = g[v] /\ v \in 0 .. m - 1
            BY <3>6, <5>5
          <6>2. g[v] = (v % 2) + a * g[v \div b]
            BY <3>2, <4>2, <6>1 DEF Upto
          <6> QED
            BY <4>2, <5>3, <6>1, <6>2
        <5> QED
          BY <5>4, <5>5
      <4> QED
        BY <4>1, <4>2
    <3> HIDE DEF h
    <3>9. Upto(h, m, a, b)
      BY <3>7, <3>8 DEF Upto
    <3> QED
      BY <3>9
  <2> QED
    BY <2>1, <2>2
<1> HIDE DEF S
<1>2. n \in S
  BY <1>1, StrongInduction
<1> QED
  BY <1>2 DEF S

\* Two that do agree.
LEMMA UptoUnique ==
  ASSUME NEW a \in Nat, NEW b \in Nat, \A v \in Nat : v # 0 => v \div b \in 0 .. v - 1,
         NEW n \in Nat, NEW m \in Nat, NEW g, NEW h, Upto(g, n, a, b), Upto(h, m, a, b),
         NEW w \in Nat, w <= n, w <= m
  PROVE  g[w] = h[w]
<1> DEFINE S == {v \in Nat : v <= n /\ v <= m => g[v] = h[v]}
<1>1. ASSUME NEW v \in Nat, \A k \in 0 .. v - 1 : k \in S
      PROVE  v \in S
  <2> SUFFICES ASSUME v <= n, v <= m PROVE g[v] = h[v]
    OBVIOUS
  <2>1. v \in 0 .. n /\ v \in 0 .. m
    OBVIOUS
  <2>2. CASE v = 0
    BY <2>1, <2>2 DEF Upto
  <2>3. CASE v # 0
    <3>1. v \div b \in 0 .. v - 1
      BY <2>3
    <3>2. g[v \div b] = h[v \div b]
      BY <1>1, <3>1
    <3>3. /\ g[v] = (v % 2) + a * g[v \div b]
          /\ h[v] = (v % 2) + a * h[v \div b]
      BY <2>1, <2>3 DEF Upto
    <3> QED
      BY <3>2, <3>3
  <2> QED
    BY <2>2, <2>3
<1> HIDE DEF S
<1>2. w \in S
  BY <1>1, StrongInduction
<1> QED
  BY <1>2 DEF S

\* So there is one for all numbers.
LEMMA RecursionExists ==
  ASSUME NEW a \in Nat, NEW b \in Nat, \A v \in Nat : v # 0 => v \div b \in 0 .. v - 1
  PROVE  \E g \in [Nat -> Nat] :
           g = [v \in Nat |-> IF v = 0 THEN 0 ELSE (v % 2) + a * g[v \div b]]
<1> DEFINE H(n) == CHOOSE h : Upto(h, n, a, b)
           g == [v \in Nat |-> H(v)[v]]
<1>1. \A n \in Nat : Upto(H(n), n, a, b)
  BY UptoExists
<1> HIDE DEF H
<1>2. \A v \in Nat : H(v)[v] \in Nat
  BY <1>1 DEF Upto
<1>3. g \in [Nat -> Nat]
  BY <1>2
<1>4. ASSUME NEW v \in Nat
      PROVE  g[v] = IF v = 0 THEN 0 ELSE (v % 2) + a * g[v \div b]
  <2>1. v \in 0 .. v
    OBVIOUS
  <2>2. H(v)[v] = IF v = 0 THEN 0 ELSE (v % 2) + a * H(v)[v \div b]
    BY <1>1, <2>1 DEF Upto
  <2>3. ASSUME v # 0 PROVE H(v)[v \div b] = g[v \div b]
    <3>1. v \div b \in Nat /\ v \div b <= v
      <4>1. v \div b \in 0 .. v - 1
        BY <2>3
      <4> QED
        BY <4>1
    <3>2. Upto(H(v), v, a, b) /\ Upto(H(v \div b), v \div b, a, b)
      BY <1>1, <3>1
    <3>3. H(v)[v \div b] = H(v \div b)[v \div b]
      BY <3>1, <3>2, UptoUnique
    <3> QED
      BY <3>1, <3>3
  <2> QED
    BY <2>2, <2>3
<1> HIDE DEF g
<1>5. g = [v \in Nat |-> IF v = 0 THEN 0 ELSE (v % 2) + a * g[v \div b]]
  BY <1>3, <1>4
<1> QED
  BY <1>3, <1>5

-----------------------------------------------------------------------------
(* The bits of two numbers, put together and taken apart. *)

\* A half, and a quarter, of a number is a smaller number.
LEMMA HalfAndQuarter ==
  \A v \in Nat : v # 0 => v \div 2 \in 0 .. v - 1 /\ v \div 4 \in 0 .. v - 1
OBVIOUS

\* spreadInt32ToInt64 meets its equation.
LEMMA SpreadEquation ==
  /\ spreadInt32ToInt64 \in [Nat -> Nat]
  /\ \A v \in Nat : spreadInt32ToInt64[v] =
       IF v = 0 THEN 0 ELSE (v % 2) + 4 * spreadInt32ToInt64[v \div 2]
<1> DEFINE Q(g) == g = [v \in Nat |-> IF v = 0 THEN 0 ELSE (v % 2) + 4 * g[v \div 2]]
<1>1. \E g \in [Nat -> Nat] : Q(g)
  <2>1. \A v \in Nat : v # 0 => v \div 2 \in 0 .. v - 1
    BY HalfAndQuarter
  <2>2. 2 \in Nat /\ 4 \in Nat
    OBVIOUS
  <2>3. \E g \in [Nat -> Nat] :
          g = [v \in Nat |-> IF v = 0 THEN 0 ELSE (v % 2) + 4 * g[v \div 2]]
    BY <2>1, <2>2, RecursionExists, Zenon
  <2> QED
    BY <2>3
<1>2. spreadInt32ToInt64 = CHOOSE g : Q(g)
  BY DEF spreadInt32ToInt64
<1> HIDE DEF Q
<1>3. Q(CHOOSE g : Q(g))
  BY <1>1
<1>4. Q(spreadInt32ToInt64)
  BY <1>2, <1>3
<1>5. /\ spreadInt32ToInt64 = [v \in Nat |-> spreadInt32ToInt64[v]]
      /\ \A v \in Nat : spreadInt32ToInt64[v] =
           IF v = 0 THEN 0 ELSE (v % 2) + 4 * spreadInt32ToInt64[v \div 2]
  BY <1>4 DEF Q
<1> DEFINE S == {v \in Nat : spreadInt32ToInt64[v] \in Nat}
<1>6. ASSUME NEW v \in Nat, \A k \in 0 .. v - 1 : k \in S
      PROVE  v \in S
  <2>1. CASE v = 0
    BY <1>5, <2>1
  <2>2. CASE v # 0
    <3>1. v \div 2 \in S /\ v % 2 \in Nat
      BY <1>6, <2>2, HalfAndQuarter
    <3>2. spreadInt32ToInt64[v] = (v % 2) + 4 * spreadInt32ToInt64[v \div 2]
      BY <1>5, <2>2
    <3>3. (v % 2) + 4 * spreadInt32ToInt64[v \div 2] \in Nat
      BY <3>1
    <3> QED
      BY <3>2, <3>3
  <2> QED
    BY <2>1, <2>2
<1> HIDE DEF S
<1>7. \A v \in Nat : v \in S
  BY <1>6, StrongInduction
<1>8. \A v \in Nat : spreadInt32ToInt64[v] \in Nat
  BY <1>7 DEF S
<1> QED
  BY <1>5, <1>8

\* compactInt64ToInt32 meets its equation.
LEMMA CompactEquation ==
  /\ compactInt64ToInt32 \in [Nat -> Nat]
  /\ \A v \in Nat : compactInt64ToInt32[v] =
       IF v = 0 THEN 0 ELSE (v % 2) + 2 * compactInt64ToInt32[v \div 4]
<1> DEFINE Q(g) == g = [v \in Nat |-> IF v = 0 THEN 0 ELSE (v % 2) + 2 * g[v \div 4]]
<1>1. \E g \in [Nat -> Nat] : Q(g)
  <2>1. \A v \in Nat : v # 0 => v \div 4 \in 0 .. v - 1
    BY HalfAndQuarter
  <2>2. 2 \in Nat /\ 4 \in Nat
    OBVIOUS
  <2>3. \E g \in [Nat -> Nat] :
          g = [v \in Nat |-> IF v = 0 THEN 0 ELSE (v % 2) + 2 * g[v \div 4]]
    BY <2>1, <2>2, RecursionExists, Zenon
  <2> QED
    BY <2>3
<1>2. compactInt64ToInt32 = CHOOSE g : Q(g)
  BY DEF compactInt64ToInt32
<1> HIDE DEF Q
<1>3. Q(CHOOSE g : Q(g))
  BY <1>1
<1>4. Q(compactInt64ToInt32)
  BY <1>2, <1>3
<1>5. /\ compactInt64ToInt32 = [v \in Nat |-> compactInt64ToInt32[v]]
      /\ \A v \in Nat : compactInt64ToInt32[v] =
           IF v = 0 THEN 0 ELSE (v % 2) + 2 * compactInt64ToInt32[v \div 4]
  BY <1>4 DEF Q
<1> DEFINE S == {v \in Nat : compactInt64ToInt32[v] \in Nat}
<1>6. ASSUME NEW v \in Nat, \A k \in 0 .. v - 1 : k \in S
      PROVE  v \in S
  <2>1. CASE v = 0
    BY <1>5, <2>1
  <2>2. CASE v # 0
    <3>1. v \div 4 \in S /\ v % 2 \in Nat
      BY <1>6, <2>2, HalfAndQuarter
    <3>2. compactInt64ToInt32[v] = (v % 2) + 2 * compactInt64ToInt32[v \div 4]
      BY <1>5, <2>2
    <3>3. (v % 2) + 2 * compactInt64ToInt32[v \div 4] \in Nat
      BY <3>1
    <3> QED
      BY <3>2, <3>3
  <2> QED
    BY <2>1, <2>2
<1> HIDE DEF S
<1>7. \A v \in Nat : v \in S
  BY <1>6, StrongInduction
<1>8. \A v \in Nat : compactInt64ToInt32[v] \in Nat
  BY <1>7 DEF S
<1> QED
  BY <1>5, <1>8

\* The even bits of an interleaving are those of its first number.
LEMMA CompactInterleave ==
  \A x, y \in Nat : compactInt64ToInt32[interleave(x, y)] = x
<1> DEFINE f(x) == spreadInt32ToInt64[x]
           g(v) == compactInt64ToInt32[v]
           S == {n \in Nat : \A x, y \in Nat : x + y = n => g(f(x) + 2 * f(y)) = x}
<1>1. \A x \in Nat : f(x) \in Nat /\ f(x) = (x % 2) + 4 * f(x \div 2)
  <2> SUFFICES ASSUME NEW x \in Nat PROVE f(x) \in Nat /\ f(x) = (x % 2) + 4 * f(x \div 2)
    OBVIOUS
  <2>1. 0 \div 2 = 0 /\ 0 % 2 = 0
    OBVIOUS
  <2>2. f(x) \in Nat /\ f(0) = 0 /\ (x # 0 => f(x) = (x % 2) + 4 * f(x \div 2))
    BY SpreadEquation
  <2> HIDE DEF f
  <2> QED
    BY <2>1, <2>2
<1>2. \A v \in Nat : g(v) = (v % 2) + 2 * g(v \div 4)
  <2> SUFFICES ASSUME NEW v \in Nat PROVE g(v) = (v % 2) + 2 * g(v \div 4)
    OBVIOUS
  <2>1. 0 \div 4 = 0 /\ 0 % 2 = 0
    OBVIOUS
  <2> QED
    BY <2>1, CompactEquation
<1>3. g(0) = 0
  BY CompactEquation
<1>4. f(0) = 0
  BY SpreadEquation
<1> HIDE DEF f, g
<1>5. ASSUME NEW n \in Nat, \A k \in 0 .. n - 1 : k \in S
      PROVE  n \in S
  <2> SUFFICES ASSUME NEW x \in Nat, NEW y \in Nat, x + y = n
               PROVE  g(f(x) + 2 * f(y)) = x
    OBVIOUS
  <2>1. CASE x = 0 /\ y = 0
    BY <1>3, <1>4, <2>1
  <2>2. CASE ~(x = 0 /\ y = 0)
    <3> DEFINE i == x \div 2
               j == y \div 2
               w == f(i) + 2 * f(j)
               v == f(x) + 2 * f(y)
    <3>1. /\ i \in Nat /\ j \in Nat /\ x = 2 * i + (x % 2)
          /\ x % 2 \in {0, 1} /\ y % 2 \in {0, 1}
      OBVIOUS
    <3>2. i + j \in 0 .. n - 1
      BY <2>2
    <3>3. g(w) = i
      BY <1>5, <3>1, <3>2
    <3>4. f(i) \in Nat /\ f(j) \in Nat
      BY <1>1, <3>1
    <3>5. f(x) = (x % 2) + 4 * f(i) /\ f(y) = (y % 2) + 4 * f(j)
      BY <1>1
    <3> HIDE DEF i, j
    <3>6. v = ((x % 2) + 2 * (y % 2)) + 4 * w /\ w \in Nat /\ v \in Nat
      BY <3>1, <3>4, <3>5
    <3>7. v % 2 = x % 2 /\ v \div 4 = w
      <4>1. \A a, b \in {0, 1}, k \in Nat :
              /\ ((a + 2 * b) + 4 * k) % 2 = a
              /\ ((a + 2 * b) + 4 * k) \div 4 = k
        <5>1. \A k \in Nat : /\ ((0 + 2 * 0) + 4 * k) % 2 = 0
                             /\ ((0 + 2 * 0) + 4 * k) \div 4 = k
          OBVIOUS
        <5>2. \A k \in Nat : /\ ((1 + 2 * 0) + 4 * k) % 2 = 1
                             /\ ((1 + 2 * 0) + 4 * k) \div 4 = k
          OBVIOUS
        <5>3. \A k \in Nat : /\ ((0 + 2 * 1) + 4 * k) % 2 = 0
                             /\ ((0 + 2 * 1) + 4 * k) \div 4 = k
          OBVIOUS
        <5>4. \A k \in Nat : /\ ((1 + 2 * 1) + 4 * k) % 2 = 1
                             /\ ((1 + 2 * 1) + 4 * k) \div 4 = k
          OBVIOUS
        <5> QED
          BY <5>1, <5>2, <5>3, <5>4
      <4> HIDE DEF w, v
      <4> QED
        BY <3>1, <3>6, <4>1
    <3> HIDE DEF w, v
    <3>8. g(v) = (x % 2) + 2 * i
      BY <1>2, <3>3, <3>6, <3>7
    <3> QED
      BY <3>1, <3>8 DEF v
  <2> QED
    BY <2>1, <2>2
<1> HIDE DEF S
<1>6. \A n \in Nat : n \in S
  BY <1>5, StrongInduction
<1>7. \A x, y \in Nat : g(f(x) + 2 * f(y)) = x
  <2> SUFFICES ASSUME NEW x \in Nat, NEW y \in Nat PROVE g(f(x) + 2 * f(y)) = x
    OBVIOUS
  <2>1. x + y \in S
    BY <1>6
  <2> QED
    BY <2>1 DEF S
<1> QED
  BY <1>7 DEF f, g, interleave

\* The score of a position on the map is a number.
THEOREM EncodeIsScore ==
  \A p \in Positions : Encode(p) \in Nat
<1> SUFFICES ASSUME NEW p \in Positions PROVE Encode(p) \in Nat
  OBVIOUS
<1>1. p.lat \in Nat /\ p.lon \in Nat
  BY DEF Positions
<1>2. spreadInt32ToInt64[p.lat] \in Nat /\ spreadInt32ToInt64[p.lon] \in Nat
  BY <1>1, SpreadEquation
<1> QED
  BY <1>2 DEF Encode, interleave

\* Decoding the score of a position gives its cell back, whatever the number of
\* bits: GEOPOS finds a member in the cell GEOADD put it into (geocoding.go,
\* encode and decode).
THEOREM DecodeEncode ==
  \A p \in Positions : Decode(Encode(p)) = p
<1> SUFFICES ASSUME NEW p \in Positions PROVE Decode(Encode(p)) = p
  OBVIOUS
<1> DEFINE x == p.lat
           y == p.lon
<1>1. x \in Nat /\ y \in Nat /\ p = [lat |-> x, lon |-> y]
  BY DEF Positions
<1>2. compactInt64ToInt32[interleave(x, y)] = x
  BY <1>1, CompactInterleave
<1>3. interleave(x, y) \div 2 = interleave(y, x \div 2)
  <2> DEFINE f(n) == spreadInt32ToInt64[n]
  <2>1. x \div 2 \in Nat /\ x % 2 \in {0, 1} /\ (0 \div 2 = 0 /\ 0 % 2 = 0)
    BY <1>1
  <2>2. f(x) \in Nat /\ f(y) \in Nat /\ f(x \div 2) \in Nat
    BY <1>1, <2>1, SpreadEquation
  <2>3. f(x) = (x % 2) + 4 * f(x \div 2)
    BY <1>1, <2>1, SpreadEquation
  <2> DEFINE k == f(x \div 2)
             l == f(y)
  <2> HIDE DEF f
  <2>4. interleave(x, y) = (x % 2) + 2 * (l + 2 * k)
    <3>1. interleave(x, y) = f(x) + 2 * f(y)
      BY DEF interleave, f
    <3> QED
      BY <2>1, <2>2, <2>3, <3>1
  <2>5. interleave(y, x \div 2) = l + 2 * k
    BY DEF interleave, f
  <2>6. k \in Nat /\ l \in Nat
    BY <2>2
  <2> HIDE DEF k, l
  <2>7. l + 2 * k \in Nat
    BY <2>6
  <2>8. \A a \in {0, 1}, n \in Nat : (a + 2 * n) \div 2 = n
    OBVIOUS
  <2> QED
    BY <2>1, <2>4, <2>5, <2>7, <2>8
<1>4. compactInt64ToInt32[interleave(y, x \div 2)] = y
  <2>1. x \div 2 \in Nat
    BY <1>1
  <2> QED
    BY <1>1, <2>1, CompactInterleave
<1> QED
  BY <1>1, <1>2, <1>3, <1>4 DEF Decode, Encode

\* The last bit of a number that is not all zeros, and the rest.
LEMMA SpreadStep ==
  ASSUME NEW v \in Nat, NEW c \in {0, 1}
  PROVE  spreadInt32ToInt64[2 * v + c] = c + 4 * spreadInt32ToInt64[v]
<1>1. 2 * v + c \in Nat /\ (2 * v + c) % 2 = c /\ (2 * v + c) \div 2 = v
  <2>1. CASE c = 0
    BY <2>1
  <2>2. CASE c = 1
    BY <2>2
  <2> QED
    BY <2>1, <2>2
<1>2. CASE 2 * v + c = 0
  <2>1. v = 0 /\ c = 0
    BY <1>2
  <2> QED
    BY <2>1, SpreadEquation
<1>3. CASE 2 * v + c # 0
  BY <1>1, <1>3, SpreadEquation
<1> QED
  BY <1>2, <1>3

\* Every number is the score of the cell it decodes to, so a score given to ZADD
\* has a place on the map that GEOSEARCH can find (geocoding.go, encode and decode).
THEOREM EncodeDecode ==
  \A n \in Nat : Encode(Decode(n)) = n
<1> DEFINE f(v) == spreadInt32ToInt64[v]
           g(v) == compactInt64ToInt32[v]
           S == {n \in Nat : f(g(n)) + 2 * f(g(n \div 2)) = n}
<1>1. \A v \in Nat : f(v) \in Nat /\ g(v) \in Nat
  BY SpreadEquation, CompactEquation
<1>2. \A v \in Nat, c \in {0, 1} : f(2 * v + c) = c + 4 * f(v)
  BY SpreadStep
<1>3. f(0) = 0 /\ g(0) = 0
  BY SpreadEquation, CompactEquation
<1>4. \A v \in Nat : v # 0 => g(v) = (v % 2) + 2 * g(v \div 4)
  BY CompactEquation
<1> HIDE DEF f, g
<1>5. \A v \in Nat : f(g(v)) = (v % 2) + 4 * f(g(v \div 4))
  <2> SUFFICES ASSUME NEW v \in Nat PROVE f(g(v)) = (v % 2) + 4 * f(g(v \div 4))
    OBVIOUS
  <2>1. 0 \div 4 = 0 /\ 0 % 2 = 0 /\ v \div 4 \in Nat /\ v % 2 \in {0, 1}
    OBVIOUS
  <2>2. CASE v = 0
    BY <1>3, <2>1, <2>2
  <2>3. CASE v # 0
    <3>1. g(v) = (v % 2) + 2 * g(v \div 4) /\ g(v \div 4) \in Nat
      BY <1>1, <1>4, <2>1, <2>3
    <3>2. \A k \in Nat, c \in {0, 1} : c + 2 * k = 2 * k + c
      OBVIOUS
    <3>3. f(g(v)) = f(2 * g(v \div 4) + (v % 2))
      BY <2>1, <3>1, <3>2
    <3> QED
      BY <1>2, <2>1, <3>1, <3>3
  <2> QED
    BY <2>2, <2>3
<1>6. ASSUME NEW n \in Nat, \A k \in 0 .. n - 1 : k \in S
      PROVE  n \in S
  <2>1. CASE n = 0
    <3>1. 0 \div 2 = 0
      OBVIOUS
    <3> QED
      BY <1>3, <2>1, <3>1
  <2>2. CASE n # 0
    <3> DEFINE q == n \div 4
               h == n \div 2
    <3>1. /\ q \in 0 .. n - 1 /\ h \in Nat /\ h \div 4 = q \div 2 /\ q \div 2 \in Nat
          /\ n = (n % 2) + 2 * (h % 2) + 4 * q /\ n % 2 \in Nat /\ h % 2 \in Nat
      BY <2>2
    <3>2. f(g(q)) + 2 * f(g(q \div 2)) = q
      BY <1>6, <3>1
    <3>3. f(g(n)) = (n % 2) + 4 * f(g(q)) /\ f(g(h)) = (h % 2) + 4 * f(g(q \div 2))
      BY <1>5, <3>1
    <3>4. f(g(q)) \in Nat /\ f(g(q \div 2)) \in Nat
      BY <1>1, <3>1
    <3> HIDE DEF q, h
    <3> DEFINE x == f(g(q))
               y == f(g(q \div 2))
               a == n % 2
               b == h % 2
    <3>5. x \in Nat /\ y \in Nat /\ x + 2 * y = q
      BY <3>2, <3>4
    <3>6. a \in Nat /\ b \in Nat /\ q \in Nat /\ n = a + 2 * b + 4 * q
      BY <3>1
    <3>7. f(g(n)) = a + 4 * x /\ f(g(h)) = b + 4 * y
      BY <3>3
    <3> HIDE DEF x, y, a, b
    <3>8. (a + 4 * x) + 2 * (b + 4 * y) = n
      BY <3>5, <3>6
    <3>9. f(g(n)) + 2 * f(g(h)) = n
      BY <3>7, <3>8
    <3> QED
      BY <3>9 DEF h
  <2> QED
    BY <2>1, <2>2
<1> HIDE DEF S
<1>7. \A n \in Nat : n \in S
  BY <1>6, StrongInduction
<1> QED
  BY <1>7 DEF S, f, g, Decode, Encode, interleave

-----------------------------------------------------------------------------
(* Powers of two, and the scores of a box.                                 *)

\* The equation of Bit for the numbers up to n.
Doubling(h, n) ==
  /\ h \in [0 .. n -> Nat] /\ h[0] = 1
  /\ \A v \in 1 .. n : h[v] = 2 * h[v - 1]

\* Up to any number, some function doubles.
LEMMA DoublingExists ==
  \A n \in Nat : \E h : Doubling(h, n)
<1> DEFINE S == {n \in Nat : \E h : Doubling(h, n)}
<1>1. ASSUME NEW n \in Nat, \A k \in 0 .. n - 1 : k \in S
      PROVE  n \in S
  <2>1. CASE n = 0
    <3> DEFINE h == [v \in 0 .. 0 |-> 1]
    <3>1. Doubling(h, 0)
      BY DEF Doubling
    <3> QED
      BY <2>1, <3>1
  <2>2. CASE n # 0
    <3>1. n - 1 \in S /\ n - 1 \in Nat
      BY <1>1, <2>2
    <3>2. PICK g : Doubling(g, n - 1)
      BY <3>1
    <3> DEFINE h == [v \in 0 .. n |-> IF v = n THEN 2 * g[n - 1] ELSE g[v]]
    <3>3. /\ \A v \in 0 .. n - 1 : g[v] \in Nat
          /\ g[0] = 1 /\ \A v \in 1 .. n - 1 : g[v] = 2 * g[v - 1]
      BY <3>2 DEF Doubling
    <3>4. 2 * g[n - 1] \in Nat
      BY <3>1, <3>3
    <3>5. h \in [0 .. n -> Nat] /\ h[0] = 1
      BY <2>2, <3>3, <3>4
    <3>6. ASSUME NEW v \in 1 .. n PROVE h[v] = 2 * h[v - 1]
      <4>1. v - 1 \in 0 .. n /\ v - 1 # n /\ v \in 0 .. n
        OBVIOUS
      <4>2. h[v - 1] = g[v - 1]
        BY <4>1
      <4>3. CASE v = n
        BY <4>1, <4>2, <4>3
      <4>4. CASE v # n
        <5>1. v \in 1 .. n - 1 /\ h[v] = g[v]
          BY <4>1, <4>4
        <5> QED
          BY <3>3, <4>2, <5>1
      <4> QED
        BY <4>3, <4>4
    <3> HIDE DEF h
    <3>7. Doubling(h, n)
      BY <3>5, <3>6 DEF Doubling
    <3> QED
      BY <3>7
  <2> QED
    BY <2>1, <2>2
<1> HIDE DEF S
<1>2. \A n \in Nat : n \in S
  BY <1>1, StrongInduction
<1> QED
  BY <1>2 DEF S

\* Two that do agree.
LEMMA DoublingUnique ==
  ASSUME NEW n \in Nat, NEW m \in Nat, NEW g, NEW h, Doubling(g, n), Doubling(h, m),
         NEW w \in Nat, w <= n, w <= m
  PROVE  g[w] = h[w]
<1> DEFINE S == {v \in Nat : v <= n /\ v <= m => g[v] = h[v]}
<1>1. ASSUME NEW v \in Nat, \A k \in 0 .. v - 1 : k \in S
      PROVE  v \in S
  <2> SUFFICES ASSUME v <= n, v <= m PROVE g[v] = h[v]
    OBVIOUS
  <2>1. CASE v = 0
    BY <2>1 DEF Doubling
  <2>2. CASE v # 0
    <3>1. v \in 1 .. n /\ v \in 1 .. m /\ v - 1 \in 0 .. v - 1
      BY <2>2
    <3>2. g[v - 1] = h[v - 1]
      BY <1>1, <3>1
    <3>3. g[v] = 2 * g[v - 1] /\ h[v] = 2 * h[v - 1]
      BY <3>1 DEF Doubling
    <3> QED
      BY <3>2, <3>3
  <2> QED
    BY <2>1, <2>2
<1> HIDE DEF S
<1>2. w \in S
  BY <1>1, StrongInduction
<1> QED
  BY <1>2 DEF S

\* Bit meets its equation, and is never 0.
LEMMA BitEquation ==
  /\ \A n \in Nat : Bit[n] \in Nat /\ Bit[n] >= 1
  /\ Bit[0] = 1
  /\ \A n \in Nat : Bit[n + 1] = 2 * Bit[n]
<1> DEFINE Q(g) == g = [n \in Nat |-> IF n = 0 THEN 1 ELSE 2 * g[n - 1]]
           H(n) == CHOOSE h : Doubling(h, n)
           b == [n \in Nat |-> H(n)[n]]
<1>1. \A n \in Nat : Doubling(H(n), n)
  BY DoublingExists
<1> HIDE DEF H
<1>2. \A n \in Nat : b[n] \in Nat
  BY <1>1 DEF Doubling
<1>3. ASSUME NEW n \in Nat
      PROVE  b[n] = IF n = 0 THEN 1 ELSE 2 * b[n - 1]
  <2>1. CASE n = 0
    BY <1>1, <2>1 DEF Doubling
  <2>2. CASE n # 0
    <3>1. n - 1 \in Nat /\ n - 1 <= n /\ n \in 1 .. n
      BY <2>2
    <3>2. H(n)[n] = 2 * H(n)[n - 1]
      BY <1>1, <3>1 DEF Doubling
    <3>3. Doubling(H(n), n) /\ Doubling(H(n - 1), n - 1)
      BY <1>1, <3>1
    <3>4. H(n)[n - 1] = H(n - 1)[n - 1]
      BY <3>1, <3>3, DoublingUnique
    <3> QED
      BY <2>2, <3>1, <3>2, <3>4
  <2> QED
    BY <2>1, <2>2
<1>4. b = [n \in Nat |-> b[n]]
  OBVIOUS
<1> HIDE DEF b
<1>5. Q(b)
  BY <1>3, <1>4
<1>6. Bit = CHOOSE g : Q(g)
  BY DEF Bit
<1> HIDE DEF Q
<1>7. Q(Bit)
  BY <1>5, <1>6
<1>8. \A n \in Nat : Bit[n] = IF n = 0 THEN 1 ELSE 2 * Bit[n - 1]
  BY <1>7 DEF Q
<1>9. Bit[0] = 1
  BY <1>8
<1>10. \A n \in Nat : Bit[n + 1] = 2 * Bit[n]
  <2> SUFFICES ASSUME NEW n \in Nat PROVE Bit[n + 1] = 2 * Bit[n]
    OBVIOUS
  <2>1. n + 1 \in Nat /\ n + 1 # 0 /\ (n + 1) - 1 = n
    OBVIOUS
  <2> QED
    BY <1>8, <2>1
<1> DEFINE S == {n \in Nat : Bit[n] \in Nat /\ Bit[n] >= 1}
<1>11. ASSUME NEW n \in Nat, \A k \in 0 .. n - 1 : k \in S
       PROVE  n \in S
  <2>1. CASE n = 0
    BY <1>9, <2>1
  <2>2. CASE n # 0
    <3>1. n - 1 \in S
      BY <1>11, <2>2
    <3>2. Bit[n] = 2 * Bit[n - 1]
      BY <1>8, <2>2
    <3> QED
      BY <3>1, <3>2
  <2> QED
    BY <2>1, <2>2
<1> HIDE DEF S
<1>12. \A n \in Nat : n \in S
  BY <1>11, StrongInduction
<1> QED
  BY <1>9, <1>10, <1>12 DEF S

\* Spreading treats the last s bits and those before them separately, and of the
\* last ones makes less than a third of what 2s bits can hold.
LEMMA SpreadSplit ==
  \A s, b, r \in Nat :
    r < Bit[s] =>
      /\ spreadInt32ToInt64[b * Bit[s] + r]
           = spreadInt32ToInt64[b] * Bit[2 * s] + spreadInt32ToInt64[r]
      /\ 3 * spreadInt32ToInt64[r] < Bit[2 * s]
<1> DEFINE f(v) == spreadInt32ToInt64[v]
           Splits(s) == \A b, r \in Nat : r < Bit[s] =>
                          /\ f(b * Bit[s] + r) = f(b) * Bit[2 * s] + f(r)
                          /\ 3 * f(r) < Bit[2 * s]
           S == {s \in Nat : Splits(s)}
<1>1. \A v \in Nat : f(v) \in Nat
  BY SpreadEquation
<1>2. \A v \in Nat, c \in {0, 1} : f(2 * v + c) = c + 4 * f(v)
  BY SpreadStep
<1>3. f(0) = 0
  BY SpreadEquation
<1> HIDE DEF f
<1>4. ASSUME NEW s \in Nat, \A k \in 0 .. s - 1 : k \in S
      PROVE  s \in S
  <2> SUFFICES ASSUME NEW b \in Nat, NEW r \in Nat, r < Bit[s]
               PROVE  /\ f(b * Bit[s] + r) = f(b) * Bit[2 * s] + f(r)
                      /\ 3 * f(r) < Bit[2 * s]
    OBVIOUS
  <2>1. CASE s = 0
    <3>1. Bit[s] = 1 /\ Bit[2 * s] = 1
      BY <2>1, BitEquation
    <3>2. r = 0 /\ b * 1 + 0 = b /\ f(b) * 1 + 0 = f(b)
      BY <1>1, <3>1
    <3> QED
      BY <1>3, <3>1, <3>2
  <2>2. CASE s # 0
    <3> DEFINE t == s - 1
               u == r \div 2
               c == r % 2
               B == Bit[t]
               W == Bit[2 * t]
    <3>1. t \in Nat /\ t + 1 = s /\ 2 * t \in Nat /\ (2 * t + 1) + 1 = 2 * s /\ 2 * t + 1 \in Nat
      BY <2>2
    <3>2. Bit[s] = 2 * B /\ Bit[2 * s] = 4 * W /\ B \in Nat /\ W \in Nat
      <4>1. Bit[s] = 2 * B /\ B \in Nat /\ W \in Nat
        BY <3>1, BitEquation
      <4>2. Bit[2 * t + 1] = 2 * W /\ Bit[2 * s] = 2 * Bit[2 * t + 1]
        BY <3>1, BitEquation
      <4> QED
        BY <4>1, <4>2
    <3>3. u \in Nat /\ c \in {0, 1} /\ r = 2 * u + c
      OBVIOUS
    <3>4. Splits(t)
      BY <1>4, <3>1
    <3> HIDE DEF t, u, c, B, W
    <3>5. u < B
      BY <3>2, <3>3
    <3>6. f(b * B + u) = f(b) * W + f(u) /\ 3 * f(u) < W
      BY <3>3, <3>4, <3>5 DEF B, W
    <3>7. b * Bit[s] + r = 2 * (b * B + u) + c /\ b * B + u \in Nat
      <4>1. b * (2 * B) = 2 * (b * B) /\ b * B \in Nat
        BY <3>2
      <4> QED
        BY <3>2, <3>3, <4>1
    <3>8. f(b * Bit[s] + r) = c + 4 * (f(b) * W + f(u))
      BY <1>2, <3>3, <3>6, <3>7
    <3>9. f(r) = c + 4 * f(u) /\ f(u) \in Nat /\ f(b) \in Nat
      BY <1>1, <1>2, <3>3
    <3>10. f(b) * (4 * W) = 4 * (f(b) * W) /\ f(b) * W \in Nat
      BY <3>2, <3>9
    <3> QED
      BY <3>2, <3>3, <3>6, <3>8, <3>9, <3>10
  <2> QED
    BY <2>1, <2>2
<1> HIDE DEF S
<1>5. \A s \in Nat : s \in S
  BY <1>4, StrongInduction
<1> QED
  BY <1>5 DEF S, f

\* The scores of a box of the grid, b its cell of the coarse grid, are those
\* that begin with the bits of b.
LEMMA ScoreInBox ==
  ASSUME NEW s \in Nat, NEW b1 \in Nat, NEW b2 \in Nat,
         NEW r1 \in Nat, NEW r2 \in Nat, r1 < Bit[s], r2 < Bit[s]
  PROVE  LET score == interleave(b1 * Bit[s] + r1, b2 * Bit[s] + r2)
             box == interleave(b1, b2)
         IN  /\ box * Bit[2 * s] <= score
             /\ score <= (box + 1) * Bit[2 * s] - 1
<1> DEFINE f(v) == spreadInt32ToInt64[v]
           W == Bit[2 * s]
<1>1. /\ f(b1 * Bit[s] + r1) = f(b1) * W + f(r1) /\ 3 * f(r1) < W
      /\ f(b2 * Bit[s] + r2) = f(b2) * W + f(r2) /\ 3 * f(r2) < W
  BY SpreadSplit
<1>2. f(b1) \in Nat /\ f(b2) \in Nat /\ f(r1) \in Nat /\ f(r2) \in Nat
  BY SpreadEquation
<1>3. 2 * s \in Nat /\ W \in Nat
  BY BitEquation
<1>4. /\ interleave(b1 * Bit[s] + r1, b2 * Bit[s] + r2)
           = f(b1 * Bit[s] + r1) + 2 * f(b2 * Bit[s] + r2)
      /\ interleave(b1, b2) = f(b1) + 2 * f(b2)
  BY DEF interleave
<1> HIDE DEF f, W
<1> DEFINE P == f(b1) * W
           R == f(b2) * W
<1>5. /\ (f(b1) + 2 * f(b2)) * W = P + 2 * R
      /\ ((f(b1) + 2 * f(b2)) + 1) * W = (P + 2 * R) + W
      /\ P \in Nat /\ R \in Nat
  BY <1>2, <1>3
<1> HIDE DEF P, R
<1>6. interleave(b1 * Bit[s] + r1, b2 * Bit[s] + r2) = (P + f(r1)) + 2 * (R + f(r2))
  BY <1>1, <1>4 DEF P, R
<1>7. /\ P + 2 * R <= (P + f(r1)) + 2 * (R + f(r2))
      /\ (P + f(r1)) + 2 * (R + f(r2)) <= ((P + 2 * R) + W) - 1
  BY <1>1, <1>2, <1>3, <1>5
<1> QED
  BY <1>4, <1>5, <1>6, <1>7 DEF W

\* Division by the size of a box.
LEMMA Division ==
  ASSUME NEW x \in Nat, NEW w \in Nat, w >= 1
  PROVE  /\ x \div w \in Nat /\ x % w \in Nat /\ x % w < w
         /\ x = (x \div w) * w + (x % w)
OBVIOUS

\* A product grows with its factor.
LEMMA Monotone ==
  ASSUME NEW a \in Nat, NEW b \in Nat, NEW w \in Nat, a <= b
  PROVE  a * w <= b * w
<1>1. PICK k \in Nat : b = a + k
  <2>1. b - a \in Nat /\ b = a + (b - a)
    OBVIOUS
  <2> QED
    BY <2>1
<1>2. (a + k) * w = a * w + k * w /\ a * w \in Nat /\ k * w \in Nat
  OBVIOUS
<1> QED
  BY <1>1, <1>2

\* The depth of the boxes is one of the grid.
LEMMA DepthFits ==
  ASSUME NEW center, NEW radius
  PROVE  BoxDepth(center, radius) \in 1 .. GeoBits
<1> DEFINE S == {1} \cup {d \in 2 .. GeoBits : Width(center, d) >= radius /\ Height(d) >= radius}
<1>1. GeoBits \in Nat /\ GeoBits >= 1
  BY GeoGridAssumption
<1>2. S \in SUBSET (0 .. GeoBits) /\ S # {} /\ S \subseteq 1 .. GeoBits
  BY <1>1
<1>3. BoxDepth(center, radius) = CHOOSE x \in S : \A y \in S : x >= y
  BY DEF BoxDepth, Max
<1> HIDE DEF S
<1>4. PICK m \in S : \A i \in S : i <= m
  BY <1>1, <1>2, GreatestNumber
<1>5. \A i \in S : m >= i
  BY <1>2, <1>4
<1>6. BoxDepth(center, radius) \in S
  BY <1>3, <1>4, <1>5
<1> QED
  BY <1>2, <1>6

-----------------------------------------------------------------------------
(* What GEOSEARCH finds.                                                   *)

\* A number lies in one interval of a given length only.
LEMMA OneInterval ==
  ASSUME NEW n \in Nat, NEW w \in Nat, NEW a \in Nat, NEW b \in Nat,
         a * w <= n, n <= (a + 1) * w - 1, b * w <= n, n <= (b + 1) * w - 1
  PROVE  a = b
<1>1. ASSUME NEW x \in Nat, NEW y \in Nat, x < y, y * w <= n, n <= (x + 1) * w - 1
      PROVE  FALSE
  <2>1. (x + 1) * w <= y * w
    BY <1>1, Monotone
  <2>2. (x + 1) * w \in Nat /\ y * w \in Nat
    OBVIOUS
  <2> QED
    BY <1>1, <2>1, <2>2
<1> QED
  BY <1>1

\* The scores of a box are those whose cells lie in it.
LEMMA BoxOfScore ==
  ASSUME NEW s \in Nat, NEW b1 \in Nat, NEW b2 \in Nat, NEW x \in Nat, NEW y \in Nat
  PROVE  (/\ interleave(b1, b2) * Bit[2 * s] <= interleave(x, y)
          /\ interleave(x, y) <= (interleave(b1, b2) + 1) * Bit[2 * s] - 1)
         <=> x \div Bit[s] = b1 /\ y \div Bit[s] = b2
<1> DEFINE w == Bit[s]
           W == Bit[2 * s]
           Holds(a, b) == /\ interleave(a, b) * W <= interleave(x, y)
                          /\ interleave(x, y) <= (interleave(a, b) + 1) * W - 1
<1>1. w \in Nat /\ w >= 1 /\ W \in Nat
  <2>1. 2 * s \in Nat
    OBVIOUS
  <2> QED
    BY <2>1, BitEquation
<1>2. /\ x \div w \in Nat /\ x % w \in Nat /\ x % w < w /\ x = (x \div w) * w + (x % w)
      /\ y \div w \in Nat /\ y % w \in Nat /\ y % w < w /\ y = (y \div w) * w + (y % w)
  <2> HIDE DEF w
  <2> QED
    BY <1>1, Division
<1>3. Holds(x \div w, y \div w)
  <2>1. LET score == interleave((x \div w) * w + (x % w), (y \div w) * w + (y % w))
            box == interleave(x \div w, y \div w)
        IN  /\ box * W <= score
            /\ score <= (box + 1) * W - 1
    BY <1>2, ScoreInBox
  <2> QED
    BY <1>2, <2>1
<1>4. \A a, b \in Nat : interleave(a, b) \in Nat
  BY SpreadEquation DEF interleave
<1>5. ASSUME Holds(b1, b2) PROVE x \div w = b1 /\ y \div w = b2
  <2>1. interleave(b1, b2) = interleave(x \div w, y \div w)
    <3> DEFINE p == interleave(b1, b2)
               q == interleave(x \div w, y \div w)
               n == interleave(x, y)
    <3>1. p \in Nat /\ q \in Nat /\ n \in Nat
      BY <1>2, <1>4
    <3>2. p * W <= n /\ n <= (p + 1) * W - 1 /\ q * W <= n /\ n <= (q + 1) * W - 1
      BY <1>3, <1>5
    <3> HIDE DEF p, q, n, W
    <3>3. p = q
      BY <1>1, <3>1, <3>2, OneInterval
    <3> QED
      BY <3>3 DEF p, q
  <2> DEFINE p == x \div w
             q == y \div w
  <2>2. p \in Nat /\ q \in Nat
    BY <1>2
  <2> HIDE DEF p, q
  <2>3. p = b1
    <3>1. interleave(b1, b2) = interleave(p, q)
      BY <2>1 DEF p, q
    <3> QED
      BY <2>2, <3>1, CompactInterleave
  <2>4. /\ interleave(b1, b2) = spreadInt32ToInt64[b1] + 2 * spreadInt32ToInt64[b2]
        /\ interleave(p, q) = spreadInt32ToInt64[p] + 2 * spreadInt32ToInt64[q]
        /\ interleave(b2, 0) = spreadInt32ToInt64[b2] + 2 * spreadInt32ToInt64[0]
        /\ interleave(q, 0) = spreadInt32ToInt64[q] + 2 * spreadInt32ToInt64[0]
    BY DEF interleave
  <2>5. \A v \in Nat : spreadInt32ToInt64[v] \in Nat
    BY SpreadEquation
  <2>6. spreadInt32ToInt64[b2] = spreadInt32ToInt64[q]
    <3>1. spreadInt32ToInt64[b1] + 2 * spreadInt32ToInt64[b2]
            = spreadInt32ToInt64[b1] + 2 * spreadInt32ToInt64[q]
      BY <2>1, <2>3, <2>4 DEF p, q
    <3>2. /\ spreadInt32ToInt64[b1] \in Nat /\ spreadInt32ToInt64[b2] \in Nat
          /\ spreadInt32ToInt64[q] \in Nat
      BY <2>2, <2>5
    <3> QED
      BY <3>1, <3>2
  <2>7. interleave(b2, 0) = interleave(q, 0)
    BY <2>4, <2>6
  <2>8. q = b2
    BY <2>2, <2>7, CompactInterleave
  <2> QED
    BY <2>3, <2>8 DEF p, q
<1> QED
  BY <1>3, <1>5

\* A range of Get9BoxRanges holds the score of the cell whose latitude is x and
\* whose longitude is y just when the mirror image of the cell is beside the centre.
LEMMA InSomeRange ==
  ASSUME NEW center \in Positions, NEW radius, NEW x \in Nat, NEW y \in Nat
  PROVE  (\E r \in Get9BoxRanges(center, radius) :
            r.min <= interleave(x, y) /\ interleave(x, y) <= r.max)
         <=> Beside(center, [lat |-> y, lon |-> x], radius)
<1> DEFINE depth == BoxDepth(center, radius)
           shift == GeoBits - depth
           w == Bit[shift]
           gridX == center.lon \div w
           gridY == center.lat \div w
           boxes == ((gridX - 1) .. (gridX + 1)) \X ((gridY - 1) .. (gridY + 1))
           grid == 0 .. Bit[depth] - 1
           Box(b) == [min |-> interleave(b[1], b[2]) * Bit[2 * shift],
                        max |-> (interleave(b[1], b[2]) + 1) * Bit[2 * shift] - 1]
<1>1. Get9BoxRanges(center, radius) = {Box(b) : b \in boxes \cap (grid \X grid)}
  BY DEF Get9BoxRanges
<1>2. Beside(center, [lat |-> y, lon |-> x], radius)
        <=> <<x \div w, y \div w>> \in boxes \cap (grid \X grid)
  <2>1. Beside(center, [lat |-> y, lon |-> x], radius)
          <=> /\ y \div w \in gridY - 1 .. gridY + 1 /\ y \div w \in grid
              /\ x \div w \in gridX - 1 .. gridX + 1 /\ x \div w \in grid
    BY DEF Beside
  <2> HIDE DEF w, gridX, gridY, grid
  <2> QED
    BY <2>1
<1>3. shift \in Nat
  BY DepthFits, GeoGridAssumption
<1>4. ASSUME NEW b \in boxes \cap (grid \X grid)
      PROVE  (Box(b).min <= interleave(x, y) /\ interleave(x, y) <= Box(b).max)
             <=> b = <<x \div w, y \div w>>
  <2>1. b[1] \in Nat /\ b[2] \in Nat /\ b = <<b[1], b[2]>>
    <3> HIDE DEF boxes, depth
    <3> QED
      OBVIOUS
  <2>2. (/\ interleave(b[1], b[2]) * Bit[2 * shift] <= interleave(x, y)
         /\ interleave(x, y) <= (interleave(b[1], b[2]) + 1) * Bit[2 * shift] - 1)
        <=> x \div w = b[1] /\ y \div w = b[2]
    <3> HIDE DEF shift
    <3> QED
      BY <1>3, <2>1, BoxOfScore
  <2>3. /\ Box(b).min = interleave(b[1], b[2]) * Bit[2 * shift]
        /\ Box(b).max = (interleave(b[1], b[2]) + 1) * Bit[2 * shift] - 1
    OBVIOUS
  <2> HIDE DEF boxes, grid, w, shift, Box
  <2> QED
    BY <2>1, <2>2, <2>3
<1> HIDE DEF boxes, grid, w, Box
<1> QED
  BY <1>1, <1>2, <1>4

\* The ends of the ranges are numbers.
LEMMA RangesAreNumbers ==
  ASSUME NEW radius, NEW center
  PROVE  \A r \in Get9BoxRanges(center, radius) : r.min \in Int /\ r.max \in Int
<1> DEFINE depth == BoxDepth(center, radius)
           shift == GeoBits - depth
           w == Bit[shift]
           gridX == center.lon \div w
           gridY == center.lat \div w
           boxes == ((gridX - 1) .. (gridX + 1)) \X ((gridY - 1) .. (gridY + 1))
           grid == 0 .. Bit[depth] - 1
<1> SUFFICES ASSUME NEW r \in Get9BoxRanges(center, radius) PROVE r.min \in Int /\ r.max \in Int
  OBVIOUS
<1>1. PICK b \in boxes \cap (grid \X grid) :
        r = [min |-> interleave(b[1], b[2]) * Bit[2 * shift],
             max |-> (interleave(b[1], b[2]) + 1) * Bit[2 * shift] - 1]
  BY DEF Get9BoxRanges
<1>2. b[1] \in Nat /\ b[2] \in Nat
  <2> HIDE DEF boxes, depth
  <2> QED
    OBVIOUS
<1>3. interleave(b[1], b[2]) \in Nat
  <2>1. spreadInt32ToInt64[b[1]] \in Nat /\ spreadInt32ToInt64[b[2]] \in Nat
    BY <1>2, SpreadEquation
  <2> QED
    BY <2>1 DEF interleave
<1>4. 2 * shift \in Nat
  BY DepthFits, GeoGridAssumption
<1>5. Bit[2 * shift] \in Nat
  BY <1>4, BitEquation
<1> HIDE DEF shift
<1>6. /\ interleave(b[1], b[2]) * Bit[2 * shift] \in Int
      /\ (interleave(b[1], b[2]) + 1) * Bit[2 * shift] - 1 \in Int
  BY <1>3, <1>5
<1> QED
  BY <1>1, <1>6

\* sort.Search: the place found is one of those asked for or one past the end,
\* and none is before it.
LEMMA FirstPlaceProperties ==
  ASSUME NEW n \in Nat, NEW places \in SUBSET (1 .. n)
  PROVE  /\ FirstPlace(n, places) \in 1 .. n + 1
         /\ \A i \in places : FirstPlace(n, places) <= i
         /\ FirstPlace(n, places) # n + 1 => FirstPlace(n, places) \in places
         /\ places # {} => FirstPlace(n, places) \in places
<1> DEFINE S == places \cup {n + 1}
<1>1. S \in SUBSET Nat /\ S # {}
  OBVIOUS
<1>2. \E m \in S : \A k \in S : m <= k
  BY <1>1, LeastNumber
<1>3. FirstPlace(n, places) = CHOOSE m \in S : \A k \in S : m <= k
  BY DEF FirstPlace, Min
<1>4. FirstPlace(n, places) \in S /\ \A k \in S : FirstPlace(n, places) <= k
  <2> HIDE DEF S
  <2> QED
    BY <1>2, <1>3
<1>5. FirstPlace(n, places) \in places \/ FirstPlace(n, places) = n + 1
  BY <1>4
<1>6. \A i \in places : FirstPlace(n, places) <= i /\ i \in 1 .. n
  BY <1>4
<1>7. ASSUME FirstPlace(n, places) = n + 1 PROVE places = {}
  BY <1>6, <1>7
<1>8. FirstPlace(n, places) \in 1 .. n + 1
  <2>1. FirstPlace(n, places) \in places => FirstPlace(n, places) \in 1 .. n
    BY <1>6
  <2> QED
    BY <1>5, <2>1
<1> QED
  BY <1>5, <1>6, <1>7, <1>8

Ascending(order) ==
  \A i, j \in 1 .. Len(order) : i <= j => order[i].score <= order[j].score

\* What sort.Search and the loop behind it take for one range.
Taken(order, min, max) ==
  LET startIndex == FirstPlace(Len(order), {i \in DOMAIN order : order[i].score >= min})
  IN  {i \in startIndex .. Len(order) : \A j \in startIndex .. i : order[j].score <= max}

Between(order, min, max) ==
  {i \in 1 .. Len(order) : min <= order[i].score /\ order[i].score <= max}

\* These are the elements whose scores are in the range, no more and no less.
LEMMA TakenFromRange ==
  ASSUME NEW N, NEW order \in Seq([name : N, score : Nat]),
         Ascending(order),
         NEW min \in Int, NEW max \in Int
  PROVE  Taken(order, min, max) = Between(order, min, max)
<1> DEFINE places == {i \in DOMAIN order : order[i].score >= min}
           startIndex == FirstPlace(Len(order), places)
           inRange == {i \in startIndex .. Len(order) :
                         \A j \in startIndex .. i : order[j].score <= max}
           within == {i \in 1 .. Len(order) : min <= order[i].score /\ order[i].score <= max}
<1>1. DOMAIN order = 1 .. Len(order) /\ Len(order) \in Nat
  OBVIOUS
<1>2. \A i \in 1 .. Len(order) : order[i].score \in Nat
  <2> SUFFICES ASSUME NEW i \in 1 .. Len(order) PROVE order[i].score \in Nat
    OBVIOUS
  <2>1. order[i] \in [name : N, score : Nat]
    BY ElementOfSeq
  <2> QED
    BY <2>1
<1>3. /\ startIndex \in 1 .. Len(order) + 1
      /\ \A i \in places : startIndex <= i
      /\ startIndex # Len(order) + 1 => startIndex \in places
  <2>1. places \in SUBSET (1 .. Len(order))
    BY <1>1
  <2> HIDE DEF places
  <2> QED
    BY <1>1, <2>1, FirstPlaceProperties
<1> HIDE DEF startIndex
<1>4. ASSUME NEW i \in inRange PROVE i \in within
  <2>1. i \in 1 .. Len(order) /\ startIndex <= i /\ startIndex \in 1 .. Len(order)
        /\ order[i].score <= max
    BY <1>1, <1>3
  <2>2. order[startIndex].score >= min
    BY <1>1, <1>3, <2>1
  <2>3. order[startIndex].score <= order[i].score
    BY <2>1 DEF Ascending
  <2>4. order[startIndex].score \in Nat /\ order[i].score \in Nat
    BY <1>2, <2>1
  <2>5. min <= order[i].score
    BY <2>2, <2>3, <2>4
  <2> QED
    BY <2>1, <2>5
<1>5. ASSUME NEW i \in within PROVE i \in inRange
  <2>1. i \in 1 .. Len(order) /\ min <= order[i].score /\ order[i].score <= max
    OBVIOUS
  <2>2. i \in places
    BY <1>1, <1>2, <2>1
  <2>3. startIndex <= i
    BY <1>3, <2>2
  <2>4. i \in startIndex .. Len(order)
    BY <1>1, <1>3, <2>1, <2>3
  <2>5. ASSUME NEW j \in startIndex .. i PROVE order[j].score <= max
    <3>1. j \in 1 .. Len(order) /\ j <= i
      BY <1>1, <1>3, <2>1
    <3>2. order[j].score <= order[i].score
      BY <2>1, <3>1 DEF Ascending
    <3>3. order[j].score \in Nat /\ order[i].score \in Nat
      BY <1>2, <2>1, <3>1
    <3> QED
      BY <2>1, <3>2, <3>3
  <2> QED
    BY <2>4, <2>5
<1>6. inRange = within
  <2> HIDE DEF inRange, within
  <2> QED
    BY <1>4, <1>5
<1> QED
  BY <1>6 DEF startIndex, Taken, Between

\* GEOSEARCH finds every member within the radius whose mirror image, latitude
\* and longitude exchanged, lies in the centre's box or in one beside it, and no
\* other: the nine boxes are those of the mirror image, since Get9BoxRanges
\* interleaves the longitude first and Encode the latitude (geocoding.go), and
\* what is beyond them is not looked at, however near it is on the sphere.  For
\* any distance, any size of the boxes and any number of bits.
THEOREM SearchFinds ==
  ASSUME NEW N, NEW order \in Seq([name : N, score : Nat]),
         Ascending(order),
         NEW center \in Positions, NEW radius
  PROVE  \A m : m \in GeoMatches(order, center, radius) <=>
                  \E i \in 1 .. Len(order) :
                    order[i].name = m /\ Findable(center, Decode(order[i].score), radius)
<1> DEFINE Near(j) == Distance(center, Decode(order[j].score)) <= radius
           InRange(r) == Taken(order, r.min, r.max)
           ranges == Get9BoxRanges(center, radius)
           found == {i \in 1 .. Len(order) : Findable(center, Decode(order[i].score), radius)}
<1>1. GeoMatches(order, center, radius)
        = UNION {{order[i].name : i \in {j \in InRange(r) : Near(j)}} : r \in ranges}
  BY DEF GeoMatches, Taken
<1>2. ASSUME NEW r \in ranges
      PROVE  InRange(r) = {i \in 1 .. Len(order) :
                             r.min <= order[i].score /\ order[i].score <= r.max}
  <2>1. r.min \in Int /\ r.max \in Int
    BY RangesAreNumbers
  <2>2. ASSUME NEW min \in Int, NEW max \in Int
        PROVE  Taken(order, min, max) = Between(order, min, max)
    <3> HIDE DEF Near, InRange, ranges, found
    <3> QED
      BY TakenFromRange
  <2> QED
    BY <2>1, <2>2 DEF Between
<1>3. ASSUME NEW i \in 1 .. Len(order)
      PROVE  Findable(center, Decode(order[i].score), radius)
             <=> Near(i) /\ \E r \in ranges : r.min <= order[i].score /\ order[i].score <= r.max
  <2> DEFINE p == Decode(order[i].score)
  <2>1. order[i].score \in Nat
    <3>1. order[i] \in [name : N, score : Nat]
      BY ElementOfSeq
    <3> QED
      BY <3>1
  <2>2. Encode(p) = order[i].score
    BY <2>1, EncodeDecode
  <2>3. p.lat \in Nat /\ p.lon \in Nat
    <3>1. order[i].score \div 2 \in Nat
      BY <2>1
    <3>2. /\ p.lat = compactInt64ToInt32[order[i].score]
          /\ p.lon = compactInt64ToInt32[order[i].score \div 2]
      BY DEF Decode
    <3> QED
      BY <2>1, <3>1, <3>2, CompactEquation
  <2> HIDE DEF p
  <2>4. order[i].score = interleave(p.lat, p.lon)
    BY <2>2 DEF Encode
  <2>5. (\E r \in ranges : r.min <= order[i].score /\ order[i].score <= r.max)
          <=> Beside(center, Mirror(p), radius)
    <3>1. Mirror(p) = [lat |-> p.lon, lon |-> p.lat]
      BY DEF Mirror
    <3>2. (\E r \in ranges : r.min <= interleave(p.lat, p.lon) /\ interleave(p.lat, p.lon) <= r.max)
            <=> Beside(center, [lat |-> p.lon, lon |-> p.lat], radius)
      BY <2>3, InSomeRange
    <3> HIDE DEF ranges
    <3> QED
      BY <2>4, <3>1, <3>2
  <2>6. Findable(center, p, radius)
          <=> Distance(center, p) <= radius /\ Beside(center, Mirror(p), radius)
    BY DEF Findable
  <2>7. Near(i) <=> Distance(center, p) <= radius
    BY DEF p
  <2> HIDE DEF ranges, Near
  <2>8. Findable(center, p, radius)
          <=> Near(i) /\ \E r \in ranges : r.min <= order[i].score /\ order[i].score <= r.max
    BY <2>5, <2>6, <2>7
  <2> QED
    BY <2>8 DEF p
<1> HIDE DEF ranges, InRange, Near
<1>4. GeoMatches(order, center, radius) = {order[i].name : i \in found}
  <2>1. ASSUME NEW m \in GeoMatches(order, center, radius)
        PROVE  m \in {order[i].name : i \in found}
    <3>1. PICK r \in ranges : \E i \in InRange(r) : Near(i) /\ m = order[i].name
      BY <1>1
    <3>2. PICK i \in InRange(r) : Near(i) /\ m = order[i].name
      BY <3>1
    <3>3. i \in 1 .. Len(order) /\ r.min <= order[i].score /\ order[i].score <= r.max
      BY <1>2
    <3> QED
      BY <1>3, <3>2, <3>3
  <2>2. ASSUME NEW i \in found
        PROVE  order[i].name \in GeoMatches(order, center, radius)
    <3>1. PICK r \in ranges : Near(i) /\ r.min <= order[i].score /\ order[i].score <= r.max
      BY <1>3
    <3>2. i \in InRange(r)
      BY <1>2, <3>1
    <3> QED
      BY <1>1, <3>1, <3>2
  <2> HIDE DEF found
  <2> QED
    BY <2>1, <2>2
<1> QED
  BY <1>4
=============================================================================
