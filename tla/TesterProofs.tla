---------------------------- MODULE TesterProofs ----------------------------
(***************************************************************************)
(* Proofs about the tester: what a decoder takes off a connection is the   *)
(* encoding of the value it returns, for values of any depth; what it has  *)
(* decided stays so when more comes; what was encoded it decodes; so       *)
(* whatever pieces a connection is read in, the values taken off it are    *)
(* those written; and the types, which rest on what the scripts are.       *)
(***************************************************************************)
EXTENDS Tester, Induction, SequenceTheorems, FiniteSetTheorems

\* A function over 1 .. n is a sequence of n elements.
LEMMA FunctionIsSeq ==
  ASSUME NEW S, NEW n \in Nat, NEW f \in [1 .. n -> S]
  PROVE  f \in Seq(S) /\ Len(f) = n
<1>1. f \in Seq(S)
  <2>1. Seq(S) = UNION {[1 .. k -> S] : k \in Nat}
    BY SeqDef
  <2> QED
    BY <2>1
<1>2. Len(f) \in Nat /\ DOMAIN f = 1 .. Len(f) /\ DOMAIN f = 1 .. n
  BY <1>1, LenProperties
<1>3. PICK k \in Nat : k = Len(f)
  BY <1>2
<1>4. k = n
  <2>1. (k >= 1 => k \in 1 .. n) /\ (n >= 1 => n \in 1 .. k)
    BY <1>2, <1>3
  <2> QED
    BY <2>1
<1> QED
  BY <1>1, <1>3, <1>4

\* The numbers that an int holds.
LEMMA IntsFacts ==
  /\ MaxInt \in Nat /\ -1 \in Ints
  /\ \A n \in Ints : n \in Int /\ n <= MaxInt
  /\ \A n \in 0 .. MaxInt : n \in Ints /\ n \in Nat
<1>1. MaxInt \in Nat \ {0}
  BY RespAssumption, Zenon
<1> QED
  BY <1>1 DEF Ints

-----------------------------------------------------------------------------
(* The recursive functions are defined: each satisfies its equation.  The  *)
(* argument is the same every time: a function that does so up to m - 1 is *)
(* extended to m.                                                          *)

\* ValuesTo, the values by their depth.
LEMMA ValuesEquation ==
  \A d \in 0 .. MaxDepth : ValuesTo[d] = 
    IF d = 0 THEN {}
    ELSE {v \in [type : Types, text : Seq(Symbols), elems : Seq(ValuesTo[d - 1])] :
            /\ v.type \in {"$", "rdb"} => Len(v.text) <= MaxInt
            /\ v.type = "*" => Len(v.elems) <= MaxInt}
<1> DEFINE Level(S) == {v \in [type : Types, text : Seq(Symbols), elems : Seq(S)] :
                          /\ v.type \in {"$", "rdb"} => Len(v.text) <= MaxInt
                          /\ v.type = "*" => Len(v.elems) <= MaxInt}
           Q(f, m) == f = [d \in 0 .. m |-> IF d = 0 THEN {} ELSE Level(f[d - 1])]
           T == {m \in Nat : \E f : Q(f, m)}
<1>1. ValuesTo = CHOOSE f : Q(f, MaxDepth)
  BY DEF ValuesTo
<1> HIDE DEF Level
<1>2. ASSUME NEW m \in Nat, \A k \in 0 .. m - 1 : k \in T PROVE m \in T
  <2>1. CASE m = 0
    <3> DEFINE f == [d \in 0 .. m |-> {}]
    <3>1. f = [d \in 0 .. m |-> IF d = 0 THEN {} ELSE Level(f[d - 1])]
      BY <2>1
    <3> HIDE DEF f
    <3> QED
      BY <3>1
  <2>2. CASE m # 0
    <3>1. m - 1 \in 0 .. m - 1
      BY <2>2
    <3>2. m - 1 \in T
      BY <1>2, <3>1, Zenon
    <3>3. PICK f : Q(f, m - 1)
      BY <3>2
    <3> DEFINE g == [d \in 0 .. m |-> IF d = m THEN Level(f[m - 1]) ELSE f[d]]
    <3>4. \A d \in 0 .. m - 1 : g[d] = f[d]
      OBVIOUS
    <3>5. \A d \in 0 .. m - 1 : f[d] = IF d = 0 THEN {} ELSE Level(f[d - 1])
      BY <3>3
    <3>6. ASSUME NEW d \in 0 .. m PROVE g[d] = IF d = 0 THEN {} ELSE Level(g[d - 1])
      <4>1. CASE d = m
        BY <2>2, <3>4, <4>1
      <4>2. CASE d # m
        BY <2>2, <3>4, <3>5, <4>2
      <4> QED
        BY <4>1, <4>2
    <3>7. g = [d \in 0 .. m |-> g[d]]
      OBVIOUS
    <3> HIDE DEF g
    <3>8. Q(g, m)
      BY <3>6, <3>7
    <3> QED
      BY <3>8
  <2> QED
    BY <2>1, <2>2
<1>3. MaxDepth \in T
  <2> HIDE DEF T
  <2> QED
    BY <1>2, RespAssumption, StrongInduction
<1>4. Q(CHOOSE f : Q(f, MaxDepth), MaxDepth)
  <2>1. \E f : Q(f, MaxDepth)
    BY <1>3
  <2> HIDE DEF Q
  <2> QED
    BY <2>1
<1>5. \A d \in 0 .. MaxDepth : ValuesTo[d] = IF d = 0 THEN {} ELSE Level(ValuesTo[d - 1])
  BY <1>1, <1>4, Zenon
<1> QED
  BY <1>5 DEF Level

\* WrittenTo, the encodings by the values' depth.
LEMMA WritingEquation ==
  \A d \in 0 .. MaxDepth : WrittenTo[d] = 
    IF d = 0 THEN <<>>
    ELSE [v \in ValuesTo[d] |->
            WrittenOf(v, [i \in DOMAIN v.elems |-> WrittenTo[d - 1][v.elems[i]]])]
<1> DEFINE Level(d, F) == [v \in ValuesTo[d] |-> WrittenOf(v, [i \in DOMAIN v.elems |-> F[v.elems[i]]])]
           Q(f, m) == f = [d \in 0 .. m |-> IF d = 0 THEN <<>> ELSE Level(d, f[d - 1])]
           T == {m \in Nat : \E f : Q(f, m)}
<1>1. WrittenTo = CHOOSE f : Q(f, MaxDepth)
  BY DEF WrittenTo
<1> HIDE DEF Level
<1>2. ASSUME NEW m \in Nat, \A k \in 0 .. m - 1 : k \in T PROVE m \in T
  <2>1. CASE m = 0
    <3> DEFINE f == [d \in 0 .. m |-> <<>>]
    <3>1. f = [d \in 0 .. m |-> IF d = 0 THEN <<>> ELSE Level(d, f[d - 1])]
      BY <2>1
    <3> HIDE DEF f
    <3> QED
      BY <3>1
  <2>2. CASE m # 0
    <3>1. m - 1 \in 0 .. m - 1
      BY <2>2
    <3>2. m - 1 \in T
      BY <1>2, <3>1, Zenon
    <3>3. PICK f : Q(f, m - 1)
      BY <3>2
    <3> DEFINE g == [d \in 0 .. m |-> IF d = m THEN Level(m, f[m - 1]) ELSE f[d]]
    <3>4. \A d \in 0 .. m - 1 : g[d] = f[d]
      OBVIOUS
    <3>5. \A d \in 0 .. m - 1 : f[d] = IF d = 0 THEN <<>> ELSE Level(d, f[d - 1])
      BY <3>3
    <3>6. ASSUME NEW d \in 0 .. m PROVE g[d] = IF d = 0 THEN <<>> ELSE Level(d, g[d - 1])
      <4>1. CASE d = m
        BY <2>2, <3>4, <4>1
      <4>2. CASE d # m
        BY <2>2, <3>4, <3>5, <4>2
      <4> QED
        BY <4>1, <4>2
    <3>7. g = [d \in 0 .. m |-> g[d]]
      OBVIOUS
    <3> HIDE DEF g
    <3>8. Q(g, m)
      BY <3>6, <3>7
    <3> QED
      BY <3>8
  <2> QED
    BY <2>1, <2>2
<1>3. MaxDepth \in T
  <2> HIDE DEF T
  <2> QED
    BY <1>2, RespAssumption, StrongInduction
<1>4. Q(CHOOSE f : Q(f, MaxDepth), MaxDepth)
  <2>1. \E f : Q(f, MaxDepth)
    BY <1>3
  <2> HIDE DEF Q
  <2> QED
    BY <2>1
<1>5. \A d \in 0 .. MaxDepth : WrittenTo[d] = IF d = 0 THEN <<>> ELSE Level(d, WrittenTo[d - 1])
  BY <1>1, <1>4, Zenon
<1> QED
  BY <1>5 DEF Level

\* FormTo, the forms by the values' depth.
LEMMA FormingEquation ==
  \A d \in 0 .. MaxDepth : FormTo[d] = 
    IF d = 0 THEN <<>>
    ELSE [v \in ValuesTo[d] |->
            FormOf(v, [i \in DOMAIN v.elems |-> FormTo[d - 1][v.elems[i]]])]
<1> DEFINE Level(d, F) == [v \in ValuesTo[d] |-> FormOf(v, [i \in DOMAIN v.elems |-> F[v.elems[i]]])]
           Q(f, m) == f = [d \in 0 .. m |-> IF d = 0 THEN <<>> ELSE Level(d, f[d - 1])]
           T == {m \in Nat : \E f : Q(f, m)}
<1>1. FormTo = CHOOSE f : Q(f, MaxDepth)
  BY DEF FormTo
<1> HIDE DEF Level
<1>2. ASSUME NEW m \in Nat, \A k \in 0 .. m - 1 : k \in T PROVE m \in T
  <2>1. CASE m = 0
    <3> DEFINE f == [d \in 0 .. m |-> <<>>]
    <3>1. f = [d \in 0 .. m |-> IF d = 0 THEN <<>> ELSE Level(d, f[d - 1])]
      BY <2>1
    <3> HIDE DEF f
    <3> QED
      BY <3>1
  <2>2. CASE m # 0
    <3>1. m - 1 \in 0 .. m - 1
      BY <2>2
    <3>2. m - 1 \in T
      BY <1>2, <3>1, Zenon
    <3>3. PICK f : Q(f, m - 1)
      BY <3>2
    <3> DEFINE g == [d \in 0 .. m |-> IF d = m THEN Level(m, f[m - 1]) ELSE f[d]]
    <3>4. \A d \in 0 .. m - 1 : g[d] = f[d]
      OBVIOUS
    <3>5. \A d \in 0 .. m - 1 : f[d] = IF d = 0 THEN <<>> ELSE Level(d, f[d - 1])
      BY <3>3
    <3>6. ASSUME NEW d \in 0 .. m PROVE g[d] = IF d = 0 THEN <<>> ELSE Level(d, g[d - 1])
      <4>1. CASE d = m
        BY <2>2, <3>4, <4>1
      <4>2. CASE d # m
        BY <2>2, <3>4, <3>5, <4>2
      <4> QED
        BY <4>1, <4>2
    <3>7. g = [d \in 0 .. m |-> g[d]]
      OBVIOUS
    <3> HIDE DEF g
    <3>8. Q(g, m)
      BY <3>6, <3>7
    <3> QED
      BY <3>8
  <2> QED
    BY <2>1, <2>2
<1>3. MaxDepth \in T
  <2> HIDE DEF T
  <2> QED
    BY <1>2, RespAssumption, StrongInduction
<1>4. Q(CHOOSE f : Q(f, MaxDepth), MaxDepth)
  <2>1. \E f : Q(f, MaxDepth)
    BY <1>3
  <2> HIDE DEF Q
  <2> QED
    BY <2>1
<1>5. \A d \in 0 .. MaxDepth : FormTo[d] = IF d = 0 THEN <<>> ELSE Level(d, FormTo[d - 1])
  BY <1>1, <1>4, Zenon
<1> QED
  BY <1>5 DEF Level

\* Decoders, the decoders by the depth they go down to.
LEMMA DecodersEquation ==
  ASSUME NEW s
  PROVE  \A d \in 0 .. MaxDepth : Decoders(s)[d] = 
    IF d = 0 THEN [i \in 1 .. Len(s) + 1 |-> Invalid]
    ELSE [i \in 1 .. Len(s) + 1 |-> DecodeAt(s, i, Decoders(s)[d - 1])]
<1> DEFINE Level(F) == [i \in 1 .. Len(s) + 1 |-> DecodeAt(s, i, F)]
           Q(f, m) == f = [d \in 0 .. m |-> IF d = 0 THEN [i \in 1 .. Len(s) + 1 |-> Invalid] ELSE Level(f[d - 1])]
           T == {m \in Nat : \E f : Q(f, m)}
<1>1. Decoders(s) = CHOOSE f : Q(f, MaxDepth)
  BY DEF Decoders
<1> HIDE DEF Level
<1>2. ASSUME NEW m \in Nat, \A k \in 0 .. m - 1 : k \in T PROVE m \in T
  <2>1. CASE m = 0
    <3> DEFINE f == [d \in 0 .. m |-> [i \in 1 .. Len(s) + 1 |-> Invalid]]
    <3>1. f = [d \in 0 .. m |-> IF d = 0 THEN [i \in 1 .. Len(s) + 1 |-> Invalid] ELSE Level(f[d - 1])]
      BY <2>1
    <3> HIDE DEF f
    <3> QED
      BY <3>1
  <2>2. CASE m # 0
    <3>1. m - 1 \in 0 .. m - 1
      BY <2>2
    <3>2. m - 1 \in T
      BY <1>2, <3>1, Zenon
    <3>3. PICK f : Q(f, m - 1)
      BY <3>2
    <3> DEFINE g == [d \in 0 .. m |-> IF d = m THEN Level(f[m - 1]) ELSE f[d]]
    <3>4. \A d \in 0 .. m - 1 : g[d] = f[d]
      OBVIOUS
    <3>5. \A d \in 0 .. m - 1 : f[d] = IF d = 0 THEN [i \in 1 .. Len(s) + 1 |-> Invalid] ELSE Level(f[d - 1])
      BY <3>3
    <3>6. ASSUME NEW d \in 0 .. m PROVE g[d] = IF d = 0 THEN [i \in 1 .. Len(s) + 1 |-> Invalid] ELSE Level(g[d - 1])
      <4>1. CASE d = m
        BY <2>2, <3>4, <4>1
      <4>2. CASE d # m
        BY <2>2, <3>4, <3>5, <4>2
      <4> QED
        BY <4>1, <4>2
    <3>7. g = [d \in 0 .. m |-> g[d]]
      OBVIOUS
    <3> HIDE DEF g
    <3>8. Q(g, m)
      BY <3>6, <3>7
    <3> QED
      BY <3>8
  <2> QED
    BY <2>1, <2>2
<1>3. MaxDepth \in T
  <2> HIDE DEF T
  <2> QED
    BY <1>2, RespAssumption, StrongInduction
<1>4. Q(CHOOSE f : Q(f, MaxDepth), MaxDepth)
  <2>1. \E f : Q(f, MaxDepth)
    BY <1>3
  <2> HIDE DEF Q
  <2> QED
    BY <2>1
<1>5. \A d \in 0 .. MaxDepth : Decoders(s)[d] = IF d = 0 THEN [i \in 1 .. Len(s) + 1 |-> Invalid] ELSE Level(Decoders(s)[d - 1])
  BY <1>1, <1>4, Zenon
<1> QED
  BY <1>5 DEF Level

\* ElementsRead, the loop of decodeArray after each of its rounds.
LEMMA ElementsEquation ==
  ASSUME NEW start, NEW length \in Nat, NEW read
  PROVE  \A n \in 0 .. length : ElementsRead(start, length, read)[n] = 
    IF n = 0 THEN Decoded(Array(<<>>), start)
    ELSE ReadElement(ElementsRead(start, length, read)[n - 1], read)
<1> DEFINE Level(F) == CHOOSE x \in {ReadElement(r, read) : r \in {F}} : TRUE
           Q(f, m) == f = [n \in 0 .. m |-> IF n = 0 THEN Decoded(Array(<<>>), start) ELSE Level(f[n - 1])]
           T == {m \in Nat : \E f : Q(f, m)}
<1>1. ElementsRead(start, length, read) = CHOOSE f : Q(f, length)
  BY DEF ElementsRead
<1> HIDE DEF Level
<1>2. ASSUME NEW m \in Nat, \A k \in 0 .. m - 1 : k \in T PROVE m \in T
  <2>1. CASE m = 0
    <3> DEFINE f == [n \in 0 .. m |-> Decoded(Array(<<>>), start)]
    <3>1. f = [n \in 0 .. m |-> IF n = 0 THEN Decoded(Array(<<>>), start) ELSE Level(f[n - 1])]
      BY <2>1
    <3> HIDE DEF f
    <3> QED
      BY <3>1
  <2>2. CASE m # 0
    <3>1. m - 1 \in 0 .. m - 1
      BY <2>2
    <3>2. m - 1 \in T
      BY <1>2, <3>1, Zenon
    <3>3. PICK f : Q(f, m - 1)
      BY <3>2
    <3> DEFINE g == [n \in 0 .. m |-> IF n = m THEN Level(f[m - 1]) ELSE f[n]]
    <3>4. \A n \in 0 .. m - 1 : g[n] = f[n]
      OBVIOUS
    <3>5. \A n \in 0 .. m - 1 : f[n] = IF n = 0 THEN Decoded(Array(<<>>), start) ELSE Level(f[n - 1])
      BY <3>3
    <3>6. ASSUME NEW n \in 0 .. m PROVE g[n] = IF n = 0 THEN Decoded(Array(<<>>), start) ELSE Level(g[n - 1])
      <4>1. CASE n = m
        BY <2>2, <3>4, <4>1
      <4>2. CASE n # m
        BY <2>2, <3>4, <3>5, <4>2
      <4> QED
        BY <4>1, <4>2
    <3>7. g = [n \in 0 .. m |-> g[n]]
      OBVIOUS
    <3> HIDE DEF g
    <3>8. Q(g, m)
      BY <3>6, <3>7
    <3> QED
      BY <3>8
  <2> QED
    BY <2>1, <2>2
<1>3. length \in T
  <2> HIDE DEF T
  <2> QED
    BY <1>2, length \in Nat, StrongInduction
<1>4. Q(CHOOSE f : Q(f, length), length)
  <2>1. \E f : Q(f, length)
    BY <1>3
  <2> HIDE DEF Q
  <2> QED
    BY <2>1
<1>5. \A n \in 0 .. length : ElementsRead(start, length, read)[n] = IF n = 0 THEN Decoded(Array(<<>>), start) ELSE Level(ElementsRead(start, length, read)[n - 1])
  BY <1>1, <1>4, Zenon
<1> QED
  BY <1>5 DEF Level

\* FlattenSeq's function: what the first i sequences are together.
Flattened(seqs) ==
  LET flatten[i \in 1 .. Len(seqs)] ==
        IF i = 1 THEN seqs[i] ELSE flatten[i - 1] \o seqs[i]
  IN  flatten

\* It satisfies its equation.
LEMMA FlattenedEquation ==
  ASSUME NEW seqs, NEW N \in Nat, N = Len(seqs)
  PROVE  \A i \in 1 .. N :
    Flattened(seqs)[i] = IF i = 1 THEN seqs[i] ELSE Flattened(seqs)[i - 1] \o seqs[i]
<1> DEFINE Body(f, i) == IF i = 1 THEN seqs[i] ELSE f[i - 1] \o seqs[i]
           Q(f, m) == f = [i \in 1 .. m |-> Body(f, i)]
           T == {m \in Nat : \E f : Q(f, m)}
<1>1. Flattened(seqs) = CHOOSE f : Q(f, N)
  BY DEF Flattened
<1>2. ASSUME NEW m \in Nat, \A k \in 0 .. m - 1 : k \in T PROVE m \in T
  <2>1. CASE m = 0
    <3> DEFINE f == [i \in 1 .. m |-> <<>>]
    <3>1. f = [i \in 1 .. m |-> Body(f, i)]
      BY <2>1
    <3> HIDE DEF f
    <3> QED
      BY <3>1
  <2>2. CASE m # 0
    <3>1. m - 1 \in 0 .. m - 1
      BY <2>2
    <3>2. m - 1 \in T
      BY <1>2, <3>1, Zenon
    <3>3. PICK f : Q(f, m - 1)
      BY <3>2
    <3> DEFINE g == [i \in 1 .. m |-> IF i = m THEN Body(f, m) ELSE f[i]]
    <3>4. \A i \in 1 .. m - 1 : g[i] = f[i]
      OBVIOUS
    <3>5. \A i \in 1 .. m - 1 : f[i] = Body(f, i)
      BY <3>3
    <3>6. ASSUME NEW i \in 1 .. m PROVE g[i] = Body(g, i)
      <4>0. i # 1 => i - 1 \in 1 .. m - 1
        OBVIOUS
      <4>1. CASE i = m
        <5>1. g[i] = Body(f, i)
          BY <4>1
        <5> QED
          BY <3>4, <4>0, <5>1
      <4>2. CASE i # m
        <5>1. g[i] = f[i] /\ f[i] = Body(f, i)
          BY <3>5, <4>2
        <5> QED
          BY <3>4, <4>0, <5>1
      <4> QED
        BY <4>1, <4>2
    <3>7. g = [i \in 1 .. m |-> g[i]]
      OBVIOUS
    <3> HIDE DEF g
    <3>8. Q(g, m)
      BY <3>6, <3>7
    <3> QED
      BY <3>8
  <2> QED
    BY <2>1, <2>2
<1>3. N \in T
  <2> HIDE DEF T
  <2> QED
    BY <1>2, StrongInduction
<1>4. Q(CHOOSE f : Q(f, N), N)
  <2>1. \E f : Q(f, N)
    BY <1>3
  <2> HIDE DEF Q
  <2> QED
    BY <2>1
<1> QED
  BY <1>1, <1>4, Zenon

\* So FlattenSeq appends what is appended, and its elements are those of its parts.
LEMMA FlattenType ==
  ASSUME NEW S, NEW seqs \in Seq(Seq(S))
  PROVE  FlattenSeq(seqs) \in Seq(S)
<1>1. PICK N \in Nat : N = Len(seqs)
  BY LenProperties
<1>2. \A i \in 1 .. N : seqs[i] \in Seq(S)
  BY <1>1, ElementOfSeq
<1>3. CASE N = 0
  <2>1. seqs = <<>>
    BY <1>1, <1>3, EmptySeq
  <2>2. <<>> \in Seq(S) /\ Len(<<>>) = 0
    BY EmptySeq
  <2> QED
    BY <2>1, <2>2 DEF FlattenSeq
<1>4. CASE N # 0
  <2>1. FlattenSeq(seqs) = Flattened(seqs)[N]
    BY <1>1, <1>4 DEF FlattenSeq, Flattened
  <2> DEFINE T == {m \in Nat : m \in 1 .. N => Flattened(seqs)[m] \in Seq(S)}
  <2>2. ASSUME NEW m \in Nat, \A k \in 0 .. m - 1 : k \in T PROVE m \in T
    <3>1. SUFFICES ASSUME m \in 1 .. N PROVE Flattened(seqs)[m] \in Seq(S)
      OBVIOUS
    <3>2. Flattened(seqs)[m] = IF m = 1 THEN seqs[m] ELSE Flattened(seqs)[m - 1] \o seqs[m]
      BY <1>1, <3>1, FlattenedEquation
    <3>3. m # 1 => m - 1 \in T /\ m - 1 \in 1 .. N
      BY <2>2, <3>1
    <3>4. CASE m = 1
      BY <1>2, <3>1, <3>2, <3>4
    <3>5. CASE m # 1
      <4>1. Flattened(seqs)[m - 1] \in Seq(S) /\ seqs[m] \in Seq(S)
        BY <1>2, <3>1, <3>3, <3>5
      <4>2. Flattened(seqs)[m - 1] \o seqs[m] \in Seq(S)
        BY <4>1, ConcatProperties
      <4> QED
        BY <3>2, <3>5, <4>2
    <3> QED
      BY <3>4, <3>5
  <2>3. N \in T
    <3> HIDE DEF T
    <3> QED
      BY <2>2, StrongInduction
  <2> QED
    BY <1>4, <2>1, <2>3
<1> QED
  BY <1>3, <1>4

\* What is appended comes last.
LEMMA FlattenAppend ==
  ASSUME NEW S, NEW seqs \in Seq(Seq(S)), NEW part \in Seq(S)
  PROVE  FlattenSeq(Append(seqs, part)) = FlattenSeq(seqs) \o part
<1>1. PICK N \in Nat : N = Len(seqs)
  BY LenProperties
<1>2. PICK more : more = Append(seqs, part)
  OBVIOUS
<1>3. /\ Append(seqs, part) \in Seq(Seq(S)) /\ Len(Append(seqs, part)) = N + 1
      /\ \A i \in 1 .. N : Append(seqs, part)[i] = seqs[i]
      /\ Append(seqs, part)[N + 1] = part
  BY <1>1, AppendProperties
<1>4. /\ more \in Seq(Seq(S)) /\ Len(more) = N + 1
      /\ \A i \in 1 .. N : more[i] = seqs[i]
      /\ more[N + 1] = part
  BY <1>2, <1>3
<1>5. FlattenSeq(more) = Flattened(more)[N + 1]
  BY <1>4 DEF FlattenSeq, Flattened
<1>6. \A i \in 1 .. N + 1 :
        Flattened(more)[i] = IF i = 1 THEN more[i] ELSE Flattened(more)[i - 1] \o more[i]
  <2>1. N + 1 \in Nat
    OBVIOUS
  <2> QED
    BY <1>4, <2>1, FlattenedEquation
<1>7. \A i \in 1 .. N :
        Flattened(seqs)[i] = IF i = 1 THEN seqs[i] ELSE Flattened(seqs)[i - 1] \o seqs[i]
  BY <1>1, FlattenedEquation
<1>8. CASE N = 0
  <2>1. seqs = <<>>
    BY <1>1, <1>8, EmptySeq
  <2>2. Len(<<>>) = 0
    BY EmptySeq
  <2>3. FlattenSeq(seqs) = <<>>
    BY <2>1, <2>2 DEF FlattenSeq
  <2>4. Flattened(more)[N + 1] = more[N + 1]
    BY <1>6, <1>8
  <2>5. <<>> \o part = part
    BY ConcatEmptySeq
  <2> QED
    BY <1>2, <1>4, <1>5, <2>3, <2>4, <2>5
<1>9. CASE N # 0
  <2>1. FlattenSeq(seqs) = Flattened(seqs)[N]
    BY <1>1, <1>9 DEF FlattenSeq, Flattened
  <2> DEFINE T == {m \in Nat : m \in 1 .. N => Flattened(more)[m] = Flattened(seqs)[m]}
  <2>2. ASSUME NEW m \in Nat, \A k \in 0 .. m - 1 : k \in T PROVE m \in T
    <3>1. SUFFICES ASSUME m \in 1 .. N PROVE Flattened(more)[m] = Flattened(seqs)[m]
      OBVIOUS
    <3>2. Flattened(more)[m] = IF m = 1 THEN more[m] ELSE Flattened(more)[m - 1] \o more[m]
      BY <1>6, <3>1
    <3>3. Flattened(seqs)[m] = IF m = 1 THEN seqs[m] ELSE Flattened(seqs)[m - 1] \o seqs[m]
      BY <1>7, <3>1
    <3>4. m # 1 => m - 1 \in T /\ m - 1 \in 1 .. N
      BY <2>2, <3>1
    <3> QED
      BY <1>4, <3>1, <3>2, <3>3, <3>4
  <2>3. N \in T
    <3> HIDE DEF T
    <3> QED
      BY <2>2, StrongInduction
  <2>4. Flattened(more)[N] = Flattened(seqs)[N]
    BY <1>9, <2>3
  <2>5. N + 1 \in 1 .. N + 1 /\ N + 1 # 1 /\ (N + 1) - 1 = N
    BY <1>9
  <2>6. Flattened(more)[N + 1] = Flattened(more)[N] \o more[N + 1]
    BY <1>6, <2>5
  <2> QED
    BY <1>2, <1>4, <1>5, <2>1, <2>4, <2>6
<1> QED
  BY <1>8, <1>9

\* A value of depth d has elements of depth d - 1, and lengths that are numerals.
LEMMA ValueFacts ==
  ASSUME NEW d \in 1 .. MaxDepth
  PROVE  /\ d - 1 \in 0 .. MaxDepth /\ d \in 0 .. MaxDepth
         /\ ValuesTo[d] = {v \in [type : Types, text : Seq(Symbols), elems : Seq(ValuesTo[d - 1])] :
                             /\ v.type \in {"$", "rdb"} => Len(v.text) <= MaxInt
                             /\ v.type = "*" => Len(v.elems) <= MaxInt}
<1>1. d - 1 \in 0 .. MaxDepth /\ d \in 0 .. MaxDepth /\ d # 0
  BY RespAssumption
<1> QED
  BY <1>1, ValuesEquation

\* No value is of depth 0.
LEMMA NoValues == ValuesTo[0] = {}
<1>1. 0 \in 0 .. MaxDepth
  BY RespAssumption
<1> QED
  BY <1>1, ValuesEquation

\* What the encoder writes of its own.
LEMMA SymbolFacts ==
  /\ "+" \in Symbols /\ "-" \in Symbols /\ ":" \in Symbols /\ "$" \in Symbols /\ "*" \in Symbols
  /\ "CR" \in Symbols /\ "LF" \in Symbols
  /\ \A n \in Ints : ToString(n) \in Symbols
  /\ CRLF \in Seq(Symbols) /\ Len(CRLF) = 2 /\ CRLF[1] = "CR" /\ CRLF[2] = "LF"
<1>1. /\ "+" \in Symbols /\ "-" \in Symbols /\ ":" \in Symbols /\ "$" \in Symbols /\ "*" \in Symbols
      /\ "CR" \in Symbols /\ "LF" \in Symbols
  BY RespAssumption
<1>2. \A n \in Ints : ToString(n) \in Numerals
  BY Zenon DEF Numerals
<1>3. \A n \in Ints : ToString(n) \in Symbols
  BY <1>2, RespAssumption, Zenon
<1>4. CRLF \in Seq(Symbols) /\ Len(CRLF) = 2 /\ CRLF[1] = "CR" /\ CRLF[2] = "LF"
  BY <1>1 DEF CRLF
<1> QED
  BY <1>1, <1>3, <1>4

\* Three parts of an encoding, one after the other.
LEMMA Concat3 ==
  ASSUME NEW S, NEW a \in Seq(S), NEW b \in Seq(S), NEW c \in Seq(S)
  PROVE  a \o b \o c \in Seq(S)
<1>1. a \o b \in Seq(S)
  BY ConcatProperties
<1> QED
  BY <1>1, ConcatProperties

\* A mark and a numeral.
LEMMA HeadType ==
  ASSUME NEW mark \in {"$", "*"}, NEW n \in Ints
  PROVE  <<mark, ToString(n)>> \in Seq(Symbols)
<1>1. mark \in Symbols
  BY SymbolFacts
<1>2. ToString(n) \in Symbols
  BY SymbolFacts
<1>3. PICK k : k = ToString(n)
  OBVIOUS
<1>4. <<mark, k>> \in Seq(Symbols)
  BY <1>1, <1>2, <1>3
<1> QED
  BY <1>3, <1>4

\* The encoding of a value is a sequence of symbols if those of its elements are.
LEMMA WrittenOfType ==
  ASSUME NEW S, NEW v \in [type : Types, text : Seq(Symbols), elems : Seq(S)],
         v.type \in {"$", "rdb"} => Len(v.text) <= MaxInt,
         v.type = "*" => Len(v.elems) <= MaxInt,
         NEW elements \in Seq(Seq(Symbols))
  PROVE  WrittenOf(v, elements) \in Seq(Symbols)
<1>0. v.type \in Types /\ v.text \in Seq(Symbols) /\ v.elems \in Seq(S)
  OBVIOUS
<1>1. Len(v.text) \in Nat /\ Len(v.elems) \in Nat
  BY <1>0, LenProperties
<1>2. CRLF \in Seq(Symbols)
  BY SymbolFacts
<1>3. FlattenSeq(elements) \in Seq(Symbols)
  BY FlattenType
<1>4. CASE v.type \in {"+", "-", ":"}
  <2>1. <<v.type>> \in Seq(Symbols)
    <3>1. v.type \in Symbols
      BY <1>4, SymbolFacts
    <3> QED
      BY <3>1
  <2>2. WrittenOf(v, elements) = <<v.type>> \o v.text \o CRLF
    BY <1>4 DEF WrittenOf, Encoded
  <2>3. <<v.type>> \o v.text \o CRLF \in Seq(Symbols)
    BY <1>0, <1>2, <2>1, Concat3
  <2> QED
    BY <2>2, <2>3
<1>5. CASE v.type \in {"$", "rdb"}
  <2>1. Len(v.text) \in Ints
    <3>1. PICK n \in Nat : n = Len(v.text)
      BY <1>1
    <3>2. n <= MaxInt
      BY <1>5, <3>1
    <3>3. n \in Ints
      BY <3>2, IntsFacts
    <3> QED
      BY <3>1, <3>3
  <2>2. <<"$", ToString(Len(v.text))>> \in Seq(Symbols)
    BY <2>1, HeadType
  <2>3. <<"$", ToString(Len(v.text))>> \o CRLF \o v.text \in Seq(Symbols)
    BY <1>0, <1>2, <2>2, Concat3
  <2>4. (<<"$", ToString(Len(v.text))>> \o CRLF \o v.text) \o CRLF \in Seq(Symbols)
    BY <1>2, <2>3, ConcatProperties
  <2>5. CASE v.type = "$"
    <3>1. WrittenOf(v, elements) = <<"$", ToString(Len(v.text))>> \o CRLF \o v.text \o CRLF
      BY <2>5 DEF WrittenOf, Encoded
    <3> QED
      BY <2>4, <3>1
  <2>6. CASE v.type = "rdb"
    <3>1. WrittenOf(v, elements) = <<"$", ToString(Len(v.text))>> \o CRLF \o v.text
      BY <2>6 DEF WrittenOf, Encoded
    <3> QED
      BY <2>3, <3>1
  <2> QED
    BY <1>5, <2>5, <2>6
<1>6. CASE v.type = "*"
  <2>1. Len(v.elems) \in Ints
    <3>1. PICK n \in Nat : n = Len(v.elems)
      BY <1>1
    <3>2. n <= MaxInt
      BY <1>6, <3>1
    <3>3. n \in Ints
      BY <3>2, IntsFacts
    <3> QED
      BY <3>1, <3>3
  <2>2. <<"*", ToString(Len(v.elems))>> \in Seq(Symbols)
    BY <2>1, HeadType
  <2>3. <<"*", ToString(Len(v.elems))>> \o CRLF \o FlattenSeq(elements) \in Seq(Symbols)
    BY <1>2, <1>3, <2>2, Concat3
  <2>4. WrittenOf(v, elements) = <<"*", ToString(Len(v.elems))>> \o CRLF \o FlattenSeq(elements)
    BY <1>6 DEF WrittenOf, Encoded
  <2> QED
    BY <2>3, <2>4
<1>7. CASE v.type \in {"nil", "nilarray"}
  <2>1. -1 \in Ints
    BY IntsFacts
  <2>2. <<"$", ToString(-1)>> \in Seq(Symbols) /\ <<"*", ToString(-1)>> \in Seq(Symbols)
    BY <2>1, HeadType
  <2>3. /\ <<"$", ToString(-1)>> \o CRLF \in Seq(Symbols)
        /\ <<"*", ToString(-1)>> \o CRLF \in Seq(Symbols)
    BY <1>2, <2>2, ConcatProperties
  <2>4. CASE v.type = "nil"
    <3>1. WrittenOf(v, elements) = <<"$", ToString(-1)>> \o CRLF
      BY <2>4 DEF WrittenOf, Encoded
    <3> QED
      BY <2>3, <3>1
  <2>5. CASE v.type = "nilarray"
    <3>1. WrittenOf(v, elements) = <<"*", ToString(-1)>> \o CRLF
      BY <2>5 DEF WrittenOf, Encoded
    <3> QED
      BY <2>3, <3>1
  <2> QED
    BY <1>7, <2>4, <2>5
<1> QED
  BY <1>0, <1>4, <1>5, <1>6, <1>7 DEF Types

\* The encodings, or the forms, of a sequence's elements.
LEMMA ElementsType ==
  ASSUME NEW S, NEW A, NEW F, \A w \in S : F[w] \in Seq(A), NEW elems \in Seq(S)
  PROVE  /\ [i \in DOMAIN elems |-> F[elems[i]]] \in Seq(Seq(A))
         /\ Len([i \in DOMAIN elems |-> F[elems[i]]]) = Len(elems)
<1>1. PICK n \in Nat : n = Len(elems)
  BY LenProperties
<1>2. DOMAIN elems = 1 .. n /\ \A i \in 1 .. n : elems[i] \in S
  BY <1>1, LenProperties, ElementOfSeq
<1> DEFINE f == [i \in 1 .. n |-> F[elems[i]]]
<1>3. f \in [1 .. n -> Seq(A)]
  BY <1>2
<1>4. [i \in DOMAIN elems |-> F[elems[i]]] = f
  BY <1>2
<1> HIDE DEF f
<1>5. f \in Seq(Seq(A)) /\ Len(f) = n
  BY <1>3, FunctionIsSeq
<1> QED
  BY <1>1, <1>4, <1>5

\* Whatever is encoded is a sequence of symbols.
LEMMA WritingType ==
  \A d \in 0 .. MaxDepth : \A v \in ValuesTo[d] : WrittenTo[d][v] \in Seq(Symbols)
<1> DEFINE T == {d \in Nat : d \in 0 .. MaxDepth =>
                               \A v \in ValuesTo[d] : WrittenTo[d][v] \in Seq(Symbols)}
<1>1. ASSUME NEW d \in Nat, \A k \in 0 .. d - 1 : k \in T PROVE d \in T
  <2>1. SUFFICES ASSUME d \in 0 .. MaxDepth, NEW v \in ValuesTo[d]
                 PROVE  WrittenTo[d][v] \in Seq(Symbols)
    OBVIOUS
  <2>2. d # 0
    BY NoValues
  <2>3. d \in 1 .. MaxDepth
    BY <2>1, <2>2
  <2>4. /\ d - 1 \in 0 .. MaxDepth
        /\ v \in [type : Types, text : Seq(Symbols), elems : Seq(ValuesTo[d - 1])]
        /\ v.type \in {"$", "rdb"} => Len(v.text) <= MaxInt
        /\ v.type = "*" => Len(v.elems) <= MaxInt
    BY <2>1, <2>3, ValueFacts
  <2>5. \A w \in ValuesTo[d - 1] : WrittenTo[d - 1][w] \in Seq(Symbols)
    <3>1. d - 1 \in 0 .. d - 1
      BY <2>3
    <3>2. d - 1 \in T
      BY <1>1, <3>1, Zenon
    <3> QED
      BY <2>4, <3>2
  <2> DEFINE elements == [i \in DOMAIN v.elems |-> WrittenTo[d - 1][v.elems[i]]]
  <2>6. elements \in Seq(Seq(Symbols))
    <3>1. v.elems \in Seq(ValuesTo[d - 1])
      BY <2>4
    <3> QED
      BY <2>5, <3>1, ElementsType
  <2>7. WrittenTo[d] = [u \in ValuesTo[d] |->
                         WrittenOf(u, [i \in DOMAIN u.elems |-> WrittenTo[d - 1][u.elems[i]]])]
    BY <2>1, <2>2, WritingEquation
  <2>8. WrittenTo[d][v] = WrittenOf(v, elements)
    BY <2>1, <2>7
  <2> HIDE DEF elements
  <2> QED
    BY <2>4, <2>6, <2>8, WrittenOfType
<1>2. \A d \in Nat : d \in T
  <2> HIDE DEF T
  <2> QED
    BY <1>1, StrongInduction
<1> QED
  BY <1>2

\* WrittenValue of anything is a sequence of symbols.
LEMMA WrittenType == \A v : Written(v) \in Seq(Symbols)
<1>1. MaxDepth \in 0 .. MaxDepth
  BY RespAssumption
<1>2. \A v \in Values : WrittenTo[MaxDepth][v] \in Seq(Symbols)
  BY <1>1, WritingType DEF Values
<1>3. <<>> \in Seq(Symbols)
  BY EmptySeq
<1> QED
  BY <1>2, <1>3, Zenon DEF Written

-----------------------------------------------------------------------------
(* Forms: a number is read however it is written.                          *)

\* Numerals are symbols.
LEMMA NumberSymbols == \A n : Spellings(n) \subseteq Symbols
<1>1. DOMAIN Number \subseteq Symbols
  BY RespAssumption, Zenon DEF Number
<1> QED
  BY <1>1, Zenon DEF Spellings

\* A mark and a number.
LEMMA CountedType ==
  ASSUME NEW mark \in Symbols, NEW n
  PROVE  Counted(mark, n) \in Seq(SUBSET Symbols) /\ Len(Counted(mark, n)) = 4
<1>1. PICK cr \in SUBSET Symbols, lf \in SUBSET Symbols : cr = {"CR"} /\ lf = {"LF"}
  BY SymbolFacts
<1>2. PICK a \in SUBSET Symbols, b \in SUBSET Symbols : a = {mark} /\ b = Spellings(n)
  BY NumberSymbols
<1>3. Counted(mark, n) = <<a, b, cr, lf>>
  BY <1>1, <1>2 DEF Counted
<1>4. <<a, b, cr, lf>> \in Seq(SUBSET Symbols) /\ Len(<<a, b, cr, lf>>) = 4
  OBVIOUS
<1> QED
  BY <1>3, <1>4

\* A text as it is.
LEMMA OnlyFacts ==
  ASSUME NEW text \in Seq(Symbols)
  PROVE  Only(text) \in Seq(SUBSET Symbols) /\ Matches(text, Only(text))
<1>1. PICK n \in Nat : n = Len(text)
  BY LenProperties
<1>2. DOMAIN text = 1 .. n /\ \A i \in 1 .. n : text[i] \in Symbols
  BY <1>1, LenProperties, ElementOfSeq
<1>3. Only(text) \in [1 .. n -> SUBSET Symbols] /\ \A i \in 1 .. n : Only(text)[i] = {text[i]}
  BY <1>2 DEF Only
<1>4. Only(text) \in Seq(SUBSET Symbols) /\ Len(Only(text)) = n
  BY <1>3, FunctionIsSeq
<1> QED
  BY <1>1, <1>3, <1>4 DEF Matches

\* What follows matches the form that follows.
LEMMA MatchesBoth ==
  ASSUME NEW p \in Seq(Symbols), NEW q \in Seq(Symbols),
         NEW f \in Seq(SUBSET Symbols), NEW g \in Seq(SUBSET Symbols), Matches(p, f), Matches(q, g)
  PROVE  p \o q \in Seq(Symbols) /\ f \o g \in Seq(SUBSET Symbols) /\ Matches(p \o q, f \o g)
<1>1. PICK a, b \in Nat : a = Len(p) /\ b = Len(q) /\ a = Len(f) /\ b = Len(g)
  BY LenProperties DEF Matches
<1>2. /\ p \o q \in Seq(Symbols) /\ Len(p \o q) = a + b
      /\ \A i \in 1 .. a + b : (p \o q)[i] = IF i <= a THEN p[i] ELSE q[i - a]
  <2>1. /\ p \o q \in Seq(Symbols) /\ Len(p \o q) = Len(p) + Len(q)
        /\ \A i \in 1 .. Len(p) + Len(q) : (p \o q)[i] = IF i <= Len(p) THEN p[i] ELSE q[i - Len(p)]
    BY ConcatProperties
  <2> QED
    BY <1>1, <2>1, Zenon
<1>3. /\ f \o g \in Seq(SUBSET Symbols) /\ Len(f \o g) = a + b
      /\ \A i \in 1 .. a + b : (f \o g)[i] = IF i <= a THEN f[i] ELSE g[i - a]
  BY <1>1, ConcatProperties
<1>4. ASSUME NEW i \in 1 .. a + b PROVE (p \o q)[i] \in (f \o g)[i]
  <2>1. CASE i <= a
    <3>1. i \in 1 .. a
      BY <2>1
    <3>2. p[i] \in f[i]
      BY <1>1, <3>1 DEF Matches
    <3> QED
      BY <1>2, <1>3, <2>1, <3>2
  <2>2. CASE ~(i <= a)
    <3>1. i - a \in 1 .. b
      BY <2>2
    <3>2. q[i - a] \in g[i - a]
      BY <1>1, <3>1 DEF Matches
    <3> QED
      BY <1>2, <1>3, <2>2, <3>2
  <2> QED
    BY <2>1, <2>2
<1> QED
  BY <1>2, <1>3, <1>4 DEF Matches

\* The form of a value says so if those of its elements do.
LEMMA FormOfType ==
  ASSUME NEW S, NEW v \in [type : Types, text : Seq(Symbols), elems : Seq(S)],
         v.type \in {"$", "rdb"} => Len(v.text) <= MaxInt,
         v.type = "*" => Len(v.elems) <= MaxInt,
         NEW forms \in Seq(Seq(SUBSET Symbols))
  PROVE  FormOf(v, forms) \in Seq(SUBSET Symbols)
<1>0. v.type \in Types /\ v.text \in Seq(Symbols)
  OBVIOUS
<1>1. PICK all : all = Seq(SUBSET Symbols)
  OBVIOUS
<1>2. \A mark \in {":", "$", "*"} : \A n : Counted(mark, n) \in all
  <2>1. {":", "$", "*"} \subseteq Symbols
    BY SymbolFacts, Zenon
  <2> QED
    BY <1>1, <2>1, CountedType, Zenon
<1>3. FlattenSeq(forms) \in all
  BY <1>1, FlattenType
<1>4. \A f, g \in all : f \o g \in all
  BY <1>1, ConcatProperties
<1>5. CRLF \in Seq(Symbols) /\ v.text \o CRLF \in Seq(Symbols)
  BY <1>0, SymbolFacts, ConcatProperties
<1>6. Only(v.text) \in all /\ Only(v.text \o CRLF) \in all
  BY <1>0, <1>1, <1>5, OnlyFacts
<1>7. CASE v.type \in {"+", "-"}
  <2>1. PICK mark \in Symbols : mark = v.type
    BY <1>7, SymbolFacts
  <2>2. <<mark>> \in Seq(Symbols)
    BY <2>1
  <2>3. <<mark>> \o v.text \in Seq(Symbols)
    BY <1>0, <2>2, ConcatProperties
  <2>4. <<mark>> \o v.text \o CRLF \in Seq(Symbols)
    BY <1>5, <2>3, ConcatProperties
  <2>5. Only(<<mark>> \o v.text \o CRLF) \in all
    BY <1>1, <2>4, OnlyFacts
  <2>6. FormOf(v, forms) = Only(<<mark>> \o v.text \o CRLF)
    BY <1>7, <2>1, Zenon DEF FormOf
  <2> QED
    BY <1>1, <2>5, <2>6
<1>8. CASE v.type = ":"
  <2>1. FormOf(v, forms) = Counted(":", Atoi(v.text))
    BY <1>8 DEF FormOf
  <2> QED
    BY <1>1, <1>2, <2>1
<1>9. CASE v.type = "$"
  <2>1. FormOf(v, forms) = Counted("$", Len(v.text)) \o Only(v.text \o CRLF)
    BY <1>9 DEF FormOf
  <2> QED
    BY <1>1, <1>2, <1>4, <1>6, <2>1
<1>10. CASE v.type = "*"
  <2>1. FormOf(v, forms) = Counted("*", Len(v.elems)) \o FlattenSeq(forms)
    BY <1>10 DEF FormOf
  <2> QED
    BY <1>1, <1>2, <1>3, <1>4, <2>1
<1>11. CASE v.type = "nil"
  <2>1. FormOf(v, forms) = Counted("$", -1)
    BY <1>11 DEF FormOf
  <2> QED
    BY <1>1, <1>2, <2>1
<1>12. CASE v.type = "nilarray"
  <2>1. FormOf(v, forms) = Counted("*", -1)
    BY <1>12 DEF FormOf
  <2> QED
    BY <1>1, <1>2, <2>1
<1>13. CASE v.type = "rdb"
  <2>1. FormOf(v, forms) = Counted("$", Len(v.text)) \o Only(v.text)
    BY <1>13 DEF FormOf
  <2> QED
    BY <1>1, <1>2, <1>4, <1>6, <2>1
<1> QED
  BY <1>0, <1>7, <1>8, <1>9, <1>10, <1>11, <1>12, <1>13 DEF Types

\* A form says of each place what may stand there.
LEMMA FormingType ==
  \A d \in 0 .. MaxDepth : \A v \in ValuesTo[d] : FormTo[d][v] \in Seq(SUBSET Symbols)
<1> DEFINE T == {d \in Nat : d \in 0 .. MaxDepth =>
                               \A v \in ValuesTo[d] : FormTo[d][v] \in Seq(SUBSET Symbols)}
<1>1. ASSUME NEW d \in Nat, \A k \in 0 .. d - 1 : k \in T PROVE d \in T
  <2>1. SUFFICES ASSUME d \in 0 .. MaxDepth, NEW v \in ValuesTo[d]
                 PROVE  FormTo[d][v] \in Seq(SUBSET Symbols)
    OBVIOUS
  <2>2. d # 0
    BY NoValues
  <2>3. d \in 1 .. MaxDepth
    BY <2>1, <2>2
  <2>4. /\ d - 1 \in 0 .. MaxDepth
        /\ v \in [type : Types, text : Seq(Symbols), elems : Seq(ValuesTo[d - 1])]
        /\ v.type \in {"$", "rdb"} => Len(v.text) <= MaxInt
        /\ v.type = "*" => Len(v.elems) <= MaxInt
    BY <2>1, <2>3, ValueFacts
  <2>5. \A w \in ValuesTo[d - 1] : FormTo[d - 1][w] \in Seq(SUBSET Symbols)
    <3>1. d - 1 \in 0 .. d - 1
      BY <2>3
    <3>2. d - 1 \in T
      BY <1>1, <3>1, Zenon
    <3> QED
      BY <2>4, <3>2
  <2> DEFINE elements == [i \in DOMAIN v.elems |-> FormTo[d - 1][v.elems[i]]]
  <2>6. elements \in Seq(Seq(SUBSET Symbols))
    <3>1. v.elems \in Seq(ValuesTo[d - 1])
      BY <2>4
    <3> QED
      BY <2>5, <3>1, ElementsType
  <2>7. FormTo[d] = [u \in ValuesTo[d] |->
                         FormOf(u, [i \in DOMAIN u.elems |-> FormTo[d - 1][u.elems[i]]])]
    BY <2>1, <2>2, FormingEquation
  <2>8. FormTo[d][v] = FormOf(v, elements)
    BY <2>1, <2>7
  <2> HIDE DEF elements
  <2> QED
    BY <2>4, <2>6, <2>8, FormOfType
<1>2. \A d \in Nat : d \in T
  <2> HIDE DEF T
  <2> QED
    BY <1>1, StrongInduction
<1> QED
  BY <1>2

\* A part of a sequence.
LEMMA PartFacts ==
  ASSUME NEW S, NEW s \in Seq(S), NEW a \in 1 .. Len(s) + 1, NEW b \in a - 1 .. Len(s)
  PROVE  /\ SubSeq(s, a, b) \in Seq(S) /\ Len(SubSeq(s, a, b)) = b - a + 1
         /\ \A i \in 1 .. b - a + 1 : SubSeq(s, a, b)[i] = s[a + i - 1]
<1>1. PICK n \in Nat : n = Len(s)
  BY LenProperties
<1>2. a \in Int /\ b \in Int /\ a \in 1 .. n + 1 /\ b \in a - 1 .. n
  BY <1>1
<1>3. ASSUME NEW i \in a .. b PROVE s[i] \in S
  <2>1. i \in 1 .. Len(s)
    BY <1>1, <1>2
  <2> QED
    BY <2>1, ElementOfSeq
<1>4. /\ SubSeq(s, a, b) \in Seq(S)
      /\ Len(SubSeq(s, a, b)) = IF a <= b THEN b - a + 1 ELSE 0
      /\ \A i \in 1 .. b - a + 1 : SubSeq(s, a, b)[i] = s[a + i - 1]
  BY <1>2, <1>3, SubSeqProperties
<1>5. (IF a <= b THEN b - a + 1 ELSE 0) = b - a + 1
  BY <1>2
<1> QED
  BY <1>4, <1>5

\* Two adjacent parts.
LEMMA PartsJoin ==
  ASSUME NEW S, NEW s \in Seq(S), NEW a \in 1 .. Len(s) + 1,
         NEW b \in a - 1 .. Len(s), NEW c \in b .. Len(s)
  PROVE  SubSeq(s, a, b) \o SubSeq(s, b + 1, c) = SubSeq(s, a, c)
BY ConcatAdjacentSubSeq

\* A part of one symbol, and of two.
LEMMA PartOfOne ==
  ASSUME NEW S, NEW s \in Seq(S), NEW a \in 1 .. Len(s)
  PROVE  SubSeq(s, a, a) = <<s[a]>>
<1>1. PICK n \in Nat : n = Len(s)
  BY LenProperties
<1>2. a \in 1 .. Len(s) + 1 /\ a \in a - 1 .. Len(s) /\ a \in Int /\ a - a + 1 = 1
      /\ 1 \in 1 .. a - a + 1 /\ a + 1 - 1 = a
  BY <1>1
<1>3. SubSeq(s, a, a) \in Seq(S) /\ Len(SubSeq(s, a, a)) = 1 /\ SubSeq(s, a, a)[1] = s[a]
  BY <1>2, PartFacts
<1>4. s[a] \in S
  BY ElementOfSeq
<1>5. PICK x : x = s[a]
  OBVIOUS
<1>6. <<x>> \in Seq(S) /\ Len(<<x>>) = 1 /\ <<x>>[1] = x
  BY <1>4, <1>5
<1>7. \A i \in 1 .. 1 : SubSeq(s, a, a)[i] = <<x>>[i]
  BY <1>3, <1>5, <1>6
<1> QED
  BY <1>3, <1>5, <1>6, <1>7, SeqEqual

\* Two adjacent symbols.
LEMMA PartOfTwo ==
  ASSUME NEW S, NEW s \in Seq(S), NEW a \in 1 .. Len(s) - 1
  PROVE  SubSeq(s, a, a + 1) = <<s[a], s[a + 1]>>
<1>1. PICK n \in Nat : n = Len(s)
  BY LenProperties
<1>2. PICK b \in Int : b = a + 1
  BY <1>1
<1>0. /\ a \in 1 .. Len(s) + 1 /\ b \in a - 1 .. Len(s)
      /\ a \in 1 .. Len(s) /\ a + 1 \in 1 .. Len(s)
  BY <1>1, <1>2
<1>3. /\ SubSeq(s, a, a + 1) \in Seq(S) /\ Len(SubSeq(s, a, a + 1)) = 2
      /\ SubSeq(s, a, a + 1)[1] = s[a] /\ SubSeq(s, a, a + 1)[2] = s[a + 1]
  <2>1. /\ SubSeq(s, a, b) \in Seq(S) /\ Len(SubSeq(s, a, b)) = b - a + 1
        /\ \A i \in 1 .. b - a + 1 : SubSeq(s, a, b)[i] = s[a + i - 1]
    BY <1>0, PartFacts
  <2>2. b - a + 1 = 2 /\ 1 \in 1 .. b - a + 1 /\ a + 1 - 1 = a /\ 2 \in 1 .. b - a + 1 /\ a + 2 - 1 = a + 1
    BY <1>1, <1>2
  <2>3. SubSeq(s, a, b)[1] = s[a] /\ SubSeq(s, a, b)[2] = s[a + 1]
    BY <2>1, <2>2
  <2> QED
    BY <1>2, <2>1, <2>2, <2>3
<1>4. s[a] \in S /\ s[a + 1] \in S
  BY <1>0, ElementOfSeq
<1>5. PICK x, y : x = s[a] /\ y = s[a + 1]
  OBVIOUS
<1>6. <<x, y>> \in Seq(S) /\ Len(<<x, y>>) = 2 /\ <<x, y>>[1] = x /\ <<x, y>>[2] = y
  BY <1>4, <1>5
<1>7. \A i \in 1 .. 2 : SubSeq(s, a, a + 1)[i] = <<x, y>>[i]
  <2> SUFFICES ASSUME NEW i \in 1 .. 2 PROVE SubSeq(s, a, a + 1)[i] = <<x, y>>[i]
    OBVIOUS
  <2>1. i = 1 \/ i = 2
    OBVIOUS
  <2> QED
    BY <1>3, <1>5, <1>6, <2>1
<1> QED
  BY <1>3, <1>5, <1>6, <1>7, SeqEqual

\* readUntilCRLF: a line ends at its first CRLF.
LEMMA FirstEnd ==
  ASSUME NEW s \in Seq(Symbols), NEW i \in 1 .. Len(s) + 1, LineEnd(s, i) # 0
  PROVE  /\ LineEnd(s, i) \in i .. Len(s) - 1
         /\ SubSeq(s, LineEnd(s, i), LineEnd(s, i) + 1) = CRLF
         /\ \A h \in i .. LineEnd(s, i) - 1 : SubSeq(s, h, h + 1) # CRLF
<1> DEFINE P(j) == /\ SubSeq(s, j, j + 1) = CRLF
                   /\ \A h \in i .. j - 1 : SubSeq(s, h, h + 1) # CRLF
<1>1. PICK n \in Nat : n = Len(s)
  BY LenProperties
<1>2. \E j \in i .. Len(s) - 1 : SubSeq(s, j, j + 1) = CRLF
  BY DEF LineEnd
<1>3. LineEnd(s, i) = CHOOSE j \in i .. Len(s) - 1 : P(j)
  BY <1>2 DEF LineEnd
<1>4. \E j \in i .. Len(s) - 1 : P(j)
  <2> DEFINE T == {j \in i .. Len(s) - 1 : SubSeq(s, j, j + 1) = CRLF}
  <2>1. T \in SUBSET Nat /\ T # {}
    <3>1. i .. Len(s) - 1 \subseteq Nat
      BY <1>1
    <3>2. T # {}
      BY <1>2
    <3> QED
      BY <3>1, <3>2
  <2>2. PICK j \in T : \A h \in T : j <= h
    <3> HIDE DEF T
    <3> QED
      BY <2>1, LeastNumber
  <2>3. ASSUME NEW h \in i .. j - 1 PROVE SubSeq(s, h, h + 1) # CRLF
    <3>1. h \in i .. Len(s) - 1 /\ ~(j <= h)
      BY <1>1
    <3> QED
      BY <2>2, <3>1
  <2> QED
    BY <2>3
<1>5. (CHOOSE j \in i .. Len(s) - 1 : P(j)) \in i .. Len(s) - 1 /\ P(CHOOSE j \in i .. Len(s) - 1 : P(j))
  <2> HIDE DEF P
  <2> QED
    BY <1>4
<1>6. PICK e : e = LineEnd(s, i)
  OBVIOUS
<1>7. e \in i .. Len(s) - 1 /\ P(e)
  BY <1>3, <1>5, <1>6
<1> QED
  BY <1>6, <1>7

\* It is what precedes that CRLF.
LEMMA LineFacts ==
  ASSUME NEW s \in Seq(Symbols), NEW i \in 1 .. Len(s) + 1, LineEnd(s, i) # 0
  PROVE  /\ LineEnd(s, i) \in i .. Len(s) - 1
         /\ SubSeq(s, LineEnd(s, i), LineEnd(s, i) + 1) = CRLF
         /\ Line(s, i) = SubSeq(s, i, LineEnd(s, i) - 1)
         /\ Line(s, i) \in Seq(Symbols) /\ Len(Line(s, i)) = LineEnd(s, i) - i
<1>1. PICK n \in Nat : n = Len(s)
  BY LenProperties
<1>2. PICK e : e = LineEnd(s, i)
  OBVIOUS
<1>3. e \in i .. Len(s) - 1 /\ SubSeq(s, e, e + 1) = CRLF
  BY <1>2, FirstEnd
<1>4. e - 1 \in i - 1 .. Len(s) /\ (e - 1) - i + 1 = e - i
  BY <1>1, <1>3
<1>5. SubSeq(s, i, e - 1) \in Seq(Symbols) /\ Len(SubSeq(s, i, e - 1)) = e - i
  BY <1>4, PartFacts
<1> QED
  BY <1>2, <1>3, <1>5 DEF Line

\* Numbers are written with numerals, or in other ways.
LEMMA NumberDomain ==
  /\ DOMAIN Number = Numerals \cup DOMAIN Spelled
  /\ \A sym \in Numerals : Number[sym] = CHOOSE n \in Ints : ToString(n) = sym
  /\ \A sym \in DOMAIN Spelled : sym \notin Numerals => Number[sym] = Spelled[sym]
BY Zenon DEF Number

\* The numeral of a number stands for it.
LEMMA NumeralFacts ==
  ASSUME NEW n \in Ints
  PROVE  /\ <<ToString(n)>> \in Seq(Symbols) /\ Len(<<ToString(n)>>) = 1
         /\ IsNumber(<<ToString(n)>>) /\ Atoi(<<ToString(n)>>) = n
<1>1. PICK sym : sym = ToString(n)
  OBVIOUS
<1>2. sym \in Numerals
  BY <1>1, Zenon DEF Numerals
<1>3. sym \in Symbols
  BY <1>1, SymbolFacts, Zenon
<1>4. Number[sym] = CHOOSE m \in Ints : ToString(m) = sym
  BY <1>2, NumberDomain, Zenon
<1>5. Number[sym] \in Ints /\ ToString(Number[sym]) = sym
  BY <1>1, <1>4, Zenon
<1>6. Number[sym] = n
  BY <1>1, <1>5, NumeralsAssumption, Zenon
<1>7. sym \in DOMAIN Number
  BY <1>2, NumberDomain, Zenon
<1>8. <<sym>> \in Seq(Symbols) /\ Len(<<sym>>) = 1 /\ <<sym>>[1] = sym
  BY <1>3
<1> QED
  BY <1>1, <1>6, <1>7, <1>8 DEF IsNumber, Atoi

\* What Atoi takes is a spelling of the number it returns.
LEMMA NumberFacts ==
  ASSUME NEW text \in Seq(Symbols), IsNumber(text)
  PROVE  /\ Atoi(text) \in Ints /\ Len(text) = 1 /\ text[1] \in Spellings(Atoi(text))
<1>1. PICK sym : sym = text[1]
  OBVIOUS
<1>2. sym \in DOMAIN Number /\ Len(text) = 1
  BY <1>1 DEF IsNumber
<1>3. Number[sym] \in Ints
  <2>1. CASE sym \in Numerals
    <3>1. \E n \in Ints : ToString(n) = sym
      BY <2>1, Zenon DEF Numerals
    <3> QED
      BY <2>1, <3>1, NumberDomain, Zenon
  <2>2. CASE sym \notin Numerals
    <3>1. sym \in DOMAIN Spelled /\ Number[sym] = Spelled[sym]
      BY <1>2, <2>2, NumberDomain, Zenon
    <3> QED
      BY <3>1, RespAssumption, Zenon
  <2> QED
    BY <2>1, <2>2
<1>4. sym \in Spellings(Number[sym])
  BY <1>2, Zenon DEF Spellings
<1> QED
  BY <1>1, <1>2, <1>3, <1>4 DEF Atoi

\* A mark and a length, or a number, as the decoders read them.
LEMMA LengthFacts ==
  ASSUME NEW s \in Seq(Symbols), NEW i \in 1 .. Len(s),
         LineEnd(s, i + 1) # 0, IsNumber(Line(s, i + 1))
  PROVE  /\ LineEnd(s, i + 1) = i + 2 /\ i + 3 <= Len(s)
         /\ Atoi(Line(s, i + 1)) \in Ints
         /\ Matches(SubSeq(s, i, i + 3), Counted(s[i], Atoi(Line(s, i + 1))))
<1>1. PICK n \in Nat : n = Len(s)
  BY LenProperties
<1>2. i + 1 \in 1 .. Len(s) + 1 /\ i \in Nat
  BY <1>1
<1>3. PICK e, text : e = LineEnd(s, i + 1) /\ text = Line(s, i + 1)
  OBVIOUS
<1>4. /\ e \in i + 1 .. Len(s) - 1
      /\ SubSeq(s, e, e + 1) = CRLF
      /\ text = SubSeq(s, i + 1, e - 1)
      /\ text \in Seq(Symbols) /\ Len(text) = e - (i + 1)
  BY <1>2, <1>3, LineFacts
<1>5. Atoi(text) \in Ints /\ Len(text) = 1 /\ text[1] \in Spellings(Atoi(text))
  BY <1>3, <1>4, NumberFacts
<1>6. e = i + 2 /\ i + 3 <= n
  <2>1. e \in i + 1 .. n - 1
    BY <1>1, <1>4
  <2>2. e - (i + 1) = 1
    BY <1>4, <1>5
  <2> QED
    BY <1>2, <2>1, <2>2
<1>7. text[1] = s[i + 1]
  <2>1. i + 1 \in 1 .. Len(s) /\ e - 1 = i + 1
    BY <1>1, <1>2, <1>6
  <2>2. SubSeq(s, i + 1, i + 1) = <<s[i + 1]>>
    BY <2>1, PartOfOne
  <2>3. text = <<s[i + 1]>>
    BY <1>4, <2>1, <2>2
  <2> QED
    BY <2>3
<1>8. s[i + 2] = "CR" /\ s[i + 3] = "LF"
  <2>1. e \in 1 .. Len(s) - 1 /\ e + 1 = i + 3
    BY <1>1, <1>2, <1>6
  <2>2. <<s[e], s[e + 1]>> = <<"CR", "LF">>
    BY <1>4, <2>1, PartOfTwo DEF CRLF
  <2> QED
    BY <1>6, <2>1, <2>2
<1>9. PICK part : part = SubSeq(s, i, i + 3)
  OBVIOUS
<1>10. /\ Len(part) = 4 /\ part[1] = s[i] /\ part[2] = s[i + 1]
       /\ part[3] = s[i + 2] /\ part[4] = s[i + 3]
  <2>1. i \in 1 .. Len(s) + 1 /\ i + 3 \in i - 1 .. Len(s) /\ (i + 3) - i + 1 = 4
    BY <1>1, <1>2, <1>6
  <2>2. Len(part) = 4 /\ \A j \in 1 .. 4 : part[j] = s[i + j - 1]
    BY <1>9, <2>1, PartFacts
  <2>3. i + 1 - 1 = i /\ i + 2 - 1 = i + 1 /\ i + 3 - 1 = i + 2 /\ i + 4 - 1 = i + 3
    BY <1>2
  <2>4. 1 \in 1 .. 4 /\ 2 \in 1 .. 4 /\ 3 \in 1 .. 4 /\ 4 \in 1 .. 4
    OBVIOUS
  <2> QED
    BY <2>2, <2>3, <2>4
<1>11. Matches(part, Counted(s[i], Atoi(text)))
  <2>1. PICK a, b, form : a = s[i] /\ b = Spellings(Atoi(text)) /\ form = <<{a}, b, {"CR"}, {"LF"}>>
    OBVIOUS
  <2>2. /\ Len(form) = 4 /\ form[1] = {a} /\ form[2] = b
        /\ form[3] = {"CR"} /\ form[4] = {"LF"}
    BY <2>1
  <2>3. ASSUME NEW j \in 1 .. Len(part) PROVE part[j] \in form[j]
    <3>1. j = 1 \/ j = 2 \/ j = 3 \/ j = 4
      BY <1>10
    <3>2. part[1] \in form[1] /\ part[3] \in form[3] /\ part[4] \in form[4]
      BY <1>8, <1>10, <2>1, <2>2
    <3>3. part[2] \in form[2]
      BY <1>5, <1>7, <1>10, <2>1, <2>2
    <3> QED
      BY <3>1, <3>2, <3>3
  <2>4. Matches(part, form)
    BY <1>10, <2>2, <2>3 DEF Matches
  <2> QED
    BY <2>1, <2>4 DEF Counted
<1> QED
  BY <1>1, <1>3, <1>5, <1>6, <1>9, <1>11

\* Two adjacent parts that match their forms.
LEMMA PartsMatch ==
  ASSUME NEW s \in Seq(Symbols), NEW a \in 1 .. Len(s) + 1,
         NEW b \in a - 1 .. Len(s), NEW c \in b .. Len(s),
         NEW f \in Seq(SUBSET Symbols), NEW g \in Seq(SUBSET Symbols),
         Matches(SubSeq(s, a, b), f), Matches(SubSeq(s, b + 1, c), g)
  PROVE  Matches(SubSeq(s, a, c), f \o g)
<1>1. PICK n \in Nat : n = Len(s)
  BY LenProperties
<1>2. SubSeq(s, a, b) \in Seq(Symbols)
  BY PartFacts
<1>3. SubSeq(s, b + 1, c) \in Seq(Symbols)
  <2>1. b + 1 \in 1 .. Len(s) + 1 /\ c \in (b + 1) - 1 .. Len(s)
    BY <1>1
  <2> QED
    BY <2>1, PartFacts
<1>4. SubSeq(s, a, b) \o SubSeq(s, b + 1, c) = SubSeq(s, a, c)
  BY PartsJoin
<1>5. PICK p, q : p = SubSeq(s, a, b) /\ q = SubSeq(s, b + 1, c)
  OBVIOUS
<1>6. Matches(p \o q, f \o g)
  BY <1>2, <1>3, <1>5, MatchesBoth
<1> QED
  BY <1>4, <1>5, <1>6

\* What a decoder found from position i on is a value of depth d, and what it
\* read has that value's form.
Exact(s, i, d, r) ==
  r.res = "value" => /\ r.value \in ValuesTo[d]
                     /\ r.next \in i + 1 .. Len(s) + 1
                     /\ Matches(SubSeq(s, i, r.next - 1), FormTo[d][r.value])

\* An error is exact: nothing was taken.
LEMMA NoValueIsExact ==
  ASSUME NEW s, NEW i, NEW d
  PROVE  Exact(s, i, d, Incomplete) /\ Exact(s, i, d, Invalid)
BY DEF Exact, Incomplete, Invalid

\* A value is encoded by its type.
LEMMA WrittenValue ==
  ASSUME NEW d \in 1 .. MaxDepth, NEW v \in ValuesTo[d]
  PROVE  WrittenTo[d][v] = WrittenOf(v, [i \in DOMAIN v.elems |-> WrittenTo[d - 1][v.elems[i]]])
<1>1. d \in 0 .. MaxDepth /\ d # 0
  BY RespAssumption
<1>2. WrittenTo[d] = [u \in ValuesTo[d] |->
                       WrittenOf(u, [i \in DOMAIN u.elems |-> WrittenTo[d - 1][u.elems[i]]])]
  BY <1>1, WritingEquation
<1> QED
  BY <1>2

\* A value has the form of its type.
LEMMA FormValue ==
  ASSUME NEW d \in 1 .. MaxDepth, NEW v \in ValuesTo[d]
  PROVE  FormTo[d][v] = FormOf(v, [i \in DOMAIN v.elems |-> FormTo[d - 1][v.elems[i]]])
<1>1. d \in 0 .. MaxDepth /\ d # 0
  BY RespAssumption
<1>2. FormTo[d] = [u \in ValuesTo[d] |->
                       FormOf(u, [i \in DOMAIN u.elems |-> FormTo[d - 1][u.elems[i]]])]
  BY <1>1, FormingEquation
<1> QED
  BY <1>2

\* A value that is no array.
LEMMA ScalarFacts ==
  ASSUME NEW d \in 1 .. MaxDepth, NEW type \in Types, NEW text \in Seq(Symbols),
         type \in {"$", "rdb"} => Len(text) <= MaxInt
  PROVE  /\ Value(type, text, <<>>) \in ValuesTo[d]
         /\ \E elements : WrittenTo[d][Value(type, text, <<>>)] = WrittenOf(Value(type, text, <<>>), elements)
         /\ \E forms : FormTo[d][Value(type, text, <<>>)] = FormOf(Value(type, text, <<>>), forms)
<1>1. PICK v : v = Value(type, text, <<>>)
  OBVIOUS
<1>2. v.type = type /\ v.text = text /\ v.elems = <<>>
  BY <1>1 DEF Value
<1>3. <<>> \in Seq(ValuesTo[d - 1]) /\ Len(<<>>) = 0
  BY EmptySeq
<1>4. v \in [type : Types, text : Seq(Symbols), elems : Seq(ValuesTo[d - 1])]
  BY <1>1, <1>3 DEF Value
<1>5. Len(v.elems) <= MaxInt
  BY <1>2, <1>3, IntsFacts
<1>6. v \in ValuesTo[d]
  BY <1>2, <1>4, <1>5, ValueFacts
<1>7. WrittenTo[d][v] = WrittenOf(v, [i \in DOMAIN v.elems |-> WrittenTo[d - 1][v.elems[i]]])
  BY <1>6, WrittenValue
<1>8. FormTo[d][v] = FormOf(v, [i \in DOMAIN v.elems |-> FormTo[d - 1][v.elems[i]]])
  BY <1>6, FormValue
<1> QED
  BY <1>1, <1>6, <1>7, <1>8

\* decodeSimpleString, decodeError.
LEMMA LineExact ==
  ASSUME NEW d \in 1 .. MaxDepth, NEW s \in Seq(Symbols), NEW i \in 1 .. Len(s),
         s[i] \in {"+", "-"}, LineEnd(s, i + 1) # 0
  PROVE  Exact(s, i, d, Decoded(Value(s[i], Line(s, i + 1), <<>>), LineEnd(s, i + 1) + 2))
<1>1. PICK n \in Nat : n = Len(s)
  BY LenProperties
<1>2. i + 1 \in 1 .. Len(s) + 1 /\ i \in Nat
  BY <1>1
<1>3. PICK e, text, type : e = LineEnd(s, i + 1) /\ text = Line(s, i + 1) /\ type = s[i]
  OBVIOUS
<1>4. /\ e \in i + 1 .. Len(s) - 1
      /\ SubSeq(s, e, e + 1) = CRLF
      /\ text = SubSeq(s, i + 1, e - 1)
      /\ text \in Seq(Symbols)
  BY <1>2, <1>3, LineFacts
<1>5. type \in Types /\ type \notin {"$", "rdb"} /\ type \in {"+", "-"}
  BY <1>3 DEF Types
<1>6. PICK v : v = Value(type, text, <<>>)
  OBVIOUS
<1>7. v.type = type /\ v.text = text
  BY <1>6 DEF Value
<1>8. PICK forms : v \in ValuesTo[d] /\ FormTo[d][v] = FormOf(v, forms)
  <2>1. /\ Value(type, text, <<>>) \in ValuesTo[d]
        /\ \E forms : FormTo[d][Value(type, text, <<>>)] = FormOf(Value(type, text, <<>>), forms)
    BY <1>4, <1>5, ScalarFacts
  <2> QED
    BY <1>6, <2>1, Zenon
<1>9. FormOf(v, forms) = Only(<<type>> \o text \o CRLF)
  BY <1>5, <1>7 DEF FormOf
<1>10. SubSeq(s, i, i) = <<type>>
  BY <1>3, PartOfOne
<1>11. e \in i + 1 .. n - 1
  BY <1>1, <1>4
<1>12. SubSeq(s, i, i) \o SubSeq(s, i + 1, e - 1) = SubSeq(s, i, e - 1)
  <2>1. i \in 1 .. Len(s) + 1 /\ i \in i - 1 .. Len(s) /\ e - 1 \in i .. Len(s)
    BY <1>1, <1>2, <1>11
  <2> QED
    BY <2>1, PartsJoin
<1>13. SubSeq(s, i, e - 1) \o SubSeq(s, e, e + 1) = SubSeq(s, i, e + 1)
  <2>1. i \in 1 .. Len(s) + 1 /\ e - 1 \in i - 1 .. Len(s) /\ e + 1 \in e - 1 .. Len(s) /\ (e - 1) + 1 = e
    BY <1>1, <1>2, <1>11
  <2> QED
    BY <2>1, PartsJoin
<1>14. <<type>> \o text \o CRLF = SubSeq(s, i, (e + 2) - 1)
  <2>1. (e + 2) - 1 = e + 1
    BY <1>11
  <2> QED
    BY <1>4, <1>10, <1>12, <1>13, <2>1
<1>15. e + 2 \in i + 1 .. Len(s) + 1
  BY <1>1, <1>11
<1>16. PICK p : p = SubSeq(s, i, (e + 2) - 1)
  OBVIOUS
<1>17. p \in Seq(Symbols)
  <2>1. i \in 1 .. Len(s) + 1 /\ (e + 2) - 1 \in i - 1 .. Len(s)
    BY <1>1, <1>11
  <2> QED
    BY <1>16, <2>1, PartFacts
<1>18. Matches(SubSeq(s, i, (e + 2) - 1), FormTo[d][v])
  <2>1. Matches(p, Only(p))
    BY <1>17, OnlyFacts
  <2>2. FormTo[d][v] = Only(p)
    BY <1>8, <1>9, <1>14, <1>16
  <2> QED
    BY <1>16, <2>1, <2>2
<1>19. Exact(s, i, d, Decoded(v, e + 2))
  BY <1>8, <1>15, <1>18 DEF Exact, Decoded
<1> QED
  BY <1>3, <1>6, <1>19

\* decodeInteger, once the line is a number.
LEMMA IntegerExact ==
  ASSUME NEW d \in 1 .. MaxDepth, NEW s \in Seq(Symbols), NEW i \in 1 .. Len(s),
         s[i] = ":", LineEnd(s, i + 1) # 0, IsNumber(Line(s, i + 1))
  PROVE  Exact(s, i, d, Decoded(Integer(Atoi(Line(s, i + 1))), LineEnd(s, i + 1) + 2))
<1>1. PICK len \in Nat : len = Len(s)
  BY LenProperties
<1>2. PICK n : n = Atoi(Line(s, i + 1))
  OBVIOUS
<1>3. /\ LineEnd(s, i + 1) = i + 2 /\ i + 3 <= Len(s) /\ n \in Ints
      /\ Matches(SubSeq(s, i, i + 3), Counted(":", n))
  <2>1. /\ LineEnd(s, i + 1) = i + 2 /\ i + 3 <= Len(s)
        /\ Atoi(Line(s, i + 1)) \in Ints
        /\ Matches(SubSeq(s, i, i + 3), Counted(s[i], Atoi(Line(s, i + 1))))
    BY LengthFacts
  <2> QED
    BY <1>2, <2>1, Zenon
<1>4. PICK text : text = <<ToString(n)>>
  OBVIOUS
<1>5. text \in Seq(Symbols) /\ Atoi(text) = n
  BY <1>3, <1>4, NumeralFacts
<1>6. PICK v : v = Value(":", text, <<>>)
  OBVIOUS
<1>7. v = Integer(n) /\ v.type = ":" /\ v.text = text
  BY <1>4, <1>6 DEF Integer, Value
<1>8. PICK forms : v \in ValuesTo[d] /\ FormTo[d][v] = FormOf(v, forms)
  <2>1. ":" \in Types /\ ":" \notin {"$", "rdb"}
    BY DEF Types
  <2>2. /\ Value(":", text, <<>>) \in ValuesTo[d]
        /\ \E forms : FormTo[d][Value(":", text, <<>>)] = FormOf(Value(":", text, <<>>), forms)
    BY <1>5, <2>1, ScalarFacts
  <2> QED
    BY <1>6, <2>2, Zenon
<1>9. FormOf(v, forms) = Counted(":", n)
  BY <1>5, <1>7 DEF FormOf
<1>10. (i + 2 + 2) - 1 = i + 3 /\ i + 2 + 2 \in i + 1 .. Len(s) + 1
  BY <1>1, <1>3
<1>11. Exact(s, i, d, Decoded(v, i + 2 + 2))
  BY <1>3, <1>8, <1>9, <1>10 DEF Exact, Decoded
<1> QED
  BY <1>2, <1>3, <1>7, <1>11

\* A nil value, and a nil array: their length is -1.
LEMMA NilExact ==
  ASSUME NEW d \in 1 .. MaxDepth, NEW s \in Seq(Symbols), NEW i \in 1 .. Len(s),
         s[i] \in {"$", "*"}, LineEnd(s, i + 1) # 0,
         IsNumber(Line(s, i + 1)), Atoi(Line(s, i + 1)) = -1
  PROVE  Exact(s, i, d, Decoded(IF s[i] = "$" THEN Nil ELSE NilArray, LineEnd(s, i + 1) + 2))
<1>1. PICK n \in Nat : n = Len(s)
  BY LenProperties
<1>2. /\ LineEnd(s, i + 1) = i + 2 /\ i + 3 <= n
      /\ Matches(SubSeq(s, i, i + 3), Counted(s[i], -1))
  BY <1>1, LengthFacts
<1>3. PICK type : type = IF s[i] = "$" THEN "nil" ELSE "nilarray"
  OBVIOUS
<1>4. type \in Types /\ type \notin {"$", "rdb"}
  BY <1>3 DEF Types
<1>5. PICK v : v = Value(type, <<>>, <<>>)
  OBVIOUS
<1>6. v.type = type /\ v = IF s[i] = "$" THEN Nil ELSE NilArray
  BY <1>3, <1>5 DEF Value, Nil, NilArray
<1>7. <<>> \in Seq(Symbols)
  BY EmptySeq
<1>8. PICK forms : v \in ValuesTo[d] /\ FormTo[d][v] = FormOf(v, forms)
  BY <1>4, <1>5, <1>7, ScalarFacts
<1>9. FormOf(v, forms) = Counted(s[i], -1)
  <2>1. CASE s[i] = "$"
    BY <1>3, <1>6, <2>1 DEF FormOf
  <2>2. CASE s[i] = "*"
    BY <1>3, <1>6, <2>2 DEF FormOf
  <2> QED
    BY <2>1, <2>2
<1>10. i \in Nat /\ (i + 2 + 2) - 1 = i + 3 /\ i + 2 + 2 \in i + 1 .. Len(s) + 1
  BY <1>1, <1>2
<1>11. Exact(s, i, d, Decoded(v, i + 2 + 2))
  BY <1>2, <1>8, <1>9, <1>10 DEF Exact, Decoded
<1> QED
  BY <1>2, <1>6, <1>11

\* A text of the length that is announced, behind its CRLF: a bulk string, whose
\* own CRLF follows, or an RDB file, which ends there.
LEMMA CountedText ==
  ASSUME NEW s \in Seq(Symbols), NEW i \in 1 .. Len(s), NEW length \in Nat,
         s[i] = "$", LineEnd(s, i + 1) # 0, IsNumber(Line(s, i + 1)),
         length = Atoi(Line(s, i + 1)), i + length + 3 <= Len(s)
  PROVE  /\ length <= MaxInt
         /\ SubSeq(s, i + 4, i + length + 3) \in Seq(Symbols)
         /\ Len(SubSeq(s, i + 4, i + length + 3)) = length
         /\ Matches(SubSeq(s, i, i + 3), Counted("$", length))
         /\ Counted("$", length) \in Seq(SUBSET Symbols)
<1>1. PICK n \in Nat : n = Len(s)
  BY LenProperties
<1>2. /\ LineEnd(s, i + 1) = i + 2 /\ i + 3 <= Len(s)
      /\ length \in Ints
      /\ Matches(SubSeq(s, i, i + 3), Counted("$", length))
  BY LengthFacts
<1>3. length <= MaxInt
  <2>1. length \in Ints
    BY <1>2, Zenon
  <2> QED
    BY <2>1, IntsFacts
<1>4. PICK last : last = i + length + 3
  OBVIOUS
<1>5. i + 4 \in 1 .. Len(s) + 1 /\ last \in (i + 4) - 1 .. Len(s) /\ last - (i + 4) + 1 = length
  BY <1>1, <1>4
<1>6. SubSeq(s, i + 4, last) \in Seq(Symbols) /\ Len(SubSeq(s, i + 4, last)) = length
  BY <1>5, PartFacts
<1>7. Counted("$", length) \in Seq(SUBSET Symbols)
  <2>1. "$" \in Symbols
    BY SymbolFacts, Zenon
  <2> QED
    BY <2>1, CountedType, Zenon
<1> QED
  BY <1>2, <1>3, <1>4, <1>6, <1>7

\* readCRLF finds a CRLF whole.
LEMMA ClosedFacts ==
  ASSUME NEW s \in Seq(Symbols), NEW i \in 1 .. Len(s) + 1, NEW value,
         Closed(value, s, i).res = "value"
  PROVE  /\ i + 1 <= Len(s) /\ SubSeq(s, i, i + 1) = CRLF
         /\ Closed(value, s, i) = Decoded(value, i + 2)
<1>1. PICK n \in Nat : n = Len(s)
  BY LenProperties
<1>2. PICK m : m = Min({i + 1, Len(s)})
  OBVIOUS
<1>3. m = IF i + 1 <= n THEN i + 1 ELSE n
  <2>1. i + 1 <= n => \A y \in {i + 1, n} : i + 1 <= y
    OBVIOUS
  <2>2. ~(i + 1 <= n) => \A y \in {i + 1, n} : n <= y
    OBVIOUS
  <2>3. \A x, y \in {i + 1, n} : x <= y /\ y <= x => x = y
    OBVIOUS
  <2> QED
    BY <1>1, <1>2, <2>1, <2>2, <2>3 DEF Min
<1>4. SubSeq(s, i, m) = CRLF
  BY <1>2 DEF Closed, Incomplete, Invalid
<1>5. Closed(value, s, i) = Decoded(value, i + 2)
  BY <1>2, <1>4 DEF Closed
<1>6. i + 1 <= n
  <2>1. SUFFICES ASSUME ~(i + 1 <= n) PROVE FALSE
    OBVIOUS
  <2>2. m = n /\ n \in i - 1 .. Len(s) /\ n - i + 1 <= 1 /\ n - i + 1 \in Int
    BY <1>1, <1>3, <2>1
  <2>3. Len(SubSeq(s, i, n)) = n - i + 1
    BY <2>2, PartFacts
  <2>4. Len(CRLF) = 2
    BY SymbolFacts
  <2>5. n - i + 1 = 2
    BY <1>4, <2>2, <2>3, <2>4
  <2> QED
    BY <2>2, <2>5
<1> QED
  BY <1>1, <1>3, <1>4, <1>5, <1>6

\* decodeBulkStringOrNil.
LEMMA BulkExact ==
  ASSUME NEW d \in 1 .. MaxDepth, NEW s \in Seq(Symbols), NEW i \in 1 .. Len(s), s[i] = "$"
  PROVE  Exact(s, i, d, DecodeBulk(s, i + 1))
<1>1. PICK n \in Nat : n = Len(s)
  BY LenProperties
<1>2. PICK start, length : start = LineEnd(s, i + 1) + 2 /\ length = Atoi(Line(s, i + 1))
  OBVIOUS
<1>3. CASE LineEnd(s, i + 1) = 0
  BY <1>3, NoValueIsExact DEF DecodeBulk
<1>4. CASE LineEnd(s, i + 1) # 0 /\ ~IsNumber(Line(s, i + 1))
  BY <1>4, NoValueIsExact DEF DecodeBulk
<1>5. CASE LineEnd(s, i + 1) # 0 /\ IsNumber(Line(s, i + 1))
  <2>1. length \in Int
    <3>1. length \in Ints
      BY <1>2, <1>5, LengthFacts, Zenon
    <3> QED
      BY <3>1, IntsFacts
  <2>2. CASE length = -1
    <3>1. DecodeBulk(s, i + 1) = Decoded(Nil, start)
      BY <1>2, <1>5, <2>2 DEF DecodeBulk
    <3> QED
      BY <1>2, <1>5, <2>2, <3>1, NilExact
  <2>3. CASE length < -1
    <3>0. length # -1 /\ ~(length >= 0)
      BY <2>1, <2>3
    <3>1. DecodeBulk(s, i + 1) = Invalid
      BY <1>2, <1>5, <2>3, <3>0, Zenon DEF DecodeBulk
    <3> QED
      BY <3>1, NoValueIsExact
  <2>4. CASE length >= 0 /\ Len(s) < start + length - 1
    <3>1. DecodeBulk(s, i + 1) = Incomplete
      BY <1>2, <1>5, <2>1, <2>4 DEF DecodeBulk
    <3> QED
      BY <3>1, NoValueIsExact
  <2>5. CASE length >= 0 /\ ~(Len(s) < start + length - 1)
    <3>1. PICK last : last = i + length + 3
      OBVIOUS
    <3>2. length \in Nat /\ i \in Nat
      BY <1>1, <2>1, <2>5
    <3>3. start = i + 4
      <4>1. LineEnd(s, i + 1) = i + 2
        BY <1>5, LengthFacts, Zenon
      <4> QED
        BY <1>2, <3>2, <4>1
    <3>4. last \in i + 3 .. n /\ start + length - 1 = last /\ start + length = last + 1
      BY <1>1, <2>5, <3>1, <3>2, <3>3
    <3> DEFINE text == SubSeq(s, i + 4, last)
    <3>19. /\ length <= MaxInt
          /\ text \in Seq(Symbols) /\ Len(text) = length
          /\ Matches(SubSeq(s, i, i + 3), Counted("$", length))
          /\ Counted("$", length) \in Seq(SUBSET Symbols)
      <4>1. i + length + 3 <= Len(s)
        BY <1>1, <3>1, <3>4
      <4> QED
        BY <1>2, <1>5, <3>1, <3>2, <4>1, CountedText
    <3>20. DecodeBulk(s, i + 1) = Closed(Bulk(text), s, last + 1)
      <4>1. DecodeBulk(s, i + 1) = Closed(Bulk(SubSeq(s, start, start + length - 1)), s, start + length)
        BY <1>2, <1>5, <2>1, <2>5 DEF DecodeBulk
      <4> QED
        BY <3>3, <3>4, <4>1
    <3>21. text = SubSeq(s, i + 4, last)
      OBVIOUS
    <3> HIDE DEF text
    <3>5. SUFFICES ASSUME Closed(Bulk(text), s, last + 1).res = "value"
                   PROVE  Exact(s, i, d, Closed(Bulk(text), s, last + 1))
      BY <3>20 DEF Exact
    <3>6. /\ (last + 1) + 1 <= Len(s) /\ SubSeq(s, last + 1, (last + 1) + 1) = CRLF
          /\ Closed(Bulk(text), s, last + 1) = Decoded(Bulk(text), (last + 1) + 2)
      <4>1. last + 1 \in 1 .. Len(s) + 1
        BY <1>1, <3>2, <3>4
      <4> QED
        BY <3>5, <4>1, ClosedFacts
    <3>7. SubSeq(s, i + 4, last) \o SubSeq(s, last + 1, last + 2) = SubSeq(s, i + 4, last + 2)
      <4>1. i + 4 \in 1 .. Len(s) + 1 /\ last \in (i + 4) - 1 .. Len(s) /\ last + 2 \in last .. Len(s)
        BY <1>1, <3>2, <3>4, <3>6
      <4> QED
        BY <4>1, PartsJoin
    <3>8. (last + 1) + 1 = last + 2 /\ (last + 1) + 2 = last + 3 /\ (last + 3) - 1 = last + 2
          /\ last + 3 \in i + 1 .. Len(s) + 1
      BY <1>1, <3>2, <3>4, <3>6
    <3>9. PICK v : v = Bulk(text)
      OBVIOUS
    <3>10. v = Value("$", text, <<>>) /\ v.type = "$" /\ v.text = text
      BY <3>9 DEF Bulk, Value
    <3>11. "$" \in Types
      BY DEF Types
    <3>12. PICK forms : v \in ValuesTo[d] /\ FormTo[d][v] = FormOf(v, forms)
      BY <3>19, <3>10, <3>11, ScalarFacts
    <3>13. FormOf(v, forms) = Counted("$", length) \o Only(text \o CRLF)
      BY <3>19, <3>10, Zenon DEF FormOf
    <3>14. Matches(SubSeq(s, i, (last + 3) - 1), FormTo[d][v])
      <4>1. PICK rest : rest = SubSeq(s, i + 4, last + 2)
        OBVIOUS
      <4>2. rest = text \o CRLF
        BY <3>21, <3>6, <3>7, <3>8, <4>1
      <4>3. rest \in Seq(Symbols)
        BY <3>19, <4>2, SymbolFacts, ConcatProperties
      <4>4. Only(rest) \in Seq(SUBSET Symbols) /\ Matches(rest, Only(rest))
        BY <4>3, OnlyFacts
      <4>5. i \in 1 .. Len(s) + 1 /\ i + 3 \in i - 1 .. Len(s) /\ last + 2 \in i + 3 .. Len(s)
            /\ (i + 3) + 1 = i + 4
        BY <1>1, <3>2, <3>4, <3>6
      <4>6. PICK f, g : f = Counted("$", length) /\ g = Only(rest)
        OBVIOUS
      <4>7. Matches(SubSeq(s, i, last + 2), f \o g)
        <5>1. f \in Seq(SUBSET Symbols) /\ Matches(SubSeq(s, i, i + 3), f)
          BY <3>19, <4>6, Zenon
        <5>2. g \in Seq(SUBSET Symbols) /\ Matches(SubSeq(s, (i + 3) + 1, last + 2), g)
          BY <4>1, <4>4, <4>5, <4>6
        <5> QED
          BY <4>5, <5>1, <5>2, PartsMatch
      <4>8. FormTo[d][v] = f \o g
        BY <3>12, <3>13, <4>2, <4>6, Zenon
      <4> QED
        BY <3>8, <4>7, <4>8
    <3>15. Exact(s, i, d, Decoded(v, last + 3))
      BY <3>8, <3>12, <3>14 DEF Exact, Decoded
    <3> QED
      BY <3>6, <3>8, <3>9, <3>15
  <2> QED
    BY <2>1, <2>2, <2>3, <2>4, <2>5
<1> QED
  BY <1>3, <1>4, <1>5

\* decodeFullResyncRDBFile.
LEMMA RDBFileExact ==
  ASSUME NEW d \in 1 .. MaxDepth, NEW s \in Seq(Symbols)
  PROVE  Exact(s, 1, d, DecodeFullResyncRDBFile(s))
<1>1. PICK n \in Nat : n = Len(s)
  BY LenProperties
<1>2. PICK start, length : start = LineEnd(s, 2) + 2 /\ length = Atoi(Line(s, 2))
  OBVIOUS
<1>3. CASE s = <<>>
  BY <1>3, NoValueIsExact DEF DecodeFullResyncRDBFile
<1>4. CASE s # <<>> /\ s[1] # "$"
  BY <1>4, NoValueIsExact DEF DecodeFullResyncRDBFile
<1>5. CASE s # <<>> /\ s[1] = "$" /\ LineEnd(s, 2) = 0
  BY <1>5, NoValueIsExact DEF DecodeFullResyncRDBFile
<1>6. CASE s # <<>> /\ s[1] = "$" /\ LineEnd(s, 2) # 0
  <2> DEFINE inner ==
        CASE ~IsNumber(Line(s, 2)) -> Invalid
          [] IsNumber(Line(s, 2)) /\ length < 1 -> Invalid
          [] IsNumber(Line(s, 2)) /\ length >= 1 /\ Len(s) < start + length - 1 -> Incomplete
          [] OTHER -> Decoded(Value("rdb", SubSeq(s, start, start + length - 1), <<>>), start + length)
  <2>1. DecodeFullResyncRDBFile(s) = inner
    BY <1>2, <1>6, Zenon DEF DecodeFullResyncRDBFile
  <2>2. CASE ~IsNumber(Line(s, 2))
    <3>1. inner = Invalid
      BY <2>2
    <3> QED
      BY <2>1, <3>1, NoValueIsExact
  <2>3. CASE IsNumber(Line(s, 2))
    <3>1. 1 \in 1 .. Len(s) /\ 1 + 1 = 2
      <4>1. n # 0
        BY <1>1, <1>6, EmptySeq
      <4> QED
        BY <1>1, <4>1
    <3>2. LineEnd(s, 1 + 1) # 0 /\ IsNumber(Line(s, 1 + 1)) /\ length = Atoi(Line(s, 1 + 1))
      BY <1>2, <1>6, <2>3, <3>1
    <3>3. length \in Ints /\ LineEnd(s, 1 + 1) = 1 + 2
      BY <3>1, <3>2, LengthFacts, Zenon
    <3>4. length \in Int /\ start = 5
      BY <1>2, <3>1, <3>3, IntsFacts
    <3>5. CASE length < 1
      <4>1. ~(length >= 1)
        BY <3>4, <3>5
      <4>2. inner = Invalid
        BY <2>3, <3>5, <4>1, Zenon
      <4> QED
        BY <2>1, <4>2, NoValueIsExact
    <3>6. CASE length >= 1 /\ Len(s) < start + length - 1
      <4>1. ~(length < 1)
        BY <3>4, <3>6
      <4>2. inner = Incomplete
        BY <2>3, <3>6, <4>1, Zenon
      <4> QED
        BY <2>1, <4>2, NoValueIsExact
    <3>7. CASE length >= 1 /\ ~(Len(s) < start + length - 1)
      <4>1. ~(length < 1) /\ length \in Nat
        BY <3>4, <3>7
      <4>2. inner = Decoded(Value("rdb", SubSeq(s, start, start + length - 1), <<>>), start + length)
        BY <2>3, <3>7, <4>1, Zenon
      <4>3. PICK last : last = 1 + length + 3
        OBVIOUS
      <4>4. /\ start + length - 1 = last /\ start + length = last + 1 /\ start = 1 + 4
            /\ last \in 4 .. n /\ 1 + length + 3 <= Len(s)
        BY <1>1, <3>4, <3>7, <4>1, <4>3
      <4> DEFINE text == SubSeq(s, 1 + 4, last)
      <4>5. /\ length <= MaxInt
            /\ text \in Seq(Symbols) /\ Len(text) = length
            /\ Matches(SubSeq(s, 1, 4), Counted("$", length))
            /\ Counted("$", length) \in Seq(SUBSET Symbols)
        <5>1. PICK i : i = 1
          OBVIOUS
        <5>2. /\ i \in 1 .. Len(s) /\ length \in Nat /\ s[i] = "$" /\ LineEnd(s, i + 1) # 0
              /\ IsNumber(Line(s, i + 1)) /\ length = Atoi(Line(s, i + 1))
              /\ i + length + 3 <= Len(s)
          BY <1>6, <3>1, <3>2, <4>1, <4>4, <5>1
        <5>3. /\ length <= MaxInt
              /\ SubSeq(s, i + 4, i + length + 3) \in Seq(Symbols)
              /\ Len(SubSeq(s, i + 4, i + length + 3)) = length
              /\ Matches(SubSeq(s, i, i + 3), Counted("$", length))
              /\ Counted("$", length) \in Seq(SUBSET Symbols)
          BY <5>2, CountedText
        <5>4. i + 3 = 4
          BY <5>1
        <5> QED
          BY <4>3, <5>1, <5>3, <5>4
      <4>15. text = SubSeq(s, 5, last)
        OBVIOUS
      <4>6. PICK v : v = Value("rdb", text, <<>>)
        OBVIOUS
      <4>7. inner = Decoded(v, last + 1)
        BY <4>2, <4>4, <4>6
      <4> HIDE DEF text, inner
      <4>8. v.type = "rdb" /\ v.text = text /\ "rdb" \in Types
        BY <4>6 DEF Value, Types
      <4>9. text \in Seq(Symbols) /\ Len(text) <= MaxInt
        BY <4>5, Zenon
      <4>10. PICK forms : v \in ValuesTo[d] /\ FormTo[d][v] = FormOf(v, forms)
        <5>1. /\ Value("rdb", text, <<>>) \in ValuesTo[d]
              /\ \E forms : FormTo[d][Value("rdb", text, <<>>)]
                              = FormOf(Value("rdb", text, <<>>), forms)
          BY <4>8, <4>9, ScalarFacts
        <5> QED
          BY <4>6, <5>1, Zenon
      <4>11. FormOf(v, forms) = Counted("$", length) \o Only(text)
        BY <4>5, <4>8, Zenon DEF FormOf
      <4>12. Matches(SubSeq(s, 1, (last + 1) - 1), FormTo[d][v])
        <5>1. Only(text) \in Seq(SUBSET Symbols) /\ Matches(text, Only(text))
          BY <4>9, OnlyFacts
        <5>2. /\ 1 \in 1 .. Len(s) + 1 /\ 4 \in 1 - 1 .. Len(s) /\ last \in 4 .. Len(s)
              /\ 4 + 1 = 5 /\ (last + 1) - 1 = last
          BY <1>1, <4>4
        <5>3. PICK f, g : f = Counted("$", length) /\ g = Only(text)
          OBVIOUS
        <5>4. f \in Seq(SUBSET Symbols) /\ Matches(SubSeq(s, 1, 4), f)
          BY <4>5, <5>3, Zenon
        <5>5. g \in Seq(SUBSET Symbols) /\ Matches(SubSeq(s, 4 + 1, last), g)
          BY <4>15, <5>1, <5>2, <5>3
        <5>6. Matches(SubSeq(s, 1, last), f \o g)
          BY <5>2, <5>4, <5>5, PartsMatch
        <5> QED
          BY <4>10, <4>11, <5>2, <5>3, <5>6, Zenon
      <4>13. last + 1 \in 1 + 1 .. Len(s) + 1
        BY <1>1, <4>4
      <4>14. Exact(s, 1, d, Decoded(v, last + 1))
        BY <4>10, <4>12, <4>13 DEF Exact, Decoded
      <4> QED
        BY <2>1, <4>7, <4>14
    <3> QED
      BY <3>4, <3>5, <3>6, <3>7
  <2> QED
    BY <2>2, <2>3
<1> QED
  BY <1>3, <1>4, <1>5, <1>6

-----------------------------------------------------------------------------
(* Arrays.                                                                 *)

\* What decodeArray's loop holds after n elements: values of depth d, whose
\* forms are those of what it has read since start.
ElementsSoFar(s, d, start, n, r) ==
  r.res = "value" =>
    \E elems \in Seq(ValuesTo[d]) :
      /\ r.value = Array(elems) /\ Len(elems) = n
      /\ r.next \in start .. Len(s) + 1
      /\ Matches(SubSeq(s, start, r.next - 1), FlattenSeq([i \in DOMAIN elems |-> FormTo[d][elems[i]]]))

\* What F makes of each element, one after the other.
AllOf(F, elems) == FlattenSeq([i \in DOMAIN elems |-> F[elems[i]]])

\* The encodings, or the forms, of one element more.
LEMMA OneElementMore ==
  ASSUME NEW S, NEW A, NEW F, NEW elems \in Seq(S), NEW v \in S, \A w \in S : F[w] \in Seq(A)
  PROVE  /\ Append(elems, v) \in Seq(S) /\ Len(Append(elems, v)) = Len(elems) + 1
         /\ AllOf(F, Append(elems, v)) = AllOf(F, elems) \o F[v]
<1>1. PICK n \in Nat : n = Len(elems)
  BY LenProperties
<1>2. PICK more : more = Append(elems, v)
  OBVIOUS
<1>3. /\ Append(elems, v) \in Seq(S) /\ Len(Append(elems, v)) = n + 1
      /\ \A i \in 1 .. n : Append(elems, v)[i] = elems[i]
      /\ Append(elems, v)[n + 1] = v
  BY <1>1, AppendProperties
<1>4. /\ more \in Seq(S) /\ Len(more) = n + 1
      /\ \A i \in 1 .. n : more[i] = elems[i]
      /\ more[n + 1] = v
  BY <1>2, <1>3
<1>5. \A w \in S : F[w] \in Seq(A)
  OBVIOUS
<1> DEFINE es == [i \in DOMAIN elems |-> F[elems[i]]]
           ms == [i \in DOMAIN more |-> F[more[i]]]
<1>6. es \in Seq(Seq(A)) /\ Len(es) = n
  BY <1>1, <1>5, ElementsType
<1>7. ms \in Seq(Seq(A)) /\ Len(ms) = n + 1
  BY <1>4, <1>5, ElementsType
<1>8. DOMAIN elems = 1 .. n /\ DOMAIN more = 1 .. n + 1
  BY <1>1, <1>4, LenProperties
<1>9. \A i \in 1 .. n : ms[i] = es[i]
  <2> SUFFICES ASSUME NEW i \in 1 .. n PROVE ms[i] = es[i]
    OBVIOUS
  <2>1. i \in 1 .. n + 1 /\ more[i] = elems[i]
    BY <1>4
  <2> QED
    BY <1>8, <2>1
<1>10. ms[n + 1] = F[v]
  <2>1. n + 1 \in 1 .. n + 1
    OBVIOUS
  <2> QED
    BY <1>4, <1>8, <2>1
<1> HIDE DEF es, ms
<1>11. PICK x : x = F[v]
  OBVIOUS
<1>12. x \in Seq(A)
  BY <1>5, <1>11
<1>13. /\ Append(es, x) \in Seq(Seq(A)) /\ Len(Append(es, x)) = n + 1
       /\ \A i \in 1 .. n : Append(es, x)[i] = es[i]
       /\ Append(es, x)[n + 1] = x
  BY <1>6, <1>12, AppendProperties
<1>14. ms = Append(es, x)
  <2>1. ASSUME NEW i \in 1 .. n + 1 PROVE ms[i] = Append(es, x)[i]
    <3>1. CASE i = n + 1
      BY <1>10, <1>11, <1>13, <3>1
    <3>2. CASE i # n + 1
      <4>1. i \in 1 .. n
        BY <3>2
      <4> QED
        BY <1>9, <1>13, <4>1
    <3> QED
      BY <3>1, <3>2
  <2> QED
    BY <1>7, <1>13, <2>1, SeqEqual
<1>15. FlattenSeq(Append(es, x)) = FlattenSeq(es) \o x
  BY <1>6, <1>12, FlattenAppend
<1> QED
  BY <1>1, <1>2, <1>4, <1>11, <1>14, <1>15 DEF es, ms, AllOf

\* One round of the loop.
LEMMA ElementRound ==
  ASSUME NEW d \in 0 .. MaxDepth, NEW s \in Seq(Symbols), NEW start \in 1 .. Len(s) + 1,
         NEW n \in Nat, NEW r, NEW read,
         \A j \in 1 .. Len(s) + 1 : Exact(s, j, d, read[j]),
         ElementsSoFar(s, d, start, n, r)
  PROVE  ElementsSoFar(s, d, start, n + 1, ReadElement(r, read))
<1>1. PICK len \in Nat : len = Len(s)
  BY LenProperties
<1>2. CASE r.res # "value"
  <2>1. ReadElement(r, read) = r
    BY <1>2 DEF ReadElement
  <2> QED
    BY <1>2, <2>1 DEF ElementsSoFar
<1>3. CASE r.res = "value"
  <2>1. PICK elems \in Seq(ValuesTo[d]) :
          /\ r.value = Array(elems) /\ Len(elems) = n
          /\ r.next \in start .. Len(s) + 1
          /\ Matches(SubSeq(s, start, r.next - 1), FlattenSeq([i \in DOMAIN elems |-> FormTo[d][elems[i]]]))
    BY <1>3 DEF ElementsSoFar
  <2>2. PICK j, e : j = r.next /\ e = read[r.next]
    OBVIOUS
  <2>3. ReadElement(r, read) = WithElement(r, e)
    BY <1>3, <2>2 DEF ReadElement
  <2>4. j \in start .. len + 1 /\ j \in 1 .. Len(s) + 1 /\ start \in 1 .. len + 1
    BY <1>1, <2>1, <2>2
  <2>5. Exact(s, j, d, e)
    BY <2>2, <2>4
  <2>6. CASE e.res # "value"
    <3>1. WithElement(r, e) = e
      BY <2>6 DEF WithElement
    <3> QED
      BY <2>3, <2>6, <3>1 DEF ElementsSoFar
  <2>7. CASE e.res = "value"
    <3>1. /\ e.value \in ValuesTo[d] /\ e.next \in j + 1 .. Len(s) + 1
          /\ Matches(SubSeq(s, j, e.next - 1), FormTo[d][e.value])
      BY <2>5, <2>7 DEF Exact
    <3>2. PICK v, next : v = e.value /\ next = e.next
      OBVIOUS
    <3>3. PICK more : more = Append(elems, v)
      OBVIOUS
    <3>4. WithElement(r, e) = Decoded(Array(more), next)
      <4>1. r.value.elems = elems
        BY <2>1 DEF Array, Value
      <4> QED
        BY <2>7, <3>2, <3>3, <4>1 DEF WithElement
    <3>11. \A w \in ValuesTo[d] : FormTo[d][w] \in Seq(SUBSET Symbols)
      BY FormingType
    <3> DEFINE forms(es) == FlattenSeq([i \in DOMAIN es |-> FormTo[d][es[i]]])
    <3>5. /\ more \in Seq(ValuesTo[d]) /\ Len(more) = n + 1
          /\ forms(more) = forms(elems) \o FormTo[d][v]
      <4>1. PICK F, A : F = FormTo[d] /\ A = SUBSET Symbols
        OBVIOUS
      <4>3. \A w \in ValuesTo[d] : F[w] \in Seq(A)
        BY <3>11, <4>1
      <4>2. /\ Append(elems, v) \in Seq(ValuesTo[d]) /\ Len(Append(elems, v)) = Len(elems) + 1
            /\ AllOf(F, Append(elems, v)) = AllOf(F, elems) \o F[v]
        <5>1. elems \in Seq(ValuesTo[d]) /\ v \in ValuesTo[d]
          BY <3>1, <3>2
        <5> QED
          BY <4>3, <5>1, OneElementMore
      <4>4. AllOf(F, elems) = forms(elems) /\ AllOf(F, more) = forms(more)
        BY <4>1 DEF AllOf
      <4> QED
        BY <2>1, <3>3, <4>1, <4>2, <4>4
    <3>6. forms(elems) \in Seq(SUBSET Symbols)
      <4>1. [i \in DOMAIN elems |-> FormTo[d][elems[i]]] \in Seq(Seq(SUBSET Symbols))
        BY <2>1, <3>11, ElementsType
      <4> QED
        BY <4>1, FlattenType
    <3>12. Matches(SubSeq(s, start, j - 1), forms(elems))
      BY <2>1, <2>2
    <3> HIDE DEF forms
    <3>7. Matches(SubSeq(s, start, next - 1), forms(more))
      <4>1. next \in j + 1 .. len + 1
        BY <1>1, <3>1, <3>2
      <4>2. /\ start \in 1 .. Len(s) + 1 /\ j - 1 \in start - 1 .. Len(s)
            /\ next - 1 \in j - 1 .. Len(s) /\ (j - 1) + 1 = j
        BY <1>1, <2>4, <4>1
      <4>3. PICK f, g : f = forms(elems) /\ g = FormTo[d][v]
        OBVIOUS
      <4>4. f \in Seq(SUBSET Symbols) /\ g \in Seq(SUBSET Symbols)
        BY <3>1, <3>2, <3>6, <3>11, <4>3
      <4>5. Matches(SubSeq(s, start, j - 1), f) /\ Matches(SubSeq(s, (j - 1) + 1, next - 1), g)
        BY <3>1, <3>2, <3>12, <4>2, <4>3
      <4>6. Matches(SubSeq(s, start, next - 1), f \o g)
        BY <4>2, <4>4, <4>5, PartsMatch
      <4> QED
        BY <3>5, <4>3, <4>6
    <3>9. next \in start .. Len(s) + 1
      BY <1>1, <2>4, <3>1, <3>2
    <3>10. ElementsSoFar(s, d, start, n + 1, Decoded(Array(more), next))
      BY <3>5, <3>7, <3>9 DEF ElementsSoFar, Decoded, forms
    <3> QED
      BY <2>3, <3>4, <3>10
  <2> QED
    BY <2>6, <2>7
<1> QED
  BY <1>2, <1>3

\* All its rounds.
LEMMA ElementsExact ==
  ASSUME NEW d \in 0 .. MaxDepth, NEW s \in Seq(Symbols), NEW start \in 1 .. Len(s) + 1,
         NEW length \in Nat, NEW read,
         \A j \in 1 .. Len(s) + 1 : Exact(s, j, d, read[j])
  PROVE  ElementsSoFar(s, d, start, length, DecodeElements(start, length, read))
<1> DEFINE R == ElementsRead(start, length, read)
           T == {n \in Nat : n \in 0 .. length => ElementsSoFar(s, d, start, n, R[n])}
<1>1. \A n \in 0 .. length : R[n] = IF n = 0 THEN Decoded(Array(<<>>), start)
                                    ELSE ReadElement(R[n - 1], read)
  BY ElementsEquation
<1> HIDE DEF R
<1>2. ASSUME NEW n \in Nat, \A k \in 0 .. n - 1 : k \in T PROVE n \in T
  <2>1. SUFFICES ASSUME n \in 0 .. length PROVE ElementsSoFar(s, d, start, n, R[n])
    OBVIOUS
  <2>2. CASE n = 0
    <3>1. R[n] = Decoded(Array(<<>>), start)
      BY <1>1, <2>1, <2>2
    <3>2. <<>> \in Seq(ValuesTo[d]) /\ Len(<<>>) = 0
      BY EmptySeq
    <3>3. FlattenSeq([i \in DOMAIN <<>> |-> FormTo[d][<<>>[i]]]) = <<>>
      <4>1. [i \in DOMAIN <<>> |-> FormTo[d][<<>>[i]]] = <<>>
        OBVIOUS
      <4>2. FlattenSeq(<<>>) = <<>>
        BY <3>2 DEF FlattenSeq
      <4> QED
        BY <4>1, <4>2
    <3>4. SubSeq(s, start, start - 1) = <<>>
      <4>1. start \in Int /\ start - 1 \in Int /\ start - 1 < start
        OBVIOUS
      <4> QED
        BY <4>1, SubSeqEmpty
    <3>5. start \in start .. Len(s) + 1
      <4>1. Len(s) \in Nat
        BY LenProperties
      <4> QED
        BY <4>1
    <3>6. PICK none : none = <<>>
      OBVIOUS
    <3>7. ElementsSoFar(s, d, start, 0, Decoded(Array(none), start))
      <4>1. none \in Seq(ValuesTo[d]) /\ Len(none) = 0
        BY <3>2, <3>6
      <4>2. Matches(SubSeq(s, start, start - 1), FlattenSeq([i \in DOMAIN none |-> FormTo[d][none[i]]]))
        <5>1. Matches(<<>>, <<>>)
          BY <3>2 DEF Matches
        <5> QED
          BY <3>3, <3>4, <3>6, <5>1
      <4> QED
        BY <3>5, <4>1, <4>2 DEF ElementsSoFar, Decoded
    <3> QED
      BY <2>2, <3>1, <3>6, <3>7
  <2>3. CASE n # 0
    <3>1. n - 1 \in 0 .. n - 1 /\ n - 1 \in 0 .. length /\ n - 1 \in Nat /\ (n - 1) + 1 = n
      BY <2>1, <2>3
    <3>2. n - 1 \in T
      BY <1>2, <3>1, Zenon
    <3>3. ElementsSoFar(s, d, start, n - 1, R[n - 1])
      BY <3>1, <3>2
    <3>4. ElementsSoFar(s, d, start, (n - 1) + 1, ReadElement(R[n - 1], read))
      BY <3>1, <3>3, ElementRound
    <3>5. R[n] = ReadElement(R[n - 1], read)
      BY <1>1, <2>1, <2>3
    <3> QED
      BY <3>1, <3>4, <3>5
  <2> QED
    BY <2>2, <2>3
<1>3. \A n \in Nat : n \in T
  <2> HIDE DEF T
  <2> QED
    BY <1>2, StrongInduction
<1>4. ElementsSoFar(s, d, start, length, R[length])
  BY <1>3
<1> QED
  BY <1>4 DEF DecodeElements, R

\* decodeArray.
LEMMA ArrayExact ==
  ASSUME NEW d \in 1 .. MaxDepth, NEW s \in Seq(Symbols), NEW i \in 1 .. Len(s), NEW read,
         s[i] = "*", \A j \in 1 .. Len(s) + 1 : Exact(s, j, d - 1, read[j])
  PROVE  Exact(s, i, d, DecodeArray(s, i + 1, read))
<1>1. PICK n \in Nat : n = Len(s)
  BY LenProperties
<1>2. PICK start, length : start = LineEnd(s, i + 1) + 2 /\ length = Atoi(Line(s, i + 1))
  OBVIOUS
<1>3. CASE LineEnd(s, i + 1) = 0
  BY <1>3, NoValueIsExact DEF DecodeArray
<1>4. CASE LineEnd(s, i + 1) # 0 /\ ~IsNumber(Line(s, i + 1))
  BY <1>4, NoValueIsExact DEF DecodeArray
<1>5. CASE LineEnd(s, i + 1) # 0 /\ IsNumber(Line(s, i + 1))
  <2>0. /\ LineEnd(s, i + 1) = i + 2 /\ i + 3 <= Len(s)
        /\ length \in Ints
        /\ Matches(SubSeq(s, i, i + 3), Counted("*", length))
    BY <1>2, <1>5, LengthFacts
  <2>1. length \in Int /\ length <= MaxInt
    <3>1. length \in Ints
      BY <2>0, Zenon
    <3> QED
      BY <3>1, IntsFacts
  <2>2. CASE length = -1
    <3>1. DecodeArray(s, i + 1, read) = Decoded(NilArray, start)
      BY <1>2, <1>5, <2>2 DEF DecodeArray
    <3>2. s[i] # "$" /\ s[i] \in {"$", "*"}
      OBVIOUS
    <3> QED
      BY <1>2, <1>5, <2>2, <3>1, <3>2, NilExact
  <2>3. CASE length < -1
    <3>0. length # -1
      BY <2>1, <2>3
    <3>1. DecodeArray(s, i + 1, read) = Invalid
      BY <1>2, <1>5, <2>3, <3>0, Zenon DEF DecodeArray
    <3> QED
      BY <3>1, NoValueIsExact
  <2>4. CASE length >= 0
    <3>1. length \in Nat /\ length # -1 /\ ~(length < -1) /\ i \in Nat
      BY <1>1, <2>1, <2>4
    <3>2. start = i + 4 /\ i + 3 <= n
      <4>1. LineEnd(s, i + 1) = i + 2 /\ i + 3 <= Len(s)
        BY <2>0, Zenon
      <4> QED
        BY <1>1, <1>2, <3>1, <4>1
    <3>3. PICK r : r = DecodeElements(start, length, read)
      OBVIOUS
    <3>4. DecodeArray(s, i + 1, read) = r
      BY <1>2, <1>5, <3>1, <3>3, Zenon DEF DecodeArray
    <3>5. ElementsSoFar(s, d - 1, start, length, r)
      <4>1. start \in 1 .. Len(s) + 1
        BY <1>1, <3>1, <3>2
      <4>2. d - 1 \in 0 .. MaxDepth
        BY ValueFacts
      <4> QED
        BY <3>1, <3>3, <4>1, <4>2, ElementsExact
    <3>6. SUFFICES ASSUME r.res = "value"
                   PROVE  /\ r.value \in ValuesTo[d]
                          /\ r.next \in i + 1 .. Len(s) + 1
                          /\ Matches(SubSeq(s, i, r.next - 1), FormTo[d][r.value])
      BY <3>4 DEF Exact
    <3>7. PICK elems \in Seq(ValuesTo[d - 1]) :
            /\ r.value = Array(elems) /\ Len(elems) = length
            /\ r.next \in start .. Len(s) + 1
            /\ Matches(SubSeq(s, start, r.next - 1),
                       FlattenSeq([k \in DOMAIN elems |-> FormTo[d - 1][elems[k]]]))
      BY <3>5, <3>6 DEF ElementsSoFar
    <3>8. PICK v, next : v = r.value /\ next = r.next
      OBVIOUS
    <3>9. v.type = "*" /\ v.elems = elems /\ v = [type |-> "*", text |-> <<>>, elems |-> elems]
      BY <3>7, <3>8 DEF Array, Value
    <3>10. v \in ValuesTo[d]
      <4>1. "*" \in Types
        BY DEF Types
      <4>2. <<>> \in Seq(Symbols)
        BY EmptySeq
      <4>3. v \in [type : Types, text : Seq(Symbols), elems : Seq(ValuesTo[d - 1])]
        BY <3>9, <4>1, <4>2
      <4>4. Len(v.elems) <= MaxInt
        BY <2>1, <3>7, <3>9
      <4> QED
        BY <3>9, <4>3, <4>4, ValueFacts
    <3> DEFINE forms == [k \in DOMAIN elems |-> FormTo[d - 1][elems[k]]]
    <3>11. FormTo[d][v] = FormOf(v, forms)
      BY <3>9, <3>10, FormValue
    <3>12. FormTo[d][v] = Counted("*", length) \o FlattenSeq(forms)
      BY <3>7, <3>9, <3>11 DEF FormOf
    <3>13. FlattenSeq(forms) \in Seq(SUBSET Symbols)
      <4>1. \A w \in ValuesTo[d - 1] : FormTo[d - 1][w] \in Seq(SUBSET Symbols)
        <5>1. d - 1 \in 0 .. MaxDepth
          BY ValueFacts
        <5> QED
          BY <5>1, FormingType
      <4>2. forms \in Seq(Seq(SUBSET Symbols))
        <5>1. PICK F, A : F = FormTo[d - 1] /\ A = SUBSET Symbols
          OBVIOUS
        <5>2. \A w \in ValuesTo[d - 1] : F[w] \in Seq(A)
          BY <4>1, <5>1
        <5>3. [k \in DOMAIN elems |-> F[elems[k]]] \in Seq(Seq(A))
          BY <3>7, <5>2, ElementsType
        <5> QED
          BY <5>1, <5>3
      <4> QED
        BY <4>2, FlattenType
    <3>17. Matches(SubSeq(s, start, next - 1), FlattenSeq(forms))
      BY <3>7, <3>8
    <3> HIDE DEF forms
    <3>14. next \in start .. n + 1
      BY <1>1, <3>7, <3>8
    <3>15. Matches(SubSeq(s, i, next - 1), FormTo[d][v])
      <4>1. /\ i \in 1 .. Len(s) + 1 /\ i + 3 \in i - 1 .. Len(s) /\ next - 1 \in i + 3 .. Len(s)
            /\ (i + 3) + 1 = start
        BY <1>1, <3>1, <3>2, <3>14
      <4>2. PICK f, g : f = Counted("*", length) /\ g = FlattenSeq(forms)
        OBVIOUS
      <4>3. f \in Seq(SUBSET Symbols) /\ g \in Seq(SUBSET Symbols)
        <5>1. "*" \in Symbols
          BY SymbolFacts, Zenon
        <5> QED
          BY <3>13, <4>2, <5>1, CountedType, Zenon
      <4>4. Matches(SubSeq(s, i, i + 3), f) /\ Matches(SubSeq(s, (i + 3) + 1, next - 1), g)
        BY <2>0, <3>17, <4>1, <4>2, Zenon
      <4>5. Matches(SubSeq(s, i, next - 1), f \o g)
        BY <4>1, <4>3, <4>4, PartsMatch
      <4> QED
        BY <3>12, <4>2, <4>5, Zenon
    <3>16. (i + 3) + 1 = start /\ next \in i + 1 .. Len(s) + 1
      BY <1>1, <3>1, <3>2, <3>14
    <3> QED
      BY <3>8, <3>10, <3>15, <3>16
  <2> QED
    BY <2>1, <2>2, <2>3, <2>4
<1> QED
  BY <1>3, <1>4, <1>5

-----------------------------------------------------------------------------
\* doDecodeValue, given that the elements of arrays are decoded exactly.
LEMMA DecodeAtExact ==
  ASSUME NEW d \in 1 .. MaxDepth, NEW s \in Seq(Symbols), NEW i \in 1 .. Len(s) + 1, NEW read,
         \A j \in 1 .. Len(s) + 1 : Exact(s, j, d - 1, read[j])
  PROVE  Exact(s, i, d, DecodeAt(s, i, read))
<1>1. PICK n \in Nat : n = Len(s)
  BY LenProperties
<1>2. CASE i > Len(s)
  BY <1>2, NoValueIsExact DEF DecodeAt
<1>3. CASE i <= Len(s) /\ s[i] \in {"+", "-"}
  <2>1. DecodeAt(s, i, read) = DecodeText(s[i], s, i + 1)
    BY <1>3 DEF DecodeAt
  <2>2. i \in 1 .. Len(s)
    BY <1>1, <1>3
  <2>3. CASE LineEnd(s, i + 1) = 0
    BY <2>1, <2>3, NoValueIsExact DEF DecodeText
  <2>4. CASE LineEnd(s, i + 1) # 0
    <3>1. DecodeAt(s, i, read) = Decoded(Value(s[i], Line(s, i + 1), <<>>), LineEnd(s, i + 1) + 2)
      BY <2>1, <2>4 DEF DecodeText
    <3> QED
      BY <1>3, <2>2, <2>4, <3>1, LineExact
  <2> QED
    BY <2>3, <2>4
<1>4. CASE i <= Len(s) /\ s[i] = ":"
  <2>1. DecodeAt(s, i, read) = DecodeInteger(s, i + 1)
    BY <1>4 DEF DecodeAt
  <2>2. i \in 1 .. Len(s)
    BY <1>1, <1>4
  <2>3. CASE LineEnd(s, i + 1) = 0 \/ ~IsNumber(Line(s, i + 1))
    BY <2>1, <2>3, NoValueIsExact DEF DecodeInteger
  <2>4. CASE LineEnd(s, i + 1) # 0 /\ IsNumber(Line(s, i + 1))
    <3>1. DecodeAt(s, i, read) = Decoded(Integer(Atoi(Line(s, i + 1))), LineEnd(s, i + 1) + 2)
      BY <1>4, <2>1, <2>4 DEF DecodeInteger
    <3> QED
      BY <1>4, <2>2, <2>4, <3>1, IntegerExact
  <2> QED
    BY <2>3, <2>4
<1>5. CASE i <= Len(s) /\ s[i] = "$"
  <2>1. DecodeAt(s, i, read) = DecodeBulk(s, i + 1)
    BY <1>5 DEF DecodeAt
  <2>2. i \in 1 .. Len(s)
    BY <1>1, <1>5
  <2> QED
    BY <1>5, <2>1, <2>2, BulkExact
<1>6. CASE i <= Len(s) /\ s[i] = "*"
  <2>1. DecodeAt(s, i, read) = DecodeArray(s, i + 1, read)
    BY <1>6 DEF DecodeAt
  <2>2. i \in 1 .. Len(s)
    BY <1>1, <1>6
  <2> QED
    BY <1>6, <2>1, <2>2, ArrayExact
<1>7. CASE i <= Len(s) /\ s[i] \notin {"+", "-", ":", "$", "*"}
  <2>0. ~(i > Len(s))
    BY <1>1, <1>7
  <2>1. DecodeAt(s, i, read) = Invalid
    BY <1>7, <2>0 DEF DecodeAt
  <2> QED
    BY <2>1, NoValueIsExact
<1>8. i > Len(s) \/ i <= Len(s)
  BY <1>1
<1> QED
  BY <1>2, <1>3, <1>4, <1>5, <1>6, <1>7, <1>8

\* So at every depth.
LEMMA DecodersExact ==
  ASSUME NEW s \in Seq(Symbols)
  PROVE  \A d \in 0 .. MaxDepth : \A i \in 1 .. Len(s) + 1 : Exact(s, i, d, Decoders(s)[d][i])
<1> DEFINE T == {d \in Nat : d \in 0 .. MaxDepth =>
                               \A i \in 1 .. Len(s) + 1 : Exact(s, i, d, Decoders(s)[d][i])}
<1>1. ASSUME NEW d \in Nat, \A k \in 0 .. d - 1 : k \in T PROVE d \in T
  <2>1. SUFFICES ASSUME d \in 0 .. MaxDepth, NEW i \in 1 .. Len(s) + 1
                 PROVE  Exact(s, i, d, Decoders(s)[d][i])
    OBVIOUS
  <2>2. CASE d = 0
    <3>1. Decoders(s)[d] = [j \in 1 .. Len(s) + 1 |-> Invalid]
      BY <2>1, <2>2, DecodersEquation
    <3>2. Decoders(s)[d][i] = Invalid
      BY <3>1
    <3> QED
      BY <3>2, NoValueIsExact
  <2>3. CASE d # 0
    <3>1. d - 1 \in 0 .. d - 1 /\ d - 1 \in 0 .. MaxDepth /\ d \in 1 .. MaxDepth
      BY <2>1, <2>3, RespAssumption
    <3>2. d - 1 \in T
      BY <1>1, <3>1, Zenon
    <3>3. \A j \in 1 .. Len(s) + 1 : Exact(s, j, d - 1, Decoders(s)[d - 1][j])
      BY <3>1, <3>2
    <3>4. Decoders(s)[d] = [j \in 1 .. Len(s) + 1 |-> DecodeAt(s, j, Decoders(s)[d - 1])]
      BY <2>1, <2>3, DecodersEquation
    <3>5. Decoders(s)[d][i] = DecodeAt(s, i, Decoders(s)[d - 1])
      BY <3>4
    <3> QED
      BY <3>1, <3>3, <3>5, DecodeAtExact
  <2> QED
    BY <2>2, <2>3
<1>2. \A d \in Nat : d \in T
  <2> HIDE DEF T
  <2> QED
    BY <1>1, StrongInduction
<1> QED
  BY <1>2

\* What a decoder may return of the symbols s: a value, only if the symbols
\* before "next" have its form.
TakesExactly(s, r) ==
  r.res = "value" => /\ r.value \in Values
                     /\ r.next \in 2 .. Len(s) + 1
                     /\ Matches(SubSeq(s, 1, r.next - 1), Form(r.value))

\* Decode and DecodeFullResyncRDBFile take what the value they return is written
\* as: every text as it is, every number in a spelling that Atoi takes.
THEOREM DecodeTakesExactly ==
  \A s \in Seq(Symbols) : TakesExactly(s, Decode(s)) /\ TakesExactly(s, DecodeFullResyncRDBFile(s))
<1>1. MaxDepth \in 1 .. MaxDepth /\ MaxDepth \in 0 .. MaxDepth
  BY RespAssumption
<1>2. ASSUME NEW s \in Seq(Symbols), NEW r, Exact(s, 1, MaxDepth, r)
      PROVE  TakesExactly(s, r)
  BY <1>2 DEF Exact, TakesExactly, Values, Form
<1>3. ASSUME NEW s \in Seq(Symbols)
      PROVE  Exact(s, 1, MaxDepth, Decode(s))
  <2>1. 1 \in 1 .. Len(s) + 1
    BY LenProperties
  <2> QED
    BY <1>1, <2>1, DecodersExact DEF Decode
<1>4. ASSUME NEW s \in Seq(Symbols)
      PROVE  Exact(s, 1, MaxDepth, DecodeFullResyncRDBFile(s))
  BY <1>1, RDBFileExact
<1> QED
  BY <1>2, <1>3, <1>4

-----------------------------------------------------------------------------
(* More bytes.  A reader decodes what it has, and again when more has come:*)
(* whatever was decided stays so.                                          *)

\* u begins with s.
Begins(s, u) ==
  /\ s \in Seq(Symbols) /\ u \in Seq(Symbols) /\ Len(s) <= Len(u)
  /\ \A i \in 1 .. Len(s) : u[i] = s[i]

\* A part of s is the same part of u.
LEMMA SamePart ==
  ASSUME NEW s, NEW u, Begins(s, u), NEW a \in 1 .. Len(s) + 1, NEW b \in a - 1 .. Len(s)
  PROVE  SubSeq(u, a, b) = SubSeq(s, a, b)
<1>1. PICK n, m \in Nat : n = Len(s) /\ m = Len(u) /\ n <= m
  BY LenProperties DEF Begins
<1>2. s \in Seq(Symbols) /\ u \in Seq(Symbols)
  BY DEF Begins
<1>3. a \in 1 .. Len(u) + 1 /\ b \in a - 1 .. Len(u) /\ a \in 1 .. n + 1 /\ b \in a - 1 .. n
  BY <1>1
<1>4. /\ SubSeq(s, a, b) \in Seq(Symbols) /\ Len(SubSeq(s, a, b)) = b - a + 1
      /\ \A i \in 1 .. b - a + 1 : SubSeq(s, a, b)[i] = s[a + i - 1]
  BY <1>2, PartFacts
<1>5. /\ SubSeq(u, a, b) \in Seq(Symbols) /\ Len(SubSeq(u, a, b)) = b - a + 1
      /\ \A i \in 1 .. b - a + 1 : SubSeq(u, a, b)[i] = u[a + i - 1]
  BY <1>2, <1>3, PartFacts
<1>6. ASSUME NEW i \in 1 .. b - a + 1 PROVE SubSeq(u, a, b)[i] = SubSeq(s, a, b)[i]
  <2>1. a + i - 1 \in 1 .. Len(s)
    BY <1>1, <1>3
  <2>2. u[a + i - 1] = s[a + i - 1]
    BY <2>1 DEF Begins
  <2> QED
    BY <1>4, <1>5, <2>2
<1>7. \A i \in 1 .. Len(SubSeq(u, a, b)) : SubSeq(u, a, b)[i] = SubSeq(s, a, b)[i]
  BY <1>5, <1>6
<1>8. PICK p, q : p = SubSeq(u, a, b) /\ q = SubSeq(s, a, b)
  OBVIOUS
<1>9. p \in Seq(Symbols) /\ q \in Seq(Symbols) /\ Len(p) = Len(q) /\ \A i \in 1 .. Len(p) : p[i] = q[i]
  BY <1>4, <1>5, <1>7, <1>8
<1> QED
  BY <1>8, <1>9, SeqEqual

\* The first CRLF is the one that no other precedes.
LEMMA EndIsFirst ==
  ASSUME NEW s \in Seq(Symbols), NEW i \in 1 .. Len(s) + 1, NEW e \in i .. Len(s) - 1,
         SubSeq(s, e, e + 1) = CRLF, \A h \in i .. e - 1 : SubSeq(s, h, h + 1) # CRLF
  PROVE  LineEnd(s, i) = e
<1> DEFINE P(j) == /\ SubSeq(s, j, j + 1) = CRLF
                   /\ \A h \in i .. j - 1 : SubSeq(s, h, h + 1) # CRLF
<1>1. PICK n \in Nat : n = Len(s)
  BY LenProperties
<1>2. LineEnd(s, i) # 0
  <2>1. LineEnd(s, i) = CHOOSE j \in i .. Len(s) - 1 : P(j)
    BY DEF LineEnd
  <2>2. (CHOOSE j \in i .. Len(s) - 1 : P(j)) \in i .. Len(s) - 1
    <3>1. P(e)
      OBVIOUS
    <3> HIDE DEF P
    <3> QED
      BY <3>1
  <2>3. 0 \notin i .. Len(s) - 1
    BY <1>1
  <2> QED
    BY <2>1, <2>2, <2>3
<1>3. PICK f : f = LineEnd(s, i)
  OBVIOUS
<1>4. f \in i .. n - 1 /\ P(f)
  BY <1>1, <1>2, <1>3, FirstEnd
<1>5. ~(f < e) /\ ~(e < f)
  <2>1. f < e => f \in i .. e - 1
    BY <1>1, <1>4
  <2>2. e < f => e \in i .. f - 1
    BY <1>1, <1>4
  <2> QED
    BY <1>4, <2>1, <2>2
<1> QED
  BY <1>1, <1>3, <1>4, <1>5

\* A line that has ended is the same line.
LEMMA LineStays ==
  ASSUME NEW s, NEW u, Begins(s, u), NEW i \in 1 .. Len(s) + 1, LineEnd(s, i) # 0
  PROVE  LineEnd(u, i) = LineEnd(s, i) /\ Line(u, i) = Line(s, i)
<1>1. PICK n, m \in Nat : n = Len(s) /\ m = Len(u) /\ n <= m
  BY LenProperties DEF Begins
<1>2. s \in Seq(Symbols) /\ u \in Seq(Symbols) /\ i \in Nat
  BY <1>1 DEF Begins
<1>3. PICK e : e = LineEnd(s, i)
  OBVIOUS
<1>4. /\ e \in i .. n - 1 /\ SubSeq(s, e, e + 1) = CRLF
      /\ \A h \in i .. e - 1 : SubSeq(s, h, h + 1) # CRLF
  BY <1>1, <1>2, <1>3, FirstEnd
<1>5. \A h \in i .. e : SubSeq(u, h, h + 1) = SubSeq(s, h, h + 1)
  <2> SUFFICES ASSUME NEW h \in i .. e PROVE SubSeq(u, h, h + 1) = SubSeq(s, h, h + 1)
    OBVIOUS
  <2>1. h \in 1 .. Len(s) + 1 /\ h + 1 \in h - 1 .. Len(s)
    BY <1>1, <1>2, <1>4
  <2> QED
    BY <2>1, SamePart
<1>6. LineEnd(u, i) = e
  <2>1. e \in i .. e /\ \A h \in i .. e - 1 : h \in i .. e
    BY <1>2, <1>4
  <2>2. SubSeq(u, e, e + 1) = CRLF /\ \A h \in i .. e - 1 : SubSeq(u, h, h + 1) # CRLF
    BY <1>4, <1>5, <2>1
  <2>3. e \in i .. Len(u) - 1 /\ i \in 1 .. Len(u) + 1
    BY <1>1, <1>2, <1>4
  <2> QED
    BY <1>2, <2>2, <2>3, EndIsFirst
<1>7. SubSeq(u, i, e - 1) = SubSeq(s, i, e - 1)
  <2>1. e - 1 \in i - 1 .. Len(s)
    BY <1>1, <1>2, <1>4
  <2> QED
    BY <2>1, SamePart
<1> QED
  BY <1>3, <1>6, <1>7 DEF Line

\* What a decoder found is found again, unless it was that there is not enough.
Stays(r, more) == r.res # "incomplete" => more = r

\* A prefix, position by position.
LEMMA PrefixFacts ==
  ASSUME NEW p \in Seq(Symbols), NEW q \in Seq(Symbols)
  PROVE  IsPrefix(p, q) <=> Len(p) <= Len(q) /\ \A i \in 1 .. Len(p) : p[i] = q[i]
<1>1. PICK n, m \in Nat : n = Len(p) /\ m = Len(q)
  BY LenProperties
<1>2. SUFFICES ASSUME n <= m
               PROVE  SubSeq(p, 1, n) = SubSeq(q, 1, n) <=> \A i \in 1 .. n : p[i] = q[i]
  BY <1>1 DEF IsPrefix
<1>3. /\ 1 \in 1 .. Len(p) + 1 /\ n \in 1 - 1 .. Len(p) /\ 1 \in 1 .. Len(q) + 1 /\ n \in 1 - 1 .. Len(q)
      /\ n - 1 + 1 = n
  BY <1>1, <1>2
<1>4. PICK a, b : a = SubSeq(p, 1, n) /\ b = SubSeq(q, 1, n)
  OBVIOUS
<1>5. /\ SubSeq(p, 1, n) \in Seq(Symbols) /\ Len(SubSeq(p, 1, n)) = n - 1 + 1
      /\ \A i \in 1 .. n - 1 + 1 : SubSeq(p, 1, n)[i] = p[1 + i - 1]
  BY <1>3, PartFacts
<1>6. /\ SubSeq(q, 1, n) \in Seq(Symbols) /\ Len(SubSeq(q, 1, n)) = n - 1 + 1
      /\ \A i \in 1 .. n - 1 + 1 : SubSeq(q, 1, n)[i] = q[1 + i - 1]
  BY <1>3, PartFacts
<1>7. \A i \in 1 .. n : 1 + i - 1 = i
  BY <1>1
<1>8. /\ a \in Seq(Symbols) /\ b \in Seq(Symbols) /\ Len(a) = n /\ Len(b) = n
      /\ \A i \in 1 .. n : a[i] = p[i] /\ b[i] = q[i]
  BY <1>3, <1>4, <1>5, <1>6, <1>7
<1>9. ASSUME \A i \in 1 .. n : p[i] = q[i] PROVE a = b
  <2>1. \A i \in 1 .. Len(a) : a[i] = b[i]
    BY <1>8, <1>9
  <2> QED
    BY <1>8, <2>1, SeqEqual
<1>10. ASSUME a = b, NEW i \in 1 .. n PROVE p[i] = q[i]
  BY <1>8, <1>10
<1> QED
  BY <1>4, <1>9, <1>10

\* The least of two numbers.
LEMMA LeastOfTwo ==
  ASSUME NEW x \in Int, NEW y \in Int
  PROVE  Min({x, y}) = IF x <= y THEN x ELSE y
<1>1. x <= y => \A z \in {x, y} : x <= z
  OBVIOUS
<1>2. ~(x <= y) => \A z \in {x, y} : y <= z
  OBVIOUS
<1>3. \A v, w \in {x, y} : v <= w /\ w <= v => v = w
  OBVIOUS
<1> QED
  BY <1>1, <1>2, <1>3 DEF Min

\* readCRLF: what is no beginning of a CRLF never becomes one.
LEMMA ClosedStays ==
  ASSUME NEW s, NEW u, Begins(s, u), NEW i \in 1 .. Len(s) + 1, NEW value
  PROVE  Stays(Closed(value, s, i), Closed(value, u, i))
<1>1. PICK n, m \in Nat : n = Len(s) /\ m = Len(u) /\ n <= m
  BY LenProperties DEF Begins
<1>2. s \in Seq(Symbols) /\ u \in Seq(Symbols) /\ i \in Nat /\ i >= 1 /\ i <= n + 1
  BY <1>1 DEF Begins
<1>3. PICK a, b : a = Min({i + 1, Len(s)}) /\ b = Min({i + 1, Len(u)})
  OBVIOUS
<1>4. /\ a = IF i + 1 <= n THEN i + 1 ELSE n
      /\ b = IF i + 1 <= m THEN i + 1 ELSE m
  <2>1. PICK next \in Int : next = i + 1
    BY <1>2
  <2>2. n \in Int /\ m \in Int
    OBVIOUS
  <2>3. /\ Min({next, n}) = IF next <= n THEN next ELSE n
        /\ Min({next, m}) = IF next <= m THEN next ELSE m
    BY <2>1, <2>2, LeastOfTwo
  <2> QED
    BY <1>1, <1>3, <2>1, <2>3
<1>5. a <= b /\ a \in i - 1 .. n /\ b \in i - 1 .. m /\ b <= i + 1
  BY <1>1, <1>2, <1>4
<1>6. PICK p, q : p = SubSeq(s, i, a) /\ q = SubSeq(u, i, b)
  OBVIOUS
<1>7. /\ p \in Seq(Symbols) /\ Len(p) = a - i + 1
      /\ \A j \in 1 .. a - i + 1 : p[j] = s[i + j - 1]
  <2>1. a \in i - 1 .. Len(s)
    BY <1>1, <1>5
  <2> QED
    BY <1>2, <1>6, <2>1, PartFacts
<1>8. /\ q \in Seq(Symbols) /\ Len(q) = b - i + 1
      /\ \A j \in 1 .. b - i + 1 : q[j] = u[i + j - 1]
  <2>1. b \in i - 1 .. Len(u) /\ i \in 1 .. Len(u) + 1
    BY <1>1, <1>2, <1>5
  <2> QED
    BY <1>2, <1>6, <2>1, PartFacts
<1>9. IsPrefix(p, q)
  <2>1. Len(p) <= Len(q)
    BY <1>2, <1>5, <1>7, <1>8
  <2>2. ASSUME NEW j \in 1 .. Len(p) PROVE p[j] = q[j]
    <3>1. j \in 1 .. a - i + 1 /\ j \in 1 .. b - i + 1 /\ i + j - 1 \in 1 .. Len(s)
      BY <1>1, <1>2, <1>5, <1>7
    <3> QED
      BY <1>7, <1>8, <3>1 DEF Begins
  <2> QED
    BY <1>7, <1>8, <2>1, <2>2, PrefixFacts
<1>10. CASE IsPrefix(p, CRLF) /\ p # CRLF
  <2>1. Closed(value, s, i) = Incomplete
    BY <1>3, <1>6, <1>10 DEF Closed
  <2> QED
    BY <2>1 DEF Stays, Incomplete
<1>11. CASE p = CRLF
  <2>1. a = b
    <3>1. a - i + 1 = 2
      BY <1>7, <1>11, SymbolFacts
    <3> QED
      BY <1>2, <1>5, <3>1
  <2>2. p = q
    <3>1. i \in 1 .. Len(s) + 1 /\ a \in i - 1 .. Len(s)
      BY <1>1, <1>5
    <3> QED
      BY <1>6, <2>1, <3>1, SamePart
  <2>3. Closed(value, s, i) = Decoded(value, i + 2) /\ Closed(value, u, i) = Decoded(value, i + 2)
    BY <1>3, <1>6, <1>11, <2>2 DEF Closed
  <2> QED
    BY <2>3 DEF Stays
<1>12. CASE ~IsPrefix(p, CRLF) /\ p # CRLF
  <2>1. PICK e : e = CRLF
    OBVIOUS
  <2>2. e \in Seq(Symbols)
    BY <2>1, SymbolFacts
  <2>3. ~IsPrefix(q, e)
    <3>1. SUFFICES ASSUME IsPrefix(q, e) PROVE IsPrefix(p, e)
      BY <1>12, <2>1
    <3>2. Len(q) <= Len(e) /\ \A j \in 1 .. Len(q) : q[j] = e[j]
      BY <1>8, <2>2, <3>1, PrefixFacts
    <3>3. Len(p) <= Len(q) /\ \A j \in 1 .. Len(p) : p[j] = q[j]
      BY <1>7, <1>8, <1>9, PrefixFacts
    <3>4. Len(p) \in Nat /\ Len(q) \in Nat /\ Len(e) \in Nat
      BY <1>7, <1>8, <2>2, LenProperties
    <3>5. Len(p) <= Len(e) /\ \A j \in 1 .. Len(p) : p[j] = e[j]
      BY <3>2, <3>3, <3>4
    <3> QED
      BY <1>7, <2>2, <3>5, PrefixFacts
  <2>4. IsPrefix(e, e)
    <3>1. Len(e) <= Len(e)
      BY <2>2, LenProperties
    <3> QED
      BY <2>2, <3>1, PrefixFacts
  <2>5. q # e
    BY <2>3, <2>4
  <2>6. Closed(value, s, i) = Invalid
    BY <1>3, <1>6, <1>12 DEF Closed
  <2>7. Closed(value, u, i) = Invalid
    BY <1>3, <1>6, <2>1, <2>3, <2>5 DEF Closed
  <2> QED
    BY <2>6, <2>7 DEF Stays
<1> QED
  BY <1>10, <1>11, <1>12

\* decodeSimpleString, decodeError and decodeInteger.
LEMMA TextStays ==
  ASSUME NEW s, NEW u, Begins(s, u), NEW i \in 1 .. Len(s) + 1, NEW type
  PROVE  /\ Stays(DecodeText(type, s, i), DecodeText(type, u, i))
         /\ Stays(DecodeInteger(s, i), DecodeInteger(u, i))
<1>1. CASE LineEnd(s, i) = 0
  <2>1. DecodeText(type, s, i) = Incomplete /\ DecodeInteger(s, i) = Incomplete
    BY <1>1 DEF DecodeText, DecodeInteger
  <2> QED
    BY <2>1 DEF Stays, Incomplete
<1>2. CASE LineEnd(s, i) # 0
  <2>1. LineEnd(u, i) = LineEnd(s, i) /\ Line(u, i) = Line(s, i)
    BY <1>2, LineStays
  <2>2. DecodeText(type, u, i) = DecodeText(type, s, i)
    BY <2>1, Zenon DEF DecodeText
  <2>3. DecodeInteger(u, i) = DecodeInteger(s, i)
    BY <2>1, Zenon DEF DecodeInteger
  <2> QED
    BY <2>2, <2>3 DEF Stays
<1> QED
  BY <1>1, <1>2

\* decodeBulkStringOrNil.
LEMMA BulkStays ==
  ASSUME NEW s, NEW u, Begins(s, u), NEW i \in 1 .. Len(s)
  PROVE  Stays(DecodeBulk(s, i + 1), DecodeBulk(u, i + 1))
<1>1. PICK n, m \in Nat : n = Len(s) /\ m = Len(u) /\ n <= m
  BY LenProperties DEF Begins
<1>2. s \in Seq(Symbols) /\ i + 1 \in 1 .. Len(s) + 1 /\ i \in Nat
  BY <1>1 DEF Begins
<1>3. CASE LineEnd(s, i + 1) = 0
  <2>1. DecodeBulk(s, i + 1) = Incomplete
    BY <1>3 DEF DecodeBulk
  <2> QED
    BY <2>1 DEF Stays, Incomplete
<1>4. CASE LineEnd(s, i + 1) # 0
  <2>1. LineEnd(u, i + 1) = LineEnd(s, i + 1) /\ Line(u, i + 1) = Line(s, i + 1)
    BY <1>2, <1>4, LineStays
  <2>2. PICK start, length, line : /\ start = LineEnd(s, i + 1) + 2 /\ line = Line(s, i + 1)
                                   /\ length = Atoi(Line(s, i + 1))
    OBVIOUS
  <2> DEFINE inner(v) ==
        CASE length = -1 -> Decoded(Nil, start)
          [] length < -1 -> Invalid
          [] length >= 0 /\ Len(v) < start + length - 1 -> Incomplete
          [] OTHER -> Closed(Bulk(SubSeq(v, start, start + length - 1)), v, start + length)
  <2>3. CASE ~IsNumber(line)
    <3>1. DecodeBulk(s, i + 1) = Invalid /\ DecodeBulk(u, i + 1) = Invalid
      BY <1>4, <2>1, <2>2, <2>3 DEF DecodeBulk
    <3> QED
      BY <3>1 DEF Stays
  <2>4. CASE IsNumber(line)
    <3>1. DecodeBulk(s, i + 1) = inner(s) /\ DecodeBulk(u, i + 1) = inner(u)
      BY <1>4, <2>1, <2>2, <2>4, Zenon DEF DecodeBulk
    <3>2. length \in Ints /\ LineEnd(s, i + 1) = i + 2 /\ i + 3 <= Len(s)
      BY <1>2, <1>4, <2>2, <2>4, LengthFacts, Zenon
    <3>3. length \in Int /\ start = i + 4 /\ i + 3 <= n
      BY <1>1, <1>2, <2>2, <3>2, IntsFacts
    <3>4. CASE length < 0
      <4>1. ~(length >= 0)
        BY <3>3, <3>4
      <4>2. (length = -1 /\ ~(length < -1)) \/ (length < -1 /\ length # -1)
        BY <3>3, <3>4
      <4>3. CASE length = -1 /\ ~(length < -1)
        <5>1. inner(s) = Decoded(Nil, start) /\ inner(u) = Decoded(Nil, start)
          BY <4>1, <4>3
        <5> QED
          BY <3>1, <5>1 DEF Stays
      <4>4. CASE length < -1 /\ length # -1
        <5>1. inner(s) = Invalid /\ inner(u) = Invalid
          BY <4>1, <4>4
        <5> QED
          BY <3>1, <5>1 DEF Stays
      <4> QED
        BY <4>2, <4>3, <4>4
    <3>5. CASE length >= 0 /\ Len(s) < start + length - 1
      <4>1. inner(s) = Incomplete
        BY <3>3, <3>5
      <4> QED
        BY <3>1, <4>1 DEF Stays, Incomplete
    <3>6. CASE length >= 0 /\ ~(Len(s) < start + length - 1)
      <4>1. /\ length # -1 /\ ~(length < -1) /\ ~(Len(s) < start + length - 1)
            /\ ~(Len(u) < start + length - 1)
        BY <1>1, <1>2, <3>3, <3>6
      <4>2. SubSeq(u, start, start + length - 1) = SubSeq(s, start, start + length - 1)
        <5>1. start \in 1 .. Len(s) + 1 /\ start + length - 1 \in start - 1 .. Len(s)
          BY <1>1, <1>2, <3>3, <3>6
        <5> QED
          BY <5>1, SamePart
      <4>3. PICK value : value = Bulk(SubSeq(s, start, start + length - 1))
        OBVIOUS
      <4>4. inner(s) = Closed(value, s, start + length) /\ inner(u) = Closed(value, u, start + length)
        BY <4>1, <4>2, <4>3, Zenon
      <4>5. start + length \in 1 .. Len(s) + 1
        BY <1>1, <1>2, <3>3, <3>6
      <4> QED
        BY <3>1, <4>4, <4>5, ClosedStays
    <3> QED
      BY <3>3, <3>4, <3>5, <3>6
  <2> QED
    BY <2>3, <2>4
<1> QED
  BY <1>3, <1>4

\* DecodeFullResyncRDBFile.
LEMMA RDBFileStays ==
  ASSUME NEW s, NEW u, Begins(s, u)
  PROVE  Stays(DecodeFullResyncRDBFile(s), DecodeFullResyncRDBFile(u))
<1>1. PICK n, m \in Nat : n = Len(s) /\ m = Len(u) /\ n <= m
  BY LenProperties DEF Begins
<1>2. s \in Seq(Symbols) /\ u \in Seq(Symbols)
  BY DEF Begins
<1>3. CASE s = <<>>
  <2>1. DecodeFullResyncRDBFile(s) = Incomplete
    BY <1>3 DEF DecodeFullResyncRDBFile
  <2> QED
    BY <2>1 DEF Stays, Incomplete
<1>4. CASE s # <<>>
  <2>1. n >= 1 /\ 1 \in 1 .. Len(s) /\ 1 + 1 = 2 /\ 2 \in 1 .. Len(s) + 1
    <3>1. n # 0
      BY <1>1, <1>2, <1>4, EmptySeq
    <3> QED
      BY <1>1, <3>1
  <2>2. u # <<>> /\ u[1] = s[1]
    <3>1. m # 0
      BY <1>1, <2>1
    <3>2. u # <<>>
      BY <1>1, <3>1
    <3> QED
      BY <2>1, <3>2 DEF Begins
  <2>3. CASE s[1] # "$"
    <3>1. DecodeFullResyncRDBFile(s) = Invalid /\ DecodeFullResyncRDBFile(u) = Invalid
      BY <1>4, <2>2, <2>3, Zenon DEF DecodeFullResyncRDBFile
    <3> QED
      BY <3>1 DEF Stays
  <2>4. CASE s[1] = "$" /\ LineEnd(s, 2) = 0
    <3>1. DecodeFullResyncRDBFile(s) = Incomplete
      BY <1>4, <2>4 DEF DecodeFullResyncRDBFile
    <3> QED
      BY <3>1 DEF Stays, Incomplete
  <2>5. CASE s[1] = "$" /\ LineEnd(s, 2) # 0
    <3>1. LineEnd(u, 2) = LineEnd(s, 2) /\ Line(u, 2) = Line(s, 2)
      BY <2>1, <2>5, LineStays
    <3>2. PICK start, length, line : /\ start = LineEnd(s, 2) + 2 /\ line = Line(s, 2)
                                     /\ length = Atoi(Line(s, 2))
      OBVIOUS
    <3> DEFINE inner(v) ==
          CASE ~IsNumber(line) -> Invalid
            [] IsNumber(line) /\ length < 1 -> Invalid
            [] IsNumber(line) /\ length >= 1 /\ Len(v) < start + length - 1 -> Incomplete
            [] OTHER -> Decoded(Value("rdb", SubSeq(v, start, start + length - 1), <<>>), start + length)
    <3>3. DecodeFullResyncRDBFile(s) = inner(s) /\ DecodeFullResyncRDBFile(u) = inner(u)
      BY <1>4, <2>2, <2>5, <3>1, <3>2, Zenon DEF DecodeFullResyncRDBFile
    <3>4. CASE ~IsNumber(line)
      <4>1. inner(s) = Invalid /\ inner(u) = Invalid
        BY <3>4
      <4> QED
        BY <3>3, <4>1 DEF Stays
    <3>5. CASE IsNumber(line)
      <4>1. LineEnd(s, 1 + 1) # 0 /\ IsNumber(Line(s, 1 + 1)) /\ length = Atoi(Line(s, 1 + 1))
        BY <2>1, <2>5, <3>2, <3>5
      <4>2. length \in Ints /\ LineEnd(s, 1 + 1) = 1 + 2 /\ 1 + 3 <= Len(s)
        BY <1>2, <2>1, <4>1, LengthFacts, Zenon
      <4>3. length \in Int /\ start = 5 /\ 4 <= n
        BY <1>1, <2>1, <3>2, <4>2, IntsFacts
      <4>4. CASE length < 1
        <5>1. ~(length >= 1)
          BY <4>3, <4>4
        <5>2. inner(s) = Invalid /\ inner(u) = Invalid
          BY <3>5, <4>4, <5>1, Zenon
        <5> QED
          BY <3>3, <5>2 DEF Stays
      <4>5. CASE length >= 1 /\ Len(s) < start + length - 1
        <5>1. ~(length < 1)
          BY <4>3, <4>5
        <5>2. inner(s) = Incomplete
          BY <3>5, <4>5, <5>1, Zenon
        <5> QED
          BY <3>3, <5>2 DEF Stays, Incomplete
      <4>6. CASE length >= 1 /\ ~(Len(s) < start + length - 1)
        <5>1. ~(length < 1) /\ ~(Len(s) < start + length - 1) /\ ~(Len(u) < start + length - 1)
          BY <1>1, <4>3, <4>6
        <5>2. SubSeq(u, start, start + length - 1) = SubSeq(s, start, start + length - 1)
          <6>1. start \in 1 .. Len(s) + 1 /\ start + length - 1 \in start - 1 .. Len(s)
            BY <1>1, <4>3, <4>6
          <6> QED
            BY <6>1, SamePart
        <5>3. inner(s) = inner(u)
          BY <3>5, <5>1, <5>2, Zenon
        <5> QED
          BY <3>3, <5>3 DEF Stays
      <4> QED
        BY <4>3, <4>4, <4>5, <4>6
    <3> QED
      BY <3>4, <3>5
  <2> QED
    BY <2>3, <2>4, <2>5
<1> QED
  BY <1>3, <1>4

\* One round of decodeArray's loop: r and more are what it holds of s and of u.
LEMMA RoundStays ==
  ASSUME NEW d \in 0 .. MaxDepth, NEW s \in Seq(Symbols), NEW r, NEW more, NEW read, NEW reads,
         \A j \in 1 .. Len(s) + 1 : Exact(s, j, d, read[j]) /\ Stays(read[j], reads[j]),
         Stays(r, more), r.res = "value" => r.next \in 1 .. Len(s) + 1
  PROVE  /\ Stays(ReadElement(r, read), ReadElement(more, reads))
         /\ ReadElement(r, read).res = "value" => ReadElement(r, read).next \in 1 .. Len(s) + 1
<1>1. PICK n \in Nat : n = Len(s)
  BY LenProperties
<1>2. CASE r.res = "incomplete"
  <2>1. ReadElement(r, read) = r
    BY <1>2 DEF ReadElement
  <2> QED
    BY <1>2, <2>1 DEF Stays
<1>3. CASE r.res # "incomplete" /\ r.res # "value"
  <2>1. more = r
    BY <1>3 DEF Stays
  <2>2. ReadElement(r, read) = r /\ ReadElement(more, reads) = r
    BY <1>3, <2>1 DEF ReadElement
  <2> QED
    BY <1>3, <2>2 DEF Stays
<1>4. CASE r.res = "value"
  <2>1. more = r
    BY <1>4 DEF Stays
  <2>2. PICK e, f : e = read[r.next] /\ f = reads[r.next]
    OBVIOUS
  <2>3. ReadElement(r, read) = WithElement(r, e) /\ ReadElement(more, reads) = WithElement(r, f)
    BY <1>4, <2>1, <2>2 DEF ReadElement
  <2>4. r.next \in 1 .. n + 1
    BY <1>1, <1>4
  <2>5. Exact(s, r.next, d, e) /\ Stays(e, f)
    BY <1>4, <2>2
  <2>6. CASE e.res = "value"
    <3>1. f = e
      BY <2>5, <2>6 DEF Stays
    <3>2. e.next \in r.next + 1 .. n + 1
      BY <1>1, <2>5, <2>6 DEF Exact
    <3>3. WithElement(r, e).next = e.next
      BY <2>6 DEF WithElement, Decoded
    <3>4. e.next \in 1 .. Len(s) + 1
      BY <1>1, <2>4, <3>2
    <3> QED
      BY <2>3, <3>1, <3>3, <3>4 DEF Stays
  <2>7. CASE e.res # "value"
    <3>1. WithElement(r, e) = e
      BY <2>7 DEF WithElement
    <3>2. f = e => WithElement(r, f) = e
      BY <2>7 DEF WithElement
    <3> QED
      BY <2>3, <2>5, <2>7, <3>1, <3>2 DEF Stays
  <2> QED
    BY <2>6, <2>7
<1> QED
  BY <1>2, <1>3, <1>4

\* All its rounds.
LEMMA ElementsStay ==
  ASSUME NEW d \in 0 .. MaxDepth, NEW s \in Seq(Symbols), NEW start \in 1 .. Len(s) + 1,
         NEW length \in Nat, NEW read, NEW reads,
         \A j \in 1 .. Len(s) + 1 : Exact(s, j, d, read[j]) /\ Stays(read[j], reads[j])
  PROVE  Stays(DecodeElements(start, length, read), DecodeElements(start, length, reads))
<1> DEFINE R == ElementsRead(start, length, read)
           M == ElementsRead(start, length, reads)
           Kept(n) == Stays(R[n], M[n]) /\ (R[n].res = "value" => R[n].next \in 1 .. Len(s) + 1)
           T == {n \in Nat : n \in 0 .. length => Kept(n)}
<1>1. \A n \in 0 .. length : R[n] = IF n = 0 THEN Decoded(Array(<<>>), start)
                                    ELSE ReadElement(R[n - 1], read)
  BY ElementsEquation
<1>2. \A n \in 0 .. length : M[n] = IF n = 0 THEN Decoded(Array(<<>>), start)
                                    ELSE ReadElement(M[n - 1], reads)
  BY ElementsEquation
<1> HIDE DEF R, M
<1>3. ASSUME NEW n \in Nat, \A k \in 0 .. n - 1 : k \in T PROVE n \in T
  <2>1. SUFFICES ASSUME n \in 0 .. length PROVE Kept(n)
    OBVIOUS
  <2>2. CASE n = 0
    <3>1. R[n] = Decoded(Array(<<>>), start) /\ M[n] = Decoded(Array(<<>>), start)
      BY <1>1, <1>2, <2>1, <2>2
    <3>2. Decoded(Array(<<>>), start).next = start
      BY DEF Decoded
    <3> QED
      BY <3>1, <3>2 DEF Stays
  <2>3. CASE n # 0
    <3>1. n - 1 \in 0 .. n - 1 /\ n - 1 \in 0 .. length /\ n - 1 \in Nat
      BY <2>1, <2>3
    <3>2. n - 1 \in T
      BY <1>3, <3>1, Zenon
    <3>3. Kept(n - 1)
      BY <3>1, <3>2
    <3>4. R[n] = ReadElement(R[n - 1], read) /\ M[n] = ReadElement(M[n - 1], reads)
      BY <1>1, <1>2, <2>1, <2>3
    <3> QED
      BY <3>3, <3>4, RoundStays
  <2> QED
    BY <2>2, <2>3
<1>4. \A n \in Nat : n \in T
  <2> HIDE DEF T
  <2> QED
    BY <1>3, StrongInduction
<1>5. length \in 0 .. length
  OBVIOUS
<1>6. Stays(R[length], M[length])
  BY <1>4, <1>5
<1> QED
  BY <1>6 DEF DecodeElements, R, M

\* decodeArray.
LEMMA ArrayStays ==
  ASSUME NEW d \in 0 .. MaxDepth, NEW s, NEW u, Begins(s, u), NEW i \in 1 .. Len(s), NEW read, NEW reads,
         \A j \in 1 .. Len(s) + 1 : Exact(s, j, d, read[j]) /\ Stays(read[j], reads[j])
  PROVE  Stays(DecodeArray(s, i + 1, read), DecodeArray(u, i + 1, reads))
<1>1. PICK n \in Nat : n = Len(s)
  BY LenProperties DEF Begins
<1>2. s \in Seq(Symbols) /\ i + 1 \in 1 .. Len(s) + 1 /\ i \in Nat
  BY <1>1 DEF Begins
<1>3. CASE LineEnd(s, i + 1) = 0
  <2>1. DecodeArray(s, i + 1, read) = Incomplete
    BY <1>3 DEF DecodeArray
  <2> QED
    BY <2>1 DEF Stays, Incomplete
<1>4. CASE LineEnd(s, i + 1) # 0
  <2>1. LineEnd(u, i + 1) = LineEnd(s, i + 1) /\ Line(u, i + 1) = Line(s, i + 1)
    BY <1>2, <1>4, LineStays
  <2>2. PICK start, length, line : /\ start = LineEnd(s, i + 1) + 2 /\ line = Line(s, i + 1)
                                   /\ length = Atoi(Line(s, i + 1))
    OBVIOUS
  <2> DEFINE inner(rd) ==
        CASE length = -1 -> Decoded(NilArray, start)
          [] length < -1 -> Invalid
          [] OTHER -> DecodeElements(start, length, rd)
  <2>3. CASE ~IsNumber(line)
    <3>1. DecodeArray(s, i + 1, read) = Invalid /\ DecodeArray(u, i + 1, reads) = Invalid
      BY <1>4, <2>1, <2>2, <2>3 DEF DecodeArray
    <3> QED
      BY <3>1 DEF Stays
  <2>4. CASE IsNumber(line)
    <3>1. DecodeArray(s, i + 1, read) = inner(read) /\ DecodeArray(u, i + 1, reads) = inner(reads)
      BY <1>4, <2>1, <2>2, <2>4, Zenon DEF DecodeArray
    <3>2. length \in Ints /\ LineEnd(s, i + 1) = i + 2 /\ i + 3 <= Len(s)
      BY <1>2, <1>4, <2>2, <2>4, LengthFacts, Zenon
    <3>3. length \in Int /\ start = i + 4 /\ i + 3 <= n
      BY <1>1, <1>2, <2>2, <3>2, IntsFacts
    <3>4. CASE length = -1
      <4>1. ~(length < -1)
        BY <3>4
      <4>2. inner(read) = Decoded(NilArray, start) /\ inner(reads) = Decoded(NilArray, start)
        BY <3>4, <4>1
      <4> QED
        BY <3>1, <4>2 DEF Stays
    <3>5. CASE length < -1
      <4>1. length # -1
        BY <3>5
      <4>2. inner(read) = Invalid /\ inner(reads) = Invalid
        BY <3>5, <4>1
      <4> QED
        BY <3>1, <4>2 DEF Stays
    <3>6. CASE length >= 0
      <4>1. length # -1 /\ ~(length < -1) /\ length \in Nat
        BY <3>3, <3>6
      <4>2. inner(read) = DecodeElements(start, length, read)
            /\ inner(reads) = DecodeElements(start, length, reads)
        BY <4>1
      <4>3. start \in 1 .. Len(s) + 1
        BY <1>1, <1>2, <3>3
      <4> QED
        BY <1>2, <3>1, <4>1, <4>2, <4>3, ElementsStay
    <3> QED
      BY <3>3, <3>4, <3>5, <3>6
  <2> QED
    BY <2>3, <2>4
<1> QED
  BY <1>3, <1>4

\* doDecodeValue, given that the decoders of elements keep what they decided.
LEMMA DecodeAtStays ==
  ASSUME NEW d \in 0 .. MaxDepth, NEW s, NEW u, Begins(s, u), NEW i \in 1 .. Len(s) + 1,
         NEW read, NEW reads,
         \A j \in 1 .. Len(s) + 1 : Exact(s, j, d, read[j]) /\ Stays(read[j], reads[j])
  PROVE  Stays(DecodeAt(s, i, read), DecodeAt(u, i, reads))
<1>1. PICK n, m \in Nat : n = Len(s) /\ m = Len(u) /\ n <= m
  BY LenProperties DEF Begins
<1>2. CASE i > Len(s)
  <2>1. DecodeAt(s, i, read) = Incomplete
    BY <1>2 DEF DecodeAt
  <2> QED
    BY <2>1 DEF Stays, Incomplete
<1>3. CASE i <= Len(s)
  <2>1. /\ i \in 1 .. Len(s) /\ i + 1 \in 1 .. Len(s) + 1
        /\ i <= Len(u) /\ ~(i > Len(s)) /\ ~(i > Len(u))
    BY <1>1, <1>3
  <2>2. u[i] = s[i]
    BY <2>1 DEF Begins
  <2>3. CASE s[i] \in {"+", "-"}
    <3>1. /\ DecodeAt(s, i, read) = DecodeText(s[i], s, i + 1)
          /\ DecodeAt(u, i, reads) = DecodeText(s[i], u, i + 1)
      BY <1>3, <2>1, <2>2, <2>3 DEF DecodeAt
    <3> QED
      BY <2>1, <3>1, TextStays
  <2>4. CASE s[i] = ":"
    <3>1. /\ DecodeAt(s, i, read) = DecodeInteger(s, i + 1)
          /\ DecodeAt(u, i, reads) = DecodeInteger(u, i + 1)
      BY <1>3, <2>1, <2>2, <2>4 DEF DecodeAt
    <3> QED
      BY <2>1, <3>1, TextStays
  <2>5. CASE s[i] = "$"
    <3>1. /\ DecodeAt(s, i, read) = DecodeBulk(s, i + 1)
          /\ DecodeAt(u, i, reads) = DecodeBulk(u, i + 1)
      BY <1>3, <2>1, <2>2, <2>5 DEF DecodeAt
    <3> QED
      BY <2>1, <3>1, BulkStays
  <2>6. CASE s[i] = "*"
    <3>1. /\ DecodeAt(s, i, read) = DecodeArray(s, i + 1, read)
          /\ DecodeAt(u, i, reads) = DecodeArray(u, i + 1, reads)
      BY <1>3, <2>1, <2>2, <2>6 DEF DecodeAt
    <3> QED
      BY <2>1, <3>1, ArrayStays
  <2>7. CASE s[i] \notin {"+", "-", ":", "$", "*"}
    <3>1. DecodeAt(s, i, read) = Invalid /\ DecodeAt(u, i, reads) = Invalid
      BY <2>1, <2>2, <2>7 DEF DecodeAt
    <3> QED
      BY <3>1 DEF Stays
  <2> QED
    BY <2>3, <2>4, <2>5, <2>6, <2>7
<1>4. i > Len(s) \/ i <= Len(s)
  BY <1>1
<1> QED
  BY <1>2, <1>3, <1>4

\* So at every depth.
LEMMA DecodersStay ==
  ASSUME NEW s, NEW u, Begins(s, u)
  PROVE  \A d \in 0 .. MaxDepth : \A i \in 1 .. Len(s) + 1 :
           Stays(Decoders(s)[d][i], Decoders(u)[d][i])
<1> DEFINE T == {d \in Nat : d \in 0 .. MaxDepth =>
                   \A i \in 1 .. Len(s) + 1 : Stays(Decoders(s)[d][i], Decoders(u)[d][i])}
<1>1. PICK n, m \in Nat : n = Len(s) /\ m = Len(u) /\ n <= m
  BY LenProperties DEF Begins
<1>2. s \in Seq(Symbols)
  BY DEF Begins
<1>3. ASSUME NEW d \in Nat, \A k \in 0 .. d - 1 : k \in T PROVE d \in T
  <2>1. SUFFICES ASSUME d \in 0 .. MaxDepth, NEW i \in 1 .. Len(s) + 1
                 PROVE  Stays(Decoders(s)[d][i], Decoders(u)[d][i])
    OBVIOUS
  <2>2. i \in 1 .. Len(u) + 1
    BY <1>1
  <2>3. CASE d = 0
    <3>1. /\ Decoders(s)[d] = [j \in 1 .. Len(s) + 1 |-> Invalid]
          /\ Decoders(u)[d] = [j \in 1 .. Len(u) + 1 |-> Invalid]
      BY <2>1, <2>3, DecodersEquation
    <3>2. Decoders(s)[d][i] = Invalid /\ Decoders(u)[d][i] = Invalid
      BY <2>2, <3>1
    <3> QED
      BY <3>2 DEF Stays
  <2>4. CASE d # 0
    <3>1. d - 1 \in 0 .. d - 1 /\ d - 1 \in 0 .. MaxDepth
      BY <2>1, <2>4, RespAssumption
    <3>2. d - 1 \in T
      BY <1>3, <3>1, Zenon
    <3>3. PICK read, reads : read = Decoders(s)[d - 1] /\ reads = Decoders(u)[d - 1]
      OBVIOUS
    <3>4. \A j \in 1 .. Len(s) + 1 : Exact(s, j, d - 1, read[j]) /\ Stays(read[j], reads[j])
      BY <1>2, <3>1, <3>2, <3>3, DecodersExact
    <3>5. Decoders(s)[d] = [j \in 1 .. Len(s) + 1 |-> DecodeAt(s, j, Decoders(s)[d - 1])]
      BY <2>1, <2>4, DecodersEquation
    <3>6. Decoders(u)[d] = [j \in 1 .. Len(u) + 1 |-> DecodeAt(u, j, Decoders(u)[d - 1])]
      BY <2>1, <2>4, DecodersEquation
    <3>7. Decoders(s)[d][i] = DecodeAt(s, i, read) /\ Decoders(u)[d][i] = DecodeAt(u, i, reads)
      BY <2>2, <3>3, <3>5, <3>6
    <3> QED
      BY <3>1, <3>4, <3>7, DecodeAtStays
  <2> QED
    BY <2>3, <2>4
<1>4. \A d \in Nat : d \in T
  <2> HIDE DEF T
  <2> QED
    BY <1>3, StrongInduction
<1> QED
  BY <1>4

\* The bytes that come are appended to those there are.
LEMMA MoreBegins ==
  ASSUME NEW s \in Seq(Symbols), NEW t \in Seq(Symbols)
  PROVE  Begins(s, s \o t)
<1>1. PICK n, m \in Nat : n = Len(s) /\ m = Len(t)
  BY LenProperties
<1>2. /\ s \o t \in Seq(Symbols) /\ Len(s \o t) = n + m
      /\ \A i \in 1 .. n + m : (s \o t)[i] = IF i <= n THEN s[i] ELSE t[i - n]
  BY <1>1, ConcatProperties
<1>3. \A i \in 1 .. n : i \in 1 .. n + m /\ i <= n
  BY <1>1
<1> QED
  BY <1>1, <1>2, <1>3 DEF Begins

\* A reader that decodes again each time bytes have come (readIntoBufferUntil)
\* ends up with what it would have found had they come at once: a value or an
\* error is final, and less than a value's bytes are no value and no error.
THEOREM DecodeDecides ==
  \A s, t \in Seq(Symbols) :
    /\ Decode(s).res # "incomplete" => Decode(s \o t) = Decode(s)
    /\ Decode(s \o t).res = "value" /\ Decode(s \o t).next > Len(s) + 1 => Decode(s).res = "incomplete"
    /\ LET file == DecodeFullResyncRDBFile(s)
           later == DecodeFullResyncRDBFile(s \o t)
       IN  /\ file.res # "incomplete" => later = file
           /\ later.res = "value" /\ later.next > Len(s) + 1 => file.res = "incomplete"
<1>1. ASSUME NEW s \in Seq(Symbols), NEW t \in Seq(Symbols)
      PROVE  Stays(Decode(s), Decode(s \o t))
  <2>1. MaxDepth \in 0 .. MaxDepth
    BY RespAssumption
  <2>2. 1 \in 1 .. Len(s) + 1
    BY LenProperties
  <2> QED
    BY <2>1, <2>2, MoreBegins, DecodersStay DEF Decode
<1>2. ASSUME NEW s \in Seq(Symbols), NEW t \in Seq(Symbols)
      PROVE  Stays(DecodeFullResyncRDBFile(s), DecodeFullResyncRDBFile(s \o t))
  BY MoreBegins, RDBFileStays
<1>3. ASSUME NEW s \in Seq(Symbols), NEW r, NEW later, TakesExactly(s, r), Stays(r, later),
             later.res = "value", later.next > Len(s) + 1
      PROVE  r.res = "incomplete"
  <2>1. SUFFICES ASSUME r.res # "incomplete" PROVE FALSE
    OBVIOUS
  <2>2. later = r
    BY <1>3, <2>1 DEF Stays
  <2>3. r.next \in 2 .. Len(s) + 1
    BY <1>3, <2>2 DEF TakesExactly
  <2>4. PICK n \in Nat : n = Len(s)
    BY LenProperties
  <2> QED
    BY <1>3, <2>2, <2>3, <2>4
<1> QED
  BY <1>1, <1>2, <1>3, DecodeTakesExactly DEF Stays

-----------------------------------------------------------------------------
(* Reading back what was written.                                          *)

\* How long two sequences are together.
LEMMA ConcatLength ==
  ASSUME NEW S, NEW p \in Seq(S), NEW q \in Seq(S)
  PROVE  p \o q \in Seq(S) /\ Len(p \o q) = Len(p) + Len(q)
BY ConcatProperties

\* p stands in s from position i on.
Stands(s, i, p) ==
  /\ s \in Seq(Symbols) /\ p \in Seq(Symbols)
  /\ i \in 1 .. Len(s) + 1 /\ i + Len(p) - 1 <= Len(s)
  /\ \A j \in 1 .. Len(p) : s[i + j - 1] = p[j]

\* Then so do its parts, one after the other.
LEMMA PartsStand ==
  ASSUME NEW s, NEW i, NEW p \in Seq(Symbols), NEW q \in Seq(Symbols), Stands(s, i, p \o q)
  PROVE  Stands(s, i, p) /\ Stands(s, i + Len(p), q)
<1>1. PICK n, a, b \in Nat : n = Len(s) /\ a = Len(p) /\ b = Len(q)
  BY LenProperties DEF Stands
<1>2. /\ p \o q \in Seq(Symbols) /\ Len(p \o q) = a + b
      /\ \A j \in 1 .. a + b : (p \o q)[j] = IF j <= a THEN p[j] ELSE q[j - a]
  BY <1>1, ConcatProperties
<1>3. /\ s \in Seq(Symbols) /\ i \in 1 .. n + 1 /\ i + (a + b) - 1 <= n
      /\ \A j \in 1 .. a + b : s[i + j - 1] = (p \o q)[j]
  BY <1>1, <1>2 DEF Stands
<1>4. ASSUME NEW j \in 1 .. a PROVE s[i + j - 1] = p[j]
  <2>1. j \in 1 .. a + b /\ j <= a
    BY <1>1
  <2> QED
    BY <1>2, <1>3, <2>1
<1>5. ASSUME NEW j \in 1 .. b PROVE s[(i + a) + j - 1] = q[j]
  <2>1. a + j \in 1 .. a + b /\ ~(a + j <= a) /\ (a + j) - a = j /\ i + (a + j) - 1 = (i + a) + j - 1
    BY <1>1, <1>3
  <2>2. (p \o q)[a + j] = q[j]
    BY <1>2, <2>1
  <2>3. s[i + (a + j) - 1] = (p \o q)[a + j]
    BY <1>3, <2>1
  <2> QED
    BY <2>1, <2>2, <2>3
<1>6. i + a - 1 <= n /\ (i + a) + b - 1 <= n /\ i + a \in 1 .. n + 1
  BY <1>1, <1>3
<1>7. Stands(s, i, p)
  BY <1>1, <1>3, <1>4, <1>6 DEF Stands
<1>8. Stands(s, i + Len(p), q)
  BY <1>1, <1>3, <1>5, <1>6 DEF Stands
<1> QED
  BY <1>7, <1>8

\* What stands there is that part.
LEMMA StandsPart ==
  ASSUME NEW s, NEW i, NEW p, Stands(s, i, p)
  PROVE  SubSeq(s, i, i + Len(p) - 1) = p
<1>1. PICK n, a \in Nat : n = Len(s) /\ a = Len(p)
  BY LenProperties DEF Stands
<1>2. /\ s \in Seq(Symbols) /\ p \in Seq(Symbols) /\ i \in 1 .. n + 1 /\ i + a - 1 <= n
      /\ \A j \in 1 .. a : s[i + j - 1] = p[j]
  BY <1>1 DEF Stands
<1>3. i \in 1 .. Len(s) + 1 /\ i + a - 1 \in i - 1 .. Len(s) /\ (i + a - 1) - i + 1 = a
  BY <1>1, <1>2
<1>4. PICK b : b = i + a - 1
  OBVIOUS
<1>5. /\ SubSeq(s, i, b) \in Seq(Symbols) /\ Len(SubSeq(s, i, b)) = b - i + 1
      /\ \A j \in 1 .. b - i + 1 : SubSeq(s, i, b)[j] = s[i + j - 1]
  BY <1>2, <1>3, <1>4, PartFacts
<1>6. b - i + 1 = a
  BY <1>3, <1>4
<1>7. PICK part : part = SubSeq(s, i, b)
  OBVIOUS
<1>8. part \in Seq(Symbols) /\ Len(part) = a /\ \A j \in 1 .. a : part[j] = s[i + j - 1]
  BY <1>5, <1>6, <1>7
<1>9. Len(part) = Len(p) /\ \A j \in 1 .. Len(part) : part[j] = p[j]
  BY <1>1, <1>2, <1>8
<1>10. part = p
  BY <1>2, <1>8, <1>9, SeqEqual
<1> QED
  BY <1>1, <1>4, <1>7, <1>10

\* A text in which no line ends.
OneLine(text) == \A h \in 1 .. Len(text) - 1 : SubSeq(text, h, h + 1) # CRLF

\* It is the line, where it stands with a CRLF behind it.
LEMMA LineStands ==
  ASSUME NEW s, NEW i, NEW text \in Seq(Symbols), OneLine(text), Stands(s, i, text \o CRLF)
  PROVE  /\ LineEnd(s, i) = i + Len(text) /\ LineEnd(s, i) # 0 /\ Line(s, i) = text
         /\ LineEnd(s, i) + 1 <= Len(s)
<1>1. PICK n, a \in Nat : n = Len(s) /\ a = Len(text)
  BY LenProperties DEF Stands
<1>2. CRLF \in Seq(Symbols) /\ Len(CRLF) = 2 /\ CRLF[1] = "CR" /\ CRLF[2] = "LF"
  BY SymbolFacts
<1>3. Stands(s, i, text) /\ Stands(s, i + a, CRLF)
  BY <1>1, <1>2, PartsStand
<1>4. /\ s \in Seq(Symbols) /\ i \in 1 .. n + 1 /\ i \in Nat
      /\ \A j \in 1 .. a : s[i + j - 1] = text[j]
  BY <1>1, <1>3 DEF Stands
<1>5. PICK e : e = i + a
  OBVIOUS
<1>6. e + 1 <= n /\ s[e] = "CR" /\ e \in Nat
  <2>1. e + 2 - 1 <= n /\ \A j \in 1 .. 2 : s[e + j - 1] = CRLF[j]
    BY <1>1, <1>2, <1>3, <1>5 DEF Stands
  <2>2. 1 \in 1 .. 2 /\ e + 1 - 1 = e /\ e \in Nat
    BY <1>1, <1>4, <1>5
  <2> QED
    BY <1>2, <2>1, <2>2
<1>7. SubSeq(s, e, e + 1) = CRLF
  <2>1. SubSeq(s, e, e + Len(CRLF) - 1) = CRLF
    BY <1>3, <1>5, StandsPart
  <2>2. e + 2 - 1 = e + 1
    BY <1>6
  <2> QED
    BY <1>2, <2>1, <2>2
<1>8. ASSUME NEW h \in i .. e - 1 PROVE SubSeq(s, h, h + 1) # CRLF
  <2>1. h \in 1 .. Len(s) - 1
    BY <1>1, <1>4, <1>6
  <2>2. SubSeq(s, h, h + 1) = <<s[h], s[h + 1]>>
    BY <1>4, <2>1, PartOfTwo
  <2>3. CASE h = e - 1
    <3>1. h + 1 = e
      BY <1>6, <2>3
    <3>2. s[h + 1] # "LF"
      BY <1>6, <3>1
    <3> QED
      BY <2>2, <3>2 DEF CRLF
  <2>4. CASE h # e - 1
    <3>1. PICK k : k = h - i + 1
      OBVIOUS
    <3>2. /\ k \in 1 .. Len(text) - 1 /\ k \in 1 .. a /\ k + 1 \in 1 .. a
          /\ i + k - 1 = h /\ i + (k + 1) - 1 = h + 1
      <4>1. i \in Nat /\ h \in i .. e - 1 /\ h # e - 1 /\ e = i + a /\ k = h - i + 1
        BY <1>4, <1>5, <2>4, <3>1
      <4>2. k \in 1 .. a - 1 /\ k \in 1 .. a /\ k + 1 \in 1 .. a
        BY <1>1, <4>1
      <4>3. i + k - 1 = h /\ i + (k + 1) - 1 = h + 1
        BY <4>1
      <4> QED
        BY <1>1, <4>2, <4>3
    <3>3. SubSeq(text, k, k + 1) = <<text[k], text[k + 1]>>
      BY <3>2, PartOfTwo
    <3>4. text[k] = s[h] /\ text[k + 1] = s[h + 1]
      BY <1>4, <3>2
    <3>5. SubSeq(text, k, k + 1) # CRLF
      BY <3>2 DEF OneLine
    <3> QED
      BY <2>2, <3>3, <3>4, <3>5
  <2> QED
    BY <2>3, <2>4
<1>9. LineEnd(s, i) = e
  <2>1. i \in 1 .. Len(s) + 1 /\ e \in i .. Len(s) - 1
    BY <1>1, <1>4, <1>5, <1>6
  <2> QED
    BY <1>4, <1>7, <1>8, <2>1, EndIsFirst
<1>10. SubSeq(s, i, e - 1) = text
  <2>1. SubSeq(s, i, i + Len(text) - 1) = text
    BY <1>3, StandsPart
  <2>2. i + Len(text) - 1 = e - 1
    BY <1>1, <1>4, <1>5
  <2> QED
    BY <2>1, <2>2
<1>11. e # 0
  BY <1>1, <1>4, <1>5
<1> QED
  BY <1>1, <1>5, <1>6, <1>9, <1>10, <1>11 DEF Line

\* A text of one symbol is one line.
LEMMA SymbolIsOneLine ==
  ASSUME NEW text \in Seq(Symbols), Len(text) = 1
  PROVE  OneLine(text)
<1>1. 1 .. Len(text) - 1 = {}
  OBVIOUS
<1> QED
  BY <1>1 DEF OneLine

\* A mark and a length, where they stand.
LEMMA HeadStands ==
  ASSUME NEW s, NEW i, NEW mark \in {"$", "*"}, NEW n \in Ints,
         Stands(s, i, <<mark, ToString(n)>> \o CRLF)
  PROVE  /\ i \in 1 .. Len(s) /\ s[i] = mark /\ i + 3 <= Len(s)
         /\ LineEnd(s, i + 1) = i + 2 /\ IsNumber(Line(s, i + 1)) /\ Atoi(Line(s, i + 1)) = n
<1>1. PICK numeral : numeral = ToString(n)
  OBVIOUS
<1>2. PICK sym : sym = mark
  OBVIOUS
<1>3. /\ <<numeral>> \in Seq(Symbols) /\ Len(<<numeral>>) = 1
      /\ IsNumber(<<numeral>>) /\ Atoi(<<numeral>>) = n
  BY <1>1, NumeralFacts
<1>4. <<sym, numeral>> \in Seq(Symbols) /\ sym \in Symbols /\ numeral \in Symbols
  BY <1>1, <1>2, HeadType, SymbolFacts
<1>5. <<sym>> \in Seq(Symbols) /\ Len(<<sym>>) = 1 /\ <<sym>>[1] = sym
  BY <1>4
<1>6. <<sym, numeral>> \o CRLF = <<sym>> \o (<<numeral>> \o CRLF)
  <2>1. <<sym, numeral>> = <<sym>> \o <<numeral>>
    BY <1>4
  <2>2. CRLF \in Seq(Symbols)
    BY SymbolFacts
  <2> QED
    BY <1>3, <1>5, <2>1, <2>2, ConcatAssociative
<1>7. <<numeral>> \o CRLF \in Seq(Symbols)
  BY <1>3, SymbolFacts, ConcatProperties
<1>8. Stands(s, i, <<sym>> \o (<<numeral>> \o CRLF))
  BY <1>1, <1>2, <1>6, Zenon
<1>9. Stands(s, i, <<sym>>) /\ Stands(s, i + 1, <<numeral>> \o CRLF)
  BY <1>5, <1>7, <1>8, PartsStand
<1>10. OneLine(<<numeral>>)
  BY <1>3, SymbolIsOneLine
<1>11. /\ LineEnd(s, i + 1) = (i + 1) + 1 /\ Line(s, i + 1) = <<numeral>>
       /\ LineEnd(s, i + 1) + 1 <= Len(s)
  BY <1>3, <1>9, <1>10, LineStands
<1>12. PICK len \in Nat : len = Len(s)
  BY LenProperties DEF Stands
<1>13. i \in 1 .. len + 1 /\ s[i] = sym
  <2>1. i \in 1 .. len + 1 /\ s[i + 1 - 1] = <<sym>>[1]
    <3>1. 1 \in 1 .. 1
      OBVIOUS
    <3> QED
      BY <1>5, <1>9, <1>12, <3>1 DEF Stands
  <2>2. i + 1 - 1 = i
    BY <2>1
  <2> QED
    BY <1>5, <2>1, <2>2
<1>14. /\ LineEnd(s, i + 1) = i + 2 /\ i + 3 <= len /\ i \in 1 .. len
  BY <1>11, <1>12, <1>13
<1> QED
  BY <1>2, <1>3, <1>11, <1>12, <1>13, <1>14

\* The values that a decoder can return: only the field that a value's type
\* calls for is set, a simple string is one line, an integer is a number.
Clean(v, elements) ==
  \/ v.type \in {"+", "-"} /\ v.elems = <<>> /\ OneLine(v.text)
  \/ \E n \in Ints : v = Integer(n)
  \/ v.type = "$" /\ v.elems = <<>>
  \/ v.type = "*" /\ v.text = <<>> /\ v.elems \in Seq(elements)
  \/ v \in {Nil, NilArray}
CleanTo[d \in 0 .. MaxDepth] ==
  IF d = 0 THEN {} ELSE {v \in ValuesTo[d] : Clean(v, CleanTo[d - 1])}

\* CleanTo, those values by their depth.
LEMMA CleanEquation ==
  \A d \in 0 .. MaxDepth : CleanTo[d] = IF d = 0 THEN {} ELSE {v \in ValuesTo[d] : Clean(v, CleanTo[d - 1])}
<1> DEFINE Level(d, S) == {v \in ValuesTo[d] : Clean(v, S)}
           Q(f, m) == f = [d \in 0 .. m |-> IF d = 0 THEN {} ELSE Level(d, f[d - 1])]
           T == {m \in Nat : \E f : Q(f, m)}
<1>1. CleanTo = CHOOSE f : Q(f, MaxDepth)
  BY DEF CleanTo
<1> HIDE DEF Level
<1>2. ASSUME NEW m \in Nat, \A k \in 0 .. m - 1 : k \in T PROVE m \in T
  <2>1. CASE m = 0
    <3> DEFINE f == [d \in 0 .. m |-> {}]
    <3>1. f = [d \in 0 .. m |-> IF d = 0 THEN {} ELSE Level(d, f[d - 1])]
      BY <2>1
    <3> HIDE DEF f
    <3> QED
      BY <3>1
  <2>2. CASE m # 0
    <3>1. m - 1 \in 0 .. m - 1
      BY <2>2
    <3>2. m - 1 \in T
      BY <1>2, <3>1, Zenon
    <3>3. PICK f : Q(f, m - 1)
      BY <3>2
    <3> DEFINE g == [d \in 0 .. m |-> IF d = m THEN Level(m, f[m - 1]) ELSE f[d]]
    <3>4. \A d \in 0 .. m - 1 : g[d] = f[d]
      OBVIOUS
    <3>5. \A d \in 0 .. m - 1 : f[d] = IF d = 0 THEN {} ELSE Level(d, f[d - 1])
      BY <3>3
    <3>6. ASSUME NEW d \in 0 .. m PROVE g[d] = IF d = 0 THEN {} ELSE Level(d, g[d - 1])
      <4>1. CASE d = m
        BY <2>2, <3>4, <4>1
      <4>2. CASE d # m
        BY <2>2, <3>4, <3>5, <4>2
      <4> QED
        BY <4>1, <4>2
    <3>7. g = [d \in 0 .. m |-> g[d]]
      OBVIOUS
    <3> HIDE DEF g
    <3>8. Q(g, m)
      BY <3>6, <3>7
    <3> QED
      BY <3>8
  <2> QED
    BY <2>1, <2>2
<1>3. MaxDepth \in T
  <2> HIDE DEF T
  <2> QED
    BY <1>2, RespAssumption, StrongInduction
<1>4. Q(CHOOSE f : Q(f, MaxDepth), MaxDepth)
  <2>1. \E f : Q(f, MaxDepth)
    BY <1>3
  <2> HIDE DEF Q
  <2> QED
    BY <2>1
<1>5. \A d \in 0 .. MaxDepth : CleanTo[d] = IF d = 0 THEN {} ELSE Level(d, CleanTo[d - 1])
  BY <1>1, <1>4, Zenon
<1> QED
  BY <1>5 DEF Level

\* What r is of the encoding p at i: the value v, and the position after it.
Reads(r, v, i, p) == r = Decoded(v, i + Len(p))

\* A simple string, an error or an integer.
LEMMA LineReads ==
  ASSUME NEW s, NEW i, NEW read, NEW type \in {"+", "-", ":"}, NEW text \in Seq(Symbols), OneLine(text),
         type = ":" => \E n \in Ints : text = <<ToString(n)>>, Stands(s, i, <<type>> \o text \o CRLF)
  PROVE  Reads(DecodeAt(s, i, read), Value(type, text, <<>>), i, <<type>> \o text \o CRLF)
<1>1. PICK n, a \in Nat : n = Len(s) /\ a = Len(text)
  BY LenProperties DEF Stands
<1>2. PICK sym : sym = type
  OBVIOUS
<1>3. sym \in Symbols /\ CRLF \in Seq(Symbols) /\ Len(CRLF) = 2
  BY <1>2, SymbolFacts
<1>4. <<sym>> \in Seq(Symbols) /\ Len(<<sym>>) = 1 /\ <<sym>>[1] = sym
  BY <1>3
<1>5. text \o CRLF \in Seq(Symbols) /\ Len(text \o CRLF) = a + 2
  <2>1. text \o CRLF \in Seq(Symbols) /\ Len(text \o CRLF) = Len(text) + Len(CRLF)
    BY <1>3, ConcatLength, Zenon
  <2> QED
    BY <1>1, <1>3, <2>1, Zenon
<1>6. <<sym>> \o text \o CRLF = <<sym>> \o (text \o CRLF)
  BY <1>3, <1>4, ConcatAssociative
<1>7. Len(<<sym>> \o (text \o CRLF)) = 1 + (a + 2)
  BY <1>4, <1>5, ConcatLength
<1>8. Stands(s, i, <<sym>> \o (text \o CRLF))
  BY <1>2, <1>6, Zenon
<1>9. Stands(s, i, <<sym>>) /\ Stands(s, i + 1, text \o CRLF)
  BY <1>4, <1>5, <1>8, PartsStand
<1>10. /\ LineEnd(s, i + 1) = (i + 1) + a /\ LineEnd(s, i + 1) # 0 /\ Line(s, i + 1) = text
  BY <1>1, <1>9, LineStands
<1>11. i \in 1 .. n /\ s[i] = sym
  <2>1. i \in 1 .. n + 1 /\ i + 1 - 1 <= n /\ s[i + 1 - 1] = <<sym>>[1]
    <3>1. 1 \in 1 .. 1
      OBVIOUS
    <3> QED
      BY <1>1, <1>4, <1>9, <3>1 DEF Stands
  <2>2. i + 1 - 1 = i /\ i \in 1 .. n
    BY <1>1, <2>1
  <2> QED
    BY <1>4, <2>1, <2>2
<1>12. i <= Len(s) /\ ~(i > Len(s))
  BY <1>1, <1>11
<1>13. LineEnd(s, i + 1) + 2 = i + (1 + (a + 2))
  BY <1>1, <1>10, <1>11
<1>14. DecodeAt(s, i, read) = Decoded(Value(sym, text, <<>>), LineEnd(s, i + 1) + 2)
  <2>1. CASE sym \in {"+", "-"}
    <3>1. DecodeAt(s, i, read) = DecodeText(sym, s, i + 1)
      BY <1>11, <1>12, <2>1 DEF DecodeAt
    <3> QED
      BY <1>10, <3>1 DEF DecodeText
  <2>2. CASE sym = ":"
    <3>1. DecodeAt(s, i, read) = DecodeInteger(s, i + 1)
      BY <1>11, <1>12, <2>2 DEF DecodeAt
    <3>2. PICK number \in Ints : text = <<ToString(number)>>
      BY <1>2, <2>2
    <3>3. IsNumber(Line(s, i + 1)) /\ Atoi(Line(s, i + 1)) = number
      BY <1>10, <3>2, NumeralFacts
    <3>4. Integer(number) = Value(sym, text, <<>>)
      BY <2>2, <3>2 DEF Integer
    <3> QED
      BY <1>10, <2>2, <3>1, <3>3, <3>4 DEF DecodeInteger
  <2> QED
    BY <1>2, <2>1, <2>2
<1>15. Len(<<type>> \o text \o CRLF) = 1 + (a + 2)
  BY <1>2, <1>6, <1>7, Zenon
<1> QED
  BY <1>2, <1>13, <1>14, <1>15 DEF Reads

\* What is read of head, a mark and a number n, that stands at i with rest behind it.
CountRead(s, i, mark, n, head, rest) ==
  /\ i \in 1 .. Len(s) /\ s[i] = mark /\ i + 3 <= Len(s)
  /\ LineEnd(s, i + 1) = i + 2 /\ IsNumber(Line(s, i + 1)) /\ Atoi(Line(s, i + 1)) = n
  /\ Stands(s, i + 4, rest)
  /\ Len(head \o rest) = 4 + Len(rest)

\* A mark and a length, with something behind them.
LEMMA CountStands ==
  ASSUME NEW s, NEW i, NEW mark \in {"$", "*"}, NEW n \in Ints, NEW rest \in Seq(Symbols),
         NEW head, head = <<mark, ToString(n)>> \o CRLF, Stands(s, i, head \o rest)
  PROVE  CountRead(s, i, mark, n, head, rest)
<1>2. head \in Seq(Symbols) /\ Len(head) = 4
  <2>1. PICK h : h = <<mark, ToString(n)>>
    OBVIOUS
  <2>2. h \in Seq(Symbols)
    BY <2>1, HeadType
  <2>3. Len(h) = 2
    <3>1. PICK x, y : x = mark /\ y = ToString(n)
      OBVIOUS
    <3>2. Len(<<x, y>>) = 2
      OBVIOUS
    <3> QED
      BY <2>1, <3>1, <3>2, Zenon
  <2>4. CRLF \in Seq(Symbols) /\ Len(CRLF) = 2
    BY SymbolFacts
  <2>5. h \o CRLF \in Seq(Symbols) /\ Len(h \o CRLF) = 2 + 2
    BY <2>2, <2>3, <2>4, ConcatLength
  <2> QED
    BY <2>1, <2>5
<1>4. Stands(s, i, head) /\ Stands(s, i + 4, rest)
  BY <1>2, PartsStand
<1>5. Stands(s, i, <<mark, ToString(n)>> \o CRLF)
  BY <1>4
<1>6. Len(head \o rest) = 4 + Len(rest)
  BY <1>2, ConcatLength
<1> QED
  BY <1>4, <1>5, <1>6, HeadStands DEF CountRead

\* readCRLF, where a CRLF stands.
LEMMA ClosedReads ==
  ASSUME NEW s, NEW i, NEW value, Stands(s, i, CRLF)
  PROVE  Closed(value, s, i) = Decoded(value, i + 2)
<1>1. PICK n \in Nat : n = Len(s)
  BY LenProperties DEF Stands
<1>2. Len(CRLF) = 2
  BY SymbolFacts
<1>3. i \in 1 .. n + 1 /\ i + 2 - 1 <= n
  BY <1>1, <1>2 DEF Stands
<1>4. SubSeq(s, i, i + 1) = CRLF
  <2>1. SubSeq(s, i, i + 2 - 1) = CRLF
    BY <1>2, StandsPart
  <2>2. i + 2 - 1 = i + 1
    BY <1>3
  <2> QED
    BY <2>1, <2>2
<1>5. Min({i + 1, Len(s)}) = i + 1
  <2>1. i + 1 \in Int /\ Len(s) \in Int /\ i + 1 <= Len(s)
    BY <1>1, <1>3
  <2> QED
    BY <2>1, LeastOfTwo
<1> QED
  BY <1>4, <1>5 DEF Closed

\* A length is a numeral.
LEMMA LengthIsNumeral ==
  ASSUME NEW n \in 0 .. MaxInt
  PROVE  n \in Ints /\ n \in Nat
BY IntsFacts

\* A bulk string.
LEMMA BulkReads ==
  ASSUME NEW s, NEW i, NEW read, NEW text \in Seq(Symbols), NEW n \in 0 .. MaxInt, n = Len(text),
         Stands(s, i, <<"$", ToString(n)>> \o CRLF \o text \o CRLF)
  PROVE  Reads(DecodeAt(s, i, read), Bulk(text), i, <<"$", ToString(n)>> \o CRLF \o text \o CRLF)
<1>1. PICK len \in Nat : len = Len(s)
  BY LenProperties DEF Stands
<1>2. n \in Ints /\ n \in Nat
  BY LengthIsNumeral, Zenon
<1>3. CRLF \in Seq(Symbols) /\ Len(CRLF) = 2
  BY SymbolFacts
<1>4. PICK mark : mark = "$"
  OBVIOUS
<1>5. mark \in {"$", "*"}
  BY <1>4
<1>6. PICK h : h = <<mark, ToString(n)>> \o CRLF
  OBVIOUS
<1>7. h \in Seq(Symbols)
  <2>1. <<mark, ToString(n)>> \in Seq(Symbols)
    BY <1>2, <1>5, HeadType
  <2> QED
    BY <1>3, <1>6, <2>1, ConcatLength
<1>8. text \o CRLF \in Seq(Symbols) /\ Len(text \o CRLF) = n + 2
  BY <1>3, ConcatLength
<1>9. h \o text \o CRLF = h \o (text \o CRLF)
  <2>1. PICK p, q : p = text /\ q = CRLF
    OBVIOUS
  <2>2. p \in Seq(Symbols) /\ q \in Seq(Symbols)
    BY <1>3, <2>1
  <2>3. h \o p \o q = h \o (p \o q)
    BY <1>7, <2>2, ConcatAssociative
  <2> QED
    BY <2>1, <2>3
<1>10. PICK rest : rest = text \o CRLF
  OBVIOUS
<1>11. Stands(s, i, h \o rest)
  BY <1>4, <1>6, <1>9, <1>10, Zenon
<1>12. /\ i \in 1 .. Len(s) /\ s[i] = mark /\ i + 3 <= Len(s)
       /\ LineEnd(s, i + 1) = i + 2 /\ IsNumber(Line(s, i + 1)) /\ Atoi(Line(s, i + 1)) = n
       /\ Stands(s, i + 4, rest)
       /\ Len(h \o rest) = 4 + Len(rest)
  <2>1. rest \in Seq(Symbols)
    BY <1>8, <1>10
  <2>2. CountRead(s, i, mark, n, h, rest)
    BY <1>2, <1>5, <1>6, <1>11, <2>1, CountStands, Zenon
  <2> QED
    BY <2>2 DEF CountRead
<1>13. PICK start : start = i + 4
  OBVIOUS
<1>14. Stands(s, start, text) /\ Stands(s, start + n, CRLF)
  BY <1>3, <1>10, <1>12, <1>13, PartsStand
<1>15. SubSeq(s, start, start + n - 1) = text
  BY <1>14, StandsPart
<1>16. i \in Nat /\ i >= 1 /\ i <= len /\ start \in Nat /\ LineEnd(s, i + 1) + 2 = start /\ LineEnd(s, i + 1) # 0
  BY <1>1, <1>12, <1>13
<1>17. ~(Len(s) < start + n - 1)
  <2>1. start + n - 1 <= len
    BY <1>1, <1>14 DEF Stands
  <2> QED
    BY <1>1, <1>2, <1>16, <2>1
<1>18. DecodeAt(s, i, read) = DecodeBulk(s, i + 1)
  <2>1. i <= Len(s) /\ ~(i > Len(s)) /\ s[i] = "$"
    BY <1>1, <1>4, <1>12, <1>16
  <2> QED
    BY <2>1 DEF DecodeAt
<1>19. DecodeBulk(s, i + 1) = Closed(Bulk(text), s, start + n)
  <2>1. n # -1 /\ ~(n < -1)
    BY <1>2
  <2> QED
    BY <1>12, <1>15, <1>16, <1>17, <2>1, Zenon DEF DecodeBulk
<1>20. DecodeBulk(s, i + 1) = Decoded(Bulk(text), start + n + 2)
  BY <1>14, <1>19, ClosedReads
<1>21. start + n + 2 = i + (4 + (n + 2))
  BY <1>2, <1>13, <1>16
<1>22. Len(<<"$", ToString(n)>> \o CRLF \o text \o CRLF) = 4 + (n + 2)
  <2>1. Len(h \o rest) = 4 + (n + 2)
    BY <1>6, <1>8, <1>10, <1>12
  <2>2. h \o rest = <<"$", ToString(n)>> \o CRLF \o text \o CRLF
    BY <1>4, <1>6, <1>9, <1>10, Zenon
  <2> QED
    BY <2>1, <2>2
<1> QED
  BY <1>18, <1>20, <1>21, <1>22 DEF Reads

\* Nil, and the nil array.
LEMMA NilReads ==
  ASSUME NEW s, NEW i, NEW read, NEW mark \in {"$", "*"}, Stands(s, i, <<mark, ToString(-1)>> \o CRLF)
  PROVE  Reads(DecodeAt(s, i, read), IF mark = "$" THEN Nil ELSE NilArray, i, <<mark, ToString(-1)>> \o CRLF)
<1>1. PICK len \in Nat : len = Len(s)
  BY LenProperties DEF Stands
<1>2. -1 \in Ints
  BY IntsFacts
<1>3. /\ i \in 1 .. Len(s) /\ s[i] = mark /\ i + 3 <= Len(s)
      /\ LineEnd(s, i + 1) = i + 2 /\ IsNumber(Line(s, i + 1)) /\ Atoi(Line(s, i + 1)) = -1
  BY <1>2, HeadStands
<1>4. i <= Len(s) /\ ~(i > Len(s)) /\ LineEnd(s, i + 1) # 0 /\ LineEnd(s, i + 1) + 2 = i + 4
  BY <1>1, <1>3
<1>5. Len(<<mark, ToString(-1)>> \o CRLF) = 4
  <2>1. PICK x, y : x = mark /\ y = ToString(-1)
    OBVIOUS
  <2>2. <<x, y>> \in Seq(Symbols) /\ Len(<<x, y>>) = 2
    <3>1. <<mark, ToString(-1)>> \in Seq(Symbols)
      BY <1>2, HeadType
    <3>2. <<x, y>> \in Seq(Symbols)
      BY <2>1, <3>1, Zenon
    <3>3. Len(<<x, y>>) = 2
      OBVIOUS
    <3> QED
      BY <3>2, <3>3
  <2>3. CRLF \in Seq(Symbols) /\ Len(CRLF) = 2
    BY SymbolFacts
  <2>4. Len(<<x, y>> \o CRLF) = 2 + 2
    BY <2>2, <2>3, ConcatLength
  <2>5. Len(<<mark, ToString(-1)>> \o CRLF) = 2 + 2
    BY <2>1, <2>4, Zenon
  <2> QED
    BY <2>5
<1>6. CASE mark = "$"
  <2>1. DecodeAt(s, i, read) = DecodeBulk(s, i + 1)
    BY <1>3, <1>4, <1>6 DEF DecodeAt
  <2>2. DecodeBulk(s, i + 1) = Decoded(Nil, i + 4)
    BY <1>3, <1>4 DEF DecodeBulk
  <2> QED
    BY <1>5, <1>6, <2>1, <2>2 DEF Reads
<1>7. CASE mark = "*"
  <2>1. DecodeAt(s, i, read) = DecodeArray(s, i + 1, read)
    BY <1>3, <1>4, <1>7 DEF DecodeAt
  <2>2. DecodeArray(s, i + 1, read) = Decoded(NilArray, i + 4)
    BY <1>3, <1>4 DEF DecodeArray
  <2> QED
    BY <1>5, <1>7, <2>1, <2>2 DEF Reads
<1> QED
  BY <1>6, <1>7

\* The RDB file.
LEMMA RDBFileReads ==
  ASSUME NEW s, NEW text \in Seq(Symbols), NEW n \in 1 .. MaxInt, n = Len(text),
         Stands(s, 1, <<"$", ToString(n)>> \o CRLF \o text)
  PROVE  Reads(DecodeFullResyncRDBFile(s), Value("rdb", text, <<>>), 1, <<"$", ToString(n)>> \o CRLF \o text)
<1>1. PICK len \in Nat : len = Len(s)
  BY LenProperties DEF Stands
<1>2. n \in Ints /\ n \in Nat /\ n >= 1 /\ ~(n < 1)
  <2>1. n \in 0 .. MaxInt /\ n >= 1 /\ ~(n < 1)
    <3>1. \A k \in 1 .. MaxInt : k \in 0 .. MaxInt /\ k >= 1 /\ ~(k < 1)
      BY IntsFacts
    <3> QED
      BY <3>1, Zenon
  <2> QED
    BY <2>1, LengthIsNumeral, Zenon
<1>3. PICK mark : mark = "$"
  OBVIOUS
<1>0. PICK h : h = <<mark, ToString(n)>> \o CRLF
  OBVIOUS
<1>4. mark \in {"$", "*"} /\ Stands(s, 1, h \o text)
  BY <1>0, <1>3
<1>5. /\ 1 \in 1 .. Len(s) /\ s[1] = mark /\ 1 + 3 <= Len(s)
      /\ LineEnd(s, 1 + 1) = 1 + 2 /\ IsNumber(Line(s, 1 + 1)) /\ Atoi(Line(s, 1 + 1)) = n
      /\ Stands(s, 1 + 4, text)
      /\ Len(h \o text) = 4 + Len(text)
  <2>1. CountRead(s, 1, mark, n, h, text)
    BY <1>0, <1>2, <1>4, CountStands, Zenon
  <2> QED
    BY <2>1 DEF CountRead
<1>6. 1 + 1 = 2 /\ 1 + 2 = 3 /\ 1 + 4 = 5 /\ 3 + 2 = 5 /\ 3 # 0 /\ 5 + n = 1 + (4 + n)
  BY <1>2
<1>7. LineEnd(s, 2) = 3 /\ IsNumber(Line(s, 2)) /\ Atoi(Line(s, 2)) = n /\ LineEnd(s, 2) + 2 = 5 /\ LineEnd(s, 2) # 0
  BY <1>5, <1>6
<1>8. SubSeq(s, 5, 5 + n - 1) = text
  <2>1. Stands(s, 5, text)
    BY <1>5, <1>6
  <2> QED
    BY <2>1, StandsPart
<1>9. ~(Len(s) < 5 + n - 1)
  <2>1. 5 + n - 1 <= len
    BY <1>1, <1>5, <1>6 DEF Stands
  <2> QED
    BY <1>1, <1>2, <2>1
<1>10. s # <<>> /\ s[1] = "$"
  <2>1. s # <<>>
    BY <1>5
  <2> QED
    BY <1>3, <1>5, <2>1
<1>11. DecodeFullResyncRDBFile(s) = Decoded(Value("rdb", text, <<>>), 5 + n)
  BY <1>2, <1>7, <1>8, <1>9, <1>10, Zenon DEF DecodeFullResyncRDBFile
<1> QED
  BY <1>0, <1>3, <1>5, <1>6, <1>11 DEF Reads

\* What the encodings of elements are together.
ElementsOf(d, elems) == AllOf(WrittenTo[d], elems)

\* decodeArray's loop, when its decoder reads the elements.
LEMMA ElementsReads ==
  ASSUME NEW d \in 0 .. MaxDepth, NEW C, C \subseteq ValuesTo[d], NEW s, NEW start, NEW read,
         NEW length \in Nat,
         \A j : \A w \in C : Stands(s, j, WrittenTo[d][w]) => Reads(read[j], w, j, WrittenTo[d][w])
  PROVE  \A n \in 0 .. length : \A elems \in Seq(C) :
           Len(elems) = n /\ Stands(s, start, ElementsOf(d, elems)) =>
             Reads(ElementsRead(start, length, read)[n], Array(elems), start, ElementsOf(d, elems))
<1> DEFINE R == ElementsRead(start, length, read)
           Done(n) == \A elems \in Seq(C) :
             Len(elems) = n /\ Stands(s, start, ElementsOf(d, elems)) =>
               Reads(R[n], Array(elems), start, ElementsOf(d, elems))
           T == {n \in Nat : n \in 0 .. length => Done(n)}
<1>1. \A n \in 0 .. length : R[n] = IF n = 0 THEN Decoded(Array(<<>>), start)
                                    ELSE ReadElement(R[n - 1], read)
  BY ElementsEquation
<1> HIDE DEF R
<1>2. \A elems \in Seq(C) : elems \in Seq(ValuesTo[d])
  <2>1. \A w \in C : w \in ValuesTo[d]
    OBVIOUS
  <2> SUFFICES ASSUME NEW elems \in Seq(C) PROVE elems \in Seq(ValuesTo[d])
    OBVIOUS
  <2>2. PICK m \in Nat : m = Len(elems)
    BY LenProperties
  <2>3. elems \in [1 .. m -> C]
    BY <2>2, LenProperties
  <2>4. elems \in [1 .. m -> ValuesTo[d]]
    BY <2>1, <2>3
  <2> QED
    BY <2>4, FunctionIsSeq
<1>3. ASSUME NEW n \in Nat, \A k \in 0 .. n - 1 : k \in T PROVE n \in T
  <2>1. SUFFICES ASSUME n \in 0 .. length, NEW elems \in Seq(C), Len(elems) = n,
                        Stands(s, start, ElementsOf(d, elems))
                 PROVE  Reads(R[n], Array(elems), start, ElementsOf(d, elems))
    OBVIOUS
  <2>2. CASE n = 0
    <3>1. R[n] = Decoded(Array(<<>>), start)
      BY <1>1, <2>1, <2>2
    <3>2. elems = <<>>
      BY <2>1, <2>2, EmptySeq
    <3>3. ElementsOf(d, <<>>) = <<>>
      <4>1. [i \in DOMAIN <<>> |-> WrittenTo[d][<<>>[i]]] = <<>>
        OBVIOUS
      <4>2. FlattenSeq(<<>>) = <<>>
        BY DEF FlattenSeq
      <4> QED
        BY <4>1, <4>2 DEF ElementsOf, AllOf
    <3>4. Len(<<>>) = 0
      OBVIOUS
    <3>5. start + 0 = start
      <4>1. start \in Nat
        <5>1. PICK m \in Nat : m = Len(s)
          BY <2>1, LenProperties DEF Stands
        <5>2. start \in 1 .. m + 1
          BY <2>1, <5>1 DEF Stands
        <5> QED
          BY <5>2
      <4> QED
        BY <4>1
    <3> QED
      BY <3>1, <3>2, <3>3, <3>4, <3>5, Zenon DEF Reads
  <2>3. CASE n # 0
    <3>1. n - 1 \in 0 .. n - 1 /\ n - 1 \in 0 .. length /\ n - 1 \in Nat /\ (n - 1) + 1 = n
      BY <2>1, <2>3
    <3>2. Done(n - 1)
      <4>1. n - 1 \in T
        BY <1>3, <3>1, Zenon
      <4> QED
        BY <3>1, <4>1
    <3>3. PICK front \in Seq(C), last \in C : Len(front) = n - 1 /\ elems = Append(front, last)
      <4>1. elems # <<>>
        BY <2>1, <2>3, EmptySeq
      <4>2. \E front \in Seq(C), last \in C : elems = Append(front, last)
        BY <4>1, SequenceEmptyOrAppend, Zenon
      <4>3. PICK front, last : front \in Seq(C) /\ last \in C /\ elems = Append(front, last)
        BY <4>2, Zenon
      <4>4. Len(elems) = Len(front) + 1 /\ Len(front) \in Nat
        BY <4>3, AppendProperties, LenProperties
      <4>5. Len(front) = n - 1
        BY <2>1, <4>4
      <4> QED
        BY <4>3, <4>5, Zenon
    <3>4. front \in Seq(ValuesTo[d]) /\ last \in ValuesTo[d]
      BY <1>2
    <3>5. PICK a, b : a = ElementsOf(d, front) /\ b = WrittenTo[d][last]
      OBVIOUS
    <3>6. ElementsOf(d, elems) = a \o b
      <4>1. PICK F : F = WrittenTo[d]
        OBVIOUS
      <4>2. \A w \in ValuesTo[d] : F[w] \in Seq(Symbols)
        BY <4>1, WritingType
      <4>3. AllOf(F, Append(front, last)) = AllOf(F, front) \o F[last]
        BY <3>4, <4>2, OneElementMore
      <4> QED
        BY <3>3, <3>5, <4>1, <4>3 DEF ElementsOf
    <3>7. a \in Seq(Symbols) /\ b \in Seq(Symbols)
      <4>1. \A w \in ValuesTo[d] : WrittenTo[d][w] \in Seq(Symbols)
        BY WritingType
      <4>2. [i \in DOMAIN front |-> WrittenTo[d][front[i]]] \in Seq(Seq(Symbols))
        BY <3>4, <4>1, ElementsType
      <4>3. a \in Seq(Symbols)
        BY <3>5, <4>2, FlattenType DEF ElementsOf, AllOf
      <4> QED
        BY <3>4, <3>5, <4>1, <4>3
    <3>8. Stands(s, start, a) /\ Stands(s, start + Len(a), b)
      BY <2>1, <3>6, <3>7, PartsStand
    <3>9. PICK j : j = start + Len(a)
      OBVIOUS
    <3>10. R[n - 1] = Decoded(Array(front), j)
      BY <3>2, <3>3, <3>5, <3>8, <3>9, Zenon DEF Reads
    <3>11. read[j] = Decoded(last, j + Len(b))
      BY <3>5, <3>8, <3>9, Zenon DEF Reads
    <3>12. R[n] = ReadElement(R[n - 1], read)
      BY <1>1, <2>1, <2>3
    <3>13. PICK r : r = R[n - 1]
      OBVIOUS
    <3>14. r.res = "value" /\ r.next = j /\ r.value.elems = front
      BY <3>10, <3>13 DEF Decoded, Array, Value
    <3>15. PICK e : e = read[j]
      OBVIOUS
    <3>16. e.res = "value" /\ e.value = last /\ e.next = j + Len(b)
      BY <3>11, <3>15 DEF Decoded
    <3>17. ReadElement(r, read) = WithElement(r, e)
      BY <3>14, <3>15 DEF ReadElement
    <3>18. WithElement(r, e) = Decoded(Array(elems), j + Len(b))
      BY <3>3, <3>14, <3>16 DEF WithElement
    <3>19. j + Len(b) = start + Len(a \o b)
      <4>1. PICK la, lb, m \in Nat : la = Len(a) /\ lb = Len(b) /\ m = Len(s)
        BY <3>7, <3>8, LenProperties DEF Stands
      <4>2. start \in 1 .. m + 1
        BY <3>8, <4>1 DEF Stands
      <4>3. Len(a \o b) = la + lb
        BY <3>7, <4>1, ConcatLength
      <4>4. j = start + la
        BY <3>9, <4>1
      <4> QED
        BY <4>1, <4>2, <4>3, <4>4
    <3> QED
      BY <3>6, <3>12, <3>13, <3>17, <3>18, <3>19, Zenon DEF Reads
  <2> QED
    BY <2>2, <2>3
<1>4. \A n \in Nat : n \in T
  <2> HIDE DEF T
  <2> QED
    BY <1>3, StrongInduction
<1>5. \A n \in 0 .. length : Done(n)
  BY <1>4
<1> QED
  BY <1>5 DEF R

\* An array.
LEMMA ArrayReads ==
  ASSUME NEW d \in 0 .. MaxDepth, NEW C, C \subseteq ValuesTo[d], NEW s, NEW i, NEW read,
         NEW elems \in Seq(C), NEW n \in 0 .. MaxInt, n = Len(elems),
         \A j : \A w \in C : Stands(s, j, WrittenTo[d][w]) => Reads(read[j], w, j, WrittenTo[d][w]),
         Stands(s, i, <<"*", ToString(n)>> \o CRLF \o ElementsOf(d, elems))
  PROVE  Reads(DecodeAt(s, i, read), Array(elems), i, <<"*", ToString(n)>> \o CRLF \o ElementsOf(d, elems))
<1>1. PICK len \in Nat : len = Len(s)
  BY LenProperties DEF Stands
<1>2. n \in Ints /\ n \in Nat
  BY LengthIsNumeral, Zenon
<1>3. PICK mark : mark = "*"
  OBVIOUS
<1>4. mark \in {"$", "*"}
  BY <1>3
<1>5. PICK h, rest : h = <<mark, ToString(n)>> \o CRLF /\ rest = ElementsOf(d, elems)
  OBVIOUS
<1>6. rest \in Seq(Symbols)
  <2>1. \A w \in C : WrittenTo[d][w] \in Seq(Symbols)
    BY WritingType
  <2>2. [k \in DOMAIN elems |-> WrittenTo[d][elems[k]]] \in Seq(Seq(Symbols))
    BY <2>1, ElementsType
  <2> QED
    BY <1>5, <2>2, FlattenType DEF ElementsOf, AllOf
<1>7. Stands(s, i, h \o rest)
  BY <1>3, <1>5, Zenon
<1>8. /\ i \in 1 .. Len(s) /\ s[i] = mark /\ i + 3 <= Len(s)
      /\ LineEnd(s, i + 1) = i + 2 /\ IsNumber(Line(s, i + 1)) /\ Atoi(Line(s, i + 1)) = n
      /\ Stands(s, i + 4, rest)
      /\ Len(h \o rest) = 4 + Len(rest)
  <2>1. CountRead(s, i, mark, n, h, rest)
    BY <1>2, <1>4, <1>5, <1>6, <1>7, CountStands, Zenon
  <2> QED
    BY <2>1 DEF CountRead
<1>9. PICK start : start = i + 4
  OBVIOUS
<1>10. i \in Nat /\ i >= 1 /\ i <= len /\ start \in Nat /\ LineEnd(s, i + 1) + 2 = start /\ LineEnd(s, i + 1) # 0
  BY <1>1, <1>8, <1>9
<1>11. DecodeAt(s, i, read) = DecodeArray(s, i + 1, read)
  <2>1. i <= Len(s) /\ ~(i > Len(s)) /\ s[i] = "*"
    BY <1>1, <1>3, <1>8, <1>10
  <2> QED
    BY <2>1 DEF DecodeAt
<1>12. DecodeArray(s, i + 1, read) = DecodeElements(start, n, read)
  <2>1. n # -1 /\ ~(n < -1)
    BY <1>2
  <2> QED
    BY <1>8, <1>10, <2>1, Zenon DEF DecodeArray
<1>13. Reads(DecodeElements(start, n, read), Array(elems), start, rest)
  <2>1. Stands(s, start, ElementsOf(d, elems)) /\ n \in 0 .. n
    BY <1>2, <1>5, <1>8, <1>9
  <2>2. Reads(ElementsRead(start, n, read)[n], Array(elems), start, ElementsOf(d, elems))
    BY <1>2, <2>1, ElementsReads
  <2> QED
    BY <1>5, <2>2 DEF DecodeElements
<1>14. start + Len(rest) = i + (4 + Len(rest))
  <2>1. Len(rest) \in Nat
    BY <1>6, LenProperties
  <2> QED
    BY <1>9, <1>10, <2>1
<1>15. h \o rest = <<"*", ToString(n)>> \o CRLF \o ElementsOf(d, elems)
  BY <1>3, <1>5, Zenon
<1> QED
  BY <1>8, <1>11, <1>12, <1>13, <1>14, <1>15, Zenon DEF Reads

\* A value's fields are what it is.
LEMMA FieldsOf ==
  ASSUME NEW S, NEW v \in [type : Types, text : Seq(Symbols), elems : Seq(S)]
  PROVE  v = Value(v.type, v.text, v.elems)
BY DEF Value

\* Whatever its type, a value is decoded from where its encoding stands.
LEMMA ValueReads ==
  ASSUME NEW d \in 1 .. MaxDepth, NEW v \in CleanTo[d], NEW s, NEW i, NEW read,
         \A j : \A w \in CleanTo[d - 1] :
           Stands(s, j, WrittenTo[d - 1][w]) => Reads(read[j], w, j, WrittenTo[d - 1][w]),
         Stands(s, i, WrittenTo[d][v])
  PROVE  Reads(DecodeAt(s, i, read), v, i, WrittenTo[d][v])
<1>1. d - 1 \in 0 .. MaxDepth /\ d \in 0 .. MaxDepth /\ d # 0
  BY RespAssumption
<1>2. v \in ValuesTo[d] /\ Clean(v, CleanTo[d - 1])
  BY <1>1, CleanEquation
<1>3. CleanTo[d - 1] \subseteq ValuesTo[d - 1]
  BY <1>1, CleanEquation
<1>4. /\ v \in [type : Types, text : Seq(Symbols), elems : Seq(ValuesTo[d - 1])]
      /\ v.type \in {"$", "rdb"} => Len(v.text) <= MaxInt
      /\ v.type = "*" => Len(v.elems) <= MaxInt
  BY <1>2, ValueFacts
<1>5. v = Value(v.type, v.text, v.elems)
  BY <1>4, FieldsOf
<1>6. v.text \in Seq(Symbols) /\ v.elems \in Seq(ValuesTo[d - 1])
  BY <1>4
<1>7. PICK elements : /\ elements = [k \in DOMAIN v.elems |-> WrittenTo[d - 1][v.elems[k]]]
                      /\ WrittenTo[d][v] = WrittenOf(v, elements)
  BY <1>2, WrittenValue
<1>8. PICK type, text : type = v.type /\ text = v.text
  OBVIOUS
<1>9. CASE /\ type \in {"+", "-", ":"} /\ v.elems = <<>> /\ OneLine(text)
           /\ type = ":" => \E n \in Ints : text = <<ToString(n)>>
  <2>1. WrittenOf(v, elements) = <<type>> \o text \o CRLF
    BY <1>8, <1>9 DEF WrittenOf, Encoded
  <2>2. v = Value(type, text, <<>>)
    BY <1>5, <1>8, <1>9
  <2>3. text \in Seq(Symbols)
    BY <1>6, <1>8
  <2>4. Stands(s, i, <<type>> \o text \o CRLF)
    BY <1>7, <2>1
  <2>5. Reads(DecodeAt(s, i, read), Value(type, text, <<>>), i, <<type>> \o text \o CRLF)
    BY <1>9, <2>3, <2>4, LineReads, Zenon
  <2> QED
    BY <1>7, <2>1, <2>2, <2>5
<1>10. CASE type = "$" /\ v.elems = <<>>
  <2>1. PICK n \in Nat : n = Len(text)
    BY <1>6, <1>8, LenProperties
  <2>2. n \in 0 .. MaxInt
    <3>1. Len(v.text) <= MaxInt
      BY <1>4, <1>8, <1>10, Zenon
    <3>2. n <= MaxInt
      BY <1>8, <2>1, <3>1
    <3> QED
      BY <3>2, IntsFacts
  <2>3. WrittenOf(v, elements) = <<"$", ToString(n)>> \o CRLF \o text \o CRLF
    BY <1>8, <1>10, <2>1 DEF WrittenOf, Encoded
  <2>4. v = Bulk(text)
    BY <1>5, <1>8, <1>10 DEF Bulk
  <2>5. text \in Seq(Symbols)
    BY <1>6, <1>8
  <2>6. Stands(s, i, <<"$", ToString(n)>> \o CRLF \o text \o CRLF)
    BY <1>7, <2>3
  <2>7. Reads(DecodeAt(s, i, read), Bulk(text), i, <<"$", ToString(n)>> \o CRLF \o text \o CRLF)
    BY <2>1, <2>2, <2>5, <2>6, BulkReads, Zenon
  <2> QED
    BY <1>7, <2>3, <2>4, <2>7
<1>11. CASE type = "*" /\ text = <<>> /\ v.elems \in Seq(CleanTo[d - 1])
  <2>1. PICK n \in Nat : n = Len(v.elems)
    BY <1>6, LenProperties
  <2>2. n \in 0 .. MaxInt
    <3>1. Len(v.elems) <= MaxInt
      BY <1>4, <1>8, <1>11, Zenon
    <3>2. n <= MaxInt
      BY <1>8, <2>1, <3>1
    <3> QED
      BY <3>2, IntsFacts
  <2>3. WrittenOf(v, elements) = <<"*", ToString(n)>> \o CRLF \o FlattenSeq(elements)
    BY <1>8, <1>11, <2>1 DEF WrittenOf, Encoded
  <2>4. PICK elems : elems = v.elems
    OBVIOUS
  <2>5. FlattenSeq(elements) = ElementsOf(d - 1, elems)
    BY <1>7, <2>4, Zenon DEF ElementsOf, AllOf
  <2>6. v = Array(elems)
    BY <1>5, <1>8, <1>11, <2>4 DEF Array
  <2>7. Stands(s, i, <<"*", ToString(n)>> \o CRLF \o ElementsOf(d - 1, elems))
    BY <1>7, <2>3, <2>5
  <2>8. elems \in Seq(CleanTo[d - 1]) /\ n = Len(elems)
    BY <1>11, <2>1, <2>4
  <2>9. Reads(DecodeAt(s, i, read), Array(elems), i, <<"*", ToString(n)>> \o CRLF \o ElementsOf(d - 1, elems))
    BY <1>1, <1>3, <2>2, <2>7, <2>8, ArrayReads, Zenon
  <2> QED
    BY <1>7, <2>3, <2>5, <2>6, <2>9
<1>12. CASE v = Nil
  <2>1. v.type = "nil"
    BY <1>12 DEF Nil, Value
  <2>2. WrittenOf(v, elements) = <<"$", ToString(-1)>> \o CRLF
    BY <2>1 DEF WrittenOf, Encoded
  <2>3. PICK mark : mark = "$"
    OBVIOUS
  <2>4. mark \in {"$", "*"} /\ Stands(s, i, <<mark, ToString(-1)>> \o CRLF)
    BY <1>7, <2>2, <2>3
  <2>5. Reads(DecodeAt(s, i, read), IF mark = "$" THEN Nil ELSE NilArray, i, <<mark, ToString(-1)>> \o CRLF)
    BY <2>4, NilReads, Zenon
  <2> QED
    BY <1>7, <1>12, <2>2, <2>3, <2>5
<1>13. CASE v = NilArray
  <2>1. v.type = "nilarray"
    BY <1>13 DEF NilArray, Value
  <2>2. WrittenOf(v, elements) = <<"*", ToString(-1)>> \o CRLF
    BY <2>1 DEF WrittenOf, Encoded
  <2>3. PICK mark : mark = "*"
    OBVIOUS
  <2>4. mark \in {"$", "*"} /\ mark # "$" /\ Stands(s, i, <<mark, ToString(-1)>> \o CRLF)
    BY <1>7, <2>2, <2>3
  <2>5. Reads(DecodeAt(s, i, read), IF mark = "$" THEN Nil ELSE NilArray, i, <<mark, ToString(-1)>> \o CRLF)
    BY <2>4, NilReads, Zenon
  <2> QED
    BY <1>7, <1>13, <2>2, <2>3, <2>4, <2>5
<1>14. ASSUME NEW n \in Ints, v = Integer(n)
       PROVE  /\ type \in {"+", "-", ":"} /\ v.elems = <<>> /\ OneLine(text)
              /\ type = ":" => \E m \in Ints : text = <<ToString(m)>>
  <2>1. v.type = ":" /\ v.text = <<ToString(n)>> /\ v.elems = <<>>
    BY <1>14 DEF Integer, Value
  <2>2. OneLine(<<ToString(n)>>)
    BY NumeralFacts, SymbolIsOneLine
  <2> QED
    BY <1>8, <2>1, <2>2
<1>15. CASE \E n \in Ints : v = Integer(n)
  BY <1>9, <1>14, <1>15
<1> QED
  BY <1>2, <1>8, <1>9, <1>10, <1>11, <1>12, <1>13, <1>15 DEF Clean

\* So at every depth.
LEMMA DecodersRead ==
  ASSUME NEW s
  PROVE  \A d \in 0 .. MaxDepth : \A i : \A v \in CleanTo[d] :
           Stands(s, i, WrittenTo[d][v]) => Reads(Decoders(s)[d][i], v, i, WrittenTo[d][v])
<1> DEFINE T == {d \in Nat : d \in 0 .. MaxDepth =>
                   \A i : \A v \in CleanTo[d] :
                     Stands(s, i, WrittenTo[d][v]) => Reads(Decoders(s)[d][i], v, i, WrittenTo[d][v])}
<1>1. ASSUME NEW d \in Nat, \A k \in 0 .. d - 1 : k \in T PROVE d \in T
  <2>1. SUFFICES ASSUME d \in 0 .. MaxDepth, NEW i, NEW v \in CleanTo[d], Stands(s, i, WrittenTo[d][v])
                 PROVE  Reads(Decoders(s)[d][i], v, i, WrittenTo[d][v])
    OBVIOUS
  <2>2. d # 0
    BY <2>1, CleanEquation
  <2>3. d - 1 \in 0 .. d - 1 /\ d - 1 \in 0 .. MaxDepth /\ d \in 1 .. MaxDepth
    BY <2>1, <2>2, RespAssumption
  <2>4. d - 1 \in T
    BY <1>1, <2>3, Zenon
  <2>5. \A j : \A w \in CleanTo[d - 1] :
          Stands(s, j, WrittenTo[d - 1][w]) => Reads(Decoders(s)[d - 1][j], w, j, WrittenTo[d - 1][w])
    BY <2>3, <2>4
  <2>6. Decoders(s)[d] = [j \in 1 .. Len(s) + 1 |-> DecodeAt(s, j, Decoders(s)[d - 1])]
    BY <2>1, <2>2, DecodersEquation
  <2>7. i \in 1 .. Len(s) + 1
    BY <2>1 DEF Stands
  <2>8. Decoders(s)[d][i] = DecodeAt(s, i, Decoders(s)[d - 1])
    BY <2>6, <2>7
  <2> QED
    BY <2>1, <2>3, <2>5, <2>8, ValueReads
<1>2. \A d \in Nat : d \in T
  <2> HIDE DEF T
  <2> QED
    BY <1>1, StrongInduction
<1> QED
  BY <1>2

\* A sequence stands at the front of what it is followed by.
LEMMA FrontStands ==
  ASSUME NEW p \in Seq(Symbols), NEW t \in Seq(Symbols)
  PROVE  Stands(p \o t, 1, p)
<1>1. Begins(p, p \o t)
  BY MoreBegins
<1>2. PICK s : s = p \o t
  OBVIOUS
<1>3. PICK n, m \in Nat : n = Len(p) /\ m = Len(s)
  BY <1>1, <1>2, LenProperties DEF Begins
<1>4. /\ s \in Seq(Symbols) /\ n <= m /\ \A j \in 1 .. n : s[j] = p[j]
  BY <1>1, <1>2, <1>3 DEF Begins
<1>5. 1 \in 1 .. m + 1 /\ 1 + n - 1 <= m /\ \A j \in 1 .. n : 1 + j - 1 = j
  BY <1>3, <1>4
<1>6. Stands(s, 1, p)
  BY <1>3, <1>4, <1>5 DEF Stands
<1> QED
  BY <1>2, <1>6

\* What a program writes, a value that a decoder can return, is what the tester's
\* decoder reads, whatever follows it, and no sooner than all of it is there.
\* (Without integers it is also what resp/encoder writes, which panics on them.)
THEOREM DecodeInvertsWriting ==
  \A v \in CleanTo[MaxDepth] :
    /\ \A t \in Seq(Symbols) : Decode(Written(v) \o t) = Decoded(v, 1 + Len(Written(v)))
    /\ \A s, t \in Seq(Symbols) : s \o t = Written(v) /\ t # <<>> => Decode(s).res = "incomplete"
<1>1. SUFFICES ASSUME NEW v \in CleanTo[MaxDepth]
               PROVE  /\ \A t \in Seq(Symbols) : Decode(Written(v) \o t) = Decoded(v, 1 + Len(Written(v)))
                      /\ \A s, t \in Seq(Symbols) :
                           s \o t = Written(v) /\ t # <<>> => Decode(s).res = "incomplete"
  OBVIOUS
<1>2. MaxDepth \in 0 .. MaxDepth /\ MaxDepth # 0
  BY RespAssumption
<1>3. v \in Values
  <2>1. v \in ValuesTo[MaxDepth]
    BY <1>2, CleanEquation
  <2> QED
    BY <2>1 DEF Values
<1>4. Written(v) = WrittenTo[MaxDepth][v]
  BY <1>3 DEF Written
<1>5. PICK p : p = Written(v)
  OBVIOUS
<1>6. p \in Seq(Symbols)
  BY <1>5, WrittenType
<1>7. ASSUME NEW t \in Seq(Symbols) PROVE Decode(p \o t) = Decoded(v, 1 + Len(p))
  <2>1. Stands(p \o t, 1, p)
    BY <1>6, FrontStands
  <2>2. Reads(Decoders(p \o t)[MaxDepth][1], v, 1, p)
    BY <1>2, <1>4, <1>5, <2>1, DecodersRead
  <2> QED
    BY <2>2 DEF Decode, Reads
<1>8. ASSUME NEW s \in Seq(Symbols), NEW t \in Seq(Symbols), s \o t = p, t # <<>>
      PROVE  Decode(s).res = "incomplete"
  <2>1. p \o <<>> = p /\ <<>> \in Seq(Symbols)
    BY <1>6, ConcatEmptySeq, EmptySeq
  <2>2. Decode(s \o t) = Decoded(v, 1 + Len(p))
    BY <1>7, <1>8, <2>1
  <2>3. Decode(s \o t).res = "value" /\ Decode(s \o t).next = 1 + Len(p)
    BY <2>2 DEF Decoded
  <2>4. 1 + Len(p) > Len(s) + 1
    <3>1. PICK a, b \in Nat : a = Len(s) /\ b = Len(t)
      BY LenProperties
    <3>2. b # 0
      BY <1>8, <3>1, EmptySeq
    <3>3. Len(p) = a + b
      BY <1>8, <3>1, ConcatLength
    <3> QED
      BY <3>1, <3>2, <3>3
  <2> QED
    BY <2>3, <2>4, DecodeDecides
<1> QED
  BY <1>5, <1>7, <1>8

\* So is the RDB file a master sends, which no CRLF ends.
THEOREM RDBFileInverts ==
  \A text, t \in Seq(Symbols) : Len(text) \in 1 .. MaxInt =>
    LET v == Value("rdb", text, <<>>)
    IN  DecodeFullResyncRDBFile(Written(v) \o t) = Decoded(v, 1 + Len(Written(v)))
<1>1. SUFFICES ASSUME NEW text \in Seq(Symbols), NEW t \in Seq(Symbols), Len(text) \in 1 .. MaxInt,
                      NEW v, v = Value("rdb", text, <<>>)
               PROVE  DecodeFullResyncRDBFile(Written(v) \o t) = Decoded(v, 1 + Len(Written(v)))
  OBVIOUS
<1>2. PICK n : n = Len(text)
  OBVIOUS
<1>3. n \in 1 .. MaxInt
  BY <1>1, <1>2
<1>4. MaxDepth \in 1 .. MaxDepth
  BY RespAssumption
<1>5. PICK type : type = "rdb"
  OBVIOUS
<1>6. type \in Types
  BY <1>5 DEF Types
<1>7. n <= MaxInt
  BY <1>3, IntsFacts
<1>8. /\ Value(type, text, <<>>) \in ValuesTo[MaxDepth]
      /\ \E elements : WrittenTo[MaxDepth][Value(type, text, <<>>)] = WrittenOf(Value(type, text, <<>>), elements)
  BY <1>2, <1>4, <1>6, <1>7, ScalarFacts
<1>9. PICK elements : v \in ValuesTo[MaxDepth] /\ WrittenTo[MaxDepth][v] = WrittenOf(v, elements)
  BY <1>1, <1>5, <1>8, Zenon
<1>10. Written(v) = <<"$", ToString(n)>> \o CRLF \o text
  <2>1. v.type = "rdb" /\ v.text = text
    BY <1>1 DEF Value
  <2>2. WrittenOf(v, elements) = <<"$", ToString(n)>> \o CRLF \o text
    BY <1>2, <2>1 DEF WrittenOf, Encoded
  <2>3. Written(v) = WrittenTo[MaxDepth][v]
    BY <1>9 DEF Written, Values
  <2> QED
    BY <1>9, <2>2, <2>3
<1>11. PICK p : p = Written(v)
  OBVIOUS
<1>12. Stands(p \o t, 1, p)
  BY <1>11, WrittenType, FrontStands
<1>13. Stands(p \o t, 1, <<"$", ToString(n)>> \o CRLF \o text)
  BY <1>10, <1>11, <1>12, Zenon
<1>14. Reads(DecodeFullResyncRDBFile(p \o t), Value("rdb", text, <<>>), 1, <<"$", ToString(n)>> \o CRLF \o text)
  BY <1>2, <1>3, <1>13, RDBFileReads, Zenon
<1>15. Reads(DecodeFullResyncRDBFile(p \o t), v, 1, p)
  BY <1>1, <1>10, <1>11, <1>14, Zenon
<1> QED
  BY <1>11, <1>15 DEF Reads

\* What a decoder found is clean.
ReturnsClean(d, r) == r.res = "value" => Clean(r.value, CleanTo[d - 1])

\* A line is one line.
LEMMA LineIsOneLine ==
  ASSUME NEW s \in Seq(Symbols), NEW i \in 1 .. Len(s) + 1, LineEnd(s, i) # 0
  PROVE  OneLine(Line(s, i))
<1>1. PICK n \in Nat : n = Len(s)
  BY LenProperties
<1>2. PICK e : e = LineEnd(s, i)
  OBVIOUS
<1>3. e \in i .. n - 1 /\ \A h \in i .. e - 1 : SubSeq(s, h, h + 1) # CRLF
  BY <1>1, <1>2, FirstEnd
<1>4. PICK line : line = SubSeq(s, i, e - 1)
  OBVIOUS
<1>5. e - 1 \in i - 1 .. Len(s) /\ (e - 1) - i + 1 = e - i /\ i \in Nat
  BY <1>1, <1>3
<1>6. /\ line \in Seq(Symbols) /\ Len(line) = e - i
      /\ \A j \in 1 .. e - i : line[j] = s[i + j - 1]
  BY <1>4, <1>5, PartFacts
<1>7. ASSUME NEW h \in 1 .. Len(line) - 1 PROVE SubSeq(line, h, h + 1) # CRLF
  <2>1. PICK k : k = i + h - 1
    OBVIOUS
  <2>2. /\ h \in 1 .. e - i /\ h + 1 \in 1 .. e - i /\ k \in i .. e - 1 /\ k \in 1 .. Len(s) - 1
        /\ i + (h + 1) - 1 = k + 1
    BY <1>1, <1>3, <1>5, <1>6, <2>1
  <2>3. SubSeq(line, h, h + 1) = <<line[h], line[h + 1]>>
    BY <1>6, PartOfTwo
  <2>4. SubSeq(s, k, k + 1) = <<s[k], s[k + 1]>>
    BY <2>2, PartOfTwo
  <2>5. line[h] = s[k] /\ line[h + 1] = s[k + 1]
    BY <1>6, <2>1, <2>2
  <2>6. SubSeq(s, k, k + 1) # CRLF
    BY <1>3, <2>2
  <2> QED
    BY <2>3, <2>4, <2>5, <2>6
<1> QED
  BY <1>2, <1>4, <1>7 DEF OneLine, Line

\* At the positions D, a decoder returns values of C and goes on to positions of D.
ReadsWithin(read, D, C) ==
  \A j \in D : read[j].res = "value" => read[j].value \in C /\ read[j].next \in D

\* What is found, if it is a value, is an array of values of C.
ArrayOf(r, C) == r.res = "value" => \E elems \in Seq(C) : r.value = Array(elems)

\* decodeArray's loop puts together what its decoder returns.
LEMMA ElementsClean ==
  ASSUME NEW C, NEW read, NEW D, ReadsWithin(read, D, C),
         NEW start \in D, NEW length \in Nat
  PROVE  ArrayOf(DecodeElements(start, length, read), C)
<1> DEFINE R == ElementsRead(start, length, read)
           Good(r) == r.res = "value" => r.next \in D /\ \E elems \in Seq(C) : r.value = Array(elems)
           T == {n \in Nat : n \in 0 .. length => Good(R[n])}
<1>1. \A n \in 0 .. length : R[n] = IF n = 0 THEN Decoded(Array(<<>>), start)
                                    ELSE ReadElement(R[n - 1], read)
  BY ElementsEquation
<1> HIDE DEF R
<1>2. ASSUME NEW n \in Nat, \A k \in 0 .. n - 1 : k \in T PROVE n \in T
  <2>1. SUFFICES ASSUME n \in 0 .. length PROVE Good(R[n])
    OBVIOUS
  <2>2. CASE n = 0
    <3>1. R[n] = Decoded(Array(<<>>), start)
      BY <1>1, <2>1, <2>2
    <3>2. R[n].next = start /\ R[n].value = Array(<<>>)
      BY <3>1 DEF Decoded
    <3>3. <<>> \in Seq(C)
      BY EmptySeq
    <3> QED
      BY <3>2, <3>3
  <2>3. CASE n # 0
    <3>1. n - 1 \in 0 .. n - 1 /\ n - 1 \in 0 .. length
      BY <2>1, <2>3
    <3>2. n - 1 \in T
      BY <1>2, <3>1, Zenon
    <3>3. PICK r : r = R[n - 1]
      OBVIOUS
    <3>4. Good(r)
      BY <3>1, <3>2, <3>3
    <3>5. R[n] = ReadElement(r, read)
      BY <1>1, <2>1, <2>3, <3>3
    <3>6. CASE r.res # "value"
      <4>1. R[n] = r
        BY <3>5, <3>6 DEF ReadElement
      <4> QED
        BY <3>6, <4>1
    <3>7. CASE r.res = "value"
      <4>1. PICK elems \in Seq(C) : r.value = Array(elems)
        BY <3>4, <3>7
      <4>2. PICK e : e = read[r.next]
        OBVIOUS
      <4>3. R[n] = WithElement(r, e)
        BY <3>5, <3>7, <4>2 DEF ReadElement
      <4>4. CASE e.res # "value"
        <5>1. R[n] = e
          BY <4>3, <4>4 DEF WithElement
        <5> QED
          BY <4>4, <5>1
      <4>5. CASE e.res = "value"
        <5>1. e.value \in C /\ e.next \in D
          BY <3>4, <3>7, <4>2, <4>5 DEF ReadsWithin
        <5>2. r.value.elems = elems
          BY <4>1 DEF Array, Value
        <5>3. R[n] = Decoded(Array(Append(elems, e.value)), e.next)
          BY <4>3, <4>5, <5>2 DEF WithElement
        <5>4. Append(elems, e.value) \in Seq(C)
          BY <5>1, AppendProperties
        <5>5. R[n].next = e.next /\ R[n].value = Array(Append(elems, e.value))
          BY <5>3 DEF Decoded
        <5> QED
          BY <5>1, <5>4, <5>5
      <4> QED
        BY <4>4, <4>5
    <3> QED
      BY <3>6, <3>7
  <2> QED
    BY <2>2, <2>3
<1>3. \A n \in Nat : n \in T
  <2> HIDE DEF T
  <2> QED
    BY <1>2, StrongInduction
<1>4. length \in 0 .. length
  OBVIOUS
<1>5. Good(R[length])
  BY <1>3, <1>4
<1> QED
  BY <1>5 DEF R, DecodeElements, ArrayOf

\* The fields of the values that decoders make.
LEMMA MadeFields ==
  ASSUME NEW type, NEW text, NEW elems
  PROVE  /\ Value(type, text, elems).type = type /\ Value(type, text, elems).text = text
         /\ Value(type, text, elems).elems = elems
BY DEF Value

\* Bulk strings.
LEMMA BulkClean ==
  ASSUME NEW d, NEW s, NEW i
  PROVE  ReturnsClean(d, DecodeBulk(s, i))
<1>1. PICK start, length, line : /\ start = LineEnd(s, i) + 2 /\ line = Line(s, i)
                                 /\ length = Atoi(Line(s, i))
  OBVIOUS
<1>2. PICK text : text = SubSeq(s, start, start + length - 1)
  OBVIOUS
<1>3. DecodeBulk(s, i) \in {Incomplete, Invalid, Decoded(Nil, start), Closed(Bulk(text), s, start + length)}
  <2> DEFINE inner ==
        CASE length = -1 -> Decoded(Nil, start)
          [] length < -1 -> Invalid
          [] length >= 0 /\ Len(s) < start + length - 1 -> Incomplete
          [] OTHER -> Closed(Bulk(text), s, start + length)
  <2>1. inner \in {Incomplete, Invalid, Decoded(Nil, start), Closed(Bulk(text), s, start + length)}
    OBVIOUS
  <2>2. CASE LineEnd(s, i) = 0
    BY <2>2 DEF DecodeBulk
  <2>3. CASE LineEnd(s, i) # 0 /\ ~IsNumber(line)
    BY <1>1, <2>3 DEF DecodeBulk
  <2>4. CASE LineEnd(s, i) # 0 /\ IsNumber(line)
    <3>1. DecodeBulk(s, i) = inner
      BY <1>1, <1>2, <2>4, Zenon DEF DecodeBulk
    <3> QED
      BY <2>1, <3>1
  <2> QED
    BY <2>2, <2>3, <2>4
<1>4. Closed(Bulk(text), s, start + length) \in {Incomplete, Invalid, Decoded(Bulk(text), start + length + 2)}
  BY DEF Closed
<1>5. Clean(Nil, CleanTo[d - 1])
  BY DEF Clean
<1>6. Clean(Bulk(text), CleanTo[d - 1])
  <2>1. Bulk(text).type = "$" /\ Bulk(text).elems = <<>>
    BY MadeFields DEF Bulk
  <2> QED
    BY <2>1 DEF Clean
<1>7. \A v, next : Clean(v, CleanTo[d - 1]) => ReturnsClean(d, Decoded(v, next))
  BY DEF ReturnsClean, Decoded
<1>8. ReturnsClean(d, Incomplete) /\ ReturnsClean(d, Invalid)
  BY DEF ReturnsClean, Incomplete, Invalid
<1> QED
  BY <1>3, <1>4, <1>5, <1>6, <1>7, <1>8

\* Arrays.
LEMMA ArrayClean ==
  ASSUME NEW d \in 1 .. MaxDepth, NEW s \in Seq(Symbols), NEW i \in 1 .. Len(s), NEW read,
         \A j \in 1 .. Len(s) + 1 : Exact(s, j, d - 1, read[j]),
         \A j \in 1 .. Len(s) + 1 : read[j].res = "value" => read[j].value \in CleanTo[d - 1]
  PROVE  ReturnsClean(d, DecodeArray(s, i + 1, read))
<1>1. PICK n \in Nat : n = Len(s)
  BY LenProperties
<1>2. PICK start, length : start = LineEnd(s, i + 1) + 2 /\ length = Atoi(Line(s, i + 1))
  OBVIOUS
<1>3. CASE LineEnd(s, i + 1) = 0
  BY <1>3 DEF DecodeArray, ReturnsClean, Incomplete
<1>4. CASE LineEnd(s, i + 1) # 0 /\ ~IsNumber(Line(s, i + 1))
  BY <1>4 DEF DecodeArray, ReturnsClean, Invalid
<1>5. CASE LineEnd(s, i + 1) # 0 /\ IsNumber(Line(s, i + 1))
  <2> DEFINE inner ==
        CASE length = -1 -> Decoded(NilArray, start)
          [] length < -1 -> Invalid
          [] OTHER -> DecodeElements(start, length, read)
  <2>1. DecodeArray(s, i + 1, read) = inner
    BY <1>2, <1>5, Zenon DEF DecodeArray
  <2>2. length \in Ints /\ LineEnd(s, i + 1) = i + 2 /\ i + 3 <= Len(s)
    BY <1>2, <1>5, LengthFacts, Zenon
  <2>3. length \in Int /\ start \in 1 .. Len(s) + 1
    <3>1. length \in Int
      BY <2>2, IntsFacts
    <3>2. start = i + 4
      BY <1>1, <1>2, <2>2
    <3> QED
      BY <1>1, <2>2, <3>1, <3>2
  <2>4. CASE length = -1
    <3>1. inner = Decoded(NilArray, start)
      BY <2>4
    <3> QED
      BY <2>1, <3>1 DEF ReturnsClean, Decoded, Clean
  <2>5. CASE length < -1
    <3>1. length # -1
      BY <2>5
    <3>2. inner = Invalid
      BY <2>5, <3>1
    <3> QED
      BY <2>1, <3>2 DEF ReturnsClean, Invalid
  <2>6. CASE length >= 0
    <3>1. length # -1 /\ ~(length < -1) /\ length \in Nat
      BY <2>3, <2>6
    <3>2. inner = DecodeElements(start, length, read)
      BY <3>1
    <3>3. PICK D : D = 1 .. Len(s) + 1
      OBVIOUS
    <3>4. ASSUME NEW j \in D, read[j].res = "value"
          PROVE  read[j].value \in CleanTo[d - 1] /\ read[j].next \in D
      <4>1. j \in 1 .. Len(s) + 1 /\ j \in 1 .. n + 1
        BY <1>1, <3>3
      <4>2. read[j].next \in j + 1 .. Len(s) + 1
        BY <3>4, <4>1 DEF Exact
      <4>3. read[j].next \in 1 .. Len(s) + 1
        BY <1>1, <4>1, <4>2
      <4> QED
        BY <3>3, <3>4, <4>1, <4>3
    <3>5. SUFFICES ASSUME DecodeElements(start, length, read).res = "value"
                   PROVE  Clean(DecodeElements(start, length, read).value, CleanTo[d - 1])
      BY <2>1, <3>2 DEF ReturnsClean
    <3>6. start \in D
      BY <2>3, <3>3
    <3>7. \E elems \in Seq(CleanTo[d - 1]) : DecodeElements(start, length, read).value = Array(elems)
      <4>1. PICK C, len : C = CleanTo[d - 1] /\ len = length
        OBVIOUS
      <4>2. ReadsWithin(read, D, C)
        BY <3>4, <4>1 DEF ReadsWithin
      <4>3. len \in Nat
        BY <3>1, <4>1
      <4>4. ArrayOf(DecodeElements(start, len, read), C)
        BY <3>6, <4>2, <4>3, ElementsClean, Zenon
      <4> QED
        BY <3>5, <4>1, <4>4 DEF ArrayOf
    <3>8. PICK elems \in Seq(CleanTo[d - 1]) : DecodeElements(start, length, read).value = Array(elems)
      BY <3>7
    <3>9. Array(elems).type = "*" /\ Array(elems).text = <<>> /\ Array(elems).elems = elems
      BY MadeFields DEF Array
    <3> QED
      BY <3>8, <3>9 DEF Clean
  <2> QED
    BY <2>3, <2>4, <2>5, <2>6
<1> QED
  BY <1>3, <1>4, <1>5

\* doDecodeValue, given that the elements of arrays are clean.
LEMMA DecodeAtClean ==
  ASSUME NEW d \in 1 .. MaxDepth, NEW s \in Seq(Symbols), NEW i \in 1 .. Len(s) + 1, NEW read,
         \A j \in 1 .. Len(s) + 1 : Exact(s, j, d - 1, read[j]),
         \A j \in 1 .. Len(s) + 1 : read[j].res = "value" => read[j].value \in CleanTo[d - 1]
  PROVE  ReturnsClean(d, DecodeAt(s, i, read))
<1>1. PICK n \in Nat : n = Len(s)
  BY LenProperties
<1>2. CASE i > Len(s)
  <2>1. DecodeAt(s, i, read) = Incomplete
    BY <1>2 DEF DecodeAt
  <2> QED
    BY <2>1 DEF ReturnsClean, Incomplete
<1>3. CASE i <= Len(s)
  <2>1. i \in 1 .. Len(s) /\ i + 1 \in 1 .. Len(s) + 1 /\ ~(i > Len(s))
    BY <1>1, <1>3
  <2>2. PICK type, line, next : /\ type = s[i] /\ line = Line(s, i + 1) /\ next = LineEnd(s, i + 1) + 2
    OBVIOUS
  <2>3. LineEnd(s, i + 1) # 0 => OneLine(line)
    BY <2>1, <2>2, LineIsOneLine
  <2>4. CASE type \in {"+", "-"}
    <3>1. DecodeAt(s, i, read) = DecodeText(type, s, i + 1)
      BY <1>3, <2>1, <2>2, <2>4 DEF DecodeAt
    <3>2. CASE LineEnd(s, i + 1) = 0
      BY <3>1, <3>2 DEF DecodeText, ReturnsClean, Incomplete
    <3>3. CASE LineEnd(s, i + 1) # 0
      <4>1. DecodeAt(s, i, read) = Decoded(Value(type, line, <<>>), next)
        BY <2>2, <3>1, <3>3 DEF DecodeText
      <4>2. Clean(Value(type, line, <<>>), CleanTo[d - 1])
        BY <2>3, <2>4, <3>3, MadeFields DEF Clean
      <4> QED
        BY <4>1, <4>2 DEF ReturnsClean, Decoded
    <3> QED
      BY <3>2, <3>3
  <2>5. CASE type = ":"
    <3>1. DecodeAt(s, i, read) = DecodeInteger(s, i + 1)
      BY <1>3, <2>1, <2>2, <2>5 DEF DecodeAt
    <3>2. CASE LineEnd(s, i + 1) = 0 \/ ~IsNumber(line)
      BY <2>2, <3>1, <3>2 DEF DecodeInteger, ReturnsClean, Incomplete, Invalid
    <3>3. CASE LineEnd(s, i + 1) # 0 /\ IsNumber(line)
      <4>1. DecodeAt(s, i, read) = Decoded(Integer(Atoi(line)), next)
        BY <2>2, <3>1, <3>3 DEF DecodeInteger
      <4>2. Clean(Integer(Atoi(line)), CleanTo[d - 1])
        <5>1. line \in Seq(Symbols)
          BY <2>1, <2>2, <3>3, LineFacts
        <5>2. Atoi(line) \in Ints
          BY <3>3, <5>1, NumberFacts
        <5> QED
          BY <5>2 DEF Clean
      <4> QED
        BY <4>1, <4>2 DEF ReturnsClean, Decoded
    <3> QED
      BY <3>2, <3>3
  <2>6. CASE type = "$"
    <3>1. DecodeAt(s, i, read) = DecodeBulk(s, i + 1)
      BY <1>3, <2>1, <2>2, <2>6 DEF DecodeAt
    <3> QED
      BY <3>1, BulkClean
  <2>7. CASE type = "*"
    <3>1. DecodeAt(s, i, read) = DecodeArray(s, i + 1, read)
      BY <1>3, <2>1, <2>2, <2>7 DEF DecodeAt
    <3> QED
      BY <2>1, <3>1, ArrayClean
  <2>8. CASE type \notin {"+", "-", ":", "$", "*"}
    <3>1. DecodeAt(s, i, read) = Invalid
      BY <2>1, <2>2, <2>8 DEF DecodeAt
    <3> QED
      BY <3>1 DEF ReturnsClean, Invalid
  <2> QED
    BY <2>4, <2>5, <2>6, <2>7, <2>8
<1>4. i > Len(s) \/ i <= Len(s)
  BY <1>1
<1> QED
  BY <1>2, <1>3, <1>4

\* So at every depth.
LEMMA DecodersClean ==
  ASSUME NEW s \in Seq(Symbols)
  PROVE  \A d \in 0 .. MaxDepth : \A i \in 1 .. Len(s) + 1 :
           Decoders(s)[d][i].res = "value" => Decoders(s)[d][i].value \in CleanTo[d]
<1> DEFINE T == {d \in Nat : d \in 0 .. MaxDepth =>
                   \A i \in 1 .. Len(s) + 1 :
                     Decoders(s)[d][i].res = "value" => Decoders(s)[d][i].value \in CleanTo[d]}
<1>1. ASSUME NEW d \in Nat, \A k \in 0 .. d - 1 : k \in T PROVE d \in T
  <2>1. SUFFICES ASSUME d \in 0 .. MaxDepth, NEW i \in 1 .. Len(s) + 1, Decoders(s)[d][i].res = "value"
                 PROVE  Decoders(s)[d][i].value \in CleanTo[d]
    OBVIOUS
  <2>2. CASE d = 0
    <3>1. Decoders(s)[d] = [j \in 1 .. Len(s) + 1 |-> Invalid]
      BY <2>1, <2>2, DecodersEquation
    <3>2. Decoders(s)[d][i] = Invalid
      BY <3>1
    <3> QED
      BY <2>1, <3>2 DEF Invalid
  <2>3. CASE d # 0
    <3>1. d - 1 \in 0 .. d - 1 /\ d - 1 \in 0 .. MaxDepth /\ d \in 1 .. MaxDepth
      BY <2>1, <2>3, RespAssumption
    <3>2. d - 1 \in T
      BY <1>1, <3>1, Zenon
    <3>3. PICK read : read = Decoders(s)[d - 1]
      OBVIOUS
    <3>4. \A j \in 1 .. Len(s) + 1 : read[j].res = "value" => read[j].value \in CleanTo[d - 1]
      BY <3>1, <3>2, <3>3
    <3>5. \A j \in 1 .. Len(s) + 1 : Exact(s, j, d - 1, read[j])
      BY <3>1, <3>3, DecodersExact
    <3>6. Decoders(s)[d] = [j \in 1 .. Len(s) + 1 |-> DecodeAt(s, j, Decoders(s)[d - 1])]
      BY <2>1, <2>3, DecodersEquation
    <3>7. Decoders(s)[d][i] = DecodeAt(s, i, read)
      BY <3>3, <3>6
    <3>8. ReturnsClean(d, Decoders(s)[d][i])
      BY <3>1, <3>4, <3>5, <3>7, DecodeAtClean
    <3>9. Clean(Decoders(s)[d][i].value, CleanTo[d - 1])
      BY <2>1, <3>8 DEF ReturnsClean
    <3>10. Exact(s, i, d, Decoders(s)[d][i])
      BY <2>1, DecodersExact
    <3>11. Decoders(s)[d][i].value \in ValuesTo[d]
      BY <2>1, <3>10 DEF Exact
    <3> QED
      BY <2>1, <2>3, <3>9, <3>11, CleanEquation
  <2> QED
    BY <2>2, <2>3
<1>2. \A d \in Nat : d \in T
  <2> HIDE DEF T
  <2> QED
    BY <1>1, StrongInduction
<1> QED
  BY <1>2

\* No other value is read back: those are the values that the decoder can return.
THEOREM DecodedValues ==
  \A v : v \in CleanTo[MaxDepth] <=>
           \E s \in Seq(Symbols) : Decode(s).res = "value" /\ Decode(s).value = v
<1>1. ASSUME NEW s \in Seq(Symbols), Decode(s).res = "value"
      PROVE  Decode(s).value \in CleanTo[MaxDepth]
  <2>1. MaxDepth \in 0 .. MaxDepth
    BY RespAssumption
  <2>2. 1 \in 1 .. Len(s) + 1
    BY LenProperties
  <2> QED
    BY <1>1, <2>1, <2>2, DecodersClean DEF Decode
<1>2. ASSUME NEW v \in CleanTo[MaxDepth]
      PROVE  \E s \in Seq(Symbols) : Decode(s).res = "value" /\ Decode(s).value = v
  <2>1. <<>> \in Seq(Symbols)
    BY EmptySeq
  <2>2. PICK s : s = Written(v) \o <<>>
    OBVIOUS
  <2>3. s \in Seq(Symbols)
    BY <2>1, <2>2, WrittenType, ConcatLength
  <2>4. Decode(s) = Decoded(v, 1 + Len(Written(v)))
    BY <2>1, <2>2, DecodeInvertsWriting
  <2>5. Decode(s).res = "value" /\ Decode(s).value = v
    BY <2>4 DEF Decoded
  <2> QED
    BY <2>3, <2>5
<1> QED
  BY <1>1, <1>2

-----------------------------------------------------------------------------
(* What the tester reads off its connections.                              *)

\* The form of anything says of each place what may stand there.
LEMMA FormType == \A v : Form(v) \in Seq(SUBSET Symbols)
<1>1. MaxDepth \in 0 .. MaxDepth
  BY RespAssumption
<1>2. \A v \in Values : FormTo[MaxDepth][v] \in Seq(SUBSET Symbols)
  BY <1>1, FormingType DEF Values
<1>3. <<>> \in Seq(SUBSET Symbols)
  BY EmptySeq
<1> QED
  BY <1>2, <1>3, Zenon DEF Form

\* Several values are written one after the other.
LEMMA FormsType ==
  ASSUME NEW values \in Seq(Values)
  PROVE  /\ [i \in DOMAIN values |-> Form(values[i])] \in Seq(Seq(SUBSET Symbols))
         /\ Len([i \in DOMAIN values |-> Form(values[i])]) = Len(values)
<1>1. PICK n \in Nat : n = Len(values)
  BY LenProperties
<1>2. DOMAIN values = 1 .. n
  BY <1>1, LenProperties
<1>3. [i \in DOMAIN values |-> Form(values[i])] \in [1 .. n -> Seq(SUBSET Symbols)]
  BY <1>2, FormType
<1> QED
  BY <1>1, <1>3, FunctionIsSeq

\* Their forms together.
LEMMA FormAllType ==
  ASSUME NEW values \in Seq(Values)
  PROVE  FormAll(values) \in Seq(SUBSET Symbols)
BY FormsType, FlattenType DEF FormAll

\* The form of no values is empty.
LEMMA FormAllNone == FormAll(<<>>) = <<>>
<1>1. [i \in DOMAIN <<>> |-> Form(<<>>[i])] = <<>>
  <2>1. <<>> \in Seq(Values) /\ Len(<<>>) = 0
    BY EmptySeq
  <2>2. /\ [i \in DOMAIN <<>> |-> Form(<<>>[i])] \in Seq(Seq(SUBSET Symbols))
        /\ Len([i \in DOMAIN <<>> |-> Form(<<>>[i])]) = 0
    BY <2>1, FormsType
  <2> QED
    BY <2>2, EmptySeq
<1>2. FlattenSeq(<<>>) = <<>>
  BY DEF FlattenSeq
<1> QED
  BY <1>1, <1>2 DEF FormAll

\* One value more follows the others.
LEMMA FormAllAppend ==
  ASSUME NEW values \in Seq(Values), NEW v \in Values
  PROVE  FormAll(Append(values, v)) = FormAll(values) \o Form(v)
<1>1. PICK n \in Nat : n = Len(values)
  BY LenProperties
<1>2. PICK more, parts, all : /\ more = Append(values, v)
                              /\ parts = [i \in DOMAIN values |-> Form(values[i])]
                              /\ all = [i \in DOMAIN more |-> Form(more[i])]
  OBVIOUS
<1>3. more \in Seq(Values) /\ Len(more) = n + 1 /\ more[n + 1] = v /\ DOMAIN values = 1 .. n
      /\ DOMAIN more = 1 .. n + 1 /\ \A i \in 1 .. n : more[i] = values[i]
  BY <1>1, <1>2, AppendProperties, LenProperties
<1>4. parts \in Seq(Seq(SUBSET Symbols)) /\ Len(parts) = n /\ all \in Seq(Seq(SUBSET Symbols)) /\ Len(all) = n + 1
  BY <1>1, <1>2, <1>3, FormsType
<1>5. all = Append(parts, Form(v))
  <2>1. Form(v) \in Seq(SUBSET Symbols)
    BY FormType
  <2>2. /\ Append(parts, Form(v)) \in Seq(Seq(SUBSET Symbols)) /\ Len(Append(parts, Form(v))) = n + 1
        /\ \A i \in 1 .. n : Append(parts, Form(v))[i] = parts[i]
        /\ Append(parts, Form(v))[n + 1] = Form(v)
    BY <1>4, <2>1, AppendProperties
  <2>3. ASSUME NEW i \in 1 .. n + 1 PROVE all[i] = Append(parts, Form(v))[i]
    <3>1. all[i] = Form(more[i])
      BY <1>2, <1>3
    <3>2. CASE i \in 1 .. n
      BY <1>2, <1>3, <2>2, <3>1, <3>2
    <3>3. CASE i = n + 1
      BY <1>3, <2>2, <3>1, <3>3
    <3>4. i \in 1 .. n \/ i = n + 1
      OBVIOUS
    <3> QED
      BY <3>2, <3>3, <3>4, Zenon
  <2> QED
    BY <1>4, <2>2, <2>3, SeqEqual
<1>6. FlattenSeq(Append(parts, Form(v))) = FlattenSeq(parts) \o Form(v)
  BY <1>4, FormType, FlattenAppend
<1> QED
  BY <1>2, <1>5, <1>6 DEF FormAll

-----------------------------------------------------------------------------
(* Nothing is lost between the program and the decoder.                    *)

\* The types that the exactness of the reads rests on.
Streams ==
  /\ wire \in [Conns -> Seq(Symbols)] /\ buf \in [Conns -> Seq(Symbols)]
  /\ sent \in [Conns -> Seq(Symbols)] /\ seen \in [Conns -> Seq(Values)]
  /\ chunks \in Seq(Seq(Symbols))

\* What a connection has carried, s: what the values taken off it were written
\* as, what is in the buffer b, and what is still on the wire w.
Covers(values, b, w, s) ==
  \E p \in Seq(Symbols) : Matches(p, FormAll(values)) /\ s = p \o (b \o w)
Accounted == \A k \in Conns : Covers(seen[k], buf[k], wire[k], sent[k])

\* Symbols after symbols.
LEMMA Joined ==
  ASSUME NEW p \in Seq(Symbols), NEW q \in Seq(Symbols)
  PROVE  p \o q \in Seq(Symbols)
BY ConcatProperties

\* How three runs of symbols are grouped does not matter.
LEMMA Regrouped ==
  ASSUME NEW p \in Seq(Symbols), NEW q \in Seq(Symbols), NEW r \in Seq(Symbols)
  PROVE  (p \o q) \o r = p \o (q \o r)
OBVIOUS

\* The types of what one connection carries.
LEMMA StreamFacts ==
  ASSUME Streams, NEW k \in Conns
  PROVE  /\ wire[k] \in Seq(Symbols) /\ buf[k] \in Seq(Symbols) /\ sent[k] \in Seq(Symbols)
         /\ seen[k] \in Seq(Values)
BY DEF Streams

\* More symbols are carried.
LEMMA CoversMore ==
  ASSUME NEW values, NEW b \in Seq(Symbols), NEW w \in Seq(Symbols), NEW s,
         NEW e \in Seq(Symbols), Covers(values, b, w, s)
  PROVE  Covers(values, b, w \o e, s \o e)
<1>1. PICK p \in Seq(Symbols) : Matches(p, FormAll(values)) /\ s = p \o (b \o w)
  BY DEF Covers
<1>2. b \o w \in Seq(Symbols)
  BY Joined
<1>3. PICK u \in Seq(Symbols) : u = b \o w
  BY <1>2
<1>4. (p \o u) \o e = p \o (u \o e)
  BY Regrouped
<1>5. (b \o w) \o e = b \o (w \o e)
  BY Regrouped
<1>6. s \o e = p \o (b \o (w \o e))
  BY <1>1, <1>3, <1>4, <1>5
<1> QED
  BY <1>1, <1>6 DEF Covers

\* A value is taken off the front: q, which has its form.
LEMMA CoversTake ==
  ASSUME NEW values \in Seq(Values), NEW b \in Seq(Symbols), NEW w \in Seq(Symbols), NEW s,
         Covers(values, b, w, s),
         NEW v \in Values, NEW q \in Seq(Symbols), Matches(q, Form(v)),
         NEW rest \in Seq(Symbols), NEW ahead \in Seq(Symbols), (q \o rest) \o ahead = b \o w
  PROVE  Covers(Append(values, v), rest, ahead, s)
<1>1. PICK p \in Seq(Symbols) : Matches(p, FormAll(values)) /\ s = p \o (b \o w)
  BY DEF Covers
<1>2. PICK f, g \in Seq(SUBSET Symbols) : f = FormAll(values) /\ g = Form(v)
  BY FormAllType, FormType
<1>3. Matches(p, f) /\ Matches(q, g)
  BY <1>1, <1>2
<1>4. p \o q \in Seq(Symbols) /\ Matches(p \o q, f \o g)
  BY <1>3, MatchesBoth
<1>5. FormAll(Append(values, v)) = f \o g
  BY <1>2, FormAllAppend
<1>6. (q \o rest) \o ahead = q \o (rest \o ahead)
  BY Regrouped
<1>7. rest \o ahead \in Seq(Symbols)
  BY Joined
<1>8. PICK u \in Seq(Symbols) : u = rest \o ahead
  BY <1>7
<1>9. p \o (q \o u) = (p \o q) \o u
  BY Regrouped
<1>10. s = (p \o q) \o (rest \o ahead)
  BY <1>1, <1>6, <1>8, <1>9
<1> QED
  BY <1>4, <1>5, <1>10 DEF Covers

\* Write and WriteChunk: the symbols e are written on connection k.
LEMMA WritingKeeps ==
  ASSUME Streams, Accounted, NEW k, NEW e \in Seq(Symbols),
         wire' = [wire EXCEPT ![k] = @ \o e], sent' = [sent EXCEPT ![k] = @ \o e],
         UNCHANGED <<buf, seen>>, chunks' \in Seq(Seq(Symbols))
  PROVE  Streams' /\ Accounted'
<1>1. wire' \in [Conns -> Seq(Symbols)] /\ sent' \in [Conns -> Seq(Symbols)]
  <2>1. \A j \in Conns : wire[j] \o e \in Seq(Symbols) /\ sent[j] \o e \in Seq(Symbols)
    BY StreamFacts, ConcatProperties
  <2> QED
    BY <2>1 DEF Streams
<1>2. Streams'
  BY <1>1 DEF Streams
<1>3. ASSUME NEW j \in Conns
      PROVE  Covers(seen'[j], buf'[j], wire'[j], sent'[j])
  <2>1. Covers(seen[j], buf[j], wire[j], sent[j])
    BY DEF Accounted
  <2>2. CASE j # k
    <3>1. wire'[j] = wire[j] /\ sent'[j] = sent[j]
      BY <2>2 DEF Streams
    <3> QED
      BY <2>1, <3>1
  <2>3. CASE j = k
    <3>1. wire'[j] = wire[j] \o e /\ sent'[j] = sent[j] \o e
      BY <2>3 DEF Streams
    <3>2. Covers(seen[j], buf[j], wire[j] \o e, sent[j] \o e)
      BY <2>1, StreamFacts, CoversMore
    <3> QED
      BY <3>1, <3>2
  <2> QED
    BY <2>2, <2>3
<1> QED
  BY <1>2, <1>3 DEF Accounted

\* Any v is written as some sequence of symbols.
LEMMA WriteKeeps ==
  ASSUME Streams, Accounted, NEW k, NEW v, Write(k, v), UNCHANGED <<buf, seen>>, UNCHANGED chunks
  PROVE  Streams' /\ Accounted'
<1>1. Written(v) \in Seq(Symbols)
  BY WrittenType
<1>2. PICK e \in Seq(Symbols) : e = Written(v)
  BY <1>1
<1>3. wire' = [wire EXCEPT ![k] = @ \o e] /\ sent' = [sent EXCEPT ![k] = @ \o e]
  BY <1>2 DEF Write
<1>4. chunks' \in Seq(Seq(Symbols))
  BY DEF Streams
<1> QED
  BY <1>3, <1>4, WritingKeeps

\* Nothing of it changes.
LEMMA SilentKeeps ==
  ASSUME Streams, Accounted, UNCHANGED <<wire, buf, sent, seen, chunks>>
  PROVE  Streams' /\ Accounted'
BY DEF Streams, Accounted

\* ReadIntoBuffer: n symbols leave the wire.
LEMMA DrainFacts ==
  ASSUME Streams, NEW k \in Conns, NEW n \in 0 .. Len(wire[k]), Drain(k, n)
  PROVE  /\ wire' \in [Conns -> Seq(Symbols)] /\ UNCHANGED <<sent, chunks>>
         /\ \A j \in Conns : j # k => wire'[j] = wire[j]
         /\ Filled(k, n) \in Seq(Symbols)
         /\ Filled(k, n) \o wire'[k] = buf[k] \o wire[k]
<1>1. wire[k] \in Seq(Symbols) /\ buf[k] \in Seq(Symbols)
  BY StreamFacts
<1>2. PICK w, N : w = wire[k] /\ N = Len(w) /\ w \in Seq(Symbols) /\ N \in Nat /\ n \in 0 .. N
  BY <1>1, LenProperties
<1>3. /\ SubSeq(w, 1, n) \in Seq(Symbols) /\ SubSeq(w, n + 1, N) \in Seq(Symbols)
      /\ SubSeq(w, 1, n) \o SubSeq(w, n + 1, N) = w
  <2>1. 1 \in 1 .. Len(w) + 1 /\ n \in 1 - 1 .. Len(w) /\ N \in n .. Len(w)
    BY <1>2
  <2>2. SubSeq(w, 1, n) \o SubSeq(w, n + 1, N) = SubSeq(w, 1, N)
    BY <1>2, <2>1, PartsJoin
  <2>3. SubSeq(w, 1, N) = w
    BY <1>2, SubSeqFull
  <2>4. SubSeq(w, 1, n) \in Seq(Symbols)
    BY <1>2, <2>1, PartFacts
  <2>5. SubSeq(w, n + 1, N) \in Seq(Symbols)
    <3>1. n + 1 \in 1 .. Len(w) + 1 /\ N \in (n + 1) - 1 .. Len(w)
      BY <1>2
    <3> QED
      BY <1>2, <3>1, PartFacts
  <2> QED
    BY <2>2, <2>3, <2>4, <2>5
<1>4. wire' = [wire EXCEPT ![k] = SubSeq(w, n + 1, N)]
  BY <1>2 DEF Drain
<1>5. wire'[k] = SubSeq(w, n + 1, N)
  BY <1>4 DEF Streams
<1>6. Filled(k, n) = buf[k] \o SubSeq(w, 1, n)
  BY <1>2 DEF Filled
<1>7. Filled(k, n) \in Seq(Symbols)
  BY <1>1, <1>3, <1>6, ConcatProperties
<1>8. (buf[k] \o SubSeq(w, 1, n)) \o SubSeq(w, n + 1, N)
        = buf[k] \o (SubSeq(w, 1, n) \o SubSeq(w, n + 1, N))
  BY <1>1, <1>3, Regrouped
<1>9. wire' \in [Conns -> Seq(Symbols)] /\ \A j \in Conns : j # k => wire'[j] = wire[j]
  BY <1>3, <1>4 DEF Streams
<1>10. UNCHANGED <<sent, chunks>>
  BY DEF Drain
<1> QED
  BY <1>2, <1>3, <1>5, <1>6, <1>7, <1>8, <1>9, <1>10

\* What is read stays in the buffer.
LEMMA FillKeeps ==
  ASSUME Streams, Accounted, NEW k \in Conns, NEW n \in 0 .. Len(wire[k]), Drain(k, n),
         buf' = [buf EXCEPT ![k] = Filled(k, n)], UNCHANGED seen
  PROVE  Streams' /\ Accounted'
<1>1. /\ wire' \in [Conns -> Seq(Symbols)] /\ UNCHANGED <<sent, chunks>>
      /\ \A j \in Conns : j # k => wire'[j] = wire[j]
      /\ Filled(k, n) \in Seq(Symbols)
      /\ Filled(k, n) \o wire'[k] = buf[k] \o wire[k]
  BY DrainFacts
<1>2. PICK s \in Seq(Symbols) : s = Filled(k, n)
  BY <1>1
<1>3. buf' = [buf EXCEPT ![k] = s]
  BY <1>2
<1>4. buf' \in [Conns -> Seq(Symbols)] /\ buf'[k] = s /\ \A j \in Conns : j # k => buf'[j] = buf[j]
  BY <1>3 DEF Streams
<1>5. Streams'
  BY <1>1, <1>4 DEF Streams
<1>6. ASSUME NEW j \in Conns
      PROVE  Covers(seen'[j], buf'[j], wire'[j], sent'[j])
  <2>1. Covers(seen[j], buf[j], wire[j], sent[j])
    BY DEF Accounted
  <2>2. CASE j # k
    BY <1>1, <1>4, <2>1, <2>2
  <2>3. CASE j = k
    <3>1. buf'[k] \o wire'[k] = buf[k] \o wire[k]
      BY <1>1, <1>2, <1>4
    <3> QED
      BY <1>1, <2>1, <2>3, <3>1 DEF Covers
  <2> QED
    BY <2>2, <2>3
<1> QED
  BY <1>5, <1>6 DEF Accounted

\* A whole value leaves the buffer.
LEMMA TakeKeeps ==
  ASSUME Streams, Accounted, NEW k \in Conns, NEW n \in 0 .. Len(wire[k]), Drain(k, n),
         NEW r, r.res = "value", TakesExactly(Filled(k, n), r),
         buf' = [buf EXCEPT ![k] = SubSeq(Filled(k, n), r.next, Len(Filled(k, n)))],
         seen' = [seen EXCEPT ![k] = Append(@, r.value)]
  PROVE  Streams' /\ Accounted'
<1>1. /\ wire' \in [Conns -> Seq(Symbols)] /\ UNCHANGED <<sent, chunks>>
      /\ \A j \in Conns : j # k => wire'[j] = wire[j]
      /\ Filled(k, n) \in Seq(Symbols)
      /\ Filled(k, n) \o wire'[k] = buf[k] \o wire[k]
  BY DrainFacts
<1>2. PICK s, next, v : s = Filled(k, n) /\ next = r.next /\ v = r.value
  OBVIOUS
<1>0. s \in Seq(Symbols)
  BY <1>1, <1>2
<1>3. v \in Values /\ next \in 2 .. Len(s) + 1 /\ Matches(SubSeq(s, 1, next - 1), Form(v))
  BY <1>2 DEF TakesExactly
<1>4. PICK N \in Nat : N = Len(s)
  BY <1>0, LenProperties
<1>5. PICK rest, q : rest = SubSeq(s, next, N) /\ q = SubSeq(s, 1, next - 1)
  OBVIOUS
<1>6. rest \in Seq(Symbols) /\ q \in Seq(Symbols) /\ q \o rest = s
  <2>1. /\ 1 \in 1 .. Len(s) + 1 /\ next - 1 \in 1 - 1 .. Len(s) /\ N \in next - 1 .. Len(s)
        /\ next \in 1 .. Len(s) + 1 /\ (next - 1) + 1 = next
    BY <1>3, <1>4
  <2>2. SubSeq(s, 1, next - 1) \o SubSeq(s, (next - 1) + 1, N) = SubSeq(s, 1, N)
    BY <1>0, <2>1, PartsJoin
  <2>3. SubSeq(s, 1, N) = s
    BY <1>0, <1>4, SubSeqFull
  <2>4. SubSeq(s, next, N) \in Seq(Symbols) /\ SubSeq(s, 1, next - 1) \in Seq(Symbols)
    BY <1>0, <1>4, <2>1, PartFacts
  <2> QED
    BY <1>5, <2>1, <2>2, <2>3, <2>4
<1>7. buf' = [buf EXCEPT ![k] = rest] /\ seen' = [seen EXCEPT ![k] = Append(@, v)]
  BY <1>2, <1>4, <1>5
<1>8. buf' \in [Conns -> Seq(Symbols)] /\ buf'[k] = rest /\ \A j \in Conns : j # k => buf'[j] = buf[j]
  BY <1>6, <1>7 DEF Streams
<1>9. /\ seen' \in [Conns -> Seq(Values)] /\ seen'[k] = Append(seen[k], v)
      /\ \A j \in Conns : j # k => seen'[j] = seen[j]
  <2>1. Append(seen[k], v) \in Seq(Values)
    BY <1>3, StreamFacts, AppendProperties
  <2> QED
    BY <1>7, <2>1 DEF Streams
<1>10. Streams'
  BY <1>1, <1>8, <1>9 DEF Streams
<1>11. ASSUME NEW j \in Conns
       PROVE  Covers(seen'[j], buf'[j], wire'[j], sent'[j])
  <2>1. Covers(seen[j], buf[j], wire[j], sent[j])
    BY DEF Accounted
  <2>2. CASE j # k
    BY <1>1, <1>8, <1>9, <2>1, <2>2
  <2>3. CASE j = k
    <3>1. /\ seen[k] \in Seq(Values) /\ buf[k] \in Seq(Symbols) /\ wire[k] \in Seq(Symbols)
          /\ wire'[k] \in Seq(Symbols)
      BY <1>1, StreamFacts
    <3>2. (q \o rest) \o wire'[k] = buf[k] \o wire[k]
      BY <1>1, <1>2, <1>6
    <3>3. Matches(q, Form(v)) /\ v \in Values
      BY <1>3, <1>5
    <3>4. PICK values, b, w, t, rem : /\ values = seen[k] /\ b = buf[k] /\ w = wire[k]
                                       /\ t = sent[k] /\ rem = wire'[k]
      OBVIOUS
    <3>5. Covers(Append(values, v), rest, rem, t)
      BY <1>6, <2>1, <2>3, <3>1, <3>2, <3>3, <3>4, CoversTake
    <3> QED
      BY <1>1, <1>8, <1>9, <2>3, <3>4, <3>5
  <2> QED
    BY <2>2, <2>3
<1> QED
  BY <1>10, <1>11 DEF Accounted

\* The scripts of the programs that write without reading are sequences of symbols.
LEMMA ScriptsType ==
  ASSUME NEW p \in DOMAIN Scripts
  PROVE  Scripts[p] \in Seq(Seq(Symbols))
<1>1. {"PONG", "SYNTAX_ERROR", "+", "CR", "LF"} \subseteq Symbols
  BY ProgramsAssumption, RespAssumption
<1>2. /\ <<"+", "PONG">> \in Seq(Symbols) /\ CRLF \in Seq(Symbols)
      /\ <<"SYNTAX_ERROR">> \in Seq(Symbols)
  BY <1>1 DEF CRLF
<1>3. Written(Bulk(<<"PONG">>)) \in Seq(Symbols)
  BY WrittenType
<1>4. WrittenAll([i \in 1..3 |-> Simple(<<"PONG">>)]) \in Seq(Symbols)
  <2> DEFINE f == [i \in DOMAIN [j \in 1..3 |-> Simple(<<"PONG">>)]
                     |-> Written([j \in 1..3 |-> Simple(<<"PONG">>)][i])]
  <2>1. f \in [1..3 -> Seq(Symbols)]
    BY WrittenType
  <2>2. f \in Seq(Seq(Symbols))
    <3> HIDE DEF f
    <3> QED
      BY <2>1, FunctionIsSeq
  <2>3. FlattenSeq(f) \in Seq(Symbols)
    <3> HIDE DEF f
    <3> QED
      BY <2>2, FlattenType
  <2> QED
    BY <2>3 DEF WrittenAll
<1>5. PICK b, m : b = Written(Bulk(<<"PONG">>)) /\ m = WrittenAll([i \in 1..3 |-> Simple(<<"PONG">>)])
  OBVIOUS
<1>6. Scripts = [
        eof                 |-> <<>>,
        without_crlf        |-> <<<<"+", "PONG">>>>,
        slow_response       |-> <<<<"+", "PONG">>, CRLF>>,
        string_type_mismatch |-> <<b>>,
        multiple_pongs      |-> <<m>>,
        invalid_resp        |-> <<<<"SYNTAX_ERROR">>>>]
  BY <1>5, Zenon DEF Scripts
<1>7. b \in Seq(Symbols) /\ m \in Seq(Symbols)
  BY <1>3, <1>4, <1>5
<1>8. PICK a, c, y : a = <<"+", "PONG">> /\ c = CRLF /\ y = <<"SYNTAX_ERROR">>
  OBVIOUS
<1>9. a \in Seq(Symbols) /\ c \in Seq(Symbols) /\ y \in Seq(Symbols)
  BY <1>2, <1>8
<1>10. /\ <<>> \in Seq(Seq(Symbols)) /\ <<a>> \in Seq(Seq(Symbols)) /\ <<a, c>> \in Seq(Seq(Symbols))
       /\ <<b>> \in Seq(Seq(Symbols)) /\ <<m>> \in Seq(Seq(Symbols)) /\ <<y>> \in Seq(Seq(Symbols))
  BY <1>7, <1>9
<1>11. Scripts = [eof |-> <<>>, without_crlf |-> <<a>>, slow_response |-> <<a, c>>,
                  string_type_mismatch |-> <<b>>, multiple_pongs |-> <<m>>, invalid_resp |-> <<y>>]
  BY <1>6, <1>8
<1>12. /\ DOMAIN Scripts = {"eof", "without_crlf", "slow_response", "string_type_mismatch",
                             "multiple_pongs", "invalid_resp"}
       /\ Scripts.eof = <<>> /\ Scripts.without_crlf = <<a>> /\ Scripts.slow_response = <<a, c>>
       /\ Scripts.string_type_mismatch = <<b>> /\ Scripts.multiple_pongs = <<m>>
       /\ Scripts.invalid_resp = <<y>>
  BY <1>11
<1> QED
  BY <1>10, <1>12

\* At first nothing has been written.
LEMMA StreamsInit == Init => Streams /\ Accounted
<1> SUFFICES ASSUME Init PROVE Streams /\ Accounted
  OBVIOUS
<1>1. <<>> \in Seq(Symbols) /\ <<>> \in Seq(Values)
  BY EmptySeq
<1>2. /\ wire = [k \in Conns |-> <<>>] /\ sent = [k \in Conns |-> <<>>]
      /\ buf = [k \in Conns |-> <<>>] /\ seen = [k \in Conns |-> <<>>]
  BY DEF Init, ProgramInit
<1>3. chunks \in Seq(Seq(Symbols))
  <2>1. CASE program \in DOMAIN Scripts /\ chunks = Scripts[program]
    BY <2>1, ScriptsType
  <2>2. CASE \E stream \in Samples : chunks = <<stream>>
    <3>1. PICK stream \in Samples : chunks = <<stream>>
      BY <2>2
    <3>2. stream \in Seq(Symbols)
      BY <3>1, ProgramsAssumption
    <3> QED
      BY <3>1, <3>2
  <2>3. CASE chunks = <<>>
    BY <2>3, EmptySeq
  <2> QED
    BY <2>1, <2>2, <2>3 DEF Init, ProgramInit
<1>4. Streams
  BY <1>1, <1>2, <1>3 DEF Streams
<1>5. Covers(<<>>, <<>>, <<>>, <<>>)
  <2>1. <<>> \o <<>> = <<>>
    BY <1>1, ConcatEmptySeq
  <2>2. Matches(<<>>, <<>>)
    BY <1>1, EmptySeq DEF Matches
  <2> QED
    BY <1>1, <2>1, <2>2, FormAllNone DEF Covers
<1>6. Accounted
  BY <1>2, <1>5 DEF Accounted
<1> QED
  BY <1>4, <1>6

\* The programs' steps write, or leave the connections alone.
LEMMA ProgramKeeps ==
  ASSUME Streams, Accounted, ProgramNext, UNCHANGED testerVars
  PROVE  Streams' /\ Accounted'
<1>0. UNCHANGED <<buf, seen>>
  BY DEF testerVars
<1>1. CASE WriteChunk
  <2>1. Head(chunks) \in Seq(Symbols) /\ Tail(chunks) \in Seq(Seq(Symbols))
    BY <1>1, HeadTailProperties DEF WriteChunk, Streams
  <2>2. PICK e \in Seq(Symbols) : e = Head(chunks)
    BY <2>1
  <2>3. /\ wire' = [wire EXCEPT ![1] = @ \o e] /\ sent' = [sent EXCEPT ![1] = @ \o e]
        /\ chunks' \in Seq(Seq(Symbols))
    BY <1>1, <2>1, <2>2 DEF WriteChunk
  <2> QED
    BY <1>0, <2>2, <2>3, WritingKeeps
<1>2. CASE Connect
  BY <1>0, <1>2, WriteKeeps DEF Connect
<1>3. CASE NextCommand
  BY <1>0, <1>3, WriteKeeps DEF NextCommand
<1>4. CASE ReadFullResync
  BY <1>0, <1>4, SilentKeeps DEF ReadFullResync
<1>5. CASE ApplySet
  BY <1>0, <1>5, SilentKeeps DEF ApplySet
<1>6. ASSUME NEW k \in Conns,
             \/ Ping(k) \/ ReplConf(k) \/ PsyncWrong(k) \/ Psync(k) \/ SendRDB(k)
             \/ Get(k) \/ GetEveryOther(k) \/ RPush(k) \/ RPushAll(k) \/ RPushHand(k)
             \/ BLPopNow(k) \/ Wake(k)
      PROVE  Streams' /\ Accounted'
  <2>1. (\E v : Write(k, v)) /\ UNCHANGED chunks
    BY <1>6, Zenon DEF Ping, ReplConf, PsyncWrong, Psync, SendRDB, Get, GetEveryOther, RPush, RPushAll,
                RPushHand, BLPopNow, Wake
  <2> QED
    BY <1>0, <2>1, WriteKeeps
<1>7. ASSUME NEW k \in Conns, BLPopWait(k) \/ BLPopLook(k) \/ WaitForElement(k)
      PROVE  Streams' /\ Accounted'
  BY <1>0, <1>7, SilentKeeps DEF BLPopWait, BLPopLook, WaitForElement
<1>8. ASSUME NEW k \in Conns, NotifyAllWaiters(k) PROVE Streams' /\ Accounted'
  <2>1. PICK reply \in Seq(Symbols) : reply = Written(Popped("foo", Head(db["foo"])))
    BY WrittenType
  <2>2. CASE UNCHANGED <<wire, sent>>
    BY <1>0, <1>8, <2>2, SilentKeeps DEF NotifyAllWaiters
  <2>3. CASE /\ wire' = [j \in Conns |-> IF j \in ToSet(waiters) THEN wire[j] \o reply ELSE wire[j]]
             /\ sent' = [j \in Conns |-> IF j \in ToSet(waiters) THEN sent[j] \o reply ELSE sent[j]]
    <3>0. UNCHANGED chunks
      BY <1>8 DEF NotifyAllWaiters
    <3>1. ASSUME NEW j \in Conns
          PROVE  /\ wire'[j] \in Seq(Symbols) /\ sent'[j] \in Seq(Symbols)
                 /\ Covers(seen'[j], buf'[j], wire'[j], sent'[j])
      <4>1. wire[j] \in Seq(Symbols) /\ sent[j] \in Seq(Symbols) /\ buf[j] \in Seq(Symbols)
        BY StreamFacts
      <4>2. Covers(seen[j], buf[j], wire[j], sent[j])
        BY DEF Accounted
      <4>3. CASE j \in ToSet(waiters)
        <5>1. wire'[j] = wire[j] \o reply /\ sent'[j] = sent[j] \o reply
          BY <2>3, <4>3
        <5>2. wire[j] \o reply \in Seq(Symbols) /\ sent[j] \o reply \in Seq(Symbols)
          BY <4>1, Joined
        <5>3. Covers(seen[j], buf[j], wire[j] \o reply, sent[j] \o reply)
          BY <4>1, <4>2, CoversMore
        <5> QED
          BY <1>0, <5>1, <5>2, <5>3
      <4>4. CASE j \notin ToSet(waiters)
        <5>1. wire'[j] = wire[j] /\ sent'[j] = sent[j]
          BY <2>3, <4>4
        <5> QED
          BY <1>0, <4>1, <4>2, <5>1
      <4> QED
        BY <4>3, <4>4
    <3>2. wire' \in [Conns -> Seq(Symbols)] /\ sent' \in [Conns -> Seq(Symbols)]
      BY <2>3, <3>1
    <3>3. Streams'
      BY <1>0, <3>0, <3>2 DEF Streams
    <3> QED
      BY <3>1, <3>3 DEF Accounted
  <2> QED
    BY <1>8, <2>1, <2>2, <2>3 DEF NotifyAllWaiters
<1> QED
  BY <1>1, <1>2, <1>3, <1>4, <1>5, <1>6, <1>7, <1>8 DEF ProgramNext

\* So do the steps that answer ACL and AUTH.
LEMMA AuthKeeps ==
  ASSUME Streams, Accounted, AuthNext, UNCHANGED testerVars
  PROVE  Streams' /\ Accounted'
<1>0. UNCHANGED <<buf, seen>>
  BY DEF testerVars
<1>1. ASSUME NEW k, NEW words, NEW reply, Answer(k, words, reply)
      PROVE  Streams' /\ Accounted'
  <2>1. Write(k, reply) /\ UNCHANGED chunks
    BY <1>1, Zenon DEF Answer
  <2> QED
    BY <1>0, <2>1, WriteKeeps
<1>2. PICK k \in Conns :
        \/ NopassFlagAcl(k) \/ LiteralAcl(k) \/ Sha1GetUser(k) \/ AddPassword(k)
        \/ ConnIsDefault(k) \/ PatternAcl(k) \/ Attend(k) \/ HandleACL(k) \/ HandleAuth(k)
  BY DEF AuthNext
<1>3. CASE ConnIsDefault(k) \/ Attend(k)
  BY <1>0, <1>3, SilentKeeps DEF ConnIsDefault, Attend, programVars
<1>4. CASE NopassFlagAcl(k)
  BY <1>1, <1>4, Zenon DEF NopassFlagAcl, NopassFlagServes
<1>5. CASE LiteralAcl(k)
  BY <1>1, <1>5, Zenon DEF LiteralAcl, LiteralServes
<1>6. CASE Sha1GetUser(k) \/ AddPassword(k)
  BY <1>1, <1>6, Zenon DEF Sha1GetUser, AddPassword, Sha256Serves
<1>7. CASE PatternAcl(k)
  BY <1>1, <1>7, Zenon DEF PatternAcl, PatternServes
<1>8. CASE HandleACL(k)
  BY <1>1, <1>8, Zenon DEF HandleACL
<1>9. CASE HandleAuth(k)
  BY <1>1, <1>9, Zenon DEF HandleAuth
<1> QED
  BY <1>2, <1>3, <1>4, <1>5, <1>6, <1>7, <1>8, <1>9

\* The tester's steps move symbols from the wire to the buffer, and whole
\* values out of it.
LEMMA TesterKeeps ==
  ASSUME Streams, Accounted, TesterNext
  PROVE  Streams' /\ Accounted'
<1>1. CASE SendStep
  BY <1>1, SilentKeeps DEF SendStep
<1>2. CASE Accept
  BY <1>2, SilentKeeps DEF Accept, programVars
<1>3. CASE Dial
  BY <1>3, SilentKeeps DEF Dial, programVars
<1>4. CASE SleepStep
  BY <1>4, SilentKeeps DEF SleepStep, programVars
<1>5. CASE Retry
  BY <1>5, SilentKeeps DEF Retry, programVars
<1>6. CASE Refuse
  BY <1>6, SilentKeeps DEF Refuse, programVars
<1>7. CASE Approve
  BY <1>7, SilentKeeps DEF Approve, programVars
<1>8. CASE AllQuiet
  BY <1>8, SilentKeeps DEF AllQuiet, programVars
<1>9. CASE GiveUp
  BY <1>9, SilentKeeps DEF GiveUp, programVars
<1>10. CASE GroupTimeout
  BY <1>10, SilentKeeps DEF GroupTimeout, programVars
<1>11. ASSUME NEW k \in Conns, NEW n \in 0 .. Len(wire[k]),
              ApproveUnlessExtra(k, n) \/ PollClient(k, n) \/ NoResponse(k, n)
       PROVE  Streams' /\ Accounted'
  <2>1. Drain(k, n) /\ buf' = [buf EXCEPT ![k] = Filled(k, n)] /\ UNCHANGED seen
    BY <1>11, Zenon DEF ApproveUnlessExtra, PollClient, NoResponse
  <2> QED
    BY <2>1, FillKeeps
<1>12. ASSUME NEW k \in Conns, NEW n \in 0 .. Len(wire[k]), Read(k, n)
       PROVE  Streams' /\ Accounted'
  <2>1. Drain(k, n)
    BY <1>12 DEF Read
  <2>2. Filled(k, n) \in Seq(Symbols)
    BY <2>1, DrainFacts
  <2>3. PICK r : /\ r = Decode(Filled(k, n)) \/ r = DecodeFullResyncRDBFile(Filled(k, n))
                 /\ \/ /\ r.res = "value"
                       /\ buf' = [buf EXCEPT ![k] = SubSeq(Filled(k, n), r.next, Len(Filled(k, n)))]
                       /\ seen' = [seen EXCEPT ![k] = Append(@, r.value)]
                    \/ buf' = [buf EXCEPT ![k] = Filled(k, n)] /\ UNCHANGED seen
    BY <1>12, Zenon DEF Read
  <2>4. TakesExactly(Filled(k, n), r)
    BY <2>2, <2>3, DecodeTakesExactly, Zenon
  <2>5. CASE buf' = [buf EXCEPT ![k] = Filled(k, n)] /\ UNCHANGED seen
    BY <2>1, <2>5, FillKeeps
  <2>6. CASE /\ r.res = "value"
             /\ buf' = [buf EXCEPT ![k] = SubSeq(Filled(k, n), r.next, Len(Filled(k, n)))]
             /\ seen' = [seen EXCEPT ![k] = Append(@, r.value)]
    BY <2>1, <2>4, <2>6, TakeKeeps
  <2> QED
    BY <2>3, <2>5, <2>6
<1> QED
  BY <1>1, <1>2, <1>3, <1>4, <1>5, <1>6, <1>7, <1>8, <1>9, <1>10, <1>11, <1>12 DEF TesterNext, Proceed

\* Two parts of a sequence.
LEMMA FrontAndRest ==
  ASSUME NEW p \in Seq(Symbols), NEW u \in Seq(Symbols)
  PROVE  /\ Len(p \o u) - Len(u) = Len(p)
         /\ SubSeq(p \o u, 1, Len(p)) = p
         /\ SubSeq(p \o u, Len(p) + 1, Len(p \o u)) = u
<1>1. PICK a, b \in Nat : a = Len(p) /\ b = Len(u)
  BY LenProperties
<1>2. PICK s : s = p \o u
  OBVIOUS
<1>3. /\ s \in Seq(Symbols) /\ Len(s) = a + b
      /\ \A i \in 1 .. a + b : s[i] = IF i <= a THEN p[i] ELSE u[i - a]
  <2>1. /\ p \o u \in Seq(Symbols) /\ Len(p \o u) = Len(p) + Len(u)
        /\ \A i \in 1 .. Len(p) + Len(u) : (p \o u)[i] = IF i <= Len(p) THEN p[i] ELSE u[i - Len(p)]
    BY ConcatProperties
  <2> QED
    BY <1>1, <1>2, <2>1, Zenon
<1>4. SubSeq(s, 1, a) = p
  <2>1. 1 \in 1 .. Len(s) + 1 /\ a \in 1 - 1 .. Len(s) /\ a - 1 + 1 = a
    BY <1>1, <1>3
  <2>2. /\ SubSeq(s, 1, a) \in Seq(Symbols) /\ Len(SubSeq(s, 1, a)) = a
        /\ \A i \in 1 .. a : SubSeq(s, 1, a)[i] = s[1 + i - 1]
    BY <1>3, <2>1, PartFacts
  <2>3. ASSUME NEW i \in 1 .. a PROVE SubSeq(s, 1, a)[i] = p[i]
    <3>1. i \in 1 .. a + b /\ i <= a /\ 1 + i - 1 = i
      OBVIOUS
    <3> QED
      BY <1>3, <2>2, <3>1
  <2> QED
    BY <1>1, <2>2, <2>3, SeqEqual
<1>5. SubSeq(s, a + 1, a + b) = u
  <2>1. a + 1 \in 1 .. Len(s) + 1 /\ a + b \in (a + 1) - 1 .. Len(s) /\ (a + b) - (a + 1) + 1 = b
    BY <1>1, <1>3
  <2>2. /\ SubSeq(s, a + 1, a + b) \in Seq(Symbols) /\ Len(SubSeq(s, a + 1, a + b)) = b
        /\ \A i \in 1 .. b : SubSeq(s, a + 1, a + b)[i] = s[(a + 1) + i - 1]
    BY <1>3, <2>1, PartFacts
  <2>3. ASSUME NEW i \in 1 .. b PROVE SubSeq(s, a + 1, a + b)[i] = u[i]
    <3>1. PICK j \in 1 .. a + b : j = a + i
      OBVIOUS
    <3>2. ~(j <= a) /\ j - a = i /\ (a + 1) + i - 1 = j
      BY <3>1
    <3> QED
      BY <1>3, <2>2, <3>2
  <2> QED
    BY <1>1, <2>2, <2>3, SeqEqual
<1>6. a + b - b = a
  BY <1>1
<1>7. /\ Len(p \o u) = a + b /\ Len(p) = a /\ Len(u) = b
      /\ SubSeq(p \o u, 1, a) = p
      /\ SubSeq(p \o u, a + 1, a + b) = u
  BY <1>1, <1>2, <1>3, <1>4, <1>5, Zenon
<1>8. Len(p \o u) - Len(u) = Len(p)
  <2>1. Len(p \o u) = a + b /\ Len(p) = a /\ Len(u) = b
    BY <1>7
  <2> QED
    BY <1>6, <2>1
<1>9. /\ SubSeq(p \o u, 1, Len(p)) = p
      /\ SubSeq(p \o u, Len(p) + 1, Len(p \o u)) = u
  BY <1>7, Zenon
<1> QED
  BY <1>8, <1>9, Zenon

\* What is accounted for was read exactly.
LEMMA AccountedIsExact ==
  ASSUME Streams, Accounted
  PROVE  ReadsExact
<1>1. ASSUME NEW k \in Conns
      PROVE  LET unread == buf[k] \o wire[k]
                 n == Len(sent[k]) - Len(unread)
             IN  /\ Matches(SubSeq(sent[k], 1, n), FormAll(seen[k]))
                 /\ SubSeq(sent[k], n + 1, Len(sent[k])) = unread
  <2>1. PICK p \in Seq(Symbols) : Matches(p, FormAll(seen[k])) /\ sent[k] = p \o (buf[k] \o wire[k])
    BY DEF Accounted, Covers
  <2>2. buf[k] \o wire[k] \in Seq(Symbols)
    BY StreamFacts, Joined
  <2>3. PICK u \in Seq(Symbols) : u = buf[k] \o wire[k]
    BY <2>2
  <2>4. /\ Len(p \o u) - Len(u) = Len(p)
        /\ SubSeq(p \o u, 1, Len(p)) = p
        /\ SubSeq(p \o u, Len(p) + 1, Len(p \o u)) = u
    BY FrontAndRest
  <2> QED
    BY <2>1, <2>3, <2>4
<1> QED
  BY <1>1 DEF ReadsExact

\* ReadsExact: however the bytes of a connection are cut into reads, the tester
\* takes off it the values written, in order.
THEOREM ReadsExactAlways == Spec => []ReadsExact
<1>1. Streams /\ Accounted /\ [Next]_vars => Streams' /\ Accounted'
  <2> SUFFICES ASSUME Streams, Accounted, [Next]_vars PROVE Streams' /\ Accounted'
    OBVIOUS
  <2>1. CASE TesterNext
    BY <2>1, TesterKeeps
  <2>2. CASE ProgramNext /\ UNCHANGED <<authVars, testerVars>>
    BY <2>2, ProgramKeeps
  <2>3. CASE AuthNext /\ UNCHANGED testerVars
    BY <2>3, AuthKeeps
  <2>4. CASE UNCHANGED vars
    BY <2>4, SilentKeeps DEF vars, programVars, testerVars
  <2> QED
    BY <2>1, <2>2, <2>3, <2>4 DEF Next
<1>2. Streams /\ Accounted => ReadsExact
  BY AccountedIsExact
<1> QED
  BY <1>1, <1>2, StreamsInit, PTL DEF Spec

-----------------------------------------------------------------------------
(* The scripts.                                                            *)

\* A piece of a script that asserts on no group of clients and does not begin
\* by repeating the step before it.
Plain(s) ==
  \E S : /\ s \in Seq(S) /\ s # <<>> /\ s[1].retries = 0
         /\ \A x \in S : x.do # "group" /\ x.retries \in 0 .. MaxRetries

\* It does not end with a command whose reply is not waited for.
Settled(s) == s[Len(s)].do # "send"

\* What the tester relies on of a stage's script.
Sound(s) ==
  /\ Len(s) \in Nat \ {0} /\ Settled(s) /\ s[1].retries = 0
  /\ \A i \in 1 .. Len(s) : s[i].retries \in 0 .. MaxRetries
  /\ \A i \in 1 .. Len(s) : s[i].do = "group" => i = Len(s)

\* A piece of two steps.
LEMMA PlainPair ==
  ASSUME NEW a, NEW b, a.retries = 0, b.retries \in 0 .. MaxRetries,
         a.do # "group", b.do # "group"
  PROVE  Plain(<<a, b>>) /\ (b.do # "send" => Settled(<<a, b>>))
<1>1. <<a, b>> \in Seq({a, b}) /\ <<a, b>> # <<>> /\ <<a, b>>[1] = a /\ Len(<<a, b>>) = 2 /\ <<a, b>>[2] = b
  OBVIOUS
<1>2. \A x \in {a, b} : x.do # "group" /\ x.retries \in 0 .. MaxRetries
  BY DEF MaxRetries
<1>3. Plain(<<a, b>>)
  <2>1. PICK s : s = <<a, b>>
    OBVIOUS
  <2>2. PICK S : S = {a, b}
    OBVIOUS
  <2>3. /\ s \in Seq(S) /\ s # <<>> /\ s[1].retries = 0
        /\ \A x \in S : x.do # "group" /\ x.retries \in 0 .. MaxRetries
    BY <1>1, <1>2, <2>1, <2>2
  <2>4. Plain(s)
    BY <2>3, Zenon DEF Plain
  <2> QED
    BY <2>1, <2>4
<1> QED
  BY <1>1, <1>3 DEF Settled

\* A piece of one step.
LEMMA PlainOne ==
  ASSUME NEW a, a.retries = 0, a.do # "group"
  PROVE  Plain(<<a>>) /\ (a.do # "send" => Settled(<<a>>))
<1>1. <<a>> \in Seq({a}) /\ <<a>> # <<>> /\ <<a>>[1] = a /\ Len(<<a>>) = 1
  OBVIOUS
<1>2. \A x \in {a} : x.do # "group" /\ x.retries \in 0 .. MaxRetries
  BY DEF MaxRetries
<1>3. Plain(<<a>>)
  <2>1. PICK s : s = <<a>>
    OBVIOUS
  <2>2. PICK S : S = {a}
    OBVIOUS
  <2>3. /\ s \in Seq(S) /\ s # <<>> /\ s[1].retries = 0
        /\ \A x \in S : x.do # "group" /\ x.retries \in 0 .. MaxRetries
    BY <1>1, <1>2, <2>1, <2>2
  <2>4. Plain(s)
    BY <2>3, Zenon DEF Plain
  <2> QED
    BY <2>1, <2>4
<1> QED
  BY <1>1, <1>3 DEF Settled

\* Two sequences of different elements, one after the other.
LEMMA Adjoined ==
  ASSUME NEW S, NEW T, NEW s \in Seq(S), NEW t \in Seq(T), s # <<>>, t # <<>>
  PROVE  /\ s \o t \in Seq(S \cup T) /\ Len(s) \in Nat \ {0} /\ Len(t) \in Nat \ {0}
         /\ Len(s \o t) = Len(s) + Len(t) /\ s \o t # <<>>
         /\ (s \o t)[1] = s[1] /\ (s \o t)[Len(s) + Len(t)] = t[Len(t)]
<1>1. s \in Seq(S \cup T) /\ t \in Seq(S \cup T)
  OBVIOUS
<1>2. PICK m \in Nat, n \in Nat : m = Len(s) /\ n = Len(t)
  BY <1>1, LenProperties
<1>3. m # 0 /\ n # 0
  BY <1>1, <1>2, EmptySeq
<1>4. s \o t \in Seq(S \cup T) /\ Len(s \o t) = m + n
  BY <1>1, <1>2, ConcatProperties
<1>5. \A i \in 1 .. m + n : (s \o t)[i] = IF i <= m THEN s[i] ELSE t[i - m]
  BY <1>1, <1>2, ConcatProperties
<1>6. (s \o t)[1] = s[1] /\ (s \o t)[m + n] = t[n]
  <2>1. 1 \in 1 .. m + n /\ 1 <= m /\ m + n \in 1 .. m + n /\ ~(m + n <= m) /\ (m + n) - m = n
    BY <1>3
  <2> QED
    BY <1>5, <2>1
<1>7. s \o t # <<>>
  <2>1. Len(<<>>) = 0
    BY EmptySeq
  <2> QED
    BY <1>3, <1>4, <2>1
<1> QED
  BY <1>2, <1>3, <1>4, <1>6, <1>7

\* Two pieces make a piece, which ends as the second one does.
LEMMA PlainJoin ==
  ASSUME NEW s, NEW t, Plain(s), Plain(t)
  PROVE  Plain(s \o t) /\ (Settled(t) => Settled(s \o t))
<1>1. PICK S : /\ s \in Seq(S) /\ s # <<>> /\ s[1].retries = 0
               /\ \A x \in S : x.do # "group" /\ x.retries \in 0 .. MaxRetries
  BY DEF Plain
<1>2. PICK T : /\ t \in Seq(T) /\ t # <<>> /\ t[1].retries = 0
               /\ \A x \in T : x.do # "group" /\ x.retries \in 0 .. MaxRetries
  BY DEF Plain
<1>3. /\ s \o t \in Seq(S \cup T) /\ Len(s \o t) = Len(s) + Len(t) /\ s \o t # <<>>
      /\ (s \o t)[1] = s[1] /\ (s \o t)[Len(s) + Len(t)] = t[Len(t)]
  BY <1>1, <1>2, Adjoined
<1>4. \A x \in S \cup T : x.do # "group" /\ x.retries \in 0 .. MaxRetries
  BY <1>1, <1>2
<1>5. Plain(s \o t)
  BY <1>1, <1>3, <1>4 DEF Plain
<1> QED
  BY <1>3, <1>5 DEF Settled

\* A piece that is settled can be a script.
LEMMA PlainIsSound ==
  ASSUME NEW s, Plain(s), Settled(s)
  PROVE  Sound(s)
<1>1. PICK S : /\ s \in Seq(S) /\ s # <<>> /\ s[1].retries = 0
               /\ \A x \in S : x.do # "group" /\ x.retries \in 0 .. MaxRetries
  BY DEF Plain
<1>2. Len(s) \in Nat \ {0}
  BY <1>1, EmptySeq, LenProperties
<1>3. \A i \in 1 .. Len(s) : s[i] \in S
  BY <1>1, ElementOfSeq
<1> QED
  BY <1>1, <1>2, <1>3 DEF Sound

\* A group is asserted on last.
LEMMA GroupIsSound ==
  ASSUME NEW s, Plain(s), NEW g, g.do = "group", g.retries = 0
  PROVE  Sound(s \o <<g>>)
<1>1. PICK S : /\ s \in Seq(S) /\ s # <<>> /\ s[1].retries = 0
               /\ \A x \in S : x.do # "group" /\ x.retries \in 0 .. MaxRetries
  BY DEF Plain
<1>2. <<g>> \in Seq({g}) /\ <<g>> # <<>> /\ <<g>>[1] = g /\ Len(<<g>>) = 1
  OBVIOUS
<1>3. PICK t : t = s \o <<g>>
  OBVIOUS
<1>4. PICK n \in Nat \ {0} : n = Len(s)
  BY <1>1, EmptySeq, LenProperties
<1>5. Len(t) = n + 1 /\ t[1] = s[1] /\ t[n + 1] = g
  BY <1>1, <1>2, <1>3, <1>4, Adjoined
<1>6. ASSUME NEW i \in 1 .. n PROVE t[i] \in S
  <2>1. s \in Seq(S \cup {g}) /\ <<g>> \in Seq(S \cup {g})
    BY <1>1
  <2>2. t[i] = s[i]
    BY <1>2, <1>3, <1>4, <2>1, ConcatProperties
  <2>3. s[i] \in S
    BY <1>1, <1>4, ElementOfSeq
  <2> QED
    BY <2>2, <2>3
<1>7. ASSUME NEW i \in 1 .. n + 1
      PROVE  t[i].retries \in 0 .. MaxRetries /\ (t[i].do = "group" => i = n + 1)
  <2>1. CASE i \in 1 .. n
    BY <1>1, <1>6, <2>1
  <2>2. CASE i = n + 1
    BY <1>5, <2>2 DEF MaxRetries
  <2> QED
    BY <2>1, <2>2
<1> QED
  BY <1>1, <1>3, <1>5, <1>7 DEF Sound, Settled

\* A command and its reply.
LEMMA AskFacts ==
  \A k, words, want : Plain(Ask(k, words, want)) /\ Settled(Ask(k, words, want))
<1> TAKE k, words, want
<1>1. PICK a, b : a = Send(k, Command(words)) /\ b = Receive(k, want, FALSE, 0)
  OBVIOUS
<1>2. a.retries = 0 /\ b.retries = 0 /\ a.do = "send" /\ b.do = "take"
  BY <1>1 DEF Send, Receive, Step
<1>3. Plain(<<a, b>>) /\ Settled(<<a, b>>)
  BY <1>2, PlainPair DEF MaxRetries
<1> QED
  BY <1>1, <1>3, Zenon DEF Ask

\* A command the tester answers.
LEMMA ServeFacts ==
  \A k, want, skip, reply : Plain(Serve(k, want, skip, reply))
<1> TAKE k, want, skip, reply
<1>1. PICK a, b : a = Receive(k, want, skip, 0) /\ b = Send(k, Simple(reply))
  OBVIOUS
<1>2. a.retries = 0 /\ b.retries = 0 /\ b.do = "send" /\ a.do = "take"
  BY <1>1 DEF Send, Receive, Step
<1>3. Plain(<<a, b>>)
  BY <1>2, PlainPair DEF MaxRetries
<1> QED
  BY <1>1, <1>3, Zenon DEF Serve

\* One step.
LEMMA StepFacts ==
  ASSUME NEW do, do # "group"
  PROVE  \A k, v, want, skip :
           /\ Plain(<<Step(do, k, v, want, skip, 0)>>)
           /\ do # "send" => Settled(<<Step(do, k, v, want, skip, 0)>>)
<1> TAKE k, v, want, skip
<1>1. PICK a : a = Step(do, k, v, want, skip, 0)
  OBVIOUS
<1>2. a.retries = 0 /\ a.do = do
  BY <1>1 DEF Step
<1>3. Plain(<<a>>) /\ (do # "send" => Settled(<<a>>))
  BY <1>2, PlainOne
<1> QED
  BY <1>1, <1>3, Zenon

\* The stages of authentication.
LEMMA AuthScriptsSound ==
  /\ Sound(testGetUserPasswordsRetrieval) /\ Sound(testSetUserPassword)
  /\ Sound(testAuthCommandResponse) /\ Sound(testdefaultUserAuthentication)
  /\ Sound(testAuthCommandAuthentication)
<1>1. \A p, q, x : Plain(AclGetuser(p, q, x)) /\ Settled(AclGetuser(p, q, x))
  BY AskFacts, Zenon DEF AclGetuser
<1>2. Plain(AclSetuser) /\ Settled(AclSetuser)
  BY AskFacts, Zenon DEF AclSetuser
<1>3. \A k : Plain(AclWhoami(k)) /\ Settled(AclWhoami(k))
  BY AskFacts, Zenon DEF AclWhoami
<1>4. Plain(AclWhoamiError) /\ Settled(AclWhoamiError)
  BY AskFacts, Zenon DEF AclWhoamiError
<1>5. Plain(AuthRefused) /\ Settled(AuthRefused)
  BY AskFacts, Zenon DEF AuthRefused
<1>6. \A k : Plain(AuthAccepted(k)) /\ Settled(AuthAccepted(k))
  BY AskFacts, Zenon DEF AuthAccepted
<1>7. Plain(SpawnNextClient)
  <2>1. "dial" # "group"
    OBVIOUS
  <2> QED
    BY <2>1, StepFacts, Zenon DEF SpawnNextClient
<1>8. Plain(testAuthenticatedClient) /\ Settled(testAuthenticatedClient)
  BY AskFacts, PlainJoin, Zenon DEF testAuthenticatedClient
<1>9. Plain(testdefaultUserAuthentication) /\ Settled(testdefaultUserAuthentication)
  <2>1. Plain(AclSetuser \o AclWhoami(1))
    BY <1>2, <1>3, PlainJoin, Zenon
  <2>2. Plain((AclSetuser \o AclWhoami(1)) \o SpawnNextClient)
    BY <1>7, <2>1, PlainJoin, Zenon
  <2> QED
    BY <1>4, <2>2, PlainJoin, Zenon DEF testdefaultUserAuthentication
<1>10. Sound(testGetUserPasswordsRetrieval)
  BY <1>1, PlainIsSound, Zenon DEF testGetUserPasswordsRetrieval
<1>11. Sound(testSetUserPassword)
  <2>1. Plain(AclGetuser({"nopass"}, {}, <<>>) \o AclSetuser)
    BY <1>1, <1>2, PlainJoin, Zenon
  <2> QED
    BY <1>1, <2>1, PlainJoin, PlainIsSound, Zenon DEF testSetUserPassword
<1>12. Sound(testAuthCommandResponse)
  <2>1. Plain(AclSetuser \o AuthRefused)
    BY <1>2, <1>5, PlainJoin, Zenon
  <2> QED
    BY <1>6, <2>1, PlainJoin, PlainIsSound, Zenon DEF testAuthCommandResponse
<1>13. Sound(testAuthCommandAuthentication)
  <2>1. Plain(testdefaultUserAuthentication \o AuthAccepted(2))
    BY <1>6, <1>9, PlainJoin, Zenon
  <2>2. Plain((testdefaultUserAuthentication \o AuthAccepted(2)) \o AclWhoami(2))
    BY <1>3, <2>1, PlainJoin, Zenon
  <2> QED
    BY <1>8, <2>2, PlainJoin, PlainIsSound, Zenon DEF testAuthCommandAuthentication
<1> QED
  BY <1>9, <1>10, <1>11, <1>12, <1>13, PlainIsSound, Zenon

\* The tester as a replica, and the group of blocked clients.
LEMMA ReplicaScriptsSound ==
  /\ Sound(testPingPongOnce) /\ Sound(testReplMasterPsync) /\ Sound(testReplMasterPsyncRdb)
  /\ Sound(testListBlpopNoTimeout)
<1>1. Plain(RunPingStep) /\ Settled(RunPingStep) /\ testPingPongOnce = RunPingStep
  BY AskFacts, Zenon DEF RunPingStep, testPingPongOnce
<1>2. Plain(RunReplconfStep)
  BY AskFacts, PlainJoin, Zenon DEF RunReplconfStep
<1>3. Plain(RunPsyncStep) /\ Settled(RunPsyncStep)
  <2>1. PICK a, b : a = Send(1, Command(<<"PSYNC", "?", "-1">>)) /\ b = Receive(1, RegexAssertion, TRUE, 0)
    OBVIOUS
  <2>2. a.retries = 0 /\ b.retries = 0 /\ a.do = "send" /\ b.do = "take"
    BY <2>1 DEF Send, Receive, Step
  <2>3. Plain(<<a, b>>) /\ Settled(<<a, b>>)
    BY <2>2, PlainPair DEF MaxRetries
  <2> QED
    BY <2>1, <2>3, Zenon DEF RunPsyncStep
<1>4. Plain(RunReceiveRDBStep) /\ Settled(RunReceiveRDBStep)
  <2>1. "rdb" # "group" /\ "rdb" # "send"
    OBVIOUS
  <2> QED
    BY <2>1, StepFacts, Zenon DEF RunReceiveRDBStep
<1>5. Plain(testReplMasterPsync) /\ Settled(testReplMasterPsync)
  <2>1. Plain(RunPingStep \o RunReplconfStep)
    BY <1>1, <1>2, PlainJoin, Zenon
  <2> QED
    BY <1>3, <2>1, PlainJoin, Zenon DEF testReplMasterPsync
<1>6. Plain(testReplMasterPsyncRdb) /\ Settled(testReplMasterPsyncRdb)
  BY <1>4, <1>5, PlainJoin, Zenon DEF testReplMasterPsyncRdb
<1>7. Plain(SendBlockingCommands)
  <2>1. PICK a, b : a = Send(1, Command(<<"BLPOP", "foo", "0">>)) /\ b = Send(2, Command(<<"BLPOP", "foo", "0">>))
    OBVIOUS
  <2>2. a.retries = 0 /\ b.retries = 0 /\ a.do = "send" /\ b.do = "send"
    BY <2>1 DEF Send, Step
  <2>3. Plain(<<a, b>>)
    BY <2>2, PlainPair DEF MaxRetries
  <2>4. [k \in 1..2 |-> Send(k, Command(<<"BLPOP", "foo", "0">>))] = <<a, b>>
    <3>1. PICK f : f = [k \in 1..2 |-> Send(k, Command(<<"BLPOP", "foo", "0">>))]
      OBVIOUS
    <3>2. f = [k \in 1..2 |-> IF k = 1 THEN a ELSE b]
      <4>1. \A k \in 1..2 : Send(k, Command(<<"BLPOP", "foo", "0">>)) = IF k = 1 THEN a ELSE b
        BY <2>1
      <4> QED
        BY <3>1, <4>1, Zenon
    <3>3. [k \in 1..2 |-> IF k = 1 THEN a ELSE b] = <<a, b>>
      OBVIOUS
    <3> QED
      BY <3>1, <3>2, <3>3
  <2>5. Plain(<<Step("sleep", 1, Nil, NoopAssertion, TRUE, 0)>>)
    <3>1. "sleep" # "group"
      OBVIOUS
    <3> QED
      BY <3>1, StepFacts, Zenon
  <2> QED
    BY <2>3, <2>4, <2>5, PlainJoin, Zenon DEF SendBlockingCommands
<1>8. Sound(testListBlpopNoTimeout)
  <2>1. Plain(SendBlockingCommands \o Ask(3, <<"RPUSH", "foo", "v">>, IntegerAssertion(1)))
    BY <1>7, AskFacts, PlainJoin, Zenon
  <2>2. PICK g : g = Step("group", 1, Nil, OrderedBulkStringArrayAssertion(<<"foo", "v">>), FALSE, 0)
    OBVIOUS
  <2>3. g.do = "group" /\ g.retries = 0
    BY <2>2 DEF Step
  <2>4. Sound((SendBlockingCommands \o Ask(3, <<"RPUSH", "foo", "v">>, IntegerAssertion(1))) \o <<g>>)
    BY <2>1, <2>3, GroupIsSound, Zenon
  <2> QED
    BY <2>2, <2>4, Zenon DEF testListBlpopNoTimeout
<1> QED
  BY <1>1, <1>5, <1>6, <1>8, PlainIsSound, Zenon

\* FlattenSeq of three sequences.
LEMMA FlattenThree ==
  ASSUME NEW S, NEW p \in Seq(S), NEW q \in Seq(S), NEW r \in Seq(S),
         NEW seqs, seqs = <<p, q, r>>
  PROVE  FlattenSeq(seqs) = (p \o q) \o r
<1>1. /\ <<>> \in Seq(Seq(S)) /\ <<p>> \in Seq(Seq(S)) /\ <<p, q>> \in Seq(Seq(S))
  OBVIOUS
<1>2. <<p>> = Append(<<>>, p) /\ <<p, q>> = Append(<<p>>, q) /\ <<p, q, r>> = Append(<<p, q>>, r)
  OBVIOUS
<1>3. FlattenSeq(<<>>) = <<>>
  <2>1. Len(<<>>) = 0
    BY EmptySeq
  <2> QED
    BY <2>1 DEF FlattenSeq
<1>4. FlattenSeq(<<p>>) = p
  <2>1. FlattenSeq(Append(<<>>, p)) = FlattenSeq(<<>>) \o p
    BY <1>1, FlattenAppend
  <2>2. <<>> \o p = p
    BY ConcatEmptySeq
  <2> QED
    BY <1>2, <1>3, <2>1, <2>2
<1>5. FlattenSeq(<<p, q>>) = p \o q
  <2>1. FlattenSeq(Append(<<p>>, q)) = FlattenSeq(<<p>>) \o q
    BY <1>1, FlattenAppend
  <2> QED
    BY <1>2, <1>4, <2>1
<1>6. FlattenSeq(Append(<<p, q>>, r)) = FlattenSeq(<<p, q>>) \o r
  BY <1>1, FlattenAppend
<1> QED
  BY <1>2, <1>5, <1>6

\* A GET that is tried again, up to MaxRetries times.
LEMMA RetriedFacts ==
  ASSUME NEW v, NEW want
  PROVE  /\ Plain(<<Send(2, v), Receive(2, want, FALSE, MaxRetries)>>)
         /\ Settled(<<Send(2, v), Receive(2, want, FALSE, MaxRetries)>>)
<1>1. PICK a, b : a = Send(2, v) /\ b = Receive(2, want, FALSE, MaxRetries)
  OBVIOUS
<1>2. a.retries = 0 /\ b.retries = MaxRetries /\ a.do = "send" /\ b.do = "take"
  BY <1>1 DEF Send, Receive, Step
<1>3. MaxRetries \in 0 .. MaxRetries
  BY DEF MaxRetries
<1>4. Plain(<<a, b>>) /\ Settled(<<a, b>>)
  BY <1>2, <1>3, PlainPair
<1> QED
  BY <1>1, <1>4

\* The tester as a master.
LEMMA MasterScriptSound == Sound(testReplCmdProcessing)
<1>1. Plain(<<Step("accept", 1, Nil, NoopAssertion, TRUE, 0)>>)
  <2>1. "accept" # "group"
    OBVIOUS
  <2> QED
    BY <2>1, StepFacts, Zenon
<1>2. Plain(ReceiveHandshake)
  <2>1. Plain(ReceivePing) /\ Plain(ReceiveReplconf1) /\ Plain(ReceiveReplconf2) /\ Plain(ReceivePsync)
    BY ServeFacts, Zenon DEF ReceivePing, ReceiveReplconf1, ReceiveReplconf2, ReceivePsync
  <2>2. Plain(RunSendRDBStep)
    <3>1. "send" # "group"
      OBVIOUS
    <3> QED
      BY <3>1, StepFacts, Zenon DEF RunSendRDBStep, Send
  <2>3. Plain(ReceivePing \o ReceiveReplconf1)
    BY <2>1, PlainJoin, Zenon
  <2>4. Plain((ReceivePing \o ReceiveReplconf1) \o ReceiveReplconf2)
    BY <2>1, <2>3, PlainJoin, Zenon
  <2>5. Plain(((ReceivePing \o ReceiveReplconf1) \o ReceiveReplconf2) \o ReceivePsync)
    BY <2>1, <2>4, PlainJoin, Zenon
  <2> QED
    BY <2>2, <2>5, PlainJoin, Zenon DEF ReceiveHandshake
<1>3. PICK sets, gets : /\ sets = [i \in 1..3 |-> Send(1, Command(<<"SET", Pairs[i][1], Pairs[i][2]>>))]
                        /\ gets = [i \in 1..3 |->
                             <<Send(2, Command(<<"GET", Pairs[i][1]>>)),
                               Receive(2, BulkStringAssertion(Pairs[i][2]), FALSE, MaxRetries)>>]
  OBVIOUS
<1>4. Plain(sets)
  <2> DEFINE S == {sets[i] : i \in 1..3}
  <2>1. sets \in [1..3 -> S]
    BY <1>3
  <2>2. \A i \in 1..3 : sets[i] = Send(1, Command(<<"SET", Pairs[i][1], Pairs[i][2]>>))
    BY <1>3
  <2>3. \A i \in 1..3 : sets[i].do = "send" /\ sets[i].retries = 0
    BY <2>2 DEF Send, Step
  <2>4. \A x \in S : x.do # "group" /\ x.retries \in 0 .. MaxRetries
    BY <2>3 DEF MaxRetries
  <2>5. sets[1].retries = 0
    BY <2>3
  <2> HIDE DEF S
  <2>6. sets \in Seq(S) /\ Len(sets) = 3
    BY <2>1, FunctionIsSeq
  <2>7. sets # <<>>
    BY <2>6, EmptySeq
  <2> QED
    BY <2>4, <2>5, <2>6, <2>7 DEF Plain
<1>5. Plain(FlattenSeq(gets)) /\ Settled(FlattenSeq(gets))
  <2>1. PICK p, q, r : p = gets[1] /\ q = gets[2] /\ r = gets[3]
    OBVIOUS
  <2>2. \A i \in 1..3 : gets[i] = <<Send(2, Command(<<"GET", Pairs[i][1]>>)),
                                    Receive(2, BulkStringAssertion(Pairs[i][2]), FALSE, MaxRetries)>>
    BY <1>3
  <2>3. \A i \in 1..3 : Plain(gets[i]) /\ Settled(gets[i])
    <3> TAKE i \in 1..3
    <3>1. PICK v, want : gets[i] = <<Send(2, v), Receive(2, want, FALSE, MaxRetries)>>
      BY <2>2, Zenon
    <3> QED
      BY <3>1, RetriedFacts, Zenon
  <2>4. Plain(p) /\ Plain(q) /\ Plain(r) /\ Settled(r)
    BY <2>1, <2>3
  <2>5. gets = <<p, q, r>>
    <3>1. gets = [i \in 1..3 |-> gets[i]]
      BY <1>3
    <3>2. [i \in 1..3 |-> gets[i]] = <<gets[1], gets[2], gets[3]>>
      OBVIOUS
    <3> QED
      BY <2>1, <3>1, <3>2
  <2>6. PICK S : p \in Seq(S) /\ q \in Seq(S) /\ r \in Seq(S)
    <3>1. PICK A : p \in Seq(A)
      BY <2>4, Zenon DEF Plain
    <3>2. PICK B : q \in Seq(B)
      BY <2>4, Zenon DEF Plain
    <3>3. PICK C : r \in Seq(C)
      BY <2>4, Zenon DEF Plain
    <3>4. PICK S : S = A \cup B \cup C
      OBVIOUS
    <3>5. p \in Seq(S) /\ q \in Seq(S) /\ r \in Seq(S)
      BY <3>1, <3>2, <3>3, <3>4
    <3> QED
      BY <3>5
  <2>7. FlattenSeq(gets) = (p \o q) \o r
    BY <2>5, <2>6, FlattenThree
  <2>8. Plain(p \o q)
    BY <2>4, PlainJoin
  <2>9. Plain((p \o q) \o r) /\ Settled((p \o q) \o r)
    BY <2>4, <2>8, PlainJoin
  <2> QED
    BY <2>7, <2>9
<1>6. Plain(<<Step("accept", 1, Nil, NoopAssertion, TRUE, 0)>> \o ReceiveHandshake)
  BY <1>1, <1>2, PlainJoin, Zenon
<1>7. Plain((<<Step("accept", 1, Nil, NoopAssertion, TRUE, 0)>> \o ReceiveHandshake) \o sets)
  BY <1>4, <1>6, PlainJoin, Zenon
<1>8. Sound(((<<Step("accept", 1, Nil, NoopAssertion, TRUE, 0)>> \o ReceiveHandshake) \o sets)
              \o FlattenSeq(gets))
  BY <1>5, <1>7, PlainJoin, PlainIsSound, Zenon
<1> QED
  BY <1>3, <1>8, Zenon DEF testReplCmdProcessing

\* Every stage's script.
LEMMA ScriptSound == \A stage \in DOMAIN Script : Sound(Script[stage])
<1>1. PICK values : values = <<Receive(1, NoopAssertion, TRUE, 0), Receive(1, NoopAssertion, TRUE, 0)>>
  OBVIOUS
<1>2. Sound(values)
  <2>1. PICK a : a = Receive(1, NoopAssertion, TRUE, 0)
    OBVIOUS
  <2>2. a.retries = 0 /\ a.do = "take"
    BY <2>1 DEF Receive, Step
  <2>3. Plain(<<a, a>>) /\ Settled(<<a, a>>)
    BY <2>2, PlainPair DEF MaxRetries
  <2> QED
    BY <1>1, <2>1, <2>3, PlainIsSound
<1>3. Script = [
        pl7       |-> testGetUserPasswordsRetrieval,
        uv9       |-> testSetUserPassword,
        hz3       |-> testAuthCommandResponse,
        nm2       |-> testdefaultUserAuthentication,
        ws7       |-> testAuthCommandAuthentication,
        rg2       |-> testPingPongOnce,
        values    |-> values,
        vm3       |-> testReplMasterPsync,
        psync_rdb |-> testReplMasterPsyncRdb,
        ec3       |-> testListBlpopNoTimeout,
        yg4       |-> testReplCmdProcessing]
  BY <1>1, Zenon DEF Script
<1>4. /\ DOMAIN Script = {"pl7", "uv9", "hz3", "nm2", "ws7", "rg2", "values", "vm3", "psync_rdb",
                          "ec3", "yg4"}
      /\ Script.pl7 = testGetUserPasswordsRetrieval /\ Script.uv9 = testSetUserPassword
      /\ Script.hz3 = testAuthCommandResponse /\ Script.nm2 = testdefaultUserAuthentication
      /\ Script.ws7 = testAuthCommandAuthentication /\ Script.rg2 = testPingPongOnce
      /\ Script.values = values /\ Script.vm3 = testReplMasterPsync
      /\ Script.psync_rdb = testReplMasterPsyncRdb /\ Script.ec3 = testListBlpopNoTimeout
      /\ Script.yg4 = testReplCmdProcessing
  BY <1>3
<1> QED
  BY <1>2, <1>4, AuthScriptsSound, ReplicaScriptsSound, MasterScriptSound

-----------------------------------------------------------------------------
(* The types.                                                              *)

\* The clients of the group that are still to be looked at.
Lefts == {<<>>, <<1>>, <<2>>, <<1, 2>>, <<2, 1>>}

\* What the types need of the program.
ProgramTypes ==
  /\ scenario \in Scenarios /\ link \in 0 .. Handshaken
  /\ after \in [Conns -> {"", "rdb", "wait", "register", "notify"}]

\* The list of clients is empty only once one of them has been served.
TesterTypes ==
  /\ at \in 1 .. Len(Steps)
  /\ pc \in {"step", "polled", "got", "reading", "rest"}
  /\ attempt \in 0 .. MaxRetries
  /\ verdict \in {"", "pass", "fail"} /\ late \in BOOLEAN
  /\ left \in Lefts
  /\ pc = "rest" => Now.do = "group"
  /\ verdict = "" /\ pc # "rest" => left # <<>>

\* No client is twice in the list.
LEMMA LeftFacts ==
  ASSUME NEW l \in Lefts
  PROVE  ToSet(l) \subseteq {1, 2} /\ Cardinality(ToSet(l)) = Len(l)
<1>1. CASE l = <<>>
  <2>1. ToSet(l) = {} /\ Len(l) = 0
    BY <1>1 DEF ToSet
  <2> QED
    BY <2>1, FS_EmptySet
<1>2. ASSUME NEW x \in {1, 2}, l = <<x>> PROVE ToSet(l) \subseteq {1, 2} /\ Cardinality(ToSet(l)) = Len(l)
  <2>1. ToSet(l) = {x} /\ Len(l) = 1
    BY <1>2 DEF ToSet
  <2> QED
    BY <2>1, FS_Singleton
<1>3. CASE l \in {<<1, 2>>, <<2, 1>>}
  <2>1. ToSet(l) = {1} \cup {2} /\ Len(l) = 2
    BY <1>3 DEF ToSet
  <2>2. IsFiniteSet({1}) /\ Cardinality({1}) = 1 /\ 2 \notin {1}
    BY FS_Singleton
  <2>3. Cardinality({1} \cup {2}) = 2
    BY <2>2, FS_AddElement
  <2> QED
    BY <2>1, <2>3
<1> QED
  BY <1>1, <1>2, <1>3 DEF Lefts

\* The list's first client leaves it, or goes to its end.
LEMMA LeftMoves ==
  ASSUME NEW l \in Lefts, l # <<>>
  PROVE  Tail(l) \in Lefts /\ Tail(l) \o <<Head(l)>> \in Lefts /\ Tail(l) \o <<Head(l)>> # <<>>
<1>1. ASSUME NEW x \in {1, 2}, l = <<x>> PROVE Tail(l) = <<>> /\ Tail(l) \o <<Head(l)>> = <<x>>
  BY <1>1
<1>2. ASSUME NEW x \in {1, 2}, NEW y \in {1, 2}, l = <<x, y>>
      PROVE  Tail(l) = <<y>> /\ Tail(l) \o <<Head(l)>> = <<y, x>>
  <2>1. Tail(l) = <<y>> /\ Head(l) = x
    BY <1>2
  <2>2. <<y>> \o <<x>> = <<y, x>>
    <3>1. <<y>> \in Seq({1, 2}) /\ <<x>> \in Seq({1, 2}) /\ <<y, x>> = Append(<<y>>, x)
      OBVIOUS
    <3> QED
      BY <3>1, AppendIsConcat
  <2> QED
    BY <2>1, <2>2
<1>3. /\ <<>> \in Lefts /\ <<1>> \in Lefts /\ <<2>> \in Lefts /\ <<1, 2>> \in Lefts /\ <<2, 1>> \in Lefts
      /\ <<1>> # <<>> /\ <<2>> # <<>> /\ <<1, 2>> # <<>> /\ <<2, 1>> # <<>>
  BY DEF Lefts
<1>4. l = <<1>> \/ l = <<2>> \/ l = <<1, 2>> \/ l = <<2, 1>>
  BY DEF Lefts
<1> QED
  BY <1>1, <1>2, <1>3, <1>4

\* The inductive invariant implies the types.
LEMMA TypesHold ==
  ASSUME ProgramTypes, TesterTypes
  PROVE  TypeOK
<1>1. ToSet(left) \subseteq {1, 2} /\ Cardinality(ToSet(left)) = Len(left)
  BY LeftFacts DEF TesterTypes
<1> QED
  BY <1>1 DEF TypeOK, ProgramTypes, TesterTypes

\* The script of the stage that runs.
LEMMA StepsSound ==
  ASSUME scenario \in Scenarios
  PROVE  Sound(Steps)
BY TesterAssumption, ScriptSound DEF Steps

\* It holds when the stage begins.
LEMMA TypesInit == Init => ProgramTypes /\ TesterTypes
<1> SUFFICES ASSUME Init PROVE ProgramTypes /\ TesterTypes
  OBVIOUS
<1>1. ProgramTypes
  <2>1. scenario \in Scenarios /\ after = [k \in Conns |-> ""]
    BY Zenon DEF Init, ProgramInit
  <2>2. link \in 0 .. Handshaken
    <3>1. link = 0
      BY Zenon DEF Init, ProgramInit
    <3> QED
      BY <3>1 DEF Handshaken
  <2> QED
    BY <2>1, <2>2 DEF ProgramTypes
<1>2. 1 \in 1 .. Len(Steps)
  <2>1. Len(Steps) \in Nat \ {0}
    BY <1>1, StepsSound, Zenon DEF ProgramTypes, Sound
  <2> QED
    BY <2>1
<1>3. <<2, 1>> \in Lefts /\ <<2, 1>> # <<>>
  BY DEF Lefts
<1>4. at = 1 /\ pc = "step" /\ attempt = 0 /\ left = <<2, 1>> /\ verdict = "" /\ late = FALSE
  BY Zenon DEF Init
<1>5. left \in Lefts /\ left # <<>>
  BY <1>3, <1>4
<1>6. at \in 1 .. Len(Steps) /\ attempt \in 0 .. MaxRetries
  <2>1. at = 1 /\ attempt = 0
    BY <1>4, Zenon
  <2> QED
    BY <1>2, <2>1 DEF MaxRetries
<1>7. pc = "step" /\ verdict = "" /\ late \in BOOLEAN
  BY <1>4, Zenon
<1> QED
  BY <1>1, <1>5, <1>6, <1>7 DEF TesterTypes

\* The programs' steps, and those that answer ACL and AUTH.
LEMMA TesterTypesKept ==
  ASSUME TesterTypes, UNCHANGED <<scenario, testerVars>>
  PROVE  TesterTypes'
BY DEF TesterTypes, testerVars, Steps, Now, program

\* The programs of the tester's own tests, and ours.
LEMMA ProgramTypesKept ==
  ASSUME ProgramTypes, ProgramNext
  PROVE  ProgramTypes' /\ UNCHANGED scenario
<1>1. CASE WriteChunk \/ ApplySet
  BY <1>1 DEF WriteChunk, ApplySet, ProgramTypes
<1>2. CASE Connect
  <2>1. link' = 1 /\ UNCHANGED <<scenario, after>>
    BY <1>2, Zenon DEF Connect
  <2>2. link' \in 0 .. Handshaken
    BY <2>1 DEF Handshaken
  <2> QED
    BY <2>1, <2>2 DEF ProgramTypes
<1>3. CASE NextCommand
  <2>1. link \in 1 .. 3 /\ link' = link + 1 /\ UNCHANGED <<scenario, after>>
    BY <1>3, Zenon DEF NextCommand
  <2>2. link' \in 0 .. Handshaken
    BY <2>1 DEF Handshaken
  <2> QED
    BY <2>1, <2>2 DEF ProgramTypes
<1>4. CASE ReadFullResync
  <2>1. link \in 4 .. 5 /\ link' = link + 1 /\ UNCHANGED <<scenario, after>>
    BY <1>4, Zenon DEF ReadFullResync
  <2>2. link' \in 0 .. Handshaken
    BY <2>1 DEF Handshaken
  <2> QED
    BY <2>1, <2>2 DEF ProgramTypes
<1>5. ASSUME NEW k \in Conns,
             \/ Ping(k) \/ ReplConf(k) \/ PsyncWrong(k) \/ Get(k) \/ GetEveryOther(k) \/ RPush(k)
             \/ RPushHand(k) \/ BLPopNow(k)
      PROVE  ProgramTypes' /\ UNCHANGED scenario
  <2>1. UNCHANGED <<scenario, link, after>>
    BY <1>5 DEF Ping, ReplConf, PsyncWrong, Get, GetEveryOther, RPush, RPushHand, BLPopNow
  <2> QED
    BY <2>1 DEF ProgramTypes
<1>6. ASSUME NEW k \in Conns,
             \/ Psync(k) \/ SendRDB(k) \/ RPushAll(k) \/ BLPopWait(k) \/ BLPopLook(k) \/ Wake(k)
             \/ WaitForElement(k) \/ NotifyAllWaiters(k)
      PROVE  ProgramTypes' /\ UNCHANGED scenario
  <2>1. /\ UNCHANGED <<scenario, link>>
        /\ \E x \in {"", "rdb", "wait", "register", "notify"} : after' = [after EXCEPT ![k] = x]
    BY <1>6 DEF Psync, SendRDB, RPushAll, BLPopWait, BLPopLook, Wake, WaitForElement, NotifyAllWaiters
  <2> QED
    BY <2>1 DEF ProgramTypes
<1> QED
  BY <1>1, <1>2, <1>3, <1>4, <1>5, <1>6 DEF ProgramNext

\* Those that answer ACL and AUTH.
LEMMA AuthTypesKept ==
  ASSUME ProgramTypes, AuthNext
  PROVE  ProgramTypes' /\ UNCHANGED scenario
<1>1. ASSUME NEW k, NEW words, NEW reply, Answer(k, words, reply)
      PROVE  UNCHANGED <<scenario, link, after>>
  BY <1>1 DEF Answer
<1>2. PICK k \in Conns :
        \/ NopassFlagAcl(k) \/ LiteralAcl(k) \/ Sha1GetUser(k) \/ AddPassword(k)
        \/ ConnIsDefault(k) \/ PatternAcl(k) \/ Attend(k) \/ HandleACL(k) \/ HandleAuth(k)
  BY DEF AuthNext
<1>3. UNCHANGED <<scenario, link, after>>
  <2>3. CASE ConnIsDefault(k) \/ Attend(k)
    BY <2>3 DEF ConnIsDefault, Attend, programVars
  <2>4. CASE NopassFlagAcl(k)
    BY <1>1, <2>4, Zenon DEF NopassFlagAcl, NopassFlagServes
  <2>5. CASE LiteralAcl(k)
    BY <1>1, <2>5, Zenon DEF LiteralAcl, LiteralServes
  <2>6. CASE Sha1GetUser(k) \/ AddPassword(k)
    BY <1>1, <2>6, Zenon DEF Sha1GetUser, AddPassword, Sha256Serves
  <2>7. CASE PatternAcl(k)
    BY <1>1, <2>7, Zenon DEF PatternAcl, PatternServes
  <2>8. CASE HandleACL(k)
    BY <1>1, <2>8, Zenon DEF HandleACL
  <2>9. CASE HandleAuth(k)
    BY <1>1, <2>9, Zenon DEF HandleAuth
  <2> QED
    BY <1>2, <2>3, <2>4, <2>5, <2>6, <2>7, <2>8, <2>9
<1> QED
  BY <1>3 DEF ProgramTypes

\* The number of an attempt, and the step after one that is not the last.
LEMMA CountFacts ==
  /\ 0 \in 0 .. MaxRetries
  /\ \A n \in Nat : \A i \in 1 .. n : i # n => i + 1 \in 1 .. n
BY DEF MaxRetries

\* After the last step the stage is over; no step follows a group's.
LEMMA AdvanceTypes ==
  ASSUME ProgramTypes, TesterTypes, Advance, verdict = "", late' \in BOOLEAN, UNCHANGED <<scenario, left>>
  PROVE  TesterTypes'
<1>1. Sound(Steps) /\ UNCHANGED Steps
  BY StepsSound DEF ProgramTypes, Steps
<1>2. PICK N \in Nat : N = Len(Steps) /\ N = Len(Steps)'
  BY <1>1 DEF Sound
<1>3. pc' = "step" /\ attempt' = 0
  BY Zenon DEF Advance
<1>4. attempt' \in 0 .. MaxRetries
  <2>1. attempt' = 0
    BY <1>3
  <2> QED
    BY <2>1, CountFacts, Zenon
<1>5. pc = "rest" => at = Len(Steps)
  BY <1>1 DEF TesterTypes, Sound, Now
<1>6. at \in 1 .. N
  BY <1>2 DEF TesterTypes
<1>7. CASE at = Len(Steps)
  <2>1. verdict' = "pass" /\ at' = at
    BY <1>7, Zenon DEF Advance
  <2> QED
    BY <1>2, <1>3, <1>4, <1>6, <2>1 DEF TesterTypes
<1>8. CASE at # Len(Steps)
  <2>1. verdict' = "" /\ at' = at + 1
    BY <1>8, Zenon DEF Advance
  <2>2. at' \in 1 .. Len(Steps)'
    <3>1. at \in 1 .. N /\ at # N /\ at' = at + 1
      BY <1>2, <1>6, <1>8, <2>1, Zenon
    <3>2. at' \in 1 .. N
      BY <3>1, CountFacts, Zenon
    <3> QED
      BY <1>2, <3>2
  <2>3. left' # <<>>
    BY <1>5, <1>8 DEF TesterTypes
  <2> QED
    BY <1>3, <1>4, <2>1, <2>2, <2>3 DEF TesterTypes
<1> QED
  BY <1>7, <1>8

\* The stage returns an error.
LEMMA FailTypes ==
  ASSUME ProgramTypes, TesterTypes, Fail, late' \in BOOLEAN, UNCHANGED <<scenario, left>>
  PROVE  TesterTypes'
<1>1. UNCHANGED <<Steps, at, pc, attempt>> /\ verdict' = "fail"
  BY DEF Steps, Fail
<1>2. UNCHANGED Now
  BY <1>1 DEF Now
<1> QED
  BY <1>1, <1>2 DEF TesterTypes

\* A step that only looks: the same step goes on.
LEMMA StayTypes ==
  ASSUME TesterTypes, UNCHANGED <<scenario, at, attempt, verdict>>, late' \in BOOLEAN,
         pc' \in {"step", "polled", "got", "reading", "rest"}, pc' = "rest" => Now.do = "group",
         left' \in Lefts, verdict = "" /\ pc' # "rest" => left' # <<>>
  PROVE  TesterTypes'
<1>1. UNCHANGED Steps
  BY DEF Steps
<1>2. UNCHANGED Now
  BY <1>1 DEF Now
<1> QED
  BY <1>1, <1>2 DEF TesterTypes

\* A command is sent: it is not the last step.
LEMMA SendTypes ==
  ASSUME ProgramTypes, TesterTypes, SendStep
  PROVE  TesterTypes'
<1>1. Sound(Steps)
  BY StepsSound DEF ProgramTypes
<1>2. /\ UNCHANGED <<scenario, pc, attempt, left, verdict, late>> /\ at' = at + 1
      /\ verdict = "" /\ Now.do = "send"
  BY Zenon DEF SendStep, Doing
<1>3. UNCHANGED Steps
  BY <1>2 DEF Steps
<1>4. PICK N \in Nat : N = Len(Steps) /\ N = Len(Steps)'
  BY <1>1, <1>3 DEF Sound
<1>5. at # Len(Steps)
  BY <1>1, <1>2 DEF Sound, Settled, Now
<1>6. at' \in 1 .. Len(Steps)'
  <2>1. at \in 1 .. N /\ at # N /\ at' = at + 1
    BY <1>2, <1>4, <1>5, Zenon DEF TesterTypes
  <2>2. at' \in 1 .. N
    BY <2>1, CountFacts, Zenon
  <2> QED
    BY <1>4, <2>2
<1>7. pc # "rest"
  BY <1>2 DEF TesterTypes
<1> QED
  BY <1>2, <1>6, <1>7 DEF TesterTypes

\* A step that is tried again is not the first.
LEMMA RetryTypes ==
  ASSUME ProgramTypes, TesterTypes, Retry
  PROVE  TesterTypes'
<1>1. Sound(Steps)
  BY StepsSound DEF ProgramTypes
<1>2. UNCHANGED <<scenario, left, verdict>> /\ at' = at - 1 /\ attempt' = attempt + 1 /\ pc' = "step"
  BY Zenon DEF Retry, programVars
<1>3. Now.retries > 0 /\ attempt < Now.retries /\ verdict = "" /\ pc = "got"
  BY Zenon DEF Retry, Retryable, Wanting
<1>4. UNCHANGED Steps
  BY <1>2 DEF Steps
<1>5. PICK N \in Nat : N = Len(Steps) /\ N = Len(Steps)'
  BY <1>1, <1>4 DEF Sound
<1>6. at \in 1 .. N
  BY <1>5 DEF TesterTypes
<1>7. at # 1
  <2>1. Steps[1].retries = 0
    BY <1>1 DEF Sound
  <2>2. Now.retries > 0
    BY <1>3, Zenon
  <2> QED
    BY <2>1, <2>2 DEF Now
<1>8. at' \in 1 .. Len(Steps)'
  BY <1>2, <1>5, <1>6, <1>7
<1>9. attempt' \in 0 .. MaxRetries
  <2>1. Now.retries \in 0 .. MaxRetries
    BY <1>1, <1>5, <1>6 DEF Sound, Now
  <2>2. attempt < Now.retries /\ attempt' = attempt + 1 /\ attempt \in 0 .. MaxRetries
    BY <1>2, <1>3, Zenon DEF TesterTypes
  <2> QED
    BY <2>1, <2>2 DEF MaxRetries
<1>10. late' \in BOOLEAN
  BY Zenon DEF Retry
<1> QED
  BY <1>2, <1>3, <1>8, <1>9, <1>10 DEF TesterTypes

\* A value is accepted: the client that was served leaves the group's list.
LEMMA ApprovedTypes ==
  ASSUME ProgramTypes, TesterTypes, Approved, Wanting, late' \in BOOLEAN, UNCHANGED scenario
  PROVE  TesterTypes'
<1>1. verdict = "" /\ pc = "got"
  BY DEF Wanting
<1>2. CASE Now.do = "group"
  <2>1. pc' = "rest" /\ left' = Tail(left) /\ UNCHANGED <<at, attempt, verdict>>
    BY <1>2 DEF Approved
  <2>2. left \in Lefts /\ left # <<>>
    BY <1>1 DEF TesterTypes
  <2>3. left' \in Lefts
    BY <2>1, <2>2, LeftMoves
  <2> QED
    BY <1>2, <2>1, <2>3, StayTypes
<1>3. CASE Now.do # "group"
  <2>1. Advance /\ UNCHANGED left
    BY <1>3 DEF Approved
  <2> QED
    BY <1>1, <2>1, AdvanceTypes
<1> QED
  BY <1>2, <1>3

\* The types: the attempts stay within the retries, and a client leaves the
\* group's list once.
LEMMA TesterTypesKeep ==
  ASSUME ProgramTypes, TesterTypes, TesterNext
  PROVE  ProgramTypes' /\ TesterTypes'
<1>0. UNCHANGED <<scenario, link, after>>
  <2>1. CASE SendStep
    BY <2>1, Zenon DEF SendStep
  <2>2. CASE UNCHANGED programVars
    BY <2>2 DEF programVars
  <2>3. CASE \E k, n : Drain(k, n)
    BY <2>3, Zenon DEF Drain
  <2>4. Accept \/ Dial \/ SleepStep \/ Retry => UNCHANGED programVars
    BY Zenon DEF Accept, Dial, SleepStep, Retry
  <2>5. Refuse \/ Approve \/ AllQuiet \/ GiveUp \/ GroupTimeout => UNCHANGED programVars
    BY Zenon DEF Refuse, Approve, AllQuiet, GiveUp, GroupTimeout
  <2>6. ASSUME NEW k, NEW n, Read(k, n) \/ ApproveUnlessExtra(k, n) \/ PollClient(k, n) \/ NoResponse(k, n)
        PROVE  Drain(k, n)
    BY <2>6, Zenon DEF Read, ApproveUnlessExtra, PollClient, NoResponse
  <2> QED
    BY <2>1, <2>2, <2>3, <2>4, <2>5, <2>6 DEF TesterNext, Proceed
<1>1. ProgramTypes' /\ UNCHANGED scenario
  BY <1>0 DEF ProgramTypes
<1>2. late \in BOOLEAN
  BY DEF TesterTypes
<1>3. CASE Accept
  <2>1. Advance /\ verdict = "" /\ UNCHANGED <<late, left>>
    BY <1>3, Zenon DEF Accept, Doing
  <2> QED
    BY <1>1, <1>2, <2>1, AdvanceTypes
<1>4. CASE Dial
  <2>1. Advance /\ verdict = "" /\ UNCHANGED <<late, left>>
    BY <1>4, Zenon DEF Dial, Doing
  <2> QED
    BY <1>1, <1>2, <2>1, AdvanceTypes
<1>5. CASE SleepStep
  <2>1. Advance /\ verdict = "" /\ late' \in BOOLEAN /\ UNCHANGED left
    BY <1>5, Zenon DEF SleepStep, Doing
  <2> QED
    BY <1>1, <2>1, AdvanceTypes
<1>6. CASE AllQuiet
  <2>1. Advance /\ verdict = "" /\ UNCHANGED <<late, left>>
    BY <1>6, Zenon DEF AllQuiet, Doing
  <2> QED
    BY <1>1, <1>2, <2>1, AdvanceTypes
<1>7. CASE Refuse
  <2>1. Fail /\ UNCHANGED <<late, left>>
    BY <1>7, Zenon DEF Refuse
  <2> QED
    BY <1>1, <1>2, <2>1, FailTypes
<1>8. CASE GiveUp
  <2>1. Fail /\ late' \in BOOLEAN /\ UNCHANGED left
    BY <1>8, Zenon DEF GiveUp
  <2> QED
    BY <1>1, <2>1, FailTypes
<1>9. CASE GroupTimeout
  <2>1. Fail /\ late' \in BOOLEAN /\ UNCHANGED left
    BY <1>9, Zenon DEF GroupTimeout
  <2> QED
    BY <1>1, <2>1, FailTypes
<1>10. CASE Approve
  <2>1. Approved /\ Wanting /\ UNCHANGED late
    BY <1>10, Zenon DEF Approve
  <2> QED
    BY <1>1, <1>2, <2>1, ApprovedTypes
<1>11. ASSUME NEW k, NEW n, Read(k, n) PROVE TesterTypes'
  <2>1. UNCHANGED <<left, late>> /\ Reading
    BY <1>11, Zenon DEF Read
  <2>2. verdict = "" /\ pc # "rest"
    BY <2>1 DEF Reading
  <2>3. \/ pc' \in {"got", "polled"} /\ UNCHANGED <<at, attempt, verdict>>
        \/ Fail
    BY <1>11 DEF Read
  <2>4. CASE Fail
    BY <1>1, <1>2, <2>1, <2>4, FailTypes
  <2>5. CASE pc' \in {"got", "polled"} /\ UNCHANGED <<at, attempt, verdict>>
    <3>1. left' \in Lefts /\ left' # <<>>
      BY <2>1, <2>2 DEF TesterTypes
    <3>2. pc' \in {"step", "polled", "got", "reading", "rest"} /\ pc' # "rest"
      BY <2>5
    <3> QED
      BY <1>1, <1>2, <2>1, <2>5, <3>1, <3>2, StayTypes
  <2> QED
    BY <2>3, <2>4, <2>5
<1>12. ASSUME NEW k, NEW n, ApproveUnlessExtra(k, n) PROVE TesterTypes'
  <2>1. Wanting /\ late' \in BOOLEAN /\ (Approved \/ (Fail /\ UNCHANGED left))
    BY <1>12, Zenon DEF ApproveUnlessExtra
  <2>2. CASE Approved
    BY <1>1, <2>1, <2>2, ApprovedTypes
  <2>3. CASE Fail /\ UNCHANGED left
    BY <1>1, <2>1, <2>3, FailTypes
  <2> QED
    BY <2>1, <2>2, <2>3
<1>13. ASSUME NEW k, NEW n, PollClient(k, n) PROVE TesterTypes'
  <2>1. /\ verdict = "" /\ pc = "step" /\ k = Head(left) /\ UNCHANGED <<at, attempt, verdict, late>>
        /\ \/ left' = Tail(left) \o <<k>> /\ pc' = pc
           \/ pc' = "reading" /\ left' = left
    BY <1>13, Zenon DEF PollClient, Doing
  <2>2. left \in Lefts /\ left # <<>>
    BY <2>1 DEF TesterTypes
  <2>3. left' \in Lefts /\ left' # <<>>
    BY <2>1, <2>2, LeftMoves
  <2>4. pc' \in {"step", "polled", "got", "reading", "rest"} /\ pc' # "rest"
    BY <2>1
  <2> QED
    BY <1>1, <1>2, <2>1, <2>3, <2>4, StayTypes
<1>14. ASSUME NEW k, NEW n, NoResponse(k, n) PROVE TesterTypes'
  <2>1. /\ verdict = "" /\ pc = "rest" /\ left # <<>> /\ late' \in BOOLEAN
        /\ UNCHANGED <<at, pc, attempt>>
        /\ \/ left' = Tail(left) /\ verdict' = verdict
           \/ verdict' = "fail" /\ left' = left
    BY <1>14, Zenon DEF NoResponse, Doing
  <2>2. left \in Lefts /\ left' \in Lefts
    BY <2>1, LeftMoves DEF TesterTypes
  <2>3. UNCHANGED Steps
    BY <1>1 DEF Steps
  <2>4. UNCHANGED Now
    BY <2>1, <2>3 DEF Now
  <2> QED
    BY <2>1, <2>2, <2>3, <2>4 DEF TesterTypes
<1> QED
  BY <1>1, <1>3, <1>4, <1>5, <1>6, <1>7, <1>8, <1>9, <1>10, <1>11, <1>12, <1>13, <1>14,
     SendTypes, RetryTypes DEF TesterNext, Proceed

\* TypeOK.
THEOREM TesterTypeCorrect == Spec => []TypeOK
<1>1. ProgramTypes /\ TesterTypes /\ [Next]_vars => ProgramTypes' /\ TesterTypes'
  <2> SUFFICES ASSUME ProgramTypes, TesterTypes, [Next]_vars PROVE ProgramTypes' /\ TesterTypes'
    OBVIOUS
  <2>1. CASE TesterNext
    BY <2>1, TesterTypesKeep
  <2>2. CASE ProgramNext /\ UNCHANGED <<authVars, testerVars>>
    BY <2>2, ProgramTypesKept, TesterTypesKept
  <2>3. CASE AuthNext /\ UNCHANGED testerVars
    BY <2>3, AuthTypesKept, TesterTypesKept
  <2>4. CASE UNCHANGED vars
    <3>1. UNCHANGED <<scenario, link, after, testerVars>>
      BY <2>4 DEF vars, programVars
    <3>2. ProgramTypes'
      BY <3>1 DEF ProgramTypes
    <3> QED
      BY <3>1, <3>2, TesterTypesKept
  <2> QED
    BY <2>1, <2>2, <2>3, <2>4 DEF Next
<1>2. ProgramTypes /\ TesterTypes => TypeOK
  BY TypesHold
<1> QED
  BY <1>1, <1>2, TypesInit, PTL DEF Spec
=============================================================================
