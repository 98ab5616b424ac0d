-------------------------- MODULE SortedSetsProofs --------------------------
(***************************************************************************)
(* Proofs about SortedSets: the map and the slice of a sorted set agree in *)
(* every state in which nobody is between the two steps of an insertion,   *)
(* nobody reads in such a state, and the handlers implement OrderedMap,    *)
(* for any connections, names, scores, positions, distances and commands.  *)
(***************************************************************************)
EXTENDS SortedSets, GeoGridProofs, FiniteSetTheorems, SequenceTheorems

-----------------------------------------------------------------------------
(* Commands and their arguments. *)

\* The command says which arguments there are.
LEMMA RequestShape ==
  ASSUME NEW r \in Requests \cup {NoRequest}
  PROVE  /\ r.cmd \in {"ZADD", "GEOADD", "ZREM", "ZRANK", "ZSCORE", "GEOPOS", "GEODIST"}
              => r.member \in Members
         /\ r.cmd = "ZADD" => r.score \in Scores
         /\ r.cmd = "GEOADD" => r.place \in Places
         /\ r.cmd = "ZRANGE" => r.from \in Indices /\ r.to \in Indices
         /\ r.cmd = "GEODIST" => r.other \in Members
         /\ r.cmd = "GEOSEARCH" => r.center \in Centers /\ r.radius \in Radii
         /\ r = NoRequest => r.cmd = "none"
         /\ r.cmd = "none" => r = NoRequest
<1>1. CASE r \in [cmd : {"ZADD"}, member : Members, score : Scores]
  BY <1>1 DEF NoRequest
<1>2. CASE r \in [cmd : {"GEOADD"}, member : Members, place : Places]
  BY <1>2 DEF NoRequest
<1>3. CASE r \in [cmd : {"ZRANK", "ZSCORE", "ZREM", "GEOPOS"}, member : Members]
  BY <1>3 DEF NoRequest
<1>4. CASE r \in [cmd : {"ZRANGE"}, from : Indices, to : Indices]
  BY <1>4 DEF NoRequest
<1>5. CASE r \in [cmd : {"ZCARD"}]
  BY <1>5 DEF NoRequest
<1>6. CASE r \in [cmd : {"GEODIST"}, member : Members, other : Members]
  BY <1>6 DEF NoRequest
<1>7. CASE r \in [cmd : {"GEOSEARCH"}, center : Centers, radius : Radii]
  BY <1>7 DEF NoRequest
<1>8. CASE r = NoRequest
  BY <1>8 DEF NoRequest
<1> QED
  BY <1>1, <1>2, <1>3, <1>4, <1>5, <1>6, <1>7, <1>8, ZenonT(30) DEF Requests

\* A writer's score is a number: GEOADD gets here with a position on the map.
LEMMA ScoreIsNat ==
  ASSUME NEW r \in Requests \cup {NoRequest}, r.cmd \in {"ZADD", "GEOADD"},
         r.cmd = "GEOADD" => OnMap(r.place)
  PROVE  ScoreOf(r) \in Nat /\ r.member \in Members
<1>1. r.member \in Members
  BY RequestShape
<1>2. CASE r.cmd = "ZADD"
  BY <1>1, <1>2, RequestShape, ZSetAssumption DEF ScoreOf
<1>3. CASE r.cmd = "GEOADD"
  BY <1>1, <1>3, EncodeIsScore DEF ScoreOf, OnMap
<1> QED
  BY <1>2, <1>3

-----------------------------------------------------------------------------
(* The slice: where a search ends, and what cutting and pasting leaves. *)

\* What RemoveAt returns.
LEMMA RemoveAtProperties ==
  ASSUME NEW S, NEW s \in Seq(S), NEW i \in 1 .. Len(s)
  PROVE  /\ RemoveAt(s, i) \in Seq(S)
         /\ Len(RemoveAt(s, i)) = Len(s) - 1
         /\ \A k \in 1 .. Len(s) - 1 :
              RemoveAt(s, i)[k] = IF k < i THEN s[k] ELSE s[k + 1]
<1> DEFINE a == SubSeq(s, 1, i - 1)
           b == SubSeq(s, i + 1, Len(s))
<1>1. Len(s) \in Nat /\ \A k \in 1 .. Len(s) : s[k] \in S
  BY LenProperties
<1>2. a \in Seq(S) /\ Len(a) = i - 1 /\ \A k \in 1 .. i - 1 : a[k] = s[k]
  BY <1>1, SubSeqProperties
<1>3. b \in Seq(S) /\ Len(b) = Len(s) - i
      /\ \A k \in 1 .. Len(s) - i : b[k] = s[k + i]
  BY <1>1, SubSeqProperties
<1>4. /\ a \o b \in Seq(S)
      /\ Len(a \o b) = Len(a) + Len(b)
      /\ \A k \in 1 .. Len(a) + Len(b) :
           (a \o b)[k] = IF k <= Len(a) THEN a[k] ELSE b[k - Len(a)]
  BY <1>2, <1>3, ConcatProperties
<1>5. RemoveAt(s, i) = a \o b
  BY DEF RemoveAt
<1> HIDE DEF a, b
<1>6. ASSUME NEW k \in 1 .. Len(s) - 1
      PROVE  RemoveAt(s, i)[k] = IF k < i THEN s[k] ELSE s[k + 1]
  <2>1. CASE k < i
    BY <1>1, <1>2, <1>3, <1>4, <1>5, <2>1
  <2>2. CASE ~(k < i)
    <3>1. (a \o b)[k] = b[k - (i - 1)]
      BY <1>1, <1>2, <1>3, <1>4, <2>2
    <3>2. k - (i - 1) \in 1 .. Len(s) - i
      BY <1>1, <2>2
    <3>3. b[k - (i - 1)] = s[(k - (i - 1)) + i]
      BY <1>3, <3>2
    <3> QED
      BY <1>1, <1>5, <2>2, <3>1, <3>3
  <2> QED
    BY <2>1, <2>2
<1>7. RemoveAt(s, i) \in Seq(S)
  BY <1>4, <1>5
<1>8. Len(RemoveAt(s, i)) = Len(s) - 1
  BY <1>1, <1>2, <1>3, <1>4, <1>5
<1> QED
  BY <1>6, <1>7, <1>8

\* What InsertAt returns: the insertion at the index of the binary search.
LEMMA InsertAtProperties ==
  ASSUME NEW S, NEW s \in Seq(S), NEW i \in 1 .. Len(s) + 1, NEW e \in S
  PROVE  /\ InsertAt(s, i, e) \in Seq(S)
         /\ Len(InsertAt(s, i, e)) = Len(s) + 1
         /\ \A k \in 1 .. Len(s) + 1 :
              InsertAt(s, i, e)[k] = IF k < i THEN s[k] ELSE IF k = i THEN e ELSE s[k - 1]
<1> DEFINE a == SubSeq(s, 1, i - 1)
           b == SubSeq(s, i, Len(s))
           ae == a \o <<e>>
<1>1. Len(s) \in Nat /\ \A k \in 1 .. Len(s) : s[k] \in S
  BY LenProperties
<1>2. a \in Seq(S) /\ Len(a) = i - 1 /\ \A k \in 1 .. i - 1 : a[k] = s[k]
  BY <1>1, SubSeqProperties
<1>3. b \in Seq(S) /\ Len(b) = Len(s) - i + 1
      /\ \A k \in 1 .. Len(s) - i + 1 : b[k] = s[i + k - 1]
  BY <1>1, SubSeqProperties
<1>4. <<e>> \in Seq(S) /\ Len(<<e>>) = 1 /\ <<e>>[1] = e
  OBVIOUS
<1>5. InsertAt(s, i, e) = ae \o b
  BY DEF InsertAt
<1> HIDE DEF a, b
<1>6. /\ ae \in Seq(S)
      /\ Len(ae) = i
      /\ \A k \in 1 .. i : ae[k] = IF k < i THEN s[k] ELSE e
  <2>1. /\ ae \in Seq(S) /\ Len(ae) = Len(a) + 1
        /\ \A k \in 1 .. Len(a) + 1 : ae[k] = IF k <= Len(a) THEN a[k] ELSE <<e>>[k - Len(a)]
    BY <1>2, <1>4, ConcatProperties
  <2>2. ASSUME NEW k \in 1 .. i PROVE ae[k] = IF k < i THEN s[k] ELSE e
    <3>1. CASE k < i
      BY <1>1, <1>2, <2>1, <3>1
    <3>2. CASE ~(k < i)
      <4>1. k - Len(a) = 1 /\ k \in 1 .. Len(a) + 1 /\ ~(k <= Len(a))
        BY <1>1, <1>2, <3>2
      <4> QED
        BY <1>4, <2>1, <3>2, <4>1
    <3> QED
      BY <3>1, <3>2
  <2> QED
    BY <1>1, <1>2, <2>1, <2>2
<1> HIDE DEF ae
<1>7. /\ ae \o b \in Seq(S)
      /\ Len(ae \o b) = Len(ae) + Len(b)
      /\ \A k \in 1 .. Len(ae) + Len(b) :
           (ae \o b)[k] = IF k <= Len(ae) THEN ae[k] ELSE b[k - Len(ae)]
  BY <1>3, <1>6, ConcatProperties
<1>8. ASSUME NEW k \in 1 .. Len(s) + 1
      PROVE  (ae \o b)[k] = IF k < i THEN s[k] ELSE IF k = i THEN e ELSE s[k - 1]
  <2>1. CASE k <= i
    BY <1>1, <1>3, <1>6, <1>7, <2>1
  <2>2. CASE ~(k <= i)
    <3>1. (ae \o b)[k] = b[k - i]
      BY <1>1, <1>3, <1>6, <1>7, <2>2
    <3>2. k - i \in 1 .. Len(s) - i + 1
      BY <1>1, <2>2
    <3>3. b[k - i] = s[i + (k - i) - 1]
      BY <1>3, <3>2
    <3> QED
      BY <1>1, <2>2, <3>1, <3>3
  <2> QED
    BY <2>1, <2>2
<1> QED
  BY <1>1, <1>3, <1>5, <1>6, <1>7, <1>8

-----------------------------------------------------------------------------
(* The slice against the map. *)

\* The slice holds the members S, each under the score f gives it.
Holds(order, f, S) ==
  /\ \A i \in DOMAIN order : order[i].name \in S /\ order[i].score = f[order[i].name]
  /\ \A m \in S : \E i \in DOMAIN order : order[i].name = m

\* What SMT needs to know of a slice.
LEMMA OrderType ==
  ASSUME NEW order \in Seq(ElementSet)
  PROVE  /\ Len(order) \in Nat /\ DOMAIN order = 1 .. Len(order)
         /\ \A i \in 1 .. Len(order) :
              order[i] \in ElementSet /\ order[i].name \in Int /\ order[i].score \in Int
<1>1. Len(order) \in Nat /\ DOMAIN order = 1 .. Len(order)
      /\ \A i \in 1 .. Len(order) : order[i] \in ElementSet
  BY LenProperties
<1>2. \A m \in Members : m \in Int
  BY ZSetAssumption
<1>3. ASSUME NEW e \in ElementSet PROVE e.name \in Int /\ e.score \in Int
  <2>1. e.name \in Members /\ e.score \in Nat
    BY DEF ElementSet
  <2> QED
    BY <1>2, <2>1
<1> QED
  BY <1>1, <1>3

\* A name stands in one place only.
LEMMA NamesOnce ==
  ASSUME NEW order \in Seq(ElementSet), NEW f, NEW S, Sorted(order), Holds(order, f, S),
         NEW i \in DOMAIN order, NEW j \in DOMAIN order, order[i].name = order[j].name
  PROVE  i = j
<1>1. order[i].score = order[j].score
  BY DEF Holds
<1>2. order[i].name \in Int /\ order[i].score \in Int /\ i \in Int /\ j \in Int
  BY OrderType
<1>3. ~(i < j) /\ ~(j < i)
  BY <1>1, <1>2 DEF Sorted
<1> QED
  BY <1>2, <1>3

\* Cutting the place of m out removes m and nothing else.
LEMMA CutKeepsOrder ==
  ASSUME NEW order \in Seq(ElementSet), NEW f, NEW S, Sorted(order), Holds(order, f, S),
         NEW p \in 1 .. Len(order)
  PROVE  LET rest == RemoveAt(order, p) IN
         /\ rest \in Seq(ElementSet)
         /\ Sorted(rest)
         /\ Holds(rest, f, S \ {order[p].name})
<1> DEFINE rest == RemoveAt(order, p)
           old(k) == IF k < p THEN k ELSE k + 1
<1>1. /\ Len(order) \in Nat /\ DOMAIN order = 1 .. Len(order)
      /\ \A i \in 1 .. Len(order) : order[i].name \in Int /\ order[i].score \in Int
  BY OrderType
<1>2. /\ rest \in Seq(ElementSet)
      /\ Len(rest) = Len(order) - 1
      /\ \A k \in 1 .. Len(order) - 1 :
           rest[k] = IF k < p THEN order[k] ELSE order[k + 1]
  BY RemoveAtProperties
<1>3. DOMAIN rest = 1 .. Len(order) - 1
  BY <1>2, OrderType
<1> HIDE DEF rest
<1>4. \A k \in DOMAIN rest :
        old(k) \in DOMAIN order /\ old(k) # p /\ rest[k] = order[old(k)]
  BY <1>1, <1>2, <1>3
<1>5. \A i, j \in DOMAIN rest : i < j => old(i) < old(j)
  BY <1>1, <1>3
<1>6. \A i \in DOMAIN order : i # p => \E k \in DOMAIN rest : old(k) = i
  <2> SUFFICES ASSUME NEW i \in DOMAIN order, i # p
               PROVE  \E k \in DOMAIN rest : old(k) = i
    OBVIOUS
  <2>1. CASE i < p
    <3>1. i \in DOMAIN rest /\ old(i) = i
      BY <1>1, <1>3, <2>1
    <3> QED
      BY <3>1
  <2>2. CASE ~(i < p)
    <3>1. i - 1 \in DOMAIN rest /\ old(i - 1) = i
      BY <1>1, <1>3, <2>2
    <3> QED
      BY <3>1
  <2> QED
    BY <2>1, <2>2
<1> HIDE DEF old
<1>7. Sorted(rest)
  BY <1>4, <1>5 DEF Sorted
<1>8. Holds(rest, f, S \ {order[p].name})
  <2>1. ASSUME NEW k \in DOMAIN rest
        PROVE  /\ rest[k].name \in S \ {order[p].name}
               /\ rest[k].score = f[rest[k].name]
    <3>1. old(k) \in DOMAIN order /\ old(k) # p /\ rest[k] = order[old(k)]
      BY <1>4
    <3>2. p \in DOMAIN order
      BY <1>1
    <3>3. order[old(k)].name # order[p].name
      BY <3>1, <3>2, NamesOnce
    <3> QED
      BY <3>1, <3>3 DEF Holds
  <2>2. ASSUME NEW m \in S \ {order[p].name}
        PROVE  \E k \in DOMAIN rest : rest[k].name = m
    <3>1. PICK i \in DOMAIN order : order[i].name = m
      BY DEF Holds
    <3>2. i # p
      BY <3>1
    <3>3. PICK k \in DOMAIN rest : old(k) = i
      BY <1>6, <3>2
    <3> QED
      BY <1>4, <3>1, <3>3
  <2> QED
    BY <2>1, <2>2 DEF Holds
<1> QED
  BY <1>2, <1>7, <1>8 DEF rest

\* The places the binary search asks for.
Behind(order, m, score) ==
  {i \in DOMAIN order :
     IF order[i].score = score THEN order[i].name >= m ELSE order[i].score > score}

\* What is before place p is earlier than an element, what is behind it later.
Splits(order, p, score, m) ==
  \A i \in DOMAIN order :
    /\ i < p => order[i].score < score \/ (order[i].score = score /\ order[i].name < m)
    /\ i >= p => score < order[i].score \/ (score = order[i].score /\ m < order[i].name)

\* The binary search's place splits the slice.
LEMMA PlaceSplits ==
  ASSUME NEW order \in Seq(ElementSet), Sorted(order),
         NEW m \in Int, NEW score \in Int, \A i \in DOMAIN order : order[i].name # m
  PROVE  LET p == FirstPlace(Len(order), Behind(order, m, score)) IN
         p \in 1 .. Len(order) + 1 /\ Splits(order, p, score, m)
<1> DEFINE later == Behind(order, m, score)
           p == FirstPlace(Len(order), later)
<1>1. /\ Len(order) \in Nat /\ DOMAIN order = 1 .. Len(order)
      /\ \A i \in 1 .. Len(order) : order[i].name \in Int /\ order[i].score \in Int
  BY OrderType
<1>2. ASSUME NEW i \in DOMAIN order
      PROVE  i \in later <=> score < order[i].score \/ (score = order[i].score /\ m < order[i].name)
  <2>1. order[i].name \in Int /\ order[i].score \in Int /\ order[i].name # m
    BY <1>1
  <2>2. i \in later <=> IF order[i].score = score THEN order[i].name >= m
                                                  ELSE order[i].score > score
    BY DEF Behind
  <2> HIDE DEF later
  <2> QED
    BY <2>1, <2>2
<1>3. later \in SUBSET (1 .. Len(order)) /\ Len(order) \in Nat
  BY <1>1 DEF Behind
<1> HIDE DEF later
<1>4. /\ p \in 1 .. Len(order) + 1
      /\ \A i \in later : p <= i
      /\ p # Len(order) + 1 => p \in later
  BY <1>3, FirstPlaceProperties
<1> HIDE DEF p
<1>5. ASSUME NEW i \in DOMAIN order
      PROVE  /\ i < p => order[i].score < score \/ (order[i].score = score /\ order[i].name < m)
             /\ i >= p => score < order[i].score \/ (score = order[i].score /\ m < order[i].name)
  <2>0. order[i].name # m /\ order[i].name \in Int /\ order[i].score \in Int
    BY <1>1
  <2>1. i \in 1 .. Len(order) /\ Len(order) \in Nat /\ p \in 1 .. Len(order) + 1
    BY <1>1, <1>4
  <2>2. CASE i < p
    <3>1. i \notin later
      BY <1>4, <2>1, <2>2
    <3> QED
      BY <1>2, <2>0, <2>1, <2>2, <3>1
  <2>3. CASE i = p
    <3>1. i \in later
      BY <1>4, <2>1, <2>3
    <3> QED
      BY <1>2, <2>0, <2>1, <2>3, <3>1
  <2>4. CASE i > p
    <3>1. p \in later /\ p \in DOMAIN order
      BY <1>1, <1>4, <2>1, <2>4
    <3>2. order[p].score < order[i].score
          \/ (order[p].score = order[i].score /\ order[p].name < order[i].name)
      BY <2>4, <3>1 DEF Sorted
    <3>3. order[p].name \in Int /\ order[p].score \in Int
      BY <1>1, <3>1
    <3>4. score < order[p].score \/ (score = order[p].score /\ m < order[p].name)
      BY <1>2, <3>1
    <3>5. score < order[i].score \/ (score = order[i].score /\ m < order[i].name)
      BY <2>0, <3>2, <3>3, <3>4
    <3> QED
      BY <2>1, <2>4, <3>5
  <2> QED
    BY <2>1, <2>2, <2>3, <2>4
<1> QED
  BY <1>4, <1>5 DEF p, later, Splits

\* Insertion into a slice.
LEMMA InsertElement ==
  ASSUME NEW order \in Seq(ElementSet), NEW p \in 1 .. Len(order) + 1, NEW e \in ElementSet
  PROVE  /\ InsertAt(order, p, e) \in Seq(ElementSet)
         /\ Len(InsertAt(order, p, e)) = Len(order) + 1
         /\ \A k \in 1 .. Len(order) + 1 :
              InsertAt(order, p, e)[k] = IF k < p THEN order[k] ELSE IF k = p THEN e ELSE order[k - 1]
BY InsertAtProperties

\* Pasting m between what is earlier and what is later adds m and nothing else.
LEMMA PasteKeepsOrder ==
  ASSUME NEW order \in Seq(ElementSet), NEW f, NEW S, Sorted(order), Holds(order, f, S),
         NEW e \in ElementSet, NEW g, g[e.name] = e.score, \A n \in S : g[n] = f[n],
         NEW p \in 1 .. Len(order) + 1, Splits(order, p, e.score, e.name)
  PROVE  LET more == InsertAt(order, p, e) IN
         /\ more \in Seq(ElementSet)
         /\ Sorted(more)
         /\ Holds(more, g, S \cup {e.name})
<1> DEFINE more == InsertAt(order, p, e)
           new(i) == IF i < p THEN i ELSE i + 1
<1>1. Len(order) \in Nat /\ DOMAIN order = 1 .. Len(order)
  BY OrderType
<1>5. \A i \in DOMAIN order :
        /\ i < p => order[i].score < e.score
                    \/ (order[i].score = e.score /\ order[i].name < e.name)
        /\ i >= p => e.score < order[i].score
                     \/ (e.score = order[i].score /\ e.name < order[i].name)
  BY DEF Splits
<1>6. /\ more \in Seq(ElementSet)
      /\ Len(more) = Len(order) + 1
      /\ \A k \in 1 .. Len(order) + 1 :
           more[k] = IF k < p THEN order[k] ELSE IF k = p THEN e ELSE order[k - 1]
  BY InsertElement
<1>7. DOMAIN more = 1 .. Len(order) + 1
  BY <1>6, OrderType
<1> HIDE DEF more
<1>8. \A k \in DOMAIN more :
        /\ k < p => k \in DOMAIN order /\ more[k] = order[k]
        /\ k > p => k - 1 \in DOMAIN order /\ more[k] = order[k - 1]
  BY <1>1, <1>6, <1>7
<1>9. p \in DOMAIN more /\ more[p] = e
  BY <1>1, <1>6, <1>7
<1>10. \A i \in DOMAIN order : new(i) \in DOMAIN more /\ more[new(i)] = order[i]
  <2> SUFFICES ASSUME NEW i \in DOMAIN order
               PROVE  new(i) \in DOMAIN more /\ more[new(i)] = order[i]
    OBVIOUS
  <2>1. CASE i < p
    BY <1>1, <1>6, <1>7, <2>1
  <2>2. CASE ~(i < p)
    <3>1. i + 1 \in 1 .. Len(order) + 1 /\ ~(i + 1 < p) /\ i + 1 # p /\ (i + 1) - 1 = i
      BY <1>1, <2>2
    <3>2. more[i + 1] = order[i]
      BY <1>6, <3>1
    <3> QED
      BY <1>7, <2>2, <3>1, <3>2
  <2> QED
    BY <2>1, <2>2
<1> HIDE DEF new
<1>11. Sorted(more)
  <2> SUFFICES ASSUME NEW i \in DOMAIN more, NEW j \in DOMAIN more, i < j
               PROVE  \/ more[i].score < more[j].score
                      \/ more[i].score = more[j].score /\ more[i].name < more[j].name
    BY DEF Sorted
  <2>0. i \in Int /\ j \in Int /\ p \in Int
    BY <1>1, <1>7
  <2>1. CASE i < p /\ j < p
    BY <1>8, <2>1 DEF Sorted
  <2>2. CASE i < p /\ j = p
    BY <1>5, <1>8, <1>9, <2>2
  <2>3. CASE i < p /\ j > p
    <3>1. i < j - 1 \/ i = j - 1
      BY <2>0
    <3>2. i \in DOMAIN order /\ more[i] = order[i] /\ j - 1 \in DOMAIN order
          /\ more[j] = order[j - 1]
      BY <1>8, <2>3
    <3>3. i < j - 1
      BY <2>0, <2>3
    <3> QED
      BY <3>2, <3>3 DEF Sorted
  <2>4. CASE i = p
    <3>1. j > p /\ j - 1 >= p
      BY <2>0, <2>4
    <3>2. j - 1 \in DOMAIN order /\ more[j] = order[j - 1] /\ more[i] = e
      BY <1>8, <1>9, <2>4, <3>1
    <3>3. e.score < order[j - 1].score
          \/ (e.score = order[j - 1].score /\ e.name < order[j - 1].name)
      BY <1>5, <3>1, <3>2
    <3> QED
      BY <3>2, <3>3
  <2>5. CASE i > p
    <3>1. j > p /\ i - 1 < j - 1
      BY <2>0, <2>5
    <3>2. i - 1 \in DOMAIN order /\ more[i] = order[i - 1] /\ j - 1 \in DOMAIN order
          /\ more[j] = order[j - 1]
      BY <1>8, <2>5, <3>1
    <3> QED
      BY <3>1, <3>2 DEF Sorted
  <2> QED
    BY <2>0, <2>1, <2>2, <2>3, <2>4, <2>5
<1>12. Holds(more, g, S \cup {e.name})
  <2>1. ASSUME NEW k \in DOMAIN more
        PROVE  more[k].name \in S \cup {e.name} /\ more[k].score = g[more[k].name]
    <3>0. k \in Int /\ p \in Int
      BY <1>1, <1>7
    <3>1. CASE k = p
      BY <1>9, <3>1
    <3>2. ASSUME NEW i \in DOMAIN order, more[k] = order[i]
          PROVE  more[k].name \in S \cup {e.name} /\ more[k].score = g[more[k].name]
      BY <3>2 DEF Holds
    <3>3. CASE k < p
      BY <1>8, <3>2, <3>3
    <3>4. CASE k > p
      BY <1>8, <3>2, <3>4
    <3> QED
      BY <3>0, <3>1, <3>3, <3>4
  <2>2. ASSUME NEW n \in S \cup {e.name}
        PROVE  \E k \in DOMAIN more : more[k].name = n
    <3>1. CASE n = e.name
      BY <1>9, <3>1
    <3>2. CASE n \in S
      <4>1. PICK i \in DOMAIN order : order[i].name = n
        BY <3>2 DEF Holds
      <4> QED
        BY <1>10, <4>1
    <3> QED
      BY <3>1, <3>2
  <2> QED
    BY <2>1, <2>2 DEF Holds
<1> QED
  BY <1>6, <1>11, <1>12 DEF more

-----------------------------------------------------------------------------
(* The inductive invariant. *)

\* The lock: whoever is past Lock is the writer, nobody reads and no read lock is
\* left while a member is out of the slice, and what waits for the lock to write
\* has a score to write.
LockOK ==
  /\ \A c \in Conns : pc[c] \in {"drain", "insert"} <=> writer = c
  /\ \A c \in Conns : pc[c] = "insert" => ~leaked /\ \A d \in Conns : pc[d] # "reading"
  /\ \A c \in Conns : pc[c] \in {"lock", "drain", "insert"} =>
       /\ request[c].cmd \in Writers
       /\ request[c].cmd = "GEOADD" => OnMap(request[c].place)

\* The member that AddToSortedSet has taken out of the slice and not put back.
Unsettled == {request[c].member : c \in {d \in Conns : pc[d] = "insert"}}

\* The slice is in order and holds the map without that member.
SetOK == Sorted(Order) /\ Holds(Order, Elements, DOMAIN Elements \ Unsettled)

IInv == TypeOK /\ LockOK /\ SetOK

-----------------------------------------------------------------------------
(* Its steps. *)

\* A step that moves c alone, not into or out of the part under the write lock,
\* and leaves the set as it is.
LEMMA QuietStep ==
  ASSUME IInv, NEW c \in Conns, NEW place \in Spots,
         pc[c] \notin {"drain", "insert"}, place \notin {"drain", "insert"},
         pc' = [pc EXCEPT ![c] = place],
         request' \in [Conns -> Requests \cup {NoRequest}],
         \A d \in Conns : d # c => request'[d] = request[d],
         DOMAIN reply' = Conns,
         UNCHANGED <<Elements, Order, writer>>,
         up' \in BOOLEAN, exists' \in BOOLEAN, leaked' \in BOOLEAN,
         place = "reading" => writer = Free,
         leaked' => leaked \/ pc[c] = "reading",
         place = "lock" => /\ request'[c].cmd \in Writers
                           /\ request'[c].cmd = "GEOADD" => OnMap(request'[c].place)
  PROVE  IInv'
<1>1. /\ pc \in [Conns -> Spots] /\ pc' \in [Conns -> Spots] /\ pc'[c] = place
      /\ \A d \in Conns : d # c => pc'[d] = pc[d]
  BY DEF IInv, TypeOK
<1>2. TypeOK'
  BY <1>1 DEF IInv, TypeOK
<1>3. LockOK'
  <2>1. ASSUME NEW d \in Conns
        PROVE  pc'[d] \in {"drain", "insert"} <=> writer' = d
    BY <1>1 DEF IInv, LockOK
  <2>2. ASSUME NEW d \in Conns, pc'[d] = "insert"
        PROVE  ~leaked' /\ \A e \in Conns : pc'[e] # "reading"
    <3>1. d # c /\ pc[d] = "insert"
      BY <1>1, <2>2
    <3>2. writer = d /\ ~leaked /\ \A e \in Conns : pc[e] # "reading"
      BY <3>1 DEF IInv, LockOK
    <3>3. d # Free
      BY SortedSetsAssumption
    <3> QED
      BY <1>1, <3>1, <3>2, <3>3
  <2>3. ASSUME NEW d \in Conns, pc'[d] \in {"lock", "drain", "insert"}
        PROVE  /\ request'[d].cmd \in Writers
               /\ request'[d].cmd = "GEOADD" => OnMap(request'[d].place)
    <3>1. CASE d = c
      BY <1>1, <2>3, <3>1
    <3>2. CASE d # c
      BY <1>1, <2>3, <3>2 DEF IInv, LockOK
    <3> QED
      BY <3>1, <3>2
  <2> QED
    BY <2>1, <2>2, <2>3 DEF LockOK
<1>4. SetOK'
  <2>1. \A d \in Conns : (pc'[d] = "insert" <=> pc[d] = "insert")
                         /\ (pc[d] = "insert" => request'[d] = request[d])
    BY <1>1
  <2>2. Unsettled' = Unsettled
    BY <2>1 DEF Unsettled
  <2> QED
    BY <2>2 DEF IInv, SetOK, Sorted, Holds
<1> QED
  BY <1>2, <1>3, <1>4 DEF IInv

\* A goroutine that gets the lock starts with the set whole.
LEMMA LockStep ==
  ASSUME IInv, NEW c \in Conns, Lock(c)
  PROVE  IInv'
<1>1. /\ pc \in [Conns -> Spots] /\ pc' \in [Conns -> Spots]
      /\ pc[c] = "lock" /\ pc'[c] = "drain"
      /\ \A d \in Conns : d # c => pc'[d] = pc[d]
  BY DEF IInv, TypeOK, Lock, Goto, Spots
<1>2. TypeOK'
  BY <1>1 DEF IInv, TypeOK, Lock, set
<1>3. UNCHANGED <<Elements, Order, request, leaked>> /\ writer = Free /\ writer' = c
  BY DEF Lock, set
<1>4. \A d \in Conns : pc[d] \notin {"drain", "insert"}
  BY <1>3, SortedSetsAssumption DEF IInv, LockOK
<1>5. LockOK'
  BY <1>1, <1>3, <1>4 DEF IInv, LockOK
<1>6. SetOK'
  <2>1. Unsettled = {} /\ Unsettled' = {}
    BY <1>1, <1>4 DEF Unsettled
  <2> QED
    BY <1>3, <2>1 DEF IInv, SetOK, Sorted, Holds
<1> QED
  BY <1>2, <1>5, <1>6 DEF IInv

\* The end of every Lock: the writer answers, the readers that wait go in, and the
\* set is whole.
LEMMA UnlockStep ==
  ASSUME IInv, NEW c \in Conns, NEW a, pc[c] \in {"drain", "insert"}, UnlockAnswer(c, a),
         Order' \in Seq(ElementSet), DOMAIN Elements' \subseteq Members,
         \A m \in DOMAIN Elements' : Elements'[m] \in Nat,
         Sorted(Order'), Holds(Order', Elements', DOMAIN Elements')
  PROVE  IInv'
<1>1. writer = c /\ \A d \in Conns : d # c => pc[d] \notin {"drain", "insert"}
  BY DEF IInv, LockOK
<1>2. /\ \A d \in Conns : pc[d] \in Spots
      /\ pc' = [d \in Conns |-> CASE d = c           -> "reply"
                                  [] pc[d] = "rwait" -> "reading"
                                  [] OTHER           -> pc[d]]
      /\ request \in [Conns -> Requests \cup {NoRequest}]
      /\ request' = [request EXCEPT ![c] = NoRequest]
      /\ DOMAIN reply = Conns
      /\ reply' = [reply EXCEPT ![c] = a]
      /\ writer' = Free /\ UNCHANGED <<up, exists, leaked>>
  BY DEF IInv, TypeOK, UnlockAnswer, Answer
<1>3. \A d \in Conns : /\ d = c => pc'[d] = "reply"
                       /\ d # c /\ pc[d] = "rwait" => pc'[d] = "reading"
                       /\ d # c /\ pc[d] # "rwait" => pc'[d] = pc[d]
  BY <1>2
<1>4. \A d \in Conns : pc'[d] \in Spots \ {"drain", "insert"}
  BY <1>1, <1>2, <1>3 DEF Spots
<1>5. TypeOK'
  <2>1. pc' \in [Conns -> Spots]
    BY <1>2, <1>4
  <2>2. request' \in [Conns -> Requests \cup {NoRequest}] /\ DOMAIN reply' = Conns
    BY <1>2
  <2> QED
    BY <1>2, <2>1, <2>2 DEF IInv, TypeOK
<1>6. LockOK'
  <2>1. ASSUME NEW d \in Conns, pc'[d] \in {"lock", "drain", "insert"}
        PROVE  /\ request'[d].cmd \in Writers
               /\ request'[d].cmd = "GEOADD" => OnMap(request'[d].place)
    <3>1. d # c /\ pc[d] = "lock" /\ request'[d] = request[d]
      BY <1>2, <1>3, <1>4, <2>1
    <3> QED
      BY <3>1 DEF IInv, LockOK
  <2>2. \A d \in Conns : writer' # d
    BY <1>2, SortedSetsAssumption
  <2> QED
    BY <1>4, <2>1, <2>2 DEF LockOK
<1>7. SetOK'
  <2>1. Unsettled' = {}
    BY <1>4 DEF Unsettled
  <2>2. DOMAIN Elements' \ Unsettled' = DOMAIN Elements'
    BY <2>1
  <2> QED
    BY <2>2 DEF SetOK, Sorted, Holds
<1> QED
  BY <1>5, <1>6, <1>7 DEF IInv

\* The linear search for a member of a whole set finds it.
LEMMA PlaceFound ==
  ASSUME Order \in Seq(ElementSet), NEW S, Holds(Order, Elements, S), NEW name \in S
  PROVE  PlaceOf(name) \in 1 .. Len(Order) /\ Order[PlaceOf(name)].name = name
<1> DEFINE places == {i \in DOMAIN Order : Order[i].name = name}
<1>1. Len(Order) \in Nat /\ DOMAIN Order = 1 .. Len(Order)
  BY OrderType
<1>2. places \in SUBSET (1 .. Len(Order))
  BY <1>1
<1>3. places # {}
  BY DEF Holds
<1>4. \A i \in places : i \in 1 .. Len(Order) /\ Order[i].name = name
  BY <1>1
<1>5. PlaceOf(name) = FirstPlace(Len(Order), places)
  BY DEF PlaceOf
<1> HIDE DEF places
<1>6. PlaceOf(name) \in places
  BY <1>1, <1>2, <1>3, <1>5, FirstPlaceProperties
<1> QED
  BY <1>4, <1>6

\* Taking a member out of a whole set, if it is there.
LEMMA CutMember ==
  ASSUME Order \in Seq(ElementSet), Sorted(Order), Holds(Order, Elements, DOMAIN Elements),
         NEW name, NEW rest,
         rest = IF name \in DOMAIN Elements THEN RemoveAt(Order, PlaceOf(name)) ELSE Order
  PROVE  /\ rest \in Seq(ElementSet)
         /\ Sorted(rest)
         /\ Holds(rest, Elements, DOMAIN Elements \ {name})
<1>1. CASE name \in DOMAIN Elements
  <2>1. PlaceOf(name) \in 1 .. Len(Order) /\ Order[PlaceOf(name)].name = name
    BY <1>1, PlaceFound
  <2> QED
    BY <1>1, <2>1, CutKeepsOrder
<1>2. CASE name \notin DOMAIN Elements
  <2>1. DOMAIN Elements \ {name} = DOMAIN Elements
    BY <1>2
  <2> QED
    BY <1>2, <2>1
<1> QED
  BY <1>1, <1>2

\* Nobody else is past Lock, and the set is whole before the first step of a writer.
LEMMA AloneAtDrain ==
  ASSUME IInv, NEW c \in Conns, pc[c] = "drain"
  PROVE  /\ \A d \in Conns : d # c => pc[d] \notin {"drain", "insert"}
         /\ Holds(Order, Elements, DOMAIN Elements)
<1>1. writer = c /\ \A d \in Conns : d # c => pc[d] \notin {"drain", "insert"}
  BY DEF IInv, LockOK
<1>2. Unsettled = {}
  BY <1>1 DEF Unsettled
<1>3. DOMAIN Elements \ Unsettled = DOMAIN Elements
  BY <1>2
<1> QED
  BY <1>1, <1>3 DEF IInv, SetOK

\* ZADD's first step leaves the slice without the member.
LEMMA EraseStep ==
  ASSUME IInv, NEW c \in Conns, Erase(c)
  PROVE  IInv'
<1> DEFINE name == request[c].member
<1>1. /\ pc \in [Conns -> Spots] /\ pc' \in [Conns -> Spots]
      /\ pc[c] = "drain" /\ pc'[c] = "insert" /\ request[c].cmd \in {"ZADD", "GEOADD"}
      /\ \A d \in Conns : d # c => pc'[d] = pc[d]
      /\ ~leaked /\ \A d \in Conns : pc[d] # "reading"
  BY DEF IInv, TypeOK, Erase, At, NoReader, Goto, Spots
<1>2. UNCHANGED <<up, exists, Elements, writer, leaked, request, reply>>
  BY DEF Erase, rwlock
<1>3. /\ \A d \in Conns : d # c => pc[d] \notin {"drain", "insert"}
      /\ Holds(Order, Elements, DOMAIN Elements)
  BY <1>1, AloneAtDrain
<1>4. /\ Order' \in Seq(ElementSet)
      /\ Sorted(Order')
      /\ Holds(Order', Elements, DOMAIN Elements \ {name})
  <2>1. Order \in Seq(ElementSet) /\ Sorted(Order)
    BY DEF IInv, TypeOK, SetOK
  <2>2. Order' = IF name \in DOMAIN Elements THEN RemoveAt(Order, PlaceOf(name)) ELSE Order
    BY DEF Erase
  <2> HIDE DEF name
  <2> QED
    BY <1>3, <2>1, <2>2, CutMember
<1>5. TypeOK'
  BY <1>1, <1>2, <1>4 DEF IInv, TypeOK
<1>6. LockOK'
  <2>1. \A d \in Conns : pc'[d] \in {"drain", "insert"} <=> writer' = d
    BY <1>1, <1>2 DEF IInv, LockOK
  <2>2. \A d \in Conns : pc'[d] # "reading"
    BY <1>1
  <2>3. \A d \in Conns : pc'[d] \in {"lock", "drain", "insert"} =>
                           pc[d] \in {"lock", "drain", "insert"}
    BY <1>1
  <2> QED
    BY <1>1, <1>2, <2>1, <2>2, <2>3 DEF IInv, LockOK
<1>7. SetOK'
  <2>1. \A d \in Conns : pc'[d] = "insert" <=> d = c
    BY <1>1, <1>3
  <2>2. Unsettled' = {name}
    BY <1>2, <2>1 DEF Unsettled
  <2>3. DOMAIN Elements' \ Unsettled' = DOMAIN Elements \ {name} /\ Elements' = Elements
    BY <1>2, <2>2
  <2> HIDE DEF name
  <2> QED
    BY <1>4, <2>3 DEF SetOK, Sorted, Holds
<1> QED
  BY <1>5, <1>6, <1>7 DEF IInv

\* A map with fewer names.
LEMMA MapMinus ==
  ASSUME NEW f, NEW S
  PROVE  /\ DOMAIN Restrict(f, S) = S
         /\ \A n \in S : Restrict(f, S)[n] = f[n]
BY DEF Restrict

\* ZADD's second step makes the set whole again.
LEMMA InsertStep ==
  ASSUME IInv, NEW c \in Conns, Insert(c)
  PROVE  IInv'
<1> DEFINE r == request[c]
           m == r.member
           e == [name |-> m, score |-> ScoreOf(r)]
           S == DOMAIN Elements \ {m}
           later == Behind(Order, e.name, e.score)
           p == InsertionPoint(m, ScoreOf(r))
<1>1. /\ pc[c] = "insert" /\ r \in Requests \cup {NoRequest}
      /\ r.cmd \in {"ZADD", "GEOADD"} /\ (r.cmd = "GEOADD" => OnMap(r.place))
  BY DEF IInv, TypeOK, LockOK, Insert, At
<1>2. /\ Elements' = Put(Elements, m, ScoreOf(r))
      /\ Order' = InsertAt(Order, p, e)
      /\ \E a : UnlockAnswer(c, a)
  BY DEF Insert
<1>3. ScoreOf(r) \in Nat /\ m \in Members
  BY <1>1, ScoreIsNat
<1>4. \A d \in Conns : pc[d] = "insert" <=> d = c
  BY <1>1 DEF IInv, LockOK
<1>5. Unsettled = {m}
  BY <1>4 DEF Unsettled
<1>6. Order \in Seq(ElementSet) /\ Sorted(Order) /\ Holds(Order, Elements, S)
  BY <1>5 DEF IInv, TypeOK, SetOK
<1>7. e \in ElementSet /\ e.name = m /\ e.score = ScoreOf(r)
  BY <1>3 DEF ElementSet
<1>8. p = FirstPlace(Len(Order), later)
  BY <1>7 DEF InsertionPoint, Behind
<1>9. /\ DOMAIN Elements' = DOMAIN Elements \cup {m} /\ Elements'[m] = ScoreOf(r)
      /\ \A n \in DOMAIN Elements : n # m => Elements'[n] = Elements[n]
  <2>1. Elements' = Put(Elements, m, ScoreOf(r))
    BY <1>2
  <2> HIDE DEF m, r
  <2> QED
    BY <2>1 DEF Put
<1>10. m \in Int /\ ScoreOf(r) \in Int /\ \A i \in DOMAIN Order : Order[i].name # m
  <2>1. \A n \in Members : n \in Int
    BY ZSetAssumption
  <2> QED
    BY <1>3, <1>6, <2>1 DEF Holds
<1> HIDE DEF e, p, m
<1>11. /\ p \in 1 .. Len(Order) + 1
       /\ Splits(Order, p, e.score, e.name)
  <2>1. e.name \in Int /\ e.score \in Int /\ \A i \in DOMAIN Order : Order[i].name # e.name
    BY <1>7, <1>10
  <2>3. Order \in Seq(ElementSet) /\ Sorted(Order)
    BY <1>6
  <2>4. /\ FirstPlace(Len(Order), later) \in 1 .. Len(Order) + 1
        /\ Splits(Order, FirstPlace(Len(Order), later), e.score, e.name)
    BY <2>1, <2>3, PlaceSplits
  <2> QED
    BY <1>8, <2>4
<1>12. /\ Order' \in Seq(ElementSet)
       /\ Sorted(Order')
       /\ Holds(Order', Elements', S \cup {m})
  <2>1. Elements'[e.name] = e.score /\ \A n \in S : Elements'[n] = Elements[n]
    BY <1>7, <1>9
  <2> HIDE DEF S
  <2>2. /\ InsertAt(Order, p, e) \in Seq(ElementSet)
        /\ Sorted(InsertAt(Order, p, e))
        /\ Holds(InsertAt(Order, p, e), Elements', S \cup {e.name})
    BY <1>6, <1>7, <1>11, <2>1, PasteKeepsOrder
  <2> QED
    BY <1>2, <1>7, <2>2
<1>13. S \cup {m} = DOMAIN Elements'
  BY <1>9
<1>14. DOMAIN Elements' \subseteq Members /\ \A n \in DOMAIN Elements' : Elements'[n] \in Nat
  BY <1>3, <1>9 DEF IInv, TypeOK
<1> QED
  BY <1>1, <1>2, <1>12, <1>13, <1>14, UnlockStep

\* ZREM takes a member out of both.
LEMMA ZRemStep ==
  ASSUME IInv, NEW c \in Conns, ZRem(c)
  PROVE  IInv'
<1> DEFINE name == request[c].member
<1>1. /\ pc[c] = "drain"
      /\ Elements' = Restrict(Elements, DOMAIN Elements \ {name})
      /\ Order' = IF name \in DOMAIN Elements THEN RemoveAt(Order, PlaceOf(name)) ELSE Order
      /\ \E a : UnlockAnswer(c, a)
  BY DEF ZRem, At
<1>2. Order \in Seq(ElementSet) /\ Sorted(Order) /\ Holds(Order, Elements, DOMAIN Elements)
  BY <1>1, AloneAtDrain DEF IInv, TypeOK, SetOK
<1> HIDE DEF name
<1>3. /\ Order' \in Seq(ElementSet)
      /\ Sorted(Order')
      /\ Holds(Order', Elements, DOMAIN Elements \ {name})
  BY <1>1, <1>2, CutMember
<1>4. DOMAIN Elements' = DOMAIN Elements \ {name}
      /\ \A n \in DOMAIN Elements' : Elements'[n] = Elements[n]
  BY <1>1, MapMinus
<1>5. Holds(Order', Elements', DOMAIN Elements')
  BY <1>3, <1>4 DEF Holds
<1>6. DOMAIN Elements' \subseteq Members /\ \A n \in DOMAIN Elements' : Elements'[n] \in Nat
  BY <1>4 DEF IInv, TypeOK
<1>7. pc[c] \in {"drain", "insert"} /\ \E a : UnlockAnswer(c, a)
  BY <1>1
<1>8. Order' \in Seq(ElementSet) /\ Sorted(Order')
  BY <1>3
<1> QED
  BY <1>5, <1>6, <1>7, <1>8, UnlockStep

\* A reading command, whether it answers or not and gives its lock back or not,
\* changes nothing of the set and is done with its request.
LEMMA ReadShape ==
  ASSUME TypeOK, NEW c \in Conns, Read(c)
  PROVE  /\ pc[c] = "reading"
         /\ \E place \in {"reply", "idle"} : pc' = [pc EXCEPT ![c] = place]
         /\ request' = [request EXCEPT ![c] = NoRequest]
         /\ DOMAIN reply' = Conns
         /\ UNCHANGED <<up, exists, Elements, Order, writer>>
         /\ leaked' \in BOOLEAN
<1> DEFINE Shape == /\ \E place \in {"reply", "idle"} : pc' = [pc EXCEPT ![c] = place]
                    /\ request' = [request EXCEPT ![c] = NoRequest]
                    /\ DOMAIN reply' = Conns
                    /\ UNCHANGED <<up, exists, Elements, Order, writer>>
                    /\ leaked' \in BOOLEAN
<1>1. leaked \in BOOLEAN /\ DOMAIN reply = Conns
  BY DEF TypeOK
<1>2. ASSUME NEW a, ReadAnswer(c, a) PROVE Shape
  BY <1>1, <1>2 DEF ReadAnswer, Answer, Goto, set, rwlock
<1>3. ASSUME NEW a, LeakAnswer(c, a) PROVE Shape
  BY <1>1, <1>3 DEF LeakAnswer, Answer, Goto, set
<1>4. ASSUME ZRank(c) PROVE Shape
  <2>1. ASSUME Goto(c, "idle"), request' = [request EXCEPT ![c] = NoRequest],
               UNCHANGED <<up, set, rwlock, reply>>
        PROVE  Shape
    BY <1>1, <2>1 DEF Goto, set, rwlock
  <2>2. \/ \E a : LeakAnswer(c, a)
        \/ Goto(c, "idle") /\ request' = [request EXCEPT ![c] = NoRequest]
           /\ UNCHANGED <<up, set, rwlock, reply>>
    BY <1>4 DEF ZRank
  <2> HIDE DEF Shape
  <2> QED
    BY <1>3, <2>1, <2>2
<1> HIDE DEF Shape
<1>5. ASSUME ZRange(c) PROVE Shape
  BY <1>2, <1>3, <1>5 DEF ZRange
<1>6. ASSUME ZCard(c) PROVE Shape
  BY <1>2, <1>6 DEF ZCard
<1>7. ASSUME ZScore(c) PROVE Shape
  BY <1>2, <1>3, <1>7 DEF ZScore
<1>8. ASSUME GeoPos(c) PROVE Shape
  BY <1>2, <1>8 DEF GeoPos
<1>9. ASSUME GeoDist(c) PROVE Shape
  BY <1>2, <1>9 DEF GeoDist
<1>10. ASSUME GeoSearch(c) PROVE Shape
  BY <1>2, <1>10 DEF GeoSearch
<1>11. Shape
  BY <1>4, <1>5, <1>6, <1>7, <1>8, <1>9, <1>10 DEF Read
<1>12. pc[c] = "reading"
  BY DEF Read, ZRank, ZRange, ZCard, ZScore, GeoPos, GeoDist, GeoSearch, At
<1> QED
  BY <1>11, <1>12 DEF Shape

\* A handler that reads keeps the invariant.
LEMMA ReadStep ==
  ASSUME IInv, NEW c \in Conns, Read(c)
  PROVE  IInv'
<1>1. /\ pc[c] = "reading"
      /\ request' = [request EXCEPT ![c] = NoRequest]
      /\ DOMAIN reply' = Conns
      /\ UNCHANGED <<up, exists, Elements, Order, writer>>
      /\ leaked' \in BOOLEAN
  BY ReadShape DEF IInv
<1>2. PICK place \in {"reply", "idle"} : pc' = [pc EXCEPT ![c] = place]
  BY ReadShape DEF IInv
<1>3. place \in Spots /\ place \notin {"drain", "insert", "reading", "lock"}
  BY DEF Spots
<1>4. request' \in [Conns -> Requests \cup {NoRequest}]
      /\ \A d \in Conns : d # c => request'[d] = request[d]
  BY <1>1 DEF IInv, TypeOK
<1>5. up' \in BOOLEAN /\ exists' \in BOOLEAN
  BY <1>1 DEF IInv, TypeOK
<1> QED
  BY <1>1, <1>2, <1>3, <1>4, <1>5, QuietStep

\* Before the lock and after the answer.
LEMMA EntryStep ==
  ASSUME IInv, NEW c \in Conns,
         \/ \E r \in Requests : Send(c, r)
         \/ RefusePlace(c) \/ FindOrMake(c) \/ Find(c) \/ Miss(c) \/ RLock(c) \/ Return(c)
  PROVE  IInv'
<1>1. /\ request \in [Conns -> Requests \cup {NoRequest}] /\ DOMAIN reply = Conns
      /\ up \in BOOLEAN /\ exists \in BOOLEAN /\ leaked \in BOOLEAN
      /\ request[c] \in Requests \cup {NoRequest}
  BY DEF IInv, TypeOK
<1> DEFINE Quiet(place) ==
             /\ pc[c] \notin {"drain", "insert"}
             /\ pc' = [pc EXCEPT ![c] = place]
             /\ request' \in [Conns -> Requests \cup {NoRequest}]
             /\ \A d \in Conns : d # c => request'[d] = request[d]
             /\ DOMAIN reply' = Conns
             /\ UNCHANGED <<Elements, Order, writer>>
             /\ up' \in BOOLEAN /\ exists' \in BOOLEAN /\ leaked' \in BOOLEAN
             /\ leaked' = leaked
<1>2. CASE \E r \in Requests : Send(c, r)
  <2>1. Quiet("called") /\ "called" \in Spots
    BY <1>1, <1>2 DEF Send, Goto, set, rwlock, Spots
  <2> QED
    BY <2>1, QuietStep
<1>3. CASE RefusePlace(c)
  <2>1. Quiet("reply") /\ "reply" \in Spots
    BY <1>1, <1>3 DEF RefusePlace, At, Answer, Goto, set, rwlock, Spots
  <2> QED
    BY <2>1, QuietStep
<1>4. CASE FindOrMake(c)
  <2>1. Quiet("lock") /\ "lock" \in Spots
    BY <1>1, <1>4 DEF FindOrMake, At, Goto, rwlock, Spots
  <2>2. /\ request'[c].cmd \in Writers
        /\ request'[c].cmd = "GEOADD" => OnMap(request'[c].place)
    BY <1>4 DEF FindOrMake, At, Writers
  <2> QED
    BY <2>1, <2>2, QuietStep
<1>5. CASE Find(c) /\ request[c].cmd = "ZREM"
  <2>1. Quiet("lock") /\ "lock" \in Spots
    BY <1>1, <1>5 DEF Find, Goto, set, rwlock, Spots
  <2>2. /\ request'[c].cmd \in Writers
        /\ request'[c].cmd = "GEOADD" => OnMap(request'[c].place)
    BY <1>5 DEF Find, Writers
  <2> QED
    BY <2>1, <2>2, QuietStep
<1>6. CASE Find(c) /\ request[c].cmd # "ZREM"
  <2>1. Quiet("rlock") /\ "rlock" \in Spots
    BY <1>1, <1>6 DEF Find, Goto, set, rwlock, Spots
  <2> QED
    BY <2>1, QuietStep
<1>7. CASE Miss(c)
  <2>1. Quiet("reply") /\ "reply" \in Spots
    BY <1>1, <1>7 DEF Miss, At, Answer, Goto, set, rwlock, Spots
  <2> QED
    BY <2>1, QuietStep
<1>8. CASE RLock(c) /\ writer = Free
  <2>1. Quiet("reading") /\ "reading" \in Spots
    BY <1>1, <1>8 DEF RLock, Goto, set, rwlock, Spots
  <2> QED
    BY <1>8, <2>1, QuietStep
<1>9. CASE RLock(c) /\ writer # Free
  <2>1. Quiet("rwait") /\ "rwait" \in Spots
    BY <1>1, <1>9 DEF RLock, Goto, set, rwlock, Spots
  <2> QED
    BY <2>1, QuietStep
<1>10. CASE Return(c)
  <2>1. Quiet("idle") /\ "idle" \in Spots
    BY <1>1, <1>10 DEF Return, Goto, set, rwlock, Spots
  <2> QED
    BY <2>1, QuietStep
<1> QED
  BY <1>2, <1>3, <1>4, <1>5, <1>6, <1>7, <1>8, <1>9, <1>10

\* A panic stops everything where it is.
LEMMA StandStill ==
  ASSUME IInv, up' \in BOOLEAN, UNCHANGED <<set, rwlock, pc, request, reply>>
  PROVE  IInv'
<1>1. TypeOK'
  BY DEF IInv, TypeOK, set, rwlock
<1>2. LockOK'
  BY DEF IInv, LockOK, rwlock
<1>3. SetOK'
  <2>1. Unsettled' = Unsettled
    BY DEF Unsettled
  <2> QED
    BY <2>1 DEF IInv, SetOK, Sorted, Holds, set
<1> QED
  BY <1>1, <1>2, <1>3 DEF IInv

\* The invariant holds at the start.
LEMMA InitIInv == Init => IInv
<1> SUFFICES ASSUME Init PROVE IInv
  OBVIOUS
<1>1. Order = <<>> /\ Elements = <<>> /\ Order \in Seq(ElementSet) /\ DOMAIN Order = {}
      /\ DOMAIN Elements = {}
  BY DEF Init
<1>2. TypeOK
  BY <1>1 DEF Init, TypeOK, Spots
<1>3. LockOK
  BY SortedSetsAssumption DEF Init, LockOK
<1>4. SetOK
  BY <1>1 DEF SetOK, Sorted, Holds
<1> QED
  BY <1>2, <1>3, <1>4 DEF IInv

\* Every step preserves the invariant.
LEMMA StepIInv == IInv /\ [Next]_vars => IInv'
<1> SUFFICES ASSUME IInv, [Next]_vars PROVE IInv'
  OBVIOUS
<1>1. ASSUME UNCHANGED vars PROVE IInv'
  BY <1>1, StandStill DEF vars, IInv, TypeOK
<1>2. ASSUME NEW c \in Conns, MissGeoDist(c) PROVE IInv'
  BY <1>2, StandStill DEF MissGeoDist, Panic
<1>3. ASSUME NEW c \in Conns, Handle(c) PROVE IInv'
  BY <1>2, <1>3, EntryStep, ReadStep, EraseStep, InsertStep, ZRemStep DEF Handle, Write
<1> QED
  BY <1>1, <1>3, EntryStep, LockStep DEF Next

-----------------------------------------------------------------------------
(* What follows of every behaviour. *)

\* The map, the slice and the lock keep their types (structures.go, SortedSet).
THEOREM TypeCorrect == Spec => []TypeOK
<1>1. IInv => TypeOK
  BY DEF IInv
<1> QED
  BY <1>1, InitIInv, StepIInv, PTL DEF Spec

\* The lock admits one writer or some readers, and the map and the slice agree unless
\* a ZADD is between its removal and its insertion.
THEOREM Invariance == Spec => []IInv
  BY InitIInv, StepIInv, PTL DEF Spec

\* A handler that reads never sees a set in the middle of AddToSortedSet, and
\* writers exclude each other.
THEOREM Exclusion == Spec => []WriterAlone
<1>1. IInv => WriterAlone
  BY DEF IInv, LockOK, WriterAlone
<1> QED
  BY <1>1, Invariance, PTL

\* The map and the slice never drift apart: same names, same scores, in order,
\* whatever is added, rescored and removed from any number of connections.
THEOREM MapAndSliceAgree == Spec => []OrderAgrees
<1>1. ASSUME IInv, \A c \in Conns : pc[c] # "insert"
      PROVE  /\ Sorted(Order)
             /\ {<<e.name, e.score>> : e \in Range(Order)}
                  = {<<m, Elements[m]>> : m \in DOMAIN Elements}
  <2>1. Unsettled = {}
    BY <1>1 DEF Unsettled
  <2>2. Sorted(Order) /\ Holds(Order, Elements, DOMAIN Elements)
    BY <1>1, <2>1 DEF IInv, SetOK
  <2>3. ASSUME NEW e \in Range(Order)
        PROVE  <<e.name, e.score>> \in {<<m, Elements[m]>> : m \in DOMAIN Elements}
    BY <2>2 DEF Holds, Range
  <2>4. ASSUME NEW m \in DOMAIN Elements
        PROVE  <<m, Elements[m]>> \in {<<e.name, e.score>> : e \in Range(Order)}
    BY <2>2 DEF Holds, Range
  <2> QED
    BY <2>2, <2>3, <2>4
<1>2. IInv => OrderAgrees
  BY <1>1 DEF OrderAgrees
<1> QED
  BY <1>2, Invariance, PTL

-----------------------------------------------------------------------------
(* Reading off the slice what the map counts.                              *)

\* The operators of the abstract map are those of this module.
LEMMA SameWords ==
  /\ Abstract!Requests = Requests /\ Abstract!NoRequest = NoRequest
  /\ Abstract!NoAnswer = NoAnswer /\ Abstract!Error = Error /\ Abstract!Nil = Nil
  /\ \A x : /\ Abstract!Number(x) = Number(x) /\ Abstract!Array(x) = Array(x)
            /\ Abstract!Cell(x) = Cell(x) /\ Abstract!Found(x) = Found(x)
  /\ \A r : Abstract!ScoreOf(r) = ScoreOf(r)
  /\ \A p : Abstract!OnMap(p) = OnMap(p)
<1>1. Abstract!Requests = Requests /\ Abstract!NoRequest = NoRequest
  BY DEF Abstract!Requests, Requests, Abstract!NoRequest, NoRequest
<1>2. Abstract!NoAnswer = NoAnswer /\ Abstract!Error = Error /\ Abstract!Nil = Nil
  BY DEF Abstract!NoAnswer, NoAnswer, Abstract!Error, Error, Abstract!Nil, Nil
<1>3. \A x : /\ Abstract!Number(x) = Number(x) /\ Abstract!Array(x) = Array(x)
             /\ Abstract!Cell(x) = Cell(x) /\ Abstract!Found(x) = Found(x)
  BY DEF Abstract!Number, Number, Abstract!Array, Array, Abstract!Cell, Cell,
         Abstract!Found, Found
<1>4. Abstract!spreadInt32ToInt64 = spreadInt32ToInt64
  BY DEF Abstract!spreadInt32ToInt64, spreadInt32ToInt64
<1>5. \A p : Abstract!Encode(p) = Encode(p)
  BY <1>4 DEF Abstract!Encode, Encode, Abstract!interleave, interleave
<1>6. \A r : Abstract!ScoreOf(r) = ScoreOf(r)
  BY <1>5 DEF Abstract!ScoreOf, ScoreOf
<1>7. \A p : Abstract!OnMap(p) = OnMap(p)
  <2>1. Abstract!Bit = Bit
    BY DEF Abstract!Bit, Bit
  <2> QED
    BY <2>1 DEF Abstract!OnMap, OnMap, Abstract!Positions, Positions
<1> QED
  BY <1>1, <1>2, <1>3, <1>6, <1>7

\* OrderedMap's copies of the shared operators are the operators themselves.
LEMMA SameSums ==
  /\ \A f, m, v : Abstract!Put(f, m, v) = Put(f, m, v)
  /\ \A f, S : Abstract!Restrict(f, S) = Restrict(f, S)
  /\ \A S : Abstract!Cardinality(S) = Cardinality(S)
  /\ \A S : Abstract!Min(S) = Min(S)
  /\ \A i, len : Abstract!FromEnd(i, len) = FromEnd(i, len)
  /\ \A x : Abstract!Decode(x) = Decode(x)
  /\ \A c, p, r : Abstract!Findable(c, p, r) = Findable(c, p, r)
<1>1. \A f, m, v : Abstract!Put(f, m, v) = Put(f, m, v)
  BY DEF Abstract!Put, Put
<1>2. \A f, S : Abstract!Restrict(f, S) = Restrict(f, S)
  BY DEF Abstract!Restrict, Restrict
<1>3. \A S : Abstract!Cardinality(S) = Cardinality(S)
  BY DEF Abstract!Cardinality, Cardinality
<1>4. \A S : Abstract!Min(S) = Min(S)
  BY DEF Abstract!Min, Min
<1>5. \A S : Abstract!Max(S) = Max(S)
  BY DEF Abstract!Max, Max
<1>6. \A i, len : Abstract!FromEnd(i, len) = FromEnd(i, len)
  BY <1>5 DEF Abstract!FromEnd, FromEnd
<1>7. Abstract!compactInt64ToInt32 = compactInt64ToInt32
  BY DEF Abstract!compactInt64ToInt32, compactInt64ToInt32
<1>8. \A x : Abstract!Decode(x) = Decode(x)
  BY <1>7 DEF Abstract!Decode, Decode
<1>9. \A p : Abstract!Mirror(p) = Mirror(p)
  BY DEF Abstract!Mirror, Mirror
<1>10. Abstract!Bit = Bit
  BY DEF Abstract!Bit, Bit
<1>11. \A c, r : Abstract!BoxDepth(c, r) = BoxDepth(c, r)
  BY <1>5 DEF Abstract!BoxDepth, BoxDepth
<1>12. \A c, p, r : Abstract!Beside(c, p, r) = Beside(c, p, r)
  BY <1>10, <1>11 DEF Abstract!Beside, Beside
<1>13. \A c, p, r : Abstract!Findable(c, p, r) = Findable(c, p, r)
  BY <1>9, <1>12 DEF Abstract!Findable, Findable
<1> QED
  BY <1>1, <1>2, <1>3, <1>4, <1>6, <1>8, <1>13

\* Nothing that is answered looks like no answer.
LEMMA Answered ==
  /\ Error # NoAnswer /\ Nil # NoAnswer
  /\ \A x : Number(x) # NoAnswer /\ Array(x) # NoAnswer /\ Cell(x) # NoAnswer
            /\ Found(x) # NoAnswer
<1>1. DOMAIN NoAnswer = {"none"} /\ DOMAIN Error = {"error"} /\ DOMAIN Nil = {"nil"}
  BY DEF NoAnswer, Error, Nil
<1>2. \A x : /\ DOMAIN Number(x) = {"number"} /\ DOMAIN Array(x) = {"array"}
             /\ DOMAIN Cell(x) = {"cell"} /\ DOMAIN Found(x) = {"found"}
  BY DEF Number, Array, Cell, Found
<1>3. "none" \notin {"error", "nil", "number", "array", "cell", "found"}
  OBVIOUS
<1> QED
  BY <1>1, <1>2, <1>3

\* The smaller of two numbers.
LEMMA LeastOfTwo ==
  ASSUME NEW a \in Int, NEW b \in Int
  PROVE  Min({a, b}) \in {a, b} /\ Min({a, b}) <= a /\ Min({a, b}) <= b
<1>1. \E x \in {a, b} : \A y \in {a, b} : x <= y
  OBVIOUS
<1>2. Min({a, b}) = CHOOSE x \in {a, b} : \A y \in {a, b} : x <= y
  BY DEF Min
<1>3. Min({a, b}) \in {a, b} /\ \A y \in {a, b} : Min({a, b}) <= y
  BY <1>1, <1>2
<1> QED
  BY <1>3

\* The greater of two numbers.
LEMMA GreatestOfTwo ==
  ASSUME NEW a \in Int, NEW b \in Int
  PROVE  Max({a, b}) \in {a, b} /\ Max({a, b}) >= a /\ Max({a, b}) >= b
<1>1. \E x \in {a, b} : \A y \in {a, b} : x >= y
  OBVIOUS
<1>2. Max({a, b}) = CHOOSE x \in {a, b} : \A y \in {a, b} : x >= y
  BY DEF Max
<1>3. Max({a, b}) \in {a, b} /\ \A y \in {a, b} : Max({a, b}) >= y
  BY <1>1, <1>2
<1> QED
  BY <1>3

\* The slice and the map agree, nobody being in between.
Whole ==
  Order \in Seq(ElementSet) /\ Sorted(Order) /\ Holds(Order, Elements, DOMAIN Elements)

\* In a settled set the slice lists each name of the map once, with its score.
LEMMA WholeFacts ==
  ASSUME Whole
  PROVE  /\ Len(Order) \in Nat /\ DOMAIN Order = 1 .. Len(Order)
         /\ \A i \in 1 .. Len(Order) :
              /\ Order[i].name \in Int /\ Order[i].score \in Int
              /\ Order[i].name \in DOMAIN Elements
              /\ Elements[Order[i].name] = Order[i].score
         /\ \A m \in DOMAIN Elements : \E i \in 1 .. Len(Order) : Order[i].name = m
         /\ \A i, j \in 1 .. Len(Order) : Order[i].name = Order[j].name => i = j
         /\ \A i, j \in 1 .. Len(Order) : i < j =>
              Order[i].score < Order[j].score
              \/ (Order[i].score = Order[j].score /\ Order[i].name < Order[j].name)
<1>1. /\ Len(Order) \in Nat /\ DOMAIN Order = 1 .. Len(Order)
      /\ \A i \in 1 .. Len(Order) : Order[i].name \in Int /\ Order[i].score \in Int
  BY OrderType DEF Whole
<1>2. \A i, j \in DOMAIN Order : Order[i].name = Order[j].name => i = j
  BY NamesOnce DEF Whole
<1> QED
  BY <1>1, <1>2 DEF Whole, Holds, Sorted

\* The map has as many members as the slice.
LEMMA SizeIsLength ==
  ASSUME Whole
  PROVE  Cardinality(DOMAIN Elements) = Len(Order)
<1> DEFINE f == [i \in 1 .. Len(Order) |-> Order[i].name]
<1>1. f \in Bijection(1 .. Len(Order), DOMAIN Elements)
  <2>1. f \in [1 .. Len(Order) -> DOMAIN Elements]
    BY WholeFacts
  <2>2. \A i, j \in 1 .. Len(Order) : f[i] = f[j] => i = j
    BY WholeFacts
  <2>3. \A m \in DOMAIN Elements : \E i \in 1 .. Len(Order) : f[i] = m
    BY WholeFacts
  <2> HIDE DEF f
  <2> QED
    BY <2>1, <2>2, <2>3 DEF Bijection, Injection, Surjection, IsInjective
<1>2. ExistsBijection(1 .. Len(Order), DOMAIN Elements)
  BY <1>1 DEF ExistsBijection
<1>3. Len(Order) \in Nat
  BY WholeFacts
<1> QED
  BY <1>2, <1>3, FS_CountingElements

\* A member's place in the slice, counted from 0, is the number of members that come
\* before it in the map.
LEMMA RankIsPlace ==
  ASSUME Whole, NEW p \in 1 .. Len(Order)
  PROVE  Abstract!Rank(Order[p].name) = p - 1
<1> DEFINE m == Order[p].name
           S == {n \in DOMAIN Elements : Abstract!Before(n, m)}
           f == [i \in 1 .. p - 1 |-> Order[i].name]
<1>1. Len(Order) \in Nat /\ p \in Int /\ p - 1 \in Nat /\ p <= Len(Order)
  BY WholeFacts
<1>2. \A i \in 1 .. p - 1 : i \in 1 .. Len(Order) /\ i < p
  BY <1>1
<1>3. \A i \in 1 .. Len(Order) : Abstract!Before(Order[i].name, m) <=> i < p
  <2> SUFFICES ASSUME NEW i \in 1 .. Len(Order)
               PROVE  Abstract!Before(Order[i].name, m) <=> i < p
    OBVIOUS
  <2>1. /\ Elements[Order[i].name] = Order[i].score /\ Elements[m] = Order[p].score
        /\ Order[i].score \in Int /\ Order[p].score \in Int
        /\ Order[i].name \in Int /\ m \in Int /\ i \in Int
    BY WholeFacts
  <2>2. Abstract!Before(Order[i].name, m) <=>
          Order[i].score < Order[p].score \/ (Order[i].score = Order[p].score /\ Order[i].name < m)
    BY <2>1 DEF Abstract!Before
  <2>3. CASE i < p
    BY <2>2, <2>3, WholeFacts
  <2>4. CASE i = p
    BY <2>1, <2>2, <2>4
  <2>5. CASE p < i
    <3>1. Order[p].score < Order[i].score
          \/ (Order[p].score = Order[i].score /\ m < Order[i].name)
      BY <2>5, WholeFacts
    <3> QED
      BY <1>1, <2>1, <2>2, <2>5, <3>1
  <2> QED
    BY <1>1, <2>1, <2>3, <2>4, <2>5
<1>4. f \in Bijection(1 .. p - 1, S)
  <2>1. f \in [1 .. p - 1 -> S]
    BY <1>2, <1>3, WholeFacts
  <2>2. \A i, j \in 1 .. p - 1 : f[i] = f[j] => i = j
    BY <1>2, WholeFacts
  <2>3. ASSUME NEW n \in S PROVE \E i \in 1 .. p - 1 : f[i] = n
    <3>1. PICK i \in 1 .. Len(Order) : Order[i].name = n
      BY WholeFacts
    <3>2. i < p
      BY <1>3, <3>1
    <3>3. i \in 1 .. p - 1
      BY <1>1, <3>2
    <3> QED
      BY <3>1, <3>3
  <2> HIDE DEF f, S
  <2> QED
    BY <2>1, <2>2, <2>3 DEF Bijection, Injection, Surjection, IsInjective
<1>5. ExistsBijection(1 .. p - 1, S)
  BY <1>4 DEF ExistsBijection
<1> HIDE DEF S, f
<1>6. Cardinality(S) = p - 1
  BY <1>1, <1>5, FS_CountingElements
<1> QED
  BY <1>6, SameSums DEF Abstract!Rank, S

\* The slice from first to last is the members of those ranks.
LEMMA SliceIsNames ==
  ASSUME Whole, NEW from \in Int, NEW to \in Int
  PROVE  LET first == FromEnd(from, Len(Order))
             last == Min({FromEnd(to, Len(Order)), Len(Order) - 1})
         IN  /\ first \in Nat /\ last \in Int /\ last <= Len(Order) - 1
             /\ Abstract!Slice(from, to) =
                  [k \in 1 .. last - first + 1 |-> Order[first + k].name]
<1> DEFINE len == Len(Order)
           first == FromEnd(from, len)
           last == Min({FromEnd(to, len), len - 1})
<1>1. len \in Nat
  BY WholeFacts
<1>2. ASSUME NEW i \in Int PROVE FromEnd(i, len) \in Nat
  <2>1. CASE i < 0
    <3>1. 0 \in Int /\ len + i \in Int
      BY <1>1
    <3>2. Max({0, len + i}) \in {0, len + i} /\ Max({0, len + i}) >= 0
      BY <3>1, GreatestOfTwo
    <3> QED
      BY <1>1, <2>1, <3>2 DEF FromEnd
  <2>2. CASE ~(i < 0)
    BY <2>2 DEF FromEnd
  <2> QED
    BY <2>1, <2>2
<1>3. first \in Nat /\ FromEnd(to, len) \in Int /\ len - 1 \in Int
  BY <1>1, <1>2
<1>4. last \in Int /\ last <= len - 1
  <2>1. last \in {FromEnd(to, len), len - 1} /\ last <= len - 1
    BY <1>3, LeastOfTwo
  <2> QED
    BY <1>3, <2>1
<1>5. Abstract!Size = len
  BY SizeIsLength, SameSums DEF Abstract!Size
<1>6. Abstract!Slice(from, to) =
        [k \in 1 .. last - first + 1 |->
           CHOOSE m \in DOMAIN Elements : Abstract!Rank(m) = first + k - 1]
  <2>1. Abstract!FromEnd(from, Abstract!Size) = first
    BY <1>5, SameSums
  <2>2. Abstract!Min({Abstract!FromEnd(to, Abstract!Size), Abstract!Size - 1}) = last
    BY <1>5, SameSums
  <2> HIDE DEF first, last
  <2> QED
    BY <2>1, <2>2 DEF Abstract!Slice
<1> HIDE DEF first, last, len
<1>7. ASSUME NEW k \in 1 .. last - first + 1
      PROVE  (CHOOSE m \in DOMAIN Elements : Abstract!Rank(m) = first + k - 1)
               = Order[first + k].name
  <2>1. first + k \in 1 .. len /\ first + k \in Int /\ (first + k) - 1 = first + k - 1
    BY <1>1, <1>3, <1>4
  <2>2. /\ Order[first + k].name \in DOMAIN Elements
        /\ Abstract!Rank(Order[first + k].name) = (first + k) - 1
    BY <2>1, WholeFacts, RankIsPlace DEF len
  <2>3. ASSUME NEW m \in DOMAIN Elements, Abstract!Rank(m) = first + k - 1
        PROVE  m = Order[first + k].name
    <3>1. PICK q \in 1 .. len : Order[q].name = m
      BY WholeFacts DEF len
    <3>2. Abstract!Rank(m) = q - 1
      BY <3>1, RankIsPlace DEF len
    <3>3. q = first + k
      BY <1>1, <2>1, <2>3, <3>2
    <3> QED
      BY <3>1, <3>3
  <2> QED
    BY <2>1, <2>2, <2>3
<1>8. Abstract!Slice(from, to) = [k \in 1 .. last - first + 1 |-> Order[first + k].name]
  BY <1>6, <1>7
<1> QED
  BY <1>3, <1>4, <1>8 DEF first, last, len

\* What GEOSEARCH finds along the slice is what the map counts.
LEMMA MatchesInCircle ==
  ASSUME Whole, NEW center \in Positions, NEW radius
  PROVE  GeoMatches(Order, center, radius) = Abstract!InCircle(center, radius)
<1>1. Order \in Seq([name : Members, score : Nat])
  BY DEF Whole, ElementSet
<1>2. Ascending(Order)
  <2> SUFFICES ASSUME NEW j \in 1 .. Len(Order), NEW k \in 1 .. Len(Order), j <= k
               PROVE  Order[j].score <= Order[k].score
    BY DEF Ascending
  <2>1. Order[j].score \in Int /\ Order[k].score \in Int /\ Len(Order) \in Nat
    BY WholeFacts
  <2>2. CASE j = k
    BY <2>1, <2>2
  <2>3. CASE j < k
    <3>1. Order[j].score < Order[k].score \/ Order[j].score = Order[k].score
      BY <2>3, WholeFacts
    <3> QED
      BY <2>1, <3>1
  <2> QED
    BY <2>1, <2>2, <2>3
<1>3. \A m : m \in GeoMatches(Order, center, radius) <=>
               \E i \in 1 .. Len(Order) :
                 Order[i].name = m /\ Findable(center, Decode(Order[i].score), radius)
  BY <1>1, <1>2, SearchFinds
<1>4. Abstract!InCircle(center, radius)
        = {m \in DOMAIN Elements : Findable(center, Decode(Elements[m]), radius)}
  BY SameSums DEF Abstract!InCircle
<1>5. ASSUME NEW i \in 1 .. Len(Order), Findable(center, Decode(Order[i].score), radius)
      PROVE  /\ Order[i].name \in DOMAIN Elements
             /\ Findable(center, Decode(Elements[Order[i].name]), radius)
  BY <1>5, WholeFacts
<1>6. ASSUME NEW m \in DOMAIN Elements, Findable(center, Decode(Elements[m]), radius)
      PROVE  \E i \in 1 .. Len(Order) :
               Findable(center, Decode(Order[i].score), radius) /\ Order[i].name = m
  <2>1. PICK i \in 1 .. Len(Order) : Order[i].name = m
    BY WholeFacts
  <2>2. Order[i].score = Elements[m]
    BY <2>1, WholeFacts
  <2> QED
    BY <1>6, <2>1, <2>2
<1> QED
  BY <1>3, <1>4, <1>5, <1>6

-----------------------------------------------------------------------------
(* Where a request stands.  It is pending until the step that determines its *)
(* answer, and the answer is there until it is written; without a set in the *)
(* registry nobody gets as far as its lock.                                *)

StageOK ==
  /\ \A c \in Conns : /\ request[c] = NoRequest <=> pc[c] \in {"idle", "reply"}
                      /\ reply[c] # NoAnswer <=> pc[c] = "reply"
  /\ ~exists => Elements = <<>> /\ \A c \in Conns : pc[c] \in {"idle", "called", "reply"}

\* A step before the answer is fixed keeps the stages of all requests.
LEMMA StageMove ==
  ASSUME StageOK, NEW c \in Conns,
         \A d \in Conns : d # c =>
           /\ request'[d] = request[d] /\ reply'[d] = reply[d]
           /\ pc'[d] = pc[d] \/ (pc[d] = "rwait" /\ pc'[d] = "reading"),
         request'[c] = NoRequest <=> pc'[c] \in {"idle", "reply"},
         reply'[c] # NoAnswer <=> pc'[c] = "reply",
         exists => exists',
         ~exists' => UNCHANGED Elements /\ pc'[c] \in {"idle", "called", "reply"}
  PROVE  StageOK'
<1>1. ASSUME NEW d \in Conns
      PROVE  /\ request'[d] = NoRequest <=> pc'[d] \in {"idle", "reply"}
             /\ reply'[d] # NoAnswer <=> pc'[d] = "reply"
  <2>1. CASE d = c
    BY <2>1
  <2>2. CASE d # c
    BY <2>2 DEF StageOK
  <2> QED
    BY <2>1, <2>2
<1>2. ASSUME ~exists'
      PROVE  Elements' = <<>> /\ \A d \in Conns : pc'[d] \in {"idle", "called", "reply"}
  <2>1. ~exists
    BY <1>2
  <2>2. ASSUME NEW d \in Conns PROVE pc'[d] \in {"idle", "called", "reply"}
    <3>1. CASE d = c
      BY <1>2, <3>1
    <3>2. CASE d # c
      BY <2>1, <3>2 DEF StageOK
    <3> QED
      BY <3>1, <3>2
  <2> QED
    BY <1>2, <2>1, <2>2 DEF StageOK
<1> QED
  BY <1>1, <1>2 DEF StageOK

\* A step that determines the answer of c.
Answering(c, a) ==
  /\ pc' = [pc EXCEPT ![c] = "reply"]
  /\ request' = [request EXCEPT ![c] = NoRequest]
  /\ reply' = [reply EXCEPT ![c] = a]

\* So does the step that fixes an answer,
LEMMA StageAnswer ==
  ASSUME TypeOK, StageOK, NEW c \in Conns, NEW a, a # NoAnswer, Answering(c, a),
         exists' = exists, ~exists => UNCHANGED Elements
  PROVE  StageOK'
<1>1. pc \in [Conns -> Spots] /\ request \in [Conns -> Requests \cup {NoRequest}]
      /\ DOMAIN reply = Conns
  BY DEF TypeOK
<1>2. /\ pc'[c] = "reply" /\ request'[c] = NoRequest /\ reply'[c] = a
      /\ \A d \in Conns : d # c => /\ pc'[d] = pc[d] /\ request'[d] = request[d]
                                   /\ reply'[d] = reply[d]
  BY <1>1 DEF Answering
<1> QED
  BY <1>2, StageMove, Zenon

-----------------------------------------------------------------------------
(* The steps that determine an answer are the moments at which the command    *)
(* takes effect on the map.                                                *)

\* What the map answers, in the terms of this module.
LEMMA Looks ==
  ASSUME NEW c \in DOMAIN reply, UNCHANGED Elements, NEW a, reply' = [reply EXCEPT ![c] = a],
         \/ request[c].cmd = "GEOADD" /\ ~OnMap(request[c].place) /\ a = Error
         \/ /\ request[c].cmd \in {"ZRANK", "ZSCORE", "GEOPOS"}
            /\ request[c].member \notin DOMAIN Elements /\ a = Nil
         \/ /\ request[c].cmd = "ZRANK" /\ request[c].member \in DOMAIN Elements
            /\ a = Number(Abstract!Rank(request[c].member))
         \/ /\ request[c].cmd = "ZSCORE" /\ request[c].member \in DOMAIN Elements
            /\ a = Number(Elements[request[c].member])
         \/ /\ request[c].cmd = "GEOPOS" /\ request[c].member \in DOMAIN Elements
            /\ a = Cell(Decode(Elements[request[c].member]))
         \/ /\ request[c].cmd = "ZRANGE"
            /\ a = Array(Abstract!Slice(request[c].from, request[c].to))
         \/ request[c].cmd = "ZCARD" /\ a = Number(Cardinality(DOMAIN Elements))
         \/ /\ request[c].cmd = "GEOSEARCH"
            /\ a = Found(Abstract!InCircle(request[c].center, request[c].radius))
  PROVE  Abstract!Look(c)
<1>1. \A x : x = a => Abstract!Answers(c, x)
  BY DEF Abstract!Answers
<1> DEFINE r == request[c]
<1> HIDE DEF r
<1>2. CASE r.cmd = "GEOADD" /\ ~OnMap(r.place) /\ a = Error
  BY <1>1, <1>2, SameWords DEF Abstract!Look, r
<1>3. CASE /\ r.cmd \in {"ZRANK", "ZSCORE", "GEOPOS"}
           /\ r.member \notin DOMAIN Elements /\ a = Nil
  BY <1>1, <1>3, SameWords DEF Abstract!Look, r
<1>4. CASE /\ r.cmd = "ZRANK" /\ r.member \in DOMAIN Elements
           /\ a = Number(Abstract!Rank(r.member))
  BY <1>1, <1>4, SameWords DEF Abstract!Look, r
<1>5. CASE /\ r.cmd = "ZSCORE" /\ r.member \in DOMAIN Elements
           /\ a = Number(Elements[r.member])
  BY <1>1, <1>5, SameWords DEF Abstract!Look, r
<1>6. CASE /\ r.cmd = "GEOPOS" /\ r.member \in DOMAIN Elements
           /\ a = Cell(Decode(Elements[r.member]))
  BY <1>1, <1>6, SameWords, SameSums DEF Abstract!Look, r
<1>7. CASE r.cmd = "ZRANGE" /\ a = Array(Abstract!Slice(r.from, r.to))
  BY <1>1, <1>7, SameWords DEF Abstract!Look, r
<1>8. CASE r.cmd = "ZCARD" /\ a = Number(Cardinality(DOMAIN Elements))
  <2>1. Abstract!Number(Abstract!Size) = a
    BY <1>8, SameWords, SameSums DEF Abstract!Size
  <2> QED
    BY <1>1, <1>8, <2>1 DEF Abstract!Look, r
<1>9. CASE r.cmd = "GEOSEARCH" /\ a = Found(Abstract!InCircle(r.center, r.radius))
  BY <1>1, <1>9, SameWords DEF Abstract!Look, r
<1> QED
  BY <1>2, <1>3, <1>4, <1>5, <1>6, <1>7, <1>8, <1>9 DEF r

\* A distance: the map promises it for members that are both there.
LEMMA LooksAtDistance ==
  ASSUME NEW c \in DOMAIN reply, UNCHANGED Elements, request[c].cmd = "GEODIST",
         reply' = [reply EXCEPT ![c] =
           Number(Distance(Decode(ScoreOrZero(request[c].member)),
                        Decode(ScoreOrZero(request[c].other))))]
  PROVE  Abstract!Look(c)
<1> DEFINE r == request[c]
           d == Distance(Decode(ScoreOrZero(r.member)), Decode(ScoreOrZero(r.other)))
<1>1. reply'[c] = Number(d) /\ reply' = [reply EXCEPT ![c] = Number(d)]
  OBVIOUS
<1>2. {r.member, r.other} \subseteq DOMAIN Elements =>
        d = Distance(Decode(Elements[r.member]), Decode(Elements[r.other]))
  BY DEF ScoreOrZero
<1> HIDE DEF d
<1>3. DOMAIN reply'[c] = {"number"} /\ reply'[c].number = d
  BY <1>1 DEF Number
<1>4. Abstract!Answers(c, Abstract!Number(reply'[c].number))
  BY <1>1, <1>3, SameWords DEF Abstract!Answers
<1>5. {r.member, r.other} \subseteq DOMAIN Elements =>
        reply'[c] = Abstract!Number(Distance(Abstract!Decode(Elements[r.member]),
                                                   Abstract!Decode(Elements[r.other])))
  BY <1>1, <1>2, SameWords, SameSums
<1> QED
  BY <1>3, <1>4, <1>5 DEF Abstract!Look

\* The two commands that change the map.
LEMMA Changes ==
  ASSUME NEW c \in Conns, NEW a, reply' = [reply EXCEPT ![c] = a],
         \/ /\ request[c].cmd \in {"ZADD", "GEOADD"}
            /\ request[c].cmd = "GEOADD" => OnMap(request[c].place)
            /\ Elements' = Put(Elements, request[c].member, ScoreOf(request[c]))
            /\ a = Number(IF request[c].member \in DOMAIN Elements THEN 0 ELSE 1)
         \/ /\ request[c].cmd = "ZREM"
            /\ Elements' = Restrict(Elements, DOMAIN Elements \ {request[c].member})
            /\ a = Number(IF request[c].member \in DOMAIN Elements THEN 1 ELSE 0)
  PROVE  Abstract!Change(c)
<1>1. \A x : x = a => Abstract!Answers(c, x)
  BY DEF Abstract!Answers
<1>2. CASE /\ request[c].cmd \in {"ZADD", "GEOADD"}
           /\ request[c].cmd = "GEOADD" => OnMap(request[c].place)
           /\ Elements' = Put(Elements, request[c].member, ScoreOf(request[c]))
           /\ a = Number(IF request[c].member \in DOMAIN Elements THEN 0 ELSE 1)
  BY <1>1, <1>2, SameWords, SameSums DEF Abstract!Change
<1>3. CASE /\ request[c].cmd = "ZREM"
           /\ Elements' = Restrict(Elements, DOMAIN Elements \ {request[c].member})
           /\ a = Number(IF request[c].member \in DOMAIN Elements THEN 1 ELSE 0)
  BY <1>1, <1>3, SameWords, SameSums DEF Abstract!Change
<1> QED
  BY <1>2, <1>3

\* and the one that also unlocks the set and lets waiting readers in.
LEMMA UnlockStage ==
  ASSUME TypeOK, StageOK, NEW c \in Conns, NEW a, a # NoAnswer,
         pc[c] \in {"drain", "insert"}, UnlockAnswer(c, a), exists
  PROVE  StageOK'
<1>1. /\ pc' = [d \in Conns |-> CASE d = c           -> "reply"
                                  [] pc[d] = "rwait" -> "reading"
                                  [] OTHER           -> pc[d]]
      /\ request' = [request EXCEPT ![c] = NoRequest] /\ reply' = [reply EXCEPT ![c] = a]
      /\ exists' /\ DOMAIN reply = Conns /\ request \in [Conns -> Requests \cup {NoRequest}]
  BY DEF TypeOK, UnlockAnswer, Answer
<1>2. pc'[c] = "reply" /\ request'[c] = NoRequest /\ reply'[c] = a
  <2>1. pc'[c] = "reply"
    BY <1>1
  <2>2. request'[c] = NoRequest /\ reply'[c] = a
    BY <1>1
  <2> QED
    BY <2>1, <2>2
<1>3. \A d \in Conns : d # c =>
        /\ request'[d] = request[d] /\ reply'[d] = reply[d]
        /\ pc'[d] = pc[d] \/ (pc[d] = "rwait" /\ pc'[d] = "reading")
  BY <1>1
<1> QED
  BY <1>1, <1>2, <1>3, StageMove

\* Either way the request of c takes effect.
LEMMA TakesEffect ==
  ASSUME StageOK, NEW c \in Conns, up, up' = up, pc[c] \notin {"idle", "reply"},
         request' = [request EXCEPT ![c] = NoRequest],
         Abstract!Look(c) \/ Abstract!Change(c)
  PROVE  Abstract!MapNext
<1>1. request[c] # NoRequest
  BY DEF StageOK
<1>2. Abstract!TakeEffect(c)
  BY <1>1, SameWords DEF Abstract!TakeEffect
<1> QED
  BY <1>2 DEF Abstract!MapNext

\* A handler that fixes the map's own answer is one step of the map.
LEMMA AnsweringStep ==
  ASSUME IInv, StageOK, NEW c \in Conns, NEW a, a # NoAnswer, Answering(c, a),
         up, UNCHANGED <<up, exists, Elements>>, pc[c] \notin {"idle", "reply"},
         Abstract!Look(c)
  PROVE  StageOK' /\ Abstract!MapNext
<1>1. StageOK'
  BY StageAnswer DEF IInv
<1>2. request' = [request EXCEPT ![c] = NoRequest]
  BY DEF Answering
<1> QED
  BY <1>1, <1>2, TakesEffect

\* Whoever reads, reads a settled set.
LEMMA WholeWhenReading ==
  ASSUME IInv, NEW c \in Conns, pc[c] = "reading"
  PROVE  Whole
<1>1. \A d \in Conns : pc[d] # "insert"
  BY DEF IInv, LockOK
<1>2. Unsettled = {}
  BY <1>1 DEF Unsettled
<1> QED
  BY <1>2 DEF IInv, TypeOK, SetOK, Whole

\* What a reading handler answers is what the map answers at that moment.
LEMMA ReadRefines ==
  ASSUME IInv, StageOK, NEW c \in Conns, Read(c)
  PROVE  StageOK' /\ Abstract!MapNext
<1> DEFINE r == request[c]
           Done == StageOK' /\ Abstract!MapNext
<1>1. /\ pc[c] = "reading" /\ up /\ c \in DOMAIN reply
      /\ r \in Requests \cup {NoRequest}
      /\ Whole
  <2>1. pc[c] = "reading" /\ up
    BY DEF Read, ZRank, ZRange, ZCard, ZScore, GeoPos, GeoDist, GeoSearch, At
  <2> QED
    BY <2>1, WholeWhenReading DEF IInv, TypeOK
<1>2. ASSUME NEW a, ReadAnswer(c, a) \/ LeakAnswer(c, a)
      PROVE  /\ Answering(c, a) /\ UNCHANGED <<up, exists, Elements>>
             /\ reply' = [reply EXCEPT ![c] = a] /\ UNCHANGED Elements
  BY <1>2 DEF ReadAnswer, LeakAnswer, Answer, Answering, Goto, set
<1>3. ASSUME NEW a, a # NoAnswer, ReadAnswer(c, a) \/ LeakAnswer(c, a), Abstract!Look(c)
      PROVE  Done
  BY <1>1, <1>2, <1>3, AnsweringStep
<1> HIDE DEF Done
<1>4. ASSUME ZRank(c) PROVE Done
  <2>1. r.cmd = "ZRANK"
    BY <1>4 DEF ZRank, At
  <2>2. CASE r.member \in DOMAIN Elements
    <3>1. PlaceOf(r.member) \in 1 .. Len(Order) /\ Order[PlaceOf(r.member)].name = r.member
      BY <1>1, <2>2, PlaceFound DEF Whole
    <3>2. Abstract!Rank(r.member) = PlaceOf(r.member) - 1
      BY <1>1, <3>1, RankIsPlace
    <3>3. Len(Order) \in Nat
      BY <1>1, WholeFacts
    <3>4. PlaceOf(r.member) <= Len(Order)
      BY <3>1, <3>3
    <3>5. LeakAnswer(c, Number(PlaceOf(r.member) - 1))
      BY <1>4, <2>2, <3>4 DEF ZRank
    <3>6. LeakAnswer(c, Number(Abstract!Rank(r.member)))
      BY <3>2, <3>5
    <3>7. Abstract!Look(c)
      BY <1>1, <1>2, <2>1, <2>2, <3>6, Looks
    <3> QED
      BY <1>3, <3>6, <3>7, Answered
  <2>3. CASE r.member \notin DOMAIN Elements
    <3>1. LeakAnswer(c, Nil)
      BY <1>4, <2>3 DEF ZRank
    <3>2. Abstract!Look(c)
      BY <1>1, <1>2, <2>1, <2>3, <3>1, Looks
    <3> QED
      BY <1>3, <3>1, <3>2, Answered
  <2> QED
    BY <2>2, <2>3
<1>5. ASSUME ZRange(c) PROVE Done
  <2>1. r.cmd = "ZRANGE"
    BY <1>5 DEF ZRange, At
  <2>2. r.from \in Int /\ r.to \in Int
    <3>1. Indices \subseteq Int
      BY ZSetAssumption
    <3> QED
      BY <1>1, <2>1, <3>1, RequestShape
  <2> DEFINE first == FromEnd(r.from, Len(Order))
             last == Min({FromEnd(r.to, Len(Order)), Len(Order) - 1})
  <2>3. /\ first \in Nat /\ last \in Int /\ last <= Len(Order) - 1
        /\ Abstract!Slice(r.from, r.to) = [k \in 1 .. last - first + 1 |-> Order[first + k].name]
    BY <1>1, <2>2, SliceIsNames
  <2>4. RangeOf(r.from, r.to) = [first |-> first, last |-> last]
    BY <1>1, SizeIsLength DEF RangeOf
  <2>5. RangeOf(r.from, r.to).first = first /\ RangeOf(r.from, r.to).last = last
    BY <2>4
  <2> HIDE DEF first, last
  <2>6. \/ first > last /\ LeakAnswer(c, Array(<<>>))
        \/ ReadAnswer(c, Array([k \in 1 .. last - first + 1 |-> Order[first + k].name]))
    BY <1>5, <2>5 DEF ZRange
  <2>7. first > last => Abstract!Slice(r.from, r.to) = <<>>
    <3> SUFFICES ASSUME first > last PROVE Abstract!Slice(r.from, r.to) = <<>>
      OBVIOUS
    <3>1. 1 .. last - first + 1 = {}
      BY <2>3
    <3> QED
      BY <2>3, <3>1
  <2>8. LeakAnswer(c, Array(Abstract!Slice(r.from, r.to)))
        \/ ReadAnswer(c, Array(Abstract!Slice(r.from, r.to)))
    BY <2>3, <2>6, <2>7
  <2>9. Abstract!Look(c)
    BY <1>1, <1>2, <2>1, <2>8, Looks
  <2> QED
    BY <1>3, <2>8, <2>9, Answered
<1>6. ASSUME ZCard(c) PROVE Done
  <2>1. r.cmd = "ZCARD" /\ ReadAnswer(c, Number(Cardinality(DOMAIN Elements)))
    BY <1>6 DEF ZCard, At
  <2>2. Abstract!Look(c)
    BY <1>1, <1>2, <2>1, Looks
  <2> QED
    BY <1>3, <2>1, <2>2, Answered
<1>7. ASSUME ZScore(c) PROVE Done
  <2>1. /\ r.cmd = "ZSCORE"
        /\ \/ r.member \in DOMAIN Elements /\ ReadAnswer(c, Number(Elements[r.member]))
           \/ r.member \notin DOMAIN Elements /\ LeakAnswer(c, Nil)
    BY <1>7 DEF ZScore, At
  <2>2. Abstract!Look(c)
    BY <1>1, <1>2, <2>1, Looks
  <2> QED
    BY <1>3, <2>1, <2>2, Answered
<1>8. ASSUME GeoPos(c) PROVE Done
  <2>1. /\ r.cmd = "GEOPOS"
        /\ \/ r.member \in DOMAIN Elements /\ ReadAnswer(c, Cell(Decode(Elements[r.member])))
           \/ r.member \notin DOMAIN Elements /\ ReadAnswer(c, Nil)
    BY <1>8 DEF GeoPos, At
  <2>2. Abstract!Look(c)
    BY <1>1, <1>2, <2>1, Looks
  <2> QED
    BY <1>3, <2>1, <2>2, Answered
<1>9. ASSUME GeoDist(c) PROVE Done
  <2>1. /\ r.cmd = "GEODIST"
        /\ ReadAnswer(c, Number(Distance(Decode(ScoreOrZero(r.member)),
                                      Decode(ScoreOrZero(r.other)))))
    BY <1>9 DEF GeoDist, At
  <2>2. Abstract!Look(c)
    BY <1>1, <1>2, <2>1, LooksAtDistance
  <2> QED
    BY <1>3, <2>1, <2>2, Answered
<1>10. ASSUME GeoSearch(c) PROVE Done
  <2>1. r.cmd = "GEOSEARCH" /\ ReadAnswer(c, Found(GeoMatches(Order, r.center, r.radius)))
    BY <1>10 DEF GeoSearch, At
  <2>2. r.center \in Positions
    <3>1. Centers \subseteq Positions
      BY ZSetAssumption
    <3> QED
      BY <1>1, <2>1, <3>1, RequestShape
  <2>3. GeoMatches(Order, r.center, r.radius) = Abstract!InCircle(r.center, r.radius)
    BY <1>1, <2>2, MatchesInCircle
  <2>4. Abstract!Look(c)
    BY <1>1, <1>2, <2>1, <2>3, Looks
  <2> QED
    BY <1>3, <2>1, <2>4, Answered
<1>11. Done
  BY <1>4, <1>5, <1>6, <1>7, <1>8, <1>9, <1>10 DEF Read
<1> QED
  BY <1>11 DEF Done

\* Without a set the answer is that of an empty map.
LEMMA MissRefines ==
  ASSUME IInv, StageOK, NEW c \in Conns, Miss(c)
  PROVE  StageOK' /\ Abstract!MapNext
<1> DEFINE r == request[c]
<1>1. /\ up /\ pc[c] = "called" /\ c \in DOMAIN reply /\ ~exists
      /\ r \in Requests \cup {NoRequest} /\ Elements = <<>>
      /\ UNCHANGED <<up, exists, Elements, Order>> /\ UNCHANGED Elements
  BY DEF IInv, TypeOK, StageOK, Miss, At, set
<1>2. DOMAIN Elements = {}
  BY <1>1
<1>3. Whole
  <2>1. \A d \in Conns : pc[d] # "insert"
    BY <1>1 DEF StageOK
  <2>2. Unsettled = {}
    BY <2>1 DEF Unsettled
  <2> QED
    BY <2>2 DEF IInv, TypeOK, SetOK, Whole
<1>4. ASSUME NEW a, Answer(c, a), Goto(c, "reply")
      PROVE  Answering(c, a) /\ reply' = [reply EXCEPT ![c] = a]
  BY <1>4 DEF Answer, Answering, Goto
<1>5. Goto(c, "reply") /\ r.cmd \in {"ZRANK", "ZSCORE", "GEOPOS", "ZRANGE", "ZCARD", "ZREM", "GEOSEARCH"}
  BY DEF Miss, At
<1>6. CASE r.cmd \in {"ZRANK", "ZSCORE", "GEOPOS"}
  <2>1. Answer(c, Nil)
    BY <1>6 DEF Miss
  <2>2. Abstract!Look(c)
    BY <1>1, <1>2, <1>4, <1>5, <1>6, <2>1, Looks
  <2> QED
    BY <1>1, <1>4, <1>5, <2>1, <2>2, Answered, AnsweringStep
<1>7. CASE r.cmd = "ZRANGE"
  <2>1. Answer(c, Array(<<>>))
    BY <1>7 DEF Miss
  <2>2. r.from \in Int /\ r.to \in Int
    <3>1. Indices \subseteq Int
      BY ZSetAssumption
    <3> QED
      BY <1>1, <1>7, <3>1, RequestShape
  <2> DEFINE first == FromEnd(r.from, Len(Order))
             last == Min({FromEnd(r.to, Len(Order)), Len(Order) - 1})
  <2>3. /\ first \in Nat /\ last \in Int /\ last <= Len(Order) - 1
        /\ Abstract!Slice(r.from, r.to) = [k \in 1 .. last - first + 1 |-> Order[first + k].name]
    BY <1>3, <2>2, SliceIsNames
  <2> HIDE DEF first, last
  <2>4. 1 .. last - first + 1 = {}
    <3>1. Len(Order) = 0
      BY <1>2, <1>3, WholeFacts
    <3> QED
      BY <2>3, <3>1
  <2>5. Abstract!Slice(r.from, r.to) = <<>>
    <3>1. Abstract!Slice(r.from, r.to) = [k \in {} |-> Order[first + k].name]
      BY <2>3, <2>4
    <3>2. [k \in {} |-> Order[first + k].name] = <<>>
      OBVIOUS
    <3> QED
      BY <3>1, <3>2
  <2>6. Abstract!Look(c)
    BY <1>1, <1>4, <1>5, <1>7, <2>1, <2>5, Looks
  <2> QED
    BY <1>1, <1>4, <1>5, <2>1, <2>6, Answered, AnsweringStep
<1>8. CASE r.cmd = "ZCARD"
  <2>1. Answer(c, Number(0))
    BY <1>8 DEF Miss
  <2>2. Cardinality(DOMAIN Elements) = 0
    BY <1>2, FS_EmptySet
  <2>3. Abstract!Look(c)
    BY <1>1, <1>4, <1>5, <1>8, <2>1, <2>2, Looks
  <2> QED
    BY <1>1, <1>4, <1>5, <2>1, <2>3, Answered, AnsweringStep
<1>9. CASE r.cmd = "ZREM"
  <2>1. Answer(c, Number(0))
    BY <1>9 DEF Miss
  <2>2. Restrict(Elements, DOMAIN Elements \ {r.member}) = <<>>
    BY <1>2 DEF Restrict
  <2>3. Abstract!Change(c)
    BY <1>1, <1>2, <1>4, <1>5, <1>9, <2>1, <2>2, Changes
  <2>4. StageOK'
    BY <1>1, <1>4, <1>5, <2>1, Answered, StageAnswer DEF IInv
  <2>5. request' = [request EXCEPT ![c] = NoRequest]
    BY <2>1 DEF Answer
  <2> QED
    BY <1>1, <2>3, <2>4, <2>5, TakesEffect
<1>10. CASE r.cmd = "GEOSEARCH"
  <2>1. Answer(c, Found({}))
    BY <1>10 DEF Miss
  <2>2. Abstract!InCircle(r.center, r.radius) = {}
    BY <1>2 DEF Abstract!InCircle
  <2>3. Abstract!Look(c)
    BY <1>1, <1>4, <1>5, <1>10, <2>1, <2>2, Looks
  <2> QED
    BY <1>1, <1>4, <1>5, <2>1, <2>3, Answered, AnsweringStep
<1> QED
  BY <1>5, <1>6, <1>7, <1>8, <1>9, <1>10

\* The second step of an insertion is its effect on the map, the first is none.
LEMMA InsertRefines ==
  ASSUME IInv, StageOK, NEW c \in Conns, Insert(c)
  PROVE  StageOK' /\ Abstract!MapNext
<1> DEFINE r == request[c]
           a == Number(IF r.member \in DOMAIN Elements THEN 0 ELSE 1)
<1>1. /\ up /\ pc[c] = "insert" /\ r.cmd \in {"ZADD", "GEOADD"}
      /\ r.cmd = "GEOADD" => OnMap(r.place)
      /\ Elements' = Put(Elements, r.member, ScoreOf(r))
      /\ UnlockAnswer(c, a)
  BY DEF IInv, LockOK, Insert, At
<1>2. exists /\ exists' = exists /\ up' = up
  BY <1>1 DEF StageOK, UnlockAnswer
<1>3. a # NoAnswer
  BY Answered
<1> HIDE DEF a
<1>4. StageOK'
  BY <1>1, <1>2, <1>3, UnlockStage DEF IInv
<1>5. reply' = [reply EXCEPT ![c] = a] /\ request' = [request EXCEPT ![c] = NoRequest]
  BY <1>1 DEF UnlockAnswer, Answer
<1>6. Abstract!Change(c)
  BY <1>1, <1>5, Changes DEF a
<1> QED
  BY <1>1, <1>2, <1>4, <1>5, <1>6, TakesEffect

\* ZREM takes effect in the step that writes its answer.
LEMMA ZRemRefines ==
  ASSUME IInv, StageOK, NEW c \in Conns, ZRem(c)
  PROVE  StageOK' /\ Abstract!MapNext
<1> DEFINE r == request[c]
           a == Number(IF r.member \in DOMAIN Elements THEN 1 ELSE 0)
<1>1. /\ up /\ pc[c] = "drain" /\ r.cmd = "ZREM"
      /\ Elements' = Restrict(Elements, DOMAIN Elements \ {r.member})
      /\ UnlockAnswer(c, a)
  BY DEF ZRem, At
<1>2. exists /\ exists' = exists /\ up' = up
  BY <1>1 DEF StageOK, UnlockAnswer
<1>3. a # NoAnswer
  BY Answered
<1> HIDE DEF a
<1>4. StageOK'
  BY <1>1, <1>2, <1>3, UnlockStage DEF IInv
<1>5. reply' = [reply EXCEPT ![c] = a] /\ request' = [request EXCEPT ![c] = NoRequest]
  BY <1>1 DEF UnlockAnswer, Answer
<1>6. Abstract!Change(c)
  BY <1>1, <1>5, Changes DEF a
<1> QED
  BY <1>1, <1>2, <1>4, <1>5, <1>6, TakesEffect

\* A refused position is answered like any request, and takes effect at once.
LEMMA RefuseRefines ==
  ASSUME IInv, StageOK, NEW c \in Conns, RefusePlace(c)
  PROVE  StageOK' /\ Abstract!MapNext
<1>1. /\ up /\ pc[c] = "called" /\ request[c].cmd = "GEOADD" /\ ~OnMap(request[c].place)
      /\ c \in DOMAIN reply /\ Answering(c, Error) /\ reply' = [reply EXCEPT ![c] = Error]
      /\ UNCHANGED <<up, exists, Elements>> /\ UNCHANGED Elements
  BY DEF IInv, TypeOK, RefusePlace, At, Answer, Answering, Goto, set
<1>2. Abstract!Look(c)
  BY <1>1, Looks
<1> QED
  BY <1>1, <1>2, Answered, AnsweringStep

\* The steps on the way to an answer that the map does not see.
LEMMA HiddenStep ==
  ASSUME IInv, StageOK, NEW c \in Conns,
         FindOrMake(c) \/ Find(c) \/ RLock(c) \/ Lock(c) \/ Erase(c)
  PROVE  StageOK' /\ UNCHANGED Abstract!mapVars
<1>1. \E place \in Spots \ {"idle", "reply"} :
        /\ pc[c] \in Spots \ {"idle", "reply"} /\ pc' = [pc EXCEPT ![c] = place]
  BY DEF FindOrMake, Find, RLock, Lock, Erase, At, Goto, Spots
<1>2. UNCHANGED <<up, Elements, request, reply>> /\ (exists => exists') /\ exists'
  BY DEF StageOK, FindOrMake, Find, RLock, Lock, Erase, At, set, rwlock
<1>3. /\ pc'[c] \notin {"idle", "reply"} /\ pc[c] \notin {"idle", "reply"}
      /\ \A d \in Conns : d # c => pc'[d] = pc[d]
  BY <1>1 DEF IInv, TypeOK
<1>4. \A d \in Conns : d # c =>
        /\ request'[d] = request[d] /\ reply'[d] = reply[d]
        /\ pc'[d] = pc[d] \/ (pc[d] = "rwait" /\ pc'[d] = "reading")
  BY <1>2, <1>3
<1>5. /\ request'[c] = NoRequest <=> pc'[c] \in {"idle", "reply"}
      /\ reply'[c] # NoAnswer <=> pc'[c] = "reply"
  BY <1>2, <1>3 DEF StageOK
<1>6. StageOK'
  BY <1>2, <1>4, <1>5, StageMove
<1> QED
  BY <1>2, <1>6 DEF Abstract!mapVars

\* A request becomes pending when its goroutine reads it.
LEMMA SendRefines ==
  ASSUME IInv, StageOK, NEW c \in Conns, NEW r \in Requests, Send(c, r)
  PROVE  StageOK' /\ Abstract!MapNext
<1>1. /\ up /\ pc[c] = "idle" /\ request[c] = NoRequest /\ reply[c] = NoAnswer
      /\ request' = [request EXCEPT ![c] = r] /\ pc' = [pc EXCEPT ![c] = "called"]
      /\ UNCHANGED <<up, exists, Elements, reply>>
  BY DEF StageOK, Send, Goto, set
<1>2. r # NoRequest
  <2>1. r.cmd # "none"
    BY DEF Requests
  <2> QED
    BY <2>1 DEF NoRequest
<1>3. /\ pc'[c] = "called" /\ request'[c] = r
      /\ \A d \in Conns : d # c =>
           /\ request'[d] = request[d] /\ reply'[d] = reply[d] /\ pc'[d] = pc[d]
  BY <1>1 DEF IInv, TypeOK
<1>4. StageOK'
  <2>1. /\ request'[c] = NoRequest <=> pc'[c] \in {"idle", "reply"}
        /\ reply'[c] # NoAnswer <=> pc'[c] = "reply"
    BY <1>1, <1>2, <1>3
  <2> QED
    BY <1>1, <1>3, <2>1, StageMove
<1>5. Abstract!Ask(c, r)
  BY <1>1, SameWords DEF Abstract!Ask
<1> QED
  BY <1>4, <1>5, SameWords DEF Abstract!MapNext

\* An answer is taken when its goroutine writes it.
LEMMA ReturnRefines ==
  ASSUME IInv, StageOK, NEW c \in Conns, Return(c)
  PROVE  StageOK' /\ Abstract!MapNext
<1>1. /\ up /\ pc[c] = "reply" /\ request[c] = NoRequest /\ reply[c] # NoAnswer
      /\ reply' = [reply EXCEPT ![c] = NoAnswer] /\ pc' = [pc EXCEPT ![c] = "idle"]
      /\ UNCHANGED <<up, exists, Elements, request>>
  BY DEF StageOK, Return, Goto, set
<1>2. /\ pc'[c] = "idle" /\ reply'[c] = NoAnswer /\ request'[c] = NoRequest
      /\ \A d \in Conns : d # c =>
           /\ request'[d] = request[d] /\ reply'[d] = reply[d] /\ pc'[d] = pc[d]
  BY <1>1 DEF IInv, TypeOK
<1>3. StageOK'
  <2>1. /\ request'[c] = NoRequest <=> pc'[c] \in {"idle", "reply"}
        /\ reply'[c] # NoAnswer <=> pc'[c] = "reply"
    BY <1>2
  <2> QED
    BY <1>1, <1>2, <2>1, StageMove
<1>4. Abstract!Reply(c)
  BY <1>1, SameWords DEF Abstract!Reply
<1> QED
  BY <1>3, <1>4 DEF Abstract!MapNext

\* A step that changes no set, place, request or answer, such as a panic, keeps the stages.
LEMMA StopRefines ==
  ASSUME StageOK, UNCHANGED <<set, pc, request, reply>>
  PROVE  StageOK'
BY DEF StageOK, set

\* Every step of the handlers is a step of the map or none.
LEMMA RefinesStep ==
  IInv /\ StageOK /\ [Next]_vars => StageOK' /\ [Abstract!MapNext]_Abstract!mapVars
<1> SUFFICES ASSUME IInv, StageOK, [Next]_vars
             PROVE  StageOK' /\ [Abstract!MapNext]_Abstract!mapVars
  OBVIOUS
<1>1. ASSUME UNCHANGED vars
      PROVE  StageOK' /\ UNCHANGED Abstract!mapVars
  BY <1>1, StopRefines DEF vars, set, Abstract!mapVars
<1>2. ASSUME NEW c \in Conns, MissGeoDist(c)
      PROVE  StageOK' /\ Abstract!MapNext
  <2>1. up' = FALSE /\ UNCHANGED <<set, pc, request, reply>> /\ UNCHANGED <<Elements, request, reply>>
    BY <1>2 DEF MissGeoDist, Panic, set
  <2>2. Abstract!Stop
    BY <2>1 DEF Abstract!Stop
  <2> QED
    BY <2>1, <2>2, StopRefines DEF Abstract!MapNext
<1>3. ASSUME NEW c \in Conns, Handle(c)
      PROVE  StageOK' /\ [Abstract!MapNext]_Abstract!mapVars
  BY <1>2, <1>3, RefuseRefines, HiddenStep, MissRefines, ReadRefines, InsertRefines,
     ZRemRefines, ReturnRefines DEF Handle, Write
<1>4. ASSUME NEW c \in Conns, Lock(c)
      PROVE  StageOK' /\ UNCHANGED Abstract!mapVars
  BY <1>4, HiddenStep
<1>5. ASSUME NEW c \in Conns, NEW r \in Requests, Send(c, r)
      PROVE  StageOK' /\ Abstract!MapNext
  BY <1>5, SendRefines
<1> QED
  BY <1>1, <1>3, <1>4, <1>5 DEF Next

\* The set starts as an empty map with nothing pending.
LEMMA InitRefines == Init => StageOK /\ Abstract!MapInit
<1> SUFFICES ASSUME Init PROVE StageOK /\ Abstract!MapInit
  OBVIOUS
<1>1. \A c \in Conns : pc[c] = "idle" /\ request[c] = NoRequest /\ reply[c] = NoAnswer
  BY DEF Init
<1>2. StageOK
  BY <1>1 DEF Init, StageOK
<1>3. Abstract!MapInit
  BY SameWords DEF Init, Abstract!MapInit
<1> QED
  BY <1>2, <1>3

\* Ranks, slices, scores and distances read off the slice under the locks are those
\* of a map from names to scores, each command taking effect at one moment between
\* its call and its answer (handlers.go:1053-1600, AddToSortedSet in utils.go).
THEOREM SetIsAnOrderedMap == Spec => ImplementsOrderedMap
<1>1. Spec => [](IInv /\ StageOK)
  BY InitIInv, StepIInv, InitRefines, RefinesStep, PTL DEF Spec
<1> QED
  BY <1>1, InitRefines, RefinesStep, PTL DEF Spec, ImplementsOrderedMap, Abstract!MapSpec

=============================================================================
