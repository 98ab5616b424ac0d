--------------------------- MODULE KeyspaceProofs ---------------------------
(***************************************************************************)
(* Proofs about Keyspace: types, that the append-only file gives back what *)
(* was acknowledged, that values go forward while clients are served, and  *)
(* that memory and file agree, for any connections and keys, any places    *)
(* where an append may stop, and any number of SETs, faults and restarts.  *)
(*                                                                         *)
(* First the file: what AOFParser reads from lines that are only added to, *)
(* when an append may have stopped anywhere, how one append changes that,  *)
(* and what it changes in the history of the appends.                      *)
(***************************************************************************)
EXTENDS Keyspace, Induction, SequenceTheorems

-----------------------------------------------------------------------------
(* AOFParser, line by line. *)

\* A line of texts, and a value from a set or the odd one.
Good(line, V) == line.text \in Texts /\ line.value \in V \union {Odd}

GoodLines(lines, V) ==
  Len(lines) \in Nat /\ \A i \in 1 .. Len(lines) : Good(lines[i], V)

\* Where the parser goes on behind line i.
Jump(lines, i) == i + 1 + 2 * Counts[LineAt(lines, i).text]

\* What the constants say of headers.
LEMMA Headers ==
  /\ Counts["*3"] = 3 /\ Counts["$"] = 0 /\ Counts["SET"] = 0 /\ Counts[""] = 0
  /\ \A t \in Texts : Counts[t] \in 0 .. 4
  /\ \A t \in Fixed : \A u \in Torn[t] : Counts[u] = 0
  /\ \A t \in Fixed : t = "*3" \/ Counts[t] = 0
  /\ "SET" \in SetNames
BY KeyspaceAssumption DEF Fixed

\* What the parser reads at a place of well-formed lines, or past their end, is
\* well-formed, and it goes on further down.
LEMMA LineGood ==
  ASSUME NEW V, NEW lines, GoodLines(lines, V), NEW i \in Nat \ {0}
  PROVE  /\ Good(LineAt(lines, i), V)
         /\ Counts[LineAt(lines, i).text] \in 0 .. 4
         /\ Jump(lines, i) \in Nat \ {0} /\ Jump(lines, i) > i
<1>1. Good(Nothing, V)
  BY KeyspaceAssumption DEF Good, Nothing, Line
<1>2. i <= Len(lines) => i \in 1 .. Len(lines)
  BY DEF GoodLines
<1>3. Good(LineAt(lines, i), V)
  BY <1>1, <1>2 DEF GoodLines, LineAt
<1>4. Counts[LineAt(lines, i).text] \in 0 .. 4
  BY <1>3, KeyspaceAssumption DEF Good
<1> QED
  BY <1>3, <1>4 DEF Jump

\* Behind the header of a SET the parser takes six lines.
LEMMA HeaderJump ==
  ASSUME NEW lines, NEW i \in Nat, LineAt(lines, i).text = "*3"
  PROVE  Jump(lines, i) = i + 7
<1>1. Counts[LineAt(lines, i).text] = 3
  BY Headers, Zenon
<1> QED
  BY <1>1 DEF Jump

\* The parser does at line i what its loop says.
ParsesAt(f, lines, i) ==
  f[i] = IF Over(lines, i) THEN <<>> ELSE StoreAt(lines, i) \o f[Jump(lines, i)]

\* The function Parse satisfies its recursive equation: reading ends with the file,
\* so a least-number argument gives the function that CHOOSE picks.
LEMMA ParseEquation ==
  ASSUME NEW V, NEW lines, GoodLines(lines, V)
  PROVE  \A i \in Nat \ {0} : ParsesAt(Parse(lines), lines, i)
<1> DEFINE N == Nat \ {0}
           Body(f, i) == IF Over(lines, i) THEN <<>>
                         ELSE StoreAt(lines, i) \o f[Jump(lines, i)]
           Q(f) == f = [i \in N |-> Body(f, i)]
           From(m) == \E f : f = [i \in N |-> IF i >= m THEN Body(f, i) ELSE <<>>]
           S == {m \in Nat : From(m)}
<1>1. Parse(lines) = CHOOSE f : Q(f)
  BY DEF Parse, Jump
<1>0. Len(lines) \in Nat /\ \A i \in N : Jump(lines, i) \in N /\ Jump(lines, i) > i
  BY LineGood DEF GoodLines
<1>2. Len(lines) + 1 \in S
  <2> DEFINE f == [i \in N |-> <<>>]
  <2>1. \A i \in N : i >= Len(lines) + 1 => Over(lines, i)
    BY <1>0 DEF Over
  <2>2. f = [i \in N |-> IF i >= Len(lines) + 1 THEN Body(f, i) ELSE <<>>]
    BY <2>1
  <2> HIDE DEF f
  <2>3. From(Len(lines) + 1)
    BY <2>2, Zenon
  <2> HIDE DEF From
  <2> QED
    BY <1>0, <2>3
<1>3. PICK m \in S : \A n \in S : m <= n
  <2>1. S \in SUBSET Nat /\ S # {}
    BY <1>2
  <2> HIDE DEF S
  <2> QED
    BY <2>1, LeastNumber
<1>4. PICK f : f = [i \in N |-> IF i >= m THEN Body(f, i) ELSE <<>>]
  BY <1>3
<1>5. m \in {0, 1}
  <2>1. SUFFICES ASSUME m \notin {0, 1} PROVE FALSE
    OBVIOUS
  <2>2. m \in Nat /\ m - 1 \in N
    BY <1>3, <2>1
  <2> DEFINE g == [i \in N |-> IF i = m - 1 THEN Body(f, i) ELSE f[i]]
  <2>3. \A i \in N : i >= m => f[i] = Body(f, i)
    BY <1>4, Zenon
  <2>4. \A i \in N : ~(i >= m) => f[i] = <<>>
    BY <1>4, Zenon
  <2>5. \A i \in N : i >= m - 1 => g[Jump(lines, i)] = f[Jump(lines, i)]
    <3>1. \A i \in N : i # m - 1 => g[i] = f[i]
      OBVIOUS
    <3> HIDE DEF g
    <3> QED
      BY <1>0, <2>2, <3>1
  <2>6. ASSUME NEW i \in N
        PROVE  g[i] = IF i >= m - 1 THEN Body(g, i) ELSE <<>>
    <3>1. CASE i = m - 1
      <4>1. g[i] = Body(f, i) /\ i >= m - 1
        BY <2>2, <3>1
      <4>2. Body(f, i) = Body(g, i)
        BY <2>5, <4>1
      <4> QED
        BY <4>1, <4>2
    <3>2. CASE i >= m
      <4>1. g[i] = f[i] /\ i >= m - 1 /\ f[i] = Body(f, i)
        BY <2>2, <2>3, <3>2
      <4>2. Body(f, i) = Body(g, i)
        BY <2>5, <4>1
      <4> QED
        BY <4>1, <4>2
    <3>3. CASE i < m - 1
      BY <2>2, <2>4, <3>3
    <3> QED
      BY <2>2, <3>1, <3>2, <3>3
  <2>7. g = [i \in N |-> g[i]]
    OBVIOUS
  <2> HIDE DEF g
  <2>8. g = [i \in N |-> IF i >= m - 1 THEN Body(g, i) ELSE <<>>]
    BY <2>6, <2>7
  <2>9. m - 1 \in S
    <3>1. From(m - 1)
      BY <2>8, Zenon
    <3> HIDE DEF From
    <3> QED
      BY <2>2, <3>1
  <2> HIDE DEF S
  <2> QED
    BY <1>3, <2>2, <2>9
<1>6. Q(f)
  <2>1. \A i \in N : i >= m
    BY <1>5
  <2> QED
    BY <1>4, <2>1
<1>7. Q(CHOOSE h : Q(h))
  <2> HIDE DEF Q
  <2> QED
    BY <1>6
<1>8. Q(Parse(lines))
  BY <1>1, <1>7
<1>9. ASSUME NEW i \in N PROVE Parse(lines)[i] = Body(Parse(lines), i)
  BY <1>8, Zenon
<1> QED
  BY <1>9 DEF ParsesAt

-----------------------------------------------------------------------------
(* What is read: texts, and values from a set. *)

StoreSet(V) == [key : Texts, value : V \union {Odd}]

\* A record's Store has a text for its key, and a value that was written or the odd one.
LEMMA StoreAtType ==
  ASSUME NEW V, NEW lines, GoodLines(lines, V), NEW i \in Nat \ {0}
  PROVE  StoreAt(lines, i) \in Seq(StoreSet(V))
<1>1. Good(LineAt(lines, i + 4), V) /\ Good(LineAt(lines, i + 6), V)
  <2>1. i + 4 \in Nat \ {0} /\ i + 6 \in Nat \ {0}
    OBVIOUS
  <2> QED
    BY <2>1, LineGood
<1>2. [key |-> LineAt(lines, i + 4).text, value |-> LineAt(lines, i + 6).value]
        \in StoreSet(V)
  BY <1>1 DEF StoreSet, Good
<1>3. \A s \in StoreSet(V) : <<s>> \in Seq(StoreSet(V))
  OBVIOUS
<1>4. <<>> \in Seq(StoreSet(V))
  OBVIOUS
<1> QED
  BY <1>2, <1>3, <1>4 DEF StoreAt

\* What AOFParser stores of well-formed lines are Stores of texts and written
\* values, or odd ones.
LEMMA ParseType ==
  ASSUME NEW V, NEW lines, GoodLines(lines, V)
  PROVE  \A i \in Nat \ {0} : Parse(lines)[i] \in Seq(StoreSet(V))
<1> DEFINE T == Seq(StoreSet(V))
           P == Parse(lines)
           S == {i \in Nat : i = 0 \/ P[i] \in T}
<1>1. Len(lines) \in Nat
  BY DEF GoodLines
<1>2. \A i \in Nat \ {0} : ParsesAt(P, lines, i)
  BY ParseEquation
<1>3. <<>> \in T
  OBVIOUS
<1>4. \A i \in Nat \ {0} : StoreAt(lines, i) \in T
  BY StoreAtType
<1>5. \A s, t \in T : s \o t \in T
  OBVIOUS
<1> HIDE DEF T, P
<1>6. ASSUME NEW i \in Nat, i > Len(lines) PROVE i \in S
  BY <1>1, <1>2, <1>3, <1>6 DEF ParsesAt, Over
<1>7. ASSUME NEW i \in Nat, \A j \in Nat : j > i => j \in S
      PROVE  i \in S
  <2>1. SUFFICES ASSUME i # 0 PROVE P[i] \in T
    OBVIOUS
  <2>2. P[Jump(lines, i)] \in T
    <3>1. Jump(lines, i) \in Nat \ {0} /\ Jump(lines, i) > i
      BY <2>1, LineGood
    <3>2. Jump(lines, i) \in S
      BY <1>7, <3>1
    <3> QED
      BY <3>1, <3>2
  <2>3. StoreAt(lines, i) \o P[Jump(lines, i)] \in T
    BY <1>4, <1>5, <2>1, <2>2
  <2> QED
    BY <1>2, <1>3, <2>1, <2>3 DEF ParsesAt
<1> HIDE DEF S
<1>8. \A i \in Nat : i \in S
  BY <1>1, <1>6, <1>7, InductionFromTheEnd
<1> QED
  BY <1>8 DEF S, P, T

-----------------------------------------------------------------------------
(* The last of the stores of a key. *)

\* A key that has the value v before the stores has w after them.
After(stores, k, v, w) ==
  \/ w = v /\ \A i \in DOMAIN stores : stores[i].key # k
  \/ \E i \in DOMAIN stores : /\ stores[i].key = k /\ stores[i].value = w
                             /\ \A j \in DOMAIN stores : j > i => stores[j].key # k

\* With no Store a key keeps its value.
LEMMA AfterNothing == ASSUME NEW k, NEW v PROVE After(<<>>, k, v, v)
<1>1. DOMAIN <<>> = {}
  OBVIOUS
<1> QED
  BY <1>1 DEF After

\* A sequence of Stores leaves one value.
LEMMA AfterUnique ==
  ASSUME NEW R, NEW stores \in Seq(R), NEW k, NEW v, NEW w, NEW u,
         After(stores, k, v, w), After(stores, k, v, u)
  PROVE  w = u
<1>1. \A i, j \in DOMAIN stores : i = j \/ i > j \/ j > i
  <2>1. DOMAIN stores \subseteq Int
    BY LenProperties
  <2> QED
    BY <2>1
<1> QED
  BY <1>1 DEF After

\* The effect of two sequences of Stores, one after the other.
LEMMA AfterBoth ==
  ASSUME NEW R, NEW s \in Seq(R), NEW t \in Seq(R), NEW k, NEW v, NEW u, NEW w,
         After(s, k, v, u), After(t, k, u, w)
  PROVE  After(s \o t, k, v, w)
<1>1. /\ Len(s) \in Nat /\ Len(t) \in Nat
      /\ DOMAIN s = 1 .. Len(s) /\ DOMAIN t = 1 .. Len(t)
  BY LenProperties
<1>2. /\ DOMAIN (s \o t) = 1 .. Len(s) + Len(t)
      /\ \A i \in 1 .. Len(s) + Len(t) :
           (s \o t)[i] = IF i <= Len(s) THEN s[i] ELSE t[i - Len(s)]
  <2>1. /\ s \o t \in Seq(R) /\ Len(s \o t) = Len(s) + Len(t)
        /\ \A i \in 1 .. Len(s) + Len(t) :
             (s \o t)[i] = IF i <= Len(s) THEN s[i] ELSE t[i - Len(s)]
    BY ConcatProperties
  <2> QED
    BY <2>1, LenProperties
<1> DEFINE c == s \o t
<1> HIDE DEF c
<1>3. \A i \in 1 .. Len(s) : i \in DOMAIN c /\ c[i] = s[i]
  BY <1>1, <1>2 DEF c
<1>4. \A i \in 1 .. Len(t) : i + Len(s) \in DOMAIN c /\ c[i + Len(s)] = t[i]
  BY <1>1, <1>2 DEF c
<1>5. \A i \in DOMAIN c : i \in 1 .. Len(s) \/ i - Len(s) \in 1 .. Len(t)
  BY <1>1, <1>2 DEF c
<1>5a. \A i \in DOMAIN c : i \in Int /\ (i - Len(s)) + Len(s) = i
  BY <1>1, <1>2 DEF c
<1>6. \A i \in DOMAIN c : i > Len(s) =>
        i - Len(s) \in 1 .. Len(t) /\ c[i] = t[i - Len(s)]
  <2> SUFFICES ASSUME NEW i \in DOMAIN c, i > Len(s)
               PROVE  i - Len(s) \in 1 .. Len(t) /\ c[i] = t[i - Len(s)]
    OBVIOUS
  <2>1. i - Len(s) \in 1 .. Len(t)
    BY <1>1, <1>5, <1>5a
  <2>2. c[(i - Len(s)) + Len(s)] = t[i - Len(s)]
    BY <1>4, <2>1
  <2> QED
    BY <1>5a, <2>1, <2>2
<1>7. CASE \E i \in DOMAIN t : /\ t[i].key = k /\ t[i].value = w
                              /\ \A j \in DOMAIN t : j > i => t[j].key # k
  <2>1. PICK i \in DOMAIN t : /\ t[i].key = k /\ t[i].value = w
                              /\ \A j \in DOMAIN t : j > i => t[j].key # k
    BY <1>7
  <2>2. i + Len(s) \in DOMAIN c /\ c[i + Len(s)] = t[i]
    BY <1>1, <1>4, <2>1
  <2>3. ASSUME NEW j \in DOMAIN c, j > i + Len(s) PROVE c[j].key # k
    <3>1. j > Len(s) /\ j - Len(s) > i
      BY <1>1, <1>5a, <2>1, <2>3
    <3> QED
      BY <1>1, <1>6, <2>1, <3>1
  <2> QED
    BY <2>1, <2>2, <2>3 DEF After, c
<1>8. CASE w = u /\ \A i \in DOMAIN t : t[i].key # k
  <2>1. \A j \in DOMAIN c : j > Len(s) => c[j].key # k
    BY <1>1, <1>6, <1>8
  <2>2. CASE w = v /\ \A i \in DOMAIN s : s[i].key # k
    <3>1. \A j \in DOMAIN c : c[j].key # k
      <4> SUFFICES ASSUME NEW j \in DOMAIN c PROVE c[j].key # k
        OBVIOUS
      <4>1. CASE j > Len(s)
        BY <2>1, <4>1
      <4>2. CASE ~(j > Len(s))
        <5>1. j \in 1 .. Len(s)
          BY <1>1, <1>2, <4>2 DEF c
        <5> QED
          BY <1>1, <1>3, <2>2, <5>1
      <4> QED
        BY <4>1, <4>2
    <3> QED
      BY <2>2, <3>1 DEF After, c
  <2>3. CASE \E i \in DOMAIN s : /\ s[i].key = k /\ s[i].value = w
                                /\ \A j \in DOMAIN s : j > i => s[j].key # k
    <3>1. PICK i \in DOMAIN s : /\ s[i].key = k /\ s[i].value = w
                                /\ \A j \in DOMAIN s : j > i => s[j].key # k
      BY <2>3
    <3>2. i \in DOMAIN c /\ c[i] = s[i]
      BY <1>1, <1>3, <3>1
    <3>3. ASSUME NEW j \in DOMAIN c, j > i PROVE c[j].key # k
      <4>1. CASE j > Len(s)
        BY <2>1, <4>1
      <4>2. CASE ~(j > Len(s))
        <5>1. j \in DOMAIN s
          BY <1>1, <1>2, <4>2 DEF c
        <5> QED
          BY <1>1, <1>3, <3>1, <3>3, <5>1
      <4> QED
        BY <4>1, <4>2
    <3> QED
      BY <3>1, <3>2, <3>3 DEF After, c
  <2> QED
    BY <1>8, <2>2, <2>3 DEF After
<1> QED
  BY <1>7, <1>8 DEF After

\* OnFile is the value after the stores of the file.
LEMMA OnFileIs ==
  ASSUME NEW R, AOFParser(file) \in Seq(R), NEW k
  PROVE  After(AOFParser(file), k, Absent, OnFile(k))
<1> DEFINE stores == AOFParser(file)
           places == {i \in DOMAIN stores : stores[i].key = k}
           top == CHOOSE i \in places : \A j \in places : j <= i
<1>1. Len(stores) \in Nat /\ DOMAIN stores = 1 .. Len(stores)
  BY LenProperties
<1>2. OnFile(k) = IF places = {} THEN Absent ELSE stores[top].value
  BY DEF OnFile
<1> HIDE DEF stores
<1>3. CASE places = {}
  BY <1>2, <1>3 DEF After, stores
<1>4. CASE places # {}
  <2>1. places \in SUBSET (0 .. Len(stores))
    BY <1>1
  <2>2. \E i \in places : \A j \in places : j <= i
    <3> HIDE DEF places
    <3> QED
      BY <1>1, <1>4, <2>1, GreatestNumber
  <2>3. top \in places /\ \A j \in places : j <= top
    <3> HIDE DEF places
    <3> QED
      BY <2>2
  <2> HIDE DEF top
  <2>4. /\ top \in DOMAIN stores /\ stores[top].key = k
        /\ \A j \in DOMAIN stores : j > top => stores[j].key # k
    BY <1>1, <2>3
  <2>5. OnFile(k) = stores[top].value
    BY <1>2, <1>4
  <2> QED
    BY <2>4, <2>5 DEF After, stores
<1> QED
  BY <1>3, <1>4

-----------------------------------------------------------------------------
(* What the parser is sure of.  Lines are only added, and the last one may *)
(* still be continued: what is said of the lines before p has to hold      *)
(* whatever comes at p and after it.                                       *)

\* The lines before p.
SameBefore(more, lines, p) == p - 1 <= Len(more) /\ \A i \in 1 .. p - 1 : more[i] = lines[i]

\* By the lines before p key k has the value v: the rest starts from there.
Tells(lines, p, k, v) ==
  \A more : GoodLines(more, Nat) /\ SameBefore(more, lines, p) =>
    \A w : After(Parse(more)[p], k, v, w) => After(Parse(more)[1], k, Absent, w)

\* An empty beginning of a file leaves every key absent.
LEMMA TellsNothing == ASSUME NEW lines, NEW k PROVE Tells(lines, 1, k, Absent)
BY DEF Tells

\* What the lines before p tell holds in every file with those lines.
LEMMA TellsAsWell ==
  ASSUME NEW lines, NEW more, NEW p \in Nat, NEW k, NEW v,
         Tells(lines, p, k, v), SameBefore(more, lines, p)
  PROVE  Tells(more, p, k, v)
<1>1. \A m : SameBefore(m, more, p) => SameBefore(m, lines, p)
  BY DEF SameBefore
<1> QED
  BY <1>1 DEF Tells

\* A line between records changes nothing.
LEMMA TellsSkip ==
  ASSUME NEW lines, Len(lines) \in Nat, NEW p \in 1 .. Len(lines), NEW k, NEW v,
         lines[p].end = "ended", Counts[lines[p].text] = 0, Tells(lines, p, k, v)
  PROVE  Tells(lines, p + 1, k, v)
<1> SUFFICES ASSUME NEW more, GoodLines(more, Nat), SameBefore(more, lines, p + 1), NEW w,
                    After(Parse(more)[p + 1], k, v, w)
             PROVE  After(Parse(more)[1], k, Absent, w)
  BY DEF Tells
<1>1. p \in Nat \ {0} /\ p \in 1 .. (p + 1) - 1 /\ Len(more) \in Nat /\ p <= Len(more)
  BY DEF SameBefore, GoodLines
<1>2. more[p] = lines[p] /\ SameBefore(more, lines, p)
  BY <1>1 DEF SameBefore
<1>3. ParsesAt(Parse(more), more, p)
  BY <1>1, ParseEquation
<1>4. LineAt(more, p) = lines[p] /\ ~Over(more, p)
  BY <1>1, <1>2 DEF LineAt, Over
<1>50. StoreAt(more, p) = <<>> /\ Jump(more, p) = p + 1
  BY <1>1, <1>4 DEF StoreAt, Jump
<1>51. Parse(more)[p + 1] \in Seq(StoreSet(Nat))
  <2>1. p + 1 \in Nat \ {0}
    BY <1>1
  <2> QED
    BY <2>1, ParseType
<1>5. Parse(more)[p] = Parse(more)[p + 1]
  <2>1. <<>> \o Parse(more)[p + 1] = Parse(more)[p + 1]
    BY <1>51
  <2> QED
    BY <1>3, <1>4, <1>50, <2>1 DEF ParsesAt
<1> QED
  BY <1>2, <1>5 DEF Tells

\* Many such lines.
LEMMA TellsSkipAll ==
  ASSUME NEW lines, Len(lines) \in Nat, NEW p \in Nat \ {0}, NEW q \in Nat,
         p <= q, q <= Len(lines) + 1, NEW k, NEW v,
         \A i \in p .. q - 1 : lines[i].end = "ended" /\ Counts[lines[i].text] = 0,
         Tells(lines, p, k, v)
  PROVE  Tells(lines, q, k, v)
<1> DEFINE S == {n \in Nat : p + n <= q => Tells(lines, p + n, k, v)}
<1>1. ASSUME NEW n \in Nat, \A m \in 0 .. n - 1 : m \in S
      PROVE  n \in S
  <2>1. SUFFICES ASSUME p + n <= q PROVE Tells(lines, p + n, k, v)
    OBVIOUS
  <2>2. CASE n = 0
    <3>1. p + n = p
      BY <2>2
    <3> QED
      BY <3>1
  <2>3. CASE n # 0
    <3> DEFINE i == p + (n - 1)
    <3>1. n - 1 \in 0 .. n - 1 /\ i <= q /\ i \in p .. q - 1 /\ i \in 1 .. Len(lines)
      BY <2>1, <2>3
    <3>2. n - 1 \in S
      BY <1>1, <3>1
    <3>3. Tells(lines, i, k, v)
      BY <3>1, <3>2
    <3>4. lines[i].end = "ended" /\ Counts[lines[i].text] = 0
      BY <3>1
    <3>5. i + 1 = p + n
      BY <2>3
    <3> HIDE DEF i
    <3>6. Tells(lines, i + 1, k, v)
      BY <3>1, <3>3, <3>4, TellsSkip
    <3> QED
      BY <3>5, <3>6
  <2> QED
    BY <2>2, <2>3
<1> HIDE DEF S
<1>2. \A n \in Nat : n \in S
  BY <1>1, StrongInduction
<1>3. q - p \in Nat /\ p + (q - p) = q
  OBVIOUS
<1>4. q - p \in S
  BY <1>2, <1>3
<1> QED
  BY <1>3, <1>4 DEF S

\* A record that is all there is read as it is.
LEMMA TellsRecord ==
  ASSUME NEW lines, GoodLines(lines, Nat), NEW p \in Nat \ {0}, p + 6 <= Len(lines),
         NEW k, NEW v, NEW u,
         lines[p].end = "ended", lines[p].text = "*3",
         Tells(lines, p, k, v), After(StoreAt(lines, p), k, v, u)
  PROVE  Tells(lines, p + 7, k, u)
<1> SUFFICES ASSUME NEW more, GoodLines(more, Nat), SameBefore(more, lines, p + 7), NEW w,
                    After(Parse(more)[p + 7], k, u, w)
             PROVE  After(Parse(more)[1], k, Absent, w)
  BY DEF Tells
<1>1. Len(more) \in Nat /\ Len(lines) \in Nat /\ p + 6 <= Len(more)
  BY DEF SameBefore, GoodLines
<1>2. \A i \in 1 .. p + 6 : more[i] = lines[i]
  <2>1. (p + 7) - 1 = p + 6
    OBVIOUS
  <2> QED
    BY <2>1 DEF SameBefore
<1>3. SameBefore(more, lines, p)
  BY <1>1, <1>2 DEF SameBefore
<1>4. \A i \in p .. p + 6 : LineAt(more, i) = lines[i] /\ LineAt(lines, i) = lines[i]
  BY <1>1, <1>2 DEF LineAt
<1>5. ~Over(more, p)
  BY <1>1, <1>4 DEF Over
<1>6. StoreAt(more, p) = StoreAt(lines, p)
  <2>1. /\ p \in p .. p + 6 /\ p + 2 \in p .. p + 6
        /\ p + 4 \in p .. p + 6 /\ p + 6 \in p .. p + 6
    OBVIOUS
  <2> QED
    BY <1>4, <2>1 DEF StoreAt
<1>7. Parse(more)[p] = StoreAt(lines, p) \o Parse(more)[p + 7]
  <2>1. ParsesAt(Parse(more), more, p)
    BY <1>1, ParseEquation
  <2>2. LineAt(more, p).text = "*3"
    BY <1>4
  <2>3. Jump(more, p) = p + 7
    BY <2>2, HeaderJump
  <2> QED
    BY <1>5, <1>6, <2>1, <2>3 DEF ParsesAt
<1>8. StoreAt(lines, p) \in Seq(StoreSet(Nat)) /\ Parse(more)[p + 7] \in Seq(StoreSet(Nat))
  <2>1. p + 7 \in Nat \ {0}
    OBVIOUS
  <2> QED
    BY <2>1, StoreAtType, ParseType
<1>9. After(Parse(more)[p], k, v, w)
  BY <1>7, <1>8, AfterBoth
<1> QED
  BY <1>3, <1>9 DEF Tells

-----------------------------------------------------------------------------
(* Where the parser is not sure yet: a record that a torn append has begun. *)

\* The last line has its end, if there is one.
LastEnded(lines) == Len(lines) = 0 \/ lines[Len(lines)].end = "ended"

\* A record of which lines are missing, or the end of the seventh.
Begun(lines, p) ==
  /\ p <= Len(lines) /\ lines[p].text = "*3" /\ lines[p].end = "ended"
  /\ Len(lines) <= p + 5 \/ (Len(lines) = p + 6 /\ ~LastEnded(lines))

\* At p there is nothing, an unfinished line or a record that is not all there.
Rest(lines, p) ==
  \/ p = Len(lines) + 1 /\ LastEnded(lines)
  \/ p = Len(lines) /\ ~LastEnded(lines)
  \/ Begun(lines, p)

\* The lines from p on do not read k, and an unfinished one will not.
Silent(lines, p, k) ==
  /\ p <= Len(lines) => k # ""
  /\ \A i \in p .. Len(lines) :
       /\ lines[i].text # k
       /\ lines[i].end # "ended" => k \notin Torn[lines[i].text]

\* Whatever a record stores, a key has some value after it.
LEMMA AfterSomething ==
  ASSUME NEW lines, NEW p, NEW k, NEW v
  PROVE  \E u : After(StoreAt(lines, p), k, v, u)
<1> DEFINE s == [key |-> LineAt(lines, p + 4).text, value |-> LineAt(lines, p + 6).value]
<1>1. StoreAt(lines, p) = <<>> \/ StoreAt(lines, p) = <<s>>
  BY DEF StoreAt
<1>2. DOMAIN <<s>> = {1} /\ <<s>>[1] = s
  OBVIOUS
<1> HIDE DEF s
<1>3. \A i, j \in DOMAIN <<s>> : ~(i > j)
  BY <1>2
<1>4. CASE s.key = k
  <2>1. After(<<s>>, k, v, s.value)
    BY <1>2, <1>3, <1>4 DEF After
  <2> QED
    BY <1>1, <2>1, AfterNothing
<1>5. CASE s.key # k
  <2>1. After(<<s>>, k, v, v)
    BY <1>2, <1>5 DEF After
  <2> QED
    BY <1>1, <2>1, AfterNothing
<1> QED
  BY <1>4, <1>5

\* A record that no line of which reads as a key does not touch that key.
LEMMA SilentRecord ==
  ASSUME NEW lines, Len(lines) \in Nat, NEW p \in Nat \ {0}, p <= Len(lines), NEW k, NEW v,
         Silent(lines, p, k)
  PROVE  After(StoreAt(lines, p), k, v, v)
<1>1. LineAt(lines, p + 4).text # k
  <2>1. CASE p + 4 <= Len(lines)
    <3>1. p + 4 \in p .. Len(lines) /\ LineAt(lines, p + 4) = lines[p + 4]
      BY <2>1 DEF LineAt
    <3>2. \A i \in p .. Len(lines) : lines[i].text # k
      BY Zenon DEF Silent
    <3> QED
      BY <3>1, <3>2
  <2>2. CASE ~(p + 4 <= Len(lines))
    BY <2>2 DEF LineAt, Nothing, Line, Silent
  <2> QED
    BY <2>1, <2>2
<1> DEFINE s == [key |-> LineAt(lines, p + 4).text, value |-> LineAt(lines, p + 6).value]
<1>2. s.key # k
  BY <1>1
<1> HIDE DEF s
<1>3. After(<<s>>, k, v, v)
  BY <1>2 DEF After
<1> QED
  BY <1>3, AfterNothing DEF StoreAt, s

\* What rests changes no key that it does not name.
LEMMA SilentRest ==
  ASSUME NEW lines, GoodLines(lines, Nat), NEW p \in Nat \ {0}, NEW k, NEW v,
         Rest(lines, p), Silent(lines, p, k)
  PROVE  After(Parse(lines)[p], k, v, v)
<1>1. Len(lines) \in Nat
  BY DEF GoodLines
<1>2. ParsesAt(Parse(lines), lines, p) /\ ParsesAt(Parse(lines), lines, p + 7)
  <2>1. p + 7 \in Nat \ {0}
    OBVIOUS
  <2> QED
    BY <2>1, ParseEquation
<1>3. CASE Over(lines, p)
  BY <1>2, <1>3, AfterNothing DEF ParsesAt
<1>4. CASE ~Over(lines, p)
  <2>1. Begun(lines, p)
    BY <1>1, <1>4 DEF Rest, Over, LineAt, LastEnded
  <2>2. LineAt(lines, p).text = "*3" /\ p <= Len(lines)
    BY <1>1, <2>1 DEF Begun, LineAt
  <2>7. Jump(lines, p) = p + 7
    BY <2>2, HeaderJump
  <2>3. Over(lines, p + 7)
    BY <1>1, <2>1 DEF Begun, Over
  <2>4. Parse(lines)[p] = StoreAt(lines, p) \o <<>>
    BY <1>2, <1>4, <2>3, <2>7 DEF ParsesAt
  <2>5. StoreAt(lines, p) \in Seq(StoreSet(Nat))
    BY StoreAtType
  <2>6. StoreAt(lines, p) \o <<>> = StoreAt(lines, p)
    BY <2>5
  <2> QED
    BY <1>1, <2>2, <2>4, <2>6, SilentRecord
<1> QED
  BY <1>3, <1>4

\* So the parser's last word on such a key is known.
LEMMA SilentKeyOnFile ==
  ASSUME GoodLines(file, Nat), NEW p \in 1 .. Len(file) + 1, Rest(file, p),
         NEW k, NEW v, Silent(file, p, k), Tells(file, p, k, v)
  PROVE  OnFile(k) = v
<1>0. Len(file) \in Nat /\ p \in Nat \ {0}
  BY DEF GoodLines
<1>1. After(Parse(file)[p], k, v, v)
  BY <1>0, SilentRest
<1>2. SameBefore(file, file, p)
  BY <1>0 DEF SameBefore
<1>3. After(AOFParser(file), k, Absent, v)
  BY <1>1, <1>2 DEF Tells, AOFParser
<1>4. AOFParser(file) \in Seq(StoreSet(Nat))
  BY ParseType DEF AOFParser
<1>5. After(AOFParser(file), k, Absent, OnFile(k))
  BY <1>4, OnFileIs
<1> QED
  BY <1>3, <1>4, <1>5, AfterUnique

EndedButLast(lines) == \A i \in 1 .. Len(lines) - 1 : lines[i].end = "ended"

\* However the lines from p on are read, the parser comes to rest.
LEMMA ComesToRest ==
  ASSUME NEW lines, GoodLines(lines, Nat), EndedButLast(lines),
         NEW p \in 1 .. Len(lines) + 1,
         p = Len(lines) + 1 => LastEnded(lines),
         p <= Len(lines) /\ lines[p].text # "*3"
           => \A i \in p .. Len(lines) : Counts[lines[i].text] = 0,
         \A i \in p + 7 .. Len(lines) : Counts[lines[i].text] = 0
  PROVE  \E q \in p .. Len(lines) + 1 :
           /\ Rest(lines, q)
           /\ LastEnded(lines) /\ p + 6 <= Len(lines) => q = Len(lines) + 1
           /\ \A k, v : Silent(lines, p, k) /\ Tells(lines, p, k, v)
                         => Tells(lines, q, k, v)
           /\ \A k, v : Tells(lines, p, k, v) => \E u : Tells(lines, q, k, u)
<1> DEFINE stop == IF LastEnded(lines) THEN Len(lines) + 1 ELSE Len(lines)
<1>1. Len(lines) \in Nat /\ p \in Nat \ {0} /\ p <= Len(lines) + 1
  BY DEF GoodLines
<1>2. \A i \in 1 .. stop - 1 : lines[i].end = "ended"
  BY <1>1 DEF EndedButLast, LastEnded
<1>3. Rest(lines, stop) /\ stop \in 1 .. Len(lines) + 1
      /\ (LastEnded(lines) => stop = Len(lines) + 1)
  BY <1>1 DEF Rest, LastEnded
<1>4. p <= stop
  BY <1>1
<1> HIDE DEF stop
<1>5. CASE p = stop
  BY <1>1, <1>3, <1>5
<1>6. CASE p # stop /\ lines[p].text # "*3"
  <2>1. p <= Len(lines) /\ stop - 1 <= Len(lines)
    BY <1>1, <1>3, <1>4, <1>6
  <2>2. \A i \in p .. stop - 1 : lines[i].end = "ended" /\ Counts[lines[i].text] = 0
    <3>1. stop \in Int
      BY <1>1, <1>3
    <3>2. \A i \in p .. stop - 1 : i \in 1 .. stop - 1 /\ i \in p .. Len(lines)
      BY <1>1, <2>1, <3>1
    <3>3. \A i \in p .. Len(lines) : Counts[lines[i].text] = 0
      BY <1>6, <2>1
    <3> QED
      BY <1>2, <3>2, <3>3
  <2>3. \A k, v : Tells(lines, p, k, v) => Tells(lines, stop, k, v)
    BY <1>1, <1>3, <1>4, <2>2, TellsSkipAll
  <2>4. stop \in p .. Len(lines) + 1
    BY <1>1, <1>3, <1>4
  <2> QED
    BY <1>3, <2>3, <2>4
<1>7. CASE p # stop /\ lines[p].text = "*3"
  <2>1. p < stop /\ p <= Len(lines) /\ lines[p].end = "ended"
    BY <1>1, <1>2, <1>3, <1>4, <1>7
  <2>2. CASE Begun(lines, p)
    <3>1. ~(LastEnded(lines) /\ p + 6 <= Len(lines))
      BY <1>1, <2>2 DEF Begun
    <3>2. Rest(lines, p) /\ p \in p .. Len(lines) + 1
      BY <1>1, <2>1, <2>2 DEF Rest
    <3> QED
      BY <3>1, <3>2
  <2>3. CASE ~Begun(lines, p)
    <3>1. p + 6 <= Len(lines) /\ (Len(lines) = p + 6 => LastEnded(lines))
      BY <1>1, <1>7, <2>1, <2>3 DEF Begun
    <3>2. p + 7 <= stop /\ p + 7 \in Nat \ {0} /\ stop <= Len(lines) + 1 /\ stop \in Nat
      BY <1>1, <1>3, <3>1 DEF stop
    <3>3. \A i \in p + 7 .. stop - 1 : lines[i].end = "ended" /\ Counts[lines[i].text] = 0
      BY <1>1, <1>2, <3>2
    <3>4. ASSUME NEW k, NEW v, Silent(lines, p, k), Tells(lines, p, k, v)
          PROVE  Tells(lines, stop, k, v)
      <4>1. After(StoreAt(lines, p), k, v, v)
        BY <1>1, <2>1, <3>4, SilentRecord
      <4>2. Tells(lines, p + 7, k, v)
        BY <1>1, <1>7, <2>1, <3>1, <3>4, <4>1, TellsRecord
      <4> QED
        BY <1>1, <3>2, <3>3, <4>2, TellsSkipAll
    <3>5. stop \in p .. Len(lines) + 1
      BY <1>1, <1>3, <1>4
    <3>6. ASSUME NEW k, NEW v, Tells(lines, p, k, v)
          PROVE  \E u : Tells(lines, stop, k, u)
      <4>1. PICK u : After(StoreAt(lines, p), k, v, u)
        BY AfterSomething
      <4>2. Tells(lines, p + 7, k, u)
        BY <1>1, <1>7, <2>1, <3>1, <3>6, <4>1, TellsRecord
      <4> QED
        BY <1>1, <3>2, <3>3, <4>2, TellsSkipAll
    <3> QED
      BY <1>3, <3>4, <3>5, <3>6
  <2> QED
    BY <2>2, <2>3
<1> QED
  BY <1>5, <1>6, <1>7

-----------------------------------------------------------------------------
(* What an append adds. *)

AnyLine == [text : Texts, value : Nat \union {Odd}, end : {"ended", "unended"}]

\* Lines of a record, or of a part of one, that read texts of X and the value w.
Piece(lines, w, X) ==
  /\ lines \in Seq(AnyLine) /\ Len(lines) <= 7
  /\ \A i \in 1 .. Len(lines) :
       /\ lines[i].text \in X
       /\ lines[i].value \in {w, Odd}
       /\ i < Len(lines) => lines[i].end = "ended"
       /\ lines[i].end # "ended" => Torn[lines[i].text] \subseteq X

\* A text that no reader out of step takes for a header.
Dull(text) == Counts[text] = 0

\* Only the first line is a header, and an unfinished one will be none.
Plain(lines) ==
  \A i \in 1 .. Len(lines) :
    /\ Dull(lines[i].text) \/ (i = 1 /\ lines[i].text = "*3")
    /\ lines[i].end # "ended" => \A u \in Torn[lines[i].text] : Dull(u)

\* What an append of SET w of key k may say, and what of it the client gave.
Said(k, w)  == {k, TextOf[w]} \union Fixed \union {""}
Given(k, w) == {k, TextOf[w]}

\* Texts and, when the append was cut, what they may have become.
Leaves(kept, texts) ==
  IF kept = "torn" THEN texts \union UNION {Torn[t] : t \in texts} ELSE texts

\* The texts of a record are texts, and so are what cuts make of them.
LEMMA SaidTexts ==
  ASSUME NEW k \in Keys, NEW w \in 1 .. MaxSets
  PROVE  /\ Said(k, w) \in SUBSET Texts
         /\ \A t \in Texts : Torn[t] \in SUBSET Texts
         /\ \A t \in Fixed \ {"*3"} : Dull(t)
         /\ \A t \in Fixed : \A u \in Torn[t] : Dull(u)
         /\ \A t \in Texts : \A u \in Torn[t] : Torn[u] \subseteq Torn[t]
<1>1. Said(k, w) \in SUBSET Texts
  <2>1. /\ Keys \subseteq Texts /\ Fixed \subseteq Texts /\ "" \in Texts
        /\ TextOf \in [1 .. MaxSets -> Texts]
    BY KeyspaceAssumption
  <2>2. k \in Texts /\ TextOf[w] \in Texts
    BY <2>1
  <2> QED
    BY <2>1, <2>2, Zenon DEF Said
<1>2. /\ \A t \in Texts : Torn[t] \in SUBSET Texts
      /\ \A t \in Texts : \A u \in Torn[t] : Torn[u] \subseteq Torn[t]
  BY KeyspaceAssumption
<1> QED
  BY <1>1, <1>2, Headers DEF Dull

\* The seven lines AppendToAof writes for a SET.
LEMMA RecordLines ==
  ASSUME NEW k \in Keys, NEW w \in Nat, w \in 1 .. MaxSets
  PROVE  LET r == Record(k, w) IN
         /\ r \in Seq(AnyLine) /\ Len(r) = 7
         /\ \A i \in 1 .. 7 : r[i].end = "ended" /\ r[i] \in AnyLine
         /\ r[1].text = "*3" /\ r[3].text = "SET" /\ r[5].text = k /\ r[7].value = w
         /\ \A i \in 2 .. 7 : r[i].text \in Given(k, w) \union (Fixed \ {"*3"})
         /\ \A i \in 1 .. 7 : r[i].text \in Said(k, w) /\ r[i].value \in {w, Odd}
<1> DEFINE last == [Line(TextOf[w]) EXCEPT !.value = w]
           r == Record(k, w)
<1>1. \A t : /\ Line(t).text = t /\ Line(t).value = Odd /\ Line(t).end = "ended"
             /\ t \in Texts => Line(t) \in AnyLine
  BY DEF Line, AnyLine
<1>2. /\ last.text = TextOf[w] /\ last.value = w /\ last.end = "ended"
      /\ last \in AnyLine
  BY SaidTexts DEF Line, AnyLine, Said
<1>3. r = << Line("*3"), Line("$"), Line("SET"), Line("$"), Line(k), Line("$"), last >>
  BY DEF Record
<1>4. /\ Line("*3") \in AnyLine /\ Line("$") \in AnyLine /\ Line("SET") \in AnyLine
      /\ Line(k) \in AnyLine
  BY <1>1, SaidTexts DEF Said, Fixed
<1> HIDE DEF last, r
<1>5. r \in Seq(AnyLine) /\ Len(r) = 7
  BY <1>2, <1>3, <1>4
<1>6. /\ r[1] = Line("*3") /\ r[2] = Line("$") /\ r[3] = Line("SET") /\ r[4] = Line("$")
      /\ r[5] = Line(k) /\ r[6] = Line("$") /\ r[7] = last
  BY <1>3
<1>7. /\ \A i \in 1 .. 7 : i = 1 \/ i = 2 \/ i = 3 \/ i = 4 \/ i = 5 \/ i = 6 \/ i = 7
      /\ \A i \in 2 .. 7 : i = 2 \/ i = 3 \/ i = 4 \/ i = 5 \/ i = 6 \/ i = 7
  OBVIOUS
<1>8. /\ r[1].text = "*3" /\ r[2].text = "$" /\ r[3].text = "SET" /\ r[4].text = "$"
      /\ r[5].text = k /\ r[6].text = "$" /\ r[7].text = TextOf[w] /\ r[7].value = w
      /\ r[1].value = Odd /\ r[2].value = Odd /\ r[3].value = Odd /\ r[4].value = Odd
      /\ r[5].value = Odd /\ r[6].value = Odd
  BY <1>1, <1>2, <1>6
<1>9. \A i \in 1 .. 7 : r[i].end = "ended" /\ r[i] \in AnyLine
  BY <1>1, <1>2, <1>4, <1>6, <1>7
<1>10. \A i \in 2 .. 7 : r[i].text \in Given(k, w) \union (Fixed \ {"*3"})
  BY <1>7, <1>8 DEF Given, Fixed
<1>11. \A i \in 1 .. 7 : r[i].text \in Said(k, w) /\ r[i].value \in {w, Odd}
  BY <1>7, <1>8 DEF Said, Fixed
<1> QED
  BY <1>5, <1>8, <1>9, <1>10, <1>11 DEF r

\* A whole record is a piece of its own SET, and plain unless its key or its
\* value looks like a header.
LEMMA RecordIsPiece ==
  ASSUME NEW k \in Keys, NEW w \in Nat, w \in 1 .. MaxSets
  PROVE  /\ Piece(Record(k, w), w, Said(k, w))
         /\ (\A t \in Given(k, w) : Dull(t)) => Plain(Record(k, w))
<1> DEFINE r == Record(k, w)
<1>1. /\ r \in Seq(AnyLine) /\ Len(r) = 7
      /\ \A i \in 1 .. 7 : r[i].end = "ended"
      /\ r[1].text = "*3"
      /\ \A i \in 2 .. 7 : r[i].text \in Given(k, w) \union (Fixed \ {"*3"})
      /\ \A i \in 1 .. 7 : r[i].text \in Said(k, w) /\ r[i].value \in {w, Odd}
  BY RecordLines
<1> HIDE DEF r
<1>2. Piece(r, w, Said(k, w))
  BY <1>1 DEF Piece
<1>3. ASSUME \A t \in Given(k, w) : Dull(t) PROVE Plain(r)
  <2>1. \A i \in 2 .. 7 : Dull(r[i].text)
    BY <1>1, <1>3, SaidTexts
  <2>2. \A i \in 1 .. 7 : i = 1 \/ i \in 2 .. 7
    OBVIOUS
  <2> QED
    BY <1>1, <2>1, <2>2 DEF Plain
<1> QED
  BY <1>2, <1>3 DEF r

\* What is written of a record when an append stops is a piece of its SET.
LEMMA BeginningIsPiece ==
  ASSUME NEW k \in Keys, NEW w \in Nat, w \in 1 .. MaxSets, NEW cut \in Cuts,
         NEW lines \in Beginnings(k, w, cut)
  PROVE  /\ Piece(lines, w, Leaves("torn", Said(k, w)))
         /\ (\A t \in Leaves("torn", Given(k, w)) : Dull(t)) => Plain(lines)
         /\ cut = <<0, "none">> => lines = <<>>
<1> DEFINE n == cut[1]
           r == Record(k, w)
           a == SubSeq(r, 1, n)
           X == Leaves("torn", Said(k, w))
           part(t) == [Line(t) EXCEPT !.end = "unended"]
           rest == [r[n + 1] EXCEPT !.end = "unended"]
           G == \A t \in Leaves("torn", Given(k, w)) : Dull(t)
<1>1. n \in 0 .. 6 /\ cut[2] \in Ends
  BY KeyspaceAssumption
<1>2. /\ r \in Seq(AnyLine) /\ Len(r) = 7
      /\ \A i \in 1 .. 7 : r[i].end = "ended" /\ r[i] \in AnyLine
      /\ r[1].text = "*3"
      /\ \A i \in 2 .. 7 : r[i].text \in Given(k, w) \union (Fixed \ {"*3"})
      /\ \A i \in 1 .. 7 : r[i].text \in Said(k, w) /\ r[i].value \in {w, Odd}
  BY RecordLines
<1>3. /\ Said(k, w) \in SUBSET Texts /\ Said(k, w) \subseteq X /\ X \in SUBSET Texts
      /\ \A t \in Said(k, w) : Torn[t] \subseteq X
      /\ \A t \in X : Torn[t] \subseteq X
  BY SaidTexts DEF Leaves
<1>4. ASSUME G
      PROVE  /\ \A i \in 1 .. 7 : Dull(r[i].text) \/ (i = 1 /\ r[i].text = "*3")
             /\ \A i \in 1 .. 7 : \A u \in Torn[r[i].text] : Dull(u)
  <2>1. \A i \in 1 .. 7 : i = 1 \/ i \in 2 .. 7
    OBVIOUS
  <2>2. \A t \in Given(k, w) : Dull(t) /\ \A u \in Torn[t] : Dull(u)
    BY <1>4 DEF Leaves
  <2>3. ASSUME NEW i \in 2 .. 7
        PROVE  Dull(r[i].text) /\ \A u \in Torn[r[i].text] : Dull(u)
    <3>1. r[i].text \in Given(k, w) \/ r[i].text \in Fixed \ {"*3"}
      BY <1>2
    <3> QED
      BY <2>2, <3>1, SaidTexts, Zenon
  <2>4. \A u \in Torn[r[1].text] : Dull(u)
    <3>0. "*3" \in Fixed
      BY DEF Fixed
    <3>1. \A u \in Torn["*3"] : Dull(u)
      BY <3>0, SaidTexts, Zenon
    <3> QED
      BY <1>2, <3>1
  <2> QED
    BY <1>2, <2>1, <2>3, <2>4, Zenon
<1> HIDE DEF r, X, G
<1>5. a \in Seq(AnyLine) /\ Len(a) = n /\ \A i \in 1 .. n : a[i] = r[i] /\ i \in 1 .. 7
  <2>1. \A i \in 1 .. n : i \in 1 .. 7
    BY <1>1
  <2>2. \A q \in Seq(AnyLine) : \A m \in 0 .. Len(q) :
          (\A i \in 1 .. m : q[i] \in AnyLine) =>
          /\ SubSeq(q, 1, m) \in Seq(AnyLine) /\ Len(SubSeq(q, 1, m)) = m
          /\ \A i \in 1 .. m : SubSeq(q, 1, m)[i] = q[i]
    BY SubSeqProperties
  <2> QED
    BY <1>1, <1>2, <2>1, <2>2
<1> HIDE DEF a
<1>6. Piece(a, w, X) /\ (G => Plain(a))
  <2>1. n <= 7
    BY <1>1
  <2>2. Piece(a, w, X)
    BY <1>2, <1>3, <1>5, <2>1 DEF Piece
  <2>3. G => Plain(a)
    BY <1>2, <1>4, <1>5 DEF Plain
  <2> QED
    BY <2>2, <2>3
<1>7. ASSUME NEW l \in AnyLine, l.text \in X, l.value \in {w, Odd},
             G => /\ Dull(l.text) \/ (n = 0 /\ l.text = "*3")
                  /\ \A u \in Torn[l.text] : Dull(u)
      PROVE  Piece(Append(a, l), w, X) /\ (G => Plain(Append(a, l)))
  <2> DEFINE b == Append(a, l)
  <2>1. /\ b \in Seq(AnyLine) /\ Len(b) = n + 1
        /\ \A i \in 1 .. n : b[i] = a[i]
        /\ b[n + 1] = l
    BY <1>5, AppendProperties
  <2>2. \A i \in 1 .. n + 1 : (i \in 1 .. n /\ i < n + 1) \/ (i = n + 1 /\ ~(i < n + 1))
    BY <1>1
  <2> HIDE DEF b
  <2>3. ASSUME NEW i \in 1 .. n + 1
        PROVE  /\ b[i].text \in X /\ b[i].value \in {w, Odd}
               /\ i < n + 1 => b[i].end = "ended"
               /\ b[i].end # "ended" => Torn[b[i].text] \subseteq X
    <3>1. CASE i \in 1 .. n
      <4>1. b[i] = r[i] /\ i \in 1 .. 7
        BY <1>5, <2>1, <3>1
      <4> QED
        BY <1>2, <1>3, <4>1
    <3>2. CASE i = n + 1 /\ ~(i < n + 1)
      <4>1. b[i] = l
        BY <2>1, <3>2
      <4> QED
        BY <1>3, <1>7, <3>2, <4>1
    <3> QED
      BY <2>2, <3>1, <3>2
  <2>4. Piece(b, w, X)
    BY <1>1, <2>1, <2>3 DEF Piece
  <2>5. ASSUME G PROVE Plain(b)
    <3> SUFFICES ASSUME NEW i \in 1 .. n + 1
                 PROVE  /\ Dull(b[i].text) \/ (i = 1 /\ b[i].text = "*3")
                        /\ \A u \in Torn[b[i].text] : Dull(u)
      BY <2>1 DEF Plain
    <3>1. CASE i \in 1 .. n
      <4>1. b[i] = r[i] /\ i \in 1 .. 7
        BY <1>5, <2>1, <3>1
      <4> QED
        BY <1>4, <2>5, <4>1
    <3>2. CASE i = n + 1
      <4>1. b[i] = l /\ (n = 0 => i = 1)
        BY <2>1, <3>2
      <4> QED
        BY <1>7, <2>5, <4>1
    <3> QED
      BY <2>2, <3>1, <3>2
  <2> QED
    BY <2>4, <2>5 DEF b
<1>8. n + 1 \in 1 .. 7 /\ (n = 0 <=> n + 1 = 1)
  BY <1>1
<1>9. CASE cut[2] = "none"
  <2>1. lines = a
    BY <1>9 DEF Beginnings, a, r
  <2>2. n = 0 => a = <<>>
    BY <1>5, EmptySeq
  <2> QED
    BY <1>6, <2>1, <2>2 DEF X, G
<1>10. CASE cut[2] = "part"
  <2>1. PICK t \in Torn[r[n + 1].text] : lines = Append(a, part(t))
    BY <1>10 DEF Beginnings, a, r
  <2>2. t \in X /\ t \in Texts
    BY <1>2, <1>3, <1>8
  <2>3. part(t) \in AnyLine /\ part(t).text = t /\ part(t).value = Odd
    BY <2>2 DEF Line, AnyLine
  <2>4. G => Dull(t) /\ \A u \in Torn[t] : Dull(u)
    <3>1. r[n + 1].text \in Texts /\ Torn[t] \subseteq Torn[r[n + 1].text]
      BY <1>2, <1>3, <1>8, <2>1, SaidTexts
    <3> QED
      BY <1>4, <1>8, <2>1, <3>1
  <2> HIDE DEF part
  <2>5. Piece(lines, w, X) /\ (G => Plain(lines))
    BY <1>7, <2>1, <2>2, <2>3, <2>4
  <2> QED
    BY <1>10, <2>5 DEF X, G
<1>11. CASE cut[2] = "unended"
  <2>1. lines = Append(a, rest)
    BY <1>11 DEF Beginnings, a, r
  <2>2. /\ rest \in AnyLine /\ rest.text = r[n + 1].text /\ rest.value = r[n + 1].value
    BY <1>2, <1>8 DEF AnyLine
  <2>3. /\ r[n + 1].text \in X /\ r[n + 1].value \in {w, Odd}
        /\ G => /\ Dull(r[n + 1].text) \/ (n = 0 /\ r[n + 1].text = "*3")
                /\ \A u \in Torn[r[n + 1].text] : Dull(u)
    BY <1>2, <1>3, <1>4, <1>8
  <2> HIDE DEF rest
  <2>5. Piece(lines, w, X) /\ (G => Plain(lines))
    BY <1>7, <2>1, <2>2, <2>3
  <2> QED
    BY <1>11, <2>5 DEF X, G
<1> QED
  BY <1>1, <1>9, <1>10, <1>11 DEF Ends

\* Lines put behind lines keep their order.
LEMMA ConcatLines ==
  \A s, t \in Seq(AnyLine) :
    /\ s \o t \in Seq(AnyLine) /\ Len(s) \in Nat /\ Len(t) \in Nat
    /\ Len(s \o t) = Len(s) + Len(t)
    /\ \A i \in 1 .. Len(s) : (s \o t)[i] = s[i]
    /\ \A i \in 1 .. Len(t) : (s \o t)[Len(s) + i] = t[i]
<1> SUFFICES ASSUME NEW s \in Seq(AnyLine), NEW t \in Seq(AnyLine)
             PROVE  /\ s \o t \in Seq(AnyLine) /\ Len(s) \in Nat /\ Len(t) \in Nat
                    /\ Len(s \o t) = Len(s) + Len(t)
                    /\ \A i \in 1 .. Len(s) : (s \o t)[i] = s[i]
                    /\ \A i \in 1 .. Len(t) : (s \o t)[Len(s) + i] = t[i]
  OBVIOUS
<1>1. Len(s) \in Nat /\ Len(t) \in Nat
  OBVIOUS
<1>2. /\ s \o t \in Seq(AnyLine) /\ Len(s \o t) = Len(s) + Len(t)
      /\ \A i \in 1 .. Len(s) + Len(t) :
           (s \o t)[i] = IF i <= Len(s) THEN s[i] ELSE t[i - Len(s)]
  BY ConcatProperties
<1>3. ASSUME NEW i \in 1 .. Len(s) PROVE (s \o t)[i] = s[i]
  <2>1. i \in 1 .. Len(s) + Len(t) /\ i <= Len(s)
    BY <1>1
  <2> QED
    BY <1>2, <2>1
<1>4. ASSUME NEW i \in 1 .. Len(t) PROVE (s \o t)[Len(s) + i] = t[i]
  <2>1. Len(s) + i \in 1 .. Len(s) + Len(t) /\ ~(Len(s) + i <= Len(s))
        /\ (Len(s) + i) - Len(s) = i
    BY <1>1
  <2> QED
    BY <1>2, <2>1
<1> QED
  BY <1>1, <1>2, <1>3, <1>4

\* The file after an append: lines behind it, the first of which may complete
\* an unfinished last one.
LEMMA WrittenLines ==
  ASSUME file \in Seq(AnyLine), NEW lines \in Seq(AnyLine), NEW more \in Written(lines)
  PROVE  LET n == Len(file) IN
         /\ more \in Seq(AnyLine) /\ n \in Nat /\ Len(lines) \in Nat
         /\ LastEnded(file) \/ Len(lines) = 0 =>
              /\ Len(more) = n + Len(lines)
              /\ \A i \in 1 .. n : more[i] = file[i]
              /\ \A i \in 1 .. Len(lines) : more[n + i] = lines[i]
         /\ ~LastEnded(file) /\ Len(lines) # 0 =>
              /\ n # 0 /\ Len(more) = (n - 1) + Len(lines)
              /\ \A i \in 1 .. n - 1 : more[i] = file[i]
              /\ more[n].text \in Torn[file[n].text] /\ more[n].value = Odd
              /\ more[n].end = lines[1].end
              /\ \A i \in 2 .. Len(lines) : more[(n - 1) + i] = lines[i]
<1> DEFINE n == Len(file)
           glued(x) == [Line(x) EXCEPT !.end = Head(lines).end]
           a == Front(file)
           t == Tail(lines)
<1>1. n \in Nat /\ Len(lines) \in Nat
  OBVIOUS
<1>2. (file = <<>> <=> n = 0) /\ (lines = <<>> <=> Len(lines) = 0)
  BY EmptySeq
<1>3. CASE LastEnded(file) \/ Len(lines) = 0
  <2>1. more = file \o lines
    BY <1>2, <1>3 DEF Written, LastEnded, Last
  <2> QED
    BY <1>1, <1>3, <2>1, ConcatLines
<1>4. CASE ~LastEnded(file) /\ Len(lines) # 0
  <2>0. n # 0 /\ \E x \in Torn[file[n].text] : more = a \o <<glued(x)>> \o t
    BY <1>2, <1>4 DEF Written, LastEnded, Last
  <2>a. PICK x \in Torn[file[n].text] : more = a \o <<glued(x)>> \o t
    BY <2>0
  <2>b. PICK g : g = glued(x)
    OBVIOUS
  <2>1. n # 0 /\ more = a \o <<g>> \o t
    BY <2>0, <2>a, <2>b
  <2>2. /\ a \in Seq(AnyLine) /\ Len(a) = n - 1 /\ \A i \in 1 .. n - 1 : a[i] = file[i]
    <3>1. \A s \in Seq(AnyLine) : \A m \in 0 .. Len(s) :
            (\A i \in 1 .. m : s[i] \in AnyLine) =>
            /\ SubSeq(s, 1, m) \in Seq(AnyLine) /\ Len(SubSeq(s, 1, m)) = m
            /\ \A i \in 1 .. m : SubSeq(s, 1, m)[i] = s[i]
      BY SubSeqProperties
    <3>2. \A s \in Seq(AnyLine) : \A i \in 1 .. Len(s) : s[i] \in AnyLine
      BY ElementOfSeq
    <3>3. n - 1 \in 0 .. Len(file) /\ \A i \in 1 .. n - 1 : i \in 1 .. Len(file)
      BY <1>1, <2>1
    <3>4. \A i \in 1 .. n - 1 : file[i] \in AnyLine
      BY <3>2, <3>3
    <3>5. a = SubSeq(file, 1, n - 1)
      BY DEF Front
    <3> HIDE DEF a, n
    <3> QED
      BY <3>1, <3>3, <3>4, <3>5
  <2>3. Head(lines) = lines[1] /\ lines[1] \in AnyLine
    <3>1. \A s \in Seq(AnyLine) : \A i \in 1 .. Len(s) : s[i] \in AnyLine
      BY ElementOfSeq
    <3>2. 1 \in 1 .. Len(lines)
      BY <1>1, <1>4
    <3> QED
      BY <3>1, <3>2
  <2>4. g \in AnyLine /\ g.text = x /\ g.value = Odd /\ g.end = lines[1].end
    <3>1. \A q \in Seq(AnyLine) : \A i \in 1 .. Len(q) : q[i] \in AnyLine
      BY ElementOfSeq
    <3>2. n \in 1 .. Len(file)
      BY <1>1, <2>0
    <3>3. file[n] \in AnyLine
      BY <3>1, <3>2
    <3>4. file[n].text \in Texts
      BY <3>3 DEF AnyLine
    <3>5. x \in Texts
      BY <2>a, <3>4, KeyspaceAssumption
    <3>6. lines[1].end \in {"ended", "unended"}
      BY <2>3 DEF AnyLine
    <3>7. g = [text |-> x, value |-> Odd, end |-> lines[1].end]
      BY <2>3, <2>b DEF Line
    <3> QED
      BY <3>5, <3>6, <3>7 DEF AnyLine
  <2>5. /\ t \in Seq(AnyLine) /\ Len(t) = Len(lines) - 1
        /\ \A i \in 1 .. Len(lines) - 1 : t[i] = lines[i + 1]
    <3>1. \A s \in Seq(AnyLine) : s # <<>> =>
            /\ Tail(s) \in Seq(AnyLine) /\ Len(Tail(s)) = Len(s) - 1
            /\ \A i \in 1 .. Len(Tail(s)) : Tail(s)[i] = s[i + 1]
      BY HeadTailProperties
    <3> HIDE DEF n
    <3> QED
      BY <1>2, <1>4, <3>1
  <2> HIDE DEF a, t, glued
  <2> DEFINE b == a \o <<g>>
  <2>6. <<g>> \in Seq(AnyLine) /\ Len(<<g>>) = 1 /\ <<g>>[1] = g
    BY <2>4
  <2>7. /\ b \in Seq(AnyLine) /\ Len(b) = n
        /\ \A i \in 1 .. n - 1 : b[i] = file[i]
        /\ b[n] = g
    <3>1. /\ b \in Seq(AnyLine) /\ Len(b) = (n - 1) + 1
          /\ \A i \in 1 .. n - 1 : b[i] = a[i]
          /\ \A i \in 1 .. 1 : b[(n - 1) + i] = <<g>>[i]
      BY <2>2, <2>6, ConcatLines
    <3>2. b[(n - 1) + 1] = <<g>>[1] /\ (n - 1) + 1 = n
      BY <1>1, <3>1
    <3> HIDE DEF b, n
    <3> QED
      BY <2>2, <2>6, <3>1, <3>2
  <2>8a. more = b \o t
    BY <2>1 DEF b
  <2> HIDE DEF b
  <2>8. /\ more \in Seq(AnyLine) /\ Len(more) = n + (Len(lines) - 1)
        /\ \A i \in 1 .. n : more[i] = b[i]
        /\ \A i \in 1 .. Len(lines) - 1 : more[n + i] = t[i]
    <3>1. /\ b \o t \in Seq(AnyLine) /\ Len(b \o t) = Len(b) + Len(t)
          /\ \A i \in 1 .. Len(b) : (b \o t)[i] = b[i]
          /\ \A i \in 1 .. Len(t) : (b \o t)[Len(b) + i] = t[i]
      BY <2>5, <2>7, ConcatLines
    <3>2. Len(b) = n /\ Len(t) = Len(lines) - 1
      BY <2>5, <2>7
    <3> HIDE DEF n
    <3> QED
      BY <2>8a, <3>1, <3>2
  <2>9. ASSUME NEW i \in 2 .. Len(lines) PROVE more[(n - 1) + i] = lines[i]
    <3>1. i - 1 \in 1 .. Len(lines) - 1 /\ n + (i - 1) = (n - 1) + i /\ (i - 1) + 1 = i
      BY <1>1
    <3>2. more[n + (i - 1)] = t[i - 1] /\ t[i - 1] = lines[(i - 1) + 1]
      BY <2>5, <2>8, <3>1
    <3> QED
      BY <3>1, <3>2
  <2>10. /\ \A i \in 1 .. n - 1 : i \in 1 .. n
         /\ n \in 1 .. n /\ n + (Len(lines) - 1) = (n - 1) + Len(lines)
    BY <1>1, <2>1
  <2>11. /\ \A i \in 1 .. n - 1 : more[i] = file[i]
         /\ more[n] = g
    BY <2>7, <2>8, <2>10
  <2> QED
    BY <1>1, <1>4, <2>0, <2>4, <2>8, <2>9, <2>10, <2>11
<1> QED
  BY <1>3, <1>4

\* An unfinished last line is no header but that of a record, and will be none.
Calm(lines) ==
  ~LastEnded(lines) =>
    /\ Dull(lines[Len(lines)].text) \/ lines[Len(lines)].text = "*3"
    /\ \A u \in Torn[lines[Len(lines)].text] : Dull(u)

\* What the parser finds at p and after it once a piece of a record is appended.
Continues(more, lines, p, X, V) ==
  /\ more \in Seq(AnyLine) /\ GoodLines(more, V) /\ EndedButLast(more)
  /\ p \in 1 .. Len(more) + 1 /\ SameBefore(more, file, p)
  /\ p = Len(more) + 1 => LastEnded(more)
  /\ Calm(file) /\ Plain(lines) =>
       /\ p <= Len(more) /\ more[p].text # "*3" => \A i \in p .. Len(more) : Dull(more[i].text)
       /\ \A i \in p + 7 .. Len(more) : Dull(more[i].text)
       /\ Calm(more)
  /\ \A j : j \notin X /\ Silent(file, p, j) => Silent(more, p, j)
  /\ Len(lines) = 7 /\ lines[7].end = "ended" => LastEnded(more) /\ p + 6 <= Len(more)

\* What a piece behind the lines of a file, the first of them perhaps glued to an
\* unended last one, changes for AOFParser.
LEMMA AppendedLines ==
  ASSUME file \in Seq(AnyLine), NEW V \in SUBSET Nat, GoodLines(file, V), EndedButLast(file),
         NEW p \in 1 .. Len(file) + 1, Rest(file, p),
         NEW w \in V, NEW X, Nothing.text \in X, NEW lines, Piece(lines, w, X),
         NEW more \in Written(lines)
  PROVE  Continues(more, lines, p, X, V)
<1> DEFINE n == Len(file)
           m == Len(lines)
<1>01. \A j : j \notin X => j # ""
  BY Zenon DEF Nothing, Line
<1>0. \A l \in AnyLine : l.text \in Texts /\ l.end \in {"ended", "unended"}
  BY DEF AnyLine
<1>1. /\ lines \in Seq(AnyLine) /\ m \in Nat /\ m <= 7 /\ n \in Nat
      /\ \A i \in 1 .. m : /\ i < m => lines[i].end = "ended"
                           /\ Good(lines[i], V)
                           /\ lines[i].text \in X
                           /\ lines[i].end # "ended" => Torn[lines[i].text] \subseteq X
  <2>1. \A i \in 1 .. Len(lines) : lines[i] \in AnyLine
    <3>1. \A q \in Seq(AnyLine) : \A i \in 1 .. Len(q) : q[i] \in AnyLine
      BY ElementOfSeq
    <3> QED
      BY <3>1 DEF Piece
  <2> QED
    BY <1>0, <2>1 DEF Piece, Good
<1>2. /\ more \in Seq(AnyLine) /\ Len(more) \in Nat
      /\ LastEnded(file) \/ m = 0 =>
           /\ Len(more) = n + m
           /\ \A i \in 1 .. n : more[i] = file[i]
           /\ \A i \in 1 .. m : more[n + i] = lines[i]
      /\ ~LastEnded(file) /\ m # 0 =>
           /\ n # 0 /\ Len(more) = (n - 1) + m
           /\ \A i \in 1 .. n - 1 : more[i] = file[i]
           /\ more[n].text \in Torn[file[n].text] /\ more[n].value = Odd
           /\ more[n].end = lines[1].end
           /\ \A i \in 2 .. m : more[(n - 1) + i] = lines[i]
  BY <1>1, WrittenLines
<1>3. /\ \A i \in 1 .. n : Good(file[i], V)
      /\ \A i \in 1 .. n - 1 : file[i].end = "ended"
      /\ p \in Nat \ {0} /\ p <= n + 1
      /\ p = n + 1 \/ p = n \/ Begun(file, p)
      /\ p = n + 1 => LastEnded(file)
      /\ p = n /\ ~LastEnded(file) => ~Begun(file, p)
      /\ p <= n /\ LastEnded(file) => Begun(file, p)
  BY <1>1 DEF GoodLines, EndedButLast, Rest, Begun, LastEnded
<1>4. Begun(file, p) => /\ p <= n /\ file[p].text = "*3" /\ file[p].end = "ended"
                        /\ n <= p + 5 \/ (n = p + 6 /\ ~LastEnded(file))
  BY DEF Begun
<1>5. LastEnded(file) <=> n = 0 \/ file[n].end = "ended"
  BY DEF LastEnded
<1>40. /\ Calm(file) /\ ~LastEnded(file) => /\ Dull(file[n].text) \/ file[n].text = "*3"
                                            /\ \A u \in Torn[file[n].text] : Dull(u)
  BY DEF Calm
<1>41. Plain(lines) => \A i \in 1 .. m : /\ Dull(lines[i].text) \/ (i = 1 /\ lines[i].text = "*3")
                                         /\ lines[i].end # "ended" =>
                                              \A u \in Torn[lines[i].text] : Dull(u)
  BY DEF Plain
<1>42. Calm(more) <=> (~LastEnded(more) =>
         /\ Dull(more[Len(more)].text) \/ more[Len(more)].text = "*3"
         /\ \A u \in Torn[more[Len(more)].text] : Dull(u))
  BY DEF Calm
<1>43. \A j : Silent(file, p, j) =>
         /\ p <= n => j # ""
         /\ \A i \in p .. n : /\ file[i].text # j
                              /\ file[i].end # "ended" => j \notin Torn[file[i].text]
  BY Zenon DEF Silent, n
<1>44. ~LastEnded(file) => \A u \in Torn[file[n].text] : u \in Texts /\ Torn[u] \subseteq Torn[file[n].text]
  <2> SUFFICES ASSUME ~LastEnded(file) 
               PROVE  \A u \in Torn[file[n].text] :
                        u \in Texts /\ Torn[u] \subseteq Torn[file[n].text]
    OBVIOUS
  <2>1. n \in 1 .. n
    BY <1>1, <1>5
  <2>2. file[n].text \in Texts
    BY <1>3, <2>1 DEF Good
  <2> QED
    BY <2>2, KeyspaceAssumption
<1> HIDE DEF n, m
<1>6. SUFFICES
         /\ GoodLines(more, V) /\ EndedButLast(more)
         /\ p \in 1 .. Len(more) + 1 /\ SameBefore(more, file, p)
         /\ p = Len(more) + 1 => LastEnded(more)
         /\ Calm(file) /\ Plain(lines) /\ p <= Len(more) /\ more[p].text # "*3"
              => \A i \in p .. Len(more) : Dull(more[i].text)
         /\ Calm(file) /\ Plain(lines) => \A i \in p + 7 .. Len(more) : Dull(more[i].text)
         /\ Calm(file) /\ Plain(lines) => Calm(more)
         /\ \A j : j \notin X /\ Silent(file, p, j) => Silent(more, p, j)
         /\ m = 7 /\ lines[7].end = "ended" => LastEnded(more) /\ p + 6 <= Len(more)
  BY <1>2 DEF m, Continues
<1>61. m \in Nat /\ n \in Nat /\ p \in Nat \ {0} /\ p <= n + 1
  BY <1>1, <1>3
<1>62. Begun(file, p) => p <= n /\ n <= p + 6
  BY <1>4, <1>61
<1>7. CASE LastEnded(file) \/ m = 0
  <2>1. /\ Len(more) = n + m
        /\ \A i \in 1 .. n : more[i] = file[i]
        /\ \A i \in 1 .. m : more[n + i] = lines[i]
    BY <1>2, <1>7
  <2>2. ASSUME NEW i \in 1 .. n + m
        PROVE  \/ i \in 1 .. n /\ more[i] = file[i]
               \/ i - n \in 1 .. m /\ more[i] = lines[i - n]
    <3>1. CASE i <= n
      BY <1>1, <2>1, <3>1
    <3>2. CASE ~(i <= n)
      <4>1. i - n \in 1 .. m /\ n + (i - n) = i
        BY <1>1, <3>2
      <4>2. more[n + (i - n)] = lines[i - n]
        BY <2>1, <4>1
      <4> QED
        BY <4>1, <4>2
    <3> QED
      BY <3>1, <3>2
  <2>3. GoodLines(more, V)
    <3> SUFFICES ASSUME NEW i \in 1 .. n + m PROVE Good(more[i], V)
      BY <1>2, <2>1 DEF GoodLines
    <3>1. CASE i \in 1 .. n /\ more[i] = file[i]
      BY <1>3, <3>1
    <3>2. CASE i - n \in 1 .. m /\ more[i] = lines[i - n]
      BY <1>1, <3>2
    <3> QED
      BY <2>2, <3>1, <3>2
  <2>4. EndedButLast(more)
    <3> SUFFICES ASSUME NEW i \in 1 .. (n + m) - 1 PROVE more[i].end = "ended"
      BY <2>1 DEF EndedButLast
    <3>0. i \in 1 .. n + m
      BY <1>1
    <3>1. CASE i \in 1 .. n /\ more[i] = file[i]
      <4>1. i \in 1 .. n - 1 \/ (i = n /\ m # 0)
        BY <1>1, <3>1
      <4> QED
        BY <1>3, <1>5, <1>7, <3>1, <4>1
    <3>2. CASE i - n \in 1 .. m /\ more[i] = lines[i - n]
      <4>1. i - n < m
        BY <1>1
      <4> QED
        BY <1>1, <3>2, <4>1
    <3> QED
      BY <2>2, <3>0, <3>1, <3>2
  <2>5. p \in 1 .. Len(more) + 1 /\ SameBefore(more, file, p)
    <3>1. p \in 1 .. (n + m) + 1 /\ p - 1 <= n + m /\ \A i \in 1 .. p - 1 : i \in 1 .. n
      BY <1>61
    <3> QED
      BY <2>1, <3>1 DEF SameBefore
  <2>6. p = Len(more) + 1 => LastEnded(more)
    <3> SUFFICES ASSUME p = Len(more) + 1 PROVE LastEnded(more)
      OBVIOUS
    <3>1. m = 0 /\ p = n + 1 /\ Len(more) = n
      BY <1>1, <1>3, <2>1
    <3>2. n = 0 \/ more[n].end = "ended"
      BY <1>1, <1>3, <1>5, <2>1, <3>1
    <3> QED
      BY <3>1, <3>2 DEF LastEnded
  <2>7. ASSUME Calm(file), Plain(lines), p <= Len(more), more[p].text # "*3"
        PROVE  \A i \in p .. Len(more) : Dull(more[i].text)
    <3> SUFFICES ASSUME NEW i \in p .. n + m PROVE Dull(more[i].text)
      BY <2>1
    <3>1. i \in 1 .. n + m
      BY <1>1, <1>3
    <3>2. CASE p = n + 1
      <4>1. i - n \in 1 .. m /\ more[i] = lines[i - n]
        BY <1>1, <2>2, <3>1, <3>2
      <4>2. i - n = 1 => i = p
        BY <1>1, <3>2
      <4> QED
        BY <1>41, <2>7, <4>1, <4>2
    <3>3. CASE p # n + 1
      <4>1. p \in 1 .. n /\ more[p] = file[p]
        BY <1>1, <1>3, <2>1, <3>3
      <4>2. ~Begun(file, p)
        BY <1>4, <2>7, <4>1
      <4>3. m = 0 /\ p = n /\ ~LastEnded(file)
        BY <1>1, <1>3, <1>7, <3>3, <4>1, <4>2
      <4>4. i = p
        BY <1>1, <4>3
      <4> QED
        BY <1>40, <2>7, <4>1, <4>3, <4>4
    <3> QED
      BY <3>2, <3>3
  <2>8. ASSUME Plain(lines) PROVE \A i \in p + 7 .. Len(more) : Dull(more[i].text)
    <3> SUFFICES ASSUME NEW i \in p + 7 .. n + m PROVE Dull(more[i].text)
      BY <2>1
    <3>1. i \in 1 .. n + m /\ i >= p + 7
      BY <1>1, <1>3
    <3>2. n <= p + 6 /\ (m # 0 => n <= p + 5)
      BY <1>1, <1>3, <1>4, <1>7
    <3>3. i > n
      BY <1>1, <1>3, <3>1, <3>2
    <3>4. i - n \in 1 .. m /\ more[i] = lines[i - n]
      BY <1>1, <2>2, <3>1, <3>3
    <3>5. i - n # 1
      BY <1>1, <1>3, <3>1, <3>2, <3>4
    <3> QED
      BY <1>41, <2>8, <3>4, <3>5
  <2>80. ASSUME Calm(file), Plain(lines) PROVE Calm(more)
    <3>1. CASE m = 0
      <4>1. Len(more) = n /\ (n # 0 => more[n] = file[n])
        BY <1>1, <2>1, <3>1
      <4>2. LastEnded(more) <=> n = 0 \/ more[n].end = "ended"
        BY <4>1 DEF LastEnded
      <4> QED
        BY <1>5, <1>40, <1>42, <2>80, <4>1, <4>2
    <3>2. CASE m # 0
      <4>1. m \in 1 .. m /\ Len(more) # 0 /\ more[Len(more)] = lines[m]
        BY <1>1, <2>1, <3>2
      <4>2. LastEnded(more) <=> lines[m].end = "ended"
        BY <4>1 DEF LastEnded
      <4> QED
        BY <1>41, <1>42, <2>80, <4>1, <4>2
    <3> QED
      BY <3>1, <3>2
  <2>9. ASSUME NEW j, j \notin X, Silent(file, p, j) PROVE Silent(more, p, j)
    <3>1. j # ""
      BY <1>01, <2>9
    <3>2. ASSUME NEW i \in p .. n + m
          PROVE  more[i].text # j /\ (more[i].end # "ended" => j \notin Torn[more[i].text])
      <4>0. i \in 1 .. n + m
        BY <1>1, <1>3
      <4>1. CASE i \in 1 .. n /\ more[i] = file[i]
        <5>1. i \in p .. n
          BY <1>1, <1>3, <4>1
        <5> QED
          BY <1>43, <2>9, <4>1, <5>1
      <4>2. CASE i - n \in 1 .. m /\ more[i] = lines[i - n]
        BY <1>1, <2>9, <4>2
      <4> QED
        BY <2>2, <4>0, <4>1, <4>2
    <3> QED
      BY <2>1, <3>1, <3>2, Zenon DEF Silent
  <2>10. ASSUME m = 7, lines[7].end = "ended" PROVE LastEnded(more) /\ p + 6 <= Len(more)
    <3>1. more[n + 7] = lines[7] /\ Len(more) = n + 7
      BY <1>1, <2>1, <2>10
    <3> QED
      BY <1>1, <1>3, <2>10, <3>1 DEF LastEnded
  <2> QED
    BY <2>3, <2>4, <2>5, <2>6, <2>7, <2>8, <2>80, <2>9, <2>10
<1>8. CASE ~(LastEnded(file) \/ m = 0)
  <2>1. /\ n # 0 /\ m # 0 /\ Len(more) = (n - 1) + m
        /\ \A i \in 1 .. n - 1 : more[i] = file[i]
        /\ more[n].text \in Torn[file[n].text] /\ more[n].value = Odd
        /\ more[n].end = lines[1].end
        /\ \A i \in 2 .. m : more[(n - 1) + i] = lines[i]
    BY <1>2, <1>8
  <2>30. /\ more[n].text \in Texts /\ Torn[more[n].text] \subseteq Torn[file[n].text]
         /\ ~LastEnded(file)
    BY <1>8, <1>44, <2>1
  <2>0. p <= n
    BY <1>1, <1>3, <1>8
  <2>2. ASSUME NEW i \in 1 .. (n - 1) + m
        PROVE  \/ i \in 1 .. n - 1 /\ more[i] = file[i]
               \/ i = n
               \/ i - (n - 1) \in 2 .. m /\ more[i] = lines[i - (n - 1)]
    <3>1. CASE i < n
      <4>1. i \in 1 .. n - 1
        BY <1>61, <3>1
      <4> QED
        BY <2>1, <4>1
    <3>2. CASE i > n
      <4>1. i - (n - 1) \in 2 .. m /\ (n - 1) + (i - (n - 1)) = i
        BY <1>61, <3>2
      <4>2. more[(n - 1) + (i - (n - 1))] = lines[i - (n - 1)]
        BY <2>1, <4>1
      <4> QED
        BY <4>1, <4>2
    <3> QED
      BY <1>61, <3>1, <3>2
  <2>3. GoodLines(more, V)
    <3> SUFFICES ASSUME NEW i \in 1 .. (n - 1) + m PROVE Good(more[i], V)
      BY <1>2, <2>1 DEF GoodLines
    <3>1. CASE i \in 1 .. n - 1 /\ more[i] = file[i]
      <4>1. i \in 1 .. n
        BY <1>1, <3>1
      <4> QED
        BY <1>3, <3>1, <4>1
    <3>2. CASE i = n
      BY <2>1, <2>30, <3>2 DEF Good
    <3>3. CASE i - (n - 1) \in 2 .. m /\ more[i] = lines[i - (n - 1)]
      <4>1. i - (n - 1) \in 1 .. m
        BY <1>1, <3>3
      <4> QED
        BY <1>1, <3>3, <4>1
    <3> QED
      BY <2>2, <3>1, <3>2, <3>3
  <2>4. EndedButLast(more)
    <3> SUFFICES ASSUME NEW i \in 1 .. ((n - 1) + m) - 1 PROVE more[i].end = "ended"
      BY <2>1 DEF EndedButLast
    <3>0. i \in 1 .. (n - 1) + m
      BY <1>1, <2>1
    <3>1. CASE i \in 1 .. n - 1 /\ more[i] = file[i]
      BY <1>3, <3>1
    <3>2. CASE i = n
      <4>1. 1 \in 1 .. m /\ 1 < m
        BY <1>1, <2>1, <3>2
      <4> QED
        BY <1>1, <2>1, <3>2, <4>1
    <3>3. CASE i - (n - 1) \in 2 .. m /\ more[i] = lines[i - (n - 1)]
      <4>1. i - (n - 1) \in 1 .. m /\ i - (n - 1) < m
        BY <1>1, <2>1, <3>3
      <4> QED
        BY <1>1, <3>3, <4>1
    <3> QED
      BY <2>2, <3>0, <3>1, <3>2, <3>3
  <2>5. p \in 1 .. Len(more) + 1 /\ SameBefore(more, file, p)
    <3>1. p \in 1 .. ((n - 1) + m) + 1 /\ p - 1 <= (n - 1) + m
          /\ \A i \in 1 .. p - 1 : i \in 1 .. n - 1
      BY <1>61, <2>0, <2>1
    <3> QED
      BY <2>1, <3>1 DEF SameBefore
  <2>6. ~(p = Len(more) + 1)
    BY <1>1, <1>3, <2>0, <2>1
  <2>70. Calm(file) => Dull(more[n].text)
    BY <1>40, <2>1, <2>30
  <2>71. ASSUME Plain(lines), NEW i \in 1 .. (n - 1) + m, i > n
         PROVE  Dull(more[i].text)
    <3>1. i - (n - 1) \in 2 .. m /\ more[i] = lines[i - (n - 1)]
      <4>1. i # n /\ ~(i \in 1 .. n - 1)
        BY <1>61, <2>71
      <4> QED
        BY <2>2, <4>1
    <3>2. i - (n - 1) \in 1 .. m /\ i - (n - 1) # 1
      BY <1>61, <3>1
    <3> QED
      BY <1>41, <2>71, <3>1, <3>2
  <2>7. ASSUME Calm(file), Plain(lines), p <= Len(more), more[p].text # "*3"
        PROVE  \A i \in p .. Len(more) : Dull(more[i].text)
    <3> SUFFICES ASSUME NEW i \in p .. (n - 1) + m PROVE Dull(more[i].text)
      BY <2>1
    <3>1. p = n
      <4>1. CASE p = n
        BY <4>1
      <4>2. CASE p # n
        <5>1. p \in 1 .. n - 1 /\ more[p] = file[p]
          BY <1>1, <1>3, <2>0, <2>1, <4>2
        <5>2. Begun(file, p)
          BY <1>1, <1>3, <2>0, <4>2
        <5> QED
          BY <1>4, <2>7, <5>1, <5>2
      <4> QED
        BY <4>1, <4>2
    <3>2. i \in 1 .. (n - 1) + m /\ (i = n \/ i > n)
      BY <1>61, <3>1
    <3> QED
      BY <2>7, <2>70, <2>71, <3>2
  <2>8. ASSUME Plain(lines) PROVE \A i \in p + 7 .. Len(more) : Dull(more[i].text)
    <3> SUFFICES ASSUME NEW i \in p + 7 .. (n - 1) + m PROVE Dull(more[i].text)
      BY <2>1
    <3>1. i \in 1 .. (n - 1) + m /\ i >= p + 7
      BY <1>61
    <3>2. n <= p + 6
      <4>1. CASE p = n
        BY <1>61, <4>1
      <4>2. CASE p # n
        <5>1. p # n + 1
          BY <1>61, <2>0
        <5> QED
          BY <1>3, <1>62, <4>2, <5>1
      <4> QED
        BY <4>1, <4>2
    <3>3. i > n
      BY <1>61, <3>1, <3>2
    <3> QED
      BY <2>8, <2>71, <3>1, <3>3
  <2>81. more[Len(more)] = IF m = 1 THEN more[n] ELSE lines[m]
    <3>1. CASE m = 1
      <4>1. Len(more) = n
        BY <1>61, <2>1, <3>1
      <4> QED
        BY <3>1, <4>1
    <3>2. CASE m # 1
      <4>1. m \in 2 .. m
        BY <1>61, <2>1, <3>2
      <4> QED
        BY <2>1, <3>2, <4>1
    <3> QED
      BY <3>1, <3>2
  <2>82. m \in 1 .. m /\ Len(more) # 0
    BY <1>61, <2>1
  <2>80. ASSUME Calm(file), Plain(lines) PROVE Calm(more)
    <3>1. LastEnded(more) <=> more[Len(more)].end = "ended"
      BY <2>82 DEF LastEnded
    <3>2. CASE m = 1
      BY <1>40, <1>42, <2>30, <2>70, <2>80, <2>81, <3>2
    <3>3. CASE m # 1
      BY <1>41, <1>42, <2>80, <2>81, <2>82, <3>1, <3>3
    <3> QED
      BY <3>2, <3>3
  <2>9. ASSUME NEW j, j \notin X, Silent(file, p, j) PROVE Silent(more, p, j)
    <3>1. j # ""
      BY <1>01, <2>9
    <3>0. n \in p .. n
      BY <1>61, <2>0
    <3>3. j \notin Torn[file[n].text]
      BY <1>5, <1>43, <2>9, <2>30, <3>0
    <3>2. ASSUME NEW i \in p .. (n - 1) + m
          PROVE  more[i].text # j /\ (more[i].end # "ended" => j \notin Torn[more[i].text])
      <4>0. i \in 1 .. (n - 1) + m
        BY <1>61
      <4>1. CASE i \in 1 .. n - 1 /\ more[i] = file[i]
        <5>1. i \in p .. n
          BY <1>61, <4>1
        <5> QED
          BY <1>43, <2>9, <4>1, <5>1
      <4>2. CASE i = n
        BY <2>1, <2>30, <3>3, <4>2
      <4>3. CASE i - (n - 1) \in 2 .. m /\ more[i] = lines[i - (n - 1)]
        <5>1. i - (n - 1) \in 1 .. m
          BY <1>61, <4>3
        <5> QED
          BY <1>1, <2>9, <4>3, <5>1
      <4> QED
        BY <2>2, <4>0, <4>1, <4>2, <4>3
    <3> QED
      BY <2>1, <3>1, <3>2, Zenon DEF Silent
  <2>10. ASSUME m = 7, lines[7].end = "ended" PROVE LastEnded(more) /\ p + 6 <= Len(more)
    <3>1. 7 \in 2 .. m
      BY <2>10
    <3>2. more[(n - 1) + 7] = lines[7] /\ Len(more) = (n - 1) + 7
      BY <2>1, <2>10, <3>1
    <3> QED
      BY <1>1, <1>3, <2>0, <2>10, <3>2 DEF LastEnded
  <2> QED
    BY <2>3, <2>4, <2>5, <2>6, <2>7, <2>8, <2>80, <2>9, <2>10
<1> QED
  BY <1>7, <1>8

-----------------------------------------------------------------------------
(* The appends. *)

LogEntry == [set : Nat, kept : {"whole", "none", "torn"}]

\* A torn append, and no whole one behind it.
Pending ==
  \E i \in DOMAIN log : /\ log[i].kept = "torn"
                        /\ \A m \in DOMAIN log : m > i => log[m].kept # "whole"

\* The last append of key k is the one of SET v.
LogLast(k, v) ==
  \/ v = Absent /\ \A i \in DOMAIN log : KeyOf(i) # k
  \/ \E i \in DOMAIN log : /\ log[i].set = v /\ KeyOf(i) = k
                          /\ \A j \in DOMAIN log : j > i => KeyOf(j) # k

\* One more append in the history of appends.
LEMMA LogAppended ==
  ASSUME log \in Seq(LogEntry), NEW e \in LogEntry, log' = Append(log, e)
  PROVE  /\ Len(log) \in Nat /\ DOMAIN log = 1 .. Len(log)
         /\ log' \in Seq(LogEntry)
         /\ Len(log') = Len(log) + 1 /\ DOMAIN log' = 1 .. Len(log) + 1
         /\ log'[Len(log) + 1] = e
         /\ \A i \in 1 .. Len(log) : log'[i] = log[i]
<1>1. Len(log) \in Nat /\ DOMAIN log = 1 .. Len(log)
  BY LenProperties
<1>2. /\ log' \in Seq(LogEntry) /\ Len(log') = Len(log) + 1
      /\ log'[Len(log) + 1] = e
      /\ \A i \in 1 .. Len(log) : log'[i] = log[i]
  BY AppendProperties
<1>3. DOMAIN log' = 1 .. Len(log')
  BY <1>2, LenProperties
<1> QED
  BY <1>1, <1>2, <1>3

\* An append that is not intact, since it was cut or follows one that was.
Adrift(kept) == ~(kept = "whole" /\ ~Pending)

\* What an append changes in what is expected of the file.
LEMMA LogStep ==
  ASSUME log \in Seq(LogEntry), NEW w \in 1 .. MaxSets, w \in Nat,
         NEW kept \in {"whole", "none", "torn"},
         log' = Append(log, [set |-> w, kept |-> kept]), sets' = sets,
         NEW k \in Keys, k = sets[w].key
  PROVE  /\ \A j \in Texts : j \notin Damaged' /\ j # k => j \notin Damaged
         /\ k \notin Damaged' => ~Adrift(kept)
         /\ Adrift(kept) /\ kept # "none" =>
              /\ \A t \in Leaves(kept, Said(k, w)) : t \in Damaged'
              /\ ~Wild' => \A t \in Leaves(kept, Given(k, w)) : Dull(t)
         /\ Wild => Wild'
         /\ kept = "torn" => Pending'
         /\ Pending /\ kept # "whole" => Pending'
         /\ \A j, v : j # k /\ LogLast(j, v) => LogLast(j, v)'
         /\ LogLast(k, w)'
<1> DEFINE e == [set |-> w, kept |-> kept]
<1>0. PICK n : n = Len(log)
  OBVIOUS
<1>1. e \in LogEntry
  BY DEF LogEntry
<1>2. /\ n \in Nat /\ DOMAIN log = 1 .. n /\ DOMAIN log' = 1 .. n + 1 /\ Len(log') = n + 1
      /\ log'[n + 1] = e /\ \A i \in 1 .. n : log'[i] = log[i]
  BY <1>0, <1>1, LogAppended
<1>3. e.set = w /\ e.kept = kept
  OBVIOUS
<1> HIDE DEF e
<1>4. /\ \A i \in 1 .. n : KeyOf(i)' = KeyOf(i)
      /\ KeyOf(n + 1)' = k
  BY <1>2, <1>3 DEF KeyOf
<1>5. ASSUME NEW i \in 1 .. n PROVE Intact(i)' <=> Intact(i)
  <2>1. \A j \in 1 .. i - 1 : j \in 1 .. n
    BY <1>2
  <2>2. \A j \in 1 .. i - 1 : \A m \in j + 1 .. i - 1 : m \in 1 .. n
    BY <1>2
  <2> QED
    BY <1>2, <2>1, <2>2 DEF Intact
<1>6. Intact(n + 1)' => ~Adrift(kept)
  <2>1. \A j \in 1 .. n : \A m \in j + 1 .. n : m \in 1 .. n /\ m > j
    BY <1>2
  <2>2. (n + 1) - 1 = n
    BY <1>2
  <2>3. Intact(n + 1)' => /\ kept = "whole"
                          /\ \A j \in 1 .. n : log[j].kept = "torn" =>
                               \E m \in j + 1 .. n : log[m].kept = "whole"
    BY <1>2, <1>3, <2>1, <2>2 DEF Intact
  <2> QED
    BY <1>2, <2>1, <2>3 DEF Pending, Adrift
<1>61. ASSUME NEW i \in 1 .. n
       PROVE  /\ Says(i)' = Says(i)
              /\ \A T : Left(i, T)' = Left(i, T) /\ Left(i, Words(i))' = Left(i, Words(i))
  BY <1>2, <1>4 DEF Says, Left, Words
<1>62. /\ kept # "none" => Says(n + 1)' = Leaves(kept, Said(k, w))
       /\ kept = "none" => Says(n + 1)' = {k}
       /\ Left(n + 1, Words(n + 1))' = Leaves(kept, Given(k, w))
  BY <1>2, <1>3, <1>4, Zenon DEF Says, Left, Words, Leaves, Said, Given
<1>63. /\ k \in Said(k, w) /\ \A T : T \subseteq Leaves(kept, T)
       /\ Leaves(kept, Said(k, w)) \subseteq Texts /\ Leaves(kept, Given(k, w)) \subseteq Texts
  <2>1. Said(k, w) \in SUBSET Texts /\ Given(k, w) \in SUBSET Texts /\ k \in Said(k, w)
    BY SaidTexts, Zenon DEF Said, Given
  <2> QED
    BY <2>1, SaidTexts DEF Leaves
<1>64. k \in Says(n + 1)'
  BY <1>62, <1>63
<1>65. \A t \in Texts : Counts[t] > 0 \/ Dull(t)
  <2>1. \A t \in Texts : Counts[t] \in 0 .. 4
    BY Headers, Zenon
  <2> QED
    BY <2>1 DEF Dull
<1>66. Wild => Wild'
  <2>1. ASSUME NEW i \in 1 .. n, ~Intact(i), log[i].kept # "none",
               \E t \in Left(i, Words(i)) : Counts[t] > 0
        PROVE  Wild'
    <3>1. i \in DOMAIN log' /\ ~Intact(i)' /\ log'[i].kept # "none"
      BY <1>2, <1>5, <2>1
    <3>2. \E t \in Left(i, Words(i))' : Counts[t] > 0
      BY <1>61, <2>1
    <3> QED
      BY <3>1, <3>2 DEF Wild
  <2> QED
    BY <1>2, <2>1 DEF Wild
<1>67. ASSUME Adrift(kept), kept # "none", ~Wild'
       PROVE  \A t \in Leaves(kept, Given(k, w)) : Dull(t)
  <2>1. n + 1 \in DOMAIN log' /\ ~Intact(n + 1)' /\ log'[n + 1].kept # "none"
    BY <1>2, <1>3, <1>6, <1>67
  <2>2. \A t \in Left(n + 1, Words(n + 1))' : ~(Counts[t] > 0)
    BY <1>67, <2>1 DEF Wild
  <2> QED
    BY <1>62, <1>63, <1>65, <2>2
<1> DEFINE Harm(i, j) == /\ ~Intact(i) /\ j \in Says(i)
                         /\ ~\E m \in (i + 1) .. n : Intact(m) /\ KeyOf(m) = j
           More(i, j) == /\ ~Intact(i)' /\ j \in Says(i)'
                         /\ ~\E m \in (i + 1) .. n + 1 : Intact(m)' /\ KeyOf(m)' = j
<1>7. ~Wild => \A j : j \in Damaged <=> \E i \in 1 .. n : Harm(i, j)
  BY <1>0, <1>2 DEF Damaged
<1>8. ~Wild' => \A j : j \in Damaged' <=> \E i \in 1 .. n + 1 : More(i, j)
  BY <1>2 DEF Damaged
<1>81. Wild' => Damaged' = Texts
  BY DEF Damaged
<1>9. ASSUME NEW j \in Texts, j # k, j \in Damaged PROVE j \in Damaged'
  <2>0. CASE Wild'
    BY <1>81, <2>0
  <2>1. CASE ~Wild'
    <3>1. PICK i \in 1 .. n : Harm(i, j)
      BY <1>7, <1>9, <1>66, <2>1
    <3>2. i \in 1 .. n + 1 /\ j \in Says(i)' /\ ~Intact(i)'
      BY <1>2, <1>5, <1>61, <3>1
    <3>3. ASSUME NEW m \in i + 1 .. n + 1, Intact(m)', KeyOf(m)' = j PROVE FALSE
      <4>1. m # n + 1
        BY <1>4, <1>9, <3>3
      <4>2. m \in i + 1 .. n /\ m \in 1 .. n
        BY <1>2, <4>1
      <4> QED
        BY <1>4, <1>5, <3>1, <3>3, <4>2
    <3> QED
      BY <1>8, <2>1, <3>2, <3>3
  <2> QED
    BY <2>0, <2>1
<1>10. ASSUME Adrift(kept), NEW t \in Says(n + 1)', t \in Texts PROVE t \in Damaged'
  <2>1. n + 1 \in 1 .. n + 1 /\ \A m \in (n + 1) + 1 .. n + 1 : FALSE
    BY <1>2
  <2>2. CASE Wild'
    BY <1>10, <1>81, <2>2
  <2>3. CASE ~Wild'
    BY <1>6, <1>8, <1>10, <2>1, <2>3
  <2> QED
    BY <2>2, <2>3
<1>101. k \notin Damaged' => ~Adrift(kept)
  <2>1. k \in Texts
    BY <1>63, SaidTexts
  <2> QED
    BY <1>10, <1>64, <2>1
<1>102. Adrift(kept) /\ kept # "none" => \A t \in Leaves(kept, Said(k, w)) : t \in Damaged'
  BY <1>10, <1>62, <1>63
<1>11. kept = "torn" => Pending'
  <2>1. n + 1 \in 1 .. n + 1 /\ \A m \in 1 .. n + 1 : ~(m > n + 1)
    BY <1>2
  <2> QED
    BY <1>2, <1>3, <2>1 DEF Pending
<1>12. ASSUME Pending, kept # "whole" PROVE Pending'
  <2>1. PICK i \in 1 .. n : /\ log[i].kept = "torn"
                            /\ \A m \in 1 .. n : m > i => log[m].kept # "whole"
    BY <1>2, <1>12 DEF Pending
  <2>2. i \in 1 .. n + 1 /\ log'[i].kept = "torn"
    BY <1>2, <2>1
  <2>3. ASSUME NEW m \in 1 .. n + 1, m > i PROVE log'[m].kept # "whole"
    <3>1. CASE m = n + 1
      BY <1>2, <1>3, <1>12, <3>1
    <3>2. CASE m # n + 1
      <4>1. m \in 1 .. n
        BY <1>2, <3>2
      <4> QED
        BY <1>2, <2>1, <2>3, <4>1
    <3> QED
      BY <3>1, <3>2
  <2> QED
    BY <1>2, <2>2, <2>3 DEF Pending
<1>13. ASSUME NEW j, NEW v, j # k, LogLast(j, v) PROVE LogLast(j, v)'
  <2>1. CASE v = Absent /\ \A i \in DOMAIN log : KeyOf(i) # j
    <3>1. ASSUME NEW i \in 1 .. n + 1 PROVE KeyOf(i)' # j
      <4>1. i = n + 1 \/ i \in 1 .. n
        BY <1>2
      <4> QED
        BY <1>2, <1>4, <1>13, <2>1, <4>1
    <3> QED
      BY <1>2, <2>1, <3>1 DEF LogLast
  <2>2. CASE \E i \in DOMAIN log : /\ log[i].set = v /\ KeyOf(i) = j
                                  /\ \A m \in DOMAIN log : m > i => KeyOf(m) # j
    <3>1. PICK i \in 1 .. n : /\ log[i].set = v /\ KeyOf(i) = j
                              /\ \A m \in 1 .. n : m > i => KeyOf(m) # j
      BY <1>2, <2>2
    <3>2. i \in 1 .. n + 1 /\ log'[i].set = v /\ KeyOf(i)' = j
      BY <1>2, <1>4, <3>1
    <3>3. ASSUME NEW m \in 1 .. n + 1, m > i PROVE KeyOf(m)' # j
      <4>1. m = n + 1 \/ m \in 1 .. n
        BY <1>2
      <4> QED
        BY <1>4, <1>13, <3>1, <3>3, <4>1
    <3> QED
      BY <1>2, <3>2, <3>3 DEF LogLast
  <2> QED
    BY <1>13, <2>1, <2>2 DEF LogLast
<1>14. LogLast(k, w)'
  <2>1. n + 1 \in 1 .. n + 1 /\ \A m \in 1 .. n + 1 : ~(m > n + 1)
    BY <1>2
  <2> QED
    BY <1>2, <1>3, <1>4, <2>1 DEF LogLast
<1> QED
  BY <1>9, <1>101, <1>102, <1>66, <1>67, <1>11, <1>12, <1>13, <1>14

-----------------------------------------------------------------------------
(* The file and the appends. *)

\* Before p stand the records that are read as they were appended.  At p and
\* after it a torn append may be waiting for the next one, and then nothing is
\* named there but keys that are damaged.  The other keys have the value of
\* their last append.
RestsAt(p) ==
  /\ Rest(file, p) /\ Calm(file)
  /\ p <= Len(file) => Pending
  /\ \A k \in Texts \ Damaged : Silent(file, p, k) /\ \E v : LogLast(k, v) /\ Tells(file, p, k, v)
  /\ \A k \in Texts : \E v : Tells(file, p, k, v)

\* Nothing more is known once a text that looks like a header may have been
\* taken for one.
FileOK ==
  /\ file \in Seq(AnyLine) /\ GoodLines(file, DOMAIN sets) /\ EndedButLast(file)
  /\ Wild \/ \E p \in 1 .. Len(file) + 1 : RestsAt(p)

\* What matters of the lines of a whole record.
Whole(lines, k, w) ==
  /\ lines \in Seq(AnyLine) /\ Len(lines) = 7
  /\ \A i \in 1 .. 7 : lines[i].end = "ended"
  /\ lines[1].text = "*3" /\ lines[3].text = "SET"
  /\ lines[5].text = k /\ lines[7].value = w

\* The record of a SET is whole.
LEMMA RecordIsWhole ==
  \A k \in Keys, w \in Nat : w \in 1 .. MaxSets => Whole(Record(k, w), k, w)
BY RecordLines DEF Whole

\* An append, whole, torn or failed, keeps what FileOK says of the file.
LEMMA FileStep ==
  ASSUME FileOK, log \in Seq(LogEntry), DOMAIN sets \in SUBSET Nat, 
         NEW w \in DOMAIN sets, w \in 1 .. MaxSets, sets[w].key \in Keys,
         NEW kept \in {"whole", "none", "torn"}, NEW lines,
         kept = "whole" => lines = Record(sets[w].key, w),
         kept = "torn" =>
           /\ Piece(lines, w, Leaves("torn", Said(sets[w].key, w)))
           /\ (\A t \in Leaves("torn", Given(sets[w].key, w)) : Dull(t)) => Plain(lines),
         kept = "none" => lines = <<>>,
         file' \in Written(lines),
         log' = Append(log, [set |-> w, kept |-> kept]), sets' = sets
  PROVE  FileOK'
<1>0. PICK k : k = sets[w].key
  OBVIOUS
<1>1. w \in Nat /\ k \in Keys /\ k \in Texts
  BY <1>0, KeyspaceAssumption
<1>2. /\ \A j \in Texts : j \notin Damaged' /\ j # k => j \notin Damaged
      /\ k \notin Damaged' => ~Adrift(kept)
      /\ Adrift(kept) /\ kept # "none" =>
           /\ \A t \in Leaves(kept, Said(k, w)) : t \in Damaged'
           /\ ~Wild' => \A t \in Leaves(kept, Given(k, w)) : Dull(t)
      /\ Wild => Wild'
      /\ kept = "torn" => Pending'
      /\ Pending /\ kept # "whole" => Pending'
      /\ \A j, v : j # k /\ LogLast(j, v) => LogLast(j, v)'
      /\ LogLast(k, w)'
  BY <1>0, <1>1, LogStep
<1>5. PICK more \in Written(lines) : more = file'
  OBVIOUS
<1>51. /\ kept = "whole" => lines = Record(k, w)
       /\ kept = "torn" =>
            /\ Piece(lines, w, Leaves(kept, Said(k, w)))
            /\ (\A t \in Leaves(kept, Given(k, w)) : Dull(t)) => Plain(lines)
  BY <1>0
<1>52. kept = "whole" => Whole(lines, k, w)
  <2>1. Whole(Record(k, w), k, w)
    BY <1>1, RecordIsWhole
  <2> QED
    BY <1>51, <2>1
<1>53. kept # "none" =>
         /\ Piece(lines, w, Leaves(kept, Said(k, w)))
         /\ (\A t \in Leaves(kept, Given(k, w)) : Dull(t)) => Plain(lines)
  <2>1. CASE kept = "whole"
    <3>1. Leaves(kept, Said(k, w)) = Said(k, w) /\ Leaves(kept, Given(k, w)) = Given(k, w)
      BY <2>1 DEF Leaves
    <3> QED
      BY <1>1, <1>51, <2>1, <3>1, RecordIsPiece
  <2> QED
    BY <1>51, <2>1
<1>54. kept = "none" => more = file
  <2>1. lines = <<>> => Written(lines) = {file \o lines}
    BY DEF Written
  <2>2. file \o <<>> = file
    BY DEF FileOK
  <2> QED
    BY <1>5, <2>1, <2>2
<1>55. kept # "none" =>
         \A p \in 1 .. Len(file) + 1 : Rest(file, p) =>
           Continues(more, lines, p, Leaves(kept, Said(k, w)), DOMAIN sets)
  <2>1. Nothing.text \in Said(k, w)
    BY Zenon DEF Nothing, Line, Said
  <2>2. Nothing.text \in Leaves(kept, Said(k, w))
    BY <2>1 DEF Leaves
  <2>3. file \in Seq(AnyLine) /\ GoodLines(file, DOMAIN sets) /\ EndedButLast(file)
    BY DEF FileOK
  <2> QED
    BY <1>5, <1>53, <2>2, <2>3, AppendedLines
<1>56. /\ file' \in Seq(AnyLine) /\ GoodLines(file', DOMAIN sets) /\ EndedButLast(file')
  <2>1. CASE kept = "none"
    BY <1>5, <1>54, <2>1 DEF FileOK
  <2>2. CASE kept # "none"
    <3>1. /\ file \in Seq(AnyLine) /\ GoodLines(file, DOMAIN sets) /\ EndedButLast(file)
          /\ Len(file) \in Nat
      BY DEF FileOK, GoodLines
    <3>2. \E p \in 1 .. Len(file) + 1 : Rest(file, p)
      <4>1. Len(file) \in 1 .. Len(file) + 1 \/ LastEnded(file)
        BY <3>1 DEF LastEnded
      <4>2. Len(file) + 1 \in 1 .. Len(file) + 1
        BY <3>1
      <4> QED
        BY <4>1, <4>2 DEF Rest
    <3> QED
      BY <1>5, <1>55, <2>2, <3>2 DEF Continues
  <2> QED
    BY <2>1, <2>2
<1>57. SUFFICES ASSUME ~Wild' PROVE \E p \in 1 .. Len(file') + 1 : RestsAt(p)'
  BY <1>56 DEF FileOK
<1>3. PICK p \in 1 .. Len(file) + 1 : RestsAt(p)
  BY <1>2, <1>57 DEF FileOK
<1>4. /\ file \in Seq(AnyLine) /\ GoodLines(file, DOMAIN sets) /\ EndedButLast(file)
      /\ Rest(file, p) /\ Calm(file) /\ (p <= Len(file) => Pending)
      /\ \A j \in Texts \ Damaged : Silent(file, p, j)
                                    /\ \E v : LogLast(j, v) /\ Tells(file, p, j, v)
      /\ \A j \in Texts : \E v : Tells(file, p, j, v)
      /\ Len(file) \in Nat /\ p \in Nat \ {0} /\ p \in Nat
  BY <1>3 DEF FileOK, RestsAt, GoodLines
<1>6. /\ more \in Seq(AnyLine) /\ GoodLines(more, DOMAIN sets)
      /\ EndedButLast(more) /\ Len(more) \in Nat
  BY <1>5, <1>56 DEF GoodLines
<1>61. p \in 1 .. Len(more) + 1 /\ SameBefore(more, file, p)
  <2>1. CASE kept = "none"
    <3>1. SameBefore(file, file, p)
      BY <1>4 DEF SameBefore
    <3> QED
      BY <1>54, <2>1, <3>1
  <2> QED
    BY <1>4, <1>55, <2>1 DEF Continues
<1>7. GoodLines(more, Nat)
  BY <1>6 DEF GoodLines, Good
<1>8. ASSUME NEW j \in Texts, j \notin Damaged', j # k
      PROVE  /\ Silent(file, p, j)
             /\ \E v : LogLast(j, v)' /\ Tells(more, p, j, v)
  <2>1. j \in Texts \ Damaged
    BY <1>2, <1>8
  <2>2. PICK v : LogLast(j, v) /\ Tells(file, p, j, v)
    BY <1>4, <2>1
  <2>3. Tells(more, p, j, v)
    BY <1>4, <1>61, <2>2, TellsAsWell
  <2>4. LogLast(j, v)'
    BY <1>2, <1>8, <2>2
  <2> QED
    BY <1>4, <2>1, <2>3, <2>4
<1>80. \A j \in Texts : \E v : Tells(more, p, j, v)
  BY <1>4, <1>61, TellsAsWell
<1>9. SUFFICES \E q \in 1 .. Len(more) + 1 :
        /\ Rest(more, q) /\ Calm(more)
        /\ q <= Len(more) => Pending'
        /\ \A j \in Texts : j \notin Damaged' =>
             Silent(more, q, j) /\ \E v : LogLast(j, v)' /\ Tells(more, q, j, v)
        /\ \A j \in Texts : \E v : Tells(more, q, j, v)
  BY <1>5 DEF RestsAt
<1>10. CASE ~Adrift(kept)
  <2>0. kept = "whole" /\ ~Pending
    BY <1>10 DEF Adrift
  <2>1. p = Len(file) + 1 /\ LastEnded(file)
    BY <1>4, <2>0 DEF Rest, Begun
  <2>2. /\ lines \in Seq(AnyLine) /\ Len(lines) = 7
        /\ \A i \in 1 .. 7 : lines[i].end = "ended"
        /\ lines[1].text = "*3" /\ lines[3].text = "SET"
        /\ lines[5].text = k /\ lines[7].value = w
    BY <1>52, <2>0 DEF Whole
  <2>3. Len(more) = Len(file) + 7 /\ \A i \in 1 .. 7 : more[Len(file) + i] = lines[i]
    <3>1. /\ Len(more) = Len(file) + Len(lines)
          /\ \A i \in 1 .. Len(lines) : more[Len(file) + i] = lines[i]
      <4>1. file \in Seq(AnyLine) /\ lines \in Seq(AnyLine) /\ LastEnded(file)
        BY <1>4, <2>1, <2>2
      <4> QED
        BY <1>5, <4>1, WrittenLines
    <3> QED
      BY <2>2, <3>1
  <2>4. /\ Len(more) = p + 6
        /\ more[p] = lines[1] /\ more[p + 2] = lines[3]
        /\ more[p + 4] = lines[5] /\ more[p + 6] = lines[7]
    <3>1. /\ Len(file) + 1 = p /\ Len(file) + 3 = p + 2
          /\ Len(file) + 5 = p + 4 /\ Len(file) + 7 = p + 6
      BY <1>4, <2>1
    <3>2. /\ more[Len(file) + 1] = lines[1] /\ more[Len(file) + 3] = lines[3]
          /\ more[Len(file) + 5] = lines[5] /\ more[Len(file) + 7] = lines[7]
      BY <2>3
    <3>3. Len(more) = Len(file) + 7
      BY <2>3
    <3> QED
      BY <3>1, <3>2, <3>3
  <2>5. StoreAt(more, p) = << [key |-> k, value |-> w] >>
    <3>1. /\ LineAt(more, p) = more[p]
          /\ LineAt(more, p + 2) = more[p + 2] /\ LineAt(more, p + 4) = more[p + 4]
          /\ LineAt(more, p + 6) = more[p + 6]
      BY <1>4, <2>4 DEF LineAt
    <3>2. Counts[LineAt(more, p).text] = 3
      BY <2>2, <2>4, <3>1, Headers
    <3>3. LineAt(more, p + 2).text \in SetNames
      <4>1. lines[3].text \in SetNames
        BY <2>2, Headers, Zenon
      <4> QED
        BY <2>4, <3>1, <4>1
    <3> QED
      BY <2>2, <2>4, <3>1, <3>2, <3>3 DEF StoreAt
  <2>6. /\ \A v : After(StoreAt(more, p), k, v, w)
        /\ \A j, v : j # k => After(StoreAt(more, p), j, v, v)
    <3> DEFINE s == [key |-> k, value |-> w]
    <3>1. s.key = k /\ s.value = w
      OBVIOUS
    <3> HIDE DEF s
    <3>2. /\ DOMAIN <<s>> = {1} /\ <<s>>[1] = s
      OBVIOUS
    <3>3. /\ \A v : After(<<s>>, k, v, w)
          /\ \A j, v : j # k => After(<<s>>, j, v, v)
      BY <3>1, <3>2 DEF After
    <3> QED
      BY <2>5, <3>3 DEF s
  <2>7. more[p].text = "*3" /\ more[p].end = "ended"
    BY <2>2, <2>4
  <2>8. \A j, v, u : Tells(more, p, j, v) /\ After(StoreAt(more, p), j, v, u)
                      => Tells(more, p + 7, j, u)
    <3>1. p + 6 <= Len(more)
      BY <1>4, <2>4
    <3> QED
      BY <1>4, <1>7, <2>7, <3>1, TellsRecord
  <2>9. Tells(more, p + 7, k, w)
    BY <1>1, <1>80, <2>6, <2>8
  <2>10. \A j \in Texts : \E v : Tells(more, p + 7, j, v)
    BY <1>80, <2>6, <2>8, <2>9
  <2>11. p + 7 \in 1 .. Len(more) + 1 /\ p + 7 = Len(more) + 1
    BY <1>4, <2>4
  <2>12. LastEnded(more)
    <3>1. lines[7].end = "ended"
      BY <2>2
    <3> QED
      BY <1>6, <2>4, <3>1 DEF LastEnded
  <2>13. ASSUME NEW j \in Texts, j \notin Damaged'
         PROVE  Silent(more, p + 7, j) /\ \E v : LogLast(j, v)' /\ Tells(more, p + 7, j, v)
    <3>0. ~(p + 7 <= Len(more)) /\ \A i \in p + 7 .. Len(more) : FALSE
      BY <1>4, <2>11
    <3>1. Silent(more, p + 7, j)
      BY <3>0, Zenon DEF Silent
    <3>2. CASE j = k
      BY <1>2, <2>9, <3>1, <3>2
    <3>3. CASE j # k
      <4>1. PICK v : LogLast(j, v)' /\ Tells(more, p, j, v)
        BY <1>8, <2>13, <3>3
      <4>2. Tells(more, p + 7, j, v)
        BY <2>6, <2>8, <3>3, <4>1
      <4> QED
        BY <3>1, <4>1, <4>2
    <3> QED
      BY <3>2, <3>3
  <2>14. ~(p + 7 <= Len(more)) /\ Rest(more, p + 7) /\ Calm(more)
    BY <1>4, <2>11, <2>12 DEF Rest, Calm
  <2> QED
    BY <2>10, <2>11, <2>13, <2>14
<1>11. CASE Adrift(kept)
  <2>1. k \in Damaged'
    BY <1>2, <1>11
  <2>2. CASE kept = "none"
    <3>1. more = file
      BY <1>54, <2>2
    <3>2. p <= Len(file) => Pending'
      BY <1>2, <1>4, <2>2
    <3> QED
      BY <1>4, <1>8, <1>80, <2>1, <3>1, <3>2
  <2>3. CASE kept # "none"
    <3>01. Plain(lines) /\ \A t \in Leaves(kept, Said(k, w)) : t \in Damaged'
      BY <1>2, <1>11, <1>53, <1>57, <2>3
    <3>02. /\ p = Len(more) + 1 => LastEnded(more)
           /\ p <= Len(more) /\ more[p].text # "*3"
                => \A i \in p .. Len(more) : Counts[more[i].text] = 0
           /\ \A i \in p + 7 .. Len(more) : Counts[more[i].text] = 0
           /\ Calm(more)
           /\ \A j : j \notin Leaves(kept, Said(k, w)) /\ Silent(file, p, j) => Silent(more, p, j)
           /\ Len(lines) = 7 /\ lines[7].end = "ended" => LastEnded(more) /\ p + 6 <= Len(more)
      BY <1>4, <1>55, <2>3, <3>01 DEF Continues, Dull
    <3>1. PICK q \in p .. Len(more) + 1 :
            /\ Rest(more, q)
            /\ LastEnded(more) /\ p + 6 <= Len(more) => q = Len(more) + 1
            /\ \A j, v : Silent(more, p, j) /\ Tells(more, p, j, v) => Tells(more, q, j, v)
            /\ \A j, v : Tells(more, p, j, v) => \E u : Tells(more, q, j, u)
      BY <1>6, <1>61, <1>7, <3>02, ComesToRest
    <3>2. /\ q \in 1 .. Len(more) + 1 /\ q >= p
          /\ q <= Len(more) => p <= Len(more)
          /\ \A i \in q .. Len(more) : i \in p .. Len(more)
      BY <1>4, <1>6
    <3>3. q <= Len(more) => Pending'
      <4>1. CASE kept = "torn"
        BY <1>2, <4>1
      <4>2. CASE kept = "whole"
        <5>1. Len(lines) = 7 /\ lines[7].end = "ended"
          BY <1>52, <4>2 DEF Whole
        <5>2. q = Len(more) + 1
          BY <3>02, <3>1, <5>1
        <5> QED
          BY <1>6, <5>2
      <4> QED
        BY <2>3, <4>1, <4>2
    <3>4. ASSUME NEW j \in Texts, j \notin Damaged'
          PROVE  Silent(more, q, j) /\ \E v : LogLast(j, v)' /\ Tells(more, q, j, v)
      <4>1. j # k /\ j \notin Leaves(kept, Said(k, w))
        BY <2>1, <3>01, <3>4
      <4>2. Silent(more, p, j)
        BY <1>8, <3>02, <3>4, <4>1
      <4>3. Silent(more, q, j)
        BY <3>2, <4>2, Zenon DEF Silent
      <4> QED
        BY <1>8, <3>1, <3>4, <4>1, <4>2, <4>3
    <3>5. \A j \in Texts : \E v : Tells(more, q, j, v)
      BY <1>80, <3>1
    <3> QED
      BY <3>02, <3>1, <3>2, <3>3, <3>4, <3>5
  <2> QED
    BY <2>2, <2>3
<1> QED
  BY <1>10, <1>11

\* SETs that are only stored change nothing in what is expected of the file.
LEMMA FileStays ==
  ASSUME FileOK, log \in Seq(LogEntry), \A i \in DOMAIN log : log[i].set \in DOMAIN sets,
         file' = file, log' = log, DOMAIN sets \subseteq DOMAIN sets', DOMAIN sets' \in SUBSET Nat,
         \A v \in DOMAIN sets : sets'[v] = sets[v]
  PROVE  /\ FileOK' /\ Damaged' = Damaged
         /\ \A k, v : LogLast(k, v)' <=> LogLast(k, v)
<1>0. /\ Len(log) \in Nat /\ DOMAIN log = 1 .. Len(log)
      /\ Len(log') = Len(log) /\ DOMAIN log' = DOMAIN log
  BY LenProperties
<1>1. \A i \in DOMAIN log : KeyOf(i)' = KeyOf(i)
  BY DEF KeyOf
<1>2. \A i : Intact(i)' <=> Intact(i)
  BY DEF Intact
<1>3. \A j \in DOMAIN log : \A m \in (j + 1) .. Len(log) : m \in DOMAIN log
  BY <1>0
<1>30. ASSUME NEW i \in DOMAIN log
       PROVE  Says(i)' = Says(i) /\ Left(i, Words(i))' = Left(i, Words(i))
  BY <1>1 DEF Says, Left, Words
<1>31. Wild' <=> Wild
  BY <1>0, <1>2, <1>30 DEF Wild
<1> DEFINE Harm(j) == {k \in Says(j) : ~\E m \in (j + 1) .. Len(log) : Intact(m) /\ KeyOf(m) = k}
           More(j) == {k \in Says(j)' : ~\E m \in (j + 1) .. Len(log) : Intact(m)' /\ KeyOf(m)' = k}
<1>4. \A j \in DOMAIN log : More(j) = Harm(j)
  BY <1>1, <1>2, <1>3, <1>30
<1>5. Damaged = IF Wild THEN Texts ELSE UNION {Harm(i) : i \in {j \in DOMAIN log : ~Intact(j)}}
  BY DEF Damaged
<1>6. Damaged' = IF Wild' THEN Texts
                 ELSE UNION {More(i) : i \in {j \in DOMAIN log : ~Intact(j)'}}
  BY <1>0 DEF Damaged
<1> HIDE DEF Harm, More
<1>7. Damaged' = Damaged
  BY <1>2, <1>31, <1>4, <1>5, <1>6
<1>8. Pending' <=> Pending
  BY DEF Pending
<1>9. \A k, v : LogLast(k, v)' <=> LogLast(k, v)
  BY <1>0, <1>1 DEF LogLast
<1>10. \A p : RestsAt(p) => RestsAt(p)'
  BY <1>7, <1>8, <1>9 DEF RestsAt, Calm, LastEnded
<1>11. GoodLines(file, DOMAIN sets')
  BY DEF FileOK, GoodLines, Good
<1>12. FileOK'
  <2>1. file \in Seq(AnyLine) /\ EndedButLast(file)
    BY DEF FileOK
  <2>2. Wild' \/ \E p \in 1 .. Len(file) + 1 : RestsAt(p)'
    BY <1>10, <1>31 DEF FileOK
  <2> QED
    BY <1>11, <2>1, <2>2 DEF FileOK
<1> QED
  BY <1>7, <1>9, <1>12

-----------------------------------------------------------------------------
(* The inductive invariant for types, acknowledgements and the file. *)

SetType == [key : Keys, px : BOOLEAN]

SetsOK ==
  /\ sets \in Seq(SetType) /\ Len(sets) <= MaxSets
  /\ mode = "rdb" => \A i \in DOMAIN Dump :
       i \in DOMAIN sets /\ sets[i] = [key |-> Dump[i].key, px |-> Dump[i].deadline # "none"]

LogOK ==
  /\ log \in Seq(LogEntry)
  /\ \A c \in Conns : pc[c] = "appended" => \E i \in DOMAIN log : log[i].set = value[c]
  /\ \A w \in acked : \E i \in DOMAIN log : log[i].set = w

PhaseOK ==
  /\ phase = "up" => next = 0
  /\ phase = "down" => /\ next = 0 /\ timers = {}
                       /\ \A k \in Texts : memory[k] = Absent
  /\ \A c \in Conns : pc[c] # "idle" => phase = "up" /\ value[c] \in DOMAIN sets

BaseInv == TypeOK /\ SetsOK /\ LogOK /\ PhaseOK /\ FileOK

\* One more SET in the history of SETs.
LEMMA SetsGrow ==
  ASSUME sets \in Seq(SetType), NEW k \in Keys, NEW px \in BOOLEAN,
         sets' = Append(sets, [key |-> k, px |-> px])
  PROVE  /\ Len(sets) \in Nat /\ DOMAIN sets = 1 .. Len(sets)
         /\ sets' \in Seq(SetType) /\ DOMAIN sets' = 1 .. Len(sets) + 1
         /\ Len(sets) + 1 \in DOMAIN sets' /\ DOMAIN sets \subseteq DOMAIN sets'
         /\ DOMAIN sets' \in SUBSET Nat
         /\ sets'[Len(sets) + 1] = [key |-> k, px |-> px]
         /\ \A v \in DOMAIN sets : sets'[v] = sets[v]
<1> DEFINE e == [key |-> k, px |-> px]
<1>1. e \in SetType
  BY DEF SetType
<1> HIDE DEF e
<1>2. sets' = Append(sets, e)
  BY DEF e
<1>3. Len(sets) \in Nat /\ DOMAIN sets = 1 .. Len(sets)
  BY LenProperties
<1>4. /\ sets' \in Seq(SetType) /\ Len(sets') = Len(sets) + 1
      /\ sets'[Len(sets) + 1] = e
      /\ \A i \in 1 .. Len(sets) : sets'[i] = sets[i]
  BY <1>1, <1>2, AppendProperties
<1>5. DOMAIN sets' = 1 .. Len(sets) + 1
  BY <1>4, LenProperties
<1> QED
  BY <1>3, <1>4, <1>5 DEF e

\* What a boot reads, in either mode.
LEMMA StoresType ==
  ASSUME TypeOK, SetsOK, FileOK
  PROVE  /\ Stores \in Seq(StoreSet(DOMAIN sets))
         /\ Len(Stores) \in Nat /\ DOMAIN Stores = 1 .. Len(Stores)
         /\ mode = "rdb" => /\ Len(Stores) = Len(Dump) /\ DOMAIN Stores = DOMAIN Dump
                            /\ \A i \in DOMAIN Dump : Stores[i] = [key |-> Dump[i].key, value |-> i]
         /\ mode = "aof" => Stores = AOFParser(file)
         /\ mode = "aof" \/ mode = "rdb"
<1>1. mode = "aof" \/ mode = "rdb"
  BY KeyspaceAssumption DEF TypeOK
<1>2. CASE mode = "aof"
  <2>1. GoodLines(file, DOMAIN sets)
    BY DEF FileOK
  <2>2. AOFParser(file) \in Seq(StoreSet(DOMAIN sets))
    BY <2>1, ParseType DEF AOFParser
  <2>3. Stores = AOFParser(file)
    BY <1>2 DEF Stores
  <2> QED
    BY <1>2, <2>2, <2>3, LenProperties
<1>3. CASE mode = "rdb"
  <2>1. Dump \in Seq([key : Keys, deadline : {"none", "past", "future"}])
    BY KeyspaceAssumption
  <2>2. Len(Dump) \in Nat /\ DOMAIN Dump = 1 .. Len(Dump)
    BY <2>1, LenProperties
  <2>3. Stores = [i \in DOMAIN Dump |-> [key |-> Dump[i].key, value |-> i]]
    BY <1>3 DEF Stores
  <2>4. \A i \in DOMAIN Dump : [key |-> Dump[i].key, value |-> i] \in StoreSet(DOMAIN sets)
    <3>1. \A i \in DOMAIN Dump : Dump[i].key \in Keys
      <4> DEFINE E == [key : Keys, deadline : {"none", "past", "future"}]
      <4>1. Dump \in Seq(E)
        BY <2>1
      <4>2. \A e \in E : e.key \in Keys
        OBVIOUS
      <4> HIDE DEF E
      <4>3. \A i \in 1 .. Len(Dump) : Dump[i] \in E
        BY <4>1, ElementOfSeq
      <4> QED
        BY <2>2, <4>2, <4>3
    <3>2. Keys \subseteq Texts
      BY KeyspaceAssumption
    <3>3. \A i \in DOMAIN Dump : i \in DOMAIN sets
      BY <1>3 DEF SetsOK
    <3> QED
      BY <3>1, <3>2, <3>3 DEF StoreSet
  <2>5. Stores \in [1 .. Len(Dump) -> StoreSet(DOMAIN sets)]
    BY <2>2, <2>3, <2>4
  <2>6. Stores \in Seq(StoreSet(DOMAIN sets)) /\ Len(Stores) = Len(Dump)
    BY <2>2, <2>5, SeqDef, LenProperties
  <2> QED
    BY <1>3, <2>2, <2>3, <2>6
<1> QED
  BY <1>1, <1>2, <1>3

\* The base invariant holds at the start.
LEMMA BaseInit == Init => BaseInv
<1> SUFFICES ASSUME Init PROVE BaseInv
  OBVIOUS
<1>1. mode = "aof" \/ mode = "rdb"
  BY KeyspaceAssumption DEF Init
<1>2. /\ file = <<>> /\ log = <<>> /\ Len(file) = 0 /\ DOMAIN log = {} /\ Len(log) = 0
      /\ file \in Seq(AnyLine) /\ log \in Seq(LogEntry)
  BY DEF Init
<1> DEFINE E == [key : Keys, deadline : {"none", "past", "future"}]
           Entry(i) == [key |-> Dump[i].key, px |-> Dump[i].deadline # "none"]
<1>3. \A e \in E : e.key \in Keys
  OBVIOUS
<1>4. Dump \in Seq(E)
  BY KeyspaceAssumption
<1> HIDE DEF E
<1>5. /\ Len(Dump) \in Nat /\ DOMAIN Dump = 1 .. Len(Dump)
      /\ \A i \in DOMAIN Dump : Dump[i] \in E
  BY <1>4, LenProperties, ElementOfSeq
<1>6. SetsOK
  <2>0. MaxSets \in Nat /\ Len(Dump) <= MaxSets
    BY <1>5, KeyspaceAssumption
  <2>1. CASE mode = "aof"
    BY <2>0, <2>1 DEF Init, SetsOK
  <2>2. CASE mode = "rdb"
    <3>1. sets = [i \in DOMAIN Dump |-> Entry(i)]
      BY <2>2 DEF Init
    <3>2. \A i \in DOMAIN Dump : Entry(i) \in SetType
      BY <1>3, <1>5 DEF SetType
    <3> HIDE DEF Entry
    <3>3. sets \in [1 .. Len(Dump) -> SetType] /\ \A i \in DOMAIN Dump : sets[i] = Entry(i)
      BY <1>5, <3>1, <3>2
    <3>4. sets \in Seq(SetType) /\ DOMAIN sets = DOMAIN Dump /\ Len(sets) = Len(Dump)
      BY <1>5, <3>3, SeqDef, LenProperties
    <3> QED
      BY <2>0, <3>3, <3>4 DEF SetsOK, Entry
  <2> QED
    BY <1>1, <2>1, <2>2
<1>7. FileOK
  <2>1. GoodLines(file, DOMAIN sets) /\ EndedButLast(file)
    BY <1>2 DEF GoodLines, EndedButLast
  <2>2. 1 \in 1 .. Len(file) + 1 /\ Rest(file, 1) /\ ~(1 <= Len(file))
    BY <1>2 DEF Rest, LastEnded
  <2>3. \A k : Silent(file, 1, k)
    <3>1. ~(1 <= Len(file)) /\ \A i \in 1 .. Len(file) : FALSE
      BY <1>2
    <3> QED
      BY <3>1, Zenon DEF Silent
  <2>4. \A k : LogLast(k, Absent) /\ Tells(file, 1, k, Absent)
    BY <1>2, TellsNothing DEF LogLast
  <2>5. Calm(file)
    BY <1>2 DEF Calm, LastEnded
  <2>6. RestsAt(1)
    BY <2>2, <2>3, <2>4, <2>5 DEF RestsAt
  <2> QED
    BY <1>2, <2>1, <2>2, <2>6 DEF FileOK
<1>8. LogOK
  BY <1>2 DEF Init, LogOK
<1>9. PhaseOK
  BY DEF Init, PhaseOK
<1>10. TypeOK
  <2>1. Len(Stores) \in Nat
    <3>1. CASE mode = "aof"
      <4>1. GoodLines(file, DOMAIN sets)
        BY <1>7 DEF FileOK
      <4>2. AOFParser(file) \in Seq(StoreSet(DOMAIN sets))
        BY <4>1, ParseType DEF AOFParser
      <4> QED
        BY <3>1, <4>2, LenProperties DEF Stores
    <3>2. CASE mode = "rdb"
      <4>1. Stores = [i \in 1 .. Len(Dump) |-> [key |-> Dump[i].key, value |-> i]]
        BY <1>5, <3>2 DEF Stores
      <4>2. DOMAIN Stores = 1 .. Len(Dump)
        BY <4>1
      <4>3. Stores \in [1 .. Len(Dump) -> {Stores[i] : i \in 1 .. Len(Dump)}]
        BY <4>1
      <4>4. Stores \in Seq({Stores[i] : i \in 1 .. Len(Dump)})
        BY <1>5, <4>3, SeqDef
      <4> QED
        BY <4>4, LenProperties
    <3> QED
      BY <1>1, <3>1, <3>2
  <2>2. next \in 0 .. Len(Stores)
    BY <2>1 DEF Init
  <2> QED
    BY <1>2, <2>2 DEF Init, TypeOK
<1> QED
  BY <1>6, <1>7, <1>8, <1>9, <1>10 DEF BaseInv

\* What every step finds.
LEMMA BaseFacts ==
  ASSUME BaseInv
  PROVE  /\ Len(sets) \in Nat /\ DOMAIN sets = 1 .. Len(sets) /\ DOMAIN sets \in SUBSET Nat
         /\ DOMAIN sets \subseteq 1 .. MaxSets
         /\ \A v \in DOMAIN sets : sets[v].key \in Keys /\ sets[v].px \in BOOLEAN
         /\ Len(log) \in Nat /\ DOMAIN log = 1 .. Len(log)
         /\ \A i \in DOMAIN log : log[i].set \in DOMAIN sets /\ KeyOf(i) \in Keys
         /\ Len(Stores) \in Nat
<1>1. /\ sets \in Seq(SetType) /\ log \in Seq(LogEntry) /\ TypeOK /\ SetsOK /\ FileOK
  BY DEF BaseInv, SetsOK, LogOK
<1>2. Len(sets) \in Nat /\ DOMAIN sets = 1 .. Len(sets)
  BY <1>1, LenProperties
<1>21. DOMAIN sets \subseteq 1 .. MaxSets
  <2>1. MaxSets \in Nat
    BY KeyspaceAssumption
  <2> QED
    BY <1>1, <1>2, <2>1 DEF SetsOK
<1>3. Len(log) \in Nat /\ DOMAIN log = 1 .. Len(log)
  BY <1>1, LenProperties
<1>4. \A v \in DOMAIN sets : sets[v] \in SetType
  BY <1>1, <1>2, ElementOfSeq
<1>5. \A e \in SetType : e.key \in Keys /\ e.px \in BOOLEAN
  BY DEF SetType
<1>6. \A i \in DOMAIN log : log[i].set \in DOMAIN sets
  BY <1>1 DEF TypeOK
<1>7. Len(Stores) \in Nat
  BY <1>1, StoresType
<1>8. \A i \in DOMAIN log : KeyOf(i) \in Keys
  BY <1>4, <1>5, <1>6 DEF KeyOf
<1> QED
  BY <1>2, <1>21, <1>3, <1>4, <1>5, <1>6, <1>7, <1>8

\* A SET is stored, by a client's goroutine or by the link's.
LEMMA BaseNewSet ==
  ASSUME BaseInv, NEW k \in Keys, NEW px \in BOOLEAN, NewSet(k, px),
         UNCHANGED <<role, mode, disk, acked>>
  PROVE  /\ SetsOK' /\ FileOK' /\ log' \in Seq(LogEntry)
         /\ \A w \in acked' : \E i \in DOMAIN log' : log'[i].set = w
         /\ Damaged' = Damaged /\ \A j, v : LogLast(j, v)' <=> LogLast(j, v)
         /\ Len(sets) \in Nat /\ DOMAIN sets = 1 .. Len(sets)
         /\ Len(sets) + 1 \in DOMAIN sets' /\ DOMAIN sets \subseteq DOMAIN sets'
         /\ DOMAIN sets' \in SUBSET Nat
         /\ sets'[Len(sets) + 1] = [key |-> k, px |-> px]
         /\ \A v \in DOMAIN sets : sets'[v] = sets[v]
         /\ memory' = [memory EXCEPT ![k] = Len(sets) + 1]
         /\ memory' \in [Texts -> {Absent, Odd} \union DOMAIN sets']
         /\ \A i \in DOMAIN log' : log'[i].set \in DOMAIN sets'
         /\ Stores' = Stores
<1>1. /\ sets \in Seq(SetType) /\ log \in Seq(LogEntry) /\ FileOK
      /\ sets' = Append(sets, [key |-> k, px |-> px]) /\ Len(sets) < MaxSets
      /\ memory' = [memory EXCEPT ![k] = Len(sets) + 1]
      /\ UNCHANGED <<role, mode, file, log, faults, acked>>
  BY DEF BaseInv, SetsOK, LogOK, NewSet, Store, disk
<1>2. /\ Len(sets) \in Nat /\ DOMAIN sets = 1 .. Len(sets)
      /\ sets' \in Seq(SetType)
      /\ Len(sets) + 1 \in DOMAIN sets' /\ DOMAIN sets \subseteq DOMAIN sets'
      /\ DOMAIN sets' \in SUBSET Nat
      /\ sets'[Len(sets) + 1] = [key |-> k, px |-> px]
      /\ \A v \in DOMAIN sets : sets'[v] = sets[v]
  BY <1>1, SetsGrow
<1>3. \A i \in DOMAIN log : log[i].set \in DOMAIN sets
  BY BaseFacts
<1>4. FileOK' /\ Damaged' = Damaged /\ \A j, v : LogLast(j, v)' <=> LogLast(j, v)
  BY <1>1, <1>2, <1>3, FileStays
<1>5. SetsOK'
  <2>1. Len(sets') = Len(sets) + 1
    BY <1>1, AppendProperties
  <2>2. Len(sets') <= MaxSets
    <3>1. MaxSets \in Nat
      BY KeyspaceAssumption
    <3> QED
      BY <1>1, <1>2, <2>1, <3>1
  <2> QED
    BY <1>1, <1>2, <2>2 DEF BaseInv, SetsOK
<1>6. memory \in [Texts -> {Absent, Odd} \union DOMAIN sets]
  BY DEF BaseInv, TypeOK
<1>7. memory' \in [Texts -> {Absent, Odd} \union DOMAIN sets']
  BY <1>1, <1>2, <1>6
<1>8. Stores' = Stores
  BY <1>1 DEF Stores
<1>9. \A w \in acked' : \E i \in DOMAIN log' : log'[i].set = w
  BY <1>1 DEF BaseInv, LogOK
<1> QED
  BY <1>1, <1>2, <1>3, <1>4, <1>5, <1>7, <1>8, <1>9

\* An append, whole or not.
LEMMA BaseAppend ==
  ASSUME BaseInv, NEW c \in Conns, Appends(c), UNCHANGED <<mode, sets, acked>>,
         NEW kept \in {"whole", "none", "torn"}, NEW lines,
         kept = "whole" => lines = Record(KeySet(c), value[c]),
         kept = "torn" =>
           /\ Piece(lines, value[c], Leaves("torn", Said(KeySet(c), value[c])))
           /\ (\A t \in Leaves("torn", Given(KeySet(c), value[c])) : Dull(t)) => Plain(lines),
         kept = "none" => lines = <<>>,
         file' \in Written(lines),
         log' = Append(log, [set |-> value[c], kept |-> kept])
  PROVE  /\ SetsOK' /\ FileOK' /\ log' \in Seq(LogEntry)
         /\ \A w : (\E i \in DOMAIN log : log[i].set = w) \/ w = value[c]
                   => \E i \in DOMAIN log' : log'[i].set = w
         /\ \A i \in DOMAIN log' : log'[i].set \in DOMAIN sets
         /\ Len(Stores)' \in Nat
         /\ phase = "up" /\ mode = "aof"
<1>1. /\ pc[c] # "idle" /\ value[c] \in DOMAIN sets /\ phase = "up" /\ mode = "aof"
  BY DEF Appends, BaseInv, PhaseOK
<1>2. /\ value[c] \in DOMAIN sets /\ sets[value[c]].key \in Keys /\ DOMAIN sets \in SUBSET Nat
      /\ value[c] \in 1 .. MaxSets
      /\ Len(log) \in Nat /\ DOMAIN log = 1 .. Len(log)
      /\ \A i \in DOMAIN log : log[i].set \in DOMAIN sets
  BY <1>1, BaseFacts
<1>3. log \in Seq(LogEntry) /\ FileOK /\ SetsOK
  BY DEF BaseInv, LogOK
<1> DEFINE e == [set |-> value[c], kept |-> kept]
<1>4. e \in LogEntry /\ e.set = value[c]
  BY <1>2 DEF LogEntry
<1> HIDE DEF e
<1>5. /\ log' \in Seq(LogEntry) /\ DOMAIN log' = 1 .. Len(log) + 1
      /\ log'[Len(log) + 1] = e /\ \A i \in 1 .. Len(log) : log'[i] = log[i]
  BY <1>3, <1>4, LogAppended DEF e
<1>6. FileOK'
  <2>1. PICK w \in DOMAIN sets : w = value[c]
    BY <1>1
  <2>2. /\ sets[w].key \in Keys /\ w \in 1 .. MaxSets
        /\ kept = "whole" => lines = Record(sets[w].key, w)
        /\ kept = "torn" =>
             /\ Piece(lines, w, Leaves("torn", Said(sets[w].key, w)))
             /\ (\A t \in Leaves("torn", Given(sets[w].key, w)) : Dull(t)) => Plain(lines)
        /\ log' = Append(log, [set |-> w, kept |-> kept])
    BY <1>2, <2>1 DEF KeySet
  <2> QED
    BY <1>2, <1>3, <2>2, FileStep
<1>7. SetsOK'
  BY <1>3 DEF SetsOK
<1>8. \A i \in DOMAIN log' : log'[i].set \in DOMAIN sets
  BY <1>2, <1>4, <1>5
<1>9. ASSUME NEW w, (\E i \in DOMAIN log : log[i].set = w) \/ w = value[c]
      PROVE  \E i \in DOMAIN log' : log'[i].set = w
  <2>1. CASE w = value[c]
    BY <1>2, <1>4, <1>5, <2>1
  <2>2. CASE \E i \in DOMAIN log : log[i].set = w
    BY <1>2, <1>5, <2>2
  <2> QED
    BY <1>9, <2>1, <2>2
<1>10. Len(Stores)' \in Nat
  <2>1. Stores' = AOFParser(file)'
    BY <1>1 DEF Stores
  <2>2. GoodLines(file', DOMAIN sets)
    BY <1>6 DEF FileOK
  <2>3. AOFParser(file') \in Seq(StoreSet(DOMAIN sets))
    BY <2>2, ParseType DEF AOFParser
  <2> QED
    BY <2>1, <2>3, LenProperties
<1> QED
  BY <1>1, <1>5, <1>6, <1>7, <1>8, <1>9, <1>10

\* The effects of an append that stops early.
LEMMA BaseStops ==
  ASSUME BaseInv, NEW c \in Conns, NEW cut \in Cuts, Appends(c), WriteStops(c, cut),
         UNCHANGED <<mode, sets, acked>>
  PROVE  /\ SetsOK' /\ FileOK' /\ log' \in Seq(LogEntry)
         /\ \A w : (\E i \in DOMAIN log : log[i].set = w) \/ w = value[c]
                   => \E i \in DOMAIN log' : log'[i].set = w
         /\ \A i \in DOMAIN log' : log'[i].set \in DOMAIN sets
         /\ Len(Stores)' \in Nat
         /\ phase = "up" /\ mode = "aof"
<1>1. value[c] \in DOMAIN sets
  BY DEF Appends, BaseInv, PhaseOK
<1>2. value[c] \in Nat /\ value[c] \in 1 .. MaxSets /\ KeySet(c) \in Keys
  BY <1>1, BaseFacts DEF KeySet
<1>3. PICK kept \in {"whole", "none", "torn"} :
        kept = IF cut = <<0, "none">> THEN "none" ELSE "torn"
  OBVIOUS
<1>4. PICK lines \in Beginnings(KeySet(c), value[c], cut) : file' \in Written(lines)
  BY DEF WriteStops
<1>5. /\ Piece(lines, value[c], Leaves("torn", Said(KeySet(c), value[c])))
      /\ (\A t \in Leaves("torn", Given(KeySet(c), value[c])) : Dull(t)) => Plain(lines)
      /\ kept = "none" => lines = <<>>
      /\ kept # "whole"
  BY <1>2, <1>3, <1>4, BeginningIsPiece
<1>6. log' = Append(log, [set |-> value[c], kept |-> kept])
  BY <1>3 DEF WriteStops
<1> QED
  BY <1>4, <1>5, <1>6, BaseAppend

\* Every step preserves the base invariant.
LEMMA BaseStep == BaseInv /\ [Next]_vars => BaseInv'
<1> SUFFICES ASSUME BaseInv, [Next]_vars PROVE BaseInv'
  OBVIOUS
<1>1. /\ TypeOK /\ SetsOK /\ LogOK /\ PhaseOK /\ FileOK /\ log \in Seq(LogEntry)
  BY DEF BaseInv, LogOK
<1>2. /\ Len(sets) \in Nat /\ DOMAIN sets = 1 .. Len(sets) /\ DOMAIN sets \in SUBSET Nat
      /\ \A v \in DOMAIN sets : sets[v].key \in Keys /\ sets[v].px \in BOOLEAN
      /\ Len(log) \in Nat /\ DOMAIN log = 1 .. Len(log)
      /\ \A i \in DOMAIN log : log[i].set \in DOMAIN sets
      /\ Len(Stores) \in Nat
  BY BaseFacts
<1>3. ASSUME UNCHANGED <<file, log, sets>> PROVE FileOK'
  BY <1>1, <1>2, <1>3, FileStays
<1>4. ASSUME UNCHANGED <<file, log, sets, mode, acked>>
      PROVE  /\ FileOK' /\ SetsOK' /\ Stores' = Stores /\ log' \in Seq(LogEntry)
             /\ \A w \in acked' : \E i \in DOMAIN log' : log'[i].set = w
  BY <1>1, <1>3, <1>4 DEF SetsOK, Stores, LogOK
<1>5. ASSUME NEW c \in Conns, NEW k \in Keys, NEW px \in BOOLEAN, SetStore(c, k, px)
      PROVE  BaseInv'
  <2>1. NewSet(k, px) /\ UNCHANGED <<role, mode, disk, acked, phase, timers, next, restarts>>
        /\ phase = "up" /\ pc[c] = "idle"
        /\ value' = [value EXCEPT ![c] = Len(sets) + 1]
        /\ pc' = [pc EXCEPT ![c] = "stored"]
    BY <1>5 DEF SetStore, Serving
  <2>2. /\ SetsOK' /\ FileOK' /\ log' \in Seq(LogEntry)
        /\ \A w \in acked' : \E i \in DOMAIN log' : log'[i].set = w
        /\ Len(sets) + 1 \in DOMAIN sets' /\ DOMAIN sets \subseteq DOMAIN sets'
        /\ memory' \in [Texts -> {Absent, Odd} \union DOMAIN sets']
        /\ \A i \in DOMAIN log' : log'[i].set \in DOMAIN sets'
        /\ Stores' = Stores
    BY <2>1, BaseNewSet
  <2>3. TypeOK'
    BY <1>1, <2>1, <2>2 DEF TypeOK, disk
  <2>4. PhaseOK'
    BY <1>1, <2>1, <2>2 DEF PhaseOK, TypeOK
  <2>5. LogOK'
    BY <1>1, <2>1, <2>2 DEF LogOK, TypeOK, disk
  <2> QED
    BY <2>2, <2>3, <2>4, <2>5 DEF BaseInv
<1>6. ASSUME NEW c \in Conns, SetAppend(c) PROVE BaseInv'
  <2>1. /\ Appends(c) /\ pc' = [pc EXCEPT ![c] = "appended"]
        /\ UNCHANGED <<phase, role, mode, memory, timers, next, value, faults, restarts,
                       sets, acked>>
        /\ file' \in Written(Record(KeySet(c), value[c]))
        /\ log' = Append(log, [set |-> value[c], kept |-> "whole"])
    BY <1>6 DEF SetAppend
  <2>2. value[c] \in DOMAIN sets
    BY <1>1, <2>1 DEF Appends, PhaseOK
  <2>4. PICK lines : lines = Record(KeySet(c), value[c])
    OBVIOUS
  <2>5. /\ SetsOK' /\ FileOK' /\ log' \in Seq(LogEntry)
        /\ \A w : (\E i \in DOMAIN log : log[i].set = w) \/ w = value[c]
                   => \E i \in DOMAIN log' : log'[i].set = w
        /\ \A i \in DOMAIN log' : log'[i].set \in DOMAIN sets
        /\ Len(Stores)' \in Nat
        /\ phase = "up" /\ mode = "aof"
    BY <2>1, <2>4, BaseAppend
  <2>6. TypeOK'
    BY <1>1, <2>1, <2>2, <2>5 DEF TypeOK, PhaseOK
  <2>7. PhaseOK'
    BY <1>1, <2>1, <2>2, <2>5 DEF PhaseOK, TypeOK
  <2>8. LogOK'
    BY <1>1, <2>1, <2>5 DEF LogOK, TypeOK
  <2> QED
    BY <2>5, <2>6, <2>7, <2>8 DEF BaseInv
<1>7. ASSUME NEW c \in Conns, NEW cut \in Cuts, SetAppendFails(c, cut) PROVE BaseInv'
  <2>1. /\ Appends(c) /\ WriteStops(c, cut) /\ pc' = [pc EXCEPT ![c] = "appended"]
        /\ UNCHANGED <<phase, role, mode, memory, timers, next, value, restarts, sets, acked>>
    BY <1>7 DEF SetAppendFails
  <2>2. /\ SetsOK' /\ FileOK' /\ log' \in Seq(LogEntry)
        /\ \A w : (\E i \in DOMAIN log : log[i].set = w) \/ w = value[c]
                   => \E i \in DOMAIN log' : log'[i].set = w
        /\ \A i \in DOMAIN log' : log'[i].set \in DOMAIN sets
        /\ Len(Stores)' \in Nat
        /\ phase = "up" /\ mode = "aof"
    BY <2>1, BaseStops
  <2>3. TypeOK'
    BY <1>1, <2>1, <2>2 DEF TypeOK, PhaseOK
  <2>4. PhaseOK'
    BY <1>1, <2>1, <2>2 DEF PhaseOK, TypeOK, Appends
  <2>5. LogOK'
    BY <1>1, <2>1, <2>2 DEF LogOK, TypeOK
  <2> QED
    BY <2>2, <2>3, <2>4, <2>5 DEF BaseInv
<1>8. ASSUME NEW c \in Conns, NEW cut \in Cuts, CrashInAppend(c, cut) PROVE BaseInv'
  <2>1. Appends(c) /\ WriteStops(c, cut) /\ ProcessGone
    BY <1>8 DEF CrashInAppend
  <2>2. UNCHANGED <<mode, sets, acked>>
    BY <2>1 DEF ProcessGone
  <2>3. /\ SetsOK' /\ FileOK' /\ log' \in Seq(LogEntry)
        /\ \A w : (\E i \in DOMAIN log : log[i].set = w) \/ w = value[c]
                   => \E i \in DOMAIN log' : log'[i].set = w
        /\ \A i \in DOMAIN log' : log'[i].set \in DOMAIN sets
        /\ Len(Stores)' \in Nat
    BY <2>1, <2>2, BaseStops
  <2>4. TypeOK'
    BY <1>1, <2>1, <2>3 DEF TypeOK, ProcessGone
  <2>5. PhaseOK'
    BY <1>1, <2>1 DEF PhaseOK, ProcessGone, TypeOK
  <2>6. LogOK'
    BY <1>1, <2>1, <2>3 DEF LogOK, ProcessGone
  <2> QED
    BY <2>3, <2>4, <2>5, <2>6 DEF BaseInv
<1>9. ASSUME NEW c \in Conns, SetReply(c) PROVE BaseInv'
  <2>1. /\ ReadyToAnswer(c)
        /\ timers' = timers \union Deadline(value[c])
        /\ acked' = IF role = "master" /\ mode = "aof" THEN acked \union {value[c]} ELSE acked
        /\ pc' = [pc EXCEPT ![c] = "idle"]
        /\ value' = [value EXCEPT ![c] = 0]
        /\ UNCHANGED <<phase, role, mode, memory, next, file, log, faults, restarts, sets>>
    BY <1>9 DEF SetReply, disk
  <2>2. value[c] \in DOMAIN sets
    BY <1>1, <2>1 DEF ReadyToAnswer, PhaseOK
  <2>3. FileOK' /\ SetsOK' /\ Stores' = Stores
    BY <1>1, <1>3, <2>1 DEF SetsOK, Stores
  <2>4. timers' \subseteq DOMAIN sets
    BY <1>1, <2>1, <2>2 DEF TypeOK, Deadline
  <2>5. TypeOK'
    BY <1>1, <2>1, <2>2, <2>3, <2>4 DEF TypeOK
  <2>6. PhaseOK'
    BY <1>1, <2>1, <2>2, <2>4 DEF PhaseOK, TypeOK, ReadyToAnswer
  <2>7. role = "master" /\ mode = "aof" => pc[c] = "appended"
    BY <2>1 DEF ReadyToAnswer, Appends
  <2>8. LogOK'
    BY <1>1, <2>1, <2>7 DEF LogOK, TypeOK
  <2> QED
    BY <2>3, <2>5, <2>6, <2>8 DEF BaseInv
<1>10. ASSUME NEW k \in Keys, LinkSet(k) PROVE BaseInv'
  <2>1. /\ NewSet(k, FALSE) /\ phase # "down"
        /\ UNCHANGED <<phase, role, mode, timers, next, serving, disk, restarts, acked>>
    BY <1>10 DEF LinkSet
  <2>2. /\ SetsOK' /\ FileOK' /\ log' \in Seq(LogEntry)
        /\ \A w \in acked' : \E i \in DOMAIN log' : log'[i].set = w
        /\ DOMAIN sets \subseteq DOMAIN sets'
        /\ memory' \in [Texts -> {Absent, Odd} \union DOMAIN sets']
        /\ \A i \in DOMAIN log' : log'[i].set \in DOMAIN sets'
        /\ Stores' = Stores
    BY <2>1, BaseNewSet
  <2>3. TypeOK'
    BY <1>1, <2>1, <2>2 DEF TypeOK, serving
  <2>4. PhaseOK'
    BY <1>1, <2>1, <2>2 DEF PhaseOK, serving
  <2>5. LogOK'
    BY <1>1, <2>1, <2>2 DEF LogOK, serving, disk
  <2> QED
    BY <2>2, <2>3, <2>4, <2>5 DEF BaseInv
<1>11. ASSUME NEW v \in timers, Fire(v) PROVE BaseInv'
  <2>1. /\ timers' = timers \ {v} /\ memory' = [memory EXCEPT ![sets[v].key] = Absent]
        /\ UNCHANGED <<phase, role, mode, next, pc, value, file, log, faults, restarts, sets, acked>>
    BY <1>11 DEF Fire, Store, serving, disk
  <2>2. /\ FileOK' /\ SetsOK' /\ Stores' = Stores /\ log' \in Seq(LogEntry)
        /\ \A w \in acked' : \E i \in DOMAIN log' : log'[i].set = w
    BY <1>4, <2>1
  <2>3. TypeOK'
    BY <1>1, <2>1, <2>2 DEF TypeOK
  <2>4. PhaseOK'
    BY <1>1, <2>1 DEF PhaseOK
  <2>5. LogOK'
    BY <1>1, <2>1, <2>2 DEF LogOK
  <2> QED
    BY <2>2, <2>3, <2>4, <2>5 DEF BaseInv
<1>12. CASE Crash
  <2>1. ProcessGone /\ UNCHANGED <<file, log, faults, mode, sets, acked>>
    BY <1>12 DEF Crash, ProcessGone, disk
  <2>2. /\ FileOK' /\ SetsOK' /\ Stores' = Stores /\ log' \in Seq(LogEntry)
        /\ \A w \in acked' : \E i \in DOMAIN log' : log'[i].set = w
    BY <1>4, <2>1
  <2>3. TypeOK'
    BY <1>1, <1>2, <2>1, <2>2 DEF TypeOK, ProcessGone
  <2>4. PhaseOK'
    BY <1>1, <2>1 DEF PhaseOK, ProcessGone, TypeOK
  <2>5. LogOK'
    BY <1>1, <2>1, <2>2 DEF LogOK, ProcessGone
  <2> QED
    BY <2>2, <2>3, <2>4, <2>5 DEF BaseInv
<1>13. ASSUME NEW r \in Roles, Restart(r) PROVE BaseInv'
  <2>1. /\ phase = "down" /\ phase' = "boot" /\ role' = r
        /\ UNCHANGED <<mode, memory, timers, next, pc, value, file, log, faults, sets, acked>>
    BY <1>13 DEF Restart, serving, disk
  <2>2. /\ FileOK' /\ SetsOK' /\ Stores' = Stores /\ log' \in Seq(LogEntry)
        /\ \A w \in acked' : \E i \in DOMAIN log' : log'[i].set = w
    BY <1>4, <2>1
  <2>3. TypeOK'
    BY <1>1, <2>1, <2>2 DEF TypeOK
  <2>4. PhaseOK'
    BY <1>1, <2>1 DEF PhaseOK
  <2>5. LogOK'
    BY <1>1, <2>1, <2>2 DEF LogOK
  <2> QED
    BY <2>2, <2>3, <2>4, <2>5 DEF BaseInv
<1>14. CASE Load
  <2> DEFINE s == Stores[next + 1]
  <2>1. /\ phase = "boot" /\ next < Len(Stores) /\ next' = next + 1
        /\ \/ /\ Store(s.key, s.value)
              /\ timers' = IF DumpDeadline(s.value) = "future" THEN timers \union {s.value}
                           ELSE timers
           \/ UNCHANGED <<memory, timers>>
        /\ UNCHANGED <<phase, role, mode, pc, value, file, log, faults, sets, acked>>
    BY <1>14 DEF Load, serving, disk
  <2>2. /\ FileOK' /\ SetsOK' /\ Stores' = Stores /\ log' \in Seq(LogEntry)
        /\ \A w \in acked' : \E i \in DOMAIN log' : log'[i].set = w
    BY <1>4, <2>1
  <2>3. /\ Stores \in Seq(StoreSet(DOMAIN sets)) /\ next + 1 \in DOMAIN Stores
        /\ mode = "rdb" => \A i \in DOMAIN Stores : Stores[i].value = i /\ i \in DOMAIN Dump
    <3>1. next \in 0 .. Len(Stores)
      BY <1>1 DEF TypeOK
    <3>2. /\ Stores \in Seq(StoreSet(DOMAIN sets))
          /\ Len(Stores) \in Nat /\ DOMAIN Stores = 1 .. Len(Stores)
          /\ mode = "rdb" => /\ DOMAIN Stores = DOMAIN Dump
                             /\ \A i \in DOMAIN Dump : Stores[i] = [key |-> Dump[i].key, value |-> i]
      BY <1>1, StoresType
    <3>3. next + 1 \in DOMAIN Stores
      <4>1. next < Len(Stores)
        BY <2>1
      <4>2. Len(Stores) \in Nat /\ DOMAIN Stores = 1 .. Len(Stores)
        BY <3>2
      <4> QED
        BY <3>1, <4>1, <4>2
    <3>4. mode = "rdb" => \A i \in DOMAIN Stores : Stores[i].value = i /\ i \in DOMAIN Dump
      <4> SUFFICES ASSUME mode = "rdb", NEW i \in DOMAIN Stores
                   PROVE  Stores[i].value = i /\ i \in DOMAIN Dump
        OBVIOUS
      <4>1. i \in DOMAIN Dump
        BY <3>2
      <4>2. Stores[i] = [key |-> Dump[i].key, value |-> i]
        BY <3>2, <4>1
      <4> QED
        BY <4>1, <4>2
    <3> QED
      BY <3>2, <3>3, <3>4
  <2>4. s \in StoreSet(DOMAIN sets) /\ (mode = "rdb" => s.value \in DOMAIN sets)
    <3>1. Stores[next + 1] \in StoreSet(DOMAIN sets)
      BY <1>2, <2>3, ElementOfSeq, StoresType, <1>1
    <3>2. mode = "rdb" => Stores[next + 1].value \in DOMAIN sets
      BY <1>1, <2>3 DEF SetsOK
    <3> QED
      BY <3>1, <3>2
  <2>5. s.key \in Texts /\ s.value \in {Odd} \union DOMAIN sets
    BY <2>4 DEF StoreSet
  <2> HIDE DEF s
  <2>6. memory' \in [Texts -> {Absent, Odd} \union DOMAIN sets]
    BY <1>1, <2>1, <2>5 DEF TypeOK, Store
  <2>7. timers' \subseteq DOMAIN sets
    BY <1>1, <2>1, <2>4 DEF TypeOK, DumpDeadline
  <2>8. next' \in 0 .. Len(Stores)
    BY <1>1, <1>2, <2>1 DEF TypeOK
  <2>9. TypeOK'
    BY <1>1, <2>1, <2>2, <2>6, <2>7, <2>8 DEF TypeOK
  <2>10. PhaseOK'
    BY <1>1, <2>1 DEF PhaseOK
  <2>11. LogOK'
    BY <1>1, <2>1, <2>2 DEF LogOK
  <2> QED
    BY <2>2, <2>9, <2>10, <2>11 DEF BaseInv
<1>15. CASE Accept
  <2>1. /\ phase = "boot" /\ phase' = "up" /\ next' = 0
        /\ UNCHANGED <<role, mode, memory, timers, pc, value, file, log, faults, sets, acked>>
    BY <1>15 DEF Accept, Loaded, serving, disk
  <2>2. /\ FileOK' /\ SetsOK' /\ Stores' = Stores /\ log' \in Seq(LogEntry)
        /\ \A w \in acked' : \E i \in DOMAIN log' : log'[i].set = w
    BY <1>4, <2>1
  <2>3. TypeOK'
    BY <1>1, <1>2, <2>1, <2>2 DEF TypeOK
  <2>4. PhaseOK'
    BY <1>1, <2>1 DEF PhaseOK
  <2>5. LogOK'
    BY <1>1, <2>1, <2>2 DEF LogOK
  <2> QED
    BY <2>2, <2>3, <2>4, <2>5 DEF BaseInv
<1>16. ASSUME UNCHANGED vars PROVE BaseInv'
  <2>1. UNCHANGED <<phase, role, mode, memory, timers, next, pc, value, file, log, faults,
                    sets, acked>>
    BY <1>16 DEF vars, serving, disk
  <2>2. /\ FileOK' /\ SetsOK' /\ Stores' = Stores /\ log' \in Seq(LogEntry)
        /\ \A w \in acked' : \E i \in DOMAIN log' : log'[i].set = w
    BY <1>4, <2>1
  <2>3. TypeOK'
    BY <1>1, <2>1, <2>2 DEF TypeOK
  <2>4. PhaseOK'
    BY <1>1, <2>1 DEF PhaseOK
  <2>5. LogOK'
    BY <1>1, <2>1, <2>2 DEF LogOK
  <2> QED
    BY <2>2, <2>3, <2>4, <2>5 DEF BaseInv
<1>17. PxKeys \subseteq Keys
  BY KeyspaceAssumption
<1> QED
  BY <1>5, <1>6, <1>7, <1>8, <1>9, <1>10, <1>11, <1>12, <1>13, <1>14, <1>15, <1>16, <1>17
  DEF Next, Set, Fault

-----------------------------------------------------------------------------

\* The types of Keyspace, and with them what a boot reads: however appends were
\* cut, AOFParser finds keys that some line reads, and values that were set, or
\* Odd.
THEOREM TypeCorrect == Spec => []TypeOK
<1>1. BaseInv => TypeOK
  BY DEF BaseInv
<1> QED
  BY <1>1, BaseInit, BaseStep, PTL DEF Spec

\* What the invariant says of the file holds of what AOFParser reads from it.
LEMMA OnFileIsLast ==
  ASSUME BaseInv, NEW k \in Texts, k \notin Damaged
  PROVE  LogLast(k, OnFile(k))
<1>0. ~Wild
  BY DEF Damaged
<1>1. PICK p \in 1 .. Len(file) + 1 : RestsAt(p)
  BY <1>0 DEF BaseInv, FileOK
<1>2. PICK v : LogLast(k, v) /\ Tells(file, p, k, v) /\ Silent(file, p, k)
  BY <1>1 DEF RestsAt
<1>3. GoodLines(file, Nat)
  <2>1. GoodLines(file, DOMAIN sets) /\ DOMAIN sets \in SUBSET Nat
    BY BaseFacts DEF BaseInv, FileOK
  <2> QED
    BY <2>1 DEF GoodLines, Good
<1>5. OnFile(k) = v
  BY <1>1, <1>2, <1>3, SilentKeyOnFile DEF RestsAt
<1> QED
  BY <1>2, <1>5

\* The base invariant contains what a boot gives back of acknowledged SETs.
LEMMA BaseRecovers ==
  ASSUME BaseInv
  PROVE  AcknowledgedRecovered
<1> SUFFICES ASSUME NEW w \in acked, sets[w].key \notin Damaged
             PROVE  \E i \in DOMAIN log : /\ log[i].set = OnFile(sets[w].key)
                                          /\ \A j \in DOMAIN log : log[j].set = w => i >= j
  BY DEF AcknowledgedRecovered
<1>1. PICK k : k = sets[w].key
  OBVIOUS
<1>2. w \in DOMAIN sets /\ k \in Texts /\ k \notin Damaged
  BY <1>1, BaseFacts, KeyspaceAssumption DEF BaseInv, TypeOK
<1>3. LogLast(k, OnFile(k))
  BY <1>2, OnFileIsLast
<1>4. PICK i0 \in DOMAIN log : log[i0].set = w
  BY DEF BaseInv, LogOK
<1>5. \A j \in DOMAIN log : log[j].set = w => KeyOf(j) = k
  BY <1>1 DEF KeyOf
<1>6. PICK i \in DOMAIN log : /\ log[i].set = OnFile(k) /\ KeyOf(i) = k
                              /\ \A j \in DOMAIN log : j > i => KeyOf(j) # k
  BY <1>3, <1>4, <1>5 DEF LogLast
<1>7. \A j \in DOMAIN log : j > i \/ i >= j
  BY BaseFacts
<1> QED
  BY <1>1, <1>5, <1>6, <1>7

\* However often the process stops and wherever an append was cut, the file gives
\* back, for every key that is not damaged, an acknowledged SET or one appended
\* after it.
THEOREM AcknowledgedIsRecovered == Spec => []AcknowledgedRecovered
<1>1. BaseInv => AcknowledgedRecovered
  BY BaseRecovers
<1> QED
  BY <1>1, BaseInit, BaseStep, PTL DEF Spec

-----------------------------------------------------------------------------
(* Values go forward. *)

\* The key of SET v has gone, or has a value that is not older than v.
Old(v) == memory[sets[v].key] \in {Absent, Odd} \/ v <= memory[sets[v].key]

\* A goroutine that waits for a deadline, or has still to answer, was started by
\* a SET no newer than what the key has now; during a boot only the entries
\* of a dump that have been loaded have such a goroutine.
Forward ==
  /\ \A v \in timers : sets[v].px /\ Old(v)
  /\ \A c \in Conns : pc[c] # "idle" => Old(value[c])
  /\ phase = "boot" => IF mode = "aof" THEN timers = {} ELSE timers \subseteq 1 .. next

\* Memory has a place for every key.
LEMMA KeysAreTexts == Keys \subseteq Texts
BY KeyspaceAssumption

\* A value that is overwritten by a newer one, or deleted, leaves SETs as old as
\* they were.
LEMMA OldStays ==
  ASSUME BaseInv, NEW v \in DOMAIN sets, Old(v), sets'[v] = sets[v],
         NEW k, NEW w, memory' = [memory EXCEPT ![k] = w],
         w = Absent \/ v <= w
  PROVE  Old(v)'
<1>1. /\ v \in Nat /\ sets[v].key \in Texts
      /\ memory \in [Texts -> {Absent, Odd} \union DOMAIN sets]
  BY BaseFacts, KeysAreTexts DEF BaseInv, TypeOK
<1>2. CASE sets[v].key = k
  BY <1>1, <1>2 DEF Old
<1>3. CASE sets[v].key # k
  BY <1>1, <1>3 DEF Old
<1> QED
  BY <1>2, <1>3

\* The order of values and deadlines holds at the start.
LEMMA ForwardInit == Init => Forward
<1> SUFFICES ASSUME Init PROVE Forward
  OBVIOUS
<1> QED
  BY DEF Init, Forward

\* What the steps of BaseInv say of a new SET, for the two invariants that follow.
LEMMA NewSetFacts ==
  ASSUME BaseInv, NEW k \in Keys, NEW px \in BOOLEAN, NewSet(k, px)
  PROVE  /\ Len(sets) \in Nat /\ DOMAIN sets = 1 .. Len(sets)
         /\ DOMAIN sets' = 1 .. Len(sets) + 1
         /\ sets'[Len(sets) + 1] = [key |-> k, px |-> px]
         /\ \A v \in DOMAIN sets : sets'[v] = sets[v]
         /\ memory' = [memory EXCEPT ![k] = Len(sets) + 1]
         /\ k \in DOMAIN memory
         /\ \A j \in DOMAIN memory : memory[j] < Len(sets) + 1 /\ memory[j] \in Int
<1>1. /\ sets \in Seq(SetType) /\ sets' = Append(sets, [key |-> k, px |-> px])
      /\ memory' = [memory EXCEPT ![k] = Len(sets) + 1] /\ k \in Texts
      /\ memory \in [Texts -> {Absent, Odd} \union DOMAIN sets]
  BY KeysAreTexts DEF BaseInv, SetsOK, NewSet, Store, TypeOK
<1>2. /\ Len(sets) \in Nat /\ DOMAIN sets = 1 .. Len(sets)
      /\ DOMAIN sets' = 1 .. Len(sets) + 1
      /\ sets'[Len(sets) + 1] = [key |-> k, px |-> px]
      /\ \A v \in DOMAIN sets : sets'[v] = sets[v]
  BY <1>1, SetsGrow
<1>3. \A j \in DOMAIN memory : memory[j] \in {Absent, Odd} \union DOMAIN sets
  BY <1>1
<1>4. \A j \in DOMAIN memory : memory[j] < Len(sets) + 1 /\ memory[j] \in Int
  BY <1>2, <1>3 DEF Absent, Odd
<1> QED
  BY <1>1, <1>2, <1>4

\* Every step preserves the order of values and deadlines.
LEMMA ForwardStep == BaseInv /\ BaseInv' /\ Forward /\ [Next]_vars => Forward'
<1> SUFFICES ASSUME BaseInv, BaseInv', Forward, [Next]_vars PROVE Forward'
  OBVIOUS
<1>1. /\ Len(sets) \in Nat /\ DOMAIN sets = 1 .. Len(sets) /\ DOMAIN sets \in SUBSET Nat
      /\ \A v \in DOMAIN sets : sets[v].key \in Keys
      /\ timers \subseteq DOMAIN sets
      /\ \A c \in Conns : pc[c] # "idle" => phase = "up" /\ value[c] \in DOMAIN sets
      /\ pc \in [Conns -> {"idle", "stored", "appended"}] /\ value \in [Conns -> {0} \union DOMAIN sets]
      /\ phase = "up" => next = 0
      /\ phase = "down" => timers = {}
  BY BaseFacts DEF BaseInv, TypeOK, PhaseOK
<1>2. ASSUME UNCHANGED <<memory, sets>> PROVE \A v : Old(v)' <=> Old(v)
  BY <1>2 DEF Old
<1>3. ASSUME NEW c \in Conns, NEW k \in Keys, NEW px \in BOOLEAN, SetStore(c, k, px)
      PROVE  Forward'
  <2>1. /\ NewSet(k, px) /\ phase = "up" /\ phase' = "up" /\ pc[c] = "idle" /\ timers' = timers
        /\ value' = [value EXCEPT ![c] = Len(sets) + 1]
        /\ pc' = [pc EXCEPT ![c] = "stored"]
    BY <1>3 DEF SetStore, Serving
  <2>2. /\ sets'[Len(sets) + 1] = [key |-> k, px |-> px]
        /\ \A v \in DOMAIN sets : sets'[v] = sets[v]
        /\ memory' = [memory EXCEPT ![k] = Len(sets) + 1] /\ k \in DOMAIN memory
    BY <2>1, NewSetFacts
  <2>3. ASSUME NEW v \in DOMAIN sets, Old(v) PROVE Old(v)'
    <3>1. v <= Len(sets) + 1
      BY <1>1
    <3> QED
      BY <2>2, <2>3, <3>1, OldStays
  <2>4. ASSUME NEW v, v = Len(sets) + 1 PROVE Old(v)'
    <3>1. sets'[v].key = k /\ memory'[k] = v
      BY <2>2, <2>4
    <3> QED
      BY <1>1, <2>4, <3>1 DEF Old
  <2>5. ASSUME NEW d \in Conns, pc'[d] # "idle" PROVE Old(value[d])'
    <3>1. PICK v : v = value'[d]
      OBVIOUS
    <3>2. Old(v)'
      <4>1. CASE d = c
        BY <1>1, <2>1, <2>4, <3>1, <4>1
      <4>2. CASE d # c
        BY <1>1, <2>1, <2>3, <2>5, <3>1, <4>2 DEF Forward
      <4> QED
        BY <4>1, <4>2
    <3> QED
      BY <3>1, <3>2 DEF Old
  <2>6. \A v \in timers : sets'[v].px /\ Old(v)'
    BY <1>1, <2>2, <2>3 DEF Forward
  <2> QED
    BY <2>1, <2>5, <2>6 DEF Forward
<1>4. ASSUME NEW c \in Conns, UNCHANGED <<phase, mode, memory, timers, next, value, sets>>,
             pc[c] # "idle", pc' = [pc EXCEPT ![c] = "appended"]
      PROVE  Forward'
  BY <1>1, <1>2, <1>4 DEF Forward, Old
<1>5. ASSUME ProcessGone PROVE Forward'
  BY <1>5 DEF ProcessGone, Forward
<1>6. ASSUME NEW c \in Conns, SetReply(c) PROVE Forward'
  <2>1. /\ pc[c] # "idle" /\ pc' = [pc EXCEPT ![c] = "idle"] /\ value' = [value EXCEPT ![c] = 0]
        /\ timers' = timers \union Deadline(value[c])
        /\ UNCHANGED <<phase, mode, memory, next, sets>>
    BY <1>6 DEF SetReply, ReadyToAnswer
  <2>2. \A v \in timers' : sets'[v].px /\ Old(v)'
    BY <1>2, <2>1 DEF Forward, Deadline
  <2>3. \A d \in Conns : pc'[d] # "idle" => Old(value[d])'
    BY <1>1, <2>1 DEF Forward, Old
  <2>4. phase' # "boot"
    BY <1>1, <2>1
  <2> QED
    BY <2>2, <2>3, <2>4 DEF Forward
<1>7. ASSUME NEW k \in Keys, LinkSet(k) PROVE Forward'
  <2>1. /\ NewSet(k, FALSE) /\ UNCHANGED <<phase, mode, timers, next, pc, value>>
    BY <1>7 DEF LinkSet, serving
  <2>2. /\ \A v \in DOMAIN sets : sets'[v] = sets[v]
        /\ memory' = [memory EXCEPT ![k] = Len(sets) + 1]
    BY <2>1, NewSetFacts
  <2>3. ASSUME NEW v \in DOMAIN sets, Old(v) PROVE Old(v)'
    <3>1. v <= Len(sets) + 1
      BY <1>1
    <3> QED
      BY <2>2, <2>3, <3>1, OldStays
  <2>4. ASSUME NEW d \in Conns, pc'[d] # "idle" PROVE Old(value[d])'
    <3>1. PICK v : v = value[d]
      OBVIOUS
    <3>2. Old(v)'
      BY <1>1, <2>1, <2>3, <2>4, <3>1 DEF Forward
    <3> QED
      BY <2>1, <3>1, <3>2 DEF Old
  <2>5. \A v \in timers : sets'[v].px /\ Old(v)'
    BY <1>1, <2>2, <2>3 DEF Forward
  <2> QED
    BY <2>1, <2>4, <2>5 DEF Forward
<1>8. ASSUME NEW u \in timers, Fire(u) PROVE Forward'
  <2>1. /\ memory' = [memory EXCEPT ![sets[u].key] = Absent] /\ timers' = timers \ {u}
        /\ UNCHANGED <<phase, mode, next, pc, value, sets>>
    BY <1>8 DEF Fire, Store, serving
  <2>2. ASSUME NEW v \in DOMAIN sets, Old(v) PROVE Old(v)'
    BY <1>1, <2>1, <2>2, OldStays
  <2>3. ASSUME NEW d \in Conns, pc'[d] # "idle" PROVE Old(value[d])'
    <3>1. PICK v : v = value[d]
      OBVIOUS
    <3>2. Old(v)'
      BY <1>1, <2>1, <2>2, <2>3, <3>1 DEF Forward
    <3> QED
      BY <2>1, <3>1, <3>2 DEF Old
  <2>4. \A v \in timers' : sets'[v].px /\ Old(v)'
    BY <1>1, <2>1, <2>2 DEF Forward
  <2> QED
    BY <2>1, <2>3, <2>4 DEF Forward
<1>9. ASSUME NEW r \in Roles, Restart(r) PROVE Forward'
  <2>1. /\ phase = "down" /\ phase' = "boot" /\ UNCHANGED <<mode, memory, timers, next, pc, value, sets>>
    BY <1>9 DEF Restart, serving
  <2> QED
    BY <1>1, <2>1 DEF Forward
<1>10. CASE Load
  <2> DEFINE s == Stores[next + 1]
  <2>1. /\ phase = "boot" /\ next < Len(Stores) /\ next' = next + 1
        /\ \/ /\ memory' = [memory EXCEPT ![s.key] = s.value]
              /\ timers' = IF DumpDeadline(s.value) = "future" THEN timers \union {s.value}
                           ELSE timers
           \/ UNCHANGED <<memory, timers>>
        /\ UNCHANGED <<phase, mode, pc, value, sets>>
    BY <1>10 DEF Load, serving, Store
  <2>2. \A c \in Conns : pc'[c] = "idle"
    BY <1>1, <2>1
  <2>3. next \in Nat /\ next < Len(Stores) /\ Len(Stores) \in Nat
    BY <2>1, BaseFacts DEF BaseInv, TypeOK
  <2>4. mode = "aof" \/ mode = "rdb"
    BY StoresType DEF BaseInv
  <2>5. CASE mode = "aof"
    <3>1. timers' = {}
      BY <2>1, <2>5 DEF Forward, DumpDeadline
    <3> QED
      BY <2>1, <2>2, <2>5, <3>1 DEF Forward
  <2>6. CASE mode = "rdb"
    <3>1. /\ Len(Stores) = Len(Dump) /\ DOMAIN Stores = 1 .. Len(Stores)
          /\ DOMAIN Stores = DOMAIN Dump
          /\ \A i \in DOMAIN Dump : Stores[i] = [key |-> Dump[i].key, value |-> i]
      BY <2>6, StoresType DEF BaseInv
    <3>2. next + 1 \in DOMAIN Dump
      BY <2>3, <3>1
    <3>3. s.key = Dump[next + 1].key /\ s.value = next + 1
      <4>1. Stores[next + 1] = [key |-> Dump[next + 1].key, value |-> next + 1]
        BY <3>1, <3>2
      <4> QED
        BY <4>1
    <3>4. /\ next + 1 \in DOMAIN sets
          /\ sets[next + 1] = [key |-> Dump[next + 1].key, px |-> Dump[next + 1].deadline # "none"]
      BY <2>6, <3>2 DEF BaseInv, SetsOK
    <3> HIDE DEF s
    <3>5. timers \subseteq 1 .. next /\ \A v \in timers : v \in DOMAIN sets /\ v <= next + 1 /\ Old(v)
      BY <1>1, <2>1, <2>3, <2>6 DEF Forward
    <3>6. CASE UNCHANGED <<memory, timers>>
      <4>1. timers' \subseteq 1 .. next'
        BY <2>1, <2>3, <3>5, <3>6
      <4> QED
        BY <2>1, <2>2, <2>6, <3>6, <4>1, <1>2 DEF Forward
    <3>7. CASE /\ memory' = [memory EXCEPT ![s.key] = s.value]
               /\ timers' = IF DumpDeadline(s.value) = "future" THEN timers \union {s.value}
                            ELSE timers
      <4>1. ASSUME NEW v \in timers PROVE Old(v)'
        <5>1. v <= s.value
          BY <2>3, <3>3, <3>5
        <5> QED
          BY <2>1, <3>5, <3>7, <5>1, OldStays
      <4>2. ASSUME DumpDeadline(s.value) = "future"
            PROVE  sets'[s.value].px /\ \A v : v = s.value => Old(v)'
        <5>1. Dump[next + 1].deadline = "future"
          BY <2>6, <3>3, <4>2 DEF DumpDeadline
        <5>2. sets'[s.value].px
          <6>1. sets' = sets /\ s.value = next + 1
            BY <2>1, <3>3
          <6>2. sets[next + 1].px = (Dump[next + 1].deadline # "none")
            BY <3>4
          <6>3. Dump[next + 1].deadline # "none"
            BY <5>1
          <6>4. sets[next + 1].px
            BY <6>2, <6>3
          <6> QED
            BY <6>1, <6>4
        <5>3. s.key \in DOMAIN memory
          BY <1>1, <3>3, <3>4, KeysAreTexts DEF BaseInv, TypeOK
        <5>4. sets[s.value].key = s.key /\ memory'[s.key] = s.value
          BY <3>3, <3>4, <3>7, <5>3
        <5> QED
          BY <2>1, <2>3, <3>3, <5>2, <5>4 DEF Old
      <4>3. \A v \in timers' : sets'[v].px /\ Old(v)'
        BY <2>1, <3>7, <4>1, <4>2 DEF Forward
      <4>4. timers' \subseteq 1 .. next'
        BY <2>1, <2>3, <3>3, <3>5, <3>7
      <4> QED
        BY <2>1, <2>2, <2>6, <4>3, <4>4 DEF Forward
    <3> QED
      BY <2>1, <3>6, <3>7
  <2> QED
    BY <2>4, <2>5, <2>6
<1>11. CASE Accept
  <2>1. phase' = "up" /\ UNCHANGED <<mode, memory, timers, pc, value, sets>>
    BY <1>11 DEF Accept, serving
  <2> QED
    BY <2>1 DEF Forward, Old
<1>12. CASE UNCHANGED vars
  BY <1>12 DEF vars, serving, Forward, Old
<1>13. ASSUME NEW c \in Conns, SetAppend(c) PROVE Forward'
  <2>1. pc[c] # "idle" /\ pc' = [pc EXCEPT ![c] = "appended"]
        /\ UNCHANGED <<phase, mode, memory, timers, next, value, sets>>
    BY <1>13 DEF SetAppend, Appends
  <2> QED
    BY <1>4, <2>1
<1>14. ASSUME NEW c \in Conns, NEW cut \in Cuts, SetAppendFails(c, cut) PROVE Forward'
  <2>1. pc[c] # "idle" /\ pc' = [pc EXCEPT ![c] = "appended"]
        /\ UNCHANGED <<phase, mode, memory, timers, next, value, sets>>
    BY <1>14 DEF SetAppendFails, Appends
  <2> QED
    BY <1>4, <2>1
<1>15. PxKeys \subseteq Keys
  BY KeyspaceAssumption
<1> QED
  BY <1>3, <1>5, <1>6, <1>7, <1>8, <1>9, <1>10, <1>11, <1>12, <1>13, <1>14, <1>15
  DEF Next, Set, Fault, Crash, CrashInAppend

\* While clients are served, a step changes a value only forwards or by a deadline.
LEMMA ForwardSteps ==
  ASSUME BaseInv, Forward, [Next]_vars
  PROVE  [Serving /\ Serving' =>
            \A k \in Keys : memory'[k] # memory[k] =>
              \/ memory'[k] > memory[k]
              \/ memory'[k] = Absent /\ \E v \in timers \ timers' :
                   sets[v].key = k /\ (memory[k] = Odd \/ v <= memory[k])]_vars
<1> SUFFICES ASSUME Next, Serving, Serving', NEW k \in Keys, memory'[k] # memory[k]
             PROVE  \/ memory'[k] > memory[k]
                    \/ memory'[k] = Absent /\ \E v \in timers \ timers' :
                         sets[v].key = k /\ (memory[k] = Odd \/ v <= memory[k])
  BY DEF vars
<1>1. /\ memory \in [Texts -> {Absent, Odd} \union DOMAIN sets] /\ Keys \subseteq Texts
      /\ \A v \in DOMAIN sets : sets[v].key \in Keys
      /\ timers \subseteq DOMAIN sets
  BY BaseFacts, KeysAreTexts DEF BaseInv, TypeOK
<1>2. ASSUME NEW j \in Keys, NEW px \in BOOLEAN, NewSet(j, px) PROVE memory'[k] > memory[k]
  <2>1. /\ memory' = [memory EXCEPT ![j] = Len(sets) + 1] /\ Len(sets) \in Nat
        /\ memory[k] < Len(sets) + 1 /\ memory[k] \in Int
    BY <1>1, <1>2, NewSetFacts
  <2>2. j = k
    BY <1>1, <2>1
  <2> QED
    BY <1>1, <2>1, <2>2
<1>3. ASSUME NEW v \in timers, Fire(v)
      PROVE  memory'[k] = Absent /\ \E u \in timers \ timers' :
               sets[u].key = k /\ (memory[k] = Odd \/ u <= memory[k])
  <2>1. /\ memory' = [memory EXCEPT ![sets[v].key] = Absent] /\ timers' = timers \ {v}
    BY <1>3 DEF Fire, Store
  <2>2. sets[v].key = k /\ memory'[k] = Absent
    BY <1>1, <2>1
  <2>3. Old(v)
    BY DEF Forward
  <2> QED
    BY <2>1, <2>2, <2>3 DEF Old
<1>4. PxKeys \subseteq Keys
  BY KeyspaceAssumption
<1>5. \/ \E j \in Keys, px \in BOOLEAN : NewSet(j, px)
      \/ \E v \in timers : Fire(v)
      \/ memory' = memory \/ phase # "up" \/ phase' # "up"
  <2>1. ASSUME NEW c \in Conns, Set(c) PROVE memory' = memory \/ \E j \in Keys, px \in BOOLEAN : NewSet(j, px)
    BY <1>4, <2>1 DEF Set, SetStore, SetAppend, SetReply
  <2>2. ASSUME NEW c \in Conns, Fault(c) PROVE memory' = memory \/ phase' # "up"
    BY <2>2 DEF Fault, SetAppendFails, CrashInAppend, ProcessGone
  <2>3. ASSUME NEW j \in Keys, LinkSet(j) PROVE NewSet(j, FALSE)
    BY <2>3 DEF LinkSet
  <2>4. Crash => phase' # "up"
    BY DEF Crash, ProcessGone
  <2>5. \A r \in Roles : Restart(r) => phase' # "up"
    BY DEF Restart
  <2>6. Load \/ Accept => phase # "up"
    BY DEF Load, Accept, Loaded
  <2> QED
    BY <2>1, <2>2, <2>3, <2>4, <2>5, <2>6 DEF Next
<1> QED
  BY <1>2, <1>3, <1>5 DEF Serving

\* While clients are served a value gives way only to a newer one, or goes at its
\* own deadline or that of an older SET of the key.
THEOREM OnlyForward == Spec => ValuesGoForward
<1>1. Init => BaseInv /\ Forward
  BY BaseInit, ForwardInit
<1>2. BaseInv /\ Forward /\ [Next]_vars => (BaseInv /\ Forward)'
  BY BaseStep, ForwardStep
<1>3. BaseInv /\ Forward /\ [Next]_vars =>
        [Serving /\ Serving' =>
           \A k \in Keys : memory'[k] # memory[k] =>
             \/ memory'[k] > memory[k]
             \/ memory'[k] = Absent /\ \E v \in timers \ timers' :
                  sets[v].key = k /\ (memory[k] = Odd \/ v <= memory[k])]_vars
  BY ForwardSteps
<1> QED
  BY <1>1, <1>2, <1>3, PTL DEF Spec, ValuesGoForward

-----------------------------------------------------------------------------
(* Memory and file agree. *)

\* The value of a key after the first n stores.
ReadSoFar(stores, n, k, w) ==
  \/ w = Absent /\ \A i \in 1 .. n : stores[i].key # k
  \/ \E i \in 1 .. n : /\ stores[i].key = k /\ stores[i].value = w
                       /\ \A j \in 1 .. n : j > i => stores[j].key # k

\* The SETs of a key that are stored and not appended.
StoredOf(k) == {c \in Conns : pc[c] = "stored" /\ KeySet(c) = k}

\* A deadline has deleted the key.
Gone(k) == memory[k] = Absent /\ \E v \in DOMAIN sets : sets[v].key = k /\ sets[v].px

\* Two SETs were stored in one order and appended in the other.
Crossed(k) == \E i, j \in DOMAIN log : /\ i < j /\ log[i].set > log[j].set
                                       /\ KeyOf(i) = k /\ KeyOf(j) = k

\* The value is that of the newest SET, appended or about to be.
Fresh(k) ==
  /\ \A i \in DOMAIN log : KeyOf(i) = k => log[i].set <= memory[k]
  /\ \A c \in StoredOf(k) : value[c] <= memory[k]
  /\ \/ \E i \in DOMAIN log : KeyOf(i) = k /\ log[i].set = memory[k]
     \/ \E c \in StoredOf(k) : value[c] = memory[k]

Unwritten(k) ==
  /\ memory[k] = Absent /\ \A i \in DOMAIN log : KeyOf(i) # k
  /\ StoredOf(k) = {}

\* What a boot read of a damaged key, and no SET of it since.
Harmed(k) == k \in Damaged /\ StoredOf(k) = {}

Settled(k) == Gone(k) \/ Crossed(k) \/ Fresh(k) \/ Unwritten(k) \/ Harmed(k)

Match ==
  role = "master" /\ mode = "aof" =>
    /\ phase = "boot" => \A k \in Texts : ReadSoFar(Stores, next, k, memory[k])
    /\ phase = "up" => \A k \in Texts : Settled(k)

\* Damage is of the appends alone.
LEMMA DamagedStays == UNCHANGED <<log, sets>> => Damaged' = Damaged
<1> SUFFICES ASSUME UNCHANGED <<log, sets>> PROVE Damaged' = Damaged
  OBVIOUS
<1>1. \A i : /\ KeyOf(i)' = KeyOf(i) /\ Intact(i)' = Intact(i) /\ Words(i)' = Words(i)
            /\ \A T : Left(i, T)' = Left(i, T)
  BY DEF KeyOf, Intact, Words, Left
<1>2. Wild' = Wild
  BY <1>1 DEF Wild
<1>3. \A i : Says(i)' = Says(i)
  BY <1>1 DEF Says
<1> DEFINE Harm(j) == {k \in Says(j) : ~\E m \in (j + 1) .. Len(log) : Intact(m) /\ KeyOf(m) = k}
           More(j) == {k \in Says(j)' : ~\E m \in (j + 1) .. Len(log) : Intact(m)' /\ KeyOf(m)' = k}
<1>4. \A j : More(j) = Harm(j)
  BY <1>1, <1>3
<1>5. Damaged = IF Wild THEN Texts ELSE UNION {Harm(i) : i \in {j \in DOMAIN log : ~Intact(j)}}
  BY DEF Damaged
<1>6. Damaged' = IF Wild' THEN Texts
                 ELSE UNION {More(i) : i \in {j \in DOMAIN log : ~Intact(j)'}}
  BY DEF Damaged
<1> HIDE DEF Harm, More
<1> QED
  BY <1>1, <1>2, <1>4, <1>5, <1>6

\* The invariant gives the property: a value that is the newest appended is the
\* last appended, or two appends have crossed.
LEMMA MatchMeans ==
  ASSUME BaseInv, Match
  PROVE  MemoryMatchesFile
<1> SUFFICES ASSUME phase = "up", role = "master", mode = "aof",
                    \A c \in Conns : pc[c] = "idle", NEW k \in Texts, k \notin Damaged
             PROVE  \/ memory[k] = OnFile(k)
                    \/ memory[k] = Absent /\ \E v \in DOMAIN sets : sets[v].key = k /\ sets[v].px
                    \/ \E i, j \in DOMAIN log : /\ i < j /\ log[i].set > log[j].set
                                                /\ KeyOf(i) = k /\ KeyOf(j) = k
  BY DEF MemoryMatchesFile, Serving
<1>1. StoredOf(k) = {}
  BY DEF StoredOf
<1>2. LogLast(k, OnFile(k))
  BY OnFileIsLast
<1>3. /\ DOMAIN log \in SUBSET Int /\ \A i \in DOMAIN log : log[i].set \in Int
  BY BaseFacts
<1>4. CASE Fresh(k)
  <2>1. PICK i \in DOMAIN log : KeyOf(i) = k /\ log[i].set = memory[k]
    BY <1>1, <1>4 DEF Fresh
  <2>2. PICK j \in DOMAIN log : /\ log[j].set = OnFile(k) /\ KeyOf(j) = k
                               /\ \A m \in DOMAIN log : m > j => KeyOf(m) # k
    BY <1>2, <2>1 DEF LogLast
  <2>3. log[j].set <= log[i].set
    BY <1>4, <2>1, <2>2 DEF Fresh
  <2>4. i < j \/ i = j
    BY <1>3, <2>1, <2>2
  <2> QED
    BY <1>3, <2>1, <2>2, <2>3, <2>4
<1>5. CASE Unwritten(k)
  BY <1>2, <1>5 DEF Unwritten, LogLast
<1>6. Settled(k)
  BY DEF Match
<1> QED
  BY <1>4, <1>5, <1>6 DEF Settled, Gone, Crossed, Harmed

\* When the whole file has been read every key is settled.
LEMMA ReadAll ==
  ASSUME BaseInv, mode = "aof", \A c \in Conns : pc[c] = "idle", NEW k \in Texts,
         ReadSoFar(Stores, Len(Stores), k, memory[k])
  PROVE  Settled(k)
<1>1. /\ Stores = AOFParser(file) /\ Stores \in Seq(StoreSet(DOMAIN sets))
      /\ DOMAIN Stores = 1 .. Len(Stores)
  BY StoresType DEF BaseInv
<1>2. After(Stores, k, Absent, memory[k])
  BY <1>1 DEF ReadSoFar, After
<1>3. After(Stores, k, Absent, OnFile(k))
  BY <1>1, OnFileIs
<1>4. memory[k] = OnFile(k)
  BY <1>1, <1>2, <1>3, AfterUnique
<1>5. StoredOf(k) = {}
  BY DEF StoredOf
<1>6. CASE k \in Damaged
  BY <1>5, <1>6 DEF Settled, Harmed
<1>7. CASE k \notin Damaged
  <2>1. LogLast(k, OnFile(k))
    BY <1>7, OnFileIsLast
  <2>2. CASE OnFile(k) = Absent /\ \A i \in DOMAIN log : KeyOf(i) # k
    BY <1>4, <1>5, <2>2 DEF Settled, Unwritten
  <2>3. CASE \E i \in DOMAIN log : /\ log[i].set = OnFile(k) /\ KeyOf(i) = k
                                  /\ \A j \in DOMAIN log : j > i => KeyOf(j) # k
    <3>1. PICK i \in DOMAIN log : /\ log[i].set = OnFile(k) /\ KeyOf(i) = k
                                 /\ \A j \in DOMAIN log : j > i => KeyOf(j) # k
      BY <2>3
    <3>2. DOMAIN log \in SUBSET Int /\ \A j \in DOMAIN log : log[j].set \in Int
      BY BaseFacts
    <3>3. CASE \A j \in DOMAIN log : KeyOf(j) = k => log[j].set <= log[i].set
      BY <1>4, <1>5, <3>1, <3>3 DEF Settled, Fresh
    <3>4. CASE ~\A j \in DOMAIN log : KeyOf(j) = k => log[j].set <= log[i].set
      <4>1. PICK j \in DOMAIN log : KeyOf(j) = k /\ ~(log[j].set <= log[i].set)
        BY <3>4
      <4>2. j < i /\ log[j].set > log[i].set
        BY <3>1, <3>2, <4>1
      <4> QED
        BY <3>1, <4>1, <4>2 DEF Settled, Crossed
    <3> QED
      BY <3>3, <3>4
  <2> QED
    BY <2>1, <2>2, <2>3 DEF LogLast
<1> QED
  BY <1>6, <1>7

\* An append settles what it settled: the SET it was about to append is appended.
LEMMA SettledAppend ==
  ASSUME BaseInv, NEW c \in Conns, Appends(c), UNCHANGED <<memory, value, sets>>,
         NEW kept \in {"whole", "none", "torn"},
         log' = Append(log, [set |-> value[c], kept |-> kept]),
         pc' = [pc EXCEPT ![c] = "appended"],
         NEW k \in Texts, Settled(k)
  PROVE  Settled(k)'
<1>0. PICK w : w = value[c]
  OBVIOUS
<1>1. PICK n : n = Len(log)
  OBVIOUS
<1> DEFINE e == [set |-> w, kept |-> kept]
<1>2. /\ w \in DOMAIN sets /\ w \in Nat /\ pc \in [Conns -> {"idle", "stored", "appended"}]
      /\ log \in Seq(LogEntry) /\ pc[c] = "stored"
  BY <1>0, BaseFacts DEF BaseInv, PhaseOK, TypeOK, Appends, LogOK
<1>3. e \in LogEntry /\ e.set = w
  BY <1>2 DEF LogEntry
<1> HIDE DEF e
<1>4. /\ n \in Nat /\ DOMAIN log = 1 .. n /\ DOMAIN log' = 1 .. n + 1
      /\ log'[n + 1] = e /\ \A i \in 1 .. n : log'[i] = log[i]
  BY <1>0, <1>1, <1>2, <1>3, LogAppended DEF e
<1>5. /\ \A i \in DOMAIN log : i \in DOMAIN log' /\ log'[i].set = log[i].set /\ KeyOf(i)' = KeyOf(i)
      /\ n + 1 \in DOMAIN log' /\ log'[n + 1].set = w /\ KeyOf(n + 1)' = KeySet(c)
      /\ \A i \in DOMAIN log' : i \in DOMAIN log \/ i = n + 1
  BY <1>0, <1>3, <1>4 DEF KeyOf, KeySet
<1>6. /\ \A j : StoredOf(j)' = StoredOf(j) \ {c}
      /\ c \in StoredOf(KeySet(c)) /\ \A j : c \in StoredOf(j) => j = KeySet(c)
  BY <1>2 DEF StoredOf, KeySet
<1>7. CASE Gone(k)
  BY <1>7 DEF Gone, Settled
<1>8. CASE Crossed(k)
  <2>1. Crossed(k)'
    BY <1>5, <1>8 DEF Crossed
  <2> QED
    BY <2>1 DEF Settled
<1>9. CASE Fresh(k)
  <2>1. \A i \in DOMAIN log' : KeyOf(i)' = k => log'[i].set <= memory[k]
    <3> SUFFICES ASSUME NEW i \in DOMAIN log', KeyOf(i)' = k PROVE log'[i].set <= memory[k]
      OBVIOUS
    <3>1. CASE i \in DOMAIN log
      BY <1>5, <1>9, <3>1 DEF Fresh
    <3>2. CASE i = n + 1
      BY <1>0, <1>5, <1>6, <1>9, <3>2 DEF Fresh
    <3> QED
      BY <1>5, <3>1, <3>2
  <2>2. \A d \in StoredOf(k)' : value[d] <= memory[k]
    BY <1>6, <1>9 DEF Fresh
  <2>3. \/ \E i \in DOMAIN log' : KeyOf(i)' = k /\ log'[i].set = memory[k]
        \/ \E d \in StoredOf(k)' : value[d] = memory[k]
    <3>1. CASE \E i \in DOMAIN log : KeyOf(i) = k /\ log[i].set = memory[k]
      BY <1>5, <3>1
    <3>2. CASE \E d \in StoredOf(k) : value[d] = memory[k]
      <4>1. PICK d \in StoredOf(k) : value[d] = memory[k]
        BY <3>2
      <4>2. CASE d = c
        BY <1>0, <1>5, <1>6, <4>1, <4>2
      <4>3. CASE d # c
        BY <1>6, <4>1, <4>3
      <4> QED
        BY <4>2, <4>3
    <3> QED
      BY <1>9, <3>1, <3>2 DEF Fresh
  <2>4. Fresh(k)'
    BY <2>1, <2>2, <2>3 DEF Fresh
  <2> QED
    BY <2>4 DEF Settled
<1>10. CASE Unwritten(k)
  <2>1. k # KeySet(c) /\ StoredOf(k)' = {}
    BY <1>6, <1>10 DEF Unwritten
  <2>2. Unwritten(k)'
    BY <1>5, <1>10, <2>1 DEF Unwritten
  <2> QED
    BY <2>2 DEF Settled
<1>11. CASE Harmed(k)
  <2>1. k # sets[w].key /\ StoredOf(k)' = {}
    BY <1>0, <1>6, <1>11 DEF Harmed, KeySet
  <2>2. PICK key \in Keys : key = sets[w].key
    BY <1>2, BaseFacts
  <2>3. log' = Append(log, [set |-> w, kept |-> kept]) /\ w \in 1 .. MaxSets /\ k # key
    BY <1>0, <1>2, <2>1, <2>2, BaseFacts
  <2>4. k \notin Damaged' /\ k # key => k \notin Damaged
    BY <1>2, <2>2, <2>3, LogStep
  <2>5. k \in Damaged'
    BY <1>11, <2>3, <2>4 DEF Harmed
  <2> QED
    BY <2>1, <2>5 DEF Settled, Harmed
<1> QED
  BY <1>7, <1>8, <1>9, <1>10, <1>11 DEF Settled

\* A new SET is the newest.
LEMMA SettledNew ==
  ASSUME BaseInv, NEW c \in Conns, NEW j \in Keys, NEW px \in BOOLEAN, SetStore(c, j, px),
         NEW k \in Texts, Settled(k)
  PROVE  Settled(k)'
<1>1. /\ NewSet(j, px) /\ pc[c] = "idle" /\ log' = log /\ file' = file
      /\ value' = [value EXCEPT ![c] = Len(sets) + 1]
      /\ pc' = [pc EXCEPT ![c] = "stored"]
      /\ UNCHANGED <<role, mode, disk, acked>>
  BY DEF SetStore, disk
<1>2. /\ Len(sets) \in Nat /\ DOMAIN sets = 1 .. Len(sets)
      /\ DOMAIN sets' = 1 .. Len(sets) + 1
      /\ sets'[Len(sets) + 1] = [key |-> j, px |-> px]
      /\ \A v \in DOMAIN sets : sets'[v] = sets[v]
      /\ memory' = [memory EXCEPT ![j] = Len(sets) + 1]
      /\ j \in DOMAIN memory
      /\ \A i \in DOMAIN memory : memory[i] < Len(sets) + 1 /\ memory[i] \in Int
  BY <1>1, NewSetFacts
<1>3. PICK n : n = Len(sets) + 1
  OBVIOUS
<1>4. /\ pc \in [Conns -> {"idle", "stored", "appended"}]
      /\ value \in [Conns -> {0} \union DOMAIN sets]
      /\ \A d \in Conns : pc[d] # "idle" => value[d] \in DOMAIN sets
      /\ \A i \in DOMAIN log : log[i].set \in DOMAIN sets
  BY BaseFacts DEF BaseInv, TypeOK, PhaseOK
<1>5. \A i \in DOMAIN log : KeyOf(i)' = KeyOf(i)
  BY <1>1, <1>2, <1>4 DEF KeyOf
<1>6. /\ \A d \in Conns : d # c => pc'[d] = pc[d] /\ value'[d] = value[d]
      /\ value'[c] = n /\ pc'[c] = "stored" /\ sets'[n].key = j /\ memory'[j] = n
  BY <1>1, <1>2, <1>3, <1>4
<1>7. /\ \A i : i # j => StoredOf(i)' = StoredOf(i)
      /\ c \in StoredOf(j)'
      /\ \A d \in StoredOf(j)' : d = c \/ d \in StoredOf(j)
      /\ \A d \in StoredOf(j) : value[d] \in DOMAIN sets
  <2>1. \A d \in Conns : d # c /\ pc[d] # "idle" => KeySet(d)' = KeySet(d)
    BY <1>2, <1>4, <1>6 DEF KeySet
  <2>2. KeySet(c)' = j
    BY <1>6 DEF KeySet
  <2>3. \A i, d : d # c => (d \in StoredOf(i)' <=> d \in StoredOf(i))
    BY <1>6, <2>1 DEF StoredOf
  <2>4. \A i : (c \in StoredOf(i)' <=> i = j) /\ c \notin StoredOf(i)
    BY <1>1, <1>6, <2>2 DEF StoredOf
  <2> QED
    BY <1>4, <2>3, <2>4 DEF StoredOf
<1>8. CASE k = j
  <2>1. \A i \in DOMAIN log' : log'[i].set <= n
    BY <1>1, <1>2, <1>3, <1>4
  <2>2. \A d \in StoredOf(j)' : value'[d] <= n
    <3> SUFFICES ASSUME NEW d \in StoredOf(j)' PROVE value'[d] <= n
      OBVIOUS
    <3>1. d \in Conns
      BY DEF StoredOf
    <3>2. CASE d = c
      BY <1>2, <1>3, <1>6, <3>2
    <3>3. CASE d # c
      <4>1. value'[d] = value[d] /\ value[d] \in DOMAIN sets
        BY <1>6, <1>7, <3>1, <3>3
      <4> QED
        BY <1>2, <1>3, <4>1
    <3> QED
      BY <3>2, <3>3
  <2>3. Fresh(j)'
    BY <1>6, <1>7, <2>1, <2>2 DEF Fresh
  <2> QED
    BY <1>8, <2>3 DEF Settled
<1>9. CASE k # j
  <2>1. memory'[k] = memory[k] /\ StoredOf(k)' = StoredOf(k)
    BY <1>2, <1>7, <1>9
  <2>2. \A d \in StoredOf(k) : value'[d] = value[d]
    BY <1>1, <1>6 DEF StoredOf
  <2>3. Damaged' = Damaged
    BY <1>1, BaseNewSet
  <2>4. CASE Gone(k)
    BY <1>2, <2>1, <2>4 DEF Settled, Gone
  <2>5. CASE Crossed(k)
    BY <1>1, <1>5, <2>5 DEF Settled, Crossed
  <2>6. CASE Fresh(k)
    <3>1. Fresh(k)'
      BY <1>1, <1>5, <2>1, <2>2, <2>6 DEF Fresh
    <3> QED
      BY <3>1 DEF Settled
  <2>7. CASE Unwritten(k)
    BY <1>1, <1>5, <2>1, <2>7 DEF Settled, Unwritten
  <2>8. CASE Harmed(k)
    BY <2>1, <2>3, <2>8 DEF Settled, Harmed
  <2> QED
    BY <2>4, <2>5, <2>6, <2>7, <2>8 DEF Settled
<1> QED
  BY <1>8, <1>9

\* Nothing else than these variables matters.
LEMMA SettledStays ==
  ASSUME UNCHANGED <<memory, pc, value, file, log, sets>>, NEW k, Settled(k)
  PROVE  Settled(k)'
<1>1. /\ StoredOf(k)' = StoredOf(k)
      /\ \A i : KeyOf(i)' = KeyOf(i)
  BY DEF StoredOf, KeySet, KeyOf
<1>2. Damaged' = Damaged
  BY DamagedStays
<1>3. (Gone(k) => Gone(k)') /\ (Crossed(k) => Crossed(k)')
  BY <1>1 DEF Gone, Crossed
<1>4. Fresh(k) => Fresh(k)'
  BY <1>1 DEF Fresh
<1>5. (Unwritten(k) => Unwritten(k)') /\ (Harmed(k) => Harmed(k)')
  BY <1>1, <1>2 DEF Unwritten, Harmed
<1> QED
  BY <1>3, <1>4, <1>5 DEF Settled

\* Memory and file agree at the start.
LEMMA MatchInit == Init => Match
<1> SUFFICES ASSUME Init PROVE Match
  OBVIOUS
<1> QED
  BY DEF Init, Match, ReadSoFar

\* Every step preserves the agreement of memory and file.
LEMMA MatchStep == BaseInv /\ Forward /\ Match /\ [Next]_vars => Match'
<1> SUFFICES ASSUME BaseInv, Forward, Match, [Next]_vars, role' = "master", mode' = "aof",
                    NEW k \in Texts
             PROVE  /\ phase' = "boot" => ReadSoFar(Stores, next, k, memory[k])'
                    /\ phase' = "up" => Settled(k)'
  BY DEF Match
<1>1. /\ timers \subseteq DOMAIN sets /\ \A v \in DOMAIN sets : sets[v].key \in Keys
      /\ \A v \in timers : sets[v].px
      /\ memory \in [Texts -> {Absent, Odd} \union DOMAIN sets]
      /\ \A c \in Conns : pc[c] # "idle" => phase = "up"
      /\ pc \in [Conns -> {"idle", "stored", "appended"}]
      /\ next \in 0 .. Len(Stores) /\ Len(Stores) \in Nat
  BY BaseFacts DEF BaseInv, TypeOK, PhaseOK, Forward
<1>2. ASSUME phase = "up", role = "master", mode = "aof" PROVE Settled(k)
  BY <1>2 DEF Match
<1>3. ASSUME NEW c \in Conns, NEW j \in Keys, NEW px \in BOOLEAN, SetStore(c, j, px)
      PROVE  phase' = "up" /\ Settled(k)'
  <2>1. phase = "up" /\ phase' = "up" /\ role = "master" /\ mode = "aof"
    BY <1>3 DEF SetStore, Serving
  <2> QED
    BY <1>2, <1>3, <2>1, SettledNew
<1>4. ASSUME NEW c \in Conns, Appends(c), UNCHANGED <<phase, role, mode, memory, value, sets>>,
             NEW kept \in {"whole", "none", "torn"},
             log' = Append(log, [set |-> value[c], kept |-> kept]),
             pc' = [pc EXCEPT ![c] = "appended"]
      PROVE  phase' = "up" /\ Settled(k)'
  <2>1. phase = "up" /\ phase' = "up" /\ role = "master" /\ mode = "aof"
    BY <1>1, <1>4 DEF Appends
  <2>2. Settled(k)
    BY <1>2, <2>1
  <2> QED
    BY <1>4, <2>1, <2>2, SettledAppend
<1>5. ASSUME NEW c \in Conns, SetAppend(c) PROVE phase' = "up" /\ Settled(k)'
  BY <1>4, <1>5 DEF SetAppend
<1>6. ASSUME NEW c \in Conns, NEW cut \in Cuts, SetAppendFails(c, cut)
      PROVE  phase' = "up" /\ Settled(k)'
  <2>1. PICK kept \in {"whole", "none", "torn"} :
          kept = IF cut = <<0, "none">> THEN "none" ELSE "torn"
    OBVIOUS
  <2>2. /\ Appends(c) /\ UNCHANGED <<phase, role, mode, memory, value, sets>>
        /\ log' = Append(log, [set |-> value[c], kept |-> kept])
        /\ pc' = [pc EXCEPT ![c] = "appended"]
    BY <1>6, <2>1 DEF SetAppendFails, WriteStops
  <2> QED
    BY <1>4, <2>2
<1>7. ASSUME NEW c \in Conns, SetReply(c) PROVE phase' = "up" /\ Settled(k)'
  <2>1. /\ pc[c] = "appended" /\ pc' = [pc EXCEPT ![c] = "idle"]
        /\ value' = [value EXCEPT ![c] = 0]
        /\ UNCHANGED <<phase, role, mode, memory, file, log, sets>>
        /\ role = "master" /\ mode = "aof"
    BY <1>7 DEF SetReply, ReadyToAnswer, Appends, disk
  <2>2. phase = "up" /\ Settled(k)
    BY <1>1, <1>2, <2>1
  <2>3. StoredOf(k)' = StoredOf(k) /\ \A d \in StoredOf(k) : value'[d] = value[d]
    <3>1. \A d \in Conns : d # c => pc'[d] = pc[d] /\ value'[d] = value[d] /\ KeySet(d)' = KeySet(d)
      <4>1. value \in [Conns -> {0} \union DOMAIN sets]
        BY DEF BaseInv, TypeOK
      <4> QED
        BY <1>1, <2>1, <4>1 DEF KeySet
    <3>2. pc'[c] # "stored" /\ pc[c] # "stored"
      BY <1>1, <2>1
    <3> QED
      BY <3>1, <3>2 DEF StoredOf
  <2>4. Damaged' = Damaged /\ \A i : KeyOf(i)' = KeyOf(i)
    BY <2>1, DamagedStays DEF KeyOf
  <2>5. Fresh(k) => Fresh(k)'
    BY <2>1, <2>3, <2>4 DEF Fresh
  <2>6. (Gone(k) => Gone(k)') /\ (Crossed(k) => Crossed(k)')
    BY <2>1, <2>4 DEF Gone, Crossed
  <2>7. (Unwritten(k) => Unwritten(k)') /\ (Harmed(k) => Harmed(k)')
    BY <2>1, <2>3, <2>4 DEF Unwritten, Harmed
  <2> QED
    BY <2>1, <2>2, <2>5, <2>6, <2>7 DEF Settled
<1>8. ASSUME NEW v \in timers, Fire(v)
      PROVE  phase' = "up" /\ Settled(k)'
  <2>1. /\ memory' = [memory EXCEPT ![sets[v].key] = Absent]
        /\ UNCHANGED <<phase, role, mode, next, pc, value, file, log, sets>>
    BY <1>8 DEF Fire, Store, serving, disk
  <2>2. phase = "up" /\ Settled(k)
    <3>1. phase # "boot"
      BY <2>1 DEF Forward
    <3>2. phase # "down"
      BY DEF BaseInv, PhaseOK
    <3>3. phase \in {"down", "boot", "up"}
      BY DEF BaseInv, TypeOK
    <3> QED
      BY <1>2, <2>1, <3>1, <3>2, <3>3
  <2>3. CASE k = sets[v].key
    <3>1. memory'[k] = Absent /\ sets'[v].px /\ sets'[v].key = k /\ v \in DOMAIN sets'
      BY <1>1, <2>1, <2>3
    <3> QED
      BY <2>1, <2>2, <3>1 DEF Settled, Gone
  <2>4. CASE k # sets[v].key
    <3>1. memory'[k] = memory[k]
      BY <1>1, <2>1, <2>4
    <3>2. /\ StoredOf(k)' = StoredOf(k) /\ Damaged' = Damaged /\ \A i : KeyOf(i)' = KeyOf(i)
      BY <2>1, DamagedStays DEF StoredOf, KeySet, KeyOf
    <3>3. Fresh(k) => Fresh(k)'
      BY <2>1, <3>1, <3>2 DEF Fresh
    <3>4. (Gone(k) => Gone(k)') /\ (Crossed(k) => Crossed(k)')
      BY <2>1, <3>1, <3>2 DEF Gone, Crossed
    <3>5. (Unwritten(k) => Unwritten(k)') /\ (Harmed(k) => Harmed(k)')
      BY <2>1, <3>1, <3>2 DEF Unwritten, Harmed
    <3> QED
      BY <2>1, <2>2, <3>3, <3>4, <3>5 DEF Settled
  <2> QED
    BY <2>3, <2>4
<1>9. ASSUME NEW j \in Keys, LinkSet(j) PROVE FALSE
  BY <1>9 DEF LinkSet
<1>10. ASSUME ProcessGone PROVE phase' = "down"
  BY <1>10 DEF ProcessGone
<1>11. ASSUME NEW r \in Roles, Restart(r)
       PROVE  phase' = "boot" /\ ReadSoFar(Stores, next, k, memory[k])'
  <2>1. next' = 0 /\ memory'[k] = Absent /\ phase' = "boot"
    BY <1>11 DEF Restart, BaseInv, PhaseOK
  <2> QED
    BY <2>1 DEF ReadSoFar
<1>12. ASSUME Load PROVE phase' = "boot" /\ ReadSoFar(Stores, next, k, memory[k])'
  <2>1. PICK n : n = next + 1
    OBVIOUS
  <2>2. PICK s : s = Stores
    OBVIOUS
  <2>3. /\ phase = "boot" /\ phase' = "boot" /\ next < Len(s) /\ next' = n
        /\ role = "master" /\ mode = "aof" /\ mode' = mode /\ file' = file
    BY <1>12, <2>1, <2>2 DEF Load, disk
  <2>4. memory' = [memory EXCEPT ![s[n].key] = s[n].value]
    BY <1>12, <2>1, <2>2, <2>3 DEF Load, Store, DumpDeadline
  <2>5. Stores' = s
    BY <2>2, <2>3 DEF Stores
  <2>6. ReadSoFar(s, next, k, memory[k])
    BY <2>2, <2>3 DEF Match
  <2>7. n \in 1 .. n /\ next \in Nat /\ n \in Nat /\ 1 .. n = 1 .. next \union {n}
        /\ \A i \in 1 .. next : n > i /\ i \in 1 .. n
    BY <1>1, <2>1
  <2>8. CASE s[n].key = k
    <3>1. memory'[k] = s[n].value
      BY <1>1, <2>4, <2>8
    <3>2. \A j \in 1 .. n : ~(j > n)
      BY <2>7
    <3> QED
      BY <2>3, <2>5, <2>7, <2>8, <3>1, <3>2 DEF ReadSoFar
  <2>9. CASE s[n].key # k
    <3>1. memory'[k] = memory[k]
      BY <1>1, <2>4, <2>9
    <3>2. CASE memory[k] = Absent /\ \A i \in 1 .. next : s[i].key # k
      <4>1. \A i \in 1 .. n : s[i].key # k
        BY <2>7, <2>9, <3>2
      <4> QED
        BY <2>3, <2>5, <3>1, <3>2, <4>1 DEF ReadSoFar
    <3>3. CASE \E i \in 1 .. next : /\ s[i].key = k /\ s[i].value = memory[k]
                                    /\ \A j \in 1 .. next : j > i => s[j].key # k
      <4>1. PICK i \in 1 .. next : /\ s[i].key = k /\ s[i].value = memory[k]
                                   /\ \A j \in 1 .. next : j > i => s[j].key # k
        BY <3>3
      <4>2. i \in 1 .. n /\ \A j \in 1 .. n : j > i => s[j].key # k
        BY <2>7, <2>9, <4>1
      <4> QED
        BY <2>3, <2>5, <3>1, <4>1, <4>2 DEF ReadSoFar
    <3> QED
      BY <2>6, <3>2, <3>3 DEF ReadSoFar
  <2> QED
    BY <2>8, <2>9
<1>13. ASSUME Accept PROVE phase' = "up" /\ Settled(k)'
  <2>1. /\ phase = "boot" /\ next = Len(Stores) /\ phase' = "up"
        /\ UNCHANGED <<role, mode, memory, pc, value, file, log, sets>>
    BY <1>13 DEF Accept, Loaded, serving, disk
  <2>2. \A c \in Conns : pc[c] = "idle"
    BY <1>1, <2>1
  <2>3. ReadSoFar(Stores, Len(Stores), k, memory[k])
    BY <2>1 DEF Match
  <2>4. Settled(k)
    BY <2>1, <2>2, <2>3, ReadAll
  <2>5. Settled(k)'
    BY <2>1, <2>4, SettledStays
  <2> QED
    BY <2>1, <2>5
<1>14. ASSUME UNCHANGED vars
       PROVE  /\ phase' = "boot" => ReadSoFar(Stores, next, k, memory[k])'
              /\ phase' = "up" => Settled(k)'
  <2>1. UNCHANGED <<phase, role, mode, memory, next, pc, value, file, log, sets>>
    BY <1>14 DEF vars, serving, disk
  <2>2. phase = "boot" => ReadSoFar(Stores, next, k, memory[k])'
    <3>1. Stores' = Stores /\ memory' = memory /\ next' = next
      BY <2>1 DEF Stores
    <3>2. phase = "boot" => ReadSoFar(Stores, next, k, memory[k])
      BY <2>1 DEF Match
    <3> QED
      BY <3>1, <3>2 DEF ReadSoFar
  <2>3. phase = "up" => Settled(k)'
    BY <1>2, <2>1, SettledStays
  <2> QED
    BY <2>1, <2>2, <2>3
<1>15. PxKeys \subseteq Keys
  BY KeyspaceAssumption
<1> QED
  BY <1>3, <1>5, <1>6, <1>7, <1>8, <1>9, <1>10, <1>11, <1>12, <1>13, <1>14, <1>15
  DEF Next, Set, Fault, Crash, CrashInAppend

\* When no SET is under way on a master, memory and file agree on every key that is
\* not damaged, but for a key a deadline has deleted and for SETs that were
\* stored in one order and appended in the other.
THEOREM MemoryIsOnFile == Spec => []MemoryMatchesFile
<1>1. Init => BaseInv /\ Forward /\ Match
  BY BaseInit, ForwardInit, MatchInit
<1>2. BaseInv /\ Forward /\ Match /\ [Next]_vars => (BaseInv /\ Forward /\ Match)'
  BY BaseStep, ForwardStep, MatchStep
<1>3. BaseInv /\ Forward /\ Match => MemoryMatchesFile
  BY MatchMeans
<1> QED
  BY <1>1, <1>2, <1>3, PTL DEF Spec
=============================================================================
